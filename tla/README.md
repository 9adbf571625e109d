# TLA+ models of bbagent

bbagent is a command-line agent that maps the attack surface of a bug-bounty
program it is authorized for. A scope file says what may be touched; passive
sources propose names and URLs; a gate decides each of them; a human approves
every active step; a store keeps what was learned and an audit log keeps what
was done. What makes it correct is mostly what it must *not* do: contact a host
outside the scope, act without authorization or without a yes, exceed the rate
caps, lose or rewrite its record.

This directory models those parts in TLA+, checks them with TLC on small
instances, and proves the most important properties with TLAPS for all
instances. Source paths below are relative to `src/src/bbagent/`; the mapping
of every definition to its lines is in `PROJECT.json`.

## Inventory

| Component | State | Operations | Interacts with | Correct when |
|---|---|---|---|---|
| Scope rules (`scope/canonical.py`, `matcher.py`, `ip_rules.py`, `models.py`) | the loaded `ScopeConfig`, compiled sets and networks | `canonical_host`, `canonical_target`, `decide`, `is_stale` | asked by the kernel for every atom | an exclusion always wins; a name's spelling is irrelevant; a wildcard stays in its registrable domain; every pinned or bare address is clean |
| Scope loader (`scope/loader.py`, `serialize.py`) | none | `load_scope`: missing, example, malformed or stale files are refused | the scope file; every command | nothing runs on a refused file |
| Kernel gate (`kernel/gate.py`) | config, matcher | `scope_check` (decide and record), `active_preconditions_ok` | matcher, store, orchestrator | no decision goes unrecorded; no active phase without authorization |
| Approval (`kernel/approval.py`) | burned fingerprints | `review` (provider), `approve` (broker) | the human; the enumeration loop | one yes, one command, that command |
| Rate governor (`kernel/rate.py`) | semaphore, `_next_free`, lock | `lease` | every outbound unit of work | permits conserved, slots spaced, callers proceed |
| Findings store (`store/store.py`, `models.py`) | SQLite tables | inserts, `upsert_asset`, `update_asset_state`, `update_asset_extra`, selects | audit log, orchestrator | a log line precedes every row; merges lose nothing |
| Audit log (`store/audit.py`) | a hash-chained JSONL file | `append`, `verify_chain` | store, other processes, the disk | verifies exactly when untampered |
| Orchestrator (`orchestrator/orchestrator.py`, `tools/sources.py`, `probes.py`, `dns.py`) | the run's queue and summary; the asset table between runs | `_recon`, `_ingest_urls`, `_dns_enrich`, `_enumerate`, `_analyze`, `run` | all of the above, the outside world | gated probes, justified rows, no host forgotten, runs end |
| Importer (`importer/core.py`) | an accumulating draft | six parsers, `ScopeDraft.add`, `to_scope_config` | the operator's file or a fetched page; the scope file every command loads | the draft loads; nothing is allowed that the document did not name; what it excludes stays excluded (the exceptions are below, Runs) |
| Prioritization (`intel/`) | none; it reads the rows runs leave | the signal rules, `score_host`, `prioritize`, `render_focus_map` | `_analyze` | evidence moves a host the right way; the map cuts off only the bottom |
| Reasoners (`reason/`) | none | text for the report | `_analyze`; an LLM service | cosmetic |
| Sandbox and nuclei executor (`kernel/sandbox.py`, `tools/external.py`, `spec.py`) | the packet filter and the sentinel, both outside the process | `verify_active`, `build_argv`, `run` | the broker's answer; a trusted launcher; nothing calls the executor yet | nothing runs without a yes or with no filter at all; the command line keeps the manifest |
| Auth profile (`kernel/auth.py`) | headers | `load` | the probe | headers go only to gated hosts |
| Command line (`cli.py`) | none | `recon`, `run`, `map`, `verify-scope`, `import`, `plan-scan` | builds an orchestrator | the mode and the provider fit the command |

The behaviours that are hard:

- **sequences of runs**: rows outlive the scope file they were decided under,
  the day they were decided on, and the process that wrote them. Several
  phases select rows by a status stored earlier;
- **crashes**: a mutation is a log line, then a commit, and a logical update is
  often two mutations;
- **the human**: a prompt has no timeout, and the world changes while it is open;
- **check and use**: a name is decided in recon, its addresses are resolved
  later, and decided on again before the probe;
- **several processes** on one findings directory, **several threads** on one
  governor;
- **spelling**: case, dots, URLs, public suffixes, wildcards;
- **documents**: where an entry stands and how it is marked decides which list it
  is filed in, and an exclusion lost on the way is a host allowed later;
- **displacement**: evidence competes for a few places in a score and in a map.

`PROJECT.json` lists each hazard at its line, with the properties that cover it.

## Modules

```
ScopeRules ──┬── ScopeGate ── MCScopeGate
             │      └── ScopeGateProofs (with ScopeRulesProofs)
             ├── Importer ── MCImporter, ImporterProofs
Approval ──┬─┴── Orchestrator ── MCOrchestrator
           │        ├── OrchestratorProofs (with ScopeRulesProofs)
           │        └── implements ActiveGate
           └── ApprovalBroker ── ActiveScan ── MCActiveScan, ApprovalProofs
RateGovernor ── MCRateGovernor, RateGovernorProofs
FindingsStore ── MCFindingsStore, FindingsStoreProofs
FocusMap ── MCFocusMap, FocusMapProofs
```

Definitions keep the code's names. Where a module holds an operator whose
comment begins with *Mutant*, it is a plausible bug of the definition after
it, used only to show that a property notices.

**ScopeRules** is the pure core: canonicalization, name and address rules,
`decide`, `scope_status_for`, `is_stale`, `active_preconditions_ok`. A host is
the sequence of its labels, root first, so "in the subtree of" is "has as a
prefix"; a trailing dot is a leading empty label; an IP literal is a sequence
of one. What canonicalization does to one label (NFC, lower case, IDNA, script
and syntax checks) is the table `CanonLabel`, with `Illegal` for a label it
refuses. An IP range is the set of addresses in it. `PublicSuffixes` stands for
the bundled public suffix list (`tldextract`).

**ScopeGate** puts the rules in use: the operator edits the file an entry at a
time and any command loads it and decides one atom (`cli.py verify_scope`).

**Approval** has the fingerprint and the broker's three tests; **ApprovalBroker**
runs a broker against a provider that may answer anything, including another
command's grant.

**Orchestrator** is the composition: `run()` with all its phases, over the asset
table, with the gate of ScopeRules and the broker of Approval. A step ends at a
commit, at a contact with the outside or at a question to the human. `pc` says
where `run()` is:

| `pc` | code |
|---|---|
| `recon`, `fetch`, `scope_host` | the loops of `_recon`: seeds, sources, names |
| `scope_url`, `store_url` | `_ingest_urls`: the host's row, then the URL's |
| `dns_start`, `dns`, `dns_extra`, `dns_state` | `_dns_enrich`: lookup, evidence, state |
| `enum_start`, `enum`, `prompt` | `_enumerate`: preconditions, queue, `broker.approve` |
| `resolve`, `mark_unresolvable`, `gate`, `probe` | the rest of the loop's body |
| `probe_state`, `probe_extra` | `_update_probe`'s two commits |
| `analyze`, `done`, `idle` | `_analyze`, the summary, between runs |

Between and during runs the environment acts: `EditScope` (a run reads the file
once, so an edit during a run is one before the next), `DayPasses` (also while a
prompt is open) and `Crash` (at any `pc`; what is committed stays). A row holds
its scope decision instead of the decision's number. `contacts` and `granted`
are history, for the properties only. A URL asset is known by its host as it is
spelled in the URL. The loop over rows takes them in any order, which covers
`ORDER BY id`.

**ActiveGate** is the abstract specification of a run as the owner of the target
sees it: authority, the phase, the host in hand and how far it is (asked,
granted, cleared), and who was said yes to, looked up and contacted. It has no
store, no crashes, no calendar. `Orchestrator!ImplementsActiveGate` is its `Spec`
under the mapping of `Authority`, `Phase`, `Stage`, `HostInHand` and `Looked`: `pc`
and the loop's locals become the stage, a crash becomes the end of the run.

**ActiveScan** puts the second wall behind the broker: `NucleiExecutor.run` as
approval, `EgressGuard.verify_active`, `build_argv` and spawn, each a step, while the
launcher's packet filter, the sentinel in the environment and the network change
between them. Its caller and the launcher do not exist in the repository; they
are free (`Ask`, `Environment`). `backing` is history: the request the broker let
through for this run, and the grants it had then, so that a run can be asked
where its approval came from.

**Importer** reads a document entry by entry. The document is not a constant: the
next entry, where it stands and how it is marked are chosen as it is read, so all
documents of at most `MaxEntries` entries are covered. `added` is what
`ScopeDraft.add` makes of the entries, and `verdict` asks `ScopeRules!decide` under
the draft that comes out, so the properties are about what the gate will do with
the imported file. `listed` remembers what each entry meant to its reader. A
scraped page gives what `_HOST_RE` matches *inside* each host (`matches`,
`host_matches`): the pattern has no boundaries, so a match may begin with the end
of a label and end with the beginning of one. What it takes of a label at either
end is two tables, `Ending` and `Beginning`; a label that is taken whole is its own
ending, and `Star` is the asterisk of a label like `api-*`, which makes the rest a
wildcard.

**FocusMap** has the columns prioritization reads (rows, URLs, probe state,
answer, CNAME) and a step for each write of the orchestrator that changes them;
`signals`, `score_host`, `prioritize` and `render_focus_map` are operators over them.
A token, path needle, parameter, status or server banner is a value with a
`Weight`, so the tables of `signals.py` are a constant. `Orchestrator`'s `Analyze`
writes the map; this module says what is in it.

**RateGovernor** is `lease()`: a permit, a slot taken under the lock, a sleep
outside it, the work, the release in `finally`; any of it may be interrupted.
The clock counts ticks and a sleeper may oversleep.

**FindingsStore** is one mutation in its four steps (read the last hash, write
and flush the line, commit the row; `update_asset_extra` first reads and merges
the column) for one or more processes, with death at every step, a line cut
inside or just before its newline, write-back by the operating system, power
loss, and tampering. The hash is ideal: a hash is the sequence of what was
hashed, so it is equal only for equal chains.

## Runs

A passing run's properties are invariants unless said otherwise; the comment
above each definition states it in words.

| Run | Instance | Shows |
|---|---|---|
| `ScopeGate` | 18 atoms (case, dots, URLs, a look-alike, a two-label suffix, addresses), 5 pin lists; scope files of at most `MaxInEntries` and `MaxOutEntries` entries | `OutOfScopeWins`, `AddressesClean`, `StaysInsideRegistrableDomain`, `SpellingIrrelevant`, and as an action property `ExclusionsOnlyNarrow` |
| `OrchestratorGate` | three scope files (open, narrower, passive), two names and a URL, four resolver answers, both modes, two days | `ProbesGated`, `UnauthorizedIsSilent`, `OneProbePerGrant`, `RowsJustified`, `NoHostForgotten`; the action property `EnrichedIsKept`; the refinement `ImplementsActiveGate` |
| `OrchestratorLive` | one active scope file and one, not authorized, with a second seed that was a subdomain before; fairness | `OneRowPerHost`, `UrlsHaveHosts`, and (temporal) `RunEndsOrAsks`, `AnsweredRunEnds` |
| `ActiveScan` | 5 requests, among them two orders of one argv and a flag given twice; three sets of in-scope addresses, with neither, one and both control hosts; a forbidden flag with a value | `SingleUse`, `NonBroadening`, `RunningKeepsProfile`, and the action property `ProbeTellsFilterFromNone` |
| `Importer` | all six formats; 12 identifiers (apex, wildcards, port, another case, a label with an underscore and one with an asterisk, a platform's domain, a bare suffix, a URL of an address, ranges), documents of up to three entries, room for one note; 10 hosts asked about | `DraftCompiles`, `NothingInvented`, `StructuredExclusionsHonoured`, `BriefExclusionsSeen` |
| `FocusMap` | three hosts, four URLs, two classes of parameters for one place, a map of one host | `MapIsTopOfRanking`, `DeadStaysLow`, and the action property `EvidenceMovesRightWay` |
| `RateGovernor` | three threads, two permits, three leases, fairness | `PermitsConserved`, `SlotsSpaced`, `AverageRate`, and (temporal) `PacedCallerProceeds`, `PermitsReturn` |
| `FindingsStore` | one process, three log lines, a power loss, a tampering | `ChainVerifies`, `TamperEvident`, `AuditBeforeDb`, `ExtraMerged`, and the action property `DamageStopsWriter` |

The other runs each show that the code does not keep something its documents or
comments say; `PROJECT.json` "findings" quotes both sides.

| Run | Not kept | Because |
|---|---|---|
| `OrchestratorDeclined` | a declined run sent nothing | DNS enrichment comes before the first prompt |
| `OrchestratorExcluded` | an exclusion always wins, scope is re-validated on read | the DNS phase trusts the status an earlier run stored |
| `ImporterExclusions` | an exclusion always wins, the importer fails closed | in a page's embedded data the flag of a group is not inherited by its targets, only a key's name is |
| `FindingsStoreShared` | an untampered log verifies | two processes append without a lock |

More disagreements are steps of the models and are excepted, in words and in the
formula, by the property next to them:

- A URL whose host is an address takes the name path (`matcher.py:163`), so a
  private address listed under `domains` is allowed as `http://10.0.0.1/`, although
  `matcher.py:8` and `docs/USAGE.md` have private addresses denied for every atom.
  `AddressesClean` is about pinned and bare addresses, and says of an address in a
  URL only that it is allowed nowhere but where `in_scope` lists it as a host.
- In boundary mode any resolved address inside the declared ranges satisfies the
  rule (`matcher.py:197`) and the probe goes to the first of the list
  (`orchestrator.py:222`), which may be outside them, although
  `config/scope.example.yaml:65` wants name and address in scope. `ProbesGated` asks
  for a decision on the whole list, which is what the code makes.
- The scraping pattern has no boundaries (`importer/core.py:30`): a page that names
  `my_api.shop.com` only has `api.shop.com` imported and allowed, one that names
  `api-*.shop.com` has `*.shop.com`. `NothingInvented` is about documents read entry by
  entry, and excepts scraped pages (`kind = "html"`).
- `ScopeDraft.add` skips `host:port`, and an address in a URL, with a warning nobody is
  shown (`core.py:80-90`), also when the entry is an exclusion and a wildcard or a
  range beside it still allows what it names. `lost` has these two forms, and
  `StructuredExclusionsHonoured` and `ExclusionsHonoured` except them; a brief notes
  the address in a URL, and `BriefExclusionsSeen` excepts only the port.
- The guard's probe asks one control host, so it tells a filter from none and not
  whose filter it is: another scan's passes when it has no control host in its set.
  `ProbeTellsFilterFromNone` claims no more.

The models also contain, without a run of their own, these steps that the
documents would not lead one to expect: a dead host whose name alone is worth 4
above a live one worth 2 (`score.py:112` has no dead host outrank a live one on
its name; `DeadStaysLow` is about the bands); an exclusion of a scraped page,
imported as in scope like every other name on it; an exclusion of a brief that
would be the 81st note; template tags that are all
outside the allowlist, which leaves `-tags` out and so selects every template that
is not excluded; a control host that is down, or a filter that goes between the
guard's probe and the spawn; a probe after the last authorized day,
when a prompt was open over midnight (staleness is read at the start of a phase);
a prompt open for ever (`kernel/approval.py` speaks of a timeout and has none);
two starts less than an interval apart, when a thread overslept (only slots are
spaced); a row without a log line after a power loss (the log is flushed, not
synced), or with its line run into one cut before its newline (`DamageStopsWriter`
bounds this to the one mutation already past the log); a row enriched by a run that
died before it committed the evidence, which no later run probes again
(`orchestrator.py:258`); an extra update of one process undone by another's; and
extra values that no log line holds.

### Bounds, and why they are enough

- `MaxInEntries`, `MaxOutEntries`: `decide` looks for *some* matching entry, so a
  verdict that goes wrong does so because of one inclusion and one exclusion,
  or two inclusions of different kinds.
- `MaxDay` = 1: staleness is a comparison with one day; the file expires on day 0.
- `MaxVerifyAge`: the second way of going stale, with the same comparison.
- Names and addresses in `MCOrchestrator`: an apex, a subdomain in another case
  that a later file excludes, its URL with a trailing dot; one address in the
  declared range, one outside, one private. `TwoSeeds` of the live instance makes a
  seed of what was a discovered subdomain.
- `MaxEntries` = 3 of an import: a verdict is wrong because of one inclusion, one
  exclusion and an entry between them that fills the notes (`MaxNotes` = 1) or is
  filed on the wrong list.
- `SurfaceAt` = 2, `TopClasses` = 1, `TopN` = 1 of the map stand for 20, 3 and 40: one
  URL short of a surface and one above, one class displaced, one host cut off.
  The weights are those of `signals.py`.
- `MaxLeases`, `Horizon`: three threads queue behind two permits and the third
  lease waits for one to come back; past the horizon the clock runs only while
  somebody sleeps.
- `MaxLines`, `MaxPowerLosses`, `MaxTampers`: the shortest log with a first, a
  middle and a last line; one loss and one tampering at any place of it. With
  two processes the chain already breaks after two lines.

Deadlock is checked in every run.

### Fairness

`Orchestrator!FairSpec` asks only `WF_vars(Program)`: as long as the process
lives and has something to do, the interpreter does it. The external calls all
return: HTTP fetches, DNS lookups, the probe and `subfinder` have timeouts, and
`getaddrinfo` has the resolver's. Nothing makes a human start a run or answer a
prompt, and nothing makes a process die; so `RunEndsOrAsks` lets a run end *at*
a prompt, and `AnsweredRunEnds` has the answering as its premise.

`RateGovernor!FairSpec` asks that time passes, that a sleep whose time is over
ends, that a thread holding a permit reaches the pacing lock (held for a few
assignments only) and that the caller's work ends. Nothing makes a thread ask
for a lease, and the semaphore itself is not assumed fair. `PermitsReturn` follows a
permit from the semaphore to its release, through the pacing lock, the sleep and
the work; it needs all four of these, and breaks when a step of one of them can
stop for good.

## Proofs

All proofs are by an inductive invariant, and hold for every value of the
constants that satisfies the named assumptions of the modules.

**ScopeRulesProofs** proves what an ALLOW means (`AllowedHost`): for a name, no
exclusion and some inclusion covers it and no pinned address is private or
excluded; for an address, it is in an included range and itself neither. It is
the only thing the orchestrator's proof needs of the rules.

**OrchestratorProofs** proves `Spec => []IInv` (`Inductive`) and draws from it
`TypeOK`, `ProbesGated`, `UnauthorizedIsSilent`, `OneProbePerGrant`,
`RowsJustified`, `OneRowPerHost`, `UrlsHaveHosts`, `NoHostForgotten` and the action
property `EnrichedIsKept`. None of these is inductive alone:

- `PhaseInv` says what the phase a run is in already implies: in an active
  phase the mode is `full`, the preconditions held when it began;
- `UrlInv` and `AnswerInv` say what the loop's locals mean at each `pc`: the row
  in hand, the decision or addresses just obtained, that between `gate` and
  `probe` the decision on exactly these addresses was an ALLOW;
- `QueueInv`: queued rows are in-scope host rows, not yet probed in this run, and
  the one in hand is no longer queued. With `OneRowPerHost` this makes a host's
  name appear in the queue once, which is why one yes buys one probe;
- `CountInv` ties `summary.probed` to the probes made, `AccountInv` is
  `NoHostForgotten` for a queue not yet empty.

The proof that a step preserves the invariant has a lemma per conjunct, and in it
a case per action that touches what the conjunct reads.

The refinement is proved there too, `Spec => ImplementsActiveGate`. Beyond `IInv` it needs
`GrantInv`: no queued host has its yes already, the host at the gate was looked up,
and the histories are empty where a phase opens. Then each action maps to one
action of ActiveGate or to a stutter: `DnsQuery` and `Resolve` to `LookUp`, `Prompt` to
`Ask`, `Answer` to `Answer`, `Gate` to `Clear` or `Drop`, `Probe` to `Contact`, a crash and
`Exit` to `End`.

**ScopeGateProofs** carries the rules to every scope file an operator can write:
`OutOfScopeWins`, `AddressesClean` (with: no wildcard reaches a name of one label, so an
address in a URL is allowed by a host of the file only), `StaysInsideRegistrableDomain`,
`SpellingIrrelevant` (two spellings of one name have, label by label, the same label or one legal
canonical form: `SameLabel`), and
`ExclusionsOnlyNarrow` (an ALLOW under the longer list of exclusions is one under
the shorter: each way of deciding is followed for both files). The invariant is
only that a decision was made by `decide` under the file as it stands; the work is
in lemmas about canonical names and registrable domains.

**ApprovalProofs** proves `SingleUse` and `NonBroadening` for any set of requests and
any provider; that ActiveScan implements the broker (`ScanUsesBroker`), so both
hold of scans; `ProbeTellsFilterFromNone` for any sets of addresses; and
`RunningKeepsProfile` for any manifest and provider, by the invariant `Backed`: from the
broker's answer to the end of the run, what it let through is known and was
granted.

**ImporterProofs** proves, for any identifiers, documents and public suffix list,
`DraftCompiles`, `NothingInvented`, `StructuredExclusionsHonoured` and
`BriefExclusionsSeen`, with the exceptions those name. The invariant `ImportInv` ties
the draft to what was read: unless the page was scraped, what an entry of it covers
was listed; every listed exclusion of a structured document is in it, every one
of a brief is in it, in the notes, or the notes are full. The
rest is what an identifier becomes: a kept host is canonical and has a
registrable domain (so the matcher takes it), and what the gate allows by it, or
denies by it, is what it covers; for a skipped one, that no entry of the draft
can allow what it names.

**FindingsStoreProofs** proves, for any number of crashes and power losses and any
keys and values, `ChainVerifies`, `TamperEvident`, `ExtraMerged` and `DamageStopsWriter` for a store
that one process uses (`Alone`, a premise of each), and `AuditBeforeDb` for any
finite set of processes. `ChainInv` says the links hold up to every readable line
(since a power loss may cut the log anywhere) and that a writer holds the hash of
the last line; `CountInv` counts, for a row, that the commits made and pending are
not more than its lines; `DamageStopsWriter` follows from its part that a process about to
write finds the log readable; `EvidenceInv` that one change by hand leaves, in
the part of the log that no power loss takes, a line that does not fit the one
before it, and that no later step mends it (a second change by hand might). `Alone` cannot be dropped: `FindingsStoreShared` is its
counterexample.

**RateGovernorProofs** proves type correctness, `PermitsConserved` (by cardinality of
the set of holders), that at most `max_concurrency` leases are held, `SlotsSpaced`
(from: every slot is at most `next_free - interval`), `NeverEarly` and `AverageRate`.
The last rests on a count, `StartsCounted`: the leases started and the sleepers
whose slot is due are together no more than the slots that are due, since every
sleeper has a slot of its own; and slot number i is not due before i - 1
intervals have passed.

**FocusMapProofs** proves every property of the ranking and the map, for any tables
of signals. The tables are assumed finite (they are literals), with weights that
are natural numbers, and a URL's host in scope (`FocusAssumption`). It needs no more
of the evidence than `FocusTypes`, and of the map that it is the current one
(`MapInv`); the work is in what the operators compute:

- the sum over a set of signals is the number of their *points*, a signal of
  weight w having w of them (`SumIsCount`), so a sum does not fall when the signals
  map one to one to signals that weigh no less (`SumGrows`);
- with more parameters, each of the strongest classes has a class in its place
  that is no weaker, itself or one that displaced it (`TopExchange`), which
  is why a URL never lowers a host, whatever it displaces;
- a finite set in a strict total order has one listing in that order
  (`OrderedLists`); the sort key is such an order, so `prioritize` is what `sort`
  returns, and the tiers are segments of it (`TierSegments`);
- each tier's hosts extend what is written as long as there is room (`WriteExtends`),
  so what is written is always the first places of the ranking.

Its inductions go over finite sets by a smallest counterexample
(`SmallestSubset`) and over numbers by a least one (`MinOfNats`).

`IInv` of the orchestrator and `FocusTypes` were also checked with TLC on small
instances before they were proved.

Left to TLC: the four liveness properties, `RunEndsOrAsks`, `AnsweredRunEnds`,
`PacedCallerProceeds` and `PermitsReturn` (fairness and ENABLED are beyond the
prover). Every other property of a passing run is a theorem.

## Not modelled

- The reasoners: text beside a host in the map, decided on by nothing.
- The auth profile: headers merged once, before a run; that they go out only
  with a gated probe is the place of `Probe` in Orchestrator.
- `plan-scan`, which prints a command; `structure_brief_with_llm`, whose answer is
  a brief like any other; warnings and rendering.
- Of what is modelled: YAML parsing and the comparison with the shipped example;
  how a document is cut into entries (JSON, HTML, Markdown), front matter and its
  rates; label syntax, IDNA and script tests one by one; which private range an
  address is in; the paths and queries of URLs other than by the signal they are;
  counts in the summary other than `probed`; the wording and the suggested actions
  of the focus map.
- `narrowed`, `require_in_scope`, `assert_active_allowed` and `record_finding`'s
  de-duplication, which nothing calls.
- The orchestrator runs one thread, so its leases never wait for one another and
  it is composed without the governor.

## Plan

Done: the scope rules and the gate, approval, the orchestrator with its
inductive invariant, the governor, the store; the abstract specification and the
refinement; the importer, prioritization, the sandbox with the executor; the
proofs of every safety and action property the runs check.

What could follow: what the violated properties need to hold (`ChainVerifies` for
any number of processes, once `append` takes a lock; `NoContactWithExcluded`, once
the DNS phase decides again); a bound on the work of a run, as a safety property from which
`RunEndsOrAsks` would follow; the phases of the executor's caller, once there
is one.
