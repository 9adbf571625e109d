---------------------------- MODULE Orchestrator ----------------------------
(***************************************************************************)
(* The orchestrator's state machine (orchestrator/orchestrator.py) with    *)
(* the kernel's two-tier gate, over many runs on one findings store:       *)
(* passive recon, DNS enrichment, gated enumeration with a human prompt    *)
(* per host, and the focus map.  Between runs the operator edits           *)
(* scope.yaml; days pass at any time, also while a prompt is open; a run   *)
(* can die between any two commits and the next one starts from the store. *)
(*                                                                         *)
(* A step ends at a commit to the store, at a contact with the outside or  *)
(* at a question to the human, so everything that can come between two     *)
(* such points in the code comes between two steps here.                   *)
(***************************************************************************)
EXTENDS ScopeRules, Approval

CONSTANTS
  Scopes,        \* what scope.yaml may contain
  Discoverable,  \* the raw host names a passive source may return
  ArchivedUrls,  \* the URLs an archive may return
  Resolutions,   \* the address lists the resolver may return, sorted
  Commands,      \* the command lines used: [mode, analyze]
  MaxDay         \* bound: the last day

ASSUME ResolutionsAssumption == Resolutions \subseteq Seq(Ips)
ASSUME CommandsAssumption == Commands \subseteq [mode : {"recon", "full"}, analyze : BOOLEAN]
ASSUME DaysAssumption == MaxDay \in Nat

VARIABLES
  scope,         \* the scope file
  today,         \* the date
  assets,        \* table asset: identity key [kind, value] -> row
  pc,            \* where run() is; "idle" between runs
  config,        \* the ScopeConfig this run loaded
  command,       \* the command line of this run
  seeds,         \* recon: seeds still to query
  seed,          \*        the seed being queried
  sources,       \*        sources still to query for it
  found,         \*        results of the last query, not yet scoped
  rows,          \* dns, enumeration: selected rows still to visit
  row,           \*        the row being visited
  answer,        \*        what its DNS lookup, resolution or probe returned
  burned,        \* the broker's spent fingerprints
  approved_any,  \* _enumerate's local of that name
  summary,       \* RunSummary: [state, probed, messages, focus_top]
  contacts,      \* history: this run's contacts with the target
  granted        \* history: the hosts this run's human said yes to

loaded   == <<config, command>>
locals   == <<seeds, seed, sources, found, rows, row, answer, burned, approved_any>>
history  == <<contacts, granted>>
outside  == <<scope, today>>
vars == <<outside, assets, pc, loaded, locals, summary, history>>

----------------------------------------------------------------------------
(* The store.                                                              *)

HostKinds == {"domain", "subdomain"}

key(kind, value) == [kind |-> kind, value |-> value]

\* scope_decision_id names a decision; the row here holds the decision.
\* Mutant: the stored decision forgets the addresses.
decision_of_unpinned(host, ips, d) == [host |-> host, ips |-> <<>>, allowed |-> allowed(d)]

decision_of(host, ips, d) == [host |-> host, ips |-> ips, allowed |-> allowed(d)]

NoExtra == [dns |-> None, ip |-> None]

\* Mutant: a new row has no resolve state yet.
new_row_unknown(status, decision) ==
  [scope_status |-> status, resolve_state |-> None, probe_state |-> "unprobed",
   status |-> "new", decision |-> decision, extra |-> NoExtra]

new_row(status, decision) ==
  [scope_status |-> status, resolve_state |-> "pending", probe_state |-> "unprobed",
   status |-> "new", decision |-> decision, extra |-> NoExtra]

with_row(k, r) == [j \in DOMAIN assets \cup {k} |-> IF j = k THEN r ELSE assets[j]]

\* INSERT ... ON CONFLICT(identity_key) DO UPDATE: the decision id of a row
\* already there is kept.
upsert_asset(k, r) ==
  with_row(k, IF k \in DOMAIN assets THEN [r EXCEPT !.decision = assets[k].decision] ELSE r)

in_scope_rows == {k \in DOMAIN assets : assets[k].scope_status = "in_scope"}

in_scope_host_rows == {k \in in_scope_rows : k.kind \in HostKinds}

\* Mutant: only one of the two kinds is looked up.
host_recorded_subdomain(host) == key("subdomain", host) \in DOMAIN assets

host_recorded(host) == \E kind \in HostKinds : key(kind, host) \in DOMAIN assets

\* Mutant: the row is keyed by the seed.
store_host_by_seed(host, status, decision) ==
  IF host_recorded(host) THEN assets
  ELSE upsert_asset(key("domain", seed), new_row(status, decision))

\* _store_host: a host already recorded, as either kind, is left alone.
store_host(host, status, decision) ==
  IF host_recorded(host)
  THEN assets
  ELSE upsert_asset(key(IF host = seed THEN "domain" ELSE "subdomain", host),
                    new_row(status, decision))

----------------------------------------------------------------------------
(* Starting a run, and recon.                                              *)

seeds_of(cfg) ==
  {IF registrable_domain(h) = <<>> THEN h ELSE registrable_domain(h) :
     h \in cfg.in_scope.domains \cup {e.host : e \in cfg.in_scope.subdomains}}

NoSummary == [state |-> "DONE", probed |-> 0, messages |-> {}, focus_top |-> {}]

\* No process is running: there are no locals and no summary.
NoRun ==
  /\ config = None /\ command = None
  /\ seeds = {} /\ seed = None /\ sources = <<>> /\ found = {}
  /\ rows = {} /\ row = None /\ answer = None
  /\ burned = {} /\ approved_any = FALSE
  /\ summary = NoSummary
  /\ contacts = {} /\ granted = {}

Init ==
  /\ scope \in Scopes
  /\ today = 0
  /\ assets = <<>>
  /\ pc = "idle"
  /\ NoRun

\* The operator edits scope.yaml between runs.  (A run reads it once, so an
\* edit during a run is an edit before the next.)
EditScope ==
  /\ pc = "idle"
  /\ scope' \in Scopes
  /\ UNCHANGED <<today, assets, pc, loaded, locals, summary, history>>

DayPasses ==
  /\ today < MaxDay
  /\ today' = today + 1
  /\ UNCHANGED <<scope, assets, pc, loaded, locals, summary, history>>

\* Of load_scope's refusals: the others are of files that are no scope file yet.
load_scope_raises(cfg) == is_stale(cfg, today)

\* load_scope refuses a stale file and Kernel one that does not compile; then
\* run() begins recon.
Start ==
  /\ pc = "idle"
  /\ ~load_scope_raises(scope)
  /\ ~matcher_raises(scope)
  /\ config' = scope
  /\ command' \in Commands
  /\ seeds' = seeds_of(scope)
  /\ pc' = "recon"
  /\ UNCHANGED <<outside, assets, seed, sources, found, rows, row, answer, burned, approved_any,
                 summary, history>>

NextSeed ==
  /\ pc = "recon"
  /\ \E s \in seeds : seed' = s /\ seeds' = seeds \ {s}
  /\ sources' = <<"passive", "url">>
  /\ pc' = "fetch"
  /\ UNCHANGED <<outside, assets, loaded, found, rows, row, answer,
                 burned, approved_any, summary, history>>

\* What the sources may answer; one that fails answers nothing.  (CrtSh.discover
\* raises on JSON that is not a list of objects: the run dies, which is Crash.)
discover == SUBSET Discoverable

urls == SUBSET ArchivedUrls

Fetch ==
  /\ pc = "fetch"
  /\ sources # <<>>
  /\ sources' = Tail(sources)
  /\ \/ /\ Head(sources) = "passive"
        /\ found' \in discover
        /\ pc' = "scope_host"
     \/ /\ Head(sources) = "url"
        /\ found' \in urls
        /\ pc' = "scope_url"
  /\ UNCHANGED <<outside, assets, loaded, seeds, seed, rows, row, answer,
                 burned, approved_any, summary, history>>

SeedDone ==
  /\ pc = "fetch"
  /\ sources = <<>>
  /\ pc' = "recon"
  /\ UNCHANGED <<outside, assets, loaded, locals, summary, history>>

\* Mutant: the addresses are not passed on.
scope_check_name(host, ips) == decide(config, [form |-> "bare", host |-> host], <<>>)

\* scope_check: the decision for a bare name, with its scope status.
scope_check(host, ips) == decide(config, [form |-> "bare", host |-> host], ips)

\* What is stored for a name the passive phase saw: nothing when unverified.
recorded(host, d) ==
  IF scope_status_for(d) = "unverified"
  THEN assets
  ELSE store_host(host, scope_status_for(d), decision_of(host, <<>>, d))

\* One discovered name: decide it, and store it under its canonical name (the
\* raw one when the decision carries none).
ScopeHost ==
  /\ pc = "scope_host"
  /\ \E raw \in found : \E d \in {scope_check(raw, <<>>)} :
       /\ found' = found \ {raw}
       /\ assets' = recorded(IF d.canonical_host = None THEN raw ELSE d.canonical_host, d)
  /\ UNCHANGED <<outside, pc, loaded, seeds, seed, sources, rows, row, answer,
                 burned, approved_any, summary, history>>

\* One archived URL: a URL without a host is dropped; its host is decided and
\* stored as above; an in-scope URL goes on to become an asset itself, known by
\* its host as it is spelled there (scheme and path are left out).
ScopeUrl ==
  /\ pc = "scope_url"
  /\ \E url \in found : \E host \in {canonical_target(url).canon} :
       /\ found' = found \ {url}
       /\ \/ /\ host = Raises
             /\ UNCHANGED <<assets, pc, row, answer>>
          \/ /\ host # Raises
             /\ \E d \in {scope_check(host, <<>>)} :
                  /\ assets' = recorded(host, d)
                  /\ IF scope_status_for(d) = "in_scope"
                     THEN /\ pc' = "store_url"
                          /\ row' = key("url", url.host)
                          /\ answer' = decision_of(host, <<>>, d)
                     ELSE UNCHANGED <<pc, row, answer>>
  /\ UNCHANGED <<outside, loaded, seeds, seed, sources, rows,
                 burned, approved_any, summary, history>>

StoreUrl ==
  /\ pc = "store_url"
  /\ assets' = IF row \in DOMAIN assets THEN assets
               ELSE upsert_asset(row, new_row("in_scope", answer))
  /\ pc' = "scope_url"
  /\ row' = None /\ answer' = None
  /\ UNCHANGED <<outside, loaded, seeds, seed, sources, found, rows,
                 burned, approved_any, summary, history>>

SourceDone ==
  /\ pc \in {"scope_host", "scope_url"}
  /\ found = {}
  /\ pc' = "fetch"
  /\ UNCHANGED <<outside, assets, loaded, locals, summary, history>>

after_active == IF command.analyze THEN "analyze" ELSE "done"

ReconDone ==
  /\ pc = "recon"
  /\ seeds = {}
  /\ pc' = IF command.mode = "full" THEN "dns_start" ELSE after_active
  /\ UNCHANGED <<outside, assets, loaded, locals, summary, history>>

----------------------------------------------------------------------------
(* DNS enrichment.                                                         *)

contact(what, host, ip, ips) ==
  [what |-> what, host |-> host, ip |-> ip, ips |-> ips, day |-> today]

\* _dns_enrich: every in-scope host row, when the config permits acting.
DnsStart ==
  /\ pc = "dns_start"
  /\ IF active_preconditions_ok(config, today)
     THEN pc' = "dns" /\ rows' = in_scope_host_rows
     ELSE pc' = "enum_start" /\ UNCHANGED rows
  /\ UNCHANGED <<outside, assets, loaded, seeds, seed, sources, found, row,
                 answer, burned, approved_any, summary, history>>

\* Mutant: the queried row stays selected.
DnsQuery_again ==
  /\ pc = "dns"
  /\ row' \in rows /\ answer' = "other"
  /\ contacts' = contacts \cup {contact("dns", row'.value, None, <<>>)}
  /\ pc' = "dns_extra"
  /\ UNCHANGED <<outside, assets, loaded, seeds, seed, sources, found, rows,
                 burned, approved_any, summary, granted>>

DnsAnswers == {"dangling", "other"}

\* The lookup queries the nameservers of the host's domain.  "dangling" is no
\* address but a CNAME chain; every other result is treated alike here.
DnsQuery ==
  /\ pc = "dns"
  /\ \E k \in rows : row' = k /\ rows' = rows \ {k}
  /\ answer' \in DnsAnswers
  /\ contacts' = contacts \cup {contact("dns", row'.value, None, <<>>)}
  /\ pc' = "dns_extra"
  /\ UNCHANGED <<outside, assets, loaded, seeds, seed, sources, found,
                 burned, approved_any, summary, granted>>

\* Two commits: the evidence is merged into extra, then a dangling name is
\* marked unresolvable.
DnsRecordExtra ==
  /\ pc = "dns_extra"
  /\ assets' = with_row(row, [assets[row] EXCEPT !.extra.dns = answer])
  /\ pc' = IF answer = "dangling" THEN "dns_state" ELSE "dns"
  /\ UNCHANGED <<outside, loaded, locals, summary, history>>

DnsRecordState ==
  /\ pc = "dns_state"
  /\ assets' = with_row(row, [assets[row] EXCEPT !.resolve_state = "unresolvable"])
  /\ pc' = "dns"
  /\ UNCHANGED <<outside, loaded, locals, summary, history>>

DnsDone ==
  /\ pc = "dns"
  /\ rows = {}
  /\ pc' = "enum_start"
  /\ UNCHANGED <<outside, assets, loaded, locals, summary, history>>

----------------------------------------------------------------------------
(* Gated active enumeration.                                               *)

\* What the human is asked about and the fingerprint covers.  The words of
\* the command line that never change are left out; the run is identified by
\* the hash of its scope file.
request_for(host) ==
  [tool |-> "liveness-probe", argv |-> <<host>>, targets |-> <<host>>,
   is_active |-> TRUE, phase |-> "ENUMERATION", run_id |-> config]

EnumStart ==
  /\ pc = "enum_start"
  /\ IF active_preconditions_ok(config, today)
     THEN /\ pc' = "enum"
          /\ rows' = {k \in in_scope_host_rows : assets[k].status = "new"}
          /\ burned' = {} /\ approved_any' = FALSE
          /\ UNCHANGED summary
     ELSE /\ pc' = after_active
          /\ summary' = [summary EXCEPT !.state = "HALTED_ACTIVE_NOT_ALLOWED"]
          /\ UNCHANGED <<rows, burned, approved_any>>
  /\ UNCHANGED <<outside, assets, loaded, seeds, seed, sources, found, row,
                 answer, history>>

\* Mutant: after a first yes the others are not asked for.
Prompt_once ==
  /\ pc = "enum"
  /\ \E k \in rows : row' = k /\ rows' = rows \ {k}
  /\ answer' = None
  /\ pc' = IF approved_any THEN "resolve" ELSE "prompt"
  /\ UNCHANGED <<outside, assets, loaded, seeds, seed, sources, found,
                 burned, approved_any, summary, history>>

\* The loop reaches a row and the provider asks.
Prompt ==
  /\ pc = "enum"
  /\ \E k \in rows : row' = k /\ rows' = rows \ {k}
  /\ answer' = None
  /\ pc' = "prompt"
  /\ UNCHANGED <<outside, assets, loaded, seeds, seed, sources, found,
                 burned, approved_any, summary, history>>

\* Mutant: a skipped host leaves no message.
skipped_silently(why) == summary

skipped(why) == [summary EXCEPT !.messages = @ \cup {[host |-> row.value, why |-> why]}]

\* The human (or the provider in its place: no TTY, Ctrl-C) answers, and the
\* broker verifies the grant and burns it.
Answer ==
  /\ pc = "prompt"
  /\ \E yes \in BOOLEAN :
       LET request == request_for(row.value)
       IN  /\ granted' = IF yes THEN granted \cup {row.value} ELSE granted
           /\ IF accepts(burned, request, [fp |-> fingerprint(request), granted |-> yes])
              THEN /\ burned' = burned \cup {fingerprint(request)}
                   /\ approved_any' = TRUE
                   /\ pc' = "resolve"
                   /\ UNCHANGED summary
              ELSE /\ summary' = skipped("not approved")
                   /\ pc' = "enum"
                   /\ UNCHANGED <<burned, approved_any>>
  /\ UNCHANGED <<outside, assets, loaded, seeds, seed, sources, found, rows,
                 row, answer, contacts>>

\* getaddrinfo: an address is its own answer, a failure the empty one.
resolve_ips(host) == IF is_ip_literal(host) THEN {<<host[1]>>} ELSE Resolutions

Resolve ==
  /\ pc = "resolve"
  /\ answer' \in resolve_ips(row.value)
  /\ contacts' = contacts \cup {contact("resolve", row.value, None, answer')}
  /\ pc' = IF answer' = <<>> THEN "mark_unresolvable" ELSE "gate"
  /\ UNCHANGED <<outside, assets, loaded, seeds, seed, sources, found, rows,
                 row, burned, approved_any, summary, granted>>

MarkUnresolvable ==
  /\ pc = "mark_unresolvable"
  /\ assets' = with_row(row, [assets[row] EXCEPT !.resolve_state = "unresolvable",
                                                 !.probe_state = "unprobed",
                                                 !.status = "new"])
  /\ pc' = "enum"
  /\ UNCHANGED <<outside, loaded, locals, summary, history>>

\* Scope is decided again, now with the addresses the name is pinned to.
Gate ==
  /\ pc = "gate"
  /\ IF allowed(scope_check(row.value, answer))
     THEN pc' = "probe" /\ UNCHANGED summary
     ELSE pc' = "enum" /\ summary' = skipped("denied on resolved IPs")
  /\ UNCHANGED <<outside, assets, loaded, locals, history>>

\* Mutant: a dead probe is retried under the same grant.
Probe_retries ==
  /\ pc = "probe"
  /\ contacts' = contacts \cup {contact("probe", row.value, answer[1], answer)}
  /\ summary' = [summary EXCEPT !.probed = @ + 1]
  /\ UNCHANGED <<outside, assets, pc, loaded, locals, granted>>

\* One HEAD request; whether it was answered.  Any failure is an answer too.
http_liveness == BOOLEAN

\* The probe contacts the first pinned address only.
Probe ==
  /\ pc = "probe"
  /\ contacts' = contacts \cup {contact("probe", row.value, answer[1], answer)}
  /\ \E alive \in http_liveness :
       answer' = [probe_state |-> IF alive THEN "live" ELSE "dead",
                  ip          |-> answer[1],
                  decision    |-> decision_of(row.value, answer, scope_check(row.value, answer))]
  /\ summary' = [summary EXCEPT !.probed = @ + 1]
  /\ pc' = "probe_state"
  /\ UNCHANGED <<outside, assets, loaded, seeds, seed, sources, found, rows,
                 row, burned, approved_any, granted>>

\* _update_probe: two commits, first the state columns, then the evidence.
ProbeRecordState ==
  /\ pc = "probe_state"
  /\ assets' = with_row(row, [assets[row] EXCEPT !.resolve_state = "resolved",
                                                 !.probe_state = answer.probe_state,
                                                 !.status = "enriched",
                                                 !.decision = answer.decision])
  /\ pc' = "probe_extra"
  /\ UNCHANGED <<outside, loaded, locals, summary, history>>

ProbeRecordExtra ==
  /\ pc = "probe_extra"
  /\ assets' = with_row(row, [assets[row] EXCEPT !.extra.ip = answer.ip])
  /\ pc' = "enum"
  /\ UNCHANGED <<outside, loaded, locals, summary, history>>

\* Mutant: the loop only ends when something was approved.
EnumDone_never_empty ==
  /\ pc = "enum" /\ rows = {} /\ approved_any
  /\ pc' = after_active
  /\ UNCHANGED <<outside, assets, loaded, locals, summary, history>>

EnumDone ==
  /\ pc = "enum"
  /\ rows = {}
  /\ pc' = after_active
  /\ summary' = IF approved_any THEN summary ELSE [summary EXCEPT !.state = "AWAITING_APPROVAL"]
  /\ UNCHANGED <<outside, assets, loaded, locals, history>>

----------------------------------------------------------------------------
(* The focus map, the end of a run, and its death.                         *)

Analyze ==
  /\ pc = "analyze"
  /\ summary' = [summary EXCEPT !.focus_top = {k.value : k \in in_scope_host_rows}]
  /\ pc' = "done"
  /\ UNCHANGED <<outside, assets, loaded, locals, history>>

\* The process ends, after reporting its summary or by dying anywhere: what
\* it held is lost, what it committed stays.
Exit ==
  /\ pc' = "idle"
  /\ config' = None /\ command' = None
  /\ seeds' = {} /\ seed' = None /\ sources' = <<>> /\ found' = {}
  /\ rows' = {} /\ row' = None /\ answer' = None
  /\ burned' = {} /\ approved_any' = FALSE
  /\ summary' = NoSummary
  /\ contacts' = {} /\ granted' = {}
  /\ UNCHANGED <<outside, assets>>

Finish == pc = "done" /\ Exit

Crash == pc \notin {"idle", "done"} /\ Exit

\* The steps the program takes of itself: every external call returns.
Program ==
  \/ NextSeed \/ Fetch \/ SeedDone \/ ScopeHost \/ ScopeUrl \/ StoreUrl \/ SourceDone \/ ReconDone
  \/ DnsStart \/ DnsQuery \/ DnsRecordExtra \/ DnsRecordState \/ DnsDone
  \/ EnumStart \/ Prompt \/ Resolve \/ MarkUnresolvable \/ Gate \/ Probe
  \/ ProbeRecordState \/ ProbeRecordExtra \/ EnumDone
  \/ Analyze \/ Finish

Next == EditScope \/ DayPasses \/ Start \/ Answer \/ Crash \/ Program

Spec == Init /\ [][Next]_vars

\* The interpreter runs on; nothing makes a human start a run or answer.
FairSpec == Spec /\ WF_vars(Program)

----------------------------------------------------------------------------
(* Properties.                                                             *)

Decision(d) == d \in [host : {d.host}, ips : Seq(Ips), allowed : BOOLEAN]

Row(r) ==
  /\ r \in [scope_status  : {"in_scope", "out_of_scope"},
            resolve_state : {"pending", "resolved", "unresolvable"},
            probe_state   : {"unprobed", "live", "dead"},
            status        : {"new", "enriched"},
            decision      : {r.decision},
            extra         : [dns : DnsAnswers \cup {None}, ip : Ips \cup {None}]]
  /\ Decision(r.decision)

PCs == {"idle", "recon", "fetch", "scope_host", "scope_url", "store_url", "dns_start", "dns",
        "dns_extra", "dns_state", "enum_start", "enum", "prompt", "resolve",
        "mark_unresolvable", "gate", "probe", "probe_state", "probe_extra", "analyze", "done"}

\* Every row of the store has its columns' types, and a run its locals'; no
\* unverified name is ever stored, and the row in hand is one of the store's.
TypeOK ==
  /\ scope \in Scopes /\ today \in 0..MaxDay /\ pc \in PCs
  /\ IF pc = "idle" THEN NoRun ELSE config \in Scopes /\ command \in Commands
  /\ \A k \in DOMAIN assets :
        k = key(k.kind, k.value) /\ k.kind \in HostKinds \cup {"url"} /\ Row(assets[k])
  /\ rows \subseteq DOMAIN assets
  /\ pc \in {"dns_extra", "dns_state", "prompt", "resolve", "mark_unresolvable", "gate", "probe",
             "probe_state", "probe_extra"} => row \in DOMAIN assets
  /\ approved_any \in BOOLEAN /\ DOMAIN summary = DOMAIN NoSummary /\ summary.probed \in Nat
  /\ \A c \in contacts : c.what \in {"dns", "resolve", "probe"} /\ c.day \in 0..today

Probes == {c \in contacts : c.what = "probe"}

probed_hosts == {c.host : c \in Probes}

\* A probe reaches the target only with the scope file's authorization and
\* active flag, a yes for that host in this run, a name that no exclusion and
\* some inclusion covers (an address host: an included range), and with every
\* address it was pinned to public and not excluded; the address contacted is
\* the first of them.
ProbesGated ==
  \A c \in Probes :
    /\ config.authorized /\ config.active_actions_allowed
    /\ c.host \in granted
    /\ IF is_ip_literal(c.host)
       THEN ip_in(config.in_scope.ip_ranges, c.ip)
       ELSE /\ ~name_out_of_scope(config, canonical_host(c.host))
            /\ name_in_scope(config, canonical_host(c.host))
    /\ c.ips # <<>> /\ c.ip = c.ips[1]
    /\ \A i \in DOMAIN c.ips : ~ip_refused(config, c.ips[i])

\* Without authorization or the active flag a run contacts nothing at all,
\* DNS included, whatever the store holds from earlier runs.
UnauthorizedIsSilent ==
  contacts # {} => config.authorized /\ config.active_actions_allowed /\ command.mode = "full"

\* A host is probed at most once in a run: one yes buys one request.
OneProbePerGrant == summary.probed = Cardinality(probed_hosts)

\* One row per host: crashes and runs under other scope files never make a
\* second one of the other kind (_store_host's two lookups).
OneRowPerHost ==
  \A j, k \in DOMAIN assets :
    j.kind \in HostKinds /\ k.kind \in HostKinds /\ j.value = k.value => j = k

Justified(k, r) ==
  /\ r.scope_status = "in_scope" => r.decision.allowed
  /\ k.kind \in HostKinds => r.decision.host = k.value
  /\ r.status = "enriched" => r.decision.ips # <<>> /\ r.probe_state # "unprobed"
  /\ r.extra.ip # None => r.status = "enriched" /\ r.extra.ip = r.decision.ips[1]

\* Every actionable row rests on a decision that allowed its own host; a
\* probed row's decision is the one made on the addresses it was probed at,
\* and the address in its evidence is the first of those.
RowsJustified == \A k \in DOMAIN assets : Justified(k, assets[k])

\* An archived URL is never on its own: its host has a row, recorded first.
UrlsHaveHosts ==
  \A k \in DOMAIN assets : k.kind = "url" => host_recorded(canonical_host(k.value))

\* A host row was dealt with: probed, found unresolvable, or the run says why not.
accounted(k) ==
  \/ assets[k].status = "enriched"
  \/ assets[k].resolve_state = "unresolvable"
  \/ k.value \in {m.host : m \in summary.messages}

\* Enumeration that ran to its end passed over no host of its queue: each
\* in-scope host row is accounted for.
NoHostForgotten ==
  pc = "done" /\ command.mode = "full" /\ summary.state # "HALTED_ACTIVE_NOT_ALLOWED" =>
    \A k \in in_scope_host_rows : accounted(k)

\* What is known of a probed host stays known: no later recon, DNS lookup or
\* run puts it back to new, or loses its state or evidence.
EnrichedIsKept ==
  [][\A k \in DOMAIN assets : assets[k].status = "enriched" =>
       /\ k \in DOMAIN assets'
       /\ assets'[k].status = "enriched"
       /\ assets'[k].probe_state = assets[k].probe_state
       /\ assets[k].extra.ip # None => assets'[k].extra.ip = assets[k].extra.ip]_vars

\* A run never spins: it ends, or stands at a prompt.
RunEndsOrAsks == (pc # "idle") ~> (pc \in {"idle", "prompt"})

\* And when no prompt is left unanswered for good, every run ends.
AnsweredRunEnds == []<>(pc # "prompt") => ((pc # "idle") ~> (pc = "idle"))

----------------------------------------------------------------------------
(* The run as the target's owner sees it: may it act, in which phase is it,*)
(* where is the host in hand between its prompt and its probe, and what    *)
(* was looked up.                                                          *)

LookingPCs == {"dns", "dns_extra", "dns_state"}

AskingPCs == {"enum", "prompt", "resolve", "mark_unresolvable", "gate", "probe", "probe_state",
              "probe_extra"}

Authority ==
  pc # "idle" /\ config.authorized /\ config.active_actions_allowed /\ command.mode = "full"

Phase ==
  CASE pc \in LookingPCs -> "looking"
    [] pc \in AskingPCs -> "asking"
    [] OTHER -> "off"

Stage ==
  CASE pc = "prompt" -> "asked"
    [] pc \in {"resolve", "mark_unresolvable", "gate"} -> "granted"
    [] pc = "probe" -> "cleared"
    [] OTHER -> "rest"

HostInHand == IF Stage = "rest" THEN None ELSE row.value

Looked == {c.host : c \in contacts \ Probes}

Gated == INSTANCE ActiveGate WITH
  NoHost <- None, authority <- Authority, phase <- Phase, stage <- Stage, host <- HostInHand,
  said <- granted, looked <- Looked, probed <- probed_hosts

\* The orchestrator implements the gate's promise: over crashes, days, edits
\* and whatever the store holds, the order is authority, question, yes,
\* look-up, decision, contact, for each host anew and at most once a run.
ImplementsActiveGate == Gated!Spec

----------------------------------------------------------------------------
(* What the documents say and the code does not keep.                      *)

\* orchestrator.py:233 reports "nothing was sent to the target" when no active
\* action was approved; docs/USAGE.md says the same of a declined prompt.
AwaitingMeansSilent == summary.state = "AWAITING_APPROVAL" => contacts = {}

\* config/scope.example.yaml: exclusions always win; spec: scope is
\* re-validated on read.
NoContactWithExcluded == \A c \in contacts : ~name_out_of_scope(config, c.host)
=============================================================================
