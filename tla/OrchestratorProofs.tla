-------------------------- MODULE OrchestratorProofs --------------------------
(* The orchestrator's invariants, and that it implements ActiveGate, for     *)
(* every scope file, every answer of the outside and any number of runs,     *)
(* crashes and days.                                                         *)
EXTENDS Orchestrator, ScopeRulesProofs, FiniteSetTheorems, SequenceTheorems, TLAPS

\* The enumeration loop has a row in hand.
RowPCs == {"prompt", "resolve", "mark_unresolvable", "gate", "probe", "probe_state",
           "probe_extra"}

MayAct == config.authorized /\ config.active_actions_allowed /\ command.mode = "full"

\* The active phases are entered only through their guards.
PhaseInv ==
  /\ pc \in {"dns_start", "enum_start"} => command.mode = "full"
  /\ pc \in LookingPCs \cup AskingPCs => MayAct

\* recon is about to store a URL it has allowed.
UrlInv ==
  pc = "store_url" =>
    /\ row = key("url", row.value)
    /\ Decision(answer) /\ answer.allowed
    /\ host_recorded(canonical_host(row.value))

\* The queue of the enumeration loop and the row in hand are distinct in-scope
\* hosts not yet probed.
QueueInv ==
  /\ pc \in AskingPCs => rows \subseteq {k \in in_scope_host_rows : assets[k].status = "new"}
  /\ pc \in RowPCs => row \in in_scope_host_rows \ rows
  /\ pc \in RowPCs \ {"probe_extra"} => assets[row].status = "new"

\* What the human said, the resolver answered and the gate decided, for as
\* long as the loop relies on it.
AnswerInv ==
  /\ pc = "dns_extra" => answer \in DnsAnswers
  /\ pc \in RowPCs \ {"prompt"} => row.value \in granted
  /\ pc \in {"gate", "probe"} =>
       /\ answer \in Seq(Ips) \ {<<>>}
       /\ is_ip_literal(row.value) => answer = <<row.value[1]>>
  /\ pc = "probe" => allowed(scope_check(row.value, answer))
  /\ pc \in {"probe_state", "probe_extra"} =>
       /\ answer.probe_state \in {"live", "dead"}
       /\ Decision(answer.decision)
       /\ answer.decision.host = row.value /\ answer.decision.allowed
       /\ answer.decision.ips # <<>> /\ answer.ip = answer.decision.ips[1]
  /\ pc = "probe_extra" =>
       /\ assets[row].status = "enriched" /\ assets[row].decision = answer.decision
       /\ assets[row].extra.ip = None

\* Probes are counted once: no host still to be probed has been.
CountInv ==
  /\ IsFiniteSet(probed_hosts)
  /\ pc \notin AskingPCs \cup {"analyze", "done"} => Probes = {}
  /\ pc \in AskingPCs => \A k \in rows : k.value \notin probed_hosts
  /\ pc \in RowPCs \ {"probe_state", "probe_extra"} => row.value \notin probed_hosts

\* Every in-scope host is accounted for, queued or in hand.
AccountInv ==
  /\ pc \in AskingPCs =>
       \A k \in in_scope_host_rows : accounted(k) \/ k \in rows \/ (pc \in RowPCs /\ k = row)
  /\ pc \in {"analyze", "done"} /\ command.mode = "full"
       /\ summary.state # "HALTED_ACTIVE_NOT_ALLOWED" =>
         \A k \in in_scope_host_rows : accounted(k)

\* The inductive invariant.
IInv ==
  /\ TypeOK /\ PhaseInv /\ UrlInv /\ QueueInv /\ AnswerInv
  /\ RowsJustified /\ OneRowPerHost /\ UrlsHaveHosts
  /\ UnauthorizedIsSilent /\ ProbesGated
  /\ CountInv /\ OneProbePerGrant /\ AccountInv

----------------------------------------------------------------------------
(* The store.                                                              *)

\* What the store alone must satisfy; the conjunct of TypeOK about it included.
StoreInv ==
  /\ \A k \in DOMAIN assets :
        k = key(k.kind, k.value) /\ k.kind \in HostKinds \cup {"url"} /\ Row(assets[k])
  /\ RowsJustified /\ OneRowPerHost /\ UrlsHaveHosts

\* Rows were added, none was changed.
Grown ==
  /\ DOMAIN assets \subseteq DOMAIN assets'
  /\ \A k \in DOMAIN assets : assets'[k] = assets[k]

\* One row was changed, none was added.
Changed(k) ==
  /\ DOMAIN assets' = DOMAIN assets
  /\ \A j \in DOMAIN assets \ {k} : assets'[j] = assets[j]

LEMMA SameStore == ASSUME StoreInv, UNCHANGED assets PROVE StoreInv' /\ Grown
BY DEF StoreInv, Grown, RowsJustified, OneRowPerHost, UrlsHaveHosts, host_recorded

\* A new row is well formed and justified by its decision.
LEMMA NewRow ==
  ASSUME NEW status \in {"in_scope", "out_of_scope"}, NEW d, Decision(d)
  PROVE  LET r == new_row(status, d) IN
         /\ Row(r) /\ r.scope_status = status /\ r.status = "new"
         /\ r.decision = d /\ r.extra.ip = None
BY DEF new_row, Row, Decision, NoExtra

\* Adding one well-formed row under a new key keeps the store's invariant.
LEMMA AddRow ==
  ASSUME StoreInv, NEW k, NEW r, k \notin DOMAIN assets, assets' = with_row(k, r),
         k = key(k.kind, k.value), k.kind \in HostKinds \cup {"url"},
         Row(r), Justified(k, r),
         k.kind \in HostKinds => ~host_recorded(k.value),
         k.kind = "url" => host_recorded(canonical_host(k.value))
  PROVE  StoreInv' /\ Grown /\ k \in DOMAIN assets'
<1>1. /\ DOMAIN assets' = DOMAIN assets \cup {k}
      /\ assets'[k] = r
      /\ \A j \in DOMAIN assets : assets'[j] = assets[j]
  BY DEF with_row
<1>2. Grown /\ k \in DOMAIN assets'
  BY <1>1 DEF Grown
<1>3. \A j \in DOMAIN assets' :
        j = key(j.kind, j.value) /\ j.kind \in HostKinds \cup {"url"} /\ Row(assets'[j])
  BY <1>1 DEF StoreInv
<1>4. RowsJustified'
  BY <1>1 DEF StoreInv, RowsJustified
<1>5. OneRowPerHost'
  <2> SUFFICES ASSUME NEW i \in DOMAIN assets', NEW j \in DOMAIN assets',
                      i.kind \in HostKinds, j.kind \in HostKinds, i.value = j.value
               PROVE  i = j
    BY DEF OneRowPerHost
  <2>1. CASE i \in DOMAIN assets /\ j \in DOMAIN assets
    BY <2>1 DEF StoreInv, OneRowPerHost
  <2>2. CASE i = k /\ j \in DOMAIN assets
    <3>1. j = key(j.kind, k.value)
      BY <2>2 DEF StoreInv
    <3> QED
      BY <2>2, <3>1 DEF host_recorded
  <2>3. CASE j = k /\ i \in DOMAIN assets
    <3>1. i = key(i.kind, k.value)
      BY <2>3 DEF StoreInv
    <3> QED
      BY <2>3, <3>1 DEF host_recorded
  <2> QED
    BY <1>1, <2>1, <2>2, <2>3
<1>6. UrlsHaveHosts'
  BY <1>1 DEF StoreInv, UrlsHaveHosts, host_recorded
<1> QED
  BY <1>2, <1>3, <1>4, <1>5, <1>6 DEF StoreInv

\* Passive discovery only ever adds a host that has no row yet.
LEMMA RecordedGrows ==
  ASSUME StoreInv, NEW host, NEW d, assets' = recorded(host, d)
  PROVE  /\ StoreInv' /\ Grown
         /\ scope_status_for(d) = "in_scope" => host_recorded(host)'
<1> DEFINE k == key(IF host = seed THEN "domain" ELSE "subdomain", host)
           r == new_row(scope_status_for(d), decision_of(host, <<>>, d))
<1>1. CASE assets' = assets
  <2>1. StoreInv' /\ Grown
    BY <1>1, SameStore
  <2>2. ASSUME scope_status_for(d) = "in_scope" PROVE host_recorded(host)'
    <3>1. CASE host_recorded(host)
      BY <1>1, <3>1 DEF host_recorded
    <3>2. CASE ~host_recorded(host)
      <4>1. assets' = upsert_asset(k, r)
        BY <2>2, <3>2 DEF recorded, store_host
      <4> QED
        BY <4>1, <1>1 DEF upsert_asset, with_row, host_recorded, HostKinds, key
    <3> QED
      BY <3>1, <3>2
  <2> QED
    BY <2>1, <2>2
<1>2. CASE assets' # assets
  <2>1. scope_status_for(d) # "unverified" /\ ~host_recorded(host) /\ assets' = upsert_asset(k, r)
    BY <1>2 DEF recorded, store_host
  <2>2. /\ scope_status_for(d) \in {"in_scope", "out_of_scope"}
        /\ scope_status_for(d) = "in_scope" => allowed(d)
    BY <2>1 DEF scope_status_for
  <2>3. /\ Decision(decision_of(host, <<>>, d))
        /\ decision_of(host, <<>>, d).host = host
        /\ scope_status_for(d) = "in_scope" => decision_of(host, <<>>, d).allowed
    <3>1. <<>> \in Seq(Ips) /\ allowed(d) \in BOOLEAN
      BY DEF allowed
    <3> QED
      BY <3>1, <2>2 DEF Decision, decision_of
  <2>4. /\ Row(r) /\ r.scope_status = scope_status_for(d) /\ r.status = "new"
        /\ r.decision = decision_of(host, <<>>, d) /\ r.extra.ip = None
    BY <2>2, <2>3, NewRow
  <2>5. k.kind \in HostKinds /\ k.value = host /\ k = key(k.kind, k.value) /\ k \notin DOMAIN assets
    BY <2>1 DEF host_recorded, HostKinds, key
  <2>6. assets' = with_row(k, r)
    BY <2>1, <2>5 DEF upsert_asset
  <2>7. k.kind # "url" /\ Justified(k, r)
    BY <2>3, <2>4, <2>5 DEF HostKinds, Justified
  <2>8. StoreInv' /\ Grown /\ k \in DOMAIN assets'
    <3> HIDE DEF k, r
    <3> QED
      BY <2>1, <2>4, <2>5, <2>6, <2>7, AddRow
  <2>9. host_recorded(host)'
    BY <2>5, <2>8 DEF host_recorded
  <2> QED
    BY <2>8, <2>9
<1> QED
  BY <1>1, <1>2

\* An update of a row's columns keeps the store's invariant.
LEMMA ChangeRow ==
  ASSUME StoreInv, NEW k \in DOMAIN assets, NEW r, assets' = with_row(k, r),
         Row(r), Justified(k, r)
  PROVE  StoreInv' /\ Changed(k) /\ assets'[k] = r
<1>1. DOMAIN assets' = DOMAIN assets /\ assets'[k] = r
      /\ \A j \in DOMAIN assets \ {k} : assets'[j] = assets[j]
  BY DEF with_row
<1> QED
  BY <1>1 DEF Changed, StoreInv, RowsJustified, OneRowPerHost, UrlsHaveHosts, host_recorded

----------------------------------------------------------------------------
(* What each step that writes does to the store.                           *)

LEMMA IInvStore == ASSUME IInv PROVE StoreInv
BY DEF IInv, TypeOK, StoreInv

\* Of an enriched row, what the DNS lookup and recon must not disturb.
KeepsProbe(k) ==
  /\ assets'[k].status = assets[k].status
  /\ assets'[k].probe_state = assets[k].probe_state
  /\ assets'[k].decision = assets[k].decision
  /\ assets'[k].extra.ip = assets[k].extra.ip
  /\ assets'[k].scope_status = assets[k].scope_status

\* The evidence of a DNS lookup is merged in next to what is there.
LEMMA DnsRecordExtraStore ==
  ASSUME IInv, DnsRecordExtra
  PROVE  StoreInv' /\ row \in DOMAIN assets /\ Changed(row) /\ KeepsProbe(row)
<1> DEFINE old == assets[row]
           r == [old EXCEPT !.extra.dns = answer]
<1>1. row \in DOMAIN assets /\ answer \in DnsAnswers
  BY DEF IInv, TypeOK, AnswerInv, DnsRecordExtra
<1>2. Row(old) /\ Justified(row, old)
  BY <1>1 DEF IInv, TypeOK, RowsJustified
<1>3. /\ r.scope_status = old.scope_status /\ r.resolve_state = old.resolve_state
      /\ r.probe_state = old.probe_state /\ r.status = old.status /\ r.decision = old.decision
      /\ r.extra = [old.extra EXCEPT !.dns = answer]
      /\ Row(r)
  <2> HIDE DEF old
  <2> QED BY <1>1, <1>2 DEF Row
<1>4. r.extra.ip = old.extra.ip
  <2> HIDE DEF old
  <2> QED BY <1>2, <1>3 DEF Row
<1>5. Justified(row, r)
  <2> HIDE DEF r, old
  <2> QED BY <1>2, <1>3, <1>4 DEF Justified
<1>6. assets' = with_row(row, r)
  BY DEF DnsRecordExtra
<1>7. StoreInv' /\ Changed(row) /\ assets'[row] = r
  <2> HIDE DEF r
  <2> QED BY <1>1, <1>3, <1>5, <1>6, IInvStore, ChangeRow
<1> QED
  BY <1>1, <1>3, <1>4, <1>7 DEF KeepsProbe

\* A dangling name is marked, and nothing else.
LEMMA DnsRecordStateStore ==
  ASSUME IInv, DnsRecordState
  PROVE  StoreInv' /\ row \in DOMAIN assets /\ Changed(row) /\ KeepsProbe(row)
<1> DEFINE old == assets[row]
           r == [old EXCEPT !.resolve_state = "unresolvable"]
<1>1. row \in DOMAIN assets
  BY DEF IInv, TypeOK, DnsRecordState
<1>2. Row(old) /\ Justified(row, old)
  BY <1>1 DEF IInv, TypeOK, RowsJustified
<1>3. /\ r.scope_status = old.scope_status /\ r.probe_state = old.probe_state
      /\ r.status = old.status /\ r.decision = old.decision /\ r.extra = old.extra
      /\ Row(r)
  <2> HIDE DEF old
  <2> QED BY <1>2 DEF Row
<1>4. Justified(row, r)
  <2> HIDE DEF r, old
  <2> QED BY <1>2, <1>3 DEF Justified
<1>5. assets' = with_row(row, r)
  BY DEF DnsRecordState
<1>6. StoreInv' /\ Changed(row) /\ assets'[row] = r
  <2> HIDE DEF r
  <2> QED BY <1>1, <1>3, <1>4, <1>5, IInvStore, ChangeRow
<1> QED
  BY <1>1, <1>3, <1>6 DEF KeepsProbe

\* Only a row that was new is marked unresolvable by the enumeration.
LEMMA MarkUnresolvableStore ==
  ASSUME IInv, MarkUnresolvable
  PROVE  /\ StoreInv' /\ row \in DOMAIN assets /\ Changed(row)
         /\ assets[row].status = "new" /\ assets'[row].resolve_state = "unresolvable"
         /\ assets'[row].scope_status = assets[row].scope_status
<1> DEFINE old == assets[row]
           r == [old EXCEPT !.resolve_state = "unresolvable",
                            !.probe_state = "unprobed", !.status = "new"]
<1>1. row \in DOMAIN assets /\ old.status = "new"
  BY DEF IInv, TypeOK, QueueInv, RowPCs, MarkUnresolvable
<1>2. Row(old) /\ Justified(row, old)
  BY <1>1 DEF IInv, TypeOK, RowsJustified
<1>3. /\ r.scope_status = old.scope_status /\ r.resolve_state = "unresolvable"
      /\ r.status = "new" /\ r.decision = old.decision /\ r.extra = old.extra
      /\ Row(r)
  <2> HIDE DEF old
  <2> QED BY <1>2 DEF Row
<1>4. Justified(row, r)
  <2> HIDE DEF r, old
  <2> QED BY <1>1, <1>2, <1>3 DEF Justified
<1>5. assets' = with_row(row, r)
  BY DEF MarkUnresolvable
<1>6. StoreInv' /\ Changed(row) /\ assets'[row] = r
  <2> HIDE DEF r
  <2> QED BY <1>1, <1>3, <1>4, <1>5, IInvStore, ChangeRow
<1> QED
  BY <1>1, <1>3, <1>6

\* The first commit of a probe: the state columns and the decision, of a row
\* that was new.
LEMMA ProbeRecordStateStore ==
  ASSUME IInv, ProbeRecordState
  PROVE  /\ StoreInv' /\ row \in DOMAIN assets /\ Changed(row)
         /\ assets[row].status = "new" /\ assets'[row].status = "enriched"
         /\ assets'[row].decision = answer.decision /\ assets'[row].extra.ip = None
         /\ assets'[row].scope_status = assets[row].scope_status
<1> DEFINE old == assets[row]
           r == [old EXCEPT !.resolve_state = "resolved", !.probe_state = answer.probe_state,
                            !.status = "enriched", !.decision = answer.decision]
<1>1. row \in DOMAIN assets /\ old.status = "new"
  BY DEF IInv, TypeOK, QueueInv, RowPCs, ProbeRecordState
<1>2. Row(old) /\ Justified(row, old) /\ old.extra.ip = None
  BY <1>1 DEF IInv, TypeOK, RowsJustified, Justified
<1>3. /\ answer.probe_state \in {"live", "dead"}
      /\ Decision(answer.decision) /\ answer.decision.host = row.value
      /\ answer.decision.allowed /\ answer.decision.ips # <<>>
  BY DEF IInv, AnswerInv, ProbeRecordState
<1>4. /\ r.scope_status = old.scope_status /\ r.probe_state = answer.probe_state
      /\ r.status = "enriched" /\ r.decision = answer.decision /\ r.extra = old.extra
      /\ Row(r)
  <2> HIDE DEF old
  <2> QED BY <1>2, <1>3 DEF Row
<1>5. Justified(row, r)
  <2> HIDE DEF r, old
  <2> QED BY <1>2, <1>3, <1>4 DEF Justified
<1>6. assets' = with_row(row, r)
  BY DEF ProbeRecordState
<1>7. StoreInv' /\ Changed(row) /\ assets'[row] = r
  <2> HIDE DEF r
  <2> QED BY <1>1, <1>4, <1>5, <1>6, IInvStore, ChangeRow
<1> QED
  BY <1>1, <1>2, <1>4, <1>7

\* The second commit: the evidence, the address the decision was made on.
LEMMA ProbeRecordExtraStore ==
  ASSUME IInv, ProbeRecordExtra
  PROVE  /\ StoreInv' /\ row \in DOMAIN assets /\ Changed(row)
         /\ assets[row].extra.ip = None /\ assets[row].status = "enriched"
         /\ assets'[row].status = "enriched"
         /\ assets'[row].probe_state = assets[row].probe_state
         /\ assets'[row].scope_status = assets[row].scope_status
<1> DEFINE old == assets[row]
           r == [old EXCEPT !.extra.ip = answer.ip]
<1>1. row \in DOMAIN assets
  BY DEF IInv, TypeOK, ProbeRecordExtra
<1>2. Row(old) /\ Justified(row, old)
  BY <1>1 DEF IInv, TypeOK, RowsJustified
<1>3. /\ Decision(answer.decision) /\ answer.decision.ips # <<>>
      /\ answer.ip = answer.decision.ips[1]
      /\ old.status = "enriched" /\ old.decision = answer.decision /\ old.extra.ip = None
  BY DEF IInv, AnswerInv, ProbeRecordExtra
<1>4. answer.ip \in Ips
  <2>1. answer.decision.ips \in Seq(Ips)
    BY <1>3 DEF Decision
  <2> QED BY <2>1, <1>3
<1>5. /\ r.scope_status = old.scope_status /\ r.probe_state = old.probe_state
      /\ r.status = old.status /\ r.decision = old.decision
      /\ r.extra = [old.extra EXCEPT !.ip = answer.ip]
      /\ Row(r)
  <2> HIDE DEF old
  <2> QED BY <1>2, <1>4 DEF Row
<1>6. r.extra.ip = answer.ip
  <2> HIDE DEF old
  <2> QED BY <1>2, <1>5 DEF Row
<1>7. Justified(row, r)
  <2> HIDE DEF r, old
  <2> QED BY <1>2, <1>3, <1>5, <1>6 DEF Justified
<1>8. assets' = with_row(row, r)
  BY DEF ProbeRecordExtra
<1>9. StoreInv' /\ Changed(row) /\ assets'[row] = r
  <2> HIDE DEF r
  <2> QED BY <1>1, <1>5, <1>7, <1>8, IInvStore, ChangeRow
<1> QED
  BY <1>1, <1>3, <1>5, <1>9

\* A URL row follows its host's row.
LEMMA StoreUrlStore == ASSUME IInv, StoreUrl PROVE StoreInv' /\ Grown
<1> DEFINE r == new_row("in_scope", answer)
<1>1. CASE row \in DOMAIN assets
  BY <1>1, IInvStore, SameStore DEF StoreUrl
<1>2. CASE row \notin DOMAIN assets
  <2>1. /\ row = key("url", row.value) /\ Decision(answer) /\ answer.allowed
        /\ host_recorded(canonical_host(row.value))
    BY DEF StoreUrl, IInv, UrlInv
  <2>2. row.kind = "url" /\ row = key(row.kind, row.value) /\ row.kind \notin HostKinds
    BY <2>1 DEF key, HostKinds
  <2>3. /\ Row(r) /\ r.scope_status = "in_scope" /\ r.status = "new" /\ r.decision = answer
        /\ r.extra.ip = None
    BY <2>1, NewRow
  <2>4. Justified(row, r)
    BY <2>1, <2>2, <2>3 DEF Justified
  <2>5. assets' = with_row(row, r)
    BY <1>2 DEF StoreUrl, upsert_asset
  <2> HIDE DEF r
  <2> QED
    BY <1>2, <2>1, <2>2, <2>3, <2>4, <2>5, IInvStore, AddRow
<1> QED
  BY <1>1, <1>2

----------------------------------------------------------------------------
(* The inductive step, a part of the invariant at a time.                  *)

\* The steps that write to the store are the passive ones, which add rows,
\* and the updates of the row in hand.
Adds == ScopeHost \/ ScopeUrl \/ StoreUrl

Updates ==
  \/ DnsRecordExtra \/ DnsRecordState \/ MarkUnresolvable
  \/ ProbeRecordState \/ ProbeRecordExtra

LEMMA OthersLeaveStore == ASSUME Next, ~Adds, ~Updates PROVE UNCHANGED assets
BY DEF Next, Program, Adds, Updates, EditScope, DayPasses, Start, NextSeed, Fetch, SeedDone,
       SourceDone, ReconDone, DnsStart, DnsQuery, DnsDone, EnumStart, Prompt, Answer, Resolve,
       Gate, Probe, EnumDone, Analyze, Exit, Finish, Crash

LEMMA StoreInductive ==
  ASSUME IInv, Next
  PROVE  StoreInv' /\ (Grown \/ (row \in DOMAIN assets /\ Changed(row) /\ Updates))
<1>1. CASE ScopeHost
  <2>1. PICK raw \in found : \E d \in {scope_check(raw, <<>>)} :
          assets' = recorded(IF d.canonical_host = None THEN raw ELSE d.canonical_host, d)
    BY <1>1 DEF ScopeHost
  <2> QED
    BY <2>1, IInvStore, RecordedGrows
<1>2. CASE ScopeUrl
  <2>1. PICK url \in found : \E host \in {canonical_target(url).canon} :
          \/ UNCHANGED assets
          \/ \E d \in {scope_check(host, <<>>)} : assets' = recorded(host, d)
    BY <1>2 DEF ScopeUrl
  <2> QED
    BY <2>1, IInvStore, RecordedGrows, SameStore
<1>3. CASE StoreUrl
  BY <1>3, StoreUrlStore
<1>4. CASE Updates
  BY <1>4, DnsRecordExtraStore, DnsRecordStateStore, MarkUnresolvableStore,
     ProbeRecordStateStore, ProbeRecordExtraStore DEF Updates
<1>5. CASE ~Adds /\ ~Updates
  BY <1>5, OthersLeaveStore, IInvStore, SameStore
<1> QED
  BY <1>1, <1>2, <1>3, <1>4, <1>5 DEF Adds

LEMMA PhaseInductive == ASSUME IInv, Next PROVE PhaseInv'
<1>1. CASE Start
  BY <1>1 DEF Start, PhaseInv, LookingPCs, AskingPCs, RowPCs
<1>2. CASE Exit
  BY <1>2 DEF Exit, PhaseInv, LookingPCs, AskingPCs, RowPCs
<1>3. CASE EditScope \/ DayPasses \/ Answer
  BY <1>3 DEF IInv, EditScope, DayPasses, Answer, PhaseInv, LookingPCs, AskingPCs, RowPCs, MayAct,
              loaded
<1>4. CASE Program
  BY <1>4 DEF IInv, Program, PhaseInv, LookingPCs, AskingPCs, RowPCs, MayAct, loaded,
       NextSeed, Fetch, SeedDone, ScopeHost, ScopeUrl, StoreUrl, SourceDone, ReconDone,
       DnsStart, DnsQuery, DnsRecordExtra, DnsRecordState, DnsDone,
       EnumStart, Prompt, Resolve, MarkUnresolvable, Gate, Probe, ProbeRecordState,
       ProbeRecordExtra, EnumDone, Analyze, Finish, Exit, after_active, active_preconditions_ok
<1> QED
  BY <1>1, <1>2, <1>3, <1>4 DEF Next, Crash

\* Once the configuration of a run is read it stays, until the run ends.
LEMMA ConfigKept ==
  ASSUME IInv, Next PROVE UNCHANGED <<config, command>> \/ contacts' = {}
BY DEF IInv, TypeOK, NoRun, Next, Program, loaded, history,
       EditScope, DayPasses, Start, NextSeed, Fetch, SeedDone, ScopeHost, ScopeUrl, StoreUrl,
       SourceDone, ReconDone, DnsStart, DnsQuery, DnsRecordExtra, DnsRecordState, DnsDone,
       EnumStart, Prompt, Answer, Resolve, MarkUnresolvable, Gate, Probe, ProbeRecordState,
       ProbeRecordExtra, EnumDone, Analyze, Exit, Finish, Crash

\* Contact is made in the active phases only.
LEMMA ContactsGrow ==
  ASSUME Next
  PROVE  contacts' = contacts \/ contacts' = {} \/ DnsQuery \/ Resolve \/ Probe
BY DEF Next, Program, loaded, history,
       EditScope, DayPasses, Start, NextSeed, Fetch, SeedDone, ScopeHost, ScopeUrl, StoreUrl,
       SourceDone, ReconDone, DnsStart, DnsRecordExtra, DnsRecordState, DnsDone,
       EnumStart, Prompt, Answer, MarkUnresolvable, Gate, ProbeRecordState,
       ProbeRecordExtra, EnumDone, Analyze, Exit, Finish, Crash

LEMMA SilentInductive == ASSUME IInv, Next PROVE UnauthorizedIsSilent'
<1>1. CASE contacts' = {}
  BY <1>1 DEF UnauthorizedIsSilent
<1>2. CASE contacts' = contacts /\ UNCHANGED <<config, command>>
  BY <1>2 DEF IInv, UnauthorizedIsSilent
<1>3. CASE DnsQuery \/ Resolve \/ Probe
  BY <1>3 DEF IInv, PhaseInv, LookingPCs, AskingPCs, RowPCs, MayAct, UnauthorizedIsSilent, loaded,
              DnsQuery, Resolve, Probe
<1> QED
  BY <1>1, <1>2, <1>3, ConfigKept, ContactsGrow

\* The passive steps and the ends of a run keep no answer anyone relies on.
LEMMA AnswerInductive == ASSUME IInv, Next PROVE AnswerInv'
<1>1. CASE DnsQuery
  BY <1>1 DEF DnsQuery, AnswerInv, RowPCs
<1>2. CASE Answer
  <2>1. pc' = "resolve" => row' = row /\ row.value \in granted'
    <3> DEFINE request == request_for(row.value)
    <3>1. PICK yes \in BOOLEAN :
            /\ granted' = IF yes THEN granted \cup {row.value} ELSE granted
            /\ IF accepts(burned, request, [fp |-> fingerprint(request), granted |-> yes])
               THEN pc' = "resolve" ELSE pc' = "enum"
      BY <1>2 DEF Answer
    <3> QED
      BY <1>2, <3>1 DEF Answer, accepts
  <2>2. pc' \in {"resolve", "enum"}
    BY <1>2 DEF Answer
  <2> QED
    BY <2>1, <2>2 DEF AnswerInv, RowPCs
<1>3. CASE Resolve
  <2>1. answer' \in Seq(Ips)
    BY <1>3, ResolutionsAssumption DEF Resolve, resolve_ips, is_ip_literal
  <2>2. is_ip_literal(row.value) => answer' = <<row.value[1]>>
    BY <1>3 DEF Resolve, resolve_ips
  <2> QED
    BY <1>3, <2>1, <2>2 DEF Resolve, IInv, AnswerInv, RowPCs
<1>4. CASE MarkUnresolvable
  BY <1>4 DEF MarkUnresolvable, AnswerInv, RowPCs
<1>5. CASE Gate
  BY <1>5 DEF Gate, IInv, AnswerInv, RowPCs, scope_check, history, loaded, locals
<1>6. CASE Probe
  <2>1. /\ row' = row /\ granted' = granted /\ row.value \in granted /\ pc' = "probe_state"
        /\ answer \in Seq(Ips) \ {<<>>} /\ allowed(scope_check(row.value, answer))
    BY <1>6 DEF Probe, IInv, AnswerInv, RowPCs
  <2>2. /\ answer'.probe_state \in {"live", "dead"} /\ answer'.ip = answer[1]
        /\ answer'.decision = decision_of(row.value, answer, scope_check(row.value, answer))
    BY <1>6 DEF Probe
  <2>3. LET d == decision_of(row.value, answer, scope_check(row.value, answer)) IN
          Decision(d) /\ d.host = row.value /\ d.ips = answer /\ d.allowed
    BY <2>1 DEF decision_of, Decision
  <2> QED
    BY <2>1, <2>2, <2>3 DEF AnswerInv, Decision
<1>7. CASE ProbeRecordState
  <2>1. /\ assets'[row].status = "enriched" /\ assets'[row].decision = answer.decision
        /\ assets'[row].extra.ip = None
    BY <1>7, ProbeRecordStateStore
  <2>2. pc' = "probe_extra" /\ UNCHANGED <<row, answer, granted>>
    BY <1>7 DEF ProbeRecordState, locals, history
  <2> QED
    BY <1>7, <2>1, <2>2 DEF ProbeRecordState, IInv, AnswerInv, RowPCs, Decision
<1>8. CASE ~(DnsQuery \/ Answer \/ Resolve \/ MarkUnresolvable \/ Gate \/ Probe \/ ProbeRecordState)
           /\ ~DayPasses
  <2>1. pc' \notin (RowPCs \cup {"dns_extra"}) \ {"prompt"}
    BY <1>8 DEF Next, Program, RowPCs, EditScope, Start, NextSeed, Fetch, SeedDone, ScopeHost,
         ScopeUrl, StoreUrl, SourceDone, ReconDone, DnsStart, DnsRecordExtra, DnsRecordState,
         DnsDone, EnumStart, Prompt, ProbeRecordExtra, EnumDone, Analyze, Exit, Finish, Crash,
         after_active
  <2> QED
    BY <2>1 DEF AnswerInv, RowPCs
<1>9. CASE DayPasses
  BY <1>9 DEF DayPasses, IInv, AnswerInv, scope_check, Decision, loaded, locals, history
<1> QED
  BY <1>1, <1>2, <1>3, <1>4, <1>5, <1>6, <1>7, <1>8, <1>9

LEMMA UrlInductive == ASSUME IInv, Next PROVE UrlInv'
<1>1. CASE ScopeUrl
  <2> SUFFICES ASSUME pc' = "store_url" PROVE UrlInv'
    BY DEF UrlInv
  <2>1. PICK url \in found : \E host \in {canonical_target(url).canon} :
          \/ host = Raises /\ UNCHANGED pc
          \/ /\ host # Raises
             /\ \E d \in {scope_check(host, <<>>)} :
                  /\ assets' = recorded(host, d)
                  /\ IF scope_status_for(d) = "in_scope"
                     THEN /\ row' = key("url", url.host)
                          /\ answer' = decision_of(host, <<>>, d)
                     ELSE UNCHANGED pc
    BY <1>1 DEF ScopeUrl
  <2> DEFINE host == canonical_target(url).canon
             d == scope_check(host, <<>>)
  <2>2. /\ host # Raises /\ assets' = recorded(host, d) /\ scope_status_for(d) = "in_scope"
        /\ row' = key("url", url.host) /\ answer' = decision_of(host, <<>>, d)
    BY <1>1, <2>1 DEF ScopeUrl
  <2>3. host = canonical_host(url.host)
    BY <2>2 DEF canonical_target
  <2>4. host_recorded(host)'
    BY <2>2, IInvStore, RecordedGrows
  <2>5. allowed(d)
    BY <2>2 DEF scope_status_for
  <2>6. Decision(answer') /\ answer'.allowed
    <3>1. <<>> \in Seq(Ips)
      OBVIOUS
    <3> HIDE DEF d, host
    <3> QED
      BY <2>2, <2>5, <3>1 DEF decision_of, Decision
  <2>7. row' = key("url", row'.value) /\ row'.value = url.host
    BY <2>2 DEF key
  <2>8. host_recorded(canonical_host(row.value))'
    BY <2>3, <2>4, <2>7 DEF host_recorded
  <2> QED
    BY <2>6, <2>7, <2>8 DEF UrlInv, Decision
<1>2. CASE DayPasses
  BY <1>2 DEF DayPasses, IInv, UrlInv, host_recorded, Decision, loaded, locals, history
<1>3. CASE ~ScopeUrl /\ ~DayPasses
  <2>1. pc' # "store_url"
    BY <1>3 DEF Next, Program, EditScope, Start, NextSeed, Fetch, SeedDone, ScopeHost,
         StoreUrl, SourceDone, ReconDone, DnsStart, DnsQuery, DnsRecordExtra, DnsRecordState,
         DnsDone, EnumStart, Prompt, Answer, Resolve, MarkUnresolvable, Gate, Probe,
         ProbeRecordState, ProbeRecordExtra, EnumDone, Analyze, Exit, Finish, Crash,
         after_active
  <2> QED
    BY <2>1 DEF UrlInv
<1> QED
  BY <1>1, <1>2, <1>3

\* A yes is not taken back while a run lasts.
LEMMA GrantsKept == ASSUME Next PROVE granted \subseteq granted' \/ contacts' = {}
BY DEF Next, Program, history,
       EditScope, DayPasses, Start, NextSeed, Fetch, SeedDone, ScopeHost, ScopeUrl, StoreUrl,
       SourceDone, ReconDone, DnsStart, DnsQuery, DnsRecordExtra, DnsRecordState, DnsDone,
       EnumStart, Prompt, Answer, Resolve, MarkUnresolvable, Gate, Probe, ProbeRecordState,
       ProbeRecordExtra, EnumDone, Analyze, Exit, Finish, Crash

\* Every probe on record was gated under this run's configuration, and the
\* step Probe has just passed the gate.
LEMMA GatedInductive == ASSUME IInv, Next PROVE ProbesGated'
<1> SUFFICES ASSUME NEW c \in Probes'
             PROVE  /\ config'.authorized /\ config'.active_actions_allowed
                    /\ c.host \in granted'
                    /\ IF is_ip_literal(c.host)
                       THEN ip_in(config'.in_scope.ip_ranges, c.ip)
                       ELSE /\ ~name_out_of_scope(config', canonical_host(c.host))
                            /\ name_in_scope(config', canonical_host(c.host))
                    /\ c.ips # <<>> /\ c.ip = c.ips[1]
                    /\ \A i \in DOMAIN c.ips : ~ip_refused(config', c.ips[i])
  BY DEF ProbesGated
<1>1. UNCHANGED <<config, command>> /\ granted \subseteq granted'
  BY ConfigKept, GrantsKept DEF Probes
<1>2. CASE c \in Probes
  BY <1>1, <1>2 DEF IInv, ProbesGated
<1>3. CASE c \notin Probes
  <2>1. Probe
    <3>1. ASSUME DnsQuery PROVE FALSE
      BY <1>3, <3>1 DEF DnsQuery, Probes, contact
    <3>2. ASSUME Resolve PROVE FALSE
      BY <1>3, <3>2 DEF Resolve, Probes, contact
    <3> QED
      BY <1>3, <3>1, <3>2, ContactsGrow DEF Probes
  <2>2. c = contact("probe", row.value, answer[1], answer)
    BY <1>3, <2>1 DEF Probe, Probes
  <2>3. /\ answer \in Seq(Ips) \ {<<>>} /\ row.value \in granted
        /\ is_ip_literal(row.value) => answer = <<row.value[1]>>
        /\ allowed(decide(config, [form |-> "bare", host |-> row.value], answer))
        /\ MayAct
    BY <2>1 DEF Probe, IInv, AnswerInv, PhaseInv, AskingPCs, RowPCs, scope_check
  <2>4. /\ IF is_ip_literal(row.value)
           THEN ip_in(config.in_scope.ip_ranges, answer[1])
           ELSE /\ ~name_out_of_scope(config, canonical_host(row.value))
                /\ name_in_scope(config, canonical_host(row.value))
        /\ \A i \in DOMAIN answer : ~ip_refused(config, answer[i])
    BY <2>3, AllowedHost
  <2>5. c.host = row.value /\ c.ip = answer[1] /\ c.ips = answer
    BY <2>2 DEF contact
  <2> QED
    BY <1>1, <2>3, <2>4, <2>5 DEF MayAct
<1> QED
  BY <1>2, <1>3

\* The scope status of a row never changes, nor does the set of host rows in
\* the active phases.
LEMMA RowsInScopeKept ==
  ASSUME IInv, Next
  PROVE  /\ DOMAIN assets \subseteq DOMAIN assets'
         /\ \A k \in DOMAIN assets : assets'[k].scope_status = assets[k].scope_status
         /\ ~Adds => in_scope_host_rows' = in_scope_host_rows
<1>1. CASE Updates
  <2>1. /\ row \in DOMAIN assets /\ Changed(row)
        /\ assets'[row].scope_status = assets[row].scope_status
    BY <1>1, DnsRecordExtraStore, DnsRecordStateStore, MarkUnresolvableStore,
       ProbeRecordStateStore, ProbeRecordExtraStore DEF Updates, KeepsProbe
  <2> QED
    BY <2>1 DEF Changed, in_scope_host_rows, in_scope_rows
<1>2. CASE Adds
  <2>1. Grown
    <3>1. ~Updates
      BY <1>2 DEF Adds, Updates, ScopeHost, ScopeUrl, StoreUrl, DnsRecordExtra, DnsRecordState,
                  MarkUnresolvable, ProbeRecordState, ProbeRecordExtra
    <3> QED
      BY <3>1, StoreInductive
  <2> QED
    BY <1>2, <2>1 DEF Grown
<1>3. CASE ~Adds /\ ~Updates
  BY <1>3, OthersLeaveStore DEF in_scope_host_rows, in_scope_rows
<1> QED
  BY <1>1, <1>2, <1>3

LEMMA QueueInductive == ASSUME IInv, Next PROVE QueueInv'
<1>1. CASE EnumStart
  BY <1>1 DEF EnumStart, QueueInv, AskingPCs, RowPCs, in_scope_host_rows, in_scope_rows,
              after_active
<1>2. CASE Prompt
  <2>1. /\ rows \subseteq {k \in in_scope_host_rows : assets[k].status = "new"}
    BY <1>2 DEF Prompt, IInv, QueueInv, AskingPCs
  <2>2. row' \in rows /\ rows' = rows \ {row'} /\ UNCHANGED assets
    BY <1>2 DEF Prompt
  <2> QED
    BY <2>1, <2>2, <1>2 DEF Prompt, QueueInv, AskingPCs, RowPCs, in_scope_host_rows, in_scope_rows
<1>3. CASE Answer \/ Resolve \/ Gate \/ Probe \/ DayPasses
  <2>1. UNCHANGED <<assets, rows, row>>
    BY <1>3 DEF Answer, Resolve, Gate, Probe, DayPasses, locals
  <2>2. /\ pc' \in AskingPCs => pc \in AskingPCs
        /\ pc' \in RowPCs => pc \in RowPCs
        /\ pc' \in RowPCs \ {"probe_extra"} => pc \in RowPCs \ {"probe_extra"}
    BY <1>3 DEF Answer, Resolve, Gate, Probe, DayPasses, AskingPCs, RowPCs
  <2> QED
    BY <2>1, <2>2 DEF IInv, QueueInv, in_scope_host_rows, in_scope_rows
<1>4. CASE MarkUnresolvable \/ ProbeRecordState \/ ProbeRecordExtra
  <2>1. row \in DOMAIN assets /\ Changed(row) /\ UNCHANGED <<rows, row>>
    BY <1>4, MarkUnresolvableStore, ProbeRecordStateStore, ProbeRecordExtraStore
       DEF MarkUnresolvable, ProbeRecordState, ProbeRecordExtra, locals
  <2>2. ~Adds
    BY <1>4 DEF Adds, ScopeHost, ScopeUrl, StoreUrl, MarkUnresolvable, ProbeRecordState,
                ProbeRecordExtra
  <2>3. in_scope_host_rows' = in_scope_host_rows
    BY <2>2, RowsInScopeKept
  <2>4. /\ rows \subseteq {k \in in_scope_host_rows : assets[k].status = "new"}
        /\ row \in in_scope_host_rows \ rows
        /\ pc' \notin RowPCs \ {"probe_extra"}
    BY <1>4 DEF IInv, QueueInv, AskingPCs, RowPCs, MarkUnresolvable, ProbeRecordState,
                ProbeRecordExtra
  <2>5. rows \subseteq {k \in in_scope_host_rows : assets'[k].status = "new"}
    BY <2>1, <2>4 DEF Changed, in_scope_host_rows, in_scope_rows
  <2> QED
    BY <2>1, <2>3, <2>4, <2>5 DEF QueueInv
<1>5. CASE /\ ~(EnumStart \/ Prompt \/ Answer \/ Resolve \/ Gate \/ Probe \/ DayPasses)
           /\ ~(MarkUnresolvable \/ ProbeRecordState \/ ProbeRecordExtra)
  <2>1. pc' \notin AskingPCs
    BY <1>5 DEF Next, Program, AskingPCs, RowPCs, EditScope, Start, NextSeed, Fetch, SeedDone,
         ScopeHost, ScopeUrl, StoreUrl, SourceDone, ReconDone, DnsStart, DnsQuery,
         DnsRecordExtra, DnsRecordState, DnsDone, EnumDone, Analyze, Exit, Finish, Crash,
         after_active
  <2> QED
    BY <2>1 DEF QueueInv, AskingPCs, RowPCs
<1> QED
  BY <1>1, <1>2, <1>3, <1>4, <1>5

\* What a run reports is written by these steps.
LEMMA OthersLeaveSummary ==
  ASSUME Next, ~(Answer \/ Gate \/ Probe \/ EnumStart \/ EnumDone \/ Analyze \/ Exit)
  PROVE  UNCHANGED summary
BY DEF Next, Program, EditScope, DayPasses, Start, NextSeed, Fetch, SeedDone, ScopeHost, ScopeUrl,
       StoreUrl, SourceDone, ReconDone, DnsStart, DnsQuery, DnsRecordExtra, DnsRecordState,
       DnsDone, Prompt, Resolve, MarkUnresolvable, ProbeRecordState, ProbeRecordExtra, Finish,
       Crash

LEMMA TypeInductive == ASSUME IInv, Next PROVE TypeOK'
<1>1. scope' \in Scopes /\ today' \in 0..MaxDay /\ today' >= today
  <2>1. CASE EditScope
    BY <2>1 DEF EditScope, IInv, TypeOK
  <2>2. CASE DayPasses
    BY <2>2, DaysAssumption DEF DayPasses, IInv, TypeOK
  <2>3. CASE ~EditScope /\ ~DayPasses
    <3>1. UNCHANGED outside
      BY <2>3 DEF Next, Program, Start, NextSeed, Fetch, SeedDone, ScopeHost, ScopeUrl, StoreUrl,
           SourceDone, ReconDone, DnsStart, DnsQuery, DnsRecordExtra, DnsRecordState, DnsDone,
           EnumStart, Prompt, Answer, Resolve, MarkUnresolvable, Gate, Probe, ProbeRecordState,
           ProbeRecordExtra, EnumDone, Analyze, Exit, Finish, Crash
    <3> QED
      BY <3>1 DEF outside, IInv, TypeOK
  <2> QED
    BY <2>1, <2>2, <2>3
<1>2. pc' \in PCs /\ IF pc' = "idle" THEN NoRun' ELSE config' \in Scopes /\ command' \in Commands
  <2>1. CASE EditScope \/ DayPasses \/ Answer
    BY <2>1 DEF EditScope, DayPasses, Answer, IInv, TypeOK, PCs, NoRun, loaded, locals, history
  <2>2. CASE Start
    BY <2>2 DEF Start, IInv, TypeOK, PCs
  <2>3. CASE Exit
    BY <2>3 DEF Exit, PCs, NoRun, NoSummary
  <2>4. CASE Program /\ ~Exit
    BY <2>4 DEF IInv, TypeOK, Program, PCs, loaded,
       NextSeed, Fetch, SeedDone, ScopeHost, ScopeUrl, StoreUrl, SourceDone, ReconDone,
       DnsStart, DnsQuery, DnsRecordExtra, DnsRecordState, DnsDone, EnumStart, Prompt, Resolve,
       MarkUnresolvable, Gate, Probe, ProbeRecordState, ProbeRecordExtra, EnumDone, Analyze,
       Finish, after_active
  <2> QED
    BY <2>1, <2>2, <2>3, <2>4 DEF Next, Crash
<1>3. \A k \in DOMAIN assets' :
        k = key(k.kind, k.value) /\ k.kind \in HostKinds \cup {"url"} /\ Row(assets'[k])
  BY StoreInductive DEF StoreInv, Row, Decision
<1>4. rows' \subseteq DOMAIN assets'
  <2>1. DOMAIN assets \subseteq DOMAIN assets'
    BY RowsInScopeKept
  <2>2. rows' \subseteq DOMAIN assets
    BY DEF IInv, TypeOK, Next, Program, locals, in_scope_host_rows, in_scope_rows,
       EditScope, DayPasses, Start, NextSeed, Fetch, SeedDone, ScopeHost, ScopeUrl, StoreUrl,
       SourceDone, ReconDone, DnsStart, DnsQuery, DnsRecordExtra, DnsRecordState, DnsDone,
       EnumStart, Prompt, Answer, Resolve, MarkUnresolvable, Gate, Probe, ProbeRecordState,
       ProbeRecordExtra, EnumDone, Analyze, Exit, Finish, Crash
  <2> QED
    BY <2>1, <2>2
<1>5. pc' \in {"dns_extra", "dns_state", "prompt", "resolve", "mark_unresolvable", "gate",
               "probe", "probe_state", "probe_extra"} => row' \in DOMAIN assets'
  <2>1. pc' \in {"dns_extra", "dns_state", "prompt", "resolve", "mark_unresolvable", "gate",
                 "probe", "probe_state", "probe_extra"} => row' \in DOMAIN assets
    BY DEF IInv, TypeOK, Next, Program, locals, after_active,
       EditScope, DayPasses, Start, NextSeed, Fetch, SeedDone, ScopeHost, ScopeUrl, StoreUrl,
       SourceDone, ReconDone, DnsStart, DnsQuery, DnsRecordExtra, DnsRecordState, DnsDone,
       EnumStart, Prompt, Answer, Resolve, MarkUnresolvable, Gate, Probe, ProbeRecordState,
       ProbeRecordExtra, EnumDone, Analyze, Exit, Finish, Crash
  <2> QED
    BY <2>1, RowsInScopeKept
<1>6. approved_any' \in BOOLEAN
  BY DEF IInv, TypeOK, Next, Program, locals,
     EditScope, DayPasses, Start, NextSeed, Fetch, SeedDone, ScopeHost, ScopeUrl, StoreUrl,
     SourceDone, ReconDone, DnsStart, DnsQuery, DnsRecordExtra, DnsRecordState, DnsDone,
     EnumStart, Prompt, Answer, Resolve, MarkUnresolvable, Gate, Probe, ProbeRecordState,
     ProbeRecordExtra, EnumDone, Analyze, Exit, Finish, Crash
<1>7. DOMAIN summary' = DOMAIN NoSummary /\ summary'.probed \in Nat
  <2>1. DOMAIN summary = {"state", "probed", "messages", "focus_top"} /\ summary.probed \in Nat
    BY DEF IInv, TypeOK, NoSummary
  <2>2. CASE Answer \/ Gate
    BY <2>1, <2>2 DEF Answer, Gate, skipped, NoSummary
  <2>3. CASE Probe
    BY <2>1, <2>3 DEF Probe, NoSummary
  <2>4. CASE EnumStart \/ EnumDone
    BY <2>1, <2>4 DEF EnumStart, EnumDone, NoSummary
  <2>5. CASE Analyze
    BY <2>1, <2>5 DEF Analyze, NoSummary
  <2>6. CASE Exit
    BY <2>1, <2>6 DEF Exit, NoSummary
  <2>7. CASE ~(Answer \/ Gate \/ Probe \/ EnumStart \/ EnumDone \/ Analyze \/ Exit)
    BY <2>1, <2>7, OthersLeaveSummary DEF NoSummary
  <2> QED
    BY <2>2, <2>3, <2>4, <2>5, <2>6, <2>7
<1>8. \A c \in contacts' : c.what \in {"dns", "resolve", "probe"} /\ c.day \in 0..today'
  <2>1. \A c \in contacts : c.what \in {"dns", "resolve", "probe"} /\ c.day \in 0..today'
    BY <1>1 DEF IInv, TypeOK
  <2>2. CASE DnsQuery \/ Resolve \/ Probe
    BY <2>1, <2>2 DEF DnsQuery, Resolve, Probe, contact, outside, IInv, TypeOK
  <2> QED
    BY <2>1, <2>2, ContactsGrow
<1> QED
  BY <1>1, <1>2, <1>3, <1>4, <1>5, <1>6, <1>7, <1>8 DEF TypeOK, Row, Decision, NoSummary, NoRun

\* The hosts probed so far are those of the run's probes; only Probe adds one.
LEMMA ProbedHosts ==
  ASSUME Next
  PROVE  \/ probed_hosts' = probed_hosts /\ (Probes' = {} <=> Probes = {}) /\ ~Exit /\ ~Probe
         \/ probed_hosts' = {} /\ Probes' = {} /\ Exit
         \/ probed_hosts' = probed_hosts \cup {row.value} /\ Probe
<1>1. CASE Exit
  BY <1>1 DEF Exit, probed_hosts, Probes
<1>2. CASE Probe
  <2>1. contact("probe", row.value, answer[1], answer).what = "probe"
        /\ contact("probe", row.value, answer[1], answer).host = row.value
    BY DEF contact
  <2>2. Probes' = Probes \cup {contact("probe", row.value, answer[1], answer)}
    BY <1>2, <2>1 DEF Probe, Probes
  <2> QED
    BY <1>2, <2>1, <2>2 DEF probed_hosts
<1>3. CASE (DnsQuery \/ Resolve) /\ ~Exit /\ ~Probe
  <2>1. Probes' = Probes
    BY <1>3 DEF DnsQuery, Resolve, contact, Probes
  <2> QED
    BY <1>3, <2>1 DEF probed_hosts
<1>4. CASE ~DnsQuery /\ ~Resolve /\ ~Exit /\ ~Probe
  <2>1. UNCHANGED contacts
    BY <1>4 DEF Next, Program, history, EditScope, DayPasses, Start, NextSeed, Fetch, SeedDone,
       ScopeHost, ScopeUrl, StoreUrl, SourceDone, ReconDone, DnsStart, DnsRecordExtra,
       DnsRecordState, DnsDone, EnumStart, Prompt, Answer, MarkUnresolvable, Gate,
       ProbeRecordState, ProbeRecordExtra, EnumDone, Analyze, Finish, Crash
  <2> QED
    BY <1>4, <2>1 DEF probed_hosts, Probes
<1> QED
  BY <1>1, <1>2, <1>3, <1>4

LEMMA CountInductive == ASSUME IInv, Next PROVE CountInv' /\ OneProbePerGrant'
<1>1. CASE Exit
  <2>1. probed_hosts' = {} /\ Probes' = {} /\ pc' = "idle" /\ summary'.probed = 0
    BY <1>1, ProbedHosts DEF Exit, NoSummary, Probe
  <2> QED
    BY <2>1, FS_EmptySet DEF CountInv, OneProbePerGrant, AskingPCs, RowPCs
<1>2. CASE Probe
  <2>1. /\ probed_hosts' = probed_hosts \cup {row.value}
        /\ pc' = "probe_state" /\ rows' = rows
    BY <1>2, ProbedHosts DEF Probe, Exit
  <2>2. summary'.probed = summary.probed + 1
    BY <1>2 DEF Probe, IInv, TypeOK, NoSummary
  <2>3. /\ IsFiniteSet(probed_hosts) /\ row.value \notin probed_hosts
        /\ \A k \in rows : k.value \notin probed_hosts
    BY <1>2 DEF Probe, IInv, CountInv, AskingPCs, RowPCs
  <2>4. \A k \in rows : k.value # row.value
    <3>1. row \in in_scope_host_rows \ rows /\ rows \subseteq in_scope_host_rows
      BY <1>2 DEF Probe, IInv, QueueInv, AskingPCs, RowPCs
    <3> QED
      BY <3>1 DEF IInv, OneRowPerHost, in_scope_host_rows, in_scope_rows
  <2>5. /\ IsFiniteSet(probed_hosts') /\ Cardinality(probed_hosts') = Cardinality(probed_hosts) + 1
    BY <2>1, <2>3, FS_AddElement
  <2>6. OneProbePerGrant'
    BY <2>2, <2>5 DEF IInv, OneProbePerGrant
  <2> QED
    BY <2>1, <2>3, <2>4, <2>5, <2>6 DEF CountInv, AskingPCs, RowPCs
<1>3. CASE ~Exit /\ ~Probe
  <2>1. probed_hosts' = probed_hosts /\ (Probes' = {} <=> Probes = {})
    BY <1>3, ProbedHosts
  <2>2. summary'.probed = summary.probed
    <3>1. CASE Answer \/ Gate
      BY <3>1 DEF Answer, Gate, skipped, IInv, TypeOK, NoSummary
    <3>2. CASE EnumStart \/ EnumDone \/ Analyze
      BY <3>2 DEF EnumStart, EnumDone, Analyze, IInv, TypeOK, NoSummary
    <3> QED
      BY <1>3, <3>1, <3>2, OthersLeaveSummary
  <2>3. OneProbePerGrant' /\ IsFiniteSet(probed_hosts')
    BY <2>1, <2>2 DEF IInv, OneProbePerGrant, CountInv
  <2>4. CASE EnumStart
    <3>1. Probes = {} /\ probed_hosts = {}
      BY <2>4 DEF EnumStart, IInv, CountInv, AskingPCs, RowPCs, probed_hosts
    <3> QED
      BY <2>1, <2>3, <2>4, <3>1 DEF EnumStart, CountInv, AskingPCs, RowPCs, after_active
  <2>5. CASE Prompt
    <3>1. row' \in rows /\ rows' \subseteq rows /\ pc = "enum" /\ pc' = "prompt"
      BY <2>5 DEF Prompt
    <3> QED
      BY <2>1, <2>3, <3>1 DEF IInv, CountInv, AskingPCs, RowPCs
  <2>6. CASE ~EnumStart /\ ~Prompt
    <3>1. /\ pc' \in AskingPCs => pc \in AskingPCs /\ rows' = rows
          /\ pc' \in RowPCs \ {"probe_state", "probe_extra"}
               => pc \in RowPCs \ {"probe_state", "probe_extra"} /\ row' = row
          /\ pc \in AskingPCs \cup {"analyze", "done"} => pc' \in AskingPCs \cup {"analyze", "done"}
      BY <1>3, <2>6 DEF Next, Program, AskingPCs, RowPCs, locals, after_active,
         EditScope, DayPasses, Start, NextSeed, Fetch, SeedDone, ScopeHost, ScopeUrl, StoreUrl,
         SourceDone, ReconDone, DnsStart, DnsQuery, DnsRecordExtra, DnsRecordState, DnsDone,
         Answer, Resolve, MarkUnresolvable, Gate, ProbeRecordState, ProbeRecordExtra, EnumDone,
         Analyze, Finish, Crash
    <3> QED
      BY <2>1, <2>3, <3>1 DEF IInv, CountInv
  <2> QED
    BY <2>4, <2>5, <2>6, <2>3
<1> QED
  BY <1>1, <1>2, <1>3

\* A skipped host is accounted for by its message, and no message is lost.
LEMMA SkippedAccounts ==
  ASSUME IInv, UNCHANGED assets, NEW why, summary' = skipped(why)
  PROVE  /\ accounted(row)' \/ row' # row
         /\ \A k : accounted(k) => accounted(k)'
<1>1. summary'.messages = summary.messages \cup {[host |-> row.value, why |-> why]}
  BY DEF IInv, TypeOK, NoSummary, skipped
<1> QED
  BY <1>1 DEF accounted

LEMMA AccountInductive == ASSUME IInv, Next PROVE AccountInv'
<1> DEFINE Kept == \A k \in in_scope_host_rows : accounted(k) => accounted(k)'
<1>1. CASE EnumStart
  <2>1. ASSUME NEW k \in in_scope_host_rows, assets[k].status # "new" PROVE accounted(k)'
    BY <1>1, <2>1 DEF EnumStart, IInv, TypeOK, Row, in_scope_host_rows, in_scope_rows, accounted
  <2>2. pc' # "enum" => pc' \in {"analyze", "done"}
                        /\ summary'.state = "HALTED_ACTIVE_NOT_ALLOWED"
    BY <1>1 DEF EnumStart, after_active, IInv, TypeOK, NoSummary
  <2>3. pc' = "enum" => rows' = {k \in in_scope_host_rows : assets[k].status = "new"}
    BY <1>1 DEF EnumStart, after_active
  <2>4. in_scope_host_rows' = in_scope_host_rows
    BY <1>1 DEF EnumStart, in_scope_host_rows, in_scope_rows
  <2> QED
    BY <2>1, <2>2, <2>3, <2>4 DEF AccountInv, AskingPCs, RowPCs
<1>2. CASE Prompt
  <2>1. pc' = "prompt" /\ rows = rows' \cup {row'} /\ UNCHANGED <<assets, summary>>
    BY <1>2 DEF Prompt
  <2>2. \A k \in in_scope_host_rows : accounted(k) \/ k \in rows
    BY <1>2 DEF Prompt, IInv, AccountInv, AskingPCs, RowPCs
  <2>3. in_scope_host_rows' = in_scope_host_rows /\ \A k : accounted(k)' <=> accounted(k)
    BY <2>1 DEF in_scope_host_rows, in_scope_rows, accounted
  <2> QED
    BY <2>1, <2>2, <2>3 DEF AccountInv, AskingPCs, RowPCs
<1>3. CASE Answer \/ Gate
  <2>1. /\ UNCHANGED <<assets, rows, row>> /\ pc \in RowPCs
        /\ \/ pc' \in RowPCs /\ UNCHANGED summary
           \/ pc' = "enum" /\ \E why : summary' = skipped(why)
    BY <1>3 DEF Answer, Gate, locals, RowPCs
  <2>2. in_scope_host_rows' = in_scope_host_rows
    BY <2>1 DEF in_scope_host_rows, in_scope_rows
  <2>3. \A k \in in_scope_host_rows : accounted(k) \/ k \in rows \/ k = row
    BY <2>1 DEF IInv, AccountInv, AskingPCs, RowPCs
  <2>4. CASE pc' \in RowPCs /\ UNCHANGED summary
    <3>1. \A k : accounted(k)' <=> accounted(k)
      BY <2>1, <2>4 DEF accounted
    <3> QED
      BY <2>1, <2>2, <2>3, <2>4, <3>1 DEF AccountInv, AskingPCs, RowPCs
  <2>5. CASE pc' = "enum" /\ \E why : summary' = skipped(why)
    <3>1. accounted(row)' /\ \A k : accounted(k) => accounted(k)'
      BY <2>1, <2>5, SkippedAccounts
    <3> QED
      BY <2>1, <2>2, <2>3, <2>5, <3>1 DEF AccountInv, AskingPCs, RowPCs
  <2> QED
    BY <2>1, <2>4, <2>5
<1>4. CASE Resolve \/ Probe
  <2>1. /\ UNCHANGED <<assets, rows, row>> /\ pc \in RowPCs /\ pc' \in RowPCs
        /\ summary'.messages = summary.messages
    BY <1>4 DEF Resolve, Probe, RowPCs, IInv, TypeOK, NoSummary
  <2>2. in_scope_host_rows' = in_scope_host_rows /\ \A k : accounted(k)' <=> accounted(k)
    BY <2>1 DEF in_scope_host_rows, in_scope_rows, accounted
  <2> QED
    BY <2>1, <2>2 DEF IInv, AccountInv, AskingPCs, RowPCs
<1>5. CASE MarkUnresolvable \/ ProbeRecordState \/ ProbeRecordExtra
  <2>1. /\ UNCHANGED <<rows, row, summary>> /\ pc \in RowPCs /\ pc' \in AskingPCs
    BY <1>5 DEF MarkUnresolvable, ProbeRecordState, ProbeRecordExtra, locals, RowPCs, AskingPCs
  <2>2. /\ row \in DOMAIN assets /\ Changed(row)
        /\ assets'[row].status = "enriched" \/ assets'[row].resolve_state = "unresolvable"
    BY <1>5, MarkUnresolvableStore, ProbeRecordStateStore, ProbeRecordExtraStore
  <2>3. ~Adds
    BY <1>5 DEF Adds, ScopeHost, ScopeUrl, StoreUrl, MarkUnresolvable, ProbeRecordState,
                ProbeRecordExtra
  <2>4. in_scope_host_rows' = in_scope_host_rows
    BY <2>3, RowsInScopeKept
  <2>5. accounted(row)'
    BY <2>1, <2>2 DEF accounted
  <2>6. \A k \in in_scope_host_rows : accounted(k) => accounted(k)'
    BY <2>1, <2>2, <2>5 DEF accounted, Changed, in_scope_host_rows, in_scope_rows
  <2>7. \A k \in in_scope_host_rows : accounted(k) \/ k \in rows \/ k = row
    BY <2>1 DEF IInv, AccountInv, AskingPCs, RowPCs
  <2>8. \A k \in in_scope_host_rows : accounted(k)' \/ k \in rows
    BY <2>1, <2>5, <2>6, <2>7
  <2>9. pc' \notin {"analyze", "done"}
    BY <2>1 DEF AskingPCs, RowPCs
  <2> QED
    BY <2>1, <2>4, <2>8, <2>9 DEF AccountInv
<1>6. CASE EnumDone
  <2>1. \A k \in in_scope_host_rows : accounted(k)
    BY <1>6 DEF EnumDone, IInv, AccountInv, AskingPCs, RowPCs
  <2>2. UNCHANGED assets /\ summary'.messages = summary.messages /\ pc' \notin AskingPCs
    BY <1>6 DEF EnumDone, IInv, TypeOK, NoSummary, after_active, AskingPCs, RowPCs
  <2>3. in_scope_host_rows' = in_scope_host_rows /\ \A k : accounted(k)' <=> accounted(k)
    BY <2>2 DEF in_scope_host_rows, in_scope_rows, accounted
  <2> QED
    BY <2>1, <2>2, <2>3 DEF AccountInv
<1>7. CASE Analyze \/ DayPasses
  <2>1. /\ UNCHANGED <<assets, rows, row, command>> /\ summary'.messages = summary.messages
        /\ summary'.state = summary.state
        /\ \/ UNCHANGED pc
           \/ pc \in {"analyze", "done"} /\ pc' \in {"analyze", "done"}
    BY <1>7 DEF Analyze, DayPasses, locals, loaded, IInv, TypeOK, NoSummary
  <2>2. in_scope_host_rows' = in_scope_host_rows /\ \A k : accounted(k)' <=> accounted(k)
    BY <2>1 DEF in_scope_host_rows, in_scope_rows, accounted
  <2> QED
    BY <2>1, <2>2 DEF IInv, AccountInv, AskingPCs, RowPCs
<1>8. CASE /\ ~(EnumStart \/ Prompt \/ Answer \/ Gate \/ Resolve \/ Probe \/ EnumDone)
           /\ ~(MarkUnresolvable \/ ProbeRecordState \/ ProbeRecordExtra \/ Analyze \/ DayPasses)
  <2>1. pc' \notin AskingPCs /\ (pc' \in {"analyze", "done"} => command'.mode # "full")
    BY <1>8 DEF Next, Program, AskingPCs, RowPCs, after_active, loaded,
       EditScope, Start, NextSeed, Fetch, SeedDone, ScopeHost, ScopeUrl, StoreUrl, SourceDone,
       ReconDone, DnsStart, DnsQuery, DnsRecordExtra, DnsRecordState, DnsDone, Exit, Finish,
       Crash
  <2> QED
    BY <2>1 DEF AccountInv
<1> QED
  BY <1>1, <1>2, <1>3, <1>4, <1>5, <1>6, <1>7, <1>8

----------------------------------------------------------------------------
(* The theorems.                                                           *)

LEMMA InitIInv == ASSUME Init PROVE IInv
<1>1. DOMAIN assets = {} /\ pc = "idle" /\ NoRun /\ scope \in Scopes /\ today = 0
  BY DEF Init
<1>2. TypeOK
  <2>1. rows = {} /\ contacts = {} /\ approved_any = FALSE /\ summary = NoSummary
    BY <1>1 DEF NoRun
  <2>2. DOMAIN summary = DOMAIN NoSummary /\ summary.probed \in Nat
    BY <2>1 DEF NoSummary
  <2>3. today \in 0..MaxDay /\ pc \in PCs
    BY <1>1, DaysAssumption DEF PCs
  <2> QED
    BY <1>1, <2>1, <2>2, <2>3 DEF TypeOK
<1>3. RowsJustified /\ OneRowPerHost /\ UrlsHaveHosts
  BY <1>1 DEF RowsJustified, OneRowPerHost, UrlsHaveHosts
<1>4. contacts = {} /\ Probes = {} /\ probed_hosts = {} /\ summary.probed = 0
  BY <1>1 DEF NoRun, NoSummary, Probes, probed_hosts
<1>5. UnauthorizedIsSilent /\ ProbesGated
  BY <1>4 DEF UnauthorizedIsSilent, ProbesGated
<1>6. CountInv /\ OneProbePerGrant
  BY <1>1, <1>4, FS_EmptySet DEF CountInv, OneProbePerGrant, AskingPCs, RowPCs
<1>7. PhaseInv /\ UrlInv /\ QueueInv /\ AnswerInv /\ AccountInv
  BY <1>1 DEF PhaseInv, UrlInv, QueueInv, AnswerInv, AccountInv, LookingPCs, AskingPCs, RowPCs
<1> QED
  BY <1>2, <1>3, <1>5, <1>6, <1>7 DEF IInv

\* A step that changes no variable changes no part of the invariant.
LEMMA StutterIInv == ASSUME IInv, UNCHANGED vars PROVE IInv'
<1> USE DEF vars, outside, loaded, locals, history
<1>1. TypeOK' /\ StoreInv'
  BY IInvStore, SameStore DEF IInv, TypeOK, NoRun, NoSummary
<1>2. PhaseInv' /\ UrlInv' /\ QueueInv' /\ AnswerInv'
  BY DEF IInv, PhaseInv, MayAct, UrlInv, host_recorded, Decision, QueueInv, in_scope_host_rows,
         in_scope_rows, AnswerInv, scope_check
<1>3. UnauthorizedIsSilent' /\ ProbesGated'
  BY DEF IInv, UnauthorizedIsSilent, ProbesGated, Probes
<1>4. probed_hosts' = probed_hosts /\ Probes' = Probes
  BY DEF probed_hosts, Probes
<1>5. CountInv' /\ OneProbePerGrant'
  BY <1>4 DEF IInv, CountInv, OneProbePerGrant
<1>6. in_scope_host_rows' = in_scope_host_rows /\ \A k : accounted(k)' <=> accounted(k)
  BY DEF in_scope_host_rows, in_scope_rows, accounted
<1>7. AccountInv'
  BY <1>6 DEF IInv, AccountInv
<1> QED
  BY <1>1, <1>2, <1>3, <1>5, <1>7 DEF IInv, StoreInv

\* The inductive invariant holds in every reachable state.
THEOREM Inductive == Spec => []IInv
<1>1. Init => IInv
  BY InitIInv
<1>2. IInv /\ [Next]_vars => IInv'
  <2>1. ASSUME IInv, Next PROVE IInv'
    BY <2>1, TypeInductive, StoreInductive, PhaseInductive, UrlInductive, QueueInductive,
       AnswerInductive, SilentInductive, GatedInductive, CountInductive, AccountInductive
       DEF IInv, StoreInv
  <2> QED
    BY <2>1, StutterIInv
<1> QED
  BY <1>1, <1>2, PTL DEF Spec

\* Rows and locals are well typed, and an unverified name is never stored.
THEOREM OrchestratorTyped == Spec => []TypeOK
BY Inductive, PTL DEF IInv

\* Whatever scope file, discovery, resolver and human answer with, a probe only
\* ever passes with authorization, a yes for its host in this run, a name in
\* scope and every pinned address clean (_enumerate).
THEOREM OrchestratorGated == Spec => []ProbesGated
BY Inductive, PTL DEF IInv

\* Without authorization or the active flag a run contacts nothing
\* (_dns_enrich and _enumerate ask active_preconditions_ok first).
THEOREM OrchestratorSilent == Spec => []UnauthorizedIsSilent
BY Inductive, PTL DEF IInv

\* One yes buys one request (_enumerate, ApprovalBroker.approve).
THEOREM OrchestratorOneProbePerGrant == Spec => []OneProbePerGrant
BY Inductive, PTL DEF IInv

\* Across runs, crashes and edits of the scope file every actionable row rests
\* on a decision that allowed it (_store_host, _ingest_urls, _update_probe).
THEOREM OrchestratorRowsJustified == Spec => []RowsJustified
BY Inductive, PTL DEF IInv

\* No interleaving of runs, crashes and scope files records a host twice.
THEOREM OrchestratorOneRowPerHost == Spec => []OneRowPerHost
BY Inductive, PTL DEF IInv

\* There is a host row behind every URL row (_ingest_urls).
THEOREM OrchestratorUrlsHaveHosts == Spec => []UrlsHaveHosts
BY Inductive, PTL DEF IInv

\* An enumeration that ran to its end accounts for every in-scope host.
THEOREM OrchestratorForgetsNoHost == Spec => []NoHostForgotten
<1>1. IInv => NoHostForgotten
  BY DEF IInv, AccountInv, NoHostForgotten
<1> QED
  BY <1>1, Inductive, PTL

\* No later lookup, recon or run undoes what a probe established.
THEOREM OrchestratorKeepsEnriched == Spec => EnrichedIsKept
<1> DEFINE kept(k) ==
      assets[k].status = "enriched" =>
        /\ k \in DOMAIN assets'
        /\ assets'[k].status = "enriched"
        /\ assets'[k].probe_state = assets[k].probe_state
        /\ assets[k].extra.ip # None => assets'[k].extra.ip = assets[k].extra.ip
<1>1. ASSUME IInv, Next, NEW k \in DOMAIN assets PROVE kept(k)
  <2>1. CASE Grown
    BY <2>1 DEF Grown
  <2>2. CASE row \in DOMAIN assets /\ Changed(row) /\ Updates
    <3>1. CASE k # row
      BY <2>2, <3>1 DEF Changed
    <3>2. CASE k = row /\ (DnsRecordExtra \/ DnsRecordState)
      BY <1>1, <2>2, <3>2, DnsRecordExtraStore, DnsRecordStateStore DEF KeepsProbe, Changed
    <3>3. CASE k = row /\ (MarkUnresolvable \/ ProbeRecordState)
      BY <1>1, <3>3, MarkUnresolvableStore, ProbeRecordStateStore
    <3>4. CASE k = row /\ ProbeRecordExtra
      BY <1>1, <2>2, <3>4, ProbeRecordExtraStore DEF Changed
    <3> QED
      BY <2>2, <3>1, <3>2, <3>3, <3>4 DEF Updates
  <2> QED
    BY <1>1, <2>1, <2>2, StoreInductive
<1>2. IInv /\ [Next]_vars => [\A k \in DOMAIN assets : kept(k)]_vars
  BY <1>1
<1>3. EnrichedIsKept <=> [][\A k \in DOMAIN assets : kept(k)]_vars
  BY PTL DEF EnrichedIsKept
<1> QED
  BY <1>2, <1>3, Inductive, PTL DEF Spec

----------------------------------------------------------------------------
(* The orchestrator implements ActiveGate.                                 *)

\* What the order of the gate needs beyond IInv: no host still to be asked for
\* has its yes, the host being decided was looked up, and the histories are
\* empty where a phase opens.
GrantInv ==
  /\ pc \notin AskingPCs \cup {"analyze", "done"} => granted = {}
  /\ pc \notin LookingPCs \cup AskingPCs \cup {"enum_start", "analyze", "done"} => contacts = {}
  /\ pc \in AskingPCs => \A k \in rows : k.value \notin granted
  /\ pc = "prompt" => row.value \notin granted
  /\ pc \in {"gate", "probe"} => row.value \in Looked

LEMMA InitGrantInv == Init => GrantInv
BY DEF Init, NoRun, GrantInv, AskingPCs, LookingPCs

\* Rows of distinct keys that are hosts have distinct values.
LEMMA QueueDistinct ==
  ASSUME IInv, pc \in RowPCs
  PROVE  \A k \in rows : k.value # row.value
<1>1. row \in in_scope_host_rows \ rows /\ rows \subseteq in_scope_host_rows
  BY DEF IInv, QueueInv, AskingPCs, RowPCs
<1> QED
  BY <1>1 DEF IInv, OneRowPerHost, in_scope_host_rows, in_scope_rows

\* What each step does to the hosts looked up.
LEMMA LookedGrows ==
  ASSUME Next, ~Exit
  PROVE  /\ Looked' = IF DnsQuery THEN Looked \cup {row'.value}
                      ELSE IF Resolve THEN Looked \cup {row.value} ELSE Looked
<1>1. CASE DnsQuery
  <2> DEFINE c == contact("dns", row'.value, None, <<>>)
  <2>1. c.what = "dns" /\ c.host = row'.value /\ contacts' = contacts \cup {c}
    BY <1>1 DEF contact, DnsQuery
  <2>2. contacts' \ Probes' = (contacts \ Probes) \cup {c}
    BY <2>1 DEF Probes
  <2> QED
    BY <1>1, <2>1, <2>2 DEF Looked
<1>2. CASE Resolve
  <2> DEFINE c == contact("resolve", row.value, None, answer')
  <2>1. c.what = "resolve" /\ c.host = row.value /\ contacts' = contacts \cup {c}
    BY <1>2 DEF contact, Resolve
  <2>2. contacts' \ Probes' = (contacts \ Probes) \cup {c}
    BY <2>1 DEF Probes
  <2>3. ~DnsQuery
    BY <1>2 DEF Resolve, DnsQuery
  <2> QED
    BY <1>2, <2>1, <2>2, <2>3 DEF Looked
<1>3. CASE Probe
  <2> DEFINE c == contact("probe", row.value, answer[1], answer)
  <2>1. c.what = "probe" /\ contacts' = contacts \cup {c}
    BY <1>3 DEF contact, Probe
  <2>2. contacts' \ Probes' = contacts \ Probes
    BY <2>1 DEF Probes
  <2>3. ~DnsQuery /\ ~Resolve
    BY <1>3 DEF Probe, Resolve, DnsQuery
  <2> QED
    BY <2>2, <2>3 DEF Looked
<1>4. CASE ~DnsQuery /\ ~Resolve /\ ~Probe
  <2>1. UNCHANGED contacts
    BY <1>4 DEF Next, Program, history, EditScope, DayPasses, Start, NextSeed, Fetch, SeedDone,
       ScopeHost, ScopeUrl, StoreUrl, SourceDone, ReconDone, DnsStart, DnsRecordExtra,
       DnsRecordState, DnsDone, EnumStart, Prompt, Answer, MarkUnresolvable, Gate,
       ProbeRecordState, ProbeRecordExtra, EnumDone, Analyze, Finish, Crash
  <2> QED
    BY <1>4, <2>1 DEF Looked, Probes
<1> QED
  BY <1>1, <1>2, <1>3, <1>4

\* The steps that leave the questions and the contacts alone.
Silent ==
  /\ Next /\ ~Exit
  /\ ~(Answer \/ DnsQuery \/ Resolve \/ Probe)

LEMMA SilentKeeps == ASSUME Silent PROVE UNCHANGED <<granted, contacts>>
BY DEF Silent, Next, Program, history, EditScope, DayPasses, Start, NextSeed, Fetch, SeedDone,
       ScopeHost, ScopeUrl, StoreUrl, SourceDone, ReconDone, DnsStart, DnsRecordExtra,
       DnsRecordState, DnsDone, EnumStart, Prompt, MarkUnresolvable, Gate,
       ProbeRecordState, ProbeRecordExtra, EnumDone, Analyze, Finish, Crash

LEMMA GrantInductive == ASSUME IInv, GrantInv, Next PROVE GrantInv'
<1>1. CASE Exit
  BY <1>1 DEF Exit, GrantInv, AskingPCs
<1>2. CASE Answer
  <2>1. Looked' = Looked
    BY <1>2, LookedGrows DEF Answer, Exit, DnsQuery, Resolve
  <2>2. \A k \in rows : k.value # row.value
    BY <1>2, QueueDistinct DEF Answer, RowPCs
  <2> QED
    BY <1>2, <2>1, <2>2 DEF Answer, GrantInv, AskingPCs, LookingPCs
<1>3. CASE DnsQuery
  BY <1>3 DEF DnsQuery, GrantInv, AskingPCs, LookingPCs
<1>4. CASE Resolve
  <2>1. row.value \in Looked'
    BY <1>4, LookedGrows DEF Resolve, DnsQuery, Exit
  <2> QED
    BY <1>4, <2>1 DEF Resolve, GrantInv, AskingPCs, LookingPCs
<1>5. CASE Probe
  BY <1>5 DEF Probe, GrantInv, AskingPCs, LookingPCs
<1>6. CASE Silent
  <2>1. UNCHANGED <<granted, contacts>> /\ Looked' = Looked
    BY <1>6, SilentKeeps DEF Looked, Probes
  <2>2. CASE EnumStart
    BY <2>1, <2>2 DEF EnumStart, GrantInv, AskingPCs, LookingPCs, after_active
  <2>3. CASE Prompt
    BY <2>1, <2>3 DEF Prompt, GrantInv, AskingPCs, LookingPCs
  <2>4. CASE ~EnumStart /\ ~Prompt
    <3>1. \/ pc' \in AskingPCs /\ pc \in AskingPCs /\ UNCHANGED <<rows, row>>
             /\ (pc' = "prompt" => pc = "prompt") /\ (pc' \in {"gate", "probe"} => pc \in {"gate", "probe"})
          \/ pc' \notin AskingPCs
      BY <1>6, <2>4 DEF Silent, Next, Program, locals, EditScope, DayPasses, Start, NextSeed, Fetch,
         SeedDone, ScopeHost, ScopeUrl, StoreUrl, SourceDone, ReconDone, DnsStart, DnsRecordExtra,
         DnsRecordState, DnsDone, MarkUnresolvable, Gate, ProbeRecordState, ProbeRecordExtra,
         EnumDone, Analyze, Finish, Crash, AskingPCs, after_active
    <3>2. /\ pc' \notin AskingPCs \cup {"analyze", "done"} => pc \notin AskingPCs \cup {"analyze", "done"}
          /\ pc' \notin LookingPCs \cup AskingPCs \cup {"enum_start", "analyze", "done"} =>
               pc \notin LookingPCs \cup AskingPCs \cup {"enum_start", "analyze", "done"}
      BY <1>6, <2>4 DEF Silent, Next, Program, locals, EditScope, DayPasses, Start, NextSeed, Fetch,
         SeedDone, ScopeHost, ScopeUrl, StoreUrl, SourceDone, ReconDone, DnsStart, DnsRecordExtra,
         DnsRecordState, DnsDone, MarkUnresolvable, Gate, ProbeRecordState, ProbeRecordExtra,
         EnumDone, Analyze, Finish, Crash, AskingPCs, LookingPCs, after_active
    <3> QED
      BY <2>1, <3>1, <3>2 DEF GrantInv, AskingPCs
  <2> QED
    BY <2>2, <2>3, <2>4
<1> QED
  BY <1>1, <1>2, <1>3, <1>4, <1>5, <1>6 DEF Silent

----------------------------------------------------------------------------
(* The refinement.                                                         *)

\* Without a host in hand or a yes the owner sees nothing.
LEMMA IdleIsQuiet ==
  ASSUME pc \notin LookingPCs \cup AskingPCs, granted = {}, contacts = {}
  PROVE  Gated!Quiet
BY DEF Gated!Quiet, Gated!AtRest, Phase, Stage, HostInHand, Looked, probed_hosts, Probes,
       AskingPCs, LookingPCs

\* Authority is settled by Start and stays to the end of the run.
LEMMA AuthorityKept ==
  ASSUME Next, ~Exit, ~Start
  PROVE  Authority' = Authority
BY DEF Authority, Next, Program, loaded, EditScope, DayPasses, NextSeed, Fetch, SeedDone,
       ScopeHost, ScopeUrl, StoreUrl, SourceDone, ReconDone, DnsStart, DnsQuery, DnsRecordExtra,
       DnsRecordState, DnsDone, EnumStart, Prompt, Answer, Resolve, MarkUnresolvable, Gate, Probe,
       ProbeRecordState, ProbeRecordExtra, EnumDone, Analyze, Finish, Crash, after_active

LEMMA BoundaryRefines ==
  ASSUME IInv, GrantInv, Next, Exit \/ Start
  PROVE  Gated!Next
<1>1. CASE Exit
  <2>1. pc' = "idle" /\ granted' = {} /\ contacts' = {}
    BY <1>1 DEF Exit
  <2>2. Authority' = FALSE
    BY <2>1 DEF Authority
  <2>3. (Gated!Quiet)'
    BY <2>1 DEF Gated!Quiet, Gated!AtRest, Phase, Stage, HostInHand, Looked, probed_hosts, Probes,
                AskingPCs, LookingPCs
  <2> QED
    BY <2>2, <2>3 DEF Gated!End, Gated!Next
<1>2. CASE Start
  <2>1. /\ pc = "idle" /\ pc' = "recon" /\ granted = {} /\ contacts = {}
        /\ UNCHANGED <<granted, contacts>>
    BY <1>2 DEF Start, IInv, TypeOK, NoRun, history
  <2>2. Gated!Quiet
    BY <2>1, IdleIsQuiet DEF AskingPCs, LookingPCs
  <2>3. Authority' \in BOOLEAN
    BY DEF Authority
  <2>4. UNCHANGED <<Phase, Stage, HostInHand, granted, Looked, probed_hosts>>
    BY <2>1 DEF Phase, Stage, HostInHand, Looked, probed_hosts, Probes, AskingPCs, LookingPCs
  <2> QED
    BY <2>2, <2>3, <2>4 DEF Gated!Begin, Gated!Next
<1> QED
  BY <1>1, <1>2

\* Steps that open, close or stay within a phase, with no host in hand.
LEMMA RestingRefines ==
  ASSUME IInv, GrantInv, Silent, ~Start, ~(Prompt \/ MarkUnresolvable \/ Gate)
  PROVE  Gated!Next \/ UNCHANGED Gated!vars
<1>1. UNCHANGED <<granted, Looked, probed_hosts>> /\ Authority' = Authority
  BY SilentKeeps, AuthorityKept DEF Silent, Looked, probed_hosts, Probes
<1>2. CASE DnsStart /\ pc' = "dns"
  <2>1. pc = "dns_start" /\ granted = {} /\ contacts = {}
    BY <1>2 DEF DnsStart, GrantInv, AskingPCs, LookingPCs
  <2>2. Gated!Quiet
    BY <2>1, IdleIsQuiet DEF AskingPCs, LookingPCs
  <2>3. Authority
    BY <1>2 DEF DnsStart, Authority, active_preconditions_ok, IInv, PhaseInv
  <2>4. Phase' = "looking" /\ UNCHANGED <<Stage, HostInHand>>
    BY <1>2, <2>1 DEF Phase, Stage, HostInHand, AskingPCs, LookingPCs
  <2> QED
    BY <1>1, <2>2, <2>3, <2>4 DEF Gated!Open, Gated!Quiet, Gated!Next
<1>3. CASE EnumStart /\ pc' = "enum"
  <2>1. pc = "enum_start" /\ granted = {} /\ Probes = {}
    BY <1>3 DEF EnumStart, GrantInv, AskingPCs, IInv, CountInv
  <2>2. Authority
    BY <1>3 DEF EnumStart, Authority, active_preconditions_ok, after_active, IInv, PhaseInv
  <2>3. Phase = "off" /\ Phase' = "asking" /\ Stage = "rest" /\ HostInHand = None
    BY <1>3, <2>1 DEF Phase, Stage, HostInHand, LookingPCs, AskingPCs
  <2>4. UNCHANGED <<Stage, HostInHand>> /\ probed_hosts = {}
    BY <1>3, <2>1 DEF Stage, HostInHand, probed_hosts
  <2> QED
    BY <1>1, <2>1, <2>2, <2>3, <2>4 DEF Gated!Open, Gated!AtRest, Gated!Next
<1>4. CASE ~(DnsStart /\ pc' = "dns") /\ ~(EnumStart /\ pc' = "enum")
  <2>1. /\ pc' = pc \/ (pc \notin {"prompt", "resolve", "mark_unresolvable", "gate", "probe"}
                       /\ pc' \notin {"prompt", "resolve", "mark_unresolvable", "gate", "probe"})
        /\ pc' \in LookingPCs => pc \in LookingPCs
        /\ pc' \in AskingPCs => pc \in AskingPCs
        /\ Stage # "rest" => UNCHANGED row
    BY <1>4 DEF Silent, Next, Program, locals, EditScope, DayPasses, Start, NextSeed, Fetch,
       SeedDone, ScopeHost, ScopeUrl, StoreUrl, SourceDone, ReconDone, DnsStart, DnsRecordExtra,
       DnsRecordState, DnsDone, EnumStart, ProbeRecordState, ProbeRecordExtra, EnumDone, Analyze,
       Finish, Crash, AskingPCs, LookingPCs, after_active, Stage
  <2>2. UNCHANGED Stage
    BY <2>1 DEF Stage
  <2>3. UNCHANGED HostInHand
    BY <2>1, <2>2 DEF HostInHand
  <2>4. CASE Phase' = Phase
    BY <1>1, <2>2, <2>3, <2>4 DEF Gated!vars
  <2>5. CASE Phase' # Phase
    <3>1. Phase' = "off" /\ Stage = "rest" /\ HostInHand = None
      BY <2>1, <2>5 DEF Phase, Stage, HostInHand, AskingPCs, LookingPCs
    <3> QED
      BY <1>1, <2>2, <2>3, <3>1 DEF Gated!Close, Gated!AtRest, Gated!Next
  <2> QED
    BY <2>4, <2>5
<1> QED
  BY <1>2, <1>3, <1>4

\* Steps with a host in hand, one for each of the gate's own.
LEMMA HandRefines ==
  ASSUME IInv, GrantInv, Next, ~Exit,
         DnsQuery \/ Prompt \/ Answer \/ Resolve \/ MarkUnresolvable \/ Gate \/ Probe
  PROVE  Gated!Next \/ UNCHANGED Gated!vars
<1>1. Authority' = Authority
  BY AuthorityKept DEF DnsQuery, Prompt, Answer, Resolve, MarkUnresolvable, Gate, Probe, Start
<1>2. ~Probe => probed_hosts' = probed_hosts
  BY ProbedHosts
<1>3. ~(DnsQuery \/ Resolve) => Looked' = Looked
  BY LookedGrows
<1> DEFINE idle == UNCHANGED <<Phase, Stage, HostInHand>>
<1>4. CASE DnsQuery
  <2>1. Looked' = Looked \cup {row'.value} /\ UNCHANGED granted
    BY <1>4, LookedGrows DEF DnsQuery
  <2>2. Phase = "looking" /\ idle
    BY <1>4 DEF DnsQuery, Phase, Stage, HostInHand, AskingPCs, LookingPCs
  <2>3. UNCHANGED probed_hosts
    BY <1>2, <1>4 DEF DnsQuery, Probe
  <2> QED
    BY <1>1, <2>1, <2>2, <2>3 DEF Gated!LookUp, Gated!Next
<1>5. CASE Prompt
  <2>1. pc = "enum" /\ pc' = "prompt" /\ row' \in rows /\ UNCHANGED granted
    BY <1>5 DEF Prompt, history
  <2>2. row'.value \notin granted
    BY <2>1 DEF GrantInv, AskingPCs
  <2>3. /\ Phase = "asking" /\ UNCHANGED Phase /\ Stage = "rest" /\ HostInHand = None
        /\ Stage' = "asked" /\ HostInHand' = row'.value
    BY <2>1 DEF Phase, Stage, HostInHand, AskingPCs, LookingPCs
  <2>4. UNCHANGED <<Looked, probed_hosts>>
    BY <1>2, <1>3, <1>5 DEF Prompt, DnsQuery, Resolve, Probe
  <2> QED
    BY <1>1, <2>1, <2>2, <2>3, <2>4 DEF Gated!Ask, Gated!AtRest, Gated!Next
<1>6. CASE Answer
  <2>1. /\ pc = "prompt" /\ UNCHANGED row
        /\ \/ pc' = "resolve" /\ granted' = granted \cup {row.value}
           \/ pc' = "enum" /\ granted' \in {granted, granted \cup {row.value}}
    BY <1>6 DEF Answer, accepts
  <2>2. /\ Stage = "asked" /\ HostInHand = row.value /\ UNCHANGED Phase
        /\ pc' = "resolve" => Stage' = "granted" /\ HostInHand' = row.value
        /\ pc' = "enum" => Stage' = "rest" /\ HostInHand' = None
    BY <2>1 DEF Phase, Stage, HostInHand, AskingPCs, LookingPCs
  <2>3. UNCHANGED <<Looked, probed_hosts>>
    BY <1>2, <1>3, <2>1 DEF DnsQuery, Resolve, Probe
  <2> QED
    BY <1>1, <2>1, <2>2, <2>3 DEF Gated!Answer, Gated!Next
<1>7. CASE Resolve
  <2>1. pc = "resolve" /\ pc' \in {"mark_unresolvable", "gate"} /\ UNCHANGED <<row, granted>>
    BY <1>7 DEF Resolve
  <2>2. Stage = "granted" /\ HostInHand = row.value /\ idle
    BY <2>1 DEF Phase, Stage, HostInHand, AskingPCs, LookingPCs
  <2>3. Looked' = Looked \cup {row.value} /\ UNCHANGED probed_hosts
    BY <1>2, <1>7, <2>1, LookedGrows DEF DnsQuery, Probe
  <2> QED
    BY <1>1, <2>1, <2>2, <2>3 DEF Gated!LookUp, Gated!Next
<1>8. CASE MarkUnresolvable \/ Gate
  <2>1. /\ pc \in {"mark_unresolvable", "gate"} /\ UNCHANGED <<row, granted>>
        /\ pc' = "enum" \/ (pc = "gate" /\ pc' = "probe")
    BY <1>8 DEF MarkUnresolvable, Gate, locals, history
  <2>2. /\ Stage = "granted" /\ HostInHand = row.value /\ UNCHANGED Phase
        /\ pc' = "enum" => Stage' = "rest" /\ HostInHand' = None
        /\ pc' = "probe" => Stage' = "cleared" /\ HostInHand' = row.value
    BY <2>1 DEF Phase, Stage, HostInHand, AskingPCs, LookingPCs
  <2>3. UNCHANGED <<Looked, probed_hosts>>
    BY <1>2, <1>3, <2>1 DEF DnsQuery, Resolve, Probe
  <2>4. pc = "gate" => row.value \in Looked
    BY DEF GrantInv
  <2> QED
    BY <1>1, <2>1, <2>2, <2>3, <2>4 DEF Gated!Drop, Gated!Clear, Gated!Next
<1>9. CASE Probe
  <2>1. pc = "probe" /\ pc' = "probe_state" /\ UNCHANGED granted
    BY <1>9 DEF Probe
  <2>2. /\ Stage = "cleared" /\ HostInHand = row.value /\ UNCHANGED Phase
        /\ Stage' = "rest" /\ HostInHand' = None
    BY <2>1 DEF Phase, Stage, HostInHand, AskingPCs, LookingPCs
  <2>3. probed_hosts' = probed_hosts \cup {row.value} /\ UNCHANGED Looked
    BY <1>3, <1>9, <2>1, ProbedHosts DEF DnsQuery, Resolve, Exit
  <2> QED
    BY <1>1, <2>1, <2>2, <2>3 DEF Gated!Contact, Gated!Next
<1> QED
  BY <1>4, <1>5, <1>6, <1>7, <1>8, <1>9

\* Every step of the orchestrator is one of the gate's, or none: the order of
\* authority, question, yes, look-up, decision and contact is kept over any
\* store, scope file, crash and edit (Orchestrator.run).
THEOREM OrchestratorImplementsGate == Spec => ImplementsActiveGate
<1>1. Init => GrantInv /\ Gated!Init
  <2> SUFFICES ASSUME Init PROVE Gated!Init
    BY InitGrantInv
  <2>1. pc = "idle" /\ granted = {} /\ contacts = {}
    BY DEF Init, NoRun
  <2>2. Gated!Quiet
    BY <2>1, IdleIsQuiet DEF AskingPCs, LookingPCs
  <2>3. Authority = FALSE
    BY <2>1 DEF Authority
  <2> QED
    BY <2>2, <2>3 DEF Gated!Init
<1>2. IInv /\ GrantInv /\ [Next]_vars => GrantInv' /\ [Gated!Next]_(Gated!vars)
  <2> SUFFICES ASSUME IInv, GrantInv, [Next]_vars
               PROVE  GrantInv' /\ [Gated!Next]_(Gated!vars)
    OBVIOUS
  <2>1. CASE Next
    <3>1. Gated!Next \/ UNCHANGED Gated!vars
      <4>1. CASE Exit \/ Start
        BY <2>1, <4>1, BoundaryRefines
      <4>2. CASE ~Exit /\ ~Start
        BY <2>1, <4>2, HandRefines, RestingRefines DEF Silent
      <4> QED
        BY <4>1, <4>2
    <3> QED
      BY <2>1, <3>1, GrantInductive
  <2>2. CASE UNCHANGED vars
    BY <2>2 DEF vars, outside, loaded, locals, history, GrantInv, Gated!vars, Authority, Phase,
       Stage, HostInHand, Looked, probed_hosts, Probes
  <2> QED
    BY <2>1, <2>2
<1> QED
  BY <1>1, <1>2, Inductive, PTL DEF Spec, ImplementsActiveGate, Gated!Spec
=============================================================================
