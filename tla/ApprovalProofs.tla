--------------------------- MODULE ApprovalProofs ---------------------------
(* What the approval broker guarantees for every set of requests, and the   *)
(* two walls of an active scan for every manifest and every network.        *)
EXTENDS ActiveScan, SequenceTheorems, TLAPS

----------------------------------------------------------------------------
(* The broker on its own.                                                  *)

\* What SingleUse needs to be inductive: the broker has burned every
\* fingerprint it let through, and each of them had a yes.
BrokerInv ==
  /\ TypeOK
  /\ SingleUse
  /\ NonBroadening
  /\ \A i \in DOMAIN spawned : fingerprint(spawned[i]) \in burned

\* An accepted request is a new one, its fingerprint is burned from then on,
\* and the grant that was accepted is for it.
LEMMA ApproveKeepsBrokerInv ==
  ASSUME NEW request \in Requests, BrokerInv, Approve(request)
  PROVE  BrokerInv'
<1> DEFINE me == fingerprint(request)
<1>1. PICK fp \in Fingerprints, yes \in BOOLEAN :
        /\ granted' = IF yes THEN granted \cup {fp} ELSE granted
        /\ IF accepts(burned, request, [fp |-> fp, granted |-> yes])
           THEN /\ burned' = burned \cup {me}
                /\ spawned' = Append(spawned, request)
           ELSE UNCHANGED <<burned, spawned>>
  BY DEF Approve
<1>2. granted \subseteq granted' /\ granted' \subseteq Fingerprints
  BY <1>1 DEF BrokerInv, TypeOK
<1>3. CASE ~accepts(burned, request, [fp |-> fp, granted |-> yes])
  <2>1. UNCHANGED <<burned, spawned>>
    BY <1>1, <1>3
  <2> QED
    BY <2>1, <1>2 DEF BrokerInv, TypeOK, SingleUse, NonBroadening
<1>4. CASE accepts(burned, request, [fp |-> fp, granted |-> yes])
  <2>1. burned' = burned \cup {me} /\ spawned' = Append(spawned, request)
    BY <1>1, <1>4
  <2>2. yes /\ fp = me /\ me \notin burned
    BY <1>4 DEF accepts
  <2>3. me \in granted' /\ me \in Fingerprints
    BY <1>1, <2>2
  <2>4. /\ spawned' \in Seq(Requests)
        /\ DOMAIN spawned' = DOMAIN spawned \cup {Len(spawned) + 1}
        /\ \A i \in DOMAIN spawned : spawned'[i] = spawned[i]
        /\ spawned'[Len(spawned) + 1] = request
    BY <2>1 DEF BrokerInv, TypeOK
  <2>5. TypeOK'
    BY <1>2, <2>1, <2>3, <2>4 DEF BrokerInv, TypeOK
  <2>6. \A i \in DOMAIN spawned : fingerprint(spawned'[i]) # me
    BY <2>2, <2>4 DEF BrokerInv
  <2>7. SingleUse'
    BY <2>4, <2>6 DEF BrokerInv, SingleUse
  <2>8. NonBroadening'
    BY <1>2, <2>3, <2>4 DEF BrokerInv, NonBroadening
  <2>9. \A i \in DOMAIN spawned' : fingerprint(spawned'[i]) \in burned'
    BY <2>1, <2>4 DEF BrokerInv
  <2> QED
    BY <2>5, <2>7, <2>8, <2>9 DEF BrokerInv
<1> QED
  BY <1>3, <1>4

LEMMA BrokerInductive == Spec => []BrokerInv
<1>1. Init => BrokerInv
  BY DEF Init, BrokerInv, TypeOK, SingleUse, NonBroadening
<1>2. BrokerInv /\ [Next]_vars => BrokerInv'
  <2> SUFFICES ASSUME BrokerInv, [Next]_vars PROVE BrokerInv'
    OBVIOUS
  <2>1. CASE NewBroker
    BY <2>1 DEF NewBroker, BrokerInv, TypeOK, SingleUse, NonBroadening
  <2>2. CASE \E request \in Requests : Approve(request)
    BY <2>2, ApproveKeepsBrokerInv
  <2>3. CASE UNCHANGED vars
    BY <2>3 DEF vars, BrokerInv, TypeOK, SingleUse, NonBroadening
  <2> QED
    BY <2>1, <2>2, <2>3 DEF Next
<1> QED
  BY <1>1, <1>2, PTL DEF Spec

\* One grant lets one command through, for any requests and any provider.
THEOREM BrokerSingleUse == Spec => []SingleUse
<1>1. BrokerInv => SingleUse
  BY DEF BrokerInv
<1> QED
  BY <1>1, BrokerInductive, PTL

\* No grant lets through a command other than the one it was given for.
THEOREM BrokerNonBroadening == Spec => []NonBroadening
<1>1. BrokerInv => NonBroadening
  BY DEF BrokerInv
<1> QED
  BY <1>1, BrokerInductive, PTL

----------------------------------------------------------------------------
(* The broker in an active scan.                                           *)

\* To the broker a scan is a caller like another: every step of it is a step of
\* the broker or none of its business.
THEOREM ScanUsesBroker == ScanSpec => Spec
<1>1. ScanInit => Init
  BY DEF ScanInit
<1>2. [ScanNext]_<<vars, scanVars>> => [Next]_vars
  <2> SUFFICES ASSUME [ScanNext]_<<vars, scanVars>> PROVE [Next]_vars
    OBVIOUS
  <2>1. CASE NewBroker
    BY <2>1 DEF Next
  <2>2. CASE \E request \in Requests : Ask(request)
    BY <2>2 DEF Ask, Next
  <2>3. CASE Verify \/ Spawn \/ Ended \/ Environment
    BY <2>3 DEF Verify, Spawn, Ended, Environment, vars
  <2> QED
    BY <2>1, <2>2, <2>3 DEF ScanNext
<1> QED
  BY <1>1, <1>2, PTL DEF ScanSpec, Spec

\* One grant starts one scan.
THEOREM ScanSingleUse == ScanSpec => []SingleUse
BY ScanUsesBroker, BrokerSingleUse, PTL

\* No grant starts a scan other than the one it was given for.
THEOREM ScanNonBroadening == ScanSpec => []NonBroadening
BY ScanUsesBroker, BrokerNonBroadening, PTL

----------------------------------------------------------------------------
(* The guard and the planner.                                              *)

\* With the network up, the guard's probe tells a filter from none, and passes the
\* scan's own filter unless the scan has both control hosts in scope.
THEOREM ScanProbeTellsFilter == ScanSpec => ProbeTellsFilterFromNone
<1>1. ASSUME Verify, online
      PROVE  /\ stage' = "verified" => sentinel /\ filter # Ips
             /\ sentinel /\ filter = nftables_allowlist(guard') =>
                  (stage' = "verified") = ~({ControlIp, SpareControlIp} \subseteq guard')
  <2>1. PICK ips \in AllowedSets :
          /\ guard' = ips
          /\ IF verify_active(ips) THEN stage' = "verified" ELSE stage' = "idle"
    BY <1>1 DEF Verify
  <2>2. control(ips) \in Ips
    BY ScanAssumption DEF control
  <2>3. verify_active(ips) <=> sentinel /\ control(ips) \notin filter
    BY <1>1 DEF verify_active, reachable
  <2>4. control(ips) \in ips <=> {ControlIp, SpareControlIp} \subseteq ips
    BY DEF control
  <2>5. CASE verify_active(ips)
    <3>1. stage' = "verified" /\ guard' = ips
      BY <2>1, <2>5
    <3> QED
      BY <2>2, <2>3, <2>4, <2>5, <3>1 DEF nftables_allowlist
  <2>6. CASE ~verify_active(ips)
    <3>1. stage' # "verified" /\ guard' = ips
      BY <2>1, <2>6
    <3> QED
      BY <2>3, <2>4, <2>6, <3>1 DEF nftables_allowlist
  <2> QED
    BY <2>5, <2>6
<1> QED
  BY <1>1, PTL DEF ScanSpec, ProbeTellsFilterFromNone

\* A command line that was built keeps the manifest's profile.
LEMMA BuiltKeepsProfile ==
  ASSUME NEW tags, NEW extra_flags, \A f \in extra_flags : ~refused(f)
  PROVE  /\ forced_flags \subseteq build_argv(tags, extra_flags).flags
         /\ \A f \in build_argv(tags, extra_flags).flags \ forced_flags : f.flag \notin forbidden_flags
         /\ build_argv(tags, extra_flags).tags \subseteq tag_allowlist
BY DEF build_argv, chosen, refused

\* Between the broker's answer and the end of the run, what it let through is
\* known, and was granted; a run has used its answer up.
Backed ==
  /\ approval_ok \/ stage # "idle" =>
       backing # NoBacking /\ fingerprint(backing.request) \in backing.granted
  /\ stage = "running" => ~approval_ok

\* The broker lets a request through only on a yes to that request.
LEMMA AskBacks ==
  ASSUME NEW request, Ask(request)
  PROVE  Backed'
<1>1. PICK fp \in Fingerprints, yes \in BOOLEAN :
        /\ granted' = IF yes THEN granted \cup {fp} ELSE granted
        /\ IF accepts(burned, request, [fp |-> fp, granted |-> yes])
           THEN /\ burned' = burned \cup {fingerprint(request)}
                /\ spawned' = Append(spawned, request)
           ELSE UNCHANGED <<burned, spawned>>
  BY DEF Ask, Approve
<1>2. stage' = "idle" /\ approval_ok' = (spawned' # spawned)
  BY DEF Ask
<1>3. CASE spawned' = spawned
  BY <1>2, <1>3 DEF Backed
<1>4. CASE spawned' # spawned
  <2>1. accepts(burned, request, [fp |-> fp, granted |-> yes])
    BY <1>1, <1>4
  <2>2. fingerprint(request) \in granted'
    BY <1>1, <2>1 DEF accepts
  <2>3. backing' = [request |-> request, granted |-> granted']
    BY <1>4 DEF Ask
  <2>4. backing'.request = request /\ backing'.granted = granted' /\ NoBacking.granted = {}
    BY <2>3 DEF NoBacking
  <2> QED
    BY <1>2, <2>2, <2>4 DEF Backed
<1> QED
  BY <1>3, <1>4

\* A running scan rests on a yes to its own request and has the profile of the
\* manifest, whatever tags and flags a caller adds.
THEOREM ScanKeepsProfile == ScanSpec => []RunningKeepsProfile
<1>1. ScanInit => Backed /\ RunningKeepsProfile
  BY DEF ScanInit, Backed, RunningKeepsProfile
<1>2. Backed /\ RunningKeepsProfile /\ [ScanNext]_<<vars, scanVars>>
        => Backed' /\ RunningKeepsProfile'
  <2> SUFFICES ASSUME Backed, RunningKeepsProfile, [ScanNext]_<<vars, scanVars>>
               PROVE  Backed' /\ RunningKeepsProfile'
    OBVIOUS
  <2>1. CASE Spawn
    <3>1. PICK tags \in SUBSET Tags, extra_flags \in SUBSET Flags :
            IF \E f \in extra_flags : refused(f)
            THEN stage' = "idle" /\ backing' = NoBacking /\ UNCHANGED argv
            ELSE stage' = "running" /\ argv' = build_argv(tags, extra_flags) /\ UNCHANGED backing
      BY <2>1 DEF Spawn
    <3>2. stage # "idle" /\ approval_ok' = FALSE
      BY <2>1 DEF Spawn
    <3>3. CASE \E f \in extra_flags : refused(f)
      BY <3>1, <3>2, <3>3 DEF Backed, RunningKeepsProfile
    <3>4. CASE \A f \in extra_flags : ~refused(f)
      <4>1. backing' = backing /\ argv' = build_argv(tags, extra_flags)
        BY <3>1, <3>4
      <4>2. Backed'
        BY <3>2, <4>1 DEF Backed
      <4> QED
        BY <3>2, <4>1, <4>2, BuiltKeepsProfile, <3>4 DEF Backed, RunningKeepsProfile
    <3> QED
      BY <3>3, <3>4
  <2>2. CASE Verify
    <3>1. PICK ips \in AllowedSets :
            IF verify_active(ips)
            THEN stage' = "verified" /\ UNCHANGED <<approval_ok, backing>>
            ELSE stage' = "idle" /\ approval_ok' = FALSE /\ backing' = NoBacking
      BY <2>2 DEF Verify
    <3>2. approval_ok /\ stage' # "running"
      BY <2>2, <3>1 DEF Verify
    <3> QED
      BY <3>1, <3>2 DEF Backed, RunningKeepsProfile
  <2>3. CASE Ended
    BY <2>3 DEF Ended, Backed, RunningKeepsProfile
  <2>4. CASE NewBroker /\ UNCHANGED scanVars
    BY <2>4 DEF scanVars, Backed, RunningKeepsProfile
  <2>5. CASE \E request \in Requests : Ask(request)
    <3>1. stage' = "idle"
      BY <2>5 DEF Ask
    <3> QED
      BY <2>5, <3>1, AskBacks DEF RunningKeepsProfile
  <2>6. CASE Environment
    BY <2>6 DEF Environment, Backed, RunningKeepsProfile
  <2>7. CASE UNCHANGED <<vars, scanVars>>
    BY <2>7 DEF scanVars, Backed, RunningKeepsProfile
  <2> QED
    BY <2>1, <2>2, <2>3, <2>4, <2>5, <2>6, <2>7 DEF ScanNext
<1> QED
  BY <1>1, <1>2, PTL DEF ScanSpec
=============================================================================
