------------------------------ MODULE ActiveScan ------------------------------
(***************************************************************************)
(* The two walls of an external active tool: a human's approval            *)
(* (ApprovalBroker) and egress containment (kernel/sandbox.py), which      *)
(* NucleiExecutor (tools/external.py) asks for before it spawns the        *)
(* command line NucleiPlanner builds from the manifest.                    *)
(*                                                                         *)
(* Nothing in the repository calls the executor yet: its caller, who turns *)
(* the broker's answer into approval_ok, and the launcher that applies the *)
(* packet filter are external.  A flag is [flag, text]: what stands before *)
(* a "=" and the whole of it.                                              *)
(***************************************************************************)
EXTENDS ApprovalBroker, FiniteSets

CONSTANTS
  Ips,             \* addresses a packet can go to
  ControlIp,       \* the guard's control host (1.1.1.1)
  SpareControlIp,  \* the one it takes when that is allowed (8.8.8.8)
  AllowedSets,     \* the sets of in-scope addresses scans are pinned to
  Flags,           \* flags a caller may add
  Tags,            \* template tags a caller may ask for
  forced_flags, forbidden_flags, allowed_extra_flags, tag_allowlist  \* the manifest

ASSUME ScanAssumption ==
  /\ {ControlIp, SpareControlIp} \subseteq Ips /\ ControlIp # SpareControlIp
  /\ AllowedSets \subseteq SUBSET Ips \ {Ips}

VARIABLES
  approval_ok, \* what the caller made of the broker's last answer
  guard,       \* allowed_ips of the scan's EgressGuard
  sentinel,    \* BBAGENT_EGRESS_VERIFIED is "1"
  filter,      \* the addresses the packet filter lets through: all without one
  online,      \* whether the Internet, the control hosts included, answers
  stage,       \* "idle", "verified" or "running"
  argv,        \* the flags of the running tool, the tags they select
  backing      \* history: [request, granted], what the broker let through for
               \* this run and the grants it had then; NoBacking without one

scanVars == <<approval_ok, guard, sentinel, filter, online, stage, argv, backing>>

NoArgv == [flags |-> {}, tags |-> {}]

NoBacking == [request |-> <<>>, granted |-> {}]

ScanInit ==
  /\ Init
  /\ approval_ok = FALSE /\ guard = {} /\ stage = "idle" /\ argv = NoArgv /\ backing = NoBacking
  /\ sentinel = FALSE /\ filter = Ips /\ online = TRUE

----------------------------------------------------------------------------
(* The guard and the planner.                                              *)

reachable(ip) == online /\ ip \in filter

\* Mutant: the control host stays the same when it is an allowed address.
control_fixed(allowed_ips) == ControlIp

control(allowed_ips) == IF ControlIp \in allowed_ips THEN SpareControlIp ELSE ControlIp

verify_active(allowed_ips) == sentinel /\ ~reachable(control(allowed_ips))

\* nftables_allowlist_commands: default drop, these addresses accepted.
nftables_allowlist(allowed_ips) == allowed_ips

\* Mutant: a flag is looked up as it is written, value and all.
refused_verbatim(f) == f.text \in forbidden_flags

refused(f) ==
  \/ f.flag \in forbidden_flags \/ f.text \in forbidden_flags
  \/ f.flag \notin allowed_extra_flags /\ f.text \notin allowed_extra_flags

\* The tags asked for and allowed; {} leaves -tags out, which selects them all.
chosen(tags) == tags \cap tag_allowlist

build_argv(tags, extra_flags) ==
  [flags |-> forced_flags \cup extra_flags, tags |-> chosen(tags)]

----------------------------------------------------------------------------
(* NucleiExecutor.run, step by step, with its environment moving between.  *)

\* The caller asks the broker; its answer is all that reaches the executor.
Ask(request) ==
  /\ stage = "idle"
  /\ Approve(request)
  /\ approval_ok' = (spawned' # spawned)
  /\ backing' = IF spawned' # spawned
                THEN [request |-> request, granted |-> granted'] ELSE NoBacking
  /\ UNCHANGED <<guard, sentinel, filter, online, stage, argv>>

\* Without approval run raises at once; otherwise the guard is asked, once.
Verify ==
  /\ stage = "idle" /\ approval_ok
  /\ \E ips \in AllowedSets :
       /\ guard' = ips
       /\ IF verify_active(ips)
          THEN stage' = "verified" /\ UNCHANGED <<approval_ok, backing>>
          ELSE stage' = "idle" /\ approval_ok' = FALSE /\ backing' = NoBacking
  /\ UNCHANGED <<burned, spawned, granted, sentinel, filter, online, argv>>

\* ForbiddenFlag, or the tool runs.
Spawn ==
  /\ stage = "verified"
  /\ \E tags \in SUBSET Tags, extra_flags \in SUBSET Flags :
       IF \E f \in extra_flags : refused(f)
       THEN stage' = "idle" /\ backing' = NoBacking /\ UNCHANGED argv
       ELSE stage' = "running" /\ argv' = build_argv(tags, extra_flags) /\ UNCHANGED backing
  /\ approval_ok' = FALSE
  /\ UNCHANGED <<burned, spawned, granted, guard, sentinel, filter, online>>

\* The tool ends, or subprocess.run's timeout ends it.
Ended ==
  /\ stage = "running"
  /\ stage' = "idle" /\ argv' = NoArgv /\ backing' = NoBacking
  /\ UNCHANGED <<burned, spawned, granted, approval_ok, guard, sentinel, filter, online>>

\* The launcher applies a filter and sets the sentinel; the filter may go away
\* under it, the sentinel be inherited without one, the network come and go.
Environment ==
  /\ \/ /\ \E ips \in AllowedSets : filter' = nftables_allowlist(ips)
        /\ sentinel' = TRUE /\ UNCHANGED online
     \/ filter' = Ips /\ UNCHANGED <<sentinel, online>>
     \/ sentinel' \in BOOLEAN /\ UNCHANGED <<filter, online>>
     \/ online' = ~online /\ UNCHANGED <<sentinel, filter>>
  /\ UNCHANGED <<burned, spawned, granted, approval_ok, guard, stage, argv, backing>>

ScanNext ==
  \/ NewBroker /\ UNCHANGED scanVars
  \/ \E request \in Requests : Ask(request)
  \/ Verify \/ Spawn \/ Ended \/ Environment

ScanSpec == ScanInit /\ [][ScanNext]_<<vars, scanVars>>

----------------------------------------------------------------------------
(* Properties.                                                             *)

\* While the network is up, the guard's probe tells a filter from none: it never
\* passes without a sentinel and some filter, and it passes this scan's own
\* filter, also when the usual control host is in scope, unless both control
\* hosts are.  It does not tell whose filter it is: another scan's passes too
\* when the control host is not in that one's set.
ProbeTellsFilterFromNone ==
  [][Verify /\ online =>
       /\ stage' = "verified" => sentinel /\ filter # Ips
       /\ sentinel /\ filter = nftables_allowlist(guard') =>
            (stage' = "verified") = ~({ControlIp, SpareControlIp} \subseteq guard')]_<<vars, scanVars>>

\* A running scan was let through by the broker, on a yes to its own request, and
\* whatever tags and flags a caller adds it has the profile of the manifest:
\* every forced flag, no forbidden one in any spelling, no tag beyond the
\* allowlist by way of the tags (a -tags among the extra flags is not looked
\* into).  How many templates run when -tags is left out it does not say.
RunningKeepsProfile ==
  stage = "running" =>
    /\ backing # NoBacking /\ fingerprint(backing.request) \in backing.granted
    /\ forced_flags \subseteq argv.flags
    /\ \A f \in argv.flags \ forced_flags : f.flag \notin forbidden_flags
    /\ argv.tags \subseteq tag_allowlist
=============================================================================
