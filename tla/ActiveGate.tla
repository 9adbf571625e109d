----------------------------- MODULE ActiveGate -----------------------------
(***************************************************************************)
(* What the two-tier gate promises of a run, as the owner of the target    *)
(* sees it: nothing happens without authority, names may be looked up      *)
(* until the questions begin, and from then on one question, one yes and   *)
(* one decision on the host's addresses come before one contact with it.   *)
(* Orchestrator implements this; its store, its crashes and the passing of *)
(* days are out of sight here.                                             *)
(***************************************************************************)
CONSTANT NoHost  \* no host is in hand

VARIABLES
  authority,  \* the run may act: its scope file and its command line say so
  phase,      \* "off", "looking" (DNS enrichment), "asking" (enumeration)
  stage,      \* of the host in hand: "rest" (none), "asked", "granted", "cleared"
  host,       \* the host in hand
  said,       \* the hosts the human said yes to
  looked,     \* the hosts whose names were looked up
  probed      \* the hosts contacted

vars == <<authority, phase, stage, host, said, looked, probed>>

AtRest == stage = "rest" /\ host = NoHost

Quiet == phase = "off" /\ AtRest /\ said = {} /\ looked = {} /\ probed = {}

Init == authority = FALSE /\ Quiet

Begin ==
  /\ Quiet
  /\ authority' \in BOOLEAN
  /\ UNCHANGED <<phase, stage, host, said, looked, probed>>

\* Looking comes first, if at all, and asking but once.
Open ==
  /\ authority /\ AtRest
  /\ \/ Quiet /\ phase' = "looking"
     \/ phase = "off" /\ said = {} /\ probed = {} /\ phase' = "asking"
  /\ UNCHANGED <<authority, stage, host, said, looked, probed>>

Close ==
  /\ AtRest /\ phase' = "off"
  /\ UNCHANGED <<authority, stage, host, said, looked, probed>>

\* Any name while looking; while asking, only the host that has its yes.
LookUp ==
  /\ \/ phase = "looking" /\ \E h \in looked' : looked' = looked \cup {h}
     \/ stage = "granted" /\ looked' = looked \cup {host}
  /\ UNCHANGED <<authority, phase, stage, host, said, probed>>

\* A host that had its yes is not asked for again.
Ask ==
  /\ phase = "asking" /\ AtRest
  /\ stage' = "asked" /\ host' \notin said
  /\ UNCHANGED <<authority, phase, said, looked, probed>>

\* A no is final; a yes may still be refused.
Answer ==
  /\ stage = "asked"
  /\ \/ stage' = "granted" /\ said' = said \cup {host} /\ UNCHANGED host
     \/ stage' = "rest" /\ said' \in {said, said \cup {host}} /\ host' = NoHost
  /\ UNCHANGED <<authority, phase, looked, probed>>

\* A decision needs addresses, looked up under this yes.
Clear ==
  /\ stage = "granted" /\ host \in looked
  /\ stage' = "cleared"
  /\ UNCHANGED <<authority, phase, host, said, looked, probed>>

\* No address, or one that is refused.
Drop ==
  /\ stage = "granted"
  /\ stage' = "rest" /\ host' = NoHost
  /\ UNCHANGED <<authority, phase, said, looked, probed>>

Contact ==
  /\ stage = "cleared"
  /\ stage' = "rest" /\ host' = NoHost
  /\ probed' = probed \cup {host}
  /\ UNCHANGED <<authority, phase, said, looked>>

\* The run reports and ends, or dies at any point.
End == authority' = FALSE /\ Quiet'

Next ==
  Begin \/ Open \/ Close \/ LookUp \/ Ask \/ Answer \/ Clear \/ Drop \/ Contact \/ End

Spec == Init /\ [][Next]_vars
=============================================================================
