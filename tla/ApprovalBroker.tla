--------------------------- MODULE ApprovalBroker ---------------------------
(***************************************************************************)
(* The broker on its own, against a provider that may answer anything: a   *)
(* grant for this request, for another one, the same one again, or a no    *)
(* (AutoDenyProvider, CLIApprovalProvider without a TTY, Ctrl-C).          *)
(***************************************************************************)
EXTENDS Approval, Naturals

CONSTANT Requests  \* the ApprovalRequests a caller may submit

Fingerprints == {fingerprint(r) : r \in Requests}

VARIABLES
  burned,   \* ApprovalBroker._burned
  spawned,  \* history: the requests this broker let through, in order
  granted   \* history: the fingerprints its provider said yes to

vars == <<burned, spawned, granted>>

Init ==
  /\ burned = {}
  /\ spawned = <<>>
  /\ granted = {}

\* approve(request): the provider reviews, then the broker verifies the grant
\* and burns the fingerprint before the caller acts on the answer.
Approve(request) ==
  \E fp \in Fingerprints, yes \in BOOLEAN :
    /\ granted' = IF yes THEN granted \cup {fp} ELSE granted
    /\ IF accepts(burned, request, [fp |-> fp, granted |-> yes])
       THEN /\ burned' = burned \cup {fingerprint(request)}
            /\ spawned' = Append(spawned, request)
       ELSE UNCHANGED <<burned, spawned>>

\* Every enumeration phase builds a broker of its own.
NewBroker ==
  /\ burned' = {}
  /\ spawned' = <<>>
  /\ granted' = {}

Next == NewBroker \/ \E request \in Requests : Approve(request)

Spec == Init /\ [][Next]_vars

----------------------------------------------------------------------------
\* The broker's memory and its two histories hold requests and fingerprints.
TypeOK ==
  /\ burned \subseteq Fingerprints
  /\ spawned \in Seq(Requests)
  /\ granted \subseteq Fingerprints

\* One grant, one command: no two commands let through share a fingerprint,
\* however often the provider repeats its yes (the nonce is burned).
SingleUse ==
  \A i, j \in DOMAIN spawned :
    i # j => fingerprint(spawned[i]) # fingerprint(spawned[j])

\* A yes never covers another command: whatever was let through is a request
\* whose own fingerprint the provider said yes to.
NonBroadening == \A i \in DOMAIN spawned : fingerprint(spawned[i]) \in granted
=============================================================================
