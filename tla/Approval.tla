------------------------------ MODULE Approval ------------------------------
(***************************************************************************)
(* Human approval (kernel/approval.py): the fingerprint a grant is bound   *)
(* to, and when ApprovalBroker.approve accepts a grant.                    *)
(***************************************************************************)
EXTENDS SequencesExt

\* sha256 over the canonical JSON of the request: argv and targets are SORTED
\* first, so what is hashed is each list as a bag.  The hash is ideal: equal
\* fingerprints mean equal contents.
fingerprint(request) ==
  [tool      |-> request.tool,
   argv      |-> ToBag(request.argv),
   targets   |-> ToBag(request.targets),
   is_active |-> request.is_active,
   phase     |-> request.phase,
   run_id    |-> request.run_id]

\* Mutant: a spent grant is taken again.
accepts_again(burned, request, grant) ==
  grant.granted /\ grant.fp = fingerprint(request)

\* Mutant: a grant given for another request is taken.
accepts_any_fp(burned, request, grant) ==
  grant.granted /\ fingerprint(request) \notin burned

\* A grant is [fp, granted].  It is accepted when it says yes, is bound to
\* this very request, and its fingerprint has not been spent.
accepts(burned, request, grant) ==
  /\ grant.granted
  /\ grant.fp = fingerprint(request)
  /\ fingerprint(request) \notin burned
=============================================================================
