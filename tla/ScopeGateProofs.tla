--------------------------- MODULE ScopeGateProofs ---------------------------
(* The gate's promises, for every scope file an operator can write, every    *)
(* atom and every set of pinned addresses.                                   *)
EXTENDS ScopeGate, ScopeRulesProofs

----------------------------------------------------------------------------
(* What an ALLOW says of the atom.                                         *)

\* canonical_target hands on the canonical host, and the address itself for an
\* IP literal.
LEMMA TargetOfAtom ==
  ASSUME NEW atom, atom.form \in {"bare", "url", "badurl"}, canonical_target(atom).canon # Raises
  PROVE  /\ canonical_target(atom).canon = canonical_host(atom.host)
         /\ canonical_target(atom).kind = "ip" => canonical_host(atom.host) = atom.host
<1>1. CASE atom.form = "badurl"
  BY <1>1 DEF canonical_target
<1>2. CASE atom.form = "url"
  BY <1>2 DEF canonical_target
<1>3. CASE atom.form = "bare"
  <2>1. canonical_target(atom) = [kind  |-> IF is_ip_literal(atom.host) THEN "ip" ELSE "domain",
                                  canon |-> canonical_host(atom.host)]
    BY <1>3 DEF canonical_target
  <2>2. CASE is_ip_literal(atom.host)
    BY <2>1, <2>2 DEF canonical_host
  <2>3. CASE ~is_ip_literal(atom.host)
    BY <2>1, <2>3
  <2> QED
    BY <2>2, <2>3
<1> QED
  BY <1>1, <1>2, <1>3

\* An address is allowed as an address.
LEMMA AllowedAsIp ==
  ASSUME NEW cfg, NEW atom, NEW ips, allowed(decide(cfg, atom, ips)),
         canonical_target(atom).kind = "ip"
  PROVE  /\ canonical_target(atom).canon # Raises
         /\ decide(cfg, atom, ips) = ip_decision(cfg, canonical_target(atom).canon[1])
         /\ decide(cfg, atom, ips).reason_code = "in_scope_ip"
         /\ ~ip_refused(cfg, canonical_target(atom).canon[1])
         /\ ip_in(cfg.in_scope.ip_ranges, canonical_target(atom).canon[1])
<1> DEFINE ip == canonical_target(atom).canon[1]
<1>1. canonical_target(atom).canon # Raises
  BY DenyIsNotAllowed DEF decide
<1>2. decide(cfg, atom, ips) = ip_decision(cfg, ip)
  BY <1>1 DEF decide
<1>3. ~ip_refused(cfg, ip) /\ ip_in(cfg.in_scope.ip_ranges, ip)
  BY <1>2, AllowedIpDecision
<1>4. ip_decision(cfg, ip) = allow("in_scope_ip", <<ip>>)
  BY <1>3 DEF ip_decision
<1> QED
  BY <1>1, <1>2, <1>3, <1>4 DEF allow

\* A name is allowed under its canonical form, and never with an address's
\* reason.
LEMMA AllowedAsName ==
  ASSUME NEW cfg, NEW atom, NEW ips, allowed(decide(cfg, atom, ips)),
         canonical_target(atom).kind # "ip"
  PROVE  /\ canonical_target(atom).canon # Raises
         /\ decide(cfg, atom, ips).reason_code # "in_scope_ip"
         /\ decide(cfg, atom, ips).canonical_host = canonical_target(atom).canon
         /\ ~name_out_of_scope(cfg, canonical_target(atom).canon)
         /\ name_in_scope(cfg, canonical_target(atom).canon)
         /\ ips # <<>> => ~ips_denied(cfg, ips)
<1> DEFINE canon == canonical_target(atom).canon
           code == IF name_in_scope_exact(cfg, canon) THEN "in_scope_exact" ELSE "in_scope_wildcard"
<1>1. canon # Raises
  BY DenyIsNotAllowed DEF decide
<1>2. decide(cfg, atom, ips) = decide_name(cfg, canon, ips)
  BY <1>1 DEF decide
<1>3. /\ ~name_out_of_scope(cfg, canon) /\ name_in_scope(cfg, canon)
      /\ ips # <<>> => ~ips_denied(cfg, ips)
  BY <1>2, AllowedNameDecision
<1>4. decide_name(cfg, canon, ips) = allow(code, canon)
  BY <1>3 DEF decide_name
<1>5. code # "in_scope_ip"
  OBVIOUS
<1> HIDE DEF code
<1> QED
  BY <1>1, <1>2, <1>3, <1>4, <1>5 DEF allow

\* Every decision is one of the gate's.
LEMMA DecisionShape ==
  ASSUME NEW cfg, NEW atom, NEW ips
  PROVE  /\ decide(cfg, atom, ips).verdict \in {"ALLOW", "DENY_HALT"}
         /\ decide(cfg, atom, ips).reason_code \in Codes
<1> DEFINE Ok(d) == d.verdict \in {"ALLOW", "DENY_HALT"} /\ d.reason_code \in Codes
<1>1. ASSUME NEW code \in Codes, NEW canon PROVE Ok(deny(code, canon)) /\ Ok(allow(code, canon))
  BY <1>1 DEF deny, allow
<1>2. ASSUME NEW ip PROVE ip_refusal(ip) \in Codes
  BY DEF ip_refusal, Codes
<1>3. \A c \in {"in_scope_exact", "in_scope_wildcard", "in_scope_ip", "out_of_scope",
                "unverified", "parse_error", "ip_boundary_miss"} : c \in Codes
  BY DEF Codes
<1> HIDE DEF Ok
<1>4. ASSUME NEW ip PROVE Ok(ip_decision(cfg, ip))
  <2>1. CASE ip_refused(cfg, ip)
    BY <1>1, <1>2, <2>1 DEF ip_decision
  <2>2. CASE ~ip_refused(cfg, ip) /\ ip_in(cfg.in_scope.ip_ranges, ip)
    BY <1>1, <1>3, <2>2 DEF ip_decision
  <2>3. CASE ~ip_refused(cfg, ip) /\ ~ip_in(cfg.in_scope.ip_ranges, ip)
    BY <1>1, <1>3, <2>3 DEF ip_decision
  <2> QED
    BY <2>1, <2>2, <2>3
<1>5. ASSUME NEW canon PROVE Ok(check_resolved_ips(cfg, canon, ips))
  <2> DEFINE refused == {i \in DOMAIN ips : ip_refused(cfg, ips[i])}
  <2>1. CASE refused # {}
    BY <1>1, <1>2, <2>1 DEF check_resolved_ips
  <2>2. CASE refused = {}
    BY <1>1, <1>3, <2>2 DEF check_resolved_ips
  <2> QED
    BY <2>1, <2>2
<1>6. ASSUME NEW canon PROVE Ok(decide_name(cfg, canon, ips))
  <2>1. CASE name_out_of_scope(cfg, canon)
    BY <1>1, <1>3, <2>1 DEF decide_name
  <2>2. CASE ~name_out_of_scope(cfg, canon) /\ ~name_in_scope(cfg, canon)
    BY <1>1, <1>3, <2>2 DEF decide_name
  <2>3. CASE ~name_out_of_scope(cfg, canon) /\ name_in_scope(cfg, canon)
    <3>1. CASE ips # <<>> /\ ips_denied(cfg, ips)
      BY <1>5, <2>3, <3>1 DEF decide_name
    <3>2. CASE ~(ips # <<>> /\ ips_denied(cfg, ips))
      BY <1>1, <1>3, <2>3, <3>2 DEF decide_name
    <3> QED
      BY <3>1, <3>2
  <2> QED
    BY <2>1, <2>2, <2>3
<1>7. Ok(decide(cfg, atom, ips))
  <2> DEFINE target == canonical_target(atom)
  <2>1. CASE target.canon = Raises
    BY <1>1, <1>3, <2>1 DEF decide
  <2>2. CASE target.canon # Raises /\ target.kind = "ip"
    BY <1>4, <2>2 DEF decide
  <2>3. CASE target.canon # Raises /\ target.kind # "ip"
    BY <1>6, <2>3 DEF decide
  <2> QED
    BY <2>1, <2>2, <2>3
<1> QED
  BY <1>7 DEF Ok

----------------------------------------------------------------------------
(* More exclusions.                                                        *)

\* A file with more exclusions excludes the names the other one does.
LEMMA ExclusionGrows ==
  ASSUME NEW old, NEW new, OnlyExcludesMore(old, new), NEW host,
         name_out_of_scope(old, host)
  PROVE  name_out_of_scope(new, host)
<1>1. /\ old.out_of_scope.domains \subseteq new.out_of_scope.domains
      /\ old.out_of_scope.subdomains \subseteq new.out_of_scope.subdomains
  BY DEF OnlyExcludesMore, Sections
<1>2. canon_set(old.out_of_scope.domains) \subseteq canon_set(new.out_of_scope.domains)
  BY <1>1 DEF canon_set
<1>3. ASSUME NEW w
      PROVE  split_subdomains(old.out_of_scope.subdomains, w)
               \subseteq split_subdomains(new.out_of_scope.subdomains, w)
  BY <1>1 DEF split_subdomains, canon_set
<1> QED
  BY <1>2, <1>3 DEF name_out_of_scope

\* And refuses the addresses the other one does.
LEMMA RefusalGrows ==
  ASSUME NEW old, NEW new, OnlyExcludesMore(old, new), NEW ip, ip_refused(old, ip)
  PROVE  ip_refused(new, ip)
<1>1. old.out_of_scope.ip_ranges \subseteq new.out_of_scope.ip_ranges
  BY DEF OnlyExcludesMore, Sections
<1> QED
  BY <1>1 DEF ip_refused, ip_in

\* So an atom allowed with more exclusions is allowed with fewer.
LEMMA AllowedWithFewer ==
  ASSUME NEW old, NEW new, OnlyExcludesMore(old, new), NEW atom, NEW ips,
         allowed(decide(new, atom, ips))
  PROVE  allowed(decide(old, atom, ips))
<1> DEFINE canon == canonical_target(atom).canon
<1>1. old.in_scope = new.in_scope /\ old.ip_ranges_mode = new.ip_ranges_mode
  BY DEF OnlyExcludesMore
<1>2. CASE canonical_target(atom).kind = "ip"
  <2>1. canon # Raises /\ ~ip_refused(new, canon[1]) /\ ip_in(old.in_scope.ip_ranges, canon[1])
    BY <1>1, <1>2, AllowedAsIp
  <2>2. ~ip_refused(old, canon[1])
    BY <2>1, RefusalGrows
  <2>3. decide(old, atom, ips) = allow("in_scope_ip", <<canon[1]>>)
    BY <1>2, <2>1, <2>2 DEF decide, ip_decision
  <2> QED
    BY <2>3, DenyIsNotAllowed
<1>3. CASE canonical_target(atom).kind # "ip"
  <2>1. /\ canon # Raises /\ ~name_out_of_scope(new, canon) /\ name_in_scope(new, canon)
        /\ ips # <<>> => ~ips_denied(new, ips)
    BY <1>3, AllowedAsName
  <2>2. ~name_out_of_scope(old, canon)
    BY <2>1, ExclusionGrows
  <2>3. name_in_scope(old, canon)
    BY <1>1, <2>1 DEF name_in_scope, name_in_scope_exact, name_in_scope_wildcard
  <2>4. boundary_miss(old, ips) => boundary_miss(new, ips)
    BY <1>1 DEF boundary_miss
  <2>5. ips_denied(old, ips) => ips_denied(new, ips)
    BY <2>4, RefusalGrows DEF ips_denied
  <2>6. PICK code : decide_name(old, canon, ips) = allow(code, canon)
    BY <2>1, <2>2, <2>3, <2>5 DEF decide_name
  <2>7. decide(old, atom, ips) = decide_name(old, canon, ips)
    BY <1>3, <2>1 DEF decide
  <2> QED
    BY <2>6, <2>7, DenyIsNotAllowed
<1> QED
  BY <1>2, <1>3

\* Writing one more exclusion never turns a denial into an ALLOW.
THEOREM GateExclusionsOnlyNarrow == Spec => ExclusionsOnlyNarrow
<1>1. OnlyExcludesMore(scope, scope') => AllowedAtoms(scope') \subseteq AllowedAtoms(scope)
  BY AllowedWithFewer DEF AllowedAtoms
<1>2. [Next]_vars => [OnlyExcludesMore(scope, scope') /\ scope' # scope
                        => AllowedAtoms(scope') \subseteq AllowedAtoms(scope)]_vars
  BY <1>1
<1> QED
  BY <1>2, PTL DEF Spec, ExclusionsOnlyNarrow

----------------------------------------------------------------------------
(* The gate's invariant: the file holds entries an operator can write, and  *)
(* the last decision is the one this very file gives.  The second part is   *)
(* what makes the properties inductive: they speak of the file and the      *)
(* decision, and no edit comes between a decision and the end of its        *)
(* command.                                                                *)

Part(entries) == [Sections -> SUBSET UNION {entries[s] : s \in Sections}]

FileOK ==
  /\ scope \in [in_scope : Part(InEntries), out_of_scope : Part(OutEntries),
                ip_ranges_mode : {"boundary", "additional"}]
  /\ \A s \in Sections : /\ scope.in_scope[s] \subseteq InEntries[s]
                         /\ scope.out_of_scope[s] \subseteq OutEntries[s]

DecisionOK ==
  last # None => /\ last.atom \in Atoms /\ last.ips \in Pins
                 /\ ~matcher_raises(scope)
                 /\ last.decision = decide(scope, last.atom, last.ips)

GateInv == FileOK /\ DecisionOK

\* Taking an entry of a section in or out of a part leaves a part.
LEMMA EditedPart ==
  ASSUME NEW entries, NEW part \in Part(entries), NEW s \in Sections, NEW new,
         \A t \in Sections : part[t] \subseteq entries[t],
         new \subseteq entries[s]
  PROVE  /\ [part EXCEPT ![s] = new] \in Part(entries)
         /\ \A t \in Sections : [part EXCEPT ![s] = new][t] \subseteq entries[t]
BY DEF Part

\* Every step keeps the gate's invariant.
LEMMA GateStep == GateInv /\ [Next]_vars => GateInv'
<1> SUFFICES ASSUME GateInv, [Next]_vars PROVE GateInv'
  OBVIOUS
<1> USE DEF GateInv
<1>1. ASSUME last = None, last' = None, NEW s \in Sections, NEW new,
             \/ /\ new \subseteq InEntries[s]
                /\ scope' = [scope EXCEPT !.in_scope[s] = new]
             \/ /\ new \subseteq OutEntries[s]
                /\ scope' = [scope EXCEPT !.out_of_scope[s] = new]
      PROVE  GateInv'
  <2>1. /\ scope.in_scope \in Part(InEntries) /\ scope.out_of_scope \in Part(OutEntries)
        /\ \A t \in Sections : /\ scope.in_scope[t] \subseteq InEntries[t]
                               /\ scope.out_of_scope[t] \subseteq OutEntries[t]
    BY DEF FileOK
  <2>2. CASE new \subseteq InEntries[s] /\ scope' = [scope EXCEPT !.in_scope[s] = new]
    <3> DEFINE part == [scope.in_scope EXCEPT ![s] = new]
    <3>1. part \in Part(InEntries) /\ \A t \in Sections : part[t] \subseteq InEntries[t]
      BY <2>1, <2>2, EditedPart
    <3>2. scope' = [scope EXCEPT !.in_scope = part]
      BY <2>2
    <3> HIDE DEF part
    <3>3. FileOK'
      BY <3>1, <3>2 DEF FileOK
    <3> QED
      BY <1>1, <3>3 DEF DecisionOK
  <2>3. CASE new \subseteq OutEntries[s] /\ scope' = [scope EXCEPT !.out_of_scope[s] = new]
    <3> DEFINE part == [scope.out_of_scope EXCEPT ![s] = new]
    <3>1. part \in Part(OutEntries) /\ \A t \in Sections : part[t] \subseteq OutEntries[t]
      BY <2>1, <2>3, EditedPart
    <3>2. scope' = [scope EXCEPT !.out_of_scope = part]
      BY <2>3
    <3> HIDE DEF part
    <3>3. FileOK'
      BY <3>1, <3>2 DEF FileOK
    <3> QED
      BY <1>1, <3>3 DEF DecisionOK
  <2> QED
    BY <1>1, <2>2, <2>3
<1>2. CASE AddEntry
  <2>1. PICK s \in Sections :
          \/ \E e \in InEntries[s] : scope' = [scope EXCEPT !.in_scope[s] = @ \cup {e}]
          \/ \E e \in OutEntries[s] : scope' = [scope EXCEPT !.out_of_scope[s] = @ \cup {e}]
    BY <1>2 DEF AddEntry
  <2>2. scope.in_scope[s] \subseteq InEntries[s] /\ scope.out_of_scope[s] \subseteq OutEntries[s]
    BY DEF FileOK
  <2>3. \E new : \/ /\ new \subseteq InEntries[s]
                    /\ scope' = [scope EXCEPT !.in_scope[s] = new]
                 \/ /\ new \subseteq OutEntries[s]
                    /\ scope' = [scope EXCEPT !.out_of_scope[s] = new]
    <3>1. CASE \E e \in InEntries[s] : scope' = [scope EXCEPT !.in_scope[s] = @ \cup {e}]
      <4>1. PICK e \in InEntries[s] : scope' = [scope EXCEPT !.in_scope[s] = @ \cup {e}]
        BY <3>1
      <4> WITNESS scope.in_scope[s] \cup {e}
      <4> QED
        BY <2>2, <4>1
    <3>2. CASE \E e \in OutEntries[s] : scope' = [scope EXCEPT !.out_of_scope[s] = @ \cup {e}]
      <4>1. PICK e \in OutEntries[s] : scope' = [scope EXCEPT !.out_of_scope[s] = @ \cup {e}]
        BY <3>2
      <4> WITNESS scope.out_of_scope[s] \cup {e}
      <4> QED
        BY <2>2, <4>1
    <3> QED
      BY <2>1, <3>1, <3>2
  <2> QED
    BY <1>1, <1>2, <2>3 DEF AddEntry
<1>3. CASE RemoveEntry
  <2>1. PICK s \in Sections :
          \/ \E e \in scope.in_scope[s] : scope' = [scope EXCEPT !.in_scope[s] = @ \ {e}]
          \/ \E e \in scope.out_of_scope[s] : scope' = [scope EXCEPT !.out_of_scope[s] = @ \ {e}]
    BY <1>3 DEF RemoveEntry
  <2>2. scope.in_scope[s] \subseteq InEntries[s] /\ scope.out_of_scope[s] \subseteq OutEntries[s]
    BY DEF FileOK
  <2>3. \E new : \/ /\ new \subseteq InEntries[s]
                    /\ scope' = [scope EXCEPT !.in_scope[s] = new]
                 \/ /\ new \subseteq OutEntries[s]
                    /\ scope' = [scope EXCEPT !.out_of_scope[s] = new]
    <3>1. CASE \E e \in scope.in_scope[s] : scope' = [scope EXCEPT !.in_scope[s] = @ \ {e}]
      <4>1. PICK e \in scope.in_scope[s] : scope' = [scope EXCEPT !.in_scope[s] = @ \ {e}]
        BY <3>1
      <4> WITNESS scope.in_scope[s] \ {e}
      <4> QED
        BY <2>2, <4>1
    <3>2. CASE \E e \in scope.out_of_scope[s] : scope' = [scope EXCEPT !.out_of_scope[s] = @ \ {e}]
      <4>1. PICK e \in scope.out_of_scope[s] : scope' = [scope EXCEPT !.out_of_scope[s] = @ \ {e}]
        BY <3>2
      <4> WITNESS scope.out_of_scope[s] \ {e}
      <4> QED
        BY <2>2, <4>1
    <3> QED
      BY <2>1, <3>1, <3>2
  <2> QED
    BY <1>1, <1>3, <2>3 DEF RemoveEntry
<1>4. CASE SetIpRangesMode
  BY <1>4 DEF SetIpRangesMode, FileOK, DecisionOK
<1>5. CASE Check
  <2>1. PICK atom \in Atoms, ips \in Pins :
          last' = [atom |-> atom, ips |-> ips, decision |-> decide(scope, atom, ips)]
    BY <1>5 DEF Check
  <2>2. FileOK' /\ scope' = scope /\ ~matcher_raises(scope)
    BY <1>5 DEF Check, FileOK
  <2>3. DecisionOK'
    BY <2>1, <2>2 DEF DecisionOK
  <2> QED
    BY <2>2, <2>3
<1>6. CASE Exit
  BY <1>6 DEF Exit, FileOK, DecisionOK
<1>7. CASE UNCHANGED vars
  BY <1>7 DEF vars, FileOK, DecisionOK
<1> QED
  BY <1>2, <1>3, <1>4, <1>5, <1>6, <1>7 DEF Next

\* The invariant holds in every behaviour.
LEMMA GateInvariant == Spec => []GateInv
<1>1. Init => GateInv
  BY DEF Init, GateInv, FileOK, DecisionOK, Part
<1> QED
  BY <1>1, GateStep, PTL DEF Spec

\* The scope file keeps its shape and every decision is one the gate gives.
THEOREM GateTypes == Spec => []TypeOK
<1>1. GateInv => TypeOK
  BY DecisionShape DEF GateInv, FileOK, DecisionOK, TypeOK
<1> QED
  BY <1>1, GateInvariant, PTL

----------------------------------------------------------------------------
(* What is behind an allowed decision of the file.                         *)

\* An allowed name: its canonical form is the decision's host, no exclusion
\* and some inclusion of the file covers it, and no pinned address is refused.
LEMMA NameBehind ==
  ASSUME GateInv, AllowedName
  PROVE  /\ last.decision.canonical_host \in Seq(Labels)
         /\ ~name_out_of_scope(scope, last.decision.canonical_host)
         /\ name_in_scope(scope, last.decision.canonical_host)
         /\ last.ips # <<>> => ~ips_denied(scope, last.ips)
<1>1. /\ allowed(decide(scope, last.atom, last.ips)) /\ last.atom \in Atoms
      /\ last.decision = decide(scope, last.atom, last.ips)
      /\ last.decision.reason_code # "in_scope_ip"
  BY DEF GateInv, DecisionOK, AllowedName, AllowedIp
<1>2. canonical_target(last.atom).kind # "ip"
  BY <1>1, AllowedAsIp
<1>3. canonical_target(last.atom).canon = canonical_host(last.atom.host)
  BY <1>1, <1>2, AllowedAsName, TargetOfAtom, AtomsAssumption
<1>4. canonical_host(last.atom.host) \in Seq(Labels)
  BY <1>1, <1>2, <1>3, AllowedAsName, CanonicalIsFixed, AtomsAssumption
<1> QED
  BY <1>1, <1>2, <1>3, <1>4, AllowedAsName

\* An allowed address is no refused one.
LEMMA AddressBehind ==
  ASSUME GateInv, AllowedIp
  PROVE  ~ip_refused(scope, last.atom.host[1])
<1>1. /\ allowed(decide(scope, last.atom, last.ips)) /\ last.atom \in Atoms
      /\ last.decision = decide(scope, last.atom, last.ips)
      /\ last.decision.reason_code = "in_scope_ip"
  BY DEF GateInv, DecisionOK, AllowedIp
<1>2. canonical_target(last.atom).kind = "ip"
  BY <1>1, AllowedAsName
<1>3. canonical_target(last.atom).canon = last.atom.host
  BY <1>1, <1>2, AllowedAsIp, TargetOfAtom, AtomsAssumption
<1> QED
  BY <1>1, <1>2, <1>3, AllowedAsIp

\* Exclusion as an operator reads it is exclusion as the matcher compiles it.
LEMMA ExcludedIsOut ==
  ASSUME GateInv, NEW host \in Seq(Labels), Excluded(host)
  PROVE  name_out_of_scope(scope, host)
<1> DEFINE out == scope.out_of_scope
<1>1. ASSUME NEW base, base \in Ancestors(host) PROVE is_subtree(host, base)
  <2>1. PICK n \in 1..Len(host) : base = SubSeq(host, 1, n)
    BY <1>1 DEF Ancestors
  <2>2. Len(host) \in Nat
    BY LenProperties
  <2>3. \A i \in 1..n : host[i] \in Labels
    BY <2>2, ElementOfSeq
  <2>4. base \in Seq(Labels) /\ Len(base) = n
    BY <2>1, <2>2, <2>3, SubSeqProperties
  <2>5. SubSeq(base, 1, Len(base)) = base
    BY <2>4, SubSeqFull
  <2> QED
    BY <2>1, <2>2, <2>4, <2>5 DEF is_subtree, IsPrefix
<1>2. CASE \E d \in out.domains : canonical_host(d) \in Ancestors(host)
  BY <1>1, <1>2 DEF name_out_of_scope, canon_set
<1>3. ASSUME NEW e \in out.subdomains,
             IF e.wildcard
             THEN /\ canonical_host(e.host) \in Ancestors(host) \ {host}
                  /\ registrable_domain(host) = registrable_domain(canonical_host(e.host))
             ELSE canonical_host(e.host) = host
      PROVE  name_out_of_scope(scope, host)
  <2>1. e.wildcard \in BOOLEAN
    BY AtomsAssumption DEF GateInv, FileOK, Sections
  <2>2. CASE e.wildcard = TRUE
    <3>1. canonical_host(e.host) \in split_subdomains(out.subdomains, TRUE)
      BY <2>2 DEF split_subdomains, canon_set
    <3>2. wild_match(host, canonical_host(e.host))
      BY <1>1, <1>3, <2>2 DEF wild_match
    <3> QED
      BY <3>1, <3>2 DEF name_out_of_scope
  <2>3. CASE e.wildcard = FALSE
    <3>1. canonical_host(e.host) \in split_subdomains(out.subdomains, FALSE)
      BY <2>3 DEF split_subdomains, canon_set
    <3>2. canonical_host(e.host) = host
      BY <1>3, <2>3
    <3> QED
      BY <3>1, <3>2 DEF name_out_of_scope
  <2> QED
    BY <2>1, <2>2, <2>3
<1> QED
  BY <1>2, <1>3 DEF Excluded

\* An exclusion wins over every inclusion.
THEOREM GateExcludes == Spec => []OutOfScopeWins
<1>1. GateInv => OutOfScopeWins
  BY NameBehind, ExcludedIsOut DEF OutOfScopeWins
<1> QED
  BY <1>1, GateInvariant, PTL

\* The in-scope wildcards of a file the matcher accepts have a base.
LEMMA WildcardHasBase ==
  ASSUME GateInv, ~matcher_raises(scope),
         NEW base \in split_subdomains(scope.in_scope.subdomains, TRUE)
  PROVE  base \in Seq(Labels) /\ base # Raises
<1>1. PICK e \in scope.in_scope.subdomains : base = canonical_host(e.host)
  BY DEF split_subdomains, canon_set
<1>2. e.host \in scope_entries(scope) /\ e.host \in Seq(Labels)
  BY AtomsAssumption DEF scope_entries, GateInv, FileOK, Sections
<1> QED
  BY <1>1, <1>2, CanonicalIsFixed DEF matcher_raises

\* No wildcard reaches a name of one label.
LEMMA WildcardMissesTop ==
  ASSUME NEW host \in Seq(Labels), Len(host) = 1, NEW base \in Seq(Labels), base # Raises
  PROVE  ~wild_match(host, base)
<1> SUFFICES ASSUME wild_match(host, base) PROVE FALSE
  OBVIOUS
<1>1. /\ host # base /\ Len(base) <= Len(host)
      /\ SubSeq(base, 1, Len(base)) = SubSeq(host, 1, Len(base))
  BY DEF wild_match, is_subtree, IsPrefix
<1>2. Len(base) = Len(host)
  BY <1>1, LenProperties, EmptySeq DEF Raises
<1> QED
  BY <1>1, <1>2, SubSeqFull

\* No private or excluded address is behind an allowed name or bare address, and
\* an address in a URL is allowed only as a host the file lists.
THEOREM GateKeepsAddressesClean == Spec => []AddressesClean
<1>1. ASSUME GateInv, AllowedName, NEW ip \in Range(last.ips) PROVE Clean(ip)
  <2>1. PICK i \in DOMAIN last.ips : ip = last.ips[i]
    BY <1>1 DEF Range
  <2>2. last.ips # <<>>
    BY <2>1
  <2> QED
    BY <1>1, <2>1, <2>2, NameBehind DEF ips_denied, ip_refused, private_deny_reason, ip_in, Clean
<1>2. GateInv /\ AllowedIp => Clean(last.atom.host[1])
  BY AddressBehind DEF ip_refused, private_deny_reason, ip_in, Clean
<1>3. ASSUME GateInv, AllowedName, is_ip_literal(last.decision.canonical_host)
      PROVE  \E h \in scope.in_scope.domains
                        \cup {e.host : e \in {f \in scope.in_scope.subdomains : ~f.wildcard}} :
               canonical_host(h) = last.decision.canonical_host
  <2> DEFINE host == last.decision.canonical_host
             subs == scope.in_scope.subdomains
  <2>1. host \in Seq(Labels) /\ Len(host) = 1 /\ name_in_scope(scope, host)
        /\ ~matcher_raises(scope)
    BY <1>3, NameBehind DEF is_ip_literal, GateInv, DecisionOK, AllowedName
  <2>2. ~name_in_scope_wildcard(scope, host)
    BY <1>3, <2>1, WildcardHasBase, WildcardMissesTop DEF name_in_scope_wildcard
  <2>3. CASE host \in canon_set(scope.in_scope.domains)
    BY <2>3 DEF canon_set
  <2>4. CASE host \in split_subdomains(subs, FALSE)
    <3>1. PICK e \in subs : e.wildcard = FALSE /\ host = canonical_host(e.host)
      BY <2>4 DEF split_subdomains, canon_set
    <3> QED
      BY <3>1
  <2> QED
    BY <2>1, <2>2, <2>3, <2>4 DEF name_in_scope, name_in_scope_exact
<1>4. GateInv => AddressesClean
  BY <1>1, <1>2, <1>3 DEF AddressesClean
<1> QED
  BY <1>4, GateInvariant, PTL

\* A wildcard never reaches past its registrable domain.
THEOREM GateStaysInside == Spec => []StaysInsideRegistrableDomain
<1>1. ASSUME GateInv, AllowedName PROVE StaysInsideRegistrableDomain
  <2> DEFINE host == last.decision.canonical_host
             entries == scope.in_scope.domains \cup {e.host : e \in scope.in_scope.subdomains}
  <2>1. ASSUME NEW w, NEW c \in split_subdomains(scope.in_scope.subdomains, w)
        PROVE  \E h \in entries : canonical_host(h) = c
    BY DEF split_subdomains, canon_set
  <2>2. CASE host \in canon_set(scope.in_scope.domains)
    BY <2>2 DEF canon_set, StaysInsideRegistrableDomain
  <2>3. CASE host \in split_subdomains(scope.in_scope.subdomains, FALSE)
    BY <2>1, <2>3 DEF StaysInsideRegistrableDomain
  <2>4. CASE \E base \in split_subdomains(scope.in_scope.subdomains, TRUE) : wild_match(host, base)
    BY <2>1, <2>4 DEF wild_match, StaysInsideRegistrableDomain
  <2> QED
    BY <1>1, <2>2, <2>3, <2>4, NameBehind
    DEF name_in_scope, name_in_scope_exact, name_in_scope_wildcard
<1>2. GateInv => StaysInsideRegistrableDomain
  BY <1>1 DEF StaysInsideRegistrableDomain
<1> QED
  BY <1>2, GateInvariant, PTL

----------------------------------------------------------------------------
(* Spellings.                                                              *)

\* Spellings of one name have the same labels once their dots are gone.
LEMMA SameNameStripped ==
  ASSUME NEW g \in Seq(Labels), NEW h \in Seq(Labels), SameName(g, h)
  PROVE  /\ Len(rstrip_dots(g)) = Len(rstrip_dots(h))
         /\ \A i \in 1..Len(rstrip_dots(h)) : SameLabel(rstrip_dots(h)[i], rstrip_dots(g)[i])
<1>1. PICK k \in 0..Len(g) : /\ \A i \in 1..k : g[i] = EmptyLabel
                             /\ Len(g) - k = Len(h)
                             /\ \A i \in 1..Len(h) : SameLabel(h[i], g[k + i])
  BY LenProperties DEF SameName
<1>2. PICK m \in 0..Len(h) : /\ \A i \in 1..m : h[i] = EmptyLabel
                             /\ m < Len(h) => h[m + 1] # EmptyLabel
                             /\ rstrip_dots(h) = SubSeq(h, m + 1, Len(h))
  BY StripAt
<1>3. Len(g) \in Nat /\ Len(h) \in Nat /\ k + m \in 0..Len(g)
  BY <1>1, LenProperties
<1>4. \A a, b : SameLabel(a, b) => (a = EmptyLabel <=> b = EmptyLabel)
  BY LabelsAssumption DEF SameLabel
<1>5. \A i \in 1..(k + m) : g[i] = EmptyLabel
  <2> SUFFICES ASSUME NEW i \in 1..(k + m), i > k PROVE g[i] = EmptyLabel
    BY <1>1, <1>3
  <2>1. i - k \in 1..m /\ i - k \in 1..Len(h) /\ k + (i - k) = i
    BY <1>3
  <2>2. SameLabel(h[i - k], g[k + (i - k)])
    BY <1>1, <2>1
  <2>3. SameLabel(h[i - k], g[i])
    BY <2>1, <2>2
  <2>4. h[i - k] = EmptyLabel
    BY <1>2, <2>1
  <2> QED
    BY <1>4, <2>3, <2>4
<1>6. k + m < Len(g) => g[k + m + 1] # EmptyLabel
  <2> SUFFICES ASSUME k + m < Len(g) PROVE g[k + m + 1] # EmptyLabel
    OBVIOUS
  <2>1. m < Len(h) /\ m + 1 \in 1..Len(h) /\ k + (m + 1) = k + m + 1
    BY <1>1, <1>3
  <2>2. SameLabel(h[m + 1], g[k + (m + 1)])
    BY <1>1, <2>1
  <2>3. SameLabel(h[m + 1], g[k + m + 1])
    BY <2>1, <2>2
  <2>4. h[m + 1] # EmptyLabel
    BY <1>2, <2>1
  <2> QED
    BY <1>4, <2>3, <2>4
<1>7. rstrip_dots(g) = SubSeq(g, k + m + 1, Len(g))
  BY <1>3, <1>5, <1>6, StripIs
<1>8. /\ \A i \in (m + 1)..Len(h) : h[i] \in Labels
      /\ \A i \in (k + m + 1)..Len(g) : g[i] \in Labels
  BY <1>3, ElementOfSeq
<1>9. /\ Len(SubSeq(h, m + 1, Len(h))) = Len(h) - m
      /\ \A i \in 1..(Len(h) - m) : SubSeq(h, m + 1, Len(h))[i] = h[m + i]
  BY <1>3, <1>8, SubSeqProperties
<1>10. /\ Len(SubSeq(g, k + m + 1, Len(g))) = Len(h) - m
       /\ \A i \in 1..(Len(h) - m) : SubSeq(g, k + m + 1, Len(g))[i] = g[k + (m + i)]
  <2>1. /\ Len(SubSeq(g, k + m + 1, Len(g))) = Len(g) - (k + m)
        /\ \A i \in 1..(Len(g) - (k + m)) :
             SubSeq(g, k + m + 1, Len(g))[i] = g[(k + m + 1) + i - 1]
    BY <1>3, <1>8, SubSeqProperties
  <2>2. Len(g) - (k + m) = Len(h) - m
    BY <1>1, <1>3
  <2>3. \A i \in 1..(Len(h) - m) : (k + m + 1) + i - 1 = k + (m + i)
    BY <1>3
  <2> QED
    BY <2>1, <2>2, <2>3
<1>11. \A i \in 1..(Len(h) - m) : m + i \in 1..Len(h)
  BY <1>3
<1>12. \A i \in 1..(Len(h) - m) : SameLabel(h[m + i], g[k + (m + i)])
  BY <1>1, <1>11
<1>13. rstrip_dots(h) = SubSeq(h, m + 1, Len(h))
  BY <1>2
<1> DEFINE gs == SubSeq(g, k + m + 1, Len(g))
           hs == SubSeq(h, m + 1, Len(h))
<1>14. Len(gs) = Len(hs) /\ \A i \in 1..Len(hs) : SameLabel(hs[i], gs[i])
  BY <1>9, <1>10, <1>12
<1> HIDE DEF gs, hs
<1>15. rstrip_dots(g) = gs /\ rstrip_dots(h) = hs
  BY <1>7, <1>13 DEF gs, hs
<1> QED
  BY <1>14, <1>15

\* So they have one canonical form, or none of them has any.
LEMMA SameNameCanonical ==
  ASSUME NEW g \in Seq(Labels), NEW h \in Seq(Labels), SameName(g, h)
  PROVE  canonical_host(g) = canonical_host(h)
<1> DEFINE r == rstrip_dots(g)
           s == rstrip_dots(h)
<1>1. Len(r) = Len(s) /\ \A i \in 1..Len(s) : SameLabel(s[i], r[i])
  BY SameNameStripped
<1>2. \A i \in 1..Len(s) : CanonLabel[r[i]] = CanonLabel[s[i]]
  BY <1>1 DEF SameLabel
<1> HIDE DEF r, s
<1>3. canonical_labels(r) = canonical_labels(s)
  BY <1>1, <1>2 DEF canonical_labels
<1> QED
  BY <1>3, CanonicalByLabels DEF r, s

\* Two spellings of a name, in a URL or bare, are decided alike.
LEMMA SameNameDecided ==
  ASSUME NEW cfg, NEW atom \in Atoms, NEW other \in Atoms, NEW ips,
         IsName(atom), IsName(other), SameName(atom.host, other.host)
  PROVE  decide(cfg, other, ips) = decide(cfg, atom, ips)
<1>1. ASSUME NEW a \in Atoms, IsName(a)
      PROVE  /\ canonical_target(a).canon = canonical_host(a.host)
             /\ canonical_target(a).kind # "ip"
  BY <1>1, AtomsAssumption DEF IsName, canonical_target
<1>2. canonical_target(atom).canon = canonical_target(other).canon
  BY <1>1, SameNameCanonical, AtomsAssumption
<1> DEFINE canon == canonical_target(atom).canon
<1>3. CASE canon = Raises
  BY <1>2, <1>3 DEF decide
<1>4. CASE canon # Raises
  <2>1. decide(cfg, atom, ips) = decide_name(cfg, canon, ips)
    BY <1>1, <1>4 DEF decide
  <2>2. decide(cfg, other, ips) = decide_name(cfg, canon, ips)
    BY <1>1, <1>2, <1>4 DEF decide
  <2> QED
    BY <2>1, <2>2
<1> QED
  BY <1>3, <1>4

\* The spelling of a name never changes its verdict.
THEOREM GateIgnoresSpelling == Spec => []SpellingIrrelevant
<1>1. GateInv => SpellingIrrelevant
  BY SameNameDecided DEF GateInv, DecisionOK, SpellingIrrelevant
<1> QED
  BY <1>1, GateInvariant, PTL
=============================================================================
