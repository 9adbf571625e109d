--------------------------- MODULE ScopeRulesProofs ---------------------------
(* What an ALLOW of the scope gate means, for every scope file and atom.     *)
EXTENDS ScopeRules, SequenceTheorems, WellFoundedInduction, TLAPS

----------------------------------------------------------------------------
(* Canonical names.                                                        *)

\* A non-empty set of naturals below a bound has its maximum.
LEMMA MaxOfBounded ==
  ASSUME NEW n \in Nat, NEW S, S \subseteq 0..n, S # {}
  PROVE  Max(S) \in S /\ \A y \in S : Max(S) >= y
<1> DEFINE T == {n - k : k \in S}
<1>1. \A k \in S : k \in Int /\ n - k \in Nat
  OBVIOUS
<1>2. T \subseteq Nat /\ T # {}
  BY <1>1
<1>3. PICK x \in T : \A y \in T : ~(<<y, x>> \in OpToRel(<, Nat))
  BY <1>2, NatLessThanWellFounded, WFMin
<1>4. \A y \in T : ~(y < x)
  BY <1>2, <1>3 DEF OpToRel
<1>5. PICK k \in S : x = n - k
  BY <1>3
<1>6. ASSUME NEW y \in S PROVE k >= y
  <2>1. ~(n - y < n - k)
    BY <1>4, <1>5
  <2> QED
    BY <2>1, <1>1
<1> QED
  BY <1>5, <1>6 DEF Max

\* A name without leading empty labels is left as it is.
LEMMA StripKeeps ==
  ASSUME NEW g \in Seq(Labels), g # <<>>, g[1] # EmptyLabel
  PROVE  rstrip_dots(g) = g
<1> DEFINE dots == {k \in 0..Len(g) : \A i \in 1..k : g[i] = EmptyLabel}
<1>1. Len(g) \in Nat \ {0}
  BY EmptySeq, LenProperties
<1>2. dots = {0}
  BY <1>1
<1>3. Max(dots) = 0
  BY <1>2, <1>1, MaxOfBounded
<1>4. SubSeq(g, 1, Len(g)) = g
  BY SubSeqFull
<1>5. rstrip_dots(g) = SubSeq(g, Max(dots) + 1, Len(g))
  BY DEF rstrip_dots
<1> HIDE DEF dots
<1>6. Max(dots) + 1 = 1
  BY <1>3
<1> QED
  BY <1>4, <1>5, <1>6

\* What is left of a name is a name.
LEMMA StripIsName ==
  ASSUME NEW h \in Seq(Labels)
  PROVE  rstrip_dots(h) \in Seq(Labels)
<1> DEFINE dots == {k \in 0..Len(h) : \A i \in 1..k : h[i] = EmptyLabel}
<1>1. Len(h) \in Nat /\ 0 \in dots /\ dots \subseteq 0..Len(h)
  BY LenProperties
<1>2. Max(dots) \in 0..Len(h)
  <2> HIDE DEF dots
  <2> QED
    BY <1>1, MaxOfBounded
<1>3. SubSeq(h, Max(dots) + 1, Len(h)) \in Seq(Labels)
  <2> HIDE DEF dots
  <2>1. \A i \in (Max(dots) + 1)..Len(h) : h[i] \in Labels
    BY <1>1, <1>2, ElementOfSeq
  <2> QED
    BY <1>1, <1>2, <2>1, SubSeqProperties
<1> QED
  BY <1>3 DEF rstrip_dots

\* Every name loses a number of leading empty labels, and the next one stays.
LEMMA StripAt ==
  ASSUME NEW h \in Seq(Labels)
  PROVE  \E k \in 0..Len(h) : /\ \A i \in 1..k : h[i] = EmptyLabel
                              /\ k < Len(h) => h[k + 1] # EmptyLabel
                              /\ rstrip_dots(h) = SubSeq(h, k + 1, Len(h))
<1> DEFINE dots == {k \in 0..Len(h) : \A i \in 1..k : h[i] = EmptyLabel}
           m == Max(dots)
<1>1. Len(h) \in Nat /\ 0 \in dots /\ dots \subseteq 0..Len(h)
  BY LenProperties
<1>2. m \in dots /\ \A k \in dots : m >= k
  <2> HIDE DEF dots
  <2> QED
    BY <1>1, MaxOfBounded
<1>3. rstrip_dots(h) = SubSeq(h, m + 1, Len(h))
  BY DEF rstrip_dots
<1> HIDE DEF m
<1>4. m \in 0..Len(h) /\ \A i \in 1..m : h[i] = EmptyLabel
  BY <1>2
<1>5. ASSUME m < Len(h), h[m + 1] = EmptyLabel PROVE FALSE
  <2>1. m + 1 \in 0..Len(h) /\ \A i \in 1..(m + 1) : i \in 1..m \/ i = m + 1
    BY <1>1, <1>4, <1>5
  <2>2. m + 1 \in dots
    BY <1>4, <1>5, <2>1
  <2> QED
    BY <1>1, <1>2, <1>4, <2>2
<1> QED
  BY <1>3, <1>4, <1>5

\* That number is the only one with this: a name stripped by it is stripped.
LEMMA StripIs ==
  ASSUME NEW h \in Seq(Labels), NEW n \in 0..Len(h),
         \A i \in 1..n : h[i] = EmptyLabel,
         n < Len(h) => h[n + 1] # EmptyLabel
  PROVE  rstrip_dots(h) = SubSeq(h, n + 1, Len(h))
<1>1. PICK k \in 0..Len(h) : /\ \A i \in 1..k : h[i] = EmptyLabel
                             /\ k < Len(h) => h[k + 1] # EmptyLabel
                             /\ rstrip_dots(h) = SubSeq(h, k + 1, Len(h))
  BY StripAt
<1>2. Len(h) \in Nat
  BY LenProperties
<1>3. ASSUME k < n PROVE FALSE
  <2>1. k + 1 \in 1..n /\ k < Len(h)
    BY <1>2, <1>3
  <2>2. h[k + 1] = EmptyLabel
    BY <2>1
  <2> QED
    BY <1>1, <2>1, <2>2
<1>4. ASSUME n < k PROVE FALSE
  <2>1. n + 1 \in 1..k /\ n < Len(h)
    BY <1>2, <1>4
  <2>2. h[n + 1] = EmptyLabel
    BY <1>1, <2>1
  <2> QED
    BY <2>1, <2>2
<1>5. k = n
  BY <1>2, <1>3, <1>4
<1>6. rstrip_dots(h) = SubSeq(h, k + 1, Len(h))
  BY <1>1
<1> QED
  BY <1>5, <1>6

\* The canonical form of a name, label by label; Raises when a label has none.
canonical_labels(h) ==
  LET out_labels == [i \in 1..Len(h) |-> CanonLabel[h[i]]]
  IN  IF \E i \in 1..Len(h) : CanonLabel[h[i]] = Illegal THEN Raises ELSE out_labels

\* An address is no exception to it: it has no dot to lose and is its own form.
LEMMA CanonicalByLabels ==
  ASSUME NEW h \in Seq(Labels)
  PROVE  canonical_host(h) = canonical_labels(rstrip_dots(h))
<1>1. CASE is_ip_literal(h)
  <2>1. h \in Seq(Labels) /\ Len(h) = 1 /\ h[1] \in Ips
    BY <1>1 DEF is_ip_literal
  <2>2. rstrip_dots(h) = h
    BY <2>1, StripKeeps, LabelsAssumption
  <2>3. CanonLabel[h[1]] = h[1] /\ h[1] # Illegal
    BY <2>1, LabelsAssumption
  <2>4. [i \in 1..Len(h) |-> CanonLabel[h[i]]] = h
    <3>1. h = [i \in 1..Len(h) |-> h[i]] /\ \A i \in 1..Len(h) : i = 1
      BY <2>1, LenProperties
    <3> QED
      BY <2>3, <3>1
  <2>5. canonical_labels(h) = h
    BY <2>1, <2>3, <2>4 DEF canonical_labels
  <2> QED
    BY <1>1, <2>2, <2>5 DEF canonical_host
<1>2. CASE ~is_ip_literal(h)
  BY <1>2 DEF canonical_host, canonical_labels
<1> QED
  BY <1>1, <1>2

\* A canonical name consists of canonical labels and is its own canonical form
\* (canonical_host is idempotent).
LEMMA CanonicalIsFixed ==
  ASSUME NEW h \in Seq(Labels), canonical_host(h) # Raises
  PROVE  /\ canonical_host(h) \in Seq(Labels)
         /\ canonical_host(canonical_host(h)) = canonical_host(h)
<1> DEFINE c == canonical_host(h)
<1>1. CASE is_ip_literal(h)
  BY <1>1 DEF canonical_host
<1>2. CASE ~is_ip_literal(h)
  <2> DEFINE r == rstrip_dots(h)
             labels == [i \in 1..Len(r) |-> CanonLabel[r[i]]]
  <2>1. r \in Seq(Labels) /\ Len(r) \in Nat /\ \A i \in 1..Len(r) : r[i] \in Labels
    BY StripIsName, LenProperties, ElementOfSeq
  <2>2. c = labels /\ \A i \in 1..Len(r) : CanonLabel[r[i]] # Illegal
    BY <1>2 DEF canonical_host
  <2>3. \A i \in 1..Len(r) : /\ CanonLabel[r[i]] \in Labels
                             /\ CanonLabel[CanonLabel[r[i]]] = CanonLabel[r[i]]
    BY <2>1, <2>2, LabelsAssumption
  <2>4. c \in Seq(Labels) /\ Len(c) = Len(r) /\ \A i \in 1..Len(r) : c[i] = CanonLabel[r[i]]
    BY <2>1, <2>2, <2>3, IsASeq
  <2>5. \A i \in 1..Len(c) : CanonLabel[c[i]] = c[i] /\ c[i] \in Labels
    BY <2>3, <2>4
  <2> HIDE DEF labels, r, c
  <2>6. c # <<>>
    BY DEF Raises, c
  <2>7. Len(c) \in Nat \ {0}
    BY <2>4, <2>6, EmptySeq, LenProperties
  <2>8. c[1] # EmptyLabel /\ \A i \in 1..Len(c) : c[i] # Illegal
    BY <2>5, <2>7, LabelsAssumption
  <2>9. rstrip_dots(c) = c
    BY <2>4, <2>6, <2>8, StripKeeps
  <2>10. [i \in 1..Len(c) |-> CanonLabel[c[i]]] = c
    <3>1. DOMAIN c = 1..Len(c) /\ c = [i \in 1..Len(c) |-> c[i]]
      BY <2>4, LenProperties
    <3> QED
      BY <2>5, <3>1
  <2>11. canonical_host(c) = c
    BY <2>5, <2>8, <2>9, <2>10 DEF canonical_host
  <2> QED
    BY <2>4, <2>11 DEF c
<1> QED
  BY <1>1, <1>2

----------------------------------------------------------------------------
(* Verdicts.                                                               *)

\* A denial is not an ALLOW, whichever denial it is.
LEMMA DenyIsNotAllowed ==
  ASSUME NEW code, NEW canon PROVE ~allowed(deny(code, canon)) /\ allowed(allow(code, canon))
BY DEF allowed, deny, allow

\* An address is allowed only inside a declared range, outside every excluded
\* one and when it is public.
LEMMA AllowedIpDecision ==
  ASSUME NEW cfg, NEW ip, allowed(ip_decision(cfg, ip))
  PROVE  ~ip_refused(cfg, ip) /\ ip_in(cfg.in_scope.ip_ranges, ip)
<1>1. CASE ip_refused(cfg, ip)
  BY <1>1, DenyIsNotAllowed DEF ip_decision
<1>2. CASE ~ip_refused(cfg, ip) /\ ~ip_in(cfg.in_scope.ip_ranges, ip)
  BY <1>2, DenyIsNotAllowed DEF ip_decision
<1> QED
  BY <1>1, <1>2

\* Whatever the addresses, the answer about refused ones is a denial.
LEMMA ResolvedIpsDenied ==
  ASSUME NEW cfg, NEW canon, NEW ips PROVE ~allowed(check_resolved_ips(cfg, canon, ips))
BY DenyIsNotAllowed DEF check_resolved_ips

\* A name is allowed only when no exclusion and some inclusion covers it, and
\* none of its pinned addresses is refused.
LEMMA AllowedNameDecision ==
  ASSUME NEW cfg, NEW canon, NEW ips, allowed(decide_name(cfg, canon, ips))
  PROVE  /\ ~name_out_of_scope(cfg, canon) /\ name_in_scope(cfg, canon)
         /\ ips # <<>> => ~ips_denied(cfg, ips)
<1>1. CASE name_out_of_scope(cfg, canon)
  BY <1>1, DenyIsNotAllowed DEF decide_name
<1>2. CASE ~name_out_of_scope(cfg, canon) /\ ~name_in_scope(cfg, canon)
  BY <1>2, DenyIsNotAllowed DEF decide_name
<1>3. CASE /\ ~name_out_of_scope(cfg, canon) /\ name_in_scope(cfg, canon)
           /\ ips # <<>> /\ ips_denied(cfg, ips)
  <2>1. decide_name(cfg, canon, ips) = check_resolved_ips(cfg, canon, ips)
    BY <1>3 DEF decide_name
  <2> QED
    BY <2>1, ResolvedIpsDenied
<1> QED
  BY <1>1, <1>2, <1>3

\* The gate as the probe meets it: an allowed host pinned to its addresses is
\* an address in a declared range, or a name covered by an inclusion and by no
\* exclusion; and no address it is pinned to is private or excluded.
THEOREM AllowedHost ==
  ASSUME NEW cfg, NEW host, NEW ips, ips # <<>>,
         is_ip_literal(host) => ips = <<host[1]>>,
         allowed(decide(cfg, [form |-> "bare", host |-> host], ips))
  PROVE  /\ IF is_ip_literal(host)
            THEN ip_in(cfg.in_scope.ip_ranges, ips[1])
            ELSE /\ ~name_out_of_scope(cfg, canonical_host(host))
                 /\ name_in_scope(cfg, canonical_host(host))
         /\ \A i \in DOMAIN ips : ~ip_refused(cfg, ips[i])
<1> DEFINE atom == [form |-> "bare", host |-> host]
           target == canonical_target(atom)
<1>1. target = [kind |-> IF is_ip_literal(host) THEN "ip" ELSE "domain",
                canon |-> canonical_host(host)]
  BY DEF canonical_target
<1>2. target.canon # Raises
  BY DenyIsNotAllowed DEF decide
<1>3. CASE is_ip_literal(host)
  <2>1. target.kind = "ip" /\ target.canon = host
    BY <1>1, <1>3 DEF canonical_host
  <2>2. allowed(ip_decision(cfg, host[1]))
    BY <1>2, <2>1 DEF decide
  <2> QED
    BY <1>3, <2>2, AllowedIpDecision
<1>4. CASE ~is_ip_literal(host)
  <2>1. target.kind # "ip" /\ target.canon = canonical_host(host)
    BY <1>1, <1>4
  <2>2. allowed(decide_name(cfg, canonical_host(host), ips))
    BY <1>2, <2>1 DEF decide
  <2>3. ~ips_denied(cfg, ips)
    BY <2>2, AllowedNameDecision
  <2> QED
    BY <1>4, <2>2, <2>3, AllowedNameDecision DEF ips_denied
<1> QED
  BY <1>3, <1>4
=============================================================================
