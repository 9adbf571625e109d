--------------------------- MODULE ImporterProofs ---------------------------
(* What the gate makes of an imported draft, for every document, identifier, *)
(* suffix list and table of labels.                                          *)
EXTENDS Importer, ScopeRulesProofs, SequenceTheorems, FiniteSetTheorems, TLAPS

----------------------------------------------------------------------------
(* What the gate says of one host under the draft.                         *)

Identifier == [form : Forms, host : Seq(Labels), net : SUBSET Ips]

\* An identifier that is not skipped keeps a host the matcher compiles to itself.
LEMMA KeptHost ==
  ASSUME NEW id \in Identifier, ~skipped(id)
  PROVE  /\ id.form # "port" /\ id.form # "net"
         /\ host_of(id) = canonical_host(id.host) /\ host_of(id) # Raises
         /\ canonical_host(host_of(id)) = host_of(id)
         /\ registrable_domain(host_of(id)) \notin Vendors \cup {<<>>}
<1>1. host_of(id) # Raises /\ id.form # "net"
      /\ registrable_domain(host_of(id)) \notin Vendors \cup {<<>>}
  BY DEF skipped
<1>2. id.form # "port" /\ host_of(id) = canonical_host(id.host)
  BY <1>1 DEF host_of
<1>3. id.host \in Seq(Labels)
  BY DEF Identifier
<1> QED
  BY <1>1, <1>2, <1>3, CanonicalIsFixed

\* The three lists of a draft's half, compiled.
LEMMA CompiledDomains ==
  ASSUME NEW ids, ids \subseteq Identifier
  PROVE  canon_set(added(ids).domains) = {host_of(i) : i \in {j \in ids : ~skipped(j) /\ ~is_sub(j)}}
<1>1. \A i \in ids : ~skipped(i) => canonical_host(host_of(i)) = host_of(i)
  BY KeptHost
<1>2. added(ids).domains = {host_of(i) : i \in {j \in ids : ~skipped(j) /\ ~is_sub(j)}}
  BY DEF added
<1> QED
  BY <1>1, <1>2 DEF canon_set

LEMMA CompiledSubdomains ==
  ASSUME NEW ids, ids \subseteq Identifier
  PROVE  /\ \A b : b \in split_subdomains(added(ids).subdomains, TRUE) <=>
                     \E i \in ids : ~skipped(i) /\ i.form = "wild" /\ b = host_of(i)
         /\ \A b : b \in split_subdomains(added(ids).subdomains, FALSE) <=>
                     \E i \in ids : ~skipped(i) /\ is_sub(i) /\ i.form # "wild" /\ b = host_of(i)
<1> DEFINE subs == added(ids).subdomains
           entry(i) == [wildcard |-> i.form = "wild", host |-> host_of(i)]
           filed(i) == ~skipped(i) /\ is_sub(i)
<1>1. \A i \in ids : ~skipped(i) => canonical_host(host_of(i)) = host_of(i)
  BY KeptHost
<1>2. subs = {entry(i) : i \in {j \in ids : filed(j)}}
  BY DEF added
<1>3. \A i : entry(i).host = host_of(i) /\ (entry(i).wildcard = TRUE <=> i.form = "wild")
             /\ (entry(i).wildcard = FALSE <=> i.form # "wild")
  OBVIOUS
<1>4. \A i : i.form = "wild" => is_sub(i)
  BY DEF is_sub
<1> HIDE DEF subs, entry
<1>5. ASSUME NEW w, NEW b
      PROVE  b \in split_subdomains(subs, w) <=>
               \E i \in ids : filed(i) /\ entry(i).wildcard = w /\ b = host_of(i)
  <2>1. b \in split_subdomains(subs, w) <=>
          \E e \in subs : e.wildcard = w /\ b = canonical_host(e.host)
    BY Zenon DEF split_subdomains, canon_set
  <2>2. \A e : e \in subs <=> \E i \in ids : filed(i) /\ e = entry(i)
    BY <1>2, Zenon
  <2>3. \A i \in ids : filed(i) => canonical_host(entry(i).host) = host_of(i)
    BY <1>1, <1>3
  <2>4. (\E e \in subs : e.wildcard = w /\ b = canonical_host(e.host)) <=>
          \E i \in ids : filed(i) /\ entry(i).wildcard = w /\ b = canonical_host(entry(i).host)
    BY <2>2, Zenon
  <2> HIDE DEF filed
  <2> QED
    BY <2>1, <2>3, <2>4, Zenon
<1>6. \A b : b \in split_subdomains(subs, TRUE) <=>
               \E i \in ids : ~skipped(i) /\ i.form = "wild" /\ b = host_of(i)
  <2>1. \A b : b \in split_subdomains(subs, TRUE) <=>
                 \E i \in ids : filed(i) /\ entry(i).wildcard = TRUE /\ b = host_of(i)
    BY <1>5, Zenon
  <2>2. \A i : filed(i) /\ entry(i).wildcard = TRUE <=> ~skipped(i) /\ i.form = "wild"
    BY <1>3, <1>4, Zenon
  <2> HIDE DEF filed
  <2> QED
    BY <2>1, <2>2, Zenon
<1>7. \A b : b \in split_subdomains(subs, FALSE) <=>
               \E i \in ids : ~skipped(i) /\ is_sub(i) /\ i.form # "wild" /\ b = host_of(i)
  BY <1>3, <1>5, Zenon
<1> QED
  BY <1>6, <1>7 DEF subs

\* The verdict on an address is ip_decision's, on a name decide_name's.
LEMMA VerdictOf ==
  ASSUME NEW h, allowed(verdict(h))
  PROVE  /\ canonical_host(h) # Raises
         /\ is_ip_literal(h) => allowed(ip_decision(config, h[1]))
         /\ ~is_ip_literal(h) => allowed(decide_name(config, canonical_host(h), <<>>))
<1> DEFINE atom == [form |-> "bare", host |-> h]
           target == canonical_target(atom)
<1>1. target = [kind |-> IF is_ip_literal(h) THEN "ip" ELSE "domain", canon |-> canonical_host(h)]
  BY DEF canonical_target
<1>2. target.canon # Raises
  BY DenyIsNotAllowed DEF decide, verdict
<1>3. ASSUME is_ip_literal(h) PROVE allowed(ip_decision(config, h[1]))
  <2>1. target.kind = "ip" /\ target.canon = h
    BY <1>1, <1>3 DEF canonical_host
  <2> QED
    BY <1>2, <2>1 DEF decide, verdict
<1>4. ASSUME ~is_ip_literal(h) PROVE allowed(decide_name(config, canonical_host(h), <<>>))
  <2>1. target.kind # "ip" /\ target.canon = canonical_host(h)
    BY <1>1, <1>4
  <2> QED
    BY <1>2, <2>1 DEF decide, verdict
<1> QED
  BY <1>1, <1>2, <1>3, <1>4

\* A host that is allowed under the draft is covered by an identifier it has in
\* scope, whose registrable domain it shares.
LEMMA AllowedIsCovered ==
  ASSUME config = to_scope_config, ins \subseteq Identifier,
         NEW h \in Hosts, allowed(verdict(h))
  PROVE  \E i \in ins :
           /\ h \in covered(i)
           /\ ~is_ip_literal(h) =>
                /\ ~skipped(i)
                /\ registrable_domain(host_of(i)) = registrable_domain(canonical_host(h))
<1> DEFINE c == canonical_host(h)
<1>1. config.in_scope = added(ins)
  BY DEF to_scope_config
<1>2. CASE is_ip_literal(h)
  <2>1. ip_in(added(ins).ip_ranges, h[1])
    BY <1>1, <1>2, VerdictOf, AllowedIpDecision
  <2>2. PICK i \in ins : i.form = "net" /\ h[1] \in i.net
    BY <2>1 DEF ip_in, added
  <2> QED
    BY <1>2, <2>2 DEF covered
<1>3. CASE ~is_ip_literal(h)
  <2>1. name_in_scope(config, c)
    BY <1>3, VerdictOf, AllowedNameDecision
  <2>2. \/ c \in canon_set(added(ins).domains)
        \/ c \in split_subdomains(added(ins).subdomains, FALSE)
        \/ \E base \in split_subdomains(added(ins).subdomains, TRUE) : wild_match(c, base)
    BY <1>1, <2>1 DEF name_in_scope, name_in_scope_exact, name_in_scope_wildcard
  <2>3. PICK i \in ins : /\ ~skipped(i)
                         /\ \/ c = host_of(i) /\ i.form # "wild"
                            \/ wild_match(c, host_of(i)) /\ i.form = "wild"
    <3>1. CASE c \in canon_set(added(ins).domains)
      BY <3>1, CompiledDomains DEF is_sub
    <3>2. CASE c \in split_subdomains(added(ins).subdomains, FALSE)
      BY <3>2, CompiledSubdomains, Zenon
    <3>3. CASE \E base \in split_subdomains(added(ins).subdomains, TRUE) : wild_match(c, base)
      <4>1. PICK base \in split_subdomains(added(ins).subdomains, TRUE) : wild_match(c, base)
        BY <3>3
      <4>2. PICK i \in ins : ~skipped(i) /\ i.form = "wild" /\ base = host_of(i)
        <5>1. \A b : b \in split_subdomains(added(ins).subdomains, TRUE) <=>
                       \E i \in ins : ~skipped(i) /\ i.form = "wild" /\ b = host_of(i)
          BY CompiledSubdomains, Zenon
        <5> QED
          BY <5>1, Zenon
      <4> QED
        BY <4>1, <4>2
    <3> QED
      BY <2>2, <3>1, <3>2, <3>3
  <2>4. /\ i.form # "port" /\ i.form # "net" /\ host_of(i) = canonical_host(i.host)
        /\ host_of(i) # Raises /\ registrable_domain(host_of(i)) # <<>>
    BY <2>3, KeptHost
  <2>5. registrable_domain(host_of(i)) = registrable_domain(c)
    BY <2>3 DEF wild_match
  <2>6. h \in covered(i)
    BY <1>3, <2>3, <2>4 DEF covered
  <2> QED
    BY <2>3, <2>5, <2>6
<1> QED
  BY <1>2, <1>3

\* A host named by an identifier the draft has out of scope is not allowed,
\* also when add skipped the identifier.
LEMMA ExcludedIsHonoured ==
  ASSUME config = to_scope_config, ins \subseteq Identifier, outs \subseteq Identifier,
         NEW id \in outs, ~lost(id)
  PROVE  Honoured(id)
<1> SUFFICES ASSUME NEW h \in covered(id), allowed(verdict(h)) PROVE FALSE
  BY DEF Honoured
<1> DEFINE c == canonical_host(h)
           base == canonical_host(id.host)
<1>1. config.out_of_scope = added(outs) /\ h \in Hosts /\ c # Raises
  BY VerdictOf DEF to_scope_config, covered
<1>2. CASE id.form = "net"
  <2>1. is_ip_literal(h) /\ h[1] \in id.net
    BY <1>2 DEF covered
  <2>2. id.net \in added(outs).ip_ranges
    BY <1>2 DEF added
  <2>3. ip_refused(config, h[1])
    BY <1>1, <2>1, <2>2 DEF ip_refused, ip_in
  <2> QED
    BY <2>1, <2>3, VerdictOf, AllowedIpDecision
<1>3. CASE id.form # "net"
  <2>0. ~is_ip_literal(base) /\ id.form # "port"
    BY <1>3 DEF lost, address_inside
  <2>1. /\ ~is_ip_literal(h) /\ base # Raises
        /\ IF id.form = "wild" THEN wild_match(c, base) ELSE c = base
    <3>1. CASE id.form = "wild"
      BY <3>1 DEF covered
    <3>2. CASE id.form # "wild"
      <4>1. c = base
        BY <1>3, <3>2 DEF covered
      <4>2. is_ip_literal(h) => c = h
        BY DEF canonical_host
      <4> QED
        BY <1>1, <2>0, <3>2, <4>1, <4>2
    <3> QED
      BY <3>1, <3>2
  <2>2. host_of(id) = base
    BY <2>0 DEF host_of
  <2>3. registrable_domain(c) = registrable_domain(base)
    BY <2>1 DEF wild_match
  <2>4. registrable_domain(base) \notin Vendors \cup {<<>>}
    <3>1. PICK i \in ins : ~skipped(i) /\ registrable_domain(host_of(i)) = registrable_domain(c)
      BY <1>1, <2>1, AllowedIsCovered
    <3> QED
      BY <2>3, <3>1, KeptHost
  <2>5. ~skipped(id)
    BY <1>3, <2>1, <2>2, <2>4 DEF skipped
  <2>6. name_out_of_scope(config, c)
    <3>1. CASE id.form = "wild"
      <4>1. is_sub(id)
        BY <3>1 DEF is_sub
      <4>2. base \in split_subdomains(added(outs).subdomains, TRUE)
        BY <3>1, <2>2, <2>5, CompiledSubdomains, Zenon
      <4> QED
        BY <1>1, <2>1, <3>1, <4>2 DEF name_out_of_scope
    <3>2. CASE id.form # "wild" /\ is_sub(id)
      <4>1. base \in split_subdomains(added(outs).subdomains, FALSE)
        BY <3>2, <2>2, <2>5, CompiledSubdomains, Zenon
      <4> QED
        BY <1>1, <2>1, <3>2, <4>1 DEF name_out_of_scope
    <3>3. CASE id.form # "wild" /\ ~is_sub(id)
      <4>1. base \in canon_set(added(outs).domains)
        BY <3>3, <2>2, <2>5, CompiledDomains
      <4>2. base \in Seq(Labels)
        BY <2>1, CanonicalIsFixed DEF Identifier
      <4>3. is_subtree(c, base)
        BY <2>1, <3>3, <4>2, LenProperties DEF is_subtree, IsPrefix
      <4> QED
        BY <1>1, <4>1, <4>3 DEF name_out_of_scope
    <3> QED
      BY <3>1, <3>2, <3>3
  <2> QED
    BY <2>1, <2>6, VerdictOf, AllowedNameDecision
<1> QED
  BY <1>2, <1>3

----------------------------------------------------------------------------
(* The inductive invariant: how the draft follows the document.            *)

Entry == [id : Identifier, meant : {"in", "out", "notes", "none"}]

DraftTypeOK ==
  /\ kind \in AllKinds \cup {None}
  /\ section.says \in {"in", "out", "notes", "none"}
  /\ ins \subseteq Identifier /\ outs \subseteq Identifier
  /\ listed \subseteq Entry
  /\ kind = None => ins = {} /\ listed = {}

ConfigIsDraft == config # None => config = to_scope_config

\* What is in scope was listed, in a structured document as in scope, unless the
\* page was scraped.
InsAreListed ==
  kind # "html" =>
    \A i \in ins : \E l \in listed :
      covered(i) \subseteq covered(l.id) /\ (kind \in Structured => l.meant = "in")

\* A structured document's exclusions are out of scope, or in no list at all.
OutsAreKept == kind \in Structured => \A l \in listed : l.meant = "out" => l.id \in outs

NotesBounded == IsFiniteSet(notes) /\ Cardinality(notes) <= MaxNotes

BriefOutsAreKept ==
  kind = "brief" => \A l \in listed : l.meant = "out" =>
    \/ l.id \in outs /\ host_entry(l.id)
    \/ l.id \in notes \/ Cardinality(notes) = MaxNotes

ImportInv ==
  /\ DraftTypeOK /\ ConfigIsDraft /\ InsAreListed /\ OutsAreKept
  /\ NotesBounded /\ BriefOutsAreKept

\* A match has a host of labels.
LEMMA MatchesAreIdentifiers ==
  ASSUME NEW id \in Identifier
  PROVE  host_matches(id) \subseteq Identifier
<1> SUFFICES ASSUME NEW m \in matches(id.host)
             PROVE  match_host(id, m) \in Seq(Labels)
  BY DEF host_matches, Identifier, Forms
<1> DEFINE host == id.host
<1>1. host \in Seq(Labels) /\ Len(host) \in Nat
  BY LenProperties DEF Identifier
<1>2. /\ m[1] \in 1..Len(host) /\ m[2] \in 2..(Len(host) + 1) /\ m[1] < m[2]
      /\ Beginning[host[m[1]]] # Illegal
  BY DEF matches
<1>3. Beginning[host[m[1]]] \in Labels
  BY <1>1, <1>2, ElementOfSeq, ImporterAssumption
<1>4. SubSeq(host, m[1] + 1, m[2] - 1) \in Seq(Labels)
  <2>1. /\ m[1] + 1 \in 1..(Len(host) + 1) /\ m[2] - 1 \in 1..Len(host)
    BY <1>1, <1>2
  <2>2. \A i \in (m[1] + 1)..(m[2] - 1) : host[i] \in Labels
    BY <1>1, <2>1, ElementOfSeq
  <2> QED
    BY <1>1, <2>1, <2>2, SubSeqProperties
<1>5. (IF left(id, m) \in Labels THEN <<left(id, m)>> ELSE <<>>) \in Seq(Labels)
  OBVIOUS
<1> QED
  BY <1>3, <1>4, <1>5 DEF match_host

\* One entry taken keeps the invariant, when what is taken agrees with what is
\* meant and a brief's excluded entry is filed or noted.
LEMMA TakeKeepsDraft ==
  ASSUME ImportInv, kind \in AllKinds,
         NEW id \in Identifiers, NEW taken, NEW meant \in {"in", "out", "notes", "none"},
         Take(id, taken, meant),
         kind \in Structured => taken = meant
  PROVE  /\ DraftTypeOK' /\ ConfigIsDraft' /\ InsAreListed' /\ OutsAreKept'
         /\ \A l \in listed' : l \in listed \/ l = [id |-> id, meant |-> meant]
<1>1. id \in Identifier
  BY ImporterAssumption DEF Identifier
<1>2. /\ ins' \subseteq ins \cup {id} /\ (taken = "in" => id \in ins') /\ ins \subseteq ins'
      /\ (taken # "in" => ins' = ins)
      /\ outs' \subseteq outs \cup {id} /\ (taken = "out" => id \in outs') /\ outs \subseteq outs'
      /\ listed' = listed \cup {[id |-> id, meant |-> meant]}
      /\ UNCHANGED <<kind, section, config>> /\ config = None
  BY DEF Take, Read
<1>3. DraftTypeOK'
  BY <1>1, <1>2, ImporterAssumption DEF ImportInv, DraftTypeOK, Entry
<1>4. ConfigIsDraft'
  BY <1>2 DEF ConfigIsDraft
<1>5. InsAreListed'
  <2> SUFFICES ASSUME kind # "html", NEW i \in ins'
               PROVE  \E l \in listed' :
                        covered(i) \subseteq covered(l.id) /\ (kind \in Structured => l.meant = "in")
    BY <1>2 DEF InsAreListed, covered
  <2>1. CASE i \in ins
    BY <1>2, <2>1 DEF ImportInv, InsAreListed
  <2>2. CASE i \notin ins
    <3>1. i = id /\ taken = "in"
      BY <1>2, <2>2
    <3>2. PICK l \in listed' : l = [id |-> id, meant |-> meant]
      BY <1>2
    <3> QED
      BY <3>1, <3>2
  <2> QED
    BY <2>1, <2>2
<1>6. OutsAreKept'
  BY <1>2 DEF ImportInv, OutsAreKept
<1> QED
  BY <1>2, <1>3, <1>4, <1>5, <1>6

\* The same for an entry of a document whose parser takes no notes.
LEMMA TakeKeepsInv ==
  ASSUME ImportInv, kind \in AllKinds, kind # "brief", UNCHANGED notes,
         NEW id \in Identifiers, NEW taken, NEW meant \in {"in", "out", "notes", "none"},
         Take(id, taken, meant),
         kind \in Structured => taken = meant
  PROVE  ImportInv'
<1>1. DraftTypeOK' /\ ConfigIsDraft' /\ InsAreListed' /\ OutsAreKept'
  BY TakeKeepsDraft
<1>2. kind' = kind
  BY DEF Take, Read
<1> QED
  BY <1>1, <1>2 DEF ImportInv, NotesBounded, BriefOutsAreKept

THEOREM ImportInvariant == Spec => []ImportInv
<1>1. Init => ImportInv
  <2> SUFFICES ASSUME Init PROVE ImportInv
    OBVIOUS
  <2>1. IsFiniteSet(notes) /\ Cardinality(notes) = 0
    BY FS_EmptySet DEF Init
  <2> QED
    BY <2>1, ImporterAssumption DEF Init, ImportInv, DraftTypeOK, ConfigIsDraft, InsAreListed,
       OutsAreKept, NotesBounded, BriefOutsAreKept, TopLevel
<1>2. ImportInv /\ [Next]_vars => ImportInv'
  <2> SUFFICES ASSUME ImportInv, [Next]_vars PROVE ImportInv'
    OBVIOUS
  <2> USE DEF ImportInv
  <2>1. CASE Open
    <3>1. /\ ins' = {} /\ listed' = {} /\ kind' \in AllKinds
          /\ UNCHANGED <<section, outs, notes, config>>
          /\ config' # None => config' = to_scope_config'
      BY <2>1, ImporterAssumption DEF Open, DraftTypeOK, ConfigIsDraft, to_scope_config
    <3> QED
      BY <3>1, ImporterAssumption DEF DraftTypeOK, ConfigIsDraft, InsAreListed, OutsAreKept, NotesBounded,
         BriefOutsAreKept
  <2>2. CASE NextSection
    <3>1. UNCHANGED <<kind, ins, outs, notes, config, listed>> /\ config = None
      BY <2>2 DEF NextSection
    <3>2. section'.says \in {"in", "out", "notes", "none"}
      BY <2>2 DEF NextSection, TopLevel
    <3> QED
      BY <3>1, <3>2 DEF DraftTypeOK, ConfigIsDraft, InsAreListed, OutsAreKept, NotesBounded,
         BriefOutsAreKept, covered
  <2>3. CASE ReadStructuredScope
    <3>1. PICK id \in Identifiers, eligible \in {"in", "out"} : Take(id, eligible, eligible)
      BY <2>3 DEF ReadStructuredScope
    <3> QED
      BY <2>3, <3>1, TakeKeepsInv DEF ReadStructuredScope, AllKinds
  <2>4. CASE ReadGroupTarget
    <3>1. PICK id \in Identifiers, taken \in {"in", "out"} : Take(id, taken, taken)
      BY <2>4 DEF ReadGroupTarget
    <3> QED
      BY <2>4, <3>1, TakeKeepsInv DEF ReadGroupTarget, AllKinds
  <2>5. CASE ReadEmbeddedTarget
    <3>1. PICK id \in Identifiers, taken \in {"in", "out", "none"}, meant \in {"in", "out"} :
             Take(id, taken, meant)
      BY <2>5 DEF ReadEmbeddedTarget
    <3>2. kind = "embedded" /\ UNCHANGED notes
      BY <2>5 DEF ReadEmbeddedTarget
    <3> QED
      BY <3>1, <3>2, TakeKeepsInv DEF AllKinds, Structured
  <2>6. CASE ReadLine
    <3>1. PICK id \in Identifiers, mark \in {"in", "out"} : Take(id, mark, mark)
      BY <2>6 DEF ReadLine
    <3> QED
      BY <2>6, <3>1, TakeKeepsInv DEF ReadLine, AllKinds
  <2>7. CASE ScrapeHost
    <3>1. PICK id \in Identifiers, said \in {"in", "out"} :
            Read(id, said) /\ ins' = ins \cup host_matches(id)
      BY <2>7 DEF ScrapeHost
    <3>2. /\ kind = "html" /\ UNCHANGED <<kind, section, outs, notes, config>> /\ config = None
          /\ listed' = listed \cup {[id |-> id, meant |-> said]}
      BY <2>7, <3>1 DEF ScrapeHost, Read
    <3>3. id \in Identifier
      BY ImporterAssumption DEF Identifier
    <3>4. ins' \subseteq Identifier
      BY <3>1, <3>3, MatchesAreIdentifiers DEF DraftTypeOK
    <3>5. DraftTypeOK'
      BY <3>2, <3>3, <3>4, ImporterAssumption DEF DraftTypeOK, Entry, AllKinds
    <3> QED
      BY <3>2, <3>5 DEF ConfigIsDraft, InsAreListed, OutsAreKept, NotesBounded, BriefOutsAreKept,
         Structured
  <2>8. CASE ReadBriefLine
    <3> DEFINE taken(id) == IF section.says \in {"in", "out"} /\ host_entry(id)
                            THEN section.says ELSE "none"
    <3>1. PICK id \in Identifiers :
            /\ Take(id, taken(id), section.says)
            /\ notes' = IF ~(section.says \in {"in", "out"} /\ host_entry(id)) /\ noted(id)
                        THEN notes \cup {id} ELSE notes
      BY <2>8 DEF ReadBriefLine
    <3>2. kind = "brief" /\ section.says \in {"in", "out", "notes", "none"}
      BY <2>8 DEF ReadBriefLine, DraftTypeOK
    <3>3. /\ DraftTypeOK' /\ ConfigIsDraft' /\ InsAreListed' /\ OutsAreKept'
          /\ \A l \in listed' : l \in listed \/ l = [id |-> id, meant |-> section.says]
      <4> HIDE DEF ImportInv, taken
      <4> QED
        BY <3>1, <3>2, TakeKeepsDraft DEF AllKinds, Structured
    <3>4. /\ IsFiniteSet(notes) /\ Cardinality(notes) \in Nat /\ Cardinality(notes) <= MaxNotes
          /\ MaxNotes \in Nat
      BY FS_CardinalityType, ImporterAssumption DEF NotesBounded
    <3>5. NotesBounded' /\ (Cardinality(notes) = MaxNotes => notes' = notes)
      <4>1. CASE notes' = notes
        BY <3>4, <4>1 DEF NotesBounded
      <4>2. CASE notes' # notes
        <5>1. notes' = notes \cup {id} /\ Cardinality(notes) < MaxNotes
          BY <3>1, <4>2 DEF noted
        <5>2. IsFiniteSet(notes') /\ Cardinality(notes') <= Cardinality(notes) + 1
          BY <3>4, <5>1, FS_AddElement
        <5>3. Cardinality(notes') \in Nat
          BY <5>2, FS_CardinalityType
        <5> QED
          BY <3>4, <5>1, <5>2, <5>3 DEF NotesBounded
      <4> QED
        BY <4>1, <4>2
    <3>6. BriefOutsAreKept'
      <4>1. outs \subseteq outs' /\ notes \subseteq notes' /\ kind' = kind
            /\ (taken(id) = "out" => id \in outs')
        BY <3>1 DEF Take, Read
      <4> SUFFICES ASSUME NEW l \in listed', l.meant = "out"
                   PROVE  \/ l.id \in outs' /\ host_entry(l.id)
                          \/ l.id \in notes' \/ Cardinality(notes') = MaxNotes
        BY DEF BriefOutsAreKept
      <4>2. CASE l \in listed
        BY <3>2, <3>5, <4>1, <4>2 DEF BriefOutsAreKept
      <4>3. CASE l = [id |-> id, meant |-> section.says]
        <5>1. section.says = "out" /\ l.id = id
          BY <4>3
        <5>2. CASE host_entry(id)
          BY <4>1, <5>1, <5>2
        <5>3. CASE ~host_entry(id)
          BY <3>1, <3>4, <3>5, <5>1, <5>3 DEF noted
        <5> QED
          BY <5>2, <5>3
      <4> QED
        BY <3>3, <4>2, <4>3
    <3> QED
      BY <3>3, <3>5, <3>6
  <2>9. CASE FallBack
    <3>1. /\ kind' = "html" /\ section'.says = "none" /\ outs' = {} /\ config' = None
          /\ notes' = notes /\ listed' = listed
      BY <2>9 DEF FallBack, TopLevel
    <3>2. \A i \in ins' : \E l \in listed : i \in host_matches(l.id)
      BY <2>9 DEF FallBack
    <3>3. DraftTypeOK'
      <4>1. \A l \in listed : l.id \in Identifier
        BY DEF DraftTypeOK, Entry
      <4>2. ins' \subseteq Identifier
        BY <3>2, <4>1, MatchesAreIdentifiers
      <4> QED
        BY <3>1, <4>2, ImporterAssumption DEF DraftTypeOK, AllKinds
    <3>4. InsAreListed'
      BY <3>1 DEF InsAreListed
    <3> QED
      BY <3>1, <3>3, <3>4 DEF ConfigIsDraft, OutsAreKept, NotesBounded, BriefOutsAreKept, Structured
  <2>10. CASE Finish
    <3>1. UNCHANGED <<kind, section, ins, outs, notes, listed>> /\ config' = to_scope_config
      BY <2>10 DEF Finish
    <3>2. ConfigIsDraft'
      BY <3>1 DEF ConfigIsDraft, to_scope_config
    <3> QED
      BY <3>1, <3>2 DEF DraftTypeOK, InsAreListed, OutsAreKept, NotesBounded, BriefOutsAreKept,
         covered
  <2>11. CASE Reset
    <3>1. IsFiniteSet({}) /\ Cardinality({}) = 0
      BY FS_EmptySet
    <3> QED
      BY <2>11, <3>1, ImporterAssumption DEF Reset, DraftTypeOK, ConfigIsDraft, InsAreListed,
         OutsAreKept, NotesBounded, BriefOutsAreKept, TopLevel
  <2>12. CASE UNCHANGED vars
    BY <2>12 DEF vars, DraftTypeOK, ConfigIsDraft, InsAreListed, OutsAreKept, NotesBounded,
       BriefOutsAreKept, covered, to_scope_config
  <2> QED
    BY <2>1, <2>2, <2>3, <2>4, <2>5, <2>6, <2>7, <2>8, <2>9, <2>10, <2>11, <2>12
       DEF Next, Refuse, Exit
<1> QED
  BY <1>1, <1>2, PTL DEF Spec

----------------------------------------------------------------------------
(* The theorems.                                                           *)

\* The file the importer writes is one the matcher compiles, whatever was in
\* the document: what cannot be canonicalized was skipped, and what was kept is
\* its own canonical form.
THEOREM ImportedDraftCompiles == Spec => []DraftCompiles
<1>1. ImportInv => DraftCompiles
  <2> SUFFICES ASSUME ImportInv, Done, NEW h \in scope_entries(config) PROVE canonical_host(h) # Raises
    BY DEF DraftCompiles, matcher_raises
  <2>1. config = to_scope_config /\ ins \cup outs \subseteq Identifier
    BY DEF ImportInv, ConfigIsDraft, DraftTypeOK, Done
  <2>2. \/ h \in added(ins).domains \/ \E f \in added(ins).subdomains : h = f.host
        \/ h \in added(outs).domains \/ \E f \in added(outs).subdomains : h = f.host
    BY <2>1 DEF scope_entries, to_scope_config
  <2>3. PICK i \in ins \cup outs : ~skipped(i) /\ h = host_of(i)
    BY <2>2 DEF added
  <2> QED
    BY <2>1, <2>3, KeptHost
<1> QED
  BY <1>1, ImportInvariant, PTL

\* A draft read entry by entry has nothing in scope the document does not name.
THEOREM ImporterInventsNothing == Spec => []NothingInvented
<1>1. ImportInv => NothingInvented
  <2> SUFFICES ASSUME ImportInv, Done, kind # "html", NEW h \in Hosts, allowed(verdict(h))
               PROVE  \E l \in listed :
                        h \in covered(l.id) /\ (kind \in Structured => l.meant = "in")
    BY DEF NothingInvented
  <2>1. config = to_scope_config /\ ins \subseteq Identifier
    BY DEF ImportInv, ConfigIsDraft, DraftTypeOK, Done
  <2>2. PICK i \in ins : h \in covered(i)
    BY <2>1, AllowedIsCovered
  <2> QED
    BY <2>2 DEF ImportInv, InsAreListed
<1> QED
  BY <1>1, ImportInvariant, PTL

\* What a structured document excludes, the gate denies under its draft, but for
\* a host:port and an address in a URL.
THEOREM ImporterHonoursExclusions == Spec => []StructuredExclusionsHonoured
<1>1. ImportInv => StructuredExclusionsHonoured
  <2> SUFFICES ASSUME ImportInv, Done, kind \in Structured,
                      NEW l \in listed, l.meant = "out", ~lost(l.id)
               PROVE  Honoured(l.id)
    BY DEF StructuredExclusionsHonoured
  <2>1. config = to_scope_config /\ ins \subseteq Identifier /\ outs \subseteq Identifier
    BY DEF ImportInv, ConfigIsDraft, DraftTypeOK, Done
  <2>2. l.id \in outs
    BY DEF ImportInv, OutsAreKept
  <2> QED
    BY <2>1, <2>2, ExcludedIsHonoured
<1> QED
  BY <1>1, ImportInvariant, PTL

\* What a brief excludes is denied, or quoted in the notes, or the notes are full,
\* but for a host:port.
THEOREM BriefExclusionsAreSeen == Spec => []BriefExclusionsSeen
<1>1. ImportInv => BriefExclusionsSeen
  <2> SUFFICES ASSUME ImportInv, Done, kind = "brief",
                      NEW l \in listed, l.meant = "out", l.id.form # "port"
               PROVE  Honoured(l.id) \/ l.id \in notes \/ Cardinality(notes) = MaxNotes
    BY DEF BriefExclusionsSeen
  <2>1. config = to_scope_config /\ ins \subseteq Identifier /\ outs \subseteq Identifier
    BY DEF ImportInv, ConfigIsDraft, DraftTypeOK, Done
  <2>2. \/ l.id \in outs /\ host_entry(l.id)
        \/ l.id \in notes \/ Cardinality(notes) = MaxNotes
    BY DEF ImportInv, BriefOutsAreKept
  <2>3. host_entry(l.id) => ~lost(l.id)
    BY DEF host_entry, lost
  <2> QED
    BY <2>1, <2>2, <2>3, ExcludedIsHonoured
<1> QED
  BY <1>1, ImportInvariant, PTL
=============================================================================
