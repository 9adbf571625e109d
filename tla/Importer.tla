------------------------------ MODULE Importer ------------------------------
(***************************************************************************)
(* The importer (importer/core.py): a program's page, JSON or brief is     *)
(* read entry by entry into a draft scope file, which the gate of          *)
(* ScopeRules then obeys.  The document is whatever its author writes: the *)
(* next entry is chosen as it is read, with where it stands in the         *)
(* document and how it is marked, so a behaviour is a document.            *)
(*                                                                         *)
(* An identifier is [form, host, net]: "name" a host, "wild" a wildcard    *)
(* over it, "url" a URL of it, "port" the host with a port, "net" an       *)
(* address or CIDR.  Spaces and the words around it are left out, a path   *)
(* only makes a URL of an address, and the dates and rates of a brief's    *)
(* front matter are left out too.                                          *)
(***************************************************************************)
EXTENDS ScopeRules, FiniteSets

CONSTANTS
  Identifiers,  \* what an entry may name
  Kinds,        \* the documents imported: of AllKinds
  Hosts,        \* the names and addresses the gate is asked about afterwards
  Vendors,      \* the registrable domains _denylisted refuses
  Ending,       \* label -> the end of it _HOST_RE takes: all of it, a part, Star or Illegal
  Beginning,    \* label -> the letters it begins with, Illegal when fewer than two
  Star,         \* what is left of a label that ends in an asterisk
  MaxNotes,     \* notes a brief keeps (80 in the code)
  MaxEntries    \* bound: entries of a document

AllKinds == {"hackerone", "bugcrowd", "embedded", "plaintext", "html", "brief"}

Forms == {"name", "wild", "url", "port", "net"}

ASSUME ImporterAssumption ==
  /\ Kinds \subseteq AllKinds /\ None \notin AllKinds
  /\ Identifiers \subseteq [form : Forms, host : Seq(Labels), net : SUBSET Ips]
  /\ \A id \in Identifiers : /\ id.form = "net" => id.host = <<>>
                            /\ is_ip_literal(id.host) => id.form \in {"url", "port"}
  /\ Star \notin Labels \cup {Illegal}
  /\ Ending \in [Labels -> Labels \cup {Illegal, Star}]
  /\ Beginning \in [Labels -> Labels \cup {Illegal}]
  /\ MaxNotes \in Nat /\ MaxEntries \in Nat

VARIABLES
  kind,     \* the parser of this import, None between imports
  section,  \* where it stands: [says, how], in a group or under a heading
  ins,      \* identifiers handed to ScopeDraft.add with in_scope true
  outs,     \* the same with in_scope false
  notes,    \* the draft's notes: the identifiers they quote
  config,   \* the imported ScopeConfig, None before and when refused
  listed    \* history: the entries read, [id, meant]

vars == <<kind, section, ins, outs, notes, config, listed>>

----------------------------------------------------------------------------
(* ScopeDraft.                                                             *)

\* Mutant: the host is kept as it is written.
host_of_raw(id) == id.host

\* canonical_host refuses host:port.
host_of(id) == IF id.form = "port" THEN Raises ELSE canonical_host(id.host)

\* add skips, with a warning nobody is shown, what cannot be canonicalized, has
\* no registrable domain (an address in a URL too) or is a platform's.
skipped(id) ==
  \/ id.form = "net"
  \/ host_of(id) = Raises
  \/ registrable_domain(host_of(id)) \in Vendors \cup {<<>>}

\* Mutant: a wildcard over a registrable domain is filed under domains.
is_sub_apex(id) == registrable_domain(host_of(id)) # host_of(id)

is_sub(id) == id.form = "wild" \/ registrable_domain(host_of(id)) # host_of(id)

\* What ScopeDraft.add makes of the identifiers it got for one half of the file.
added(ids) ==
  LET hosts == {id \in ids : ~skipped(id)}
  IN  [domains    |-> {host_of(id) : id \in {i \in hosts : ~is_sub(i)}},
       subdomains |-> {[wildcard |-> id.form = "wild", host |-> host_of(id)] :
                         id \in {i \in hosts : is_sub(i)}},
       ip_ranges  |-> {id.net : id \in {i \in ids : i.form = "net"}}]

EmptyPart == [domains |-> {}, subdomains |-> {}, ip_ranges |-> {}]

to_scope_config ==
  [authorized |-> FALSE, active_actions_allowed |-> FALSE,
   authorized_until |-> None, last_verified_at |-> None,
   in_scope |-> added(ins), out_of_scope |-> added(outs), ip_ranges_mode |-> "boundary"]

----------------------------------------------------------------------------
(* Reading.                                                                *)

TopLevel == [says |-> "none", how |-> "none"]

Init ==
  /\ kind = None /\ section = TopLevel
  /\ ins = {} /\ outs = {} /\ notes = {}
  /\ config = None /\ listed = {}

\* import_from_file and import_from_url sniff which parser the text is for.
Open ==
  /\ kind = None
  /\ kind' \in Kinds
  /\ UNCHANGED <<section, ins, outs, notes, config, listed>>

\* A Bugcrowd group, a heading of a brief, a list inside embedded JSON: it says
\* in or out by a flag of its own, or by the key it is filed under.  One that
\* says nothing is read as the top level is.
NextSection ==
  /\ kind \in {"bugcrowd", "embedded", "brief"} /\ config = None
  /\ section' \in {TopLevel} \cup
       CASE kind = "bugcrowd" -> [says : {"in", "out"}, how : {"flag"}]
         [] kind = "embedded" -> [says : {"in", "out"}, how : {"flag", "key"}]
         [] OTHER -> [says : {"in", "out", "notes"}, how : {"heading"}]
  /\ UNCHANGED <<kind, ins, outs, notes, config, listed>>

\* The text goes on with one more entry.
Read(id, meant) ==
  /\ config = None /\ Cardinality(listed) < MaxEntries
  /\ listed' = listed \cup {[id |-> id, meant |-> meant]}
  /\ UNCHANGED <<kind, section, config>>

\* One entry goes to the draft as `taken` ("in", "out", or "none" of the two).
Take(id, taken, meant) ==
  /\ Read(id, meant)
  /\ ins' = IF taken = "in" THEN ins \cup {id} ELSE ins
  /\ outs' = IF taken = "out" THEN outs \cup {id} ELSE outs

\* parse_hackerone: eligible_for_submission, true when absent.  The instruction it
\* keeps as a note of an ineligible one quotes no identifier and is left out.
ReadStructuredScope ==
  /\ kind = "hackerone"
  /\ \E id \in Identifiers, eligible \in {"in", "out"} : Take(id, eligible, eligible)
  /\ UNCHANGED notes

\* Mutant: a group's targets are in scope whatever it says.
ReadGroupTarget_in ==
  /\ kind = "bugcrowd"
  /\ \E id \in Identifiers :
       Take(id, "in", IF section.says = "out" THEN "out" ELSE "in")
  /\ UNCHANGED notes

\* parse_bugcrowd: the group's in_scope flag, true when absent.
ReadGroupTarget ==
  /\ kind = "bugcrowd"
  /\ \E id \in Identifiers : \E taken \in {IF section.says = "out" THEN "out" ELSE "in"} :
       Take(id, taken, taken)
  /\ UNCHANGED notes

\* _targets_from_json: a target's own flag, or what its list's KEY says; a flag
\* of the enclosing group is not inherited.  Without any signal it is no target.
ReadEmbeddedTarget ==
  /\ kind = "embedded"
  /\ \E id \in Identifiers, own \in {"in", "out", "none"}, signal \in BOOLEAN :
       LET says == IF own # "none" THEN own ELSE IF section.says = "out" THEN "out" ELSE "in"
       IN  Take(id,
                CASE own # "none" -> own
                  [] own = "none" /\ ~signal -> "none"
                  [] own = "none" /\ signal /\ section.how = "key" -> says
                  [] OTHER -> "in",
                says)
  /\ UNCHANGED notes

\* _parse_plaintext: one target a line, ! for an exclusion.
ReadLine ==
  /\ kind = "plaintext"
  /\ \E id \in Identifiers, mark \in {"in", "out"} : Take(id, mark, mark)
  /\ UNCHANGED notes

whole(label) == Ending[label] = label

\* Where _HOST_RE matches inside a host, as <<top, end>>: it has no boundaries,
\* so a match reaches up to the beginning of the topmost label it can, and down
\* through whole labels to one it takes only the end of, or to the end of all.
matches(host) ==
  LET n == Len(host)
  IN  {m \in (1..n) \X (2..(n + 1)) :
         /\ Beginning[host[m[1]]] # Illegal
         /\ \A k \in (m[1] + 1)..(m[2] - 1) : whole(host[k])
         /\ m[1] < m[2]
         /\ m[2] <= n => ~whole(host[m[2]])
         /\ ~ \E t \in 1..(m[1] - 1) :
                Beginning[host[t]] # Illegal /\ \A k \in (t + 1)..m[1] : whole(host[k])}

\* What a match takes of the label it ends in, or of the asterisk before them all.
left(id, m) ==
  IF m[2] <= Len(id.host) THEN Ending[id.host[m[2]]] ELSE IF id.form = "wild" THEN Star ELSE Illegal

match_host(id, m) ==
  <<Beginning[id.host[m[1]]]>> \o SubSeq(id.host, m[1] + 1, m[2] - 1)
    \o (IF left(id, m) \in Labels THEN <<left(id, m)>> ELSE <<>>)

\* What findall makes of an identifier, a port and a scheme left behind: hosts
\* of at least two labels.  my_api.shop.com gives api.shop.com, and
\* api-*.shop.com gives *.shop.com.
host_matches(id) ==
  {[form |-> IF left(id, m) = Star THEN "wild" ELSE "name", host |-> match_host(id, m), net |-> {}] :
     m \in {p \in matches(id.host) : Len(match_host(id, p)) > 1}}

\* _parse_html_best_effort: every match in the text, whatever is said of it.
ScrapeHost ==
  /\ kind = "html"
  /\ \E id \in Identifiers, said \in {"in", "out"} :
       Read(id, said) /\ ins' = ins \cup host_matches(id)
  /\ UNCHANGED <<outs, notes>>

\* An address in a URL, with a port, a path or a trailing dot: to the importer
\* neither an address nor a host with a suffix.
address_inside(id) == id.form # "net" /\ is_ip_literal(canonical_host(id.host))

\* _HOST_ENTRY_RE knows ports and paths, but no scheme, and no address with
\* either; an address or CIDR alone is one.
host_entry(id) == id.form # "url" /\ ~address_inside(id)

\* Mutant: notes are taken under the headings of rules only.
noted_rules(id) == section.says = "notes" /\ Cardinality(notes) < MaxNotes

\* A line that is no host entry becomes a note outside an in-scope section, as
\* long as there is room (add_note).
noted(id) == section.says \in {"out", "notes"} /\ Cardinality(notes) < MaxNotes

\* parse_brief: a line of a section that is nothing but one identifier.
ReadBriefLine ==
  /\ kind = "brief" /\ section.says # "none"
  /\ \E id \in Identifiers :
       LET entry == section.says \in {"in", "out"} /\ host_entry(id)
       IN  /\ Take(id, IF entry THEN section.says ELSE "none", section.says)
           /\ notes' = IF ~entry /\ noted(id) THEN notes \cup {id} ELSE notes

\* Embedded data that gave nothing in scope: the page is scraped instead, the
\* names inside the embedded data included, and everything found is in scope.
FallBack ==
  /\ kind = "embedded" /\ config = None /\ added(ins) = EmptyPart
  /\ kind' = "html" /\ section' = TopLevel
  /\ ins' = UNION {host_matches(l.id) : l \in listed}
  /\ outs' = {}
  /\ UNCHANGED <<notes, config, listed>>

\* The text ends and something is in scope: the draft becomes a ScopeConfig.
Finish ==
  /\ kind # None /\ config = None
  /\ added(ins) # EmptyPart
  /\ config' = to_scope_config
  /\ UNCHANGED <<kind, section, ins, outs, notes, listed>>

Reset ==
  /\ kind' = None /\ section' = TopLevel
  /\ ins' = {} /\ outs' = {} /\ notes' = {}
  /\ config' = None /\ listed' = {}

\* Nothing in scope: ImportError_ rather than an empty scope.
Refuse ==
  /\ kind \notin {None, "embedded"} /\ config = None
  /\ added(ins) = EmptyPart
  /\ Reset

\* The draft is written to scope.yaml and the command ends.
Exit == config # None /\ Reset

Next ==
  \/ Open \/ NextSection
  \/ ReadStructuredScope \/ ReadGroupTarget \/ ReadEmbeddedTarget \/ ReadLine \/ ScrapeHost
  \/ ReadBriefLine
  \/ FallBack \/ Finish \/ Refuse \/ Exit

Spec == Init /\ [][Next]_vars

----------------------------------------------------------------------------
(* Properties.                                                             *)

Done == config # None

verdict(h) == decide(config, [form |-> "bare", host |-> h], <<>>)

\* The hosts an identifier names, to a reader of the document (a wildcard over
\* a bare suffix names none).
covered(id) ==
  LET base == canonical_host(id.host)
  IN  {h \in Hosts :
         CASE id.form = "net" -> is_ip_literal(h) /\ h[1] \in id.net
           [] id.form = "wild" -> /\ base # Raises /\ registrable_domain(base) # <<>>
                                  /\ ~is_ip_literal(h) /\ wild_match(canonical_host(h), base)
           [] OTHER -> canonical_host(h) = base}

Structured == {"hackerone", "bugcrowd", "plaintext"}

\* Every command loads the file the importer wrote: the matcher compiles it.
\* One entry it could not canonicalize would stop them all.
DraftCompiles == Done => ~matcher_raises(config)

\* What is read entry by entry invents nothing: whatever the gate allows under
\* the draft is named by an entry of the document, in a structured one by an
\* entry it marks as in scope; an apex is not named by its wildcard.  A scraped
\* page is excepted: there the pattern matches inside words (core.py:287), and a
\* page that names my_api.shop.com only has api.shop.com allowed.
NothingInvented ==
  Done /\ kind # "html" =>
    \A h \in Hosts : allowed(verdict(h)) =>
      \E l \in listed : h \in covered(l.id) /\ (kind \in Structured => l.meant = "in")

Honoured(id) == \A h \in covered(id) : ~allowed(verdict(h))

\* What add skips whichever list it is for, though a reader sees a host: one with
\* a port, which cannot be canonicalized, and an address in a URL or with a path,
\* which has no registrable domain.
lost(id) == id.form = "port" \/ address_inside(id)

\* Exclusions survive the import, with two exceptions: no host a structured
\* document names as out of scope is allowed by the gate under the draft,
\* whichever list the importer filed it in, also when it skipped the entry (a
\* platform's domain, no valid suffix) and whatever else the document has in
\* scope.  An excluded host:port and an excluded address in a URL are lost, and
\* a wildcard or range beside them still allows what they name (add).
StructuredExclusionsHonoured ==
  Done /\ kind \in Structured =>
    \A l \in listed : l.meant = "out" /\ ~lost(l.id) => Honoured(l.id)

\* A brief's exclusion line is denied, or its human reader finds it among the
\* notes, a URL of an address too; but a host:port is lost, and so is a line
\* that is no host entry once the notes are full (add_note stops at 80).
BriefExclusionsSeen ==
  Done /\ kind = "brief" =>
    \A l \in listed : l.meant = "out" /\ l.id.form # "port" =>
      Honoured(l.id) \/ l.id \in notes \/ Cardinality(notes) = MaxNotes

\* core.py:5 says everything fails closed; a target the document lists as out
\* of scope, and which add would not lose, is imported as in scope.
ExclusionsHonoured ==
  Done => \A l \in listed : l.meant = "out" /\ ~lost(l.id) => Honoured(l.id)
=============================================================================
