------------------------------ MODULE ScopeGate ------------------------------
(***************************************************************************)
(* The scope gate in use: the operator edits scope.yaml an entry at a      *)
(* time, and any command loads the file as it is then and decides one atom *)
(* (bbagent verify-scope, Kernel.scope_check).                             *)
(***************************************************************************)
EXTENDS ScopeRules, FiniteSets

CONSTANTS
  Atoms,          \* atoms handed to the gate
  Pins,           \* the address sequences an atom may be pinned to
  InEntries,      \* entries an in_scope section may have: [domains, subdomains, ip_ranges]
  OutEntries,     \* the same for out_of_scope
  MaxInEntries,   \* bound: entries of in_scope in the file at once
  MaxOutEntries   \* bound: entries of out_of_scope in the file at once

ASSUME AtomsAssumption ==
  /\ \A atom \in Atoms : atom.form \in {"bare", "url", "badurl"} /\ atom.host \in Seq(Labels)
  /\ \A ips \in Pins : ips \in Seq(Ips)
  /\ \A h \in InEntries.domains \cup OutEntries.domains : h \in Seq(Labels)
  /\ \A e \in InEntries.subdomains \cup OutEntries.subdomains :
        e.wildcard \in BOOLEAN /\ e.host \in Seq(Labels)

VARIABLES
  scope,  \* the scope file
  last    \* the last decision: [atom, ips, decision], or None

vars == <<scope, last>>

Sections == {"domains", "subdomains", "ip_ranges"}

size(part) == Cardinality(part.domains) + Cardinality(part.subdomains) + Cardinality(part.ip_ranges)

Init ==
  /\ scope = [in_scope       |-> [s \in Sections |-> {}],
              out_of_scope   |-> [s \in Sections |-> {}],
              ip_ranges_mode |-> "boundary"]
  /\ last = None

\* Between commands the operator adds an entry to a section, takes one out,
\* or changes the mode.
AddEntry ==
  /\ last = None
  /\ \E s \in Sections :
       \/ /\ size(scope.in_scope) < MaxInEntries
          /\ \E e \in InEntries[s] : scope' = [scope EXCEPT !.in_scope[s] = @ \cup {e}]
       \/ /\ size(scope.out_of_scope) < MaxOutEntries
          /\ \E e \in OutEntries[s] : scope' = [scope EXCEPT !.out_of_scope[s] = @ \cup {e}]
  /\ UNCHANGED last

RemoveEntry ==
  /\ last = None
  /\ \E s \in Sections :
       \/ \E e \in scope.in_scope[s] : scope' = [scope EXCEPT !.in_scope[s] = @ \ {e}]
       \/ \E e \in scope.out_of_scope[s] : scope' = [scope EXCEPT !.out_of_scope[s] = @ \ {e}]
  /\ UNCHANGED last

SetIpRangesMode ==
  /\ last = None
  /\ \E mode \in {"boundary", "additional"} :
        scope' = [scope EXCEPT !.ip_ranges_mode = mode]
  /\ UNCHANGED last

\* A command builds the matcher, which refuses the file as a whole when any
\* entry is not canonical, decides one atom, and ends.
Check ==
  /\ last = None
  /\ ~matcher_raises(scope)
  /\ \E atom \in Atoms, ips \in Pins :
        last' = [atom |-> atom, ips |-> ips, decision |-> decide(scope, atom, ips)]
  /\ UNCHANGED scope

Exit ==
  /\ last # None
  /\ last' = None
  /\ UNCHANGED scope

Next == AddEntry \/ RemoveEntry \/ SetIpRangesMode \/ Check \/ Exit

Spec == Init /\ [][Next]_vars

----------------------------------------------------------------------------
Codes == {"in_scope_exact", "in_scope_wildcard", "in_scope_ip", "out_of_scope",
          "unverified", "private_ip", "parse_error", "ip_boundary_miss"}

\* The scope file keeps its shape and every decision is one the gate can give.
TypeOK ==
  /\ scope.ip_ranges_mode \in {"boundary", "additional"}
  /\ \A s \in Sections : /\ scope.in_scope[s] \subseteq InEntries[s]
                         /\ scope.out_of_scope[s] \subseteq OutEntries[s]
  /\ last # None => /\ last.atom \in Atoms
                    /\ last.ips \in Pins
                    /\ last.decision.verdict \in {"ALLOW", "DENY_HALT"}
                    /\ last.decision.reason_code \in Codes

AllowedIp == last # None /\ allowed(last.decision) /\ last.decision.reason_code = "in_scope_ip"

AllowedName == last # None /\ allowed(last.decision) /\ ~AllowedIp

\* The names on the way from a host up to the root, itself included.
Ancestors(host) == {SubSeq(host, 1, n) : n \in 1..Len(host)}

\* Exclusion as an operator reads it, from the host's side.
Excluded(host) ==
  \/ \E d \in scope.out_of_scope.domains : canonical_host(d) \in Ancestors(host)
  \/ \E e \in scope.out_of_scope.subdomains :
        IF e.wildcard
        THEN /\ canonical_host(e.host) \in Ancestors(host) \ {host}
             /\ registrable_domain(host) = registrable_domain(canonical_host(e.host))
        ELSE canonical_host(e.host) = host

\* An exclusion wins over every inclusion: no atom, however it is spelled
\* (case, trailing dot, URL), is allowed when its name is excluded
\* (_decide_inner asks _name_out_of_scope before _name_in_scope).
OutOfScopeWins == AllowedName => ~Excluded(last.decision.canonical_host)

\* No private address and none of an excluded range.
Clean(ip) ==
  ip \notin PrivateIps /\ \A net \in scope.out_of_scope.ip_ranges : ip \notin net

\* No private or excluded address is behind an allowed name or an allowed bare
\* address: every one of those a name is pinned to is clean, and so is the
\* address itself (_check_resolved_ips, _ip_decision).  The code does not keep
\* this for an address inside a URL (matcher.py:8 promises it for every atom):
\* it is decided as a name, by no range and no private check, and allowed
\* where, and only where, in_scope lists that very address among its hosts.
AddressesClean ==
  /\ AllowedName => \A ip \in Range(last.ips) : Clean(ip)
  /\ AllowedIp => Clean(last.atom.host[1])
  /\ AllowedName /\ is_ip_literal(last.decision.canonical_host) =>
       \E h \in scope.in_scope.domains
                  \cup {e.host : e \in {f \in scope.in_scope.subdomains : ~f.wildcard}} :
         canonical_host(h) = last.decision.canonical_host

\* A wildcard never reaches past the registrable domain it was written for:
\* an allowed name has the registrable domain of some in_scope entry, even
\* where the entry's base is itself a public suffix (_wild_match).
StaysInsideRegistrableDomain ==
  AllowedName =>
    \E h \in scope.in_scope.domains \cup {e.host : e \in scope.in_scope.subdomains} :
       registrable_domain(canonical_host(h)) = registrable_domain(last.decision.canonical_host)

\* Labels are the same when their canonical forms are; a label that has none is
\* only itself.
SameLabel(a, b) == a = b \/ (CanonLabel[a] = CanonLabel[b] /\ CanonLabel[a] # Illegal)

\* Two spellings of one name: trailing dots and the canonical form of labels.
SameName(g, h) ==
  \E k \in 0..Len(g) :
    /\ \A i \in 1..k : g[i] = EmptyLabel
    /\ Len(g) - k = Len(h)
    /\ \A i \in DOMAIN h : SameLabel(h[i], g[k + i])

IsName(atom) == atom.form # "badurl" /\ canonical_target(atom).kind # "ip"

\* The spelling of a name never changes its verdict: a URL, another case or a
\* trailing dot is decided as the bare canonical name is (canonical_target).
SpellingIrrelevant ==
  last # None /\ IsName(last.atom) =>
    \A other \in Atoms :
      IsName(other) /\ SameName(last.atom.host, other.host)
        => decide(scope, other, last.ips) = last.decision

AllowedAtoms(cfg) ==
  {p \in Atoms \X Pins : allowed(decide(cfg, p[1], p[2]))}

OnlyExcludesMore(old, new) ==
  /\ new.in_scope = old.in_scope /\ new.ip_ranges_mode = old.ip_ranges_mode
  /\ \A s \in Sections : old.out_of_scope[s] \subseteq new.out_of_scope[s]

\* Writing one more exclusion in the file never turns a denied atom into an
\* allowed one, whatever else is in the file.
ExclusionsOnlyNarrow ==
  [][OnlyExcludesMore(scope, scope') /\ scope' # scope
       => AllowedAtoms(scope') \subseteq AllowedAtoms(scope)]_vars
=============================================================================
