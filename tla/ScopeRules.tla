----------------------------- MODULE ScopeRules -----------------------------
(***************************************************************************)
(* Tier 1 of the gate: is one target atom inside the authorized scope?     *)
(*                                                                         *)
(* A host name is the sequence of its labels, ROOT FIRST:                  *)
(* "a.shop.com" is <<"com", "shop", "a">>, so "is in the subtree of" is    *)
(* "has as a prefix", and a trailing dot is a leading empty label.  An IP  *)
(* literal is the one-element sequence <<ip>>.  Operators keep the names   *)
(* they have in scope/canonical.py, scope/matcher.py and scope/models.py.  *)
(***************************************************************************)
EXTENDS Integers, Sequences, SequencesExt

CONSTANTS
  Labels,          \* labels as they can be written, in a scope file or an atom
  EmptyLabel,      \* the label between two dots, or after a trailing one
  Ips,             \* IP literals; each is also a label
  PrivateIps,      \* the literals private_deny_reason refuses
  Illegal,         \* what a label that cannot be canonicalized maps to
  CanonLabel,      \* label -> its NFC, lower-case, punycode form, or Illegal
  PublicSuffixes,  \* the suffixes of the bundled public suffix list
  MaxVerifyAge,    \* is_stale's max_verify_age_days
  None             \* Python's None

ASSUME LabelsAssumption ==
  /\ Ips \subseteq Labels
  /\ PrivateIps \subseteq Ips
  /\ EmptyLabel \in Labels \ Ips
  /\ Illegal \notin Labels
  /\ CanonLabel \in [Labels -> Labels \cup {Illegal}]
  /\ CanonLabel[EmptyLabel] = Illegal
  /\ \A ip \in Ips : CanonLabel[ip] = ip
  /\ \A l \in Labels :
        CanonLabel[l] # Illegal => CanonLabel[CanonLabel[l]] = CanonLabel[l]

ASSUME SuffixesAssumption == PublicSuffixes \subseteq Seq(Labels) \ {<<>>}

ASSUME ClockAssumption == MaxVerifyAge \in Nat /\ None \notin Int

----------------------------------------------------------------------------
(* Canonicalization.  A Python exception is the value Raises, which no     *)
(* canonical host equals.                                                  *)

Raises == <<>>

is_ip_literal(host) == Len(host) = 1 /\ host[1] \in Ips

\* Mutant: trailing dots stay.
rstrip_dots_kept(host) == host

\* host.rstrip("."): every leading empty label goes.
rstrip_dots(host) ==
  LET dots == {k \in 0..Len(host) : \A i \in 1..k : host[i] = EmptyLabel}
  IN  SubSeq(host, Max(dots) + 1, Len(host))

canonical_host(host) ==
  IF is_ip_literal(host)
  THEN host
  ELSE LET h == rstrip_dots(host)
           out_labels == [i \in 1..Len(h) |-> CanonLabel[h[i]]]
       IN  IF \E i \in DOMAIN out_labels : out_labels[i] = Illegal
           THEN Raises
           ELSE out_labels

\* An atom is [form, host]: "bare" is a host or an IP, "url" an http(s) URL
\* with that host, "badurl" a URL whose scheme is another or missing.
\* canonical_target returns [kind, canon]; canon = Raises when it raises.
canonical_target(atom) ==
  CASE atom.form = "badurl" -> [kind |-> "url", canon |-> Raises]
    [] atom.form = "url"    -> [kind |-> "url", canon |-> canonical_host(atom.host)]
    [] OTHER -> [kind  |-> IF is_ip_literal(atom.host) THEN "ip" ELSE "domain",
                 canon |-> canonical_host(atom.host)]

----------------------------------------------------------------------------
(* Names.                                                                  *)

\* The label above the longest public suffix of host; <<>> when there is none.
registrable_domain(host) ==
  LET suffixes == {s \in PublicSuffixes : IsPrefix(s, host)}
      longest  == CHOOSE s \in suffixes : \A t \in suffixes : Len(t) <= Len(s)
  IN  IF suffixes = {} \/ longest = host
      THEN <<>>
      ELSE SubSeq(host, 1, Len(longest) + 1)

is_subtree(host, base) == IsPrefix(base, host)

\* Mutant: a wildcard reaches wherever its base is a suffix.
wild_match_any(host, base) == host # base /\ is_subtree(host, base)

\* A wildcard excludes its bare apex and stops at the registrable domain.
wild_match(host, base) ==
  /\ host # base
  /\ is_subtree(host, base)
  /\ registrable_domain(host) = registrable_domain(base)

----------------------------------------------------------------------------
(* A ScopeConfig is a record with the fields of the YAML file; an entry of *)
(* a subdomains list is [wildcard, host], an ip_range the set of the Ips   *)
(* in it.  ScopeMatcher.__init__ compiles it, and raises on any entry that *)
(* cannot be canonicalized.                                                *)

scope_entries(cfg) ==
  LET names(part) == part.domains \cup {e.host : e \in part.subdomains}
  IN  names(cfg.in_scope) \cup names(cfg.out_of_scope)

matcher_raises(cfg) == \E h \in scope_entries(cfg) : canonical_host(h) = Raises

canon_set(hosts) == {canonical_host(h) : h \in hosts}

split_subdomains(entries, wildcard) ==
  canon_set({e.host : e \in {f \in entries : f.wildcard = wildcard}})

\* Mutant: with wildcard exclusions in the file, only those are asked.
name_out_of_scope_wildcard(cfg, host) ==
  LET bases == split_subdomains(cfg.out_of_scope.subdomains, TRUE)
  IN  IF bases = {}
      THEN \E d \in canon_set(cfg.out_of_scope.domains) : is_subtree(host, d)
      ELSE \E base \in bases : wild_match(host, base)

name_out_of_scope(cfg, host) ==
  \/ \E d \in canon_set(cfg.out_of_scope.domains) : is_subtree(host, d)
  \/ host \in split_subdomains(cfg.out_of_scope.subdomains, FALSE)
  \/ \E base \in split_subdomains(cfg.out_of_scope.subdomains, TRUE) : wild_match(host, base)

name_in_scope_exact(cfg, host) ==
  \/ host \in canon_set(cfg.in_scope.domains)
  \/ host \in split_subdomains(cfg.in_scope.subdomains, FALSE)

name_in_scope_wildcard(cfg, host) ==
  \E base \in split_subdomains(cfg.in_scope.subdomains, TRUE) : wild_match(host, base)

name_in_scope(cfg, host) ==
  name_in_scope_exact(cfg, host) \/ name_in_scope_wildcard(cfg, host)

----------------------------------------------------------------------------
(* Addresses.                                                              *)

ip_in(nets, ip) == \E net \in nets : ip \in net

\* Whether private_deny_reason has a reason; which one is left out.
private_deny_reason(ip) == ip \in PrivateIps

ip_refused(cfg, ip) == private_deny_reason(ip) \/ ip_in(cfg.out_of_scope.ip_ranges, ip)

\* Mutant: the reason is the address.
ip_refusal_address(ip) == ip

ip_refusal(ip) == IF private_deny_reason(ip) THEN "private_ip" ELSE "out_of_scope"

\* In boundary mode an in-scope name must resolve into a declared in-scope
\* range; with no range declared the mode asks for nothing.
boundary_miss(cfg, ips) ==
  /\ cfg.ip_ranges_mode = "boundary"
  /\ cfg.in_scope.ip_ranges # {}
  /\ ~ \E i \in DOMAIN ips : ip_in(cfg.in_scope.ip_ranges, ips[i])

deny(code, canon) == [verdict |-> "DENY_HALT", reason_code |-> code, canonical_host |-> canon]
allow(code, canon) == [verdict |-> "ALLOW", reason_code |-> code, canonical_host |-> canon]

ip_decision(cfg, ip) ==
  CASE ip_refused(cfg, ip) -> deny(ip_refusal(ip), None)
    [] ~ip_refused(cfg, ip) /\ ip_in(cfg.in_scope.ip_ranges, ip) -> allow("in_scope_ip", <<ip>>)
    [] OTHER -> deny("unverified", None)

\* Mutant: one good address is enough.
ips_denied_all(cfg, ips) ==
  \/ \A i \in DOMAIN ips : ip_refused(cfg, ips[i])
  \/ boundary_miss(cfg, ips)

\* The pinned addresses of a name: the first refused one gives the reason.
ips_denied(cfg, ips) ==
  \/ \E i \in DOMAIN ips : ip_refused(cfg, ips[i])
  \/ boundary_miss(cfg, ips)

check_resolved_ips(cfg, canon, ips) ==
  LET refused == {i \in DOMAIN ips : ip_refused(cfg, ips[i])}
  IN  IF refused # {}
      THEN deny(ip_refusal(ips[Min(refused)]), canon)
      ELSE deny("ip_boundary_miss", canon)

----------------------------------------------------------------------------
(* ScopeMatcher.decide: one atom, with the addresses it was pinned to.     *)
(* ips = <<>> stands for both None and [], which the code treats alike.    *)

\* Mutant: inclusions are asked first.
decide_name_in_first(cfg, canon, ips) ==
  CASE name_in_scope(cfg, canon) /\ ~(ips # <<>> /\ ips_denied(cfg, ips)) ->
         allow("in_scope_exact", canon)
    [] ~name_in_scope(cfg, canon) -> deny("unverified", canon)
    [] OTHER -> check_resolved_ips(cfg, canon, ips)

decide_name(cfg, canon, ips) ==
  CASE name_out_of_scope(cfg, canon) -> deny("out_of_scope", canon)
    [] ~name_out_of_scope(cfg, canon) /\ ~name_in_scope(cfg, canon) -> deny("unverified", canon)
    [] OTHER ->
         IF ips # <<>> /\ ips_denied(cfg, ips)
         THEN check_resolved_ips(cfg, canon, ips)
         ELSE allow(IF name_in_scope_exact(cfg, canon) THEN "in_scope_exact"
                                                       ELSE "in_scope_wildcard", canon)

decide(cfg, atom, ips) ==
  LET target == canonical_target(atom)
  IN  CASE target.canon = Raises -> deny("parse_error", None)
        [] target.canon # Raises /\ target.kind = "ip" -> ip_decision(cfg, target.canon[1])
        [] OTHER -> decide_name(cfg, target.canon, ips)

allowed(decision) == decision.verdict = "ALLOW"

\* kernel/gate.py: what a decision makes of the asset it is about.
scope_status_for(decision) ==
  CASE allowed(decision) -> "in_scope"
    [] ~allowed(decision) /\ decision.reason_code = "out_of_scope" -> "out_of_scope"
    [] OTHER -> "unverified"

----------------------------------------------------------------------------
(* Tier 2's standing conditions: authorization and its freshness.          *)

is_stale(cfg, today) ==
  \/ cfg.authorized_until # None /\ cfg.authorized_until < today
  \/ cfg.last_verified_at # None /\ today - cfg.last_verified_at > MaxVerifyAge

\* Mutant: the active flag is taken for the authorization.
active_preconditions_unauthorized(cfg, today) ==
  cfg.active_actions_allowed /\ ~is_stale(cfg, today)

active_preconditions_ok(cfg, today) ==
  /\ cfg.authorized
  /\ cfg.active_actions_allowed
  /\ ~is_stale(cfg, today)
=============================================================================
