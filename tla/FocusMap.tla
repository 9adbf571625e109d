------------------------------ MODULE FocusMap ------------------------------
(***************************************************************************)
(* Prioritization (intel/signals.py, intel/score.py, intel/report.py): the *)
(* evidence the runs leave in the store, host by host, becomes signals,    *)
(* signals a score, scores a ranking, and the ranking a map of which only  *)
(* the top is written out.                                                 *)
(*                                                                         *)
(* What matters of a token, path, parameter or banner is which signal it   *)
(* is, so these are values with a Weight; their wording, the actions and   *)
(* the reasoner's hypotheses are left out.                                 *)
(***************************************************************************)
EXTENDS Integers, Sequences, FiniteSets, FiniteSetsExt

CONSTANTS
  Hosts,      \* in-scope hosts; a host is its place in alphabetical order
  Tokens,     \* host -> the tokens its labels split into
  Urls,       \* in-scope URLs: [id, host, needles, params], those with a signal
  Answers,    \* what a live host may answer: see AnswerType
  Class,      \* parameter -> the class of weakness it suggests
  Place,      \* parameter -> its place in alphabetical order
  Weight,     \* token, needle, parameter, status code or server -> its weight
  SurfaceAt,  \* archived URLs that make a large surface (20 in the code)
  TopClasses, \* parameter classes that count (3)
  TopN,       \* hosts the map shows besides the critical ones (40)
  NoAnswer    \* no probe was answered

Versions == {"none", "listed", "vulnerable"}

AnswerType ==
  [status : DOMAIN Weight, server : SUBSET DOMAIN Weight, version : Versions,
   origin : {"none", "any", "null", "own", "other"}, credentials : BOOLEAN,
   powered : {"no", "listed", "vulnerable"}, location : {"none", "own", "other"}]

ASSUME FocusAssumption ==
  /\ Hosts \subseteq Nat /\ IsFiniteSet(Hosts)
  /\ Answers \subseteq AnswerType /\ NoAnswer \notin Answers
  /\ IsFiniteSet(DOMAIN Weight) /\ \A x \in DOMAIN Weight : Weight[x] \in Nat
  /\ \A h \in Hosts : Tokens[h] \subseteq DOMAIN Weight
  /\ \A u \in Urls : /\ u.host \in Hosts /\ u.needles \subseteq DOMAIN Weight
                     /\ u.params \subseteq DOMAIN Weight \cap DOMAIN Place
  /\ \A n, o \in DOMAIN Place : Place[n] \in Nat /\ (Place[n] = Place[o] => n = o)
  /\ SurfaceAt \in Nat /\ TopClasses \in Nat /\ TopN \in Nat

VARIABLES
  known,   \* the hosts with a row
  urls,    \* the URLs with a row
  probe,   \* host -> "unprobed", "live" or "dead"
  answer,  \* host -> what the probe recorded in extra
  dns,     \* host -> where its CNAME led the last resolution: see Lookups
  map      \* this run's focus map, <<>> before it is written

evidence == <<known, urls, probe, answer, dns>>
vars == <<known, urls, probe, answer, dns, map>>

----------------------------------------------------------------------------
(* Signals: [kind, of, weight].                                            *)

Signal(kind, of, weight) == [kind |-> kind, of |-> of, weight |-> weight]

urls_of(h) == {u \in urls : u.host = h}

subdomain_signals(h) ==
  {Signal("subdomain", t, Weight[t]) : t \in {x \in Tokens[h] : Weight[x] > 0}}

\* Each needle counts once, however many URLs have it.
path_signals(h) ==
  {Signal("path", n, Weight[n]) : n \in UNION {u.needles : u \in urls_of(h)}}

\* Mutant: the classes are taken in the order of their parameters' names.
before_by_name(best, first, c, d) == first[c] < first[d]

\* sorted(best_by_class) by weight, which is stable on the order of the names.
before(best, first, c, d) ==
  best[c] > best[d] \/ (best[c] = best[d] /\ first[c] < first[d])

\* The strongest parameter of each class, then the TopClasses strongest classes.
param_signals(h) ==
  LET names   == UNION {u.params : u \in urls_of(h)}
      classes == {Class[n] : n \in names}
      named(c) == {n \in names : Class[n] = c}
      best    == [c \in classes |-> Max({Weight[n] : n \in named(c)})]
      first   == [c \in classes |-> Min({Place[n] : n \in named(c)})]
  IN  {Signal("param", c, best[c]) :
         c \in {d \in classes :
                  Cardinality({e \in classes : before(best, first, e, d)}) < TopClasses}}

status_signal(a) == {Signal("status", s, Weight[s]) : s \in {x \in {a.status} : Weight[x] > 0}}

server_signals(a) ==
  {Signal("server", s, Weight[s]) : s \in {x \in a.server : Weight[x] > 0}}
    \cup CASE a.version = "vulnerable" -> {Signal("server", "version", 9)}
           [] a.version = "listed" -> {Signal("server", "version", 2)}
           [] OTHER -> {}

\* CORS, X-Powered-By and off-host redirects.
header_signals(a) ==
  LET cors == CASE a.credentials /\ a.origin \notin {"none", "null"} -> 8
                [] ~a.credentials /\ a.origin = "any" -> 3
                [] a.origin = "null" \/ (a.origin = "other" /\ ~a.credentials) -> 5
                [] OTHER -> 0
  IN  {Signal("header", "cors", w) : w \in {cors} \ {0}}
        \cup {Signal("header", "powered", 3) : x \in {a.powered} \ {"no"}}
        \cup {Signal("header", "version", 9) : x \in {a.powered} \cap {"vulnerable"}}
        \cup {Signal("header", "location", 5) : x \in {a.location} \cap {"other"}}

\* A CNAME that ends at a provider: dangling, or to be confirmed.
takeover_signal(h) ==
  CASE dns[h] = "provider" -> {Signal("takeover", "cname", 4)}
    [] dns[h] = "dangling" -> {Signal("takeover", "cname", 9)}
    [] OTHER -> {}

surface_signal(h) ==
  IF Cardinality(urls_of(h)) >= SurfaceAt THEN {Signal("surface", "urls", 2)} ELSE {}

signals(h) ==
  subdomain_signals(h) \cup path_signals(h) \cup param_signals(h)
    \cup takeover_signal(h) \cup surface_signal(h)
    \cup (IF answer[h] = NoAnswer THEN {}
          ELSE status_signal(answer[h]) \cup server_signals(answer[h]) \cup header_signals(answer[h]))

----------------------------------------------------------------------------
(* Scores and the ranking.                                                 *)

\* Mutant: a large archive is taken for content.
served_content_surface(h) == \E s \in signals(h) : s.kind \in {"path", "param", "surface"}

served_content(h) == \E s \in signals(h) : s.kind \in {"path", "param"}

score_host(h) ==
  LET sum == MapThenSumSet(LAMBDA s : s.weight, signals(h))
  IN  CASE probe[h] = "live" -> sum + 2
        [] probe[h] = "dead" /\ served_content(h) -> Max({0, sum - 5})
        [] probe[h] = "dead" /\ ~served_content(h) -> Min({sum, 4})
        [] OTHER -> sum

tier(score) ==
  CASE score >= 18 -> "critical"
    [] score \in 11..17 -> "high"
    [] score \in 5..10 -> "medium"
    [] OTHER -> "low"

\* Highest score first, live before not live, then by name.
ranks_before(g, h) ==
  LET by == score_host(g) - score_host(h)
  IN  \/ by > 0
      \/ /\ by = 0
         /\ \/ probe[g] = "live" /\ probe[h] # "live"
            \/ (probe[g] = "live") = (probe[h] = "live") /\ g < h

\* ranked.sort
prioritize ==
  CHOOSE ranked \in [1..Cardinality(known) -> known] :
    \A i, j \in 1..Cardinality(known) : i < j => ranks_before(ranked[i], ranked[j])

----------------------------------------------------------------------------
(* The map.                                                                *)

TierOrder == <<"critical", "high", "medium", "low">>

\* Mutant: the critical hosts do not count as shown.
room_apart(t, shown) ==
  IF t = "critical" THEN Cardinality(known)
  ELSE Max({0, TopN - Len(SelectSeq(shown, LAMBDA h : tier(score_host(h)) # "critical"))})

\* How many hosts of a tier are written out when those of `shown` are.
room(t, shown) == IF t = "critical" THEN Cardinality(known) ELSE Max({0, TopN - Len(shown)})

\* The hosts of a tier, in the order of the ranking.
by_tier(ranked, t) ==
  LET filled[i \in 0..Len(ranked)] ==
        IF i = 0 THEN <<>>
        ELSE IF tier(score_host(ranked[i])) = t THEN Append(filled[i - 1], ranked[i])
        ELSE filled[i - 1]
  IN  filled[Len(ranked)]

\* A tier that does not fit ends in "...and N more hosts".
write(m, t, hosts) ==
  LET n == Min({room(t, m.shown), Len(hosts)})
  IN  [shown |-> m.shown \o SubSeq(hosts, 1, n), more |-> m.more + Len(hosts) - n]

\* Tier after tier.
render_focus_map(ranked) ==
  LET written[i \in 0..Len(TierOrder)] ==
        IF i = 0 THEN [shown |-> <<>>, more |-> 0]
        ELSE write(written[i - 1], TierOrder[i], by_tier(ranked, TierOrder[i]))
  IN  written[Len(TierOrder)]

----------------------------------------------------------------------------
(* The runs: each step is what one write of the orchestrator leaves.       *)

\* Nowhere in particular, to a provider's host, or to one that does not resolve.
Lookups == {"none", "provider", "dangling"}

Init ==
  /\ known = {} /\ urls = {} /\ map = <<>>
  /\ probe = [h \in Hosts |-> "unprobed"]
  /\ answer = [h \in Hosts |-> NoAnswer]
  /\ dns = [h \in Hosts |-> "none"]

StoreHost(h) ==
  /\ map = <<>>
  /\ known' = known \cup {h}
  /\ UNCHANGED <<urls, probe, answer, dns, map>>

\* A URL that has a row is passed over; its host gets a row too.
StoreUrl(u) ==
  /\ map = <<>> /\ u \notin urls
  /\ known' = known \cup {u.host} /\ urls' = urls \cup {u}
  /\ UNCHANGED <<probe, answer, dns, map>>

\* The last resolution stands, one that failed as "none": resolve_full "never
\* falsely claims a takeover".
DnsEnrich(h) ==
  /\ map = <<>> /\ h \in known
  /\ \E lookup \in Lookups : dns' = [dns EXCEPT ![h] = lookup]
  /\ UNCHANGED <<known, urls, probe, answer, map>>

\* A host is probed while it is unprobed.  A crash between the two writes of
\* _update_probe leaves it live without an answer.
Probe(h) ==
  /\ map = <<>> /\ h \in known /\ probe[h] = "unprobed"
  /\ \/ /\ probe' = [probe EXCEPT ![h] = "dead"]
        /\ UNCHANGED answer
     \/ /\ probe' = [probe EXCEPT ![h] = "live"]
        /\ \E a \in Answers \cup {NoAnswer} : answer' = [answer EXCEPT ![h] = a]
  /\ UNCHANGED <<known, urls, dns, map>>

\* The analysis ends the run; the next one collects further.
Analyze ==
  /\ map = <<>>
  /\ map' = render_focus_map(prioritize)
  /\ UNCHANGED evidence

Exit == map # <<>> /\ map' = <<>> /\ UNCHANGED evidence

Next ==
  \/ \E h \in Hosts : StoreHost(h) \/ DnsEnrich(h) \/ Probe(h)
  \/ \E u \in Urls : StoreUrl(u)
  \/ Analyze \/ Exit

Spec == Init /\ [][Next]_vars

----------------------------------------------------------------------------
(* Properties.                                                             *)

\* What the map cuts off is the bottom of the ranking, never a critical host,
\* and it is counted: the hosts shown are exactly the first of the ranking, as
\* many as there is room for or all the critical ones.
MapIsTopOfRanking ==
  map # <<>> =>
    LET critical == Cardinality({h \in known : tier(score_host(h)) = "critical"})
    IN  /\ map.shown = SubSeq(prioritize, 1, Max({critical, Min({TopN, Cardinality(known)})}))
        /\ map.more = Cardinality(known) - Len(map.shown)

\* A host that did not answer is in the lowest band, however promising its name,
\* its CNAME or the size of its archive, unless an archived URL or parameter of
\* it is interesting (score.py:112); and no host in a higher band is below it.
DeadStaysLow ==
  \A h \in known : probe[h] = "dead" /\ ~(\E u \in urls_of(h) : u.needles # {} \/ u.params # {}) =>
    /\ tier(score_host(h)) = "low"
    /\ \A g \in known : tier(score_host(g)) # "low" => ranks_before(g, h)

\* Evidence moves a host the right way: a further URL never lowers it, whichever
\* parameters it displaces (but for the first content of a dead host, which
\* trades the cap for the penalty); an answer raises it, silence never does.
EvidenceMovesRightWay ==
  [][\A h \in known :
       LET by == score_host(h)' - score_host(h)
       IN  /\ urls' # urls /\ (probe[h] # "dead" \/ served_content(h)) => by >= 0
           /\ probe'[h] # probe[h] => IF probe'[h] = "live" THEN by >= 2 ELSE by <= 0]_vars
=============================================================================
