----------------------------- MODULE MCFocusMap -----------------------------
(* Three hosts (one with no promising name, one with one, one with two), the *)
(* weights of signals.py, four URLs.                                         *)
EXTENDS FocusMap, SequencesExt

MCHosts == {1, 2, 3}
MCTokens == <<{"www"}, {"www", "api"}, {"admin", "dev"}>>

MCParams == <<"filter", "ping", "run">>
MCPlace == [n \in ToSet(MCParams) |-> CHOOSE i \in 1..3 : MCParams[i] = n]
MCClass == [n \in ToSet(MCParams) |-> IF n = "filter" THEN "injection" ELSE "command"]
MCWeights == {<<"www", 0>>, <<"api", 6>>, <<"admin", 9>>, <<"dev", 7>>,
              <<".js", 4>>, <<"filter", 5>>, <<"ping", 8>>, <<"run", 8>>,
              <<"401", 5>>, <<"tomcat", 6>>, <<"nginx", 0>>}
MCWeight == [x \in {w[1] : w \in MCWeights} |-> (CHOOSE w \in MCWeights : w[1] = x)[2]]

url(id, h, needles, params) == [id |-> id, host |-> h, needles |-> needles, params |-> params]
MCUrls == {url(1, 1, {}, {"filter"}), url(2, 1, {".js"}, {"ping", "run"}),
           url(3, 3, {}, {}), url(4, 3, {}, {})}
MCAnswers ==
  {[status |-> "401", server |-> {"tomcat", "nginx"}, version |-> "vulnerable", origin |-> "any",
    credentials |-> TRUE, powered |-> "listed", location |-> "other"]}
=============================================================================
