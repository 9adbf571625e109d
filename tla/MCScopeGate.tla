----------------------------- MODULE MCScopeGate -----------------------------
(* A small name space: two registrable domains under a plain suffix, one    *)
(* suffix of two labels, a look-alike name, an upper-case and an            *)
(* uncanonical label, three addresses.                                      *)
EXTENDS ScopeGate

CONSTANTS dot, com, shop, api, Api, adm, uk, co, mixed, pub1, pub2, priv

MCLabels == {dot, com, shop, api, Api, adm, uk, co, mixed, pub1, pub2, priv}
MCIps == {pub1, pub2, priv}
MCPrivateIps == {priv}
MCCanonLabel ==
  [l \in MCLabels |-> CASE l = Api -> api [] l \in {mixed, dot} -> Illegal [] OTHER -> l]
MCPublicSuffixes == {<<com>>, <<uk>>, <<uk, co>>}

bare(h) == [form |-> "bare", host |-> h]
url(h)  == [form |-> "url", host |-> h]

MCAtoms ==
  {bare(<<com, shop>>), bare(<<com, shop, api>>), bare(<<com, shop, Api>>),
   bare(<<dot, com, shop, api>>), url(<<com, shop, api>>), bare(<<com, shop, api, adm>>),
   url(<<com, shop, adm>>), bare(<<com, adm, shop>>), bare(<<uk, co, shop>>),
   bare(<<com, shop, mixed>>), bare(<<dot>>), bare(<<com, dot, shop>>),
   [form |-> "badurl", host |-> <<com, shop>>],
   bare(<<pub1>>), bare(<<pub2>>), bare(<<priv>>), url(<<pub1>>), url(<<priv>>)}

MCPins == {<<>>, <<pub1>>, <<pub2>>, <<pub1, pub2>>, <<pub1, priv>>}

entry(w, h) == [wildcard |-> w, host |-> h]

MCInEntries ==
  [domains    |-> {<<com, shop>>, <<com, shop, Api>>, <<priv>>},
   subdomains |-> {entry(TRUE, <<com, shop>>), entry(TRUE, <<uk, co>>), entry(FALSE, <<com, shop, adm>>)},
   ip_ranges  |-> {{pub1}, {pub1, pub2, priv}}]
MCOutEntries ==
  [domains    |-> {<<com, shop, api>>, <<com, shop, mixed>>},
   subdomains |-> {entry(TRUE, <<com, shop, api>>), entry(TRUE, <<com, shop>>), entry(FALSE, <<com, shop, Api>>)},
   ip_ranges  |-> {{pub2}}]
=============================================================================
