----------------------------- MODULE MCImporter -----------------------------
(* A registrable domain, its apex, two levels of hosts below it in two       *)
(* spellings, a platform's domain, a suffix, an address, a URL of it and a   *)
(* range; mixed is the label my_api, and part is api-*.                      *)
EXTENDS Importer

CONSTANTS dot, com, shop, api, Api, adm, vend, my, mixed, part, pub1, pub2

MCLabels == {dot, com, shop, api, Api, adm, vend, my, mixed, part, pub1, pub2}
MCIps == {pub1, pub2}
MCCanonLabel ==
  [l \in MCLabels |-> CASE l = Api -> api [] l \in {mixed, part, dot} -> Illegal [] OTHER -> l]
MCEnding ==
  [l \in MCLabels |-> CASE l = mixed -> api [] l = part -> Star [] l = dot -> Illegal [] OTHER -> l]
MCBeginning ==
  [l \in MCLabels |-> CASE l = mixed -> my [] l = part -> api
                        [] l \in MCIps \cup {dot} -> Illegal [] OTHER -> l]
MCPublicSuffixes == {<<com>>, <<my>>}
MCVendors == {<<com, vend>>}

id(form, host) == [form |-> form, host |-> host, net |-> {}]
net(ips) == [form |-> "net", host |-> <<>>, net |-> ips]

MCIdentifiers ==
  {id("name", <<com, shop>>), id("wild", <<com, shop>>), id("name", <<com, shop, Api>>),
   id("wild", <<com, shop, api>>), id("port", <<com, shop, api>>),
   id("name", <<com, shop, mixed, adm>>), id("name", <<com, shop, part>>),
   id("name", <<com, vend>>), id("wild", <<com>>), id("url", <<pub1>>),
   net({pub1}), net({pub1, pub2})}
MCHosts ==
  {<<com, shop>>, <<com, shop, api>>, <<dot, com, shop, Api>>, <<com, shop, api, adm>>,
   <<com, shop, adm>>, <<com, vend>>, <<com, vend, adm>>, <<com>>, <<pub1>>, <<pub2>>}

EmbeddedOnly == {"embedded"}
=============================================================================
