SPECIFICATION FairSpec
CONSTANTS
  dot = dot
  com = com
  shop = shop
  api = api
  Api = Api
  evil = evil
  pub1 = pub1
  pub2 = pub2
  priv = priv
  Illegal = Illegal
  None = None
  EmptyLabel = dot
  Labels <- MCLabels
  Ips <- MCIps
  PrivateIps = {priv}
  CanonLabel <- MCCanonLabel
  PublicSuffixes <- MCPublicSuffixes
  MaxVerifyAge = 1
  Scopes <- OpenOrTwoSeeds
  Discoverable <- JustShop
  ArchivedUrls <- MCArchivedUrls
  Resolutions <- FewResolutions
  Commands <- FullOnly
  MaxDay = 0
INVARIANTS
  OneRowPerHost
  UrlsHaveHosts
PROPERTIES
  RunEndsOrAsks
  AnsweredRunEnds
