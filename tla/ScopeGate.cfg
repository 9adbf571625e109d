SPECIFICATION Spec
CONSTANTS
  dot = dot
  com = com
  shop = shop
  api = api
  Api = Api
  adm = adm
  uk = uk
  co = co
  mixed = mixed
  pub1 = pub1
  pub2 = pub2
  priv = priv
  Illegal = Illegal
  None = None
  EmptyLabel = dot
  Labels <- MCLabels
  Ips <- MCIps
  PrivateIps <- MCPrivateIps
  CanonLabel <- MCCanonLabel
  PublicSuffixes <- MCPublicSuffixes
  Atoms <- MCAtoms
  Pins <- MCPins
  InEntries <- MCInEntries
  OutEntries <- MCOutEntries
  MaxVerifyAge = 1
  MaxInEntries = 2
  MaxOutEntries = 2
INVARIANTS
  TypeOK
  OutOfScopeWins
  AddressesClean
  StaysInsideRegistrableDomain
  SpellingIrrelevant
PROPERTY
  ExclusionsOnlyNarrow
