SPECIFICATION Spec
CONSTANTS
  dot = dot
  com = com
  shop = shop
  api = api
  Api = Api
  adm = adm
  vend = vend
  my = my
  mixed = mixed
  part = part
  Star = Star
  pub1 = pub1
  pub2 = pub2
  Illegal = Illegal
  None = None
  EmptyLabel = dot
  Labels <- MCLabels
  Ips <- MCIps
  PrivateIps = {}
  CanonLabel <- MCCanonLabel
  PublicSuffixes <- MCPublicSuffixes
  MaxVerifyAge = 1
  Identifiers <- MCIdentifiers
  Hosts <- MCHosts
  Vendors <- MCVendors
  Ending <- MCEnding
  Beginning <- MCBeginning
  MaxNotes = 1
  MaxEntries = 3
  Kinds <- AllKinds
INVARIANTS
  DraftCompiles
  NothingInvented
  
  BriefExclusionsSeen
