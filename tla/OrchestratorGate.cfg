SPECIFICATION Spec
CONSTANTS
  dot = dot
  com = com
  shop = shop
  api = api
  Api = Api
  evil = evil
  pub1 = pub1
  pub2 = pub2
  priv = priv
  Illegal = Illegal
  None = None
  EmptyLabel = dot
  Labels <- MCLabels
  Ips <- MCIps
  PrivateIps = {priv}
  CanonLabel <- MCCanonLabel
  PublicSuffixes <- MCPublicSuffixes
  MaxVerifyAge = 1
  Scopes <- MCScopes
  Discoverable <- MCDiscoverable
  ArchivedUrls <- MCArchivedUrls
  Resolutions <- MCResolutions
  Commands <- MCCommands
  MaxDay = 1
INVARIANTS
  TypeOK
  ProbesGated
  UnauthorizedIsSilent
  OneProbePerGrant
  RowsJustified
  NoHostForgotten
PROPERTIES
  EnrichedIsKept
  ImplementsActiveGate
