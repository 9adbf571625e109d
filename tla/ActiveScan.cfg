SPECIFICATION ScanSpec
CONSTANTS
  flag = flag
  a = a
  b = b
  target = target
  one = one
  eight = eight
  Requests <- MCRequests
  Ips <- MCIps
  ControlIp = one
  SpareControlIp = eight
  AllowedSets <- MCAllowedSets
  Flags <- MCFlags
  Tags <- MCTags
  forced_flags <- MCForced
  forbidden_flags <- MCForbidden
  allowed_extra_flags <- MCAllowedExtra
  tag_allowlist <- MCTagAllowlist
INVARIANTS
  SingleUse
  NonBroadening
  RunningKeepsProfile
PROPERTIES
  ProbeTellsFilterFromNone
