SPECIFICATION Spec
CONSTANTS
  p1 = p1
  p2 = p2
  r1 = r1
  r2 = r2
  k1 = k1
  k2 = k2
  v = v
  None = None
  Processes <- OneProcess
  Inserts = {r1}
  Keys = {k1, k2}
  Values = {v}
  MaxLines = 3
  MaxPowerLosses = 1
  MaxTampers = 1
INVARIANTS
  ChainVerifies
  TamperEvident
  AuditBeforeDb
  ExtraMerged
PROPERTIES
  DamageStopsWriter
