SPECIFICATION Spec
CONSTANTS
  p1 = p1
  p2 = p2
  r1 = r1
  r2 = r2
  k1 = k1
  k2 = k2
  v = v
  None = None
  Processes <- TwoProcesses
  Inserts = {r1, r2}
  Keys = {k1, k2}
  Values = {v}
  MaxLines = 4
  MaxPowerLosses = 0
  MaxTampers = 0
INVARIANT
  ChainVerifies
