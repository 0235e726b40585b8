\* One member and one registration at a time.
CONSTANTS
  Num = 1
  TIMEOUT = 2
  UIntMax = 9
  Mode = {"p2p", "srv"}
  P2P = "p2p"
  LogPeriods = {1}
  Ops = {"register"}
  MaxPing = 1
SPECIFICATION Spec
INVARIANTS StaysForTimeout
