CONSTANTS
  a = a
  b = b
  c = c
  p = p
  home = home
  far = far
  away = away
  Members <- MCMembers
  Nets <- MCNets
  Setups <- MCSetups
  MaxInc = 2
  XPorts = TRUE
  Reordering = FALSE
SPECIFICATION Spec
INVARIANTS TypeOK AtMostOnce ServedWhenKnown LockMeansEncrypted
