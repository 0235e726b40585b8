\* The proxy with its client; messages may pass through the sorter's buffers.
CONSTANTS
  a = a
  b = b
  c = c
  p = p
  home = home
  far = far
  away = away
  Members <- MCMembers
  Nets <- MCNets
  Setups <- ProxySetups
  MaxInc = 1
  XPorts = FALSE
  Reordering = TRUE
SPECIFICATION Spec
INVARIANTS ForwardedFromOutside
