\* One stream on a network that keeps the order and loses one packet just
\* before the sequence numbers wrap.
CONSTANTS
  Cid = {0}
  Port <- MCPort
  MAXSPECIALPORT = 12
  Half = 4
  MaxArrived = 4
  Networks <- OnlyOneLoss
  MaxSent = 4
SPECIFICATION NetSpec
PROPERTIES OrderKept
