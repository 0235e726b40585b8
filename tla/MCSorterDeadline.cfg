\* One stream that loses a packet and then falls silent.
CONSTANTS
  Cid = {0}
  Port <- MCPort
  MAXSPECIALPORT = 12
  Half = 8
  MaxArrived = 4
  Networks <- OnlyOneLoss
  MaxSent = 4
SPECIFICATION NetFairSpec
PROPERTIES HeldUntilDeadline
