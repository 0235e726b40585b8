\* Three networks and arbitrary datagrams; 12 sequence numbers.
CONSTANTS
  Cid = {0, 1}
  Port <- MCPort
  MAXSPECIALPORT = 12
  Half = 6
  MaxArrived = 9
  Networks <- AllNetworks
  MaxSent = 9
SPECIFICATION NetFairSpec
INVARIANTS TypeOK PointerDiscipline Conservation HeldIsNewest NetTypeOK DropsBelowLosses LostIsGapBalance NoFalseSeqErr NothingDropped
PROPERTIES ImplementsReorderBuffer OrderKeptUnwrapped LoopTerminates
