\* One member that comes and goes; every operation; two ping periods; both
\* threads.
CONSTANTS
  Num = 1
  TIMEOUT = 2
  UIntMax = 9
  Mode = {"p2p", "srv"}
  P2P = "p2p"
  LogPeriods = {1, 2}
  Ops = {"register", "ping", "localip", "pubkey"}
  MaxPing = 1
SPECIFICATION FairSpec
INVARIANTS TypeOK NoUnderflow PingsReported
PROPERTIES LostAfterNew RoundsComplete LeaverExpires MemberConnected
