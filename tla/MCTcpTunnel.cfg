\* Streams hold less than a datagram; the system may stop when everybody is
\* gone.
CONSTANTS
  Conn <- MCConn
  Fd <- MCFd
  Cap = 1
  Plans <- MCPlans
SPECIFICATION FairSpec
INVARIANTS TypeOK NoThreadSurvives
PROPERTIES ImplementsPipe Delivered DestructorReturns BothEndsClose
CHECK_DEADLOCK FALSE
