\* A renderer that may fail to start.
SPECIFICATION Spec
CONSTANTS
  Rate = {1, 2}
  OtherRates = {}
  Value = {0, 1}
  Host = {"none", "relay"}
  NoHost = "none"
  DevId = {"own", "peer"}
  Own = "own"
  Failures = {"run"}
  Absent = Absent
  Configs <- Usable
  Files <- NoFiles
INVARIANTS StartedAfterPoll
