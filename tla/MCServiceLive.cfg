\* Downloads may fail and succeed again.
SPECIFICATION Spec
CONSTANTS
  Rate = {1, 2}
  OtherRates = {}
  Value = {0, 1}
  Host = {"none", "relay"}
  NoHost = "none"
  DevId = {"own", "peer"}
  Own = "own"
  Failures = {"file", "net"}
  Absent = Absent
  Configs <- Usable
  Files <- NoFiles
PROPERTIES StopEndsAll ConfigApplied
