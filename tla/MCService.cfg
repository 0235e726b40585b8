\* Every configuration and every failure; no other audio server.
SPECIFICATION Spec
CONSTANTS
  Rate = {1, 2}
  OtherRates = {}
  Value = {0, 1}
  Host = {"none", "relay"}
  NoHost = "none"
  DevId = {"own", "peer"}
  Own = "own"
  Failures = {"jackd", "client", "load", "run", "file", "device", "net", "invalid", "garbled"}
  Absent = Absent
  Configs <- Any
  Files <- NoFiles
INVARIANTS TypeOK NoLeak RunsConfig
PROPERTIES ImplementsLifecycle SettledSessionKept
