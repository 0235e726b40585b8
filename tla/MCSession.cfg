\* Settings of one device against several of another, changing roles, and two
\* rooms that share a computer.
SPECIFICATION Spec
CONSTANTS
  NoSession = NoSession
  Devices <- MCDevices
  Id <- MCId
  Room <- MCRoom
  Machine <- MCMachine
  Secondary = {"x"}
  Names = {1, 2}
  XPorts = {9000, 9001}
  Setups <- MCSetups
INVARIANTS TypeOK PortsExist HeardOnce NoAudioReturns
