SPECIFICATION PartsSpec
CONSTANTS
  Users = {u1, u2}
  Commands = {"run", "delete", "status", "result", "wait", "forever"}
  MaxCommands = 3
  MaxFaults = 1
  None = None
  Addrs <- MCAddrs
  URIs <- MCURIs
  Stored <- MCStored
  ServerFlags <- MCFlags
  Groups <- MCGroups
  Stats <- MCStats
  Durations = {1, 2}
  Chart <- MCChart
  Docs <- MCDocs
  Paths <- MCPaths
  Bad = Bad
  MaxDeploys = 3
  MaxAppliers = 2
INVARIANTS
  ForwardClosed DeletedIsGone
  PartsTypeOK SummaryIsOneRun
PROPERTIES
  RunsItsSpec AllReturn StartIsSound ValuesKept
