SPECIFICATION Spec
CONSTANTS
  Users = {u1, u2}
  ConfigMaps = {"cm"}
  DaemonSets = {"ds"}
  Params <- MCParams
  Batch = 2
  MaxCommands = 4
INVARIANTS
  ReportedIsTrue
PROPERTIES
  ListShowsSet
