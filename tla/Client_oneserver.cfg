SPECIFICATION Spec
CONSTANTS
  Users = {u1, u2}
  Commands = {"run", "delete", "status", "result", "wait", "forever"}
  MaxCommands = 3
  MaxFaults = 0
  None = None
CHECK_DEADLOCK FALSE
INVARIANT OnlyOneServer
