\* A command that has ended and workers that have quit take no further step.
SPECIFICATION PartsSpec
CHECK_DEADLOCK FALSE
CONSTANTS
  Workers = {w1, w2, w3}
  MaxNames = 3
  None = None
  Total = 4
  Phases <- MCPhases
  Default = 6
  RunnerDefault = 5
  Rate = 2
  Totals = {0, 3}
  Durations = {0, 1, 3}
  Ratios = {0, 5, 295, 1000, 1100}
  Instances = {i1, i2, i3}
  Threshold = 8
  MaxTime = 5
  MaxTotal = 5
  MaxSum = 5
INVARIANTS
  OneOwner NothingForgotten  Accounting TotalIsExact
PROPERTIES
  Terminates
