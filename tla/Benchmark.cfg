SPECIFICATION FairSpec
CONSTANTS
  Cases <- AllCases
  MaxRuns = 2
  MaxKills = 1
  Totals = {0, 2}
INVARIANTS
  CleanAfterReturn BackgroundWithinSetup RunIsItsOwn
PROPERTY
  RunEnds
