SPECIFICATION FairSpec
CONSTANTS
  Completions = 2
  MaxVersion = 5
  MaxErrors = 2
PROPERTY WaitEnds
