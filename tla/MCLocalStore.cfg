SPECIFICATION FairSpec
CONSTANTS
  c1 = c1
  c2 = c2
  d1 = d1
  r1 = r1
  b1 = b1
  b2 = b2
  n1 = n1
  n2 = n2
  None = None
  Clients = {c1, c2}
  Readers = {d1}
  Refs = {r1}
  Bodies = {b1, b2}
  TempNames = {n1, n2}
  Size <- MCSize
  MaxCrashes = 1
INVARIANTS
  ReaderSizeIsRight
PROPERTY AbstractSpec
PROPERTY UploadsEnd
