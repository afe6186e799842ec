SPECIFICATION Spec
CONSTANTS
  g1 = g1
  g2 = g2
  r1 = r1
  r2 = r2
  k1 = k1
  k2 = k2
  None = None
  Groups = {g1, g2}
  Runners = {r1, r2}
  GroupOf <- MCGroupOf
  Slots = {k1, k2}
  MaxCrashes = 1
  MaxLost = 1
SYMMETRY SlotSymmetry
INVARIANTS
  SummaryIsComplete
