SPECIFICATION BoundedSpec
CONSTANTS
  Names = {"a", "b", "a-controller"}
  Controller <- MCController
  Lifecycle = {"lifecycle-crd", "lifecycle-def"}
  BatchPool <- MCBatchPool
  Requests <- MCRequests
  MaxKills = 1
INVARIANTS
   AllOrNothing DeletedIsGone BatchIsExact
