--------------------------- MODULE MCRunnerGroup ---------------------------
(* RunnerGroup with two groups of one runner each, two posts at a time.    *)
EXTENDS RunnerGroup, TLC

CONSTANTS g1, g2, r1, r2, k1, k2

MCGroupOf == [r \in Runners |-> IF r = r1 THEN g1 ELSE g2]
SlotSymmetry == Permutations(Slots)
=============================================================================
