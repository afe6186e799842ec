----------------------------- MODULE MCNodepool -----------------------------
(* Nodepool with two pools, and a name that is the controller of another.  *)
EXTENDS Nodepool

MCController ==
  [p \in Names |-> CASE p = "a" -> "a-controller"
                     [] p = "b" -> "b-controller"
                     [] OTHER -> "a-controller-controller"]
MCBatchPool == [i \in 0..3 |-> IF i = 0 THEN "a" ELSE "b"]
MCRequests == {<<1, 0>>, <<3, 2>>}

\* A bound: a behaviour with a batch-add has no kill and no command on the
\* name that is always refused.
BatchAlone ==
  batch.phase # "off" => kills = 0 /\ outcome["a-controller"] = "none"
BoundedSpec == Init /\ [][Next /\ BatchAlone']_vars
=============================================================================
