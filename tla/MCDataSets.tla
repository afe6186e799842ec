---------------------------- MODULE MCDataSets ------------------------------
(***************************************************************************)
(* Two users, a set of configmaps and a set of daemonsets.                 *)
(***************************************************************************)
EXTENDS DataSets

\* A last group that is not full, groups of one, and one wrong parameter.
MCParams ==
  {[size |-> 1, groupSize |-> 2, total |-> 3],
   [size |-> 2, groupSize |-> 1, total |-> 2],
   [size |-> 1, groupSize |-> 3, total |-> 2]}
=============================================================================
