---------------------------- MODULE MCLocalStore ----------------------------
(* LocalStore with two uploads at a time, of two bodies of different size. *)
EXTENDS LocalStore

CONSTANTS c1, c2, d1, r1, b1, b2, n1, n2

MCSize == [b \in Bodies |-> IF b = b1 THEN 1 ELSE 2]
=============================================================================
