-------------------------- MODULE MCSubscriptionStore --------------------------
(* The Primary account and up to two others, for TLC. *)
EXTENDS SubscriptionStore, TLC

CONSTANTS p, a, b, t1, t2

Symmetry == Permutations(Accounts \ {Primary}) \union Permutations(Threads)
================================================================================
