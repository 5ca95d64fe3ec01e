------------------------------- MODULE MCChildRpc ------------------------------
(* Three concurrent calls of Request on one child, for TLC. *)
EXTENDS ChildRpc, TLC

CONSTANTS c1, c2, c3
================================================================================
