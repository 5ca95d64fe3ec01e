----------------------------- MODULE MCMultiplexer -----------------------------
(* Small instances of Multiplexer for TLC. *)
EXTENDS Multiplexer, TLC

CONSTANTS p, a, r1, r2, t1, t2

\* One chat already in the controller's home.
OneHome == [x \in Accounts |-> IF x = p THEN {t1} ELSE {}]

\* One chat that was handed over: it can be read from both homes.
SharedChat == [x \in Accounts |-> {t1}]

RequestSymmetry == Permutations(Requests)
================================================================================
