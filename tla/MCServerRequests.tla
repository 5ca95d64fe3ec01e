---------------------------- MODULE MCServerRequests ---------------------------
(* Two app-servers whose request ids collide, for TLC. *)
EXTENDS ServerRequests, TLC

CONSTANTS p, a, i1, i2, yes, no
================================================================================
