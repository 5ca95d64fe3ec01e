------------------------------ MODULE MCHandshake ------------------------------
(* One child from the start and two added while the desktop connects, for TLC. *)
EXTENDS Handshake, TLC

CONSTANTS p, a, b
================================================================================
