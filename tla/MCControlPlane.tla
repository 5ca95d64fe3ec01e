----------------------------- MODULE MCControlPlane ----------------------------
(* One subscription, one fetch at a time and two redemptions, for TLC. *)
EXTENDS ControlPlane, TLC

CONSTANTS sub, get, post, again
================================================================================
