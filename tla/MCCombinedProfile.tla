--------------------------- MODULE MCCombinedProfile ---------------------------
(* Three subscriptions with runs of days that touch, overlap or lie apart, for *)
(* TLC.                                                                        *)
EXTENDS CombinedProfile, TLC

CONSTANTS p, a, b

Profile(days) == [days |-> [d \in days |-> d + 1], lifetime |-> 10 * Cardinality(days)]

\* Today is day 8, a Tuesday; the week begins on day 7.
SomeProfiles == {Profile({5, 6}), Profile({7, 8}), Profile({3, 7}), Profile({})}
================================================================================
