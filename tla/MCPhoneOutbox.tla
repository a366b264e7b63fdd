---------------------------- MODULE MCPhoneOutbox ----------------------------
(* Small instances of PhoneOutbox for TLC. *)
EXTENDS PhoneOutbox

CONSTANTS s1, s2

SameSession == [p \in 1 .. MaxPairings |-> s1]
NextSession == [p \in 1 .. MaxPairings |-> IF p = 1 THEN s1 ELSE s2]
=============================================================================
