---------------------------- MODULE LaptopScreen ----------------------------
(***************************************************************************)
(* What the two screens of the laptop that poll a table have in common.    *)
(***************************************************************************)
EXTENDS Integers, FiniteSets

CONSTANTS
  Event,         (* event ids, 0 for the common chute among them           *)
  FirstEvent,    (* the event a screen opens with                          *)
  Call,          (* calls to the laptop that may be under way at once      *)
  MaxPlace,      (* bound on places                                        *)
  MaxActs,       (* bound on what operator and phones do                   *)
  None

ASSUME ScreenAssumption ==
  FirstEvent \in Event /\ MaxPlace \in Nat \ {0} /\ MaxActs \in Nat

Place == 1 .. MaxPlace

(* Math.max(...sorted.map(d => d.place)) + 1, or 1 of an empty list.       *)
Highest(places) == CHOOSE p \in places \cup {0} : \A q \in places : q <= p
NextAfterSlip(places) == Cardinality(places) + 1
NextAfter(places) == Highest(places) + 1
=============================================================================
