---------------------------- MODULE OfficeScreen ----------------------------
(***************************************************************************)
(* What the screens of the race office have in common: null.               *)
(***************************************************************************)
EXTENDS Integers, FiniteSets, Sequences

CONSTANT None
=============================================================================
