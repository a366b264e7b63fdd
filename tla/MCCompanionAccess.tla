-------------------------- MODULE MCCompanionAccess --------------------------
(* Small instances of CompanionAccess for TLC. *)
EXTENDS CompanionAccess, TLC

CONSTANTS r1, r2, f1, f2, e1

OneRaceFile == r1 :> f1
OneEventRace == e1 :> r1

TwoRaceFile == r1 :> f1 @@ r2 :> f2
NoEventRace == [e \in {} |-> r1]

Ids == Permutations(Session) \cup Permutations(Device)
         \cup Permutations(Grant) \cup Permutations(Code)
=============================================================================
