-------------------------- MODULE MCCompanionRecord --------------------------
(* Small instances of CompanionRecord for TLC. *)
EXTENDS RecordLog, TLC

CONSTANTS d1, d2, s1, s2

OneSession == d1 :> s1
TwoSessions == d1 :> s1 @@ d2 :> s2

OneChute == s1 :> CommonChute
(* A session for every event, then one for the first event alone.          *)
TwoChutes == s1 :> CommonChute @@ s2 :> 1

Ids == Permutations(Request) \cup Permutations(Bib)
=============================================================================
