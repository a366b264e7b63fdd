---------------------------- MODULE MCRecordDesk ----------------------------
(* CompanionRecord with one of the laptop's two screens in use, the finish *)
(* times or the placements, so that each can be explored in full.          *)
EXTENDS MCCompanionRecord

VARIABLE screen

(* Bounds of the larger half: while the placements are edited no phone     *)
(* records finish times, a stream of its own, every capture is at 0, and   *)
(* the desk enters placeholders, whose times it leaves pending.            *)
Bounded ==
  /\ start' \in {0, None}
  /\ \A r \in Request : request'[r] # None => request'[r].at = 0
  /\ checked' # None => checked'.time = Pending /\ checked'.value.tag # "GP"

EditTimes == screen = "times" /\ (PhoneNext \/ DeskClock \/ DeskTimes)

EditPlacements ==
  /\ screen = "placements"
  /\ Roles \/ PhonePlacements \/ DeskClock \/ DeskPlacements
  /\ Bounded

OneScreenSpec ==
  /\ Init /\ screen \in {"times", "placements"}
  /\ [][(EditTimes \/ EditPlacements) /\ UNCHANGED screen]_<<vars, screen>>
=============================================================================
