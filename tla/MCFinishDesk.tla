---------------------------- MODULE MCFinishDesk ----------------------------
(***************************************************************************)
(* The two screens side by side, as App.tsx:259-261 offers them: one is    *)
(* open, the other does not exist.                                         *)
(***************************************************************************)
EXTENDS PlacementDesk, TimeDesk

VARIABLE view
mcVars == <<vars, timesVars, view>>

(* The screen that is closed starts as it will open and does nothing.      *)
MCInit ==
  /\ Init /\ TimesInit /\ view \in {"placements", "times"}
  /\ view = "placements" => pulse = NoPulses
  /\ view = "times" => chute = [e \in Event |-> NoRows]

MCNext ==
  \/ view = "placements" /\ Next /\ UNCHANGED <<timesVars, view>>
  \/ view = "times" /\ TimesNext /\ UNCHANGED <<vars, view>>

MCFairness ==
  /\ WF_mcVars(view = "placements" /\ Loads /\ UNCHANGED <<timesVars, view>>)
  /\ WF_mcVars(view = "times" /\ PulseLoads /\ UNCHANGED <<vars, view>>)
  /\ \A c \in Call :
       /\ WF_mcVars(view = "placements" /\ Goes(c) /\ UNCHANGED <<timesVars, view>>)
       /\ WF_mcVars(view = "times" /\ Answers(c) /\ UNCHANGED <<vars, view>>)

MCSpec == MCInit /\ [][MCNext]_mcVars /\ MCFairness

DeskTypeOK == TypeOK /\ TimesTypeOK

(* PlacementEntry.tsx:91-140, TimeEntry.tsx:36-59: once nobody changes     *)
(* anything any more, the screen that is open shows the rows of the event  *)
(* selected and keeps to them, and aims behind them unless the operator    *)
(* chose a place or began to type.                                         *)
ScreenCatchesUp == <>[](IF view = "placements" THEN CaughtUp ELSE TimesCaughtUp)
=============================================================================
