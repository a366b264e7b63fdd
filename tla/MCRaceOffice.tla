---------------------------- MODULE MCRaceOffice ----------------------------
(***************************************************************************)
(* The participants and the results of a race.  They share no state that   *)
(* the models keep, so a run is of one of them.                            *)
(***************************************************************************)
EXTENDS ParticipantDesk, Results

CONSTANTS ann, bea, e1, e2, r1, r2, r3, r4
VARIABLE office
mcVars == <<deskVars, resultsVars, office>>

E(name, bib) == [name |-> name, bib |-> bib]
MCFile == {<<E(None, 1), E(ann, 0), E(bea, 1)>>, <<E(bea, 1), E(ann, 1), E(ann, 0)>>}
MCRoster == {<<E(ann, 0), E(bea, 1), E(ann, 0)>>}

(* Categories that overlap: overall, three classes of masters, two groups. *)
MCRegistered == (r1 :> e1 @@ r2 :> e1 @@ r3 :> e1 @@ r4 :> e2)
MCGender == (r1 :> "M" @@ r2 :> "F" @@ r3 :> "M" @@ r4 :> "F")
MCAge == (r1 :> 45 @@ r2 :> 62 @@ r3 :> 99 @@ r4 :> 30)
Setting(split, distributed, overall, masters, depth) ==
  LET Master(age) == [age |-> age, count |-> masters]
  IN [split |-> split, distributed |-> distributed, overall |-> overall,
      masters |-> <<Master(40), Master(50), Master(60)>>,
      depth |-> depth,
      groups |-> <<[min |-> 0, max |-> 59], [min |-> 40, max |-> 99]>>]
MCDefault == Setting(TRUE, FALSE, 1, 1, 1)
MCConfig == {MCDefault, Setting(FALSE, TRUE, 0, 1, 1), Setting(FALSE, FALSE, 1, 0, 1)}

(* The finish, the configuration and the board change while a race is      *)
(* under way, here from two finishers; at its end every finish and every   *)
(* configuration is looked at.  The participants there are to begin with   *)
(* have different names.                                                   *)
MCInit ==
  /\ ParticipantsInit /\ ResultsInit /\ office \in {"participants", "results"}
  /\ changes = 0 => /\ finish = [e \in Race |-> IF e = e1 THEN <<r2, r1>> ELSE <<r4>>]
                    /\ config[e1] = MCDefault
  /\ office = "participants" => changes = 0 /\ ~browser /\ board = "awards"
  /\ office = "results" => lastPerson = 0
  /\ \A i \in Present(people) : people[i].name = (IF i = 1 THEN ann ELSE bea)

MCNext ==
  \/ office = "participants" /\ ParticipantsNext /\ UNCHANGED <<resultsVars, office>>
  \/ office = "results" /\ ResultsNext /\ UNCHANGED <<deskVars, office>>

MCFairness == \A s \in Slot :
  /\ WF_mcVars(office = "results" /\ PollBoard(s) /\ UNCHANGED <<deskVars, office>>)
  /\ WF_mcVars(office = "results" /\ BoardStep(s) /\ UNCHANGED <<deskVars, office>>)
MCSpec == MCInit /\ [][MCNext]_mcVars /\ MCFairness

OfficeTypeOK == ParticipantsTypeOK /\ ResultsTypeOK

(* AwardsView.tsx:31-71, LiveResults.tsx:27-76: when neither record nor    *)
(* configuration nor selection changes any more, the board comes to show   *)
(* the selected event as it is, however late old answers arrive.  But for  *)
(* the live board of a browser: that is dead once it was told of an event  *)
(* without any award, or asked while the laptop failed.                    *)
BoardCatchesUp ==
  office = "results" => <>[](BoardIsCurrent \/ (browser /\ board = "blank"))
=============================================================================
