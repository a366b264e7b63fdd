------------------------------- MODULE Results -------------------------------
(***************************************************************************)
(* What the race is run for: AwardService.GetAwards over the finishers of  *)
(* an event, the configuration it follows and the screen that edits it,    *)
(* and the boards that poll awards and results, by two requests, on the    *)
(* laptop, on its external windows and in browsers.                        *)
(*                                                                         *)
(* A finisher is a runner with the place in the chute that its position in *)
(* the list stands for; times, paces and PDF are left out.  The record     *)
(* under it is CompanionRecord; here finishers come and go anywhere.       *)
(***************************************************************************)
EXTENDS OfficeScreen, SequencesExt

CONSTANTS
  Race,           (* the events of the race                                *)
  FirstRace,      (* the one a board opens with                            *)
  Runner,
  Registered,     (* the event of each runner                              *)
  Gender, Age,    (* of each runner; 200 stands for any age above          *)
  Config,         (* award configurations                                  *)
  DefaultConfig,  (* what an event has that was never configured           *)
  Slot,           (* loads of a board that may be under way at once        *)
  MaxChanges      (* bound on changes of finish, configuration, board      *)

AgeGroup == [min : Int, max : Int]
Masters == [age : Int, count : Int]
AwardConfig == [split : BOOLEAN, distributed : BOOLEAN, overall : Int,
                masters : [1 .. 3 -> Masters], depth : Int, groups : Seq(AgeGroup)]

ASSUME ResultsAssumption ==
  /\ FirstRace \in Race /\ DefaultConfig \in Config /\ MaxChanges \in Nat
  /\ IsFiniteSet(Runner) /\ Registered \in [Runner -> Race]
  /\ \A r \in Runner : Gender[r] \in {"M", "F", "O"} /\ Age[r] \in 0 .. 200
  /\ Config \subseteq AwardConfig /\ None \notin Config

(* The finishers of an event in the order of the chute, each once.         *)
Finish == {f \in UNION {[1 .. n -> Runner] : n \in 0 .. Cardinality(Runner)} :
             \A j, k \in DOMAIN f : f[j] = f[k] => j = k}

-----------------------------------------------------------------------------
(* GetAwards.                                                              *)

(* Who a category is for, and whether it is an age group.                  *)
Category(gender, min, max, count, group) ==
  [gender |-> gender, min |-> min, max |-> max, count |-> count, group |-> group]
Eligible(r, rule) == /\ rule.gender \in {"", Gender[r]}
                     /\ Age[r] >= rule.min /\ Age[r] <= rule.max

(* One category, or a male and a female one, if it gives any award.        *)
SplitCategory(split, min, max, count, group) ==
  IF count <= 0 THEN <<>>
  ELSE IF split THEN <<Category("M", min, max, count, group), Category("F", min, max, count, group)>>
  ELSE <<Category("", min, max, count, group)>>

(* Overall, the masters cascade from the youngest or, distributed, from    *)
(* the oldest, then the age groups.                                        *)
AgeGroups(split, depth, groups) ==
  LET upTo[k \in 0 .. Len(groups)] ==
        IF k = 0 THEN <<>>
        ELSE upTo[k - 1] \o SplitCategory(split, groups[k].min, groups[k].max, depth, TRUE)
  IN upTo
Categories(config) ==
  LET Master(k) ==
        LET m == config.masters[IF config.distributed THEN 4 - k ELSE k]
        IN SplitCategory(config.split, m.age, 200, m.count, FALSE)
  IN SplitCategory(config.split, 0, 200, config.overall, FALSE)
       \o Master(1) \o Master(2) \o Master(3)
       \o AgeGroups(config.split, config.depth, config.groups)[Len(config.groups)]

(* The first n of a list who are in a set, after each of the list.         *)
Picked(list, set, n) ==
  LET upTo[k \in 0 .. Len(list)] ==
        IF k = 0 THEN <<>>
        ELSE LET before == upTo[k - 1]
             IN IF list[k] \in set /\ Len(before) < n THEN Append(before, list[k]) ELSE before
  IN upTo
FirstOf(list, set, n) == Picked(list, set, n)[Len(list)]

(* The first of a category who have no award yet; after each category.     *)
Claimed(awards) == UNION {Range(awards[k].winners) : k \in DOMAIN awards}
UnclaimedSlip(awards, category) == {r \in Runner : Eligible(r, category)}
Unclaimed(awards, category) == {r \in Runner \ Claimed(awards) : Eligible(r, category)}
GetWinners(finish, awards, category) ==
  LET winners == FirstOf(finish, Unclaimed(awards, category), category.count)
  IN IF winners = <<>> THEN awards
     ELSE Append(awards, [category |-> category, winners |-> winners])
Awarded(finish, categories) ==
  LET upTo[k \in 0 .. Len(categories)] ==
        IF k = 0 THEN <<>> ELSE GetWinners(finish, upTo[k - 1], categories[k])
  IN upTo
GetAwards(config, finish) ==
  LET categories == Categories(config) IN Awarded(finish, categories)[Len(categories)]

-----------------------------------------------------------------------------
(* getRunnerAwardStanding, of what a board was told.                       *)

(* The rule is read off the name again: 60-99 is called 60+.               *)
AgeGroupRule(category) == IF category.max >= 99 THEN [category EXCEPT !.max = 200] ELSE category

PlaceIn(list, r) == CHOOSE k \in DOMAIN list : list[k] = r /\ \A j \in 1 .. k - 1 : list[j] # r
PreviouslyClaimedSlip(awards, k) == {}
PreviouslyClaimed(awards, k) == Claimed(SubSeq(awards, 1, k - 1))
Standing(k, place, wins) == [of |-> k, place |-> place, wins |-> wins]
GetRunnerAwardStanding(r, results, awards) ==
  LET won == {k \in DOMAIN awards : r \in Range(awards[k].winners)}
      ranked == {k \in DOMAIN awards :
                   /\ awards[k].category.group
                   /\ Eligible(r, AgeGroupRule(awards[k].category))
                   /\ r \in Range(results) \ PreviouslyClaimed(awards, k)}
      First(ks) == CHOOSE k \in ks : \A j \in ks : k <= j
      Among(k) == FirstOf(results, {x \in Runner \ PreviouslyClaimed(awards, k) :
                                      Eligible(x, AgeGroupRule(awards[k].category))}, Len(results))
  IN IF won # {} THEN Standing(First(won), PlaceIn(awards[First(won)].winners, r), TRUE)
     ELSE IF ranked # {} THEN Standing(First(ranked), PlaceIn(Among(First(ranked)), r), FALSE)
     ELSE None

-----------------------------------------------------------------------------
VARIABLES
  finish,        (* the finishers of each event                            *)
  config,        (* award_configs                                          *)
  browser,       (* isBrowser: one request after the other                 *)
  board,         (* the board shown, "awards", "live" or, dead, "blank"    *)
  selected,      (* its selectedID                                         *)
  awards,        (* categories, by the configuration and finish they are of*)
  results,       (* fullResults or lastFinishers                           *)
  loads,         (* the loads under way                                    *)
  setup,         (* AwardConfigView: selected event, config, its requests  *)
  changes
resultsVars == <<finish, config, browser, board, selected, awards, results,
                 loads, setup, changes>>
shownBoard == <<board, selected, awards, results>>
Change == changes < MaxChanges /\ changes' = changes + 1

LoadData == [event |-> selected, config |-> None,
             awards |-> "asked", first |-> None,
             results |-> IF browser THEN "waiting" ELSE "asked", second |-> None]
Ended(r) == IF r.awards = "done" /\ r.results = "done" THEN None ELSE r

(* The timer asks again whether or not the last answers have come.         *)
PollSlip(s) ==
  /\ board # "blank" /\ loads[s] = None
  /\ loads' = [loads EXCEPT ![s] = [LoadData EXCEPT !.event = FirstRace]]
  /\ UNCHANGED <<finish, config, browser, shownBoard, setup, changes>>
PollBoard(s) ==
  /\ board # "blank" /\ loads[s] = None
  /\ loads' = [loads EXCEPT ![s] = LoadData]
  /\ UNCHANGED <<finish, config, browser, shownBoard, setup, changes>>

(* The laptop reads the configuration and then the finishers.              *)
GetAwardConfig(s) ==
  /\ loads[s] # None /\ loads[s].awards = "asked"
  /\ loads' = [loads EXCEPT ![s].awards = "configured",
                            ![s].config = config[loads[s].event]]
  /\ UNCHANGED <<finish, config, browser, shownBoard, setup, changes>>
AnswerAwards(s) ==
  /\ loads[s] # None /\ loads[s].awards = "configured"
  /\ loads' = [loads EXCEPT ![s].awards = "answered", ![s].first = finish[loads[s].event]]
  /\ UNCHANGED <<finish, config, browser, shownBoard, setup, changes>>
GetEventResults(s) ==
  /\ loads[s] # None /\ loads[s].results = "asked"
  /\ loads' = [loads EXCEPT ![s].results = "answered", ![s].second = finish[loads[s].event]]
  /\ UNCHANGED <<finish, config, browser, shownBoard, setup, changes>>

(* Without any award, nobody having finished whom a category is for, the   *)
(* answer is null.  The bindings of the laptop make an empty list of it    *)
(* and AwardsView does, but the live board of a browser maps over it.      *)
NullCategories(s) ==
  /\ browser /\ board = "live"
  /\ \A category \in Range(Categories(loads[s].config)), r \in Range(loads[s].first) :
       ~Eligible(r, category)

(* An answer is shown whatever event the board has come to.                *)
SetCategories(s) ==
  /\ loads[s] # None /\ loads[s].awards = "answered" /\ ~NullCategories(s)
  /\ awards' = [event |-> loads[s].event, config |-> loads[s].config,
                finish |-> loads[s].first]
  /\ LET r == [loads[s] EXCEPT !.awards = "done"]
     IN loads' = [loads EXCEPT ![s] = Ended([r EXCEPT !.results =
                    IF r.results = "waiting" THEN "asked" ELSE r.results])]
  /\ UNCHANGED <<finish, config, browser, board, selected, results, setup, changes>>
(* Nothing catches what the board throws: the page is empty from then on.  *)
BoardThrows(s) ==
  /\ loads[s] # None /\ loads[s].awards = "answered" /\ NullCategories(s)
  /\ board' = "blank" /\ awards' = None /\ results' = None
  /\ loads' = [t \in Slot |-> None]
  /\ UNCHANGED <<finish, config, browser, selected, setup, changes>>
SetResults(s) ==
  /\ loads[s] # None /\ loads[s].results = "answered"
  /\ results' = [event |-> loads[s].event,
                 list |-> IF board = "live" THEN Reverse(loads[s].second)
                          ELSE loads[s].second]
  /\ loads' = [loads EXCEPT ![s] = Ended([@ EXCEPT !.results = "done"])]
  /\ UNCHANGED <<finish, config, browser, board, selected, awards, setup, changes>>

(* What fails on the laptop is an error there, but for a browser an answer *)
(* null, that of an event without awards or finishers; what fails on the   *)
(* way ends the load of a browser.                                         *)
RequestFails(s) ==
  /\ Change
  /\ loads[s] # None
  /\ \/ browser /\ loads' = [loads EXCEPT ![s] = None]
     \/ /\ loads[s].awards \in {"asked", "configured"}
        /\ loads' = [loads EXCEPT ![s] =
             IF browser
             THEN [@ EXCEPT !.awards = "answered", !.config = DefaultConfig, !.first = <<>>]
             ELSE Ended([@ EXCEPT !.awards = "done"])]
     \/ /\ loads[s].results = "asked"
        /\ loads' = [loads EXCEPT ![s] =
             IF browser THEN [@ EXCEPT !.results = "answered", !.second = <<>>]
                        ELSE Ended([@ EXCEPT !.results = "done"])]
  /\ UNCHANGED <<finish, config, browser, shownBoard, setup>>

(* Selecting an event asks at once; what is shown stays until it is told.  *)
SelectRace(e, s) ==
  /\ Change
  /\ board # "blank" /\ e # selected /\ loads[s] = None
  /\ selected' = e
  /\ loads' = [loads EXCEPT ![s] = [LoadData EXCEPT !.event = e]]
  /\ UNCHANGED <<finish, config, browser, board, awards, results, setup>>

(* Another board is a component of its own, and hears no old answer.  An   *)
(* empty page is reloaded.                                                 *)
OpenBoard(b) ==
  /\ Change
  /\ b # board
  /\ board' = b
  /\ selected' = FirstRace /\ awards' = None /\ results' = None
  /\ loads' = [s \in Slot |-> None]
  /\ UNCHANGED <<finish, config, browser, setup>>

-----------------------------------------------------------------------------
(* The configuration.  It is asked for once for each event selected, and   *)
(* what comes is shown and saved under the event it is of.                 *)
SelectConfigRace(e) ==
  /\ Change
  /\ e # setup.selected
  /\ setup' = [setup EXCEPT !.selected = e, !.asked = @ \cup {e}]
  /\ UNCHANGED <<finish, config, browser, shownBoard, loads>>
SetConfig(e) ==
  /\ e \in setup.asked
  /\ setup' = [setup EXCEPT !.of = e, !.config = config[e], !.asked = @ \ {e}]
  /\ UNCHANGED <<finish, config, browser, shownBoard, loads, changes>>
EditConfig(c) ==
  /\ changes < MaxChanges
  /\ setup.config \notin {None, c}
  /\ setup' = [setup EXCEPT !.config = c]
  /\ UNCHANGED <<finish, config, browser, shownBoard, loads, changes>>
HandleSaveSlip ==
  /\ Change
  /\ setup.config # config[setup.of]
  /\ config' = [config EXCEPT ![setup.of] = setup.config]
  /\ UNCHANGED <<finish, browser, shownBoard, loads, setup>>
HandleSave ==
  /\ Change
  /\ setup.config # None /\ setup.config # config[setup.of]
  /\ config' = [config EXCEPT ![setup.of] = setup.config]
  /\ UNCHANGED <<finish, browser, shownBoard, loads, setup>>

(* The record: somebody is recorded at a place, or taken back.             *)
Recorded(r, k) ==
  /\ Change
  /\ LET e == Registered[r] IN
       /\ r \notin Range(finish[e]) /\ k \in 1 .. Len(finish[e]) + 1
       /\ finish' = [finish EXCEPT ![e] = InsertAt(@, k, r)]
  /\ UNCHANGED <<config, browser, shownBoard, loads, setup>>
Withdrawn(e, k) ==
  /\ Change
  /\ k \in DOMAIN finish[e]
  /\ finish' = [finish EXCEPT ![e] = RemoveAt(@, k)]
  /\ UNCHANGED <<config, browser, shownBoard, loads, setup>>

(* Some have finished, and there may be more to come or not.               *)
ResultsInit ==
  /\ finish \in [Race -> Finish]
  /\ \A e \in Race : \A k \in DOMAIN finish[e] : Registered[finish[e][k]] = e
  /\ config \in [Race -> Config] /\ \A e \in Race \ {FirstRace} : config[e] = DefaultConfig
  /\ browser \in BOOLEAN
  /\ board \in {"awards", "live"} /\ selected = FirstRace /\ awards = None /\ results = None
  /\ loads = [s \in Slot |-> None]
  /\ setup = [selected |-> FirstRace, asked |-> {FirstRace}, of |-> FirstRace, config |-> None]
  /\ changes \in {0, MaxChanges}

BoardStep(s) == \/ GetAwardConfig(s) \/ AnswerAwards(s) \/ GetEventResults(s)
                \/ SetCategories(s) \/ BoardThrows(s) \/ SetResults(s)
ConfigScreen == \/ \E e \in Race : SelectConfigRace(e) \/ SetConfig(e)
                \/ \E c \in Config : EditConfig(c)
                \/ HandleSave
TheRecord == \/ \E r \in Runner, k \in 1 .. Cardinality(Runner) : Recorded(r, k)
             \/ \E e \in Race, k \in 1 .. Cardinality(Runner) : Withdrawn(e, k)
Operator(s) == RequestFails(s) \/ (\E e \in Race : SelectRace(e, s))

ResultsNext ==
  \/ \E s \in Slot : PollBoard(s) \/ BoardStep(s) \/ Operator(s)
  \/ \E b \in {"awards", "live"} : OpenBoard(b)
  \/ ConfigScreen \/ TheRecord
ResultsSpec == ResultsInit /\ [][ResultsNext]_resultsVars
                 /\ \A s \in Slot : WF_resultsVars(PollBoard(s)) /\ WF_resultsVars(BoardStep(s))

-----------------------------------------------------------------------------
Load == [event : Race, config : Config \cup {None},
         awards : {"asked", "configured", "answered", "done"}, first : Finish \cup {None},
         results : {"waiting", "asked", "answered", "done"}, second : Finish \cup {None}]
ResultsTypeOK ==
  /\ finish \in [Race -> Finish] /\ config \in [Race -> Config]
  /\ browser \in BOOLEAN /\ board \in {"awards", "live", "blank"} /\ selected \in Race
  /\ awards \in [event : Race, config : Config, finish : Finish] \cup {None}
  /\ results \in [event : Race, list : Finish] \cup {None}
  /\ loads \in [Slot -> Load \cup {None}]
  /\ setup \in [selected : Race, asked : SUBSET Race, of : Race, config : Config \cup {None}]
  /\ changes \in 0 .. MaxChanges

Ahead(list, x, r) == \E j, k \in DOMAIN list : j < k /\ list[j] = x /\ list[k] = r

(* award_service.go:50-137: "Cascade: Winners are pulled into the highest  *)
(* category they qualify for. One trophy per person."                      *)
(* (AwardConfigView.tsx:143)  Nobody wins twice, nobody wins what is not   *)
(* for them, and a finisher who goes without an award of a category, and   *)
(* has none of an earlier one, was beaten by a full list of winners,       *)
(* however the categories overlap.  The code does the same of Distributed, *)
(* with the masters from the oldest: so the sentence on that strategy      *)
(* (AwardConfigView.tsx:144), that one wins only in one's age group, is    *)
(* not what it does.                                                       *)
AwardsAreFair ==
  awards # None =>
  LET list == GetAwards(awards.config, awards.finish)
      categories == Categories(awards.config)
      Winners(i) == Range(list[i].winners)
  IN /\ \A i, k \in DOMAIN list : i # k => Winners(i) \cap Winners(k) = {}
     /\ \A i \in DOMAIN list :
          /\ \A w \in Winners(i) : Eligible(w, list[i].category)
          /\ Cardinality(Winners(i)) <= list[i].category.count
     /\ \A j \in DOMAIN categories, r \in Range(awards.finish) :
          Eligible(r, categories[j]) =>
            \/ \E i \in DOMAIN list, m \in 1 .. j :
                 list[i].category = categories[m] /\ r \in Winners(i)
            \/ \E i \in DOMAIN list :
                 /\ list[i].category = categories[j]
                 /\ Cardinality(Winners(i)) = categories[j].count
                 /\ \A w \in Winners(i) : Ahead(awards.finish, w, r)

(* awardLookup.ts:48-74 and award_service.go: a board that was told awards *)
(* and results of the same finish, of people under a hundred, gives every  *)
(* finisher the place in the category shown, award or not: one behind      *)
(* those finishers ahead who are eligible and took no award before it.     *)
(* (The name read off again of 60-99 admits whoever is older than 99, whom *)
(* the laptop gives no award of it.)                                       *)
StandingsAgree ==
  awards # None /\ results # None /\ board = "awards"
    /\ awards.event = results.event /\ awards.finish = results.list
    /\ (\A r \in Range(results.list) : Age[r] < 100) =>
  LET list == GetAwards(awards.config, awards.finish)
  IN \A r \in Range(results.list) :
       LET s == GetRunnerAwardStanding(r, results.list, list)
           ahead == {x \in Range(results.list) :
                       /\ Ahead(results.list, x, r)
                       /\ Eligible(x, list[s.of].category)
                       /\ x \notin Claimed(SubSeq(list, 1, s.of - 1))}
       IN s # None => s.place = Cardinality(ahead) + 1

(* The board shows the selected event as it is.                            *)
BoardIsCurrent ==
  /\ awards = [event |-> selected, config |-> config[selected], finish |-> finish[selected]]
  /\ results = [event |-> selected,
                list |-> IF board = "live" THEN Reverse(finish[selected])
                         ELSE finish[selected]]
=============================================================================
