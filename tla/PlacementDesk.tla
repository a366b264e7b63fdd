---------------------------- MODULE PlacementDesk ----------------------------
(***************************************************************************)
(* The Placements screen of the laptop, PlacementEntry.tsx, over the chute *)
(* table it shares with the phones.  The screen polls the rows of the      *)
(* selected event, aims at the place after them unless the operator chose  *)
(* one, and assigns what is typed or scanned there: it asks the laptop     *)
(* whether the bib is placed already, may ask the operator, and writes.    *)
(* Every answer finds the screen as it then is, but a call goes on with    *)
(* the rows and the event of the moment it was submitted.                  *)
(*                                                                         *)
(* A numbered placeholder is looked up, refused and stored like a bib, so  *)
(* it is one.  The banners, names and clock of the screen are left out.    *)
(* The phones are CompanionRecord; here they append and take back rows.    *)
(***************************************************************************)
EXTENDS LaptopScreen

CONSTANTS
  Bib,           (* bibs and numbered placeholders                         *)
  Placeholder,   (* the placeholders among them                            *)
  Excluded       (* a finish without result: a marker found nowhere else   *)

ASSUME BibAssumption == Placeholder \subseteq Bib /\ Excluded \notin Bib

Mark == [dup : BOOLEAN, of : Bib \cup {Excluded}]
Plain(b) == [dup |-> FALSE, of |-> b]
Dup(b) == [dup |-> TRUE, of |-> b]

(* The screen assigns to the places from 1 on, but a row that is shifted   *)
(* up from place 1 stands at place 0.                                      *)
Slot == 0 .. MaxPlace
Rows == [Slot -> Mark \cup {None}]
NoRows == [p \in Slot |-> None]

Op == {"assign", "delete", "shift down", "shift up", "clear", "clear race"}
Phase == {"asking", "checking", "writing", "written"}
Request == [op : Op, event : Event, place : Place, mark : Mark \cup {None},
            skip : BOOLEAN, asked : BOOLEAN, seen : Rows, phase : Phase]
Load == [of : Event, answer : Rows \cup {None}]

ASSUME NoneAssumption ==
  None \notin Mark /\ None \notin Rows /\ None \notin Request /\ None \notin Load

VARIABLES
  chute,     (* chute_assignments of the race                              *)
  event,     (* selectedEventID                                            *)
  scanner,   (* scannerMode                                                *)
  rows,      (* placements: the rows shown                                 *)
  rowsOf,    (* the event they were asked of                               *)
  target,    (* place; 0 while it is empty                                 *)
  dirty,     (* targetDirtyRef: the operator chose the target              *)
  settled,   (* history: a load set the target since the last assignment   *)
             (* or change of event                                         *)
  load,      (* placementLoadInFlight and the load it stands for           *)
  call,      (* the calls under way, each with what its closure holds      *)
  acts
vars == <<chute, event, scanner, rows, rowsOf, target, dirty, settled, load,
          call, acts>>
aim == <<target, dirty, settled>>
screen == <<event, scanner, rows, rowsOf>>

Filled(table) == {p \in Slot : table[p] # None}
NextPlace(table) == NextAfter(Filled(table))

(* Where the race holds a bib; a duplicate or excluded finish is no bib.   *)
(* Asked for it, the laptop names any one of these rows.                   *)
Holding(v) == {x \in Event \X Slot : /\ ~v.dup /\ v.of # Excluded
                                     /\ chute[x[1]][x[2]] = v}
Found(v) == IF Holding(v) = {} THEN {<<None, 0>>} ELSE Holding(v)
Act == acts < MaxActs /\ acts' = acts + 1

-----------------------------------------------------------------------------
(* The load: loadPlacements and the timer that repeats it every second.    *)

(* Nothing is asked while an answer is awaited.                            *)
BeginLoad(e) ==
  load' = IF load = None THEN [of |-> e, answer |-> None] ELSE load

Poll ==
  /\ load = None
  /\ BeginLoad(event)
  /\ UNCHANGED <<chute, screen, aim, call, acts>>

(* The laptop reads the rows; the screen learns of it later.               *)
ListPlacements ==
  /\ load # None /\ load.answer = None
  /\ load' = [load EXCEPT !.answer = chute[load.of]]
  /\ UNCHANGED <<chute, screen, aim, call, acts>>

LoadPlacementsSlip ==
  /\ load # None /\ load.answer # None
  /\ rows' = load.answer /\ rowsOf' = load.of
  /\ target' = IF dirty THEN target ELSE NextPlace(load.answer)
  /\ settled' = (settled \/ ~dirty)
  /\ UNCHANGED <<load, chute, event, scanner, dirty, call, acts>>
LoadPlacements ==
  /\ load # None /\ load.answer # None
  /\ rows' = load.answer /\ rowsOf' = load.of
  /\ target' = IF dirty THEN target ELSE NextPlace(load.answer)
  /\ settled' = (settled \/ ~dirty)
  /\ load' = None
  /\ UNCHANGED <<chute, event, scanner, dirty, call, acts>>

LoadFails ==
  /\ Act
  /\ load # None /\ load.answer = None
  /\ load' = None
  /\ UNCHANGED <<chute, screen, aim, call>>

(* The next load is of the new event, unless one is under way: then its    *)
(* answer is shown, and aimed by, until the timer asks again.              *)
SelectEvent(e) ==
  /\ Act
  /\ e # event
  /\ event' = e
  /\ dirty' = FALSE /\ settled' = FALSE
  /\ BeginLoad(e)
  /\ UNCHANGED <<chute, scanner, rows, rowsOf, target, call>>

SelectPlace(p) ==
  /\ Act
  /\ target' = p /\ dirty' = TRUE
  /\ UNCHANGED <<chute, screen, settled, load, call>>

ResetTarget ==
  /\ Act
  /\ target' = NextPlace(rows) /\ dirty' = FALSE
  /\ UNCHANGED <<chute, screen, settled, load, call>>

-----------------------------------------------------------------------------
(* handleAssign, cut where it awaits the laptop.                           *)

(* A known bib becomes a duplicate finish.  Without skipConfirm replacing  *)
(* the row seen at the target needs the operator's yes.                    *)
DecideSlip(c, r, known) ==
  LET v == IF known THEN Dup(r.mark.of) ELSE r.mark
  IN call' = [call EXCEPT ![c] = [r EXCEPT !.mark = v, !.phase = "checking"]]
Decide(c, r, known) ==
  LET v == IF known THEN Dup(r.mark.of) ELSE r.mark
      confirm == ~r.skip /\ r.seen[r.place] \notin {None, v}
      send == [r EXCEPT !.mark = v, !.asked = @ \/ confirm, !.phase = "checking"]
  IN \/ call' = [call EXCEPT ![c] = send]
     \/ confirm /\ call' = [call EXCEPT ![c] = None]

Seen(r, q) == r.mark.of # Excluded /\ r.seen[q] = r.mark

MaySubmitSlip(c, p) == call[c] = None
MaySubmit(c, p) == call[c] = None /\ p \in Place

Submit(c, p, b, skip) ==
  /\ Act
  /\ MaySubmit(c, p)
  /\ LET r == [op |-> "assign", event |-> event, place |-> p,
               mark |-> Plain(b), skip |-> skip,
               asked |-> skip /\ (dirty \/ ~settled), seen |-> rows,
               phase |-> "asking"]
     IN IF ~Seen(r, 0) /\ \E q \in Place \ {p} : Seen(r, q)
        THEN Decide(c, r, TRUE)
        ELSE call' = [call EXCEPT ![c] = r]
  /\ UNCHANGED <<chute, screen, aim, load>>

(* The bib may be on record where the rows seen did not show it; seen at   *)
(* the target itself it is no duplicate.  Place 0 counts as none.          *)
GetBibAssignmentSlip(c) ==
  /\ call[c] # None /\ call[c].phase = "asking"
  /\ \E x \in Found(call[c].mark) : Decide(c, call[c], x[2] # 0)
  /\ UNCHANGED <<chute, screen, aim, load, acts>>
GetBibAssignment(c) ==
  /\ call[c] # None /\ call[c].phase = "asking"
  /\ \E x \in Found(call[c].mark) :
       Decide(c, call[c], x[2] # 0 /\ ~Seen(call[c], call[c].place))
  /\ UNCHANGED <<chute, screen, aim, load, acts>>

(* preventImplicitBibMove: a bib found at another place is refused.        *)
PreventImplicitBibMove(c) ==
  /\ call[c] # None /\ call[c].phase = "checking"
  /\ \E x \in Found(call[c].mark) :
       IF x[2] = 0 \/ x = <<call[c].event, call[c].place>>
       THEN call' = [call EXCEPT ![c].phase = "writing"]
       ELSE call' = [call EXCEPT ![c] = None]
  /\ UNCHANGED <<chute, screen, aim, load, acts>>

(* The row at the place is replaced, whatever it is by then.               *)
Answered(r) == [r EXCEPT !.phase = "written", !.mark = None, !.seen = NoRows]
UpsertChuteAssignment(c) ==
  /\ call[c] # None /\ call[c].phase = "writing" /\ call[c].op = "assign"
  /\ chute' = [chute EXCEPT ![call[c].event][call[c].place] = call[c].mark]
  /\ call' = [call EXCEPT ![c] = Answered(@)]
  /\ UNCHANGED <<screen, aim, load, acts>>

(* The target is the screen's again; it changes with the next answer.  The *)
(* load is of the event of the call.                                       *)
Then(c) ==
  /\ call[c] # None /\ call[c].phase = "written"
  /\ call' = [call EXCEPT ![c] = None]
  /\ IF call[c].op = "assign" THEN dirty' = FALSE /\ settled' = FALSE
                              ELSE UNCHANGED <<dirty, settled>>
  /\ BeginLoad(call[c].event)
  /\ UNCHANGED <<chute, screen, target, acts>>

-----------------------------------------------------------------------------
(* The other edits of the table, each confirmed and then sent.             *)
Send(c, op, p) ==
  /\ Act
  /\ call[c] = None
  /\ call' = [call EXCEPT ![c] =
       [op |-> op, event |-> event, place |-> p, mark |-> None, skip |-> TRUE,
        asked |-> TRUE, seen |-> NoRows, phase |-> "writing"]]
  /\ UNCHANGED <<chute, screen, aim, load>>

HandleShift(c, p) == \E op \in {"shift down", "shift up"} : Send(c, op, p)
HandleDelete(c, p) == Send(c, "delete", p)
HandleDeleteAll(c) == Send(c, "clear", 1)
HandleDeleteAllRace(c) == Send(c, "clear race", 1)

(* Every row from p on moves by one, or none does if one has no room.      *)
ShiftedTo(table, p, delta) ==
  [q \in Slot |-> IF q - delta >= p /\ q - delta \in Slot /\ table[q - delta] # None
                  THEN table[q - delta] ELSE IF q >= p THEN None ELSE table[q]]
Shift(table, p, delta) ==
  IF \A q \in Filled(table) : q >= p =>
       /\ q + delta \in Slot
       /\ q + delta < p => table[q + delta] = None
  THEN ShiftedTo(table, p, delta) ELSE table

Edited(r) ==
  CASE r.op = "delete" -> [chute EXCEPT ![r.event][r.place] = None]
    [] r.op = "shift down" -> [chute EXCEPT ![r.event] = Shift(@, r.place, 1)]
    [] r.op = "shift up" -> [chute EXCEPT ![r.event] = Shift(@, r.place, -1)]
    [] r.op = "clear" -> [chute EXCEPT ![r.event] = NoRows]
    [] OTHER -> [e \in Event |-> NoRows]

EditTable(c) ==
  /\ call[c] # None /\ call[c].phase = "writing" /\ call[c].op # "assign"
  /\ chute' = Edited(call[c])
  /\ call' = [call EXCEPT ![c] = Answered(@)]
  /\ UNCHANGED <<screen, aim, load, acts>>

-----------------------------------------------------------------------------
(* What the operator finds on the screen.                                  *)
Buttons(c, p) == \E b \in Placeholder \cup {Excluded} : Submit(c, p, b, TRUE)

AssignForm(c) ==
  /\ ~scanner
  /\ \/ \E b \in Bib : Submit(c, target, b, FALSE)
     \/ Buttons(c, target)
     \/ \E p \in Place : SelectPlace(p)
     \/ ResetTarget

ScannerForm(c) ==
  /\ scanner
  /\ \/ \E b \in Bib : Submit(c, target, b, TRUE)
     \/ Buttons(c, target)
     \/ ResetTarget

(* One line for every place up to the last; an empty one can be filled.    *)
TableRows == 1 .. Highest(Filled(rows))
EmptyRow(c, p) ==
  /\ rows[p] = None
  /\ \/ SelectPlace(p)
     \/ \E n \in Placeholder : Submit(c, p, n, TRUE)
PlacedRow(c, p) ==
  /\ rows[p] # None
  /\ SelectPlace(p) \/ HandleShift(c, p) \/ HandleDelete(c, p)

ToggleScanner ==
  /\ Act
  /\ scanner' = ~scanner
  /\ UNCHANGED <<chute, event, rows, rowsOf, aim, load, call>>
Header(c) ==
  \/ \E e \in Event : SelectEvent(e)
  \/ ToggleScanner
  \/ HandleDeleteAll(c) \/ HandleDeleteAllRace(c)
DeleteKey(c) == target \in Place /\ HandleDelete(c, target)

(* A phone appends behind the last row, a bib on record as a duplicate, or *)
(* takes the last row back.                                                *)
PhoneRecords(e, b) ==
  /\ Act
  /\ NextPlace(chute[e]) \in Place
  /\ chute' = [chute EXCEPT ![e][NextPlace(chute[e])] =
       IF Holding(Plain(b)) = {} THEN Plain(b) ELSE Dup(b)]
  /\ UNCHANGED <<screen, aim, load, call>>
PhoneUndoes(e) ==
  /\ Act
  /\ Highest(Filled(chute[e])) \in Place
  /\ chute' = [chute EXCEPT ![e][Highest(Filled(chute[e]))] = None]
  /\ UNCHANGED <<screen, aim, load, call>>

(* The screen opens on a chute the phones may have begun.                  *)
Started(table) ==
  \E n \in 0 .. MaxPlace : /\ \A p \in 1 .. n : table[p] \in {Plain(b) : b \in Bib}
                           /\ \A p \in Slot : p \notin 1 .. n => table[p] = None
Init ==
  /\ chute \in [Event -> {table \in Rows : Started(table)}]
  /\ \A v \in Mark : Cardinality(Holding(v)) <= 1
  /\ event = FirstEvent
  /\ scanner = FALSE
  /\ rows = NoRows /\ rowsOf = event
  /\ target = 0 /\ dirty = FALSE /\ settled = FALSE
  /\ load = [of |-> event, answer |-> None]
  /\ call = [c \in Call |-> None]
  /\ acts = 0

Operator(c) == \/ AssignForm(c) \/ ScannerForm(c) \/ Header(c) \/ DeleteKey(c)
               \/ \E p \in TableRows : EmptyRow(c, p) \/ PlacedRow(c, p)
Goes(c) == \/ GetBibAssignment(c) \/ PreventImplicitBibMove(c)
           \/ UpsertChuteAssignment(c) \/ EditTable(c) \/ Then(c)
Loads == Poll \/ ListPlacements \/ LoadPlacements
Phones == \E e \in Event : PhoneUndoes(e) \/ \E b \in Bib : PhoneRecords(e, b)

Next ==
  \/ \E c \in Call : Operator(c) \/ Goes(c)
  \/ Loads \/ LoadFails
  \/ Phones

(* The timer ticks, and the laptop answers what it is asked.               *)
Fairness == WF_vars(Loads) /\ \A c \in Call : WF_vars(Goes(c))

Spec == Init /\ [][Next]_vars /\ Fairness

-----------------------------------------------------------------------------
TypeOK ==
  /\ chute \in [Event -> Rows]
  /\ event \in Event /\ scanner \in BOOLEAN
  /\ rows \in Rows /\ rowsOf \in Event
  /\ target \in 0 .. MaxPlace + 1 /\ dirty \in BOOLEAN /\ settled \in BOOLEAN
  /\ load \in Load \cup {None}
  /\ call \in [Call -> Request \cup {None}]
  /\ acts \in 0 .. MaxActs

(* PlacementEntry.tsx:200-269: no runner the operator saw is replaced      *)
(* behind his back.  Over another row that the rows shown had at the place *)
(* an assignment is written only if he said yes or, where the screen does  *)
(* not ask, chose the place or did not wait for the table after the last   *)
(* assignment.  What came after the rows shown were read, a phone's entry  *)
(* or his own last scan, has no such protection.                           *)
ReplacesSeenOnlyAsAsked ==
  [][\A c \in Call : UpsertChuteAssignment(c) =>
       LET r == call[c] IN
       /\ chute[r.event][r.place] \notin {None, r.mark}
       /\ r.seen[r.place] \notin {None, r.mark}
       => r.asked]_vars

(* PlacementEntry.tsx:208-231: a bib scanned again where the rows shown    *)
(* have it is not put over its original as a duplicate of itself, unless   *)
(* they have it elsewhere too.  Rows that do not show the first scan yet   *)
(* let that happen, with a banner that says the original was preserved.    *)
RescanKeepsOriginal ==
  [][\A c \in Call : UpsertChuteAssignment(c) =>
       LET r == call[c] IN
       \A b \in Bib :
         /\ r.mark = Dup(b) /\ chute[r.event][r.place] = Plain(b)
         /\ r.seen[r.place] = Plain(b)
         => \E q \in Place \ {r.place} : r.seen[q] = Plain(b)]_vars

(* The screen shows what there is, and aims behind it.                     *)
CaughtUp == /\ rowsOf = event /\ rows = chute[event]
            /\ ~dirty => target = NextPlace(rows)
=============================================================================
