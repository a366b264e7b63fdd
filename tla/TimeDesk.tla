------------------------------ MODULE TimeDesk ------------------------------
(***************************************************************************)
(* The Finish Times screen of the laptop, TimeEntry.tsx, over the table    *)
(* timing_pulses it shares with the phones: one form that records a new    *)
(* time or edits the row selected, above a list that is polled.            *)
(***************************************************************************)
EXTENDS LaptopScreen

CONSTANTS
  Time,          (* the times that are entered                             *)
  MaxPulse       (* bound on the rows ever recorded                        *)

ASSUME TimeAssumption == MaxPulse \in Nat \ {0}

Id == 1 .. MaxPulse
Row == [scope : Event, place : Place, time : Time]
Table == [Id -> Row \cup {None}]
NoPulses == [i \in Id |-> None]

TimeOp == {"add", "update", "delete", "clear", "clear race"}
TimeCall == [op : TimeOp, event : Event, id : Id \cup {None},
             row : Row \cup {None}, was : Row \cup {None}, next : 1 .. MaxPlace + 1,
             sure : BOOLEAN, written : BOOLEAN]
TimeLoad == [of : Event, answer : Table \cup {None}]

ASSUME NoRowAssumption ==
  None \notin Row /\ None \notin Table /\ None \notin TimeCall
    /\ None \notin TimeLoad /\ None \notin Id /\ None \notin Time

VARIABLES
  pulse,         (* timing_pulses of the race                              *)
  lastId,        (* its AUTOINCREMENT                                      *)
  timesEvent,    (* selectedEventID                                        *)
  listed,        (* pulses: the rows shown                                 *)
  sequence,      (* targetPlace; 0 while it is empty                       *)
  typed,         (* timeValue, or None                                     *)
  editing,       (* editingID and its ref                                  *)
  touched,       (* formDirtyRef                                           *)
  picked,        (* history: the row as it was selected for editing        *)
  sure,          (* history: nobody typed the sequence number, and for a   *)
                 (* new time nobody wrote since it was set                 *)
  timesLoad,     (* pulseLoadInFlight and the load it stands for           *)
  timesCall,     (* the calls under way, with what their closures hold     *)
  timesActs
form == <<sequence, typed, editing, touched, picked, sure>>
timesVars == <<pulse, lastId, timesEvent, listed, form, timesLoad, timesCall,
               timesActs>>

PulsesOf(e) == {i \in Id : pulse[i] # None /\ pulse[i].scope = e}
Listing(e) == [i \in Id |-> IF i \in PulsesOf(e) THEN pulse[i] ELSE None]
NextSequence(table) ==
  NextAfter({table[i].place : i \in {j \in Id : table[j] # None}})
TimesAct == timesActs < MaxActs /\ timesActs' = timesActs + 1

(* A phone records or the laptop writes: numbers set before are not sure   *)
(* any more, those of times on their way to the laptop neither.            *)
Outdated(calls) ==
  [c \in Call |-> IF calls[c] # None /\ calls[c].op = "add"
                  THEN [calls[c] EXCEPT !.sure = FALSE] ELSE calls[c]]
NumbersOutdated == sure' = (sure /\ editing # None)

-----------------------------------------------------------------------------
BeginPulseLoad(e) ==
  timesLoad' = IF timesLoad = None THEN [of |-> e, answer |-> None] ELSE timesLoad

PollPulses ==
  /\ timesLoad = None
  /\ BeginPulseLoad(timesEvent)
  /\ UNCHANGED <<pulse, lastId, timesEvent, listed, form, timesCall, timesActs>>

ListTimingPulses ==
  /\ timesLoad # None /\ timesLoad.answer = None
  /\ timesLoad' = [timesLoad EXCEPT !.answer = Listing(timesLoad.of)]
  /\ UNCHANGED <<pulse, lastId, timesEvent, listed, form, timesCall, timesActs>>

(* The form is the operator's from the first key or selection on.          *)
UntouchedSlip == TRUE
Untouched == editing = None /\ ~touched

LoadPulsesSlip ==
  /\ timesLoad # None /\ timesLoad.answer # None
  /\ listed' = timesLoad.answer
  /\ UNCHANGED <<pulse, lastId, timesEvent, form, timesLoad, timesCall, timesActs>>
LoadPulses ==
  /\ timesLoad # None /\ timesLoad.answer # None
  /\ listed' = timesLoad.answer
  /\ IF Untouched
     THEN /\ sequence' = NextSequence(listed')
          /\ sure' = (listed' = Listing(timesEvent))
     ELSE UNCHANGED <<sequence, sure>>
  /\ timesLoad' = None
  /\ UNCHANGED <<pulse, lastId, timesEvent, typed, editing, touched, picked,
                 timesCall, timesActs>>

PulseLoadFails ==
  /\ TimesAct
  /\ timesLoad # None /\ timesLoad.answer = None
  /\ timesLoad' = None
  /\ UNCHANGED <<pulse, lastId, timesEvent, listed, form, timesCall>>

SelectTimesEvent(e) ==
  /\ TimesAct
  /\ e # timesEvent
  /\ timesEvent' = e
  /\ editing' = None /\ picked' = None /\ touched' = FALSE /\ typed' = None
  /\ sure' = FALSE
  /\ BeginPulseLoad(e)
  /\ UNCHANGED <<pulse, lastId, listed, sequence, timesCall>>

-----------------------------------------------------------------------------
(* The form.                                                               *)
TypeSequence(p) ==
  /\ TimesAct
  /\ sequence' = p /\ touched' = TRUE /\ sure' = FALSE
  /\ UNCHANGED <<pulse, lastId, timesEvent, listed, typed, editing, picked,
                 timesLoad, timesCall>>
TypeTime(t) ==
  /\ TimesAct
  /\ typed' = t /\ touched' = TRUE
  /\ UNCHANGED <<pulse, lastId, timesEvent, listed, sequence, editing, picked,
                 sure, timesLoad, timesCall>>

HandleSelect(i) ==
  /\ TimesAct
  /\ listed[i] # None
  /\ editing' = i /\ touched' = TRUE
  /\ sequence' = listed[i].place /\ typed' = listed[i].time
  /\ picked' = listed[i] /\ sure' = TRUE
  /\ UNCHANGED <<pulse, lastId, timesEvent, listed, timesLoad, timesCall>>

Emptied(next) ==
  /\ editing' = None /\ picked' = None /\ touched' = FALSE
  /\ sequence' = next /\ typed' = None /\ sure' = FALSE

ResetForm ==
  /\ TimesAct
  /\ editing # None
  /\ Emptied(NextSequence(listed))
  /\ UNCHANGED <<pulse, lastId, timesEvent, listed, timesLoad, timesCall>>

SendTimes(c, op, i, row) ==
  /\ TimesAct
  /\ timesCall[c] = None
  /\ timesCall' = [timesCall EXCEPT ![c] =
       [op |-> op, event |-> timesEvent, id |-> i, row |-> row,
        was |-> IF editing = i THEN picked ELSE None,
        next |-> NextSequence(listed), sure |-> sure, written |-> FALSE]]
  /\ UNCHANGED <<pulse, lastId, timesEvent, listed, form, timesLoad>>

(* A row that is no longer listed is not updated.                          *)
HandleSubmit(c) ==
  /\ typed # None /\ sequence \in Place
  /\ LET row == [scope |-> timesEvent, place |-> sequence, time |-> typed]
     IN IF editing = None
        THEN SendTimes(c, "add", None, row)
        ELSE listed[editing] # None /\ SendTimes(c, "update", editing, row)

HandleDeleteTime(c, i) == listed[i] # None /\ SendTimes(c, "delete", i, None)
HandleDeleteAllTimes(c) == SendTimes(c, "clear", None, None)
HandleDeleteAllRaceTimes(c) == SendTimes(c, "clear race", None, None)

-----------------------------------------------------------------------------
(* The laptop carries a call out.                                          *)
Applied(r) ==
  CASE r.op = "update" -> IF pulse[r.id] = None THEN pulse
                          ELSE [pulse EXCEPT ![r.id] = r.row]
    [] r.op = "delete" -> [pulse EXCEPT ![r.id] = None]
    [] r.op = "clear" -> [i \in Id |-> IF i \in PulsesOf(r.event) THEN None ELSE pulse[i]]
    [] OTHER -> NoPulses

AddTimingPulse(c) ==
  /\ timesCall[c] # None /\ ~timesCall[c].written /\ timesCall[c].op = "add"
  /\ lastId < MaxPulse
  /\ pulse' = [pulse EXCEPT ![lastId + 1] = timesCall[c].row]
  /\ lastId' = lastId + 1
  /\ timesCall' = [Outdated(timesCall) EXCEPT ![c].written = TRUE]
  /\ NumbersOutdated
  /\ UNCHANGED <<timesEvent, listed, sequence, typed, editing, touched, picked,
                 timesLoad, timesActs>>
ChangePulses(c) ==
  /\ timesCall[c] # None /\ ~timesCall[c].written /\ timesCall[c].op # "add"
  /\ pulse' = Applied(timesCall[c])
  /\ timesCall' = [Outdated(timesCall) EXCEPT ![c].written = TRUE]
  /\ NumbersOutdated
  /\ UNCHANGED <<lastId, timesEvent, listed, sequence, typed, editing, touched,
                 picked, timesLoad, timesActs>>

(* After a new time the form keeps its sequence number until a load        *)
(* answers; after an edit, or the deletion of the row edited, it takes the *)
(* next one of the moment the button was pressed.                          *)
Cleaned(r) ==
  IF r.op = "update" \/ (r.op = "delete" /\ r.was # None) THEN Emptied(r.next)
  ELSE IF r.op = "delete" THEN UNCHANGED form
  ELSE /\ touched' = FALSE /\ typed' = None
       /\ IF r.op = "add"
          THEN /\ sure' = (sure /\ editing # None)
               /\ UNCHANGED <<editing, picked>>
          ELSE editing' = None /\ picked' = None /\ sure' = FALSE
       /\ UNCHANGED sequence

TimesThen(c) ==
  /\ timesCall[c] # None /\ timesCall[c].written
  /\ Cleaned(timesCall[c])
  /\ timesCall' = [timesCall EXCEPT ![c] = None]
  /\ BeginPulseLoad(timesCall[c].event)
  /\ UNCHANGED <<pulse, lastId, timesEvent, listed, timesActs>>

(* A phone records behind the last time, or takes the last one back.       *)
TimerRecords(e, t) ==
  /\ TimesAct
  /\ lastId < MaxPulse /\ NextSequence(Listing(e)) \in Place
  /\ pulse' = [pulse EXCEPT ![lastId + 1] =
       [scope |-> e, place |-> NextSequence(Listing(e)), time |-> t]]
  /\ lastId' = lastId + 1
  /\ NumbersOutdated /\ timesCall' = Outdated(timesCall)
  /\ UNCHANGED <<timesEvent, listed, sequence, typed, editing, touched,
                 picked, timesLoad>>
TimerUndoes(i) ==
  /\ TimesAct
  /\ pulse[i] # None /\ NextSequence(Listing(pulse[i].scope)) = pulse[i].place + 1
  /\ pulse' = [pulse EXCEPT ![i] = None]
  /\ UNCHANGED <<lastId, timesEvent, listed, form, timesLoad, timesCall>>

-----------------------------------------------------------------------------
(* The screen opens on times the phones may have begun to record.          *)
TimesInit ==
  /\ lastId \in 0 .. MaxPulse
  /\ \E t \in Time : pulse \in [Id -> {None} \cup
       {[scope |-> FirstEvent, place |-> p, time |-> t] : p \in Place}]
  /\ \A i \in Id : pulse[i] # None <=> i <= lastId
  /\ \A i \in Id : pulse[i] # None => pulse[i].place = i
  /\ timesEvent = FirstEvent
  /\ listed = NoPulses
  /\ sequence = 0 /\ typed = None /\ editing = None /\ touched = FALSE
  /\ picked = None /\ sure = FALSE
  /\ timesLoad = [of |-> FirstEvent, answer |-> None]
  /\ timesCall = [c \in Call |-> None]
  /\ timesActs = 0

TimeForm(c) == \/ \E p \in Place : TypeSequence(p)
               \/ \E t \in Time : TypeTime(t)
               \/ HandleSubmit(c)
TimeList(c) == \E i \in Id : HandleSelect(i) \/ HandleDeleteTime(c, i)
TimeHeader(c) == \/ \E e \in Event : SelectTimesEvent(e)
                 \/ ResetForm \/ HandleDeleteAllTimes(c) \/ HandleDeleteAllRaceTimes(c)
Timers == \/ \E e \in Event, t \in Time : TimerRecords(e, t)
          \/ \E i \in Id : TimerUndoes(i)
PulseLoads == PollPulses \/ ListTimingPulses \/ LoadPulses
Answers(c) == AddTimingPulse(c) \/ ChangePulses(c) \/ TimesThen(c)

TimesNext ==
  \/ \E c \in Call : TimeForm(c) \/ TimeList(c) \/ TimeHeader(c) \/ Answers(c)
  \/ PulseLoads \/ PulseLoadFails
  \/ Timers

TimesFairness == /\ WF_timesVars(PulseLoads)
                 /\ \A c \in Call : WF_timesVars(Answers(c))
TimesSpec == TimesInit /\ [][TimesNext]_timesVars /\ TimesFairness

-----------------------------------------------------------------------------
TimesTypeOK ==
  /\ pulse \in Table /\ lastId \in 0 .. MaxPulse
  /\ timesEvent \in Event /\ listed \in Table
  /\ sequence \in 0 .. MaxPlace + 1 /\ typed \in Time \cup {None}
  /\ editing \in Id \cup {None} /\ touched \in BOOLEAN
  /\ picked \in Row \cup {None} /\ sure \in BOOLEAN
  /\ timesLoad \in TimeLoad \cup {None}
  /\ timesCall \in [Call -> TimeCall \cup {None}]
  /\ timesActs \in 0 .. MaxActs

(* TimeEntry.tsx:51-93: the order of the finish is not changed by mistake. *)
(* An edit in which nobody typed a sequence number leaves the time where   *)
(* it stood when it was selected, whatever was loaded meanwhile.           *)
EditKeepsPlace ==
  [][\A c \in Call :
       LET r == timesCall[c] IN
       ChangePulses(c) /\ r.op = "update" /\ r.sure => r.row.place = r.was.place]_timesVars

(* TimeEntry.tsx:49-53, 95-101: no two finishers get one place.  A new     *)
(* time, at the sequence number a load of its event set, goes to a free    *)
(* place if nobody recorded or edited between that load and the write.     *)
TimesAppend ==
  [][\A c \in Call :
       LET r == timesCall[c] IN
       AddTimingPulse(c) /\ r.sure =>
         \A i \in PulsesOf(r.event) : pulse[i].place # r.row.place]_timesVars

(* The screen lists what there is, and an untouched form aims behind it.   *)
TimesCaughtUp == /\ listed = Listing(timesEvent)
                 /\ Untouched => sequence = NextSequence(listed)
=============================================================================
