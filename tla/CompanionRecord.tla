--------------------------- MODULE CompanionRecord ---------------------------
(***************************************************************************)
(* What the phones record, and what the laptop does to the same rows: the  *)
(* official start, timing_pulses, chute_assignments and companion_requests *)
(* of one race.                                                            *)
(*                                                                         *)
(* PhoneNext is services/companion_service.go (Submit, Undo).  DeskNext is *)
(* the laptop's own screens: services/timing_service.go,                   *)
(* internal/repository/timing_repository.go and the race clock.  A phone   *)
(* call is one SQL transaction; the laptop's calls are not all, and where  *)
(* they are several statements a phone can come between.                   *)
(*                                                                         *)
(* Who may call is CompanionAccess.  Here any device may be let through    *)
(* authentication at any time, which allows more than the service does.    *)
(* An entry the service refuses, because its capture time is implausible,  *)
(* its calibration expired, its clock uncertain or its request known,      *)
(* changes nothing: it is the absence of an action.                        *)
(***************************************************************************)
EXTENDS Integers, FiniteSets

CONSTANTS
  Scope,         (* event ids a session may record into                    *)
  CommonChute,   (* event id 0, one of them                                *)
  Device, Session,
  DeviceSession, (* the session a device is paired with                    *)
  SessionScope,  (* the event a session records into                       *)
  Request,       (* request ids the phones generate                        *)
  DeskRow,       (* row ids of pulses entered on the laptop                *)
  Bib,           (* bib numbers                                            *)
  Unread,        (* the bib a phone sends for '' or '?'                    *)
  Excluded,      (* the bib a phone sends for '__GENERIC__'                *)
  MaxTime,       (* bound on capture times                                 *)
  MaxPlace,      (* bound on places                                        *)
  MaxNumber,     (* bound on placeholder numbers                           *)
  DeskNumber,    (* the placeholder numbers the laptop's screen offers     *)
  DeskTime,      (* the elapsed times entered or shown on the laptop       *)
  Pending,       (* the empty time                                         *)
  None

ASSUME ScopeAssumption ==
  /\ CommonChute \in Scope
  /\ DeviceSession \in [Device -> Session]
  /\ SessionScope \in [Session -> Scope]

ASSUME BoundAssumption ==
  MaxTime \in Nat /\ MaxPlace \in Nat \ {0} /\ MaxNumber \in Nat

Time == 0 .. MaxTime
Place == 0 .. MaxPlace
Number == 0 .. MaxNumber
ASSUME DeskAssumption == DeskTime \subseteq Time /\ DeskNumber \subseteq Number

RowId == Request \cup DeskRow
Role == {"start", "timer", "bib"}
Op == {"start", "time", "bib"}

(* bib_number of a chute row: a bib, DUP:bib, PH:n, GP:id, or the "?" of an *)
(* inserted gap.                                                           *)
Value == [tag : {"plain", "dup"}, of : Bib]
           \cup [tag : {"PH"}, of : Number]
           \cup [tag : {"GP"}, of : RowId]
           \cup [tag : {"gap"}, of : {None}]

Plain(b) == [tag |-> "plain", of |-> b]
Dup(b) == [tag |-> "dup", of |-> b]
Placeholder(n) == [tag |-> "PH", of |-> n]
NoResult(id) == [tag |-> "GP", of |-> id]
Gap == [tag |-> "gap", of |-> None]

(* A companion pulse has its capture time; one typed on the laptop has not. *)
PulseRow == [scope : Scope, place : Place, at : Time \cup {None},
             time : Time \cup {Pending}]

(* "by" is history: the request whose INSERT wrote the row.  The table     *)
(* does not record it; the code finds the request again by place and value. *)
ChuteRow == [value : Value, time : Time \cup {Pending},
             by : Request \cup {None}]

RequestRow == [device : Device, op : Op, place : Place, at : Time,
               value : Value \cup {None}, undone : BOOLEAN]

(* A placement the laptop has checked for bib conflicts and not written.   *)
Assignment == [scope : Scope, place : Place, value : Value,
               time : Time \cup {Pending}]

ASSUME NoneAssumption ==
  /\ Pending \notin Time
  /\ None \notin Time \cup {Pending} \cup Request \cup Device \cup PulseRow
                   \cup ChuteRow \cup RequestRow \cup Assignment \cup Value
  /\ Request \cap DeskRow = {}
  /\ Unread \notin Bib /\ Excluded \notin Bib /\ Unread # Excluded

VARIABLES
  start,    (* races.start_time                                            *)
  pulse,    (* timing_pulses, by row; a phone's row is named by its request *)
  chute,    (* chute_assignments, by event and place                       *)
  request,  (* companion_requests                                          *)
  lease,    (* companion_role_leases: the holder of each role              *)
  checked   (* a laptop assignment between its check and its write         *)

vars == <<start, pulse, chute, request, lease, checked>>

-----------------------------------------------------------------------------
(* Queries *)

ScopeOf(d) == SessionScope[DeviceSession[d]]
RoleFor(op) == IF op = "time" THEN "timer" ELSE op
MayWrite(d, op) == lease[DeviceSession[d]][RoleFor(op)] = d

IsRequest(r) == request[r] # None
Live(r, op) == IsRequest(r) /\ request[r].op = op /\ ~request[r].undone

IsPulse(i) == pulse[i] # None
IsRow(s, p) == chute[s][p] # None

PulsePlaces(s) == {pulse[i].place : i \in {j \in RowId :
                                          IsPulse(j) /\ pulse[j].scope = s}}
ChutePlaces(s) == {p \in Place : IsRow(s, p)}

(* The number of rows instead of the last place.                           *)
HighestSlip(places) == Cardinality(places)

(* COALESCE(MAX(place), 0)                                                 *)
Highest(places) == CHOOSE p \in places \cup {0} : \A q \in places : q <= p

(* The chute rows of the whole race, whatever the event.                   *)
Occupied == {x \in Scope \X Place : IsRow(x[1], x[2])}
ValueAt(x) == chute[x[1]][x[2]].value
(* Each definition named ...Slip is a slip in the definition after it,     *)
(* which the property the manifest pairs it with must notice.  Here: bibs  *)
(* and placeholders looked up in the common chute only.                    *)
HoldingSlip(v) == {x \in Occupied : x[1] = CommonChute /\ ValueAt(x) = v}

Holding(v) == {x \in Occupied : ValueAt(x) = v}

PlaceholderNumbers ==
  {ValueAt(x).of : x \in {y \in Occupied : ValueAt(y).tag = "PH"}}

(* The value under which a phone's bib is recorded.                        *)
Recorded(r, input) ==
  CASE input = Unread -> Placeholder(Highest(PlaceholderNumbers) + 1)
    [] input = Excluded -> NoResult(r)
    [] OTHER -> IF Holding(Plain(input)) = {} THEN Plain(input) ELSE Dup(input)

ElapsedSlip(at) == IF start = None THEN Pending ELSE start - at

Elapsed(at) == IF start = None THEN Pending ELSE at - start

-----------------------------------------------------------------------------
(* The official start *)

Captures == {i \in RowId : IsPulse(i) /\ pulse[i].at # None}

(* The join of deriveCompanionTimesTx and backfillCompanionChuteTimes: the *)
(* requests a blank chute row may get its time from.                       *)
Sources(s, p) ==
  {r \in Request : /\ Live(r, "bib")
                   /\ ScopeOf(request[r].device) = s
                   /\ request[r].place = p
                   /\ request[r].value = chute[s][p].value}

Blank == {x \in Occupied : /\ chute[x[1]][x[2]].time = Pending
                           /\ Sources(x[1], x[2]) # {}}

(* The rows of bibs, not those of placeholders.                            *)
FilledSlip(dom, from, t) ==
  [s \in Scope |-> [p \in Place |->
     IF <<s, p>> \in dom /\ chute[s][p].value.tag = "plain"
     THEN [chute[s][p] EXCEPT !.time = request[from[<<s, p>>]].at - t]
     ELSE chute[s][p]]]

(* Every blank row in dom takes the time of the first source the query     *)
(* returns, in an order SQL leaves open: "from" is that choice.            *)
Filled(dom, from, t) ==
  [s \in Scope |-> [p \in Place |->
     IF <<s, p>> \in dom
     THEN [chute[s][p] EXCEPT !.time = request[from[<<s, p>>]].at - t]
     ELSE chute[s][p]]]

(* Only the rows that have no time yet.                                    *)
TimedSlip(t) ==
  [i \in RowId |-> IF i \in Captures /\ pulse[i].time = Pending
                   THEN [pulse[i] EXCEPT !.time = pulse[i].at - t]
                   ELSE pulse[i]]

Timed(t) ==
  [i \in RowId |-> IF i \in Captures
                   THEN [pulse[i] EXCEPT !.time = pulse[i].at - t]
                   ELSE pulse[i]]

(* deriveCompanionTimesTx: the start is refused, and nothing is changed,   *)
(* if any capture precedes it.                                             *)
Derive(t) ==
  /\ \A i \in Captures : pulse[i].at >= t
  /\ \A x \in Blank : \A r \in Sources(x[1], x[2]) : request[r].at >= t
  /\ pulse' = Timed(t)
  /\ \E from \in [Blank -> Request] :
       /\ \A x \in Blank : from[x] \in Sources(x[1], x[2])
       /\ chute' = Filled(Blank, from, t)

-----------------------------------------------------------------------------
Init ==
  /\ start = None
  /\ pulse = [i \in RowId |-> None]
  /\ chute = [s \in Scope |-> [p \in Place |-> None]]
  /\ request = [r \in Request |-> None]
  /\ lease = [s \in Session |-> [q \in Role |-> None]]
  /\ checked = None

(* Roles change hands as CompanionAccess allows.                           *)
Acquire(d, q) ==
  /\ lease[DeviceSession[d]][q] = None
  /\ \A other \in Role : lease[DeviceSession[d]][other] # d
  /\ lease' = [lease EXCEPT ![DeviceSession[d]][q] = d]
  /\ UNCHANGED <<start, pulse, chute, request, checked>>

Drop(s, q) ==
  /\ lease[s][q] # None
  /\ lease' = [lease EXCEPT ![s][q] = None]
  /\ UNCHANGED <<start, pulse, chute, request, checked>>

(* The companion_requests row is inserted in the transaction of the entry. *)
Accept(d, r, op, p, at, v) ==
  /\ ~IsRequest(r)
  /\ MayWrite(d, op)
  /\ request' = [request EXCEPT ![r] =
       [device |-> d, op |-> op, place |-> p, at |-> at, value |-> v,
        undone |-> FALSE]]
  /\ UNCHANGED checked

(* The clock keeps a start it has; the same instant is accepted again.  An *)
(* accepted start releases the role.                                       *)
SubmitStart(d, r, at) ==
  /\ Accept(d, r, "start", 0, at, None)
  /\ lease' = [lease EXCEPT ![DeviceSession[d]]["start"] = None]
  /\ \/ start = None /\ start' = at /\ Derive(at)
     \/ start = at /\ UNCHANGED <<start, pulse, chute>>

SubmitTime(d, r, at) ==
  LET p == Highest(PulsePlaces(ScopeOf(d))) + 1
  IN  /\ p \in Place
      /\ Accept(d, r, "time", p, at, None)
      /\ start # None => at >= start
      /\ pulse' = [pulse EXCEPT ![r] = [scope |-> ScopeOf(d), place |-> p,
                                        at |-> at, time |-> Elapsed(at)]]
      /\ UNCHANGED <<start, chute, lease>>

SubmitBib(d, r, at, input) ==
  LET p == Highest(ChutePlaces(ScopeOf(d))) + 1
      v == Recorded(r, input)
  IN  /\ p \in Place /\ v \in Value
      /\ Accept(d, r, "bib", p, at, v)
      /\ start # None => at >= start
      /\ chute' = [chute EXCEPT ![ScopeOf(d)][p] =
                     [value |-> v, time |-> Elapsed(at), by |-> r]]
      /\ UNCHANGED <<start, pulse, lease>>

IsLastSlip(p, places) == p \in places

IsLast(p, places) == p = Highest(places)

WithoutPulsesSlip(s, p) ==
  [i \in RowId |-> IF IsPulse(i) /\ pulse[i].place = p THEN None ELSE pulse[i]]

WithoutPulses(s, p) ==
  [i \in RowId |-> IF IsPulse(i) /\ pulse[i].scope = s /\ pulse[i].place = p
                   THEN None ELSE pulse[i]]

(* Undo deletes whatever is at the place of the request, once that place   *)
(* is the last of its stream.                                              *)
Undo(d, r) ==
  /\ IsRequest(r)
  /\ request[r].device = d
  /\ ~request[r].undone
  /\ request[r].op # "start"
  /\ MayWrite(d, request[r].op)
  /\ \/ /\ request[r].op = "time"
        /\ IsLast(request[r].place, PulsePlaces(ScopeOf(d)))
        /\ pulse' = WithoutPulses(ScopeOf(d), request[r].place)
        /\ UNCHANGED chute
     \/ /\ request[r].op = "bib"
        /\ IsLast(request[r].place, ChutePlaces(ScopeOf(d)))
        /\ chute' = [chute EXCEPT ![ScopeOf(d)][request[r].place] = None]
        /\ UNCHANGED pulse
  /\ request' = [request EXCEPT ![r].undone = TRUE]
  /\ UNCHANGED <<start, lease, checked>>

Roles ==
  \/ \E d \in Device, q \in Role : Acquire(d, q)
  \/ \E s \in Session, q \in Role : Drop(s, q)

PhoneTimes ==
  \E d \in Device, r \in Request, at \in Time : SubmitTime(d, r, at)

PhonePlacements ==
  \/ \E d \in Device, r \in Request, at \in Time : SubmitStart(d, r, at)
  \/ \E d \in Device, r \in Request, at \in Time,
        input \in Bib \cup {Unread, Excluded} : SubmitBib(d, r, at, input)
  \/ \E d \in Device, r \in Request : Undo(d, r)

PhoneNext == Roles \/ PhoneTimes \/ PhonePlacements

PhoneSpec == Init /\ [][PhoneNext]_vars

-----------------------------------------------------------------------------
(* The laptop's screens *)

(* StartRace, and the dashboard's manual start, write races.start_time and *)
(* nothing else, whether or not the clock runs; ResetRace clears it.       *)
DeskSetStart(at) ==
  /\ start' = at
  /\ UNCHANGED <<pulse, chute, request, lease, checked>>

ResetRace ==
  /\ start # None
  /\ start' = None
  /\ UNCHANGED <<pulse, chute, request, lease, checked>>

(* The laptop opens the file (again): SetDB fills the blank chute times of *)
(* captures that do not precede the start, and no pulse.                   *)
Timely(x) == {r \in Sources(x[1], x[2]) : request[r].at >= start}

Backfill ==
  /\ start # None
  /\ LET late == {x \in Blank : Timely(x) # {}}
     IN  /\ late # {}
         /\ \E from \in [late -> Request] :
              /\ \A x \in late : from[x] \in Timely(x)
              /\ chute' = Filled(late, from, start)
  /\ UNCHANGED <<start, pulse, request, lease, checked>>

AddTimingPulse(i, s, p, t) ==
  /\ ~IsPulse(i)
  /\ pulse' = [pulse EXCEPT ![i] =
       [scope |-> s, place |-> p, at |-> None, time |-> t]]
  /\ UNCHANGED <<start, chute, request, lease, checked>>

UpdateTimingPulse(i, s, p, t) ==
  /\ IsPulse(i)
  /\ pulse' = [pulse EXCEPT ![i].scope = s, ![i].place = p, ![i].time = t]
  /\ UNCHANGED <<start, chute, request, lease, checked>>

DeleteTimingPulse(i) ==
  /\ IsPulse(i)
  /\ pulse' = [pulse EXCEPT ![i] = None]
  /\ UNCHANGED <<start, chute, request, lease, checked>>

(* The screens delete one event's rows or those of the whole race.         *)
DeleteAllTimingPulses(scopes) ==
  /\ pulse' = [i \in RowId |->
       IF IsPulse(i) /\ pulse[i].scope \in scopes THEN None ELSE pulse[i]]
  /\ UNCHANGED <<start, chute, request, lease, checked>>

(* preventImplicitBibMove: a bib or placeholder found at another place of  *)
(* the race is refused.  Of several rows the query returns any one.        *)
MayAssign(s, p, v) ==
  \/ v.tag \in {"gap", "dup", "GP"}
  \/ Holding(v) = {}
  \/ \E x \in Holding(v) : x = <<s, p>> \/ x[2] = 0

(* AssignBibToPlaceWithTimeForEvent reads, then writes, in two statements. *)
CheckAssignment(s, p, v, t) ==
  /\ checked = None
  /\ MayAssign(s, p, v)
  /\ checked' = [scope |-> s, place |-> p, value |-> v, time |-> t]
  /\ UNCHANGED <<start, pulse, chute, request, lease>>

WriteAssignment ==
  /\ checked # None
  /\ chute' = [chute EXCEPT ![checked.scope][checked.place] =
       [value |-> checked.value, time |-> checked.time, by |-> None]]
  /\ checked' = None
  /\ UNCHANGED <<start, pulse, request, lease>>

DeletePlacement(s, p) ==
  /\ IsRow(s, p)
  /\ chute' = [chute EXCEPT ![s][p] = None]
  /\ UNCHANGED <<start, pulse, request, lease, checked>>

DeleteAllPlacements(scopes) ==
  /\ chute' = [s \in Scope |-> IF s \in scopes THEN [p \in Place |-> None]
                                               ELSE chute[s]]
  /\ UNCHANGED <<start, pulse, request, lease, checked>>

(* The rows move one by one towards delta, and the whole shift is rolled   *)
(* back if one lands on a row that stays.                                  *)
Shifted(s, from, delta) ==
  [p \in Place |->
     IF p - delta >= from /\ p - delta \in Place /\ IsRow(s, p - delta)
     THEN chute[s][p - delta]
     ELSE IF p >= from THEN None ELSE chute[s][p]]

CanShift(s, from, delta) ==
  \A p \in ChutePlaces(s) : p >= from =>
    /\ p + delta \in Place
    /\ p + delta < from => ~IsRow(s, p + delta)

ShiftPlacements(s, from, delta) ==
  /\ CanShift(s, from, delta)
  /\ chute' = [chute EXCEPT ![s] = Shifted(s, from, delta)]
  /\ UNCHANGED <<start, pulse, request, lease, checked>>

(* InsertPlacementGap shifts the common chute, then assigns "?" to the gap *)
(* in a statement of its own.                                              *)
InsertPlacementGap(p) ==
  /\ checked = None
  /\ CanShift(CommonChute, p, 1)
  /\ chute' = [chute EXCEPT ![CommonChute] = Shifted(CommonChute, p, 1)]
  /\ checked' = [scope |-> CommonChute, place |-> p, value |-> Gap,
                 time |-> Pending]
  /\ UNCHANGED <<start, pulse, request, lease>>

DeskValue ==
  {Plain(b) : b \in Bib} \cup {Dup(b) : b \in Bib}
    \cup {Placeholder(n) : n \in DeskNumber}
    \cup {NoResult(i) : i \in DeskRow}

(* One event's rows, or with event 0 every row of the race.                *)
Cleared == {{s} : s \in Scope} \cup {Scope}

DeskClock ==
  \/ \E at \in Time : DeskSetStart(at)
  \/ ResetRace
  \/ Backfill

DeskTimes ==
  \/ \E i \in DeskRow, s \in Scope, p \in Place, t \in DeskTime :
       AddTimingPulse(i, s, p, t)
  \/ \E i \in RowId, s \in Scope, p \in Place, t \in DeskTime :
       UpdateTimingPulse(i, s, p, t)
  \/ \E i \in RowId : DeleteTimingPulse(i)
  \/ \E scopes \in Cleared : DeleteAllTimingPulses(scopes)

DeskPlacements ==
  \/ \E s \in Scope, p \in Place \ {0}, v \in DeskValue,
        t \in DeskTime \cup {Pending} : CheckAssignment(s, p, v, t)
  \/ WriteAssignment
  \/ \E s \in Scope, p \in Place : DeletePlacement(s, p)
  \/ \E scopes \in Cleared : DeleteAllPlacements(scopes)
  \/ \E s \in Scope, from \in Place, delta \in {-1, 1} :
       ShiftPlacements(s, from, delta)
  \/ \E p \in Place : InsertPlacementGap(p)

DeskNext == DeskClock \/ DeskTimes \/ DeskPlacements

Next == PhoneNext \/ DeskNext

Spec == Init /\ [][Next]_vars

-----------------------------------------------------------------------------
(* Properties *)

(* Every table holds rows of its own shape.                                *)
TypeOK ==
  /\ start \in Time \cup {None}
  /\ pulse \in [RowId -> PulseRow \cup {None}]
  /\ chute \in [Scope -> [Place -> ChuteRow \cup {None}]]
  /\ request \in [Request -> RequestRow \cup {None}]
  /\ lease \in [Session -> [Role -> Device \cup {None}]]
  /\ checked \in Assignment \cup {None}

(* The finish stream and the chute stream of an event are numbered 1, 2,   *)
(* ... with no gap and no place taken twice, however captures and undos of *)
(* several phones interleave ("so it cannot create a place gap").          *)
Numbered(places) == \E n \in Place : places = 1 .. n

FinishesContiguous ==
  /\ \A s \in Scope : Numbered(PulsePlaces(s))
  /\ \A i, j \in RowId :
       /\ IsPulse(i) /\ IsPulse(j)
       /\ pulse[i].scope = pulse[j].scope /\ pulse[i].place = pulse[j].place
       => i = j

PlacementsContiguous == \A s \in Scope : Numbered(ChutePlaces(s))

PlacesContiguous == FinishesContiguous /\ PlacementsContiguous

(* An accepted request and the row it wrote stay together: the row is at   *)
(* the place that was acknowledged, and the row is there exactly until the *)
(* request is undone.                                                      *)
TimeRow(r) ==
  /\ IsPulse(r)
  /\ pulse[r].scope = ScopeOf(request[r].device)
  /\ pulse[r].place = request[r].place
  /\ pulse[r].at = request[r].at

RowOf(r) == chute[ScopeOf(request[r].device)][request[r].place]

RequestOwnsPulse ==
  /\ \A r \in Request : Live(r, "time") => TimeRow(r)
  /\ \A i \in RowId : IsPulse(i) => i \in Request /\ Live(i, "time")

RequestOwnsPlacement ==
  /\ \A r \in Request : Live(r, "bib") =>
       RowOf(r) # None /\ RowOf(r).by = r /\ RowOf(r).value = request[r].value
  /\ \A s \in Scope, p \in Place : IsRow(s, p) =>
       \E r \in Request : /\ chute[s][p].by = r
                          /\ Live(r, "bib")
                          /\ ScopeOf(request[r].device) = s
                          /\ request[r].place = p

RequestOwnsRow == RequestOwnsPulse /\ RequestOwnsPlacement

(* A bib finishes once in the whole race: every further capture of it is   *)
(* marked DUP, in whichever event's chute and after whichever undo.        *)
HeldOnce(tag) ==
  \A x, y \in Occupied :
    ValueAt(x).tag = tag /\ ValueAt(y) = ValueAt(x) => x = y

BibOnce == HeldOnce("plain")

(* A placeholder number names one runner of the race.                      *)
PlaceholderOnce == HeldOnce("PH")

(* Before the start arrives every capture is pending; from then on every   *)
(* row has the time from that start to its own capture, whether it reached *)
(* the laptop before or after the start did, and every accepted start is   *)
(* that start.                                                             *)
FinishTimes ==
  \A r \in Request : Live(r, "time") => pulse[r].time = Elapsed(request[r].at)

ChuteTimes ==
  \A r \in Request : Live(r, "bib") => RowOf(r).time = Elapsed(request[r].at)

StartIsFirst ==
  \A r \in Request : IsRequest(r) /\ ~request[r].undone =>
    /\ start # None => request[r].at >= start
    /\ request[r].op = "start" => start = request[r].at

TimesFollowStart == FinishTimes /\ ChuteTimes /\ StartIsFirst

(* The inductive invariant of the phones: what a row holds follows from     *)
(* whose row it is, and no row is taken for another one's.                 *)
PhoneInv ==
  /\ TypeOK
  /\ PlacesContiguous
  /\ RequestOwnsRow
  /\ BibOnce
  /\ PlaceholderOnce
  /\ TimesFollowStart

(* An undo removes the row its own request wrote, and no other row.        *)
UndoRemovesOwnRow ==
  [][\A r \in Request :
       IsRequest(r) /\ ~request[r].undone /\ request'[r].undone =>
         /\ \A i \in RowId : pulse'[i] # pulse[i] =>
              i = r /\ request[r].op = "time"
         /\ \A s \in Scope, p \in Place : chute'[s][p] # chute[s][p] =>
              chute[s][p].by = r]_vars

(* Whatever the laptop has done to the rows, an entry a phone submits is   *)
(* appended after all the rows of its stream: it takes nobody's place and  *)
(* changes no placement.                                                   *)
Kept(old, new) ==
  old # None => /\ new # None
                /\ new.value = old.value /\ new.by = old.by
                /\ new.time # old.time => old.time = Pending

PhoneAppends ==
  [][\A r \in Request : ~IsRequest(r) /\ request'[r] # None =>
       LET s == ScopeOf(request'[r].device)
           p == request'[r].place
       IN  /\ request'[r].op = "time" => \A q \in PulsePlaces(s) : q < p
           /\ request'[r].op = "bib" => \A q \in ChutePlaces(s) : q < p
           /\ \A t \in Scope, q \in Place : Kept(chute[t][q], chute'[t][q])
           /\ \A i \in RowId : IsPulse(i) =>
                pulse'[i] = [pulse[i] EXCEPT !.time = pulse'[i].time]]_vars

(* When a phone's start sets the clock, no capture of the race is left     *)
(* without the time from that start, in any event; nor is a placement that *)
(* can still be traced to its capture.                                     *)
StartSettlesCaptures ==
  [][start = None /\ start' # None /\ request' # request =>
       /\ \A i \in Captures : pulse'[i].time = pulse[i].at - start'
                              /\ pulse'[i].time >= 0
       /\ \A x \in Blank : chute'[x[1]][x[2]].time # Pending]_vars

(* An undo takes the last place of its stream and touches the other stream *)
(* and the other events not at all, also after edits on the laptop.        *)
UndoTakesTheTail ==
  [][\A r \in Request :
       IsRequest(r) /\ ~request[r].undone /\ request'[r].undone =>
         LET s == ScopeOf(request[r].device)
             p == request[r].place
         IN  /\ \A i \in RowId : pulse'[i] # pulse[i] =>
                  /\ request[r].op = "time"
                  /\ pulse[i].scope = s /\ pulse[i].place = p
                  /\ \A q \in PulsePlaces(s) : q <= p
             /\ \A t \in Scope, q \in Place : chute'[t][q] # chute[t][q] =>
                  /\ request[r].op = "bib"
                  /\ t = s /\ q = p
                  /\ \A o \in ChutePlaces(s) : o <= p]_vars

(* The roles of the phones, as what they record relies on them: RoleBook,  *)
(* with every device paired from the start.  Neither an accepted start nor *)
(* what the laptop edits gives a role to anybody.                          *)
HeldRoles == {x \in Session \X Role \X Device : lease[x[1]][x[2]] = x[3]}

Book == INSTANCE RoleBook WITH paired <- DeviceSession, held <- HeldRoles
RolesChangeHands == Book!BookSpec
=============================================================================
