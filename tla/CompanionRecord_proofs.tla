------------------------ MODULE CompanionRecord_proofs ------------------------
(***************************************************************************)
(* Proofs about CompanionRecord, for any number of phones, sessions,       *)
(* events, bibs and requests.                                              *)
(***************************************************************************)
EXTENDS CompanionRecord, WellFoundedInduction, TLAPS

-----------------------------------------------------------------------------
(* The last place of a stream *)

(* A bounded set of numbers has a largest one, or is empty.                *)
LEMMA BoundedMax ==
  ASSUME NEW k \in Nat, NEW S \in SUBSET (0 .. k)
  PROVE  \E m \in S \cup {0} : \A q \in S : q <= m
<1> DEFINE D == {k - q : q \in S \cup {0}}
<1>1. D \subseteq Nat /\ D # {}
  OBVIOUS
<1>2. PICK x \in D : \A y \in D : ~(<<y, x>> \in OpToRel(<, Nat))
  <2> HIDE DEF D
  <2> QED
    BY ONLY <1>1, NatLessThanWellFounded, WFMin, Zenon
<1>3. \A y \in D : x <= y
  <2>1. TAKE y \in D
  <2>2. <<y, x>> \notin OpToRel(<, Nat)
    BY <1>2
  <2>3. ~(y < x)
    BY <1>1, <2>2 DEF OpToRel
  <2> QED
    BY <1>1, <2>3
<1>4. PICK m \in S \cup {0} : x = k - m
  OBVIOUS
<1>5. \A q \in S : k - q \in D
  OBVIOUS
<1>6. ASSUME NEW q \in S PROVE q <= m
  <2>1. x <= k - q
    BY <1>3, <1>5
  <2> QED
    BY ONLY <2>1, <1>4, q \in 0 .. k, m \in 0 .. k, k \in Nat
<1> QED
  BY <1>6

(* So Highest is what MAX(place) returns.                                  *)
LEMMA HighestIsMax ==
  ASSUME NEW k \in Nat, NEW S \in SUBSET (0 .. k)
  PROVE  /\ Highest(S) \in S \cup {0}
         /\ Highest(S) \in 0 .. k
         /\ \A q \in S : q <= Highest(S)
<1>1. \E m \in S \cup {0} : \A q \in S : q <= m
  BY BoundedMax
<1>2. Highest(S) \in S \cup {0} /\ \A q \in S : q <= Highest(S)
  BY <1>1 DEF Highest
<1>3. S \cup {0} \subseteq 0 .. k
  OBVIOUS
<1> QED
  BY <1>2, <1>3

(* The last of the places 1 .. n is n.                                     *)
LEMMA HighestOfNumbered ==
  ASSUME NEW n \in Nat
  PROVE  Highest(1 .. n) = n
<1>1. 1 .. n \in SUBSET (0 .. n)
  OBVIOUS
<1>2. Highest(1 .. n) \in (1 .. n) \cup {0} /\ \A q \in 1 .. n : q <= Highest(1 .. n)
  BY <1>1, HighestIsMax
<1> QED
  BY <1>2

(* The places of every stream are bounded.                                 *)
LEMMA PlacesBounded ==
  ASSUME TypeOK, NEW s \in Scope
  PROVE  /\ PulsePlaces(s) \in SUBSET (0 .. MaxPlace)
         /\ ChutePlaces(s) \in SUBSET (0 .. MaxPlace)
         /\ MaxPlace \in Nat
<1>1. \A i \in RowId : IsPulse(i) => pulse[i].place \in Place
  BY DEF TypeOK, IsPulse, PulseRow
<1> QED
  BY <1>1, BoundAssumption DEF PulsePlaces, ChutePlaces, Place

(* So are the placeholder numbers of the race.                             *)
LEMMA NumbersBounded ==
  ASSUME TypeOK
  PROVE  PlaceholderNumbers \in SUBSET (0 .. MaxNumber) /\ MaxNumber \in Nat
<1>1. ASSUME NEW y \in Occupied, ValueAt(y).tag = "PH"
      PROVE ValueAt(y).of \in Number
  <2>1. chute[y[1]][y[2]] \in ChuteRow
    BY DEF TypeOK, Occupied, IsRow
  <2>2. ValueAt(y) \in Value
    BY <2>1 DEF ChuteRow, ValueAt
  <2> QED
    BY <1>1, <2>2 DEF Value
<1> QED
  BY <1>1, BoundAssumption DEF PlaceholderNumbers, Number

(* A bib that is recorded as itself, or as a placeholder, is new to the    *)
(* whole race.                                                             *)
LEMMA RecordedIsFresh ==
  ASSUME TypeOK, NEW r \in Request, NEW input \in Bib \cup {Unread, Excluded},
         Recorded(r, input).tag \in {"plain", "PH"}
  PROVE  Holding(Recorded(r, input)) = {}
<1>1. CASE input = Unread
  <2> DEFINE n == Highest(PlaceholderNumbers) + 1
  <2>1. Recorded(r, input) = Placeholder(n)
    BY <1>1, NoneAssumption DEF Recorded
  <2>2. \A m \in PlaceholderNumbers : m <= Highest(PlaceholderNumbers)
    BY NumbersBounded, HighestIsMax
  <2>3. Highest(PlaceholderNumbers) \in Nat /\ PlaceholderNumbers \subseteq Nat
    BY NumbersBounded, HighestIsMax
  <2>4. n \notin PlaceholderNumbers
    BY <2>2, <2>3
  <2>5. ASSUME NEW x \in Occupied PROVE ValueAt(x) # Placeholder(n)
    <3>1. SUFFICES ASSUME ValueAt(x) = Placeholder(n) PROVE FALSE
      OBVIOUS
    <3>2. ValueAt(x).tag = "PH" /\ ValueAt(x).of = n
      BY <3>1 DEF Placeholder
    <3>3. n \in PlaceholderNumbers
      BY <3>2 DEF PlaceholderNumbers
    <3> QED
      BY <2>4, <3>3
  <2> QED
    BY <2>1, <2>5 DEF Holding
<1>2. CASE input # Unread /\ input = Excluded
  BY <1>2, NoneAssumption DEF Recorded, NoResult
<1>3. CASE input # Unread /\ input # Excluded
  <2>1. Recorded(r, input) = IF Holding(Plain(input)) = {} THEN Plain(input)
                                                         ELSE Dup(input)
    BY <1>3 DEF Recorded
  <2> QED
    BY <2>1 DEF Plain, Dup
<1> QED
  BY <1>1, <1>2, <1>3

-----------------------------------------------------------------------------
(* Type correctness, with the laptop's edits *)

(* A row keeps its shape when its time is filled in.                       *)
LEMMA TimedRows ==
  ASSUME TypeOK, NEW t \in Time, \A i \in Captures : pulse[i].at >= t
  PROVE  Timed(t) \in [RowId -> PulseRow \cup {None}]
<1>1. ASSUME NEW i \in RowId
      PROVE Timed(t)[i] \in PulseRow \cup {None}
  <2>1. CASE i \in Captures
    <3>1. pulse[i] \in PulseRow /\ pulse[i].at \in Time
      BY <2>1 DEF TypeOK, Captures, IsPulse, PulseRow
    <3>2. pulse[i].at - t \in Time
      BY <3>1, <2>1, BoundAssumption DEF Time
    <3>3. [pulse[i] EXCEPT !.time = pulse[i].at - t] \in PulseRow
      BY <3>1, <3>2 DEF PulseRow
    <3> QED
      BY <2>1, <3>3 DEF Timed
  <2>2. CASE i \notin Captures
    BY <2>2 DEF Timed, TypeOK
  <2> QED
    BY <2>1, <2>2
<1> QED
  BY <1>1 DEF Timed

LEMMA FilledRows ==
  ASSUME TypeOK, NEW t \in Time, NEW dom \in SUBSET Blank,
         NEW from \in [dom -> Request],
         \A x \in dom : /\ from[x] \in Sources(x[1], x[2])
                        /\ request[from[x]].at >= t
  PROVE  Filled(dom, from, t) \in [Scope -> [Place -> ChuteRow \cup {None}]]
<1>1. ASSUME NEW s \in Scope, NEW p \in Place
      PROVE Filled(dom, from, t)[s][p] \in ChuteRow \cup {None}
  <2>1. CASE <<s, p>> \in dom
    <3> DEFINE r == from[<<s, p>>]
    <3>1. chute[s][p] \in ChuteRow
      BY <2>1 DEF TypeOK, Blank, Occupied, IsRow
    <3>2. r \in Request /\ request[r] \in RequestRow /\ request[r].at >= t
      BY <2>1 DEF TypeOK, Sources, Live, IsRequest
    <3>3. request[r].at - t \in Time
      BY <3>2, BoundAssumption DEF Time, RequestRow
    <3> HIDE DEF r
    <3>4. [chute[s][p] EXCEPT !.time = request[r].at - t] \in ChuteRow
      BY <3>1, <3>3 DEF ChuteRow
    <3> QED
      BY <2>1, <3>4 DEF Filled, r
  <2>2. CASE <<s, p>> \notin dom
    BY <2>2 DEF Filled, TypeOK
  <2> QED
    BY <2>1, <2>2
<1> QED
  BY <1>1 DEF Filled

(* Every step of a phone or of the laptop keeps the tables well formed.    *)
LEMMA StepTypeOK == TypeOK /\ [Next]_vars => TypeOK'
<1> SUFFICES ASSUME TypeOK, [Next]_vars PROVE TypeOK'
  OBVIOUS
<1> USE ScopeAssumption, BoundAssumption, NoneAssumption DEF TypeOK
<1> DEFINE RequestRows == [Request -> RequestRow \cup {None}]
           PulseRows == [RowId -> PulseRow \cup {None}]
           ChuteRows == [Scope -> [Place -> ChuteRow \cup {None}]]
<1>0. ASSUME NEW d \in Device PROVE ScopeOf(d) \in Scope /\ DeviceSession[d] \in Session
  BY DEF ScopeOf
<1>1. ASSUME NEW d \in Device, NEW r \in Request, NEW op \in Op, NEW p \in Place,
             NEW at \in Time, NEW v \in Value \cup {None}, Accept(d, r, op, p, at, v)
      PROVE request' \in RequestRows /\ checked' = checked
  BY <1>1 DEF Accept, RequestRow
<1>2. ASSUME NEW d \in Device, NEW q \in Role, Acquire(d, q) PROVE TypeOK'
  BY <1>0, <1>2 DEF Acquire
<1>3. ASSUME NEW s \in Session, NEW q \in Role, Drop(s, q) PROVE TypeOK'
  BY <1>3 DEF Drop
<1>4. ASSUME NEW d \in Device, NEW r \in Request, NEW at \in Time, SubmitStart(d, r, at)
      PROVE TypeOK'
  <2>1. request' \in RequestRows /\ checked' = checked
    BY <1>1, <1>4 DEF SubmitStart, Op, Place
  <2>2. lease' \in [Session -> [Role -> Device \cup {None}]]
    BY <1>0, <1>4 DEF SubmitStart, Role
  <2>3. CASE start = None /\ start' = at /\ Derive(at)
    <3>1. pulse' \in PulseRows
      BY <2>3, TimedRows DEF Derive
    <3>2. PICK from \in [Blank -> Request] :
             /\ \A x \in Blank : from[x] \in Sources(x[1], x[2])
             /\ chute' = Filled(Blank, from, at)
      BY <2>3 DEF Derive
    <3>3. \A x \in Blank : request[from[x]].at >= at
      BY <2>3, <3>2 DEF Derive
    <3>4. chute' \in ChuteRows
      BY <3>2, <3>3, FilledRows
    <3> QED
      BY <2>1, <2>2, <2>3, <3>1, <3>4
  <2>4. CASE UNCHANGED <<start, pulse, chute>>
    BY <2>1, <2>2, <2>4
  <2> QED
    BY <1>4, <2>3, <2>4 DEF SubmitStart
<1>5. ASSUME NEW d \in Device, NEW r \in Request, NEW at \in Time, SubmitTime(d, r, at)
      PROVE TypeOK'
  <2> DEFINE p == Highest(PulsePlaces(ScopeOf(d))) + 1
  <2>1. p \in Place /\ Accept(d, r, "time", p, at, None) /\ (start # None => at >= start)
    BY <1>5 DEF SubmitTime
  <2>2. request' \in RequestRows /\ checked' = checked
    BY <1>1, <2>1 DEF Op
  <2>3. Elapsed(at) \in Time \cup {Pending}
    BY <2>1 DEF Elapsed, Time
  <2> HIDE DEF p
  <2>4. [scope |-> ScopeOf(d), place |-> p, at |-> at, time |-> Elapsed(at)] \in PulseRow
    BY <1>0, <2>1, <2>3 DEF PulseRow
  <2>5. pulse' \in PulseRows
    BY <1>5, <2>4 DEF SubmitTime, RowId, p
  <2> QED
    BY <1>5, <2>2, <2>5 DEF SubmitTime
<1>6. ASSUME NEW d \in Device, NEW r \in Request, NEW at \in Time,
             NEW input \in Bib \cup {Unread, Excluded}, SubmitBib(d, r, at, input)
      PROVE TypeOK'
  <2> DEFINE p == Highest(ChutePlaces(ScopeOf(d))) + 1
             v == Recorded(r, input)
  <2>1. /\ p \in Place /\ v \in Value /\ Accept(d, r, "bib", p, at, v)
        /\ start # None => at >= start
    BY <1>6 DEF SubmitBib
  <2>2. request' \in RequestRows /\ checked' = checked
    BY <1>1, <2>1 DEF Op
  <2>3. Elapsed(at) \in Time \cup {Pending}
    BY <2>1 DEF Elapsed, Time
  <2> HIDE DEF p, v
  <2>4. [value |-> v, time |-> Elapsed(at), by |-> r] \in ChuteRow
    BY <2>1, <2>3 DEF ChuteRow
  <2>5. chute' \in ChuteRows
    BY <1>0, <1>6, <2>1, <2>4 DEF SubmitBib, p, v
  <2> QED
    BY <1>6, <2>2, <2>5 DEF SubmitBib
<1>7. ASSUME NEW d \in Device, NEW r \in Request, Undo(d, r) PROVE TypeOK'
  <2>1. request[r] \in RequestRow
    BY <1>7 DEF Undo, IsRequest
  <2>2. [request[r] EXCEPT !.undone = TRUE] \in RequestRow
    BY <2>1 DEF RequestRow
  <2>3. request' \in RequestRows
    BY <1>7, <2>2 DEF Undo, IsLast, WithoutPulses
  <2>4. pulse' \in PulseRows
    BY <1>7 DEF Undo, IsLast, WithoutPulses
  <2>5. chute' \in ChuteRows
    <3> DEFINE s == ScopeOf(d)
               p == request[r].place
    <3>1. s \in Scope /\ p \in Place
      BY <1>0, <2>1 DEF RequestRow
    <3>2. chute' = chute \/ chute' = [chute EXCEPT ![s][p] = None]
      BY <1>7 DEF Undo, IsLast, WithoutPulses
    <3> HIDE DEF s, p
    <3>3. [chute EXCEPT ![s][p] = None] \in ChuteRows
      BY ONLY TypeOK, <3>1 DEF TypeOK
    <3> QED
      BY <3>2, <3>3
  <2> QED
    BY <1>7, <2>3, <2>4, <2>5 DEF Undo
<1>8. CASE DeskClock
  <2>1. ASSUME NEW at \in Time, DeskSetStart(at) PROVE TypeOK'
    BY <2>1 DEF DeskSetStart
  <2>2. CASE ResetRace
    BY <2>2 DEF ResetRace
  <2>3. CASE Backfill
    <3> DEFINE late == {x \in Blank : Timely(x) # {}}
    <3>1. start \in Time
      BY <2>3 DEF Backfill
    <3>2. PICK from \in [late -> Request] :
             /\ \A x \in late : from[x] \in Timely(x)
             /\ chute' = Filled(late, from, start)
      BY <2>3 DEF Backfill
    <3>3. \A x \in late : from[x] \in Sources(x[1], x[2]) /\ request[from[x]].at >= start
      BY <3>2 DEF Timely
    <3>4. late \in SUBSET Blank
      OBVIOUS
    <3> HIDE DEF late
    <3>5. chute' \in ChuteRows
      BY <3>1, <3>2, <3>3, <3>4, FilledRows
    <3> QED
      BY <2>3, <3>5 DEF Backfill
  <2> QED
    BY <1>8, <2>1, <2>2, <2>3 DEF DeskClock
<1>9. CASE DeskTimes
  <2>1. ASSUME NEW i \in DeskRow, NEW s \in Scope, NEW p \in Place, NEW t \in DeskTime,
               AddTimingPulse(i, s, p, t)
        PROVE TypeOK'
    <3>1. [scope |-> s, place |-> p, at |-> None, time |-> t] \in PulseRow
      BY DeskAssumption DEF PulseRow
    <3>2. pulse' \in PulseRows
      BY <2>1, <3>1 DEF AddTimingPulse, RowId
    <3> QED
      BY <2>1, <3>2 DEF AddTimingPulse
  <2>2. ASSUME NEW i \in RowId, NEW s \in Scope, NEW p \in Place, NEW t \in DeskTime,
               UpdateTimingPulse(i, s, p, t)
        PROVE TypeOK'
    <3>1. pulse[i] \in PulseRow
      BY <2>2 DEF UpdateTimingPulse, IsPulse
    <3>2. [pulse[i] EXCEPT !.scope = s, !.place = p, !.time = t] \in PulseRow
      BY <3>1, DeskAssumption DEF PulseRow
    <3>3. pulse' \in PulseRows
      BY <2>2, <3>1, <3>2 DEF UpdateTimingPulse, PulseRow
    <3> QED
      BY <2>2, <3>3 DEF UpdateTimingPulse
  <2>3. ASSUME NEW i \in RowId, DeleteTimingPulse(i) PROVE TypeOK'
    BY <2>3 DEF DeleteTimingPulse
  <2>4. ASSUME NEW scopes \in Cleared, DeleteAllTimingPulses(scopes) PROVE TypeOK'
    BY <2>4 DEF DeleteAllTimingPulses
  <2> QED
    BY <1>9, <2>1, <2>2, <2>3, <2>4 DEF DeskTimes
<1>10. CASE DeskPlacements
  <2>0. DeskValue \subseteq Value /\ Gap \in Value
    BY DeskAssumption DEF DeskValue, Value, Plain, Dup, Placeholder, NoResult, Gap, RowId
  <2>1. ASSUME NEW s \in Scope, NEW p \in Place \ {0}, NEW v \in DeskValue,
               NEW t \in DeskTime \cup {Pending}, CheckAssignment(s, p, v, t)
        PROVE TypeOK'
    <3>1. [scope |-> s, place |-> p, value |-> v, time |-> t] \in Assignment
      BY <2>0, DeskAssumption DEF Assignment
    <3> QED
      BY <2>1, <3>1 DEF CheckAssignment
  <2>2. CASE WriteAssignment
    <3>1. checked \in Assignment
      BY <2>2 DEF WriteAssignment
    <3>2. [value |-> checked.value, time |-> checked.time, by |-> None] \in ChuteRow
      BY <3>1 DEF Assignment, ChuteRow
    <3>3. chute' \in ChuteRows
      BY <2>2, <3>1, <3>2 DEF WriteAssignment, Assignment
    <3> QED
      BY <2>2, <3>3 DEF WriteAssignment
  <2>3. ASSUME NEW s \in Scope, NEW p \in Place, DeletePlacement(s, p) PROVE TypeOK'
    BY <2>3 DEF DeletePlacement
  <2>4. ASSUME NEW scopes \in Cleared, DeleteAllPlacements(scopes) PROVE TypeOK'
    BY <2>4 DEF DeleteAllPlacements
  <2>5. ASSUME NEW s \in Scope, NEW from \in Place, NEW delta \in {-1, 1}
        PROVE Shifted(s, from, delta) \in [Place -> ChuteRow \cup {None}]
    BY DEF Shifted
  <2>6. ASSUME NEW s \in Scope, NEW from \in Place, NEW delta \in {-1, 1},
               ShiftPlacements(s, from, delta)
        PROVE TypeOK'
    BY <2>5, <2>6 DEF ShiftPlacements
  <2>7. ASSUME NEW p \in Place, InsertPlacementGap(p) PROVE TypeOK'
    <3>1. [scope |-> CommonChute, place |-> p, value |-> Gap, time |-> Pending]
            \in Assignment
      BY <2>0 DEF Assignment
    <3> QED
      BY <2>5, <2>7, <3>1 DEF InsertPlacementGap
  <2> QED
    BY <1>10, <2>1, <2>2, <2>3, <2>4, <2>6, <2>7 DEF DeskPlacements
<1>11. CASE UNCHANGED vars
  BY <1>11 DEF vars
<1> QED
  BY <1>2, <1>3, <1>4, <1>5, <1>6, <1>7, <1>8, <1>9, <1>10, <1>11
     DEF Next, PhoneNext, Roles, PhoneTimes, PhonePlacements, DeskNext

(* TypeOK is an invariant, with and without the laptop's edits.            *)
THEOREM RecordTypeOK == Spec => []TypeOK
<1>1. Init => TypeOK
  BY DEF Init, TypeOK
<1> QED
  BY <1>1, StepTypeOK, PTL DEF Spec

-----------------------------------------------------------------------------
(* The phones alone *)

(* The invariant of each stream.  A stream is disturbed by the calls that  *)
(* write it, and by no other.                                              *)
FinishInv == FinishesContiguous /\ RequestOwnsPulse /\ FinishTimes

ChuteInv ==
  /\ PlacementsContiguous
  /\ RequestOwnsPlacement
  /\ ChuteTimes
  /\ BibOnce
  /\ PlaceholderOnce

(* The requests of one kind that stand are the same before and after.      *)
SameLive(op) ==
  /\ \A r \in Request : Live(r, op)' <=> Live(r, op)
  /\ \A r \in Request : Live(r, op) => request'[r] = request[r]

LEMMA FinishFrame ==
  ASSUME FinishInv, SameLive("time"), pulse' = pulse, start' = start
  PROVE  FinishInv'
<1> USE DEF FinishInv, SameLive
<1>1. FinishesContiguous'
  BY DEF FinishesContiguous, Numbered, PulsePlaces, IsPulse
<1>2. \A r \in Request : Live(r, "time") => TimeRow(r)'
  BY DEF RequestOwnsPulse, TimeRow, IsPulse, ScopeOf
<1>3. RequestOwnsPulse'
  BY <1>2 DEF RequestOwnsPulse, IsPulse
<1>4. FinishTimes'
  BY DEF FinishTimes, Elapsed
<1> QED
  BY <1>1, <1>3, <1>4

LEMMA ChuteFrame ==
  ASSUME ChuteInv, SameLive("bib"), chute' = chute, start' = start
  PROVE  ChuteInv'
<1> USE DEF ChuteInv, SameLive
<1>1. PlacementsContiguous'
  BY DEF PlacementsContiguous, Numbered, ChutePlaces, IsRow
<1>2. \A r \in Request : Live(r, "bib") => RowOf(r)' = RowOf(r)
  BY DEF RowOf, ScopeOf
<1>3. RequestOwnsPlacement'
  <2>1. \A r \in Request : Live(r, "bib")' =>
          RowOf(r)' # None /\ RowOf(r)'.by = r /\ RowOf(r)'.value = request'[r].value
    BY <1>2 DEF RequestOwnsPlacement
  <2>2. ASSUME NEW s \in Scope, NEW p \in Place, IsRow(s, p)'
        PROVE  \E r \in Request : /\ chute'[s][p].by = r
                                  /\ Live(r, "bib")'
                                  /\ SessionScope[DeviceSession[request'[r].device]] = s
                                  /\ request'[r].place = p
    BY <2>2 DEF RequestOwnsPlacement, IsRow, ScopeOf
  <2> QED
    BY <2>1, <2>2 DEF RequestOwnsPlacement, RowOf, ScopeOf
<1>4. ChuteTimes'
  BY <1>2 DEF ChuteTimes, Elapsed, RowOf
<1>5. BibOnce' /\ PlaceholderOnce'
  BY DEF BibOnce, PlaceholderOnce, HeldOnce, Occupied, ValueAt, IsRow
<1> QED
  BY <1>1, <1>3, <1>4, <1>5

(* The rows of a well-formed state.                                        *)
LEMMA Shapes ==
  ASSUME TypeOK
  PROVE  /\ \A i \in RowId : IsPulse(i) => pulse[i] \in PulseRow
         /\ \A s \in Scope, p \in Place : IsRow(s, p) => chute[s][p] \in ChuteRow
         /\ \A r \in Request : IsRequest(r) =>
              /\ request[r] \in RequestRow
              /\ ScopeOf(request[r].device) \in Scope
         /\ \A d \in Device : ScopeOf(d) \in Scope /\ DeviceSession[d] \in Session
<1>1. \A d \in Device : ScopeOf(d) \in Scope /\ DeviceSession[d] \in Session
  BY ScopeAssumption DEF ScopeOf
<1> QED
  BY <1>1 DEF TypeOK, IsPulse, IsRow, IsRequest, RequestRow

(* An accepted request is new, and the only one that changes.              *)
LEMMA Accepted ==
  ASSUME TypeOK, NEW d \in Device, NEW r \in Request, NEW op \in Op, NEW p \in Place,
         NEW at \in Time, NEW v \in Value \cup {None}, Accept(d, r, op, p, at, v)
  PROVE  /\ request'[r] = [device |-> d, op |-> op, place |-> p, at |-> at,
                           value |-> v, undone |-> FALSE]
         /\ request'[r] # None
         /\ request[r] = None
         /\ \A q \in Request \ {r} : request'[q] = request[q]
         /\ \A other \in Op \ {op} : SameLive(other)
<1>1. /\ request'[r] = [device |-> d, op |-> op, place |-> p, at |-> at,
                        value |-> v, undone |-> FALSE]
      /\ request[r] = None
      /\ \A q \in Request \ {r} : request'[q] = request[q]
  BY DEF Accept, TypeOK, IsRequest
<1>2. request'[r] \in RequestRow
  BY <1>1 DEF RequestRow
<1>3. request'[r] # None
  BY <1>2, NoneAssumption
<1>4. \A other \in Op \ {op} : SameLive(other)
  BY <1>1, <1>3 DEF SameLive, Live, IsRequest
<1> QED
  BY <1>1, <1>3, <1>4

(* A new request is not before the start, and no second start.             *)
LEMMA AcceptedStart ==
  ASSUME TypeOK, StartIsFirst, NEW d \in Device, NEW r \in Request, NEW op \in {"time", "bib"},
         NEW p \in Place, NEW at \in Time, NEW v \in Value \cup {None},
         Accept(d, r, op, p, at, v), start # None => at >= start, start' = start
  PROVE  StartIsFirst'
<1>1. /\ request'[r] = [device |-> d, op |-> op, place |-> p, at |-> at,
                        value |-> v, undone |-> FALSE]
      /\ \A q \in Request \ {r} : request'[q] = request[q]
  BY Accepted DEF Op
<1> QED
  BY <1>1 DEF StartIsFirst, IsRequest

(* A finish is appended to its stream.                                     *)
LEMMA TimeStep ==
  ASSUME PhoneInv, NEW d \in Device, NEW r \in Request, NEW at \in Time,
         SubmitTime(d, r, at)
  PROVE  FinishInv' /\ SameLive("bib") /\ StartIsFirst'
<1> DEFINE s == ScopeOf(d)
           p == Highest(PulsePlaces(s)) + 1
           row == [scope |-> s, place |-> p, at |-> at, time |-> Elapsed(at)]
<1>1. TypeOK /\ FinishInv /\ StartIsFirst
  BY DEF PhoneInv, FinishInv, PlacesContiguous, RequestOwnsRow, TimesFollowStart
<1>2. /\ p \in Place /\ Accept(d, r, "time", p, at, None)
      /\ start # None => at >= start
      /\ pulse' = [pulse EXCEPT ![r] = row]
      /\ start' = start
  BY DEF SubmitTime
<1>3. PICK n \in Place : PulsePlaces(s) = 1 .. n
  BY <1>1, Shapes DEF FinishInv, FinishesContiguous, Numbered
<1>4. p = n + 1
  BY <1>3, HighestOfNumbered, BoundAssumption DEF Place
<1>5. s \in Scope /\ Elapsed(at) \in Time \cup {Pending}
  BY <1>1, <1>2, Shapes, BoundAssumption DEF Elapsed, Time, TypeOK
<1> HIDE DEF p, s
<1>6. row \in PulseRow /\ row # None
  <2>1. row \in PulseRow
    BY <1>2, <1>5 DEF PulseRow
  <2> QED
    BY <2>1, NoneAssumption
<1>7. /\ request'[r] = [device |-> d, op |-> "time", place |-> p, at |-> at,
                        value |-> None, undone |-> FALSE]
      /\ request'[r] # None
      /\ request[r] = None
      /\ \A q \in Request \ {r} : request'[q] = request[q]
      /\ SameLive("bib")
  BY <1>1, <1>2, Accepted DEF Op
<1>8. ~IsPulse(r)
  BY <1>1, <1>7 DEF FinishInv, RequestOwnsPulse, Live, IsRequest, RowId
<1>9. pulse'[r] = row /\ \A i \in RowId \ {r} : pulse'[i] = pulse[i]
  BY <1>1, <1>2 DEF TypeOK, RowId
<1>10. FinishesContiguous'
  <2>1. \A i \in RowId : IsPulse(i)' <=> IsPulse(i) \/ i = r
    BY <1>6, <1>8, <1>9 DEF IsPulse, RowId
  <2>2. PulsePlaces(s)' = 1 .. p
    <3>1. PulsePlaces(s)' = PulsePlaces(s) \cup {p}
      BY <1>9, <1>8, <2>1 DEF PulsePlaces, RowId, IsPulse
    <3> QED
      BY <3>1, <1>3, <1>4 DEF Place
  <2>3. \A t \in Scope \ {s} : PulsePlaces(t)' = PulsePlaces(t)
    BY <1>9, <1>8, <2>1 DEF PulsePlaces, RowId, IsPulse
  <2>4. \A t \in Scope : Numbered(PulsePlaces(t))'
    BY <1>1, <1>2, <2>2, <2>3 DEF FinishInv, FinishesContiguous, Numbered
  <2>5. \A i \in RowId \ {r} : IsPulse(i) /\ pulse[i].scope = s => pulse[i].place # p
    <3>1. \A i \in RowId : IsPulse(i) /\ pulse[i].scope = s
                            => pulse[i].place \in PulsePlaces(s)
      BY DEF PulsePlaces
    <3> QED
      BY <3>1, <1>3, <1>4 DEF Place
  <2>6. ASSUME NEW i \in RowId, NEW j \in RowId, IsPulse(i)', IsPulse(j)',
               pulse'[i].scope = pulse'[j].scope, pulse'[i].place = pulse'[j].place
        PROVE i = j
    BY <1>1, <1>9, <2>1, <2>5, <2>6 DEF FinishInv, FinishesContiguous
  <2> QED
    BY <2>4, <2>6 DEF FinishesContiguous
<1>11. RequestOwnsPulse'
  <2>1. \A q \in Request \ {r} : Live(q, "time")' <=> Live(q, "time")
    BY <1>7 DEF Live, IsRequest
  <2>2. Live(r, "time")'
    BY <1>7 DEF Live, IsRequest
  <2>3. ASSUME NEW q \in Request, Live(q, "time")' PROVE TimeRow(q)'
    <3>1. CASE q = r
      BY <1>6, <1>7, <1>9, <3>1 DEF TimeRow, IsPulse, ScopeOf, s
    <3>2. CASE q # r
      <4>1. TimeRow(q)
        BY <1>1, <2>1, <2>3, <3>2 DEF FinishInv, RequestOwnsPulse
      <4> QED
        BY <1>7, <1>9, <3>2, <4>1 DEF TimeRow, IsPulse, ScopeOf, RowId
    <3> QED
      BY <3>1, <3>2
  <2>4. ASSUME NEW i \in RowId, IsPulse(i)' PROVE i \in Request /\ Live(i, "time")'
    BY <1>1, <1>9, <2>1, <2>2, <2>4 DEF FinishInv, RequestOwnsPulse, IsPulse
  <2> QED
    BY <2>3, <2>4 DEF RequestOwnsPulse
<1>12. FinishTimes'
  BY <1>1, <1>2, <1>7, <1>9 DEF FinishInv, FinishTimes, Live, IsRequest, Elapsed, RowId
<1>13. StartIsFirst'
  BY <1>1, <1>2, AcceptedStart
<1> QED
  BY <1>7, <1>10, <1>11, <1>12, <1>13 DEF FinishInv

(* A bib is appended to its chute, under a value that repeats none.        *)
LEMMA BibStep ==
  ASSUME PhoneInv, NEW d \in Device, NEW r \in Request, NEW at \in Time,
         NEW input \in Bib \cup {Unread, Excluded}, SubmitBib(d, r, at, input)
  PROVE  ChuteInv' /\ SameLive("time") /\ StartIsFirst'
<1> DEFINE s == ScopeOf(d)
           p == Highest(ChutePlaces(s)) + 1
           v == Recorded(r, input)
           row == [value |-> v, time |-> Elapsed(at), by |-> r]
<1>1. TypeOK /\ ChuteInv /\ StartIsFirst
  BY DEF PhoneInv, ChuteInv, PlacesContiguous, RequestOwnsRow, TimesFollowStart
<1>2. /\ p \in Place /\ v \in Value /\ Accept(d, r, "bib", p, at, v)
      /\ start # None => at >= start
      /\ chute' = [chute EXCEPT ![s][p] = row]
      /\ start' = start
  BY DEF SubmitBib
<1>3. PICK n \in Place : ChutePlaces(s) = 1 .. n
  BY <1>1, Shapes DEF ChuteInv, PlacementsContiguous, Numbered
<1>4. p = n + 1
  BY <1>3, HighestOfNumbered, BoundAssumption DEF Place
<1>5. s \in Scope /\ Elapsed(at) \in Time \cup {Pending}
  BY <1>1, <1>2, Shapes, BoundAssumption DEF Elapsed, Time, TypeOK
<1>6. v.tag \in {"plain", "PH"} => Holding(v) = {}
  BY <1>1, RecordedIsFresh
<1> HIDE DEF p, s, v
<1>7. row \in ChuteRow /\ row # None
  <2>1. row \in ChuteRow
    BY <1>2, <1>5 DEF ChuteRow
  <2> QED
    BY <2>1, NoneAssumption
<1>8. /\ request'[r] = [device |-> d, op |-> "bib", place |-> p, at |-> at,
                        value |-> v, undone |-> FALSE]
      /\ request'[r] # None
      /\ request[r] = None
      /\ \A q \in Request \ {r} : request'[q] = request[q]
      /\ SameLive("time")
  BY <1>1, <1>2, Accepted DEF Op
<1>9. ~IsRow(s, p)
  BY <1>3, <1>4, <1>2 DEF ChutePlaces, Place
<1>10. /\ chute'[s][p] = row
       /\ \A t \in Scope, q \in Place : <<t, q>> # <<s, p>> => chute'[t][q] = chute[t][q]
  BY <1>1, <1>2, <1>5 DEF TypeOK
<1>11. \A t \in Scope, q \in Place : IsRow(t, q)' <=> IsRow(t, q) \/ (t = s /\ q = p)
  BY <1>7, <1>9, <1>10 DEF IsRow
<1>12. PlacementsContiguous'
  <2>1. ChutePlaces(s)' = 1 .. p
    <3>1. ChutePlaces(s)' = ChutePlaces(s) \cup {p}
      BY <1>2, <1>5, <1>11 DEF ChutePlaces, IsRow
    <3> QED
      BY <3>1, <1>3, <1>4 DEF Place
  <2>2. \A t \in Scope \ {s} : ChutePlaces(t)' = ChutePlaces(t)
    BY <1>11 DEF ChutePlaces, IsRow
  <2> QED
    BY <1>1, <1>2, <2>1, <2>2 DEF ChuteInv, PlacementsContiguous, Numbered
<1>13. /\ \A q \in Request \ {r} : Live(q, "bib")' <=> Live(q, "bib")
       /\ Live(r, "bib")'
  BY <1>8 DEF Live, IsRequest
<1>14. RowOf(r)' = row
  BY <1>8, <1>10 DEF RowOf, ScopeOf, s
<1>15. ASSUME NEW q \in Request \ {r}, Live(q, "bib")
       PROVE RowOf(q)' = RowOf(q)
  <2>1. RowOf(q) # None /\ RowOf(q) = chute[ScopeOf(request[q].device)][request[q].place]
    BY <1>1, <1>15 DEF ChuteInv, RequestOwnsPlacement, RowOf
  <2>2. ScopeOf(request[q].device) \in Scope /\ request[q].place \in Place
    BY <1>1, <1>15, Shapes DEF Live, RequestRow
  <2>3. <<ScopeOf(request[q].device), request[q].place>> # <<s, p>>
    BY <1>9, <2>1, <2>2 DEF IsRow
  <2> QED
    BY <1>8, <1>10, <2>2, <2>3 DEF RowOf, ScopeOf
<1>16. RequestOwnsPlacement'
  <2>1. ASSUME NEW q \in Request, Live(q, "bib")'
        PROVE RowOf(q)' # None /\ RowOf(q)'.by = q /\ RowOf(q)'.value = request'[q].value
    <3>1. CASE q = r
      BY <1>7, <1>8, <1>14, <3>1
    <3>2. CASE q # r
      BY <1>1, <1>8, <1>13, <1>15, <2>1, <3>2 DEF ChuteInv, RequestOwnsPlacement
    <3> QED
      BY <3>1, <3>2
  <2>2. ASSUME NEW t \in Scope, NEW q \in Place, IsRow(t, q)'
        PROVE  \E o \in Request : /\ chute'[t][q].by = o
                                  /\ Live(o, "bib")'
                                  /\ SessionScope[DeviceSession[request'[o].device]] = t
                                  /\ request'[o].place = q
    <3>1. CASE t = s /\ q = p
      <4>1. chute'[t][q].by = r
        BY <1>10, <3>1
      <4> QED
        BY <1>8, <1>13, <3>1, <4>1 DEF ScopeOf, s
    <3>2. CASE ~(t = s /\ q = p)
      <4>1. PICK o \in Request : /\ chute[t][q].by = o
                                /\ Live(o, "bib")
                                /\ ScopeOf(request[o].device) = t
                                /\ request[o].place = q
        BY <1>1, <1>11, <2>2, <3>2 DEF ChuteInv, RequestOwnsPlacement
      <4>2. o # r
        BY <1>8, <4>1 DEF Live, IsRequest
      <4> QED
        BY <1>8, <1>10, <1>13, <3>2, <4>1, <4>2 DEF ScopeOf
    <3> QED
      BY <3>1, <3>2
  <2> QED
    BY <2>1, <2>2 DEF RequestOwnsPlacement, RowOf, ScopeOf
<1>17. ChuteTimes'
  <2>1. ASSUME NEW q \in Request, Live(q, "bib")'
        PROVE RowOf(q)'.time = Elapsed(request'[q].at)
    <3>1. CASE q = r
      BY <1>8, <1>14, <3>1
    <3>2. CASE q # r
      BY <1>1, <1>8, <1>13, <1>15, <2>1, <3>2 DEF ChuteInv, ChuteTimes
    <3> QED
      BY <3>1, <3>2
  <2> QED
    BY <1>2, <2>1 DEF ChuteTimes, RowOf, ScopeOf, Elapsed
<1>18. ASSUME NEW tag \in {"plain", "PH"} PROVE HeldOnce(tag)'
  <2>1. HeldOnce(tag)
    BY <1>1 DEF ChuteInv, BibOnce, PlaceholderOnce
  <2>2. Occupied' = Occupied \cup {<<s, p>>}
    BY <1>2, <1>5, <1>11 DEF Occupied, IsRow
  <2>3. chute'[s][p].value = v
    BY <1>10
  <2>5. ASSUME NEW x \in Occupied
        PROVE chute'[x[1]][x[2]].value = ValueAt(x) /\ x # <<s, p>>
    <3>1. x[1] \in Scope /\ x[2] \in Place /\ x = <<x[1], x[2]>> /\ IsRow(x[1], x[2])
      BY DEF Occupied
    <3>2. <<x[1], x[2]>> # <<s, p>>
      BY <3>1, <1>9
    <3> QED
      BY <3>1, <3>2, <1>10 DEF ValueAt
  <2>4. v.tag = tag => \A x \in Occupied : ValueAt(x) # v
    BY <1>6 DEF Holding
  <2>6. ASSUME NEW x \in Occupied', NEW y \in Occupied',
               chute'[x[1]][x[2]].value.tag = tag,
               chute'[y[1]][y[2]].value = chute'[x[1]][x[2]].value
        PROVE x = y
    <3>1. CASE x \in Occupied /\ y \in Occupied
      BY <2>1, <2>5, <2>6, <3>1 DEF HeldOnce
    <3>2. CASE x = <<s, p>> \/ y = <<s, p>>
      BY <2>2, <2>3, <2>4, <2>5, <2>6, <3>2
    <3> QED
      BY <2>2, <3>1, <3>2
  <2> QED
    BY <2>6 DEF HeldOnce, ValueAt
<1>19. StartIsFirst'
  BY <1>1, <1>2, AcceptedStart
<1> QED
  BY <1>8, <1>12, <1>16, <1>17, <1>18, <1>19 DEF ChuteInv, BibOnce, PlaceholderOnce

(* An undone request no longer stands; the others are as they were.        *)
LEMMA Undone ==
  ASSUME TypeOK, StartIsFirst, NEW d \in Device, NEW r \in Request, Undo(d, r)
  PROVE  /\ \A q \in Request \ {r} : request'[q] = request[q]
         /\ \A op \in Op : ~Live(r, op)'
         /\ \A other \in Op \ {request[r].op} : SameLive(other)
         /\ Live(r, request[r].op)
         /\ request[r].device = d
         /\ StartIsFirst'
<1>1. /\ IsRequest(r) /\ ~request[r].undone /\ request[r].device = d
      /\ request' = [request EXCEPT ![r].undone = TRUE]
      /\ start' = start
  BY DEF Undo
<1>2. /\ request'[r] = [request[r] EXCEPT !.undone = TRUE]
      /\ request[r] \in RequestRow
      /\ \A q \in Request \ {r} : request'[q] = request[q]
  BY <1>1, Shapes DEF TypeOK
<1>3. request'[r].undone = TRUE /\ request'[r].op = request[r].op
  BY <1>2 DEF RequestRow
<1>4. \A op \in Op : ~Live(r, op)'
  BY <1>3 DEF Live
<1>5. \A other \in Op \ {request[r].op} : SameLive(other)
  BY <1>2, <1>3 DEF SameLive, Live, IsRequest
<1>6. StartIsFirst'
  BY <1>1, <1>2, <1>3 DEF StartIsFirst, IsRequest
<1> QED
  BY <1>1, <1>2, <1>4, <1>5, <1>6 DEF Live

(* Undoing a finish removes the last of the stream, and no other finish.   *)
LEMMA UndoTimeStep ==
  ASSUME PhoneInv, NEW d \in Device, NEW r \in Request, Undo(d, r),
         request[r].op = "time"
  PROVE  /\ FinishInv' /\ SameLive("bib") /\ chute' = chute
         /\ pulse' = [i \in RowId |-> IF i = r THEN None ELSE pulse[i]]
<1> DEFINE s == ScopeOf(d)
           p == request[r].place
<1>1. TypeOK /\ FinishInv /\ StartIsFirst
  BY DEF PhoneInv, FinishInv, PlacesContiguous, RequestOwnsRow, TimesFollowStart
<1>2. /\ p = Highest(PulsePlaces(s))
      /\ pulse' = [i \in RowId |-> IF IsPulse(i) /\ pulse[i].scope = s /\ pulse[i].place = p
                                  THEN None ELSE pulse[i]]
      /\ chute' = chute
      /\ start' = start
  BY DEF Undo, IsLast, WithoutPulses
<1>3. /\ \A q \in Request \ {r} : request'[q] = request[q]
      /\ ~Live(r, "time")'
      /\ SameLive("bib")
      /\ Live(r, "time")
      /\ request[r].device = d
  BY <1>1, Undone DEF Op
<1>4. IsPulse(r) /\ pulse[r].scope = s /\ pulse[r].place = p
  BY <1>1, <1>3 DEF FinishInv, RequestOwnsPulse, TimeRow
<1>5. PICK n \in Place : PulsePlaces(s) = 1 .. n
  BY <1>1, Shapes DEF FinishInv, FinishesContiguous, Numbered
<1>6. p = n /\ n > 0
  <2>1. p \in PulsePlaces(s)
    BY <1>4 DEF PulsePlaces, RowId
  <2> QED
    BY <1>2, <1>5, <2>1, HighestOfNumbered, BoundAssumption DEF Place
<1>7. s \in Scope
  BY <1>1, Shapes
<1> HIDE DEF s, p
<1>8. /\ pulse'[r] = None
      /\ \A i \in RowId \ {r} : pulse'[i] = pulse[i]
  BY <1>1, <1>2, <1>4 DEF RowId, FinishInv, FinishesContiguous
<1>9. pulse' = [i \in RowId |-> IF i = r THEN None ELSE pulse[i]]
  BY <1>2, <1>8
<1>10. FinishesContiguous'
  <2>1. PulsePlaces(s)' = 1 .. (n - 1)
    <3>1. PulsePlaces(s)' = PulsePlaces(s) \ {p}
      <4>1. ASSUME NEW i \in RowId \ {r}, IsPulse(i), pulse[i].scope = s
            PROVE pulse[i].place # p
        BY <1>1, <1>4, <4>1 DEF FinishInv, FinishesContiguous, RowId
      <4> QED
        BY <1>4, <1>8, <4>1 DEF PulsePlaces, IsPulse, RowId
    <3> QED
      BY <3>1, <1>5, <1>6 DEF Place
  <2>2. \A t \in Scope \ {s} : PulsePlaces(t)' = PulsePlaces(t)
    BY <1>4, <1>8 DEF PulsePlaces, IsPulse, RowId
  <2>3. n - 1 \in Place
    BY <1>6, BoundAssumption DEF Place
  <2>4. \A t \in Scope : Numbered(PulsePlaces(t))'
    BY <1>1, <2>1, <2>2, <2>3 DEF FinishInv, FinishesContiguous, Numbered
  <2>5. ASSUME NEW i \in RowId, NEW j \in RowId, IsPulse(i)', IsPulse(j)',
               pulse'[i].scope = pulse'[j].scope, pulse'[i].place = pulse'[j].place
        PROVE i = j
    BY <1>1, <1>8, <2>5 DEF FinishInv, FinishesContiguous, IsPulse
  <2> QED
    BY <2>4, <2>5 DEF FinishesContiguous
<1>11. \A q \in Request \ {r} : Live(q, "time")' <=> Live(q, "time")
  BY <1>3 DEF Live, IsRequest
<1>12. RequestOwnsPulse'
  <2>1. ASSUME NEW q \in Request, Live(q, "time")' PROVE TimeRow(q)'
    <3>1. q # r /\ TimeRow(q)
      BY <1>1, <1>3, <1>11, <2>1 DEF FinishInv, RequestOwnsPulse
    <3> QED
      BY <1>3, <1>8, <3>1 DEF TimeRow, IsPulse, ScopeOf, RowId
  <2>2. ASSUME NEW i \in RowId, IsPulse(i)' PROVE i \in Request /\ Live(i, "time")'
    BY <1>1, <1>8, <1>11, <2>2 DEF FinishInv, RequestOwnsPulse, IsPulse
  <2> QED
    BY <2>1, <2>2 DEF RequestOwnsPulse
<1>13. FinishTimes'
  BY <1>1, <1>2, <1>3, <1>8, <1>11 DEF FinishInv, FinishTimes, Elapsed, RowId
<1> QED
  BY <1>2, <1>3, <1>9, <1>10, <1>12, <1>13 DEF FinishInv

(* Undoing a bib removes the last of its chute, and no other placement.    *)
LEMMA UndoBibStep ==
  ASSUME PhoneInv, NEW d \in Device, NEW r \in Request, Undo(d, r),
         request[r].op = "bib"
  PROVE  /\ ChuteInv' /\ SameLive("time") /\ pulse' = pulse
         /\ \A t \in Scope, q \in Place :
              chute'[t][q] # chute[t][q] => chute[t][q].by = r
<1> DEFINE s == ScopeOf(d)
           p == request[r].place
<1>1. TypeOK /\ ChuteInv /\ StartIsFirst
  BY DEF PhoneInv, ChuteInv, PlacesContiguous, RequestOwnsRow, TimesFollowStart
<1>2. /\ p = Highest(ChutePlaces(s))
      /\ chute' = [chute EXCEPT ![s][p] = None]
      /\ pulse' = pulse
      /\ start' = start
  BY DEF Undo, IsLast, WithoutPulses
<1>3. /\ \A q \in Request \ {r} : request'[q] = request[q]
      /\ ~Live(r, "bib")'
      /\ SameLive("time")
      /\ Live(r, "bib")
      /\ request[r].device = d
  BY <1>1, Undone DEF Op
<1>4. s \in Scope /\ p \in Place
  BY <1>1, <1>3, Shapes DEF Live, RequestRow
<1>5. IsRow(s, p) /\ chute[s][p].by = r
  BY <1>1, <1>3 DEF ChuteInv, RequestOwnsPlacement, RowOf, IsRow
<1>6. PICK n \in Place : ChutePlaces(s) = 1 .. n
  BY <1>1, <1>4 DEF ChuteInv, PlacementsContiguous, Numbered
<1>7. p = n /\ n > 0
  <2>1. p \in ChutePlaces(s)
    BY <1>4, <1>5 DEF ChutePlaces
  <2> QED
    BY <1>2, <1>6, <2>1, HighestOfNumbered, BoundAssumption DEF Place
<1> HIDE DEF s, p
<1>8. /\ chute'[s][p] = None
      /\ \A t \in Scope, q \in Place : <<t, q>> # <<s, p>> => chute'[t][q] = chute[t][q]
  BY <1>1, <1>2, <1>4 DEF TypeOK
<1>9. \A t \in Scope, q \in Place : IsRow(t, q)' <=> IsRow(t, q) /\ ~(t = s /\ q = p)
  BY <1>8 DEF IsRow
<1>10. PlacementsContiguous'
  <2>1. ChutePlaces(s)' = 1 .. (n - 1)
    <3>1. ChutePlaces(s)' = ChutePlaces(s) \ {p}
      BY <1>4, <1>9 DEF ChutePlaces, IsRow
    <3> QED
      BY <3>1, <1>6, <1>7 DEF Place
  <2>2. \A t \in Scope \ {s} : ChutePlaces(t)' = ChutePlaces(t)
    BY <1>9 DEF ChutePlaces, IsRow
  <2>3. n - 1 \in Place
    BY <1>7, BoundAssumption DEF Place
  <2> QED
    BY <1>1, <2>1, <2>2, <2>3 DEF ChuteInv, PlacementsContiguous, Numbered
<1>11. \A q \in Request \ {r} : Live(q, "bib")' <=> Live(q, "bib")
  BY <1>3 DEF Live, IsRequest
<1>12. ASSUME NEW q \in Request \ {r}, Live(q, "bib")
       PROVE RowOf(q)' = RowOf(q)
  <2>1. RowOf(q).by = q /\ RowOf(q) = chute[ScopeOf(request[q].device)][request[q].place]
    BY <1>1, <1>12 DEF ChuteInv, RequestOwnsPlacement, RowOf
  <2>2. ScopeOf(request[q].device) \in Scope /\ request[q].place \in Place
    BY <1>1, <1>12, Shapes DEF Live, RequestRow
  <2>3. <<ScopeOf(request[q].device), request[q].place>> # <<s, p>>
    BY <1>5, <2>1, <2>2
  <2> QED
    BY <1>3, <1>8, <2>2, <2>3 DEF RowOf, ScopeOf
<1>13. RequestOwnsPlacement'
  <2>1. ASSUME NEW q \in Request, Live(q, "bib")'
        PROVE RowOf(q)' # None /\ RowOf(q)'.by = q /\ RowOf(q)'.value = request'[q].value
    BY <1>1, <1>3, <1>11, <1>12, <2>1 DEF ChuteInv, RequestOwnsPlacement
  <2>2. ASSUME NEW t \in Scope, NEW q \in Place, IsRow(t, q)'
        PROVE  \E o \in Request : /\ chute'[t][q].by = o
                                  /\ Live(o, "bib")'
                                  /\ SessionScope[DeviceSession[request'[o].device]] = t
                                  /\ request'[o].place = q
    <3>1. PICK o \in Request : /\ chute[t][q].by = o
                              /\ Live(o, "bib")
                              /\ ScopeOf(request[o].device) = t
                              /\ request[o].place = q
      BY <1>1, <1>9, <2>2 DEF ChuteInv, RequestOwnsPlacement
    <3>2. o # r
      BY <1>3, <1>9, <2>2, <3>1 DEF s, p
    <3> QED
      BY <1>3, <1>8, <1>9, <1>11, <2>2, <3>1, <3>2 DEF ScopeOf
  <2> QED
    BY <2>1, <2>2 DEF RequestOwnsPlacement, RowOf, ScopeOf
<1>14. ChuteTimes'
  <2>1. ASSUME NEW q \in Request, Live(q, "bib")'
        PROVE RowOf(q)'.time = Elapsed(request'[q].at)
    BY <1>1, <1>3, <1>11, <1>12, <2>1 DEF ChuteInv, ChuteTimes
  <2> QED
    BY <1>2, <2>1 DEF ChuteTimes, RowOf, ScopeOf, Elapsed
<1>15. ASSUME NEW tag \in {"plain", "PH"} PROVE HeldOnce(tag)'
  <2>1. HeldOnce(tag)
    BY <1>1 DEF ChuteInv, BibOnce, PlaceholderOnce
  <2>2. ASSUME NEW x \in Occupied'
        PROVE x \in Occupied /\ chute'[x[1]][x[2]].value = ValueAt(x)
    <3>1. x[1] \in Scope /\ x[2] \in Place /\ x \in Scope \X Place /\ IsRow(x[1], x[2])'
      BY DEF Occupied, IsRow
    <3>2. IsRow(x[1], x[2]) /\ ~(x[1] = s /\ x[2] = p)
      BY <1>9, <3>1
    <3> QED
      BY <1>8, <3>1, <3>2 DEF Occupied, ValueAt
  <2> QED
    BY <2>1, <2>2 DEF HeldOnce, ValueAt
<1>16. \A t \in Scope, q \in Place : chute'[t][q] # chute[t][q] => chute[t][q].by = r
  BY <1>5, <1>8
<1> QED
  BY <1>2, <1>3, <1>10, <1>13, <1>14, <1>15, <1>16 DEF ChuteInv, BibOnce, PlaceholderOnce

(* A start that is applied gives every capture on record its time.         *)
LEMMA DeriveStep ==
  ASSUME PhoneInv, NEW d \in Device, NEW r \in Request, NEW at \in Time,
         Accept(d, r, "start", 0, at, None),
         start = None, start' = at, Derive(at)
  PROVE  FinishInv' /\ ChuteInv' /\ StartIsFirst'
<1>1. TypeOK /\ FinishInv /\ ChuteInv /\ StartIsFirst
  BY DEF PhoneInv, FinishInv, ChuteInv, PlacesContiguous, RequestOwnsRow, TimesFollowStart
<1>2. /\ request'[r] = [device |-> d, op |-> "start", place |-> 0, at |-> at,
                        value |-> None, undone |-> FALSE]
      /\ \A q \in Request \ {r} : request'[q] = request[q]
      /\ SameLive("time") /\ SameLive("bib")
  BY <1>1, Accepted, BoundAssumption DEF Op, Place
<1>3. at # None /\ start' # None
  BY NoneAssumption
<1>4. ASSUME NEW i \in RowId, IsPulse(i)
      PROVE /\ i \in Request /\ Live(i, "time") /\ i \in Captures
            /\ pulse[i].at = request[i].at /\ request[i].at >= at
            /\ pulse[i] \in PulseRow
  <2>1. i \in Request /\ Live(i, "time") /\ pulse[i].at = request[i].at
    BY <1>1, <1>4 DEF FinishInv, RequestOwnsPulse, TimeRow
  <2>2. request[i].at \in Time
    BY <1>1, <2>1, Shapes DEF Live, RequestRow
  <2>3. i \in Captures
    BY <1>4, <2>1, <2>2, NoneAssumption DEF Captures
  <2> QED
    BY <1>1, <1>4, <2>1, <2>3, Shapes DEF Derive
<1>5. ASSUME NEW i \in RowId
      PROVE /\ IsPulse(i)' <=> IsPulse(i)
            /\ IsPulse(i) => /\ pulse'[i] # None
                             /\ pulse'[i].scope = pulse[i].scope
                             /\ pulse'[i].place = pulse[i].place
                             /\ pulse'[i].at = pulse[i].at
                             /\ pulse'[i].time = request[i].at - at
  <2>1. CASE IsPulse(i)
    <3>1. pulse'[i] = [pulse[i] EXCEPT !.time = pulse[i].at - at]
      BY <1>4, <2>1 DEF Derive, Timed
    <3>2. Timed(at)[i] \in PulseRow \cup {None} /\ pulse[i] \in PulseRow
      BY <1>1, <1>4, <2>1, TimedRows DEF Derive
    <3>3. request[i].at - at \in Time
      <4>1. request[i].at \in Time
        BY <1>1, <1>4, <2>1, Shapes DEF Live, RequestRow
      <4> QED
        BY <1>4, <2>1, <4>1, BoundAssumption DEF Time
    <3>4. pulse'[i] \in PulseRow
      BY <1>4, <2>1, <3>1, <3>2, <3>3 DEF PulseRow
    <3> QED
      BY <1>4, <2>1, <3>1, <3>2, <3>4, NoneAssumption DEF PulseRow, IsPulse
  <2>2. CASE ~IsPulse(i)
    BY <2>2 DEF Derive, Timed, Captures, IsPulse
  <2> QED
    BY <2>1, <2>2
<1>6. FinishesContiguous'
  <2>1. \A s \in Scope : PulsePlaces(s)' = PulsePlaces(s)
    BY <1>5 DEF PulsePlaces, IsPulse
  <2>2. ASSUME NEW i \in RowId, NEW j \in RowId, IsPulse(i)', IsPulse(j)',
               pulse'[i].scope = pulse'[j].scope, pulse'[i].place = pulse'[j].place
        PROVE i = j
    BY <1>1, <1>5, <2>2 DEF FinishInv, FinishesContiguous
  <2> QED
    BY <1>1, <2>1, <2>2 DEF FinishInv, FinishesContiguous, Numbered
<1>7. RequestOwnsPulse'
  <2>1. ASSUME NEW q \in Request, Live(q, "time")' PROVE TimeRow(q)'
    <3>1. TimeRow(q) /\ Live(q, "time") /\ request'[q] = request[q]
      BY <1>1, <1>2, <2>1 DEF FinishInv, RequestOwnsPulse, SameLive
    <3> QED
      BY <1>5, <3>1 DEF TimeRow, IsPulse, ScopeOf, RowId
  <2>2. ASSUME NEW i \in RowId, IsPulse(i)' PROVE i \in Request /\ Live(i, "time")'
    BY <1>2, <1>4, <1>5, <2>2 DEF SameLive
  <2> QED
    BY <2>1, <2>2 DEF RequestOwnsPulse
<1>8. FinishTimes'
  <2>1. ASSUME NEW q \in Request, Live(q, "time")'
        PROVE pulse'[q].time = request'[q].at - at
    <3>1. IsPulse(q) /\ Live(q, "time") /\ request'[q] = request[q]
      BY <1>1, <1>2, <2>1 DEF FinishInv, RequestOwnsPulse, SameLive, TimeRow
    <3> QED
      BY <1>5, <3>1 DEF RowId
  <2> QED
    BY <1>3, <2>1 DEF FinishTimes, Elapsed
<1>9. PICK from \in [Blank -> Request] :
         /\ \A x \in Blank : from[x] \in Sources(x[1], x[2])
         /\ chute' = Filled(Blank, from, at)
  BY DEF Derive
<1>10. ASSUME NEW s \in Scope, NEW p \in Place, IsRow(s, p)
       PROVE /\ <<s, p>> \in Blank
             /\ Sources(s, p) = {chute[s][p].by}
             /\ chute[s][p].by \in Request
             /\ request[chute[s][p].by].at \in Time
             /\ request[chute[s][p].by].at >= at
             /\ chute[s][p] \in ChuteRow
  <2>1. PICK o \in Request : /\ chute[s][p].by = o
                            /\ Live(o, "bib")
                            /\ ScopeOf(request[o].device) = s
                            /\ request[o].place = p
    BY <1>1, <1>10 DEF ChuteInv, RequestOwnsPlacement
  <2>2. \A q \in Sources(s, p) : q = o
    BY <1>1, <2>1 DEF Sources, ChuteInv, RequestOwnsPlacement, RowOf
  <2>3. o \in Sources(s, p)
    BY <1>1, <2>1 DEF Sources, ChuteInv, RequestOwnsPlacement, RowOf
  <2>4. chute[s][p].time = Pending
    BY <1>1, <2>1 DEF ChuteInv, ChuteTimes, RowOf, Elapsed
  <2>5. <<s, p>> \in Blank
    BY <1>10, <2>3, <2>4 DEF Blank, Occupied
  <2>6. request[o].at \in Time /\ chute[s][p] \in ChuteRow
    BY <1>1, <1>10, <2>1, Shapes DEF Live, RequestRow
  <2>7. request[o].at >= at
    BY <2>3, <2>5 DEF Derive
  <2> QED
    BY <2>1, <2>2, <2>3, <2>5, <2>6, <2>7
<1>11. ASSUME NEW s \in Scope, NEW p \in Place
       PROVE /\ IsRow(s, p)' <=> IsRow(s, p)
             /\ IsRow(s, p) => /\ chute'[s][p] # None
                               /\ chute'[s][p].value = chute[s][p].value
                               /\ chute'[s][p].by = chute[s][p].by
                               /\ chute'[s][p].time = request[chute[s][p].by].at - at
  <2>1. CASE IsRow(s, p)
    <3>1. from[<<s, p>>] = chute[s][p].by
      BY <1>9, <1>10, <2>1
    <3>2. chute'[s][p] = [chute[s][p] EXCEPT !.time = request[chute[s][p].by].at - at]
      BY <1>9, <1>10, <2>1, <3>1 DEF Filled
    <3>3. request[chute[s][p].by].at - at \in Time
      <4>1. request[chute[s][p].by].at \in Time /\ request[chute[s][p].by].at >= at
        BY <1>10, <2>1
      <4> QED
        BY ONLY <4>1, at \in Time, BoundAssumption DEF Time
    <3>4. chute'[s][p] \in ChuteRow
      BY <1>10, <2>1, <3>2, <3>3 DEF ChuteRow
    <3> QED
      BY <1>10, <2>1, <3>2, <3>4, NoneAssumption DEF ChuteRow, IsRow
  <2>2. CASE ~IsRow(s, p)
    <3>1. <<s, p>> \notin Blank
      BY <2>2 DEF Blank, Occupied
    <3>2. chute'[s][p] = chute[s][p]
      BY <1>9, <3>1 DEF Filled
    <3> QED
      BY <2>2, <3>2 DEF IsRow
  <2> QED
    BY <2>1, <2>2
<1>12. PlacementsContiguous'
  BY <1>1, <1>11 DEF ChuteInv, PlacementsContiguous, Numbered, ChutePlaces, IsRow
<1>13. ASSUME NEW q \in Request, Live(q, "bib")'
       PROVE /\ Live(q, "bib") /\ request'[q] = request[q]
             /\ RowOf(q)' # None /\ RowOf(q)'.by = q
             /\ RowOf(q)'.value = request[q].value
             /\ RowOf(q)'.time = request[q].at - at
  <2> DEFINE s == ScopeOf(request[q].device)
             p == request[q].place
  <2>1. Live(q, "bib") /\ request'[q] = request[q]
    BY <1>2, <1>13 DEF SameLive
  <2>2. s \in Scope /\ p \in Place
    BY <1>1, <2>1, Shapes DEF Live, RequestRow
  <2>3. IsRow(s, p) /\ chute[s][p].by = q /\ chute[s][p].value = request[q].value
    BY <1>1, <2>1 DEF ChuteInv, RequestOwnsPlacement, RowOf, IsRow
  <2>4. RowOf(q)' = chute'[s][p]
    BY <2>1 DEF RowOf, ScopeOf
  <2> HIDE DEF s, p
  <2> QED
    BY <1>11, <2>1, <2>2, <2>3, <2>4
<1>14. RequestOwnsPlacement'
  <2>1. ASSUME NEW s \in Scope, NEW p \in Place, IsRow(s, p)'
        PROVE  \E o \in Request : /\ chute'[s][p].by = o
                                  /\ Live(o, "bib")'
                                  /\ SessionScope[DeviceSession[request'[o].device]] = s
                                  /\ request'[o].place = p
    <3>1. PICK o \in Request : /\ chute[s][p].by = o
                              /\ Live(o, "bib")
                              /\ ScopeOf(request[o].device) = s
                              /\ request[o].place = p
      BY <1>1, <1>11, <2>1 DEF ChuteInv, RequestOwnsPlacement
    <3> QED
      BY <1>2, <1>11, <2>1, <3>1 DEF ScopeOf, SameLive
  <2> QED
    BY <1>13, <2>1 DEF RequestOwnsPlacement, RowOf, ScopeOf
<1>15. ChuteTimes'
  BY <1>3, <1>13 DEF ChuteTimes, Elapsed, RowOf, ScopeOf
<1>16. ASSUME NEW tag \in {"plain", "PH"} PROVE HeldOnce(tag)'
  <2>1. HeldOnce(tag)
    BY <1>1 DEF ChuteInv, BibOnce, PlaceholderOnce
  <2>2. ASSUME NEW x \in Occupied'
        PROVE x \in Occupied /\ chute'[x[1]][x[2]].value = ValueAt(x)
    <3>1. x[1] \in Scope /\ x[2] \in Place /\ x \in Scope \X Place /\ IsRow(x[1], x[2])'
      BY DEF Occupied, IsRow
    <3> QED
      BY <1>11, <3>1 DEF Occupied, ValueAt
  <2> QED
    BY <2>1, <2>2 DEF HeldOnce, ValueAt
<1>17. StartIsFirst'
  <2>1. ASSUME NEW q \in Request, q # r, IsRequest(q), ~request[q].undone
        PROVE request[q].at >= at /\ request[q].op # "start"
    <3>1. request[q] \in RequestRow
      BY <1>1, <2>1, Shapes
    <3>2. request[q].op # "start"
      BY <1>1, <2>1, <3>1, NoneAssumption DEF StartIsFirst, RequestRow
    <3>3. CASE request[q].op = "time"
      BY <1>1, <1>4, <2>1, <3>2, <3>3 DEF FinishInv, RequestOwnsPulse, TimeRow, Live, RowId
    <3>4. CASE request[q].op = "bib"
      <4>1. RowOf(q) # None /\ RowOf(q).by = q
        BY <1>1, <2>1, <3>4 DEF ChuteInv, RequestOwnsPlacement, Live
      <4>2. ScopeOf(request[q].device) \in Scope /\ request[q].place \in Place
        BY <1>1, <2>1, <3>1, Shapes DEF RequestRow
      <4> QED
        BY <1>10, <3>2, <4>1, <4>2 DEF RowOf, IsRow
    <3> QED
      BY <3>1, <3>2, <3>3, <3>4 DEF RequestRow, Op
  <2> QED
    BY <1>2, <2>1 DEF StartIsFirst, IsRequest, Time
<1> QED
  BY <1>6, <1>7, <1>8, <1>12, <1>14, <1>15, <1>16, <1>17
     DEF FinishInv, ChuteInv, BibOnce, PlaceholderOnce

(* A start is applied once; sent again with the same instant it changes    *)
(* no row.                                                                 *)
LEMMA StartStep ==
  ASSUME PhoneInv, NEW d \in Device, NEW r \in Request, NEW at \in Time,
         SubmitStart(d, r, at)
  PROVE  FinishInv' /\ ChuteInv' /\ StartIsFirst'
<1>1. Accept(d, r, "start", 0, at, None)
  BY DEF SubmitStart
<1>2. CASE start = None /\ start' = at /\ Derive(at)
  BY <1>1, <1>2, DeriveStep
<1>3. CASE start = at /\ UNCHANGED <<start, pulse, chute>>
  <2>1. TypeOK /\ FinishInv /\ ChuteInv /\ StartIsFirst
    BY DEF PhoneInv, FinishInv, ChuteInv, PlacesContiguous, RequestOwnsRow, TimesFollowStart
  <2>2. /\ request'[r] = [device |-> d, op |-> "start", place |-> 0, at |-> at,
                          value |-> None, undone |-> FALSE]
        /\ \A q \in Request \ {r} : request'[q] = request[q]
        /\ SameLive("time") /\ SameLive("bib")
    BY <1>1, <2>1, Accepted, BoundAssumption DEF Op, Place
  <2>3. FinishInv' /\ ChuteInv'
    BY <1>3, <2>1, <2>2, FinishFrame, ChuteFrame
  <2>4. StartIsFirst'
    BY <1>3, <2>1, <2>2 DEF StartIsFirst, IsRequest, Time
  <2> QED
    BY <2>3, <2>4
<1> QED
  BY <1>2, <1>3 DEF SubmitStart

LEMMA InitPhone == Init => PhoneInv
<1>1. SUFFICES ASSUME Init PROVE PhoneInv
  OBVIOUS
<1>2. /\ \A i \in RowId : ~IsPulse(i)
      /\ \A r \in Request : ~IsRequest(r)
      /\ \A s \in Scope, p \in Place : ~IsRow(s, p)
  BY <1>1 DEF Init, IsPulse, IsRequest, IsRow
<1>3. TypeOK
  BY <1>1 DEF Init, TypeOK
<1>4. PlacesContiguous
  <2>1. \A s \in Scope : PulsePlaces(s) = 1 .. 0 /\ ChutePlaces(s) = 1 .. 0
    BY <1>2 DEF PulsePlaces, ChutePlaces
  <2>2. 0 \in Place
    BY BoundAssumption DEF Place
  <2> QED
    BY <1>2, <2>1, <2>2
       DEF PlacesContiguous, FinishesContiguous, PlacementsContiguous, Numbered
<1>5. RequestOwnsRow /\ TimesFollowStart
  BY <1>2 DEF RequestOwnsRow, RequestOwnsPulse, RequestOwnsPlacement, TimesFollowStart,
              FinishTimes, ChuteTimes, StartIsFirst, Live
<1>6. BibOnce /\ PlaceholderOnce
  BY <1>2 DEF BibOnce, PlaceholderOnce, HeldOnce, Occupied
<1> QED
  BY <1>3, <1>4, <1>5, <1>6 DEF PhoneInv

LEMMA StepPhone == PhoneInv /\ [PhoneNext]_vars => PhoneInv'
<1>1. SUFFICES ASSUME PhoneInv, [PhoneNext]_vars PROVE PhoneInv'
  OBVIOUS
<1>2. TypeOK /\ FinishInv /\ ChuteInv /\ StartIsFirst
  BY <1>1 DEF PhoneInv, FinishInv, ChuteInv, PlacesContiguous, RequestOwnsRow,
              TimesFollowStart
<1>3. TypeOK'
  BY <1>1, <1>2, StepTypeOK DEF Next
<1>4. ASSUME UNCHANGED <<start, pulse, chute, request>>
      PROVE  FinishInv' /\ ChuteInv' /\ StartIsFirst'
  <2>1. SameLive("time") /\ SameLive("bib")
    BY <1>4 DEF SameLive, Live, IsRequest
  <2> QED
    BY <1>2, <1>4, <2>1, FinishFrame, ChuteFrame DEF StartIsFirst, IsRequest
<1>5. ASSUME NEW d \in Device, NEW r \in Request, NEW at \in Time, SubmitTime(d, r, at)
      PROVE  FinishInv' /\ ChuteInv' /\ StartIsFirst'
  <2>1. chute' = chute /\ start' = start
    BY <1>5 DEF SubmitTime
  <2> QED
    BY <1>1, <1>2, <1>5, <2>1, TimeStep, ChuteFrame
<1>6. ASSUME NEW d \in Device, NEW r \in Request, NEW at \in Time,
             NEW input \in Bib \cup {Unread, Excluded}, SubmitBib(d, r, at, input)
      PROVE  FinishInv' /\ ChuteInv' /\ StartIsFirst'
  <2>1. pulse' = pulse /\ start' = start
    BY <1>6 DEF SubmitBib
  <2> QED
    BY <1>1, <1>2, <1>6, <2>1, BibStep, FinishFrame
<1>7. ASSUME NEW d \in Device, NEW r \in Request, Undo(d, r)
      PROVE  FinishInv' /\ ChuteInv' /\ StartIsFirst'
  <2>1. StartIsFirst' /\ start' = start
    BY <1>2, <1>7, Undone DEF Undo
  <2>2. CASE request[r].op = "time"
    BY <1>1, <1>2, <1>7, <2>1, <2>2, UndoTimeStep, ChuteFrame
  <2>3. CASE request[r].op = "bib"
    BY <1>1, <1>2, <1>7, <2>1, <2>3, UndoBibStep, FinishFrame
  <2> QED
    BY <1>7, <2>2, <2>3 DEF Undo
<1>8. FinishInv' /\ ChuteInv' /\ StartIsFirst'
  <2>1. CASE Roles
    BY <1>4, <2>1 DEF Roles, Acquire, Drop
  <2>2. CASE PhoneTimes
    BY <1>5, <2>2 DEF PhoneTimes
  <2>3. CASE PhonePlacements
    BY <1>1, <1>6, <1>7, <2>3, StartStep DEF PhonePlacements
  <2>4. CASE UNCHANGED vars
    BY <1>4, <2>4 DEF vars
  <2> QED
    BY <1>1, <2>1, <2>2, <2>3, <2>4 DEF PhoneNext
<1> QED
  BY <1>3, <1>8 DEF PhoneInv, FinishInv, ChuteInv, PlacesContiguous, RequestOwnsRow,
                    TimesFollowStart

(* The phones keep the whole invariant, whatever they send and in whatever *)
(* order it arrives.                                                       *)
THEOREM PhoneSafety == PhoneSpec => []PhoneInv
BY InitPhone, StepPhone, PTL DEF PhoneSpec

(* Captures and undos of several phones leave no gap and share no place.   *)
THEOREM NoPlaceGap == PhoneSpec => []PlacesContiguous
<1>1. PhoneInv => PlacesContiguous
  BY DEF PhoneInv
<1> QED
  BY <1>1, PhoneSafety, PTL

(* An acknowledged entry and its row stand and fall together.              *)
THEOREM AcknowledgedIsRecorded == PhoneSpec => []RequestOwnsRow
<1>1. PhoneInv => RequestOwnsRow
  BY DEF PhoneInv
<1> QED
  BY <1>1, PhoneSafety, PTL

(* No bib finishes twice, and no placeholder names two runners.            *)
THEOREM NoSecondFinish == PhoneSpec => [](BibOnce /\ PlaceholderOnce)
<1>1. PhoneInv => BibOnce /\ PlaceholderOnce
  BY DEF PhoneInv
<1> QED
  BY <1>1, PhoneSafety, PTL

(* Every time is the one from the official start to the capture.           *)
THEOREM TimesAreOfTheStart == PhoneSpec => []TimesFollowStart
<1>1. PhoneInv => TimesFollowStart
  BY DEF PhoneInv
<1> QED
  BY <1>1, PhoneSafety, PTL

(* Only Undo undoes a request.                                             *)
LEMMA OnlyUndo ==
  ASSUME TypeOK, [Next]_vars, NEW r \in Request,
         IsRequest(r), ~request[r].undone, request'[r].undone
  PROVE  \E d \in Device : Undo(d, r)
<1>1. request'[r] # request[r]
  OBVIOUS
<1>2. ASSUME NEW d \in Device, NEW q \in Request, NEW op, NEW p, NEW at, NEW v,
             Accept(d, q, op, p, at, v)
      PROVE  FALSE
  BY <1>1, <1>2 DEF Accept, IsRequest, TypeOK
<1>3. ASSUME NEW d \in Device, NEW q \in Request, Undo(d, q)
      PROVE  q = r
  BY <1>1, <1>3 DEF Undo, TypeOK
<1>4. ~Roles /\ ~DeskNext /\ ~UNCHANGED vars
  BY <1>1 DEF Roles, Acquire, Drop, vars, DeskNext, DeskClock, DeskTimes, DeskPlacements,
              DeskSetStart, ResetRace, Backfill, AddTimingPulse, UpdateTimingPulse,
              DeleteTimingPulse, DeleteAllTimingPulses, CheckAssignment, WriteAssignment,
              DeletePlacement, DeleteAllPlacements, ShiftPlacements, InsertPlacementGap
<1>5. ~PhoneTimes
  BY <1>2 DEF PhoneTimes, SubmitTime
<1>6. PhonePlacements
  BY <1>4, <1>5 DEF Next, PhoneNext
<1>7. \A d \in Device, q \in Request, at \in Time : ~SubmitStart(d, q, at)
  BY <1>2 DEF SubmitStart
<1>8. \A d \in Device, q \in Request, at \in Time, input \in Bib \cup {Unread, Excluded} :
         ~SubmitBib(d, q, at, input)
  BY <1>2 DEF SubmitBib
<1> QED
  BY <1>3, <1>6, <1>7, <1>8 DEF PhonePlacements

(* It is the row of the undone request that goes, and no other.            *)
THEOREM UndoIsOwn == PhoneSpec => UndoRemovesOwnRow
<1> DEFINE Own(r) ==
      IsRequest(r) /\ ~request[r].undone /\ request'[r].undone =>
        /\ \A i \in RowId : pulse'[i] # pulse[i] => i = r /\ request[r].op = "time"
        /\ \A s \in Scope, p \in Place : chute'[s][p] # chute[s][p] => chute[s][p].by = r
<1>1. ASSUME PhoneInv, [PhoneNext]_vars, NEW r \in Request,
             IsRequest(r), ~request[r].undone, request'[r].undone
      PROVE  \E d \in Device : Undo(d, r)
  <2>1. TypeOK /\ [Next]_vars
    BY <1>1 DEF PhoneInv, Next
  <2> QED
    BY <1>1, <2>1, OnlyUndo
<1>2. ASSUME PhoneInv, NEW r \in Request, NEW d \in Device, Undo(d, r)
      PROVE  Own(r)
  <2>1. CASE request[r].op = "time"
    BY <1>2, <2>1, UndoTimeStep
  <2>2. CASE request[r].op = "bib"
    BY <1>2, <2>2, UndoBibStep
  <2> QED
    BY <1>2, <2>1, <2>2 DEF Undo
<1>3. PhoneInv /\ [PhoneNext]_vars => [\A r \in Request : Own(r)]_vars
  <2> HIDE DEF Own
  <2>1. ASSUME PhoneInv, [PhoneNext]_vars, NEW r \in Request PROVE Own(r)
    BY <1>1, <1>2, <2>1 DEF Own
  <2> QED
    BY <2>1
<1> QED
  BY <1>3, PhoneSafety, PTL DEF PhoneSpec, UndoRemovesOwnRow

-----------------------------------------------------------------------------
(* With the laptop's edits: what a phone's call still may not do *)

(* An undo takes the tail of its stream, whatever the laptop did to it.    *)
THEOREM TailOnly == Spec => UndoTakesTheTail
<1> DEFINE Takes(r) ==
      IsRequest(r) /\ ~request[r].undone /\ request'[r].undone =>
        LET s == ScopeOf(request[r].device)
            p == request[r].place
        IN  /\ \A i \in RowId : pulse'[i] # pulse[i] =>
                 /\ request[r].op = "time"
                 /\ pulse[i].scope = s /\ pulse[i].place = p
                 /\ \A q \in PulsePlaces(s) : q <= p
            /\ \A t \in Scope, q \in Place : chute'[t][q] # chute[t][q] =>
                 /\ request[r].op = "bib"
                 /\ t = s /\ q = p
                 /\ \A o \in ChutePlaces(s) : o <= p
<1>1. ASSUME TypeOK, NEW r \in Request, NEW d \in Device, Undo(d, r)
      PROVE  Takes(r)
  <2> DEFINE s == ScopeOf(d)
             p == request[r].place
  <2>1. s \in Scope /\ p \in Place /\ request[r].device = d
    BY <1>1, Shapes DEF Undo, RequestRow
  <2>2. CASE request[r].op = "time"
    <3>1. \A q \in PulsePlaces(s) : q <= p
      BY <1>1, <2>1, <2>2, PlacesBounded, HighestIsMax DEF Undo, IsLast, WithoutPulses
    <3>2. chute' = chute /\ \A i \in RowId : pulse'[i] # pulse[i] =>
            pulse[i].scope = s /\ pulse[i].place = p
      BY <1>1, <2>2 DEF Undo, IsLast, WithoutPulses
    <3> QED
      BY <2>1, <2>2, <3>1, <3>2
  <2>3. CASE request[r].op = "bib"
    <3>1. \A q \in ChutePlaces(s) : q <= p
      BY <1>1, <2>1, <2>3, PlacesBounded, HighestIsMax DEF Undo, IsLast, WithoutPulses
    <3>2. pulse' = pulse /\ chute' = [chute EXCEPT ![s][p] = None]
      BY <1>1, <2>3 DEF Undo, IsLast, WithoutPulses
    <3>3. \A t \in Scope, q \in Place : chute'[t][q] # chute[t][q] => t = s /\ q = p
      BY <1>1, <2>1, <3>2 DEF TypeOK
    <3> QED
      BY <2>1, <2>3, <3>1, <3>2, <3>3
  <2> QED
    BY <1>1, <2>2, <2>3 DEF Undo
<1>2. TypeOK /\ [Next]_vars => [\A r \in Request : Takes(r)]_vars
  <2>1. ASSUME TypeOK, [Next]_vars, NEW r \in Request,
               IsRequest(r), ~request[r].undone, request'[r].undone
        PROVE  Takes(r)
    <3>1. \E d \in Device : Undo(d, r)
      BY <2>1, OnlyUndo
    <3> HIDE DEF Takes
    <3> QED
      BY <1>1, <2>1, <3>1
  <2> QED
    BY <2>1
<1> QED
  BY <1>2, RecordTypeOK, PTL DEF Spec, UndoTakesTheTail

(* Only a phone's entry adds a request.                                    *)
LEMMA OnlySubmit ==
  ASSUME TypeOK, [Next]_vars, NEW r \in Request, ~IsRequest(r), request'[r] # None
  PROVE  \E d \in Device, at \in Time :
           \/ SubmitStart(d, r, at)
           \/ SubmitTime(d, r, at)
           \/ \E input \in Bib \cup {Unread, Excluded} : SubmitBib(d, r, at, input)
<1>1. request[r] = None /\ request'[r] # request[r]
  BY DEF IsRequest
<1>2. ASSUME NEW d \in Device, NEW q \in Request, NEW op, NEW p, NEW at, NEW v,
             Accept(d, q, op, p, at, v)
      PROVE  q = r
  BY <1>1, <1>2 DEF Accept, TypeOK
<1>3. \A d \in Device, q \in Request : ~Undo(d, q)
  BY <1>1 DEF Undo, IsRequest, TypeOK
<1>4. ~Roles /\ ~DeskNext /\ ~UNCHANGED vars
  BY <1>1 DEF Roles, Acquire, Drop, vars, DeskNext, DeskClock, DeskTimes, DeskPlacements,
              DeskSetStart, ResetRace, Backfill, AddTimingPulse, UpdateTimingPulse,
              DeleteTimingPulse, DeleteAllTimingPulses, CheckAssignment, WriteAssignment,
              DeletePlacement, DeleteAllPlacements, ShiftPlacements, InsertPlacementGap
<1>5. CASE PhoneTimes
  BY <1>2, <1>5 DEF PhoneTimes, SubmitTime
<1>6. CASE PhonePlacements
  <2>1. ASSUME NEW d \in Device, NEW q \in Request, NEW at \in Time, SubmitStart(d, q, at)
        PROVE  q = r
    BY <1>2, <2>1 DEF SubmitStart
  <2>2. ASSUME NEW d \in Device, NEW q \in Request, NEW at \in Time,
               NEW input \in Bib \cup {Unread, Excluded}, SubmitBib(d, q, at, input)
        PROVE  q = r
    BY <1>2, <2>2 DEF SubmitBib
  <2> QED
    BY <1>3, <1>6, <2>1, <2>2 DEF PhonePlacements
<1> QED
  BY <1>4, <1>5, <1>6 DEF Next, PhoneNext

(* What applying a start does to any rows, the laptop's too.               *)
LEMMA Derived ==
  ASSUME TypeOK, NEW at \in Time, Derive(at)
  PROVE  /\ \A i \in RowId : IsPulse(i) =>
              pulse'[i] = [pulse[i] EXCEPT !.time = pulse'[i].time]
         /\ \A i \in Captures : pulse'[i].time = pulse[i].at - at /\ pulse'[i].time >= 0
         /\ \A t \in Scope, q \in Place : Kept(chute[t][q], chute'[t][q])
         /\ \A x \in Blank : chute'[x[1]][x[2]].time # Pending
<1>1. ASSUME NEW i \in RowId, IsPulse(i)
      PROVE  /\ pulse'[i] = [pulse[i] EXCEPT !.time = pulse'[i].time]
             /\ i \in Captures => /\ pulse'[i].time = pulse[i].at - at
                                  /\ pulse'[i].time >= 0
  <2>1. pulse[i] \in PulseRow
    BY <1>1 DEF TypeOK, IsPulse
  <2>2. CASE i \in Captures
    <3>1. pulse'[i] = [pulse[i] EXCEPT !.time = pulse[i].at - at]
      BY <2>2, <1>1 DEF Derive, Timed
    <3>2. pulse[i].at \in Time /\ pulse[i].at >= at
      BY <2>1, <2>2 DEF Derive, Captures, PulseRow
    <3>3. pulse'[i].time = pulse[i].at - at
      BY <2>1, <3>1 DEF PulseRow
    <3>4. pulse[i].at - at >= 0
      BY ONLY <3>2, at \in Time, BoundAssumption DEF Time
    <3> QED
      BY <3>1, <3>3, <3>4
  <2>3. CASE i \notin Captures
    BY <1>1, <2>1, <2>3 DEF Derive, Timed, PulseRow
  <2> QED
    BY <2>2, <2>3
<1>2. PICK from \in [Blank -> Request] :
         /\ \A x \in Blank : from[x] \in Sources(x[1], x[2])
         /\ chute' = Filled(Blank, from, at)
  BY DEF Derive
<1>3. ASSUME NEW t \in Scope, NEW q \in Place
      PROVE  /\ Kept(chute[t][q], chute'[t][q])
             /\ <<t, q>> \in Blank => chute'[t][q].time # Pending
  <2>1. CASE <<t, q>> \in Blank
    <3> DEFINE o == from[<<t, q>>]
    <3>1. chute[t][q] \in ChuteRow /\ chute[t][q].time = Pending
      BY <2>1 DEF TypeOK, Blank, Occupied, IsRow
    <3>2. o \in Request /\ request[o] \in RequestRow /\ request[o].at >= at
      BY <1>2, <2>1 DEF Derive, TypeOK, Sources, Live, IsRequest
    <3>3. request[o].at - at \in Time
      <4>1. request[o].at \in Time
        BY <3>2 DEF RequestRow
      <4> QED
        BY ONLY <3>2, <4>1, at \in Time, BoundAssumption DEF Time
    <3> HIDE DEF o
    <3>4. chute'[t][q] = [chute[t][q] EXCEPT !.time = request[o].at - at]
      BY <1>2, <2>1 DEF Filled, o
    <3>5. chute'[t][q] \in ChuteRow
      BY <3>1, <3>3, <3>4 DEF ChuteRow
    <3>6. chute'[t][q].time = request[o].at - at
      BY <3>1, <3>4 DEF ChuteRow
    <3> QED
      BY <3>1, <3>3, <3>4, <3>5, <3>6, NoneAssumption DEF Kept, ChuteRow
  <2>2. CASE <<t, q>> \notin Blank
    BY <1>2, <2>2 DEF Filled, Kept
  <2> QED
    BY <2>1, <2>2
<1>4. \A x \in Blank : x[1] \in Scope /\ x[2] \in Place /\ x = <<x[1], x[2]>>
  BY DEF Blank, Occupied
<1>5. \A i \in Captures : i \in RowId /\ IsPulse(i)
  BY DEF Captures
<1> QED
  BY <1>1, <1>3, <1>4, <1>5

(* A row named by a request is that request's: the laptop names its own.   *)
PhoneRows == \A r \in Request : IsPulse(r) => IsRequest(r)

LEMMA PhoneRowsHold == Spec => []PhoneRows
<1>1. Init => PhoneRows
  BY DEF Init, PhoneRows, IsPulse, RowId
<1>2. ASSUME TypeOK, PhoneRows,
             \A i \in Request : pulse'[i] # None => IsPulse(i) \/ request'[i] # None,
             \A i \in Request : IsRequest(i) => request'[i] # None
      PROVE  PhoneRows'
  BY <1>2 DEF PhoneRows, IsPulse, IsRequest
<1>3. ASSUME TypeOK, PhoneRows, UNCHANGED request,
             \A i \in Request : pulse'[i] # None => IsPulse(i)
      PROVE  PhoneRows'
  BY <1>2, <1>3 DEF IsRequest
<1>4. ASSUME TypeOK, PhoneRows, DeskTimes PROVE PhoneRows'
  <2>1. UNCHANGED request
    BY <1>4 DEF DeskTimes, AddTimingPulse, UpdateTimingPulse, DeleteTimingPulse,
                DeleteAllTimingPulses
  <2>2. \A i \in Request : i \in RowId /\ i \notin DeskRow
    BY NoneAssumption DEF RowId
  <2>3. ASSUME NEW i \in Request, pulse'[i] # None PROVE IsPulse(i)
    <3>1. CASE \E j \in DeskRow, s \in Scope, p \in Place, t \in DeskTime :
                 AddTimingPulse(j, s, p, t)
      BY <1>4, <2>2, <2>3, <3>1 DEF AddTimingPulse, TypeOK, IsPulse
    <3>2. CASE \E j \in RowId, s \in Scope, p \in Place, t \in DeskTime :
                 UpdateTimingPulse(j, s, p, t)
      BY <1>4, <2>2, <2>3, <3>2 DEF UpdateTimingPulse, TypeOK, IsPulse
    <3>3. CASE \E j \in RowId : DeleteTimingPulse(j)
      BY <1>4, <2>2, <2>3, <3>3 DEF DeleteTimingPulse, TypeOK, IsPulse
    <3>4. CASE \E scopes \in Cleared : DeleteAllTimingPulses(scopes)
      BY <2>2, <2>3, <3>4 DEF DeleteAllTimingPulses, IsPulse
    <3> QED
      BY <1>4, <3>1, <3>2, <3>3, <3>4 DEF DeskTimes
  <2> QED
    BY <1>3, <1>4, <2>1, <2>3
<1>5. ASSUME TypeOK, PhoneRows, Roles \/ DeskClock \/ DeskPlacements \/ UNCHANGED vars
      PROVE  PhoneRows'
  <2>1. UNCHANGED <<pulse, request>>
    BY <1>5 DEF Roles, Acquire, Drop, DeskClock, DeskSetStart, ResetRace, Backfill, vars,
                DeskPlacements, CheckAssignment, WriteAssignment, DeletePlacement,
                DeleteAllPlacements, ShiftPlacements, InsertPlacementGap
  <2> QED
    BY <1>3, <1>5, <2>1 DEF IsPulse
<1>6. ASSUME TypeOK, PhoneRows, NEW d \in Device, NEW r \in Request, NEW at \in Time,
             SubmitStart(d, r, at)
      PROVE  PhoneRows'
  <2>1. \A i \in Request : IsRequest(i) \/ i = r => request'[i] # None
    <3>1. Accept(d, r, "start", 0, at, None)
      BY <1>6 DEF SubmitStart
    <3>2. 0 \in Place /\ "start" \in Op
      BY BoundAssumption DEF Op, Place
    <3>3. request'[r] # None /\ \A i \in Request \ {r} : request'[i] = request[i]
      BY <1>6, <3>1, <3>2, Accepted
    <3> QED
      BY <3>3 DEF IsRequest
  <2>2. \A i \in Request : pulse'[i] # None => IsPulse(i)
    BY <1>6 DEF SubmitStart, Derive, Timed, Captures, IsPulse, RowId
  <2> QED
    BY <1>2, <1>6, <2>1, <2>2
<1>7. ASSUME TypeOK, PhoneRows, NEW d \in Device, NEW r \in Request, NEW at \in Time,
             SubmitTime(d, r, at)
      PROVE  PhoneRows'
  <2>1. \A i \in Request : IsRequest(i) \/ i = r => request'[i] # None
    BY <1>7, Accepted DEF SubmitTime, IsRequest, Op
  <2>2. \A i \in Request : pulse'[i] # None => IsPulse(i) \/ i = r
    BY <1>7 DEF SubmitTime, TypeOK, IsPulse, RowId
  <2> QED
    BY <1>2, <1>7, <2>1, <2>2
<1>8. ASSUME TypeOK, PhoneRows, NEW d \in Device, NEW r \in Request, NEW at \in Time,
             NEW input \in Bib \cup {Unread, Excluded}, SubmitBib(d, r, at, input)
      PROVE  PhoneRows'
  <2>1. \A i \in Request : IsRequest(i) \/ i = r => request'[i] # None
    BY <1>8, Accepted DEF SubmitBib, IsRequest, Op
  <2>2. UNCHANGED pulse
    BY <1>8 DEF SubmitBib
  <2> QED
    BY <1>2, <1>8, <2>1, <2>2 DEF IsPulse
<1>9. ASSUME TypeOK, PhoneRows, NEW d \in Device, NEW r \in Request, Undo(d, r)
      PROVE  PhoneRows'
  <2>1. \A i \in Request : pulse'[i] # None => IsPulse(i)
    BY <1>9 DEF Undo, IsLast, WithoutPulses, IsPulse, RowId
  <2>2. request'[r] # None
    <3>1. request[r] \in RequestRow /\ request'[r] = [request[r] EXCEPT !.undone = TRUE]
      BY <1>9, Shapes DEF Undo, TypeOK
    <3>2. request'[r] \in RequestRow
      BY <3>1 DEF RequestRow
    <3> QED
      BY <3>2, NoneAssumption
  <2>3. \A i \in Request : IsRequest(i) => request'[i] # None
    BY <1>9, <2>2 DEF Undo, TypeOK, IsRequest
  <2> QED
    BY <1>2, <1>9, <2>1, <2>3
<1>10. TypeOK /\ PhoneRows /\ [Next]_vars => PhoneRows'
  BY <1>4, <1>5, <1>6, <1>7, <1>8, <1>9
     DEF Next, PhoneNext, PhoneTimes, PhonePlacements, DeskNext
<1> QED
  BY <1>1, <1>10, RecordTypeOK, PTL DEF Spec

(* A phone's entry is appended, whatever the laptop did to the stream.     *)
THEOREM EntriesAppend == Spec => PhoneAppends
<1> DEFINE Last(r) ==
             /\ request'[r].op = "time" =>
                  \A q \in PulsePlaces(ScopeOf(request'[r].device)) : q < request'[r].place
             /\ request'[r].op = "bib" =>
                  \A q \in ChutePlaces(ScopeOf(request'[r].device)) : q < request'[r].place
           Keeps ==
             /\ \A t \in Scope, q \in Place : Kept(chute[t][q], chute'[t][q])
             /\ \A i \in RowId : IsPulse(i) =>
                  pulse'[i] = [pulse[i] EXCEPT !.time = pulse'[i].time]
           Appends(r) == ~IsRequest(r) /\ request'[r] # None => Last(r) /\ Keeps
<1>1. ASSUME TypeOK, NEW d \in Device, NEW r \in Request, NEW at \in Time,
             SubmitStart(d, r, at)
      PROVE  Appends(r)
  <2>1. request'[r].op = "start"
    <3>1. Accept(d, r, "start", 0, at, None)
      BY <1>1 DEF SubmitStart
    <3>2. 0 \in Place /\ "start" \in Op
      BY BoundAssumption DEF Op, Place
    <3>3. request'[r] = [device |-> d, op |-> "start", place |-> 0, at |-> at,
                       value |-> None, undone |-> FALSE]
      BY <1>1, <3>1, <3>2, Accepted
    <3> QED
      BY <3>3
  <2>2. Last(r)
    BY <2>1
  <2>3. CASE Derive(at)
    <3>1. Keeps
      BY <1>1, <2>3, Derived
    <3> QED
      BY <2>2, <3>1
  <2>4. CASE UNCHANGED <<pulse, chute>>
    <3>1. \A i \in RowId : IsPulse(i) => pulse[i] = [pulse[i] EXCEPT !.time = pulse[i].time]
      BY <1>1, Shapes DEF PulseRow
    <3>2. Keeps
      BY <2>4, <3>1 DEF Kept
    <3> QED
      BY <2>2, <3>2
  <2> QED
    BY <1>1, <2>3, <2>4 DEF SubmitStart
<1>2. ASSUME TypeOK, NEW d \in Device, NEW r \in Request, NEW at \in Time,
             ~IsPulse(r), SubmitTime(d, r, at)
      PROVE  Appends(r)
  <2> DEFINE s == ScopeOf(d)
             p == Highest(PulsePlaces(s)) + 1
  <2>1. p \in Place /\ Accept(d, r, "time", p, at, None) /\ chute' = chute
    BY <1>2 DEF SubmitTime
  <2>2. request'[r].op = "time" /\ request'[r].device = d /\ request'[r].place = p
    <3> HIDE DEF p
    <3>1. request'[r] = [device |-> d, op |-> "time", place |-> p, at |-> at,
                       value |-> None, undone |-> FALSE]
      BY <1>2, <2>1, Accepted DEF Op
    <3> QED
      BY <3>1
  <2>3. \A q \in PulsePlaces(s) : q < p
    <3>1. s \in Scope
      BY <1>2, Shapes
    <3>2. /\ PulsePlaces(s) \in SUBSET (0 .. MaxPlace)
          /\ MaxPlace \in Nat
      BY <1>2, <3>1, PlacesBounded
    <3>3. /\ Highest(PulsePlaces(s)) \in Nat
          /\ \A q \in PulsePlaces(s) : q <= Highest(PulsePlaces(s))
      BY <3>2, HighestIsMax
    <3> QED
      BY <3>2, <3>3
  <2>4. \A i \in RowId \ {r} : pulse'[i] = pulse[i]
    BY <1>2 DEF SubmitTime, TypeOK
  <2>5. \A i \in RowId : IsPulse(i) => pulse[i] = [pulse[i] EXCEPT !.time = pulse[i].time]
    BY <1>2, Shapes DEF PulseRow
  <2> HIDE DEF p
  <2>6. Last(r)
    BY <2>2, <2>3
  <2>7. Keeps
    BY <1>2, <2>1, <2>4, <2>5 DEF Kept
  <2> QED
    BY <2>6, <2>7
<1>3. ASSUME TypeOK, NEW d \in Device, NEW r \in Request, NEW at \in Time,
             NEW input \in Bib \cup {Unread, Excluded}, SubmitBib(d, r, at, input)
      PROVE  Appends(r)
  <2> DEFINE s == ScopeOf(d)
             p == Highest(ChutePlaces(s)) + 1
  <2>1. /\ p \in Place /\ Recorded(r, input) \in Value
        /\ Accept(d, r, "bib", p, at, Recorded(r, input)) /\ pulse' = pulse
    BY <1>3 DEF SubmitBib
  <2>2. request'[r].op = "bib" /\ request'[r].device = d /\ request'[r].place = p
    <3> HIDE DEF p
    <3>1. request'[r] = [device |-> d, op |-> "bib", place |-> p, at |-> at,
                       value |-> Recorded(r, input), undone |-> FALSE]
      BY <1>3, <2>1, Accepted DEF Op
    <3> QED
      BY <3>1
  <2>3. s \in Scope /\ \A q \in ChutePlaces(s) : q < p
    <3>1. s \in Scope
      BY <1>3, Shapes
    <3>2. /\ ChutePlaces(s) \in SUBSET (0 .. MaxPlace)
          /\ MaxPlace \in Nat
      BY <1>3, <3>1, PlacesBounded
    <3>3. /\ Highest(ChutePlaces(s)) \in Nat
          /\ \A q \in ChutePlaces(s) : q <= Highest(ChutePlaces(s))
      BY <3>2, HighestIsMax
    <3> QED
      BY <3>1, <3>2, <3>3
  <2>4. ~IsRow(s, p)
    BY <2>1, <2>3 DEF ChutePlaces, Place
  <2>5. \A t \in Scope, q \in Place : <<t, q>> # <<s, p>> => chute'[t][q] = chute[t][q]
    BY <1>3, <2>3 DEF SubmitBib, TypeOK
  <2>6. \A i \in RowId : IsPulse(i) => pulse[i] = [pulse[i] EXCEPT !.time = pulse[i].time]
    BY <1>3, Shapes DEF PulseRow
  <2> HIDE DEF p, s
  <2>7. Last(r)
    BY <2>2, <2>3 DEF s
  <2>8. \A t \in Scope, q \in Place : Kept(chute[t][q], chute'[t][q])
    BY <2>4, <2>5 DEF Kept, IsRow
  <2>9. Keeps
    BY <2>1, <2>6, <2>8
  <2> QED
    BY <2>7, <2>9
<1>4. ASSUME TypeOK, PhoneRows, [Next]_vars, NEW r \in Request
      PROVE  Appends(r)
  <2>1. SUFFICES ASSUME ~IsRequest(r), request'[r] # None PROVE Appends(r)
    OBVIOUS
  <2>2. ~IsPulse(r)
    BY <1>4, <2>1 DEF PhoneRows
  <2> HIDE DEF Appends
  <2> QED
    BY <1>1, <1>2, <1>3, <1>4, <2>1, <2>2, OnlySubmit
<1>5. ASSUME TypeOK, PhoneRows, [Next]_vars
      PROVE  [\A r \in Request : ~IsRequest(r) /\ request'[r] # None =>
               LET s == ScopeOf(request'[r].device)
                   p == request'[r].place
               IN  /\ request'[r].op = "time" => \A q \in PulsePlaces(s) : q < p
                   /\ request'[r].op = "bib" => \A q \in ChutePlaces(s) : q < p
                   /\ \A t \in Scope, q \in Place : Kept(chute[t][q], chute'[t][q])
                   /\ \A i \in RowId : IsPulse(i) =>
                        pulse'[i] = [pulse[i] EXCEPT !.time = pulse'[i].time]]_vars
  BY <1>4, <1>5
<1> QED
  BY <1>5, PhoneRowsHold, RecordTypeOK, PTL DEF Spec, PhoneAppends

(* A phone's start leaves no capture without its time, in any event, the   *)
(* laptop's edits notwithstanding.                                         *)
THEOREM StartSettles == Spec => StartSettlesCaptures
<1>1. ASSUME TypeOK, NEW at \in Time, start' = at, Derive(at)
      PROVE  /\ \A i \in Captures : pulse'[i].time = pulse[i].at - start'
                                     /\ pulse'[i].time >= 0
             /\ \A x \in Blank : chute'[x[1]][x[2]].time # Pending
  BY <1>1, Derived
<1>2. ASSUME TypeOK, [Next]_vars, start = None, start' # None, request' # request
      PROVE  \E at \in Time : start' = at /\ Derive(at)
  <2>1. ~DeskNext /\ ~UNCHANGED vars
    BY <1>2 DEF vars, DeskNext, DeskClock, DeskTimes, DeskPlacements,
                DeskSetStart, ResetRace, Backfill, AddTimingPulse, UpdateTimingPulse,
                DeleteTimingPulse, DeleteAllTimingPulses, CheckAssignment, WriteAssignment,
                DeletePlacement, DeleteAllPlacements, ShiftPlacements, InsertPlacementGap
  <2>2. ~Roles /\ ~PhoneTimes
    BY <1>2 DEF Roles, Acquire, Drop, PhoneTimes, SubmitTime
  <2>3. PhonePlacements
    BY <1>2, <2>1, <2>2 DEF Next, PhoneNext
  <2>4. /\ \A d \in Device, r \in Request : ~Undo(d, r)
        /\ \A d \in Device, r \in Request, at \in Time, input \in Bib \cup {Unread, Excluded} :
             ~SubmitBib(d, r, at, input)
    BY <1>2 DEF Undo, SubmitBib
  <2>5. PICK d \in Device, r \in Request, at \in Time : SubmitStart(d, r, at)
    BY <2>3, <2>4 DEF PhonePlacements
  <2>6. start # at
    BY <1>2, NoneAssumption
  <2> QED
    BY <2>5, <2>6 DEF SubmitStart
<1>3. TypeOK /\ [Next]_vars =>
        [start = None /\ start' # None /\ request' # request =>
           /\ \A i \in Captures : pulse'[i].time = pulse[i].at - start'
                                   /\ pulse'[i].time >= 0
           /\ \A x \in Blank : chute'[x[1]][x[2]].time # Pending]_vars
  BY <1>1, <1>2
<1> QED
  BY <1>3, RecordTypeOK, PTL DEF Spec, StartSettlesCaptures
-----------------------------------------------------------------------------
(* The roles the record relies on *)

(* A role is held in the session its holder is paired with.                *)
HeldAtHome ==
  \A s \in Session, q \in Role, d \in Device : lease[s][q] = d => DeviceSession[d] = s

(* A triple is in the book if the lease says so, and there is no other.    *)
LEMMA HeldIs ==
  /\ \A x \in HeldRoles : x \in Session \X Role \X Device
  /\ \A x \in HeldRoles' : x \in Session \X Role \X Device
  /\ \A s \in Session, q \in Role, d \in Device :
       /\ <<s, q, d>> \in HeldRoles <=> lease[s][q] = d
       /\ <<s, q, d>> \in HeldRoles' <=> lease'[s][q] = d
BY DEF HeldRoles

(* A role that is free is taken by one of its session's phones.            *)
LEMMA AcquireIsBooked ==
  ASSUME TypeOK, HeldAtHome, NEW d \in Device, NEW q \in Role, Acquire(d, q)
  PROVE  Book!BookNext /\ HeldAtHome'
<1> DEFINE s == DeviceSession[d]
           x == <<s, q, d>>
<1>1. s \in Session /\ DOMAIN DeviceSession = Device /\ None \notin Device
  BY ScopeAssumption, NoneAssumption
<1>2. lease[s][q] = None /\ \A o \in Role : lease[s][o] # d
  BY DEF Acquire
<1>3. \A t \in Session, o \in Role :
        lease'[t][o] = IF t = s /\ o = q THEN d ELSE lease[t][o]
  BY <1>1 DEF Acquire, TypeOK
<1>4. HeldAtHome'
  BY <1>3 DEF HeldAtHome
<1>5. \A t \in Session, o \in Role, e \in Device :
        lease'[t][o] = e <=> lease[t][o] = e \/ <<t, o, e>> = x
  BY <1>1, <1>2, <1>3
<1>6. HeldRoles' = HeldRoles \cup {x}
  BY ONLY <1>1, <1>5, HeldIs, q \in Role, d \in Device
<1>7. x \notin HeldRoles
  BY <1>1, <1>2, HeldIs
<1>8. ASSUME NEW y \in HeldRoles
      PROVE  y[3] # d /\ ~(y[1] = s /\ y[2] = q)
  <2>1. PICK t \in Session, o \in Role, e \in Device : y = <<t, o, e>> /\ lease[t][o] = e
    BY HeldIs
  <2>2. DeviceSession[e] = t
    BY <2>1 DEF HeldAtHome
  <2> QED
    BY <1>1, <1>2, <2>1, <2>2
<1>9. Book!Acquire(x)
  BY <1>1, <1>6, <1>8 DEF Book!Acquire
<1> QED
  BY <1>4, <1>6, <1>7, <1>9 DEF Book!BookNext

(* A role that is given up leaves the book.                                *)
LEMMA DropIsBooked ==
  ASSUME TypeOK, HeldAtHome, NEW s \in Session, NEW q \in Role, lease[s][q] # None,
         lease' = [lease EXCEPT ![s][q] = None]
  PROVE  Book!BookNext /\ HeldAtHome'
<1> DEFINE d == lease[s][q]
           x == <<s, q, d>>
<1>1. d \in Device /\ None \notin Device
  BY NoneAssumption DEF TypeOK
<1>2. \A t \in Session, o \in Role :
        lease'[t][o] = IF t = s /\ o = q THEN None ELSE lease[t][o]
  BY DEF TypeOK
<1>3. HeldAtHome'
  BY <1>1, <1>2 DEF HeldAtHome
<1>4. ASSUME NEW t \in Session, NEW o \in Role, NEW e \in Device
      PROVE  lease'[t][o] = e <=> lease[t][o] = e /\ <<t, o, e>> # x
  BY <1>1, <1>2
<1>5. x \in HeldRoles
  BY <1>1, HeldIs
<1>6. HeldRoles' = HeldRoles \ {x}
  BY ONLY <1>1, <1>4, HeldIs
<1>7. Book!Drop(x)
  BY <1>6 DEF Book!Drop
<1> QED
  BY <1>3, <1>5, <1>6, <1>7 DEF Book!BookNext

(* Every step of the record, the laptop's edits included, is a step of     *)
(* RoleBook on the roles, or none.                                         *)
THEOREM RolesAreReliedOn == Spec => RolesChangeHands
<1>1. Init => HeldAtHome /\ Book!BookInit
  <2> SUFFICES ASSUME Init PROVE HeldAtHome /\ Book!BookInit
    OBVIOUS
  <2>1. \A s \in Session, q \in Role : lease[s][q] = None
    BY DEF Init
  <2>2. None \notin Device
    BY NoneAssumption
  <2>3. HeldRoles = {}
    BY <2>1, <2>2, HeldIs
  <2> QED
    BY <2>1, <2>2, <2>3, ScopeAssumption DEF HeldAtHome, Book!BookInit
<1>2. ASSUME TypeOK, HeldAtHome, lease' = lease
      PROVE  UNCHANGED <<DeviceSession, HeldRoles>> /\ HeldAtHome'
  BY <1>2 DEF HeldRoles, HeldAtHome
<1>3. ASSUME TypeOK, HeldAtHome, NEW d \in Device, NEW r \in Request, NEW at \in Time,
             SubmitStart(d, r, at)
      PROVE  Book!BookNext /\ HeldAtHome'
  <2>1. DeviceSession[d] \in Session /\ "start" \in Role
    BY ScopeAssumption DEF Role
  <2>2. lease[DeviceSession[d]]["start"] # None
    BY <1>3, NoneAssumption DEF SubmitStart, Accept, MayWrite, RoleFor
  <2>3. lease' = [lease EXCEPT ![DeviceSession[d]]["start"] = None]
    BY <1>3 DEF SubmitStart
  <2> QED
    BY <1>3, <2>1, <2>2, <2>3, DropIsBooked
<1>4. ASSUME TypeOK, HeldAtHome, [Next]_vars
      PROVE  (Book!BookNext \/ UNCHANGED <<DeviceSession, HeldRoles>>) /\ HeldAtHome'
  <2>1. CASE DeskNext \/ UNCHANGED vars
    <3>1. lease' = lease
      BY <2>1 DEF vars, DeskNext, DeskClock, DeskTimes, DeskPlacements,
                DeskSetStart, ResetRace, Backfill, AddTimingPulse, UpdateTimingPulse,
                DeleteTimingPulse, DeleteAllTimingPulses, CheckAssignment, WriteAssignment,
                DeletePlacement, DeleteAllPlacements, ShiftPlacements, InsertPlacementGap
    <3> QED
      BY <1>2, <1>4, <3>1
  <2>2. CASE Roles
    <3>1. ASSUME NEW d \in Device, NEW q \in Role, Acquire(d, q)
          PROVE  Book!BookNext /\ HeldAtHome'
      BY <1>4, <3>1, AcquireIsBooked
    <3>2. ASSUME NEW s \in Session, NEW q \in Role, Drop(s, q)
          PROVE  Book!BookNext /\ HeldAtHome'
      BY <1>4, <3>2, DropIsBooked DEF Drop
    <3> QED
      BY <2>2, <3>1, <3>2 DEF Roles
  <2>3. CASE PhoneTimes
    <3>1. lease' = lease
      BY <2>3 DEF PhoneTimes, SubmitTime, Undo
    <3> QED
      BY <1>2, <1>4, <3>1
  <2>4. CASE PhonePlacements
    <3>1. ASSUME NEW d \in Device, NEW r \in Request, NEW at \in Time, SubmitStart(d, r, at)
          PROVE  Book!BookNext /\ HeldAtHome'
      BY <1>3, <1>4, <3>1
    <3>2. CASE lease' = lease
      BY <1>2, <1>4, <3>2
    <3> QED
      BY <2>4, <3>1, <3>2 DEF PhonePlacements, SubmitBib, Undo
  <2> QED
    BY <1>4, <2>1, <2>2, <2>3, <2>4 DEF Next, PhoneNext
<1>5. TypeOK /\ HeldAtHome /\ [Next]_vars =>
        [Book!BookNext]_<<DeviceSession, HeldRoles>> /\ HeldAtHome'
  BY <1>4
<1> QED
  BY <1>1, <1>5, RecordTypeOK, PTL DEF Spec, RolesChangeHands, Book!BookSpec
=============================================================================
