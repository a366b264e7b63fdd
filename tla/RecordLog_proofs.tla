-------------------------- MODULE RecordLog_proofs --------------------------
(***************************************************************************)
(* The phones keep the log they are promised, for any number of phones,    *)
(* sessions, events, bibs and requests.  A log is determined by the        *)
(* requests that stand (IsLog), so each step is a fact about requests.     *)
(***************************************************************************)
EXTENDS RecordLog, CompanionRecord_proofs, SequenceTheorems

(* f lists the requests of S, each at its place.                           *)
Lists(f, S, place) ==
  /\ \E n \in Nat : f \in [1 .. n -> S]
  /\ \A p \in DOMAIN f : place[f[p]] = p
  /\ \A r \in S : place[r] \in DOMAIN f /\ f[place[r]] = r

(* A list is determined by its requests and their places.                  *)
LEMMA SameList ==
  ASSUME NEW S, NEW q, NEW w, NEW f, NEW g,
         Lists(f, S, q), Lists(g, S, w), \A r \in S : w[r] = q[r]
  PROVE  g = f
<1>1. PICK n \in Nat : f \in [1 .. n -> S]
  BY DEF Lists
<1>2. PICK m \in Nat : g \in [1 .. m -> S]
  BY DEF Lists
<1>3. \A p \in 1 .. n : p \in 1 .. m /\ g[p] = f[p]
  BY <1>1, <1>2 DEF Lists
<1>4. \A p \in 1 .. m : p \in 1 .. n
  BY <1>1, <1>2 DEF Lists
<1>5. 1 .. m = 1 .. n
  BY <1>3, <1>4
<1> QED
  BY <1>1, <1>2, <1>3, <1>5

(* One request more is at the end of its list.                             *)
LEMMA LongerList ==
  ASSUME NEW S, NEW q, NEW w, NEW f, NEW g, NEW new, new \notin S,
         Lists(f, S, q), Lists(g, S \cup {new}, w), \A r \in S : w[r] = q[r]
  PROVE  g = Append(f, new)
<1>1. PICK n \in Nat : f \in [1 .. n -> S]
  BY DEF Lists
<1>2. PICK m \in Nat : g \in [1 .. m -> S \cup {new}]
  BY DEF Lists
<1>3. \A p \in 1 .. n : p \in 1 .. m /\ g[p] = f[p]
  BY <1>1, <1>2 DEF Lists
<1>4. w[new] \in 1 .. m /\ g[w[new]] = new
  BY <1>2 DEF Lists
<1>5. \A p \in 1 .. m : p \in 1 .. n \/ p = w[new]
  BY <1>1, <1>2 DEF Lists
<1>6. m = n + 1 /\ w[new] = n + 1
  <2>1. w[new] \notin 1 .. n
    BY <1>1, <1>3, <1>4
  <2>2. m > n
    BY <1>3, <1>4, <2>1
  <2>3. /\ n + 1 \in 1 .. m /\ n + 1 \notin 1 .. n
        /\ m \in 1 .. m /\ m \notin 1 .. n
    BY <2>2
  <2> QED
    BY <1>5, <2>3
<1>7. f \in Seq(S \cup {new}) /\ Len(f) = n
  BY <1>1
<1>8. /\ Append(f, new) \in Seq(S \cup {new})
      /\ Len(Append(f, new)) = n + 1
      /\ \A p \in 1 .. n : Append(f, new)[p] = f[p]
      /\ Append(f, new)[n + 1] = new
  BY <1>7, AppendProperties
<1>9. \A p \in 1 .. n + 1 : g[p] = Append(f, new)[p]
  BY <1>3, <1>4, <1>6, <1>8
<1> QED
  BY <1>2, <1>6, <1>8, <1>9

(* One request less was at the end of its list.                            *)
LEMMA ShorterList ==
  ASSUME NEW S, NEW q, NEW w, NEW f, NEW g, NEW old, old \in S,
         Lists(f, S, q), Lists(g, S \ {old}, w), \A r \in S \ {old} : w[r] = q[r]
  PROVE  f # <<>> /\ g = SubSeq(f, 1, Len(f) - 1)
<1>1. PICK n \in Nat : f \in [1 .. n -> S]
  BY DEF Lists
<1>2. PICK m \in Nat : g \in [1 .. m -> S \ {old}]
  BY DEF Lists
<1>3. \A p \in 1 .. m : p \in 1 .. n /\ g[p] = f[p]
  BY <1>1, <1>2 DEF Lists
<1>4. q[old] \in 1 .. n /\ f[q[old]] = old
  BY <1>1 DEF Lists
<1>5. \A p \in 1 .. n : p \in 1 .. m \/ p = q[old]
  BY <1>1, <1>2 DEF Lists
<1>6. n = m + 1
  <2>1. q[old] \notin 1 .. m
    BY <1>2, <1>3, <1>4
  <2>2. n > m
    BY <1>3, <1>4, <2>1
  <2>3. /\ m + 1 \in 1 .. n /\ m + 1 \notin 1 .. m
        /\ n \in 1 .. n /\ n \notin 1 .. m
    BY <2>2
  <2> QED
    BY <1>5, <2>3
<1>7. f \in Seq(S) /\ Len(f) = n
  BY <1>1
<1>8. SubSeq(f, 1, Len(f) - 1) = [p \in 1 .. m |-> f[p]]
  BY <1>6, <1>7
<1>9. f # <<>>
  BY <1>6, <1>7
<1> QED
  BY <1>2, <1>3, <1>8, <1>9

-----------------------------------------------------------------------------
(* What the tables hold is a list *)

StandsIn(r, x) == Live(r, x[1]) /\ ScopeOf(request[r].device) = x[2]
Standing == [x \in Streams |-> {r \in Request : StandsIn(r, x)}]
PlaceOf == [r \in Request |-> request[r].place]

IsLog(x) == Lists(Logs[x], Standing[x], PlaceOf)

LEMMA FinishLog ==
  ASSUME PhoneInv, NEW s \in Scope
  PROVE  IsLog(<<"time", s>>)
<1> DEFINE x == <<"time", s>>
           f == LogOf(x)
<1>1. TypeOK /\ FinishesContiguous /\ RequestOwnsPulse
  BY DEF PhoneInv, PlacesContiguous, RequestOwnsRow
<1>2. PICK n \in Place : PulsePlaces(s) = 1 .. n
  BY <1>1 DEF FinishesContiguous, Numbered
<1>3. n \in Nat /\ Highest(PulsePlaces(s)) = n
  BY <1>2, HighestOfNumbered, BoundAssumption DEF Place
<1>4. f = [p \in 1 .. n |-> PulseAt(s, p)]
  BY <1>3 DEF LogOf
<1>5. ASSUME NEW p \in 1 .. n
      PROVE  /\ PulseAt(s, p) \in Request
             /\ StandsIn(PulseAt(s, p), x)
             /\ request[PulseAt(s, p)].place = p
  <2> DEFINE i == PulseAt(s, p)
  <2>1. \E j \in RowId : IsPulse(j) /\ pulse[j].scope = s /\ pulse[j].place = p
    BY <1>2 DEF PulsePlaces
  <2>2. i \in RowId /\ IsPulse(i) /\ pulse[i].scope = s /\ pulse[i].place = p
    BY <2>1 DEF PulseAt
  <2> HIDE DEF i
  <2>3. i \in Request /\ Live(i, "time")
    BY <1>1, <2>2 DEF RequestOwnsPulse
  <2>4. TimeRow(i)
    BY <1>1, <2>3 DEF RequestOwnsPulse
  <2> QED
    BY <2>2, <2>3, <2>4 DEF TimeRow, StandsIn, i
<1>6. ASSUME NEW r \in Request, StandsIn(r, x)
      PROVE  request[r].place \in 1 .. n /\ PulseAt(s, request[r].place) = r
  <2> DEFINE p == request[r].place
  <2>1. Live(r, "time") /\ ScopeOf(request[r].device) = s
    BY <1>6 DEF StandsIn
  <2>2. r \in RowId /\ IsPulse(r) /\ pulse[r].scope = s /\ pulse[r].place = p
    BY <1>1, <2>1 DEF RequestOwnsPulse, TimeRow, RowId
  <2>3. p \in PulsePlaces(s)
    BY <2>2 DEF PulsePlaces
  <2>4. \A j \in RowId : IsPulse(j) /\ pulse[j].scope = s /\ pulse[j].place = p => j = r
    BY <1>1, <2>2 DEF FinishesContiguous
  <2> QED
    BY <1>2, <2>2, <2>3, <2>4 DEF PulseAt
<1> QED
  <2>1. x \in Streams /\ Logs[x] = f
    BY DEF Streams, Logs
  <2> HIDE DEF x, f
  <2>2. Standing[x] = {r \in Request : StandsIn(r, x)}
    BY <2>1 DEF Standing
  <2>3. f \in [1 .. n -> Standing[x]]
    BY <1>4, <1>5, <2>2
  <2>4. \A p \in DOMAIN f : PlaceOf[f[p]] = p
    BY <1>4, <1>5 DEF PlaceOf
  <2>5. \A r \in Standing[x] : PlaceOf[r] \in DOMAIN f /\ f[PlaceOf[r]] = r
    BY <1>4, <1>6, <2>2 DEF PlaceOf
  <2>6. IsLog(x)
    BY <1>3, <2>1, <2>3, <2>4, <2>5 DEF IsLog, Lists
  <2> QED
    BY <2>6 DEF x

LEMMA ChuteLog ==
  ASSUME PhoneInv, NEW s \in Scope
  PROVE  IsLog(<<"bib", s>>)
<1> DEFINE x == <<"bib", s>>
           f == LogOf(x)
<1>1. TypeOK /\ PlacementsContiguous /\ RequestOwnsPlacement
  BY DEF PhoneInv, PlacesContiguous, RequestOwnsRow
<1>2. PICK n \in Place : ChutePlaces(s) = 1 .. n
  BY <1>1 DEF PlacementsContiguous, Numbered
<1>3. n \in Nat /\ Highest(ChutePlaces(s)) = n
  BY <1>2, HighestOfNumbered, BoundAssumption DEF Place
<1>4. f = [p \in 1 .. n |-> chute[s][p].by]
  BY <1>3 DEF LogOf
<1>5. ASSUME NEW p \in 1 .. n
      PROVE  /\ chute[s][p].by \in Request
             /\ StandsIn(chute[s][p].by, x)
             /\ request[chute[s][p].by].place = p
  <2>1. p \in Place /\ IsRow(s, p)
    BY <1>2 DEF ChutePlaces
  <2> QED
    BY <1>1, <2>1 DEF RequestOwnsPlacement, StandsIn
<1>6. ASSUME NEW r \in Request, StandsIn(r, x)
      PROVE  request[r].place \in 1 .. n /\ chute[s][request[r].place].by = r
  <2> DEFINE p == request[r].place
  <2>1. Live(r, "bib") /\ ScopeOf(request[r].device) = s
    BY <1>6 DEF StandsIn
  <2>2. p \in Place
    BY <1>1, <2>1 DEF TypeOK, RequestRow, Live, IsRequest
  <2>3. IsRow(s, p) /\ chute[s][p].by = r
    BY <1>1, <2>1 DEF RequestOwnsPlacement, RowOf, IsRow
  <2> QED
    BY <1>2, <2>2, <2>3 DEF ChutePlaces
<1> QED
  <2>1. x \in Streams /\ Logs[x] = f
    BY DEF Streams, Logs
  <2> HIDE DEF x, f
  <2>2. Standing[x] = {r \in Request : StandsIn(r, x)}
    BY <2>1 DEF Standing
  <2>3. f \in [1 .. n -> Standing[x]]
    BY <1>4, <1>5, <2>2
  <2>4. \A p \in DOMAIN f : PlaceOf[f[p]] = p
    BY <1>4, <1>5 DEF PlaceOf
  <2>5. \A r \in Standing[x] : PlaceOf[r] \in DOMAIN f /\ f[PlaceOf[r]] = r
    BY <1>4, <1>6, <2>2 DEF PlaceOf
  <2>6. IsLog(x)
    BY <1>3, <2>1, <2>3, <2>4, <2>5 DEF IsLog, Lists
  <2> QED
    BY <2>6 DEF x

(* Every log lists the requests that stand in its stream, and after a step *)
(* those that stand then.                                                  *)
LEMMA LogsAreLogs == PhoneInv => \A x \in Streams : IsLog(x)
<1>1. SUFFICES ASSUME PhoneInv, NEW x \in Streams PROVE IsLog(x)
  OBVIOUS
<1>2. PICK s \in Scope : x = <<"time", s>> \/ x = <<"bib", s>>
  BY DEF Streams
<1> QED
  BY <1>1, <1>2, FinishLog, ChuteLog

LEMMA LogsAreLogsNext ==
  PhoneInv' => (\A x \in Streams : IsLog(x))'
BY LogsAreLogs, PTL

(* The requests in some log are those that stand, and what is stored with  *)
(* each of them is the time from the start to its capture.                 *)
LEMMA LoggedStand ==
  ASSUME PhoneInv
  PROVE  Log!Logged(Logs) = {r \in Request : Live(r, "time") \/ Live(r, "bib")}
<1>1. TypeOK /\ \A x \in Streams : IsLog(x)
  BY LogsAreLogs DEF PhoneInv
<1>2. ASSUME NEW x \in Streams, NEW k \in DOMAIN Logs[x]
      PROVE  Logs[x][k] \in Request /\ (Live(Logs[x][k], "time") \/ Live(Logs[x][k], "bib"))
  <2>1. Logs[x][k] \in Standing[x]
    BY <1>1 DEF IsLog, Lists
  <2>2. x[1] = "time" \/ x[1] = "bib"
    BY DEF Streams
  <2> QED
    BY <2>1, <2>2 DEF Standing, StandsIn
<1>3. ASSUME NEW r \in Request, NEW op \in {"time", "bib"}, Live(r, op)
      PROVE  \E x \in Streams : \E k \in DOMAIN Logs[x] : Logs[x][k] = r
  <2> DEFINE x == <<op, ScopeOf(request[r].device)>>
  <2>1. x \in Streams /\ StandsIn(r, x)
    BY <1>1, <1>3, Shapes DEF Streams, StandsIn, Live
  <2> HIDE DEF x
  <2>2. r \in Standing[x]
    BY <2>1 DEF Standing
  <2>3. PlaceOf[r] \in DOMAIN Logs[x] /\ Logs[x][PlaceOf[r]] = r
    BY <1>1, <2>1, <2>2 DEF IsLog, Lists
  <2> QED
    BY <2>1, <2>3
<1> QED
  BY <1>2, <1>3 DEF Log!Logged

LEMMA StoredIsElapsed == PhoneInv => StoredTimes = Log!Times(start, Entries, Logs)
<1>1. SUFFICES ASSUME PhoneInv, NEW r \in Request
      PROVE  StoredTimes[r] = Log!Times(start, Entries, Logs)[r]
  BY DEF StoredTimes, Log!Times
<1>2. FinishTimes /\ ChuteTimes
  BY <1>1 DEF PhoneInv, TimesFollowStart
<1>3. StoredTimes[r] = StoredTime(r)
  BY DEF StoredTimes
<1>4. Log!Times(start, Entries, Logs)[r] =
        IF Live(r, "time") \/ Live(r, "bib")
        THEN Log!Elapsed(Entries[r].at, start) ELSE None
  BY <1>1, LoggedStand DEF Log!Times
<1>5. ASSUME Live(r, "time") \/ Live(r, "bib")
      PROVE  /\ StoredTime(r) = Elapsed(request[r].at)
             /\ Entries[r].at = request[r].at
  <2>1. Entries[r].at = request[r].at
    BY <1>5 DEF Entries, EntryOf, Live
  <2>2. StoredTime(r) = Elapsed(request[r].at)
    BY <1>2, <1>5 DEF StoredTime, FinishTimes, ChuteTimes
  <2> QED
    BY <2>1, <2>2
<1>6. CASE Live(r, "time") \/ Live(r, "bib")
  BY <1>3, <1>4, <1>5, <1>6 DEF Elapsed, Log!Elapsed
<1>7. CASE ~(Live(r, "time") \/ Live(r, "bib"))
  BY <1>3, <1>4, <1>7 DEF StoredTime
<1> QED
  BY <1>6, <1>7

LEMMA StoredIsElapsedNext ==
  PhoneInv' => StoredTimes' = Log!Times(start', Entries', Logs')
<1>1. PhoneInv' => (StoredTimes = Log!Times(start, Entries, Logs))'
  BY StoredIsElapsed, PTL
<1> QED
  BY <1>1

-----------------------------------------------------------------------------
(* A step is one of a log *)

(* What becomes of the log of x when one request changes.                  *)
LEMMA StepLog ==
  ASSUME PhoneInv, PhoneInv', NEW x \in Streams, NEW r \in Request,
         \A q \in Request \ {r} : request'[q] = request[q]
  PROVE  /\ /\ StandsIn(r, x)' <=> StandsIn(r, x)
            /\ StandsIn(r, x) => request'[r].place = request[r].place
            => Logs'[x] = Logs[x]
         /\ ~StandsIn(r, x) /\ StandsIn(r, x)' => Logs'[x] = Append(Logs[x], r)
         /\ StandsIn(r, x) /\ ~StandsIn(r, x)' =>
              Logs[x] # <<>> /\ Logs'[x] = SubSeq(Logs[x], 1, Len(Logs[x]) - 1)
<1>1. /\ Lists(Logs[x], Standing[x], PlaceOf)
      /\ Lists(Logs'[x], Standing'[x], PlaceOf')
  BY LogsAreLogs, LogsAreLogsNext DEF IsLog
<1>2. /\ \A q \in Request \ {r} : q \in Standing'[x] <=> q \in Standing[x]
      /\ r \in Standing'[x] <=> StandsIn(r, x)'
      /\ r \in Standing[x] <=> StandsIn(r, x)
      /\ Standing[x] \subseteq Request /\ Standing'[x] \subseteq Request
  BY DEF Standing, StandsIn, Live, IsRequest, ScopeOf
<1>3. \A q \in Request : /\ PlaceOf[q] = request[q].place
                         /\ PlaceOf'[q] = request'[q].place
  BY DEF PlaceOf
<1>4. ASSUME StandsIn(r, x)' <=> StandsIn(r, x),
             StandsIn(r, x) => request'[r].place = request[r].place
      PROVE  Logs'[x] = Logs[x]
  <2>1. Standing'[x] = Standing[x]
    BY <1>2, <1>4
  <2>2. \A q \in Standing[x] : PlaceOf'[q] = PlaceOf[q]
    BY <1>2, <1>3, <1>4
  <2> QED
    BY <1>1, <2>1, <2>2, SameList
<1>5. ASSUME ~StandsIn(r, x), StandsIn(r, x)'
      PROVE  Logs'[x] = Append(Logs[x], r)
  <2>1. r \notin Standing[x] /\ Standing'[x] = Standing[x] \cup {r}
    BY <1>2, <1>5
  <2>2. \A q \in Standing[x] : PlaceOf'[q] = PlaceOf[q]
    BY <1>2, <1>3, <2>1
  <2> QED
    BY <1>1, <2>1, <2>2, LongerList
<1>6. ASSUME StandsIn(r, x), ~StandsIn(r, x)'
      PROVE  Logs[x] # <<>> /\ Logs'[x] = SubSeq(Logs[x], 1, Len(Logs[x]) - 1)
  <2>1. r \in Standing[x] /\ Standing'[x] = Standing[x] \ {r}
    BY <1>2, <1>6
  <2>2. \A q \in Standing[x] \ {r} : PlaceOf'[q] = PlaceOf[q]
    BY <1>2, <1>3
  <2> QED
    BY <1>1, <2>1, <2>2, ShorterList
<1> QED
  BY <1>4, <1>5, <1>6

(* No two placements that stand are of one bib or placeholder.             *)
LEMMA StandOnce ==
  PhoneInv =>
    \A i, j \in Request :
      /\ Live(i, "bib") /\ Live(j, "bib")
      /\ request[i].value = request[j].value
      /\ request[i].value \in Value /\ request[i].value.tag \in {"plain", "PH"}
      => i = j
<1>1. SUFFICES ASSUME PhoneInv, NEW i \in Request, NEW j \in Request,
                      Live(i, "bib"), Live(j, "bib"),
                      request[i].value = request[j].value,
                      request[i].value.tag \in {"plain", "PH"}
               PROVE  i = j
  OBVIOUS
<1>2. TypeOK /\ RequestOwnsPlacement /\ HeldOnce("plain") /\ HeldOnce("PH")
  BY <1>1 DEF PhoneInv, RequestOwnsRow, BibOnce, PlaceholderOnce
<1>3. ASSUME NEW r \in {i, j}
      PROVE  /\ <<ScopeOf(request[r].device), request[r].place>> \in Occupied
             /\ ValueAt(<<ScopeOf(request[r].device), request[r].place>>) = request[i].value
             /\ RowOf(r).by = r
  <2>1. RowOf(r) # None /\ RowOf(r).by = r /\ RowOf(r).value = request[i].value
    BY <1>1, <1>2 DEF RequestOwnsPlacement
  <2>2. ScopeOf(request[r].device) \in Scope /\ request[r].place \in Place
    BY <1>1, <1>2, Shapes DEF Live, RequestRow
  <2> QED
    BY <2>1, <2>2 DEF Occupied, ValueAt, IsRow, RowOf
<1>4. /\ ScopeOf(request[i].device) = ScopeOf(request[j].device)
      /\ request[i].place = request[j].place
  BY <1>1, <1>2, <1>3 DEF HeldOnce
<1> QED
  BY <1>3, <1>4 DEF RowOf

LEMMA StandOnceNext ==
  PhoneInv' =>
    \A i, j \in Request :
      /\ Live(i, "bib")' /\ Live(j, "bib")'
      /\ request'[i].value = request'[j].value
      /\ request'[i].value \in Value /\ request'[i].value.tag \in {"plain", "PH"}
      => i = j
<1>1. PhoneInv' => (\A i, j \in Request :
                      /\ Live(i, "bib") /\ Live(j, "bib")
                      /\ request[i].value = request[j].value
                      /\ request[i].value \in Value /\ request[i].value.tag \in {"plain", "PH"}
                      => i = j)'
  BY StandOnce, PTL
<1> QED
  BY <1>1

(* An accepted finish or placement is recorded.                            *)
LEMMA AcceptRecords ==
  ASSUME PhoneInv, PhoneInv', NEW d \in Device, NEW r \in Request,
         NEW op \in {"time", "bib"}, NEW p \in Place, NEW at \in Time,
         NEW v \in Value \cup {None}, op = "time" => v = None,
         Accept(d, r, op, p, at, v), start' = start, start # None => at >= start
  PROVE  Log!LogNext
<1> DEFINE x == <<op, ScopeOf(d)>>
<1>1. TypeOK /\ op \in Op
  BY DEF PhoneInv, Op
<1>2. /\ request'[r] = [device |-> d, op |-> op, place |-> p, at |-> at,
                        value |-> v, undone |-> FALSE]
      /\ request'[r] # None
      /\ request[r] = None
      /\ \A q \in Request \ {r} : request'[q] = request[q]
  BY <1>1, Accepted
<1>3. x \in Streams /\ x[1] = op /\ x[2] = ScopeOf(d)
  BY <1>1, Shapes DEF Streams
<1> HIDE DEF x
<1>4. /\ \A y \in Streams : ~StandsIn(r, y)
      /\ \A y \in Streams : StandsIn(r, y)' <=> y = x
  <2>1. \A y \in Streams : StandsIn(r, y)' <=> y[1] = op /\ y[2] = ScopeOf(d)
    BY <1>2 DEF StandsIn, Live, IsRequest, ScopeOf
  <2>2. \A y \in Streams : y[1] = op /\ y[2] = ScopeOf(d) <=> y = x
    BY DEF Streams, x
  <2> QED
    BY <1>2, <2>1, <2>2 DEF StandsIn, Live, IsRequest
<1>5. Logs' = [Logs EXCEPT ![x] = Append(@, r)]
  <2>1. \A y \in Streams \ {x} : Logs'[y] = Logs[y]
    BY <1>2, <1>4, StepLog
  <2>2. Logs'[x] = Append(Logs[x], r)
    BY <1>2, <1>3, <1>4, StepLog
  <2> QED
    BY <2>1, <2>2 DEF Logs
<1>6. /\ Entries[r] = None
      /\ Entries'[r] = [phone |-> d, at |-> at,
                        value |-> IF op = "bib" THEN v ELSE None]
      /\ \A q \in Request \ {r} : Entries'[q] = Entries[q]
  BY <1>2 DEF Entries, EntryOf, IsRequest
<1>7. Entries'[r] \in Log!Entry /\ Entries' = [Entries EXCEPT ![r] = Entries'[r]]
  <2>1. (IF op = "bib" THEN v ELSE None) \in Value \cup {None}
    OBVIOUS
  <2>2. Entries'[r] \in Log!Entry
    BY <1>6, <2>1 DEF Log!Entry
  <2>3. DOMAIN Entries' = Request /\ Entries = [q \in Request |-> Entries[q]]
    BY DEF Entries
  <2>4. Entries' = [q \in Request |-> Entries'[q]]
    BY DEF Entries
  <2> QED
    BY <1>6, <2>2, <2>3, <2>4
<1>8. ASSUME Entries'[r].value \in {w \in Value : w.tag \in {"plain", "PH"}},
             NEW j \in Log!Logged(Logs)
      PROVE  Entries[j].value # Entries'[r].value
  <2>1. Entries'[r].value = v /\ v \in Value /\ v # None /\ op = "bib"
    BY <1>6, <1>8, NoneAssumption
  <2>2. j \in Request /\ (Live(j, "time") \/ Live(j, "bib")) /\ j # r
    BY <1>2, <1>8, LoggedStand DEF Live, IsRequest
  <2>3. CASE Live(j, "time")
    BY <2>1, <2>2, <2>3 DEF Entries, EntryOf, Live
  <2>4. CASE Live(j, "bib")
    <3>1. Live(j, "bib")' /\ Live(r, "bib")'
      BY <1>2, <2>1, <2>2, <2>4 DEF Live, IsRequest
    <3>2. request'[j].value # request'[r].value
      BY <1>2, <1>8, <2>1, <2>2, <3>1, StandOnceNext
    <3>3. Entries[j].value = request[j].value
      BY <2>2, <2>4 DEF Entries, EntryOf, Live
    <3> QED
      BY <1>2, <2>1, <2>2, <3>2, <3>3
  <2> QED
    BY <2>2, <2>3, <2>4
<1>9. Entries'[r].at = at
  BY <1>6
<1>10. Log!Record(r)
  BY <1>3, <1>5, <1>6, <1>7, <1>8, <1>9 DEF Log!Record
<1> QED
  BY <1>10, StoredIsElapsedNext DEF Log!LogNext

(* An undo takes back.                                                     *)
LEMMA UndoTakesBack ==
  ASSUME PhoneInv, PhoneInv', NEW d \in Device, NEW r \in Request, Undo(d, r)
  PROVE  Log!LogNext
<1> DEFINE x == <<request[r].op, ScopeOf(d)>>
<1>1. TypeOK /\ StartIsFirst
  BY DEF PhoneInv, TimesFollowStart
<1>2. /\ \A q \in Request \ {r} : request'[q] = request[q]
      /\ \A op \in Op : ~Live(r, op)'
      /\ Live(r, request[r].op)
      /\ request[r].device = d
  BY <1>1, Undone
<1>3. /\ request[r].op \in {"time", "bib"} /\ start' = start
      /\ request'[r] = [request[r] EXCEPT !.undone = TRUE]
      /\ request[r] \in RequestRow
  BY <1>1, Shapes DEF Undo, TypeOK
<1>4. x \in Streams
  BY <1>1, <1>3, Shapes DEF Streams
<1> HIDE DEF x
<1>5. /\ \A y \in Streams : ~StandsIn(r, y)'
      /\ \A y \in Streams : StandsIn(r, y) <=> y = x
  <2>1. \A y \in Streams : y[1] = request[r].op /\ y[2] = ScopeOf(d) <=> y = x
    BY DEF Streams, x
  <2>2. \A y \in Streams : y[1] \in Op
    BY DEF Streams, Op
  <2> QED
    BY <1>2, <2>1, <2>2 DEF StandsIn, Live
<1>6. Entries' = Entries
  <2>1. \A q \in Request : EntryOf(q)' = EntryOf(q)
    <3>1. EntryOf(r)' = EntryOf(r)
      <4>1. /\ request'[r] # None /\ request[r] # None
            /\ request'[r].device = request[r].device /\ request'[r].op = request[r].op
            /\ request'[r].at = request[r].at /\ request'[r].value = request[r].value
        BY <1>3, NoneAssumption DEF RequestRow
      <4> QED
        BY <4>1 DEF EntryOf, IsRequest
    <3> QED
      BY <1>2, <3>1 DEF EntryOf, IsRequest
  <2> QED
    BY <2>1 DEF Entries, EntryOf
<1>7. Logs[x] # <<>> /\ Logs' = [Logs EXCEPT ![x] = SubSeq(@, 1, Len(@) - 1)]
  <2>1. \A y \in Streams \ {x} : Logs'[y] = Logs[y]
    BY <1>2, <1>5, StepLog
  <2>2. Logs[x] # <<>> /\ Logs'[x] = SubSeq(Logs[x], 1, Len(Logs[x]) - 1)
    BY <1>2, <1>4, <1>5, StepLog
  <2> QED
    BY <2>1, <2>2 DEF Logs
<1>8. Log!TakeBack(x)
  BY <1>3, <1>6, <1>7 DEF Log!TakeBack
<1> QED
  BY <1>4, <1>8, StoredIsElapsedNext DEF Log!LogNext

(* A start that sets the clock is a start of the log; one that says what   *)
(* the clock has says nothing to it.                                       *)
LEMMA StartStarts ==
  ASSUME PhoneInv, PhoneInv', NEW d \in Device, NEW r \in Request, NEW at \in Time,
         SubmitStart(d, r, at)
  PROVE  Log!LogNext \/ UNCHANGED <<start, Entries, Logs, StoredTimes>>
<1>1. TypeOK /\ Accept(d, r, "start", 0, at, None) /\ StartIsFirst'
  BY DEF PhoneInv, SubmitStart, TimesFollowStart
<1>2. /\ request'[r] = [device |-> d, op |-> "start", place |-> 0, at |-> at,
                        value |-> None, undone |-> FALSE]
      /\ request[r] = None
      /\ \A q \in Request \ {r} : request'[q] = request[q]
      /\ SameLive("time") /\ SameLive("bib")
  BY <1>1, Accepted, BoundAssumption DEF Op, Place
<1>3. Logs' = Logs
  <2>1. \A x \in Streams : ~StandsIn(r, x) /\ ~StandsIn(r, x)'
    BY <1>2 DEF Streams, StandsIn, Live, IsRequest
  <2>2. \A x \in Streams : Logs'[x] = Logs[x]
    BY <1>2, <2>1, StepLog
  <2> QED
    BY <2>2 DEF Logs
<1>4. Entries' = Entries
  BY <1>2 DEF Entries, EntryOf, IsRequest
<1>5. CASE start = None /\ start' = at
  <2>1. ASSUME NEW i \in Log!Logged(Logs) PROVE Entries[i].at >= start'
    <3>1. i \in Request /\ (Live(i, "time") \/ Live(i, "bib"))
      BY <2>1, LoggedStand
    <3>2. Entries[i].at = request[i].at /\ IsRequest(i)' /\ ~request'[i].undone
          /\ request'[i].at = request[i].at
      BY <1>2, <3>1 DEF Entries, EntryOf, Live, IsRequest, SameLive
    <3>3. start' # None
      BY <1>5, NoneAssumption
    <3> QED
      BY <1>1, <3>1, <3>2, <3>3 DEF StartIsFirst
  <2>2. Log!Start
    BY <1>3, <1>4, <1>5, <2>1 DEF Log!Start
  <2> QED
    BY <2>2, StoredIsElapsedNext DEF Log!LogNext
<1>6. CASE start' = start
  BY <1>3, <1>4, <1>6, StoredIsElapsed, StoredIsElapsedNext
<1> QED
  BY <1>5, <1>6 DEF SubmitStart

LEMMA InitLog == Init => Log!LogInit
<1>1. SUFFICES ASSUME Init PROVE Log!LogInit
  OBVIOUS
<1>2. PhoneInv /\ \A r \in Request : ~IsRequest(r)
  BY <1>1, InitPhone DEF Init, IsRequest
<1>3. Entries = [r \in Request |-> None]
  BY <1>2 DEF Entries, EntryOf
<1>4. ASSUME NEW x \in Streams PROVE Logs[x] = <<>>
  <2>1. Standing[x] = {} /\ IsLog(x)
    BY <1>2, LogsAreLogs DEF Standing, StandsIn, Live
  <2>2. PICK n \in Nat : Logs[x] \in [1 .. n -> {}]
    BY <2>1 DEF IsLog, Lists
  <2>3. n = 0
    BY <2>2
  <2> QED
    BY <2>2, <2>3
<1>5. Logs = [x \in Streams |-> <<>>]
  BY <1>4 DEF Logs
<1>6. StoredTimes = [r \in Request |-> None]
  BY <1>2 DEF StoredTimes, StoredTime, Live
<1> QED
  BY <1>1, <1>3, <1>5, <1>6 DEF Log!LogInit, Init

LEMMA StepKeepsLog ==
  PhoneInv /\ PhoneInv' /\ [PhoneNext]_vars
    => [Log!LogNext]_<<start, Entries, Logs, StoredTimes>>
<1>1. SUFFICES ASSUME PhoneInv, PhoneInv', [PhoneNext]_vars
               PROVE  Log!LogNext \/ UNCHANGED <<start, Entries, Logs, StoredTimes>>
  OBVIOUS
<1>2. ASSUME UNCHANGED <<start, pulse, chute, request>>
      PROVE  UNCHANGED <<start, Entries, Logs, StoredTimes>>
  <2>1. Entries' = Entries
    BY <1>2 DEF Entries, EntryOf, IsRequest
  <2>2. Logs' = Logs
    BY <1>2 DEF Logs, LogOf, PulsePlaces, ChutePlaces, PulseAt, IsPulse, IsRow
  <2> QED
    BY <1>1, <1>2, <2>1, <2>2, StoredIsElapsed, StoredIsElapsedNext
<1>3. TypeOK
  BY <1>1 DEF PhoneInv
<1>4. ASSUME NEW d \in Device, NEW r \in Request, NEW at \in Time, SubmitTime(d, r, at)
      PROVE  Log!LogNext
  <2>1. PICK p \in Place : Accept(d, r, "time", p, at, None)
    BY <1>4 DEF SubmitTime
  <2>2. start' = start /\ (start # None => at >= start)
    BY <1>4 DEF SubmitTime
  <2> QED
    BY <1>1, <2>1, <2>2, AcceptRecords
<1>5. ASSUME NEW d \in Device, NEW r \in Request, NEW at \in Time,
             NEW input \in Bib \cup {Unread, Excluded}, SubmitBib(d, r, at, input)
      PROVE  Log!LogNext
  <2>1. PICK p \in Place, v \in Value : Accept(d, r, "bib", p, at, v)
    BY <1>5 DEF SubmitBib
  <2>2. start' = start /\ (start # None => at >= start)
    BY <1>5 DEF SubmitBib
  <2> QED
    BY <1>1, <2>1, <2>2, AcceptRecords
<1>6. CASE Roles
  BY <1>2, <1>6 DEF Roles, Acquire, Drop
<1>7. CASE PhoneTimes
  BY <1>4, <1>7 DEF PhoneTimes
<1>8. CASE PhonePlacements
  BY <1>1, <1>5, <1>8, StartStarts, UndoTakesBack DEF PhonePlacements
<1>9. CASE UNCHANGED vars
  BY <1>2, <1>9 DEF vars
<1> QED
  BY <1>1, <1>6, <1>7, <1>8, <1>9 DEF PhoneNext

(* What the phones record implements the log they are promised: it grows   *)
(* and shrinks at the end of each stream only, no bib or placeholder is in *)
(* it twice, and every stored time is that from the start to the capture.  *)
THEOREM PhonesImplementLog == PhoneSpec => PhonesKeepALog
<1>1. PhoneSpec => Log!LogInit
  BY InitLog DEF PhoneSpec
<1> QED
  BY <1>1, PhoneSafety, StepKeepsLog, PTL DEF PhoneSpec, PhonesKeepALog, Log!LogSpec
=============================================================================
