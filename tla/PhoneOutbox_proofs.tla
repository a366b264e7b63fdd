------------------------- MODULE PhoneOutbox_proofs -------------------------
(***************************************************************************)
(* Proofs that the outbox records every tap once, loses none and replays   *)
(* them in order, for any number of taps, sessions, pairings and           *)
(* calibrations.                                                           *)
(***************************************************************************)
EXTENDS PhoneOutbox, TLAPS, SequenceTheorems, WellFoundedInduction

-----------------------------------------------------------------------------
(* The inductive invariant *)

FlushOK == flush \in FlushState /\ flush.todo \subseteq DOMAIN captured

Done(e) == IsRecorded(e) \/ e \in discarded

Alike(e, f) == /\ captured[e].kind = captured[f].kind
               /\ captured[e].session = captured[f].session
               /\ KindOf(f) # "start"

(* Nothing the laptop could still have to record before f.                 *)
Clear(f) == \A e \in DOMAIN captured : e < f /\ Alike(e, f) => Done(e)

(* What the flush has left to send has no gap it could fill later.         *)
TodoInOrder ==
  \A f \in flush.todo, e \in DOMAIN captured :
    e < f /\ Alike(e, f) => e \in flush.todo \/ Done(e)

InFlight == {"sent", "answered", "state", "stated"}

MessageInOrder ==
  flush.pc \in InFlight => /\ flush.msg \in Message
                           /\ flush.msg.entry \in DOMAIN captured
                           /\ Clear(flush.msg.entry)

(* A calibration is for something to send, an acknowledgement is of a      *)
(* record, and only a start waits for a state.                             *)
AnswerIsTrue ==
  /\ flush.pc = "clock" => flush.todo # {}
  /\ flush.pc = "answered" /\ flush.reply = "ack" => IsRecorded(flush.msg.entry)
  /\ flush.pc \in {"state", "stated"} => KindOf(flush.msg.entry) = "start"

LateInOrder ==
  \A m \in late : m \in Message /\ m.entry \in DOMAIN captured /\ Clear(m.entry)

LogInOrder ==
  \A i \in DOMAIN log : log[i].entry \in DOMAIN captured /\ Clear(log[i].entry)

(* A start the race has, or the phone has seen, supersedes those in line.  *)
StartsSuperseded ==
  start # None \/ view.start =>
    \A e \in outbox : KindOf(e) = "start" => e \in preempted

OutboxInv ==
  /\ TypeOK
  /\ RecordedOnce /\ NothingLost /\ ReplayInOrder
  /\ TodoInOrder /\ MessageInOrder /\ AnswerIsTrue
  /\ LateInOrder /\ LogInOrder
  /\ StartsSuperseded

-----------------------------------------------------------------------------
(* The queue *)

(* First is the least entry of what is left to send.                       *)
LEMMA FirstIsLeast ==
  ASSUME NEW S \in SUBSET Nat, S # {}
  PROVE  First(S) \in S /\ \A o \in S : First(S) <= o
<1>1. PICK x \in S : \A y \in S : ~(<<y, x>> \in OpToRel(<, Nat))
  BY ONLY NatLessThanWellFounded, WFMin, S \in SUBSET Nat, S # {}, Zenon
<1>2. ASSUME NEW o \in S PROVE x <= o
  <2>1. <<o, x>> \notin OpToRel(<, Nat)
    BY <1>1
  <2>2. ~(o < x)
    BY <2>1 DEF OpToRel
  <2> QED
    BY <2>2
<1> QED
  BY <1>2 DEF First

(* What Post and BeginFlush need of the storages.                          *)
StorageOK ==
  /\ captured \in Seq(CaptureRow) /\ Len(captured) <= MaxCaptures
  /\ outbox \subseteq DOMAIN captured
  /\ cal \in Calibration
  /\ cookie \in Pairing \cup {None}

(* A request carries the first entry of what is left.                      *)
LEMMA PostSendsFirst ==
  ASSUME StorageOK', NEW todo \in SUBSET DOMAIN captured',
         todo # {}, NEW post \in Calibration, Post(todo, post)
  PROVE  /\ flush' \in FlushState
         /\ flush'.todo = todo /\ flush'.pc = "sent" /\ flush'.reply = None
         /\ flush'.msg \in Message
         /\ flush'.msg.entry = First(todo)
         /\ First(todo) \in todo /\ \A o \in todo : First(todo) <= o
<1> USE OutboxAssumption DEF StorageOK, Calibration
<1>1. DOMAIN captured' \in SUBSET Entry /\ Entry \subseteq Nat
  BY DEF Entry
<1>2. First(todo) \in todo /\ \A o \in todo : First(todo) <= o
  BY <1>1, FirstIsLeast
<1>3. captured'[First(todo)].cal \in Calibration
  <2>1. captured'[First(todo)] \in CaptureRow
    BY <1>2
  <2> QED
    BY <2>1 DEF CaptureRow
<1> DEFINE msg == [entry |-> First(todo),
                   at |-> Corrected(captured'[First(todo)].cal, post),
                   by |-> cookie']
<1>4. msg \in Message
  BY <1>1, <1>2, <1>3 DEF Corrected, Message
<1>5. flush' = [pc |-> "sent", todo |-> todo, post |-> post, reply |-> None,
                msg |-> msg]
  BY DEF Post
<1>6. msg.entry = First(todo)
  OBVIOUS
<1> HIDE DEF msg
<1>7. flush' \in FlushState
  BY <1>1, <1>4, <1>5 DEF FlushState
<1> QED
  BY <1>2, <1>4, <1>5, <1>6, <1>7

(* Idle is a state of the flush with nothing to send.                      *)
LEMMA IdleShape ==
  /\ Idle \in FlushState /\ Idle.todo = {} /\ Idle.pc = "idle"
  /\ [Idle EXCEPT !.pc = "final"] \in FlushState
  /\ [Idle EXCEPT !.pc = "final"].todo = {}
  /\ [Idle EXCEPT !.pc = "final"].pc = "final"
BY OutboxAssumption DEF Idle, FlushState, Calibration

(* What the steps of a flush do to its local variables, action by action.  *)
Reads(todo, post) ==
  \/ flush' = Idle
  \/ todo # {} /\ flush' = [Idle EXCEPT !.pc = "clock", !.todo = todo]
  \/ todo # {} /\ post \in Calibration /\ Post(todo, post)

Syncable == {e \in outbox : captured[e].session = view.session
                            /\ captured[e].kind = role}

Kept == UNCHANGED <<captured, outbox, discarded, log, late>>

FlushMoves ==
  \/ flush' = flush
  \/ flush' = Idle
  \/ Reads(Syncable', cal')
  \/ /\ flush.pc = "clock" /\ Kept /\ flush.todo # {}
     /\ Post(flush.todo, cal')
  \/ /\ flush.pc = "sent"
     /\ flush' \in {[flush EXCEPT !.pc = "answered", !.reply = answer] :
                     answer \in {"ack", "role", "conflict"}}
     /\ flush'.reply = "ack" => IsRecorded(flush.msg.entry)'
  \/ /\ flush.pc = "answered" /\ KindOf(flush.msg.entry) = "start"
     /\ flush' = [flush EXCEPT !.pc = "state"]
  \/ flush.pc = "state" /\ flush' = [flush EXCEPT !.pc = "stated"]
  \/ /\ flush.pc \in {"answered", "stated"}
     /\ IsRecorded(flush.msg.entry) \/ KindOf(flush.msg.entry) = "start"
     /\ Advance(flush.todo \ {flush.msg.entry})

-----------------------------------------------------------------------------
(* Type correctness *)

(* TypeOK without the local variables of the flush.                        *)
RowsOK ==
  /\ StorageOK
  /\ discarded \subseteq DOMAIN captured /\ preempted \subseteq DOMAIN captured
  /\ calibrations \in Calibration /\ cal \in 0 .. calibrations
  /\ role \in Kind \cup {None}
  /\ paired \in BOOLEAN /\ startPending \in BOOLEAN /\ again \in BOOLEAN
  /\ view \in [session : Session \cup {None}, start : BOOLEAN]
  /\ paired => view.session # None
  /\ pairings \in 0 .. MaxPairings /\ cookie \in (1 .. pairings) \cup {None}
  /\ asking \in Kind \cup {"leave", None}
  /\ late \subseteq Message
  /\ lease \in [Session -> [Kind -> (1 .. pairings) \cup {None}]]
  /\ refused \subseteq Pairing
  /\ start \in Nat \cup {None}
  /\ log \in Seq(Message)

(* TypeOK is the rows and the flush.                                       *)
LEMMA TypeParts == TypeOK <=> RowsOK /\ FlushOK
BY OutboxAssumption DEF TypeOK, RowsOK, FlushOK, StorageOK, Calibration, Pairing

(* What CallFlush and EndFlush leave in flush and again.                   *)
LEMMA BeginFlushReads ==
  ASSUME RowsOK', BeginFlush
  PROVE  Reads(Syncable', cal')
BY DEF BeginFlush, Reads, Syncable, RowsOK, StorageOK

(* A call of flush leaves the running one alone or begins one.             *)
LEMMA CallFlushMoves ==
  ASSUME RowsOK', CallFlush
  PROVE  flush' = flush \/ Reads(Syncable', cal')
BY BeginFlushReads DEF CallFlush

(* A flush that ends is idle, or begins again if it was called meanwhile.  *)
LEMMA EndFlushMoves ==
  ASSUME RowsOK', EndFlush
  PROVE  flush' = Idle \/ Reads(Syncable', cal')
BY BeginFlushReads DEF EndFlush

(* flushRequested stays a flag.                                            *)
LEMMA AgainIsBoolean ==
  ASSUME again \in BOOLEAN, CallFlush \/ EndFlush
  PROVE  again' \in BOOLEAN
BY DEF CallFlush, EndFlush

(* loadState leaves a phone that knows its session while it is paired.     *)
LEMMA LoadStateTypes ==
  ASSUME RowsOK, LoadState
  PROVE  /\ view' \in [session : Session \cup {None}, start : BOOLEAN]
         /\ paired' \in BOOLEAN /\ role' \in Kind \cup {None}
         /\ paired' => view'.session # None
<1> USE OutboxAssumption DEF RowsOK, Fresh, Accepted, Pairing
<1>1. CASE StateArrives
  <2>1. SessionOf[cookie] \in Session
    BY <1>1 DEF StateArrives
  <2> QED
    BY <1>1, <2>1 DEF StateArrives
<1>2. CASE Unauthorized
  BY <1>2 DEF Unauthorized
<1> QED
  BY <1>1, <1>2 DEF LoadState

(* Taking a role from its holder leaves a table of leases.                 *)
LEMMA LeaseCleared ==
  ASSUME RowsOK, NEW s, NEW k
  PROVE  [lease EXCEPT ![s][k] = None]
           \in [Session -> [Kind -> (1 .. pairings) \cup {None}]]
<1> DEFINE D == 1 .. pairings
<1> DEFINE new == [lease EXCEPT ![s][k] = None]
<1>0. lease \in [Session -> [Kind -> D \cup {None}]]
  BY DEF RowsOK
<1> HIDE DEF D
<1>1. ASSUME NEW t \in Session PROVE new[t] \in [Kind -> D \cup {None}]
  <2>1. new[t] = IF t = s THEN [lease[t] EXCEPT ![k] = None] ELSE lease[t]
    BY <1>0
  <2>2. lease[t] \in [Kind -> D \cup {None}]
    BY <1>0
  <2> HIDE DEF new
  <2> QED
    BY <2>1, <2>2
<1>2. new = [t \in Session |-> new[t]]
  BY <1>0
<1>3. new \in [Session -> [Kind -> D \cup {None}]]
  <2> HIDE DEF new
  <2> QED
    BY <1>1, <1>2
<1> QED
  BY <1>3 DEF D

(* A submission keeps the laptop's rows well formed.                       *)
LEMMA SubmitTypes ==
  ASSUME RowsOK, NEW m \in Message, NEW answer, Submit(m, answer)
  PROVE  /\ lease' \in [Session -> [Kind -> (1 .. pairings) \cup {None}]]
         /\ refused' \subseteq Pairing
         /\ start' \in Nat \cup {None}
         /\ log' \in Seq(Message)
<1>1. m.entry \in Nat
  BY OutboxAssumption DEF Message, Entry
<1>2. CASE Record(m)
  <2>1. lease' \in [Session -> [Kind -> (1 .. pairings) \cup {None}]]
    <3>1. CASE KindOf(m.entry) = "start"
      <4>1. lease' = [lease EXCEPT ![SessionOf[m.by]]["start"] = None]
        BY <1>2, <3>1 DEF Record
      <4> QED
        BY ONLY <4>1, LeaseCleared, RowsOK
    <3>2. CASE KindOf(m.entry) # "start"
      BY <1>2, <3>2 DEF Record, RowsOK
    <3> QED
      BY <3>1, <3>2
  <2>2. start' \in Nat \cup {None}
    BY <1>1, <1>2 DEF Record, RowsOK, At
  <2> QED
    BY <1>2, <2>1, <2>2 DEF Record, RowsOK
<1>3. CASE UNCHANGED laptop
  BY <1>3 DEF laptop, RowsOK
<1> QED
  BY <1>2, <1>3 DEF Submit

(* Only taps are superseded.                                               *)
LEMMA PreemptTypes ==
  ASSUME RowsOK, Preempt
  PROVE  preempted' \subseteq DOMAIN captured
BY DEF Preempt, RowsOK, StorageOK

(* A new tap makes the captures one longer and changes none of them.       *)
LEMMA CaptureTypes ==
  ASSUME RowsOK, NEW k \in Kind, Capture(k)
  PROVE  /\ captured' \in Seq(CaptureRow)
         /\ Len(captured') = Len(captured) + 1 /\ Len(captured') <= MaxCaptures
         /\ DOMAIN captured' = DOMAIN captured \cup {Len(captured) + 1}
         /\ \A e \in DOMAIN captured : captured'[e] = captured[e]
         /\ captured'[Len(captured) + 1].kind = k
<1> DEFINE row == [kind |-> k, session |-> view.session, cal |-> cal]
<1>1. row \in CaptureRow
  BY DEF Capture, CaptureRow, RowsOK, StorageOK
<1>2. captured' = Append(captured, row)
  BY DEF Capture
<1>3. row.kind = k
  OBVIOUS
<1> HIDE DEF row
<1>4. captured \in Seq(CaptureRow) /\ Len(captured) < MaxCaptures
  BY DEF RowsOK, StorageOK, Capture
<1>5. /\ captured' \in Seq(CaptureRow) /\ Len(captured') = Len(captured) + 1
      /\ \A i \in 1 .. Len(captured) : captured'[i] = captured[i]
      /\ captured'[Len(captured) + 1] = row
  BY <1>1, <1>2, <1>4, AppendProperties
<1>6. /\ DOMAIN captured = 1 .. Len(captured)
      /\ DOMAIN captured' = 1 .. Len(captured')
      /\ Len(captured) \in Nat
  BY <1>4, <1>5, LenProperties
<1>7. Len(captured') <= MaxCaptures
  BY <1>4, <1>5, <1>6, OutboxAssumption
<1> QED
  BY <1>3, <1>5, <1>6, <1>7

(* Every step keeps the rows well formed.                                  *)
LEMMA RowsStep == RowsOK /\ FlushOK /\ MessageInOrder /\ [Next]_vars => RowsOK'
<1> SUFFICES ASSUME RowsOK, FlushOK, MessageInOrder, [Next]_vars PROVE RowsOK'
  OBVIOUS
<1> USE OutboxAssumption DEF taps, stored, network, laptop
<1>1. CASE FlushCalibrate
  BY <1>1 DEF FlushCalibrate, RowsOK, StorageOK, Calibration
<1>2. CASE FlushFails
  BY <1>2, AgainIsBoolean
     DEF FlushFails, RowsOK, StorageOK, MessageInOrder, InFlight
<1>3. CASE FlushTakesAck
  BY <1>3 DEF FlushTakesAck, Settle, RowsOK, StorageOK
<1>4. CASE FlushTakesRefusal
  BY <1>4, AgainIsBoolean DEF FlushTakesRefusal, GiveUp, RowsOK, StorageOK
<1>5. CASE FlushTakesState
  BY <1>5, AgainIsBoolean, LoadStateTypes DEF FlushTakesState, RowsOK, StorageOK
<1>6. CASE FlushSettlesStart
  BY <1>6, AgainIsBoolean
     DEF FlushSettlesStart, Settle, GiveUp, RowsOK, StorageOK
<1>7. CASE LaptopAnswers
  BY <1>7, SubmitTypes, PreemptTypes
     DEF LaptopAnswers, RowsOK, StorageOK, MessageInOrder, InFlight
<1>8. ASSUME NEW m \in late, LateArrives(m)
      PROVE RowsOK'
  BY <1>8, SubmitTypes, PreemptTypes DEF LateArrives, RowsOK, StorageOK
<1>9. ASSUME NEW t \in {Now, None}, SetStart(t)
      PROVE RowsOK'
  BY <1>9, PreemptTypes DEF SetStart, Now, RowsOK, StorageOK
<1>10. ASSUME NEW s \in Session, NEW k \in Kind, ClearRole(s, k)
      PROVE RowsOK'
  BY <1>10 DEF ClearRole, RowsOK, StorageOK
<1>11. ASSUME NEW c \in 1 .. pairings, Revoke(c)
      PROVE RowsOK'
  BY <1>11 DEF Revoke, WithoutLeases, RowsOK, StorageOK, Pairing
<1>12. ASSUME NEW s \in Session, StopSession(s)
      PROVE RowsOK'
  BY <1>12 DEF StopSession, RowsOK, StorageOK
<1>13. ASSUME NEW k \in Kind, Capture(k)
      PROVE RowsOK'
  BY <1>13, CaptureTypes, AgainIsBoolean DEF Capture, RowsOK, StorageOK
<1>14. ASSUME NEW e \in outbox, DeleteEntry(e)
      PROVE RowsOK'
  BY <1>14 DEF DeleteEntry, RowsOK, StorageOK
<1>15. ASSUME NEW k \in Kind, Acquire(k)
      PROVE RowsOK'
  BY <1>15, AgainIsBoolean DEF Acquire, Accepted, RowsOK, StorageOK
<1>16. CASE Ask
  BY <1>16 DEF Ask, RowsOK, StorageOK
<1>17. CASE Released
  <2>1. lease' \in [Session -> [Kind -> (1 .. pairings) \cup {None}]]
    <3>1. CASE lease[SessionOf[cookie]][asking] = cookie
      <4>1. lease' = [lease EXCEPT ![SessionOf[cookie]][asking] = None]
        BY <1>17, <3>1 DEF Released
      <4> QED
        BY ONLY <4>1, LeaseCleared, RowsOK
    <3>2. CASE lease[SessionOf[cookie]][asking] # cookie
      BY <1>17, <3>2 DEF Released, RowsOK
    <3> QED
      BY <3>1, <3>2
  <2> QED
    BY <1>17, <2>1 DEF Released, RowsOK, StorageOK
<1>18. CASE Left
  <2>1. lease' \in [Session -> [Kind -> (1 .. pairings) \cup {None}]]
    BY <1>18 DEF Left, WithoutLeases, RowsOK
  <2>2. refused' \subseteq Pairing
    BY <1>18 DEF Left, RowsOK, Pairing
  <2>3. CASE UNCHANGED <<cookie, cal, role, paired, view>>
    BY <1>18, <2>1, <2>2, <2>3 DEF Left, RowsOK, StorageOK
  <2>4. CASE /\ cookie' = None /\ cal' = 0 /\ role' = None /\ paired' = FALSE
             /\ view' = [session |-> None, start |-> FALSE]
    <3>1. view' \in [session : Session \cup {None}, start : BOOLEAN]
      BY <2>4
    <3>2. cal' \in 0 .. calibrations /\ cal' \in Calibration
      BY <2>4 DEF RowsOK, Calibration
    <3> QED
      BY <1>18, <2>1, <2>2, <2>4, <3>1, <3>2 DEF Left, RowsOK, StorageOK
  <2> QED
    BY <1>18, <2>3, <2>4 DEF Left
<1>19. CASE Unanswered
  BY <1>19 DEF Unanswered, RowsOK, StorageOK
<1>20. CASE Pair
  BY <1>20 DEF Pair, Fresh, Pairing, RowsOK, StorageOK
<1>21. CASE Calibrate
  BY <1>21 DEF Calibrate, RowsOK, StorageOK, Calibration
<1>22. CASE Reconnect
  BY <1>22, AgainIsBoolean, LoadStateTypes DEF Reconnect, RowsOK, StorageOK
<1>23. CASE StateEvent
  BY <1>23, AgainIsBoolean, LoadStateTypes
     DEF StateEvent, LoadState, RowsOK, StorageOK
<1>24. CASE UnauthorizedEvent
  BY <1>24, LoadStateTypes DEF UnauthorizedEvent, LoadState, RowsOK, StorageOK
<1>25. CASE Reload
  BY <1>25 DEF Reload, RowsOK, StorageOK, MessageInOrder, InFlight
<1>26. CASE UNCHANGED vars
  BY <1>26 DEF vars, RowsOK, StorageOK
<1> QED
  BY <1>1, <1>2, <1>3, <1>4, <1>5, <1>6, <1>7, <1>8, <1>9, <1>10, <1>11,
     <1>12, <1>13, <1>14, <1>15, <1>16, <1>17, <1>18, <1>19, <1>20, <1>21,
     <1>22, <1>23, <1>24, <1>25, <1>26
     DEF Next, FlushNext, LaptopNext, PhoneNext

-----------------------------------------------------------------------------
(* The laptop's answers, request by request *)

(* What is acknowledged is on record, and only a new request is recorded.  *)
LEMMA SubmitRecords ==
  ASSUME RowsOK, NEW m \in Message, NEW answer, Submit(m, answer)
  PROVE  /\ answer = "ack" => IsRecorded(m.entry)'
         /\ log' = log \/ (~IsRecorded(m.entry) /\ log' = Append(log, m))
<1>1. CASE Known(m)
  BY <1>1 DEF Submit, Known, Duplicate, IsRecorded, laptop
<1>2. CASE ~Known(m) /\ Record(m)
  <2>1. Append(log, m)[Len(log) + 1] = m /\ Len(log) + 1 \in DOMAIN Append(log, m)
    BY AppendProperties DEF RowsOK
  <2> QED
    BY <1>2, <2>1 DEF Record, Known, IsRecorded
<1>3. CASE ~Known(m) /\ UNCHANGED laptop /\ answer # "ack"
  BY <1>3 DEF laptop
<1> QED
  BY <1>1, <1>2, <1>3 DEF Submit

(* The rows of the log, by index.                                          *)
Logged == {log[i].entry : i \in DOMAIN log}

(* A request that is recorded is the last row of the log; the others stay. *)
LEMMA AppendedLog ==
  ASSUME RowsOK, NEW m \in Message
  PROVE  LET new == Append(log, m)
         IN  /\ DOMAIN new = DOMAIN log \cup {Len(log) + 1}
             /\ new[Len(log) + 1] = m
             /\ \A i \in DOMAIN log : i <= Len(log) /\ new[i] = log[i]
             /\ DOMAIN log \subseteq Nat /\ Len(log) \in Nat
<1>1. log \in Seq(Message)
  BY DEF RowsOK
<1>2. DOMAIN log = 1 .. Len(log) /\ Len(log) \in Nat
  BY <1>1, LenProperties
<1>3. /\ Append(log, m) \in Seq(Message)
      /\ Len(Append(log, m)) = Len(log) + 1
      /\ \A i \in 1 .. Len(log) : Append(log, m)[i] = log[i]
      /\ Append(log, m)[Len(log) + 1] = m
  BY <1>1, AppendProperties
<1>4. DOMAIN Append(log, m) = 1 .. (Len(log) + 1)
  BY <1>3, LenProperties
<1> QED
  BY <1>2, <1>3, <1>4

(* The log changes by a request in flight or a late one that is not on it. *)
LogMoves ==
  \/ log' = log
  \/ \E m \in Message :
       /\ ~IsRecorded(m.entry) /\ log' = Append(log, m)
       /\ \/ flush.pc = "sent" /\ m = flush.msg
          \/ m \in late

(* Every step extends the log by one request of those sent, or leaves it.  *)
LEMMA LogCases ==
  ASSUME RowsOK, MessageInOrder, [Next]_vars
  PROVE  LogMoves
<1>1. CASE LaptopAnswers
  <2>1. flush.pc = "sent" /\ flush.msg \in Message
    BY <1>1 DEF LaptopAnswers, MessageInOrder, InFlight
  <2>2. PICK answer : Submit(flush.msg, answer)
    BY <1>1 DEF LaptopAnswers
  <2> QED
    BY <2>1, <2>2, SubmitRecords DEF LogMoves
<1>2. ASSUME NEW m \in late, LateArrives(m)
      PROVE LogMoves
  <2>1. m \in Message
    BY DEF RowsOK
  <2>2. PICK answer : Submit(m, answer)
    BY <1>2 DEF LateArrives
  <2> QED
    BY <2>1, <2>2, SubmitRecords DEF LogMoves
<1>3. FlushCalibrate => log' = log
  BY DEF FlushCalibrate, laptop
<1>4. FlushFails => log' = log
  BY DEF FlushFails, laptop
<1>5. FlushTakesAck => log' = log
  BY DEF FlushTakesAck, Settle, laptop
<1>6. FlushTakesRefusal => log' = log
  BY DEF FlushTakesRefusal, GiveUp, laptop
<1>7. FlushTakesState => log' = log
  BY DEF FlushTakesState, laptop
<1>8. FlushSettlesStart => log' = log
  BY DEF FlushSettlesStart, Settle, GiveUp, laptop
<1>9. ASSUME NEW t \in {Now, None}, SetStart(t)
      PROVE log' = log
  BY <1>9 DEF SetStart, laptop
<1>10. ASSUME NEW s \in Session, NEW k \in Kind, ClearRole(s, k)
      PROVE log' = log
  BY <1>10 DEF ClearRole, laptop
<1>11. ASSUME NEW c \in 1 .. pairings, Revoke(c)
      PROVE log' = log
  BY <1>11 DEF Revoke, laptop
<1>12. ASSUME NEW s \in Session, StopSession(s)
      PROVE log' = log
  BY <1>12 DEF StopSession, laptop
<1>13. ASSUME NEW k \in Kind, Capture(k)
      PROVE log' = log
  BY <1>13 DEF Capture, laptop
<1>14. ASSUME NEW e \in outbox, DeleteEntry(e)
      PROVE log' = log
  BY <1>14 DEF DeleteEntry, laptop
<1>15. ASSUME NEW k \in Kind, Acquire(k)
      PROVE log' = log
  BY <1>15 DEF Acquire, laptop
<1>16. Ask => log' = log
  BY DEF Ask, laptop
<1>17. Released => log' = log
  BY DEF Released, laptop
<1>18. Left => log' = log
  BY DEF Left, laptop
<1>19. Unanswered => log' = log
  BY DEF Unanswered, laptop
<1>20. Pair => log' = log
  BY DEF Pair, laptop
<1>21. Calibrate => log' = log
  BY DEF Calibrate, laptop
<1>22. Reconnect => log' = log
  BY DEF Reconnect, laptop
<1>23. StateEvent => log' = log
  BY DEF StateEvent, laptop
<1>24. UnauthorizedEvent => log' = log
  BY DEF UnauthorizedEvent, laptop
<1>25. Reload => log' = log
  BY DEF Reload, laptop
<1>26. UNCHANGED vars => log' = log
  BY DEF vars, laptop
<1> QED
  BY <1>1, <1>2, <1>3, <1>4, <1>5, <1>6, <1>7, <1>8, <1>9, <1>10, <1>11,
     <1>12, <1>13, <1>14, <1>15, <1>16, <1>17, <1>18, <1>19, <1>20, <1>21,
     <1>22, <1>23, <1>24, <1>25, <1>26
     DEF Next, FlushNext, LaptopNext, PhoneNext, LogMoves

-----------------------------------------------------------------------------
(* The flush, action by action *)

(* Every step is one of the moves of the flush.                            *)
LEMMA FlushCases ==
  ASSUME RowsOK, RowsOK', FlushOK, MessageInOrder, AnswerIsTrue, [Next]_vars
  PROVE  FlushMoves
<1> USE DEF FlushMoves
<1>1. CASE FlushCalibrate
  BY <1>1 DEF FlushCalibrate, Kept, taps, laptop, network, AnswerIsTrue
<1>2. CASE FlushFails
  BY <1>2, EndFlushMoves DEF FlushFails
<1>3. CASE FlushTakesAck
  BY <1>3 DEF FlushTakesAck, Settle, AnswerIsTrue
<1>4. CASE FlushTakesRefusal
  BY <1>4, EndFlushMoves DEF FlushTakesRefusal, GiveUp
<1>5. CASE FlushTakesState
  BY <1>5, EndFlushMoves DEF FlushTakesState
<1>6. CASE FlushSettlesStart
  BY <1>6, EndFlushMoves DEF FlushSettlesStart, Settle, GiveUp, AnswerIsTrue
<1>7. CASE LaptopAnswers
  <2>1. PICK answer \in {"ack", "role", "conflict"} :
          /\ Submit(flush.msg, answer)
          /\ flush' = [flush EXCEPT !.pc = "answered", !.reply = answer]
    BY <1>7 DEF LaptopAnswers
  <2>2. flush.pc = "sent" /\ flush.msg \in Message
    BY <1>7 DEF LaptopAnswers, MessageInOrder, InFlight
  <2>3. flush'.reply = answer
    BY <2>1 DEF FlushOK, FlushState
  <2>4. answer = "ack" => IsRecorded(flush.msg.entry)'
    <3>1. flush'.msg = flush.msg
      BY <2>1 DEF FlushOK, FlushState
    <3>2. ASSUME NEW m \in Message, Submit(m, answer), answer = "ack"
          PROVE \E i \in DOMAIN log' : log'[i].entry = m.entry
      BY <3>2, SubmitRecords DEF IsRecorded
    <3> QED
      BY <2>1, <2>2, <3>1, <3>2 DEF IsRecorded
  <2> QED
    BY <2>1, <2>2, <2>3, <2>4
<1>8. ASSUME NEW m \in late, LateArrives(m)
      PROVE FlushMoves
  BY <1>8 DEF LateArrives
<1>9. ASSUME NEW t \in {Now, None}, SetStart(t)
      PROVE FlushMoves
  BY <1>9 DEF SetStart
<1>10. ASSUME NEW s \in Session, NEW k \in Kind, ClearRole(s, k)
      PROVE FlushMoves
  BY <1>10 DEF ClearRole
<1>11. ASSUME NEW c \in 1 .. pairings, Revoke(c)
      PROVE FlushMoves
  BY <1>11 DEF Revoke
<1>12. ASSUME NEW s \in Session, StopSession(s)
      PROVE FlushMoves
  BY <1>12 DEF StopSession
<1>13. ASSUME NEW k \in Kind, Capture(k)
      PROVE FlushMoves
  BY <1>13, CallFlushMoves DEF Capture
<1>14. ASSUME NEW e \in outbox, DeleteEntry(e)
      PROVE FlushMoves
  BY <1>14 DEF DeleteEntry
<1>15. ASSUME NEW k \in Kind, Acquire(k)
      PROVE FlushMoves
  BY <1>15, CallFlushMoves DEF Acquire
<1>16. CASE Ask
  BY <1>16 DEF Ask
<1>17. CASE Released
  BY <1>17 DEF Released
<1>18. CASE Left
  BY <1>18 DEF Left
<1>19. CASE Unanswered
  BY <1>19 DEF Unanswered
<1>20. CASE Pair
  BY <1>20 DEF Pair
<1>21. CASE Calibrate
  BY <1>21 DEF Calibrate
<1>22. CASE Reconnect
  BY <1>22, CallFlushMoves DEF Reconnect
<1>23. CASE StateEvent
  BY <1>23, CallFlushMoves DEF StateEvent
<1>24. CASE UnauthorizedEvent
  BY <1>24 DEF UnauthorizedEvent
<1>25. CASE Reload
  BY <1>25 DEF Reload
<1>26. CASE UNCHANGED vars
  BY <1>26 DEF vars
<1> QED
  BY <1>1, <1>2, <1>3, <1>4, <1>5, <1>6, <1>7, <1>8, <1>9, <1>10, <1>11,
     <1>12, <1>13, <1>14, <1>15, <1>16, <1>17, <1>18, <1>19, <1>20, <1>21,
     <1>22, <1>23, <1>24, <1>25, <1>26
     DEF Next, FlushNext, LaptopNext, PhoneNext

-----------------------------------------------------------------------------
(* The taps, action by action *)

(* Taps, deletions and superseded starts are never forgotten, a request    *)
(* turns late only while it is sent, and an entry leaves the outbox for a  *)
(* reason.                                                                 *)
Settled(e) == \/ IsRecorded(e)
              \/ KindOf(e) = "start" /\ e \in preempted

TapMoves ==
  /\ captured' = captured \/ \E k \in Kind : Capture(k)
  /\ discarded \subseteq discarded' /\ preempted \subseteq preempted'
  /\ \A m \in late' : m \in late \/ (flush.pc = "sent" /\ m = flush.msg)
  /\ \A e \in outbox \ outbox' : e \in discarded' \/ Settled(e)
  /\ captured' = captured => outbox' \subseteq outbox

(* Every step is a move of the taps.                                       *)
LEMMA TapCases ==
  ASSUME RowsOK, AnswerIsTrue, StartsSuperseded, [Next]_vars
  PROVE  TapMoves
<1> USE DEF TapMoves, taps, network
<1>1. CASE FlushCalibrate
  BY <1>1 DEF FlushCalibrate
<1>2. CASE FlushFails
  BY <1>2 DEF FlushFails
<1>3. CASE FlushTakesAck
  BY <1>3 DEF FlushTakesAck, Settle, AnswerIsTrue, Settled
<1>4. CASE FlushTakesRefusal
  BY <1>4 DEF FlushTakesRefusal, GiveUp
<1>5. CASE FlushTakesState
  BY <1>5 DEF FlushTakesState
<1>6. CASE FlushSettlesStart
  BY <1>6
     DEF FlushSettlesStart, Settle, GiveUp, AnswerIsTrue, Settled,
         StartsSuperseded
<1>7. CASE LaptopAnswers
  BY <1>7 DEF LaptopAnswers, Preempt
<1>8. ASSUME NEW m \in late, LateArrives(m)
      PROVE TapMoves
  BY <1>8 DEF LateArrives, Preempt
<1>9. ASSUME NEW t \in {Now, None}, SetStart(t)
      PROVE TapMoves
  BY <1>9 DEF SetStart, Preempt
<1>10. ASSUME NEW s \in Session, NEW k \in Kind, ClearRole(s, k)
      PROVE TapMoves
  BY <1>10 DEF ClearRole
<1>11. ASSUME NEW c \in 1 .. pairings, Revoke(c)
      PROVE TapMoves
  BY <1>11 DEF Revoke
<1>12. ASSUME NEW s \in Session, StopSession(s)
      PROVE TapMoves
  BY <1>12 DEF StopSession
<1>13. ASSUME NEW k \in Kind, Capture(k)
      PROVE TapMoves
  <2>1. Len(captured') = Len(captured) + 1 /\ Len(captured) \in Nat
    BY <1>13, CaptureTypes DEF RowsOK, StorageOK
  <2> QED
    BY <1>13, <2>1 DEF Capture
<1>14. ASSUME NEW e \in outbox, DeleteEntry(e)
      PROVE TapMoves
  BY <1>14 DEF DeleteEntry
<1>15. ASSUME NEW k \in Kind, Acquire(k)
      PROVE TapMoves
  BY <1>15 DEF Acquire
<1>16. CASE Ask
  BY <1>16 DEF Ask
<1>17. CASE Released
  BY <1>17 DEF Released
<1>18. CASE Left
  BY <1>18 DEF Left
<1>19. CASE Unanswered
  BY <1>19 DEF Unanswered
<1>20. CASE Pair
  BY <1>20 DEF Pair
<1>21. CASE Calibrate
  BY <1>21 DEF Calibrate
<1>22. CASE Reconnect
  BY <1>22 DEF Reconnect
<1>23. CASE StateEvent
  BY <1>23 DEF StateEvent
<1>24. CASE UnauthorizedEvent
  BY <1>24 DEF UnauthorizedEvent
<1>25. CASE Reload
  BY <1>25 DEF Reload
<1>26. CASE UNCHANGED vars
  BY <1>26 DEF vars
<1> QED
  BY <1>1, <1>2, <1>3, <1>4, <1>5, <1>6, <1>7, <1>8, <1>9, <1>10, <1>11,
     <1>12, <1>13, <1>14, <1>15, <1>16, <1>17, <1>18, <1>19, <1>20, <1>21,
     <1>22, <1>23, <1>24, <1>25, <1>26
     DEF Next, FlushNext, LaptopNext, PhoneNext

(* A start the laptop or the phone knows of supersedes the taps in line.   *)
LEMMA PreemptCovers ==
  ASSUME Preempt, StartsSuperseded, UNCHANGED <<captured, outbox, view>>
  PROVE  StartsSuperseded'
BY DEF Preempt, StartsSuperseded, KindOf

(* Every step keeps the starts in line covered.                            *)
LEMMA SupersededStep ==
  ASSUME RowsOK, StartsSuperseded, [Next]_vars
  PROVE  StartsSuperseded'
<1> USE DEF StartsSuperseded, KindOf, taps, stored, laptop
<1>0. ASSUME view' = view \/ view'.start = (start # None), start' = start,
             outbox' \subseteq outbox, UNCHANGED <<captured, preempted>>
      PROVE StartsSuperseded'
  BY <1>0
<1>1. CASE FlushCalibrate
  BY <1>1 DEF FlushCalibrate
<1>2. CASE FlushFails
  BY <1>2 DEF FlushFails
<1>3. CASE FlushTakesAck
  BY <1>3, <1>0 DEF FlushTakesAck, Settle
<1>4. CASE FlushTakesRefusal
  BY <1>4 DEF FlushTakesRefusal, GiveUp
<1>5. CASE FlushTakesState
  BY <1>5, <1>0
     DEF FlushTakesState, LoadState, StateArrives, Unauthorized, Fresh
<1>6. CASE FlushSettlesStart
  BY <1>6, <1>0 DEF FlushSettlesStart, Settle, GiveUp
<1>7. CASE LaptopAnswers
  BY <1>7, PreemptCovers DEF LaptopAnswers
<1>8. ASSUME NEW m \in late, LateArrives(m)
      PROVE StartsSuperseded'
  BY <1>8, PreemptCovers DEF LateArrives
<1>9. ASSUME NEW t \in {Now, None}, SetStart(t)
      PROVE StartsSuperseded'
  BY <1>9, PreemptCovers DEF SetStart
<1>10. ASSUME NEW s \in Session, NEW k \in Kind, ClearRole(s, k)
      PROVE StartsSuperseded'
  BY <1>10 DEF ClearRole
<1>11. ASSUME NEW c \in 1 .. pairings, Revoke(c)
      PROVE StartsSuperseded'
  BY <1>11 DEF Revoke
<1>12. ASSUME NEW s \in Session, StopSession(s)
      PROVE StartsSuperseded'
  BY <1>12 DEF StopSession
<1>13. ASSUME NEW k \in Kind, Capture(k)
      PROVE StartsSuperseded'
  <2>1. outbox \subseteq DOMAIN captured
    BY DEF RowsOK, StorageOK
  <2>2. /\ \A e \in DOMAIN captured : captured'[e] = captured[e]
        /\ captured'[Len(captured) + 1].kind = k
    BY <1>13, CaptureTypes
  <2> QED
    BY <1>13, <2>1, <2>2 DEF Capture
<1>14. ASSUME NEW e \in outbox, DeleteEntry(e)
      PROVE StartsSuperseded'
  BY <1>14 DEF DeleteEntry
<1>15. ASSUME NEW k \in Kind, Acquire(k)
      PROVE StartsSuperseded'
  BY <1>15 DEF Acquire
<1>16. CASE Ask
  BY <1>16 DEF Ask
<1>17. CASE Released
  BY <1>17 DEF Released
<1>18. CASE Left
  BY <1>18 DEF Left
<1>19. CASE Unanswered
  BY <1>19 DEF Unanswered
<1>20. CASE Pair
  BY <1>20, <1>0 DEF Pair, Fresh
<1>21. CASE Calibrate
  BY <1>21 DEF Calibrate
<1>22. CASE Reconnect
  BY <1>22, <1>0 DEF Reconnect, LoadState, StateArrives, Unauthorized, Fresh
<1>23. CASE StateEvent
  BY <1>23, <1>0 DEF StateEvent, StateArrives, Fresh
<1>24. CASE UnauthorizedEvent
  BY <1>24, <1>0 DEF UnauthorizedEvent, Unauthorized
<1>25. CASE Reload
  BY <1>25 DEF Reload
<1>26. CASE UNCHANGED vars
  BY <1>26 DEF vars
<1> QED
  BY <1>1, <1>2, <1>3, <1>4, <1>5, <1>6, <1>7, <1>8, <1>9, <1>10, <1>11,
     <1>12, <1>13, <1>14, <1>15, <1>16, <1>17, <1>18, <1>19, <1>20, <1>21,
     <1>22, <1>23, <1>24, <1>25, <1>26
     DEF Next, FlushNext, LaptopNext, PhoneNext

-----------------------------------------------------------------------------
(* What only grows *)

Grows ==
  /\ DOMAIN captured \subseteq DOMAIN captured' /\ DOMAIN captured' \subseteq Nat
  /\ \A e \in DOMAIN captured : captured'[e] = captured[e]
  /\ \A e \in DOMAIN captured' \ DOMAIN captured, f \in DOMAIN captured : f < e
  /\ Logged \subseteq Logged'
  /\ discarded \subseteq discarded' /\ preempted \subseteq preempted'

(* Captures, records, deletions and superseded starts only grow.           *)
LEMMA GrowsStep ==
  ASSUME RowsOK, RowsOK', TapMoves, LogMoves
  PROVE  Grows
<1>1. Logged \subseteq Logged'
  <2>1. CASE log' = log
    BY <2>1 DEF Logged
  <2>2. ASSUME NEW m \in Message, log' = Append(log, m)
        PROVE Logged \subseteq Logged'
    <3>1. /\ DOMAIN log' = DOMAIN log \cup {Len(log) + 1}
          /\ \A i \in DOMAIN log : log'[i] = log[i]
      BY <2>2, AppendedLog
    <3> QED
      BY <3>1 DEF Logged
  <2> QED
    BY <2>1, <2>2 DEF LogMoves
<1>2. DOMAIN captured = 1 .. Len(captured) /\ Len(captured) \in Nat
  BY LenProperties DEF RowsOK, StorageOK
<1>3. CASE captured' = captured
  BY <1>1, <1>2, <1>3 DEF Grows, TapMoves
<1>4. ASSUME NEW k \in Kind, Capture(k) PROVE Grows
  <2>1. /\ DOMAIN captured' = DOMAIN captured \cup {Len(captured) + 1}
        /\ \A e \in DOMAIN captured : captured'[e] = captured[e]
    BY <1>4, CaptureTypes
  <2> QED
    BY <1>1, <1>2, <2>1 DEF Grows, TapMoves
<1> QED
  BY <1>3, <1>4 DEF TapMoves

(* What is clear stays clear: a later tap is never in front.               *)
LEMMA ClearStays ==
  ASSUME Grows, NEW f \in DOMAIN captured, Clear(f)
  PROVE  f \in DOMAIN captured' /\ Clear(f)'
<1>1. f \in DOMAIN captured' /\ f \in Nat
  BY DEF Grows
<1>2. ASSUME NEW e \in DOMAIN captured', e < f, Alike(e, f)'
      PROVE Done(e)'
  <2>1. e \in DOMAIN captured
    <3>1. e \in DOMAIN captured \/ f < e
      BY DEF Grows
    <3> QED
      BY <1>1, <1>2, <3>1 DEF Grows
  <2>2. Alike(e, f)
    BY <1>2, <2>1 DEF Alike, KindOf, Grows
  <2>3. Done(e)
    BY <1>2, <2>1, <2>2 DEF Clear
  <2> QED
    BY <2>3 DEF Done, IsRecorded, Logged, Grows
<1> QED
  BY <1>1, <1>2 DEF Clear

-----------------------------------------------------------------------------
(* The invariant, part by part *)

(* An entry is in the outbox, or settled, or deleted (see NothingLost).    *)
LEMMA NothingLostStep ==
  ASSUME RowsOK, RowsOK', NothingLost, TapMoves, Grows
  PROVE  NothingLost'
<1> SUFFICES ASSUME NEW e \in DOMAIN captured'
             PROVE  \/ e \in outbox' \/ IsRecorded(e)' \/ e \in discarded'
                    \/ KindOf(e)' = "start" /\ e \in preempted'
  BY DEF NothingLost
<1>1. CASE e \in DOMAIN captured
  <2>1. \/ e \in outbox \/ IsRecorded(e) \/ e \in discarded
        \/ KindOf(e) = "start" /\ e \in preempted
    BY <1>1 DEF NothingLost
  <2>2. IsRecorded(e) => IsRecorded(e)'
    BY DEF IsRecorded, Logged, Grows
  <2>3. KindOf(e)' = KindOf(e)
    BY <1>1 DEF KindOf, Grows
  <2>4. e \in outbox \ outbox' => e \in discarded' \/ Settled(e)
    BY DEF TapMoves
  <2> QED
    BY <2>1, <2>2, <2>3, <2>4 DEF Settled, Grows
<1>2. CASE e \notin DOMAIN captured
  <2>1. PICK k \in Kind : Capture(k)
    BY <1>2 DEF TapMoves
  <2>2. e = Len(captured) + 1
    BY <1>2, <2>1, CaptureTypes
  <2> QED
    BY <2>1, <2>2 DEF Capture
<1> QED
  BY <1>1, <1>2

(* A request is recorded only if it is not on record (see RecordedOnce).   *)
LEMMA RecordedOnceStep ==
  ASSUME RowsOK, RecordedOnce, LogMoves
  PROVE  RecordedOnce'
<1>1. CASE log' = log
  BY <1>1 DEF RecordedOnce
<1>2. ASSUME NEW m \in Message, ~IsRecorded(m.entry), log' = Append(log, m)
      PROVE RecordedOnce'
  <2>1. /\ DOMAIN log' = DOMAIN log \cup {Len(log) + 1}
        /\ log'[Len(log) + 1] = m
        /\ \A i \in DOMAIN log : log'[i] = log[i]
    BY <1>2, AppendedLog
  <2>2. \A i \in DOMAIN log : log[i].entry # m.entry
    BY <1>2 DEF IsRecorded
  <2> QED
    BY <2>1, <2>2 DEF RecordedOnce
<1> QED
  BY <1>1, <1>2 DEF LogMoves

(* An entry is posted when nothing of its kind is left in front of it.     *)
LEMMA PostIsClear ==
  ASSUME RowsOK', NEW todo \in SUBSET DOMAIN captured', todo # {},
         NEW post \in Calibration, Post(todo, post),
         \A f \in todo, e \in DOMAIN captured' :
           e < f /\ Alike(e, f)' => e \in todo \/ Done(e)'
  PROVE  FlushOK' /\ TodoInOrder' /\ MessageInOrder' /\ AnswerIsTrue'
<1>1. /\ flush' \in FlushState
      /\ flush'.todo = todo /\ flush'.pc = "sent" /\ flush'.reply = None
      /\ flush'.msg \in Message
      /\ flush'.msg.entry = First(todo)
      /\ First(todo) \in todo /\ \A o \in todo : First(todo) <= o
  BY PostSendsFirst DEF RowsOK
<1>2. DOMAIN captured' \subseteq Nat
  BY DEF RowsOK, StorageOK
<1>3. Clear(First(todo))'
  <2> SUFFICES ASSUME NEW e \in DOMAIN captured', e < First(todo),
                      Alike(e, First(todo))'
               PROVE  Done(e)'
    BY DEF Clear
  <2>1. e \notin todo
    BY <1>1, <1>2
  <2> QED
    BY <1>1, <2>1
<1>4. MessageInOrder'
  BY <1>1, <1>3 DEF MessageInOrder
<1> QED
  BY <1>1, <1>4 DEF FlushOK, TodoInOrder, AnswerIsTrue

(* With nothing to send and nothing sent, there is nothing to keep.        *)
LEMMA QuietIsClear ==
  ASSUME flush' = Idle \/ flush' = [Idle EXCEPT !.pc = "final"]
  PROVE  FlushOK' /\ TodoInOrder' /\ MessageInOrder' /\ AnswerIsTrue'
BY IdleShape
   DEF FlushOK, TodoInOrder, MessageInOrder, AnswerIsTrue, InFlight

(* The entries a flush reads leave no gap behind them: what is not in the  *)
(* outbox is settled.                                                      *)
LEMMA ReadsIsClear ==
  ASSUME RowsOK', NothingLost', Reads(Syncable', cal')
  PROVE  FlushOK' /\ TodoInOrder' /\ MessageInOrder' /\ AnswerIsTrue'
<1>1. Syncable' \in SUBSET DOMAIN captured'
  BY DEF Syncable, RowsOK, StorageOK
<1>2. \A f \in Syncable', e \in DOMAIN captured' :
        e < f /\ Alike(e, f)' => e \in Syncable' \/ Done(e)'
  BY DEF Syncable, NothingLost, Alike, Done, KindOf
<1>3. CASE /\ Syncable' # {}
           /\ flush' = [Idle EXCEPT !.pc = "clock", !.todo = Syncable']
  <2>1. /\ flush' \in FlushState /\ flush'.todo = Syncable'
        /\ flush'.pc = "clock"
    <3>1. Syncable' \in SUBSET Entry
      <4>1. DOMAIN captured' \subseteq Entry
        BY OutboxAssumption DEF RowsOK, StorageOK, Entry
      <4> QED
        BY <1>1, <4>1
    <3>2. flush' = [pc |-> "clock", todo |-> Syncable', post |-> 0,
                    msg |-> None, reply |-> None]
      BY <1>3 DEF Idle
    <3>3. 0 \in Calibration
      BY OutboxAssumption DEF Calibration
    <3> QED
      BY <3>1, <3>2, <3>3 DEF FlushState
  <2> QED
    BY <1>1, <1>2, <1>3, <2>1
       DEF FlushOK, TodoInOrder, MessageInOrder, AnswerIsTrue, InFlight
<1>4. CASE Syncable' # {} /\ cal' \in Calibration /\ Post(Syncable', cal')
  BY <1>1, <1>2, <1>4, PostIsClear
<1> QED
  BY <1>3, <1>4, QuietIsClear DEF Reads

(* Every step of a flush keeps its order.                                  *)
LEMMA FlushStep ==
  ASSUME RowsOK, RowsOK', FlushOK, TodoInOrder, MessageInOrder, AnswerIsTrue,
         NothingLost', Grows, TapMoves, FlushMoves
  PROVE  FlushOK' /\ TodoInOrder' /\ MessageInOrder' /\ AnswerIsTrue'
<1> DEFINE Goal == FlushOK' /\ TodoInOrder' /\ MessageInOrder' /\ AnswerIsTrue'
<1>1. ASSUME NEW f \in DOMAIN captured, NEW e \in DOMAIN captured',
             e < f, Alike(e, f)'
      PROVE  e \in DOMAIN captured /\ Alike(e, f) /\ (Done(e) => Done(e)')
  <2>1. e \in Nat /\ f \in Nat
    BY DEF Grows
  <2>2. e \in DOMAIN captured
    BY <1>1, <2>1 DEF Grows
  <2>3. Alike(e, f)
    BY <1>1, <2>2 DEF Alike, KindOf, Grows
  <2> QED
    BY <2>2, <2>3 DEF Done, IsRecorded, Logged, Grows
(* The same entries are left to send.                                      *)
<1>2. flush'.todo = flush.todo =>
        flush'.todo \subseteq DOMAIN captured' /\ TodoInOrder'
  <2> SUFFICES ASSUME flush'.todo = flush.todo
               PROVE  flush'.todo \subseteq DOMAIN captured' /\ TodoInOrder'
    OBVIOUS
  <2>1. flush.todo \subseteq DOMAIN captured
    BY DEF FlushOK
  <2>2. ASSUME NEW f \in flush.todo, NEW e \in DOMAIN captured',
               e < f, Alike(e, f)'
        PROVE  e \in flush.todo \/ Done(e)'
    BY <1>1, <2>1, <2>2 DEF TodoInOrder
  <2> QED
    BY <2>1, <2>2 DEF TodoInOrder, Grows
(* The same request is in flight.                                          *)
<1>3. flush'.msg = flush.msg /\ flush.pc \in InFlight =>
        /\ MessageInOrder'
        /\ IsRecorded(flush.msg.entry) => IsRecorded(flush.msg.entry)'
        /\ (KindOf(flush.msg.entry) = "start") => (KindOf(flush.msg.entry) = "start")'
  <2> SUFFICES ASSUME flush'.msg = flush.msg, flush.pc \in InFlight
               PROVE  /\ MessageInOrder'
                      /\ IsRecorded(flush.msg.entry) => IsRecorded(flush.msg.entry)'
                      /\ (KindOf(flush.msg.entry) = "start")
                           => (KindOf(flush.msg.entry) = "start")'
    OBVIOUS
  <2>1. /\ flush.msg \in Message /\ flush.msg.entry \in DOMAIN captured
        /\ Clear(flush.msg.entry)
    BY DEF MessageInOrder
  <2>2. \A f \in DOMAIN captured : Clear(f) => f \in DOMAIN captured' /\ Clear(f)'
    BY ClearStays
  <2>3. MessageInOrder'
    BY <2>1, <2>2 DEF MessageInOrder
  <2> QED
    BY <2>1, <2>3 DEF IsRecorded, Logged, KindOf, Grows
<1>4. CASE flush' = flush
  BY <1>2, <1>3, <1>4
     DEF FlushOK, MessageInOrder, AnswerIsTrue, InFlight
<1>5. CASE flush' = Idle
  BY <1>5, QuietIsClear
<1>6. CASE Reads(Syncable', cal')
  BY <1>6, ReadsIsClear
<1>7. CASE flush.pc = "clock" /\ Kept /\ flush.todo # {} /\ Post(flush.todo, cal')
  <2>1. flush.todo \in SUBSET DOMAIN captured' /\ cal' \in Calibration
    BY <1>7 DEF Kept, FlushOK, RowsOK, StorageOK
  <2>2. \A f \in flush.todo, e \in DOMAIN captured' :
          e < f /\ Alike(e, f)' => e \in flush.todo \/ Done(e)'
    BY <1>1, <2>1 DEF TodoInOrder, FlushOK
  <2> QED
    BY <1>7, <2>1, <2>2, PostIsClear
<1>8. CASE /\ flush.pc = "sent"
           /\ flush' \in {[flush EXCEPT !.pc = "answered", !.reply = answer] :
                           answer \in {"ack", "role", "conflict"}}
           /\ flush'.reply = "ack" => IsRecorded(flush.msg.entry)'
  <2>1. /\ flush' \in FlushState /\ flush'.pc = "answered"
        /\ flush'.todo = flush.todo /\ flush'.msg = flush.msg
    BY <1>8 DEF FlushOK, FlushState
  <2> QED
    BY <1>2, <1>3, <1>8, <2>1
       DEF FlushOK, MessageInOrder, AnswerIsTrue, InFlight
<1>9. CASE /\ flush.pc = "answered" /\ KindOf(flush.msg.entry) = "start"
           /\ flush' = [flush EXCEPT !.pc = "state"]
  <2>1. /\ flush' \in FlushState /\ flush'.pc = "state"
        /\ flush'.todo = flush.todo /\ flush'.msg = flush.msg
    BY <1>9 DEF FlushOK, FlushState
  <2> QED
    BY <1>2, <1>3, <1>9, <2>1
       DEF FlushOK, MessageInOrder, AnswerIsTrue, InFlight
<1>10. CASE flush.pc = "state" /\ flush' = [flush EXCEPT !.pc = "stated"]
  <2>1. /\ flush' \in FlushState /\ flush'.pc = "stated"
        /\ flush'.todo = flush.todo /\ flush'.msg = flush.msg
    BY <1>10 DEF FlushOK, FlushState
  <2> QED
    BY <1>2, <1>3, <1>10, <2>1
       DEF FlushOK, MessageInOrder, AnswerIsTrue, InFlight
(* The entry that was settled is no longer waited for by those behind it.  *)
<1>11. CASE /\ flush.pc \in {"answered", "stated"}
            /\ IsRecorded(flush.msg.entry) \/ KindOf(flush.msg.entry) = "start"
            /\ Advance(flush.todo \ {flush.msg.entry})
  <2> DEFINE done == flush.msg.entry
             left == flush.todo \ {done}
  <2>1. left \in SUBSET DOMAIN captured' /\ flush.post \in Calibration
    BY DEF FlushOK, FlushState, Grows
  <2>2. \A f \in left, e \in DOMAIN captured' :
          e < f /\ Alike(e, f)' => e \in left \/ Done(e)'
    <3> SUFFICES ASSUME NEW f \in left, NEW e \in DOMAIN captured',
                        e < f, Alike(e, f)'
                 PROVE  e \in left \/ Done(e)'
      OBVIOUS
    <3>1. f \in flush.todo /\ f \in DOMAIN captured
      BY DEF FlushOK
    <3>2. Alike(e, f) /\ e \in DOMAIN captured /\ (Done(e) => Done(e)')
      BY <1>1, <3>1
    <3>3. e \in flush.todo \/ Done(e)
      BY <3>1, <3>2 DEF TodoInOrder
    <3>4. e = done => Done(e)
      BY <1>11, <3>2 DEF Alike, KindOf, Done
    <3> QED
      BY <3>2, <3>3, <3>4
  <2>3. CASE left # {}
    <3>1. Post(left, flush.post)
      BY <1>11, <2>3 DEF Advance
    <3> QED
      BY <2>1, <2>2, <2>3, <3>1, PostIsClear
  <2>4. CASE left = {}
    BY <1>11, <2>4, QuietIsClear DEF Advance
  <2> QED
    BY <2>3, <2>4
<1> QED
  BY <1>4, <1>5, <1>6, <1>7, <1>8, <1>9, <1>10, <1>11 DEF FlushMoves

(* Requests on their way are as clear as when they were sent.              *)
LEMMA LateStep ==
  ASSUME RowsOK, LateInOrder, MessageInOrder, Grows, TapMoves
  PROVE  LateInOrder'
<1> SUFFICES ASSUME NEW m \in late'
             PROVE  m \in Message /\ m.entry \in DOMAIN captured' /\ Clear(m.entry)'
  BY DEF LateInOrder
<1>1. m \in Message /\ m.entry \in DOMAIN captured /\ Clear(m.entry)
  BY DEF TapMoves, LateInOrder, MessageInOrder, InFlight
<1> QED
  BY <1>1, ClearStays

(* Two rows of the log are in the order of their taps.                     *)
Ordered(i, j) ==
  LET e == log[i].entry  f == log[j].entry
  IN  /\ i < j /\ KindOf(e) = KindOf(f) /\ KindOf(e) # "start"
      /\ captured[e].session = captured[f].session
      /\ f \notin discarded
      => e < f

(* What the laptop records is as clear as the request was, so an entry     *)
(* still missing from the log is not in front of one that is on it.        *)
LEMMA LogStep ==
  ASSUME RowsOK, LogInOrder, LateInOrder, MessageInOrder, RecordedOnce,
         ReplayInOrder, Grows, LogMoves
  PROVE  LogInOrder' /\ ReplayInOrder'
<1>1. \A f \in DOMAIN captured : Clear(f) => f \in DOMAIN captured' /\ Clear(f)'
  BY ClearStays
<1>2. ASSUME NEW e \in DOMAIN captured, NEW f \in DOMAIN captured
      PROVE  /\ captured'[e] = captured[e] /\ captured'[f] = captured[f]
             /\ KindOf(e)' = KindOf(e) /\ KindOf(f)' = KindOf(f)
             /\ e \in Nat /\ f \in Nat
             /\ f \notin discarded' => f \notin discarded
  BY DEF Grows, KindOf
<1>3. CASE log' = log
  <2>1. LogInOrder'
    BY <1>1, <1>3 DEF LogInOrder
  <2>2. ReplayInOrder'
    BY <1>2, <1>3 DEF ReplayInOrder, LogInOrder
  <2> QED
    BY <2>1, <2>2
<1>4. ASSUME NEW m \in Message, ~IsRecorded(m.entry), log' = Append(log, m),
             (flush.pc = "sent" /\ m = flush.msg) \/ m \in late
      PROVE  LogInOrder' /\ ReplayInOrder'
  <2>1. /\ DOMAIN log' = DOMAIN log \cup {Len(log) + 1}
        /\ log'[Len(log) + 1] = m
        /\ \A i \in DOMAIN log : i <= Len(log) /\ log'[i] = log[i]
        /\ DOMAIN log \subseteq Nat /\ Len(log) \in Nat
    BY <1>4, AppendedLog
  <2>2. m.entry \in DOMAIN captured /\ Clear(m.entry)
    BY <1>4 DEF MessageInOrder, LateInOrder, InFlight
  <2>3. LogInOrder'
    BY <1>1, <2>1, <2>2 DEF LogInOrder
  <2>4. ASSUME NEW i \in DOMAIN log', NEW j \in DOMAIN log', i < j
        PROVE  Ordered(i, j)'
    <3>1. i \in DOMAIN log
      BY <2>1, <2>4
    <3>2. log'[i] = log[i] /\ log[i].entry \in DOMAIN captured /\ Clear(log[i].entry)
      BY <2>1, <3>1 DEF LogInOrder
    <3>3. CASE j \in DOMAIN log
      <4>1. log'[j] = log[j] /\ log[j].entry \in DOMAIN captured
        BY <2>1, <3>3 DEF LogInOrder
      <4> QED
        <5>1. Ordered(i, j)
          BY <3>1, <3>3 DEF ReplayInOrder, Ordered
        <5>2. /\ KindOf(log[i].entry)' = KindOf(log[i].entry)
              /\ KindOf(log[j].entry)' = KindOf(log[j].entry)
              /\ captured'[log[i].entry] = captured[log[i].entry]
              /\ captured'[log[j].entry] = captured[log[j].entry]
          BY <1>2, <3>2, <4>1 DEF KindOf
        <5> QED
          BY <2>4, <3>2, <4>1, <5>1, <5>2 DEF Ordered, Grows
    <3>4. CASE j \notin DOMAIN log
      <4>1. log'[j] = m
        BY <2>1, <3>4
      <4>2. log[i].entry # m.entry
        BY <1>4, <3>1 DEF IsRecorded
      <4>3. ASSUME m.entry < log[i].entry, Alike(m.entry, log[i].entry)
            PROVE  m.entry \in discarded
        BY <1>4, <2>2, <3>2, <4>3 DEF Clear, Done
      <4> QED
        <5>1. /\ captured'[log[i].entry] = captured[log[i].entry]
              /\ captured'[m.entry] = captured[m.entry]
              /\ log[i].entry \in Nat /\ m.entry \in Nat
              /\ m.entry \in discarded => m.entry \in discarded'
          BY <1>2, <2>2, <3>2 DEF Grows
        <5>2. log[i].entry < m.entry \/ m.entry < log[i].entry
          BY <4>2, <5>1
        <5> QED
          BY <3>2, <4>1, <4>3, <5>1, <5>2 DEF Ordered, Alike, KindOf
    <3> QED
      BY <3>3, <3>4
  <2>5. ReplayInOrder'
    BY <2>4 DEF ReplayInOrder, Ordered
  <2> QED
    BY <2>3, <2>5
<1> QED
  BY <1>3, <1>4 DEF LogMoves

-----------------------------------------------------------------------------
(* The theorems *)

(* Nothing is tapped, sent or recorded at first.                           *)
LEMMA InitOutbox == Init => OutboxInv
<1> SUFFICES ASSUME Init PROVE OutboxInv
  OBVIOUS
<1> USE OutboxAssumption DEF Init
<1>1. RowsOK
  <2>1. StorageOK
    BY EmptySeq DEF StorageOK, Calibration
  <2>2. lease \in [Session -> [Kind -> (1 .. pairings) \cup {None}]]
    BY Zenon
  <2>3. log \in Seq(Message) /\ late \subseteq Message /\ refused \subseteq Pairing
    BY EmptySeq
  <2>4. calibrations \in Calibration /\ cal \in 0 .. calibrations
        /\ pairings \in 0 .. MaxPairings
    BY DEF Calibration
  <2>5. view \in [session : Session \cup {None}, start : BOOLEAN]
    OBVIOUS
  <2> QED
    BY <2>1, <2>2, <2>3, <2>4, <2>5 DEF RowsOK
<1>2. FlushOK /\ TodoInOrder /\ MessageInOrder /\ AnswerIsTrue
  BY IdleShape DEF FlushOK, TodoInOrder, MessageInOrder, AnswerIsTrue, InFlight
<1>3. RecordedOnce /\ NothingLost /\ ReplayInOrder /\ LogInOrder
  BY DEF RecordedOnce, NothingLost, ReplayInOrder, LogInOrder
<1>4. LateInOrder /\ StartsSuperseded
  BY DEF LateInOrder, StartsSuperseded
<1> QED
  BY <1>1, <1>2, <1>3, <1>4, TypeParts DEF OutboxInv

(* Every step keeps the whole invariant.                                   *)
LEMMA StepOutbox == OutboxInv /\ [Next]_vars => OutboxInv'
<1> SUFFICES ASSUME OutboxInv, [Next]_vars PROVE OutboxInv'
  OBVIOUS
<1>1. /\ RowsOK /\ FlushOK
      /\ RecordedOnce /\ NothingLost /\ ReplayInOrder
      /\ TodoInOrder /\ MessageInOrder /\ AnswerIsTrue
      /\ LateInOrder /\ LogInOrder /\ StartsSuperseded
  BY TypeParts DEF OutboxInv
<1>2. RowsOK'
  BY <1>1, RowsStep
<1>3. TapMoves /\ LogMoves /\ FlushMoves
  BY <1>1, <1>2, TapCases, LogCases, FlushCases
<1>4. Grows
  BY <1>1, <1>2, <1>3, GrowsStep
<1>5. RecordedOnce' /\ NothingLost' /\ StartsSuperseded'
  BY <1>1, <1>2, <1>3, <1>4, RecordedOnceStep, NothingLostStep, SupersededStep
<1>6. FlushOK' /\ TodoInOrder' /\ MessageInOrder' /\ AnswerIsTrue'
  BY <1>1, <1>2, <1>3, <1>4, <1>5, FlushStep
<1>7. LateInOrder' /\ LogInOrder' /\ ReplayInOrder'
  BY <1>1, <1>3, <1>4, LateStep, LogStep
<1>8. TypeOK'
  <2>1. RowsOK' /\ FlushOK' => TypeOK'
    BY TypeParts, PTL
  <2> QED
    BY <1>2, <1>6, <2>1
<1> QED
  BY <1>5, <1>6, <1>7, <1>8 DEF OutboxInv

(* The invariant holds in every state of the specification.                *)
THEOREM OutboxSafety == Spec => []OutboxInv
BY InitOutbox, StepOutbox, PTL DEF Spec

(* Every storage, message and row keeps its shape (see TypeOK).            *)
THEOREM OutboxTypeOK == Spec => []TypeOK
<1>1. OutboxInv => TypeOK
  BY DEF OutboxInv
<1> QED
  BY <1>1, OutboxSafety, PTL

(* No number of retries, late requests and reloads makes two records of an *)
(* entry (see RecordedOnce).                                               *)
THEOREM NoDoubleRecord == Spec => []RecordedOnce
<1>1. OutboxInv => RecordedOnce
  BY DEF OutboxInv
<1> QED
  BY <1>1, OutboxSafety, PTL

(* A tap leaves the phone recorded, deleted or superseded (see             *)
(* NothingLost).                                                           *)
THEOREM NoTapLost == Spec => []NothingLost
<1>1. OutboxInv => NothingLost
  BY DEF OutboxInv
<1> QED
  BY <1>1, OutboxSafety, PTL

(* The record of a role is in the order of its taps (see ReplayInOrder).   *)
THEOREM RecordedInOrder == Spec => []ReplayInOrder
<1>1. OutboxInv => ReplayInOrder
  BY DEF OutboxInv
<1> QED
  BY <1>1, OutboxSafety, PTL
=============================================================================
