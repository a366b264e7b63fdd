----------------------------- MODULE PhoneOutbox -----------------------------
(***************************************************************************)
(* One phone between a tap and the laptop's acknowledgement: the outbox,   *)
(* the flush that replays it and the two storages that survive a reload    *)
(* (frontend/src/components/CompanionApp.tsx), with as much of the laptop  *)
(* as decides what a replayed entry meets (services/companion_service.go). *)
(*                                                                         *)
(* The phone's code runs to its next await on the network, so an action    *)
(* ends where the code awaits a response: anything may come before that    *)
(* response does.  A read or write of IndexedDB completes at once, and the *)
(* state in a response is the laptop's when the phone takes it.            *)
(*                                                                         *)
(* A request given up after four seconds may still reach the laptop.       *)
(* A response 401, 503 or none at all means the same to a flush.           *)
(***************************************************************************)
EXTENDS Integers, Sequences, FiniteSets

CONSTANTS
  Kind,            (* the roles the phone is used in                       *)
  Session,         (* companion sessions of one race                       *)
  MaxPairings,     (* bound on the times the phone pairs                   *)
  SessionOf,       (* the session the phone joins when it pairs            *)
  MaxCaptures,     (* bound on the taps                                    *)
  MaxCalibrations, (* bound on clock calibrations                          *)
  None

Entry == 1 .. MaxCaptures
Pairing == 1 .. MaxPairings
Calibration == 0 .. MaxCalibrations  (* 0: the phone has none              *)

ASSUME OutboxAssumption ==
  /\ Kind \subseteq {"start", "timer", "bib"}
  /\ MaxPairings \in Nat /\ SessionOf \in [Pairing -> Session]
  /\ MaxCaptures \in Nat /\ MaxCalibrations \in Nat
  /\ None \notin Pairing \cup Session

(* A POST of one entry.  "at" stands for captured_at_unix_ms: the capture  *)
(* as corrected by that calibration.  "by" is the device of the cookie.    *)
Message == [entry : Entry, at : Calibration, by : Pairing \cup {None}]

VARIABLES
  captured,     (* the taps in order: kind, session, calibration (history) *)
  outbox,       (* IndexedDB: the entries not acknowledged                 *)
  discarded,    (* the entries the operator deleted (history)              *)
  calibrations, (* calibrations made                                       *)
  cal,          (* calRef, companion-calibration                           *)
  role,         (* ROLE_KEY                                                *)
  paired,       (* PAIRED_KEY, pairedRef                                   *)
  view,         (* STATE_KEY, stateRef: the session and whether it started *)
  startPending, (* startCapturePending                                     *)
  pairings, cookie, (* devices this phone was, and the one it is           *)
  asking,       (* a release of that role, or "leave", awaits the laptop   *)
  flush,        (* flushing, and the local variables of flush              *)
  again,        (* flushRequested                                          *)
  late,         (* requests given up that may still reach the laptop       *)
  lease,        (* companion_role_leases                                   *)
  refused,      (* devices whose cookie is not accepted any more           *)
  start,        (* races.start_time                                        *)
  log,          (* companion_requests, in the order they were accepted     *)
  preempted     (* starts queued while the race had a start (history)      *)

taps == <<captured, outbox, discarded, preempted>>
stored == <<cal, role, paired, view>>
laptop == <<lease, refused, start, log>>
network == <<pairings, cookie, late>>
vars == <<taps, calibrations, stored, startPending, network, asking, flush,
          again, laptop>>

-----------------------------------------------------------------------------
KindOf(e) == captured[e].kind
Queued(s, k) == {e \in outbox : captured[e].session = s /\ KindOf(e) = k}
QueuedIn(s) == {e \in outbox : captured[e].session = s}
(* Each definition named ...Slip is a slip in the definition after it,     *)
(* which the property the manifest pairs it with must notice.              *)
FirstSlip(todo) == CHOOSE e \in todo : \A o \in todo : e >= o
First(todo) == CHOOSE e \in todo : \A o \in todo : e <= o

(* Taps are at even times; the laptop's own start is between two of them.  *)
At(e) == 2 * e
Now == 2 * Len(captured) + 1

Accepted(c) == c # None /\ c \notin refused
Fresh(c) == [session |-> SessionOf[c], start |-> start # None]

(* correctCapture: an entry captured before the calibration in use moves.  *)
Corrected(own, post) == IF post > own THEN post ELSE own

Idle == [pc |-> "idle", todo |-> {}, post |-> 0, msg |-> None, reply |-> None]

(* The entries of todo are posted one by one in the order of their taps.   *)
Post(todo, post) ==
  LET e == First(todo)
  IN  flush' = [pc |-> "sent", todo |-> todo, post |-> post, reply |-> None,
                msg |-> [entry |-> e, at |-> Corrected(captured'[e].cal, post),
                         by |-> cookie']]

(* The queue, the role and the calibration are read once, before anything  *)
(* is sent.  A calibration over a minute old is renewed first.             *)
BeginFlush ==
  LET syncable == {e \in outbox' : /\ captured'[e].session = view'.session
                                   /\ captured'[e].kind = role'}
  IN  \/ syncable = {} /\ flush' = Idle
      \/ syncable # {} /\ cal' # 0 /\ Post(syncable, cal')
      \/ /\ syncable # {} /\ (cal' = 0 \/ calibrations < MaxCalibrations)
         /\ flush' = [Idle EXCEPT !.pc = "clock", !.todo = syncable]

(* A caller's flush(), after what the caller did.                          *)
CallFlush ==
  IF ~paired' THEN UNCHANGED <<flush, again>>
  ELSE IF flush.pc # "idle" THEN again' = TRUE /\ UNCHANGED flush
  ELSE again' = FALSE /\ BeginFlush

EndFlushSlip == again' = FALSE /\ flush' = [flush EXCEPT !.pc = "left"]

(* The finally of flush: it runs again if it was called meanwhile.         *)
EndFlush ==
  /\ again' = FALSE
  /\ IF again /\ paired' THEN BeginFlush ELSE flush' = Idle

Advance(todo) ==
  IF todo # {} THEN Post(todo, flush.post)
               ELSE flush' = [Idle EXCEPT !.pc = "final"]

(* loadState, in a response, a failure or an event of the stream.  A 401   *)
(* also comes while the laptop changes the file it has open.               *)
StateArrives ==
  /\ Accepted(cookie)
  /\ view' = Fresh(cookie) /\ paired' = TRUE
  /\ UNCHANGED role

UnauthorizedSlip ==
  /\ view' = [session |-> None, start |-> FALSE] /\ role' = None
  /\ UNCHANGED paired

Unauthorized ==
  /\ paired' = FALSE /\ role' = None
  /\ UNCHANGED view

LoadState == StateArrives \/ Unauthorized \/ UNCHANGED <<view, paired, role>>

-----------------------------------------------------------------------------
Init ==
  /\ captured = <<>> /\ outbox = {} /\ discarded = {} /\ preempted = {}
  /\ calibrations = 0 /\ cal = 0
  /\ role = None /\ paired = FALSE /\ view = [session |-> None, start |-> FALSE]
  /\ startPending = FALSE
  /\ pairings = 0 /\ cookie = None /\ late = {}
  /\ asking = None
  /\ flush = Idle /\ again = FALSE
  /\ lease = [s \in Session |-> [k \in Kind |-> None]]
  /\ refused = {} /\ start = None /\ log = <<>>

-----------------------------------------------------------------------------
(* The flush, from one response to the next *)

FlushCalibrate ==
  /\ flush.pc = "clock"
  /\ Accepted(cookie) /\ calibrations < MaxCalibrations
  /\ calibrations' = calibrations + 1 /\ cal' = calibrations'
  /\ UNCHANGED <<taps, role, paired, view, startPending, network, asking,
                 again, laptop>>
  /\ Post(flush.todo, cal')

(* No response, 401 or 503: what was not acknowledged stays in the outbox. *)
FlushFails ==
  /\ flush.pc \in {"clock", "sent", "answered"}
  /\ late' \in IF flush.pc = "sent" THEN {late, late \cup {flush.msg}}
                                    ELSE {late}
  /\ UNCHANGED <<taps, calibrations, stored, startPending, pairings, cookie,
                 asking, laptop>>
  /\ EndFlush

(* The entry leaves the outbox, and with a start its role.                 *)
Settle(e) ==
  /\ outbox' = outbox \ {e}
  /\ IF KindOf(e) = "start" THEN startPending' = FALSE /\ role' = None
                            ELSE UNCHANGED <<startPending, role>>
  /\ UNCHANGED <<captured, discarded, preempted, calibrations, cal, paired,
                 view, network, asking, again, laptop>>
  /\ Advance(flush.todo \ {e})

FlushTakesAckSlip ==
  /\ flush.pc = "answered" /\ flush.reply \in {"ack", "conflict"}
  /\ Settle(flush.msg.entry)

FlushTakesAck ==
  /\ flush.pc = "answered" /\ flush.reply = "ack"
  /\ Settle(flush.msg.entry)

(* The entry stays; a role the laptop gave away is forgotten.              *)
GiveUp ==
  /\ role' = IF flush.reply = "role" THEN None ELSE role
  /\ UNCHANGED <<taps, calibrations, cal, paired, view, startPending, network,
                 asking, laptop>>
  /\ EndFlush

(* 409: before a start is given up the state is loaded.                    *)
FlushTakesRefusal ==
  /\ flush.pc = "answered" /\ flush.reply \in {"role", "conflict"}
  /\ \/ KindOf(flush.msg.entry) # "start" /\ GiveUp
     \/ /\ KindOf(flush.msg.entry) = "start"
        /\ flush' = [flush EXCEPT !.pc = "state"]
        /\ UNCHANGED <<taps, calibrations, stored, startPending, network,
                       asking, again, laptop>>

FlushTakesState ==
  /\ flush.pc \in {"state", "final"}
  /\ LoadState
  /\ UNCHANGED <<taps, calibrations, cal, startPending, network, asking,
                 laptop>>
  /\ \/ flush.pc = "final" /\ EndFlush
     \/ /\ flush.pc = "state"
        /\ flush' = [flush EXCEPT !.pc = "stated"] /\ UNCHANGED again

(* A refused start is dropped if the race has one by now.                  *)
FlushSettlesStart ==
  /\ flush.pc = "stated"
  /\ IF view.start THEN Settle(flush.msg.entry) ELSE GiveUp

-----------------------------------------------------------------------------
(* The laptop *)

KnownSlip(m) == \E i \in DOMAIN log : log[i] = m
Known(m) == \E i \in DOMAIN log : log[i].entry = m.entry
Duplicate(m) == \E i \in DOMAIN log : log[i] = m
MayWrite(m) == lease[SessionOf[m.by]][KindOf(m.entry)] = m.by

(* No capture precedes the official start.                                 *)
Timely(m) ==
  IF KindOf(m.entry) = "start"
  THEN /\ start \in {None, At(m.entry)}
       /\ start = None => \A i \in DOMAIN log : At(log[i].entry) >= At(m.entry)
  ELSE start # None => At(m.entry) >= start

(* submitLocked.  What it accepts it records; a request it knows is        *)
(* acknowledged again if nothing about it changed.                         *)
Record(m) ==
  /\ log' = Append(log, m)
  /\ IF KindOf(m.entry) = "start"
     THEN /\ start' = At(m.entry)
          /\ lease' = [lease EXCEPT ![SessionOf[m.by]]["start"] = None]
     ELSE UNCHANGED <<start, lease>>
  /\ UNCHANGED refused

Submit(m, answer) ==
  /\ Accepted(m.by)
  /\ \/ /\ Known(m)
        /\ answer = IF Duplicate(m) THEN "ack" ELSE "conflict"
        /\ UNCHANGED laptop
     \/ ~Known(m) /\ ~MayWrite(m) /\ answer = "role" /\ UNCHANGED laptop
     \/ /\ ~Known(m) /\ MayWrite(m) /\ ~Timely(m)
        /\ answer = "conflict" /\ UNCHANGED laptop
     \/ /\ ~Known(m) /\ MayWrite(m) /\ Timely(m)
        /\ answer = "ack" /\ Record(m)

(* The starts that wait in the outbox when the race gets one.              *)
Preempt == preempted' = IF start' = None THEN preempted
                        ELSE preempted \cup {e \in outbox : KindOf(e) = "start"}

LaptopAnswers ==
  /\ flush.pc = "sent"
  /\ \E answer \in {"ack", "role", "conflict"} :
       /\ Submit(flush.msg, answer)
       /\ flush' = [flush EXCEPT !.pc = "answered", !.reply = answer]
  /\ Preempt
  /\ UNCHANGED <<captured, outbox, discarded, calibrations, stored,
                 startPending, network, asking, again>>

LateArrives(m) ==
  /\ \E answer \in {"ack", "role", "conflict"} : Submit(m, answer)
  /\ late' = late \ {m}
  /\ Preempt
  /\ UNCHANGED <<captured, outbox, discarded, calibrations, stored,
                 startPending, pairings, cookie, asking, flush, again>>

(* The laptop's clock, roles and devices change without the phone.         *)
SetStart(t) ==
  /\ start' = t
  /\ Preempt
  /\ UNCHANGED <<captured, outbox, discarded, calibrations, stored,
                 startPending, network, asking, flush, again, lease, refused,
                 log>>

ClearRole(s, k) ==
  /\ lease[s][k] # None
  /\ lease' = [lease EXCEPT ![s][k] = None]
  /\ UNCHANGED <<taps, calibrations, stored, startPending, network, asking,
                 flush, again, refused, start, log>>

WithoutLeases(c) ==
  [s \in Session |-> [k \in Kind |-> IF lease[s][k] = c THEN None
                                     ELSE lease[s][k]]]

Revoke(c) ==
  /\ c \notin refused
  /\ refused' = refused \cup {c}
  /\ lease' = WithoutLeases(c)
  /\ UNCHANGED <<taps, calibrations, stored, startPending, network, asking,
                 flush, again, start, log>>

StopSession(s) ==
  /\ refused' = refused \cup {c \in Pairing : SessionOf[c] = s}
  /\ UNCHANGED <<taps, calibrations, stored, startPending, network, asking,
                 flush, again, lease, start, log>>

-----------------------------------------------------------------------------
(* The operator *)

Capture(k) ==
  /\ paired /\ role = k /\ cal # 0 /\ Len(captured) < MaxCaptures
  /\ k = "start" => ~view.start /\ ~startPending /\ Queued(view.session, k) = {}
  /\ LET e == Len(captured) + 1
     IN  /\ outbox' = outbox \cup {e}
         /\ preempted' = IF k = "start" /\ start # None
                         THEN preempted \cup {e} ELSE preempted
  /\ captured' = Append(captured,
       [kind |-> k, session |-> view.session, cal |-> cal])
  /\ startPending' = (startPending \/ k = "start")
  /\ UNCHANGED <<discarded, calibrations, stored, network, asking, laptop>>
  /\ CallFlush

(* Any entry can be deleted, a confirmation later, also while it is sent.  *)
DeleteEntry(e) ==
  /\ outbox' = outbox \ {e} /\ discarded' = discarded \cup {e}
  /\ startPending' = (startPending /\ KindOf(e) # "start")
  /\ UNCHANGED <<captured, preempted, calibrations, stored, network, asking,
                 flush, again, laptop>>

(* The response may be lost after the lease was granted.  With the start   *)
(* role the phone calibrates before it flushes: Calibrate and Reconnect.   *)
Acquire(k) ==
  /\ paired /\ role # k /\ (k = "start" => ~view.start)
  /\ Accepted(cookie)
  /\ LET s == SessionOf[cookie]
     IN  /\ lease[s][k] \in {None, cookie}
         /\ \A other \in Kind \ {k} : lease[s][other] # cookie
         /\ lease' = [lease EXCEPT ![s][k] = cookie]
  /\ UNCHANGED <<taps, calibrations, cal, paired, view, startPending, network,
                 asking, refused, start, log>>
  /\ \/ role' = k /\ k # "start" /\ CallFlush
     \/ role' = k /\ k = "start" /\ UNCHANGED <<flush, again>>
     \/ UNCHANGED <<role, flush, again>>

(* Both look at the outbox before they ask the laptop, and not after.      *)
Ask ==
  /\ paired /\ asking = None
  /\ \/ role # None /\ Queued(view.session, role) = {} /\ asking' = role
     \/ QueuedIn(view.session) = {} /\ asking' = "leave"
  /\ UNCHANGED <<taps, calibrations, stored, startPending, network, flush,
                 again, laptop>>

Released ==
  /\ asking \in Kind
  /\ Accepted(cookie)
  /\ lease' = IF lease[SessionOf[cookie]][asking] = cookie
              THEN [lease EXCEPT ![SessionOf[cookie]][asking] = None]
              ELSE lease
  /\ role' \in {role, None}
  /\ asking' = None
  /\ UNCHANGED <<taps, calibrations, cal, paired, view, startPending, network,
                 flush, again, refused, start, log>>

Left ==
  /\ asking = "leave" /\ cookie # None
  /\ refused' = refused \cup {cookie} /\ lease' = WithoutLeases(cookie)
  /\ asking' = None
  /\ \/ /\ cookie' = None /\ cal' = 0 /\ role' = None /\ paired' = FALSE
        /\ view' = [session |-> None, start |-> FALSE]
     \/ UNCHANGED <<cookie, stored>>
  /\ UNCHANGED <<taps, calibrations, startPending, pairings, late, flush,
                 again, start, log>>

Unanswered ==
  /\ asking # None /\ asking' = None
  /\ UNCHANGED <<taps, calibrations, stored, startPending, network, flush,
                 again, laptop>>

Pair ==
  /\ ~paired /\ pairings < MaxPairings /\ pairings + 1 \notin refused
  /\ pairings' = pairings + 1 /\ cookie' = pairings'
  /\ view' = Fresh(cookie') /\ paired' = TRUE
  /\ UNCHANGED <<taps, calibrations, cal, role, startPending, late, asking,
                 flush, again, laptop>>

Calibrate ==
  /\ paired /\ Accepted(cookie) /\ calibrations < MaxCalibrations
  /\ calibrations' = calibrations + 1 /\ cal' = calibrations'
  /\ UNCHANGED <<taps, role, paired, view, startPending, network, asking,
                 flush, again, laptop>>

(* The timer and the "online" event, Sync now and Retry.                   *)
Reconnect ==
  /\ UNCHANGED <<taps, calibrations, cal, startPending, network, asking,
                 laptop>>
  /\ \/ paired /\ UNCHANGED <<view, paired, role>> /\ CallFlush
     \/ ~paired /\ LoadState /\ UNCHANGED <<flush, again>>

(* The event stream, open while paired: every state nudges the queue.      *)
StateEvent ==
  /\ paired /\ StateArrives
  /\ UNCHANGED <<taps, calibrations, cal, startPending, network, asking,
                 laptop>>
  /\ \/ QueuedIn(SessionOf[cookie]) # {} /\ CallFlush
     \/ QueuedIn(SessionOf[cookie]) = {} /\ UNCHANGED <<flush, again>>

UnauthorizedEvent ==
  /\ paired /\ Unauthorized
  /\ UNCHANGED <<taps, calibrations, cal, startPending, network, asking, flush,
                 again, laptop>>

(* The page is reloaded or killed: what is not in a storage is gone.       *)
Reload ==
  /\ flush' = Idle /\ again' = FALSE /\ startPending' = FALSE /\ asking' = None
  /\ late' \in IF flush.pc = "sent" THEN {late, late \cup {flush.msg}}
                                    ELSE {late}
  /\ UNCHANGED <<taps, calibrations, stored, pairings, cookie, laptop>>

-----------------------------------------------------------------------------
FlushNext ==
  \/ FlushCalibrate \/ FlushFails
  \/ FlushTakesAck \/ FlushTakesRefusal
  \/ FlushTakesState \/ FlushSettlesStart

LaptopNext ==
  \/ LaptopAnswers
  \/ \E m \in late : LateArrives(m)
  \/ \E t \in {Now, None} : SetStart(t)
  \/ \E s \in Session, k \in Kind : ClearRole(s, k)
  \/ \E c \in 1 .. pairings : Revoke(c)
  \/ \E s \in Session : StopSession(s)

PhoneNext ==
  \/ \E k \in Kind : Capture(k)
  \/ \E e \in outbox : DeleteEntry(e)
  \/ \E k \in Kind : Acquire(k)
  \/ Ask \/ Released \/ Left \/ Unanswered
  \/ Pair \/ Calibrate
  \/ Reconnect \/ StateEvent \/ UnauthorizedEvent \/ Reload

Next == FlushNext \/ LaptopNext \/ PhoneNext

Spec == Init /\ [][Next]_vars

(* The page is not reloaded every time it is about to go on, the heartbeat *)
(* comes again, and a request that is repeated gets through at last.       *)
(* Nothing is promised of the operator, nor of the laptop's own screens.   *)
Fairness ==
  /\ SF_vars(FlushCalibrate) /\ SF_vars(LaptopAnswers)
  /\ SF_vars(FlushTakesAck) /\ SF_vars(FlushTakesRefusal)
  /\ SF_vars(FlushTakesState) /\ SF_vars(FlushSettlesStart)
  /\ WF_vars(FlushFails)
  /\ SF_vars(Reconnect \/ StateEvent)

FairSpec == Spec /\ Fairness

-----------------------------------------------------------------------------
(* Properties *)

CaptureRow == [kind : Kind, session : Session, cal : Calibration \ {0}]
FlushState ==
  [pc : {"idle", "clock", "sent", "answered", "state", "stated", "final"},
   todo : SUBSET Entry, post : Calibration, msg : Message \cup {None}, reply : {"ack", "role", "conflict", None}]

(* Every storage, message and row has its own shape; a phone that thinks   *)
(* it is paired has a session to capture for.                              *)
TypeOK ==
  /\ captured \in Seq(CaptureRow) /\ Len(captured) <= MaxCaptures
  /\ outbox \subseteq DOMAIN captured
  /\ discarded \subseteq DOMAIN captured /\ preempted \subseteq DOMAIN captured
  /\ calibrations \in Calibration /\ cal \in 0 .. calibrations
  /\ role \in Kind \cup {None}
  /\ paired \in BOOLEAN /\ startPending \in BOOLEAN /\ again \in BOOLEAN
  /\ view \in [session : Session \cup {None}, start : BOOLEAN]
  /\ paired => view.session # None
  /\ pairings \in 0 .. MaxPairings /\ cookie \in (1 .. pairings) \cup {None}
  /\ asking \in Kind \cup {"leave", None}
  /\ flush \in FlushState /\ flush.todo \subseteq DOMAIN captured
  /\ late \subseteq Message
  /\ lease \in [Session -> [Kind -> (1 .. pairings) \cup {None}]]
  /\ refused \subseteq Pairing
  /\ start \in Nat \cup {None}
  /\ log \in Seq(Message)

(* However often an entry is sent, given up, sent again or delivered late, *)
(* the laptop records it once ("A stable request_id makes retries          *)
(* idempotent").                                                           *)
RecordedOnce ==
  \A i, j \in DOMAIN log : log[i].entry = log[j].entry => i = j

IsRecorded(e) == \E i \in DOMAIN log : log[i].entry = e

(* "Queued entries remain on the phone until acknowledged": an entry that  *)
(* left the outbox was recorded, or the operator deleted it, or it was an  *)
(* extra start tap: one the race got another start for since the tap.      *)
NothingLost ==
  \A e \in DOMAIN captured :
    \/ e \in outbox
    \/ IsRecorded(e)
    \/ e \in discarded
    \/ KindOf(e) = "start" /\ e \in preempted

(* "The outbox replays in capture order": the places the laptop gives to a *)
(* role's entries are in the order of the taps, also across reloads,       *)
(* retries and late requests.                                              *)
ReplayInOrder ==
  \A i, j \in DOMAIN log :
    LET e == log[i].entry  f == log[j].entry
    IN  /\ i < j /\ KindOf(e) = KindOf(f) /\ KindOf(e) # "start"
        /\ captured[e].session = captured[f].session
        /\ f \notin discarded
        => e < f

(* An entry whose answer would be an acknowledgement: the phone is paired, *)
(* has its role, and it is the first in line.                              *)
Due(e) ==
  LET m == [entry |-> e, at |-> Corrected(captured[e].cal, cal),
             by |-> cookie]
  IN  /\ e \in outbox /\ paired /\ Accepted(cookie)
      /\ captured[e].session = view.session /\ role = KindOf(e)
      /\ e = First(Queued(view.session, role))
      /\ Duplicate(m) \/ (~Known(m) /\ MayWrite(m) /\ Timely(m))

(* No entry stays due for ever: whatever timeouts, reloads, repeated calls *)
(* and answers come in between, the flush gets to it.                      *)
QueueDrains == \A e \in Entry : []<>(e \in DOMAIN captured => ~Due(e))

(* A request that was accepted is acknowledged whenever it is retried.     *)
RetryIsIdempotent ==
  flush.reply = "conflict" => ~IsRecorded(flush.msg.entry)

(* Entries of an older session are never submitted to the current one.     *)
SessionIsolated ==
  \A i \in DOMAIN log :
    captured[log[i].entry].session = SessionOf[log[i].by]
=============================================================================
