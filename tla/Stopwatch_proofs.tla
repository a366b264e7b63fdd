--------------------------- MODULE Stopwatch_proofs ---------------------------
(***************************************************************************)
(* Safety of the stopwatch service.  First of StopwatchCapture, for any    *)
(* numbers of downloads, retries and calls of the screen; then of          *)
(* StopwatchUpload, for any times and any numbers of laps, segments and    *)
(* records from before; at the end of both together, as they are run.      *)
(***************************************************************************)
EXTENDS MCStopwatch, FiniteSetTheorems, SequenceTheorems, WellFoundedInduction, Loops, TLAPS

-----------------------------------------------------------------------------
(* The fields, the goroutines and the calls of a download *)

(* The fields agree: the active port is the one opened last; while the     *)
(* service is capturing it is open, and its channel is not closed.         *)
Fields ==
  /\ activePort \in {Nil, stopSignal}
  /\ isCapturing =>
       /\ activePort = stopSignal /\ stopSignal # Nil
       /\ stopSignal \in open /\ stopSignal \notin closed
  /\ \A c \in closed : c <= stopSignal

(* A call that waits for the line to settle does so for a port opened      *)
(* then or before the active one.                                          *)
Settling ==
  \A k \in Call : call[k].pc = "settling" =>
    call[k].port \in Capture /\ call[k].port <= stopSignal

(* A reader that holds bytes holds some.                                   *)
Holding == \A c \in Capture : reader[c].pc = "holding" => reader[c].part \in Part

(* A loop that waits has an attempt left.                                  *)
Retries ==
  \A c \in Capture : retry[c].pc = "waiting" => retry[c].attempt <= MaxRetries

CaptureInv == TypeOK /\ Fields /\ Settling /\ Holding /\ Retries

-----------------------------------------------------------------------------
(* The shapes of the records *)

LEMMA NilType == Nil \in 0 .. MaxCaptures
  BY CaptureAssumption DEF Nil

LEMMA RowTypes ==
  /\ NoReader \in Reader /\ [NoReader EXCEPT !.pc = "ended"] \in Reader
  /\ NoRetry \in Retry /\ [NoRetry EXCEPT !.pc = "ended"] \in Retry
  /\ NoCall \in CallRow /\ [NoCall EXCEPT !.pc = "over"] \in CallRow
<1>1. NoReader \in Reader /\ [NoReader EXCEPT !.pc = "ended"] \in Reader
  <2>1. 0 \in 0 .. Footer
    BY DEF Footer
  <2> QED
    BY NilType, <2>1 DEF NoReader, Reader
<1>2. NoRetry \in Retry /\ [NoRetry EXCEPT !.pc = "ended"] \in Retry
  BY NilType, CaptureAssumption DEF NoRetry, Retry
<1>3. NoCall \in CallRow /\ [NoCall EXCEPT !.pc = "over"] \in CallRow
  BY NilType DEF NoCall, CallRow
<1> QED
  BY <1>1, <1>2, <1>3

LEMMA ReviewFields ==
  ASSUME NEW S, NEW u \in [capturing : BOOLEAN, captured : Nat, events : S],
         NEW b \in BOOLEAN, NEW n \in Nat, NEW s \in S
  PROVE  /\ u.captured \in Nat /\ u.events \in S
         /\ [u EXCEPT !.capturing = b] \in
              [capturing : BOOLEAN, captured : Nat, events : S]
         /\ [u EXCEPT !.captured = n] \in
              [capturing : BOOLEAN, captured : Nat, events : S]
         /\ [u EXCEPT !.events = s] \in
              [capturing : BOOLEAN, captured : Nat, events : S]
         /\ [u EXCEPT !.capturing = b, !.captured = n] \in
              [capturing : BOOLEAN, captured : Nat, events : S]
         /\ [capturing |-> b, captured |-> n, events |-> s] \in
              [capturing : BOOLEAN, captured : Nat, events : S]
<1>1. u.captured \in Nat /\ u.events \in S
  OBVIOUS
<1>2. [u EXCEPT !.capturing = b] \in
        [capturing : BOOLEAN, captured : Nat, events : S]
  OBVIOUS
<1>3. [u EXCEPT !.captured = n] \in
        [capturing : BOOLEAN, captured : Nat, events : S]
  OBVIOUS
<1>4. [u EXCEPT !.events = s] \in
        [capturing : BOOLEAN, captured : Nat, events : S]
  OBVIOUS
<1>5. [u EXCEPT !.capturing = b, !.captured = n] \in
        [capturing : BOOLEAN, captured : Nat, events : S]
  OBVIOUS
<1>6. [capturing |-> b, captured |-> n, events |-> s] \in
        [capturing : BOOLEAN, captured : Nat, events : S]
  OBVIOUS
<1> QED
  BY <1>1, <1>2, <1>3, <1>4, <1>5, <1>6, Zenon

LEMMA ReviewUpdate ==
  ASSUME TypeOK, NEW b \in BOOLEAN, NEW n \in Nat, NEW s \in Seq(BOOLEAN)
  PROVE  /\ ui.captured \in Nat /\ ui.events \in Seq(BOOLEAN)
         /\ [ui EXCEPT !.capturing = b] \in Review
         /\ [ui EXCEPT !.captured = n] \in Review
         /\ [ui EXCEPT !.events = s] \in Review
         /\ [ui EXCEPT !.capturing = b, !.captured = n] \in Review
         /\ [capturing |-> b, captured |-> n, events |-> s] \in Review
<1> DEFINE T == Seq(BOOLEAN)
<1>1. ui \in [capturing : BOOLEAN, captured : Nat, events : T] /\ s \in T
  BY Zenon DEF TypeOK, Review
<1> HIDE DEF T
<1>2. /\ ui.captured \in Nat /\ ui.events \in T
      /\ [ui EXCEPT !.capturing = b] \in
           [capturing : BOOLEAN, captured : Nat, events : T]
      /\ [ui EXCEPT !.captured = n] \in
           [capturing : BOOLEAN, captured : Nat, events : T]
      /\ [ui EXCEPT !.events = s] \in
           [capturing : BOOLEAN, captured : Nat, events : T]
      /\ [ui EXCEPT !.capturing = b, !.captured = n] \in
           [capturing : BOOLEAN, captured : Nat, events : T]
      /\ [capturing |-> b, captured |-> n, events |-> s] \in
           [capturing : BOOLEAN, captured : Nat, events : T]
  BY ONLY <1>1, b \in BOOLEAN, n \in Nat, ReviewFields, Zenon
<1> QED
  BY <1>2, Zenon DEF Review, T

LEMMA NoEvents == <<>> \in Seq(BOOLEAN) /\ <<>> \in Seq(Part) /\ 0 \in Nat /\ TRUE \in BOOLEAN
  OBVIOUS

LEMMA UploadsType == \A found \in BOOLEAN : Uploads(found) \in Nat
  BY DEF Uploads

LEMMA FindsType == \A raw : Finds(raw) \in BOOLEAN
  BY DEF Finds

-----------------------------------------------------------------------------
(* The invariant holds at first *)

LEMMA InitInv == Init => CaptureInv
<1> SUFFICES ASSUME Init PROVE CaptureInv
  OBVIOUS
<1>1. ui \in Review
  BY DEF Init, Review
<1>2. sent \in [Capture -> 0 .. Footer]
  BY DEF Init, Footer
<1>3. /\ reader \in [Capture -> Reader] /\ retry \in [Capture -> Retry]
      /\ call \in [Call -> CallRow]
  BY RowTypes DEF Init
<1>4. TypeOK
  BY <1>1, <1>2, <1>3, NilType, NoEvents DEF Init, TypeOK
<1>5. Settling /\ Holding /\ Retries
  BY DEF Init, Settling, Holding, Retries, NoCall, NoReader, NoRetry
<1> QED
  BY <1>4, <1>5 DEF Init, CaptureInv, Fields, Nil

-----------------------------------------------------------------------------
(* The screen and its calls *)

(* A step of a call leaves the goroutines alone and, unless it starts a    *)
(* download, the line settles for no new port.                             *)
LEMMA CallMoves ==
  ASSUME CaptureInv, NEW k \in Call, NEW row \in CallRow, row.pc # "settling",
         call' = [call EXCEPT ![k] = row],
         UNCHANGED <<stopSignal, goroutines>>
  PROVE  /\ call' \in [Call -> CallRow] /\ reader' \in [Capture -> Reader]
         /\ retry' \in [Capture -> Retry]
         /\ Settling' /\ Holding' /\ Retries'
<1>1. /\ call' \in [Call -> CallRow] /\ reader' \in [Capture -> Reader]
      /\ retry' \in [Capture -> Retry]
  BY DEF CaptureInv, TypeOK, goroutines
<1>2. \A j \in Call : call'[j].pc = "settling" => call'[j] = call[j]
  BY DEF CaptureInv, TypeOK
<1> QED
  BY <1>1, <1>2 DEF CaptureInv, Settling, Holding, Retries, goroutines

(* One that changes no field of the service.                               *)
LEMMA CallRests ==
  ASSUME CaptureInv, NEW k \in Call, NEW row \in CallRow, row.pc # "settling",
         call' = [call EXCEPT ![k] = row], ui' \in Review,
         UNCHANGED <<service, ports, goroutines>>
  PROVE  CaptureInv'
<1>1. /\ call' \in [Call -> CallRow] /\ reader' \in [Capture -> Reader]
      /\ retry' \in [Capture -> Retry]
      /\ Settling' /\ Holding' /\ Retries'
  BY CallMoves DEF service
<1> QED
  BY <1>1 DEF CaptureInv, TypeOK, Fields, service, ports

LEMMA RowAt ==
  ASSUME TypeOK, NEW k \in Call,
         NEW pc \in {"starting", "choosing", "loading", "stopping", "parsing",
                     "stored", "started", "answered", "over"},
         NEW found \in BOOLEAN
  PROVE  /\ call[k] \in CallRow
         /\ [call[k] EXCEPT !.pc = pc] \in CallRow
         /\ [call[k] EXCEPT !.pc = pc].pc # "settling"
         /\ [call[k] EXCEPT !.pc = pc, !.found = found] \in CallRow
         /\ [call[k] EXCEPT !.pc = pc, !.found = found].pc # "settling"
         /\ [call[k] EXCEPT !.pc = pc, !.port = Nil] \in CallRow
         /\ [call[k] EXCEPT !.pc = pc, !.port = Nil].pc # "settling"
<1>1. call[k] \in CallRow
  BY DEF TypeOK
<1> QED
  BY <1>1, NilType DEF CallRow

LEMMA ClickInv ==
  ASSUME CaptureInv, NEW k \in Call, Clicks(k)
  PROVE  CaptureInv'
<1> DEFINE At(pc) == [call[k] EXCEPT !.pc = pc]
<1>1. \A pc \in {"starting", "choosing", "loading", "stopping", "over"} :
        At(pc) \in CallRow /\ At(pc).pc # "settling"
  BY RowAt DEF CaptureInv
<1>2. ui \in Review /\ [ui EXCEPT !.captured = 0] \in Review
  BY ReviewUpdate, NoEvents DEF CaptureInv, TypeOK
<1> HIDE DEF At
<1>3. \E pc \in {"starting", "choosing", "loading", "stopping", "over"} :
        /\ call' = [call EXCEPT ![k] = At(pc)]
        /\ ui' \in {ui, [ui EXCEPT !.captured = 0]}
        /\ UNCHANGED <<service, ports, goroutines>>
  BY DEF Clicks, ClickStart, ClickStop, ClickLoad, ChooseFile, ChooseNone,
    Becomes, At
<1> QED
  BY <1>1, <1>2, <1>3, CallRests

LEMMA ShowsInv == ASSUME CaptureInv, ScreenShows PROVE CaptureInv'
<1>1. ui.events \in Seq(BOOLEAN) /\ ui.captured \in Nat /\ ui.events # <<>>
  BY ReviewUpdate, NoEvents DEF CaptureInv, ScreenShows
<1>2. Head(ui.events) \in BOOLEAN /\ Tail(ui.events) \in Seq(BOOLEAN)
  BY ONLY <1>1, HeadTailProperties
<1>3. ui.captured + Uploads(Head(ui.events)) \in Nat
  BY <1>1, <1>2, UploadsType
<1>4. ui' \in Review
  BY <1>2, <1>3, ReviewUpdate DEF CaptureInv, ScreenShows
<1> QED
  BY <1>4 DEF CaptureInv, TypeOK, Fields, Settling, Holding, Retries, ScreenShows,
    service, ports, goroutines

LEMMA StartInv ==
  ASSUME CaptureInv, NEW k \in Call, StartCapture(k)
  PROVE  CaptureInv'
<1> DEFINE c == stopSignal + 1
<1>1. /\ stopSignal \in Nat /\ c \in Capture /\ c \in 0 .. MaxCaptures /\ c # Nil
      /\ \A d \in closed : d \in Nat /\ d <= stopSignal
  BY CaptureAssumption DEF CaptureInv, TypeOK, Fields, StartCapture, Capture, Nil
<1>2. [call[k] EXCEPT !.pc = "settling", !.port = c] \in CallRow
  BY <1>1 DEF CaptureInv, TypeOK, CallRow
<1>3. /\ activePort' = c /\ stopSignal' = c /\ open' = {c} /\ isCapturing' = TRUE
      /\ captureBuffer' = <<>> /\ staged' = FALSE
      /\ call' = [call EXCEPT ![k] = [call[k] EXCEPT !.pc = "settling", !.port = c]]
      /\ UNCHANGED <<closed, sent, reader, retry, ui>>
  BY DEF StartCapture, goroutines
<1> HIDE DEF c
<1>4. TypeOK'
  <2>1. call' \in [Call -> CallRow]
    BY <1>2, <1>3 DEF CaptureInv, TypeOK
  <2> QED
    BY <1>1, <1>3, <2>1, NoEvents DEF CaptureInv, TypeOK
<1>5. Fields'
  BY <1>1, <1>3 DEF Fields, c
<1>6. Settling'
  <2>1. \A j \in Call : j # k => call'[j] = call[j]
    BY <1>3 DEF CaptureInv, TypeOK
  <2>2. call'[k].port = c
    BY <1>2, <1>3 DEF CaptureInv, TypeOK, CallRow
  <2>3. \A j \in Call : call[j].pc = "settling" =>
          call[j].port \in Capture /\ call[j].port <= c
    BY <1>1 DEF CaptureInv, Settling, Capture, c
  <2> QED
    BY <1>1, <1>3, <2>1, <2>2, <2>3 DEF Settling, Capture
<1> QED
  BY <1>3, <1>4, <1>5, <1>6 DEF CaptureInv, Holding, Retries

LEMMA SettleInv ==
  ASSUME CaptureInv, NEW k \in Call, SendFirst(k) \/ SendFirstFails(k)
  PROVE  CaptureInv'
<1> DEFINE c == call[k].port
<1>1. c \in Capture
  BY DEF SendFirst, SendFirstFails, CaptureInv, Settling
<1>2. CASE SendFirst(k)
  <2>1. /\ [call[k] EXCEPT !.pc = "started", !.port = Nil] \in CallRow
        /\ [call[k] EXCEPT !.pc = "started", !.port = Nil].pc # "settling"
    BY RowAt DEF CaptureInv
  <2>2. /\ call' = [call EXCEPT ![k] = [call[k] EXCEPT !.pc = "started", !.port = Nil]]
        /\ reader' = [reader EXCEPT ![c] = [reader[c] EXCEPT !.pc = "new"]]
        /\ retry' = [retry EXCEPT ![c] = [retry[c] EXCEPT !.pc = "new", !.attempt = 2]]
        /\ UNCHANGED <<isCapturing, activePort, stopSignal, captureBuffer, staged,
                       open, closed, sent, ui>>
    BY <1>2 DEF SendFirst, service, ports
  <2>3. /\ [reader[c] EXCEPT !.pc = "new"] \in Reader
        /\ [reader[c] EXCEPT !.pc = "new"].pc # "holding"
    BY <1>1 DEF CaptureInv, TypeOK, Reader
  <2>4. /\ [retry[c] EXCEPT !.pc = "new", !.attempt = 2] \in Retry
        /\ [retry[c] EXCEPT !.pc = "new", !.attempt = 2].pc # "waiting"
    <3>1. 2 \in 0 .. MaxRetries + 1 /\ retry[c] \in Retry
      BY <1>1, CaptureAssumption DEF CaptureInv, TypeOK
    <3> QED
      BY <3>1 DEF Retry
  <2> HIDE DEF c
  <2>5. Settling'
    <3>1. \A j \in Call : call'[j].pc = "settling" => call'[j] = call[j]
      BY <2>1, <2>2 DEF CaptureInv, TypeOK
    <3> QED
      BY <2>2, <3>1 DEF CaptureInv, Settling
  <2>6. Holding' /\ Retries'
    BY <1>1, <2>2, <2>3, <2>4 DEF CaptureInv, TypeOK, Holding, Retries
  <2>7. TypeOK'
    BY <1>1, <2>1, <2>2, <2>3, <2>4 DEF CaptureInv, TypeOK
  <2> QED
    BY <2>2, <2>5, <2>6, <2>7 DEF CaptureInv, Fields
<1>3. CASE SendFirstFails(k)
  <2> HIDE DEF c
  <2>1. /\ [NoCall EXCEPT !.pc = "over"] \in CallRow
        /\ [NoCall EXCEPT !.pc = "over"].pc # "settling"
    BY RowTypes DEF NoCall
  <2>2. /\ call' = [call EXCEPT ![k] = [NoCall EXCEPT !.pc = "over"]]
        /\ open' \subseteq open /\ activePort' = Nil /\ isCapturing' = FALSE
        /\ UNCHANGED <<stopSignal, captureBuffer, staged, closed, sent, goroutines, ui>>
    BY <1>3 DEF SendFirstFails
  <2>3. /\ call' \in [Call -> CallRow] /\ reader' \in [Capture -> Reader]
        /\ retry' \in [Capture -> Retry]
        /\ Settling' /\ Holding' /\ Retries'
    BY <2>1, <2>2, CallMoves
  <2> QED
    BY <2>2, <2>3, NilType DEF CaptureInv, TypeOK, Fields
<1> QED
  BY <1>2, <1>3

LEMMA CallInv ==
  ASSUME CaptureInv, NEW k \in Call, CallSteps(k)
  PROVE  CaptureInv'
<1> DEFINE At(pc, found) == [call[k] EXCEPT !.pc = pc, !.found = found]
           Over == [NoCall EXCEPT !.pc = "over"]
<1>a. \A pc \in {"parsing", "stored", "answered", "over"}, found \in BOOLEAN :
        At(pc, found) \in CallRow /\ At(pc, found).pc # "settling"
  BY RowAt DEF CaptureInv
<1>b. Over \in CallRow /\ Over.pc # "settling"
  BY RowTypes DEF NoCall
<1>c. /\ [call[k] EXCEPT !.pc = "over"] \in CallRow
      /\ [call[k] EXCEPT !.pc = "over"].pc # "settling"
  BY RowAt DEF CaptureInv
<1>d. ui \in Review /\ staged \in BOOLEAN /\ call[k] \in CallRow
  BY DEF CaptureInv, TypeOK
<1>1. CASE StartCapture(k)
  BY <1>1, StartInv
<1>2. CASE SendFirst(k) \/ SendFirstFails(k)
  BY <1>2, SettleInv
<1>3. CASE CallFails(k)
  BY <1>3, <1>c, <1>d, CallRests DEF CallFails, Becomes
<1>4. CASE StopReturns(k)
  <2>1. call' = [call EXCEPT ![k] = At("answered", TRUE)]
    BY <1>4 DEF StopReturns
  <2> HIDE DEF At
  <2> QED
    BY <1>4, <1>a, <1>d, <2>1, CallRests DEF StopReturns
<1>5. CASE StopCapture(k)
  <2>1. /\ call' = [call EXCEPT ![k] = At("parsing", Finds(captureBuffer))]
        /\ UNCHANGED <<stopSignal, captureBuffer, staged, sent, goroutines, ui>>
    BY <1>5 DEF StopCapture
  <2>2. /\ closed' \subseteq closed \cup {stopSignal} /\ open' \subseteq open
        /\ activePort' \in {Nil, activePort} /\ isCapturing' = FALSE
    <3>1. CASE isCapturing
      BY <1>5, <3>1 DEF StopCapture, EndCapture
    <3>2. CASE ~isCapturing
      BY <1>5, <3>2 DEF StopCapture, CaptureInv, TypeOK
    <3> QED
      BY <3>1, <3>2
  <2> HIDE DEF At
  <2>3. /\ call' \in [Call -> CallRow] /\ reader' \in [Capture -> Reader]
        /\ retry' \in [Capture -> Retry]
        /\ Settling' /\ Holding' /\ Retries'
    BY <1>a, <2>1, FindsType, CallMoves
  <2>4. Fields'
    <3>1. stopSignal \in Nat /\ \A c \in closed : c <= stopSignal
      BY DEF CaptureInv, TypeOK, Fields
    <3>2. activePort \in {Nil, stopSignal}
      BY DEF CaptureInv, Fields
    <3> QED
      BY <2>1, <2>2, <3>1, <3>2 DEF Fields
  <2>5. TypeOK'
    BY <2>1, <2>2, <2>3, NilType DEF CaptureInv, TypeOK
  <2> QED
    BY <2>3, <2>4, <2>5 DEF CaptureInv
<1>6. CASE StopStores(k)
  <2>1. /\ call' = [call EXCEPT ![k] = At("stored", FALSE)]
        /\ staged' \in BOOLEAN
        /\ UNCHANGED <<isCapturing, activePort, stopSignal, captureBuffer, open,
                       closed, sent, goroutines, ui>>
    BY <1>6, <1>d DEF StopStores, ports, CallRow
  <2> HIDE DEF At
  <2>2. /\ call' \in [Call -> CallRow] /\ reader' \in [Capture -> Reader]
        /\ retry' \in [Capture -> Retry]
        /\ Settling' /\ Holding' /\ Retries'
    BY <1>a, <2>1, CallMoves
  <2> QED
    BY <2>1, <2>2 DEF CaptureInv, TypeOK, Fields
<1>7. CASE StopReads(k)
  <2>1. call' = [call EXCEPT ![k] = At("answered", staged)]
    BY <1>7 DEF StopReads
  <2> HIDE DEF At
  <2> QED
    BY <1>7, <1>a, <1>d, <2>1, CallRests DEF StopReads
<1>8. CASE LoadWatchwareExport(k)
  <2>1. /\ call' = [call EXCEPT ![k] = At("answered", TRUE)]
        /\ isCapturing' = FALSE /\ captureBuffer' = <<>> /\ staged' = TRUE
        /\ UNCHANGED <<activePort, stopSignal, open, closed, sent, goroutines, ui>>
    BY <1>8 DEF LoadWatchwareExport, ports
  <2> HIDE DEF At
  <2>2. /\ call' \in [Call -> CallRow] /\ reader' \in [Capture -> Reader]
        /\ retry' \in [Capture -> Retry]
        /\ Settling' /\ Holding' /\ Retries'
    BY <1>a, <2>1, CallMoves
  <2> QED
    BY <2>1, <2>2, NoEvents DEF CaptureInv, TypeOK, Fields
<1>9. CASE StartAnswered(k)
  <2>1. ui' \in Review
    BY <1>9, ReviewUpdate, NoEvents DEF CaptureInv, StartAnswered
  <2> QED
    BY <1>9, <1>c, <2>1, CallRests DEF StartAnswered, Becomes
<1>10. CASE ListAnswered(k)
  <2>1. Uploads(call[k].found) \in Nat
    BY <1>d, UploadsType DEF CallRow
  <2>2. ui' \in Review
    BY <1>10, <2>1, ReviewUpdate, NoEvents DEF CaptureInv, ListAnswered
  <2> QED
    BY <1>10, <1>b, <2>2, CallRests DEF ListAnswered
<1> QED
  BY <1>1, <1>2, <1>3, <1>4, <1>5, <1>6, <1>7, <1>8, <1>9, <1>10 DEF CallSteps

-----------------------------------------------------------------------------
(* The goroutines *)

LEMMA ReadInv ==
  ASSUME CaptureInv, NEW c \in Capture, Read(c) \/ ReadBreaks(c) \/ ReaderSteps(c)
  PROVE  CaptureInv'
<1>r. reader[c] \in Reader /\ retry \in [Capture -> Retry]
  BY DEF CaptureInv, TypeOK
<1>e. [NoReader EXCEPT !.pc = "ended"] \in Reader /\ NoReader.part = 0
  BY RowTypes DEF NoReader
(* What is to be shown of a step that gives the reader a new row.          *)
<1>1. ASSUME NEW row \in Reader, row.pc = "holding" => row.part \in Part,
             reader' = [reader EXCEPT ![c] = row],
             UNCHANGED <<stopSignal, retry, call>>
      PROVE  /\ reader' \in [Capture -> Reader] /\ call' \in [Call -> CallRow]
             /\ Settling' /\ Holding' /\ Retries'
  <2>1. \A d \in Capture : reader'[d] = IF d = c THEN row ELSE reader[d]
    BY <1>1 DEF CaptureInv, TypeOK
  <2>2. reader' \in [Capture -> Reader]
    BY <1>1 DEF CaptureInv, TypeOK
  <2> QED
    BY <1>1, <2>1, <2>2 DEF CaptureInv, TypeOK, Settling, Holding, Retries
<1>2. ASSUME NEW row \in Reader, row.pc = "holding" => row.part \in Part,
             reader' = [reader EXCEPT ![c] = row], sent' \in [Capture -> 0 .. Footer],
             UNCHANGED <<service, open, closed, retry, call, ui>>
      PROVE  CaptureInv'
  BY <1>r, <1>1, <1>2 DEF CaptureInv, TypeOK, Fields, service
<1>3. [NoReader EXCEPT !.pc = "ended"].pc = "ended"
  BY DEF NoReader
<1>4. CASE Read(c) \/ ReadBreaks(c)
  <2> DEFINE p == reader[c].port
  <2>1. p \in Capture /\ sent[p] \in 0 .. Footer /\ sent[p] < Footer
    BY <1>4 DEF Read, ReadBreaks, MayRead, CaptureInv, TypeOK
  <2>2. sent[p] + 1 \in Part /\ sent[p] + 1 \in 0 .. Footer
    BY <2>1 DEF Part, Data, Footer
  <2>3. sent' = [sent EXCEPT ![p] = sent[p] + 1]
    BY <1>4 DEF Read, ReadBreaks
  <2>r. Read(c) =>
          /\ reader' = [reader EXCEPT ![c] = [reader[c] EXCEPT !.pc = "holding",
                                                                !.part = sent'[p]]]
          /\ UNCHANGED <<service, open, closed, retry, call, ui>>
    BY DEF Read
  <2> HIDE DEF p
  <2>4. sent' \in [Capture -> 0 .. Footer] /\ sent'[p] = sent[p] + 1
    BY <2>1, <2>2, <2>3 DEF CaptureInv, TypeOK
  <2>5. CASE Read(c)
    <3>1. /\ reader' = [reader EXCEPT ![c] = [reader[c] EXCEPT !.pc = "holding",
                                                                !.part = sent'[p]]]
          /\ UNCHANGED <<service, open, closed, retry, call, ui>>
      BY <2>5, <2>r
    <3>2. /\ [reader[c] EXCEPT !.pc = "holding", !.part = sent'[p]] \in Reader
          /\ [reader[c] EXCEPT !.pc = "holding", !.part = sent'[p]].part \in Part
      BY <1>r, <2>2, <2>4 DEF Reader
    <3> QED
      BY <1>2, <2>4, <3>1, <3>2
  <2>6. CASE ReadBreaks(c)
    BY <1>e, <1>2, <1>3, <2>4, <2>6 DEF ReadBreaks, ReaderEnds
  <2> QED
    BY <1>4, <2>5, <2>6
<1>5. CASE ReaderStarts(c)
  <2>1. /\ sent' \in [Capture -> 0 .. Footer]
        /\ UNCHANGED <<service, open, closed, retry, call, ui>>
    BY <1>5 DEF ReaderStarts, ports, CaptureInv, TypeOK
  <2>2. CASE activePort = Nil
    BY <1>e, <1>2, <1>3, <1>5, <2>1, <2>2 DEF ReaderStarts, ReaderEnds
  <2>3. CASE activePort # Nil
    <3> DEFINE row == [reader[c] EXCEPT !.pc = "polling", !.port = activePort,
                                        !.signal = stopSignal]
    <3>1. row \in Reader /\ row.pc # "holding"
      BY <1>r DEF CaptureInv, TypeOK, Reader
    <3>2. reader' = [reader EXCEPT ![c] = row]
      BY <1>5, <2>3 DEF ReaderStarts
    <3> HIDE DEF row
    <3> QED
      BY <1>2, <2>1, <3>1, <3>2
  <2> QED
    BY <2>2, <2>3
<1>6. CASE ReaderStops(c)
  <2>1. sent' \in [Capture -> 0 .. Footer]
    BY <1>6 DEF ReaderStops, ports, CaptureInv, TypeOK
  <2> QED
    BY <1>e, <1>2, <1>3, <1>6, <2>1 DEF ReaderStops, ReaderEnds, ports
<1>7. CASE ReaderAppends(c)
  <2>1. /\ captureBuffer' = Append(captureBuffer, reader[c].part)
        /\ UNCHANGED <<isCapturing, activePort, stopSignal, staged, open, closed,
                       sent, retry, call, ui>>
    BY <1>7 DEF ReaderAppends, ports
  <2>2. captureBuffer' \in Seq(Part)
    <3>1. captureBuffer \in Seq(Part) /\ reader[c].part \in Part
      BY <1>7 DEF ReaderAppends, CaptureInv, TypeOK, Holding
    <3> QED
      BY ONLY <2>1, <3>1, AppendProperties
  <2> DEFINE full == [reader[c] EXCEPT !.pc = "finalizing", !.part = 0,
                                       !.found = Finds(captureBuffer')]
             more == [reader[c] EXCEPT !.pc = "polling", !.part = 0]
  <2>3. full \in Reader /\ more \in Reader
        /\ full.pc # "holding" /\ more.pc # "holding"
    <3>0. 0 \in 0 .. Footer
      BY DEF Footer
    <3>1. \A f \in BOOLEAN :
            /\ [reader[c] EXCEPT !.pc = "finalizing", !.part = 0, !.found = f]
                 \in Reader
            /\ [reader[c] EXCEPT !.pc = "finalizing", !.part = 0, !.found = f].pc
                 # "holding"
      BY <1>r, <3>0 DEF Reader
    <3>2. more \in Reader /\ more.pc # "holding"
      BY <1>r, <3>0 DEF Reader
    <3>3. Finds(captureBuffer') \in BOOLEAN
      BY FindsType
    <3> QED
      BY <3>1, <3>2, <3>3
  <2>4. \E row \in {full, more} : reader' = [reader EXCEPT ![c] = row]
    BY <1>7 DEF ReaderAppends
  <2> HIDE DEF full, more
  <2>5. /\ reader' \in [Capture -> Reader] /\ call' \in [Call -> CallRow]
        /\ Settling' /\ Holding' /\ Retries'
    BY <1>1, <2>1, <2>3, <2>4
  <2>6. Fields'
    BY <2>1 DEF CaptureInv, Fields
  <2>7. TypeOK'
    BY <2>1, <2>2, <2>5, Zenon DEF CaptureInv, TypeOK
  <2> QED
    BY <2>5, <2>6, <2>7 DEF CaptureInv
<1>8. CASE Finalize(c)
  <2>1. /\ open' \subseteq open /\ activePort' = Nil /\ isCapturing' = FALSE
        /\ staged' = reader[c].found
        /\ reader' = [reader EXCEPT ![c] = [NoReader EXCEPT !.pc = "ended"]]
        /\ UNCHANGED <<stopSignal, captureBuffer, closed, sent, retry, call>>
    BY <1>8 DEF Finalize, EndCapture, ReaderEnds
  <2>2. staged' \in BOOLEAN
    BY <1>r, <2>1 DEF Reader
  <2>3. ui' \in Review
    <3>1. Append(ui.events, staged') \in Seq(BOOLEAN)
      <4>1. ui.events \in Seq(BOOLEAN)
        BY ReviewUpdate, NoEvents DEF CaptureInv
      <4> QED
        BY ONLY <2>2, <4>1, AppendProperties
    <3> QED
      BY <1>8, <3>1, ReviewUpdate, NoEvents DEF Finalize, CaptureInv
  <2>4. /\ reader' \in [Capture -> Reader] /\ call' \in [Call -> CallRow]
        /\ Settling' /\ Holding' /\ Retries'
    BY <1>e, <1>1, <1>3, <2>1
  <2>5. Fields'
    BY <2>1 DEF CaptureInv, Fields
  <2>6. TypeOK'
    BY <2>1, <2>2, <2>3, <2>4, NilType DEF CaptureInv, TypeOK
  <2> QED
    BY <2>4, <2>5, <2>6 DEF CaptureInv
<1> QED
  BY <1>4, <1>5, <1>6, <1>7, <1>8 DEF ReaderSteps

(* The loop that repeats the command changes no field of the service.      *)
LEMMA RetryInv ==
  ASSUME CaptureInv, NEW c \in Capture, RetrySteps(c)
  PROVE  CaptureInv'
<1>r. retry[c] \in Retry /\ stopSignal \in 0 .. MaxCaptures
  BY DEF CaptureInv, TypeOK
<1>1. ASSUME NEW row \in Retry, row.pc = "waiting" => row.attempt <= MaxRetries,
             retry' = [retry EXCEPT ![c] = row],
             UNCHANGED <<service, ports, reader, call, ui>>
      PROVE  CaptureInv'
  <2>1. \A d \in Capture : retry'[d] = IF d = c THEN row ELSE retry[d]
    BY <1>1 DEF CaptureInv, TypeOK
  <2>2. retry' \in [Capture -> Retry]
    BY <1>1 DEF CaptureInv, TypeOK
  <2>3. Retries'
    BY <1>1, <2>1 DEF CaptureInv, Retries
  <2> QED
    BY <1>1, <2>2, <2>3 DEF CaptureInv, TypeOK, Fields, Settling, Holding,
      service, ports
<1>2. /\ [NoRetry EXCEPT !.pc = "ended"] \in Retry
      /\ [NoRetry EXCEPT !.pc = "ended"].pc # "waiting"
  BY RowTypes DEF NoRetry
<1>3. CASE RetryStops(c) \/ RetryGivesUp(c)
  BY <1>1, <1>2, <1>3 DEF RetryStops, RetryGivesUp, RetryEnds
<1>4. CASE RetryWaits(c)
  <2>1. CASE retry[c].attempt > MaxRetries
    BY <1>1, <1>2, <1>4, <2>1 DEF RetryWaits, RetryEnds
  <2>2. CASE ~(retry[c].attempt > MaxRetries)
    <3> DEFINE row == [retry[c] EXCEPT !.pc = "waiting", !.signal = stopSignal]
    <3>1. row \in Retry /\ row.attempt = retry[c].attempt
      BY <1>r DEF Retry
    <3>2. retry[c].attempt <= MaxRetries
      BY <1>r, <2>2, CaptureAssumption DEF Retry
    <3>3. retry' = [retry EXCEPT ![c] = row]
      BY <1>4, <2>2 DEF RetryWaits
    <3> HIDE DEF row
    <3> QED
      BY <1>1, <1>4, <3>1, <3>2, <3>3 DEF RetryWaits
  <2> QED
    BY <2>1, <2>2
<1>5. CASE RetrySends(c)
  <2> DEFINE row == [retry[c] EXCEPT !.pc = "new", !.attempt = retry[c].attempt + 1]
  <2>1. retry[c].attempt + 1 \in 0 .. MaxRetries + 1
    <3>1. retry[c].attempt \in Nat /\ retry[c].attempt <= MaxRetries
      BY <1>r, <1>5 DEF CaptureInv, Retries, RetrySends, Retry
    <3> QED
      BY <3>1, CaptureAssumption
  <2>2. row \in Retry /\ row.pc # "waiting"
    BY <1>r, <2>1 DEF Retry
  <2>3. retry' = [retry EXCEPT ![c] = row]
    BY <1>5 DEF RetrySends
  <2> HIDE DEF row
  <2> QED
    BY <1>1, <1>5, <2>2, <2>3 DEF RetrySends
<1> QED
  BY <1>3, <1>4, <1>5 DEF RetrySteps

-----------------------------------------------------------------------------
(* The theorems *)

LEMMA StepInv == CaptureInv /\ [Next]_vars => CaptureInv'
<1> SUFFICES ASSUME CaptureInv, [Next]_vars PROVE CaptureInv'
  OBVIOUS
<1>1. CASE UNCHANGED vars
  BY <1>1 DEF vars, service, ports, goroutines, CaptureInv, TypeOK, Fields,
    Settling, Holding, Retries
<1> QED
  BY <1>1, ShowsInv, ClickInv, CallInv, ReadInv, RetryInv DEF Next

LEMMA CaptureSafety == Spec => []CaptureInv
<1> QED
  BY InitInv, StepInv, PTL DEF Spec

(* The fields of stopwatch_service.go keep their types, and no download    *)
(* sends more than stopwatchMaxRetries commands, whatever calls, downloads *)
(* and goroutines run together.                                            *)
THEOREM CaptureTypes == Spec => []TypeOK
<1>1. CaptureInv => TypeOK
  BY DEF CaptureInv
<1> QED
  BY <1>1, CaptureSafety, PTL

(* StopCapture never closes a stop channel twice, which would panic: the   *)
(* flag it tests and the channel it closes change together, and a file     *)
(* that is loaded in between takes away the flag only.                     *)
THEOREM ChannelClosedOnce == Spec => []NoDoubleClose
<1>1. CaptureInv => NoDoubleClose
  BY DEF CaptureInv, Fields, NoDoubleClose
<1> QED
  BY <1>1, CaptureSafety, PTL

(* Whoever takes the active port away has closed it, unless it is a        *)
(* StartCapture that fails for an older port than the one that is active.  *)
THEOREM PortsClosed == Spec => PortNotForgotten
<1> DEFINE Kept ==
      activePort # Nil /\ activePort' # activePort =>
        \/ activePort \notin open'
        \/ \E k \in Call :
             /\ call[k].pc = "settling" /\ call'[k].pc = "over"
             /\ call[k].port < activePort
<1>1. CaptureInv /\ [Next]_vars => [Kept]_vars
  <2> SUFFICES ASSUME CaptureInv, Next, activePort # Nil,
                      activePort' # activePort
               PROVE  \/ activePort \notin open'
                      \/ \E k \in Call :
                           /\ call[k].pc = "settling" /\ call'[k].pc = "over"
                           /\ call[k].port < activePort
    OBVIOUS
  <2>1. activePort = stopSignal /\ stopSignal \in Nat
    BY DEF CaptureInv, Fields, TypeOK
  <2>2. ASSUME NEW k \in Call, CallSteps(k)
        PROVE  \/ activePort \notin open'
               \/ /\ call[k].pc = "settling" /\ call'[k].pc = "over"
                  /\ call[k].port < activePort
    <3>1. CASE StartCapture(k)
      BY <2>1, <3>1 DEF StartCapture
    <3>2. CASE SendFirstFails(k)
      <4>1. call[k].port \in Nat /\ call[k].port <= activePort
        BY <2>1, <3>2 DEF SendFirstFails, CaptureInv, Settling, Capture
      <4>2. call[k].pc = "settling" /\ open' = open \ {call[k].port}
        BY <3>2 DEF SendFirstFails
      <4>3. call'[k].pc = "over"
        BY <3>2, RowTypes DEF SendFirstFails, CaptureInv, TypeOK, NoCall
      <4> QED
        BY <2>1, <4>1, <4>2, <4>3
    <3>3. CASE StopCapture(k)
      BY <3>3 DEF StopCapture, EndCapture
    <3> QED
      BY <2>2, <3>1, <3>2, <3>3 DEF CallSteps, CallFails, SendFirst, StopReturns,
        StopStores, StopReads, LoadWatchwareExport, StartAnswered, ListAnswered,
        service
  <2>3. ASSUME NEW c \in Capture,
               Read(c) \/ ReadBreaks(c) \/ ReaderSteps(c) \/ RetrySteps(c)
        PROVE  activePort \notin open'
    BY <2>3 DEF Read, ReadBreaks, ReaderSteps, ReaderStarts, ReaderStops,
      ReaderAppends, Finalize, EndCapture, RetrySteps, RetryWaits, RetryStops,
      RetrySends, RetryGivesUp, service
  <2>4. ~ScreenShows /\ \A k \in Call : ~Clicks(k)
    BY DEF ScreenShows, Clicks, ClickStart, ClickStop, ClickLoad, ChooseFile,
      ChooseNone, service
  <2> QED
    BY <2>2, <2>3, <2>4 DEF Next
<1> QED
  BY <1>1, CaptureSafety, PTL DEF Spec, PortNotForgotten

-----------------------------------------------------------------------------
(* The passes of the parser over one list of times *)

(* A set of numbers that is not empty has a least one.                     *)
LEMMA MinIsFirst ==
  ASSUME NEW S, S \subseteq Nat, S # {}
  PROVE  Min(S) \in S /\ \A y \in S : Min(S) <= y
<1> DEFINE Less == {p \in Nat \X Nat : p[1] < p[2]}
<1>1. IsWellFoundedOn(Less, Nat)
  BY NatLessThanWellFounded DEF OpToRel
<1> HIDE DEF Less
<1>2. PICK x \in S : \A y \in S : ~(<<y, x>> \in Less)
  BY <1>1, WFMin
<1>3. \A y \in S : x <= y
  <2> SUFFICES ASSUME NEW y \in S, ~(x <= y) PROVE FALSE
    OBVIOUS
  <2>1. x \in Nat /\ y \in Nat /\ y < x
    OBVIOUS
  <2>2. <<y, x>> \in Less
    BY <2>1 DEF Less
  <2> QED
    BY <1>2, <2>2
<1> QED
  BY <1>2, <1>3 DEF Min

(* trimTimelineAtReset returns the longest beginning of a timeline whose   *)
(* times rise: all of it exactly if all of it rises.  So nothing behind a  *)
(* reset, which is of an earlier race, gets past it.                       *)
THEOREM TrimRises ==
  ASSUME NEW times \in Seq(Int)
  PROVE  /\ Trimmed(times) \in Seq(Int) /\ Rising(Trimmed(times))
         /\ Len(Trimmed(times)) <= Len(times)
         /\ \A i \in 1 .. Len(Trimmed(times)) : Trimmed(times)[i] = times[i]
         /\ Len(Trimmed(times)) < Len(times) =>
              LET n == Len(Trimmed(times)) IN n >= 1 /\ times[n + 1] <= times[n]
<1>1. CASE Resets(times) = {}
  <2>1. Trimmed(times) = times
    BY <1>1 DEF Trimmed
  <2>2. Rising(times)
    <3> SUFFICES ASSUME NEW i \in 1 .. Len(times) - 1, ~(times[i] < times[i + 1])
                 PROVE  FALSE
      BY DEF Rising
    <3>1. i + 1 \in 2 .. Len(times) /\ times[i] \in Int /\ times[i + 1] \in Int
      BY LenProperties, ElementOfSeq
    <3>2. times[i + 1] <= times[(i + 1) - 1]
      BY <3>1
    <3>3. i + 1 \in Resets(times)
      BY <3>1, <3>2 DEF Resets
    <3> QED
      BY <1>1, <3>3
  <2> QED
    BY <2>1, <2>2, LenProperties
<1>2. CASE Resets(times) # {}
  <2> DEFINE r == Min(Resets(times))
             t == SubSeq(times, 1, r - 1)
  <2>1. r \in Resets(times) /\ \A i \in Resets(times) : r <= i
    <3>1. Resets(times) \subseteq Nat
      BY DEF Resets
    <3> QED
      BY <1>2, <3>1, MinIsFirst
  <2> HIDE DEF r
  <2>2. r \in 2 .. Len(times) /\ times[r] <= times[r - 1]
    BY <2>1 DEF Resets
  <2>3. /\ t \in Seq(Int) /\ Len(t) = r - 1
        /\ \A i \in 1 .. r - 1 : t[i] = times[i]
    <3>1. \A i \in 1 .. r - 1 : times[i] \in Int
      BY <2>2, LenProperties, ElementOfSeq
    <3>2. t \in Seq(Int) /\ Len(t) = r - 1
      BY <2>2, <3>1, SubSeqProperties
    <3>3. \A i \in 1 .. r - 1 : t[i] = times[i]
      BY <2>2, <3>1, SubSeqProperties
    <3> QED
      BY <3>2, <3>3
  <2> HIDE DEF t
  <2>4. Rising(t)
    <3> SUFFICES ASSUME NEW i \in 1 .. Len(t) - 1, ~(t[i] < t[i + 1]) PROVE FALSE
      BY DEF Rising
    <3>1. i + 1 \in 2 .. Len(times) /\ i + 1 < r /\ (i + 1) - 1 = i
      BY <2>2, <2>3
    <3>2. times[i] \in Int /\ times[i + 1] \in Int
      BY <3>1, LenProperties, ElementOfSeq
    <3>3. times[i + 1] <= times[(i + 1) - 1]
      BY <2>3, <3>1, <3>2
    <3>4. i + 1 \in Resets(times)
      BY <3>1, <3>3 DEF Resets
    <3> QED
      BY <2>1, <2>2, <3>1, <3>4
  <2>5. Trimmed(times) = t
    BY <1>2 DEF Trimmed, r, t
  <2> QED
    BY <2>2, <2>3, <2>4, <2>5
<1> QED
  BY <1>1, <1>2

(* What an earlier race left behind a segment is cut off where it begins:  *)
(* the rising times of the segment are kept, all of them and nothing else. *)
THEOREM SegmentKept ==
  ASSUME NEW segment \in Seq(Int), NEW stale \in Seq(Int),
         segment # <<>>, Rising(segment),
         stale # <<>>, stale[1] <= segment[Len(segment)]
  PROVE  Trimmed(segment \o stale) = segment
<1> DEFINE n == Len(segment)
           c == segment \o stale
<1>1. /\ n \in Nat \ {0} /\ Len(stale) \in Nat \ {0}
      /\ c \in Seq(Int) /\ Len(c) = n + Len(stale)
      /\ \A i \in 1 .. n : c[i] = segment[i]
      /\ c[n + 1] = stale[1]
  BY EmptySeq, LenProperties, ConcatProperties
<1> HIDE DEF c, n
<1>2. n + 1 \in Resets(c)
  <2>1. n + 1 \in 2 .. Len(c) /\ (n + 1) - 1 = n /\ n \in 1 .. n
    BY <1>1
  <2>2. c[n + 1] <= c[(n + 1) - 1]
    BY <1>1, <2>1 DEF n
  <2> QED
    BY <2>1, <2>2 DEF Resets
<1>3. ASSUME NEW i \in Resets(c) PROVE n + 1 <= i
  <2> SUFFICES ASSUME ~(n + 1 <= i) PROVE FALSE
    OBVIOUS
  <2>1. i \in 2 .. Len(c) /\ c[i] <= c[i - 1]
    BY DEF Resets
  <2>2. i - 1 \in 1 .. n - 1 /\ (i - 1) + 1 = i /\ i \in 1 .. n /\ i - 1 \in 1 .. n
    BY <1>1, <2>1
  <2>3. segment[i - 1] < segment[(i - 1) + 1]
    BY <2>2 DEF Rising, n
  <2>4. segment[i] \in Int /\ segment[i - 1] \in Int
    BY <2>2, ElementOfSeq DEF n
  <2>5. c[i] = segment[i] /\ c[i - 1] = segment[i - 1]
    BY <1>1, <2>2
  <2>6. segment[i] <= segment[i - 1] /\ segment[i - 1] < segment[i]
    BY <2>1, <2>2, <2>3, <2>5
  <2> QED
    BY <2>4, <2>6
<1>4. Min(Resets(c)) = n + 1
  <2>1. Resets(c) \subseteq Nat
    BY DEF Resets
  <2>2. Min(Resets(c)) \in Resets(c) /\ Min(Resets(c)) <= n + 1
    BY <1>2, <2>1, MinIsFirst
  <2> QED
    BY <1>1, <1>3, <2>1, <2>2
<1>5. Trimmed(c) = SubSeq(c, 1, n)
  <2>1. (n + 1) - 1 = n
    BY <1>1
  <2> QED
    BY <1>2, <1>4, <2>1 DEF Trimmed
<1>6. SubSeq(c, 1, n) = segment
  <2>1. \A i \in 1 .. n : c[i] \in Int
    BY <1>1, LenProperties, ElementOfSeq
  <2>2. /\ SubSeq(c, 1, n) \in Seq(Int) /\ Len(SubSeq(c, 1, n)) = n
        /\ \A i \in 1 .. n : SubSeq(c, 1, n)[i] = segment[i]
    BY <1>1, <2>1, SubSeqProperties
  <2> QED
    BY <2>2, SeqEqual DEF n
<1> QED
  BY <1>5, <1>6 DEF c

-----------------------------------------------------------------------------
(* The loops over records and blocks *)

(* What the loop has appended after each entry.                            *)
Appends(f, list, x) ==
  /\ f[0] = <<>>
  /\ \A k \in 1 .. Len(list) :
       f[k] = IF list[k] = x THEN f[k - 1] ELSE Append(f[k - 1], list[k])

(* The loop's lists, one for each entry it has seen.                       *)
LEMMA WithoutSteps ==
  ASSUME NEW T, NEW list \in Seq(T), NEW x
  PROVE  \E f \in [0 .. Len(list) -> Seq(T)] :
           Appends(f, list, x) /\ Without(list, x) = f[Len(list)]
<1> DEFINE N == Len(list)
           P(f) == f = [k \in 0 .. Len(list) |->
             IF k = 0 THEN <<>>
             ELSE IF list[k] = x THEN f[k - 1] ELSE Append(f[k - 1], list[k])]
           G == [p \in Seq(T) \X (1 .. N) |->
             IF list[p[2]] = x THEN p[1] ELSE Append(p[1], list[p[2]])]
           h == CHOOSE f : P(f)
<1>1. G \in [Seq(T) \X (1 .. N) -> Seq(T)]
  OBVIOUS
<1>2. ASSUME NEW s \in Seq(T), NEW k \in 1 .. N
      PROVE  G[<<s, k>>] = IF list[k] = x THEN s ELSE Append(s, list[k])
  OBVIOUS
<1>3. N \in Nat /\ <<>> \in Seq(T)
  OBVIOUS
<1>4. \E f : P(f)
  <2> HIDE DEF G, N
  <2>1. PICK f \in [0 .. N -> Seq(T)] : Runs(f, <<>>, G, N)
    BY <1>1, <1>3, LoopExists, Zenon
  <2>2. ASSUME NEW k \in 0 .. N
        PROVE  f[k] = IF k = 0 THEN <<>>
                      ELSE IF list[k] = x THEN f[k - 1] ELSE Append(f[k - 1], list[k])
    <3>1. CASE k = 0
      BY <3>1, <2>1 DEF Runs
    <3>2. CASE k # 0
      <4>1. k \in 1 .. N /\ k - 1 \in 0 .. N
        BY <3>2, <1>3
      <4>2. f[k] = G[<<f[k - 1], k>>] /\ f[k - 1] \in Seq(T)
        BY <4>1, <2>1, <3>2 DEF Runs
      <4>3. f[k] = IF list[k] = x THEN f[k - 1] ELSE Append(f[k - 1], list[k])
        BY <4>1, <4>2, <1>2
      <4> QED
        BY <4>3, <3>2
    <3> QED
      BY <3>1, <3>2
  <2>3. f = [k \in 0 .. N |-> f[k]]
    BY <2>1
  <2> QED
    BY <2>2, <2>3 DEF N
<1>5. P(h)
  BY <1>4, Zenon
<1>6. Without(list, x) = h[N]
  BY Zenon DEF Without
<1> HIDE DEF h
<1>7. h = [k \in 0 .. N |-> h[k]] /\ Appends(h, list, x)
  <2>1. 0 \in 0 .. N /\ \A k \in 1 .. N : k \in 0 .. N /\ k # 0
    BY <1>3
  <2> QED
    BY <1>5, <2>1 DEF Appends
<1>8. \A k \in 0 .. N : k \in {j \in 0 .. N : h[j] \in Seq(T)}
  <2> DEFINE I == {j \in 0 .. N : h[j] \in Seq(T)}
  <2>1. 0 \in I
    BY <1>7, <1>3 DEF Appends
  <2>2. ASSUME NEW k \in 1 .. N, k - 1 \in I PROVE k \in I
    <3>1. h[k - 1] \in Seq(T) /\ list[k] \in T /\ k \in 0 .. N
      BY <2>2, <1>3
    <3>2. h[k] = IF list[k] = x THEN h[k - 1] ELSE Append(h[k - 1], list[k])
      BY <1>7 DEF Appends
    <3>3. Append(h[k - 1], list[k]) \in Seq(T)
      BY <3>1, AppendProperties
    <3>4. h[k] \in Seq(T)
      BY <3>1, <3>2, <3>3
    <3> QED
      BY <3>1, <3>4
  <2> HIDE DEF I, N
  <2>3. \A k \in 0 .. N : k \in I
    BY <2>1, <2>2, <1>3, LoopInduction
  <2> QED
    BY <2>3 DEF I
<1>9. h \in [0 .. N -> Seq(T)]
  BY <1>7, <1>8
<1> QED
  BY <1>6, <1>7, <1>9

(* Names that stand for the built-in operators where they need no meaning. *)
Joined(a, b) == a \o b
Put(s, e) == Append(s, e)

(* Lists are joined in any grouping.                                       *)
LEMMA JoinedTwice ==
  ASSUME NEW T, NEW a \in Seq(T), NEW b \in Seq(T), NEW c \in Seq(T)
  PROVE  Joined(Joined(a, b), c) = Joined(a, Joined(b, c))
  BY ConcatAssociative DEF Joined

(* To append behind a joined list is to append to its second part.         *)
LEMMA JoinedPut ==
  ASSUME NEW T, NEW a \in Seq(T), NEW s \in Seq(T), NEW e \in T
  PROVE  Put(Joined(a, s), e) = Joined(a, Put(s, e))
<1>1. <<e>> \in Seq(T) /\ a \o s \in Seq(T)
  BY ConcatProperties
<1>2. Append(a \o s, e) = (a \o s) \o <<e>> /\ Append(s, e) = s \o <<e>>
  BY <1>1, AppendIsConcat
<1>3. (a \o s) \o <<e>> = a \o (s \o <<e>>)
  BY <1>1, ConcatAssociative
<1>4. Append(a \o s, e) = a \o Append(s, e)
  BY <1>2, <1>3
<1> QED
  BY <1>4 DEF Joined, Put

(* Entries before the first x stay, whatever comes behind them.            *)
LEMMA WithoutKeeps ==
  ASSUME NEW T, NEW a \in Seq(T), NEW b \in Seq(T), NEW x,
         \A i \in 1 .. Len(a) : a[i] # x
  PROVE  /\ Without(b, x) \in Seq(T)
         /\ Without(Joined(a, b), x) = Joined(a, Without(b, x))
<1> DEFINE n == Len(a)
           c == a \o b
<1>1. /\ n \in Nat /\ Len(b) \in Nat /\ c \in Seq(T) /\ Len(c) = n + Len(b)
      /\ \A i \in 1 .. n : c[i] = a[i] /\ a[i] \in T
      /\ \A i \in 1 .. Len(b) : c[n + i] = b[i] /\ b[i] \in T
  <2>1. \A i \in 1 .. n + Len(b) : c[i] = IF i <= n THEN a[i] ELSE b[i - n]
    BY ConcatProperties
  <2>2. n \in Nat /\ Len(b) \in Nat /\ c \in Seq(T) /\ Len(c) = n + Len(b)
    BY ConcatProperties, LenProperties
  <2> HIDE DEF c, n
  <2>3. \A i \in 1 .. n : c[i] = a[i]
    BY <2>1, <2>2
  <2>4. ASSUME NEW i \in 1 .. Len(b) PROVE c[n + i] = b[i]
    <3>1. n + i \in 1 .. n + Len(b) /\ ~(n + i <= n) /\ (n + i) - n = i
      BY <2>2
    <3> QED
      BY <2>1, <3>1
  <2> QED
    BY <2>2, <2>3, <2>4, ElementOfSeq DEF n
<1>2. PICK f \in [0 .. Len(c) -> Seq(T)] : Appends(f, c, x) /\ Without(c, x) = f[Len(c)]
  <2>1. c \in Seq(T)
    BY <1>1
  <2> HIDE DEF c
  <2> QED
    BY ONLY <2>1, WithoutSteps, Zenon
<1>3. PICK g \in [0 .. Len(b) -> Seq(T)] : Appends(g, b, x) /\ Without(b, x) = g[Len(b)]
  BY WithoutSteps, Zenon
<1>4. \A k \in 0 .. n : f[k] = SubSeq(a, 1, k)
  <2> DEFINE I == {k \in 0 .. n : f[k] = SubSeq(a, 1, k)}
  <2>1. 0 \in I
    <3>1. SubSeq(a, 1, 0) = <<>> /\ f[0] = <<>>
      BY <1>2, SubSeqEmpty DEF Appends
    <3> QED
      BY <1>1, <3>1
  <2>2. ASSUME NEW k \in 1 .. n, k - 1 \in I PROVE k \in I
    <3> HIDE DEF c, n
    <3>1. f[k - 1] = SubSeq(a, 1, k - 1)
      BY <2>2
    <3>2. k \in 1 .. Len(c) /\ c[k] = a[k] /\ a[k] # x /\ a[k] \in T
      BY <1>1 DEF n
    <3>3. f[k] = Append(SubSeq(a, 1, k - 1), a[k])
      BY <3>1, <3>2, <1>2 DEF Appends
    <3>4. \A i \in 1 .. k - 1 : a[i] \in T
      BY <1>1
    <3>5. SubSeq(a, 1, k - 1) \in Seq(T)
      BY <3>4, <1>1, SubSeqProperties
    <3>6. Append(SubSeq(a, 1, k - 1), a[k]) = SubSeq(a, 1, k - 1) \o <<a[k]>>
      BY <3>5, <3>2, AppendIsConcat
    <3>7. SubSeq(a, 1, k) = SubSeq(a, 1, k - 1) \o <<a[k]>>
      <4>1. 1 \in 1 .. Len(a) /\ k \in 1 .. Len(a)
        BY <1>1 DEF n
      <4> QED
        BY <4>1, SubSeqRecursiveSecond
    <3> QED
      BY <3>3, <3>6, <3>7, k \in 0 .. n
  <2> HIDE DEF I, n
  <2>3. \A k \in 0 .. n : k \in I
    BY <2>1, <2>2, <1>1, LoopInduction
  <2> QED
    BY <2>3 DEF I
<1>5. \A k \in 0 .. Len(b) : f[n + k] = a \o g[k]
  <2> DEFINE I == {k \in 0 .. Len(b) : f[n + k] = a \o g[k]}
  <2>1. 0 \in I
    <3>1. f[n] = a
      <4>1. n \in 0 .. n
        BY <1>1
      <4> QED
        BY <4>1, <1>4, SubSeqFull
    <3>2. n + 0 = n /\ g[0] = <<>> /\ a \o <<>> = a
      BY <1>1, <1>3, ConcatEmptySeq DEF Appends
    <3> QED
      BY <3>1, <3>2
  <2>2. ASSUME NEW k \in 1 .. Len(b), k - 1 \in I PROVE k \in I
    <3> HIDE DEF c, n
    <3>1. k - 1 \in 0 .. Len(b) /\ f[n + (k - 1)] = a \o g[k - 1]
      BY <2>2
    <3>2. n + k \in 1 .. Len(c) /\ c[n + k] = b[k] /\ (n + k) - 1 = n + (k - 1) /\ b[k] \in T
      BY <1>1
    <3>3. f[n + k] = IF b[k] = x THEN a \o g[k - 1] ELSE Append(a \o g[k - 1], b[k])
      BY <3>1, <3>2, <1>2 DEF Appends
    <3>4. g[k] = IF b[k] = x THEN g[k - 1] ELSE Append(g[k - 1], b[k])
      BY <1>3 DEF Appends
    <3>5. g[k - 1] \in Seq(T) /\ a \o g[k - 1] \in Seq(T) /\ <<b[k]>> \in Seq(T)
      <4>1. g[k - 1] \in Seq(T)
        BY <3>1, <1>3
      <4>2. a \o g[k - 1] \in Seq(T)
        BY <4>1, ConcatProperties
      <4> QED
        BY <4>1, <4>2, <3>2
    <3>6. Append(a \o g[k - 1], b[k]) = a \o Append(g[k - 1], b[k])
      <4>1. g[k - 1] \in Seq(T) /\ b[k] \in T /\ a \in Seq(T)
        BY <3>5, <3>2
      <4>2. Put(Joined(a, g[k - 1]), b[k]) = Joined(a, Put(g[k - 1], b[k]))
        BY ONLY <4>1, JoinedPut, SMT
      <4> QED
        BY <4>2 DEF Joined, Put
    <3> QED
      BY <3>3, <3>4, <3>6, k \in 0 .. Len(b)
  <2> HIDE DEF I
  <2>3. \A k \in 0 .. Len(b) : k \in I
    BY <2>1, <2>2, <1>1, LoopInduction
  <2> QED
    BY <2>3 DEF I
<1>6. Len(b) \in 0 .. Len(b)
  BY <1>1
<1>7. Without(c, x) = a \o Without(b, x)
  BY <1>1, <1>2, <1>3, <1>5, <1>6
<1> QED
  BY <1>3, <1>6, <1>7 DEF Joined

-----------------------------------------------------------------------------
(* Lists of times *)

(* Where the entries of joined lists of times are.                         *)
LEMMA JoinedLists ==
  ASSUME NEW a \in Seq(Int), NEW b \in Seq(Int)
  PROVE  /\ a \o b \in Seq(Int) /\ Len(a \o b) = Len(a) + Len(b)
         /\ Len(a) \in Nat /\ Len(b) \in Nat
         /\ \A i \in 1 .. Len(a) : (a \o b)[i] = a[i] /\ a[i] \in Int
         /\ \A i \in 1 .. Len(b) : (a \o b)[Len(a) + i] = b[i] /\ b[i] \in Int
<1> DEFINE c == a \o b
           n == Len(a)
<1>1. \A i \in 1 .. n + Len(b) : c[i] = IF i <= n THEN a[i] ELSE b[i - n]
  BY ConcatProperties
<1>2. n \in Nat /\ Len(b) \in Nat /\ c \in Seq(Int) /\ Len(c) = n + Len(b)
  BY ConcatProperties, LenProperties
<1> HIDE DEF c, n
<1>3. \A i \in 1 .. n : c[i] = a[i]
  BY <1>1, <1>2
<1>4. ASSUME NEW i \in 1 .. Len(b) PROVE c[n + i] = b[i]
  <2>1. n + i \in 1 .. n + Len(b) /\ ~(n + i <= n) /\ (n + i) - n = i
    BY <1>2
  <2> QED
    BY <1>1, <2>1
<1> QED
  BY <1>2, <1>3, <1>4, ElementOfSeq DEF n, c

(* The beginning of a list that another list is.                           *)
LEMMA BeginningIs ==
  ASSUME NEW s \in Seq(Int), NEW t, Len(t) \in Nat, Len(s) <= Len(t),
         \A i \in 1 .. Len(s) : t[i] = s[i]
  PROVE  SubSeq(t, 1, Len(s)) = s
<1> DEFINE n == Len(s)
<1>1. n \in Nat /\ \A i \in 1 .. n : t[i] \in Int
  BY LenProperties, ElementOfSeq
<1>2. /\ SubSeq(t, 1, n) \in Seq(Int) /\ Len(SubSeq(t, 1, n)) = n
      /\ \A i \in 1 .. n : SubSeq(t, 1, n)[i] = s[i]
  BY <1>1, SubSeqProperties
<1> QED
  BY <1>2, SeqEqual

(* The first of two joined lists.                                          *)
LEMMA BeginningOfJoined ==
  ASSUME NEW a \in Seq(Int), NEW b \in Seq(Int)
  PROVE  SubSeq(a \o b, 1, Len(a)) = a
<1> DEFINE c == a \o b
<1>1. Len(c) \in Nat /\ Len(a) <= Len(c) /\ \A i \in 1 .. Len(a) : c[i] = a[i]
  BY JoinedLists
<1> HIDE DEF c
<1>2. SubSeq(c, 1, Len(a)) = a
  BY <1>1, BeginningIs
<1> QED
  BY <1>2 DEF c

(* Times rise on if the second list begins after the first one ends.       *)
LEMMA RisingJoined ==
  ASSUME NEW a \in Seq(Int), NEW b \in Seq(Int), a # <<>>, b # <<>>,
         Rising(a), Rising(b), Last(a) < b[1]
  PROVE  Rising(a \o b)
<1> DEFINE c == a \o b
           n == Len(a)
           m == Len(b)
<1>1. /\ n \in Nat \ {0} /\ m \in Nat \ {0} /\ Len(c) = n + m
      /\ \A i \in 1 .. n : c[i] = a[i]
      /\ \A i \in 1 .. m : c[n + i] = b[i]
  BY JoinedLists, EmptySeq
<1>2. /\ a[n] < b[1]
      /\ \A i \in 1 .. n - 1 : a[i] < a[i + 1]
      /\ \A i \in 1 .. m - 1 : b[i] < b[i + 1]
  BY DEF Rising, Last
<1> HIDE DEF c, n, m
<1>3. ASSUME NEW i \in 1 .. (n + m) - 1 PROVE c[i] < c[i + 1]
  <2>1. CASE i < n
    BY <1>1, <1>2, <2>1
  <2>2. CASE i = n
    <3>1. c[n] = a[n] /\ c[n + 1] = b[1]
      BY <1>1
    <3> QED
      BY <1>2, <2>2, <3>1
  <2>3. CASE i > n
    <3> DEFINE j == i - n
    <3>1. j \in 1 .. m - 1 /\ j \in 1 .. m /\ j + 1 \in 1 .. m /\ n + j = i /\ n + (j + 1) = i + 1
      BY <1>1, <2>3
    <3> HIDE DEF j
    <3>2. c[n + j] = b[j] /\ c[n + (j + 1)] = b[j + 1] /\ b[j] < b[j + 1]
      BY <1>1, <1>2, <3>1
    <3> QED
      BY <3>1, <3>2
  <2> QED
    BY <1>1, <2>1, <2>2, <2>3
<1> QED
  BY <1>1, <1>3 DEF Rising, c

(* A list of one time.                                                     *)
LEMMA OneTime ==
  ASSUME NEW t \in Int
  PROVE  /\ <<t>> \in Seq(Int) /\ <<t>> # <<>> /\ Len(<<t>>) = 1
         /\ <<t>>[1] = t /\ Rising(<<t>>) /\ Last(<<t>>) = t
  BY DEF Rising, Last

(* Times after the start, and times that rise, as those of a segment do.   *)
Timed(times) ==
  /\ times \in Seq(Int) /\ times # <<>>
  /\ \A i \in 1 .. Len(times) : times[i] > 0
Finishes(times) == Timed(times) /\ Rising(times)

(* They have a last, and are what comes behind the start, if the start has *)
(* a record.                                                               *)
LEMMA TimedLast ==
  ASSUME NEW times, Timed(times)
  PROVE  /\ times \in Seq(Int) /\ Len(times) \in Nat \ {0}
         /\ Last(times) \in Int /\ Last(times) > 0 /\ times[1] > 0
<1>1. times \in Seq(Int) /\ Len(times) \in Nat \ {0}
  BY EmptySeq, LenProperties DEF Timed
<1> QED
  BY <1>1, ElementOfSeq DEF Timed, Last

(* The marker of the start, if it is there, is what WithoutStart takes     *)
(* away, and nothing else.                                                 *)
LEMMA StartDropped ==
  ASSUME NEW start \in {<<>>, <<StartMarker>>}, NEW times, Timed(times)
  PROVE  /\ start \o times \in Seq(Int) /\ start \o times # <<>>
         /\ Rising(times) => Rising(start \o times)
         /\ Last(start \o times) = Last(times)
         /\ WithoutStart(start \o times) = times
         /\ \A i \in 1 .. Len(start \o times) : (start \o times)[i] # Control
<1>1. /\ times \in Seq(Int) /\ Len(times) \in Nat \ {0} /\ times # <<>>
      /\ \A i \in 1 .. Len(times) : times[i] > 0 /\ times[i] \in Int
  BY TimedLast, ElementOfSeq DEF Timed
<1>2. CASE start = <<>>
  <2>1. start \o times = times
    BY <1>1, <1>2, ConcatEmptySeq
  <2>2. times[1] > 0 /\ times[1] # StartMarker
    BY <1>1 DEF StartMarker
  <2>3. WithoutStart(times) = times
    BY <2>2 DEF WithoutStart
  <2> QED
    BY <1>1, <2>1, <2>3 DEF Control
<1>3. CASE start = <<StartMarker>>
  <2> DEFINE z == <<StartMarker>>
             c == z \o times
  <2>1. z \in Seq(Int) /\ z # <<>> /\ Len(z) = 1 /\ Rising(z) /\ Last(z) = 0 /\ z[1] = 0
    BY OneTime DEF StartMarker
  <2> HIDE DEF z
  <2>2. /\ c \in Seq(Int) /\ Len(c) = 1 + Len(times)
        /\ c[1] = 0 /\ \A i \in 1 .. Len(times) : c[1 + i] = times[i]
    <3>1. /\ c \in Seq(Int) /\ Len(c) = Len(z) + Len(times)
          /\ \A i \in 1 .. Len(z) : c[i] = z[i]
          /\ \A i \in 1 .. Len(times) : c[Len(z) + i] = times[i]
      <4>1. z \in Seq(Int) /\ times \in Seq(Int)
        BY <1>1, <2>1
      <4> QED
        BY ONLY <4>1, JoinedLists
    <3> HIDE DEF c
    <3> QED
      BY <2>1, <3>1
  <2>3. ASSUME Rising(times) PROVE Rising(c)
    <3>1. Last(z) < times[1]
      BY <1>1, <2>1
    <3> QED
      BY <1>1, <2>1, <2>3, <3>1, RisingJoined
  <2> HIDE DEF c
  <2>4. c # <<>>
    BY <1>1, <2>2, EmptySeq
  <2>5. Last(c) = Last(times)
    <3>1. Len(times) \in 1 .. Len(times) /\ Len(c) = 1 + Len(times)
      BY <1>1, <2>2
    <3> QED
      BY <2>2, <3>1 DEF Last
  <2>6. WithoutStart(c) = times
    <3>1. WithoutStart(c) = Tail(c)
      BY <2>2, <2>4 DEF WithoutStart, StartMarker
    <3>2. /\ Tail(c) \in Seq(Int) /\ Len(Tail(c)) = Len(times)
          /\ \A i \in 1 .. Len(times) : Tail(c)[i] = c[i + 1]
      BY <1>1, <2>2, <2>4, HeadTailProperties
    <3>3. \A i \in 1 .. Len(times) : Tail(c)[i] = times[i]
      <4>1. \A i \in 1 .. Len(times) : i + 1 = 1 + i
        OBVIOUS
      <4> QED
        BY <2>2, <3>2, <4>1
    <3>4. Tail(c) = times
      BY <1>1, <3>2, <3>3, SeqEqual
    <3> QED
      BY <3>1, <3>4
  <2>7. ASSUME NEW i \in 1 .. Len(c) PROVE c[i] # Control
    <3>1. CASE i = 1
      BY <2>2, <3>1 DEF Control
    <3>2. CASE i # 1
      <4>1. i - 1 \in 1 .. Len(times) /\ 1 + (i - 1) = i
        BY <1>1, <2>2, <3>2
      <4>2. c[i] = times[i - 1] /\ times[i - 1] > 0 /\ times[i - 1] \in Int
        BY <1>1, <2>2, <4>1
      <4> QED
        BY <4>2 DEF Control
    <3> QED
      BY <3>1, <3>2
  <2> QED
    BY <1>3, <2>2, <2>3, <2>4, <2>5, <2>6, <2>7 DEF c, z
<1> QED
  BY <1>2, <1>3

(* A stop behind the laps of a segment.                                    *)
LEMMA StopBehind ==
  ASSUME NEW laps, Timed(laps), NEW stop \in Int, stop > 0
  PROVE  /\ Timed(laps \o <<stop>>) /\ Len(laps \o <<stop>>) = Len(laps) + 1
         /\ Front(laps \o <<stop>>) = laps /\ Last(laps \o <<stop>>) = stop
         /\ Rising(laps) /\ Last(laps) < stop => Rising(laps \o <<stop>>)
<1> DEFINE z == <<stop>>
           c == laps \o z
<1>1. z \in Seq(Int) /\ z # <<>> /\ Len(z) = 1 /\ Rising(z) /\ z[1] = stop
  BY OneTime
<1>2. /\ laps \in Seq(Int) /\ Len(laps) \in Nat \ {0} /\ Last(laps) \in Int
      /\ laps # <<>> /\ \A i \in 1 .. Len(laps) : laps[i] > 0
  BY TimedLast DEF Timed
<1> HIDE DEF z
<1>3. /\ c \in Seq(Int) /\ Len(c) = Len(laps) + 1
      /\ \A i \in 1 .. Len(laps) : c[i] = laps[i]
      /\ c[Len(laps) + 1] = stop
  <2>1. /\ c \in Seq(Int) /\ Len(c) = Len(laps) + Len(z)
        /\ \A i \in 1 .. Len(laps) : c[i] = laps[i]
        /\ \A i \in 1 .. Len(z) : c[Len(laps) + i] = z[i]
    BY <1>1, <1>2, JoinedLists
  <2> HIDE DEF c
  <2> QED
    BY <1>1, <2>1
<1>4. SubSeq(c, 1, Len(laps)) = laps
  BY <1>1, <1>2, BeginningOfJoined
<1>5. Rising(laps) /\ Last(laps) < stop => Rising(c)
  BY <1>1, <1>2, RisingJoined
<1> HIDE DEF c
<1>6. Front(c) = laps
  <2>1. Len(c) - 1 = Len(laps)
    BY <1>2, <1>3
  <2> QED
    BY <1>4, <2>1 DEF Front
<1>7. Last(c) = stop
  BY <1>3 DEF Last
<1>8. Timed(c)
  <2>1. \A i \in 1 .. Len(c) : c[i] > 0
    <3>1. \A i \in 1 .. Len(c) : i \in 1 .. Len(laps) \/ i = Len(laps) + 1
      BY <1>2, <1>3
    <3> QED
      BY <1>2, <1>3, <3>1
  <2>2. c # <<>>
    BY <1>2, <1>3, EmptySeq
  <2> QED
    BY <1>3, <2>1, <2>2 DEF Timed
<1> QED
  BY <1>3, <1>5, <1>6, <1>7, <1>8 DEF c, z

-----------------------------------------------------------------------------
(* The passes over a block *)

(* A list that has no x is kept as it is.                                  *)
LEMMA WithoutNone ==
  ASSUME NEW S, NEW list \in Seq(S), NEW x, \A i \in 1 .. Len(list) : list[i] # x
  PROVE  Without(list, x) = list
<1> DEFINE none == <<>>
<1>1. none \in Seq(S) /\ Len(none) = 0 /\ Joined(list, none) = list
  BY ConcatEmptySeq DEF Joined
<1> HIDE DEF none
<1>2. Without(Joined(list, none), x) = Joined(list, Without(none, x))
  <2>1. none \in Seq(S)
    BY <1>1
  <2> QED
    BY <2>1, WithoutKeeps
<1>3. PICK f \in [0 .. Len(none) -> Seq(S)] :
        Appends(f, none, x) /\ Without(none, x) = f[Len(none)]
  BY <1>1, WithoutSteps, Zenon
<1>4. Without(none, x) = none
  BY <1>1, <1>3 DEF Appends, none
<1>5. Without(Joined(list, none), x) = Joined(list, none)
  BY <1>2, <1>4
<1> QED
  BY <1>1, <1>5

(* Nothing is cut off times that rise.                                     *)
LEMMA NoReset ==
  ASSUME NEW times \in Seq(Int), Rising(times)
  PROVE  Resets(times) = {} /\ Trimmed(times) = times
<1>1. ASSUME NEW i \in Resets(times) PROVE FALSE
  <2>1. i - 1 \in 1 .. Len(times) - 1 /\ (i - 1) + 1 = i /\ times[i] <= times[i - 1]
    BY LenProperties DEF Resets
  <2>2. times[i - 1] < times[(i - 1) + 1]
    BY <2>1 DEF Rising
  <2>3. times[i] \in Int /\ times[i - 1] \in Int
    BY <2>1, LenProperties, ElementOfSeq DEF Resets
  <2> QED
    BY <2>1, <2>2, <2>3
<1>2. Resets(times) = {}
  BY <1>1
<1> QED
  BY <1>2 DEF Trimmed

(* Times that nothing follows, or times that begin anew.                   *)
BeginsAnew(last, s) == s = <<>> \/ s[1] <= Last(last)

(* What the footer counts, if not the times themselves tell.               *)
CountFits(last, s, i, footer) ==
  /\ footer.records \in {0, Len(last)}
  /\ BeginsAnew(last, s) \/ (footer.records # 0 /\ i = footer.selected)

(* The trim and the footer's count leave exactly the records of the last   *)
(* segment: either the times behind them tell where it ends, or the count. *)
LEMMA LastBlockCounted ==
  ASSUME NEW last \in Seq(Int), last # <<>>, Rising(last), NEW s \in Seq(Int),
         NEW i, NEW footer, CountFits(last, s, i, footer)
  PROVE  Counted(Trimmed(Joined(last, s)), i, footer) = last
<1> SUFFICES Counted(Trimmed(last \o s), i, footer) = last
  BY DEF Joined
<1> USE DEF CountFits
<1> DEFINE n == Len(last)
<1>1. n \in Nat \ {0}
  BY EmptySeq, LenProperties
<1>2. CASE BeginsAnew(last, s)
  <2>1. Trimmed(last \o s) = last
    <3>1. CASE s = <<>>
      <4>1. last \o s = last
        BY <3>1, ConcatEmptySeq
      <4> QED
        BY <4>1, NoReset
    <3>2. CASE s # <<>>
      <4>1. s[1] <= last[Len(last)]
        BY <1>2, <3>2 DEF Last, BeginsAnew
      <4> QED
        BY <3>2, <4>1, SegmentKept
    <3> QED
      BY <3>1, <3>2
  <2>2. SubSeq(last, 1, n) = last
    BY SubSeqFull
  <2>3. Counted(last, i, footer) = last
    <3>1. footer.records \in 1 .. Len(last) => footer.records = n
      OBVIOUS
    <3> HIDE DEF n
    <3> QED
      BY <2>2, <3>1 DEF Counted
  <2> QED
    BY <2>1, <2>3
<1>3. CASE footer.records # 0 /\ i = footer.selected
  <2> DEFINE c == last \o s
             t == Trimmed(c)
  <2>1. c \in Seq(Int) /\ \A j \in 1 .. n : c[j] = last[j] /\ last[j] \in Int
    BY JoinedLists
  <2> HIDE DEF c
  <2>2. /\ t \in Seq(Int) /\ Len(t) <= Len(c)
        /\ \A j \in 1 .. Len(t) : t[j] = c[j]
        /\ Len(t) < Len(c) => Len(t) >= 1 /\ c[Len(t) + 1] <= c[Len(t)]
    BY <2>1, TrimRises, Zenon
  <2>3. Len(c) \in Nat /\ n <= Len(c) /\ Len(t) \in Nat
    <3>1. Len(c) = n + Len(s) /\ Len(s) \in Nat
      BY JoinedLists DEF c
    <3> QED
      BY <1>1, <2>2, <3>1, LenProperties
  <2> HIDE DEF t
  <2>4. n <= Len(t)
    <3> SUFFICES ASSUME Len(t) < n PROVE FALSE
      BY <1>1, <2>3
    <3> DEFINE k == Len(t)
    <3>1. k >= 1 /\ c[k + 1] <= c[k] /\ k \in Nat /\ k \in 1 .. n - 1 /\ k \in 1 .. n /\ k + 1 \in 1 .. n
      BY <1>1, <2>2, <2>3
    <3>2. last[k] < last[k + 1]
      BY <3>1 DEF Rising
    <3> HIDE DEF k
    <3> QED
      BY <2>1, <3>1, <3>2
  <2>5. \A j \in 1 .. Len(last) : t[j] = last[j]
    <3>1. \A j \in 1 .. n : j \in 1 .. Len(t)
      BY <1>1, <2>3, <2>4
    <3> QED
      BY <2>1, <2>2, <3>1
  <2>6. SubSeq(t, 1, Len(last)) = last
    BY <2>3, <2>4, <2>5, BeginningIs
  <2>7. footer.records = Len(last) /\ footer.records \in 1 .. Len(t)
    BY <1>1, <1>3, <2>3, <2>4
  <2>8. Counted(t, i, footer) = SubSeq(t, 1, Len(last))
    BY <1>3, <2>7 DEF Counted
  <2> QED
    BY <2>6, <2>8 DEF t, c
<1> QED
  BY <1>2, <1>3

(* Rising times have no two stops at their end, so that the last one goes  *)
(* for the reasons the code has for it only.                               *)
LEMMA EndsOnce ==
  ASSUME NEW times, Finishes(times), NEW stop \in Int
  PROVE  times # <<>> /\ ~EndsTwice(times, stop)
<1> SUFFICES ASSUME EndsTwice(times, stop) PROVE FALSE
  BY DEF Finishes, Timed
<1> DEFINE n == Len(times)
<1>1. n \in Nat /\ n >= 2 /\ times[n] = stop /\ times[n - 1] = stop
  BY TimedLast DEF EndsTwice, EndsAtStop, Last, Finishes
<1>2. n - 1 \in 1 .. n - 1 /\ (n - 1) + 1 = n
  BY <1>1
<1>3. times[n - 1] < times[(n - 1) + 1]
  BY <1>2 DEF Finishes, Rising
<1> HIDE DEF n
<1> QED
  BY <1>1, <1>2, <1>3

-----------------------------------------------------------------------------
(* A download *)

(* SeqOf has sequences.                                                    *)
LEMMA BoundedIsSeq ==
  ASSUME NEW S, NEW n \in Nat, NEW s \in SeqOf(S, n)
  PROVE  s \in Seq(S)
<1>1. PICK k \in 0 .. n : s \in [1 .. k -> S]
  BY DEF SeqOf
<1> QED
  BY <1>1, SeqDef

(* The times of the watch are numbers after 0.                             *)
LEMMA TimesAreNumbers ==
  ASSUME NEW s \in Seq(Time)
  PROVE  s \in Seq(Int) /\ \A i \in 1 .. Len(s) : s[i] > 0 /\ s[i] \in Int
<1>1. \A t \in Time : t \in Int /\ t > 0
  BY UploadAssumption
<1>2. \A i \in 1 .. Len(s) : s[i] \in Time
  BY ElementOfSeq
<1>3. Time \subseteq Int
  BY <1>1
<1>4. s \in Seq(Int)
  BY ONLY <1>3, s \in Seq(Time), SeqMonotonic
<1> QED
  BY <1>1, <1>2, <1>4

(* What is known of a segment, and of a memory.                            *)
LEMMA SegmentIs ==
  ASSUME NEW x \in Segment
  PROVE  /\ x.start \in {<<>>, <<StartMarker>>} /\ Finishes(x.laps)
         /\ x.stop \in Int /\ x.stop > 0 /\ Last(x.laps) <= x.stop
<1>1. /\ x.laps \in Laps /\ x.stop \in Time /\ x.start \in {<<>>, <<StartMarker>>}
      /\ Last(x.laps) <= x.stop
  BY DEF Segment
<1>2. x.laps \in Seq(Time) /\ x.laps # <<>> /\ Rising(x.laps)
  BY <1>1, BoundedIsSeq, UploadAssumption DEF Laps
<1>3. Finishes(x.laps)
  BY <1>2, TimesAreNumbers DEF Finishes, Timed
<1>4. x.stop \in Int /\ x.stop > 0
  <2>1. \A t \in Time : t \in Int /\ t > 0
    BY UploadAssumption
  <2> QED
    BY <1>1, <2>1, Zenon
<1> QED
  BY <1>1, <1>3, <1>4, Zenon

LEMMA MemoryIs ==
  ASSUME NEW m \in Memory
  PROVE  /\ Len(m) \in Nat \ {0}
         /\ \A i \in 1 .. Len(m) :
              m[i] \in Segment /\ (i < Len(m) => Last(m[i].laps) < m[i].stop)
<1>1. /\ m \in SeqOf(Segment, MaxSegments) /\ m # <<>>
      /\ \A i \in 1 .. Len(m) - 1 : Last(m[i].laps) < m[i].stop
  BY DEF Memory
<1>2. m \in Seq(Segment)
  BY <1>1, BoundedIsSeq, UploadAssumption
<1>3. Len(m) \in Nat \ {0}
  BY <1>1, <1>2, EmptySeq, LenProperties
<1>4. ASSUME NEW i \in 1 .. Len(m), i < Len(m) PROVE Last(m[i].laps) < m[i].stop
  <2>1. i \in 1 .. Len(m) - 1
    BY <1>3, <1>4
  <2> QED
    BY <1>1, <2>1
<1> QED
  BY <1>2, <1>3, <1>4, ElementOfSeq

(* The records of a block: the start, if it has one, and times.            *)
LEMMA BlockIs ==
  ASSUME NEW m \in Memory, NEW i \in 1 .. Len(m), NEW stopped \in BOOLEAN
  PROVE  Block(m, i, stopped) =
           IF i < Len(m) \/ stopped THEN m[i].start \o (m[i].laps \o <<m[i].stop>>)
           ELSE m[i].start \o m[i].laps
<1> DEFINE start == m[i].start
           laps == m[i].laps
           stop == m[i].stop
<1>1. start \in Seq(Int) /\ laps \in Seq(Int) /\ <<stop>> \in Seq(Int)
  <2>1. m[i].start \in {<<>>, <<StartMarker>>} /\ Finishes(m[i].laps) /\ m[i].stop \in Int
    BY MemoryIs, SegmentIs
  <2>2. <<StartMarker>> \in Seq(Int) /\ <<>> \in Seq(Int)
    BY DEF StartMarker
  <2>3. start \in Seq(Int)
    BY <2>1, <2>2
  <2>4. laps \in Seq(Int)
    BY <2>1 DEF Finishes, Timed
  <2>5. <<stop>> \in Seq(Int)
    BY <2>1, OneTime
  <2> QED
    BY <2>3, <2>4, <2>5
<1>2. Block(m, i, stopped) =
        (start \o laps) \o (IF i < Len(m) \/ stopped THEN <<stop>> ELSE <<>>)
  BY DEF Block
<1> HIDE DEF start, laps, stop
<1>3. start \o laps \in Seq(Int)
  BY <1>1, ConcatProperties
<1>4. (start \o laps) \o <<>> = start \o laps
  BY <1>3, ConcatEmptySeq
<1>5. (start \o laps) \o <<stop>> = start \o (laps \o <<stop>>)
  BY <1>1, ConcatAssociative
<1> QED
  BY <1>2, <1>4, <1>5 DEF start, laps, stop

(* What the upload has as its blocks: those of the segments, with what     *)
(* follows the last one, and perhaps one more.                             *)
LastAnd(m, stopped, stale) ==
  [i \in 1 .. Len(m) |->
     IF i < Len(m) THEN Block(m, i, stopped) ELSE Block(m, i, stopped) \o stale]

(* A block is not empty, which is what an unused one is, and no record of  *)
(* a segment is a control record.                                          *)
LEMMA BlockFilled ==
  ASSUME NEW m \in Memory, NEW i \in 1 .. Len(m), NEW stopped \in BOOLEAN
  PROVE  /\ Block(m, i, stopped) \in Seq(Int) /\ Block(m, i, stopped) # <<>>
         /\ \A j \in 1 .. Len(Block(m, i, stopped)) : Block(m, i, stopped)[j] # Control
<1>1. /\ m[i].start \in {<<>>, <<StartMarker>>} /\ Timed(m[i].laps)
      /\ m[i].stop \in Int /\ m[i].stop > 0
  BY MemoryIs, SegmentIs DEF Finishes
<1>2. Timed(m[i].laps \o <<m[i].stop>>)
  BY <1>1, StopBehind
<1>3. PICK times : Timed(times) /\ Block(m, i, stopped) = m[i].start \o times
  BY <1>1, <1>2, BlockIs
<1> QED
  BY <1>1, <1>3, StartDropped

(* The parser goes through the segments of the memory: neither the count   *)
(* of the footer nor older segments behind them lead it astray.            *)
LEMMA ActiveIs ==
  ASSUME NEW m \in Memory, NEW stopped \in BOOLEAN, NEW stale \in Seq(Int),
         NEW footer, footer.segments \in {Len(m), Len(m) + 1},
         NEW blocks \in Blocks(m, stopped, stale, footer),
         NEW upload, upload.blocks = blocks, upload.footer = footer
  PROVE  /\ Len(Active(upload)) = Len(m)
         /\ \A i \in 1 .. Len(m) : Active(upload)[i] = LastAnd(m, stopped, stale)[i]
<1> DEFINE n == Len(m)
           S == Seq(Int)
           base == LastAnd(m, stopped, stale)
<1>1. n \in Nat \ {0}
  BY MemoryIs
<1>2. \A i \in 1 .. n : base[i] \in S /\ base[i] # <<>>
  <2> SUFFICES ASSUME NEW i \in 1 .. n
               PROVE  base[i] \in S /\ base[i] # <<>>
    OBVIOUS
  <2> DEFINE b == Block(m, i, stopped)
  <2>1. b \in Seq(Int) /\ b # <<>>
    BY BlockFilled
  <2> HIDE DEF b
  <2>2. b \o stale \in Seq(Int) /\ b \o stale # <<>>
    <3>1. /\ b \o stale \in Seq(Int) /\ Len(b \o stale) = Len(b) + Len(stale)
          /\ Len(b) \in Nat /\ Len(stale) \in Nat /\ Len(b) # 0
      BY <2>1, JoinedLists, EmptySeq
    <3> QED
      BY <3>1, EmptySeq
  <2>3. base[i] = IF i < n THEN b ELSE b \o stale
    BY DEF LastAnd, b
  <2> QED
    BY <2>1, <2>2, <2>3
<1>3. Len(base) = n /\ base \in Seq(S)
  <2>1. base = [i \in 1 .. n |-> base[i]]
    BY DEF LastAnd
  <2> HIDE DEF base, n, S
  <2>2. base \in [1 .. n -> S]
    BY <1>2, <2>1
  <2> QED
    BY <1>1, <2>2, LenProperties, IsASeq
<1>4. /\ blocks \in Seq(S) /\ Len(blocks) \in Nat /\ n <= Len(blocks) /\ Len(blocks) <= n + 1
      /\ \A i \in 1 .. n : blocks[i] = base[i]
      /\ \A i \in 1 .. Len(blocks) : blocks[i] # <<>>
      /\ Len(blocks) = n \/ footer.segments = n
  <2>1. \/ blocks = base
        \/ footer.segments = n /\ \E t \in Time : blocks = Append(base, <<t>>)
    <3>1. blocks \in {base} \cup {Append(base, <<t>>) :
                             t \in IF footer.segments = n THEN Time ELSE {}}
      BY DEF Blocks, LastAnd
    <3> HIDE DEF base, n
    <3> QED
      BY <3>1
  <2> HIDE DEF base, n
  <2>2. CASE blocks = base
    BY <1>1, <1>2, <1>3, <2>2
  <2>3. CASE footer.segments = n /\ \E t \in Time : blocks = Append(base, <<t>>)
    <3>1. PICK t \in Time : blocks = Append(base, <<t>>)
      BY <2>3
    <3> DEFINE e == <<t>>
    <3>2. e \in S /\ e # <<>>
      BY OneTime, UploadAssumption
    <3> HIDE DEF e, S
    <3>3. /\ blocks \in Seq(S) /\ Len(blocks) = n + 1
          /\ blocks[n + 1] = e
          /\ \A i \in 1 .. n : blocks[i] = base[i]
      <4>1. blocks = Append(base, e)
        BY <3>1 DEF e
      <4> QED
        BY <1>1, <1>3, <3>2, <4>1, AppendProperties
    <3>4. \A i \in 1 .. Len(blocks) : i \in 1 .. n \/ i = n + 1
      BY <1>1, <3>3
    <3> QED
      BY <1>1, <1>2, <2>3, <3>2, <3>3, <3>4
  <2> QED
    BY <2>1, <2>2, <2>3
<1> HIDE DEF base, n, S
<1>5. Without(blocks, <<>>) = blocks
  BY <1>4, WithoutNone
<1>6. Active(upload) = IF footer.segments \in 1 .. Len(blocks)
                       THEN SubSeq(blocks, 1, footer.segments) ELSE blocks
  BY <1>5, Zenon DEF Active
<1>7. CASE footer.segments = n
  <2>1. Active(upload) = SubSeq(blocks, 1, n)
    BY <1>1, <1>4, <1>6, <1>7
  <2>2. \A i \in 1 .. n : blocks[i] \in S
    BY <1>2, <1>4
  <2>3. Len(SubSeq(blocks, 1, n)) = n /\ \A i \in 1 .. n : SubSeq(blocks, 1, n)[i] = blocks[i]
    BY <1>1, <2>2, SubSeqProperties
  <2> QED
    BY <1>4, <2>1, <2>3 DEF n, base
<1>8. CASE footer.segments # n
  <2>1. footer.segments = n + 1 /\ Len(blocks) = n
    BY <1>4, <1>8 DEF n
  <2>2. ~(footer.segments \in 1 .. Len(blocks))
    BY <1>1, <2>1
  <2>3. Active(upload) = blocks
    BY <1>6, <2>2
  <2> QED
    BY <1>4, <2>1, <2>3 DEF n, base
<1> QED
  BY <1>7, <1>8

(* The times of a segment as they are sanitized.                           *)
ParsedTimes(block, i, n, footer, include) ==
  Sanitized(Counted(Trimmed(Timeline(block)), i, footer), footer.stop, i = n,
            include, Resets(Timeline(block)) # {})

(* A segment before the last has its stop, which is dropped.               *)
LEMMA EarlierBlock ==
  ASSUME NEW m \in Memory, NEW i \in 1 .. Len(m), i < Len(m), NEW stopped \in BOOLEAN,
         NEW footer, footer.selected \in {Len(m), Len(m) + 1}, footer.stop \in Int,
         NEW include \in BOOLEAN
  PROVE  ParsedTimes(Block(m, i, stopped), i, Len(m), footer, include) = m[i].laps
<1> DEFINE start == m[i].start
           laps == m[i].laps
           stop == m[i].stop
           t == laps \o <<stop>>
           block == Block(m, i, stopped)
<1>1. /\ start \in {<<>>, <<StartMarker>>} /\ Timed(laps) /\ Rising(laps)
      /\ stop \in Int /\ stop > 0 /\ Last(laps) < stop
  BY MemoryIs, SegmentIs DEF Finishes
<1>2. block = start \o t
  BY BlockIs
<1>3. block \in Seq(Int) /\ \A j \in 1 .. Len(block) : block[j] # Control
  BY BlockFilled
<1>4. Len(m) \in Nat /\ i # footer.selected /\ i # Len(m)
  BY MemoryIs
<1> HIDE DEF start, laps, stop, block
<1>5. Finishes(t) /\ Front(t) = laps
  BY <1>1, StopBehind DEF Finishes
<1> HIDE DEF t
<1>6. Rising(block)
  BY <1>1, <1>2, <1>5, StartDropped DEF Finishes
<1>7. Timeline(block) = block
  BY <1>3, WithoutNone DEF Timeline
<1>8. Trimmed(block) = block /\ Resets(block) = {}
  BY <1>3, <1>6, NoReset
<1>9. Counted(block, i, footer) = block
  BY <1>4 DEF Counted
<1>10. Sanitized(block, footer.stop, FALSE, include, FALSE) = laps
  <2>1. WithoutStart(block) = t /\ t # <<>>
    BY <1>1, <1>2, <1>5, StartDropped DEF Finishes, Timed
  <2> QED
    BY <1>5, <2>1 DEF Sanitized, EndDropped
<1>11. ParsedTimes(block, i, Len(m), footer, include) =
         Sanitized(block, footer.stop, FALSE, include, FALSE)
  BY <1>4, <1>7, <1>8, <1>9, Zenon DEF ParsedTimes
<1> QED
  BY <1>10, <1>11 DEF block, laps

(* Records from before are times and control records.                      *)
LEMMA StaleTimes ==
  ASSUME NEW last, NEW stale \in Stale(last)
  PROVE  stale \in Seq(Int)
<1>1. ASSUME NEW s \in SeqOf(Time, MaxStale) PROVE s \in Seq(Int)
  BY BoundedIsSeq, TimesAreNumbers, UploadAssumption
<1>2. <<Control>> \in Seq(Int) /\ <<>> \in Seq(Int)
  BY DEF Control
<1>3. \/ stale = <<>> \/ stale \in SeqOf(Time, MaxStale)
      \/ \E s \in SeqOf(Time, MaxStale) : stale = <<Control>> \o s
  BY DEF Stale
<1>4. CASE \E s \in SeqOf(Time, MaxStale) : stale = <<Control>> \o s
  <2>1. PICK s \in SeqOf(Time, MaxStale) : stale = <<Control>> \o s
    BY <1>4
  <2>2. s \in Seq(Int)
    BY <1>1
  <2> QED
    BY <1>2, <2>1, <2>2, ConcatProperties
<1> QED
  BY <1>1, <1>2, <1>3, <1>4

(* What comes behind the last segment adds nothing to it, and the segment  *)
(* loses nothing but, without the operator's choice, a time at its end.    *)
LEMMA LastBlock ==
  ASSUME NEW m \in Memory, NEW stopped \in BOOLEAN,
         NEW stale \in Stale(Block(m, Len(m), stopped)),
         NEW footer \in Footers(m, Block(m, Len(m), stopped), stale),
         NEW include \in BOOLEAN
  PROVE  ParsedTimes(Block(m, Len(m), stopped) \o stale, Len(m), Len(m), footer, include)
           \in IF include THEN {m[Len(m)].laps, Append(m[Len(m)].laps, m[Len(m)].stop)}
               ELSE {m[Len(m)].laps, Front(m[Len(m)].laps)}
<1> DEFINE n == Len(m)
           start == m[n].start
           laps == m[n].laps
           stop == m[n].stop
           t == laps \o <<stop>>
           last == Block(m, n, stopped)
           s == Without(stale, Control)
           reset == Resets(last \o s) # {}
<1>1. n \in Nat \ {0} /\ n \in 1 .. Len(m)
  BY MemoryIs
<1>2. /\ start \in {<<>>, <<StartMarker>>} /\ Finishes(laps)
      /\ stop \in Int /\ stop > 0 /\ Last(laps) <= stop
  BY <1>1, MemoryIs, SegmentIs
<1>3. /\ last \in Seq(Int) /\ last # <<>>
      /\ \A j \in 1 .. Len(last) : last[j] # Control
  BY <1>1, BlockFilled
<1>4. last = IF stopped THEN start \o t ELSE start \o laps
  <2>1. ~(n < Len(m))
    BY <1>1
  <2> QED
    BY <1>1, <2>1, BlockIs
<1>5. stale \in Seq(Int)
  BY StaleTimes
<1>6. /\ footer.records \in {0, Len(last)} /\ footer.stop = stop
      /\ CountFits(last, s, n, footer)
  BY DEF Footers, Told, BeginsAnew, CountFits
<1> HIDE DEF start, laps, stop, last, n, s
<1>7. s \in Seq(Int) /\ Timeline(last \o stale) = last \o s
  <2>1. s \in Seq(Int) /\ Without(Joined(last, stale), Control) = Joined(last, s)
    BY <1>3, <1>5, WithoutKeeps DEF s
  <2> QED
    BY <2>1 DEF Joined, Timeline
<1>8. t = Append(laps, stop)
  BY <1>2, AppendIsConcat DEF Finishes, Timed
<1>9. Timed(t) /\ Front(t) = laps /\ Last(t) = stop /\ (Last(laps) < stop => Finishes(t))
  BY <1>2, StopBehind DEF Finishes
<1> HIDE DEF t, reset
<1> DEFINE counted == Counted(Trimmed(last \o s), n, footer)
           result == Sanitized(counted, stop, TRUE, include, reset)
<1>11. ParsedTimes(last \o stale, n, n, footer, include) = result
  BY <1>6, <1>7, Zenon DEF ParsedTimes, reset
<1>12. CASE counted = start \o laps
  <2>1. WithoutStart(counted) = laps /\ laps # <<>> /\ ~EndsTwice(laps, stop)
    BY <1>2, <1>12, StartDropped, EndsOnce DEF Finishes
  <2>2. result \in IF include THEN {laps} ELSE {laps, Front(laps)}
    BY <2>1 DEF Sanitized, EndDropped
  <2> QED
    BY <1>11, <2>2 DEF n, laps, stop, last
<1>13. CASE counted = start \o t /\ Last(laps) < stop
  <2>1. WithoutStart(counted) = t /\ t # <<>> /\ ~EndsTwice(t, stop)
    BY <1>2, <1>9, <1>13, StartDropped, EndsOnce DEF Finishes
  <2>2. EndsAtStop(t, stop)
    BY <1>2, <1>9, <2>1 DEF EndsAtStop
  <2>3. result = IF include THEN t ELSE laps
    BY <1>9, <2>1, <2>2 DEF Sanitized, EndDropped
  <2> QED
    BY <1>8, <1>11, <2>3 DEF n, laps, stop, last
<1>14. CASE ~stopped
  <2>1. last = start \o laps /\ Rising(last)
    BY <1>2, <1>4, <1>14, StartDropped DEF Finishes
  <2>2. Counted(Trimmed(Joined(last, s)), n, footer) = last
    <3>1. /\ last \in Seq(Int) /\ last # <<>> /\ Rising(last)
          /\ s \in Seq(Int) /\ CountFits(last, s, n, footer)
      BY <1>3, <1>6, <1>7, <2>1
    <3> QED
      BY ONLY <3>1, LastBlockCounted
  <2>3. counted = last
    BY <2>2 DEF Joined
  <2> QED
    BY <1>12, <2>1, <2>3
<1>15. CASE stopped /\ Last(laps) < stop
  <2>1. last = start \o t /\ Rising(last)
    BY <1>2, <1>4, <1>9, <1>15, StartDropped DEF Finishes
  <2>2. Counted(Trimmed(Joined(last, s)), n, footer) = last
    <3>1. /\ last \in Seq(Int) /\ last # <<>> /\ Rising(last)
          /\ s \in Seq(Int) /\ CountFits(last, s, n, footer)
      BY <1>3, <1>6, <1>7, <2>1
    <3> QED
      BY ONLY <3>1, LastBlockCounted
  <2>3. counted = last
    BY <2>2 DEF Joined
  <2> QED
    BY <1>13, <1>15, <2>1, <2>3
<1>16. CASE stopped /\ Last(laps) = stop
  <2> DEFINE r == start \o laps
             z == <<stop>>
             b == z \o s
  <2>1. /\ r \in Seq(Int) /\ r # <<>> /\ Rising(r) /\ Last(r) = stop
    BY <1>2, <1>16, StartDropped DEF Finishes
  <2>2. start \in Seq(Int) /\ laps \in Seq(Int) /\ z \in Seq(Int)
    <3>1. <<StartMarker>> \in Seq(Int) /\ <<>> \in Seq(Int)
      BY DEF StartMarker
    <3>2. start \in Seq(Int)
      BY <1>2, <3>1
    <3>3. laps \in Seq(Int)
      BY <1>2 DEF Finishes, Timed
    <3>4. z \in Seq(Int)
      BY <1>2, OneTime
    <3> QED
      BY <3>2, <3>3, <3>4
  <2>3. last = r \o z
    <3>1. start \o (laps \o z) = (start \o laps) \o z
      BY ONLY <2>2, ConcatAssociative
    <3> QED
      BY <1>4, <1>16, <3>1 DEF t
  <2> HIDE DEF r
  <2>4. Len(last) = Len(r) + 1 /\ Len(r) \in Nat
    BY <1>2, <2>1, <2>3, JoinedLists, OneTime
  <2>5. last \o s = r \o b
    <3>1. Joined(Joined(r, z), s) = Joined(r, Joined(z, s))
      <4>1. r \in Seq(Int) /\ z \in Seq(Int) /\ s \in Seq(Int)
        BY <1>7, <2>1, <2>2
      <4> HIDE DEF z
      <4> QED
        BY ONLY <4>1, JoinedTwice
    <3> QED
      BY <2>3, <3>1 DEF Joined
  <2>6. b \in Seq(Int) /\ b # <<>> /\ b[1] <= r[Len(r)]
    <3>1. z \in Seq(Int) /\ Len(z) = 1 /\ z[1] = stop
      BY <1>2, OneTime
    <3> HIDE DEF z
    <3>2. b \in Seq(Int) /\ Len(b) = 1 + Len(s) /\ Len(s) \in Nat /\ b[1] = stop
      <4>1. /\ b \in Seq(Int) /\ Len(b) = Len(z) + Len(s) /\ Len(s) \in Nat
            /\ \A k \in 1 .. Len(z) : b[k] = z[k]
        BY ONLY <1>7, <3>1, JoinedLists
      <4> HIDE DEF b
      <4> QED
        BY <3>1, <4>1
    <3> QED
      BY <1>2, <2>1, <3>2, EmptySeq DEF Last
  <2> HIDE DEF b
  <2>7. Trimmed(last \o s) = r
    BY <2>1, <2>5, <2>6, SegmentKept
  <2>8. ~(footer.records \in 1 .. Len(r))
    BY <1>6, <2>4
  <2>9. counted = r
    BY <2>7, <2>8 DEF Counted
  <2> QED
    BY <1>12, <2>9 DEF r
<1> QED
  BY <1>2, <1>14, <1>15, <1>16, TimedLast DEF Finishes

(* The laps of every segment, and of the last one what the operator chose. *)
LapsOf(m, parsed, include) ==
  LET n == Len(m)
  IN  /\ parsed = [i \in 1 .. n |-> parsed[i]]
      /\ \A i \in 1 .. n : i < n => parsed[i] = m[i].laps
      /\ parsed[n] \in IF include THEN {m[n].laps, Append(m[n].laps, m[n].stop)}
                       ELSE {m[n].laps, Front(m[n].laps)}

(* What a complete upload is parsed to.                                    *)
LEMMA UploadParsed ==
  ASSUME NEW m \in Memory, NEW stopped \in BOOLEAN, NEW include \in BOOLEAN,
         NEW stale \in Stale(Block(m, Len(m), stopped)),
         NEW footer \in Footers(m, Block(m, Len(m), stopped), stale),
         NEW blocks \in Blocks(m, stopped, stale, footer),
         NEW upload, upload = [blocks |-> blocks, footer |-> footer]
  PROVE  LapsOf(m, ParseUpload(upload, include), include)
<1> DEFINE n == Len(m)
           active == Active(upload)
           parsed == ParseUpload(upload, include)
<1>1. n \in Nat \ {0}
  BY MemoryIs
<1>2. /\ footer.segments \in {n, n + 1} /\ footer.selected \in {n, n + 1}
      /\ footer.stop = m[n].stop /\ footer.stop \in Int
  <2>1. /\ footer.segments \in {n, n + 1} /\ footer.selected \in {n, n + 1}
        /\ footer.stop = m[n].stop
    BY DEF Footers
  <2>2. m[n].stop \in Int
    BY <1>1, MemoryIs, SegmentIs
  <2> QED
    BY <2>1, <2>2
<1>3. upload.blocks = blocks /\ upload.footer = footer
  OBVIOUS
<1>4. /\ Len(active) = n
      /\ \A i \in 1 .. n : active[i] = LastAnd(m, stopped, stale)[i]
  <2>1. stale \in Seq(Int)
    BY StaleTimes
  <2> QED
    BY ONLY <1>2, <1>3, <2>1, m \in Memory, stopped \in BOOLEAN,
            blocks \in Blocks(m, stopped, stale, footer), ActiveIs
<1>5. parsed = [i \in 1 .. n |-> ParsedTimes(active[i], i, n, footer, include)]
  BY <1>3, <1>4, Zenon DEF ParseUpload, ParsedTimes
<1> HIDE DEF n, active, parsed
<1>6. ASSUME NEW i \in 1 .. n, i < n PROVE parsed[i] = m[i].laps
  <2>1. parsed[i] = ParsedTimes(active[i], i, n, footer, include)
    BY <1>5
  <2>2. active[i] = Block(m, i, stopped)
    BY <1>4, <1>6 DEF LastAnd, n
  <2>3. ParsedTimes(Block(m, i, stopped), i, n, footer, include) = m[i].laps
    BY <1>2, <1>6, EarlierBlock DEF n
  <2> QED
    BY <2>1, <2>2, <2>3
<1>7. parsed[n] \in IF include THEN {m[n].laps, Append(m[n].laps, m[n].stop)}
                    ELSE {m[n].laps, Front(m[n].laps)}
  <2>1. n \in 1 .. n /\ ~(n < n)
    BY <1>1
  <2>2. parsed[n] = ParsedTimes(active[n], n, n, footer, include)
    BY <1>5, <2>1
  <2>3. active[n] = Block(m, n, stopped) \o stale
    BY <1>4, <2>1 DEF LastAnd, n
  <2>4. ParsedTimes(Block(m, n, stopped) \o stale, n, n, footer, include)
          \in IF include THEN {m[n].laps, Append(m[n].laps, m[n].stop)}
              ELSE {m[n].laps, Front(m[n].laps)}
    BY LastBlock DEF n
  <2> QED
    BY <2>2, <2>3, <2>4, Zenon
<1>8. parsed = [i \in 1 .. n |-> parsed[i]]
  BY <1>5
<1> QED
  BY <1>6, <1>7, <1>8, Zenon DEF LapsOf, n, parsed

(* Laps begin with themselves, and with all but the last.                  *)
LEMMA FrontIsPrefix ==
  ASSUME NEW laps, Timed(laps)
  PROVE  IsPrefix(laps, laps) /\ IsPrefix(Front(laps), laps)
<1>1. laps \in Seq(Int) /\ Len(laps) \in Nat \ {0}
  BY TimedLast
<1>2. \A i \in 1 .. Len(laps) : laps[i] \in Int
  BY <1>1, ElementOfSeq
<1> DEFINE f == Front(laps)
<1>3. f = SubSeq(laps, 1, Len(laps) - 1) /\ Len(f) = Len(laps) - 1
  <2> DEFINE k == Len(laps) - 1
  <2>1. k \in Nat /\ \A i \in 1 .. k : laps[i] \in Int
    BY <1>1, <1>2
  <2> HIDE DEF k
  <2>2. Len(SubSeq(laps, 1, k)) = k
    BY <2>1, SubSeqProperties
  <2> QED
    BY <2>2 DEF Front, k
<1>4. f \in Seq(Int)
  BY <1>1, <1>2, SubSeqProperties DEF Front
<1> HIDE DEF f
<1>5. SubSeq(f, 1, Len(f)) = f
  BY <1>4, SubSeqFull
<1>6. SubSeq(laps, 1, Len(f)) = f
  BY <1>3
<1>7. IsPrefix(f, laps)
  BY <1>1, <1>3, <1>5, <1>6 DEF IsPrefix
<1>8. IsPrefix(laps, laps)
  BY <1>1 DEF IsPrefix
<1> QED
  BY <1>7, <1>8 DEF f

(* A download stages what the memory holds.                                *)
LEMMA DownloadStages ==
  ASSUME memory \in Memory, NEW include \in BOOLEAN, NEW stopped \in BOOLEAN,
         Download(include, stopped)
  PROVE  memory' \in Memory /\ StagedAsRecorded'
<1> DEFINE n == Len(memory)
<1>1. PICK stale \in Stale(Block(memory, Len(memory), stopped)) :
      \E footer \in Footers(memory, Block(memory, Len(memory), stopped), stale) :
      \E blocks \in Blocks(memory, stopped, stale, footer) :
        /\ source' = "watch" /\ included' = include
        /\ segments' = ParseUpload([blocks |-> blocks, footer |-> footer], include)
        /\ memory' = memory
  BY Zenon DEF Download
<1>2. PICK footer \in Footers(memory, Block(memory, Len(memory), stopped), stale) :
      \E blocks \in Blocks(memory, stopped, stale, footer) :
        /\ source' = "watch" /\ included' = include
        /\ segments' = ParseUpload([blocks |-> blocks, footer |-> footer], include)
        /\ memory' = memory
  BY <1>1, Zenon
<1>3. PICK blocks \in Blocks(memory, stopped, stale, footer) :
        /\ source' = "watch" /\ included' = include
        /\ segments' = ParseUpload([blocks |-> blocks, footer |-> footer], include)
        /\ memory' = memory
  BY <1>2, Zenon
<1>4. /\ segments' = [i \in 1 .. n |-> segments'[i]]
      /\ \A i \in 1 .. n : i < n => segments'[i] = memory[i].laps
      /\ segments'[n] \in IF include THEN {memory[n].laps, Append(memory[n].laps, memory[n].stop)}
                          ELSE {memory[n].laps, Front(memory[n].laps)}
  <2> DEFINE u == [blocks |-> blocks, footer |-> footer]
             p == ParseUpload(u, include)
  <2>1. u = [blocks |-> blocks, footer |-> footer]
    OBVIOUS
  <2> HIDE DEF u
  <2>2. LapsOf(memory, p, include)
    BY ONLY <2>1, memory \in Memory, stopped \in BOOLEAN, include \in BOOLEAN,
            stale \in Stale(Block(memory, Len(memory), stopped)),
            footer \in Footers(memory, Block(memory, Len(memory), stopped), stale),
            blocks \in Blocks(memory, stopped, stale, footer), UploadParsed
  <2>3. segments' = p
    BY <1>3 DEF u
  <2> HIDE DEF p
  <2> QED
    BY <2>2, <2>3, Zenon DEF n, LapsOf
<1>5. n \in Nat \ {0} /\ n \in 1 .. n /\ \A i \in 1 .. n : Timed(memory[i].laps)
  BY MemoryIs, SegmentIs DEF Finishes
<1> HIDE DEF n
<1>6. Len(segments') = n /\ DOMAIN segments' = 1 .. n
  BY <1>4, <1>5
<1>7. \A i \in 1 .. n - 1 : i \in 1 .. n /\ segments'[i] = memory[i].laps
  BY <1>4, <1>5
<1>8. ASSUME include
      PROVE  \A i \in 1 .. n : segments'[i] \in {memory[i].laps, Append(memory[i].laps, memory[i].stop)}
  <2>1. \A i \in 1 .. n : i < n \/ i = n
    BY <1>5
  <2> QED
    BY <1>4, <1>8, <2>1
<1>9. ASSUME ~include
      PROVE  IsPrefix(segments'[n], memory[n].laps)
  BY <1>4, <1>5, <1>9, FrontIsPrefix
<1>10. EveryLapStaged'
  BY <1>3, <1>6, <1>8 DEF EveryLapStaged, Staged, n
<1>11. StopNotStaged'
  BY <1>3, <1>6, <1>7, <1>9 DEF StopNotStaged, Staged, n
<1> QED
  BY <1>3, <1>10, <1>11 DEF StagedAsRecorded

-----------------------------------------------------------------------------
(* An export *)

(* Equal times at the end are cut down to the first of them.               *)
LEMMA RepeatsCut ==
  ASSUME NEW laps, Finishes(laps), NEW times, Len(times) \in Nat, Len(laps) <= Len(times),
         \A i \in 1 .. Len(laps) : times[i] = laps[i],
         \A i \in Len(laps) + 1 .. Len(times) : times[i] = Last(laps)
  PROVE  WithoutRepeats(times) = laps
<1> DEFINE n == Len(laps)
           Cuts == {i \in 0 .. Len(times) :
                      \A j \in i + 1 .. Len(times) : i > 0 /\ times[j] = times[i]}
<1>1. laps \in Seq(Int) /\ n \in Nat \ {0} /\ \A i \in 1 .. n : laps[i] \in Int
  BY TimedLast, ElementOfSeq DEF Finishes
<1>2. n \in Cuts
  <2>1. times[n] = Last(laps) /\ n \in 0 .. Len(times)
    BY <1>1 DEF Last
  <2>2. ASSUME NEW j \in n + 1 .. Len(times) PROVE n > 0 /\ times[j] = times[n]
    BY <1>1, <2>1
  <2> QED
    BY <2>1, <2>2
<1>3. ASSUME NEW i \in Cuts PROVE n <= i
  <2> SUFFICES ASSUME i < n PROVE FALSE
    BY <1>1
  <2>1. i \in Nat /\ i + 1 \in i + 1 .. Len(times)
    BY <1>1
  <2>2. i > 0 /\ times[i + 1] = times[i]
    BY <1>3, <2>1
  <2>3. i \in 1 .. n - 1 /\ i \in 1 .. n /\ i + 1 \in 1 .. n
    BY <1>1, <2>1, <2>2
  <2>4. laps[i] < laps[i + 1]
    BY <2>3 DEF Finishes, Rising
  <2> QED
    BY <1>1, <2>2, <2>3, <2>4
<1>4. Cuts \subseteq Nat
  OBVIOUS
<1>5. WithoutRepeats(times) = SubSeq(times, 1, Min(Cuts))
  BY DEF WithoutRepeats
<1> HIDE DEF Cuts
<1>6. Min(Cuts) \in Cuts /\ Min(Cuts) <= n
  BY <1>2, <1>4, MinIsFirst
<1>7. Min(Cuts) = n
  <2>1. n <= Min(Cuts) /\ Min(Cuts) \in Nat
    BY <1>3, <1>4, <1>6
  <2> QED
    BY <1>1, <1>6, <2>1
<1>8. SubSeq(times, 1, n) = laps
  BY <1>1, BeginningIs
<1> QED
  BY <1>5, <1>7, <1>8

(* Where the rows of a file that begins d rows before the first are.       *)
Place(N, d, i) == IF i <= d THEN i + (N - d) ELSE i - d
Turned(rows, row, N, d) ==
  /\ rows \in Seq([slot : Int, time : Int]) /\ Len(rows) = N
  /\ \A i \in 1 .. N : rows[i] = row[Place(N, d, i)]

(* Slots that count on from the first one.                                 *)
Slots(row, N, first) == \A q \in 1 .. N : row[q].slot = first + q - 1

(* The place of a row in the file.                                         *)
Origin(N, d, q) == IF q > N - d THEN q - (N - d) ELSE q + d

(* Each of the two undoes the other.                                       *)
LEMMA PlaceAndOrigin ==
  ASSUME NEW N \in Nat \ {0}, NEW d \in 1 .. N, NEW i \in 1 .. N
  PROVE  /\ Place(N, d, i) \in 1 .. N /\ Origin(N, d, i) \in 1 .. N
         /\ Origin(N, d, Place(N, d, i)) = i /\ Place(N, d, Origin(N, d, i)) = i
  BY DEF Place, Origin

(* With slots that count the rows, a row is ahead of as many as it has in  *)
(* front of it when the file is in order.                                  *)
LEMMA AheadCounted ==
  ASSUME NEW N \in Nat \ {0}, NEW d \in 1 .. N, NEW row, NEW rows, Turned(rows, row, N, d),
         Slots(row, N, 1), NEW i \in 1 .. N
  PROVE  Cardinality(Ahead(rows, i)) = Place(N, d, i) - 1
<1> DEFINE q == Place(N, d, i)
           g == [p \in 1 .. q - 1 |-> Origin(N, d, p)]
<1>1. q \in 1 .. N
  BY PlaceAndOrigin
<1>2. ASSUME NEW j \in 1 .. N PROVE rows[j].slot = Place(N, d, j)
  <2>1. rows[j] = row[Place(N, d, j)]
    BY DEF Turned
  <2>2. Place(N, d, j) \in 1 .. N
    BY PlaceAndOrigin
  <2> QED
    BY <2>1, <2>2 DEF Slots
<1>3. Ahead(rows, i) = {j \in 1 .. N : Place(N, d, j) < q}
  <2>1. \A j \in 1 .. N : Place(N, d, j) = q => j = i
    BY PlaceAndOrigin
  <2>2. Len(rows) = N
    BY DEF Turned
  <2> HIDE DEF q
  <2>3. \A j \in 1 .. N : rows[j].slot = rows[i].slot => ~(j < i)
    BY <1>2, <2>1 DEF q
  <2> QED
    BY <1>2, <2>2, <2>3 DEF Ahead, q
<1> HIDE DEF q
<1>4. ASSUME NEW p \in 1 .. q - 1 PROVE g[p] \in Ahead(rows, i) /\ Place(N, d, g[p]) = p
  <2>1. p \in 1 .. N /\ p < q
    BY <1>1
  <2> QED
    BY <1>3, <2>1, PlaceAndOrigin
<1>5. ASSUME NEW j \in Ahead(rows, i) PROVE Place(N, d, j) \in 1 .. q - 1 /\ g[Place(N, d, j)] = j
  <2>1. j \in 1 .. N /\ Place(N, d, j) < q
    BY <1>3
  <2>2. Place(N, d, j) \in 1 .. q - 1
    BY <1>1, <2>1, PlaceAndOrigin
  <2> QED
    BY <2>1, <2>2, PlaceAndOrigin
<1>6. ExistsBijection(1 .. q - 1, Ahead(rows, i))
  <2>1. g \in [1 .. q - 1 -> Ahead(rows, i)]
    BY <1>4
  <2>2. \A a, b \in 1 .. q - 1 : g[a] = g[b] => a = b
    BY <1>4
  <2>3. \A j \in Ahead(rows, i) : \E p \in 1 .. q - 1 : g[p] = j
    BY <1>5
  <2> HIDE DEF g
  <2>4. g \in Bijection(1 .. q - 1, Ahead(rows, i))
    BY <2>1, <2>2, <2>3 DEF Bijection, Injection, Surjection, IsInjective
  <2> QED
    BY <2>4 DEF ExistsBijection
<1>7. IsFiniteSet(1 .. q - 1) /\ Cardinality(1 .. q - 1) = q - 1
  <2>1. q - 1 \in Int /\ 1 \in Int /\ q - 1 \in Nat
    BY <1>1
  <2>2. Cardinality(1 .. q - 1) = IF 1 > q - 1 THEN 0 ELSE (q - 1) - 1 + 1
    BY ONLY <2>1, FS_Interval
  <2>3. IsFiniteSet(1 .. q - 1)
    BY ONLY <2>1, FS_Interval
  <2> QED
    BY <2>1, <2>2, <2>3
<1> QED
  BY <1>6, <1>7, FS_Bijection DEF q

(* Wherever the file begins, the rows are put in the order of the slots.   *)
LEMMA OrderedIs ==
  ASSUME NEW N \in Nat \ {0}, NEW d \in 1 .. N, NEW row, NEW rows, Turned(rows, row, N, d),
         NEW first \in {0, 1}, Slots(row, N, first)
  PROVE  Len(Ordered(rows)) = N /\ \A q \in 1 .. N : Ordered(rows)[q] = row[q]
<1> DEFINE zeros == {i \in 1 .. Len(rows) : rows[i].slot = 0}
           T == [slot : Int, time : Int]
<1>1. rows \in Seq(T) /\ Len(rows) = N /\ \A i \in 1 .. N : rows[i] = row[Place(N, d, i)] /\ rows[i] \in T
  BY ElementOfSeq DEF Turned
<1>2. ASSUME NEW i \in 1 .. N PROVE rows[i].slot = first + Place(N, d, i) - 1
  <2>1. rows[i] = row[Place(N, d, i)]
    BY <1>1
  <2>2. Place(N, d, i) \in 1 .. N
    BY PlaceAndOrigin
  <2> QED
    BY <2>1, <2>2 DEF Slots
<1>3. Ordered(rows) = IF zeros = {} THEN BySlot(rows)
        ELSE SubSeq(rows, Min(zeros), Len(rows)) \o SubSeq(rows, 1, Min(zeros) - 1)
  BY DEF Ordered
<1>4. \A i \in zeros : i \in 1 .. N /\ rows[i].slot = 0
  BY <1>1
<1>5. \A i \in 1 .. N : rows[i].slot = 0 => i \in zeros
  BY <1>1
<1> HIDE DEF zeros, T
<1>6. CASE first = 1
  <2>1. zeros = {}
    <3> SUFFICES ASSUME NEW i \in zeros PROVE FALSE
      OBVIOUS
    <3>1. i \in 1 .. N /\ 1 + Place(N, d, i) - 1 = 0
      BY <1>2, <1>4, <1>6
    <3> QED
      BY <3>1, PlaceAndOrigin
  <2>2. Ordered(rows) = BySlot(rows)
    BY <1>3, <2>1
  <2>3. Slots(row, N, 1)
    BY <1>6
  <2>4. ASSUME NEW q \in 1 .. N PROVE BySlot(rows)[q] = row[q]
    <3> DEFINE c == CHOOSE i \in 1 .. N : Cardinality(Ahead(rows, i)) = q - 1
    <3>1. Origin(N, d, q) \in 1 .. N /\ Place(N, d, Origin(N, d, q)) = q
      BY PlaceAndOrigin
    <3>2. Cardinality(Ahead(rows, Origin(N, d, q))) = q - 1
      BY <2>3, <3>1, AheadCounted
    <3>3. c \in 1 .. N /\ Cardinality(Ahead(rows, c)) = q - 1
      BY <3>1, <3>2
    <3>4. BySlot(rows)[q] = rows[c]
      BY <1>1 DEF BySlot
    <3> HIDE DEF c
    <3>5. Cardinality(Ahead(rows, c)) = Place(N, d, c) - 1
      BY <2>3, <3>3, AheadCounted
    <3>6. Place(N, d, c) = q
      <4>1. Place(N, d, c) \in 1 .. N
        BY <3>3, PlaceAndOrigin
      <4> QED
        BY <3>3, <3>5, <4>1
    <3> QED
      BY <1>1, <3>3, <3>4, <3>6
  <2>5. Len(BySlot(rows)) = N
    BY <1>1 DEF BySlot
  <2> QED
    BY <2>2, <2>4, <2>5
<1>7. CASE first = 0
  <2> DEFINE z == Origin(N, d, 1)
             front == SubSeq(rows, z, N)
             back == SubSeq(rows, 1, z - 1)
  <2>1. z \in 1 .. N /\ Place(N, d, z) = 1 /\ z = IF d = N THEN 1 ELSE d + 1
    <3>1. 1 \in 1 .. N
      OBVIOUS
    <3>2. Origin(N, d, 1) \in 1 .. N /\ Place(N, d, Origin(N, d, 1)) = 1
      BY ONLY <3>1, N \in Nat \ {0}, d \in 1 .. N, PlaceAndOrigin
    <3>3. Origin(N, d, 1) = IF d = N THEN 1 ELSE d + 1
      BY DEF Origin
    <3> QED
      BY <3>2, <3>3
  <2>2. zeros = {z}
    <3>1. z \in zeros
      BY <1>2, <1>5, <1>7, <2>1
    <3>2. ASSUME NEW i \in zeros PROVE i = z
      <4>1. i \in 1 .. N /\ 0 + Place(N, d, i) - 1 = 0 /\ Place(N, d, i) \in 1 .. N
        BY <1>2, <1>4, <1>7, PlaceAndOrigin
      <4>2. Place(N, d, i) = 1
        BY <4>1
      <4> QED
        BY <4>1, <4>2, PlaceAndOrigin
    <3> QED
      BY <3>1, <3>2
  <2> HIDE DEF z
  <2>3. Min(zeros) = z
    BY <2>1, <2>2, MinIsFirst
  <2>4. Ordered(rows) = front \o back
    BY <1>1, <1>3, <2>2, <2>3
  <2>5. /\ front \in Seq(T) /\ Len(front) = N - z + 1
        /\ \A i \in 1 .. N - z + 1 : front[i] = rows[z + i - 1]
    <3>1. z \in Int /\ N \in Int /\ z <= N /\ \A i \in z .. N : rows[i] \in T
      BY <1>1, <2>1
    <3> QED
      BY ONLY <3>1, SubSeqProperties
  <2>6. /\ back \in Seq(T) /\ Len(back) = z - 1
        /\ \A i \in 1 .. z - 1 : back[i] = rows[i]
    <3>1. z - 1 \in Nat /\ 1 \in Int /\ \A i \in 1 .. z - 1 : rows[i] \in T
      BY <1>1, <2>1
    <3>2. /\ back \in Seq(T) /\ Len(back) = IF 1 <= z - 1 THEN (z - 1) - 1 + 1 ELSE 0
          /\ \A i \in 1 .. (z - 1) - 1 + 1 : back[i] = rows[1 + i - 1]
      BY ONLY <3>1, SubSeqProperties
    <3> HIDE DEF back
    <3> QED
      BY <3>1, <3>2
  <2> HIDE DEF front, back
  <2>7. /\ Len(front \o back) = N
        /\ \A i \in 1 .. N : (front \o back)[i] = IF i <= N - z + 1 THEN front[i] ELSE back[i - (N - z + 1)]
    <3>1. /\ Len(front \o back) = Len(front) + Len(back)
          /\ \A i \in 1 .. Len(front) + Len(back) :
               (front \o back)[i] = IF i <= Len(front) THEN front[i] ELSE back[i - Len(front)]
      BY <2>5, <2>6, ConcatProperties
    <3>2. Len(front) + Len(back) = N
      <4>1. Len(front) = N - z + 1 /\ Len(back) = z - 1 /\ z \in Nat /\ N \in Nat
        BY <2>1, <2>5, <2>6
      <4> QED
        BY ONLY <4>1
    <3> QED
      BY <2>5, <3>1, <3>2
  <2>8. ASSUME NEW q \in 1 .. N PROVE (front \o back)[q] = row[q]
    <3>1. CASE q <= N - z + 1
      <4>1. z + q - 1 \in 1 .. N /\ Place(N, d, z + q - 1) = q
        BY <2>1, <3>1 DEF Place
      <4> QED
        BY <1>1, <2>5, <2>7, <3>1, <4>1
    <3>2. CASE ~(q <= N - z + 1)
      <4> DEFINE j == q - (N - z + 1)
      <4>1. j \in 1 .. z - 1 /\ j \in 1 .. N /\ Place(N, d, j) = q
        BY <2>1, <3>2 DEF Place
      <4>2. (front \o back)[q] = back[j]
        BY <2>7, <3>2
      <4> HIDE DEF j
      <4> QED
        BY <1>1, <2>6, <4>1, <4>2
    <3> QED
      BY <3>1, <3>2
  <2> QED
    BY <2>4, <2>7, <2>8
<1> QED
  BY <1>6, <1>7

(* The rows of a file that begins at any slot are turned by some number.   *)
LEMMA RowsTurned ==
  ASSUME NEW N \in Nat \ {0}, NEW row \in [1 .. N -> [slot : Int, time : Int]], NEW k \in Nat \ {0},
         NEW rows, rows = IF k <= Len(row) THEN SubSeq(row, k, Len(row)) \o SubSeq(row, 1, k - 1) ELSE row
  PROVE  \E d \in 1 .. N : Turned(rows, row, N, d)
<1> DEFINE T == [slot : Int, time : Int]
<1>1. row \in Seq(T) /\ Len(row) = N /\ \A i \in 1 .. N : row[i] \in T
  <2> HIDE DEF T
  <2>1. row \in [1 .. N -> T]
    BY DEF T
  <2>2. row \in Seq(T)
    BY ONLY <2>1, N \in Nat \ {0}, IsASeq
  <2> QED
    BY <2>1, <2>2, LenProperties
<1> HIDE DEF T
<1>2. CASE k <= N
  <2> DEFINE d == N - k + 1
             front == SubSeq(row, k, N)
             back == SubSeq(row, 1, k - 1)
  <2>1. d \in 1 .. N /\ rows = front \o back
    BY <1>1, <1>2
  <2>2. /\ front \in Seq(T) /\ Len(front) = d
        /\ \A i \in 1 .. d : front[i] = row[k + i - 1]
    <3>1. k \in Int /\ N \in Int /\ k <= N /\ \A i \in k .. N : row[i] \in T
      BY <1>1, <1>2
    <3>2. /\ front \in Seq(T) /\ Len(front) = IF k <= N THEN N - k + 1 ELSE 0
          /\ \A i \in 1 .. N - k + 1 : front[i] = row[k + i - 1]
      BY ONLY <3>1, SubSeqProperties
    <3> HIDE DEF front
    <3> QED
      BY <3>1, <3>2
  <2>3. /\ back \in Seq(T) /\ Len(back) = k - 1
        /\ \A i \in 1 .. k - 1 : back[i] = row[i]
    <3>1. k - 1 \in Nat /\ 1 \in Int /\ \A i \in 1 .. k - 1 : row[i] \in T
      BY <1>1, <1>2
    <3>2. /\ back \in Seq(T) /\ Len(back) = IF 1 <= k - 1 THEN (k - 1) - 1 + 1 ELSE 0
          /\ \A i \in 1 .. (k - 1) - 1 + 1 : back[i] = row[1 + i - 1]
      BY ONLY <3>1, SubSeqProperties
    <3> HIDE DEF back, d
    <3>3. \A i \in 1 .. k - 1 : 1 + i - 1 = i /\ i \in 1 .. (k - 1) - 1 + 1
      BY ONLY <3>1
    <3> QED
      BY ONLY <3>1, <3>2, <3>3
  <2> HIDE DEF front, back
  <2>4. /\ rows \in Seq(T) /\ Len(rows) = N
        /\ \A i \in 1 .. N : rows[i] = IF i <= d THEN front[i] ELSE back[i - d]
    <3>1. /\ rows \in Seq(T) /\ Len(rows) = Len(front) + Len(back)
          /\ \A i \in 1 .. Len(front) + Len(back) :
               rows[i] = IF i <= Len(front) THEN front[i] ELSE back[i - Len(front)]
      <4>1. front \in Seq(T) /\ back \in Seq(T)
        BY <2>2, <2>3
      <4>2. rows = front \o back
        BY <2>1
      <4> QED
        BY ONLY <4>1, <4>2, ConcatProperties
    <3>2. Len(front) + Len(back) = N
      BY <2>2, <2>3
    <3> QED
      BY <2>2, <3>1, <3>2
  <2>5. ASSUME NEW i \in 1 .. N PROVE rows[i] = row[Place(N, d, i)]
    <3>1. CASE i <= d
      <4>1. k + i - 1 = Place(N, d, i)
        BY <3>1 DEF Place
      <4> QED
        BY <2>1, <2>2, <2>4, <3>1, <4>1, i \in 1 .. d
    <3>2. CASE ~(i <= d)
      <4>1. i - d \in 1 .. k - 1 /\ Place(N, d, i) = i - d
        BY <1>2, <2>1, <3>2 DEF Place
      <4> QED
        BY <2>3, <2>4, <3>2, <4>1
    <3> QED
      BY <3>1, <3>2
  <2> QED
    BY <2>1, <2>4, <2>5 DEF Turned, T
<1>3. CASE ~(k <= N)
  <2>1. rows = row /\ N \in 1 .. N
    BY <1>1, <1>3
  <2>2. \A i \in 1 .. N : Place(N, N, i) = i
    BY DEF Place
  <2>3. \A i \in 1 .. N : rows[i] = row[Place(N, N, i)]
    BY <2>1, <2>2
  <2> QED
    BY <1>1, <2>1, <2>3 DEF Turned, T
<1> QED
  BY <1>2, <1>3

(* The times of the rows, in order and without the last one if it goes.    *)
LEMMA TimesOf ==
  ASSUME NEW times \in Seq(Int), times # <<>>, NEW all, Len(all) = Len(times),
         \A q \in 1 .. Len(times) : all[q].time = times[q]
  PROVE  /\ [i \in 1 .. Len(all) |-> all[i].time] = times
         /\ [i \in 1 .. Len(Front(all)) |-> Front(all)[i].time] = Front(times)
<1> DEFINE n == Len(times)
           k == n - 1
           T == {all[q] : q \in 1 .. n}
<1>1. n \in Nat \ {0} /\ k \in Nat /\ \A q \in 1 .. n : times[q] \in Int
  BY LenProperties, ElementOfSeq, EmptySeq
<1>2. [i \in 1 .. Len(all) |-> all[i].time] = times
  <2>1. times = [i \in 1 .. n |-> times[i]]
    BY LenProperties
  <2> QED
    BY <2>1
<1>3. \A q \in 1 .. k : all[q] \in T /\ times[q] \in Int /\ q \in 1 .. n
  BY <1>1
<1> HIDE DEF T, n, k
<1>4. Len(SubSeq(all, 1, k)) = k /\ \A i \in 1 .. k : SubSeq(all, 1, k)[i] = all[i]
  BY <1>1, <1>3, SubSeqProperties
<1>5. /\ SubSeq(times, 1, k) \in Seq(Int)
      /\ Len(SubSeq(times, 1, k)) = k /\ \A i \in 1 .. k : SubSeq(times, 1, k)[i] = times[i]
  BY <1>1, <1>3, SubSeqProperties
<1>6. Front(all) = SubSeq(all, 1, k) /\ Front(times) = SubSeq(times, 1, k)
  BY DEF Front, n, k
<1> DEFINE f == Front(all)
           g == Front(times)
<1>7. /\ Len(f) = k /\ g \in Seq(Int) /\ Len(g) = k
      /\ \A i \in 1 .. k : f[i].time = g[i]
  BY <1>3, <1>4, <1>5, <1>6 DEF n
<1> HIDE DEF f, g
<1>8. g = [i \in 1 .. k |-> g[i]]
  BY <1>7, LenProperties
<1>9. [i \in 1 .. Len(f) |-> f[i].time] = g
  BY <1>7, <1>8
<1> QED
  BY <1>2, <1>9 DEF f, g

(* What an export of a segment is normalized to.                           *)
LEMMA ExportParsed ==
  ASSUME NEW x \in Segment, NEW k \in Nat \ {0}, NEW include \in BOOLEAN
  PROVE  Normalized(Rows(x, k), include) \in {x.laps, Append(x.laps, x.stop)}
<1> DEFINE start == x.start
           laps == x.laps
           stop == x.stop
           t == laps \o <<stop>>
           times == start \o t
           N == Len(times)
           first == IF start = <<>> THEN 1 ELSE 0
           row == [i \in 1 .. N |-> [slot |-> first + i - 1, time |-> times[i]]]
           rows == Rows(x, k)
           all == Ordered(rows)
           kept == IF ~include /\ IsOutlier(all) THEN Front(all) ELSE all
           listed == [i \in 1 .. Len(kept) |-> kept[i].time]
<1>1. /\ start \in {<<>>, <<StartMarker>>} /\ Finishes(laps) /\ Timed(laps)
      /\ stop \in Int /\ stop > 0 /\ Last(laps) <= stop
  BY SegmentIs DEF Finishes
<1>2. start \in Seq(Int) /\ laps \in Seq(Int) /\ <<stop>> \in Seq(Int)
  <2>1. <<StartMarker>> \in Seq(Int) /\ <<>> \in Seq(Int)
    BY DEF StartMarker
  <2> QED
    BY <1>1, <2>1, OneTime DEF Timed
<1>3. (start \o laps) \o <<stop>> = times
  <2> DEFINE z == <<stop>>
  <2>1. start \in Seq(Int) /\ laps \in Seq(Int) /\ z \in Seq(Int)
    BY <1>2
  <2> HIDE DEF start, laps, stop, z
  <2>2. (start \o laps) \o z = start \o (laps \o z)
    BY ONLY <2>1, ConcatAssociative
  <2> QED
    BY <2>2 DEF z
<1>4. rows = IF k <= Len(row) THEN SubSeq(row, k, Len(row)) \o SubSeq(row, 1, k - 1) ELSE row
  BY <1>3, Zenon DEF Rows
<1> HIDE DEF start, laps, stop
<1>5. /\ Timed(t) /\ Len(t) = Len(laps) + 1 /\ Front(t) = laps /\ Last(t) = stop
      /\ Last(laps) < stop => Finishes(t)
  BY <1>1, StopBehind DEF Finishes
<1>6. t = Append(laps, stop)
  BY <1>1, <1>2, AppendIsConcat
<1> HIDE DEF t
<1>7. times \in Seq(Int) /\ times # <<>> /\ WithoutStart(times) = t
  BY <1>1, <1>5, StartDropped
<1>8. Front(times) = start \o laps /\ WithoutStart(start \o laps) = laps
  <2>1. WithoutStart(start \o laps) = laps
    BY <1>1, StartDropped
  <2> DEFINE r == start \o laps
             z == <<stop>>
  <2>2. r \in Seq(Int) /\ z \in Seq(Int) /\ Len(z) = 1
    BY <1>1, <1>2, StartDropped, OneTime
  <2>3. times = r \o z
    BY <1>3
  <2> HIDE DEF r, z, times
  <2>4. SubSeq(times, 1, Len(r)) = r /\ Len(times) = Len(r) + 1 /\ Len(r) \in Nat
    <3>1. SubSeq(r \o z, 1, Len(r)) = r
      BY ONLY <2>2, BeginningOfJoined
    <3>2. Len(r \o z) = Len(r) + Len(z) /\ Len(r) \in Nat
      BY ONLY <2>2, JoinedLists
    <3> QED
      BY ONLY <2>2, <2>3, <3>1, <3>2
  <2>5. Front(times) = r
    <3>1. Len(times) - 1 = Len(r)
      BY <2>4
    <3> QED
      BY <2>4, <3>1 DEF Front
  <2> QED
    BY <2>1, <2>5 DEF r
<1> HIDE DEF times
<1>9. N \in Nat \ {0} /\ \A q \in 1 .. N : times[q] \in Int
  BY <1>7, LenProperties, EmptySeq, ElementOfSeq
<1>10. first \in {0, 1}
  OBVIOUS
<1> HIDE DEF first, N
<1>11. row \in [1 .. N -> [slot : Int, time : Int]]
  BY <1>9, <1>10
<1>12. /\ \A q \in 1 .. N : row[q].slot = first + q - 1
       /\ \A q \in 1 .. N : row[q].time = times[q]
  BY <1>9, <1>10
<1> HIDE DEF row, rows
<1>13. PICK d \in 1 .. N : Turned(rows, row, N, d)
  BY <1>4, <1>9, <1>11, RowsTurned
<1>14. Len(all) = N /\ \A q \in 1 .. N : all[q] = row[q]
  <2>1. N \in Nat \ {0} /\ d \in 1 .. N /\ Turned(rows, row, N, d) /\ first \in {0, 1}
    BY <1>9, <1>10, <1>13
  <2>2. Slots(row, N, first)
    BY <1>12 DEF Slots
  <2>3. Len(Ordered(rows)) = N /\ \A q \in 1 .. N : Ordered(rows)[q] = row[q]
    BY ONLY <2>1, <2>2, OrderedIs
  <2> QED
    BY <2>3
<1> HIDE DEF all
<1>15. /\ [i \in 1 .. Len(all) |-> all[i].time] = times
       /\ [i \in 1 .. Len(Front(all)) |-> Front(all)[i].time] = Front(times)
  <2>1. times \in Seq(Int) /\ times # <<>> /\ Len(all) = Len(times)
    BY <1>7, <1>14 DEF N
  <2>2. \A q \in 1 .. Len(times) : all[q].time = times[q]
    BY <1>12, <1>14 DEF N
  <2> QED
    BY ONLY <2>1, <2>2, TimesOf
<1>16. listed = times \/ listed = Front(times)
  BY <1>15
<1>17. Normalized(rows, include) = WithoutRepeats(WithoutStart(listed))
  BY DEF Normalized, all
<1> HIDE DEF listed
<1>18. WithoutStart(listed) = t \/ WithoutStart(listed) = laps
  BY <1>7, <1>8, <1>16
<1>19. WithoutRepeats(laps) = laps
  <2>1. Len(laps) \in Nat /\ \A i \in Len(laps) + 1 .. Len(laps) : laps[i] = Last(laps)
    BY <1>1, TimedLast
  <2> QED
    BY <1>1, <2>1, RepeatsCut
<1>20. WithoutRepeats(t) \in {laps, t}
  <2>1. CASE Last(laps) < stop
    <3>1. Len(t) \in Nat /\ \A i \in Len(t) + 1 .. Len(t) : t[i] = Last(t)
      BY <1>5, TimedLast
    <3>2. WithoutRepeats(t) = t
      BY <1>5, <2>1, <3>1, RepeatsCut
    <3> QED
      BY <3>2
  <2>2. CASE Last(laps) = stop
    <3>1. Len(laps) \in Nat /\ Len(t) = Len(laps) + 1
      BY <1>1, <1>5, TimedLast
    <3>2. \A i \in 1 .. Len(laps) : t[i] = laps[i]
      BY <1>2, JoinedLists DEF t
    <3>3. \A i \in Len(laps) + 1 .. Len(t) : t[i] = Last(laps)
      BY <1>5, <2>2, <3>1 DEF Last
    <3>4. WithoutRepeats(t) = laps
      BY <1>1, <3>1, <3>2, <3>3, RepeatsCut
    <3> QED
      BY <3>4
  <2> QED
    BY <1>1, <2>1, <2>2, TimedLast
<1> QED
  BY <1>6, <1>17, <1>18, <1>19, <1>20 DEF rows, laps, stop

(* An export stages what the memory holds.                                 *)
LEMMA ExportStages ==
  ASSUME memory \in Memory, NEW include \in BOOLEAN, NEW k \in 1 .. MaxLaps + 2,
         ParseWatchwareExport(include, k)
  PROVE  memory' \in Memory /\ StagedAsRecorded'
<1>1. /\ source' = "file" /\ memory' = memory
      /\ segments' = [i \in 1 .. Len(memory) |-> Normalized(Rows(memory[i], k), include)]
  BY DEF ParseWatchwareExport
<1>2. k \in Nat \ {0} /\ Len(memory) \in Nat
  BY MemoryIs, UploadAssumption
<1>3. \A i \in 1 .. Len(memory) :
        Normalized(Rows(memory[i], k), include) \in {memory[i].laps, Append(memory[i].laps, memory[i].stop)}
  BY <1>2, MemoryIs, ExportParsed
<1>4. Len(segments') = Len(memory) /\ DOMAIN segments' = 1 .. Len(memory)
  BY <1>1, <1>2
<1>5. EveryLapStaged'
  BY <1>1, <1>3, <1>4 DEF EveryLapStaged, Staged
<1>6. StopNotStaged'
  BY <1>1 DEF StopNotStaged
<1> QED
  BY <1>1, <1>5, <1>6 DEF StagedAsRecorded

-----------------------------------------------------------------------------

(* What the service stages of a memory are its finishes, whatever lies     *)
(* behind them, whatever the footer says, wherever a file begins, and      *)
(* whatever the operator chooses: for any times and any number of laps,    *)
(* segments and records.                                                   *)
THEOREM StagedAsRecordedAlways == UploadSpec => []StagedAsRecorded
<1> DEFINE Inv == memory \in Memory /\ StagedAsRecorded
<1>1. UploadInit => Inv
  BY DEF UploadInit, StagedAsRecorded, EveryLapStaged, StopNotStaged
<1>2. ASSUME Inv, [UploadNext]_uploadVars PROVE Inv'
  <2>1. CASE UNCHANGED uploadVars
    BY <1>2, <2>1 DEF uploadVars, StagedAsRecorded, EveryLapStaged, StopNotStaged, Staged
  <2>2. CASE \E include \in BOOLEAN, stopped \in BOOLEAN : Download(include, stopped)
    BY <1>2, <2>2, DownloadStages
  <2>3. CASE \E include \in BOOLEAN, k \in 1 .. MaxLaps + 2 : ParseWatchwareExport(include, k)
    BY <1>2, <2>3, ExportStages
  <2> QED
    BY <1>2, <2>1, <2>2, <2>3 DEF UploadNext
<1> QED
  BY <1>1, <1>2, PTL DEF UploadSpec

-----------------------------------------------------------------------------

(* The two together, as the run has them: whichever of the two parts is    *)
(* run, its steps are steps of its own specification, so that everything   *)
(* the run checks of states holds for every value of the constants.        *)
THEOREM StopwatchIsSafe ==
  MCSpec => [](TypeOK /\ NoDoubleClose /\ StagedAsRecorded)
<1>1. MCSpec => Spec
  <2>1. MCInit => Init
    BY DEF MCInit
  <2>2. [MCNext]_mcVars => [Next]_vars
    BY DEF MCNext, CaptureOnly, ParserOnly, mcVars
  <2> QED
    BY <2>1, <2>2, PTL DEF MCSpec, Spec
<1>2. MCSpec => UploadSpec
  <2>1. MCInit => UploadInit
    BY DEF MCInit
  <2>2. [MCNext]_mcVars => [UploadNext]_uploadVars
    BY DEF MCNext, CaptureOnly, ParserOnly, mcVars
  <2> QED
    BY <2>1, <2>2, PTL DEF MCSpec, UploadSpec
<1> QED
  BY <1>1, <1>2, CaptureTypes, ChannelClosedOnce, StagedAsRecordedAlways, PTL
=============================================================================
