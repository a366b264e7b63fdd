-------------------------- MODULE StopwatchCapture --------------------------
(***************************************************************************)
(* A download from the stopwatch (services/stopwatch_service.go) as the    *)
(* import screen drives it (frontend/src/components/StopwatchImport.tsx).  *)
(* A button starts a call, which reaches the service some time later, and  *)
(* the screen acts on its answer later still; StartCapture leaves two      *)
(* goroutines behind, the reader of the serial port and the loop that      *)
(* repeats the upload command.  All of them share the fields of the        *)
(* service.  An action is one critical section of its mutex, or what comes *)
(* between two of them; nothing keeps them in the order of the downloads   *)
(* they belong to.                                                         *)
(*                                                                         *)
(* Downloads are numbered as they open the port; the number stands for the *)
(* port opened, the stop channel made and includeTerminalStop as set then. *)
(* A read that times out changes nothing and is no action.                 *)
(***************************************************************************)
EXTENDS Integers, Sequences, FiniteSets, Functions

CONSTANTS
  MaxCaptures, (* bound on the downloads that open the port                *)
  MaxRetries,  (* stopwatchMaxRetries, the commands of one download        *)
  MaxCalls     (* bound on the calls the operator has the screen make      *)

ASSUME CaptureAssumption ==
  MaxCaptures \in Nat /\ MaxRetries \in Nat \ {0} /\ MaxCalls \in Nat

Call == 1 .. MaxCalls

Capture == 1 .. MaxCaptures
Nil == 0

(* What the watch sends, in order: the segments with at least 64 bytes of  *)
(* padding after them, and the footer.                                     *)
Data == 1
Footer == 2
Part == {Data, Footer}

Reader == [pc : {"none", "new", "polling", "holding", "finalizing", "ended"},
           port : 0 .. MaxCaptures, signal : 0 .. MaxCaptures,
           part : 0 .. Footer, found : BOOLEAN]
Retry == [pc : {"none", "new", "waiting", "ended"},
          attempt : 0 .. MaxRetries + 1, signal : 0 .. MaxCaptures]

(* A call is clicked (one of StartCapture or StopCapture, or a file dialog *)
(* is open), works in the service, and is answered; numbers are in order.  *)
CallRow == [pc : {"unused", "starting", "choosing", "loading", "stopping",
                  "settling", "parsing", "stored", "started", "answered", "over"},
            port : 0 .. MaxCaptures, found : BOOLEAN]

(* The screen lists as many uploads as "captured" says.                    *)
Review == [capturing : BOOLEAN, captured : Nat, events : Seq(BOOLEAN)]

VARIABLES
  isCapturing,
  activePort,    (* the download whose port it is, or Nil                  *)
  stopSignal,    (* the download that made the channel, or Nil             *)
  captureBuffer,
  staged,        (* there are capturedTimes: the last parse found some     *)
  open,          (* serial ports that are open                             *)
  closed,        (* stop channels that are closed                          *)
  sent,          (* how much the watch has sent to each port               *)
  reader, retry, (* the goroutines of each download                        *)
  call,          (* the calls of the screen                                *)
  ui             (* isCapturing and captured of the screen, and the events *)
                 (* it has not handled                                     *)

service == <<isCapturing, activePort, stopSignal, captureBuffer, staged>>
ports == <<open, closed, sent>>
goroutines == <<reader, retry>>
vars == <<service, ports, goroutines, call, ui>>

NoReader == [pc |-> "none", port |-> Nil, signal |-> Nil, part |-> 0,
             found |-> FALSE]
NoRetry == [pc |-> "none", attempt |-> 0, signal |-> Nil]
NoCall == [pc |-> "unused", port |-> Nil, found |-> FALSE]

Init ==
  /\ isCapturing = FALSE /\ activePort = Nil /\ stopSignal = Nil
  /\ captureBuffer = <<>> /\ staged = FALSE
  /\ open = {} /\ closed = {}
  /\ sent = [c \in Capture |-> 0]
  /\ reader = [c \in Capture |-> NoReader]
  /\ retry = [c \in Capture |-> NoRetry]
  /\ call = [k \in Call |-> NoCall]
  /\ ui = [capturing |-> FALSE, captured |-> 0, events |-> <<>>]

(* isUploadComplete: bytes that are not padding come after the padding.    *)
Complete(raw) == \E i \in 1 .. Len(raw) - 1 : raw[i] = Data

(* parseUpload finds times once there are segments.                        *)
Finds(raw) == Data \in Range(raw)

Uploads(found) == IF found THEN 1 ELSE 0

(* The download is over and its port is closed.                            *)
EndCaptureSlip ==
  /\ open' = open \ {activePort} /\ activePort' = Nil
  /\ UNCHANGED isCapturing
LeavePortSlip == activePort' = Nil /\ isCapturing' = FALSE /\ UNCHANGED open
EndCapture ==
  /\ open' = open \ {activePort} /\ activePort' = Nil
  /\ isCapturing' = FALSE

------------------------------------------------------------------------------
(* The buttons.  One of them starts or stops, by what the screen believes; *)
(* the other, to load a file, cannot be clicked while the screen believes  *)
(* in a download.  Neither is disabled while a call is under way.          *)

Clickable(k) ==
  /\ call[k].pc = "unused"
  /\ \A j \in Call : j < k => call[j].pc # "unused"

Becomes(k, pc) == call' = [call EXCEPT ![k].pc = pc]

ClickStart(k) ==
  /\ Clickable(k) /\ ~ui.capturing
  /\ Becomes(k, "starting")
  /\ ui' = [ui EXCEPT !.captured = 0]
  /\ UNCHANGED <<service, ports, goroutines>>

ClickStop(k) ==
  /\ Clickable(k) /\ ui.capturing
  /\ Becomes(k, "stopping")
  /\ UNCHANGED <<service, ports, goroutines, ui>>

ClickLoad(k) ==
  /\ Clickable(k) /\ ~ui.capturing
  /\ Becomes(k, "choosing")
  /\ UNCHANGED <<service, ports, goroutines, ui>>

(* The dialog is answered, whatever has happened meanwhile.                *)
ChooseFile(k) ==
  /\ call[k].pc = "choosing"
  /\ Becomes(k, "loading")
  /\ ui' = [ui EXCEPT !.captured = 0]
  /\ UNCHANGED <<service, ports, goroutines>>

ChooseNone(k) ==
  /\ call[k].pc = "choosing"
  /\ Becomes(k, "over")
  /\ UNCHANGED <<service, ports, goroutines, ui>>

------------------------------------------------------------------------------
(* The calls in the service *)

StartCapture(k) ==
  /\ call[k].pc = "starting"
  /\ ~isCapturing
  /\ open = {}      \* one watch on one port, which opens once at a time
  /\ stopSignal < MaxCaptures
  /\ LET c == stopSignal + 1
     IN  /\ activePort' = c /\ stopSignal' = c /\ open' = {c}
         /\ call' = [call EXCEPT ![k].pc = "settling", ![k].port = c]
  /\ isCapturing' = TRUE
  /\ captureBuffer' = <<>> /\ staged' = FALSE
  /\ UNCHANGED <<closed, sent, goroutines, ui>>

(* A download is going on, the port does not open, or the file cannot be   *)
(* parsed.                                                                 *)
CallFails(k) ==
  /\ call[k].pc \in {"starting", "loading"}
  /\ Becomes(k, "over")
  /\ UNCHANGED <<service, ports, goroutines, ui>>

(* After the line has settled, 0.6 s later: the first command, and the two *)
(* goroutines.                                                             *)
SendFirst(k) ==
  /\ call[k].pc = "settling" /\ call[k].port \in open
  /\ LET c == call[k].port
     IN  /\ reader' = [reader EXCEPT ![c].pc = "new"]
         /\ retry' = [retry EXCEPT ![c].pc = "new", ![c].attempt = 2]
  /\ call' = [call EXCEPT ![k].pc = "started", ![k].port = Nil]
  /\ UNCHANGED <<service, ports, ui>>

(* The write fails, as it does when the port has been closed meanwhile.    *)
SendFirstFails(k) ==
  /\ call[k].pc = "settling"
  /\ open' = open \ {call[k].port}
  /\ activePort' = Nil /\ isCapturing' = FALSE
  /\ call' = [call EXCEPT ![k] = [NoCall EXCEPT !.pc = "over"]]
  /\ UNCHANGED <<stopSignal, captureBuffer, staged, closed, sent, goroutines, ui>>

(* A download that has completed is returned as it is.                     *)
StopReturns(k) ==
  /\ call[k].pc = "stopping"
  /\ ~isCapturing /\ staged
  /\ call' = [call EXCEPT ![k].pc = "answered", ![k].found = TRUE]
  /\ UNCHANGED <<service, ports, goroutines, ui>>

(* Otherwise the call takes the bytes there are, parses them unlocked, and *)
(* stores what it found.                                                   *)
StopCapture(k) ==
  /\ call[k].pc = "stopping"
  /\ isCapturing \/ ~staged
  /\ IF isCapturing
     THEN closed' = closed \cup {stopSignal} /\ EndCapture
     ELSE UNCHANGED <<closed, open, activePort, isCapturing>>
  /\ call' = [call EXCEPT ![k].pc = "parsing", ![k].found = Finds(captureBuffer)]
  /\ UNCHANGED <<stopSignal, captureBuffer, staged, sent, goroutines, ui>>

StopStores(k) ==
  /\ call[k].pc = "parsing"
  /\ staged' = call[k].found
  /\ call' = [call EXCEPT ![k].pc = "stored", ![k].found = FALSE]
  /\ UNCHANGED <<isCapturing, activePort, stopSignal, captureBuffer, ports,
                 goroutines, ui>>

(* It returns what is staged by then.                                      *)
StopReads(k) ==
  /\ call[k].pc = "stored"
  /\ call' = [call EXCEPT ![k].pc = "answered", ![k].found = staged]
  /\ UNCHANGED <<service, ports, goroutines, ui>>

(* No look at what is going on: a download loses its flag and its bytes,   *)
(* and keeps its port, channel and goroutines.                             *)
LoadWatchwareExport(k) ==
  /\ call[k].pc = "loading"
  /\ isCapturing' = FALSE
  /\ captureBuffer' = <<>> /\ staged' = TRUE
  /\ call' = [call EXCEPT ![k].pc = "answered", ![k].found = TRUE]
  /\ UNCHANGED <<activePort, stopSignal, ports, goroutines, ui>>

------------------------------------------------------------------------------
(* The screen takes the answers *)

StartAnswered(k) ==
  /\ call[k].pc = "started"
  /\ ui' = [ui EXCEPT !.capturing = TRUE]
  /\ Becomes(k, "over")
  /\ UNCHANGED <<service, ports, goroutines>>

ListAnswered(k) ==
  /\ call[k].pc = "answered"
  /\ ui' = [ui EXCEPT !.capturing = FALSE, !.captured = Uploads(call[k].found)]
  /\ call' = [call EXCEPT ![k] = [NoCall EXCEPT !.pc = "over"]]
  /\ UNCHANGED <<service, ports, goroutines>>

(* A screen that forgets to leave the state of a download.                 *)
ScreenShowsSlip ==
  /\ ui.events # <<>>
  /\ ui' = [ui EXCEPT !.captured = @ + Uploads(Head(ui.events)),
                      !.events = Tail(@)]
  /\ UNCHANGED <<service, ports, goroutines, call>>

(* The screen appends the times, and takes the download for complete.      *)
ScreenShows ==
  /\ ui.events # <<>>
  /\ ui' = [capturing |-> FALSE,
            captured  |-> ui.captured + Uploads(Head(ui.events)),
            events    |-> Tail(ui.events)]
  /\ UNCHANGED <<service, ports, goroutines, call>>

------------------------------------------------------------------------------
(* serialReaderLoop *)

ReaderEnds(c) == reader' = [reader EXCEPT ![c] = [NoReader EXCEPT !.pc = "ended"]]

(* The goroutine takes the fields of the service as it finds them.         *)
ReaderStarts(c) ==
  /\ reader[c].pc = "new"
  /\ IF activePort = Nil
     THEN ReaderEnds(c)
     ELSE reader' = [reader EXCEPT ![c].pc = "polling", ![c].port = activePort,
                                   ![c].signal = stopSignal]
  /\ UNCHANGED <<service, ports, retry, call, ui>>

(* A loop that looks at the channel after a read that succeeded only.      *)
ReaderStopsSlip(c) ==
  /\ reader[c].pc = "polling" /\ reader[c].signal \in closed
  /\ reader[c].port \in open
  /\ ReaderEnds(c)
  /\ UNCHANGED <<service, ports, retry, call, ui>>

ReaderStops(c) ==
  /\ reader[c].pc = "polling" /\ reader[c].signal \in closed
  /\ ReaderEnds(c)
  /\ UNCHANGED <<service, ports, retry, call, ui>>

(* A closed port gives an error and no bytes, which the loop takes for a   *)
(* timeout.  Otherwise bytes may have come, and it needs the mutex next.   *)
MayRead(c) ==
  /\ reader[c].pc = "polling" /\ reader[c].signal \notin closed
  /\ reader[c].port \in open /\ sent[reader[c].port] < Footer

Read(c) ==
  /\ MayRead(c)
  /\ LET p == reader[c].port
     IN  /\ sent' = [sent EXCEPT ![p] = @ + 1]
         /\ reader' = [reader EXCEPT ![c].pc = "holding",
                                    ![c].part = sent'[p]]
  /\ UNCHANGED <<service, open, closed, retry, call, ui>>

(* Bytes together with an error: the loop ends, and nobody else notices.   *)
ReadBreaks(c) ==
  /\ MayRead(c)
  /\ sent' = [sent EXCEPT ![reader[c].port] = @ + 1]
  /\ ReaderEnds(c)
  /\ UNCHANGED <<service, open, closed, retry, call, ui>>

(* The bytes go to the buffer, whichever download it is of by now.         *)
ReaderAppends(c) ==
  /\ reader[c].pc = "holding"
  /\ captureBuffer' = Append(captureBuffer, reader[c].part)
  /\ reader' =
       IF Complete(captureBuffer')
       THEN [reader EXCEPT ![c].pc = "finalizing", ![c].part = 0,
                           ![c].found = Finds(captureBuffer')]
       ELSE [reader EXCEPT ![c].pc = "polling", ![c].part = 0]
  /\ UNCHANGED <<isCapturing, activePort, stopSignal, staged, ports, retry,
                 call, ui>>

(* finalizeCapture, after the parse: the port that is active now is        *)
(* closed, and every time parsed goes to the screen as an event.           *)
Finalize(c) ==
  /\ reader[c].pc = "finalizing"
  /\ EndCapture
  /\ staged' = reader[c].found
  /\ ReaderEnds(c)
  /\ ui' = [ui EXCEPT !.events = Append(@, staged')]
  /\ UNCHANGED <<stopSignal, captureBuffer, closed, sent, retry, call>>

------------------------------------------------------------------------------
(* uploadRetryLoop *)

RetryEnds(c) == retry' = [retry EXCEPT ![c] = [NoRetry EXCEPT !.pc = "ended"]]

(* The channel is read from the service, without the mutex, each time.     *)
RetryWaitsSlip(c) ==
  /\ retry[c].pc = "new"
  /\ retry' = [retry EXCEPT ![c].pc = "waiting", ![c].signal = stopSignal]
  /\ UNCHANGED <<service, ports, reader, call, ui>>

RetryWaits(c) ==
  /\ retry[c].pc = "new"
  /\ IF retry[c].attempt > MaxRetries
     THEN RetryEnds(c)
     ELSE retry' = [retry EXCEPT ![c].pc = "waiting", ![c].signal = stopSignal]
  /\ UNCHANGED <<service, ports, reader, call, ui>>

RetryStops(c) ==
  /\ retry[c].pc = "waiting" /\ retry[c].signal \in closed
  /\ RetryEnds(c)
  /\ UNCHANGED <<service, ports, reader, call, ui>>

(* The write comes after the mutex is left and changes no field; one that  *)
(* fails ends the loop.                                                    *)
RetrySends(c) ==
  /\ retry[c].pc = "waiting"
  /\ isCapturing /\ activePort \in open /\ captureBuffer = <<>>
  /\ retry' = [retry EXCEPT ![c].pc = "new", ![c].attempt = @ + 1]
  /\ UNCHANGED <<service, ports, reader, call, ui>>

RetryGivesUp(c) ==
  /\ retry[c].pc = "waiting"
  /\ RetryEnds(c)
  /\ UNCHANGED <<service, ports, reader, call, ui>>

------------------------------------------------------------------------------

Clicks(k) ==
  ClickStart(k) \/ ClickStop(k) \/ ClickLoad(k) \/ ChooseFile(k) \/ ChooseNone(k)

CallSteps(k) ==
  \/ StartCapture(k) \/ CallFails(k) \/ SendFirst(k) \/ SendFirstFails(k)
  \/ StopReturns(k) \/ StopCapture(k) \/ StopStores(k) \/ StopReads(k)
  \/ LoadWatchwareExport(k) \/ StartAnswered(k) \/ ListAnswered(k)

ReaderSteps(c) ==
  \/ ReaderStarts(c) \/ ReaderStops(c) \/ ReaderAppends(c) \/ Finalize(c)

RetrySteps(c) ==
  RetryWaits(c) \/ RetryStops(c) \/ RetrySends(c) \/ RetryGivesUp(c)

Next ==
  \/ ScreenShows
  \/ \E k \in Call : Clicks(k) \/ CallSteps(k)
  \/ \E c \in Capture :
       Read(c) \/ ReadBreaks(c) \/ ReaderSteps(c) \/ RetrySteps(c)

Spec == Init /\ [][Next]_vars

(* Goroutines that can run do run, and events are delivered.  The watch    *)
(* need not answer, nobody need click or choose, and calls may hang.       *)
Fairness ==
  /\ WF_vars(ScreenShows)
  /\ \A c \in Capture : WF_vars(ReaderSteps(c)) /\ WF_vars(RetrySteps(c))

------------------------------------------------------------------------------
(* Properties *)

(* Every field, goroutine, call and list has its own shape; no download    *)
(* sends more than MaxRetries commands.                                    *)
TypeOK ==
  /\ isCapturing \in BOOLEAN
  /\ activePort \in 0 .. MaxCaptures /\ stopSignal \in 0 .. MaxCaptures
  /\ captureBuffer \in Seq(Part) /\ staged \in BOOLEAN
  /\ open \in SUBSET Capture /\ closed \in SUBSET (0 .. MaxCaptures)
  /\ sent \in [Capture -> 0 .. Footer]
  /\ reader \in [Capture -> Reader] /\ retry \in [Capture -> Retry]
  /\ call \in [Call -> CallRow] /\ ui \in Review

(* close(s.stopSignal) panics on a channel that is closed.  StopCapture    *)
(* calls it whenever isCapturing is set, whichever of the calls and        *)
(* goroutines has ended the download otherwise.                            *)
NoDoubleClose == isCapturing => stopSignal # Nil /\ stopSignal \notin closed

(* A port that is open is not forgotten: whatever call or goroutine lets   *)
(* go of the active port, of its own download or of another, has closed    *)
(* it; the one exception is a StartCapture whose first command fails after *)
(* its download was stopped and another one was started.                   *)
PortNotForgotten ==
  [][activePort # Nil /\ activePort' # activePort =>
       \/ activePort \notin open'
       \/ \E k \in Call :
            /\ call[k].pc = "settling" /\ call'[k].pc = "over"
            /\ call[k].port < activePort]_vars

(* A stopped download does wind down, even if others have been started and *)
(* files loaded since: the loop that repeats commands ends, whichever      *)
(* download's channel and port it has come to look at, and so does the     *)
(* reader, unless its channel is still open, although a closed port gives  *)
(* it nothing but errors.                                                  *)
CaptureWindsDown ==
  \A c \in Capture :
    reader[c].pc # "none" ~>
      /\ retry[c].pc = "ended"
      /\ reader[c].pc = "ended" \/ reader[c].signal \notin closed

(* Once the whole upload has been received, the screen is told.            *)
DownloadReported ==
  (isCapturing /\ Complete(captureBuffer)) ~> ~ui.capturing

=============================================================================
