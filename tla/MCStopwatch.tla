----------------------------- MODULE MCStopwatch -----------------------------
(***************************************************************************)
(* The stopwatch service in one run: what threads, calls and events do to  *)
(* a download, and what the parser makes of what was downloaded.  The      *)
(* capture treats an upload as a whole, so a run is of one of the two.     *)
(***************************************************************************)
EXTENDS StopwatchCapture, StopwatchUpload

VARIABLE part
mcVars == <<vars, uploadVars, part>>

CaptureOnly == part = "capture" /\ UNCHANGED <<uploadVars, part>>
ParserOnly == part = "parser" /\ UNCHANGED <<vars, part>>

MCInit ==
  /\ Init /\ UploadInit /\ part \in {"capture", "parser"}
  /\ part = "capture" => memory = CHOOSE m \in Memory : TRUE

MCNext == (CaptureOnly /\ Next) \/ (ParserOnly /\ UploadNext)

MCSpec == MCInit /\ [][MCNext]_mcVars /\ Fairness
=============================================================================
