------------------------------ MODULE RecordLog ------------------------------
(***************************************************************************)
(* CompanionRecord as the log the phones are promised: how the tables hold *)
(* it while nobody edits them on the laptop.                               *)
(***************************************************************************)
EXTENDS CompanionRecord, Sequences

Streams == {"time", "bib"} \X Scope

(* Every accepted request but a start is an entry, taken back or not; a    *)
(* finish says nothing but its time.                                       *)
EntryOf(r) ==
  IF IsRequest(r) /\ request[r].op # "start"
  THEN [phone |-> request[r].device, at |-> request[r].at,
        value |-> IF request[r].op = "bib" THEN request[r].value ELSE None]
  ELSE None

PulseAt(s, p) ==
  CHOOSE i \in RowId : IsPulse(i) /\ pulse[i].scope = s /\ pulse[i].place = p

LogOf(x) ==
  IF x[1] = "time"
  THEN [p \in 1 .. Highest(PulsePlaces(x[2])) |-> PulseAt(x[2], p)]
  ELSE [p \in 1 .. Highest(ChutePlaces(x[2])) |-> chute[x[2]][p].by]

(* The time that is stored with what a request wrote.                      *)
StoredTime(r) ==
  CASE Live(r, "time") -> pulse[r].time
    [] Live(r, "bib")  -> RowOf(r).time
    [] OTHER           -> None

Entries == [r \in Request |-> EntryOf(r)]
Logs == [x \in Streams |-> LogOf(x)]
StoredTimes == [r \in Request |-> StoredTime(r)]

Log == INSTANCE RaceLog WITH
  Stream <- Streams, Phone <- Device, Id <- Request, Instant <- Time,
  Value <- Value \cup {None},
  Once <- {v \in Value : v.tag \in {"plain", "PH"}},
  clock <- start, entry <- Entries, log <- Logs, shown <- StoredTimes

(* services/companion_service.go (Submit, Undo): what the phones record is *)
(* a log of each stream that grows and shrinks at its end only, every one  *)
(* of whose stored times is that from the start to the capture, whichever  *)
(* of them reached the laptop first.                                       *)
PhonesKeepALog == Log!LogSpec
=============================================================================
