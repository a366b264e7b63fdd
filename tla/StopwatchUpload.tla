--------------------------- MODULE StopwatchUpload ---------------------------
(***************************************************************************)
(* What the stopwatch service makes of the memory of the watch, read from  *)
(* the watch itself (services/stopwatch_service.go, parseUpload) or from   *)
(* the file that the vendor's program exports (parseWatchwareExport).      *)
(*                                                                         *)
(* The watch is outside the program: its uploads and exports are those of  *)
(* docs/watchware-stopwatch-upload-format.md and of the service's tests.   *)
(* A block is the records of one segment, a record the time it holds or    *)
(* Control.  An upload is complete and its blocks have whole records.      *)
(***************************************************************************)
EXTENDS Integers, SequencesExt

CONSTANTS
  Time,        (* cumulative times of the watch, in hundredths             *)
  MaxLaps,     (* bound on the laps of a segment                           *)
  MaxSegments, (* bound on the segments in the memory                      *)
  MaxStale     (* bound on the records left from before                    *)

ASSUME UploadAssumption ==
  /\ Time \subseteq Nat \ {0}
  /\ MaxLaps \in Nat /\ MaxSegments \in Nat /\ MaxStale \in Nat

VARIABLES
  memory,   (* the segments timed: laps, stop, and whether the start has a *)
            (* record                                                      *)
  source,   (* what was read last: the watch, the file, or nothing         *)
  included, (* includeTerminalStop                                         *)
  segments  (* capturedSegments, of times without their places             *)

uploadVars == <<memory, source, included, segments>>

Control == -1
StartMarker == 0

------------------------------------------------------------------------------
(* The watch *)

(* A list without the entries that are x, as a loop over it appends them.  *)
Without(list, x) ==
  LET upTo[k \in 0 .. Len(list)] ==
        IF k = 0 THEN <<>>
        ELSE IF list[k] = x THEN upTo[k - 1] ELSE Append(upTo[k - 1], list[k])
  IN upTo[Len(list)]

Rising(s) == \A i \in 1 .. Len(s) - 1 : s[i] < s[i + 1]

Laps == {s \in SeqOf(Time, MaxLaps) : s # <<>> /\ Rising(s)}

Segment ==
  {x \in [laps : Laps, stop : Time, start : {<<>>, <<StartMarker>>}] :
     Last(x.laps) <= x.stop}

(* A stop that repeats the last lap is known of the last segment only.     *)
Memory ==
  {m \in SeqOf(Segment, MaxSegments) :
     m # <<>> /\ \A i \in 1 .. Len(m) - 1 : Last(m[i].laps) < m[i].stop}

(* The last segment may have its stop in the footer only.                  *)
Block(m, i, stopped) ==
  m[i].start \o m[i].laps
    \o (IF i < Len(m) \/ stopped THEN <<m[i].stop>> ELSE <<>>)

(* Behind it may follow what the memory held before: after a control       *)
(* record, or else with times that begin anew.                             *)
Stale(last) ==
  {<<>>} \cup {<<Control>> \o s : s \in SeqOf(Time, MaxStale)}
         \cup {s \in SeqOf(Time, MaxStale) \ {<<>>} : s[1] <= Last(last)}

(* Only the times themselves tell, unless the footer has the number of the *)
(* segment's records.                                                      *)
Told(last, stale) ==
  LET s == Without(stale, Control)
  IN  s = <<>> \/ s[1] <= Last(last)

Footers(m, last, stale) ==
  {f \in [segments : {Len(m), Len(m) + 1}, selected : {Len(m), Len(m) + 1},
          records : {0, Len(last)}, stop : {m[Len(m)].stop}] :
     /\ f.selected = f.segments
     /\ Told(last, stale) \/ (f.records # 0 /\ f.selected = Len(m))}

(* A memory that is longer than the footer says ends with older segments.  *)
Blocks(m, stopped, stale, footer) ==
  LET blocks == [i \in 1 .. Len(m) |->
                   IF i < Len(m) THEN Block(m, i, stopped)
                   ELSE Block(m, i, stopped) \o stale]
  IN  {blocks} \cup {Append(blocks, <<t>>) :
                       t \in IF footer.segments = Len(m) THEN Time ELSE {}}

(* An export has a row for each slot.  The memory is a ring, and the file  *)
(* begins at any slot.                                                     *)
Rows(x, k) ==
  LET times == x.start \o x.laps \o <<x.stop>>
      first == IF x.start = <<>> THEN 1 ELSE 0
      row == [i \in 1 .. Len(times) |-> [slot |-> first + i - 1, time |-> times[i]]]
  IN  IF k <= Len(row) THEN SubSeq(row, k, Len(row)) \o SubSeq(row, 1, k - 1)
      ELSE row

------------------------------------------------------------------------------
(* parseUpload *)

(* extractTimelineTimes                                                    *)
Timeline(block) == Without(block, Control)

Resets(times) == {i \in 2 .. Len(times) : times[i] <= times[i - 1]}

(* trimTimelineAtReset                                                     *)
Trimmed(times) ==
  IF Resets(times) = {} THEN times
  ELSE SubSeq(times, 1, Min(Resets(times)) - 1)

(* The footer's count, for the segment it is about.                        *)
Counted(times, i, footer) ==
  IF i = footer.selected /\ footer.records \in 1 .. Len(times)
  THEN SubSeq(times, 1, footer.records)
  ELSE times

WithoutStart(times) ==
  IF times # <<>> /\ times[1] = StartMarker THEN Tail(times) ELSE times

(* A stop in the footer that is repeated by the last record, or by two.    *)
EndsAtStop(times, stop) == stop > 0 /\ times # <<>> /\ Last(times) = stop
EndsTwice(times, stop) ==
  /\ Len(times) >= 2 /\ EndsAtStop(times, stop)
  /\ times[Len(times) - 1] = stop

(* A parser that leaves the stop of a segment to the operator's choice.    *)
EndDroppedSlip(times, stop, isLast, include, reset) ==
  \/ isLast /\ ~include /\ reset
  \/ isLast /\ EndsTwice(times, stop)
  \/ ~include /\ EndsAtStop(times, stop)

(* Whether the last time is dropped, as the stop of its segment.           *)
EndDropped(times, stop, isLast, include, reset) ==
  \/ ~isLast
  \/ ~include /\ reset
  \/ EndsTwice(times, stop)
  \/ ~include /\ EndsAtStop(times, stop)

(* sanitizeSegmentTimeline                                                 *)
Sanitized(times, stop, isLast, include, reset) ==
  LET t == WithoutStart(times)
  IN  IF t # <<>> /\ EndDropped(t, stop, isLast, include, reset)
      THEN Front(t) ELSE t

(* The blocks that hold a segment: the footer counts them.                 *)
Active(upload) ==
  LET blocks == Without(upload.blocks, <<>>)
  IN  IF upload.footer.segments \in 1 .. Len(blocks)
      THEN SubSeq(blocks, 1, upload.footer.segments) ELSE blocks

ParseUpload(upload, include) ==
  LET active == Active(upload)
      Parse(i) ==
        LET times == Timeline(active[i])
        IN  Sanitized(Counted(Trimmed(times), i, upload.footer),
                      upload.footer.stop, i = Len(active), include,
                      Resets(times) # {})
  IN  [i \in 1 .. Len(active) |-> Parse(i)]

------------------------------------------------------------------------------
(* parseWatchwareExport *)

(* The order of the slots, a ring being cut at slot 0.  Without it a       *)
(* stable sort puts a row behind those of a lower slot.                    *)
Ahead(rows, i) ==
  {j \in 1 .. Len(rows) : \/ rows[j].slot < rows[i].slot
                          \/ rows[j].slot = rows[i].slot /\ j < i}
BySlot(rows) ==
  [p \in 1 .. Len(rows) |->
     rows[CHOOSE i \in 1 .. Len(rows) : Cardinality(Ahead(rows, i)) = p - 1]]
Ordered(rows) ==
  LET zeros == {i \in 1 .. Len(rows) : rows[i].slot = 0}
  IN  IF zeros = {} THEN BySlot(rows)
      ELSE SubSeq(rows, Min(zeros), Len(rows)) \o SubSeq(rows, 1, Min(zeros) - 1)

(* shouldTrimWatchwareTerminalStop: a last time a minute and ten times the *)
(* median gap after the one before.                                        *)
OutlierGap == 6000
OutlierFactor == 10

Gap(rows, i) == rows[i].time - rows[i - 1].time
RecentGaps(rows) ==
  SortSeq(SelectSeq([i \in 1 .. Len(rows) - 3 |-> Gap(rows, i + 2)], LAMBDA g : g > 0),
          LAMBDA x, y : x < y)
IsOutlier(rows) ==
  LET n == Len(rows)
      gaps == RecentGaps(rows)
  IN  /\ n >= 4 /\ rows[1].slot = 0
      /\ \A i \in 2 .. n : rows[i].slot = rows[i - 1].slot + 1
      /\ gaps # <<>>
      /\ Gap(rows, n) >= OutlierGap
      /\ Gap(rows, n) >= OutlierFactor * gaps[(Len(gaps) \div 2) + 1]

(* The times up to the first of the equal ones at the end.                 *)
WithoutRepeats(times) ==
  SubSeq(times, 1, Min({i \in 0 .. Len(times) :
                          \A j \in i + 1 .. Len(times) : i > 0 /\ times[j] = times[i]}))

(* normalizeWatchwareRows                                                  *)
Normalized(rows, include) ==
  LET all == Ordered(rows)
      kept == IF ~include /\ IsOutlier(all) THEN Front(all) ELSE all
  IN  WithoutRepeats(WithoutStart([i \in 1 .. Len(kept) |-> kept[i].time]))

------------------------------------------------------------------------------

UploadInit ==
  /\ memory \in Memory
  /\ source = "none" /\ included = FALSE /\ segments = <<>>

(* finalizeCapture stages every segment of a complete upload.              *)
Download(include, stopped) ==
  LET last == Block(memory, Len(memory), stopped)
  IN  \E stale \in Stale(last) :
      \E footer \in Footers(memory, last, stale) :
      \E blocks \in Blocks(memory, stopped, stale, footer) :
        /\ source' = "watch" /\ included' = include
        /\ segments' = ParseUpload([blocks |-> blocks, footer |-> footer], include)
        /\ UNCHANGED memory

ParseWatchwareExport(include, k) ==
  /\ source' = "file" /\ included' = include
  /\ segments' = [i \in 1 .. Len(memory) |-> Normalized(Rows(memory[i], k), include)]
  /\ UNCHANGED memory

UploadNext ==
  \E include \in BOOLEAN :
    \/ \E stopped \in BOOLEAN : Download(include, stopped)
    \/ \E k \in 1 .. MaxLaps + 2 : ParseWatchwareExport(include, k)

UploadSpec == UploadInit /\ [][UploadNext]_uploadVars

------------------------------------------------------------------------------
(* Properties *)

Staged(i, lists) == i \in DOMAIN segments /\ segments[i] \in lists

(* Every lap of every segment is staged, in order and under its segment,   *)
(* and nothing else but the stop, when the operator keeps the stop; of an  *)
(* export always.  What is left in the memory of the watch from earlier    *)
(* races never is.                                                         *)
EveryLapStaged ==
  source = "file" \/ (source = "watch" /\ included) =>
    /\ Len(segments) = Len(memory)
    /\ \A i \in 1 .. Len(memory) :
         Staged(i, {memory[i].laps, Append(memory[i].laps, memory[i].stop)})

(* Without it no stop of a download is staged for a finisher, of whichever *)
(* segment, and no segment before the last loses a lap.                    *)
StopNotStaged ==
  source = "watch" /\ ~included =>
    /\ Len(segments) = Len(memory)
    /\ \A i \in 1 .. Len(memory) - 1 : Staged(i, {memory[i].laps})
    /\ IsPrefix(segments[Len(segments)], memory[Len(memory)].laps)

(* Whatever the layout of the upload or the export, and whatever the       *)
(* operator chooses: what the service stages of a memory are its finishes. *)
StagedAsRecorded == EveryLapStaged /\ StopNotStaged

(* "First 8 timeline records are the selected segment data", with the stop *)
(* in the footer and older times behind them: a stop after the last lap    *)
(* takes no lap with it.                                                   *)
LapsKept ==
  LET x == Last(memory)
  IN  source = "watch" /\ Last(x.laps) < x.stop =>
        IsPrefix(x.laps, Last(segments))
=============================================================================
