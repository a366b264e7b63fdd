------------------------------- MODULE RaceLog -------------------------------
(***************************************************************************)
(* What the phones of a race are promised: a log of every stream, a clock  *)
(* that is started once, and a time for every entry of a log, which is     *)
(* always the one from that start to its capture.  An entry is written at  *)
(* the end of its log, under an id that is never used again, and taken     *)
(* back only from there.                                                   *)
(***************************************************************************)
EXTENDS Integers, Sequences

CONSTANTS
  Stream, Phone, Id, Instant,
  Value,      (* what an entry says                                        *)
  Once,       (* those values that one entry at most may have              *)
  Pending,    (* the time of an entry before the start                     *)
  None

VARIABLES
  clock,      (* the start, or None                                        *)
  entry,      (* every entry ever written                                  *)
  log,        (* the ids of the entries that stand                         *)
  shown       (* the time of each of them                                  *)

Entry == [phone : Phone, at : Instant, value : Value]
Logged(l) == UNION {{l[x][k] : k \in DOMAIN l[x]} : x \in Stream}
Elapsed(at, c) == IF c = None THEN Pending ELSE at - c
Times(c, e, l) ==
  LET standing == Logged(l)
  IN [i \in Id |-> IF i \in standing THEN Elapsed(e[i].at, c) ELSE None]

LogInit ==
  /\ clock = None
  /\ entry = [i \in Id |-> None]
  /\ log = [x \in Stream |-> <<>>]
  /\ shown = [i \in Id |-> None]

Start ==
  /\ clock = None /\ clock' \in Instant
  /\ \A i \in Logged(log) : entry[i].at >= clock'
  /\ UNCHANGED <<entry, log>>

(* The entry that is written is what entry'[i] says.                       *)
Record(i) ==
  /\ entry[i] = None /\ entry'[i] \in Entry
  /\ clock # None => entry'[i].at >= clock
  /\ entry'[i].value \in Once => \A j \in Logged(log) : entry[j].value # entry'[i].value
  /\ entry' = [entry EXCEPT ![i] = entry'[i]]
  /\ \E x \in Stream : log' = [log EXCEPT ![x] = Append(@, i)]
  /\ UNCHANGED clock

TakeBack(x) ==
  /\ log[x] # <<>>
  /\ log' = [log EXCEPT ![x] = SubSeq(@, 1, Len(@) - 1)]
  /\ UNCHANGED <<clock, entry>>

LogNext ==
  /\ \/ Start
     \/ \E i \in Id : Record(i)
     \/ \E x \in Stream : TakeBack(x)
  /\ shown' = Times(clock', entry', log')

LogSpec == LogInit /\ [][LogNext]_<<clock, entry, log, shown>>
=============================================================================
