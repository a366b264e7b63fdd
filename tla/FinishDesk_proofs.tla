-------------------------- MODULE FinishDesk_proofs --------------------------
(***************************************************************************)
(* Proofs about the Placements and the Finish Times screen, for any        *)
(* numbers of events, bibs, times and calls under way, and for any number  *)
(* of steps of operator and phones.                                        *)
(***************************************************************************)
EXTENDS MCFinishDesk, WellFoundedInduction, TLAPS

-----------------------------------------------------------------------------
(* The next place *)

(* A bounded set of numbers has a largest one, or is empty.                *)
LEMMA BoundedMax ==
  ASSUME NEW k \in Nat, NEW S \in SUBSET (0 .. k)
  PROVE  \E m \in S \cup {0} : \A q \in S : q <= m
<1> DEFINE D == {k - q : q \in S \cup {0}}
<1>1. D \subseteq Nat /\ D # {}
  OBVIOUS
<1>2. PICK x \in D : \A y \in D : ~(<<y, x>> \in OpToRel(<, Nat))
  <2> HIDE DEF D
  <2> QED
    BY ONLY <1>1, NatLessThanWellFounded, WFMin, Zenon
<1>3. \A y \in D : x <= y
  <2>1. TAKE y \in D
  <2>2. <<y, x>> \notin OpToRel(<, Nat)
    BY <1>2
  <2>3. ~(y < x)
    BY <1>1, <2>2 DEF OpToRel
  <2> QED
    BY <1>1, <2>3
<1>4. PICK m \in S \cup {0} : x = k - m
  OBVIOUS
<1>5. \A q \in S : k - q \in D
  OBVIOUS
<1>6. ASSUME NEW q \in S PROVE q <= m
  <2>1. x <= k - q
    BY <1>3, <1>5
  <2> QED
    BY ONLY <2>1, <1>4, q \in 0 .. k, m \in 0 .. k, k \in Nat
<1> QED
  BY <1>6

(* The place after a list is one behind all of it.                         *)
LEMMA NextIsBehind ==
  ASSUME NEW S \in SUBSET (0 .. MaxPlace)
  PROVE  /\ NextAfter(S) \in 1 .. MaxPlace + 1
         /\ \A q \in S : q < NextAfter(S)
         /\ Highest(S) \in S \cup {0}
<1>1. S \in SUBSET (0 .. MaxPlace) /\ MaxPlace \in Nat
  BY ScreenAssumption
<1>2. \E m \in S \cup {0} : \A q \in S : q <= m
  BY <1>1, BoundedMax
<1>3. Highest(S) \in S \cup {0} /\ \A q \in S : q <= Highest(S)
  BY <1>2 DEF Highest
<1>4. S \cup {0} \subseteq 0 .. MaxPlace
  BY <1>1
<1>5. \A h \in 0 .. MaxPlace : h + 1 \in 1 .. MaxPlace + 1
                              /\ \A q \in 0 .. MaxPlace : q <= h => q < h + 1
  BY <1>1
<1> QED
  BY <1>3, <1>4, <1>5 DEF NextAfter

(* So no row stands there.                                                 *)
LEMMA NextPlaceIsFree ==
  ASSUME NEW table \in Rows
  PROVE  /\ NextPlace(table) \in 1 .. MaxPlace + 1
         /\ NextPlace(table) \in Place => table[NextPlace(table)] = None
<1>1. Filled(table) \in SUBSET (0 .. MaxPlace)
  BY DEF Filled, Slot
<1>2. /\ NextPlace(table) \in 1 .. MaxPlace + 1
      /\ \A q \in Filled(table) : q < NextPlace(table)
  BY <1>1, NextIsBehind DEF NextPlace
<1>3. NextPlace(table) \in Place => NextPlace(table) \notin Filled(table)
  BY <1>2
<1>4. Place \subseteq Slot
  BY DEF Place, Slot
<1> QED
  BY <1>2, <1>3, <1>4 DEF Filled

-----------------------------------------------------------------------------
(* The Placements screen *)

(* What a call that is under way holds.  Until the laptop was asked it is  *)
(* about a plain finish, and where the screen will not ask, the operator   *)
(* chose the row or none was seen there; once decided, it replaces a row   *)
(* seen only as asked, and a duplicate has its original at another place   *)
(* seen, or not at its own.                                                *)
Decided(r) ==
  /\ r.seen[r.place] \notin {None, r.mark} => r.asked
  /\ \A b \in Bib : r.mark = Dup(b) =>
       \/ \E q \in Place \ {r.place} : r.seen[q] = Plain(b)
       \/ r.seen[r.place] # Plain(b)

Undecided(r) ==
  /\ r.mark \in {Plain(b) : b \in Bib \cup {Excluded}}
  /\ r.skip => r.asked \/ r.seen[r.place] = None

Sound(r) ==
  /\ r.phase \in {"asking", "checking"} => r.op = "assign"
  /\ r.op = "assign" /\ r.phase # "written" => r.mark \in Mark
  /\ r.phase = "asking" => Undecided(r)
  /\ r.op = "assign" /\ r.phase \in {"checking", "writing"} => Decided(r)

CallsAreSound == \A c \in Call : call[c] # None => Sound(call[c])
AimsBehind == settled /\ ~dirty => target = NextPlace(rows)
DeskInv == TypeOK /\ CallsAreSound /\ AimsBehind

(* What changes the calls one at a time keeps to what holds of the others. *)
LEMMA OneCallChanges ==
  ASSUME TypeOK, CallsAreSound, NEW c \in Call, NEW r \in Request \cup {None},
         call' = [call EXCEPT ![c] = r], r # None => Sound(r)
  PROVE  call' \in [Call -> Request \cup {None}] /\ CallsAreSound'
<1>1. call \in [Call -> Request \cup {None}]
  BY DEF TypeOK
<1>2. \A d \in Call : call'[d] = IF d = c THEN r ELSE call[d]
  BY <1>1
<1>3. ASSUME NEW d \in Call, call'[d] # None PROVE Sound(call'[d])
  BY <1>2, <1>3 DEF CallsAreSound
<1> QED
  BY <1>1, <1>3 DEF CallsAreSound

(* An answer that finds a plain finish decides it.                         *)
LEMMA DecideIsSound ==
  ASSUME TypeOK, CallsAreSound, NEW c \in Call, NEW r \in Request, Sound(r),
         r.phase = "asking", NEW known \in BOOLEAN,
         known => \/ \E q \in Place \ {r.place} : Seen(r, q)
                  \/ ~Seen(r, r.place),
         Decide(c, r, known)
  PROVE  call' \in [Call -> Request \cup {None}] /\ CallsAreSound'
<1> DEFINE v == IF known THEN Dup(r.mark.of) ELSE r.mark
           confirm == ~r.skip /\ r.seen[r.place] \notin {None, v}
           send == [r EXCEPT !.mark = v, !.asked = @ \/ confirm, !.phase = "checking"]
<1>1. r.op = "assign" /\ Undecided(r)
  BY DEF Sound
<1>2. PICK b \in Bib \cup {Excluded} : r.mark = Plain(b)
  BY <1>1 DEF Undecided
<1>3. r.mark.of = b /\ v = (IF known THEN Dup(b) ELSE Plain(b)) /\ v \in Mark
  BY <1>2 DEF Plain, Dup, Mark
<1>4. send \in Request /\ send.mark = v /\ send.phase = "checking" /\ send.op = "assign"
      /\ send.seen = r.seen /\ send.place = r.place /\ send.asked = (r.asked \/ confirm)
  <2> HIDE DEF v, confirm
  <2>1. confirm \in BOOLEAN
    BY DEF confirm
  <2> QED
    BY <1>1, <1>3, <2>1 DEF Request, Phase
<1>5. Decided(send)
  <2>1. send.seen[send.place] \notin {None, send.mark} => send.asked
    <3>1. CASE r.skip
      BY <3>1, <1>1, <1>4 DEF Undecided
    <3>2. CASE ~r.skip
      BY <3>2, <1>4
    <3> QED
      BY <3>1, <3>2
  <2>2. ASSUME NEW a \in Bib, send.mark = Dup(a)
        PROVE \/ \E q \in Place \ {send.place} : send.seen[q] = Plain(a)
              \/ send.seen[send.place] # Plain(a)
    <3>1. known /\ a = b
      BY <2>2, <1>3, <1>4 DEF Plain, Dup
    <3>2. \A q \in Place : Seen(r, q) => r.seen[q] = Plain(a)
      BY <3>1, <1>2 DEF Seen
    <3>3. ~Seen(r, r.place) => r.seen[r.place] # Plain(a)
      BY <3>1, <1>2, <1>3, BibAssumption DEF Seen
    <3> QED
      BY <3>1, <3>2, <3>3, <1>4
  <2> QED
    BY <2>1, <2>2 DEF Decided
<1>6. Sound(send)
  BY <1>3, <1>4, <1>5 DEF Sound
<1>7. CASE call' = [call EXCEPT ![c] = send]
  <2> HIDE DEF send
  <2> QED
    BY <1>7, <1>4, <1>6, OneCallChanges
<1>8. CASE call' = [call EXCEPT ![c] = None]
  BY <1>8, OneCallChanges
<1> QED
  BY <1>7, <1>8 DEF Decide

(* What is submitted at the target, or at an empty row of the table.       *)
LEMMA SubmitIsSound ==
  ASSUME DeskInv, NEW c \in Call, NEW p \in Int, NEW b \in Bib \cup {Excluded},
         NEW skip \in BOOLEAN, skip => p = target \/ rows[p] = None,
         Submit(c, p, b, skip)
  PROVE  DeskInv'
<1> DEFINE r == [op |-> "assign", event |-> event, place |-> p,
                 mark |-> Plain(b), skip |-> skip,
                 asked |-> skip /\ (dirty \/ ~settled), seen |-> rows,
                 phase |-> "asking"]
<1>1. p \in Place /\ TypeOK /\ CallsAreSound /\ AimsBehind
  BY DEF Submit, MaySubmit, DeskInv
<1>2. Plain(b) \in Mark
  BY DEF Plain, Mark
<1>3. r \in Request
  BY <1>1, <1>2 DEF TypeOK, Request, Op, Phase
<1>4. skip => r.asked \/ rows[p] = None
  BY <1>1, NextPlaceIsFree DEF TypeOK, AimsBehind
<1>5. Sound(r)
  BY <1>2, <1>4 DEF Sound, Undecided
<1>6. call' \in [Call -> Request \cup {None}] /\ CallsAreSound'
  <2>1. CASE ~Seen(r, 0) /\ \E q \in Place \ {p} : Seen(r, q)
    <3>1. Decide(c, r, TRUE)
      BY <2>1 DEF Submit
    <3>2. r.place = p /\ r.phase = "asking"
      OBVIOUS
    <3> HIDE DEF r
    <3> QED
      BY <2>1, <3>1, <3>2, <1>1, <1>3, <1>5, DecideIsSound
  <2>2. CASE ~(~Seen(r, 0) /\ \E q \in Place \ {p} : Seen(r, q))
    <3>1. call' = [call EXCEPT ![c] = r]
      BY <2>2 DEF Submit
    <3> HIDE DEF r
    <3> QED
      BY <3>1, <1>1, <1>3, <1>5, OneCallChanges
  <2> QED
    BY <2>1, <2>2
<1>7. UNCHANGED <<chute, screen, aim, load>> /\ acts' \in 0 .. MaxActs
  BY <1>1, ScreenAssumption DEF Submit, Act, TypeOK
<1> QED
  BY <1>1, <1>6, <1>7 DEF DeskInv, TypeOK, AimsBehind, screen, aim, NextPlace, Filled

(* The steps of a call.                                                    *)
LEMMA GoesIsSound ==
  ASSUME DeskInv, NEW c \in Call, Goes(c)
  PROVE  DeskInv'
<1> DEFINE r == call[c]
<1>1. TypeOK /\ CallsAreSound /\ AimsBehind
  BY DEF DeskInv
<1>2. call[c] # None => call[c] \in Request /\ Sound(call[c])
  BY <1>1 DEF TypeOK, CallsAreSound
<1>3. CASE GetBibAssignment(c)
  <2>1. r \in Request /\ Sound(r) /\ r.phase = "asking"
    BY <1>2, <1>3 DEF GetBibAssignment
  <2>2. PICK x \in Found(r.mark) : Decide(c, r, x[2] # 0 /\ ~Seen(r, r.place))
    BY <1>3 DEF GetBibAssignment
  <2>3. call' \in [Call -> Request \cup {None}] /\ CallsAreSound'
    <3> DEFINE known == x[2] # 0 /\ ~Seen(r, r.place)
    <3>1. known \in BOOLEAN /\ (known => ~Seen(r, r.place))
      OBVIOUS
    <3> HIDE DEF r, known
    <3>2. Decide(c, r, known)
      BY <2>2 DEF known
    <3> QED
      BY <1>1, <2>1, <3>1, <3>2, DecideIsSound
  <2>4. UNCHANGED <<chute, screen, aim, load, acts>>
    BY <1>3 DEF GetBibAssignment
  <2> QED
    BY <1>1, <2>3, <2>4 DEF DeskInv, TypeOK, AimsBehind, screen, aim, NextPlace, Filled
<1>4. CASE PreventImplicitBibMove(c)
  <2>1. r \in Request /\ Sound(r) /\ r.phase = "checking" /\ r.op = "assign"
    BY <1>2, <1>4 DEF PreventImplicitBibMove, Sound
  <2>2. \/ call' = [call EXCEPT ![c] = [r EXCEPT !.phase = "writing"]]
        \/ call' = [call EXCEPT ![c] = None]
    BY <1>4 DEF PreventImplicitBibMove
  <2>3. [r EXCEPT !.phase = "writing"] \in Request
    BY <2>1 DEF Request, Phase
  <2>4. Sound([r EXCEPT !.phase = "writing"])
    BY <2>1 DEF Sound, Decided, Request
  <2>5. call' \in [Call -> Request \cup {None}] /\ CallsAreSound'
    BY <1>1, <2>2, <2>3, <2>4, OneCallChanges
  <2>6. UNCHANGED <<chute, screen, aim, load, acts>>
    BY <1>4 DEF PreventImplicitBibMove
  <2> QED
    BY <1>1, <2>5, <2>6 DEF DeskInv, TypeOK, AimsBehind, screen, aim, NextPlace, Filled
<1>5. ASSUME call[c] # None, call[c].phase = "writing", call' = [call EXCEPT ![c] = Answered(@)]
      PROVE  call' \in [Call -> Request \cup {None}] /\ CallsAreSound'
  <2>1. Answered(r) \in Request
    BY <1>2, <1>5 DEF Answered, Request, Phase, Rows, NoRows
  <2>2. Sound(Answered(r))
    BY <1>2, <1>5 DEF Answered, Sound, Request
  <2>3. call' = [call EXCEPT ![c] = Answered(r)]
    BY <1>1, <1>5 DEF TypeOK
  <2> QED
    BY <1>1, <2>1, <2>2, <2>3, OneCallChanges
<1>6. CASE UpsertChuteAssignment(c)
  <2>1. call[c] # None /\ call[c].phase = "writing" /\ call[c].op = "assign"
        /\ chute' = [chute EXCEPT ![call[c].event][call[c].place] = call[c].mark]
        /\ call' = [call EXCEPT ![c] = Answered(@)]
        /\ UNCHANGED <<screen, aim, load, acts>>
    BY <1>6 DEF UpsertChuteAssignment
  <2>2. call[c].mark \in Mark /\ call[c].event \in Event /\ call[c].place \in Place
    BY <1>2, <2>1 DEF Sound, Request
  <2>3. chute' \in [Event -> Rows]
    BY <1>1, <2>1, <2>2 DEF TypeOK, Rows, Place, Slot
  <2> QED
    BY <1>1, <1>5, <2>1, <2>3 DEF DeskInv, TypeOK, AimsBehind, screen, aim, NextPlace, Filled
<1>7. CASE EditTable(c)
  <2>1. call[c] # None /\ call[c].phase = "writing"
        /\ chute' = Edited(call[c])
        /\ call' = [call EXCEPT ![c] = Answered(@)]
        /\ UNCHANGED <<screen, aim, load, acts>>
    BY <1>7 DEF EditTable
  <2>2. call[c].event \in Event /\ call[c].place \in Place
    BY <1>2, <2>1 DEF Request
  <2>3. ASSUME NEW table \in Rows, NEW delta \in Int
        PROVE  Shift(table, call[c].place, delta) \in Rows
    BY <2>2, <2>3, ScreenAssumption DEF Shift, ShiftedTo, Rows, Place, Slot
  <2>4. NoRows \in Rows
    BY DEF NoRows, Rows
  <2>5. chute' \in [Event -> Rows]
    <3>1. chute \in [Event -> Rows]
      BY <1>1 DEF TypeOK
    <3>2. [chute EXCEPT ![call[c].event][call[c].place] = None] \in [Event -> Rows]
      BY <2>2, <3>1 DEF Rows
    <3>3. ASSUME NEW delta \in Int
          PROVE [chute EXCEPT ![call[c].event] = Shift(@, call[c].place, delta)] \in [Event -> Rows]
      BY <2>2, <2>3, <3>1
    <3>4. [chute EXCEPT ![call[c].event] = NoRows] \in [Event -> Rows]
      BY <2>2, <2>4, <3>1
    <3>5. [e \in Event |-> NoRows] \in [Event -> Rows]
      BY <2>4
    <3>6. 1 \in Int /\ -1 \in Int
      OBVIOUS
    <3> QED
      BY <2>1, <3>2, <3>3, <3>4, <3>5, <3>6 DEF Edited
  <2> QED
    BY <1>1, <1>5, <2>1, <2>5 DEF DeskInv, TypeOK, AimsBehind, screen, aim, NextPlace, Filled
<1>8. CASE Then(c)
  <2>1. call[c] # None /\ call' = [call EXCEPT ![c] = None]
        /\ BeginLoad(call[c].event) /\ UNCHANGED <<chute, screen, target, acts>>
        /\ \/ dirty' = FALSE /\ settled' = FALSE
           \/ UNCHANGED <<dirty, settled>>
    BY <1>8 DEF Then
  <2>2. call' \in [Call -> Request \cup {None}] /\ CallsAreSound'
    BY <1>1, <2>1, OneCallChanges
  <2>3. load' \in Load \cup {None}
    BY <1>1, <1>2, <2>1 DEF BeginLoad, Load, TypeOK, Request
  <2> QED
    <3>1. rows' = rows /\ target' = target /\ (settled' /\ ~dirty' => settled /\ ~dirty)
      BY <2>1 DEF screen
    <3>2. AimsBehind'
      BY <1>1, <3>1 DEF AimsBehind, NextPlace, Filled
    <3> QED
      BY <1>1, <2>1, <2>2, <2>3, <3>2 DEF DeskInv, TypeOK, screen
<1> QED
  BY <1>3, <1>4, <1>6, <1>7, <1>8 DEF Goes

(* The answers to a load: the target follows the rows that come.           *)
LEMMA LoadsKeepSound ==
  ASSUME DeskInv, Loads \/ LoadFails
  PROVE  DeskInv'
<1>1. TypeOK /\ CallsAreSound /\ AimsBehind
  BY DEF DeskInv
<1>2. CASE Poll
  BY <1>1, <1>2 DEF Poll, BeginLoad, Load, DeskInv, TypeOK, CallsAreSound, AimsBehind,
                    screen, aim, NextPlace, Filled
<1>3. CASE ListPlacements
  <2>1. load' \in Load
    BY <1>1, <1>3 DEF ListPlacements, TypeOK, Load
  <2> QED
    BY <1>1, <1>3, <2>1 DEF ListPlacements, DeskInv, TypeOK, CallsAreSound, AimsBehind,
                            screen, aim, NextPlace, Filled
<1>4. CASE LoadPlacements
  <2>1. load.answer \in Rows /\ load.of \in Event
    BY <1>1, <1>4 DEF LoadPlacements, TypeOK, Load
  <2>2. NextPlace(load.answer) \in 1 .. MaxPlace + 1
    BY <2>1, NextPlaceIsFree
  <2>3. target' \in 0 .. MaxPlace + 1 /\ settled' \in BOOLEAN
    BY <1>1, <1>4, <2>2, ScreenAssumption DEF LoadPlacements, TypeOK
  <2>4. AimsBehind'
    BY <1>1, <1>4 DEF LoadPlacements, AimsBehind, NextPlace, Filled
  <2> QED
    BY <1>1, <1>4, <2>1, <2>3, <2>4 DEF LoadPlacements, DeskInv, TypeOK, CallsAreSound
<1>5. CASE LoadFails
  BY <1>1, <1>5, ScreenAssumption DEF LoadFails, Act, DeskInv, TypeOK, CallsAreSound,
     AimsBehind, screen, aim, NextPlace, Filled
<1> QED
  BY <1>2, <1>3, <1>4, <1>5 DEF Loads

(* The edits that are confirmed and sent.                                  *)
LEMMA SendIsSound ==
  ASSUME DeskInv, NEW c \in Call, NEW p \in Place, NEW op \in Op \ {"assign"},
         Send(c, op, p)
  PROVE  DeskInv'
<1> DEFINE r == [op |-> op, event |-> event, place |-> p, mark |-> None, skip |-> TRUE,
                 asked |-> TRUE, seen |-> NoRows, phase |-> "writing"]
<1>1. TypeOK /\ CallsAreSound /\ AimsBehind
  BY DEF DeskInv
<1>2. r \in Request /\ Sound(r)
  BY <1>1 DEF TypeOK, Request, Phase, Rows, NoRows, Sound
<1>3. call' = [call EXCEPT ![c] = r] /\ UNCHANGED <<chute, screen, aim, load>>
      /\ acts' \in 0 .. MaxActs
  BY <1>1, ScreenAssumption DEF Send, Act, TypeOK
<1>4. call' \in [Call -> Request \cup {None}] /\ CallsAreSound'
  <2> HIDE DEF r
  <2> QED
    BY <1>1, <1>2, <1>3, OneCallChanges
<1> QED
  BY <1>1, <1>3, <1>4 DEF DeskInv, TypeOK, AimsBehind, screen, aim, NextPlace, Filled

(* Choosing a place, an event, a mode.                                     *)
LEMMA ChoicesKeepSound ==
  ASSUME DeskInv,
         \/ \E p \in Place : SelectPlace(p)
         \/ ResetTarget \/ ToggleScanner
         \/ \E e \in Event : SelectEvent(e)
  PROVE  DeskInv'
<1>1. TypeOK /\ CallsAreSound /\ AimsBehind
  BY DEF DeskInv
<1>2. acts \in 0 .. MaxActs /\ MaxActs \in Nat /\ MaxPlace \in Nat
  BY <1>1, ScreenAssumption DEF TypeOK
<1>3. CASE \E p \in Place : SelectPlace(p)
  BY <1>1, <1>2, <1>3 DEF SelectPlace, Act, DeskInv, TypeOK, CallsAreSound, AimsBehind,
                          screen, Place
<1>4. CASE ResetTarget
  <2>1. NextPlace(rows) \in 0 .. MaxPlace + 1
    BY <1>1, <1>2, NextPlaceIsFree DEF TypeOK
  <2>2. AimsBehind'
    BY <1>4 DEF ResetTarget, AimsBehind, screen, NextPlace, Filled
  <2> QED
    <3>1. target' \in 0 .. MaxPlace + 1 /\ acts' \in 0 .. MaxActs /\ dirty' = FALSE
          /\ UNCHANGED <<chute, screen, settled, load, call>>
      BY <1>2, <1>4, <2>1 DEF ResetTarget, Act
    <3>2. TypeOK'
      BY <1>1, <3>1 DEF TypeOK, screen
    <3> QED
      BY <1>1, <2>2, <3>1, <3>2 DEF DeskInv, CallsAreSound
<1>5. CASE ToggleScanner
  <2>1. UNCHANGED <<chute, event, rows, rowsOf, aim, load, call>>
        /\ scanner' = ~scanner /\ acts' \in 0 .. MaxActs
    BY <1>2, <1>5 DEF ToggleScanner, Act
  <2>2. AimsBehind'
    BY <1>1, <2>1 DEF AimsBehind, aim, NextPlace, Filled
  <2> QED
    BY <1>1, <2>1, <2>2 DEF DeskInv, TypeOK, CallsAreSound, aim
<1>6. CASE \E e \in Event : SelectEvent(e)
  <2>1. PICK e \in Event : SelectEvent(e)
    BY <1>6
  <2>2. acts' \in 0 .. MaxActs /\ event' = e /\ dirty' = FALSE /\ settled' = FALSE
        /\ BeginLoad(e) /\ UNCHANGED <<chute, scanner, rows, rowsOf, target, call>>
    BY <1>2, <2>1 DEF SelectEvent, Act
  <2>3. load' \in Load \cup {None}
    BY <1>1, <2>2 DEF BeginLoad, Load, TypeOK
  <2> QED
    BY <1>1, <2>2, <2>3 DEF DeskInv, TypeOK, CallsAreSound, AimsBehind
<1> QED
  BY <1>3, <1>4, <1>5, <1>6

LEMMA OperatorKeepsSound ==
  ASSUME DeskInv, NEW c \in Call, Operator(c)
  PROVE  DeskInv'
<1>1. TypeOK
  BY DEF DeskInv
<1>2. target \in Int /\ 1 \in Place
  BY <1>1, ScreenAssumption DEF TypeOK, Place
<1>3. TableRows \subseteq Place
  <2>1. Filled(rows) \in SUBSET (0 .. MaxPlace)
    BY DEF Filled, Slot
  <2>2. NextAfter(Filled(rows)) \in 1 .. MaxPlace + 1
    BY <2>1, NextIsBehind
  <2>3. Highest(Filled(rows)) \in Filled(rows) \cup {0}
    BY <2>1, NextIsBehind
  <2> QED
    BY <2>1, <2>2, <2>3, ScreenAssumption DEF TableRows, NextAfter, Place
<1>4. ASSUME NEW p \in Int, p = target \/ rows[p] = None, Buttons(c, p)
      PROVE  DeskInv'
  <2>1. PICK b \in Placeholder \cup {Excluded} : Submit(c, p, b, TRUE)
    BY <1>4 DEF Buttons
  <2> QED
    BY <1>4, <2>1, BibAssumption, SubmitIsSound
<1>5. CASE AssignForm(c)
  <2>1. CASE \E b \in Bib : Submit(c, target, b, FALSE)
    BY <1>2, <2>1, SubmitIsSound
  <2> QED
    BY <1>2, <1>4, <1>5, <2>1, ChoicesKeepSound DEF AssignForm
<1>6. CASE ScannerForm(c)
  <2>1. CASE \E b \in Bib : Submit(c, target, b, TRUE)
    BY <1>2, <2>1, SubmitIsSound
  <2> QED
    BY <1>2, <1>4, <1>6, <2>1, ChoicesKeepSound DEF ScannerForm
<1>7. CASE Header(c)
  BY <1>2, <1>7, ChoicesKeepSound, SendIsSound
     DEF Header, HandleDeleteAll, HandleDeleteAllRace, Op
<1>8. CASE DeleteKey(c)
  BY <1>8, SendIsSound DEF DeleteKey, HandleDelete, Op
<1>9. ASSUME NEW p \in TableRows, EmptyRow(c, p) PROVE DeskInv'
  <2>1. p \in Place /\ p \in Int /\ rows[p] = None
    BY <1>3, <1>9 DEF EmptyRow, Place
  <2>2. CASE \E n \in Placeholder : Submit(c, p, n, TRUE)
    BY <2>1, <2>2, BibAssumption, SubmitIsSound
  <2> QED
    BY <1>9, <2>1, <2>2, ChoicesKeepSound DEF EmptyRow
<1>10. ASSUME NEW p \in TableRows, PlacedRow(c, p) PROVE DeskInv'
  BY <1>3, <1>10, ChoicesKeepSound, SendIsSound
     DEF PlacedRow, HandleShift, HandleDelete, Op
<1> QED
  BY <1>5, <1>6, <1>7, <1>8, <1>9, <1>10 DEF Operator

LEMMA PhonesKeepSound ==
  ASSUME DeskInv, Phones
  PROVE  DeskInv'
<1>1. TypeOK /\ CallsAreSound /\ AimsBehind
  BY DEF DeskInv
<1>2. acts' \in 0 .. MaxActs /\ UNCHANGED <<screen, aim, load, call>>
  BY <1>1, ScreenAssumption DEF Phones, PhoneRecords, PhoneUndoes, Act, TypeOK
<1>3. chute' \in [Event -> Rows]
  <2>1. ASSUME NEW e \in Event, NEW b \in Bib, PhoneRecords(e, b)
        PROVE  chute' \in [Event -> Rows]
    <3>1. Plain(b) \in Mark /\ Dup(b) \in Mark
      BY DEF Plain, Dup, Mark
    <3> QED
      BY <1>1, <2>1, <3>1 DEF PhoneRecords, TypeOK, Rows
  <2>2. ASSUME NEW e \in Event, PhoneUndoes(e)
        PROVE  chute' \in [Event -> Rows]
    BY <1>1, <2>2 DEF PhoneUndoes, TypeOK, Rows
  <2> QED
    BY <2>1, <2>2 DEF Phones
<1> QED
  BY <1>1, <1>2, <1>3 DEF DeskInv, TypeOK, CallsAreSound, AimsBehind, screen, aim,
                          NextPlace, Filled

LEMMA DeskInit == Init => DeskInv
<1> SUFFICES ASSUME Init PROVE DeskInv
  OBVIOUS
<1>1. chute \in [Event -> Rows]
  BY DEF Init
<1>2. load \in Load
  <2>1. event = FirstEvent /\ load = [of |-> event, answer |-> None]
    BY DEF Init
  <2> QED
    BY <2>1, ScreenAssumption DEF Load
<1>3. TypeOK
  <2>1. NoRows \in Rows
    BY DEF Rows, NoRows
  <2>2. event \in Event /\ scanner \in BOOLEAN /\ rows \in Rows /\ rowsOf \in Event
    BY <2>1, ScreenAssumption DEF Init
  <2>3. target = 0 /\ acts = 0 /\ dirty = FALSE /\ settled = FALSE
        /\ call = [c \in Call |-> None]
    BY DEF Init
  <2>4. 0 \in 0 .. MaxPlace + 1 /\ 0 \in 0 .. MaxActs
    BY ScreenAssumption
  <2> QED
    BY <1>1, <1>2, <2>2, <2>3, <2>4 DEF TypeOK
<1> QED
  BY <1>3 DEF Init, DeskInv, CallsAreSound, AimsBehind

LEMMA DeskNext == DeskInv /\ [Next]_vars => DeskInv'
<1> SUFFICES ASSUME DeskInv, [Next]_vars PROVE DeskInv'
  OBVIOUS
<1>1. CASE UNCHANGED vars
  BY <1>1 DEF vars, DeskInv, TypeOK, CallsAreSound, AimsBehind, NextPlace, Filled
<1> QED
  BY <1>1, OperatorKeepsSound, GoesIsSound, LoadsKeepSound, PhonesKeepSound DEF Next

LEMMA DeskInvariant == Spec => []DeskInv
  BY DeskInit, DeskNext, PTL DEF Spec

(* PlacementEntry.tsx:200-269: what the screen writes over another row     *)
(* where it saw one was asked for.                                         *)
THEOREM AskedBeforeReplaced == Spec => ReplacesSeenOnlyAsAsked
<1>1. ASSUME DeskInv, NEW c \in Call, UpsertChuteAssignment(c)
      PROVE  Decided(call[c])
  BY <1>1 DEF DeskInv, CallsAreSound, Sound, UpsertChuteAssignment
<1>2. DeskInv /\ [Next]_vars =>
        [\A c \in Call : UpsertChuteAssignment(c) =>
           LET r == call[c] IN
           /\ chute[r.event][r.place] \notin {None, r.mark}
           /\ r.seen[r.place] \notin {None, r.mark}
           => r.asked]_vars
  BY <1>1 DEF Decided
<1> QED
  BY <1>2, DeskInvariant, PTL DEF Spec, ReplacesSeenOnlyAsAsked

(* PlacementEntry.tsx:208-231: a bib scanned again where it is seen, and   *)
(* seen nowhere else, does not replace its own finish.                     *)
THEOREM OriginalStays == Spec => RescanKeepsOriginal
<1>1. ASSUME DeskInv, NEW c \in Call, UpsertChuteAssignment(c)
      PROVE  Decided(call[c])
  BY <1>1 DEF DeskInv, CallsAreSound, Sound, UpsertChuteAssignment
<1>2. DeskInv /\ [Next]_vars =>
        [\A c \in Call : UpsertChuteAssignment(c) =>
           LET r == call[c] IN
           \A b \in Bib :
             /\ r.mark = Dup(b) /\ chute[r.event][r.place] = Plain(b)
             /\ r.seen[r.place] = Plain(b)
             => \E q \in Place \ {r.place} : r.seen[q] = Plain(b)]_vars
  BY <1>1 DEF Decided
<1> QED
  BY <1>2, DeskInvariant, PTL DEF Spec, RescanKeepsOriginal

-----------------------------------------------------------------------------
(* The Finish Times screen *)

(* No row of an event stands at a place.                                   *)
Free(e, p) == \A i \in PulsesOf(e) : pulse[i].place # p

(* A call carries what it needs; an edit that is sure, the place of the    *)
(* row it edits, and a new time that is sure, a free place.                *)
TimesSound(r) ==
  /\ r.op \in {"add", "update"} => r.row \in Row
  /\ r.op \in {"update", "delete"} => r.id \in Id
  /\ r.op = "update" /\ r.sure => r.row.place = r.was.place
  /\ r.op = "add" /\ r.sure /\ ~r.written => Free(r.event, r.row.place)

TimesCallsAreSound == \A c \in Call : timesCall[c] # None => TimesSound(timesCall[c])
FormIsSound ==
  sure => IF editing = None THEN Free(timesEvent, sequence) ELSE sequence = picked.place
TimesInv == TimesTypeOK /\ TimesCallsAreSound /\ FormIsSound

(* The sequence number after a list of times is behind all of them.        *)
LEMMA NextSequenceIsFree ==
  ASSUME NEW table \in Table
  PROVE  /\ NextSequence(table) \in 1 .. MaxPlace + 1
         /\ \A i \in Id : table[i] # None => table[i].place # NextSequence(table)
<1> DEFINE S == {table[i].place : i \in {j \in Id : table[j] # None}}
<1>1. \A i \in Id : table[i] # None => table[i].place \in S
  OBVIOUS
<1>2. S \in SUBSET Place /\ S \in SUBSET (0 .. MaxPlace)
  BY DEF Table, Row, Place
<1>3. NextSequence(table) = NextAfter(S)
  BY DEF NextSequence
<1>4. S \subseteq Int
  BY <1>2 DEF Place
<1> HIDE DEF S
<1>5. NextAfter(S) \in 1 .. MaxPlace + 1 /\ \A q \in S : q < NextAfter(S)
  BY <1>2, NextIsBehind
<1>6. \A q \in S : q # NextAfter(S)
  BY <1>4, <1>5, ScreenAssumption
<1> QED
  BY <1>1, <1>3, <1>5, <1>6

LEMMA ListingIsTable ==
  ASSUME TimesTypeOK, NEW e \in Event
  PROVE  /\ Listing(e) \in Table
         /\ \A i \in PulsesOf(e) : Listing(e)[i] = pulse[i] /\ pulse[i] # None /\ i \in Id
  BY DEF TimesTypeOK, Listing, PulsesOf, Table

LEMMA PulseLoadsKeepSound ==
  ASSUME TimesInv, PulseLoads \/ PulseLoadFails
  PROVE  TimesInv'
<1>1. TimesTypeOK /\ TimesCallsAreSound /\ FormIsSound
  BY DEF TimesInv
<1>2. timesActs \in 0 .. MaxActs /\ MaxActs \in Nat /\ timesEvent \in Event
  BY <1>1, ScreenAssumption DEF TimesTypeOK
<1>3. ASSUME UNCHANGED <<pulse, lastId, timesEvent, listed, form, timesCall>>,
             timesLoad' \in TimeLoad \cup {None}, timesActs' \in 0 .. MaxActs
      PROVE  TimesInv'
  BY <1>1, <1>3 DEF TimesInv, TimesTypeOK, TimesCallsAreSound, TimesSound, FormIsSound,
                    Free, PulsesOf, form
<1>4. CASE PollPulses
  <2>1. timesLoad' \in TimeLoad \cup {None}
    BY <1>1, <1>2, <1>4 DEF PollPulses, BeginPulseLoad, TimeLoad
  <2> QED
    BY <1>2, <1>3, <1>4, <2>1 DEF PollPulses
<1>5. CASE ListTimingPulses
  <2>1. timesLoad \in TimeLoad
    BY <1>1, <1>5 DEF ListTimingPulses, TimesTypeOK
  <2>2. Listing(timesLoad.of) \in Table
    BY <1>1, <2>1, ListingIsTable DEF TimeLoad
  <2>3. timesLoad' \in TimeLoad
    BY <1>5, <2>1, <2>2 DEF ListTimingPulses, TimeLoad
  <2> QED
    BY <1>2, <1>3, <1>5, <2>3 DEF ListTimingPulses
<1>6. CASE LoadPulses
  <2>1. listed' \in Table /\ timesLoad' = None
        /\ UNCHANGED <<pulse, lastId, timesEvent, typed, editing, touched, picked,
                       timesCall, timesActs>>
    BY <1>1, <1>6 DEF LoadPulses, TimesTypeOK, TimeLoad
  <2>2. CASE Untouched
    <3>1. sequence' = NextSequence(listed') /\ sure' = (listed' = Listing(timesEvent))
          /\ editing = None
      BY <1>6, <2>2 DEF LoadPulses, Untouched
    <3>2. sequence' \in 1 .. MaxPlace + 1
      BY <2>1, <3>1, NextSequenceIsFree
    <3>3. sequence' \in 0 .. MaxPlace + 1 /\ sure' \in BOOLEAN
      BY <3>1, <3>2, ScreenAssumption
    <3>4. ASSUME sure' PROVE Free(timesEvent, sequence')
      BY <1>1, <1>2, <2>1, <3>1, <3>4, NextSequenceIsFree, ListingIsTable DEF Free
    <3>5. FormIsSound'
      BY <2>1, <3>1, <3>4 DEF FormIsSound, Free, PulsesOf
    <3> QED
      BY <1>1, <2>1, <3>3, <3>5 DEF TimesInv, TimesTypeOK, TimesCallsAreSound, TimesSound,
                                    Free, PulsesOf
  <2>3. CASE ~Untouched
    <3>1. UNCHANGED <<sequence, sure>>
      BY <1>6, <2>3 DEF LoadPulses
    <3> QED
      BY <1>1, <2>1, <3>1 DEF TimesInv, TimesTypeOK, TimesCallsAreSound, TimesSound,
                              FormIsSound, Free, PulsesOf
  <2> QED
    BY <2>2, <2>3
<1>7. CASE PulseLoadFails
  <2>1. timesActs' \in 0 .. MaxActs
    BY <1>2, <1>7 DEF PulseLoadFails, TimesAct
  <2> QED
    BY <1>3, <1>7, <2>1 DEF PulseLoadFails
<1> QED
  BY <1>4, <1>5, <1>6, <1>7 DEF PulseLoads

(* What operator and form do without the laptop.                           *)
LEMMA FormKeepsSound ==
  ASSUME TimesInv,
         \/ \E p \in Place : TypeSequence(p)
         \/ \E t \in Time : TypeTime(t)
         \/ \E i \in Id : HandleSelect(i)
         \/ ResetForm
         \/ \E e \in Event : SelectTimesEvent(e)
  PROVE  TimesInv'
<1>1. TimesTypeOK /\ TimesCallsAreSound /\ FormIsSound
  BY DEF TimesInv
<1>2. timesActs \in 0 .. MaxActs /\ MaxActs \in Nat /\ MaxPlace \in Nat
  BY <1>1, ScreenAssumption DEF TimesTypeOK
<1>3. timesActs' \in 0 .. MaxActs /\ UNCHANGED <<pulse, lastId, listed, timesCall>>
  BY <1>2 DEF TypeSequence, TypeTime, HandleSelect, ResetForm, SelectTimesEvent, TimesAct
<1>4. TimesCallsAreSound'
  BY <1>1, <1>3 DEF TimesCallsAreSound, TimesSound, Free, PulsesOf
<1>5. CASE \E p \in Place : TypeSequence(p)
  <2>1. PICK p \in Place : sequence' = p /\ touched' = TRUE /\ sure' = FALSE
               /\ UNCHANGED <<timesEvent, typed, editing, picked, timesLoad>>
    BY <1>5 DEF TypeSequence
  <2>2. p \in 0 .. MaxPlace + 1
    BY <1>2 DEF Place
  <2> QED
    BY <1>1, <1>3, <1>4, <2>1, <2>2 DEF TimesInv, TimesTypeOK, FormIsSound
<1>6. CASE \E t \in Time : TypeTime(t)
  <2>1. typed' \in Time /\ touched' = TRUE
        /\ UNCHANGED <<timesEvent, sequence, editing, picked, sure, timesLoad>>
    BY <1>6 DEF TypeTime
  <2> QED
    BY <1>1, <1>3, <1>4, <2>1 DEF TimesInv, TimesTypeOK, FormIsSound, Free, PulsesOf
<1>7. CASE \E i \in Id : HandleSelect(i)
  <2>1. PICK i \in Id : HandleSelect(i)
    BY <1>7
  <2>2. listed[i] \in Row
    BY <1>1, <2>1 DEF HandleSelect, TimesTypeOK, Table
  <2>3. listed[i].place \in 0 .. MaxPlace + 1 /\ listed[i].time \in Time
    BY <1>2, <2>2 DEF Row, Place
  <2>4. editing' = i /\ touched' = TRUE /\ sequence' = listed[i].place
        /\ typed' = listed[i].time /\ picked' = listed[i] /\ sure' = TRUE
        /\ UNCHANGED <<timesEvent, timesLoad>>
    BY <2>1 DEF HandleSelect
  <2>5. FormIsSound'
    BY <2>4, NoRowAssumption DEF FormIsSound
  <2> QED
    BY <1>1, <1>3, <1>4, <2>2, <2>3, <2>4, <2>5 DEF TimesInv, TimesTypeOK
<1>8. CASE ResetForm
  <2>1. NextSequence(listed) \in 1 .. MaxPlace + 1
    BY <1>1, NextSequenceIsFree DEF TimesTypeOK
  <2>2. NextSequence(listed) \in 0 .. MaxPlace + 1
    BY <1>2, <2>1
  <2>3. /\ editing' = None /\ picked' = None /\ touched' = FALSE
        /\ sequence' = NextSequence(listed) /\ typed' = None /\ sure' = FALSE
        /\ UNCHANGED <<timesEvent, timesLoad>>
    BY <1>8 DEF ResetForm, Emptied
  <2> QED
    BY <1>1, <1>3, <1>4, <2>2, <2>3 DEF TimesInv, TimesTypeOK, FormIsSound
<1>9. CASE \E e \in Event : SelectTimesEvent(e)
  <2>1. PICK e \in Event : SelectTimesEvent(e)
    BY <1>9
  <2>2. /\ timesEvent' = e /\ editing' = None /\ picked' = None /\ touched' = FALSE
        /\ typed' = None /\ sure' = FALSE /\ UNCHANGED sequence /\ BeginPulseLoad(e)
    BY <2>1 DEF SelectTimesEvent
  <2>3. timesLoad' \in TimeLoad \cup {None}
    BY <1>1, <2>2 DEF BeginPulseLoad, TimeLoad, TimesTypeOK
  <2> QED
    BY <1>1, <1>3, <1>4, <2>2, <2>3 DEF TimesInv, TimesTypeOK, FormIsSound
<1> QED
  BY <1>5, <1>6, <1>7, <1>8, <1>9

(* A call is sent with what the form holds.                                *)
LEMMA SendTimesIsSound ==
  ASSUME TimesInv, NEW c \in Call,
         HandleSubmit(c) \/ (\E i \in Id : HandleDeleteTime(c, i))
           \/ HandleDeleteAllTimes(c) \/ HandleDeleteAllRaceTimes(c)
  PROVE  TimesInv'
<1>1. TimesTypeOK /\ TimesCallsAreSound /\ FormIsSound
  BY DEF TimesInv
<1>2. NextSequence(listed) \in 1 .. MaxPlace + 1
  BY <1>1, NextSequenceIsFree DEF TimesTypeOK
<1>3. ASSUME NEW op \in TimeOp, NEW i \in Id \cup {None}, NEW row \in Row \cup {None},
             SendTimes(c, op, i, row),
             op \in {"add", "update"} => row \in Row /\ row.place = sequence,
             op = "add" => editing = None, op \in {"update", "delete"} => i \in Id,
             op = "update" => editing = i
      PROVE  TimesInv'
  <2> DEFINE r == [op |-> op, event |-> timesEvent, id |-> i, row |-> row,
                   was |-> IF editing = i THEN picked ELSE None,
                   next |-> NextSequence(listed), sure |-> sure, written |-> FALSE]
  <2>1. r \in TimeCall
    BY <1>1, <1>2 DEF TimesTypeOK, TimeCall
  <2>2. op = "update" /\ sure => row.place = r.was.place
    BY <1>1, <1>3, NoRowAssumption DEF FormIsSound
  <2>3. op = "add" /\ sure => Free(timesEvent, row.place)
    BY <1>1, <1>3 DEF FormIsSound
  <2>4. TimesSound(r)
    BY <1>3, <2>2, <2>3 DEF TimesSound
  <2>5. timesCall' = [timesCall EXCEPT ![c] = r] /\ timesActs' \in 0 .. MaxActs
        /\ UNCHANGED <<pulse, lastId, timesEvent, listed, form, timesLoad>>
    BY <1>1, <1>3, ScreenAssumption DEF SendTimes, TimesAct, TimesTypeOK
  <2> HIDE DEF r
  <2>6. timesCall' \in [Call -> TimeCall \cup {None}]
    BY <1>1, <2>1, <2>5 DEF TimesTypeOK
  <2>7. \A d \in Call : timesCall'[d] # None => TimesSound(timesCall'[d])
    BY <1>1, <2>4, <2>5 DEF TimesTypeOK, TimesCallsAreSound
  <2>8. TimesCallsAreSound'
    BY <2>5, <2>7 DEF TimesCallsAreSound, TimesSound, Free, PulsesOf
  <2> QED
    BY <1>1, <2>5, <2>6, <2>8 DEF TimesInv, TimesTypeOK, FormIsSound, form, Free, PulsesOf
<1>4. CASE HandleSubmit(c)
  <2> DEFINE row == [scope |-> timesEvent, place |-> sequence, time |-> typed]
  <2>1. typed # None /\ sequence \in Place
    BY <1>4 DEF HandleSubmit
  <2>2. row \in Row /\ row.place = sequence
    BY <1>1, <2>1 DEF TimesTypeOK, Row
  <2>3. \/ editing = None /\ SendTimes(c, "add", None, row)
        \/ editing # None /\ SendTimes(c, "update", editing, row)
    BY <1>4 DEF HandleSubmit
  <2>4. editing \in Id \cup {None}
    BY <1>1 DEF TimesTypeOK
  <2> HIDE DEF row
  <2> QED
    BY <1>3, <2>2, <2>3, <2>4 DEF TimeOp
<1>5. CASE \E i \in Id : HandleDeleteTime(c, i)
  BY <1>3, <1>5 DEF HandleDeleteTime, TimeOp
<1>6. CASE HandleDeleteAllTimes(c) \/ HandleDeleteAllRaceTimes(c)
  BY <1>3, <1>6 DEF HandleDeleteAllTimes, HandleDeleteAllRaceTimes, TimeOp
<1> QED
  BY <1>4, <1>5, <1>6

(* Whatever is written, only edits and deletions stay sure.                *)
LEMMA WriteIsSound ==
  ASSUME TimesInv, pulse' \in Table, lastId' \in 0 .. MaxPulse,
         timesActs' \in 0 .. MaxActs, NumbersOutdated,
         UNCHANGED <<timesEvent, listed, sequence, typed, editing, touched, picked, timesLoad>>,
         \/ timesCall' = Outdated(timesCall)
         \/ \E c \in Call : /\ timesCall[c] # None
                            /\ timesCall' = [Outdated(timesCall) EXCEPT ![c].written = TRUE]
  PROVE  TimesInv'
<1>1. TimesTypeOK /\ TimesCallsAreSound /\ FormIsSound
  BY DEF TimesInv
<1>2. ASSUME NEW c \in Call, timesCall[c] # None
      PROVE  /\ Outdated(timesCall)[c] \in TimeCall
             /\ [Outdated(timesCall)[c] EXCEPT !.written = TRUE] \in TimeCall
             /\ Outdated(timesCall)[c].op = timesCall[c].op
             /\ Outdated(timesCall)[c].row = timesCall[c].row
             /\ Outdated(timesCall)[c].was = timesCall[c].was
             /\ Outdated(timesCall)[c].id = timesCall[c].id
             /\ Outdated(timesCall)[c].sure => timesCall[c].sure /\ timesCall[c].op # "add"
  <2>1. timesCall[c] \in TimeCall
    BY <1>1, <1>2 DEF TimesTypeOK
  <2>2. Outdated(timesCall)[c] = IF timesCall[c].op = "add"
                                 THEN [timesCall[c] EXCEPT !.sure = FALSE] ELSE timesCall[c]
    BY <1>2 DEF Outdated
  <2> QED
    BY <2>1, <2>2 DEF TimeCall
<1>3. \A c \in Call : timesCall[c] = None => Outdated(timesCall)[c] = None
  BY DEF Outdated
<1>4. Outdated(timesCall) \in [Call -> TimeCall \cup {None}]
  <2>1. Outdated(timesCall) = [c \in Call |-> Outdated(timesCall)[c]]
    BY DEF Outdated
  <2> QED
    BY <1>2, <1>3, <2>1
<1>5. ASSUME NEW c \in Call, timesCall'[c] # None
      PROVE  /\ timesCall'[c] \in TimeCall /\ timesCall[c] # None
             /\ timesCall'[c].op = timesCall[c].op /\ timesCall'[c].row = timesCall[c].row
             /\ timesCall'[c].was = timesCall[c].was /\ timesCall'[c].id = timesCall[c].id
             /\ timesCall'[c].sure => timesCall[c].sure /\ timesCall[c].op # "add"
  <2> DEFINE old == Outdated(timesCall)[c]
  <2>1. timesCall'[c] = old \/ (timesCall[c] # None /\ timesCall'[c] = [old EXCEPT !.written = TRUE])
    BY <1>4
  <2>2. timesCall[c] # None
    BY <1>3, <1>5, <2>1
  <2>3. old \in TimeCall
    BY <1>2, <2>2
  <2>4. /\ [old EXCEPT !.written = TRUE].op = old.op /\ [old EXCEPT !.written = TRUE].row = old.row
        /\ [old EXCEPT !.written = TRUE].was = old.was /\ [old EXCEPT !.written = TRUE].id = old.id
        /\ [old EXCEPT !.written = TRUE].sure = old.sure
    BY <2>3 DEF TimeCall
  <2> HIDE DEF old
  <2> QED
    BY <1>2, <2>1, <2>2, <2>3, <2>4 DEF old
<1>6. timesCall' \in [Call -> TimeCall \cup {None}]
  <2>1. CASE timesCall' = Outdated(timesCall)
    BY <1>4, <2>1
  <2>2. ASSUME NEW c \in Call, timesCall[c] # None,
               timesCall' = [Outdated(timesCall) EXCEPT ![c].written = TRUE]
        PROVE  timesCall' \in [Call -> TimeCall \cup {None}]
    <3>1. timesCall' = [Outdated(timesCall) EXCEPT
                          ![c] = [Outdated(timesCall)[c] EXCEPT !.written = TRUE]]
      BY <2>2
    <3> QED
      BY <1>2, <1>4, <2>2, <3>1
  <2> QED
    BY <2>1, <2>2
<1>7. TimesCallsAreSound'
  <2>1. ASSUME NEW c \in Call, timesCall'[c] # None PROVE TimesSound(timesCall[c])'
    BY <1>1, <1>5, <2>1 DEF TimesCallsAreSound, TimesSound
  <2> QED
    BY <2>1 DEF TimesCallsAreSound
<1>8. FormIsSound' /\ sure' \in BOOLEAN
  BY <1>1 DEF FormIsSound, NumbersOutdated, TimesTypeOK
<1> QED
  BY <1>1, <1>6, <1>7, <1>8 DEF TimesInv, TimesTypeOK

LEMMA AnswersKeepSound ==
  ASSUME TimesInv, NEW c \in Call, Answers(c)
  PROVE  TimesInv'
<1>1. TimesTypeOK /\ TimesCallsAreSound /\ FormIsSound
  BY DEF TimesInv
<1>2. timesCall[c] # None => timesCall[c] \in TimeCall /\ TimesSound(timesCall[c])
  BY <1>1 DEF TimesTypeOK, TimesCallsAreSound
<1>3. CASE AddTimingPulse(c)
  <2>1. lastId' \in 0 .. MaxPulse /\ lastId + 1 \in Id
    BY <1>1, <1>3, TimeAssumption DEF AddTimingPulse, TimesTypeOK, Id
  <2>2. pulse' \in Table
    BY <1>1, <1>2, <1>3, <2>1 DEF AddTimingPulse, TimesTypeOK, Table, TimesSound
  <2> QED
    BY <1>1, <1>3, <2>1, <2>2, WriteIsSound DEF AddTimingPulse, TimesTypeOK
<1>4. CASE ChangePulses(c)
  <2>1. NoPulses \in Table /\ pulse \in Table
    BY <1>1 DEF NoPulses, Table, TimesTypeOK
  <2>2. Applied(timesCall[c]) \in Table
    BY <1>2, <1>4, <2>1 DEF ChangePulses, Applied, Table, TimesSound
  <2>3. pulse' \in Table /\ lastId' \in 0 .. MaxPulse /\ timesActs' \in 0 .. MaxActs
    BY <1>1, <1>4, <2>2 DEF ChangePulses, TimesTypeOK
  <2> QED
    BY <1>4, <2>3, WriteIsSound DEF ChangePulses
<1>5. CASE TimesThen(c)
  <2>1. timesCall[c] # None /\ Cleaned(timesCall[c])
        /\ timesCall' = [timesCall EXCEPT ![c] = None]
        /\ BeginPulseLoad(timesCall[c].event)
        /\ UNCHANGED <<pulse, lastId, timesEvent, listed, timesActs>>
    BY <1>5 DEF TimesThen
  <2>2. timesCall[c].next \in 0 .. MaxPlace + 1 /\ timesCall[c].event \in Event
    BY <1>2, <2>1, ScreenAssumption DEF TimeCall
  <2>3. timesLoad' \in TimeLoad \cup {None}
    BY <1>1, <2>1, <2>2 DEF BeginPulseLoad, TimeLoad, TimesTypeOK
  <2>4. timesCall' \in [Call -> TimeCall \cup {None}] /\ TimesCallsAreSound'
    BY <1>1, <2>1 DEF TimesTypeOK, TimesCallsAreSound, TimesSound, Free, PulsesOf
  <2>5. /\ sequence' \in 0 .. MaxPlace + 1 /\ typed' \in Time \cup {None}
        /\ editing' \in Id \cup {None} /\ touched' \in BOOLEAN
        /\ picked' \in Row \cup {None} /\ sure' \in BOOLEAN
    BY <1>1, <2>1, <2>2 DEF Cleaned, Emptied, form, TimesTypeOK
  <2>6. FormIsSound'
    <3>1. \/ sure' = FALSE
          \/ UNCHANGED form
          \/ sure' = (sure /\ editing # None) /\ UNCHANGED <<editing, picked, sequence>>
      BY <2>1 DEF Cleaned, Emptied
    <3> QED
      BY <1>1, <2>1, <3>1 DEF FormIsSound, Free, PulsesOf, form
  <2> QED
    BY <1>1, <2>1, <2>3, <2>4, <2>5, <2>6 DEF TimesInv, TimesTypeOK
<1> QED
  BY <1>3, <1>4, <1>5 DEF Answers

LEMMA TimersKeepSound ==
  ASSUME TimesInv, Timers
  PROVE  TimesInv'
<1>1. TimesTypeOK /\ TimesCallsAreSound /\ FormIsSound
  BY DEF TimesInv
<1>2. timesActs' \in 0 .. MaxActs
  <2>1. TimesAct
    BY DEF Timers, TimerRecords, TimerUndoes
  <2> QED
    BY <1>1, <2>1, ScreenAssumption DEF TimesAct, TimesTypeOK
<1>3. ASSUME NEW e \in Event, NEW t \in Time, TimerRecords(e, t) PROVE TimesInv'
  <2>1. lastId' \in 0 .. MaxPulse /\ lastId + 1 \in Id
    BY <1>1, <1>3, TimeAssumption DEF TimerRecords, TimesTypeOK, Id
  <2>2. pulse' \in Table
    BY <1>1, <1>3, <2>1 DEF TimerRecords, TimesTypeOK, Table, Row
  <2> QED
    BY <1>2, <1>3, <2>1, <2>2, WriteIsSound DEF TimerRecords
<1>4. ASSUME NEW i \in Id, TimerUndoes(i) PROVE TimesInv'
  <2>1. pulse' = [pulse EXCEPT ![i] = None]
        /\ UNCHANGED <<lastId, timesEvent, listed, form, timesLoad, timesCall>>
    BY <1>4 DEF TimerUndoes
  <2>2. pulse' \in Table /\ \A j \in Id : pulse'[j] \in {pulse[j], None}
    BY <1>1, <2>1 DEF TimesTypeOK, Table
  <2>3. \A e, p : Free(e, p) => (\A j \in Id : pulse'[j] # None /\ pulse'[j].scope = e
                                               => pulse'[j].place # p)
    <3>1. \A j \in Id : pulse'[j] # None => pulse'[j] = pulse[j] /\ pulse[j] # None
      BY <2>2
    <3> QED
      BY <3>1 DEF Free, PulsesOf
  <2>4. TimesCallsAreSound'
    <3>1. ASSUME NEW c \in Call, timesCall'[c] # None PROVE TimesSound(timesCall[c])'
      <4>1. timesCall' = timesCall /\ TimesSound(timesCall[c])
        BY <1>1, <2>1, <3>1 DEF TimesCallsAreSound
      <4> DEFINE r == timesCall[c]
      <4>2. r.op = "add" /\ r.sure /\ ~r.written =>
              \A j \in Id : pulse'[j] # None /\ pulse'[j].scope = r.event
                             => pulse'[j].place # r.row.place
        BY <2>3, <4>1 DEF TimesSound
      <4> QED
        BY <4>1, <4>2 DEF TimesSound, Free, PulsesOf
    <3> QED
      BY <3>1 DEF TimesCallsAreSound
  <2>5. FormIsSound'
    BY <1>1, <2>1, <2>3 DEF FormIsSound, form, Free, PulsesOf
  <2> QED
    BY <1>1, <1>2, <2>1, <2>2, <2>4, <2>5 DEF TimesInv, TimesTypeOK, form
<1> QED
  BY <1>3, <1>4 DEF Timers

LEMMA TimesInitIsSound == TimesInit => TimesInv
<1> SUFFICES ASSUME TimesInit PROVE TimesInv
  OBVIOUS
<1>1. pulse \in Table
  BY ScreenAssumption DEF TimesInit, Table, Row
<1>2. timesLoad = [of |-> FirstEvent, answer |-> None] /\ timesEvent = FirstEvent
      /\ listed = NoPulses /\ timesCall = [c \in Call |-> None]
  BY DEF TimesInit
<1>3. timesLoad \in TimeLoad /\ NoPulses \in Table
  BY <1>2, ScreenAssumption DEF TimeLoad, NoPulses, Table
<1>4. sequence = 0 /\ typed = None /\ editing = None /\ touched = FALSE /\ picked = None
      /\ sure = FALSE /\ timesActs = 0 /\ lastId \in 0 .. MaxPulse
  BY DEF TimesInit
<1>5. 0 \in 0 .. MaxPlace + 1 /\ 0 \in 0 .. MaxActs
  BY ScreenAssumption
<1> QED
  BY <1>1, <1>2, <1>3, <1>4, <1>5, ScreenAssumption
     DEF TimesInv, TimesTypeOK, TimesCallsAreSound, FormIsSound

LEMMA TimesNextIsSound == TimesInv /\ [TimesNext]_timesVars => TimesInv'
<1> SUFFICES ASSUME TimesInv, [TimesNext]_timesVars PROVE TimesInv'
  OBVIOUS
<1>1. CASE UNCHANGED timesVars
  BY <1>1 DEF timesVars, form, TimesInv, TimesTypeOK, TimesCallsAreSound, TimesSound,
              FormIsSound, Free, PulsesOf
<1>2. ASSUME NEW c \in Call, TimeForm(c) \/ TimeList(c) \/ TimeHeader(c) \/ Answers(c)
      PROVE  TimesInv'
  BY <1>2, FormKeepsSound, SendTimesIsSound, AnswersKeepSound DEF TimeForm, TimeList, TimeHeader
<1> QED
  BY <1>1, <1>2, PulseLoadsKeepSound, TimersKeepSound DEF TimesNext

LEMMA TimesInvariant == TimesSpec => []TimesInv
  BY TimesInitIsSound, TimesNextIsSound, PTL DEF TimesSpec

(* TimeEntry.tsx:51-93: polls and other calls do not move a time that is   *)
(* edited.                                                                 *)
THEOREM EditsKeepTheirPlace == TimesSpec => EditKeepsPlace
<1>1. TimesInv /\ [TimesNext]_timesVars =>
        [\A c \in Call : LET r == timesCall[c] IN
           ChangePulses(c) /\ r.op = "update" /\ r.sure => r.row.place = r.was.place]_timesVars
  BY DEF TimesInv, TimesCallsAreSound, TimesSound, ChangePulses
<1> QED
  BY <1>1, TimesInvariant, PTL DEF TimesSpec, EditKeepsPlace

(* TimeEntry.tsx:49-53, 95-101: a new time does not share the place a load *)
(* gave it, unless somebody wrote since.                                   *)
THEOREM NewTimesAreBehind == TimesSpec => TimesAppend
<1>1. TimesInv /\ [TimesNext]_timesVars =>
        [\A c \in Call : LET r == timesCall[c] IN
           AddTimingPulse(c) /\ r.sure =>
             \A i \in PulsesOf(r.event) : pulse[i].place # r.row.place]_timesVars
  BY DEF TimesInv, TimesCallsAreSound, TimesSound, AddTimingPulse, Free
<1> QED
  BY <1>1, TimesInvariant, PTL DEF TimesSpec, TimesAppend

-----------------------------------------------------------------------------
(* Both screens *)

LEMMA ScreensNext ==
  [MCNext]_mcVars => [Next]_vars /\ [TimesNext]_timesVars
  BY DEF MCNext, mcVars

LEMMA ScreensInvariant == MCSpec => [](DeskInv /\ TimesInv)
<1>1. MCInit => DeskInv /\ TimesInv
  BY DeskInit, TimesInitIsSound DEF MCInit
<1>2. DeskInv /\ TimesInv /\ [MCNext]_mcVars => DeskInv' /\ TimesInv'
  BY ScreensNext, DeskNext, TimesNextIsSound
<1> QED
  BY <1>1, <1>2, PTL DEF MCSpec

(* App.tsx:259-261: the rows, calls and forms of both screens are ones     *)
(* they can hold, whichever of the two is open.                            *)
THEOREM ScreensAreWellFormed == MCSpec => []DeskTypeOK
<1>1. DeskInv /\ TimesInv => DeskTypeOK
  BY DEF DeskInv, TimesInv, DeskTypeOK
<1> QED
  BY <1>1, ScreensInvariant, PTL

(* App.tsx:259-261: side by side the screens are what each is alone.       *)
THEOREM ScreensKeepApart ==
  MCSpec => /\ Init /\ [][Next]_vars
            /\ TimesInit /\ [][TimesNext]_timesVars
<1>1. MCInit => Init /\ TimesInit
  BY DEF MCInit
<1> QED
  BY <1>1, ScreensNext, PTL DEF MCSpec

=============================================================================
