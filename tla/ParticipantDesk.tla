--------------------------- MODULE ParticipantDesk ---------------------------
(***************************************************************************)
(* The participants of a race: ParticipantManagement.tsx and CSVImport.tsx *)
(* over ParticipantService.  The laptop does not poll this table: what it  *)
(* shows was read after its last action, and the answers to two actions    *)
(* may come in either order.                                               *)
(*                                                                         *)
(* A person is a name, a bib (0 for none) and the check-in; gender, age,   *)
(* event, sorting, labels and the check-in sheet are left out.             *)
(***************************************************************************)
EXTENDS OfficeScreen

CONSTANTS
  Name,
  Typed,          (* the bibs an operator types                            *)
  File,           (* CSV files, as lists of entries                        *)
  Roster,         (* what RunSignUp has, over all events mapped            *)
  Start,          (* where an operator lets numbering start                *)
  MaxId, MaxBib,  (* bounds on rows ever inserted and on bibs              *)
  Desk,           (* calls to the laptop that may be under way at once     *)
  MaxSteps        (* bound on what the operator does and on failures       *)

Bib == 0 .. MaxBib
Entry == [name : Name \cup {None}, bib : Bib]
PersonId == 1 .. MaxId
Person == [name : Name \cup {None}, bib : Bib, in : BOOLEAN]

ASSUME ParticipantAssumption ==
  /\ MaxId \in Nat /\ MaxBib \in Nat /\ MaxSteps \in Nat /\ Typed \subseteq Bib
  /\ None \notin Name \cup Person
  /\ File \subseteq Seq(Entry) /\ Roster \subseteq Seq(Entry)
  /\ \A s \in Start : s \in Bib \ {0} /\ s + 2 * MaxId <= MaxBib

Blank == [name |-> None, bib |-> 0, in |-> FALSE]
People == [PersonId -> Person \cup {None}]
Nobody == [i \in PersonId |-> None]

DeskOp == {"toggle", "add", "save", "delete", "delete all", "clear bibs",
           "bulk", "csv", "rsu"}
DeskPhase == {"asking", "sent", "held", "written", "refresh", "arriving"}

VARIABLES
  people,         (* the table participants                                *)
  lastPerson,     (* its AUTOINCREMENT                                     *)
  shown,          (* participants, as App.tsx last loaded them             *)
  screen,         (* "list" or "csv"                                       *)
  edit,           (* isAdding: editingID, 0 for a new one, and the form    *)
  panel,          (* showRSUImport                                         *)
  desk,           (* the calls under way, with what they hold              *)
  steps
deskVars == <<people, lastPerson, shown, screen, edit, panel, desk, steps>>
table == <<people, lastPerson>>
page == <<screen, edit, panel>>

Present(t) == {i \in PersonId : t[i] # None}
Bibs(t) == {t[i].bib : i \in Present(t)} \ {0}
Step == steps < MaxSteps /\ steps' = steps + 1

(* The triggers of 0003_companion.sql refuse a bib that somebody has.      *)
Refused(t, i, bib) == bib # 0 /\ \E j \in Present(t) \ {i} : t[j].bib = bib

(* The laptop writes for c, and whatever others have read is stale.        *)
Write(c, t, r) ==
  /\ people' = t
  /\ desk' = [d \in Desk |->
       IF d = c THEN r
       ELSE IF desk[d] = None THEN None
       ELSE [desk[d] EXCEPT !.clean = @ /\ t = people]]
At(c, op, phase) == desk[c] # None /\ desk[c].op = op /\ desk[c].phase = phase
Written(c) == [desk[c] EXCEPT !.phase = "written"]
Told(c, r) == desk' = [desk EXCEPT ![c] = r]

-----------------------------------------------------------------------------
(* The screens.                                                            *)

Ask(op) ==
  [op |-> op, phase |-> "sent", id |-> 0, row |-> Blank, list |-> None,
   todo |-> <<>>, known |-> {}, next |-> 0, replace |-> FALSE,
   here |-> TRUE,      (* the component that asked is still there          *)
   clean |-> TRUE]     (* history: nobody wrote since it read the table    *)
Call(c, r) ==
  /\ Step
  /\ desk[c] = None
  /\ Told(c, r)
  /\ UNCHANGED <<table, shown, page>>

(* The button of an operation is disabled from its start to its answer.    *)
Busy(op) == \E d \in Desk : /\ desk[d] # None /\ desk[d].op = op /\ desk[d].here
                            /\ desk[d].phase \in {"sent", "held", "written"}

OnList == screen = "list"
HandleToggleCheckIn(c, i) == OnList /\ shown[i] # None /\ Call(c, [Ask("toggle") EXCEPT !.id = i])
HandleDeletePerson(c, i) == OnList /\ shown[i] # None /\ Call(c, [Ask("delete") EXCEPT !.id = i])
HandleDeleteAllParticipants(c) == /\ OnList /\ Present(shown) # {} /\ ~Busy("delete all")
                                  /\ Call(c, Ask("delete all"))
HandleClearAllBibs(c) == /\ OnList /\ Bibs(shown) # {} /\ ~Busy("clear bibs")
                         /\ Call(c, Ask("clear bibs"))
BulkBibs(c, s) == OnList /\ Call(c, [Ask("bulk") EXCEPT !.next = s])

(* Another participant is opened after the question whether to discard.    *)
HandleEdit(i) ==
  /\ Step
  /\ OnList /\ shown[i] # None
  /\ edit # None => edit.id # i
  /\ edit' = [id |-> i, now |-> shown[i]]
  /\ panel' = FALSE
  /\ UNCHANGED <<table, shown, screen, desk>>
HandleStartAddParticipant ==
  /\ Step
  /\ OnList /\ edit = None
  /\ edit' = [id |-> 0, now |-> Blank]
  /\ panel' = FALSE
  /\ UNCHANGED <<table, shown, screen, desk>>
HandleCancelForm ==
  /\ Step
  /\ edit # None
  /\ edit' = None
  /\ UNCHANGED <<table, shown, screen, panel, desk>>
FillForm(n, b, in) ==
  /\ Step
  /\ edit # None
  /\ edit' = [edit EXCEPT !.now = [name |-> n, bib |-> b, in |-> in]]
  /\ edit' # edit
  /\ UNCHANGED <<table, shown, screen, panel, desk>>

(* Nothing keeps the operator from pressing Register again.                *)
HandleSubmitForm(c) ==
  /\ edit # None /\ edit.now.name # None
  /\ Call(c, [Ask(IF edit.id = 0 THEN "add" ELSE "save") EXCEPT
                !.id = edit.id, !.row = edit.now])

ToggleRSUImport ==
  /\ Step
  /\ OnList
  /\ panel' = ~panel /\ edit' = None
  /\ UNCHANGED <<table, shown, screen, desk>>

(* handleRSUImportAction compares with the list as it was clicked.         *)
HandleRSUImportAction(c, roster, s, replace) ==
  /\ panel /\ ~Busy("rsu")
  /\ Call(c, [Ask("rsu") EXCEPT
       !.phase = "asking", !.todo = roster, !.next = s, !.replace = replace,
       !.known = IF replace THEN {} ELSE
          {[name |-> shown[i].name, bib |-> shown[i].bib] : i \in Present(shown)},
       !.clean = (shown = people)])
BeginSync(c) ==
  /\ At(c, "rsu", "asking")
  /\ Told(c, [desk[c] EXCEPT !.phase = "sent"])
  /\ UNCHANGED <<table, shown, page, steps>>

HandleImport(c, file, s, replace) ==
  /\ screen = "csv" /\ ~Busy("csv")
  /\ Call(c, [Ask("csv") EXCEPT !.todo = file, !.next = s, !.replace = replace])

(* The other screen takes this one's place, form and panel with it; the    *)
(* CSV button asks nobody.  Calls go on without the component.             *)
Unmounted == [d \in Desk |-> IF desk[d] = None THEN None ELSE [desk[d] EXCEPT !.here = FALSE]]
SetView ==
  /\ Step
  /\ screen' = IF OnList THEN "csv" ELSE "list"
  /\ edit' = None /\ panel' = FALSE
  /\ desk' = Unmounted
  /\ UNCHANGED <<table, shown>>

-----------------------------------------------------------------------------
(* ParticipantService.                                                     *)

(* What one statement does; a refused one fails the call.                  *)
Update(i, row) == IF people[i] = None THEN people ELSE [people EXCEPT ![i] = row]
Statement(c) ==
  LET r == desk[c] IN
  CASE r.op = "delete" -> [people EXCEPT ![r.id] = None]
    [] r.op = "delete all" -> Nobody
    [] r.op = "clear bibs" ->
         [i \in PersonId |-> IF people[i] = None THEN None ELSE [people[i] EXCEPT !.bib = 0]]
    [] OTHER -> Update(r.id, r.row)

Execute(c) ==
  /\ \/ At(c, "toggle", "held")
     \/ \E op \in {"save", "delete", "delete all", "clear bibs"} : At(c, op, "sent")
  /\ IF /\ desk[c].op \in {"save", "toggle"} /\ people[desk[c].id] # None
        /\ Refused(people, desk[c].id, desk[c].row.bib)
     THEN Told(c, None) /\ UNCHANGED people
     ELSE Write(c, Statement(c), Written(c))
  /\ UNCHANGED <<lastPerson, shown, page, steps>>

AddParticipant(c) ==
  /\ At(c, "add", "sent")
  /\ lastPerson < MaxId
  /\ IF Refused(people, 0, desk[c].row.bib)
     THEN Told(c, None) /\ UNCHANGED table
     ELSE /\ Write(c, [people EXCEPT ![lastPerson + 1] = desk[c].row], Written(c))
          /\ lastPerson' = lastPerson + 1
  /\ UNCHANGED <<shown, page, steps>>

(* ToggleCheckIn reads the row it will write whole, ReassignBibs the rows  *)
(* it will number, ImportParticipants the bibs it will not give again.     *)
Read(c) ==
  /\ \/ \E op \in {"toggle", "bulk"} : At(c, op, "sent")
     \/ At(c, "csv", "sent") /\ ~desk[c].replace
  /\ IF desk[c].op = "toggle" /\ people[desk[c].id] = None
     THEN Told(c, None)
     ELSE Told(c, [desk[c] EXCEPT
            !.phase = "held", !.list = people, !.clean = TRUE,
            !.row = IF desk[c].op = "toggle"
                    THEN [people[desk[c].id] EXCEPT !.in = ~@] ELSE Blank])
  /\ UNCHANGED <<table, shown, page, steps>>

(* Row after row: a number is refused while a row behind still has it, and *)
(* then nothing is changed.                                                *)
Numbered(r, i) == r.next + Cardinality({j \in Present(r.list) : j < i})
ReassignBibs(c) ==
  /\ At(c, "bulk", "held")
  /\ LET ids == Present(desk[c].list) \cap Present(people)
         Earlier(i) == {j \in ids : j < i}
     IN IF \E i \in ids : \E j \in Present(people) \ ({i} \cup Earlier(i)) :
             people[j].bib = Numbered(desk[c], i)
        THEN Told(c, None) /\ UNCHANGED people
        ELSE Write(c, [i \in PersonId |-> IF i \in ids
                         THEN [people[i] EXCEPT !.bib = Numbered(desk[c], i)]
                         ELSE people[i]], Written(c))
  /\ UNCHANGED <<lastPerson, shown, page, steps>>

(* The file goes in as one transaction.  An entry without a name, or with  *)
(* a bib that is taken, is skipped; one that is refused is lost.           *)
FreeBibSlip(next, taken) == next
FreeBib(next, taken) == CHOOSE b \in next .. MaxBib :
                          b \notin taken /\ \A a \in next .. b - 1 : a \in taken
ImportEntry(acc, e) ==
  LET auto == e.bib = 0 /\ acc.next > 0
      bib == IF auto THEN FreeBib(acc.next, acc.taken) ELSE e.bib
      on == [acc EXCEPT !.next = IF auto THEN bib + 1 ELSE @]
  IN IF e.name = None \/ (e.bib # 0 /\ e.bib \in acc.taken) THEN acc
     ELSE IF Refused(acc.people, 0, bib) THEN on
     ELSE LET row == [name |-> e.name, bib |-> bib, in |-> FALSE]
          IN [on EXCEPT !.people = [@ EXCEPT ![acc.last + 1] = row],
                        !.last = @ + 1, !.taken = @ \cup ({bib} \ {0})]
Imported(first, file) ==
  LET upTo[k \in 0 .. Len(file)] ==
        IF k = 0 THEN first ELSE ImportEntry(upTo[k - 1], file[k])
  IN upTo
ImportParticipants(c) ==
  /\ At(c, "csv", "held") \/ (At(c, "csv", "sent") /\ desk[c].replace)
  /\ lastPerson + Len(desk[c].todo) <= MaxId
  /\ LET r == desk[c]
         first == [people |-> IF r.replace THEN Nobody ELSE people,
                   last |-> lastPerson, next |-> r.next,
                   taken |-> IF r.replace THEN {} ELSE Bibs(r.list)]
         done == Imported(first, r.todo)[Len(r.todo)]
     IN /\ Write(c, done.people, Written(c))
        /\ lastPerson' = done.last
  /\ UNCHANGED <<shown, page, steps>>

-----------------------------------------------------------------------------
(* The import from RunSignUp runs in the screen, one call for each person. *)
DeleteFirst(c) ==
  /\ At(c, "rsu", "sent") /\ desk[c].replace
  /\ Write(c, Nobody, [desk[c] EXCEPT !.replace = FALSE, !.clean = TRUE])
  /\ UNCHANGED <<lastPerson, shown, page, steps>>

IsDup(e, known) == \E k \in known : IF e.bib # 0 THEN k.bib = e.bib ELSE k.name = e.name
Assigned(r, e) == IF e.bib = 0 /\ r.next > 0 THEN r.next ELSE e.bib

PushedSlip(known, name, bib) == known
Pushed(known, name, bib) == known \cup {[name |-> name, bib |-> bib]}

SyncParticipant(c) ==
  /\ At(c, "rsu", "sent") /\ ~desk[c].replace /\ desk[c].todo # <<>>
  /\ lastPerson < MaxId
  /\ LET r == desk[c]
         e == Head(r.todo)
         bib == Assigned(r, e)
         on == [r EXCEPT !.todo = Tail(@)]
     IN IF IsDup(e, r.known)
        THEN Told(c, on) /\ UNCHANGED table
        ELSE IF Refused(people, 0, bib)
        THEN Told(c, None) /\ UNCHANGED table
        ELSE /\ Write(c, [people EXCEPT ![lastPerson + 1] =
                            [name |-> e.name, bib |-> bib, in |-> FALSE]],
                      [on EXCEPT !.known = Pushed(@, e.name, bib),
                                 !.next = IF bib = e.bib THEN @ ELSE @ + 1])
             /\ lastPerson' = lastPerson + 1
  /\ UNCHANGED <<shown, page, steps>>
EndSync(c) ==
  /\ At(c, "rsu", "sent") /\ ~desk[c].replace /\ desk[c].todo = <<>>
  /\ Told(c, Written(c))
  /\ UNCHANGED <<table, shown, page, steps>>

(* A call that fails is forgotten, and so is a list that does not come: a  *)
(* sync that stops half way leaves what it did and does not refresh.       *)
CallFails(c) ==
  /\ Step
  /\ desk[c] # None
  /\ desk[c].phase \in {"asking", "sent", "refresh"}
  /\ Told(c, None)
  /\ UNCHANGED <<table, shown, page>>

(* The answer closes whatever form or panel the operator has come to.      *)
Answer(c) ==
  /\ desk[c] # None /\ desk[c].phase = "written"
  /\ LET op == desk[c].op
         here == desk[c].here
     IN /\ edit' = IF edit # None /\ here /\ op = "save" THEN None
                   ELSE IF edit # None /\ here /\ op = "add" THEN [edit EXCEPT !.now = Blank]
                   ELSE edit
        /\ panel' = (panel /\ ~(here /\ op = "rsu"))
        /\ screen' = IF op = "csv" THEN "list" ELSE screen
        /\ desk' = [(IF screen' = screen THEN desk ELSE Unmounted) EXCEPT ![c].phase = "refresh"]
  /\ UNCHANGED <<table, shown, steps>>

ListParticipants(c) ==
  /\ desk[c] # None /\ desk[c].phase = "refresh"
  /\ Told(c, [desk[c] EXCEPT !.phase = "arriving", !.list = people])
  /\ UNCHANGED <<table, shown, page, steps>>
SetParticipants(c) ==
  /\ desk[c] # None /\ desk[c].phase = "arriving"
  /\ shown' = desk[c].list
  /\ Told(c, None)
  /\ UNCHANGED <<table, page, steps>>

-----------------------------------------------------------------------------
(* A list of different bibs, shown as it is.                               *)
ParticipantsInit ==
  /\ lastPerson \in 0 .. 2
  /\ people \in [PersonId -> {None} \cup [name : Name, bib : Typed, in : {FALSE}]]
  /\ Present(people) = 1 .. lastPerson
  /\ \A i \in Present(people) : ~Refused(people, i, people[i].bib)
  /\ shown = people
  /\ screen = "list" /\ edit = None /\ panel = FALSE
  /\ desk = [c \in Desk |-> None]
  /\ steps = 0

ParticipantRow(c) == \E i \in PersonId :
  HandleToggleCheckIn(c, i) \/ HandleDeletePerson(c, i) \/ HandleEdit(i)
ParticipantForm(c) == \/ HandleStartAddParticipant \/ HandleCancelForm
                      \/ \E n \in Name, b \in Typed, in \in BOOLEAN : FillForm(n, b, in)
                      \/ HandleSubmitForm(c)
ParticipantHeader(c) == \/ HandleDeleteAllParticipants(c) \/ HandleClearAllBibs(c)
                        \/ \E s \in Start : BulkBibs(c, s)
                        \/ ToggleRSUImport \/ SetView
Imports(c) == \E s \in Start \cup {0}, replace \in BOOLEAN :
                \/ \E f \in File : HandleImport(c, f, s, replace)
                \/ \E r \in Roster : HandleRSUImportAction(c, r, s, replace)
Service(c) == \/ Execute(c) \/ AddParticipant(c) \/ Read(c) \/ ReassignBibs(c)
              \/ ImportParticipants(c)
Sync(c) == BeginSync(c) \/ DeleteFirst(c) \/ SyncParticipant(c) \/ EndSync(c)
Refresh(c) == Answer(c) \/ ListParticipants(c) \/ SetParticipants(c)

ParticipantsNext == \E c \in Desk :
  \/ ParticipantRow(c) \/ ParticipantForm(c) \/ ParticipantHeader(c) \/ Imports(c)
  \/ Service(c) \/ Sync(c) \/ Refresh(c) \/ CallFails(c)
ParticipantsSpec == ParticipantsInit /\ [][ParticipantsNext]_deskVars

-----------------------------------------------------------------------------
DeskCall == [op : DeskOp, phase : DeskPhase, id : 0 .. MaxId, row : Person,
             list : People \cup {None}, todo : Seq(Entry), known : SUBSET Entry,
             next : Bib, replace : BOOLEAN, here : BOOLEAN, clean : BOOLEAN]
ParticipantsTypeOK ==
  /\ people \in People /\ lastPerson \in 0 .. MaxId /\ shown \in People
  /\ screen \in {"list", "csv"} /\ panel \in BOOLEAN
  /\ edit \in [id : 0 .. MaxId, now : Person] \cup {None}
  /\ desk \in [Desk -> DeskCall \cup {None}]
  /\ steps \in 0 .. MaxSteps

(* participant_service.go:119-222: a file is imported whole.  Unless       *)
(* somebody writes between its read of the bibs and its commit, or the     *)
(* numbers it assigns run into bibs of the file, each entry with a name is *)
(* there afterwards, in the order of the file, but for those whose bib     *)
(* somebody had; and the others are as they were, or gone if replaced.     *)
FileIsImported ==
  [][\A c \in Desk :
       LET r == desk[c]
           old == IF r.replace THEN Nobody ELSE people
           wanted == {k \in DOMAIN r.todo :
             /\ r.todo[k].name # None
             /\ r.todo[k].bib # 0 => /\ r.todo[k].bib \notin Bibs(old)
                                     /\ \A j \in 1 .. k - 1 : r.todo[j].name # None =>
                                          r.todo[j].bib # r.todo[k].bib}
           at(k) == people'[lastPerson + Cardinality({j \in wanted : j <= k})]
       IN /\ desk[c] # None /\ r.op = "csv" /\ r.phase # "written" /\ desk'[c] # None
          /\ desk'[c].phase = "written" /\ r.clean
          /\ r.next > 0 => \A k \in DOMAIN r.todo : r.todo[k].bib < r.next
          => /\ \A k \in wanted : /\ at(k) # None /\ at(k).name = r.todo[k].name
                                  /\ r.todo[k].bib # 0 \/ r.next = 0 => at(k).bib = r.todo[k].bib
                                  /\ r.todo[k].bib = 0 /\ r.next > 0 => at(k).bib >= r.next
             /\ lastPerson' = lastPerson + Cardinality(wanted)
             /\ \A i \in 1 .. lastPerson : people'[i] = old[i]]_deskVars

(* ParticipantManagement.tsx:206-228: nobody is imported twice.  If the    *)
(* list was true when the import was clicked and nobody else wrote since,  *)
(* no participant is added whose bib, or whose name if RunSignUp has no    *)
(* bib, is there already, also when two events of the roster list them.    *)
ImportOnce ==
  [][\A c \in Desk :
       At(c, "rsu", "sent") /\ desk[c].clean /\ people' # people
         /\ desk[c].todo # <<>> /\ desk'[c] # None /\ desk'[c].todo = Tail(desk[c].todo)
       => \A i \in Present(people) :
            IF Head(desk[c].todo).bib # 0
            THEN people[i].bib # Head(desk[c].todo).bib
            ELSE people[i].name # Head(desk[c].todo).name]_deskVars
=============================================================================
