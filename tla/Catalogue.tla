------------------------------ MODULE Catalogue -------------------------------
(***************************************************************************)
(* The administrator's tables of materials and of delivery methods, which  *)
(* are one design twice: a table that is loaded once, a form over it whose *)
(* state is in the address, and a switch on each row. The form saves every *)
(* field of its row, and closes at once; the answers change the table, and *)
(* the form starts again from the table each time the table changes. One   *)
(* administrator works in one tab. `name` stands for all fields of a row   *)
(* but isActive.                                                           *)
(*                                                                         *)
(* Definitions no action refers to are mutated forms of their neighbours.  *)
(***************************************************************************)
EXTENDS Naturals, Absence

CONSTANTS
    Items,     \* ids of rows
    Stocks,    \* rows to begin with, by id
    Names,     \* what a row may say
    BlankName, \* what a new form says
    Jobs,      \* slots for API calls under way
    MaxLosses  \* bound: calls that fail

RowValues == [name : Names, isActive : BOOLEAN]
RowTables == UNION {[D -> RowValues] : D \in SUBSET Items}

ASSUME CatalogueConstants ==
    /\ BlankName \in Names /\ MaxLosses \in Nat
    /\ None \notin Items
    /\ Stocks \subseteq RowTables
    /\ Jobs # {}

VARIABLES
    stock,   \* rows of the server, by id
    listed,  \* the table that is shown
    editor,  \* the form: [open, id: of the address, row: the draft, for: the draft's id, touched]
    jobs,    \* API calls under way
    meant,   \* history: the rows as the administrator's own edits made them
    adrift,  \* history: calls have crossed, or an answer was lost
    losses   \* failed calls so far

catalogueVars == <<stock, listed, editor, jobs, meant, adrift, losses>>

Fields == {"name", "isActive"}
BlankRow == [name |-> BlankName, isActive |-> TRUE]

Job(what, id, row, fields) ==
    [what |-> what, id |-> id, row |-> row, touched |-> fields, phase |-> "sent", table |-> <<>>]
NoJob == [Job("none", None, BlankRow, {}) EXCEPT !.phase = "idle"]

Busy(whats) == {j \in Jobs : jobs[j].what \in whats}
Writes == {"create", "update", "toggle"}
About(id) == {j \in Busy(Writes) : jobs[j].id = id}
FreeJob(j) == jobs[j] = NoJob /\ j = CHOOSE idle \in Jobs : jobs[idle] = NoJob
Done(j) == jobs' = [jobs EXCEPT ![j] = NoJob]

Draft(open, id, table) ==
    IF id \in DOMAIN table THEN [open |-> open, id |-> id, row |-> table[id], for |-> id, touched |-> {}]
    ELSE [open |-> open, id |-> id, row |-> BlankRow, for |-> None, touched |-> {}]

\* The page may be opened with the form in its address.
CatalogueInit ==
    /\ stock \in Stocks
    /\ listed = <<>>
    /\ editor \in {Draft(FALSE, None, <<>>)} \union {Draft(TRUE, id, <<>>) : id \in DOMAIN stock \union {None}}
    /\ jobs = [j \in Jobs |-> IF j = CHOOSE first \in Jobs : TRUE THEN Job("load", None, BlankRow, {}) ELSE NoJob]
    /\ meant = stock
    /\ adrift = FALSE
    /\ losses = 0

-----------------------------------------------------------------------------
(* The form and the switches *)

\* The form covers the table.
EditRow(id) ==
    /\ ~editor.open
    /\ id \in DOMAIN listed \union {None}
    /\ editor' = Draft(TRUE, id, listed)
    /\ UNCHANGED <<stock, listed, jobs, meant, adrift, losses>>

PatchName(v) ==
    /\ editor.open
    /\ editor' = [editor EXCEPT !.row.name = v, !.touched = @ \union {"name"}]
    /\ UNCHANGED <<stock, listed, jobs, meant, adrift, losses>>

PatchActive ==
    /\ editor.open
    /\ editor' = [editor EXCEPT !.row.isActive = ~@, !.touched = @ \union {"isActive"}]
    /\ UNCHANGED <<stock, listed, jobs, meant, adrift, losses>>

Cancel ==
    /\ editor.open
    /\ editor' = Draft(FALSE, None, listed)
    /\ UNCHANGED <<stock, listed, jobs, meant, adrift, losses>>

\* The link that saves also leaves the form, before there is an answer. A draft that no
\* row of the table was found for is created.
SaveRow(j) ==
    /\ editor.open
    /\ FreeJob(j)
    /\ jobs' = [jobs EXCEPT ![j] = IF editor.for = None THEN Job("create", None, editor.row, Fields)
                                    ELSE Job("update", editor.for, editor.row, editor.touched)]
    /\ adrift' = (adrift \/ Busy({"load"}) # {} \/ (editor.for # None /\ About(editor.for) # {}))
    /\ editor' = Draft(FALSE, None, listed)
    /\ UNCHANGED <<stock, listed, meant, losses>>

ToggleActive(j, id) ==
    /\ ~editor.open
    /\ id \in DOMAIN listed
    /\ FreeJob(j)
    /\ jobs' = [jobs EXCEPT ![j] = Job("toggle", id, [listed[id] EXCEPT !.isActive = ~@], {"isActive"})]
    /\ adrift' = (adrift \/ About(id) # {})
    /\ UNCHANGED <<stock, listed, editor, meant, losses>>

-----------------------------------------------------------------------------
(* The server *)

Answered(j, id, table) == jobs' = [jobs EXCEPT ![j].phase = "answered", ![j].id = id, ![j].table = table]

ServeList(j) ==
    /\ jobs[j].what = "load" /\ jobs[j].phase = "sent"
    /\ Answered(j, None, stock)
    /\ UNCHANGED <<stock, listed, editor, meant, adrift, losses>>

ServeInsert(j, id) ==
    /\ jobs[j].what = "create" /\ jobs[j].phase = "sent"
    /\ id \notin DOMAIN stock
    /\ LET with == [i \in {id} |-> jobs[j].row] IN
       /\ stock' = [i \in DOMAIN stock \union {id} |-> IF i = id THEN jobs[j].row ELSE stock[i]]
       /\ meant' = [i \in DOMAIN meant \union {id} |-> IF i = id THEN jobs[j].row ELSE meant[i]]
       /\ Answered(j, id, with)
    /\ UNCHANGED <<listed, editor, adrift, losses>>

\* A save writes every field it carries, a switch only its own.
FieldsOf(j) == IF jobs[j].what = "update" THEN Fields ELSE {"isActive"}

Overlaid(old, new, fields) == [f \in Fields |-> IF f \in fields THEN new[f] ELSE old[f]]

ServeChange(j) ==
    /\ jobs[j].what \in {"update", "toggle"} /\ jobs[j].phase = "sent"
    /\ LET id  == jobs[j].id
           row == Overlaid(stock[id], jobs[j].row, FieldsOf(j)) IN
       /\ stock' = [stock EXCEPT ![id] = row]
       /\ meant' = [meant EXCEPT ![id] = Overlaid(@, jobs[j].row, jobs[j].touched)]
       /\ Answered(j, id, [i \in {id} |-> row])
    /\ UNCHANGED <<listed, editor, adrift, losses>>

-----------------------------------------------------------------------------
(* Answers *)

Unsynced == editor

Resynced == Draft(editor.open, editor.id, listed')

\* The effect that watches the table and the address.
SyncDraft == editor' = Resynced

TableLoaded(j) ==
    /\ jobs[j].what = "load" /\ jobs[j].phase = "answered"
    /\ listed' = jobs[j].table
    /\ SyncDraft
    /\ Done(j)
    /\ UNCHANGED <<stock, meant, adrift, losses>>

RowCreated(j) ==
    /\ jobs[j].what = "create" /\ jobs[j].phase = "answered"
    /\ listed' = [i \in DOMAIN listed \union {jobs[j].id} |->
                    IF i = jobs[j].id THEN jobs[j].table[i] ELSE listed[i]]
    /\ SyncDraft
    /\ Done(j)
    /\ UNCHANGED <<stock, meant, adrift, losses>>

RowUpdated(j) ==
    /\ jobs[j].what \in {"update", "toggle"} /\ jobs[j].phase = "answered"
    /\ listed' = [i \in DOMAIN listed |-> IF i = jobs[j].id THEN jobs[j].table[i] ELSE listed[i]]
    /\ SyncDraft
    /\ Done(j)
    /\ UNCHANGED <<stock, meant, adrift, losses>>

\* The table stays as it is, and so does the form. What a save failed with is not shown:
\* the form is closed, and forgets it when it opens.
JobFails(j) ==
    /\ jobs[j].phase = "failed"
    /\ Done(j)
    /\ UNCHANGED <<stock, listed, editor, meant, adrift, losses>>

\* A call is refused or not delivered, or its answer is lost.
JobIsLost(j) ==
    /\ jobs[j].phase \in {"sent", "answered"}
    /\ losses < MaxLosses
    /\ losses' = losses + 1
    /\ jobs' = [jobs EXCEPT ![j].phase = "failed"]
    /\ adrift' = (adrift \/ jobs[j].phase = "answered" \/ jobs[j].what = "load")
    /\ UNCHANGED <<stock, listed, editor, meant>>

CatalogueNext ==
    \/ \E id \in Items \union {None} : EditRow(id)
    \/ (\E v \in Names : PatchName(v)) \/ PatchActive \/ Cancel
    \/ \E j \in Jobs :
         \/ SaveRow(j) \/ ServeList(j) \/ ServeChange(j)
         \/ (\E id \in Items : ToggleActive(j, id) \/ ServeInsert(j, id))
         \/ TableLoaded(j) \/ RowCreated(j) \/ RowUpdated(j) \/ JobFails(j) \/ JobIsLost(j)

CatalogueSpec == CatalogueInit /\ [][CatalogueNext]_catalogueVars

-----------------------------------------------------------------------------
(* Properties *)

\* The rows hold what the administrator typed and switched, field by field: a form that
\* was opened before a switch was answered does not switch it back, although it saves
\* every field. And once all answers are in, the table shows the rows. The exceptions: a
\* save while the table is loading, a save or a switch while a call about the same row is
\* under way, and an answer that was lost.
EditsAreKept ==
    ~adrift => /\ stock = meant
               /\ Busy(Writes \union {"load"}) = {} => listed = stock
=============================================================================
