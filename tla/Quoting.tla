------------------------------- MODULE Quoting ------------------------------
(***************************************************************************)
(* How a quote is frozen, and how a bend edit thaws it: QuotesService,     *)
(* BendsService and MaterialsService over one database. POST /api/quotes   *)
(* reads four rows, one await each, and writes one; a bend edit writes the *)
(* bend and then, in a statement of its own, expires the drawing's drafts. *)
(*                                                                         *)
(* Nesting and pricing are pure: all they add to a quote is decided by the *)
(* rows read, so a quote is the count, the price list and the material it  *)
(* was computed from.                                                      *)
(***************************************************************************)
EXTENDS Naturals, FiniteSets

CONSTANTS
    Drawings,   \* uploaded drawings; their geometry never changes
    Bends,      \* ids of bend lines
    Quotes,     \* ids of quotes
    Materials,  \* stock materials
    Prices,     \* pricing configurations an admin may save
    Requests,   \* slots for concurrent HTTP handlers
    MaxFaults,  \* bound: failed calls and restarts considered
    None        \* absence of a value

ASSUME ConstantsAssumption == MaxFaults \in Nat

VARIABLES
    bends,     \* BendLine rows
    quotes,    \* Quote rows
    pricing,   \* the PricingConfig row
    stocked,   \* Material.isActive
    req,       \* the handler each slot runs, and its local variables
    faults     \* failed calls and restarts so far

vars == <<bends, quotes, pricing, stocked, req, faults>>

BendsOf(d) == {b \in bends : b.drawing = d}
Count(d)   == Cardinality(BendsOf(d))
Counts     == {Cardinality(s) : s \in SUBSET [id : Bends, drawing : Drawings]}

\* `overtaken` is history, not data: an edit of the drawing ran to its end between
\* the count of the bends and the insert of the quote.
BendLine == [id : Bends, drawing : Drawings]
Quote    == [id : Quotes, drawing : Drawings, material : Materials, bends : Counts,
             price : Prices, status : {"draft", "ordered", "expired"}, overtaken : BOOLEAN]
Request  == [pc : {"idle", "material", "count", "pricing", "insert", "update", "delete", "expire"},
             drawing : Drawings \union {None}, material : Materials \union {None},
             bend : BendLine \union {None}, bends : Counts, price : Prices \union {None},
             overtaken : BOOLEAN]

Handler(label, d, m, b) == [pc |-> label, drawing |-> d, material |-> m, bend |-> b,
                            bends |-> 0, price |-> None, overtaken |-> FALSE]

Idle == Handler("idle", None, None, None)

At(r, label)   == req[r].pc = label
Goto(r, label) == req' = [req EXCEPT ![r].pc = label]
Finish(r)      == req' = [req EXCEPT ![r] = Idle]

\* A quote that is being made of bends already counted.
Counted(r) == req[r].pc \in {"pricing", "insert"}

Init ==
    /\ bends = {}
    /\ quotes = {}
    /\ pricing \in Prices
    /\ stocked \in [Materials -> BOOLEAN]
    /\ req = [r \in Requests |-> Idle]
    /\ faults = 0

-----------------------------------------------------------------------------
(* QuotesService.create *)

\* The quantity is within the machine's limits and the drawing is the caller's own.
StartQuote(r, d, m) ==
    /\ At(r, "idle")
    /\ req' = [req EXCEPT ![r] = Handler("material", d, m, None)]
    /\ UNCHANGED <<bends, quotes, pricing, stocked, faults>>

ReadMaterial(r) ==
    /\ At(r, "material")
    /\ IF stocked[req[r].material] THEN Goto(r, "count") ELSE Finish(r)
    /\ UNCHANGED <<bends, quotes, pricing, stocked, faults>>

\* nest throws: the part does not fit the sheet, whose size an admin may change.
PartTooLarge(r) ==
    /\ At(r, "material")
    /\ Finish(r)
    /\ UNCHANGED <<bends, quotes, pricing, stocked, faults>>

CountBends(r) ==
    /\ At(r, "count")
    /\ req' = [req EXCEPT ![r].pc = "pricing", ![r].bends = Count(req[r].drawing)]
    /\ UNCHANGED <<bends, quotes, pricing, stocked, faults>>

ReadPricing(r) ==
    /\ At(r, "pricing")
    /\ req' = [req EXCEPT ![r].pc = "insert", ![r].price = pricing]
    /\ UNCHANGED <<bends, quotes, pricing, stocked, faults>>

InsertQuote(r, id) ==
    /\ At(r, "insert")
    /\ \A q \in quotes : q.id # id
    /\ quotes' = quotes \union
          {[id |-> id, drawing |-> req[r].drawing, material |-> req[r].material,
            bends |-> req[r].bends, price |-> req[r].price, status |-> "draft",
            overtaken |-> req[r].overtaken]}
    /\ Finish(r)
    /\ UNCHANGED <<bends, pricing, stocked, faults>>

-----------------------------------------------------------------------------
(* BendsService *)

CreateBend(r, d, id) ==
    /\ At(r, "idle")
    /\ \A b \in bends : b.id # id
    /\ bends' = bends \union {[id |-> id, drawing |-> d]}
    /\ req' = [req EXCEPT ![r] = Handler("expire", d, None, None)]
    /\ UNCHANGED <<quotes, pricing, stocked, faults>>

\* findOwned has read the bend that update or remove goes on with.
StartEdit(r, b, edit) ==
    /\ At(r, "idle")
    /\ b \in bends
    /\ req' = [req EXCEPT ![r] = Handler(edit, b.drawing, None, b)]
    /\ UNCHANGED <<bends, quotes, pricing, stocked, faults>>

\* A bend that another request removed meanwhile makes the write fail, and then
\* nothing is expired. No quote depends on what an update changes.
UpdateBend(r) ==
    /\ At(r, "update")
    /\ IF req[r].bend \in bends THEN Goto(r, "expire") ELSE Finish(r)
    /\ UNCHANGED <<bends, quotes, pricing, stocked, faults>>

RemoveBendOnly(r) ==
    /\ At(r, "delete")
    /\ bends' = bends \ {req[r].bend}
    /\ Finish(r)
    /\ UNCHANGED <<quotes, pricing, stocked, faults>>

RemoveBend(r) ==
    /\ At(r, "delete")
    /\ IF req[r].bend \in bends THEN Goto(r, "expire") ELSE Finish(r)
    /\ bends' = bends \ {req[r].bend}
    /\ UNCHANGED <<quotes, pricing, stocked, faults>>

ExpiredWhateverStatus(q, d) == IF q.drawing = d THEN [q EXCEPT !.status = "expired"] ELSE q

Expired(q, d) ==
    IF q.drawing = d /\ q.status = "draft" THEN [q EXCEPT !.status = "expired"] ELSE q

\* The handlers when one has expired the drafts of drawing d.
Overtaken(d) == [x \in Requests |->
    IF Counted(x) /\ req[x].drawing = d THEN [req[x] EXCEPT !.overtaken = TRUE] ELSE req[x]]

ExpireDraftQuotes(r) ==
    /\ At(r, "expire")
    /\ quotes' = {Expired(q, req[r].drawing) : q \in quotes}
    /\ req' = [Overtaken(req[r].drawing) EXCEPT ![r] = Idle]
    /\ UNCHANGED <<bends, pricing, stocked, faults>>

-----------------------------------------------------------------------------
(* What others do to these rows *)

\* OrdersService marks the quote of a paid session, whatever its status.
MarkOrdered(q) ==
    /\ q \in quotes
    /\ quotes' = (quotes \ {q}) \union {[q EXCEPT !.status = "ordered"]}
    /\ UNCHANGED <<bends, pricing, stocked, req, faults>>

UpdatePricing(p) ==
    /\ pricing' = p
    /\ UNCHANGED <<bends, quotes, stocked, req, faults>>

UpdateMaterial(m, active) ==
    /\ stocked' = [stocked EXCEPT ![m] = active]
    /\ UNCHANGED <<bends, quotes, pricing, req, faults>>

\* A database call is rejected: the handler ends, what it wrote stays.
Abort(r) ==
    /\ ~ At(r, "idle")
    /\ faults < MaxFaults
    /\ faults' = faults + 1
    /\ Finish(r)
    /\ UNCHANGED <<bends, quotes, pricing, stocked>>

Restart ==
    /\ \E r \in Requests : ~ At(r, "idle")
    /\ faults < MaxFaults
    /\ faults' = faults + 1
    /\ req' = [r \in Requests |-> Idle]
    /\ UNCHANGED <<bends, quotes, pricing, stocked>>

-----------------------------------------------------------------------------
QuoteStep(r) ==
    \/ \E d \in Drawings, m \in Materials : StartQuote(r, d, m)
    \/ ReadMaterial(r) \/ PartTooLarge(r) \/ CountBends(r) \/ ReadPricing(r)
    \/ \E id \in Quotes : InsertQuote(r, id)

BendStep(r) ==
    \/ \E d \in Drawings, id \in Bends : CreateBend(r, d, id)
    \/ \E b \in bends, edit \in {"update", "delete"} : StartEdit(r, b, edit)
    \/ UpdateBend(r) \/ RemoveBend(r) \/ ExpireDraftQuotes(r)

Environment ==
    \/ \E q \in quotes : MarkOrdered(q)
    \/ \E p \in Prices : UpdatePricing(p)
    \/ \E m \in Materials, active \in BOOLEAN : UpdateMaterial(m, active)
    \/ Restart

Next ==
    \/ \E r \in Requests : QuoteStep(r) \/ BendStep(r) \/ Abort(r)
    \/ Environment

Spec == Init /\ [][Next]_vars

-----------------------------------------------------------------------------
(* Properties *)

\* Every row and handler has its type: a quote is inserted with all its figures.
TypeOK ==
    /\ bends \subseteq BendLine
    /\ quotes \subseteq Quote
    /\ pricing \in Prices
    /\ stocked \in [Materials -> BOOLEAN]
    /\ req \in [Requests -> Request]
    /\ faults \in 0 .. MaxFaults

\* An edit of drawing d has written its bend and not yet expired the drafts.
EditPending(d) == \E r \in Requests : At(r, "expire") /\ req[r].drawing = d

\* If no call fails, a draft whose bend count is not the drawing's has one of two
\* causes: an edit that is about to expire it, or one that overtook its creation.
StaleDraftHasCause ==
    faults = 0 => \A q \in quotes :
        q.status = "draft" /\ q.bends # Count(q.drawing) =>
            q.overtaken \/ EditPending(q.drawing)

\* A quote that was shown keeps its figures for ever; an ordered one stays ordered,
\* and an expired one never becomes a draft again.
FrozenOnceQuoted ==
    [][\A q \in quotes : \E p \in quotes' :
          /\ p = [q EXCEPT !.status = p.status]
          /\ q.status = "ordered" => p.status = "ordered"
          /\ q.status = "expired" => p.status # "draft"]_vars

-----------------------------------------------------------------------------
(* The inductive invariant *)

\* What a handler in flight needs for its next step.
HandlersSound == \A r \in Requests :
    /\ ~ At(r, "idle") => req[r].drawing \in Drawings
    /\ req[r].pc \in {"material", "count", "pricing", "insert"} => req[r].material \in Materials
    /\ At(r, "insert") => req[r].price \in Prices
    /\ req[r].pc \in {"update", "delete"} =>
          req[r].bend \in BendLine /\ req[r].bend.drawing = req[r].drawing

\* A count already taken goes stale in the same two ways as a draft's.
StaleCountHasCause ==
    faults = 0 => \A r \in Requests :
        Counted(r) /\ req[r].bends # Count(req[r].drawing) =>
            req[r].overtaken \/ EditPending(req[r].drawing)

IInv == TypeOK /\ HandlersSound /\ StaleCountHasCause /\ StaleDraftHasCause

=============================================================================
