------------------------------- MODULE Wizard --------------------------------
(***************************************************************************)
(* The quote wizard of one tab: NewQuoteShell and its four steps over one  *)
(* DraftStore, the draft kept in sessionStorage, and the server's drawings *)
(* and bend rows. The list of bends is edited on the screen first and      *)
(* written through behind it, a request for each edit; nothing orders the  *)
(* requests, nor the answers.                                              *)
(*                                                                         *)
(* Places stand for the ends, angle and direction of a bend. Bends are     *)
(* edited by their owner in this tab alone. Orders, prices and the machine *)
(* limits are other modules' business.                                     *)
(*                                                                         *)
(* Definitions no action refers to are mutated forms of their neighbours.  *)
(***************************************************************************)
EXTENDS Naturals, SequencesExt, Absence

CONSTANTS
    Drawings,  \* drawings an upload may create
    BendIds,   \* ids of bend lines
    Places,    \* where and how a bend may lie
    Calls,     \* slots for API calls under way
    Spaces,    \* first segments of the addresses a tab may be loaded at
    MaxFaults  \* bound: calls that fail, and reloads of the page

ASSUME WizardConstants == MaxFaults \in Nat /\ None \notin Drawings \union BendIds

VARIABLES
    rows,      \* BendLine rows of the server
    drawing,   \* DraftStore.drawing
    bends,     \* DraftStore.bends, in order
    space,     \* NS: the first segment of the address this page was loaded at
    stored,    \* the drawing of the draft that sessionStorage has for each of them
    reference, \* DraftStore.referenceData: "none", "loading" or "loaded"
    step,      \* the step that is shown
    drag,      \* the bend that is dragged on the canvas
    quote,     \* the result step: its state, and the drawing and count of bends it was quoted
    calls,     \* API calls under way
    astray,    \* history: calls have crossed in one of the ways that lose the list
    mishaps    \* failed calls and reloads so far

wizardVars == <<rows, drawing, bends, space, stored, reference, step, drag, quote, calls, astray, mishaps>>

Bend  == [id : BendIds, drawing : Drawings, place : Places]
Steps == {"upload", "bends", "material", "result"}

Call(kind, phase, d, id, p) ==
    [kind |-> kind, phase |-> phase, drawing |-> d, id |-> id, place |-> p, list |-> <<>>]
NoCall == Call("none", "idle", None, None, None)

Free(c) == calls[c] = NoCall /\ c = CHOOSE idle \in Calls : calls[idle] = NoCall
Open(kinds) == {c \in Calls : calls[c].kind \in kinds}
Edits == {"create", "update", "delete"}
Lists == {"reload", "restore", "stepRestore"}
Restores == Lists \ {"reload"}

NoQuote(state) == [state |-> state, drawing |-> None, count |-> 0, hurried |-> FALSE]

Listed(d) == SetToSeq({b \in rows : b.drawing = d})
OfId(id)  == {b \in rows : b.id = id}
Shown     == {b.id : b \in Range(bends)}

\* The draft that this page reads: its key has the prefix that was computed at load.
Saved   == stored[space]
Persist(d) == stored' = [stored EXCEPT ![space] = d]

WizardInit ==
    /\ rows = {}
    /\ drawing = None /\ bends = <<>>
    /\ space \in Spaces /\ stored = [n \in Spaces |-> None]
    /\ reference = "loading"
    /\ step = "upload"
    /\ drag = None
    /\ quote = NoQuote("away")
    /\ calls = [c \in Calls |-> NoCall]
    /\ astray = FALSE
    /\ mishaps = 0

-----------------------------------------------------------------------------
(* DraftStore: reference data and the draft of an earlier visit *)

\* Whoever waits for the shared promise goes on when it settles, loaded or not.
ReferenceArrives ==
    /\ reference = "loading"
    /\ reference' = "loaded"
    /\ UNCHANGED <<rows, space, drawing, bends, stored, step, drag, quote, calls, astray, mishaps>>

ReferenceFails ==
    /\ reference = "loading"
    /\ mishaps < MaxFaults
    /\ mishaps' = mishaps + 1
    /\ reference' = "none"
    /\ UNCHANGED <<rows, space, drawing, bends, stored, step, drag, quote, calls, astray>>

\* The shell sends the customer back to the upload step when nothing was restored;
\* the result step is destroyed, and a quote it asked for is nobody's.
ToUpload == /\ step' = "upload" /\ drag' = None /\ quote' = NoQuote("away")

Resume(c) ==
    /\ calls[c].kind \in Restores /\ calls[c].phase = "waiting"
    /\ reference # "loading"
    /\ IF drawing # None \/ Saved = None
       THEN calls' = [calls EXCEPT ![c] = NoCall]
       ELSE calls' = [calls EXCEPT ![c].phase = "sent", ![c].drawing = Saved]
    /\ IF drawing = None /\ Saved = None /\ calls[c].kind = "restore"
       THEN ToUpload ELSE UNCHANGED <<step, drag, quote>>
    /\ UNCHANGED <<rows, space, drawing, bends, stored, reference, astray, mishaps>>

Restored(c) ==
    /\ calls[c].kind \in Restores /\ calls[c].phase = "answered"
    /\ drawing' = calls[c].drawing
    /\ bends' = calls[c].list
    /\ calls' = [calls EXCEPT ![c] = NoCall]
    /\ UNCHANGED <<rows, space, stored, reference, step, drag, quote, astray, mishaps>>

\* The draft is forgotten, although the other restore may have brought its drawing back.
RestoreFails(c) ==
    /\ calls[c].kind \in Restores /\ calls[c].phase = "failed"
    /\ Persist(None)
    /\ calls' = [calls EXCEPT ![c] = NoCall]
    /\ IF calls[c].kind = "restore" THEN ToUpload ELSE UNCHANGED <<step, drag, quote>>
    /\ astray' = (astray \/ drawing # None \/ Open(Lists) # {c})
    /\ UNCHANGED <<rows, space, drawing, bends, reference, mishaps>>

-----------------------------------------------------------------------------
(* The upload step *)

\* A file that passes the client's check and the server's; the dropzone stays open meanwhile.
Upload(c) ==
    /\ step = "upload" /\ drawing = None
    /\ Free(c)
    /\ calls' = [calls EXCEPT ![c] = Call("upload", "sent", None, None, None)]
    /\ UNCHANGED <<rows, space, drawing, bends, stored, reference, step, drag, quote, astray, mishaps>>

SetDrawingKeepingBends(c) ==
    /\ calls[c].kind = "upload" /\ calls[c].phase = "answered"
    /\ drawing' = calls[c].drawing
    /\ Persist(calls[c].drawing)
    /\ calls' = [calls EXCEPT ![c] = NoCall]
    /\ astray' = (astray \/ Open({"create"} \union Lists) # {})
    /\ UNCHANGED <<rows, space, bends, reference, step, drag, quote, mishaps>>

\* The drawing is adopted whatever is shown by now, and whatever else is under way.
SetDrawing(c) ==
    /\ calls[c].kind = "upload" /\ calls[c].phase = "answered"
    /\ drawing' = calls[c].drawing
    /\ bends' = <<>>
    /\ Persist(calls[c].drawing)
    /\ calls' = [calls EXCEPT ![c] = NoCall]
    /\ astray' = (astray \/ Open({"create"} \union Lists) # {})
    /\ UNCHANGED <<rows, space, reference, step, drag, quote, mishaps>>

Replace ==
    /\ step = "upload" /\ drawing # None
    /\ drawing' = None /\ bends' = <<>> /\ Persist(None)
    /\ astray' = (astray \/ Open({"create"} \union Lists) # {})
    /\ UNCHANGED <<rows, space, reference, step, drag, quote, calls, mishaps>>

-----------------------------------------------------------------------------
(* The bends step and its canvas *)

Editing == step = "bends" /\ drawing # None

\* A bend is taken by one of its handles or along its line.
PointerDown(id) ==
    /\ Editing /\ drag = None
    /\ id \in Shown
    /\ drag' = id
    /\ UNCHANGED <<rows, space, drawing, bends, stored, reference, step, quote, calls, astray, mishaps>>

\* Every move of the pointer is an edit of its own, written through at once.
PointerMove(c, p) ==
    /\ Editing /\ drag # None
    /\ Free(c)
    /\ bends' = [i \in DOMAIN bends |-> IF bends[i].id = drag THEN [bends[i] EXCEPT !.place = p] ELSE bends[i]]
    /\ calls' = [calls EXCEPT ![c] = Call("update", "sent", drawing, drag, p)]
    /\ astray' = (astray \/ Open(Lists) # {} \/ \E o \in Open({"update"}) : calls[o].id = drag)
    /\ UNCHANGED <<rows, space, drawing, stored, reference, step, drag, quote, mishaps>>

PointerUp ==
    /\ drag # None
    /\ drag' = None
    /\ UNCHANGED <<rows, space, drawing, bends, stored, reference, step, quote, calls, astray, mishaps>>

\* A line drawn on free ground, long enough, or the button that adds one: it is listed
\* when the server has answered.
Draw(c, p) ==
    /\ Editing /\ drag = None
    /\ Free(c)
    /\ calls' = [calls EXCEPT ![c] = Call("create", "sent", drawing, None, p)]
    /\ astray' = (astray \/ Open(Lists) # {})
    /\ UNCHANGED <<rows, space, drawing, bends, stored, reference, step, drag, quote, mishaps>>

\* A list of bends filtered of an id.
Kept(list, id) ==
    LET kept[i \in 0 .. Len(list)] ==
            IF i = 0 THEN <<>>
            ELSE IF list[i].id = id THEN kept[i - 1] ELSE Append(kept[i - 1], list[i])
    IN  kept

Without(list, id) == Kept(list, id)[Len(list)]

RemoveBend(c, id) ==
    /\ Editing /\ id \in Shown
    /\ Free(c)
    /\ bends' = Without(bends, id)
    /\ calls' = [calls EXCEPT ![c] = Call("delete", "sent", drawing, id, None)]
    /\ astray' = (astray \/ Open(Lists) # {})
    /\ UNCHANGED <<rows, space, drawing, stored, reference, step, drag, quote, mishaps>>

Created(c) ==
    /\ calls[c].kind = "create" /\ calls[c].phase = "answered"
    /\ bends' = bends \o calls[c].list
    /\ calls' = [calls EXCEPT ![c] = NoCall]
    /\ UNCHANGED <<rows, space, drawing, stored, reference, step, drag, quote, astray, mishaps>>

Written(c) ==
    /\ calls[c].kind \in {"update", "delete"} /\ calls[c].phase = "answered"
    /\ calls' = [calls EXCEPT ![c] = NoCall]
    /\ UNCHANGED <<rows, space, drawing, bends, stored, reference, step, drag, quote, astray, mishaps>>

WriteFailsWithoutReload(c) ==
    /\ calls[c].kind \in Edits /\ calls[c].phase = "failed"
    /\ calls' = [calls EXCEPT ![c] = NoCall]
    /\ UNCHANGED <<rows, space, drawing, bends, stored, reference, step, drag, quote, astray, mishaps>>

\* A failed write reverts by reading the list of the drawing that is open by now.
WriteFails(c) ==
    /\ calls[c].kind \in Edits /\ calls[c].phase = "failed"
    /\ calls' = [calls EXCEPT ![c] = IF drawing = None THEN NoCall
                                     ELSE Call("reload", "sent", drawing, None, None)]
    /\ astray' = (astray \/ Open(Edits \union Lists) # {c})
    /\ UNCHANGED <<rows, space, drawing, bends, stored, reference, step, drag, quote, mishaps>>

Reloaded(c) ==
    /\ calls[c].kind = "reload" /\ calls[c].phase = "answered"
    /\ bends' = calls[c].list
    /\ calls' = [calls EXCEPT ![c] = NoCall]
    /\ UNCHANGED <<rows, space, drawing, stored, reference, step, drag, quote, astray, mishaps>>

ReloadFails(c) ==
    /\ calls[c].kind = "reload" /\ calls[c].phase = "failed"
    /\ calls' = [calls EXCEPT ![c] = NoCall]
    /\ astray' = TRUE
    /\ UNCHANGED <<rows, space, drawing, bends, stored, reference, step, drag, quote, mishaps>>

-----------------------------------------------------------------------------
(* From step to step, and the quote of the result step *)

\* A quote that was asked for is nobody's once its step is left.
Abandoned == [c \in Calls |-> IF calls[c].kind = "quote" THEN NoCall ELSE calls[c]]

LeavingQuote == quote

Leaving == NoQuote("away")

\* Both later steps restore a draft that is not there yet.
GoTo(c, s) ==
    /\ step # s /\ s # "result"
    /\ step' = s
    /\ drag' = None
    /\ quote' = Leaving
    /\ IF s # "upload" /\ drawing = None
       THEN Free(c) /\ calls' = [Abandoned EXCEPT ![c] = Call("stepRestore", "waiting", None, None, None)]
       ELSE calls' = Abandoned
    /\ reference' = IF reference = "none" THEN "loading" ELSE reference
    /\ UNCHANGED <<rows, space, drawing, bends, stored, astray, mishaps>>

\* The quote is asked for when the step is built, or never: without a drawing or a
\* material there is nothing to ask, and nothing asks again.
GoToResult(c) ==
    /\ step # "result"
    /\ step' = "result"
    /\ drag' = None
    /\ IF drawing # None /\ reference = "loaded"
       THEN /\ Free(c)
            /\ calls' = [calls EXCEPT ![c] = Call("quote", "sent", drawing, None, None)]
            /\ quote' = [NoQuote("saving") EXCEPT !.hurried = (\E o \in Calls : calls[o] # NoCall)]
       ELSE /\ quote' = NoQuote("unasked")
            /\ UNCHANGED calls
    /\ UNCHANGED <<rows, space, drawing, bends, stored, reference, astray, mishaps>>

Quoted(c) ==
    /\ calls[c].kind = "quote" /\ calls[c].phase = "answered"
    /\ quote' = [quote EXCEPT !.state = "shown", !.drawing = calls[c].drawing, !.count = Len(calls[c].list)]
    /\ calls' = [calls EXCEPT ![c] = NoCall]
    /\ UNCHANGED <<rows, space, drawing, bends, stored, reference, step, drag, astray, mishaps>>

\* A quote or an upload that fails is reported and can be tried again.
CallFails(c) ==
    /\ calls[c].kind \in {"quote", "upload"} /\ calls[c].phase = "failed"
    /\ quote' = IF calls[c].kind = "quote" THEN [quote EXCEPT !.state = "failed"] ELSE quote
    /\ calls' = [calls EXCEPT ![c] = NoCall]
    /\ UNCHANGED <<rows, space, drawing, bends, stored, reference, step, drag, astray, mishaps>>

\* The page is loaded anew, at the wizard's address or at another from which the customer
\* comes to a step of the wizard: what has been sent goes on without it, and the shell
\* and the step each restore the draft of that load's space.
Reload(c1, c2, n, s) ==
    /\ mishaps < MaxFaults
    /\ mishaps' = mishaps + 1
    /\ c1 # c2
    /\ LET left == {c \in Open(Edits) : calls[c].phase \in {"sent", "abandoned"}} IN
       /\ {c1, c2} \intersect left = {}
       /\ astray' = (astray \/ left # {})
       /\ calls' = [c \in Calls |->
                      CASE c \in left -> [calls[c] EXCEPT !.phase = "abandoned"]
                        [] c = c1 -> Call("restore", "waiting", None, None, None)
                        [] c = c2 /\ s \in {"bends", "material"} ->
                              Call("stepRestore", "waiting", None, None, None)
                        [] OTHER -> NoCall]
    /\ drawing' = None /\ bends' = <<>>
    /\ space' = n /\ step' = s /\ drag' = None
    /\ quote' = NoQuote(IF s = "result" THEN "unasked" ELSE "away")
    /\ reference' = "loading"
    /\ UNCHANGED <<rows, stored>>

-----------------------------------------------------------------------------
(* The server *)

\* The call has been handled and its answer is on its way, if anybody waits for it.
Handled(c, list) ==
    calls' = [calls EXCEPT ![c] = IF @.phase = "abandoned" THEN NoCall
                                  ELSE [@ EXCEPT !.phase = "answered", !.list = list]]

Pending(c, kinds) == calls[c].kind \in kinds /\ calls[c].phase \in {"sent", "abandoned"}

ServeCreate(c, id) ==
    /\ Pending(c, {"create"})
    /\ OfId(id) = {} /\ id \notin Shown \union {drag} \union {calls[o].id : o \in Calls}
    /\ LET new == [id |-> id, drawing |-> calls[c].drawing, place |-> calls[c].place] IN
       /\ rows' = rows \union {new}
       /\ Handled(c, <<new>>)
    /\ UNCHANGED <<space, drawing, bends, stored, reference, step, drag, quote, astray, mishaps>>

\* An edit of a bend that is gone is a 404.
ServeEdit(c) ==
    /\ Pending(c, {"update", "delete"})
    /\ LET old == OfId(calls[c].id) IN
       /\ rows' = (rows \ old) \union
             {[b EXCEPT !.place = calls[c].place] : b \in IF calls[c].kind = "update" THEN old ELSE {}}
       /\ IF old # {} \/ calls[c].phase = "abandoned"
          THEN Handled(c, <<>>) ELSE calls' = [calls EXCEPT ![c].phase = "failed"]
    /\ UNCHANGED <<space, drawing, bends, stored, reference, step, drag, quote, astray, mishaps>>

ServeRead(c) ==
    /\ Pending(c, Lists \union {"quote"})
    /\ Handled(c, Listed(calls[c].drawing))
    /\ UNCHANGED <<rows, space, drawing, bends, stored, reference, step, drag, quote, astray, mishaps>>

ServeUpload(c, d) ==
    /\ Pending(c, {"upload"})
    /\ d \notin {drawing} \union Range(stored) \union {b.drawing : b \in rows \union Range(bends)}
              \union {calls[o].drawing : o \in Calls}
    /\ calls' = [calls EXCEPT ![c].phase = "answered", ![c].drawing = d]
    /\ UNCHANGED <<rows, space, drawing, bends, stored, reference, step, drag, quote, astray, mishaps>>

\* A call is refused or not delivered, or its answer is lost.
Lose(c) ==
    /\ calls[c].phase \in {"sent", "answered"}
    /\ mishaps < MaxFaults
    /\ mishaps' = mishaps + 1
    /\ calls' = [calls EXCEPT ![c].phase = "failed", ![c].list = <<>>]
    /\ UNCHANGED <<rows, space, drawing, bends, stored, reference, step, drag, quote, astray>>

WizardNext ==
    \/ ReferenceArrives \/ ReferenceFails \/ Replace \/ PointerUp
    \/ \E id \in BendIds : PointerDown(id)
    \/ \E c \in Calls :
         \/ Resume(c) \/ Restored(c) \/ RestoreFails(c) \/ Upload(c) \/ SetDrawing(c)
         \/ (\E p \in Places : PointerMove(c, p) \/ Draw(c, p))
         \/ (\E id \in BendIds : RemoveBend(c, id) \/ ServeCreate(c, id))
         \/ Created(c) \/ Written(c) \/ WriteFails(c) \/ Reloaded(c) \/ ReloadFails(c)
         \/ (\E s \in Steps : GoTo(c, s)) \/ GoToResult(c) \/ Quoted(c) \/ CallFails(c)
         \/ (\E o \in Calls : \E n \in Spaces : \E s \in Steps : Reload(c, o, n, s))
         \/ ServeEdit(c) \/ ServeRead(c) \/ (\E d \in Drawings : ServeUpload(c, d)) \/ Lose(c)

WizardSpec == WizardInit /\ [][WizardNext]_wizardVars

-----------------------------------------------------------------------------
(* Properties *)

Settled == Open(Edits \union Lists) = {}

\* Once its calls have been answered, the list on the screen is the server's, bend for
\* bend and none twice, and the draft that the next load of the page restores is the
\* drawing on the screen, if it is a load in the same space: one at the wizard's own
\* address finds what a page loaded under /quotes has kept, and nothing that a page loaded
\* at / or at /login has. The exceptions are the crossings that `astray` names: two edits
\* of one bend at once, an edit next to a list being read, a drawing that changes under
\* either, a failed write among others, a list that cannot be read, a restore that fails
\* next to another, a reload among edits.
ScreenIsSaved ==
    drawing # None /\ Settled /\ ~astray =>
        /\ Range(bends) = {b \in rows : b.drawing = drawing}
        /\ IsInjective(bends)
        /\ Saved = drawing

\* The saved quote is for the drawing and the bends on the screen, unless calls were
\* still under way when it was asked for.
QuoteMatchesScreen ==
    quote.state = "shown" /\ ~quote.hurried /\ ~astray =>
        /\ quote.drawing = drawing
        /\ quote.count = Len(bends)
=============================================================================
