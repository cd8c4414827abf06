-------------------------- MODULE OrderFulfilment ---------------------------
(***************************************************************************)
(* From "Pay" to an order row: CheckoutService, ShippingService,           *)
(* StripeController and OrdersService over one Postgres database, without  *)
(* any transaction that spans two statements.                              *)
(*                                                                         *)
(* A request slot runs one HTTP handler. Each `await` on the database, on  *)
(* Stripe or on Resend ends a step, so an action below is the code between *)
(* two awaits; everything else may happen in between. Reads of rows no     *)
(* code path ever changes (a quote's owner and total, the user), and reads *)
(* whose result goes nowhere but a text, are folded into a step beside.    *)
(***************************************************************************)
EXTENDS Naturals, FiniteSets

CONSTANTS
    Quotes,       \* quote rows, each already created and frozen
    Sessions,     \* Stripe checkout session ids
    Methods,      \* shipping method rows
    Drawings,     \* drawing rows
    Requests,     \* slots for concurrent HTTP handlers
    Tariffs,      \* the kind and rate, in cents, an admin may give a method
    QuoteTotal,   \* quote -> totalCents
    SheetCount,   \* quote -> sheetCount
    DrawingOf,    \* quote -> drawingId
    Outcomes,     \* how a payment may complete: "paid" at once, "unpaid" if delayed
    MaxFaults,    \* bound: failed calls and restarts considered
    None          \* absence of a quote or session

ASSUME ConstantsAssumption ==
    /\ Tariffs \subseteq [kind : {"flat", "per_sheet"}, rate : Nat]
    /\ QuoteTotal \in [Quotes -> Nat]
    /\ SheetCount \in [Quotes -> Nat \ {0}]
    /\ DrawingOf \in [Quotes -> Drawings]
    /\ Outcomes \subseteq {"paid", "unpaid"}
    /\ MaxFaults \in Nat
    /\ None \notin Quotes /\ None \notin Sessions

VARIABLES
    quotes,    \* Quote.status, by quote
    tariffs,   \* ShippingMethod.kind and .rate, by method
    orders,    \* Order rows
    ledger,    \* StripeEvent rows: ids of events recorded
    stamped,   \* quotes whose order has emailSentAt set
    sessions,  \* Stripe: the sessions created, with their metadata
    pay,       \* Stripe: payment state, by session id
    acked,     \* Stripe: events answered with 2xx
    mailed,    \* Resend: quotes for which a confirmation was accepted
    req,       \* the handler each slot runs, and its local variables
    faults     \* failed calls and restarts so far

db     == <<quotes, tariffs, orders, ledger, stamped>>
stripe == <<sessions, pay, acked>>
vars   == <<quotes, tariffs, orders, ledger, stamped, sessions, pay, acked, mailed,
            req, faults>>

QuoteStatus == {"draft", "ordered", "expired"}

\* The two events of a session: it was completed, and a payment that was pending
\* at completion came through later.
EventTypes == {"checkout.session.completed", "checkout.session.async_payment_succeeded"}
Completed  == "checkout.session.completed"
Settled    == "checkout.session.async_payment_succeeded"

\* Where a handler waits. The label names the call it is about to make.
Labels == {"idle", "open", "ledger", "fetch", "find", "insert", "mark",
           "reread", "send", "stamp"}
Flows  == {"none", "checkout", "poll"} \union EventTypes

Cost(t, q) == IF t.kind = "per_sheet" THEN t.rate * SheetCount[q] ELSE t.rate
Costs   == {Cost(t, q) : t \in Tariffs, q \in Quotes}
Amounts == {QuoteTotal[q] + c : q \in Quotes, c \in Costs}

Session == [id : Sessions, quote : Quotes, shipping : Costs, charged : Amounts]
Order   == [quote : Quotes, session : Sessions, total : Amounts]
Request == [pc : Labels, flow : Flows, quote : Quotes \union {None},
            session : Sessions \union {None}, shipping : Costs \union {0},
            seen : QuoteStatus \union {"none"}]

Handler(label, flow, q, s) == [pc |-> label, flow |-> flow, quote |-> q, session |-> s,
                               shipping |-> 0, seen |-> "none"]

Idle == Handler("idle", "none", None, None)

-----------------------------------------------------------------------------
(* Helpers *)

At(r, label)  == req[r].pc = label
Goto(r, label) == req' = [req EXCEPT ![r].pc = label]
Finish(r)     == req' = [req EXCEPT ![r] = Idle]

IsWebhook(r)  == req[r].flow \in EventTypes
Event(r)      == <<req[r].flow, req[r].session>>

HasOrder(q)   == \E o \in orders : o.quote = q
IsPaid(s)     == pay[s] \in {"paid", "settled"}

\* A webhook that has been answered with 200; other handlers answer the browser.
Answer(r) == acked' = IF IsWebhook(r) THEN acked \union {Event(r)} ELSE acked

\* resolveCostCents on the row just read.
ResolveCostCents(m, q) == Cost(tariffs[m], q)

\* Stripe has something to deliver.
Occurred(e) ==
    IF e[1] = Completed THEN pay[e[2]] \in {"unpaid", "paid", "settled"}
                        ELSE pay[e[2]] = "settled"

Init ==
    /\ quotes = [q \in Quotes |-> "draft"]
    /\ tariffs \in [Methods -> Tariffs]
    /\ orders = {}
    /\ ledger = {}
    /\ stamped = {}
    /\ sessions = {}
    /\ pay = [s \in Sessions |-> "none"]
    /\ acked = {}
    /\ mailed = {}
    /\ req = [r \in Requests |-> Idle]
    /\ faults = 0

-----------------------------------------------------------------------------
(* Stripe and the customer: outside the repository, modelled from its use. *)

\* The customer completes the hosted page. A card is "paid" at once; a delayed
\* method completes "unpaid".
Pay(s, outcome) ==
    /\ pay[s] = "open"
    /\ pay' = [pay EXCEPT ![s] = outcome]
    /\ UNCHANGED <<db, sessions, acked, mailed, req, faults>>

\* A delayed payment arrives.
Settle(s) ==
    /\ pay[s] = "unpaid"
    /\ pay' = [pay EXCEPT ![s] = "settled"]
    /\ UNCHANGED <<db, sessions, acked, mailed, req, faults>>

-----------------------------------------------------------------------------
(* CheckoutService.createSession *)

\* findOwned has returned the quote, and with it the status it had then; findOrFail
\* has looked the method up by id, active or not, and resolveCostCents priced it.
StartCheckout(r, q, m) ==
    /\ At(r, "idle")
    /\ req' = [req EXCEPT ![r] =
          [pc |-> "open", flow |-> "checkout", quote |-> q, session |-> None,
           shipping |-> ResolveCostCents(m, q), seen |-> quotes[q]]]
    /\ UNCHANGED <<db, stripe, mailed, faults>>

\* Stripe creates the session: the two line items add up to `charged`, the rest
\* is metadata. Nothing is written to the database.
OpenSession(r, s) ==
    /\ At(r, "open")
    /\ pay[s] = "none"
    /\ sessions' = sessions \union
          {[id |-> s, quote |-> req[r].quote, shipping |-> req[r].shipping,
            charged |-> QuoteTotal[req[r].quote] + req[r].shipping]}
    /\ pay' = [pay EXCEPT ![s] = "open"]
    /\ Finish(r)
    /\ UNCHANGED <<db, acked, mailed, faults>>

\* Stripe is unreachable or returns no url: 502, with nothing persisted.
OpenSessionFails(r) ==
    /\ At(r, "open")
    /\ Finish(r)
    /\ UNCHANGED <<db, stripe, mailed, faults>>

-----------------------------------------------------------------------------
(* Admin and customer edits that touch the rows a checkout reads. *)

UpdateShippingMethod(m, t) ==
    /\ tariffs' = [tariffs EXCEPT ![m] = t]
    /\ UNCHANGED <<quotes, orders, ledger, stamped, stripe, mailed, req, faults>>

ExpirableIgnoringStatus(q, d) == DrawingOf[q] = d

Expirable(q, d) == DrawingOf[q] = d /\ quotes[q] = "draft"

\* A bend of drawing d was written; expireDraftQuotes is a statement of its own.
ExpireDraftQuotes(d) ==
    /\ quotes' = [q \in Quotes |-> IF Expirable(q, d) THEN "expired" ELSE quotes[q]]
    /\ UNCHANGED <<tariffs, orders, ledger, stamped, stripe, mailed, req, faults>>

-----------------------------------------------------------------------------
(* StripeController.handle and handleSessionCompleted *)

\* First delivery, retry or duplicate: the signature checks out and findUnique
\* has not found the event.
DeliverEvent(r, e) ==
    /\ At(r, "idle")
    /\ Occurred(e)
    /\ e \notin ledger
    /\ \E p \in sessions :
          /\ p.id = e[2]
          /\ req' = [req EXCEPT ![r] = Handler("ledger", e[1], p.quote, p.id)]
    /\ UNCHANGED <<db, stripe, mailed, faults>>

RefuseSeenEvent(e) == FALSE

\* alreadySeen: 200 and nothing else.
DeliverSeenEvent(e) ==
    /\ Occurred(e)
    /\ e \in ledger
    /\ acked' = acked \union {e}
    /\ UNCHANGED <<db, sessions, pay, mailed, req, faults>>

RecordEventUpsert(r) ==
    /\ At(r, "ledger")
    /\ ledger' = ledger \union {Event(r)}
    /\ Goto(r, "fetch")
    /\ UNCHANGED <<quotes, tariffs, orders, stamped, stripe, mailed, faults>>

\* stripeEvent.create: the row is written before any work is done for it. P2002
\* is answered with 200; so is an event type the handler does not act on.
RecordEvent(r) ==
    /\ At(r, "ledger")
    /\ ledger' = ledger \union {Event(r)}
    /\ IF Event(r) \notin ledger /\ req[r].flow = Completed
       THEN Goto(r, "fetch") /\ UNCHANGED acked
       ELSE Answer(r) /\ Finish(r)
    /\ UNCHANGED <<quotes, tariffs, orders, stamped, sessions, pay, mailed, faults>>

-----------------------------------------------------------------------------
(* CheckoutService.status *)

\* The return page polls for quote q with a session id from its URL, which may be
\* any session. An existing order is reported and nothing happens, so only the
\* poll that finds none is a step.
StartPoll(r, q, s) ==
    /\ At(r, "idle")
    /\ pay[s] # "none"
    /\ ~ HasOrder(q)
    /\ req' = [req EXCEPT ![r] = Handler("fetch", "poll", q, s)]
    /\ UNCHANGED <<db, stripe, mailed, faults>>

-----------------------------------------------------------------------------
(* retrieveSession, in both flows *)

PaysForUnpaid(r) == \E p \in sessions : p.id = req[r].session /\ p.quote = req[r].quote

PaysForDraft(r) ==
    /\ IsPaid(req[r].session)
    /\ quotes[req[r].quote] = "draft"
    /\ PaysForUnpaid(r)

\* The re-fetched session is paid and is this quote's. The webhook took the quote
\* from the session's own metadata; the poll compares them.
PaysFor(r) ==
    /\ IsPaid(req[r].session)
    /\ \E p \in sessions : p.id = req[r].session /\ p.quote = req[r].quote

RetrieveSession(r) ==
    /\ At(r, "fetch")
    /\ IF PaysFor(r) THEN Goto(r, "find") /\ UNCHANGED acked
                     ELSE Finish(r) /\ Answer(r)
    /\ UNCHANGED <<db, sessions, pay, mailed, faults>>

\* The webhook swallows a failure of the re-fetch and answers 200.
RetrieveSessionFails(r) ==
    /\ At(r, "fetch") /\ IsWebhook(r)
    /\ faults < MaxFaults
    /\ faults' = faults + 1
    /\ Finish(r) /\ Answer(r)
    /\ UNCHANGED <<db, sessions, pay, mailed>>

-----------------------------------------------------------------------------
(* OrdersService.createFromSession, shared by the webhook and the poll *)

\* createFromSession returns: the webhook answers 200, the poll 'confirmed', and
\* the confirmation email goes on detached, in the same slot here.
Return(r) == Goto(r, "send") /\ Answer(r)

FindOrderThenMark(r) ==
    /\ At(r, "find")
    /\ IF HasOrder(req[r].quote) THEN Return(r)
                                 ELSE Goto(r, "mark") /\ UNCHANGED acked
    /\ UNCHANGED <<db, sessions, pay, mailed, faults>>

FindOrder(r) ==
    /\ At(r, "find")
    /\ IF HasOrder(req[r].quote) THEN Return(r)
                                 ELSE Goto(r, "insert") /\ UNCHANGED acked
    /\ UNCHANGED <<db, sessions, pay, mailed, faults>>

NoUniqueViolation(q, s) == FALSE

\* The unique indexes Order.quoteId and Order.stripeSessionId.
UniqueViolation(q, s) == \E o \in orders : o.quote = q \/ o.session = s

\* A row that prices the shipping again.
OrderRowRepriced(p) ==
    [quote |-> p.quote, session |-> p.id,
     total |-> QuoteTotal[p.quote] + ResolveCostCents(CHOOSE m \in Methods : TRUE, p.quote)]

\* totalCents: the quote's frozen total and the shipping in the session's metadata.
OrderRow(p) == [quote |-> p.quote, session |-> p.id,
                total |-> QuoteTotal[p.quote] + p.shipping]

InsertOrder(r) ==
    /\ At(r, "insert")
    /\ ~ UniqueViolation(req[r].quote, req[r].session)
    /\ \E p \in sessions : p.id = req[r].session /\ orders' = orders \union {OrderRow(p)}
    /\ Goto(r, "mark")
    /\ UNCHANGED <<quotes, tariffs, ledger, stamped, stripe, mailed, faults>>

\* P2002: another request won.
InsertConflicts(r) ==
    /\ At(r, "insert")
    /\ UniqueViolation(req[r].quote, req[r].session)
    /\ Goto(r, "reread")
    /\ UNCHANGED <<db, stripe, mailed, faults>>

\* P2002 as well, when a random order or confirmation number is taken.
ReferenceCollides(r) ==
    /\ At(r, "insert")
    /\ faults < MaxFaults
    /\ faults' = faults + 1
    /\ Goto(r, "reread")
    /\ UNCHANGED <<db, stripe, mailed>>

\* The winner's row is returned; with no winner the error is thrown on, to a 500
\* or to the poll's 'pending'.
ReadWinner(r) ==
    /\ At(r, "reread")
    /\ IF HasOrder(req[r].quote) THEN Return(r) ELSE Finish(r) /\ UNCHANGED acked
    /\ UNCHANGED <<db, sessions, pay, mailed, faults>>

MarkDraftOrdered(status) == IF status = "draft" THEN "ordered" ELSE status

\* quote.update sets the status whatever it was.
MarkedStatus(status) == "ordered"

MarkOrdered(r) ==
    /\ At(r, "mark")
    /\ quotes' = [quotes EXCEPT ![req[r].quote] = MarkedStatus(quotes[req[r].quote])]
    /\ Return(r)
    /\ UNCHANGED <<tariffs, orders, ledger, stamped, sessions, pay, mailed, faults>>

-----------------------------------------------------------------------------
(* OrdersService.sendConfirmationEmail *)

StampUnsent(r) ==
    /\ At(r, "send")
    /\ Goto(r, "stamp")
    /\ UNCHANGED <<db, stripe, mailed, faults>>

\* emailSentAt is not consulted before sending.
SendEmail(r) ==
    /\ At(r, "send")
    /\ mailed' = mailed \union {req[r].quote}
    /\ Goto(r, "stamp")
    /\ UNCHANGED <<db, stripe, faults>>

StampEmail(r) ==
    /\ At(r, "stamp")
    /\ stamped' = stamped \union {req[r].quote}
    /\ Finish(r)
    /\ UNCHANGED <<quotes, tariffs, orders, ledger, stripe, mailed, faults>>

-----------------------------------------------------------------------------
(* Failures *)

\* The call a handler awaits is rejected and the handler ends there, with an error
\* answer or none. What it has written stays.
Abort(r) ==
    /\ ~ At(r, "idle")
    /\ faults < MaxFaults
    /\ faults' = faults + 1
    /\ Finish(r)
    /\ UNCHANGED <<db, stripe, mailed>>

\* The process dies: every handler is gone, nothing resumes it.
Restart ==
    /\ \E r \in Requests : ~ At(r, "idle")
    /\ faults < MaxFaults
    /\ faults' = faults + 1
    /\ req' = [r \in Requests |-> Idle]
    /\ UNCHANGED <<db, stripe, mailed>>

-----------------------------------------------------------------------------
HandlerStep(r) ==
    \/ OpenSessionFails(r) \/ \E s \in Sessions : OpenSession(r, s)
    \/ RecordEvent(r) \/ RetrieveSession(r)
    \/ FindOrder(r) \/ InsertOrder(r) \/ InsertConflicts(r) \/ ReadWinner(r)
    \/ MarkOrdered(r)
    \/ SendEmail(r) \/ StampEmail(r)

FaultStep(r) == RetrieveSessionFails(r) \/ ReferenceCollides(r) \/ Abort(r)

Arrival(r) ==
    \/ \E q \in Quotes, m \in Methods : StartCheckout(r, q, m)
    \/ \E q \in Quotes, s \in Sessions : StartPoll(r, q, s)
    \/ \E e \in EventTypes \X Sessions : DeliverEvent(r, e)

Environment ==
    \/ \E s \in Sessions : Settle(s) \/ \E outcome \in Outcomes : Pay(s, outcome)
    \/ \E e \in EventTypes \X Sessions : DeliverSeenEvent(e)
    \/ \E m \in Methods, t \in Tariffs : UpdateShippingMethod(m, t)
    \/ \E d \in Drawings : ExpireDraftQuotes(d)
    \/ Restart

Next ==
    \/ \E r \in Requests : Arrival(r) \/ HandlerStep(r) \/ FaultStep(r)
    \/ Environment

Spec == Init /\ [][Next]_vars

\* A handler that was started runs on. Stripe redelivers an event until it is
\* answered with 2xx. A customer who has paid stays on the return page and presses
\* "check again" when its polls run out. The last two are strong: a slot is free
\* again and again, not for ever.
Redeliver(e) == DeliverSeenEvent(e) \/ \E r \in Requests : DeliverEvent(r, e)

PollForOwn(s) == \E p \in sessions : p.id = s /\ \E r \in Requests : StartPoll(r, p.quote, s)

Progress  == \A r \in Requests : WF_vars(HandlerStep(r))
Delivery  == \A e \in EventTypes \X Sessions : SF_vars(Redeliver(e))
Polling   == \A s \in Sessions : SF_vars(IsPaid(s) /\ PollForOwn(s))

FairSpec == Spec /\ Progress /\ Delivery /\ Polling

-----------------------------------------------------------------------------
(* Properties *)

\* Every row, request and counter has its type, and every sum of money charged or
\* booked is a quote's total plus one shipping cost of the price list.
TypeOK ==
    /\ quotes \in [Quotes -> QuoteStatus]
    /\ tariffs \in [Methods -> Tariffs]
    /\ orders \subseteq Order
    /\ ledger \subseteq EventTypes \X Sessions
    /\ stamped \subseteq Quotes
    /\ sessions \subseteq Session
    /\ pay \in [Sessions -> {"none", "open", "unpaid", "paid", "settled"}]
    /\ acked \subseteq EventTypes \X Sessions
    /\ mailed \subseteq Quotes
    /\ req \in [Requests -> Request]
    /\ faults \in 0 .. MaxFaults

\* However webhooks and polls interleave, a quote has at most one order and a
\* Stripe session pays for at most one.
OneOrderPerQuote ==
    \A o1, o2 \in orders : o1.quote = o2.quote \/ o1.session = o2.session => o1 = o2

\* An order stands for money received: its session is paid, was opened for that
\* very quote, and charged exactly the order's total, whatever an admin did to the
\* price list and whichever session id a poll presented.
OrderMatchesPayment ==
    \A o \in orders : \E p \in sessions :
        p.id = o.session /\ p.quote = o.quote /\ IsPaid(p.id) /\ p.charged = o.total

\* No code path marks a quote as ordered without an order row.
OrderedHasOrder == \A q \in Quotes : quotes[q] = "ordered" => HasOrder(q)

\* As long as no call fails, an order whose quote is not marked as ordered is one
\* whose creator is about to mark it: only a fault can separate the two writes.
UnmarkedOnlyAfterFault ==
    faults = 0 => \A o \in orders :
        quotes[o.quote] = "ordered" \/ \E r \in Requests : At(r, "mark") /\ req[r].quote = o.quote

\* The ledger admits one handler per event, ever: two concurrent deliveries of an
\* event, or one after a restart, never both get to act on it.
PastLedger == {"fetch", "find", "insert", "mark", "reread", "send", "stamp"}

Handles(r, e) == IsWebhook(r) /\ req[r].pc \in PastLedger /\ Event(r) = e

OneHandlerPerEvent ==
    \A r1, r2 \in Requests : IsWebhook(r1) /\ Handles(r2, Event(r1)) =>
        /\ Event(r1) \in ledger
        /\ Handles(r1, Event(r1)) => r1 = r2

\* As long as no call fails, a recorded completion of a session paid at once is
\* never dropped: the quote has its order or the one handler is on its way.
NoSilentDrop ==
    faults = 0 => \A p \in sessions :
        <<Completed, p.id>> \in ledger /\ pay[p.id] = "paid" =>
            HasOrder(p.quote) \/ \E r \in Requests : Handles(r, <<Completed, p.id>>)

\* emailSentAt is set only after Resend took the email, and Resend only ever gets
\* a confirmation of an order that exists.
ConfirmationIsTrue == stamped \subseteq mailed /\ \A q \in mailed : HasOrder(q)

\* An ordered quote stays ordered: a bend edit of its drawing never expires it.
OrderedIsFinal ==
    [][\A q \in Quotes : quotes[q] = "ordered" => quotes'[q] = "ordered"]_vars

\* The two subsystems together implement the promise of module Purchase.
Payments == {[quote |-> p.quote, session |-> p.id, amount |-> p.charged] :
                p \in {p \in sessions : IsPaid(p.id)}}

P == INSTANCE Purchase WITH payments <- Payments

ImplementsPurchase == P!Spec

\* A paid session ends in an order for its quote, by the webhook or by the poll.
PaidIsFulfilled == \A s \in Sessions : IsPaid(s) ~> \A p \in sessions : p.id = s => HasOrder(p.quote)

\* Stripe gets to stop: every event is answered with 2xx in the end.
EveryEventAcknowledged == \A e \in EventTypes \X Sessions : Occurred(e) ~> e \in acked

-----------------------------------------------------------------------------
(* The inductive invariant: why the safety properties hold. *)

\* Stripe: one row per session id, charging the quote's total and its shipping.
SessionRows ==
    /\ \A p1, p2 \in sessions : p1.id = p2.id => p1 = p2
    /\ \A p \in sessions : pay[p.id] # "none"
    /\ \A p \in sessions : p.charged = QuoteTotal[p.quote] + p.shipping

\* A handler holds the ids its next call needs.
CarriesIds(r) ==
    /\ ~ At(r, "idle") => req[r].quote \in Quotes
    /\ At(r, "open") => req[r].shipping \in Costs
    /\ req[r].pc \notin {"idle", "open"} => req[r].session \in Sessions
    /\ At(r, "ledger") => IsWebhook(r)

\* Past retrieveSession the payment is certain, and stays so.
Cleared(r) == req[r].pc \in {"find", "insert"} => PaysFor(r)

\* Past the insert there is an order, and there always will be; past the send, a mail.
Backed(r) ==
    /\ req[r].pc \in {"mark", "send", "stamp"} => HasOrder(req[r].quote)
    /\ At(r, "stamp") => req[r].quote \in mailed

\* The ledger row comes before the work.
Recorded(r) == IsWebhook(r) /\ req[r].pc \in PastLedger => Event(r) \in ledger

\* No two handlers work on one event.
Exclusive == \A r1, r2 \in Requests :
    IsWebhook(r1) /\ req[r1].pc \in PastLedger /\ Handles(r2, Event(r1)) => r1 = r2

HandlersSound ==
    /\ \A r \in Requests : CarriesIds(r) /\ Cleared(r) /\ Backed(r) /\ Recorded(r)
    /\ Exclusive

Books == OneOrderPerQuote /\ OrderMatchesPayment /\ OrderedHasOrder /\ ConfirmationIsTrue

\* The inductive strengthening of the safety properties above.
IInv == TypeOK /\ SessionRows /\ HandlersSound /\ Books

-----------------------------------------------------------------------------
(* What the repository says and the code does not do *)

\* "a Stripe event is acted on exactly once": a completed, paid session whose
\* event was answered with 2xx has its order, or a handler still working on it.
AcknowledgedIsActedOn ==
    \A p \in sessions : <<Completed, p.id>> \in acked /\ pay[p.id] = "paid" =>
        HasOrder(p.quote) \/ \E r \in Requests : Handles(r, <<Completed, p.id>>)

\* Checkout starts from a draft: an expired quote is quoted again and an ordered
\* one is refused, so no session is opened for a quote read in either status.
OnlyDraftsAreCheckedOut ==
    [][\A r \in Requests : At(r, "open") /\ sessions' # sessions /\ req'[r] # req[r]
            => req[r].seen = "draft"]_vars
=============================================================================
