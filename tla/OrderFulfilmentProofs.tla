----------------------- MODULE OrderFulfilmentProofs ------------------------
(***************************************************************************)
(* Safety of OrderFulfilment for any number of quotes, sessions, handlers  *)
(* and faults. The argument is one inductive invariant, IInv: what Stripe  *)
(* says of a payment only ever becomes truer, what the database holds only *)
(* grows, so what a handler learned before an await still holds after it.  *)
(***************************************************************************)
EXTENDS OrderFulfilment, TLAPS

\* Sums of money: what resolveCostCents computes is in the price list, and a quote's
\* total with a cost of the list is a sum that can be charged.
LEMMA CostInList ==
    ASSUME TypeOK, NEW m \in Methods, NEW q \in Quotes
    PROVE  ResolveCostCents(m, q) \in Costs
BY DEF TypeOK, ResolveCostCents, Costs

LEMMA ChargeInAmounts ==
    ASSUME NEW q \in Quotes, NEW c \in Costs
    PROVE  QuoteTotal[q] + c \in Amounts
BY DEF Amounts

\* The request table keeps its type when a handler ends or moves to another call.
LEMMA FinishType ==
    ASSUME TypeOK, NEW r \in Requests, Finish(r)
    PROVE  req' \in [Requests -> Request]
BY DEF TypeOK, Finish, Idle, Handler, Request, Labels, Flows

LEMMA GotoType ==
    ASSUME TypeOK, NEW r \in Requests, NEW label \in Labels, Goto(r, label)
    PROVE  req' \in [Requests -> Request]
BY DEF TypeOK, Goto, Request

\* A handler that ends asks for nothing.
LEMMA FinishSound ==
    ASSUME TypeOK, HandlersSound, NEW r \in Requests, Finish(r),
           UNCHANGED <<sessions, pay, orders, ledger, mailed>>
    PROVE  HandlersSound'
<1>1. ASSUME NEW x \in Requests, x # r PROVE req'[x] = req[x]
  BY <1>1 DEF Finish
<1>2. req'[r] = Idle
  BY DEF TypeOK, Finish
<1>3. ASSUME NEW x \in Requests
      PROVE  (CarriesIds(x) /\ Cleared(x) /\ Backed(x) /\ Recorded(x))'
  <2>1. CASE x = r
    BY <1>2, <2>1 DEF Idle, Handler, CarriesIds, Cleared, Backed, Recorded, At, IsWebhook, PastLedger
  <2>2. CASE x # r
    BY <1>1, <2>2 DEF HandlersSound, CarriesIds, Cleared, Backed, Recorded, At, IsWebhook,
       Event, PaysFor, IsPaid, HasOrder
  <2> QED
    BY <2>1, <2>2
<1>4. Exclusive'
  BY <1>1, <1>2 DEF HandlersSound, Exclusive, Handles, IsWebhook, Event, PastLedger, Idle, Handler
<1> QED
  BY <1>3, <1>4 DEF HandlersSound

\* A handler past the ledger may go on to a call if it holds what the call relies on.
LEMMA GotoSound ==
    ASSUME TypeOK, HandlersSound, NEW r \in Requests, NEW label \in PastLedger,
           req[r].pc \in PastLedger,
           Goto(r, label),
           UNCHANGED <<sessions, pay, ledger>>,
           orders \subseteq orders', mailed \subseteq mailed',
           label \in {"find", "insert"} => PaysFor(r),
           label \in {"mark", "send", "stamp"} => \E o \in orders' : o.quote = req[r].quote,
           label = "stamp" => req[r].quote \in mailed'
    PROVE  HandlersSound'
<1>1. ASSUME NEW x \in Requests, x # r PROVE req'[x] = req[x]
  BY <1>1 DEF Goto
<1>2. /\ req'[r].pc = label /\ req'[r].flow = req[r].flow
      /\ req'[r].quote = req[r].quote /\ req'[r].session = req[r].session
  BY DEF TypeOK, Goto, Request
<1>3. ASSUME NEW x \in Requests
      PROVE  (CarriesIds(x) /\ Cleared(x) /\ Backed(x) /\ Recorded(x))'
  <2>1. CASE x = r
    BY <1>2, <2>1 DEF HandlersSound, CarriesIds, Cleared, Backed, Recorded, At, IsWebhook,
       Event, PastLedger, PaysFor, IsPaid, HasOrder
  <2>2. CASE x # r
    BY <1>1, <2>2 DEF HandlersSound, CarriesIds, Cleared, Backed, Recorded, At, IsWebhook,
       Event, PaysFor, IsPaid, HasOrder
  <2> QED
    BY <2>1, <2>2
<1>4. Exclusive'
  BY <1>1, <1>2 DEF HandlersSound, Exclusive, Handles, IsWebhook, Event
<1> QED
  BY <1>3, <1>4 DEF HandlersSound

\* The books are about rows, payments and mail only.
LEMMA BooksUntouched ==
    ASSUME Books, UNCHANGED <<quotes, orders, stamped, sessions, pay, mailed>>
    PROVE  Books'
BY DEF Books, OneOrderPerQuote, OrderMatchesPayment, OrderedHasOrder, ConfirmationIsTrue,
   HasOrder, IsPaid

LEMMA SessionsUntouched ==
    ASSUME SessionRows, UNCHANGED <<sessions, pay>>
    PROVE  SessionRows'
BY DEF SessionRows

-----------------------------------------------------------------------------
\* The initial state satisfies the invariant.
LEMMA InitIInv == Init => IInv
<1> SUFFICES ASSUME Init PROVE IInv
  OBVIOUS
<1> USE DEF Init, Idle, Handler
<1>1. TypeOK
  BY ConstantsAssumption DEF TypeOK, Request, Labels, Flows, QuoteStatus
<1>2. SessionRows
  BY DEF SessionRows
<1>3. HandlersSound
  BY DEF HandlersSound, CarriesIds, Cleared, Backed, Recorded, Exclusive, At, IsWebhook,
     PastLedger
<1>4. Books
  BY DEF Books, OneOrderPerQuote, OrderMatchesPayment, OrderedHasOrder, ConfirmationIsTrue
<1> QED
  BY <1>1, <1>2, <1>3, <1>4 DEF IInv

-----------------------------------------------------------------------------
\* The checkout handler: a session is opened for the price just computed.
LEMMA StartCheckoutIInv ==
    ASSUME IInv, NEW r \in Requests, NEW q \in Quotes, NEW m \in Methods, StartCheckout(r, q, m)
    PROVE  IInv'
<1> USE DEF IInv, StartCheckout, db, stripe
<1>1. TypeOK'
  BY CostInList DEF TypeOK, Request, Labels, Flows
<1>2. ASSUME NEW x \in Requests
      PROVE  (CarriesIds(x) /\ Cleared(x) /\ Backed(x) /\ Recorded(x))'
  BY CostInList DEF TypeOK, HandlersSound, CarriesIds, Cleared, Backed, Recorded, At, IsWebhook,
     PastLedger, Event, PaysFor, IsPaid, HasOrder
<1>3. Exclusive'
  BY DEF TypeOK, HandlersSound, Exclusive, Handles, IsWebhook, PastLedger, Event
<1> QED
  BY <1>1, <1>2, <1>3, SessionsUntouched, BooksUntouched DEF HandlersSound

LEMMA OpenSessionIInv ==
    ASSUME IInv, NEW r \in Requests, NEW s \in Sessions, OpenSession(r, s)
    PROVE  IInv'
<1> USE DEF IInv, OpenSession, db, stripe
<1>1. req[r].quote \in Quotes /\ req[r].shipping \in Costs
  BY DEF HandlersSound, CarriesIds, At
<1>2. TypeOK'
  BY <1>1, FinishType, ChargeInAmounts DEF TypeOK, Session
<1>3. SessionRows'
  BY DEF TypeOK, SessionRows
<1>4. ASSUME NEW x \in Requests
      PROVE  (CarriesIds(x) /\ Cleared(x) /\ Backed(x) /\ Recorded(x))'
  BY DEF TypeOK, HandlersSound, CarriesIds, Cleared, Backed, Recorded, At, Finish, Idle, Handler,
     IsWebhook, PastLedger, Event, PaysFor, IsPaid, HasOrder
<1>5. Exclusive'
  BY DEF TypeOK, HandlersSound, Exclusive, Handles, Finish, Idle, Handler, IsWebhook,
     PastLedger, Event
<1>6. Books'
  BY DEF TypeOK, Books, OneOrderPerQuote, OrderMatchesPayment, OrderedHasOrder,
     ConfirmationIsTrue, HasOrder, IsPaid
<1> QED
  BY <1>2, <1>3, <1>4, <1>5, <1>6 DEF HandlersSound

LEMMA OpenSessionFailsIInv ==
    ASSUME IInv, NEW r \in Requests, OpenSessionFails(r)
    PROVE  IInv'
<1> USE DEF IInv, OpenSessionFails, db, stripe
<1>1. TypeOK'
  BY FinishType DEF TypeOK
<1> QED
  BY <1>1, FinishSound, SessionsUntouched, BooksUntouched

-----------------------------------------------------------------------------
\* Stripe, the admin, and the customer's other edits: no payment is taken back.
LEMMA PaymentIInv ==
    ASSUME IInv, NEW s \in Sessions,
           Settle(s) \/ \E outcome \in Outcomes : Pay(s, outcome)
    PROVE  IInv'
<1> USE DEF IInv, Settle, Pay, db
<1>1. \E status \in {"unpaid", "paid", "settled"} : pay' = [pay EXCEPT ![s] = status]
  BY ConstantsAssumption
<1>2. \A x \in Sessions : IsPaid(x) => IsPaid(x)'
  BY <1>1 DEF TypeOK, IsPaid
<1>3. TypeOK'
  BY <1>1 DEF TypeOK
<1>4. SessionRows'
  BY <1>1 DEF TypeOK, Session, SessionRows
<1>5. ASSUME NEW x \in Requests
      PROVE  (CarriesIds(x) /\ Cleared(x) /\ Backed(x) /\ Recorded(x))'
  BY <1>2 DEF HandlersSound, CarriesIds, Cleared, Backed, Recorded, At, IsWebhook, Event,
     PaysFor, HasOrder
<1>6. Exclusive'
  BY DEF HandlersSound, Exclusive, Handles, IsWebhook, Event
<1>7. Books'
  BY <1>2 DEF TypeOK, Order, Books, OneOrderPerQuote, OrderMatchesPayment, OrderedHasOrder,
     ConfirmationIsTrue, HasOrder
<1> QED
  BY <1>3, <1>4, <1>5, <1>6, <1>7 DEF HandlersSound

LEMMA UpdateShippingMethodIInv ==
    ASSUME IInv, NEW m \in Methods, NEW t \in Tariffs, UpdateShippingMethod(m, t)
    PROVE  IInv'
<1> USE DEF IInv, UpdateShippingMethod, stripe
<1>1. TypeOK'
  BY DEF TypeOK
<1>2. HandlersSound'
  BY DEF HandlersSound, CarriesIds, Cleared, Backed, Recorded, Exclusive, Handles, At, IsWebhook,
     Event, PaysFor, IsPaid, HasOrder
<1> QED
  BY <1>1, <1>2, SessionsUntouched, BooksUntouched

LEMMA ExpireDraftQuotesIInv ==
    ASSUME IInv, NEW d \in Drawings, ExpireDraftQuotes(d)
    PROVE  IInv'
<1> USE DEF IInv, ExpireDraftQuotes, stripe
<1>1. TypeOK'
  BY DEF TypeOK, QuoteStatus
<1>2. HandlersSound'
  BY DEF HandlersSound, CarriesIds, Cleared, Backed, Recorded, Exclusive, Handles, At, IsWebhook,
     Event, PaysFor, IsPaid, HasOrder
<1>3. Books'
  BY DEF TypeOK, Books, OneOrderPerQuote, OrderMatchesPayment, OrderedHasOrder,
     ConfirmationIsTrue, HasOrder, IsPaid
<1> QED
  BY <1>1, <1>2, <1>3, SessionsUntouched

-----------------------------------------------------------------------------
\* The webhook: the ledger row makes a handler the only one of its event.
LEMMA DeliverEventIInv ==
    ASSUME IInv, NEW r \in Requests, NEW e \in EventTypes \X Sessions, DeliverEvent(r, e)
    PROVE  IInv'
<1> USE DEF IInv, DeliverEvent, db, stripe
<1>1. PICK p \in sessions : /\ p.id = e[2]
                            /\ req' = [req EXCEPT ![r] = Handler("ledger", e[1], p.quote, p.id)]
  OBVIOUS
<1>2. p.quote \in Quotes /\ p.id \in Sessions /\ e[1] \in EventTypes
  BY DEF TypeOK, Session
<1>3. TypeOK'
  BY <1>1, <1>2 DEF TypeOK, Request, Labels, Flows, Handler
<1>4. ASSUME NEW x \in Requests
      PROVE  (CarriesIds(x) /\ Cleared(x) /\ Backed(x) /\ Recorded(x))'
  BY <1>1, <1>2 DEF TypeOK, HandlersSound, CarriesIds, Cleared, Backed, Recorded, At, Handler,
     IsWebhook, PastLedger, Event, PaysFor, IsPaid, HasOrder
<1>5. Exclusive'
  BY <1>1 DEF TypeOK, HandlersSound, Exclusive, Handles, Handler, IsWebhook, PastLedger, Event
<1> QED
  BY <1>3, <1>4, <1>5, SessionsUntouched, BooksUntouched DEF HandlersSound

LEMMA DeliverSeenEventIInv ==
    ASSUME IInv, NEW e \in EventTypes \X Sessions, DeliverSeenEvent(e)
    PROVE  IInv'
<1> USE DEF IInv, DeliverSeenEvent, db
<1>1. TypeOK'
  BY DEF TypeOK
<1>2. HandlersSound'
  BY DEF HandlersSound, CarriesIds, Cleared, Backed, Recorded, Exclusive, Handles, At, IsWebhook,
     Event, PaysFor, IsPaid, HasOrder
<1> QED
  BY <1>1, <1>2, SessionsUntouched, BooksUntouched

\* Answering an event keeps the type of acked.
LEMMA AnswerType ==
    ASSUME TypeOK, NEW r \in Requests, CarriesIds(r), req[r].pc \notin {"idle", "open"}, Answer(r)
    PROVE  acked' \subseteq EventTypes \X Sessions
BY DEF TypeOK, CarriesIds, Answer, IsWebhook, Event

LEMMA RecordEventIInv ==
    ASSUME IInv, NEW r \in Requests, RecordEvent(r)
    PROVE  IInv'
<1> USE DEF IInv, RecordEvent
<1>1. /\ CarriesIds(r) /\ req[r].pc = "ledger" /\ IsWebhook(r)
      /\ Event(r) \in EventTypes \X Sessions
  BY DEF HandlersSound, CarriesIds, At, IsWebhook, Event
<1>2. SessionRows' /\ Books'
  BY SessionsUntouched, BooksUntouched
<1>3. CASE Event(r) \notin ledger /\ req[r].flow = Completed
  <2>1. Goto(r, "fetch") /\ UNCHANGED acked
    BY <1>3
  <2>2. TypeOK'
    BY <1>1, <2>1, GotoType DEF TypeOK, Labels
  <2>3. ASSUME NEW x \in Requests, x # r PROVE req'[x] = req[x]
    BY <2>1, <2>3 DEF Goto
  <2>4. /\ req'[r].pc = "fetch" /\ req'[r].flow = req[r].flow
        /\ req'[r].quote = req[r].quote /\ req'[r].session = req[r].session
    BY <2>1 DEF TypeOK, Goto, Request
  <2>5. ASSUME NEW x \in Requests
        PROVE  (CarriesIds(x) /\ Cleared(x) /\ Backed(x) /\ Recorded(x))'
    BY <1>1, <2>3, <2>4 DEF HandlersSound, CarriesIds, Cleared, Backed, Recorded, At,
       IsWebhook, PastLedger, Event, PaysFor, IsPaid, HasOrder
  <2>6. ASSUME NEW x \in Requests, x # r PROVE ~ Handles(x, Event(r))
    BY <1>3 DEF HandlersSound, Handles, Recorded
  <2>7. Exclusive'
    BY <1>1, <2>3, <2>4, <2>6 DEF HandlersSound, Exclusive, Handles, IsWebhook, Event
  <2> QED
    BY <1>2, <2>2, <2>5, <2>7 DEF HandlersSound
<1>4. CASE ~ (Event(r) \notin ledger /\ req[r].flow = Completed)
  <2>1. Answer(r) /\ Finish(r)
    BY <1>4
  <2>2. TypeOK'
    BY <1>1, <2>1, FinishType, AnswerType DEF TypeOK
  <2>3. ASSUME NEW x \in Requests, x # r PROVE req'[x] = req[x]
    BY <2>1, <2>3 DEF Finish
  <2>4. req'[r] = Idle
    BY <2>1 DEF TypeOK, Finish
  <2>5. ASSUME NEW x \in Requests
        PROVE  (CarriesIds(x) /\ Cleared(x) /\ Backed(x) /\ Recorded(x))'
    BY <2>3, <2>4 DEF HandlersSound, CarriesIds, Cleared, Backed, Recorded, At, Idle, Handler,
       IsWebhook, PastLedger, Event, PaysFor, IsPaid, HasOrder
  <2>6. Exclusive'
    BY <2>3, <2>4 DEF HandlersSound, Exclusive, Handles, IsWebhook, Event, PastLedger, Idle,
       Handler
  <2> QED
    BY <1>2, <2>2, <2>5, <2>6 DEF HandlersSound
<1> QED
  BY <1>3, <1>4

-----------------------------------------------------------------------------
\* The poll, and the re-fetch it shares with the webhook.
LEMMA StartPollIInv ==
    ASSUME IInv, NEW r \in Requests, NEW q \in Quotes, NEW s \in Sessions, StartPoll(r, q, s)
    PROVE  IInv'
<1> USE DEF IInv, StartPoll, db, stripe
<1>1. TypeOK'
  BY DEF TypeOK, Request, Labels, Flows, Handler
<1>2. ASSUME NEW x \in Requests
      PROVE  (CarriesIds(x) /\ Cleared(x) /\ Backed(x) /\ Recorded(x))'
  BY DEF TypeOK, HandlersSound, CarriesIds, Cleared, Backed, Recorded, At, Handler,
     IsWebhook, EventTypes, PastLedger, Event, PaysFor, IsPaid, HasOrder
<1>3. Exclusive'
  BY DEF TypeOK, HandlersSound, Exclusive, Handles, Handler, IsWebhook, EventTypes, PastLedger,
     Event
<1> QED
  BY <1>1, <1>2, <1>3, SessionsUntouched, BooksUntouched DEF HandlersSound

LEMMA RetrieveSessionIInv ==
    ASSUME IInv, NEW r \in Requests, RetrieveSession(r)
    PROVE  IInv'
<1> USE DEF IInv, RetrieveSession, db
<1>1. CarriesIds(r) /\ req[r].pc = "fetch"
  BY DEF HandlersSound, At
<1>2. TypeOK'
  BY <1>1, GotoType, FinishType, AnswerType DEF TypeOK, Labels
<1>3. HandlersSound'
  BY <1>1, GotoSound, FinishSound DEF PastLedger
<1> QED
  BY <1>2, <1>3, SessionsUntouched, BooksUntouched

LEMMA RetrieveSessionFailsIInv ==
    ASSUME IInv, NEW r \in Requests, RetrieveSessionFails(r)
    PROVE  IInv'
<1> USE DEF IInv, RetrieveSessionFails, db
<1>1. CarriesIds(r) /\ req[r].pc = "fetch"
  BY DEF HandlersSound, At
<1>2. TypeOK'
  BY <1>1, ConstantsAssumption, FinishType, AnswerType DEF TypeOK
<1>3. HandlersSound'
  BY FinishSound
<1> QED
  BY <1>2, <1>3, SessionsUntouched, BooksUntouched

-----------------------------------------------------------------------------
\* createFromSession.
LEMMA FindOrderIInv ==
    ASSUME IInv, NEW r \in Requests, FindOrder(r)
    PROVE  IInv'
<1> USE DEF IInv, FindOrder, db
<1>1. CarriesIds(r) /\ PaysFor(r) /\ req[r].pc = "find"
  BY DEF HandlersSound, Cleared, At
<1>2. TypeOK'
  BY <1>1, GotoType, AnswerType DEF TypeOK, Labels, Return
<1>3. HandlersSound'
  BY <1>1, GotoSound DEF PastLedger, Return, HasOrder
<1> QED
  BY <1>2, <1>3, SessionsUntouched, BooksUntouched

LEMMA InsertOrderIInv ==
    ASSUME IInv, NEW r \in Requests, InsertOrder(r)
    PROVE  IInv'
<1> USE DEF IInv, InsertOrder, stripe
<1>1. PaysFor(r) /\ req[r].pc = "insert"
  BY DEF HandlersSound, Cleared, At
<1>2. PICK p \in sessions : p.id = req[r].session /\ orders' = orders \union {OrderRow(p)}
  OBVIOUS
<1>3. p.quote = req[r].quote /\ IsPaid(p.id)
  BY <1>1, <1>2 DEF PaysFor, SessionRows
<1>4. /\ p \in Session
      /\ OrderRow(p).quote = p.quote /\ OrderRow(p).session = p.id
      /\ OrderRow(p).total = p.charged
  BY DEF TypeOK, SessionRows, OrderRow
<1>5. OrderRow(p) \in Order
  BY ChargeInAmounts DEF TypeOK, Session, Order, OrderRow
<1>6. TypeOK'
  BY <1>2, <1>5, GotoType DEF TypeOK, Labels
<1>7. HandlersSound'
  <2>1. \E o \in orders' : o.quote = req[r].quote
    BY <1>2, <1>3, <1>4
  <2> QED
    BY <1>1, <1>2, <2>1, GotoSound DEF PastLedger
<1>8. OneOrderPerQuote'
  BY <1>2, <1>3, <1>4 DEF Books, OneOrderPerQuote, UniqueViolation
<1>9. OrderMatchesPayment'
  BY <1>2, <1>3, <1>4 DEF Books, OrderMatchesPayment, IsPaid
<1>10. OrderedHasOrder' /\ ConfirmationIsTrue'
  BY <1>2 DEF Books, OrderedHasOrder, ConfirmationIsTrue, HasOrder
<1> QED
  BY <1>6, <1>7, <1>8, <1>9, <1>10, SessionsUntouched DEF Books

LEMMA LostInsertIInv ==
    ASSUME IInv, NEW r \in Requests, InsertConflicts(r) \/ ReferenceCollides(r)
    PROVE  IInv'
<1> USE DEF IInv, InsertConflicts, ReferenceCollides, db, stripe
<1>1. req[r].pc = "insert" /\ Goto(r, "reread")
  BY DEF At
<1>2. TypeOK'
  <2>1. req' \in [Requests -> Request]
    BY <1>1, GotoType DEF Labels
  <2>2. faults' \in 0 .. MaxFaults
    BY ConstantsAssumption DEF TypeOK
  <2> QED
    BY <2>1, <2>2 DEF TypeOK
<1>3. HandlersSound'
  BY <1>1, GotoSound DEF PastLedger
<1> QED
  BY <1>2, <1>3, SessionsUntouched, BooksUntouched

LEMMA ReadWinnerIInv ==
    ASSUME IInv, NEW r \in Requests, ReadWinner(r)
    PROVE  IInv'
<1> USE DEF IInv, ReadWinner, db
<1>1. CarriesIds(r) /\ req[r].pc = "reread"
  BY DEF HandlersSound, At
<1>2. TypeOK'
  BY <1>1, GotoType, FinishType, AnswerType DEF TypeOK, Labels, Return
<1>3. HandlersSound'
  BY <1>1, GotoSound, FinishSound DEF PastLedger, Return, HasOrder
<1> QED
  BY <1>2, <1>3, SessionsUntouched, BooksUntouched

LEMMA MarkOrderedIInv ==
    ASSUME IInv, NEW r \in Requests, MarkOrdered(r)
    PROVE  IInv'
<1> USE DEF IInv, MarkOrdered, MarkedStatus
<1>1. /\ CarriesIds(r) /\ req[r].pc = "mark" /\ Goto(r, "send") /\ Answer(r)
      /\ HasOrder(req[r].quote)
  BY DEF HandlersSound, Backed, At, Return
<1>2. TypeOK'
  BY <1>1, GotoType, AnswerType DEF TypeOK, Labels, QuoteStatus
<1>3. HandlersSound'
  BY <1>1, GotoSound DEF PastLedger, HasOrder
<1>4. Books'
  BY <1>1 DEF TypeOK, Books, OneOrderPerQuote, OrderMatchesPayment, OrderedHasOrder,
     ConfirmationIsTrue, HasOrder, IsPaid
<1> QED
  BY <1>2, <1>3, <1>4, SessionsUntouched

-----------------------------------------------------------------------------
\* sendConfirmationEmail.
LEMMA SendEmailIInv ==
    ASSUME IInv, NEW r \in Requests, SendEmail(r)
    PROVE  IInv'
<1> USE DEF IInv, SendEmail, db, stripe
<1>1. /\ CarriesIds(r) /\ req[r].pc = "send" /\ req[r].quote \in Quotes
      /\ HasOrder(req[r].quote)
  BY DEF HandlersSound, CarriesIds, Backed, At
<1>2. TypeOK'
  BY <1>1, GotoType DEF TypeOK, Labels
<1>3. HandlersSound'
  BY <1>1, GotoSound DEF PastLedger, HasOrder
<1>4. Books'
  BY <1>1 DEF Books, OneOrderPerQuote, OrderMatchesPayment, OrderedHasOrder, ConfirmationIsTrue,
     HasOrder, IsPaid
<1> QED
  BY <1>2, <1>3, <1>4, SessionsUntouched

\* A handler at "stamp" has sent: this is what makes emailSentAt true.
LEMMA StampEmailIInv ==
    ASSUME IInv, NEW r \in Requests, StampEmail(r)
    PROVE  IInv'
<1> USE DEF IInv, StampEmail, stripe
<1>1. req[r].pc = "stamp" /\ req[r].quote \in Quotes /\ req[r].quote \in mailed
  BY DEF HandlersSound, CarriesIds, Backed, At
<1>2. TypeOK'
  BY <1>1, FinishType DEF TypeOK
<1>3. HandlersSound'
  BY FinishSound
<1>4. Books'
  BY <1>1 DEF Books, OneOrderPerQuote, OrderMatchesPayment, OrderedHasOrder, ConfirmationIsTrue,
     HasOrder, IsPaid
<1> QED
  BY <1>2, <1>3, <1>4, SessionsUntouched

-----------------------------------------------------------------------------
\* Failures: what a handler has written stays, and that is sound.
LEMMA AbortIInv ==
    ASSUME IInv, NEW r \in Requests, Abort(r)
    PROVE  IInv'
<1> USE DEF IInv, Abort, db, stripe
<1>1. TypeOK'
  BY ConstantsAssumption, FinishType DEF TypeOK
<1> QED
  BY <1>1, FinishSound, SessionsUntouched, BooksUntouched

LEMMA RestartIInv ==
    ASSUME IInv, Restart
    PROVE  IInv'
<1> USE DEF IInv, Restart, db, stripe
<1>1. TypeOK'
  BY ConstantsAssumption DEF TypeOK, Request, Labels, Flows, Idle, Handler
<1>2. HandlersSound'
  BY DEF HandlersSound, CarriesIds, Cleared, Backed, Recorded, Exclusive, At, IsWebhook,
     PastLedger, Idle, Handler
<1> QED
  BY <1>1, <1>2, SessionsUntouched, BooksUntouched

-----------------------------------------------------------------------------
\* Every step preserves the invariant.
LEMMA NextIInv == IInv /\ [Next]_vars => IInv'
<1> SUFFICES ASSUME IInv, [Next]_vars PROVE IInv'
  OBVIOUS
<1>1. ASSUME NEW r \in Requests, Arrival(r) PROVE IInv'
  BY <1>1, StartCheckoutIInv, StartPollIInv, DeliverEventIInv DEF Arrival
<1>2. ASSUME NEW r \in Requests, HandlerStep(r) PROVE IInv'
  BY <1>2, OpenSessionIInv, OpenSessionFailsIInv, RecordEventIInv, RetrieveSessionIInv,
     FindOrderIInv, InsertOrderIInv, LostInsertIInv, ReadWinnerIInv, MarkOrderedIInv,
     SendEmailIInv, StampEmailIInv DEF HandlerStep
<1>3. ASSUME NEW r \in Requests, FaultStep(r) PROVE IInv'
  BY <1>3, RetrieveSessionFailsIInv, LostInsertIInv, AbortIInv DEF FaultStep
<1>4. CASE Environment
  BY <1>4, PaymentIInv, DeliverSeenEventIInv, UpdateShippingMethodIInv, ExpireDraftQuotesIInv,
     RestartIInv DEF Environment
<1>5. CASE UNCHANGED vars
  BY <1>5 DEF vars, db, stripe, IInv, TypeOK, SessionRows, HandlersSound, CarriesIds, Cleared,
     Backed, Recorded, Exclusive, Handles, Books, OneOrderPerQuote, OrderMatchesPayment,
     OrderedHasOrder, ConfirmationIsTrue, At, IsWebhook, Event, PaysFor, IsPaid, HasOrder
<1> QED
  BY <1>1, <1>2, <1>3, <1>4, <1>5 DEF Next

\* The inductive invariant holds in every reachable state.
THEOREM Invariant == Spec => []IInv
BY InitIInv, NextIInv, PTL DEF Spec

-----------------------------------------------------------------------------
\* Every row and request keeps its type, and every amount charged or booked is a
\* quote's total plus one shipping cost of the price list.
THEOREM TypeCorrect == Spec => []TypeOK
<1>1. IInv => TypeOK
  BY DEF IInv
<1> QED
  BY <1>1, Invariant, PTL

\* Webhooks and polls, however many and however they interleave, leave one order
\* per quote and one per Stripe session.
THEOREM NoDoubleOrder == Spec => []OneOrderPerQuote
<1>1. IInv => OneOrderPerQuote
  BY DEF IInv, Books
<1> QED
  BY <1>1, Invariant, PTL

\* Every order is backed by a payment for its own quote, of its own total.
THEOREM OrdersArePaid == Spec => []OrderMatchesPayment
<1>1. IInv => OrderMatchesPayment
  BY DEF IInv, Books
<1> QED
  BY <1>1, Invariant, PTL

\* A quote is marked as ordered only when its order exists.
THEOREM MarkedAfterOrder == Spec => []OrderedHasOrder
<1>1. IInv => OrderedHasOrder
  BY DEF IInv, Books
<1> QED
  BY <1>1, Invariant, PTL

\* The ledger lets one handler work on an event, ever.
THEOREM LedgerIsExclusive == Spec => []OneHandlerPerEvent
<1>1. IInv => OneHandlerPerEvent
  BY DEF IInv, HandlersSound, Recorded, Exclusive, OneHandlerPerEvent, Handles
<1> QED
  BY <1>1, Invariant, PTL

\* A confirmation is mailed for an order that exists, and stamped once mailed.
THEOREM ConfirmationsAreTrue == Spec => []ConfirmationIsTrue
<1>1. IInv => ConfirmationIsTrue
  BY DEF IInv, Books
<1> QED
  BY <1>1, Invariant, PTL

-----------------------------------------------------------------------------
\* An ordered quote stays ordered, whatever bends are edited: only MarkOrdered and
\* ExpireDraftQuotes write a status, and the latter passes over ordered quotes.
THEOREM OrderedStays == Spec => OrderedIsFinal
<1>1. TypeOK /\ [Next]_vars =>
          [\A q \in Quotes : quotes[q] = "ordered" => quotes'[q] = "ordered"]_vars
  <2> SUFFICES ASSUME TypeOK, Next, NEW q \in Quotes, quotes[q] = "ordered"
               PROVE  quotes'[q] = "ordered"
    OBVIOUS
  <2>1. CASE \E d \in Drawings : ExpireDraftQuotes(d)
    BY <2>1 DEF ExpireDraftQuotes, Expirable
  <2>2. CASE \E r \in Requests : MarkOrdered(r)
    BY <2>2 DEF TypeOK, MarkOrdered, MarkedStatus
  <2>3. CASE UNCHANGED quotes
    BY <2>3
  <2>4. ASSUME NEW r \in Requests, Arrival(r) \/ FaultStep(r) PROVE UNCHANGED quotes
    BY <2>4 DEF Arrival, FaultStep, StartCheckout, StartPoll, DeliverEvent,
       RetrieveSessionFails, ReferenceCollides, Abort, db
  <2>5. ASSUME NEW r \in Requests, HandlerStep(r) PROVE MarkOrdered(r) \/ UNCHANGED quotes
    BY <2>5 DEF HandlerStep, OpenSession, OpenSessionFails, RecordEvent, RetrieveSession,
       FindOrder, InsertOrder, InsertConflicts, ReadWinner, SendEmail, StampEmail, db
  <2>6. CASE Environment
    BY <2>1, <2>3, <2>6 DEF Environment, Settle, Pay, DeliverSeenEvent, UpdateShippingMethod,
       Restart, db
  <2> QED
    BY <2>2, <2>3, <2>4, <2>5, <2>6 DEF Next
<1> QED
  BY <1>1, TypeCorrect, PTL DEF Spec, OrderedIsFinal

-----------------------------------------------------------------------------
(* OrderFulfilment implements Purchase. *)

\* A payment that comes through is a payment of Purchase, and the first of its session.
LEMMA PaymentRefines ==
    ASSUME IInv, NEW s \in Sessions, NEW status \in {"unpaid", "paid", "settled"},
           ~ IsPaid(s), pay' = [pay EXCEPT ![s] = status], UNCHANGED <<sessions, orders>>
    PROVE  [P!Next]_P!vars
<1>1. \A x \in Sessions : x # s => pay'[x] = pay[x]
  OBVIOUS
<1>2. pay'[s] = status
  BY DEF IInv, TypeOK
<1>3. \A p \in sessions : p \in Session
  BY DEF IInv, TypeOK
<1>4. CASE status = "unpaid" \/ ~ \E p \in sessions : p.id = s
  <2>1. \A p \in sessions : IsPaid(p.id)' <=> IsPaid(p.id)
    BY <1>1, <1>2, <1>3, <1>4 DEF IsPaid, Session
  <2> QED
    BY <2>1 DEF P!vars, Payments
<1>5. CASE status # "unpaid" /\ \E p \in sessions : p.id = s
  <2>1. PICK p \in sessions : p.id = s
    BY <1>5
  <2> DEFINE paid == [quote |-> p.quote, session |-> p.id, amount |-> p.charged]
  <2>2. paid \in P!Payment
    BY <1>3 DEF P!Payment, Session
  <2>3. \A earlier \in Payments : earlier.session # paid.session
    BY <2>1 DEF Payments
  <2>4. \A x \in sessions : IsPaid(x.id)' <=> IsPaid(x.id) \/ x = p
    BY <1>1, <1>2, <1>3, <1>5, <2>1 DEF IInv, SessionRows, IsPaid, Session
  <2>5. Payments' = Payments \union {paid}
    BY <2>4 DEF Payments
  <2>6. P!Pay(paid)
    BY <2>3, <2>5 DEF P!Pay
  <2> QED
    BY <2>2, <2>6 DEF P!Next
<1> QED
  BY <1>4, <1>5

\* The insert is the fulfilment of a payment.
LEMMA InsertRefines ==
    ASSUME IInv, NEW r \in Requests, InsertOrder(r)
    PROVE  [P!Next]_P!vars
<1>1. PaysFor(r)
  BY DEF IInv, HandlersSound, Cleared, InsertOrder, At
<1>2. PICK p \in sessions : p.id = req[r].session /\ orders' = orders \union {OrderRow(p)}
  BY DEF InsertOrder
<1>3. p.quote = req[r].quote /\ IsPaid(p.id)
  BY <1>1, <1>2 DEF IInv, PaysFor, SessionRows
<1> DEFINE paid == [quote |-> p.quote, session |-> p.id, amount |-> p.charged]
<1>4. paid \in P!Payment /\ paid \in Payments
  BY <1>3 DEF IInv, TypeOK, P!Payment, Session, Payments
<1>5. \A o \in orders : o.quote # paid.quote
  BY <1>2, <1>3 DEF InsertOrder, UniqueViolation
<1>6. OrderRow(p) = [quote |-> paid.quote, session |-> paid.session, total |-> paid.amount]
  BY DEF IInv, SessionRows, OrderRow
<1>7. UNCHANGED Payments
  BY DEF InsertOrder, stripe, Payments, IsPaid
<1> QED
  BY <1>2, <1>4, <1>5, <1>6, <1>7 DEF P!Next, P!Fulfil

\* A session just opened is not paid yet.
LEMMA OpenRefines ==
    ASSUME IInv, NEW r \in Requests, NEW s \in Sessions, OpenSession(r, s)
    PROVE  UNCHANGED P!vars
<1>1. \A x \in Sessions : IsPaid(x)' <=> IsPaid(x)
  BY DEF IInv, TypeOK, OpenSession, IsPaid
<1>2. PICK new \in [id : {s}, quote : Quotes, shipping : Costs, charged : Amounts] :
         sessions' = sessions \union {new}
  BY ChargeInAmounts DEF IInv, HandlersSound, CarriesIds, At, OpenSession
<1>3. ~ IsPaid(s)
  BY DEF OpenSession, IsPaid
<1>4. \A x \in sessions' : IsPaid(x.id)' <=> x \in sessions /\ IsPaid(x.id)
  BY <1>1, <1>2, <1>3 DEF IInv, TypeOK, Session
<1> QED
  BY <1>2, <1>4 DEF P!vars, Payments, OpenSession, db

\* With the payments Stripe holds for `payments`, every behaviour of the handlers is
\* a behaviour of Purchase: money is never booked twice, early or in another amount.
THEOREM Refinement == Spec => ImplementsPurchase
<1>1. Init => P!Init
  BY DEF Init, P!Init, Payments
<1>2. IInv /\ [Next]_vars => [P!Next]_P!vars
  <2> SUFFICES ASSUME IInv, [Next]_vars PROVE [P!Next]_P!vars
    OBVIOUS
  <2>1. CASE UNCHANGED <<sessions, pay, orders>>
    BY <2>1 DEF P!vars, Payments, IsPaid
  <2>2. ASSUME NEW s \in Sessions, Settle(s) \/ \E outcome \in Outcomes : Pay(s, outcome)
        PROVE  [P!Next]_P!vars
    <3>1. \E status \in {"unpaid", "paid", "settled"} : pay' = [pay EXCEPT ![s] = status]
      BY <2>2, ConstantsAssumption DEF Settle, Pay
    <3>2. ~ IsPaid(s) /\ UNCHANGED <<sessions, orders>>
      BY <2>2 DEF Settle, Pay, IsPaid, db
    <3> QED
      BY <3>1, <3>2, PaymentRefines
  <2>3. ASSUME NEW r \in Requests, Arrival(r) \/ FaultStep(r)
        PROVE  UNCHANGED <<sessions, pay, orders>>
    BY <2>3 DEF Arrival, FaultStep, StartCheckout, StartPoll, DeliverEvent,
       RetrieveSessionFails, ReferenceCollides, Abort, db, stripe
  <2>4. ASSUME NEW r \in Requests, HandlerStep(r) PROVE [P!Next]_P!vars
    <3>1. CASE InsertOrder(r) \/ \E s \in Sessions : OpenSession(r, s)
      BY <3>1, InsertRefines, OpenRefines
    <3>2. CASE ~ InsertOrder(r) /\ ~ \E s \in Sessions : OpenSession(r, s)
      <4>1. UNCHANGED <<sessions, pay, orders>>
        BY <2>4, <3>2 DEF HandlerStep, OpenSessionFails, RecordEvent, RetrieveSession, FindOrder,
           InsertConflicts, ReadWinner, MarkOrdered, SendEmail, StampEmail, db, stripe
      <4> QED
        BY <2>1, <4>1
    <3> QED
      BY <3>1, <3>2
  <2>5. CASE Environment
    <3>1. \/ UNCHANGED <<sessions, pay, orders>>
          \/ \E s \in Sessions : Settle(s) \/ \E outcome \in Outcomes : Pay(s, outcome)
      BY <2>5 DEF Environment, DeliverSeenEvent, UpdateShippingMethod, ExpireDraftQuotes, Restart,
         db, stripe
    <3> QED
      BY <2>1, <2>2, <3>1
  <2> QED
    BY <2>1, <2>3, <2>4, <2>5 DEF Next, vars
<1> QED
  BY <1>1, <1>2, Invariant, PTL DEF Spec, ImplementsPurchase, P!Spec

-----------------------------------------------------------------------------
(* What is lost only by a fault *)

\* A webhook works for a session that was completed, and on the quote of that session.
Origins ==
    /\ \A r \in Requests : IsWebhook(r) =>
          /\ \E p \in sessions : p.id = req[r].session /\ p.quote = req[r].quote
          /\ pay[req[r].session] \notin {"none", "open"}
    /\ \A s \in Sessions : <<Completed, s>> \in ledger => pay[s] \notin {"none", "open"}

\* Without a fault, an insert is refused only because the order is there.
LostToAnOrder == faults = 0 => \A r \in Requests : At(r, "reread") => HasOrder(req[r].quote)

LossInv == Origins /\ LostToAnOrder /\ UnmarkedOnlyAfterFault /\ NoSilentDrop

LEMMA Ends ==
  ASSUME TypeOK, NEW r \in Requests, Finish(r)
  PROVE  /\ \A x \in Requests \ {r} : req'[x] = req[x]
         /\ req'[r].pc = "idle" /\ req'[r].flow = "none"
BY DEF TypeOK, Finish, Idle, Handler

LEMMA Moves ==
  ASSUME TypeOK, NEW r \in Requests, NEW label, Goto(r, label)
  PROVE  /\ \A x \in Requests \ {r} : req'[x] = req[x]
         /\ req'[r].pc = label /\ req'[r].flow = req[r].flow
         /\ req'[r].session = req[r].session /\ req'[r].quote = req[r].quote
BY DEF TypeOK, Goto, Request

\* The session of a handler of a completion has the handler's quote.
LEMMA HandlersQuote ==
  ASSUME IInv, LossInv, NEW r \in Requests, NEW p \in sessions, Handles(r, <<Completed, p.id>>)
  PROVE  req[r].session = p.id /\ req[r].quote = p.quote
<1>1. IsWebhook(r) /\ req[r].session = p.id
  BY DEF Handles, Event
<1>2. PICK o \in sessions : o.id = req[r].session /\ o.quote = req[r].quote
  BY <1>1 DEF LossInv, Origins
<1> QED BY <1>1, <1>2 DEF IInv, SessionRows

\* One handler goes on, without a fault: what it owes to show.
LEMMA HandlerLoss ==
  ASSUME IInv, LossInv, NEW r \in Requests,
         \A x \in Requests \ {r} : req'[x] = req[x],
         UNCHANGED <<sessions, pay, faults>>, orders \subseteq orders',
         \A s \in Sessions : <<Completed, s>> \in ledger' =>
             <<Completed, s>> \in ledger \/ Handles(r, <<Completed, s>>)',
         IsWebhook(r)' => /\ \E p \in sessions : p.id = req'[r].session /\ p.quote = req'[r].quote
                          /\ pay[req'[r].session] \notin {"none", "open"},
         faults = 0 /\ req'[r].pc = "reread" => HasOrder(req'[r].quote),
         \A q \in Quotes : quotes[q] = "ordered" => quotes'[q] = "ordered",
         At(r, "mark") => quotes'[req[r].quote] = "ordered",
         \A o \in orders' \ orders : req'[r].pc = "mark" /\ req'[r].quote = o.quote,
         \A p \in sessions : faults = 0 /\ Handles(r, <<Completed, p.id>>) /\ pay[p.id] = "paid" =>
             HasOrder(p.quote) \/ Handles(r, <<Completed, p.id>>)'
  PROVE  LossInv'
<1>1. \A q : HasOrder(q) => HasOrder(q)'
  BY DEF HasOrder
<1>2. \A x \in Requests \ {r} : (IsWebhook(x)' <=> IsWebhook(x)) /\ Event(x)' = Event(x)
                             /\ \A l : At(x, l)' <=> At(x, l)
  BY DEF IsWebhook, Event, At
<1>3. \A x \in Requests \ {r}, s \in Sessions :
          Handles(x, <<Completed, s>>)' <=> Handles(x, <<Completed, s>>)
  BY <1>2 DEF Handles
<1>4. Origins'
  <2>1. ASSUME NEW x \in Requests, IsWebhook(x)'
        PROVE  /\ \E p \in sessions' : p.id = req'[x].session /\ p.quote = req'[x].quote
               /\ pay'[req'[x].session] \notin {"none", "open"}
    <3>1. CASE x = r
      BY <2>1, <3>1
    <3>2. CASE x # r
      BY <1>2, <2>1, <3>2 DEF LossInv, Origins
    <3> QED BY <3>1, <3>2
  <2>2. ASSUME NEW s \in Sessions, <<Completed, s>> \in ledger' PROVE pay'[s] \notin {"none", "open"}
    <3>1. CASE <<Completed, s>> \in ledger
      BY <3>1 DEF LossInv, Origins
    <3>2. CASE Handles(r, <<Completed, s>>)'
      BY <3>2 DEF Handles, Event
    <3> QED BY <2>2, <3>1, <3>2
  <2> QED BY <2>1, <2>2 DEF Origins
<1>5. LostToAnOrder'
  BY <1>1, <1>2 DEF LossInv, LostToAnOrder, At
<1>6. UnmarkedOnlyAfterFault'
  <2> SUFFICES ASSUME faults = 0, NEW o \in orders', quotes'[o.quote] # "ordered"
               PROVE  \E x \in Requests : At(x, "mark")' /\ req'[x].quote = o.quote
    BY DEF UnmarkedOnlyAfterFault
  <2>1. CASE o \in orders
    <3>1. o.quote \in Quotes
      BY <2>1 DEF IInv, TypeOK, Order
    <3>2. PICK x \in Requests : At(x, "mark") /\ req[x].quote = o.quote
      BY <2>1, <3>1 DEF LossInv, UnmarkedOnlyAfterFault
    <3>3. x # r
      BY <3>2
    <3> QED BY <1>2, <3>2, <3>3
  <2>2. CASE o \notin orders
    BY <2>2 DEF At
  <2> QED BY <2>1, <2>2
<1>7. NoSilentDrop'
  <2> SUFFICES ASSUME faults = 0, NEW p \in sessions, <<Completed, p.id>> \in ledger', pay[p.id] = "paid"
               PROVE  HasOrder(p.quote)' \/ \E x \in Requests : Handles(x, <<Completed, p.id>>)'
    BY DEF NoSilentDrop
  <2>1. p.id \in Sessions
    BY DEF IInv, TypeOK, Session
  <2>2. CASE <<Completed, p.id>> \in ledger
    <3>1. HasOrder(p.quote) \/ \E x \in Requests : Handles(x, <<Completed, p.id>>)
      BY <2>2 DEF LossInv, NoSilentDrop
    <3> QED BY <1>1, <1>3, <2>1, <3>1
  <2> QED BY <2>1, <2>2
<1> QED BY <1>4, <1>5, <1>6, <1>7 DEF LossInv

\* Something arrives at a free slot, or a checkout ends.
LEMMA ArrivalLoss ==
  ASSUME IInv, LossInv, NEW r \in Requests, Arrival(r) \/ OpenSessionFails(r)
  PROVE  LossInv'
<1>1. UNCHANGED <<quotes, orders, ledger, sessions, pay, faults>>
  BY DEF Arrival, StartCheckout, StartPoll, DeliverEvent, OpenSessionFails, db, stripe
<1>2. req[r].pc \in {"idle", "open"}
  BY DEF Arrival, StartCheckout, StartPoll, DeliverEvent, OpenSessionFails, At
<1>3. /\ \A x \in Requests \ {r} : req'[x] = req[x]
      /\ req'[r].pc \in {"idle", "open", "fetch", "ledger"}
      /\ IsWebhook(r)' => /\ \E p \in sessions : p.id = req'[r].session /\ p.quote = req'[r].quote
                          /\ pay[req'[r].session] \notin {"none", "open"}
  <2>1. CASE OpenSessionFails(r)
    BY <2>1, Ends DEF OpenSessionFails, IsWebhook, EventTypes, IInv
  <2>2. ASSUME NEW q \in Quotes, NEW m \in Methods, StartCheckout(r, q, m) PROVE <1>3
    BY <2>2 DEF StartCheckout, IsWebhook, EventTypes, IInv, TypeOK
  <2>3. ASSUME NEW q \in Quotes, NEW s \in Sessions, StartPoll(r, q, s) PROVE <1>3
    BY <2>3 DEF StartPoll, IsWebhook, EventTypes, IInv, TypeOK, Handler
  <2>4. ASSUME NEW e \in EventTypes \X Sessions, DeliverEvent(r, e) PROVE <1>3
    <3>1. PICK p \in sessions : p.id = e[2] /\ req' = [req EXCEPT ![r] = Handler("ledger", e[1], p.quote, p.id)]
      BY <2>4 DEF DeliverEvent
    <3>2. pay[e[2]] \notin {"none", "open"}
      BY <2>4 DEF DeliverEvent, Occurred
    <3> QED BY <3>1, <3>2 DEF IInv, TypeOK, Handler
  <2> QED BY <2>1, <2>2, <2>3, <2>4 DEF Arrival
<1>4. ~ At(r, "mark") /\ \A e : ~ Handles(r, e)
  BY <1>2 DEF At, Handles, PastLedger
<1> QED BY <1>1, <1>3, <1>4, HandlerLoss

LEMMA OpenSessionLoss ==
  ASSUME IInv, LossInv, NEW r \in Requests, NEW s \in Sessions, OpenSession(r, s)
  PROVE  LossInv'
<1>1. /\ pay[s] = "none" /\ pay' = [pay EXCEPT ![s] = "open"] /\ At(r, "open")
      /\ UNCHANGED <<quotes, orders, ledger, faults>> /\ Finish(r)
      /\ sessions \subseteq sessions' /\ \A p \in sessions' \ sessions : p.id = s
  BY DEF OpenSession, db
<1>2. /\ \A x \in Requests \ {r} : req'[x] = req[x]
      /\ ~ IsWebhook(r)' /\ \A l \in {"reread", "mark"} : ~ At(r, l)'
  BY <1>1, Ends DEF IInv, IsWebhook, EventTypes, At
<1>3. \A x \in Sessions : pay'[x] = IF x = s THEN "open" ELSE pay[x]
  BY <1>1 DEF IInv, TypeOK
<1>4. ~ At(r, "mark") /\ \A e : ~ Handles(r, e)
  BY <1>1 DEF At, Handles, PastLedger
<1>5. Origins'
  <2>1. ASSUME NEW x \in Requests, IsWebhook(x)'
        PROVE  /\ \E p \in sessions' : p.id = req'[x].session /\ p.quote = req'[x].quote
               /\ pay'[req'[x].session] \notin {"none", "open"}
    <3>1. x # r /\ IsWebhook(x) /\ req'[x] = req[x]
      BY <1>2, <2>1 DEF IsWebhook
    <3>2. PICK p \in sessions : p.id = req[x].session /\ p.quote = req[x].quote
      BY <3>1 DEF LossInv, Origins
    <3>3. p.id \in Sessions /\ pay[p.id] \notin {"none", "open"}
      BY <3>1, <3>2 DEF LossInv, Origins, IInv, TypeOK, Session
    <3> QED BY <1>1, <1>3, <3>1, <3>2, <3>3
  <2>2. ASSUME NEW x \in Sessions, <<Completed, x>> \in ledger' PROVE pay'[x] \notin {"none", "open"}
    BY <1>1, <1>3, <2>2 DEF LossInv, Origins
  <2> QED BY <2>1, <2>2 DEF Origins
<1>6. LostToAnOrder' /\ UnmarkedOnlyAfterFault'
  BY <1>1, <1>2, <1>4 DEF LossInv, LostToAnOrder, UnmarkedOnlyAfterFault, At, HasOrder
<1>7. NoSilentDrop'
  <2> SUFFICES ASSUME faults = 0, NEW p \in sessions', <<Completed, p.id>> \in ledger, pay'[p.id] = "paid"
               PROVE  HasOrder(p.quote)' \/ \E x \in Requests : Handles(x, <<Completed, p.id>>)'
    BY <1>1 DEF NoSilentDrop
  <2>1. p \in sessions /\ p.id \in Sessions /\ pay[p.id] = "paid"
    BY <1>1, <1>3 DEF IInv, TypeOK, Session
  <2>2. HasOrder(p.quote) \/ \E x \in Requests : Handles(x, <<Completed, p.id>>)
    BY <2>1 DEF LossInv, NoSilentDrop
  <2>3. \A x \in Requests \ {r} : \A e : Handles(x, e) => Handles(x, e)'
    BY <1>2 DEF Handles, IsWebhook, Event
  <2> QED BY <1>1, <1>4, <2>2, <2>3 DEF HasOrder
<1> QED BY <1>5, <1>6, <1>7 DEF LossInv

LEMMA RecordEventLoss ==
  ASSUME IInv, LossInv, NEW r \in Requests, RecordEvent(r)
  PROVE  LossInv'
<1>1. /\ At(r, "ledger") /\ ledger' = ledger \union {Event(r)}
      /\ UNCHANGED <<quotes, orders, sessions, pay, faults>>
  BY DEF RecordEvent
<1>2. IsWebhook(r) /\ ~ At(r, "mark") /\ \A e : ~ Handles(r, e)
  BY <1>1 DEF IInv, HandlersSound, CarriesIds, At, Handles, PastLedger
<1>3. CASE Event(r) \notin ledger /\ req[r].flow = Completed
  <2>1. Goto(r, "fetch")
    BY <1>3 DEF RecordEvent
  <2>2. /\ \A x \in Requests \ {r} : req'[x] = req[x]
        /\ req'[r].pc = "fetch" /\ req'[r].flow = req[r].flow
        /\ req'[r].session = req[r].session /\ req'[r].quote = req[r].quote
    BY <2>1, Moves DEF IInv
  <2>3. Handles(r, Event(r))'
    BY <1>2, <2>2 DEF Handles, IsWebhook, Event, PastLedger
  <2>4. \A s \in Sessions : <<Completed, s>> \in ledger' =>
            <<Completed, s>> \in ledger \/ Handles(r, <<Completed, s>>)'
    BY <1>1, <2>2, <2>3 DEF Event
  <2>5. /\ \E p \in sessions : p.id = req'[r].session /\ p.quote = req'[r].quote
        /\ pay[req'[r].session] \notin {"none", "open"}
    BY <1>2, <2>2 DEF LossInv, Origins
  <2> QED BY <1>1, <1>2, <2>2, <2>4, <2>5, HandlerLoss
<1>4. CASE ~ (Event(r) \notin ledger /\ req[r].flow = Completed)
  <2>1. Finish(r)
    BY <1>4 DEF RecordEvent
  <2>2. /\ \A x \in Requests \ {r} : req'[x] = req[x]
        /\ req'[r].pc = "idle" /\ req'[r].flow = "none"
    BY <2>1, Ends DEF IInv
  <2>3. \A s \in Sessions : <<Completed, s>> \in ledger' => <<Completed, s>> \in ledger
    BY <1>1, <1>4 DEF Event
  <2>4. ~ IsWebhook(r)'
    BY <2>2 DEF IsWebhook, EventTypes
  <2> QED BY <1>1, <1>2, <2>2, <2>3, <2>4, HandlerLoss
<1> QED BY <1>3, <1>4

\* A handler past the ledger goes on to its next call.
LEMMA GotoLoss ==
  ASSUME IInv, LossInv, NEW r \in Requests, NEW label \in PastLedger, Goto(r, label),
         req[r].pc \in PastLedger,
         UNCHANGED <<sessions, pay, faults, ledger>>, orders \subseteq orders',
         faults = 0 /\ label = "reread" => HasOrder(req[r].quote),
         \A q \in Quotes : quotes[q] = "ordered" => quotes'[q] = "ordered",
         At(r, "mark") => quotes'[req[r].quote] = "ordered",
         \A o \in orders' \ orders : label = "mark" /\ req[r].quote = o.quote
  PROVE  LossInv'
<1>1. /\ \A x \in Requests \ {r} : req'[x] = req[x]
      /\ req'[r].pc = label /\ req'[r].flow = req[r].flow
      /\ req'[r].session = req[r].session /\ req'[r].quote = req[r].quote
  BY Moves DEF IInv
<1>2. \A e : Handles(r, e) => Handles(r, e)'
  BY <1>1 DEF Handles, IsWebhook, Event
<1>3. IsWebhook(r)' => /\ \E p \in sessions : p.id = req'[r].session /\ p.quote = req'[r].quote
                       /\ pay[req'[r].session] \notin {"none", "open"}
  BY <1>1 DEF IsWebhook, LossInv, Origins
<1> QED BY <1>1, <1>2, <1>3, HandlerLoss

\* A handler that ends past the ledger: without a fault, its payment has an order.
LEMMA FinishLoss ==
  ASSUME IInv, LossInv, NEW r \in Requests, Finish(r), ~ At(r, "mark"),
         UNCHANGED <<quotes, orders, sessions, pay, faults, ledger>>,
         \A p \in sessions : faults = 0 /\ Handles(r, <<Completed, p.id>>) /\ pay[p.id] = "paid" =>
             HasOrder(p.quote)
  PROVE  LossInv'
<1>1. /\ \A x \in Requests \ {r} : req'[x] = req[x]
      /\ req'[r].pc = "idle" /\ req'[r].flow = "none"
  BY Ends DEF IInv
<1>2. ~ IsWebhook(r)'
  BY <1>1 DEF IsWebhook, EventTypes
<1> QED BY <1>1, <1>2, HandlerLoss

LEMMA RetrieveSessionLoss ==
  ASSUME IInv, LossInv, NEW r \in Requests, RetrieveSession(r)
  PROVE  LossInv'
<1>1. At(r, "fetch") /\ UNCHANGED <<quotes, orders, ledger, sessions, pay, faults>>
  BY DEF RetrieveSession, db
<1>2. ~ At(r, "mark") /\ req[r].pc \in PastLedger
  BY <1>1 DEF At, PastLedger
<1>3. CASE PaysFor(r)
  <2>1. Goto(r, "find")
    BY <1>3 DEF RetrieveSession
  <2>2. "find" \in PastLedger
    BY DEF PastLedger
  <2> QED BY <1>1, <1>2, <2>1, <2>2, GotoLoss
<1>4. CASE ~ PaysFor(r)
  <2>1. Finish(r)
    BY <1>4 DEF RetrieveSession
  <2>2. ASSUME NEW p \in sessions, Handles(r, <<Completed, p.id>>), pay[p.id] = "paid" PROVE FALSE
    BY <1>4, <2>2, HandlersQuote DEF PaysFor, IsPaid
  <2> QED BY <1>1, <1>2, <2>1, <2>2, FinishLoss
<1> QED BY <1>3, <1>4

LEMMA FindOrderLoss ==
  ASSUME IInv, LossInv, NEW r \in Requests, FindOrder(r) \/ MarkOrdered(r) \/ SendEmail(r)
  PROVE  LossInv'
<1>1. /\ req[r].pc \in PastLedger
      /\ UNCHANGED <<orders, ledger, sessions, pay, faults>>
  BY DEF FindOrder, MarkOrdered, SendEmail, db, stripe, At, PastLedger
<1>2. \E label \in PastLedger \ {"reread"} : Goto(r, label)
  BY DEF FindOrder, MarkOrdered, SendEmail, Return, PastLedger
<1>3. \A q \in Quotes : quotes[q] = "ordered" => quotes'[q] = "ordered"
  BY DEF FindOrder, MarkOrdered, SendEmail, MarkedStatus, db, IInv, TypeOK
<1>4. At(r, "mark") => quotes'[req[r].quote] = "ordered"
  <2>1. At(r, "mark") => MarkOrdered(r) /\ req[r].quote \in Quotes
    BY DEF FindOrder, SendEmail, At, IInv, HandlersSound, CarriesIds
  <2> QED BY <2>1 DEF MarkOrdered, MarkedStatus, IInv, TypeOK
<1> QED BY <1>1, <1>2, <1>3, <1>4, GotoLoss

LEMMA InsertOrderLoss ==
  ASSUME IInv, LossInv, NEW r \in Requests, InsertOrder(r)
  PROVE  LossInv'
<1>1. /\ At(r, "insert") /\ Goto(r, "mark") /\ UNCHANGED <<quotes, ledger, sessions, pay, faults>>
  BY DEF InsertOrder, stripe
<1>2. PICK p \in sessions : p.id = req[r].session /\ orders' = orders \union {OrderRow(p)}
  BY DEF InsertOrder
<1>3. PaysFor(r)
  BY <1>1 DEF IInv, HandlersSound, Cleared, At
<1>4. p.quote = req[r].quote
  BY <1>2, <1>3 DEF PaysFor, IInv, SessionRows
<1>5. OrderRow(p).quote = req[r].quote
  BY <1>4 DEF OrderRow
<1>6. req[r].pc \in PastLedger /\ "mark" \in PastLedger /\ ~ At(r, "mark")
  BY <1>1 DEF At, PastLedger
<1>7. orders \subseteq orders' /\ \A o \in orders' \ orders : req[r].quote = o.quote
  BY <1>2, <1>5
<1> QED BY <1>1, <1>6, <1>7, GotoLoss

\* An insert that conflicts has met the order of its own quote.
LEMMA InsertConflictsLoss ==
  ASSUME IInv, LossInv, NEW r \in Requests, InsertConflicts(r)
  PROVE  LossInv'
<1>1. /\ At(r, "insert") /\ Goto(r, "reread")
      /\ UNCHANGED <<quotes, orders, ledger, sessions, pay, faults>>
  BY DEF InsertConflicts, stripe, db
<1>2. PICK o \in orders : o.quote = req[r].quote \/ o.session = req[r].session
  BY DEF InsertConflicts, UniqueViolation
<1>3. PICK p \in sessions : p.id = req[r].session /\ p.quote = req[r].quote
  BY <1>1 DEF IInv, HandlersSound, Cleared, At, PaysFor
<1>4. PICK x \in sessions : x.id = o.session /\ x.quote = o.quote
  BY DEF IInv, Books, OrderMatchesPayment
<1>5. o.quote = req[r].quote
  BY <1>2, <1>3, <1>4 DEF IInv, SessionRows
<1>6. req[r].pc \in PastLedger /\ "reread" \in PastLedger /\ ~ At(r, "mark")
  BY <1>1 DEF At, PastLedger
<1> QED BY <1>1, <1>5, <1>6, GotoLoss DEF HasOrder

LEMMA ReadWinnerLoss ==
  ASSUME IInv, LossInv, NEW r \in Requests, ReadWinner(r)
  PROVE  LossInv'
<1>1. At(r, "reread") /\ UNCHANGED <<quotes, orders, ledger, sessions, pay, faults>>
  BY DEF ReadWinner, db
<1>2. req[r].pc \in PastLedger /\ "send" \in PastLedger /\ ~ At(r, "mark")
  BY <1>1 DEF At, PastLedger
<1>3. CASE HasOrder(req[r].quote)
  <2>1. Goto(r, "send")
    BY <1>3 DEF ReadWinner, Return
  <2> QED BY <1>1, <1>2, <2>1, GotoLoss
<1>4. CASE ~ HasOrder(req[r].quote)
  <2>1. Finish(r)
    BY <1>4 DEF ReadWinner
  <2>2. faults # 0
    BY <1>1, <1>4 DEF LossInv, LostToAnOrder
  <2> QED BY <1>1, <1>2, <2>1, <2>2, FinishLoss
<1> QED BY <1>3, <1>4

LEMMA StampEmailLoss ==
  ASSUME IInv, LossInv, NEW r \in Requests, StampEmail(r)
  PROVE  LossInv'
<1>1. /\ At(r, "stamp") /\ Finish(r) /\ UNCHANGED <<quotes, orders, ledger, sessions, pay, faults>>
  BY DEF StampEmail, stripe
<1>2. HasOrder(req[r].quote) /\ ~ At(r, "mark")
  BY <1>1 DEF IInv, HandlersSound, Backed, At
<1>3. ASSUME NEW p \in sessions, Handles(r, <<Completed, p.id>>) PROVE HasOrder(p.quote)
  BY <1>2, <1>3, HandlersQuote
<1> QED BY <1>1, <1>2, <1>3, FinishLoss

\* A fault is one, and no slot gets a webhook by it.
LEMMA FaultLoss ==
  ASSUME IInv, LossInv, Restart \/ \E r \in Requests : FaultStep(r)
  PROVE  LossInv'
<1>1. faults' # 0 /\ UNCHANGED <<ledger, sessions, pay>>
  BY ConstantsAssumption
  DEF Restart, FaultStep, RetrieveSessionFails, ReferenceCollides, Abort, db, stripe, IInv, TypeOK
<1>2. ASSUME NEW x \in Requests, IsWebhook(x)'
      PROVE  IsWebhook(x) /\ req'[x].session = req[x].session /\ req'[x].quote = req[x].quote
  <2>1. CASE Restart
    BY <1>2, <2>1 DEF Restart, IsWebhook, EventTypes, Idle, Handler
  <2>2. CASE ~ Restart
    <3>1. PICK r \in Requests : FaultStep(r)
      BY <2>2
    <3>2. Finish(r) \/ Goto(r, "reread")
      BY <3>1 DEF FaultStep, RetrieveSessionFails, ReferenceCollides, Abort
    <3>3. CASE Finish(r)
      BY <1>2, <3>3, Ends DEF IInv, IsWebhook, EventTypes
    <3>4. CASE Goto(r, "reread")
      BY <1>2, <3>4, Moves DEF IInv, IsWebhook
    <3> QED BY <3>2, <3>3, <3>4
  <2> QED BY <2>1, <2>2
<1>3. Origins'
  BY <1>1, <1>2 DEF LossInv, Origins
<1> QED BY <1>1, <1>3 DEF LossInv, LostToAnOrder, UnmarkedOnlyAfterFault, NoSilentDrop

LEMMA EnvironmentLoss ==
  ASSUME IInv, LossInv, Environment, ~ Restart
  PROVE  LossInv'
<1>1. UNCHANGED <<orders, ledger, sessions, req, faults>>
  BY DEF Environment, Pay, Settle, DeliverSeenEvent, UpdateShippingMethod, ExpireDraftQuotes, db, stripe
<1>2. \A q \in Quotes : quotes[q] = "ordered" => quotes'[q] = "ordered"
  BY DEF Environment, Pay, Settle, DeliverSeenEvent, UpdateShippingMethod, ExpireDraftQuotes,
     Expirable, db
<1>3. \A s \in Sessions : /\ pay[s] \notin {"none", "open"} => pay'[s] \notin {"none", "open"}
                          /\ pay'[s] = "paid" => pay[s] \in {"paid", "open"}
  <2>1. ASSUME NEW s \in Sessions, Settle(s) PROVE <1>3
    BY <2>1 DEF Settle, IInv, TypeOK
  <2>2. ASSUME NEW s \in Sessions, NEW outcome \in Outcomes, Pay(s, outcome) PROVE <1>3
    BY <2>2 DEF Pay, IInv, TypeOK
  <2>3. CASE UNCHANGED pay
    BY <2>3
  <2> QED BY <2>1, <2>2, <2>3 DEF Environment, DeliverSeenEvent, UpdateShippingMethod, ExpireDraftQuotes, stripe
<1>4. \A x \in Requests : IsWebhook(x) => req[x].session \in Sessions
  <2> SUFFICES ASSUME NEW x \in Requests, IsWebhook(x) PROVE req[x].session \in Sessions
    OBVIOUS
  <2>1. PICK p \in sessions : p.id = req[x].session
    BY DEF LossInv, Origins
  <2> QED BY <2>1 DEF IInv, TypeOK, Session
<1>5. Origins'
  BY <1>1, <1>3, <1>4 DEF LossInv, Origins, IsWebhook
<1>6. LostToAnOrder'
  BY <1>1 DEF LossInv, LostToAnOrder, At, HasOrder
<1>7. UnmarkedOnlyAfterFault'
  BY <1>1, <1>2 DEF LossInv, UnmarkedOnlyAfterFault, At, IInv, TypeOK, Order
<1>8. NoSilentDrop'
  <2> SUFFICES ASSUME faults = 0, NEW p \in sessions, <<Completed, p.id>> \in ledger, pay'[p.id] = "paid"
               PROVE  HasOrder(p.quote)' \/ \E x \in Requests : Handles(x, <<Completed, p.id>>)'
    BY <1>1 DEF NoSilentDrop
  <2>1. p.id \in Sessions
    BY DEF IInv, TypeOK, Session
  <2>2. pay[p.id] = "paid"
    BY <1>3, <2>1 DEF LossInv, Origins
  <2>3. HasOrder(p.quote) \/ \E x \in Requests : Handles(x, <<Completed, p.id>>)
    BY <2>2 DEF LossInv, NoSilentDrop
  <2> QED BY <1>1, <2>3 DEF HasOrder, Handles, IsWebhook, Event
<1> QED BY <1>5, <1>6, <1>7, <1>8 DEF LossInv

LEMMA InitLoss == Init => LossInv
BY DEF Init, Idle, Handler, LossInv, Origins, LostToAnOrder, UnmarkedOnlyAfterFault, NoSilentDrop,
   IsWebhook, EventTypes, At

LEMMA NextLoss == IInv /\ LossInv /\ [Next]_vars => LossInv'
<1> SUFFICES ASSUME IInv, LossInv, [Next]_vars PROVE LossInv'
  OBVIOUS
<1>1. ASSUME NEW r \in Requests, Arrival(r) PROVE LossInv'
  BY <1>1, ArrivalLoss
<1>2. ASSUME NEW r \in Requests, HandlerStep(r) PROVE LossInv'
  BY <1>2, ArrivalLoss, OpenSessionLoss, RecordEventLoss, RetrieveSessionLoss, FindOrderLoss,
     InsertOrderLoss, InsertConflictsLoss, ReadWinnerLoss, StampEmailLoss DEF HandlerStep
<1>3. ASSUME NEW r \in Requests, FaultStep(r) PROVE LossInv'
  BY <1>3, FaultLoss
<1>4. CASE Environment
  BY <1>4, EnvironmentLoss, FaultLoss
<1>5. CASE UNCHANGED vars
  BY <1>5 DEF vars, db, stripe, LossInv, Origins, LostToAnOrder, UnmarkedOnlyAfterFault, NoSilentDrop,
     IsWebhook, At, HasOrder, Handles, Event
<1> QED BY <1>1, <1>2, <1>3, <1>4, <1>5 DEF Next

LEMMA LossInvariant == Spec => []LossInv
BY Invariant, InitLoss, NextLoss, PTL DEF Spec

\* Only a fault separates an order from the mark on its quote.
THEOREM MarkFollowsOrder == Spec => []UnmarkedOnlyAfterFault
<1>1. LossInv => UnmarkedOnlyAfterFault
  BY DEF LossInv
<1> QED
  BY <1>1, LossInvariant, PTL

\* Without a fault, the completion of a paid session that is in the ledger has its order,
\* or its one handler is on its way to it.
THEOREM NothingIsDropped == Spec => []NoSilentDrop
<1>1. LossInv => NoSilentDrop
  BY DEF LossInv
<1> QED
  BY <1>1, LossInvariant, PTL
=============================================================================
