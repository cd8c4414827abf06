----------------------------- MODULE CheckoutPages ----------------------------
(***************************************************************************)
(* The checkout steps of one tab over the CheckoutStore they share, and    *)
(* the return page that polls for the order. The store keeps the summary   *)
(* and the delivery methods of the last quote it was asked for; nothing    *)
(* cancels a call for another quote, and answers come in any order. The    *)
(* server's side of a payment is OrderFulfilment's business.               *)
(*                                                                         *)
(* Definitions no action refers to are mutated forms of their neighbours.  *)
(***************************************************************************)
EXTENDS Integers, FiniteSets, Absence

CONSTANTS
    Payables,   \* quotes that are checked out
    Methods,    \* delivery methods
    Rates,      \* what each method may cost per sheet; 0: it is not active
    Shops,      \* rates of the methods to begin with
    Worth,      \* total of each quote
    SheetsOf,   \* sheets of each quote
    Delays,     \* length of POLL_DELAYS_MS
    MaxLeft,    \* bound: return pages left with a poll under way
    MaxChanges, \* bound: edits of the delivery methods
    MaxAnswers, \* bound: calls under way at once
    MaxPayments \* bound: payments under way at once

ASSUME CheckoutConstants ==
    /\ None \notin Payables
    /\ Worth \in [Payables -> Nat] /\ SheetsOf \in [Payables -> Nat \ {0}]
    /\ {Delays, MaxLeft, MaxChanges, MaxAnswers, MaxPayments} \subseteq Nat
    /\ \A m \in Methods : Rates[m] \subseteq Nat
    /\ Shops \subseteq [Methods -> Nat]

VARIABLES
    offers,     \* rate of each delivery method
    summary,    \* CheckoutStore: [shown, asked, loading, error, crossed]
    delivery,   \* CheckoutStore: the same, [blocked, selected, stale]
    visit,      \* the page that is open, and the quote it was opened with: [page, quote, opened, submitting]
    asks,       \* calls of the store under way: [what, quote, slot]
    payments,   \* payments under way: [quote, method, shown, excused, here]
    charges,    \* the last session that was opened: what was shown and what is charged
    polls,      \* PaymentReturnComponent: [state, attempt, asking, timers], of the page that is
                \* open (0) and of pages that were left while they waited for an answer
    changes     \* edits of the delivery methods so far

checkoutVars == <<offers, summary, delivery, visit, asks, payments, charges, polls, changes>>

NoMethods == [m \in {} |-> 0]
NoPoll == [state |-> "away", attempt |-> 1, asking |-> 0, timers |-> 0]
NoPolls == [n \in 0 .. MaxLeft |-> NoPoll]
NoCharge == [shown |-> 0, charged |-> 0, excused |-> TRUE]

NoVisit == [page |-> "away", quote |-> None, opened |-> None, submitting |-> FALSE]
NoSummary == [shown |-> None, asked |-> None, loading |-> FALSE, error |-> FALSE, crossed |-> FALSE]
NoDelivery == [shown |-> NoMethods, asked |-> None, loading |-> FALSE, error |-> FALSE,
               blocked |-> FALSE, crossed |-> FALSE, selected |-> None, stale |-> FALSE]

CheckoutInit ==
    /\ offers \in Shops
    /\ summary = NoSummary /\ delivery = NoDelivery
    /\ visit = NoVisit
    /\ asks = {}
    /\ payments = {}
    /\ charges = NoCharge
    /\ polls = NoPolls
    /\ changes = 0

\* Active methods with what they cost for a quote; the first is the cheapest.
Resolved(q) == [m \in {n \in Methods : offers[n] > 0} |-> offers[m] * SheetsOf[q]]
First(list) == CHOOSE m \in DOMAIN list : \A n \in DOMAIN list : list[m] <= list[n]

-----------------------------------------------------------------------------
(* CheckoutStore *)

Under(what) == {a \in asks : a.what = what}
Ask(what, q) ==
    [what |-> what, quote |-> q,
     slot |-> CHOOSE n \in 1 .. MaxAnswers : n \notin {a.slot : a \in Under(what)}]

LoadSummaryOnce(q) ==
    summary' = IF summary.asked # None THEN summary
               ELSE [summary EXCEPT !.asked = q, !.loading = TRUE, !.error = FALSE,
                                    !.crossed = Under("summary") # {}]

\* A load of the quote that was asked for last, and did not fail, is not repeated.
LoadSummary(q) ==
    summary' = IF summary.asked = q THEN summary
               ELSE [summary EXCEPT !.asked = q, !.loading = TRUE, !.error = FALSE,
                                    !.crossed = Under("summary") # {}]

LoadShippingMethods(q) ==
    delivery' = IF delivery.asked = q THEN delivery
                ELSE [delivery EXCEPT !.asked = q, !.loading = TRUE, !.error = FALSE, !.stale = FALSE,
                                      !.crossed = Under("delivery") # {}]

SummaryArrives(a) ==
    /\ a.what = "summary"
    /\ asks' = asks \ {a}
    /\ summary' = [summary EXCEPT !.shown = a.quote, !.loading = FALSE]
    /\ UNCHANGED <<offers, delivery, visit, payments, charges, polls, changes>>

\* A failing call forgets which quote was asked for, be it another one by now.
SummaryFails(a) ==
    /\ a.what = "summary"
    /\ asks' = asks \ {a}
    /\ summary' = [summary EXCEPT !.asked = None, !.loading = FALSE, !.error = TRUE]
    /\ UNCHANGED <<offers, delivery, visit, payments, charges, polls, changes>>

\* The selection is kept while it is on the list.
Selection(list) == IF delivery.selected \in DOMAIN list THEN delivery.selected ELSE First(list)

MethodsArrive(a) ==
    /\ a.what = "delivery"
    /\ asks' = asks \ {a}
    /\ LET list == Resolved(a.quote) IN
       delivery' = IF list = NoMethods
                   THEN [delivery EXCEPT !.shown = NoMethods, !.blocked = TRUE, !.loading = FALSE]
                   ELSE [delivery EXCEPT !.shown = list, !.blocked = FALSE, !.loading = FALSE,
                                         !.selected = Selection(list)]
    /\ UNCHANGED <<offers, summary, visit, payments, charges, polls, changes>>

MethodsFail(a) ==
    /\ a.what = "delivery"
    /\ asks' = asks \ {a}
    /\ delivery' = [delivery EXCEPT !.asked = None, !.loading = FALSE, !.error = TRUE]
    /\ UNCHANGED <<offers, summary, visit, payments, charges, polls, changes>>

-----------------------------------------------------------------------------
(* The steps *)

Polling(page) == IF page = "payment" THEN [NoPoll EXCEPT !.state = "pending", !.asking = 1] ELSE NoPoll

\* Leaving the return page stops its timers. A poll under way is not cancelled: its answer
\* is the left page's, which polls on.
Running(n) == polls[n].asking + polls[n].timers > 0
Left(page) ==
    IF polls[0].asking = 0 THEN polls' = [polls EXCEPT ![0] = Polling(page)]
    ELSE \E n \in 1 .. MaxLeft :
             /\ ~Running(n)
             /\ polls' = [polls EXCEPT ![0] = Polling(page), ![n] = [polls[0] EXCEPT !.timers = 0]]

\* A page of the kind that is open already is reached by way of some other page.
Opened(page, q) ==
    /\ Cardinality(asks) < MaxAnswers
    /\ visit' = [page |-> page, quote |-> q, opened |-> q, submitting |-> FALSE]
    /\ charges' = NoCharge
    /\ Left(page)
    /\ payments' = {[p EXCEPT !.here = FALSE] : p \in payments}

\* The history goes to the same step of another quote: the router keeps the component and
\* gives it the other quote, and nothing is loaded.
Jump(q) ==
    /\ visit.page # "away" /\ visit.quote # q
    /\ visit' = [visit EXCEPT !.quote = q]
    /\ UNCHANGED <<offers, summary, delivery, asks, payments, charges, polls, changes>>

Review(q) ==
    /\ Opened("review", q)
    /\ LoadSummary(q)
    /\ asks' = asks \union (IF summary' = summary THEN {} ELSE {Ask("summary", q)})
    /\ UNCHANGED <<offers, delivery, changes>>

Shipping(q) ==
    /\ Opened("shipping", q)
    /\ LoadSummary(q)
    /\ LoadShippingMethods(q)
    /\ asks' = asks \union (IF summary' = summary THEN {} ELSE {Ask("summary", q)})
                    \union (IF delivery' = delivery THEN {} ELSE {Ask("delivery", q)})
    /\ UNCHANGED <<offers, changes>>

Select(m) ==
    /\ visit.page = "shipping"
    /\ m \in DOMAIN delivery.shown
    /\ delivery' = [delivery EXCEPT !.selected = m]
    /\ UNCHANGED <<offers, summary, visit, asks, payments, charges, polls, changes>>

Loading == summary.loading \/ delivery.loading
Blocked == ~Loading /\ delivery.blocked

PartsShown == IF summary.shown = None THEN 0 ELSE Worth[summary.shown]
DeliveryShown == IF delivery.selected \in DOMAIN delivery.shown THEN delivery.shown[delivery.selected] ELSE 0

\* The server charges what the quote and the method cost now.
Charged(q, m) == Worth[q] + offers[m] * SheetsOf[q]

\* The button works while the step is loading, with what the step before has left.
Pay ==
    /\ visit.page = "shipping" /\ ~visit.submitting
    /\ ~Blocked /\ delivery.selected # None
    /\ Cardinality(payments) < MaxPayments
    /\ visit' = [visit EXCEPT !.submitting = TRUE]
    /\ payments' = payments \union
          {[quote |-> visit.quote, method |-> delivery.selected, here |-> TRUE,
            shown |-> PartsShown + DeliveryShown,
            excused |-> Loading \/ summary.error \/ delivery.error
                        \/ summary.crossed \/ delivery.crossed \/ delivery.stale
                        \/ visit.quote # visit.opened]}
    /\ UNCHANGED <<offers, summary, delivery, asks, charges, polls, changes>>

\* The browser goes to the payment page, from wherever the customer is by now, and the
\* store goes with it.
SessionOpens(p) ==
    /\ offers[p.method] > 0
    /\ charges' = [shown |-> p.shown, charged |-> Charged(p.quote, p.method), excused |-> p.excused]
    /\ visit' = NoVisit
    /\ asks' = {} /\ payments' = {}
    /\ summary' = NoSummary /\ delivery' = NoDelivery
    /\ polls' = NoPolls
    /\ UNCHANGED <<offers, changes>>

SessionRefused(p) ==
    /\ payments' = payments \ {p}
    /\ visit' = [visit EXCEPT !.submitting = @ /\ ~p.here]
    /\ UNCHANGED <<offers, summary, delivery, asks, charges, polls, changes>>

\* An administrator edits a delivery method.
UpdateMethod(m, r) ==
    /\ changes < MaxChanges
    /\ offers[m] # r
    /\ changes' = changes + 1
    /\ offers' = [offers EXCEPT ![m] = r]
    /\ delivery' = [delivery EXCEPT !.stale = TRUE]
    /\ payments' = {[p EXCEPT !.excused = TRUE] : p \in payments}
    /\ UNCHANGED <<summary, visit, asks, charges, polls>>

-----------------------------------------------------------------------------
(* PaymentReturnComponent *)

PaymentReturn(q) ==
    /\ Opened("payment", q)
    /\ UNCHANGED <<offers, summary, delivery, asks, changes>>

\* A poll is answered, or fails, which counts as no answer.
PollConfirmed(n) ==
    /\ polls[n].asking > 0
    /\ polls' = [polls EXCEPT ![n].state = "confirmed", ![n].asking = @ - 1]
    /\ UNCHANGED <<offers, summary, delivery, visit, asks, payments, charges, changes>>

PollPending(n) ==
    /\ polls[n].asking > 0
    /\ polls' = IF polls[n].attempt > Delays
                THEN [polls EXCEPT ![n].state = "timeout", ![n].asking = @ - 1]
                ELSE [polls EXCEPT ![n].asking = @ - 1, ![n].timers = @ + 1]
    /\ UNCHANGED <<offers, summary, delivery, visit, asks, payments, charges, changes>>

TimerFires(n) ==
    /\ polls[n].timers > 0
    /\ polls' = [polls EXCEPT ![n].timers = @ - 1, ![n].attempt = @ + 1, ![n].asking = @ + 1]
    /\ UNCHANGED <<offers, summary, delivery, visit, asks, payments, charges, changes>>

RetryableAtAnyTime == polls[0].state \in {"timeout", "pending"}

Retryable == polls[0].state = "timeout"

\* The button is on the page once the polls have given up.
Retry ==
    /\ Retryable
    /\ polls' = [polls EXCEPT ![0] = [state |-> "pending", attempt |-> 1, asking |-> @.asking + 1, timers |-> 0]]
    /\ UNCHANGED <<offers, summary, delivery, visit, asks, payments, charges, changes>>

CheckoutNext ==
    \/ \E a \in asks : SummaryArrives(a) \/ SummaryFails(a) \/ MethodsArrive(a) \/ MethodsFail(a)
    \/ \E q \in Payables : Review(q) \/ Shipping(q) \/ PaymentReturn(q) \/ Jump(q)
    \/ \E m \in Methods : Select(m) \/ (\E r \in Rates[m] : UpdateMethod(m, r))
    \/ Pay \/ (\E p \in payments : SessionOpens(p) \/ SessionRefused(p))
    \/ \E n \in DOMAIN polls : PollConfirmed(n) \/ PollPending(n) \/ TimerFires(n)
    \/ Retry

CheckoutSpec == CheckoutInit /\ [][CheckoutNext]_checkoutVars

-----------------------------------------------------------------------------
(* Properties *)

\* A customer is charged the total that was on the screen, for every order in which the
\* answers for one quote and another arrive. The exceptions: paying while the step is
\* loading or after a load failed, calls for two quotes that crossed, a method that an
\* administrator edited after the list was read, and a step that the history has turned to
\* another quote, which it does not load.
ShownIsCharged == charges.excused \/ charges.shown = charges.charged

\* Every return page polls in one chain of its own: while it waits it has exactly one poll
\* under way or one timer set, once it is done it has neither, and it gives up after its
\* delays. It holds of the page that is open, after any answers, failures and retries, and
\* of every page that was left while a poll was under way: that poll is not cancelled, and
\* polls on beside a page that is opened later until it too is done.
OneChain ==
    \A n \in DOMAIN polls :
        /\ polls[n].asking + polls[n].timers = (IF polls[n].state = "pending" THEN 1 ELSE 0)
        /\ polls[n].attempt <= Delays + 1
=============================================================================
