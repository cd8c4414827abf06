------------------------------ MODULE Purchase ------------------------------
(***************************************************************************)
(* What a customer is promised by the checkout, with no mention of         *)
(* webhooks, polls, ledgers or requests: money is received for a quote,    *)
(* and a quote for which money was received gets one order, for ever, for  *)
(* exactly the amount of one of its payments.                              *)
(*                                                                         *)
(* OrderFulfilment is shown to implement this module.                      *)
(***************************************************************************)
CONSTANTS
    Quotes,    \* quotes that can be bought
    Sessions,  \* payment sessions of the payment provider
    Amounts    \* sums of money, in cents, a session may charge

VARIABLES
    payments,  \* money received: a set of Payment
    orders     \* the orders taken: a set of Order

Payment == [quote : Quotes, session : Sessions, amount : Amounts]
Order   == [quote : Quotes, session : Sessions, total : Amounts]

vars == <<payments, orders>>

Init == payments = {} /\ orders = {}

\* The customer pays. A session is paid at most once; nothing stops a customer
\* from paying two sessions of the same quote.
Pay(p) ==
    /\ \A earlier \in payments : earlier.session # p.session
    /\ payments' = payments \union {p}
    /\ UNCHANGED orders

\* The shop takes the order for a quote that has none, against one payment.
Fulfil(p) ==
    /\ p \in payments
    /\ \A o \in orders : o.quote # p.quote
    /\ orders' = orders \union
          {[quote |-> p.quote, session |-> p.session, total |-> p.amount]}
    /\ UNCHANGED payments

Next == \E p \in Payment : Pay(p) \/ Fulfil(p)

Spec == Init /\ [][Next]_vars
=============================================================================
