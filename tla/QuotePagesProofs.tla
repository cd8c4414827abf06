-------------------------- MODULE QuotePagesProofs --------------------------
(***************************************************************************)
(* The pages a quote is made, looked at and paid on. The checkout:         *)
(* ShownIsCharged and OneChain for any number of quotes, delivery methods, *)
(* calls under way, payments, edits and polls. The work bed:               *)
(* CutLayerIsThePath for every layout and any frames. The wizard:          *)
(* ScreenIsSaved and QuoteMatchesScreen for any number of drawings, bends, *)
(* calls under way, failures and reloads. Each part gives the invariant of *)
(* its module, strengthened until it is inductive, a lemma per action and  *)
(* the theorems.                                                           *)
(***************************************************************************)
EXTENDS CheckoutPages, WorkBed, Wizard, SummationProofs, FiniteSetTheorems, WellFoundedInduction, TLAPS

(* The checkout: module CheckoutPages *)

\* Methods with what they cost.
PriceLists == UNION {[D -> Nat] : D \in SUBSET Methods}

\* What a page may be about.
PayablesOrNone == Payables \union {None}

\* Types of the summary.
SummaryTypeOK ==
    summary \in [shown: PayablesOrNone, asked: PayablesOrNone,
                 loading: BOOLEAN, error: BOOLEAN, crossed: BOOLEAN]

\* Types of the delivery step.
DeliveryTypeOK ==
    delivery \in [shown: PriceLists, asked: PayablesOrNone, loading: BOOLEAN, error: BOOLEAN,
                  blocked: BOOLEAN, crossed: BOOLEAN, selected: Methods \union {None}, stale: BOOLEAN]

\* Types of the visit.
VisitTypeOK ==
    visit \in [page: {"away", "review", "shipping", "payment"}, quote: PayablesOrNone,
              opened: PayablesOrNone, submitting: BOOLEAN]

\* Types of the calls, payments, polls and timers.
CallsTypeOK ==
    /\ \A a \in asks : a.what \in {"summary", "delivery"} /\ a.quote \in Payables
    /\ payments \subseteq [quote: PayablesOrNone, method: Methods \union {None}, here: BOOLEAN,
                           shown: Nat, excused: BOOLEAN]

\* Types of the checkout pages.
CheckoutTypeOK ==
    /\ offers \in [Methods -> Nat]
    /\ SummaryTypeOK
    /\ DeliveryTypeOK
    /\ VisitTypeOK
    /\ CallsTypeOK

\* While no calls have crossed, the summary under way is the one that was asked for last;
\* once it is there it is shown, unless it failed.
SummaryFollows ==
    ~summary.crossed =>
        /\ summary.loading => \E a : a.quote = summary.asked /\ Under("summary") = {a}
        /\ ~summary.loading =>
            /\ Under("summary") = {}
            /\ summary.error \/ summary.shown = summary.asked

\* The list that is shown is the one of the server, and one of its methods is selected.
ListIsCurrent ==
    /\ delivery.shown = Resolved(delivery.asked)
    /\ delivery.blocked \/ delivery.selected \in DOMAIN delivery.shown

\* The same of the delivery methods, as long as nobody has edited one.
DeliveryFollows ==
    ~delivery.crossed =>
        /\ delivery.loading => \E a : a.quote = delivery.asked /\ Under("delivery") = {a}
        /\ ~delivery.loading =>
            /\ Under("delivery") = {}
            /\ delivery.error \/ delivery.stale \/ delivery.asked = None \/ ListIsCurrent

\* The shipping step has asked for the quote it was opened with.
StepHasAsked ==
    visit.page = "shipping" =>
        /\ visit.quote # None
        /\ summary.asked = visit.opened \/ summary.error \/ summary.crossed
        /\ delivery.asked = visit.opened \/ delivery.error \/ delivery.crossed

\* A payment under way is charged what was shown when it began.
PaymentsAgree == \A p \in payments : p.excused \/ p.shown = Charged(p.quote, p.method)

\* What a return page's polls can be: a timer is set only while there is a delay left.
Chains ==
    {c \in [state: {"away", "pending", "confirmed", "timeout"}, attempt: Nat,
             asking: {0, 1}, timers: {0, 1}] :
        /\ c.asking + c.timers = (IF c.state = "pending" THEN 1 ELSE 0)
        /\ c.attempt <= Delays + 1
        /\ c.timers = 1 => c.attempt <= Delays}

\* The polls of the page that is open and of those that were left.
PollInv == polls \in [0 .. MaxLeft -> Chains]

\* What the checkout and the payments agree on.
StoreInv ==
    /\ CheckoutTypeOK
    /\ SummaryFollows
    /\ DeliveryFollows
    /\ StepHasAsked
    /\ PaymentsAgree
    /\ ShownIsCharged

\* The inductive invariant of the checkout pages.
CheckoutInv == StoreInv /\ PollInv

-----------------------------------------------------------------------------
(* Price lists *)

\* The quantity of a method's price is a number.
LEMMA Products == \A m, n \in Nat : m * n \in Nat
  OBVIOUS

\* What the server resolves is a price list.
LEMMA ResolvedIsList ==
    ASSUME CheckoutConstants, offers \in [Methods -> Nat], NEW q \in Payables
    PROVE  Resolved(q) \in PriceLists
<1> DEFINE D == {n \in Methods : offers[n] > 0}
<1>1. \A m \in D : offers[m] * SheetsOf[q] \in Nat
  BY Products DEF CheckoutConstants
<1>2. [m \in D |-> offers[m] * SheetsOf[q]] \in [D -> Nat]
  BY <1>1
<1>3. D \in SUBSET Methods
  OBVIOUS
<1> QED BY <1>2, <1>3 DEF Resolved, PriceLists

\* A list that is not empty has a cheapest method, and First is one.
LEMMA FirstIsOnList ==
    ASSUME NEW list \in PriceLists, list # NoMethods
    PROVE  First(list) \in DOMAIN list
<1>1. PICK D \in SUBSET Methods : list \in [D -> Nat]
  BY DEF PriceLists
<1>2. D # {}
  BY <1>1 DEF NoMethods
<1> DEFINE Prices == {list[m] : m \in D}
<1>3. Prices \subseteq Nat /\ Prices # {}
  BY <1>1, <1>2
<1>4. \E x \in Prices : \A y \in Prices : ~(<<y, x>> \in OpToRel(<, Nat))
  <2> HIDE DEF Prices
  <2> QED BY <1>3, NatLessThanWellFounded, WFMin
<1>5. PICK m \in D : \A y \in Prices : ~(<<y, list[m]>> \in OpToRel(<, Nat))
  BY <1>4
<1>6. \A n \in D : ~(list[n] < list[m])
  BY <1>1, <1>5 DEF OpToRel
<1>7. m \in DOMAIN list /\ \A n \in DOMAIN list : list[m] <= list[n]
  BY <1>1, <1>6
<1> QED BY <1>7 DEF First

-----------------------------------------------------------------------------
(* The polls *)

\* A page whose polls change, the others as they were.
LEMMA OneChainChanges ==
    ASSUME PollInv, NEW n, NEW c \in Chains, polls' = [polls EXCEPT ![n] = c]
    PROVE  PollInv'
BY DEF PollInv, Chains

\* A poll under way, and a timer that is set, are the only one of their page.
LEMMA OneAtATime ==
    ASSUME Delays \in Nat, NEW c \in Chains
    PROVE  /\ c.attempt \in Nat /\ c.attempt <= Delays + 1 /\ c.asking \in {0, 1} /\ c.timers \in {0, 1}
           /\ c.asking # 0 => c.asking = 1 /\ c.timers = 0 /\ c.state = "pending"
           /\ c.timers # 0 => c.asking = 0 /\ c.timers = 1 /\ c.state = "pending" /\ c.attempt <= Delays
           /\ c.state = "timeout" => c.asking = 0 /\ c.timers = 0
           /\ c = [state |-> c.state, attempt |-> c.attempt, asking |-> c.asking, timers |-> c.timers]
BY DEF Chains

\* The records a page's polls go through are chains.
LEMMA ChainsAre ==
    ASSUME Delays \in Nat, NEW a \in Nat, a <= Delays + 1
    PROVE  /\ [state |-> "away", attempt |-> a, asking |-> 0, timers |-> 0] \in Chains
           /\ [state |-> "confirmed", attempt |-> a, asking |-> 0, timers |-> 0] \in Chains
           /\ [state |-> "timeout", attempt |-> a, asking |-> 0, timers |-> 0] \in Chains
           /\ [state |-> "pending", attempt |-> a, asking |-> 1, timers |-> 0] \in Chains
           /\ a <= Delays => [state |-> "pending", attempt |-> a, asking |-> 0, timers |-> 1] \in Chains
BY DEF Chains

\* Every step keeps the polls and timers of a page one chain.
LEMMA NextPoll == CheckoutConstants /\ PollInv /\ [CheckoutNext]_checkoutVars => PollInv'
<1> SUFFICES ASSUME CheckoutConstants, PollInv, [CheckoutNext]_checkoutVars PROVE PollInv'
  OBVIOUS
<1>0. /\ Delays \in Nat /\ MaxLeft \in Nat /\ 1 <= Delays + 1 /\ 0 \in DOMAIN polls
      /\ DOMAIN polls = 0 .. MaxLeft /\ \A n \in 0 .. MaxLeft : polls[n] \in Chains
  BY DEF PollInv, CheckoutConstants
<1>1. CASE polls' = polls
  BY <1>1 DEF PollInv, Chains
<1>2. NoPoll \in Chains
  BY <1>0, ChainsAre, 1 \in Nat DEF NoPoll
<1>3. CASE polls' = NoPolls
  BY <1>2, <1>3 DEF NoPolls, PollInv, Chains
<1>4. ASSUME NEW page, NEW q, Opened(page, q) PROVE PollInv'
  <2>1. Polling(page) = NoPoll \/ Polling(page) = [state |-> "pending", attempt |-> 1, asking |-> 1, timers |-> 0]
    BY DEF Polling, NoPoll
  <2>2. Polling(page) \in Chains
    BY <1>0, <1>2, <2>1, ChainsAre, 1 \in Nat
  <2>3. CASE polls[0].asking = 0
    BY <1>4, <2>2, <2>3, OneChainChanges DEF Opened, Left
  <2>4. CASE polls[0].asking # 0
    <3>1. PICK n \in 1 .. MaxLeft :
            polls' = [polls EXCEPT ![0] = Polling(page), ![n] = [polls[0] EXCEPT !.timers = 0]]
      BY <1>4, <2>4 DEF Opened, Left
    <3>2. polls[0] \in Chains
      BY <1>0
    <3>3. [polls[0] EXCEPT !.timers = 0] \in Chains
      BY <1>0, <2>4, <3>2 DEF Chains
    <3> HIDE DEF Chains
    <3> QED BY <1>0, <2>2, <3>1, <3>3 DEF PollInv, Chains
  <2> QED BY <2>3, <2>4
<1>5. ASSUME NEW n \in DOMAIN polls, PollConfirmed(n) PROVE PollInv'
  <2> DEFINE c == [state |-> "confirmed", attempt |-> polls[n].attempt, asking |-> 0, timers |-> 0]
  <2>1. polls[n] \in Chains
    BY <1>0
  <2>2. polls' = [polls EXCEPT ![n] = c]
    BY <1>0, <1>5, <2>1, OneAtATime DEF PollConfirmed
  <2>3. c \in Chains
    BY <1>0, <2>1, OneAtATime, ChainsAre
  <2> HIDE DEF c
  <2> QED BY <2>2, <2>3, OneChainChanges
<1>6. ASSUME NEW n \in DOMAIN polls, PollPending(n) PROVE PollInv'
  <2>1. polls[n] \in Chains
    BY <1>0
  <2>2. \E a \in Nat : /\ a <= Delays + 1
                       /\ polls[n] = [state |-> "pending", attempt |-> a, asking |-> 1, timers |-> 0]
    BY <1>0, <1>6, <2>1, OneAtATime DEF PollPending
  <2>3. PICK a \in Nat : /\ a <= Delays + 1
                        /\ polls[n] = [state |-> "pending", attempt |-> a, asking |-> 1, timers |-> 0]
    BY <2>2
  <2> DEFINE over == [state |-> "timeout", attempt |-> a, asking |-> 0, timers |-> 0]
             again == [state |-> "pending", attempt |-> a, asking |-> 0, timers |-> 1]
  <2>4. CASE a > Delays
    <3>1. polls' = [polls EXCEPT ![n].state = "timeout", ![n].asking = @ - 1]
      BY <1>6, <2>3, <2>4 DEF PollPending
    <3> DEFINE late == [polls[n] EXCEPT !.state = "timeout", !.asking = @ - 1]
    <3>2. polls' = [polls EXCEPT ![n] = late] /\ late = over
      <4>1. late = over
        <5> DEFINE was == [state |-> "pending", attempt |-> a, asking |-> 1, timers |-> 0]
               gone == [state |-> "timeout", attempt |-> a, asking |-> 1, timers |-> 0]
        <5>1. [was EXCEPT !.state = "timeout"] = gone
          OBVIOUS
        <5>2. [gone EXCEPT !.asking = 0] = over
          OBVIOUS
        <5>3. was.asking - 1 = 0
          OBVIOUS
        <5>4. late = [was EXCEPT !.state = "timeout", !.asking = was.asking - 1]
          BY <2>3
        <5> HIDE DEF was, gone, over, late
        <5> QED BY <5>1, <5>2, <5>3, <5>4
      <4>2. polls' = [polls EXCEPT ![n] = late]
        BY <1>0, <3>1
      <4> QED BY <4>1, <4>2
    <3> HIDE DEF late
    <3>3. over \in Chains
      BY <1>0, <2>3, ChainsAre
    <3> HIDE DEF over
    <3> QED BY <3>2, <3>3, OneChainChanges
  <2>5. CASE ~(a > Delays)
    <3>1. polls' = [polls EXCEPT ![n].asking = @ - 1, ![n].timers = @ + 1]
      BY <1>6, <2>3, <2>5 DEF PollPending
    <3>2. polls' = [polls EXCEPT ![n] = again]
      BY <1>0, <2>1, <2>3, <3>1
    <3>3. a <= Delays
      BY <1>0, <2>3, <2>5
    <3>4. again \in Chains
      BY <1>0, <2>3, <3>3, ChainsAre
    <3> HIDE DEF again
    <3> QED BY <3>2, <3>4, OneChainChanges
  <2> QED BY <2>4, <2>5
<1>7. ASSUME NEW n \in DOMAIN polls, TimerFires(n) PROVE PollInv'
  <2> DEFINE c == [state |-> "pending", attempt |-> polls[n].attempt + 1, asking |-> 1, timers |-> 0]
  <2>1. polls[n] \in Chains
    BY <1>0
  <2>2. polls' = [polls EXCEPT ![n] = c]
    BY <1>0, <1>7, <2>1, OneAtATime DEF TimerFires
  <2>3. polls[n].attempt + 1 \in Nat /\ polls[n].attempt + 1 <= Delays + 1
    BY <1>0, <1>7, <2>1, OneAtATime DEF TimerFires
  <2>4. c \in Chains
    BY <1>0, <2>3, ChainsAre
  <2> HIDE DEF c
  <2> QED BY <2>2, <2>4, OneChainChanges
<1>8. CASE Retry
  <2> DEFINE c == [state |-> "pending", attempt |-> 1, asking |-> 1, timers |-> 0]
  <2>1. polls[0] \in Chains
    BY <1>0
  <2>2. polls[0].state = "timeout"
    BY <1>8 DEF Retry, Retryable
  <2>3. polls[0].asking + 1 = 1
    BY <1>0, <2>1, <2>2, OneAtATime
  <2>4. polls' = [polls EXCEPT ![0] = c]
    BY <1>8, <2>3 DEF Retry
  <2>5. c \in Chains
    BY <1>0, ChainsAre, 1 \in Nat
  <2> HIDE DEF c
  <2> QED BY <2>4, <2>5, OneChainChanges
<1> HIDE DEF PollInv
<1> QED
  BY <1>1, <1>3, <1>4, <1>5, <1>6, <1>7, <1>8
  DEF CheckoutNext, checkoutVars, SummaryArrives, SummaryFails, MethodsArrive, MethodsFail, Review,
      Shipping, PaymentReturn, Jump, Select, UpdateMethod, Pay, SessionOpens, SessionRefused

-----------------------------------------------------------------------------
(* The store *)

\* What the server resolves depends on its rates only.
LEMMA SameRates == offers' = offers => \A q : Resolved(q)' = Resolved(q)
BY DEF Resolved

\* An answer with a summary.
LEMMA SummaryArrivesKeeps == CheckoutConstants /\ StoreInv /\ (\E a \in asks : SummaryArrives(a)) => StoreInv'
<1> SUFFICES ASSUME CheckoutConstants, StoreInv, NEW a \in asks, SummaryArrives(a) PROVE StoreInv'
  OBVIOUS
<1> USE DEF StoreInv, SummaryArrives
<1>1. a.quote \in Payables /\ a \in Under("summary")
  BY DEF CheckoutTypeOK, CallsTypeOK, Under
<1>2. /\ summary'.shown = a.quote /\ ~summary'.loading /\ summary'.asked = summary.asked
      /\ summary'.error = summary.error /\ summary'.crossed = summary.crossed
  BY DEF CheckoutTypeOK, SummaryTypeOK
<1>3. /\ Under("summary")' = Under("summary") \ {a}
      /\ Under("delivery")' = Under("delivery")
  BY DEF Under
<1>4. CheckoutTypeOK'
  BY ZenonT(60), <1>1 DEF CheckoutTypeOK, SummaryTypeOK, DeliveryTypeOK, VisitTypeOK, CallsTypeOK, PayablesOrNone
<1>5. SummaryFollows'
  BY <1>1, <1>2, <1>3 DEF SummaryFollows, CheckoutTypeOK, SummaryTypeOK
<1>6. DeliveryFollows'
  BY <1>3, SameRates DEF DeliveryFollows, ListIsCurrent
<1>7. StepHasAsked'
  BY <1>2 DEF StepHasAsked
<1>8. PaymentsAgree' /\ ShownIsCharged'
  BY DEF PaymentsAgree, ShownIsCharged, Charged
<1> QED BY <1>4, <1>5, <1>6, <1>7, <1>8

\* A summary that cannot be loaded.
LEMMA SummaryFailsKeeps == CheckoutConstants /\ StoreInv /\ (\E a \in asks : SummaryFails(a)) => StoreInv'
<1> SUFFICES ASSUME CheckoutConstants, StoreInv, NEW a \in asks, SummaryFails(a) PROVE StoreInv'
  OBVIOUS
<1> USE DEF StoreInv, SummaryFails
<1>1. a \in Under("summary")
  BY DEF CheckoutTypeOK, CallsTypeOK, Under
<1>2. /\ ~summary'.loading /\ summary'.error /\ summary'.crossed = summary.crossed
  BY DEF CheckoutTypeOK, SummaryTypeOK
<1>3. /\ Under("summary")' = Under("summary") \ {a}
      /\ Under("delivery")' = Under("delivery")
  BY DEF Under
<1>4. CheckoutTypeOK'
  BY ZenonT(60) DEF CheckoutTypeOK, SummaryTypeOK, DeliveryTypeOK, VisitTypeOK, CallsTypeOK, PayablesOrNone
<1>5. SummaryFollows'
  BY <1>1, <1>2, <1>3 DEF SummaryFollows, CheckoutTypeOK, SummaryTypeOK
<1>6. DeliveryFollows'
  BY <1>3, SameRates DEF DeliveryFollows, ListIsCurrent
<1>7. StepHasAsked'
  BY <1>2 DEF StepHasAsked
<1>8. PaymentsAgree' /\ ShownIsCharged'
  BY DEF PaymentsAgree, ShownIsCharged, Charged
<1> QED BY <1>4, <1>5, <1>6, <1>7, <1>8

\* An answer with the delivery methods.
LEMMA MethodsArriveKeeps == CheckoutConstants /\ StoreInv /\ (\E a \in asks : MethodsArrive(a)) => StoreInv'
<1> SUFFICES ASSUME CheckoutConstants, StoreInv, NEW a \in asks, MethodsArrive(a) PROVE StoreInv'
  OBVIOUS
<1> USE DEF StoreInv, MethodsArrive
<1>1. a.quote \in Payables /\ a \in Under("delivery")
  BY DEF CheckoutTypeOK, CallsTypeOK, Under
<1> DEFINE list == Resolved(a.quote)
<1>2. list \in PriceLists
  BY <1>1, ResolvedIsList DEF CheckoutTypeOK
<1>3. /\ DeliveryTypeOK'
      /\ delivery'.shown = list /\ ~delivery'.loading
      /\ delivery'.blocked \/ delivery'.selected \in DOMAIN list
      /\ delivery'.asked = delivery.asked /\ delivery'.error = delivery.error
      /\ delivery'.crossed = delivery.crossed /\ delivery'.stale = delivery.stale
  <2>1. CASE list # NoMethods
    <3>1. DOMAIN list \subseteq Methods
      BY DEF Resolved
    <3>2. First(list) \in DOMAIN list
      BY <1>2, <2>1, FirstIsOnList
    <3>3. Selection(list) \in DOMAIN list
      BY <3>2 DEF Selection
    <3> HIDE DEF list
    <3>4. delivery' = [delivery EXCEPT !.shown = list, !.blocked = FALSE, !.loading = FALSE,
                                       !.selected = Selection(list)]
      BY <2>1 DEF list
    <3> QED
      BY <1>2, <3>1, <3>3, <3>4 DEF CheckoutTypeOK, DeliveryTypeOK
  <2>2. CASE list = NoMethods
    <3>1. delivery' = [delivery EXCEPT !.shown = NoMethods, !.blocked = TRUE, !.loading = FALSE]
      BY <2>2
    <3> QED
      BY <1>2, <2>2, <3>1 DEF CheckoutTypeOK, DeliveryTypeOK
  <2> QED BY <2>1, <2>2
<1>4. /\ Under("delivery")' = Under("delivery") \ {a}
      /\ Under("summary")' = Under("summary")
  BY DEF Under
<1>5. CheckoutTypeOK'
  BY <1>3 DEF CheckoutTypeOK, SummaryTypeOK, VisitTypeOK, CallsTypeOK
<1>6. SummaryFollows'
  BY <1>4 DEF SummaryFollows
<1>7. DeliveryFollows'
  <2>1. Resolved(delivery.asked)' = Resolved(delivery'.asked)
    BY DEF Resolved
  <2> HIDE DEF list
  <2>2. SUFFICES ASSUME ~delivery'.crossed PROVE Under("delivery")' = {} /\ (delivery'.asked = a.quote)
    BY <1>3, <2>1 DEF DeliveryFollows, ListIsCurrent, list
  <2> QED
    BY <1>1, <1>3, <1>4, <2>2 DEF DeliveryFollows, CheckoutTypeOK, DeliveryTypeOK
<1>8. StepHasAsked'
  BY <1>3 DEF StepHasAsked
<1>9. PaymentsAgree' /\ ShownIsCharged'
  BY DEF PaymentsAgree, ShownIsCharged, Charged
<1> QED BY <1>5, <1>6, <1>7, <1>8, <1>9

\* Delivery methods that cannot be loaded.
LEMMA MethodsFailKeeps == CheckoutConstants /\ StoreInv /\ (\E a \in asks : MethodsFail(a)) => StoreInv'
<1> SUFFICES ASSUME CheckoutConstants, StoreInv, NEW a \in asks, MethodsFail(a) PROVE StoreInv'
  OBVIOUS
<1> USE DEF StoreInv, MethodsFail
<1>1. a \in Under("delivery")
  BY DEF CheckoutTypeOK, CallsTypeOK, Under
<1>2. ~delivery'.loading /\ delivery'.error /\ delivery'.crossed = delivery.crossed
  BY DEF CheckoutTypeOK, DeliveryTypeOK
<1>3. /\ Under("delivery")' = Under("delivery") \ {a}
      /\ Under("summary")' = Under("summary")
  BY DEF Under
<1>4. CheckoutTypeOK'
  BY DEF CheckoutTypeOK, SummaryTypeOK, DeliveryTypeOK, VisitTypeOK, CallsTypeOK, PayablesOrNone
<1>5. SummaryFollows'
  BY <1>3 DEF SummaryFollows
<1>6. DeliveryFollows'
  BY <1>1, <1>2, <1>3 DEF DeliveryFollows, CheckoutTypeOK, DeliveryTypeOK
<1>7. StepHasAsked'
  BY <1>2 DEF StepHasAsked
<1>8. PaymentsAgree' /\ ShownIsCharged'
  BY DEF PaymentsAgree, ShownIsCharged, Charged
<1> QED BY <1>4, <1>5, <1>6, <1>7, <1>8

-----------------------------------------------------------------------------
(* The steps *)

\* A visit forgets which page the payments under way were begun on.
LEMMA PaymentsElsewhere ==
    ASSUME StoreInv, NEW page, NEW q, Opened(page, q), offers' = offers
    PROVE  payments' \subseteq [quote: PayablesOrNone, method: Methods \union {None}, here: BOOLEAN,
                                shown: Nat, excused: BOOLEAN]
           /\ PaymentsAgree' /\ ShownIsCharged'
<1>1. \A p \in payments : p \in [quote: PayablesOrNone, method: Methods \union {None}, here: BOOLEAN,
                                 shown: Nat, excused: BOOLEAN]
  BY DEF StoreInv, CheckoutTypeOK, CallsTypeOK
<1>2. \A p \in payments' : \E r \in payments :
          /\ p \in [quote: PayablesOrNone, method: Methods \union {None}, here: BOOLEAN,
                    shown: Nat, excused: BOOLEAN]
          /\ p.quote = r.quote /\ p.method = r.method /\ p.shown = r.shown /\ p.excused = r.excused
  BY <1>1 DEF Opened
<1> QED
  BY <1>2 DEF StoreInv, PaymentsAgree, ShownIsCharged, Charged, Opened, NoCharge

\* A visit that loads the summary: what is under way, and that the quote has been asked for.
LEMMA LoadSummaryKeeps ==
    ASSUME CheckoutConstants, StoreInv, NEW q \in Payables, LoadSummary(q),
           Under("summary")' = Under("summary") \union (IF summary' = summary THEN {} ELSE {Ask("summary", q)})
    PROVE  SummaryTypeOK' /\ SummaryFollows' /\ summary'.asked = q
<1>1. CASE summary.asked = q
  <2>1. summary' = summary /\ Under("summary")' = Under("summary")
    BY <1>1 DEF LoadSummary
  <2> QED BY <1>1, <2>1 DEF StoreInv, CheckoutTypeOK, SummaryTypeOK, SummaryFollows
<1>2. CASE summary.asked # q
  <2>1. /\ summary'.asked = q /\ summary'.loading /\ (summary'.crossed <=> Under("summary") # {})
        /\ SummaryTypeOK'
    BY <1>2 DEF LoadSummary, StoreInv, CheckoutTypeOK, SummaryTypeOK, PayablesOrNone
  <2>2. Under("summary")' = Under("summary") \union {Ask("summary", q)}
    BY <1>2, <2>1
  <2>3. Ask("summary", q).quote = q
    BY DEF Ask
  <2> QED BY <2>1, <2>2, <2>3 DEF SummaryFollows
<1> QED BY <1>1, <1>2

\* The same of the delivery methods.
LEMMA LoadShippingMethodsKeeps ==
    ASSUME CheckoutConstants, StoreInv, NEW q \in Payables, LoadShippingMethods(q), offers' = offers,
           Under("delivery")' = Under("delivery") \union (IF delivery' = delivery THEN {} ELSE {Ask("delivery", q)})
    PROVE  DeliveryTypeOK' /\ DeliveryFollows' /\ delivery'.asked = q
<1>1. CASE delivery.asked = q
  <2>1. delivery' = delivery /\ Under("delivery")' = Under("delivery")
    BY <1>1 DEF LoadShippingMethods
  <2> QED BY <1>1, <2>1, SameRates DEF StoreInv, CheckoutTypeOK, DeliveryTypeOK, DeliveryFollows, ListIsCurrent
<1>2. CASE delivery.asked # q
  <2>1. /\ delivery'.asked = q /\ delivery'.loading /\ (delivery'.crossed <=> Under("delivery") # {})
        /\ DeliveryTypeOK'
    BY <1>2 DEF LoadShippingMethods, StoreInv, CheckoutTypeOK, DeliveryTypeOK, PayablesOrNone
  <2>2. Under("delivery")' = Under("delivery") \union {Ask("delivery", q)}
    BY <1>2, <2>1
  <2>3. Ask("delivery", q).quote = q
    BY DEF Ask
  <2> QED BY <2>1, <2>2, <2>3 DEF DeliveryFollows
<1> QED BY <1>1, <1>2

\* What a visit opens.
LEMMA OpenedVisit ==
    ASSUME CheckoutConstants, NEW page \in {"review", "shipping", "payment"},
          NEW q \in Payables, Opened(page, q)
    PROVE  VisitTypeOK' /\ visit'.page = page /\ visit'.quote = q /\ visit'.opened = q /\ q # None
BY DEF CheckoutConstants, Opened, VisitTypeOK, PayablesOrNone

\* The review page asks for the quote.
LEMMA ReviewKeeps == CheckoutConstants /\ StoreInv /\ (\E q \in Payables : Review(q)) => StoreInv'
<1> SUFFICES ASSUME CheckoutConstants, StoreInv, NEW q \in Payables, Review(q) PROVE StoreInv'
  OBVIOUS
<1>1. Opened("review", q) /\ LoadSummary(q) /\ offers' = offers /\ delivery' = delivery
  BY DEF Review
<1>2. /\ Under("summary")' = Under("summary") \union (IF summary' = summary THEN {} ELSE {Ask("summary", q)})
      /\ Under("delivery")' = Under("delivery")
  BY DEF Review, Under, Ask
<1>3. SummaryTypeOK' /\ SummaryFollows'
  BY <1>1, <1>2, LoadSummaryKeeps
<1>4. VisitTypeOK' /\ visit'.page = "review"
  BY <1>1, OpenedVisit
<1>5. CallsTypeOK'
  <2>1. \A a \in asks' : a \in asks \/ a = Ask("summary", q)
    BY DEF Review
  <2> QED BY <1>1, <2>1, PaymentsElsewhere DEF Ask, CallsTypeOK, StoreInv, CheckoutTypeOK
<1>6. CheckoutTypeOK'
  BY <1>1, <1>3, <1>4, <1>5 DEF StoreInv, CheckoutTypeOK, DeliveryTypeOK
<1>7. DeliveryFollows'
  BY <1>1, <1>2, SameRates DEF StoreInv, DeliveryFollows, ListIsCurrent
<1>8. StepHasAsked'
  BY <1>4 DEF StepHasAsked
<1> QED BY <1>1, <1>3, <1>6, <1>7, <1>8, PaymentsElsewhere DEF StoreInv

\* The delivery step asks for its methods.
LEMMA ShippingKeeps == CheckoutConstants /\ StoreInv /\ (\E q \in Payables : Shipping(q)) => StoreInv'
<1> SUFFICES ASSUME CheckoutConstants, StoreInv, NEW q \in Payables, Shipping(q) PROVE StoreInv'
  OBVIOUS
<1>1. Opened("shipping", q) /\ LoadSummary(q) /\ LoadShippingMethods(q) /\ offers' = offers
  BY DEF Shipping
<1>2. /\ Under("summary")' = Under("summary") \union (IF summary' = summary THEN {} ELSE {Ask("summary", q)})
      /\ Under("delivery")' = Under("delivery") \union (IF delivery' = delivery THEN {} ELSE {Ask("delivery", q)})
  BY DEF Shipping, Under, Ask
<1>3. SummaryTypeOK' /\ SummaryFollows' /\ summary'.asked = q
  BY <1>1, <1>2, LoadSummaryKeeps
<1>4. DeliveryTypeOK' /\ DeliveryFollows' /\ delivery'.asked = q
  BY <1>1, <1>2, LoadShippingMethodsKeeps
<1>5. VisitTypeOK' /\ visit'.page = "shipping" /\ visit'.quote = q /\ visit'.opened = q /\ q # None
  BY <1>1, OpenedVisit
<1>6. CallsTypeOK'
  <2>1. \A a \in asks' : a \in asks \/ a = Ask("summary", q) \/ a = Ask("delivery", q)
    BY DEF Shipping
  <2> QED BY <1>1, <2>1, PaymentsElsewhere DEF Ask, CallsTypeOK, StoreInv, CheckoutTypeOK
<1>7. CheckoutTypeOK'
  BY <1>1, <1>3, <1>4, <1>5, <1>6 DEF StoreInv, CheckoutTypeOK
<1>8. StepHasAsked'
  BY <1>3, <1>4, <1>5 DEF StepHasAsked
<1> QED BY <1>1, <1>3, <1>4, <1>7, <1>8, PaymentsElsewhere DEF StoreInv

\* The return from the payment leaves summary and delivery as they are.
LEMMA PaymentReturnKeeps == CheckoutConstants /\ StoreInv /\ (\E q \in Payables : PaymentReturn(q)) => StoreInv'
<1> SUFFICES ASSUME CheckoutConstants, StoreInv, NEW q \in Payables, PaymentReturn(q) PROVE StoreInv'
  OBVIOUS
<1>1. Opened("payment", q) /\ offers' = offers /\ UNCHANGED <<summary, delivery, asks>>
  BY DEF PaymentReturn
<1>2. VisitTypeOK' /\ visit'.page = "payment"
  BY <1>1, OpenedVisit
<1>3. CheckoutTypeOK'
  BY <1>1, <1>2, PaymentsElsewhere
  DEF StoreInv, CheckoutTypeOK, SummaryTypeOK, DeliveryTypeOK, CallsTypeOK
<1>4. SummaryFollows' /\ DeliveryFollows'
  BY <1>1, SameRates DEF StoreInv, SummaryFollows, DeliveryFollows, ListIsCurrent, Under
<1>5. StepHasAsked'
  BY <1>2 DEF StepHasAsked
<1> QED BY <1>1, <1>3, <1>4, <1>5, PaymentsElsewhere DEF StoreInv

\* A method is chosen.
LEMMA SelectKeeps == CheckoutConstants /\ StoreInv /\ (\E m \in Methods : Select(m)) => StoreInv'
<1> SUFFICES ASSUME CheckoutConstants, StoreInv, NEW m \in Methods, Select(m) PROVE StoreInv'
  OBVIOUS
<1> USE DEF StoreInv, Select
<1>1. /\ DeliveryTypeOK'
      /\ delivery'.selected \in DOMAIN delivery'.shown
      /\ delivery'.shown = delivery.shown /\ delivery'.loading = delivery.loading
      /\ delivery'.asked = delivery.asked /\ delivery'.error = delivery.error
      /\ delivery'.crossed = delivery.crossed /\ delivery'.stale = delivery.stale
  BY DEF CheckoutTypeOK, DeliveryTypeOK
<1>2. CheckoutTypeOK'
  BY <1>1 DEF CheckoutTypeOK, SummaryTypeOK, VisitTypeOK, CallsTypeOK
<1>3. SummaryFollows' /\ DeliveryFollows' /\ StepHasAsked'
  BY <1>1, SameRates DEF SummaryFollows, DeliveryFollows, StepHasAsked, ListIsCurrent, Under
<1>4. PaymentsAgree' /\ ShownIsCharged'
  BY DEF PaymentsAgree, ShownIsCharged, Charged
<1> QED BY <1>2, <1>3, <1>4

\* What the step shows is a number.
LEMMA TotalIsNat == CheckoutConstants /\ StoreInv => PartsShown + DeliveryShown \in Nat
<1> SUFFICES ASSUME CheckoutConstants, StoreInv PROVE PartsShown + DeliveryShown \in Nat
  OBVIOUS
<1>1. PartsShown \in Nat
  BY DEF StoreInv, CheckoutTypeOK, SummaryTypeOK, PayablesOrNone, PartsShown, CheckoutConstants
<1>2. PICK D \in SUBSET Methods : delivery.shown \in [D -> Nat]
  BY DEF StoreInv, CheckoutTypeOK, DeliveryTypeOK, PriceLists
<1>3. DeliveryShown \in Nat
  BY <1>2 DEF DeliveryShown
<1> QED BY <1>1, <1>3

\* What Pay shows is what is charged, unless it is excused.
LEMMA PayAgrees ==
    ASSUME CheckoutConstants, StoreInv, visit.page = "shipping", ~Blocked, ~Loading,
           ~summary.error, ~delivery.error, ~summary.crossed, ~delivery.crossed, ~delivery.stale,
           visit.quote = visit.opened
    PROVE  PartsShown + DeliveryShown = Charged(visit.quote, delivery.selected)
<1>1. /\ summary.shown = visit.quote /\ visit.quote # None
      /\ delivery.asked = visit.quote
  BY DEF StoreInv, SummaryFollows, StepHasAsked, Loading, CheckoutTypeOK, SummaryTypeOK, DeliveryTypeOK
<1>2. PartsShown = Worth[visit.quote]
  BY <1>1 DEF PartsShown
<1>3. delivery.shown = Resolved(visit.quote) /\ delivery.selected \in DOMAIN delivery.shown
  BY <1>1 DEF StoreInv, DeliveryFollows, ListIsCurrent, Loading, Blocked, CheckoutTypeOK, DeliveryTypeOK
<1>4. DeliveryShown = offers[delivery.selected] * SheetsOf[visit.quote]
  BY <1>3 DEF DeliveryShown, Resolved
<1> QED BY <1>2, <1>4 DEF Charged

\* The payment is asked for.
LEMMA PayKeeps == CheckoutConstants /\ StoreInv /\ Pay => StoreInv'
<1> SUFFICES ASSUME CheckoutConstants, StoreInv, Pay PROVE StoreInv'
  OBVIOUS
<1> DEFINE excused == Loading \/ summary.error \/ delivery.error
                      \/ summary.crossed \/ delivery.crossed \/ delivery.stale
                      \/ visit.quote # visit.opened
           new == [quote |-> visit.quote, method |-> delivery.selected, here |-> TRUE,
                   shown |-> PartsShown + DeliveryShown, excused |-> excused]
<1>1. payments' = payments \union {new}
  BY DEF Pay
<1>2. excused \in BOOLEAN
  OBVIOUS
<1>3. excused \/ new.shown = Charged(new.quote, new.method)
  BY PayAgrees DEF Pay
<1>4. new.excused = excused /\ new \in [quote: PayablesOrNone, method: Methods \union {None}, here: BOOLEAN,
                                        shown: Nat, excused: BOOLEAN]
  <2> HIDE DEF excused
  <2> QED
    BY <1>2, TotalIsNat DEF StoreInv, CheckoutTypeOK, VisitTypeOK, DeliveryTypeOK
<1> HIDE DEF excused, new
<1>5. VisitTypeOK' /\ visit'.page = visit.page /\ visit'.quote = visit.quote /\ visit'.opened = visit.opened
  BY DEF Pay, StoreInv, CheckoutTypeOK, VisitTypeOK
<1>6. CheckoutTypeOK'
  BY <1>1, <1>4, <1>5 DEF Pay, StoreInv, CheckoutTypeOK, SummaryTypeOK, DeliveryTypeOK, CallsTypeOK
<1>7. SummaryFollows' /\ DeliveryFollows' /\ StepHasAsked' /\ ShownIsCharged'
  BY <1>5, SameRates
  DEF Pay, StoreInv, SummaryFollows, DeliveryFollows, StepHasAsked, ListIsCurrent, Under, ShownIsCharged
<1>8. PaymentsAgree'
  BY <1>1, <1>3, <1>4 DEF Pay, StoreInv, PaymentsAgree, Charged
<1> QED BY <1>6, <1>7, <1>8 DEF StoreInv

\* The server opens the session of a payment, at the price it resolves.
LEMMA SessionOpensKeeps == CheckoutConstants /\ StoreInv /\ (\E p \in payments : SessionOpens(p)) => StoreInv'
<1> SUFFICES ASSUME CheckoutConstants, StoreInv, NEW p \in payments, SessionOpens(p) PROVE StoreInv'
  OBVIOUS
<1>1. NoMethods \in PriceLists
  <2>1. NoMethods \in [{} -> Nat]
    BY DEF NoMethods
  <2> QED BY <2>1 DEF PriceLists
<1>2. CheckoutTypeOK'
  BY <1>1 DEF SessionOpens, StoreInv, CheckoutTypeOK, SummaryTypeOK, DeliveryTypeOK, VisitTypeOK, CallsTypeOK,
     NoSummary, NoDelivery, NoVisit, PayablesOrNone
<1>3. SummaryFollows' /\ DeliveryFollows' /\ StepHasAsked' /\ PaymentsAgree'
  BY DEF SessionOpens, SummaryFollows, DeliveryFollows, StepHasAsked, PaymentsAgree, Under,
     NoSummary, NoDelivery, NoVisit
<1>4. ShownIsCharged'
  BY DEF SessionOpens, StoreInv, PaymentsAgree, ShownIsCharged
<1> QED BY <1>2, <1>3, <1>4 DEF StoreInv

\* A session that is refused.
LEMMA SessionRefusedKeeps == CheckoutConstants /\ StoreInv /\ (\E p \in payments : SessionRefused(p))
      => StoreInv'
<1> SUFFICES ASSUME CheckoutConstants, StoreInv, NEW p \in payments, SessionRefused(p) PROVE StoreInv'
  OBVIOUS
<1>1. VisitTypeOK' /\ visit'.page = visit.page /\ visit'.quote = visit.quote /\ visit'.opened = visit.opened
  BY DEF SessionRefused, StoreInv, CheckoutTypeOK, VisitTypeOK
<1>2. CheckoutTypeOK'
  BY <1>1 DEF SessionRefused, StoreInv, CheckoutTypeOK, SummaryTypeOK, DeliveryTypeOK, CallsTypeOK
<1>3. SummaryFollows' /\ DeliveryFollows' /\ StepHasAsked'
  BY <1>1, SameRates
  DEF SessionRefused, StoreInv, SummaryFollows, DeliveryFollows, StepHasAsked, ListIsCurrent, Under
<1>4. PaymentsAgree' /\ ShownIsCharged'
  BY DEF SessionRefused, StoreInv, PaymentsAgree, ShownIsCharged, Charged
<1> QED BY <1>2, <1>3, <1>4 DEF StoreInv

\* A rate is edited: it excuses the payments under way.
LEMMA UpdateMethodKeeps ==
    CheckoutConstants /\ StoreInv /\ (\E m \in Methods : \E r \in Rates[m] : UpdateMethod(m, r)) => StoreInv'
<1> SUFFICES ASSUME CheckoutConstants, StoreInv, NEW m \in Methods, NEW r \in Rates[m], UpdateMethod(m, r)
             PROVE  StoreInv'
  OBVIOUS
<1>1. offers' \in [Methods -> Nat]
  BY DEF UpdateMethod, StoreInv, CheckoutTypeOK, CheckoutConstants
<1>2. /\ DeliveryTypeOK' /\ delivery'.stale
      /\ delivery'.loading = delivery.loading
      /\ delivery'.asked = delivery.asked /\ delivery'.error = delivery.error
      /\ delivery'.crossed = delivery.crossed
  BY DEF UpdateMethod, StoreInv, CheckoutTypeOK, DeliveryTypeOK
<1>3. \A p \in payments' :
          /\ p.excused
          /\ p \in [quote: PayablesOrNone, method: Methods \union {None}, here: BOOLEAN,
                    shown: Nat, excused: BOOLEAN]
  <2>1. \A p \in payments : p \in [quote: PayablesOrNone, method: Methods \union {None}, here: BOOLEAN,
                                   shown: Nat, excused: BOOLEAN]
    BY DEF StoreInv, CheckoutTypeOK, CallsTypeOK
  <2> QED BY <2>1 DEF UpdateMethod
<1>4. CheckoutTypeOK'
  BY <1>1, <1>2, <1>3 DEF UpdateMethod, StoreInv, CheckoutTypeOK, SummaryTypeOK, VisitTypeOK, CallsTypeOK
<1>5. SummaryFollows' /\ DeliveryFollows' /\ StepHasAsked' /\ ShownIsCharged'
  BY <1>2 DEF UpdateMethod, StoreInv, SummaryFollows, DeliveryFollows, StepHasAsked, Under, ShownIsCharged
<1>6. PaymentsAgree'
  BY <1>3 DEF PaymentsAgree
<1> QED BY <1>4, <1>5, <1>6 DEF StoreInv

\* The history turns the step to another quote; what is under way and what is shown stay.
LEMMA JumpKeeps == CheckoutConstants /\ StoreInv /\ (\E q \in Payables : Jump(q)) => StoreInv'
<1> SUFFICES ASSUME CheckoutConstants, StoreInv, NEW q \in Payables, Jump(q) PROVE StoreInv'
  OBVIOUS
<1>1. /\ VisitTypeOK' /\ visit'.page = visit.page /\ visit'.opened = visit.opened
      /\ visit'.quote = q /\ q # None
  BY DEF Jump, StoreInv, CheckoutTypeOK, VisitTypeOK, PayablesOrNone, CheckoutConstants
<1>2. CheckoutTypeOK'
  BY <1>1 DEF Jump, StoreInv, CheckoutTypeOK, SummaryTypeOK, DeliveryTypeOK, CallsTypeOK
<1>3. SummaryFollows' /\ DeliveryFollows' /\ StepHasAsked'
  BY <1>1, SameRates
  DEF Jump, StoreInv, SummaryFollows, DeliveryFollows, StepHasAsked, ListIsCurrent, Under
<1>4. PaymentsAgree' /\ ShownIsCharged'
  BY DEF Jump, StoreInv, PaymentsAgree, ShownIsCharged, Charged
<1> QED BY <1>2, <1>3, <1>4 DEF StoreInv

\* The polls are no business of the store's.
LEMMA PollKeeps ==
    StoreInv /\ UNCHANGED <<offers, summary, delivery, visit, asks, payments, charges>> => StoreInv'
BY SameRates
DEF StoreInv, CheckoutTypeOK, SummaryTypeOK, DeliveryTypeOK, VisitTypeOK, CallsTypeOK, SummaryFollows,
    DeliveryFollows, ListIsCurrent, StepHasAsked, PaymentsAgree, ShownIsCharged, Charged, Under

-----------------------------------------------------------------------------
(* The theorems *)

\* At the start no page is open.
LEMMA CheckoutInitInv == CheckoutConstants /\ CheckoutInit => CheckoutInv
<1> SUFFICES ASSUME CheckoutConstants, CheckoutInit PROVE CheckoutInv
  OBVIOUS
<1>1. NoMethods \in PriceLists
  <2>1. NoMethods \in [{} -> Nat]
    BY DEF NoMethods
  <2> QED BY <2>1 DEF PriceLists
<1>2. CheckoutTypeOK
  BY <1>1 DEF CheckoutInit, CheckoutConstants, CheckoutTypeOK, SummaryTypeOK, DeliveryTypeOK, VisitTypeOK,
     CallsTypeOK, NoSummary, NoDelivery, NoVisit, PayablesOrNone
<1>3. SummaryFollows /\ DeliveryFollows /\ StepHasAsked /\ PaymentsAgree /\ ShownIsCharged
  BY DEF CheckoutInit, SummaryFollows, DeliveryFollows, StepHasAsked, PaymentsAgree, ShownIsCharged, Under,
     NoSummary, NoDelivery, NoVisit, NoCharge
<1>4. PollInv
  BY DEF CheckoutInit, CheckoutConstants, PollInv, Chains, NoPolls, NoPoll
<1> QED BY <1>2, <1>3, <1>4 DEF CheckoutInv, StoreInv

\* CheckoutInv is inductive, for any quotes, methods, rates and bounds.
THEOREM CheckoutInvariant == CheckoutSpec => []CheckoutInv
<1>1. CheckoutInit => CheckoutInv
  BY CheckoutConstants, CheckoutInitInv
<1>2. CheckoutInv /\ [CheckoutNext]_checkoutVars => CheckoutInv'
  <2> SUFFICES ASSUME CheckoutInv, [CheckoutNext]_checkoutVars PROVE CheckoutInv'
    OBVIOUS
  <2> USE CheckoutConstants
  <2>1. PollInv'
    BY NextPoll DEF CheckoutInv
  <2>2. StoreInv
    BY SMTT(60) DEF CheckoutInv
  <2>3. CASE (\E n \in DOMAIN polls : PollConfirmed(n) \/ PollPending(n) \/ TimerFires(n))
             \/ Retry \/ UNCHANGED checkoutVars
    BY Zenon, <2>1, <2>2, <2>3, PollKeeps DEF PollConfirmed, PollPending, TimerFires, Retry, checkoutVars, CheckoutInv
  <2> QED
    BY <2>1, <2>2, <2>3, SummaryArrivesKeeps, SummaryFailsKeeps, MethodsArriveKeeps, MethodsFailKeeps,
       ReviewKeeps, ShippingKeeps, PaymentReturnKeeps, JumpKeeps, SelectKeeps, UpdateMethodKeeps, PayKeeps,
       SessionOpensKeeps, SessionRefusedKeeps
    DEF CheckoutNext, CheckoutInv
<1> QED BY <1>1, <1>2, PTL DEF CheckoutSpec

\* Whatever the order of the answers, a customer is charged the total on the screen, but
\* for the exceptions that ShownIsCharged names.
THEOREM ChargesAgree == CheckoutSpec => []ShownIsCharged
<1>1. CheckoutInv => ShownIsCharged
  BY DEF CheckoutInv, StoreInv
<1> QED BY <1>1, CheckoutInvariant, PTL

\* The page that is open, and every return page that was left with a poll under way, has
\* one poll under way or one timer set while it waits, and gives up after its delays,
\* however many delays and pages there are.
THEOREM PollsAreOneChain == CheckoutSpec => []OneChain
<1>1. CheckoutInv => OneChain
  BY DEF CheckoutInv, PollInv, Chains, OneChain
<1> QED BY <1>1, CheckoutInvariant, PTL

-----------------------------------------------------------------------------
(* The work bed: module WorkBed *)

(* The operators of the work bed *)

\* Sequences of lengths, one after the other, are a sequence of lengths.
LEMMA FlattenIs ==
    ASSUME NEW T, NEW seqs \in Seq(Seq(T))
    PROVE  FlattenSeq(seqs) \in Seq(T)
<1> DEFINE n == Len(seqs)
           F == [i \in 2 .. n |-> [flat \in Seq(T) |-> flat \o seqs[i]]]
           Is(f) == f = [i \in 1 .. Len(seqs) |-> IF i = 1 THEN seqs[i] ELSE f[i - 1] \o seqs[i]]
<1>1. n \in Nat /\ \A i \in 1 .. n : seqs[i] \in Seq(T)
  OBVIOUS
<1>2. CASE n = 0
  BY <1>2 DEF FlattenSeq
<1>3. CASE n # 0
  <2>1. F \in [2 .. n -> [Seq(T) -> Seq(T)]] /\ 2 .. n = 1 + 1 .. n /\ 1 <= n /\ 1 \in Nat
    BY <1>1, <1>3
  <2>2. \E f \in [1 .. n -> Seq(T)] : f[1] = seqs[1] /\ \A i \in 2 .. n : f[i] = F[i][f[i - 1]]
    <3>1. Recursive(Seq(T), 1, n, seqs[1], F)
      BY <1>1, <1>3, <2>1 DEF Recursive
    <3> HIDE DEF F, n
    <3>2. \E f : Follows(Seq(T), 1, n, seqs[1], F, f)
      BY <3>1, Recursion
    <3> QED BY <2>1, <3>2 DEF Follows
  <2>3. \E f : Is(f)
    <3>1. PICK f \in [1 .. n -> Seq(T)] : f[1] = seqs[1] /\ \A i \in 2 .. n : f[i] = F[i][f[i - 1]]
      BY <2>2
    <3>2. \A i \in 1 .. n : f[i] = IF i = 1 THEN seqs[i] ELSE f[i - 1] \o seqs[i]
      <4> TAKE i \in 1 .. n
      <4>1. i # 1 => i \in 2 .. n /\ i - 1 \in 1 .. n
        BY <1>1
      <4>2. i # 1 => f[i - 1] \in Seq(T) /\ f[i] = F[i][f[i - 1]]
        BY <3>1, <4>1
      <4>3. i # 1 => F[i] = [flat \in Seq(T) |-> flat \o seqs[i]]
        BY <4>1
      <4> HIDE DEF F
      <4> QED BY <3>1, <4>2, <4>3
    <3>3. f = [i \in 1 .. n |-> f[i]]
      BY <3>1
    <3> QED BY <3>2, <3>3
  <2>4. PICK g : Is(g) /\ FlattenSeq(seqs) = g[n]
    <3>1. FlattenSeq(seqs) = (CHOOSE f : Is(f))[n]
      BY <1>1, <1>3 DEF FlattenSeq
    <3> HIDE DEF Is
    <3> QED BY <2>3, <3>1
  <2>5. g[1] = seqs[1] /\ \A i \in 2 .. n : g[i] = g[i - 1] \o seqs[i]
    <3>1. \A i \in 1 .. n : g[i] = IF i = 1 THEN seqs[i] ELSE g[i - 1] \o seqs[i]
      BY <2>4
    <3>2. 1 \in 1 .. n /\ \A i \in 2 .. n : i \in 1 .. n /\ i # 1
      BY <1>1, <1>3
    <3> QED BY <3>1, <3>2
  <2>6. g[1] \in Seq(T) /\ \A i \in 2 .. n : g[i - 1] \in Seq(T) => g[i] \in Seq(T)
    <3>1. \A i \in 2 .. n : seqs[i] \in Seq(T)
      BY <1>1
    <3>2. seqs[1] \in Seq(T)
      BY <1>1, <1>3
    <3> HIDE DEF Is, n, F
    <3>3. ASSUME NEW i \in 2 .. n, g[i - 1] \in Seq(T) PROVE g[i] \in Seq(T)
      <4>1. \A u, v \in Seq(T) : u \o v \in Seq(T)
        OBVIOUS
      <4>2. g[i] = g[i - 1] \o seqs[i]
        BY <2>5
      <4> QED BY <3>1, <3>3, <4>1, <4>2
    <3>4. g[1] \in Seq(T)
      BY <2>5, <3>2
    <3> QED BY <3>3, <3>4
  <2>7. \A i \in 1 .. n : g[i] \in Seq(T)
    <3> HIDE DEF n, Is
    <3> QED BY <1>1, <2>1, <2>6, RecursionStays
  <2>8. n \in 1 .. n
    BY <1>1, <1>3
  <2> QED BY <2>4, <2>7, <2>8
<1> QED BY <1>2, <1>3

-----------------------------------------------------------------------------
(* The invariant of the work bed *)

\* Types of the canvas.
BedTypeOK ==
    /\ segments \in Seq(Nat)
    /\ bed \in [index : 0 .. Len(segments), progress : Nat, travelled : Nat, pct : Nat]
    /\ bed.index < Len(segments) => bed.progress <= segments[bed.index + 1]
    /\ raf \in BOOLEAN /\ running \in BOOLEAN /\ destroyed \in BOOLEAN

\* The inductive invariant of the canvas: what has been left out of the layer has been
\* travelled.
WorkBedInv == BedTypeOK /\ gap \subseteq 1 .. bed.travelled /\ CutLayerIsThePath

\* Where the laser may be in the course of a frame of a units.
Ats(a) ==
    {at \in [index : 0 .. Len(segments), progress : Nat, left : 0 .. a] :
        /\ at.index < Len(segments) => at.progress <= segments[at.index + 1]
        /\ Before(at.index) + at.progress + at.left = bed.travelled + a}

\* The units before a segment are the sum of those before it.
LEMMA BeforeIs ==
    ASSUME BedTypeOK
    PROVE  /\ \A i \in 0 .. Len(segments) : Before(i) \in Nat
           /\ Before(0) = 0 /\ Whole \in Nat
           /\ \A i \in 0 .. Len(segments) : i # Len(segments) => Before(i + 1) = Before(i) + segments[i + 1]
<1>1. segments \in Seq(Nat) /\ Len(segments) \in Nat
  BY DEF BedTypeOK
<1>2. /\ Sums(segments) \in [0 .. Len(segments) -> Nat] /\ Sums(segments)[0] = 0
      /\ \A i \in 1 .. Len(segments) : Sums(segments)[i] = Sums(segments)[i - 1] + segments[i]
  BY <1>1, SumsAre
<1>3. ASSUME NEW i \in 0 .. Len(segments), i # Len(segments) PROVE Before(i + 1) = Before(i) + segments[i + 1]
  <2>1. i + 1 \in 1 .. Len(segments) /\ (i + 1) - 1 = i
    BY <1>1, <1>3
  <2> QED BY <1>2, <2>1 DEF Before
<1> QED BY <1>1, <1>2, <1>3 DEF Before, Whole

\* A turn of the loop moves the laser by what it takes off the advance.
LEMMA TurnKeeps ==
    ASSUME BedTypeOK, NEW a \in Nat, NEW at \in Ats(a)
    PROVE  Turn(at) \in Ats(a)
<1>1. /\ at.index \in 0 .. Len(segments) /\ at.progress \in Nat /\ at.left \in 0 .. a
      /\ at.index < Len(segments) => at.progress <= segments[at.index + 1]
      /\ Before(at.index) + at.progress + at.left = bed.travelled + a
      /\ Len(segments) \in Nat /\ bed.travelled \in Nat
  BY DEF Ats, BedTypeOK
<1>2. CASE at.left = 0 \/ at.index = Len(segments)
  BY <1>2 DEF Turn
<1>3. CASE at.left # 0 /\ at.index # Len(segments)
  <2> DEFINE i == at.index + 1
             remaining == segments[i] - at.progress
             next == [index |-> i, progress |-> 0, left |-> at.left - remaining]
             inside == [index |-> at.index, progress |-> at.progress + at.left, left |-> 0]
  <2>1. /\ i \in 1 .. Len(segments) /\ \A j \in 1 .. Len(segments) : segments[j] \in Nat
        /\ at.progress <= segments[i] /\ segments[i] \in Nat
        /\ Before(at.index) \in Nat /\ Before(i) = Before(at.index) + segments[i] /\ Before(i) \in Nat
    <3>1. i \in 1 .. Len(segments) /\ at.index < Len(segments)
      BY <1>1, <1>3
    <3>2. \A j \in 1 .. Len(segments) : segments[j] \in Nat
      BY DEF BedTypeOK
    <3>3. i \in 0 .. Len(segments) /\ at.index # Len(segments)
      BY <1>1, <3>1
    <3>4. Before(at.index) \in Nat /\ Before(i) \in Nat /\ Before(i) = Before(at.index) + segments[i]
      BY <1>1, <3>3, BeforeIs
    <3> QED BY <1>1, <3>1, <3>2, <3>4
  <2>2. Turn(at) = IF at.left >= remaining THEN next ELSE inside
    BY <1>3 DEF Turn
  <2> HIDE DEF i
  <2>3. CASE at.left >= remaining
    <3>1. next \in [index : 0 .. Len(segments), progress : Nat, left : 0 .. a]
      BY <1>1, <2>1, <2>3
    <3>2. next.index < Len(segments) => next.progress <= segments[next.index + 1]
      <4>1. i < Len(segments) => i + 1 \in 1 .. Len(segments)
        BY <1>1, <2>1
      <4> QED BY <2>1, <4>1
    <3>3. Before(next.index) + next.progress + next.left = bed.travelled + a
      <4>1. Before(i) + 0 + (at.left - (segments[i] - at.progress)) = Before(at.index) + at.progress + at.left
        BY <1>1, <2>1
      <4> QED BY <1>1, <4>1
    <3> QED BY <2>2, <2>3, <3>1, <3>2, <3>3 DEF Ats
  <2>4. CASE ~(at.left >= remaining)
    <3>1. inside \in [index : 0 .. Len(segments), progress : Nat, left : 0 .. a]
      BY <1>1, <2>1, <2>4
    <3>2. inside.index < Len(segments) => inside.progress <= segments[inside.index + 1]
      <4>1. at.progress + at.left <= segments[i]
        BY <1>1, <2>1, <2>4
      <4> QED BY <4>1 DEF i
    <3>3. Before(inside.index) + inside.progress + inside.left = bed.travelled + a
      BY <1>1, <2>1
    <3> QED BY <2>2, <2>4, <3>1, <3>2, <3>3 DEF Ats
  <2> QED BY <2>3, <2>4
<1> QED BY <1>2, <1>3

\* So the frame moves it by what it has used of the advance.
LEMMA AlongIs ==
    ASSUME WorkBedInv, NEW a \in Nat
    PROVE  Along(a) \in Ats(a)
<1> DEFINE n == Len(segments)
           start == [index |-> bed.index, progress |-> bed.progress, left |-> a]
           F == [i \in 1 .. n |-> [at \in Ats(a) |-> Turn(at)]]
           Is(f) == f = [i \in 0 .. Len(segments) |-> IF i = 0 THEN start ELSE Turn(f[i - 1])]
<1>0. BedTypeOK
  BY DEF WorkBedInv
<1>1. n \in Nat /\ start \in Ats(a)
  <2>1. bed.index \in 0 .. Len(segments) /\ bed.travelled = Before(bed.index) + bed.progress
          /\ bed.progress \in Nat
    BY DEF WorkBedInv, BedTypeOK, CutLayerIsThePath
  <2>2. Before(bed.index) \in Nat
    BY <1>0, <2>1, BeforeIs
  <2> QED BY <2>1, <2>2 DEF WorkBedInv, BedTypeOK, Ats
<1>2. F \in [1 .. n -> [Ats(a) -> Ats(a)]] /\ 1 .. n = 0 + 1 .. n /\ 0 <= n /\ 0 \in Nat
  <2>1. \A at \in Ats(a) : Turn(at) \in Ats(a)
    BY <1>0, TurnKeeps
  <2> QED BY <1>1, <2>1
<1> HIDE DEF start
<1>3. \E f \in [0 .. n -> Ats(a)] : f[0] = start /\ \A i \in 1 .. n : f[i] = F[i][f[i - 1]]
  <2>1. Recursive(Ats(a), 0, n, start, F)
    BY <1>1, <1>2 DEF Recursive
  <2> HIDE DEF F, n
  <2>2. \E f : Follows(Ats(a), 0, n, start, F, f)
    BY <2>1, Recursion
  <2> QED BY <1>2, <2>2 DEF Follows
<1>4. \E f : Is(f)
  <2>1. PICK f \in [0 .. n -> Ats(a)] : f[0] = start /\ \A i \in 1 .. n : f[i] = F[i][f[i - 1]]
    BY <1>3
  <2>2. \A i \in 0 .. n : f[i] = IF i = 0 THEN start ELSE Turn(f[i - 1])
    <3> TAKE i \in 0 .. n
    <3>1. i # 0 => i \in 1 .. n /\ i - 1 \in 0 .. n
      BY <1>1
    <3>2. i # 0 => f[i - 1] \in Ats(a) /\ f[i] = F[i][f[i - 1]]
      BY <2>1, <3>1
    <3>3. i # 0 => F[i] = [at \in Ats(a) |-> Turn(at)]
      BY <3>1
    <3> HIDE DEF F
    <3> QED BY <2>1, <3>2, <3>3
  <2>3. f = [i \in 0 .. n |-> f[i]]
    BY <2>1
  <2> QED BY <2>2, <2>3
<1>5. PICK g : Is(g) /\ Along(a) = g[n]
  <2>1. Along(a) = (CHOOSE f : Is(f))[n]
    BY DEF Along, start
  <2> HIDE DEF Is
  <2> QED BY <1>4, <2>1
<1>6. g[0] \in Ats(a) /\ \A i \in 1 .. n : g[i - 1] \in Ats(a) => g[i] \in Ats(a)
  <2>1. g[0] = start /\ \A i \in 1 .. n : g[i] = Turn(g[i - 1])
    <3>1. \A i \in 0 .. n : g[i] = IF i = 0 THEN start ELSE Turn(g[i - 1])
      BY <1>5
    <3>2. 0 \in 0 .. n /\ \A i \in 1 .. n : i \in 0 .. n /\ i # 0
      BY <1>1
    <3> QED BY <3>1, <3>2
  <2> QED BY <1>0, <1>1, <2>1, TurnKeeps
<1>7. \A i \in 0 .. n : g[i] \in Ats(a)
  <2> HIDE DEF n, Is, F
  <2> QED BY <1>1, <1>2, <1>6, RecursionStays
<1> QED BY <1>1, <1>5, <1>7

\* The segments of a layout are numbers.
LEMMA BuiltIs == ASSUME WorkBedConstants, NEW layout \in Layouts PROVE BuildSegments(layout) \in Seq(Nat)
<1>1. layout.placed \in Nat /\ layout.lines \in Seq([closed : BOOLEAN, sides : Seq(Nat) \ {<<>>}])
        /\ MaxAnimated \in Nat
  BY DEF WorkBedConstants, LayoutsAreDrawn
<1>2. \A i \in DOMAIN layout.lines : Outline(layout.lines[i]) \in Seq(Nat)
  <2> TAKE i \in DOMAIN layout.lines
  <2>1. layout.lines[i].sides \in Seq(Nat) /\ layout.lines[i].sides # <<>>
    <3> DEFINE L == [closed : BOOLEAN, sides : Seq(Nat) \ {<<>>}]
    <3>1. layout.lines[i] \in L
      <4>1. layout.lines \in Seq(L)
        BY <1>1
      <4> HIDE DEF L
      <4> QED BY <4>1
    <3> QED BY <3>1
  <2>2. \A s \in Seq(Nat) : s # <<>> => SubSeq(s, 1, Len(s) - 1) \in Seq(Nat)
    <3> TAKE s \in Seq(Nat)
    <3>1. s # <<>> => Len(s) - 1 \in Nat /\ \A j \in 1 .. Len(s) - 1 : j \in 1 .. Len(s)
      OBVIOUS
    <3> QED BY <3>1
  <2> QED BY <2>1, <2>2 DEF Outline, Front
<1> DEFINE outlines == [i \in DOMAIN layout.lines |-> Outline(layout.lines[i])]
<1>3. outlines \in Seq(Seq(Nat))
  BY <1>1, <1>2
<1>4. FlattenSeq(outlines) \in Seq(Nat)
  <2> HIDE DEF outlines
  <2> QED BY <1>3, FlattenIs
<1>5. Animated(layout) \in Nat
  BY <1>1 DEF Animated
<1> DEFINE parts == [i \in 1 .. Animated(layout) |-> FlattenSeq(outlines)]
<1>6. parts \in Seq(Seq(Nat))
  <2> HIDE DEF outlines
  <2> QED BY <1>4, <1>5
<1>7. FlattenSeq(parts) \in Seq(Nat)
  <2> HIDE DEF parts
  <2> QED BY <1>6, FlattenIs
<1> QED BY <1>7 DEF BuildSegments

\* At the start there is no path.
LEMMA InitBed == WorkBedInit => WorkBedInv
<1> SUFFICES ASSUME WorkBedInit PROVE WorkBedInv
  OBVIOUS
<1>1. BedTypeOK
  <2>1. segments \in Seq(Nat) /\ Len(segments) = 0 /\ 0 \in 0 .. 0
    BY DEF WorkBedInit
  <2>2. bed.index = 0 /\ bed \in [index : 0 .. 0, progress : Nat, travelled : Nat, pct : Nat]
    BY DEF WorkBedInit, AtStart
  <2>3. raf \in BOOLEAN /\ running \in BOOLEAN /\ destroyed \in BOOLEAN
    BY DEF WorkBedInit
  <2> QED BY <2>1, <2>2, <2>3 DEF BedTypeOK
<1>2. Before(0) = 0
  BY <1>1, BeforeIs
<1> QED BY <1>1, <1>2 DEF WorkBedInit, WorkBedInv, CutLayerIsThePath, AtStart

\* A path built anew, or a laser sent back, starts on an empty layer.
LEMMA RestartKeeps ==
    WorkBedConstants /\ WorkBedInv /\ ((\E layout \in Layouts : Rebuild(layout)) \/ Stop) => WorkBedInv'
<1> SUFFICES ASSUME WorkBedConstants, WorkBedInv, (\E layout \in Layouts : Rebuild(layout)) \/ Stop
      PROVE WorkBedInv'
  OBVIOUS
<1>1. bed' = AtStart /\ layer' = {} /\ gap' = {} /\ ~destroyed /\ UNCHANGED destroyed
  BY DEF Rebuild, Stop
<1>2. segments' \in Seq(Nat)
  BY BuiltIs DEF Rebuild, Stop, WorkBedInv, BedTypeOK
<1>3. running' = raf' /\ raf' \in BOOLEAN /\ running' \in BOOLEAN
  BY DEF Rebuild, Stop, WorkBedInv, BedTypeOK, CutLayerIsThePath
<1>4. BedTypeOK'
  <2>1. \A s \in Seq(Nat) : Len(s) \in Nat /\ (0 < Len(s) => 0 <= s[0 + 1])
    OBVIOUS
  <2> QED BY <1>1, <1>2, <1>3, <2>1 DEF BedTypeOK, AtStart, WorkBedInv
<1>5. Before(0)' = 0
  <2>1. Sums(segments')[0] = 0
    BY <1>2, SumsAre
  <2> QED BY <2>1 DEF Before
<1> QED BY <1>1, <1>3, <1>4, <1>5 DEF WorkBedInv, CutLayerIsThePath, AtStart

\* A resize draws the layer anew, up to the segment in hand.
LEMMA ResizeKeeps == WorkBedInv /\ Resize => WorkBedInv'
<1> SUFFICES ASSUME WorkBedInv, Resize PROVE WorkBedInv'
  OBVIOUS
<1>1. BedTypeOK' /\ UNCHANGED <<segments, bed, raf, running, destroyed>>
  BY DEF Resize, WorkBedInv, BedTypeOK
<1>2. Before(bed.index) \in Nat /\ bed.progress \in Nat /\ bed.travelled = Before(bed.index) + bed.progress
  BY BeforeIs DEF WorkBedInv, BedTypeOK, CutLayerIsThePath
<1>3. layer' = (1 .. bed.travelled) \ gap' /\ gap' \subseteq 1 .. bed.travelled
  BY <1>2 DEF Resize
<1>4. Before(bed.index)' = Before(bed.index) /\ Whole' = Whole
  BY <1>1 DEF Before, Whole
<1> QED BY <1>1, <1>2, <1>3, <1>4 DEF WorkBedInv, CutLayerIsThePath

\* Starting and destroying leave the path alone.
LEMMA StartKeeps == WorkBedInv /\ (Start \/ Destroy) => WorkBedInv'
<1> SUFFICES ASSUME WorkBedInv, Start \/ Destroy PROVE WorkBedInv'
  OBVIOUS
<1>1. BedTypeOK' /\ UNCHANGED <<segments, bed, layer, gap>> /\ (destroyed \/ running = raf)'
  BY DEF Start, Destroy, WorkBedInv, BedTypeOK
<1>2. Before(bed.index)' = Before(bed.index) /\ Whole' = Whole
  BY <1>1 DEF Before, Whole
<1> QED BY <1>1, <1>2 DEF WorkBedInv, CutLayerIsThePath

\* Whole quotients.
LEMMA QuotientIs == ASSUME NEW S \in Nat \ {0}, NEW m \in Nat PROVE (m \div S) \in Nat /\ S * (m \div S) <= m
OBVIOUS

\* A hundred percent are shown when all but half a percent of the path is travelled.
LEMMA HundredPercent ==
    ASSUME NEW W \in Nat \ {0}, NEW t \in Nat
    PROVE  /\ (200 * t + W) \div (2 * W) \in Nat
           /\ (200 * t + W) \div (2 * W) = 100 => 200 * t >= 199 * W
<1> DEFINE V == 2 * W
           q == (200 * t + W) \div V
<1>1. V \in Nat \ {0} /\ 200 * t + W \in Nat
  OBVIOUS
<1>2. q \in Nat /\ V * q <= 200 * t + W
  <2> HIDE DEF V
  <2> QED BY <1>1, QuotientIs
<1>3. q = 100 => V * q = 200 * W
  OBVIOUS
<1> QED BY <1>2, <1>3

\* A frame takes the laser on along the path, and draws what it has finished.
LEMMA TickKeeps == WorkBedConstants /\ WorkBedInv /\ (\E a \in Strides : Tick(a)) => WorkBedInv'
<1> SUFFICES ASSUME WorkBedConstants, WorkBedInv, NEW a \in Strides, Tick(a) PROVE WorkBedInv'
  OBVIOUS
<1> DEFINE to == Along(a)
           travelled == bed.travelled + (a - to.left)
           end == to.index = Len(segments)
           now == [index |-> to.index, progress |-> to.progress, travelled |-> travelled,
                   pct |-> IF end THEN 100 ELSE Percent(travelled)]
<1>0. a \in Nat /\ BedTypeOK
  BY DEF WorkBedConstants, WorkBedInv
<1>1. /\ to.index \in 0 .. Len(segments) /\ to.progress \in Nat /\ to.left \in 0 .. a
      /\ to.index < Len(segments) => to.progress <= segments[to.index + 1]
      /\ Before(to.index) + to.progress + to.left = bed.travelled + a
      /\ bed.travelled \in Nat /\ Before(to.index) \in Nat
      /\ bed.travelled = Before(bed.index) + bed.progress
  <2>1. to \in Ats(a)
    BY <1>0, AlongIs
  <2>2. bed.travelled = Before(bed.index) + bed.progress /\ bed.travelled \in Nat
    BY DEF WorkBedInv, CutLayerIsThePath, BedTypeOK
  <2> HIDE DEF to
  <2>3. /\ to.index \in 0 .. Len(segments) /\ to.progress \in Nat /\ to.left \in 0 .. a
        /\ to.index < Len(segments) => to.progress <= segments[to.index + 1]
        /\ Before(to.index) + to.progress + to.left = bed.travelled + a
    BY <2>1 DEF Ats
  <2> QED BY <1>0, <2>2, <2>3, BeforeIs
<1>2. /\ bed' = now /\ UNCHANGED <<segments, gap, destroyed>>
      /\ layer' = layer \union (bed.travelled + 1 .. Before(to.index) + to.progress)
      /\ raf' = ~end /\ running' = (running /\ ~end) /\ raf
  BY <1>1 DEF Tick
<1> HIDE DEF to
<1>3. travelled = Before(to.index) + to.progress /\ travelled \in Nat /\ bed.travelled <= travelled
  BY SMTT(30), <1>0, <1>1
<1>4. Percent(travelled) \in Nat /\ (Percent(travelled) = 100 => 200 * travelled >= 199 * Whole)
  <2>1. Whole \in Nat
    BY <1>0, BeforeIs
  <2> HIDE DEF travelled
  <2> QED BY <1>3, <2>1, HundredPercent DEF Percent
<1>5. end => 200 * travelled >= 199 * Whole
  BY <1>1, <1>3 DEF Whole
<1>6. now.index = to.index /\ now.progress = to.progress /\ now.travelled = travelled /\ now.pct \in Nat
      /\ (now.pct = 100 => 200 * travelled >= 199 * Whole)
  BY <1>4, <1>5
<1>7. BedTypeOK'
  <2>1. now \in [index : 0 .. Len(segments), progress : Nat, travelled : Nat, pct : Nat]
    BY <1>1, <1>3, <1>4
  <2> HIDE DEF now, travelled
  <2>2. raf' \in BOOLEAN /\ running' \in BOOLEAN
    BY <1>2
  <2> QED BY <1>0, <1>1, <1>2, <1>6, <2>1, <2>2 DEF BedTypeOK
<1> HIDE DEF now, travelled
<1>8. layer' = (1 .. travelled) \ gap /\ gap \subseteq 1 .. travelled
  <2>1. layer = (1 .. bed.travelled) \ gap /\ gap \subseteq 1 .. bed.travelled
    BY DEF WorkBedInv, CutLayerIsThePath
  <2> QED BY <1>1, <1>2, <1>3, <2>1
<1>9. Before(bed.index)' = Before(to.index) /\ Whole' = Whole
  BY <1>2, <1>6 DEF Before, Whole
<1>10. (destroyed \/ running = raf)'
  BY <1>2 DEF WorkBedInv, CutLayerIsThePath, BedTypeOK
<1> QED BY <1>2, <1>3, <1>6, <1>7, <1>8, <1>9, <1>10 DEF WorkBedInv, CutLayerIsThePath

\* BedTypeOK, the bound of the gap and the property are inductive together.
THEOREM WorkBedInvariant == WorkBedSpec => []WorkBedInv
<1>1. WorkBedInv /\ [WorkBedNext]_workBedVars => WorkBedInv'
  <2> SUFFICES ASSUME WorkBedInv, [WorkBedNext]_workBedVars PROVE WorkBedInv'
    OBVIOUS
  <2> USE WorkBedConstants
  <2>1. CASE UNCHANGED workBedVars
    BY <2>1 DEF workBedVars, WorkBedInv, BedTypeOK, CutLayerIsThePath, Before, Whole
  <2> QED BY <2>1, RestartKeeps, ResizeKeeps, StartKeeps, TickKeeps DEF WorkBedNext
<1> QED BY <1>1, InitBed, PTL DEF WorkBedSpec

\* CutLayerIsThePath for every layout, any strides and any number of frames.
THEOREM LayerIsThePath == WorkBedSpec => []CutLayerIsThePath
BY WorkBedInvariant, PTL DEF WorkBedInv

-----------------------------------------------------------------------------
(* The wizard: module Wizard *)

\* What a call may be about, and no call.
CallKinds == {"none", "upload", "quote"} \union Edits \union Lists
\* A drawing that is there or not.
DrawingOrNone == Drawings \union {None}
\* Every state of a call.
CallRecords ==
    [kind : CallKinds, phase : {"idle", "waiting", "sent", "answered", "failed", "abandoned"},
     drawing : DrawingOrNone, id : BendIds \union {None}, place : Places \union {None}, list : Seq(Bend)]
\* Every state of the result step.
QuoteRecords ==
    [state : {"away", "unasked", "saving", "shown", "failed"}, drawing : DrawingOrNone,
     count : Nat, hurried : BOOLEAN]

\* Types of the wizard.
WizardTypeOK ==
    /\ rows \subseteq Bend /\ IsFiniteSet(rows)
    /\ drawing \in DrawingOrNone
    /\ space \in Spaces /\ stored \in [Spaces -> DrawingOrNone]
    /\ bends \in Seq(Bend)
    /\ reference \in {"none", "loading", "loaded"}
    /\ step \in Steps
    /\ drag \in BendIds \union {None}
    /\ quote \in QuoteRecords
    /\ calls \in [Calls -> CallRecords]
    /\ astray \in BOOLEAN

\* The bends of a drawing, on the server.
RowOf(d) == {b \in rows : b.drawing = d}

\* What is known of a call whatever has crossed it.
CallOK(c) ==
    /\ calls[c].kind = "none" <=> calls[c] = NoCall
    /\ calls[c].kind \in Edits => calls[c].drawing \in Drawings
    /\ calls[c].kind \in {"create", "update"} => calls[c].place \in Places
    /\ calls[c].kind \in {"update", "delete"} => calls[c].id \in BendIds
    /\ calls[c].kind = "quote" => calls[c].drawing \in Drawings
    /\ calls[c].kind = "upload" /\ calls[c].phase = "answered" => calls[c].drawing # None
    /\ calls[c].phase = "waiting" => calls[c].kind \in Restores
    /\ calls[c].phase = "abandoned" => calls[c].kind \in Edits /\ astray
    /\ calls[c].kind # "none" => calls[c].phase # "idle"

\* A bend has one row.
RowsHaveIds == \A a, b \in rows : a.id = b.id => a = b

\* The drawing an upload has made is nowhere else yet.
NewDrawing(c) ==
    calls[c].kind = "upload" /\ calls[c].drawing # None =>
        /\ calls[c].drawing \notin {drawing, Saved} \union {b.drawing : b \in rows}
        /\ \A o \in Calls : o # c => calls[o].drawing # calls[c].drawing

\* What holds of the wizard whatever has crossed.
WizardBase == WizardTypeOK /\ RowsHaveIds /\ \A c \in Calls : CallOK(c) /\ NewDrawing(c)

\* A list of the bends of a drawing, each once.
Exactly(list, d) == Range(list) = RowOf(d) /\ IsInjective(list)

\* The draft is the drawing of the screen, and what is under way is about it.
DraftInv ==
    /\ drawing # None => Saved = drawing
    /\ drawing = None /\ Open(Edits) # {} => Saved = None
    /\ drawing = None => Open({"create"}) = {}

\* A list that is being read is the draft's, and nothing is written meanwhile; a list that
\* has been read is the server's.
ListInv ==
    /\ \A c \in Open(Restores) :
          calls[c].phase \in {"waiting", "failed"} \/ (calls[c].drawing = Saved /\ Saved # None)
    /\ \A c \in Open({"reload"}) : Open(Lists) = {c} /\ drawing # None /\ calls[c].drawing = drawing
    /\ \A c \in Open(Lists) : calls[c].phase # "waiting" => Open(Edits) = {}
    /\ \A c \in Open(Lists) : calls[c].phase = "answered" => Exactly(calls[c].list, calls[c].drawing)

\* A write has failed, and nobody has been told.
Bare == \E c \in Open(Edits) : calls[c].phase = "failed"
\* The list on the screen is meant to be the server's but for the writes under way.
Steady == drawing # None /\ ~Bare /\ Open({"reload"}) = {}

\* A bend on the screen is on the server, and lies there or is about to.
ShownOK(b) ==
    /\ b.drawing = drawing
    /\ \E r \in rows : /\ r.id = b.id /\ r.drawing = drawing
                       /\ \/ r.place = b.place
                          \/ \E c \in Open({"update"}) : calls[c].phase = "sent" /\ calls[c].id = b.id

\* A row that is not shown is about to go, or about to be listed.
HiddenOK(r) ==
    \E c \in Calls : \/ calls[c].kind = "delete" /\ calls[c].phase = "sent" /\ calls[c].id = r.id
                     \/ calls[c].kind = "create" /\ calls[c].phase = "answered" /\ calls[c].list = <<r>>

\* A bend that is made is listed next: nothing else knows of it.
CreateOK(c) ==
    /\ calls[c].drawing = drawing
    /\ calls[c].phase = "answered" =>
         \E r \in rows :
           /\ calls[c].list = <<r>> /\ r.drawing = drawing
           /\ r.id \notin Shown /\ r.id # drag
           /\ \A o \in Open({"update", "delete"}) : calls[o].id # r.id
           /\ \A o \in Open({"create"}) : o # c /\ calls[o].phase = "answered" => calls[o].list # <<r>>

\* Writes under way are about different bends, and carry what the screen shows.
EditInv ==
    /\ \A c \in Open({"create"}) : CreateOK(c)
    /\ \A c, o \in Open({"update"}) : calls[c].id = calls[o].id => c = o
    /\ \A c \in Open({"update"}) : \A b \in Range(bends) :
          calls[c].phase = "sent" /\ b.id = calls[c].id => b.place = calls[c].place
    /\ \A c \in Open({"delete"}) : calls[c].id \notin Shown

\* The list on the screen and the rows differ by the writes under way.
ScreenInv ==
    Steady => /\ \A i, j \in DOMAIN bends : bends[i].id = bends[j].id => i = j
              /\ \A b \in Range(bends) : ShownOK(b)
              /\ \A r \in RowOf(drawing) : r.id \in Shown \/ HiddenOK(r)

\* One quote at most is asked for, in its step. A quote that was not hurried is about the
\* screen, and nothing else is under way until the step is left.
QuoteInv ==
    /\ Open({"quote"}) # {} => step = "result" /\ drawing # None /\ quote.state = "saving"
    /\ \A c, o \in Open({"quote"}) : c = o
    /\ quote.state \in {"saving", "shown"} => step = "result"
    /\ quote.state \in {"saving", "shown"} /\ ~quote.hurried =>
        /\ drawing # None
        /\ \A c \in Calls : calls[c].kind \in {"none", "quote"}
        /\ \A c \in Open({"quote"}) :
             calls[c].drawing = drawing /\ (calls[c].phase = "answered" => Len(calls[c].list) = Len(bends))
        /\ quote.state = "shown" => quote.drawing = drawing /\ quote.count = Len(bends)

\* What holds of the wizard while no calls have crossed.
StraightInv == DraftInv /\ ListInv /\ EditInv /\ ScreenInv /\ QuoteInv

\* The inductive invariant of the wizard.
WizardInv == WizardBase /\ (~astray => StraightInv)

-----------------------------------------------------------------------------
(* The operators of the wizard *)

\* A call that has just been sent, or waits.
LEMMA CallIs ==
    ASSUME NEW kind \in CallKinds, NEW phase \in {"idle", "waiting", "sent"}, NEW d \in DrawingOrNone,
           NEW id \in BendIds \union {None}, NEW p \in Places \union {None}
    PROVE  /\ Call(kind, phase, d, id, p) \in CallRecords
           /\ Call(kind, phase, d, id, p).kind = kind
           /\ Call(kind, phase, d, id, p).phase = phase
           /\ Call(kind, phase, d, id, p).drawing = d
           /\ Call(kind, phase, d, id, p).id = id
           /\ Call(kind, phase, d, id, p).place = p
           /\ Call(kind, phase, d, id, p).list = <<>>
BY DEF Call, CallRecords

\* A free slot holds no call.
LEMMA NoCallIs ==
    /\ NoCall \in CallRecords
    /\ NoCall.kind = "none" /\ NoCall.phase = "idle" /\ NoCall.drawing = None
    /\ NoCall.id = None /\ NoCall.list = <<>>
<1>1. "none" \in CallKinds /\ "idle" \in {"idle", "waiting", "sent"}
  BY DEF CallKinds
<1>2. None \in DrawingOrNone /\ None \in BendIds \union {None} /\ None \in Places \union {None}
  BY DEF DrawingOrNone
<1> QED BY <1>1, <1>2, CallIs DEF NoCall

\* A finite set can be listed, each element once.
LEMMA SetIsSequence ==
    ASSUME NEW T, NEW S \in SUBSET T, IsFiniteSet(S)
    PROVE  SetToSeq(S) \in Seq(T) /\ Range(SetToSeq(S)) = S /\ IsInjective(SetToSeq(S))
<1> DEFINE n == Cardinality(S)
           Is(f) == f \in [1 .. n -> S] /\ IsInjective(f)
<1>1. n \in Nat /\ \E f : f \in Bijection(1 .. n, S)
  BY FS_CardinalityType, FS_NatBijection, FS_CountingElements DEF ExistsBijection
<1>2. PICK f : f \in Bijection(1 .. n, S)
  BY <1>1
<1> DEFINE s == SetToSeq(S)
<1>3. Is(s)
  <2>1. Is(f)
    BY <1>2 DEF Bijection, Injection, IsInjective
  <2>2. s = CHOOSE g : Is(g)
    BY DEF SetToSeq
  <2> HIDE DEF Is, s
  <2> QED BY <2>1, <2>2
<1>4. Range(s) = S
  <2>1. s \in Injection(1 .. n, S)
    BY <1>3 DEF Injection, IsInjective
  <2>2. IsFiniteSet(1 .. n) /\ Cardinality(1 .. n) = Cardinality(S)
    <3>1. n \in Int /\ 1 \in Int /\ n >= 0 /\ n - 1 + 1 = n
      BY <1>1
    <3> HIDE DEF n
    <3>2. IsFiniteSet(1 .. n) /\ Cardinality(1 .. n) = IF 1 > n THEN 0 ELSE n - 1 + 1
      BY <3>1, FS_Interval
    <3>3. Cardinality(1 .. n) = n
      BY <3>1, <3>2
    <3> QED BY <3>2, <3>3 DEF n
  <2> HIDE DEF s, n
  <2>3. s \in Surjection(1 .. n, S)
    BY ZenonT(60), <2>1, <2>2, FS_Injection, <1>2 DEF Surjection, Bijection
  <2> QED BY <2>3, <1>3 DEF Surjection, Range
<1>5. s \in Seq(T)
  BY <1>1, <1>3
<1> QED BY <1>3, <1>4, <1>5

\* The bends of a drawing can be listed.
LEMMA ListedIs ==
    ASSUME WizardTypeOK, NEW d
    PROVE  Listed(d) \in Seq(Bend) /\ Exactly(Listed(d), d)
<1>1. RowOf(d) \in SUBSET Bend /\ RowOf(d) \subseteq rows
  BY DEF RowOf, WizardTypeOK
<1>2. IsFiniteSet(RowOf(d))
  BY <1>1, FS_Subset DEF WizardTypeOK
<1>3. Listed(d) = SetToSeq(RowOf(d))
  BY DEF Listed, RowOf
<1> QED BY <1>1, <1>2, <1>3, SetIsSequence DEF Exactly

\* Two lists of the same elements, each once, are of one length.
LEMMA SameLength ==
    ASSUME NEW T, NEW u \in Seq(T), NEW v \in Seq(T), IsInjective(u), IsInjective(v), Range(u) = Range(v)
    PROVE  Len(u) = Len(v)
<1>1. ASSUME NEW w \in Seq(T), IsInjective(w)
      PROVE  IsFiniteSet(Range(w)) /\ Cardinality(Range(w)) = Len(w)
  <2> DEFINE n == Len(w)
  <2>1. n \in Int /\ 1 \in Int /\ n >= 0 /\ n - 1 + 1 = n
    OBVIOUS
  <2>2. w \in Bijection(1 .. n, Range(w))
    BY <1>1 DEF Bijection, Injection, Surjection, IsInjective, Range
  <2> HIDE DEF n
  <2>3. IsFiniteSet(1 .. n) /\ Cardinality(1 .. n) = IF 1 > n THEN 0 ELSE n - 1 + 1
    BY <2>1, FS_Interval
  <2>4. Cardinality(1 .. n) = n
    BY <2>1, <2>3
  <2>5. IsFiniteSet(Range(w)) /\ Cardinality(Range(w)) = Cardinality(1 .. n)
    BY <2>2, <2>3, FS_Bijection DEF ExistsBijection
  <2> QED BY <2>4, <2>5 DEF n
<1> QED BY <1>1

\* What a list of bends is filtered to, one bend after the other.
LEMMA KeptIs ==
    ASSUME NEW s \in Seq(Bend), NEW id
    PROVE  /\ Kept(s, id) \in [0 .. Len(s) -> Seq(Bend)]
           /\ Kept(s, id)[0] = <<>>
           /\ \A i \in 1 .. Len(s) :
                 Kept(s, id)[i] = IF s[i].id = id THEN Kept(s, id)[i - 1] ELSE Append(Kept(s, id)[i - 1], s[i])
<1> DEFINE n == Len(s)
           S == Seq(Bend)
           F == [i \in 1 .. n |-> [kept \in S |-> IF s[i].id = id THEN kept ELSE Append(kept, s[i])]]
           Is(f) == f = [i \in 0 .. Len(s) |->
                           IF i = 0 THEN <<>> ELSE IF s[i].id = id THEN f[i - 1] ELSE Append(f[i - 1], s[i])]
<1>1. n \in Nat /\ (\A i \in 1 .. n : s[i] \in Bend) /\ <<>> \in S
  OBVIOUS
<1>2. F \in [1 .. n -> [S -> S]] /\ 1 .. n = 0 + 1 .. n /\ 0 <= n /\ 0 \in Nat
  BY <1>1
<1>3. \E f \in [0 .. n -> S] : f[0] = <<>> /\ \A i \in 1 .. n : f[i] = F[i][f[i - 1]]
  <2>1. Recursive(S, 0, n, <<>>, F)
    BY <1>1, <1>2 DEF Recursive
  <2> HIDE DEF F, n, S
  <2>2. \E f : Follows(S, 0, n, <<>>, F, f)
    BY <2>1, Recursion
  <2> QED BY <1>2, <2>2 DEF Follows
<1>4. \E f : Is(f)
  <2>1. PICK f \in [0 .. n -> S] : f[0] = <<>> /\ \A i \in 1 .. n : f[i] = F[i][f[i - 1]]
    BY <1>3
  <2>2. \A i \in 0 .. n :
           f[i] = IF i = 0 THEN <<>> ELSE IF s[i].id = id THEN f[i - 1] ELSE Append(f[i - 1], s[i])
    <3> TAKE i \in 0 .. n
    <3>1. i # 0 => i \in 1 .. n /\ i - 1 \in 0 .. n
      BY <1>1
    <3>2. i # 0 => f[i - 1] \in S /\ f[i] = F[i][f[i - 1]]
      BY <2>1, <3>1
    <3>3. i # 0 => F[i] = [kept \in S |-> IF s[i].id = id THEN kept ELSE Append(kept, s[i])]
      BY <3>1
    <3> HIDE DEF F, S
    <3> QED BY <2>1, <3>2, <3>3
  <2>3. f = [i \in 0 .. n |-> f[i]]
    BY <2>1
  <2> QED BY <2>2, <2>3
<1>5. Is(Kept(s, id))
  <2>1. Kept(s, id) = CHOOSE f : Is(f)
    BY DEF Kept
  <2> HIDE DEF Is
  <2> QED BY <1>4, <2>1
<1> DEFINE g == Kept(s, id)
           R == [i \in 0 .. Len(s) |->
                   IF i = 0 THEN <<>> ELSE IF s[i].id = id THEN g[i - 1] ELSE Append(g[i - 1], s[i])]
<1>6. /\ DOMAIN R = 0 .. n /\ R[0] = <<>>
      /\ \A i \in 1 .. n : R[i] = IF s[i].id = id THEN g[i - 1] ELSE Append(g[i - 1], s[i])
      /\ R = [i \in 0 .. n |-> R[i]]
  BY <1>1
<1>7. g = R
  BY <1>5
<1> HIDE DEF g, R
<1>8. /\ DOMAIN g = 0 .. n /\ g[0] = <<>>
      /\ \A i \in 1 .. n : g[i] = IF s[i].id = id THEN g[i - 1] ELSE Append(g[i - 1], s[i])
      /\ g = [i \in 0 .. n |-> g[i]]
  BY <1>6, <1>7
<1>9. \A i \in 0 .. n : g[i] \in S
  <2>1. g[0] \in S /\ \A i \in 1 .. n : g[i - 1] \in S => g[i] \in S
    <3>1. \A i \in 1 .. n : g[i - 1] \in S => Append(g[i - 1], s[i]) \in S
      BY <1>1
    <3> HIDE DEF S
    <3> QED BY <1>1, <1>8, <3>1
  <2> HIDE DEF n, S
  <2> QED BY <1>1, <1>2, <2>1, RecursionStays
<1> QED BY <1>8, <1>9 DEF g

\* No two bends of a list have one id.
Distinct(list) == \A i, j \in DOMAIN list : list[i].id = list[j].id => i = j

\* A list without the bends of an id.
LEMMA WithoutIs ==
    ASSUME NEW s \in Seq(Bend), NEW id
    PROVE  /\ Without(s, id) \in Seq(Bend)
           /\ \A b : b \in Range(Without(s, id)) <=> b \in Range(s) /\ b.id # id
           /\ Distinct(s) => Distinct(Without(s, id))
<1> DEFINE n == Len(s)
           g == Kept(s, id)
           Has(k) == \A b : b \in Range(g[k]) <=> \E i \in 1 .. k : b = s[i] /\ b.id # id
           A == {k \in 0 .. n : Has(k) /\ (Distinct(s) => Distinct(g[k]))}
<1>1. n \in Nat /\ 0 <= n /\ \A i \in 1 .. n : s[i] \in Bend
  OBVIOUS
<1>2. /\ g \in [0 .. n -> Seq(Bend)] /\ g[0] = <<>>
      /\ \A i \in 1 .. n : g[i] = IF s[i].id = id THEN g[i - 1] ELSE Append(g[i - 1], s[i])
  BY KeptIs
<1> HIDE DEF g
<1>3. 0 \in A
  BY <1>1, <1>2 DEF Range, Distinct
<1>4. \A k \in 0 + 1 .. n : k - 1 \in A => k \in A
  <2> TAKE k \in 0 + 1 .. n
  <2> HAVE k - 1 \in A
  <2>1. k \in 1 .. n /\ k \in 0 .. n /\ k - 1 \in 0 .. n /\ g[k - 1] \in Seq(Bend) /\ k \in Nat
    BY <1>1, <1>2
  <2>2. 1 .. k = 1 .. k - 1 \union {k}
    BY <2>1
  <2>3. CASE s[k].id = id
    <3>1. g[k] = g[k - 1]
      BY <1>2, <2>1, <2>3
    <3> QED BY <2>1, <2>2, <2>3, <3>1
  <2>4. CASE s[k].id # id
    <3>1. g[k] = Append(g[k - 1], s[k]) /\ s[k] \in Bend
      BY <1>1, <1>2, <2>1, <2>4
    <3>2. \A b : b \in Range(g[k]) <=> b \in Range(g[k - 1]) \/ b = s[k]
      <4>1. /\ DOMAIN g[k] = DOMAIN g[k - 1] \union {Len(g[k - 1]) + 1}
            /\ g[k][Len(g[k - 1]) + 1] = s[k]
            /\ \A i \in DOMAIN g[k - 1] : g[k][i] = g[k - 1][i]
        BY <2>1, <3>1
      <4> QED BY <4>1 DEF Range
    <3>3. Has(k)
      BY <2>2, <2>4, <3>2
    <3>4. ASSUME Distinct(s) PROVE Distinct(g[k])
      <4>1. \A i \in DOMAIN g[k - 1] : g[k - 1][i].id # s[k].id
        <5> TAKE i \in DOMAIN g[k - 1]
        <5>1. g[k - 1][i] \in Range(g[k - 1])
          BY DEF Range
        <5>2. PICK j \in 1 .. k - 1 : g[k - 1][i] = s[j]
          BY <5>1
        <5>3. j \in DOMAIN s /\ k \in DOMAIN s /\ j # k
          BY <2>1
        <5> QED BY <3>4, <5>2, <5>3 DEF Distinct
      <4>2. Distinct(g[k - 1])
        BY <3>4
      <4>3. /\ DOMAIN g[k] = DOMAIN g[k - 1] \union {Len(g[k - 1]) + 1}
            /\ g[k][Len(g[k - 1]) + 1] = s[k]
            /\ \A i \in DOMAIN g[k - 1] : g[k][i] = g[k - 1][i]
        BY <2>1, <3>1
      <4> QED BY <4>1, <4>2, <4>3 DEF Distinct
    <3> QED BY <2>1, <3>3, <3>4
  <2> QED BY <2>3, <2>4
<1> HIDE DEF A
<1>5. n \in A
  <2>1. 0 .. n \subseteq A
    <3> HIDE DEF n
    <3> QED BY <1>1, <1>3, <1>4, IntervalInduction
  <2> QED BY <1>1, <2>1
<1>6. Without(s, id) = g[n]
  BY DEF Without, g
<1>7. g[n] \in Seq(Bend)
  BY <1>1, <1>2
<1>8. \A b : (\E i \in 1 .. n : b = s[i] /\ b.id # id) <=> b \in Range(s) /\ b.id # id
  BY <1>1 DEF Range
<1> QED BY <1>5, <1>6, <1>7, <1>8 DEF A

-----------------------------------------------------------------------------
(* What holds of the wizard whatever crosses *)

\* States of the result step.
LEMMA QuoteIs ==
    /\ \A s \in {"away", "unasked", "saving", "shown", "failed"} :
          /\ NoQuote(s) \in QuoteRecords
          /\ NoQuote(s).state = s /\ NoQuote(s).hurried = FALSE
    /\ \A h \in BOOLEAN : LET q == [NoQuote("saving") EXCEPT !.hurried = h] IN
          q \in QuoteRecords /\ q.state = "saving" /\ q.hurried = h
    /\ \A q \in QuoteRecords : LET r == [q EXCEPT !.state = "failed"] IN
          r \in QuoteRecords /\ r.state = "failed"
    /\ \A q \in QuoteRecords : \A d \in DrawingOrNone : \A n \in Nat :
          LET r == [q EXCEPT !.state = "shown", !.drawing = d, !.count = n] IN
          /\ r \in QuoteRecords
          /\ r.state = "shown" /\ r.drawing = d /\ r.count = n /\ r.hurried = q.hurried
<1>1. \A s \in {"away", "unasked", "saving", "shown", "failed"} :
          /\ NoQuote(s) \in QuoteRecords
          /\ NoQuote(s).state = s /\ NoQuote(s).hurried = FALSE
  BY DEF NoQuote, QuoteRecords, DrawingOrNone
<1>2. \A h \in BOOLEAN :
         /\ [NoQuote("saving") EXCEPT !.hurried = h] \in QuoteRecords
         /\ [NoQuote("saving") EXCEPT !.hurried = h].state = "saving"
         /\ [NoQuote("saving") EXCEPT !.hurried = h].hurried = h
  BY DEF NoQuote, QuoteRecords, DrawingOrNone
<1>3. \A q \in QuoteRecords :
         [q EXCEPT !.state = "failed"] \in QuoteRecords /\ [q EXCEPT !.state = "failed"].state = "failed"
  BY DEF QuoteRecords
<1>4. ASSUME NEW q \in QuoteRecords, NEW d \in DrawingOrNone, NEW n \in Nat
      PROVE  LET r == [q EXCEPT !.state = "shown", !.drawing = d, !.count = n] IN
             /\ r \in QuoteRecords
             /\ r.state = "shown" /\ r.drawing = d /\ r.count = n /\ r.hurried = q.hurried
  <2> DEFINE r == [q EXCEPT !.state = "shown", !.drawing = d, !.count = n]
  <2>1. r \in QuoteRecords
    BY DEF QuoteRecords
  <2>2. r.state = "shown" /\ r.drawing = d /\ r.count = n /\ r.hurried = q.hurried
    BY DEF QuoteRecords
  <2> QED BY <2>1, <2>2
<1> QED BY <1>1, <1>2, <1>3, <1>4

\* The draft that this page reads is a drawing or none.
LEMMA SavedIs == WizardTypeOK => Saved \in DrawingOrNone
BY DEF WizardTypeOK, Saved

\* What this page writes is what it reads next.
LEMMA PersistIs ==
    ASSUME WizardTypeOK, NEW d \in DrawingOrNone, Persist(d), UNCHANGED space
    PROVE  Saved' = d /\ stored' \in [Spaces -> DrawingOrNone]
BY DEF WizardTypeOK, Persist, Saved

\* One call changes, in a way that its kind allows.
LEMMA OneCallStep ==
    ASSUME WizardTypeOK, \A o \in Calls : CallOK(o), NEW c \in Calls, NEW new \in CallRecords,
           calls' = [calls EXCEPT ![c] = new], astray => astray', CallOK(c)'
    PROVE  /\ calls' \in [Calls -> CallRecords] /\ calls'[c] = new
           /\ \A o \in Calls : o # c => calls'[o] = calls[o]
           /\ \A o \in Calls : CallOK(o)'
<1>1. /\ calls' \in [Calls -> CallRecords] /\ calls'[c] = new
      /\ \A o \in Calls : o # c => calls'[o] = calls[o]
  BY DEF WizardTypeOK
<1>2. ASSUME NEW o \in Calls PROVE CallOK(o)'
  <2>1. CASE o = c
    BY <2>1
  <2>2. CASE o # c
    BY <1>1, <2>2 DEF CallOK
  <2> QED BY <2>1, <2>2
<1> QED BY <1>1, <1>2

\* Drawings stay new while only they and those that are known already are taken up.
LEMMA StaysNew ==
    ASSUME WizardTypeOK, \A o \in Calls : NewDrawing(o), NEW c \in Calls,
           calls'[c].kind # "upload" \/ calls'[c].drawing = None,
           calls'[c].drawing \in {None, calls[c].drawing, drawing, Saved},
           \A o \in Calls : o # c => calls'[o] = calls[o] \/ calls'[o].drawing = None,
           {drawing', Saved'} \subseteq {None, drawing, Saved, calls[c].drawing},
           \A b \in rows' : b.drawing = calls[c].drawing \/ \E a \in rows : a.drawing = b.drawing
    PROVE  \A o \in Calls : NewDrawing(o)'
BY DEF NewDrawing

\* Steps that touch neither calls nor drawings.
LEMMA ReferenceBase ==
    WizardBase /\ (ReferenceArrives \/ ReferenceFails \/ PointerUp \/ \E id \in BendIds : PointerDown(id))
    => WizardBase'
BY DEF WizardBase, WizardTypeOK, RowsHaveIds, CallOK, NewDrawing, Saved, ReferenceArrives, ReferenceFails, PointerUp,
       PointerDown

\* Another drawing is chosen.
LEMMA ReplaceBase == WizardBase /\ Replace => WizardBase'
<1> SUFFICES ASSUME WizardBase, Replace PROVE WizardBase'
  OBVIOUS
<1>0. Saved' = None /\ stored' \in [Spaces -> DrawingOrNone]
  BY PersistIs DEF WizardBase, Replace, DrawingOrNone
<1>1. WizardTypeOK'
  BY <1>0 DEF WizardBase, WizardTypeOK, Replace, DrawingOrNone
<1>2. RowsHaveIds' /\ \A c \in Calls : CallOK(c)'
  BY DEF WizardBase, RowsHaveIds, CallOK, Replace
<1>3. \A c \in Calls : NewDrawing(c)'
  BY <1>0 DEF WizardBase, NewDrawing, Replace
<1> QED BY <1>1, <1>2, <1>3 DEF WizardBase

\* A call is sent, by the customer or by the page.
Sends(c, kind, d, id, p) ==
    /\ kind \in {"upload", "quote", "create", "update", "delete", "reload"}
    /\ d = (IF kind = "upload" THEN None ELSE drawing)
    /\ id \in BendIds \union {None} /\ p \in Places \union {None}
    /\ kind # "upload" => d # None
    /\ kind \in {"create", "update"} => p \in Places
    /\ kind \in {"update", "delete"} => id \in BendIds
    /\ calls' = [calls EXCEPT ![c] = Call(kind, "sent", d, id, p)]
    /\ astray => astray'
    /\ astray' \in BOOLEAN /\ bends' \in Seq(Bend) /\ step' \in Steps /\ drag' \in {drag, None}
    /\ quote' \in QuoteRecords
    /\ UNCHANGED <<rows, drawing, space, stored, reference>>

\* A call that has been sent is in order.
LEMMA SendBase ==
    \A c \in Calls : \A kind, d, id, p :
        WizardConstants /\ WizardBase /\ Sends(c, kind, d, id, p) => WizardBase'
<1> SUFFICES ASSUME NEW c \in Calls, NEW kind, NEW d, NEW id, NEW p,
                    WizardConstants, WizardBase, Sends(c, kind, d, id, p)
             PROVE  WizardBase'
  OBVIOUS
<1> DEFINE new == Call(kind, "sent", d, id, p)
<1>1. /\ new \in CallRecords /\ new.kind = kind /\ new.phase = "sent" /\ new.drawing = d
      /\ new.id = id /\ new.place = p
  <2>1. kind \in CallKinds /\ d \in DrawingOrNone
    BY DEF Sends, CallKinds, Edits, Lists, DrawingOrNone, WizardBase, WizardTypeOK
  <2> QED BY <2>1, CallIs DEF Sends
<1>2. calls' = [calls EXCEPT ![c] = new] /\ (astray => astray')
  BY DEF Sends
<1>3. calls'[c] = new
  BY <1>2 DEF WizardBase, WizardTypeOK
<1>4. CallOK(c)'
  <2>1. kind # "none" /\ (kind # "upload" => d \in Drawings)
    BY DEF Sends, DrawingOrNone, WizardBase, WizardTypeOK
  <2>2. new # NoCall
    BY <1>1, <2>1, NoCallIs
  <2> HIDE DEF new
  <2> QED BY <1>1, <1>3, <2>1, <2>2 DEF CallOK, Sends, Edits
<1> HIDE DEF new
<1>5. /\ calls' \in [Calls -> CallRecords]
      /\ \A o \in Calls : o # c => calls'[o] = calls[o]
      /\ \A o \in Calls : CallOK(o)'
  BY <1>1, <1>2, <1>4, OneCallStep DEF WizardBase
<1>6. WizardTypeOK'
  BY <1>5 DEF WizardBase, WizardTypeOK, Sends
<1>7. RowsHaveIds'
  BY DEF WizardBase, RowsHaveIds, Sends
<1>8. \A o \in Calls : NewDrawing(o)'
  <2>1. calls'[c].kind # "upload" \/ calls'[c].drawing = None
    BY <1>1, <1>3 DEF Sends
  <2>2. calls'[c].drawing \in {None, drawing}
    BY <1>1, <1>3 DEF Sends
  <2>3. Saved' = Saved
    BY DEF Sends, Saved
  <2> QED BY <1>5, <2>1, <2>2, <2>3, StaysNew DEF WizardBase, Sends
<1> QED BY <1>5, <1>6, <1>7, <1>8 DEF WizardBase

\* A call leaves, and what it has brought is taken up.
LEMMA LeftBase ==
    ASSUME WizardBase, NEW c \in Calls, calls' = [calls EXCEPT ![c] = NoCall],
           rows' \subseteq Bend, IsFiniteSet(rows'), RowsHaveIds',
           \A b \in rows' : b.drawing = calls[c].drawing \/ \E a \in rows : a.drawing = b.drawing,
           {drawing', Saved'} \subseteq {None, drawing, Saved, calls[c].drawing},
           stored' \in [Spaces -> DrawingOrNone], UNCHANGED space,
           astray => astray', astray' \in BOOLEAN, bends' \in Seq(Bend), step' \in Steps,
           drag' \in {drag, None}, quote' \in QuoteRecords, UNCHANGED reference
    PROVE  WizardBase'
<1>1. calls'[c] = NoCall
  BY DEF WizardBase, WizardTypeOK
<1>2. CallOK(c)'
  BY <1>1, NoCallIs DEF CallOK, Edits
<1>3. /\ calls' \in [Calls -> CallRecords]
      /\ \A o \in Calls : o # c => calls'[o] = calls[o]
      /\ \A o \in Calls : CallOK(o)'
  BY <1>2, NoCallIs, OneCallStep DEF WizardBase
<1>4. WizardTypeOK'
  <2>1. calls[c].drawing \in DrawingOrNone /\ None \in DrawingOrNone
    BY DEF WizardBase, WizardTypeOK, CallRecords, DrawingOrNone
  <2>2. drawing' \in DrawingOrNone
    BY <2>1, SavedIs DEF WizardBase, WizardTypeOK
  <2> QED BY <1>3, <2>2 DEF WizardBase, WizardTypeOK
<1>5. \A o \in Calls : NewDrawing(o)'
  BY <1>1, <1>3, NoCallIs, StaysNew DEF WizardBase
<1> QED BY <1>3, <1>4, <1>5 DEF WizardBase

\* A call leaves, and the rows stay.
LEMMA DoneBase ==
    ASSUME WizardBase, NEW c \in Calls, calls' = [calls EXCEPT ![c] = NoCall],
           {drawing', Saved'} \subseteq {None, drawing, Saved, calls[c].drawing},
           stored' \in [Spaces -> DrawingOrNone], UNCHANGED space,
           astray => astray', astray' \in BOOLEAN, bends' \in Seq(Bend), step' \in Steps,
           drag' \in {drag, None}, quote' \in QuoteRecords, UNCHANGED <<rows, reference>>
    PROVE  WizardBase'
<1>1. rows' \subseteq Bend /\ IsFiniteSet(rows') /\ RowsHaveIds'
  BY DEF WizardBase, WizardTypeOK, RowsHaveIds
<1>2. \A b \in rows' : b.drawing = calls[c].drawing \/ \E a \in rows : a.drawing = b.drawing
  OBVIOUS
<1> QED BY <1>1, <1>2, LeftBase

\* A call is answered, fails, or goes on.
Advances(c, new) ==
    /\ new \in CallRecords
    /\ calls' = [calls EXCEPT ![c] = new]
    /\ calls[c].kind # "none"
    /\ new.kind = calls[c].kind /\ new.id = calls[c].id /\ new.place = calls[c].place
    /\ new.phase \in {"sent", "answered", "failed"}
    /\ new.drawing = calls[c].drawing \/ new.kind = "upload" \/ (new.kind \in Restores /\ new.drawing = Saved)
    /\ new.kind = "upload" /\ new.phase = "answered" => new.drawing # None
    /\ rows' \subseteq Bend /\ IsFiniteSet(rows') /\ RowsHaveIds'
    /\ \A b \in rows' : b.drawing = calls[c].drawing \/ \E a \in rows : a.drawing = b.drawing
    /\ new.kind = "upload" => UNCHANGED rows
    /\ step' \in Steps /\ drag' \in {drag, None} /\ quote' \in QuoteRecords
    /\ UNCHANGED <<drawing, bends, space, stored, reference, astray>>

\* A call that goes on is in order.
LEMMA PhaseBase ==
    \A c \in Calls : \A new : WizardBase /\ Advances(c, new) /\ NewDrawing(c)' => WizardBase'
<1> SUFFICES ASSUME NEW c \in Calls, NEW new, WizardBase, Advances(c, new), NewDrawing(c)'
             PROVE  WizardBase'
  OBVIOUS
<1>1. calls'[c] = new /\ new \in CallRecords /\ calls' = [calls EXCEPT ![c] = new] /\ (astray => astray')
  BY DEF WizardBase, WizardTypeOK, Advances
<1>2. CallOK(c)'
  <2>1. new # NoCall
    BY NoCallIs DEF Advances
  <2>2. CallOK(c)
    BY DEF WizardBase
  <2> QED BY <1>1, <2>1, <2>2 DEF CallOK, Advances, Edits, Lists, Restores
<1>3. /\ calls' \in [Calls -> CallRecords]
      /\ \A o \in Calls : o # c => calls'[o] = calls[o]
      /\ \A o \in Calls : CallOK(o)'
  BY <1>1, <1>2, OneCallStep DEF WizardBase
<1>4. WizardTypeOK'
  BY <1>3 DEF WizardBase, WizardTypeOK, Advances
<1>5. ASSUME NEW o \in Calls PROVE NewDrawing(o)'
  <2>1. CASE o = c
    BY <2>1
  <2>2. CASE o # c /\ new.kind # "upload"
    <3>1. calls'[c].drawing = calls[c].drawing \/ calls'[c].drawing = Saved
      BY <1>1, <2>2 DEF Advances
    <3>2. NewDrawing(o)
      BY DEF WizardBase
    <3>3. drawing' = drawing /\ Saved' = Saved
      BY DEF Advances, Saved
    <3> QED BY <1>3, <2>2, <3>1, <3>2, <3>3 DEF NewDrawing, Advances
  <2>3. CASE o # c /\ new.kind = "upload"
    <3>1. NewDrawing(o) /\ NewDrawing(c)'
      BY DEF WizardBase
    <3>2. rows' = rows /\ drawing' = drawing /\ Saved' = Saved
      BY <2>3 DEF Advances, Saved
    <3> QED BY <1>1, <1>3, <2>3, <3>1, <3>2 DEF NewDrawing
  <2> QED BY <2>1, <2>2, <2>3
<1> QED BY <1>3, <1>4, <1>5 DEF WizardBase, Advances

\* A file is uploaded.
LEMMA UploadBase == WizardConstants /\ WizardBase /\ (\E c \in Calls : Upload(c)) => WizardBase'
<1> SUFFICES ASSUME WizardConstants, WizardBase, NEW c \in Calls, Upload(c) PROVE WizardBase'
  OBVIOUS
<1>1. Sends(c, "upload", None, None, None)
  BY DEF Sends, Upload, WizardBase, WizardTypeOK
<1> QED BY <1>1, SendBase

\* The list of bends while one of them is dragged.
LEMMA MovedIs ==
    ASSUME bends \in Seq(Bend), NEW p \in Places,
           bends' = [i \in DOMAIN bends |->
                       IF bends[i].id = drag THEN [bends[i] EXCEPT !.place = p] ELSE bends[i]]
    PROVE  /\ bends' \in Seq(Bend) /\ DOMAIN bends' = DOMAIN bends
           /\ \A i \in DOMAIN bends :
                 /\ bends'[i].id = bends[i].id /\ bends'[i].drawing = bends[i].drawing
                 /\ bends'[i].place = IF bends[i].id = drag THEN p ELSE bends[i].place
<1>1. \A i \in DOMAIN bends : bends[i] \in Bend
  OBVIOUS
<1>2. \A b \in Bend : /\ [b EXCEPT !.place = p] \in Bend
                      /\ [b EXCEPT !.place = p].id = b.id /\ [b EXCEPT !.place = p].drawing = b.drawing
                      /\ [b EXCEPT !.place = p].place = p
  BY DEF Bend
<1>3. DOMAIN bends = 1 .. Len(bends) /\ Len(bends) \in Nat
  OBVIOUS
<1> QED BY <1>1, <1>2, <1>3

\* A bend is moved, drawn or removed.
LEMMA EditsBase ==
    WizardConstants /\ WizardBase
        /\ (\E c \in Calls : (\E p \in Places : PointerMove(c, p) \/ Draw(c, p))
                              \/ (\E id \in BendIds : RemoveBend(c, id)))
    => WizardBase'
<1> SUFFICES ASSUME WizardConstants, WizardBase, NEW c \in Calls,
                    \/ \E p \in Places : PointerMove(c, p) \/ Draw(c, p)
                    \/ \E id \in BendIds : RemoveBend(c, id)
             PROVE  WizardBase'
  OBVIOUS
<1>1. CASE \E p \in Places : PointerMove(c, p)
  <2>1. PICK p \in Places : PointerMove(c, p)
    BY <1>1
  <2>2. bends' \in Seq(Bend) /\ drag \in BendIds
    <3>1. bends \in Seq(Bend) /\ bends' = [i \in DOMAIN bends |->
             IF bends[i].id = drag THEN [bends[i] EXCEPT !.place = p] ELSE bends[i]]
      BY <2>1 DEF PointerMove, WizardBase, WizardTypeOK
    <3> QED BY <2>1, <3>1, MovedIs DEF PointerMove, WizardBase, WizardTypeOK
  <2>3. Sends(c, "update", drawing, drag, p)
    BY <2>1, <2>2 DEF Sends, PointerMove, Editing, WizardBase, WizardTypeOK
  <2> QED BY <2>3, SendBase
<1>2. CASE \E p \in Places : Draw(c, p)
  <2>1. PICK p \in Places : Draw(c, p)
    BY <1>2
  <2>2. Sends(c, "create", drawing, None, p)
    BY <2>1 DEF Sends, Draw, Editing, WizardBase, WizardTypeOK
  <2> QED BY <2>2, SendBase
<1>3. CASE \E id \in BendIds : RemoveBend(c, id)
  <2>1. PICK id \in BendIds : RemoveBend(c, id)
    BY <1>3
  <2>2. bends' \in Seq(Bend)
    BY <2>1, WithoutIs DEF RemoveBend, WizardBase, WizardTypeOK
  <2>3. Sends(c, "delete", drawing, id, None)
    BY <2>1, <2>2 DEF Sends, RemoveBend, Editing, WizardBase, WizardTypeOK
  <2> QED BY <2>3, SendBase
<1> QED BY <1>1, <1>2, <1>3

\* Answers that end a call.
LEMMA AnswersBase ==
    WizardConstants /\ WizardBase
        /\ (\E c \in Calls : \/ Restored(c) \/ RestoreFails(c) \/ SetDrawing(c) \/ Created(c) \/ Written(c)
                             \/ Reloaded(c) \/ ReloadFails(c) \/ Quoted(c) \/ CallFails(c))
    => WizardBase'
<1> SUFFICES ASSUME WizardConstants, WizardBase, NEW c \in Calls,
                    \/ Restored(c) \/ RestoreFails(c) \/ SetDrawing(c) \/ Created(c) \/ Written(c)
                    \/ Reloaded(c) \/ ReloadFails(c) \/ Quoted(c) \/ CallFails(c)
             PROVE  WizardBase'
  OBVIOUS
<1>0. /\ bends \in Seq(Bend) /\ step \in Steps /\ quote \in QuoteRecords /\ astray \in BOOLEAN
      /\ calls[c] \in CallRecords /\ stored \in [Spaces -> DrawingOrNone]
      /\ stored' = stored /\ space' = space => Saved' = Saved
  BY DEF WizardBase, WizardTypeOK, Saved
<1>1. calls[c].list \in Seq(Bend) /\ <<>> \in Seq(Bend) /\ calls[c].drawing \in DrawingOrNone
  BY <1>0 DEF CallRecords
<1>2. CASE Restored(c)
  BY <1>0, <1>1, <1>2, DoneBase DEF Restored
<1>3. CASE RestoreFails(c)
  <2>1. step' \in Steps /\ drag' \in {drag, None} /\ quote' \in QuoteRecords
    BY <1>0, <1>3, QuoteIs DEF RestoreFails, ToUpload, Steps
  <2>2. astray' \in BOOLEAN /\ (astray => astray') /\ bends' = bends
    BY <1>0, <1>3 DEF RestoreFails
  <2>3. /\ calls' = [calls EXCEPT ![c] = NoCall]
        /\ drawing' = drawing /\ Persist(None) /\ UNCHANGED <<rows, reference, space>>
    BY <1>3 DEF RestoreFails
  <2>4. Saved' = None /\ stored' \in [Spaces -> DrawingOrNone]
    BY <2>3, PersistIs DEF WizardBase, DrawingOrNone
  <2> QED BY <1>0, <2>1, <2>2, <2>3, <2>4, DoneBase
<1>4. CASE SetDrawing(c)
  <2>1. Saved' = calls[c].drawing /\ stored' \in [Spaces -> DrawingOrNone]
    BY <1>1, <1>4, PersistIs DEF WizardBase, SetDrawing
  <2> QED BY <1>0, <1>1, <1>4, <2>1, DoneBase DEF SetDrawing
<1>5. CASE Created(c)
  <2>1. bends \o calls[c].list \in Seq(Bend)
    BY <1>0, <1>1
  <2> QED BY <1>0, <1>5, <2>1, DoneBase DEF Created
<1>6. CASE Written(c)
  BY <1>0, <1>6, DoneBase DEF Written
<1>7. CASE Reloaded(c)
  BY <1>0, <1>1, <1>7, DoneBase DEF Reloaded
<1>8. CASE ReloadFails(c)
  BY <1>0, <1>8, DoneBase DEF ReloadFails
<1>9. CASE Quoted(c)
  <2>0. Len(calls[c].list) \in Nat
    BY <1>1
  <2>1. quote' \in QuoteRecords
    BY <1>0, <1>1, <1>9, <2>0, QuoteIs DEF Quoted
  <2> QED BY <1>0, <1>9, <2>1, DoneBase DEF Quoted
<1>10. CASE CallFails(c)
  <2>1. quote' \in QuoteRecords
    BY <1>0, <1>10, QuoteIs DEF CallFails
  <2> QED BY <1>0, <1>10, <2>1, DoneBase DEF CallFails
<1> QED BY <1>2, <1>3, <1>4, <1>5, <1>6, <1>7, <1>8, <1>9, <1>10

\* A write has failed.
LEMMA WriteFailsBase == WizardConstants /\ WizardBase /\ (\E c \in Calls : WriteFails(c)) => WizardBase'
<1> SUFFICES ASSUME WizardConstants, WizardBase, NEW c \in Calls, WriteFails(c) PROVE WizardBase'
  OBVIOUS
<1>0. /\ bends \in Seq(Bend) /\ step \in Steps /\ quote \in QuoteRecords /\ astray \in BOOLEAN
      /\ astray' \in BOOLEAN /\ stored' \in [Spaces -> DrawingOrNone]
      /\ Saved' = Saved /\ UNCHANGED space
  BY DEF WizardBase, WizardTypeOK, WriteFails, Saved
<1>1. CASE drawing = None
  BY <1>0, <1>1, DoneBase DEF WriteFails
<1>2. CASE drawing # None
  <2>1. Sends(c, "reload", drawing, None, None)
    BY <1>0, <1>2 DEF Sends, WriteFails
  <2> QED BY <2>1, SendBase
<1> QED BY <1>1, <1>2

\* The result step is opened.
LEMMA GoToResultBase == WizardConstants /\ WizardBase /\ (\E c \in Calls : GoToResult(c)) => WizardBase'
<1> SUFFICES ASSUME WizardConstants, WizardBase, NEW c \in Calls, GoToResult(c) PROVE WizardBase'
  OBVIOUS
<1>1. CASE drawing # None /\ reference = "loaded"
  <2>1. quote' \in QuoteRecords
    BY <1>1, QuoteIs DEF GoToResult
  <2>2. Sends(c, "quote", drawing, None, None)
    BY <1>1, <2>1 DEF Sends, GoToResult, WizardBase, WizardTypeOK, Steps
  <2> QED BY <2>2, SendBase
<1>2. CASE ~(drawing # None /\ reference = "loaded")
  <2>1. quote' \in QuoteRecords
    BY <1>2, QuoteIs DEF GoToResult
  <2>2. WizardTypeOK'
    BY <1>2, <2>1 DEF GoToResult, WizardBase, WizardTypeOK, Steps
  <2>3. RowsHaveIds' /\ \A o \in Calls : CallOK(o)' /\ NewDrawing(o)'
    BY <1>2 DEF GoToResult, WizardBase, RowsHaveIds, CallOK, NewDrawing, Saved
  <2> QED BY <2>2, <2>3 DEF WizardBase
<1> QED BY <1>1, <1>2

\* A call of the page that waits for the reference data is in order.
LEMMA WaitingIs ==
    ASSUME NEW kind \in Restores
    PROVE  LET new == Call(kind, "waiting", None, None, None) IN
           /\ new \in CallRecords /\ new.kind = kind /\ new.phase = "waiting" /\ new.drawing = None
           /\ new # NoCall
<1>1. kind \in CallKinds /\ "waiting" \in {"idle", "waiting", "sent"} /\ None \in DrawingOrNone
  BY DEF Restores, CallKinds, DrawingOrNone
<1> QED BY <1>1, CallIs, NoCallIs

\* Many calls leave, and others begin to wait.
LEMMA ManyBase ==
    ASSUME WizardBase,
           \A o \in Calls :
              \/ calls'[o] = calls[o] \/ calls'[o] = NoCall
              \/ \E kind \in Restores : calls'[o] = Call(kind, "waiting", None, None, None)
              \/ calls[o].kind \in Edits /\ astray' /\ calls'[o] = [calls[o] EXCEPT !.phase = "abandoned"],
           calls' = [o \in Calls |-> calls'[o]],
           drawing' \in {drawing, None}, astray => astray', astray' \in BOOLEAN, bends' \in Seq(Bend),
           step' \in Steps, drag' \in {drag, None}, quote' \in QuoteRecords,
           reference' \in {"none", "loading", "loaded"}, UNCHANGED <<rows, stored>>,
           space' \in Spaces, space' = space \/ \A o \in Calls : calls'[o].kind # "upload"
    PROVE  WizardBase'
<1>1. ASSUME NEW o \in Calls
      PROVE  /\ calls'[o] \in CallRecords /\ CallOK(o)'
             /\ calls'[o].drawing = None \/ calls'[o].drawing = calls[o].drawing
             /\ calls'[o].kind = "upload" => calls'[o] = calls[o]
  <2>0. calls[o] \in CallRecords /\ CallOK(o)
    BY DEF WizardBase, WizardTypeOK
  <2>1. CASE calls'[o] = calls[o]
    BY <2>0, <2>1 DEF CallOK
  <2>2. CASE calls'[o] = NoCall
    BY <2>0, <2>2, NoCallIs DEF CallOK, Edits
  <2>3. CASE \E kind \in Restores : calls'[o] = Call(kind, "waiting", None, None, None)
    <3>1. PICK kind \in Restores : calls'[o] = Call(kind, "waiting", None, None, None)
      BY <2>3
    <3>2. /\ calls'[o] \in CallRecords /\ calls'[o].kind = kind /\ calls'[o].phase = "waiting"
          /\ calls'[o].drawing = None /\ calls'[o] # NoCall
      BY <3>1, WaitingIs
    <3> QED BY <3>2 DEF CallOK, Edits, Restores, Lists
  <2>4. CASE calls[o].kind \in Edits /\ astray' /\ calls'[o] = [calls[o] EXCEPT !.phase = "abandoned"]
    <3>1. /\ calls'[o] \in CallRecords /\ calls'[o].kind = calls[o].kind /\ calls'[o].phase = "abandoned"
          /\ calls'[o].drawing = calls[o].drawing /\ calls'[o].id = calls[o].id
          /\ calls'[o].place = calls[o].place
      BY <2>0, <2>4 DEF CallRecords
    <3>2. calls'[o] # NoCall
      BY <3>1, NoCallIs
    <3> QED BY <2>0, <2>4, <3>1, <3>2 DEF CallOK, Edits
  <2> QED BY <2>1, <2>2, <2>3, <2>4
<1>2. WizardTypeOK'
  <2>1. calls' \in [Calls -> CallRecords]
    BY <1>1
  <2>2. drawing' \in DrawingOrNone
    BY DEF WizardBase, WizardTypeOK, DrawingOrNone
  <2> QED BY <2>1, <2>2 DEF WizardBase, WizardTypeOK
<1>3. RowsHaveIds'
  BY DEF WizardBase, RowsHaveIds
<1>4. \A o \in Calls : NewDrawing(o)'
  <2>1. CASE space' = space
    <3>1. Saved' = Saved
      BY <2>1 DEF Saved
    <3> QED BY <1>1, <3>1 DEF WizardBase, NewDrawing
  <2>2. CASE \A o \in Calls : calls'[o].kind # "upload"
    BY <2>2 DEF NewDrawing
  <2> QED BY <2>1, <2>2
<1> QED BY <1>1, <1>2, <1>3, <1>4 DEF WizardBase

\* A step is left.
LEMMA GoToBase ==
    WizardConstants /\ WizardBase /\ (\E c \in Calls, s \in Steps : GoTo(c, s)) => WizardBase'
<1> SUFFICES ASSUME WizardConstants, WizardBase, NEW c \in Calls, NEW s \in Steps, GoTo(c, s)
             PROVE  WizardBase'
  OBVIOUS
<1>1. /\ \A o \in Calls :
            \/ calls'[o] = calls[o] \/ calls'[o] = NoCall
            \/ calls'[o] = Call("stepRestore", "waiting", None, None, None)
      /\ calls' = [o \in Calls |-> calls'[o]]
  <2>1. \A o \in Calls : Abandoned[o] = calls[o] \/ Abandoned[o] = NoCall
    BY DEF Abandoned
  <2>2. DOMAIN Abandoned = Calls /\ Abandoned = [o \in Calls |-> Abandoned[o]]
    BY DEF Abandoned
  <2>3. CASE calls' = Abandoned
    BY <2>1, <2>2, <2>3
  <2>4. CASE calls' = [Abandoned EXCEPT ![c] = Call("stepRestore", "waiting", None, None, None)]
    BY <2>1, <2>2, <2>4
  <2> QED BY <2>3, <2>4 DEF GoTo
<1>2. "stepRestore" \in Restores /\ quote' \in QuoteRecords
  BY QuoteIs DEF Restores, Lists, GoTo, Leaving
<1>3. /\ drawing' \in {drawing, None} /\ (astray => astray') /\ astray' \in BOOLEAN /\ bends' \in Seq(Bend)
      /\ step' \in Steps /\ drag' \in {drag, None} /\ reference' \in {"none", "loading", "loaded"}
      /\ UNCHANGED <<rows, space, stored>> /\ space' \in Spaces
  BY DEF GoTo, WizardBase, WizardTypeOK
<1> QED BY <1>1, <1>2, <1>3, ManyBase

\* The page is reloaded.
LEMMA ReloadBase ==
    WizardConstants /\ WizardBase /\ (\E c, o \in Calls, n \in Spaces, s \in Steps : Reload(c, o, n, s)) => WizardBase'
<1> SUFFICES ASSUME WizardConstants, WizardBase, NEW c1 \in Calls, NEW c2 \in Calls, NEW n \in Spaces,
                    NEW s \in Steps, Reload(c1, c2, n, s)
             PROVE  WizardBase'
  OBVIOUS
<1> DEFINE left == {c \in Open(Edits) : calls[c].phase \in {"sent", "abandoned"}}
<1>1. /\ astray' = (astray \/ left # {})
      /\ calls' = [c \in Calls |->
                     CASE c \in left -> [calls[c] EXCEPT !.phase = "abandoned"]
                       [] c = c1 -> Call("restore", "waiting", None, None, None)
                       [] c = c2 /\ s \in {"bends", "material"} ->
                             Call("stepRestore", "waiting", None, None, None)
                       [] OTHER -> NoCall]
      /\ {c1, c2} \intersect left = {} /\ c1 # c2
  BY DEF Reload
<1>2. \A c \in left : calls[c].kind \in Edits
  BY DEF Open
<1> HIDE DEF left
<1>3. ASSUME NEW o \in Calls
      PROVE  \/ calls'[o] = NoCall
             \/ \E kind \in Restores : calls'[o] = Call(kind, "waiting", None, None, None)
             \/ calls[o].kind \in Edits /\ astray' /\ calls'[o] = [calls[o] EXCEPT !.phase = "abandoned"]
  <2>1. CASE o \in left
    <3>1. calls'[o] = [calls[o] EXCEPT !.phase = "abandoned"]
      BY <1>1, <2>1
    <3> QED BY <1>1, <1>2, <2>1, <3>1
  <2>2. CASE o = c1
    <3>1. calls'[o] = Call("restore", "waiting", None, None, None)
      BY <1>1, <2>2
    <3> QED BY <3>1 DEF Restores, Lists
  <2>3. CASE o = c2 /\ s \in {"bends", "material"}
    <3>1. calls'[o] = Call("stepRestore", "waiting", None, None, None)
      BY <1>1, <2>3
    <3> QED BY <3>1 DEF Restores, Lists
  <2>4. CASE o \notin left /\ o # c1 /\ ~(o = c2 /\ s \in {"bends", "material"})
    BY <1>1, <2>4
  <2> QED BY <2>1, <2>2, <2>3, <2>4
<1>4. calls' = [o \in Calls |-> calls'[o]]
  BY <1>1
<1>5. quote' \in QuoteRecords
  BY QuoteIs DEF Reload
<1>6. /\ drawing' \in {drawing, None} /\ (astray => astray') /\ astray' \in BOOLEAN /\ bends' \in Seq(Bend)
      /\ step' \in Steps /\ drag' \in {drag, None} /\ reference' \in {"none", "loading", "loaded"}
      /\ UNCHANGED <<rows, stored>> /\ space' \in Spaces
  BY <1>1 DEF Reload, WizardBase, WizardTypeOK
<1>7. \A o \in Calls : calls'[o].kind # "upload"
  <2> TAKE o \in Calls
  <2>1. CASE calls'[o] = NoCall
    BY <2>1, NoCallIs
  <2>2. CASE \E kind \in Restores : calls'[o] = Call(kind, "waiting", None, None, None)
    BY <2>2, WaitingIs DEF Restores, Lists
  <2>3. CASE calls[o].kind \in Edits /\ calls'[o] = [calls[o] EXCEPT !.phase = "abandoned"]
    <3>1. calls[o] \in CallRecords
      BY DEF WizardBase, WizardTypeOK
    <3> QED BY <2>3, <3>1 DEF CallRecords, Edits
  <2> QED BY <1>3, <2>1, <2>2, <2>3
<1> QED BY <1>3, <1>4, <1>5, <1>6, <1>7, ManyBase

\* A call is the same call in another phase.
SameCall(new, old) ==
    /\ new \in CallRecords
    /\ new.kind = old.kind /\ new.id = old.id /\ new.place = old.place

\* A call that has been answered.
LEMMA AnsweredIs ==
    \A old \in CallRecords : \A list \in Seq(Bend) :
        LET new == [old EXCEPT !.phase = "answered", !.list = list] IN
        SameCall(new, old) /\ new.phase = "answered" /\ new.list = list /\ new.drawing = old.drawing
<1> SUFFICES ASSUME NEW old \in CallRecords, NEW list \in Seq(Bend)
             PROVE  LET new == [old EXCEPT !.phase = "answered", !.list = list] IN
                    SameCall(new, old) /\ new.phase = "answered" /\ new.list = list /\ new.drawing = old.drawing
  OBVIOUS
<1> DEFINE new == [old EXCEPT !.phase = "answered", !.list = list]
<1>1. new \in CallRecords
  BY DEF CallRecords
<1>2. /\ new.kind = old.kind /\ new.id = old.id /\ new.place = old.place
      /\ new.phase = "answered" /\ new.list = list /\ new.drawing = old.drawing
  BY DEF CallRecords
<1> QED BY <1>1, <1>2 DEF SameCall

\* A call that has failed.
LEMMA FailedIs ==
    \A old \in CallRecords :
        LET new == [old EXCEPT !.phase = "failed"] IN
        SameCall(new, old) /\ new.phase = "failed" /\ new.drawing = old.drawing
<1> SUFFICES ASSUME NEW old \in CallRecords
             PROVE  LET new == [old EXCEPT !.phase = "failed"] IN
                    SameCall(new, old) /\ new.phase = "failed" /\ new.drawing = old.drawing
  OBVIOUS
<1> DEFINE new == [old EXCEPT !.phase = "failed"]
<1>1. new \in CallRecords
  BY DEF CallRecords
<1>2. /\ new.kind = old.kind /\ new.id = old.id /\ new.place = old.place
      /\ new.phase = "failed" /\ new.drawing = old.drawing
  BY DEF CallRecords
<1> QED BY <1>1, <1>2 DEF SameCall

\* A call that got lost.
LEMMA LostIs ==
    \A old \in CallRecords :
        LET new == [old EXCEPT !.phase = "failed", !.list = <<>>] IN
        SameCall(new, old) /\ new.phase = "failed" /\ new.drawing = old.drawing
<1> SUFFICES ASSUME NEW old \in CallRecords
             PROVE  LET new == [old EXCEPT !.phase = "failed", !.list = <<>>] IN
                    SameCall(new, old) /\ new.phase = "failed" /\ new.drawing = old.drawing
  OBVIOUS
<1> DEFINE new == [old EXCEPT !.phase = "failed", !.list = <<>>]
<1>1. new \in CallRecords
  <2>1. <<>> \in Seq(Bend)
    OBVIOUS
  <2> QED BY <2>1 DEF CallRecords
<1>2. /\ new.kind = old.kind /\ new.id = old.id /\ new.place = old.place
      /\ new.phase = "failed" /\ new.drawing = old.drawing
  BY DEF CallRecords
<1> QED BY <1>1, <1>2 DEF SameCall

\* A call that has been given a drawing.
LEMMA DrawnIs ==
    \A old \in CallRecords : \A d \in DrawingOrNone : \A phase \in {"sent", "answered"} :
        LET new == [old EXCEPT !.phase = phase, !.drawing = d] IN
        SameCall(new, old) /\ new.phase = phase /\ new.drawing = d
<1> SUFFICES ASSUME NEW old \in CallRecords, NEW d \in DrawingOrNone, NEW phase \in {"sent", "answered"}
             PROVE  LET new == [old EXCEPT !.phase = phase, !.drawing = d] IN
                    SameCall(new, old) /\ new.phase = phase /\ new.drawing = d
  OBVIOUS
<1> DEFINE new == [old EXCEPT !.phase = phase, !.drawing = d]
<1>1. new \in CallRecords
  BY DEF CallRecords
<1>2. /\ new.kind = old.kind /\ new.id = old.id /\ new.place = old.place
      /\ new.phase = phase /\ new.drawing = d
  BY DEF CallRecords
<1> QED BY <1>1, <1>2 DEF SameCall

\* Uploads that go on without making a drawing have none that is not new.
LEMMA OldUploads ==
    \A c \in Calls : \A new :
        WizardBase /\ Advances(c, new) /\ (new.kind # "upload" \/ new.drawing = calls[c].drawing)
        => NewDrawing(c)'
<1> SUFFICES ASSUME NEW c \in Calls, NEW new, WizardBase, Advances(c, new),
                    new.kind # "upload" \/ new.drawing = calls[c].drawing
             PROVE  NewDrawing(c)'
  OBVIOUS
<1>1. calls'[c] = new /\ \A o \in Calls : o # c => calls'[o] = calls[o]
  BY DEF WizardBase, WizardTypeOK, Advances
<1>2. NewDrawing(c)
  BY DEF WizardBase
<1>3. Saved' = Saved
  BY DEF Advances, Saved
<1> QED BY <1>1, <1>2, <1>3 DEF NewDrawing, Advances

\* A restore goes on.
LEMMA ResumeBase == WizardConstants /\ WizardBase /\ (\E c \in Calls : Resume(c)) => WizardBase'
<1> SUFFICES ASSUME WizardConstants, WizardBase, NEW c \in Calls, Resume(c) PROVE WizardBase'
  OBVIOUS
<1>0. /\ bends \in Seq(Bend) /\ step \in Steps /\ quote \in QuoteRecords /\ astray \in BOOLEAN
      /\ calls[c] \in CallRecords /\ stored' \in [Spaces -> DrawingOrNone]
      /\ Saved' = Saved /\ UNCHANGED space
  BY DEF WizardBase, WizardTypeOK, Resume, Saved
<1>1. CASE drawing # None \/ Saved = None
  <2>1. step' \in Steps /\ drag' \in {drag, None} /\ quote' \in QuoteRecords
    BY <1>0, QuoteIs DEF Resume, ToUpload, Steps
  <2> QED BY <1>0, <1>1, <2>1, DoneBase DEF Resume
<1>2. CASE ~(drawing # None \/ Saved = None)
  <2> DEFINE new == [calls[c] EXCEPT !.phase = "sent", !.drawing = Saved]
  <2>1. SameCall(new, calls[c]) /\ new.phase = "sent" /\ new.drawing = Saved
    <3>1. Saved \in DrawingOrNone
      BY SavedIs DEF WizardBase
    <3> QED BY <1>0, <3>1, DrawnIs
  <2>2. calls' = [calls EXCEPT ![c] = new]
    BY <1>2 DEF Resume
  <2> HIDE DEF new
  <2>3. Advances(c, new)
    BY <1>0, <1>2, <2>1, <2>2 DEF Advances, SameCall, Resume, WizardBase, WizardTypeOK, RowsHaveIds,
       Restores, Lists
  <2>4. new.kind # "upload"
    BY <2>1 DEF SameCall, Resume, Restores, Lists
  <2> QED BY <2>3, <2>4, OldUploads, PhaseBase
<1> QED BY <1>1, <1>2

\* A call that the server has handled.
LEMMA HandledIs ==
    ASSUME WizardTypeOK, NEW c \in Calls, NEW list \in Seq(Bend), Handled(c, list)
    PROVE  \/ calls[c].phase = "abandoned" /\ calls' = [calls EXCEPT ![c] = NoCall]
           \/ \E new : /\ SameCall(new, calls[c]) /\ new.phase = "answered"
                       /\ new.list = list /\ new.drawing = calls[c].drawing
                       /\ calls[c].phase # "abandoned" /\ calls' = [calls EXCEPT ![c] = new]
<1>1. CASE calls[c].phase = "abandoned"
  BY <1>1 DEF Handled
<1>2. CASE calls[c].phase # "abandoned"
  <2> DEFINE new == [calls[c] EXCEPT !.phase = "answered", !.list = list]
  <2>1. SameCall(new, calls[c]) /\ new.phase = "answered" /\ new.list = list /\ new.drawing = calls[c].drawing
    <3>1. calls[c] \in CallRecords
      BY DEF WizardTypeOK
    <3> QED BY <3>1, AnsweredIs
  <2>2. calls' = [calls EXCEPT ![c] = new]
    BY <1>2 DEF Handled
  <2> HIDE DEF new
  <2> QED BY <1>2, <2>1, <2>2
<1> QED BY <1>1, <1>2

\* What the server does to the rows when it handles a call.
Serves(c) ==
    /\ calls[c].kind \notin {"none", "upload"}
    /\ rows' \subseteq Bend /\ IsFiniteSet(rows') /\ RowsHaveIds'
    /\ \A b \in rows' : b.drawing = calls[c].drawing \/ \E a \in rows : a.drawing = b.drawing
    /\ UNCHANGED <<drawing, bends, space, stored, reference, step, drag, quote, astray>>

\* A call that has been handled is in order.
LEMMA HandledBase ==
    ASSUME WizardBase, NEW c \in Calls, NEW list \in Seq(Bend), Handled(c, list), Serves(c)
    PROVE  WizardBase'
<1>1. CASE calls' = [calls EXCEPT ![c] = NoCall]
  <2>1. Saved' = Saved
    BY DEF Serves, Saved
  <2> QED BY <1>1, <2>1, LeftBase DEF Serves, WizardBase, WizardTypeOK
<1>2. ASSUME NEW new, SameCall(new, calls[c]), new.phase = "answered", new.drawing = calls[c].drawing,
             calls' = [calls EXCEPT ![c] = new]
      PROVE  WizardBase'
  <2>1. Advances(c, new)
    BY <1>2 DEF Advances, SameCall, Serves, WizardBase, WizardTypeOK
  <2> QED BY <1>2, <2>1, OldUploads, PhaseBase
<1> QED BY <1>1, <1>2, HandledIs DEF WizardBase

\* A bend is made.
LEMMA ServeCreateBase ==
    WizardConstants /\ WizardBase /\ (\E c \in Calls, id \in BendIds : ServeCreate(c, id)) => WizardBase'
<1> SUFFICES ASSUME WizardConstants, WizardBase, NEW c \in Calls, NEW id \in BendIds, ServeCreate(c, id)
             PROVE  WizardBase'
  OBVIOUS
<1> DEFINE new == [id |-> id, drawing |-> calls[c].drawing, place |-> calls[c].place]
<1>1. calls[c].kind = "create" /\ calls[c].drawing \in Drawings /\ calls[c].place \in Places
  BY DEF ServeCreate, Pending, WizardBase, CallOK, Edits
<1>2. new \in Bend /\ new.id = id /\ new.drawing = calls[c].drawing
  BY <1>1 DEF Bend
<1>3. rows' = rows \union {new} /\ Handled(c, <<new>>) /\ <<new>> \in Seq(Bend)
  BY <1>2 DEF ServeCreate
<1> HIDE DEF new
<1>4. IsFiniteSet(rows')
  BY <1>3, FS_AddElement DEF WizardBase, WizardTypeOK
<1>5. RowsHaveIds'
  BY <1>2, <1>3 DEF ServeCreate, OfId, WizardBase, RowsHaveIds
<1>6. Serves(c)
  BY <1>1, <1>2, <1>3, <1>4, <1>5 DEF Serves, ServeCreate, WizardBase, WizardTypeOK
<1> QED BY <1>3, <1>6, HandledBase

\* What an edit makes of the rows.
LEMMA EditedIs ==
    ASSUME WizardBase, NEW c \in Calls, ServeEdit(c)
    PROVE  /\ calls[c].id \in BendIds
           /\ rows' \subseteq Bend /\ IsFiniteSet(rows') /\ RowsHaveIds'
           /\ \A b \in rows' : \E a \in rows : a.id = b.id /\ a.drawing = b.drawing
           /\ \A b : b.id # calls[c].id => (b \in rows' <=> b \in rows)
           /\ calls[c].kind = "delete" => \A b \in rows' : b.id # calls[c].id
           /\ calls[c].kind = "update" =>
                /\ calls[c].place \in Places
                /\ \A b \in rows' : b.id = calls[c].id => b.place = calls[c].place
                /\ \A a \in rows : a.id = calls[c].id =>
                      \E b \in rows' : b.id = a.id /\ b.drawing = a.drawing /\ b.place = calls[c].place
<1> DEFINE old == OfId(calls[c].id)
           moved == {[b EXCEPT !.place = calls[c].place] : b \in IF calls[c].kind = "update" THEN old ELSE {}}
<1>1. calls[c].kind \in {"update", "delete"} /\ rows' = (rows \ old) \union moved
  BY DEF ServeEdit, Pending
<1>2. calls[c].id \in BendIds /\ (calls[c].kind = "update" => calls[c].place \in Places)
  BY <1>1 DEF WizardBase, CallOK
<1>3. \A b \in rows : b \in Bend /\ (b \in old <=> b.id = calls[c].id)
  BY DEF OfId, WizardBase, WizardTypeOK
<1>4. old \subseteq rows /\ \A a, b \in old : a = b
  BY DEF OfId, WizardBase, RowsHaveIds
<1>5. ASSUME NEW b \in moved
      PROVE  /\ calls[c].kind = "update" /\ b \in Bend
             /\ \E a \in old : b.id = a.id /\ b.drawing = a.drawing /\ b.place = calls[c].place
  <2>1. PICK a \in old : calls[c].kind = "update" /\ b = [a EXCEPT !.place = calls[c].place]
    OBVIOUS
  <2>2. a \in Bend /\ calls[c].place \in Places
    BY <1>2, <1>3, <1>4, <2>1
  <2>3. b \in Bend /\ b.id = a.id /\ b.drawing = a.drawing /\ b.place = calls[c].place
    BY <2>1, <2>2 DEF Bend
  <2> QED BY <2>1, <2>3
<1>6. \A a, b \in moved : a = b
  BY <1>4
<1>7. IsFiniteSet(moved)
  <2>1. CASE moved = {}
    BY <2>1, FS_EmptySet
  <2>2. CASE moved # {}
    <3>1. PICK a \in moved : TRUE
      BY <2>2
    <3>2. moved = {a}
      BY <1>6, <3>1
    <3> QED BY <3>2, FS_Singleton
  <2> QED BY <2>1, <2>2
<1>8. calls[c].kind = "update" => \A a \in old : \E b \in moved :
         b.id = a.id /\ b.drawing = a.drawing /\ b.place = calls[c].place
  <2> SUFFICES ASSUME calls[c].kind = "update", NEW a \in old
               PROVE  \E b \in moved : b.id = a.id /\ b.drawing = a.drawing /\ b.place = calls[c].place
    OBVIOUS
  <2>1. [a EXCEPT !.place = calls[c].place] \in moved
    OBVIOUS
  <2>2. a \in Bend /\ calls[c].place \in Places
    BY <1>2, <1>3, <1>4
  <2>3. /\ [a EXCEPT !.place = calls[c].place].id = a.id
        /\ [a EXCEPT !.place = calls[c].place].drawing = a.drawing
        /\ [a EXCEPT !.place = calls[c].place].place = calls[c].place
    BY <2>2 DEF Bend
  <2> QED BY <2>1, <2>3
<1> HIDE DEF old, moved
<1>9. rows' \subseteq Bend /\ IsFiniteSet(rows')
  <2>1. IsFiniteSet(rows \ old)
    <3>1. rows \ old \subseteq rows /\ IsFiniteSet(rows)
      BY DEF WizardBase, WizardTypeOK
    <3> QED BY <3>1, FS_Subset
  <2> QED BY <1>1, <1>3, <1>5, <1>7, <2>1, FS_Union
<1>10. \A b \in moved : b.id = calls[c].id
  BY <1>3, <1>4, <1>5
<1>11. RowsHaveIds'
  <2> SUFFICES ASSUME NEW a \in rows', NEW b \in rows', a.id = b.id PROVE a = b
    BY DEF RowsHaveIds
  <2> QED BY <1>1, <1>3, <1>6, <1>10 DEF WizardBase, RowsHaveIds
<1>12. \A b \in rows' : \E a \in rows : a.id = b.id /\ a.drawing = b.drawing
  BY <1>1, <1>4, <1>5
<1>13. \A b : b.id # calls[c].id => (b \in rows' <=> b \in rows)
  BY <1>1, <1>3, <1>4, <1>10
<1>14. calls[c].kind = "delete" => \A b \in rows' : b.id # calls[c].id
  BY <1>1, <1>3, <1>5
<1>15. calls[c].kind = "update" =>
          /\ \A b \in rows' : b.id = calls[c].id => b.place = calls[c].place
          /\ \A a \in rows : a.id = calls[c].id =>
                \E b \in rows' : b.id = a.id /\ b.drawing = a.drawing /\ b.place = calls[c].place
  <2>1. \A b \in rows' : b.id = calls[c].id => b.place = calls[c].place
    BY <1>1, <1>3, <1>5
  <2>2. calls[c].kind = "update" => \A a \in rows : a.id = calls[c].id =>
           \E b \in rows' : b.id = a.id /\ b.drawing = a.drawing /\ b.place = calls[c].place
    BY <1>1, <1>3, <1>8
  <2> QED BY <2>1, <2>2
<1> QED BY <1>2, <1>9, <1>11, <1>12, <1>13, <1>14, <1>15

\* A bend is moved or removed on the server, or it is gone.
LEMMA ServeEditBase == WizardConstants /\ WizardBase /\ (\E c \in Calls : ServeEdit(c)) => WizardBase'
<1> SUFFICES ASSUME WizardConstants, WizardBase, NEW c \in Calls, ServeEdit(c) PROVE WizardBase'
  OBVIOUS
<1>1. Serves(c)
  BY EditedIs DEF Serves, ServeEdit, Pending
<1>2. CASE Handled(c, <<>>)
  <2>1. <<>> \in Seq(Bend)
    OBVIOUS
  <2> QED BY <1>1, <1>2, <2>1, HandledBase
<1>3. CASE calls' = [calls EXCEPT ![c].phase = "failed"]
  <2> DEFINE new == [calls[c] EXCEPT !.phase = "failed"]
  <2>1. SameCall(new, calls[c]) /\ new.phase = "failed" /\ new.drawing = calls[c].drawing
    <3>1. calls[c] \in CallRecords
      BY DEF WizardBase, WizardTypeOK
    <3> QED BY <3>1, FailedIs
  <2>2. calls' = [calls EXCEPT ![c] = new]
    BY <1>3
  <2> HIDE DEF new
  <2>3. Advances(c, new)
    BY <1>1, <2>1, <2>2 DEF Advances, SameCall, Serves, WizardBase, WizardTypeOK
  <2> QED BY <2>1, <2>3, OldUploads, PhaseBase
<1> QED BY <1>2, <1>3 DEF ServeEdit

\* A list is read, for the page or for a quote.
LEMMA ServeReadBase == WizardConstants /\ WizardBase /\ (\E c \in Calls : ServeRead(c)) => WizardBase'
<1> SUFFICES ASSUME WizardConstants, WizardBase, NEW c \in Calls, ServeRead(c) PROVE WizardBase'
  OBVIOUS
<1>1. Serves(c)
  BY DEF Serves, ServeRead, Pending, Lists, WizardBase, WizardTypeOK, RowsHaveIds
<1>2. Listed(calls[c].drawing) \in Seq(Bend) /\ Handled(c, Listed(calls[c].drawing))
  BY ListedIs DEF WizardBase, ServeRead
<1> QED BY <1>1, <1>2, HandledBase

\* A drawing is made.
LEMMA ServeUploadBase ==
    WizardConstants /\ WizardBase /\ (\E c \in Calls, d \in Drawings : ServeUpload(c, d)) => WizardBase'
<1> SUFFICES ASSUME WizardConstants, WizardBase, NEW c \in Calls, NEW d \in Drawings, ServeUpload(c, d)
             PROVE  WizardBase'
  OBVIOUS
<1> DEFINE new == [calls[c] EXCEPT !.phase = "answered", !.drawing = d]
<1>1. SameCall(new, calls[c]) /\ new.phase = "answered" /\ new.drawing = d
  <2>1. calls[c] \in CallRecords /\ d \in DrawingOrNone
    BY DEF WizardBase, WizardTypeOK, DrawingOrNone
  <2> QED BY <2>1, DrawnIs
<1>2. calls' = [calls EXCEPT ![c] = new] /\ calls[c].kind = "upload"
  BY DEF ServeUpload, Pending
<1> HIDE DEF new
<1>3. d # None
  BY DEF WizardConstants
<1>4. Advances(c, new)
  BY <1>1, <1>2, <1>3 DEF Advances, SameCall, ServeUpload, WizardBase, WizardTypeOK, RowsHaveIds
<1>5. calls'[c] = new /\ \A o \in Calls : o # c => calls'[o] = calls[o]
  BY <1>2 DEF WizardBase, WizardTypeOK
<1>6. NewDrawing(c)'
  <2>1. Saved' = Saved /\ d # Saved
    BY DEF ServeUpload, Saved, Range, WizardBase, WizardTypeOK
  <2> QED BY <1>1, <1>5, <2>1 DEF NewDrawing, ServeUpload
<1> QED BY <1>4, <1>6, PhaseBase

\* A call fails on its way.
LEMMA LoseBase == WizardConstants /\ WizardBase /\ (\E c \in Calls : Lose(c)) => WizardBase'
<1> SUFFICES ASSUME WizardConstants, WizardBase, NEW c \in Calls, Lose(c) PROVE WizardBase'
  OBVIOUS
<1> DEFINE new == [calls[c] EXCEPT !.phase = "failed", !.list = <<>>]
<1>1. SameCall(new, calls[c]) /\ new.phase = "failed" /\ new.drawing = calls[c].drawing
  <2>1. calls[c] \in CallRecords
    BY DEF WizardBase, WizardTypeOK
  <2> QED BY <2>1, LostIs
<1>2. calls' = [calls EXCEPT ![c] = new]
  BY DEF Lose
<1>3. calls[c].kind # "none"
  BY NoCallIs DEF Lose, WizardBase, CallOK
<1> HIDE DEF new
<1>4. Advances(c, new)
  BY <1>1, <1>2, <1>3 DEF Advances, SameCall, Lose, WizardBase, WizardTypeOK, RowsHaveIds
<1> QED BY <1>1, <1>4, OldUploads, PhaseBase

\* The wizard begins in order.
LEMMA InitBase == WizardConstants /\ WizardInit => WizardBase
<1> SUFFICES ASSUME WizardConstants, WizardInit PROVE WizardBase
  OBVIOUS
<1>1. WizardTypeOK
  <2>1. <<>> \in Seq(Bend) /\ IsFiniteSet({})
    BY FS_EmptySet
  <2> QED BY <2>1, NoCallIs, QuoteIs DEF WizardInit, WizardTypeOK, DrawingOrNone, Steps
<1>2. \A c \in Calls : calls[c] = NoCall
  BY DEF WizardInit
<1>3. RowsHaveIds /\ \A c \in Calls : CallOK(c) /\ NewDrawing(c)
  BY <1>2, NoCallIs DEF RowsHaveIds, CallOK, NewDrawing, WizardInit, Edits
<1> QED BY <1>1, <1>3 DEF WizardBase

-----------------------------------------------------------------------------
(* What holds of the wizard while no calls have crossed *)

\* No write changes, nor what it is about; the customer lets a bend go or takes one of those
\* shown.
EditsStay ==
    /\ UNCHANGED <<rows, drawing, bends, Saved>>
    /\ drag' \in {drag, None} \union Shown
    /\ \A o \in Calls : calls'[o] = calls[o] \/ (calls[o].kind \notin Edits /\ calls'[o].kind \notin Edits)

\* Steps that leave the writes alone keep what is known of the draft, the writes and the screen.
LEMMA EditsStayKeeps ==
    WizardConstants /\ WizardBase /\ EditsStay /\ (Steady' => Steady) /\ DraftInv /\ EditInv /\ ScreenInv
    => DraftInv' /\ EditInv' /\ ScreenInv'
<1> SUFFICES ASSUME WizardConstants, WizardBase, EditsStay, Steady' => Steady, DraftInv, EditInv, ScreenInv
             PROVE  DraftInv' /\ EditInv' /\ ScreenInv'
  OBVIOUS
<1>1. \A o \in Calls : calls[o].kind \in Edits \/ calls'[o].kind \in Edits => calls'[o] = calls[o]
  BY DEF EditsStay
<1>2. UNCHANGED <<rows, drawing, bends, Saved, Shown>>
  BY DEF EditsStay, Shown
<1>3. /\ Open({"create"})' = Open({"create"}) /\ Open({"update"})' = Open({"update"})
      /\ Open({"delete"})' = Open({"delete"}) /\ Open({"update", "delete"})' = Open({"update", "delete"})
      /\ Open(Edits)' = Open(Edits)
  BY <1>1 DEF Open, Edits
<1>4. /\ \A o \in Open(Edits) : calls'[o] = calls[o]
      /\ Open({"create"}) \subseteq Open(Edits) /\ Open({"update"}) \subseteq Open(Edits)
      /\ Open({"delete"}) \subseteq Open(Edits) /\ Open({"update", "delete"}) \subseteq Open(Edits)
  BY <1>1 DEF Open, Edits
<1>5. DraftInv'
  BY <1>2, <1>3 DEF DraftInv
<1>6. \A r \in rows : r.id # drag => r.id # drag' \/ r.id \in Shown
  <2>1. \A r \in rows : r.id # None
    BY DEF WizardConstants, WizardBase, WizardTypeOK, Bend
  <2> QED BY <2>1 DEF EditsStay
<1>7. \A c \in Open({"create"}) : CreateOK(c)'
  BY <1>2, <1>3, <1>4, <1>6 DEF EditInv, CreateOK
<1>8. EditInv'
  BY <1>2, <1>3, <1>4, <1>7 DEF EditInv
<1>9. \A b : ShownOK(b) => ShownOK(b)'
  BY <1>2, <1>3, <1>4 DEF ShownOK
<1>10. \A r : HiddenOK(r) => HiddenOK(r)'
  BY <1>1 DEF HiddenOK, Edits
<1>11. RowOf(drawing)' = RowOf(drawing)
  BY <1>2 DEF RowOf
<1>12. ScreenInv'
  BY <1>2, <1>9, <1>10, <1>11 DEF ScreenInv
<1> QED BY <1>5, <1>8, <1>12

\* Calls that are neither writes nor lists change, or the customer lets a bend go or takes
\* one of those shown.
Quiet ==
    /\ UNCHANGED <<rows, drawing, bends, Saved>>
    /\ drag' \in {drag, None} \union Shown
    /\ \A o \in Calls :
          calls'[o] = calls[o] \/ {calls[o].kind, calls'[o].kind} \subseteq {"none", "upload", "quote"}

\* Quiet steps keep what is known of the draft, the lists, the writes and the screen.
LEMMA QuietKeeps ==
    WizardConstants /\ WizardBase /\ Quiet /\ DraftInv /\ ListInv /\ EditInv /\ ScreenInv
    => DraftInv' /\ ListInv' /\ EditInv' /\ ScreenInv'
<1> SUFFICES ASSUME WizardConstants, WizardBase, Quiet, DraftInv, ListInv, EditInv, ScreenInv
             PROVE  DraftInv' /\ ListInv' /\ EditInv' /\ ScreenInv'
  OBVIOUS
<1>1. EditsStay
  BY DEF Quiet, EditsStay, Edits
<1>2. \A o \in Calls : calls[o].kind \in Edits \union Lists \/ calls'[o].kind \in Edits \union Lists =>
         calls'[o] = calls[o]
  BY DEF Quiet, Edits, Lists
<1>3. /\ Open({"reload"})' = Open({"reload"}) /\ Open(Restores)' = Open(Restores)
      /\ Open(Edits)' = Open(Edits) /\ Open(Lists)' = Open(Lists)
      /\ \A o \in Open(Edits) \union Open(Lists) : calls'[o] = calls[o]
      /\ Open({"reload"}) \subseteq Open(Lists) /\ Open(Restores) \subseteq Open(Lists)
  BY <1>2 DEF Open, Edits, Lists, Restores
<1>4. UNCHANGED <<rows, drawing, Saved>>
  BY DEF Quiet
<1>5. Steady' => Steady
  BY <1>3, <1>4 DEF Steady, Bare
<1>6. \A list, d : Exactly(list, d)' <=> Exactly(list, d)
  BY <1>4 DEF Exactly, RowOf
<1>7. ListInv'
  BY <1>3, <1>4, <1>6 DEF ListInv
<1> QED BY <1>1, <1>5, <1>7, EditsStayKeeps

\* No quote is made when its step is not shown, or when something else is under way.
LEMMA QuoteKept ==
    ASSUME QuoteInv, UNCHANGED <<step, quote>>,
           \A o \in Calls : calls'[o].kind = "quote" => calls[o].kind = "quote",
           step # "result" \/ drawing = None \/ drawing' # None,
           step # "result" \/ \E c \in Calls : calls[c].kind \notin {"none", "quote"}
    PROVE  QuoteInv'
BY DEF QuoteInv, Open

\* A step that shows no quote.
LEMMA QuoteGone ==
    ASSUME \A o \in Calls : calls'[o].kind # "quote", quote'.state \notin {"saving", "shown"}
    PROVE  QuoteInv'
BY DEF QuoteInv, Open

\* The list on the screen when nothing is under way.
LEMMA SettledScreen ==
    ASSUME WizardBase, ScreenInv, drawing # None, \A c \in Calls : calls[c].kind \notin Edits \union Lists
    PROVE  Exactly(bends, drawing)
<1>1. Steady /\ Open({"update"}) = {}
  BY DEF Steady, Bare, Open, Edits, Lists
<1>2. \A r \in rows : ~HiddenOK(r)
  BY DEF HiddenOK, Edits
<1>3. DOMAIN bends = 1 .. Len(bends) /\ \A b \in Range(bends) : b \in Bend
  BY DEF WizardBase, WizardTypeOK, Range
<1>4. \A b \in Range(bends) : b \in RowOf(drawing)
  <2> TAKE b \in Range(bends)
  <2>1. PICK r \in rows : r.id = b.id /\ r.drawing = drawing /\ r.place = b.place /\ b.drawing = drawing
    BY <1>1 DEF ScreenInv, ShownOK
  <2>2. r \in Bend /\ b \in Bend
    BY <1>3 DEF WizardBase, WizardTypeOK
  <2>3. r = b
    BY <2>1, <2>2 DEF Bend
  <2> QED BY <2>1, <2>3 DEF RowOf
<1>5. \A r \in RowOf(drawing) : r \in Range(bends)
  <2> TAKE r \in RowOf(drawing)
  <2>1. PICK b \in Range(bends) : r.id = b.id
    BY <1>1, <1>2 DEF ScreenInv, Shown, RowOf
  <2> QED BY <1>4, <2>1 DEF RowOf, WizardBase, RowsHaveIds
<1>6. IsInjective(bends)
  BY <1>1 DEF ScreenInv, IsInjective
<1> QED BY <1>4, <1>5, <1>6 DEF Exactly

\* A step between states of which neither has seen calls cross.
StraightStep == WizardConstants /\ WizardBase /\ WizardBase' /\ ~astray /\ ~astray' /\ StraightInv

\* Steps without calls.
LEMMA ReferenceStraight ==
    StraightStep /\ (ReferenceArrives \/ ReferenceFails \/ PointerUp \/ \E id \in BendIds : PointerDown(id))
    => StraightInv'
<1> SUFFICES ASSUME StraightStep,
                    ReferenceArrives \/ ReferenceFails \/ PointerUp \/ \E id \in BendIds : PointerDown(id)
             PROVE  StraightInv'
  OBVIOUS
<1>1. Quiet /\ UNCHANGED <<calls, step, quote, drawing, bends>>
  BY DEF Quiet, ReferenceArrives, ReferenceFails, PointerUp, PointerDown, Saved
<1>2. QuoteInv'
  BY <1>1 DEF StraightStep, StraightInv, QuoteInv, Open
<1> QED BY <1>1, <1>2, QuietKeeps DEF StraightStep, StraightInv

\* What one call's change changes.
LEMMA OneCall ==
    ASSUME WizardBase, NEW c \in Calls, NEW new, calls' = [calls EXCEPT ![c] = new]
    PROVE  calls'[c] = new /\ \A o \in Calls : o # c => calls'[o] = calls[o]
BY DEF WizardBase, WizardTypeOK

\* A file is uploaded.
LEMMA UploadStraight == StraightStep /\ (\E c \in Calls : Upload(c)) => StraightInv'
<1> SUFFICES ASSUME StraightStep, NEW c \in Calls, Upload(c) PROVE StraightInv'
  OBVIOUS
<1>1. calls[c].kind = "none"
  BY NoCallIs DEF Upload, Free
<1>2. calls'[c].kind = "upload" /\ \A o \in Calls : o # c => calls'[o] = calls[o]
  <2>1. Call("upload", "sent", None, None, None).kind = "upload"
    BY DEF Call
  <2> QED BY <2>1, OneCall DEF StraightStep, Upload
<1>3. Quiet
  BY <1>1, <1>2 DEF Quiet, Upload, Saved
<1>4. QuoteInv'
  BY <1>2, QuoteKept DEF StraightStep, StraightInv, Upload
<1> QED BY <1>3, <1>4, QuietKeeps DEF StraightStep, StraightInv

\* A file is Saved.
LEMMA ServeUploadStraight ==
    StraightStep /\ (\E c \in Calls, d \in Drawings : ServeUpload(c, d)) => StraightInv'
<1> SUFFICES ASSUME StraightStep, NEW c \in Calls, NEW d \in Drawings, ServeUpload(c, d) PROVE StraightInv'
  OBVIOUS
<1>1. calls[c].kind = "upload" /\ calls[c] \in CallRecords
  BY DEF ServeUpload, Pending, StraightStep, WizardBase, WizardTypeOK
<1>2. calls'[c].kind = "upload" /\ \A o \in Calls : o # c => calls'[o] = calls[o]
  <2>1. [calls[c] EXCEPT !.phase = "answered", !.drawing = d].kind = "upload"
    BY <1>1 DEF CallRecords
  <2>2. calls' = [calls EXCEPT ![c] = [calls[c] EXCEPT !.phase = "answered", !.drawing = d]]
    BY DEF ServeUpload
  <2> QED BY <2>1, <2>2, OneCall DEF StraightStep
<1>3. Quiet
  BY <1>1, <1>2 DEF Quiet, ServeUpload, Saved
<1>4. QuoteInv'
  <2>1. drawing = None \/ drawing' # None
    BY DEF ServeUpload
  <2> QED BY <1>1, <1>2, <2>1, QuoteKept DEF StraightStep, StraightInv, ServeUpload
<1> QED BY <1>3, <1>4, QuietKeeps DEF StraightStep, StraightInv

\* The result step is opened.
LEMMA GoToResultStraight == StraightStep /\ (\E c \in Calls : GoToResult(c)) => StraightInv'
<1> SUFFICES ASSUME StraightStep, NEW c \in Calls, GoToResult(c) PROVE StraightInv'
  OBVIOUS
<1>0. \A o \in Calls : calls[o].kind # "quote"
  BY DEF GoToResult, StraightStep, StraightInv, QuoteInv, Open
<1>1. CASE drawing # None /\ reference = "loaded"
  <2> DEFINE new == Call("quote", "sent", drawing, None, None)
             hurried == \E o \in Calls : calls[o] # NoCall
  <2>1. new.kind = "quote" /\ new.phase = "sent" /\ new.drawing = drawing
    BY DEF Call
  <2>2. /\ calls' = [calls EXCEPT ![c] = new] /\ quote' = [NoQuote("saving") EXCEPT !.hurried = hurried]
        /\ calls[c] = NoCall /\ step' = "result"
    BY <1>1 DEF GoToResult, Free
  <2>3. quote'.state = "saving" /\ quote'.hurried = hurried
    <3>1. hurried \in BOOLEAN
      OBVIOUS
    <3> QED BY <2>2, <3>1, QuoteIs
  <2> HIDE DEF new
  <2>4. calls'[c] = new /\ \A o \in Calls : o # c => calls'[o] = calls[o]
    BY <2>2, OneCall DEF StraightStep
  <2>5. Quiet
    BY <2>1, <2>2, <2>4, NoCallIs DEF Quiet, GoToResult, Saved
  <2>6. QuoteInv'
    <3>1. Open({"quote"})' = {c}
      BY <1>0, <2>1, <2>4 DEF Open
    <3>2. ~hurried => \A o \in Calls : calls'[o].kind \in {"none", "quote"}
      BY <2>1, <2>4, NoCallIs
    <3>3. drawing' = drawing
      BY DEF GoToResult
    <3> HIDE DEF hurried
    <3> QED BY <1>1, <2>1, <2>2, <2>3, <2>4, <3>1, <3>2, <3>3 DEF QuoteInv
  <2> QED BY <2>5, <2>6, QuietKeeps DEF StraightStep, StraightInv
<1>2. CASE ~(drawing # None /\ reference = "loaded")
  <2>1. calls' = calls /\ quote'.state = "unasked"
    BY <1>2, QuoteIs DEF GoToResult
  <2>2. Quiet
    BY <2>1 DEF Quiet, GoToResult, Saved
  <2>3. QuoteInv'
    BY <1>0, <2>1, QuoteGone
  <2> QED BY <2>2, <2>3, QuietKeeps DEF StraightStep, StraightInv
<1> QED BY <1>1, <1>2

\* A quote is shown.
LEMMA QuotedStraight == StraightStep /\ (\E c \in Calls : Quoted(c)) => StraightInv'
<1> SUFFICES ASSUME StraightStep, NEW c \in Calls, Quoted(c) PROVE StraightInv'
  OBVIOUS
<1>1. /\ calls[c].kind = "quote" /\ calls[c].phase = "answered"
      /\ calls[c] \in CallRecords /\ quote \in QuoteRecords
  BY DEF Quoted, StraightStep, WizardBase, WizardTypeOK
<1>2. calls'[c].kind = "none" /\ \A o \in Calls : o # c => calls'[o] = calls[o]
  BY NoCallIs, OneCall DEF StraightStep, Quoted
<1>3. Quiet
  BY <1>1, <1>2 DEF Quiet, Quoted, Saved
<1>4. /\ quote'.state = "shown" /\ quote'.drawing = calls[c].drawing
      /\ quote'.count = Len(calls[c].list) /\ quote'.hurried = quote.hurried
  <2>1. quote' = [quote EXCEPT !.state = "shown", !.drawing = calls[c].drawing, !.count = Len(calls[c].list)]
    BY DEF Quoted
  <2> QED BY <1>1, <2>1 DEF QuoteRecords
<1>5. QuoteInv'
  <2>1. step = "result" /\ drawing # None /\ quote.state = "saving" /\ \A o \in Open({"quote"}) : o = c
    BY <1>1 DEF StraightStep, StraightInv, QuoteInv, Open
  <2>2. Open({"quote"})' = {}
    BY <1>2, <2>1 DEF Open
  <2>3. ~quote.hurried => /\ \A o \in Calls : calls[o].kind \in {"none", "quote"}
                          /\ calls[c].drawing = drawing /\ Len(calls[c].list) = Len(bends)
    BY <1>1, <2>1 DEF StraightStep, StraightInv, QuoteInv, Open
  <2>4. drawing' = drawing /\ bends' = bends /\ step' = step
    BY DEF Quoted
  <2> QED BY <1>2, <1>4, <2>1, <2>2, <2>3, <2>4 DEF QuoteInv
<1> QED BY <1>3, <1>5, QuietKeeps DEF StraightStep, StraightInv

\* A quote or an upload fails.
LEMMA CallFailsStraight == StraightStep /\ (\E c \in Calls : CallFails(c)) => StraightInv'
<1> SUFFICES ASSUME StraightStep, NEW c \in Calls, CallFails(c) PROVE StraightInv'
  OBVIOUS
<1>1. calls[c].kind \in {"quote", "upload"} /\ quote \in QuoteRecords
  BY DEF CallFails, StraightStep, WizardBase, WizardTypeOK
<1>2. calls'[c].kind = "none" /\ \A o \in Calls : o # c => calls'[o] = calls[o]
  BY NoCallIs, OneCall DEF StraightStep, CallFails
<1>3. Quiet
  BY <1>1, <1>2 DEF Quiet, CallFails, Saved
<1>4. CASE calls[c].kind = "quote"
  <2>1. quote'.state = "failed"
    BY <1>1, <1>4, QuoteIs DEF CallFails
  <2>2. \A o \in Calls : calls'[o].kind # "quote"
    BY <1>2, <1>4 DEF StraightStep, StraightInv, QuoteInv, Open
  <2>3. QuoteInv'
    BY <2>1, <2>2, QuoteGone
  <2> QED BY <1>3, <2>3, QuietKeeps DEF StraightStep, StraightInv
<1>5. CASE calls[c].kind = "upload"
  <2>1. quote' = quote /\ (drawing = None \/ drawing' # None)
    BY <1>5 DEF CallFails
  <2>2. QuoteInv'
    BY <1>2, <1>5, <2>1, QuoteKept DEF StraightStep, StraightInv, CallFails
  <2> QED BY <1>3, <2>2, QuietKeeps DEF StraightStep, StraightInv
<1> QED BY <1>1, <1>4, <1>5

-----------------------------------------------------------------------------
(* Writes are sent *)

\* A write is sent while no list is being read.
SendsEdit(c, kind, id, p) ==
    /\ kind \in Edits
    /\ calls[c].kind = "none"
    /\ step = "bends" /\ drawing # None
    /\ \A o \in Calls : calls[o].kind \notin Lists
    /\ calls'[c].kind = kind /\ calls'[c].phase = "sent" /\ calls'[c].drawing = drawing
    /\ calls'[c].id = id /\ calls'[c].place = p
    /\ \A o \in Calls : o # c => calls'[o] = calls[o]
    /\ UNCHANGED <<rows, drawing, Saved, reference, step, drag, quote>>

\* What a write that is sent leaves alone.
LEMMA SendsEditKeeps ==
    \A c \in Calls : \A kind, id, p :
        StraightStep /\ SendsEdit(c, kind, id, p) => DraftInv' /\ ListInv' /\ QuoteInv' /\ (Steady' => Steady)
<1> SUFFICES ASSUME NEW c \in Calls, NEW kind, NEW id, NEW p, StraightStep, SendsEdit(c, kind, id, p)
             PROVE  DraftInv' /\ ListInv' /\ QuoteInv' /\ (Steady' => Steady)
  OBVIOUS
<1>1. DraftInv'
  BY DEF StraightStep, StraightInv, DraftInv, SendsEdit
<1>2. \A o \in Calls : calls'[o].kind \notin Lists
  BY DEF SendsEdit, Edits, Lists
<1>3. ListInv'
  BY <1>2 DEF ListInv, Open, Restores, Lists
<1>4. QuoteInv'
  BY QuoteKept DEF StraightStep, StraightInv, SendsEdit, Edits
<1>5. Steady' => Steady
  BY DEF Steady, Bare, Open, SendsEdit, Edits, Lists
<1> QED BY <1>1, <1>3, <1>4, <1>5

\* A free slot and the call it is used for.
LEMMA FreeSlot ==
    ASSUME WizardBase, NEW c \in Calls, Free(c), NEW kind, NEW d, NEW id, NEW p,
           calls' = [calls EXCEPT ![c] = Call(kind, "sent", d, id, p)]
    PROVE  /\ calls[c].kind = "none"
           /\ calls'[c].kind = kind /\ calls'[c].phase = "sent" /\ calls'[c].drawing = d
           /\ calls'[c].id = id /\ calls'[c].place = p
           /\ \A o \in Calls : o # c => calls'[o] = calls[o]
<1> DEFINE new == Call(kind, "sent", d, id, p)
<1>1. new.kind = kind /\ new.phase = "sent" /\ new.drawing = d /\ new.id = id /\ new.place = p
  BY DEF Call
<1>2. calls[c].kind = "none"
  BY NoCallIs DEF Free
<1>3. calls' = [calls EXCEPT ![c] = new]
  OBVIOUS
<1> HIDE DEF new
<1> QED BY ZenonT(60), <1>1, <1>2, <1>3, OneCall

\* A bend is moved.
LEMMA PointerMoveStraight == StraightStep /\ (\E c \in Calls, p \in Places : PointerMove(c, p)) => StraightInv'
<1> SUFFICES ASSUME StraightStep, NEW c \in Calls, NEW p \in Places, PointerMove(c, p) PROVE StraightInv'
  OBVIOUS
<1>1. calls' = [calls EXCEPT ![c] = Call("update", "sent", drawing, drag, p)] /\ Free(c)
  BY DEF PointerMove
<1>2. (\A o \in Calls : calls[o].kind \notin Lists) /\ \A o \in Open({"update"}) : calls[o].id # drag
  BY DEF PointerMove, StraightStep, Open
<1>3. SendsEdit(c, "update", drag, p)
  <2>1. /\ calls[c].kind = "none"
        /\ calls'[c].kind = "update" /\ calls'[c].phase = "sent" /\ calls'[c].drawing = drawing
        /\ calls'[c].id = drag /\ calls'[c].place = p
        /\ \A o \in Calls : o # c => calls'[o] = calls[o]
    BY <1>1, FreeSlot DEF StraightStep
  <2> QED BY <1>2, <2>1 DEF SendsEdit, PointerMove, Editing, Edits, Saved
<1>4. /\ bends' \in Seq(Bend) /\ DOMAIN bends' = DOMAIN bends
      /\ \A i \in DOMAIN bends :
            /\ bends'[i].id = bends[i].id /\ bends'[i].drawing = bends[i].drawing
            /\ bends'[i].place = IF bends[i].id = drag THEN p ELSE bends[i].place
  <2>1. bends \in Seq(Bend)
    BY DEF StraightStep, WizardBase, WizardTypeOK
  <2>2. bends' = [i \in DOMAIN bends |-> IF bends[i].id = drag THEN [bends[i] EXCEPT !.place = p] ELSE bends[i]]
    BY DEF PointerMove
  <2> QED BY <2>1, <2>2, MovedIs
<1>5. Shown' = Shown
  BY <1>4 DEF Shown, Range
<1>6. ASSUME NEW o \in Open({"create"})' PROVE CreateOK(o)'
  <2>1. o # c /\ o \in Open({"create"}) /\ CreateOK(o)
    BY <1>3 DEF SendsEdit, Open, StraightStep, StraightInv, EditInv
  <2> QED BY <1>3, <1>5, <2>1 DEF SendsEdit, Open, CreateOK
<1>7. \A a, o \in Open({"update"})' : calls'[a].id = calls'[o].id => a = o
  BY <1>2, <1>3 DEF SendsEdit, Open, StraightStep, StraightInv, EditInv
<1>8. ASSUME NEW o \in Open({"update"})', NEW b \in Range(bends'), calls'[o].phase = "sent", b.id = calls'[o].id
      PROVE  b.place = calls'[o].place
  <2>1. PICK i \in DOMAIN bends : b = bends'[i]
    BY <1>4 DEF Range
  <2>2. CASE o = c
    BY <1>3, <1>4, <1>8, <2>1, <2>2 DEF SendsEdit
  <2>3. CASE o # c
    <3>1. o \in Open({"update"}) /\ calls'[o] = calls[o]
      BY <1>3, <2>3 DEF SendsEdit, Open
    <3>2. bends[i] \in Range(bends) /\ bends[i].id = calls[o].id /\ bends[i].id # drag
      BY <1>2, <1>4, <1>8, <2>1, <3>1 DEF Range
    <3> QED BY <1>4, <1>8, <2>1, <3>1, <3>2 DEF StraightStep, StraightInv, EditInv
  <2> QED BY <2>2, <2>3
<1>9. \A o \in Open({"delete"})' : calls'[o].id \notin Shown'
  BY <1>3, <1>5 DEF SendsEdit, Open, StraightStep, StraightInv, EditInv
<1>10. EditInv'
  BY <1>6, <1>7, <1>8, <1>9 DEF EditInv
<1>11. ASSUME Steady'
       PROVE  /\ \A i, j \in DOMAIN bends' : bends'[i].id = bends'[j].id => i = j
              /\ \A b \in Range(bends') : ShownOK(b)'
              /\ \A r \in RowOf(drawing)' : r.id \in Shown' \/ HiddenOK(r)'
  <2>1. Steady
    BY <1>3, <1>11, SendsEditKeeps
  <2>2. \A i, j \in DOMAIN bends' : bends'[i].id = bends'[j].id => i = j
    BY <1>4, <2>1 DEF StraightStep, StraightInv, ScreenInv
  <2>3. ASSUME NEW b \in Range(bends') PROVE ShownOK(b)'
    <3>1. PICK i \in DOMAIN bends : b = bends'[i]
      BY <1>4 DEF Range
    <3>2. ShownOK(bends[i])
      BY <2>1 DEF Range, StraightStep, StraightInv, ScreenInv
    <3>3. PICK r \in rows : /\ r.id = b.id /\ r.drawing = drawing /\ b.drawing = drawing
                            /\ \/ r.place = bends[i].place
                               \/ \E o \in Open({"update"}) : calls[o].phase = "sent" /\ calls[o].id = b.id
      BY <1>4, <3>1, <3>2 DEF ShownOK
    <3>4. CASE bends[i].id = drag
      <4>1. c \in Open({"update"})' /\ calls'[c].phase = "sent" /\ calls'[c].id = b.id
        BY <1>3, <1>4, <3>1, <3>4 DEF SendsEdit, Open
      <4> QED BY <1>3, <3>3, <4>1 DEF SendsEdit, ShownOK
    <3>5. CASE bends[i].id # drag
      <4>1. b.place = bends[i].place
        BY <1>4, <3>1, <3>5
      <4>2. \A o \in Open({"update"}) : o \in Open({"update"})' /\ calls'[o] = calls[o]
        BY <1>3 DEF SendsEdit, Open
      <4> QED BY <1>3, <3>3, <4>1, <4>2 DEF SendsEdit, ShownOK
    <3> QED BY <3>4, <3>5
  <2>4. ASSUME NEW r \in RowOf(drawing)' PROVE r.id \in Shown' \/ HiddenOK(r)'
    <3>1. r \in RowOf(drawing)
      BY <1>3 DEF SendsEdit, RowOf
    <3>2. r.id \in Shown \/ HiddenOK(r)
      BY <2>1, <3>1 DEF StraightStep, StraightInv, ScreenInv
    <3>3. HiddenOK(r) => HiddenOK(r)'
      BY <1>3 DEF HiddenOK, SendsEdit
    <3> QED BY <1>5, <3>2, <3>3
  <2> QED BY <2>2, <2>3, <2>4
<1>12. ScreenInv'
  BY <1>11 DEF ScreenInv
<1> QED BY <1>3, <1>10, <1>12, SendsEditKeeps DEF StraightInv

\* A bend is drawn.
LEMMA DrawStraight == StraightStep /\ (\E c \in Calls, p \in Places : Draw(c, p)) => StraightInv'
<1> SUFFICES ASSUME StraightStep, NEW c \in Calls, NEW p \in Places, Draw(c, p) PROVE StraightInv'
  OBVIOUS
<1>1. calls' = [calls EXCEPT ![c] = Call("create", "sent", drawing, None, p)] /\ Free(c)
  BY DEF Draw
<1>2. \A o \in Calls : calls[o].kind \notin Lists
  BY DEF Draw, StraightStep, Open
<1>3. SendsEdit(c, "create", None, p) /\ UNCHANGED <<bends, Shown>>
  <2>1. bends' = bends
    BY DEF Draw
  <2>2. /\ calls[c].kind = "none"
        /\ calls'[c].kind = "create" /\ calls'[c].phase = "sent" /\ calls'[c].drawing = drawing
        /\ calls'[c].id = None /\ calls'[c].place = p
        /\ \A o \in Calls : o # c => calls'[o] = calls[o]
    BY <1>1, FreeSlot DEF StraightStep
  <2> QED BY <1>2, <2>1, <2>2 DEF SendsEdit, Draw, Editing, Edits, Shown, Saved
<1>4. /\ Open({"update"})' = Open({"update"}) /\ Open({"delete"})' = Open({"delete"})
      /\ Open({"update", "delete"})' = Open({"update", "delete"})
      /\ \A o \in Open({"update", "delete"}) : calls'[o] = calls[o]
      /\ Open({"create"})' = Open({"create"}) \union {c} /\ c \notin Open({"create"})
      /\ \A o \in Open({"create"}) : calls'[o] = calls[o]
      /\ Open({"update"}) \subseteq Open({"update", "delete"})
      /\ Open({"delete"}) \subseteq Open({"update", "delete"})
  BY <1>3 DEF SendsEdit, Open
<1>5. ASSUME NEW o \in Open({"create"})' PROVE CreateOK(o)'
  <2>1. CASE o = c
    BY <1>3, <2>1 DEF SendsEdit, CreateOK
  <2>2. CASE o # c
    <3>1. o \in Open({"create"}) /\ CreateOK(o)
      BY <1>4, <2>2 DEF StraightStep, StraightInv, EditInv
    <3> QED BY <1>3, <1>4, <3>1 DEF SendsEdit, CreateOK
  <2> QED BY <2>1, <2>2
<1>6. EditInv'
  BY <1>3, <1>4, <1>5 DEF EditInv, StraightStep, StraightInv
<1>7. \A b : ShownOK(b) => ShownOK(b)'
  BY <1>3, <1>4 DEF SendsEdit, ShownOK
<1>8. \A r : HiddenOK(r) => HiddenOK(r)'
  BY <1>3 DEF HiddenOK, SendsEdit
<1>9. RowOf(drawing)' = RowOf(drawing)
  BY <1>3 DEF SendsEdit, RowOf
<1>10. ScreenInv'
  BY <1>3, <1>7, <1>8, <1>9, SendsEditKeeps DEF StraightStep, StraightInv, ScreenInv
<1> QED BY <1>3, <1>6, <1>10, SendsEditKeeps DEF StraightInv

\* A bend is removed.
LEMMA RemoveBendStraight == StraightStep /\ (\E c \in Calls, id \in BendIds : RemoveBend(c, id)) => StraightInv'
<1> SUFFICES ASSUME StraightStep, NEW c \in Calls, NEW id \in BendIds, RemoveBend(c, id) PROVE StraightInv'
  OBVIOUS
<1>1. calls' = [calls EXCEPT ![c] = Call("delete", "sent", drawing, id, None)] /\ Free(c) /\ id \in Shown
  BY DEF RemoveBend
<1>2. \A o \in Calls : calls[o].kind \notin Lists
  BY DEF RemoveBend, StraightStep, Open
<1>3. SendsEdit(c, "delete", id, None)
  <2>1. /\ calls[c].kind = "none"
        /\ calls'[c].kind = "delete" /\ calls'[c].phase = "sent" /\ calls'[c].drawing = drawing
        /\ calls'[c].id = id /\ calls'[c].place = None
        /\ \A o \in Calls : o # c => calls'[o] = calls[o]
    BY <1>1, FreeSlot DEF StraightStep
  <2> QED BY <1>2, <2>1 DEF SendsEdit, RemoveBend, Editing, Edits, Saved
<1>4. /\ \A b : b \in Range(bends') <=> b \in Range(bends) /\ b.id # id
      /\ Distinct(bends) => Distinct(bends')
  <2>1. bends \in Seq(Bend) /\ bends' = Without(bends, id)
    BY DEF StraightStep, WizardBase, WizardTypeOK, RemoveBend
  <2> QED BY <2>1, WithoutIs
<1>5. Shown' = Shown \ {id}
  BY <1>4 DEF Shown
<1>6. /\ Open({"update"})' = Open({"update"}) /\ Open({"create"})' = Open({"create"})
      /\ Open({"delete"})' = Open({"delete"}) \union {c}
      /\ \A o \in Open({"update"}) \union Open({"delete"}) \union Open({"create"}) : calls'[o] = calls[o]
      /\ \A o \in Open({"update", "delete"})' :
            o = c \/ (o \in Open({"update", "delete"}) /\ calls'[o] = calls[o])
  BY <1>3 DEF SendsEdit, Open
<1>7. ASSUME NEW o \in Open({"create"})' PROVE CreateOK(o)'
  <2>1. o \in Open({"create"}) /\ CreateOK(o)
    BY <1>6 DEF StraightStep, StraightInv, EditInv
  <2> QED BY <1>1, <1>3, <1>5, <1>6, <2>1 DEF SendsEdit, CreateOK
<1>8. EditInv'
  BY <1>3, <1>4, <1>5, <1>6, <1>7 DEF EditInv, StraightStep, StraightInv, SendsEdit
<1>9. \A b : ShownOK(b) => ShownOK(b)'
  BY <1>3, <1>6 DEF SendsEdit, ShownOK
<1>10. \A r : HiddenOK(r) => HiddenOK(r)'
  BY <1>3 DEF HiddenOK, SendsEdit
<1>11. \A r : r.id = id => HiddenOK(r)'
  BY <1>3 DEF HiddenOK, SendsEdit
<1>12. RowOf(drawing)' = RowOf(drawing)
  BY <1>3 DEF SendsEdit, RowOf
<1>13. ASSUME Steady'
       PROVE  /\ \A i, j \in DOMAIN bends' : bends'[i].id = bends'[j].id => i = j
              /\ \A b \in Range(bends') : ShownOK(b)'
              /\ \A r \in RowOf(drawing)' : r.id \in Shown' \/ HiddenOK(r)'
  <2>1. Steady
    BY <1>3, <1>13, SendsEditKeeps
  <2>2. Distinct(bends')
    BY <1>4, <2>1 DEF Distinct, StraightStep, StraightInv, ScreenInv
  <2> QED BY <1>4, <1>5, <1>9, <1>10, <1>11, <1>12, <2>1, <2>2
         DEF Distinct, StraightStep, StraightInv, ScreenInv
<1>14. ScreenInv'
  BY <1>13 DEF ScreenInv
<1> QED BY <1>3, <1>8, <1>14, SendsEditKeeps DEF StraightInv

-----------------------------------------------------------------------------
(* Answers and drawings *)

\* The list of bends with the one that was made.
LEMMA ListedNext ==
    ASSUME bends \in Seq(Bend), NEW r \in Bend, bends' = bends \o <<r>>
    PROVE  /\ DOMAIN bends' = DOMAIN bends \union {Len(bends) + 1} /\ Len(bends) + 1 \notin DOMAIN bends
           /\ bends'[Len(bends) + 1] = r
           /\ \A i \in DOMAIN bends : bends'[i] = bends[i]
           /\ \A b : b \in Range(bends') <=> b \in Range(bends) \/ b = r
<1>1. /\ DOMAIN bends' = DOMAIN bends \union {Len(bends) + 1} /\ Len(bends) + 1 \notin DOMAIN bends
      /\ bends'[Len(bends) + 1] = r
      /\ \A i \in DOMAIN bends : bends'[i] = bends[i]
  OBVIOUS
<1> QED BY <1>1 DEF Range

\* A bend that was made is listed.
LEMMA CreatedStraight == StraightStep /\ (\E c \in Calls : Created(c)) => StraightInv'
<1> SUFFICES ASSUME StraightStep, NEW c \in Calls, Created(c) PROVE StraightInv'
  OBVIOUS
<1>0. calls[c].kind = "create" /\ calls[c].phase = "answered" /\ bends' = bends \o calls[c].list
  BY DEF Created
<1>1. /\ calls'[c] = NoCall /\ \A o \in Calls : o # c => calls'[o] = calls[o]
      /\ calls'[c].kind = "none"
  BY NoCallIs, OneCall DEF StraightStep, Created
<1>2. UNCHANGED <<rows, drawing, Saved, step, drag, quote>>
  BY DEF Created, Saved
<1>3. drawing # None /\ CreateOK(c)
  BY <1>0 DEF StraightStep, StraightInv, DraftInv, EditInv, Open
<1>4. PICK r \in rows :
         /\ calls[c].list = <<r>> /\ r.drawing = drawing
         /\ r.id \notin Shown /\ r.id # drag
         /\ \A o \in Open({"update", "delete"}) : calls[o].id # r.id
         /\ \A o \in Open({"create"}) : o # c /\ calls[o].phase = "answered" => calls[o].list # <<r>>
  BY <1>0, <1>3 DEF CreateOK
<1>5. /\ DOMAIN bends' = DOMAIN bends \union {Len(bends) + 1} /\ Len(bends) + 1 \notin DOMAIN bends
      /\ bends'[Len(bends) + 1] = r
      /\ \A i \in DOMAIN bends : bends'[i] = bends[i]
      /\ \A b : b \in Range(bends') <=> b \in Range(bends) \/ b = r
  <2>1. bends \in Seq(Bend) /\ r \in Bend
    BY DEF StraightStep, WizardBase, WizardTypeOK
  <2> QED BY <1>0, <1>4, <2>1, ListedNext
<1>6. Shown' = Shown \union {r.id}
  BY <1>5 DEF Shown
<1>7. /\ Open({"update"})' = Open({"update"}) /\ Open({"delete"})' = Open({"delete"})
      /\ Open({"update", "delete"})' = Open({"update", "delete"})
      /\ \A o \in Open({"update", "delete"}) : calls'[o] = calls[o]
      /\ Open({"create"})' = Open({"create"}) \ {c}
      /\ \A o \in Open({"create"}) \ {c} : calls'[o] = calls[o]
      /\ Open({"update"}) \subseteq Open({"update", "delete"})
      /\ Open({"delete"}) \subseteq Open({"update", "delete"})
      /\ Open(Edits)' = Open(Edits) \ {c} /\ Open(Lists)' = Open(Lists)
      /\ Open({"reload"})' = Open({"reload"}) /\ Open(Restores)' = Open(Restores)
      /\ \A o \in Open(Lists) : calls'[o] = calls[o]
      /\ Open({"reload"}) \subseteq Open(Lists) /\ Open(Restores) \subseteq Open(Lists)
  BY <1>0, <1>1 DEF Open, Edits, Lists, Restores
<1>8. DraftInv'
  BY <1>2, <1>7 DEF StraightStep, StraightInv, DraftInv
<1>9. ListInv'
  BY <1>2, <1>7 DEF StraightStep, StraightInv, ListInv, Exactly, RowOf
<1>10. ASSUME NEW o \in Open({"create"})' PROVE CreateOK(o)'
  <2>1. o \in Open({"create"}) /\ o # c /\ calls'[o] = calls[o] /\ CreateOK(o)
    BY <1>7 DEF StraightStep, StraightInv, EditInv
  <2>2. ASSUME calls[o].phase = "answered"
        PROVE  \E s \in rows :
                 /\ calls[o].list = <<s>> /\ s.drawing = drawing
                 /\ s.id \notin Shown' /\ s.id # drag
                 /\ \A a \in Open({"update", "delete"}) : calls[a].id # s.id
                 /\ \A a \in Open({"create"}) : a # o /\ calls[a].phase = "answered" => calls[a].list # <<s>>
    <3>1. PICK s \in rows :
             /\ calls[o].list = <<s>> /\ s.drawing = drawing
             /\ s.id \notin Shown /\ s.id # drag
             /\ \A a \in Open({"update", "delete"}) : calls[a].id # s.id
             /\ \A a \in Open({"create"}) : a # o /\ calls[a].phase = "answered" => calls[a].list # <<s>>
      BY <2>1, <2>2 DEF CreateOK
    <3>2. s # r
      BY <1>4, <2>1, <2>2, <3>1
    <3>3. s.id # r.id
      BY <3>2 DEF StraightStep, WizardBase, RowsHaveIds
    <3> QED BY <1>6, <3>1, <3>3
  <2> QED BY <1>2, <1>7, <2>1, <2>2 DEF CreateOK
<1>11. ASSUME NEW o \in Open({"update"})', NEW b \in Range(bends'),
              calls'[o].phase = "sent", b.id = calls'[o].id
       PROVE  b.place = calls'[o].place
  <2>1. o \in Open({"update"}) /\ calls'[o] = calls[o] /\ calls[o].id # r.id
    BY <1>4, <1>7
  <2>2. b \in Range(bends)
    BY <1>5, <1>11, <2>1
  <2> QED BY <1>11, <2>1, <2>2 DEF StraightStep, StraightInv, EditInv
<1>12. \A o \in Open({"delete"})' : calls'[o].id \notin Shown'
  BY <1>4, <1>6, <1>7 DEF StraightStep, StraightInv, EditInv
<1>13. \A a, o \in Open({"update"})' : calls'[a].id = calls'[o].id => a = o
  BY <1>7 DEF StraightStep, StraightInv, EditInv
<1>14. EditInv'
  BY <1>10, <1>11, <1>12, <1>13 DEF EditInv
<1>15. Steady' => Steady
  BY <1>0, <1>1, <1>2, <1>7 DEF Steady, Bare, Open
<1>16. ShownOK(r)' /\ \A b : ShownOK(b) => ShownOK(b)'
  BY <1>2, <1>4, <1>7 DEF ShownOK
<1>17. \A s : HiddenOK(s) => s = r \/ HiddenOK(s)'
  BY <1>0, <1>1, <1>4 DEF HiddenOK
<1>18. RowOf(drawing)' = RowOf(drawing)
  BY <1>2 DEF RowOf
<1>19. ASSUME Steady' PROVE \A i, j \in DOMAIN bends' : bends'[i].id = bends'[j].id => i = j
  <2>1. \A i, j \in DOMAIN bends : bends[i].id = bends[j].id => i = j
    BY <1>15, <1>19 DEF StraightStep, StraightInv, ScreenInv
  <2>2. \A i \in DOMAIN bends : bends[i].id # r.id
    BY <1>4 DEF Shown, Range
  <2> QED BY <1>5, <2>1, <2>2
<1>20. ScreenInv'
  BY <1>5, <1>6, <1>15, <1>16, <1>17, <1>18, <1>19 DEF StraightStep, StraightInv, ScreenInv
<1>21. QuoteInv'
  BY <1>0, <1>1, <1>2, QuoteKept DEF StraightStep, StraightInv
<1> QED BY <1>8, <1>9, <1>14, <1>20, <1>21 DEF StraightInv

\* A write is confirmed.
LEMMA WrittenStraight == StraightStep /\ (\E c \in Calls : Written(c)) => StraightInv'
<1> SUFFICES ASSUME StraightStep, NEW c \in Calls, Written(c) PROVE StraightInv'
  OBVIOUS
<1>0. calls[c].kind \in {"update", "delete"} /\ calls[c].phase = "answered"
  BY DEF Written
<1>1. calls'[c].kind = "none" /\ \A o \in Calls : o # c => calls'[o] = calls[o]
  BY NoCallIs, OneCall DEF StraightStep, Written
<1>2. UNCHANGED <<rows, drawing, bends, Saved, step, drag, quote, Shown>>
  BY DEF Written, Shown, Saved
<1>3. /\ Open({"update"})' = Open({"update"}) \ {c} /\ Open({"delete"})' = Open({"delete"}) \ {c}
      /\ Open({"update", "delete"})' = Open({"update", "delete"}) \ {c}
      /\ \A o \in Open({"update", "delete"}) \ {c} : calls'[o] = calls[o]
      /\ Open({"create"})' = Open({"create"})
      /\ \A o \in Open({"create"}) : calls'[o] = calls[o]
      /\ Open({"update"}) \subseteq Open({"update", "delete"})
      /\ Open({"delete"}) \subseteq Open({"update", "delete"})
      /\ Open(Edits)' = Open(Edits) \ {c} /\ Open(Lists)' = Open(Lists)
      /\ Open({"reload"})' = Open({"reload"}) /\ Open(Restores)' = Open(Restores)
      /\ \A o \in Open(Lists) : calls'[o] = calls[o]
      /\ Open({"reload"}) \subseteq Open(Lists) /\ Open(Restores) \subseteq Open(Lists)
  BY <1>0, <1>1 DEF Open, Edits, Lists, Restores
<1>4. DraftInv'
  BY <1>2, <1>3 DEF StraightStep, StraightInv, DraftInv
<1>5. ListInv'
  BY <1>2, <1>3 DEF StraightStep, StraightInv, ListInv, Exactly, RowOf
<1>6. \A o \in Open({"create"})' : CreateOK(o)'
  BY <1>2, <1>3 DEF StraightStep, StraightInv, EditInv, CreateOK
<1>7. EditInv'
  BY <1>2, <1>3, <1>6 DEF StraightStep, StraightInv, EditInv
<1>8. Steady' => Steady
  BY <1>0, <1>1, <1>2, <1>3 DEF Steady, Bare, Open
<1>9. \A b : ShownOK(b) => ShownOK(b)'
  BY <1>0, <1>2, <1>3 DEF ShownOK
<1>10. \A r : HiddenOK(r) => HiddenOK(r)'
  BY <1>0, <1>1 DEF HiddenOK
<1>11. ScreenInv'
  BY <1>2, <1>8, <1>9, <1>10 DEF StraightStep, StraightInv, ScreenInv, RowOf
<1>12. QuoteInv'
  BY <1>0, <1>1, <1>2, QuoteKept DEF StraightStep, StraightInv
<1> QED BY <1>4, <1>5, <1>7, <1>11, <1>12 DEF StraightInv

\* A list that is exactly the server's is put on the screen, with its drawing.
LEMMA ExactScreen ==
    ASSUME WizardBase', Exactly(bends, drawing)'
    PROVE  ScreenInv'
<1>1. Range(bends') = RowOf(drawing)' /\ IsInjective(bends')
  BY DEF Exactly
<1>2. \A b \in Range(bends') : b \in rows' /\ b.drawing = drawing'
  BY <1>1 DEF RowOf
<1>3. \A i, j \in DOMAIN bends' : bends'[i].id = bends'[j].id => i = j
  <2>1. \A i, j \in DOMAIN bends' : bends'[i] = bends'[j] => i = j
    BY <1>1 DEF IsInjective
  <2>2. \A i \in DOMAIN bends' : bends'[i] \in rows'
    BY <1>2 DEF Range
  <2> QED BY <2>1, <2>2 DEF WizardBase, RowsHaveIds
<1>4. \A b \in Range(bends') : ShownOK(b)'
  BY <1>2 DEF ShownOK
<1>5. \A r \in RowOf(drawing)' : r.id \in Shown'
  BY <1>1 DEF Shown
<1> QED BY <1>3, <1>4, <1>5 DEF ScreenInv

\* A write has failed, and nothing else is under way.
LEMMA WriteFailsStraight == StraightStep /\ (\E c \in Calls : WriteFails(c)) => StraightInv'
<1> SUFFICES ASSUME StraightStep, NEW c \in Calls, WriteFails(c) PROVE StraightInv'
  OBVIOUS
<1>0. calls[c].kind \in Edits /\ \A o \in Calls : o # c => calls[o].kind \notin Edits \union Lists
  BY DEF StraightStep, WriteFails, Open
<1>1. UNCHANGED <<rows, drawing, bends, Saved, step, drag, quote>>
  BY DEF WriteFails, Saved
<1>2. /\ \A o \in Calls : o # c => calls'[o] = calls[o]
      /\ drawing = None => calls'[c].kind = "none"
      /\ drawing # None => calls'[c].kind = "reload" /\ calls'[c].phase = "sent" /\ calls'[c].drawing = drawing
  <2>1. CASE drawing = None
    BY <2>1, NoCallIs, OneCall DEF StraightStep, WriteFails
  <2>2. CASE drawing # None
    <3> DEFINE new == Call("reload", "sent", drawing, None, None)
    <3>1. new.kind = "reload" /\ new.phase = "sent" /\ new.drawing = drawing
      BY DEF Call
    <3>2. calls' = [calls EXCEPT ![c] = new]
      BY <2>2 DEF WriteFails
    <3> HIDE DEF new
    <3> QED BY <2>2, <3>1, <3>2, OneCall DEF StraightStep
  <2> QED BY <2>1, <2>2
<1>3. (\A o \in Calls : calls'[o].kind \notin Edits) /\ \A o \in Calls : calls'[o].kind \in Lists => o = c
  BY <1>0, <1>2 DEF Edits, Lists
<1>4. DraftInv'
  BY <1>1, <1>3 DEF StraightStep, StraightInv, DraftInv, Open, Edits
<1>5. ListInv'
  BY <1>1, <1>2, <1>3 DEF ListInv, Open, Restores, Lists
<1>6. EditInv'
  BY <1>3 DEF EditInv, Open, Edits
<1>7. ScreenInv'
  BY <1>1, <1>2 DEF ScreenInv, Steady, Open
<1>8. QuoteInv'
  BY <1>0, <1>1, <1>2, QuoteKept DEF StraightStep, StraightInv, Edits
<1> QED BY <1>4, <1>5, <1>6, <1>7, <1>8 DEF StraightInv

\* The list has been read, after a failed write or to restore the draft.
LEMMA ReadStraight == StraightStep /\ (\E c \in Calls : Reloaded(c) \/ Restored(c)) => StraightInv'
<1> SUFFICES ASSUME StraightStep, NEW c \in Calls, Reloaded(c) \/ Restored(c) PROVE StraightInv'
  OBVIOUS
<1>0. /\ calls[c].kind \in Lists /\ calls[c].phase = "answered"
      /\ UNCHANGED <<rows, Saved, step, drag, quote>> /\ bends' = calls[c].list
      /\ calls' = [calls EXCEPT ![c] = NoCall]
  BY DEF Reloaded, Restored, Restores, Lists, Saved
<1>1. calls'[c].kind = "none" /\ \A o \in Calls : o # c => calls'[o] = calls[o]
  BY <1>0, NoCallIs, OneCall DEF StraightStep
<1>2. Exactly(calls[c].list, calls[c].drawing) /\ \A o \in Calls : calls[o].kind \notin Edits
  BY <1>0 DEF StraightStep, StraightInv, ListInv, Open
<1>3. drawing' = calls[c].drawing /\ drawing' = Saved' /\ drawing' # None
  <2>1. CASE Reloaded(c)
    BY <1>0, <2>1 DEF Reloaded, StraightStep, StraightInv, ListInv, DraftInv, Open
  <2>2. CASE Restored(c)
    BY <1>0, <2>2 DEF Restored, StraightStep, StraightInv, ListInv, Open
  <2> QED BY <2>1, <2>2
<1>4. \A o \in Calls : calls'[o].kind # "reload"
  BY <1>0, <1>1 DEF StraightStep, StraightInv, ListInv, Open, Lists
<1>5. \A o \in Calls : calls'[o].kind \notin Edits
  BY <1>1, <1>2 DEF Edits
<1>6. DraftInv'
  BY <1>3 DEF DraftInv
<1>7. ListInv'
  <2>1. /\ \A o \in Open(Lists)' : o \in Open(Lists) /\ calls'[o] = calls[o]
        /\ \A o \in Open(Restores)' : o \in Open(Restores) /\ calls'[o] = calls[o]
        /\ Open({"reload"})' = {} /\ Open(Edits)' = {}
    BY <1>1, <1>4, <1>5 DEF Open, Lists, Restores
  <2>2. \A list, d : Exactly(list, d)' <=> Exactly(list, d)
    BY <1>0 DEF Exactly, RowOf
  <2> QED BY <1>0, <2>1, <2>2 DEF StraightStep, StraightInv, ListInv
<1>8. EditInv'
  BY <1>5 DEF EditInv, Open, Edits
<1>9. ScreenInv'
  <2>1. Exactly(bends, drawing)'
    BY <1>0, <1>2, <1>3 DEF Exactly, RowOf
  <2> QED BY <2>1, ExactScreen DEF StraightStep
<1>10. QuoteInv'
  BY <1>0, <1>1, <1>3, QuoteKept DEF StraightStep, StraightInv, Lists
<1> QED BY <1>6, <1>7, <1>8, <1>9, <1>10 DEF StraightInv

\* A restore has failed, and there was no other.
LEMMA RestoreFailsStraight == StraightStep /\ (\E c \in Calls : RestoreFails(c)) => StraightInv'
<1> SUFFICES ASSUME StraightStep, NEW c \in Calls, RestoreFails(c) PROVE StraightInv'
  OBVIOUS
<1>0. /\ calls[c].kind \in Restores /\ calls' = [calls EXCEPT ![c] = NoCall]
      /\ drawing' = None /\ drawing = None /\ Saved' = None /\ bends' = bends
      /\ \A o \in Calls : o # c => calls[o].kind \notin Lists
  BY DEF RestoreFails, StraightStep, Open, Saved, Persist, WizardBase, WizardTypeOK
<1>1. calls'[c].kind = "none" /\ \A o \in Calls : o # c => calls'[o] = calls[o]
  BY <1>0, NoCallIs, OneCall DEF StraightStep
<1>2. (\A o \in Calls : calls'[o].kind \notin Lists) /\ \A o \in Calls : calls'[o].kind # "create"
  BY <1>0, <1>1 DEF Lists, StraightStep, StraightInv, DraftInv, Open
<1>3. DraftInv'
  BY <1>0, <1>2 DEF DraftInv, Open
<1>4. ListInv'
  BY <1>2 DEF ListInv, Open, Lists, Restores
<1>5. /\ Open({"update"})' = Open({"update"}) /\ Open({"delete"})' = Open({"delete"})
      /\ \A o \in Open({"update"}) \union Open({"delete"}) : calls'[o] = calls[o]
      /\ Open({"create"})' = {} /\ Shown' = Shown
  BY <1>0, <1>1, <1>2 DEF Open, Restores, Lists, Shown
<1>6. EditInv'
  BY <1>0, <1>5 DEF StraightStep, StraightInv, EditInv
<1>7. ScreenInv'
  BY <1>0 DEF ScreenInv, Steady
<1>8. QuoteInv'
  <2>1. \A o \in Calls : calls'[o].kind # "quote"
    BY <1>0, <1>1 DEF StraightStep, StraightInv, QuoteInv, Open
  <2>2. CASE calls[c].kind = "restore"
    <3>1. quote'.state = "away"
      BY ZenonT(60), <2>2, QuoteIs DEF RestoreFails, ToUpload
    <3> QED BY <2>1, <3>1, QuoteGone
  <2>3. CASE calls[c].kind # "restore"
    BY <1>0, <2>1, <2>3, QuoteKept DEF RestoreFails, StraightStep, StraightInv, Restores, Lists
  <2> QED BY <2>2, <2>3
<1> QED BY <1>3, <1>4, <1>6, <1>7, <1>8 DEF StraightInv

\* A drawing is put on the screen that has no bends yet, or none.
LEMMA BlankScreen ==
    ASSUME StraightStep, UNCHANGED rows, Saved' = drawing', bends' = <<>>,
           drawing' = None \/ \A r \in rows : r.drawing # drawing',
           \A o \in Calls : calls[o].kind \notin {"create"} \union Lists,
           \A o \in Calls : calls'[o] = calls[o] \/ calls'[o].kind = "none"
    PROVE  DraftInv' /\ ListInv' /\ EditInv' /\ ScreenInv'
<1>1. \A o \in Calls : calls'[o].kind \notin {"create"} \union Lists
  BY DEF Lists
<1>2. DraftInv'
  BY <1>1 DEF DraftInv, Open
<1>3. ListInv'
  BY <1>1 DEF ListInv, Open, Restores, Lists
<1>4. Shown' = {} /\ Range(bends') = {}
  BY DEF Shown, Range
<1>5. \A o \in Open({"update"})' : o \in Open({"update"}) /\ calls'[o] = calls[o]
  BY DEF Open
<1>6. EditInv'
  BY <1>1, <1>4, <1>5 DEF EditInv, Open, StraightStep, StraightInv
<1>7. drawing' # None => RowOf(drawing)' = {}
  BY DEF RowOf
<1>8. ScreenInv'
  BY <1>4, <1>7 DEF ScreenInv, Steady
<1> QED BY <1>2, <1>3, <1>6, <1>8

\* An uploaded drawing is adopted.
LEMMA SetDrawingStraight == StraightStep /\ (\E c \in Calls : SetDrawing(c)) => StraightInv'
<1> SUFFICES ASSUME StraightStep, NEW c \in Calls, SetDrawing(c) PROVE StraightInv'
  OBVIOUS
<1>0. /\ calls[c].kind = "upload" /\ calls[c].phase = "answered" /\ calls' = [calls EXCEPT ![c] = NoCall]
      /\ drawing' = calls[c].drawing /\ Saved' = calls[c].drawing /\ bends' = <<>>
      /\ UNCHANGED <<rows, step, quote>>
      /\ \A o \in Calls : calls[o].kind \notin {"create"} \union Lists
  BY DEF SetDrawing, StraightStep, Open, Saved, Persist, WizardBase, WizardTypeOK
<1>1. calls'[c].kind = "none" /\ \A o \in Calls : o # c => calls'[o] = calls[o]
  BY <1>0, NoCallIs, OneCall DEF StraightStep
<1>2. calls[c].drawing # None /\ \A r \in rows : r.drawing # calls[c].drawing
  BY <1>0 DEF StraightStep, WizardBase, CallOK, NewDrawing
<1>3. DraftInv' /\ ListInv' /\ EditInv' /\ ScreenInv'
  BY <1>0, <1>1, <1>2, BlankScreen
<1>4. QuoteInv'
  BY <1>0, <1>1, <1>2, QuoteKept DEF StraightStep, StraightInv
<1> QED BY <1>3, <1>4 DEF StraightInv

\* The drawing is taken off the screen.
LEMMA ReplaceStraight == StraightStep /\ Replace => StraightInv'
<1> SUFFICES ASSUME StraightStep, Replace PROVE StraightInv'
  OBVIOUS
<1>1. /\ drawing' = None /\ Saved' = None /\ bends' = <<>> /\ step = "upload"
      /\ UNCHANGED <<rows, step, quote, calls>>
      /\ \A o \in Calls : calls[o].kind \notin {"create"} \union Lists
  BY DEF Replace, StraightStep, Open, Saved, Persist, WizardBase, WizardTypeOK
<1>2. DraftInv' /\ ListInv' /\ EditInv' /\ ScreenInv'
  BY <1>1, BlankScreen
<1>3. QuoteInv'
  BY <1>1, QuoteKept DEF StraightStep, StraightInv
<1> QED BY <1>2, <1>3 DEF StraightInv

\* Whoever waits for the reference data goes on.
LEMMA ResumeStraight == StraightStep /\ (\E c \in Calls : Resume(c)) => StraightInv'
<1> SUFFICES ASSUME StraightStep, NEW c \in Calls, Resume(c) PROVE StraightInv'
  OBVIOUS
<1>0. /\ calls[c].kind \in Restores /\ calls[c].phase = "waiting" /\ calls[c] \in CallRecords
      /\ UNCHANGED <<rows, drawing, bends, Saved>> /\ drag' \in {drag, None}
  BY DEF Resume, ToUpload, StraightStep, WizardBase, WizardTypeOK, Saved
<1>1. /\ \A o \in Calls : o # c => calls'[o] = calls[o]
      /\ \/ calls'[c].kind = "none"
         \/ /\ drawing = None /\ Saved # None
            /\ calls'[c].kind = calls[c].kind /\ calls'[c].phase = "sent" /\ calls'[c].drawing = Saved
  <2>1. CASE drawing # None \/ Saved = None
    <3>1. calls' = [calls EXCEPT ![c] = NoCall]
      BY <2>1 DEF Resume
    <3> QED BY <3>1, NoCallIs, OneCall DEF StraightStep
  <2>2. CASE ~(drawing # None \/ Saved = None)
    <3> DEFINE new == [calls[c] EXCEPT !.phase = "sent", !.drawing = Saved]
    <3>1. calls' = [calls EXCEPT ![c] = new]
      BY <2>2 DEF Resume
    <3>2. new.kind = calls[c].kind /\ new.phase = "sent" /\ new.drawing = Saved
      BY <1>0 DEF CallRecords
    <3> HIDE DEF new
    <3> QED BY <2>2, <3>1, <3>2, OneCall DEF StraightStep
  <2> QED BY <2>1, <2>2
<1>2. calls[c].kind \in Lists /\ calls[c].kind # "reload" /\ calls[c].kind \notin Edits \union {"none", "quote"}
  BY <1>0 DEF Restores, Lists, Edits
<1>3. \A o \in Calls : calls[o].kind # "reload" /\ calls'[o].kind # "reload"
  BY <1>1, <1>2 DEF StraightStep, StraightInv, ListInv, Open
<1>4. EditsStay
  BY <1>0, <1>1, <1>2 DEF EditsStay, Edits
<1>5. Steady' => Steady
  BY <1>0, <1>1, <1>2, <1>3 DEF Steady, Bare, Open, Edits
<1>6. DraftInv' /\ EditInv' /\ ScreenInv'
  BY <1>4, <1>5, EditsStayKeeps DEF StraightStep, StraightInv
<1>7. ListInv'
  <2>1. /\ Open(Edits)' = Open(Edits) /\ Open({"reload"})' = {}
        /\ \A o \in Open(Lists)' : o \in Open(Lists) /\ (o = c \/ calls'[o] = calls[o])
        /\ \A o \in Open(Restores)' : o \in Open(Restores) /\ (o = c \/ calls'[o] = calls[o])
        /\ c \in Open(Lists)' =>
              calls'[c].phase = "sent" /\ calls'[c].drawing = Saved /\ Saved # None /\ drawing = None
    BY <1>1, <1>2, <1>3 DEF Open, Edits, Lists, Restores
  <2>2. Saved # None /\ drawing = None => Open(Edits) = {}
    BY DEF StraightStep, StraightInv, DraftInv
  <2>3. \A o \in Open(Restores)' : o \in Open(Lists)'
    BY DEF Open, Restores
  <2>4. \A list, d : Exactly(list, d)' <=> Exactly(list, d)
    BY <1>0 DEF Exactly, RowOf
  <2> QED BY <1>0, <2>1, <2>2, <2>3, <2>4 DEF StraightStep, StraightInv, ListInv
<1>8. QuoteInv'
  <2>1. \A o \in Calls : calls'[o].kind = "quote" => calls[o].kind = "quote"
    BY <1>1, <1>2
  <2>2. CASE UNCHANGED <<step, quote>>
    BY <1>0, <1>2, <2>1, <2>2, QuoteKept DEF StraightStep, StraightInv
  <2>3. CASE ~UNCHANGED <<step, quote>>
    <3>1. drawing = None /\ quote'.state = "away"
      BY ZenonT(60), <2>3, QuoteIs DEF Resume, ToUpload
    <3>2. \A o \in Calls : calls'[o].kind # "quote"
      BY <2>1, <3>1 DEF StraightStep, StraightInv, QuoteInv, Open
    <3> QED BY <3>1, <3>2, QuoteGone
  <2> QED BY <2>2, <2>3
<1> QED BY <1>6, <1>7, <1>8 DEF StraightInv

\* A step is left.
LEMMA GoToStraight == StraightStep /\ (\E c \in Calls, s \in Steps : GoTo(c, s)) => StraightInv'
<1> SUFFICES ASSUME StraightStep, NEW c \in Calls, NEW s \in Steps, GoTo(c, s) PROVE StraightInv'
  OBVIOUS
<1>0. UNCHANGED <<rows, drawing, bends, Saved>> /\ drag' = None /\ quote'.state = "away"
  BY QuoteIs DEF GoTo, Leaving, Saved
<1>1. \A o \in Calls : Abandoned[o] = IF calls[o].kind = "quote" THEN NoCall ELSE calls[o]
  BY DEF Abandoned
<1>2. CASE calls' = Abandoned
  <2>1. Quiet
    BY <1>0, <1>1, <1>2, NoCallIs DEF Quiet
  <2>2. QuoteInv'
    BY <1>0, <1>1, <1>2, NoCallIs, QuoteGone
  <2> QED BY <2>1, <2>2, QuietKeeps DEF StraightStep, StraightInv
<1>3. CASE calls' # Abandoned
  <2> DEFINE new == Call("stepRestore", "waiting", None, None, None)
  <2>1. new.kind = "stepRestore" /\ new.phase = "waiting"
    BY DEF Call
  <2>2. drawing = None /\ calls[c] = NoCall /\ calls' = [Abandoned EXCEPT ![c] = new]
    BY <1>3 DEF GoTo, Free
  <2>3. DOMAIN Abandoned = Calls
    BY DEF Abandoned
  <2> HIDE DEF new
  <2>4. /\ calls'[c].kind = "stepRestore" /\ calls'[c].phase = "waiting" /\ calls[c].kind = "none"
        /\ \A o \in Calls : o # c =>
              \/ calls[o].kind = "quote" /\ calls'[o].kind = "none"
              \/ calls[o].kind # "quote" /\ calls'[o] = calls[o]
    BY <1>1, <2>1, <2>2, <2>3, NoCallIs
  <2>5. \A o \in Calls : calls'[o].kind # "quote"
    BY <2>4
  <2>6. QuoteInv'
    BY <1>0, <2>5, QuoteGone
  <2>7. EditsStay
    BY <1>0, <2>4 DEF EditsStay, Edits
  <2>8. Steady' => Steady
    BY <1>0, <2>2 DEF Steady
  <2>9. \A o \in Calls : calls[o].kind # "reload" /\ calls'[o].kind # "reload"
    BY <2>2, <2>4 DEF StraightStep, StraightInv, ListInv, Open
  <2>10. ListInv'
    <3>1. /\ Open(Edits)' = Open(Edits) /\ Open({"reload"})' = {}
          /\ \A o \in Open(Lists)' : o = c \/ (o \in Open(Lists) /\ calls'[o] = calls[o])
          /\ \A o \in Open(Restores)' : o = c \/ (o \in Open(Restores) /\ calls'[o] = calls[o])
      BY <2>4, <2>9 DEF Open, Edits, Lists, Restores
    <3>2. \A list, d : Exactly(list, d)' <=> Exactly(list, d)
      BY <1>0 DEF Exactly, RowOf
    <3> QED BY <1>0, <2>4, <3>1, <3>2 DEF StraightStep, StraightInv, ListInv
  <2> QED BY <2>6, <2>7, <2>8, <2>10, EditsStayKeeps DEF StraightStep, StraightInv
<1> QED BY <1>2, <1>3

\* The page is reloaded, and no write is under way.
LEMMA ReloadStraight ==
    StraightStep /\ (\E c, o \in Calls, n \in Spaces, s \in Steps : Reload(c, o, n, s)) => StraightInv'
<1> SUFFICES ASSUME StraightStep, NEW c1 \in Calls, NEW c2 \in Calls, NEW n \in Spaces, NEW s \in Steps,
                    Reload(c1, c2, n, s)
             PROVE  StraightInv'
  OBVIOUS
<1> DEFINE left == {c \in Open(Edits) : calls[c].phase \in {"sent", "abandoned"}}
           waits == Call("restore", "waiting", None, None, None)
           stepWaits == Call("stepRestore", "waiting", None, None, None)
<1>1. left = {}
  BY DEF Reload, StraightStep
<1>2. calls' = [c \in Calls |->
                  CASE c \in left -> [calls[c] EXCEPT !.phase = "abandoned"]
                    [] c = c1 -> waits
                    [] c = c2 /\ s \in {"bends", "material"} -> stepWaits
                    [] OTHER -> NoCall]
  BY DEF Reload
<1>3. /\ waits.kind = "restore" /\ waits.phase = "waiting"
      /\ stepWaits.kind = "stepRestore" /\ stepWaits.phase = "waiting"
  BY DEF Call
<1> HIDE DEF left, waits, stepWaits
<1>4. \A o \in Calls : calls'[o] \in {waits, stepWaits, NoCall}
  BY <1>1, <1>2
<1>5. \A o \in Calls :
         \/ calls'[o].kind = "none"
         \/ calls'[o].kind \in {"restore", "stepRestore"} /\ calls'[o].phase = "waiting"
  BY <1>3, <1>4, NoCallIs
<1>6. drawing' = None /\ quote'.state \in {"unasked", "away"}
  BY QuoteIs DEF Reload
<1>7. \A o \in Calls : calls'[o].kind \notin Edits \union {"reload", "quote"}
  BY <1>5 DEF Edits
<1>8. DraftInv'
  BY <1>6, <1>7 DEF DraftInv, Open, Edits
<1>9. ListInv'
  BY <1>5, <1>7 DEF ListInv, Open, Lists, Restores
<1>10. EditInv'
  BY <1>7 DEF EditInv, Open, Edits
<1>11. ScreenInv'
  BY <1>6 DEF ScreenInv, Steady
<1>12. QuoteInv'
  BY <1>6, <1>7, QuoteGone
<1> QED BY <1>8, <1>9, <1>10, <1>11, <1>12 DEF StraightInv

-----------------------------------------------------------------------------
(* The server *)

\* A call that somebody waits for is answered.
LEMMA HandledOnce ==
    \A c \in Calls : \A list \in Seq(Bend) :
        WizardTypeOK /\ Handled(c, list) /\ calls[c].phase # "abandoned" =>
            \E new : /\ SameCall(new, calls[c]) /\ new.phase = "answered"
                    /\ new.list = list /\ new.drawing = calls[c].drawing
                    /\ calls' = [calls EXCEPT ![c] = new]
<1> SUFFICES ASSUME NEW c \in Calls, NEW list \in Seq(Bend), WizardTypeOK, Handled(c, list),
                    calls[c].phase # "abandoned"
             PROVE  \E new : /\ SameCall(new, calls[c]) /\ new.phase = "answered"
                            /\ new.list = list /\ new.drawing = calls[c].drawing
                            /\ calls' = [calls EXCEPT ![c] = new]
  OBVIOUS
<1>1. \/ calls[c].phase = "abandoned" /\ calls' = [calls EXCEPT ![c] = NoCall]
      \/ \E new : /\ SameCall(new, calls[c]) /\ new.phase = "answered"
                  /\ new.list = list /\ new.drawing = calls[c].drawing
                  /\ calls[c].phase # "abandoned" /\ calls' = [calls EXCEPT ![c] = new]
  BY HandledIs
<1> QED BY <1>1

\* What a write leaves alone when the server handles it or it fails on its way.
LEMMA EditServed ==
    ASSUME StraightStep, NEW c \in Calls, calls[c].kind \in Edits, calls[c].phase \in {"sent", "answered"},
           \A o \in Calls : o # c => calls'[o] = calls[o],
           calls'[c].kind = calls[c].kind,
           UNCHANGED <<drawing, bends, Saved, step, drag, quote>>
    PROVE  DraftInv' /\ ListInv' /\ QuoteInv' /\ (Steady' => Steady)
<1>1. /\ Open({"reload"})' = Open({"reload"}) /\ Open(Restores)' = Open(Restores)
      /\ Open(Edits)' = Open(Edits) /\ Open(Lists)' = Open(Lists) /\ Open({"create"})' = Open({"create"})
      /\ \A o \in Open(Lists) : calls'[o] = calls[o]
      /\ Open({"reload"}) \subseteq Open(Lists) /\ Open(Restores) \subseteq Open(Lists)
      /\ Open(Edits) # {}
  BY DEF Open, Edits, Lists, Restores
<1>2. DraftInv'
  BY <1>1 DEF StraightStep, StraightInv, DraftInv
<1>3. \A o \in Open(Lists) : calls[o].phase = "waiting"
  BY <1>1 DEF StraightStep, StraightInv, ListInv
<1>4. ListInv'
  BY <1>1, <1>3 DEF StraightStep, StraightInv, ListInv
<1>5. QuoteInv'
  BY QuoteKept DEF StraightStep, StraightInv, Edits
<1>6. Steady' => Steady
  BY <1>1 DEF Steady, Bare, Open
<1> QED BY <1>2, <1>4, <1>5, <1>6

\* A bend is made.
LEMMA ServeCreateStraight ==
    StraightStep /\ (\E c \in Calls, id \in BendIds : ServeCreate(c, id)) => StraightInv'
<1> SUFFICES ASSUME StraightStep, NEW c \in Calls, NEW id \in BendIds, ServeCreate(c, id) PROVE StraightInv'
  OBVIOUS
<1>0. /\ calls[c].kind = "create" /\ calls[c].phase = "sent" /\ calls[c] \in CallRecords
      /\ calls[c].drawing \in Drawings /\ calls[c].place \in Places
  BY DEF ServeCreate, Pending, StraightStep, WizardBase, WizardTypeOK, CallOK, Edits
<1>1. PICK r \in Bend : r = [id |-> id, drawing |-> calls[c].drawing, place |-> calls[c].place]
  BY <1>0 DEF Bend
<1>2. /\ rows' = rows \union {r} /\ Handled(c, <<r>>)
      /\ OfId(id) = {} /\ id \notin Shown /\ id # drag /\ \A o \in Calls : calls[o].id # id
      /\ UNCHANGED <<drawing, bends, Saved, step, drag, quote>>
      /\ r.id = id /\ r.drawing = calls[c].drawing
  BY <1>1 DEF ServeCreate, Saved
<1>3. /\ calls'[c].kind = "create" /\ calls'[c].phase = "answered" /\ calls'[c].list = <<r>>
      /\ calls'[c].drawing = calls[c].drawing
      /\ \A o \in Calls : o # c => calls'[o] = calls[o]
  <2>1. PICK list \in Seq(Bend) : list = <<r>>
    <3>1. <<r>> \in Seq(Bend)
      OBVIOUS
    <3> QED BY <3>1, Zenon
  <2>2. WizardTypeOK /\ Handled(c, list) /\ calls[c].phase # "abandoned"
    BY <1>0, <1>2, <2>1 DEF StraightStep, WizardBase
  <2>3. PICK new : /\ SameCall(new, calls[c]) /\ new.phase = "answered"
                   /\ new.list = list /\ new.drawing = calls[c].drawing
                   /\ calls' = [calls EXCEPT ![c] = new]
    BY <2>2, HandledOnce
  <2> QED BY <1>0, <2>1, <2>3, OneCall DEF StraightStep, SameCall
<1>4. DraftInv' /\ ListInv' /\ QuoteInv' /\ (Steady' => Steady)
  BY <1>0, <1>2, <1>3, EditServed DEF Edits
<1>5. r \notin rows /\ \A s \in rows : s.id # id
  BY <1>2 DEF OfId
<1>6. calls[c].drawing = drawing
  BY <1>0 DEF StraightStep, StraightInv, EditInv, CreateOK, Open
<1>7. /\ Open({"update"})' = Open({"update"}) /\ Open({"delete"})' = Open({"delete"})
      /\ Open({"update", "delete"})' = Open({"update", "delete"})
      /\ \A o \in Open({"update", "delete"}) : calls'[o] = calls[o] /\ calls[o].id # id
      /\ Open({"create"})' = Open({"create"})
      /\ \A o \in Open({"create"}) \ {c} : calls'[o] = calls[o]
      /\ Open({"update"}) \subseteq Open({"update", "delete"})
      /\ Open({"delete"}) \subseteq Open({"update", "delete"})
      /\ Shown' = Shown
  BY <1>0, <1>2, <1>3 DEF Open, Shown
<1>8. \A o \in Open({"create"}) : o # c /\ calls[o].phase = "answered" => calls[o].list # <<r>>
  <2> SUFFICES ASSUME NEW o \in Open({"create"}), calls[o].phase = "answered", calls[o].list = <<r>> PROVE FALSE
    OBVIOUS
  <2>1. PICK s \in rows : calls[o].list = <<s>>
    BY DEF StraightStep, StraightInv, EditInv, CreateOK
  <2>2. s = r
    BY <2>1
  <2> QED BY <1>5, <2>2
<1>9. CreateOK(c)'
  <2>1. /\ r \in rows' /\ r.drawing = drawing' /\ r.id \notin Shown' /\ r.id # drag'
        /\ \A o \in Open({"update", "delete"})' : calls'[o].id # r.id
        /\ \A o \in Open({"create"})' : o # c /\ calls'[o].phase = "answered" => calls'[o].list # <<r>>
    BY <1>2, <1>6, <1>7, <1>8
  <2> QED BY <1>2, <1>3, <1>6, <2>1 DEF CreateOK
<1>10. ASSUME NEW o \in Open({"create"})', o # c PROVE CreateOK(o)'
  <2>1. o \in Open({"create"}) /\ calls'[o] = calls[o] /\ CreateOK(o)
    BY <1>7, <1>10 DEF StraightStep, StraightInv, EditInv
  <2>2. ASSUME calls[o].phase = "answered"
        PROVE  \E s \in rows' :
                 /\ calls[o].list = <<s>> /\ s.drawing = drawing
                 /\ s.id \notin Shown /\ s.id # drag
                 /\ \A a \in Open({"update", "delete"}) : calls[a].id # s.id
                 /\ \A a \in Open({"create"}) : a # o /\ calls'[a].phase = "answered" => calls'[a].list # <<s>>
    <3>1. PICK s \in rows :
             /\ calls[o].list = <<s>> /\ s.drawing = drawing
             /\ s.id \notin Shown /\ s.id # drag
             /\ \A a \in Open({"update", "delete"}) : calls[a].id # s.id
             /\ \A a \in Open({"create"}) : a # o /\ calls[a].phase = "answered" => calls[a].list # <<s>>
      BY <2>1, <2>2 DEF CreateOK
    <3>2. <<s>> # <<r>>
      <4>1. s # r
        BY <1>5
      <4> QED BY <4>1
    <3> QED BY <1>2, <1>3, <1>7, <3>1, <3>2
  <2> QED BY <1>2, <1>7, <2>1, <2>2 DEF CreateOK
<1>11. EditInv'
  BY <1>2, <1>7, <1>9, <1>10 DEF StraightStep, StraightInv, EditInv
<1>12. \A b : ShownOK(b) => ShownOK(b)'
  BY <1>2, <1>7 DEF ShownOK
<1>13. HiddenOK(r)'
  BY <1>3 DEF HiddenOK
<1>16. \A s : HiddenOK(s) => HiddenOK(s)'
  <2> SUFFICES ASSUME NEW s, HiddenOK(s) PROVE HiddenOK(s)'
    OBVIOUS
  <2>1. PICK o \in Calls :
           \/ calls[o].kind = "delete" /\ calls[o].phase = "sent" /\ calls[o].id = s.id
           \/ calls[o].kind = "create" /\ calls[o].phase = "answered" /\ calls[o].list = <<s>>
    BY DEF HiddenOK
  <2>2. o # c /\ calls'[o] = calls[o]
    BY <1>0, <1>3, <2>1
  <2> QED BY <2>1, <2>2 DEF HiddenOK
<1>14. \A s \in RowOf(drawing)' : s = r \/ s \in RowOf(drawing)
  BY <1>2 DEF RowOf
<1>15. ScreenInv'
  <2> SUFFICES ASSUME Steady'
               PROVE  /\ \A i, j \in DOMAIN bends' : bends'[i].id = bends'[j].id => i = j
                      /\ \A b \in Range(bends') : ShownOK(b)'
                      /\ \A s \in RowOf(drawing)' : s.id \in Shown' \/ HiddenOK(s)'
    BY DEF ScreenInv
  <2>1. /\ \A i, j \in DOMAIN bends : bends[i].id = bends[j].id => i = j
        /\ \A b \in Range(bends) : ShownOK(b)
        /\ \A s \in RowOf(drawing) : s.id \in Shown \/ HiddenOK(s)
    BY <1>4 DEF StraightStep, StraightInv, ScreenInv
  <2>2. \A s \in RowOf(drawing)' : s.id \in Shown' \/ HiddenOK(s)'
    BY <1>7, <1>13, <1>14, <1>16, <2>1
  <2> QED BY <1>2, <1>12, <2>1, <2>2
<1> QED BY <1>4, <1>11, <1>15 DEF StraightInv

\* A bend is moved or removed on the server, or is not there.
LEMMA ServeEditStraight == StraightStep /\ (\E c \in Calls : ServeEdit(c)) => StraightInv'
<1> SUFFICES ASSUME StraightStep, NEW c \in Calls, ServeEdit(c) PROVE StraightInv'
  OBVIOUS
<1>0. /\ calls[c].kind \in {"update", "delete"} /\ calls[c].phase = "sent" /\ calls[c] \in CallRecords
      /\ UNCHANGED <<drawing, bends, Saved, step, drag, quote>>
  BY DEF ServeEdit, Pending, StraightStep, WizardBase, WizardTypeOK, CallOK, Saved
<1>1. /\ calls'[c].kind = calls[c].kind /\ calls'[c].id = calls[c].id
      /\ calls'[c].phase \in {"answered", "failed"}
      /\ calls'[c].place = calls[c].place
      /\ \A o \in Calls : o # c => calls'[o] = calls[o]
  <2>1. PICK new : /\ SameCall(new, calls[c]) /\ new.phase \in {"answered", "failed"}
                   /\ calls' = [calls EXCEPT ![c] = new]
    <3>1. CASE Handled(c, <<>>)
      <4>1. <<>> \in Seq(Bend)
        OBVIOUS
      <4> QED BY ZenonT(60), <1>0, <3>1, <4>1, HandledOnce DEF StraightStep, WizardBase
    <3>2. CASE calls' = [calls EXCEPT ![c].phase = "failed"]
      <4> DEFINE new == [calls[c] EXCEPT !.phase = "failed"]
      <4>1. SameCall(new, calls[c]) /\ new.phase = "failed"
        BY <1>0, FailedIs
      <4>2. calls' = [calls EXCEPT ![c] = new]
        BY <3>2
      <4> HIDE DEF new
      <4> QED BY <4>1, <4>2
    <3> QED BY <3>1, <3>2 DEF ServeEdit
  <2> QED BY <2>1, OneCall DEF StraightStep, SameCall
<1>2. DraftInv' /\ ListInv' /\ QuoteInv' /\ (Steady' => Steady)
  BY <1>0, <1>1, EditServed DEF Edits
<1>3. /\ \A b \in rows' : \E a \in rows : a.id = b.id /\ a.drawing = b.drawing
      /\ \A b : b.id # calls[c].id => (b \in rows' <=> b \in rows)
      /\ calls[c].kind = "delete" => \A b \in rows' : b.id # calls[c].id
      /\ calls[c].kind = "update" =>
            \A a \in rows : a.id = calls[c].id =>
                  \E b \in rows' : b.id = a.id /\ b.drawing = a.drawing /\ b.place = calls[c].place
  BY EditedIs DEF StraightStep
<1>4. /\ Open({"update"})' = Open({"update"}) /\ Open({"delete"})' = Open({"delete"})
      /\ Open({"update", "delete"})' = Open({"update", "delete"})
      /\ \A o \in Open({"update", "delete"}) : calls'[o].id = calls[o].id
      /\ \A o \in Open({"update", "delete"}) \ {c} : calls'[o] = calls[o]
      /\ Open({"create"})' = Open({"create"})
      /\ \A o \in Open({"create"}) : calls'[o] = calls[o]
      /\ Open({"update"}) \subseteq Open({"update", "delete"})
      /\ Open({"delete"}) \subseteq Open({"update", "delete"})
      /\ Shown' = Shown /\ c \in Open({"update", "delete"})
  BY <1>0, <1>1 DEF Open, Shown
<1>5. ASSUME NEW o \in Open({"create"})' PROVE CreateOK(o)'
  <2>1. o \in Open({"create"}) /\ CreateOK(o)
    BY <1>4 DEF StraightStep, StraightInv, EditInv
  <2> QED BY <1>0, <1>3, <1>4, <2>1 DEF CreateOK
<1>6. EditInv'
  BY <1>0, <1>1, <1>4, <1>5 DEF StraightStep, StraightInv, EditInv
<1>7. ASSUME Steady', NEW b \in Range(bends) PROVE ShownOK(b)'
  <2>1. Steady /\ ShownOK(b) /\ b.id \in Shown
    BY <1>2, <1>7 DEF StraightStep, StraightInv, ScreenInv, Shown
  <2>2. PICK r \in rows : /\ b.drawing = drawing /\ r.id = b.id /\ r.drawing = drawing
                          /\ \/ r.place = b.place
                             \/ \E o \in Open({"update"}) : calls[o].phase = "sent" /\ calls[o].id = b.id
    BY <2>1 DEF ShownOK
  <2>3. CASE b.id # calls[c].id
    <3>1. r \in rows'
      BY <1>3, <2>2, <2>3
    <3>2. \A o \in Open({"update"}) : calls[o].id = b.id => calls'[o] = calls[o]
      BY <1>4, <2>3
    <3> QED BY <1>0, <1>4, <2>2, <3>1, <3>2 DEF ShownOK
  <2>4. CASE b.id = calls[c].id
    <3>1. calls[c].kind = "update" /\ c \in Open({"update"})
      BY <1>0, <2>1, <2>4 DEF StraightStep, StraightInv, EditInv, Open
    <3>2. b.place = calls[c].place
      BY <1>0, <2>4, <3>1 DEF StraightStep, StraightInv, EditInv
    <3>3. \E s \in rows' : s.id = b.id /\ s.drawing = drawing /\ s.place = b.place
      BY <1>3, <2>2, <2>4, <3>1, <3>2
    <3> QED BY <1>0, <2>2, <3>3 DEF ShownOK
  <2> QED BY <2>3, <2>4
<1>8. ASSUME Steady', NEW r \in RowOf(drawing)' PROVE r.id \in Shown' \/ HiddenOK(r)'
  <2>1. PICK a \in rows : a.id = r.id /\ a.drawing = drawing
    BY <1>0, <1>3 DEF RowOf
  <2>2. a.id \in Shown \/ HiddenOK(a)
    BY <1>2, <1>8, <2>1 DEF StraightStep, StraightInv, ScreenInv, RowOf
  <2>3. r \in rows'
    BY DEF RowOf
  <2>4. ASSUME NEW o \in Calls, calls[o].kind = "delete", calls[o].phase = "sent", calls[o].id = a.id
        PROVE  HiddenOK(r)'
    <3>1. o # c
      BY <1>3, <2>1, <2>3, <2>4
    <3> QED BY <1>1, <2>1, <2>4, <3>1 DEF HiddenOK
  <2>5. ASSUME NEW o \in Calls, calls[o].kind = "create", calls[o].phase = "answered", calls[o].list = <<a>>
        PROVE  HiddenOK(r)'
    <3>1. o \in Open({"create"})
      BY <2>5 DEF Open
    <3>2. PICK s \in rows : calls[o].list = <<s>> /\ \A u \in Open({"update", "delete"}) : calls[u].id # s.id
      BY <2>5, <3>1 DEF StraightStep, StraightInv, EditInv, CreateOK
    <3>3. s = a
      BY <2>5, <3>2
    <3>4. a.id # calls[c].id
      BY <1>4, <3>2, <3>3
    <3>5. r \in rows
      BY <1>3, <2>1, <2>3, <3>4
    <3>6. r = a
      BY <2>1, <3>5 DEF StraightStep, WizardBase, RowsHaveIds
    <3> QED BY <1>4, <2>5, <3>1, <3>6 DEF HiddenOK
  <2> QED BY <1>4, <2>1, <2>2, <2>4, <2>5 DEF HiddenOK
<1>9. ScreenInv'
  BY <1>0, <1>2, <1>7, <1>8 DEF StraightStep, StraightInv, ScreenInv
<1> QED BY <1>2, <1>6, <1>9 DEF StraightInv

\* A quote's call changes.
LEMMA QuoteCall ==
    ASSUME StraightStep, NEW c \in Calls, calls[c].kind = "quote", calls'[c].kind = "quote",
           calls'[c].drawing = calls[c].drawing,
           calls'[c].phase = "answered" =>
               Exactly(calls'[c].list, calls[c].drawing) /\ calls'[c].list \in Seq(Bend),
           \A o \in Calls : o # c => calls'[o] = calls[o],
           UNCHANGED <<rows, drawing, bends, Saved, step, drag, quote>>
    PROVE  StraightInv'
<1>1. Quiet
  BY DEF Quiet
<1>2. Open({"quote"})' = Open({"quote"}) /\ Open({"quote"}) = {c}
  BY DEF StraightStep, StraightInv, QuoteInv, Open
<1>3. ASSUME ~quote.hurried, calls'[c].phase = "answered" PROVE Len(calls'[c].list) = Len(bends)
  <2>1. /\ drawing # None /\ calls[c].drawing = drawing
        /\ \A o \in Calls : calls[o].kind \in {"none", "quote"}
    BY <1>2, <1>3 DEF StraightStep, StraightInv, QuoteInv
  <2>2. Exactly(bends, drawing)
    BY <2>1, SettledScreen DEF StraightStep, StraightInv, Edits, Lists
  <2>3. calls'[c].list \in Seq(Bend) /\ bends \in Seq(Bend) /\ Exactly(calls'[c].list, drawing)
    BY <1>3, <2>1 DEF StraightStep, WizardBase, WizardTypeOK
  <2> QED BY <2>2, <2>3, SameLength DEF Exactly
<1>4. QuoteInv'
  <2>1. quote.state = "saving" /\ step = "result" /\ drawing # None
    BY <1>2 DEF StraightStep, StraightInv, QuoteInv
  <2>2. ~quote.hurried => /\ \A o \in Calls : calls'[o].kind \in {"none", "quote"}
                          /\ calls'[c].drawing = drawing
    BY <1>2, <2>1 DEF StraightStep, StraightInv, QuoteInv
  <2> QED BY <1>2, <1>3, <2>1, <2>2 DEF QuoteInv
<1> QED BY <1>1, <1>4, QuietKeeps DEF StraightStep, StraightInv

\* A list's call changes.
LEMMA ListCall ==
    ASSUME StraightStep, NEW c \in Calls, calls[c].kind \in Lists, calls[c].phase \in {"sent", "answered"},
           calls'[c].kind = calls[c].kind,
           calls'[c].drawing = calls[c].drawing,
           calls'[c].phase # "waiting",
           calls'[c].phase = "answered" => Exactly(calls'[c].list, calls[c].drawing),
           \A o \in Calls : o # c => calls'[o] = calls[o],
           UNCHANGED <<rows, drawing, bends, Saved, step, drag, quote>>
    PROVE  StraightInv'
<1>1. EditsStay
  BY DEF EditsStay, Lists, Edits
<1>2. /\ Open({"reload"})' = Open({"reload"}) /\ Open(Restores)' = Open(Restores)
      /\ Open(Edits)' = Open(Edits) /\ Open(Lists)' = Open(Lists)
      /\ \A o \in Open(Edits) : calls'[o] = calls[o]
      /\ Open({"reload"}) \subseteq Open(Lists) /\ Open(Restores) \subseteq Open(Lists)
      /\ c \in Open(Lists)
  BY DEF Open, Edits, Lists, Restores
<1>3. Steady' => Steady
  BY <1>2 DEF Steady, Bare
<1>4. Open(Edits) = {}
  BY <1>2 DEF StraightStep, StraightInv, ListInv
<1>6. ASSUME NEW o \in Open(Restores)'
      PROVE  calls'[o].phase \in {"waiting", "failed"} \/ (calls'[o].drawing = Saved' /\ Saved' # None)
  <2>1. \/ calls[o].phase \in {"waiting", "failed"}
        \/ calls[o].drawing = Saved /\ Saved # None
    BY <1>2 DEF StraightStep, StraightInv, ListInv
  <2>2. CASE o = c
    BY <2>1, <2>2
  <2>3. CASE o # c
    BY <2>1, <2>3 DEF Open
  <2> QED BY <2>2, <2>3
<1>7. ASSUME NEW o \in Open({"reload"})'
      PROVE  Open(Lists)' = {o} /\ drawing' # None /\ calls'[o].drawing = drawing'
  BY <1>2 DEF StraightStep, StraightInv, ListInv, Open
<1>8. ASSUME NEW o \in Open(Lists)', calls'[o].phase = "answered"
      PROVE  Exactly(calls[o].list, calls[o].drawing)'
  <2>1. Exactly(calls'[o].list, calls'[o].drawing)
    BY <1>2, <1>8 DEF StraightStep, StraightInv, ListInv, Open
  <2> QED BY <2>1 DEF Exactly, RowOf
<1>9. ListInv'
  BY <1>2, <1>4, <1>6, <1>7, <1>8 DEF ListInv
<1>10. QuoteInv'
  BY QuoteKept DEF StraightStep, StraightInv, Lists
<1> QED BY <1>1, <1>3, <1>9, <1>10, EditsStayKeeps DEF StraightStep, StraightInv

\* A list is read, for the screen or for a quote.
LEMMA ServeReadStraight == StraightStep /\ (\E c \in Calls : ServeRead(c)) => StraightInv'
<1> SUFFICES ASSUME StraightStep, NEW c \in Calls, ServeRead(c) PROVE StraightInv'
  OBVIOUS
<1>1. /\ calls[c].kind \in Lists \union {"quote"} /\ calls[c].phase = "sent"
      /\ UNCHANGED <<rows, drawing, bends, Saved, step, drag, quote>>
  <2>1. calls[c].kind \in Lists \union {"quote"} /\ calls[c].phase \in {"sent", "abandoned"} /\ CallOK(c)
    BY DEF ServeRead, Pending, StraightStep, WizardBase
  <2>2. UNCHANGED <<rows, drawing, bends, Saved, step, drag, quote>>
    BY DEF ServeRead, Saved
  <2> QED BY <2>1, <2>2 DEF CallOK, Edits, Lists
<1>2. PICK list : list = Listed(calls[c].drawing)
  OBVIOUS
<1>3. list \in Seq(Bend) /\ Exactly(list, calls[c].drawing)
  BY <1>2, ListedIs DEF StraightStep, WizardBase
<1>4. Handled(c, list)
  BY <1>2 DEF ServeRead
<1>5. PICK new : /\ SameCall(new, calls[c]) /\ new.phase = "answered"
                 /\ new.list = list /\ new.drawing = calls[c].drawing
                 /\ calls' = [calls EXCEPT ![c] = new]
  BY <1>1, <1>3, <1>4, HandledOnce DEF StraightStep, WizardBase
<1>6. /\ calls'[c].kind = calls[c].kind /\ calls'[c].drawing = calls[c].drawing
      /\ calls'[c].phase = "answered" /\ calls'[c].list = list
      /\ \A o \in Calls : o # c => calls'[o] = calls[o]
  BY <1>5, OneCall DEF StraightStep, SameCall
<1>7. CASE calls[c].kind = "quote"
  BY <1>1, <1>3, <1>6, <1>7, QuoteCall
<1>8. CASE calls[c].kind \in Lists
  BY <1>1, <1>3, <1>6, <1>8, ListCall
<1> QED BY <1>1, <1>7, <1>8

\* A call fails on its way.
LEMMA LoseStraight == StraightStep /\ (\E c \in Calls : Lose(c)) => StraightInv'
<1> SUFFICES ASSUME StraightStep, NEW c \in Calls, Lose(c) PROVE StraightInv'
  OBVIOUS
<1>1. /\ calls[c].phase \in {"sent", "answered"}
      /\ UNCHANGED <<rows, drawing, bends, Saved, step, drag, quote, Shown>>
  BY DEF Lose, Shown, Saved
<1>2. /\ calls'[c].kind = calls[c].kind /\ calls'[c].drawing = calls[c].drawing /\ calls'[c].id = calls[c].id
      /\ calls'[c].phase = "failed"
      /\ \A o \in Calls : o # c => calls'[o] = calls[o]
  <2> DEFINE new == [calls[c] EXCEPT !.phase = "failed", !.list = <<>>]
  <2>1. SameCall(new, calls[c]) /\ new.phase = "failed" /\ new.drawing = calls[c].drawing
    <3>1. calls[c] \in CallRecords
      BY DEF StraightStep, WizardBase, WizardTypeOK
    <3> QED BY <3>1, LostIs
  <2>2. calls' = [calls EXCEPT ![c] = new]
    BY DEF Lose
  <2> HIDE DEF new
  <2> QED BY <2>1, <2>2, OneCall DEF StraightStep, SameCall
<1>3. CASE calls[c].kind = "quote"
  BY <1>1, <1>2, <1>3, QuoteCall
<1>4. CASE calls[c].kind \in Lists
  BY <1>1, <1>2, <1>4, ListCall
<1>5. CASE calls[c].kind = "upload"
  <2>1. Quiet
    BY <1>1, <1>2, <1>5 DEF Quiet
  <2>2. QuoteInv'
    BY <1>1, <1>2, <1>5, QuoteKept DEF StraightStep, StraightInv
  <2> QED BY <2>1, <2>2, QuietKeeps DEF StraightStep, StraightInv
<1>6. CASE calls[c].kind \in Edits
  <2>1. DraftInv' /\ ListInv' /\ QuoteInv'
    BY <1>1, <1>2, <1>6, EditServed
  <2>2. ScreenInv'
    <3>1. Bare'
      BY <1>2, <1>6 DEF Bare, Open
    <3> QED BY <3>1 DEF ScreenInv, Steady
  <2>3. /\ Open({"create"})' = Open({"create"}) /\ Open({"update"})' = Open({"update"})
        /\ Open({"delete"})' = Open({"delete"}) /\ Open({"update", "delete"})' = Open({"update", "delete"})
        /\ \A o \in Open({"update", "delete"}) : calls'[o].id = calls[o].id
        /\ \A o \in Open({"create"}) : calls'[o].drawing = calls[o].drawing
        /\ \A o \in Calls : calls'[o] = calls[o] \/ calls'[o].phase = "failed"
        /\ Open({"update"}) \subseteq Open({"update", "delete"})
        /\ Open({"delete"}) \subseteq Open({"update", "delete"})
    BY <1>2 DEF Open
  <2>4. ASSUME NEW o \in Open({"create"})' PROVE CreateOK(o)'
    <3>1. o \in Open({"create"}) /\ o \in Calls /\ CreateOK(o)
      BY <2>3 DEF StraightStep, StraightInv, EditInv, Open
    <3>2. \A a \in Open({"create"}) : calls'[a].phase = "answered" => calls'[a] = calls[a]
      BY <2>3 DEF Open
    <3> QED BY <1>1, <2>3, <3>1, <3>2 DEF CreateOK
  <2>5. \A o \in Open({"update"})' : calls'[o].phase = "sent" => calls'[o] = calls[o]
    BY <2>3 DEF Open
  <2>6. EditInv'
    BY <1>1, <2>3, <2>4, <2>5 DEF StraightStep, StraightInv, EditInv
  <2> QED BY <2>1, <2>2, <2>6 DEF StraightInv
<1>7. calls[c].kind \in CallKinds \ {"none"}
  <2>1. calls[c] \in CallRecords /\ CallOK(c)
    BY DEF StraightStep, WizardBase, WizardTypeOK
  <2>2. calls[c] # NoCall
    BY <1>1, NoCallIs
  <2> QED BY <2>1, <2>2 DEF CallRecords, CallOK
<1> QED BY <1>3, <1>4, <1>5, <1>6, <1>7 DEF CallKinds

\* Calls that have crossed stay crossed.
LEMMA AstrayStays == [WizardNext]_wizardVars /\ astray \in BOOLEAN /\ astray => astray'
<1> SUFFICES ASSUME [WizardNext]_wizardVars, astray \in BOOLEAN, astray PROVE astray'
  OBVIOUS
<1>1. CASE UNCHANGED wizardVars
  BY <1>1 DEF wizardVars
<1>2. CASE ReferenceArrives \/ ReferenceFails \/ Replace \/ PointerUp \/ \E id \in BendIds : PointerDown(id)
  BY <1>2 DEF ReferenceArrives, ReferenceFails, Replace, PointerUp, PointerDown
<1>3. ASSUME NEW c \in Calls,
             Resume(c) \/ Restored(c) \/ RestoreFails(c) \/ Upload(c) \/ SetDrawing(c)
               \/ (\E p \in Places : PointerMove(c, p) \/ Draw(c, p))
               \/ (\E id \in BendIds : RemoveBend(c, id) \/ ServeCreate(c, id))
      PROVE  astray'
  BY <1>3 DEF Resume, Restored, RestoreFails, Upload, SetDrawing, PointerMove, Draw, RemoveBend, ServeCreate
<1>4. ASSUME NEW c \in Calls,
             Created(c) \/ Written(c) \/ WriteFails(c) \/ Reloaded(c) \/ ReloadFails(c)
               \/ (\E s \in Steps : GoTo(c, s)) \/ GoToResult(c) \/ Quoted(c) \/ CallFails(c)
               \/ (\E o \in Calls, n \in Spaces, s \in Steps : Reload(c, o, n, s))
      PROVE  astray'
  BY <1>4 DEF Created, Written, WriteFails, Reloaded, ReloadFails, GoTo, GoToResult, Quoted, CallFails, Reload
<1>5. ASSUME NEW c \in Calls,
             ServeEdit(c) \/ ServeRead(c) \/ (\E d \in Drawings : ServeUpload(c, d)) \/ Lose(c)
      PROVE  astray'
  BY <1>5 DEF ServeEdit, ServeRead, ServeUpload, Lose
<1> QED BY <1>1, <1>2, <1>3, <1>4, <1>5 DEF WizardNext

\* What holds whatever has crossed is kept.
LEMMA BaseKept == WizardConstants /\ WizardBase /\ [WizardNext]_wizardVars => WizardBase'
<1> SUFFICES ASSUME WizardConstants, WizardBase, [WizardNext]_wizardVars PROVE WizardBase'
  OBVIOUS
<1>1. CASE UNCHANGED wizardVars
  BY <1>1 DEF wizardVars, WizardBase, WizardTypeOK, RowsHaveIds, CallOK, NewDrawing, Saved
<1>2. CASE ReferenceArrives \/ ReferenceFails \/ Replace \/ PointerUp \/ \E id \in BendIds : PointerDown(id)
  BY <1>2, ReferenceBase, ReplaceBase
<1>3. ASSUME NEW c \in Calls,
             Resume(c) \/ Restored(c) \/ RestoreFails(c) \/ Upload(c) \/ SetDrawing(c)
               \/ (\E p \in Places : PointerMove(c, p) \/ Draw(c, p))
               \/ (\E id \in BendIds : RemoveBend(c, id) \/ ServeCreate(c, id))
      PROVE  WizardBase'
  BY <1>3, ResumeBase, AnswersBase, UploadBase, EditsBase, ServeCreateBase
<1>4. ASSUME NEW c \in Calls,
             Created(c) \/ Written(c) \/ WriteFails(c) \/ Reloaded(c) \/ ReloadFails(c)
               \/ (\E s \in Steps : GoTo(c, s)) \/ GoToResult(c) \/ Quoted(c) \/ CallFails(c)
               \/ (\E o \in Calls, n \in Spaces, s \in Steps : Reload(c, o, n, s))
      PROVE  WizardBase'
  BY <1>4, AnswersBase, WriteFailsBase, GoToBase, GoToResultBase, ReloadBase
<1>5. ASSUME NEW c \in Calls,
             ServeEdit(c) \/ ServeRead(c) \/ (\E d \in Drawings : ServeUpload(c, d)) \/ Lose(c)
      PROVE  WizardBase'
  BY <1>5, ServeEditBase, ServeReadBase, ServeUploadBase, LoseBase
<1> QED BY <1>1, <1>2, <1>3, <1>4, <1>5 DEF WizardNext

\* What holds while no calls have crossed is kept until they do.
LEMMA StraightKept == StraightStep /\ [WizardNext]_wizardVars => StraightInv'
<1> SUFFICES ASSUME StraightStep, [WizardNext]_wizardVars PROVE StraightInv'
  OBVIOUS
<1>1. CASE UNCHANGED wizardVars
  BY <1>1 DEF wizardVars, StraightStep, StraightInv, DraftInv, ListInv, Exactly, RowOf, Bare, Steady,
     ShownOK, HiddenOK, CreateOK, EditInv, ScreenInv, QuoteInv, Open, Shown, Saved
<1>2. CASE ReferenceArrives \/ ReferenceFails \/ Replace \/ PointerUp \/ \E id \in BendIds : PointerDown(id)
  BY <1>2, ReferenceStraight, ReplaceStraight
<1>3. ASSUME NEW c \in Calls,
             Resume(c) \/ Restored(c) \/ RestoreFails(c) \/ Upload(c) \/ SetDrawing(c)
               \/ (\E p \in Places : PointerMove(c, p) \/ Draw(c, p))
               \/ (\E id \in BendIds : RemoveBend(c, id) \/ ServeCreate(c, id))
      PROVE  StraightInv'
  BY <1>3, ResumeStraight, ReadStraight, RestoreFailsStraight, UploadStraight, SetDrawingStraight,
     PointerMoveStraight, DrawStraight, RemoveBendStraight, ServeCreateStraight
<1>4. ASSUME NEW c \in Calls,
             Created(c) \/ Written(c) \/ WriteFails(c) \/ Reloaded(c) \/ ReloadFails(c)
               \/ (\E s \in Steps : GoTo(c, s)) \/ GoToResult(c) \/ Quoted(c) \/ CallFails(c)
               \/ (\E o \in Calls, n \in Spaces, s \in Steps : Reload(c, o, n, s))
      PROVE  StraightInv'
  <2>1. ~ReloadFails(c)
    BY DEF StraightStep, ReloadFails
  <2> QED BY <1>4, <2>1, CreatedStraight, WrittenStraight, WriteFailsStraight, ReadStraight, GoToStraight,
             GoToResultStraight, QuotedStraight, CallFailsStraight, ReloadStraight
<1>5. ASSUME NEW c \in Calls,
             ServeEdit(c) \/ ServeRead(c) \/ (\E d \in Drawings : ServeUpload(c, d)) \/ Lose(c)
      PROVE  StraightInv'
  BY <1>5, ServeEditStraight, ServeReadStraight, ServeUploadStraight, LoseStraight
<1> QED BY <1>1, <1>2, <1>3, <1>4, <1>5 DEF WizardNext

\* The inductive invariant of the wizard: types, one row for each bend, and drawings of
\* uploads that nobody has seen; and, while no calls have crossed, a draft that is the
\* drawing of the screen, lists that are read while nothing is written, writes about
\* different bends, a screen that differs from the rows by the writes under way, and a
\* quote that is about the screen.
THEOREM WizardInvariant == WizardSpec => []WizardInv
<1>1. WizardConstants /\ WizardInit => WizardInv
  <2> SUFFICES ASSUME WizardConstants, WizardInit PROVE WizardInv
    OBVIOUS
  <2>1. WizardBase
    BY InitBase
  <2>2. \A c \in Calls : calls[c].kind = "none"
    BY NoCallIs DEF WizardInit
  <2>4. /\ Open({"create"}) = {} /\ Open({"update"}) = {} /\ Open({"delete"}) = {} /\ Open({"reload"}) = {}
        /\ Open({"quote"}) = {} /\ Open(Edits) = {} /\ Open(Lists) = {} /\ Open(Restores) = {}
    BY <2>2 DEF Open, Edits, Lists, Restores
  <2>5. drawing = None /\ quote.state = "away"
    BY DEF WizardInit, NoQuote
  <2>6. DraftInv /\ ListInv /\ EditInv /\ ScreenInv /\ QuoteInv
    BY <2>4, <2>5 DEF DraftInv, ListInv, EditInv, ScreenInv, Steady, QuoteInv
  <2> QED BY <2>1, <2>6 DEF WizardInv, StraightInv
<1>2. WizardConstants /\ WizardInv /\ [WizardNext]_wizardVars => WizardInv'
  <2> SUFFICES ASSUME WizardConstants, WizardInv, [WizardNext]_wizardVars PROVE WizardInv'
    OBVIOUS
  <2>1. WizardBase /\ WizardBase'
    BY BaseKept DEF WizardInv
  <2>2. ASSUME ~astray' PROVE StraightInv'
    <3>1. ~astray /\ StraightInv
      BY <2>1, <2>2, AstrayStays DEF WizardInv, WizardBase, WizardTypeOK
    <3> QED BY <2>1, <2>2, <3>1, StraightKept DEF StraightStep
  <2> QED BY <2>1, <2>2 DEF WizardInv
<1> QED BY <1>1, <1>2, WizardConstants, PTL DEF WizardSpec

\* Once its calls have been answered the list on the screen is the server's, bend for bend
\* and none twice, and the draft of the space that the page was loaded at, which a load at
\* that space restores, is the drawing on the screen; unless calls have crossed.
THEOREM SavedIsShown == WizardSpec => []ScreenIsSaved
<1>1. WizardInv => ScreenIsSaved
  <2> SUFFICES ASSUME WizardInv, drawing # None, Settled, ~astray
               PROVE  /\ Range(bends) = {b \in rows : b.drawing = drawing}
                      /\ IsInjective(bends)
                      /\ Saved = drawing
    BY DEF ScreenIsSaved
  <2>1. WizardBase /\ ScreenInv /\ DraftInv
    BY DEF WizardInv, StraightInv
  <2>2. \A c \in Calls : calls[c].kind \notin Edits \union Lists
    BY DEF Settled, Open
  <2>3. Exactly(bends, drawing)
    BY <2>1, <2>2, SettledScreen
  <2> QED BY <2>1, <2>3 DEF Exactly, RowOf, DraftInv
<1> QED BY <1>1, WizardInvariant, PTL

\* A saved quote that was not asked for in a hurry is for the drawing and the bends on the
\* screen.
THEOREM QuotesMatch == WizardSpec => []QuoteMatchesScreen
<1>1. WizardInv => QuoteMatchesScreen
  BY DEF WizardInv, StraightInv, QuoteInv, QuoteMatchesScreen
<1> QED BY <1>1, WizardInvariant, PTL
=============================================================================
