---------------------------- MODULE QuotingProofs ---------------------------
(***************************************************************************)
(* Safety of Quoting for any number of drawings, bends, quotes, handlers   *)
(* and faults. What is proved is where a stale draft can come from: a bend *)
(* edit changes the count of one drawing and leaves a handler that is      *)
(* about to expire its drafts; when that handler has run, whatever still   *)
(* holds the old count is either expired or marked as overtaken.           *)
(***************************************************************************)
EXTENDS Quoting, FiniteSetTheorems, TLAPS

\* A drawing without bends has count 0, and a count of bends is a count.
LEMMA ZeroIsACount == 0 \in Counts
<1>1. Cardinality({}) = 0
  BY FS_EmptySet
<1> QED
  BY <1>1 DEF Counts

LEMMA CountIsACount == ASSUME TypeOK, NEW d PROVE Count(d) \in Counts
<1>1. BendsOf(d) \in SUBSET [id : Bends, drawing : Drawings]
  BY DEF TypeOK, BendsOf, BendLine
<1> QED
  BY <1>1 DEF Count, Counts

\* The request table keeps its type when a handler starts, moves on or ends.
LEMMA HandlerType ==
    ASSUME NEW label \in {"idle", "material", "count", "pricing", "insert", "update",
                          "delete", "expire"},
           NEW d \in Drawings \union {None}, NEW m \in Materials \union {None},
           NEW b \in BendLine \union {None}
    PROVE  Handler(label, d, m, b) \in Request
BY ZeroIsACount DEF Handler, Request

LEMMA FinishType ==
    ASSUME TypeOK, NEW r \in Requests, Finish(r)
    PROVE  req' \in [Requests -> Request]
BY HandlerType DEF TypeOK, Finish, Idle

LEMMA GotoType ==
    ASSUME TypeOK, NEW r \in Requests,
           NEW label \in {"material", "count", "pricing", "insert", "update", "delete", "expire"},
           Goto(r, label)
    PROVE  req' \in [Requests -> Request]
BY DEF TypeOK, Goto, Request

\* The two causes, as long as no call has failed.
Excused(overtaken, d) == overtaken \/ EditPending(d)

\* A step of a handler that is not expiring drafts, and that leaves the bends alone,
\* gives rise to no stale count: what was excused before it still is.
LEMMA QuietStep ==
    ASSUME IInv, NEW r \in Requests, ~ At(r, "expire"),
           \A x \in Requests : x # r => req'[x] = req[x],
           UNCHANGED <<bends, faults>>,
           faults = 0 /\ Counted(r)' /\ req'[r].bends # Count(req'[r].drawing) =>
               Excused(req'[r].overtaken, req'[r].drawing),
           faults = 0 => \A q \in quotes' :
               q.status = "draft" /\ q.bends # Count(q.drawing) /\ q \notin quotes =>
               Excused(q.overtaken, q.drawing)
    PROVE  StaleCountHasCause' /\ StaleDraftHasCause'
<1>1. \A d : Count(d)' = Count(d)
  BY DEF Count, BendsOf
<1>2. ASSUME NEW d, EditPending(d) PROVE EditPending(d)'
  BY <1>2 DEF EditPending, At
<1>3. StaleCountHasCause'
  BY <1>1, <1>2 DEF IInv, StaleCountHasCause, Counted, Excused
<1>4. StaleDraftHasCause'
  BY <1>1, <1>2 DEF IInv, StaleDraftHasCause, Excused
<1> QED
  BY <1>3, <1>4

-----------------------------------------------------------------------------
LEMMA InitIInv == Init => IInv
<1> SUFFICES ASSUME Init PROVE IInv
  OBVIOUS
<1>1. TypeOK
  BY HandlerType, ConstantsAssumption DEF Init, TypeOK, Idle
<1> QED
  BY <1>1 DEF Init, IInv, HandlersSound, StaleCountHasCause, StaleDraftHasCause, Counted, At,
     Idle, Handler

\* The handler of a quote up to its insert.
LEMMA StartQuoteIInv ==
    ASSUME IInv, NEW r \in Requests, NEW d \in Drawings, NEW m \in Materials, StartQuote(r, d, m)
    PROVE  IInv'
<1> USE DEF StartQuote, At
<1>1. req'[r] = Handler("material", d, m, None) /\ \A x \in Requests : x # r => req'[x] = req[x]
  BY DEF IInv, TypeOK
<1>2. TypeOK'
  BY HandlerType DEF IInv, TypeOK
<1>3. HandlersSound'
  BY <1>1 DEF IInv, HandlersSound, Handler
<1>4. ~ Counted(r)'
  BY <1>1 DEF Handler, Counted
<1>5. StaleCountHasCause' /\ StaleDraftHasCause'
  BY <1>1, <1>4, QuietStep
<1> QED
  BY <1>2, <1>3, <1>5 DEF IInv

LEMMA ReadMaterialIInv ==
    ASSUME IInv, NEW r \in Requests, ReadMaterial(r) \/ PartTooLarge(r)
    PROVE  IInv'
<1> USE DEF ReadMaterial, PartTooLarge, At
<1>1. /\ Goto(r, "count") \/ Finish(r)
      /\ \A x \in Requests : x # r => req'[x] = req[x]
      /\ req'[r] = Idle \/ req'[r] = [req[r] EXCEPT !.pc = "count"]
  BY DEF IInv, TypeOK, Goto, Finish
<1>2. TypeOK'
  BY <1>1, GotoType, FinishType DEF IInv, TypeOK
<1>3. HandlersSound'
  BY <1>1 DEF IInv, TypeOK, Request, HandlersSound, Idle, Handler
<1>4. req'[r].pc \in {"count", "idle"}
  BY <1>1 DEF IInv, TypeOK, Request, Idle, Handler
<1>5. StaleCountHasCause' /\ StaleDraftHasCause'
  BY <1>1, <1>4, QuietStep DEF Counted
<1> QED
  BY <1>2, <1>3, <1>5 DEF IInv

LEMMA CountBendsIInv ==
    ASSUME IInv, NEW r \in Requests, CountBends(r)
    PROVE  IInv'
<1> USE DEF CountBends, At
<1>1. /\ req'[r] = [req[r] EXCEPT !.pc = "pricing", !.bends = Count(req[r].drawing)]
      /\ \A x \in Requests : x # r => req'[x] = req[x]
  BY DEF IInv, TypeOK
<1>2. TypeOK'
  BY CountIsACount DEF IInv, TypeOK, Request
<1>3. HandlersSound'
  BY <1>1 DEF IInv, TypeOK, Request, HandlersSound
<1>4. req'[r].bends = Count(req'[r].drawing)
  BY <1>1 DEF IInv, TypeOK, Request
<1>5. StaleCountHasCause' /\ StaleDraftHasCause'
  BY <1>1, <1>4, QuietStep
<1> QED
  BY <1>2, <1>3, <1>5 DEF IInv

LEMMA ReadPricingIInv ==
    ASSUME IInv, NEW r \in Requests, ReadPricing(r)
    PROVE  IInv'
<1> USE DEF ReadPricing, At
<1>1. /\ req'[r] = [req[r] EXCEPT !.pc = "insert", !.price = pricing]
      /\ \A x \in Requests : x # r => req'[x] = req[x]
  BY DEF IInv, TypeOK
<1>2. TypeOK'
  BY DEF IInv, TypeOK, Request
<1>3. HandlersSound'
  BY <1>1 DEF IInv, TypeOK, Request, HandlersSound
<1>4. /\ req'[r].bends = req[r].bends /\ req'[r].drawing = req[r].drawing
      /\ req'[r].overtaken = req[r].overtaken
  BY <1>1 DEF IInv, TypeOK, Request
<1>5. StaleCountHasCause' /\ StaleDraftHasCause'
  BY <1>1, <1>4, QuietStep DEF IInv, StaleCountHasCause, Counted, Excused
<1> QED
  BY <1>2, <1>3, <1>5 DEF IInv

\* The insert hands the handler's count, and its excuse, to the draft.
LEMMA InsertQuoteIInv ==
    ASSUME IInv, NEW r \in Requests, NEW id \in Quotes, InsertQuote(r, id)
    PROVE  IInv'
<1> USE DEF InsertQuote, At
<1> DEFINE new == [id |-> id, drawing |-> req[r].drawing, material |-> req[r].material,
                   bends |-> req[r].bends, price |-> req[r].price, status |-> "draft",
                   overtaken |-> req[r].overtaken]
<1>1. /\ req'[r] = Idle
      /\ \A x \in Requests : x # r => req'[x] = req[x]
  BY DEF IInv, TypeOK, Finish
<1>2. TypeOK'
  <2>1. new \in Quote
    BY DEF IInv, TypeOK, Request, HandlersSound, Quote
  <2> QED
    BY <2>1, FinishType DEF IInv, TypeOK
<1>3. HandlersSound'
  BY <1>1 DEF IInv, HandlersSound, Idle, Handler
<1>4. StaleCountHasCause' /\ StaleDraftHasCause'
  <2>1. faults = 0 /\ new.bends # Count(new.drawing) => Excused(new.overtaken, new.drawing)
    BY DEF IInv, StaleCountHasCause, Counted, Excused
  <2> HIDE DEF new
  <2>2. quotes' = quotes \union {new}
    BY DEF new
  <2> QED
    BY <1>1, <2>1, <2>2, QuietStep DEF Counted, Idle, Handler
<1> QED
  BY <1>2, <1>3, <1>4 DEF IInv

-----------------------------------------------------------------------------
\* Bend edits.
LEMMA CreateBendIInv ==
    ASSUME IInv, NEW r \in Requests, NEW d \in Drawings, NEW id \in Bends, CreateBend(r, d, id)
    PROVE  IInv'
<1> USE DEF CreateBend, At
<1>1. /\ req'[r] = Handler("expire", d, None, None)
      /\ \A x \in Requests : x # r => req'[x] = req[x]
  BY DEF IInv, TypeOK
<1>2. TypeOK'
  <2>1. bends' \subseteq BendLine
    BY DEF IInv, TypeOK, BendLine
  <2>2. Handler("expire", d, None, None) \in Request
    BY HandlerType
  <2> QED
    BY <2>1, <2>2 DEF IInv, TypeOK
<1>3. HandlersSound'
  BY <1>1 DEF IInv, HandlersSound, Handler
<1>4. \A e : e # d => Count(e)' = Count(e)
  <2> TAKE e
  <2> HAVE e # d
  <2>1. BendsOf(e)' = BendsOf(e)
    BY DEF BendsOf
  <2> QED
    BY <2>1 DEF Count
<1>5. EditPending(d)'
  BY <1>1 DEF EditPending, Handler
<1>6. \A e : EditPending(e) => EditPending(e)'
  BY <1>1 DEF EditPending
<1>7. StaleCountHasCause'
  BY <1>1, <1>4, <1>5, <1>6 DEF IInv, StaleCountHasCause, Counted, Handler
<1>8. StaleDraftHasCause'
  BY <1>4, <1>5, <1>6 DEF IInv, StaleDraftHasCause
<1> QED
  BY <1>2, <1>3, <1>7, <1>8 DEF IInv

LEMMA StartEditIInv ==
    ASSUME IInv, NEW r \in Requests, NEW b \in bends, NEW edit \in {"update", "delete"},
           StartEdit(r, b, edit)
    PROVE  IInv'
<1> USE DEF StartEdit, At
<1>1. /\ req'[r] = Handler(edit, b.drawing, None, b)
      /\ \A x \in Requests : x # r => req'[x] = req[x]
      /\ b \in BendLine /\ b.drawing \in Drawings
  BY DEF IInv, TypeOK, BendLine
<1>2. TypeOK'
  BY <1>1, HandlerType DEF IInv, TypeOK
<1>3. HandlersSound'
  BY <1>1 DEF IInv, HandlersSound, Handler
<1>4. ~ Counted(r)'
  BY <1>1 DEF Handler, Counted
<1>5. StaleCountHasCause' /\ StaleDraftHasCause'
  BY <1>1, <1>4, QuietStep
<1> QED
  BY <1>2, <1>3, <1>5 DEF IInv

LEMMA UpdateBendIInv ==
    ASSUME IInv, NEW r \in Requests, UpdateBend(r)
    PROVE  IInv'
<1> USE DEF UpdateBend, At
<1>1. /\ Goto(r, "expire") \/ Finish(r)
      /\ \A x \in Requests : x # r => req'[x] = req[x]
      /\ req'[r] = Idle \/ req'[r] = [req[r] EXCEPT !.pc = "expire"]
  BY DEF IInv, TypeOK, Goto, Finish
<1>2. TypeOK'
  BY <1>1, GotoType, FinishType DEF IInv, TypeOK
<1>3. HandlersSound'
  BY <1>1 DEF IInv, TypeOK, Request, HandlersSound, Idle, Handler
<1>4. req'[r].pc \in {"expire", "idle"}
  BY <1>1 DEF IInv, TypeOK, Request, Idle, Handler
<1>5. StaleCountHasCause' /\ StaleDraftHasCause'
  BY <1>1, <1>4, QuietStep DEF Counted
<1> QED
  BY <1>2, <1>3, <1>5 DEF IInv

\* A removal changes the count of one drawing and announces it.
LEMMA RemoveBendIInv ==
    ASSUME IInv, NEW r \in Requests, RemoveBend(r)
    PROVE  IInv'
<1> USE DEF RemoveBend, At
<1> PICK d : d = req[r].drawing
  OBVIOUS
<1>1. /\ Goto(r, "expire") \/ Finish(r)
      /\ \A x \in Requests : x # r => req'[x] = req[x]
      /\ req'[r] = Idle \/ req'[r] = [req[r] EXCEPT !.pc = "expire"]
      /\ req[r].bend.drawing = d
  BY DEF IInv, TypeOK, Goto, Finish, HandlersSound
<1>2. TypeOK'
  BY <1>1, GotoType, FinishType DEF IInv, TypeOK
<1>3. HandlersSound'
  BY <1>1 DEF IInv, TypeOK, Request, HandlersSound, Idle, Handler
<1>4. req'[r].pc \in {"expire", "idle"}
  BY <1>1 DEF IInv, TypeOK, Request, Idle, Handler
<1>5. \A e : e # d => Count(e)' = Count(e)
  <2> TAKE e
  <2> HAVE e # d
  <2>1. BendsOf(e)' = BendsOf(e)
    BY <1>1 DEF BendsOf
  <2> QED
    BY <2>1 DEF Count
<1>6. EditPending(d)' \/ UNCHANGED bends
  BY <1>1 DEF EditPending, IInv, TypeOK, Request, Goto
<1>7. \A e : EditPending(e) => EditPending(e)'
  BY <1>1 DEF EditPending
<1>8. UNCHANGED bends => \A e : Count(e)' = Count(e)
  BY DEF Count, BendsOf
<1>9. StaleCountHasCause'
  BY <1>1, <1>4, <1>5, <1>6, <1>7, <1>8 DEF IInv, StaleCountHasCause, Counted
<1>10. StaleDraftHasCause'
  BY <1>5, <1>6, <1>7, <1>8 DEF IInv, StaleDraftHasCause
<1> QED
  BY <1>2, <1>3, <1>9, <1>10 DEF IInv

\* When the drafts of d are expired, no draft of d is left, and the handlers that
\* have counted the bends of d are marked: d needs no pending edit as an excuse.
LEMMA ExpireDraftQuotesIInv ==
    ASSUME IInv, NEW r \in Requests, ExpireDraftQuotes(r)
    PROVE  IInv'
<1> USE DEF ExpireDraftQuotes, At
<1> PICK d : d = req[r].drawing
  OBVIOUS
<1>1. /\ req'[r] = Idle
      /\ \A x \in Requests : x # r => req'[x] = Overtaken(d)[x]
  BY DEF IInv, TypeOK, Overtaken
<1>2. \A x \in Requests : x # r =>
         /\ req'[x].pc = req[x].pc /\ req'[x].drawing = req[x].drawing
         /\ req'[x].material = req[x].material /\ req'[x].bend = req[x].bend
         /\ req'[x].bends = req[x].bends /\ req'[x].price = req[x].price
         /\ req[x].overtaken => req'[x].overtaken
         /\ Counted(x) /\ req[x].drawing = d => req'[x].overtaken
  BY <1>1 DEF IInv, TypeOK, Request, Overtaken
<1>3. TypeOK'
  <2>1. quotes' \subseteq Quote
    BY DEF IInv, TypeOK, Quote, Expired
  <2>2. \A x \in Requests : Overtaken(d)[x] \in Request
    BY DEF IInv, TypeOK, Request, Overtaken
  <2>3. Idle \in Request
    BY HandlerType DEF Idle
  <2> QED
    BY <2>1, <2>2, <2>3 DEF IInv, TypeOK, Overtaken
<1>4. HandlersSound'
  BY <1>1, <1>2 DEF IInv, HandlersSound, Idle, Handler
<1>5. \A e : Count(e)' = Count(e)
  BY DEF Count, BendsOf
<1>6. \A e : e # d /\ EditPending(e) => EditPending(e)'
  BY <1>2 DEF EditPending
<1>7. StaleCountHasCause'
  BY <1>1, <1>2, <1>5, <1>6 DEF IInv, StaleCountHasCause, Counted, Idle, Handler
<1>8. StaleDraftHasCause'
  <2>1. \A q \in quotes' : q.status = "draft" => q \in quotes /\ q.drawing # d
    BY DEF IInv, TypeOK, Quote, Expired
  <2> QED
    BY <1>5, <1>6, <2>1 DEF IInv, StaleDraftHasCause
<1> QED
  BY <1>3, <1>4, <1>7, <1>8 DEF IInv

-----------------------------------------------------------------------------
\* Orders, administrators, and failures.
LEMMA MarkOrderedIInv ==
    ASSUME IInv, NEW q \in quotes, MarkOrdered(q)
    PROVE  IInv'
<1> USE DEF MarkOrdered
<1>1. TypeOK'
  BY DEF IInv, TypeOK, Quote
<1>2. HandlersSound'
  BY DEF IInv, HandlersSound, At
<1>3. StaleCountHasCause'
  BY DEF IInv, StaleCountHasCause, Counted, EditPending, At, Count, BendsOf
<1>4. StaleDraftHasCause'
  <2>1. \A p \in quotes' : p.status = "draft" => p \in quotes
    BY DEF IInv, TypeOK, Quote
  <2> QED
    BY <2>1 DEF IInv, StaleDraftHasCause, EditPending, At, Count, BendsOf
<1> QED
  BY <1>1, <1>2, <1>3, <1>4 DEF IInv

LEMMA AdminIInv ==
    ASSUME IInv,
           \/ \E p \in Prices : UpdatePricing(p)
           \/ \E m \in Materials, active \in BOOLEAN : UpdateMaterial(m, active)
    PROVE  IInv'
<1>1. UNCHANGED <<bends, quotes, req, faults>>
  BY DEF UpdatePricing, UpdateMaterial
<1>2. TypeOK'
  BY DEF IInv, TypeOK, UpdatePricing, UpdateMaterial
<1> QED
  BY <1>1, <1>2 DEF IInv, HandlersSound, StaleCountHasCause, StaleDraftHasCause, Counted,
     EditPending, At, Count, BendsOf

\* After a fault nothing is claimed of staleness.
LEMMA FaultIInv ==
    ASSUME IInv, Restart \/ \E r \in Requests : Abort(r)
    PROVE  IInv'
<1>1. faults' = faults + 1 /\ faults' \in 0 .. MaxFaults /\ faults' # 0
  BY ConstantsAssumption DEF IInv, TypeOK, Restart, Abort
<1>2. \A x \in Requests : req'[x] = Idle \/ req'[x] = req[x]
  BY DEF IInv, TypeOK, Restart, Abort, Finish
<1>3. TypeOK'
  <2>1. req' \in [Requests -> Request]
    BY FinishType, HandlerType DEF IInv, Restart, Abort, Idle
  <2> QED
    BY <1>1, <2>1 DEF IInv, TypeOK, Restart, Abort
<1>4. HandlersSound'
  BY <1>2 DEF IInv, HandlersSound, At, Idle, Handler
<1> QED
  BY <1>1, <1>3, <1>4 DEF IInv, StaleCountHasCause, StaleDraftHasCause

LEMMA NextIInv == IInv /\ [Next]_vars => IInv'
<1> SUFFICES ASSUME IInv, [Next]_vars PROVE IInv'
  OBVIOUS
<1>1. ASSUME NEW r \in Requests, QuoteStep(r) PROVE IInv'
  BY <1>1, StartQuoteIInv, ReadMaterialIInv, CountBendsIInv, ReadPricingIInv, InsertQuoteIInv
     DEF QuoteStep
<1>2. ASSUME NEW r \in Requests, BendStep(r) PROVE IInv'
  BY <1>2, CreateBendIInv, StartEditIInv, UpdateBendIInv, RemoveBendIInv, ExpireDraftQuotesIInv
     DEF BendStep
<1>3. CASE Environment \/ \E r \in Requests : Abort(r)
  BY <1>3, MarkOrderedIInv, AdminIInv, FaultIInv DEF Environment
<1>4. CASE UNCHANGED vars
  BY <1>4 DEF vars, IInv, TypeOK, HandlersSound, StaleCountHasCause, StaleDraftHasCause,
     Counted, EditPending, At, Count, BendsOf
<1> QED
  BY <1>1, <1>2, <1>3, <1>4 DEF Next

THEOREM Invariant == Spec => []IInv
BY InitIInv, NextIInv, PTL DEF Spec

\* Every row and handler keeps its type; a quote is never inserted half-priced.
THEOREM TypeCorrect == Spec => []TypeOK
<1>1. IInv => TypeOK
  BY DEF IInv
<1> QED
  BY <1>1, Invariant, PTL

\* Without failed calls, a draft with an outdated bend count is about to be expired
\* or was overtaken by an edit while it was being made: there is no third way.
THEOREM StaleDraftsExplained == Spec => []StaleDraftHasCause
<1>1. IInv => StaleDraftHasCause
  BY DEF IInv
<1> QED
  BY <1>1, Invariant, PTL

\* The figures of a quote never change, an ordered quote stays ordered and an
\* expired one does not come back as a draft.
THEOREM QuotesAreFrozen == Spec => FrozenOnceQuoted
<1> DEFINE Frozen ==
      \A q \in quotes : \E p \in quotes' :
          /\ p = [q EXCEPT !.status = p.status]
          /\ q.status = "ordered" => p.status = "ordered"
          /\ q.status = "expired" => p.status # "draft"
<1>1. TypeOK /\ [Next]_vars => [Frozen]_vars
  <2> SUFFICES ASSUME TypeOK, Next PROVE Frozen
    OBVIOUS
  <2>1. \A q \in quotes : q \in Quote /\ q = [q EXCEPT !.status = q.status]
    BY DEF TypeOK, Quote
  <2>2. CASE quotes \subseteq quotes'
    BY <2>1, <2>2
  <2>3. ASSUME NEW r \in Requests, ExpireDraftQuotes(r) PROVE Frozen
    <3> SUFFICES ASSUME NEW q \in quotes
                 PROVE  /\ Expired(q, req[r].drawing) \in quotes'
                        /\ Expired(q, req[r].drawing) =
                              [q EXCEPT !.status = Expired(q, req[r].drawing).status]
                        /\ q.status = "ordered" => Expired(q, req[r].drawing).status = "ordered"
                        /\ q.status = "expired" => Expired(q, req[r].drawing).status # "draft"
      OBVIOUS
    <3> QED
      BY <2>1, <2>3 DEF Expired, ExpireDraftQuotes, Quote
  <2>4. ASSUME NEW o \in quotes, MarkOrdered(o) PROVE Frozen
    <3>1. [o EXCEPT !.status = "ordered"] \in quotes'
      BY <2>4 DEF MarkOrdered
    <3>2. [o EXCEPT !.status = "ordered"].status = "ordered"
      BY <2>1 DEF Quote
    <3>3. \A q \in quotes : q # o => q \in quotes'
      BY <2>4 DEF MarkOrdered
    <3> QED
      BY <2>1, <3>1, <3>2, <3>3
  <2>5. ASSUME NEW r \in Requests, QuoteStep(r) \/ Abort(r) PROVE quotes \subseteq quotes'
    BY <2>5 DEF QuoteStep, StartQuote, ReadMaterial, PartTooLarge, CountBends, ReadPricing,
       InsertQuote, Abort
  <2>6. ASSUME NEW r \in Requests, BendStep(r) PROVE ExpireDraftQuotes(r) \/ UNCHANGED quotes
    BY <2>6 DEF BendStep, CreateBend, StartEdit, UpdateBend, RemoveBend
  <2>7. CASE Environment
    BY <2>2, <2>4, <2>7 DEF Environment, UpdatePricing, UpdateMaterial, Restart
  <2> QED
    BY <2>2, <2>3, <2>5, <2>6, <2>7 DEF Next
<1> QED
  BY <1>1, TypeCorrect, PTL DEF Spec, FrozenOnceQuoted
=============================================================================
