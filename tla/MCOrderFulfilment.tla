------------------------- MODULE MCOrderFulfilment --------------------------
(***************************************************************************)
(* The instance of OrderFulfilment that TLC checks: quotes q1 and q2 cut   *)
(* from one drawing, a shipping method whose kind and rate an admin        *)
(* changes, and a few Stripe sessions and handler slots.                   *)
(***************************************************************************)
EXTENDS OrderFulfilment, TLC

CONSTANTS q1, q2, d1

MCQuoteTotal == [q \in Quotes |-> IF q = q1 THEN 100 ELSE 200]
MCSheetCount == [q \in Quotes |-> IF q = q1 THEN 1 ELSE 2]
MCDrawingOf  == [q \in Quotes |-> d1]
MCTariffs    == {[kind |-> "flat", rate |-> 5], [kind |-> "per_sheet", rate |-> 7]}
MCOneTariff  == {[kind |-> "per_sheet", rate |-> 5]}

\* Slots are interchangeable, and so are Stripe's session ids.
Symmetry == Permutations(Requests) \union Permutations(Sessions)
=============================================================================
