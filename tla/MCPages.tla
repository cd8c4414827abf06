-------------------------------- MODULE MCPages -------------------------------
(***************************************************************************)
(* The pages of the front end, for TLC. The router shows one page at a     *)
(* time, and pages of different modules keep no state in common, so they   *)
(* are checked side by side: `open` picks the page, and the others stay as *)
(* they are.                                                               *)
(***************************************************************************)
EXTENDS Wizard, WorkBed, CheckoutPages, Navigation, AdminForms, Listings, Catalogue, TLC

CONSTANTS q1, q2, m1, m2, i1, n0, n1

VARIABLE open

pagesVars == <<open, wizardVars, workBedVars, checkoutVars, navigationVars, formVars, listingVars, catalogueVars>>

PagesInit ==
    /\ open \in {"wizard", "workBed", "checkout", "navigation", "forms", "listing", "catalogue"}
    /\ WizardInit /\ space = (CHOOSE n \in Spaces : TRUE)
    /\ WorkBedInit /\ CheckoutInit /\ FormsInit
    /\ NavigationInit /\ (open # "navigation" => nav = Going("login"))
    /\ ListingInit /\ (open # "listing" => listing = "orders" /\ table = (CHOOSE t \in Tables : TRUE) /\ query.page = 1)
    /\ CatalogueInit /\ (open # "catalogue" => stock = <<>> /\ ~editor.open)

OthersThan(only) ==
    /\ UNCHANGED open
    /\ open = only
    /\ only # "wizard" => UNCHANGED wizardVars
    /\ only # "workBed" => UNCHANGED workBedVars
    /\ only # "checkout" => UNCHANGED checkoutVars
    /\ only # "navigation" => UNCHANGED navigationVars
    /\ only # "forms" => UNCHANGED formVars
    /\ only # "listing" => UNCHANGED listingVars
    /\ only # "catalogue" => UNCHANGED catalogueVars

PagesNext ==
    \/ OthersThan("wizard") /\ WizardNext
    \/ OthersThan("workBed") /\ WorkBedNext
    \/ OthersThan("checkout") /\ CheckoutNext
    \/ OthersThan("navigation") /\ NavigationNext
    \/ OthersThan("forms") /\ FormsNext
    \/ OthersThan("listing") /\ ListingNext
    \/ OthersThan("catalogue") /\ CatalogueNext

PagesSpec == PagesInit /\ [][PagesNext]_pagesVars

-----------------------------------------------------------------------------
(* The instance *)

Line(closed, sides) == [closed |-> closed, sides |-> sides]
MCLayouts ==
    {[placed |-> 3, lines |-> <<Line(TRUE, <<2, 0, 3>>), Line(FALSE, <<1, 2>>)>>],
     [placed |-> 0, lines |-> <<Line(FALSE, <<4, 2, 1>>)>>],
     [placed |-> 1, lines |-> <<>>]}

MCWorth == (q1 :> 10) @@ (q2 :> 20)
MCSheets == (q1 :> 1) @@ (q2 :> 2)
MCRates == (m1 :> {0, 1}) @@ (m2 :> {0, 3})
MCShops == {(m1 :> 0) @@ (m2 :> 3)}

Row(mine, worth, status) == [mine |-> mine, worth |-> worth, status |-> status]
MCTables ==
    {<<Row(TRUE, 2, "first"), Row(FALSE, 2, "first"), Row(TRUE, 1, "later")>>,
     <<Row(TRUE, 1, "first"), Row(TRUE, 4, "first"), Row(TRUE, 3, "first"), Row(TRUE, 5, "first")>>,
     <<Row(TRUE, 1, "first"), Row(TRUE, 3, "later"), Row(TRUE, 2, "first")>>}

MCStocks ==
    {<<>>, i1 :> [name |-> n0, isActive |-> TRUE], i1 :> [name |-> n1, isActive |-> FALSE]}

\* What follows a crossing that a property excepts is not explored; nor is what follows a
\* refused call of a table, which leaves everything as it was. The polls of return
\* pages are followed while the store has nothing: they share no state with it. Of the
\* settings forms the last is followed until it is excused, the ones before it further.
InHand ==
    /\ ~astray
    /\ open = "listing" => ~walk.excused
    /\ ~adrift
    /\ polls # NoPolls => summary = NoSummary /\ delivery = NoDelivery /\ changes = 0
    /\ excused => opened < MaxOpened
    /\ losses > 0 => \E j \in Jobs : jobs[j].phase = "failed"
=============================================================================
