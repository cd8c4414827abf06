------------------------------ MODULE Estimate ------------------------------
(***************************************************************************)
(* From a part to a price: NestingService.nest and PricingService.price as *)
(* QuotesService.create calls them, and their copies in core/estimate.ts   *)
(* as the draft's computed signals call those. The wizard shows the copy's *)
(* figures and the customer pays the service's, so the two must agree.     *)
(*                                                                         *)
(* Lengths are tenths of a millimetre, rates ten-thousandths of a dollar   *)
(* (Decimal(12,4)), multipliers hundredths, amounts cents. The quotients   *)
(* of the grid are floating point: one that is a whole number may come out *)
(* just below it, and floor then loses a column or row. `slip` says for    *)
(* which axis it does; both copies divide the same doubles and slip alike. *)
(*                                                                         *)
(* Definitions no action refers to are mutated forms of their neighbours.  *)
(***************************************************************************)
EXTENDS Integers

CONSTANTS
    Parts,      \* drawings that may be quoted: box and cut length
    Materials,  \* sheets: size and cost multiplier
    Machines,   \* machine configurations: spacing and margin
    Rates,      \* price lists
    Quantities, \* numbers of parts within the machine's limits
    BendCounts  \* bends of a part

Rate == [setupFee : Nat, costPerLinearFoot : Nat, perSheetCost : Nat, handlingFee : Nat,
         costPerBend : Nat, minimumOrder : Nat]

ASSUME EstimateConstants ==
    /\ Parts \subseteq [w : Nat \ {0}, h : Nat \ {0}, cut : Nat]
    /\ Materials \subseteq [sheetW : Nat, sheetH : Nat, multiplier : Nat]
    /\ Machines \subseteq [spacing : Nat, margin : Nat]
    /\ Rates \subseteq Rate
    /\ Quantities \subseteq Nat \ {0}
    /\ BendCounts \subseteq Nat

VARIABLES
    job,     \* what is being priced
    saved,   \* the server's figures, as POST /api/quotes stores them
    shown    \* the wizard's figures

estVars == <<job, saved, shown>>

Least(a, b) == IF a <= b THEN a ELSE b

-----------------------------------------------------------------------------
(* The grid *)

\* How many parts of this size fit a stretch of the sheet, with spacing between them.
AcrossRoundedUp(usable, part, spacing, slip) ==
    (usable + part + 2 * spacing - 1) \div (part + spacing)

AcrossWithoutGap(usable, part, spacing, slip) == usable \div (part + spacing)

Across(usable, part, spacing, slip) ==
    LET q == (usable + spacing) \div (part + spacing)
    IN  IF slip /\ (usable + spacing) % (part + spacing) = 0 THEN q - 1 ELSE q

Ceiling(n, d) == (n + d - 1) \div d

Usable(size, machine) == size - 2 * machine.margin

Refused == [perSheet |-> 0]

MaxPlacements == 2000

\* Refused is PartTooLargeError. Placements are those drawn on the first sheet.
Nest(j) ==
    LET usableW  == Usable(j.material.sheetW, j.machine)
        usableH  == Usable(j.material.sheetH, j.machine)
        cols     == Across(usableW, j.part.w, j.machine.spacing, j.slip.w)
        rows     == Across(usableH, j.part.h, j.machine.spacing, j.slip.h)
        perSheet == cols * rows
    IN  IF \/ ~ (j.quantity > 0)
           \/ ~ (j.part.w > 0) \/ ~ (j.part.h > 0)
           \/ usableW <= 0 \/ usableH <= 0
           \/ perSheet <= 0
        THEN Refused
        ELSE [cols |-> cols, rows |-> rows, perSheet |-> perSheet,
              sheetCount |-> Ceiling(j.quantity, perSheet),
              placed |-> Least(Least(j.quantity, perSheet), MaxPlacements)]

\* estimate.ts: the callers have a part and a quantity, and the cap is missing.
PreviewNest(j) ==
    LET usableW  == Usable(j.material.sheetW, j.machine)
        usableH  == Usable(j.material.sheetH, j.machine)
        cols     == Across(usableW, j.part.w, j.machine.spacing, j.slip.w)
        rows     == Across(usableH, j.part.h, j.machine.spacing, j.slip.h)
        perSheet == cols * rows
    IN  IF usableW <= 0 \/ usableH <= 0 \/ perSheet <= 0
        THEN Refused
        ELSE [cols |-> cols, rows |-> rows, perSheet |-> perSheet,
              sheetCount |-> Ceiling(j.quantity, perSheet),
              placed |-> Least(j.quantity, perSheet)]

\* The top left corner of the i-th part, counted from 0.
Placement(j, cols, i) ==
    [x |-> j.machine.margin + (i % cols) * (j.part.w + j.machine.spacing),
     y |-> j.machine.margin + (i \div cols) * (j.part.h + j.machine.spacing)]

\* perSheetCounts: the s-th sheet takes what is left, up to a full sheet.
OnSheet(j, perSheet, s) == Least(perSheet, j.quantity - (s - 1) * perSheet)

-----------------------------------------------------------------------------
(* The price *)

\* Math.round of a quotient that is not negative.
Round(n, d) == (2 * n + d) \div (2 * d)

Cents(rate) == Round(rate, 100)

LineAmounts(cutTotal, bendTotal, sheetCount, multiplier, rate) ==
    [setup    |-> Cents(rate.setupFee),
     cutting  |-> Round(cutTotal * rate.costPerLinearFoot, 304800),
     sheets   |-> Round(sheetCount * rate.perSheetCost * multiplier, 10000),
     handling |-> Cents(rate.handlingFee),
     bends    |-> Cents(bendTotal * rate.costPerBend)]

Subtotal(lines) ==
    lines.setup + lines.cutting + lines.sheets + lines.handling + lines.bends

\* The shortfall of a small order charged twice.
TotalWithSurcharge(lines, rate) ==
    IF Subtotal(lines) < Cents(rate.minimumOrder)
    THEN 2 * Cents(rate.minimumOrder) - Subtotal(lines)
    ELSE Subtotal(lines)

\* The minimum order is applied to the sum, last.
Total(lines, rate) ==
    IF Subtotal(lines) < Cents(rate.minimumOrder) THEN Cents(rate.minimumOrder)
    ELSE Subtotal(lines)

Price(j, nest) ==
    LET lines == LineAmounts(j.part.cut * j.quantity, j.bends * j.quantity, nest.sheetCount,
                             j.material.multiplier, j.rates)
    IN  [lines |-> lines, total |-> Total(lines, j.rates)]

\* A copy that forgets that bends are counted per part.
PreviewPriceOfOne(j, nest) ==
    LET lines == LineAmounts(j.part.cut * j.quantity, j.bends, nest.sheetCount,
                             j.material.multiplier, j.rates)
    IN  [lines |-> lines, total |-> Total(lines, j.rates)]

\* estimate.ts, called by DraftStore.breakdown.
PreviewPrice(j, nest) ==
    LET cutTotal  == j.part.cut * j.quantity
        bendTotal == j.bends * j.quantity
        lines == LineAmounts(cutTotal, bendTotal, nest.sheetCount, j.material.multiplier,
                             j.rates)
        sum   == Subtotal(lines)
        least == Cents(j.rates.minimumOrder)
    IN  [lines |-> lines, total |-> IF sum < least THEN least ELSE sum]

\* No nesting, no price: the service refuses, the wizard shows none.
SavedFigures(j) ==
    LET nest == Nest(j)
    IN  IF nest = Refused THEN [nest |-> nest] ELSE [nest |-> nest, price |-> Price(j, nest)]

ShownFigures(j) ==
    LET nest == PreviewNest(j)
    IN  IF nest = Refused THEN [nest |-> nest]
                          ELSE [nest |-> nest, price |-> PreviewPrice(j, nest)]

-----------------------------------------------------------------------------
(* Pricing a part *)

NoJob == [quantity |-> 0]

EstInit ==
    /\ job = NoJob
    /\ saved = NoJob
    /\ shown = NoJob

Jobs(part) ==
    [part : {part}, material : Materials, machine : Machines, rates : Rates,
     quantity : Quantities, bends : BendCounts, slip : [w : BOOLEAN, h : BOOLEAN]]

\* The wizard shows its figures and posts the same draft.
QuotePart(part) ==
    \E j \in Jobs(part) :
        /\ job' = j
        /\ saved' = SavedFigures(j)
        /\ shown' = ShownFigures(j)

EstNext == \E part \in Parts : QuotePart(part)

EstSpec == EstInit /\ [][EstNext]_estVars

-----------------------------------------------------------------------------
(* Properties *)

Quoted == job # NoJob /\ saved.nest # Refused

\* The part drawn at p lies within the margins of the sheet.
OnTheSheet(j, p) ==
    /\ p.x >= j.machine.margin /\ p.x + j.part.w + j.machine.margin <= j.material.sheetW
    /\ p.y >= j.machine.margin /\ p.y + j.part.h + j.machine.margin <= j.material.sheetH

\* Two parts are at least the spacing apart, on one axis or the other.
Apart(j, p, q) ==
    \/ p.x + j.part.w + j.machine.spacing <= q.x \/ q.x + j.part.w + j.machine.spacing <= p.x
    \/ p.y + j.part.h + j.machine.spacing <= q.y \/ q.y + j.part.h + j.machine.spacing <= p.y

\* Every part of a full sheet lies within the margins, clear of every other part: the number of
\* parts on a sheet is never too high, so the sheets that are charged for are enough.
PartsFitTheSheet ==
    Quoted =>
        LET cols   == saved.nest.cols
            places == 0..(saved.nest.perSheet - 1)
        IN  \A i \in places :
                /\ OnTheSheet(job, Placement(job, cols, i))
                /\ \A k \in places :
                    i # k => Apart(job, Placement(job, cols, i), Placement(job, cols, k))

\* A part that is turned away is too large for the sheet, or fills it exactly and is a victim of
\* rounding. And no quote charges for a sheet that stays empty.
TooLarge(j) ==
    \/ j.part.w > Usable(j.material.sheetW, j.machine)
    \/ j.part.h > Usable(j.material.sheetH, j.machine)

ExactFit(j) ==
    \/ j.slip.w /\ j.part.w = Usable(j.material.sheetW, j.machine)
    \/ j.slip.h /\ j.part.h = Usable(j.material.sheetH, j.machine)

NoSheetWasted ==
    /\ job # NoJob /\ saved.nest = Refused => TooLarge(job) \/ ExactFit(job)
    /\ Quoted =>
        LET n == saved.nest.sheetCount
        IN  /\ \A s \in 1..n : OnSheet(job, saved.nest.perSheet, s) > 0
            /\ n * saved.nest.perSheet >= job.quantity

\* The binding number is the one that was previewed, line by line, and a part the preview can place is
\* a part the server quotes; only the list of drawn placements may be longer in the preview.
PreviewIsTheQuote ==
    job # NoJob =>
        /\ (saved.nest = Refused) = (shown.nest = Refused)
        /\ Quoted => /\ saved.price = shown.price
                     /\ \A f \in {"cols", "rows", "perSheet", "sheetCount"} :
                            saved.nest[f] = shown.nest[f]
                     /\ saved.nest.placed <= shown.nest.placed

\* More parts never cost less, in total and on every line: rounding line by line, filling up the
\* last sheet and the minimum order do not let a larger order undercut a smaller one.
MorePartsNeverCostLess ==
    Quoted =>
        \A q \in 1..job.quantity :
            LET smaller == [job EXCEPT !.quantity = q]
                price   == Price(smaller, Nest(smaller))
            IN  /\ price.total <= saved.price.total
                /\ \A f \in DOMAIN price.lines : price.lines[f] <= saved.price.lines[f]
=============================================================================
