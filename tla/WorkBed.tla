-------------------------------- MODULE WorkBed -------------------------------
(***************************************************************************)
(* The work bed of the result step and the order pages: a laser that runs  *)
(* along the outline of the nested parts, frame by frame, on a layer that  *)
(* is only ever added to. Three things interrupt it: new inputs rebuild    *)
(* the path, a resize wipes the layer and replays it, and the customer     *)
(* stops and starts it.                                                    *)
(*                                                                         *)
(* A polyline is the lengths of its sides, in units that a frame's advance *)
(* is counted in; the layer is the set of units painted since it was       *)
(* wiped. Where the sheet and its parts lie is another module's business.  *)
(*                                                                         *)
(* Definitions no action refers to are mutated forms of their neighbours.  *)
(***************************************************************************)
EXTENDS Naturals, SequencesExt, Summation

CONSTANTS
    Layouts,     \* [placed: placements of the nesting, lines: polylines of the part]
    Strides,     \* how far the laser may run in one frame; the first frame of a run is 0
    MaxAnimated  \* placements the laser runs along

\* An open polyline has a side at least, as it has two points.
LayoutsAreDrawn ==
    \A layout \in Layouts :
        /\ layout.placed \in Nat
        /\ layout.lines \in Seq([closed : BOOLEAN, sides : Seq(Nat) \ {<<>>}])

ASSUME WorkBedConstants == Strides \subseteq Nat /\ MaxAnimated \in Nat \ {0} /\ LayoutsAreDrawn

VARIABLES
    segments,   \* lengths of the segments of the path
    bed,        \* [index, progress, travelled, pct]: how far the laser has come
    raf,        \* a frame is requested
    running,    \* what the button shows
    layer,      \* units of the path painted on the cut layer
    gap,        \* history: units of a segment the laser was inside of when the layer was wiped
    destroyed   \* the page was left

workBedVars == <<segments, bed, raf, running, layer, gap, destroyed>>

\* Parts that did not nest are shown as one part in the corner.
Animated(layout) ==
    IF layout.placed = 0 THEN 1
    ELSE IF layout.placed > MaxAnimated THEN MaxAnimated ELSE layout.placed

\* An open polyline has one side less than it has points.
Outline(line) == IF line.closed THEN line.sides ELSE Front(line.sides)

BuildSegments(layout) ==
    LET part == FlattenSeq([i \in DOMAIN layout.lines |-> Outline(layout.lines[i])]) IN
    FlattenSeq([n \in 1 .. Animated(layout) |-> part])

\* Units of the first segments, however many.
Before(i) == Sums(segments)[i]
Whole == Before(Len(segments))

AtStart == [index |-> 0, progress |-> 0, travelled |-> 0, pct |-> 0]

\* The view starts the laser before the path is first built.
WorkBedInit ==
    /\ segments = <<>>
    /\ bed = AtStart
    /\ raf = TRUE /\ running = TRUE
    /\ layer = {}
    /\ gap = {}
    /\ destroyed = FALSE

RebuildInPlace(layout) ==
    /\ ~destroyed
    /\ segments' = BuildSegments(layout)
    /\ bed' = [bed EXCEPT !.index = 0, !.progress = 0, !.pct = 0]
    /\ layer' = {}
    /\ gap' = {}
    /\ UNCHANGED <<raf, running, destroyed>>

\* A laser that has come to its end is not started again.
Rebuild(layout) ==
    /\ ~destroyed
    /\ segments' = BuildSegments(layout)
    /\ bed' = AtStart
    /\ layer' = {}
    /\ gap' = {}
    /\ UNCHANGED <<raf, running, destroyed>>

\* Sizing a canvas wipes it; the segments the laser has finished are painted again.
Resize ==
    /\ ~destroyed
    /\ layer' = 1 .. Before(bed.index)
    /\ gap' = Before(bed.index) + 1 .. Before(bed.index) + bed.progress
    /\ UNCHANGED <<segments, bed, raf, running, destroyed>>

Start ==
    /\ ~destroyed /\ ~running
    /\ ~raf
    /\ running' = TRUE /\ raf' = TRUE
    /\ UNCHANGED <<segments, bed, layer, gap, destroyed>>

Stop ==
    /\ ~destroyed /\ running
    /\ running' = FALSE /\ raf' = FALSE
    /\ bed' = AtStart
    /\ layer' = {}
    /\ gap' = {}
    /\ UNCHANGED <<segments, destroyed>>

\* A turn of the frame's loop: a segment is finished, or the laser stops inside of one.
Turn(at) ==
    IF at.left = 0 \/ at.index = Len(segments) THEN at
    ELSE LET remaining == segments[at.index + 1] - at.progress IN
         IF at.left >= remaining
         THEN [index |-> at.index + 1, progress |-> 0, left |-> at.left - remaining]
         ELSE [index |-> at.index, progress |-> at.progress + at.left, left |-> 0]

\* Segment, progress in it and what is left of the advance when the loop is left. Every turn
\* but the last finishes a segment.
Along(a) ==
    LET at[n \in 0 .. Len(segments)] ==
            IF n = 0 THEN [index |-> bed.index, progress |-> bed.progress, left |-> a] ELSE Turn(at[n - 1])
    IN  at[Len(segments)]

\* Math.round of the share travelled.
Percent(travelled) == IF Whole = 0 THEN 0 ELSE (200 * travelled + Whole) \div (2 * Whole)

Tick(a) ==
    /\ raf
    /\ LET to == Along(a)
           travelled == bed.travelled + (a - to.left)
           end == to.index = Len(segments) IN
       /\ bed' = [index |-> to.index, progress |-> to.progress, travelled |-> travelled,
                  pct |-> IF end THEN 100 ELSE Percent(travelled)]
       /\ layer' = layer \union
             (Before(bed.index) + bed.progress + 1 .. Before(to.index) + to.progress)
       /\ raf' = ~end
       /\ running' = (running /\ ~end)
    /\ UNCHANGED <<segments, gap, destroyed>>

Destroy ==
    /\ ~destroyed
    /\ destroyed' = TRUE
    /\ raf' = FALSE
    /\ UNCHANGED <<segments, bed, running, layer, gap>>

WorkBedNext ==
    \/ \E layout \in Layouts : Rebuild(layout)
    \/ \E a \in Strides : Tick(a)
    \/ Resize \/ Start \/ Stop \/ Destroy

WorkBedSpec == WorkBedInit /\ [][WorkBedNext]_workBedVars

-----------------------------------------------------------------------------
(* Properties *)

\* Whatever frames, resizes, rebuilds, stops and starts happened, the cut layer shows what
\* the laser has cut and nothing beyond it, the share shown is of that, and the button shows
\* that the laser runs exactly when a frame is to come. A wipe inside a segment loses the
\* part of that segment cut so far, and nothing else, until the next wipe.
CutLayerIsThePath ==
    /\ bed.travelled = Before(bed.index) + bed.progress
    /\ layer = (1 .. bed.travelled) \ gap
    /\ bed.pct = 100 => 200 * bed.travelled >= 199 * Whole
    /\ destroyed \/ running = raf
=============================================================================
