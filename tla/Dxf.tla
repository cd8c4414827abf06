-------------------------------- MODULE Dxf ---------------------------------
(***************************************************************************)
(* DxfService.parseDxf: the entities of a drawing are read one by one,     *)
(* flattened into polylines, scaled to millimetres, and then measured. The *)
(* cut length and the box found here are what every quote is priced from.  *)
(*                                                                         *)
(* Geometry is taxicab: Math.hypot is |dx| + |dy|, a circle is a diamond,  *)
(* an angle is a number of eighths of a turn. Chords are then exactly as   *)
(* long as their arcs, so what remains to be seen is the bookkeeping:      *)
(* which points are pushed, dropped, closed, scaled and moved. A bulge is  *)
(* given as the included angle it encodes, with its sign.                  *)
(*                                                                         *)
(* Definitions no action refers to are mutated forms of their neighbours.  *)
(***************************************************************************)
EXTENDS Integers, Sequences, FiniteSetsExt, Summation

CONSTANTS
    Entities,    \* entities the parser may deliver
    UnitCodes,   \* values of $INSUNITS
    MaxEntities  \* bound: entities of a drawing

ASSUME DxfConstants == MaxEntities \in Nat

VARIABLES
    stage,     \* "reading", "rejected" (422) or "parsed"
    units,     \* $INSUNITS of the drawing
    read,      \* entities read so far
    polylines, \* what they were flattened to
    skipped,   \* types that cannot be cut, one entry for each entity
    geometry   \* the ParsedGeometry, once measured

dxfVars == <<stage, units, read, polylines, skipped, geometry>>

Supported == {"LINE", "ARC", "CIRCLE", "LWPOLYLINE", "POLYLINE"}

\* Tenths of a millimetre for each drawing unit; an unknown code counts as millimetres.
UnitScale(code) ==
    CASE code = 1 -> 254
      [] code = 2 -> 3048
      [] code = 5 -> 100
      [] code = 6 -> 10000
      [] OTHER -> 10

-----------------------------------------------------------------------------
(* geometry.ts *)

Abs(n)     == IF n < 0 THEN -n ELSE n
Span(p, q) == Abs(p[1] - q[1]) + Abs(p[2] - q[2])

MaxSegments == 512
MaxStep     == 1

\* Segments of an arc: at least two, never more than the cap.
SegmentsForArc(radius, sweep) ==
    IF radius <= 0 \/ sweep = 0 THEN 1
    ELSE Max({2, Min({MaxSegments, Abs(sweep) \div MaxStep})})

Cosine(e) == <<2, 1, 0, -1, -2, -1, 0, 1>>[(e % 8) + 1]

\* The point of the circle at angle e.
PointAt(c, radius, e) ==
    <<c[1] + (radius * Cosine(e)) \div 2, c[2] + (radius * Cosine(e - 2)) \div 2>>

ArcPoints(c, radius, start, sweep) ==
    LET count == SegmentsForArc(radius, sweep)
    IN  [i \in 1..(count + 1) |-> PointAt(c, radius, start + (sweep * (i - 1)) \div count)]

Centre(from, to, bulge) ==
    LET included == Abs(bulge)
        sign     == IF bulge > 0 THEN 1 ELSE -1
        side     == IF included > 4 THEN -sign ELSE sign
        offset   == IF included = 4 THEN 0 ELSE side
    IN  <<(from[1] + to[1] - offset * (to[2] - from[2])) \div 2,
          (from[2] + to[2] + offset * (to[1] - from[1])) \div 2>>

\* The points after `from` on the way to `to`.
BulgeArcPoints(from, to, bulge) ==
    IF bulge = 0 \/ from = to THEN <<to>>
    ELSE LET c      == Centre(from, to, bulge)
             radius == Span(from, c)
             start  == CHOOSE e \in 0..7 : PointAt(c, radius, e) = from
         IN  Tail(ArcPoints(c, radius, start, bulge))

Steps(points) == [i \in 1..(Len(points) - 1) |-> Span(points[i], points[i + 1])]

LengthOpen(points, closed) == SumOf(Steps(points))

LengthAlwaysClosed(points, closed) ==
    LengthOpen(points, closed) + (IF closed THEN Span(points[Len(points)], points[1]) ELSE 0)

PolylineLength(points, closed) ==
    LengthOpen(points, closed)
      + (IF closed /\ Len(points) > 2 THEN Span(points[Len(points)], points[1]) ELSE 0)

BoundingBox(lines) ==
    LET points == UNION {{line.points[i] : i \in DOMAIN line.points} : line \in lines}
        xs == {p[1] : p \in points}
        ys == {p[2] : p \in points}
    IN  [minX |-> Min(xs), minY |-> Min(ys), maxX |-> Max(xs), maxY |-> Max(ys)]

-----------------------------------------------------------------------------
(* dxf.service.ts: flattening *)

NoLine == [closed |-> FALSE, points |-> <<>>]

At2D(v) == <<v.x, v.y>>

FlattenLine(e) ==
    IF Len(e.vertices) < 2 THEN NoLine
    ELSE [closed |-> FALSE, points |-> <<At2D(e.vertices[1]), At2D(e.vertices[2])>>]

FlattenCircle(e) ==
    IF e.radius <= 0 THEN NoLine
    ELSE LET around == ArcPoints(e.center, e.radius, 0, 8)
         IN  [closed |-> TRUE, points |-> SubSeq(around, 1, Len(around) - 1)]

\* A full or negative sweep means the arc wraps past angle 0.
Sweep(e) ==
    LET sweep == e.endAngle - e.startAngle
    IN  IF sweep > 0 THEN sweep ELSE 8 - ((-sweep) % 8)

FlattenArc(e) ==
    IF e.radius <= 0 THEN NoLine
    ELSE [closed |-> FALSE, points |-> ArcPoints(e.center, e.radius, e.startAngle, Sweep(e))]

\* The points up to each vertex: the vertices with the arcs between them.
Paths(v) ==
    LET path[i \in 1..Len(v)] ==
            IF i = 1 THEN <<At2D(v[1])>>
            ELSE path[i - 1] \o BulgeArcPoints(At2D(v[i - 1]), At2D(v[i]), v[i - 1].bulge)
    IN  path

\* All of them, and the closing arc without the first point again.
FlattenPolyline(e) ==
    LET v == e.vertices
        n == Len(v)
        back == BulgeArcPoints(At2D(v[n]), At2D(v[1]), v[n].bulge)
    IN  IF n < 2 THEN NoLine
        ELSE [closed |-> e.shape,
              points |-> IF e.shape /\ v[n].bulge # 0
                         THEN Paths(v)[n] \o SubSeq(back, 1, Len(back) - 1)
                         ELSE Paths(v)[n]]

FlattenEntity(e) ==
    CASE e.type = "LINE"   -> FlattenLine(e)
      [] e.type = "CIRCLE" -> FlattenCircle(e)
      [] e.type = "ARC"    -> FlattenArc(e)
      [] e.type \in {"LWPOLYLINE", "POLYLINE"} -> FlattenPolyline(e)

\* What the parser delivers, drawn on the grid of this geometry: whole coordinates, even radii,
\* and a bulge that is one, two or three quarters of a circle that goes through both points.
Vertex == [x : Int, y : Int, bulge : Int]

OnGrid(from, to, bulge) ==
    \/ bulge = 0 \/ from = to
    \/ /\ Abs(bulge) \in {2, 4, 6}
       /\ \E e \in 0..7, half \in 1..Span(from, to) :
              to = PointAt(<<from[1] - half * Cosine(e), from[2] - half * Cosine(e - 2)>>,
                           2 * half, e + bulge)

HasCentre(e) == e.center \in Int \X Int /\ e.radius \in Int /\ e.radius % 2 = 0

Deliverable(e) ==
    /\ e.type \in {"LINE", "LWPOLYLINE", "POLYLINE"} => e.vertices \in Seq(Vertex)
    /\ e.type \in {"CIRCLE", "ARC"} => HasCentre(e)
    /\ e.type = "ARC" => e.startAngle \in 0..8 /\ e.endAngle \in 0..8
    /\ e.type \in {"LWPOLYLINE", "POLYLINE"} =>
          /\ e.shape \in BOOLEAN
          /\ \A i, j \in 1..Len(e.vertices) :
                j = i + 1 \/ (e.shape /\ i = Len(e.vertices) /\ j = 1) =>
                    OnGrid(At2D(e.vertices[i]), At2D(e.vertices[j]), e.vertices[i].bulge)

ASSUME DxfEntities == \A e \in Entities : Deliverable(e)

OnPoints(f(_), line) ==
    [line EXCEPT !.points = [i \in DOMAIN line.points |-> f(line.points[i])]]

ScalePolyline(line, scale) == OnPoints(LAMBDA p : <<p[1] * scale, p[2] * scale>>, line)

-----------------------------------------------------------------------------
(* dxf.service.ts: parseDxf *)

Unparsed == [cut |-> 0, w |-> 0, h |-> 0, lines |-> <<>>]

DxfInit ==
    /\ stage = "reading"
    /\ units \in UnitCodes
    /\ read = <<>>
    /\ polylines = <<>>
    /\ skipped = <<>>
    /\ geometry = Unparsed

\* One turn of the loop over dxf.entities.
ReadEntity(e) ==
    /\ stage = "reading"
    /\ Len(read) < MaxEntities
    /\ read' = Append(read, e)
    /\ IF e.type \notin Supported
       THEN skipped' = Append(skipped, e.type) /\ UNCHANGED polylines
       ELSE /\ UNCHANGED skipped
            /\ LET flattened == FlattenEntity(e)
               IN  polylines' = IF Len(flattened.points) < 2 THEN polylines
                                ELSE Append(polylines,
                                            ScalePolyline(flattened, UnitScale(units)))
    /\ UNCHANGED <<stage, units, geometry>>

CutLength(lines) ==
    SumOf([i \in DOMAIN lines |-> PolylineLength(lines[i].points, lines[i].closed)])

MovedToOrigin(line, box) == OnPoints(LAMBDA p : <<p[1] - box.minX, p[2] - box.minY>>, line)

\* What the loop left is moved to the origin and measured.
Measured(lines, box) ==
    LET normalized == [i \in DOMAIN lines |-> MovedToOrigin(lines[i], box)]
    IN  [cut   |-> CutLength(normalized),
         w     |-> box.maxX - box.minX,
         h     |-> box.maxY - box.minY,
         lines |-> normalized]

BoxOf(lines) == BoundingBox({lines[i] : i \in DOMAIN lines})

HasArea(box) == box.maxX > box.minX /\ box.maxY > box.minY

Cuttable == polylines # <<>> /\ HasArea(BoxOf(polylines))

FinishParse ==
    /\ stage = "reading"
    /\ Cuttable
    /\ stage' = "parsed"
    /\ geometry' = Measured(polylines, BoxOf(polylines))
    /\ UNCHANGED <<units, read, polylines, skipped>>

\* No entity, none that can be cut, or all on one line: 422.
RejectDrawing ==
    /\ stage = "reading"
    /\ ~ Cuttable
    /\ stage' = "rejected"
    /\ UNCHANGED <<units, read, polylines, skipped, geometry>>

DxfNext ==
    \/ \E e \in Entities : ReadEntity(e)
    \/ FinishParse
    \/ RejectDrawing

DxfSpec == DxfInit /\ [][DxfNext]_dxfVars

-----------------------------------------------------------------------------
(* Properties *)

\* The length of the path an entity describes, taken from the entity itself: an arc is its
\* radius times its angle, a closed path returns to its start.
ArcLength(from, to, bulge) ==
    IF bulge = 0 \/ from = to THEN Span(from, to)
    ELSE IF Abs(bulge) = 4 THEN 4 * (Span(from, to) \div 2)
    ELSE Abs(bulge) * Max({Abs(from[1] - to[1]), Abs(from[2] - to[2])})

\* A closed path of two vertices and no arc is cut once, not there and back.
Returns(e) == e.shape /\ ~ (Len(e.vertices) = 2 /\ \A i \in 1..2 : e.vertices[i].bulge = 0)

LegLength(v, i, j) == ArcLength(At2D(v[i]), At2D(v[j]), v[i].bulge)

PathLength(e) ==
    CASE e.type = "LINE" /\ Len(e.vertices) >= 2 ->
             Span(At2D(e.vertices[1]), At2D(e.vertices[2]))
      [] e.type = "CIRCLE" /\ e.radius > 0 -> 8 * e.radius
      [] e.type = "ARC" /\ e.radius > 0 ->
             e.radius * (CHOOSE s \in 1..8 : (e.startAngle + s - e.endAngle) % 8 = 0)
      [] e.type \in {"LWPOLYLINE", "POLYLINE"} /\ Len(e.vertices) >= 2 ->
             LET n == Len(e.vertices)
             IN  SumOf([i \in 1..(n - 1) |-> LegLength(e.vertices, i, i + 1)])
                   + (IF Returns(e) THEN LegLength(e.vertices, n, 1) ELSE 0)
      [] OTHER -> 0

\* The cut length a quote is priced from is the length of the paths of the supported entities
\* in the drawing's unit, whatever their order and place: flattening an arc, closing a path,
\* scaling, and moving the part to the origin lose nothing and count nothing twice.
CutLengthIsThePath ==
    stage = "parsed" =>
        geometry.cut = UnitScale(units) * SumOf([i \in DOMAIN read |-> PathLength(read[i])])
=============================================================================
