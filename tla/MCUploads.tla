------------------------------ MODULE MCUploads ------------------------------
(***************************************************************************)
(* The server's side of a drawing, for TLC: where its file goes, what is   *)
(* read from it, and what the part that was found then costs. Storing and  *)
(* reading keep no state in common, so `side` picks the one that is        *)
(* checked and the other stays as it is.                                   *)
(***************************************************************************)
EXTENDS StoreConfig, Dxf, Estimate, TLC

CONSTANTS e1, e2, c1

VARIABLE side

uploadsVars == <<side, vars, dxfVars, estVars>>

\* One environment names nothing, one the endpoint and a user.
MCEnvironments ==
    {[endpoint |-> None, credential |-> None, user |-> FALSE, password |-> FALSE],
     [endpoint |-> e1, credential |-> None, user |-> TRUE, password |-> TRUE]}

V(x, y, b) == [x |-> x, y |-> y, bulge |-> b]
Segment(vs) == [type |-> "LINE", vertices |-> vs]
Arc(c, r, from, to) ==
    [type |-> "ARC", center |-> c, radius |-> r, startAngle |-> from, endAngle |-> to]
Circle(r) == [type |-> "CIRCLE", center |-> <<4, 4>>, radius |-> r]
Poly(closed, vs) == [type |-> "LWPOLYLINE", shape |-> closed, vertices |-> vs]

\* A line and a stray vertex; circles; arcs that wrap past angle 0 and arcs that do not; a rectangle, a
\* shape with a half turn out and a quarter turn back, a major arc, a closed path of two
\* vertices with and without an arc, one vertex; and what cannot be cut.
MCEntities ==
    { Segment(<<V(0, 0, 0), V(6, 0, 0)>>), Segment(<<V(3, 3, 0)>>), Circle(2), Circle(0),
      Arc(<<4, 0>>, 2, 6, 2), Arc(<<0, 4>>, 2, 0, 6),
      Poly(TRUE, <<V(0, 0, 0), V(4, 0, 0), V(4, 6, 0), V(0, 6, 0)>>),
      Poly(TRUE, <<V(0, 0, 0), V(4, 0, 4), V(4, 4, 0), V(0, 4, -2)>>),
      Poly(FALSE, <<V(2, 2, 6), V(6, 2, 0), V(8, 4, 2)>>),
      Poly(TRUE, <<V(0, 0, 0), V(0, 8, 0)>>), Poly(TRUE, <<V(0, 0, 0), V(0, 8, -4)>>),
      Poly(TRUE, <<V(0, 2, 0)>>), [type |-> "TEXT"] }

MCMaterials == [sheetW : {340}, sheetH : {240, 60}, multiplier : {125}]
MCMachines == [spacing : {0, 10}, margin : {0, 20}]
MCRates ==
    {[setupFee |-> 0, costPerLinearFoot |-> 18555, perSheetCost |-> 125, handlingFee |-> 49,
      costPerBend |-> 1250, minimumOrder |-> m] : m \in {0, 3000}}

MeasuredPart == [w |-> geometry.w, h |-> geometry.h, cut |-> geometry.cut]

UploadsInit ==
    /\ side \in {"storing", "reading"}
    /\ Init /\ (side # "storing" => env = CHOOSE e \in Environments : TRUE)
    /\ DxfInit /\ (side # "reading" => units = CHOOSE c \in UnitCodes : TRUE)
    /\ EstInit

UploadsNext ==
    /\ UNCHANGED side
    /\ \/ side = "storing" /\ Next /\ UNCHANGED <<dxfVars, estVars>>
       \/ side = "reading" /\ DxfNext /\ UNCHANGED <<vars, estVars>>
       \/ /\ side = "reading" /\ stage = "parsed" /\ job = NoJob
          /\ QuotePart(MeasuredPart)
          /\ UNCHANGED <<vars, dxfVars>>

UploadsSpec == UploadsInit /\ [][UploadsNext]_uploadsVars

Symmetry == Permutations(Requests)
=============================================================================
