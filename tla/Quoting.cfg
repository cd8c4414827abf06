\* Quotes and bend edits of two drawings, with one fault.
SPECIFICATION Spec
CONSTANTS
    Drawings = {d1, d2}
    Bends = {b1, b2}
    Quotes = {q1}
    Materials = {m1}
    Prices = {p1, p2}
    Requests = {r1, r2}
    MaxFaults = 1
    None = None
SYMMETRY Symmetry
INVARIANTS
    StaleDraftHasCause
PROPERTY
    FrozenOnceQuoted
