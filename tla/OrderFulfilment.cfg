\* Safety of the whole flow.
SPECIFICATION Spec
CONSTANTS
    q1 = q1
    q2 = q2
    d1 = d1
    Quotes = {q1, q2}
    Sessions = {s1, s2}
    Methods = {m1}
    Drawings = {d1}
    Requests = {r1, r2}
    Tariffs <- MCTariffs
    QuoteTotal <- MCQuoteTotal
    SheetCount <- MCSheetCount
    DrawingOf <- MCDrawingOf
    Outcomes = {"paid"}
    MaxFaults = 1
    None = None
SYMMETRY Symmetry
INVARIANTS
    OneOrderPerQuote
    OrderMatchesPayment
    OrderedHasOrder
    UnmarkedOnlyAfterFault
    OneHandlerPerEvent
    NoSilentDrop
    ConfirmationIsTrue
PROPERTIES
    OrderedIsFinal
    ImplementsPurchase
