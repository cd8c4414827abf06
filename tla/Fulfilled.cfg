\* Liveness, with delayed payments: one quote, one session, two faults.
SPECIFICATION FairSpec
CONSTANTS
    q1 = q1
    q2 = q2
    d1 = d1
    Quotes = {q1}
    Sessions = {s1}
    Methods = {m1}
    Drawings = {d1}
    Requests = {r1, r2}
    Tariffs <- MCOneTariff
    QuoteTotal <- MCQuoteTotal
    SheetCount <- MCSheetCount
    DrawingOf <- MCDrawingOf
    Outcomes = {"paid", "unpaid"}
    MaxFaults = 2
    None = None
PROPERTIES
    PaidIsFulfilled
    EveryEventAcknowledged
