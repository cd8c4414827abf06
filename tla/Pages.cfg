\* The pages of the front end, one open at a time; each property names the crossings it
\* excepts, and InHand stops where a crossing has happened.
SPECIFICATION PagesSpec
CONSTANTS
    None = None
    q1 = q1
    q2 = q2
    m1 = m1
    m2 = m2
    Drawings = {d1, d2}
    BendIds = {b1, b2}
    Places = {p1, p2}
    Calls = {c1, c2}
    Spaces = {quotes, login}
    MaxFaults = 1
    Layouts <- MCLayouts
    Strides = {0, 1, 3, 8}
    MaxAnimated = 2
    Payables = {q1, q2}
    Methods = {m1, m2}
    Rates <- MCRates
    Shops <- MCShops
    Worth <- MCWorth
    SheetsOf <- MCSheets
    Delays = 1
    MaxLeft = 1
    MaxChanges = 1
    MaxAnswers = 2
    MaxPayments = 1
    MaxTurns = 2
    Values = {v0, v1, v2}
    Invalid = {v2}
    Refused = {v2}
    Defaults = v0
    Slots = {s1, s2}
    MaxMoves = 1
    MaxOpened = 2
    Tables <- MCTables
    Worths = {1, 2}
    PageSize = 2
    MaxRows = 5
    MaxAsked = 2
    MaxPages = 3
    i1 = i1
    n0 = n0
    n1 = n1
    Stocks <- MCStocks
    Items = {i1, i2}
    Names = {n0, n1}
    BlankName = n0
    Jobs = {j1, j2}
    MaxLosses = 1
CONSTRAINT InHand
INVARIANTS
    ScreenIsSaved
    QuoteMatchesScreen
    CutLayerIsThePath
    ShownIsCharged
    OneChain
    GuardsHold
    FormsAreHonest
    WalkSeesEveryRow
    EditsAreKept
CHECK_DEADLOCK FALSE
