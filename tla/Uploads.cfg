\* Two handlers and any number of saves, with one fault; every drawing of two entities or
\* fewer, and every quote for the part it gives.
SPECIFICATION UploadsSpec
CONSTANTS
    e1 = e1
    e2 = e2
    c1 = c1
    Endpoints = {e1, e2}
    Credentials = {c1}
    Pairs = {c1}
    Environments <- MCEnvironments
    Objects = {o1}
    Requests = {r1, r2}
    MaxFaults = 1
    None = None
    Entities <- MCEntities
    MaxEntities = 2
    UnitCodes = {0, 1}
    Parts = {}
    Materials <- MCMaterials
    Machines <- MCMachines
    Rates <- MCRates
    Quantities = {1, 2, 7}
    BendCounts = {0, 3}
SYMMETRY Symmetry
INVARIANTS
    CacheIsCurrent
    ClientIsCurrent
    BucketIsThere
    CutLengthIsThePath
    PartsFitTheSheet
    NoSheetWasted
    PreviewIsTheQuote
PROPERTY
    NoUploadLost
CHECK_DEADLOCK FALSE
