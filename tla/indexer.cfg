SPECIFICATION IndexerSpec
CONSTANTS
    a = a
    b = b
    v = v
    None = None
    Users = {a, b, v}
    CreditIds = {1, 2, 3}
    OfferIds = {1}
    Serials = {"s1"}
    MaxAmount = 2
    PAGE_LIMIT = 4
    MAX_PAGES = 2
    Scripts <- MCScripts
    LedgerShapes <- MCShapes
    MaxLedger = 5
    MaxRestarts = 1
    Faults = TRUE
INVARIANTS NothingSkipped TakenOnceInOrder FilledCoversTrades MirrorsChain
PROPERTIES CatchesUp
