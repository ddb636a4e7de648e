SPECIFICATION ApiTradesSpec
CONSTANTS
    adm = adm
    ver = ver
    u = u
    m = m
    t = t
    b = b
    leaf1 = leaf1
    leaf2 = leaf2
    s1 = s1
    s2 = s2
    None = None
    NoRequest = NoRequest
    Accounts = {adm, ver, u}
    Contracts = {m, t, b}
    Admins = {adm}
    Voters = {ver}
    BridgeContracts = {b}
    RetirerContracts = {t, b}
    MARKET = m
    TRACKER = t
    BRIDGE = b
    Recipients = {u}
    Metadata <- MCMetadata
    Params <- MCParams
    MaxCredits = 2
    MaxQuorum = 1
    MAX_VERIFIERS = 2
    MAX_TONNES = 1000
    Prices = {1}
    Amounts = {1}
    Expiries = {None, 1000}
    MaxOffers = 2
    MaxTime = 1
    Funds = 1
    Beneficiaries = {"acme"}
    RetireInputs <- MCRetireInputs
    MaxBatch = 1
    MAX_BATCH_RETIRE = 1
    Registries = {"verra"}
    Serials = {"n1"}
    Roots <- MCRoots
    Proofs <- MCProofs
    Slots = {s1, s2}
    Keys = {adm, u}
    Requests <- MCRequests
    Direct = {u}
    MaxRestarts = 1
INVARIANTS RetirementRowsTrue CertificatesTrue BridgeRowsTrue OfferRowsTrue
SYMMETRY SlotSymmetry
