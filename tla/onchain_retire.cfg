SPECIFICATION OnChainSpec
CONSTANTS
    a = a
    u = u
    MARKET = MARKET
    TRACKER = TRACKER
    BRIDGE = BRIDGE
    leaf1 = leaf1
    leaf2 = leaf2
    leaf3 = leaf3
    None = None
    Accounts = {a, u}
    Contracts = {MARKET, TRACKER, BRIDGE}
    Admins = {a}
    Voters = {a}
    BridgeContracts = {BRIDGE}
    RetirerContracts = {TRACKER, BRIDGE}
    Recipients = {u}
    Metadata <- MCMetadata
    Params <- MCParams
    MaxCredits = 2
    MaxQuorum = 1
    MAX_VERIFIERS = 1
    MAX_TONNES = 1000
    Prices = {700}
    Amounts = {1}
    Expiries = {None}
    MaxOffers = 1
    MaxTime = 0
    Funds = 1
    Beneficiaries = {"p", "q"}
    RetireInputs <- MCRetireInputs
    MaxBatch = 2
    MAX_BATCH_RETIRE = 2
    Registries = {"VERRA"}
    Serials = {"s1", "s2"}
    Roots <- MCRoots
    Proofs <- MCProofs
INVARIANTS RegistryTypeOK  OneCreditPerSerial  OwnerFindsCredit
PROPERTIES RetirementPermanent
