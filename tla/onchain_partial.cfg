SPECIFICATION OnChainSpec
CONSTANTS
    a = a
    u = u
    MARKET = MARKET
    TRACKER = TRACKER
    BRIDGE = BRIDGE
    leaf1 = leaf1
    leaf2 = leaf2
    leaf3 = leaf3
    None = None
    Accounts = {a, u}
    Contracts = {MARKET, TRACKER, BRIDGE}
    Admins = {a}
    Voters = {a}
    BridgeContracts = {BRIDGE}
    RetirerContracts = {TRACKER, BRIDGE}
    Recipients = {a, u}
    Metadata <- MCMetadata
    Params <- MCParams
    MaxCredits = 1
    MaxQuorum = 1
    MAX_VERIFIERS = 1
    MAX_TONNES = 1000
    Prices = {700}
    Amounts = {0, 1, 2}
    Expiries = {None, 1}
    MaxOffers = 2
    MaxTime = 2
    Funds = 2
    Beneficiaries = {"p"}
    RetireInputs <- MCRetireInputs
    MaxBatch = 0
    MAX_BATCH_RETIRE = 2
    Registries = {}
    Serials = {"s1", "s2"}
    Roots <- MCRoots
    Proofs <- MCProofs
 
PROPERTIES EscrowExitIsSaleOrReturn
