SPECIFICATION ApiCreditsSpec
CONSTANTS
    adm = adm
    ver = ver
    out = out
    s1 = s1
    s2 = s2
    None = None
    NoRequest = NoRequest
    Accounts = {adm, ver, out}
    Contracts = {}
    Admins = {adm}
    Voters = {ver}
    BridgeContracts = {}
    RetirerContracts = {}
    Metadata <- TwoProjects
    Params <- MCParams
    MaxCredits = 2
    MaxQuorum = 2
    MAX_VERIFIERS = 2
    MAX_TONNES = 1000
    Slots = {s1, s2}
    ADMIN_KEY = adm
    VERIFIER_KEY = ver
    VERIFIER_THRESHOLD = 1
    VERIFIER_QUORUM = 1
    Thresholds <- MCThresholds
    Direct = {out}
    Requests <- MCRequests
INVARIANT RowDescribesCredit
