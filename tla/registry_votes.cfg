SPECIFICATION SettledSpec
CONSTANTS
    a = a
    v1 = v1
    v2 = v2
    v3 = v3
    gate = gate
    None = None
    Accounts = {a, v1, v2, v3}
    Contracts = {gate}
    BridgeContracts = {gate}
    RetirerContracts = {gate}
    Admins = {a}
    Voters = {v1, v2, v3}
    Metadata <- MCMetadata
    Params <- MCParams
    MaxCredits = 1
    MaxQuorum = 3
    MAX_VERIFIERS = 2
    MAX_TONNES = 1000
SYMMETRY VoterSymmetry
INVARIANTS OneVotePerVerifier SettledVerdicts
PROPERTIES MintNeedsApprovers ImplementsLedger
