SPECIFICATION ServicesSpec
CONSTANTS
    u1 = u1
    u2 = u2
    v1 = v1
    v2 = v2
    k1 = k1
    k2 = k2
    h1 = h1
    h2 = h2
    e1 = e1
    e2 = e2
    x1 = x1
    x2 = x2
    a1 = a1
    a2 = a2
    q1 = q1
    q2 = q2
    c1 = c1
    c2 = c2
    NoRecord = NoRecord
    NoSplit = NoSplit
    NoHook = NoHook
    NoEmit = NoEmit
    NoRow = NoRow
    NoBucket = NoBucket
    Stakers = {v1, v2}
    StakeAdmins = {u1, u2}
    StakeAmounts = {0, 1, 2}
    Wealth = 3
    MaxClock = 3
    MIN_STAKE_AMOUNT = 2
    COOLDOWN_PERIOD_SECONDS = 2
    Payers = {u1, u2}
    SplitAdmins = {u1}
    FEE_ADDRESS = u1
    Projects = {"p"}
    Shares = {35536, 40000}
    Payments <- MCPayments
    MaxBeneficiaries = 3
    SplitFunds = 600
    WHOLE = 10000
    PROTOCOL_FEE_BPS = 50
    U32 = 65536
    Hooks = {h1, h2}
    HookUsers = {u1}
    EventTypes = {"credit.retired"}
    Emitters = {e1, e2}
    MAX_ATTEMPTS = 2
    MaxEmits = 2
    Wallets = {u1, u2}
    ChallengeIds = {1, 2}
    UserIds = {1, 2}
    Exchanges = {x1, x2}
    TIMEOUT = 1
    LIFETIME = 1
    MaxAuthTime = 2
    Clients = {k1, k2}
    CAPACITY = 2
    REFILL_INTERVAL = 2
    MaxRateTime = 6
    Keys = {a1}
    NoKey = NoKey
    Blank = Blank
    Idle = Idle
    Queries = {q1, q2}
    NoAnswer = NoAnswer
    NoPage = NoPage
    MaxAsks = 2
    Owned = {c1, c2}
    NoCredit = NoCredit
    Fields = {"threshold", "bps"}
    FieldValues = {1, 2}
    DefaultValue = 1
    MaxOthers = 1
    NoPayload = NoPayload
    ListStatuses = {"ACTIVE", "OTHER"}
    MaxRows = 3
    PageSize = 2
    NoFilter = NoFilter
    NoWalk = NoWalk
    Accounts = {u1}
    Codes = {"VCS", "GS"}
    Moments = {7, 8, 11, 12}
    YEAR = 4
    Tonnes = {1, 2}
    MaxBooked = 2
    NoRequest = NoRequest
INVARIANT SharesSumToWhole
CHECK_DEADLOCK FALSE
