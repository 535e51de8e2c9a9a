SPECIFICATION Spec
CONSTANTS
    u1 = u1  u2 = u2  q1 = q1  q2 = q2  w1 = w1  w2 = w2
    NoPrice = NoPrice  NoMeta = NoMeta  NoOne = NoOne  Idle = Idle
    Users <- OneUser
    Requests <- TwoRequests
    Sweepers <- OneSweeper
    Owner <- SameUser
    MaxCalls = 2
    Ceiling = 2
    Responses = {3, Unpriced}
    Unpriced = Unpriced
    Prices = {1}
    OpeningBalances = {2}
    MinBalance = 0
    BatchLimit = 1
    TopUps = {3}
    MaxFaults = 2
    MaxPriceChanges = 1
    MaxTopUps = 1
SYMMETRY RequestsAlike
INVARIANTS
    TypeOK
    LedgerMatchesBalance
    DebitedIffSettled
    ForgivenOnlyAfterFault
PROPERTIES
    ResolvedForGood
    ImplementsLedger
