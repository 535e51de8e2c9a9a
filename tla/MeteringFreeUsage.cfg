SPECIFICATION Spec
CONSTANTS
    u1 = u1  u2 = u2  q1 = q1  q2 = q2  w1 = w1  w2 = w2
    NoPrice = NoPrice  NoMeta = NoMeta  NoOne = NoOne  Idle = Idle
    Unpriced = Unpriced
    Users <- OneUser
    Requests <- TwoRequests
    Sweepers <- OneSweeper
    Owner <- SameUser
    MaxCalls = 1
    Ceiling = 2
    Responses = {2}
    Prices = {1}
    OpeningBalances = {2}
    MinBalance = 0
    BatchLimit = 2
    TopUps = {3}
    MaxFaults = 0
    MaxPriceChanges = 0
    MaxTopUps = 0
INVARIANT
    FreeOnlyIfBothFail
