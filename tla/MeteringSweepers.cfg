SPECIFICATION FairSpec
CONSTANTS
    u1 = u1  u2 = u2  q1 = q1  q2 = q2  w1 = w1  w2 = w2
    NoPrice = NoPrice  NoMeta = NoMeta  NoOne = NoOne  Idle = Idle
    Users <- TwoUsers
    Requests <- TwoRequests
    Sweepers <- TwoSweepers
    Owner <- OwnUser
    MaxCalls = 2
    Ceiling = 2
    Responses = {1, Unpriced}
    Unpriced = Unpriced
    Prices = {0}
    OpeningBalances = {2}
    MinBalance = 0
    BatchLimit = 2
    TopUps = {1}
    MaxFaults = 0
    MaxPriceChanges = 0
    MaxTopUps = 0
INVARIANTS
    HeldMatchesReservations
PROPERTIES
    HoldsResolve
