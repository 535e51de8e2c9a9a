SPECIFICATION FairSpec
CONSTANTS
    u1 = u1  p1 = p1  p2 = p2
    NoCustomer = NoCustomer  Idle = Idle
    Users <- OneUser
    Handlers = {h1, h2}
    Purchases <- OnePurchase
    Buyer <- BuyerOfOne
    Price = 3
    Grant = 3
    MaxErrors = 1
    MaxCrashes = 1
    MaxDuplicates = 1
INVARIANTS
    TypeOK
    CreditedOnce
    RefundsExact
PROPERTIES
    StatusForward
    ImplementsPurchases
    PaidIsCredited
    FullRefundIsDebited
