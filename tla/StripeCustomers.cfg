SPECIFICATION Spec
CONSTANTS
    u1 = u1  p1 = p1  p2 = p2
    NoCustomer = NoCustomer  Idle = Idle
    Users <- OneUser
    Handlers = {h1, h2}
    Purchases <- TwoPurchases
    Buyer <- OneBuyer
    Price = 1
    Grant = 3
    MaxErrors = 0
    MaxCrashes = 0
    MaxDuplicates = 0
INVARIANT
    OneCustomer
