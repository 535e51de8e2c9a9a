SPECIFICATION Spec
CONSTANTS
    ann = ann  bob = bob  claude = claude  gemini = gemini  haiku = haiku  sonnet = sonnet  flash = flash
    chat = chat  dflt = dflt  c1 = c1
    None = None
    Users <- Two
    Protected = {}
    FirstAdmins <- Two
    Providers <- Both
    Keyed = {claude}
    Models <- Three
    ProviderOf <- Offered
    Inner = haiku
    Tasks <- TheTasks
    Default = dflt
    FirstRoutes <- OneProvider
    Callers = {c1}
    MaxDay = 1
    MaxRequests = 3
CHECK_DEADLOCK FALSE
INVARIANTS
    TypeOK
    RoutesAreRegistered
    SomeAdmin
    HeldIsCharged
PROPERTIES
    StaysPriced
