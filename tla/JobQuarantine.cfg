SPECIFICATION Spec
CONSTANTS
    p1 = p1  p2 = p2  p3 = p3  ad1 = ad1  ad2 = ad2  own = own
    None = None  NoKey = NoKey  Null = Null
    Personas <- Two
    Ads <- AllAds
    KeyOf <- Keys
    TextOf <- TheTexts
    Similar <- Alike
    Fits <- Fitting
    Onboarded <- Two
    Enabled = {p1}
    Dated = {}
    Feeds <- OwnFeed
    FirstTimes <- NoTimes
    Frequency <- Frequencies
    Submissions <- Hand
    QuarantineTime = 1
    MaxTime = 1
    HalfDay = 1  Day = 1  Week = 2
    Lookback = 0
    MaxPolls = 2
    MaxDue = 2
    MaxFailures = 0
    MaxJobs = 1
    MaxEvaluated = 3
    PreviewTime = 0
    MaxRequests = 1
INVARIANTS
    QuarantineHolds
