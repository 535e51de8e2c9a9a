SPECIFICATION FairSpec
CONSTANTS
    b1 = b1  b2 = b2  ann = ann  bob = bob  google = google  linkedin = linkedin  l1 = l1  l2 = l2
    None = None  Gone = Gone
    Browsers <- TwoBrowsers
    Emails <- People
    Accounts <- Providers
    Links <- TwoLinks
    EmailsOf <- Reported
    Vouched <- Trusted
    AdminEmails <- Admins
    Second = 2
    LinkTime = 0
    SessionTime = 1
    MaxTime = 3
    MaxRequests = 3
    MaxFaults = 1
CHECK_DEADLOCK FALSE
INVARIANTS
    TypeOK
    NothingWithoutUser
    VerifiedByProof
    LinkSignsInOnce
    CallerStaysSignedIn
PROPERTIES
    LinkedForGood
    NewUserIsGranted
