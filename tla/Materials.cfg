CONSTANTS
    tab1 = tab1
    tab2 = tab2
    b1 = b1
    j1 = j1
    v1 = v1
    v2 = v2
    l1 = l1
    t1 = t1
    t2 = t2
    None = None
    Tabs <- MCTabs
    Bases = {b1}
    Jobs = {j1}
    Variants <- MCVariants
    Letters = {l1}
    Texts <- MCTexts
    MaxRequests = 6

SPECIFICATION Spec
SYMMETRY Symmetric
CHECK_DEADLOCK FALSE
INVARIANT TypeOK
INVARIANT ApprovedIsDated
INVARIANT ApprovedIsFrozen
INVARIANT OneInUse
INVARIANT SentIsKept
PROPERTY RestoredAsBefore
