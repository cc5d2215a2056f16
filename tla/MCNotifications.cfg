CONSTANTS
    u1 = u1
    u2 = u2
    c1 = c1
    NONE = NONE
    User = {u1, u2}
    Call = {c1}
    Place = {1, 2}
    Recipients <- ToNoneOneOrBoth
    ChannelLists <- CallersLists
    Configured = {"email"}
    Contact <- OnePhone
SPECIFICATION FairSpec
INVARIANTS
    TypeOK
    LedgerTruthful
    PendingHasItsCall
    SuccessMeansServed
PROPERTIES
    LedgerKept
    CallsReturn
