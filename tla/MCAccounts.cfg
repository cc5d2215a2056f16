SPECIFICATION Spec
CONSTANTS
    User = {ann}
    Text = {x1, x2}
    Call = {c1, c2}
    AccessTTL = 1
    RefreshTTL = 2
    CallLimit = 1
    LastTime = 2
    PairLimit = 2
    NONE = NONE
SYMMETRY Symmetry
CONSTRAINT FewPairs
INVARIANTS
    TypeOK
    AcceptedWereActive
    LoginsUseAHeldPassword
