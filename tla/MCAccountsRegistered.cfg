SPECIFICATION Spec
CONSTANTS
    User = {ann}
    Text = {x1}
    Call = {c1}
    AccessTTL = 2
    RefreshTTL = 3
    CallLimit = 1
    LastTime = 3
    PairLimit = 2
    NONE = NONE
SYMMETRY Symmetry
CONSTRAINT FewPairs
INVARIANTS
    RegisteredCanLogIn
