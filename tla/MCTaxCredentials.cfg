SPECIFICATION Spec
CONSTANTS
    Client = {cl1, cl2}
    Accountant = {ac1}
    Admin = {}
    System = {s1}
    Credential = {d1}
    Username = {u1, u2}
    Password = {p1, p2}
    Key = {k1, k2}
    Call = {c1, c2}
    EditLimit = 2
    NONE = NONE
SYMMETRY Symmetry
CONSTRAINT FewEdits
INVARIANTS
    TypeOK
    RevealsRecorded
    ShownWasStored
    OnlyEntitled
    LoginsHaveTheirSystem
