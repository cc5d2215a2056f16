CONSTANTS
    k1 = k1
    a1 = a1
    d1 = d1
    NONE = NONE
    Client = {k1}
    Accountant = {a1}
    Admin = {d1}
    Request = {r1}
    File = {f1}
    Call = {c1, c2}
SPECIFICATION Spec
INVARIANTS
    TypeOK
    AnsweredUploadsStay
    ReadersWereEntitled
