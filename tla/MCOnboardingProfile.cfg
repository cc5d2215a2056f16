CONSTANTS
    e1 = e1
    e2 = e2
    r1 = r1
    r2 = r2
    c1 = c1
    c2 = c2
    NONE = NONE
    Email = {e1, e2}
    Request = {r1, r2}
    Call = {c1, c2}
SPECIFICATION Spec
SYMMETRY Symmetry
PROPERTIES
    StoredProfileKept
