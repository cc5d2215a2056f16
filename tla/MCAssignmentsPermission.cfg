CONSTANTS
    r1 = r1
    r2 = r2
    u1 = u1
    u2 = u2
    a1 = a1
    a2 = a2
    c1 = c1
    c2 = c2
    NULL = NULL
    Request = {r1, r2}
    Assignee = {u1, u2}
    Assignment = {a1, a2}
    Handler = {c1, c2}
SPECIFICATION AssignmentsSpec
SYMMETRY Symmetry
PROPERTIES
    OnlyAssigneeWrites
