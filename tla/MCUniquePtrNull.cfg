SPECIFICATION Spec
SYMMETRY MCSymmetry
CONSTANTS
    p1 = p1
    p2 = p2
    p3 = p3
    o1 = o1
    o2 = o2
    o3 = o3
    o4 = o4
    Pointer = {p1, p2, p3}
    Object = {o1, o2, o3, o4}
    Null = Null
    Absent = Absent
    NullsOwners = TRUE
INVARIANTS NeverDeletedTwice
