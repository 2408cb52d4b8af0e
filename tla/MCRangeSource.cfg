SPECIFICATION Spec
SYMMETRY MCSymmetry
CONSTANTS
    s1 = s1
    s2 = s2
    vector = vector
    deque = deque
    x1 = x1
    x2 = x2
    x3 = x3
    x4 = x4
    b1 = b1
    b2 = b2
    Source = {s1, s2}
    Container = {vector, deque}
    Store = {x1, x2, x3, x4}
    Block = {b1, b2}
    Large = {deque}
    InlineSize = 1
    MaxSize = 2
INVARIANTS OneOwner VisitorKnowsType
PROPERTY ImplementsElementSource
