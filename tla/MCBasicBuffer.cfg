SPECIFICATION Spec
CONSTANTS
    a1 = a1
    a2 = a2
    a3 = a3
    b1 = b1
    b2 = b2
    Buffer = {b1, b2}
    Address = {a1, a2, a3}
    Null = Null
    Byte = {1}
    Zero = 0
    Garbage = 9
    Capacities <- MCCapacities
    Requests <- MCRequests
    MaxUsed = 3
SYMMETRY Symmetry
INVARIANTS TypeOK Ownership Extent ViewUsable
PROPERTY ImplementsSerialiseBuffer
CHECK_DEADLOCK TRUE
