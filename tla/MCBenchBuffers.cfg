SPECIFICATION Spec
CONSTANTS
    Kinds <- MCKinds
    Capacities <- MCCapacities
    Samples = 3
    MaxMessage = 2
    Byte = {1, 2}
    Zero = 0
    Stale = Stale
INVARIANTS TypeOK SpanDefined SpanHoldsMessage KeptAsWritten CapacitySuffices
CHECK_DEADLOCK FALSE
