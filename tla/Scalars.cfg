SPECIFICATION Spec
CONSTANTS
    Radix = 4
    IntegerWidths = {1, 2, 4}
    FloatWidths = {4}
INVARIANTS ImageIsLittleEndian RoundTrip AnyBytesAreAValue
\* A value has been deserialised when the machine stops.
CHECK_DEADLOCK FALSE
