SPECIFICATION Spec
CHECK_DEADLOCK FALSE
CONSTANTS
    Radix = 4
    Type <- MCType
    Kind <- MCKind
    Elements <- MCElements
    FixedSize <- MCFixedSize
    ElementOffset <- MCElementOffset
    IsFixed <- MCIsFixed
    Depth <- MCDepth
    Bases <- MCBases
    Source = {}
    Buffer <- MCBuffer
    MaxIndex = 2
    AddressSpace <- MCAddressSpace
    ReadTypes = {"var"}
INVARIANT AssertionsHold
