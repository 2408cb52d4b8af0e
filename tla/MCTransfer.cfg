SPECIFICATION TransferSpec
CHECK_DEADLOCK FALSE
CONSTANTS
    Radix = 3
    Type <- MCType
    Kind <- MCKind
    Elements <- MCElements
    FixedSize <- MCFixedSize
    ElementOffset <- MCElementOffset
    IsFixed <- MCIsFixed
    Source <- MCSource
    BufferBoundsError = BufferBoundsError
    Root <- TransferRoot
    Bases <- MCBases
    MaxIndex = 2
    AddressSpace = 6561
    MaxDataOffset = 80
    MaxArraySize = 80
    MaxSize <- MCMaxSize
    Possible <- MCPossible
    Depth <- MCDepth
    MaxSerialisedSize <- MCMaxSerialisedSize
    MaxSizeFrom <- MCMaxSizeFrom
    Generated <- MCGenerated
    VariableSize <- MCVariableSize
    VariableSizeFrom <- MCVariableSizeFrom
    HasLongArray <- MCHasLongArray
    MaxMoves = 0
INVARIANTS ReadsAsWritten TruncationNoticed
