SPECIFICATION FairSpec
CONSTANTS
    Radix = 3
    Type <- MCType
    Kind <- MCKind
    Elements <- MCElements
    FixedSize <- MCFixedSize
    ElementOffset <- MCElementOffset
    IsFixed <- MCIsFixed
    Source <- MCSource
    BufferBoundsError = BufferBoundsError
    Root <- MCRoot
    MaxDataOffset = 80
    MaxArraySize = 80
    MaxSize <- MCMaxSize
    Possible <- MCPossible
    Depth <- MCDepth
    MaxSerialisedSize <- MCMaxSerialisedSize
    MaxSizeFrom <- MCMaxSizeFrom
    Generated <- MCGenerated
    VariableSize <- MCVariableSize
    VariableSizeFrom <- MCVariableSizeFrom
    HasLongArray <- MCHasLongArray
    MaxMoves = 1
INVARIANTS ViewInv SectionsPartitionUnwritten CompleteWhenDone CompactWhenDone SizeErrorsJustified WithinGeneratorBound
PROPERTIES NoOverwrite StoresValue Terminates
