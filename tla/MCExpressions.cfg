SPECIFICATION Spec
CONSTANTS
    LargestBits = 28
    Byte = 2
    MaxBits = 12
    AddressLength = 4
    ValueLength = 4
    EnumSize = 3
    Limb = 3
    Native = 4
    Half = 8
    Declarations <- MCDeclarations
    Boundary <- MCBoundary
INVARIANTS KeepsMeaning RevertsExactly FoldingAgrees
