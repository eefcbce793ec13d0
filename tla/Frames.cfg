SPECIFICATION Spec
SYMMETRY MCSymmetry
CONSTANTS
    Funcs = {main, f, g}
    main = main
    f = f
    g = g
    EntryPoint = main
    Types <- MCTypes
    ArgTypes <- MCArgTypes
    Options <- MCOptions
    UTypes <- MCUTypes
    IC_SIZEOF_INT = 4
    IC_SIZEOF_CHAR = 1
    IC_SIZEOF_POINTER = 4
    IC_STACK_FRAME_HEADER_BYTES = 8
    STACK_HEADER_SIZE = 112
    STACK_LOCAL_BASE = 96
    STACK_ARGS_BASE = 92
    STACK_ALIGN = 8
    WORD_SIZE = 4
    MaxScopes = 6
    MaxRecords = 2
    MaxTogether = 2
    MaxInlined = 2
    MaxTemps = 2
    MaxStackArgs = 2
INVARIANTS
    TypeOK
    SlotsDisjoint
    FramesHold
    StorageSuffices
