SPECIFICATION Spec
CONSTANTS
    Programs <- MCPrograms
    MainBody <- MCMainBody
    DeclOf <- MCDeclOf
    ArgsOf <- MCArgsOf
    BodyOf <- MCBodyOf
    Globals <- MCGlobals
    AddressOf <- MCAddressOf
    OffsetOf <- MCOffsetOf
    UTypes <- MCUTypes
    IC_SIZEOF_INT = 4
    IC_SIZEOF_CHAR = 1
    IC_SIZEOF_POINTER = 4
    FrameStride = 1000
    REG_ARGS = 2
    MaxSteps = 250
    Undef = Undef
INVARIANTS
    TypeOK
    MeansSource
    JumpsResolve
    Encodable
    HistoryUsesLoaded
    TypesAgree
