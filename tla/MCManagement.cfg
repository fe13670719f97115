SPECIFICATION Spec
CONSTANTS
    short = short
    long = long
    p = p
    b1 = b1
    b2 = b2
    Names <- MCNames
    Passes <- MCPasses
    MAX_USERS = 2
    Block <- MCBlock
    NameLen <- MCNameLen
    wb_size = 6
    recv_size = 5
    Mng = {m1}
    Socks = {s1}
    OutOfMemory = TRUE
    NULL = NULL
    Free = Free
    Nobody = Nobody
INVARIANTS
    TableSound
    LogNamesUser
    CommandsNeedLogin
    TruthfulAnswer
PROPERTIES
    RegistrySpec
    WaitsEnd
