SPECIFICATION Spec
CONSTANTS
    c1 = c1
    c2 = c2
    Conn = {c1, c2}
    MaxFd = 4
    MaxAccepts = 2
    MaxAddrs = 2
    max_pool = 1
    ConnectResults = {"inprogress", "fail"}
    CopyArms = {{"r"}, {"r", "w"}}
    OutOfMemory = FALSE
    BadVersion = FALSE
INVARIANTS
    TypeOK
    RefsExact
    RegisteredIsOpen
    NeverAborts
    NotForgotten
    ResolverKeepsStruct
    AuthBeforeRequest
    ExitReleasesAll
