SPECIFICATION Spec
CONSTANTS
    c1 = c1
    c2 = c2
    Conn = {c1, c2}
    MaxFd = 4
    MaxAccepts = 2
    MaxAddrs = 1
    max_pool = 1
    ConnectResults = {"inprogress"}
    CopyArms = {{"r"}}
    OutOfMemory = FALSE
    BadVersion = FALSE
PROPERTIES
    ResolutionEnds
