SPECIFICATION Spec
CONSTANTS
    c1 = c1
    c2 = c2
    Conn = {c1}
    MaxFd = 2
    MaxAccepts = 1
    MaxAddrs = 2
    max_pool = 1
    ConnectResults = {"inprogress", "fail"}
    CopyArms = {{"r"}, {"r", "w"}}
    OutOfMemory = FALSE
    BadVersion = FALSE
PROPERTIES
    CompletedIsAnswered
