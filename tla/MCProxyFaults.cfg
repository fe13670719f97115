SPECIFICATION Spec
CONSTANTS
    c1 = c1
    c2 = c2
    Conn = {c1, c2}
    MaxFd = 3
    MaxAccepts = 2
    MaxAddrs = 3
    max_pool = 1
    ConnectResults = {"inprogress", "now", "fail"}
    CopyArms = {{"r"}, {"r", "w"}}
    OutOfMemory = TRUE
    BadVersion = TRUE
INVARIANTS
    NoDanglingEntry
    PoolSound
    MetricsOrdered
    AnswerQueued
