SPECIFICATION Spec
CONSTANTS
    Byte <- MCByte
    CR = "cr"
    LF = "lf"
    NUL = "nul"
    Eight = "eight"
    UserWord <- MCUserWord
    PassWord <- MCPassWord
    MaxText = 3
    BUFFER_SIZE = 2
    MaxRead = 2
INVARIANTS
    ProgressExact
    ReportsExact
    MemorySafe
