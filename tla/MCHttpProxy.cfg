SPECIFICATION Spec
CONSTANTS
    Scripts <- MCScripts
    MaxUnits = 2
    Socks = {1, 2, 3, 4, 5}
    MaxConns = 3
    NoSock = NoSock
    TmpSize = 50
    CharMax = 3
    LongSizes = {4, 8}
    Cached = {1, 2}
    Index = {3}
    BufSize = 2
    MaxOpened = 2
    MaxWritten = 3
    MaxFaults = 2
    MaxReloads = 3
    MaxPending = 1
    MaxPages = 1
INVARIANTS SessionSafe AnswersRight BytesExact PoolSound
PROPERTIES SessionsFinish
CHECK_DEADLOCK FALSE
