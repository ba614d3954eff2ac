CONSTANTS
    Conn = {c1, c2, c3}
    SOCK_CLI_MAX = 2
    SOCK_BUF = 2
    gechobytes = 1
    StdinWritable = TRUE
    Mortal = {"master", "worker"}
    MayStop = TRUE
    MaxSend = 0
    SndBuf = 1
    MwCap = 1
SPECIFICATION Spec
SYMMETRY Connections
INVARIANTS OneListener LockNotLost RoomToAccept Tracked
CHECK_DEADLOCK FALSE
