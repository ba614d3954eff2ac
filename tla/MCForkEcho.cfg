CONSTANTS
    Conn = {c1, c2}
    SOCK_CLI_MAX = 1
    SOCK_BUF = 1
    gechobytes = 1
    StdinWritable = FALSE
    Mortal = {}
    MayStop = FALSE
    MaxSend = 3
    SndBuf = 1
    MwCap = 1
SPECIFICATION Spec
SYMMETRY Connections
INVARIANTS TypeOK EchoesOwnBytes
