CONSTANTS
    Conn = {c1}
    SOCK_CLI_MAX = 1
    SOCK_BUF = 2
    gechobytes = 1
    StdinWritable = TRUE
    Mortal = {}
    MayStop = FALSE
    MaxSend = 2
    SndBuf = 1
    MwCap = 1
SPECIFICATION Spec
SYMMETRY Connections
INVARIANTS EchoesAll
