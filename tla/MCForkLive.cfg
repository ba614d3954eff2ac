CONSTANTS
    Conn = {c1, c2}
    SOCK_CLI_MAX = 1
    SOCK_BUF = 2
    gechobytes = 1
    StdinWritable = TRUE
    Mortal = {}
    MayStop = FALSE
    MaxSend = 1
    SndBuf = 1
    MwCap = 1
SPECIFICATION FairSpec
PROPERTY Accepted
PROPERTY Echoed
