CONSTANTS
    Conn = {c1, c2, c3}
    Fd = {4, 5}
    MaxSend = 2
    SOCK_CLI_MAX = 2
    MAX_EVENTS = 2
    SndBuf = 1
    MaxOut = 4
    PipeSize = 3
    BufSize = 2
    MaxWait = 2
    MaxFrame = 5
    MaxExec = 2
    MaxCall = 3
    ReplyLen = 2
    Sock = {7, 8}
    MaxContext = 3
SPECIFICATION FairSpec
INVARIANTS TypeOK ProcessTypeOK DescriptorsTracked NoExtraReplies HandedOver NoneLeftBehind
PROPERTIES Served Returned
CHECK_DEADLOCK FALSE
