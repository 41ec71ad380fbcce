SPECIFICATION Spec
CONSTANTS
    Requests <- MCRequests
    CharMax = 3
    BufSize = 22
    Room = 1
    Configs <- MCConfigs
    Mails <- MCMails
    Commands = {"USER", "PASS", "QUIT", "AUTH", "PBSZ", "PROT", "PASV", "EPSV",
                "PORT", "ABOR", "NOOP", "RETR", "STOR", "FEAT"}
    PopCommands = {"USER", "PASS", "QUIT", "LIST", "LIST 1", "RETR", "CAPA"}
    MaxCmds = 4
    PopMaxCmds = 4
    MaxDepth = 2
    Blocks = 1
    MaxPayload = 2
    Cap = 2
    MaxSize = 7
    MaxRecord = 3
    MaxSent = 4
INVARIANTS RelaysExact  DataHonest ChildrenSafe
PROPERTIES SessionsEnd
CHECK_DEADLOCK FALSE
