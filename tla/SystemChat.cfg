SPECIFICATION SystemSpec
CONSTANTS
    Users = {"admin", "test1"}
    Rooms = {}
    Passwords = {"123"}
    Texts = {"text"}
    Fds = {f1, f2}
    NoFd = NoFd
    Rank <- MCRank
    InitDb <- DbNoRoom
    Requests <- StrayRequests
    Capacities = {2}
    Collation <- MCCollation
    ReadBack <- Terminated
    LoginOnce = FALSE
    MaxChats = 1
    MaxRestarts = 1
    MaxQueue = 1
SYMMETRY Symmetry
INVARIANTS
    PrivateChatsArePrivate
    OneConnectionPerUser
    ClientTypeOK
