SPECIFICATION SystemSpec
CONSTANTS
    Users = {"admin", "test1"}
    Rooms = {"CBA"}
    Passwords = {"123"}
    Texts = {"text"}
    Fds = {f1, f2}
    NoFd = NoFd
    Rank <- MCRank
    InitDb <- DbWide
    Requests <- StrayRequests
    Capacities = {2}
    Collation <- MCCollation
    ReadBack <- Terminated
    LoginOnce = FALSE
    MaxChats = 2
    MaxRestarts = 0
    MaxQueue = 1
SYMMETRY Symmetry
INVARIANT PrivateChatsArePrivate
