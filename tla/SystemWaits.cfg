SPECIFICATION FairSystemSpec
CONSTANTS
    Users = {"admin", "test1"}
    Rooms = {"CBA"}
    Passwords = {"123"}
    Texts = {"text"}
    Fds = {f1, f2}
    NoFd = NoFd
    Rank <- MCRank
    InitDb <- DbPair
    Requests <- WaitRequests
    Capacities = {1}
    Collation <- MCCollation
    ReadBack <- Terminated
    LoginOnce = FALSE
    MaxChats = 0
    MaxRestarts = 0
    MaxQueue = 1
PROPERTIES
    WaitEnds
    GoneIsSetOffline
