SPECIFICATION Spec
CONSTANTS
    Users = {"admin", "test1"}
    Rooms = {}
    Passwords = {"123"}
    Texts = {"text", "blank"}
    Fds = {f1, f2}
    NoFd = NoFd
    Rank <- MCRank
    InitDb <- DbPair
    Requests <- ChatRequests
    Capacities = {}
    Collation <- MCCollation
    ReadBack <- Terminated
    LoginOnce = TRUE
    MaxChats = 2
    MaxRestarts = 0
SYMMETRY Symmetry
PROPERTY StoredUntilWritten
