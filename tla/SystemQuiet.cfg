SPECIFICATION SystemSpec
CONSTANTS
    Users = {"admin", "test1"}
    Rooms = {"CBA"}
    Passwords = {"123"}
    Texts = {"text"}
    Fds = {f1, f2}
    NoFd = NoFd
    Rank <- MCRank
    InitDb <- DbPair
    Requests <- QuietRequests
    Capacities = {2}
    Collation <- MCCollation
    ReadBack <- Terminated
    LoginOnce = FALSE
    MaxChats = 0
    MaxRestarts = 0
    MaxQueue = 2
SYMMETRY Symmetry
INVARIANTS
    RoomCountsUsersInIt
    PromptIsTheState
    PeerStatusIsTrue
    AcceptedLoginIsTold
