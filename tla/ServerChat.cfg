SPECIFICATION Spec
CONSTANTS
    Users = {"admin", "test1"}
    Rooms = {}
    Passwords = {"123"}
    Texts = {"text"}
    Fds = {f1, f2}
    NoFd = NoFd
    Rank <- MCRank
    InitDb <- DbPair
    Requests <- ChatRequests
    Capacities = {}
    Collation <- MCCollation
    ReadBack <- Terminated
    LoginOnce = TRUE
    MaxChats = 3
    MaxRestarts = 1
SYMMETRY Symmetry
INVARIANTS
    NoStatementRejected
    InOrderOnce
    EveryChatAccounted
PROPERTIES
    StoredUntilWritten
    KeepsMailbox
