SPECIFICATION Spec
CONSTANTS
    Users = {"admin", "test1"}
    Rooms = {"CBA", "CBA?"}
    Passwords = {"123"}
    Texts = {"text"}
    Fds = {f1, f2}
    NoFd = NoFd
    Rank <- MCRank
    InitDb <- DbRooms
    Requests <- AdminRequests
    Capacities = {2}
    Collation <- MCCollation
    ReadBack <- Longer
    LoginOnce = FALSE
    MaxChats = 0
    MaxRestarts = 1
SYMMETRY Symmetry
INVARIANTS
    TypeOK
    MemoryMirrorsDatabase
    NoStatementRejected
    AdminSurvives
    RoomsSound
    InRoomIsMember
