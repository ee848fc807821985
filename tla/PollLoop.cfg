SPECIFICATION Spec
CONSTANTS
    Size = 3
    Fds = {c1, c2, c3}
    Sixteen = c1
    None = None
    MaxUnread = 1
INVARIANTS
    TypeOK
    TableIsExact
    BlocksOnNewOnly
PROPERTY EndIsRead
