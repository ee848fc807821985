SPECIFICATION Spec
CONSTANTS
    Rooms = {"CBA", "XYZ"}
    LongerName <- MCLongerName
    Fds = {f1, f2, f3}
    Capacities = {0, 3}
    Blocks = {a1, a2, a3}
    Junk = Junk
SYMMETRY Symmetry
CHECK_DEADLOCK FALSE
INVARIANTS
    TypeOK
    ArraysSound
PROPERTY KeepsTable
