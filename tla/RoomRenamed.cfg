SPECIFICATION Spec
CONSTANTS
    Rooms = {"CBA"}
    LongerName <- MCLongerName
    Fds = {f1, f2}
    Capacities = {2}
    Blocks = {a1, a2}
    Junk = Junk
SYMMETRY Symmetry
CHECK_DEADLOCK FALSE
PROPERTY PopulatedStays
