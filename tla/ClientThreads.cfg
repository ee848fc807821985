SPECIFICATION Spec
CONSTANTS
    Commands = {"withh", "joinn", "createUser", "modifyUser", "createRoom"}
    MaxRequests = 1
    MaxStrays = 2
    MaxDeaths = 1
CHECK_DEADLOCK FALSE
INVARIANTS
    MutexNeverBlocks
    CheckProtects
PROPERTY WaitEndsOrWhy
