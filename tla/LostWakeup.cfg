SPECIFICATION Spec
CONSTANTS
    Commands = {"withh"}
    MaxRequests = 1
    MaxStrays = 0
    MaxDeaths = 0
CHECK_DEADLOCK FALSE
INVARIANT LoginIsAnswered
