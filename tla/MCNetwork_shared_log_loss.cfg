\* A router rejects messages into the log of the network.
SPECIFICATION Spec
CONSTANTS
    p1 = p1
    Peers = {p1}
    Sizes = {1}
    Limit = 2
    SharedLog = TRUE
    NodeEvents = FALSE
    MaxTime = 1
    MaxMessages = 3
    MaxEvents = 2
INVARIANTS NothingLost
\* The bounds end the run: the scenario has a last message and a last event.
CHECK_DEADLOCK FALSE
