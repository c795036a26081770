\* A router rejects messages into the log of the network, and drivers write the
\* events of nodes, in time or not.
SPECIFICATION Spec
CONSTANTS
    p1 = p1
    Peers = {p1}
    Sizes = {1, 2}
    Limit = 2
    SharedLog = TRUE
    NodeEvents = TRUE
    MaxTime = 1
    MaxMessages = 3
    MaxEvents = 2
INVARIANTS  DeliveredInKeyOrder
\* The bounds end the run: the scenario has a last message and a last event.
CHECK_DEADLOCK FALSE
