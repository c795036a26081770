\* Messages of one to three bytes compete for ticks of three bytes, and the
\* drivers call run_next until the queue is drained.
SPECIFICATION FairSpec
CONSTANTS
    p1 = p1
    Peers = {p1}
    Sizes = {1, 2, 3}
    Limit = 3
    SharedLog = FALSE
    NodeEvents = FALSE
    MaxTime = 1
    MaxMessages = 4
    MaxEvents = 1
INVARIANTS TypeOK NothingLost DeliveredInKeyOrder BandwidthRespected LateOnlyWhenFull OvertakenOnlyBySmaller LogIsChronological CallCanReturn
PROPERTIES DeliverySpec AllDelivered
\* The bounds end the run: the scenario has a last message and a last event.
CHECK_DEADLOCK FALSE
