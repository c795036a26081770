\* Target v4 hears of a block from its proposer v1, from v2 and v3, and from those that gossip.
SPECIFICATION FairRelaySpec
CONSTANTS
    v1 = v1  v2 = v2  v3 = v3  v4 = v4
    NIL = NIL
    Peers = {v1, v2, v3, v4}
    Validators = {v1, v2, v3, v4}
    Target = v4
    Proposer = v1
    TheBlock = 1
    Blocks = {1}
    KeyOrder <- MCKeyOrder
    HeaderSize = 2
    BodySize = 1
    VoteSize = 2
    Sizes = {1, 2}
    Limit = 3
    MaxRound = 1
    DropProbability = "between"
    DelayProbability = "between"
    DuplicateProbability = "between"
    ReorderProbability = "zero"
    MaxDelay = 1
    MaxDuplicates = 1
    SharedLog = FALSE
    NodeEvents = FALSE
    MaxTime = 1
    MaxMessages = 6
    MaxEvents = 0
INVARIANTS RelayTypeOK FinalizedFirstHand
PROPERTIES RefusedBodyWasOvertaken QuorumIsNotAwaitedForever
ACTION_CONSTRAINT OneOrder
\* The bounds end the run: the scenario has a last message.
CHECK_DEADLOCK FALSE
