\* The eight configured validators, f = 2: two quorums of 5 share two validators.
SPECIFICATION Spec
CONSTANTS
    f1 = f1  f2 = f2  n1 = n1  n2 = n2  n3 = n3  n4 = n4  n5 = n5  n6 = n6
    NIL = NIL
    Validators <- Set8
    ValidatorList <- List8
    Byz <- Byz8
    Blocks = {1, 2}
    BlockRound <- BothFirst
    BadBodies = {}
    ByzVotes <- ByzBlockVotes
    Height = 1
    MaxRound = 0
    SyncRound = 1
    Guarded = TRUE
    HeaderFirst = TRUE
    ProposalFirst = TRUE
    LockFirst = TRUE
    OneProposal = TRUE
    Restartable = {}
ACTION_CONSTRAINT Split
INVARIANTS Agreement
\* The height ends: a validator that has finalized takes no step here.
CHECK_DEADLOCK FALSE
