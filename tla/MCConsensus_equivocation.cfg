\* Two blocks of the faulty proposer against each other and the timeouts.
SPECIFICATION Spec
CONSTANTS
    f1 = f1  f2 = f2  n1 = n1  n2 = n2  n3 = n3  n4 = n4  n5 = n5  n6 = n6
    NIL = NIL
    Validators <- Set4
    ValidatorList <- List4
    Byz = {f1}
    Blocks = {1, 2}
    BlockRound <- BothFirst
    BadBodies = {}
    ByzVotes <- ByzBlockVotes
    Height = 1
    MaxRound = 0
    SyncRound = 1
    Guarded = TRUE
    HeaderFirst = TRUE
    ProposalFirst = TRUE
    LockFirst = TRUE
    OneProposal = TRUE
    Restartable = {}
ACTION_CONSTRAINT TwoTimeouts
INVARIANTS Agreement LockHasPolka SingleVote NoFalseEvidence
\* The height ends: a validator that has finalized takes no step here.
CHECK_DEADLOCK FALSE
