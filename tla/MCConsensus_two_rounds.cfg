\* Two rounds with a block each; the proposer of the first is faulty.
SPECIFICATION Spec
CONSTANTS
    f1 = f1  f2 = f2  n1 = n1  n2 = n2  n3 = n3  n4 = n4  n5 = n5  n6 = n6
    NIL = NIL
    Validators <- Set4
    ValidatorList <- List4
    Byz = {f1}
    Blocks = {1, 2}
    BlockRound <- OneEach
    BadBodies = {}
    ByzVotes <- ByzBlockVotes
    Height = 1
    MaxRound = 1
    SyncRound = 2
    Guarded = TRUE
    HeaderFirst = TRUE
    ProposalFirst = TRUE
    LockFirst = TRUE
    OneProposal = TRUE
    Restartable = {}
ACTION_CONSTRAINT OneOrder
INVARIANTS TypeOK Agreement PrecommitHoldsLock PrevoteRespectsLock PolkaExcludesOlderDecision
PROPERTIES LockMovesForward FinalitySpec
\* The height ends: a validator that has finalized takes no step here.
CHECK_DEADLOCK FALSE
