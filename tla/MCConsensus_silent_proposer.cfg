\* The faulty proposer of round 0 is silent and a validator restarts; round 1 is synchronous.
SPECIFICATION FairSpec
CONSTANTS
    f1 = f1  f2 = f2  n1 = n1  n2 = n2  n3 = n3  n4 = n4  n5 = n5  n6 = n6
    NIL = NIL
    Validators <- Set4
    ValidatorList <- List4
    Byz = {f1}
    Blocks = {1}
    BlockRound <- SecondOnly
    BadBodies = {}
    ByzVotes = {}
    Height = 1
    MaxRound = 1
    SyncRound = 1
    Guarded = TRUE
    HeaderFirst = TRUE
    ProposalFirst = TRUE
    LockFirst = TRUE
    OneProposal = TRUE
    Restartable = {n3}
ACTION_CONSTRAINT RestartsBeforeSync
INVARIANTS FinalizedByQuorum
 
\* The height ends: a validator that has finalized takes no step here.
CHECK_DEADLOCK FALSE
