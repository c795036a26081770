---------------------------- MODULE MCConsensus ----------------------------
(* Instances of Consensus for TLC. *)
EXTENDS ConsensusProperties, TLC

CONSTANTS f1, f2, n1, n2, n3, n4, n5, n6

\* Four validators, one faulty, which proposes in round 0.
List4 == <<n3, f1, n1, n2>>
Set4  == {f1, n1, n2, n3}

\* The faulty votes that matter: one for a block, in the block's round.
ByzBlockVotes ==
    {m \in [round : Rounds, phase : Phases, val : Byz, hash : Blocks] :
        m.round = BlockRound[m.hash]}

\* A block of each of the rounds 0 and 1; round 1's hash sorts first.
OneEach == (2 :> 0) @@ (1 :> 1)
\* The eight validators of config/validator_keys.json, two of them faulty.
List8 == <<n6, f1, f2, n1, n2, n3, n4, n5>>
Set8  == {f1, f2, n1, n2, n3, n4, n5, n6}
Byz8  == {f1, f2}

OneBlock == (1 :> 0)
\* No block of round 0, whose proposer stays silent.
SecondOnly == (1 :> 1)
\* Two blocks of the faulty proposer, both in round 0.
BothFirst == (1 :> 0) @@ (2 :> 0)

(* Steps whose order no later step can see are taken in one order only.
   A vote is delivered once a quorum for its hash can be shown, and then the
   votes for that hash come in index order, with nothing in between, until the
   quorum is there; the lock follows at once.  A body comes when the precommits
   are there.  NIL votes are counted nowhere: they are not delivered, and
   under OneOrder only a locked validator signs one.  *)
Index(w) == CHOOSE i \in 1 .. N : ValidatorList[i] = w

Useful(m, votes) ==
    /\ m.hash # NIL
    /\ ~ HasQuorum(votes, m.round, m.phase, m.hash)
    /\ Cardinality(Backers(m.round, m.phase, m.hash)) >= Threshold
    /\ \A w \in Backers(m.round, m.phase, m.hash) :
          Index(w) < Index(m.val) => \E x \in votes : SameSlot(x, [m EXCEPT !.val = w])

Gathering(v, votes, phase) ==
    \E c \in Blocks : /\ \E m \in votes : m.val # v /\ m.hash = c
                     /\ ~ HasQuorum(votes, round[v], phase, c)

\* A validator in the middle of something: it votes on a block it has got,
\* locks, precommits and finalizes as soon as it can.
Settled(v) ==
    /\ ~ Gathering(v, prevotes[v], "PREVOTE")
    /\ ~ Gathering(v, precommits[v], "PRECOMMIT")
    /\ LockApplied(v)
    /\ Lockable(v) # {} => <<round[v], "PRECOMMIT">> \in tracker[v]
    /\ \A c \in headers[v] : /\ BlockRound[c] = round[v] => <<round[v], "PREVOTE">> \in tracker[v]
                             /\ c \notin QuorumHashes(precommits[v], round[v], "PRECOMMIT")

OwnStep(v) ==
    \/ prevotes'[v] # prevotes[v] \/ precommits'[v] # precommits[v]
    \/ lockedRound'[v] # lockedRound[v] \/ lockedHash'[v] # lockedHash[v]
    \/ bodies'[v] # bodies[v] \/ finalized'[v] # finalized[v]
    \/ tracker'[v] # tracker[v]

\* Only deliveries that complete a quorum some day, in one order.
UsefulDelivery ==
    \A v \in Correct :
        /\ \A m \in prevotes'[v] \ prevotes[v] : m.val = v \/ Useful(m, prevotes[v])
        /\ \A m \in precommits'[v] \ precommits[v] : m.val = v \/ Useful(m, precommits[v])
        /\ \A c \in bodies'[v] \ bodies[v] : c \in QuorumHashes(precommits[v], round[v], "PRECOMMIT")

InOrder ==
    /\ UsefulDelivery
    /\ \A v \in Correct : (OwnStep(v) /\ round'[v] <= round[v]) \/ Settled(v)

OneOrder ==
    /\ InOrder
    /\ \A m \in sent' \ sent :
          m.hash = NIL => m.phase = "PREVOTE" /\ lockedHash[m.val] # NIL

\* Only n1 and n2 can time out before they prevote; precommits are for blocks.
TwoTimeouts ==
    /\ InOrder
    /\ \A m \in sent' \ sent :
          m.hash = NIL => m.phase = "PREVOTE" /\ m.val \in {n1, n2}

\* The network is split: n1, n2, n3 see block 1 only, the others block 2 only,
\* and only when block 1 is final somewhere.
Split ==
    /\ OneOrder
    /\ \A v \in Correct :
          headers'[v] \subseteq IF v \in {n1, n2, n3} THEN {1}
                                ELSE IF \E w \in Correct : ~ Active(w) THEN {2}
                                ELSE {}

\* NIL votes, which are counted nowhere, are not delivered.  Fairness does not
\* ask for them, so what is left out is no obligation of a fair behaviour.
NoNilDelivery ==
    \A v \in Correct : \A m \in (prevotes'[v] \ prevotes[v]) \cup (precommits'[v] \ precommits[v]) :
        m.val = v \/ m.hash # NIL

\* A validator leaves a round after it has prevoted and precommitted in it.
VotesBeforeRoundChange ==
    /\ NoNilDelivery
    /\ \A v \in Correct : round'[v] > round[v] =>
          {<<round[v], "PREVOTE">>, <<round[v], "PRECOMMIT">>} \subseteq tracker[v]

\* The same, and who restarts loses votes of the rounds before SyncRound only:
\* what is delivered once is not delivered again.
RestartsBeforeSync ==
    /\ VotesBeforeRoundChange
    /\ \A v \in Correct : ~ (tracker[v] \subseteq tracker'[v]) => round[v] < SyncRound

\* In round 0 the block reaches everybody, but its prevotes reach n1 only, and
\* nobody sees a precommit; round 1 is not restricted.
OneLock ==
    /\ NoNilDelivery
    /\ \A v \in Correct : 2 \notin bodies'[v]
    /\ \A v \in Correct : round[v] = 0 =>
          /\ round'[v] = 1 => lockedHash[n1] = 2
          /\ precommits'[v] \subseteq precommits[v]
          /\ v # n1 => prevotes'[v] \subseteq {m \in sent' : m.val = v}
          /\ \A m \in sent' \ sent : m.val = v => m.hash # NIL
=============================================================================
