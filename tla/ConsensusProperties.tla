------------------------ MODULE ConsensusProperties ------------------------
(***************************************************************************)
(* What the voting of one height must guarantee, stated over the state of  *)
(* Consensus.  Evidence for a block counts every faulty validator, which   *)
(* may vote for anything, and the votes that correct validators signed.    *)
(***************************************************************************)
EXTENDS Consensus

TypeOK ==
    /\ round \in [Correct -> Rounds]
    /\ lockedHash \in [Correct -> Blocks \cup {NIL}]
    /\ lockedRound \in [Correct -> Rounds \cup {-1}]
    /\ validHash \in [Correct -> Blocks \cup {NIL}]
    /\ prevotes \in [Correct -> SUBSET Vote]
    /\ precommits \in [Correct -> SUBSET Vote]
    /\ headers \in [Correct -> SUBSET Blocks]
    /\ bodies \in [Correct -> SUBSET Blocks]
    /\ tracker \in [Correct -> SUBSET (Rounds \X Phases)]
    /\ finalized \in [Correct -> Blocks \cup {NIL}]
    /\ proposed \in SUBSET Blocks
    /\ sent \in SUBSET Vote

-----------------------------------------------------------------------------
(* Evidence *)

Signed(w, r, phase, h) ==
    \E m \in sent : m.val = w /\ m.round = r /\ m.phase = phase /\ m.hash = h

Backers(r, phase, b) == Byz \cup {w \in Correct : Signed(w, r, phase, b)}

\* A quorum of prevotes, or of precommits, for b in round r can be shown.
Polka(b, r)   == Cardinality(Backers(r, "PREVOTE", b)) >= Threshold
Decided(b, r) == Cardinality(Backers(r, "PRECOMMIT", b)) >= Threshold

\* w has not precommitted in round r and is not past it.
MayStillPrecommit(w, r) ==
    /\ Active(w) /\ round[w] <= r
    /\ \A h \in Blocks \cup {NIL} : ~ Signed(w, r, "PRECOMMIT", h)

\* Round r has decided b or can still decide it.
CouldDecide(b, r) ==
    Cardinality(Backers(r, "PRECOMMIT", b)
                \cup {w \in Correct : MayStillPrecommit(w, r)}) >= Threshold

-----------------------------------------------------------------------------
(* Safety *)

\* No two correct validators finalize different blocks at the height: the
\* votes counted by make_precommit, apply_lock and try_finalize of different
\* nodes, in different rounds, never back two blocks.
Agreement ==
    \A v, w \in Correct :
        finalized[v] # NIL /\ finalized[w] # NIL => finalized[v] = finalized[w]

\* A correct validator never signs two votes for one slot, whichever of
\* make_prevote, handle_proposal_timeout and make_precommit signs first.
SingleVote == \A a, b \in sent : SameSlot(a, b) => a.hash = b.hash

\* No VoteSet ever takes votes of a correct validator for equivocation.
NoFalseEvidence ==
    \A v \in Correct, m \in sent :
        /\ AddOutcome(prevotes[v], m) # "EQUIVOCATION_DETECTED"
        /\ AddOutcome(precommits[v], m) # "EQUIVOCATION_DETECTED"

\* A lock is never older than the last block its holder precommitted in the
\* height, so that what it helped to decide still constrains its prevotes.
PrecommitHoldsLock ==
    \A v \in Correct, m \in sent :
        /\ m.val = v /\ m.phase = "PRECOMMIT" /\ m.hash # NIL /\ Active(v)
        => /\ lockedRound[v] >= m.round
           /\ lockedRound[v] = m.round => lockedHash[v] = m.hash

\* A lock names a block that a quorum prevoted in the locked round.
LockHasPolka ==
    \A v \in Correct : lockedHash[v] # NIL => Polka(lockedHash[v], lockedRound[v])

\* A correct validator that precommitted a block prevotes another one in a
\* later round only after a quorum of prevotes for it between the two
\* (prevote_block_or_nil with the lock kept by do_round_change).
PrevoteRespectsLock ==
    \A pc, pv \in sent :
        /\ pc.phase = "PRECOMMIT" /\ pv.phase = "PREVOTE" /\ pc.val = pv.val
        /\ pc.hash # NIL /\ pv.hash \notin {NIL, pc.hash} /\ pc.round < pv.round
        => \E r \in Rounds : pc.round < r /\ r <= pv.round /\ Polka(pv.hash, r)

\* Once a round has a quorum of prevotes for a block, no earlier round can
\* still decide a different one.
PolkaExcludesOlderDecision ==
    \A b, c \in Blocks : \A r, s \in Rounds :
        r < s /\ b # c /\ Polka(c, s) => ~ CouldDecide(b, r)

\* What a node finalizes was precommitted by a quorum in one round.
FinalizedByQuorum ==
    \A v \in Correct : finalized[v] # NIL => \E r \in Rounds : Decided(finalized[v], r)

\* A node that changes its lock does so for a later round, until the height
\* is finalized; it never forgets the lock.
LockMovesForward ==
    [][\A v \in Correct :
          lockedHash'[v] # lockedHash[v] /\ finalized'[v] = NIL
          => lockedRound'[v] > lockedRound[v]]_vars

\* The finalized blocks behave as the abstract decision of one height.
F == INSTANCE Finality WITH decided <- finalized
FinalitySpec == F!Spec
-----------------------------------------------------------------------------
(* The inductive invariants behind the safety properties, each on top of the
   one before.  CountInv holds whatever the caller does, SlotInv if it asks
   the tracker and does not restart, IInv when it is careful in every way. *)

\* A VoteSet holds what was signed, or shown by a faulty validator.
CountedWereSigned ==
    \A v \in Correct : \A m \in prevotes[v] \cup precommits[v] :
        m.val \in Byz \/ m \in sent

LockIsConsistent ==
    \A v \in Correct :
        /\ lockedHash[v] = NIL <=> lockedRound[v] = -1
        /\ lockedRound[v] <= round[v]

CountInv ==
    /\ TypeOK
    /\ CountedWereSigned
    /\ LockIsConsistent
    /\ LockHasPolka
    /\ FinalizedByQuorum

\* Correct validators sign for themselves, in a round they have reached, and
\* their tracker knows it.
SentIsTracked ==
    \A m \in sent :
        /\ m.val \in Correct /\ m.round \in Rounds
        /\ Active(m.val) => /\ m.round <= round[m.val]
                            /\ <<m.round, m.phase>> \in tracker[m.val]

SlotInv ==
    /\ CountInv
    /\ SentIsTracked
    /\ SingleVote

\* Votes are counted for blocks whose header is stored.
PrevotesNameKnownBlocks ==
    \A v \in Correct : \A m \in prevotes[v] : m.hash \in headers[v] \cup {NIL}

PrecommitHasPolka ==
    \A m \in sent : m.phase = "PRECOMMIT" /\ m.hash # NIL => Polka(m.hash, m.round)

IInv ==
    /\ SlotInv
    /\ PrevotesNameKnownBlocks
    /\ PrecommitHasPolka
    /\ PrecommitHoldsLock
    /\ PrevoteRespectsLock
    /\ PolkaExcludesOlderDecision

\* Two quorums have more members in common than there are faulty validators.
QuorumsIntersect == 2 * Threshold > N + Cardinality(Byz)

\* Two ways to have that: as many validators as the protocol asks for, and no
\* more faults than it allows; the eight of the configuration, and one fault.
ThreeFPlusOne == N = 3 * Faults + 1 /\ Cardinality(Byz) <= Faults
EightAndOne   == N = 8 /\ Cardinality(Byz) <= 1

\* The caller uses the tracker and stays up; a careful one also counts votes
\* for known blocks, prevotes these only, and locks before it precommits
\* (PROTOCOL_SPEC, the steps of a round).
TrackingCaller == Guarded /\ Restartable = {}
CarefulCaller  == TrackingCaller /\ HeaderFirst /\ ProposalFirst /\ LockFirst

-----------------------------------------------------------------------------
(* Liveness.  The network delivers every block of a correct proposer and every
   vote of a correct validator for a block to a receiver that stays in their
   round, timeouts of the rounds before SyncRound fire, and a correct validator
   that can take a step of the voting takes it. *)

BlockVotes == {m \in sent : m.hash # NIL}

Fairness ==
    \A v \in Correct :
        /\ WF_vars(\E b \in Blocks : Propose(v, b))
        /\ WF_vars(\E b \in proposed : ReceiveHeader(v, b))
        /\ WF_vars(\E b \in proposed : ReceiveBody(v, b))
        /\ WF_vars(\E b \in Blocks : MakePrevote(v, b))
        /\ WF_vars(HandleProposalTimeout(v))
        /\ WF_vars(\E m \in BlockVotes : ReceivePrevote(v, m))
        /\ WF_vars(\E m \in BlockVotes : ReceivePrecommit(v, m))
        /\ WF_vars(ApplyLock(v))
        /\ WF_vars(MakePrecommit(v))
        /\ WF_vars(DoRoundChange(v))
        /\ WF_vars(TryFinalize(v))

FairSpec == Spec /\ Fairness

\* After the network has become synchronous, with a correct proposer, the
\* height is finalized by every correct validator (README and requirements:
\* round changes and timeouts keep the system from being stuck forever).
Termination == <>(\A v \in Correct : finalized[v] # NIL)
=============================================================================
