-------------------------- MODULE ConsensusProofs --------------------------
(***************************************************************************)
(* Proofs about Consensus for every validator set, block set, number of    *)
(* rounds and number of faults: the types, the intersection of quorums,    *)
(* and two layers of invariants.  CountInv holds whatever the caller does: *)
(* what is counted was signed, so locks and finalized blocks have quorums. *)
(* SlotInv adds, for a caller that asks the tracker and stays up, that     *)
(* nobody signs twice for a slot.                                          *)
(***************************************************************************)
EXTENDS ConsensusProperties, FiniteSetTheorems, WellFoundedInduction, TLAPS

-----------------------------------------------------------------------------
(* Helpers *)

less == {ss \in Nat \X Nat : ss[1] < ss[2]}

\* Every set of natural numbers has a least one (FirstHash takes it).
LEMMA LessIsWellFounded == IsWellFoundedOn(less, Nat)
  BY NatLessThanWellFounded DEF OpToRel, less

\* The first hash of a non-empty set of hashes is one of the set
\* (sorted(candidate_hashes) in apply_lock, make_precommit, try_finalize).
LEMMA FirstHashMember ==
    ASSUME NEW S \in SUBSET Blocks, S # {}
    PROVE  FirstHash(S) \in S
<1>1. S \subseteq Nat
  BY VoteSetAssumption
<1>2. PICK x \in S : \A y \in S : <<y, x>> \notin less
  BY <1>1, LessIsWellFounded, WFMin
<1>3. ASSUME NEW y \in S PROVE x <= y
  <2>1. x \in Nat /\ y \in Nat
    BY <1>1
  <2>2. y < x => <<y, x>> \in less
    BY <2>1 DEF less
  <2>3. QED
    BY <1>2, <2>1, <2>2
<1>4. QED
  BY <1>3 DEF FirstHash

\* Any set of validators is finite, and a larger one has no fewer members.
LEMMA ValidatorSets ==
    ASSUME NEW A \in SUBSET Validators, NEW B \in SUBSET A
    PROVE  /\ IsFiniteSet(A) /\ Cardinality(A) \in Nat
           /\ Cardinality(B) <= Cardinality(A)
           /\ Cardinality(A) <= N
<1>1. IsFiniteSet(A) /\ Cardinality(A) <= N
  BY VoteSetAssumption, FS_Subset DEF N
<1>2. QED
  BY <1>1, FS_Subset, FS_CardinalityType

\* The counts of has_quorum are natural numbers.
LEMMA Arithmetic == N \in Nat \ {0} /\ Faults \in Nat /\ Threshold \in Nat
<1>1. N \in Nat \ {0}
  BY VoteSetAssumption, FS_CardinalityType, FS_EmptySet DEF N
<1>2. QED
  BY <1>1 DEF Faults, Threshold

\* The sizes for which quorums intersect: n = 3f + 1 with at most f faults ...
LEMMA ThreeFPlusOneIsEnough == ThreeFPlusOne => QuorumsIntersect
  BY ConsensusAssumption, ValidatorSets, Arithmetic DEF ThreeFPlusOne, QuorumsIntersect, Threshold

\* ... and the eight validators of the configuration with at most one; with
\* two, the f that has_quorum computes for them, a disagreement is possible.
LEMMA EightAndOneIsEnough == EightAndOne => QuorumsIntersect
<1>1. Cardinality(Byz) \in Nat
  BY ConsensusAssumption, ValidatorSets
<1>2. ASSUME N = 8 PROVE Threshold = 5
  BY <1>2 DEF Threshold, Faults
<1> QED
  BY <1>1, <1>2 DEF EightAndOne, QuorumsIntersect

\* Any two quorums share a correct validator: what has_quorum's threshold is
\* for.
THEOREM QuorumsMeet ==
    ASSUME QuorumsIntersect,
           NEW P \in SUBSET Validators, NEW Q \in SUBSET Validators,
           Cardinality(P) >= Threshold, Cardinality(Q) >= Threshold
    PROVE  \E w \in Correct : w \in P /\ w \in Q
<1>1. /\ IsFiniteSet(P) /\ IsFiniteSet(Q) /\ IsFiniteSet(Byz)
      /\ Cardinality(P) \in Nat /\ Cardinality(Q) \in Nat
      /\ Cardinality(P \cap Q) \in Nat /\ Cardinality(Byz) \in Nat
      /\ Cardinality(P \cup Q) \in Nat /\ Cardinality(P \cup Q) <= N
  BY ValidatorSets, ConsensusAssumption
<1>2. Cardinality(P \cup Q) = Cardinality(P) + Cardinality(Q) - Cardinality(P \cap Q)
  BY <1>1, FS_Union
<1>3. Cardinality(P \cap Q) > Cardinality(Byz)
  BY <1>1, <1>2, Arithmetic DEF QuorumsIntersect
<1>4. ~ (P \cap Q \subseteq Byz)
  BY <1>1, <1>3, FS_Subset
<1>5. QED
  BY <1>4 DEF Correct

-----------------------------------------------------------------------------
(* Type correctness *)

\* Where validators, blocks, rounds and votes of the faulty ones come from.
LEMMA Types ==
    /\ \A v \in Correct : v \in Validators
    /\ \A b \in Blocks : BlockRound[b] \in Rounds
    /\ \A r \in Rounds : r \in Nat /\ r <= MaxRound
    /\ 0 \in Rounds
    /\ \A r \in Rounds : r < MaxRound => r + 1 \in Rounds
    /\ ByzVotes \subseteq Vote
    /\ "PREVOTE" \in Phases /\ "PRECOMMIT" \in Phases
  BY ConsensusAssumption DEF Correct, Rounds, Phases

\* VoteSet.add keeps a set of votes.
LEMMA AddType ==
    ASSUME NEW votes \in SUBSET Vote, NEW m \in Vote
    PROVE  Add(votes, m) \in SUBSET Vote
  BY DEF Add

\* What Vote.create_signed makes is a vote.
LEMMA SignedVoteType ==
    ASSUME TypeOK, NEW v \in Correct, NEW ph \in Phases, NEW h \in Blocks \cup {NIL}
    PROVE  SignedVote(v, ph, h) \in Vote
  BY Types DEF TypeOK, SignedVote, Vote

\* make_precommit precommits a block or NIL.
LEMMA PrecommitTargetType ==
    ASSUME NEW v \in Correct
    PROVE  PrecommitTarget(v) \in Blocks \cup {NIL}
<1> DEFINE quorum == QuorumHashes(prevotes[v], round[v], "PREVOTE")
<1>1. quorum \in SUBSET Blocks
  BY DEF QuorumHashes
<1>2. quorum # {} => FirstHash(quorum) \in Blocks
  BY <1>1, FirstHashMember
<1>3. QED
  BY <1>1, <1>2 DEF PrecommitTarget

\* Every function of the consensus keeps the types.
LEMMA TypeInvariant == TypeOK /\ [Next]_vars => TypeOK'
<1> SUFFICES ASSUME TypeOK, [Next]_vars PROVE TypeOK'
  OBVIOUS
<1> USE Types
<1>1. ASSUME NEW v \in Correct, NEW b \in Blocks, Propose(v, b)
      PROVE  TypeOK'
  BY <1>1 DEF TypeOK, Propose, nodeVars
<1>2. ASSUME NEW v \in Correct, NEW b \in Blocks, ReceiveHeader(v, b)
      PROVE  TypeOK'
  BY <1>2 DEF TypeOK, ReceiveHeader
<1>3. ASSUME NEW v \in Correct, NEW b \in Blocks, ReceiveBody(v, b)
      PROVE  TypeOK'
  BY <1>3 DEF TypeOK, ReceiveBody
<1>4. ASSUME NEW v \in Correct, NEW b \in Blocks, MakePrevote(v, b)
      PROVE  TypeOK'
  <2> DEFINE m == SignedVote(v, "PREVOTE", PrevoteBlockOrNil(v, b))
  <2>1. m \in Vote /\ <<m.round, m.phase>> \in Rounds \X Phases
    BY SignedVoteType DEF TypeOK, PrevoteBlockOrNil, SignedVote
  <2>2. Add(prevotes[v], m) \in SUBSET Vote
    BY <2>1, AddType DEF TypeOK
  <2> HIDE DEF m
  <2>3. QED
    BY <1>4, <2>1, <2>2 DEF TypeOK, MakePrevote, Broadcast, m
<1>5. ASSUME NEW v \in Correct, HandleProposalTimeout(v)
      PROVE  TypeOK'
  <2> DEFINE m == SignedVote(v, "PREVOTE", NIL)
  <2>1. m \in Vote /\ <<m.round, m.phase>> \in Rounds \X Phases
    BY SignedVoteType DEF TypeOK, SignedVote
  <2> HIDE DEF m
  <2>2. QED
    BY <1>5, <2>1 DEF TypeOK, HandleProposalTimeout, Broadcast, m
<1>6. ASSUME NEW v \in Correct, NEW m \in sent \cup ByzVotes,
             ReceivePrevote(v, m) \/ ReceivePrecommit(v, m)
      PROVE  TypeOK'
  <2>1. Add(prevotes[v], m) \in SUBSET Vote /\ Add(precommits[v], m) \in SUBSET Vote
    BY AddType DEF TypeOK
  <2>2. QED
    BY <1>6, <2>1 DEF TypeOK, ReceivePrevote, ReceivePrecommit
<1>7. ASSUME NEW v \in Correct, ApplyLock(v)
      PROVE  TypeOK'
  <2>1. FirstHash(Lockable(v)) \in Blocks
    BY <1>7, FirstHashMember DEF ApplyLock, Lockable, QuorumHashes
  <2>2. QED
    BY <1>7, <2>1 DEF TypeOK, ApplyLock
<1>8. ASSUME NEW v \in Correct, MakePrecommit(v)
      PROVE  TypeOK'
  <2> DEFINE m == SignedVote(v, "PRECOMMIT", PrecommitTarget(v))
  <2>1. m \in Vote /\ <<m.round, m.phase>> \in Rounds \X Phases
    BY SignedVoteType, PrecommitTargetType DEF TypeOK, SignedVote
  <2>2. Add(precommits[v], m) \in SUBSET Vote
    BY <2>1, AddType DEF TypeOK
  <2> HIDE DEF m
  <2>3. QED
    BY <1>8, <2>1, <2>2 DEF TypeOK, MakePrecommit, Broadcast, m
<1>9. ASSUME NEW v \in Correct, DoRoundChange(v)
      PROVE  TypeOK'
  BY <1>9 DEF TypeOK, DoRoundChange
<1>10. ASSUME NEW v \in Correct, TryFinalize(v)
       PROVE  TypeOK'
  <2> DEFINE q == QuorumHashes(precommits[v], round[v], "PRECOMMIT")
  <2>1. FirstHash(q) \in Blocks
    BY <1>10, FirstHashMember DEF TryFinalize, QuorumHashes
  <2> HIDE DEF q
  <2>2. finalized' = [finalized EXCEPT ![v] = FirstHash(q)] /\ FreshState(v)
        /\ UNCHANGED <<proposed, sent>>
    BY <1>10 DEF TryFinalize, q
  <2>3. QED
    BY <2>1, <2>2 DEF TypeOK, FreshState
<1>11. ASSUME NEW v \in Correct, Restart(v)
       PROVE  TypeOK'
  BY <1>11 DEF TypeOK, Restart, FreshState
<1>12. CASE UNCHANGED vars
  BY <1>12 DEF TypeOK, vars, nodeVars
<1>13. QED
  BY <1>1, <1>2, <1>3, <1>4, <1>5, <1>6, <1>7, <1>8, <1>9, <1>10, <1>11, <1>12 DEF Next

\* A fresh ConsensusState is well typed.
LEMMA TypeInit == Init => TypeOK
  BY Types DEF Init, TypeOK

\* Every reachable state of the consensus functions is well typed, for every
\* validator set and caller.
THEOREM TypeCorrect == Spec => []TypeOK
  BY TypeInit, TypeInvariant, PTL DEF Spec

-----------------------------------------------------------------------------
(* Evidence over a step *)

\* Votes are counted for validators only.
LEMMA BackersAreValidators ==
    ASSUME NEW r, NEW ph, NEW b
    PROVE  Backers(r, ph, b) \subseteq Validators
  BY ConsensusAssumption DEF Backers, Correct

\* Evidence for a block, once it can be shown, stays.
LEMMA EvidenceStays ==
    ASSUME sent \subseteq sent', NEW r, NEW b
    PROVE  /\ Polka(b, r) => Polka(b, r)'
           /\ Decided(b, r) => Decided(b, r)'
<1>1. ASSUME NEW ph
      PROVE  Cardinality(Backers(r, ph, b)) <= Cardinality(Backers(r, ph, b)')
  <2>1. Backers(r, ph, b) \subseteq Backers(r, ph, b)'
    BY DEF Backers, Signed
  <2>2. Backers(r, ph, b)' \subseteq Validators
    BY ConsensusAssumption DEF Backers, Correct
  <2>3. QED
    BY <2>1, <2>2, ValidatorSets
<1>2. \A ph : /\ Cardinality(Backers(r, ph, b)) \in Nat
              /\ Cardinality(Backers(r, ph, b)') \in Nat
  <2>1. \A ph : Backers(r, ph, b)' \subseteq Validators
    BY ConsensusAssumption DEF Backers, Correct
  <2>2. QED
    BY <2>1, BackersAreValidators, ValidatorSets
<1>3. QED
  BY <1>1, <1>2, Arithmetic DEF Polka, Decided

\* A quorum counted in a VoteSet of real votes can be shown from the network.
LEMMA CountedIsBacked ==
    ASSUME NEW votes, \A m \in votes : m.val \in Byz \/ m \in sent,
           NEW r, NEW ph, NEW b, HasQuorum(votes, r, ph, b)
    PROVE  Cardinality(Backers(r, ph, b)) >= Threshold
<1>1. Supporters(votes, r, ph, b) \subseteq Backers(r, ph, b)
  BY DEF Supporters, VotesOf, Backers, Signed, Correct
<1>2. Backers(r, ph, b) \subseteq Validators
  BY ConsensusAssumption DEF Backers, Correct
<1>3. /\ Cardinality(Supporters(votes, r, ph, b)) <= Cardinality(Backers(r, ph, b))
      /\ Cardinality(Supporters(votes, r, ph, b)) \in Nat
      /\ Cardinality(Backers(r, ph, b)) \in Nat
  BY <1>1, <1>2, ValidatorSets
<1>4. QED
  BY <1>3, Arithmetic DEF HasQuorum

-----------------------------------------------------------------------------
(* Whatever the caller does: what is counted was signed *)

\* VoteSet.add adds one vote or nothing.
LEMMA AddAdds ==
    ASSUME NEW votes, NEW m
    PROVE  votes \subseteq Add(votes, m) /\ Add(votes, m) \subseteq votes \cup {m}
  BY DEF Add

\* Votes of correct validators are stored after they were broadcast: with or
\* without tracker and header check, and over restarts.
LEMMA CountedStaySigned ==
    ASSUME TypeOK, CountedWereSigned, [Next]_vars
    PROVE  sent \subseteq sent' /\ CountedWereSigned'
<1> DEFINE Stays(w) == prevotes'[w] \subseteq prevotes[w] /\ precommits'[w] \subseteq precommits[w]
           Takes(w, m) == /\ prevotes'[w] \cup precommits'[w]
                               \subseteq prevotes[w] \cup precommits[w] \cup {m}
                          /\ m.val \in Byz \/ m \in sent'
           Fine == /\ sent \subseteq sent'
                   /\ \A w \in Correct : Stays(w) \/ \E m : Takes(w, m)
<1>1. SUFFICES Fine
  <2>1. ASSUME Fine, NEW w \in Correct, NEW x \in prevotes'[w] \cup precommits'[w]
        PROVE  x.val \in Byz \/ x \in sent'
    <3>1. CASE Stays(w)
      BY <2>1, <3>1 DEF CountedWereSigned
    <3>2. ASSUME NEW m, Takes(w, m) PROVE x.val \in Byz \/ x \in sent'
      BY <2>1, <3>2 DEF CountedWereSigned
    <3> QED BY <2>1, <3>1, <3>2
  <2> HIDE DEF Stays, Takes
  <2> QED BY <2>1 DEF CountedWereSigned
<1>2. ASSUME NEW v \in Correct, NEW b \in Blocks, MakePrevote(v, b)
      PROVE  Fine
  <2> DEFINE m == SignedVote(v, "PREVOTE", PrevoteBlockOrNil(v, b))
  <2>1. /\ sent' = sent \cup {m} /\ precommits' = precommits
        /\ prevotes' = [prevotes EXCEPT ![v] = Add(@, m)]
    BY <1>2 DEF MakePrevote, Broadcast
  <2> HIDE DEF m
  <2>2. Takes(v, m)
    BY <2>1, AddAdds DEF TypeOK
  <2>3. \A w \in Correct \ {v} : Stays(w)
    BY <2>1 DEF TypeOK
  <2> HIDE DEF Takes, Stays
  <2> QED BY <2>1, <2>2, <2>3
<1>3. ASSUME NEW v \in Correct, HandleProposalTimeout(v)
      PROVE  Fine
  BY <1>3 DEF HandleProposalTimeout, Broadcast
<1>4. ASSUME NEW v \in Correct, MakePrecommit(v)
      PROVE  Fine
  <2> DEFINE m == SignedVote(v, "PRECOMMIT", PrecommitTarget(v))
  <2>1. /\ sent' = sent \cup {m} /\ prevotes' = prevotes
        /\ precommits' = [precommits EXCEPT ![v] = Add(@, m)]
    BY <1>4 DEF MakePrecommit, Broadcast
  <2> HIDE DEF m
  <2>2. Takes(v, m)
    BY <2>1, AddAdds DEF TypeOK
  <2>3. \A w \in Correct \ {v} : Stays(w)
    BY <2>1 DEF TypeOK
  <2> HIDE DEF Takes, Stays
  <2> QED BY <2>1, <2>2, <2>3
<1>5. ASSUME NEW v \in Correct, NEW m \in sent \cup ByzVotes,
             ReceivePrevote(v, m) \/ ReceivePrecommit(v, m)
      PROVE  Fine
  <2>1. /\ sent' = sent
        /\ \/ /\ prevotes' = [prevotes EXCEPT ![v] = Add(@, m)]
              /\ precommits' = precommits
           \/ /\ precommits' = [precommits EXCEPT ![v] = Add(@, m)]
              /\ prevotes' = prevotes
    BY <1>5 DEF ReceivePrevote, ReceivePrecommit
  <2>2. m.val \in Byz \/ m \in sent'
    BY <2>1, ConsensusAssumption
  <2>3. Takes(v, m)
    BY <2>1, <2>2, AddAdds DEF TypeOK
  <2>4. \A w \in Correct \ {v} : Stays(w)
    BY <2>1 DEF TypeOK
  <2> HIDE DEF Takes, Stays
  <2> QED BY <2>1, <2>3, <2>4
<1>6. ASSUME NEW v \in Correct, DoRoundChange(v) \/ TryFinalize(v) \/ Restart(v)
      PROVE  Fine
  <2>1. /\ sent' = sent
        /\ prevotes' = [prevotes EXCEPT ![v] = {}]
        /\ precommits' = [precommits EXCEPT ![v] = {}]
    BY <1>6 DEF DoRoundChange, TryFinalize, Restart, FreshState
  <2>2. \A w \in Correct : Stays(w)
    BY <2>1 DEF TypeOK
  <2> HIDE DEF Takes, Stays
  <2> QED BY <2>1, <2>2
<1>7. CASE \/ \E v \in Correct : \E b \in Blocks : \/ Propose(v, b)
                                                   \/ ReceiveHeader(v, b)
                                                   \/ ReceiveBody(v, b)
           \/ \E v \in Correct : ApplyLock(v)
           \/ UNCHANGED vars
  BY <1>7 DEF Propose, ReceiveHeader, ReceiveBody, ApplyLock, vars, nodeVars
<1> HIDE DEF Fine
<1> QED BY <1>2, <1>3, <1>4, <1>5, <1>6, <1>7 DEF Next

\* The block taken from the hashes with a quorum is one of them, never NIL.
LEMMA QuorumHashesAreBlocks ==
    ASSUME NEW votes, NEW r, NEW ph, NEW S \in SUBSET QuorumHashes(votes, r, ph),
           S # {}
    PROVE  FirstHash(S) \in S /\ FirstHash(S) \in Blocks /\ FirstHash(S) # NIL
  BY FirstHashMember, VoteSetAssumption DEF QuorumHashes

(* What a step does to a lock and to the finalized block. *)

Kept(v) ==
    /\ lockedHash'[v] = lockedHash[v] /\ lockedRound'[v] = lockedRound[v]
    /\ round[v] <= round'[v] /\ finalized'[v] = finalized[v]

Locked(v) ==
    /\ lockedHash'[v] \in Blocks /\ lockedRound'[v] = round[v]
    /\ round'[v] = round[v] /\ finalized'[v] = finalized[v] /\ sent' = sent
    /\ Polka(lockedHash'[v], round[v])

FinalizedNow(v) ==
    /\ lockedHash'[v] = NIL /\ lockedRound'[v] = -1 /\ round'[v] = 0
    /\ finalized[v] = NIL /\ finalized'[v] \in Blocks /\ sent' = sent
    /\ finalized' = [finalized EXCEPT ![v] = finalized'[v]]
    /\ Decided(finalized'[v], round[v])

Restarted(v) ==
    /\ v \in Restartable
    /\ lockedHash'[v] = NIL /\ lockedRound'[v] = -1 /\ round'[v] = 0
    /\ finalized'[v] = finalized[v] /\ sent' = sent

\* apply_lock locks a block that has a quorum of prevotes in this round.
LEMMA ApplyLockLocks ==
    ASSUME TypeOK, CountedWereSigned, NEW v \in Correct, ApplyLock(v)
    PROVE  Locked(v)
<1> DEFINE b == FirstHash(Lockable(v))
<1>1. /\ lockedHash' = [lockedHash EXCEPT ![v] = b]
      /\ lockedRound' = [lockedRound EXCEPT ![v] = round[v]]
      /\ UNCHANGED <<round, finalized, sent>>
  BY DEF ApplyLock
<1>2. b \in Lockable(v) /\ b \in Blocks
  BY QuorumHashesAreBlocks DEF ApplyLock, Lockable
<1>3. HasQuorum(prevotes[v], round[v], "PREVOTE", b)
  BY <1>2 DEF Lockable, QuorumHashes
<1>4. \A x \in prevotes[v] : x.val \in Byz \/ x \in sent
  BY DEF CountedWereSigned
<1>5. Polka(b, round[v])
  BY <1>3, <1>4, CountedIsBacked DEF Polka
<1> HIDE DEF b
<1>6. lockedHash'[v] = b /\ lockedRound'[v] = round[v]
  BY <1>1 DEF TypeOK
<1>7. QED
  BY <1>1, <1>2, <1>5, <1>6 DEF Locked

\* try_finalize finalizes a block with a quorum of precommits of its round.
LEMMA TryFinalizeFinalizes ==
    ASSUME TypeOK, CountedWereSigned, NEW v \in Correct, TryFinalize(v)
    PROVE  FinalizedNow(v)
<1> DEFINE q == QuorumHashes(precommits[v], round[v], "PRECOMMIT")
           b == FirstHash(q)
<1>1. /\ finalized' = [finalized EXCEPT ![v] = b] /\ finalized[v] = NIL
      /\ q # {} /\ sent' = sent
      /\ round' = [round EXCEPT ![v] = 0]
      /\ lockedHash' = [lockedHash EXCEPT ![v] = NIL]
      /\ lockedRound' = [lockedRound EXCEPT ![v] = -1]
  BY DEF TryFinalize, FreshState, Active
<1>2. b \in q /\ b \in Blocks
  BY <1>1, QuorumHashesAreBlocks
<1>3. HasQuorum(precommits[v], round[v], "PRECOMMIT", b)
  BY <1>2 DEF QuorumHashes
<1>4. \A x \in precommits[v] : x.val \in Byz \/ x \in sent
  BY DEF CountedWereSigned
<1>5. Decided(b, round[v])
  BY <1>3, <1>4, CountedIsBacked DEF Decided
<1> HIDE DEF q, b
<1>6. /\ finalized'[v] = b /\ round'[v] = 0
      /\ lockedHash'[v] = NIL /\ lockedRound'[v] = -1
  BY <1>1 DEF TypeOK
<1>7. QED
  BY <1>1, <1>2, <1>5, <1>6 DEF FinalizedNow

\* Every validator keeps its lock and its block, locks, finalizes or restarts.
LEMMA LockStep ==
    ASSUME TypeOK, CountedWereSigned, [Next]_vars
    PROVE  \/ \A v \in Correct : Kept(v)
           \/ \E v \in Correct : /\ Locked(v) \/ FinalizedNow(v) \/ Restarted(v)
                                 /\ \A w \in Correct \ {v} : Kept(w)
<1> USE Types
<1>1. ASSUME NEW v \in Correct, NEW b \in Blocks,
             \/ Propose(v, b) \/ ReceiveHeader(v, b) \/ ReceiveBody(v, b)
             \/ MakePrevote(v, b)
      PROVE  \A w \in Correct : Kept(w)
  <2>1. UNCHANGED <<round, lockedHash, lockedRound, finalized>>
    BY <1>1 DEF Propose, ReceiveHeader, ReceiveBody, MakePrevote, nodeVars
  <2>2. QED
    BY <2>1 DEF Kept, TypeOK
<1>2. ASSUME NEW v \in Correct,
             \/ HandleProposalTimeout(v) \/ MakePrecommit(v) \/ DoRoundChange(v)
      PROVE  \A w \in Correct : Kept(w)
  BY <1>2 DEF HandleProposalTimeout, MakePrecommit, DoRoundChange, Kept, TypeOK
<1>3. ASSUME NEW v \in Correct, NEW m \in sent \cup ByzVotes,
             ReceivePrevote(v, m) \/ ReceivePrecommit(v, m)
      PROVE  \A w \in Correct : Kept(w)
  BY <1>3 DEF ReceivePrevote, ReceivePrecommit, Kept, TypeOK
<1>4. ASSUME NEW v \in Correct, ApplyLock(v)
      PROVE  /\ Locked(v)
             /\ \A w \in Correct \ {v} : Kept(w)
  <2>1. \A w \in Correct \ {v} : Kept(w)
    BY <1>4 DEF ApplyLock, Kept, TypeOK
  <2>2. QED
    BY <1>4, <2>1, ApplyLockLocks
<1>5. ASSUME NEW v \in Correct, TryFinalize(v)
      PROVE  /\ FinalizedNow(v)
             /\ \A w \in Correct \ {v} : Kept(w)
  <2>1. \A w \in Correct \ {v} : Kept(w)
    BY <1>5 DEF TryFinalize, FreshState, Kept, TypeOK
  <2>2. QED
    BY <1>5, <2>1, TryFinalizeFinalizes
<1>6. ASSUME NEW v \in Correct, Restart(v)
      PROVE  /\ Restarted(v)
             /\ \A w \in Correct \ {v} : Kept(w)
  BY <1>6 DEF Restart, FreshState, Restarted, Kept, TypeOK
<1>7. CASE UNCHANGED vars
  BY <1>7 DEF vars, nodeVars, Kept, TypeOK
<1>8. QED
  BY <1>1, <1>2, <1>3, <1>4, <1>5, <1>6, <1>7 DEF Next

\* Every step, restarts and unguarded votes included, keeps CountInv.
LEMMA CountStep == CountInv /\ [Next]_vars => CountInv'
<1> SUFFICES ASSUME CountInv, [Next]_vars PROVE CountInv'
  OBVIOUS
<1>1. /\ TypeOK /\ CountedWereSigned /\ TypeOK'
      /\ sent \subseteq sent' /\ CountedWereSigned'
  BY TypeInvariant, CountedStaySigned DEF CountInv
<1>2. ASSUME NEW v \in Correct
      PROVE  Kept(v) \/ Locked(v) \/ FinalizedNow(v) \/ Restarted(v)
  BY <1>1, LockStep
<1>3. /\ \A b, r : Polka(b, r) => Polka(b, r)'
      /\ \A b, r : Decided(b, r) => Decided(b, r)'
  BY <1>1, EvidenceStays
<1>4. ASSUME NEW v \in Correct
      PROVE  /\ lockedHash'[v] = NIL <=> lockedRound'[v] = -1
             /\ lockedRound'[v] <= round'[v]
             /\ lockedHash'[v] # NIL => Polka(lockedHash'[v], lockedRound'[v])
             /\ finalized'[v] # NIL => \E r \in Rounds : Decided(finalized'[v], r)
  <2>1. /\ lockedHash[v] = NIL <=> lockedRound[v] = -1
        /\ lockedRound[v] <= round[v]
        /\ lockedHash[v] # NIL => Polka(lockedHash[v], lockedRound[v])
        /\ finalized[v] # NIL => \E r \in Rounds : Decided(finalized[v], r)
        /\ round[v] \in Rounds /\ round[v] \in Nat /\ round'[v] \in Nat
        /\ lockedRound[v] \in Int
    BY <1>1, Types DEF CountInv, TypeOK, LockIsConsistent, LockHasPolka, FinalizedByQuorum
  <2>2. CASE Kept(v)
    BY <2>1, <2>2 DEF Kept
  <2>3. CASE Locked(v)
    BY <2>1, <2>3, VoteSetAssumption DEF Locked
  <2>4. CASE FinalizedNow(v)
    BY <2>1, <2>4 DEF FinalizedNow
  <2>5. CASE Restarted(v)
    BY <2>1, <2>5 DEF Restarted
  <2> QED BY <1>2, <2>2, <2>3, <2>4, <2>5
<1>5. LockIsConsistent'
  BY <1>4 DEF LockIsConsistent
<1>6. \A b, r, v : v \in Correct /\ b = lockedHash'[v] /\ r = lockedRound'[v] /\ Polka(b, r)
                     => Polka(lockedHash[v], lockedRound[v])'
  BY <1>3
<1>7. LockHasPolka'
  BY <1>4, <1>6 DEF LockHasPolka
<1>8. \A b, r, v : v \in Correct /\ b = finalized'[v] /\ Decided(b, r)
                     => Decided(finalized[v], r)'
  BY <1>3
<1>9. FinalizedByQuorum'
  BY <1>4, <1>8 DEF FinalizedByQuorum
<1> QED BY <1>1, <1>5, <1>7, <1>9 DEF CountInv

\* It holds initially.
LEMMA CountInit == Init => CountInv
  BY TypeInit DEF Init, CountInv, CountedWereSigned, LockIsConsistent, LockHasPolka,
                  FinalizedByQuorum

\* It holds in every reachable state.
LEMMA CountInvariant == Spec => []CountInv
  BY CountInit, CountStep, PTL DEF Spec

\* What a node finalizes was precommitted by a quorum in one round, for every
\* validator set and number of faults, whatever the caller leaves out (tracker,
\* header check) and whenever nodes restart (src/consensus.py, try_finalize).
THEOREM FinalityNeedsQuorum == Spec => []FinalizedByQuorum
<1>1. CountInv => FinalizedByQuorum
  BY DEF CountInv
<1> QED BY <1>1, CountInvariant, PTL

\* What a node is locked on was prevoted by a quorum in the locked round, for
\* every validator set, number of faults and caller (src/consensus.py, apply_lock).
THEOREM LocksNeedQuorum == Spec => []LockHasPolka
<1>1. CountInv => LockHasPolka
  BY DEF CountInv
<1> QED BY <1>1, CountInvariant, PTL

-----------------------------------------------------------------------------
(* When the caller asks the tracker and does not restart: one vote per slot *)

\* A vote signed in this step: by an active validator, in its round, for a
\* slot the tracker had free.
InFreeSlot(m) ==
    /\ m.val \in Correct /\ Active(m.val) /\ Active(m.val)'
    /\ m.round = round[m.val] /\ round'[m.val] = round[m.val]
    /\ m.round \in Rounds
    /\ <<m.round, m.phase>> \notin tracker[m.val]
    /\ <<m.round, m.phase>> \in tracker'[m.val]
    /\ lockedHash' = lockedHash /\ lockedRound' = lockedRound
    /\ sent' = sent \cup {m}

\* Votes stay, rounds and trackers of active validators only grow.
SlotGrowth ==
    /\ sent \subseteq sent'
    /\ \A m \in sent' \ sent : InFreeSlot(m)
    /\ \A w \in Correct : Active(w)' =>
          Active(w) /\ round[w] <= round'[w] /\ tracker[w] \subseteq tracker'[w]

\* Signing a vote for a free slot of the tracker is such a step.
LEMMA SigningTakesSlot ==
    ASSUME TypeOK, NEW v \in Correct, NEW m, Active(v),
           m.val = v, m.round = round[v], <<m.round, m.phase>> \notin tracker[v],
           Broadcast(v, m), UNCHANGED <<round, lockedHash, lockedRound, finalized>>
    PROVE  SlotGrowth
<1>1. /\ sent' = sent \cup {m}
      /\ tracker' = [tracker EXCEPT ![v] = @ \cup {<<m.round, m.phase>>}]
      /\ tracker \in [Correct -> SUBSET (Rounds \X Phases)]
  BY DEF Broadcast, TypeOK
<1>2. <<m.round, m.phase>> \in tracker'[v]
  BY <1>1
<1>3. \A w \in Correct : tracker[w] \subseteq tracker'[w]
  BY <1>1
<1>4. Active(v)' /\ m.round \in Rounds
  BY DEF Active, TypeOK
<1>5. InFreeSlot(m)
  BY <1>1, <1>2, <1>4 DEF InFreeSlot
<1>6. \A w \in Correct : round[w] <= round'[w] /\ (Active(w)' => Active(w))
  BY Types DEF TypeOK, Active
<1>7. QED
  BY <1>1, <1>3, <1>5, <1>6 DEF SlotGrowth

\* Whichever of make_prevote, handle_proposal_timeout and make_precommit signs,
\* the slot was free; nothing else signs or takes from the tracker of a height
\* that is open.
LEMMA StepTakesSlot ==
    ASSUME TypeOK, TrackingCaller, [Next]_vars
    PROVE  SlotGrowth
<1>1. ASSUME NEW v \in Correct, NEW b \in Blocks, MakePrevote(v, b)
      PROVE  SlotGrowth
  <2> DEFINE m == SignedVote(v, "PREVOTE", PrevoteBlockOrNil(v, b))
  <2>1. m.val = v /\ m.round = round[v] /\ m.phase = "PREVOTE"
    BY DEF SignedVote
  <2>2. /\ Active(v) /\ <<m.round, m.phase>> \notin tracker[v] /\ Broadcast(v, m)
        /\ UNCHANGED <<round, lockedHash, lockedRound, finalized>>
    BY <1>1, <2>1 DEF MakePrevote, CanVote, TrackingCaller
  <2> HIDE DEF m
  <2> QED BY <2>1, <2>2, SigningTakesSlot
<1>2. ASSUME NEW v \in Correct, HandleProposalTimeout(v)
      PROVE  SlotGrowth
  <2> DEFINE m == SignedVote(v, "PREVOTE", NIL)
  <2>1. m.val = v /\ m.round = round[v] /\ m.phase = "PREVOTE"
    BY DEF SignedVote
  <2>2. /\ Active(v) /\ <<m.round, m.phase>> \notin tracker[v] /\ Broadcast(v, m)
        /\ UNCHANGED <<round, lockedHash, lockedRound, finalized>>
    BY <1>2, <2>1 DEF HandleProposalTimeout, CanVote, TrackingCaller
  <2> HIDE DEF m
  <2> QED BY <2>1, <2>2, SigningTakesSlot
<1>3. ASSUME NEW v \in Correct, MakePrecommit(v)
      PROVE  SlotGrowth
  <2> DEFINE m == SignedVote(v, "PRECOMMIT", PrecommitTarget(v))
  <2>1. m.val = v /\ m.round = round[v] /\ m.phase = "PRECOMMIT"
    BY DEF SignedVote
  <2>2. /\ Active(v) /\ <<m.round, m.phase>> \notin tracker[v] /\ Broadcast(v, m)
        /\ UNCHANGED <<round, lockedHash, lockedRound, finalized>>
    BY <1>3, <2>1 DEF MakePrecommit, CanVote, TrackingCaller
  <2> HIDE DEF m
  <2> QED BY <2>1, <2>2, SigningTakesSlot
<1> USE DEF SlotGrowth, Active, TypeOK, Rounds
<1>4. ASSUME NEW v \in Correct, NEW b \in Blocks,
             Propose(v, b) \/ ReceiveHeader(v, b) \/ ReceiveBody(v, b)
      PROVE  SlotGrowth
  BY <1>4, Types DEF Propose, ReceiveHeader, ReceiveBody, nodeVars
<1>5. ASSUME NEW v \in Correct, NEW m \in sent \cup ByzVotes,
             ReceivePrevote(v, m) \/ ReceivePrecommit(v, m)
      PROVE  SlotGrowth
  BY <1>5, Types DEF ReceivePrevote, ReceivePrecommit
<1>6. ASSUME NEW v \in Correct, ApplyLock(v) \/ DoRoundChange(v)
      PROVE  SlotGrowth
  BY <1>6, Types DEF ApplyLock, DoRoundChange
<1>7. ASSUME NEW v \in Correct, TryFinalize(v)
      PROVE  SlotGrowth
  <2> DEFINE h == FirstHash(QuorumHashes(precommits[v], round[v], "PRECOMMIT"))
  <2>1. h # NIL
    BY <1>7, FirstHashMember, VoteSetAssumption DEF TryFinalize, QuorumHashes
  <2>2. /\ finalized' = [finalized EXCEPT ![v] = h] /\ sent' = sent
        /\ round' = [round EXCEPT ![v] = 0] /\ tracker' = [tracker EXCEPT ![v] = {}]
    BY <1>7 DEF TryFinalize, FreshState
  <2> HIDE DEF h
  <2>3. QED
    BY <2>1, <2>2, Types
<1>8. ASSUME NEW v \in Correct, Restart(v)
      PROVE  SlotGrowth
  BY <1>8 DEF Restart, TrackingCaller
<1>9. CASE UNCHANGED vars
  BY <1>9, Types DEF vars, nodeVars
<1> HIDE DEF SlotGrowth, Active, TypeOK, Rounds
<1> QED BY <1>1, <1>2, <1>3, <1>4, <1>5, <1>6, <1>7, <1>8, <1>9 DEF Next

\* Every signed vote goes on being in the tracker of its validator.
LEMMA SentStaysTracked ==
    ASSUME TypeOK, SentIsTracked, SlotGrowth, TypeOK'
    PROVE  SentIsTracked'
<1> SUFFICES ASSUME NEW m \in sent'
             PROVE  /\ m.val \in Correct /\ m.round \in Rounds
                    /\ Active(m.val)' => /\ m.round <= round'[m.val]
                                         /\ <<m.round, m.phase>> \in tracker'[m.val]
  BY DEF SentIsTracked
<1>1. CASE m \in sent
  <2>1. /\ m.val \in Correct /\ m.round \in Rounds
        /\ Active(m.val) => /\ m.round <= round[m.val]
                            /\ <<m.round, m.phase>> \in tracker[m.val]
    BY <1>1 DEF SentIsTracked
  <2>2. Active(m.val)' => /\ Active(m.val) /\ round[m.val] <= round'[m.val]
                          /\ tracker[m.val] \subseteq tracker'[m.val]
    BY <2>1 DEF SlotGrowth
  <2>3. m.round \in Nat /\ round[m.val] \in Nat /\ round'[m.val] \in Nat
    BY <2>1 DEF TypeOK, Rounds
  <2>4. QED
    BY <2>1, <2>2, <2>3
<1>2. CASE m \notin sent
  BY <1>2 DEF SlotGrowth, InFreeSlot, Rounds
<1>3. QED
  BY <1>1, <1>2

\* A step adds no second vote to a slot.
LEMMA SingleVoteStays ==
    ASSUME SentIsTracked, SingleVote, SlotGrowth
    PROVE  SingleVote'
<1> SUFFICES ASSUME NEW x \in sent', NEW y \in sent', SameSlot(x, y)
             PROVE  x.hash = y.hash
  BY DEF SingleVote, SameSlot
<1>1. ASSUME NEW f \in sent' \ sent, NEW o \in sent
      PROVE  ~ SameSlot(f, o) /\ ~ SameSlot(o, f)
  BY <1>1 DEF SlotGrowth, InFreeSlot, SentIsTracked, SameSlot
<1>2. CASE x \in sent /\ y \in sent
  BY <1>2 DEF SingleVote
<1>3. CASE x \notin sent /\ y \notin sent
  <2>1. sent' = sent \cup {x}
    BY <1>3 DEF SlotGrowth, InFreeSlot
  <2>2. QED
    BY <1>3, <2>1
<1>4. QED
  BY <1>1, <1>2, <1>3

\* Every step of a caller that asks the tracker and stays up keeps SlotInv.
LEMMA SlotStep ==
    ASSUME TrackingCaller
    PROVE  SlotInv /\ [Next]_vars => SlotInv'
<1> SUFFICES ASSUME SlotInv, [Next]_vars PROVE SlotInv'
  OBVIOUS
<1>1. CountInv' /\ TypeOK /\ TypeOK'
  BY CountStep DEF SlotInv, CountInv
<1>2. SlotGrowth
  BY <1>1, StepTakesSlot
<1> QED BY <1>1, <1>2, SentStaysTracked, SingleVoteStays DEF SlotInv

\* It holds initially.
LEMMA SlotInit == Init => SlotInv
  BY CountInit DEF Init, SlotInv, SentIsTracked, SingleVote

\* It holds in every reachable state.
LEMMA SlotInvariant == ASSUME TrackingCaller PROVE Spec => []SlotInv
  BY SlotInit, SlotStep, PTL DEF Spec

\* A correct validator signs one vote per slot, for every validator set and any
\* number of faults, when VoteSentTracker is asked before each vote and is not lost
\* in a restart (src/consensus.py, VoteSentTracker).
THEOREM OneVotePerSlot ==
    ASSUME TrackingCaller
    PROVE  Spec => []SingleVote
<1>1. SlotInv => SingleVote
  BY DEF SlotInv
<1> QED BY <1>1, SlotInvariant, PTL

\* VoteSet.add then never reports a correct validator as an equivocator.
THEOREM EvidenceIsTrue ==
    ASSUME TrackingCaller
    PROVE  Spec => []NoFalseEvidence
<1>1. SlotInv => NoFalseEvidence
  <2> SUFFICES ASSUME SlotInv, NEW v \in Correct, NEW m \in sent,
                      NEW votes \in {prevotes[v], precommits[v]}
               PROVE  AddOutcome(votes, m) # "EQUIVOCATION_DETECTED"
    BY DEF NoFalseEvidence
  <2>1. m.val \in Correct
    BY DEF SlotInv, SentIsTracked
  <2>2. ASSUME NEW x \in votes, SameSlot(x, m) PROVE x \in sent
    BY <2>1, <2>2 DEF SlotInv, CountInv, CountedWereSigned, SameSlot, Correct
  <2>3. \A x \in Stored(votes, m) : x.hash = m.hash
    BY <2>2 DEF Stored, SlotInv, SingleVote
  <2>4. QED
    BY <2>3 DEF AddOutcome
<1> QED BY <1>1, SlotInvariant, PTL

-----------------------------------------------------------------------------
(* When quorums intersect, too: locks only advance *)

\* Two quorums of one round and phase back the same block.
LEMMA OneBlockPerRound ==
    ASSUME QuorumsIntersect, SingleVote, NEW r, NEW ph, NEW b, NEW c,
           Cardinality(Backers(r, ph, b)) >= Threshold,
           Cardinality(Backers(r, ph, c)) >= Threshold
    PROVE  b = c
<1>1. PICK w \in Correct : w \in Backers(r, ph, b) /\ w \in Backers(r, ph, c)
  BY BackersAreValidators, QuorumsMeet
<1>2. Signed(w, r, ph, b) /\ Signed(w, r, ph, c)
  BY <1>1 DEF Backers, Correct
<1>3. QED
  BY <1>2 DEF Signed, SingleVote, SameSlot

\* A lock changes only to a block of a later round, until the height ends, also
\* when votes for unknown blocks are counted.
THEOREM LocksOnlyAdvance ==
    ASSUME QuorumsIntersect, TrackingCaller
    PROVE  Spec => LockMovesForward
<1>1. ASSUME SlotInv, [Next]_vars, NEW v \in Correct,
             lockedHash'[v] # lockedHash[v], finalized'[v] = NIL
      PROVE  lockedRound'[v] > lockedRound[v]
  <2>1. Locked(v)
    <3>1. Kept(v) \/ Locked(v) \/ FinalizedNow(v)
      BY <1>1, LockStep DEF SlotInv, CountInv, Restarted, TrackingCaller
    <3>2. QED
      BY <1>1, <3>1, VoteSetAssumption DEF Kept, FinalizedNow
  <2>2. /\ lockedRound[v] <= round[v] /\ lockedRound'[v] = round[v]
        /\ lockedRound[v] \in Int /\ round[v] \in Nat
    BY <1>1, <2>1, Types DEF Locked, SlotInv, CountInv, LockIsConsistent, TypeOK
  <2>3. lockedRound[v] # round[v]
    <3>1. SUFFICES ASSUME lockedRound[v] = round[v] PROVE FALSE
      OBVIOUS
    <3>2. lockedHash[v] # NIL
      BY <1>1, <2>2, <3>1 DEF SlotInv, CountInv, LockIsConsistent
    <3>3. Polka(lockedHash[v], round[v]) /\ Polka(lockedHash'[v], round[v])
      BY <1>1, <2>1, <3>1, <3>2 DEF SlotInv, CountInv, LockHasPolka, Locked
    <3>4. QED
      BY <1>1, <3>3, OneBlockPerRound DEF Polka, SlotInv
  <2>4. QED
    BY <2>2, <2>3
<1>2. SlotInv /\ [Next]_vars
      => [\A v \in Correct :
             lockedHash'[v] # lockedHash[v] /\ finalized'[v] = NIL
             => lockedRound'[v] > lockedRound[v]]_vars
  BY <1>1
<1>3. QED
  BY <1>2, SlotInvariant, PTL DEF Spec, LockMovesForward
=============================================================================
