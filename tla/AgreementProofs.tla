-------------------------- MODULE AgreementProofs --------------------------
(***************************************************************************)
(* Agreement of the voting of one height, for every number of rounds and   *)
(* every validator set in which quorums intersect in a correct validator   *)
(* (n = 3f + 1 with f faults, or the configured n = 8 with one), when the  *)
(* caller asks the tracker before it signs, counts votes for blocks it     *)
(* knows, prevotes the proposal of its round, locks before it precommits,  *)
(* and does not restart.  IInv is inductive (InvariantStep); the heart of  *)
(* it is NoPolkaForAnother: a quorum of prevotes for another block, in a   *)
(* later round than one that may have decided, would contain a correct     *)
(* validator whose lock forbids its prevote.                               *)
(***************************************************************************)
EXTENDS ConsensusProofs

-----------------------------------------------------------------------------
(* What a step signs, given the signer's lock *)

\* A prevote that the lock allows, a precommit that it covers.
LockAllows(m) ==
    /\ m.phase = "PREVOTE" /\ m.hash # NIL =>
          \/ lockedHash[m.val] \in {NIL, m.hash}
          \/ \E r \in Rounds : /\ lockedRound[m.val] < r /\ r <= m.round
                               /\ Polka(m.hash, r)
    /\ m.phase = "PRECOMMIT" /\ m.hash # NIL =>
          lockedHash[m.val] = m.hash /\ lockedRound[m.val] = m.round

Fresh(m) == InFreeSlot(m) /\ LockAllows(m)

Growth == SlotGrowth /\ \A m \in sent' \ sent : LockAllows(m)

\* make_prevote signs a prevote that the lock allows.
LEMMA PrevoteIsAllowed ==
    ASSUME CountInv, NEW v \in Correct, NEW b \in Blocks, MakePrevote(v, b)
    PROVE  \A m \in sent' \ sent : LockAllows(m)
<1> DEFINE m == SignedVote(v, "PREVOTE", PrevoteBlockOrNil(v, b))
<1>1. /\ m.val = v /\ m.round = round[v] /\ m.phase = "PREVOTE"
      /\ m.hash = PrevoteBlockOrNil(v, b)
  BY DEF SignedVote
<1>2. sent' = sent \cup {m}
  BY DEF MakePrevote, Broadcast
<1>3. m.hash # NIL => m.hash = b /\ \/ lockedHash[v] \in {NIL, b}
                                    \/ LaterRoundPrevoteQuorum(v, b)
  BY <1>1 DEF PrevoteBlockOrNil
<1>4. ASSUME LaterRoundPrevoteQuorum(v, b)
      PROVE  \E r \in Rounds : lockedRound[v] < r /\ r <= round[v] /\ Polka(b, r)
  <2>1. PICK r \in Rounds : /\ lockedRound[v] < r /\ r <= round[v]
                            /\ HasQuorum(prevotes[v], r, "PREVOTE", b)
    BY <1>4 DEF LaterRoundPrevoteQuorum
  <2>2. \A x \in prevotes[v] : x.val \in Byz \/ x \in sent
    BY DEF CountInv, CountedWereSigned
  <2>3. Polka(b, r)
    BY <2>1, <2>2, CountedIsBacked DEF Polka
  <2>4. QED
    BY <2>1, <2>3
<1> HIDE DEF m
<1>5. QED
  BY <1>1, <1>2, <1>3, <1>4 DEF LockAllows

\* Under HeaderFirst every block with a quorum may be locked, and under LockFirst
\* apply_lock comes first: make_precommit votes for the lock of this very round.
LEMMA PrecommitIsAllowed ==
    ASSUME PrevotesNameKnownBlocks, LockFirst, NEW v \in Correct, MakePrecommit(v)
    PROVE  \A m \in sent' \ sent : LockAllows(m)
<1> DEFINE m == SignedVote(v, "PRECOMMIT", PrecommitTarget(v))
           q == QuorumHashes(prevotes[v], round[v], "PREVOTE")
<1>1. /\ m.val = v /\ m.round = round[v] /\ m.phase = "PRECOMMIT"
      /\ m.hash = PrecommitTarget(v)
  BY DEF SignedVote
<1>2. sent' = sent \cup {m}
  BY DEF MakePrecommit, Broadcast
<1>3. q \subseteq headers[v]
  <2>1. ASSUME NEW b \in q PROVE b \in headers[v]
    <3>1. PICK x \in prevotes[v] : x.hash = b
      BY DEF QuorumHashes, VotesOf
    <3>2. b # NIL
      BY VoteSetAssumption DEF QuorumHashes
    <3>3. QED
      BY <3>1, <3>2 DEF PrevotesNameKnownBlocks
  <2>2. QED
    BY <2>1
<1>4. Lockable(v) = q
  BY <1>3 DEF Lockable
<1>5. m.hash # NIL => lockedHash[v] = m.hash /\ lockedRound[v] = round[v]
  <2>1. q = {} => m.hash = NIL
    BY <1>1 DEF PrecommitTarget
  <2>2. q # {} => lockedHash[v] = FirstHash(q) /\ lockedRound[v] = round[v]
    BY <1>4 DEF MakePrecommit, LockApplied
  <2>3. q # {} => m.hash = lockedHash[v]
    BY <1>1, <2>2 DEF PrecommitTarget
  <2>4. QED
    BY <2>1, <2>2, <2>3
<1> HIDE DEF m, q
<1>6. QED
  BY <1>1, <1>2, <1>5 DEF LockAllows

\* Whatever a careful caller calls, votes only grow, in free slots and covered
\* by locks, and rounds do not go back while the height is open.
LEMMA StepGrowth ==
    ASSUME IInv, CarefulCaller, [Next]_vars
    PROVE  Growth
<1>1. CountInv /\ TypeOK /\ PrevotesNameKnownBlocks
  BY DEF IInv, SlotInv, CountInv
<1>2. SlotGrowth
  BY <1>1, StepTakesSlot DEF CarefulCaller
<1>3. ASSUME NEW v \in Correct, HandleProposalTimeout(v)
      PROVE  \A m \in sent' \ sent : LockAllows(m)
  BY <1>3 DEF HandleProposalTimeout, Broadcast, SignedVote, LockAllows
<1>4. CASE sent' = sent
  BY <1>2, <1>4 DEF Growth
<1>5. \/ sent' = sent
      \/ \E v \in Correct : \/ \E b \in Blocks : MakePrevote(v, b)
                            \/ HandleProposalTimeout(v)
                            \/ MakePrecommit(v)
  BY DEF Next, Propose, ReceiveHeader, ReceiveBody, ReceivePrevote, ReceivePrecommit,
         ApplyLock, DoRoundChange, TryFinalize, Restart, vars, nodeVars
<1>6. LockFirst
  BY DEF CarefulCaller
<1> QED BY <1>1, <1>2, <1>3, <1>4, <1>5, <1>6, PrevoteIsAllowed, PrecommitIsAllowed DEF Growth

\* What a round can decide only shrinks.
LEMMA CouldDecideShrinks ==
    ASSUME IInv, Growth, NEW b \in Blocks, NEW r \in Rounds, CouldDecide(b, r)',
           TypeOK'
    PROVE  CouldDecide(b, r)
<1> DEFINE P == Backers(r, "PRECOMMIT", b)
           M == {w \in Correct : MayStillPrecommit(w, r)}
<1>1. ASSUME NEW w \in Correct, Signed(w, r, "PRECOMMIT", b)'
      PROVE  w \in P \cup M
  <2>1. PICK m \in sent' : /\ m.val = w /\ m.round = r
                           /\ m.phase = "PRECOMMIT" /\ m.hash = b
    BY <1>1 DEF Signed
  <2>2. CASE m \in sent
    BY <2>1, <2>2 DEF Backers, Signed
  <2>3. CASE m \notin sent
    <3>1. Active(w) /\ round[w] = r /\ <<r, "PRECOMMIT">> \notin tracker[w]
      BY <2>1, <2>3 DEF Growth, SlotGrowth, Fresh, InFreeSlot, LockAllows
    <3>2. \A h : ~ Signed(w, r, "PRECOMMIT", h)
      BY <3>1 DEF Signed, IInv, SlotInv, CountInv, SentIsTracked
    <3>3. round[w] <= r
      BY <3>1 DEF IInv, SlotInv, CountInv, TypeOK, Rounds
    <3>4. QED
      BY <3>1, <3>2, <3>3 DEF MayStillPrecommit
  <2>4. QED
    BY <2>2, <2>3
<1>2. ASSUME NEW w \in Correct, MayStillPrecommit(w, r)'
      PROVE  w \in M
  <2>1. Active(w) /\ round[w] <= round'[w] /\ round'[w] <= r
    BY <1>2 DEF MayStillPrecommit, Growth, SlotGrowth
  <2>2. round[w] <= r
    BY <2>1 DEF IInv, SlotInv, CountInv, TypeOK, Rounds
  <2>3. \A h \in Blocks \cup {NIL} : ~ Signed(w, r, "PRECOMMIT", h)
    BY <1>2 DEF MayStillPrecommit, Signed, Growth, SlotGrowth
  <2>4. QED
    BY <2>1, <2>2, <2>3 DEF MayStillPrecommit
<1>3. P' \cup M' \subseteq P \cup M
  BY <1>1, <1>2 DEF Backers
<1>4. P \cup M \subseteq Validators
  BY BackersAreValidators DEF Correct
<1>5. /\ Cardinality(P' \cup M') <= Cardinality(P \cup M)
      /\ Cardinality(P' \cup M') \in Nat /\ Cardinality(P \cup M) \in Nat
  BY <1>3, <1>4, ValidatorSets
<1>6. Cardinality(P' \cup M') >= Threshold
  BY DEF CouldDecide
<1>7. QED
  BY <1>5, <1>6, Arithmetic DEF CouldDecide

-----------------------------------------------------------------------------
(* Each part of IInv is preserved *)

\* Without restarts a validator keeps its lock, locks or finalizes.
LEMMA CarefulLockStep ==
    ASSUME IInv, CarefulCaller, [Next]_vars
    PROVE  \/ \A v \in Correct : Kept(v)
           \/ \E v \in Correct : /\ Locked(v) \/ FinalizedNow(v)
                                 /\ \A w \in Correct \ {v} : Kept(w)
  BY LockStep DEF IInv, SlotInv, CountInv, Restarted, CarefulCaller, TrackingCaller

\* Prevotes go on naming blocks whose header is stored.
LEMMA PrevotesStayKnown ==
    ASSUME TypeOK, PrevotesNameKnownBlocks, CarefulCaller, [Next]_vars
    PROVE  PrevotesNameKnownBlocks'
<1> DEFINE Known(w) == \A x \in prevotes'[w] : x.hash \in headers'[w] \cup {NIL}
           Stays(w) == prevotes'[w] \subseteq prevotes[w] /\ headers[w] \subseteq headers'[w]
<1>1. ASSUME NEW w \in Correct, Stays(w) PROVE Known(w)
  BY <1>1 DEF PrevotesNameKnownBlocks
<1>2. ASSUME NEW v \in Correct, NEW m,
             prevotes' = [prevotes EXCEPT ![v] = Add(@, m)], headers' = headers,
             m.hash \in headers[v] \cup {NIL}
      PROVE  \A w \in Correct : Known(w)
  <2>1. prevotes'[v] \subseteq prevotes[v] \cup {m}
    BY <1>2, AddAdds DEF TypeOK
  <2>2. Known(v)
    BY <1>2, <2>1 DEF PrevotesNameKnownBlocks
  <2>3. \A w \in Correct \ {v} : Stays(w)
    BY <1>2 DEF TypeOK
  <2> HIDE DEF Known, Stays
  <2> QED BY <1>1, <2>2, <2>3
<1>3. ASSUME NEW v \in Correct, NEW b \in Blocks, MakePrevote(v, b)
      PROVE  \A w \in Correct : Known(w)
  <2> DEFINE m == SignedVote(v, "PREVOTE", PrevoteBlockOrNil(v, b))
  <2>1. /\ b \in headers[v] /\ headers' = headers
        /\ prevotes' = [prevotes EXCEPT ![v] = Add(@, m)]
    BY <1>3 DEF MakePrevote, CarefulCaller
  <2>2. m.hash \in {b, NIL}
    BY DEF SignedVote, PrevoteBlockOrNil
  <2> HIDE DEF m, Known
  <2> QED BY <1>2, <2>1, <2>2
<1>4. ASSUME NEW v \in Correct, NEW m \in sent \cup ByzVotes, ReceivePrevote(v, m)
      PROVE  \A w \in Correct : Known(w)
  <2>1. /\ m.hash \in headers[v] \cup {NIL} /\ headers' = headers
        /\ prevotes' = [prevotes EXCEPT ![v] = Add(@, m)]
    BY <1>4 DEF ReceivePrevote, Acceptable, CarefulCaller
  <2> HIDE DEF Known
  <2> QED BY <1>2, <2>1
<1>5. ASSUME NEW v \in Correct, DoRoundChange(v) \/ TryFinalize(v)
      PROVE  \A w \in Correct : Known(w)
  <2>1. /\ prevotes' = [prevotes EXCEPT ![v] = {}]
        /\ \A w \in Correct \ {v} : headers'[w] = headers[w]
    BY <1>5 DEF DoRoundChange, TryFinalize, FreshState, TypeOK
  <2>2. Known(v)
    BY <2>1 DEF TypeOK
  <2>3. \A w \in Correct \ {v} : Stays(w)
    BY <2>1 DEF TypeOK
  <2> HIDE DEF Known, Stays
  <2> QED BY <1>1, <2>2, <2>3
<1>6. ASSUME NEW v \in Correct, Restart(v) PROVE FALSE
  BY <1>6 DEF Restart, CarefulCaller, TrackingCaller
<1>7. ASSUME \/ \E v \in Correct : \E b \in Blocks : \/ Propose(v, b)
                                                     \/ ReceiveHeader(v, b)
                                                     \/ ReceiveBody(v, b)
             \/ \E v \in Correct : \E m \in sent \cup ByzVotes : ReceivePrecommit(v, m)
             \/ \E v \in Correct : \/ HandleProposalTimeout(v)
                                   \/ MakePrecommit(v)
                                   \/ ApplyLock(v)
             \/ UNCHANGED vars
      PROVE  \A w \in Correct : Known(w)
  <2>1. \A w \in Correct : Stays(w)
    BY <1>7 DEF Propose, ReceiveHeader, ReceiveBody, ReceivePrecommit, HandleProposalTimeout,
                MakePrecommit, ApplyLock, vars, nodeVars, TypeOK
  <2> HIDE DEF Known, Stays
  <2> QED BY <1>1, <2>1
<1> HIDE DEF Known
<1>8. \A w \in Correct : Known(w)
  BY <1>3, <1>4, <1>5, <1>6, <1>7 DEF Next
<1> QED BY <1>8 DEF PrevotesNameKnownBlocks, Known

\* A precommit for a block goes on having the quorum of prevotes behind it.
LEMMA PrecommitKeepsPolka ==
    ASSUME IInv, Growth
    PROVE  PrecommitHasPolka'
<1> SUFFICES ASSUME NEW m \in sent', m.phase = "PRECOMMIT", m.hash # NIL
             PROVE  Polka(m.hash, m.round)'
  BY DEF PrecommitHasPolka
<1>1. Polka(m.hash, m.round)
  <2>1. CASE m \in sent
    BY <2>1 DEF IInv, SlotInv, CountInv, PrecommitHasPolka
  <2>2. CASE m \notin sent
    <3>1. /\ m.val \in Correct
          /\ lockedHash[m.val] = m.hash /\ lockedRound[m.val] = m.round
      BY <2>2 DEF Growth, SlotGrowth, Fresh, InFreeSlot, LockAllows
    <3>2. QED
      BY <3>1 DEF IInv, SlotInv, CountInv, LockHasPolka
  <2>3. QED
    BY <2>1, <2>2
<1>2. QED
  BY <1>1, EvidenceStays DEF Growth, SlotGrowth

\* A lock of this round names the block this round's precommits name.
LEMMA PrecommitStillHoldsLock ==
    ASSUME IInv, Growth, CarefulCaller, QuorumsIntersect, [Next]_vars
    PROVE  PrecommitHoldsLock'
<1> SUFFICES ASSUME NEW v \in Correct, NEW m \in sent', m.val = v,
                    m.phase = "PRECOMMIT", m.hash # NIL, Active(v)'
             PROVE  /\ lockedRound'[v] >= m.round
                    /\ lockedRound'[v] = m.round => lockedHash'[v] = m.hash
  BY DEF PrecommitHoldsLock
<1>1. CASE m \notin sent
  <2>1. Fresh(m)
    BY <1>1 DEF Growth, SlotGrowth, Fresh
  <2>2. /\ lockedHash[v] = m.hash /\ lockedRound[v] = m.round /\ m.round \in Rounds
        /\ lockedHash' = lockedHash /\ lockedRound' = lockedRound
    BY <2>1 DEF Fresh, InFreeSlot, LockAllows
  <2>3. QED
    BY <2>2, Types
<1>2. CASE m \in sent
  <2>0. Active(v)
    BY DEF Growth, SlotGrowth
  <2>1. /\ m.round <= round[v] /\ m.round \in Nat /\ round[v] \in Nat
    <3>1. m.round <= round[v] /\ m.round \in Rounds
      BY <1>2, <2>0 DEF IInv, SlotInv, CountInv, SentIsTracked
    <3>2. QED
      BY <3>1, Types DEF IInv, SlotInv, CountInv, TypeOK
  <2>2. /\ lockedRound[v] >= m.round
        /\ lockedRound[v] = m.round => lockedHash[v] = m.hash
    BY <1>2, <2>0 DEF IInv, SlotInv, CountInv, PrecommitHoldsLock
  <2>3. Kept(v) \/ Locked(v) \/ FinalizedNow(v)
    BY CarefulLockStep
  <2>4. CASE Kept(v)
    BY <2>2, <2>4 DEF Kept
  <2>5. CASE Locked(v)
    <3>1. Polka(m.hash, m.round)
      BY <1>2 DEF IInv, SlotInv, CountInv, PrecommitHasPolka
    <3>2. lockedRound'[v] = m.round => lockedHash'[v] = m.hash
      BY <2>5, <3>1, OneBlockPerRound DEF Locked, Polka, IInv, SlotInv, CountInv
    <3>3. QED
      BY <2>1, <2>5, <3>2 DEF Locked
  <2>6. CASE FinalizedNow(v)
    BY <2>6, VoteSetAssumption DEF FinalizedNow, Active
  <2>7. QED
    BY <2>3, <2>4, <2>5, <2>6
<1>3. QED
  BY <1>1, <1>2

\* Between a precommit and a later prevote for another block lies a quorum of
\* prevotes for that block, and it was there before the prevote was signed.
LEMMA PrevoteAfterPolka ==
    ASSUME IInv, Growth, NEW pc \in sent', NEW pv \in sent',
           pc.phase = "PRECOMMIT", pv.phase = "PREVOTE", pc.val = pv.val,
           pc.hash # NIL, pv.hash \notin {NIL, pc.hash}, pc.round < pv.round
    PROVE  \E r \in Rounds : pc.round < r /\ r <= pv.round /\ Polka(pv.hash, r)
<1>1. CASE pc \in sent /\ pv \in sent
  BY <1>1 DEF IInv, SlotInv, CountInv, PrevoteRespectsLock
<1>2. CASE pc \notin sent
  <2>1. Fresh(pc) /\ sent' = sent \cup {pc}
    BY <1>2 DEF Growth, SlotGrowth, Fresh, InFreeSlot, LockAllows
  <2>2. pv \in sent
    BY <2>1
  <2>3. pv.round <= pc.round /\ pv.round \in Rounds /\ pc.round \in Rounds
    BY <2>1, <2>2 DEF Fresh, InFreeSlot, LockAllows, IInv, SlotInv, CountInv, SentIsTracked
  <2>4. QED
    BY <2>3, Types
<1>3. CASE pc \in sent /\ pv \notin sent
  <2> DEFINE v == pv.val
  <2>1. Fresh(pv)
    BY <1>3 DEF Growth, SlotGrowth, Fresh
  <2>2. v \in Correct /\ Active(v) /\ pv.round = round[v] /\ pv.round \in Rounds
    BY <2>1 DEF Fresh, InFreeSlot, LockAllows
  <2>3. /\ lockedRound[v] >= pc.round
        /\ lockedRound[v] = pc.round => lockedHash[v] = pc.hash
    BY <1>3, <2>2 DEF IInv, SlotInv, CountInv, PrecommitHoldsLock
  <2>4. pc.round \in Nat /\ lockedRound[v] \in Rounds \cup {-1} /\ pv.round \in Nat
    BY <1>3, <2>2, Types DEF IInv, SlotInv, CountInv, TypeOK, SentIsTracked
  <2>5. lockedHash[v] # NIL /\ lockedRound[v] \in Rounds /\ lockedRound[v] <= pv.round
    BY <2>2, <2>3, <2>4 DEF IInv, SlotInv, CountInv, LockIsConsistent
  <2>6. CASE lockedHash[v] = pv.hash
    <3>1. Polka(pv.hash, lockedRound[v])
      BY <2>2, <2>5, <2>6 DEF IInv, SlotInv, CountInv, LockHasPolka
    <3>2. pc.round < lockedRound[v]
      BY <2>3, <2>4, <2>5, <2>6, Types
    <3>3. QED
      BY <2>5, <3>1, <3>2
  <2>7. CASE \E r \in Rounds : /\ lockedRound[v] < r /\ r <= pv.round
                               /\ Polka(pv.hash, r)
    BY <2>3, <2>4, <2>5, <2>7, Types
  <2>8. QED
    BY <2>1, <2>5, <2>6, <2>7 DEF Fresh, InFreeSlot, LockAllows
<1>4. QED
  BY <1>1, <1>2, <1>3

\* No step prevotes against an earlier precommit without a later quorum.
LEMMA PrevoteStillRespectsLock ==
    ASSUME IInv, Growth
    PROVE  PrevoteRespectsLock'
<1> SUFFICES ASSUME NEW pc \in sent', NEW pv \in sent',
                    pc.phase = "PRECOMMIT", pv.phase = "PREVOTE", pc.val = pv.val,
                    pc.hash # NIL, pv.hash \notin {NIL, pc.hash}, pc.round < pv.round
             PROVE  \E r \in Rounds : /\ pc.round < r /\ r <= pv.round
                                      /\ Polka(pv.hash, r)'
  BY DEF PrevoteRespectsLock
<1>1. QED
  BY PrevoteAfterPolka, EvidenceStays DEF Growth, SlotGrowth

\* The two quorums share a correct validator, which respected its lock.
LEMMA NoPolkaForAnother ==
    ASSUME IInv, Growth, QuorumsIntersect, TypeOK', SentIsTracked'
    PROVE  PolkaExcludesOlderDecision'
<1> SUFFICES ASSUME NEW b \in Blocks, NEW c \in Blocks, NEW r \in Rounds, NEW s \in Rounds,
                    r < s, b # c, Polka(c, s)', CouldDecide(b, r)'
             PROVE  FALSE
  BY DEF PolkaExcludesOlderDecision
<1>1. CouldDecide(b, r)
  BY CouldDecideShrinks
<1>2. SUFFICES \E t \in Rounds : r < t /\ Polka(c, t)
  BY <1>1 DEF IInv, SlotInv, CountInv, PolkaExcludesOlderDecision
<1> DEFINE P == Backers(s, "PREVOTE", c)
           Q == Backers(r, "PRECOMMIT", b) \cup {w \in Correct : MayStillPrecommit(w, r)}
<1>3. /\ P' \in SUBSET Validators /\ Q' \in SUBSET Validators
      /\ Cardinality(P') >= Threshold /\ Cardinality(Q') >= Threshold
  <2>1. P' \subseteq Validators /\ Q' \subseteq Validators
    BY ConsensusAssumption DEF Backers, Correct
  <2>2. Cardinality(P') >= Threshold /\ Cardinality(Q') >= Threshold
    BY DEF Polka, CouldDecide
  <2>3. QED
    BY <2>1, <2>2
<1> HIDE DEF P, Q
<1>4. PICK w \in Correct : w \in P' /\ w \in Q'
  BY <1>3, QuorumsMeet
<1>5. PICK pv \in sent' : /\ pv.val = w /\ pv.round = s
                          /\ pv.phase = "PREVOTE" /\ pv.hash = c
  BY <1>4 DEF P, Backers, Signed, Correct
<1>6. c # NIL /\ b # NIL
  BY VoteSetAssumption
<1>7. CASE Signed(w, r, "PRECOMMIT", b)'
  <2>1. PICK pc \in sent' : /\ pc.val = w /\ pc.round = r
                            /\ pc.phase = "PRECOMMIT" /\ pc.hash = b
    BY <1>7 DEF Signed
  <2>2. QED
    BY <1>5, <1>6, <2>1, PrevoteAfterPolka
<1>8. CASE MayStillPrecommit(w, r)'
  <2>1. Active(w)' /\ round'[w] <= r
    BY <1>8 DEF MayStillPrecommit
  <2>2. s <= round'[w]
    BY <1>5, <2>1 DEF SentIsTracked
  <2>3. round'[w] \in Rounds
    BY DEF TypeOK
  <2>4. QED
    BY <2>1, <2>2, <2>3, Types
<1>9. QED
  BY <1>4, <1>7, <1>8 DEF Q, Backers, Correct

-----------------------------------------------------------------------------
(* The theorems *)

\* The inductive invariant holds initially.
LEMMA InvariantInit ==
    ASSUME QuorumsIntersect
    PROVE  Init => IInv
<1> SUFFICES ASSUME Init PROVE IInv
  OBVIOUS
<1>1. SlotInv
  BY SlotInit
<1>2. sent = {}
  BY DEF Init
<1>3. PrecommitHasPolka /\ PrecommitHoldsLock /\ PrevoteRespectsLock
  BY <1>2 DEF PrecommitHasPolka, PrecommitHoldsLock, PrevoteRespectsLock
<1>4. PrevotesNameKnownBlocks
  BY DEF Init, PrevotesNameKnownBlocks
<1>5. PolkaExcludesOlderDecision
  <2>1. ASSUME NEW c, NEW s PROVE ~ Polka(c, s)
    <3>1. Backers(s, "PREVOTE", c) = Byz
      BY <1>2 DEF Backers, Signed
    <3>2. Cardinality(Byz) \in Nat /\ Cardinality(Byz) < Threshold
      BY ConsensusAssumption, ValidatorSets, Arithmetic DEF QuorumsIntersect
    <3>3. QED
      BY <3>1, <3>2, Arithmetic DEF Polka
  <2>2. QED
    BY <2>1 DEF PolkaExcludesOlderDecision
<1>6. QED
  BY <1>1, <1>3, <1>4, <1>5 DEF IInv

\* Every step of a careful caller keeps the inductive invariant.
LEMMA InvariantStep ==
    ASSUME QuorumsIntersect, CarefulCaller
    PROVE  IInv /\ [Next]_vars => IInv'
<1> SUFFICES ASSUME IInv, [Next]_vars PROVE IInv'
  OBVIOUS
<1>1. SlotInv'
  BY SlotStep DEF IInv, CarefulCaller
<1>2. TypeOK /\ TypeOK' /\ SentIsTracked'
  BY <1>1 DEF IInv, SlotInv, CountInv
<1>3. Growth
  BY StepGrowth
<1>4. PrevotesNameKnownBlocks'
  BY <1>2, PrevotesStayKnown DEF IInv
<1>5. PrecommitHasPolka' /\ PrevoteRespectsLock'
  BY <1>3, PrecommitKeepsPolka, PrevoteStillRespectsLock
<1>6. PrecommitHoldsLock' /\ PolkaExcludesOlderDecision'
  BY <1>2, <1>3, PrecommitStillHoldsLock, NoPolkaForAnother
<1>7. QED
  BY <1>1, <1>4, <1>5, <1>6 DEF IInv

\* Two finalized blocks were decided in two rounds; the later decision needs a
\* quorum of prevotes, which excludes the earlier one.
LEMMA InvariantAgrees ==
    ASSUME QuorumsIntersect
    PROVE  IInv => Agreement
<1> SUFFICES ASSUME IInv PROVE Agreement
  OBVIOUS
<1>1. ASSUME NEW b \in Blocks, NEW c \in Blocks, NEW r \in Rounds, NEW s \in Rounds,
             Decided(b, r), Decided(c, s), r < s
      PROVE  b = c
  <2>1. PICK w \in Correct : w \in Backers(s, "PRECOMMIT", c)
    BY <1>1, BackersAreValidators, QuorumsMeet DEF Decided
  <2>2. Polka(c, s)
    BY <2>1, VoteSetAssumption
    DEF Backers, Signed, Correct, IInv, SlotInv, CountInv, PrecommitHasPolka
  <2>3. CouldDecide(b, r)
    <3> DEFINE P == Backers(r, "PRECOMMIT", b)
               M == {x \in Correct : MayStillPrecommit(x, r)}
    <3>1. P \cup M \subseteq Validators
      BY BackersAreValidators DEF Correct
    <3>2. /\ Cardinality(P) <= Cardinality(P \cup M)
          /\ Cardinality(P) \in Nat /\ Cardinality(P \cup M) \in Nat
      BY <3>1, BackersAreValidators, ValidatorSets
    <3>3. Cardinality(P) >= Threshold
      BY <1>1 DEF Decided
    <3>4. QED
      BY <3>2, <3>3, Arithmetic DEF CouldDecide
  <2>4. QED
    BY <1>1, <2>2, <2>3 DEF IInv, SlotInv, CountInv, PolkaExcludesOlderDecision
<1>2. ASSUME NEW b \in Blocks, NEW c \in Blocks, NEW r \in Rounds,
             Decided(b, r), Decided(c, r)
      PROVE  b = c
  BY <1>2, OneBlockPerRound DEF Decided, IInv, SlotInv, CountInv
<1>3. ASSUME NEW v \in Correct, NEW w \in Correct,
             finalized[v] # NIL, finalized[w] # NIL
      PROVE  finalized[v] = finalized[w]
  <2>1. finalized[v] \in Blocks /\ finalized[w] \in Blocks
    BY <1>3 DEF IInv, SlotInv, CountInv, TypeOK
  <2>2. PICK r \in Rounds : Decided(finalized[v], r)
    BY <1>3 DEF IInv, SlotInv, CountInv, FinalizedByQuorum
  <2>3. PICK s \in Rounds : Decided(finalized[w], s)
    BY <1>3 DEF IInv, SlotInv, CountInv, FinalizedByQuorum
  <2>4. r < s \/ r = s \/ s < r
    BY Types
  <2>5. QED
    BY <1>1, <1>2, <2>1, <2>2, <2>3, <2>4
<1>4. QED
  BY <1>3 DEF Agreement

\* The inductive invariant holds in every reachable state.
THEOREM Invariant ==
    ASSUME QuorumsIntersect, CarefulCaller
    PROVE  Spec => []IInv
<1>1. Init => IInv
  BY InvariantInit
<1>2. IInv /\ [Next]_vars => IInv'
  BY InvariantStep
<1>3. QED
  BY <1>1, <1>2, PTL DEF Spec

\* No two correct validators finalize different blocks at one height.
THEOREM Safety ==
    ASSUME QuorumsIntersect, CarefulCaller
    PROVE  Spec => []Agreement
<1>1. IInv => Agreement
  BY InvariantAgrees
<1>2. QED
  BY <1>1, Invariant, PTL

\* In particular for n = 3f + 1 with f faults and for the configured validators
\* with one.
THEOREM SafetyOfTheSizes ==
    ASSUME ThreeFPlusOne \/ EightAndOne, CarefulCaller
    PROVE  Spec => []Agreement
<1>1. QuorumsIntersect
  BY ThreeFPlusOneIsEnough, EightAndOneIsEnough
<1>2. QED
  BY <1>1, Safety

\* What the other invariants of the runs say, for every value of the constants:
\* locks that cover the own precommits, no prevote for another block without a
\* quorum, no older decision.
THEOREM VotingRules ==
    ASSUME QuorumsIntersect, CarefulCaller
    PROVE  Spec => [](PrecommitHoldsLock /\ PrevoteRespectsLock /\ PolkaExcludesOlderDecision)
<1>1. IInv => PrecommitHoldsLock /\ PrevoteRespectsLock /\ PolkaExcludesOlderDecision
  BY DEF IInv
<1>2. QED
  BY <1>1, Invariant, PTL

\* The voting implements the abstract decision of a height: a step finalizes
\* one block for one validator, the block of all that have one, or nothing.
THEOREM ImplementsFinality ==
    ASSUME QuorumsIntersect, CarefulCaller
    PROVE  Spec => FinalitySpec
<1>1. Init => F!Init
  BY DEF Init, F!Init
<1>2. ASSUME IInv, IInv', [Next]_vars
      PROVE  [F!Next]_finalized
  <2>1. CASE \A v \in Correct : finalized'[v] = finalized[v]
    <3>1. finalized' = finalized
      BY <1>2, <2>1 DEF IInv, SlotInv, CountInv, TypeOK
    <3>2. QED
      BY <3>1
  <2>2. CASE \E v \in Correct : FinalizedNow(v)
    <3>1. PICK v \in Correct : FinalizedNow(v)
      BY <2>2
    <3> DEFINE b == finalized'[v]
    <3>2. /\ finalized[v] = NIL /\ b \in Blocks /\ b # NIL
          /\ finalized' = [finalized EXCEPT ![v] = b]
      BY <3>1, VoteSetAssumption DEF FinalizedNow
    <3>3. Agreement'
      <4>1. (IInv => Agreement)'
        BY InvariantAgrees, PTL
      <4>2. QED
        BY <1>2, <4>1
    <3>4. ASSUME NEW w \in Correct PROVE finalized[w] \in {NIL, b}
      <4>1. CASE w = v
        BY <3>2, <4>1
      <4>2. CASE w # v
        <5>1. finalized'[w] = finalized[w]
          BY <1>2, <3>2, <4>2 DEF IInv, SlotInv, CountInv, TypeOK
        <5>2. finalized'[w] # NIL => finalized'[w] = b
          BY <3>2, <3>3 DEF Agreement
        <5>3. QED
          BY <5>1, <5>2
      <4>3. QED
        BY <4>1, <4>2
    <3> HIDE DEF b
    <3>5. F!Decide(v, b)
      BY <3>2, <3>4 DEF F!Decide
    <3>6. QED
      BY <3>2, <3>5 DEF F!Next
  <2>3. QED
    BY <1>2, <2>1, <2>2, CarefulLockStep DEF Kept, Locked
<1>3. QED
  BY <1>1, <1>2, Invariant, PTL DEF Spec, FinalitySpec, F!Spec
=============================================================================
