----------------------------- MODULE Consensus -----------------------------
(***************************************************************************)
(* Two-phase voting for one block height (src/consensus.py), run by the    *)
(* validators over the signed-message network.  Each action is one call of *)
(* a consensus function, or the routing and storing of one message; calls  *)
(* of different validators interleave in every order.                      *)
(*                                                                         *)
(* The network is the set of votes and blocks ever broadcast: a message    *)
(* may be delivered late, several times, out of order, or never.  To store *)
(* again what is stored changes nothing and is left to stuttering.  Faulty *)
(* validators may show any vote of theirs to anybody at any time.          *)
(*                                                                         *)
(* The functions leave to their caller when they are called.  What the     *)
(* caller is taken to do is a constant each; with all of them FALSE, and a *)
(* SyncRound that no round reaches, it calls what it likes.                *)
(***************************************************************************)
EXTENDS VoteSet, Sequences

CONSTANTS
    Byz,            \* the faulty validators, e.g. {b}
    ValidatorList,  \* load_validator_keys(): the validators in index order
    Height,         \* the height being decided
    MaxRound,       \* bound on the rounds of the model
    BlockRound,     \* BlockRound[b]: the round signed into the header of b
    BadBodies,      \* blocks whose body fails validate_block_body
    ByzVotes,       \* the votes that the faulty validators may show
    Restartable,    \* correct validators that may crash and restart
    \* the caller
    Guarded,        \* asks VoteSentTracker before it signs
    HeaderFirst,    \* counts votes for blocks whose header is stored only
    ProposalFirst,  \* prevotes headers that are stored and of its round only
    LockFirst,      \* has called apply_lock when it calls make_precommit
    OneProposal,    \* calls propose once per round
    SyncRound       \* sets timers that do not expire from this round on

Correct == Validators \ Byz
Rounds  == 0 .. MaxRound

ASSUME ConsensusAssumption ==
    /\ Byz \subseteq Validators
    /\ ValidatorList \in [1 .. N -> Validators]
    /\ Height \in Nat \ {0}
    /\ MaxRound \in Nat /\ SyncRound \in Nat
    /\ BlockRound \in [Blocks -> Rounds]
    /\ BadBodies \subseteq Blocks
    /\ ByzVotes \subseteq Vote /\ \A m \in ByzVotes : m.val \in Byz
    /\ Guarded \in BOOLEAN /\ HeaderFirst \in BOOLEAN /\ ProposalFirst \in BOOLEAN
    /\ LockFirst \in BOOLEAN /\ OneProposal \in BOOLEAN
    /\ Restartable \subseteq Correct

VARIABLES
    \* ConsensusState, one per correct validator
    round, lockedHash, lockedRound, validHash, prevotes, precommits,
    headers, bodies,      \* its BlockStore
    tracker,              \* VoteSentTracker._sent: <<round, phase>> pairs
    finalized,            \* the ledger's block at Height
    \* the network
    proposed,             \* blocks broadcast by correct proposers
    sent                  \* votes broadcast by correct validators

nodeVars == <<round, lockedHash, lockedRound, validHash, prevotes, precommits,
              headers, bodies, tracker>>
vars == <<nodeVars, finalized, proposed, sent>>

-----------------------------------------------------------------------------
\* select_proposer: validators[(height + round) % n].
SelectProposer(r) == ValidatorList[((Height + r) % N) + 1]

\* A timer of the caller may have expired in round r.
TimeoutsFire(r) == r < SyncRound

\* The block was broadcast, or its proposer is faulty and may send it any time.
Available(b) == b \in proposed \/ SelectProposer(BlockRound[b]) \in Byz

\* v still runs this height; try_finalize moves it to the next one.
Active(v) == finalized[v] = NIL

VotesAgain(v, r, phase) == TRUE              \* mutant of CanVote

CanVote(v, r, phase) == Guarded => <<r, phase>> \notin tracker[v]

\* Mutant of SignedVote: a round too far.
SignedForNextRound(v, phase, h) ==
    [round |-> round[v] + 1, phase |-> phase, val |-> v, hash |-> h]

\* Vote.create_signed for the signer's current round.
SignedVote(v, phase, h) == [round |-> round[v], phase |-> phase, val |-> v, hash |-> h]

\* Mutant of Broadcast: VoteSentTracker.record_vote is forgotten.
BroadcastUntracked(v, m) == sent' = sent \cup {m} /\ tracker' = tracker

\* Sign, broadcast to the peers, and record the slot in the tracker.
Broadcast(v, m) ==
    /\ sent' = sent \cup {m}
    /\ tracker' = [tracker EXCEPT ![v] = @ \cup {<<m.round, m.phase>>}]

Init ==
    /\ round = [v \in Correct |-> 0]
    /\ lockedHash = [v \in Correct |-> NIL]
    /\ lockedRound = [v \in Correct |-> -1]
    /\ validHash = [v \in Correct |-> NIL]
    /\ prevotes = [v \in Correct |-> {}]
    /\ precommits = [v \in Correct |-> {}]
    /\ headers = [v \in Correct |-> {}]
    /\ bodies = [v \in Correct |-> {}]
    /\ tracker = [v \in Correct |-> {}]
    /\ finalized = [v \in Correct |-> NIL]
    /\ proposed = {}
    /\ sent = {}

-----------------------------------------------------------------------------
(* Proposals *)

\* propose: a new block for the current round, whatever the proposer is
\* locked on.
Propose(v, b) ==
    /\ Active(v)
    /\ v = SelectProposer(round[v])
    /\ BlockRound[b] = round[v]
    /\ b \notin BadBodies
    /\ OneProposal => \A c \in proposed : BlockRound[c] # round[v]
    /\ proposed' = proposed \cup {b}
    /\ UNCHANGED <<nodeVars, finalized, sent>>

\* The router accepts a header of the receiver's own round; store_header.
ReceiveHeader(v, b) ==
    /\ Active(v)
    /\ Available(b)
    /\ BlockRound[b] = round[v] /\ b \notin headers[v]
    /\ headers' = [headers EXCEPT ![v] = @ \cup {b}]
    /\ UNCHANGED <<round, lockedHash, lockedRound, validHash, prevotes, precommits,
                   bodies, tracker, finalized, proposed, sent>>

\* store_body: a body without its header is rejected and lost.
ReceiveBody(v, b) ==
    /\ Active(v)
    /\ Available(b)
    /\ b \in headers[v] \ bodies[v]
    /\ bodies' = [bodies EXCEPT ![v] = @ \cup {b}]
    /\ UNCHANGED <<round, lockedHash, lockedRound, validHash, prevotes, precommits,
                   headers, tracker, finalized, proposed, sent>>

-----------------------------------------------------------------------------
(* Prevotes *)

\* A quorum of prevotes for b in a round after the lock, up to the current one.
LaterRoundPrevoteQuorum(v, b) ==
    \E r \in Rounds : /\ lockedRound[v] < r /\ r <= round[v]
                      /\ HasQuorum(prevotes[v], r, "PREVOTE", b)

PrevoteAnyBlock(v, b) == b                   \* mutant of PrevoteBlockOrNil: no lock

PrevoteBlockOrNil(v, b) ==
    IF \/ lockedHash[v] \in {NIL, b}
       \/ LaterRoundPrevoteQuorum(v, b)
    THEN b ELSE NIL

\* make_prevote for a proposed block.  The body is not looked at.
MakePrevote(v, b) ==
    LET m == SignedVote(v, "PREVOTE", PrevoteBlockOrNil(v, b)) IN
    /\ Active(v)
    /\ ProposalFirst => b \in headers[v] /\ BlockRound[b] = round[v]
    /\ CanVote(v, round[v], "PREVOTE")
    /\ Broadcast(v, m)
    /\ prevotes' = [prevotes EXCEPT ![v] = Add(@, m)]
    /\ UNCHANGED <<round, lockedHash, lockedRound, validHash, precommits,
                   headers, bodies, finalized, proposed>>

\* handle_proposal_timeout without a valid proposal: the NIL prevote is
\* broadcast but not added to the sender's own VoteSet.
HandleProposalTimeout(v) ==
    /\ Active(v)
    /\ TimeoutsFire(round[v])
    /\ \A b \in headers[v] : BlockRound[b] # round[v]
    /\ CanVote(v, round[v], "PREVOTE")
    /\ Broadcast(v, SignedVote(v, "PREVOTE", NIL))
    /\ UNCHANGED <<round, lockedHash, lockedRound, validHash, prevotes, precommits,
                   headers, bodies, finalized, proposed>>

\* Router and VoteSet.add for a vote of the receiver's own round.
Acceptable(v, m) ==
    /\ Active(v)
    /\ m.round = round[v]
    /\ HeaderFirst => m.hash \in headers[v] \cup {NIL}

ReceivePrevote(v, m) ==
    /\ m.phase = "PREVOTE" /\ m \notin prevotes[v]
    /\ Acceptable(v, m)
    /\ prevotes' = [prevotes EXCEPT ![v] = Add(@, m)]
    /\ UNCHANGED <<round, lockedHash, lockedRound, validHash, precommits,
                   headers, bodies, tracker, finalized, proposed, sent>>

-----------------------------------------------------------------------------
(* Lock and precommits *)

\* The blocks that apply_lock may lock: quorum, and the header is known.
Lockable(v) == QuorumHashes(prevotes[v], round[v], "PREVOTE") \cap headers[v]

\* apply_lock for the current round.
ApplyLock(v) ==
    LET b == FirstHash(Lockable(v)) IN
    /\ Active(v)
    /\ Lockable(v) # {}
    /\ lockedHash' = [lockedHash EXCEPT ![v] = b]
    /\ lockedRound' = [lockedRound EXCEPT ![v] = round[v]]
    /\ validHash' = [validHash EXCEPT ![v] = b]
    /\ UNCHANGED <<round, prevotes, precommits, headers, bodies, tracker,
                   finalized, proposed, sent>>

\* Nothing is left for apply_lock to do on the votes seen so far.
LockApplied(v) ==
    Lockable(v) # {} => /\ lockedHash[v] = FirstHash(Lockable(v))
                        /\ lockedRound[v] = round[v]

\* The locked block if it has a quorum in this round, else the first block
\* that has one, whether or not it is locked or its header known, else NIL.
PrecommitTarget(v) ==
    LET quorum == QuorumHashes(prevotes[v], round[v], "PREVOTE") IN
    IF lockedHash[v] \in quorum THEN lockedHash[v]
    ELSE IF quorum # {} THEN FirstHash(quorum)
    ELSE NIL

\* make_precommit: for NIL when a timer of the caller has expired.
MakePrecommit(v) ==
    LET m == SignedVote(v, "PRECOMMIT", PrecommitTarget(v)) IN
    /\ Active(v)
    /\ LockFirst => LockApplied(v)
    /\ m.hash # NIL \/ TimeoutsFire(round[v])
    /\ CanVote(v, round[v], "PRECOMMIT")
    /\ Broadcast(v, m)
    /\ precommits' = [precommits EXCEPT ![v] = Add(@, m)]
    /\ UNCHANGED <<round, lockedHash, lockedRound, validHash, prevotes,
                   headers, bodies, finalized, proposed>>

ReceivePrecommit(v, m) ==
    /\ m.phase = "PRECOMMIT" /\ m \notin precommits[v]
    /\ Acceptable(v, m)
    /\ precommits' = [precommits EXCEPT ![v] = Add(@, m)]
    /\ UNCHANGED <<round, lockedHash, lockedRound, validHash, prevotes,
                   headers, bodies, tracker, finalized, proposed, sent>>

-----------------------------------------------------------------------------
(* End of a round, end of the height, restart *)

\* Mutant of DoRoundChange: the lock goes as well, as in reset_height.
RoundChangeDropsLock(v) ==
    /\ Active(v)
    /\ TimeoutsFire(round[v]) /\ round[v] < MaxRound
    /\ round' = [round EXCEPT ![v] = @ + 1]
    /\ lockedHash' = [lockedHash EXCEPT ![v] = NIL]
    /\ lockedRound' = [lockedRound EXCEPT ![v] = -1]
    /\ prevotes' = [prevotes EXCEPT ![v] = {}]
    /\ precommits' = [precommits EXCEPT ![v] = {}]
    /\ UNCHANGED <<validHash, headers, bodies, tracker, finalized, proposed, sent>>

\* do_round_change: the votes of both phases go, lock and blocks stay.
DoRoundChange(v) ==
    /\ Active(v)
    /\ TimeoutsFire(round[v]) /\ round[v] < MaxRound
    /\ round' = [round EXCEPT ![v] = @ + 1]
    /\ prevotes' = [prevotes EXCEPT ![v] = {}]
    /\ precommits' = [precommits EXCEPT ![v] = {}]
    /\ UNCHANGED <<lockedHash, lockedRound, validHash, headers, bodies, tracker,
                   finalized, proposed, sent>>

\* The fields of a ConsensusState that is new or reset, and a new tracker.
FreshState(v) ==
    /\ round' = [round EXCEPT ![v] = 0]
    /\ lockedHash' = [lockedHash EXCEPT ![v] = NIL]
    /\ lockedRound' = [lockedRound EXCEPT ![v] = -1]
    /\ validHash' = [validHash EXCEPT ![v] = NIL]
    /\ prevotes' = [prevotes EXCEPT ![v] = {}]
    /\ precommits' = [precommits EXCEPT ![v] = {}]
    /\ headers' = [headers EXCEPT ![v] = {}]
    /\ bodies' = [bodies EXCEPT ![v] = {}]
    /\ tracker' = [tracker EXCEPT ![v] = {}]

\* try_finalize: only the precommits of the current round count.
TryFinalize(v) ==
    LET quorum == QuorumHashes(precommits[v], round[v], "PRECOMMIT")
        b == FirstHash(quorum) IN
    /\ Active(v)
    /\ quorum # {}
    /\ b \in headers[v] /\ b \in bodies[v]
    /\ b \notin BadBodies
    /\ finalized' = [finalized EXCEPT ![v] = b]
    /\ FreshState(v)                            \* reset_height
    /\ UNCHANGED <<proposed, sent>>

\* simulate_crash and simulate_restart: only the ledger survives.
Restart(v) ==
    /\ v \in Restartable
    /\ Active(v)
    /\ FreshState(v)
    /\ UNCHANGED <<finalized, proposed, sent>>

-----------------------------------------------------------------------------
Next ==
    \E v \in Correct :
        \/ \E b \in Blocks : \/ Propose(v, b)
                             \/ ReceiveHeader(v, b)
                             \/ ReceiveBody(v, b)
                             \/ MakePrevote(v, b)
        \/ HandleProposalTimeout(v)
        \/ \E m \in sent \cup ByzVotes : \/ ReceivePrevote(v, m)
                                         \/ ReceivePrecommit(v, m)
        \/ ApplyLock(v)
        \/ MakePrecommit(v)
        \/ DoRoundChange(v)
        \/ TryFinalize(v)
        \/ Restart(v)

Spec == Init /\ [][Next]_vars
=============================================================================
