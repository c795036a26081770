------------------------------ MODULE VoteSet ------------------------------
(***************************************************************************)
(* Votes and the per-node VoteSet of one block height: the first vote of a *)
(* validator for a slot is kept, an equal one is ignored, a different one  *)
(* is reported as equivocation, and a quorum counts distinct validators    *)
(* that name one block (src/vote_set.py, src/vote.py).  A VoteSet is the   *)
(* set of the votes it stores.  The chain id and the height are the same   *)
(* for all votes of one height and are left out of the records.            *)
(***************************************************************************)
EXTENDS Integers, FiniteSets

CONSTANTS
    Validators,   \* the validator set of load_validator_keys()
    Blocks,       \* block hashes; numbers, because the code sorts hashes
    NIL           \* the None of block_hash_or_nil

Phases == {"PREVOTE", "PRECOMMIT"}

Vote == [round : Nat, phase : Phases, val : Validators, hash : Blocks \cup {NIL}]

N         == Cardinality(Validators)
Faults    == (N - 1) \div 3
TwoFaults == 2 * Faults                      \* mutant of Threshold: no + 1
Threshold == 2 * Faults + 1

ASSUME VoteSetAssumption ==
    /\ IsFiniteSet(Validators) /\ Validators # {}
    /\ Blocks \subseteq Nat
    /\ NIL \notin Blocks

-----------------------------------------------------------------------------
\* The VoteKey of a vote, as a relation: one validator, round and phase.
SameSlot(a, b) == a.round = b.round /\ a.phase = b.phase /\ a.val = b.val

Stored(votes, m) == {x \in votes : SameSlot(x, m)}

AddOutcome(votes, m) ==
    IF Stored(votes, m) = {} THEN "ACCEPTED"
    ELSE IF \A x \in Stored(votes, m) : x.hash = m.hash THEN "DUPLICATE_IGNORED"
    ELSE "EQUIVOCATION_DETECTED"

\* VoteSet.add: only the first vote of a slot is stored.
Add(votes, m) == IF AddOutcome(votes, m) = "ACCEPTED" THEN votes \cup {m} ELSE votes

VotesOf(votes, r, phase) == {m \in votes : m.round = r /\ m.phase = phase}

\* Who is counted for block b: a NIL vote never is.
Supporters(votes, r, phase, b) ==
    {v \in Validators : \E m \in VotesOf(votes, r, phase) : m.val = v /\ m.hash = b}

\* Mutant of HasQuorum: one vote too many.
MoreThanQuorum(votes, r, phase, b) ==
    Cardinality(Supporters(votes, r, phase, b)) > Threshold

HasQuorum(votes, r, phase, b) ==
    Cardinality(Supporters(votes, r, phase, b)) >= Threshold

\* Mutant of QuorumHashes: every candidate hash.
CandidateHashes(votes, r, phase) ==
    {b \in Blocks : \E m \in VotesOf(votes, r, phase) : m.hash = b}

\* The candidate hashes of apply_lock, make_precommit and try_finalize that
\* pass has_quorum.
QuorumHashes(votes, r, phase) ==
    {b \in Blocks : /\ \E m \in VotesOf(votes, r, phase) : m.hash = b
                    /\ HasQuorum(votes, r, phase, b)}

\* "for block_hash in sorted(candidate_hashes)": the smallest comes first.
FirstHash(S) == CHOOSE b \in S : \A c \in S : b <= c
=============================================================================
