------------------------------- MODULE Ledger ------------------------------
(***************************************************************************)
(* The ledgers of the validators over several heights (src/ledger.py):     *)
(* proposals on the finalized parent and finalization (src/consensus.py),  *)
(* the snapshot on disk, crash and restart (src/scenario.py).              *)
(*                                                                         *)
(* The voting of a height is one step here, Decide: module Consensus shows *)
(* that a height has one block.  A validator finalizes it in two steps,    *)
(* because a crash or an error may come between the replacement of the     *)
(* snapshot file and the publication of the entry in memory.               *)
(***************************************************************************)
EXTENDS Execution

CONSTANTS
    Nodes,          \* correct validators
    Stored,         \* those whose ledger has a storage_path
    MaxHeight,      \* bound on the heights
    MaxTxs          \* bound on the transactions of a block

ASSUME LedgerAssumption ==
    /\ Stored \subseteq Nodes
    /\ MaxHeight \in Nat /\ MaxTxs \in Nat

VARIABLES
    decided,        \* the blocks decided, by height
    entries,        \* Ledger._entries: the entries in memory, by height
    disk,           \* the entry in the snapshot file, Genesis without a file
    unpublished,    \* what finalize has persisted and not published, or Genesis
    height          \* ConsensusState.height

vars == <<decided, entries, disk, unpublished, height>>

-----------------------------------------------------------------------------
(* Entries *)

\* What the first block starts from.
Genesis == [height |-> 0, block |-> NONE, state |-> EmptyState, nonces |-> NoNonces]

NoEntries == [h \in {} |-> Genesis]

FinalizedHeight(v) == IF DOMAIN entries[v] = {} THEN 0 ELSE Max(DOMAIN entries[v])

\* propose and try_finalize take the parent from the ledger.
HasParent(v) == height[v] = 1 \/ height[v] - 1 \in DOMAIN entries[v]

Parent(v) == IF height[v] = 1 THEN Genesis ELSE entries[v][height[v] - 1]

Execute(v, txs) == ExecuteBlock(txs, Parent(v).state, Parent(v).nonces)

\* The entry that finalize makes of a block.
Entry(v, b) == [height |-> b.height,
                block  |-> b,
                state  |-> Execute(v, b.txs).state,
                nonces |-> Execute(v, b.txs).nonces]

Init ==
    /\ decided = <<>>
    /\ entries = [v \in Nodes |-> NoEntries]
    /\ disk = [v \in Nodes |-> Genesis]
    /\ unpublished = [v \in Nodes |-> Genesis]
    /\ height = [v \in Nodes |-> 1]

\* The single thread of v is not inside finalize.
Ready(v) == unpublished[v] = Genesis

-----------------------------------------------------------------------------
(* Finalization *)

\* Mutant of NewBlock: the height of the parent.
BlockOfParentHeight(v, txs) ==
    [height |-> FinalizedHeight(v), parent |-> Parent(v).block,
     txs |-> txs, state |-> Execute(v, txs).state]

\* The header that propose signs.
NewBlock(v, txs) ==
    [height |-> height[v], parent |-> Parent(v).block,
     txs |-> txs, state |-> Execute(v, txs).state]

\* propose, and the votes for the block: v builds it on its own finalized
\* parent.  Who is behind cannot have its block decided.
Decide(v, txs) ==
    /\ Ready(v)
    /\ height[v] = Len(decided) + 1
    /\ height[v] <= MaxHeight
    /\ HasParent(v)
    /\ Execute(v, txs).ok
    /\ decided' = Append(decided, NewBlock(v, txs))
    /\ UNCHANGED <<entries, disk, unpublished, height>>

\* validate_block_body and the checks of finalize.
Acceptable(v, b) ==
    /\ HasParent(v)
    /\ Execute(v, b.txs).ok /\ Execute(v, b.txs).state = b.state
    /\ b.height = FinalizedHeight(v) + 1
    /\ b.height > 1 => b.parent = entries[v][b.height - 1].block

KeepSnapshot(v, e) == disk' = disk           \* mutant of WriteSnapshot

\* _persist_entry replaces the file, if there is one.
WriteSnapshot(v, e) == disk' = IF v \in Stored THEN [disk EXCEPT ![v] = e] ELSE disk

\* try_finalize up to the replacement of the snapshot file.
Persist(v) ==
    LET b == decided[height[v]] IN
    /\ Ready(v)
    /\ height[v] \in DOMAIN decided
    /\ Acceptable(v, b)
    /\ unpublished' = [unpublished EXCEPT ![v] = Entry(v, b)]
    /\ WriteSnapshot(v, Entry(v, b))
    /\ UNCHANGED <<decided, entries, height>>

\* The entry appears in memory and reset_height starts the next height.
Publish(v) ==
    LET e == unpublished[v] IN
    /\ ~ Ready(v)
    /\ entries' = [entries EXCEPT ![v] =
                     [h \in DOMAIN @ \cup {e.height} |-> IF h = e.height THEN e ELSE @[h]]]
    /\ height' = [height EXCEPT ![v] = e.height + 1]
    /\ unpublished' = [unpublished EXCEPT ![v] = Genesis]
    /\ UNCHANGED <<decided, disk>>

\* Removing the temporary file fails after the replacement: finalize raises,
\* nothing is published, and the caller may try again.
PersistRaises(v) ==
    /\ v \in Stored
    /\ ~ Ready(v)
    /\ unpublished' = [unpublished EXCEPT ![v] = Genesis]
    /\ UNCHANGED <<decided, entries, disk, height>>

-----------------------------------------------------------------------------
(* Crash and restart *)

\* Mutants of Recovered: the nonces are not restored, nothing is.
RecoveredWithoutNonces(v) ==
    IF disk[v] = Genesis THEN NoEntries
    ELSE [h \in {disk[v].height} |-> [disk[v] EXCEPT !.nonces = NoNonces]]
RecoveredNothing(v) == NoEntries

\* load_snapshot: the last finalized entry only, or nothing.
Recovered(v) ==
    IF disk[v] = Genesis THEN NoEntries ELSE [h \in {disk[v].height} |-> disk[v]]

\* simulate_crash and simulate_restart; the caller starts the consensus again
\* at the height after the recovered one.
Restart(v) ==
    /\ entries' = [entries EXCEPT ![v] = Recovered(v)]
    /\ unpublished' = [unpublished EXCEPT ![v] = Genesis]
    /\ height' = [height EXCEPT ![v] = disk[v].height + 1]
    /\ UNCHANGED <<decided, disk>>

-----------------------------------------------------------------------------
Next ==
    \E v \in Nodes :
        \/ \E txs \in BoundedSeq(Txs, MaxTxs) : Decide(v, txs)
        \/ Persist(v)
        \/ Publish(v)
        \/ PersistRaises(v)
        \/ Restart(v)

Spec == Init /\ [][Next]_vars
=============================================================================
