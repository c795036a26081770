-------------------------- MODULE LedgerProperties -------------------------
(***************************************************************************)
(* What the ledgers must guarantee across heights, failed writes, crashes  *)
(* and restarts, stated over Ledger.                                       *)
(***************************************************************************)
EXTENDS Ledger

EntryOK(e) ==
    /\ DOMAIN e = {"height", "block", "state", "nonces"}
    /\ e.height \in 0 .. MaxHeight
    /\ e.state \in States /\ e.nonces \in Nonces

TypeOK ==
    /\ \A h \in DOMAIN decided :
          /\ decided[h].height = h
          /\ decided[h].txs \in Seq(Txs) /\ decided[h].state \in States
    /\ \A v \in Nodes :
          /\ height[v] \in 1 .. MaxHeight + 1
          /\ DOMAIN entries[v] \subseteq 1 .. MaxHeight
          /\ \A h \in DOMAIN entries[v] : EntryOK(entries[v][h])
          /\ EntryOK(disk[v]) /\ EntryOK(unpublished[v])

-----------------------------------------------------------------------------
(* The whole history: all transactions up to a height, in order *)

Applied(h) == FlattenSeq([k \in 1 .. h |-> decided[k].txs])

\* The last value written to each key, and the number of transactions of each
\* sender.
LastWrites(txs) == [k \in Keys |->
    LET writes == {i \in DOMAIN txs : txs[i].key = k} IN
    IF writes = {} THEN NONE ELSE txs[Max(writes)].value]

SentBy(txs, s) == Cardinality({i \in DOMAIN txs : txs[i].sender = s})

\* Everything that v holds: in memory, on disk, or about to be published.
Holds(v) == {entries[v][h] : h \in DOMAIN entries[v]}
            \cup ({disk[v], unpublished[v]} \ {Genesis})

\* execute_block accepts a body if and only if each transaction is well formed,
\* its sender's own and next in its sender's order; then the last writes win,
\* and otherwise the parent comes back untouched.
ExecutionIsSequential ==
    \A v \in Nodes, txs \in BoundedSeq(Txs, MaxTxs) :
        HasParent(v) =>
        LET p == Parent(v)
            Count(i) == SentBy(SubSeq(txs, 1, i - 1), txs[i].sender)
            good == \A i \in DOMAIN txs :
                       /\ txs[i] \notin Malformed
                       /\ Owner[txs[i].key] = txs[i].sender
                       /\ txs[i].nonce = p.nonces[txs[i].sender] + Count(i)
            last == LastWrites(txs) IN
        Execute(v, txs) =
            [ok     |-> good,
             state  |-> IF good THEN [k \in Keys |-> IF last[k] = NONE THEN p.state[k] ELSE last[k]]
                        ELSE p.state,
             nonces |-> IF good THEN [s \in Senders |-> p.nonces[s] + SentBy(txs, s)]
                        ELSE p.nonces]

\* No transaction is applied twice in the decided chain, though blocks are
\* proposed by validators that have crashed and recovered in between.
AppliedOnce == IsInjective(Applied(Len(decided)))

\* What a validator holds for a height, recovered from its snapshot or not, is
\* the result of all transactions up to that height.
HoldsReplay ==
    \A v \in Nodes : \A e \in Holds(v) :
        LET txs == Applied(e.height) IN
        /\ e.block = decided[e.height]
        /\ e.state = LastWrites(txs)
        /\ e.nonces = [s \in Senders |-> SentBy(txs, s)]

\* No two validators hold different entries for one height.
SameHistory ==
    \A v, w \in Nodes : \A e \in Holds(v), f \in Holds(w) :
        e.height = f.height => e = f

\* The snapshot on disk is never behind the ledger in memory (T2-13: persist
\* before publishing).
DiskKeepsUp == \A v \in Stored : disk[v].height >= FinalizedHeight(v)

\* A validator can always finalize the height it runs on top of its ledger:
\* neither a recovery nor a failed write leaves a gap below it.
NoGap == \A v \in Nodes : height[v] = FinalizedHeight(v) + 1 /\ HasParent(v)

-----------------------------------------------------------------------------
(* Steps *)

\* The finalized height of a validator with a snapshot file never goes back.
NoRollback == [][\A v \in Stored : FinalizedHeight(v)' >= FinalizedHeight(v)]_vars

\* With snapshot files everywhere the ledgers implement a replicated log.
Log == INSTANCE ReplicatedLog WITH
    chain <- decided,
    upTo <- [v \in Nodes |-> FinalizedHeight(v)]

LogSpec == Log!Init /\ [][Log!Next]_(Log!vars)
=============================================================================
