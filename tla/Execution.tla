----------------------------- MODULE Execution -----------------------------
(***************************************************************************)
(* Execution of a block body (src/executor.py, src/transaction.py,         *)
(* src/state.py, src/block.py).  A state maps keys to values, nonces maps  *)
(* senders to the next nonce expected of them; hashes are injective, so a  *)
(* state stands for its state_hash and a transaction for its tx_id.        *)
(***************************************************************************)
EXTENDS Integers, SequencesExt

CONSTANTS
    Senders,        \* public keys that sign transactions
    Keys,           \* state keys
    Owner,          \* Owner[k]: the sender whose namespace holds k
    Values,         \* values written
    NONE,           \* no value
    Txs,            \* the transactions that were signed
    Malformed       \* those of the wrong chain, size or signature

ASSUME ExecutionAssumption ==
    /\ Owner \in [Keys -> Senders]
    /\ Txs \subseteq [sender : Senders, nonce : Nat, key : Keys, value : Values]
    /\ NONE \notin Values

States == [Keys -> Values \cup {NONE}]
Nonces == [Senders -> Nat]

EmptyState == [k \in Keys |-> NONE]
NoNonces   == [s \in Senders |-> 0]

\* Transaction.validate for the sender's expected nonce.
Valid(tx, nonces) ==
    /\ tx \notin Malformed
    /\ tx.nonce = nonces[tx.sender]
    /\ Owner[tx.key] = tx.sender

\* One round of execute_block's loop; nothing happens after the first failure.
ApplyTx(acc, tx) ==
    IF acc.ok /\ tx \notin acc.seen /\ Valid(tx, acc.nonces)
    THEN [ok     |-> TRUE,
          seen   |-> acc.seen \cup {tx},
          state  |-> [acc.state EXCEPT ![tx.key] = tx.value],
          nonces |-> [acc.nonces EXCEPT ![tx.sender] = @ + 1]]
    ELSE [acc EXCEPT !.ok = FALSE]

\* Mutant of ExecuteBlock: what a failing block wrote is kept.
KeepWrites(txs, state, nonces) ==
    LET acc == FoldLeft(ApplyTx, [ok |-> TRUE, seen |-> {}, state |-> state, nonces |-> nonces], txs)
    IN [ok |-> acc.ok, state |-> acc.state, nonces |-> acc.nonces]

\* execute_block: all transactions apply, or the parent is returned unchanged.
ExecuteBlock(txs, state, nonces) ==
    LET acc == FoldLeft(ApplyTx, [ok |-> TRUE, seen |-> {}, state |-> state, nonces |-> nonces], txs)
    IN IF acc.ok THEN [ok |-> TRUE, state |-> acc.state, nonces |-> acc.nonces]
       ELSE [ok |-> FALSE, state |-> state, nonces |-> nonces]
=============================================================================
