------------------------------ MODULE MCLedger -----------------------------
(***************************************************************************)
(* Instances of Ledger for TLC.                                            *)
(***************************************************************************)
EXTENDS LedgerProperties, TLC

CONSTANTS s1, s2, k1, k2, x, y, n1, n2

OwnKeys == (k1 :> s1) @@ (k2 :> s2)

T(s, n, k, v) == [sender |-> s, nonce |-> n, key |-> k, value |-> v]

\* Two transactions of s1 that compete for nonce 0, one that follows, one of s2,
\* one of s2 in the namespace of s1, and one with a bad signature.
BadTxs == {T(s2, 0, k2, y)}
SixTxs == {T(s1, 0, k1, x), T(s1, 0, k1, y), T(s1, 1, k1, x), T(s2, 0, k2, x), T(s2, 0, k1, x)} \cup BadTxs
=============================================================================
