----------------------------- MODULE Finality ------------------------------
(***************************************************************************)
(* What consensus promises for one height: every correct validator decides *)
(* at most once, and all that decide decide the same block.                *)
(***************************************************************************)
CONSTANTS Correct, Blocks, NIL

VARIABLE decided

Init == decided = [v \in Correct |-> NIL]

Decide(v, b) ==
    /\ decided[v] = NIL
    /\ \A w \in Correct : decided[w] \in {NIL, b}
    /\ decided' = [decided EXCEPT ![v] = b]

Next == \E v \in Correct, b \in Blocks : Decide(v, b)

Spec == Init /\ [][Next]_decided
=============================================================================
