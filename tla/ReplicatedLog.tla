--------------------------- MODULE ReplicatedLog ---------------------------
(***************************************************************************)
(* What the ledgers of the validators promise together: one sequence of    *)
(* blocks that only grows, of which every validator has a growing prefix.  *)
(***************************************************************************)
EXTENDS Naturals, Sequences

CONSTANT Nodes

VARIABLES chain, upTo

vars == <<chain, upTo>>

Init == chain = <<>> /\ upTo = [v \in Nodes |-> 0]

Extend ==
    /\ \E v \in Nodes : upTo[v] = Len(chain)
    /\ Len(chain') = Len(chain) + 1
    /\ \A h \in DOMAIN chain : chain'[h] = chain[h]
    /\ UNCHANGED upTo

Advance(v) ==
    /\ upTo[v] < Len(chain)
    /\ upTo' = [upTo EXCEPT ![v] = @ + 1]
    /\ UNCHANGED chain

Next == Extend \/ \E v \in Nodes : Advance(v)

Spec == Init /\ [][Next]_vars
=============================================================================
