------------------------------ MODULE MCRelay ------------------------------
(***************************************************************************)
(* Instances of Relay for TLC.                                             *)
(***************************************************************************)
EXTENDS RelayProperties, TLC

CONSTANTS v1, v2, v3, v4        \* validators

MCKeyOrder == <<v2, v1, v4, v3>>

\* Nothing is broadcast twice.  The Target signs for the block when it has it and
\* nothing else to do; the others sign once, in the order of the keys, and the last
\* of them possibly NIL, which is then sent.
OnceEach ==
    /\ outbox = <<>> /\ outbox' # <<>> => senderVars' # senderVars
    /\ Cardinality(precommits') > Cardinality(precommits) /\ inbox' = inbox =>
          inbox = <<>> /\ hasBody /\ Precommit(Target, TheBlock) \in precommits'
    /\ \A m \in cast' \ cast : m.val # Target =>
          /\ m.hash = NIL => m.val = v3 /\ outbox' # <<>>
          /\ \A x \in cast : x.val # m.val
          /\ \A w \in {v1, v2, v3} :
                Position(w) < Position(m.val) => \E x \in cast : x.val = w

\* The Target times out or crashes when it has something to lose.
SomethingToLose ==
    (round' # round \/ (gone' # gone /\ inbox' = inbox /\ delivered' = delivered)) =>
        finalized' \/ (hasHeader /\ \E m \in precommits : m.val # Target)

\* One message goes elsewhere, and it is the one that deliver is called for.
OneElsewhere ==
    /\ Cardinality({seq \in DOMAIN cargo' : cargo'[seq] = Elsewhere}) <= 1
    /\ \A seq \in DOMAIN cargo' \ DOMAIN cargo : cargo'[seq] = Elsewhere =>
          messages'[seq] = [sender |-> Target, size |-> VoteSize, time |-> clock]
    /\ call' \notin {Idle, AnyMessage} => cargo[call'] = Elsewhere

\* Precommits are sent at once or dropped, header and body delayed or
\* duplicated, or both dropped.
OneFault ==
    /\ cast' # cast => Len(outbox') <= 1 /\ \A k \in DOMAIN outbox' : outbox'[k].time = clock
    /\ proposed' # proposed =>
          {outbox'[k].item : k \in DOMAIN outbox'} \in {{}, {Header, Body}}

OneOrder == OneElsewhere /\ OnceEach /\ SomethingToLose /\ OneFault
=============================================================================
