-------------------------- MODULE RelayProperties --------------------------
(***************************************************************************)
(* What a validator that depends on others' messages can rely on, stated   *)
(* over Relay.                                                             *)
(***************************************************************************)
EXTENDS Relay, NetworkProperties

Precommits == {m \in Vote : m.round = 0 /\ m.phase = "PRECOMMIT"}

Cargo == {Header, Body, Elsewhere} \cup [kind : {"PRECOMMIT"}, vote : Precommits]

LetterType == [from : Peers, item : Cargo, time : 0 .. MaxTime]

RelayTypeOK ==
    /\ TypeOK
    /\ outbox \in Seq(LetterType)
    /\ cargo \in Seq(Cargo) /\ Len(cargo) = Len(messages)
    /\ inbox \in Seq(DOMAIN messages)
    /\ gone \subseteq DOMAIN messages
    /\ round \in Nat /\ hasHeader \in BOOLEAN /\ hasBody \in BOOLEAN
    /\ precommits \subseteq Precommits /\ finalized \in BOOLEAN
    /\ proposed \in BOOLEAN /\ cast \subseteq Precommits /\ IsFiniteSet(cast)
    /\ gossiped \subseteq Validators

\* The message is the header, sent by the block's proposer itself.
FirstHandHeader(seq) == cargo[seq] = Header /\ messages[seq].sender = Proposer

\* The message is a precommit for the block, sent by its signer w itself.
FirstHandPrecommit(seq, w) ==
    messages[seq].sender = w /\ cargo[seq] = Carrying(Precommit(w, TheBlock))

\* The Target proposed the block, and w is the Target and signed for the block.
OwnBlock        == Proposer = Target /\ proposed
OwnPrecommit(w) == w = Target /\ Precommit(Target, TheBlock) \in cast

\* Those whose precommit for the block is the Target's own or was delivered to it
\* from themselves.
Heard == {w \in Validators :
            OwnPrecommit(w) \/ \E seq \in delivered : FirstHandPrecommit(seq, w)}

-----------------------------------------------------------------------------
\* A validator finalizes only a block that is its own or came from the proposer,
\* and only on a quorum of its own precommit and those that their signers sent it:
\* headers and votes that GossipService relays for others are rejected by the
\* router (SENDER_SIGNER_MISMATCH), however often they come.
FinalizedFirstHand ==
    finalized =>
        /\ OwnBlock \/ \E seq \in delivered : FirstHandHeader(seq)
        /\ Cardinality(Heard) >= Threshold

\* No tick from the one asked for the one message up to that asked for the other
\* has room for the first.
TicksFull(a, b) ==
    \A k \in messages[a].time .. messages[b].time : BytesAt(k) + messages[a].size > Limit

\* store_body refuses a body (HEADER_NOT_FOUND) only if every header that the
\* proposer sent ahead of it, for no later tick, was lost to the Target or did
\* not fit into any tick before the body's, nor into that one.
RefusedBodyWasOvertaken ==
    [][RefuseBody =>
         \A seq \in DOMAIN messages \ gone :
             FirstHandHeader(seq) /\ SentAhead(seq, Incoming)
               => TicksFull(seq, Incoming)]_relayVars

\* w's precommit for the block is returned or in flight, and not counted as an
\* equivocation when it comes.
OnItsWay(w) ==
    /\ \E seq \in DOMAIN messages \ gone : FirstHandPrecommit(seq, w)
    /\ Precommit(w, NIL) \notin cast

\* The block is stored in its round, and there is a quorum of precommits, each of
\* them counted or on its way.
QuorumOnItsWay ==
    /\ hasHeader /\ hasBody /\ round = 0
    /\ Cardinality({w \in Validators : Precommit(w, TheBlock) \in precommits \/ OnItsWay(w)})
         >= Threshold

\* As long as the drivers drain the network, a validator that has the block and
\* a quorum on its way finalizes, unless a timeout, a crash, or a deliver that
\* discards payloads comes between.
QuorumIsNotAwaitedForever == QuorumOnItsWay ~> (finalized \/ ~ QuorumOnItsWay)
=============================================================================
