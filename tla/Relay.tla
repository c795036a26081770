------------------------------- MODULE Relay -------------------------------
(***************************************************************************)
(* How one validator, Target, learns of a block that the others decide: by *)
(* the proposer's header and body, the others' own precommits, and what    *)
(* GossipService relays after a finalization.  All of that passes through  *)
(* the fault injector and the Network, and then through MessageRouter,     *)
(* BlockStore and VoteSet to the Target's try_finalize; the Target's own   *)
(* precommit, and its own block if it is the proposer, it stores itself    *)
(* (src/gossip.py, src/fault_injector.py, src/router.py,                   *)
(* src/block_store.py, src/consensus.py, and the drivers in tests/).       *)
(*                                                                         *)
(* Every step is one step of Network, or none, and what the Target and the *)
(* senders do at the same time.  The router writes to a log of its own, as *)
(* in the tests.  One block of round 0 is at stake, and only messages to   *)
(* the Target carry something: the copies of a broadcast for the other     *)
(* validators only load the network (SendElsewhere).                       *)
(***************************************************************************)
EXTENDS Network, VoteSet, FaultInjector

CONSTANTS
    Target,             \* the validator whose state is modelled
    Proposer,           \* select_proposer of the height and round 0
    TheBlock,           \* the hash of its block
    KeyOrder,           \* the validators sorted by public key
    HeaderSize, BodySize, VoteSize,
    MaxRound            \* bound on the Target's rounds

ASSUME RelayAssumption ==
    /\ Validators = Peers
    /\ Target \in Peers /\ Proposer \in Peers
    /\ TheBlock \in Blocks
    /\ KeyOrder \in [1 .. N -> Validators]
    /\ {HeaderSize, BodySize, VoteSize} \subseteq Sizes
    /\ ~ SharedLog /\ ~ NodeEvents
    /\ MaxRound \in Nat

VARIABLES
    outbox,         \* the sends that the running broadcast still has to make
    cargo,          \* cargo[seq]: what the message carries
    inbox,          \* what the network returned and the Target has not handled
    gone,           \* delivered messages of which the Target has kept nothing
    round, hasHeader, hasBody, precommits,      \* the Target's ConsensusState
    finalized,      \* the Target's ledger has the block
    proposed,       \* the proposer has broadcast the block
    cast,           \* the precommits that were signed
    gossiped        \* the validators whose gossip_finalized was called

targetVars == <<round, hasHeader, hasBody, precommits, finalized>>
senderVars == <<proposed, cast, gossiped>>
relayVars == <<vars, outbox, cargo, inbox, gone, targetVars, senderVars>>

Header    == [kind |-> "HEADER"]
Body      == [kind |-> "BODY"]
Elsewhere == [kind |-> "ELSEWHERE"]

Precommit(w, h) == [round |-> 0, phase |-> "PRECOMMIT", val |-> w, hash |-> h]
Carrying(vote)  == [kind |-> "PRECOMMIT", vote |-> vote]

SizeOf(item) == CASE item.kind = "HEADER" -> HeaderSize
                  [] item.kind = "BODY"   -> BodySize
                  [] OTHER                -> VoteSize

RelayInit ==
    /\ Init
    /\ outbox = <<>> /\ cargo = <<>> /\ inbox = <<>> /\ gone = {}
    /\ round = 0 /\ hasHeader = FALSE /\ hasBody = FALSE /\ precommits = {}
    /\ finalized = FALSE
    /\ proposed = FALSE /\ cast = {} /\ gossiped = {}

-----------------------------------------------------------------------------
(* Broadcasting to the Target *)

\* No call of another handler or of the network is running.
Quiet == outbox = <<>> /\ call = Idle

Letter(w, item, delay) == [from |-> w, item |-> item, time |-> clock + delay]

\* The sends of one message to the Target under one FaultResult, as in the tests'
\* drivers: a sender skips itself.
Copies(w, item, fault) ==
    [k \in 1 .. IF w = Target THEN 0 ELSE TotalCopies(fault) |-> Letter(w, item, fault.delay)]

\* The bounds allow for the letters.
MayPost(letters) == /\ Quiet
                    /\ Len(messages) + Len(letters) <= MaxMessages
                    /\ \A k \in DOMAIN letters : letters[k].time <= MaxTime

\* propose: the header, and then the body.  A proposer stores both itself.
Propose ==
    \E header, body \in FaultResults :
        LET letters == Copies(Proposer, Header, header) \o Copies(Proposer, Body, body) IN
        /\ Proposer = Target => round = 0 /\ ~ finalized
        /\ MayPost(letters)
        /\ proposed' = TRUE
        /\ outbox' = letters
        /\ hasHeader' = (hasHeader \/ Proposer = Target)
        /\ hasBody' = (hasBody \/ Proposer = Target)
        /\ UNCHANGED <<vars, cargo, inbox, gone, round, precommits, finalized, cast, gossiped>>

\* make_precommit: the signer adds its vote itself and sends it to the others.
\* Which prevotes it has counted, and so what it signs, is left open.
CastPrecommit(w) ==
    \E hash \in {TheBlock, NIL}, fault \in FaultResults :
        LET vote == Precommit(w, hash)
            letters == Copies(w, Carrying(vote), fault) IN
        /\ hash # NIL => proposed
        /\ w = Target => round = 0 /\ ~ finalized
        /\ MayPost(letters)
        /\ cast' = cast \cup {vote}
        /\ outbox' = letters
        /\ precommits' = IF w = Target THEN Add(precommits, vote) ELSE precommits
        /\ UNCHANGED <<vars, cargo, inbox, gone, round, hasHeader, hasBody, finalized,
                       proposed, gossiped>>

\* The precommits that gossip_finalized passes on: not the NIL ones.
Relayed(votes) == {m \in votes : m.hash # NIL}

Position(w) == CHOOSE k \in DOMAIN KeyOrder : KeyOrder[k] = w

\* gossip_finalized by a validator w that has finalized with the precommits
\* votes: header, body, and the votes sorted by public key, all sent by w.
GossipFinalized(w) ==
    /\ Quiet
    /\ w # Target /\ w \notin gossiped
    /\ Len(messages) + 2 + Threshold <= MaxMessages      \* which MayPost implies
    /\ gossiped' = gossiped \cup {w}
    /\ \E votes \in SUBSET cast :
        /\ HasQuorum(votes, 0, "PRECOMMIT", TheBlock)
        /\ \E sorted \in [1 .. Cardinality(Relayed(votes)) -> Relayed(votes)] :
            LET letters == <<Letter(w, Header, 0), Letter(w, Body, 0)>> \o
                           [k \in DOMAIN sorted |-> Letter(w, Carrying(sorted[k]), 0)] IN
            /\ \A j, k \in DOMAIN sorted :
                  j < k => Position(sorted[j].val) < Position(sorted[k].val)
            /\ MayPost(letters)
            /\ outbox' = letters
    /\ UNCHANGED <<vars, cargo, inbox, gone, targetVars, proposed, cast>>

\* The broadcast goes on: one call of Network.send.
SendNext ==
    /\ outbox # <<>>
    /\ LET letter == Head(outbox) IN
        /\ Send(letter.from, SizeOf(letter.item), letter.time)
        /\ cargo' = Append(cargo, letter.item)
    /\ outbox' = Tail(outbox)
    /\ UNCHANGED <<inbox, gone, targetVars, senderVars>>

\* A message to another receiver, such as a copy of the Target's own precommit.
SendElsewhere ==
    /\ Quiet
    /\ \E p \in Peers, size \in Sizes, time \in 0 .. MaxTime : Send(p, size, time)
    /\ cargo' = Append(cargo, Elsewhere)
    /\ UNCHANGED <<outbox, inbox, gone, targetVars, senderVars>>

-----------------------------------------------------------------------------
(* Delivery *)

\* The driver calls run_next, or deliver for one envelope.
StartCall ==
    /\ Quiet
    /\ RunNext \/ \E seq \in DOMAIN messages : Deliver(seq)
    /\ UNCHANGED <<outbox, cargo, inbox, gone, targetVars, senderVars>>

Defer ==
    /\ PopAndDefer
    /\ UNCHANGED <<outbox, cargo, inbox, gone, targetVars, senderVars>>

\* The payload is returned if the call waits for it.  deliver discards those of
\* the messages that come first.
DeliverNext ==
    \E seq \in DOMAIN messages \ delivered :
        /\ PopAndDeliver
        /\ delivered' = delivered \cup {seq}
        /\ IF cargo[seq] # Elsewhere /\ call \in {AnyMessage, seq}
           THEN inbox' = Append(inbox, seq) /\ gone' = gone
           ELSE inbox' = inbox /\ gone' = gone \cup {seq}
        /\ UNCHANGED <<outbox, cargo, targetVars, senderVars>>

-----------------------------------------------------------------------------
(* The Target *)

Incoming    == Head(inbox)
IncomingIs(kind) == Quiet /\ inbox # <<>> /\ cargo[Incoming].kind = kind

AnySigner(seq, signer) == round = 0 /\ ~ finalized      \* mutant of Routed

\* MessageRouter.route: the sender is the signer, the round the Target's own,
\* and so is the height.
Routed(seq, signer) ==
    /\ messages[seq].sender = signer
    /\ round = 0
    /\ ~ finalized

\* A header: store_header, or the router's rejection.
HandleHeader ==
    /\ IncomingIs("HEADER")
    /\ inbox' = Tail(inbox)
    /\ IF Routed(Incoming, Proposer)
       THEN hasHeader' = TRUE /\ gone' = gone
       ELSE hasHeader' = hasHeader /\ gone' = gone \cup {Incoming}
    /\ UNCHANGED <<vars, outbox, cargo, round, hasBody, precommits, finalized, senderVars>>

\* A body is no routable message and goes to store_body: stored once, refused
\* without its header.
StoreBody ==
    /\ IncomingIs("BODY")
    /\ hasHeader
    /\ inbox' = Tail(inbox)
    /\ hasBody' = TRUE
    /\ UNCHANGED <<vars, outbox, cargo, gone, round, hasHeader, precommits, finalized, senderVars>>

RefuseBody ==
    /\ IncomingIs("BODY")
    /\ ~ hasHeader
    /\ inbox' = Tail(inbox)
    /\ gone' = gone \cup {Incoming}
    /\ UNCHANGED <<vars, outbox, cargo, targetVars, senderVars>>

\* A precommit: VoteSet.add, or the router's rejection.
HandlePrecommit ==
    /\ IncomingIs("PRECOMMIT")
    /\ inbox' = Tail(inbox)
    /\ LET vote == cargo[Incoming].vote IN
        IF Routed(Incoming, vote.val)
        THEN precommits' = Add(precommits, vote) /\ gone' = gone
        ELSE precommits' = precommits /\ gone' = gone \cup {Incoming}
    /\ UNCHANGED <<vars, outbox, cargo, round, hasHeader, hasBody, finalized, senderVars>>

\* What reset_height and simulate_crash leave: nothing of what was delivered.
Forget ==
    /\ round' = 0 /\ hasHeader' = FALSE /\ hasBody' = FALSE /\ precommits' = {}
    /\ gone' = gone \cup (delivered \ {inbox[k] : k \in DOMAIN inbox})

\* try_finalize, and reset_height.
TryFinalize ==
    /\ Quiet /\ ~ finalized
    /\ HasQuorum(precommits, round, "PRECOMMIT", TheBlock)
    /\ hasHeader /\ hasBody
    /\ finalized' = TRUE
    /\ Forget
    /\ UNCHANGED <<vars, outbox, cargo, inbox, senderVars>>

\* do_round_change: the precommits go, the block stays.
DoRoundChange ==
    /\ Quiet /\ ~ finalized
    /\ round < MaxRound
    /\ round' = round + 1
    /\ precommits' = {}
    /\ UNCHANGED <<vars, outbox, cargo, inbox, gone, hasHeader, hasBody, finalized, senderVars>>

\* simulate_crash and simulate_restart of the Target.
Restart ==
    /\ Quiet /\ ~ finalized
    /\ Forget
    /\ UNCHANGED <<vars, outbox, cargo, inbox, finalized, senderVars>>

-----------------------------------------------------------------------------
RelayNext ==
    \/ Propose
    \/ \E w \in Validators : CastPrecommit(w)
    \/ \E w \in Validators : GossipFinalized(w)
    \/ SendNext
    \/ SendElsewhere
    \/ StartCall
    \/ Defer
    \/ DeliverNext
    \/ HandleHeader
    \/ StoreBody
    \/ RefuseBody
    \/ HandlePrecommit
    \/ TryFinalize
    \/ DoRoundChange
    \/ Restart

RelaySpec == RelayInit /\ [][RelayNext]_relayVars

\* The drivers finish a broadcast, drain the network and handle what it returns.
FairRelaySpec ==
    /\ RelaySpec
    /\ WF_relayVars(SendNext) /\ WF_relayVars(StartCall)
    /\ WF_relayVars(Defer) /\ WF_relayVars(DeliverNext)
    /\ WF_relayVars(HandleHeader \/ StoreBody \/ RefuseBody \/ HandlePrecommit)
    /\ WF_relayVars(TryFinalize)
=============================================================================
