---------------------------- MODULE RelayProofs ----------------------------
(***************************************************************************)
(* Proofs about Relay, for every number of validators, every block,        *)
(* fault, size and bandwidth limit: every step is a step of Network, so    *)
(* that what NetworkProofs shows of the network holds here, and what the   *)
(* Target keeps, hands on and refuses rests on what the network delivered. *)
(***************************************************************************)
EXTENDS RelayProperties, NetworkProofs, FiniteSetTheorems

-----------------------------------------------------------------------------
(* The inductive invariant *)

\* What the Target has in hand was delivered.
Returned == \A k \in DOMAIN inbox : inbox[k] \in delivered

\* What the Target has stored is its own or came first-hand.
Own(m)     == m.val = Target /\ m \in cast
CameIn(m)  == \E seq \in delivered : messages[seq].sender = m.val /\ cargo[seq] = Carrying(m)

FirstHand ==
    /\ hasHeader => OwnBlock \/ \E seq \in delivered : FirstHandHeader(seq)
    /\ \A m \in precommits : Own(m) \/ CameIn(m)
    /\ FinalizedFirstHand

\* The proposer's header, once delivered, is stored, in hand, or gone.
HeaderAccounted ==
    \A seq \in delivered :
        FirstHandHeader(seq) =>
            seq \in gone \/ hasHeader \/ \E k \in DOMAIN inbox : inbox[k] = seq

\* What is delivered ahead of an earlier message found the ticks too full for it.
WaitsForRoom ==
    \A a \in InFlight, b \in delivered : SentAhead(a, b) => TicksFull(a, b)

\* And so did what was returned ahead of it.
ReturnedInOrder ==
    \A j, k \in DOMAIN inbox :
        j < k /\ SentAhead(inbox[k], inbox[j]) => TicksFull(inbox[k], inbox[j])

RelayInv == /\ Inv /\ RelayTypeOK
            /\ Returned /\ FirstHand /\ HeaderAccounted
            /\ WaitsForRoom /\ ReturnedInOrder

-----------------------------------------------------------------------------
(* What a step of the network keeps *)

\* Messages stay what they are, deliveries stay done, and ticks only fill.
LEMMA NetworkGrows ==
    ASSUME Inv, [Next]_vars
    PROVE  /\ DOMAIN messages \subseteq DOMAIN messages'
           /\ \A s \in DOMAIN messages : messages'[s] = messages[s]
           /\ delivered \subseteq delivered'
           /\ \A k \in Nat : /\ BytesAt(k) \in Nat /\ BytesAt(k)' \in Nat
                             /\ BytesAt(k) <= BytesAt(k)'
<1>1. TypeOK
  BY DEF Inv
<1>2. \A k \in Nat : BytesAt(k) \in Nat
  BY <1>1 DEF BytesAt, TypeOK
<1>3. CASE \E p \in Peers, size \in Sizes, time \in 0 .. MaxTime : Send(p, size, time)
  <2> PICK p \in Peers, size \in Sizes, time \in 0 .. MaxTime : Send(p, size, time)
    BY <1>3
  <2> DEFINE m == [sender |-> p, size |-> size, time |-> time]
  <2>1. messages \in Seq(Message) /\ m \in Message /\ messages' = Append(messages, m)
        /\ UNCHANGED <<bytes, delivered>>
    BY <1>1, NetworkAssumption DEF TypeOK, Send, Message
  <2> HIDE DEF m
  <2>2. /\ DOMAIN messages \subseteq DOMAIN messages'
        /\ \A s \in DOMAIN messages : messages'[s] = messages[s]
    BY <2>1
  <2> QED BY <1>2, <2>1, <2>2 DEF BytesAt
<1>4. CASE UNCHANGED <<messages, delivered, bytes>>
  BY <1>4, <1>2 DEF BytesAt
<1>5. CASE PopAndDeliver
  <2>1. PICK e \in queue : /\ Pop(e) /\ messages' = messages
                           /\ delivered' = delivered \cup {e.seq}
    BY <1>5 DEF PopAndDeliver
  <2>2. \A k \in Nat : /\ BytesAt(k) \in Nat /\ BytesAt(k)' \in Nat
                       /\ BytesAt(k) <= BytesAt(k)'
    BY <2>1, PopStep
  <2> QED BY <2>1, <2>2
<1>6. CASE PopAndFail
  <2>1. PICK e \in queue : Pop(e) /\ UNCHANGED <<messages, delivered>>
    BY <1>6 DEF PopAndFail
  <2>2. \A k \in Nat : /\ BytesAt(k) \in Nat /\ BytesAt(k)' \in Nat
                       /\ BytesAt(k) <= BytesAt(k)'
    BY <2>1, PopStep
  <2> QED BY <2>1, <2>2
<1>7. CASE RunNext \/ (\E seq \in DOMAIN messages : Deliver(seq)) \/ UNCHANGED vars
           \/ PopAndDefer
           \/ (\E p \in Peers : BlockPeer(p) \/ UnblockPeer(p))
           \/ (\E p \in Peers, time \in 0 .. MaxTime : WriteNodeEvent(p, time))
           \/ (\E i \in DOMAIN log : RouteReject(i))
  <2>1. UNCHANGED <<messages, delivered, bytes>>
    BY <1>7 DEF RunNext, Deliver, vars, PopAndDefer, BlockPeer, UnblockPeer, WritePeerEvent,
         WriteNodeEvent, RouteReject
  <2> QED BY <2>1, <1>4
<1> QED BY <1>3, <1>5, <1>6, <1>7 DEF Next

\* Ticks that were too full stay too full.
LEMMA FullStaysFull ==
    ASSUME Inv, [Next]_vars, NEW a \in DOMAIN messages, NEW b \in DOMAIN messages,
           TicksFull(a, b)
    PROVE  TicksFull(a, b)'
<1>1. /\ messages'[a] = messages[a] /\ messages'[b] = messages[b]
      /\ \A k \in Nat : BytesAt(k) \in Nat /\ BytesAt(k)' \in Nat /\ BytesAt(k) <= BytesAt(k)'
  BY NetworkGrows
<1>2. /\ messages[a].time \in Nat /\ messages[a].size \in Nat /\ messages[b].time \in Nat
      /\ Limit \in Nat
  BY MessageTypes, NetworkAssumption DEF Inv
<1> SUFFICES ASSUME NEW k \in messages[a].time .. messages[b].time
             PROVE  BytesAt(k)' + messages[a].size > Limit
  BY <1>1 DEF TicksFull
<1>3. k \in Nat
  BY <1>2
<1>4. BytesAt(k) + messages[a].size > Limit
  BY DEF TicksFull
<1> HIDE DEF BytesAt
<1> QED BY <1>1, <1>2, <1>3, <1>4

\* When the head of the queue is delivered, a waiting message that was sent
\* ahead of it has been put off past the head's tick.
LEMMA HeadFindsTicksFull ==
    ASSUME Inv, NEW e \in queue, Pop(e), NEW a \in InFlight, a # e.seq,
           SentAhead(a, e.seq)
    PROVE  TicksFull(a, e.seq)
<1>1. TypeOK
  BY DEF Inv
<1>2. PICK f \in queue : f # e /\ f.seq = a
  BY DEF InFlight
<1> DEFINE x == messages[a]
           y == messages[e.seq]
<1>3. /\ e.time \in Nat /\ f.time \in Nat /\ e.seq \in Nat /\ f.seq \in Nat
      /\ x.time \in Nat /\ y.time \in Nat /\ x.size \in Nat
  BY <1>1, <1>2, MessageTypes
<1>4. a < e.seq /\ x.time <= y.time /\ y.time <= e.time
  BY DEF SentAhead, Inv, Waiting
<1>5. e.time < f.time
  BY <1>2, <1>3, <1>4 DEF Pop, IsHead, Before
<1> SUFFICES ASSUME NEW k \in x.time .. y.time
             PROVE  BytesAt(k) + x.size > Limit
  BY DEF TicksFull
<1>6. k \in x.time .. f.time - 1
  <2> HIDE DEF x, y
  <2> QED BY <1>3, <1>4, <1>5
<1> QED BY <1>2, <1>6 DEF Inv, DeferredOnlyWhenFull

LEMMA WaitsForRoomStep ==
    ASSUME Inv, WaitsForRoom, [Next]_vars
    PROVE  WaitsForRoom'
<1> SUFFICES ASSUME NEW a \in InFlight', NEW b \in delivered', SentAhead(a, b)'
             PROVE  TicksFull(a, b)'
  BY DEF WaitsForRoom
<1>1. TypeOK /\ delivered \subseteq DOMAIN messages /\ InFlight \subseteq DOMAIN messages
  BY MessageTypes DEF Inv, TypeOK, InFlight
<1>2. \A s \in DOMAIN messages : messages'[s] = messages[s]
  BY NetworkGrows
<1>3. CASE a \in InFlight /\ b \in delivered
  <2>1. SentAhead(a, b)
    BY <1>1, <1>2, <1>3 DEF SentAhead
  <2> QED BY <2>1, <1>1, <1>3, FullStaysFull DEF WaitsForRoom
<1>4. CASE \E p \in Peers, size \in Sizes, time \in 0 .. MaxTime : Send(p, size, time)
  <2> PICK p \in Peers, size \in Sizes, time \in 0 .. MaxTime : Send(p, size, time)
    BY <1>4
  <2> DEFINE n == Len(messages) + 1
  <2>1. queue' = queue \cup {[time |-> time, seq |-> n]} /\ delivered' = delivered
    BY DEF Send, NewSeq
  <2>2. a \in InFlight \/ a = n
    BY <2>1 DEF InFlight
  <2>3. b \in DOMAIN messages /\ a < b
    BY <2>1, <1>1 DEF SentAhead
  <2>4. b < n /\ b \in Nat /\ n \in Nat
    BY <2>3, <1>1, MessageTypes
  <2> QED BY <2>1, <2>2, <2>3, <2>4, <1>3
<1>5. CASE PopAndDeliver
  <2>1. PICK e \in queue : /\ Pop(e) /\ messages' = messages
                           /\ delivered' = delivered \cup {e.seq}
    BY <1>5 DEF PopAndDeliver
  <2>2. InFlight' = InFlight \ {e.seq} /\ e.seq \in DOMAIN messages
    BY <2>1, PopStep
  <2>3. CASE b = e.seq
    <3>1. SentAhead(a, e.seq)
      BY <2>1, <2>3 DEF SentAhead
    <3>2. TicksFull(a, e.seq)
      BY <2>1, <2>2, <3>1, HeadFindsTicksFull
    <3> QED BY <2>2, <2>3, <3>2, <1>1, FullStaysFull
  <2> QED BY <2>1, <2>2, <2>3, <1>3
<1>6. CASE UNCHANGED <<delivered, queue>>
  BY <1>6, <1>3 DEF InFlight
<1>7. CASE PopAndDefer
  <2>1. PICK e \in queue, tick \in {j + 1 : j \in DOMAIN bytes} :
          Requeue(e, tick) /\ UNCHANGED <<messages, delivered>>
    BY <1>7 DEF PopAndDefer
  <2>2. InFlight' \subseteq InFlight
    BY <2>1 DEF Requeue, InFlight
  <2> QED BY <2>1, <2>2, <1>3
<1>8. CASE PopAndFail
  BY <1>8, <1>3 DEF PopAndFail, Pop, InFlight
<1>9. CASE RunNext \/ (\E seq \in DOMAIN messages : Deliver(seq)) \/ UNCHANGED vars
           \/ (\E p \in Peers : BlockPeer(p) \/ UnblockPeer(p))
           \/ (\E p \in Peers, time \in 0 .. MaxTime : WriteNodeEvent(p, time))
           \/ (\E i \in DOMAIN log : RouteReject(i))
  <2>1. UNCHANGED <<delivered, queue>>
    BY <1>9 DEF RunNext, Deliver, vars, BlockPeer, UnblockPeer, WritePeerEvent, WriteNodeEvent,
         RouteReject
  <2> QED BY <2>1, <1>6
<1> QED BY <1>4, <1>5, <1>7, <1>8, <1>9 DEF Next

-----------------------------------------------------------------------------
(* Relay steps as network steps *)

\* The first letter of a broadcast is one that send may be called with.
LEMMA HeadLetter ==
    ASSUME RelayTypeOK, outbox # <<>>
    PROVE  /\ Head(outbox).from \in Peers /\ Head(outbox).item \in Cargo
           /\ Head(outbox).time \in 0 .. MaxTime
           /\ SizeOf(Head(outbox).item) \in Sizes
           /\ Tail(outbox) \in Seq(LetterType)
<1>1. outbox \in Seq(LetterType)
  BY DEF RelayTypeOK
<1>2. Head(outbox) \in LetterType /\ Tail(outbox) \in Seq(LetterType)
  BY <1>1
<1>3. \A item \in Cargo : SizeOf(item) \in Sizes
  BY RelayAssumption DEF SizeOf
<1> QED BY <1>2, <1>3 DEF LetterType

\* What the network sees of a step: one of its own, or nothing.
LEMMA RelayStepIsNetworkStep ==
    ASSUME RelayTypeOK, [RelayNext]_relayVars
    PROVE  [Next]_vars
<1> USE DEF RelayNext
<1>1. CASE SendNext
  <2>1. outbox # <<>> /\ Send(Head(outbox).from, SizeOf(Head(outbox).item), Head(outbox).time)
    BY <1>1 DEF SendNext
  <2> QED BY <2>1, HeadLetter DEF Next
<1>2. CASE SendElsewhere
  BY <1>2 DEF SendElsewhere, Next
<1>3. CASE StartCall \/ Defer \/ DeliverNext
  BY <1>3 DEF StartCall, Defer, DeliverNext, Next
<1>4. CASE UNCHANGED vars
  BY <1>4
<1>5. CASE UNCHANGED relayVars
  BY <1>5 DEF relayVars
<1>6. CASE \/ Propose \/ (\E w \in Validators : CastPrecommit(w) \/ GossipFinalized(w))
           \/ HandleHeader \/ StoreBody \/ RefuseBody \/ HandlePrecommit
           \/ TryFinalize \/ DoRoundChange \/ Restart
  <2>1. UNCHANGED vars
    BY <1>6 DEF Propose, CastPrecommit, GossipFinalized, HandleHeader, StoreBody, RefuseBody,
         HandlePrecommit, TryFinalize, DoRoundChange, Restart
  <2> QED BY <2>1
<1> QED BY <1>1, <1>2, <1>3, <1>5, <1>6

\* The message that run_next or deliver takes next was not delivered before.
LEMMA NextDelivery ==
    ASSUME Inv, DeliverNext
    PROVE  \E seq \in DOMAIN messages \ delivered :
             /\ PopAndDeliver /\ messages' = messages
             /\ delivered' = delivered \cup {seq}
             /\ IF cargo[seq] # Elsewhere /\ call \in {AnyMessage, seq}
                THEN inbox' = Append(inbox, seq) /\ gone' = gone
                ELSE inbox' = inbox /\ gone' = gone \cup {seq}
             /\ \E e \in queue : Pop(e) /\ e.seq = seq
<1>1. PICK seq \in DOMAIN messages \ delivered :
         /\ PopAndDeliver
         /\ delivered' = delivered \cup {seq}
         /\ IF cargo[seq] # Elsewhere /\ call \in {AnyMessage, seq}
            THEN inbox' = Append(inbox, seq) /\ gone' = gone
            ELSE inbox' = inbox /\ gone' = gone \cup {seq}
  BY DEF DeliverNext
<1>2. PICK e \in queue : Pop(e) /\ messages' = messages /\ delivered' = delivered \cup {e.seq}
  BY <1>1 DEF PopAndDeliver
<1>3. e.seq = seq
  BY <1>1, <1>2
<1> QED BY <1>1, <1>2, <1>3

-----------------------------------------------------------------------------
(* Types *)

LEMMA CargoKinds ==
    /\ \A item \in Cargo : item.kind = "HEADER" => item = Header
    /\ \A item \in Cargo : item.kind = "PRECOMMIT" =>
          item.vote \in Precommits /\ item = Carrying(item.vote)
    /\ Header.kind = "HEADER" /\ Body.kind = "BODY" /\ Header # Body
    /\ \A vote : Carrying(vote).kind = "PRECOMMIT" /\ Carrying(vote) # Header
BY DEF Cargo, Header, Body, Elsewhere, Carrying

\* A letter of any time.
AnyLetter == [from : Peers, item : Cargo, time : Nat]

\* What may be posted is within the bounds.
LEMMA PostedAreLetters ==
    ASSUME NEW letters \in Seq(AnyLetter), MayPost(letters)
    PROVE  letters \in Seq(LetterType)
<1>1. \A k \in DOMAIN letters : letters[k] \in AnyLetter /\ letters[k].time <= MaxTime
  BY DEF MayPost
<1>2. \A k \in DOMAIN letters : letters[k] \in LetterType
  BY <1>1, NetworkAssumption DEF AnyLetter, LetterType
<1> QED BY <1>2

\* The copies of a message are letters.
LEMMA CopiesAreLetters ==
    ASSUME NEW w \in Peers, NEW item \in Cargo, NEW fault \in FaultResults, clock \in Nat
    PROVE  Copies(w, item, fault) \in Seq(AnyLetter)
<1> DEFINE n == IF w = Target THEN 0 ELSE TotalCopies(fault)
           letter == Letter(w, item, fault.delay)
<1>1. fault.delay \in Nat /\ fault.duplicates \in Nat
  BY FaultInjectorAssumption DEF FaultResults, FaultResult
<1>2. n \in Nat
  BY <1>1 DEF TotalCopies
<1>3. letter \in AnyLetter
  BY <1>1 DEF Letter, AnyLetter
<1>4. Copies(w, item, fault) = [k \in 1 .. n |-> letter]
  BY DEF Copies
<1> HIDE DEF n, letter
<1> QED BY <1>2, <1>3, <1>4

\* The letters of gossip_finalized are letters.
LEMMA GossipIsLetters ==
    ASSUME RelayTypeOK, NEW w \in Validators, GossipFinalized(w)
    PROVE  outbox' \in Seq(LetterType)
<1> DEFINE first == <<Letter(w, Header, 0), Letter(w, Body, 0)>>
<1>1. PICK votes \in SUBSET cast :
        \E sorted \in [1 .. Cardinality(Relayed(votes)) -> Relayed(votes)] :
          LET letters == first \o [k \in DOMAIN sorted |-> Letter(w, Carrying(sorted[k]), 0)] IN
          MayPost(letters) /\ outbox' = letters
  BY DEF GossipFinalized
<1>2. PICK sorted \in [1 .. Cardinality(Relayed(votes)) -> Relayed(votes)] :
        LET letters == first \o [k \in DOMAIN sorted |-> Letter(w, Carrying(sorted[k]), 0)] IN
        MayPost(letters) /\ outbox' = letters
  BY <1>1
<1> DEFINE n == Cardinality(Relayed(votes))
           rest == [k \in 1 .. n |-> Letter(w, Carrying(sorted[k]), 0)]
<1>3. clock \in Nat /\ w \in Peers /\ cast \subseteq Precommits /\ IsFiniteSet(cast)
  BY RelayAssumption DEF RelayTypeOK, TypeOK
<1>4. Relayed(votes) \subseteq Precommits /\ Relayed(votes) \subseteq cast
  BY <1>3 DEF Relayed
<1>5. n \in Nat
  BY <1>3, <1>4, FS_Subset, FS_CardinalityType
<1>6. \A item \in Cargo : Letter(w, item, 0) \in AnyLetter
  BY <1>3 DEF Letter, AnyLetter
<1>7. Header \in Cargo /\ Body \in Cargo /\ \A m \in Precommits : Carrying(m) \in Cargo
  BY DEF Cargo, Carrying
<1>8. first \in Seq(AnyLetter)
  BY <1>6, <1>7
<1>9. rest \in Seq(AnyLetter)
  <2>1. \A k \in 1 .. n : Letter(w, Carrying(sorted[k]), 0) \in AnyLetter
    <3> HIDE DEF n
    <3>1. \A k \in 1 .. n : sorted[k] \in Precommits
      BY <1>4 DEF n
    <3> QED BY <3>1, <1>6, <1>7
  <2> HIDE DEF n
  <2>2. rest \in [1 .. n -> AnyLetter]
    BY <2>1
  <2> HIDE DEF rest
  <2> QED BY <2>2, <1>5
<1>10. MayPost(first \o rest) /\ outbox' = first \o rest
  BY <1>2
<1> HIDE DEF first, rest, n
<1>11. outbox' \in Seq(AnyLetter)
  BY <1>8, <1>9, <1>10
<1> QED BY <1>10, <1>11, PostedAreLetters

LEMMA RelayTypeStep ==
    ASSUME Inv, Inv', RelayTypeOK, [RelayNext]_relayVars
    PROVE  RelayTypeOK'
<1>1. TypeOK /\ TypeOK' /\ clock \in Nat
  BY DEF Inv, TypeOK
<1>2. /\ outbox \in Seq(LetterType)
      /\ cargo \in Seq(Cargo) /\ Len(cargo) = Len(messages)
      /\ inbox \in Seq(DOMAIN messages) /\ gone \subseteq DOMAIN messages
      /\ round \in Nat /\ hasHeader \in BOOLEAN /\ hasBody \in BOOLEAN
      /\ precommits \subseteq Precommits /\ finalized \in BOOLEAN
      /\ proposed \in BOOLEAN /\ cast \subseteq Precommits /\ IsFiniteSet(cast)
      /\ gossiped \subseteq Validators
  BY DEF RelayTypeOK
<1>3. /\ DOMAIN messages = 1 .. Len(messages) /\ Len(messages) \in Nat
      /\ messages \in Seq(Message) /\ messages' \in Seq(Message)
  BY <1>1, MessageTypes DEF TypeOK
<1>4. CASE Propose
  <2>1. PICK header \in FaultResults, body \in FaultResults :
          LET letters == Copies(Proposer, Header, header) \o Copies(Proposer, Body, body) IN
          MayPost(letters) /\ outbox' = letters
    BY <1>4 DEF Propose
  <2> DEFINE one == Copies(Proposer, Header, header)
             two == Copies(Proposer, Body, body)
  <2>2. one \in Seq(AnyLetter) /\ two \in Seq(AnyLetter)
    BY <1>1, RelayAssumption, CopiesAreLetters DEF Cargo
  <2> HIDE DEF one, two
  <2>3. MayPost(one \o two) /\ outbox' = one \o two
    BY <2>1 DEF one, two
  <2>3a. one \o two \in Seq(AnyLetter)
    BY <2>2
  <2>4. outbox' \in Seq(LetterType)
    BY <2>3, <2>3a, PostedAreLetters
  <2>5. /\ UNCHANGED <<vars, cargo, inbox, gone, round, precommits, finalized, cast, gossiped>>
        /\ proposed' = TRUE
        /\ hasHeader' = (hasHeader \/ Proposer = Target)
        /\ hasBody' = (hasBody \/ Proposer = Target)
    BY <1>4 DEF Propose
  <2>6. hasHeader' \in BOOLEAN /\ hasBody' \in BOOLEAN
    BY <2>5
  <2> QED BY <1>1, <1>2, <2>4, <2>5, <2>6 DEF RelayTypeOK, vars
<1>5. ASSUME NEW w \in Validators, CastPrecommit(w)
      PROVE  RelayTypeOK'
  <2>1. PICK hash \in {TheBlock, NIL}, fault \in FaultResults :
          LET vote == Precommit(w, hash)
              letters == Copies(w, Carrying(vote), fault) IN
          /\ MayPost(letters) /\ outbox' = letters
          /\ cast' = cast \cup {vote}
          /\ precommits' = IF w = Target THEN Add(precommits, vote) ELSE precommits
    BY <1>5 DEF CastPrecommit
  <2> DEFINE vote == Precommit(w, hash)
  <2>2. vote \in Precommits
    BY RelayAssumption DEF Precommit, Precommits, Vote, Phases
  <2>3. w \in Peers /\ Carrying(vote) \in Cargo
    BY <2>2, RelayAssumption DEF Cargo, Carrying
  <2>4. outbox' \in Seq(LetterType)
    BY <1>1, <2>1, <2>3, CopiesAreLetters, PostedAreLetters
  <2>5. UNCHANGED <<vars, cargo, inbox, gone, round, hasHeader, hasBody, finalized,
                    proposed, gossiped>>
    BY <1>5 DEF CastPrecommit
  <2>6. cast' = cast \cup {vote} /\ (precommits' = precommits \/ precommits' = Add(precommits, vote))
    BY <2>1
  <2> HIDE DEF vote
  <2>7. cast' \subseteq Precommits /\ IsFiniteSet(cast')
    BY <1>2, <2>2, <2>6, FS_AddElement
  <2>8. precommits' \subseteq Precommits
    BY <1>2, <2>2, <2>6 DEF Add
  <2> QED BY <1>1, <1>2, <2>4, <2>5, <2>7, <2>8 DEF RelayTypeOK, vars
<1>6. ASSUME NEW w \in Validators, GossipFinalized(w)
      PROVE  RelayTypeOK'
  <2>1. UNCHANGED <<vars, cargo, inbox, gone, targetVars, proposed, cast>>
        /\ gossiped' = gossiped \cup {w}
    BY <1>6 DEF GossipFinalized
  <2> QED BY <1>1, <1>2, <1>6, <2>1, GossipIsLetters DEF RelayTypeOK, vars, targetVars
<1>7. ASSUME NEW p \in Peers, NEW size \in Sizes, NEW time \in Nat, NEW item \in Cargo,
             Send(p, size, time), cargo' = Append(cargo, item),
             outbox' \in Seq(LetterType),
             UNCHANGED <<inbox, gone, targetVars, senderVars>>
      PROVE  RelayTypeOK'
  <2> DEFINE m == [sender |-> p, size |-> size, time |-> time]
  <2>1. m \in Message /\ messages' = Append(messages, m)
    BY <1>7 DEF Send, Message
  <2> HIDE DEF m
  <2>2. DOMAIN messages \subseteq DOMAIN messages' /\ Len(messages') = Len(messages) + 1
    BY <2>1, <1>3
  <2>3. cargo' \in Seq(Cargo) /\ Len(cargo') = Len(messages')
    BY <1>2, <1>7, <2>2
  <2>4. inbox' \in Seq(DOMAIN messages') /\ gone' \subseteq DOMAIN messages'
    BY <1>2, <1>7, <2>2
  <2> QED BY <1>1, <1>2, <1>7, <2>3, <2>4 DEF RelayTypeOK, targetVars, senderVars
<1>8. CASE SendNext
  <2>1. /\ Send(Head(outbox).from, SizeOf(Head(outbox).item), Head(outbox).time)
        /\ cargo' = Append(cargo, Head(outbox).item)
        /\ outbox' = Tail(outbox) /\ outbox # <<>>
        /\ UNCHANGED <<inbox, gone, targetVars, senderVars>>
    BY <1>8 DEF SendNext
  <2>2. Head(outbox).time \in Nat
    BY <2>1, HeadLetter, NetworkAssumption
  <2> QED BY <2>1, <2>2, <1>7, HeadLetter
<1>9. CASE SendElsewhere
  <2>1. PICK p \in Peers, size \in Sizes, time \in 0 .. MaxTime : Send(p, size, time)
    BY <1>9 DEF SendElsewhere
  <2>2. /\ cargo' = Append(cargo, Elsewhere) /\ Elsewhere \in Cargo /\ time \in Nat
        /\ UNCHANGED <<outbox, inbox, gone, targetVars, senderVars>>
    BY <1>9 DEF SendElsewhere, Cargo
  <2> QED BY <1>1, <1>2, <2>1, <2>2, <1>7
<1>10. CASE StartCall \/ Defer
  <2>1. /\ UNCHANGED messages
        /\ UNCHANGED <<outbox, cargo, inbox, gone, targetVars, senderVars>>
    BY <1>10 DEF StartCall, Defer, RunNext, Deliver, PopAndDefer
  <2> QED BY <1>1, <1>2, <2>1 DEF RelayTypeOK, targetVars, senderVars
<1>11. CASE DeliverNext
  <2>1. PICK seq \in DOMAIN messages \ delivered :
          /\ messages' = messages
          /\ IF cargo[seq] # Elsewhere /\ call \in {AnyMessage, seq}
             THEN inbox' = Append(inbox, seq) /\ gone' = gone
             ELSE inbox' = inbox /\ gone' = gone \cup {seq}
    BY <1>11, NextDelivery
  <2>2. UNCHANGED <<outbox, cargo, targetVars, senderVars>>
    BY <1>11 DEF DeliverNext
  <2>3. inbox' \in Seq(DOMAIN messages') /\ gone' \subseteq DOMAIN messages'
    <3>1. \/ inbox' = Append(inbox, seq) /\ gone' = gone
          \/ inbox' = inbox /\ gone' = gone \cup {seq}
      BY <2>1
    <3>2. inbox' \in Seq(DOMAIN messages)
      <4>1. CASE inbox' = Append(inbox, seq)
        BY <1>2, <4>1
      <4> QED BY <1>2, <3>1, <4>1
    <3>3. gone' \subseteq DOMAIN messages
      BY <1>2, <3>1
    <3> QED BY <2>1, <3>2, <3>3
  <2> QED BY <1>1, <1>2, <2>1, <2>2, <2>3 DEF RelayTypeOK, targetVars, senderVars
<1>12. CASE HandleHeader \/ StoreBody \/ RefuseBody \/ HandlePrecommit
  <2>1. inbox # <<>> /\ inbox' = Tail(inbox)
    BY <1>12 DEF HandleHeader, StoreBody, RefuseBody, HandlePrecommit, IncomingIs
  <2>2. /\ Incoming \in DOMAIN messages /\ inbox' \in Seq(DOMAIN messages)
        /\ Incoming \in DOMAIN cargo
    BY <1>2, <1>3, <2>1 DEF Incoming
  <2>3. gone' \subseteq gone \cup {Incoming} /\ UNCHANGED <<vars, outbox, cargo, senderVars>>
        /\ UNCHANGED <<round, finalized>>
    BY <1>12 DEF HandleHeader, StoreBody, RefuseBody, HandlePrecommit, targetVars
  <2>4. hasHeader' \in BOOLEAN /\ hasBody' \in BOOLEAN
    BY <1>2, <1>12 DEF HandleHeader, StoreBody, RefuseBody, HandlePrecommit, targetVars
  <2>5. precommits' \subseteq Precommits
    <3>1. CASE HandlePrecommit
      <4>1. precommits' = precommits \/ precommits' = Add(precommits, cargo[Incoming].vote)
        BY <3>1 DEF HandlePrecommit
      <4>2. cargo[Incoming].vote \in Precommits
        BY <1>2, <2>2, <3>1, CargoKinds DEF HandlePrecommit, IncomingIs
      <4> QED BY <1>2, <4>1, <4>2 DEF Add
    <3> QED BY <1>2, <1>12, <3>1 DEF HandleHeader, StoreBody, RefuseBody, targetVars
  <2> QED BY <1>1, <1>2, <2>2, <2>3, <2>4, <2>5 DEF RelayTypeOK, vars, senderVars
<1>13. CASE TryFinalize \/ DoRoundChange \/ Restart
  <2>1. UNCHANGED <<vars, outbox, cargo, inbox, senderVars>>
    BY <1>13 DEF TryFinalize, DoRoundChange, Restart
  <2>2. gone' \subseteq gone \cup delivered /\ delivered \subseteq DOMAIN messages
    BY <1>1, <1>13 DEF TryFinalize, DoRoundChange, Restart, Forget, TypeOK
  <2>3. /\ round' \in Nat /\ hasHeader' \in BOOLEAN /\ hasBody' \in BOOLEAN
        /\ precommits' \subseteq Precommits /\ finalized' \in BOOLEAN
    <3>1. CASE TryFinalize \/ Restart
      <4>1. /\ round' = 0 /\ hasHeader' = FALSE /\ hasBody' = FALSE /\ precommits' = {}
            /\ finalized' = TRUE \/ finalized' = finalized
        BY <3>1 DEF TryFinalize, Restart, Forget
      <4> QED BY <1>2, <4>1
    <3>2. CASE DoRoundChange
      BY <1>2, <3>2 DEF DoRoundChange
    <3> QED BY <1>13, <3>1, <3>2
  <2> QED BY <1>1, <1>2, <2>1, <2>2, <2>3 DEF RelayTypeOK, vars, senderVars
<1>14. CASE UNCHANGED relayVars
  BY <1>1, <1>2, <1>14 DEF RelayTypeOK, relayVars, vars, targetVars, senderVars
<1> QED BY <1>4, <1>5, <1>6, <1>8, <1>9, <1>10, <1>11, <1>12, <1>13, <1>14 DEF RelayNext

-----------------------------------------------------------------------------
(* What the Target knows *)

\* A message and what it carries stay as they were sent.
LEMMA LettersStay ==
    ASSUME RelayInv, [RelayNext]_relayVars
    PROVE  /\ [Next]_vars
           /\ delivered \subseteq DOMAIN messages /\ delivered \subseteq delivered'
           /\ \A s \in DOMAIN messages : /\ messages'[s] = messages[s]
                                         /\ cargo'[s] = cargo[s]
           /\ \A s \in DOMAIN messages : \A w :
                 /\ FirstHandHeader(s)' <=> FirstHandHeader(s)
                 /\ FirstHandPrecommit(s, w)' <=> FirstHandPrecommit(s, w)
<1>1. [Next]_vars /\ Inv /\ RelayTypeOK
  BY RelayStepIsNetworkStep DEF RelayInv
<1>2. /\ DOMAIN messages = 1 .. Len(messages) /\ Len(messages) \in Nat
      /\ cargo \in Seq(Cargo) /\ Len(cargo) = Len(messages)
      /\ delivered \subseteq DOMAIN messages
  BY <1>1, MessageTypes DEF Inv, TypeOK, RelayTypeOK
<1>3. delivered \subseteq delivered' /\ \A s \in DOMAIN messages : messages'[s] = messages[s]
  BY <1>1, NetworkGrows
<1>4. cargo' = cargo \/ \E item \in Cargo : cargo' = Append(cargo, item)
  <2>1. CASE SendNext
    BY <2>1, <1>1, HeadLetter DEF SendNext
  <2>2. CASE SendElsewhere
    BY <2>2 DEF SendElsewhere, Cargo
  <2>3. CASE \/ Propose \/ (\E w \in Validators : CastPrecommit(w) \/ GossipFinalized(w))
             \/ StartCall \/ Defer \/ DeliverNext
             \/ HandleHeader \/ StoreBody \/ RefuseBody \/ HandlePrecommit
             \/ TryFinalize \/ DoRoundChange \/ Restart \/ UNCHANGED relayVars
    BY <2>3 DEF Propose, CastPrecommit, GossipFinalized, StartCall, Defer, DeliverNext,
         HandleHeader, StoreBody, RefuseBody, HandlePrecommit, TryFinalize, DoRoundChange,
         Restart, relayVars
  <2> QED BY <2>1, <2>2, <2>3 DEF RelayNext
<1>5. \A s \in DOMAIN messages : cargo'[s] = cargo[s]
  BY <1>2, <1>4
<1> QED BY <1>1, <1>2, <1>3, <1>5 DEF FirstHandHeader, FirstHandPrecommit

\* The message that the Target handles was delivered, and is the first of its inbox.
LEMMA Handled ==
    ASSUME RelayInv, NEW kind, IncomingIs(kind)
    PROVE  /\ Incoming \in delivered /\ Incoming \in DOMAIN messages
           /\ cargo[Incoming] \in Cargo
           /\ Len(inbox) \in Nat /\ Len(inbox) > 0 /\ DOMAIN inbox = 1 .. Len(inbox)
           /\ inbox[1] = Incoming
           /\ DOMAIN Tail(inbox) = 1 .. Len(inbox) - 1
           /\ \A k \in DOMAIN Tail(inbox) : Tail(inbox)[k] = inbox[k + 1]
<1>1. /\ inbox \in Seq(DOMAIN messages) /\ inbox # <<>> /\ cargo \in Seq(Cargo)
      /\ Len(cargo) = Len(messages) /\ DOMAIN messages = 1 .. Len(messages)
  BY MessageTypes DEF RelayInv, Inv, RelayTypeOK, IncomingIs
<1>2. /\ Len(inbox) \in Nat /\ Len(inbox) > 0 /\ DOMAIN inbox = 1 .. Len(inbox)
      /\ inbox[1] = Head(inbox)
      /\ DOMAIN Tail(inbox) = 1 .. Len(inbox) - 1
      /\ \A k \in DOMAIN Tail(inbox) : Tail(inbox)[k] = inbox[k + 1]
  BY <1>1
<1>3. Incoming \in delivered
  BY <1>2 DEF RelayInv, Returned, Incoming
<1>4. Incoming \in DOMAIN messages /\ cargo[Incoming] \in Cargo
  BY <1>1, <1>2 DEF Incoming
<1> QED BY <1>2, <1>3, <1>4 DEF Incoming

\* How the inbox changes: something new comes last, or the first one is handled.
LEMMA InboxSteps ==
    ASSUME RelayInv, [RelayNext]_relayVars
    PROVE  \/ inbox' = inbox
           \/ \E seq \in delivered' \ delivered :
                seq \in DOMAIN messages /\ inbox' = Append(inbox, seq)
                /\ \E e \in queue : Pop(e) /\ e.seq = seq
           \/ \E kind : IncomingIs(kind) /\ inbox' = Tail(inbox)
<1>1. CASE DeliverNext
  <2>1. PICK seq \in DOMAIN messages \ delivered :
          /\ delivered' = delivered \cup {seq}
          /\ IF cargo[seq] # Elsewhere /\ call \in {AnyMessage, seq}
             THEN inbox' = Append(inbox, seq) /\ gone' = gone
             ELSE inbox' = inbox /\ gone' = gone \cup {seq}
          /\ \E e \in queue : Pop(e) /\ e.seq = seq
    BY <1>1, NextDelivery DEF RelayInv
  <2> QED BY <2>1
<1>2. CASE HandleHeader \/ StoreBody \/ RefuseBody \/ HandlePrecommit
  BY <1>2 DEF HandleHeader, StoreBody, RefuseBody, HandlePrecommit
<1>3. CASE \/ Propose \/ (\E w \in Validators : CastPrecommit(w) \/ GossipFinalized(w))
           \/ StartCall \/ Defer \/ SendNext \/ SendElsewhere
           \/ TryFinalize \/ DoRoundChange \/ Restart \/ UNCHANGED relayVars
  BY <1>3 DEF Propose, CastPrecommit, GossipFinalized, StartCall, Defer, SendNext, SendElsewhere,
       TryFinalize, DoRoundChange, Restart, relayVars
<1> QED BY <1>1, <1>2, <1>3 DEF RelayNext

LEMMA ReturnedStep ==
    ASSUME RelayInv, [RelayNext]_relayVars
    PROVE  Returned' /\ ReturnedInOrder'
<1>1. /\ delivered \subseteq delivered' /\ [Next]_vars /\ delivered \subseteq DOMAIN messages
      /\ \A s \in DOMAIN messages : messages'[s] = messages[s]
  BY LettersStay
<1>2. /\ Inv /\ Returned /\ ReturnedInOrder /\ WaitsForRoom
      /\ inbox \in Seq(DOMAIN messages)
  BY DEF RelayInv, RelayTypeOK
<1>3. ASSUME NEW a \in DOMAIN messages, NEW b \in DOMAIN messages
      PROVE  /\ SentAhead(a, b)' <=> SentAhead(a, b)
             /\ TicksFull(a, b) => TicksFull(a, b)'
  BY <1>1, <1>2, FullStaysFull DEF SentAhead
<1>4. /\ \A k \in DOMAIN inbox' : inbox'[k] \in delivered' /\ inbox'[k] \in DOMAIN messages
      /\ \A j, k \in DOMAIN inbox' :
            j < k /\ SentAhead(inbox'[k], inbox'[j]) => TicksFull(inbox'[k], inbox'[j])
  <2>1. CASE inbox' = inbox
    BY <1>1, <1>2, <2>1 DEF Returned, ReturnedInOrder
  <2>2. CASE \E kind : IncomingIs(kind) /\ inbox' = Tail(inbox)
    <3> PICK kind : IncomingIs(kind) /\ inbox' = Tail(inbox)
      BY <2>2
    <3>1. /\ Len(inbox) \in Nat /\ DOMAIN inbox = 1 .. Len(inbox)
          /\ DOMAIN inbox' = 1 .. Len(inbox) - 1
          /\ \A k \in DOMAIN inbox' : inbox'[k] = inbox[k + 1]
      BY Handled
    <3>2. \A k \in DOMAIN inbox' : k \in Nat /\ k + 1 \in DOMAIN inbox
      BY <3>1
    <3> QED BY <1>1, <1>2, <3>1, <3>2 DEF Returned, ReturnedInOrder
  <2>3. CASE \E seq \in delivered' \ delivered :
                seq \in DOMAIN messages /\ inbox' = Append(inbox, seq)
                /\ \E e \in queue : Pop(e) /\ e.seq = seq
    <3>1. PICK seq \in delivered' \ delivered, e \in queue :
            seq \in DOMAIN messages /\ inbox' = Append(inbox, seq) /\ Pop(e) /\ e.seq = seq
      BY <2>3
    <3>2. /\ DOMAIN inbox' = DOMAIN inbox \cup {Len(inbox) + 1}
          /\ DOMAIN inbox = 1 .. Len(inbox) /\ Len(inbox) \in Nat
          /\ \A k \in DOMAIN inbox : inbox'[k] = inbox[k]
          /\ inbox'[Len(inbox) + 1] = seq
      BY <1>2, <3>1
    <3>3. ASSUME NEW j \in DOMAIN inbox, SentAhead(seq, inbox[j])
          PROVE  TicksFull(seq, inbox[j])
      <4>1. seq \in InFlight
        BY <3>1 DEF InFlight
      <4> QED BY <1>2, <3>3, <4>1 DEF WaitsForRoom, Returned
    <3>4. ASSUME NEW j \in DOMAIN inbox', NEW k \in DOMAIN inbox', j < k,
                 SentAhead(inbox'[k], inbox'[j])
          PROVE  TicksFull(inbox'[k], inbox'[j])
      <4>1. j \in DOMAIN inbox
        BY <3>2, <3>4
      <4>2. CASE k \in DOMAIN inbox
        BY <1>2, <3>2, <3>4, <4>1, <4>2 DEF ReturnedInOrder
      <4>3. CASE k = Len(inbox) + 1
        BY <3>2, <3>3, <3>4, <4>1, <4>3
      <4> QED BY <3>2, <4>2, <4>3
    <3> QED BY <1>1, <1>2, <3>1, <3>2, <3>4 DEF Returned
  <2> QED BY <2>1, <2>2, <2>3, InboxSteps
<1>5. ASSUME NEW j \in DOMAIN inbox', NEW k \in DOMAIN inbox', j < k,
             SentAhead(inbox[k], inbox[j])'
      PROVE  TicksFull(inbox[k], inbox[j])'
  <2>1. PICK a \in DOMAIN messages, b \in DOMAIN messages : a = inbox'[k] /\ b = inbox'[j]
    BY <1>4
  <2>2. SentAhead(a, b)'
    BY <1>5, <2>1 DEF SentAhead
  <2>3. TicksFull(a, b)
    BY <1>3, <1>4, <1>5, <2>1, <2>2
  <2>4. TicksFull(a, b)'
    BY <1>3, <2>3
  <2> QED BY <2>1, <2>4 DEF TicksFull, BytesAt
<1> QED BY <1>4, <1>5 DEF Returned, ReturnedInOrder

\* A header that the Target handles is kept or gone, and what it forgets is gone.
LEMMA HeaderAccountedStep ==
    ASSUME RelayInv, [RelayNext]_relayVars
    PROVE  HeaderAccounted'
<1> SUFFICES ASSUME NEW seq \in delivered', FirstHandHeader(seq)'
             PROVE  seq \in gone' \/ hasHeader' \/ \E k \in DOMAIN inbox' : inbox'[k] = seq
  BY DEF HeaderAccounted
<1>1. /\ delivered \subseteq delivered' /\ [Next]_vars /\ delivered \subseteq DOMAIN messages
      /\ \A s \in DOMAIN messages : FirstHandHeader(s)' <=> FirstHandHeader(s)
  BY LettersStay
<1>2. HeaderAccounted /\ inbox \in Seq(DOMAIN messages)
  BY DEF RelayInv, RelayTypeOK
<1>3. CASE DeliverNext
  <2>1. PICK s \in DOMAIN messages \ delivered :
          /\ delivered' = delivered \cup {s}
          /\ IF cargo[s] # Elsewhere /\ call \in {AnyMessage, s}
             THEN inbox' = Append(inbox, s) /\ gone' = gone
             ELSE inbox' = inbox /\ gone' = gone \cup {s}
    BY <1>3, NextDelivery DEF RelayInv
  <2>2. hasHeader' = hasHeader
    BY <1>3 DEF DeliverNext, targetVars
  <2>3. CASE inbox' = Append(inbox, s) /\ gone' = gone
    <3>1. /\ DOMAIN inbox \subseteq DOMAIN inbox'
          /\ \A k \in DOMAIN inbox : inbox'[k] = inbox[k]
          /\ \E k \in DOMAIN inbox' : inbox'[k] = s
      <4>1. /\ DOMAIN inbox' = DOMAIN inbox \cup {Len(inbox) + 1}
            /\ \A k \in DOMAIN inbox : inbox'[k] = inbox[k]
            /\ inbox'[Len(inbox) + 1] = s
        BY <1>2, <2>3
      <4> QED BY <4>1
    <3>2. CASE seq = s
      BY <3>1, <3>2
    <3>3. CASE seq \in delivered
      BY <1>1, <1>2, <2>2, <2>3, <3>1, <3>3 DEF HeaderAccounted
    <3> QED BY <2>1, <3>2, <3>3
  <2>4. CASE inbox' = inbox /\ gone' = gone \cup {s}
    BY <1>1, <1>2, <2>1, <2>2, <2>4 DEF HeaderAccounted
  <2> QED BY <2>1, <2>3, <2>4
<1>4. ASSUME delivered' = delivered PROVE seq \in delivered /\ FirstHandHeader(seq)
  BY <1>1, <1>4
<1>5. CASE HandleHeader \/ StoreBody \/ RefuseBody \/ HandlePrecommit
  <2>1. PICK kind : IncomingIs(kind) /\ inbox' = Tail(inbox)
    BY <1>5 DEF HandleHeader, StoreBody, RefuseBody, HandlePrecommit
  <2>2. /\ Incoming \in DOMAIN messages
        /\ inbox[1] = Incoming
        /\ \A k \in DOMAIN inbox : k = 1 \/ (k - 1 \in DOMAIN inbox' /\ inbox'[k - 1] = inbox[k])
    <3>1. /\ Len(inbox) \in Nat /\ DOMAIN inbox = 1 .. Len(inbox)
          /\ DOMAIN inbox' = 1 .. Len(inbox) - 1
          /\ \A k \in DOMAIN inbox' : inbox'[k] = inbox[k + 1]
          /\ Incoming \in DOMAIN messages /\ inbox[1] = Incoming
      BY <2>1, Handled
    <3> QED BY <3>1
  <2>3. gone \subseteq gone' /\ (hasHeader => hasHeader') /\ delivered' = delivered
    BY <1>5 DEF HandleHeader, StoreBody, RefuseBody, HandlePrecommit, targetVars, vars
  <2>4. CASE seq = Incoming /\ ~ hasHeader'
    <3>1. cargo[Incoming].kind = "HEADER" /\ Incoming \in delivered
      BY <1>4, <2>3, <2>4, CargoKinds DEF FirstHandHeader
    <3>2. HandleHeader
      BY <1>5, <3>1 DEF StoreBody, RefuseBody, HandlePrecommit, IncomingIs
    <3> QED BY <2>4, <3>2 DEF HandleHeader
  <2>5. CASE seq # Incoming
    <3>1. seq \in gone \/ hasHeader \/ \E k \in DOMAIN inbox : inbox[k] = seq /\ k # 1
      BY <1>2, <1>4, <2>2, <2>3, <2>5 DEF HeaderAccounted
    <3> QED BY <2>2, <2>3, <3>1
  <2> QED BY <2>4, <2>5
<1>6. CASE TryFinalize \/ Restart
  <2>1. /\ gone' = gone \cup (delivered \ {inbox[k] : k \in DOMAIN inbox})
        /\ inbox' = inbox /\ delivered' = delivered
    BY <1>6 DEF TryFinalize, Restart, Forget, vars
  <2> QED BY <1>4, <2>1
<1>7. CASE \/ Propose \/ (\E w \in Validators : CastPrecommit(w) \/ GossipFinalized(w))
           \/ StartCall \/ Defer \/ SendNext \/ SendElsewhere
           \/ DoRoundChange \/ UNCHANGED relayVars
  <2>1. UNCHANGED <<delivered, inbox, gone>>
    BY <1>7 DEF Propose, CastPrecommit, GossipFinalized, StartCall, RunNext, Deliver, Defer,
         PopAndDefer, SendNext, SendElsewhere, Send, DoRoundChange, relayVars, vars
  <2>2. hasHeader => hasHeader'
    <3>1. CASE Propose
      <4>1. hasHeader' = (hasHeader \/ Proposer = Target)
        BY <3>1 DEF Propose
      <4> QED BY <4>1
    <3>2. CASE ~ Propose
      <4>1. hasHeader' = hasHeader
        BY <1>7, <3>2 DEF CastPrecommit, GossipFinalized, StartCall, Defer, SendNext,
             SendElsewhere, DoRoundChange, relayVars, targetVars
      <4> QED BY <4>1
    <3> QED BY <3>1, <3>2
  <2> QED BY <1>2, <1>4, <2>1, <2>2 DEF HeaderAccounted
<1> QED BY <1>3, <1>5, <1>6, <1>7 DEF RelayNext

LEMMA HeardGrows ==
    ASSUME NEW S \in SUBSET Validators, NEW T \in SUBSET Validators, S \subseteq T,
           Cardinality(S) >= Threshold
    PROVE  Cardinality(T) >= Threshold
<1>1. IsFiniteSet(Validators) /\ IsFiniteSet(T)
  BY VoteSetAssumption, FS_Subset
<1>2. Cardinality(S) <= Cardinality(T) /\ Cardinality(S) \in Nat /\ Cardinality(T) \in Nat
  BY <1>1, FS_Subset, FS_CardinalityType
<1>3. N \in Nat
  BY <1>1, FS_CardinalityType DEF N
<1>4. Threshold \in Int
  BY <1>3 DEF Threshold, Faults
<1> QED BY <1>2, <1>4

\* Header, votes and finality of the Target stay first-hand.
LEMMA FirstHandStep ==
    ASSUME RelayInv, [RelayNext]_relayVars
    PROVE  FirstHand'
<1>1. /\ delivered \subseteq delivered' /\ delivered \subseteq DOMAIN messages
      /\ \A s \in DOMAIN messages : /\ messages'[s] = messages[s]
                                    /\ cargo'[s] = cargo[s]
      /\ \A s \in DOMAIN messages : \A w :
            /\ FirstHandHeader(s)' <=> FirstHandHeader(s)
            /\ FirstHandPrecommit(s, w)' <=> FirstHandPrecommit(s, w)
  BY LettersStay
<1>2. /\ FirstHand /\ FinalizedFirstHand /\ precommits \subseteq Precommits
      /\ hasHeader \in BOOLEAN /\ finalized \in BOOLEAN
  BY DEF RelayInv, FirstHand, RelayTypeOK
<1>3. cast \subseteq cast' /\ (proposed => proposed')
  <2>1. CASE Propose
    BY <2>1 DEF Propose
  <2>2. CASE \E w \in Validators : CastPrecommit(w)
    <3>1. cast \subseteq cast' /\ proposed' = proposed
      BY <2>2 DEF CastPrecommit
    <3> QED BY <3>1
  <2>3. CASE ~ Propose /\ ~ (\E w \in Validators : CastPrecommit(w))
    <3>1. cast' = cast /\ proposed' = proposed
      BY <2>3 DEF RelayNext, GossipFinalized, StartCall, Defer, DeliverNext, SendNext,
           SendElsewhere, HandleHeader, StoreBody, RefuseBody, HandlePrecommit, TryFinalize,
           Restart, DoRoundChange, relayVars, senderVars
    <3> QED BY <3>1
  <2> QED BY <2>1, <2>2, <2>3
<1>4. /\ (OwnBlock \/ \E seq \in delivered : FirstHandHeader(seq))
            => OwnBlock' \/ \E seq \in delivered' : FirstHandHeader(seq)'
      /\ \A m : Own(m) => Own(m)'
      /\ Heard \subseteq Heard' /\ Heard' \subseteq Validators
  BY <1>1, <1>3 DEF OwnBlock, Own, OwnPrecommit, Heard
<1>5. hasHeader' => OwnBlock' \/ \E seq \in delivered' : FirstHandHeader(seq)'
  <2>1. CASE HandleHeader
    <3>1. Incoming \in delivered /\ cargo[Incoming] = Header
      BY <2>1, Handled, CargoKinds DEF HandleHeader, IncomingIs
    <3>2. CASE Routed(Incoming, Proposer)
      <4>1. FirstHandHeader(Incoming)
        BY <3>1, <3>2 DEF Routed, FirstHandHeader
      <4> QED BY <3>1, <4>1, <1>4
    <3>3. CASE ~ Routed(Incoming, Proposer)
      BY <2>1, <3>3, <1>2, <1>4 DEF HandleHeader, FirstHand
    <3> QED BY <3>2, <3>3
  <2>2. CASE Propose
    <3>1. hasHeader' = (hasHeader \/ Proposer = Target) /\ proposed' = TRUE
      BY <2>2 DEF Propose
    <3>2. CASE Proposer = Target
      BY <3>1, <3>2 DEF OwnBlock
    <3>3. CASE Proposer # Target
      BY <3>1, <3>3, <1>2, <1>4 DEF FirstHand
    <3> QED BY <3>2, <3>3
  <2>3. CASE ~ HandleHeader /\ ~ Propose
    <3>1. hasHeader' = hasHeader \/ hasHeader' = FALSE
      BY <2>3 DEF RelayNext, CastPrecommit, GossipFinalized, StartCall, Defer, DeliverNext,
           SendNext, SendElsewhere, StoreBody, RefuseBody, HandlePrecommit, TryFinalize, Restart,
           Forget, DoRoundChange, relayVars, targetVars
    <3> QED BY <3>1, <1>2, <1>4 DEF FirstHand
  <2> QED BY <2>1, <2>2, <2>3
<1>6. ASSUME NEW m \in precommits'
      PROVE  Own(m)' \/ CameIn(m)'
  <2>1. CASE m \in precommits
    <3>1. Own(m) \/ CameIn(m)
      BY <2>1, <1>2 DEF FirstHand
    <3>2. CameIn(m) => CameIn(m)'
      BY <1>1 DEF CameIn
    <3> QED BY <3>1, <3>2, <1>4
  <2>2. CASE m \notin precommits /\ HandlePrecommit
    <3>1. /\ Routed(Incoming, cargo[Incoming].vote.val)
          /\ precommits' = Add(precommits, cargo[Incoming].vote)
      BY <2>2 DEF HandlePrecommit
    <3>2. m = cargo[Incoming].vote
      BY <2>2, <3>1 DEF Add
    <3>3. Incoming \in delivered /\ cargo[Incoming] = Carrying(m)
      BY <2>2, <3>2, Handled, CargoKinds DEF HandlePrecommit, IncomingIs
    <3>4. messages[Incoming].sender = m.val
      BY <3>1, <3>2 DEF Routed
    <3> QED BY <3>3, <3>4, <1>1 DEF CameIn
  <2>3. CASE m \notin precommits /\ \E w \in Validators : CastPrecommit(w)
    <3>1. PICK w \in Validators : CastPrecommit(w)
      BY <2>3
    <3>2. PICK hash \in {TheBlock, NIL} :
            /\ cast' = cast \cup {Precommit(w, hash)}
            /\ precommits' = IF w = Target THEN Add(precommits, Precommit(w, hash))
                                           ELSE precommits
      BY <3>1 DEF CastPrecommit
    <3>3. w = Target /\ m = Precommit(w, hash)
      BY <2>3, <3>2 DEF Add
    <3> QED BY <3>2, <3>3 DEF Own, Precommit
  <2>4. CASE m \notin precommits /\ ~ HandlePrecommit /\ ~ (\E w \in Validators : CastPrecommit(w))
    BY <2>4 DEF RelayNext, Propose, GossipFinalized, StartCall, Defer, DeliverNext,
         SendNext, SendElsewhere, HandleHeader, StoreBody, RefuseBody, TryFinalize, Restart,
         Forget, DoRoundChange, relayVars, targetVars
  <2> QED BY <2>1, <2>2, <2>3, <2>4
<1>7. FinalizedFirstHand'
  <2>1. CASE TryFinalize
    <3>1. HasQuorum(precommits, round, "PRECOMMIT", TheBlock) /\ hasHeader
      BY <2>1 DEF TryFinalize
    <3>2. Supporters(precommits, round, "PRECOMMIT", TheBlock) \subseteq Heard
      <4> SUFFICES ASSUME NEW w \in Validators, NEW m \in precommits,
                          m.val = w, m.hash = TheBlock
                   PROVE  OwnPrecommit(w) \/ \E seq \in delivered : FirstHandPrecommit(seq, w)
        BY DEF Supporters, VotesOf, Heard
      <4>1. m = Precommit(w, TheBlock)
        BY <1>2 DEF Precommits, Vote, Precommit
      <4>2. Own(m) \/ CameIn(m)
        BY <1>2 DEF FirstHand
      <4> QED BY <4>1, <4>2 DEF Own, CameIn, OwnPrecommit, FirstHandPrecommit
    <3>3. Cardinality(Heard') >= Threshold
      <4> DEFINE S == Supporters(precommits, round, "PRECOMMIT", TheBlock)
      <4>1. S \in SUBSET Validators /\ S \subseteq Heard' /\ Heard' \in SUBSET Validators
        BY <3>2, <1>4 DEF Supporters
      <4>2. Cardinality(S) >= Threshold
        BY <3>1 DEF HasQuorum
      <4> HIDE DEF S
      <4> QED BY <4>1, <4>2, HeardGrows
    <3>4. OwnBlock' \/ \E seq \in delivered' : FirstHandHeader(seq)'
      BY <3>1, <1>2, <1>4 DEF FirstHand
    <3> QED BY <3>3, <3>4 DEF FinalizedFirstHand
  <2>2. CASE ~ TryFinalize
    <3>1. finalized' = finalized
      BY <2>2 DEF RelayNext, Propose, CastPrecommit, GossipFinalized, StartCall, Defer, DeliverNext,
           SendNext, SendElsewhere, HandleHeader, StoreBody, RefuseBody, HandlePrecommit, Restart,
           DoRoundChange, relayVars, targetVars
    <3> SUFFICES ASSUME finalized
                 PROVE  /\ OwnBlock' \/ \E seq \in delivered' : FirstHandHeader(seq)'
                        /\ Cardinality(Heard') >= Threshold
      BY <3>1 DEF FinalizedFirstHand
    <3>2. /\ OwnBlock \/ \E seq \in delivered : FirstHandHeader(seq)
          /\ Cardinality(Heard) >= Threshold
      BY <1>2 DEF FinalizedFirstHand
    <3>3. Heard \in SUBSET Validators /\ Heard' \in SUBSET Validators
      BY <1>4 DEF Heard
    <3>4. Cardinality(Heard') >= Threshold
      <4> HIDE DEF Heard
      <4> QED BY <3>2, <3>3, <1>4, HeardGrows
    <3> QED BY <3>2, <3>4, <1>4
  <2> QED BY <2>1, <2>2
<1> QED BY <1>5, <1>6, <1>7 DEF FirstHand

LEMMA RelayInvInit == RelayInit => RelayInv
<1> SUFFICES ASSUME RelayInit PROVE RelayInv
  OBVIOUS
<1>1. Inv
  BY InvInit DEF RelayInit
<1>2. messages = <<>> /\ delivered = {} /\ queue = {}
  BY DEF RelayInit, Init
<1>3. RelayTypeOK
  <2>1. /\ outbox = <<>> /\ cargo = <<>> /\ inbox = <<>> /\ gone = {}
        /\ round = 0 /\ hasHeader = FALSE /\ hasBody = FALSE /\ precommits = {}
        /\ finalized = FALSE /\ proposed = FALSE /\ cast = {} /\ gossiped = {}
    BY DEF RelayInit
  <2>2. outbox \in Seq(LetterType) /\ cargo \in Seq(Cargo) /\ inbox \in Seq(DOMAIN messages)
    BY <2>1
  <2>3. Len(cargo) = Len(messages)
    BY <1>2, <2>1
  <2>4. TypeOK
    BY <1>1 DEF Inv
  <2>5. IsFiniteSet(cast)
    BY <2>1, FS_EmptySet
  <2> QED BY <2>1, <2>2, <2>3, <2>4, <2>5 DEF RelayTypeOK
<1>4. Returned /\ FirstHand /\ HeaderAccounted /\ WaitsForRoom /\ ReturnedInOrder
  BY <1>2 DEF RelayInit, Returned, FirstHand, FinalizedFirstHand, HeaderAccounted, WaitsForRoom,
       ReturnedInOrder
<1> QED BY <1>1, <1>3, <1>4 DEF RelayInv

LEMMA RelayInvStep == RelayInv /\ [RelayNext]_relayVars => RelayInv'
<1> SUFFICES ASSUME RelayInv, [RelayNext]_relayVars PROVE RelayInv'
  OBVIOUS
<1>1. [Next]_vars /\ Inv /\ RelayTypeOK /\ WaitsForRoom
  BY LettersStay DEF RelayInv
<1>2. Inv'
  BY <1>1, InvStep
<1>3. RelayTypeOK'
  BY <1>1, <1>2, RelayTypeStep
<1>4. WaitsForRoom'
  BY <1>1, WaitsForRoomStep
<1> QED BY <1>2, <1>3, <1>4, ReturnedStep, FirstHandStep, HeaderAccountedStep DEF RelayInv

-----------------------------------------------------------------------------
(* Theorems *)

THEOREM RelayInvariant == RelaySpec => []RelayInv
<1> QED BY RelayInvInit, RelayInvStep, PTL DEF RelaySpec

\* The relay's types.
THEOREM RelayTypes == RelaySpec => []RelayTypeOK
<1>1. RelayInv => RelayTypeOK
  BY DEF RelayInv
<1> QED BY <1>1, RelayInvariant, PTL

\* Whatever is broadcast, relayed, delayed, duplicated and handled, the network
\* below behaves as Network says: the theorems of NetworkProofs carry over.
THEOREM RelayRunsTheNetwork == RelaySpec => Spec
<1>1. RelayInit => Init
  BY DEF RelayInit
<1>2. RelayInv /\ [RelayNext]_relayVars => [Next]_vars
  BY LettersStay
<1> QED BY <1>1, <1>2, RelayInvariant, PTL DEF RelaySpec, Spec

\* Under proposals, votes, gossip and faults nothing that was sent gets lost in
\* the network, ticks keep to the bandwidth, deliveries to the order of the
\* keys, and the whole still implements Delivery.
THEOREM RelayKeepsTheNetwork ==
    RelaySpec => /\ [](NothingLost /\ BandwidthRespected /\ DeliveredInKeyOrder)
                 /\ DeliverySpec
<1>1. Spec => []NothingLost
  BY NoLoss, RelayAssumption
<1>2. Spec => DeliverySpec
  BY ImplementsDelivery, RelayAssumption
<1> QED BY <1>1, <1>2, RelayRunsTheNetwork, BandwidthIsRespected, DeliveryOrder, PTL

\* For every validator set, fault and relay, what is finalized was heard from
\* the proposer and a quorum themselves (src/gossip.py, MessageRouter.route).
THEOREM OnlyFirstHandCounts == RelaySpec => []FinalizedFirstHand
<1>1. RelayInv => FinalizedFirstHand
  BY DEF RelayInv, FirstHand
<1> QED BY <1>1, RelayInvariant, PTL

\* For every size and limit, a body is refused for want of a header that was
\* sent ahead only if the header is lost or every tick was too full for it
\* (src/block_store.py, store_body).
THEOREM RefusalNeedsFullTicks == RelaySpec => RefusedBodyWasOvertaken
<1>1. RelayInv /\ [RelayNext]_relayVars =>
        [RefuseBody => \A seq \in DOMAIN messages \ gone :
                          FirstHandHeader(seq) /\ SentAhead(seq, Incoming)
                            => TicksFull(seq, Incoming)]_relayVars
  <2> SUFFICES ASSUME RelayInv, RefuseBody,
                      NEW seq \in DOMAIN messages \ gone,
                      FirstHandHeader(seq), SentAhead(seq, Incoming)
               PROVE  TicksFull(seq, Incoming)
    OBVIOUS
  <2>1. /\ Incoming \in delivered /\ 1 \in DOMAIN inbox /\ inbox[1] = Incoming
        /\ DOMAIN inbox = 1 .. Len(inbox) /\ Len(inbox) \in Nat
        /\ cargo[Incoming] \in Cargo /\ cargo[Incoming].kind = "BODY" /\ ~ hasHeader
    <3>1. IncomingIs("BODY") /\ ~ hasHeader
      BY DEF RefuseBody
    <3> QED BY <3>1, Handled DEF IncomingIs
  <2>2. CASE seq \notin delivered
    <3>1. NothingLost
      BY RelayAssumption DEF RelayInv, Inv, Unshared
    <3>2. seq \in InFlight
      BY <2>2, <3>1 DEF NothingLost
    <3> QED BY <2>1, <3>2 DEF RelayInv, WaitsForRoom
  <2>3. CASE seq \in delivered
    <3>1. PICK k \in DOMAIN inbox : inbox[k] = seq
      BY <2>1, <2>3 DEF RelayInv, HeaderAccounted
    <3>2. k # 1
      BY <2>1, <3>1, CargoKinds DEF FirstHandHeader
    <3>3. 1 < k
      BY <2>1, <3>2
    <3> QED BY <2>1, <3>1, <3>3 DEF RelayInv, ReturnedInOrder
  <2> QED BY <2>2, <2>3
<1> QED BY <1>1, RelayInvariant, PTL DEF RelaySpec, RefusedBodyWasOvertaken
=============================================================================
