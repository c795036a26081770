--------------------------- MODULE NetworkProofs ---------------------------
(***************************************************************************)
(* Proofs about Network for every number of peers, messages, ticks and     *)
(* events, every payload size and every bandwidth limit.                   *)
(***************************************************************************)
EXTENDS NetworkProperties, FoldLemmas

-----------------------------------------------------------------------------
(* The inductive invariant *)

\* What waits in the queue was sent once, is not delivered, is not in the past
\* and not before its time.
Waiting ==
    /\ \A e \in queue : /\ clock <= e.time
                        /\ messages[e.seq].time <= e.time
                        /\ e.seq \notin delivered
    /\ \A e, f \in queue : e.seq = f.seq => e = f

\* Nothing is charged to a future tick, and no tick is charged too much.
Charged == \A k \in DOMAIN bytes : k <= clock /\ bytes[k] <= Limit

\* The log is ordered and does not run ahead of the scheduler.
Chronicle == LogIsChronological /\ log # <<>> /\ lastTime <= clock

\* A delivered message is behind everything that waits, and was not early.
Behind ==
    \A i \in Deliveries : /\ log[i].seq \in delivered /\ log[i].time <= clock
                          /\ messages[log[i].seq].time <= log[i].time
                          /\ \A e \in queue : Before(log[i], e)

\* A message was deferred past full ticks only.
DeferredOnlyWhenFull ==
    \A e \in queue :
        LET m == messages[e.seq] IN
        \A k \in m.time .. e.time - 1 : BytesAt(k) + m.size > Limit

\* Without other writers in the log the runner's numbers are the log's.
Unshared == ~ SharedLog /\ ~ NodeEvents => NumbersAgree /\ NothingLost

Inv == /\ TypeOK /\ Waiting /\ Charged /\ Chronicle /\ Behind
       /\ DeferredOnlyWhenFull /\ Unshared
       /\ DeliveredInKeyOrder /\ LateOnlyWhenFull /\ CallCanReturn

-----------------------------------------------------------------------------
(* Appending to the log *)

\* A line that is not DELIVER adds no delivery and changes no line.
LEMMA OtherLine ==
    ASSUME log \in Seq(Line), NEW ev \in Line, log' = Append(log, ev),
           ev.type # "DELIVER"
    PROVE  /\ log' \in Seq(Line)
           /\ DOMAIN log' = DOMAIN log \cup {Len(log) + 1}
           /\ Len(log') = Len(log) + 1
           /\ \A i \in DOMAIN log : log'[i] = log[i]
           /\ log'[Len(log) + 1] = ev
           /\ Deliveries' = Deliveries
<1>1. /\ log' \in Seq(Line)
      /\ DOMAIN log' = DOMAIN log \cup {Len(log) + 1}
      /\ Len(log') = Len(log) + 1
      /\ \A i \in DOMAIN log : log'[i] = log[i]
      /\ log'[Len(log) + 1] = ev
  OBVIOUS
<1> QED BY <1>1 DEF Deliveries

\* The SEND and DELIVER lines of one message add one delivery.
LEMMA TwoLines ==
    ASSUME log \in Seq(Line), NEW s \in Line, NEW d \in Line,
           log' = Append(Append(log, s), d),
           s.type = "SEND", d.type = "DELIVER"
    PROVE  /\ log' \in Seq(Line)
           /\ DOMAIN log' = DOMAIN log \cup {Len(log) + 1, Len(log) + 2}
           /\ Len(log') = Len(log) + 2
           /\ \A i \in DOMAIN log : log'[i] = log[i]
           /\ log'[Len(log) + 1] = s
           /\ log'[Len(log) + 2] = d
           /\ Deliveries' = Deliveries \cup {Len(log) + 2}
<1> DEFINE one == Append(log, s)
<1>1. /\ one \in Seq(Line)
      /\ DOMAIN one = DOMAIN log \cup {Len(log) + 1}
      /\ Len(one) = Len(log) + 1
      /\ \A i \in DOMAIN log : one[i] = log[i]
      /\ one[Len(log) + 1] = s
  OBVIOUS
<1> HIDE DEF one
<1>2. log' = Append(one, d)
  BY DEF one
<1>3. /\ log' \in Seq(Line)
      /\ DOMAIN log' = DOMAIN one \cup {Len(one) + 1}
      /\ Len(log') = Len(one) + 1
      /\ \A i \in DOMAIN one : log'[i] = one[i]
      /\ log'[Len(one) + 1] = d
  BY <1>1, <1>2
<1>4. /\ log' \in Seq(Line)
      /\ DOMAIN log' = DOMAIN log \cup {Len(log) + 1, Len(log) + 2}
      /\ Len(log') = Len(log) + 2
      /\ \A i \in DOMAIN log : log'[i] = log[i]
      /\ log'[Len(log) + 1] = s
      /\ log'[Len(log) + 2] = d
  BY <1>1, <1>3
<1> QED BY <1>4 DEF Deliveries

\* The lines the network writes are lines of the log.
LEMMA EventIsLine ==
    ASSUME NEW type \in EventTypes, NEW who \in Peers, NEW seq \in Nat, NEW time \in Nat
    PROVE  /\ Event(type, who, seq, time) \in Line
           /\ Event(type, who, seq, time).type = type
           /\ Event(type, who, seq, time).who = who
           /\ Event(type, who, seq, time).seq = seq
           /\ Event(type, who, seq, time).time = time
BY DEF Event, Line

-----------------------------------------------------------------------------
(* Facts about a state that satisfies the invariant *)

\* The lines of the log have their types, and a delivered message was sent.
LEMMA LogTypes ==
    ASSUME TypeOK, Behind
    PROVE  /\ \A i \in DOMAIN log : /\ log[i] \in Line
                                    /\ log[i].time \in Nat /\ log[i].seq \in Nat
           /\ Deliveries \subseteq DOMAIN log
           /\ \A i \in Deliveries : log[i].seq \in DOMAIN messages
<1>1. log \in Seq(Line) /\ delivered \subseteq DOMAIN messages
  BY DEF TypeOK
<1>2. \A i \in DOMAIN log : log[i] \in Line
  BY <1>1
<1>3. \A x \in Line : x.time \in Nat /\ x.seq \in Nat
  BY DEF Line
<1> QED BY <1>1, <1>2, <1>3 DEF Behind, Deliveries

\* The messages sent and the keys of the queue have their types.
LEMMA MessageTypes ==
    ASSUME TypeOK
    PROVE  /\ DOMAIN messages = 1 .. Len(messages) /\ Len(messages) \in Nat
           /\ \A s \in DOMAIN messages :
                 /\ messages[s] \in Message /\ messages[s].sender \in Peers
                 /\ messages[s].time \in Nat /\ messages[s].size \in Nat
           /\ \A e \in queue : /\ e.time \in Nat /\ e.seq \in DOMAIN messages
                               /\ e.seq \in Nat /\ e = [time |-> e.time, seq |-> e.seq]
<1>1. messages \in Seq(Message) /\ queue \subseteq [time : Nat, seq : DOMAIN messages]
  BY DEF TypeOK
<1>2. DOMAIN messages = 1 .. Len(messages) /\ Len(messages) \in Nat
      /\ \A s \in DOMAIN messages : messages[s] \in Message
  BY <1>1
<1>3. \A x \in Message : x.sender \in Peers /\ x.time \in Nat /\ x.size \in Nat
  BY NetworkAssumption DEF Message
<1> QED BY <1>1, <1>2, <1>3

\* What the log accepts after its last line is not before any line.
LEMMA AfterLast ==
    ASSUME TypeOK, Behind, Chronicle, NEW time \in Nat, log[Len(log)].time <= time
    PROVE  \A i \in DOMAIN log : log[i].time <= time
<1> SUFFICES ASSUME NEW i \in DOMAIN log PROVE log[i].time <= time
  OBVIOUS
<1>1. log \in Seq(Line) /\ log # <<>>
  BY DEF TypeOK, Chronicle
<1>2. Len(log) \in DOMAIN log /\ (i = Len(log) \/ i < Len(log))
  BY <1>1
<1>3. log[i].time <= log[Len(log)].time
  BY <1>2, LogTypes DEF Chronicle, LogIsChronological
<1> QED BY <1>2, <1>3, LogTypes

\* A log of the network alone takes every time from that of its last event on.
LEMMA AloneAccepts ==
    ASSUME Inv, ~ SharedLog, ~ NodeEvents, NEW time \in Nat, lastTime <= time
    PROVE  Accepts(time)
<1>1. TypeOK /\ Behind /\ LogIsChronological /\ NumbersAgree
      /\ log \in Seq(Line) /\ log # <<>> /\ lastTime \in Nat
  BY DEF Inv, TypeOK, Chronicle, Unshared
<1>2. Len(log) \in DOMAIN log
  BY <1>1
<1>3. log[Len(log)].time <= lastTime /\ log[Len(log)].time \in Nat
  BY <1>1, <1>2, LogTypes DEF LogIsChronological
<1> QED BY <1>1, <1>3 DEF Accepts

-----------------------------------------------------------------------------
(* The steps *)

\* The initial state satisfies the invariant.
LEMMA InvInit == Init => Inv
<1> SUFFICES ASSUME Init PROVE Inv
  OBVIOUS
<1> USE NetworkAssumption DEF Init
<1>1. /\ log \in Seq(Line) /\ DOMAIN log = {1} /\ Len(log) = 1
      /\ log[1].type = "SCENARIO_START" /\ log[1].time = 0
  BY DEF Event, Line, EventTypes
<1>2. TypeOK
  BY <1>1 DEF TypeOK, Line, Idle, AnyMessage
<1>3. Deliveries = {}
  BY <1>1 DEF Deliveries
<1>4. Waiting /\ Charged /\ Behind /\ DeferredOnlyWhenFull /\ DeliveredInKeyOrder /\ LateOnlyWhenFull
  BY <1>3 DEF Waiting, Charged, Behind, DeferredOnlyWhenFull, DeliveredInKeyOrder, LateOnlyWhenFull
<1>5. Chronicle
  BY <1>1 DEF Chronicle, LogIsChronological
<1>6. Unshared /\ CallCanReturn
  BY <1>1 DEF Unshared, NumbersAgree, NothingLost, InFlight, CallCanReturn, Idle, AnyMessage
<1> QED BY <1>2, <1>4, <1>5, <1>6 DEF Inv

\* send adds a message that is nobody else's and due now or later.
LEMMA SendStep ==
    ASSUME Inv, NEW p \in Peers, NEW size \in Sizes, NEW time \in Nat, Send(p, size, time)
    PROVE  Inv'
<1> DEFINE n == Len(messages) + 1
           new == [time |-> time, seq |-> n]
           m == [sender |-> p, size |-> size, time |-> time]
<1>1. m \in Message
  BY DEF Message
<1>2. messages \in Seq(Message) /\ messages' = Append(messages, m) /\ queue' = queue \cup {new}
  BY DEF Inv, TypeOK, Send, NewSeq
<1>3. messages' \in Seq(Message) /\ messages'[n] = m /\ DOMAIN messages' = DOMAIN messages \cup {n}
  BY <1>1, <1>2
<1>4. n \in Nat /\ n \notin DOMAIN messages /\ \A s \in DOMAIN messages : s < n
  BY <1>2
<1>5. \A s \in DOMAIN messages : messages'[s] = messages[s] /\ s # n
  BY <1>1, <1>2, <1>4
<1>6. new \in [time : Nat, seq : DOMAIN messages'] /\ new.time = time /\ new.seq = n
  BY <1>3
<1>7. m.time = time /\ m.size = size
  OBVIOUS
<1>8. clock <= time /\ UNCHANGED <<clock, bytes, delivered, call, lastTime, counter, log>>
      /\ Deliveries' = Deliveries
  BY DEF Send, Deliveries
<1> HIDE DEF new, m, n
<1>9. clock \in Nat /\ TypeOK /\ Behind
  BY DEF Inv, TypeOK
<1>10. TypeOK'
  BY <1>2, <1>3, <1>6, <1>8, <1>9 DEF TypeOK
<1>11. Waiting'
  BY <1>2, <1>4, <1>5, <1>3, <1>6, <1>7, <1>8, <1>9, MessageTypes DEF Inv, TypeOK, Waiting
<1>12. Charged' /\ Chronicle' /\ DeliveredInKeyOrder'
  BY <1>8 DEF Inv, Charged, Chronicle, LogIsChronological, DeliveredInKeyOrder, Before
<1>13. Behind'
  <2>0. \A i \in Deliveries : messages'[log[i].seq].time <= log[i].time
    <3> TAKE i \in Deliveries
    <3>1. messages'[log[i].seq] = messages[log[i].seq]
      BY <1>5, <1>9, LogTypes
    <3> QED BY <3>1, <1>9 DEF Behind
  <2> SUFFICES ASSUME NEW i \in Deliveries, NEW e \in queue'
               PROVE  Before(log[i], e)
    BY <1>8, <1>9, <2>0 DEF Behind, Before
  <2>1. log[i].seq \in DOMAIN messages /\ log[i].seq < n /\ log[i].time <= clock
    BY <1>9, <1>4, LogTypes DEF Behind
  <2>2. CASE e \in queue
    BY <2>2, <1>9 DEF Behind
  <2>3. CASE e = new
    BY <2>3, <2>1, <1>6, <1>8, <1>9, LogTypes DEF Before
  <2> QED BY <1>2, <2>2, <2>3
<1>14. DeferredOnlyWhenFull'
  <2> SUFFICES ASSUME NEW e \in queue', NEW k \in messages'[e.seq].time .. e.time - 1
               PROVE  BytesAt(k) + messages'[e.seq].size > Limit
    BY <1>8 DEF DeferredOnlyWhenFull, BytesAt
  <2>1. CASE e \in queue
    BY <2>1, <1>5, <1>9, MessageTypes DEF Inv, DeferredOnlyWhenFull
  <2>2. CASE e = new
    BY <2>2, <1>3, <1>6, <1>7
  <2> QED BY <1>2, <2>1, <2>2
<1>15. LateOnlyWhenFull'
  <2> SUFFICES ASSUME NEW i \in Deliveries, NEW k \in messages'[log[i].seq].time .. log[i].time - 1
               PROVE  BytesAt(k) + messages'[log[i].seq].size > Limit
    BY <1>8 DEF LateOnlyWhenFull, BytesAt
  <2> QED BY <1>5, <1>9, LogTypes DEF Inv, LateOnlyWhenFull
<1>16. InFlight' = InFlight \cup {n}
  BY <1>2, <1>6 DEF InFlight
<1>17. Unshared' /\ CallCanReturn'
  BY <1>2, <1>3, <1>8, <1>16 DEF Inv, Unshared, NumbersAgree, NothingLost, CallCanReturn
<1> QED BY <1>10, <1>11, <1>12, <1>13, <1>14, <1>15, <1>17 DEF Inv

\* Starting a call, or nothing at all, leaves everything but call alone.
LEMMA CallStep ==
    ASSUME Inv,
           \/ RunNext
           \/ \E seq \in DOMAIN messages : Deliver(seq)
           \/ UNCHANGED vars
    PROVE  Inv'
<1>1. UNCHANGED <<clock, queue, bytes, messages, delivered, lastTime, counter, log>>
  BY DEF RunNext, Deliver, vars
<1>2. TypeOK' /\ CallCanReturn'
  <2>1. CASE RunNext
    BY <2>1 DEF RunNext, Inv, TypeOK, CallCanReturn, Idle, AnyMessage
  <2>2. CASE \E seq \in DOMAIN messages : Deliver(seq)
    <3> PICK seq \in DOMAIN messages : Deliver(seq)
      BY <2>2
    <3>1. call' = seq /\ [time |-> messages[seq].time, seq |-> seq] \in queue
      BY DEF Deliver
    <3>2. seq \in Nat
      BY MessageTypes DEF Inv, TypeOK
    <3>3. seq \in InFlight'
      BY <3>1, <1>1 DEF InFlight
    <3> QED BY <1>1, <3>1, <3>2, <3>3 DEF Inv, TypeOK, CallCanReturn, AnyMessage
  <2>3. CASE UNCHANGED vars
    BY <2>3 DEF vars, Inv, TypeOK, CallCanReturn, InFlight
  <2> QED BY <2>1, <2>2, <2>3
<1>3. Deliveries' = Deliveries /\ InFlight' = InFlight
  BY <1>1 DEF Deliveries, InFlight
<1>4. Waiting' /\ Charged' /\ Chronicle' /\ Behind'
  BY <1>1, <1>3 DEF Inv, Waiting, Charged, Chronicle, LogIsChronological, Behind, Before
<1>5. DeferredOnlyWhenFull' /\ LateOnlyWhenFull' /\ DeliveredInKeyOrder' /\ Unshared'
  BY <1>1, <1>3 DEF Inv, DeferredOnlyWhenFull, LateOnlyWhenFull, BytesAt, DeliveredInKeyOrder,
       Before, Unshared, NumbersAgree, NothingLost
<1> QED BY <1>2, <1>4, <1>5 DEF Inv

\* Deferral moves the head of the queue to a later tick.
LEMMA DeferStep ==
    ASSUME Inv, PopAndDefer
    PROVE  Inv'
<1>1. PICK e \in queue, tick \in {j + 1 : j \in DOMAIN bytes} :
        /\ IsHead(e)
        /\ ~ HasRoom(e.time, messages[e.seq].size)
        /\ e.time < tick
        /\ IsEarliestTick(e.time, messages[e.seq].size, tick)
        /\ clock' = e.time
        /\ Requeue(e, tick)
        /\ UNCHANGED <<bytes, messages, delivered, call, lastTime, counter, log>>
  BY DEF PopAndDefer
<1> DEFINE moved == [time |-> tick, seq |-> e.seq]
<1>2. TypeOK /\ Behind /\ Deliveries' = Deliveries
      /\ UNCHANGED <<bytes, messages, delivered, call, lastTime, counter, log>>
  BY <1>1 DEF Inv, Deliveries
<1>3. tick \in Nat /\ e.time \in Nat /\ e.time < tick /\ clock \in Nat /\ clock <= e.time
  BY <1>1, <1>2, MessageTypes DEF Inv, Waiting, TypeOK
<1>4. queue' = (queue \ {e}) \cup {moved} /\ moved.time = tick /\ moved.seq = e.seq
      /\ moved \in [time : Nat, seq : DOMAIN messages]
  BY <1>1, <1>2, <1>3, MessageTypes DEF Requeue
<1> HIDE DEF moved
<1>5. InFlight' = InFlight
  BY <1>4 DEF InFlight
<1>6. TypeOK'
  BY <1>1, <1>2, <1>3, <1>4 DEF TypeOK
<1>7. \A f \in queue : e.time <= f.time
  BY <1>1, <1>2, <1>3, MessageTypes DEF IsHead, Before
<1>8. Waiting'
  BY <1>1, <1>2, <1>3, <1>4, <1>7, MessageTypes DEF Inv, Waiting
<1>9. Charged' /\ Chronicle'
  BY <1>1, <1>2, <1>3 DEF Inv, Charged, Chronicle, LogIsChronological, TypeOK
<1>9a. \A i \in Deliveries : log[i].time \in Nat /\ log[i].time <= clock'
  BY <1>1, <1>2, <1>3, LogTypes DEF Behind
<1>10. Behind'
  <2> SUFFICES ASSUME NEW i \in Deliveries, NEW f \in queue'
               PROVE  Before(log[i], f)
    BY <1>2, <1>9a DEF Behind, Before
  <2>1. Before(log[i], e) /\ log[i].time \in Nat /\ log[i].seq \in Nat
    BY <1>2, LogTypes DEF Behind
  <2>2. CASE f = moved
    BY <2>1, <2>2, <1>3, <1>4 DEF Before
  <2>3. CASE f \in queue
    BY <2>3, <1>2 DEF Behind
  <2> QED BY <1>4, <2>2, <2>3
<1>11. DeferredOnlyWhenFull'
  <2> SUFFICES ASSUME NEW f \in queue', NEW k \in messages[f.seq].time .. f.time - 1
               PROVE  BytesAt(k) + messages[f.seq].size > Limit
    BY <1>2 DEF DeferredOnlyWhenFull, BytesAt
  <2>1. CASE f \in queue
    BY <2>1 DEF Inv, DeferredOnlyWhenFull
  <2>2. CASE f = moved
    <3>1. messages[e.seq].time <= e.time /\ messages[e.seq].time \in Nat /\ messages[e.seq].size \in Nat
      BY <1>2, MessageTypes DEF Inv, Waiting
    <3>2. k \in messages[e.seq].time .. tick - 1
      BY <2>2, <1>4
    <3>3. CASE k \in messages[e.seq].time .. e.time - 1
      BY <3>3, <2>2, <1>4 DEF Inv, DeferredOnlyWhenFull
    <3>4. CASE k \in e.time .. tick - 1
      <4>1. ~ HasRoom(k, messages[e.seq].size)
        BY <1>1, <3>4 DEF IsEarliestTick
      <4>2. BytesAt(k) \in Nat /\ Limit \in Nat
        BY <1>2, NetworkAssumption DEF BytesAt, TypeOK
      <4> QED BY <4>1, <4>2, <3>1, <2>2, <1>4 DEF HasRoom
    <3> QED BY <3>1, <3>2, <3>3, <3>4, <1>3
  <2> QED BY <1>4, <2>1, <2>2
<1>12. LateOnlyWhenFull' /\ DeliveredInKeyOrder'
  BY <1>2 DEF Inv, LateOnlyWhenFull, BytesAt, DeliveredInKeyOrder, Before
<1>13. Unshared' /\ CallCanReturn'
  BY <1>2, <1>4, <1>5 DEF Inv, Unshared, NumbersAgree, NothingLost, CallCanReturn
<1> QED BY <1>6, <1>8, <1>9, <1>10, <1>11, <1>12, <1>13 DEF Inv

\* Popping a message and charging it to its tick keeps the queue and the
\* accounts in order, and only fills the tick further.
LEMMA PopStep ==
    ASSUME Inv, NEW e \in queue, Pop(e), messages' = messages,
           \/ delivered' = delivered
           \/ delivered' = delivered \cup {e.seq}
    PROVE  /\ clock \in Nat /\ e.time \in Nat /\ clock <= e.time /\ clock' = e.time
           /\ e.seq \in DOMAIN messages /\ messages[e.seq].time <= e.time
           /\ queue' = queue \ {e} /\ queue' \subseteq queue
           /\ InFlight' = InFlight \ {e.seq} /\ e.seq \in InFlight
           /\ \A f \in queue' : Before(e, f)
           /\ DOMAIN bytes' \subseteq Nat /\ \A k \in DOMAIN bytes' : bytes'[k] \in Nat
           /\ \A k \in Nat : /\ BytesAt(k) \in Nat /\ BytesAt(k)' \in Nat
                             /\ BytesAt(k) <= BytesAt(k)'
           /\ Waiting' /\ Charged' /\ DeferredOnlyWhenFull'
<1>1. /\ TypeOK /\ Waiting /\ Charged /\ DeferredOnlyWhenFull
      /\ IsHead(e) /\ HasRoom(e.time, messages[e.seq].size)
      /\ clock' = e.time /\ queue' = queue \ {e}
      /\ bytes' = [k \in DOMAIN bytes \cup {e.time} |->
                     IF k = e.time THEN BytesAt(k) + messages[e.seq].size ELSE bytes[k]]
  BY DEF Pop, Inv
<1>2. /\ clock \in Nat /\ e.time \in Nat /\ clock <= e.time
      /\ e.seq \in DOMAIN messages /\ messages[e.seq].time <= e.time
      /\ messages[e.seq].size \in Nat
  BY <1>1, MessageTypes DEF TypeOK, Waiting
<1>3. /\ DOMAIN bytes \subseteq Nat
      /\ \A k \in DOMAIN bytes : bytes[k] \in Nat /\ k <= clock /\ bytes[k] <= Limit
      /\ Limit \in Nat
  BY <1>1, NetworkAssumption DEF TypeOK, Charged
<1>4. BytesAt(e.time) \in Nat /\ BytesAt(e.time) + messages[e.seq].size <= Limit
  BY <1>1, <1>3 DEF BytesAt, HasRoom
<1>5. /\ DOMAIN bytes' = DOMAIN bytes \cup {e.time}
      /\ bytes'[e.time] = BytesAt(e.time) + messages[e.seq].size
      /\ \A k \in DOMAIN bytes : k # e.time => bytes'[k] = bytes[k]
  BY <1>1
<1>6. DOMAIN bytes' \subseteq Nat /\ \A k \in DOMAIN bytes' : bytes'[k] \in Nat
  BY <1>2, <1>3, <1>4, <1>5
<1>7. \A k \in Nat : /\ BytesAt(k) \in Nat /\ BytesAt(k)' \in Nat
                     /\ BytesAt(k) <= BytesAt(k)'
  <2> SUFFICES ASSUME NEW k \in Nat
               PROVE  /\ BytesAt(k) \in Nat /\ BytesAt(k)' \in Nat
                      /\ BytesAt(k) <= BytesAt(k)'
    OBVIOUS
  <2>1. CASE k = e.time
    BY <2>1, <1>2, <1>4, <1>5 DEF BytesAt
  <2>2. CASE k # e.time
    BY <2>2, <1>3, <1>5 DEF BytesAt
  <2> QED BY <2>1, <2>2
<1>8. Charged'
  BY <1>1, <1>2, <1>3, <1>4, <1>5 DEF Charged
<1>9. \A f \in queue' : Before(e, f) /\ e.time <= f.time
  BY <1>1, <1>2, MessageTypes DEF IsHead, Before
<1>10. \A f \in queue' : f.seq # e.seq
  BY <1>1 DEF Waiting
<1>11. InFlight' = InFlight \ {e.seq} /\ e.seq \in InFlight
  BY <1>1, <1>10 DEF InFlight
<1>12. Waiting'
  BY <1>1, <1>9, <1>10 DEF Waiting
<1>13. DeferredOnlyWhenFull'
  <2> SUFFICES ASSUME NEW f \in queue', NEW k \in messages[f.seq].time .. f.time - 1
               PROVE  BytesAt(k)' + messages[f.seq].size > Limit
    BY DEF DeferredOnlyWhenFull
  <2>1. k \in Nat /\ messages[f.seq].size \in Nat /\ f \in queue
    BY <1>1, MessageTypes
  <2>2. BytesAt(k) + messages[f.seq].size > Limit
    BY <1>1, <2>1 DEF DeferredOnlyWhenFull
  <2> QED BY <2>1, <2>2, <1>7, <1>3
<1> QED BY <1>1, <1>2, <1>6, <1>7, <1>8, <1>9, <1>11, <1>12, <1>13

\* The times that are written: not before the last event, not after the clock.
LEMMA Lifted ==
    ASSUME NEW time \in Nat, lastTime \in Nat, NEW bound \in Nat,
           time <= bound, lastTime <= bound
    PROVE  /\ WrittenTime(time) \in Nat /\ lastTime <= WrittenTime(time)
           /\ WrittenTime(time) <= bound
           /\ time = bound => WrittenTime(time) = bound
BY DEF WrittenTime

\* The lines that a delivery writes: SEND, lifted to the last event, and DELIVER
\* at the tick of the envelope.
LEMMA DeliverLines ==
    ASSUME Inv, NEW e \in queue, Pop(e), messages' = messages,
           delivered' = delivered \cup {e.seq}, NEW s, NEW d,
           s = Event("SEND", messages[e.seq].sender, e.seq, WrittenTime(messages[e.seq].time)),
           d = Event("DELIVER", messages[e.seq].sender, e.seq, WrittenTime(e.time)),
           log' = Append(Append(log, s), d)
    PROVE  /\ WrittenTime(e.time) = e.time
           /\ WrittenTime(messages[e.seq].time) \in Nat
           /\ lastTime <= WrittenTime(messages[e.seq].time)
           /\ WrittenTime(messages[e.seq].time) <= e.time
           /\ s \in Line /\ s.type = "SEND" /\ s.time = WrittenTime(messages[e.seq].time)
           /\ d \in Line /\ d.type = "DELIVER" /\ d.time = e.time /\ d.seq = e.seq
           /\ log' \in Seq(Line)
           /\ DOMAIN log' = DOMAIN log \cup {Len(log) + 1, Len(log) + 2}
           /\ Len(log') = Len(log) + 2
           /\ \A i \in DOMAIN log : log'[i] = log[i]
           /\ log'[Len(log) + 1] = s /\ log'[Len(log) + 2] = d
           /\ Deliveries' = Deliveries \cup {Len(log) + 2}
<1>1. TypeOK /\ lastTime <= clock /\ lastTime \in Nat /\ log \in Seq(Line)
  BY DEF Inv, Chronicle, TypeOK
<1>2. /\ clock \in Nat /\ e.time \in Nat /\ clock <= e.time
      /\ e.seq \in DOMAIN messages /\ e.seq \in Nat
      /\ messages[e.seq].time <= e.time /\ messages[e.seq].time \in Nat
      /\ messages[e.seq].sender \in Peers
  BY <1>1, PopStep, MessageTypes
<1>3. lastTime \in Nat /\ lastTime <= e.time
  <2>1. lastTime \in Nat /\ lastTime <= clock
    BY <1>1
  <2> QED BY <2>1, <1>2
<1>4. WrittenTime(e.time) = e.time
  BY <1>2, <1>3, Lifted
<1>5. /\ WrittenTime(messages[e.seq].time) \in Nat /\ lastTime <= WrittenTime(messages[e.seq].time)
      /\ WrittenTime(messages[e.seq].time) <= e.time
  BY <1>2, <1>3, Lifted
<1>6. /\ s \in Line /\ s.type = "SEND" /\ s.time = WrittenTime(messages[e.seq].time)
      /\ d \in Line /\ d.type = "DELIVER" /\ d.time = e.time /\ d.seq = e.seq
  <2>1. "SEND" \in EventTypes /\ "DELIVER" \in EventTypes
    BY DEF EventTypes
  <2> QED BY <1>2, <1>4, <1>5, <2>1, EventIsLine
<1>7. /\ log' \in Seq(Line)
      /\ DOMAIN log' = DOMAIN log \cup {Len(log) + 1, Len(log) + 2}
      /\ Len(log') = Len(log) + 2
      /\ \A i \in DOMAIN log : log'[i] = log[i]
      /\ log'[Len(log) + 1] = s /\ log'[Len(log) + 2] = d
      /\ Deliveries' = Deliveries \cup {Len(log) + 2}
  BY <1>1, <1>6, TwoLines
<1> QED BY <1>4, <1>5, <1>6, <1>7

\* Delivery writes SEND and DELIVER of the head of the queue.
LEMMA DeliverStep ==
    ASSUME Inv, PopAndDeliver
    PROVE  Inv'
<1> DEFINE who(e) == messages[e.seq].sender
           send(e) == Event("SEND", who(e), e.seq, WrittenTime(messages[e.seq].time))
           deliver(e) == Event("DELIVER", who(e), e.seq, WrittenTime(e.time))
<1>1. PICK e \in queue :
        /\ Pop(e)
        /\ NumbersAgree
        /\ log[Len(log)].time <= WrittenTime(messages[e.seq].time)
        /\ delivered' = delivered \cup {e.seq}
        /\ log' = Append(Append(log, send(e)), deliver(e))
        /\ counter' = counter + 2
        /\ lastTime' = WrittenTime(e.time)
        /\ call' = IF call \in {AnyMessage, e.seq} THEN Idle ELSE call
        /\ messages' = messages
  BY DEF PopAndDeliver, Accepts, Event
<1> DEFINE s == send(e)
           d == deliver(e)
           n == Len(log)
<1>2. TypeOK /\ Behind /\ Chronicle /\ LogIsChronological /\ lastTime <= clock /\ lastTime \in Nat
      /\ counter \in Nat /\ log \in Seq(Line)
  BY DEF Inv, Chronicle, TypeOK
<1>3. /\ clock \in Nat /\ e.time \in Nat /\ clock <= e.time /\ clock' = e.time
      /\ e.seq \in DOMAIN messages /\ e.seq \in Nat
      /\ messages[e.seq].time <= e.time /\ messages[e.seq].time \in Nat
      /\ messages[e.seq].sender \in Peers
  BY <1>1, <1>2, PopStep, MessageTypes
<1>3a. /\ queue' = queue \ {e} /\ queue' \subseteq queue
       /\ InFlight' = InFlight \ {e.seq} /\ e.seq \in InFlight
       /\ \A f \in queue' : Before(e, f)
  BY <1>1, <1>2, PopStep
<1>3b. /\ DOMAIN bytes' \subseteq Nat /\ \A k \in DOMAIN bytes' : bytes'[k] \in Nat
       /\ \A k \in Nat : /\ BytesAt(k) \in Nat /\ BytesAt(k)' \in Nat
                         /\ BytesAt(k) <= BytesAt(k)'
       /\ Waiting' /\ Charged' /\ DeferredOnlyWhenFull'
  BY <1>1, <1>2, PopStep
<1>4. /\ s = Event("SEND", messages[e.seq].sender, e.seq, WrittenTime(messages[e.seq].time))
      /\ d = Event("DELIVER", messages[e.seq].sender, e.seq, WrittenTime(e.time))
      /\ log' = Append(Append(log, s), d)
  BY <1>1
<1> HIDE DEF s, d
<1>5. WrittenTime(e.time) = e.time
  BY <1>1, <1>4, DeliverLines
<1>6. /\ WrittenTime(messages[e.seq].time) \in Nat /\ lastTime <= WrittenTime(messages[e.seq].time)
      /\ WrittenTime(messages[e.seq].time) <= e.time
  BY <1>1, <1>4, DeliverLines
<1>7. /\ s \in Line /\ s.type = "SEND" /\ s.time = WrittenTime(messages[e.seq].time)
      /\ d \in Line /\ d.type = "DELIVER" /\ d.time = e.time /\ d.seq = e.seq
  BY <1>1, <1>4, DeliverLines
<1>9. /\ log' \in Seq(Line)
      /\ DOMAIN log' = DOMAIN log \cup {n + 1, n + 2} /\ Len(log') = n + 2
      /\ \A i \in DOMAIN log : log'[i] = log[i]
      /\ log'[n + 1] = s /\ log'[n + 2] = d
      /\ Deliveries' = Deliveries \cup {n + 2}
  BY <1>1, <1>4, DeliverLines
<1>10. DOMAIN log = 1 .. n /\ n \in Nat /\ Deliveries \subseteq 1 .. n
  BY <1>2 DEF Deliveries
<1> HIDE DEF n
<1>11. TypeOK'
  <2>1. call' \in {Idle, AnyMessage} \cup DOMAIN messages
    BY <1>1, <1>2 DEF TypeOK
  <2>2. queue' \subseteq [time : Nat, seq : DOMAIN messages] /\ delivered' \subseteq DOMAIN messages
    BY <1>1, <1>2, <1>3, <1>3a DEF TypeOK
  <2>3. counter' \in Nat /\ clock' \in Nat /\ lastTime' \in Nat
    BY <1>1, <1>2, <1>3, <1>5
  <2> QED BY <1>1, <1>2, <1>9, <1>3b, <2>1, <2>2, <2>3 DEF TypeOK
<1>12. Chronicle'
  <2>1. \A i \in DOMAIN log : log[i].time <= s.time /\ log[i].time \in Nat
    BY <1>1, <1>2, <1>6, <1>7, AfterLast, LogTypes
  <2>2. \A i \in DOMAIN log' : log'[i].time <= e.time
    <3>1. \A i \in DOMAIN log : log'[i].time <= e.time
      BY <1>3, <1>6, <1>7, <1>9, <2>1
    <3>2. log'[n + 1].time <= e.time /\ log'[n + 2].time <= e.time
      BY <1>3, <1>6, <1>7, <1>9
    <3> QED BY <1>9, <3>1, <3>2
  <2>3. \A i, j \in DOMAIN log' : i < j => log'[i].time <= log'[j].time
    <3> SUFFICES ASSUME NEW i \in DOMAIN log', NEW j \in DOMAIN log', i < j
                 PROVE  log'[i].time <= log'[j].time
      OBVIOUS
    <3>1. CASE j = n + 2
      BY <3>1, <2>2, <1>7, <1>9
    <3>2. CASE j = n + 1
      BY <3>2, <2>1, <1>2, <1>6, <1>7, <1>9, <1>10
    <3>3. CASE j \in DOMAIN log
      BY <3>3, <1>2, <1>9, <1>10 DEF LogIsChronological
    <3> QED BY <1>9, <3>1, <3>2, <3>3
  <2>4. log' # <<>>
    <3>1. n + 2 \in DOMAIN log'
      BY <1>9
    <3> QED BY <3>1
  <2>5. lastTime' = e.time /\ clock' = e.time /\ e.time <= e.time
    BY <1>1, <1>3, <1>5
  <2>6. LogIsChronological'
    BY <2>2, <2>3, <2>5 DEF LogIsChronological
  <2> QED BY <2>4, <2>5, <2>6 DEF Chronicle
<1>13. Behind'
  <2> SUFFICES ASSUME NEW i \in Deliveries'
               PROVE  /\ log'[i].seq \in delivered' /\ log'[i].time <= clock'
                      /\ messages[log'[i].seq].time <= log'[i].time
                      /\ \A f \in queue' : Before(log'[i], f)
    BY <1>1 DEF Behind, Before
  <2>1. CASE i \in Deliveries
    <3>1. log[i].time \in Nat /\ log[i].time <= clock'
      BY <2>1, <1>2, <1>3, LogTypes DEF Behind
    <3> QED BY <2>1, <3>1, <1>1, <1>2, <1>3a, <1>9, <1>10 DEF Behind
  <2>2. CASE i = n + 2
    BY <2>2, <1>1, <1>3, <1>3a, <1>7, <1>9 DEF Before
  <2> QED BY <1>9, <2>1, <2>2
<1>14. DeliveredInKeyOrder'
  <2> SUFFICES ASSUME NEW i \in Deliveries', NEW j \in Deliveries', i < j
               PROVE  Before(log'[i], log'[j])
    BY DEF DeliveredInKeyOrder, Before
  <2>1. CASE j \in Deliveries
    BY <2>1, <1>9, <1>10 DEF Inv, DeliveredInKeyOrder
  <2>2. CASE j = n + 2
    <3>1. i \in Deliveries
      BY <2>2, <1>9
    <3>2. Before(log[i], e)
      BY <3>1, <1>2 DEF Behind
    <3> QED BY <2>2, <3>1, <3>2, <1>7, <1>9, <1>10 DEF Before
  <2> QED BY <1>9, <2>1, <2>2
<1>15. LateOnlyWhenFull'
  <2> SUFFICES ASSUME NEW i \in Deliveries',
                      NEW k \in messages[log'[i].seq].time .. log'[i].time - 1
               PROVE  BytesAt(k)' + messages[log'[i].seq].size > Limit
    BY <1>1 DEF LateOnlyWhenFull
  <2>1. CASE i \in Deliveries
    <3>1. log'[i] = log[i] /\ log[i].seq \in DOMAIN messages
      BY <2>1, <1>2, <1>9, <1>10, LogTypes
    <3> DEFINE m == messages[log[i].seq]
    <3>a. m.time \in Nat /\ m.size \in Nat
      BY <3>1, <1>2, MessageTypes
    <3>b. k \in m.time .. log[i].time - 1 /\ log[i].time \in Nat
      BY <2>1, <3>1, <1>2, LogTypes
    <3>2. k \in Nat /\ m.size \in Nat /\ Limit \in Nat
      <4> HIDE DEF m
      <4> QED BY <3>a, <3>b, NetworkAssumption
    <3>3. BytesAt(k) + m.size > Limit
      BY <2>1, <3>1 DEF Inv, LateOnlyWhenFull
    <3> QED BY <3>1, <3>2, <3>3, <1>3b
  <2>2. CASE i = n + 2
    <3>1. k \in messages[e.seq].time .. e.time - 1
      BY <2>2, <1>7, <1>9
    <3> DEFINE m == messages[e.seq]
    <3>a. e.time \in Nat /\ m.time \in Nat /\ m.size \in Nat
      BY <1>2, <1>3, MessageTypes
    <3>2. k \in Nat /\ m.size \in Nat /\ Limit \in Nat
      <4>1. k \in m.time .. e.time - 1
        BY <3>1
      <4> HIDE DEF m
      <4> QED BY <4>1, <3>a, NetworkAssumption
    <3>3. BytesAt(k) + messages[e.seq].size > Limit
      BY <3>1 DEF Inv, DeferredOnlyWhenFull
    <3>4. log'[i].seq = e.seq
      BY <2>2, <1>7, <1>9
    <3>5. BytesAt(k)' + messages[e.seq].size > Limit
      BY <3>2, <3>3, <1>3b
    <3> QED BY <3>4, <3>5
  <2> QED BY <1>9, <2>1, <2>2
<1>16. Unshared'
  BY <1>1, <1>2, <1>3a, <1>9, <1>10 DEF Inv, Unshared, NumbersAgree, NothingLost, n
<1>17. CallCanReturn'
  <2>1. call' # AnyMessage
    BY <1>1 DEF Idle, AnyMessage
  <2>2. call' \notin {Idle, AnyMessage} => call' \in InFlight'
    BY <1>1, <1>3a DEF Inv, CallCanReturn
  <2> QED BY <2>1, <2>2 DEF CallCanReturn
<1> QED BY <1>3b, <1>11, <1>12, <1>13, <1>14, <1>15, <1>16, <1>17 DEF Inv

\* A failed write has popped the message and logged nothing.
LEMMA FailStep ==
    ASSUME Inv, PopAndFail
    PROVE  Inv'
<1>1. PICK e \in queue :
        /\ Pop(e)
        /\ ~ Accepts(WrittenTime(messages[e.seq].time))
        /\ counter' = counter + 1
        /\ lastTime' = WrittenTime(messages[e.seq].time)
        /\ call' = Idle
        /\ UNCHANGED <<messages, delivered, log>>
  BY DEF PopAndFail
<1>2. TypeOK /\ Behind /\ LogIsChronological /\ lastTime <= clock /\ lastTime \in Nat
      /\ counter \in Nat /\ Deliveries' = Deliveries
  BY <1>1 DEF Inv, Chronicle, TypeOK, Deliveries
<1>3. /\ clock \in Nat /\ e.time \in Nat /\ clock <= e.time /\ clock' = e.time
      /\ messages[e.seq].time <= e.time /\ messages[e.seq].time \in Nat
  BY <1>1, <1>2, PopStep, MessageTypes
<1>4. /\ queue' \subseteq queue
      /\ DOMAIN bytes' \subseteq Nat /\ \A k \in DOMAIN bytes' : bytes'[k] \in Nat
      /\ \A k \in Nat : /\ BytesAt(k) \in Nat /\ BytesAt(k)' \in Nat
                        /\ BytesAt(k) <= BytesAt(k)'
      /\ Waiting' /\ Charged' /\ DeferredOnlyWhenFull'
  BY <1>1, <1>2, PopStep
<1>5. lastTime <= e.time
  BY <1>2, <1>3
<1>6. lastTime' \in Nat /\ lastTime <= lastTime' /\ lastTime' <= clock'
  BY <1>1, <1>2, <1>3, <1>5, Lifted
<1>7. TypeOK'
  <2>1. counter' \in Nat /\ clock' \in Nat /\ lastTime' \in Nat
    BY <1>1, <1>2, <1>3, <1>6
  <2> QED BY <1>1, <1>2, <1>4, <2>1 DEF TypeOK
<1>8. Chronicle'
  <2>1. \A i \in DOMAIN log : log[i].time \in Nat
    BY <1>2, LogTypes
  <2>2. ~ NodeEvents => \A i \in DOMAIN log : log[i].time <= lastTime'
    BY <2>1, <1>2, <1>6 DEF LogIsChronological
  <2> QED BY <1>1, <1>2, <1>6, <2>2 DEF Inv, Chronicle, LogIsChronological
<1>9. Behind' /\ DeliveredInKeyOrder'
  <2>1. \A i \in Deliveries : log[i].time \in Nat /\ log[i].time <= clock'
    BY <1>2, <1>3, LogTypes DEF Behind
  <2>2. log' = log /\ delivered' = delivered /\ Deliveries' = Deliveries /\ messages' = messages
    BY <1>1, <1>2
  <2>3. Behind'
    BY <2>1, <2>2, <1>2, <1>4 DEF Behind
  <2>4. DeliveredInKeyOrder
    BY DEF Inv
  <2>5. DeliveredInKeyOrder'
    BY <2>2, <2>4 DEF DeliveredInKeyOrder
  <2> QED BY <2>3, <2>5
<1>10. LateOnlyWhenFull'
  <2> SUFFICES ASSUME NEW i \in Deliveries,
                      NEW k \in messages[log[i].seq].time .. log[i].time - 1
               PROVE  BytesAt(k)' + messages[log[i].seq].size > Limit
    BY <1>1, <1>2 DEF LateOnlyWhenFull
  <2> DEFINE m == messages[log[i].seq]
  <2>a. log[i].time \in Nat /\ m.time \in Nat /\ m.size \in Nat
    BY <1>2, LogTypes, MessageTypes
  <2>1. k \in Nat /\ m.size \in Nat /\ Limit \in Nat
    <3>1. k \in m.time .. log[i].time - 1
      OBVIOUS
    <3> HIDE DEF m
    <3> QED BY <3>1, <2>a, NetworkAssumption
  <2>2. BytesAt(k) + messages[log[i].seq].size > Limit
    BY DEF Inv, LateOnlyWhenFull
  <2> QED BY <2>1, <2>2, <1>4
<1>11. Unshared'
  <2>1. WrittenTime(messages[e.seq].time) \in Nat /\ lastTime <= WrittenTime(messages[e.seq].time)
    BY <1>2, <1>3, <1>5, Lifted
  <2> QED BY <1>1, <2>1, AloneAccepts DEF Unshared
<1>12. CallCanReturn'
  BY <1>1 DEF CallCanReturn, Idle, AnyMessage
<1> QED BY <1>4, <1>7, <1>8, <1>9, <1>10, <1>11, <1>12 DEF Inv

\* Lines that are neither SEND nor DELIVER, and failed writes of such lines.
LEMMA OtherEventStep ==
    ASSUME Inv, NEW ev \in Line, ev.type # "DELIVER",
           UNCHANGED <<clock, queue, bytes, messages, delivered, call>>,
           counter' \in Nat, lastTime' \in Nat,
           lastTime <= lastTime', lastTime' <= clock,
           \/ log' = log
           \/ /\ log' = Append(log, ev)
              /\ ~ NodeEvents => ev.time <= lastTime'
              /\ \A i \in DOMAIN log : log[i].time <= ev.time,
           ~ SharedLog /\ ~ NodeEvents => counter' = Len(log')
    PROVE  Inv'
<1>1. TypeOK /\ Behind /\ LogIsChronological /\ log \in Seq(Line)
      /\ lastTime \in Nat /\ Len(log) \in Nat /\ DOMAIN log = 1 .. Len(log)
  BY DEF Inv, Chronicle, TypeOK
<1>2. /\ log' \in Seq(Line) /\ Deliveries' = Deliveries /\ Deliveries \subseteq DOMAIN log
      /\ \A i \in DOMAIN log : log'[i] = log[i]
  BY <1>1, OtherLine DEF Deliveries
<1>3. TypeOK'
  BY <1>1, <1>2 DEF TypeOK
<1>4. Chronicle'
  <2>1. ~ NodeEvents => \A i \in DOMAIN log : log[i].time \in Nat /\ log[i].time <= lastTime'
    BY <1>1, LogTypes DEF LogIsChronological
  <2>2. CASE log' = log
    BY <2>1, <2>2, <1>1 DEF Inv, Chronicle, LogIsChronological
  <2>3. CASE log' = Append(log, ev) /\ (~ NodeEvents => ev.time <= lastTime')
             /\ \A i \in DOMAIN log : log[i].time <= ev.time
    <3>1. /\ DOMAIN log' = DOMAIN log \cup {Len(log) + 1}
          /\ \A i \in DOMAIN log : log'[i] = log[i]
          /\ log'[Len(log) + 1] = ev
      BY <2>3, <1>1, OtherLine
    <3>1a. log' # <<>>
      <4>1. Len(log) + 1 \in DOMAIN log'
        BY <3>1
      <4> QED BY <4>1
    <3>2. ASSUME ~ NodeEvents, NEW i \in DOMAIN log' PROVE log'[i].time <= lastTime'
      <4>1. CASE i \in DOMAIN log
        BY <4>1, <3>1, <3>2, <2>1
      <4>2. CASE i = Len(log) + 1
        BY <4>2, <3>1, <3>2, <2>3
      <4> QED BY <3>1, <4>1, <4>2
    <3>3. ASSUME NEW i \in DOMAIN log', NEW j \in DOMAIN log', i < j
          PROVE  log'[i].time <= log'[j].time
      <4>1. CASE j \in DOMAIN log
        BY <4>1, <3>1, <3>3, <1>1 DEF LogIsChronological
      <4>2. CASE j = Len(log) + 1
        <5>1. i \in DOMAIN log
          BY <4>2, <3>1, <3>3, <1>1
        <5>2. log'[j] = ev /\ log'[i] = log[i]
          BY <5>1, <4>2, <3>1
        <5> QED BY <5>1, <5>2, <2>3
      <4> QED BY <3>1, <4>1, <4>2
    <3> QED BY <3>1a, <3>2, <3>3 DEF Chronicle, LogIsChronological
  <2> QED BY <2>2, <2>3
<1>5. Waiting' /\ Charged' /\ DeferredOnlyWhenFull' /\ InFlight' = InFlight
  BY DEF Inv, Waiting, Charged, DeferredOnlyWhenFull, BytesAt, InFlight
<1>5a. \A i \in Deliveries' : i \in Deliveries /\ log'[i] = log[i]
  BY <1>2
<1>6. Behind' /\ DeliveredInKeyOrder'
  <2>1. Behind'
    BY <1>1, <1>5a DEF Behind
  <2>2. DeliveredInKeyOrder
    BY DEF Inv
  <2>3. DeliveredInKeyOrder'
    BY <2>2, <1>5a DEF DeliveredInKeyOrder
  <2> QED BY <2>1, <2>3
<1>7. LateOnlyWhenFull'
  BY <1>2 DEF Inv, LateOnlyWhenFull, BytesAt
<1>8. Unshared' /\ CallCanReturn'
  BY <1>5 DEF Inv, Unshared, NumbersAgree, NothingLost, CallCanReturn
<1> QED BY <1>3, <1>4, <1>5, <1>6, <1>7, <1>8 DEF Inv

\* block_peer and unblock_peer.
LEMMA PeerEventStep ==
    ASSUME Inv, NEW p \in Peers, NEW type \in {"PEER_BLOCK", "PEER_UNBLOCK"},
           WritePeerEvent(p, type)
    PROVE  Inv'
<1> DEFINE ev == Event(type, p, 0, WrittenTime(clock))
<1>1. /\ clock \in Nat /\ lastTime \in Nat /\ lastTime <= clock /\ counter \in Nat
      /\ log \in Seq(Line) /\ TypeOK /\ Behind /\ Chronicle
      /\ ~ SharedLog /\ ~ NodeEvents => NumbersAgree /\ Accepts(clock)
  BY AloneAccepts DEF Inv, Chronicle, TypeOK, Unshared
<1>2. WrittenTime(clock) = clock
  BY <1>1, Lifted
<1>3. ev \in Line /\ ev.type = type /\ ev.time = clock
  BY <1>1, <1>2, EventIsLine DEF EventTypes
<1>4. /\ UNCHANGED <<clock, queue, bytes, messages, delivered, call>>
      /\ counter' = counter + 1 /\ lastTime' = clock
      /\ log' = IF Accepts(clock) THEN Append(log, ev) ELSE log
  BY <1>2 DEF WritePeerEvent
<1> HIDE DEF ev
<1>5. ~ SharedLog /\ ~ NodeEvents => counter' = Len(log')
  BY <1>1, <1>3, <1>4, OtherLine DEF NumbersAgree
<1>6. Accepts(clock) => \A i \in DOMAIN log : log[i].time <= ev.time
  BY <1>1, <1>3, AfterLast DEF Accepts
<1> QED BY <1>1, <1>3, <1>4, <1>5, <1>6, OtherEventStep

\* The router's REJECT of a delivered message.
LEMMA RejectStep ==
    ASSUME Inv, NEW i \in DOMAIN log, RouteReject(i)
    PROVE  Inv'
<1> DEFINE time == messages[log[i].seq].time
           ev == Event("REJECT", log[i].who, log[i].seq, time)
<1>1. /\ lastTime \in Nat /\ lastTime <= clock /\ counter \in Nat
      /\ log \in Seq(Line) /\ TypeOK /\ Behind /\ Chronicle /\ LogIsChronological
  BY DEF Inv, Chronicle, TypeOK
<1>2. log[i] \in Line /\ log[i].time \in Nat /\ (~ NodeEvents => log[i].time <= lastTime)
  BY <1>1, LogTypes DEF LogIsChronological
<1>3. time \in Nat /\ time <= log[i].time
  <2>1. i \in Deliveries
    BY DEF RouteReject, Deliveries
  <2>2. log[i].seq \in DOMAIN messages
    BY <2>1, <1>1, LogTypes
  <2> QED BY <2>1, <2>2, <1>1, MessageTypes DEF Behind
<1>4. /\ UNCHANGED <<clock, queue, bytes, messages, delivered, call, counter, lastTime>>
      /\ log' = Append(log, ev) /\ SharedLog /\ time >= log[Len(log)].time
  BY DEF RouteReject
<1> HIDE DEF time
<1>5. ev \in Line /\ ev.type = "REJECT" /\ ev.time = time
  BY <1>2, <1>3 DEF Event, Line, EventTypes
<1>6. log[Len(log)].time <= time
  <2>1. Len(log) \in DOMAIN log
    BY <1>1 DEF Chronicle
  <2> QED BY <2>1, <1>1, <1>3, <1>4, LogTypes
<1> HIDE DEF ev
<1>7. \A j \in DOMAIN log : log[j].time <= ev.time
  BY <1>1, <1>3, <1>5, <1>6, AfterLast
<1>8. ~ NodeEvents => ev.time <= lastTime
  BY <1>1, <1>2, <1>3, <1>5
<1> QED BY <1>1, <1>4, <1>5, <1>7, <1>8, OtherEventStep

\* The drivers' own events, at times of theirs.
LEMMA NodeEventStep ==
    ASSUME Inv, NEW p \in Peers, NEW time \in Nat, WriteNodeEvent(p, time)
    PROVE  Inv'
<1> DEFINE ev == Event("NODE", p, 0, time)
<1>1. /\ clock \in Nat /\ lastTime \in Nat /\ lastTime <= clock /\ counter \in Nat
      /\ log \in Seq(Line) /\ TypeOK /\ Behind /\ Chronicle
  BY DEF Inv, Chronicle, TypeOK
<1>2. ev \in Line /\ ev.type = "NODE" /\ ev.time = time
  BY EventIsLine DEF EventTypes
<1>3. /\ UNCHANGED <<clock, queue, bytes, messages, delivered, call, lastTime>>
      /\ counter' = counter + 1 /\ NodeEvents
      /\ log' = IF Accepts(time) THEN Append(log, ev) ELSE log
  BY DEF WriteNodeEvent
<1> HIDE DEF ev
<1>4. Accepts(time) => \A i \in DOMAIN log : log[i].time <= ev.time
  BY <1>1, <1>2, AfterLast DEF Accepts
<1> QED BY <1>1, <1>2, <1>3, <1>4, OtherEventStep

\* Every step of the network keeps the invariant.
LEMMA InvStep == Inv /\ [Next]_vars => Inv'
<1> SUFFICES ASSUME Inv, [Next]_vars PROVE Inv'
  OBVIOUS
<1>1. CASE \E p \in Peers, size \in Sizes, time \in 0 .. MaxTime : Send(p, size, time)
  BY <1>1, SendStep, NetworkAssumption
<1>2. CASE RunNext \/ (\E seq \in DOMAIN messages : Deliver(seq)) \/ UNCHANGED vars
  BY <1>2, CallStep
<1>3. CASE PopAndDefer
  BY <1>3, DeferStep
<1>4. CASE PopAndDeliver
  BY <1>4, DeliverStep
<1>5. CASE PopAndFail
  BY <1>5, FailStep
<1>6. CASE \E p \in Peers : BlockPeer(p) \/ UnblockPeer(p)
  BY <1>6, PeerEventStep DEF BlockPeer, UnblockPeer
<1>7. CASE \E i \in DOMAIN log : RouteReject(i)
  BY <1>7, RejectStep
<1>8. CASE \E p \in Peers, time \in 0 .. MaxTime : WriteNodeEvent(p, time)
  BY <1>8, NodeEventStep, NetworkAssumption
<1> QED BY <1>1, <1>2, <1>3, <1>4, <1>5, <1>6, <1>7, <1>8 DEF Next

\* A message that is delivered while one sent ahead of it waits is smaller: the
\* waiting one found its tick too full, and the delivered one found room there
\* (src/network.py, _try_deliver).
LEMMA OvertakingStep ==
    ASSUME Inv, OvertakenOnlyBySmaller, [Next]_vars
    PROVE  OvertakenOnlyBySmaller'
<1> SUFFICES ASSUME NEW a \in InFlight', NEW b \in delivered', SentAhead(a, b)'
             PROVE  messages'[b].size < messages'[a].size
  BY DEF OvertakenOnlyBySmaller
<1>1. TypeOK
  BY DEF Inv
<1>2. CASE \E p \in Peers, size \in Sizes, time \in 0 .. MaxTime : Send(p, size, time)
  <2> PICK p \in Peers, size \in Sizes, time \in 0 .. MaxTime : Send(p, size, time)
    BY <1>2
  <2> DEFINE n == Len(messages) + 1
             m == [sender |-> p, size |-> size, time |-> time]
  <2>1. messages \in Seq(Message) /\ m \in Message /\ messages' = Append(messages, m)
        /\ queue' = queue \cup {[time |-> time, seq |-> n]} /\ delivered' = delivered
    BY <1>1, NetworkAssumption DEF TypeOK, Send, NewSeq, Message
  <2>2. \A s \in DOMAIN messages : messages'[s] = messages[s] /\ s < n
    BY <2>1
  <2>3. b \in DOMAIN messages /\ a < b
    BY <1>1, <2>1 DEF TypeOK, SentAhead
  <2>4. a \in InFlight \/ a = n
    BY <2>1 DEF InFlight
  <2>5. a \in InFlight /\ a \in DOMAIN messages
    BY <2>2, <2>3, <2>4, <1>1, MessageTypes DEF InFlight
  <2> QED BY <2>1, <2>2, <2>3, <2>5 DEF OvertakenOnlyBySmaller, SentAhead
<1>3. CASE UNCHANGED <<messages, delivered>> /\ InFlight' \subseteq InFlight
  BY <1>3 DEF OvertakenOnlyBySmaller, SentAhead
<1>4. CASE PopAndDeliver
  <2>1. PICK e \in queue : /\ Pop(e) /\ messages' = messages
                           /\ delivered' = delivered \cup {e.seq}
    BY <1>4 DEF PopAndDeliver
  <2>2. queue' = queue \ {e} /\ a \in InFlight
    BY <2>1 DEF Pop, InFlight
  <2>3. CASE b \in delivered
    BY <2>1, <2>2, <2>3 DEF OvertakenOnlyBySmaller, SentAhead
  <2>4. CASE b = e.seq
    <3>1. PICK f \in queue : f # e /\ f.seq = a
      BY <2>2 DEF InFlight
    <3> DEFINE x == messages[a]
               y == messages[b]
    <3>2. /\ e.time \in Nat /\ f.time \in Nat /\ e.seq \in Nat /\ f.seq \in Nat
          /\ x.time \in Nat /\ y.time \in Nat /\ x.size \in Nat /\ y.size \in Nat
      BY <1>1, <2>4, <3>1, MessageTypes
    <3>3. a < b /\ x.time <= y.time /\ y.time <= e.time
      BY <2>1, <2>4 DEF SentAhead, Inv, Waiting
    <3>4. Before(e, f)
      BY <2>1, <3>1 DEF Pop, IsHead
    <3>5. e.time < f.time
      BY <3>1, <3>2, <3>3, <3>4, <2>4 DEF Before
    <3>6. e.time \in x.time .. f.time - 1
      BY <3>2, <3>3, <3>5
    <3>7. BytesAt(e.time) + x.size > Limit
      BY <3>1, <3>6 DEF Inv, DeferredOnlyWhenFull
    <3>8. BytesAt(e.time) + y.size <= Limit
      BY <2>1, <2>4 DEF Pop, HasRoom
    <3>9. BytesAt(e.time) \in Nat /\ Limit \in Nat
      BY <1>1, <3>2, NetworkAssumption DEF BytesAt, TypeOK
    <3>10. y.size < x.size
      <4> HIDE DEF x, y
      <4> QED BY <3>2, <3>7, <3>8, <3>9
    <3> QED BY <2>1, <3>10
  <2> QED BY <2>1, <2>3, <2>4
<1>5. CASE RunNext \/ (\E seq \in DOMAIN messages : Deliver(seq)) \/ UNCHANGED vars
           \/ (\E p \in Peers : BlockPeer(p) \/ UnblockPeer(p))
           \/ (\E p \in Peers, time \in 0 .. MaxTime : WriteNodeEvent(p, time))
           \/ (\E i \in DOMAIN log : RouteReject(i))
  <2>1. UNCHANGED <<messages, delivered, queue>>
    BY <1>5 DEF RunNext, Deliver, vars, BlockPeer, UnblockPeer, WritePeerEvent, WriteNodeEvent,
         RouteReject
  <2> QED BY <2>1, <1>3 DEF InFlight
<1>6. CASE PopAndDefer
  <2>1. PICK e \in queue, tick \in {j + 1 : j \in DOMAIN bytes} :
          Requeue(e, tick) /\ UNCHANGED <<messages, delivered>>
    BY <1>6 DEF PopAndDefer
  <2>2. InFlight' \subseteq InFlight
    BY <2>1 DEF Requeue, InFlight
  <2> QED BY <2>1, <2>2, <1>3
<1>7. CASE PopAndFail
  BY <1>7, <1>3 DEF PopAndFail, Pop, InFlight
<1> QED BY <1>2, <1>4, <1>5, <1>6, <1>7 DEF Next

-----------------------------------------------------------------------------
(* Bandwidth *)

\* What was delivered in a tick was charged to it; a message whose SEND could
\* not be written was charged too.
Accounted == \A k \in Nat : DeliveredBytes(k) <= BytesAt(k)

DeliveredSize == [i \in Deliveries |-> messages[log[i].seq].size]

DeliveredAt(k) == {i \in Deliveries : log[i].time = k}

\* The lines of a tick are finitely many, and their messages have sizes.
LEMMA DeliveredTypes ==
    ASSUME TypeOK, Behind
    PROVE  /\ DeliveredSize \in [Deliveries -> Nat]
           /\ \A k : IsFiniteSet(DeliveredAt(k))
<1>1. \A i \in Deliveries : messages[log[i].seq].size \in Nat
  BY LogTypes, MessageTypes
<1>2. IsFiniteSet(DOMAIN log)
  <2>1. Len(log) \in Nat /\ DOMAIN log = 1 .. Len(log)
    BY DEF TypeOK
  <2> QED BY <2>1, FS_Interval
<1>3. ASSUME NEW k PROVE IsFiniteSet(DeliveredAt(k))
  <2>1. DeliveredAt(k) \in SUBSET DOMAIN log
    BY DEF DeliveredAt, Deliveries
  <2> QED BY <1>2, <2>1, FS_Subset
<1> QED BY <1>1, <1>3 DEF DeliveredSize

\* A step that delivers nothing keeps what was delivered in each tick.
LEMMA DeliveriesStay ==
    ASSUME Inv, Deliveries' = Deliveries, NEW k,
           \A i \in Deliveries : /\ log'[i] = log[i]
                                 /\ messages'[log[i].seq] = messages[log[i].seq]
    PROVE  DeliveredBytes(k)' = DeliveredBytes(k)
<1>1. IsFiniteSet(DeliveredAt(k))
  BY DeliveredTypes DEF Inv
<1>2. DeliveredSize' = DeliveredSize /\ DeliveredAt(k)' = DeliveredAt(k)
  BY DEF DeliveredSize, DeliveredAt
<1> QED BY <1>2 DEF DeliveredBytes, DeliveredSize, DeliveredAt

\* Delivering the head of the queue adds its size to its tick, as charging does.
LEMMA DeliveryIsCharged ==
    ASSUME Inv, PopAndDeliver, NEW k \in Nat, DeliveredBytes(k) <= BytesAt(k)
    PROVE  DeliveredBytes(k)' <= BytesAt(k)'
<1>0. PICK e \in queue :
        /\ Pop(e) /\ messages' = messages /\ delivered' = delivered \cup {e.seq}
        /\ log' = Append(Append(log,
              Event("SEND", messages[e.seq].sender, e.seq, WrittenTime(messages[e.seq].time))),
              Event("DELIVER", messages[e.seq].sender, e.seq, WrittenTime(e.time)))
  BY DEF PopAndDeliver
<1> DEFINE s == Event("SEND", messages[e.seq].sender, e.seq, WrittenTime(messages[e.seq].time))
           d == Event("DELIVER", messages[e.seq].sender, e.seq, WrittenTime(e.time))
<1>1. /\ Pop(e) /\ messages' = messages /\ delivered' = delivered \cup {e.seq}
      /\ s = Event("SEND", messages[e.seq].sender, e.seq, WrittenTime(messages[e.seq].time))
      /\ d = Event("DELIVER", messages[e.seq].sender, e.seq, WrittenTime(e.time))
      /\ log' = Append(Append(log, s), d)
  BY <1>0
<1> HIDE DEF s, d
<1> DEFINE x == Len(log) + 2
           size == messages[e.seq].size
<1>2. /\ TypeOK /\ Behind /\ e.time \in Nat /\ size \in Nat
      /\ \A j \in Nat : BytesAt(j) \in Nat /\ BytesAt(j)' \in Nat /\ BytesAt(j) <= BytesAt(j)'
  BY <1>1, PopStep, MessageTypes DEF Inv
<1>3. /\ Deliveries' = Deliveries \cup {x} /\ x \notin Deliveries
      /\ \A i \in Deliveries : log'[i] = log[i]
      /\ log'[x].time = e.time /\ log'[x].seq = e.seq
  <2>1. /\ Deliveries' = Deliveries \cup {x}
        /\ \A i \in DOMAIN log : log'[i] = log[i]
        /\ log'[x] = d /\ d.time = e.time /\ d.seq = e.seq
    BY <1>1, DeliverLines
  <2>2. x \notin DOMAIN log
    BY <1>2 DEF TypeOK
  <2> QED BY <2>1, <2>2 DEF Deliveries
<1>4. /\ IsFiniteSet(DeliveredAt(k))
      /\ \A i \in DeliveredAt(k) : /\ DeliveredSize[i] \in Nat /\ x # i
                                    /\ DeliveredSize'[i] = DeliveredSize[i]
      /\ DeliveredSize'[x] = size
  BY <1>1, <1>2, <1>3, DeliveredTypes DEF DeliveredSize, DeliveredAt
<1> HIDE DEF x, size
<1>5. CASE k = e.time
  <2>1. DeliveredAt(k)' = DeliveredAt(k) \cup {x} /\ x \notin DeliveredAt(k)
    BY <1>3, <1>5 DEF DeliveredAt
  <2>2. SumFunctionOnSet(DeliveredSize', DeliveredAt(k) \cup {x})
          = DeliveredSize'[x] + SumFunctionOnSet(DeliveredSize, DeliveredAt(k))
    BY <1>2, <1>4, <2>1, SumAdd
  <2>3. DeliveredBytes(k)' = size + DeliveredBytes(k)
    BY <1>4, <2>1, <2>2 DEF DeliveredBytes, DeliveredSize, DeliveredAt
  <2>4. DeliveredBytes(k) \in Nat
    BY <1>4, SumIsNat DEF DeliveredBytes, DeliveredSize, DeliveredAt
  <2>5. BytesAt(k)' = BytesAt(k) + size
    BY <1>1, <1>5 DEF Pop, BytesAt, size
  <2> QED BY <1>2, <2>3, <2>4, <2>5
<1>6. CASE k # e.time
  <2>1. DeliveredAt(k)' = DeliveredAt(k)
    BY <1>3, <1>6 DEF DeliveredAt
  <2>2. SumFunctionOnSet(DeliveredSize', DeliveredAt(k))
          = SumFunctionOnSet(DeliveredSize, DeliveredAt(k))
    BY <1>4, SumSame
  <2>3. DeliveredBytes(k)' = DeliveredBytes(k) /\ DeliveredBytes(k) \in Nat
    BY <1>4, <2>1, <2>2, SumIsNat DEF DeliveredBytes, DeliveredSize, DeliveredAt
  <2> QED BY <1>2, <2>3
<1> QED BY <1>5, <1>6

\* Every step keeps the account.
LEMMA AccountedStep ==
    ASSUME Inv, Accounted, [Next]_vars
    PROVE  Accounted'
<1> SUFFICES ASSUME NEW k \in Nat PROVE DeliveredBytes(k)' <= BytesAt(k)'
  BY DEF Accounted
<1>0. DeliveredBytes(k) <= BytesAt(k)
  BY DEF Accounted
<1>1. CASE PopAndDeliver
  BY <1>0, <1>1, DeliveryIsCharged
<1>2. CASE \E p \in Peers, size \in Sizes, time \in 0 .. MaxTime : Send(p, size, time)
  <2> PICK p \in Peers, size \in Sizes, time \in 0 .. MaxTime : Send(p, size, time)
    BY <1>2
  <2> DEFINE m == [sender |-> p, size |-> size, time |-> time]
  <2>1. messages \in Seq(Message) /\ m \in Message /\ messages' = Append(messages, m)
        /\ TypeOK /\ Behind
    BY NetworkAssumption DEF Inv, TypeOK, Send, NewSeq, Message
  <2>2. \A q \in DOMAIN messages : messages'[q] = messages[q]
    BY <2>1
  <2>3. log' = log /\ bytes' = bytes /\ Deliveries' = Deliveries
    BY DEF Send, Deliveries
  <2>4. \A i \in Deliveries : messages'[log[i].seq] = messages[log[i].seq]
    BY <2>1, <2>2, LogTypes
  <2>5. DeliveredBytes(k)' = DeliveredBytes(k)
    BY <2>3, <2>4, DeliveriesStay
  <2> QED BY <1>0, <2>3, <2>5 DEF BytesAt
<1>3. CASE UNCHANGED <<log, messages, bytes>>
  <2>1. DeliveredBytes(k)' = DeliveredBytes(k)
    BY <1>3, DeliveriesStay DEF Deliveries
  <2> QED BY <1>0, <1>3, <2>1 DEF BytesAt
<1>4. CASE PopAndFail
  <2>1. PICK e \in queue : Pop(e) /\ UNCHANGED <<messages, delivered, log>>
    BY <1>4 DEF PopAndFail
  <2>2. DeliveredBytes(k)' = DeliveredBytes(k)
    BY <2>1, DeliveriesStay DEF Deliveries
  <2>3. BytesAt(k) \in Nat /\ BytesAt(k)' \in Nat /\ BytesAt(k) <= BytesAt(k)'
    BY <2>1, PopStep
  <2>4. DeliveredBytes(k) \in Nat
    BY DeliveredTypes, SumIsNat DEF Inv, DeliveredBytes, DeliveredSize, DeliveredAt
  <2> QED BY <1>0, <2>2, <2>3, <2>4
<1>5. ASSUME NEW ev \in Line, ev.type # "DELIVER", log' = Append(log, ev),
             UNCHANGED <<messages, bytes>>
      PROVE  DeliveredBytes(k)' <= BytesAt(k)'
  <2>1. log \in Seq(Line) /\ Deliveries \subseteq DOMAIN log
    BY DEF Inv, TypeOK, Deliveries
  <2>2. Deliveries' = Deliveries /\ \A i \in Deliveries : log'[i] = log[i]
    BY <1>5, <2>1, OtherLine
  <2>3. DeliveredBytes(k)' = DeliveredBytes(k)
    BY <1>5, <2>2, DeliveriesStay
  <2> QED BY <1>0, <1>5, <2>3 DEF BytesAt
<1>6. ASSUME NEW p \in Peers, BlockPeer(p) \/ UnblockPeer(p)
      PROVE  DeliveredBytes(k)' <= BytesAt(k)'
  <2>1. PICK type \in {"PEER_BLOCK", "PEER_UNBLOCK"} : WritePeerEvent(p, type)
    BY <1>6 DEF BlockPeer, UnblockPeer
  <2> DEFINE ev == Event(type, p, 0, WrittenTime(clock))
  <2>2. ev \in Line /\ ev.type = type
    <3>1. WrittenTime(clock) \in Nat
      BY DEF Inv, TypeOK, WrittenTime
    <3> QED BY <3>1, EventIsLine DEF EventTypes
  <2>3. (log' = log \/ log' = Append(log, ev)) /\ UNCHANGED <<messages, bytes>>
    BY <2>1 DEF WritePeerEvent
  <2> HIDE DEF ev
  <2> QED BY <1>3, <1>5, <2>2, <2>3
<1>7. ASSUME NEW i \in DOMAIN log, RouteReject(i)
      PROVE  DeliveredBytes(k)' <= BytesAt(k)'
  <2> DEFINE ev == Event("REJECT", log[i].who, log[i].seq, messages[log[i].seq].time)
  <2>1. ev \in Line /\ ev.type # "DELIVER"
    <3>1. log[i] \in Line /\ log[i].seq \in DOMAIN messages
      BY <1>7, LogTypes DEF Inv, RouteReject, Deliveries
    <3>2. messages[log[i].seq].time \in Nat
      BY <3>1, MessageTypes DEF Inv
    <3> QED BY <3>1, <3>2 DEF Event, Line, EventTypes
  <2>2. log' = Append(log, ev) /\ UNCHANGED <<messages, bytes>>
    BY <1>7 DEF RouteReject
  <2> HIDE DEF ev
  <2> QED BY <1>5, <2>1, <2>2
<1>8. ASSUME NEW p \in Peers, NEW time \in Nat, WriteNodeEvent(p, time)
      PROVE  DeliveredBytes(k)' <= BytesAt(k)'
  <2> DEFINE ev == Event("NODE", p, 0, time)
  <2>1. ev \in Line /\ ev.type # "DELIVER"
    BY EventIsLine DEF EventTypes
  <2>2. (log' = log \/ log' = Append(log, ev)) /\ UNCHANGED <<messages, bytes>>
    BY <1>8 DEF WriteNodeEvent
  <2> HIDE DEF ev
  <2> QED BY <1>3, <1>5, <2>1, <2>2
<1>9. CASE RunNext \/ (\E seq \in DOMAIN messages : Deliver(seq)) \/ PopAndDefer \/ UNCHANGED vars
  BY <1>3, <1>9 DEF RunNext, Deliver, PopAndDefer, vars
<1> QED BY <1>1, <1>2, <1>4, <1>6, <1>7, <1>8, <1>9, NetworkAssumption DEF Next

-----------------------------------------------------------------------------
(* Messages lost and numbers unwritten *)

\* A line adds itself to the rejections, or nothing.
LEMMA LineCounts ==
    ASSUME log \in Seq(Line), NEW ev \in Line, log' = Append(log, ev)
    PROVE  /\ Len(log) \in Nat /\ Len(log') = Len(log) + 1
           /\ IsFiniteSet(Rejections) /\ Cardinality(Rejections) \in Nat
           /\ Cardinality(Rejections') =
                IF ev.type = "REJECT" THEN Cardinality(Rejections) + 1 ELSE Cardinality(Rejections)
<1> DEFINE n == Len(log) + 1
<1>1. /\ Len(log) \in Nat /\ DOMAIN log = 1 .. Len(log) /\ Len(log') = n
      /\ DOMAIN log' = DOMAIN log \cup {n} /\ n \notin DOMAIN log
      /\ \A i \in DOMAIN log : log'[i] = log[i]
      /\ log'[n] = ev
  OBVIOUS
<1>2. IsFiniteSet(Rejections) /\ Cardinality(Rejections) \in Nat
  <2>1. IsFiniteSet(1 .. Len(log)) /\ Rejections \subseteq 1 .. Len(log)
    BY <1>1, FS_Interval DEF Rejections
  <2> QED BY <2>1, FS_Subset, FS_CardinalityType
<1> HIDE DEF n
<1>3. CASE ev.type = "REJECT"
  <2>1. Rejections' = Rejections \cup {n} /\ n \notin Rejections
    BY <1>1, <1>3 DEF Rejections
  <2> QED BY <1>1, <1>2, <1>3, <2>1, FS_AddElement DEF n
<1>4. CASE ev.type # "REJECT"
  <2>1. Rejections' = Rejections
    BY <1>1, <1>4 DEF Rejections
  <2> QED BY <1>1, <1>2, <1>4, <2>1 DEF n
<1> QED BY <1>3, <1>4

\* A message gets lost only where a number of the runner does.
LEMMA LossStep == Inv /\ NoSilentLoss /\ [Next]_vars => NoSilentLoss'
<1> SUFFICES ASSUME Inv, NoSilentLoss, [Next]_vars PROVE NoSilentLoss'
  OBVIOUS
<1> DEFINE lost == Cardinality(Lost)
           rejected == Cardinality(Rejections)
<1>1. /\ TypeOK /\ Behind /\ log \in Seq(Line) /\ Len(log) \in Nat /\ counter \in Nat
      /\ DOMAIN log = 1 .. Len(log) /\ lastTime \in Nat /\ clock \in Nat
  BY DEF Inv, TypeOK
<1>2. IsFiniteSet(Lost) /\ lost \in Nat
  <2>1. DOMAIN messages = 1 .. Len(messages) /\ Len(messages) \in Nat
    BY <1>1, MessageTypes
  <2>2. IsFiniteSet(1 .. Len(messages))
    BY <2>1, FS_Interval
  <2>3. Lost \subseteq 1 .. Len(messages)
    BY <2>1 DEF Lost
  <2> QED BY <2>2, <2>3, FS_Subset, FS_CardinalityType
<1>3. rejected \in Nat
  <2>1. IsFiniteSet(1 .. Len(log)) /\ Rejections \subseteq 1 .. Len(log)
    BY <1>1, FS_Interval DEF Rejections
  <2> QED BY <2>1, FS_Subset, FS_CardinalityType
<1>4. lost <= counter - (Len(log) - rejected)
  BY DEF NoSilentLoss, UnwrittenNumbers
<1>5. SUFFICES lost' <= counter' - (Len(log') - rejected')
  BY DEF NoSilentLoss, UnwrittenNumbers
<1>6. ASSUME Lost' = Lost, log' = log, counter' = counter \/ counter' = counter + 1
      PROVE  lost' <= counter' - (Len(log') - rejected')
  <2>1. lost' = lost /\ rejected' = rejected /\ Len(log') = Len(log)
    BY <1>6 DEF Rejections
  <2> QED BY <1>1, <1>2, <1>3, <1>4, <1>6, <2>1
<1>7. ASSUME Lost' = Lost, NEW ev \in Line, log' = Append(log, ev),
             \/ ev.type = "REJECT" /\ counter' = counter
             \/ ev.type # "REJECT" /\ counter' = counter + 1
      PROVE  lost' <= counter' - (Len(log') - rejected')
  <2>1. /\ lost' = lost /\ Len(log') = Len(log) + 1
        /\ rejected' = IF ev.type = "REJECT" THEN rejected + 1 ELSE rejected
    BY <1>1, <1>7, LineCounts
  <2> QED BY <1>1, <1>2, <1>3, <1>4, <1>7, <2>1
<1>8. CASE \E q \in Peers, size \in Sizes, time \in 0 .. MaxTime : Send(q, size, time)
  <2> PICK q \in Peers, size \in Sizes, time \in 0 .. MaxTime : Send(q, size, time)
    BY <1>8
  <2> DEFINE n == Len(messages) + 1
             m == [sender |-> q, size |-> size, time |-> time]
             new == [time |-> time, seq |-> n]
  <2>1. /\ messages' = Append(messages, m) /\ queue' = queue \cup {new}
        /\ UNCHANGED <<delivered, counter, log>>
    BY DEF Send, NewSeq
  <2>2. DOMAIN messages' = DOMAIN messages \cup {n} /\ new.seq = n
    BY <2>1, <1>1 DEF TypeOK
  <2> HIDE DEF n, m, new
  <2>3. InFlight' = InFlight \cup {n}
    BY <2>1, <2>2 DEF InFlight
  <2>4. Lost' = Lost
    <3>1. n \notin Lost
      BY <1>1, MessageTypes DEF Lost, n
    <3> QED BY <2>1, <2>2, <2>3, <3>1 DEF Lost
  <2> QED BY <2>1, <2>4, <1>6
<1>9. CASE RunNext \/ (\E seq \in DOMAIN messages : Deliver(seq)) \/ UNCHANGED vars
  <2>1. UNCHANGED <<messages, queue, delivered, counter, log>>
    BY <1>9 DEF RunNext, Deliver, vars
  <2>2. Lost' = Lost
    BY <2>1 DEF Lost, InFlight
  <2> QED BY <2>1, <2>2, <1>6
<1>10. CASE PopAndDefer
  <2>1. PICK e \in queue, tick \in {j + 1 : j \in DOMAIN bytes} :
          Requeue(e, tick) /\ UNCHANGED <<messages, delivered, counter, log>>
    BY <1>10 DEF PopAndDefer
  <2> DEFINE moved == [time |-> tick, seq |-> e.seq]
  <2>2. queue' = (queue \ {e}) \cup {moved} /\ moved.seq = e.seq
    BY <2>1 DEF Requeue
  <2> HIDE DEF moved
  <2>3. InFlight' = InFlight
    BY <2>2 DEF InFlight
  <2> QED BY <2>1, <2>3, <1>6 DEF Lost
<1>11. CASE PopAndDeliver
  <2>1. PICK e \in queue :
          /\ Pop(e) /\ messages' = messages /\ delivered' = delivered \cup {e.seq}
          /\ counter' = counter + 2
          /\ log' = Append(Append(log,
                 Event("SEND", messages[e.seq].sender, e.seq, WrittenTime(messages[e.seq].time))),
                 Event("DELIVER", messages[e.seq].sender, e.seq, WrittenTime(e.time)))
    BY <1>11 DEF PopAndDeliver
  <2>2. InFlight' = InFlight \ {e.seq} /\ e.seq \in InFlight /\ e.seq \in DOMAIN messages
    BY <2>1, PopStep
  <2>3. Lost' = Lost
    BY <2>1, <2>2 DEF Lost
  <2> DEFINE who == messages[e.seq].sender
             send == Event("SEND", who, e.seq, WrittenTime(messages[e.seq].time))
             deliver == Event("DELIVER", who, e.seq, WrittenTime(e.time))
  <2>4. /\ send \in Line /\ send.type = "SEND" /\ deliver \in Line /\ deliver.type = "DELIVER"
    <3>1. /\ who \in Peers /\ e.seq \in Nat
          /\ WrittenTime(messages[e.seq].time) \in Nat /\ WrittenTime(e.time) \in Nat
      BY <1>1, <2>2, MessageTypes DEF WrittenTime
    <3> QED BY <3>1, EventIsLine DEF EventTypes
  <2>5. log' = Append(Append(log, send), deliver)
    BY <2>1
  <2> HIDE DEF send, deliver, who
  <2>6. /\ DOMAIN log' = DOMAIN log \cup {Len(log) + 1, Len(log) + 2}
        /\ Len(log') = Len(log) + 2
        /\ \A i \in DOMAIN log : log'[i] = log[i]
        /\ log'[Len(log) + 1] = send /\ log'[Len(log) + 2] = deliver
    BY <1>1, <2>4, <2>5, TwoLines
  <2>7. Rejections' = Rejections
    BY <2>4, <2>6 DEF Rejections
  <2>8. lost' = lost /\ rejected' = rejected
    BY <2>3, <2>7
  <2> QED BY <1>1, <1>2, <1>3, <1>4, <2>1, <2>6, <2>8
<1>12. CASE PopAndFail
  <2>1. PICK e \in queue : /\ Pop(e) /\ counter' = counter + 1
                           /\ UNCHANGED <<messages, delivered, log>>
    BY <1>12 DEF PopAndFail
  <2>2. InFlight' = InFlight \ {e.seq}
    BY <2>1, PopStep
  <2>3. Lost' \subseteq Lost \cup {e.seq}
    BY <2>1, <2>2 DEF Lost
  <2>4. lost' <= lost + 1 /\ lost' \in Nat
    <3>1. IsFiniteSet(Lost \cup {e.seq}) /\ Cardinality(Lost \cup {e.seq}) <= lost + 1
      BY <1>2, FS_AddElement
    <3>2. IsFiniteSet(Lost') /\ lost' <= Cardinality(Lost \cup {e.seq})
      BY <2>3, <3>1, FS_Subset
    <3> QED BY <1>2, <3>1, <3>2, FS_CardinalityType
  <2>5. rejected' = rejected /\ Len(log') = Len(log)
    BY <2>1 DEF Rejections
  <2> QED BY <1>1, <1>2, <1>3, <1>4, <2>1, <2>4, <2>5
<1>13. ASSUME NEW q \in Peers, NEW type \in {"PEER_BLOCK", "PEER_UNBLOCK", "NODE"}, NEW time \in Nat,
              UNCHANGED <<messages, queue, delivered>>, counter' = counter + 1,
              log' = log \/ log' = Append(log, Event(type, q, 0, time))
       PROVE  lost' <= counter' - (Len(log') - rejected')
  <2>1. Lost' = Lost
    BY <1>13 DEF Lost, InFlight
  <2> DEFINE ev == Event(type, q, 0, time)
  <2>2. ev \in Line /\ ev.type = type /\ type # "REJECT"
    BY <1>13, EventIsLine DEF EventTypes
  <2> HIDE DEF ev
  <2>3. log' = log \/ log' = Append(log, ev)
    BY <1>13 DEF ev
  <2> QED BY <1>6, <1>7, <1>13, <2>1, <2>2, <2>3
<1>14. CASE \E q \in Peers : BlockPeer(q) \/ UnblockPeer(q)
  <2>1. WrittenTime(clock) \in Nat
    BY <1>1 DEF WrittenTime
  <2> QED BY <1>13, <1>14, <2>1 DEF BlockPeer, UnblockPeer, WritePeerEvent
<1>15. CASE \E q \in Peers, time \in 0 .. MaxTime : WriteNodeEvent(q, time)
  BY <1>13, <1>15, NetworkAssumption DEF WriteNodeEvent
<1>16. CASE \E i \in DOMAIN log : RouteReject(i)
  <2> PICK i \in DOMAIN log : RouteReject(i)
    BY <1>16
  <2> DEFINE ev == Event("REJECT", log[i].who, log[i].seq, messages[log[i].seq].time)
  <2>1. /\ UNCHANGED <<messages, queue, delivered>>
        /\ counter' = counter /\ log' = Append(log, ev)
    BY DEF RouteReject
  <2>2. Lost' = Lost
    BY <2>1 DEF Lost, InFlight
  <2>3. ev \in Line /\ ev.type = "REJECT"
    <3>1. i \in Deliveries
      BY DEF RouteReject, Deliveries
    <3>2. messages[log[i].seq].time \in Nat /\ log[i] \in Line
      BY <1>1, <3>1, LogTypes, MessageTypes
    <3> QED BY <3>2 DEF Event, Line, EventTypes
  <2> HIDE DEF ev
  <2> QED BY <1>7, <2>1, <2>2, <2>3
<1> QED BY <1>8, <1>9, <1>10, <1>11, <1>12, <1>14, <1>15, <1>16 DEF Next

-----------------------------------------------------------------------------
(* Theorems *)

\* The inductive invariant holds in every state of the network.
THEOREM NetworkInvariant == Spec => []Inv
<1> QED BY InvInit, InvStep, PTL DEF Spec

\* Whoever writes to the log, deliveries follow the scheduler's order, a
\* message is late only when its ticks were full, the log is chronological
\* and a running deliver or run_next finds its message (src/network.py).
THEOREM DeliveryOrder ==
    Spec => [](TypeOK /\ DeliveredInKeyOrder /\ LateOnlyWhenFull
               /\ LogIsChronological /\ CallCanReturn)
<1>1. Inv => TypeOK /\ DeliveredInKeyOrder /\ LateOnlyWhenFull
             /\ LogIsChronological /\ CallCanReturn
  BY DEF Inv, Chronicle
<1> QED BY <1>1, NetworkInvariant, PTL

\* A message sent ahead of another is overtaken only by a smaller one, for every
\* limit and all sizes (src/network.py, _try_deliver).
THEOREM SmallerOvertakes == Spec => []OvertakenOnlyBySmaller
<1>1. Init => OvertakenOnlyBySmaller
  BY DEF Init, OvertakenOnlyBySmaller
<1> QED BY <1>1, OvertakingStep, NetworkInvariant, PTL DEF Spec

\* No tick is charged more than the bandwidth limit (_bytes_by_tick).
THEOREM TicksAreNotOvercharged ==
    Spec => [](\A k \in DOMAIN bytes : bytes[k] <= Limit)
<1>1. Inv => \A k \in DOMAIN bytes : bytes[k] <= Limit
  BY DEF Inv, Charged
<1> QED BY <1>1, NetworkInvariant, PTL

\* The messages delivered in one tick fit the bandwidth limit, whatever their
\* sizes and however often they were deferred (src/network.py, _try_deliver).
THEOREM BandwidthIsRespected == Spec => []BandwidthRespected
<1>1. Init => Accounted
  <2> SUFFICES ASSUME Init, NEW k \in Nat PROVE DeliveredBytes(k) <= BytesAt(k)
    BY DEF Accounted
  <2>1. Deliveries = {}
    BY DEF Init, Deliveries, Event
  <2>2. {i \in Deliveries : log[i].time = k} = {}
    BY <2>1
  <2>3. DeliveredBytes(k) = 0
    BY <2>2, SumEmpty DEF DeliveredBytes
  <2> QED BY <2>3 DEF Init, BytesAt
<1>2. Inv /\ Accounted => BandwidthRespected
  <2> SUFFICES ASSUME Inv, Accounted, NEW i \in Deliveries
               PROVE  DeliveredBytes(log[i].time) <= Limit
    BY DEF BandwidthRespected
  <2> DEFINE k == log[i].time
  <2>1. k \in Nat /\ IsFiniteSet(DeliveredAt(k)) /\ DeliveredSize \in [Deliveries -> Nat]
    BY LogTypes, DeliveredTypes DEF Inv, Deliveries
  <2> HIDE DEF k
  <2>2. DeliveredBytes(k) \in Nat /\ DeliveredBytes(k) <= BytesAt(k)
    BY <2>1, SumIsNat DEF DeliveredBytes, DeliveredSize, DeliveredAt, Accounted
  <2>3. BytesAt(k) \in Nat /\ BytesAt(k) <= Limit /\ Limit \in Nat
    BY NetworkAssumption DEF Inv, TypeOK, Charged, BytesAt
  <2> QED BY <2>2, <2>3 DEF k
<1> QED BY <1>1, <1>2, AccountedStep, NetworkInvariant, PTL DEF Spec

\* With the log to itself the network loses no message.
THEOREM NoLoss == ASSUME ~ SharedLog, ~ NodeEvents PROVE Spec => []NothingLost
<1>1. Inv => NothingLost
  BY DEF Inv, Unshared
<1> QED BY <1>1, NetworkInvariant, PTL

\* Whoever writes to the log, at whatever times and with whatever failures, a
\* message is lost only together with a number of the runner that no line has
\* (src/network.py, _try_deliver; src/router.py, _reject; src/scenario.py).
THEOREM LossIsVisible == Spec => []NoSilentLoss
<1>1. Init => NoSilentLoss
  <2> SUFFICES ASSUME Init PROVE NoSilentLoss
    OBVIOUS
  <2>1. /\ DOMAIN log = {1} /\ Len(log) = 1 /\ log[1].type = "SCENARIO_START"
        /\ messages = <<>> /\ counter = 1
    BY DEF Init, Event
  <2>2. Lost = {} /\ Rejections = {}
    BY <2>1 DEF Lost, Rejections
  <2> QED BY <2>1, <2>2, FS_EmptySet DEF NoSilentLoss, UnwrittenNumbers
<1> QED BY <1>1, LossStep, NetworkInvariant, PTL DEF Spec

\* With the log to itself the network implements Delivery: a step of the queue
\* sends, delivers, lets time pass, or is invisible.
THEOREM ImplementsDelivery == ASSUME ~ SharedLog, ~ NodeEvents PROVE Spec => DeliverySpec
<1> DEFINE Due(e) == [seq |-> e.seq, due |-> messages[e.seq].time]
           due == {Due(e) : e \in queue}
<1>1. Init => Abstract!Init
  BY DEF Init, Abstract!Init
<1>2. Inv /\ Inv' /\ [Next]_vars => [Abstract!Next]_(Abstract!vars)
  <2> SUFFICES ASSUME Inv, Inv', Next
               PROVE  Abstract!Next \/ UNCHANGED <<clock, due, delivered>>
    BY DEF vars, Abstract!vars
  <2>1. CASE \E p \in Peers, size \in Sizes, time \in 0 .. MaxTime : Send(p, size, time)
    <3> PICK p \in Peers, size \in Sizes, time \in 0 .. MaxTime : Send(p, size, time)
      BY <2>1
    <3> DEFINE n == Len(messages) + 1
               m == [sender |-> p, size |-> size, time |-> time]
               new == [seq |-> n, due |-> time]
    <3>1. /\ messages \in Seq(Message) /\ m \in Message /\ messages' = Append(messages, m)
          /\ queue' = queue \cup {[time |-> time, seq |-> n]}
          /\ clock <= time /\ UNCHANGED <<clock, delivered>>
      BY NetworkAssumption DEF Inv, TypeOK, Send, NewSeq, Message
    <3>2. messages'[n] = m /\ n \notin DOMAIN messages
          /\ \A s \in DOMAIN messages : messages'[s] = messages[s]
      BY <3>1
    <3>3. \A e \in queue : e.seq \in DOMAIN messages
      BY MessageTypes DEF Inv
    <3>4. due' = due \cup {new}
      <4> DEFINE key == [time |-> time, seq |-> n]
      <4>1. \A e \in queue : messages'[e.seq] = messages[e.seq]
        BY <3>2, <3>3
      <4>2. new = [seq |-> key.seq, due |-> messages'[key.seq].time]
        BY <3>2
      <4>3. queue' = queue \cup {key}
        BY <3>1
      <4> HIDE DEF new, key, m, n
      <4> QED BY <4>1, <4>2, <4>3
    <3>5. n \notin {f.seq : f \in due} \cup delivered
      BY <3>2, <3>3 DEF Inv, TypeOK
    <3>6. new \in due' /\ new.due = time /\ new.seq = n
      BY <3>4
    <3> QED BY <3>1, <3>4, <3>5, <3>6 DEF Abstract!Next, Abstract!Send
  <2>2. CASE \/ RunNext \/ (\E seq \in DOMAIN messages : Deliver(seq))
             \/ (\E p \in Peers : BlockPeer(p) \/ UnblockPeer(p))
             \/ (\E p \in Peers, time \in 0 .. MaxTime : WriteNodeEvent(p, time))
             \/ (\E i \in DOMAIN log : RouteReject(i))
    BY <2>2 DEF RunNext, Deliver, BlockPeer, UnblockPeer, WritePeerEvent, WriteNodeEvent, RouteReject
  <2>3. CASE PopAndDefer
    <3>1. PICK e \in queue, tick \in {j + 1 : j \in DOMAIN bytes} :
            clock' = e.time /\ Requeue(e, tick) /\ UNCHANGED <<messages, delivered>>
      BY <2>3 DEF PopAndDefer
    <3>2. due' = due
      <4> DEFINE moved == [time |-> tick, seq |-> e.seq]
      <4>1. queue' = (queue \ {e}) \cup {moved} /\ moved.seq = e.seq
        BY <3>1 DEF Requeue
      <4> HIDE DEF moved
      <4> QED BY <3>1, <4>1
    <3>3. clock' \in Nat /\ clock <= clock'
      BY <3>1 DEF Inv, TypeOK, Waiting
    <3> QED BY <3>1, <3>2, <3>3 DEF Abstract!Next, Abstract!Tick, Abstract!TimePasses
  <2>4. CASE PopAndDeliver
    <3>1. PICK e \in queue : /\ Pop(e) /\ messages' = messages
                             /\ delivered' = delivered \cup {e.seq}
      BY <2>4 DEF PopAndDeliver
    <3>2. /\ clock' = e.time /\ clock <= e.time /\ e.time \in Nat
          /\ queue' = queue \ {e} /\ messages[e.seq].time <= e.time
      BY <3>1, PopStep
    <3>3. due' = due \ {Due(e)}
      BY <3>1, <3>2 DEF Inv, Waiting
    <3>4. Due(e) \in due /\ Due(e).seq = e.seq /\ Due(e).due <= clock'
      BY <3>2
    <3> QED BY <3>1, <3>2, <3>3, <3>4 DEF Abstract!Next, Abstract!Deliver, Abstract!TimePasses
  <2>5. ~ PopAndFail
    <3> SUFFICES ASSUME PopAndFail PROVE FALSE
      OBVIOUS
    <3>1. PICK e \in queue : /\ Pop(e) /\ UNCHANGED <<messages, delivered>>
                             /\ ~ Accepts(WrittenTime(messages[e.seq].time))
      BY DEF PopAndFail
    <3>2. messages[e.seq].time \in Nat /\ lastTime \in Nat
      BY MessageTypes DEF Inv, TypeOK
    <3>3. WrittenTime(messages[e.seq].time) \in Nat /\ lastTime <= WrittenTime(messages[e.seq].time)
      BY <3>2 DEF WrittenTime
    <3> QED BY <3>1, <3>3, AloneAccepts
  <2> QED BY <2>1, <2>2, <2>3, <2>4, <2>5 DEF Next
<1> QED BY <1>1, <1>2, NetworkInvariant, PTL DEF Spec, DeliverySpec
=============================================================================
