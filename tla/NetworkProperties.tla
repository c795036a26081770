------------------------- MODULE NetworkProperties -------------------------
(***************************************************************************)
(* What the simulated network must guarantee, stated over Network.         *)
(***************************************************************************)
EXTENDS Network, Functions

EventTypes == {"SCENARIO_START", "SEND", "DELIVER", "PEER_BLOCK", "PEER_UNBLOCK",
               "NODE", "REJECT"}

\* A line of the log.
Line == [type : EventTypes, who : Peers \cup {"system"}, seq : Nat, time : Nat]

Message == [sender : Peers, size : Sizes, time : Nat]

TypeOK ==
    /\ clock \in Nat /\ lastTime \in Nat /\ counter \in Nat
    /\ queue \subseteq [time : Nat, seq : DOMAIN messages]
    /\ DOMAIN bytes \subseteq Nat /\ \A k \in DOMAIN bytes : bytes[k] \in Nat
    /\ messages \in Seq(Message)
    /\ delivered \subseteq DOMAIN messages
    /\ call \in {Idle, AnyMessage} \cup DOMAIN messages
    /\ log \in Seq(Line)

InFlight == {e.seq : e \in queue}

Deliveries == {i \in DOMAIN log : log[i].type = "DELIVER"}

-----------------------------------------------------------------------------
(* Safety *)

\* Every message that was sent is waiting in the scheduler's queue or was
\* delivered, however often _try_deliver took it out of the queue and put it
\* back for lack of bandwidth.
NothingLost == DOMAIN messages = InFlight \cup delivered

\* The DELIVER lines of the log are strictly ordered by (time, seq): deferral
\* and late sends never deliver behind the scheduler's order or twice.
DeliveredInKeyOrder ==
    \A i, j \in Deliveries : i < j => Before(log[i], log[j])

\* Of a message that is lost nothing is left but its entry in messages.
Lost == DOMAIN messages \ (InFlight \cup delivered)

Rejections == {i \in DOMAIN log : log[i].type = "REJECT"}

\* The runner's numbers that no line of the log was written with.
UnwrittenNumbers == counter - (Len(log) - Cardinality(Rejections))

\* Whatever others write to the log, and at whatever times, no message is lost
\* in silence: each lost one has drawn a number of the runner that is missing
\* in the log, because write_event raised after _pop_and_deliver_one had taken
\* the message out of the queue.
NoSilentLoss == Cardinality(Lost) <= UnwrittenNumbers

DeliveredBytes(k) ==
    SumFunctionOnSet([i \in Deliveries |-> messages[log[i].seq].size],
                     {i \in Deliveries : log[i].time = k})

\* The DELIVER lines of one tick carry at most bandwidth_limit_bytes_per_tick
\* bytes: what _try_deliver charges to a tick is what is delivered in it.
BandwidthRespected ==
    \A k \in {log[i].time : i \in Deliveries} : DeliveredBytes(k) <= Limit

\* A message is late only for lack of bandwidth: every tick from the one asked
\* of send up to its delivery was too full for it.
LateOnlyWhenFull ==
    \A i \in Deliveries :
        LET m == messages[log[i].seq] IN
        \A k \in m.time .. log[i].time - 1 : BytesAt(k) + m.size > Limit

\* a was sent ahead of b and asked for no later tick.
SentAhead(a, b) == a < b /\ messages[a].time <= messages[b].time

\* Deferral lets a message overtake only bigger ones: what is delivered while a
\* message sent ahead of it still waits is smaller than that message
\* (_try_deliver and _earliest_delivery_tick).
OvertakenOnlyBySmaller ==
    \A a \in InFlight, b \in delivered :
        SentAhead(a, b) => messages[b].size < messages[a].size

\* Logical time never runs backwards in the log, although the SEND of a
\* deferred message is written after later messages.  As long as the drivers
\* write no events of their own, no line is later than what _write_event lifts
\* to, so that it never raises NON_MONOTONIC_LOGICAL_TIME.
LogIsChronological ==
    /\ \A i, j \in DOMAIN log : i < j => log[i].time <= log[j].time
    /\ ~ NodeEvents => \A i \in DOMAIN log : log[i].time <= lastTime

\* deliver never finds that its envelope "disappeared from scheduler": what
\* the running call waits for is in the queue, and run_next finds something.
CallCanReturn == /\ call = AnyMessage => queue # {}
                 /\ call \notin {Idle, AnyMessage} => call \in InFlight

-----------------------------------------------------------------------------
(* Liveness and refinement *)

\* Every message that was sent is delivered by the drivers' calls of run_next.
AllDelivered ==
    \A seq \in 1 .. MaxMessages : seq \in DOMAIN messages ~> seq \in delivered

\* The queue, whose keys change by deferral, implements the messages in flight
\* of Delivery, with the tick asked of send as the time a message is due.
Abstract == INSTANCE Delivery WITH
    now <- clock,
    inFlight <- {[seq |-> e.seq, due |-> messages[e.seq].time] : e \in queue}

DeliverySpec == Abstract!Init /\ [][Abstract!Next]_(Abstract!vars)
=============================================================================
