------------------------------ MODULE Network ------------------------------
(***************************************************************************)
(* The deterministic simulated network: Network over Scheduler, writing to *)
(* the EventLog (src/network.py, src/scheduler.py, src/event_log.py), with *)
(* the event numbers of ScenarioRunner and the REJECT events of            *)
(* MessageRouter (src/scenario.py, src/router.py).                         *)
(*                                                                         *)
(* Everything runs in one thread.  A call that pops the queue (run_next,   *)
(* deliver) is a loop; the variable call holds what the running call waits *)
(* for, and nothing else happens until it returns.  An exception ends the  *)
(* call and leaves what was done before it.  Every envelope comes from     *)
(* send, so the SEND events not yet written are those of the queue.        *)
(***************************************************************************)
EXTENDS Integers, Sequences, FiniteSets

CONSTANTS
    Peers,          \* node ids
    Sizes,          \* payload sizes, in bytes
    Limit,          \* bandwidth_limit_bytes_per_tick
    SharedLog,      \* a router writes to the same EventLog
    NodeEvents,     \* so do the drivers, for events of nodes such as CRASH
    MaxTime,        \* bound on the logical times given to send
    MaxMessages,    \* bound on the messages sent
    MaxEvents       \* bound on the other events, written or failed

ASSUME NetworkAssumption ==
    /\ Sizes \subseteq Nat \ {0}
    /\ Limit \in Nat \ {0}
    /\ SharedLog \in BOOLEAN /\ NodeEvents \in BOOLEAN
    /\ MaxTime \in Nat /\ MaxMessages \in Nat /\ MaxEvents \in Nat

Idle       == 0
AnyMessage == -1

VARIABLES
    clock,          \* Scheduler._logical_time
    queue,          \* Scheduler._active: the keys [time, seq] of the envelopes
    bytes,          \* _bytes_by_tick, at the ticks that have an entry
    messages,       \* what was sent: messages[seq] = [sender, size, time]
    delivered,      \* _delivered_sequences
    call,           \* Idle, AnyMessage in run_next, or the sequence deliver waits for
    lastTime,       \* _last_event_logical_time
    counter,        \* ScenarioRunner._event_no
    log             \* the EventLog's lines

vars == <<clock, queue, bytes, messages, delivered, call, lastTime, counter, log>>

-----------------------------------------------------------------------------
(* The event log *)

\* who is the sender of the message, or the peer blocked.
Event(type, who, seq, time) == [type |-> type, who |-> who, seq |-> seq, time |-> time]

OtherEvents == {i \in DOMAIN log : log[i].type \notin {"SEND", "DELIVER"}}

\* EventLog.write_event accepts the runner's next number only if it is the
\* number of the next line.
NumbersAgree == counter = Len(log)

\* Nor does it accept a time before that of the last line.
Accepts(time) == NumbersAgree /\ log[Len(log)].time <= time

\* Another event may be written: a bound on the lines and on the failed writes.
MayWrite == /\ call = Idle
            /\ Cardinality(OtherEvents) <= MaxEvents
            /\ counter <= Len(log) + MaxEvents

NotLifted(time) == time                      \* mutant of WrittenTime

\* _write_event lifts the time of an event to that of the last one.
WrittenTime(time) == IF time >= lastTime THEN time ELSE lastTime

\* ScenarioRunner.load writes SCENARIO_START with number 1.
Init ==
    /\ clock = 0
    /\ queue = {}
    /\ bytes = [k \in {} |-> 0]
    /\ messages = <<>>
    /\ delivered = {}
    /\ call = Idle
    /\ lastTime = 0
    /\ counter = 1
    /\ log = <<Event("SCENARIO_START", "system", 0, 0)>>

-----------------------------------------------------------------------------
(* Sending *)

OldSeq == Len(messages)                      \* mutant of NewSeq

\* _next_insertion_seq, which counts from 1 here.
NewSeq == Len(messages) + 1

\* send: a message that fits one tick, not in the past; SEND is logged later.
Send(p, size, time) ==
    /\ call = Idle
    /\ Len(messages) < MaxMessages
    /\ size <= Limit
    /\ clock <= time
    /\ messages' = Append(messages, [sender |-> p, size |-> size, time |-> time])
    /\ queue' = queue \cup {[time |-> time, seq |-> NewSeq]}
    /\ UNCHANGED <<clock, bytes, delivered, call, lastTime, counter, log>>

-----------------------------------------------------------------------------
(* Delivery *)

\* Mutant of Before: the sequence breaks ties the wrong way round.
LastSentFirst(e, f) == e.time < f.time \/ (e.time = f.time /\ e.seq > f.seq)

\* Envelope.ordering_key: time first, then the insertion sequence.
Before(e, f) == e.time < f.time \/ (e.time = f.time /\ e.seq < f.seq)

\* The head of the scheduler's heap.
IsHead(e) == \A f \in queue \ {e} : Before(e, f)

BytesAt(k) == IF k \in DOMAIN bytes THEN bytes[k] ELSE 0

FitsAlone(tick, size) == size <= Limit       \* mutant of HasRoom

\* Mutant of HasRoom: a message that fills the tick does not fit.
HasRoomToSpare(tick, size) == BytesAt(tick) + size < Limit

HasRoom(tick, size) == BytesAt(tick) + size <= Limit

\* _earliest_delivery_tick, for a tick without room: the next one with room.
IsEarliestTick(time, size, tick) ==
    /\ HasRoom(tick, size)
    /\ \A j \in time .. tick - 1 : ~ HasRoom(j, size)

RunNext ==
    /\ call = Idle
    /\ queue # {}
    /\ call' = AnyMessage
    /\ UNCHANGED <<clock, queue, bytes, messages, delivered, lastTime, counter, log>>

\* deliver of an envelope that send returned.  If it was deferred meanwhile its
\* key is used up, and if it was delivered it is refused: an error, no change.
Deliver(seq) ==
    /\ call = Idle
    /\ seq \notin delivered
    /\ [time |-> messages[seq].time, seq |-> seq] \in queue
    /\ call' = seq
    /\ UNCHANGED <<clock, queue, bytes, messages, delivered, lastTime, counter, log>>

Dropped(e, tick) == queue' = queue \ {e}     \* mutant of Requeue

Requeue(e, tick) == queue' = (queue \ {e}) \cup {[time |-> tick, seq |-> e.seq]}

\* Scheduler.pop in _pop_and_deliver_one, when the tick of the head is full:
\* the envelope goes back into the queue, and the loop continues.
PopAndDefer ==
    \E e \in queue, tick \in {j + 1 : j \in DOMAIN bytes} :
        /\ call # Idle
        /\ IsHead(e)
        /\ ~ HasRoom(e.time, messages[e.seq].size)
        /\ e.time < tick
        /\ IsEarliestTick(e.time, messages[e.seq].size, tick)
        /\ clock' = e.time
        /\ Requeue(e, tick)
        /\ UNCHANGED <<bytes, messages, delivered, call, lastTime, counter, log>>

\* The head is popped and charged to its tick, which has room.
Pop(e) ==
    /\ call # Idle
    /\ IsHead(e)
    /\ HasRoom(e.time, messages[e.seq].size)
    /\ clock' = e.time
    /\ queue' = queue \ {e}
    /\ bytes' = [k \in DOMAIN bytes \cup {e.time} |->
                   IF k = e.time THEN BytesAt(k) + messages[e.seq].size ELSE bytes[k]]

\* _try_deliver with room in the tick: SEND, at the time of send, and DELIVER.
PopAndDeliver ==
    \E e \in queue :
        LET who == messages[e.seq].sender
            send == Event("SEND", who, e.seq, WrittenTime(messages[e.seq].time))
            deliver == Event("DELIVER", who, e.seq, WrittenTime(e.time)) IN
        /\ Pop(e)
        /\ Accepts(send.time)
        /\ delivered' = delivered \cup {e.seq}
        /\ log' = Append(Append(log, send), deliver)
        /\ counter' = counter + 2
        /\ lastTime' = WrittenTime(e.time)
        /\ call' = IF call \in {AnyMessage, e.seq} THEN Idle ELSE call
        /\ UNCHANGED messages

\* The same, when writing SEND raises NON_MONOTONIC_EVENT_NO, or
\* NON_MONOTONIC_LOGICAL_TIME because another writer's line is later.
PopAndFail ==
    \E e \in queue :
        /\ Pop(e)
        /\ ~ Accepts(WrittenTime(messages[e.seq].time))
        /\ counter' = counter + 1
        /\ lastTime' = WrittenTime(messages[e.seq].time)
        /\ call' = Idle
        /\ UNCHANGED <<messages, delivered, log>>

-----------------------------------------------------------------------------
(* Other events *)

\* block_peer and unblock_peer write an event, at the scheduler's time.
WritePeerEvent(p, type) ==
    /\ MayWrite
    /\ counter' = counter + 1
    /\ lastTime' = WrittenTime(clock)
    /\ log' = IF Accepts(WrittenTime(clock))
              THEN Append(log, Event(type, p, 0, WrittenTime(clock)))
              ELSE log
    /\ UNCHANGED <<clock, queue, bytes, messages, delivered, call>>

BlockPeer(p) == WritePeerEvent(p, "PEER_BLOCK")
UnblockPeer(p) == WritePeerEvent(p, "PEER_UNBLOCK")

\* MessageRouter._reject of a delivered message.  The number is the log's own,
\* the runner's counter does not move; the time is that of the envelope, which
\* the drivers have from send, and if it is over, write_event raises.
RouteReject(i) ==
    /\ SharedLog
    /\ MayWrite
    /\ log[i].type = "DELIVER"
    /\ messages[log[i].seq].time >= log[Len(log)].time
    /\ log' = Append(log, Event("REJECT", log[i].who, log[i].seq, messages[log[i].seq].time))
    /\ UNCHANGED <<clock, queue, bytes, messages, delivered, call, lastTime, counter>>

\* simulate_crash, simulate_restart and the drivers' own events: with a number
\* of the runner, at any time the caller names, and unknown to _write_event.
WriteNodeEvent(p, time) ==
    /\ NodeEvents
    /\ MayWrite
    /\ counter' = counter + 1
    /\ log' = IF Accepts(time) THEN Append(log, Event("NODE", p, 0, time)) ELSE log
    /\ UNCHANGED <<clock, queue, bytes, messages, delivered, call, lastTime>>

-----------------------------------------------------------------------------
Next ==
    \/ \E p \in Peers, size \in Sizes, time \in 0 .. MaxTime : Send(p, size, time)
    \/ RunNext
    \/ \E seq \in DOMAIN messages : Deliver(seq)
    \/ PopAndDefer
    \/ PopAndDeliver
    \/ PopAndFail
    \/ \E p \in Peers : BlockPeer(p) \/ UnblockPeer(p)
    \/ \E p \in Peers, time \in 0 .. MaxTime : WriteNodeEvent(p, time)
    \/ \E i \in DOMAIN log : RouteReject(i)

Spec == Init /\ [][Next]_vars

\* Network.run: the queue is drained, and a running call goes on.
FairSpec == Spec /\ WF_vars(RunNext) /\ WF_vars(PopAndDefer) /\ WF_vars(PopAndDeliver)
=============================================================================
