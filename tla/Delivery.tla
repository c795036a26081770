------------------------------ MODULE Delivery -----------------------------
(***************************************************************************)
(* What the simulated network promises: a message is in flight from its    *)
(* sending to its delivery, is delivered once, never before it is due, and *)
(* time does not run backwards.                                            *)
(***************************************************************************)
EXTENDS Naturals

VARIABLES
    now,            \* the logical time
    inFlight,       \* messages [seq, due] sent and not yet delivered
    delivered       \* the seq of the messages delivered

vars == <<now, inFlight, delivered>>

Init == now = 0 /\ inFlight = {} /\ delivered = {}

TimePasses == now' \in Nat /\ now <= now'

Send ==
    \E m \in inFlight' :
        /\ now <= m.due
        /\ m.seq \notin {f.seq : f \in inFlight} \cup delivered
        /\ inFlight' = inFlight \cup {m}
        /\ UNCHANGED <<now, delivered>>

Tick == TimePasses /\ UNCHANGED <<inFlight, delivered>>

Deliver ==
    \E m \in inFlight :
        /\ TimePasses
        /\ m.due <= now'
        /\ inFlight' = inFlight \ {m}
        /\ delivered' = delivered \cup {m.seq}

Next == Send \/ Tick \/ Deliver

Spec == Init /\ [][Next]_vars
=============================================================================
