----------------------------- MODULE AtomicLog ------------------------------
(***************************************************************************)
(* What the emission path promises a sink, with nothing of how it is done: *)
(* a packet is given its number and its time and shown to every registered *)
(* sink in one indivisible step, and sinks come and go between packets.    *)
(* On9logCore, where this takes a lock, a copy of the sink table and a     *)
(* callback per sink and chunk, implements it (DeliveryIsAtomic there).    *)
(***************************************************************************)
EXTENDS Integers

CONSTANTS
    Task,      \* who writes packets
    Sink,      \* who may be registered
    SeqMod,    \* sequence numbers are 0 .. SeqMod-1
    MaxTime,   \* bound: last clock value
    NoTask

VARIABLES
    registered,  \* the sinks in the table
    next,        \* number of the next numbered packet
    clock,       \* the time
    last,        \* sink -> the packet it was shown last
    stamp        \* sink -> the latest time of emission it was shown

vars == <<registered, next, clock, last, stamp>>

Shown(type, t, n) == [type |-> type, by |-> t, seq |-> n]

\* A sink has been shown nothing since it was registered.
Nothing == Shown("LOG", NoTask, 0)

Init ==
    /\ registered = {}
    /\ next = 0
    /\ clock = 0
    /\ last = [s \in Sink |-> Nothing]
    /\ stamp = [s \in Sink |-> 0]

\* Every registered sink is shown the packet; its time too, when it has one.
Show(packet, timed) ==
    /\ UNCHANGED <<registered, clock>>
    /\ last' = [s \in Sink |-> IF s \in registered THEN packet ELSE last[s]]
    /\ stamp' = [s \in Sink |-> IF timed /\ s \in registered THEN clock ELSE stamp[s]]

\* A LOG packet that waited in a ring keeps the time of its event.
DeliverNumbered(t) ==
    /\ next' = (next + 1) % SeqMod
    /\ \E type \in {"LOG", "BUFFER", "DROPPED", "BOOT"}, timed \in BOOLEAN :
          /\ type # "LOG" => timed
          /\ Show(Shown(type, t, next), timed)

\* TIME_SYNC is outside the sequence and carries its own time.
DeliverTimeSync(t) ==
    /\ Show(Shown("TIME_SYNC", t, 0), FALSE)
    /\ UNCHANGED next

Register(s) ==
    /\ s \notin registered
    /\ registered' = registered \cup {s}
    /\ UNCHANGED <<next, clock, last, stamp>>

Unregister(s) ==
    /\ s \in registered
    /\ registered' = registered \ {s}
    /\ last' = [last EXCEPT ![s] = Nothing]
    /\ stamp' = [stamp EXCEPT ![s] = 0]
    /\ UNCHANGED <<next, clock>>

Tick ==
    /\ clock < MaxTime
    /\ clock' = clock + 1
    /\ UNCHANGED <<registered, next, last, stamp>>

Next ==
    \/ \E t \in Task : DeliverNumbered(t) \/ DeliverTimeSync(t)
    \/ \E s \in Sink : Register(s) \/ Unregister(s)
    \/ Tick

Spec == Init /\ [][Next]_vars
=============================================================================
