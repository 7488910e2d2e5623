------------------------------ MODULE Mailbox -------------------------------
(***************************************************************************)
(* What a script may rely on about the events it is handed, as lua_api.md  *)
(* (on_state_change, immediate_events, every, mqtt.subscribe) describes    *)
(* it; module EventLoop is shown to implement it.                          *)
(*                                                                         *)
(* An accepted event waits in a box.  It is handed to the script, or a     *)
(* newer state of its entity takes its place, but never past an event that *)
(* is delivered directly.  Nothing else leaves the box.                    *)
(***************************************************************************)
EXTENDS Naturals

CONSTANTS
    Entities,   \* the topics of state_changed events
    Other,      \* the topic of other Home Assistant events
    Direct,     \* timers, MQTT messages and syslog lines
    MaxEvents

Topics == Entities \cup {Other, Direct}
Events == [topic : Topics, n : 1..MaxEvents]
NoEvent == [topic |-> Direct, n |-> 0]

VARIABLES
    immediate,  \* the script called ha.immediate_events()
    box,        \* accepted events that wait, numbered in the order of arrival
    last,       \* the event that was handed over last
    accepting   \* the script is not stopped

mailVars == <<immediate, box, last, accepting>>

MailInit ==
    /\ immediate \in BOOLEAN
    /\ box = {} /\ last = NoEvent /\ accepting = TRUE

Accept(ev) ==
    /\ accepting
    /\ ev.n > last.n /\ \A f \in box : ev.n > f.n
    /\ box' = box \cup {ev}
    /\ UNCHANGED <<immediate, last, accepting>>

\* old is not handed over: new is the newer state of its entity.
Supersede(old, new) ==
    /\ ~immediate
    /\ old.topic = new.topic /\ old.topic \in Entities /\ old.n < new.n
    /\ ~\E f \in box : f.topic = Direct /\ old.n < f.n /\ f.n < new.n
    /\ box' = box \ {old}
    /\ UNCHANGED <<immediate, last, accepting>>

\* A state that took the place of an older one may come before events of its
\* batch that arrived in between; otherwise events are handed over in order.
InTurn(ev) ==
    \A f \in box : f.n < ev.n =>
        ~immediate /\ ev.topic \in Entities /\ f.topic \notin {ev.topic, Direct}

Deliver(ev) ==
    /\ InTurn(ev)
    /\ box' = box \ {ev}
    /\ last' = ev
    /\ UNCHANGED <<immediate, accepting>>

Stop ==
    /\ accepting' = FALSE
    /\ UNCHANGED <<immediate, box, last>>

MailNext ==
    \/ \E ev \in Events : Accept(ev)
    \/ \E old, new \in box : Supersede(old, new)
    \/ \E ev \in box : Deliver(ev)
    \/ Stop

MailSpec == MailInit /\ [][MailNext]_mailVars

=============================================================================
