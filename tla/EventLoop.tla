----------------------------- MODULE EventLoop ------------------------------
(***************************************************************************)
(* The goroutine of one generation of a script: Runner.Start of            *)
(* internal/lua/runner.go from the load to its end, with the event channel *)
(* the registry sends to and the mirror the initial states come from.      *)
(*                                                                         *)
(* An event is its topic and its number.  The event router puts a changed  *)
(* state into the mirror, then sends the event; a batch of states that is  *)
(* seeded after a reconnect changes the mirror and sends nothing.  The     *)
(* entities exist throughout.  A step of Lua code is the whole callback:   *)
(* what it does does not matter here, how long it takes does.              *)
(***************************************************************************)
EXTENDS Naturals, Sequences, SequencesExt, FiniteSets

CONSTANTS
    Entities,   \* the topics of state_changed events
    Other,      \* the topic of other Home Assistant events
    Direct,     \* timers, MQTT messages and syslog lines
    MaxEvents,  \* bound: events and re-seeded states
    QueueCap    \* capacity of Runner.ch (256 in the code)

ASSUME EventLoopAssumption ==
    MaxEvents \in Nat /\ QueueCap \in Nat \ {0} /\ Direct \notin Entities

Topics == Entities \cup {Other, Direct}
Events == [topic : Topics, n : 1..MaxEvents]
NoEvent == [topic |-> Direct, n |-> 0]
NoSlot == 0

VARIABLES
    immediate,   \* the script called ha.immediate_events()
    initial,     \* entities whose handler asked for opts.initial
    sent,        \* events and re-seeded states so far, those before the registration included
    mirror,      \* the tracker's state of each entity: the number that wrote it
    sending,     \* the event the router is about to dispatch
    ch, closed,  \* Runner.ch
    cancelled,   \* the runner's context is done
    phase,       \* where Start is
    replay,      \* initial states that deliverInitialStates has still to replay
    pending,     \* the events of the current window
    coalesceIdx, \* entity -> its slot in pending
    flushC,      \* the window's timer is set
    work,        \* the events flush and the event case have still to handle
    last,        \* history variable: the event handed over last
    seen,        \* history variable: the newest thing each entity's handler saw last
    unsaid       \* history variable: entities whose state in the mirror came in a batch of
                 \* Seed, or with an event the channel dropped: nobody tells the script

sendVars == <<sent, mirror, sending>>
chanVars == <<ch, closed>>
batchVars == <<pending, coalesceIdx, flushC>>
optVars == <<immediate, initial>>
ghostVars == <<last, seen, unsaid>>
vars == <<optVars, sendVars, chanVars, cancelled, phase, replay, batchVars, work, ghostVars>>

TypeOK ==
    /\ immediate \in BOOLEAN /\ initial \subseteq Entities
    /\ sent \in 0..MaxEvents /\ mirror \in [Entities -> 0..MaxEvents]
    /\ sending \in Events \cup {NoEvent}
    /\ ch \in Seq(Events) /\ Len(ch) <= QueueCap /\ closed \in BOOLEAN
    /\ cancelled \in BOOLEAN
    /\ phase \in {"load", "replay", "loop", "lua", "callback", "final", "exited"}
    /\ replay \in [Entities -> 0..MaxEvents]
    /\ pending \in Seq(Events)
    /\ coalesceIdx \in [Entities -> Nat] /\ flushC \in BOOLEAN
    /\ \A e \in Entities : coalesceIdx[e] # NoSlot =>
          coalesceIdx[e] \in DOMAIN pending /\ pending[coalesceIdx[e]].topic = e
    /\ work \in Seq(Events)
    /\ last \in Events \cup {NoEvent}
    /\ seen \in [Entities -> 0..MaxEvents] /\ unsaid \subseteq Entities

NoSlots == [e \in Entities |-> NoSlot]

\* Entities have had states before the script is started.
Init ==
    /\ immediate \in BOOLEAN /\ initial \in SUBSET Entities
    /\ sent \in 0..MaxEvents /\ mirror \in [Entities -> 0..sent] /\ sending = NoEvent
    /\ ch = <<>> /\ closed = FALSE /\ cancelled = FALSE
    /\ phase = "load" /\ replay = [e \in Entities |-> 0]
    /\ pending = <<>> /\ coalesceIdx = NoSlots /\ flushC = FALSE
    /\ work = <<>>
    /\ last = NoEvent
    /\ seen = [e \in Entities |-> 0] /\ unsaid = {}

-----------------------------------------------------------------------------
(* The event router, the scheduler and the supervisor *)

\* HandleStateChanged: the mirror first.
Occur(t) ==
    /\ sending = NoEvent /\ sent < MaxEvents
    /\ sent' = sent + 1
    /\ mirror' = [e \in Entities |-> IF e = t THEN sent' ELSE mirror[e]]
    /\ sending' = [topic |-> t, n |-> sent']
    /\ unsaid' = unsaid \ {t}
    /\ UNCHANGED <<optVars, chanVars, cancelled, phase, replay, batchVars, work, last, seen>>

\* Tracker.Seed after a reconnect: the batch has a newer state of an entity.
Reseed(e) ==
    /\ sent < MaxEvents
    /\ sent' = sent + 1
    /\ mirror' = [mirror EXCEPT ![e] = sent']
    /\ unsaid' = unsaid \cup {e}
    /\ UNCHANGED <<optVars, sending, chanVars, cancelled, phase, replay, batchVars, work, last,
                   seen>>

\* Dispatch and Send.  A script that has left the registry is not sent to; a
\* full channel drops the event.
Send ==
    /\ sending # NoEvent
    /\ sending' = NoEvent
    /\ LET fits == ~closed /\ Len(ch) < QueueCap IN
         /\ ch' = IF fits THEN Append(ch, sending) ELSE ch
         /\ unsaid' = IF fits THEN unsaid ELSE unsaid \cup ({sending.topic} \cap Entities)
    /\ UNCHANGED <<optVars, sent, mirror, closed, cancelled, phase, replay, batchVars, work,
                   last, seen>>

\* StopScript closes the channel, ...
Close ==
    /\ ~closed
    /\ closed' = TRUE
    /\ UNCHANGED <<optVars, sendVars, ch, cancelled, phase, replay, batchVars, work, ghostVars>>

\* ... and cancels the context if that takes too long; so does a shutdown.
Cancel ==
    /\ ~cancelled
    /\ cancelled' = TRUE
    /\ UNCHANGED <<optVars, sendVars, chanVars, phase, replay, batchVars, work, ghostVars>>

-----------------------------------------------------------------------------
(* Start *)

\* The main chunk returns, fails or is aborted; deliverInitialStates reads
\* the mirror, which tells what no older event of the entity follows.
Load ==
    /\ phase = "load"
    /\ phase' = "replay"
    /\ replay' = [e \in Entities |-> IF e \in initial THEN mirror[e] ELSE 0]
    /\ unsaid' = {e \in unsaid : \E ev \in ToSet(ch) \cup {sending} : ev.topic = e}
    /\ UNCHANGED <<optVars, sendVars, chanVars, cancelled, batchVars, work, last, seen>>

Replay(e) ==
    /\ phase = "replay" /\ replay[e] # 0
    /\ replay' = [replay EXCEPT ![e] = 0]
    /\ seen' = [seen EXCEPT ![e] = replay[e]]
    /\ UNCHANGED <<optVars, sendVars, chanVars, cancelled, phase, batchVars, work, last,
                   unsaid>>

EnterLoop ==
    /\ phase = "replay" /\ \A e \in Entities : replay[e] = 0
    /\ phase' = "loop"
    /\ UNCHANGED <<optVars, sendVars, chanVars, cancelled, replay, batchVars, work, ghostVars>>

\* flush, then the events of rest: what the window holds is handled first, in
\* its order.  The mutants forget the slots and swap the two.
Flush_KeepSlots(rest) ==
    /\ work' = pending \o rest
    /\ pending' = <<>> /\ flushC' = FALSE
    /\ UNCHANGED coalesceIdx

Flush_After(rest) ==
    /\ work' = rest \o pending
    /\ pending' = <<>> /\ coalesceIdx' = NoSlots /\ flushC' = FALSE

Flush(rest) ==
    /\ work' = pending \o rest
    /\ pending' = <<>> /\ coalesceIdx' = NoSlots /\ flushC' = FALSE

\* An event that is not batched: the window is flushed, then it is handled.
TakeDirect ==
    /\ phase = "loop" /\ ch # <<>>
    /\ immediate \/ Head(ch).topic = Direct
    /\ ch' = Tail(ch)
    /\ Flush(<<Head(ch)>>)
    /\ phase' = "lua"
    /\ UNCHANGED <<optVars, sendVars, closed, cancelled, replay, ghostVars>>

\* A state of an entity that is in the window takes the slot of the older one.
Overwrite_Older(slot, ev) == pending
Overwrite(slot, ev) == [pending EXCEPT ![slot] = ev]

Coalesce ==
    /\ phase = "loop" /\ ch # <<>> /\ ~immediate
    /\ LET ev == Head(ch) IN
         /\ ev.topic \in Entities /\ coalesceIdx[ev.topic] # NoSlot
         /\ pending' = Overwrite(coalesceIdx[ev.topic], ev)
    /\ ch' = Tail(ch)
    /\ UNCHANGED <<optVars, sendVars, closed, cancelled, phase, replay, coalesceIdx, flushC,
                   work, ghostVars>>

\* The first event of a window starts its timer.
Window_States(ev) == flushC \/ ev.topic \in Entities
Window(ev) == TRUE

Batch ==
    /\ phase = "loop" /\ ch # <<>> /\ ~immediate
    /\ LET ev == Head(ch) IN
         /\ ev.topic # Direct
         /\ ev.topic \in Entities => coalesceIdx[ev.topic] = NoSlot
         /\ coalesceIdx' = [e \in Entities |->
                              IF e = ev.topic THEN Len(pending) + 1 ELSE coalesceIdx[e]]
         /\ pending' = Append(pending, ev)
         /\ flushC' = Window(ev)
    /\ ch' = Tail(ch)
    /\ UNCHANGED <<optVars, sendVars, closed, cancelled, phase, replay, work, ghostVars>>

\* batchWindow has passed.
WindowEnds ==
    /\ phase = "loop" /\ flushC
    /\ Flush(<<>>)
    /\ phase' = "lua"
    /\ UNCHANGED <<optVars, sendVars, chanVars, cancelled, replay, ghostVars>>

\* The channel is closed and empty: the last window, then the end.
Drained ==
    /\ phase = "loop" /\ closed /\ ch = <<>>
    /\ Flush(<<>>)
    /\ phase' = "final"
    /\ UNCHANGED <<optVars, sendVars, chanVars, cancelled, replay, ghostVars>>

\* handleEvent: the callbacks of one event, aborted once the context is done.
Handle ==
    /\ phase \in {"lua", "final"} /\ work # <<>>
    /\ LET ev == Head(work) IN
         /\ last' = ev
         /\ seen' = [e \in Entities |-> IF e = ev.topic THEN ev.n ELSE seen[e]]
    /\ work' = Tail(work)
    /\ UNCHANGED <<optVars, sendVars, chanVars, cancelled, phase, replay, batchVars, unsaid>>

Handled ==
    /\ phase \in {"lua", "final"} /\ work = <<>>
    /\ phase' = IF phase = "lua" THEN "loop" ELSE "exited"
    /\ UNCHANGED <<optVars, sendVars, chanVars, cancelled, replay, batchVars, work, ghostVars>>

\* A UI request or the failure of an asynchronous call is handled.
OtherCallback ==
    /\ phase = "loop"
    /\ phase' = "callback"
    /\ UNCHANGED <<optVars, sendVars, chanVars, cancelled, replay, batchVars, work, ghostVars>>

CallbackReturns ==
    /\ phase = "callback"
    /\ phase' = "loop"
    /\ UNCHANGED <<optVars, sendVars, chanVars, cancelled, replay, batchVars, work, ghostVars>>

CtxExit ==
    /\ phase = "loop" /\ cancelled
    /\ phase' = "exited"
    /\ UNCHANGED <<optVars, sendVars, chanVars, cancelled, replay, batchVars, work, ghostVars>>

TakeEvent == TakeDirect \/ Coalesce \/ Batch \/ Drained

Next ==
    \/ \E t \in Topics : Occur(t)
    \/ \E e \in Entities : Reseed(e)
    \/ Send \/ Close \/ Cancel
    \/ Load \/ (\E e \in Entities : Replay(e)) \/ EnterLoop
    \/ TakeEvent \/ WindowEnds \/ Handle \/ Handled
    \/ OtherCallback \/ CallbackReturns \/ CtxExit

Spec == Init /\ [][Next]_vars

\* A select takes each case that is ready again and again (strong fairness).
\* Lua code need not return before its context is done.
LuaReturns == Load \/ (\E e \in Entities : Replay(e)) \/ Handle \/ CallbackReturns

Fairness ==
    /\ SF_vars(TakeEvent) /\ SF_vars(WindowEnds) /\ SF_vars(CtxExit)
    /\ WF_vars(EnterLoop) /\ WF_vars(Handled)
    /\ WF_vars(cancelled /\ LuaReturns)

FairSpec == Spec /\ Fairness

-----------------------------------------------------------------------------
(* Properties *)

Box == ToSet(ch) \cup ToSet(pending) \cup ToSet(work)

\* The loop implements what Mailbox promises: events are handed over once and
\* in order, newer states replace older ones, and an event of a batch never
\* overtakes one that is delivered directly, nor the reverse (runner.go:401).
Mail == INSTANCE Mailbox WITH box <- Box, accepting <- ~closed
ImplementsMailbox == Mail!MailSpec

\* Once a script is idle its handler has last seen the state the mirror has,
\* if it asked for the initial one, however the load, the replay, the changes
\* and the batches interleave.  Two windows are known: the last change of the
\* entity came in a batch seeded after a reconnect, which no event tells of, or
\* the full channel dropped its event; the next event closes both.
SeesNewest ==
    phase = "loop" /\ Box = {} /\ sending = NoEvent =>
        \A e \in initial \ unsaid : seen[e] = mirror[e]

\* If Lua code keeps returning the script catches up with what it accepted,
\* the end of the script included, unless its context is done first.
CatchesUp ==
    []<>(phase \in {"loop", "exited"}) => []<>(Box = {} \/ cancelled)

=============================================================================
