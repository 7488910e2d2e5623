---------------------------- MODULE StateMirror -----------------------------
(***************************************************************************)
(* How Home Assistant's states reach the in-memory mirror and the history  *)
(* table: the connection of internal/ha/client.go, the state-seed and      *)
(* event-router goroutines of cmd/ha-lua/main.go, Tracker.Seed and         *)
(* HandleStateChanged of internal/state/tracker.go and its write-behind    *)
(* goroutine.                                                              *)
(*                                                                         *)
(* Every write or removal of an entity in Home Assistant has a version, as *)
(* its last_updated stamp orders them.  A state is 0 (the entity does not  *)
(* exist) or the version that wrote it; Value says what is compared when   *)
(* the tracker asks whether a state differs from the last known one.       *)
(* NoBatch is the empty list of a get_states that Home Assistant refused;  *)
(* one it answers is never empty (tracker.go:206), for it always has other *)
(* entities than the ones followed here.                                   *)
(***************************************************************************)
EXTENDS Naturals, Sequences, SequencesExt

CONSTANTS
    Entities,
    MaxVersion,   \* bound: changes of one entity
    MaxCrashes,   \* bound: crashes of the process
    EventsCap,    \* capacity of Client.Events
    QueueCap      \* capacity of Tracker.queue

ASSUME StateMirrorAssumption ==
    /\ MaxVersion \in Nat \ {0} /\ MaxCrashes \in Nat
    /\ EventsCap \in Nat \ {0} /\ QueueCap \in Nat \ {0}

VARIABLES
    ha,         \* Home Assistant: the state of each entity
    written,    \* the version of each entity's last change
    link,       \* the WebSocket connection
    answer,     \* the get_states answer on its way
    wire,       \* state_changed events on their way
    states,     \* Client.States: at most one batch
    events,     \* Client.Events
    mem,        \* Tracker.mem: the state of each entity
    seeded,     \* mem holds a batch
    seed,       \* the goroutine that runs Seed
    router,     \* the event-router goroutine
    queue,      \* Tracker.queue
    writer,     \* the write-behind goroutine
    history,    \* the state_history rows, in id order
    stopped,    \* the process context is done
    crashes,
    newest,     \* history variable: the newest version the mirror has heard of
    missed,     \* history variable: entities a change of which never arrived
    refused,    \* history variable: this connection's get_states was refused
    overtaken,  \* history variable: entities an older event was applied to
    dropped     \* history variable: entities with a row in a failed batch

linkVars  == <<link, answer, refused, wire>>
chanVars  == <<states, events>>
memVars   == <<mem, seeded, newest, overtaken>>
storeVars == <<queue, writer, history, dropped>>
vars == <<ha, written, linkVars, chanVars, memVars, seed, router, storeVars, stopped,
          crashes, missed>>

States == 0..MaxVersion
Batches == [states : [Entities -> States], at : [Entities -> States]]
Events == [entity : Entities, version : 1..MaxVersion, state : States]
Rows == [entity : Entities, version : 1..MaxVersion]
NoBatch == [states |-> [e \in Entities |-> 0], at |-> [e \in Entities |-> 0]]
Batched == [full : BOOLEAN, batch : Batches]
Seeds == [at : {"first", "idle", "merge", "append"}, batch : Batches,
          baseline : [Entities -> States], rows : SUBSET Rows]
Routers == [at : {"off", "idle", "enqueue"}, rows : SUBSET Rows]
Writers == [at : {"idle", "commit", "exited"}, batch : Seq(Rows)]

\* Two states look the same to the tracker.
Value(s) == s % 2

TypeOK ==
    /\ ha \in [Entities -> States] /\ written \in [Entities -> States]
    /\ link \in {"down", "asked", "unsubscribed", "live"}
    /\ answer \in Batches
    /\ wire \in Seq(Events)
    /\ states \in Batched
    /\ events \in Seq(Events) /\ Len(events) <= EventsCap
    /\ mem \in [Entities -> States] /\ seeded \in BOOLEAN
    /\ seed \in Seeds /\ router \in Routers /\ writer \in Writers
    /\ queue \in Seq(Rows) /\ Len(queue) <= QueueCap
    /\ history \in Seq(Rows)
    /\ stopped \in BOOLEAN /\ crashes \in 0..MaxCrashes
    /\ newest \in [Entities -> States]
    /\ missed \subseteq Entities /\ overtaken \subseteq Entities /\ refused \in BOOLEAN
    /\ dropped \subseteq Entities

SeedIdle(at) ==
    [at |-> at, batch |-> NoBatch, baseline |-> [e \in Entities |-> 0], rows |-> {}]
NoStates == [full |-> FALSE, batch |-> NoBatch]

\* The state of a process that has just started.
Booted ==
    /\ link' = "down" /\ answer' = NoBatch /\ wire' = <<>>
    /\ states' = NoStates /\ events' = <<>>
    /\ mem' = [e \in Entities |-> 0] /\ seeded' = FALSE
    /\ seed' = SeedIdle("first")
    /\ router' = [at |-> "off", rows |-> {}]
    /\ queue' = <<>> /\ writer' = [at |-> "idle", batch |-> <<>>]
    /\ newest' = [e \in Entities |-> 0]
    /\ missed' = {} /\ overtaken' = {} /\ refused' = FALSE
    /\ stopped' = FALSE

Init ==
    /\ ha \in [Entities -> {0, 1}]
    /\ written = [e \in Entities |-> 1]
    /\ link = "down" /\ answer = NoBatch /\ wire = <<>>
    /\ states = NoStates /\ events = <<>>
    /\ mem = [e \in Entities |-> 0] /\ seeded = FALSE
    /\ seed = SeedIdle("first")
    /\ router = [at |-> "off", rows |-> {}]
    /\ queue = <<>> /\ writer = [at |-> "idle", batch |-> <<>>]
    /\ history = <<>>
    /\ newest = [e \in Entities |-> 0]
    /\ missed = {} /\ overtaken = {} /\ dropped = {} /\ refused = FALSE
    /\ stopped = FALSE /\ crashes = 0

-----------------------------------------------------------------------------
(* Home Assistant (external) and the connection *)

\* An entity is written or removed.  Home Assistant sends the event to a
\* connection that has subscribed; a change between the rendering of a
\* get_states answer and the subscription is in neither.
Change(e, here) ==
    /\ written[e] < MaxVersion
    /\ here \/ ha[e] # 0
    /\ LET v == written[e] + 1
           s == IF here THEN v ELSE 0
       IN /\ written' = [written EXCEPT ![e] = v]
          /\ ha' = [ha EXCEPT ![e] = s]
          /\ wire' = IF link = "live"
                     THEN Append(wire, [entity |-> e, version |-> v, state |-> s])
                     ELSE wire
    /\ missed' = IF link \in {"asked", "unsubscribed"} THEN missed \cup {e} ELSE missed
    /\ UNCHANGED <<link, answer, refused, chanVars, memVars, seed, router, storeVars, stopped,
                   crashes>>

\* connect: dialled and authenticated, get_states sent, and Home Assistant
\* renders its answer, or refuses: getStates does not look at success, and a
\* refusal is an empty list of states.
Connect ==
    /\ link = "down" /\ ~stopped
    /\ link' = "asked"
    /\ \/ answer' = [states |-> ha, at |-> written] /\ refused' = FALSE
       \/ answer' = NoBatch /\ refused' = TRUE
    /\ UNCHANGED <<ha, written, wire, chanVars, memVars, seed, router, storeVars, stopped,
                   crashes, missed>>

\* The answer has arrived; it replaces a batch nobody took.
DeliverStates ==
    /\ link = "asked"
    /\ link' = "unsubscribed"
    /\ states' = [full |-> TRUE, batch |-> answer]
    /\ answer' = NoBatch
    /\ UNCHANGED <<ha, written, refused, wire, events, memVars, seed, router, storeVars, stopped,
                   crashes, missed>>

\* subscribe_events state_changed has reached Home Assistant, and was not refused; one
\* that was, which HaClient has, leaves the link here until it breaks.
Subscribed ==
    /\ link = "unsubscribed"
    /\ link' = "live"
    /\ UNCHANGED <<ha, written, answer, refused, wire, chanVars, memVars, seed, router, storeVars,
                   stopped, crashes, missed>>

\* readLoop: a full Events channel drops the event.
Read_Unbounded ==
    /\ link = "live" /\ wire # <<>>
    /\ wire' = Tail(wire)
    /\ events' = Append(events, Head(wire))
    /\ UNCHANGED <<ha, written, link, answer, refused, states, memVars, seed, router, storeVars,
                   stopped, crashes, missed>>

Read ==
    /\ link = "live" /\ wire # <<>>
    /\ wire' = Tail(wire)
    /\ IF Len(events) < EventsCap
       THEN events' = Append(events, Head(wire)) /\ UNCHANGED missed
       ELSE UNCHANGED events /\ missed' = missed \cup {Head(wire).entity}
    /\ UNCHANGED <<ha, written, link, answer, refused, states, memVars, seed, router, storeVars,
                   stopped, crashes>>

\* The connection is lost; what was on the wire is in the next batch.
Disconnect ==
    /\ link # "down"
    /\ link' = "down"
    /\ answer' = NoBatch /\ wire' = <<>> /\ refused' = FALSE
    /\ UNCHANGED <<ha, written, chanVars, memVars, seed, router, storeVars, stopped, crashes,
                   missed>>

-----------------------------------------------------------------------------
(* Tracker.Seed *)

Cold == ~seeded /\ \A e \in Entities : mem[e] = 0

\* The value of an entity's newest history row, none if it has no row.
RowsOf(e) == {i \in DOMAIN history : history[i].entity = e}
Baseline(e) == IF RowsOf(e) = {} THEN 0 ELSE history[Max(RowsOf(e))].version

\* An empty batch replaces nothing.
SeedIgnores ==
    /\ seed.at \in {"first", "idle"} /\ states.full /\ states.batch = NoBatch /\ ~stopped
    /\ states' = NoStates
    /\ seed' = SeedIdle("idle")
    /\ UNCHANGED <<ha, written, linkVars, events, memVars, router, storeVars, stopped,
                   crashes, missed>>

\* Main waits for the first batch, the state-seed goroutine for the others.
\* Only a cold start reads the baseline from SQLite.
SeedTake ==
    /\ seed.at \in {"first", "idle"} /\ states.full /\ states.batch # NoBatch /\ ~stopped
    /\ states' = NoStates
    /\ seed' = [at |-> "merge", batch |-> states.batch, rows |-> {},
                baseline |-> [e \in Entities |-> IF Cold THEN Baseline(e) ELSE 0]]
    /\ UNCHANGED <<ha, written, linkVars, events, memVars, router, storeVars, stopped,
                   crashes, missed>>

\* The baseline cannot be read: the batch is not installed.
SeedFail ==
    /\ seed.at \in {"first", "idle"} /\ states.full /\ states.batch # NoBatch /\ ~stopped
    /\ Cold
    /\ states' = NoStates
    /\ seed' = SeedIdle("idle")
    /\ UNCHANGED <<ha, written, linkVars, events, memVars, router, storeVars, stopped,
                   crashes, missed>>

NewerThan_Never(a, b) == FALSE
NewerThan(a, b) == a > b

\* The batch has a row to append for e, whose state in it is s: it differs
\* from the live state, or from the baseline when there is no live one.
Differs_Live(e, s) == mem[e] # 0 /\ Value(mem[e]) # Value(s)
Differs(e, s) ==
    IF mem[e] # 0
    THEN Value(mem[e]) # Value(s)
    ELSE seed.baseline[e] = 0 \/ Value(seed.baseline[e]) # Value(s)

\* The merge, under the write lock: entities absent from the batch drop out,
\* a live state newer than the batch's stays.
SeedMerge ==
    /\ seed.at = "merge"
    /\ LET in == seed.batch.states
           live(e) == mem[e] # 0 /\ in[e] # 0 /\ NewerThan(mem[e], in[e])
           older == {e \in Entities : seed.batch.at[e] < newest[e]}
       IN /\ mem' = [e \in Entities |-> IF live(e) THEN mem[e] ELSE in[e]]
          /\ seed' = [seed EXCEPT !.at = "append", !.rows =
                        {[entity |-> e, version |-> in[e]] :
                            e \in {x \in Entities : in[x] # 0 /\ ~live(x) /\ Differs(x, in[x])}}]
          /\ missed' = missed \cup {e \in older : (mem[e] = 0) # (in[e] = 0)}
          /\ newest' = [e \in Entities |->
                          IF e \in older THEN newest[e] ELSE seed.batch.at[e]]
    /\ seeded' = TRUE
    /\ UNCHANGED <<ha, written, linkVars, chanVars, overtaken, router, storeVars, stopped,
                   crashes>>

\* enqueue: a full queue blocks, unless the process is shutting down.
Enqueue_Blocks(row) == Len(queue) < QueueCap /\ queue' = Append(queue, row)
Enqueue(row) ==
    \/ Len(queue) < QueueCap /\ queue' = Append(queue, row)
    \/ Len(queue) >= QueueCap /\ stopped /\ UNCHANGED queue

\* The rows are handed over one by one, outside the lock.
SeedAppend ==
    /\ seed.at = "append"
    /\ \E row \in seed.rows :
         /\ Enqueue(row)
         /\ seed' = [seed EXCEPT !.rows = @ \ {row}]
    /\ UNCHANGED <<ha, written, linkVars, chanVars, memVars, router, writer, history,
                   dropped, stopped, crashes, missed>>

SeedDone ==
    /\ seed.at = "append" /\ seed.rows = {}
    /\ seed' = SeedIdle("idle")
    /\ UNCHANGED <<ha, written, linkVars, chanVars, memVars, router, storeVars, stopped,
                   crashes, missed>>

-----------------------------------------------------------------------------
(* The event router *)

\* Main starts it once the first Seed has returned, with or without success.
StartRouter ==
    /\ router.at = "off" /\ seed.at = "idle"
    /\ router' = [router EXCEPT !.at = "idle"]
    /\ UNCHANGED <<ha, written, linkVars, chanVars, memVars, seed, storeVars, stopped,
                   crashes, missed>>

\* HandleStateChanged: the mirror first.  A removal is not recorded.
Apply ==
    /\ router.at = "idle" /\ events # <<>>
    /\ LET ev == Head(events)
           e == ev.entity
       IN /\ mem' = [mem EXCEPT ![e] = ev.state]
          /\ overtaken' = IF ev.version < newest[e] THEN overtaken \cup {e} ELSE overtaken
          /\ newest' = [newest EXCEPT ![e] = IF ev.version > @ THEN ev.version ELSE @]
          /\ router' = IF ev.state = 0 THEN router
                       ELSE [at |-> "enqueue",
                             rows |-> {[entity |-> e, version |-> ev.version]}]
    /\ events' = Tail(events)
    /\ UNCHANGED <<ha, written, linkVars, states, seeded, seed, storeVars, stopped, crashes,
                   missed>>

\* HandleStateChanged: then the history row.
Record ==
    /\ router.at = "enqueue"
    /\ \E row \in router.rows : Enqueue(row)
    /\ router' = [at |-> "idle", rows |-> {}]
    /\ UNCHANGED <<ha, written, linkVars, chanVars, memVars, seed, writer, history, dropped,
                   stopped, crashes, missed>>

-----------------------------------------------------------------------------
(* The write-behind goroutine *)

\* One batch: everything that is queued.  After ctx.Done it is the last one.
Drain ==
    /\ writer.at = "idle" /\ (queue # <<>> \/ stopped)
    /\ writer' = [at |-> "commit", batch |-> queue]
    /\ queue' = <<>>
    /\ UNCHANGED <<ha, written, linkVars, chanVars, memVars, seed, router, history, dropped,
                   stopped, crashes, missed>>

AfterBatch == [at |-> IF stopped THEN "exited" ELSE "idle", batch |-> <<>>]

\* One transaction.
Commit ==
    /\ writer.at = "commit"
    /\ history' = history \o writer.batch
    /\ writer' = AfterBatch
    /\ UNCHANGED <<ha, written, linkVars, chanVars, memVars, seed, router, queue, dropped,
                   stopped, crashes, missed>>

\* The transaction failed twice: the batch is dropped.
DropBatch ==
    /\ writer.at = "commit" /\ writer.batch # <<>>
    /\ dropped' = dropped \cup {r.entity : r \in ToSet(writer.batch)}
    /\ writer' = AfterBatch
    /\ UNCHANGED <<ha, written, linkVars, chanVars, memVars, seed, router, queue, history,
                   stopped, crashes, missed>>

-----------------------------------------------------------------------------
\* SIGTERM: the connection goes down and is not made again.
Shutdown ==
    /\ ~stopped
    /\ stopped' = TRUE
    /\ link' = "down" /\ answer' = NoBatch /\ wire' = <<>> /\ refused' = FALSE
    /\ UNCHANGED <<ha, written, chanVars, memVars, seed, router, storeVars, crashes, missed>>

\* The process dies, or has stopped, and is started again.
Crash ==
    /\ crashes < MaxCrashes
    /\ crashes' = crashes + 1
    /\ Booted
    /\ UNCHANGED <<ha, written, history, dropped>>

Next ==
    \/ \E e \in Entities, here \in BOOLEAN : Change(e, here)
    \/ Connect \/ DeliverStates \/ Subscribed \/ Read \/ Disconnect
    \/ SeedIgnores \/ SeedTake \/ SeedFail \/ SeedMerge \/ SeedAppend \/ SeedDone
    \/ StartRouter \/ Apply \/ Record
    \/ Drain \/ Commit \/ DropBatch
    \/ Shutdown \/ Crash

Spec == Init /\ [][Next]_vars

\* The goroutines of the tracker are scheduled; a transaction ends.
Fairness ==
    /\ WF_vars(SeedMerge \/ SeedAppend \/ SeedDone)
    /\ WF_vars(Record)
    /\ WF_vars(Drain) /\ WF_vars(Commit \/ DropBatch)

FairSpec == Spec /\ Fairness

-----------------------------------------------------------------------------
(* Properties *)

\* Subscribed, and everything that was sent has been applied and recorded.
Quiet ==
    /\ link = "live" /\ wire = <<>> /\ ~states.full /\ events = <<>>
    /\ seed.at = "idle" /\ seeded /\ router.at = "idle"
    /\ queue = <<>> /\ writer.at = "idle"

\* Once things are quiet a script reads the state Home Assistant has, however
\* often the connection was lost, unless this connection's get_states was
\* refused, so that it seeded nothing, or the entity met one of three windows:
\* a change that never arrived (between get_states and the subscription, or
\* in front of a full channel), a creation or removal a slower Seed undid, or
\* an event older than a batch that was seeded before it.  A mirror no batch
\* ever reached, the first being refused or not installed, is not quiet, nor is one
\* whose subscription was refused.
StaleOnlyInKnownWindows ==
    Quiet /\ ~refused => \A e \in Entities \ (missed \cup overtaken) : mem[e] = ha[e]

\* What scripts read is in the history: for every entity in the mirror there
\* is a row with its value, unless the disk failed.  Seed leaves a row out
\* only when an equal one is there, across crashes too (tracker.go:181).
RecordedWhenQuiet ==
    Quiet => \A e \in Entities \ dropped : mem[e] # 0 =>
                \E i \in RowsOf(e) : Value(history[i].version) = Value(mem[e])

\* A full queue delays the event router and the seed but never wedges them,
\* not even when the writer has gone at shutdown (tracker.go:165).
NobodyWedged ==
    /\ (router.at = "enqueue") ~> (router.at # "enqueue")
    /\ (seed.at = "append") ~> (seed.at # "append")

=============================================================================
