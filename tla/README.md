# Verification of ha-lua

ha-lua is a Home Assistant add-on that runs Lua automation scripts: one Go
process, one Lua VM and one goroutine per script, a mirror of all Home Assistant
states in memory, a history of them in SQLite, timers that survive reloads, and
scripts that are reloaded when their file changes. This directory holds TLA+
models of its concurrent core, the TLC configurations that check them and TLAPS
proofs about all of them: supervisor and hot reload, state mirror, event loop,
Home Assistant connection, timers, MQTT, requests, names, history and the key-value
store. TLC checks safety and liveness on small instances; every safety property is
also a theorem, for every value of the constants. Paths below are relative to
`ha-lua/`.

## The system

| Component | State | Operations | Interacts with |
|---|---|---|---|
| Script supervisor (`internal/lua/supervisor.go`) | map id -> handle, `Supervisor.mu`, a WaitGroup | StartScript, StopScript, Reload, LoadAll, Wait; a script-load goroutine per generation | registry, router, scheduler (`RemoveScript`), runners |
| Registry (`internal/lua/registry.go`) | map id -> runner under an RWMutex | Add, Remove; Dispatch, DispatchMQTT, DispatchSyslog, DispatchToTimer fan events out under the read lock | runners' channels |
| Runner (`internal/lua/runner.go`) | a Lua VM, an event channel (256), a coalescing buffer, handlers frozen at load | Start: load, prune, event loop, flush; Send, Close | everything a script calls |
| Request router (`internal/lua/router.go`) | route table script -> paths | Register, Unregister, ServeHTTP with a bounded wait | connection goroutines, runners |
| Watcher (`internal/lua/watcher.go`) | a debounce timer per script | Run, timer callbacks | supervisor, file system |
| HA connection (`internal/ha/client.go`) | socket, pending commands, `States` (1 batch), `Events` (bounded) | connect, auth, get_states, subscribe, readLoop, command, reconnect with backoff | state tracker through main's goroutines |
| State tracker (`internal/state/tracker.go`) | mirror under an RWMutex, write queue, SQLite history | Seed, HandleStateChanged, writeLoop, history queries | scripts (reads), purge |
| Name mirror (`internal/ha/names.go`) | names of areas, devices, entities; a stale mark per registry | Refresh at boot, Changed, ChangedAll, Run, the lookups | HA connection |
| Scheduler (`internal/scheduler/scheduler.go`) | timers table, heap under `Scheduler.mu`, wake channel (1) | RegisterEvery/At/After, PruneScript, RemoveScript, loop | registry (DispatchToTimer), supervisor |
| MQTT (`internal/mqtt/`) | one session, the set of filters, topic filters | discover, connect, resubscribe, publish, match | registry, scripts |
| Key-value store (`internal/store/kv.go`, `internal/lua/api_store.go`) | tables script_kv and global_kv; the cache of a `store.state` proxy | get, set, delete, get_all, state | scripts |
| Purge (`internal/purge/purge.go`) | none of its own | RunOnce: a DELETE per rule | the history table |
| Log ring, log file, exceptions, syslog | bounded tables, rings and files | append, rotate, parse | debug page, registry |
| Main (`cmd/ha-lua/main.go`) | goroutines and contexts | boot order, event router, seed goroutine, shutdown | all |

What is hard here, and what each part must guarantee:

* **A stop against everything else.** A channel is closed while events are fanned
  out to it, two reloads of a script overlap, a script hangs in its main chunk or
  a handler, the route hook of a generation runs after its stop, the scheduler
  dispatches under its lock while a stop wants that lock. No send on a closed
  channel, no double close, registry and supervisor agree, every call returns,
  accepted events are drained.
* **The settled state of a file.** Saves and deletions, debounce timers that fire
  while they are reset, callbacks on goroutines of their own. What runs is what
  is on disk.
* **One mirror from two streams.** `get_states` batches and `state_changed` events
  travel through different channels to different goroutines, and both write. The
  mirror is what Home Assistant has, what it holds is in the history, a full write
  queue wedges nobody.
* **What the rows tell.** Rows are appended by two goroutines, lost in a crash,
  deleted by rules that overlap, and read back with two SELECTs and stamps of
  different precision. A query answers what happened, and says so when it cannot
  know.
* **Registries that change while they are read.** An event may arrive while the list
  it is about is being fetched, get lost with its connection, or come before anybody
  listens. The names scripts see become those Home Assistant has.
* **A broker that comes and goes.** Scripts subscribe while the client connects,
  retries or reconnects, in callbacks of a library. Whoever was told that it is
  subscribed, is.
* **Requests against reloads.** A connection goroutine hands a request to a goroutine
  that may be about to end. It always gets its answer, and a stop never waits for it.
* **A cache over a table.** The state proxy of a generation is right as long as nobody
  else writes, and two generations of a script can be alive at once.
* **Timers across generations.** The table carries a schedule from one generation
  of a script to the next while both may still be running. A timer fires, once
  per period, and is not lost between the loop's look at the heap and its sleep.

`PROJECT.json` lists the hazards line by line with the properties that cover them.

## Modules

| Module | Models | Abstracts |
|---|---|---|
| `Supervisor` | supervisor, registry, the routes of the router, the life cycle of runners, `fireDue` as a dispatcher under a lock | payloads (a queue is a length), LState internals |
| `HotReload` (EXTENDS `Supervisor`) | watcher, LoadAll, the scripts directory | dispatchers; contents are numbers |
| `SupervisorProofs` (EXTENDS `HotReload`) | inductive invariants and theorems about the two | |
| `MCHotReload` | symmetry for TLC | |
| `StateMirror` | connection, a get_states that is answered or refused, `States` and `Events`, state-seed and event-router goroutines, Seed, HandleStateChanged, write queue, crash | attributes, names; two versions of an entity may have equal values (`Value`) |
| `StateMirrorProofs` | inductive invariant and theorems about `StateMirror` | |
| `EventLoop` | the goroutine of one generation and the two writers of the mirror: load, replay of initial states, coalescing windows, drain, abort | callbacks are one step; an event is a topic and a number |
| `Mailbox` | abstract: what a script may rely on about the events it is handed | |
| `EventLoopProofs` | inductive invariant of `EventLoop`, and that it implements `Mailbox` | |
| `MqttTopics` | ValidateFilter and Match over topics as sequences of levels; what a broker means by a filter (`Denotes`) | characters |
| `MqttClient` (EXTENDS `MqttTopics`) | Discover, Start, its retries, the OnConnect and ConnectionLost handlers, Subscribe, the way of a message through the bounded channel of a script to its handlers | payloads, quality of service; the library from how it is used |
| `MqttClientProofs` | the filters' lemma, inductive invariant and theorems about `MqttClient` | |
| `RequestRouter` | ServeHTTP, the run loop's requests and asynchronous failures, the stop and start of the script | contents of requests and responses |
| `RequestRouterProofs` | inductive invariant and theorem about `RequestRouter` | |
| `History` | the rows of events and of seeds, changes nobody heard of, dropped batches, crashes, the purge, `history`, `duration_in_state`, `count_changes`, `who_changed` | time in ticks; two entities; a row's attributes are one bit |
| `Names` | Refresh, the marks, Run, the queries, the lookups of names and areas | registries as functions over a few ids |
| `KvStore` | the two tables, store, global and the state proxy over generations of scripts | a value is an atom: the JSON of a value is data |
| `LookupProofs` (EXTENDS `KvStore`, `Names`, `History`) | an inductive invariant and theorems about each of the three, which share no variable | |
| `MCMqttClient`, `MCRequestRouter`, `MCHistory`, `MCNames`, `MCKvStore` | the constants and symmetries of the runs | |
| `HaClient` | the connection loop, commands and their result frames, AddEventType, SendRaw, and Home Assistant's refusal of ids that do not grow, of get_states and subscriptions too | frames reach Home Assistant as they are written; the results of subscriptions, which nobody waits for, are not sent: what is left of them is `carried`; the backoff has no length |
| `HaClientProofs` | inductive invariant and theorems about `HaClient` | |
| `Scheduler` | timers table, heap, loop, registrations, prune, RemoveScript | clock is a number, one interval; daily means the next multiple of `Day` (no daylight saving) |
| `SchedulerProofs` | inductive invariant and theorems about `Scheduler` | |

### Supervisor

A *handle* is a `scriptHandle` with its `Runner`: one generation of a script.
`scripts`, `runners` and `routes` are the three maps; `supMu` is who holds
`Supervisor.mu`. StopScript is cut where another goroutine can get in between:
`StopUntrack` (takes the lock, deletes the handle and its routes), `StopRemove`
(`Registry.Remove`, waits for readers), `StopTimers` (waits for `Scheduler.mu`),
`StopClose`, then `StopDone` or `StopTimeout`, which cancels the context first.
`Registry.mu` is a set of readers; a writer's step needs it empty
(`RegistryQuiet`), and a waiting writer keeps new readers out
(`WriterWaiting`), as Go's RWMutex does. The runner goroutine loads, takes
events, returns from handlers, drains a closed channel (`DrainExit`) and sees
its context end (`CtxExit`). `AfterLoad` is the script-load goroutine. Handles
are reused once nothing refers to them (`Forget`, the garbage collector), so a
bounded set of handles bounds what is alive at once and not what ever was.

### HotReload

`Save` and `Delete` change a file and, once the watch exists, leave an fsnotify
event; `Debounce` arms the script's timer; `Fire` starts a callback goroutine;
`Callback` deletes the map entry (whichever timer is in it by then: `stray`
counts timers that are armed and no longer in the map), looks at the file, and
makes the call, whose steps are those of `Supervisor`. `ReadFile` is DoFile. In
`crossed` are scripts whose latest callback decided while an earlier call that wants
the opposite (`StillStarts`, `StillStops`) had not got hold of `Supervisor.mu` yet:
nothing in the code orders the two, and `SettledUnlessCrossed` leaves them out.

### StateMirror

Home Assistant gives every change of an entity a version, as `last_updated` orders them.
`Connect` renders the `get_states` answer and `Subscribed` starts the event stream: what
changes in between is in neither. A refused answer is delivered as `NoBatch`, which Seed
ignores (`SeedIgnores`); `refused` says so of the current connection.
`SeedMerge`/`SeedAppend` are the critical section of Seed and what follows it without the
lock, `Apply`/`Record` those of HandleStateChanged. `history` is one table, in the order
of its ids: the baseline of a cold start is an entity's last row.
`Drain`/`Commit`/`DropBatch` are the writer, with the failed transaction. `Crash` loses
what is not committed and boots again.

### EventLoop and Mailbox

`Occur` is the event router (mirror first, then the event), `Send` the channel. `Reseed`
is what Tracker.Seed does after a reconnect: the mirror changes and no event tells of it.
`unsaid` has the entities whose last change was not handed to the channel.
`Load`, `Replay` and `EnterLoop` come before the loop. Of its select the event case
is `TakeDirect` (timers, MQTT, syslog, and everything after
`ha.immediate_events()`: flush, then the event), `Coalesce` (a state of an entity
that is in the window takes its slot), `Batch` (a new slot, and the window's timer)
and `Drained` (channel closed); the others are `WindowEnds`, `OtherCallback` and
`CtxExit`. A run may begin with events already sent and mirrored: those before the
script was registered. `Flush` moves the window to `work`, which `Handle` works off one event
at a time while others arrive.

`Mailbox` has one set of waiting events. An event leaves it by being handed over in
its turn, or because a newer state of its entity waits and nothing delivered
directly lies between them. `ImplementsMailbox` is the refinement: the box is what
is in the channel, the window and `work`. States may overtake other batched events
(a newer state comes in the slot of the older one); the abstract specification
says so.

### HaClient

Connections are numbered; the newest is `dials`, `conn` is the one that is published.
`link` walks through connect: `Publish` is after auth, `AskStates` and `WriteStates` are
getStates' id and its write, `MarkTypes` is the locked part of the subscription.
`Disconnect` swaps the map of waiters, `FailPending` fails them one at a time, `CloseNow`
closes the socket after that, the order of the two defers. A command takes an id, is
registered, written, heard or given up, and forgotten, each a step of its own; ids have no
bound, as each of the finitely many commands takes one; `pending` maps ids to commands, so
that a reused id would hand one command's channel to another. A broken connection may
still swallow a frame. `asked` counts the subscriptions that were written, `carried` has
the types Home Assistant took, and `rivals` says that a frame of another goroutine reached
it on this connection. Scripts run from the first batch on (`booted`).

### Scheduler

One script. `Insert`, `ReadBack`, `Push` and `Wake` are the four steps of `insert`,
`RemoveHeap` and `RemoveRows` the two of `RemoveScript` (under `Supervisor.mu`, so
`stopping` keeps the next start out), `Prune` is what the runner does after the main
chunk. A statement may fail, that of `RemoveRows` included. Generations follow
`Supervisor`: after a stop the goroutine may go on loading for up to `stopTimeout`. `Fire`
holds the lock for the whole pass; between `FireDone`, `Plan` and `Awake` it is free.
`Init` also stands for a restart: any row an earlier process may have left.

### MqttClient

Sessions are numbered. `Discover` and `startMQTT` are main's steps before the scripts;
`StartConnects`, `StartFails` and `StartReturns` are Start, `RetryConnect` the goroutine
it leaves behind when the broker is down. `OnConnect` lists the filters under the lock
and `Resubscribe` sends them outside it; `SubscribeRecords` and `SubscribeSends` are the
same two halves of Subscribe, which a script's main chunk calls. `ConnectionLost` may run
late. `DispatchMQTT` puts a message into the channel (`inbox`) of each runner the registry's
matching chooses (`MQTTFilters`, published when the load ends), and drops it where that is
full; `DispatchOther` stands for all the other events a script gets through the same
channel. `Take` is the event loop, `handleMQTTMessage` passes the message to the handlers.
`missed` and `strayed` note, at each step, whose handler went without a message its filter
denotes and whose got one it does not.

### RequestRouter

One script whose generations follow each other. A client's request goes through `match`,
`GetRunner`, `AcceptRequest` (the rendezvous with the loop), the handler (`Returns`,
`Hangs`, aborted by a stop) and `HandlerReturns`, whose deferred send fills the reply
channel of capacity one, to `TakeReply` or `Deadline`. `CallServiceNoWait` starts the
goroutine of an asynchronous call; `HandOver` puts its failure in the bounded queue or
gives up when the script's context ends, `ReportFailure` runs on_exception. The stop and
start of a script are here in the order one Reload takes them; overlapping ones are in
`Supervisor`.

### History

`truth` is what really happened, and every answer is compared with it. `Write` is Home
Assistant's; if the event is `heard` it changes the mirror (`mem`) and enqueues its row,
none for an entity that is gone. It need not be: the connection may be down or
`Client.Events` full. `Seed` compares with the mirror, or with `historyBaseline` (newest
row by id) if that is empty, and leaves its rows in `seedRows`, which the event router's
may overtake. `DropBatch` is a transaction that failed twice; `Killed` and `Start` are a
crash and a cold start. `untold` has the times of the changes that no row tells of, nor
will. As long as one of them is newer than a row that is left the daemon cannot know
that something is missing (`Told` excludes it), and an answer may be wrong although it
says it is complete. `Delete` is one statement of RunOnce: the stamps it compares are strings, of
whole seconds, and so are those of the queries. `purge` is at the index of the rule whose
DELETE is next, or at `Rest` for what no rule claims; `Kept` are the rules New keeps. A
query is two steps, `AskBaseline` and `AskWindow`, as historyPoints makes two SELECTs
with no transaction around them. Sets of rows become sequences by rank: the n-th row of
`Ordered` is the one with n rows up to it.

### Names

`main` waits for the first batch of states, refreshes and starts the goroutines. `stale`
is the mark of each registry, `signal` the channel of one, `armed` the debounce timer.
A fetch is `Query` (the answer is what the registry holds then) and `Apply` or
`Refused`: whoever reads the frames at the time, getStates or readLoop, hands the answer
to its waiter. The connection may change in between. `Edit` leaves an event unless the
subscription was refused or the channel is full. `Changed` is the event router, `ChangedAll` the
state-seed goroutine after each reconnect.

### KvStore

`vm` maps the VMs to scripts, and `tracked` has the newest of each script: StopScript
untracks first and drains outside the lock, so that a second reload can start the next
generation while the older one still writes. `Set` is one statement: it returns, raises
with nothing stored, or is interrupted by the abort of its script, committed or not;
`Assign` changes the cache of the proxy first either way. `last` has what the last write
of a key may have left and `aside` the keys written past a proxy.

## Runs

| Run | Question | Bounds |
|---|---|---|
| `supervisor` | Are starts, stops, reloads, dispatches and a shutdown safe in any order, and do they end? | one script whose generations follow each other, two callers, one fan-out and the scheduler loop, channel of one. The hazards lie between two calls, or a call and a reader. Two generations alive at once are in `hotreload`, and all but the liveness is proved for any number |
| `hotreload` | Does what runs follow what is on disk? | one script, LoadAll and two callbacks at a time, three changes, two generations: a callback can overtake another, and a third change can meet both |
| `statemirror` | Is the mirror right, recorded and unwedged once things are quiet? | one entity, three versions, a crash, refusals, channel and queue of one: a batch, an event older and one newer than it all fit. Entities do not interact except in a shared queue, which is full with one row |
| `eventloop` | Is what a script is handed what `Mailbox` allows, the newest state, and everything? | two entities, other and direct events, three in all, seeds among them, channel of two: a state can be overwritten across each other kind, and the channel overflows during a load |
| `haclient` | Does a caller hear its own result, and every connection carry every subscription? | a command, one goroutine that registers a type or fires an event, a type that main may have registered, two connections: both meet each step of the first connection, its end and the second. Ids collide with those of getStates and the subscriptions |
| `haclient_seed` (violation) | "every reconnect has to re-seed" (`client.go:51`) | as above, state_changed also registered by a script |
| `scheduler` | Do timers fire, apart, and from the table's schedule? | three scripts (interval with one-shot; interval and daily with leftover rows), two generations, three ticks, interval and day of two: a deadline can be met, missed by one, and met again |
| `mqtt` | Does the broker end up with every filter, and every handler with its messages? | two scripts with a shared filter, a wildcard in the first and the last place and a malformed filter, two sessions, two loads, a server topic and a retained message, channels of one event, so that one other event fills them |
| `requests` | Is every accepted request answered, does a stop end, is every failure reported? | one request, two failing calls for a queue of one, two generations, files that serve the path twice or not at all |
| `history` | Do the queries tell the truth, and does a purge take only what is old? | two entities, two ticks to a second, six ticks, two writes, each heard or not, a crash or a dropped batch, a malformed rule and two that overlap: each change can lie in, before or at the second that is asked about, and one may be missing while the other has its row. More changes, crashes and seconds are in the proofs |
| `names` | Are the names right, and do they become right? | a lamp in a socket that is a child of a board, two edits, two connections: an edit can fall into each step of the boot, of a fetch and of a reconnect |
| `kvstore` | Does a script find again what it wrote? | two scripts and the global table, two VMs, one key, two values and a default: both scripts run, or one with two generations. Keys do not interact |

Deadlock is checked by TLC only where the system cannot stop; after a SIGTERM, or
when the changes, versions, ticks or generations of a model are used up, it
legitimately does. Wedged goroutines are caught by the liveness properties
instead. Each property of a passing run has a mutant in `PROJECT.json`: a
plausible bug in one definition that TLC finds with the same configuration. The
mutated operators (`Send_Unbounded`, `Change_Unseen`, ...) stand in front of the
definition they replace and occur in no specification.

### Fairness

* Every goroutine that can go on is scheduled (weak fairness). For steps that
  take a mutex, strong fairness: Go's mutex hands the lock to a starving waiter.
* A `select` takes a ready case at random, so `ctx.Done` is not ignored for ever
  in favour of a full channel (strong fairness of `CtxExit`), and an event loop takes
  each case that is ready again and again; so does the send of a failure to a queue
  that is emptied again and again (`HandOver`, `ReportFailure`).
* Nothing makes Lua return. A main chunk or handler may run for ever until its
  context is cancelled, which gopher-lua checks on every instruction. `CatchesUp` and
  `FailuresReported` are conditional on Lua code that keeps returning.
* Home Assistant answers the commands it received, a broken connection is noticed,
  and dialling succeeds in the end, with a valid token. No command's time-out has to
  fire: `ConnectionServes` holds without.
* A transaction of the tracker ends, with success or not. In `StateMirror` the
  connection is not assumed to come up, nor is a script anywhere assumed to be loaded,
  stopped or saved.

## What the checks show

What the code promises about starting and stopping holds: channels are closed
once and never sent to after, the maps agree, drains lose nothing unless the stop
timed out, calls return with hanging scripts and a scheduler loop that dispatches
under its lock. Nothing that runs is older than its file once things are quiet. The
timer loop loses no wake-up. A command hears its own result or that its connection is
lost, and subscriptions come back with a connection, to the broker and, unless another frame
overtakes one, to Home Assistant. A request that was accepted is answered. As far as the
rows tell all there is, the queries of the history are exact when they say they reach
back far enough, and a lower bound otherwise.

Where a promise has exceptions, the property names them:

| Property | Known window |
|---|---|
| `SettledUnlessCrossed` | `watcher.go:99`: a callback looks at the file and then calls; nothing orders it against another. A stop decided while the file was absent can take the lock after the reload of a file saved later, and leaves an existing script stopped, or the reverse, against "act on the settled state of the file" (`watcher.go:83`) |
| `StaleOnlyInKnownWindows` | a change between the get_states answer and the subscription is in neither (`README.md:99` says "can never be stale"); an entity created or removed while Seed holds a batch without it (with it) is dropped (restored) although "cannot be lost in the swap" (`tracker.go:193`); an event that is older than a batch seeded before it; a full channel; a get_states or a subscription that was refused leaves the whole connection with what the mirror had |
| `SeesNewest` | the last change came with a re-seed, of which no event tells (`main.go:176`), or in front of the script's full channel |
| `RecordedWhenQuiet` | a batch whose transaction failed |
| `TableMatchesHeap`, `FiresApart` | a generation stopped during its main chunk goes on registering timers after RemoveScript (`scheduler.go:251`). Stable ids let the next one share the row but not the heap entry: the timer fires twice per period until the next stop (`lua_api.md:414`), and the prune of the older generation deletes rows of timers in the heap (`scheduler.go:189`) |
| `SubscribedWhenQuiet` | a ConnectionLost handler that runs after the OnConnect of the next session leaves `connected` false on an open link: what is subscribed from then on waits for another reconnect |
| `ConnectionServes` | a command, or a subscription of AddEventType, that is written between the id and the frame of another subscription: Home Assistant refuses that one, readLoop drops the result (`client.go:250`), the type stays in `subscribed`, and nothing asks again while the connection lives, although "every reconnect re-subscribes the full set" (`client.go:99`) |
| `MissedForAReason` | a message, retained ones included, that arrives before the main chunk has ended is not for anybody yet; one that finds the script's channel full is dropped (`registry.go:88`, `mqtt-spec.md` section 5) |
| `AggregatesAreRight`, `CulpritIsRight` | changes that no row tells of while an older row is left (`untold`): a batch that was dropped (`tracker.go:128`) or lost in a crash, an event lost in front of a full channel or with the connection and followed by another change before the next Seed, the removal of an entity, a cold start that compares with rows of Seed and the event router in inverted order (`tracker.go:264`). The answer says it is complete, and newer rows do not make it right |
| `AggregatesAreRight` | a purge between the two SELECTs (`tracker.go:432`, `:447`) takes the value before the window, and the answer still says it is complete; a change of since's own second may count |
| `CulpritIsRight` | the bound is `at` cut to whole seconds: changes within the second of `at` do not exist for who_changed (`tracker.go:568`), although `lua_api.md:193` says "at or before that instant"; and an attribute written after the change takes its blame |
| `PurgeKeepsWindows` | the window is counted from `last_changed`: an automation that stays on has old rows although they were written today |
| `NamesAreRight`, `NamesSettle` | a registry whose fetch Home Assistant refused, or that Refresh did not reach because an earlier one was, stays as it is until its next event or a reconnect (`main.go:161`); an edit after the fetch that follows a batch and before the subscription is not seen; an event that finds `Client.Events` full (`client.go:493`), or whose subscription was refused, is not heard |
| `ProxyRemembers` | a key written past the proxy: by `store.set`, or by the older generation of the script, which drains while the next one has loaded its cache already (`supervisor.go:219`) |

One sentence is contradicted by a run of its own, `haclient_seed`. *Every reconnect
re-seeds*: the connection is published before getStates, and an id is taken before its
frame is written. A script's command with a newer id may get in first; Home Assistant
then refuses get_states, getStates does not look at `success`, and an empty batch is
delivered, which Seed ignores. The mirror keeps what it had before the disconnect.

## Proofs

For every value of the constants, from the modules' named assumptions alone:

| Theorem | Module | States |
|---|---|---|
| `Invariant` | `SupervisorProofs` | the inductive invariant `IInv` always holds |
| `TypeCorrect` | | `TypeOK`; in particular no channel exceeds its capacity |
| `SendsAreSafe` | | `NoSendOnClosed` |
| `ClosesAreUnique` | | `CloseOnce` |
| `MapsAgree` | | `RegistryAgrees` |
| `RoutesAreCurrent` | | `RoutesOfTracked` |
| `StoppingIsSilent` | | `StoppedIsSilent`, an action property |
| `StopsDrain` | | `DrainsUnlessAborted` |
| `ReloadsAreFresh` | | `NoStaleCode` |
| `FilesAreSettled` | | `SettledUnlessCrossed` |
| `TypeCorrect` | `StateMirrorProofs` | `TypeOK` |
| `MirrorIsRight` | | `StaleOnlyInKnownWindows` |
| `MirrorIsRecorded` | | `RecordedWhenQuiet` |
| `TypeCorrect` | `EventLoopProofs` | `TypeOK` |
| `NewestSeen` | | `SeesNewest` |
| `LoopImplementsMailbox` | | `ImplementsMailbox`: every step is one of `Mailbox` or a stutter |
| `TypeCorrect` | `HaClientProofs` | `TypeOK` |
| `VerdictCorrect` | | `VerdictIsOwn` |
| `NoneStranded` | | `NobodyStranded` |
| `AskedOnce` | | `EachTypeAskedOnce` |
| `TypeCorrect` | `SchedulerProofs` | `TypeOK` |
| `SleepsRight` | | `NoOversleep` |
| `TableIsRight` | | `TableMatchesHeap` |
| `FiresArePeriodApart` | | `FiresApart`, an action property |
| `MatchIsRight` | `MqttClientProofs` | a legal filter matches exactly the topics a broker means by it |
| `NoFilterLost` | | `SubscribedWhenQuiet` |
| `DeliveredAsMeant` | | `MissedForAReason`, an action property |
| `TypeCorrect` | | `TypeOK`; in particular no channel exceeds its capacity |
| `Answering` | `RequestRouterProofs` | `AcceptedIsAnswered` |
| `Remembers` | `LookupProofs` | `ProxyRemembers` |
| `MirrorIsRight` | | `NamesAreRight` |
| `AggregatesTellTruth` | | `AggregatesAreRight` |
| `CulpritIsFound` | | `CulpritIsRight` |
| `WindowsAreKept` | | `PurgeKeepsWindows`, an action property |

Each module has an `IInv` (in `LookupProofs`: `KvInv`, `NamesInv`, `HistoryInv`) that
implies its properties, a lemma that the initial states satisfy it and one that every
step keeps it, action by action; TLC has checked each of them on the instance of its
run. The assumptions on constants say that capacities are positive, that special values
differ from ordinary ones (two entities from each other, an id from the empty one), that
the rules of a purge are a sequence of patterns and days, and for MQTT that what scripts
ask for and brokers send are non-empty sequences of levels.

*Supervisor.* None of its properties is inductive alone: that a send meets an open
channel needs that everybody whom a reader has still to visit is registered
(`TodoInv`), that who is registered is tracked or about to be removed (`TrackedInv`),
that the lock holder is in one of the critical sections and the maps differ only inside
them (`CriticalSections`), that a handle in a stop's hands is in no map and in no
other stop's hands (`VictimInv`), and that a handle nobody uses is open and empty
(`FreshInv`). The action property follows from the invariant: a step that lengthens a
queue is a send, and who is sent to is registered. `StopsDrain` adds `DrainInv`: a
goroutine that has ended had its context done, or its channel is closed and empty, and
nobody sends on a closed channel.

*Hot reload.* Its steps are steps of `Supervisor` or leave it alone (the lemma
`HotIsSupervisor`), so `Invariant` may be used. A generation that is older than its file
has a change still `Coming` (event, timer, stray timer or callback) or a caller about to
stop it (`StaleInv`); a new generation has read nothing (`SourceInv`). For a script with
nothing `Coming` and no contradicted callback, nobody is about to do the opposite of what
the file says, and what it says is done or about to be done (`SettlesAs`). Every callback
establishes this anew, and only `Contradicts` can prevent it.

*State mirror.* Whatever a batch, an event or the mirror holds of an entity is no newer
than Home Assistant's last change and, at that version, is what Home Assistant has
(`KnownInv`). The last change, unless it is in a known window, has been heard of or is on
its way, or the connection's get_states was refused (`ComingInv`). With nothing on its way
the two give the theorem. A value of the
mirror is in the history or in a row on its way (`RecordInv`); where Seed skips the row,
it compared with a baseline that is in the history (`HoldsInv`). The lemmas speak of
the elements of the queues and not of their order: only the last row of an entity
matters, for which `Greatest` proves that a maximum exists.

*Event loop.* Work, window and channel are in the order of sending, but for a state that
took the slot of an older one of its entity (`OrderInv`); nothing in flight is newer than
what is being sent (`NumberInv`); for an entity
that is not in `unsaid` the newest event in flight is what the mirror has, and if none is
in flight a handler has seen it (`MirrorInv`). The
refinement maps the waiting events to the contents of channel, window and work.
`CoalesceMoves` and `HandleMoves` show that a coalesced state is a drop that `Mailbox`
allows and that nothing the head of the work overtakes is a direct event.

*Connection.* Ids are taken once (`IdInv`), so an answer with a command's id is its own
(`FateInv`). Who waits without a result is in the map of the published connection or is
among those the closing connection still has to fail (`ReachInv`). For `EachTypeAskedOnce`
whoever carries a type to the socket is unique and the type is marked until then
(`OnceInv`); `SubsInv` says that a marked type is asked or carried.

*Scheduler.* A timer that only the tracked generation has in the heap has not been fired
or pushed by another since its row was read (`GenInv`: a generation pushes each of its
timers once), so its row is its deadline (`RowInv`) and at least one period after its last
fire (`ApartInv`). `NoOversleep` is inductive with the types; `Least` proves that a heap
that is not empty has a first timer, `NextRunFacts` what a period is.

*MQTT.* `Denotes` replaces a trailing `#` by any number of `+`; `MatchIsRight` computes
that sequence and splits on it. Without ValidateFilter's check that a `#` is the last level
it is false. A filter a script was told of is at the broker, refused, or on its way: an
OnConnect pass has it in its list or has no list yet, or a Subscribe call is about to send
it (`FiltersInv`). A delivery uses `MatchIsRight` and that whatever a script has
subscribed is legal (`ScriptInv`).

*Requests.* A loop that selects, loads or has ended holds no request (`LoopInv`).

*Key-value store.* A proxy answers what was written because each row does
(`RowsRemember`) when the proxy is made, and because every later write of the script
goes through it or is noted in `aside`. `RowsApart`, that no two scopes share a row, is
the lemma this rests on; `SetStep` says what a statement may do, failed or interrupted.

*Names.* Outside the known windows (`Excused`) a registry the mirror is wrong about is
*due*: marked, named by an event that waits, being asked for, or the connection that will
mark everything is not up yet; or else its answer has come (`Known`). That answer is what
Home Assistant still has, unless the source is due again (`AnswerIsFresh`): an edit during
a fetch leaves an event. One goroutine fetches at a time (`OneFetch`), and a boot whose
Refresh lost its connection gets another batch (`LostIsMadeUp`). `LookupsAgree` carries this
from the registries to what a script sees: the area of an entity goes through all three of
them (its own, its device's, that of the device's parent).

*History.* `Timeline` says what the history variable is: changes in order, one at a time.
Every row tells of one of them (`RowsAreTrue`), and from the oldest row on each has a row,
in the table or on its way, or is noted as untold (`NoGaps`): a DELETE takes whole
seconds from the old end, a crash or a dropped batch the rows on their way, which are those
of this very moment (`WayIsShort`). What the mirror or the baseline knows is a change that
happened (`MirrorIsTrue`), so that a Seed which finds Home Assistant one change ahead
makes the row of that change (`BehindDiffers`). When everything is told the
newest row before a second is that of the change in force then (`RowOfTheChange`), which
gives `CulpritIsRight`. For `PurgeKeepsWindows`, `ClaimsWindow` shows that the DELETE which
claims an entity is that of its first rule.

*The aggregates.* As long as the rows told all there is and no DELETE came between, the
baseline of a query is the state of the last change before its second (`AskFresh`). The
rows of the window, ordered by stamp and id (`OrderedRows`), tell of the changes that
follow: none is left out, and an attribute's row repeats one (`Tells`, `Opens`, proved in
`PointsTell`). The rows that differ from their predecessor are therefore the changes, one
each (`CountIsRight`). The spans of the line follow each other, and throughout a span the
state is that of the row it begins with; `SumOfSpans` adds up such spans to the number of
their instants in the state (`DurationIsRight`). An incomplete answer has no state before
its first row, so it only misses instants.

*Ranks and induction.* The rank of a row is an injection of a set of rows into as many
places, and therefore onto them (`Places`, `OrderedRows`, on which `Remaining` and `Ordered`
rest). The library's induction theorems take an operator and are out of reach, but a
statement about numbers can be proved from a least counterexample, which `LeastNumber`
takes from `WFMin`: the order of the changes told (`TellsInOrder`), the recursive function
`DurationInState` adds up with (`RunningTotal`) and what it amounts to (`SumOfSpans`).

Only model-checked is liveness under fairness (`CallsReturn`, `ShutdownEnds`,
`NobodyWedged`, `DueFires`, `CatchesUp`, `ConnectionServes`, `StopEnds`, `FailuresReported`,
`NamesSettle`): it needs ENABLED, which the prover does not handle. The violation of
`haclient_seed` is a counterexample TLC finds.

## Plan

The order was: supervisor and hot reload, state mirror, event loop, connection, timers,
MQTT, requests, then what scripts look up; each first modelled and checked, then proved.
What could follow:

1. `RequestRouter` and `HaClient`: action properties (ids on one connection grow; a reply
   is sent once).
2. The log ring and the exceptions table as small modules, should another component come
   to depend on them.

## Not modelled

* The Lua standard library bindings and the conversions between Lua and JSON: functions
  without state.
* The web shell and debug pages: rendering of state that other components own.
* REST calls: one request each, nothing kept.
* Configuration, migrations, the compaction of the database: parsing and SQL.
* Syslog: one reader of a socket and a text parser; the fan-out of its messages is that
  of `Supervisor`.
* The log ring, the log file and the table of exceptions: each operation is atomic under
  one mutex, and no other component depends on what they hold.
* The example scripts and cards, which are programs of users, and the build tools.

`PROJECT.json` gives each with its reason. Time-outs are choices and not durations
everywhere but in `Scheduler` and `History`. A process that is killed keeps what SQLite
has committed; the loss of power is not modelled.
