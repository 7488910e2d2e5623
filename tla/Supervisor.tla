----------------------------- MODULE Supervisor -----------------------------
(***************************************************************************)
(* The life of a script: internal/lua/supervisor.go starts, stops and      *)
(* reloads it, internal/lua/registry.go routes events to it under a read   *)
(* lock, internal/lua/router.go keeps its UI routes, and a runner          *)
(* goroutine (internal/lua/runner.go) loads it and drains its channel.     *)
(*                                                                         *)
(* A handle stands for one *scriptHandle together with its *Runner: one    *)
(* generation of a script.  A caller is a goroutine that runs StartScript, *)
(* StopScript or Reload (LoadAll in main, and every debounced watcher      *)
(* callback has a goroutine of its own).  A dispatcher is a goroutine that *)
(* runs Dispatch, DispatchMQTT or DispatchSyslog; the scheduler loop is    *)
(* the Ticker, which dispatches while it holds the scheduler's own lock.   *)
(***************************************************************************)
EXTENDS Naturals

CONSTANTS
    Scripts,      \* script ids
    Handles,      \* handles; bounds the generations that are alive at once
    Callers,      \* goroutines that call StartScript, StopScript, Reload
    Dispatchers,  \* goroutines that fan events out
    Ticker,       \* the scheduler loop
    QueueCap,     \* capacity of a runner's event channel (256 in the code)
    None          \* nil

ASSUME SupervisorAssumption ==
    /\ QueueCap \in Nat \ {0}
    /\ None \notin Scripts \cup Handles \cup Callers
    /\ Ticker \notin Dispatchers

Readers == Dispatchers \cup {Ticker}

VARIABLES
    scripts,    \* Supervisor.scripts: id -> handle
    runners,    \* Registry.runners: id -> handle
    routes,     \* Router.routes: id -> the handle whose routes are in the table
    supMu,      \* the caller that holds Supervisor.mu, or None
    pc,         \* where each caller is
    arg,        \* the script each caller works on
    victim,     \* the handle each caller starts or stops
    restart,    \* whether the caller's StopScript is the first half of Reload
    owner,      \* the script of each handle
    loop,       \* the runner goroutine of each handle
    loaded,     \* LoadedCh is closed
    queue,      \* number of events in the runner's channel
    closed,     \* the runner's channel is closed
    cancelled,  \* the handle's own context is cancelled
    hook,       \* the script-load goroutine of each handle
    readers,    \* goroutines that hold Registry.mu for reading
    todo,       \* the runners each of them has still to visit
    ticking,    \* the scheduler loop holds Scheduler.mu
    due,        \* the scripts whose timers this pass of fireDue has still to fire
    rootDone    \* the process context is done (SIGTERM)

callerVars  == <<pc, arg, victim, restart>>
tableVars   == <<scripts, runners, routes, supMu>>
handleVars  == <<owner, loop, loaded, queue, closed, cancelled, hook>>
readerVars  == <<readers, todo, ticking, due>>
vars == <<callerVars, tableVars, handleVars, readerVars, rootDone>>

CallerStates ==
    {"idle", "start", "stop", "add", "remove", "timers", "close", "drain", "abort"}
LoopStates == {"unused", "loading", "idle", "busy", "exited"}
HookStates == {"none", "waiting", "announce", "done", "gone"}

TypeOK ==
    /\ scripts \in [Scripts -> Handles \cup {None}]
    /\ runners \in [Scripts -> Handles \cup {None}]
    /\ routes \in [Scripts -> Handles \cup {None}]
    /\ supMu \in Callers \cup {None}
    /\ pc \in [Callers -> CallerStates]
    /\ arg \in [Callers -> Scripts \cup {None}]
    /\ victim \in [Callers -> Handles \cup {None}]
    /\ restart \in [Callers -> BOOLEAN]
    /\ owner \in [Handles -> Scripts \cup {None}]
    /\ loop \in [Handles -> LoopStates]
    /\ loaded \in [Handles -> BOOLEAN]
    /\ queue \in [Handles -> 0..QueueCap]
    /\ closed \in [Handles -> BOOLEAN]
    /\ cancelled \in [Handles -> BOOLEAN]
    /\ hook \in [Handles -> HookStates]
    /\ readers \in SUBSET Readers
    /\ todo \in [Readers -> SUBSET Handles]
    /\ ticking \in BOOLEAN
    /\ due \in SUBSET Scripts
    /\ rootDone \in BOOLEAN

Init ==
    /\ scripts = [s \in Scripts |-> None]
    /\ runners = [s \in Scripts |-> None]
    /\ routes = [s \in Scripts |-> None]
    /\ supMu = None
    /\ pc = [c \in Callers |-> "idle"]
    /\ arg = [c \in Callers |-> None]
    /\ victim = [c \in Callers |-> None]
    /\ restart = [c \in Callers |-> FALSE]
    /\ owner = [h \in Handles |-> None]
    /\ loop = [h \in Handles |-> "unused"]
    /\ loaded = [h \in Handles |-> FALSE]
    /\ queue = [h \in Handles |-> 0]
    /\ closed = [h \in Handles |-> FALSE]
    /\ cancelled = [h \in Handles |-> FALSE]
    /\ hook = [h \in Handles |-> "none"]
    /\ readers = {}
    /\ todo = [d \in Readers |-> {}]
    /\ ticking = FALSE
    /\ due = {}
    /\ rootDone = FALSE

-----------------------------------------------------------------------------
(* Locks and contexts *)

\* A handle that stands for no generation: the next StartScript may take it.
Fresh == {h \in Handles : owner[h] = None}

\* sctx is derived from the process context.
CtxDone_OwnOnly(h) == cancelled[h]
CtxDone(h) == cancelled[h] \/ rootDone

\* Registry.mu is write-locked by Add and Remove: the write lock is free once
\* no reader is left ...
RegistryQuiet_NoLock == TRUE
RegistryQuiet == readers = {}

\* ... and a waiting writer keeps new readers out (sync.RWMutex).
WriterWaiting == \E c \in Callers : pc[c] \in {"add", "remove"}

-----------------------------------------------------------------------------
(* Callers *)

\* A caller begins an operation.
Call(c, s, op) ==
    /\ pc[c] = "idle"
    /\ pc' = [pc EXCEPT ![c] = IF op = "start" THEN "start" ELSE "stop"]
    /\ arg' = [arg EXCEPT ![c] = s]
    /\ restart' = [restart EXCEPT ![c] = op = "reload"]
    /\ UNCHANGED <<victim, tableVars, handleVars, readerVars, rootDone>>

\* A call returns to next; an idle goroutine remembers no script.
Leave(c, next) ==
    /\ pc' = [pc EXCEPT ![c] = next]
    /\ arg' = [arg EXCEPT ![c] = IF next = "idle" THEN None ELSE @]

\* StartScript for a script that is tracked: a no-op.
StartTracked(c) ==
    /\ pc[c] = "start" /\ supMu = None
    /\ scripts[arg[c]] # None
    /\ Leave(c, "idle")
    /\ restart' = [restart EXCEPT ![c] = FALSE]
    /\ UNCHANGED <<victim, tableVars, handleVars, readerVars, rootDone>>

\* StartScript: under s.mu, a new runner and handle; the handle is tracked.
StartTrack(c, h) ==
    /\ pc[c] = "start" /\ supMu = None
    /\ scripts[arg[c]] = None
    /\ h \in Fresh
    /\ supMu' = c
    /\ scripts' = [scripts EXCEPT ![arg[c]] = h]
    /\ owner' = [owner EXCEPT ![h] = arg[c]]
    /\ victim' = [victim EXCEPT ![c] = h]
    /\ pc' = [pc EXCEPT ![c] = "add"]
    /\ restart' = [restart EXCEPT ![c] = FALSE]
    /\ UNCHANGED <<arg, runners, routes, loop, loaded, queue, closed, cancelled, hook,
                   readerVars, rootDone>>

\* Still under s.mu: Registry.Add, then the runner and the script-load
\* goroutines are spawned and s.mu is released.
StartAdd(c) ==
    /\ pc[c] = "add"
    /\ RegistryQuiet
    /\ runners' = [runners EXCEPT ![arg[c]] = victim[c]]
    /\ loop' = [loop EXCEPT ![victim[c]] = "loading"]
    /\ hook' = [hook EXCEPT ![victim[c]] = "waiting"]
    /\ supMu' = None
    /\ Leave(c, "idle")
    /\ victim' = [victim EXCEPT ![c] = None]
    /\ UNCHANGED <<restart, scripts, routes, owner, loaded, queue, closed, cancelled,
                   readerVars, rootDone>>

\* Where StopScript goes when it is done: Reload goes on to StartScript.
AfterStop(c) == IF restart[c] THEN "start" ELSE "idle"

\* StopScript for a script that is not tracked: a no-op.
StopUntracked(c) ==
    /\ pc[c] = "stop" /\ supMu = None
    /\ scripts[arg[c]] = None
    /\ Leave(c, AfterStop(c))
    /\ UNCHANGED <<victim, restart, tableVars, handleVars, readerVars, rootDone>>

\* StopScript: under s.mu the handle is dropped and its routes unregistered.
\* One mutant leaves the handle in the map while the script drains, one takes
\* s.mu for the map only.
StopUntrack_KeepHandle(c) ==
    /\ pc[c] = "stop" /\ supMu = None
    /\ scripts[arg[c]] # None
    /\ supMu' = c
    /\ victim' = [victim EXCEPT ![c] = scripts[arg[c]]]
    /\ routes' = [routes EXCEPT ![arg[c]] = None]
    /\ pc' = [pc EXCEPT ![c] = "remove"]
    /\ UNCHANGED <<arg, restart, scripts, runners, handleVars, readerVars, rootDone>>

StopUntrack_Released(c) ==
    /\ pc[c] = "stop" /\ supMu = None
    /\ scripts[arg[c]] # None
    /\ victim' = [victim EXCEPT ![c] = scripts[arg[c]]]
    /\ scripts' = [scripts EXCEPT ![arg[c]] = None]
    /\ routes' = [routes EXCEPT ![arg[c]] = None]
    /\ pc' = [pc EXCEPT ![c] = "remove"]
    /\ UNCHANGED <<arg, restart, runners, supMu, handleVars, readerVars, rootDone>>

StopUntrack(c) ==
    /\ pc[c] = "stop" /\ supMu = None
    /\ scripts[arg[c]] # None
    /\ supMu' = c
    /\ victim' = [victim EXCEPT ![c] = scripts[arg[c]]]
    /\ scripts' = [scripts EXCEPT ![arg[c]] = None]
    /\ routes' = [routes EXCEPT ![arg[c]] = None]
    /\ pc' = [pc EXCEPT ![c] = "remove"]
    /\ UNCHANGED <<arg, restart, runners, handleVars, readerVars, rootDone>>

\* Still under s.mu: Registry.Remove waits for the dispatches in flight.
StopRemove(c) ==
    /\ pc[c] = "remove"
    /\ RegistryQuiet
    /\ runners' = [runners EXCEPT ![arg[c]] = None]
    /\ pc' = [pc EXCEPT ![c] = "timers"]
    /\ UNCHANGED <<arg, victim, restart, scripts, routes, supMu, handleVars, readerVars,
                   rootDone>>

\* Still under s.mu: Scheduler.RemoveScript takes Scheduler.mu, which the
\* scheduler loop holds while it dispatches.  Then s.mu is released.
StopTimers(c) ==
    /\ pc[c] = "timers"
    /\ ~ticking
    /\ supMu' = None
    /\ pc' = [pc EXCEPT ![c] = "close"]
    /\ UNCHANGED <<arg, victim, restart, scripts, runners, routes, handleVars, readerVars,
                   rootDone>>

\* Outside the lock: Runner.Close closes the event channel.
StopClose(c) ==
    /\ pc[c] = "close"
    /\ closed' = [closed EXCEPT ![victim[c]] = TRUE]
    /\ pc' = [pc EXCEPT ![c] = "drain"]
    /\ UNCHANGED <<arg, victim, restart, tableVars, owner, loop, loaded, queue, cancelled,
                   hook, readerVars, rootDone>>

\* The drain took longer than stopTimeout: the context is cancelled.
StopTimeout_NoCancel(c) ==
    /\ pc[c] = "drain"
    /\ loop[victim[c]] # "exited"
    /\ pc' = [pc EXCEPT ![c] = "abort"]
    /\ UNCHANGED <<arg, victim, restart, tableVars, handleVars, readerVars, rootDone>>

StopTimeout(c) ==
    /\ pc[c] = "drain"
    /\ loop[victim[c]] # "exited"
    /\ cancelled' = [cancelled EXCEPT ![victim[c]] = TRUE]
    /\ pc' = [pc EXCEPT ![c] = "abort"]
    /\ UNCHANGED <<arg, victim, restart, tableVars, owner, loop, loaded, queue, closed, hook,
                   readerVars, rootDone>>

\* The runner goroutine has exited (h.done is closed): StopScript returns.
StopDone(c) ==
    /\ pc[c] \in {"drain", "abort"}
    /\ loop[victim[c]] = "exited"
    /\ cancelled' = [cancelled EXCEPT ![victim[c]] = TRUE]
    /\ victim' = [victim EXCEPT ![c] = None]
    /\ Leave(c, AfterStop(c))
    /\ UNCHANGED <<restart, tableVars, owner, loop, loaded, queue, closed, hook,
                   readerVars, rootDone>>

-----------------------------------------------------------------------------
(* The runner goroutine: Runner.Start *)

\* The main chunk ran, or failed: LoadedCh is closed either way and the
\* initial states are delivered, which runs handlers.
LoadDone(h) ==
    /\ loop[h] = "loading"
    /\ loaded' = [loaded EXCEPT ![h] = TRUE]
    /\ loop' = [loop EXCEPT ![h] = "busy"]
    /\ UNCHANGED <<callerVars, tableVars, owner, queue, closed, cancelled, hook, readerVars,
                   rootDone>>

\* The event loop receives an event and runs its handlers.
Take(h) ==
    /\ loop[h] = "idle" /\ queue[h] > 0
    /\ queue' = [queue EXCEPT ![h] = @ - 1]
    /\ loop' = [loop EXCEPT ![h] = "busy"]
    /\ UNCHANGED <<callerVars, tableVars, owner, loaded, closed, cancelled, hook, readerVars,
                   rootDone>>

\* The handlers return.
Return(h) ==
    /\ loop[h] = "busy"
    /\ loop' = [loop EXCEPT ![h] = "idle"]
    /\ UNCHANGED <<callerVars, tableVars, owner, loaded, queue, closed, cancelled, hook,
                   readerVars, rootDone>>

\* The channel is closed and drained: the goroutine ends.
DrainExit_Early(h) ==
    /\ loop[h] = "idle" /\ closed[h]
    /\ loop' = [loop EXCEPT ![h] = "exited"]
    /\ UNCHANGED <<callerVars, tableVars, owner, loaded, queue, closed, cancelled, hook,
                   readerVars, rootDone>>

DrainExit(h) ==
    /\ loop[h] = "idle" /\ closed[h] /\ queue[h] = 0
    /\ loop' = [loop EXCEPT ![h] = "exited"]
    /\ UNCHANGED <<callerVars, tableVars, owner, loaded, queue, closed, cancelled, hook,
                   readerVars, rootDone>>

\* The context is done: the goroutine ends, what is queued is lost.
CtxExit(h) ==
    /\ loop[h] = "idle" /\ CtxDone(h)
    /\ loop' = [loop EXCEPT ![h] = "exited"]
    /\ UNCHANGED <<callerVars, tableVars, owner, loaded, queue, closed, cancelled, hook,
                   readerVars, rootDone>>

\* Nothing refers to the handle any more and the garbage collector takes it:
\* in the model it can stand for another generation.
Forget(h) ==
    /\ loop[h] = "exited" /\ hook[h] \in {"done", "gone"}
    /\ scripts[owner[h]] # h /\ runners[owner[h]] # h
    /\ \A c \in Callers : victim[c] # h
    /\ owner' = [owner EXCEPT ![h] = None]
    /\ loop' = [loop EXCEPT ![h] = "unused"]
    /\ loaded' = [loaded EXCEPT ![h] = FALSE]
    /\ queue' = [queue EXCEPT ![h] = 0]
    /\ closed' = [closed EXCEPT ![h] = FALSE]
    /\ cancelled' = [cancelled EXCEPT ![h] = FALSE]
    /\ hook' = [hook EXCEPT ![h] = "none"]
    /\ UNCHANGED <<callerVars, tableVars, readerVars, rootDone>>

-----------------------------------------------------------------------------
(* The script-load goroutine: afterLoad *)

IsCurrent_Unchecked(h) == TRUE
IsCurrent(h) == scripts[owner[h]] = h

\* Under s.mu: a script that is still the tracked one has its routes put in
\* the table; a script without routes has its entry deleted instead.
AfterLoad(h, hasRoutes) ==
    /\ hook[h] = "waiting" /\ loaded[h]
    /\ supMu = None
    /\ routes' = IF IsCurrent(h)
                 THEN [routes EXCEPT ![owner[h]] = IF hasRoutes THEN h ELSE None]
                 ELSE routes
    /\ hook' = [hook EXCEPT ![h] = "announce"]
    /\ UNCHANGED <<callerVars, scripts, runners, supMu, owner, loop, loaded, queue, closed,
                   cancelled, readerVars, rootDone>>

\* OnLoaded subscribes the script's event types, tracked or not.
Announce(h) ==
    /\ hook[h] = "announce"
    /\ hook' = [hook EXCEPT ![h] = "done"]
    /\ UNCHANGED <<callerVars, tableVars, owner, loop, loaded, queue, closed, cancelled,
                   readerVars, rootDone>>

\* The context ended first: the select may take this branch even when
\* LoadedCh is closed as well.
HookCancelled(h) ==
    /\ hook[h] = "waiting" /\ CtxDone(h)
    /\ hook' = [hook EXCEPT ![h] = "gone"]
    /\ UNCHANGED <<callerVars, tableVars, owner, loop, loaded, queue, closed, cancelled,
                   readerVars, rootDone>>

-----------------------------------------------------------------------------
(* Dispatchers *)

Registered == {runners[s] : s \in Scripts} \ {None}

\* Dispatch, DispatchMQTT, DispatchSyslog: take the read lock, visit every
\* registered runner.  The map cannot change while the lock is held.
DispatchBegin(d) ==
    /\ d \in Dispatchers \ readers
    /\ ~WriterWaiting
    /\ readers' = readers \cup {d}
    /\ todo' = [todo EXCEPT ![d] = Registered]
    /\ UNCHANGED <<callerVars, tableVars, handleVars, ticking, due, rootDone>>

\* fireDue takes Scheduler.mu for the whole pass over the timers that are due
\* (one per script here) ...
TickBegin(S) ==
    /\ ~ticking
    /\ ticking' = TRUE
    /\ due' = S
    /\ UNCHANGED <<callerVars, tableVars, handleVars, readers, todo, rootDone>>

\* ... and under it DispatchToTimer takes the read lock for one script.
TickDispatch(s) ==
    /\ s \in due /\ Ticker \notin readers
    /\ ~WriterWaiting
    /\ due' = due \ {s}
    /\ readers' = readers \cup {Ticker}
    /\ todo' = [todo EXCEPT ![Ticker] = {runners[s]} \ {None}]
    /\ UNCHANGED <<callerVars, tableVars, handleVars, ticking, rootDone>>

TickEnd ==
    /\ ticking /\ due = {} /\ Ticker \notin readers
    /\ ticking' = FALSE
    /\ UNCHANGED <<callerVars, tableVars, handleVars, readers, todo, due, rootDone>>

\* Runner.Send: a full queue drops the event, nobody blocks.
Send_Unbounded(d, h) ==
    /\ h \in todo[d]
    /\ queue' = [queue EXCEPT ![h] = @ + 1]
    /\ todo' = [todo EXCEPT ![d] = @ \ {h}]
    /\ UNCHANGED <<callerVars, tableVars, owner, loop, loaded, closed, cancelled, hook,
                   readers, ticking, due, rootDone>>

Send(d, h) ==
    /\ h \in todo[d]
    /\ queue' = [queue EXCEPT ![h] = IF @ < QueueCap THEN @ + 1 ELSE @]
    /\ todo' = [todo EXCEPT ![d] = @ \ {h}]
    /\ UNCHANGED <<callerVars, tableVars, owner, loop, loaded, closed, cancelled, hook,
                   readers, ticking, due, rootDone>>

\* A loaded script without a matching handler is not sent the event; a
\* script that is loading accepts everything.
Skip(d, h) ==
    /\ h \in todo[d] /\ loaded[h] /\ d # Ticker
    /\ todo' = [todo EXCEPT ![d] = @ \ {h}]
    /\ UNCHANGED <<callerVars, tableVars, handleVars, readers, ticking, due, rootDone>>

DispatchEnd(d) ==
    /\ d \in readers /\ todo[d] = {}
    /\ readers' = readers \ {d}
    /\ UNCHANGED <<callerVars, tableVars, handleVars, todo, ticking, due, rootDone>>

-----------------------------------------------------------------------------
\* SIGINT or SIGTERM: the process context, and with it every script's, ends.
Shutdown ==
    /\ ~rootDone
    /\ rootDone' = TRUE
    /\ UNCHANGED <<callerVars, tableVars, handleVars, readerVars>>

CallerStep(c) ==
    \/ StartTracked(c)
    \/ \E h \in Handles : StartTrack(c, h)
    \/ StartAdd(c)
    \/ StopUntracked(c)
    \/ StopUntrack(c)
    \/ StopRemove(c)
    \/ StopTimers(c)
    \/ StopClose(c)
    \/ StopTimeout(c)
    \/ StopDone(c)

RunnerStep(h) == LoadDone(h) \/ Take(h) \/ Return(h) \/ DrainExit(h) \/ CtxExit(h) \/ Forget(h)

HookStep(h) ==
    \/ \E hasRoutes \in BOOLEAN : AfterLoad(h, hasRoutes)
    \/ Announce(h)
    \/ HookCancelled(h)

DispatchStep(d) ==
    \/ \E h \in Handles : Send(d, h) \/ Skip(d, h)
    \/ DispatchEnd(d)

Next ==
    \/ \E c \in Callers, s \in Scripts, op \in {"start", "stop", "reload"} : Call(c, s, op)
    \/ \E c \in Callers : CallerStep(c)
    \/ \E h \in Handles : RunnerStep(h) \/ HookStep(h)
    \/ \E d \in Dispatchers : DispatchBegin(d)
    \/ \E S \in SUBSET Scripts : TickBegin(S)
    \/ \E s \in Scripts : TickDispatch(s)
    \/ TickEnd
    \/ \E d \in Readers : DispatchStep(d)
    \/ Shutdown

Spec == Init /\ [][Next]_vars

(***************************************************************************)
(* Fairness.  Every goroutine that can go on is eventually scheduled, and  *)
(* Go's mutexes hand the lock to a starving waiter (strong fairness for    *)
(* the steps that take s.mu or Scheduler.mu).  A select takes a ready case *)
(* at random, so the event loop cannot prefer its channel to ctx.Done for  *)
(* ever (strong fairness of CtxExit).  Nothing makes Lua code return: a    *)
(* main chunk or a handler may loop for ever until its context is          *)
(* cancelled, which the VM checks on every instruction.                    *)
(***************************************************************************)
TakesLock(c) ==
    StartTracked(c) \/ (\E h \in Handles : StartTrack(c, h)) \/ StopUntracked(c)
        \/ StopUntrack(c) \/ StopTimers(c)

FreeStep(c) == StartAdd(c) \/ StopRemove(c) \/ StopClose(c) \/ StopTimeout(c) \/ StopDone(c)

AbortLua(h) == CtxDone(h) /\ (LoadDone(h) \/ Return(h))

Fairness ==
    /\ \A c \in Callers : SF_vars(TakesLock(c)) /\ WF_vars(FreeStep(c))
    /\ \A h \in Handles :
          /\ WF_vars(AbortLua(h))
          /\ WF_vars(Take(h) \/ DrainExit(h) \/ Forget(h))
          /\ SF_vars(CtxExit(h))
          /\ SF_vars(\E hasRoutes \in BOOLEAN : AfterLoad(h, hasRoutes))
          /\ WF_vars(Announce(h) \/ HookCancelled(h))
    /\ \A d \in Readers : WF_vars(DispatchStep(d))
    /\ WF_vars((\E s \in Scripts : TickDispatch(s)) \/ TickEnd)

FairSpec == Spec /\ Fairness

-----------------------------------------------------------------------------
(* Properties *)

\* A dispatcher never sends to a closed channel, which would panic the
\* process: Registry.Remove returns only when the dispatches that saw the
\* runner are over, and Close comes after it (supervisor.go:193).
NoSendOnClosed ==
    \A d \in readers : \A h \in todo[d] : ~closed[h]

\* The channel of a runner is closed by one StopScript only (runner.go:287),
\* whatever stops and reloads of the same script overlap.
CloseOnce ==
    \A c \in Callers : pc[c] = "close" => ~closed[victim[c]]

\* Outside the critical sections the supervisor tracks a generation of a
\* script exactly when the registry delivers to it: a racing start never
\* ends up tracked and unregistered (supervisor.go:187).
RegistryAgrees ==
    supMu = None => runners = scripts

\* The route table never names a generation that is stopped, stopping or
\* still loading: afterLoad cannot leave a dangling mapping behind a
\* concurrent stop or reload (supervisor.go:164).
RoutesOfTracked ==
    \A s \in Scripts : routes[s] # None => routes[s] = scripts[s] /\ loaded[routes[s]]

\* A script never receives events while it is stopping: once it has left the
\* registry its queue only shrinks (supervisor.go:67).
StoppedIsSilent ==
    [][\A h \in Handles : h \notin Registered => queue'[h] <= queue[h]]_vars

\* Everything a script accepted before it was stopped is handled: its
\* goroutine leaves an event behind only if its context was cancelled.
DrainsUnlessAborted ==
    \A h \in Handles : loop[h] = "exited" /\ queue[h] > 0 => CtxDone(h)

\* Every StartScript, StopScript and Reload returns, also when the script is
\* stuck in its main chunk or in a handler, and whatever the dispatchers and
\* the scheduler loop hold.
CallsReturn ==
    \A c \in Callers : pc[c] # "idle" ~> pc[c] = "idle"

\* After SIGTERM every runner goroutine ends, so Supervisor.Wait returns.
ShutdownEnds ==
    rootDone ~> \A h \in Handles : loop[h] \in {"unused", "exited"}

=============================================================================
