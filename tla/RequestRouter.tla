--------------------------- MODULE RequestRouter ----------------------------
(***************************************************************************)
(* The HTTP requests of the script-driven UI, internal/lua/router.go:      *)
(* connection goroutines hand a request to the goroutine of the script     *)
(* that serves it and wait, at most the request timeout, for the reply.    *)
(* Next to them the rest of what meets in the script's run loop: its       *)
(* events, the verdicts of ha.call_service { wait = false }, and the       *)
(* reloads of the script.  One script; its generations are numbered in the *)
(* order of their starts.  Reloads that overlap are in Supervisor.         *)
(***************************************************************************)
EXTENDS Naturals, Sequences, SequencesExt, FiniteSets

CONSTANTS
    Clients,      \* one request each
    Asked,        \* client -> its [mounted, method, path]
    Files,        \* sets of routes, each what one version of the script serves
    Calls,        \* calls of ha.call_service { wait = false }
    AsyncCap,     \* capacity of asyncErrCh
    MaxGens       \* bound: starts of the script

Gens == 1..MaxGens
None == 0
Nothing == "nothing"
Event == "event"

ASSUME RouterAssumption ==
    AsyncCap \in Nat \ {0} /\ MaxGens \in Nat /\ {Nothing, Event} \cap Clients = {}

VARIABLES
    table,     \* Router.routes of the script
    tracked,   \* the generation the Supervisor and the Registry hold, or None
    gen,       \* the newest generation
    op,        \* where Reload or StopScript is
    stopped,   \* the generation it stops
    runner,    \* generation -> where its run loop is
    work,      \* generation -> what it handles: a client, Event or Nothing
    routes,    \* generation -> the routes its main chunk registers
    closed, cancelled,  \* generations whose ch is closed, whose context is done
    afterLoad, \* generations whose script-load goroutine has not called afterLoad
    req,       \* client -> where its connection goroutine is
    runnerOf,  \* client -> the generation Registry.Get gave it
    reply,     \* client -> its reply channel, of capacity 1
    call,      \* call -> [st, gen]
    asyncErrCh \* generation -> failures queued for on_exception

scriptVars == <<table, tracked, gen, op, stopped, routes, closed, cancelled, afterLoad>>
loopVars == <<runner, work, asyncErrCh>>
clientVars == <<req, runnerOf, reply>>
vars == <<scriptVars, loopVars, clientVars, call>>

Init ==
    /\ table = {} /\ tracked = None /\ gen = 0
    /\ op = "idle" /\ stopped = None
    /\ runner = [g \in Gens |-> "none"] /\ work = [g \in Gens |-> Nothing]
    /\ routes = [g \in Gens |-> {}]
    /\ closed = {} /\ cancelled = {} /\ afterLoad = {}
    /\ req = [c \in Clients |-> "new"] /\ runnerOf = [c \in Clients |-> None]
    /\ reply = [c \in Clients |-> "empty"]
    /\ call = [k \in Calls |-> [st |-> "new", gen |-> None]]
    /\ asyncErrCh = [g \in Gens |-> <<>>]

-----------------------------------------------------------------------------
(* The route tables *)

Serves(route, method, path) == route.method = method /\ IsPrefix(route.prefix, path)

\* Router.match: any prefix of the path will do.
match(c) == \E r \in table : Serves(r, Asked[c].method, Asked[c].path)

\* The script's own routes decide: the one with the longest prefix, if any fits.
matchRoute(g, c) ==
    LET fit == {r \in routes[g] : Serves(r, Asked[c].method, Asked[c].path)}
    IN  {r \in fit : \A q \in fit : Len(q.prefix) <= Len(r.prefix)}

-----------------------------------------------------------------------------
(* The supervisor: start, stop and reload *)

StartScript ==
    /\ op = "idle" /\ tracked = None /\ gen < MaxGens
    /\ gen' = gen + 1 /\ tracked' = gen + 1
    /\ runner' = [runner EXCEPT ![gen + 1] = "loading"]
    /\ afterLoad' = afterLoad \cup {gen + 1}
    /\ \E file \in Files : routes' = [routes EXCEPT ![gen + 1] = file]
    /\ UNCHANGED <<table, op, stopped, closed, cancelled, work, asyncErrCh, clientVars, call>>

\* Under Supervisor.mu: the routes go first, then the runner leaves the registry.
StopUnregisters ==
    /\ op = "idle" /\ tracked # None
    /\ table' = {} /\ stopped' = tracked /\ op' = "removing"
    /\ UNCHANGED <<tracked, gen, routes, closed, cancelled, afterLoad, loopVars, clientVars, call>>

StopRemoves ==
    /\ op = "removing"
    /\ tracked' = None /\ closed' = closed \cup {stopped} /\ op' = "draining"
    /\ UNCHANGED <<table, gen, stopped, routes, cancelled, afterLoad, loopVars, clientVars, call>>

\* stopTimeout has passed and the context of the VM is cancelled.
StopAborts ==
    /\ op = "draining" /\ runner[stopped] # "ended" /\ stopped \notin cancelled
    /\ cancelled' = cancelled \cup {stopped}
    /\ UNCHANGED <<table, tracked, gen, op, stopped, routes, closed, afterLoad, loopVars, clientVars, call>>

\* The goroutine has ended.  A reload goes on to start the file as it is by then, if
\* there still is one.
StopReturns ==
    /\ op = "draining" /\ runner[stopped] = "ended"
    /\ cancelled' = cancelled \cup {stopped}
    /\ op' = "idle" /\ stopped' = None
    /\ UNCHANGED <<table, tracked, gen, routes, closed, afterLoad, loopVars, clientVars, call>>

\* The script-load goroutine registers the routes of a script that is still
\* tracked, under the lock a stop holds; or it has seen the context end instead.
AfterLoad(g) ==
    /\ g \in afterLoad /\ runner[g] \notin {"none", "loading"} /\ op # "removing"
    /\ afterLoad' = afterLoad \ {g}
    /\ \/ table' = IF tracked = g THEN routes[g] ELSE table
       \/ g \in cancelled /\ UNCHANGED table
    /\ UNCHANGED <<tracked, gen, op, stopped, routes, closed, cancelled, loopVars, clientVars, call>>

-----------------------------------------------------------------------------
(* The connection goroutines *)

\* The client has an answer, or has hung up.
Answered(c) == req' = [req EXCEPT ![c] = "done"]

\* ServeHTTP up to the lookup of the runner: a path that is not below a script's
\* mount is refused or redirected, one the table does not know is not found.
ServeHTTP(c) ==
    /\ req[c] = "new"
    /\ IF Asked[c].mounted /\ match(c)
       THEN req' = [req EXCEPT ![c] = "matched"]
       ELSE Answered(c)
    /\ UNCHANGED <<scriptVars, loopVars, runnerOf, reply, call>>

\* Registry.Get finds no script any more, or the body is read and not too large.
GetRunner(c) ==
    /\ req[c] = "matched"
    /\ \/ Answered(c) /\ UNCHANGED runnerOf
       \/ /\ tracked # None
          /\ req' = [req EXCEPT ![c] = "sending"] /\ runnerOf' = [runnerOf EXCEPT ![c] = tracked]
    /\ UNCHANGED <<scriptVars, loopVars, reply, call>>

\* The deadline, in either direction, or the client hangs up.
Deadline(c) ==
    /\ req[c] \in {"sending", "waiting"}
    /\ Answered(c)
    /\ UNCHANGED <<scriptVars, loopVars, runnerOf, reply, call>>

TakeReply(c) ==
    /\ req[c] = "waiting" /\ reply[c] # "empty"
    /\ Answered(c) /\ reply' = [reply EXCEPT ![c] = "empty"]
    /\ UNCHANGED <<scriptVars, loopVars, runnerOf, call>>

-----------------------------------------------------------------------------
(* The run loop of a generation *)

\* The main chunk is through, or has failed, which keeps no script from running;
\* the handlers of the initial states come first.
LoadEnds(g) ==
    /\ runner[g] = "loading"
    /\ runner' = [runner EXCEPT ![g] = "handling"] /\ work' = [work EXCEPT ![g] = Event]
    /\ UNCHANGED <<scriptVars, asyncErrCh, clientVars, call>>

\* reqCh has no buffer: a request is accepted as it is sent, also by a loop whose
\* channel is closed, when select so chooses.
AcceptRequest(g, c) ==
    /\ runner[g] = "selecting" /\ req[c] = "sending" /\ runnerOf[c] = g
    /\ req' = [req EXCEPT ![c] = "waiting"]
    /\ runner' = [runner EXCEPT ![g] = "handling"] /\ work' = [work EXCEPT ![g] = c]
    /\ UNCHANGED <<scriptVars, asyncErrCh, runnerOf, reply, call>>

AcceptEvent(g) ==
    /\ runner[g] = "selecting" /\ g \notin closed
    /\ runner' = [runner EXCEPT ![g] = "handling"] /\ work' = [work EXCEPT ![g] = Event]
    /\ UNCHANGED <<scriptVars, asyncErrCh, clientVars, call>>

\* The script calls a service and goes on; a goroutine waits for the verdict.
CallServiceNoWait(g, k) ==
    /\ runner[g] \in {"loading", "handling"} /\ call[k].st = "new"
    /\ call' = [call EXCEPT ![k] = [st |-> "waiting", gen |-> g]]
    /\ UNCHANGED <<scriptVars, loopVars, clientVars>>

\* A handler that never returns, until its context is cancelled.
Hangs(g) ==
    /\ runner[g] = "handling" /\ g \notin cancelled
    /\ runner' = [runner EXCEPT ![g] = "hung"]
    /\ UNCHANGED <<scriptVars, work, asyncErrCh, clientVars, call>>

Returns(g) == runner[g] = "handling" \/ (runner[g] = "hung" /\ g \in cancelled)

\* handleRequest replies whatever happens: no route, the handler's own answer, its
\* error, or the abort of the VM.
Outcomes(g, c) == IF matchRoute(g, c) = {} THEN {"no_route"} ELSE {"ok", "error"}
HandlerReturns_NoDefer(g) ==
    /\ Returns(g)
    /\ \/ work[g] = Event /\ UNCHANGED reply
       \/ /\ work[g] # Event
          /\ \E status \in Outcomes(g, work[g]) :
                reply' = IF status = "error" THEN reply ELSE [reply EXCEPT ![work[g]] = status]
    /\ runner' = [runner EXCEPT ![g] = "selecting"] /\ work' = [work EXCEPT ![g] = Nothing]
    /\ UNCHANGED <<scriptVars, asyncErrCh, req, runnerOf, call>>
HandlerReturns_Unbuffered(g) ==
    /\ Returns(g)
    /\ \/ work[g] = Event /\ UNCHANGED reply
       \/ /\ work[g] # Event /\ req[work[g]] = "waiting"
          /\ \E status \in Outcomes(g, work[g]) : reply' = [reply EXCEPT ![work[g]] = status]
    /\ runner' = [runner EXCEPT ![g] = "selecting"] /\ work' = [work EXCEPT ![g] = Nothing]
    /\ UNCHANGED <<scriptVars, asyncErrCh, req, runnerOf, call>>
HandlerReturns(g) ==
    /\ Returns(g)
    /\ \/ work[g] = Event /\ UNCHANGED reply
       \/ /\ work[g] # Event
          /\ \E status \in Outcomes(g, work[g]) : reply' = [reply EXCEPT ![work[g]] = status]
    /\ runner' = [runner EXCEPT ![g] = "selecting"] /\ work' = [work EXCEPT ![g] = Nothing]
    /\ UNCHANGED <<scriptVars, asyncErrCh, req, runnerOf, call>>

\* A failure of an earlier call reaches on_exception, a handler like any other.
ReportFailure(g) ==
    /\ runner[g] = "selecting" /\ asyncErrCh[g] # <<>>
    /\ call' = [call EXCEPT ![Head(asyncErrCh[g])].st = "reported"]
    /\ asyncErrCh' = [asyncErrCh EXCEPT ![g] = Tail(@)]
    /\ runner' = [runner EXCEPT ![g] = "handling"] /\ work' = [work EXCEPT ![g] = Event]
    /\ UNCHANGED <<scriptVars, clientVars>>

\* The closed channel, after the last window, or the done context.
LoopEnds(g) ==
    /\ runner[g] = "selecting" /\ g \in closed \cup cancelled
    /\ runner' = [runner EXCEPT ![g] = "ended"]
    /\ UNCHANGED <<scriptVars, work, asyncErrCh, clientVars, call>>

-----------------------------------------------------------------------------
(* The goroutines that wait for the verdict of a call *)

\* Home Assistant has answered, or the connection to it is given up.
VerdictArrives(k) ==
    /\ call[k].st = "waiting"
    /\ \E st \in {"failed", "accepted"} : call' = [call EXCEPT ![k].st = st]
    /\ UNCHANGED <<scriptVars, loopVars, clientVars>>

\* The failure is handed to the loop, or the script's context ends first.
HandOver_Drops(k) ==
    /\ call[k].st = "failed"
    /\ \/ /\ Len(asyncErrCh[call[k].gen]) < AsyncCap
          /\ asyncErrCh' = [asyncErrCh EXCEPT ![call[k].gen] = Append(@, k)]
          /\ call' = [call EXCEPT ![k].st = "queued"]
       \/ /\ Len(asyncErrCh[call[k].gen]) = AsyncCap
          /\ call' = [call EXCEPT ![k].st = "dropped"] /\ UNCHANGED asyncErrCh
    /\ UNCHANGED <<scriptVars, runner, work, clientVars>>
HandOver(k) ==
    /\ call[k].st = "failed"
    /\ \/ /\ Len(asyncErrCh[call[k].gen]) < AsyncCap
          /\ asyncErrCh' = [asyncErrCh EXCEPT ![call[k].gen] = Append(@, k)]
          /\ call' = [call EXCEPT ![k].st = "queued"]
       \/ /\ call[k].gen \in cancelled
          /\ call' = [call EXCEPT ![k].st = "dropped"] /\ UNCHANGED asyncErrCh
    /\ UNCHANGED <<scriptVars, runner, work, clientVars>>

-----------------------------------------------------------------------------
Loop(g) ==
    \/ LoadEnds(g) \/ AcceptEvent(g) \/ Hangs(g) \/ HandlerReturns(g)
    \/ ReportFailure(g) \/ LoopEnds(g)
    \/ \E c \in Clients : AcceptRequest(g, c)
    \/ \E k \in Calls : CallServiceNoWait(g, k)

Next ==
    \/ StartScript \/ StopUnregisters \/ StopRemoves \/ StopAborts \/ StopReturns
    \/ \E g \in Gens : AfterLoad(g) \/ Loop(g)
    \/ \E c \in Clients : ServeHTTP(c) \/ GetRunner(c) \/ Deadline(c) \/ TakeReply(c)
    \/ \E k \in Calls : VerdictArrives(k) \/ HandOver(k)

Spec == Init /\ [][Next]_vars

\* Goroutines run, stopTimeout passes, a cancelled VM comes back, Home Assistant's
\* verdict is bounded by the client; a main chunk or a handler that was not
\* cancelled owes nothing but that it either returns or hangs.  select picks among
\* the ready cases at random, so none is passed over for ever.
Fairness ==
    /\ WF_vars(StopRemoves) /\ WF_vars(StopAborts) /\ WF_vars(StopReturns)
    /\ \A g \in Gens :
        /\ WF_vars(LoadEnds(g) /\ g \in cancelled) /\ WF_vars(Hangs(g) \/ HandlerReturns(g))
        /\ WF_vars(LoopEnds(g)) /\ SF_vars(ReportFailure(g))
    /\ \A k \in Calls : WF_vars(VerdictArrives(k)) /\ SF_vars(HandOver(k))

FairSpec == Spec /\ Fairness

-----------------------------------------------------------------------------
(* Properties *)

\* Whatever becomes of the handler - an error, the abort of a stop, a client that has
\* given up - a request the loop has taken and is through with has its reply: no
\* connection goroutine is left to its deadline by a runner that is gone.
AcceptedIsAnswered ==
    \A c \in Clients :
        req[c] = "waiting" /\ work[runnerOf[c]] # c => reply[c] # "empty"

\* A stop comes back whatever the connection goroutines do: the reply of a handler
\* nobody waits for any more does not block its script.
StopEnds == op = "draining" ~> op # "draining"

\* A service call that failed reaches on_exception, however many fail at once, unless
\* its script never comes out of its main chunk or of a handler, or is stopped.
FailuresReported ==
    \A k \in Calls :
        call[k].st \in {"failed", "queued"} ~>
            \/ call[k].st = "reported"
            \/ \E g \in Gens : call[k].gen = g /\ (g \in closed \cup cancelled \/ runner[g] \in {"loading", "hung"})

=============================================================================
