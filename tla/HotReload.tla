----------------------------- MODULE HotReload ------------------------------
(***************************************************************************)
(* Hot reload: internal/lua/watcher.go over internal/lua/supervisor.go.    *)
(*                                                                         *)
(* Files in the scripts directory are written and deleted; fsnotify queues *)
(* events; ScriptWatcher.Run debounces them per script with a timer whose  *)
(* callback, on a goroutine of its own, looks at the file and calls Reload *)
(* or StopScript; LoadAll starts what it finds at startup.  A runner reads *)
(* its file once, after StartScript.                                       *)
(*                                                                         *)
(* The supervisor is that of module Supervisor.  Its dispatchers are left  *)
(* out: they change queues, and nothing here depends on a queue.           *)
(***************************************************************************)
EXTENDS Supervisor

CONSTANTS
    Main,         \* the caller that runs LoadAll; the others run callbacks
    MaxChanges    \* bound: writes and deletions of files after startup

ASSUME HotReloadAssumption == Main \in Callers /\ MaxChanges \in Nat

VARIABLES
    files,     \* the content of each script file, 0 when there is none
    changes,   \* changes made so far; a write stores the new count
    boot,      \* how far main has come
    found,     \* the files LoadAll found and has not started yet
    fsq,       \* scripts with an undelivered fsnotify event
    timer,     \* the timer in Run's map, per script
    stray,     \* armed timers that are no longer in the map
    spawned,   \* callbacks whose goroutine has started
    crossed,   \* scripts of which the latest callback contradicts a call (below)
    source     \* what each runner read: Unread, 0 (no file) or a content

watchVars == <<files, changes, boot, found, fsq, timer, stray, spawned, crossed, source>>
allVars == <<vars, watchVars>>

Unread == MaxChanges + 2

HotInit ==
    /\ Init
    /\ files \in [Scripts -> {0, 1}]
    /\ changes = 1
    /\ boot = "start"
    /\ found = {}
    /\ fsq = {}
    /\ timer = [s \in Scripts |-> "none"]
    /\ stray = [s \in Scripts |-> 0]
    /\ spawned = [s \in Scripts |-> 0]
    /\ crossed = {}
    /\ source = [h \in Handles |-> Unread]

-----------------------------------------------------------------------------
(* The scripts directory *)

\* Somebody saves or deletes a script; fsnotify sees it once it watches.  The
\* mutant starts to watch only when LoadAll has returned.
Change_Unseen(s, content) ==
    /\ changes' = changes + 1
    /\ files' = [files EXCEPT ![s] = content]
    /\ fsq' = IF boot = "running" THEN fsq \cup {s} ELSE fsq
    /\ UNCHANGED <<vars, boot, found, timer, stray, spawned, source, crossed>>

Change(s, content) ==
    /\ changes' = changes + 1
    /\ files' = [files EXCEPT ![s] = content]
    /\ fsq' = IF boot = "start" THEN fsq ELSE fsq \cup {s}
    /\ UNCHANGED <<vars, boot, found, timer, stray, spawned, source, crossed>>

Save(s) == changes <= MaxChanges /\ Change(s, changes + 1)
Delete(s) == changes <= MaxChanges /\ files[s] # 0 /\ Change(s, 0)

-----------------------------------------------------------------------------
(* main *)

\* NewScriptWatcher: the watch is active before LoadAll looks at the
\* directory.
Watch ==
    /\ boot = "start"
    /\ boot' = "watching"
    /\ UNCHANGED <<vars, files, changes, found, fsq, timer, stray, spawned, source, crossed>>

List ==
    /\ boot = "watching"
    /\ boot' = "listed"
    /\ found' = {s \in Scripts : files[s] # 0}
    /\ UNCHANGED <<vars, files, changes, fsq, timer, stray, spawned, source, crossed>>

\* LoadAll starts the files it found, one after the other.
LoadNext(s) ==
    /\ boot = "listed" /\ s \in found
    /\ Call(Main, s, "start")
    /\ found' = found \ {s}
    /\ UNCHANGED <<files, changes, boot, fsq, timer, stray, spawned, source, crossed>>

\* LoadAll has returned: the goroutine of ScriptWatcher.Run is started.
RunWatcher ==
    /\ boot = "listed" /\ found = {} /\ pc[Main] = "idle"
    /\ boot' = "running"
    /\ UNCHANGED <<vars, files, changes, found, fsq, timer, stray, spawned, source, crossed>>

-----------------------------------------------------------------------------
(* ScriptWatcher.Run *)

\* An event restarts the script's timer, or makes one.  Reset of a timer that
\* has fired but whose callback has not reached the map arms it once more.
Debounce(s) ==
    /\ boot = "running" /\ ~rootDone
    /\ s \in fsq
    /\ fsq' = fsq \ {s}
    /\ timer' = [timer EXCEPT ![s] = "armed"]
    /\ UNCHANGED <<vars, files, changes, boot, found, stray, spawned, source, crossed>>

\* debounceDelay has passed: the callback's goroutine starts.
Fire(s) ==
    /\ timer[s] = "armed"
    /\ timer' = [timer EXCEPT ![s] = "fired"]
    /\ spawned' = [spawned EXCEPT ![s] = @ + 1]
    /\ UNCHANGED <<vars, files, changes, boot, found, fsq, stray, source, crossed>>

\* A timer that is armed but no longer in the map fires as well.
FireStray(s) ==
    /\ stray[s] > 0
    /\ stray' = [stray EXCEPT ![s] = @ - 1]
    /\ spawned' = [spawned EXCEPT ![s] = @ + 1]
    /\ UNCHANGED <<vars, files, changes, boot, found, fsq, timer, source, crossed>>

\* The callback deletes the map entry, whichever timer is in it by now (an
\* armed one goes on to fire), and decides from what the file looks like.
\* The mutant starts the script without stopping it first.
Decision_Start(s) == IF files[s] # 0 THEN "start" ELSE "stop"
Decision(s) == IF files[s] # 0 THEN "reload" ELSE "stop"

\* A call of a script that has not started it yet, or not stopped it yet.
StillStarts(c, s) == arg[c] = s /\ (pc[c] = "start" \/ restart[c])
StillStops(c, s) == arg[c] = s /\ pc[c] = "stop" /\ ~restart[c]

\* Nothing orders a callback against the calls of earlier ones.
Contradicts(s) ==
    IF files[s] # 0 THEN \E d \in Callers : StillStops(d, s)
                    ELSE \E d \in Callers : StillStarts(d, s)

Callback(c, s) ==
    /\ c # Main
    /\ spawned[s] > 0
    /\ spawned' = [spawned EXCEPT ![s] = @ - 1]
    /\ timer' = [timer EXCEPT ![s] = "none"]
    /\ stray' = IF timer[s] = "armed" THEN [stray EXCEPT ![s] = @ + 1] ELSE stray
    /\ IF rootDone
         THEN UNCHANGED <<vars, crossed>>
         ELSE /\ Call(c, s, Decision(s))
              /\ crossed' = IF Contradicts(s) THEN crossed \cup {s} ELSE crossed \ {s}
    /\ UNCHANGED <<files, changes, boot, found, fsq, source>>

-----------------------------------------------------------------------------
(* The runner's DoFile reads the file, then runs it. *)

ReadFile(h) ==
    /\ loop[h] = "loading" /\ source[h] = Unread
    /\ source' = [source EXCEPT ![h] = files[owner[h]]]
    /\ UNCHANGED <<vars, files, changes, boot, found, fsq, timer, stray, spawned, crossed>>

Loaded(h) ==
    /\ source[h] # Unread
    /\ LoadDone(h)
    /\ UNCHANGED watchVars

Forgotten(h) ==
    /\ Forget(h)
    /\ source' = [source EXCEPT ![h] = Unread]
    /\ UNCHANGED <<files, changes, boot, found, fsq, timer, stray, spawned, crossed>>

\* Steps of Supervisor that do not touch a file.
SupervisorStep ==
    /\ \/ \E c \in Callers : CallerStep(c)
       \/ \E h \in Handles : Return(h) \/ DrainExit(h) \/ CtxExit(h) \/ HookStep(h)
       \/ Shutdown
    /\ UNCHANGED watchVars

HotNext ==
    \/ \E s \in Scripts : Save(s) \/ Delete(s)
    \/ Watch
    \/ List
    \/ \E s \in Scripts : LoadNext(s)
    \/ RunWatcher
    \/ \E s \in Scripts : Debounce(s) \/ Fire(s) \/ FireStray(s)
    \/ \E c \in Callers, s \in Scripts : Callback(c, s)
    \/ \E h \in Handles : ReadFile(h) \/ Loaded(h) \/ Forgotten(h)
    \/ SupervisorStep

HotSpec == HotInit /\ [][HotNext]_allVars

-----------------------------------------------------------------------------
(* Properties *)

\* Nothing is on its way any more: no event, no timer, no callback, no call.
Quiet ==
    /\ boot = "running" /\ ~rootDone
    /\ fsq = {}
    /\ \A s \in Scripts : timer[s] = "none" /\ stray[s] = 0 /\ spawned[s] = 0
    /\ \A c \in Callers : pc[c] = "idle"

\* Once things are quiet no generation that runs is older than its file,
\* whatever saves, deletions, overlapping reloads and drains came before: no
\* change is absorbed by a reload that read the file too early.
NoStaleCode ==
    Quiet => \A s \in Scripts : files[s] # 0 /\ scripts[s] # None =>
                source[scripts[s]] \in {Unread, files[s]}

\* "act on the settled state of the file: present means (re)load, absent
\* means stop" (watcher.go:83): once things are quiet a script is tracked
\* exactly when its file exists.  Nothing is missed between LoadAll and the
\* watch (watcher.go:27), no timer swallows the last change (watcher.go:88),
\* and overlapping reloads leave no saved script stopped.  The known exception
\* is a last callback that decided while a call that wants the opposite was
\* still on its way (watcher.go:99): the two may take s.mu in either order.
SettledUnlessCrossed ==
    Quiet => \A s \in Scripts \ crossed : files[s] # 0 <=> scripts[s] # None

=============================================================================
