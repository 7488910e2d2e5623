----------------------------- MODULE Scheduler ------------------------------
(***************************************************************************)
(* The timers of one script: internal/scheduler/scheduler.go (the timers   *)
(* table, the heap and the loop that fires what is due), the registrations *)
(* of internal/lua/api_ha.go, and the pruning the runner does once it has  *)
(* loaded.  Scripts share only the lock and the loop.                      *)
(*                                                                         *)
(* The generations of the script follow module Supervisor: one is tracked  *)
(* at most, a stop takes its timers out while its goroutine may still be   *)
(* loading or draining, and the next one may start before it has ended.    *)
(*                                                                         *)
(* The id of an every or at timer is stable (script|type|spec|N): another  *)
(* generation that registers it means the same row.  The id of an after    *)
(* timer is random.                                                        *)
(***************************************************************************)
EXTENDS Integers, FiniteSets, FiniteSetsExt

CONSTANTS
    Every,      \* ids of interval timers
    At,         \* ids of daily timers
    After,      \* ids of one-shot timers; bounds how many are ever made
    NoId,       \* none of them
    Scripts,    \* sets of ids, each the timers of one script to check
    Interval,   \* of the every and after timers
    Day,
    MaxTime,    \* bound: the clock
    MaxGens,    \* bound: generations of the script
    Restored    \* timers an earlier run of the process may have left a row of

ASSUME SchedulerAssumption ==
    /\ Interval \in Nat \ {0} /\ Day \in Nat \ {0}
    /\ MaxTime \in Nat \ {0} /\ MaxGens \in Nat
    /\ Restored \subseteq Every \cup At /\ After \cap (Every \cup At) = {}

Stable == Every \cup At     \* an id that stays the same over reloads
Ids == Stable \cup After
Gens == 1..MaxGens

VARIABLES
    script,    \* the timers its source registers; never changes
    clock,
    rows,      \* timers table: id -> next_run, or NoRow
    heap,      \* Scheduler.heap: who registered which id, and its nextRun
    loop,      \* the scheduler goroutine; it holds Scheduler.mu while it fires
    wake,      \* Scheduler.wake holds a token
    tracked,   \* the generation the supervisor tracks, or 0
    stopping,  \* StopScript is between the two halves of RemoveScript
    gen,       \* the goroutine of each generation
    reg,       \* the registration each of them is in
    timerFns,  \* the timers each has registered; its keepIDs, until it prunes
    lastFire,  \* history variable: when each timer fired last, 0 for never
    pruned,    \* history variable: ids whose row was pruned while in use
    failed     \* history variable: ids whose last update of the row failed

genVars  == <<tracked, stopping, gen, reg, timerFns>>
loopVars == <<loop, wake>>
ghostVars == <<lastFire, pruned, failed>>
vars == <<script, clock, rows, heap, loopVars, genVars, ghostVars>>

NoRow == 0
Horizon == MaxTime + Interval + Day
Never == Horizon + 1            \* the loop's hour, longer than the model runs
NoReg == [at |-> "none", id |-> NoId, next |-> 0]
Entries == [id : Ids, by : Gens, next : 1..Horizon]
Loops == [at : {"fire", "plan", "sleep"}, now : 0..MaxTime, until : 1..Never]
Regs == [at : {"none", "inserted", "read", "wake", "raised"}, id : Ids \cup {NoId}, next : 0..Horizon]

TypeOK ==
    /\ script \in Scripts /\ clock \in 1..MaxTime
    /\ rows \in [Ids -> 0..Horizon]
    /\ heap \subseteq Entries
    /\ loop \in Loops /\ wake \in BOOLEAN
    /\ tracked \in 0..MaxGens /\ stopping \in BOOLEAN
    /\ gen \in [Gens -> {"none", "loading", "running", "exited"}]
    /\ reg \in [Gens -> Regs]
    /\ timerFns \in [Gens -> SUBSET Ids]
    /\ lastFire \in [Stable -> 0..MaxTime]
    /\ pruned \subseteq Stable /\ failed \subseteq Ids

LoopStart(t) == [at |-> "fire", now |-> t, until |-> Never]

\* The process starts: cleanOrphans has deleted the after rows an earlier one
\* left, the others are still there.
Init ==
    /\ clock = 1
    /\ script \in Scripts
    /\ rows \in [Ids -> 0..(1 + Interval)]
    /\ \A i \in Ids : rows[i] # NoRow => i \in Restored \cap script
    /\ heap = {}
    /\ loop = LoopStart(1) /\ wake = FALSE
    /\ tracked = 0 /\ stopping = FALSE
    /\ gen = [g \in Gens |-> "none"]
    /\ reg = [g \in Gens |-> NoReg]
    /\ timerFns = [g \in Gens |-> {}]
    /\ lastFire = [i \in Stable |-> 0]
    /\ pruned = {} /\ failed = {}

\* Scheduler.mu is held for the whole of fireDue.
LockFree == loop.at # "fire"

\* parseInterval and nextAt: an interval from now, or the next time the
\* wall clock shows the spec's time (a multiple of Day here), never now.
NextRun(id, now) ==
    IF id \in At THEN (now \div Day + 1) * Day ELSE now + Interval

-----------------------------------------------------------------------------
(* Generations *)

Start(g) ==
    /\ tracked = 0 /\ ~stopping
    /\ gen[g] = "none" /\ \A f \in Gens : f < g => gen[f] # "none"
    /\ tracked' = g
    /\ gen' = [gen EXCEPT ![g] = "loading"]
    /\ UNCHANGED <<script, clock, rows, heap, loopVars, stopping, reg, timerFns, ghostVars>>

InUse(i) == (\E e \in heap : e.id = i) \/ (\E g \in Gens : reg[g].id = i)

\* ha.every, ha.at and ha.after from the main chunk, ha.after from a callback.
\* insert: INSERT OR IGNORE, a row that exists wins.
MayRegister(g, id) ==
    /\ id \in script /\ reg[g].at = "none" /\ id \notin timerFns[g]
    /\ \/ gen[g] = "loading"
       \/ gen[g] = "running" /\ id \in After
    /\ id \in After =>
         rows[id] = NoRow /\ ~InUse(id) /\ \A f \in Gens : id \notin timerFns[f]

Insert(g, id) ==
    /\ MayRegister(g, id)
    /\ rows' = [rows EXCEPT ![id] = IF @ = NoRow THEN NextRun(id, clock) ELSE @]
    /\ reg' = [reg EXCEPT ![g] = [at |-> "inserted", id |-> id, next |-> 0]]
    /\ UNCHANGED <<script, clock, heap, loopVars, tracked, stopping, gen, timerFns,
                   ghostVars>>

\* insert: the stored next_run is read back.  If another goroutine has deleted
\* the row the call raises a Lua error, which ends the main chunk or callback.
ReadBack_Unchecked(g) ==
    /\ reg[g].at = "inserted"
    /\ reg' = [reg EXCEPT ![g].at = "read", ![g].next = rows[reg[g].id]]
    /\ UNCHANGED <<script, clock, rows, heap, loopVars, tracked, stopping, gen, timerFns,
                   ghostVars>>

ReadBack_Fresh(g) ==
    /\ reg[g].at = "inserted"
    /\ reg' = [reg EXCEPT ![g].at = "read", ![g].next = NextRun(reg[g].id, clock)]
    /\ UNCHANGED <<script, clock, rows, heap, loopVars, tracked, stopping, gen, timerFns,
                   ghostVars>>

ReadBack(g) ==
    /\ reg[g].at = "inserted"
    /\ reg' = [reg EXCEPT ![g] =
                 IF rows[@.id] # NoRow THEN [@ EXCEPT !.at = "read", !.next = rows[reg[g].id]]
                 ELSE IF gen[g] = "loading" THEN [NoReg EXCEPT !.at = "raised"]
                 ELSE NoReg]
    /\ UNCHANGED <<script, clock, rows, heap, loopVars, tracked, stopping, gen, timerFns,
                   ghostVars>>

\* insert: under the lock, onto the heap.
Push(g) ==
    /\ reg[g].at = "read" /\ LockFree
    /\ heap' = heap \cup {[id |-> reg[g].id, by |-> g, next |-> reg[g].next]}
    /\ reg' = [reg EXCEPT ![g] = [@ EXCEPT !.at = "wake", !.next = 0]]
    /\ UNCHANGED <<script, clock, rows, loopVars, tracked, stopping, gen, timerFns,
                   ghostVars>>

\* insert: outside the lock, a token for the loop unless there is one.  Back in
\* Lua the id is noted for the prune.
Wake_Lost(g) ==
    /\ reg[g].at = "wake"
    /\ timerFns' = [timerFns EXCEPT ![g] = @ \cup {reg[g].id}]
    /\ reg' = [reg EXCEPT ![g] = NoReg]
    /\ UNCHANGED <<script, clock, rows, heap, loopVars, tracked, stopping, gen, ghostVars>>

Wake(g) ==
    /\ reg[g].at = "wake"
    /\ wake' = TRUE
    /\ timerFns' = [timerFns EXCEPT ![g] = @ \cup {reg[g].id}]
    /\ reg' = [reg EXCEPT ![g] = NoReg]
    /\ UNCHANGED <<script, clock, rows, heap, loop, tracked, stopping, gen, ghostVars>>

\* The main chunk has run: PruneScript deletes the rows it did not register,
\* unless the context of a generation that was stopped is done.
Prune(g) ==
    /\ gen[g] = "loading" /\ reg[g].at \in {"none", "raised"}
    /\ gen' = [gen EXCEPT ![g] = "running"]
    /\ reg' = [reg EXCEPT ![g] = NoReg]
    /\ \/ /\ rows' = [i \in Ids |-> IF i \in timerFns[g] THEN rows[i] ELSE NoRow]
          /\ pruned' = pruned \cup {i \in Stable \ timerFns[g] : InUse(i)}
       \/ g # tracked /\ UNCHANGED <<rows, pruned>>
    /\ UNCHANGED <<script, clock, heap, loopVars, tracked, stopping, timerFns, lastFire,
                   failed>>

\* A generation that was stopped has drained.
Exit(g) ==
    /\ gen[g] = "running" /\ g # tracked /\ reg[g].at = "none"
    /\ gen' = [gen EXCEPT ![g] = "exited"]
    /\ timerFns' = [timerFns EXCEPT ![g] = {}]
    /\ UNCHANGED <<script, clock, rows, heap, loopVars, tracked, stopping, reg, ghostVars>>

\* RemoveScript: the heap under the lock ...
RemoveHeap ==
    /\ tracked # 0 /\ LockFree
    /\ heap' = {} /\ pruned' = {}
    /\ tracked' = 0 /\ stopping' = TRUE
    /\ UNCHANGED <<script, clock, rows, loopVars, gen, reg, timerFns, lastFire, failed>>

\* ... then the after rows; the others carry the schedule to the next load.  The
\* statement may fail.
RemoveRows ==
    /\ stopping
    /\ rows' \in {rows, [i \in Ids |-> IF i \in After THEN NoRow ELSE rows[i]]}
    /\ stopping' = FALSE
    /\ UNCHANGED <<script, clock, heap, loopVars, tracked, gen, reg, timerFns, ghostVars>>

-----------------------------------------------------------------------------
(* The scheduler goroutine *)

\* The time a recurring timer is rescheduled to: from now, never from the
\* deadline it had.
Reschedule_FromDeadline(e) == NextRun(e.id, e.next)
Reschedule(e) == NextRun(e.id, loop.now)

Due == {e \in heap : e.next <= loop.now}

\* fire, for the head of the heap.  The write to the row may fail.  (That it drops a
\* spec it cannot parse is for none: each was parsed when it was registered.)
Fire(e) ==
    /\ loop.at = "fire" /\ e \in Due
    /\ \A f \in heap : e.next <= f.next
    /\ heap' = (heap \ {e}) \cup
                  (IF e.id \in After THEN {} ELSE {[e EXCEPT !.next = Reschedule(e)]})
    /\ lastFire' = [i \in Stable |-> IF i = e.id THEN loop.now ELSE lastFire[i]]
    /\ \/ /\ rows' = [rows EXCEPT ![e.id] =
                         IF @ = NoRow \/ e.id \in After THEN NoRow ELSE Reschedule(e)]
          /\ failed' = failed \ {e.id}
       \/ /\ failed' = failed \cup {e.id}
          /\ UNCHANGED rows
    /\ UNCHANGED <<script, clock, loopVars, genVars, pruned>>

\* fireDue returns and gives the lock back.
FireDone ==
    /\ loop.at = "fire" /\ Due = {}
    /\ loop' = [at |-> "plan", now |-> 0, until |-> Never]
    /\ UNCHANGED <<script, clock, rows, heap, wake, genVars, ghostVars>>

\* The loop looks at the head of the heap and goes to sleep until then.
Plan ==
    /\ loop.at = "plan"
    /\ loop' = [loop EXCEPT !.at = "sleep",
                            !.until = IF heap = {} THEN Never ELSE Min({e.next : e \in heap})]
    /\ UNCHANGED <<script, clock, rows, heap, wake, genVars, ghostVars>>

\* A token or the deadline ends the sleep.
Awake ==
    /\ loop.at = "sleep"
    /\ \/ wake /\ wake' = FALSE
       \/ loop.until <= clock /\ UNCHANGED wake
    /\ loop' = LoopStart(clock)
    /\ UNCHANGED <<script, clock, rows, heap, genVars, ghostVars>>

-----------------------------------------------------------------------------
Tick ==
    /\ clock < MaxTime
    /\ clock' = clock + 1
    /\ UNCHANGED <<script, rows, heap, loopVars, genVars, ghostVars>>

Next ==
    \/ \E g \in Gens :
         \/ Start(g) \/ ReadBack(g) \/ Push(g) \/ Wake(g) \/ Prune(g) \/ Exit(g)
         \/ \E id \in Ids : Insert(g, id)
    \/ RemoveHeap \/ RemoveRows
    \/ \E e \in heap : Fire(e)
    \/ FireDone \/ Plan \/ Awake
    \/ Tick

Spec == Init /\ [][Next]_vars

\* The scheduler goroutine runs, and a registration that has pushed its timer
\* goes on to send the token.
Fairness ==
    /\ WF_vars((\E e \in heap : Fire(e)) \/ FireDone \/ Plan \/ Awake)
    /\ \A g \in Gens : WF_vars(Wake(g))

FairSpec == Spec /\ Fairness

-----------------------------------------------------------------------------
(* Properties *)

\* The loop never sleeps past a timer: whatever was pushed since it looked at
\* the heap, a token is there or on its way (scheduler.go:253).
NoOversleep ==
    loop.at = "sleep" =>
        \/ \A e \in heap : loop.until <= e.next
        \/ wake \/ \E g \in Gens : reg[g].at = "wake"

\* The timers that only the tracked generation has in the heap.
Own == {e \in heap : e.by = tracked /\ \A f \in heap : f.id = e.id => f = e}

\* The table carries the schedule: a recurring timer in the heap has its
\* deadline in its row, through reloads, fires, prunes and restarts.  Not so,
\* in this code, once a generation that was stopped while it loaded has pushed
\* the timer too or pruned the row, or when the row could not be written.
TableMatchesHeap ==
    \A e \in Own : e.id \in Stable \ (pruned \cup failed) => rows[e.id] = e.next

Fired(e) == ~LockFree /\ e \in heap \ heap'

\* A timer missed during downtime fires once instead of replaying every
\* missed interval (scheduler.go:297), and a reload does not make it fire
\* early: two fires of it are its period apart.  Exceptions as above.
FiresApart ==
    [][\A e \in Own :
          Fired(e) /\ e.id \in Stable \ failed /\ lastFire[e.id] # 0 =>
              loop.now >= NextRun(e.id, lastFire[e.id])]_vars

\* The loop always catches up with the clock: whatever is due is fired, or
\* goes with its script.
DueFires == []<>(\A e \in heap : e.next > clock)

=============================================================================
