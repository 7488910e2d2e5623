-------------------------- MODULE SchedulerProofs ---------------------------
(***************************************************************************)
(* Proofs about Scheduler for all sets of timers, any interval, horizon    *)
(* and number of generations.                                              *)
(*                                                                         *)
(* Own timers are those the tracked generation alone has in the heap.  A   *)
(* stable id that got into the heap leaves it only with the script, so a   *)
(* timer that is alone has not been fired or pushed by another generation  *)
(* since its row was read: its row is its deadline (RowInv), and a row is  *)
(* never earlier than one period after the last fire (ApartInv).           *)
(***************************************************************************)
EXTENDS Scheduler, WellFoundedInduction, TLAPS

TimeInv ==
    /\ loop.at = "fire" => loop.now <= clock
    /\ \A i \in Stable : lastFire[i] <= clock

\* A generation pushes each of its timers once.
GenInv ==
    /\ \A g \in Gens : gen[g] = "none" =>
          reg[g] = NoReg /\ timerFns[g] = {} /\ \A e \in heap : e.by # g
    /\ \A g \in Gens : gen[g] = "exited" => reg[g].at = "none"
    /\ \A g \in Gens : reg[g].at \in {"inserted", "read", "wake"} => reg[g].id \in Ids
    /\ \A g \in Gens : reg[g].at = "read" => reg[g].next # 0
    /\ \A e \in heap : gen[e.by] # "exited" =>
          e.id \in timerFns[e.by] \/ (reg[e.by].at = "wake" /\ reg[e.by].id = e.id)
    /\ \A g \in Gens : reg[g].at \in {"inserted", "read"} =>
          reg[g].id \notin timerFns[g] /\ \A e \in heap : e.by = g => e.id # reg[g].id
    /\ \A e, f \in heap : e.id = f.id /\ e.by = f.by => e = f

\* The tracked generation has read the row of a recurring timer that is in no heap yet.
HasRead(g, id) ==
    /\ g = tracked /\ reg[g].at = "read" /\ reg[g].id = id /\ id \in Stable
    /\ \A e \in heap : e.id # id

RowInv ==
    /\ TableMatchesHeap
    /\ \A e \in heap : e.by = tracked /\ e.id \in Stable \ pruned => rows[e.id] # NoRow
    /\ \A g \in Gens : g = tracked /\ reg[g].at = "read" /\ reg[g].id \in Stable \ pruned =>
          rows[reg[g].id] # NoRow
    /\ \A g \in Gens, id \in Stable \ (pruned \cup failed) : HasRead(g, id) => rows[id] = reg[g].next

\* next is at least one period after the last fire.
Apart(id, next) == lastFire[id] # 0 => next >= NextRun(id, lastFire[id])

ApartInv ==
    /\ \A e \in Own : e.id \in Stable \ failed => Apart(e.id, e.next)
    /\ \A g \in Gens, id \in Stable \ failed : HasRead(g, id) => Apart(id, reg[g].next)
    /\ \A id \in Stable \ failed : rows[id] # NoRow => Apart(id, rows[id])

IInv == TypeOK /\ TimeInv /\ NoOversleep /\ GenInv /\ RowInv /\ ApartInv

-----------------------------------------------------------------------------
(* Numbers *)

LEMMA Least ==
    ASSUME NEW T, T \subseteq Nat, T # {}
    PROVE  Min(T) \in T /\ \A n \in T : Min(T) <= n
<1> DEFINE R == {p \in Nat \X Nat : p[1] < p[2]}
<1>1. OpToRel(<, Nat) = R
    BY DEF OpToRel
<1>2. IsWellFoundedOn(R, Nat)
    BY <1>1, NatLessThanWellFounded
<1>3. \A x, y \in Nat : x < y => <<x, y>> \in R
    OBVIOUS
<1> HIDE DEF R
<1>4. PICK x \in T : \A y \in T : <<y, x>> \notin R
    BY <1>2, WFMin
<1>5. ASSUME NEW y \in T PROVE x <= y
    <2>1. x \in Nat /\ y \in Nat
        OBVIOUS
    <2>2. ~(y < x)
        BY <1>3, <1>4, <2>1
    <2> QED
        BY <2>1, <2>2
<1> QED
    BY <1>5 DEF Min

\* The next run is later than now, by no more than the longer period, and never
\* earlier for a later now.
LEMMA NextRunFacts ==
    /\ \A id \in Ids, n \in Nat :
          NextRun(id, n) \in Nat /\ n < NextRun(id, n) /\ NextRun(id, n) <= n + Interval + Day
    /\ \A id \in Ids, m, n \in Nat : m <= n => NextRun(id, m) <= NextRun(id, n)
<1> USE SchedulerAssumption
<1>1. \A n \in Nat : n \div Day \in Nat /\ (n \div Day) * Day <= n /\ n < (n \div Day + 1) * Day
    OBVIOUS
<1>2. \A n \in Nat : (n \div Day + 1) * Day = (n \div Day) * Day + Day
    BY <1>1
<1>3. \A m, n \in Nat : m <= n => m \div Day <= n \div Day
    OBVIOUS
<1>4. \A m, n \in Nat : m <= n => (m + 1) * Day <= (n + 1) * Day
    OBVIOUS
<1>5. \A m, n \in Nat : m <= n => (m \div Day + 1) * Day <= (n \div Day + 1) * Day
    BY <1>1, <1>3, <1>4
<1>6. \A n \in Nat : (n \div Day + 1) * Day \in Nat
    BY <1>1
<1> DEFINE next(n) == (n \div Day + 1) * Day
<1>7. \A id, n : NextRun(id, n) = IF id \in At THEN next(n) ELSE n + Interval
    BY DEF NextRun
<1>8. /\ \A n \in Nat : next(n) \in Nat /\ n < next(n) /\ next(n) <= n + Day
      /\ \A m, n \in Nat : m <= n => next(m) <= next(n)
    BY <1>1, <1>2, <1>5, <1>6
<1> HIDE DEF next
<1>9. ASSUME NEW id \in Ids, NEW n \in Nat
      PROVE  NextRun(id, n) \in Nat /\ n < NextRun(id, n) /\ NextRun(id, n) <= n + Interval + Day
    <2>1. CASE id \in At
        BY <1>7, <1>8, <2>1
    <2>2. CASE id \notin At
        BY <1>7, <2>2
    <2> QED
        BY <2>1, <2>2
<1>10. ASSUME NEW id \in Ids, NEW m \in Nat, NEW n \in Nat, m <= n
       PROVE  NextRun(id, m) <= NextRun(id, n)
    <2>1. CASE id \in At
        BY <1>7, <1>8, <1>10, <2>1
    <2>2. CASE id \notin At
        BY <1>7, <1>10, <2>2
    <2> QED
        BY <2>1, <2>2
<1> QED
    BY <1>9, <1>10

-----------------------------------------------------------------------------
LEMMA InitIInv == Init => IInv
<1> SUFFICES ASSUME Init PROVE IInv
    OBVIOUS
<1> USE SchedulerAssumption DEF Init
<1>1. TypeOK
    <2>1. 1 \in 1..MaxTime /\ 1 \in 0..MaxTime /\ Never \in 1..Never /\ 0 \in 0..MaxTime
        BY DEF Never, Horizon
    <2>2. LoopStart(1) \in Loops
        BY <2>1 DEF LoopStart, Loops
    <2>3. NoReg \in Regs
        BY DEF NoReg, Regs, Horizon
    <2>4. rows \in [Ids -> 0..Horizon]
        BY DEF Horizon
    <2>5. reg \in [Gens -> Regs] /\ timerFns \in [Gens -> SUBSET Ids] /\ lastFire \in [Stable -> 0..MaxTime]
        BY <2>1, <2>3
    <2>6. tracked \in 0..MaxGens /\ clock \in 1..MaxTime
        BY <2>1
    <2>7. heap \subseteq Entries /\ pruned \subseteq Stable /\ failed \subseteq Ids
        OBVIOUS
    <2> QED
        BY <2>2, <2>4, <2>5, <2>6, <2>7 DEF TypeOK
<1>2. TimeInv /\ NoOversleep
    BY DEF TimeInv, NoOversleep, LoopStart
<1>3. GenInv
    BY DEF GenInv, NoReg
<1>4. RowInv /\ ApartInv
    BY DEF RowInv, TableMatchesHeap, Own, NoReg, ApartInv, HasRead, Apart
<1> QED
    BY <1>1, <1>2, <1>3, <1>4 DEF IInv

LEMMA TypeStep == TypeOK /\ TimeInv /\ GenInv /\ [Next]_vars => TypeOK'
<1> SUFFICES ASSUME TypeOK, TimeInv, GenInv, [Next]_vars PROVE TypeOK'
    OBVIOUS
<1>1. /\ MaxTime \in Nat /\ clock \in Nat /\ 1 <= clock /\ clock <= MaxTime
      /\ Horizon \in Nat /\ Horizon = MaxTime + Interval + Day /\ Never = Horizon + 1
      /\ Interval \in Nat /\ Day \in Nat
    BY SchedulerAssumption DEF TypeOK, Horizon, Never
<1>2. \A id \in Ids, n \in 0..MaxTime : NextRun(id, n) \in 1..Horizon
    <2> SUFFICES ASSUME NEW id \in Ids, NEW n \in 0..MaxTime PROVE NextRun(id, n) \in 1..Horizon
        OBVIOUS
    <2>1. n \in Nat /\ n <= MaxTime
        BY <1>1
    <2>2. NextRun(id, n) \in Nat /\ n < NextRun(id, n) /\ NextRun(id, n) <= n + Interval + Day
        BY <2>1, NextRunFacts
    <2> QED
        BY <1>1, <2>1, <2>2
<1>3. \A g \in Gens : reg[g] \in Regs
    BY DEF TypeOK
<1>4. NoReg \in Regs
    BY <1>1 DEF NoReg, Regs
<1> USE DEF TypeOK, loopVars, genVars, ghostVars
<1>5. ASSUME NEW g \in Gens, Start(g) PROVE TypeOK'
    BY <1>5 DEF Start, Gens
<1>6. ASSUME NEW g \in Gens, NEW id \in Ids, Insert(g, id) PROVE TypeOK'
    <2>1. [at |-> "inserted", id |-> id, next |-> 0] \in Regs
        BY <1>1 DEF Regs
    <2>2. NextRun(id, clock) \in 0..Horizon
        BY <1>1, <1>2
    <2> QED
        BY <1>6, <2>1, <2>2 DEF Insert
<1>7. ASSUME NEW g \in Gens, ReadBack(g) PROVE TypeOK'
    <2>1. reg[g].id \in Ids
        BY <1>7 DEF ReadBack, GenInv
    <2>2. [reg[g] EXCEPT !.at = "read", !.next = rows[reg[g].id]] \in Regs
        BY <1>3, <2>1 DEF Regs
    <2>3. [NoReg EXCEPT !.at = "raised"] \in Regs
        BY <1>4 DEF NoReg, Regs
    <2> QED
        BY <1>4, <1>7, <2>2, <2>3 DEF ReadBack
<1>8. ASSUME NEW g \in Gens, Push(g) PROVE TypeOK'
    <2>1. [reg[g] EXCEPT !.at = "wake", !.next = 0] \in Regs
        <3>1. reg[g] \in Regs /\ 0 \in 0..Horizon
            BY <1>1, <1>3
        <3> HIDE DEF TypeOK
        <3> QED
            BY <3>1 DEF Regs
    <2>2. reg[g].id \in Ids /\ reg[g].next \in 1..Horizon
        BY <1>1, <1>3, <1>8 DEF Push, GenInv, Regs
    <2>3. [id |-> reg[g].id, by |-> g, next |-> reg[g].next] \in Entries
        BY <2>2 DEF Entries
    <2> QED
        BY <1>8, <2>1, <2>3 DEF Push
<1>9. ASSUME NEW g \in Gens, Wake(g) PROVE TypeOK'
    <2>1. reg[g].id \in Ids
        BY <1>9 DEF Wake, GenInv
    <2> QED
        BY <1>4, <1>9, <2>1 DEF Wake
<1>10. ASSUME NEW g \in Gens, Prune(g) PROVE TypeOK'
    <2>1. rows' \in [Ids -> 0..Horizon]
        BY <1>1, <1>10 DEF Prune, NoRow
    <2>2. pruned' \subseteq Stable
        BY <1>10 DEF Prune
    <2> QED
        BY <1>4, <1>10, <2>1, <2>2 DEF Prune
<1>11. ASSUME NEW g \in Gens, Exit(g) PROVE TypeOK'
    BY <1>11 DEF Exit
<1>12. CASE RemoveHeap
    BY <1>12, SchedulerAssumption DEF RemoveHeap
<1>13. CASE RemoveRows
    <2>1. rows' \in [Ids -> 0..Horizon]
        BY <1>1, <1>13 DEF RemoveRows, NoRow
    <2> QED
        BY <1>13, <2>1 DEF RemoveRows
<1>14. ASSUME NEW e \in heap, Fire(e) PROVE TypeOK'
    <2>1. e \in Entries /\ e.id \in Ids /\ loop.now \in 0..MaxTime
        BY DEF Entries, Loops
    <2>2. Reschedule(e) \in 1..Horizon
        BY <1>2, <2>1 DEF Reschedule
    <2> HIDE DEF Entries
    <2>3. [e EXCEPT !.next = Reschedule(e)] \in Entries
        BY <2>1, <2>2 DEF Entries
    <2>4. heap' \subseteq Entries
        BY <1>14, <2>3 DEF Fire
    <2>5. rows' \in [Ids -> 0..Horizon] /\ failed' \subseteq Ids
        BY <1>1, <1>14, <2>1, <2>2 DEF Fire, NoRow
    <2>6. lastFire' \in [Stable -> 0..MaxTime]
        BY <1>14, <2>1 DEF Fire
    <2> QED
        BY <1>14, <2>4, <2>5, <2>6 DEF Fire
<1>15. CASE FireDone
    <2>1. [at |-> "plan", now |-> 0, until |-> Never] \in Loops
        BY <1>1 DEF Loops
    <2> QED
        BY <1>15, <2>1 DEF FireDone
<1>16. CASE Plan
    <2> DEFINE until == IF heap = {} THEN Never ELSE Min({e.next : e \in heap})
    <2>1. until \in 1..Never
        <3>1. CASE heap = {}
            BY <1>1, <3>1
        <3>2. CASE heap # {}
            <4>1. {e.next : e \in heap} \subseteq 1..Horizon /\ {e.next : e \in heap} # {}
                BY <3>2 DEF Entries
            <4>2. Min({e.next : e \in heap}) \in {e.next : e \in heap}
                <5> DEFINE T == {e.next : e \in heap}
                <5>1. T \subseteq Nat /\ T # {}
                    BY <1>1, <4>1
                <5> HIDE DEF T
                <5>2. Min(T) \in T
                    BY <5>1, Least
                <5> QED
                    BY <5>2 DEF T
            <4> QED
                BY <1>1, <3>2, <4>1, <4>2
        <3> QED
            BY <3>1, <3>2
    <2>2. loop' = [loop EXCEPT !.at = "sleep", !.until = until]
        BY <1>16 DEF Plan
    <2> HIDE DEF until
    <2>3. loop' \in Loops
        BY <2>1, <2>2 DEF Loops
    <2> QED
        BY <1>16, <2>3 DEF Plan
<1>17. CASE Awake
    <2>1. LoopStart(clock) \in Loops
        BY <1>1 DEF LoopStart, Loops
    <2> QED
        BY <1>17, <2>1 DEF Awake
<1>18. CASE Tick
    BY <1>1, <1>18 DEF Tick
<1>19. CASE UNCHANGED vars
    BY <1>19 DEF vars
<1> QED
    BY <1>5, <1>6, <1>7, <1>8, <1>9, <1>10, <1>11, <1>12, <1>13, <1>14, <1>15, <1>16, <1>17, <1>18,
       <1>19 DEF Next

-----------------------------------------------------------------------------
LEMMA TimeStep == TypeOK /\ TimeInv /\ [Next]_vars => TimeInv'
<1> SUFFICES ASSUME TypeOK, TimeInv, [Next]_vars PROVE TimeInv'
    OBVIOUS
<1>1. clock \in Nat /\ loop.now \in Nat /\ \A i \in Stable : lastFire[i] \in Nat
    BY SchedulerAssumption DEF TypeOK, Loops
<1> USE DEF TimeInv, loopVars, genVars, ghostVars
<1>2. ASSUME NEW g \in Gens,
             \/ Start(g) \/ ReadBack(g) \/ Push(g) \/ Wake(g) \/ Prune(g) \/ Exit(g)
             \/ \E id \in Ids : Insert(g, id)
      PROVE  TimeInv'
    BY <1>2 DEF Start, ReadBack, Push, Wake, Prune, Exit, Insert
<1>3. CASE RemoveHeap \/ RemoveRows
    BY <1>3 DEF RemoveHeap, RemoveRows
<1>4. ASSUME NEW e \in heap, Fire(e) PROVE TimeInv'
    BY <1>4 DEF Fire
<1>5. CASE FireDone
    BY <1>5 DEF FireDone
<1>6. CASE Plan
    BY <1>6 DEF Plan, TypeOK, Loops
<1>7. CASE Awake
    BY <1>1, <1>7 DEF Awake, LoopStart
<1>8. CASE Tick
    BY <1>1, <1>8 DEF Tick
<1>9. CASE UNCHANGED vars
    BY <1>9 DEF vars
<1> QED
    BY <1>2, <1>3, <1>4, <1>5, <1>6, <1>7, <1>8, <1>9 DEF Next

LEMMA SleepStep == TypeOK /\ NoOversleep /\ [Next]_vars => NoOversleep'
<1> SUFFICES ASSUME TypeOK, NoOversleep, [Next]_vars PROVE NoOversleep'
    OBVIOUS
<1> USE DEF NoOversleep, loopVars, genVars, ghostVars
<1>1. ASSUME NEW g \in Gens,
             Start(g) \/ ReadBack(g) \/ Prune(g) \/ Exit(g) \/ \E id \in Ids : Insert(g, id)
      PROVE  NoOversleep'
    <2>1. CASE Start(g) \/ Exit(g)
        BY <2>1 DEF Start, Exit
    <2>2. CASE ReadBack(g) \/ Prune(g) \/ \E id \in Ids : Insert(g, id)
        <3>1. UNCHANGED <<loop, wake, heap>> /\ reg[g].at # "wake" /\ \A f \in Gens : f # g => reg'[f] = reg[f]
            BY <2>2 DEF ReadBack, Prune, Insert, MayRegister, TypeOK
        <3> QED
            BY <3>1
    <2> QED
        BY <1>1, <2>1, <2>2
<1>2. ASSUME NEW g \in Gens, Push(g) PROVE NoOversleep'
    <2>1. reg'[g].at = "wake"
        BY <1>2 DEF Push, TypeOK, Regs
    <2> QED
        BY <2>1
<1>3. ASSUME NEW g \in Gens, Wake(g) PROVE NoOversleep'
    BY <1>3 DEF Wake
<1>4. CASE RemoveHeap \/ RemoveRows
    BY <1>4 DEF RemoveHeap, RemoveRows
<1>5. ASSUME NEW e \in heap, Fire(e) PROVE NoOversleep'
    BY <1>5 DEF Fire
<1>6. CASE FireDone
    BY <1>6 DEF FireDone
<1>7. CASE Plan
    <2> DEFINE T == {e.next : e \in heap}
    <2>1. loop'.until = (IF heap = {} THEN Never ELSE Min(T)) /\ heap' = heap
        BY <1>7 DEF Plan, TypeOK, Loops
    <2>2. T \subseteq Nat /\ (heap # {} => T # {}) /\ \A e \in heap : e.next \in T
        BY DEF TypeOK, Entries
    <2> HIDE DEF T
    <2>3. \A e \in heap : loop'.until <= e.next
        BY <2>1, <2>2, Least
    <2> QED
        BY <2>1, <2>3
<1>8. CASE Awake
    BY <1>8 DEF Awake, LoopStart
<1>9. CASE Tick
    BY <1>9 DEF Tick
<1>10. CASE UNCHANGED vars
    BY <1>10 DEF vars
<1> QED
    BY <1>1, <1>2, <1>3, <1>4, <1>5, <1>6, <1>7, <1>8, <1>9, <1>10 DEF Next

LEMMA GenStep == TypeOK /\ GenInv /\ [Next]_vars => GenInv'
<1> SUFFICES ASSUME TypeOK, GenInv, [Next]_vars PROVE GenInv'
    OBVIOUS
<1>1. /\ reg \in [Gens -> Regs] /\ timerFns \in [Gens -> SUBSET Ids]
      /\ gen \in [Gens -> {"none", "loading", "running", "exited"}]
      /\ rows \in [Ids -> Nat]
      /\ \A e \in heap : e \in Entries /\ e.by \in Gens /\ e.id \in Ids
    BY SchedulerAssumption DEF TypeOK, Entries, Horizon
<1> USE <1>1 DEF GenInv, loopVars, genVars, ghostVars
<1>2. ASSUME NEW g \in Gens, Start(g) PROVE GenInv'
    BY <1>2 DEF Start, NoReg
<1>3. ASSUME NEW g \in Gens, NEW id \in Ids, Insert(g, id) PROVE GenInv'
    <2>1. /\ gen[g] \in {"loading", "running"} /\ reg[g].at = "none" /\ id \notin timerFns[g]
          /\ reg' = [reg EXCEPT ![g] = [at |-> "inserted", id |-> id, next |-> 0]]
          /\ UNCHANGED <<heap, gen, timerFns>>
        BY <1>3 DEF Insert, MayRegister
    <2>2. \A e \in heap : e.by = g => e.id # id
        BY <2>1
    <2> QED
        BY <2>1, <2>2
<1>4. ASSUME NEW g \in Gens, ReadBack(g) PROVE GenInv'
    <2>1. UNCHANGED <<heap, gen, timerFns>> /\ reg[g].at = "inserted" /\ \A f \in Gens : f # g => reg'[f] = reg[f]
        BY <1>4 DEF ReadBack
    <2>2. \/ /\ reg'[g].at = "read" /\ reg'[g].id = reg[g].id /\ reg'[g].next # 0
          \/ gen[g] = "loading" /\ reg'[g].at = "raised"
          \/ reg'[g] = NoReg
        <3>1. [NoReg EXCEPT !.at = "raised"].at = "raised"
            BY DEF NoReg
        <3>2. ASSUME rows[reg[g].id] # NoRow
              PROVE  reg'[g] = [reg[g] EXCEPT !.at = "read", !.next = rows[reg[g].id]]
            BY <1>4, <3>2 DEF ReadBack
        <3>3. ASSUME rows[reg[g].id] = NoRow
              PROVE  \/ gen[g] = "loading" /\ reg'[g] = [NoReg EXCEPT !.at = "raised"]
                     \/ reg'[g] = NoReg
            BY <1>4, <3>3 DEF ReadBack
        <3>4. reg[g] \in Regs
            OBVIOUS
        <3>5. /\ [reg[g] EXCEPT !.at = "read", !.next = rows[reg[g].id]].at = "read"
              /\ [reg[g] EXCEPT !.at = "read", !.next = rows[reg[g].id]].id = reg[g].id
              /\ [reg[g] EXCEPT !.at = "read", !.next = rows[reg[g].id]].next = rows[reg[g].id]
            BY <3>4 DEF Regs
        <3> QED
            BY <3>1, <3>2, <3>3, <3>5 DEF NoRow
    <2>3. gen[g] \in {"loading", "running"}
        BY <2>1 DEF NoReg
    <2> QED
        BY <2>1, <2>2, <2>3 DEF NoReg
<1>5. ASSUME NEW g \in Gens, Push(g) PROVE GenInv'
    <2> DEFINE n == [id |-> reg[g].id, by |-> g, next |-> reg[g].next]
    <2>1. /\ reg[g].at = "read" /\ heap' = heap \cup {n} /\ UNCHANGED <<gen, timerFns>>
          /\ reg' = [reg EXCEPT ![g] = [reg[g] EXCEPT !.at = "wake", !.next = 0]]
        BY <1>5 DEF Push
    <2>2. /\ [reg[g] EXCEPT !.at = "wake", !.next = 0].at = "wake"
          /\ [reg[g] EXCEPT !.at = "wake", !.next = 0].id = reg[g].id
        BY DEF Regs
    <2>3. reg'[g].at = "wake" /\ reg'[g].id = reg[g].id /\ \A f \in Gens : f # g => reg'[f] = reg[f]
        BY <2>1, <2>2
    <2>4. n.id = reg[g].id /\ n.by = g
        OBVIOUS
    <2>5. \A e \in heap : e.by = g => e.id # n.id
        BY <2>1
    <2>6. gen[g] \in {"loading", "running"}
        BY <2>1 DEF NoReg
    <2> HIDE DEF n
    <2> QED
        BY <2>1, <2>3, <2>4, <2>5, <2>6
<1>6. ASSUME NEW g \in Gens, Wake(g) PROVE GenInv'
    <2>1. gen[g] \in {"loading", "running"}
        BY <1>6 DEF Wake, NoReg
    <2> QED
        BY <1>6, <2>1 DEF Wake, NoReg
<1>7. ASSUME NEW g \in Gens, Prune(g) PROVE GenInv'
    BY <1>7 DEF Prune, NoReg
<1>8. ASSUME NEW g \in Gens, Exit(g) PROVE GenInv'
    BY <1>8 DEF Exit
<1>9. CASE RemoveHeap \/ RemoveRows
    BY <1>9 DEF RemoveHeap, RemoveRows
<1>10. ASSUME NEW e \in heap, Fire(e) PROVE GenInv'
    <2>1. UNCHANGED <<gen, reg, timerFns>>
        BY <1>10 DEF Fire
    <2> DEFINE n == [e EXCEPT !.next = Reschedule(e)]
    <2>2. n.id = e.id /\ n.by = e.by
        BY DEF Entries
    <2>3. heap' = heap \ {e} \/ heap' = (heap \ {e}) \cup {n}
        BY <1>10 DEF Fire
    <2> HIDE DEF n
    <2> QED
        BY <2>1, <2>2, <2>3
<1>11. CASE FireDone \/ Plan \/ Awake \/ Tick
    BY <1>11 DEF FireDone, Plan, Awake, Tick
<1>12. CASE UNCHANGED vars
    BY <1>12 DEF vars
<1> QED
    BY <1>2, <1>3, <1>4, <1>5, <1>6, <1>7, <1>8, <1>9, <1>10, <1>11, <1>12 DEF Next

-----------------------------------------------------------------------------
(* The timers of the tracked generation *)

\* A timer that is alone after a step of fire was alone before: it is another one, or
\* the one that fired.
LEMMA FireOwn ==
    ASSUME TypeOK, GenInv, NEW e \in heap, Fire(e)
    PROVE  /\ UNCHANGED <<tracked, pruned, reg>>
           /\ \A x \in Own' : x.id \in Stable =>
                 \/ x.id # e.id /\ x \in Own
                 \/ x.id = e.id /\ e \in Own /\ x.next = Reschedule(e)
           /\ \A x \in heap' : x.id \in Stable => \E f \in heap : f.id = x.id /\ f.by = x.by
           /\ \A g \in Gens, id \in Stable : HasRead(g, id)' => HasRead(g, id) /\ e.id # id
<1> DEFINE n == [e EXCEPT !.next = Reschedule(e)]
<1>1. n.id = e.id /\ n.by = e.by /\ n.next = Reschedule(e)
    BY DEF TypeOK, Entries
<1>2. \/ e.id \in After /\ heap' = heap \ {e}
      \/ e.id \notin After /\ heap' = (heap \ {e}) \cup {n}
    BY DEF Fire
<1>3. UNCHANGED <<tracked, pruned, reg>>
    BY DEF Fire, genVars
<1>4. \A f, h \in heap : f.id = h.id /\ f.by = h.by => f = h
    BY DEF GenInv
<1>5. e.id \in Stable => e.id \notin After
    BY SchedulerAssumption DEF Stable
<1> HIDE DEF n
<1>6. ASSUME NEW x \in Own', x.id \in Stable
      PROVE  \/ x.id # e.id /\ x \in Own
             \/ x.id = e.id /\ e \in Own /\ x.next = Reschedule(e)
    <2>1. x \in heap' /\ x.by = tracked /\ \A f \in heap' : f.id = x.id => f = x
        BY <1>3 DEF Own
    <2>2. CASE x.id # e.id
        <3>1. x \in heap /\ \A f \in heap : f.id = x.id => f \in heap'
            BY <1>1, <1>2, <2>1, <2>2
        <3> QED
            BY <2>1, <2>2, <3>1 DEF Own
    <2>3. CASE x.id = e.id
        <3>1. heap' = (heap \ {e}) \cup {n} /\ n = x
            BY <1>1, <1>2, <1>5, <1>6, <2>1, <2>3
        <3>2. \A f \in heap : f.id = e.id => f = e
            BY <1>1, <1>4, <2>1, <2>3, <3>1
        <3> QED
            BY <1>1, <2>1, <2>3, <3>1, <3>2 DEF Own
    <2> QED
        BY <2>2, <2>3
<1>7. \A x \in heap' : x.id \in Stable => \E f \in heap : f.id = x.id /\ f.by = x.by
    BY <1>1, <1>2
<1>8. ASSUME NEW g \in Gens, NEW id \in Stable, HasRead(g, id)' PROVE HasRead(g, id) /\ e.id # id
    <2>1. \A x \in heap' : x.id # id
        BY <1>8 DEF HasRead
    <2>2. e.id # id
        BY <1>1, <1>2, <1>5, <2>1
    <2>3. \A f \in heap : f.id # id
        BY <1>2, <2>1, <2>2
    <2> QED
        BY <1>3, <1>8, <2>2, <2>3 DEF HasRead
<1> QED
    BY <1>3, <1>6, <1>7, <1>8

\* Only a timer whose id was not in the heap is alone as it is pushed.
LEMMA PushOwn ==
    ASSUME TypeOK, NEW g \in Gens, Push(g)
    PROVE  /\ UNCHANGED <<tracked, pruned, failed, rows, lastFire>>
           /\ \A x \in Own' : x.id \in Stable =>
                 \/ x \in Own
                 \/ HasRead(g, x.id) /\ x.next = reg[g].next
           /\ \A x \in heap' : x \in heap \/ (x.by = g /\ reg[g].at = "read" /\ x.id = reg[g].id)
           /\ \A f \in Gens, id \in Stable : HasRead(f, id)' => f # g /\ HasRead(f, id)
           /\ reg'[g].at = "wake" /\ \A f \in Gens : f # g => reg'[f] = reg[f]
<1> DEFINE n == [id |-> reg[g].id, by |-> g, next |-> reg[g].next]
<1>1. /\ reg[g].at = "read" /\ heap' = heap \cup {n}
      /\ reg' = [reg EXCEPT ![g] = [reg[g] EXCEPT !.at = "wake", !.next = 0]]
      /\ UNCHANGED <<tracked, pruned, failed, rows, lastFire>>
    BY DEF Push, ghostVars
<1>2. n.id = reg[g].id /\ n.by = g /\ n.next = reg[g].next
    OBVIOUS
<1>3. reg'[g].at = "wake" /\ \A f \in Gens : f # g => reg'[f] = reg[f]
    BY <1>1 DEF TypeOK, Regs
<1> HIDE DEF n
<1>4. ASSUME NEW x \in Own', x.id \in Stable
      PROVE  x \in Own \/ (HasRead(g, x.id) /\ x.next = reg[g].next)
    <2>1. x \in heap' /\ x.by = tracked /\ \A f \in heap' : f.id = x.id => f = x
        BY <1>1 DEF Own
    <2>2. CASE x \in heap
        BY <1>1, <2>1, <2>2 DEF Own
    <2>3. CASE x \notin heap
        <3>1. x = n /\ \A f \in heap : f.id # x.id
            BY <1>1, <2>1, <2>3
        <3> QED
            BY <1>1, <1>2, <1>4, <2>1, <3>1 DEF HasRead
    <2> QED
        BY <2>2, <2>3
<1>5. ASSUME NEW f \in Gens, NEW id \in Stable, HasRead(f, id)' PROVE f # g /\ HasRead(f, id)
    BY <1>1, <1>3, <1>5 DEF HasRead
<1> QED
    BY <1>1, <1>2, <1>3, <1>4, <1>5

LEMMA RowStep == TypeOK /\ TimeInv /\ GenInv /\ RowInv /\ [Next]_vars => RowInv'
<1> SUFFICES ASSUME TypeOK, TimeInv, GenInv, RowInv, [Next]_vars PROVE RowInv'
    OBVIOUS
<1>1. /\ reg \in [Gens -> Regs] /\ rows \in [Ids -> Nat]
      /\ \A e \in heap : e.by \in Gens /\ e.id \in Ids
      /\ 0 \notin Gens /\ Stable \subseteq Ids /\ After \cap Stable = {}
    BY SchedulerAssumption DEF TypeOK, Entries, Horizon, Gens, Stable, Ids
<1> USE <1>1 DEF RowInv, TableMatchesHeap, loopVars, genVars, ghostVars
<1>2. ASSUME NEW g \in Gens, Start(g) PROVE RowInv'
    <2>1. \A e \in heap : e.by # g
        BY <1>2 DEF Start, GenInv
    <2>2. reg[g].at = "none"
        BY <1>2 DEF Start, GenInv, NoReg
    <2>3. UNCHANGED <<heap, reg, rows, pruned, failed>> /\ tracked' = g
        BY <1>2 DEF Start
    <2> QED
        BY <2>1, <2>2, <2>3 DEF Own, HasRead
<1>3. ASSUME NEW g \in Gens, NEW id \in Ids, Insert(g, id) PROVE RowInv'
    <2>1. /\ UNCHANGED <<heap, tracked, pruned, failed>>
          /\ reg' = [reg EXCEPT ![g] = [at |-> "inserted", id |-> id, next |-> 0]]
          /\ \A i \in Ids : rows[i] # NoRow => rows'[i] = rows[i]
        BY <1>3 DEF Insert
    <2>2. Own' = Own /\ Own \subseteq heap /\ \A e \in Own : e.by = tracked
        BY <2>1 DEF Own
    <2>3. reg'[g].at = "inserted" /\ \A f \in Gens : f # g => reg'[f] = reg[f]
        BY <2>1
    <2>4. \A f \in Gens, i \in Stable : HasRead(f, i)' => f # g /\ HasRead(f, i)
        BY <2>1, <2>3 DEF HasRead
    <2> QED
        BY <2>1, <2>2, <2>3, <2>4 DEF HasRead
<1>4. ASSUME NEW g \in Gens, ReadBack(g) PROVE RowInv'
    <2>1. /\ UNCHANGED <<heap, tracked, pruned, failed, rows, Own>>
          /\ \A f \in Gens : f # g => reg'[f] = reg[f]
        BY <1>4 DEF ReadBack, Own
    <2>2. reg'[g].at = "read" =>
              reg'[g].id = reg[g].id /\ reg'[g].next = rows[reg[g].id] /\ rows[reg[g].id] # NoRow
        <3>1. reg[g] \in Regs
            OBVIOUS
        <3> DEFINE n == [reg[g] EXCEPT !.at = "read", !.next = rows[reg[g].id]]
        <3>2. n.id = reg[g].id /\ n.next = rows[reg[g].id]
            BY <3>1 DEF Regs
        <3>3. (reg'[g] = n /\ rows[reg[g].id] # NoRow) \/ reg'[g] = [NoReg EXCEPT !.at = "raised"] \/ reg'[g] = NoReg
            BY <1>4 DEF ReadBack
        <3> HIDE DEF n
        <3> QED
            BY <3>2, <3>3 DEF NoReg
    <2>3. ASSUME NEW f \in Gens, NEW i \in Stable, HasRead(f, i)'
          PROVE  (HasRead(f, i) /\ f # g) \/ (f = g /\ reg'[g].at = "read" /\ i = reg'[g].id)
        BY <2>1, <2>3 DEF HasRead
    <2> QED
        BY <2>1, <2>2, <2>3
<1>5. ASSUME NEW g \in Gens, Push(g) PROVE RowInv'
    BY <1>5, PushOwn
<1>6. ASSUME NEW g \in Gens, Wake(g) PROVE RowInv'
    <2>1. UNCHANGED <<heap, tracked, pruned, failed, rows, Own>> /\ reg' = [reg EXCEPT ![g] = NoReg]
        BY <1>6 DEF Wake, Own
    <2> QED
        BY <2>1 DEF HasRead, NoReg
<1>7. ASSUME NEW g \in Gens, Prune(g) PROVE RowInv'
    <2>1. UNCHANGED <<heap, tracked, failed, Own>> /\ reg' = [reg EXCEPT ![g] = NoReg] /\ pruned \subseteq pruned'
        BY <1>7 DEF Prune, Own
    <2>2. ASSUME NEW i \in Stable \ pruned', InUse(i) PROVE rows'[i] = rows[i]
        BY <1>7, <2>2 DEF Prune
    <2>3. \A f \in Gens : f # g => InUse(reg[f].id) /\ reg'[f] = reg[f]
        BY <2>1 DEF InUse
    <2>4. \A e \in heap : InUse(e.id)
        BY DEF InUse
    <2>5. reg'[g].at = "none"
        BY <2>1 DEF NoReg
    <2>6. \A f \in Gens, i \in Stable : HasRead(f, i)' => f # g /\ HasRead(f, i) /\ i = reg[f].id
        BY <2>1, <2>3, <2>5 DEF HasRead
    <2>7. Own \subseteq heap
        BY DEF Own
    <2> QED
        BY <2>1, <2>2, <2>3, <2>4, <2>5, <2>6, <2>7
<1>8. ASSUME NEW g \in Gens, Exit(g) PROVE RowInv'
    BY <1>8 DEF Exit, Own, HasRead
<1>9. CASE RemoveHeap
    BY <1>9 DEF RemoveHeap, Own, HasRead
<1>10. CASE RemoveRows
    <2>1. UNCHANGED <<heap, tracked, pruned, failed, reg, Own>> /\ \A i \in Stable : rows'[i] = rows[i]
        BY <1>10 DEF RemoveRows, Own
    <2> QED
        BY <2>1 DEF HasRead
<1>11. ASSUME NEW e \in heap, Fire(e) PROVE RowInv'
    <2>1. /\ UNCHANGED <<tracked, pruned, reg>>
          /\ \A x \in Own' : x.id \in Stable =>
                \/ x.id # e.id /\ x \in Own
                \/ x.id = e.id /\ e \in Own /\ x.next = Reschedule(e)
          /\ \A x \in heap' : x.id \in Stable => \E f \in heap : f.id = x.id /\ f.by = x.by
          /\ \A g \in Gens, id \in Stable : HasRead(g, id)' => HasRead(g, id) /\ e.id # id
        BY <1>11, FireOwn
    <2>2. Reschedule(e) # NoRow
        <3>1. e.id \in Ids /\ loop.now \in Nat
            BY SchedulerAssumption DEF TypeOK, Loops
        <3> QED
            BY <3>1, NextRunFacts DEF Reschedule, NoRow
    <2>3. \/ /\ \A i \in Stable : i # e.id => rows'[i] = rows[i]
             /\ e.id \in Stable /\ rows[e.id] # NoRow => rows'[e.id] = Reschedule(e)
             /\ failed' = failed \ {e.id}
          \/ rows' = rows /\ failed' = failed \cup {e.id}
        BY <1>11 DEF Fire
    <2>4. \A i \in Stable : rows[i] # NoRow => rows'[i] # NoRow
        BY <2>2, <2>3
    <2>5. Own \subseteq heap /\ \A x \in Own : x.by = tracked
        BY DEF Own
    <2>6. TableMatchesHeap'
        <3> SUFFICES ASSUME NEW x \in Own', x.id \in Stable \ (pruned \cup failed') PROVE rows'[x.id] = x.next
            BY <2>1
        <3>1. CASE x.id # e.id /\ x \in Own
            BY <2>3, <3>1
        <3>2. CASE x.id = e.id /\ e \in Own /\ x.next = Reschedule(e)
            <4>1. rows[e.id] # NoRow
                BY <2>5, <3>2
            <4> QED
                BY <2>3, <3>2, <4>1
        <3> QED
            BY <2>1, <3>1, <3>2
    <2>7. \A x \in heap' : x.by = tracked /\ x.id \in Stable \ pruned => rows'[x.id] # NoRow
        BY <2>1, <2>4
    <2>8. \A g \in Gens, id \in Stable \ (pruned \cup failed') : HasRead(g, id)' => rows'[id] = reg[g].next
        BY <2>1, <2>3
    <2> QED
        BY <2>1, <2>4, <2>6, <2>7, <2>8
<1>12. CASE FireDone \/ Plan \/ Awake \/ Tick
    BY <1>12 DEF FireDone, Plan, Awake, Tick, Own, HasRead
<1>13. CASE UNCHANGED vars
    BY <1>13 DEF vars, Own, HasRead
<1> QED
    BY <1>2, <1>3, <1>4, <1>5, <1>6, <1>7, <1>8, <1>9, <1>10, <1>11, <1>12, <1>13 DEF Next

LEMMA ApartStep == TypeOK /\ TimeInv /\ GenInv /\ ApartInv /\ [Next]_vars => ApartInv'
<1> SUFFICES ASSUME TypeOK, TimeInv, GenInv, ApartInv, [Next]_vars PROVE ApartInv'
    OBVIOUS
<1>1. /\ reg \in [Gens -> Regs] /\ rows \in [Ids -> Nat] /\ clock \in Nat
      /\ lastFire \in [Stable -> Nat]
      /\ \A e \in heap : e.by \in Gens /\ e.id \in Ids
      /\ 0 \notin Gens /\ Stable \subseteq Ids /\ After \cap Stable = {}
    BY SchedulerAssumption DEF TypeOK, Entries, Horizon, Gens, Stable, Ids
<1> USE <1>1 DEF ApartInv, loopVars, genVars, ghostVars
<1>2. ASSUME NEW g \in Gens, Start(g) PROVE ApartInv'
    <2>1. \A e \in heap : e.by # g
        BY <1>2 DEF Start, GenInv
    <2>2. reg[g].at = "none"
        BY <1>2 DEF Start, GenInv, NoReg
    <2>3. UNCHANGED <<heap, reg, rows, lastFire, failed>> /\ tracked' = g
        BY <1>2 DEF Start
    <2> QED
        BY <2>1, <2>2, <2>3 DEF Own, HasRead, Apart
<1>3. ASSUME NEW g \in Gens, NEW id \in Ids, Insert(g, id) PROVE ApartInv'
    <2>1. /\ UNCHANGED <<heap, tracked, lastFire, failed, Own>>
          /\ reg' = [reg EXCEPT ![g] = [at |-> "inserted", id |-> id, next |-> 0]]
          /\ rows' = [rows EXCEPT ![id] = IF @ = NoRow THEN NextRun(id, clock) ELSE @]
        BY <1>3 DEF Insert, Own
    <2>2. reg'[g].at = "inserted" /\ \A f \in Gens : f # g => reg'[f] = reg[f]
        BY <2>1
    <2>3. \A f \in Gens, i \in Stable : HasRead(f, i)' => f # g /\ HasRead(f, i)
        BY <2>1, <2>2 DEF HasRead
    <2>4. id \in Stable => NextRun(id, lastFire[id]) <= NextRun(id, clock)
        BY NextRunFacts DEF TimeInv
    <2>5. ASSUME NEW i \in Stable \ failed, rows'[i] # NoRow PROVE Apart(i, rows'[i])
        <3>1. CASE rows'[i] = rows[i]
            BY <2>5, <3>1
        <3>2. CASE i = id /\ rows'[i] = NextRun(id, clock)
            <4>1. NextRun(id, clock) \in Nat /\ NextRun(id, lastFire[id]) \in Nat
                BY <3>2, NextRunFacts
            <4> QED
                BY <2>4, <3>2, <4>1 DEF Apart
        <3> QED
            BY <2>1, <3>1, <3>2
    <2> QED
        BY <2>1, <2>2, <2>3, <2>5 DEF Apart
<1>4. ASSUME NEW g \in Gens, ReadBack(g) PROVE ApartInv'
    <2>1. /\ UNCHANGED <<heap, tracked, lastFire, failed, rows, Own>>
          /\ \A f \in Gens : f # g => reg'[f] = reg[f]
        BY <1>4 DEF ReadBack, Own
    <2>2. reg'[g].at = "read" =>
              reg'[g].id = reg[g].id /\ reg'[g].next = rows[reg[g].id] /\ rows[reg[g].id] # NoRow
        <3>1. reg[g] \in Regs
            OBVIOUS
        <3> DEFINE n == [reg[g] EXCEPT !.at = "read", !.next = rows[reg[g].id]]
        <3>2. n.id = reg[g].id /\ n.next = rows[reg[g].id]
            BY <3>1 DEF Regs
        <3>3. (reg'[g] = n /\ rows[reg[g].id] # NoRow) \/ reg'[g] = [NoReg EXCEPT !.at = "raised"] \/ reg'[g] = NoReg
            BY <1>4 DEF ReadBack
        <3> HIDE DEF n
        <3> QED
            BY <3>2, <3>3 DEF NoReg
    <2>3. ASSUME NEW f \in Gens, NEW i \in Stable, HasRead(f, i)'
          PROVE  (HasRead(f, i) /\ f # g) \/ (f = g /\ reg'[g].at = "read" /\ i = reg'[g].id)
        BY <2>1, <2>3 DEF HasRead
    <2> QED
        BY <2>1, <2>2, <2>3 DEF Apart
<1>5. ASSUME NEW g \in Gens, Push(g) PROVE ApartInv'
    BY <1>5, PushOwn DEF Apart
<1>6. ASSUME NEW g \in Gens, Wake(g) \/ Prune(g) PROVE ApartInv'
    <2>1. /\ UNCHANGED <<heap, tracked, lastFire, failed, Own>> /\ reg' = [reg EXCEPT ![g] = NoReg]
          /\ \A i \in Ids : rows'[i] = rows[i] \/ rows'[i] = NoRow
        BY <1>6 DEF Wake, Prune, Own
    <2>2. \A f \in Gens, i \in Stable : HasRead(f, i)' => HasRead(f, i) /\ reg'[f] = reg[f]
        BY <2>1 DEF HasRead, NoReg
    <2> QED
        BY <2>1, <2>2 DEF Apart
<1>7. ASSUME NEW g \in Gens, Exit(g) PROVE ApartInv'
    BY <1>7 DEF Exit, Own, HasRead, Apart
<1>8. CASE RemoveHeap
    BY <1>8 DEF RemoveHeap, Own, HasRead, Apart
<1>9. CASE RemoveRows
    <2>1. UNCHANGED <<heap, tracked, lastFire, failed, reg, Own>> /\ \A i \in Stable : rows'[i] = rows[i]
        BY <1>9 DEF RemoveRows, Own
    <2> QED
        BY <2>1 DEF HasRead, Apart
<1>10. ASSUME NEW e \in heap, Fire(e) PROVE ApartInv'
    <2>1. /\ UNCHANGED <<tracked, reg>>
          /\ \A x \in Own' : x.id \in Stable =>
                \/ x.id # e.id /\ x \in Own
                \/ x.id = e.id /\ e \in Own /\ x.next = Reschedule(e)
          /\ \A g \in Gens, id \in Stable : HasRead(g, id)' => HasRead(g, id) /\ e.id # id
        BY <1>10, FireOwn
    <2>2. /\ \A i \in Stable : i # e.id => lastFire'[i] = lastFire[i]
          /\ e.id \in Stable => lastFire'[e.id] = loop.now
        BY <1>10 DEF Fire
    <2>3. Reschedule(e) = NextRun(e.id, loop.now) /\ NextRun(e.id, loop.now) \in Nat
        <3>1. e.id \in Ids /\ loop.now \in Nat
            BY SchedulerAssumption DEF TypeOK, Loops
        <3> QED
            BY <3>1, NextRunFacts DEF Reschedule
    <2>4. \/ /\ \A i \in Stable : i # e.id => rows'[i] = rows[i]
             /\ e.id \in Stable => rows'[e.id] \in {NoRow, Reschedule(e)}
             /\ failed' = failed \ {e.id}
          \/ rows' = rows /\ failed' = failed \cup {e.id}
        BY <1>10 DEF Fire
    <2>5. \A i \in Stable \ failed' : i # e.id => i \notin failed
        BY <2>4
    <2>6. \A i \in Stable : \A n : i # e.id => (Apart(i, n) /\ lastFire'[i] # 0 => n >= NextRun(i, lastFire'[i]))
        BY <2>2 DEF Apart
    <2>7. ASSUME NEW x \in Own', x.id \in Stable \ failed' PROVE Apart(x.id, x.next)'
        <3>1. CASE x.id # e.id /\ x \in Own
            BY <2>5, <2>7, <2>6, <3>1 DEF Apart
        <3>2. CASE x.id = e.id /\ x.next = Reschedule(e)
            BY <2>2, <2>3, <2>7, <3>2 DEF Apart
        <3> QED
            BY <2>1, <2>7, <3>1, <3>2
    <2>8. ASSUME NEW g \in Gens, NEW id \in Stable \ failed', HasRead(g, id)' PROVE Apart(id, reg[g].next)'
        BY <2>1, <2>5, <2>6, <2>8 DEF Apart
    <2>9. ASSUME NEW id \in Stable \ failed', rows'[id] # NoRow PROVE Apart(id, rows[id])'
        <3>1. CASE id # e.id
            BY <2>4, <2>5, <2>6, <2>9, <3>1 DEF Apart
        <3>2. CASE id = e.id
            BY <2>2, <2>3, <2>4, <2>9, <3>2 DEF Apart
        <3> QED
            BY <3>1, <3>2
    <2> QED
        BY <2>7, <2>8, <2>9
<1>11. CASE FireDone \/ Plan \/ Awake \/ Tick
    BY <1>11 DEF FireDone, Plan, Awake, Tick, Own, HasRead, Apart
<1>12. CASE UNCHANGED vars
    BY <1>12 DEF vars, Own, HasRead, Apart
<1> QED
    BY <1>2, <1>3, <1>4, <1>5, <1>6, <1>7, <1>8, <1>9, <1>10, <1>11, <1>12 DEF Next

-----------------------------------------------------------------------------
LEMMA Inductive == Spec => []IInv
<1>1. IInv /\ [Next]_vars => IInv'
    BY TypeStep, TimeStep, SleepStep, GenStep, RowStep, ApartStep DEF IInv
<1> QED
    BY InitIInv, <1>1, PTL DEF Spec

\* Heap, table and registrations keep their types: whatever a timer is registered with,
\* its deadline lies within the longer period of the clock.
THEOREM TypeCorrect == Spec => []TypeOK
<1>1. IInv => TypeOK
    BY DEF IInv
<1> QED
    BY Inductive, <1>1, PTL

\* The loop never sleeps past a timer, however registrations interleave with its look
\* at the heap: insert sends the token after it has pushed (scheduler.go, loop).
THEOREM SleepsRight == Spec => []NoOversleep
<1>1. IInv => NoOversleep
    BY DEF IInv
<1> QED
    BY Inductive, <1>1, PTL

\* A recurring timer that only the tracked generation has in the heap has its deadline in
\* its row, through reloads, fires and prunes of any number of generations, unless it was
\* pruned in use or its row could not be written.
THEOREM TableIsRight == Spec => []TableMatchesHeap
<1>1. IInv => TableMatchesHeap
    BY DEF IInv, RowInv
<1> QED
    BY Inductive, <1>1, PTL

\* Such a timer never fires twice within its period: not after a reload, which reads
\* the deadline back, and not after downtime, which is not made up for (fire).
THEOREM FiresArePeriodApart == Spec => FiresApart
<1>1. ASSUME IInv, [Next]_vars
      PROVE  [\A e \in Own :
                 Fired(e) /\ e.id \in Stable \ failed /\ lastFire[e.id] # 0 =>
                     loop.now >= NextRun(e.id, lastFire[e.id])]_vars
    <2> SUFFICES ASSUME NEW e \in Own, Fired(e), e.id \in Stable \ failed, lastFire[e.id] # 0, Next
                 PROVE  loop.now >= NextRun(e.id, lastFire[e.id])
        BY <1>1
    <2>1. e \in heap \ heap' /\ loop.at = "fire"
        BY DEF Fired, LockFree
    <2>2. PICK f \in heap : Fire(f)
        BY <2>1 DEF Next, Start, ReadBack, Push, Wake, Prune, Exit, Insert, RemoveHeap, RemoveRows,
           FireDone, Plan, Awake, Tick, LockFree
    <2>3. f = e
        BY <2>1, <2>2 DEF Fire
    <2>4. e.next <= loop.now
        BY <2>2, <2>3 DEF Fire, Due
    <2>5. e.next >= NextRun(e.id, lastFire[e.id])
        BY <1>1 DEF IInv, ApartInv, Apart
    <2>6. e.next \in Nat /\ loop.now \in Nat /\ NextRun(e.id, lastFire[e.id]) \in Nat
        <3>1. e \in Entries /\ loop \in Loops /\ lastFire[e.id] \in Nat
            BY <1>1, <2>1 DEF IInv, TypeOK
        <3> QED
            BY <3>1, NextRunFacts DEF Entries, Loops
    <2> QED
        BY <2>4, <2>5, <2>6
<1> QED
    BY Inductive, <1>1, PTL DEF Spec, FiresApart

=============================================================================
