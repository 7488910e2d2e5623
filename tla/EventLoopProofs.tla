-------------------------- MODULE EventLoopProofs ---------------------------
(***************************************************************************)
(* Proofs about EventLoop for all topics, capacities and numbers of events:*)
(* what its handlers saw last is what the mirror has, and every step of it *)
(* is a step of Mailbox.                                                   *)
(*                                                                         *)
(* Work, window and channel hold the events in the order they will be      *)
(* handled; their numbers grow along it but for the states that took the   *)
(* place of an older one (OrderInv), and nothing in flight is as new as    *)
(* what is being sent (NumberInv).  So the newest state of an entity is    *)
(* the last of them, or has been seen (MirrorInv).                         *)
(***************************************************************************)
EXTENDS EventLoop, SequenceTheorems, TLAPS

\* Of two events of one batch the later is newer, unless a state took the slot of an
\* older one of its entity and so comes before others that were sent before it.
InOrder(s) ==
    \A i, j \in 1..Len(s) : i < j =>
        \/ s[i].n < s[j].n
        \/ /\ s[j].n < s[i].n /\ ~immediate
           /\ s[i].topic \in Entities /\ s[j].topic \notin {s[i].topic, Direct}

Before(s, t) == \A i \in 1..Len(s), j \in 1..Len(t) : s[i].n < t[j].n

PhaseInv ==
    /\ phase \notin {"lua", "final"} => work = <<>>
    /\ phase \in {"load", "replay", "lua", "final"} => pending = <<>>
    /\ immediate => pending = <<>>
    /\ phase # "replay" => \A e \in Entities : replay[e] = 0
    /\ phase = "load" => \A e \in Entities : seen[e] = 0
    /\ \A i \in 1..Len(pending) :
          /\ pending[i].topic # Direct
          /\ pending[i].topic \in Entities => coalesceIdx[pending[i].topic] = i

OrderInv ==
    /\ \A i, j \in 1..Len(ch) : i < j => ch[i].n < ch[j].n
    /\ InOrder(pending) /\ InOrder(work)
    /\ Before(pending, ch) /\ Before(work, ch)

NumberInv ==
    /\ last.n <= sent /\ \A ev \in Box : ev.n <= sent
    /\ sending # NoEvent =>
          sending.n <= sent /\ last.n < sending.n /\ \A ev \in Box : ev.n < sending.n

\* The events of an entity that its handler has not seen.
Coming(e) == {ev \in Box \cup {sending} : ev.topic = e}

MirrorInv ==
    \A e \in Entities \ unsaid :
        /\ \A ev \in Coming(e) : ev.n <= mirror[e]
        /\ Coming(e) # {} => \E ev \in Coming(e) : ev.n = mirror[e]
        /\ Coming(e) = {} /\ e \in initial /\ phase # "load" =>
              mirror[e] = IF replay[e] # 0 THEN replay[e] ELSE seen[e]

IInv == TypeOK /\ PhaseInv /\ OrderInv /\ NumberInv /\ MirrorInv

-----------------------------------------------------------------------------
(* Sequences of events *)

LEMMA EventFacts ==
    /\ \A ev \in Events : ev.n \in Nat /\ ev.n > 0 /\ ev.topic \in Topics
    /\ NoEvent \notin Events /\ NoEvent.topic = Direct /\ NoEvent.n = 0
BY EventLoopAssumption DEF Events, NoEvent

LEMMA Listed ==
    ASSUME NEW S, NEW s \in Seq(S)
    PROVE  ToSet(s) = {s[i] : i \in 1..Len(s)}
<1>1. DOMAIN s = 1..Len(s)
    OBVIOUS
<1> QED
    BY <1>1 DEF ToSet

\* Taking the head of a sequence.
LEMMA Taken ==
    ASSUME NEW S, NEW s \in Seq(S), s # <<>>
    PROVE  /\ Head(s) \in S /\ Head(s) = s[1] /\ Len(s) > 0
           /\ Tail(s) \in Seq(S) /\ Len(Tail(s)) = Len(s) - 1
           /\ \A i \in 1..Len(Tail(s)) : Tail(s)[i] = s[i + 1]
           /\ ToSet(s) = {Head(s)} \cup ToSet(Tail(s))
<1>1. /\ Head(s) \in S /\ Head(s) = s[1] /\ Len(s) > 0
      /\ Tail(s) \in Seq(S) /\ Len(Tail(s)) = Len(s) - 1
      /\ \A i \in 1..Len(Tail(s)) : Tail(s)[i] = s[i + 1]
    BY HeadTailProperties
<1>2. DOMAIN s = 1..Len(s) /\ DOMAIN Tail(s) = 1..(Len(s) - 1) /\ Len(s) \in Nat
    BY <1>1
<1>3. ASSUME NEW i \in 1..Len(s) PROVE s[i] \in {Head(s)} \cup ToSet(Tail(s))
    <2>1. CASE i = 1
        BY <1>1, <2>1
    <2>2. CASE i # 1
        <3>1. i - 1 \in DOMAIN Tail(s) /\ Tail(s)[i - 1] = s[i]
            BY <1>1, <1>2, <2>2
        <3> QED
            BY <3>1 DEF ToSet
    <2> QED
        BY <2>1, <2>2
<1>4. ASSUME NEW i \in 1..Len(Tail(s)) PROVE Tail(s)[i] \in ToSet(s)
    <2>1. i + 1 \in DOMAIN s /\ Tail(s)[i] = s[i + 1]
        BY <1>1, <1>2
    <2> QED
        BY <2>1 DEF ToSet
<1>5. Head(s) \in ToSet(s)
    BY <1>1, <1>2 DEF ToSet
<1> QED
    BY <1>1, <1>2, <1>3, <1>4, <1>5 DEF ToSet

LEMMA Appended ==
    ASSUME NEW S, NEW s \in Seq(S), NEW e \in S
    PROVE  /\ Append(s, e) \in Seq(S) /\ Len(Append(s, e)) = Len(s) + 1
           /\ \A i \in 1..Len(s) : Append(s, e)[i] = s[i]
           /\ Append(s, e)[Len(s) + 1] = e
           /\ ToSet(Append(s, e)) = ToSet(s) \cup {e}
<1>1. /\ Append(s, e) \in Seq(S) /\ Len(Append(s, e)) = Len(s) + 1
      /\ \A i \in 1..Len(s) : Append(s, e)[i] = s[i]
      /\ Append(s, e)[Len(s) + 1] = e
    BY AppendProperties
<1>2. DOMAIN s = 1..Len(s) /\ DOMAIN Append(s, e) = 1..(Len(s) + 1) /\ Len(s) \in Nat
    BY <1>1
<1> QED
    BY <1>1, <1>2 DEF ToSet

LEMMA Joined ==
    ASSUME NEW S, NEW s \in Seq(S), NEW t \in Seq(S)
    PROVE  /\ s \o t \in Seq(S) /\ Len(s \o t) = Len(s) + Len(t)
           /\ \A i \in 1..Len(s) : (s \o t)[i] = s[i]
           /\ \A i \in 1..Len(t) : (s \o t)[Len(s) + i] = t[i]
           /\ \A i \in 1..Len(s \o t) : i \in 1..Len(s) \/ i - Len(s) \in 1..Len(t)
           /\ ToSet(s \o t) = ToSet(s) \cup ToSet(t)
<1>1. /\ s \o t \in Seq(S) /\ Len(s \o t) = Len(s) + Len(t)
      /\ \A i \in 1..Len(s) : (s \o t)[i] = s[i]
      /\ \A i \in 1..Len(t) : (s \o t)[Len(s) + i] = t[i]
      /\ \A i \in 1..Len(s \o t) : i \in 1..Len(s) \/ i - Len(s) \in 1..Len(t)
    BY ConcatProperties
<1>2. DOMAIN s = 1..Len(s) /\ DOMAIN t = 1..Len(t) /\ DOMAIN (s \o t) = 1..Len(s \o t)
    BY <1>1
<1>3. ToSet(s \o t) \subseteq ToSet(s) \cup ToSet(t)
    <2> SUFFICES ASSUME NEW i \in 1..Len(s \o t) PROVE (s \o t)[i] \in ToSet(s) \cup ToSet(t)
        BY <1>2 DEF ToSet
    <2>1. CASE i \in 1..Len(s)
        BY <1>1, <1>2, <2>1 DEF ToSet
    <2>2. CASE i - Len(s) \in 1..Len(t)
        <3>1. (s \o t)[i] = t[i - Len(s)]
            BY <1>1, <2>2
        <3> QED
            BY <1>2, <2>2, <3>1 DEF ToSet
    <2> QED
        BY <1>1, <2>1, <2>2
<1>4. ASSUME NEW i \in 1..Len(s) PROVE s[i] \in ToSet(s \o t)
    BY <1>1, <1>2 DEF ToSet
<1>5. ASSUME NEW i \in 1..Len(t) PROVE t[i] \in ToSet(s \o t)
    <2>1. Len(s) + i \in DOMAIN (s \o t)
        BY <1>1, <1>2
    <2> QED
        BY <1>1, <2>1 DEF ToSet
<1> QED
    BY <1>1, <1>2, <1>3, <1>4, <1>5 DEF ToSet

LEMMA Nothing == \A S : <<>> \in Seq(S) /\ Len(<<>>) = 0 /\ ToSet(<<>>) = {}
BY DEF ToSet

LEMMA Single ==
    ASSUME NEW S, NEW e \in S
    PROVE  /\ <<e>> \in Seq(S) /\ Len(<<e>>) = 1 /\ <<e>>[1] = e /\ ToSet(<<e>>) = {e}
BY DEF ToSet

-----------------------------------------------------------------------------
LEMMA InitIInv == Init => IInv
<1> SUFFICES ASSUME Init PROVE IInv
    OBVIOUS
<1> USE DEF Init
<1>1. TypeOK
    <2>1. <<>> \in Seq(Events) /\ Len(<<>>) <= QueueCap
        BY Nothing, EventLoopAssumption
    <2>2. sent \in 0..MaxEvents /\ mirror \in [Entities -> 0..MaxEvents]
        BY EventLoopAssumption
    <2>3. NoSlots \in [Entities -> Nat] /\ \A e \in Entities : NoSlots[e] = NoSlot
        BY DEF NoSlots, NoSlot
    <2>4. [e \in Entities |-> 0] \in [Entities -> 0..MaxEvents]
        BY EventLoopAssumption
    <2> HIDE DEF NoSlots
    <2> QED
        BY <2>1, <2>2, <2>3, <2>4 DEF TypeOK
<1>2. Box = {}
    BY Nothing DEF Box
<1>3. PhaseInv /\ OrderInv
    BY Nothing DEF PhaseInv, OrderInv, InOrder, Before
<1>4. NumberInv
    BY <1>2, EventFacts, EventLoopAssumption DEF NumberInv
<1>5. MirrorInv
    <2>1. \A e \in Entities : Coming(e) = {}
        BY <1>2, EventFacts, EventLoopAssumption DEF Coming
    <2> QED
        BY <2>1 DEF MirrorInv
<1> QED
    BY <1>1, <1>3, <1>4, <1>5 DEF IInv

LEMMA TypeStep == TypeOK /\ PhaseInv /\ [Next]_vars => TypeOK'
<1> SUFFICES ASSUME TypeOK, PhaseInv, [Next]_vars PROVE TypeOK'
    OBVIOUS
<1> USE DEF TypeOK, optVars, sendVars, chanVars, batchVars, ghostVars
<1>1. ASSUME NEW t \in Topics, Occur(t) PROVE TypeOK'
    <2>1. sent + 1 \in 1..MaxEvents
        BY <1>1, EventLoopAssumption DEF Occur
    <2>2. [topic |-> t, n |-> sent + 1] \in Events
        BY <2>1 DEF Events
    <2> QED
        BY <1>1, <2>1, <2>2 DEF Occur
<1>14. ASSUME NEW e \in Entities, Reseed(e) PROVE TypeOK'
    <2>1. sent + 1 \in 0..MaxEvents
        BY <1>14, EventLoopAssumption DEF Reseed
    <2> QED
        BY <1>14, <2>1 DEF Reseed
<1>2. CASE Send
    <2>1. sending \in Events
        BY <1>2 DEF Send
    <2>2. ch' \in Seq(Events) /\ Len(ch') <= QueueCap
        BY <1>2, <2>1, Appended, EventLoopAssumption DEF Send
    <2> QED
        BY <1>2, <2>2 DEF Send
<1>3. CASE Close \/ Cancel
    BY <1>3 DEF Close, Cancel
<1>4. CASE Load
    BY <1>4, EventLoopAssumption DEF Load
<1>5. ASSUME NEW e \in Entities, Replay(e) PROVE TypeOK'
    BY <1>5, EventLoopAssumption DEF Replay
<1>6. CASE EnterLoop \/ OtherCallback \/ CallbackReturns \/ CtxExit \/ Handled
    BY <1>6 DEF EnterLoop, OtherCallback, CallbackReturns, CtxExit, Handled
<1>7. ASSUME NEW rest \in Seq(Events), Flush(rest)
      PROVE  /\ work' \in Seq(Events) /\ pending' = <<>> /\ flushC' \in BOOLEAN
             /\ coalesceIdx' \in [Entities -> Nat] /\ \A e \in Entities : coalesceIdx'[e] = NoSlot
    BY <1>7, Joined DEF Flush, NoSlots, NoSlot
<1>8. CASE TakeDirect
    <2>1. <<Head(ch)>> \in Seq(Events) /\ Tail(ch) \in Seq(Events) /\ Len(Tail(ch)) <= QueueCap
        BY <1>8, Taken, Single, EventLoopAssumption DEF TakeDirect
    <2> QED
        BY <1>7, <1>8, <2>1, Nothing DEF TakeDirect
<1>9. CASE WindowEnds \/ Drained
    BY <1>7, <1>9, Nothing DEF WindowEnds, Drained
<1>10. CASE Coalesce
    <2> DEFINE ev == Head(ch)
               slot == coalesceIdx[ev.topic]
    <2>1. /\ ev \in Events /\ ev.topic \in Entities /\ slot \in 1..Len(pending)
          /\ Tail(ch) \in Seq(Events) /\ Len(Tail(ch)) <= QueueCap
        BY <1>10, Taken, EventLoopAssumption DEF Coalesce
    <2>2. pending' = [pending EXCEPT ![slot] = ev] /\ pending[slot].topic = ev.topic
        BY <1>10 DEF Coalesce, Overwrite
    <2> HIDE DEF ev, slot
    <2>3. /\ pending' \in Seq(Events) /\ Len(pending') = Len(pending)
          /\ \A i \in 1..Len(pending) : pending'[i] = IF i = slot THEN ev ELSE pending[i]
        BY <2>1, <2>2, ExceptSeq
    <2>4. UNCHANGED <<optVars, sendVars, closed, cancelled, phase, replay, coalesceIdx, flushC,
                      work, ghostVars>> /\ ch' = Tail(ch)
        BY <1>10 DEF Coalesce
    <2>5. DOMAIN pending' = DOMAIN pending /\ DOMAIN pending = 1..Len(pending)
        BY <2>3
    <2> QED
        BY <2>1, <2>2, <2>3, <2>4, <2>5
<1>11. CASE Batch
    <2> DEFINE ev == Head(ch)
    <2>1. /\ ev \in Events /\ Tail(ch) \in Seq(Events) /\ Len(Tail(ch)) <= QueueCap
        BY <1>11, Taken, EventLoopAssumption DEF Batch
    <2>2. /\ pending' = Append(pending, ev) /\ flushC' = TRUE /\ ch' = Tail(ch)
          /\ coalesceIdx' = [e \in Entities |->
                              IF e = ev.topic THEN Len(pending) + 1 ELSE coalesceIdx[e]]
          /\ UNCHANGED <<optVars, sendVars, closed, cancelled, phase, replay, work, ghostVars>>
        BY <1>11 DEF Batch, Window
    <2> HIDE DEF ev
    <2>3. /\ pending' \in Seq(Events) /\ Len(pending') = Len(pending) + 1
          /\ \A i \in 1..Len(pending) : pending'[i] = pending[i]
          /\ pending'[Len(pending) + 1] = ev
        BY <2>1, <2>2, Appended
    <2>4. DOMAIN pending' = 1..Len(pending) + 1 /\ DOMAIN pending = 1..Len(pending)
        BY <2>3
    <2> QED
        BY <2>1, <2>2, <2>3, <2>4
<1>12. CASE Handle
    <2>1. Head(work) \in Events /\ Tail(work) \in Seq(Events)
        BY <1>12, Taken DEF Handle
    <2>2. Head(work).n \in 0..MaxEvents
        BY <2>1, EventLoopAssumption DEF Events
    <2> HIDE DEF Events
    <2> QED
        BY <1>12, <2>1, <2>2 DEF Handle
<1>13. CASE UNCHANGED vars
    BY <1>13 DEF vars
<1> QED
    BY <1>1, <1>2, <1>3, <1>4, <1>5, <1>6, <1>8, <1>9, <1>10, <1>11, <1>12, <1>13, <1>14
    DEF Next, TakeEvent

-----------------------------------------------------------------------------
(* What the steps do to the events in flight *)

\* An event of a sequence is at some place of it.
LEMMA InBox ==
    ASSUME TypeOK
    PROVE  /\ ToSet(ch) = {ch[i] : i \in 1..Len(ch)}
           /\ ToSet(pending) = {pending[i] : i \in 1..Len(pending)}
           /\ ToSet(work) = {work[i] : i \in 1..Len(work)}
           /\ Box \subseteq Events
<1>1. DOMAIN ch = 1..Len(ch) /\ DOMAIN pending = 1..Len(pending) /\ DOMAIN work = 1..Len(work)
    BY DEF TypeOK
<1>2. \A i \in 1..Len(ch) : ch[i] \in Events
    BY DEF TypeOK
<1>3. \A i \in 1..Len(pending) : pending[i] \in Events
    BY DEF TypeOK
<1>4. \A i \in 1..Len(work) : work[i] \in Events
    BY DEF TypeOK
<1> QED
    BY <1>1, <1>2, <1>3, <1>4 DEF Box, ToSet

\* Dispatch puts the event into the channel, or drops it.
LEMMA SendMoves ==
    ASSUME TypeOK, Send
    PROVE  /\ sending \in Events
           /\ \/ ~closed /\ Box' = Box \cup {sending} /\ unsaid' = unsaid
              \/ Box' = Box /\ unsaid' = unsaid \cup ({sending.topic} \cap Entities)
<1>1. sending \in Events /\ ch \in Seq(Events)
    BY DEF TypeOK, Send
<1>2. ToSet(Append(ch, sending)) = ToSet(ch) \cup {sending}
    BY <1>1, Appended
<1>3. pending' = pending /\ work' = work
    BY DEF Send, batchVars
<1> QED
    BY <1>1, <1>2, <1>3 DEF Send, Box

\* The head of the batch is in turn, and nothing else leaves with it.
LEMMA HandleMoves ==
    ASSUME TypeOK, PhaseInv, OrderInv, Handle
    PROVE  /\ Head(work) \in Box /\ Box' = Box \ {Head(work)}
           /\ \A f \in Box : f.n < Head(work).n =>
                 /\ ~immediate /\ Head(work).topic \in Entities
                 /\ f.topic \notin {Head(work).topic, Direct}
<1> DEFINE ev == Head(work)
<1>1. /\ work \in Seq(Events) /\ work # <<>> /\ pending = <<>>
      /\ work' = Tail(work) /\ pending' = pending /\ ch' = ch
    BY DEF TypeOK, PhaseInv, Handle, batchVars, chanVars
<1>2. /\ ev = work[1] /\ Len(work) \in Nat /\ Len(work) > 0 /\ Len(Tail(work)) = Len(work) - 1
      /\ \A i \in 1..Len(Tail(work)) : Tail(work)[i] = work[i + 1]
      /\ ToSet(work) = {ev} \cup ToSet(Tail(work))
    BY <1>1, Taken
<1>3. ToSet(Tail(work)) = {Tail(work)[i] : i \in 1..Len(Tail(work))}
    <2>1. Tail(work) \in Seq(Events)
        BY <1>1, Taken
    <2> QED
        BY <2>1, Listed
<1>4. ev \in Events
    BY <1>1, Taken
<1> HIDE DEF ev
<1>5. ASSUME NEW f \in ToSet(Tail(work))
      PROVE  \/ ev.n < f.n
             \/ f.n < ev.n /\ ~immediate /\ ev.topic \in Entities /\ f.topic \notin {ev.topic, Direct}
    <2>1. PICK i \in 1..Len(Tail(work)) : f = Tail(work)[i]
        BY <1>3
    <2>2. i + 1 \in 1..Len(work) /\ 1 \in 1..Len(work) /\ 1 < i + 1 /\ f = work[i + 1]
        BY <1>2, <2>1
    <2> QED
        BY <1>2, <2>2 DEF OrderInv, InOrder
<1>6. ASSUME NEW f \in ToSet(ch) PROVE ev.n < f.n
    <2>1. PICK j \in 1..Len(ch) : f = ch[j]
        BY InBox
    <2>2. 1 \in 1..Len(work)
        BY <1>2
    <2> QED
        BY <1>2, <2>1, <2>2 DEF OrderInv, Before
<1>7. \A f \in Events : f.n \in Nat
    BY EventFacts
<1>8. Box = {ev} \cup ToSet(Tail(work)) \cup ToSet(ch) /\ Box' = ToSet(Tail(work)) \cup ToSet(ch)
    BY <1>1, <1>2, Nothing DEF Box
<1>9. Box \subseteq Events
    BY InBox
<1> QED
    BY <1>4, <1>5, <1>6, <1>7, <1>8, <1>9 DEF ev

\* A state that takes the slot of an older one passes no direct event.
LEMMA CoalesceMoves ==
    ASSUME TypeOK, PhaseInv, OrderInv, Coalesce
    PROVE  \E old, new \in Box :
              /\ ~immediate /\ old.topic = new.topic /\ old.topic \in Entities /\ old.n < new.n
              /\ ~\E f \in Box : f.topic = Direct /\ old.n < f.n /\ f.n < new.n
              /\ Box' = Box \ {old}
<1> DEFINE new == Head(ch)
           k == coalesceIdx[new.topic]
           old == pending[k]
<1>1. /\ ch \in Seq(Events) /\ ch # <<>> /\ pending \in Seq(Events) /\ work = <<>> /\ ~immediate
      /\ ch' = Tail(ch) /\ pending' = [pending EXCEPT ![k] = new] /\ work' = work
      /\ new.topic \in Entities /\ k \in 1..Len(pending) /\ old.topic = new.topic
    BY DEF TypeOK, PhaseInv, Coalesce, Overwrite
<1>2. /\ new = ch[1] /\ Len(ch) \in Nat /\ Len(ch) > 0 /\ Len(Tail(ch)) = Len(ch) - 1
      /\ \A i \in 1..Len(Tail(ch)) : Tail(ch)[i] = ch[i + 1]
      /\ new \in Events /\ ToSet(ch) = {new} \cup ToSet(Tail(ch))
      /\ ToSet(Tail(ch)) = {Tail(ch)[i] : i \in 1..Len(Tail(ch))}
    <2>1. /\ Head(ch) = ch[1] /\ Len(ch) \in Nat /\ Len(ch) > 0 /\ Len(Tail(ch)) = Len(ch) - 1
          /\ \A i \in 1..Len(Tail(ch)) : Tail(ch)[i] = ch[i + 1]
          /\ Head(ch) \in Events /\ ToSet(ch) = {Head(ch)} \cup ToSet(Tail(ch))
          /\ Tail(ch) \in Seq(Events)
        BY <1>1, Taken
    <2>2. ToSet(Tail(ch)) = {Tail(ch)[i] : i \in 1..Len(Tail(ch))}
        BY <2>1, Listed
    <2> QED
        BY <2>1, <2>2
<1>3. old \in Events
    BY <1>1
<1> HIDE DEF new, k, old
<1>4. /\ Len(pending') = Len(pending) /\ DOMAIN pending' = 1..Len(pending)
      /\ \A i \in 1..Len(pending) : pending'[i] = IF i = k THEN new ELSE pending[i]
    BY <1>1, <1>2, ExceptSeq
<1>5. ASSUME NEW f \in ToSet(Tail(ch)) PROVE new.n < f.n
    <2>1. PICK i \in 1..Len(Tail(ch)) : f = Tail(ch)[i]
        BY <1>2
    <2>2. i + 1 \in 1..Len(ch) /\ 1 \in 1..Len(ch) /\ 1 < i + 1 /\ f = ch[i + 1]
        BY <1>2, <2>1
    <2> QED
        BY <1>2, <2>2 DEF OrderInv
<1>6. \A i \in 1..Len(pending) : pending[i].n < new.n /\ pending[i].topic # Direct
    <2>1. 1 \in 1..Len(ch)
        BY <1>2
    <2> QED
        BY <1>2, <2>1 DEF OrderInv, Before, PhaseInv
<1>7. old.n < new.n
    BY <1>1, <1>6 DEF old
<1>8. \A i \in 1..Len(pending) : i # k => pending[i] # old
    <2> SUFFICES ASSUME NEW i \in 1..Len(pending), i # k PROVE pending[i].n # old.n
        OBVIOUS
    <2>1. pending[i].n \in Nat /\ old.n \in Nat /\ Len(pending) \in Nat
        BY <1>1, <1>3, EventFacts
    <2>2. i < k \/ k < i
        BY <1>1
    <2> QED
        BY <1>1, <2>1, <2>2 DEF OrderInv, InOrder, old
<1>9. Box = ToSet(pending) \cup {new} \cup ToSet(Tail(ch)) /\ Box' = ToSet(pending') \cup ToSet(Tail(ch))
    BY <1>1, <1>2, Nothing DEF Box
<1>10. ToSet(pending) = {pending[i] : i \in 1..Len(pending)} /\ ToSet(pending') = {pending'[i] : i \in 1..Len(pending)}
    BY <1>4, InBox DEF ToSet
<1>11. old \in ToSet(pending) /\ ToSet(pending') = (ToSet(pending) \ {old}) \cup {new}
    <2>1. ASSUME NEW i \in 1..Len(pending), pending[i] # old PROVE pending[i] \in ToSet(pending')
        <3>1. i # k
            BY <2>1 DEF old
        <3> QED
            BY <1>4, <1>10, <3>1
    <2>2. new \in ToSet(pending')
        BY <1>1, <1>4, <1>10
    <2>3. ASSUME NEW i \in 1..Len(pending) PROVE pending'[i] \in (ToSet(pending) \ {old}) \cup {new}
        BY <1>4, <1>8, <1>10
    <2>4. old \in ToSet(pending)
        BY <1>1, <1>10 DEF old
    <2> QED
        BY <1>10, <2>1, <2>2, <2>3, <2>4
<1>12. new.n \in Nat /\ old.n \in Nat /\ \A f \in Box : f.n \in Nat
    BY <1>2, <1>3, EventFacts, InBox
<1>13. old \notin ToSet(Tail(ch)) /\ old # new
    BY <1>5, <1>7, <1>12, <1>9
<1>14. Box' = Box \ {old}
    BY <1>9, <1>11, <1>13
<1>15. ASSUME NEW f \in Box, f.topic = Direct, f.n < new.n PROVE FALSE
    BY <1>5, <1>6, <1>9, <1>10, <1>12, <1>15, EventLoopAssumption, <1>1
<1>16. old \in Box /\ new \in Box
    BY <1>9, <1>11
<1> QED
    BY <1>1, <1>7, <1>14, <1>15, <1>16

\* No other step of Start moves an event into or out of the script.
LEMMA OthersKeep ==
    ASSUME TypeOK, PhaseInv,
           \/ Close \/ Cancel \/ Load \/ (\E e \in Entities : Replay(e)) \/ EnterLoop
           \/ TakeDirect \/ Batch \/ Drained \/ WindowEnds \/ Handled
           \/ OtherCallback \/ CallbackReturns \/ CtxExit
    PROVE  Box' = Box
<1> USE DEF chanVars, batchVars
<1>1. CASE TakeDirect
    <2>1. ToSet(pending \o <<Head(ch)>>) = ToSet(pending) \cup {Head(ch)} /\ ToSet(ch) = {Head(ch)} \cup ToSet(Tail(ch))
        <3>1. ch \in Seq(Events) /\ ch # <<>> /\ pending \in Seq(Events)
            BY <1>1 DEF TakeDirect, TypeOK
        <3>2. Head(ch) \in Events /\ ToSet(ch) = {Head(ch)} \cup ToSet(Tail(ch))
            BY <3>1, Taken
        <3>3. <<Head(ch)>> \in Seq(Events) /\ ToSet(<<Head(ch)>>) = {Head(ch)}
            BY <3>2, Single
        <3> DEFINE one == <<Head(ch)>>
        <3>4. one \in Seq(Events) /\ ToSet(one) = {Head(ch)}
            BY <3>3
        <3> HIDE DEF one
        <3>5. ToSet(pending \o one) = ToSet(pending) \cup ToSet(one)
            BY <3>1, <3>4, Joined
        <3> QED
            BY <3>2, <3>4, <3>5 DEF one
    <2>2. work = <<>> /\ ch' = Tail(ch) /\ work' = pending \o <<Head(ch)>> /\ pending' = <<>>
        BY <1>1 DEF TakeDirect, Flush, PhaseInv
    <2> QED
        BY <2>1, <2>2, Nothing DEF Box
<1>2. CASE Batch
    <2>1. ToSet(Append(pending, Head(ch))) = ToSet(pending) \cup {Head(ch)} /\ ToSet(ch) = {Head(ch)} \cup ToSet(Tail(ch))
        BY <1>2, Taken, Appended DEF Batch, TypeOK
    <2>2. work' = work /\ ch' = Tail(ch) /\ pending' = Append(pending, Head(ch))
        BY <1>2 DEF Batch
    <2> QED
        BY <2>1, <2>2 DEF Box
<1>3. CASE WindowEnds \/ Drained
    <2>1. ToSet(pending \o <<>>) = ToSet(pending)
        BY Nothing, Joined DEF TypeOK
    <2>2. work = <<>> /\ ch' = ch /\ work' = pending \o <<>> /\ pending' = <<>>
        BY <1>3 DEF WindowEnds, Drained, Flush, PhaseInv
    <2> QED
        BY <2>1, <2>2, Nothing DEF Box
<1>4. CASE \E e \in Entities : Replay(e)
    BY <1>4 DEF Replay, Box
<1> QED
    BY <1>1, <1>2, <1>3, <1>4 DEF Box, Close, Cancel, Load, EnterLoop, Handled, OtherCallback,
       CallbackReturns, CtxExit

-----------------------------------------------------------------------------
LEMMA PhaseStep == TypeOK /\ PhaseInv /\ [Next]_vars => PhaseInv'
<1> SUFFICES ASSUME TypeOK, PhaseInv, [Next]_vars PROVE PhaseInv'
    OBVIOUS
<1> USE DEF PhaseInv, optVars, sendVars, chanVars, batchVars, ghostVars
<1>1. CASE (\E t \in Topics : Occur(t)) \/ (\E e \in Entities : Reseed(e))
    BY <1>1 DEF Occur, Reseed
<1>2. CASE Send \/ Close \/ Cancel
    BY <1>2 DEF Send, Close, Cancel
<1>3. CASE Load \/ EnterLoop \/ OtherCallback \/ CallbackReturns \/ CtxExit \/ Handled
    BY <1>3 DEF Load, EnterLoop, OtherCallback, CallbackReturns, CtxExit, Handled
<1>4. CASE \E e \in Entities : Replay(e)
    BY <1>4 DEF Replay, TypeOK
<1>5. CASE TakeDirect \/ WindowEnds \/ Drained
    BY <1>5, Nothing DEF TakeDirect, WindowEnds, Drained, Flush
<1>6. CASE Coalesce
    <2> DEFINE ev == Head(ch)
               k == coalesceIdx[ev.topic]
    <2>1. /\ ev.topic \in Entities /\ k \in 1..Len(pending) /\ ~immediate
          /\ pending' = [pending EXCEPT ![k] = ev] /\ pending[k].topic = ev.topic
          /\ UNCHANGED <<phase, work, replay, seen, coalesceIdx, immediate>>
        BY <1>6 DEF Coalesce, Overwrite, TypeOK
    <2>2. ev \in Events
        BY <1>6, Taken DEF Coalesce, TypeOK
    <2> HIDE DEF ev, k
    <2>3. /\ Len(pending') = Len(pending)
          /\ \A i \in 1..Len(pending) : pending'[i] = IF i = k THEN ev ELSE pending[i]
        BY <2>1, <2>2, ExceptSeq DEF TypeOK
    <2>4. phase \notin {"load", "replay", "lua", "final"}
        BY <1>6 DEF Coalesce
    <2>5. k = coalesceIdx[ev.topic]
        BY DEF k
    <2> QED
        BY <2>1, <2>3, <2>4, <2>5, EventLoopAssumption
<1>7. CASE Batch
    <2> DEFINE ev == Head(ch)
    <2>1. /\ ev.topic # Direct /\ (ev.topic \in Entities => coalesceIdx[ev.topic] = NoSlot)
          /\ pending' = Append(pending, ev) /\ ~immediate
          /\ coalesceIdx' = [e \in Entities |->
                              IF e = ev.topic THEN Len(pending) + 1 ELSE coalesceIdx[e]]
          /\ UNCHANGED <<phase, work, replay, seen, immediate>>
        BY <1>7 DEF Batch
    <2>2. ev \in Events
        BY <1>7, Taken DEF Batch, TypeOK
    <2> HIDE DEF ev
    <2>3. /\ Len(pending) \in Nat /\ Len(pending') = Len(pending) + 1
          /\ \A i \in 1..Len(pending) : pending'[i] = pending[i]
          /\ pending'[Len(pending) + 1] = ev
        BY <2>1, <2>2, Appended DEF TypeOK
    <2>4. phase \notin {"load", "replay", "lua", "final"}
        BY <1>7 DEF Batch
    <2>5. \A i \in 1..Len(pending) : pending[i].topic \in Entities => pending[i].topic # ev.topic
        BY <2>1, <2>3 DEF NoSlot
    <2> QED
        BY <2>1, <2>3, <2>4, <2>5
<1>8. CASE Handle
    BY <1>8, Nothing DEF Handle
<1>9. CASE UNCHANGED vars
    BY <1>9 DEF vars
<1> QED
    BY <1>1, <1>2, <1>3, <1>4, <1>5, <1>6, <1>7, <1>8, <1>9 DEF Next, TakeEvent

LEMMA OrderStep ==
    TypeOK /\ PhaseInv /\ OrderInv /\ NumberInv /\ [Next]_vars => OrderInv'
<1> SUFFICES ASSUME TypeOK, PhaseInv, OrderInv, NumberInv, [Next]_vars PROVE OrderInv'
    OBVIOUS
<1> USE DEF OrderInv, InOrder, Before, optVars, sendVars, chanVars, batchVars, ghostVars
<1>1. /\ ch \in Seq(Events) /\ pending \in Seq(Events) /\ work \in Seq(Events)
      /\ Len(ch) \in Nat /\ Len(pending) \in Nat /\ Len(work) \in Nat
    BY DEF TypeOK
<1>2. /\ \A i \in 1..Len(ch) : ch[i] \in Box /\ ch[i].n \in Nat
      /\ \A i \in 1..Len(pending) : pending[i] \in Box /\ pending[i].n \in Nat
      /\ \A i \in 1..Len(work) : work[i] \in Box /\ work[i].n \in Nat
    BY <1>1, EventFacts, Listed DEF Box
<1>3. CASE (\E t \in Topics : Occur(t)) \/ (\E e \in Entities : Reseed(e))
    BY <1>3 DEF Occur, Reseed
<1>4. CASE Send
    <2>1. CASE ~closed /\ Len(ch) < QueueCap
        <3>1. ch' = Append(ch, sending) /\ UNCHANGED <<pending, work, immediate>> /\ sending \in Events
            BY <1>4, <2>1 DEF Send, TypeOK
        <3>2. /\ Len(ch') = Len(ch) + 1 /\ ch'[Len(ch) + 1] = sending
              /\ \A i \in 1..Len(ch) : ch'[i] = ch[i]
            BY <1>1, <3>1, Appended
        <3>3. \A ev \in Box : ev.n < sending.n
            BY <1>4 DEF Send, NumberInv
        <3>4. \A i \in 1..Len(ch') : i \in 1..Len(ch) \/ i = Len(ch) + 1
            BY <1>1, <3>2
        <3>5. \A i, j \in 1..Len(ch') : i < j => i \in 1..Len(ch)
            BY <1>1, <3>2
        <3>6. \A i, j \in 1..Len(ch') : i < j => ch'[i].n < ch'[j].n
            <4> SUFFICES ASSUME NEW i \in 1..Len(ch'), NEW j \in 1..Len(ch'), i < j
                         PROVE  ch'[i].n < ch'[j].n
                OBVIOUS
            <4>1. CASE j \in 1..Len(ch)
                BY <3>2, <3>5, <4>1
            <4>2. CASE j = Len(ch) + 1
                BY <1>2, <3>2, <3>3, <3>5, <4>2
            <4> QED
                BY <3>4, <4>1, <4>2
        <3>7. Before(pending, ch)' /\ Before(work, ch)'
            <4> SUFFICES ASSUME NEW j \in 1..Len(ch')
                         PROVE  /\ \A i \in 1..Len(pending) : pending[i].n < ch'[j].n
                                /\ \A i \in 1..Len(work) : work[i].n < ch'[j].n
                BY <3>1
            <4>1. CASE j \in 1..Len(ch)
                BY <3>2, <4>1
            <4>2. CASE j = Len(ch) + 1
                BY <1>2, <3>2, <3>3, <4>2
            <4> QED
                BY <3>4, <4>1, <4>2
        <3> QED
            BY <3>1, <3>6, <3>7
    <2>2. CASE ~(~closed /\ Len(ch) < QueueCap)
        BY <1>4, <2>2 DEF Send
    <2> QED
        BY <2>1, <2>2
<1>5. CASE Close \/ Cancel \/ Load \/ (\E e \in Entities : Replay(e)) \/ EnterLoop \/ OtherCallback
           \/ CallbackReturns \/ CtxExit \/ Handled
    BY <1>5 DEF Close, Cancel, Load, Replay, EnterLoop, OtherCallback, CallbackReturns, CtxExit, Handled
\* The event at the head of the channel.
<1> DEFINE ev == Head(ch)
<1>6. ASSUME ch # <<>>, ch' = Tail(ch)
      PROVE  /\ ev \in Events /\ ev.n \in Nat
             /\ \A i, j \in 1..Len(ch') : i < j => ch'[i].n < ch'[j].n
             /\ \A i \in 1..Len(pending) : pending[i].n < ev.n
             /\ \A j \in 1..Len(ch') : ev.n < ch'[j].n
             /\ \A i \in 1..Len(pending), j \in 1..Len(ch') : pending[i].n < ch'[j].n
    <2>1. /\ ev = ch[1] /\ ev \in Events /\ Len(ch) > 0 /\ Len(ch') = Len(ch) - 1
          /\ \A i \in 1..Len(ch') : ch'[i] = ch[i + 1]
        BY <1>1, <1>6, Taken
    <2>2. 1 \in 1..Len(ch) /\ \A i \in 1..Len(ch') : i + 1 \in 1..Len(ch) /\ 1 < i + 1
        BY <1>1, <2>1
    <2>3. ev.n \in Nat
        BY <2>1, EventFacts
    <2> HIDE DEF ev
    <2>4. \A j \in 1..Len(ch') : ev.n < ch'[j].n
        BY <2>1, <2>2
    <2>5. \A i \in 1..Len(pending) : pending[i].n < ev.n
        BY <2>1, <2>2
    <2>6. \A i, j \in 1..Len(ch') : i < j => ch'[i].n < ch'[j].n
        <3> SUFFICES ASSUME NEW i \in 1..Len(ch'), NEW j \in 1..Len(ch'), i < j
                     PROVE  ch[i + 1].n < ch[j + 1].n
            BY <2>1
        <3>1. i + 1 < j + 1
            BY <1>1, <2>1
        <3> QED
            BY <2>2, <3>1
    <2>7. \A i \in 1..Len(pending), j \in 1..Len(ch') : pending[i].n < ch'[j].n
        BY <2>1, <2>2
    <2> QED
        BY <2>1, <2>3, <2>4, <2>5, <2>6, <2>7
<1>7. CASE TakeDirect
    <2>1. /\ ch # <<>> /\ ch' = Tail(ch) /\ work' = pending \o <<ev>> /\ pending' = <<>>
          /\ UNCHANGED immediate
        BY <1>7 DEF TakeDirect, Flush
    <2> DEFINE one == <<ev>>
    <2>2. one \in Seq(Events) /\ Len(one) = 1 /\ one[1] = ev
        BY <1>6, <2>1, Single
    <2>3. work' = pending \o one
        BY <2>1
    <2> HIDE DEF ev, one
    <2>4. /\ Len(work') = Len(pending) + 1 /\ work'[Len(pending) + 1] = ev
          /\ \A i \in 1..Len(pending) : work'[i] = pending[i]
          /\ \A i \in 1..Len(work') : i \in 1..Len(pending) \/ i = Len(pending) + 1
        <3>1. /\ Len(work') = Len(pending) + Len(one)
              /\ \A i \in 1..Len(pending) : work'[i] = pending[i]
              /\ \A i \in 1..Len(one) : work'[Len(pending) + i] = one[i]
            <4>1. /\ Len(pending \o one) = Len(pending) + Len(one)
                  /\ \A i \in 1..Len(pending) : (pending \o one)[i] = pending[i]
                  /\ \A i \in 1..Len(one) : (pending \o one)[Len(pending) + i] = one[i]
                <5>1. pending \in Seq(Events) /\ one \in Seq(Events)
                    BY <1>1, <2>2
                <5> QED
                    BY <5>1, Joined
            <4> QED
                BY <2>3, <4>1
        <3>2. Len(work') = Len(pending) + 1 /\ work'[Len(pending) + 1] = ev
            <4>1. 1 \in 1..Len(one)
                BY <2>2
            <4> QED
                BY <2>2, <3>1, <4>1
        <3> QED
            BY <1>1, <3>1, <3>2
    <2>5. InOrder(work)'
        <3> SUFFICES ASSUME NEW i \in 1..Len(work'), NEW j \in 1..Len(work'), i < j
                     PROVE  \/ work'[i].n < work'[j].n
                            \/ /\ work'[j].n < work'[i].n /\ ~immediate
                               /\ work'[i].topic \in Entities /\ work'[j].topic \notin {work'[i].topic, Direct}
            BY <2>1
        <3>1. i \in 1..Len(pending)
            BY <1>1, <2>4
        <3>2. CASE j \in 1..Len(pending)
            BY <2>4, <3>1, <3>2
        <3>3. CASE j = Len(pending) + 1
            BY <1>6, <2>1, <2>4, <3>1, <3>3
        <3> QED
            BY <2>4, <3>2, <3>3
    <2>6. Before(work, ch)'
        BY <1>6, <2>1, <2>4
    <2> QED
        BY <1>6, <2>1, <2>5, <2>6, Nothing
<1>8. CASE WindowEnds \/ Drained
    <2>1. ch' = ch /\ work' = pending \o <<>> /\ pending' = <<>> /\ UNCHANGED immediate
        BY <1>8 DEF WindowEnds, Drained, Flush
    <2>2. work' = pending
        BY <1>1, <2>1, ConcatEmptySeq
    <2> QED
        BY <2>1, <2>2, Nothing
<1>9. CASE Coalesce
    <2> DEFINE k == coalesceIdx[ev.topic]
    <2>1. /\ ch # <<>> /\ ch' = Tail(ch) /\ UNCHANGED <<work, immediate>> /\ work = <<>>
          /\ ev.topic \in Entities /\ k \in 1..Len(pending) /\ ~immediate
          /\ pending' = [pending EXCEPT ![k] = ev]
        BY <1>9 DEF Coalesce, Overwrite, TypeOK, PhaseInv
    <2>2. \A j \in 1..Len(pending) : j # k => pending[j].topic \notin {ev.topic, Direct}
        BY <2>1 DEF PhaseInv
    <2> HIDE DEF ev, k
    <2>3. /\ Len(pending') = Len(pending)
          /\ \A i \in 1..Len(pending) : pending'[i] = IF i = k THEN ev ELSE pending[i]
        BY <1>1, <1>6, <2>1, ExceptSeq
    <2> QED
        BY <1>1, <1>2, <1>6, <2>1, <2>2, <2>3, Nothing
<1>10. CASE Batch
    <2>1. /\ ch # <<>> /\ ch' = Tail(ch) /\ UNCHANGED <<work, immediate>> /\ work = <<>>
          /\ pending' = Append(pending, ev)
        BY <1>10 DEF Batch, PhaseInv
    <2> HIDE DEF ev
    <2>2. /\ Len(pending') = Len(pending) + 1 /\ pending'[Len(pending) + 1] = ev
          /\ \A i \in 1..Len(pending) : pending'[i] = pending[i]
          /\ \A i \in 1..Len(pending') : i \in 1..Len(pending) \/ i = Len(pending) + 1
        BY <1>1, <1>6, <2>1, Appended
    <2> QED
        BY <1>1, <1>2, <1>6, <2>1, <2>2, Nothing
<1>11. CASE Handle
    <2>1. /\ work # <<>> /\ work' = Tail(work) /\ UNCHANGED <<ch, pending, immediate>>
        BY <1>11 DEF Handle
    <2>2. /\ Len(work') = Len(work) - 1
          /\ \A i \in 1..Len(work') : work'[i] = work[i + 1] /\ i + 1 \in 1..Len(work)
        BY <1>1, <2>1, Taken
    <2> QED
        BY <1>1, <1>2, <2>1, <2>2
<1>12. CASE UNCHANGED vars
    BY <1>12 DEF vars
<1> QED
    BY <1>3, <1>4, <1>5, <1>7, <1>8, <1>9, <1>10, <1>11, <1>12 DEF Next, TakeEvent

LEMMA NumberStep ==
    TypeOK /\ PhaseInv /\ OrderInv /\ NumberInv /\ [Next]_vars => NumberInv'
<1> SUFFICES ASSUME TypeOK, PhaseInv, OrderInv, NumberInv, [Next]_vars PROVE NumberInv'
    OBVIOUS
<1> USE DEF NumberInv, optVars, sendVars, chanVars, batchVars, ghostVars
<1>1. /\ sent \in Nat /\ sending \in Events \cup {NoEvent} /\ last.n \in Nat
      /\ \A ev \in Box : ev \in Events /\ ev.n \in Nat
    BY EventFacts, InBox, EventLoopAssumption DEF TypeOK
<1>2. ASSUME NEW t \in Topics, Occur(t) PROVE NumberInv'
    <2>1. /\ sent' = sent + 1 /\ sending'.n = sent' /\ UNCHANGED <<last, Box>>
        BY <1>2 DEF Occur, Box
    <2> QED
        BY <1>1, <2>1
<1>8. ASSUME NEW e \in Entities, Reseed(e) PROVE NumberInv'
    <2>1. /\ sent' = sent + 1 /\ UNCHANGED <<sending, last, Box>>
        BY <1>8 DEF Reseed, Box
    <2>2. sending # NoEvent => sending.n \in Nat
        BY <1>1, EventFacts
    <2> QED
        BY <1>1, <2>1, <2>2
<1>3. CASE Send
    <2>1. UNCHANGED <<sent, last>> /\ sending' = NoEvent /\ sending # NoEvent
        BY <1>3 DEF Send
    <2> QED
        BY <1>1, <1>3, <2>1, SendMoves
<1>4. CASE \/ Close \/ Cancel \/ Load \/ (\E e \in Entities : Replay(e)) \/ EnterLoop
           \/ TakeDirect \/ Batch \/ Drained \/ WindowEnds \/ Handled
           \/ OtherCallback \/ CallbackReturns \/ CtxExit
    <2>1. Box' = Box
        BY <1>4, OthersKeep
    <2>2. UNCHANGED <<sent, last, sending>>
        BY <1>4 DEF Close, Cancel, Load, Replay, EnterLoop, TakeDirect, Batch, Drained, WindowEnds,
           Handled, OtherCallback, CallbackReturns, CtxExit
    <2> QED
        BY <2>1, <2>2
<1>5. CASE Coalesce
    <2>1. Box' \subseteq Box
        BY <1>5, CoalesceMoves
    <2>2. UNCHANGED <<sent, last, sending>>
        BY <1>5 DEF Coalesce
    <2> QED
        BY <2>1, <2>2
<1>6. CASE Handle
    <2>1. Box' \subseteq Box /\ Head(work) \in Box
        BY <1>6, HandleMoves
    <2>2. UNCHANGED <<sent, sending>> /\ last' = Head(work)
        BY <1>6 DEF Handle
    <2> QED
        BY <1>1, <2>1, <2>2
<1>7. CASE UNCHANGED vars
    <2>1. UNCHANGED <<sent, last, sending, Box>>
        BY <1>7 DEF vars, Box
    <2> QED
        BY <2>1
<1> QED
    BY <1>2, <1>3, <1>4, <1>5, <1>6, <1>7, <1>8 DEF Next, TakeEvent

LEMMA MirrorStep == IInv /\ [Next]_vars => MirrorInv'
<1> SUFFICES ASSUME IInv, [Next]_vars PROVE MirrorInv'
    OBVIOUS
<1>1. TypeOK /\ PhaseInv /\ OrderInv /\ NumberInv /\ MirrorInv
    BY DEF IInv
<1>2. /\ sent \in Nat /\ sending \in Events \cup {NoEvent} /\ mirror \in [Entities -> Nat]
      /\ \A ev \in Box : ev \in Events /\ ev.n \in Nat
      /\ replay \in [Entities -> Nat] /\ seen \in [Entities -> Nat]
    BY <1>1, EventFacts, InBox, EventLoopAssumption DEF TypeOK
<1>3. NoEvent.topic \notin Entities /\ \A ev \in Events : ev # NoEvent
    BY EventFacts, EventLoopAssumption
<1> USE DEF MirrorInv, Coming, optVars, sendVars, chanVars, batchVars, ghostVars
<1>4. ASSUME NEW t \in Topics, Occur(t) PROVE MirrorInv'
    <2>1. /\ sent' = sent + 1 /\ sending = NoEvent /\ sending'.topic = t /\ sending'.n = sent + 1
          /\ mirror' = [e \in Entities |-> IF e = t THEN sent + 1 ELSE mirror[e]]
          /\ unsaid' = unsaid \ {t} /\ UNCHANGED <<Box, initial, phase, replay, seen>>
        BY <1>4 DEF Occur, Box
    <2>2. \A ev \in Box : ev.n <= sent + 1
        BY <1>1, <1>2 DEF NumberInv
    <2>3. ASSUME NEW e \in Entities, e # t PROVE Coming(e)' = Coming(e)
        BY <1>3, <2>1, <2>3
    <2>4. ASSUME t \in Entities
          PROVE  /\ sending' \in Coming(t)' /\ mirror'[t] = sent + 1
                 /\ \A ev \in Coming(t)' : ev.n <= sent + 1
        BY <1>2, <2>1, <2>2, <2>4
    <2>5. \A e \in Entities : e # t => mirror'[e] = mirror[e]
        BY <2>1
    <2> QED
        BY <1>1, <2>1, <2>3, <2>4, <2>5
<1>12. ASSUME NEW x \in Entities, Reseed(x) PROVE MirrorInv'
    <2>1. /\ unsaid' = unsaid \cup {x} /\ \A e \in Entities : e # x => mirror'[e] = mirror[e]
          /\ UNCHANGED <<Box, sending, initial, phase, replay, seen>>
        BY <1>2, <1>12 DEF Reseed, Box
    <2> QED
        BY <1>1, <2>1
<1>5. CASE Send
    <2>1. UNCHANGED <<initial, mirror, phase, replay, seen>> /\ sending' = NoEvent
        BY <1>5 DEF Send
    <2>2. CASE Box' = Box \cup {sending} /\ unsaid' = unsaid
        <3>1. \A e \in Entities : Coming(e)' = Coming(e)
            BY <1>3, <2>1, <2>2
        <3> QED
            BY <1>1, <2>1, <2>2, <3>1
    <2>3. CASE Box' = Box /\ unsaid' = unsaid \cup ({sending.topic} \cap Entities)
        <3>1. \A e \in Entities \ unsaid' : Coming(e)' = Coming(e)
            BY <1>3, <2>1, <2>3
        <3> QED
            BY <1>1, <2>1, <2>3, <3>1
    <2> QED
        BY <1>1, <1>5, <2>2, <2>3, SendMoves
<1>6. CASE Load
    <2>1. UNCHANGED <<Box, sending, mirror, initial, seen>>
        BY <1>1, <1>6, OthersKeep DEF Load
    <2>2. /\ phase' = "replay" /\ \A e \in Entities : seen[e] = 0
          /\ replay' = [e \in Entities |-> IF e \in initial THEN mirror[e] ELSE 0]
          /\ phase = "load"
        BY <1>1, <1>6 DEF Load, PhaseInv
    <2>3. Box = ToSet(ch) /\ unsaid' = {e \in unsaid : \E ev \in ToSet(ch) \cup {sending} : ev.topic = e}
        BY <1>1, <1>6, Nothing DEF Load, PhaseInv, Box
    <2>4. \A e \in unsaid \ unsaid' : Coming(e) = {}
        BY <2>3
    <2> SUFFICES ASSUME NEW e \in Entities \ unsaid', Coming(e) = {}, e \in initial
                 PROVE  mirror[e] = IF replay'[e] # 0 THEN replay'[e] ELSE seen[e]
        BY <1>1, <2>1, <2>2, <2>4
    <2> QED
        BY <2>2
<1>7. ASSUME NEW x \in Entities, Replay(x) PROVE MirrorInv'
    <2>1. UNCHANGED <<Box, sending, mirror, unsaid, initial, phase>> /\ phase = "replay"
        BY <1>1, <1>7, OthersKeep DEF Replay
    <2>2. replay' = [replay EXCEPT ![x] = 0] /\ seen' = [seen EXCEPT ![x] = replay[x]] /\ replay[x] # 0
        BY <1>7 DEF Replay
    <2> QED
        BY <1>1, <1>2, <2>1, <2>2
<1>8. CASE \/ Close \/ Cancel \/ EnterLoop \/ TakeDirect \/ Batch \/ Drained \/ WindowEnds \/ Handled
           \/ OtherCallback \/ CallbackReturns \/ CtxExit
    <2>1. Box' = Box
        BY <1>1, <1>8, OthersKeep
    <2>2. UNCHANGED <<sending, mirror, unsaid, initial, replay, seen>> /\ (phase' # "load" => phase # "load")
        BY <1>8 DEF Close, Cancel, EnterLoop, TakeDirect, Batch, Drained, WindowEnds,
           Handled, OtherCallback, CallbackReturns, CtxExit
    <2> QED
        BY <1>1, <2>1, <2>2
<1>9. CASE Coalesce
    <2>1. UNCHANGED <<sending, mirror, unsaid, initial, replay, seen, phase>>
        BY <1>9 DEF Coalesce
    <2>2. PICK old, new \in Box :
              old.topic = new.topic /\ old.n < new.n /\ Box' = Box \ {old}
        BY <1>1, <1>9, CoalesceMoves
    <2>3. new \in Box' /\ old \in Events /\ old # NoEvent
        BY <1>2, <1>3, <2>2
    <2>4. ASSUME NEW e \in Entities \ unsaid, Coming(e) # {}
          PROVE  /\ Coming(e)' \subseteq Coming(e) /\ Coming(e)' # {}
                 /\ \E ev \in Coming(e)' : ev.n = mirror[e]
        <3>1. Coming(e)' \subseteq Coming(e)
            BY <2>1, <2>2
        <3>2. PICK ev \in Coming(e) : ev.n = mirror[e]
            BY <1>1, <2>4
        <3>3. ev # old \/ ev = sending
            <4> SUFFICES ASSUME ev = old PROVE FALSE
                OBVIOUS
            <4>1. new \in Coming(e)
                BY <2>2, <3>2
            <4> QED
                BY <1>1, <1>2, <2>2, <3>2, <4>1
        <3>4. ev \in Coming(e)'
            BY <2>1, <2>2, <3>2, <3>3
        <3> QED
            BY <3>1, <3>2, <3>4
    <2>5. ASSUME NEW e \in Entities, Coming(e) = {} PROVE Coming(e)' = {}
        BY <2>1, <2>2, <2>5
    <2> QED
        BY <1>1, <2>1, <2>4, <2>5
<1>10. CASE Handle
    <2> DEFINE ev == Head(work)
    <2>1. /\ UNCHANGED <<sending, mirror, unsaid, initial, replay, phase>>
          /\ seen' = [e \in Entities |-> IF e = ev.topic THEN ev.n ELSE seen[e]]
          /\ \A e \in Entities : replay[e] = 0
        BY <1>1, <1>10 DEF Handle, PhaseInv
    <2>2. /\ ev \in Box /\ Box' = Box \ {ev}
          /\ \A f \in Box : f.n < ev.n => f.topic # ev.topic
        BY <1>1, <1>10, HandleMoves
    <2>3. ev \in Events /\ ev # NoEvent /\ ev.n \in Nat
        BY <1>2, <1>3, <2>2
    <2> HIDE DEF ev
    <2>4. ASSUME NEW e \in Entities \ unsaid, e = ev.topic PROVE
              /\ \A f \in Coming(e)' : f.n <= mirror[e]
              /\ Coming(e)' # {} => \E f \in Coming(e)' : f.n = mirror[e]
              /\ Coming(e)' = {} => ev.n = mirror[e]
        <3>1. PICK g \in Coming(e) : g.n = mirror[e]
            BY <1>1, <2>2, <2>4
        <3>2. Coming(e)' \subseteq Coming(e) /\ \A f \in Coming(e) : f \in Coming(e)' \/ f = ev
            BY <2>1, <2>2
        <3>3. \A f \in Coming(e) : f.n <= mirror[e]
            BY <1>1
        <3>4. ASSUME g = ev, NEW f \in Coming(e)' PROVE f.n = mirror[e]
            <4>1. f.n \in Nat /\ f.n <= ev.n /\ f.topic = ev.topic
                <5>1. f \in Events
                    BY <1>2, <1>3, <2>1, <2>4, <3>2
                <5> QED
                    BY <2>4, <3>1, <3>2, <3>3, <3>4, <5>1, EventFacts
            <4>2. ASSUME f \in Box PROVE f.n = mirror[e]
                BY <2>2, <2>3, <3>1, <3>4, <4>1, <4>2
            <4>3. ASSUME f = sending PROVE f.n = mirror[e]
                <5>1. sending # NoEvent
                    BY <1>3, <2>4, <3>2, <4>3
                <5>2. ev.n < sending.n
                    BY <1>1, <2>2, <5>1 DEF NumberInv
                <5> QED
                    BY <2>3, <4>1, <4>3, <5>2
            <4> QED
                BY <3>2, <4>2, <4>3
        <3> QED
            BY <3>1, <3>2, <3>3, <3>4
    <2>5. ASSUME NEW e \in Entities, e # ev.topic PROVE Coming(e)' = Coming(e) /\ seen'[e] = seen[e]
        BY <2>1, <2>2, <2>5
    <2>6. \A e \in Entities : e = ev.topic => seen'[e] = ev.n
        BY <2>1
    <2> QED
        BY <1>1, <2>1, <2>4, <2>5, <2>6
<1>11. CASE UNCHANGED vars
    <2>1. UNCHANGED <<Box, sending, mirror, unsaid, initial, replay, phase, seen>>
        BY <1>11 DEF vars, Box
    <2> QED
        BY <1>1, <2>1
<1> QED
    BY <1>4, <1>5, <1>6, <1>7, <1>8, <1>9, <1>10, <1>11, <1>12 DEF Next, TakeEvent

-----------------------------------------------------------------------------
(* Every step is one of Mailbox *)

LEMMA MailStart == Init => Mail!MailInit
<1> SUFFICES ASSUME Init PROVE Mail!MailInit
    OBVIOUS
<1>1. Box = {}
    BY Nothing DEF Init, Box
<1> QED
    BY <1>1 DEF Init, Mail!MailInit, NoEvent, Mail!NoEvent

LEMMA MailStep == IInv /\ [Next]_vars => [Mail!MailNext]_(Mail!mailVars)
<1> SUFFICES ASSUME IInv, [Next]_vars
             PROVE  Mail!MailNext \/ UNCHANGED <<immediate, Box, last, closed>>
    BY DEF Mail!mailVars
<1>1. TypeOK /\ PhaseInv /\ OrderInv /\ NumberInv
    BY DEF IInv
<1> USE DEF optVars, sendVars, chanVars, batchVars, ghostVars
<1>2. CASE (\E t \in Topics : Occur(t)) \/ (\E e \in Entities : Reseed(e))
    BY <1>2 DEF Occur, Reseed, Box
<1>3. CASE Send
    <2>1. UNCHANGED <<immediate, last, closed>> /\ sending \in Events /\ sending # NoEvent
        BY <1>1, <1>3, SendMoves DEF Send
    <2>2. sending.n > last.n /\ \A f \in Box : sending.n > f.n
        <3>1. last.n < sending.n /\ \A f \in Box : f.n < sending.n
            BY <1>1, <2>1 DEF NumberInv
        <3> QED
            BY <3>1
    <2>3. CASE ~closed /\ Box' = Box \cup {sending}
        <3>1. Mail!Accept(sending)
            BY <2>1, <2>2, <2>3 DEF Mail!Accept
        <3>2. sending \in Mail!Events
            BY <2>1 DEF Events, Topics, Mail!Events, Mail!Topics
        <3> QED
            BY <3>1, <3>2 DEF Mail!MailNext
    <2>4. CASE Box' = Box
        BY <2>1, <2>4
    <2> QED
        BY <1>1, <1>3, <2>3, <2>4, SendMoves
<1>4. CASE Close
    <2>1. Box' = Box
        BY <1>1, <1>4, OthersKeep
    <2>2. Mail!Stop
        BY <1>4, <2>1 DEF Close, Mail!Stop
    <2> QED
        BY <2>2 DEF Mail!MailNext
<1>5. CASE \/ Cancel \/ Load \/ (\E e \in Entities : Replay(e)) \/ EnterLoop
           \/ TakeDirect \/ Batch \/ Drained \/ WindowEnds \/ Handled
           \/ OtherCallback \/ CallbackReturns \/ CtxExit
    <2>1. Box' = Box
        BY <1>1, <1>5, OthersKeep
    <2>2. UNCHANGED <<immediate, last, closed>>
        BY <1>5 DEF Cancel, Load, Replay, EnterLoop, TakeDirect, Batch, Drained, WindowEnds,
           Handled, OtherCallback, CallbackReturns, CtxExit
    <2> QED
        BY <2>1, <2>2
<1>6. CASE Coalesce
    <2>1. UNCHANGED <<immediate, last, closed>>
        BY <1>6 DEF Coalesce
    <2>2. PICK old, new \in Box :
              /\ ~immediate /\ old.topic = new.topic /\ old.topic \in Entities /\ old.n < new.n
              /\ ~\E f \in Box : f.topic = Direct /\ old.n < f.n /\ f.n < new.n
              /\ Box' = Box \ {old}
        BY <1>1, <1>6, CoalesceMoves
    <2>3. Mail!Supersede(old, new)
        BY <2>1, <2>2 DEF Mail!Supersede
    <2> QED
        BY <2>2, <2>3 DEF Mail!MailNext
<1>7. CASE Handle
    <2>1. UNCHANGED <<immediate, closed>> /\ last' = Head(work)
        BY <1>7 DEF Handle
    <2>2. Mail!InTurn(Head(work)) /\ Head(work) \in Box /\ Box' = Box \ {Head(work)}
        BY <1>1, <1>7, HandleMoves DEF Mail!InTurn
    <2>3. Mail!Deliver(Head(work))
        BY <2>1, <2>2 DEF Mail!Deliver
    <2> QED
        BY <2>2, <2>3 DEF Mail!MailNext
<1>8. CASE UNCHANGED vars
    BY <1>8 DEF vars, Box
<1> QED
    BY <1>2, <1>3, <1>4, <1>5, <1>6, <1>7, <1>8 DEF Next, TakeEvent

-----------------------------------------------------------------------------
LEMMA Inductive == Spec => []IInv
<1>1. IInv /\ [Next]_vars => IInv'
    BY TypeStep, PhaseStep, OrderStep, NumberStep, MirrorStep DEF IInv
<1> QED
    BY InitIInv, <1>1, PTL DEF Spec

\* The channel never holds more than its capacity, the slot an entity has in the
\* window is one that holds a state of it, and everything keeps its type.
THEOREM TypeCorrect == Spec => []TypeOK
<1>1. IInv => TypeOK
    BY DEF IInv
<1> QED
    BY Inductive, <1>1, PTL

\* However changes and re-seeded batches interleave with the load, the replay of the
\* initial states and the windows: an idle script has last seen the state the mirror
\* has, of every entity whose initial state it asked for, but for a state that came in
\* a batch or with an event the full channel dropped.
THEOREM NewestSeen == Spec => []SeesNewest
<1>1. IInv => SeesNewest
    <2> SUFFICES ASSUME IInv, phase = "loop", Box = {}, sending = NoEvent, NEW e \in initial \ unsaid
                 PROVE  seen[e] = mirror[e]
        BY DEF SeesNewest
    <2>1. e \in Entities /\ replay[e] = 0
        BY DEF IInv, TypeOK, PhaseInv
    <2>2. Coming(e) = {}
        BY <2>1, EventFacts, EventLoopAssumption DEF Coming
    <2> QED
        BY <2>1, <2>2 DEF IInv, MirrorInv
<1> QED
    BY Inductive, <1>1, PTL

\* The loop with its channel, window and batches implements Mailbox: every step of it
\* accepts an event, lets a newer state replace an older one, hands over the event
\* whose turn it is, stops the script, or moves events without anyone noticing.
THEOREM LoopImplementsMailbox == Spec => ImplementsMailbox
BY Inductive, MailStart, MailStep, PTL DEF Spec, ImplementsMailbox, Mail!MailSpec

=============================================================================
