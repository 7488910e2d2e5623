------------------------- MODULE StateMirrorProofs --------------------------
(***************************************************************************)
(* Proofs about StateMirror: the mirror is what Home Assistant has and     *)
(* what it holds is in the history, outside the known windows.             *)
(***************************************************************************)
EXTENDS StateMirror, SequenceTheorems, WellFoundedInduction, TLAPS

-----------------------------------------------------------------------------
(* The inductive invariant *)

\* What is known of an entity at a version: no later than its last change, a removal
\* or the write of that very version, and for the last one what Home Assistant has.
Known(e, v, s) == v \in 0..written[e] /\ s \in {0, v} /\ (v = written[e] => s = ha[e])

KnownInv ==
    /\ \A e \in Entities :
        /\ written[e] # 0 /\ Known(e, written[e], ha[e])
        /\ Known(e, answer.at[e], answer.states[e])
        /\ Known(e, states.batch.at[e], states.batch.states[e])
        /\ Known(e, seed.batch.at[e], seed.batch.states[e])
        /\ newest[e] <= written[e]
        /\ e \notin missed \cup overtaken => Known(e, newest[e], mem[e])
    /\ \A ev \in ToSet(wire) \cup ToSet(events) : Known(ev.entity, ev.version, ev.state)

\* The last change of an entity, where it has not been missed: the mirror has heard of
\* it, or it is in a batch or an event on the way.
Coming(e) ==
    \/ newest[e] = written[e]
    \/ states.full /\ states.batch.at[e] = written[e]
    \/ seed.at = "merge" /\ seed.batch.at[e] = written[e]
    \/ \E ev \in ToSet(wire) \cup ToSet(events) : ev.entity = e /\ ev.version = written[e]
ComingInv ==
    /\ link = "asked" /\ ~refused => \A e \in Entities \ missed : answer.at[e] = written[e]
    /\ link \in {"unsubscribed", "live"} /\ ~refused /\ (states.full \/ seed.at = "merge" \/ seeded) =>
          \A e \in Entities \ missed : Coming(e)

\* What each goroutine holds at which point.
HoldsInv ==
    /\ seed.at = "append" \/ seed.rows = {}
    /\ IF router.at = "enqueue" THEN \E row \in Rows : router.rows = {row} ELSE router.rows = {}
    /\ writer.at = "commit" \/ writer.batch = <<>>
    /\ stopped => link = "down"
    /\ seed.at = "merge" => \A e \in Entities : seed.baseline[e] # 0 =>
          \E row \in ToSet(history) : row.entity = e /\ row.version = seed.baseline[e]

\* A value the mirror holds is in the history or in a row on its way there.
Kept == ToSet(history) \cup ToSet(writer.batch) \cup ToSet(queue) \cup router.rows \cup seed.rows
Tells(row, e, s) == row.entity = e /\ Value(row.version) = Value(s)
RecordInv ==
    ~stopped => \A e \in Entities \ dropped : mem[e] # 0 => \E row \in Kept : Tells(row, e, mem[e])

IInv == TypeOK /\ KnownInv /\ ComingInv /\ HoldsInv /\ RecordInv

-----------------------------------------------------------------------------
(* Sequences and their elements *)

LEMMA EmptyElems == ToSet(<<>>) = {}
BY DEF ToSet

LEMMA AppendElems ==
    ASSUME NEW S, NEW s \in Seq(S), NEW x \in S
    PROVE  Append(s, x) \in Seq(S) /\ ToSet(Append(s, x)) = ToSet(s) \cup {x}
<1> DEFINE t == Append(s, x)
<1>1. /\ t \in Seq(S) /\ Len(t) = Len(s) + 1 /\ Len(s) \in Nat
      /\ \A i \in 1..Len(s) : t[i] = s[i]
      /\ t[Len(s) + 1] = x
    BY AppendProperties
<1>2. DOMAIN s = 1..Len(s) /\ DOMAIN t = 1..(Len(s) + 1)
    BY <1>1
<1> HIDE DEF t
<1>3. \A i \in DOMAIN t : t[i] = x \/ (i \in DOMAIN s /\ t[i] = s[i])
    BY <1>1, <1>2
<1>4. \A i \in DOMAIN s : i \in DOMAIN t /\ t[i] = s[i]
    BY <1>1, <1>2
<1>5. Len(s) + 1 \in DOMAIN t
    BY <1>1, <1>2
<1>6. ToSet(t) = ToSet(s) \cup {x}
    BY <1>1, <1>3, <1>4, <1>5 DEF ToSet
<1> QED
    BY <1>1, <1>6 DEF t

LEMMA HeadElems ==
    ASSUME NEW S, NEW s \in Seq(S), s # <<>>
    PROVE  /\ Head(s) \in S /\ Tail(s) \in Seq(S) /\ Len(Tail(s)) = Len(s) - 1
           /\ ToSet(s) = ToSet(Tail(s)) \cup {Head(s)}
<1> DEFINE t == Tail(s)
<1>1. /\ t \in Seq(S) /\ Len(t) = Len(s) - 1 /\ Len(s) \in Nat \ {0}
      /\ \A i \in 1..Len(t) : t[i] = s[i + 1]
      /\ Head(s) \in S /\ Head(s) = s[1]
    BY HeadTailProperties
<1>2. DOMAIN s = 1..Len(s) /\ DOMAIN t = 1..(Len(s) - 1)
    BY <1>1
<1> HIDE DEF t
<1>3. \A i \in DOMAIN t : i + 1 \in DOMAIN s /\ t[i] = s[i + 1]
    BY <1>1, <1>2
<1>4. \A i \in DOMAIN s : i = 1 \/ (i - 1 \in DOMAIN t /\ t[i - 1] = s[i])
    BY <1>1, <1>2
<1>5. 1 \in DOMAIN s
    BY <1>1, <1>2
<1>6. ToSet(s) = ToSet(t) \cup {s[1]}
    BY <1>3, <1>4, <1>5 DEF ToSet
<1> QED
    BY <1>1, <1>6 DEF t

LEMMA JoinElems ==
    ASSUME NEW S, NEW s \in Seq(S), NEW q \in Seq(S)
    PROVE  s \o q \in Seq(S) /\ ToSet(s \o q) = ToSet(s) \cup ToSet(q)
<1> DEFINE t == s \o q
<1>1. /\ t \in Seq(S) /\ Len(t) = Len(s) + Len(q) /\ Len(s) \in Nat /\ Len(q) \in Nat
      /\ \A i \in 1..(Len(s) + Len(q)) : t[i] = IF i <= Len(s) THEN s[i] ELSE q[i - Len(s)]
    BY ConcatProperties
<1>2. DOMAIN s = 1..Len(s) /\ DOMAIN q = 1..Len(q) /\ DOMAIN t = 1..(Len(s) + Len(q))
    BY <1>1
<1> HIDE DEF t
<1>3. \A i \in DOMAIN t : (i \in DOMAIN s /\ t[i] = s[i])
                            \/ (i - Len(s) \in DOMAIN q /\ t[i] = q[i - Len(s)])
    BY <1>1, <1>2
<1>4. \A i \in DOMAIN s : i \in DOMAIN t /\ t[i] = s[i]
    BY <1>1, <1>2
<1>5. \A i \in DOMAIN q : i + Len(s) \in DOMAIN t /\ t[i + Len(s)] = q[i]
    BY <1>1, <1>2
<1>6. ToSet(t) = ToSet(s) \cup ToSet(q)
    BY <1>3, <1>4, <1>5 DEF ToSet
<1> QED
    BY <1>1, <1>6 DEF t

LEMMA ElemsType == ASSUME NEW S, NEW s \in Seq(S) PROVE ToSet(s) \subseteq S
BY DEF ToSet

\* The newest row of an entity by id is one of its rows.
LEMMA Greatest ==
    ASSUME NEW n \in Nat, NEW D, D \subseteq 1..n, D # {}
    PROVE  Max(D) \in D
<1> DEFINE R == {p \in Nat \X Nat : p[1] < p[2]}
           T == {n - i : i \in D}
<1>1. OpToRel(<, Nat) = R
    BY DEF OpToRel
<1>2. IsWellFoundedOn(R, Nat)
    BY <1>1, NatLessThanWellFounded
<1>3. \A x, y \in Nat : x < y => <<x, y>> \in R
    OBVIOUS
<1>4. T \subseteq Nat /\ T # {} /\ \A i \in D : n - i \in T
    <2>1. \A i \in D : n - i \in Nat
        OBVIOUS
    <2> QED
        BY <2>1, Zenon
<1> HIDE DEF R
<1>5. PICK x \in T : \A y \in T : <<y, x>> \notin R
    BY <1>2, <1>4, WFMin
<1>6. PICK m \in D : x = n - m
    OBVIOUS
<1>7. ASSUME NEW i \in D PROVE m >= i
    <2>1. n - i \in Nat /\ n - m \in Nat /\ ~(n - i < n - m)
        BY <1>3, <1>4, <1>5, <1>6
    <2>2. i \in 1..n /\ m \in 1..n
        OBVIOUS
    <2> QED
        BY <2>1, <2>2
<1>8. \E z \in D : \A y \in D : z >= y
    BY <1>7
<1> QED
    BY <1>8, Zenon DEF Max

LEMMA BaselineIsRow ==
    ASSUME TypeOK, NEW e \in Entities
    PROVE  /\ Baseline(e) \in States
           /\ Baseline(e) # 0 => \E row \in ToSet(history) : row.entity = e /\ row.version = Baseline(e)
<1>1. CASE RowsOf(e) = {}
    BY <1>1, StateMirrorAssumption DEF Baseline, States
<1>2. CASE RowsOf(e) # {}
    <2>1. history \in Seq(Rows) /\ DOMAIN history = 1..Len(history) /\ Len(history) \in Nat
        BY DEF TypeOK
    <2>2. Max(RowsOf(e)) \in RowsOf(e)
        BY <1>2, <2>1, Greatest DEF RowsOf
    <2> DEFINE row == history[Max(RowsOf(e))]
    <2>3. Max(RowsOf(e)) \in DOMAIN history /\ row.entity = e
        BY <2>2 DEF RowsOf
    <2>4. row \in ToSet(history) /\ row \in Rows /\ Baseline(e) = row.version
        BY <1>2, <2>1, <2>3 DEF ToSet, Baseline
    <2> HIDE DEF row
    <2>5. row.version \in States
        BY <2>4, StateMirrorAssumption DEF Rows, States
    <2> QED
        BY <2>3, <2>4, <2>5
<1> QED
    BY <1>1, <1>2

-----------------------------------------------------------------------------
(* Types *)

LEMMA Constants ==
    /\ 0 \in States /\ \A v \in States : v \in Nat
    /\ NoBatch \in Batches /\ \A e \in Entities : NoBatch.at[e] = 0 /\ NoBatch.states[e] = 0
    /\ NoStates \in Batched /\ ~NoStates.full /\ NoStates.batch = NoBatch
    /\ \A at \in {"first", "idle"} :
          SeedIdle(at) \in Seeds /\ SeedIdle(at).at = at /\ SeedIdle(at).rows = {}
          /\ SeedIdle(at).batch = NoBatch
<1>1. 0 \in States /\ \A v \in States : v \in Nat
    BY StateMirrorAssumption DEF States
<1>2. NoBatch \in Batches /\ \A e \in Entities : NoBatch.at[e] = 0 /\ NoBatch.states[e] = 0
    BY <1>1 DEF NoBatch, Batches
<1>3. NoStates \in Batched /\ ~NoStates.full /\ NoStates.batch = NoBatch
    BY <1>2 DEF NoStates, Batched
<1>4. ASSUME NEW at \in {"first", "idle"}
      PROVE  SeedIdle(at) \in Seeds /\ SeedIdle(at).at = at /\ SeedIdle(at).rows = {}
             /\ SeedIdle(at).batch = NoBatch
    BY <1>1, <1>2, <1>4 DEF SeedIdle, Seeds
<1> QED
    BY <1>1, <1>2, <1>3, <1>4

\* What the merge does to one entity and to the goroutine that runs it.
LEMMA MergeFacts ==
    ASSUME TypeOK, SeedMerge
    PROVE  /\ seed' \in Seeds /\ seed'.at = "append" /\ seed'.batch = seed.batch
           /\ missed \subseteq missed' /\ missed' \subseteq Entities
           /\ mem' \in [Entities -> States] /\ newest' \in [Entities -> States]
           /\ \A e \in Entities :
                LET at == seed.batch.at[e]
                    in == seed.batch.states[e]
                    kept == mem[e] # 0 /\ in # 0 /\ mem[e] > in
                IN  /\ at \in States /\ in \in States
                    /\ mem'[e] = IF kept THEN mem[e] ELSE in
                    /\ newest'[e] = IF at < newest[e] THEN newest[e] ELSE at
                    /\ at < newest[e] /\ (mem[e] = 0) # (in = 0) => e \in missed'
                    /\ in # 0 /\ ~kept /\ Differs(e, in) => [entity |-> e, version |-> in] \in seed'.rows
<1> DEFINE in == seed.batch.states
           live(e) == mem[e] # 0 /\ in[e] # 0 /\ NewerThan(mem[e], in[e])
           older == {e \in Entities : seed.batch.at[e] < newest[e]}
           rows == {[entity |-> e, version |-> in[e]] :
                        e \in {x \in Entities : in[x] # 0 /\ ~live(x) /\ Differs(x, in[x])}}
           s == [seed EXCEPT !.at = "append", !.rows = rows]
<1>1. seed \in Seeds /\ seed.batch \in Batches
    BY DEF TypeOK, Seeds
<1>2. \A e \in Entities : seed.batch.at[e] \in States /\ in[e] \in States
    BY <1>1 DEF Batches
<1>3. rows \subseteq Rows
    <2>1. \A e \in Entities : in[e] # 0 => in[e] \in 1..MaxVersion
        BY <1>2, StateMirrorAssumption DEF States
    <2> QED
        BY <2>1 DEF Rows
<1>4. /\ seed' = s
      /\ mem' = [e \in Entities |-> IF live(e) THEN mem[e] ELSE in[e]]
      /\ missed' = missed \cup {e \in older : (mem[e] = 0) # (in[e] = 0)}
      /\ newest' = [e \in Entities |-> IF e \in older THEN newest[e] ELSE seed.batch.at[e]]
    BY DEF SeedMerge
<1> HIDE DEF rows
<1>5. s \in Seeds /\ s.at = "append" /\ s.batch = seed.batch /\ s.rows = rows
    BY <1>1, <1>3 DEF Seeds
<1> HIDE DEF s
<1>6. missed \subseteq Entities /\ mem \in [Entities -> States] /\ newest \in [Entities -> States]
    BY DEF TypeOK
<1>7. mem' \in [Entities -> States] /\ newest' \in [Entities -> States]
    BY <1>2, <1>4, <1>6
<1>8. ASSUME NEW e \in Entities, in[e] # 0, ~(mem[e] # 0 /\ in[e] # 0 /\ mem[e] > in[e]), Differs(e, in[e])
      PROVE  [entity |-> e, version |-> in[e]] \in rows
    BY <1>8 DEF rows, NewerThan
<1> QED
    BY <1>2, <1>4, <1>5, <1>6, <1>7, <1>8 DEF NewerThan

LEMMA ChangeFacts ==
    ASSUME TypeOK, NEW e \in Entities, NEW here \in BOOLEAN, Change(e, here)
    PROVE  \E ev \in Events :
            /\ ev.entity = e /\ ev.version = written[e] + 1 /\ ev.state \in {0, ev.version}
            /\ ev.version \in States /\ ev.state \in States
            /\ written' = [written EXCEPT ![e] = ev.version] /\ ha' = [ha EXCEPT ![e] = ev.state]
            /\ wire' \in Seq(Events)
            /\ IF link = "live" THEN ToSet(wire') = ToSet(wire) \cup {ev} ELSE wire' = wire
<1> DEFINE v == written[e] + 1
           s == IF here THEN v ELSE 0
           ev == [entity |-> e, version |-> v, state |-> s]
<1>1. written[e] \in 0..MaxVersion /\ written[e] < MaxVersion /\ wire \in Seq(Events)
    BY DEF TypeOK, Change, States
<1>2. v \in 1..MaxVersion /\ v \in States /\ s \in {0, v} /\ s \in States
    BY <1>1, StateMirrorAssumption DEF States
<1>3. /\ written' = [written EXCEPT ![e] = v] /\ ha' = [ha EXCEPT ![e] = s]
      /\ wire' = IF link = "live" THEN Append(wire, ev) ELSE wire
    BY DEF Change
<1> HIDE DEF v, s
<1>4. ev \in Events /\ ev.entity = e /\ ev.version = v /\ ev.state = s
    BY <1>2 DEF Events
<1> HIDE DEF ev
<1>5. Append(wire, ev) \in Seq(Events) /\ ToSet(Append(wire, ev)) = ToSet(wire) \cup {ev}
    BY <1>1, <1>4, AppendElems
<1>6. wire' \in Seq(Events) /\ IF link = "live" THEN ToSet(wire') = ToSet(wire) \cup {ev} ELSE wire' = wire
    BY <1>1, <1>3, <1>5
<1>7. v = written[e] + 1
    BY DEF v
<1> QED
    BY <1>2, <1>3, <1>4, <1>6, <1>7

\* The event the router applies, and the row it records.
LEMMA ApplyFacts ==
    ASSUME TypeOK, Apply
    PROVE  \E ev \in Events :
            /\ ev.entity \in Entities /\ ev.version \in States /\ ev.state \in States
            /\ events' \in Seq(Events) /\ Len(events') <= EventsCap
            /\ ToSet(events) = ToSet(events') \cup {ev}
            /\ mem' = [mem EXCEPT ![ev.entity] = ev.state]
            /\ overtaken' = IF ev.version < newest[ev.entity] THEN overtaken \cup {ev.entity} ELSE overtaken
            /\ newest' = [newest EXCEPT ![ev.entity] = IF ev.version > newest[ev.entity] THEN ev.version
                                                                           ELSE newest[ev.entity]]
            /\ IF ev.state = 0 THEN router' = router
               ELSE \E row \in Rows :
                        /\ row.entity = ev.entity /\ row.version = ev.version
                        /\ router' \in Routers /\ router'.at = "enqueue" /\ router'.rows = {row}
<1> DEFINE ev == Head(events)
           row == [entity |-> ev.entity, version |-> ev.version]
           r == [at |-> "enqueue", rows |-> {row}]
<1>1. events \in Seq(Events) /\ events # <<>> /\ events' = Tail(events) /\ Len(events) <= EventsCap
    BY DEF TypeOK, Apply
<1>2. /\ ev \in Events /\ events' \in Seq(Events) /\ Len(events') = Len(events) - 1
      /\ ToSet(events) = ToSet(events') \cup {ev}
    BY <1>1, HeadElems
<1>3. Len(events') <= EventsCap
    BY <1>1, <1>2, StateMirrorAssumption
<1>4. /\ mem' = [mem EXCEPT ![ev.entity] = ev.state]
      /\ overtaken' = IF ev.version < newest[ev.entity] THEN overtaken \cup {ev.entity} ELSE overtaken
      /\ newest' = [newest EXCEPT ![ev.entity] = IF ev.version > newest[ev.entity] THEN ev.version
                                                                     ELSE newest[ev.entity]]
      /\ router' = IF ev.state = 0 THEN router ELSE r
    BY DEF Apply
<1> HIDE DEF ev
<1>5. ev.entity \in Entities /\ ev.version \in 1..MaxVersion /\ ev.version \in States /\ ev.state \in States
    BY <1>2, StateMirrorAssumption DEF Events, States
<1>6. row \in Rows /\ row.entity = ev.entity /\ row.version = ev.version
    BY <1>5 DEF Rows
<1> HIDE DEF row
<1>7. r \in Routers /\ r.at = "enqueue" /\ r.rows = {row}
    BY <1>6 DEF Routers
<1> HIDE DEF r
<1> QED
    BY <1>2, <1>3, <1>4, <1>5, <1>6, <1>7

\* A row reaches the queue unless the process is shutting down.
LEMMA EnqueueFacts ==
    ASSUME TypeOK, NEW row \in Rows, Enqueue(row)
    PROVE  /\ queue' \in Seq(Rows) /\ Len(queue') <= QueueCap
           /\ ToSet(queue) \subseteq ToSet(queue')
           /\ ~stopped => row \in ToSet(queue')
<1>1. queue \in Seq(Rows) /\ Len(queue) <= QueueCap /\ Len(queue) \in Nat
    BY DEF TypeOK
<1>2. CASE Len(queue) < QueueCap /\ queue' = Append(queue, row)
    <2>1. queue' \in Seq(Rows) /\ ToSet(queue') = ToSet(queue) \cup {row}
        BY <1>1, <1>2, AppendElems
    <2>2. Len(queue') = Len(queue) + 1
        BY <1>1, <1>2
    <2> QED
        BY <1>1, <1>2, <2>1, <2>2, StateMirrorAssumption
<1>3. CASE stopped /\ UNCHANGED queue
    BY <1>1, <1>3
<1> QED
    BY <1>2, <1>3 DEF Enqueue

\* A process that has just started has its types.
LEMMA BootType ==
    ASSUME Booted
    PROVE  /\ link' = "down" /\ answer' \in Batches /\ wire' \in Seq(Events)
           /\ states' \in Batched /\ events' \in Seq(Events) /\ Len(events') <= EventsCap
           /\ mem' \in [Entities -> States] /\ seeded' \in BOOLEAN /\ seed' \in Seeds
           /\ router' \in Routers /\ queue' \in Seq(Rows) /\ Len(queue') <= QueueCap
           /\ writer' \in Writers /\ newest' \in [Entities -> States]
           /\ missed' \subseteq Entities /\ overtaken' \subseteq Entities /\ refused' \in BOOLEAN
           /\ stopped' \in BOOLEAN
<1>1. \A S : <<>> \in Seq(S)
    OBVIOUS
<1>2. Len(<<>>) <= EventsCap /\ Len(<<>>) <= QueueCap
    BY StateMirrorAssumption
<1>3. [at |-> "off", rows |-> {}] \in Routers /\ [at |-> "idle", batch |-> <<>>] \in Writers
    BY <1>1 DEF Routers, Writers
<1> QED
    BY <1>1, <1>2, <1>3, Constants DEF Booted

LEMMA TypeStep == ASSUME TypeOK, [Next]_vars PROVE TypeOK'
<1> USE DEF linkVars, chanVars, memVars, storeVars
<1>1. ASSUME NEW e \in Entities, NEW here \in BOOLEAN, Change(e, here) PROVE TypeOK'
    <2>1. PICK ev \in Events :
            /\ ev.version \in States /\ ev.state \in States
            /\ written' = [written EXCEPT ![e] = ev.version] /\ ha' = [ha EXCEPT ![e] = ev.state]
            /\ wire' \in Seq(Events)
        BY <1>1, ChangeFacts
    <2>2. written' \in [Entities -> States] /\ ha' \in [Entities -> States]
        BY <2>1 DEF TypeOK
    <2> QED
        BY <1>1, <2>1, <2>2 DEF Change, TypeOK
<1>2. CASE Connect
    <2>1. [states |-> ha, at |-> written] \in Batches
        BY DEF TypeOK, Batches
    <2> QED
        BY <1>2, <2>1, Constants DEF Connect, TypeOK
<1>3. CASE DeliverStates
    <2>1. [full |-> TRUE, batch |-> answer] \in Batched
        BY DEF TypeOK, Batched
    <2> QED
        BY <1>3, <2>1, Constants DEF DeliverStates, TypeOK
<1>4. CASE Subscribed
    BY <1>4 DEF Subscribed, TypeOK
<1>5. CASE Read
    <2>1. wire \in Seq(Events) /\ wire # <<>> /\ events \in Seq(Events)
        BY <1>5 DEF Read, TypeOK
    <2>2. Head(wire) \in Events /\ Tail(wire) \in Seq(Events)
        BY <2>1, HeadElems
    <2>3. Append(events, Head(wire)) \in Seq(Events) /\ Len(Append(events, Head(wire))) = Len(events) + 1
        BY <2>1, <2>2, AppendProperties
    <2>4. Len(events) < EventsCap => Len(events) + 1 <= EventsCap
        BY <2>1, StateMirrorAssumption
    <2>5. Head(wire).entity \in Entities
        BY <2>2 DEF Events
    <2>6. wire' \in Seq(Events) /\ events' \in Seq(Events) /\ Len(events') <= EventsCap /\ missed' \subseteq Entities
        BY <1>5, <2>1, <2>2, <2>3, <2>4, <2>5 DEF Read, TypeOK
    <2> QED
        BY <1>5, <2>6 DEF Read, TypeOK
<1>6. CASE Disconnect
    <2>1. answer' = NoBatch /\ wire' = <<>> /\ refused' = FALSE
        BY <1>6, Zenon DEF Disconnect
    <2>2. answer' \in Batches /\ wire' \in Seq(Events)
        BY <2>1, Constants
    <2>3. refused' \in BOOLEAN
        BY <2>1, Zenon
    <2> QED
        BY <1>6, <2>2, <2>3 DEF Disconnect, TypeOK
<1>7. CASE SeedTake
    <2> DEFINE s == [at |-> "merge", batch |-> states.batch, rows |-> {},
                     baseline |-> [e \in Entities |-> IF Cold THEN Baseline(e) ELSE 0]]
    <2>1. states.batch \in Batches
        BY DEF TypeOK, Batched
    <2>2. [e \in Entities |-> IF Cold THEN Baseline(e) ELSE 0] \in [Entities -> States]
        BY BaselineIsRow, Constants
    <2>3. s \in Seeds
        BY <2>1, <2>2 DEF Seeds
    <2>4. seed' = s
        BY <1>7 DEF SeedTake
    <2> HIDE DEF s
    <2> QED
        BY <1>7, <2>3, <2>4, Constants DEF SeedTake, TypeOK
<1>8. CASE SeedFail \/ SeedIgnores
    BY <1>8, Constants DEF SeedFail, SeedIgnores, TypeOK
<1>9. CASE SeedMerge
    <2>1. /\ seed' \in Seeds /\ missed' \subseteq Entities
          /\ mem' \in [Entities -> States] /\ newest' \in [Entities -> States]
        BY <1>9, MergeFacts
    <2> QED
        BY <1>9, <2>1 DEF SeedMerge, TypeOK
<1>10. CASE SeedAppend
    <2>1. PICK row \in seed.rows : Enqueue(row) /\ seed' = [seed EXCEPT !.rows = seed.rows \ {row}]
        BY <1>10 DEF SeedAppend
    <2>2. seed \in Seeds /\ row \in Rows
        BY DEF TypeOK, Seeds
    <2>3. seed' \in Seeds
        BY <2>1, <2>2 DEF Seeds
    <2>4. queue' \in Seq(Rows) /\ Len(queue') <= QueueCap
        BY <2>1, <2>2, EnqueueFacts
    <2> QED
        BY <1>10, <2>3, <2>4 DEF SeedAppend, TypeOK
<1>11. CASE SeedDone
    BY <1>11, Constants DEF SeedDone, TypeOK
<1>12. CASE StartRouter
    <2>1. router \in Routers
        BY DEF TypeOK
    <2>2. [router EXCEPT !.at = "idle"] \in Routers
        BY <2>1 DEF Routers
    <2> QED
        BY <1>12, <2>2 DEF StartRouter, TypeOK
<1>13. CASE Apply
    <2>1. PICK ev \in Events :
            /\ ev.entity \in Entities /\ ev.version \in States /\ ev.state \in States
            /\ events' \in Seq(Events) /\ Len(events') <= EventsCap
            /\ mem' = [mem EXCEPT ![ev.entity] = ev.state]
            /\ overtaken' = IF ev.version < newest[ev.entity] THEN overtaken \cup {ev.entity} ELSE overtaken
            /\ newest' = [newest EXCEPT ![ev.entity] = IF ev.version > newest[ev.entity] THEN ev.version
                                                                           ELSE newest[ev.entity]]
            /\ router' = router \/ router' \in Routers
        BY <1>13, ApplyFacts
    <2>2. mem' \in [Entities -> States] /\ newest' \in [Entities -> States] /\ overtaken' \subseteq Entities
        BY <2>1 DEF TypeOK
    <2> QED
        BY <1>13, <2>1, <2>2 DEF Apply, TypeOK
<1>14. CASE Record
    <2>1. PICK row \in router.rows : Enqueue(row)
        BY <1>14 DEF Record
    <2>2. row \in Rows
        BY DEF TypeOK, Routers
    <2>3. queue' \in Seq(Rows) /\ Len(queue') <= QueueCap
        BY <2>1, <2>2, EnqueueFacts
    <2>4. [at |-> "idle", rows |-> {}] \in Routers
        BY DEF Routers
    <2> QED
        BY <1>14, <2>3, <2>4 DEF Record, TypeOK
<1>15. CASE Drain \/ Commit \/ DropBatch
    <2>1. queue \in Seq(Rows) /\ writer \in Writers /\ history \in Seq(Rows) /\ dropped \subseteq Entities
        BY DEF TypeOK
    <2>2. [at |-> "commit", batch |-> queue] \in Writers /\ AfterBatch \in Writers /\ writer.batch \in Seq(Rows)
        BY <2>1 DEF Writers, AfterBatch
    <2>3. history \o writer.batch \in Seq(Rows)
        BY <2>1, <2>2, JoinElems
    <2>4. \A r \in ToSet(writer.batch) : r.entity \in Entities
        BY <2>2, ElemsType DEF Rows
    <2>5. CASE Drain
        <3>1. <<>> \in Seq(Rows) /\ Len(<<>>) <= QueueCap
            BY StateMirrorAssumption
        <3> QED
            BY <2>2, <2>5, <3>1 DEF Drain, TypeOK
    <2>6. CASE Commit
        BY <2>2, <2>3, <2>6 DEF Commit, TypeOK
    <2>7. CASE DropBatch
        BY <2>2, <2>4, <2>7 DEF DropBatch, TypeOK
    <2> QED
        BY <1>15, <2>5, <2>6, <2>7
<1>16. CASE Shutdown
    <2>1. answer' = NoBatch /\ wire' = <<>> /\ refused' = FALSE
        BY <1>16, Zenon DEF Shutdown
    <2>2. answer' \in Batches /\ wire' \in Seq(Events)
        BY <2>1, Constants
    <2>3. refused' \in BOOLEAN
        BY <2>1, Zenon
    <2> QED
        BY <1>16, <2>2, <2>3 DEF Shutdown, TypeOK
<1>17. CASE Crash
    <2>1. crashes' \in 0..MaxCrashes
        BY <1>17, StateMirrorAssumption DEF Crash, TypeOK
    <2> QED
        BY <1>17, <2>1, BootType DEF Crash, TypeOK
<1>18. CASE UNCHANGED vars
    BY <1>18 DEF vars, TypeOK
<1> QED
    BY <1>1, <1>2, <1>3, <1>4, <1>5, <1>6, <1>7, <1>8, <1>9, <1>10, <1>11, <1>12, <1>13, <1>14, <1>15,
       <1>16, <1>17, <1>18 DEF Next

-----------------------------------------------------------------------------
(* Nothing the daemon holds is newer than Home Assistant *)

LEMMA KnownGrows ==
    ASSUME TypeOK, NEW x \in Entities, NEW here \in BOOLEAN, Change(x, here)
    PROVE  \A e \in Entities : \A v, s : Known(e, v, s) => Known(e, v, s)'
<1>1. PICK ev \in Events :
        /\ ev.entity = x /\ ev.version = written[x] + 1 /\ ev.version \in States
        /\ written' = [written EXCEPT ![x] = ev.version] /\ ha' = [ha EXCEPT ![x] = ev.state]
    BY ChangeFacts
<1> SUFFICES ASSUME NEW e \in Entities, NEW v, NEW s, Known(e, v, s) PROVE Known(e, v, s)'
    OBVIOUS
<1>2. CASE e = x
    <2>1. written'[x] = written[x] + 1 /\ written[x] \in Nat /\ v \in 0..written[x] /\ s \in {0, v}
        BY <1>1, <1>2, Constants DEF TypeOK, Known
    <2>2. v \in 0..written'[x] /\ v # written'[x]
        BY <2>1
    <2> QED
        BY <1>2, <2>1, <2>2 DEF Known
<1>3. CASE e # x
    BY <1>1, <1>3 DEF Known, TypeOK
<1> QED
    BY <1>2, <1>3

LEMMA KnownZero ==
    ASSUME TypeOK, NEW e \in Entities, written[e] # 0
    PROVE  Known(e, 0, 0)
BY Constants DEF TypeOK, Known

LEMMA KnownStep == ASSUME TypeOK, KnownInv, [Next]_vars PROVE KnownInv'
<1> USE DEF linkVars, chanVars, memVars, storeVars
<1>1. ASSUME NEW x \in Entities, NEW here \in BOOLEAN, Change(x, here) PROVE KnownInv'
    <2>1. PICK ev \in Events :
            /\ ev.entity = x /\ ev.version = written[x] + 1 /\ ev.state \in {0, ev.version}
            /\ ev.version \in States
            /\ written' = [written EXCEPT ![x] = ev.version] /\ ha' = [ha EXCEPT ![x] = ev.state]
            /\ IF link = "live" THEN ToSet(wire') = ToSet(wire) \cup {ev} ELSE wire' = wire
        BY <1>1, ChangeFacts
    <2>2. /\ UNCHANGED <<answer, states, seed, newest, mem, events, overtaken>>
          /\ missed \subseteq missed'
        BY <1>1 DEF Change
    <2>3. \A e \in Entities : \A v, s : Known(e, v, s) => Known(e, v, s)'
        BY <1>1, KnownGrows
    <2>4. /\ written'[x] = ev.version /\ ha'[x] = ev.state
          /\ \A e \in Entities : e # x => written'[e] = written[e] /\ ha'[e] = ha[e]
        BY <2>1 DEF TypeOK
    <2>5. written[x] \in Nat /\ ev.version \in Nat
        BY <2>1, Constants DEF TypeOK
    <2>6. Known(x, ev.version, ev.state)'
        BY <2>1, <2>4, <2>5 DEF Known
    <2>7. ASSUME NEW e \in Entities
          PROVE  written'[e] # 0 /\ Known(e, written[e], ha[e])' /\ newest[e] <= written'[e]
        <3>1. CASE e = x
            <4>1. newest[e] \in Nat
                BY Constants DEF TypeOK
            <4> QED
                BY <2>1, <2>4, <2>5, <2>6, <3>1, <4>1 DEF KnownInv, Known
        <3>2. CASE e # x
            BY <2>3, <2>4, <3>2 DEF KnownInv, Known
        <3> QED
            BY <3>1, <3>2
    <2>8. \A e \in Entities :
            /\ Known(e, answer.at[e], answer.states[e])'
            /\ Known(e, states.batch.at[e], states.batch.states[e])'
            /\ Known(e, seed.batch.at[e], seed.batch.states[e])'
            /\ e \notin missed' \cup overtaken' => Known(e, newest[e], mem[e])'
        BY <2>2, <2>3 DEF KnownInv
    <2>9. ASSUME NEW w \in ToSet(wire') \cup ToSet(events') PROVE Known(w.entity, w.version, w.state)'
        <3>1. w = ev \/ w \in ToSet(wire) \cup ToSet(events)
            BY <2>1, <2>2
        <3>2. ToSet(wire) \subseteq Events /\ ToSet(events) \subseteq Events
            BY ElemsType DEF TypeOK
        <3>3. ASSUME w \in ToSet(wire) \cup ToSet(events) PROVE w.entity \in Entities /\ Known(w.entity, w.version, w.state)
            BY <3>2, <3>3 DEF KnownInv, Events
        <3> QED
            BY <2>1, <2>3, <2>6, <3>1, <3>3
    <2> QED
        BY <2>2, <2>7, <2>8, <2>9 DEF KnownInv
<1>2. ASSUME UNCHANGED <<ha, written>> PROVE \A e, v, s : Known(e, v, s) => Known(e, v, s)'
    BY <1>2 DEF Known
<1>3. ASSUME /\ UNCHANGED <<ha, written>>
             /\ \A e \in Entities :
                  /\ Known(e, answer'.at[e], answer'.states[e])
                  /\ Known(e, states'.batch.at[e], states'.batch.states[e])
                  /\ Known(e, seed'.batch.at[e], seed'.batch.states[e])
                  /\ newest'[e] <= written[e]
                  /\ e \notin missed' \cup overtaken' => Known(e, newest'[e], mem'[e])
             /\ ToSet(wire') \cup ToSet(events') \subseteq ToSet(wire) \cup ToSet(events)
      PROVE  KnownInv'
    <2>1. \A e, v, s : Known(e, v, s) => Known(e, v, s)'
        BY <1>2, <1>3
    <2>2. \A e \in Entities : written'[e] # 0 /\ Known(e, written[e], ha[e])'
        BY <1>3, <2>1 DEF KnownInv
    <2>3. \A w \in ToSet(wire') \cup ToSet(events') : Known(w.entity, w.version, w.state)'
        BY <1>3, <2>1 DEF KnownInv
    <2>4. \A e \in Entities :
            /\ Known(e, answer.at[e], answer.states[e])'
            /\ Known(e, states.batch.at[e], states.batch.states[e])'
            /\ Known(e, seed.batch.at[e], seed.batch.states[e])'
            /\ newest'[e] <= written'[e]
            /\ e \notin missed' \cup overtaken' => Known(e, newest[e], mem[e])'
        BY <1>3, <2>1
    <2> QED
        BY <2>2, <2>3, <2>4 DEF KnownInv
<1>4. \A e \in Entities : Known(e, 0, 0) /\ Known(e, NoBatch.at[e], NoBatch.states[e])
    BY KnownZero, Constants DEF KnownInv
<1>5. CASE Connect
    <2>1. answer' = NoBatch \/ (answer'.states = ha /\ answer'.at = written)
        BY <1>5 DEF Connect
    <2> QED
        BY <1>3, <1>4, <1>5, <2>1 DEF Connect, KnownInv
<1>6. CASE DeliverStates \/ Disconnect \/ Shutdown
    <2>1. states'.batch = answer \/ UNCHANGED states
        BY <1>6 DEF DeliverStates, Disconnect, Shutdown
    <2> QED
        BY <1>3, <1>4, <1>6, <2>1, EmptyElems DEF DeliverStates, Disconnect, Shutdown, KnownInv
<1>7. CASE Read
    <2>1. wire \in Seq(Events) /\ wire # <<>> /\ events \in Seq(Events)
        BY <1>7 DEF Read, TypeOK
    <2>2. ToSet(wire) = ToSet(Tail(wire)) \cup {Head(wire)} /\ Head(wire) \in Events
        BY <2>1, HeadElems
    <2>3. ToSet(Append(events, Head(wire))) = ToSet(events) \cup {Head(wire)}
        BY <2>1, <2>2, AppendElems
    <2>4. ToSet(wire') \cup ToSet(events') \subseteq ToSet(wire) \cup ToSet(events)
        BY <1>7, <2>2, <2>3 DEF Read
    <2> QED
        BY <1>3, <1>7, <2>4 DEF Read, KnownInv
<1>8. CASE SeedTake
    <2>1. states' = NoStates /\ seed'.batch = states.batch
        BY <1>8 DEF SeedTake
    <2> QED
        BY <1>3, <1>4, <1>8, <2>1, Constants DEF SeedTake, KnownInv
<1>9. CASE SeedFail \/ SeedIgnores \/ SeedDone
    <2>1. states' \in {states, NoStates} /\ seed' = SeedIdle("idle")
        BY <1>9 DEF SeedFail, SeedIgnores, SeedDone
    <2> QED
        BY <1>3, <1>4, <1>9, <2>1, Constants DEF SeedFail, SeedIgnores, SeedDone, KnownInv
<1>10. CASE SeedMerge
    <2>1. /\ seed'.batch = seed.batch /\ missed \subseteq missed'
          /\ UNCHANGED <<ha, written, answer, states, wire, events, overtaken>>
        BY <1>10, MergeFacts DEF SeedMerge
    <2>2. ASSUME NEW e \in Entities
          PROVE  newest'[e] <= written[e] /\ (e \notin missed' \cup overtaken => Known(e, newest'[e], mem'[e]))
        <3> DEFINE at == seed.batch.at[e]
                   in == seed.batch.states[e]
                   kept == mem[e] # 0 /\ in # 0 /\ mem[e] > in
        <3>1. /\ mem'[e] = IF kept THEN mem[e] ELSE in
              /\ newest'[e] = IF at < newest[e] THEN newest[e] ELSE at
              /\ at < newest[e] /\ (mem[e] = 0) # (in = 0) => e \in missed'
              /\ at \in Nat /\ in \in Nat
            BY <1>10, MergeFacts, Constants
        <3>2. Known(e, at, in) /\ newest[e] <= written[e]
              /\ (e \notin missed \cup overtaken => Known(e, newest[e], mem[e]))
            BY DEF KnownInv
        <3>3. mem[e] \in Nat /\ newest[e] \in Nat /\ written[e] \in Nat
            BY Constants DEF TypeOK
        <3>4. newest'[e] <= written[e]
            BY <3>1, <3>2, <3>3 DEF Known
        <3> HIDE DEF at, in
        <3>5. ASSUME e \notin missed' \cup overtaken PROVE Known(e, newest'[e], mem'[e])
            <4>1. Known(e, newest[e], mem[e]) /\ mem[e] \in {0, newest[e]} /\ in \in {0, at}
                BY <2>1, <3>2, <3>5 DEF Known
            <4>2. CASE at < newest[e]
                BY <3>1, <3>3, <3>5, <4>1, <4>2
            <4>3. CASE ~(at < newest[e])
                BY <3>1, <3>2, <3>3, <4>1, <4>3
            <4> QED
                BY <4>2, <4>3
        <3> QED
            BY <3>4, <3>5
    <2> QED
        BY <1>3, <2>1, <2>2 DEF KnownInv
<1>11. CASE SeedAppend
    <2>1. seed \in Seeds
        BY DEF TypeOK
    <2>2. seed'.batch = seed.batch
        BY <1>11, <2>1 DEF SeedAppend, Seeds
    <2> QED
        BY <1>3, <1>11, <2>2 DEF SeedAppend, KnownInv
<1>12. CASE Apply
    <2>1. PICK ev \in Events :
            /\ ev.entity \in Entities /\ ev.version \in States /\ ev.state \in States
            /\ ToSet(events) = ToSet(events') \cup {ev}
            /\ mem' = [mem EXCEPT ![ev.entity] = ev.state]
            /\ overtaken' = IF ev.version < newest[ev.entity] THEN overtaken \cup {ev.entity} ELSE overtaken
            /\ newest' = [newest EXCEPT ![ev.entity] = IF ev.version > newest[ev.entity] THEN ev.version
                                                                           ELSE newest[ev.entity]]
        BY <1>12, ApplyFacts
    <2>2. UNCHANGED <<ha, written, answer, states, seed, wire, missed>>
        BY <1>12 DEF Apply
    <2>3. Known(ev.entity, ev.version, ev.state)
        BY <2>1 DEF KnownInv
    <2>4. ASSUME NEW e \in Entities
          PROVE  newest'[e] <= written[e] /\ (e \notin missed' \cup overtaken' => Known(e, newest'[e], mem'[e]))
        <3>1. newest[e] \in Nat /\ written[e] \in Nat /\ ev.version \in Nat
            BY <2>1, Constants DEF TypeOK
        <3>2. CASE e # ev.entity
            BY <2>1, <2>2, <3>2 DEF KnownInv, TypeOK
        <3>3. CASE e = ev.entity
            <4>1. mem'[e] = ev.state /\ newest'[e] = IF ev.version > newest[e] THEN ev.version ELSE newest[e]
                BY <2>1, <3>3 DEF TypeOK
            <4>2. newest[e] <= written[e] /\ ev.version \in 0..written[e]
                BY <2>3, <3>3 DEF KnownInv, Known
            <4>3. e \notin overtaken' => ~(ev.version < newest[e])
                BY <2>1, <3>3
            <4> QED
                BY <2>3, <3>1, <3>3, <4>1, <4>2, <4>3
        <3> QED
            BY <3>2, <3>3
    <2> QED
        BY <1>3, <2>1, <2>2, <2>4 DEF KnownInv
<1>13. CASE Crash
    <2>1. /\ answer' = NoBatch /\ states' = NoStates /\ seed' = SeedIdle("first")
          /\ wire' = <<>> /\ events' = <<>> /\ UNCHANGED <<ha, written>>
          /\ \A e \in Entities : mem'[e] = 0 /\ newest'[e] = 0
        BY <1>13 DEF Crash, Booted
    <2>2. \A e \in Entities : 0 <= written[e]
        BY Constants DEF TypeOK
    <2> QED
        BY <1>3, <1>4, <2>1, <2>2, EmptyElems, Constants
<1>14. CASE Subscribed \/ StartRouter \/ Record \/ Drain \/ Commit \/ DropBatch \/ UNCHANGED vars
    BY <1>3, <1>14 DEF Subscribed, StartRouter, Record, Drain, Commit, DropBatch, vars, KnownInv
<1> QED
    BY <1>1, <1>5, <1>6, <1>7, <1>8, <1>9, <1>10, <1>11, <1>12, <1>13, <1>14 DEF Next

-----------------------------------------------------------------------------
(* The last change is heard of, missed, or on its way *)

LEMMA ComingStep == ASSUME TypeOK, KnownInv, ComingInv, [Next]_vars PROVE ComingInv'
<1> USE DEF linkVars, chanVars, memVars, storeVars
<1>1. ASSUME NEW x \in Entities, NEW here \in BOOLEAN, Change(x, here) PROVE ComingInv'
    <2>1. PICK ev \in Events :
            /\ ev.entity = x
            /\ written' = [written EXCEPT ![x] = ev.version]
            /\ IF link = "live" THEN ToSet(wire') = ToSet(wire) \cup {ev} ELSE wire' = wire
        BY <1>1, ChangeFacts
    <2>2. /\ UNCHANGED <<link, answer, refused, states, events, newest, seed, seeded>>
          /\ missed' = IF link \in {"asked", "unsubscribed"} THEN missed \cup {x} ELSE missed
        BY <1>1 DEF Change
    <2>3. written'[x] = ev.version /\ \A e \in Entities : e # x => written'[e] = written[e]
        BY <2>1 DEF TypeOK
    <2>4. ToSet(wire) \subseteq ToSet(wire') /\ (link = "live" => ev \in ToSet(wire'))
        BY <2>1
    <2>5. \A e \in Entities : e # x /\ Coming(e) => Coming(e)'
        BY <2>2, <2>3, <2>4 DEF Coming
    <2>6. link = "live" => Coming(x)'
        BY <2>1, <2>3, <2>4 DEF Coming
    <2>7. \A e \in Entities \ missed' : link = "asked" => e # x
        BY <2>2
    <2>8. \A e \in Entities \ missed' : link = "unsubscribed" => e # x
        BY <2>2
    <2>9. missed \subseteq missed'
        BY <2>2
    <2>10. link = "asked" /\ ~refused => \A e \in Entities \ missed' : answer.at[e] = written'[e]
        BY <2>3, <2>7, <2>9 DEF ComingInv
    <2>11. link \in {"unsubscribed", "live"} /\ ~refused /\ (states.full \/ seed.at = "merge" \/ seeded) =>
              \A e \in Entities \ missed' : Coming(e)'
        BY <2>5, <2>6, <2>8, <2>9 DEF ComingInv
    <2> QED
        BY <2>2, <2>10, <2>11 DEF ComingInv
<1>2. CASE Connect
    <2>1. link' = "asked" /\ (refused' \/ answer'.at = written) /\ written' = written
        BY <1>2 DEF Connect
    <2> QED
        BY <2>1 DEF ComingInv
<1>3. CASE DeliverStates
    <2>1. /\ link' = "unsubscribed" /\ states'.full /\ states'.batch = answer
          /\ UNCHANGED <<written, missed, refused>>
        BY <1>3 DEF DeliverStates
    <2>2. ~refused => \A e \in Entities \ missed : answer.at[e] = written[e]
        BY <1>3 DEF DeliverStates, ComingInv
    <2> QED
        BY <2>1, <2>2 DEF ComingInv, Coming
<1>4. CASE Disconnect \/ Shutdown \/ Crash
    BY <1>4 DEF Disconnect, Shutdown, Crash, Booted, ComingInv
<1>5. ASSUME link' = link \/ (link = "unsubscribed" /\ link' = "live"), UNCHANGED <<written, answer, refused>>,
             missed \subseteq missed',
             states'.full \/ seed'.at = "merge" \/ seeded' => states.full \/ seed.at = "merge" \/ seeded,
             states'.full \/ seed'.at = "merge" \/ seeded' =>
                 \A e \in Entities \ missed' : Coming(e) => Coming(e)'
      PROVE  ComingInv'
    BY <1>5 DEF ComingInv
<1>6. CASE Subscribed \/ StartRouter \/ Record \/ Drain \/ Commit \/ DropBatch \/ UNCHANGED vars
    <2>1. /\ UNCHANGED <<written, answer, refused, missed, states, seed, seeded, newest, wire, events>>
          /\ link' = link \/ (link = "unsubscribed" /\ link' = "live")
        BY <1>6 DEF Subscribed, StartRouter, Record, Drain, Commit, DropBatch, vars
    <2>2. \A e \in Entities : Coming(e) => Coming(e)'
        BY <2>1 DEF Coming
    <2> QED
        BY <1>5, <2>1, <2>2
<1>7. CASE Read
    <2>1. wire \in Seq(Events) /\ wire # <<>> /\ events \in Seq(Events)
        BY <1>7 DEF Read, TypeOK
    <2>2. ToSet(wire) = ToSet(Tail(wire)) \cup {Head(wire)} /\ Head(wire) \in Events
        BY <2>1, HeadElems
    <2>3. ToSet(Append(events, Head(wire))) = ToSet(events) \cup {Head(wire)}
        BY <2>1, <2>2, AppendElems
    <2>4. UNCHANGED <<written, answer, refused, states, seed, seeded, newest, link>> /\ missed \subseteq missed'
        BY <1>7 DEF Read
    <2>5. \/ ToSet(wire) \cup ToSet(events) \subseteq ToSet(wire') \cup ToSet(events')
          \/ /\ ToSet(wire) \cup ToSet(events) \subseteq ToSet(wire') \cup ToSet(events') \cup {Head(wire)}
             /\ Head(wire).entity \in missed'
        BY <1>7, <2>2, <2>3 DEF Read
    <2>6. \A e \in Entities \ missed' : Coming(e) => Coming(e)'
        BY <2>4, <2>5 DEF Coming
    <2> QED
        BY <1>5, <2>4, <2>6
<1>8. CASE SeedTake
    <2>1. /\ states.full /\ seed'.at = "merge" /\ seed'.batch = states.batch /\ seed.at # "merge"
          /\ UNCHANGED <<written, answer, refused, missed, seeded, newest, wire, events, link>>
        BY <1>8 DEF SeedTake
    <2>2. \A e \in Entities : Coming(e) => Coming(e)'
        BY <2>1 DEF Coming
    <2> QED
        BY <1>5, <2>1, <2>2
<1>9. CASE SeedFail
    <2>1. /\ ~states'.full /\ seed'.at = "idle" /\ ~seeded'
          /\ UNCHANGED <<link, answer, refused, written, missed>>
        BY <1>9, Constants DEF SeedFail, Cold
    <2> QED
        BY <1>5, <2>1
<1>10. CASE SeedMerge
    <2>1. /\ seed.at = "merge" /\ seed'.at = "append" /\ missed \subseteq missed'
          /\ UNCHANGED <<written, answer, refused, states, wire, events, link>>
        BY <1>10, MergeFacts DEF SeedMerge
    <2>2. ASSUME NEW e \in Entities, Coming(e) PROVE Coming(e)'
        <3>1. /\ newest'[e] = IF seed.batch.at[e] < newest[e] THEN newest[e] ELSE seed.batch.at[e]
              /\ seed.batch.at[e] \in Nat
            BY <1>10, MergeFacts, Constants
        <3>2. newest[e] <= written[e] /\ newest[e] \in Nat /\ written[e] \in Nat /\ seed.batch.at[e] \in 0..written[e]
            BY Constants DEF KnownInv, Known, TypeOK
        <3>3. CASE newest[e] = written[e] \/ seed.batch.at[e] = written[e]
            <4>1. newest'[e] = written[e]
                BY <3>1, <3>2, <3>3
            <4> QED
                BY <2>1, <4>1 DEF Coming
        <3>4. CASE ~(newest[e] = written[e] \/ seed.batch.at[e] = written[e])
            BY <2>1, <2>2, <3>4 DEF Coming
        <3> QED
            BY <3>3, <3>4
    <2> QED
        BY <1>5, <2>1, <2>2
<1>11. CASE SeedAppend \/ SeedDone
    <2>1. seed \in Seeds
        BY DEF TypeOK
    <2>2. /\ seed.at = "append" /\ seed'.at # "merge"
          /\ UNCHANGED <<written, answer, refused, missed, states, seeded, newest, wire, events, link>>
        BY <1>11, <2>1, Constants DEF SeedAppend, SeedDone, Seeds
    <2>3. \A e \in Entities : Coming(e) => Coming(e)'
        BY <2>2 DEF Coming
    <2> QED
        BY <1>5, <2>2, <2>3
<1>12. CASE Apply
    <2>1. PICK ev \in Events :
            /\ ev.entity \in Entities /\ ev.version \in States
            /\ ToSet(events) = ToSet(events') \cup {ev}
            /\ newest' = [newest EXCEPT ![ev.entity] = IF ev.version > newest[ev.entity] THEN ev.version
                                                                           ELSE newest[ev.entity]]
        BY <1>12, ApplyFacts
    <2>2. UNCHANGED <<written, answer, refused, missed, states, seed, seeded, wire, link>>
        BY <1>12 DEF Apply
    <2>3. ASSUME NEW e \in Entities, Coming(e) PROVE Coming(e)'
        <3>1. CASE e # ev.entity
            <4>1. newest'[e] = newest[e]
                BY <2>1, <3>1 DEF TypeOK
            <4> QED
                BY <2>1, <2>2, <2>3, <3>1, <4>1 DEF Coming
        <3>2. CASE e = ev.entity
            <4>1. newest'[e] = IF ev.version > newest[e] THEN ev.version ELSE newest[e]
                BY <2>1, <3>2 DEF TypeOK
            <4>2. /\ newest[e] <= written[e] /\ ev.version \in 0..written[e]
                  /\ newest[e] \in Nat /\ written[e] \in Nat
                BY <2>1, <3>2, Constants DEF KnownInv, Known, TypeOK
            <4>3. newest[e] = written[e] \/ ev.version = written[e] => newest'[e] = written[e]
                BY <4>1, <4>2
            <4> QED
                BY <2>1, <2>2, <2>3, <4>3 DEF Coming
        <3> QED
            BY <3>1, <3>2
    <2> QED
        BY <1>5, <2>2, <2>3
<1>13. CASE SeedIgnores
    <2>1. /\ states.full /\ states.batch = NoBatch /\ seed.at # "merge"
          /\ UNCHANGED <<written, answer, refused, missed, seeded, newest, wire, events, link>>
        BY <1>13 DEF SeedIgnores
    <2>2. \A e \in Entities : Coming(e) => Coming(e)'
        BY <2>1, Constants DEF Coming, KnownInv
    <2> QED
        BY <1>5, <2>1, <2>2
<1> QED
    BY <1>1, <1>2, <1>3, <1>4, <1>6, <1>7, <1>8, <1>9, <1>10, <1>11, <1>12, <1>13 DEF Next

-----------------------------------------------------------------------------
(* What the mirror holds is recorded or on its way *)

LEMMA HoldsStep == ASSUME TypeOK, HoldsInv, [Next]_vars PROVE HoldsInv'
<1> USE DEF linkVars, chanVars, memVars, storeVars
<1>1. ASSUME UNCHANGED <<seed, router, writer, history>>, stopped' => link' = "down" PROVE HoldsInv'
    BY <1>1 DEF HoldsInv
<1>2. CASE \E e \in Entities, here \in BOOLEAN : Change(e, here)
    BY <1>1, <1>2 DEF Change, HoldsInv
<1>3. CASE Connect \/ DeliverStates \/ Subscribed \/ Read \/ Disconnect \/ Shutdown
    BY <1>1, <1>3 DEF Connect, DeliverStates, Subscribed, Read, Disconnect, Shutdown, HoldsInv
<1>4. CASE SeedTake
    <2>1. /\ seed'.at = "merge" /\ seed'.rows = {}
          /\ \A e \in Entities : seed'.baseline[e] \in {0, Baseline(e)}
          /\ UNCHANGED <<router, writer, history, stopped, link>>
        BY <1>4 DEF SeedTake
    <2> QED
        BY <2>1, BaselineIsRow DEF HoldsInv
<1>5. CASE SeedFail \/ SeedIgnores \/ SeedDone
    <2>1. seed'.at = "idle" /\ seed'.rows = {} /\ UNCHANGED <<router, writer, history, stopped, link>>
        BY <1>5, Constants DEF SeedFail, SeedIgnores, SeedDone
    <2> QED
        BY <2>1 DEF HoldsInv
<1>6. CASE SeedMerge
    <2>1. seed'.at = "append" /\ UNCHANGED <<router, writer, history, stopped, link>>
        BY <1>6, MergeFacts DEF SeedMerge
    <2> QED
        BY <2>1 DEF HoldsInv
<1>7. CASE SeedAppend
    <2>1. seed \in Seeds
        BY DEF TypeOK
    <2>2. seed'.at = "append" /\ UNCHANGED <<router, writer, history, stopped, link>>
        BY <1>7, <2>1 DEF SeedAppend, Seeds
    <2> QED
        BY <2>2 DEF HoldsInv
<1>8. CASE StartRouter
    <2>1. router \in Routers
        BY DEF TypeOK
    <2>2. router'.at = "idle" /\ router'.rows = {} /\ UNCHANGED <<seed, writer, history, stopped, link>>
        BY <1>8, <2>1 DEF StartRouter, Routers, HoldsInv
    <2> QED
        BY <2>2 DEF HoldsInv
<1>9. CASE Apply
    <2>1. router' = router \/ \E row \in Rows : router'.at = "enqueue" /\ router'.rows = {row}
        BY <1>9, ApplyFacts
    <2>2. UNCHANGED <<seed, writer, history, stopped, link>>
        BY <1>9 DEF Apply
    <2> QED
        BY <2>1, <2>2 DEF HoldsInv
<1>10. CASE Record
    <2>1. router'.at = "idle" /\ router'.rows = {} /\ UNCHANGED <<seed, writer, history, stopped, link>>
        BY <1>10 DEF Record
    <2> QED
        BY <2>1 DEF HoldsInv
<1>11. CASE Drain \/ Commit \/ DropBatch
    <2>1. writer'.at = "commit" \/ writer'.batch = <<>>
        BY <1>11 DEF Drain, Commit, DropBatch, AfterBatch
    <2>2. UNCHANGED <<seed, router, stopped, link>> /\ ToSet(history) \subseteq ToSet(history')
        <3>1. history \in Seq(Rows) /\ writer.batch \in Seq(Rows)
            BY DEF TypeOK, Writers
        <3>2. ToSet(history \o writer.batch) = ToSet(history) \cup ToSet(writer.batch)
            BY <3>1, JoinElems
        <3> QED
            BY <1>11, <3>2 DEF Drain, Commit, DropBatch
    <2> QED
        BY <2>1, <2>2 DEF HoldsInv
<1>12. CASE Crash
    BY <1>12, Constants DEF Crash, Booted, HoldsInv
<1>13. CASE UNCHANGED vars
    BY <1>1, <1>13 DEF vars, HoldsInv
<1> QED
    BY <1>2, <1>3, <1>4, <1>5, <1>6, <1>7, <1>8, <1>9, <1>10, <1>11, <1>12, <1>13 DEF Next

LEMMA RecordStep ==
    ASSUME TypeOK, KnownInv, HoldsInv, RecordInv, [Next]_vars PROVE RecordInv'
<1> USE DEF linkVars, chanVars, memVars, storeVars
<1>1. ASSUME UNCHANGED mem, stopped => stopped', dropped \subseteq dropped',
             ~stopped => \A row \in Kept : row \in Kept' \/ row.entity \in dropped'
      PROVE  RecordInv'
    BY <1>1 DEF RecordInv, Tells, Value
<1>2. CASE \E e \in Entities, here \in BOOLEAN : Change(e, here)
    BY <1>1, <1>2 DEF Change, Kept
<1>3. CASE Connect \/ DeliverStates \/ Subscribed \/ Read \/ Disconnect \/ Shutdown
    BY <1>1, <1>3 DEF Connect, DeliverStates, Subscribed, Read, Disconnect, Shutdown, Kept
<1>4. CASE SeedTake \/ SeedFail \/ SeedIgnores \/ SeedDone
    <2>1. seed.rows = {} /\ UNCHANGED <<mem, router, queue, writer, history, dropped, stopped>>
        BY <1>4 DEF SeedTake, SeedFail, SeedIgnores, SeedDone, HoldsInv
    <2> QED
        BY <1>1, <2>1 DEF Kept
<1>5. CASE SeedMerge
    <2>1. seed.at = "merge" /\ seed.rows = {} /\ UNCHANGED <<router, queue, writer, history, dropped, stopped>>
        BY <1>5 DEF SeedMerge, HoldsInv
    <2>2. Kept \subseteq Kept'
        BY <2>1 DEF Kept
    <2> SUFFICES ASSUME ~stopped, NEW e \in Entities \ dropped, mem'[e] # 0
                 PROVE  \E row \in Kept' : Tells(row, e, mem'[e])
        BY <2>1 DEF RecordInv, Tells, Value
    <2> DEFINE in == seed.batch.states[e]
               kept == mem[e] # 0 /\ in # 0 /\ mem[e] > in
               new == [entity |-> e, version |-> in]
    <2>3. /\ mem'[e] = IF kept THEN mem[e] ELSE in
          /\ in # 0 /\ ~kept /\ Differs(e, in) => new \in seed'.rows
        BY <1>5, MergeFacts
    <2>4. mem[e] # 0 => \E row \in Kept' : Tells(row, e, mem[e])
        BY <2>2 DEF RecordInv
    <2>5. CASE kept
        BY <2>3, <2>4, <2>5
    <2>6. CASE ~kept /\ Differs(e, in)
        <3>1. new \in Kept' /\ Tells(new, e, in)
            BY <2>3, <2>6 DEF Kept, Tells
        <3> QED
            BY <2>3, <2>6, <3>1
    <2>7. CASE ~kept /\ ~Differs(e, in)
        <3>1. CASE mem[e] # 0
            BY <2>3, <2>4, <2>7, <3>1 DEF Differs, Tells
        <3>2. CASE mem[e] = 0
            <4>1. seed.baseline[e] # 0 /\ Value(seed.baseline[e]) = Value(in)
                BY <2>7, <3>2 DEF Differs
            <4>2. PICK row \in ToSet(history) : row.entity = e /\ row.version = seed.baseline[e]
                BY <2>1, <4>1 DEF HoldsInv
            <4>3. row \in Kept'
                BY <2>2, <4>2 DEF Kept
            <4> QED
                BY <2>3, <2>7, <4>1, <4>2, <4>3 DEF Tells
        <3> QED
            BY <3>1, <3>2
    <2> QED
        BY <2>5, <2>6, <2>7
<1>6. CASE SeedAppend
    <2>1. PICK row \in seed.rows : Enqueue(row) /\ seed' = [seed EXCEPT !.rows = seed.rows \ {row}]
        BY <1>6 DEF SeedAppend
    <2>2. seed \in Seeds /\ row \in Rows
        BY DEF TypeOK, Seeds
    <2>3. seed'.rows = seed.rows \ {row}
        BY <2>1, <2>2 DEF Seeds
    <2>4. ToSet(queue) \subseteq ToSet(queue') /\ (~stopped => row \in ToSet(queue'))
        BY <2>1, <2>2, EnqueueFacts
    <2>5. UNCHANGED <<mem, router, writer, history, dropped, stopped>>
        BY <1>6 DEF SeedAppend
    <2> QED
        BY <1>1, <2>3, <2>4, <2>5 DEF Kept
<1>7. CASE StartRouter
    <2>1. router \in Routers
        BY DEF TypeOK
    <2>2. router'.rows = router.rows /\ UNCHANGED <<mem, seed, queue, writer, history, dropped, stopped>>
        BY <1>7, <2>1 DEF StartRouter, Routers
    <2> QED
        BY <1>1, <2>2 DEF Kept
<1>8. CASE Apply
    <2>1. PICK ev \in Events :
            /\ ToSet(events) = ToSet(events') \cup {ev} /\ ev.entity \in Entities
            /\ mem' = [mem EXCEPT ![ev.entity] = ev.state]
            /\ IF ev.state = 0 THEN router' = router
               ELSE \E row \in Rows :
                        /\ row.entity = ev.entity /\ row.version = ev.version /\ router'.rows = {row}
        BY <1>8, ApplyFacts
    <2>2. router.rows = {} /\ UNCHANGED <<seed, queue, writer, history, dropped, stopped>>
        BY <1>8 DEF Apply, HoldsInv
    <2>3. Kept \subseteq Kept'
        BY <2>2 DEF Kept
    <2>4. ev.state \in {0, ev.version}
        BY <2>1 DEF KnownInv, Known
    <2> SUFFICES ASSUME ~stopped, NEW e \in Entities \ dropped, mem'[e] # 0
                 PROVE  \E row \in Kept' : Tells(row, e, mem'[e])
        BY <2>2 DEF RecordInv, Tells, Value
    <2>5. CASE e = ev.entity
        <3>1. mem'[e] = ev.state /\ ev.state = ev.version
            BY <2>1, <2>4, <2>5 DEF TypeOK
        <3>2. PICK row \in Rows : row.entity = e /\ row.version = ev.version /\ router'.rows = {row}
            BY <2>1, <2>5, <3>1
        <3> QED
            BY <3>1, <3>2 DEF Kept, Tells
    <2>6. CASE e # ev.entity
        <3>1. mem'[e] = mem[e]
            BY <2>1, <2>6 DEF TypeOK
        <3> QED
            BY <2>3, <3>1 DEF RecordInv
    <2> QED
        BY <2>5, <2>6
<1>9. CASE Record
    <2>1. PICK row \in Rows : router.rows = {row}
        BY <1>9 DEF Record, HoldsInv
    <2>2. Enqueue(row) /\ UNCHANGED <<mem, seed, writer, history, dropped, stopped>>
        BY <1>9, <2>1 DEF Record
    <2>3. ToSet(queue) \subseteq ToSet(queue') /\ (~stopped => row \in ToSet(queue'))
        BY <2>1, <2>2, EnqueueFacts
    <2> QED
        BY <1>1, <2>1, <2>2, <2>3 DEF Kept
<1>10. CASE Drain
    <2>1. writer.batch = <<>> /\ writer'.batch = queue /\ UNCHANGED <<mem, seed, router, history, dropped, stopped>>
        BY <1>10 DEF Drain, HoldsInv
    <2> QED
        BY <1>1, <2>1, EmptyElems DEF Kept
<1>11. CASE Commit
    <2>1. history \in Seq(Rows) /\ writer.batch \in Seq(Rows)
        BY DEF TypeOK, Writers
    <2>2. ToSet(history \o writer.batch) = ToSet(history) \cup ToSet(writer.batch)
        BY <2>1, JoinElems
    <2>3. history' = history \o writer.batch /\ UNCHANGED <<mem, seed, router, queue, dropped, stopped>>
        BY <1>11 DEF Commit
    <2> QED
        BY <1>1, <2>2, <2>3 DEF Kept
<1>12. CASE DropBatch
    <2>1. /\ dropped' = dropped \cup {r.entity : r \in ToSet(writer.batch)}
          /\ UNCHANGED <<mem, seed, router, queue, history, stopped>>
        BY <1>12 DEF DropBatch
    <2> QED
        BY <1>1, <2>1 DEF Kept
<1>13. CASE Crash
    <2>1. \A e \in Entities : mem'[e] = 0
        BY <1>13 DEF Crash, Booted
    <2> QED
        BY <2>1 DEF RecordInv
<1>14. CASE UNCHANGED vars
    BY <1>1, <1>14 DEF vars, Kept
<1> QED
    BY <1>2, <1>3, <1>4, <1>5, <1>6, <1>7, <1>8, <1>9, <1>10, <1>11, <1>12, <1>13, <1>14 DEF Next

-----------------------------------------------------------------------------
LEMMA InitIInv == Init => IInv
<1> SUFFICES ASSUME Init PROVE IInv
    OBVIOUS
<1> USE DEF linkVars, chanVars, memVars, storeVars
<1>1. /\ \A S : <<>> \in Seq(S)
      /\ Len(<<>>) <= EventsCap /\ Len(<<>>) <= QueueCap
      /\ [at |-> "off", rows |-> {}] \in Routers /\ [at |-> "idle", batch |-> <<>>] \in Writers
    BY StateMirrorAssumption DEF Routers, Writers
<1>2. written \in [Entities -> States] /\ ha \in [Entities -> States] /\ crashes \in 0..MaxCrashes
    BY Constants, StateMirrorAssumption DEF Init, States
<1>3. TypeOK
    BY <1>1, <1>2, Constants DEF Init, TypeOK
<1>4. \A e \in Entities : written[e] = 1 /\ ha[e] \in {0, 1} /\ newest[e] = 0 /\ mem[e] = 0
    BY DEF Init
<1>5. \A e \in Entities : Known(e, 0, 0) /\ Known(e, 1, ha[e])
    BY <1>4 DEF Known
<1>6. KnownInv
    <2>1. /\ answer = NoBatch /\ states = NoStates /\ seed = SeedIdle("first") /\ wire = <<>> /\ events = <<>>
        BY DEF Init
    <2> QED
        BY <1>4, <1>5, <2>1, Constants, EmptyElems DEF KnownInv
<1>7. ComingInv /\ HoldsInv /\ RecordInv
    BY <1>4, Constants DEF Init, ComingInv, HoldsInv, RecordInv
<1> QED
    BY <1>3, <1>6, <1>7 DEF IInv

LEMMA Inductive == Spec => []IInv
<1>1. IInv /\ [Next]_vars => IInv'
    BY TypeStep, KnownStep, ComingStep, HoldsStep, RecordStep DEF IInv
<1> QED
    BY InitIInv, <1>1, PTL DEF Spec

\* The mirror, the channels and the table keep their types and bounds: readLoop drops
\* what does not fit into Events, and enqueue waits or drops.
THEOREM TypeCorrect == Spec => []TypeOK
<1>1. IInv => TypeOK
    BY DEF IInv
<1> QED
    BY Inductive, <1>1, PTL

\* Once things are quiet the mirror has the state Home Assistant has, for any number of
\* entities, changes, connections and crashes, but for a refused get_states and the known
\* windows of Seed and of the subscription (tracker.go, client.go).
THEOREM MirrorIsRight == Spec => []StaleOnlyInKnownWindows
<1>1. ASSUME IInv, Quiet, ~refused, NEW e \in Entities \ (missed \cup overtaken) PROVE mem[e] = ha[e]
    <2>1. link = "live" /\ wire = <<>> /\ ~states.full /\ events = <<>> /\ seed.at = "idle" /\ seeded
        BY <1>1 DEF Quiet
    <2>2. Coming(e)
        BY <1>1, <2>1 DEF IInv, ComingInv
    <2>3. newest[e] = written[e]
        BY <2>1, <2>2, EmptyElems DEF Coming
    <2> QED
        BY <1>1, <2>3 DEF IInv, KnownInv, Known
<1>2. IInv => StaleOnlyInKnownWindows
    BY <1>1 DEF StaleOnlyInKnownWindows
<1> QED
    BY Inductive, <1>2, PTL

\* Once things are quiet what the mirror holds is in the history, across crashes and
\* reconnects, unless a transaction failed: Seed leaves a row out only when an equal one
\* is there (tracker.go:181).
THEOREM MirrorIsRecorded == Spec => []RecordedWhenQuiet
<1>1. ASSUME IInv, Quiet, NEW e \in Entities \ dropped, mem[e] # 0
      PROVE  \E i \in RowsOf(e) : Value(history[i].version) = Value(mem[e])
    <2>1. /\ link = "live" /\ seed.at = "idle" /\ router.at = "idle"
          /\ queue = <<>> /\ writer.at = "idle"
        BY <1>1 DEF Quiet
    <2>2. Kept = ToSet(history) /\ ~stopped
        BY <1>1, <2>1, EmptyElems DEF IInv, HoldsInv, Kept
    <2>3. PICK row \in ToSet(history) : Tells(row, e, mem[e])
        BY <1>1, <2>2 DEF IInv, RecordInv
    <2>4. PICK i \in DOMAIN history : row = history[i]
        BY <2>3 DEF ToSet
    <2> QED
        BY <2>3, <2>4 DEF Tells, RowsOf
<1>2. IInv => RecordedWhenQuiet
    BY <1>1 DEF RecordedWhenQuiet
<1> QED
    BY Inductive, <1>2, PTL

=============================================================================
