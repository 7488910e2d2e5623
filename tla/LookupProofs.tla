---------------------------- MODULE LookupProofs ----------------------------
(***************************************************************************)
(* Proofs about the three modules a script's lookups are answered from:    *)
(* KvStore, what it stored itself; Names, the names and areas of Home      *)
(* Assistant; History, the rows of the past.  The three share no variable: *)
(* each part proves theorems of one specification, with the lemmas and the *)
(* inductive invariant of that part.                                       *)
(***************************************************************************)
EXTENDS KvStore, Names, History, TLAPS, FiniteSetTheorems, SequenceTheorems, WellFoundedInduction

-----------------------------------------------------------------------------
(***************************************************************************)
(* KvStore                                                                 *)
(***************************************************************************)

KvTypeOK ==
    /\ db \in [Rows -> Values \cup {Nil}]
    /\ vm \in [Gens -> Scripts \cup {None}]
    /\ tracked \in [Scripts -> Gens \cup {None}]
    /\ cancelled \in SUBSET Gens
    /\ proxy \in [Gens -> Proxies \cup {None}]
    /\ last \in [Scripts -> [Keys -> SUBSET (Values \cup {Nil})]]
    /\ aside \in [Gens -> SUBSET Keys]

\* A proxy lives in a VM.
Attached == \A g \in Gens : proxy[g] # None => vm[g] \in Scripts

\* A row of a script holds what its last write may have left.
RowsRemember == \A s \in Scripts, k \in Keys : Get(s, k) \in last[s][k]

KvInv == KvTypeOK /\ Attached /\ RowsRemember /\ ProxyRemembers

\* Rows of different scopes or keys are different rows: no script can reach the row of
\* another one, or that of the global table, by a key of its own.
LEMMA RowsApart ==
    ASSUME NEW x \in Stores, NEW k \in Keys, NEW y \in Stores, NEW l \in Keys,
           Row(x, k) = Row(y, l)
    PROVE  x = y /\ k = l
<1>1. CASE x = Global /\ y = Global
    BY <1>1 DEF Row
<1>2. CASE x # Global /\ y # Global
    BY <1>2 DEF Row
<1>3. CASE x = Global /\ y # Global
    BY <1>3 DEF Row
<1>4. CASE x # Global /\ y = Global
    BY <1>4 DEF Row
<1> QED
    BY <1>1, <1>2, <1>3, <1>4

LEMMA RowsTyped == \A x \in Stores, k \in Keys : Row(x, k) \in Rows
BY DEF Rows

LEMMA KvInitInv == KvInit => KvInv
<1> SUFFICES ASSUME KvInit PROVE KvInv
    OBVIOUS
<1>1. KvTypeOK
    BY DEF KvInit, KvTypeOK
<1>2. Attached /\ ProxyRemembers
    BY DEF KvInit, Attached, ProxyRemembers
<1>3. RowsRemember
    BY RowsTyped DEF KvInit, RowsRemember, Get, Stores
<1> QED
    BY <1>1, <1>2, <1>3 DEF KvInv

\* What a write may do to the rows and to what is remembered of them.
LEMMA SetStep ==
    ASSUME KvInv, NEW g \in Gens, NEW x \in Stores, NEW k \in Keys,
           NEW v \in Values \cup {Nil}, Set(g, x, k, v)
    PROVE  /\ db' \in {db, [db EXCEPT ![Row(x, k)] = v]}
           /\ db' \in [Rows -> Values \cup {Nil}]
           /\ vm' = vm /\ tracked' = tracked /\ cancelled' \in SUBSET Gens
           /\ last' \in [Scripts -> [Keys -> SUBSET (Values \cup {Nil})]]
           /\ \A s \in Scripts, l \in Keys : <<s, l>> # <<x, k>> => last'[s][l] = last[s][l]
           /\ x \in Scripts => v \in last'[x][k]
           /\ RowsRemember'
<1> DEFINE written == [db EXCEPT ![Row(x, k)] = v]
<1> USE DEF KvInv
<1>1. db' \in {db, written} /\ vm' = vm /\ tracked' = tracked /\ cancelled' \in SUBSET Gens
    BY DEF Set, scriptVars, KvTypeOK
<1>2. \E certain \in BOOLEAN :
        last' = Noted(x, k, v, certain) /\ (certain => db' = written)
    BY DEF Set
<1>3. PICK certain \in BOOLEAN :
        last' = Noted(x, k, v, certain) /\ (certain => db' = written)
    BY <1>2
<1>4. written \in [Rows -> Values \cup {Nil}]
    BY RowsTyped DEF KvTypeOK
<1>5. \A s \in Scripts : last'[s] =
        IF s = x THEN [last[s] EXCEPT ![k] = {v} \cup IF certain THEN {} ELSE @] ELSE last[s]
    BY <1>3 DEF Noted
<1>6. last' \in [Scripts -> [Keys -> SUBSET (Values \cup {Nil})]]
    <2>1. DOMAIN last' = Scripts /\ last' = [s \in Scripts |-> last'[s]]
        BY <1>3 DEF Noted
    <2>2. \A s \in Scripts : last'[s] \in [Keys -> SUBSET (Values \cup {Nil})]
        <3> TAKE s \in Scripts
        <3>1. last[s] \in [Keys -> SUBSET (Values \cup {Nil})] /\ {v} \in SUBSET (Values \cup {Nil})
            <4>1. last[s] \in [Keys -> SUBSET (Values \cup {Nil})]
                BY DEF KvTypeOK
            <4>2. {v} \in SUBSET (Values \cup {Nil})
                OBVIOUS
            <4> QED
                BY <4>1, <4>2
        <3>2. CASE certain /\ s = x
            <4>1. last'[s] = [last[s] EXCEPT ![k] = {v}]
                BY <1>5, <3>2
            <4> QED
                BY <3>1, <4>1
        <3>3. CASE ~certain /\ s = x
            <4>1. last'[s] = [last[s] EXCEPT ![k] = {v} \cup @]
                BY <1>5, <3>3
            <4> QED
                BY <3>1, <4>1
        <3>4. CASE s # x
            BY <1>5, <3>1, <3>4
        <3> QED
            BY <3>2, <3>3, <3>4
    <2> QED
        BY <2>1, <2>2
<1>7. \A s \in Scripts, l \in Keys : <<s, l>> # <<x, k>> => last'[s][l] = last[s][l]
    BY <1>5 DEF KvTypeOK
<1>8. x \in Scripts =>
        v \in last'[x][k] /\ (~certain => last[x][k] \subseteq last'[x][k])
    BY <1>5 DEF KvTypeOK
<1>9. RowsRemember'
    <2> SUFFICES ASSUME NEW s \in Scripts, NEW l \in Keys
                 PROVE  db'[Row(s, l)] \in last'[s][l]
        BY DEF RowsRemember, Get
    <2>1. s \in Stores /\ Row(s, l) \in Rows /\ db[Row(s, l)] \in last[s][l]
        BY RowsTyped DEF Stores, RowsRemember, Get
    <2>2. CASE <<s, l>> # <<x, k>>
        <3>1. Row(s, l) # Row(x, k)
            BY <2>1, <2>2, RowsApart
        <3>2. db'[Row(s, l)] = db[Row(s, l)]
            BY <1>1, <2>1, <3>1 DEF KvTypeOK
        <3> QED
            BY <1>7, <2>1, <2>2, <3>2
    <2>3. CASE <<s, l>> = <<x, k>>
        <3>1. db'[Row(s, l)] \in {v, db[Row(s, l)]} /\ (certain => db'[Row(s, l)] = v)
            BY <1>1, <1>3, <2>1, <2>3 DEF KvTypeOK
        <3> QED
            BY <1>8, <2>1, <2>3, <3>1
    <2> QED
        BY <2>2, <2>3
<1> QED
    BY <1>1, <1>4, <1>6, <1>7, <1>8, <1>9 DEF KvTypeOK

\* A write leaves the proxies right that see it, and excuses the others.
LEMMA WriteKeepsProxies ==
    ASSUME KvInv, NEW g \in Gens, NEW x \in Stores, NEW k \in Keys,
           NEW v \in Values \cup {Nil}, Set(g, x, k, v),
           NEW writers \in SUBSET Gens, aside' = PastProxies(x, k, writers),
           NEW h \in Gens, h \notin writers, proxy'[h] = proxy[h], proxy[h] # None,
           NEW l \in Keys \ aside'[h]
    PROVE  /\ <<vm[h], l>> # <<x, k>>
           /\ l \notin aside[h]
           /\ last'[vm[h]][l] = last[vm[h]][l]
<1>1. aside'[h] = IF vm[h] = x THEN aside[h] \cup {k} ELSE aside[h]
    BY DEF PastProxies
<1>2. <<vm[h], l>> # <<x, k>> /\ l \notin aside[h]
    BY <1>1
<1>3. vm[h] \in Scripts
    BY DEF KvInv, Attached
<1> QED
    BY <1>2, <1>3, SetStep

LEMMA StoreStep ==
    ASSUME KvInv, NEW g \in Gens, NEW x \in Stores, NEW k \in Keys,
           NEW v \in Values \cup {Nil}, Store(g, x, k, v)
    PROVE  KvInv'
<1>1. Set(g, x, k, v) /\ aside' = PastProxies(x, k, {}) /\ proxy' = proxy
    BY DEF Store
<1>2. aside' \in [Gens -> SUBSET Keys]
    BY <1>1 DEF PastProxies, KvInv, KvTypeOK
<1>3. vm' = vm /\ RowsRemember' /\ KvTypeOK'
    <2>1. KvTypeOK
        BY DEF KvInv
    <2> QED
        BY <1>1, <1>2, <2>1, SetStep DEF KvTypeOK
<1>4. Attached'
    BY <1>1, <1>3 DEF KvInv, Attached
<1>5. ProxyRemembers'
    <2> SUFFICES ASSUME NEW h \in Gens, proxy'[h] # None, NEW l \in Keys \ aside'[h]
                 PROVE  \/ proxy'[h].cache[l] \in last'[vm[h]][l]
                        \/ Nil \in last'[vm[h]][l] /\ proxy'[h].cache[l] = proxy'[h].defaults[l]
        BY <1>3 DEF ProxyRemembers, Index
    <2>1. l \notin aside[h] /\ last'[vm[h]][l] = last[vm[h]][l]
        BY <1>1, WriteKeepsProxies
    <2> QED
        BY <1>1, <2>1 DEF KvInv, ProxyRemembers, Index
<1> QED
    BY <1>3, <1>4, <1>5 DEF KvInv

LEMMA AssignStep ==
    ASSUME KvInv, NEW g \in Gens, NEW k \in Keys, NEW v \in Values \cup {Nil}, Assign(g, k, v)
    PROVE  KvInv'
<1> DEFINE s == vm[g]
<1>1. /\ proxy[g] # None /\ proxy' = [proxy EXCEPT ![g].cache[k] = v]
      /\ Set(g, s, k, v) /\ aside' = PastProxies(s, k, {g})
    BY DEF Assign
<1>2. s \in Scripts /\ s \in Stores
    BY <1>1 DEF KvInv, Attached, Stores
<1>3. aside' \in [Gens -> SUBSET Keys]
    BY <1>1 DEF PastProxies, KvInv, KvTypeOK
<1>4. proxy[g] \in Proxies /\ proxy' = [proxy EXCEPT ![g] = [@ EXCEPT !.cache[k] = v]]
    BY <1>1 DEF KvInv, KvTypeOK
<1>5. [proxy[g] EXCEPT !.cache[k] = v] \in Proxies
    BY <1>4 DEF Proxies, Defaults
<1>6. proxy' \in [Gens -> Proxies \cup {None}]
    BY <1>4, <1>5 DEF KvInv, KvTypeOK
<1>7. vm' = vm /\ RowsRemember' /\ KvTypeOK'
    <2>1. KvTypeOK
        BY DEF KvInv
    <2> HIDE DEF s
    <2> QED
        BY <1>1, <1>2, <1>3, <1>6, <2>1, SetStep DEF KvTypeOK
<1>8. proxy'[g] = [proxy[g] EXCEPT !.cache[k] = v]
    BY <1>4 DEF KvInv, KvTypeOK
<1>9. \A h \in Gens \ {g} : proxy'[h] = proxy[h]
    BY <1>4 DEF KvInv, KvTypeOK
<1>10. Attached'
    BY <1>2, <1>7, <1>9 DEF KvInv, Attached
<1>11. ProxyRemembers'
    <2> SUFFICES ASSUME NEW h \in Gens, proxy'[h] # None, NEW l \in Keys \ aside'[h]
                 PROVE  \/ proxy'[h].cache[l] \in last'[vm[h]][l]
                        \/ Nil \in last'[vm[h]][l] /\ proxy'[h].cache[l] = proxy'[h].defaults[l]
        BY <1>7 DEF ProxyRemembers, Index
    <2>1. CASE h # g
        <3>1. l \notin aside[h] /\ last'[vm[h]][l] = last[vm[h]][l]
            <4> DEFINE writers == {g}
            <4>1. writers \in SUBSET Gens /\ h \notin writers
                BY <2>1
            <4>2. Set(g, s, k, v) /\ aside' = PastProxies(s, k, writers) /\ s \in Stores
                BY <1>1, <1>2
            <4>3. proxy'[h] = proxy[h] /\ proxy[h] # None
                BY <1>9, <2>1
            <4> HIDE DEF s, writers
            <4> QED
                BY <4>1, <4>2, <4>3, WriteKeepsProxies
        <3> QED
            BY <1>9, <2>1, <3>1 DEF KvInv, ProxyRemembers, Index
    <2>2. CASE h = g /\ l = k
        <3>1. proxy'[g].cache[k] = v
            BY <1>4, <1>8 DEF Proxies
        <3> QED
            BY <1>1, <1>2, <2>2, <3>1, SetStep
    <2>3. CASE h = g /\ l # k
        <3>1. proxy'[g].cache[l] = proxy[g].cache[l] /\ proxy'[g].defaults = proxy[g].defaults
            BY <1>4, <1>8, <2>3 DEF Proxies
        <3>2. l \notin aside[g]
            BY <1>1, <2>3 DEF PastProxies
        <3>3. last'[s][l] = last[s][l]
            BY <1>1, <1>2, <2>3, SetStep
        <3> QED
            BY <1>1, <2>3, <3>1, <3>2, <3>3 DEF KvInv, ProxyRemembers, Index
    <2> QED
        BY <2>1, <2>2, <2>3
<1> QED
    BY <1>7, <1>10, <1>11 DEF KvInv

\* The VMs of some generations are discarded.
LEMMA DiscardStep ==
    ASSUME KvInv, NEW gs \in SUBSET Gens, Discard(gs), db' = db, last' = last,
           tracked' \in [Scripts -> Gens \cup {None}]
    PROVE  KvInv'
<1>1. KvTypeOK'
    BY DEF KvInv, KvTypeOK, Discard
<1>2. \A g \in Gens : proxy'[g] # None =>
        proxy'[g] = proxy[g] /\ vm'[g] = vm[g] /\ aside'[g] = aside[g]
    BY DEF Discard
<1>3. Attached' /\ RowsRemember' /\ ProxyRemembers'
    BY <1>2 DEF KvInv, Attached, RowsRemember, Get, ProxyRemembers, Index
<1> QED
    BY <1>1, <1>3 DEF KvInv

LEMMA StateStep ==
    ASSUME KvInv, NEW g \in Gens, NEW defaults \in Defaults, State(g, defaults)
    PROVE  KvInv'
<1> DEFINE rows == GetAll(vm[g])  made == [cache |-> newStateProxy(rows, defaults), defaults |-> defaults]
<1>1. /\ vm[g] # None /\ proxy' = [proxy EXCEPT ![g] = made] /\ aside' = [aside EXCEPT ![g] = {}]
      /\ UNCHANGED <<db, vm, tracked, cancelled, last>>
    BY DEF State, Running, scriptVars
<1>2. vm[g] \in Scripts /\ vm[g] \in Stores
    BY <1>1 DEF KvInv, KvTypeOK, Stores
<1>3. rows \in [Keys -> Values \cup {Nil}]
    BY <1>2, RowsTyped DEF KvInv, KvTypeOK, GetAll, Get
<1>4. made \in Proxies
    BY <1>3 DEF newStateProxy, Defaults, Proxies
<1>5. KvTypeOK'
    BY <1>1, <1>4 DEF KvInv, KvTypeOK
<1>6. Attached' /\ RowsRemember'
    BY <1>1, <1>2 DEF KvInv, KvTypeOK, Attached, RowsRemember, Get
<1>7. ProxyRemembers'
    <2> SUFFICES ASSUME NEW h \in Gens, proxy'[h] # None, NEW l \in Keys \ aside'[h]
                 PROVE  \/ proxy'[h].cache[l] \in last[vm[h]][l]
                        \/ Nil \in last[vm[h]][l] /\ proxy'[h].cache[l] = proxy'[h].defaults[l]
        BY <1>1 DEF ProxyRemembers, Index
    <2>1. CASE h # g
        BY <1>1, <2>1 DEF KvInv, KvTypeOK, ProxyRemembers, Index
    <2>2. CASE h = g
        <3>1. proxy'[g] = made
            BY <1>1 DEF KvInv, KvTypeOK
        <3>2. rows[l] \in last[vm[g]][l]
            BY <1>2 DEF KvInv, RowsRemember, GetAll
        <3>3. made.cache[l] = IF rows[l] # Nil THEN rows[l] ELSE defaults[l]
            BY DEF newStateProxy
        <3> QED
            BY <2>2, <3>1, <3>2, <3>3
    <2> QED
        BY <2>1, <2>2
<1> QED
    BY <1>5, <1>6, <1>7 DEF KvInv

LEMMA KvNextInv == KvInv /\ [KvNext]_kvVars => KvInv'
<1> SUFFICES ASSUME KvInv, [KvNext]_kvVars PROVE KvInv'
    OBVIOUS
<1> USE DEF KvInv
<1>1. ASSUME NEW s \in Scripts, NEW g \in Gens, StartScript(s, g) PROVE KvInv'
    <2>1. KvTypeOK'
        BY <1>1 DEF StartScript, KvTypeOK
    <2>2. proxy[g] = None /\ UNCHANGED <<db, proxy, last, aside>>
        BY <1>1, KvAssumption DEF StartScript, Attached
    <2>3. \A h \in Gens \ {g} : vm'[h] = vm[h]
        BY <1>1 DEF StartScript, KvTypeOK
    <2> QED
        BY <2>1, <2>2, <2>3 DEF Attached, RowsRemember, Get, ProxyRemembers, Index
<1>2. ASSUME NEW s \in Scripts, StopScript(s) PROVE KvInv'
    BY <1>2 DEF StopScript, KvTypeOK, Attached, RowsRemember, Get, ProxyRemembers, Index
<1>3. ASSUME NEW g \in Gens, Abort(g) PROVE KvInv'
    BY <1>3 DEF Abort, KvTypeOK, Attached, RowsRemember, Get, ProxyRemembers, Index
<1>4. ASSUME NEW g \in Gens, Ends(g) PROVE KvInv'
    BY <1>4, DiscardStep DEF Ends, KvTypeOK
<1>5. CASE Crash
    <2>1. tracked' \in [Scripts -> Gens \cup {None}]
        BY <1>5 DEF Crash
    <2> QED
        BY <1>5, <2>1, DiscardStep DEF Crash
<1>6. CASE UNCHANGED kvVars
    BY <1>6 DEF kvVars, scriptVars, KvTypeOK, Attached, RowsRemember, Get, ProxyRemembers, Index
<1> QED
    BY <1>1, <1>2, <1>3, <1>4, <1>5, <1>6, StateStep, StoreStep, AssignStep DEF KvNext

\* A state proxy answers what the last write of its script left, for any number of
\* scripts, keys, values and overlapping generations.
THEOREM Remembers == KvSpec => []ProxyRemembers
<1>1. KvInit => KvInv
    BY KvInitInv
<1>2. KvInv /\ [KvNext]_kvVars => KvInv'
    BY KvNextInv
<1>3. KvInv => ProxyRemembers
    BY DEF KvInv
<1> QED
    BY <1>1, <1>2, <1>3, PTL DEF KvSpec

-----------------------------------------------------------------------------
(***************************************************************************)
(* Names                                                                   *)
(***************************************************************************)

AnyRaw == {<<>>} \cup UNION {Contents[s] : s \in nameSources}
Fetches == [at : {"idle", "ask", "answered", "lost"}, source : nameSources \cup {0}, raw : AnyRaw]

NamesTypeOK ==
    /\ reg \in [nameSources -> AnyRaw] /\ \A s \in nameSources : reg[s] \in Contents[s]
    /\ link \in {"down", "seeding", "seeded", "reading"}
    /\ states \in BOOLEAN
    /\ events \in Seq(nameSources)
    /\ main \in {"seed", "refresh", "run"}
    /\ stale \in SUBSET nameSources
    /\ fetcher \in Fetches
    /\ mirror = [s \in nameSources |-> mirror[s]]

\* main and the goroutine of Run fetch one source at a time, and main does nothing else.
OneFetch ==
    /\ fetcher.at = "idle" <=> fetcher = NoFetch
    /\ fetcher # NoFetch => fetcher.source \in nameSources
    /\ main = "seed" => fetcher = NoFetch
    /\ main = "refresh" => fetcher # NoFetch

\* s will be asked for, or something is on its way that marks it.
Due(s) ==
    \/ Followed(s)
    \/ link \in {"down", "seeding"}
    \/ s \in ToSet(events)
    \/ fetcher.at = "ask" /\ fetcher.source = s

\* An answer that waits to be applied is what Home Assistant still has, or the source is
\* due again.
AnswerIsFresh ==
    fetcher.at = "answered" =>
        \/ fetcher.raw = reg[fetcher.source] \/ Due(fetcher.source) \/ fetcher.source \in unseen

\* Outside the known windows a source the mirror is wrong about is due, or its answer has come.
Known ==
    \A s \in nameSources \ Excused :
        \/ mirror[s] = Applied(s, reg[s])
        \/ Due(s)
        \/ fetcher.at = "answered" /\ fetcher.source = s

\* Refresh gives up after a broken connection, whose successor brings a batch.
LostIsMadeUp ==
    main = "refresh" /\ fetcher.at = "lost" => states \/ link \in {"down", "seeding"}

NamesInv == NamesTypeOK /\ OneFetch /\ LostIsMadeUp /\ AnswerIsFresh /\ Known

\* A pass takes the next source that is stale, or ends.
LEMMA LeastSource ==
    ASSUME NEW due \in SUBSET nameSources, due # {}
    PROVE  Min(due) \in due /\ \A t \in due : Min(due) <= t
<1>1. \E x \in due : \A y \in due : x <= y
    <2>1. CASE 1 \in due
        BY <2>1 DEF nameSources, Entities, Devices, Areas
    <2>2. CASE 1 \notin due /\ 2 \in due
        BY <2>2 DEF nameSources, Entities, Devices, Areas
    <2>3. CASE 1 \notin due /\ 2 \notin due
        <3>1. \A x \in due : x = 3
            BY <2>3 DEF nameSources, Entities, Devices, Areas
        <3> QED
            BY <3>1
    <2> QED
        BY <2>1, <2>2, <2>3
<1> QED
    BY <1>1 DEF Min

LEMMA FetchesTyped ==
    /\ \A t \in nameSources : Fetch(t) \in Fetches /\ Fetch(t).at = "ask" /\ Fetch(t).source = t
    /\ NoFetch \in Fetches /\ NoFetch.at = "idle"
    /\ <<>> \in AnyRaw /\ \A s \in nameSources : \A raw \in Contents[s] : raw \in AnyRaw
<1>1. <<>> \in AnyRaw /\ \A s \in nameSources : \A raw \in Contents[s] : raw \in AnyRaw
    <2>1. <<>> \in AnyRaw
        BY DEF AnyRaw
    <2>2. ASSUME NEW s \in nameSources, NEW raw \in Contents[s] PROVE raw \in AnyRaw
        <3>1. Contents[s] \in {Contents[t] : t \in nameSources}
            OBVIOUS
        <3>2. raw \in UNION {Contents[t] : t \in nameSources}
            BY <3>1
        <3> QED
            BY <3>2 DEF AnyRaw
    <2> QED
        BY <2>1, <2>2
<1> QED
    BY <1>1 DEF Fetch, NoFetch, Fetches

LEMMA ContinueStep ==
    ASSUME stale \in SUBSET nameSources, NEW s, Continue(s)
    PROVE  \/ fetcher' = NoFetch /\ stale' = stale
           \/ \E t \in stale : fetcher' = Fetch(t) /\ stale' = stale \ {t}
<1> DEFINE due == {t \in stale : t >= s}
<1>1. CASE due = {}
    BY <1>1 DEF Continue
<1>2. CASE due # {}
    <2>1. Min(due) \in stale
        <3>1. due \in SUBSET nameSources
            OBVIOUS
        <3>2. Min(due) \in due
            <4> HIDE DEF due
            <4> QED
                BY <1>2, <3>1, LeastSource
        <3> QED
            BY <3>2
    <2>2. fetcher' = Fetch(Min(due)) /\ stale' = stale \ {Min(due)}
        BY <1>2 DEF Continue
    <2> QED
        BY <2>1, <2>2
<1> QED
    BY <1>1, <1>2

\* What follows a fetch: no source that was stale is forgotten.
LEMMA AfterFetchStep ==
    ASSUME NamesTypeOK, OneFetch, fetcher # NoFetch, NEW ok \in BOOLEAN, AfterFetch(ok)
    PROVE  /\ fetcher' \in Fetches /\ stale' \in SUBSET nameSources
           /\ main' \in {"refresh", "run"}
           /\ fetcher'.at \in {"idle", "ask"}
           /\ fetcher'.at = "idle" <=> fetcher' = NoFetch
           /\ fetcher' # NoFetch => fetcher'.source \in nameSources
           /\ main' = "refresh" =>
                /\ main = "refresh" /\ ok /\ fetcher.source # Areas
                /\ fetcher' = Fetch(fetcher.source + 1)
           /\ main = "refresh" /\ ok /\ fetcher.source # Areas => main' = "refresh"
           /\ \A s \in stale : s \in stale' \/ (fetcher'.at = "ask" /\ fetcher'.source = s)
<1>1. \A t \in nameSources : Fetch(t) \in Fetches /\ Fetch(t).at = "ask" /\ Fetch(t).source = t
    BY FetchesTyped
<1>2. NoFetch \in Fetches /\ NoFetch.at = "idle"
    BY FetchesTyped
<1>3. fetcher.source \in nameSources /\ main \in {"refresh", "run"}
    BY DEF OneFetch, NamesTypeOK
<1>4. CASE main = "refresh"
    <2>1. /\ stale' = stale
          /\ IF ok /\ fetcher.source # Areas
             THEN fetcher' = Fetch(fetcher.source + 1) /\ main' = main
             ELSE fetcher' = NoFetch /\ main' = "run"
        BY <1>4 DEF AfterFetch
    <2>2. fetcher.source # Areas => fetcher.source + 1 \in nameSources
        BY <1>3 DEF nameSources, Entities, Devices, Areas
    <2> QED
        BY <1>1, <1>2, <1>4, <2>1, <2>2 DEF NamesTypeOK
<1>5. CASE main = "run"
    <2>1. main' = "run" /\ Continue(fetcher.source + 1)
        BY <1>5 DEF AfterFetch
    <2>2. \/ fetcher' = NoFetch /\ stale' = stale
          \/ \E t \in stale : fetcher' = Fetch(t) /\ stale' = stale \ {t}
        BY <2>1, ContinueStep DEF NamesTypeOK
    <2> QED
        BY <1>1, <1>2, <1>5, <2>1, <2>2 DEF NamesTypeOK
<1> QED
    BY <1>3, <1>4, <1>5

LEMMA NamesInitInv == NamesInit => NamesInv
<1> SUFFICES ASSUME NamesInit PROVE NamesInv
    OBVIOUS
<1>1. NoFetch \in Fetches /\ NoFetch.at = "idle"
    BY FetchesTyped
<1>2. NamesTypeOK
    <2>1. reg = [s \in nameSources |-> reg[s]] /\ \A s \in nameSources : reg[s] \in Contents[s]
        BY DEF NamesInit
    <2>2. reg \in [nameSources -> AnyRaw]
        BY <2>1, FetchesTyped
    <2>3. fetcher \in Fetches /\ mirror = [s \in nameSources |-> mirror[s]]
        BY <1>1 DEF NamesInit
    <2>4. events \in Seq(nameSources) /\ stale \in SUBSET nameSources
        BY DEF NamesInit
    <2>5. states = FALSE
        BY DEF NamesInit
    <2>6. link = "down" /\ main = "seed"
        BY DEF NamesInit
    <2> QED
        BY <2>1, <2>2, <2>3, <2>4, <2>6, <2>5 DEF NamesTypeOK
<1>3. OneFetch /\ LostIsMadeUp /\ AnswerIsFresh /\ Known
    BY <1>1 DEF NamesInit, OneFetch, LostIsMadeUp, AnswerIsFresh, Known, Due, Followed
<1> QED
    BY <1>2, <1>3 DEF NamesInv

\* Home Assistant and the connection.
LEMMA EditStep ==
    ASSUME NamesInv, NEW s \in nameSources, Edit(s)
    PROVE  NamesInv'
<1> USE DEF NamesInv
<1>1. PICK content \in Contents[s] : reg' = [reg EXCEPT ![s] = content]
    BY DEF Edit
<1>2. /\ \/ events' = Append(events, s) /\ unseen' = unseen
         \/ /\ events' = events
            /\ unseen' = IF link \in {"down", "seeding"} \/ Followed(s) \/ s \in ToSet(events)
                         THEN unseen ELSE unseen \cup {s}
      /\ UNCHANGED <<link, states, main, stale, fetcher, mirror, failed>>
    BY DEF Edit, linkVars, runVars
<1>3. NamesTypeOK' /\ OneFetch' /\ LostIsMadeUp'
    <2>1. content \in AnyRaw
        BY <1>1, FetchesTyped
    <2>2. reg' \in [nameSources -> AnyRaw] /\ \A t \in nameSources : reg'[t] \in Contents[t]
        BY <1>1, <2>1 DEF NamesTypeOK
    <2>3. events' \in Seq(nameSources)
        BY <1>2 DEF NamesTypeOK
    <2> QED
        BY <1>2, <2>2, <2>3 DEF NamesTypeOK, OneFetch, LostIsMadeUp
<1>4. ToSet(events) \subseteq ToSet(events') /\ (events' = Append(events, s) => s \in ToSet(events'))
    <2>1. events \in Seq(nameSources)
        BY DEF NamesTypeOK
    <2>2. events' = Append(events, s) => ToSet(events) \subseteq ToSet(events') /\ s \in ToSet(events')
        BY <2>1 DEF ToSet
    <2> QED
        BY <1>2, <2>2
<1>5. \A t \in nameSources : Due(t) => Due(t)'
    BY <1>2, <1>4 DEF Due, Followed
<1>6. Due(s)' \/ s \in unseen'
    BY <1>2, <1>4, <1>5 DEF Due, NamesTypeOK
<1>7. \A t \in nameSources \ {s} : reg'[t] = reg[t]
    BY <1>1 DEF NamesTypeOK
<1>8. AnswerIsFresh' /\ Known'
    <2>1. \A t \in nameSources : t \in unseen => t \in unseen'
        BY <1>2
    <2>2. fetcher.at = "answered" => fetcher.source \in nameSources
        BY FetchesTyped DEF OneFetch
    <2>3. AnswerIsFresh'
        BY <1>2, <1>5, <1>6, <1>7, <2>1, <2>2 DEF AnswerIsFresh
    <2>4. Known'
        BY <1>2, <1>5, <1>6, <1>7, <2>1 DEF Known, Excused
    <2> QED
        BY <2>3, <2>4
<1> QED
    BY <1>3, <1>8

LEMMA LinkStep ==
    ASSUME NamesInv, Connect \/ Seeded \/ Subscribed
    PROVE  NamesInv'
<1> USE DEF NamesInv
<1>1. /\ UNCHANGED <<reg, events, main, stale, fetcher, mirror, failed, unseen>>
      /\ \/ link = "down" /\ link' = "seeding" /\ states' = states
         \/ link = "seeding" /\ link' = "seeded" /\ states' = TRUE
         \/ link = "seeded" /\ link' = "reading" /\ states' = states
    BY DEF Connect, Seeded, Subscribed, haVars, runVars, pastVars
<1>2. states' \in BOOLEAN /\ (states => states')
    BY <1>1 DEF NamesTypeOK
<1>3. NamesTypeOK' /\ OneFetch' /\ LostIsMadeUp'
    BY <1>1, <1>2 DEF NamesTypeOK, OneFetch, LostIsMadeUp
<1>4. \A t \in nameSources : Due(t) => Due(t)'
    BY <1>1, <1>2 DEF Due, Followed
<1>5. AnswerIsFresh' /\ Known'
    <2>1. fetcher.at = "answered" => fetcher.source \in nameSources
        BY FetchesTyped DEF OneFetch
    <2> QED
        BY <1>1, <1>4, <2>1 DEF AnswerIsFresh, Known, Excused
<1> QED
    BY <1>3, <1>5

\* A connection that breaks.
LEMMA LossStep ==
    ASSUME NamesInv, Break
    PROVE  NamesInv'
<1> USE DEF NamesInv
<1>1. /\ UNCHANGED <<reg, states, main, stale, mirror, failed, unseen>>
      /\ link' = "down"
      /\ fetcher' \in {fetcher, [fetcher EXCEPT !.at = "lost"]}
      /\ fetcher'.at # "answered" /\ (fetcher' # fetcher => fetcher.at = "answered")
    <2>1. [fetcher EXCEPT !.at = "lost"].at = "lost"
        BY DEF NamesTypeOK, Fetches
    <2> QED
        BY <2>1 DEF Break, haVars, linkVars, runVars, pastVars
<1>2. events' \in Seq(nameSources)
    <2>1. PICK n \in 0..Len(events) : events' = SubSeq(events, 1, n)
        BY DEF Break
    <2> QED
        BY <2>1 DEF NamesTypeOK
<1>3. /\ fetcher' \in Fetches /\ fetcher'.source = fetcher.source
      /\ fetcher' # fetcher => fetcher'.at = "lost"
    BY <1>1 DEF NamesTypeOK, Fetches
<1>4. NamesTypeOK' /\ LostIsMadeUp'
    BY <1>1, <1>2, <1>3 DEF NamesTypeOK, LostIsMadeUp
<1>5. OneFetch'
    BY <1>1, <1>3, FetchesTyped DEF OneFetch
<1>6. AnswerIsFresh' /\ Known'
    BY <1>1 DEF AnswerIsFresh, Known, Due, Excused
<1> QED
    BY <1>4, <1>5, <1>6

\* What marks sources stale, and the start of a pass.
LEMMA MarkStep ==
    ASSUME NamesInv, Changed \/ ChangedAll
    PROVE  NamesInv'
<1> USE DEF NamesInv
<1>1. /\ UNCHANGED <<reg, link, main, fetcher, mirror, failed, unseen>> /\ main = "run"
      /\ stale \subseteq stale'
    BY DEF Changed, ChangedAll, Mark, haVars, linkVars, pastVars
<1>2. /\ events' \in Seq(nameSources) /\ states' \in BOOLEAN /\ stale' \in SUBSET nameSources
      /\ \A t \in nameSources : Due(t) => Due(t)'
    <2>1. CASE Changed
        <3>1. /\ events # <<>> /\ stale' = stale \cup {Head(events)} /\ events' = Tail(events)
              /\ states' = states
            BY <2>1 DEF Changed, Mark, linkVars
        <3>2. Head(events) \in nameSources /\ events' \in Seq(nameSources)
            BY <3>1 DEF NamesTypeOK
        <3>3. \A t \in ToSet(events) : t \in ToSet(events') \/ t \in stale'
            <4> SUFFICES ASSUME NEW i \in DOMAIN events
                         PROVE  events[i] \in ToSet(events') \/ events[i] \in stale'
                BY DEF ToSet
            <4>1. CASE i = 1
                BY <3>1, <4>1 DEF NamesTypeOK
            <4>2. CASE i # 1
                <5>1. i - 1 \in DOMAIN events' /\ events'[i - 1] = events[i]
                    BY <3>1, <4>2 DEF NamesTypeOK
                <5> QED
                    BY <5>1 DEF ToSet
            <4> QED
                BY <4>1, <4>2
        <3>4. \A t \in nameSources : Due(t) => Due(t)'
            BY <1>1, <3>1, <3>3 DEF Due, Followed
        <3> QED
            BY <3>1, <3>2, <3>4 DEF NamesTypeOK
    <2>2. CASE ChangedAll
        <3>1. stale' = stale \cup nameSources /\ events' = events /\ states' = FALSE
            BY <2>2 DEF ChangedAll, Mark
        <3>2. \A t \in nameSources : Due(t)'
            BY <3>1 DEF Due, Followed
        <3> QED
            BY <3>1, <3>2 DEF NamesTypeOK
    <2> QED
        BY <2>1, <2>2
<1>3. NamesTypeOK' /\ OneFetch' /\ LostIsMadeUp'
    BY <1>1, <1>2 DEF NamesTypeOK, OneFetch, LostIsMadeUp
<1>4. AnswerIsFresh' /\ Known'
    <2>1. fetcher.at = "answered" => fetcher.source \in nameSources
        BY FetchesTyped DEF OneFetch
    <2> QED
        BY <1>1, <1>2, <2>1 DEF AnswerIsFresh, Known, Excused
<1> QED
    BY <1>3, <1>4

LEMMA RefreshStep ==
    ASSUME NamesInv, Refresh
    PROVE  NamesInv'
<1> USE DEF NamesInv
<1>1. /\ UNCHANGED <<reg, link, events, stale, mirror, failed, unseen>>
      /\ states' = FALSE /\ main' = "refresh" /\ fetcher' = Fetch(Entities)
    BY DEF Refresh, haVars, runVars, pastVars
<1>2. /\ fetcher' \in Fetches /\ fetcher'.at = "ask" /\ fetcher'.source = 1 /\ fetcher' # NoFetch
      /\ 1 \in nameSources
    <2>1. Entities \in nameSources
        BY DEF nameSources
    <2> QED
        BY <1>1, <2>1, FetchesTyped DEF Entities
<1>3. NamesTypeOK' /\ OneFetch' /\ LostIsMadeUp' /\ AnswerIsFresh'
    BY <1>1, <1>2 DEF NamesTypeOK, OneFetch, LostIsMadeUp, AnswerIsFresh
<1>4. \A t \in nameSources : Due(t)'
    BY <1>1, <1>2 DEF Due, Followed, nameSources, Entities, Devices, Areas
<1> QED
    BY <1>3, <1>4 DEF Known, Excused

LEMMA PassStep ==
    ASSUME NamesInv, Signalled \/ Settled
    PROVE  NamesInv'
<1> USE DEF NamesInv
<1>1. /\ UNCHANGED <<reg, link, states, events, main, mirror, failed, unseen>>
      /\ main = "run" /\ fetcher = NoFetch
    BY DEF Signalled, Settled, haVars, linkVars, pastVars
<1>2. \/ fetcher' = fetcher /\ stale' = stale
      \/ fetcher' = NoFetch /\ stale' = stale
      \/ \E t \in stale : fetcher' = Fetch(t) /\ stale' = stale \ {t}
    <2>1. CASE Signalled
        BY <2>1 DEF Signalled
    <2>2. CASE Settled
        BY <2>2, ContinueStep DEF Settled, NamesTypeOK
    <2> QED
        BY <2>1, <2>2
<1>3. CASE fetcher' = NoFetch /\ stale' = stale
    BY <1>1, <1>3 DEF NamesTypeOK, OneFetch, LostIsMadeUp, AnswerIsFresh, Known, Due, Followed, Excused
<1>4. ASSUME NEW t \in stale, fetcher' = Fetch(t), stale' = stale \ {t} PROVE NamesInv'
    <2>1. t \in nameSources
        BY DEF NamesTypeOK
    <2>2. fetcher' \in Fetches /\ fetcher'.at = "ask" /\ fetcher'.source = t /\ fetcher' # NoFetch
        BY <1>4, <2>1, FetchesTyped
    <2>3. fetcher.at = "idle"
        BY <1>1, FetchesTyped
    <2>4. NamesTypeOK' /\ OneFetch' /\ LostIsMadeUp' /\ AnswerIsFresh'
        BY <1>1, <1>4, <2>1, <2>2 DEF NamesTypeOK, OneFetch, LostIsMadeUp, AnswerIsFresh
    <2>5. \A u \in nameSources : Due(u) => Due(u)'
        BY <1>1, <1>4, <2>2, <2>3 DEF Due, Followed
    <2> QED
        BY <1>1, <2>3, <2>4, <2>5 DEF Known, Excused
<1> QED
    BY <1>1, <1>2, <1>3, <1>4

\* A fetch.
LEMMA QueryStep ==
    ASSUME NamesInv, Query
    PROVE  NamesInv'
<1> USE DEF NamesInv
<1> DEFINE s == fetcher.source
<1>1. /\ UNCHANGED <<reg, link, states, events, main, stale, mirror, failed>>
      /\ fetcher.at = "ask" /\ unseen' = unseen \ {s}
      /\ fetcher' = [fetcher EXCEPT !.at = "answered", !.raw = reg[s]]
    BY DEF Query, haVars, linkVars, runVars
<1>2. s \in nameSources /\ reg[s] \in AnyRaw
    BY <1>1, FetchesTyped DEF OneFetch, NamesTypeOK
<1>3. /\ fetcher' \in Fetches /\ fetcher'.at = "answered" /\ fetcher'.source = s
      /\ fetcher'.raw = reg[s] /\ fetcher' # NoFetch
    <2>1. fetcher' \in Fetches /\ fetcher'.at = "answered" /\ fetcher'.source = s /\ fetcher'.raw = reg[s]
        BY <1>1, <1>2 DEF NamesTypeOK, Fetches
    <2> QED
        BY <2>1, FetchesTyped
<1>4. NamesTypeOK' /\ OneFetch' /\ LostIsMadeUp' /\ AnswerIsFresh'
    <2>1. main \in {"refresh", "run"}
        BY <1>1, FetchesTyped DEF OneFetch, NamesTypeOK
    <2> QED
        BY <1>1, <1>2, <1>3, <2>1 DEF NamesTypeOK, OneFetch, LostIsMadeUp, AnswerIsFresh
<1>5. \A u \in nameSources \ {s} : Due(u) => Due(u)'
    BY <1>1, <1>2, <1>3 DEF Due, Followed
<1>6. Known'
    BY <1>1, <1>3, <1>5 DEF Known, Excused
<1> QED
    BY <1>4, <1>6

\* The end of a fetch that brought nothing, was refused or brought an answer.
LEMMA EndStep ==
    ASSUME NamesInv, QueryFails \/ Refused \/ Apply
    PROVE  NamesInv'
<1> USE DEF NamesInv
<1> DEFINE s == fetcher.source
<1>1. UNCHANGED <<reg, link, states, events>> /\ fetcher # NoFetch /\ s \in nameSources
    BY FetchesTyped DEF QueryFails, Refused, Apply, haVars, linkVars, OneFetch
<1>2. PICK ok \in BOOLEAN : AfterFetch(ok) /\ (Apply => ok)
    BY DEF QueryFails, Refused, Apply
<1>3. /\ fetcher' \in Fetches /\ stale' \in SUBSET nameSources
      /\ main' \in {"refresh", "run"}
      /\ fetcher'.at \in {"idle", "ask"}
      /\ fetcher'.at = "idle" <=> fetcher' = NoFetch
      /\ fetcher' # NoFetch => fetcher'.source \in nameSources
      /\ main' = "refresh" =>
            /\ main = "refresh" /\ ok /\ s # Areas
            /\ fetcher' = Fetch(s + 1)
      /\ main = "refresh" /\ ok /\ s # Areas => main' = "refresh"
      /\ \A t \in stale : t \in stale' \/ (fetcher'.at = "ask" /\ fetcher'.source = t)
    BY <1>1, <1>2, AfterFetchStep
<1>4. mirror' = [t \in nameSources |-> mirror'[t]]
    BY DEF QueryFails, Refused, Apply, NamesTypeOK
<1>5. NamesTypeOK'
    BY <1>1, <1>3, <1>4 DEF NamesTypeOK
<1>6. OneFetch' /\ LostIsMadeUp' /\ AnswerIsFresh'
    <2>1. main' = "refresh" => fetcher' # NoFetch
        BY <1>1, <1>3, FetchesTyped DEF nameSources, Entities, Devices, Areas
    <2> QED
        BY <1>3, <2>1 DEF OneFetch, LostIsMadeUp, AnswerIsFresh
<1>7. \A t \in nameSources :
        Due(t) => \/ Due(t)'
                  \/ main = "refresh" /\ ~ok /\ t >= s
                  \/ fetcher.at = "ask" /\ t = s
    <2>1. main # "seed"
        BY <1>1 DEF OneFetch
    <2>2. \A t \in nameSources : main = "refresh" /\ s < t /\ ok => Due(t)'
        <3> SUFFICES ASSUME NEW t \in nameSources, main = "refresh", s < t, ok PROVE Due(t)'
            OBVIOUS
        <3>1. s # Areas /\ s + 1 \in nameSources /\ s + 1 <= t
            BY <1>1 DEF nameSources, Entities, Devices, Areas
        <3>2. main' = "refresh" /\ fetcher'.source = s + 1 /\ fetcher'.at = "ask"
            BY <1>3, <3>1, FetchesTyped
        <3>3. s + 1 < t \/ s + 1 = t
            BY <3>1 DEF nameSources, Entities, Devices, Areas
        <3> QED
            BY <3>2, <3>3 DEF Due, Followed
    <2>3. ASSUME NEW t \in nameSources, Due(t), ~(fetcher.at = "ask" /\ t = s),
                 ~(main = "refresh" /\ ~ok /\ t >= s)
          PROVE  Due(t)'
        <3>1. CASE states \/ t \in stale \/ link \in {"down", "seeding"} \/ t \in ToSet(events)
            BY <1>1, <1>3, <3>1 DEF Due, Followed
        <3>2. CASE main = "refresh" /\ s < t
            BY <1>1, <2>2, <2>3, <3>2 DEF nameSources, Entities, Devices, Areas
        <3> QED
            BY <2>1, <2>3, <3>1, <3>2 DEF Due, Followed
    <2> QED
        BY <2>3
<1>8. Known'
    <2>1. CASE QueryFails
        <3>1. UNCHANGED <<mirror, failed, unseen>> /\ (fetcher.at = "lost" \/ (fetcher.at = "ask" /\ link = "down"))
            BY <2>1 DEF QueryFails, pastVars
        <3>2. (main = "refresh" \/ fetcher.at = "ask") => \A t \in nameSources : Due(t)'
            BY <1>1, <3>1 DEF Due, Followed, LostIsMadeUp
        <3> QED
            BY <1>1, <1>7, <3>1, <3>2 DEF Known, Excused
    <2>2. CASE Refused
        <3>1. /\ UNCHANGED <<mirror, unseen>> /\ fetcher.at = "answered"
              /\ failed' = failed \cup IF main = "refresh" THEN {t \in nameSources : t >= s} ELSE {s}
            BY <2>2 DEF Refused
        <3>2. \A t \in nameSources : t \in failed => t \in failed'
            BY <3>1
        <3>3. s \in failed' /\ (main = "refresh" => \A t \in nameSources : t >= s => t \in failed')
            BY <1>1, <3>1 DEF nameSources, Entities, Devices, Areas
        <3> QED
            BY <1>1, <1>7, <3>1, <3>2, <3>3 DEF Known, Excused
    <2>3. CASE Apply
        <3>1. /\ unseen' = unseen /\ failed' = failed \ {s} /\ fetcher.at = "answered" /\ ok
              /\ mirror' = [mirror EXCEPT ![s] = Applied(s, fetcher.raw)]
            BY <1>2, <2>3 DEF Apply
        <3>2. mirror'[s] = Applied(s, fetcher.raw) /\ \A t \in nameSources \ {s} : mirror'[t] = mirror[t]
            BY <1>1, <3>1 DEF NamesTypeOK
        <3>3. \A t \in nameSources : Due(t) => Due(t)'
            BY <1>7, <3>1
        <3>4. ASSUME NEW t \in nameSources, t = s, t \notin unseen
              PROVE  mirror'[t] = Applied(t, reg[t]) \/ Due(t)'
            <4>1. fetcher.raw = reg[t] \/ Due(t)
                BY <3>1, <3>4 DEF AnswerIsFresh
            <4> QED
                BY <3>2, <3>3, <3>4, <4>1
        <3> QED
            BY <1>1, <3>1, <3>2, <3>3, <3>4 DEF Known, Excused
    <2> QED
        BY <2>1, <2>2, <2>3
<1> QED
    BY <1>5, <1>6, <1>8

LEMMA NamesNextInv == NamesInv /\ [NamesNext]_namesVars => NamesInv'
<1> SUFFICES ASSUME NamesInv, [NamesNext]_namesVars PROVE NamesInv'
    OBVIOUS
<1>1. CASE UNCHANGED namesVars
    BY <1>1 DEF namesVars, haVars, linkVars, runVars, pastVars, NamesInv, NamesTypeOK, OneFetch,
                LostIsMadeUp, AnswerIsFresh, Known, Due, Followed, Excused
<1>2. CASE NamesNext
    BY <1>2, EditStep, LinkStep, LossStep, MarkStep, RefreshStep, PassStep, QueryStep, EndStep
    DEF NamesNext
<1> QED
    BY <1>1, <1>2

LEMMA FirstIs ==
    ASSUME NEW a, NEW b, NEW c
    PROVE  FirstSet(<<a, b, c>>) = IF a # "" THEN a ELSE IF b # "" THEN b ELSE c
<1> DEFINE line == <<a, b, c>>  set == {i \in 1..3 : line[i] # ""}
<1>1. line[1] = a /\ line[2] = b /\ line[3] = c
    OBVIOUS
<1>2. FirstSet(line) = IF set = {} THEN "" ELSE line[Min(set)]
    BY DEF FirstSet
<1>3. nameSources = {1, 2, 3}
    BY DEF nameSources, Entities, Devices, Areas
<1>4. /\ set \in SUBSET nameSources
      /\ (1 \in set <=> a # "") /\ (2 \in set <=> b # "") /\ (3 \in set <=> c # "")
    <2>1. \A i : i \in set <=> (i \in {1, 2, 3} /\ line[i] # "")
        <3>1. \A i : i \in 1..3 <=> i \in {1, 2, 3}
            OBVIOUS
        <3> HIDE DEF line
        <3> QED
            BY <3>1
    <2> HIDE DEF line, set
    <2> QED
        BY <1>1, <1>3, <2>1
<1> DEFINE m == Min(set)
<1>5. set # {} => m \in {1, 2, 3} /\ m \in set /\ \A i \in set : m <= i
    <2> HIDE DEF set
    <2>1. set # {} => m \in set /\ \A i \in set : m <= i
        BY <1>4, LeastSource
    <2> HIDE DEF m
    <2> QED
        BY <1>3, <1>4, <2>1
<1> HIDE DEF line, set, m
<1>6. FirstSet(line) = IF set = {} THEN "" ELSE line[m]
    BY <1>2 DEF m
<1>7. FirstSet(line) = IF a # "" THEN a ELSE IF b # "" THEN b ELSE c
    <2>1. CASE a # ""
        <3>1. set # {} /\ m = 1
            <4>1. 1 \in set
                BY <1>4, <2>1
            <4> QED
                BY <1>5, <4>1
        <3> QED
            BY <1>1, <1>6, <2>1, <3>1
    <2>2. CASE a = "" /\ b # ""
        <3>1. set # {} /\ m = 2
            <4>1. 2 \in set /\ 1 \notin set
                BY <1>4, <2>2
            <4>2. m <= 2 /\ m # 1 /\ m \in {1, 2, 3} /\ set # {}
                BY <1>5, <4>1
            <4> QED
                BY <4>2
        <3> QED
            BY <1>1, <1>6, <2>2, <3>1
    <2>3. CASE a = "" /\ b = "" /\ c # ""
        <3>1. set # {} /\ m = 3
            BY <1>3, <1>4, <1>5, <2>3
        <3> QED
            BY <1>1, <1>6, <2>3, <3>1
    <2>4. CASE a = "" /\ b = "" /\ c = ""
        <3>1. set = {}
            BY <1>3, <1>4, <2>4
        <3> QED
            BY <1>6, <2>4, <3>1
    <2> QED
        BY <2>1, <2>2, <2>3, <2>4
<1> QED
    BY <1>7 DEF line

\* The lookups agree with the templates over a mirror that holds what the registries do.
LEMMA LookupsAgree ==
    ASSUME NamesTypeOK, \A s \in nameSources : mirror[s] = Applied(s, reg[s]), NEW id
    PROVE  AreaName(id) = TrueArea(id)
<1> DEFINE entities == reg[Entities]  devices == reg[Devices]  areas == reg[Areas]
<1>1. /\ mirror[Entities] = entities /\ mirror[Areas] = areas
      /\ mirror[Devices] = applyDevices(devices)
    BY DEF Applied, applyEntities, applyAreas, nameSources, Entities, Devices, Areas
<1>2. /\ DOMAIN mirror[Devices] = DOMAIN devices
      /\ \A d \in DOMAIN devices : /\ mirror[Devices][d].area = devices[d].area
                                  /\ mirror[Devices][d].parent = devices[d].parent
    <2> DEFINE name(d) == IF devices[d].byUser = "" THEN devices[d].name ELSE devices[d].byUser
    <2>1. mirror[Devices] = [d \in DOMAIN devices |->
            [name |-> name(d), area |-> devices[d].area, parent |-> devices[d].parent]]
        BY <1>1 DEF applyDevices
    <2> HIDE DEF name, devices
    <2> QED
        BY <2>1
<1>3. "" \notin DOMAIN areas
    BY NamesAssumption DEF NamesTypeOK, nameSources
<1>4. \A a : NameOf(a) = IF a \in DOMAIN areas THEN areas[a] ELSE ""
    BY <1>1 DEF NameOf
<1> DEFINE device == IF id \in DOMAIN entities THEN entities[id].device ELSE id
           own == IF id \in DOMAIN entities THEN entities[id].area ELSE ""
           areaOf(d) == IF d \in DOMAIN devices THEN devices[d].area ELSE ""
           parent == devices[device].parent
           inherited == IF device \in DOMAIN devices THEN areaOf(parent) ELSE ""
           rest == IF areaOf(device) # "" THEN areaOf(device) ELSE inherited
<1>5. TrueArea(id) = NameOf(IF id \in DOMAIN areas THEN id ELSE IF own # "" THEN own ELSE rest)
    <2>1. TrueArea(id) = NameOf(IF id \in DOMAIN areas THEN id
                                ELSE FirstSet(<<own, areaOf(device), inherited>>))
        BY <1>4 DEF TrueArea
    <2> HIDE DEF own, device, areaOf, inherited, entities, areas
    <2>2. FirstSet(<<own, areaOf(device), inherited>>) = IF own # "" THEN own ELSE rest
        BY FirstIs
    <2> QED
        BY <2>1, <2>2
<1>6. deviceArea(device) = NameOf(rest)
    <2>1. CASE device \notin DOMAIN devices
        <3>1. rest = ""
            BY <2>1
        <3>2. deviceArea(device) = ""
            BY <1>2, <2>1 DEF deviceArea
        <3> QED
            BY <1>3, <1>4, <3>1, <3>2
    <2>2. CASE device \in DOMAIN devices
        <3> DEFINE a == devices[device].area
        <3>1. deviceArea(device) = NameOf(IF a = "" /\ parent \in DOMAIN devices THEN devices[parent].area ELSE a)
            BY <1>2, <2>2 DEF deviceArea
        <3>2. rest = IF a # "" THEN a ELSE IF parent \in DOMAIN devices THEN devices[parent].area ELSE ""
            BY <2>2
        <3> HIDE DEF rest, a, parent
        <3> QED
            BY <3>1, <3>2
    <2> QED
        BY <2>1, <2>2
<1>7. CASE id \in DOMAIN areas
    BY <1>1, <1>5, <1>7 DEF AreaName
<1>8. CASE id \notin DOMAIN areas /\ id \notin DOMAIN entities
    <2>1. AreaName(id) = deviceArea(device)
        BY <1>1, <1>8 DEF AreaName
    <2>2. own = ""
        BY <1>8
    <2> HIDE DEF rest, own, device
    <2> QED
        BY <1>5, <1>6, <1>8, <2>1, <2>2
<1>9. CASE id \notin DOMAIN areas /\ id \in DOMAIN entities
    <2>1. AreaName(id) = IF own # "" THEN NameOf(own) ELSE deviceArea(device)
        BY <1>1, <1>9 DEF AreaName
    <2>2. TrueArea(id) = NameOf(IF own # "" THEN own ELSE rest)
        BY <1>5, <1>9
    <2> HIDE DEF rest, own, device
    <2>3. CASE own # ""
        BY <2>1, <2>2, <2>3
    <2>4. CASE own = ""
        BY <1>6, <2>1, <2>2, <2>4
    <2> QED
        BY <2>3, <2>4
<1> QED
    BY <1>7, <1>8, <1>9

\* The mirror of the names is right when nothing is under way, for any number of edits,
\* connections, lost events and refused fetches.
THEOREM MirrorIsRight == NamesSpec => []NamesAreRight
<1>1. NamesInit => NamesInv
    BY NamesInitInv
<1>2. NamesInv /\ [NamesNext]_namesVars => NamesInv'
    BY NamesNextInv
<1>3. NamesInv => NamesAreRight
    <2> SUFFICES ASSUME NamesInv, Quiet PROVE
            /\ \A s \in nameSources \ Excused : mirror[s] = Applied(s, reg[s])
            /\ Excused = {} => \A id \in Ids : AreaName(id) = TrueArea(id)
        BY DEF NamesAreRight
    <2>1. fetcher.at = "idle"
        BY FetchesTyped DEF Quiet
    <2>2. ~states /\ main = "run" /\ stale = {} /\ link = "reading" /\ ToSet(events) = {}
        BY DEF Quiet, ToSet
    <2>3. \A s \in nameSources : ~Due(s)
        BY <2>1, <2>2 DEF Due, Followed
    <2>4. \A s \in nameSources \ Excused : mirror[s] = Applied(s, reg[s])
        BY <2>1, <2>3 DEF NamesInv, Known
    <2>5. Excused = {} => \A id : AreaName(id) = TrueArea(id)
        BY <2>4, LookupsAgree DEF NamesInv
    <2> QED
        BY <2>4, <2>5
<1> QED
    BY <1>1, <1>2, <1>3, PTL DEF NamesSpec

-----------------------------------------------------------------------------
(***************************************************************************)
(* History                                                                 *)
(***************************************************************************)

Contexts == {NoContext, Device, Run, Child}
TableRows == [entity : Recorded, state : States, attrs : {0, 1}, at : Nat, ctx : Contexts]
HouseStates == [state : States \cup {"gone"}, attrs : {0, 1}, at : Nat, ctx : Contexts]
Records == [state : States, attrs : {0, 1}, at : Nat]
Entries == [at : Nat, state : States \cup {"gone"}, by : Contexts, touched : BOOLEAN]

HistoryTypeOK ==
    /\ now \in Nat
    /\ ha \in [Recorded -> HouseStates]
    /\ truth \in [Recorded -> Seq(Entries)] /\ \A e \in Recorded : truth[e] # <<>>
    /\ up \in BOOLEAN
    /\ seedRows \in SUBSET TableRows
    /\ queue \in Seq(TableRows) /\ table \in Seq(TableRows)
    /\ mem \in [Recorded -> SUBSET Records] /\ untold \in [Recorded -> SUBSET Nat]
    /\ purge \in [at : Kept \cup {0, Rest}, now : Nat] /\ purge.now <= now

Past == truth[Light]
Newest == Past[Len(Past)]

\* The history variable is a timeline: each entry is a change, and the last one is what
\* Home Assistant says now.
Timeline ==
    /\ \A k \in DOMAIN Past : Past[k].at <= now
    /\ \A k, m \in DOMAIN Past : k < m => Past[k].at < Past[m].at
    /\ \A k \in DOMAIN Past : k < Len(Past) => Past[k].state # Past[k + 1].state
    /\ Newest.at = ha[Light].at /\ Newest.state = ha[Light].state
    /\ Newest.by = ha[Light].ctx \/ Newest.touched

\* Who may write what: the light does not run, and the automation starts runs.
Authors ==
    /\ ha[Automation].ctx \in {NoContext, Run} /\ ha[Light].ctx \in {NoContext, Device, Child}
    /\ \A k \in DOMAIN Past : Past[k].by \in {NoContext, Device, Child}

OnTheWay == seedRows \cup ToSet(queue)
Everything == OnTheWay \cup ToSet(table)
LightRows(S) == {row \in S : row.entity = Light}

\* A row tells of a change as it was, or of an attribute written after it.
RowsAreTrue ==
    /\ \A row \in LightRows(Everything) : \E k \in DOMAIN Past :
        /\ row.at = Past[k].at /\ row.state = Past[k].state
        /\ row.ctx \in {NoContext, Device, Child}
        /\ row.ctx = Past[k].by \/ Past[k].touched
    /\ \A row \in Everything : row.entity = Automation => row.ctx \in {NoContext, Run}

\* Changes that came after a row on its way are of this very moment.
WayIsShort ==
    \A row \in LightRows(OnTheWay), k \in DOMAIN Past : row.at < Past[k].at => Past[k].at = now

\* The mirror holds one record, of a change that was.
MirrorIsTrue ==
    /\ \A one, other \in mem[Light] : one = other
    /\ \A known \in mem[Light] :
        \E k \in DOMAIN Past : known.at = Past[k].at /\ known.state = Past[k].state

\* The rows reach back without a gap: there is one for every change from the oldest row
\* on, on its way at least, save for the changes noted as untold.
NoGaps ==
    \A row \in LightRows(Everything), k \in DOMAIN Past : row.at <= Past[k].at =>
        \/ Past[k].at \in untold[Light]
        \/ \E other \in LightRows(Everything) : other.at = Past[k].at

\* A daemon that is down has nothing on its way.
Watching == ~up => queue = <<>> /\ seedRows = {}

HistoryInv ==
    HistoryTypeOK /\ Timeline /\ Authors /\ RowsAreTrue /\ WayIsShort /\ MirrorIsTrue /\ NoGaps /\ Watching

Questions == [at : {"window"}, since : Nat, baseline : States \cup {""},
              complete : BOOLEAN, torn : BOOLEAN]

\* The baseline of a query is the state of the last change before its second, as long
\* as no DELETE took rows since it was read: there is still a row of that change.
AskFresh ==
    ask # NoAsk =>
        /\ ask \in Questions /\ ask.since <= now
        /\ ~ask.torn =>
            IF ask.complete
            THEN \E row \in LightRows(ToSet(table)) :
                    /\ Sec(row.at) < Sec(ask.since) /\ row.state = ask.baseline
                    /\ \A k \in DOMAIN Past : row.at < Past[k].at => Sec(ask.since) <= Sec(Past[k].at)
            ELSE ask.baseline = ""

-----------------------------------------------------------------------------
(* Sequences and numbers *)

LEMMA ElementType == ASSUME NEW S, NEW s \in Seq(S), NEW i \in DOMAIN s PROVE s[i] \in S
OBVIOUS

LEMMA AppendedElements ==
    ASSUME NEW S, NEW s \in Seq(S), NEW x \in S
    PROVE  Append(s, x) \in Seq(S) /\ ToSet(Append(s, x)) = ToSet(s) \cup {x}
<1> DEFINE t == Append(s, x)
<1>1. t \in Seq(S) /\ Len(s) \in Nat /\ DOMAIN s = 1..Len(s) /\ DOMAIN t = 1..(Len(s) + 1)
    OBVIOUS
<1>2. t[Len(s) + 1] = x /\ \A i \in 1..Len(s) : t[i] = s[i]
    OBVIOUS
<1> HIDE DEF t
<1>3. \A i \in DOMAIN t : (i \in DOMAIN s /\ t[i] = s[i]) \/ t[i] = x
    BY <1>1, <1>2
<1>4. (\A i \in DOMAIN s : i \in DOMAIN t /\ t[i] = s[i]) /\ Len(s) + 1 \in DOMAIN t
    BY <1>1, <1>2
<1>5. ToSet(t) = ToSet(s) \cup {x}
    BY <1>2, <1>3, <1>4 DEF ToSet
<1> QED
    BY <1>1, <1>5 DEF t

LEMMA JoinedElements ==
    ASSUME NEW S, NEW s \in Seq(S), NEW q \in Seq(S)
    PROVE  s \o q \in Seq(S) /\ ToSet(s \o q) = ToSet(s) \cup ToSet(q)
<1> DEFINE t == s \o q
<1>1. /\ t \in Seq(S) /\ Len(t) = Len(s) + Len(q) /\ Len(s) \in Nat /\ Len(q) \in Nat
      /\ \A i \in 1..(Len(s) + Len(q)) : t[i] = IF i <= Len(s) THEN s[i] ELSE q[i - Len(s)]
    BY ConcatProperties
<1>2. DOMAIN s = 1..Len(s) /\ DOMAIN q = 1..Len(q) /\ DOMAIN t = 1..(Len(s) + Len(q))
    BY <1>1
<1> HIDE DEF t
<1>3. \A i \in DOMAIN t : (i \in DOMAIN s /\ t[i] = s[i])
                            \/ (i - Len(s) \in DOMAIN q /\ t[i] = q[i - Len(s)])
    BY <1>1, <1>2
<1>4. \A i \in DOMAIN s : i \in DOMAIN t /\ t[i] = s[i]
    BY <1>1, <1>2
<1>5. \A i \in DOMAIN q : i + Len(s) \in DOMAIN t /\ t[i + Len(s)] = q[i]
    BY <1>1, <1>2
<1>6. ToSet(t) = ToSet(s) \cup ToSet(q)
    BY <1>3, <1>4, <1>5 DEF ToSet
<1> QED
    BY <1>1, <1>6 DEF t

LEMMA LeastNumber ==
    ASSUME NEW T, T \subseteq Nat, T # {}
    PROVE  Min(T) \in T /\ \A n \in T : Min(T) <= n
<1> DEFINE R == {p \in Nat \X Nat : p[1] < p[2]}
<1>1. OpToRel(<, Nat) = R
    BY DEF OpToRel
<1>2. IsWellFoundedOn(R, Nat)
    BY <1>1, NatLessThanWellFounded
<1>3. \A x, y \in Nat : x < y => <<x, y>> \in R
    OBVIOUS
<1> HIDE DEF R
<1>4. PICK x \in T : \A y \in T : <<y, x>> \notin R
    BY <1>2, WFMin
<1>5. ASSUME NEW y \in T PROVE x <= y
    <2>1. x \in Nat /\ y \in Nat
        OBVIOUS
    <2>2. ~(y < x)
        BY <1>3, <1>4, <2>1
    <2> QED
        BY <2>1, <2>2
<1> QED
    BY <1>5 DEF Min

LEMMA GreatestNumber ==
    ASSUME NEW n \in Nat, NEW T, T \subseteq 0..n, T # {}
    PROVE  Max(T) \in T /\ \A m \in T : m <= Max(T)
<1> DEFINE D == {n - m : m \in T}
<1>1. D \subseteq Nat /\ D # {} /\ \A m \in T : n - m \in D
    <2>1. \A m \in T : m \in Nat /\ n - m \in Nat
        OBVIOUS
    <2> QED
        BY <2>1, Zenon
<1>2. Min(D) \in D /\ \A d \in D : Min(D) <= d
    <2> HIDE DEF D
    <2> QED
        BY <1>1, LeastNumber
<1>3. PICK m \in T : Min(D) = n - m
    BY <1>2
<1>4. ASSUME NEW k \in T PROVE k <= m
    <2>1. n - m <= n - k
        BY <1>1, <1>2, <1>3
    <2>2. k \in 0..n /\ m \in 0..n
        OBVIOUS
    <2> QED
        BY <2>1, <2>2
<1> QED
    BY <1>4 DEF Max

LEMMA DivisionFacts ==
    ASSUME NEW t \in Nat
    PROVE  Sec(t) \in Int /\ PerSecond * Sec(t) <= t /\ t < PerSecond * Sec(t) + PerSecond
BY HistoryAssumption, SMTT(30) DEF Sec

\* A later stamp is not in an earlier second.
LEMMA SecondsGrow ==
    ASSUME NEW s \in Nat, NEW t \in Nat, s <= t
    PROVE  Sec(s) <= Sec(t)
<1>1. PICK a \in Int : a = Sec(s)
    BY DivisionFacts
<1>2. PICK b \in Int : b = Sec(t)
    BY DivisionFacts
<1>3. PerSecond * a <= s /\ t < PerSecond * b + PerSecond
    BY <1>1, <1>2, DivisionFacts
<1>4. PerSecond * a < PerSecond * b + PerSecond
    BY <1>3, HistoryAssumption
<1>5. a < b + 1
    BY <1>4, HistoryAssumption, SMTT(30)
<1> QED
    BY <1>1, <1>2, <1>5

\* The places of the rows that are left are 1 to their number.
LEMMA Places ==
    ASSUME NEW n \in Nat, NEW S, S \subseteq 1..n
    PROVE  LET place(i) == Cardinality({k \in S : k <= i})
           IN  /\ Cardinality(S) \in Nat
               /\ \A i \in S : place(i) \in 1..Cardinality(S)
               /\ \A i, j \in S : place(i) = place(j) => i = j
               /\ \A p \in 1..Cardinality(S) : \E i \in S : place(i) = p
<1> DEFINE upTo(i) == {k \in S : k <= i}  place(i) == Cardinality(upTo(i))  c == Cardinality(S)
<1>1. IsFiniteSet(S) /\ c \in Nat
    <2>1. IsFiniteSet(1..n)
        BY FS_Interval
    <2> QED
        BY <2>1, FS_Subset, FS_CardinalityType
<1>2. ASSUME NEW i PROVE IsFiniteSet(upTo(i)) /\ place(i) \in Nat /\ place(i) <= c
    <2>1. upTo(i) \in SUBSET S
        OBVIOUS
    <2> QED
        BY <1>1, <2>1, FS_Subset, FS_CardinalityType
<1>3. ASSUME NEW i \in S PROVE place(i) \in 1..c
    <2>1. i \in upTo(i)
        OBVIOUS
    <2>2. place(i) # 0
        BY <1>2, <2>1, FS_EmptySet
    <2> QED
        BY <1>1, <1>2, <2>2
<1>4. ASSUME NEW i \in S, NEW j \in S, i < j PROVE place(i) < place(j)
    <2>1. upTo(i) \in SUBSET upTo(j) /\ j \in upTo(j) /\ j \notin upTo(i)
        <3>1. \A k \in S : k \in 1..n
            OBVIOUS
        <3>2. i \in 1..n /\ j \in 1..n
            OBVIOUS
        <3>3. \A k \in 1..n : k <= i => k <= j
            BY <1>4, <3>2
        <3>4. j <= j /\ ~(j <= i)
            BY <1>4, <3>2
        <3>5. \A k \in S : k <= i => k <= j
            BY <3>1, <3>3
        <3> QED
            BY <3>4, <3>5
    <2> HIDE DEF upTo
    <2>2. place(i) <= place(j) /\ place(i) # place(j)
        BY <1>2, <2>1, FS_Subset
    <2> QED
        BY <1>2, <2>2
<1>5. \A i, j \in S : place(i) = place(j) => i = j
    <2> SUFFICES ASSUME NEW i \in S, NEW j \in S, i # j PROVE place(i) # place(j)
        OBVIOUS
    <2>1. i < j \/ j < i
        OBVIOUS
    <2> HIDE DEF place
    <2>2. place(i) \in Nat /\ place(j) \in Nat
        BY <1>2
    <2> QED
        BY <1>4, <2>1, <2>2
<1> DEFINE f == [i \in S |-> place(i)]
<1>6. f \in Surjection(S, 1..c)
    <2> HIDE DEF place, c
    <2>1. f \in Injection(S, 1..c)
        BY <1>3, <1>5 DEF Injection, IsInjective
    <2>2. IsFiniteSet(1..c) /\ Cardinality(1..c) = c
        BY <1>1, FS_Interval
    <2> QED
        BY <1>1, <2>1, <2>2, FS_Injection DEF c
<1>7. \A p \in 1..c : \E i \in S : place(i) = p
    <2> HIDE DEF place, c
    <2> QED
        BY <1>6 DEF Surjection
<1> QED
    BY <1>1, <1>3, <1>5, <1>7

\* What a DELETE leaves are the rows it is to leave.
LEMMA RemainingRows ==
    ASSUME HistoryTypeOK, NEW left, left \subseteq DOMAIN table
    PROVE  /\ Remaining(left) \in Seq(TableRows)
           /\ ToSet(Remaining(left)) = {table[i] : i \in left}
<1> DEFINE place(i) == Cardinality({k \in left : k <= i})
           n == Cardinality(left)
           at(p) == CHOOSE i \in left : place(i) = p
<1>1. table \in Seq(TableRows) /\ DOMAIN table = 1..Len(table) /\ Len(table) \in Nat
    BY DEF HistoryTypeOK
<1>2. /\ n \in Nat
      /\ \A i \in left : place(i) \in 1..n
      /\ \A i, j \in left : place(i) = place(j) => i = j
      /\ \A p \in 1..n : \E i \in left : place(i) = p
    BY <1>1, Places
<1>3. Remaining(left) = [p \in 1..n |-> table[at(p)]]
    BY DEF Remaining
<1> HIDE DEF place, n
<1>4. \A p \in 1..n : at(p) \in left /\ place(at(p)) = p
    BY <1>2
<1>5. \A i \in left : at(place(i)) = i
    BY <1>2, <1>4
<1> HIDE DEF at
<1>6. \A i \in left : table[i] \in TableRows
    BY <1>1
<1>7. Remaining(left) \in Seq(TableRows) /\ DOMAIN Remaining(left) = 1..n
    BY <1>2, <1>3, <1>4, <1>6
<1>8. ToSet(Remaining(left)) = {table[at(p)] : p \in 1..n}
    BY <1>3, <1>7 DEF ToSet
<1> QED
    BY <1>2, <1>4, <1>5, <1>7, <1>8

\* What the loop of RunOnce goes through.
LEMMA Rounds ==
    ASSUME NEW i \in Kept \cup {0}
    PROVE  After(i) \in Kept \cup {Rest}
<1> DEFINE next == {j \in Kept \cup {Rest} : j > i}
<1>1. Rules \in Seq([pattern : SUBSET Recorded, days : Int]) /\ Len(Rules) \in Nat
    BY HistoryAssumption
<1>2. Kept \subseteq 1..Len(Rules) /\ Rest = Len(Rules) + 1
    BY <1>1 DEF Kept, Rest
<1>3. next \subseteq Nat /\ Rest \in next
    <2>1. Kept \subseteq Nat /\ Rest \in Nat /\ Rest > i
        BY <1>1, <1>2
    <2> QED
        BY <2>1
<1>4. Min(next) \in next
    <2> HIDE DEF next
    <2> QED
        BY <1>3, LeastNumber
<1> QED
    BY <1>4 DEF After

\* A rule that claims an entity is the first that is for it, and a window is not empty.
LEMMA ClaimsWindow ==
    ASSUME NEW i \in Kept \cup {Rest}, NEW e \in Recorded, Claims(i, e)
    PROVE  Days(i) = Window(e) /\ Days(i) \in Nat \ {0}
<1> DEFINE claims == {j \in Kept : e \in Rules[j].pattern}
<1>1. Rules \in Seq([pattern : SUBSET Recorded, days : Int]) /\ Len(Rules) \in Nat
    BY HistoryAssumption
<1>2. Kept \subseteq 1..Len(Rules) /\ Rest = Len(Rules) + 1 /\ Rest \notin Kept
    BY <1>1 DEF Kept, Rest
<1>3. Window(e) = IF claims = {} THEN Retention ELSE Rules[Min(claims)].days
    BY DEF Window
<1>4. CASE i = Rest
    <2>1. \A j \in Kept : j < Rest
        BY <1>1, <1>2
    <2>2. claims = {}
        BY <1>4, <2>1 DEF Claims
    <2> QED
        BY <1>2, <1>3, <1>4, <2>2, HistoryAssumption DEF Days
<1>5. CASE i \in Kept
    <2>1. i \in claims /\ \A j \in claims : ~(j < i)
        BY <1>5 DEF Claims
    <2>2. claims \subseteq Nat /\ claims # {}
        <3>1. Kept \subseteq Nat
            BY <1>1, <1>2
        <3> QED
            BY <2>1, <3>1
    <2>3. Min(claims) \in claims /\ Min(claims) <= i
        <3> HIDE DEF claims
        <3> QED
            BY <2>1, <2>2, LeastNumber
    <2>4. Min(claims) = i
        BY <2>1, <2>2, <2>3
    <2>5. Rules[i].days \in Int /\ Rules[i].days > 0
        <3>1. i \in DOMAIN Rules /\ Rules[i].days > 0
            BY <1>5 DEF Kept
        <3>2. Rules[i] \in [pattern : SUBSET Recorded, days : Int]
            BY <1>1, <3>1, ElementType
        <3> QED
            BY <3>1, <3>2
    <2> QED
        BY <1>3, <1>5, <2>1, <2>4, <2>5 DEF Days
<1> QED
    BY <1>4, <1>5

-----------------------------------------------------------------------------
(* The steps *)

\* What a write of an entity leaves behind.
Entry(new) == [at |-> now, state |-> new.state, by |-> new.ctx, touched |-> FALSE]
Written(e, new, heard) ==
    /\ Entry(new) \in Entries /\ HistoryTypeOK'
    /\ ha' = [ha EXCEPT ![e] = new]
    /\ \A f \in Recorded \ {e} :
           truth'[f] = truth[f] /\ untold'[f] = untold[f] /\ mem'[f] = mem[f]
    /\ new.state # ha[e].state => truth'[e] = Append(truth[e], Entry(new))
    /\ new.state = ha[e].state =>
           /\ Len(truth'[e]) = Len(truth[e])
           /\ \A k \in DOMAIN truth[e] :
                /\ truth'[e][k].at = truth[e][k].at
                /\ truth'[e][k].state = truth[e][k].state
                /\ truth'[e][k].by = truth[e][k].by
                /\ truth'[e][k].touched = (k = Len(truth[e]) \/ truth[e][k].touched)
    /\ ToSet(queue') =
           ToSet(queue) \cup IF heard /\ new.state # "gone" THEN {StateRow(e, new)} ELSE {}
    /\ untold'[e] = IF heard /\ new.state # "gone" THEN untold[e] \ {new.at}
                    ELSE IF new.state # ha[e].state THEN untold[e] \cup {now} ELSE untold[e]
    /\ mem'[e] \in {mem[e], {}, {Record(new)}}
    /\ ~up => queue' = queue
    /\ UNCHANGED <<now, up, seedRows, table, purge>>

LEMMA WriteFacts ==
    ASSUME HistoryTypeOK, NEW e \in Recorded, NEW new \in HouseStates, NEW heard \in BOOLEAN,
           Write(e, new, heard)
    PROVE  Written(e, new, heard)
<1>1. PICK row, entry : row = StateRow(e, new) /\ entry = Entry(new)
    OBVIOUS
<1> DEFINE changed == new.state # ha[e].state  n == Len(truth[e])
           recorded == heard /\ new.state # "gone"
           heardOf == IF new.state = "gone" THEN {} ELSE {Record(new)}
<1>2. /\ entry \in Entries /\ (new.state # "gone" => row \in TableRows)
      /\ heardOf \in SUBSET Records
    <2>1. entry \in Entries
        BY <1>1 DEF Entry, HouseStates, Entries, HistoryTypeOK
    <2>2. ASSUME new.state # "gone" PROVE row \in TableRows /\ Record(new) \in Records
        <3>1. new.state \in States /\ new.attrs \in {0, 1} /\ new.at \in Nat /\ new.ctx \in Contexts
            BY <2>2 DEF HouseStates
        <3> QED
            BY <1>1, <3>1 DEF StateRow, Record, TableRows, Records
    <2> QED
        BY <2>1, <2>2
<1>3. /\ ha' = [ha EXCEPT ![e] = new] /\ UNCHANGED <<now, up, seedRows, table, purge>>
      /\ truth' = IF changed THEN [truth EXCEPT ![e] = Append(@, entry)]
                  ELSE [truth EXCEPT ![e][n].touched = TRUE]
      /\ queue' = IF recorded THEN Append(queue, row) ELSE queue
      /\ untold' = [untold EXCEPT ![e] = IF recorded THEN @ \ {new.at}
                                         ELSE IF changed THEN @ \cup {now} ELSE @]
      /\ mem' = IF ~heard THEN mem ELSE [mem EXCEPT ![e] = heardOf]
      /\ recorded => up
    BY <1>1 DEF Write, Entry
<1>4. truth[e] \in Seq(Entries) /\ truth[e] # <<>> /\ DOMAIN truth[e] = 1..n /\ n \in Nat
    BY DEF HistoryTypeOK
<1>5. queue' \in Seq(TableRows) /\ ToSet(queue') = ToSet(queue) \cup IF recorded THEN {row} ELSE {}
    <2>1. queue \in Seq(TableRows)
        BY DEF HistoryTypeOK
    <2> QED
        BY <1>2, <1>3, <2>1, AppendedElements
<1> DEFINE touched == [truth[e] EXCEPT ![n] = [@ EXCEPT !.touched = TRUE]]
<1>6. ~changed => truth' = [truth EXCEPT ![e] = touched]
    BY <1>3
<1>7. /\ touched \in Seq(Entries) /\ touched # <<>> /\ Len(touched) = n
      /\ \A k \in DOMAIN truth[e] :
            /\ touched[k].at = truth[e][k].at /\ touched[k].state = truth[e][k].state
            /\ touched[k].by = truth[e][k].by
            /\ touched[k].touched = (k = n \/ truth[e][k].touched)
    <2> DEFINE old == truth[e][n]  final == [old EXCEPT !.touched = TRUE]
    <2>1. n \in DOMAIN truth[e] /\ old \in Entries
        BY <1>4
    <2>2. /\ final \in Entries /\ final.at = old.at /\ final.state = old.state /\ final.by = old.by
          /\ final.touched = TRUE
        BY <2>1 DEF Entries
    <2>3. touched = [truth[e] EXCEPT ![n] = final]
        OBVIOUS
    <2> HIDE DEF final
    <2>4. touched \in Seq(Entries) /\ touched # <<>> /\ Len(touched) = n
        <3>1. n \in 1..Len(truth[e])
            BY <1>4
        <3> DEFINE s == truth[e]
        <3> HIDE DEF n, s
        <3>2. [s EXCEPT ![n] = final] \in Seq(Entries) /\ Len([s EXCEPT ![n] = final]) = Len(s)
            BY <1>4, <2>2, <3>1, ExceptSeq DEF s
        <3>3. touched \in Seq(Entries) /\ Len(touched) = n
            BY <2>3, <3>2 DEF s, n
        <3> HIDE DEF touched
        <3>4. touched # <<>>
            BY <3>1, <3>3 DEF n
        <3> QED
            BY <3>3, <3>4
    <2>5. touched[n] = final /\ \A k \in DOMAIN truth[e] : k # n => touched[k] = truth[e][k]
        BY <1>4, <2>1, <2>3
    <2>6. \A k \in DOMAIN truth[e] : truth[e][k].touched \in BOOLEAN
        <3>1. \A k \in DOMAIN truth[e] : truth[e][k] \in Entries
            BY <1>4
        <3> QED
            BY <3>1 DEF Entries
    <2> HIDE DEF touched
    <2> QED
        BY <2>2, <2>4, <2>5, <2>6
<1>8. Append(truth[e], entry) \in Seq(Entries) /\ Append(truth[e], entry) # <<>>
    BY <1>2, <1>4
<1>9. truth' \in [Recorded -> Seq(Entries)] /\ \A f \in Recorded : truth'[f] # <<>>
    <2> HIDE DEF touched
    <2> QED
        BY <1>3, <1>6, <1>7, <1>8 DEF HistoryTypeOK
<1>10. /\ ha' \in [Recorded -> HouseStates] /\ untold' \in [Recorded -> SUBSET Nat]
       /\ untold'[e] = IF recorded THEN untold[e] \ {new.at}
                       ELSE IF changed THEN untold[e] \cup {now} ELSE untold[e]
    <2> DEFINE own == IF recorded THEN untold[e] \ {new.at}
                      ELSE IF changed THEN untold[e] \cup {now} ELSE untold[e]
    <2>1. untold' = [untold EXCEPT ![e] = own]
        BY <1>3
    <2>2. own \in SUBSET Nat
        BY DEF HistoryTypeOK
    <2>3. ha' \in [Recorded -> HouseStates]
        BY <1>3 DEF HistoryTypeOK
    <2> HIDE DEF own
    <2>4. untold' \in [Recorded -> SUBSET Nat] /\ untold'[e] = own
        BY <2>1, <2>2 DEF HistoryTypeOK
    <2> QED
        BY <2>3, <2>4 DEF own
<1>11. /\ mem' \in [Recorded -> SUBSET Records]
       /\ mem'[e] \in {mem[e], {}, {Record(new)}}
       /\ \A f \in Recorded \ {e} : mem'[f] = mem[f]
    <2>1. heardOf \in {{}, {Record(new)}}
        OBVIOUS
    <2> HIDE DEF heardOf
    <2> QED
        BY <1>2, <1>3, <2>1 DEF HistoryTypeOK
<1> HIDE DEF heardOf
<1>12. HistoryTypeOK'
    BY <1>3, <1>5, <1>9, <1>10, <1>11 DEF HistoryTypeOK
<1>13. \A f \in Recorded \ {e} : truth'[f] = truth[f] /\ untold'[f] = untold[f]
    <2> HIDE DEF touched
    <2> QED
        BY <1>3, <1>6 DEF HistoryTypeOK
<1>14. (changed => truth'[e] = Append(truth[e], entry)) /\ (~changed => truth'[e] = touched)
    <2> HIDE DEF touched
    <2> QED
        BY <1>3, <1>6 DEF HistoryTypeOK
<1> HIDE DEF touched
<1> QED
    BY <1>1, <1>2, <1>3, <1>5, <1>7, <1>10, <1>11, <1>12, <1>13, <1>14 DEF Written

\* While Home Assistant writes nothing its timeline stays what it is, and the rows that
\* were true are.
LEMMA HouseIsStill ==
    ASSUME HistoryInv, UNCHANGED <<ha, truth>>, now' \in Nat, now <= now'
    PROVE  /\ Timeline' /\ Authors'
           /\ Everything' \subseteq Everything => RowsAreTrue'
           /\ OnTheWay' \subseteq OnTheWay /\ (now' = now \/ OnTheWay' = {}) => WayIsShort'
           /\ mem'[Light] \subseteq mem[Light] => MirrorIsTrue'
           /\ Everything' = Everything /\ untold' = untold => NoGaps'
<1> USE DEF HistoryInv
<1>1. Past' = Past /\ Newest' = Newest
    BY DEF Past, Newest
<1>2. \A k \in DOMAIN Past : Past[k].at \in Nat
    <2>1. Past \in Seq(Entries)
        BY DEF HistoryTypeOK, Past, Recorded
    <2>2. \A k \in DOMAIN Past : Past[k] \in Entries
        BY <2>1, ElementType
    <2> QED
        BY <2>2 DEF Entries
<1>3. Timeline' /\ Authors'
    <2>1. now \in Nat
        BY DEF HistoryTypeOK
    <2> QED
        BY <1>1, <1>2, <2>1 DEF Timeline, Authors
<1>4. Everything' \subseteq Everything => RowsAreTrue'
    BY <1>1 DEF RowsAreTrue, LightRows
<1>5. OnTheWay' \subseteq OnTheWay /\ (now' = now \/ OnTheWay' = {}) => WayIsShort'
    BY <1>1 DEF WayIsShort, LightRows
<1>6. mem'[Light] \subseteq mem[Light] => MirrorIsTrue'
    BY <1>1 DEF MirrorIsTrue
<1>7. Everything' = Everything /\ untold' = untold => NoGaps'
    BY <1>1 DEF NoGaps, LightRows
<1> QED
    BY <1>3, <1>4, <1>5, <1>7, <1>6

LEMMA IdleStep ==
    ASSUME HistoryInv,
           Tick \/ RunOnce \/ DeleteFails \/ AskWindow \/ Start \/ UNCHANGED historyVars
             \/ \E since \in Sinces : AskBaseline(since)
    PROVE  HistoryInv'
<1> USE DEF HistoryInv
<1>1. /\ UNCHANGED <<ha, truth, mem, seedRows, queue, table, untold>>
      /\ up' \in BOOLEAN /\ (up => up')
      /\ \/ now' = now
         \/ now' = now + 1 /\ purge' = purge /\ seedRows = {} /\ queue = <<>>
      /\ purge' \in {purge, Idle, [at |-> After(0), now |-> now]}
    BY DEF Tick, RunOnce, DeleteFails, AskWindow, AskBaseline, Start, historyVars, houseVars, rowVars,
           HistoryTypeOK
<1>2. HistoryTypeOK' /\ now <= now'
    <2>1. now' \in Nat /\ now <= now'
        BY <1>1 DEF HistoryTypeOK
    <2>2. purge' \in [at : Kept \cup {0, Rest}, now : Nat] /\ purge'.now <= now'
        <3>1. After(0) \in Kept \cup {Rest}
            BY Rounds
        <3> QED
            BY <1>1, <2>1, <3>1 DEF HistoryTypeOK, Idle
    <2> QED
        BY <1>1, <2>1, <2>2 DEF HistoryTypeOK
<1>3. OnTheWay' = OnTheWay /\ Everything' = Everything
    BY <1>1 DEF OnTheWay, Everything
<1>4. now' = now \/ OnTheWay' = {}
    BY <1>1 DEF OnTheWay, ToSet
<1>5. Watching'
    BY <1>1 DEF Watching
<1> QED
    BY <1>1, <1>2, <1>3, <1>4, <1>5, HouseIsStill DEF HistoryTypeOK

\* A row moves on.
LEMMA MoveStep ==
    ASSUME HistoryInv, Commit \/ \E row \in seedRows : SeedEnqueue(row)
    PROVE  HistoryInv'
<1> USE DEF HistoryInv
<1>1. UNCHANGED <<now, ha, truth, up, mem, untold, purge>> /\ up
    <2>1. seedRows # {} => up
        BY DEF Watching
    <2> QED
        BY <2>1 DEF Commit, SeedEnqueue, houseVars
<1>2. queue \in Seq(TableRows) /\ table \in Seq(TableRows) /\ seedRows \in SUBSET TableRows
    BY DEF HistoryTypeOK
<1>3. /\ seedRows' \in SUBSET TableRows /\ queue' \in Seq(TableRows) /\ table' \in Seq(TableRows)
      /\ OnTheWay' \subseteq OnTheWay /\ Everything' = Everything
    <2>1. CASE Commit
        <3>1. table' = table \o queue /\ queue' = <<>> /\ seedRows' = seedRows
            BY <2>1 DEF Commit
        <3>2. table' \in Seq(TableRows) /\ ToSet(table') = ToSet(table) \cup ToSet(queue)
            BY <1>2, <3>1, JoinedElements
        <3>3. queue' \in Seq(TableRows) /\ ToSet(queue') = {}
            BY <3>1 DEF ToSet
        <3> QED
            BY <1>2, <3>1, <3>2, <3>3 DEF OnTheWay, Everything
    <2>2. ASSUME NEW row \in seedRows, SeedEnqueue(row)
          PROVE  /\ seedRows' \in SUBSET TableRows /\ queue' \in Seq(TableRows)
                 /\ table' \in Seq(TableRows)
                 /\ OnTheWay' \subseteq OnTheWay /\ Everything' = Everything
        <3>1. seedRows' = seedRows \ {row} /\ queue' = Append(queue, row) /\ table' = table
            BY <2>2 DEF SeedEnqueue
        <3>2. queue' \in Seq(TableRows) /\ ToSet(queue') = ToSet(queue) \cup {row}
            BY <1>2, <3>1, AppendedElements
        <3> QED
            BY <1>2, <3>1, <3>2 DEF OnTheWay, Everything
    <2> QED
        BY <2>1, <2>2
<1>4. HistoryTypeOK'
    BY <1>1, <1>3 DEF HistoryTypeOK
<1>5. Watching'
    BY <1>1 DEF Watching
<1> QED
    BY <1>1, <1>3, <1>4, <1>5, HouseIsStill DEF HistoryTypeOK

\* What only the rows that are lost told of is noted as untold.
LEMMA LostRowsStep ==
    ASSUME HistoryInv, Killed \/ DropBatch
    PROVE  HistoryInv'
<1> USE DEF HistoryInv
<1> DEFINE dropped == IF Killed THEN OnTheWay ELSE ToSet(queue)
           kept == IF Killed THEN ToSet(table) ELSE seedRows \cup ToSet(table)
           gone(e) == {t \in {row.at : row \in {r \in dropped : r.entity = e}} :
                         \A row \in kept : row.entity = e => row.at # t}
<1>1. /\ UNCHANGED <<now, ha, truth, table>> /\ purge' \in {purge, Idle} /\ queue' = <<>>
      /\ seedRows' \in {seedRows, {}} /\ Everything' = kept /\ up' \in BOOLEAN
      /\ mem' \in {mem, Nothing}
      /\ untold' = [e \in Recorded |-> untold[e] \cup gone(e)]
      /\ ~up' => seedRows' = {}
    <2>1. ToSet(<<>>) = {}
        BY DEF ToSet
    <2>2. CASE Killed
        BY <2>1, <2>2 DEF Killed, houseVars, Untold, OnTheWay, Everything
    <2>3. CASE ~Killed
        BY <2>1, <2>3 DEF DropBatch, houseVars, Untold, OnTheWay, Everything, HistoryTypeOK
    <2> QED
        BY <2>2, <2>3
<1>2. /\ dropped \subseteq TableRows /\ Everything = dropped \cup kept
      /\ seedRows' \subseteq seedRows
    <2>1. \A r \in ToSet(queue) : r \in TableRows
        BY ElementType DEF HistoryTypeOK, ToSet
    <2> QED
        BY <1>1, <2>1 DEF HistoryTypeOK, Everything, OnTheWay
<1>3. untold' \in [Recorded -> SUBSET Nat]
    <2>1. \A r \in dropped : r.at \in Nat
        BY <1>2 DEF TableRows
    <2> HIDE DEF dropped, kept
    <2>2. \A e \in Recorded : gone(e) \in SUBSET Nat
        BY <2>1
    <2> HIDE DEF gone
    <2> QED
        BY <1>1, <2>2 DEF HistoryTypeOK
<1> HIDE DEF dropped, kept
<1>4. HistoryTypeOK'
    <2>1. purge' \in [at : Kept \cup {0, Rest}, now : Nat] /\ purge'.now <= now'
        BY <1>1 DEF HistoryTypeOK, Idle
    <2>2. seedRows' \in SUBSET TableRows /\ queue' \in Seq(TableRows)
        BY <1>1, <1>2 DEF HistoryTypeOK
    <2>3. mem' \in [Recorded -> SUBSET Records]
        BY <1>1 DEF HistoryTypeOK, Nothing
    <2> HIDE DEF gone
    <2> QED
        BY <1>1, <1>3, <2>1, <2>2, <2>3 DEF HistoryTypeOK
<1>5. Watching'
    BY <1>1 DEF Watching
<1>6. Light \in Recorded
    BY DEF Recorded
<1>7. NoGaps'
    <2> SUFFICES ASSUME NEW row \in LightRows(kept), NEW k \in DOMAIN Past, row.at <= Past[k].at,
                        ~ \E other \in LightRows(kept) : other.at = Past[k].at
                 PROVE  Past[k].at \in untold'[Light]
        <3> HIDE DEF gone
        <3> QED
            BY <1>1 DEF NoGaps, Past
    <2>1. row \in LightRows(Everything)
        BY <1>2 DEF LightRows
    <2>2. \/ Past[k].at \in untold[Light]
          \/ \E other \in LightRows(Everything) : other.at = Past[k].at
        BY <2>1 DEF NoGaps
    <2>3. CASE Past[k].at \in untold[Light]
        BY <1>1, <1>6, <2>3
    <2>4. CASE \E other \in LightRows(Everything) : other.at = Past[k].at
        <3>1. PICK other \in LightRows(Everything) : other.at = Past[k].at
            BY <2>4
        <3>2. other \in dropped /\ other.entity = Light
            BY <1>2, <3>1 DEF LightRows
        <3>3. Past[k].at \in gone(Light)
            BY <3>1, <3>2 DEF LightRows
        <3> HIDE DEF gone
        <3> QED
            BY <1>1, <1>6, <3>3
    <2> QED
        BY <2>2, <2>3, <2>4
<1>8. /\ now' = now /\ now \in Nat /\ now <= now' /\ Everything' \subseteq Everything
      /\ OnTheWay' \subseteq OnTheWay /\ mem'[Light] \subseteq mem[Light]
    <2>1. ToSet(<<>>) = {}
        BY DEF ToSet
    <2>2. mem'[Light] \subseteq mem[Light]
        BY <1>1, <1>6 DEF Nothing
    <2> HIDE DEF gone
    <2> QED
        BY <1>1, <1>2, <2>1, <2>2 DEF HistoryTypeOK, OnTheWay
<1> HIDE DEF gone
<1>9. Timeline' /\ Authors' /\ RowsAreTrue' /\ WayIsShort' /\ MirrorIsTrue'
    BY <1>1, <1>8, HouseIsStill
<1> QED
    BY <1>4, <1>5, <1>7, <1>9

LEMMA PastFacts ==
    ASSUME HistoryInv
    PROVE  /\ Past \in Seq(Entries) /\ Len(Past) \in Nat \ {0} /\ DOMAIN Past = 1..Len(Past)
           /\ \A k \in DOMAIN Past : Past[k].at \in Nat /\ Past[k].at <= now
           /\ \A k \in DOMAIN Past : Past[Len(Past)].at <= Past[k].at => k = Len(Past)
           /\ now \in Nat /\ ha[Light] \in HouseStates /\ ha[Automation] \in HouseStates
           /\ ha[Light].at = Past[Len(Past)].at /\ ha[Light].state = Past[Len(Past)].state
           /\ ha[Light].ctx = Past[Len(Past)].by \/ Past[Len(Past)].touched
           /\ Light \in Recorded /\ Automation \in Recorded /\ Light # Automation
<1> USE DEF HistoryInv
<1>1. Light \in Recorded /\ Automation \in Recorded /\ Light # Automation
    BY HistoryAssumption DEF Recorded
<1>2. Past \in Seq(Entries) /\ Len(Past) \in Nat \ {0} /\ DOMAIN Past = 1..Len(Past)
    BY <1>1 DEF HistoryTypeOK, Past
<1>3. \A k \in DOMAIN Past : Past[k].at \in Nat /\ Past[k].at <= now
    <2>1. \A k \in DOMAIN Past : Past[k] \in Entries
        BY <1>2, ElementType
    <2> QED
        BY <2>1 DEF Entries, Timeline
<1>4. \A k \in DOMAIN Past : Past[Len(Past)].at <= Past[k].at => k = Len(Past)
    <2> SUFFICES ASSUME NEW k \in DOMAIN Past, k # Len(Past) PROVE Past[k].at < Past[Len(Past)].at
        BY <1>2, <1>3
    <2>1. k < Len(Past) /\ Len(Past) \in DOMAIN Past
        BY <1>2
    <2> QED
        BY <2>1 DEF Timeline
<1> QED
    BY <1>1, <1>2, <1>3, <1>4 DEF HistoryTypeOK, Timeline, Newest

\* What is known of an entity that is one change ahead differs from what it is.
LEMMA BehindDiffers ==
    ASSUME HistoryInv, Behind(Light), ha[Light].state # "gone"
    PROVE  Differs(Light)
<1> USE DEF HistoryInv
<1> DEFINE n == Len(Past)
<1>1. /\ Light \in Recorded /\ Past \in Seq(Entries) /\ n \in Nat /\ DOMAIN Past = 1..n
      /\ Past[n].state = ha[Light].state
    BY DEF HistoryTypeOK, Past, Recorded, Timeline, Newest
<1>2. PICK known \in Baseline(Light) : n > 1 /\ known.at = Past[n - 1].at
    BY DEF Behind, Past
<1>3. \A other \in Baseline(Light) : \E k \in DOMAIN Past :
        other.at = Past[k].at /\ other.state = Past[k].state
    <2>1. CASE mem = Nothing
        <3> SUFFICES ASSUME NEW i \in RowsOf(Light)
                     PROVE  \E k \in DOMAIN Past :
                                table[i].at = Past[k].at /\ table[i].state = Past[k].state
            BY <2>1 DEF Baseline, historyBaseline, Record
        <3>1. table[i] \in LightRows(Everything)
            BY DEF RowsOf, LightRows, Everything, ToSet
        <3> QED
            BY <3>1 DEF RowsAreTrue
    <2>2. CASE mem # Nothing
        BY <2>2 DEF Baseline, MirrorIsTrue
    <2> QED
        BY <2>1, <2>2
<1>4. \A one, other \in Baseline(Light) : one = other
    <2>1. CASE mem = Nothing
        <3>1. \A i, j \in RowsOf(Light) : i \in Nat /\ j \in Nat
            BY DEF RowsOf, HistoryTypeOK
        <3>2. \A i, j \in RowsOf(Light) : i <= j /\ j <= i => i = j
            BY <3>1
        <3> QED
            BY <2>1, <3>2 DEF Baseline, historyBaseline
    <2>2. CASE mem # Nothing
        BY <2>2 DEF Baseline, MirrorIsTrue
    <2> QED
        BY <2>1, <2>2
<1>5. \A k \in DOMAIN Past : Past[k].at = Past[n - 1].at => Past[k].state # Past[n].state
    <2>1. n - 1 \in DOMAIN Past /\ n - 1 < n /\ Past[n - 1].state # Past[n].state
        BY <1>1, <1>2 DEF Timeline
    <2>2. \A k \in DOMAIN Past : k < n - 1 \/ n - 1 < k \/ k = n - 1
        BY <1>1
    <2>3. \A k \in DOMAIN Past : Past[k].at \in Nat
        BY PastFacts
    <2> HIDE DEF n
    <2>4. \A k \in DOMAIN Past : k # n - 1 => Past[k].at # Past[n - 1].at
        BY <2>1, <2>2, <2>3 DEF Timeline
    <2> QED
        BY <2>1, <2>4
<1>6. known.state # ha[Light].state
    BY <1>1, <1>2, <1>3, <1>5
<1> QED
    BY <1>4, <1>6 DEF Differs

\* A row of Seed is of the last change, and whatever it no longer notes as untold has one.
LEMMA SeedStep ==
    ASSUME HistoryInv, Seed
    PROVE  HistoryInv'
<1> USE DEF HistoryInv
<1> DEFINE n == Len(Past)  row == StateRow(Light, ha[Light])
<1>1. /\ UNCHANGED <<now, ha, truth, up, queue, table, purge>> /\ up /\ seedRows = {}
      /\ mem' = [e \in Recorded |-> IF ha[e].state # "gone" THEN {Record(ha[e])} ELSE {}]
      /\ seedRows' = {StateRow(e, ha[e]) : e \in {f \in Recorded : ha[f].state # "gone" /\ Differs(f)}}
      /\ untold' = [e \in Recorded |->
            IF ha[e].state # "gone" /\ (Differs(e) \/ Behind(e)) THEN untold[e] \ {ha[e].at} ELSE untold[e]]
    <2>1. \A e \in Recorded : e \in {f \in Recorded : ha[f].state # "gone"} <=> ha[e].state # "gone"
        OBVIOUS
    <2>2. {f \in {e \in Recorded : ha[e].state # "gone"} : Differs(f)} =
            {f \in Recorded : ha[f].state # "gone" /\ Differs(f)}
        OBVIOUS
    <2> QED
        BY <2>1, <2>2, Zenon DEF Seed, houseVars
<1>2. Light \in Recorded /\ Automation \in Recorded /\ Light # Automation
    BY HistoryAssumption DEF Recorded
<1>3. \A e \in Recorded :
        /\ ha[e].state # "gone" => StateRow(e, ha[e]) \in TableRows /\ Record(ha[e]) \in Records
        /\ StateRow(e, ha[e]).entity = e /\ StateRow(e, ha[e]).state = ha[e].state
        /\ StateRow(e, ha[e]).at = ha[e].at /\ StateRow(e, ha[e]).ctx = ha[e].ctx
    BY DEF StateRow, Record, TableRows, Records, HouseStates, HistoryTypeOK
<1>4. \A r \in seedRows' : \E e \in Recorded : r = StateRow(e, ha[e]) /\ ha[e].state # "gone"
    BY <1>1
<1>5. \A r \in LightRows(seedRows') : r = row
    BY <1>3, <1>4 DEF LightRows
<1>6. row \in seedRows' <=> (ha[Light].state # "gone" /\ Differs(Light))
    <2>1. row \in seedRows' => \E e \in Recorded : row = StateRow(e, ha[e]) /\ ha[e].state # "gone" /\ Differs(e)
        BY <1>1
    <2>2. \A e \in Recorded : row = StateRow(e, ha[e]) => e = Light
        BY <1>2, <1>3
    <2> QED
        BY <1>1, <1>2, <2>1, <2>2
<1>7. HistoryTypeOK'
    <2>1. seedRows' \in SUBSET TableRows
        BY <1>3, <1>4
    <2>2. mem' \in [Recorded -> SUBSET Records]
        <3>1. \A e \in Recorded : (IF ha[e].state # "gone" THEN {Record(ha[e])} ELSE {}) \in SUBSET Records
            BY <1>3
        <3> QED
            BY <1>1, <3>1
    <2>3. untold' \in [Recorded -> SUBSET Nat]
        BY <1>1 DEF HistoryTypeOK
    <2> QED
        BY <1>1, <2>1, <2>2, <2>3 DEF HistoryTypeOK
<1>8. /\ now \in Nat /\ now <= now' /\ Past' = Past /\ Everything' = Everything \cup seedRows'
      /\ OnTheWay' = OnTheWay \cup seedRows'
    BY <1>1 DEF HistoryTypeOK, Past, Everything, OnTheWay
<1>9. Timeline' /\ Authors'
    BY <1>1, <1>8, HouseIsStill
<1>10. Past \in Seq(Entries) /\ n \in Nat \ {0} /\ DOMAIN Past = 1..n
    BY <1>2 DEF HistoryTypeOK, Past
<1>11. \A k \in DOMAIN Past : Past[k].at \in Nat
    <2>1. \A k \in DOMAIN Past : Past[k] \in Entries
        BY <1>10, ElementType
    <2> QED
        BY <2>1 DEF Entries
<1>12. n \in DOMAIN Past /\ Past[n].at = ha[Light].at /\ Past[n].state = ha[Light].state
          /\ (Past[n].by = ha[Light].ctx \/ Past[n].touched)
    BY <1>10 DEF Timeline, Newest
<1>13. row.at = Past[n].at /\ row.state = Past[n].state /\ row.ctx = ha[Light].ctx /\ row.entity = Light
    BY <1>2, <1>3, <1>12
<1>14. \A k \in DOMAIN Past : row.at <= Past[k].at => Past[k].at = Past[n].at
    <2> SUFFICES ASSUME NEW k \in DOMAIN Past, row.at <= Past[k].at PROVE Past[k].at = Past[n].at
        OBVIOUS
    <2>1. k = n \/ k < n
        BY <1>10
    <2>2. k < n => Past[k].at < Past[n].at
        BY <1>12 DEF Timeline
    <2> HIDE DEF row
    <2> QED
        BY <1>11, <1>12, <1>13, <2>1, <2>2
<1> HIDE DEF row
<1>15. RowsAreTrue'
    <2>1. ASSUME NEW r \in LightRows(Everything')
          PROVE  \E k \in DOMAIN Past :
                    /\ r.at = Past[k].at /\ r.state = Past[k].state
                    /\ r.ctx \in {NoContext, Device, Child}
                    /\ r.ctx = Past[k].by \/ Past[k].touched
        <3>1. CASE r \in Everything
            BY <2>1, <3>1 DEF RowsAreTrue, LightRows
        <3>2. CASE r \in seedRows'
            <4>1. r = row
                BY <1>5, <2>1, <3>2 DEF LightRows
            <4> QED
                BY <1>12, <1>13, <4>1 DEF Authors
        <3> QED
            BY <1>8, <2>1, <3>1, <3>2 DEF LightRows
    <2>2. ASSUME NEW r \in Everything', r.entity = Automation
          PROVE  r.ctx \in {NoContext, Run}
        <3>1. CASE r \in Everything
            BY <2>2, <3>1 DEF RowsAreTrue
        <3>2. CASE r \in seedRows'
            BY <1>2, <1>3, <1>4, <2>2, <3>2 DEF Authors
        <3> QED
            BY <1>8, <3>1, <3>2
    <2> QED
        BY <1>8, <2>1, <2>2 DEF RowsAreTrue, LightRows
<1>16. WayIsShort'
    <2> SUFFICES ASSUME NEW r \in LightRows(OnTheWay'), NEW k \in DOMAIN Past, r.at < Past[k].at
                 PROVE  Past[k].at = now
        BY <1>1, <1>8 DEF WayIsShort
    <2>1. CASE r \in OnTheWay
        BY <2>1 DEF WayIsShort, LightRows
    <2>2. CASE r \in seedRows'
        <3>1. r = row /\ row.at \in Nat
            BY <1>5, <1>11, <1>12, <1>13, <2>2 DEF LightRows
        <3>2. Past[k].at = Past[n].at
            BY <1>11, <1>14, <3>1
        <3> QED
            BY <1>11, <1>13, <3>1, <3>2
    <2> QED
        BY <1>8, <2>1, <2>2 DEF LightRows
<1>17. MirrorIsTrue'
    <2>1. \A known \in mem'[Light] : known = Record(ha[Light])
        BY <1>1, <1>2
    <2>2. Record(ha[Light]).at = Past[n].at /\ Record(ha[Light]).state = Past[n].state
        BY <1>12 DEF Record
    <2>3. \A one, other \in mem'[Light] : one = other
        BY <2>1
    <2>4. \A known \in mem'[Light] :
            \E k \in DOMAIN Past : known.at = Past[k].at /\ known.state = Past[k].state
        BY <1>12, <2>1, <2>2
    <2> QED
        BY <1>8, <2>3, <2>4 DEF MirrorIsTrue
<1>18. Watching'
    BY <1>1 DEF Watching
<1>19. NoGaps'
    <2> SUFFICES ASSUME NEW r \in LightRows(Everything'), NEW k \in DOMAIN Past, r.at <= Past[k].at
                 PROVE  \/ Past[k].at \in untold'[Light]
                        \/ \E other \in LightRows(Everything') : other.at = Past[k].at
        BY <1>8 DEF NoGaps
    <2>1. \A r1 \in LightRows(Everything) : r1 \in LightRows(Everything')
        BY <1>8 DEF LightRows
    <2>2. CASE row \in seedRows'
        <3>1. row \in LightRows(Everything')
            BY <1>8, <1>13, <2>2 DEF LightRows
        <3>2. CASE Past[k].at = Past[n].at
            BY <1>13, <3>1, <3>2
        <3>3. CASE Past[k].at # Past[n].at
            <4>1. r # row
                BY <1>14, <3>3
            <4>2. r \in LightRows(Everything)
                BY <1>5, <1>8, <4>1 DEF LightRows
            <4>3. Past[k].at \in untold[Light] \/ \E other \in LightRows(Everything) : other.at = Past[k].at
                BY <4>2 DEF NoGaps
            <4>4. Past[k].at \in untold[Light] => Past[k].at \in untold'[Light]
                BY <1>1, <1>2, <1>12, <3>3
            <4> QED
                BY <2>1, <4>3, <4>4
        <3> QED
            BY <3>2, <3>3
    <2>3. CASE row \notin seedRows'
        <3>1. ~(ha[Light].state # "gone" /\ (Differs(Light) \/ Behind(Light)))
            BY <1>6, <2>3, BehindDiffers
        <3>2. untold'[Light] = untold[Light]
            BY <1>1, <1>2, <3>1
        <3>3. r \in LightRows(Everything)
            BY <1>5, <1>8, <2>3 DEF LightRows
        <3> QED
            BY <2>1, <3>2, <3>3 DEF NoGaps
    <2> QED
        BY <2>2, <2>3
<1> QED
    BY <1>7, <1>9, <1>15, <1>16, <1>17, <1>18, <1>19

\* Which rows a DELETE takes: of one entity, those up to a second that is past.
LEMMA DeleteFacts ==
    ASSUME HistoryTypeOK, Delete
    PROVE  /\ purge.at \in Kept \cup {Rest} /\ table' \in Seq(TableRows)
           /\ \A row : row \in ToSet(table') <=> (row \in ToSet(table) /\ ~Expired(purge.at, row))
           /\ \A row \in ToSet(table) : row \in TableRows
           /\ \A row \in ToSet(table) : Expired(purge.at, row) =>
                Sec(row.at) <= Sec(now) - Window(row.entity) /\ Sec(row.at) < Sec(now)
           /\ \A row, other \in ToSet(table) :
                Expired(purge.at, other) /\ row.entity = other.entity /\ row.at <= other.at =>
                    Expired(purge.at, row)
<1> DEFINE left == {i \in DOMAIN table : ~Expired(purge.at, table[i])}
<1>1. table' = Remaining(left) /\ left \subseteq DOMAIN table
    BY DEF Delete
<1>2. table' \in Seq(TableRows) /\ ToSet(table') = {table[i] : i \in left}
    <2> HIDE DEF left
    <2> QED
        BY <1>1, RemainingRows
<1>3. \A row : row \in ToSet(table') <=> (row \in ToSet(table) /\ ~Expired(purge.at, row))
    BY <1>2 DEF ToSet
<1>4. purge.at \in Kept \cup {Rest}
    BY DEF Delete, HistoryTypeOK
<1>5. \A row \in ToSet(table) : row \in TableRows
    BY ElementType DEF ToSet, HistoryTypeOK
<1>6. \A row \in ToSet(table) : row.at \in Nat /\ row.entity \in Recorded /\ Sec(row.at) \in Int
    BY <1>5, DivisionFacts DEF TableRows
<1>7. Sec(purge.now) \in Int /\ Sec(now) \in Int /\ Sec(purge.now) <= Sec(now)
    BY SecondsGrow, DivisionFacts DEF HistoryTypeOK
<1>8. ASSUME NEW row \in ToSet(table), Expired(purge.at, row)
      PROVE  Sec(row.at) <= Sec(now) - Window(row.entity) /\ Sec(row.at) < Sec(now)
    <2>1. Claims(purge.at, row.entity) /\ Sec(row.at) <= Sec(purge.now) - Days(purge.at)
        BY <1>8 DEF Expired
    <2>2. Days(purge.at) = Window(row.entity) /\ Days(purge.at) \in Nat \ {0}
        BY <1>4, <1>6, <2>1, ClaimsWindow
    <2> QED
        BY <1>6, <1>7, <2>1, <2>2
<1>9. ASSUME NEW row \in ToSet(table), NEW other \in ToSet(table),
             Expired(purge.at, other), row.entity = other.entity, row.at <= other.at
      PROVE  Expired(purge.at, row)
    <2>1. Claims(purge.at, row.entity) /\ Sec(other.at) <= Sec(purge.now) - Days(purge.at)
        BY <1>9 DEF Expired
    <2>2. Sec(row.at) <= Sec(other.at)
        BY <1>6, <1>9, SecondsGrow
    <2>3. Days(purge.at) \in Int
        BY <1>4, <1>6, <2>1, ClaimsWindow
    <2>4. Sec(row.at) <= Sec(purge.now) - Days(purge.at)
        BY <1>6, <1>7, <2>1, <2>2, <2>3
    <2> QED
        BY <2>1, <2>4 DEF Expired
<1> QED
    BY <1>2, <1>3, <1>4, <1>5, <1>8, <1>9

LEMMA DeleteStep ==
    ASSUME HistoryInv, Delete
    PROVE  HistoryInv'
<1> USE DEF HistoryInv
<1>1. /\ UNCHANGED <<now, ha, truth, up, mem, seedRows, queue, untold>> /\ up
      /\ purge' = IF purge.at = Rest THEN Idle ELSE [purge EXCEPT !.at = After(purge.at)]
    BY DEF Delete, houseVars
<1>2. /\ purge.at \in Kept \cup {Rest} /\ table' \in Seq(TableRows)
      /\ \A row : row \in ToSet(table') <=> (row \in ToSet(table) /\ ~Expired(purge.at, row))
      /\ \A row \in ToSet(table) : row \in TableRows
      /\ \A row \in ToSet(table) : Expired(purge.at, row) => Sec(row.at) < Sec(now)
      /\ \A row, other \in ToSet(table) :
            Expired(purge.at, other) /\ row.entity = other.entity /\ row.at <= other.at =>
                Expired(purge.at, row)
    BY DeleteFacts
<1>3. HistoryTypeOK'
    <2>1. purge' \in [at : Kept \cup {0, Rest}, now : Nat] /\ purge'.now <= now'
        <3>1. CASE purge.at = Rest
            BY <1>1, <3>1 DEF HistoryTypeOK, Idle
        <3>2. CASE purge.at # Rest
            <4>1. After(purge.at) \in Kept \cup {Rest}
                BY <1>2, <3>2, Rounds
            <4> QED
                BY <1>1, <3>2, <4>1 DEF HistoryTypeOK
        <3> QED
            BY <3>1, <3>2
    <2> QED
        BY <1>1, <1>2, <2>1 DEF HistoryTypeOK
<1>4. /\ OnTheWay' = OnTheWay /\ Everything = OnTheWay \cup ToSet(table)
      /\ Everything' = OnTheWay \cup ToSet(table')
    BY <1>1 DEF OnTheWay, Everything
<1>5. now \in Nat /\ now' = now /\ now <= now' /\ Everything' \subseteq Everything /\ Past' = Past
    BY <1>1, <1>2, <1>4 DEF HistoryTypeOK, Past
<1>6. Timeline' /\ Authors' /\ RowsAreTrue' /\ WayIsShort' /\ MirrorIsTrue'
    BY <1>1, <1>4, <1>5, HouseIsStill
<1>7. Watching'
    BY <1>1 DEF Watching
<1>8. NoGaps'
    <2> SUFFICES ASSUME NEW row \in LightRows(Everything'), NEW k \in DOMAIN Past,
                        row.at <= Past[k].at, Past[k].at \notin untold[Light]
                 PROVE  \E other \in LightRows(Everything') : other.at = Past[k].at
        BY <1>1, <1>5 DEF NoGaps
    <2>1. row \in LightRows(Everything)
        BY <1>5 DEF LightRows
    <2>2. PICK other \in LightRows(Everything) : other.at = Past[k].at
        BY <2>1 DEF NoGaps
    <2>3. SUFFICES ASSUME other \notin Everything', row.at # Past[k].at PROVE FALSE
        BY <2>2 DEF LightRows
    <2>4. other \in ToSet(table) /\ Expired(purge.at, other) /\ other.entity = Light
        BY <1>2, <1>4, <2>2, <2>3 DEF LightRows
    <2>5. Sec(other.at) < Sec(now) /\ Sec(now) \in Int
        BY <1>2, <1>5, <2>4, DivisionFacts
    <2>6. CASE row \in OnTheWay
        <3>1. row.at \in Nat /\ other.at \in Nat
            <4>1. row \in TableRows /\ other \in TableRows
                BY <1>2, <2>4, <2>6, ElementType DEF OnTheWay, HistoryTypeOK, ToSet
            <4> QED
                BY <4>1 DEF TableRows
        <3>2. row.at < Past[k].at
            BY <2>2, <2>3, <3>1
        <3>3. Past[k].at = now
            BY <2>6, <3>2 DEF WayIsShort, LightRows
        <3> QED
            BY <2>2, <2>5, <3>3
    <2>7. CASE row \in ToSet(table')
        BY <1>2, <2>1, <2>2, <2>4, <2>7 DEF LightRows
    <2> QED
        BY <1>4, <2>6, <2>7 DEF LightRows
<1> QED
    BY <1>3, <1>6, <1>7, <1>8

\* Where a row of a write goes.
LEMMA WriteWay ==
    ASSUME UNCHANGED <<seedRows, table>>, NEW new, ToSet(queue') = ToSet(queue) \cup new
    PROVE  OnTheWay' = OnTheWay \cup new /\ Everything' = Everything \cup new
BY DEF OnTheWay, Everything

\* A change of the light, or its removal: it has its row, or is noted as untold.
LEMMA ChangeStep ==
    ASSUME HistoryInv, NEW heard \in BOOLEAN, NEW new \in HouseStates, Write(Light, new, heard),
           new.state # ha[Light].state, new.at = now, ha[Light].at < now,
           new.ctx \in {Device, Child}
    PROVE  HistoryInv'
<1> DEFINE n == Len(Past)
<1>1. PICK row : row = StateRow(Light, new)
    OBVIOUS
<1>2. PICK entry : entry = Entry(new)
    OBVIOUS
<1> DEFINE recorded == heard /\ new.state # "gone"
<1>3. PICK own : own = IF recorded THEN {row} ELSE {}
    OBVIOUS
<1>4. own \subseteq {row} /\ (recorded => row \in own)
    BY <1>3
<1>5. PICK s, ctx : s = new.state /\ ctx = new.ctx
    OBVIOUS
<1>6. ctx \in {Device, Child} /\ s # ha[Light].state
    BY <1>5
<1>7. row.entity = Light /\ row.state = s /\ row.at = now /\ row.ctx = ctx
    BY <1>1, <1>5 DEF StateRow
<1>8. entry.at = now /\ entry.state = s /\ entry.by = ctx
    BY <1>2, <1>5 DEF Entry
<1>9. /\ entry \in Entries /\ HistoryTypeOK' /\ ha' = [ha EXCEPT ![Light] = new]
      /\ Past' = Append(Past, entry)
      /\ ToSet(queue') = ToSet(queue) \cup own
      /\ untold'[Light] = IF recorded THEN untold[Light] \ {now} ELSE untold[Light] \cup {now}
      /\ mem'[Light] \in {mem[Light], {}, {Record(new)}}
      /\ ~up => queue' = queue
      /\ UNCHANGED <<now, up, seedRows, table>>
    <2>1. HistoryTypeOK /\ Light \in Recorded
        BY PastFacts DEF HistoryInv
    <2>2. Written(Light, new, heard)
        BY <2>1, WriteFacts
    <2> QED
        BY <1>1, <1>2, <1>3, <2>2 DEF Written, Past
<1> HIDE DEF recorded
<1>10. /\ DOMAIN Past' = 1..(n + 1) /\ Len(Past') = n + 1 /\ Past'[n + 1] = entry
       /\ \A k \in 1..n : Past'[k] = Past[k]
       /\ \A k \in DOMAIN Past' : k \in 1..n \/ k = n + 1
    BY <1>9, PastFacts
<1>11. /\ OnTheWay' = OnTheWay \cup own
       /\ Everything' = Everything \cup own
    BY <1>9, WriteWay
<1>12. ha'[Light] = new /\ ha'[Automation] = ha[Automation]
    BY <1>9, PastFacts DEF HistoryInv, HistoryTypeOK
<1>13. \A k \in 1..n : k \in DOMAIN Past /\ Past[k].at \in Nat /\ Past[k].at < now
    <2> TAKE k \in 1..n
    <2>1. k \in DOMAIN Past /\ n \in DOMAIN Past /\ Past[n].at < now
        BY PastFacts
    <2>2. k < n => Past[k].at < Past[n].at
        BY <2>1 DEF HistoryInv, Timeline
    <2> QED
        BY <2>1, <2>2, PastFacts
<1> HIDE DEF n
<1>14. Timeline'
    <2>1. \A k \in DOMAIN Past' : Past'[k].at <= now
        BY <1>8, <1>10, <1>13, PastFacts
    <2>2. \A k, m \in DOMAIN Past' : k < m => Past'[k].at < Past'[m].at
        <3> SUFFICES ASSUME NEW k \in DOMAIN Past', NEW m \in DOMAIN Past', k < m
                     PROVE  Past'[k].at < Past'[m].at
            OBVIOUS
        <3>1. k \in 1..n
            BY <1>10, PastFacts DEF n
        <3>2. CASE m = n + 1
            BY <1>8, <1>10, <1>13, <3>1, <3>2
        <3>3. CASE m \in 1..n
            <4>1. Past[k].at < Past[m].at
                BY <1>13, <3>1, <3>3 DEF HistoryInv, Timeline
            <4> QED
                BY <1>10, <3>1, <3>3, <4>1
        <3> QED
            BY <1>10, <3>2, <3>3
    <2>3. \A k \in DOMAIN Past' : k < Len(Past') => Past'[k].state # Past'[k + 1].state
        <3> SUFFICES ASSUME NEW k \in 1..n PROVE Past'[k].state # Past'[k + 1].state
            BY <1>10, PastFacts DEF n
        <3>1. CASE k = n
            BY <1>6, <1>8, <1>10, <3>1, PastFacts DEF n
        <3>2. CASE k # n
            <4>1. k < n /\ k + 1 \in 1..n
                <5>1. k \in Nat /\ n \in Nat /\ k <= n
                    BY PastFacts DEF n
                <5> QED
                    BY <3>2, <5>1
            <4>2. Past[k].state # Past[k + 1].state
                BY <1>13, <4>1 DEF HistoryInv, Timeline, n
            <4> QED
                BY <1>10, <4>1, <4>2
        <3> QED
            BY <3>1, <3>2
    <2>4. Newest' = entry
        BY <1>10 DEF Newest
    <2> QED
        BY <1>5, <1>8, <1>9, <1>12, <2>1, <2>2, <2>3, <2>4 DEF Timeline
<1>15. Authors'
    <2>1. \A k \in DOMAIN Past' : Past'[k].by \in {NoContext, Device, Child}
        BY <1>6, <1>8, <1>10, <1>13 DEF HistoryInv, Authors
    <2> QED
        BY <1>12, <2>1 DEF HistoryInv, Authors
<1>16. RowsAreTrue'
    <2>1. ASSUME NEW r \in LightRows(Everything')
          PROVE  \E k \in DOMAIN Past' :
                    /\ r.at = Past'[k].at /\ r.state = Past'[k].state
                    /\ r.ctx \in {NoContext, Device, Child}
                    /\ r.ctx = Past'[k].by \/ Past'[k].touched
        <3>1. CASE r \in Everything
            <4>1. PICK k \in DOMAIN Past :
                    /\ r.at = Past[k].at /\ r.state = Past[k].state
                    /\ r.ctx \in {NoContext, Device, Child}
                    /\ r.ctx = Past[k].by \/ Past[k].touched
                BY <2>1, <3>1 DEF HistoryInv, RowsAreTrue, LightRows
            <4>2. k \in 1..n /\ k \in DOMAIN Past' /\ Past'[k] = Past[k]
                BY <1>10, PastFacts DEF n
            <4> QED
                BY <4>1, <4>2
        <3>2. CASE r = row
            <4>1. n + 1 \in DOMAIN Past'
                BY <1>10, PastFacts DEF n
            <4> QED
                BY <1>6, <1>7, <1>8, <1>10, <3>2, <4>1
        <3> QED
            BY <1>11, <1>4, <2>1, <3>1, <3>2 DEF LightRows
    <2>2. \A r \in Everything' : r.entity = Automation => r.ctx \in {NoContext, Run}
        BY <1>7, <1>11, <1>4, PastFacts DEF HistoryInv, RowsAreTrue
    <2> QED
        BY <2>1, <2>2 DEF RowsAreTrue
<1>17. WayIsShort'
    <2> SUFFICES ASSUME NEW r \in LightRows(OnTheWay'), NEW k \in DOMAIN Past', r.at < Past'[k].at
                 PROVE  Past'[k].at = now
        BY <1>9 DEF WayIsShort
    <2>1. CASE k = n + 1
        BY <1>8, <1>10, <2>1
    <2>2. CASE k \in 1..n /\ r \in OnTheWay
        BY <1>10, <1>13, <2>2 DEF HistoryInv, WayIsShort, LightRows
    <2>3. CASE k \in 1..n /\ r = row
        BY <1>7, <1>10, <1>13, <2>3, PastFacts
    <2> QED
        BY <1>4, <1>10, <1>11, <2>1, <2>2, <2>3 DEF LightRows
<1>18. NoGaps'
    <2> SUFFICES ASSUME NEW r \in LightRows(Everything'), NEW k \in DOMAIN Past', r.at <= Past'[k].at
                 PROVE  \/ Past'[k].at \in untold'[Light]
                        \/ \E other \in LightRows(Everything') : other.at = Past'[k].at
        BY <1>9 DEF NoGaps
    <2>1. CASE k = n + 1
        <3>1. Past'[k].at = now
            BY <1>8, <1>10, <2>1
        <3>2. CASE recorded
            <4>1. row \in LightRows(Everything')
                BY <1>7, <1>11, <1>4, <3>2 DEF LightRows
            <4> QED
                BY <1>7, <3>1, <4>1
        <3>3. CASE ~recorded
            BY <1>9, <3>1, <3>3
        <3> QED
            BY <3>2, <3>3
    <2>2. CASE k \in 1..n /\ r \in Everything
        <3>1. \/ Past[k].at \in untold[Light]
              \/ \E other \in LightRows(Everything) : other.at = Past[k].at
            BY <1>10, <1>13, <2>2 DEF HistoryInv, NoGaps, LightRows
        <3>2. Past'[k] = Past[k] /\ Past[k].at # now
            BY <1>10, <1>13, <2>2, PastFacts
        <3> QED
            BY <1>9, <1>11, <3>1, <3>2 DEF LightRows
    <2>3. CASE k \in 1..n /\ r = row
        BY <1>7, <1>10, <1>13, <2>3, PastFacts
    <2> QED
        BY <1>4, <1>10, <1>11, <2>1, <2>2, <2>3 DEF LightRows
<1>19. Watching'
    BY <1>9 DEF HistoryInv, Watching
<1>20. MirrorIsTrue'
    <2>1. n + 1 \in DOMAIN Past' /\ Record(new).at = Past'[n + 1].at
          /\ Record(new).state = Past'[n + 1].state
        BY <1>5, <1>8, <1>10, PastFacts DEF Record, n
    <2>2. \A k \in DOMAIN Past : k \in DOMAIN Past' /\ Past'[k] = Past[k]
        BY <1>10, PastFacts DEF n
    <2>3. CASE mem'[Light] = mem[Light]
        BY <2>2, <2>3 DEF HistoryInv, MirrorIsTrue
    <2>4. CASE mem'[Light] = {} \/ mem'[Light] = {Record(new)}
        BY <2>1, <2>4 DEF MirrorIsTrue
    <2> QED
        BY <1>9, <2>3, <2>4
<1> QED
    BY <1>9, <1>14, <1>15, <1>16, <1>17, <1>18, <1>19, <1>20 DEF HistoryInv

\* What Home Assistant does to the light.
LEMMA LightStep ==
    ASSUME HistoryInv, NEW heard \in BOOLEAN, ChangeLight(heard) \/ RemoveLight(heard)
    PROVE  HistoryInv'
<1>1. PICK s \in States \cup {"gone"}, ctx \in {Device, Child} :
        /\ s # ha[Light].state /\ ha[Light].at < now
        /\ Write(Light, [ha[Light] EXCEPT !.state = s, !.at = now, !.ctx = ctx], heard)
    BY DEF ChangeLight, RemoveLight
<1>2. PICK new : new = [ha[Light] EXCEPT !.state = s, !.at = now, !.ctx = ctx]
    OBVIOUS
<1>3. new \in HouseStates /\ new.state = s /\ new.at = now /\ new.ctx = ctx
    BY <1>1, <1>2, PastFacts DEF HouseStates, Contexts
<1>4. Write(Light, new, heard)
    BY <1>1, <1>2
<1> QED
    BY <1>1, <1>3, <1>4, ChangeStep

LEMMA TouchStep ==
    ASSUME HistoryInv, NEW heard \in BOOLEAN, TouchLight(heard)
    PROVE  HistoryInv'
<1> DEFINE n == Len(Past)
<1>1. PICK new : new = [ha[Light] EXCEPT !.attrs = 1 - @, !.ctx = Device]
    OBVIOUS
<1>2. /\ new \in HouseStates /\ new.state = ha[Light].state /\ new.at = ha[Light].at
      /\ new.ctx = Device /\ new.state # "gone"
    <2>1. ha[Light].attrs \in {0, 1} /\ 1 - ha[Light].attrs \in {0, 1}
        BY PastFacts DEF HouseStates
    <2> QED
        BY <1>1, <2>1, PastFacts DEF HouseStates, Contexts, TouchLight
<1>3. PICK row : row = StateRow(Light, new)
    OBVIOUS
<1>4. row.entity = Light /\ row.state = Past[n].state /\ row.at = Past[n].at /\ row.ctx = Device
    BY <1>2, <1>3, PastFacts DEF StateRow
<1>5. /\ HistoryTypeOK' /\ ha' = [ha EXCEPT ![Light] = new]
      /\ Len(Past') = n
      /\ \A k \in DOMAIN Past :
            /\ Past'[k].at = Past[k].at /\ Past'[k].state = Past[k].state /\ Past'[k].by = Past[k].by
            /\ Past'[k].touched = (k = n \/ Past[k].touched)
      /\ ToSet(queue') = ToSet(queue) \cup IF heard THEN {row} ELSE {}
      /\ untold'[Light] = IF heard THEN untold[Light] \ {row.at} ELSE untold[Light]
      /\ mem'[Light] \in {mem[Light], {}, {Record(new)}}
      /\ ~up => queue' = queue
      /\ UNCHANGED <<now, up, seedRows, table>>
    <2>1. HistoryTypeOK /\ Light \in Recorded /\ Write(Light, new, heard) /\ heard = (heard /\ new.state # "gone")
        BY <1>1, <1>2, PastFacts DEF HistoryInv, TouchLight
    <2>2. Written(Light, new, heard)
        BY <1>2, <2>1, WriteFacts
    <2>3. /\ HistoryTypeOK' /\ ha' = [ha EXCEPT ![Light] = new]
          /\ ToSet(queue') = ToSet(queue) \cup IF heard THEN {row} ELSE {}
          /\ untold'[Light] = IF heard THEN untold[Light] \ {new.at}
                  ELSE IF new.state # ha[Light].state THEN untold[Light] \cup {now} ELSE untold[Light]
          /\ mem'[Light] \in {mem[Light], {}, {Record(new)}}
          /\ ~up => queue' = queue
          /\ UNCHANGED <<now, up, seedRows, table>>
        BY <1>2, <1>3, <2>2 DEF Written
    <2>4. new.state = ha[Light].state =>
            /\ Len(truth'[Light]) = Len(truth[Light])
            /\ \A k \in DOMAIN truth[Light] :
                 /\ truth'[Light][k].at = truth[Light][k].at
                 /\ truth'[Light][k].state = truth[Light][k].state
                 /\ truth'[Light][k].by = truth[Light][k].by
                 /\ truth'[Light][k].touched = (k = Len(truth[Light]) \/ truth[Light][k].touched)
        BY <1>2, <1>3, <2>2 DEF Written
    <2>5. untold'[Light] = IF heard THEN untold[Light] \ {row.at} ELSE untold[Light]
        BY <1>2, <1>4, <2>3, PastFacts
    <2> QED
        BY <1>2, <2>3, <2>5, <2>4 DEF Past
<1>6. /\ OnTheWay' = OnTheWay \cup IF heard THEN {row} ELSE {}
      /\ Everything' = Everything \cup IF heard THEN {row} ELSE {}
    BY <1>5, WriteWay
<1>7. ha'[Light] = new /\ ha'[Automation] = ha[Automation]
    BY <1>5, PastFacts DEF HistoryInv, HistoryTypeOK
<1>8. DOMAIN Past' = DOMAIN Past /\ n \in DOMAIN Past /\ DOMAIN Past = 1..n /\ n \in Nat \ {0}
    <2>1. Past' \in Seq(Entries)
        BY <1>5, PastFacts DEF HistoryTypeOK, Past
    <2>2. DOMAIN Past' = 1..Len(Past')
        BY <2>1
    <2> QED
        BY <1>5, <2>2, PastFacts
<1> HIDE DEF n
<1>9. Timeline'
    <2>1. Newest' = Past'[n]
        BY <1>5 DEF Newest
    <2>2. Newest'.at = ha'[Light].at /\ Newest'.state = ha'[Light].state /\ Newest'.touched
        BY <1>2, <1>5, <1>7, <1>8, <2>1, PastFacts DEF n
    <2>3. \A k \in DOMAIN Past' : k < n => k + 1 \in DOMAIN Past
        BY <1>8
    <2> QED
        BY <1>5, <1>8, <2>2, <2>3 DEF HistoryInv, Timeline, n
<1>10. Authors'
    BY <1>2, <1>5, <1>7, <1>8 DEF HistoryInv, Authors
<1>11. RowsAreTrue'
    <2>1. ASSUME NEW r \in LightRows(Everything')
          PROVE  \E k \in DOMAIN Past' :
                    /\ r.at = Past'[k].at /\ r.state = Past'[k].state
                    /\ r.ctx \in {NoContext, Device, Child}
                    /\ r.ctx = Past'[k].by \/ Past'[k].touched
        <3>1. CASE r \in Everything
            <4>1. PICK k \in DOMAIN Past :
                    /\ r.at = Past[k].at /\ r.state = Past[k].state
                    /\ r.ctx \in {NoContext, Device, Child}
                    /\ r.ctx = Past[k].by \/ Past[k].touched
                BY <2>1, <3>1 DEF HistoryInv, RowsAreTrue, LightRows
            <4> QED
                BY <1>5, <1>8, <4>1
        <3>2. CASE r = row
            BY <1>4, <1>5, <1>8, <3>2
        <3> QED
            BY <1>6, <2>1, <3>1, <3>2 DEF LightRows
    <2>2. \A r \in Everything' : r.entity = Automation => r.ctx \in {NoContext, Run}
        BY <1>4, <1>6, PastFacts DEF HistoryInv, RowsAreTrue
    <2> QED
        BY <2>1, <2>2 DEF RowsAreTrue
<1>12. WayIsShort'
    <2> SUFFICES ASSUME NEW r \in LightRows(OnTheWay'), NEW k \in DOMAIN Past, r.at < Past[k].at
                 PROVE  Past[k].at = now
        BY <1>5, <1>8 DEF WayIsShort
    <2>1. CASE r \in OnTheWay
        BY <2>1 DEF HistoryInv, WayIsShort, LightRows
    <2>2. CASE r = row
        BY <1>4, <1>8, <2>2, PastFacts DEF n
    <2> QED
        BY <1>6, <2>1, <2>2 DEF LightRows
<1>13. NoGaps'
    <2> SUFFICES ASSUME NEW r \in LightRows(Everything'), NEW k \in DOMAIN Past, r.at <= Past[k].at
                 PROVE  \/ Past[k].at \in untold'[Light]
                        \/ \E other \in LightRows(Everything') : other.at = Past[k].at
        BY <1>5, <1>8 DEF NoGaps
    <2>1. CASE heard /\ Past[k].at = row.at
        <3>1. row \in LightRows(Everything')
            BY <1>4, <1>6, <2>1 DEF LightRows
        <3> QED
            BY <2>1, <3>1
    <2>2. CASE r \in Everything /\ ~(heard /\ Past[k].at = row.at)
        <3>1. \/ Past[k].at \in untold[Light]
              \/ \E other \in LightRows(Everything) : other.at = Past[k].at
            BY <2>2 DEF HistoryInv, NoGaps, LightRows
        <3>2. Past[k].at \in untold[Light] => Past[k].at \in untold'[Light]
            BY <1>5, <2>2
        <3> QED
            BY <1>6, <3>1, <3>2 DEF LightRows
    <2>3. CASE r \notin Everything
        <3>1. heard /\ r = row
            BY <1>6, <2>3 DEF LightRows
        <3>2. k = n
            BY <1>4, <3>1, PastFacts DEF n
        <3> QED
            BY <1>4, <2>1, <3>1, <3>2
    <2> QED
        BY <2>1, <2>2, <2>3
<1>14. Watching'
    BY <1>5 DEF HistoryInv, Watching
<1>15. MirrorIsTrue'
    <2>1. n \in DOMAIN Past' /\ Record(new).at = Past'[n].at /\ Record(new).state = Past'[n].state
        BY <1>2, <1>5, <1>8, PastFacts DEF Record, n
    <2>2. CASE mem'[Light] = mem[Light]
        BY <1>5, <1>8, <2>2 DEF HistoryInv, MirrorIsTrue
    <2>3. CASE mem'[Light] = {} \/ mem'[Light] = {Record(new)}
        BY <2>1, <2>3 DEF MirrorIsTrue
    <2> QED
        BY <1>5, <2>2, <2>3
<1> QED
    BY <1>5, <1>9, <1>10, <1>11, <1>12, <1>13, <1>14, <1>15 DEF HistoryInv

LEMMA RunStep ==
    ASSUME HistoryInv, NEW heard \in BOOLEAN, RunAutomation(heard)
    PROVE  HistoryInv'
<1>1. PICK new : new = [ha[Automation] EXCEPT !.attrs = 1, !.ctx = Run]
    OBVIOUS
<1>2. new \in HouseStates /\ new.state = ha[Automation].state /\ new.ctx = Run
    BY <1>1, PastFacts DEF HouseStates, Contexts
<1>3. PICK row : row = StateRow(Automation, new)
    OBVIOUS
<1>4. row.entity = Automation /\ row.ctx = Run
    BY <1>2, <1>3 DEF StateRow
<1> DEFINE recorded == heard /\ new.state # "gone"
<1>5. /\ HistoryTypeOK' /\ ha' = [ha EXCEPT ![Automation] = new]
      /\ Past' = Past /\ untold'[Light] = untold[Light] /\ mem'[Light] = mem[Light]
      /\ ToSet(queue') = ToSet(queue) \cup IF recorded THEN {row} ELSE {}
      /\ ~up => queue' = queue
      /\ UNCHANGED <<now, up, seedRows, table>>
    <2>1. /\ HistoryTypeOK /\ Automation \in Recorded /\ Write(Automation, new, heard)
          /\ Light \in Recorded \ {Automation}
        BY <1>1, PastFacts DEF HistoryInv, RunAutomation
    <2>2. /\ HistoryTypeOK' /\ ha' = [ha EXCEPT ![Automation] = new]
          /\ \A f \in Recorded \ {Automation} : truth'[f] = truth[f] /\ untold'[f] = untold[f] /\ mem'[f] = mem[f]
          /\ ToSet(queue') = ToSet(queue) \cup IF recorded THEN {row} ELSE {}
          /\ ~up => queue' = queue
          /\ UNCHANGED <<now, up, seedRows, table>>
        <3>1. Written(Automation, new, heard)
            BY <1>2, <2>1, WriteFacts
        <3> QED
            BY <1>3, <3>1 DEF Written
    <2> QED
        BY <2>1, <2>2 DEF Past
<1>6. /\ OnTheWay' = OnTheWay \cup IF recorded THEN {row} ELSE {}
      /\ Everything' = Everything \cup IF recorded THEN {row} ELSE {}
    BY <1>5, WriteWay
<1>7. ha'[Automation] = new /\ ha'[Light] = ha[Light] /\ Newest' = Newest
    BY <1>5, PastFacts DEF HistoryInv, HistoryTypeOK, Newest
<1>8. LightRows(OnTheWay') = LightRows(OnTheWay) /\ LightRows(Everything') = LightRows(Everything)
    BY <1>4, <1>6, PastFacts DEF LightRows
<1>9. Timeline' /\ Authors'
    BY <1>2, <1>5, <1>7 DEF HistoryInv, Timeline, Authors
<1>10. RowsAreTrue'
    <2>1. \A r \in Everything' : r.entity = Automation => r.ctx \in {NoContext, Run}
        BY <1>4, <1>6 DEF HistoryInv, RowsAreTrue
    <2> QED
        BY <1>5, <1>8, <2>1 DEF HistoryInv, RowsAreTrue
<1>11. WayIsShort' /\ NoGaps' /\ MirrorIsTrue'
    BY <1>5, <1>8 DEF HistoryInv, WayIsShort, NoGaps, MirrorIsTrue
<1>12. Watching'
    BY <1>5 DEF HistoryInv, Watching
<1> QED
    BY <1>5, <1>9, <1>10, <1>11, <1>12 DEF HistoryInv

LEMMA HistoryInitInv == HistoryInit => HistoryInv
<1> SUFFICES ASSUME HistoryInit PROVE HistoryInv
    OBVIOUS
<1> DEFINE entry == [at |-> 0, state |-> "off", by |-> NoContext, touched |-> FALSE]
           house == [state |-> "off", attrs |-> 0, at |-> 0, ctx |-> NoContext]
<1>1. Light \in Recorded /\ Automation \in Recorded /\ Light # Automation
    BY HistoryAssumption DEF Recorded
<1>2. entry \in Entries /\ house \in HouseStates
    BY DEF Entries, HouseStates, States, Contexts
<1>3. ha = [e \in Recorded |-> house] /\ truth = [e \in Recorded |-> <<entry>>]
    BY DEF HistoryInit
<1>4. /\ entry.at = 0 /\ entry.state = "off" /\ entry.by = NoContext
      /\ house.at = 0 /\ house.state = "off" /\ house.ctx = NoContext
    OBVIOUS
<1> HIDE DEF entry, house
<1>5. Past = <<entry>> /\ ha[Light] = house /\ ha[Automation] = house /\ DOMAIN Past = {1}
      /\ Len(Past) = 1 /\ Past[1] = entry /\ Newest = entry
    BY <1>1, <1>3 DEF Past, Newest
<1>6. \A e \in Recorded :
        /\ StateRow(e, ha[e]) \in TableRows /\ StateRow(e, ha[e]).entity = e /\ StateRow(e, ha[e]).state = "off"
        /\ StateRow(e, ha[e]).at = 0 /\ StateRow(e, ha[e]).ctx = NoContext
    BY <1>2, <1>3, <1>4 DEF StateRow, TableRows, HouseStates, States
<1>7. table = <<StateRow(Light, ha[Light]), StateRow(Automation, ha[Automation])>> /\ now = 0
    BY DEF HistoryInit
<1>8. table \in Seq(TableRows) /\ ToSet(table) = {StateRow(Light, ha[Light]), StateRow(Automation, ha[Automation])}
    BY <1>1, <1>6, <1>7 DEF ToSet
<1>9. /\ seedRows = {} /\ queue = <<>> /\ purge = Idle /\ untold = Nothing /\ up \in BOOLEAN
      /\ mem = IF up THEN [e \in Recorded |-> {Record(ha[e])}] ELSE Nothing
    BY DEF HistoryInit
<1>10. OnTheWay = {} /\ Everything = {StateRow(Light, ha[Light]), StateRow(Automation, ha[Automation])}
    <2>1. ToSet(queue) = {}
        BY <1>9 DEF ToSet
    <2> QED
        BY <1>8, <1>9, <2>1 DEF OnTheWay, Everything
<1>11. HistoryTypeOK
    <2>1. truth \in [Recorded -> Seq(Entries)] /\ \A e \in Recorded : truth[e] # <<>>
        BY <1>2, <1>3
    <2>2. ha \in [Recorded -> HouseStates] /\ untold \in [Recorded -> SUBSET Nat]
        BY <1>2, <1>3, <1>9 DEF Nothing
    <2>3. mem \in [Recorded -> SUBSET Records]
        <3>1. \A e \in Recorded : Record(ha[e]) \in Records
            BY <1>2, <1>3, <1>4 DEF Record, Records, States, HouseStates
        <3>2. Nothing \in [Recorded -> SUBSET Records]
            BY DEF Nothing
        <3>3. [e \in Recorded |-> {Record(ha[e])}] \in [Recorded -> SUBSET Records]
            BY <3>1
        <3> QED
            BY <1>9, <3>2, <3>3
    <2>4. purge \in [at : Kept \cup {0, Rest}, now : Nat] /\ purge.now <= now
        BY <1>7, <1>9 DEF Idle
    <2>5. up \in BOOLEAN
        BY DEF HistoryInit
    <2>6. seedRows \in SUBSET TableRows /\ queue \in Seq(TableRows)
        BY <1>9
    <2> QED
        BY <1>7, <1>8, <2>1, <2>2, <2>4, <2>5, <2>6, <2>3 DEF HistoryTypeOK
<1>12. Timeline /\ Authors
    BY <1>4, <1>5, <1>7 DEF Timeline, Authors
<1>13. RowsAreTrue
    BY <1>1, <1>4, <1>5, <1>6, <1>10 DEF RowsAreTrue, LightRows
<1>14. WayIsShort /\ NoGaps
    BY <1>1, <1>4, <1>5, <1>6, <1>10 DEF WayIsShort, NoGaps, LightRows
<1>15. Watching
    BY <1>9 DEF Watching
<1>16. MirrorIsTrue
    <2>1. Record(ha[Light]).at = 0 /\ Record(ha[Light]).state = "off"
        BY <1>4, <1>5 DEF Record
    <2>2. mem[Light] = {} \/ mem[Light] = {Record(ha[Light])}
        BY <1>1, <1>9 DEF Nothing
    <2> QED
        BY <1>4, <1>5, <2>1, <2>2 DEF MirrorIsTrue
<1> QED
    BY <1>11, <1>12, <1>13, <1>14, <1>15, <1>16 DEF HistoryInv

LEMMA HistoryNextInv == HistoryInv /\ [HistoryNext]_historyVars => HistoryInv'
BY IdleStep, LightStep, TouchStep, RunStep, MoveStep, LostRowsStep, SeedStep, DeleteStep
DEF HistoryNext

\* No DELETE, at whatever time of its run, takes a row within the window of the first
\* rule that is for the entity: for any rules, windows and times.
THEOREM WindowsAreKept == HistorySpec => PurgeKeepsWindows
<1>1. HistoryInit => HistoryInv
    BY HistoryInitInv
<1>2. HistoryInv /\ [HistoryNext]_historyVars => HistoryInv'
    BY HistoryNextInv
<1>3. ASSUME HistoryInv, [HistoryNext]_historyVars
      PROVE  [\A row \in ToSet(table) \ ToSet(table') :
                Sec(row.at) <= Sec(now) - Window(row.entity)]_historyVars
    <2>1. CASE Delete
        BY <1>3, <2>1, DeleteFacts DEF HistoryInv
    <2>2. CASE Commit
        <3>1. queue \in Seq(TableRows) /\ table \in Seq(TableRows) /\ table' = table \o queue
            BY <1>3, <2>2 DEF Commit, HistoryInv, HistoryTypeOK
        <3> QED
            BY <3>1, JoinedElements
    <2>3. CASE ~Delete /\ ~Commit
        <3>1. ASSUME NEW heard \in BOOLEAN, ChangeLight(heard) \/ RemoveLight(heard) \/ TouchLight(heard) \/ RunAutomation(heard)
              PROVE  table' = table
            BY <3>1 DEF ChangeLight, RemoveLight, TouchLight, RunAutomation, Write
        <3>2. CASE UNCHANGED historyVars
            BY <3>2 DEF historyVars, rowVars
        <3>3. CASE HistoryNext
            BY <2>3, <3>1, <3>3 DEF HistoryNext, rowVars, Tick, DropBatch, Killed, Start, Seed, SeedEnqueue,
               RunOnce, DeleteFails, AskBaseline, AskWindow
        <3> QED
            BY <1>3, <3>2, <3>3
    <2> QED
        BY <2>1, <2>2, <2>3
<1> QED
    BY <1>1, <1>2, <1>3, PTL DEF HistorySpec, PurgeKeepsWindows

\* The cause of a context is the automation when a run of it has a row.
LEMMA CausesFound ==
    ASSUME HistoryInv, NEW ctx \in {NoContext, Device, Child}
    PROVE  CausedBy(ctx) = IF ctx = Child /\ \E j \in DOMAIN table : table[j].ctx = Run
                           THEN Automation ELSE ""
<1> DEFINE rows(id) == {i \in DOMAIN table : table[i].ctx.id = id /\ table[i].entity # Light}
<1>1. table \in Seq(TableRows) /\ DOMAIN table = 1..Len(table) /\ Len(table) \in Nat
    BY DEF HistoryInv, HistoryTypeOK
<1>2. ASSUME NEW i \in DOMAIN table
      PROVE  /\ table[i].entity = Light \/ table[i].entity = Automation
             /\ table[i].entity = Light => table[i].ctx \in {NoContext, Device, Child}
             /\ table[i].entity = Automation => table[i].ctx \in {NoContext, Run}
    <2>1. table[i] \in Everything /\ table[i] \in TableRows
        BY <1>1, ElementType DEF Everything, ToSet
    <2>2. table[i].entity = Light \/ table[i].entity = Automation
        BY <2>1 DEF TableRows, Recorded
    <2>3. table[i].entity = Light => table[i].ctx \in {NoContext, Device, Child}
        BY <2>1 DEF HistoryInv, RowsAreTrue, LightRows
    <2>4. table[i].entity = Automation => table[i].ctx \in {NoContext, Run}
        BY <2>1 DEF HistoryInv, RowsAreTrue
    <2> QED
        BY <2>2, <2>3, <2>4
<1>3. /\ NoContext.id = "" /\ NoContext.parent = "" /\ Device.id = "device" /\ Device.parent = ""
      /\ Child.id = "child" /\ Child.parent = "run" /\ Run.id = "run"
      /\ Child # Device /\ Child # NoContext /\ Run # NoContext /\ Run # Device /\ Run # Child
    BY DEF NoContext, Device, Child, Run
<1>4. CASE ctx = NoContext
    BY <1>3, <1>4 DEF CausedBy
<1>5. CASE ctx = Device
    <2>1. rows("device") = {}
        BY <1>2, <1>3
    <2>2. CausedBy(ctx) = causeOfContext("device")
        BY <1>3, <1>5 DEF CausedBy
    <2> QED
        BY <1>3, <1>5, <2>1, <2>2 DEF causeOfContext
<1>6. CASE ctx = Child
    <2>1. CausedBy(ctx) = IF rows("run") = {} THEN "" ELSE table[Min(rows("run"))].entity
        BY <1>3, <1>6 DEF CausedBy, causeOfContext
    <2>2. \A i \in DOMAIN table : i \in rows("run") <=> table[i].ctx = Run
        BY <1>2, <1>3
    <2>3. CASE rows("run") = {}
        BY <1>6, <2>1, <2>2, <2>3
    <2>4. CASE rows("run") # {}
        <3>1. rows("run") \subseteq Nat
            BY <1>1
        <3>2. Min(rows("run")) \in rows("run")
            BY <2>4, <3>1, LeastNumber
        <3>3. table[Min(rows("run"))].entity = Automation
            BY <1>2, <3>2
        <3> QED
            BY <1>6, <2>1, <2>2, <2>4, <3>3
    <2> QED
        BY <2>3, <2>4
<1> QED
    BY <1>4, <1>5, <1>6

\* When the rows tell all there is, each change from the oldest row on has one.
LEMMA ToldRows ==
    ASSUME HistoryInv, Told
    PROVE  /\ Everything = ToSet(table)
           /\ \A row \in LightRows(ToSet(table)), k \in DOMAIN Past : row.at <= Past[k].at =>
                \E other \in LightRows(ToSet(table)) : other.at = Past[k].at
<1>1. Everything = ToSet(table)
    BY DEF Everything, OnTheWay, ToSet, Told
<1>2. ASSUME NEW row \in LightRows(ToSet(table)), NEW k \in DOMAIN Past, row.at <= Past[k].at
      PROVE  Past[k].at \notin untold[Light]
    <2>1. PICK i \in RowsOf(Light) : row = table[i]
        BY DEF LightRows, ToSet, RowsOf
    <2>2. row.at \in Nat
        <3>1. row \in TableRows
            BY <2>1, ElementType DEF RowsOf, HistoryInv, HistoryTypeOK
        <3> QED
            BY <3>1 DEF TableRows
    <2> QED
        BY <1>2, <2>1, <2>2, PastFacts DEF Told
<1> QED
    BY <1>1, <1>2 DEF HistoryInv, NoGaps

\* The row who_changed finds is of the last change before the second of at.
LEMMA RowOfTheChange ==
    ASSUME HistoryInv, Told, NEW at \in 0..now, NEW i \in WhoChangedRow(at)
    PROVE  LET k == Max({m \in DOMAIN Past : Sec(Past[m].at) < Sec(at)})
           IN  /\ k \in DOMAIN Past /\ table[i].state = Past[k].state
               /\ table[i].ctx \in {NoContext, Device, Child}
               /\ table[i].ctx = Past[k].by \/ Past[k].touched
<1> DEFINE earlier == {m \in DOMAIN Past : Sec(Past[m].at) < Sec(at)}
<1>1. /\ i \in DOMAIN table /\ table[i].entity = Light /\ Sec(table[i].at) < Sec(at)
      /\ \A j \in Before(Light, at) \ {i} : Earlier(j, i)
    BY DEF WhoChangedRow, Before, RowsOf
<1>2. table[i] \in LightRows(Everything) /\ Everything = ToSet(table)
    BY <1>1, ToldRows DEF LightRows, ToSet
<1>3. PICK k \in DOMAIN Past :
        /\ table[i].at = Past[k].at /\ table[i].state = Past[k].state
        /\ table[i].ctx \in {NoContext, Device, Child}
        /\ table[i].ctx = Past[k].by \/ Past[k].touched
    BY <1>2 DEF HistoryInv, RowsAreTrue
<1>4. k \in earlier /\ earlier \subseteq 0..Len(Past) /\ Len(Past) \in Nat
    BY <1>1, <1>3, PastFacts
<1>5. Max(earlier) \in earlier /\ k <= Max(earlier)
    <2> HIDE DEF earlier
    <2> QED
        BY <1>4, GreatestNumber
<1>6. Max(earlier) = k
    <2> SUFFICES ASSUME NEW m \in earlier, k < m PROVE FALSE
        BY <1>4, <1>5
    <2>1. Past[k].at < Past[m].at /\ Past[k].at \in Nat /\ Past[m].at \in Nat
        BY PastFacts DEF HistoryInv, Timeline
    <2>2. PICK other \in LightRows(ToSet(table)) : other.at = Past[m].at
        BY <1>2, <1>3, <2>1, ToldRows
    <2>3. PICK j \in DOMAIN table : other = table[j]
        BY <2>2 DEF LightRows, ToSet
    <2>4. j \in Before(Light, at) /\ j # i
        BY <1>3, <2>1, <2>2, <2>3 DEF Before, RowsOf, LightRows
    <2>5. Earlier(j, i)
        BY <1>1, <2>4
    <2> QED
        BY <1>3, <2>1, <2>2, <2>3, <2>5 DEF Earlier
<1> QED
    BY <1>3, <1>6

\* who_changed blames the right change and the right automation, for any number of
\* writes, purges and restarts, while no change is untold that came after a row that is left.
THEOREM CulpritIsFound == HistorySpec => []CulpritIsRight
<1>1. HistoryInit => HistoryInv
    BY HistoryInitInv
<1>2. HistoryInv /\ [HistoryNext]_historyVars => HistoryInv'
    BY HistoryNextInv
<1>3. HistoryInv => CulpritIsRight
    <2> SUFFICES ASSUME HistoryInv, Told, NEW at \in 0..now, NEW i \in WhoChangedRow(at),
                        NEW change,
                        change = Past[Max({k \in DOMAIN Past : Sec(Past[k].at) < Sec(at)})]
                 PROVE  /\ table[i].state = change.state
                        /\ ~change.touched =>
                            CausedBy(table[i].ctx) =
                                IF change.by = Child /\ \E j \in DOMAIN table : table[j].ctx = Run
                                THEN Automation ELSE ""
        BY DEF CulpritIsRight, Past
    <2>1. /\ table[i].state = change.state
          /\ table[i].ctx \in {NoContext, Device, Child}
          /\ table[i].ctx = change.by \/ change.touched
        BY RowOfTheChange
    <2>2. CausedBy(table[i].ctx) =
            IF table[i].ctx = Child /\ \E j \in DOMAIN table : table[j].ctx = Run
            THEN Automation ELSE ""
        BY <2>1, CausesFound
    <2> QED
        BY <2>1, <2>2
<1> QED
    BY <1>1, <1>2, <1>3, PTL DEF HistorySpec

-----------------------------------------------------------------------------
(* The aggregates *)

\* The rows of a set, in the order of ORDER BY: each of them once.
LEMMA OrderedRows ==
    ASSUME HistoryTypeOK, NEW S, S \subseteq DOMAIN table
    PROVE  /\ Cardinality(S) \in Nat
           /\ Ordered(S) \in Seq(S) /\ Len(Ordered(S)) = Cardinality(S)
           /\ DOMAIN Ordered(S) = 1..Cardinality(S)
           /\ \A i \in S : \E n \in 1..Cardinality(S) : Ordered(S)[n] = i
           /\ \A m, n \in 1..Cardinality(S) : m < n => Earlier(Ordered(S)[m], Ordered(S)[n])
<1> DEFINE upTo(i) == {k \in S : k = i \/ Earlier(k, i)}
           place(i) == Cardinality(upTo(i))
           c == Cardinality(S)
           at(n) == CHOOSE i \in S : place(i) = n
<1>1. \A i \in S : i \in Nat /\ table[i].at \in Nat
    <2>1. table \in Seq(TableRows) /\ DOMAIN table = 1..Len(table) /\ Len(table) \in Nat
        BY DEF HistoryTypeOK
    <2>2. \A i \in DOMAIN table : table[i] \in TableRows
        BY <2>1, ElementType
    <2> QED
        BY <2>1, <2>2 DEF TableRows
<1>2. IsFiniteSet(S) /\ c \in Nat
    <2>1. DOMAIN table = 1..Len(table) /\ Len(table) \in Nat
        BY DEF HistoryTypeOK
    <2>2. IsFiniteSet(1..Len(table)) /\ S \in SUBSET (1..Len(table))
        BY <2>1, FS_Interval
    <2> QED
        BY <2>2, FS_Subset, FS_CardinalityType
<1>3. /\ \A i, j, k \in S : Earlier(i, j) /\ Earlier(j, k) => Earlier(i, k)
      /\ \A i, j \in S : i # j => Earlier(i, j) \/ Earlier(j, i)
      /\ \A i \in S : ~Earlier(i, i)
    BY <1>1 DEF Earlier
<1>4. ASSUME NEW i PROVE IsFiniteSet(upTo(i)) /\ place(i) \in Nat /\ place(i) <= c
    <2>1. upTo(i) \in SUBSET S
        OBVIOUS
    <2> QED
        BY <1>2, <2>1, FS_Subset, FS_CardinalityType
<1>5. ASSUME NEW i \in S PROVE place(i) \in 1..c
    <2>1. i \in upTo(i)
        OBVIOUS
    <2>2. place(i) # 0
        BY <1>4, <2>1, FS_EmptySet
    <2> QED
        BY <1>2, <1>4, <2>2
<1>6. ASSUME NEW i \in S, NEW j \in S, Earlier(i, j) PROVE place(i) < place(j)
    <2>1. upTo(i) \in SUBSET upTo(j) /\ j \in upTo(j) /\ j \notin upTo(i)
        <3>1. \A k \in S : Earlier(k, i) => Earlier(k, j)
            BY <1>3, <1>6
        <3>2. j # i /\ ~Earlier(j, i)
            BY <1>3, <1>6
        <3> QED
            BY <1>6, <3>1, <3>2
    <2> HIDE DEF upTo
    <2>2. place(i) <= place(j) /\ place(i) # place(j)
        BY <1>4, <2>1, FS_Subset
    <2> QED
        BY <1>4, <2>2
<1>7. \A i, j \in S : place(i) = place(j) => i = j
    <2> SUFFICES ASSUME NEW i \in S, NEW j \in S, i # j PROVE place(i) # place(j)
        OBVIOUS
    <2>1. Earlier(i, j) \/ Earlier(j, i)
        BY <1>3
    <2> HIDE DEF place
    <2>2. place(i) \in Nat /\ place(j) \in Nat
        BY <1>4
    <2> QED
        BY <1>6, <2>1, <2>2
<1> DEFINE f == [i \in S |-> place(i)]
<1>8. f \in Surjection(S, 1..c)
    <2> HIDE DEF place, c
    <2>1. f \in Injection(S, 1..c)
        BY <1>5, <1>7 DEF Injection, IsInjective
    <2>2. IsFiniteSet(1..c) /\ Cardinality(1..c) = c
        BY <1>2, FS_Interval
    <2> QED
        BY <1>2, <2>1, <2>2, FS_Injection DEF c
<1>9. Ordered(S) = [n \in 1..c |-> at(n)]
    BY DEF Ordered
<1> HIDE DEF place, c
<1>10. \A n \in 1..c : \E i \in S : place(i) = n
    BY <1>8 DEF Surjection
<1>11. \A n \in 1..c : at(n) \in S /\ place(at(n)) = n
    BY <1>10
<1>12. \A i \in S : at(place(i)) = i
    BY <1>5, <1>7, <1>11
<1> HIDE DEF at
<1>13. \A m, n \in 1..c : m < n => Earlier(at(m), at(n))
    <2> SUFFICES ASSUME NEW m \in 1..c, NEW n \in 1..c, m < n, ~Earlier(at(m), at(n)) PROVE FALSE
        OBVIOUS
    <2>1. at(m) \in S /\ at(n) \in S /\ place(at(m)) = m /\ place(at(n)) = n
        BY <1>11
    <2>2. at(m) # at(n)
        BY <2>1
    <2>3. Earlier(at(n), at(m))
        BY <1>3, <2>1, <2>2
    <2>4. n < m
        BY <1>6, <2>1, <2>3
    <2> QED
        BY <2>4
<1>14. Ordered(S) \in Seq(S) /\ Len(Ordered(S)) = c /\ DOMAIN Ordered(S) = 1..c
    BY <1>2, <1>9, <1>11
<1>15. \A i \in S : \E n \in 1..c : Ordered(S)[n] = i
    BY <1>5, <1>9, <1>12
<1> QED
    BY <1>2, <1>9, <1>13, <1>14, <1>15 DEF c

\* A write adds a change of this moment, at most.
LEMMA PastGrows ==
    ASSUME HistoryInv, NEW e \in Recorded, NEW new, NEW heard, Write(e, new, heard)
    PROVE  \A k \in DOMAIN Past' : \/ Past'[k].at = now
                                   \/ \E j \in DOMAIN Past : Past'[k].at = Past[j].at
<1> DEFINE n == Len(truth[e])  changed == new.state # ha[e].state
<1>1. PICK entry : entry = [at |-> now, state |-> new.state, by |-> new.ctx, touched |-> FALSE]
    OBVIOUS
<1>2. truth' = IF changed THEN [truth EXCEPT ![e] = Append(@, entry)]
               ELSE [truth EXCEPT ![e][n].touched = TRUE]
    BY <1>1 DEF Write
<1>3. DOMAIN truth = Recorded /\ Light \in Recorded
    BY PastFacts DEF HistoryInv, HistoryTypeOK
<1>4. CASE e # Light
    BY <1>2, <1>3, <1>4 DEF Past
<1>5. CASE e = Light /\ changed
    <2>1. Past' = Append(Past, entry)
        BY <1>2, <1>3, <1>5 DEF Past
    <2>2. /\ DOMAIN Append(Past, entry) = 1..(Len(Past) + 1)
          /\ Append(Past, entry)[Len(Past) + 1] = entry
          /\ \A k \in 1..Len(Past) : Append(Past, entry)[k] = Past[k]
        BY PastFacts
    <2>3. DOMAIN Past = 1..Len(Past) /\ Len(Past) \in Nat /\ entry.at = now
        BY <1>1, PastFacts
    <2>4. \A k \in 1..(Len(Past) + 1) : k \in 1..Len(Past) \/ k = Len(Past) + 1
        BY <2>3
    <2> QED
        BY <2>1, <2>2, <2>3, <2>4
<1>6. CASE e = Light /\ ~changed
    <2>1. Past' = [Past EXCEPT ![n].touched = TRUE]
        BY <1>2, <1>3, <1>6 DEF Past
    <2>2. Past \in Seq(Entries)
        BY PastFacts
    <2>3. \A k \in DOMAIN Past : Past[k] \in Entries
        BY <2>2, ElementType
    <2>4. DOMAIN Past' = DOMAIN Past /\ \A k \in DOMAIN Past : Past'[k].at = Past[k].at
        BY <2>1, <2>3 DEF Entries
    <2> QED
        BY <2>4
<1> QED
    BY <1>4, <1>5, <1>6

\* The first SELECT reads the state of the last change before the second of since.
LEMMA BaselineStep ==
    ASSUME HistoryInv, NEW since \in Sinces, AskBaseline(since)
    PROVE  AskFresh'
<1> DEFINE S == Before(Light, since)  rows == Ordered(S)  c == Cardinality(S)
<1>1. since \in Nat /\ since <= now
    BY HistoryAssumption DEF AskBaseline
<1>2. /\ ask' = [at |-> "window", since |-> since, torn |-> ~Told, complete |-> rows # <<>>,
                 baseline |-> IF rows = <<>> THEN "" ELSE table[Last(rows)].state]
      /\ UNCHANGED <<now, truth, table>>
    BY DEF AskBaseline, houseVars, rowVars
<1>3. S \subseteq DOMAIN table /\ \A i \in S : table[i].entity = Light /\ Sec(table[i].at) < Sec(since)
    BY DEF Before, RowsOf
<1>4. (~Told) \in BOOLEAN
    BY DEF Told
<1>5. /\ c \in Nat /\ rows \in Seq(S) /\ Len(rows) = c /\ DOMAIN rows = 1..c
      /\ \A i \in S : \E n \in 1..c : rows[n] = i
      /\ \A m, n \in 1..c : m < n => Earlier(rows[m], rows[n])
    <2> HIDE DEF S
    <2> QED
        BY <1>3, OrderedRows DEF HistoryInv
<1> HIDE DEF S, rows
<1>6. CASE rows = <<>>
    <2>1. ask' = [at |-> "window", since |-> since, torn |-> ~Told, complete |-> FALSE, baseline |-> ""]
        BY <1>2, <1>6
    <2>2. ask' \in Questions
        BY <1>1, <1>4, <2>1, Zenon DEF Questions
    <2>3. ask'.since = since /\ ~ask'.complete /\ ask'.baseline = "" /\ ask'.complete = FALSE
        BY <2>1
    <2> QED
        BY <1>1, <1>2, <2>2, <2>3 DEF AskFresh
<1>7. CASE rows # <<>>
    <2> DEFINE i == rows[c]
    <2>1. c \in 1..c /\ i \in S /\ Last(rows) = i
        BY <1>5, <1>7 DEF Last
    <2>2. ask' = [at |-> "window", since |-> since, torn |-> ~Told, complete |-> TRUE,
                  baseline |-> table[i].state]
        BY <1>2, <1>7, <2>1
    <2>3. \A j \in S : j = i \/ Earlier(j, i)
        <3> TAKE j \in S
        <3>1. PICK n \in 1..c : rows[n] = j
            BY <1>5
        <3>2. n = c \/ n < c
            BY <1>5
        <3> QED
            BY <1>5, <2>1, <3>1, <3>2
    <2> HIDE DEF i
    <2>4. table[i] \in TableRows /\ table[i] \in LightRows(ToSet(table))
        <3>1. table \in Seq(TableRows)
            BY DEF HistoryInv, HistoryTypeOK
        <3>2. i \in DOMAIN table /\ table[i].entity = Light
            BY <1>3, <2>1
        <3> QED
            BY <3>1, <3>2, ElementType DEF LightRows, ToSet
    <2>5. ask' \in Questions
        <3>1. table[i].state \in States
            BY <2>4 DEF TableRows
        <3> QED
            BY <1>1, <1>4, <2>2, <3>1, Zenon DEF Questions
    <2>6. ASSUME Told, NEW k \in DOMAIN Past, table[i].at < Past[k].at
          PROVE  Sec(since) <= Sec(Past[k].at)
        <3> SUFFICES ASSUME Sec(Past[k].at) < Sec(since) PROVE FALSE
            BY <1>1, DivisionFacts, PastFacts
        <3>1. table[i].at \in Nat /\ Past[k].at \in Nat
            BY <2>4, PastFacts DEF TableRows
        <3>2. table[i].at <= Past[k].at
            BY <2>6, <3>1
        <3>3. PICK other \in LightRows(ToSet(table)) : other.at = Past[k].at
            BY <2>4, <2>6, <3>2, ToldRows
        <3>4. PICK j \in DOMAIN table : other = table[j]
            BY <3>3 DEF LightRows, ToSet
        <3>5. j \in S
            BY <3>3, <3>4 DEF S, Before, RowsOf, LightRows
        <3> QED
            BY <2>3, <2>6, <3>1, <3>3, <3>4, <3>5 DEF Earlier
    <2>7. ask'.since = since /\ ask'.complete /\ ask'.baseline = table[i].state /\ ask'.torn = ~Told
        BY <2>2
    <2>8. Past' = Past /\ table' = table /\ now' = now
        BY <1>2 DEF Past
    <2>9. Sec(table[i].at) < Sec(since)
        BY <1>3, <2>1
    <2> QED
        BY <1>1, <2>4, <2>5, <2>6, <2>7, <2>8, <2>9 DEF AskFresh
<1> QED
    BY <1>6, <1>7

\* A step that leaves the question alone and takes no row leaves its baseline right.
LEMMA StillFresh ==
    ASSUME HistoryInv, AskFresh, ask' = ask, now' = now,
           ToSet(table) \subseteq ToSet(table'),
           \A k \in DOMAIN Past' : \/ Past'[k].at = now
                                   \/ \E j \in DOMAIN Past : Past'[k].at = Past[j].at
    PROVE  AskFresh'
<1> SUFFICES ASSUME ask # NoAsk PROVE AskFresh'
    BY DEF AskFresh
<1>1. ask \in Questions /\ ask.since <= now
    BY DEF AskFresh
<1>2. ask.since \in Nat /\ now \in Nat
    BY <1>1, PastFacts DEF Questions
<1>3. CASE ask.torn
    BY <1>1, <1>3 DEF AskFresh
<1>4. CASE ~ask.torn /\ ~ask.complete
    BY <1>1, <1>4 DEF AskFresh
<1>5. CASE ~ask.torn /\ ask.complete
    <2>1. PICK row \in LightRows(ToSet(table)) :
            /\ Sec(row.at) < Sec(ask.since) /\ row.state = ask.baseline
            /\ \A k \in DOMAIN Past : row.at < Past[k].at => Sec(ask.since) <= Sec(Past[k].at)
        BY <1>5 DEF AskFresh
    <2>2. row \in LightRows(ToSet(table'))
        BY <2>1 DEF LightRows
    <2>3. Sec(ask.since) <= Sec(now)
        BY <1>1, <1>2, SecondsGrow
    <2>4. \A k \in DOMAIN Past' : row.at < Past'[k].at => Sec(ask.since) <= Sec(Past'[k].at)
        BY <2>1, <2>3
    <2> QED
        BY <1>1, <1>5, <2>1, <2>2, <2>4 DEF AskFresh
<1> QED
    BY <1>3, <1>4, <1>5

LEMMA AskStep ==
    ASSUME HistoryInv, AskFresh, [HistoryNext]_historyVars
    PROVE  AskFresh'
<1>1. CASE Tick \/ Killed \/ AskWindow
    BY <1>1 DEF Tick, Killed, AskWindow, AskFresh
<1>2. ASSUME NEW since \in Sinces, AskBaseline(since) PROVE AskFresh'
    BY <1>2, BaselineStep
<1>3. CASE Delete
    <2>1. UNCHANGED <<now, truth>> /\ ask' = [ask EXCEPT !.torn = ask.at = "window" /\ (@ \/ table' # table)]
        BY <1>3 DEF Delete, houseVars
    <2>2. CASE ask = NoAsk
        BY <2>1, <2>2 DEF NoAsk, AskFresh
    <2>3. CASE ask # NoAsk
        <3>1. ask \in Questions /\ ask.since <= now
            BY <2>3 DEF AskFresh
        <3>2. ask' = [ask EXCEPT !.torn = ask.torn \/ table' # table]
            BY <2>1, <3>1 DEF Questions
        <3>3. CASE table' = table /\ ~ask.torn
            <4>1. ask' = ask
                BY <3>1, <3>2, <3>3 DEF Questions
            <4> QED
                BY <2>1, <3>3, <4>1 DEF AskFresh, Past
        <3>4. CASE table' # table \/ ask.torn
            <4>1. ask' = [ask EXCEPT !.torn = TRUE]
                BY <3>2, <3>4
            <4>2. ask' \in Questions /\ ask'.since = ask.since /\ ask'.torn
                BY <3>1, <4>1 DEF Questions
            <4> QED
                BY <2>1, <3>1, <4>2 DEF AskFresh
        <3> QED
            BY <3>3, <3>4
    <2> QED
        BY <2>2, <2>3
<1>4. ASSUME NEW heard \in BOOLEAN,
             ChangeLight(heard) \/ RemoveLight(heard) \/ TouchLight(heard) \/ RunAutomation(heard)
      PROVE  AskFresh'
    <2>1. PICK e \in Recorded : \E new : Write(e, new, heard)
        BY <1>4, PastFacts DEF ChangeLight, RemoveLight, TouchLight, RunAutomation
    <2>2. PICK new : Write(e, new, heard)
        BY <2>1
    <2>3. UNCHANGED <<now, table, ask>>
        BY <2>2 DEF Write
    <2> QED
        BY <2>2, <2>3, PastGrows, StillFresh
<1>5. CASE Commit
    <2>1. queue \in Seq(TableRows) /\ table \in Seq(TableRows) /\ table' = table \o queue
        BY <1>5 DEF Commit, HistoryInv, HistoryTypeOK
    <2>2. ToSet(table) \subseteq ToSet(table')
        BY <2>1, JoinedElements
    <2>3. UNCHANGED <<now, truth, ask>>
        BY <1>5 DEF Commit, houseVars
    <2> QED
        BY <2>2, <2>3, StillFresh DEF Past
<1>6. CASE Seed \/ Start \/ DropBatch \/ RunOnce \/ DeleteFails \/ (\E row \in seedRows : SeedEnqueue(row)) \/ UNCHANGED historyVars
    <2>1. UNCHANGED <<now, truth, table, ask>>
        BY <1>6 DEF Seed, Start, DropBatch, RunOnce, DeleteFails, SeedEnqueue, historyVars, houseVars, rowVars
    <2> QED
        BY <2>1, StillFresh DEF Past
<1> QED
    BY <1>1, <1>2, <1>3, <1>4, <1>5, <1>6 DEF HistoryNext

Looking == ask.at = "window" /\ ~ask.torn /\ Told
Shown == Ordered(Within(Light, ask.since))
Extent == Cardinality(Within(Light, ask.since))

\* The i-th row of the window tells of change f[i], no change is left out between two
\* of them, and the last change is there.
Tells(f) ==
    /\ f \in [1..Extent -> DOMAIN Past]
    /\ \A i \in 1..Extent :
        /\ table[Shown[i]].at = Past[f[i]].at /\ table[Shown[i]].state = Past[f[i]].state
        /\ Sec(ask.since) <= Sec(Past[f[i]].at)
        /\ i < Extent => f[i + 1] = f[i] \/ f[i + 1] = f[i] + 1
    /\ Extent > 0 => f[Extent] = Len(Past)

\* The baseline is the state of change b, and the first row tells of the next one.
Opens(b, f) ==
    /\ b \in DOMAIN Past /\ Past[b].state = ask.baseline /\ Sec(Past[b].at) < Sec(ask.since)
    /\ Extent = 0 => b = Len(Past)
    /\ Extent > 0 => f[1] = b + 1

\* The changes are numbered as they happened.
LEMMA PastOrder ==
    ASSUME HistoryInv, NEW k \in DOMAIN Past, NEW m \in DOMAIN Past
    PROVE  /\ k \in Nat /\ m \in Nat /\ Past[k].at \in Nat /\ Past[m].at \in Nat
           /\ k < m <=> Past[k].at < Past[m].at
           /\ k = m <=> Past[k].at = Past[m].at
<1>1. k \in Nat /\ m \in Nat /\ Past[k].at \in Nat /\ Past[m].at \in Nat
    BY PastFacts
<1>2. (k < m => Past[k].at < Past[m].at) /\ (m < k => Past[m].at < Past[k].at)
    BY DEF HistoryInv, Timeline
<1> QED
    BY <1>1, <1>2

\* A change in an earlier second is an earlier change.
LEMMA EarlierSecond ==
    ASSUME NEW s \in Nat, NEW t \in Nat, Sec(s) < Sec(t)
    PROVE  s < t
<1>1. t <= s => Sec(t) <= Sec(s)
    BY SecondsGrow
<1>2. Sec(s) \in Int /\ Sec(t) \in Int
    BY DivisionFacts
<1> QED
    BY <1>1, <1>2

LEMMA ShownFacts ==
    ASSUME HistoryInv
    PROVE  /\ Extent \in Nat /\ DOMAIN Shown = 1..Extent /\ Len(Shown) = Extent
           /\ \A i \in 1..Extent :
                /\ Shown[i] \in DOMAIN table /\ table[Shown[i]].entity = Light
                /\ ~(Sec(table[Shown[i]].at) < Sec(ask.since))
           /\ \A j \in DOMAIN table :
                table[j].entity = Light /\ ~(Sec(table[j].at) < Sec(ask.since)) =>
                    \E i \in 1..Extent : Shown[i] = j
           /\ \A i, j \in 1..Extent : i < j => Earlier(Shown[i], Shown[j])
<1> DEFINE S == Within(Light, ask.since)
<1>1. \A j : j \in S <=> /\ j \in DOMAIN table /\ table[j].entity = Light
                         /\ ~(Sec(table[j].at) < Sec(ask.since))
    BY DEF Within, Before, RowsOf
<1>2. S \subseteq DOMAIN table /\ HistoryTypeOK
    BY <1>1 DEF HistoryInv
<1> HIDE DEF S
<1>3. /\ Cardinality(S) \in Nat /\ Ordered(S) \in Seq(S) /\ Len(Ordered(S)) = Cardinality(S)
      /\ DOMAIN Ordered(S) = 1..Cardinality(S)
      /\ \A i \in S : \E n \in 1..Cardinality(S) : Ordered(S)[n] = i
      /\ \A m, n \in 1..Cardinality(S) : m < n => Earlier(Ordered(S)[m], Ordered(S)[n])
    BY <1>2, OrderedRows
<1>4. Shown = Ordered(S) /\ Extent = Cardinality(S)
    BY DEF S, Shown, Extent
<1>5. \A i \in 1..Extent : Shown[i] \in S
    BY <1>3, <1>4, ElementType
<1> QED
    BY <1>1, <1>3, <1>4, <1>5

LEMMA PointsTell ==
    ASSUME HistoryInv, AskFresh, Looking
    PROVE  \E f : /\ Tells(f)
                  /\ ask.complete => \E b : Opens(b, f)
                  /\ ~ask.complete => ask.baseline = ""
<1> DEFINE n == Len(Past)
           tells(i, k) == table[Shown[i]].at = Past[k].at /\ table[Shown[i]].state = Past[k].state
<1>1. ask \in Questions /\ ask # NoAsk /\ ask.since \in Nat
    <2>1. ask # NoAsk
        <3>1. ask.at = "window"
            BY DEF Looking
        <3>2. NoAsk.at = "idle"
            BY DEF NoAsk
        <3> QED
            BY <3>1, <3>2
    <2> QED
        BY <2>1 DEF AskFresh, Questions
<1>2. Everything = ToSet(table)
    BY ToldRows DEF Looking
<1>3. \A row \in LightRows(ToSet(table)) :
        \E k \in DOMAIN Past : row.at = Past[k].at /\ row.state = Past[k].state
    BY <1>2 DEF HistoryInv, RowsAreTrue
<1>4. \A i \in 1..Extent : table[Shown[i]] \in LightRows(ToSet(table))
    BY ShownFacts DEF LightRows, ToSet
<1>5. DOMAIN Past = 1..n /\ n \in Nat \ {0}
    BY PastFacts
<1>6. PICK f : f = [i \in 1..Extent |-> CHOOSE k \in DOMAIN Past : tells(i, k)]
    OBVIOUS
<1>7. f \in [1..Extent -> DOMAIN Past] /\ \A i \in 1..Extent : tells(i, f[i])
    <2>1. \A i \in 1..Extent : \E k \in DOMAIN Past : tells(i, k)
        BY <1>3, <1>4
    <2> HIDE DEF tells
    <2> QED
        BY <1>6, <2>1
<1>8. \A i \in 1..Extent : Sec(ask.since) <= Sec(Past[f[i]].at)
    <2> TAKE i \in 1..Extent
    <2>1. ~(Sec(Past[f[i]].at) < Sec(ask.since)) /\ Past[f[i]].at \in Nat
        BY <1>7, ShownFacts, PastFacts
    <2> QED
        BY <1>1, <2>1, DivisionFacts
<1>9. \A i, j \in 1..Extent : i < j => f[i] <= f[j]
    <2> SUFFICES ASSUME NEW i \in 1..Extent, NEW j \in 1..Extent, i < j PROVE f[i] <= f[j]
        OBVIOUS
    <2>1. Earlier(Shown[i], Shown[j])
        BY ShownFacts
    <2>2. f[i] \in DOMAIN Past /\ f[j] \in DOMAIN Past
        BY <1>7
    <2>3. Past[f[i]].at <= Past[f[j]].at
        BY <1>7, <2>1, <2>2, PastFacts DEF Earlier
    <2> QED
        BY <2>2, <2>3, PastOrder
<1>10. ASSUME NEW row \in LightRows(ToSet(table)), NEW m \in DOMAIN Past,
              row.at <= Past[m].at, Sec(ask.since) <= Sec(Past[m].at)
       PROVE  \E j \in 1..Extent : f[j] = m
    <2>1. PICK other \in LightRows(ToSet(table)) : other.at = Past[m].at
        BY <1>10, ToldRows DEF Looking
    <2>2. PICK t \in DOMAIN table : other = table[t]
        BY <2>1 DEF LightRows, ToSet
    <2>3. ~(Sec(table[t].at) < Sec(ask.since))
        BY <1>1, <1>10, <2>1, <2>2, DivisionFacts, PastFacts
    <2>4. PICK j \in 1..Extent : Shown[j] = t
        BY <2>1, <2>2, <2>3, ShownFacts DEF LightRows
    <2>5. Past[f[j]].at = Past[m].at /\ f[j] \in DOMAIN Past
        BY <1>7, <2>1, <2>2, <2>4
    <2> QED
        BY <2>5, PastOrder
<1> HIDE DEF tells
<1>11. ASSUME NEW i \in 1..Extent, NEW m \in DOMAIN Past, f[i] <= m
       PROVE  \E j \in 1..Extent : f[j] = m
    <2>1. f[i] \in DOMAIN Past /\ table[Shown[i]].at = Past[f[i]].at
        BY <1>7 DEF tells
    <2>2. Past[f[i]].at <= Past[m].at /\ Past[f[i]].at \in Nat /\ Past[m].at \in Nat
        BY <1>11, <2>1, PastOrder
    <2>3. Sec(Past[f[i]].at) <= Sec(Past[m].at)
        BY <2>2, SecondsGrow
    <2>4. Sec(ask.since) <= Sec(Past[m].at)
        BY <1>1, <1>8, <2>2, <2>3, DivisionFacts
    <2> QED
        BY <1>4, <1>10, <2>1, <2>2, <2>4
<1>12. ASSUME NEW i \in 1..Extent, i < Extent PROVE f[i + 1] = f[i] \/ f[i + 1] = f[i] + 1
    <2>1. i + 1 \in 1..Extent /\ f[i] \in 1..n /\ f[i + 1] \in 1..n
        BY <1>5, <1>7, <1>12, ShownFacts
    <2>2. f[i] <= f[i + 1]
        BY <1>9, <2>1
    <2> SUFFICES ASSUME f[i] + 1 < f[i + 1] PROVE FALSE
        BY <2>1, <2>2
    <2>3. f[i] + 1 \in DOMAIN Past /\ f[i] <= f[i] + 1
        BY <1>5, <2>1
    <2>4. PICK j \in 1..Extent : f[j] = f[i] + 1
        BY <1>11, <2>3
    <2>5. j < i \/ j = i \/ j = i + 1 \/ i + 1 < j
        BY <2>1, ShownFacts
    <2> QED
        BY <1>9, <2>1, <2>4, <2>5
<1>13. Extent > 0 => f[Extent] = n
    <2> SUFFICES ASSUME Extent > 0 PROVE f[Extent] = n
        OBVIOUS
    <2>1. Extent \in 1..Extent /\ f[Extent] \in 1..n /\ n \in DOMAIN Past
        BY <1>5, <1>7, ShownFacts
    <2>2. PICK j \in 1..Extent : f[j] = n
        BY <1>5, <1>11, <2>1
    <2>3. j < Extent \/ j = Extent
        BY ShownFacts
    <2> QED
        BY <1>5, <1>9, <2>1, <2>2, <2>3
<1>14. Tells(f)
    BY <1>7, <1>8, <1>12, <1>13 DEF Tells, tells
<1>15. ~ask.complete => ask.baseline = ""
    BY <1>1 DEF AskFresh, Looking
<1>16. ASSUME ask.complete PROVE \E b : Opens(b, f)
    <2>1. PICK row \in LightRows(ToSet(table)) :
            /\ Sec(row.at) < Sec(ask.since) /\ row.state = ask.baseline
            /\ \A k \in DOMAIN Past : row.at < Past[k].at => Sec(ask.since) <= Sec(Past[k].at)
        BY <1>1, <1>16 DEF AskFresh, Looking
    <2>2. PICK b \in DOMAIN Past : row.at = Past[b].at /\ row.state = Past[b].state
        BY <1>3, <2>1
    <2>3. ASSUME b < n PROVE \E j \in 1..Extent : f[j] = b + 1
        <3>1. b + 1 \in DOMAIN Past /\ b < b + 1
            BY <1>5, <2>2, <2>3
        <3>2. Past[b].at < Past[b + 1].at
            BY <2>2, <3>1, PastOrder
        <3>3. Past[b].at <= Past[b + 1].at
            BY <2>2, <3>1, <3>2, PastFacts
        <3> QED
            BY <1>10, <2>1, <2>2, <3>1, <3>2, <3>3
    <2>4. Extent = 0 => b = n
        BY <1>5, <2>2, <2>3
    <2>5. ASSUME Extent > 0 PROVE f[1] = b + 1
        <3>1. 1 \in 1..Extent /\ f[1] \in DOMAIN Past
            BY <1>7, <2>5, ShownFacts
        <3>2. Sec(Past[b].at) < Sec(Past[f[1]].at)
            <4>1. Sec(Past[b].at) < Sec(ask.since) /\ Sec(ask.since) <= Sec(Past[f[1]].at)
                BY <1>8, <2>1, <2>2, <3>1
            <4>2. Past[b].at \in Nat /\ Past[f[1]].at \in Nat
                BY <2>2, <3>1, PastFacts
            <4>3. Sec(Past[b].at) \in Int /\ Sec(Past[f[1]].at) \in Int /\ Sec(ask.since) \in Int
                BY <1>1, <4>2, DivisionFacts
            <4> QED
                BY <4>1, <4>3
        <3>3. b < f[1]
            BY <2>2, <3>1, <3>2, EarlierSecond, PastOrder, PastFacts
        <3>4. PICK j \in 1..Extent : f[j] = b + 1
            BY <1>5, <2>2, <2>3, <3>1, <3>3
        <3>5. j = 1 \/ 1 < j
            BY <3>4
        <3> QED
            BY <1>5, <1>9, <2>2, <3>1, <3>3, <3>4, <3>5
    <2>6. Opens(b, f)
        BY <2>1, <2>2, <2>4, <2>5, ShownFacts DEF Opens
    <2> QED
        BY <2>6
<1> QED
    BY <1>14, <1>15, <1>16

LEMMA GreaterOfTwo ==
    ASSUME NEW a \in Nat, NEW b \in Nat
    PROVE  Max({a, b}) = IF a >= b THEN a ELSE b
<1>1. {a, b} \subseteq 0..(a + b) /\ {a, b} # {} /\ a + b \in Nat
    OBVIOUS
<1>2. Max({a, b}) \in {a, b} /\ \A m \in {a, b} : m <= Max({a, b})
    BY <1>1, GreatestNumber
<1> QED
    BY <1>2

LEMMA QuestionFacts ==
    ASSUME HistoryInv, AskFresh, Looking
    PROVE  /\ ask \in Questions /\ ask.since \in Nat /\ ask.complete \in BOOLEAN
           /\ now \in Nat /\ ask.since <= now
<1>1. ask # NoAsk
    <2>1. ask.at = "window"
        BY DEF Looking
    <2>2. NoAsk.at = "idle"
        BY DEF NoAsk
    <2> QED
        BY <2>1, <2>2
<1> QED
    BY <1>1, PastFacts DEF AskFresh, Questions

LEMMA PointValues ==
    ASSUME HistoryInv, AskFresh, Looking, NEW f, Tells(f)
    PROVE  /\ historyPoints \in Seq([state : States, at : Nat])
           /\ Extent \in Nat /\ Len(historyPoints) = Extent /\ DOMAIN historyPoints = 1..Extent
           /\ \A i \in 1..Extent :
                /\ historyPoints[i].state = Past[f[i]].state
                /\ historyPoints[i].at = IF Past[f[i]].at >= ask.since THEN Past[f[i]].at ELSE ask.since
<1> DEFINE point(i) == [state |-> table[Shown[i]].state, at |-> Max({table[Shown[i]].at, ask.since})]
<1>1. historyPoints = [i \in 1..Extent |-> point(i)]
    BY DEF historyPoints, Extent, Shown
<1>2. Extent \in Nat
    BY ShownFacts
<1>3. ASSUME NEW i \in 1..Extent
      PROVE  /\ point(i) \in [state : States, at : Nat]
             /\ point(i).state = Past[f[i]].state
             /\ point(i).at = IF Past[f[i]].at >= ask.since THEN Past[f[i]].at ELSE ask.since
    <2>1. f[i] \in DOMAIN Past /\ table[Shown[i]].at = Past[f[i]].at /\ table[Shown[i]].state = Past[f[i]].state
        BY DEF Tells
    <2>2. table[Shown[i]] \in TableRows
        BY ShownFacts, ElementType DEF HistoryInv, HistoryTypeOK
    <2>3. Past[f[i]].at \in Nat /\ Past[f[i]].state \in States /\ ask.since \in Nat
        BY <2>1, <2>2, QuestionFacts DEF TableRows
    <2>4. Max({Past[f[i]].at, ask.since}) = IF Past[f[i]].at >= ask.since THEN Past[f[i]].at ELSE ask.since
        BY <2>3, GreaterOfTwo
    <2> QED
        BY <2>1, <2>3, <2>4
<1> HIDE DEF point
<1>4. historyPoints \in [1..Extent -> [state : States, at : Nat]]
    BY <1>1, <1>3
<1>5. historyPoints \in Seq([state : States, at : Nat]) /\ Len(historyPoints) = Extent
    <2> DEFINE Point == [state : States, at : Nat]
    <2> HIDE DEF Point
    <2>1. historyPoints \in [1..Extent -> Point]
        BY <1>4 DEF Point
    <2>2. historyPoints \in Seq(Point) /\ Len(historyPoints) = Extent
        BY <1>2, <2>1
    <2> QED
        BY <2>2 DEF Point
<1> QED
    BY <1>1, <1>2, <1>3, <1>5

LEMMA TellsInOrder ==
    ASSUME HistoryInv, NEW f, Tells(f)
    PROVE  \A i, j \in 1..Extent : i < j => f[i] <= f[j]
<1> SUFFICES ASSUME NEW i \in 1..Extent, NEW k \in 1..Extent, i < k, ~(f[i] <= f[k]) PROVE FALSE
    OBVIOUS
<1> DEFINE bad == {j \in 1..Extent : i < j /\ ~(f[i] <= f[j])}
<1>1. \A m \in DOMAIN Past : m \in Nat
    BY PastFacts
<1>2. /\ Extent \in Nat /\ f \in [1..Extent -> DOMAIN Past]
      /\ \A m \in 1..Extent : m < Extent => f[m + 1] = f[m] \/ f[m + 1] = f[m] + 1
    BY ShownFacts DEF Tells
<1>3. bad \subseteq Nat /\ k \in bad
    OBVIOUS
<1>4. PICK j \in bad : \A l \in bad : j <= l
    <2> HIDE DEF bad
    <2> QED
        BY <1>3, LeastNumber
<1>5. j - 1 \in 1..Extent /\ j - 1 < Extent /\ (j - 1) + 1 = j
    BY <1>2, <1>4
<1>6. f[i] <= f[j - 1]
    <2>1. j - 1 = i \/ i < j - 1
        BY <1>4
    <2>2. j - 1 \notin bad
        BY <1>4, <1>5
    <2> QED
        BY <1>1, <1>2, <1>5, <2>1, <2>2
<1>7. f[j] = f[j - 1] \/ f[j] = f[j - 1] + 1
    BY <1>2, <1>5
<1> QED
    BY <1>1, <1>2, <1>4, <1>5, <1>6, <1>7

\* Each change since the instant asked about has a row in the window of a complete answer.
LEMMA ToldSince ==
    ASSUME HistoryInv, AskFresh, Looking, NEW f, Tells(f), NEW b, Opens(b, f),
           NEW m \in DOMAIN Past, Past[m].at >= ask.since
    PROVE  /\ b < m
           /\ \E i \in 1..Extent : f[i] = m /\ (i = 1 \/ f[i - 1] = m - 1)
           /\ \E i \in 1..Extent : f[i] = m
<1> DEFINE n == Len(Past)
           told == {i \in 1..Extent : m <= f[i]}
<1>1. /\ Extent \in Nat /\ f \in [1..Extent -> DOMAIN Past] /\ b \in DOMAIN Past
      /\ \A i \in 1..Extent : i < Extent => f[i + 1] = f[i] \/ f[i + 1] = f[i] + 1
    BY ShownFacts DEF Tells, Opens
<1>2. DOMAIN Past = 1..n /\ n \in Nat
    BY PastFacts
<1>3. Past[m].at \in Nat /\ Past[b].at \in Nat /\ Past[b].at < Past[m].at
    <2>1. Past[m].at \in Nat /\ Past[b].at \in Nat /\ ask.since \in Nat
        BY <1>1, PastFacts, QuestionFacts
    <2>2. Past[b].at < ask.since
        BY <2>1, EarlierSecond DEF Opens
    <2> QED
        BY <2>1, <2>2
<1>4. b < m /\ b \in 1..n /\ m \in 1..n
    BY <1>1, <1>2, <1>3, PastOrder
<1>5. Extent > 0 /\ f[1] = b + 1 /\ f[Extent] = n
    <2>1. Extent = 0 => b = n
        BY DEF Opens
    <2>2. Extent > 0
        BY <1>1, <1>4, <2>1
    <2> QED
        BY <2>2 DEF Opens, Tells
<1>6. told \subseteq Nat /\ Extent \in told
    BY <1>1, <1>4, <1>5
<1>7. PICK i \in told : \A j \in told : i <= j
    <2> HIDE DEF told
    <2> QED
        BY <1>6, LeastNumber
<1>8. CASE i = 1
    <2>1. f[1] = m
        BY <1>4, <1>5, <1>7, <1>8
    <2> QED
        BY <1>4, <1>7, <1>8, <2>1
<1>9. CASE i # 1
    <2>1. i - 1 \in 1..Extent /\ i - 1 < Extent /\ (i - 1) + 1 = i /\ i - 1 \notin told
        BY <1>1, <1>7, <1>9
    <2>2. f[i - 1] \in 1..n /\ f[i] \in 1..n
        BY <1>1, <1>2, <1>7, <2>1
    <2>3. f[i] = f[i - 1] \/ f[i] = f[i - 1] + 1
        BY <1>1, <2>1
    <2>4. f[i - 1] < m /\ m <= f[i]
        BY <1>4, <1>7, <2>1, <2>2
    <2>5. f[i] = m /\ f[i - 1] = m - 1
        BY <1>4, <2>2, <2>3, <2>4
    <2> QED
        BY <1>4, <1>7, <2>5
<1> QED
    BY <1>8, <1>9

\* count_changes counts a change of the window once, and no other.
LEMMA CountIsRight ==
    ASSUME HistoryInv, AskFresh, Looking, NEW into \in SUBSET States
    PROVE  /\ CountChanges(into) <= Cardinality(ChangedSince(into, Sec, ask.since))
           /\ ask.complete =>
                CountChanges(into) >= Cardinality(ChangedSince(into, LAMBDA t : t, ask.since))
<1>1. PICK f : /\ Tells(f)
               /\ ask.complete => \E b : Opens(b, f)
               /\ ~ask.complete => ask.baseline = ""
    BY PointsTell
<1> DEFINE n == Len(Past)
           previous(i) == IF i = 1 THEN ask.baseline ELSE Past[f[i - 1]].state
           counted == {i \in 1..Extent : /\ Past[f[i]].state # previous(i) \/ (i = 1 /\ ~ask.complete)
                                         /\ Past[f[i]].state \in into}
           seconds == {m \in DOMAIN Past : Past[m].state \in into /\ Sec(Past[m].at) >= Sec(ask.since)}
           instants == {m \in DOMAIN Past : Past[m].state \in into /\ Past[m].at >= ask.since}
<1>2. DOMAIN Past = 1..n /\ n \in Nat /\ IsFiniteSet(DOMAIN Past)
    <2>1. DOMAIN Past = 1..n /\ n \in Nat
        BY PastFacts
    <2> QED
        BY <2>1, FS_Interval
<1>3. IsFiniteSet(seconds) /\ IsFiniteSet(instants)
    BY <1>2, FS_Subset
<1>4. /\ Extent \in Nat /\ f \in [1..Extent -> DOMAIN Past]
      /\ \A i \in 1..Extent :
            /\ Sec(ask.since) <= Sec(Past[f[i]].at)
            /\ i < Extent => f[i + 1] = f[i] \/ f[i + 1] = f[i] + 1
    BY <1>1, ShownFacts DEF Tells
<1>5. IsFiniteSet(counted)
    <2>1. IsFiniteSet(1..Extent) /\ counted \in SUBSET (1..Extent)
        BY <1>4, FS_Interval
    <2> QED
        BY <2>1, FS_Subset
<1>6. CountChanges(into) = Cardinality(counted)
    <2> DEFINE points == historyPoints
               before(i) == IF i = 1 THEN ask.baseline ELSE points[i - 1].state
               found == {i \in DOMAIN points : /\ points[i].state # before(i) \/ (i = 1 /\ ~ask.complete)
                                               /\ points[i].state \in into}
    <2>1. CountChanges(into) = Cardinality(found)
        BY DEF CountChanges
    <2>2. DOMAIN points = 1..Extent /\ \A i \in 1..Extent : points[i].state = Past[f[i]].state
        BY <1>1, PointValues
    <2>3. \A i \in 1..Extent : before(i) = previous(i)
        <3> TAKE i \in 1..Extent
        <3>1. i = 1 \/ i - 1 \in 1..Extent
            BY <1>4
        <3> QED
            BY <2>2, <3>1
    <2> HIDE DEF points, before, previous
    <2> QED
        BY <2>1, <2>2, <2>3
<1>7. ChangedSince(into, Sec, ask.since) = seconds
    BY DEF ChangedSince, Past
<1>8. ChangedSince(into, LAMBDA t : t, ask.since) = instants
    BY DEF ChangedSince, Past
<1>9. \A i, j \in 1..Extent : i < j => f[i] <= f[j]
    BY <1>1, TellsInOrder
<1>10. Cardinality(counted) <= Cardinality(seconds)
    <2> DEFINE h == [i \in counted |-> f[i]]
    <2>1. ASSUME NEW i \in counted, NEW j \in counted, i < j PROVE f[i] # f[j]
        <3> SUFFICES ASSUME f[i] = f[j] PROVE FALSE
            OBVIOUS
        <3>1. j - 1 \in 1..Extent /\ (j - 1 = i \/ i < j - 1) /\ j - 1 < j /\ j # 1
            BY <1>4, <2>1
        <3>2. f[i] <= f[j - 1] /\ f[j - 1] <= f[j]
            BY <1>2, <1>4, <1>9, <3>1
        <3>3. f[j - 1] = f[j]
            BY <1>2, <1>4, <3>1, <3>2
        <3> QED
            BY <3>1, <3>3
    <2>2. \A i, j \in counted : f[i] = f[j] => i = j
        <3>1. \A i, j \in counted : i = j \/ i < j \/ j < i
            BY <1>4
        <3> HIDE DEF counted
        <3> QED
            BY <2>1, <3>1
    <2>3. \A i \in counted : f[i] \in seconds
        <3> TAKE i \in counted
        <3>1. f[i] \in DOMAIN Past /\ Sec(ask.since) <= Sec(Past[f[i]].at) /\ Past[f[i]].at \in Nat
            BY <1>4, PastFacts
        <3> QED
            BY <3>1, DivisionFacts, QuestionFacts
    <2>4. h \in Injection(counted, seconds)
        <3> HIDE DEF counted, seconds
        <3> QED
            BY <2>2, <2>3 DEF Injection, IsInjective
    <2> HIDE DEF h, counted, seconds
    <2> QED
        BY <1>3, <2>4, FS_Injection
<1>11. ASSUME ask.complete PROVE Cardinality(instants) <= Cardinality(counted)
    <2>1. PICK b : Opens(b, f)
        BY <1>1, <1>11
    <2>2. b \in DOMAIN Past /\ Past[b].state = ask.baseline
        BY <2>1 DEF Opens
    <2>3. ASSUME NEW m \in instants
          PROVE  \E i \in counted : f[i] = m
        <3>1. m \in DOMAIN Past /\ Past[m].at >= ask.since /\ Past[m].state \in into
            BY <2>3
        <3>2. b < m /\ b \in 1..n /\ m \in 1..n
            BY <1>1, <1>2, <2>1, <2>2, <3>1, ToldSince
        <3>3. PICK i \in 1..Extent : f[i] = m /\ (i = 1 \/ f[i - 1] = m - 1)
            BY <1>1, <2>1, <3>1, ToldSince
        <3>4. m - 1 \in DOMAIN Past /\ Past[m - 1].state # Past[m].state
            <4>1. \A k \in DOMAIN Past : k < n => Past[k].state # Past[k + 1].state
                BY DEF HistoryInv, Timeline
            <4>2. m - 1 \in DOMAIN Past /\ m - 1 < n /\ (m - 1) + 1 = m
                BY <1>2, <3>2
            <4> QED
                BY <4>1, <4>2
        <3>5. CASE i = 1
            <4>1. f[1] = b + 1
                BY <1>4, <2>1, <3>3 DEF Opens
            <4>2. b = m - 1
                BY <1>2, <3>2, <3>3, <3>5, <4>1
            <4> QED
                BY <2>2, <3>1, <3>3, <3>4, <3>5, <4>2
        <3>6. CASE i # 1
            BY <3>1, <3>3, <3>4, <3>6
        <3> QED
            BY <3>5, <3>6
    <2> DEFINE h == [m \in instants |-> CHOOSE i \in counted : f[i] = m]
    <2> HIDE DEF counted, instants
    <2>4. \A m \in instants : h[m] \in counted /\ f[h[m]] = m
        BY <2>3
    <2>5. h \in Injection(instants, counted)
        BY <2>4 DEF Injection, IsInjective
    <2> HIDE DEF h
    <2> QED
        BY <1>5, <2>5, FS_Injection
<1>12. /\ Cardinality(counted) \in Nat /\ Cardinality(seconds) \in Nat
       /\ Cardinality(instants) \in Nat
    BY <1>3, <1>5, FS_CardinalityType
<1> HIDE DEF counted, seconds, instants
<1> QED
    BY <1>6, <1>7, <1>8, <1>10, <1>11, <1>12

\* get_history shows the rows of the window from the first on, in order, and a row tells
\* what happened.
LEMMA RowsShown ==
    ASSUME HistoryInv, AskFresh, Looking
    PROVE  HistoryIsRight(GetHistory(ask.since))
<1>1. PICK f : Tells(f) /\ (ask.complete => \E b : Opens(b, f))
    BY PointsTell
<1>2. Extent \in Nat /\ Len(Shown) = Extent /\ Limit \in Nat
    BY ShownFacts, HistoryAssumption
<1> DEFINE most == Min({Extent, Limit})  rows == GetHistory(ask.since)
<1>3. most \in Nat /\ most <= Extent /\ (most = Extent \/ most = Limit)
    <2>1. {Extent, Limit} \subseteq Nat /\ {Extent, Limit} # {}
        BY <1>2
    <2>2. most \in {Extent, Limit} /\ \A m \in {Extent, Limit} : most <= m
        BY <2>1, LeastNumber
    <2> HIDE DEF most
    <2> QED
        BY <1>2, <2>2
<1>4. rows = [i \in 1..most |-> table[Shown[i]]]
    BY <1>2 DEF GetHistory, Shown
<1>5. DOMAIN rows = 1..most /\ \A i \in 1..most : i \in 1..Extent /\ rows[i] = table[Shown[i]]
    <2> HIDE DEF most, rows
    <2> QED
        BY <1>2, <1>3, <1>4
<1>6. Len(rows) = most
    <2> HIDE DEF most, rows
    <2>1. rows \in Seq({rows[i] : i \in 1..most})
        BY <1>3, <1>4
    <2> QED
        BY <1>3, <1>4, <2>1
<1> HIDE DEF most, rows
<1>7. \A i \in 1..Extent : /\ f[i] \in DOMAIN Past /\ Past[f[i]].at \in Nat
                            /\ table[Shown[i]].at = Past[f[i]].at
                            /\ table[Shown[i]].state = Past[f[i]].state
    BY <1>1, PastFacts DEF Tells
<1>8. \A i, j \in 1..Extent : i < j => table[Shown[i]].at <= table[Shown[j]].at
    <2> SUFFICES ASSUME NEW i \in 1..Extent, NEW j \in 1..Extent, i < j
                 PROVE  table[Shown[i]].at <= table[Shown[j]].at
        OBVIOUS
    <2>1. Earlier(Shown[i], Shown[j])
        BY ShownFacts
    <2> QED
        BY <1>7, <2>1 DEF Earlier
<1>9. ASSUME ask.complete, NEW m \in ChangedSince(States, LAMBDA t : t, ask.since)
      PROVE  \E i \in 1..Extent : f[i] = m
    <2>1. m \in DOMAIN Past /\ Past[m].at >= ask.since
        BY <1>9 DEF ChangedSince, Past
    <2>2. PICK b : Opens(b, f)
        BY <1>1, <1>9
    <2> QED
        BY <1>1, <2>1, <2>2, ToldSince
<1>10. ASSUME ask.complete, NEW m \in ChangedSince(States, LAMBDA t : t, ask.since)
       PROVE  \/ \E n \in DOMAIN rows : rows[n].at = Past[m].at
              \/ Len(rows) = Limit /\ \A n \in DOMAIN rows : rows[n].at <= Past[m].at
    <2>1. PICK i \in 1..Extent : f[i] = m
        BY <1>9, <1>10
    <2>2. CASE i <= most
        BY <1>5, <1>7, <2>1, <2>2
    <2>3. CASE most < i
        <3>1. most = Limit
            BY <1>2, <1>3, <2>3
        <3>2. \A n \in DOMAIN rows : rows[n].at <= Past[m].at
            <4> TAKE n \in DOMAIN rows
            <4>1. n \in 1..Extent /\ n < i /\ rows[n] = table[Shown[n]]
                BY <1>3, <1>5, <2>3
            <4> QED
                BY <1>7, <1>8, <2>1, <4>1
        <3> QED
            BY <1>6, <3>1, <3>2
    <2> QED
        BY <1>3, <2>2, <2>3
<1>11. \A n \in DOMAIN rows : \E i \in DOMAIN Past :
        Past[i].at = rows[n].at /\ Past[i].state = rows[n].state
    BY <1>5, <1>7
<1>12. \A n, m \in DOMAIN rows : n < m => rows[n].at <= rows[m].at
    BY <1>5, <1>8
<1> QED
    BY <1>10, <1>11, <1>12 DEF HistoryIsRight, Past, rows

\* What the loop of duration_in_state adds up is well defined.
LEMMA RunningTotal ==
    ASSUME NEW n \in Nat, NEW gain \in [1..n -> Int]
    PROVE  \E f : f = [i \in 0..n |-> IF i = 0 THEN 0 ELSE f[i - 1] + gain[i]]
<1> DEFINE Sums(k, f) == /\ f \in [0..k -> Int] /\ f[0] = 0
                         /\ \A i \in 1..k : f[i] = f[i - 1] + gain[i]
           bad == {k \in 0..n : ~ \E f : Sums(k, f)}
<1>1. bad = {}
    <2> SUFFICES ASSUME bad # {} PROVE FALSE
        OBVIOUS
    <2>1. PICK k \in bad : \A l \in bad : k <= l
        <3>1. bad \subseteq Nat
            OBVIOUS
        <3> HIDE DEF bad
        <3> QED
            BY <3>1, LeastNumber
    <2>2. CASE k = 0
        <3>1. Sums(0, [i \in 0..0 |-> 0])
            OBVIOUS
        <3> QED
            BY <2>1, <2>2, <3>1
    <2>3. CASE k # 0
        <3>1. k - 1 \in 0..n /\ k - 1 \notin bad /\ k \in 1..n
            <4>1. k \in 0..n
                BY <2>1
            <4> HIDE DEF bad
            <4>2. k - 1 \in 0..n /\ k \in 1..n /\ ~(k <= k - 1)
                BY <2>3, <4>1
            <4> QED
                BY <2>1, <4>2
        <3>2. PICK f : Sums(k - 1, f)
            BY <3>1
        <3> DEFINE g == [i \in 0..k |-> IF i < k THEN f[i] ELSE f[k - 1] + gain[k]]
        <3>3. \A i \in 0..(k - 1) : f[i] \in Int
            BY <3>2
        <3>4. k - 1 \in 0..(k - 1) /\ gain[k] \in Int
            BY <3>1
        <3>5. g \in [0..k -> Int]
            <4>1. \A i \in 0..k : i < k => i \in 0..(k - 1)
                BY <3>1
            <4> QED
                BY <3>3, <3>4, <4>1
        <3>6. g[0] = 0
            BY <3>1, <3>2
        <3>7. \A i \in 1..k : g[i] = g[i - 1] + gain[i]
            <4> TAKE i \in 1..k
            <4>1. i \in 0..k /\ i - 1 \in 0..k /\ i - 1 < k /\ g[i - 1] = f[i - 1]
                BY <3>1
            <4>2. CASE i = k
                BY <4>1, <4>2
            <4>3. CASE i < k
                <5>1. i \in 1..(k - 1) /\ g[i] = f[i]
                    BY <3>1, <4>3
                <5> QED
                    BY <3>2, <4>1, <5>1
            <4> QED
                BY <3>1, <4>2, <4>3
        <3>8. Sums(k, g)
            BY <3>5, <3>6, <3>7
        <3> QED
            BY <2>1, <3>8
    <2> QED
        BY <2>2, <2>3
<1>2. PICK f : Sums(n, f)
    <2>1. n \in 0..n
        OBVIOUS
    <2> HIDE DEF Sums
    <2> QED
        BY <1>1, <2>1
<1>3. f = [i \in 0..n |-> IF i = 0 THEN 0 ELSE f[i - 1] + gain[i]]
    <2>1. \A i \in 0..n : i = 0 \/ i \in 1..n
        OBVIOUS
    <2>2. \A i \in 0..n : f[i] = IF i = 0 THEN 0 ELSE f[i - 1] + gain[i]
        BY <1>2, <2>1
    <2>3. f = [i \in 0..n |-> f[i]]
        BY <1>2
    <2> QED
        BY <2>2, <2>3
<1> QED
    BY <1>3

\* Spans, the i-th from at[i] up to at[i + 1], follow each other, and each of them lies all
\* in H and gains its length or all out of it and gains nothing.
Spans(n, at, H, gain) ==
    /\ \A i \in 1..(n + 1) : at[i] \in Nat
    /\ \A i \in 1..n :
        /\ at[i] <= at[i + 1]
        /\ \/ gain[i] = at[i + 1] - at[i] /\ \A t \in at[i]..(at[i + 1] - 1) : t \in H
           \/ gain[i] = 0 /\ \A t \in at[i]..(at[i + 1] - 1) : t \notin H

\* total[n] is the sum of the first n gains.
Accumulates(total, n, gain) ==
    total = [i \in 0..n |-> IF i = 0 THEN 0 ELSE total[i - 1] + gain[i]]

\* What such spans gain together is the number of instants of H they cover.
LEMMA SumOfSpans ==
    ASSUME NEW n \in Nat, NEW at, NEW H, NEW gain, NEW total,
           Spans(n, at, H, gain), Accumulates(total, n, gain)
    PROVE  total[n] = Cardinality({t \in at[1]..(at[n + 1] - 1) : t \in H})
<1> USE DEF Spans, Accumulates
<1> DEFINE upTo(k) == {t \in at[1]..(at[k + 1] - 1) : t \in H}
           Right(k) == total[k] = Cardinality(upTo(k)) /\ at[1] <= at[k + 1]
           bad == {k \in 0..n : ~Right(k)}
<1>1. ASSUME NEW k \in 0..n PROVE IsFiniteSet(upTo(k)) /\ Cardinality(upTo(k)) \in Nat
    <2>1. at[1] \in Int /\ at[k + 1] - 1 \in Int
        OBVIOUS
    <2>2. IsFiniteSet(at[1]..(at[k + 1] - 1)) /\ upTo(k) \in SUBSET (at[1]..(at[k + 1] - 1))
        BY <2>1, FS_Interval
    <2> HIDE DEF upTo
    <2> QED
        BY <2>2, FS_Subset, FS_CardinalityType
<1>2. Right(0)
    <2>1. total[0] = 0
        OBVIOUS
    <2>2. upTo(0) = {} /\ at[1] <= at[0 + 1]
        OBVIOUS
    <2> QED
        BY <2>1, <2>2, FS_EmptySet
<1>3. ASSUME NEW k \in 1..n, Right(k - 1) PROVE Right(k)
    <2> DEFINE span == at[k]..(at[k + 1] - 1)  new == {t \in span : t \in H}
    <2>1. /\ at[1] \in Nat /\ at[k] \in Nat /\ at[k + 1] \in Nat
          /\ at[1] <= at[k] /\ at[k] <= at[k + 1] /\ k - 1 \in 0..n /\ (k - 1) + 1 = k
        BY <1>3
    <2>2. upTo(k) = upTo(k - 1) \cup new /\ upTo(k - 1) \cap new = {}
        BY <2>1
    <2>3. IsFiniteSet(span) /\ Cardinality(span) = at[k + 1] - at[k]
        <3>1. at[k] \in Int /\ at[k + 1] - 1 \in Int
            BY <2>1
        <3>2. IsFiniteSet(span) /\ Cardinality(span) =
                IF at[k] > at[k + 1] - 1 THEN 0 ELSE (at[k + 1] - 1) - at[k] + 1
            BY <3>1, FS_Interval
        <3> HIDE DEF span, Spans, Accumulates
        <3> QED
            BY <2>1, <3>2
    <2>4. total[k] = total[k - 1] + gain[k]
        <3>1. k \in 0..n /\ k # 0
            OBVIOUS
        <3> QED
            BY <3>1
    <2>5. IsFiniteSet(new) /\ Cardinality(new) = gain[k]
        <3>1. CASE gain[k] = at[k + 1] - at[k] /\ \A t \in span : t \in H
            <4>1. new = span
                BY <3>1
            <4> HIDE DEF new, span
            <4> QED
                BY <2>3, <3>1, <4>1
        <3>2. CASE gain[k] = 0 /\ \A t \in span : t \notin H
            <4>1. new = {}
                BY <3>2
            <4> HIDE DEF new, span
            <4> QED
                BY <3>2, <4>1, FS_EmptySet
        <3> QED
            BY <3>1, <3>2
    <2>6. Cardinality(upTo(k)) = Cardinality(upTo(k - 1)) + Cardinality(new)
        <3>1. IsFiniteSet(upTo(k - 1)) /\ Cardinality(upTo(k - 1)) \in Nat /\ Cardinality(new) \in Nat
            BY <1>1, <2>1, <2>5, FS_CardinalityType
        <3>2. Cardinality(upTo(k - 1) \cap new) = 0
            BY <2>2, FS_EmptySet
        <3> HIDE DEF upTo, new
        <3>3. Cardinality(upTo(k - 1) \cup new) =
                Cardinality(upTo(k - 1)) + Cardinality(new) - Cardinality(upTo(k - 1) \cap new)
            BY <2>5, <3>1, FS_Union
        <3> QED
            BY <2>2, <3>1, <3>2, <3>3
    <2> HIDE DEF upTo, new
    <2> QED
        BY <1>3, <2>1, <2>4, <2>5, <2>6
<1>4. bad = {}
    <2> SUFFICES ASSUME bad # {} PROVE FALSE
        OBVIOUS
    <2>1. PICK k \in bad : \A l \in bad : k <= l
        <3>1. bad \subseteq Nat
            OBVIOUS
        <3> HIDE DEF bad
        <3> QED
            BY <3>1, LeastNumber
    <2> HIDE DEF Right
    <2>2. k # 0 /\ k \in 1..n /\ k - 1 \in 0..n
        BY <1>2, <2>1
    <2>3. k - 1 \notin bad
        BY <2>1, <2>2
    <2> QED
        BY <1>3, <2>1, <2>2, <2>3
<1>5. Right(n)
    <2> HIDE DEF Right
    <2> QED
        BY <1>4
<1> QED
    BY <1>5

\* The change that is in force at an instant.
LEMMA InForce ==
    ASSUME HistoryInv, NEW t \in Nat, NEW k \in DOMAIN Past, Past[k].at <= t,
           k < Len(Past) => t < Past[k + 1].at
    PROVE  Max({i \in DOMAIN Past : Past[i].at <= t}) = k
<1> DEFINE known == {i \in DOMAIN Past : Past[i].at <= t}
<1>1. DOMAIN Past = 1..Len(Past) /\ Len(Past) \in Nat
    BY PastFacts
<1>2. k \in known /\ known \subseteq 0..Len(Past)
    BY <1>1
<1>3. Max(known) \in known /\ k <= Max(known)
    <2> HIDE DEF known
    <2> QED
        BY <1>1, <1>2, GreatestNumber
<1>4. ASSUME NEW m \in known, k < m PROVE FALSE
    <2>1. k < Len(Past) /\ k + 1 \in DOMAIN Past /\ m \in DOMAIN Past
        BY <1>1, <1>4
    <2>2. k + 1 = m \/ k + 1 < m
        BY <1>1, <1>4
    <2>3. Past[k + 1].at <= Past[m].at
        BY <2>1, <2>2, PastOrder
    <2> QED
        BY <1>4, <2>1, <2>3, PastFacts
<1> HIDE DEF known
<1>5. Max(known) = k
    <2>1. known \subseteq Nat
        BY <1>1, <1>2
    <2> QED
        BY <1>2, <1>3, <1>4, <2>1
<1> QED
    BY <1>5 DEF known

\* duration_in_state adds up the instants at which the state was in force.
LEMMA DurationIsRight ==
    ASSUME HistoryInv, AskFresh, Looking, NEW s \in States
    PROVE  IF ask.complete THEN DurationInState(s) = Cardinality(Lasting(s))
                           ELSE DurationInState(s) <= Cardinality(Lasting(s))
<1>1. PICK f : /\ Tells(f)
               /\ ask.complete => \E b : Opens(b, f)
               /\ ~ask.complete => ask.baseline = ""
    BY PointsTell
<1> DEFINE c == Extent
           first == [state |-> ask.baseline, at |-> ask.since]
           line == <<first>> \o historyPoints
           n == c + 1
           at == [i \in 1..(n + 1) |-> IF i = n + 1 THEN now ELSE line[i].at]
           gain == [i \in 1..n |-> IF line[i].state = s THEN at[i + 1] - at[i] ELSE 0]
           right == {t \in Lasting(s) : ask.complete \/ at[2] <= t}
           span(i) == at[i]..(at[i + 1] - 1)
<1>2. /\ c \in Nat /\ n \in Nat /\ now \in Nat /\ ask.since \in Nat /\ ask.since <= now
      /\ f \in [1..c -> DOMAIN Past]
    <2>1. c \in Nat /\ f \in [1..c -> DOMAIN Past]
        BY <1>1, ShownFacts DEF Tells
    <2> QED
        BY <2>1, QuestionFacts
<1>3. /\ c > 0 => f[c] = Len(Past)
      /\ \A m \in 1..c : m < c => f[m + 1] = f[m] \/ f[m + 1] = f[m] + 1
    BY <1>1 DEF Tells
<1>4. /\ Len(line) = n /\ line[1] = first
      /\ \A i \in 1..c : line[i + 1].state = Past[f[i]].state
      /\ \A i \in 1..c : line[i + 1].at = IF Past[f[i]].at >= ask.since THEN Past[f[i]].at ELSE ask.since
    <2> DEFINE points == historyPoints
    <2>1. /\ points \in Seq([state : States, at : Nat]) /\ Len(points) = c
          /\ \A i \in 1..c : points[i].state = Past[f[i]].state
          /\ \A i \in 1..c : points[i].at = IF Past[f[i]].at >= ask.since THEN Past[f[i]].at ELSE ask.since
        BY <1>1, PointValues
    <2> HIDE DEF points, first
    <2>2. \E T : points \in Seq(T)
        BY <2>1
    <2>3. PICK T : points \in Seq(T)
        BY <2>2
    <2>4. points \in Seq(T \cup {first}) /\ <<first>> \in Seq(T \cup {first})
        BY <2>3
    <2>5. /\ Len(<<first>> \o points) = 1 + c
          /\ \A i \in 1..(1 + c) : (<<first>> \o points)[i] = IF i <= 1 THEN <<first>>[i] ELSE points[i - 1]
        BY <2>1, <2>4, ConcatProperties
    <2>6. \A i \in 1..c : (<<first>> \o points)[i + 1] = points[i]
        BY <1>2, <2>5
    <2>7. (<<first>> \o points)[1] = first
        BY <1>2, <2>5
    <2> HIDE DEF c
    <2>8. line = <<first>> \o points
        BY DEF points
    <2> QED
        BY <1>2, <2>1, <2>5, <2>6, <2>7, <2>8
<1> HIDE DEF line
<1>5. \A i \in 1..c : /\ f[i] \in DOMAIN Past /\ Past[f[i]].at \in Nat /\ Past[f[i]].at <= now
                      /\ line[i + 1].at \in Nat /\ ask.since <= line[i + 1].at /\ line[i + 1].at <= now
                      /\ Past[f[i]].at <= line[i + 1].at
    <2> TAKE i \in 1..c
    <2>1. f[i] \in DOMAIN Past
        BY <1>2
    <2>2. Past[f[i]].at \in Nat /\ Past[f[i]].at <= now
        BY <2>1, PastFacts
    <2> QED
        BY <1>2, <1>4, <2>1, <2>2
<1>6. /\ at[1] = ask.since /\ at[n + 1] = now
      /\ \A i \in 1..c : at[i + 1] = line[i + 1].at
    <2>1. 1 \in 1..(n + 1) /\ n + 1 \in 1..(n + 1) /\ 1 # n + 1
        BY <1>2
    <2>2. \A i \in 1..c : i + 1 \in 1..(n + 1) /\ i + 1 # n + 1
        BY <1>2
    <2> QED
        BY <1>4, <2>1, <2>2
<1>7. \A i \in 1..(n + 1) : /\ i = 1 \/ i = n + 1 \/ (i - 1 \in 1..c /\ (i - 1) + 1 = i)
    BY <1>2
<1>8. \A i \in 1..(n + 1) : at[i] \in Nat /\ ask.since <= at[i] /\ at[i] <= now
    <2> TAKE i \in 1..(n + 1)
    <2>1. CASE i = 1
        BY <1>2, <1>6, <2>1
    <2>2. CASE i = n + 1
        BY <1>2, <1>6, <2>2
    <2>3. CASE i - 1 \in 1..c /\ (i - 1) + 1 = i
        BY <1>5, <1>6, <2>3
    <2> HIDE DEF at
    <2> QED
        BY <1>7, <2>1, <2>2, <2>3
<1>9. \A i, j \in 1..c : i < j => at[i + 1] <= at[j + 1]
    <2> SUFFICES ASSUME NEW i \in 1..c, NEW j \in 1..c, i < j PROVE at[i + 1] <= at[j + 1]
        OBVIOUS
    <2>1. f[i] <= f[j] /\ f[i] \in DOMAIN Past /\ f[j] \in DOMAIN Past
        BY <1>1, <1>2, TellsInOrder
    <2>2. Past[f[i]].at <= Past[f[j]].at
        BY <2>1, PastOrder
    <2>3. Past[f[i]].at \in Nat /\ Past[f[j]].at \in Nat
        BY <2>1, PastFacts
    <2> HIDE DEF at
    <2>4. /\ at[i + 1] = IF Past[f[i]].at >= ask.since THEN Past[f[i]].at ELSE ask.since
          /\ at[j + 1] = IF Past[f[j]].at >= ask.since THEN Past[f[j]].at ELSE ask.since
        BY <1>4, <1>6
    <2> QED
        BY <1>2, <2>2, <2>3, <2>4
<1>10. \A i \in 1..n : at[i] <= at[i + 1]
    <2> TAKE i \in 1..n
    <2> HIDE DEF at
    <2>1. i \in 1..(n + 1) /\ i + 1 \in 1..(n + 1)
        BY <1>2
    <2>2. CASE i = 1
        BY <1>6, <1>8, <2>1, <2>2
    <2>3. CASE i = n
        BY <1>6, <1>8, <2>1, <2>3
    <2>4. CASE i # 1 /\ i # n
        <3>1. i - 1 \in 1..c /\ i \in 1..c /\ i - 1 < i /\ (i - 1) + 1 = i
            BY <1>2, <2>4
        <3> QED
            BY <1>9, <3>1
    <2> QED
        BY <2>2, <2>3, <2>4
<1>11. \A i \in 1..n : gain[i] = IF line[i].state = s THEN at[i + 1] - at[i] ELSE 0
    OBVIOUS
<1>12. gain \in [1..n -> Int]
    <2>1. \A i \in 1..n : at[i + 1] - at[i] \in Int
        <3> HIDE DEF at
        <3>1. \A i \in 1..n : i \in 1..(n + 1) /\ i + 1 \in 1..(n + 1)
            BY <1>2
        <3> QED
            BY <1>8, <3>1
    <2> HIDE DEF at
    <2> QED
        BY <2>1
<1> HIDE DEF at, gain
\* Throughout a span the change it begins with is in force.
<1>13. ASSUME NEW i \in 1..n, i # 1 \/ ask.complete, NEW t \in span(i)
       PROVE  \E k \in DOMAIN Past :
                 /\ Past[k].state = line[i].state /\ Past[k].at <= t
                 /\ k < Len(Past) => t < Past[k + 1].at
    <2>1. /\ i \in 1..(n + 1) /\ i + 1 \in 1..(n + 1) /\ t \in Nat /\ at[i] <= t /\ t < at[i + 1]
          /\ ask.since <= t
        <3>1. i \in 1..(n + 1) /\ i + 1 \in 1..(n + 1)
            BY <1>2
        <3>2. at[i] \in Nat /\ at[i + 1] \in Nat /\ ask.since <= at[i]
            BY <1>8, <3>1
        <3> QED
            BY <1>2, <3>1, <3>2
    <2>2. CASE i = 1
        <3>1. PICK b : Opens(b, f)
            BY <1>1, <1>13, <2>2
        <3>2. b \in DOMAIN Past /\ Past[b].state = ask.baseline /\ Past[b].at \in Nat
            BY <3>1, PastFacts DEF Opens
        <3>3. Past[b].at < ask.since
            BY <1>2, <3>1, <3>2, EarlierSecond DEF Opens
        <3>4. ASSUME b < Len(Past) PROVE t < Past[b + 1].at
            <4>1. c > 0 /\ f[1] = b + 1 /\ 1 \in 1..c
                <5>1. Extent = 0 => b = Len(Past)
                    BY <3>1 DEF Opens
                <5>2. Extent > 0
                    BY <1>2, <3>4, <5>1, PastFacts
                <5> QED
                    BY <1>2, <3>1, <5>2 DEF Opens
            <4>2. at[2] = IF Past[b + 1].at >= ask.since THEN Past[b + 1].at ELSE ask.since
                BY <1>4, <1>6, <4>1
            <4> QED
                BY <1>2, <1>5, <2>1, <2>2, <4>1, <4>2
        <3>5. line[1].state = ask.baseline
            BY <1>4
        <3> QED
            BY <1>2, <2>1, <2>2, <3>2, <3>3, <3>4, <3>5
    <2>3. CASE i # 1
        <3> DEFINE j == i - 1
        <3>1. j \in 1..c /\ j + 1 = i
            BY <1>2, <2>3
        <3>2. f[j] \in DOMAIN Past /\ Past[f[j]].state = line[i].state
            BY <1>2, <1>4, <3>1
        <3>3. Past[f[j]].at <= t
            BY <1>5, <1>6, <2>1, <3>1
        <3>4. ASSUME f[j] < Len(Past) PROVE t < Past[f[j] + 1].at
            <4>1. j < c
                <5>1. j = c => f[j] = Len(Past)
                    BY <1>2, <1>3, <3>1
                <5> QED
                    BY <1>2, <3>1, <3>4, <5>1, PastFacts
            <4>2. j + 1 \in 1..c /\ (f[j + 1] = f[j] \/ f[j + 1] = f[j] + 1)
                BY <1>2, <1>3, <3>1, <4>1
            <4>3. at[i + 1] = IF Past[f[j + 1]].at >= ask.since THEN Past[f[j + 1]].at ELSE ask.since
                BY <1>4, <1>6, <3>1, <4>2
            <4>4. at[i] = IF Past[f[j]].at >= ask.since THEN Past[f[j]].at ELSE ask.since
                BY <1>4, <1>6, <3>1
            <4>5. f[j + 1] # f[j]
                BY <1>2, <1>5, <2>1, <3>1, <4>3, <4>4
            <4> QED
                BY <1>2, <1>5, <2>1, <4>2, <4>3, <4>5
        <3> QED
            BY <3>2, <3>3, <3>4
    <2> QED
        BY <2>2, <2>3
<1>14. \A t \in Nat : t \in Lasting(s) <=>
            /\ ask.since <= t /\ t < now
            /\ Past[Max({i \in DOMAIN Past : Past[i].at <= t})].state = s
    BY <1>2 DEF Lasting, Past
<1>15. \A i \in 1..n :
        \/ gain[i] = at[i + 1] - at[i] /\ \A t \in at[i]..(at[i + 1] - 1) : t \in right
        \/ gain[i] = 0 /\ \A t \in at[i]..(at[i + 1] - 1) : t \notin right
    <2> TAKE i \in 1..n
    <2>1. i \in 1..(n + 1) /\ i + 1 \in 1..(n + 1) /\ 2 \in 1..(n + 1)
        BY <1>2
    <2>2. /\ at[i] \in Nat /\ at[i + 1] \in Nat /\ at[2] \in Nat
          /\ ask.since <= at[i] /\ at[i + 1] <= now
        BY <1>8, <2>1
    <2>3. \A t \in span(i) : t \in Nat /\ ask.since <= t /\ t < now /\ at[i] <= t /\ t < at[i + 1]
        BY <1>2, <2>2
    <2>4. CASE i = 1 /\ ~ask.complete
        <3>1. line[1].state = ""
            <4>1. ask.baseline = ""
                BY <1>1, <2>4
            <4>2. line[1].state = ask.baseline
                BY <1>4
            <4> QED
                BY <4>1, <4>2
        <3>2. s # ""
            BY DEF States
        <3>3. gain[i] = 0
            BY <1>11, <2>4, <3>1, <3>2
        <3>4. \A t \in span(i) : t \notin right
            BY <2>2, <2>3, <2>4
        <3> QED
            BY <3>3, <3>4
    <2>5. CASE i # 1 \/ ask.complete
        <3>1. \A t \in span(i) : t \in Lasting(s) <=> line[i].state = s
            <4> TAKE t \in span(i)
            <4>1. PICK k \in DOMAIN Past :
                    /\ Past[k].state = line[i].state /\ Past[k].at <= t
                    /\ k < Len(Past) => t < Past[k + 1].at
                BY <1>13, <2>5
            <4>2. Max({m \in DOMAIN Past : Past[m].at <= t}) = k
                BY <2>3, <4>1, InForce
            <4> QED
                BY <1>14, <2>3, <4>1, <4>2
        <3>2. \A t \in span(i) : ask.complete \/ at[2] <= t
            <4>1. ask.complete \/ at[2] <= at[i]
                <5>1. CASE i = 2
                    BY <2>2, <5>1
                <5>2. CASE i # 1 /\ i # 2
                    <6>1. 1 \in 1..c /\ i - 1 \in 1..c /\ 1 < i - 1 /\ (i - 1) + 1 = i /\ 1 + 1 = 2
                        BY <1>2, <5>2
                    <6> QED
                        BY <1>9, <6>1
                <5> QED
                    BY <2>5, <5>1, <5>2
            <4> QED
                BY <2>2, <2>3, <4>1
        <3>3. CASE line[i].state = s
            BY <1>11, <3>1, <3>2, <3>3
        <3>4. CASE line[i].state # s
            BY <1>11, <3>1, <3>4
        <3> QED
            BY <3>3, <3>4
    <2> QED
        BY <2>4, <2>5
<1>16. DurationInState(s) = Cardinality({t \in at[1]..(at[n + 1] - 1) : t \in right})
    <2> DEFINE end(i) == IF i < Len(line) THEN line[i + 1].at ELSE Max({now, line[i].at})
               sum[i \in 0..Len(line)] ==
                    IF i = 0 THEN 0
                    ELSE sum[i - 1] + IF line[i].state = s THEN end(i) - line[i].at ELSE 0
    <2>1. DurationInState(s) = sum[Len(line)]
        BY DEF DurationInState, line
    <2>2. \A i \in 1..n : (IF line[i].state = s THEN end(i) - line[i].at ELSE 0) = gain[i]
        <3> TAKE i \in 1..n
        <3>1. i \in 1..(n + 1) /\ i # n + 1 /\ at[i] = line[i].at /\ at[i] \in Nat /\ at[i] <= now
            BY <1>2, <1>8 DEF at
        <3>2. end(i) = at[i + 1]
            <4>1. CASE i < n
                <5>1. i \in 1..c
                    BY <1>2, <4>1
                <5> QED
                    BY <1>4, <1>6, <4>1, <5>1
            <4>2. CASE i = n
                <5>1. Max({now, line[i].at}) = now
                    BY <1>2, <3>1, GreaterOfTwo
                <5> QED
                    BY <1>2, <1>4, <1>6, <4>2, <5>1
            <4> QED
                BY <1>2, <4>1, <4>2
        <3> QED
            BY <1>11, <3>1, <3>2
    <2>3. PICK g : g = [i \in 0..n |-> IF i = 0 THEN 0 ELSE g[i - 1] + gain[i]]
        BY <1>2, <1>12, RunningTotal
    <2>4. sum = [i \in 0..n |-> IF i = 0 THEN 0 ELSE sum[i - 1] + gain[i]]
        <3>1. \A i \in 0..n : i = 0 \/ i \in 1..n
            BY <1>2
        <3> DEFINE add(i) == IF line[i].state = s THEN end(i) - line[i].at ELSE 0
        <3>2. \A i \in 1..n : add(i) = gain[i]
            BY <2>2
        <3>3. sum = CHOOSE h : h = [i \in 0..Len(line) |-> IF i = 0 THEN 0 ELSE h[i - 1] + add(i)]
            OBVIOUS
        <3> HIDE DEF end, add, n
        <3>4. g = [i \in 0..n |-> IF i = 0 THEN 0 ELSE g[i - 1] + add(i)]
            BY <2>3, <3>1, <3>2
        <3> HIDE DEF sum
        <3>5. sum = [i \in 0..n |-> IF i = 0 THEN 0 ELSE sum[i - 1] + add(i)]
            BY <1>4, <3>3, <3>4
        <3> QED
            BY <3>1, <3>2, <3>5
    <2>5. sum[n] = Cardinality({t \in at[1]..(at[n + 1] - 1) : t \in right})
        <3> HIDE DEF sum, right, n
        <3>1. n \in Nat
            BY <1>2
        <3>2. Spans(n, at, right, gain)
            BY <1>8, <1>10, <1>15 DEF Spans
        <3>3. Accumulates(sum, n, gain)
            BY <2>4 DEF Accumulates
        <3> QED
            BY <3>1, <3>2, <3>3, SumOfSpans
    <2> HIDE DEF sum
    <2> QED
        BY <1>4, <2>1, <2>5
<1>17. {t \in at[1]..(at[n + 1] - 1) : t \in right} = right
    <2>1. \A t \in right : t \in ask.since..(now - 1)
        BY DEF Lasting
    <2> QED
        BY <1>6, <2>1
<1>18. IsFiniteSet(Lasting(s)) /\ right \in SUBSET Lasting(s)
    <2>1. IsFiniteSet(ask.since..(now - 1))
        BY <1>2, FS_Interval
    <2>2. Lasting(s) \in SUBSET (ask.since..(now - 1))
        BY DEF Lasting
    <2> QED
        BY <2>1, <2>2, FS_Subset
<1>19. Cardinality(right) <= Cardinality(Lasting(s))
    <2> HIDE DEF right
    <2> QED
        BY <1>18, FS_Subset
<1>20. ask.complete => right = Lasting(s)
    OBVIOUS
<1> HIDE DEF right
<1> QED
    BY <1>16, <1>17, <1>19, <1>20

\* The aggregates and rows a script is told are those of what really happened, for any
\* clock, rules, retention and number of writes, restarts and purges.
THEOREM AggregatesTellTruth == HistorySpec => []AggregatesAreRight
<1>1. HistoryInit => HistoryInv /\ AskFresh
    <2>1. HistoryInit => AskFresh
        BY DEF HistoryInit, AskFresh
    <2> QED
        BY <2>1, HistoryInitInv
<1>2. (HistoryInv /\ AskFresh) /\ [HistoryNext]_historyVars => (HistoryInv /\ AskFresh)'
    BY HistoryNextInv, AskStep
<1>3. HistoryInv /\ AskFresh => AggregatesAreRight
    <2> SUFFICES ASSUME HistoryInv, AskFresh, Looking
                 PROVE  /\ \A s \in States :
                            IF ask.complete THEN DurationInState(s) = Cardinality(Lasting(s))
                                            ELSE DurationInState(s) <= Cardinality(Lasting(s))
                        /\ \A into \in SUBSET States :
                            /\ CountChanges(into) <= Cardinality(ChangedSince(into, Sec, ask.since))
                            /\ ask.complete =>
                                CountChanges(into) >=
                                    Cardinality(ChangedSince(into, LAMBDA t : t, ask.since))
                        /\ HistoryIsRight(GetHistory(ask.since))
        BY DEF AggregatesAreRight, Looking
    <2>1. \A s \in States :
            IF ask.complete THEN DurationInState(s) = Cardinality(Lasting(s))
                            ELSE DurationInState(s) <= Cardinality(Lasting(s))
        BY DurationIsRight
    <2> QED
        BY <2>1, CountIsRight, RowsShown
<1> QED
    BY <1>1, <1>2, <1>3, PTL DEF HistorySpec

=============================================================================
