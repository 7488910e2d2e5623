------------------------------ MODULE History -------------------------------
(***************************************************************************)
(* The state_history table over the life of the daemon: the rows that      *)
(* events and the seed of each connection append through the write queue,  *)
(* the purge of internal/purge, one DELETE at a time, and the queries of   *)
(* internal/state/tracker.go that turn the rows back into a timeline.  An  *)
(* event is heard or it is not, and an answer to get_states is installed   *)
(* as it is given: how the two overtake each other is in StateMirror.      *)
(*                                                                         *)
(* Time is in ticks, PerSecond of them to a second: stamps are compared as *)
(* strings, and some have the fraction of a second and some have not.  A   *)
(* table is a sequence, in the order of the AUTOINCREMENT id.  changed_at  *)
(* is Home Assistant's last_changed: a write that leaves the state as it   *)
(* is, of an attribute only, keeps it.                                     *)
(***************************************************************************)
EXTENDS Integers, Sequences, SequencesExt, FiniteSetsExt

CONSTANTS
    Light, Automation,  \* entities
    PerSecond,
    Retention, Rules,   \* seconds; [pattern, days] in the order of the options,
                        \* a pattern being the entities its GLOB matches
    Limit,              \* of GetHistory
    Sinces,             \* the instants scripts ask about
    MaxNow, MaxWrites, MaxFailures  \* bounds: ticks, writes in Home Assistant, crashes
                                   \* and batches that are dropped

Recorded == {Light, Automation}

ASSUME HistoryAssumption ==
    /\ Light # Automation
    /\ PerSecond \in Nat \ {0} /\ Retention \in Nat \ {0} /\ Limit \in Nat /\ Sinces \subseteq Nat
    /\ Rules \in Seq([pattern : SUBSET Recorded, days : Int])
    /\ MaxNow \in Nat /\ MaxWrites \in Nat /\ MaxFailures \in Nat

VARIABLES
    now, writes, failures,
    ha,         \* entity -> what Home Assistant says of it: [state, attrs, at, ctx]
                \* ("gone": that it has no such entity, since at)
    truth,      \* history variable: entity -> every state it had, [at, state,
                \* by, touched]: whose write it was, and whether an attribute followed
    up,         \* the daemon runs
    mem,        \* Tracker.mem: entity -> its record, if it has one
    seedRows,   \* the rows Seed has still to enqueue
    queue,      \* Tracker.queue
    table,      \* state_history
    untold,     \* history variable: entity -> when it changed and no row tells of it
    purge,      \* [at, now]: the DELETE RunOnce is about to make, and its time
    ask         \* a script's query, between its two SELECTs

houseVars == <<writes, ha, truth>>
rowVars == <<seedRows, queue, table>>
historyVars == <<now, failures, houseVars, up, mem, rowVars, untold, purge, ask>>

Sec(t) == t \div PerSecond
States == {"on", "off"}

\* Contexts: of a device that reports in, of a run of the automation, a person
\* having started it, and of what that run does.
NoContext == [id |-> "", parent |-> "", user |-> ""]
Device == [id |-> "device", parent |-> "", user |-> ""]
Run == [id |-> "run", parent |-> "", user |-> "person"]
Child == [id |-> "child", parent |-> "run", user |-> ""]

\* What the mirror and the table keep of an entity.
Record(h) == [state |-> h.state, attrs |-> h.attrs, at |-> h.at]
StateRow(e, h) == [entity |-> e, state |-> h.state, attrs |-> h.attrs, at |-> h.at, ctx |-> h.ctx]

Idle == [at |-> 0, now |-> 0]
NoAsk == [at |-> "idle", since |-> 0, baseline |-> "", complete |-> FALSE, torn |-> FALSE]
Nothing == [e \in Recorded |-> {}]

HistoryInit ==
    /\ now = 0 /\ writes = 0 /\ failures = 0
    /\ ha = [e \in Recorded |-> [state |-> "off", attrs |-> 0, at |-> 0, ctx |-> NoContext]]
    /\ truth = [e \in Recorded |-> <<[at |-> 0, state |-> "off", by |-> NoContext, touched |-> FALSE]>>]
    /\ up \in BOOLEAN
    /\ mem = IF up THEN [e \in Recorded |-> {Record(ha[e])}] ELSE Nothing
    /\ seedRows = {} /\ queue = <<>>
    /\ table = <<StateRow(Light, ha[Light]), StateRow(Automation, ha[Automation])>>
    /\ untold = Nothing
    /\ purge = Idle /\ ask = NoAsk

-----------------------------------------------------------------------------
(* The rows *)

\* A row waits in the queue, and a query lasts, for milliseconds: the clock only moves
\* when none does.
Tick ==
    /\ now < MaxNow /\ now' = now + 1
    /\ seedRows = {} /\ queue = <<>> /\ ask = NoAsk
    /\ UNCHANGED <<failures, houseVars, up, mem, rowVars, untold, purge, ask>>

\* Home Assistant writes an entity, or removes it.  A daemon that is up hears of it,
\* unless the connection is down or Client.Events is full: it applies the event and,
\* when the entity is still there, enqueues its row.
Write(e, new, heard) ==
    /\ writes < MaxWrites /\ writes' = writes + 1
    /\ heard => up
    /\ ha' = [ha EXCEPT ![e] = new]
    /\ mem' = IF ~heard THEN mem
              ELSE [mem EXCEPT ![e] = IF new.state = "gone" THEN {} ELSE {Record(new)}]
    /\ LET changed == new.state # ha[e].state
           recorded == heard /\ new.state # "gone"
       IN  /\ truth' = IF changed
                       THEN [truth EXCEPT ![e] = Append(@, [at |-> now, state |-> new.state,
                                                            by |-> new.ctx, touched |-> FALSE])]
                       ELSE [truth EXCEPT ![e][Len(truth[e])].touched = TRUE]
           /\ queue' = IF recorded THEN Append(queue, StateRow(e, new)) ELSE queue
           /\ untold' = [untold EXCEPT ![e] = IF recorded THEN @ \ {new.at}
                                              ELSE IF changed THEN @ \cup {now} ELSE @]
    /\ UNCHANGED <<now, failures, up, seedRows, table, purge, ask>>

\* Whether the automation has run, so that what it does can follow.
HasRun == ha[Automation].ctx = Run

ChangeLight(heard) ==
    \E s \in States \ {ha[Light].state}, ctx \in {Device} \cup (IF HasRun THEN {Child} ELSE {}) :
        /\ ha[Light].at < now
        /\ Write(Light, [ha[Light] EXCEPT !.state = s, !.at = now, !.ctx = ctx], heard)
RemoveLight(heard) ==
    /\ ha[Light].state # "gone" /\ ha[Light].at < now
    /\ Write(Light, [ha[Light] EXCEPT !.state = "gone", !.at = now, !.ctx = Device], heard)

\* An attribute of the light, and last_triggered of the automation.
TouchLight(heard) ==
    /\ ha[Light].state # "gone"
    /\ Write(Light, [ha[Light] EXCEPT !.attrs = 1 - @, !.ctx = Device], heard)
RunAutomation(heard) ==
    ~HasRun /\ Write(Automation, [ha[Automation] EXCEPT !.attrs = 1, !.ctx = Run], heard)

\* writeBatch.
Commit ==
    /\ up /\ queue # <<>>
    /\ table' = table \o queue /\ queue' = <<>>
    /\ UNCHANGED <<now, failures, houseVars, up, mem, seedRows, untold, purge, ask>>

\* The rows of dropped go, and what only they told of.
Untold(dropped, kept) ==
    [e \in Recorded |-> untold[e] \cup
        {t \in {row.at : row \in {r \in dropped : r.entity = e}} :
            \A row \in kept : row.entity = e => row.at # t}]

\* commitBatch, when the transaction fails twice.
DropBatch ==
    /\ up /\ queue # <<>>
    /\ failures < MaxFailures /\ failures' = failures + 1
    /\ queue' = <<>> /\ untold' = Untold(ToSet(queue), seedRows \cup ToSet(table))
    /\ UNCHANGED <<now, houseVars, up, mem, seedRows, table, purge, ask>>

\* The process ends: the mirror and what was queued are gone, the table stays.
Killed ==
    /\ up /\ failures < MaxFailures /\ failures' = failures + 1
    /\ up' = FALSE /\ mem' = Nothing /\ seedRows' = {} /\ queue' = <<>>
    /\ untold' = Untold(seedRows \cup ToSet(queue), ToSet(table))
    /\ purge' = Idle /\ ask' = NoAsk
    /\ UNCHANGED <<now, houseVars, table>>

Start ==
    /\ ~up /\ up' = TRUE
    /\ UNCHANGED <<now, failures, houseVars, mem, rowVars, untold, purge, ask>>

RowsOf(e) == {i \in DOMAIN table : table[i].entity = e}

\* The newest row of each entity, if it has one.
historyBaseline(e) ==
    {Record(table[i]) : i \in {k \in RowsOf(e) : \A j \in RowsOf(e) : j <= k}}

\* What Seed compares the answer with: the mirror, or the table when that is empty.
Baseline(e) == IF mem = Nothing THEN historyBaseline(e) ELSE mem[e]
Differs(e) ==
    \A known \in Baseline(e) : known.state # ha[e].state \/ known.attrs # ha[e].attrs

\* What Home Assistant says is one change ahead of what the daemon knows.
Behind(e) ==
    \E known \in Baseline(e) :
        Len(truth[e]) > 1 /\ known.at = truth[e][Len(truth[e]) - 1].at

\* A connection's get_states is answered: Seed installs what it says and has a row for
\* whatever differs.  It owes one to an entity that is a single change ahead.
Seed ==
    /\ up /\ seedRows = {}
    /\ LET there == {e \in Recorded : ha[e].state # "gone"}
       IN  /\ mem' = [e \in Recorded |-> IF e \in there THEN {Record(ha[e])} ELSE {}]
           /\ seedRows' = {StateRow(e, ha[e]) : e \in {f \in there : Differs(f)}}
           /\ untold' = [e \in Recorded |->
                  IF e \in there /\ (Differs(e) \/ Behind(e)) THEN untold[e] \ {ha[e].at} ELSE untold[e]]
    /\ UNCHANGED <<now, failures, houseVars, up, queue, table, purge, ask>>

\* The lock is released: an event's row may come first.
SeedEnqueue(row) ==
    /\ row \in seedRows
    /\ seedRows' = seedRows \ {row} /\ queue' = Append(queue, row)
    /\ UNCHANGED <<now, failures, houseVars, up, mem, table, untold, purge, ask>>

-----------------------------------------------------------------------------
(* The purge *)

\* New drops a rule without a pattern or with no days.  Rest stands for the last DELETE.
Kept == {i \in DOMAIN Rules : Rules[i].pattern # {} /\ Rules[i].days > 0}
Rest == Len(Rules) + 1
After(i) == Min({j \in Kept \cup {Rest} : j > i})

RunOnce ==
    /\ up /\ purge = Idle
    /\ purge' = [at |-> After(0), now |-> now]
    /\ UNCHANGED <<now, failures, houseVars, up, mem, rowVars, untold, ask>>

\* The DELETE at i is for the rule at i, the one at Rest for what no rule claims; the
\* stamp it compares with has whole seconds and a Z, which sorts after a fraction.
Days(i) == IF i \in Kept THEN Rules[i].days ELSE Retention
Claims_Own(i, e) == i \in Kept => e \in Rules[i].pattern
Claims(i, e) ==
    /\ i \in Kept => e \in Rules[i].pattern
    /\ \A j \in Kept : j < i => e \notin Rules[j].pattern
Expired(i, row) == Claims(i, row.entity) /\ Sec(row.at) <= Sec(purge.now) - Days(i)

\* The rows left of the table, in their order: the n-th is the one with n of them up to it.
Remaining(left) ==
    [n \in 1..Cardinality(left) |->
        table[CHOOSE i \in left : Cardinality({k \in left : k <= i}) = n]]

Delete ==
    /\ up /\ purge.at > 0
    /\ table' = Remaining({i \in DOMAIN table : ~Expired(purge.at, table[i])})
    /\ purge' = IF purge.at = Rest THEN Idle ELSE [purge EXCEPT !.at = After(purge.at)]
    /\ ask' = [ask EXCEPT !.torn = ask.at = "window" /\ (@ \/ table' # table)]
    /\ UNCHANGED <<now, failures, houseVars, up, mem, seedRows, queue, untold>>

\* A statement that fails ends the run until the next tick of the interval.
DeleteFails ==
    /\ up /\ purge.at > 0 /\ purge' = Idle
    /\ UNCHANGED <<now, failures, houseVars, up, mem, rowVars, untold, ask>>

-----------------------------------------------------------------------------
(* The queries *)

\* ORDER BY changed_at, id: the n-th row is the one with n of them up to it.
Earlier(i, j) == table[i].at < table[j].at \/ (table[i].at = table[j].at /\ i < j)
Ordered(S) ==
    [n \in 1..Cardinality(S) |->
        CHOOSE i \in S : Cardinality({k \in S : k = i \/ Earlier(k, i)}) = n]

\* The bound is the second since lies in, without a zone: every stamp of that second
\* is the longer string, and so not less than it.
Before(e, since) == {i \in RowsOf(e) : Sec(table[i].at) < Sec(since)}
Within(e, since) == RowsOf(e) \ Before(e, since)

\* The rows tell all there is to tell of the light: nothing is on its way to the table,
\* and no change is untold that came after a row that is left.
Told ==
    /\ up /\ queue = <<>> /\ seedRows = {}
    /\ \A t \in untold[Light] : \A i \in RowsOf(Light) : t < table[i].at

\* The first SELECT of historyPoints.  A query is torn when the rows did not tell all
\* there is when it read them, or a DELETE follows.
AskBaseline(since) ==
    /\ up /\ ask.at = "idle" /\ since <= now
    /\ LET rows == Ordered(Before(Light, since))
       IN  ask' = [at |-> "window", since |-> since, torn |-> ~Told, complete |-> rows # <<>>,
                   baseline |-> IF rows = <<>> THEN "" ELSE table[Last(rows)].state]
    /\ UNCHANGED <<now, failures, houseVars, up, mem, rowVars, untold, purge>>

\* The second one, and what DurationInState and CountChanges make of the two: the
\* answer is looked at in the step's first state.
AskWindow ==
    /\ up /\ ask.at = "window" /\ ask' = NoAsk
    /\ UNCHANGED <<now, failures, houseVars, up, mem, rowVars, untold, purge>>

\* A row of the second that is before since itself counts from since.
historyPoints_Unclamped ==
    [i \in 1..Cardinality(Within(Light, ask.since)) |->
        LET row == table[Ordered(Within(Light, ask.since))[i]]
        IN  [state |-> row.state, at |-> row.at]]
historyPoints ==
    [i \in 1..Cardinality(Within(Light, ask.since)) |->
        LET row == table[Ordered(Within(Light, ask.since))[i]]
        IN  [state |-> row.state, at |-> Max({row.at, ask.since})]]

DurationInState(state) ==
    LET line == <<[state |-> ask.baseline, at |-> ask.since]>> \o historyPoints
        end(i) == IF i < Len(line) THEN line[i + 1].at ELSE Max({now, line[i].at})
        total[i \in 0..Len(line)] ==
            IF i = 0 THEN 0
            ELSE total[i - 1] + IF line[i].state = state THEN end(i) - line[i].at ELSE 0
    IN  total[Len(line)]

CountChanges(into) ==
    LET points == historyPoints
        previous(i) == IF i = 1 THEN ask.baseline ELSE points[i - 1].state
    IN  Cardinality({i \in DOMAIN points :
            /\ points[i].state # previous(i) \/ (i = 1 /\ ~ask.complete)
            /\ points[i].state \in into})

GetHistory(since) ==
    LET rows == Ordered(Within(Light, since))
    IN  [i \in 1..Min({Len(rows), Limit}) |-> table[rows[i]]]

\* The newest row of an earlier second: a stamp of this second is the longer string.
WhoChangedRow(at) == {i \in Before(Light, at) : \A j \in Before(Light, at) \ {i} : Earlier(j, i)}

\* Another entity's row with that context; automations first.
causeOfContext(id) ==
    LET rows == {i \in DOMAIN table : table[i].ctx.id = id /\ table[i].entity # Light}
    IN  IF rows = {} THEN "" ELSE table[Min(rows)].entity

CausedBy_OwnId(ctx) == IF ctx.id = "" THEN "" ELSE causeOfContext(ctx.id)
CausedBy(ctx) ==
    IF ctx.id = "" THEN "" ELSE causeOfContext(IF ctx.parent = "" THEN ctx.id ELSE ctx.parent)

-----------------------------------------------------------------------------
HistoryNext ==
    \/ Tick
    \/ \E heard \in BOOLEAN :
        ChangeLight(heard) \/ RemoveLight(heard) \/ TouchLight(heard) \/ RunAutomation(heard)
    \/ Commit \/ DropBatch \/ Killed \/ Start
    \/ Seed \/ \E row \in seedRows : SeedEnqueue(row)
    \/ RunOnce \/ Delete \/ DeleteFails
    \/ \E since \in Sinces : AskBaseline(since)
    \/ AskWindow

HistorySpec == HistoryInit /\ [][HistoryNext]_historyVars

-----------------------------------------------------------------------------
(* Properties *)

Lasting(state) ==
    {t \in ask.since..(now - 1) :
        LET known == {i \in DOMAIN truth[Light] : truth[Light][i].at <= t}
        IN  truth[Light][Max(known)].state = state}
\* The changes into one of the states, by the instant they are counted from.
ChangedSince(into, instant(_), since) ==
    {i \in DOMAIN truth[Light] :
        truth[Light][i].state \in into /\ instant(truth[Light][i].at) >= instant(since)}

\* A row of the answer is a change that happened, they are in order and from the first
\* on; those that are missing of a complete history are later than the limit allows.
HistoryIsRight(rows) ==
    /\ \A n \in DOMAIN rows : \E i \in DOMAIN truth[Light] :
           truth[Light][i].at = rows[n].at /\ truth[Light][i].state = rows[n].state
    /\ \A n, m \in DOMAIN rows : n < m => rows[n].at <= rows[m].at
    /\ ask.complete => \A i \in ChangedSince(States, LAMBDA t : t, ask.since) :
           \/ \E n \in DOMAIN rows : rows[n].at = truth[Light][i].at
           \/ Len(rows) = Limit /\ \A n \in DOMAIN rows : rows[n].at <= truth[Light][i].at

\* duration_in_state, count_changes, of one state or any, and get_history against what
\* really happened, whatever the purge has left, the process has crashed and the second
\* hides: exact when the answer says that history reaches back to since, a lower bound
\* otherwise.  A change of the very second of since may count although it came before.
\* The known windows are the changes no row tells of (untold) while older rows are left:
\* those that were followed by another before a connection's Seed could tell of them,
\* events on a full channel and disconnects included; what only a dropped batch or the
\* queue of a crashed process told of; the removal of the entity, which has no row; a
\* cold start over rows that Seed and the event router enqueued in the wrong order.  One
\* more is a DELETE between the two SELECTs of one query (torn): the rows the baseline
\* was followed by are gone and the answer still says it is complete.
AggregatesAreRight ==
    ask.at = "window" /\ ~ask.torn /\ Told =>
        /\ \A state \in States :
            IF ask.complete
            THEN DurationInState(state) = Cardinality(Lasting(state))
            ELSE DurationInState(state) <= Cardinality(Lasting(state))
        /\ \A into \in SUBSET States :
            /\ CountChanges(into) <= Cardinality(ChangedSince(into, Sec, ask.since))
            /\ ask.complete =>
                CountChanges(into) >= Cardinality(ChangedSince(into, LAMBDA t : t, ask.since))
        /\ HistoryIsRight(GetHistory(ask.since))

\* who_changed finds the change that was in force when the second of at began, and
\* behind it the automation whose run it belongs to, as long as that run has a row:
\* not the light itself, nor anybody when a device reports in.  An attribute that was
\* written later takes the blame of the change before it.
CulpritIsRight ==
    Told => \A at \in 0..now : \A i \in WhoChangedRow(at) :
        LET past == {k \in DOMAIN truth[Light] : Sec(truth[Light][k].at) < Sec(at)}
            change == truth[Light][Max(past)]
            ran == \E j \in DOMAIN table : table[j].ctx = Run
        IN  /\ table[i].state = change.state
            /\ ~change.touched =>
                CausedBy(table[i].ctx) = IF change.by = Child /\ ran THEN Automation ELSE ""

\* The days of the first rule that is for the entity, however the rules overlap.
Window(e) ==
    LET claims == {i \in Kept : e \in Rules[i].pattern}
    IN  IF claims = {} THEN Retention ELSE Rules[Min(claims)].days

\* A purge, its DELETEs interleaved with the writer, takes no row within the window of
\* the first rule that is for its entity.
PurgeKeepsWindows ==
    [][\A row \in ToSet(table) \ ToSet(table') : Sec(row.at) <= Sec(now) - Window(row.entity)]_historyVars

=============================================================================
