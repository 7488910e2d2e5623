-------------------------------- MODULE Names --------------------------------
(***************************************************************************)
(* The mirror of Home Assistant's entity, device and area registries       *)
(* (internal/ha/names.go): main fetches all three before the scripts start *)
(* and the goroutine of Run fetches again those an event or a reconnect    *)
(* has marked stale.  A query and the events of a registry come over one   *)
(* connection, which is subscribed to the events only after it handed over *)
(* its states; the rest of the connection is in HaClient, and the other    *)
(* events that may fill Client.Events are left out.                        *)
(***************************************************************************)
EXTENDS Naturals, Sequences, FiniteSets, FiniteSetsExt, SequencesExt

CONSTANTS
    Contents,           \* source -> what that registry may list
    MaxEdits, MaxDials  \* bounds: edits of a registry, connections

Entities == 1
Devices == 2
Areas == 3
nameSources == {Entities, Devices, Areas}

ASSUME NamesAssumption ==
    /\ Contents \in [nameSources -> SUBSET UNION {Contents[s] : s \in nameSources}]
    /\ \A s \in nameSources : Contents[s] # {}
    /\ \A content \in Contents[Areas] : "" \notin DOMAIN content
    /\ MaxEdits \in Nat /\ MaxDials \in Nat \ {0}

VARIABLES
    reg, edits,     \* Home Assistant: source -> content, and how often it changed
    link, dials,    \* the connection, and how many there were
    states,         \* client.States holds a batch
    events,         \* client.Events, and what the socket holds of them
    main,           \* main waits for its first batch, refreshes, or has started the goroutines
    stale, signal,  \* Names.stale, Names.signal
    armed,          \* the timer of Run
    fetcher,        \* [at, source, raw]: the fetch under way, in main or in Run
    mirror,         \* Names.entities, devices and areas
    failed,         \* history variable: sources a fetch of which Home Assistant refused
    unseen          \* history variable: sources an edit of which no event tells

haVars == <<reg, edits>>
linkVars == <<link, dials, states>>
runVars == <<stale, signal, armed>>
pastVars == <<failed, unseen>>
namesVars == <<haVars, linkVars, events, main, runVars, fetcher, mirror, pastVars>>

NoFetch == [at |-> "idle", source |-> 0, raw |-> <<>>]

NamesInit ==
    /\ reg \in [nameSources -> UNION {Contents[s] : s \in nameSources}]
    /\ \A s \in nameSources : reg[s] \in Contents[s]
    /\ edits = 0
    /\ link = "down" /\ dials = 0 /\ states = FALSE /\ events = <<>>
    /\ main = "seed"
    /\ stale = {} /\ signal = FALSE /\ armed = FALSE
    /\ fetcher = NoFetch
    /\ mirror = [s \in nameSources |-> <<>>]
    /\ failed = {} /\ unseen = {}

-----------------------------------------------------------------------------
(* Home Assistant and the connection *)

\* A fetch will ask for s again.
Followed(s) ==
    \/ states \/ main = "seed" \/ s \in stale
    \/ main = "refresh" /\ (fetcher.source < s \/ (fetcher.source = s /\ fetcher.at = "ask"))

\* An edit, and its event.  There is none before the connection is subscribed, or if it
\* refused the subscription, and readLoop drops it when Client.Events is full.
Edit(s) ==
    /\ edits < MaxEdits /\ edits' = edits + 1
    /\ \E content \in Contents[s] \ {reg[s]} : reg' = [reg EXCEPT ![s] = content]
    /\ \E heard \in BOOLEAN :
          /\ heard => link = "reading"
          /\ events' = IF heard THEN Append(events, s) ELSE events
          /\ unseen' = IF heard \/ link \in {"down", "seeding"} \/ Followed(s) \/ s \in ToSet(events)
                       THEN unseen ELSE unseen \cup {s}
    /\ UNCHANGED <<linkVars, main, runVars, fetcher, mirror, failed>>

Connect ==
    /\ link = "down" /\ dials < MaxDials
    /\ link' = "seeding" /\ dials' = dials + 1
    /\ UNCHANGED <<haVars, states, events, main, runVars, fetcher, mirror, pastVars>>

\* A batch nobody took is replaced.
Seeded ==
    /\ link = "seeding" /\ link' = "seeded" /\ states' = TRUE
    /\ UNCHANGED <<haVars, dials, events, main, runVars, fetcher, mirror, pastVars>>

Subscribed ==
    /\ link = "seeded" /\ link' = "reading"
    /\ UNCHANGED <<haVars, dials, states, events, main, runVars, fetcher, mirror, pastVars>>

\* The events that have not left the socket are lost, and whoever waits for an answer
\* is told.  The bound keeps the last connection up.
Break ==
    /\ link # "down" /\ dials < MaxDials /\ link' = "down"
    /\ \E n \in 0..Len(events) : events' = SubSeq(events, 1, n)
    /\ fetcher' = IF fetcher.at = "answered" THEN [fetcher EXCEPT !.at = "lost"] ELSE fetcher
    /\ UNCHANGED <<haVars, dials, states, main, runVars, mirror, pastVars>>

-----------------------------------------------------------------------------
(* Changed and ChangedAll *)

Mark_FirstOnly(S) == stale' = stale \cup {Min(S)} /\ signal' = TRUE
Mark(S) == stale' = stale \cup S /\ signal' = TRUE

\* The event router.
Changed ==
    /\ main = "run" /\ events # <<>>
    /\ Mark({Head(events)}) /\ events' = Tail(events)
    /\ UNCHANGED <<haVars, linkVars, main, armed, fetcher, mirror, pastVars>>

\* The state-seed goroutine.
ChangedAll ==
    /\ main = "run" /\ states /\ states' = FALSE
    /\ Mark(nameSources)
    /\ UNCHANGED <<haVars, link, dials, events, main, armed, fetcher, mirror, pastVars>>

-----------------------------------------------------------------------------
(* Refresh and Run *)

Fetch(s) == [at |-> "ask", source |-> s, raw |-> <<>>]

Refresh ==
    /\ main = "seed" /\ states /\ states' = FALSE
    /\ main' = "refresh" /\ fetcher' = Fetch(Entities)
    /\ UNCHANGED <<haVars, link, dials, events, runVars, mirror, pastVars>>

\* Whatever Run does while it waits for the settle period is to wait for it again.
Signalled ==
    /\ main = "run" /\ fetcher = NoFetch /\ signal
    /\ signal' = FALSE /\ armed' = TRUE
    /\ UNCHANGED <<haVars, linkVars, events, main, stale, fetcher, mirror, pastVars>>

\* The next source of a pass; the mark goes before the question.
Continue_ClearLate(s) ==
    /\ fetcher' = IF \E t \in stale : t >= s
                  THEN Fetch(Min({t \in stale : t >= s}))
                  ELSE NoFetch
    /\ stale' = stale \ {s - 1}
Continue(s) ==
    LET due == {t \in stale : t >= s}
    IN  /\ fetcher' = IF due = {} THEN NoFetch ELSE Fetch(Min(due))
        /\ stale' = IF due = {} THEN stale ELSE stale \ {Min(due)}

Settled ==
    /\ main = "run" /\ fetcher = NoFetch /\ armed
    /\ armed' = FALSE
    /\ Continue(Entities)
    /\ UNCHANGED <<haVars, linkVars, events, main, signal, mirror, pastVars>>

\* Refresh goes on to the next source or, at the last or after a failure, returns.
AfterFetch(ok) ==
    IF main = "refresh"
    THEN /\ UNCHANGED stale
         /\ IF ok /\ fetcher.source # Areas
            THEN fetcher' = Fetch(fetcher.source + 1) /\ UNCHANGED main
            ELSE fetcher' = NoFetch /\ main' = "run"
    ELSE Continue(fetcher.source + 1) /\ UNCHANGED main

-----------------------------------------------------------------------------
(* A fetch *)

\* Home Assistant answers with what it has.
Query ==
    /\ fetcher.at = "ask" /\ link # "down"
    /\ fetcher' = [fetcher EXCEPT !.at = "answered", !.raw = reg[fetcher.source]]
    /\ unseen' = unseen \ {fetcher.source}
    /\ UNCHANGED <<haVars, linkVars, events, main, runVars, mirror, failed>>

\* There is no connection, or it broke.
QueryFails ==
    /\ fetcher.at = "lost" \/ (fetcher.at = "ask" /\ link = "down")
    /\ AfterFetch(FALSE)
    /\ UNCHANGED <<haVars, linkVars, events, signal, armed, mirror, pastVars>>

\* Home Assistant refuses, no answer comes in time or it cannot be decoded; a Refresh
\* gives up the sources after it.
Refused ==
    /\ fetcher.at = "answered"
    /\ failed' = failed \cup IF main = "refresh" THEN {s \in nameSources : s >= fetcher.source}
                             ELSE {fetcher.source}
    /\ AfterFetch(FALSE)
    /\ UNCHANGED <<haVars, linkVars, events, signal, armed, mirror, unseen>>

applyEntities(raw) == raw
applyAreas(raw) == raw
\* The name a user gave a device wins.
applyDevices(raw) ==
    [d \in DOMAIN raw |-> [name |-> IF raw[d].byUser = "" THEN raw[d].name ELSE raw[d].byUser,
                           area |-> raw[d].area, parent |-> raw[d].parent]]
Applied(s, raw) ==
    IF s = Entities THEN applyEntities(raw) ELSE IF s = Devices THEN applyDevices(raw) ELSE applyAreas(raw)

\* readLoop delivers the answer, or getStates, which hands over what is not its own.
Apply ==
    /\ fetcher.at = "answered" /\ link \in {"seeding", "reading"}
    /\ mirror' = [mirror EXCEPT ![fetcher.source] = Applied(fetcher.source, fetcher.raw)]
    /\ failed' = failed \ {fetcher.source}
    /\ AfterFetch(TRUE)
    /\ UNCHANGED <<haVars, linkVars, events, signal, armed, unseen>>

-----------------------------------------------------------------------------
(* The lookups, with "" for what is not listed *)

EntityName(id) == IF id \in DOMAIN mirror[Entities] THEN mirror[Entities][id].name ELSE ""

DeviceName(lookup) ==
    LET device == IF lookup \in DOMAIN mirror[Devices] THEN lookup
                  ELSE IF lookup \in DOMAIN mirror[Entities] THEN mirror[Entities][lookup].device
                  ELSE ""
    IN  IF device \in DOMAIN mirror[Devices] THEN mirror[Devices][device].name ELSE ""

NameOf(area) == IF area \in DOMAIN mirror[Areas] THEN mirror[Areas][area] ELSE ""

\* A child without an area of its own inherits its parent's, but no grandparent's.
deviceArea(id) ==
    IF id \notin DOMAIN mirror[Devices] THEN ""
    ELSE LET d == mirror[Devices][id]
             inherits == d.area = "" /\ d.parent \in DOMAIN mirror[Devices]
         IN  NameOf(IF inherits THEN mirror[Devices][d.parent].area ELSE d.area)

\* An entity's own area wins over its device's.
AreaName(lookup) ==
    IF lookup \in DOMAIN mirror[Areas] THEN NameOf(lookup)
    ELSE IF lookup \in DOMAIN mirror[Entities]
    THEN LET e == mirror[Entities][lookup]
         IN  IF e.area # "" THEN NameOf(e.area) ELSE deviceArea(e.device)
    ELSE deviceArea(lookup)

-----------------------------------------------------------------------------
NamesNext ==
    \/ \E s \in nameSources : Edit(s)
    \/ Connect \/ Seeded \/ Subscribed \/ Break
    \/ Changed \/ ChangedAll
    \/ Refresh \/ Signalled \/ Settled
    \/ Query \/ QueryFails \/ Refused \/ Apply

NamesSpec == NamesInit /\ [][NamesNext]_namesVars

\* The goroutines run, the timer ends, Home Assistant answers and the client reconnects.
FairSpec ==
    /\ NamesSpec
    /\ WF_namesVars(Connect) /\ WF_namesVars(Seeded) /\ WF_namesVars(Subscribed)
    /\ WF_namesVars(Changed) /\ WF_namesVars(ChangedAll)
    /\ WF_namesVars(Refresh) /\ WF_namesVars(Signalled) /\ WF_namesVars(Settled)
    /\ WF_namesVars(Query) /\ WF_namesVars(QueryFails) /\ WF_namesVars(Apply \/ Refused)

-----------------------------------------------------------------------------
(* Properties *)

\* Nothing that would make Run fetch is under way.
Quiet ==
    /\ main = "run" /\ link = "reading" /\ ~states /\ events = <<>>
    /\ stale = {} /\ ~signal /\ ~armed /\ fetcher = NoFetch

\* Three windows are known in which a change stays unnoticed until the next event of its
\* registry or the next reconnect: a fetch for it was refused or timed out; an edit after
\* the fetch that a connection's batch caused and before that connection is subscribed;
\* and an edit whose event found Client.Events full or its subscription refused, with no
\* fetch of the registry ahead.
Excused == failed \cup unseen

Ids == UNION {DOMAIN reg[s] \cup DOMAIN mirror[s] : s \in nameSources}

\* What Home Assistant's templates say: the first area that is set, of the entity, its
\* device and the device's parent.
FirstSet(line) ==
    LET set == {i \in 1..3 : line[i] # ""}
    IN  IF set = {} THEN "" ELSE line[Min(set)]
TrueArea(id) ==
    LET own == IF id \in DOMAIN reg[Entities] THEN reg[Entities][id].area ELSE ""
        device == IF id \in DOMAIN reg[Entities] THEN reg[Entities][id].device ELSE id
        areaOf(d) == IF d \in DOMAIN reg[Devices] THEN reg[Devices][d].area ELSE ""
        inherited == IF device \in DOMAIN reg[Devices] THEN areaOf(reg[Devices][device].parent) ELSE ""
        area == IF id \in DOMAIN reg[Areas] THEN id
                ELSE FirstSet(<<own, areaOf(device), inherited>>)
    IN  IF area \in DOMAIN reg[Areas] THEN reg[Areas][area] ELSE ""

\* Once the events are worked off, scripts are told the names and areas Home Assistant
\* has, however edits, lost events, broken connections and fetches interleaved, apart
\* from the registries in a known window.
NamesAreRight ==
    Quiet =>
        /\ \A s \in nameSources \ Excused : mirror[s] = Applied(s, reg[s])
        /\ Excused = {} => \A id \in Ids : AreaName(id) = TrueArea(id)

\* The mirror becomes what Home Assistant has and stays so, once the edits end and the
\* connection stays up.
NamesSettle ==
    <>[](\A s \in nameSources \ Excused : mirror[s] = Applied(s, reg[s]))

=============================================================================
