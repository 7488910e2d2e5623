----------------------------- MODULE MqttClient -----------------------------
(***************************************************************************)
(* The one connection to the MQTT broker, internal/mqtt/client.go, shared  *)
(* by every script: Start and the retries of a failed first connect, the   *)
(* two handlers the client library calls on goroutines of their own, the   *)
(* Subscribe calls of the scripts' main chunks, and the way of a message   *)
(* from the broker through the registry and the bounded channel of each    *)
(* script to its handlers.                                                 *)
(*                                                                         *)
(* Sessions are numbered in the order of the CONNECTs; the library         *)
(* reconnects by itself after the first one.  The broker forgets the       *)
(* subscriptions of a session that ends (CleanSession).                    *)
(***************************************************************************)
EXTENDS MqttTopics, FiniteSets, Functions

CONSTANTS
    Scripts,
    Asks,         \* script -> the filters its main chunk subscribes to, in order
    Topics,       \* topics the broker's other clients and mqtt.publish send to
    Retained,     \* those the broker keeps a retained message of
    InboxCap,     \* capacity of a runner's channel, 256 in the code
    MaxSessions, MaxLoads  \* bounds: sessions, loads of scripts

\* strings.Split returns one level at least, and nobody publishes to a wildcard.
ASSUME MqttAssumption ==
    /\ Asks \in [Scripts -> Seq(Seq(STRING) \ {<<>>})]
    /\ Topics \subseteq Seq(STRING \ Wild) \ {<<>>} /\ Retained \subseteq Topics
    /\ InboxCap \in Nat /\ MaxSessions \in Nat /\ MaxLoads \in Nat

Filters == UNION {Range(Asks[s]) : s \in Scripts}
Sessions == 1..MaxSessions
\* A state change, a timer or a syslog line, which share the channel with the messages.
Other == <<>>

VARIABLES
    phase,      \* where Start and retryConnect are
    late,       \* a connect attempt timed out and may still succeed
    filters, connected, subsReady,  \* of Client
    link,       \* the library has an open connection
    session,    \* number of the newest session
    broker,     \* the filters the broker has in it
    refused,    \* those whose SUBSCRIBE failed in it
    pass,       \* session -> its run of the OnConnect handler
    todo,       \* session -> the filters that run has still to send
    lost,       \* runs of the ConnectionLost handler that have not taken the lock
    script,     \* script -> [st, at, sending], at the next of its filters
    loads,      \* loads so far
    inflight,   \* topics of the messages whose callback has not run
    inbox,      \* script -> Runner.ch
    missed, strayed  \* scripts a handler of which did not get a message its filter
                \* denotes, and those a handler of which got another one

clientVars == <<filters, connected, subsReady>>
linkVars == <<link, session, broker, refused>>
handlerVars == <<pass, todo, lost>>
messageVars == <<inflight, inbox, missed, strayed>>
scriptVars == <<script, loads>>
vars == <<phase, late, clientVars, linkVars, handlerVars, scriptVars, messageVars>>

States == [st : {"off", "loading", "raised", "loaded"}, at : Nat \ {0}, sending : BOOLEAN]
Off == [st |-> "off", at |-> 1, sending |-> FALSE]

\* A channel and its capacity.
Inboxes == {q \in Seq(Topics \cup {Other}) : Len(q) <= InboxCap}

TypeOK ==
    /\ phase \in {"disabled", "connect", "subscribing", "retry", "serving", "unattended", "closed"}
    /\ late \in BOOLEAN
    /\ filters \subseteq Filters /\ connected \in BOOLEAN /\ subsReady \in BOOLEAN
    /\ link \in BOOLEAN /\ session \in 0..MaxSessions
    /\ broker \subseteq Filters /\ refused \subseteq Filters
    /\ pass \in [Sessions -> {"none", "new", "sending", "done"}]
    /\ todo \in [Sessions -> SUBSET Filters]
    /\ lost \in Nat
    /\ script \in [Scripts -> States]
    /\ loads \in 0..MaxLoads
    /\ inflight \subseteq Topics
    /\ inbox \in [Scripts -> Inboxes]
    /\ missed \subseteq Scripts /\ strayed \subseteq Scripts

\* The Supervisor's answer, once the process has a token to ask it with: no service
\* (400, 404), an error, a service with no host yet, or a broker.
Discover(token, answer) == IF token /\ answer = "broker" THEN "service" ELSE ""

\* The broker of the options wins; with none the client stays, disabled.
startMQTT(configured, discovered) ==
    IF configured = "" /\ discovered = "" THEN "disabled" ELSE "connect"

Init ==
    /\ \E configured \in {"", "options"}, token \in BOOLEAN,
          answer \in {"absent", "error", "hostless", "broker"} :
        phase = startMQTT(configured, Discover(token, answer))
    /\ late = FALSE
    /\ filters = {} /\ connected = FALSE /\ subsReady = FALSE
    /\ link = FALSE /\ session = 0 /\ broker = {} /\ refused = {}
    /\ pass = [n \in Sessions |-> "none"] /\ todo = [n \in Sessions |-> {}] /\ lost = 0
    /\ script = [s \in Scripts |-> Off] /\ loads = 0
    /\ inflight = {} /\ inbox = [s \in Scripts |-> <<>>]
    /\ missed = {} /\ strayed = {}

-----------------------------------------------------------------------------
(* The library and the broker *)

\* A CONNECT is accepted: a clean session, and an OnConnect handler of its own.
LinkUp ==
    /\ ~link /\ session < MaxSessions
    /\ link' = TRUE /\ session' = session + 1
    /\ broker' = {} /\ refused' = {}
    /\ pass' = [pass EXCEPT ![session + 1] = "new"]
    /\ UNCHANGED <<clientVars, todo, lost, scriptVars, messageVars>>

\* The retained messages a new subscription brings.
RetainedFor(f) == {t \in Retained : Denotes(f, t)}

\* cli.Subscribe and wait: SUBACK, a timeout the broker's work outlives, or an
\* error.  ok says what the caller is told.
Subscribed(f, ok) ==
    \/ /\ link
       /\ broker' = broker \cup {f} /\ inflight' = inflight \cup RetainedFor(f)
       /\ UNCHANGED refused
    \/ /\ ~ok
       /\ refused' = IF link THEN refused \cup {f} ELSE refused
       /\ UNCHANGED <<broker, inflight>>

\* The connection breaks, with what was on its way, and the ConnectionLost handler
\* is started.  Only while another session can follow.
LinkLost ==
    /\ link /\ session < MaxSessions
    /\ link' = FALSE /\ broker' = {} /\ lost' = lost + 1
    /\ inflight' \in SUBSET inflight
    /\ UNCHANGED <<phase, late, clientVars, session, refused, pass, todo,
                   scriptVars, inbox, missed, strayed>>

\* SetAutoReconnect, which a client that never was connected does not do.
Reconnect ==
    /\ session > 0 /\ phase # "closed"
    /\ LinkUp
    /\ UNCHANGED <<phase, late>>

-----------------------------------------------------------------------------
(* Start *)

StartConnects ==
    /\ phase = "connect"
    /\ LinkUp
    /\ phase' = "subscribing"
    /\ UNCHANGED late

\* The broker is down or refuses us; a refusal may come after connect gave up.
StartFails ==
    /\ phase = "connect"
    /\ phase' = "retry" /\ late' \in BOOLEAN
    /\ UNCHANGED <<clientVars, linkVars, handlerVars, scriptVars, messageVars>>

LateConnect ==
    /\ late /\ phase # "closed"
    /\ LinkUp
    /\ late' = FALSE
    /\ UNCHANGED phase

\* The first OnConnect pass is through, or the deadline of the wait is; when it is
\* the context that is done, nobody will disconnect.
StartReturns ==
    /\ phase = "subscribing"
    /\ phase' \in {"serving", "unattended"}
    /\ UNCHANGED <<late, clientVars, linkVars, handlerVars, scriptVars, messageVars>>

\* A tick of retryConnect: there is a connection by now, or one more attempt that
\* succeeds; an attempt that fails changes nothing.
RetryConnect ==
    /\ phase = "retry" /\ phase' = "unattended"
    /\ \/ link /\ UNCHANGED <<clientVars, linkVars, handlerVars, scriptVars, messageVars>>
       \/ LinkUp
    /\ UNCHANGED late

\* The context is done and the goroutine that waits for it disconnects; after a
\* retry that succeeded there is none.
Disconnect ==
    /\ phase \in {"serving", "retry"}
    /\ phase' = "closed" /\ link' = FALSE /\ broker' = {} /\ inflight' = {}
    /\ UNCHANGED <<late, clientVars, session, refused, handlerVars, scriptVars, inbox, missed, strayed>>

-----------------------------------------------------------------------------
(* The two handlers *)

\* Under the lock: note the connection and take the list of the filters.
OnConnect_NoList(n) ==
    /\ pass[n] = "new"
    /\ connected' = TRUE
    /\ pass' = [pass EXCEPT ![n] = "sending"]
    /\ todo' = [todo EXCEPT ![n] = IF subsReady THEN {} ELSE filters]
    /\ UNCHANGED <<phase, late, filters, subsReady, linkVars, lost, scriptVars, messageVars>>
OnConnect(n) ==
    /\ pass[n] = "new"
    /\ connected' = TRUE
    /\ pass' = [pass EXCEPT ![n] = "sending"]
    /\ todo' = [todo EXCEPT ![n] = filters]
    /\ UNCHANGED <<phase, late, filters, subsReady, linkVars, lost, scriptVars, messageVars>>

\* One filter of the list, on whatever connection there is by then.
Resubscribe(n, f) ==
    /\ pass[n] = "sending" /\ f \in todo[n]
    /\ \E ok \in BOOLEAN : Subscribed(f, ok)
    /\ todo' = [todo EXCEPT ![n] = @ \ {f}]
    /\ UNCHANGED <<phase, late, clientVars, link, session, pass, lost, scriptVars,
                   inbox, missed, strayed>>

OnConnectReturns(n) ==
    /\ pass[n] = "sending" /\ todo[n] = {}
    /\ pass' = [pass EXCEPT ![n] = "done"]
    /\ subsReady' = TRUE
    /\ UNCHANGED <<phase, late, filters, connected, linkVars, todo, lost, scriptVars, messageVars>>

ConnectionLost ==
    /\ lost > 0 /\ lost' = lost - 1
    /\ connected' = FALSE
    /\ UNCHANGED <<phase, late, filters, subsReady, linkVars, pass, todo, scriptVars, messageVars>>

-----------------------------------------------------------------------------
(* The scripts *)

\* A script starts, or is reloaded; main starts none before Start has returned.  The
\* new runner has a channel of its own, the old one drained its own or was aborted.
LoadStart(s) ==
    /\ phase \notin {"connect", "subscribing", "closed"}
    /\ script[s].st \in {"off", "loaded"} /\ loads < MaxLoads
    /\ script' = [script EXCEPT ![s] = [Off EXCEPT !.st = "loading"]] /\ loads' = loads + 1
    /\ inbox' = [inbox EXCEPT ![s] = <<>>]
    /\ missed' = missed \ {s} /\ strayed' = strayed \ {s}
    /\ UNCHANGED <<phase, late, clientVars, linkVars, handlerVars, inflight>>

Asking(s) ==
    /\ script[s].st = "loading" /\ ~script[s].sending
    /\ script[s].at <= Len(Asks[s])
Ask(s) == Asks[s][script[s].at]

\* mqtt.subscribe raises and the main chunk ends there; what it has registered stays.
SubscribeRaises(s) ==
    /\ Asking(s)
    /\ phase = "disabled" \/ ~ValidateFilter(Ask(s))
    /\ script' = [script EXCEPT ![s].st = "raised"]
    /\ UNCHANGED <<loads, phase, late, clientVars, linkVars, handlerVars, messageVars>>

\* Subscribe under the lock: a known filter, or one recorded for OnConnect, is
\* enough; with a connection the broker is asked next.
SubscribeRecords(s) ==
    /\ Asking(s) /\ phase # "disabled" /\ ValidateFilter(Ask(s))
    /\ filters' = filters \cup {Ask(s)}
    /\ script' = IF Ask(s) \notin filters /\ connected
                 THEN [script EXCEPT ![s].sending = TRUE]
                 ELSE [script EXCEPT ![s].at = @ + 1]
    /\ UNCHANGED <<loads, phase, late, connected, subsReady, linkVars, handlerVars, messageVars>>

SubscribeSends(s) ==
    /\ script[s].sending
    /\ \E ok \in BOOLEAN :
        /\ Subscribed(Ask(s), ok)
        /\ script' = [script EXCEPT ![s] = IF ok THEN [@ EXCEPT !.sending = FALSE, !.at = script[s].at + 1]
                                                 ELSE [@ EXCEPT !.sending = FALSE, !.st = "raised"]]
    /\ UNCHANGED <<loads, phase, late, clientVars, link, session, handlerVars, inbox, missed, strayed>>

\* The main chunk has ended, by itself or by an error, which keeps no script from
\* running: the handlers are frozen and the script is loaded.
LoadEnd(s) ==
    /\ \/ script[s].st = "raised"
       \/ script[s].st = "loading" /\ script[s].at > Len(Asks[s])
    /\ script' = [script EXCEPT ![s].st = "loaded"]
    /\ UNCHANGED <<loads, phase, late, clientVars, linkVars, handlerVars, messageVars>>

\* The filters whose handler the script has by now.
Handlers(s) == {Asks[s][i] : i \in 1..(script[s].at - 1)}

\* Nothing while the script loads.
MQTTFilters(s) == IF script[s].st = "loaded" THEN Handlers(s) ELSE {}

-----------------------------------------------------------------------------
(* The messages *)

\* Somebody publishes, mqtt.publish of a connected script included; the broker
\* sends it to us when one of our filters denotes the topic.
Publish(t) ==
    /\ \E f \in broker : Denotes(f, t)
    /\ inflight' = inflight \cup {t}
    /\ UNCHANGED <<phase, late, clientVars, linkVars, handlerVars, scriptVars, inbox, missed, strayed>>

\* Runner.Send: a full channel drops the event.
Room(s) == Len(inbox[s]) < InboxCap
Send(s, ev) == IF Room(s) THEN Append(inbox[s], ev) ELSE inbox[s]

\* The callback of one message, on a goroutine of its own: messages overtake each
\* other.  Every script with a filter that matches is sent it, once.
DispatchMQTT(t) ==
    /\ t \in inflight /\ inflight' = inflight \ {t}
    /\ LET sent == {s \in Scripts : \E f \in MQTTFilters(s) : Match(f, t)}
       IN  /\ inbox' = [s \in Scripts |-> IF s \in sent THEN Send(s, t) ELSE inbox[s]]
           /\ missed' = missed \cup {s \in Scripts :
                            /\ \E f \in Handlers(s) : Denotes(f, t)
                            /\ ~(s \in sent /\ Room(s))}
    /\ UNCHANGED <<phase, late, clientVars, linkVars, handlerVars, scriptVars, strayed>>

\* The other dispatchers of the registry, for a script that runs or loads.
DispatchOther(s) ==
    /\ script[s].st # "off" /\ Room(s)
    /\ inbox' = [inbox EXCEPT ![s] = Send(s, Other)]
    /\ UNCHANGED <<phase, late, clientVars, linkVars, handlerVars, scriptVars, inflight, missed, strayed>>

\* The handlers of a script that has taken the message, one for each filter.
handleMQTTMessage(s, t) == {f \in Handlers(s) : Match(f, t)}

\* The loop of a loaded script takes the next event.
Take(s) ==
    /\ script[s].st = "loaded" /\ inbox[s] # <<>>
    /\ inbox' = [inbox EXCEPT ![s] = Tail(@)]
    /\ LET t == Head(inbox[s])
           called == IF t = Other THEN {} ELSE handleMQTTMessage(s, t)
           meant == IF t = Other THEN {} ELSE {f \in Handlers(s) : Denotes(f, t)}
       IN  /\ missed' = IF meant \subseteq called THEN missed ELSE missed \cup {s}
           /\ strayed' = IF called \subseteq meant THEN strayed ELSE strayed \cup {s}
    /\ UNCHANGED <<phase, late, clientVars, linkVars, handlerVars, scriptVars, inflight>>

Next ==
    \/ LinkLost \/ Reconnect \/ LateConnect
    \/ StartConnects \/ StartFails \/ StartReturns \/ RetryConnect \/ Disconnect
    \/ \E n \in Sessions : OnConnect(n) \/ OnConnectReturns(n) \/ \E f \in Filters : Resubscribe(n, f)
    \/ ConnectionLost
    \/ \E s \in Scripts :
        \/ LoadStart(s) \/ SubscribeRaises(s) \/ SubscribeRecords(s)
        \/ SubscribeSends(s) \/ LoadEnd(s)
        \/ DispatchOther(s) \/ Take(s)
    \/ \E t \in Topics : Publish(t) \/ DispatchMQTT(t)

Spec == Init /\ [][Next]_vars

-----------------------------------------------------------------------------
(* Properties *)

\* No handler and no Subscribe call is about to send anything.
Quiet ==
    /\ \A n \in Sessions : pass[n] \notin {"new", "sending"}
    /\ \A s \in Scripts : ~script[s].sending

\* Subscribe under the lock against OnConnect: whatever the order of the two, once
\* nobody is sending the broker has every filter any script was told is subscribed,
\* but for one whose SUBSCRIBE failed in this very session.  The known window is a
\* ConnectionLost handler that runs after the OnConnect of the next session: connected
\* stays FALSE on an open link, and what is recorded then waits for another reconnect.
SubscribedWhenQuiet ==
    link /\ connected /\ Quiet => filters \subseteq broker \cup refused

\* The registry's matching, MQTTFilters, the one message for several filters and the
\* handlers the script keeps lose nothing between them: a message whose callback runs is
\* missed by a handler whose filter denotes it only while the script's main chunk still
\* runs or because the script's channel, which all its events share, was full and the
\* registry dropped it (mqtt-spec.md, section 5); and no handler hears what its filter
\* does not denote.
MissedForAReason ==
    [][/\ strayed' = {}
       /\ \A s \in missed' \ missed :
             \/ script[s].st \in {"loading", "raised"}
             \/ ~Room(s) /\ inbox'[s] = inbox[s]]_vars

=============================================================================
