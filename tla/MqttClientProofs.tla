-------------------------- MODULE MqttClientProofs --------------------------
(***************************************************************************)
(* Proofs about MqttTopics and MqttClient: what a filter lets through, that *)
(* a broker has every filter once nobody is sending, and whom a message     *)
(* reaches.                                                                *)
(***************************************************************************)
EXTENDS MqttClient, SequenceTheorems, TLAPS

-----------------------------------------------------------------------------
(* Topic filters *)

\* A filter the script may subscribe to lets through exactly the topics it means,
\* however long the two are and wherever the wildcards are.
THEOREM MatchIsRight ==
    ASSUME NEW Levels, Wild \subseteq Levels,
           NEW filter \in Seq(Levels), filter # <<>>, ValidateFilter(filter),
           NEW topic \in Seq(Levels \ Wild), topic # <<>>
    PROVE  Match(filter, topic) <=> Denotes(filter, topic)
<1> DEFINE f == Len(filter)
           t == Len(topic)
           open == filter[f] = "#"
           stem == IF open THEN SubSeq(filter, 1, f - 1) ELSE filter
           full(n) == IF open THEN stem \o [i \in 1..n |-> "+"] ELSE stem
<1>1. /\ f \in Nat \ {0} /\ t \in Nat \ {0}
      /\ \A i \in 1..f : filter[i] \in Levels /\ (filter[i] = "#" => i = f)
      /\ \A i \in 1..t : topic[i] \in Levels /\ topic[i] # "#" /\ topic[i] # "+"
    BY DEF ValidateFilter, Wild
<1>2. ASSUME open, NEW n \in Nat
      PROVE  /\ Len(full(n)) = f - 1 + n
             /\ \A i \in 1..(f - 1) : full(n)[i] = filter[i]
             /\ \A i \in f..(f - 1 + n) : full(n)[i] = "+"
    <2> DEFINE pluses == [i \in 1..n |-> "+"]
    <2>1. pluses \in Seq(Levels) /\ Len(pluses) = n /\ \A i \in 1..n : pluses[i] = "+"
        BY DEF Wild
    <2>2. /\ stem \in Seq(Levels) /\ Len(stem) = f - 1
          /\ \A i \in 1..(f - 1) : stem[i] = filter[i]
        <3>1. \A i \in 1..(f - 1) : filter[i] \in Levels
            BY <1>1
        <3> HIDE DEF f
        <3>2. f - 1 \in Int /\ (IF 1 <= f - 1 THEN f - 1 - 1 + 1 ELSE 0) = f - 1
            BY <1>1
        <3>3. /\ SubSeq(filter, 1, f - 1) \in Seq(Levels)
              /\ Len(SubSeq(filter, 1, f - 1)) = f - 1
              /\ \A i \in 1..(f - 1) : SubSeq(filter, 1, f - 1)[i] = filter[i]
            <4>1. /\ SubSeq(filter, 1, f - 1) \in Seq(Levels)
                  /\ Len(SubSeq(filter, 1, f - 1)) = IF 1 <= f - 1 THEN f - 1 - 1 + 1 ELSE 0
                  /\ \A i \in 1..(f - 1 - 1 + 1) : SubSeq(filter, 1, f - 1)[i] = filter[1 + i - 1]
                BY <3>1, <3>2, SubSeqProperties
            <4> QED
                BY <3>2, <4>1
        <3>4. stem = SubSeq(filter, 1, f - 1)
            BY <1>2 DEF f
        <3> HIDE DEF stem
        <3> QED
            BY <3>3, <3>4
    <2>3. full(n) = stem \o pluses
        BY <1>2
    <2> HIDE DEF f, open, pluses, stem, full
    <2> QED
        <3>1. /\ Len(stem \o pluses) = Len(stem) + Len(pluses)
              /\ \A i \in 1..(Len(stem) + Len(pluses)) :
                    (stem \o pluses)[i] = IF i <= Len(stem) THEN stem[i] ELSE pluses[i - Len(stem)]
            BY <2>1, <2>2, ConcatProperties
        <3> QED
            BY <1>1, <2>1, <2>2, <2>3, <3>1
<1>3. ~RootIsServer(filter, topic) =>
        (Denotes(filter, topic) <=>
            IF open THEN f - 1 <= t /\ LevelsAgree(filter, topic, f - 1)
                    ELSE f = t /\ LevelsAgree(filter, topic, f))
    <2> SUFFICES ASSUME ~RootIsServer(filter, topic)
                 PROVE  Denotes(filter, topic) <=>
                            IF open THEN f - 1 <= t /\ LevelsAgree(filter, topic, f - 1)
                                    ELSE f = t /\ LevelsAgree(filter, topic, f)
        OBVIOUS
    <2>1. Denotes(filter, topic) <=>
            \E n \in 0..t : Len(full(n)) = t /\ \A i \in 1..t : full(n)[i] \in {"+", topic[i]}
        <3>1. DOMAIN topic = 1..t
            OBVIOUS
        <3> QED
            BY <3>1 DEF Denotes
    <2>2. CASE open
        <3>1. ASSUME NEW n \in 0..t, Len(full(n)) = t,
                     \A i \in 1..t : full(n)[i] \in {"+", topic[i]}
              PROVE  f - 1 <= t /\ LevelsAgree(filter, topic, f - 1)
            <4>1. n \in Nat /\ open
                BY <1>1, <2>2
            <4>2. /\ Len(full(n)) = f - 1 + n
                  /\ \A i \in 1..(f - 1) : full(n)[i] = filter[i]
                BY <1>2, <4>1
            <4> HIDE DEF f, open, stem, full
            <4>3. f - 1 <= t
                BY <1>1, <3>1, <4>1, <4>2
            <4>4. ASSUME NEW i \in 1..(f - 1) PROVE i <= t /\ filter[i] \in {"+", topic[i]}
                <5>1. i \in 1..t
                    BY <1>1, <4>3
                <5> QED
                    BY <3>1, <4>2, <5>1
            <4> QED
                BY <4>3, <4>4 DEF LevelsAgree
        <3>2. ASSUME f - 1 <= t, LevelsAgree(filter, topic, f - 1)
              PROVE  \E n \in 0..t : Len(full(n)) = t /\ \A i \in 1..t : full(n)[i] \in {"+", topic[i]}
            <4> DEFINE n == t - (f - 1)
            <4>1. n \in 0..t
                BY <1>1, <3>2
            <4>2. /\ Len(full(n)) = f - 1 + n
                  /\ \A i \in 1..(f - 1) : full(n)[i] = filter[i]
                  /\ \A i \in f..(f - 1 + n) : full(n)[i] = "+"
                <5>1. n \in Nat /\ open
                    BY <2>2, <4>1
                <5> HIDE DEF f, open, stem, full, n
                <5> QED
                    BY <1>2, <5>1
            <4>3. f - 1 + n = t
                BY <1>1
            <4> HIDE DEF f, open, stem, full, n
            <4>4. ASSUME NEW i \in 1..t PROVE full(n)[i] \in {"+", topic[i]}
                <5>1. i \in 1..(f - 1) \/ i \in f..t
                    BY <1>1
                <5>2. ASSUME i \in 1..(f - 1) PROVE filter[i] \in {"+", topic[i]}
                    BY <3>2, <5>2 DEF LevelsAgree
                <5> QED
                    BY <4>2, <4>3, <5>1, <5>2
            <4> QED
                BY <4>1, <4>2, <4>3, <4>4
        <3> QED
            BY <2>1, <2>2, <3>1, <3>2
    <2>3. CASE ~open
        <3>1. \A n \in 0..t : full(n) = filter
            BY <2>3
        <3>2. 0 \in 0..t
            BY <1>1
        <3> HIDE DEF full
        <3> QED
            BY <1>1, <2>1, <2>3, <3>1, <3>2 DEF LevelsAgree
    <2> QED
        BY <2>2, <2>3
<1>4. ~RootIsServer(filter, topic) =>
        (Match(filter, topic) <=>
            IF open THEN f - 1 <= t /\ LevelsAgree(filter, topic, f - 1)
                    ELSE f = t /\ LevelsAgree(filter, topic, f))
    BY <1>1 DEF Match, LevelsAgree
<1>5. RootIsServer(filter, topic) => ~Match(filter, topic) /\ ~Denotes(filter, topic)
    BY <1>1 DEF RootIsServer, Match, Denotes, Wild
<1> QED
    BY <1>3, <1>4, <1>5

-----------------------------------------------------------------------------
(* The inductive invariant *)

\* What a main chunk has registered was accepted by ValidateFilter, and so is what it is
\* sending; only a chunk that runs sends, and a script that is off has no handler.
Sane(s, r) ==
    /\ \A i \in 1..(r.at - 1) : i <= Len(Asks[s]) /\ ValidateFilter(Asks[s][i])
    /\ r.sending => r.st = "loading" /\ r.at <= Len(Asks[s]) /\ ValidateFilter(Asks[s][r.at])
    /\ r.st = "off" => r.at = 1
ScriptInv == \A s \in Scripts : Sane(s, script[s])

\* A filter a script was told is subscribed and the broker does not have is on its way:
\* an OnConnect run has it in its list or has no list yet, or a Subscribe call sends it.
OnItsWay(f) ==
    \/ \E n \in Sessions : pass[n] = "new" \/ (pass[n] = "sending" /\ f \in todo[n])
    \/ \E s \in Scripts : script[s].sending /\ Ask(s) = f
FiltersInv ==
    link /\ connected => \A f \in filters : f \in broker \cup refused \/ OnItsWay(f)

IInv == TypeOK /\ ScriptInv /\ FiltersInv /\ strayed = {}

\* What is sent to a channel and taken from it.
LEMMA InboxSteps ==
    /\ <<>> \in Inboxes
    /\ \A s \in Scripts, ev \in Topics \cup {Other} : inbox[s] \in Inboxes =>
            /\ Send(s, ev) \in Inboxes
            /\ inbox[s] # <<>> => Head(inbox[s]) \in Topics \cup {Other} /\ Tail(inbox[s]) \in Inboxes
<1>1. <<>> \in Inboxes
    BY MqttAssumption DEF Inboxes
<1>2. ASSUME NEW s \in Scripts, NEW ev \in Topics \cup {Other}, inbox[s] \in Inboxes
      PROVE  Send(s, ev) \in Inboxes
    <2> DEFINE Events == Topics \cup {Other}
    <2>1. inbox[s] \in Seq(Events) /\ Len(inbox[s]) \in Nat /\ ev \in Events
        BY <1>2 DEF Inboxes
    <2>2. Append(inbox[s], ev) \in Seq(Events) /\ Len(Append(inbox[s], ev)) = Len(inbox[s]) + 1
        <3> HIDE DEF Events
        <3> QED
            BY <2>1
    <2> QED
        BY <1>2, <2>1, <2>2, MqttAssumption DEF Send, Room, Inboxes
<1>3. ASSUME NEW s \in Scripts, inbox[s] \in Inboxes, inbox[s] # <<>>
      PROVE  Head(inbox[s]) \in Topics \cup {Other} /\ Tail(inbox[s]) \in Inboxes
    <2> DEFINE Events == Topics \cup {Other}
    <2>1. inbox[s] \in Seq(Events) /\ Len(inbox[s]) <= InboxCap
        BY <1>3 DEF Inboxes
    <2>2. /\ Head(inbox[s]) \in Events /\ Tail(inbox[s]) \in Seq(Events)
          /\ Len(Tail(inbox[s])) = Len(inbox[s]) - 1 /\ Len(inbox[s]) \in Nat
        <3> HIDE DEF Events
        <3> QED
            BY <1>3, <2>1
    <2> QED
        BY <2>1, <2>2, MqttAssumption DEF Inboxes
<1> QED
    BY <1>1, <1>2, <1>3

LEMMA InitIInv == Init => IInv
<1> SUFFICES ASSUME Init PROVE IInv
    OBVIOUS
<1>1. Off \in States /\ \A s \in Scripts : Sane(s, Off)
    BY DEF Off, States, Sane
<1>2. phase \in {"disabled", "connect"}
    BY DEF Init, startMQTT
<1>3. script \in [Scripts -> States] /\ loads \in 0..MaxLoads /\ session \in 0..MaxSessions /\ lost \in Nat
    <2>1. /\ script = [s \in Scripts |-> Off] /\ loads = 0 /\ session = 0 /\ lost = 0
        BY DEF Init
    <2> QED
        BY <1>1, <2>1, MqttAssumption
<1>4. TypeOK
    <2>1. inbox \in [Scripts -> Inboxes]
        BY InboxSteps DEF Init
    <2> QED
        BY <1>2, <1>3, <2>1 DEF Init, TypeOK
<1>5. ScriptInv
    BY <1>1 DEF Init, ScriptInv
<1> QED
    BY <1>4, <1>5 DEF Init, IInv, FiltersInv

-----------------------------------------------------------------------------
(* The scripts *)

LEMMA AskIsFilter ==
    ASSUME TypeOK, NEW s \in Scripts, script[s].at <= Len(Asks[s])
    PROVE  Ask(s) \in Filters
<1>1. script[s].at \in Nat \ {0} /\ Asks[s] \in Seq(Seq(STRING) \ {<<>>})
    BY MqttAssumption DEF TypeOK, States
<1>2. script[s].at \in DOMAIN Asks[s]
    BY <1>1
<1>3. Ask(s) \in Range(Asks[s])
    BY <1>2 DEF Ask, Range
<1> QED
    BY <1>3 DEF Filters

\* The steps of a script: what each makes of its record.
Step(s, r) ==
    \/ /\ script[s].st \in {"off", "loaded"}
       /\ r.st = "loading" /\ r.at = 1 /\ ~r.sending
    \/ /\ Asking(s)
       /\ r.st = "raised" /\ r.at = script[s].at /\ ~r.sending
    \/ /\ Asking(s) /\ ValidateFilter(Ask(s)) /\ r.st = "loading"
       /\ \/ r.at = script[s].at /\ r.sending
          \/ r.at = script[s].at + 1 /\ ~r.sending
    \/ /\ script[s].sending /\ ~r.sending
       /\ \/ r.st = script[s].st /\ r.at = script[s].at + 1
          \/ r.st = "raised" /\ r.at = script[s].at
    \/ /\ script[s].st \in {"raised", "loading"}
       /\ script[s].st = "loading" => script[s].at > Len(Asks[s])
       /\ r.st = "loaded" /\ r.at = script[s].at /\ r.sending = script[s].sending

LEMMA ScriptSteps ==
    ASSUME TypeOK, NEW s \in Scripts,
           LoadStart(s) \/ SubscribeRaises(s) \/ SubscribeRecords(s) \/ SubscribeSends(s) \/ LoadEnd(s)
    PROVE  \E r \in States : Step(s, r) /\ script' = [script EXCEPT ![s] = r]
<1>1. script[s] \in States /\ script[s].at + 1 \in Nat \ {0} /\ script[s].at \in Nat \ {0}
    BY DEF TypeOK, States
<1> DEFINE r0 == script[s]
<1>2. CASE LoadStart(s)
    <2> DEFINE r == [Off EXCEPT !.st = "loading"]
    <2>1. Off \in States /\ Off.at = 1 /\ ~Off.sending
        BY DEF Off, States
    <2>2. r \in States /\ r.st = "loading" /\ r.at = 1 /\ ~r.sending
        BY <2>1 DEF States
    <2>3. script' = [script EXCEPT ![s] = r] /\ script[s].st \in {"off", "loaded"}
        BY <1>2 DEF LoadStart
    <2> HIDE DEF r
    <2> QED
        BY <2>2, <2>3 DEF Step
<1>3. CASE SubscribeRaises(s)
    <2> DEFINE r == [r0 EXCEPT !.st = "raised"]
    <2>1. r \in States /\ r.st = "raised" /\ r.at = script[s].at /\ r.sending = script[s].sending
        BY <1>1 DEF States
    <2>2. script' = [script EXCEPT ![s] = r] /\ Asking(s) /\ ~script[s].sending
        BY <1>3 DEF SubscribeRaises, Asking
    <2> HIDE DEF r
    <2> QED
        BY <2>1, <2>2 DEF Step
<1>4. CASE SubscribeRecords(s)
    <2>1. Asking(s) /\ ValidateFilter(Ask(s)) /\ ~script[s].sending /\ script[s].st = "loading"
        BY <1>4 DEF SubscribeRecords, Asking
    <2> DEFINE r == [r0 EXCEPT !.sending = TRUE]
               q == [r0 EXCEPT !.at = @ + 1]
    <2>2. r \in States /\ r.st = "loading" /\ r.at = script[s].at /\ r.sending
        BY <1>1, <2>1 DEF States
    <2>3. q \in States /\ q.st = "loading" /\ q.at = script[s].at + 1 /\ ~q.sending
        BY <1>1, <2>1 DEF States
    <2>4. script' = [script EXCEPT ![s] = r] \/ script' = [script EXCEPT ![s] = q]
        BY <1>4 DEF SubscribeRecords
    <2> HIDE DEF r, q
    <2> QED
        BY <2>1, <2>2, <2>3, <2>4 DEF Step
<1>5. CASE SubscribeSends(s)
    <2> DEFINE r == [r0 EXCEPT !.sending = FALSE, !.at = script[s].at + 1]
               q == [r0 EXCEPT !.sending = FALSE, !.st = "raised"]
    <2>1. r \in States /\ r.st = script[s].st /\ r.at = script[s].at + 1 /\ ~r.sending
        BY <1>1 DEF States
    <2>2. q \in States /\ q.st = "raised" /\ q.at = script[s].at /\ ~q.sending
        BY <1>1 DEF States
    <2>3. PICK ok \in BOOLEAN : script' = [script EXCEPT ![s] = IF ok THEN r ELSE q]
        BY <1>5, Zenon DEF SubscribeSends
    <2>4. script[s].sending
        BY <1>5 DEF SubscribeSends
    <2> HIDE DEF r, q
    <2>5. script' = [script EXCEPT ![s] = r] \/ script' = [script EXCEPT ![s] = q]
        BY <2>3
    <2> QED
        BY <2>1, <2>2, <2>4, <2>5 DEF Step
<1>6. CASE LoadEnd(s)
    <2> DEFINE r == [r0 EXCEPT !.st = "loaded"]
    <2>1. r \in States /\ r.st = "loaded" /\ r.at = script[s].at /\ r.sending = script[s].sending
        BY <1>1 DEF States
    <2>2. /\ script' = [script EXCEPT ![s] = r] /\ script[s].st \in {"raised", "loading"}
          /\ script[s].st = "loading" => script[s].at > Len(Asks[s])
        BY <1>6 DEF LoadEnd
    <2> HIDE DEF r
    <2> QED
        BY <2>1, <2>2 DEF Step
<1> QED
    BY <1>2, <1>3, <1>4, <1>5, <1>6

LEMMA ScriptStep == ASSUME TypeOK, ScriptInv, [Next]_vars PROVE ScriptInv'
<1>1. ASSUME NEW s \in Scripts,
             LoadStart(s) \/ SubscribeRaises(s) \/ SubscribeRecords(s) \/ SubscribeSends(s) \/ LoadEnd(s)
      PROVE  ScriptInv'
    <2>1. PICK r \in States : Step(s, r) /\ script' = [script EXCEPT ![s] = r]
        BY <1>1, ScriptSteps
    <2>2. script[s] \in States /\ Sane(s, script[s]) /\ script' = [script EXCEPT ![s] = r]
        BY <2>1 DEF TypeOK, ScriptInv
    <2>3. /\ script[s].at \in Nat \ {0} /\ r.at \in Nat \ {0}
          /\ Len(Asks[s]) \in Nat
        BY <2>2, MqttAssumption DEF States
    <2>4. ASSUME r.at = script[s].at + 1, script[s].at <= Len(Asks[s]), ValidateFilter(Ask(s)),
                 r.st # "off", ~r.sending
          PROVE  Sane(s, r)
        <3>1. ASSUME NEW i \in 1..(r.at - 1) PROVE i \in 1..(script[s].at - 1) \/ i = script[s].at
            BY <2>3, <2>4
        <3> QED
            BY <2>2, <2>4, <3>1 DEF Sane, Ask
    <2>5. ASSUME r.at = script[s].at, r.st # "off",
                 r.sending => r.st = "loading" /\ script[s].at <= Len(Asks[s]) /\ ValidateFilter(Ask(s))
          PROVE  Sane(s, r)
        BY <2>2, <2>5 DEF Sane, Ask
    <2>6. ASSUME r.at = 1, ~r.sending PROVE Sane(s, r)
        BY <2>6 DEF Sane
    <2>7. Sane(s, r)
        BY <2>1, <2>2, <2>3, <2>4, <2>5, <2>6 DEF Step, Asking, Sane, Ask
    <2> QED
        BY <2>2, <2>7 DEF ScriptInv, TypeOK
<1>2. ASSUME UNCHANGED script PROVE ScriptInv'
    BY <1>2 DEF ScriptInv
<1>3. \/ UNCHANGED script
      \/ \E s \in Scripts : LoadStart(s) \/ SubscribeRaises(s) \/ SubscribeRecords(s)
                              \/ SubscribeSends(s) \/ LoadEnd(s)
    BY DEF Next, vars, scriptVars, LinkUp, LinkLost, Reconnect, LateConnect, StartConnects, StartFails,
       StartReturns, RetryConnect, Disconnect, OnConnect, OnConnectReturns, Resubscribe, ConnectionLost,
       Publish, DispatchMQTT, DispatchOther, Take
<1> QED
    BY <1>1, <1>2, <1>3

-----------------------------------------------------------------------------
(* Whom a message reaches *)

LEMMA HandlersMatch ==
    ASSUME TypeOK, ScriptInv, NEW s \in Scripts, NEW t \in Topics, NEW f \in Handlers(s)
    PROVE  Match(f, t) <=> Denotes(f, t)
<1>1. PICK i \in 1..(script[s].at - 1) : f = Asks[s][i]
    BY DEF Handlers
<1>2. i <= Len(Asks[s]) /\ ValidateFilter(f) /\ script[s].at \in Nat
    BY <1>1 DEF ScriptInv, Sane, TypeOK, States
<1>3. Asks[s] \in Seq(Seq(STRING) \ {<<>>}) /\ t \in Seq(STRING \ Wild) /\ t # <<>>
    BY MqttAssumption
<1>4. i \in DOMAIN Asks[s]
    BY <1>1, <1>2, <1>3
<1>5. f \in Seq(STRING \cup Wild) /\ f # <<>>
    BY <1>1, <1>3, <1>4
<1>6. t \in Seq((STRING \cup Wild) \ Wild)
    BY <1>3
<1> QED
    BY <1>2, <1>3, <1>5, <1>6, MatchIsRight

\* What the registry sends is what the handlers are meant to hear, ...
LEMMA Reached ==
    ASSUME TypeOK, ScriptInv, NEW t \in Topics, DispatchMQTT(t)
    PROVE  \A s \in missed' \ missed :
              script[s].st \in {"loading", "raised"} \/ (~Room(s) /\ inbox'[s] = inbox[s])
<1> DEFINE sent == {s \in Scripts : \E f \in MQTTFilters(s) : Match(f, t)}
<1>1. /\ inbox' = [s \in Scripts |-> IF s \in sent THEN Send(s, t) ELSE inbox[s]]
      /\ missed' = missed \cup {s \in Scripts :
                       (\E f \in Handlers(s) : Denotes(f, t)) /\ ~(s \in sent /\ Room(s))}
    BY DEF DispatchMQTT
<1> SUFFICES ASSUME NEW s \in Scripts, NEW f \in Handlers(s), Denotes(f, t), ~(s \in sent /\ Room(s)),
                    script[s].st \notin {"loading", "raised"}
             PROVE  ~Room(s) /\ inbox'[s] = inbox[s]
    BY <1>1
<1>2. script[s].st = "loaded"
    <2>1. script[s].st \in {"off", "loaded"} /\ script[s].at \in Nat
        BY DEF TypeOK, States
    <2>2. ASSUME script[s].st = "off" PROVE FALSE
        <3>1. script[s].at - 1 = 0
            BY <2>2 DEF ScriptInv, Sane
        <3>2. 1..(script[s].at - 1) = {}
            BY <3>1
        <3> QED
            BY <3>2 DEF Handlers
    <2> QED
        BY <2>1, <2>2
<1>3. s \in sent
    BY <1>2, HandlersMatch DEF MQTTFilters
<1> HIDE DEF sent
<1>4. ~Room(s)
    BY <1>3
<1> QED
    BY <1>1, <1>3, <1>4 DEF Send

\* ... and so is what they hear of it.
LEMMA Heard ==
    ASSUME TypeOK, ScriptInv, NEW s \in Scripts, Take(s)
    PROVE  UNCHANGED <<missed, strayed>>
<1> DEFINE t == Head(inbox[s])
           called == IF t = Other THEN {} ELSE handleMQTTMessage(s, t)
           meant == IF t = Other THEN {} ELSE {f \in Handlers(s) : Denotes(f, t)}
<1>1. /\ missed' = IF meant \subseteq called THEN missed ELSE missed \cup {s}
      /\ strayed' = IF called \subseteq meant THEN strayed ELSE strayed \cup {s}
    BY DEF Take
<1>2. t \in Topics \cup {Other}
    <2>1. inbox[s] \in Inboxes /\ inbox[s] # <<>>
        BY DEF TypeOK, Take
    <2>2. Other \in Topics \cup {Other}
        OBVIOUS
    <2> QED
        BY <2>1, <2>2, InboxSteps
<1>3. called = meant
    <2>1. CASE t = Other
        BY <2>1
    <2>2. CASE t \in Topics
        <3> HIDE DEF t
        <3> QED
            BY <2>2, HandlersMatch DEF handleMQTTMessage
    <2> QED
        BY <1>2, <2>1, <2>2
<1> HIDE DEF called, meant
<1> QED
    BY <1>1, <1>3

-----------------------------------------------------------------------------
(* Types *)

LEMMA LinkUpType ==
    ASSUME TypeOK, LinkUp
    PROVE  /\ link' \in BOOLEAN /\ session' \in 0..MaxSessions /\ broker' = {} /\ refused' = {}
           /\ session' \in Sessions /\ pass' \in [Sessions -> {"none", "new", "sending", "done"}]
           /\ pass'[session'] = "new"
<1>1. session \in 0..MaxSessions /\ session < MaxSessions /\ session' = session + 1
    BY DEF LinkUp, TypeOK
<1>2. session' \in 1..MaxSessions /\ session' \in 0..MaxSessions
    BY <1>1, MqttAssumption
<1> QED
    BY <1>1, <1>2 DEF LinkUp, TypeOK, Sessions

LEMMA SubscribedType ==
    ASSUME TypeOK, NEW f \in Filters, NEW ok \in BOOLEAN, Subscribed(f, ok)
    PROVE  broker' \subseteq Filters /\ refused' \subseteq Filters /\ inflight' \subseteq Topics
<1>1. RetainedFor(f) \subseteq Topics
    BY MqttAssumption DEF RetainedFor
<1> QED
    BY <1>1 DEF TypeOK, Subscribed

LEMMA TypeStep == ASSUME TypeOK, ScriptInv, [Next]_vars PROVE TypeOK'
<1>1. CASE LinkLost \/ Disconnect \/ ConnectionLost
    <2>1. lost \in Nat /\ lost + 1 \in Nat /\ (lost > 0 => lost - 1 \in Nat)
        BY DEF TypeOK
    <2>2. CASE LinkLost
        BY <2>1, <2>2 DEF LinkLost, TypeOK, clientVars, scriptVars
    <2>3. CASE Disconnect
        BY <2>3 DEF Disconnect, TypeOK, clientVars, handlerVars, scriptVars
    <2>4. CASE ConnectionLost
        BY <2>1, <2>4 DEF ConnectionLost, TypeOK, linkVars, scriptVars, messageVars
    <2> QED
        BY <1>1, <2>2, <2>3, <2>4
<1>2. ASSUME LinkUp, late' \in BOOLEAN,
             phase' \in {"disabled", "connect", "subscribing", "retry", "serving", "unattended", "closed"}
      PROVE  TypeOK'
    BY <1>2, LinkUpType DEF LinkUp, TypeOK, clientVars, scriptVars, messageVars
<1>3. CASE Reconnect \/ LateConnect \/ StartConnects
    BY <1>2, <1>3 DEF Reconnect, LateConnect, StartConnects, TypeOK
<1>4. CASE StartFails \/ StartReturns
    BY <1>4 DEF StartFails, StartReturns, TypeOK, clientVars, linkVars, handlerVars, scriptVars, messageVars
<1>5. CASE RetryConnect
    <2>1. CASE LinkUp
        BY <1>2, <1>5, <2>1 DEF RetryConnect, TypeOK
    <2>2. CASE UNCHANGED <<clientVars, linkVars, handlerVars, scriptVars, messageVars>>
        BY <1>5, <2>2 DEF RetryConnect, TypeOK, clientVars, linkVars, handlerVars, scriptVars, messageVars
    <2> QED
        BY <1>5, <2>1, <2>2 DEF RetryConnect
<1>6. ASSUME NEW n \in Sessions, OnConnect(n) \/ OnConnectReturns(n) PROVE TypeOK'
    BY <1>6 DEF OnConnect, OnConnectReturns, TypeOK, linkVars, scriptVars, messageVars
<1>7. ASSUME NEW n \in Sessions, NEW f \in Filters, Resubscribe(n, f) PROVE TypeOK'
    <2>1. broker' \subseteq Filters /\ refused' \subseteq Filters /\ inflight' \subseteq Topics
        BY <1>7, SubscribedType DEF Resubscribe
    <2>2. todo' \in [Sessions -> SUBSET Filters]
        BY <1>7 DEF Resubscribe, TypeOK
    <2> QED
        BY <1>7, <2>1, <2>2 DEF Resubscribe, TypeOK, clientVars, scriptVars
<1>8. ASSUME NEW s \in Scripts,
             LoadStart(s) \/ SubscribeRaises(s) \/ SubscribeRecords(s) \/ SubscribeSends(s) \/ LoadEnd(s)
      PROVE  TypeOK'
    <2>1. script' \in [Scripts -> States]
        BY <1>8, ScriptSteps DEF TypeOK
    <2>2. CASE LoadStart(s)
        <3>1. loads' \in 0..MaxLoads
            BY <2>2, MqttAssumption DEF LoadStart, TypeOK
        <3> QED
            BY <2>1, <2>2, <3>1, InboxSteps DEF LoadStart, TypeOK, clientVars, linkVars, handlerVars
    <2>3. CASE SubscribeRaises(s) \/ LoadEnd(s)
        BY <2>1, <2>3 DEF SubscribeRaises, LoadEnd, TypeOK, clientVars, linkVars, handlerVars, messageVars
    <2>4. CASE SubscribeRecords(s)
        <3>1. Ask(s) \in Filters
            BY <2>4, AskIsFilter DEF SubscribeRecords, Asking
        <3> QED
            BY <2>1, <2>4, <3>1 DEF SubscribeRecords, TypeOK, linkVars, handlerVars, messageVars
    <2>5. CASE SubscribeSends(s)
        <3>1. Ask(s) \in Filters
            BY <2>5, AskIsFilter DEF SubscribeSends, ScriptInv, Sane
        <3>2. broker' \subseteq Filters /\ refused' \subseteq Filters /\ inflight' \subseteq Topics
            BY <2>5, <3>1, SubscribedType DEF SubscribeSends
        <3> QED
            BY <2>1, <2>5, <3>2 DEF SubscribeSends, TypeOK, clientVars, handlerVars
    <2> QED
        BY <1>8, <2>2, <2>3, <2>4, <2>5
<1>9. ASSUME NEW t \in Topics, Publish(t) PROVE TypeOK'
    BY <1>9 DEF Publish, TypeOK, clientVars, linkVars, handlerVars, scriptVars
<1>10. ASSUME NEW t \in Topics, DispatchMQTT(t) PROVE TypeOK'
    <2>1. inbox' \in [Scripts -> Inboxes] /\ missed' \subseteq Scripts /\ inflight' \subseteq Topics
        <3>1. \A s \in Scripts : inbox[s] \in Inboxes /\ Send(s, t) \in Inboxes
            BY InboxSteps DEF TypeOK
        <3> QED
            BY <1>10, <3>1 DEF DispatchMQTT, TypeOK
    <2> QED
        BY <1>10, <2>1 DEF DispatchMQTT, TypeOK, clientVars, linkVars, handlerVars, scriptVars
<1>11. ASSUME NEW s \in Scripts, DispatchOther(s) \/ Take(s) PROVE TypeOK'
    <2>1. inbox[s] \in Inboxes /\ inbox \in [Scripts -> Inboxes]
        BY DEF TypeOK
    <2>2. inbox' \in [Scripts -> Inboxes] /\ missed' \subseteq Scripts /\ strayed' \subseteq Scripts
        <3>1. Other \in Topics \cup {Other}
            OBVIOUS
        <3>2. /\ Send(s, Other) \in Inboxes
              /\ inbox[s] # <<>> => Tail(inbox[s]) \in Inboxes
            BY <2>1, <3>1, InboxSteps
        <3>3. CASE DispatchOther(s)
            BY <2>1, <3>2, <3>3 DEF DispatchOther, TypeOK
        <3>4. CASE Take(s)
            <4>1. inbox' = [inbox EXCEPT ![s] = Tail(inbox[s])] /\ inbox[s] # <<>>
                BY <3>4 DEF Take
            <4>2. UNCHANGED <<missed, strayed>>
                BY <3>4, Heard
            <4> QED
                BY <2>1, <3>2, <4>1, <4>2 DEF TypeOK
        <3> QED
            BY <1>11, <3>3, <3>4
    <2>3. UNCHANGED <<phase, late, clientVars, linkVars, handlerVars, scriptVars, inflight>>
        BY <1>11 DEF DispatchOther, Take
    <2> QED
        BY <2>2, <2>3 DEF TypeOK, clientVars, linkVars, handlerVars, scriptVars
<1>12. CASE UNCHANGED vars
    BY <1>12 DEF vars, TypeOK, clientVars, linkVars, handlerVars, scriptVars, messageVars
<1> QED
    BY <1>1, <1>3, <1>4, <1>5, <1>6, <1>7, <1>8, <1>9, <1>10, <1>11, <1>12 DEF Next

-----------------------------------------------------------------------------
(* The broker has what the scripts were told *)

\* A filter stays on its way over a step that neither answers a SUBSCRIBE nor touches
\* the lists.
LEMMA WayKept ==
    ASSUME UNCHANGED <<pass, todo, script>>
    PROVE  \A f : OnItsWay(f) => OnItsWay(f)'
BY DEF OnItsWay, Ask

\* The answer to one SUBSCRIBE settles the filter on an open connection.
LEMMA Settles ==
    ASSUME link, NEW f, NEW ok \in BOOLEAN, Subscribed(f, ok)
    PROVE  /\ f \in broker' \cup refused'
           /\ broker \subseteq broker' /\ refused \subseteq refused'
BY DEF Subscribed

LEMMA FiltersStep == ASSUME TypeOK, ScriptInv, FiltersInv, [Next]_vars PROVE FiltersInv'
<1>1. CASE LinkLost \/ Disconnect \/ ConnectionLost
    BY <1>1 DEF LinkLost, Disconnect, ConnectionLost, FiltersInv
<1>2. ASSUME LinkUp PROVE FiltersInv'
    <2>1. session' \in Sessions /\ pass'[session'] = "new"
        BY <1>2, LinkUpType
    <2> QED
        BY <2>1 DEF FiltersInv, OnItsWay
<1>3. CASE Reconnect \/ LateConnect \/ StartConnects
    BY <1>2, <1>3 DEF Reconnect, LateConnect, StartConnects
<1>4. ASSUME UNCHANGED <<link, connected, filters, broker, refused, pass, todo, script>> PROVE FiltersInv'
    BY <1>4, WayKept DEF FiltersInv
<1>5. CASE StartFails \/ StartReturns \/ RetryConnect
    BY <1>2, <1>4, <1>5 DEF StartFails, StartReturns, RetryConnect, clientVars, linkVars, handlerVars, scriptVars
<1>6. ASSUME NEW n \in Sessions, OnConnect(n) PROVE FiltersInv'
    <2>1. filters' = filters /\ pass'[n] = "sending" /\ todo'[n] = filters
        BY <1>6 DEF OnConnect, TypeOK
    <2> QED
        BY <2>1 DEF FiltersInv, OnItsWay
<1>7. ASSUME NEW n \in Sessions, OnConnectReturns(n) PROVE FiltersInv'
    <2>1. /\ UNCHANGED <<link, connected, filters, broker, refused, todo, script>>
          /\ pass[n] = "sending" /\ todo[n] = {}
          /\ \A m \in Sessions : m # n => pass'[m] = pass[m]
        BY <1>7 DEF OnConnectReturns, linkVars, scriptVars, TypeOK
    <2>2. \A f : OnItsWay(f) => OnItsWay(f)'
        BY <2>1 DEF OnItsWay, Ask
    <2> QED
        BY <2>1, <2>2 DEF FiltersInv
<1>8. ASSUME NEW n \in Sessions, NEW g \in Filters, Resubscribe(n, g) PROVE FiltersInv'
    <2> SUFFICES ASSUME link, connected
                 PROVE  \A f \in filters : f \in broker' \cup refused' \/ OnItsWay(f)'
        BY <1>8 DEF Resubscribe, clientVars, FiltersInv
    <2>1. /\ UNCHANGED <<pass, script>>
          /\ \A m \in Sessions : todo[m] \ {g} \subseteq todo'[m]
        BY <1>8 DEF Resubscribe, scriptVars, TypeOK
    <2>2. \A f : f # g /\ OnItsWay(f) => OnItsWay(f)'
        BY <2>1 DEF OnItsWay, Ask
    <2>3. /\ g \in broker' \cup refused'
          /\ broker \subseteq broker' /\ refused \subseteq refused'
        BY <1>8, Settles DEF Resubscribe
    <2> QED
        BY <2>2, <2>3 DEF FiltersInv
<1>9. ASSUME NEW s \in Scripts, LoadStart(s) \/ SubscribeRaises(s) \/ LoadEnd(s) PROVE FiltersInv'
    <2>1. /\ UNCHANGED <<link, connected, filters, broker, refused, pass, todo>>
          /\ \A r \in Scripts : r # s => script'[r] = script[r]
        BY <1>9 DEF LoadStart, SubscribeRaises, LoadEnd, TypeOK, clientVars, linkVars, handlerVars
    <2>2. ~script[s].sending
        <3>1. script[s].at \in Nat /\ Len(Asks[s]) \in Nat /\ Sane(s, script[s])
            BY MqttAssumption DEF TypeOK, States, ScriptInv
        <3> QED
            BY <1>9, <3>1 DEF LoadStart, SubscribeRaises, LoadEnd, Asking, Sane
    <2>3. \A f : OnItsWay(f) => OnItsWay(f)'
        BY <2>1, <2>2 DEF OnItsWay, Ask
    <2> QED
        BY <2>1, <2>3 DEF FiltersInv
<1>10. ASSUME NEW s \in Scripts, SubscribeRecords(s) PROVE FiltersInv'
    <2> SUFFICES ASSUME link, connected
                 PROVE  \A f \in filters \cup {Ask(s)} : f \in broker \cup refused \/ OnItsWay(f)'
        BY <1>10 DEF SubscribeRecords, linkVars, FiltersInv
    <2>1. /\ UNCHANGED <<pass, todo>> /\ ~script[s].sending
          /\ \A r \in Scripts : r # s => script'[r] = script[r]
        BY <1>10 DEF SubscribeRecords, Asking, handlerVars, TypeOK
    <2>2. \A f : OnItsWay(f) => OnItsWay(f)'
        BY <2>1 DEF OnItsWay, Ask
    <2>3. CASE Ask(s) \in filters
        BY <2>2, <2>3 DEF FiltersInv
    <2>4. CASE Ask(s) \notin filters
        <3> DEFINE r == [script[s] EXCEPT !.sending = TRUE]
        <3>1. script[s] \in States
            BY DEF TypeOK
        <3>2. r.sending /\ r.at = script[s].at
            BY <3>1 DEF States
        <3>3. script'[s] = r
            BY <1>10, <2>4 DEF SubscribeRecords, TypeOK
        <3> HIDE DEF r
        <3>4. ASSUME NEW f, f = Ask(s) PROVE OnItsWay(f)'
            BY <3>2, <3>3, <3>4 DEF OnItsWay, Ask
        <3> QED
            BY <2>2, <3>4 DEF FiltersInv
    <2> QED
        BY <2>3, <2>4
<1>11. ASSUME NEW s \in Scripts, SubscribeSends(s) PROVE FiltersInv'
    <2> SUFFICES ASSUME link, connected
                 PROVE  \A f \in filters : f \in broker' \cup refused' \/ OnItsWay(f)'
        BY <1>11 DEF SubscribeSends, clientVars, FiltersInv
    <2>1. /\ UNCHANGED <<pass, todo>>
          /\ \A r \in Scripts : r # s => script'[r] = script[r]
        BY <1>11 DEF SubscribeSends, handlerVars, TypeOK
    <2>2. \A f : f # Ask(s) /\ OnItsWay(f) => OnItsWay(f)'
        BY <2>1 DEF OnItsWay, Ask
    <2>3. /\ Ask(s) \in broker' \cup refused'
          /\ broker \subseteq broker' /\ refused \subseteq refused'
        BY <1>11, Settles DEF SubscribeSends
    <2> QED
        BY <2>2, <2>3 DEF FiltersInv
<1>12. CASE \/ \E t \in Topics : Publish(t) \/ DispatchMQTT(t)
            \/ \E s \in Scripts : DispatchOther(s) \/ Take(s)
    BY <1>4, <1>12 DEF Publish, DispatchMQTT, DispatchOther, Take, clientVars, linkVars, handlerVars, scriptVars
<1>13. CASE UNCHANGED vars
    BY <1>4, <1>13 DEF vars, clientVars, linkVars, handlerVars, scriptVars
<1> QED
    BY <1>1, <1>3, <1>5, <1>6, <1>7, <1>8, <1>9, <1>10, <1>11, <1>12, <1>13 DEF Next

LEMMA Delivery ==
    ASSUME TypeOK, ScriptInv, strayed = {}, [Next]_vars
    PROVE  /\ strayed' = {}
           /\ \A s \in missed' \ missed :
                 script[s].st \in {"loading", "raised"} \/ (~Room(s) /\ inbox'[s] = inbox[s])
<1>1. ASSUME NEW t \in Topics, DispatchMQTT(t) PROVE strayed' = {}
    BY <1>1 DEF DispatchMQTT
<1>2. CASE \E t \in Topics : DispatchMQTT(t)
    BY <1>1, <1>2, Reached
<1>3. CASE \E s \in Scripts : Take(s)
    <2>1. missed' = missed /\ strayed' = strayed
        BY <1>3, Heard
    <2> QED
        BY <2>1
<1>4. CASE ~(\E t \in Topics : DispatchMQTT(t)) /\ ~(\E s \in Scripts : Take(s))
    <2>1. missed' \subseteq missed /\ strayed' \subseteq strayed
        BY <1>4 DEF Next, vars, messageVars, LinkUp, LinkLost, Reconnect, LateConnect, StartConnects,
           StartFails, StartReturns, RetryConnect, Disconnect, OnConnect, OnConnectReturns, Resubscribe,
           ConnectionLost, LoadStart, SubscribeRaises, SubscribeRecords, SubscribeSends, LoadEnd, Publish,
           DispatchOther
    <2> QED
        BY <2>1
<1> QED
    BY <1>2, <1>3, <1>4

-----------------------------------------------------------------------------
LEMMA Inductive == Spec => []IInv
<1>1. IInv /\ [Next]_vars => IInv'
    BY TypeStep, ScriptStep, FiltersStep, Delivery DEF IInv
<1> QED
    BY InitIInv, <1>1, PTL DEF Spec

\* The client, the broker's sessions and the scripts keep their types.
THEOREM TypeCorrect == Spec => []TypeOK
<1>1. IInv => TypeOK
    BY DEF IInv
<1> QED
    BY Inductive, <1>1, PTL

\* Subscribe and OnConnect under one lock (client.go) lose no filter between them, over
\* any number of sessions and scripts: when nobody is about to send, the broker has every
\* filter a script was told is subscribed, or its SUBSCRIBE failed in this session.
THEOREM NoFilterLost == Spec => []SubscribedWhenQuiet
<1>1. IInv => SubscribedWhenQuiet
    BY DEF IInv, FiltersInv, OnItsWay, Quiet, SubscribedWhenQuiet
<1> QED
    BY Inductive, <1>1, PTL

\* DispatchMQTT and handleMQTTMessage over one Match: a message reaches the handlers whose
\* filter denotes its topic and no other.  A script misses one only while its main chunk
\* still runs, or because Runner.Send found its channel full, for channels of any
\* capacity and whatever other events they are filled with.
THEOREM DeliveredAsMeant == Spec => MissedForAReason
<1>1. IInv /\ [Next]_vars =>
        [/\ strayed' = {}
         /\ \A s \in missed' \ missed :
               \/ script[s].st \in {"loading", "raised"}
               \/ ~Room(s) /\ inbox'[s] = inbox[s]]_vars
    BY Delivery DEF IInv
<1> QED
    BY Inductive, <1>1, PTL DEF Spec, MissedForAReason

=============================================================================
