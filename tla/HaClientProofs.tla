--------------------------- MODULE HaClientProofs ---------------------------
(***************************************************************************)
(* Proofs about HaClient for every number of commands, writers, event      *)
(* types and connections.                                                  *)
(*                                                                         *)
(* Ids are taken once and never again, over all connections (IdInv), so an *)
(* answer can only be that of the command that has its id (FateInv), and   *)
(* forget takes only its own waiter out of the map.  A waiter that has no  *)
(* result is in the map of the connection it sent on, and the map is not   *)
(* replaced but drained (ReachInv).  subscribed marks a type before its    *)
(* frame is written, by whoever is going to write it (SubsInv).            *)
(***************************************************************************)
EXTENDS HaClient, TLAPS

\* The connection is published.
Up == link \in {"published", "ask", "seeding", "seeded", "subscribing", "reading"}

\* A command that has taken its id and not returned, and one that may be answered.
Numbered(c) == cmd[c].pc \in {"numbered", "registered", "waiting", "leaving"}
Written(c) == cmd[c].pc \in {"waiting", "leaving"}

\* A writer that is going to ask for t on the newest connection.
Carries(w, t) ==
    /\ writer[w].pc \in {"captured", "numbered"}
    /\ writer[w].type = t /\ writer[w].sock = dials

LinkInv ==
    /\ Up => conn = dials
    /\ Up \/ link = "auth" => dials # NoSocket
    /\ ~Up => conn = NoSocket /\ DOMAIN pending = {}
    /\ drained # {} => link = "closing"
    /\ link \in {"down", "stopped"} => net = "closed"

IdInv ==
    /\ linkID <= msgID
    /\ \A a \in answers : a.id <= msgID
    /\ \A c \in Commands : Numbered(c) => cmd[c].id \in 1..msgID /\ cmd[c].id # linkID
    /\ \A c, d \in Commands :
          Numbered(c) /\ Numbered(d) /\ cmd[c].id = cmd[d].id => c = d

Verdict(ok) == IF ok THEN "accepted" ELSE "refused"

FateInv ==
    /\ \A c \in Commands, a \in answers :
          Numbered(c) /\ a.id = cmd[c].id => Written(c) /\ fate[c] = Verdict(a.ok)
    /\ \A i \in DOMAIN pending :
          /\ cmd[pending[i]].id = i
          /\ cmd[pending[i]].pc \in {"registered", "waiting", "leaving"}
    /\ \A c \in Commands : chan[c] \in {"accepted", "refused"} =>
          chan[c] = fate[c] /\ cmd[c].pc \in {"waiting", "leaving", "done"}
    /\ \A c \in Commands : verdict[c] \in {"accepted", "refused"} =>
          verdict[c] = fate[c] /\ cmd[c].pc \in {"leaving", "done"}

ReachInv ==
    \A c \in Commands :
        cmd[c].pc \in {"registered", "waiting"} /\ chan[c] = "empty" =>
            \/ c \in drained
            \/ /\ cmd[c].sock = conn
               /\ cmd[c].id \in DOMAIN pending /\ pending[cmd[c].id] = c

\* Who is going to ask: nobody twice, ...
OnceInv ==
    /\ \A w \in Writers : writer[w].sock <= dials /\ (writer[w].pc = "new" => writer[w].type = Raw)
    /\ \A t \in Types : asked[t] <= 1
    /\ \A t \in todo : asked[t] = 0 /\ t \in subscribed /\ \A w \in Writers : ~Carries(w, t)
    /\ \A t \in Types, w \in Writers : Carries(w, t) =>
          asked[t] = 0 /\ \A v \in Writers : Carries(v, t) => v = w
    /\ Up => \A t \in Types :
          asked[t] > 0 \/ (\E w \in Writers : Carries(w, t)) => t \in subscribed
    /\ todo # {} => link = "subscribing"
    /\ link \in {"auth", "down", "stopped"} => \A t \in Types : asked[t] = 0
    /\ link = "auth" => \A t \in Types, w \in Writers : ~Carries(w, t)

\* ... and somebody for every type.
SubsInv ==
    /\ Up /\ net = "open" => \A t \in subscribed :
          asked[t] > 0 \/ t \in todo \/ \E w \in Writers : Carries(w, t)
    /\ link \in {"subscribing", "reading"} => {StateChanged} \cup eventTypes \subseteq subscribed
    /\ link = "reading" => todo = {}

IInv == TypeOK /\ LinkInv /\ IdInv /\ FateInv /\ ReachInv /\ OnceInv /\ SubsInv

-----------------------------------------------------------------------------
LEMMA InitIInv == Init => IInv
<1> SUFFICES ASSUME Init PROVE IInv
    OBVIOUS
<1> USE DEF Init
<1>1. TypeOK
    <2>1. NoSocket \in Sockets /\ 0 \in Nat
        BY HaClientAssumption DEF Sockets, NoSocket
    <2>2. [pc |-> "new", id |-> 0, sock |-> NoSocket] \in Calls
        BY <2>1 DEF Calls
    <2>3. [pc |-> "new", type |-> Raw, id |-> 0, sock |-> NoSocket] \in Writes
        BY <2>1 DEF Writes
    <2>4. DOMAIN pending = {} /\ Range(pending) = {}
        BY DEF Range
    <2> QED
        BY <2>1, <2>2, <2>3, <2>4 DEF TypeOK, Sockets, NoSocket
<1>2. LinkInv /\ IdInv /\ FateInv /\ ReachInv /\ OnceInv /\ SubsInv
    BY HaClientAssumption DEF LinkInv, Up, NoSocket, IdInv, Numbered, FateInv, Written, ReachInv,
       OnceInv, Carries, SubsInv
<1> QED
    BY <1>1, <1>2 DEF IInv

LEMMA TypeStep == TypeOK /\ [Next]_vars => TypeOK'
<1> SUFFICES ASSUME TypeOK, [Next]_vars PROVE TypeOK'
    OBVIOUS
<1>1. NextID \in Nat /\ NoSocket \in Sockets
    BY HaClientAssumption DEF TypeOK, NextID, Sockets, NoSocket
<1> USE <1>1 DEF TypeOK, clientVars, loopVars, callVars, haVars
<1>2. ASSUME Connect PROVE TypeOK'
    <2> USE DEF Ask, Reaches, Vanishes, Receive, Accepts, Answer
    <2>1. CASE Publish
        BY <2>1 DEF Publish
    <2>2. CASE AskStates
        BY <2>2 DEF AskStates
    <2>3. CASE WriteStates
        <3>1. [id |-> linkID, ok |-> Accepts(linkID)] \in [id : Nat, ok : BOOLEAN]
            BY DEF Accepts
        <3>2. lastID' \in Nat /\ answers' \subseteq [id : Nat, ok : BOOLEAN]
            BY <2>3, <3>1 DEF WriteStates
        <3> QED
            BY <2>3, <3>2 DEF WriteStates
    <2>4. CASE \E a \in answers : ReadStates(a)
        BY <2>4 DEF ReadStates
    <2>5. CASE MarkTypes
        BY <2>5 DEF MarkTypes, Types
    <2>6. CASE NumberSubscribe
        BY <2>6 DEF NumberSubscribe
    <2>7. CASE \E t \in todo : WriteSubscribe(t)
        BY <2>7 DEF WriteSubscribe
    <2>8. CASE EnterRead \/ AuthFails
        BY <2>8 DEF EnterRead, AuthFails
    <2>9. CASE Disconnect
        BY <2>9 DEF Disconnect, Range
    <2>10. CASE \E c \in drained : FailPending(c)
        BY <2>10 DEF FailPending, Results
    <2>11. CASE CloseNow
        <3>1. rivals' \in BOOLEAN /\ carried' \subseteq Types /\ asked' \in [Types -> Nat]
            BY <2>11 DEF CloseNow
        <3> QED
            BY <2>11, <3>1 DEF CloseNow
    <2> QED
        BY <1>2, <2>1, <2>2, <2>3, <2>4, <2>5, <2>6, <2>7, <2>8, <2>9, <2>10, <2>11 DEF Connect
<1>3. CASE Answered
    BY <1>3 DEF Answered, DeliverResult, Results, Range
<1>4. CASE Dial
    <2>1. dials + 1 \in Sockets
        BY <1>4, HaClientAssumption DEF Dial, Sockets
    <2> QED
        BY <1>4, <2>1 DEF Dial
<1>5. CASE Break \/ LoopExit \/ Shutdown
    BY <1>5 DEF Break, LoopExit, Shutdown
<1>6. ASSUME NEW c \in Commands, NumberCommand(c) \/ Command(c) \/ GiveUp(c) PROVE TypeOK'
    <2>1. cmd[c] \in Calls /\ Done \in Calls
        BY DEF Calls, Done
    <2>2. CASE NumberCommand(c)
        <3>1. [cmd[c] EXCEPT !.pc = "numbered", !.id = NextID] \in Calls
            BY <2>1 DEF Calls
        <3> QED
            BY <2>2, <3>1 DEF NumberCommand
    <2>3. CASE Register(c)
        <3>1. [cmd[c] EXCEPT !.pc = "registered", !.sock = conn] \in Calls /\ cmd[c].id \in Nat
            BY <2>1 DEF Calls
        <3> QED
            BY <2>3, <3>1 DEF Register, Range
    <2>4. CASE WriteCommand(c)
        <3>1. [cmd[c] EXCEPT !.pc = "waiting"] \in Calls /\ cmd[c].id \in Nat
            BY <2>1 DEF Calls
        <3>2. rivals' \in BOOLEAN
            BY <2>4 DEF WriteCommand
        <3> QED
            BY <2>4, <3>1, <3>2 DEF WriteCommand, Receive, Accepts, Answer
    <2>5. CASE NotConnected(c)
        BY <2>1, <2>5 DEF NotConnected
    <2>6. CASE WriteFails(c) \/ Hear(c) \/ GiveUp(c)
        <3>1. [cmd[c] EXCEPT !.pc = "leaving"] \in Calls
            BY <2>1 DEF Calls
        <3> QED
            BY <2>6, <3>1 DEF WriteFails, Hear, GiveUp, Results
    <2>7. CASE Forget(c)
        BY <2>1, <2>7 DEF Forget, Range
    <2> QED
        BY <1>6, <2>2, <2>3, <2>4, <2>5, <2>6, <2>7 DEF Command
<1>7. ASSUME NEW w \in Writers,
             (\E t \in ExtraTypes : AddEventType(w, t)) \/ Live(w) \/ NumberRaw(w) \/ SendRaw(w)
      PROVE  TypeOK'
    <2>1. writer[w] \in Writes /\ Returned \in Writes
        BY DEF Writes, Returned
    <2>2. ASSUME NEW t \in ExtraTypes, AddEventType(w, t) PROVE TypeOK'
        <3>1. [writer[w] EXCEPT !.pc = "captured", !.type = t, !.sock = conn] \in Writes
            BY <2>1 DEF Writes, Types
        <3> QED
            BY <2>1, <2>2, <3>1 DEF AddEventType, Types
    <2>3. CASE NumberLive(w) \/ NumberRaw(w)
        <3>1. [writer[w] EXCEPT !.pc = "numbered", !.id = NextID] \in Writes
            BY <2>1 DEF Writes
        <3> QED
            BY <2>3, <3>1 DEF NumberLive, NumberRaw
    <2>4. CASE WriteLive(w) \/ SendRaw(w)
        <3>1. writer[w].id \in Nat
            BY <2>1 DEF Writes
        <3>2. rivals' \in BOOLEAN
            BY <2>4 DEF WriteLive, SendRaw
        <3>3. carried' \subseteq Types
            BY <2>1, <2>4 DEF WriteLive, SendRaw, Ask, Writes
        <3> QED
            BY <2>1, <2>4, <3>1, <3>2, <3>3 DEF WriteLive, SendRaw, Ask, Receive, Accepts
    <2> QED
        BY <1>7, <2>2, <2>3, <2>4 DEF Live
<1>8. CASE UNCHANGED vars
    BY <1>8 DEF vars
<1> QED
    BY <1>2, <1>3, <1>4, <1>5, <1>6, <1>7, <1>8 DEF Next

\* The goroutines that write without waiting touch nothing of the commands and of connect.
WriterStep(w) ==
    (\E t \in ExtraTypes : AddEventType(w, t)) \/ Live(w) \/ NumberRaw(w) \/ SendRaw(w)

LEMMA WritersApart ==
    ASSUME NEW w \in Writers, WriterStep(w)
    PROVE  /\ UNCHANGED <<conn, pending, loopVars, cmd, chan, verdict, dials, net, answers, fate>>
           /\ msgID' \in {msgID, NextID}
<1> USE DEF clientVars, loopVars, callVars, haVars
<1>1. CASE \E t \in ExtraTypes : AddEventType(w, t)
    BY <1>1 DEF AddEventType
<1>2. CASE NumberLive(w)
    BY <1>2 DEF NumberLive
<1>3. CASE WriteLive(w)
    BY <1>3 DEF WriteLive
<1>4. CASE NumberRaw(w)
    BY <1>4 DEF NumberRaw
<1>5. CASE SendRaw(w)
    BY <1>5 DEF SendRaw
<1> QED
    BY <1>1, <1>2, <1>3, <1>4, <1>5 DEF WriterStep, Live

LEMMA LinkStep == TypeOK /\ LinkInv /\ [Next]_vars => LinkInv'
<1> SUFFICES ASSUME TypeOK, LinkInv, [Next]_vars PROVE LinkInv'
    OBVIOUS
<1>1. dials \in Nat
    BY HaClientAssumption DEF TypeOK, Sockets
<1> USE DEF LinkInv, Up, NoSocket, clientVars, loopVars, callVars, haVars
<1>2. CASE Connect
    <2>1. CASE Disconnect
        BY <2>1 DEF Disconnect
    <2>2. CASE Publish
        BY <2>2 DEF Publish
    <2>3. CASE \E t \in todo : WriteSubscribe(t)
        BY <2>3 DEF WriteSubscribe
    <2>4. CASE \E c \in drained : FailPending(c)
        BY <2>4 DEF FailPending
    <2>5. CASE AuthFails \/ CloseNow
        BY <2>5 DEF AuthFails, CloseNow
    <2> QED
        BY <1>2, <2>1, <2>2, <2>3, <2>4, <2>5 DEF Connect, AskStates, WriteStates, ReadStates,
           MarkTypes, NumberSubscribe, EnterRead
<1>3. CASE Dial
    BY <1>1, <1>3 DEF Dial
<1>4. CASE Break \/ LoopExit \/ Shutdown \/ Answered
    BY <1>4 DEF Break, LoopExit, Shutdown, Answered, DeliverResult
<1>5. ASSUME NEW c \in Commands, NumberCommand(c) \/ Command(c) \/ GiveUp(c) PROVE LinkInv'
    BY <1>5 DEF NumberCommand, Command, Register, NotConnected, WriteCommand, WriteFails, Hear,
       Forget, GiveUp
<1>6. ASSUME NEW w \in Writers, WriterStep(w) PROVE LinkInv'
    BY <1>6, WritersApart DEF loopVars
<1>7. CASE UNCHANGED vars
    BY <1>7 DEF vars
<1> QED
    BY <1>2, <1>3, <1>4, <1>5, <1>6, <1>7 DEF Next, WriterStep

LEMMA IdStep == TypeOK /\ IdInv /\ [Next]_vars => IdInv'
<1> SUFFICES ASSUME TypeOK, IdInv, [Next]_vars PROVE IdInv'
    OBVIOUS
<1>1. /\ msgID \in Nat /\ linkID \in Nat /\ NextID = msgID + 1
      /\ \A a \in answers : a.id \in Nat
      /\ cmd \in [Commands -> Calls] /\ \A c \in Commands : cmd[c].id \in Nat
    BY DEF TypeOK, Calls, NextID
<1> USE <1>1 DEF IdInv, Numbered, clientVars, loopVars, callVars, haVars
<1>2. CASE Connect
    BY <1>2 DEF Connect, Publish, AskStates, WriteStates, Answer, ReadStates, MarkTypes,
       NumberSubscribe, WriteSubscribe, EnterRead, Disconnect, AuthFails, FailPending, CloseNow
<1>3. CASE Dial \/ Break \/ LoopExit \/ Shutdown \/ Answered
    BY <1>3 DEF Dial, Break, LoopExit, Shutdown, Answered, DeliverResult
<1>4. ASSUME NEW c \in Commands, NumberCommand(c) PROVE IdInv'
    BY <1>4 DEF NumberCommand, Calls
<1>5. ASSUME NEW c \in Commands, Command(c) \/ GiveUp(c) PROVE IdInv'
    <2>1. CASE WriteCommand(c)
        BY <2>1 DEF WriteCommand, Answer, Calls
    <2>2. CASE Register(c)
        BY <2>2 DEF Register, Calls
    <2>3. CASE WriteFails(c) \/ Hear(c) \/ GiveUp(c)
        BY <2>3 DEF WriteFails, Hear, GiveUp, Calls
    <2>4. CASE NotConnected(c) \/ Forget(c)
        BY <2>4 DEF NotConnected, Forget, Done, Calls
    <2> QED
        BY <1>5, <2>1, <2>2, <2>3, <2>4 DEF Command
<1>6. ASSUME NEW w \in Writers, WriterStep(w) PROVE IdInv'
    BY <1>6, WritersApart DEF loopVars
<1>7. CASE UNCHANGED vars
    BY <1>7 DEF vars
<1> QED
    BY <1>2, <1>3, <1>4, <1>5, <1>6, <1>7 DEF Next, WriterStep

LEMMA FateStep == TypeOK /\ IdInv /\ LinkInv /\ FateInv /\ [Next]_vars => FateInv'
<1> SUFFICES ASSUME TypeOK, IdInv, LinkInv, FateInv, [Next]_vars PROVE FateInv'
    OBVIOUS
<1>1. /\ msgID \in Nat /\ NextID = msgID + 1
      /\ \A a \in answers : a.id \in Nat /\ a.ok \in BOOLEAN
      /\ cmd \in [Commands -> Calls] /\ \A c \in Commands : cmd[c].id \in Nat
      /\ \A i \in DOMAIN pending : pending[i] \in Commands
      /\ chan \in [Commands -> Results \cup {"empty"}]
      /\ verdict \in [Commands -> Results \cup {"none", "unsent", "gave_up"}]
      /\ fate \in [Commands -> {"none", "accepted", "refused"}]
    BY DEF TypeOK, Calls, NextID, Range
<1> USE <1>1 DEF FateInv, Numbered, Written, clientVars, loopVars, callVars, haVars
<1>2. CASE Connect
    <2>1. CASE WriteStates
        BY <2>1 DEF WriteStates, Answer, IdInv
    <2>2. CASE Disconnect
        BY <2>2 DEF Disconnect
    <2>3. CASE \E c \in drained : FailPending(c)
        BY <2>3 DEF FailPending, TypeOK
    <2>4. CASE \E t \in todo : WriteSubscribe(t)
        BY <2>4 DEF WriteSubscribe
    <2> QED
        BY <1>2, <2>1, <2>2, <2>3, <2>4 DEF Connect, Publish, AskStates, ReadStates, MarkTypes,
           NumberSubscribe, EnterRead, AuthFails, CloseNow
<1>3. CASE Answered
    BY <1>3 DEF Answered, DeliverResult, Verdict
<1>4. CASE Dial \/ Break \/ LoopExit \/ Shutdown
    BY <1>4 DEF Dial, Break, LoopExit, Shutdown
<1>5. ASSUME NEW c \in Commands, NumberCommand(c) PROVE FateInv'
    BY <1>5 DEF NumberCommand, Calls, IdInv
<1>6. ASSUME NEW c \in Commands, WriteCommand(c) PROVE FateInv'
    BY <1>6 DEF WriteCommand, Answer, Calls, IdInv, Verdict
<1>7. ASSUME NEW c \in Commands, Register(c) PROVE FateInv'
    BY <1>7 DEF Register, Calls
<1>8. ASSUME NEW c \in Commands, Hear(c) PROVE FateInv'
    BY <1>8 DEF Hear, Calls
<1>9. ASSUME NEW c \in Commands, Forget(c) PROVE FateInv'
    BY <1>9 DEF Forget, Done, Calls
<1>10. ASSUME NEW c \in Commands, NotConnected(c) PROVE FateInv'
    BY <1>10 DEF NotConnected, Done, Calls
<1>11. ASSUME NEW c \in Commands, WriteFails(c) PROVE FateInv'
    BY <1>11 DEF WriteFails, Calls
<1>12. ASSUME NEW c \in Commands, GiveUp(c) PROVE FateInv'
    BY <1>12 DEF GiveUp, Calls
<1>13. ASSUME NEW w \in Writers, WriterStep(w) PROVE FateInv'
    BY <1>13, WritersApart DEF loopVars
<1>14. CASE UNCHANGED vars
    BY <1>14 DEF vars
<1> QED
    BY <1>2, <1>3, <1>4, <1>5, <1>6, <1>7, <1>8, <1>9, <1>10, <1>11, <1>12, <1>13, <1>14 DEF Next, Command, WriterStep

LEMMA ReachStep == IInv /\ [Next]_vars => ReachInv'
<1> SUFFICES ASSUME IInv, [Next]_vars PROVE ReachInv'
    OBVIOUS
<1>1. /\ cmd \in [Commands -> Calls]
      /\ \A i \in DOMAIN pending : pending[i] \in Commands
      /\ chan \in [Commands -> Results \cup {"empty"}]
    BY DEF IInv, TypeOK, Range
<1>2. ReachInv /\ LinkInv
    BY DEF IInv
<1> USE <1>1, <1>2 DEF ReachInv, clientVars, loopVars, callVars, haVars
<1>3. CASE Connect
    <2>1. CASE Disconnect
        BY <2>1 DEF Disconnect, LinkInv, Range
    <2>2. CASE \E c \in drained : FailPending(c)
        BY <2>2 DEF FailPending, Results
    <2>3. CASE \E t \in todo : WriteSubscribe(t)
        BY <2>3 DEF WriteSubscribe
    <2>4. CASE Publish
        BY <2>4 DEF Publish, LinkInv, Up
    <2> QED
        BY <1>3, <2>1, <2>2, <2>3, <2>4 DEF Connect, AskStates, WriteStates, ReadStates, MarkTypes,
           NumberSubscribe, EnterRead, AuthFails, CloseNow
<1>4. CASE Answered
    BY <1>4 DEF Answered, DeliverResult
<1>5. CASE Dial \/ Break \/ LoopExit \/ Shutdown
    BY <1>5 DEF Dial, Break, LoopExit, Shutdown
<1>6. ASSUME NEW c \in Commands, Register(c) PROVE ReachInv'
    <2>1. \A d \in Commands : d # c /\ cmd[d].pc \in {"registered", "waiting"} => cmd[d].id # cmd[c].id
        BY <1>6 DEF Register, IInv, IdInv, Numbered
    <2> QED
        BY <1>6, <2>1 DEF Register, Calls
<1>7. ASSUME NEW c \in Commands, Forget(c) PROVE ReachInv'
    <2>1. \A d \in Commands : d # c /\ cmd[d].pc \in {"registered", "waiting"} => cmd[d].id # cmd[c].id
        BY <1>7 DEF Forget, IInv, IdInv, Numbered
    <2> QED
        BY <1>7, <2>1 DEF Forget, Done, Calls
<1>8. ASSUME NEW c \in Commands, NumberCommand(c) PROVE ReachInv'
    BY <1>8 DEF NumberCommand, Calls
<1>9. ASSUME NEW c \in Commands, WriteCommand(c) PROVE ReachInv'
    BY <1>9 DEF WriteCommand, Calls
<1>10. ASSUME NEW c \in Commands, WriteFails(c) \/ Hear(c) \/ GiveUp(c) PROVE ReachInv'
    BY <1>10 DEF WriteFails, Hear, GiveUp, Calls
<1>11. ASSUME NEW c \in Commands, NotConnected(c) PROVE ReachInv'
    BY <1>11 DEF NotConnected, Done, Calls
<1>12. ASSUME NEW w \in Writers, WriterStep(w) PROVE ReachInv'
    BY <1>12, WritersApart
<1>13. CASE UNCHANGED vars
    BY <1>13 DEF vars
<1> QED
    BY <1>3, <1>4, <1>5, <1>6, <1>7, <1>8, <1>9, <1>10, <1>11, <1>12, <1>13
    DEF Next, Command, WriterStep

LEMMA OnceStep == IInv /\ [Next]_vars => OnceInv'
<1> SUFFICES ASSUME IInv, [Next]_vars PROVE OnceInv'
    OBVIOUS
<1>1. /\ dials \in Nat /\ conn \in Nat
      /\ writer \in [Writers -> Writes] /\ \A w \in Writers : writer[w].sock \in Nat
      /\ asked \in [Types -> Nat] /\ todo \subseteq Types /\ eventTypes \subseteq Types
      /\ Raw \notin Types
    BY HaClientAssumption DEF IInv, TypeOK, Sockets, Writes, Types
<1>2. OnceInv /\ LinkInv
    BY DEF IInv
<1> USE <1>1, <1>2 DEF OnceInv, Up, Carries, clientVars, loopVars, callVars, haVars
<1>3. CASE Connect
    <2>1. CASE Publish
        BY <2>1 DEF Publish
    <2>2. CASE MarkTypes
        BY <2>2 DEF MarkTypes, Types
    <2>3. CASE \E t \in todo : WriteSubscribe(t)
        BY <2>3 DEF WriteSubscribe, Ask
    <2>4. CASE Disconnect
        BY <2>4 DEF Disconnect
    <2>5. CASE AuthFails \/ CloseNow
        BY <2>5 DEF AuthFails, CloseNow
    <2>6. CASE WriteStates \/ \E a \in answers : ReadStates(a)
        BY <2>6 DEF WriteStates, ReadStates
    <2>7. CASE AskStates \/ NumberSubscribe \/ EnterRead \/ \E c \in drained : FailPending(c)
        BY <2>7 DEF AskStates, NumberSubscribe, EnterRead, FailPending
    <2> QED
        BY <1>3, <2>1, <2>2, <2>3, <2>4, <2>5, <2>6, <2>7 DEF Connect
<1>4. CASE Dial
    BY <1>4 DEF Dial
<1>5. CASE Break \/ LoopExit \/ Shutdown \/ Answered
    BY <1>5 DEF Break, LoopExit, Shutdown, Answered, DeliverResult
<1>6. ASSUME NEW c \in Commands, NumberCommand(c) \/ Command(c) \/ GiveUp(c) PROVE OnceInv'
    BY <1>6 DEF NumberCommand, Command, Register, NotConnected, WriteCommand, WriteFails, Hear,
       Forget, GiveUp
<1>7. ASSUME NEW w \in Writers, NEW t \in ExtraTypes, AddEventType(w, t) PROVE OnceInv'
    <2>1. /\ \A v \in Writers : v # w => writer'[v] = writer[v]
          /\ t \in Types /\ UNCHANGED <<asked, todo, dials, link, conn, net>>
        BY <1>7 DEF AddEventType, Types
    <2>2. CASE conn # NoSocket /\ t \notin subscribed
        <3>1. /\ writer'[w].pc = "captured" /\ writer'[w].type = t /\ writer'[w].sock = conn
              /\ subscribed' = subscribed \cup {t}
            <4>1. writer'[w] = [writer[w] EXCEPT !.pc = "captured", !.type = t, !.sock = conn]
                BY <1>7, <2>2 DEF AddEventType
            <4>2. [writer[w] EXCEPT !.pc = "captured", !.type = t, !.sock = conn].pc = "captured"
                BY DEF Writes
            <4>3. [writer[w] EXCEPT !.pc = "captured", !.type = t, !.sock = conn].type = t
                BY DEF Writes
            <4>4. [writer[w] EXCEPT !.pc = "captured", !.type = t, !.sock = conn].sock = conn
                BY DEF Writes
            <4> QED
                BY <1>7, <2>2, <4>1, <4>2, <4>3, <4>4 DEF AddEventType
        <3>2. Up /\ conn = dials
            BY <2>2 DEF LinkInv
        <3>3. asked[t] = 0 /\ t \notin todo /\ \A v \in Writers : ~Carries(v, t)
            BY <2>1, <2>2, <3>2
        <3> QED
            BY <2>1, <3>1, <3>2, <3>3
    <2>3. CASE ~(conn # NoSocket /\ t \notin subscribed)
        <3>1. writer'[w].pc = "done" /\ writer'[w].sock = 0 /\ writer[w].pc = "new" /\ UNCHANGED subscribed
            BY <1>7, <2>3 DEF AddEventType, Returned, NoSocket
        <3> QED
            BY <2>1, <3>1
    <2> QED
        BY <2>2, <2>3
<1>8. ASSUME NEW w \in Writers, NumberLive(w) \/ NumberRaw(w) PROVE OnceInv'
    <2>1. /\ \A v \in Writers : v # w => writer'[v] = writer[v]
          /\ UNCHANGED <<asked, todo, dials, link, subscribed>>
          /\ writer'[w].pc = "numbered" /\ writer'[w].type = writer[w].type /\ writer'[w].sock = writer[w].sock
          /\ writer[w].pc = "captured" \/ (writer[w].pc = "new" /\ writer[w].type = Raw)
        <3> DEFINE r == [writer[w] EXCEPT !.pc = "numbered", !.id = NextID]
        <3>1. writer' = [writer EXCEPT ![w] = r]
            BY <1>8 DEF NumberLive, NumberRaw
        <3>2. r.pc = "numbered" /\ r.type = writer[w].type /\ r.sock = writer[w].sock
            BY DEF Writes
        <3> HIDE DEF r
        <3>3. UNCHANGED <<asked, todo, dials, link, subscribed>>
            BY <1>8 DEF NumberLive, NumberRaw
        <3> QED
            BY <1>8, <3>1, <3>2, <3>3 DEF NumberLive, NumberRaw
    <2>2. \A t \in Types, v \in Writers : Carries(v, t)' <=> Carries(v, t)
        BY <2>1
    <2> QED
        BY <2>1, <2>2
<1>9. ASSUME NEW w \in Writers, WriteLive(w) PROVE OnceInv'
    <2>1. /\ \A v \in Writers : v # w => writer'[v] = writer[v]
          /\ UNCHANGED <<todo, dials, link, subscribed>>
          /\ writer'[w].pc = "done" /\ writer'[w].sock = 0
          /\ writer[w].pc = "numbered" /\ writer[w].type \in Types
        BY <1>9 DEF WriteLive, Returned, NoSocket, Writes
    <2> DEFINE t == writer[w].type
    <2>2. \/ UNCHANGED asked
          \/ Carries(w, t) /\ asked' = [asked EXCEPT ![t] = @ + 1]
        BY <1>9, <2>1 DEF WriteLive, Ask, Reaches
    <2>3. \A u \in Types, v \in Writers : Carries(v, u)' <=> (v # w /\ Carries(v, u))
        BY <2>1
    <2>4. CASE UNCHANGED asked
        BY <2>1, <2>3, <2>4
    <2>5. CASE Carries(w, t) /\ asked' = [asked EXCEPT ![t] = @ + 1]
        <3>1. asked[t] = 0 /\ t \notin todo /\ \A v \in Writers : Carries(v, t) => v = w
            BY <2>1, <2>5
        <3>2. t \in Types /\ writer[w].sock = dials /\ Reaches(dials)
            BY <1>9, <2>1, <2>5 DEF WriteLive, Ask, Reaches
        <3> HIDE DEF t
        <3>3. asked'[t] = 1 /\ \A u \in Types : u # t => asked'[u] = asked[u]
            BY <2>5, <3>1, <3>2
        <3>4. Up => t \in subscribed
            BY <2>5, <3>2
        <3>5. link \notin {"auth", "down", "stopped"}
            BY <2>5, <3>2 DEF Reaches, LinkInv
        <3> QED
            BY <2>1, <2>3, <3>1, <3>2, <3>3, <3>4, <3>5
    <2> QED
        BY <2>2, <2>4, <2>5
<1>10. ASSUME NEW w \in Writers, SendRaw(w) PROVE OnceInv'
    BY <1>10 DEF SendRaw, Returned, Writes, NoSocket
<1>11. CASE UNCHANGED vars
    BY <1>11 DEF vars
<1> QED
    BY <1>3, <1>4, <1>5, <1>6, <1>7, <1>8, <1>9, <1>10, <1>11 DEF Next, Live

LEMMA SubsStep == IInv /\ [Next]_vars => SubsInv'
<1> SUFFICES ASSUME IInv, [Next]_vars PROVE SubsInv'
    OBVIOUS
<1>1. /\ dials \in Nat /\ conn \in Nat
      /\ writer \in [Writers -> Writes]
      /\ asked \in [Types -> Nat] /\ todo \subseteq Types /\ subscribed \subseteq Types
      /\ Raw \notin Types
    BY HaClientAssumption DEF IInv, TypeOK, Sockets
<1>2. SubsInv /\ LinkInv
    BY DEF IInv
<1> USE <1>1, <1>2 DEF SubsInv, Up, Carries, clientVars, loopVars, callVars, haVars
<1>3. CASE Connect
    <2>1. CASE Publish
        BY <2>1 DEF Publish
    <2>2. CASE MarkTypes
        BY <2>2 DEF MarkTypes, IInv, OnceInv
    <2>3. CASE \E t \in todo : WriteSubscribe(t)
        BY <2>3 DEF WriteSubscribe, Ask, Reaches, Vanishes, LinkInv
    <2>4. CASE Disconnect
        BY <2>4 DEF Disconnect
    <2>5. CASE AuthFails \/ CloseNow
        BY <2>5 DEF AuthFails, CloseNow
    <2>6. CASE WriteStates \/ \E a \in answers : ReadStates(a)
        BY <2>6 DEF WriteStates, ReadStates
    <2>7. CASE AskStates \/ NumberSubscribe \/ EnterRead \/ \E c \in drained : FailPending(c)
        BY <2>7 DEF AskStates, NumberSubscribe, EnterRead, FailPending
    <2> QED
        BY <1>3, <2>1, <2>2, <2>3, <2>4, <2>5, <2>6, <2>7 DEF Connect
<1>4. CASE Dial \/ Break \/ LoopExit \/ Shutdown \/ Answered
    BY <1>4 DEF Dial, Break, LoopExit, Shutdown, Answered, DeliverResult
<1>5. ASSUME NEW c \in Commands, NumberCommand(c) \/ Command(c) \/ GiveUp(c) PROVE SubsInv'
    BY <1>5 DEF NumberCommand, Command, Register, NotConnected, WriteCommand, WriteFails, Hear,
       Forget, GiveUp
<1>6. ASSUME NEW w \in Writers, NEW t \in ExtraTypes, AddEventType(w, t) PROVE SubsInv'
    <2>1. /\ \A v \in Writers : v # w => writer'[v] = writer[v]
          /\ UNCHANGED <<asked, todo, dials, link, conn, net>>
          /\ writer[w].pc = "new" /\ eventTypes' = eventTypes \cup {t}
        BY <1>6 DEF AddEventType
    <2>2. CASE conn # NoSocket /\ t \notin subscribed
        <3>1. subscribed' = subscribed \cup {t}
            BY <1>6, <2>2 DEF AddEventType
        <3> DEFINE r == [writer[w] EXCEPT !.pc = "captured", !.type = t, !.sock = conn]
        <3>2. writer' = [writer EXCEPT ![w] = r]
            BY <1>6, <2>2 DEF AddEventType
        <3>3. r.pc = "captured" /\ r.type = t /\ r.sock = conn
            BY DEF Writes
        <3> HIDE DEF r
        <3>4. conn = dials
            BY <2>2 DEF LinkInv
        <3> QED
            BY <2>1, <3>1, <3>2, <3>3, <3>4
    <2>3. CASE ~(conn # NoSocket /\ t \notin subscribed)
        <3>1. UNCHANGED subscribed
            BY <1>6, <2>3 DEF AddEventType
        <3>2. Up => t \in subscribed
            BY <2>3 DEF LinkInv, NoSocket
        <3> QED
            BY <2>1, <3>1, <3>2
    <2> QED
        BY <2>2, <2>3
<1>7. ASSUME NEW w \in Writers, NumberLive(w) \/ NumberRaw(w) PROVE SubsInv'
    <2> DEFINE r == [writer[w] EXCEPT !.pc = "numbered", !.id = NextID]
    <2>1. writer' = [writer EXCEPT ![w] = r]
        BY <1>7 DEF NumberLive, NumberRaw
    <2>2. r.pc = "numbered" /\ r.type = writer[w].type /\ r.sock = writer[w].sock
        BY DEF Writes
    <2>3. UNCHANGED <<asked, todo, dials, link, subscribed, eventTypes, net>>
        BY <1>7 DEF NumberLive, NumberRaw
    <2> HIDE DEF r
    <2>4. \A t \in Types, v \in Writers : Carries(v, t) => Carries(v, t)'
        BY <2>1, <2>2, <2>3
    <2> QED
        BY <2>3, <2>4
<1>8. ASSUME NEW w \in Writers, WriteLive(w) PROVE SubsInv'
    <2>1. /\ \A v \in Writers : v # w => writer'[v] = writer[v]
          /\ UNCHANGED <<todo, dials, link, subscribed, eventTypes, net>>
        BY <1>8 DEF WriteLive
    <2>2. \A t \in Types : asked[t] > 0 => asked'[t] > 0
        BY <1>8 DEF WriteLive, Ask
    <2>3. ASSUME Up, net = "open", NEW t \in Types, Carries(w, t) PROVE asked'[t] > 0
        BY <1>8, <2>3 DEF WriteLive, Ask, Reaches, LinkInv
    <2> QED
        BY <2>1, <2>2, <2>3
<1>9. ASSUME NEW w \in Writers, SendRaw(w) PROVE SubsInv'
    <2>1. /\ \A v \in Writers : v # w => writer'[v] = writer[v]
          /\ UNCHANGED <<todo, dials, link, subscribed, eventTypes, net, asked>>
          /\ writer[w].type = Raw
        BY <1>9 DEF SendRaw
    <2> QED
        BY <2>1
<1>10. CASE UNCHANGED vars
    BY <1>10 DEF vars
<1> QED
    BY <1>3, <1>4, <1>5, <1>6, <1>7, <1>8, <1>9, <1>10 DEF Next, Live

-----------------------------------------------------------------------------
LEMMA Inductive == Spec => []IInv
<1>1. IInv /\ [Next]_vars => IInv'
    BY TypeStep, LinkStep, IdStep, FateStep, ReachStep, OnceStep, SubsStep DEF IInv
<1> QED
    BY InitIInv, <1>1, PTL DEF Spec

\* The fields of the client, its goroutines and the frames between it and Home
\* Assistant keep their types: pending holds commands only, and every frame carries
\* a number that NextID gave out.
THEOREM TypeCorrect == Spec => []TypeOK
<1>1. IInv => TypeOK
    BY DEF IInv
<1> QED
    BY Inductive, <1>1, PTL

\* Whatever a caller of SendCommandWaitResult is told of its command is what Home
\* Assistant did with it: ids are taken from one counter that outlives the
\* connections, so an answer that comes late, or that belongs to a command sent on
\* an earlier connection, is never delivered to another waiter (deliverResult).
THEOREM VerdictCorrect == Spec => []VerdictIsOwn
<1>1. IInv => VerdictIsOwn
    BY DEF IInv, FateInv, VerdictIsOwn
<1> QED
    BY Inductive, <1>1, PTL

\* Whoever waits for a result without one is reachable by the connection loop: its
\* channel is registered on the connection that is up, or is among those the
\* deferred function of connect has still to fail.
THEOREM NoneStranded == Spec => []NobodyStranded
<1>1. IInv => NobodyStranded
    BY DEF IInv, ReachInv, NobodyStranded
<1> QED
    BY Inductive, <1>1, PTL

\* connect and AddEventType between them ask for every registered type once per
\* connection: no type is asked for twice, and none is left out once connect reads.
THEOREM AskedOnce == Spec => []EachTypeAskedOnce
<1>1. IInv => EachTypeAskedOnce
    <2> SUFFICES ASSUME IInv PROVE EachTypeAskedOnce
        OBVIOUS
    <2>1. ASSUME link = "reading", conn = dials, net = "open", NEW t \in {StateChanged} \cup eventTypes
          PROVE  asked[t] > 0 \/ \E w \in Writers : Carries(w, t)
        BY <2>1 DEF IInv, SubsInv, Up
    <2> QED
        BY <2>1 DEF IInv, OnceInv, EachTypeAskedOnce, Carries
<1> QED
    BY Inductive, <1>1, PTL

=============================================================================
