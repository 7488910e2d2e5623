------------------------------ MODULE HaClient ------------------------------
(***************************************************************************)
(* The WebSocket client of Home Assistant, internal/ha/client.go: the      *)
(* connection loop (dial, auth, get_states, subscribe, read), the          *)
(* goroutines that send a command and wait for its result frame, those     *)
(* that write without waiting (AddEventType, SendRaw), and Home Assistant, *)
(* which refuses a command whose id does not grow.                         *)
(*                                                                         *)
(* Connections are numbered in the order of the dials, only the newest can *)
(* be open.  A frame that reaches Home Assistant does so as it is written, *)
(* the answers are read in any order.  How long the loop backs off is left *)
(* out.  The events a subscription brings are in StateMirror and EventLoop.*)
(***************************************************************************)
EXTENDS Naturals, Functions

CONSTANTS
    Commands,     \* commands that wait for a result, each sent once by its goroutine
    Writers,      \* goroutines that call AddEventType or SendRaw once
    ExtraTypes,   \* event types AddEventType is called with
    StateChanged, \* the type every connection subscribes to; may be an extra type
    MaxDials      \* bound: connections

Types == ExtraTypes \cup {StateChanged}
Raw == "raw"      \* what a writer that is no subscription writes

ASSUME HaClientAssumption == MaxDials \in Nat \ {0} /\ Raw \notin Types

NoSocket == 0
Sockets == 0..MaxDials

VARIABLES
    msgID,      \* Client.msgID
    conn,       \* Client.conn, NoSocket for nil
    eventTypes, subscribed,
    pending,    \* Client.pending: id -> the command whose channel it is
    \* the connection loop
    link,       \* where loop and connect are
    linkID,     \* the id of the frame connect is about to write or waits for
    todo,       \* types connect has still to subscribe
    seed,       \* what getStates returned on this connection
    drained,    \* commands the deferred function has still to fail
    booted,     \* main took the first batch: scripts run from here on
    stopping,   \* the context of the client is done
    \* the goroutines
    cmd,        \* command -> [pc, id, sock], sock the connection it was registered on
    chan,       \* command -> its result channel, of capacity 1
    verdict,    \* command -> what its caller was told
    writer,     \* writer -> [pc, type, id, sock]
    \* Home Assistant and the network
    dials, net, \* the newest connection and whether it is open, broken or closed
    lastID,     \* the newest id Home Assistant saw on it
    asked,      \* type -> how often it was asked to subscribe to it on this connection
    carried,    \* types it accepted a subscription to
    rivals,     \* a goroutine's frame reached it on this connection
    answers,    \* result frames the client has not read: [id, ok]
    fate        \* command -> what Home Assistant did with it

clientVars == <<msgID, conn, eventTypes, subscribed, pending>>
loopVars == <<link, linkID, todo, seed, drained>>
callVars == <<cmd, chan, verdict, writer>>
haVars == <<dials, net, lastID, asked, carried, rivals, answers, fate>>
vars == <<clientVars, loopVars, booted, stopping, callVars, haVars>>

Results == {"accepted", "refused", "lost"}
Calls == [pc : {"new", "numbered", "registered", "waiting", "leaving", "done"},
          id : Nat, sock : Sockets]
Writes == [pc : {"new", "captured", "numbered", "done"},
           type : Types \cup {Raw}, id : Nat, sock : Sockets]

TypeOK ==
    /\ msgID \in Nat /\ conn \in Sockets
    /\ eventTypes \subseteq ExtraTypes /\ subscribed \subseteq Types
    /\ DOMAIN pending \subseteq Nat /\ Range(pending) \subseteq Commands
    /\ link \in {"down", "auth", "published", "ask", "seeding", "seeded",
                 "subscribing", "reading", "closing", "stopped"}
    /\ linkID \in Nat /\ todo \subseteq Types
    /\ seed \in {"none", "states", "nothing"}
    /\ drained \subseteq Commands /\ booted \in BOOLEAN /\ stopping \in BOOLEAN
    /\ cmd \in [Commands -> Calls]
    /\ chan \in [Commands -> Results \cup {"empty"}]
    /\ verdict \in [Commands -> Results \cup {"none", "unsent", "gave_up"}]
    /\ writer \in [Writers -> Writes]
    /\ dials \in Sockets /\ net \in {"open", "broken", "closed"}
    /\ lastID \in Nat /\ asked \in [Types -> Nat]
    /\ carried \subseteq Types /\ rivals \in BOOLEAN
    /\ answers \subseteq [id : Nat, ok : BOOLEAN]
    /\ fate \in [Commands -> {"none", "accepted", "refused"}]

\* main has registered some types before Start.
Init ==
    /\ msgID = 0 /\ conn = NoSocket
    /\ eventTypes \in SUBSET ExtraTypes /\ subscribed = {} /\ pending = <<>>
    /\ link = "down" /\ linkID = 0 /\ todo = {} /\ seed = "none"
    /\ drained = {} /\ booted = FALSE /\ stopping = FALSE
    /\ cmd = [c \in Commands |-> [pc |-> "new", id |-> 0, sock |-> NoSocket]]
    /\ chan = [c \in Commands |-> "empty"]
    /\ verdict = [c \in Commands |-> "none"]
    /\ writer = [w \in Writers |-> [pc |-> "new", type |-> Raw, id |-> 0, sock |-> NoSocket]]
    /\ dials = 0 /\ net = "closed" /\ lastID = 0
    /\ asked = [t \in Types |-> 0] /\ carried = {} /\ rivals = FALSE
    /\ answers = {} /\ fate = [c \in Commands |-> "none"]

-----------------------------------------------------------------------------
(* Home Assistant and the network *)

\* NextID: one goroutine takes the next id, and writes its frame later.
NextID == msgID + 1

\* Home Assistant wants the ids of a connection to grow.
Accepts(id) == id > lastID
Receive(id) == lastID' = IF Accepts(id) THEN id ELSE lastID
\* Its answer, which nobody waits for when the frame subscribes or fires.
Answer(id, ok) == answers' = answers \cup {[id |-> id, ok |-> ok]}

Reaches(s) == s # NoSocket /\ s = dials /\ net = "open"
\* The peer of a broken connection is gone but the kernel still takes the frame.
Vanishes(s) == s = dials /\ net = "broken"

\* subscribe writes the frame and waits for nothing: a refusal is a result that
\* nobody waits for.
Ask(t, id, sock) ==
    \/ /\ Reaches(sock) /\ Receive(id)
       /\ asked' = [asked EXCEPT ![t] = @ + 1]
       /\ carried' = IF Accepts(id) THEN carried \cup {t} ELSE carried
    \/ ~Reaches(sock) /\ UNCHANGED <<lastID, asked, carried>>

\* The bound keeps the last connection up.
Break ==
    /\ net = "open" /\ dials < MaxDials
    /\ net' = "broken"
    /\ UNCHANGED <<clientVars, loopVars, booted, stopping, callVars, dials, lastID, asked, carried, rivals, answers, fate>>

-----------------------------------------------------------------------------
(* The connection loop *)

Dial ==
    /\ link = "down" /\ ~stopping /\ dials < MaxDials
    /\ link' = "auth" /\ dials' = dials + 1 /\ net' = "open"
    /\ UNCHANGED <<clientVars, linkID, todo, seed, drained, booted, stopping, callVars,
                    lastID, asked, carried, rivals, answers, fate>>

\* Ids start again with every connection.
Publish_ResetIDs ==
    /\ link = "auth" /\ net = "open"
    /\ conn' = dials /\ subscribed' = {}
    /\ msgID' = 0
    /\ link' = "published"
    /\ UNCHANGED <<eventTypes, pending, linkID, todo, seed, drained, booted, stopping, callVars, haVars>>

\* After auth the connection is there for everyone.
Publish ==
    /\ link = "auth" /\ net = "open"
    /\ conn' = dials /\ subscribed' = {}
    /\ link' = "published"
    /\ UNCHANGED <<msgID, eventTypes, pending, linkID, todo, seed, drained, booted, stopping, callVars, haVars>>

AskStates ==
    /\ link = "published"
    /\ msgID' = NextID /\ linkID' = NextID
    /\ link' = "ask"
    /\ UNCHANGED <<conn, eventTypes, subscribed, pending, todo, seed, drained, booted, stopping, callVars, haVars>>

WriteStates ==
    /\ link = "ask"
    /\ \/ Reaches(dials) /\ Receive(linkID) /\ Answer(linkID, Accepts(linkID))
       \/ Vanishes(dials) /\ UNCHANGED <<lastID, answers>>
    /\ link' = "seeding"
    /\ UNCHANGED <<clientVars, linkID, todo, seed, drained, booted, stopping, callVars, dials, net, asked, carried, rivals, fate>>

\* getStates decodes the answer without a look at its success.
ReadStates(a) ==
    /\ link = "seeding" /\ a \in answers /\ a.id = linkID
    /\ answers' = answers \ {a}
    /\ seed' = IF a.ok THEN "states" ELSE "nothing"
    /\ link' = "seeded" /\ linkID' = 0
    /\ booted' = TRUE
    /\ UNCHANGED <<clientVars, todo, drained, stopping, callVars, dials, net, lastID, asked, carried, rivals, fate>>
\* The list to send is appended to in place.
MarkTypes_Append ==
    /\ link = "seeded"
    /\ todo' = ({StateChanged} \cup eventTypes) \ subscribed
    /\ subscribed' = subscribed \cup {StateChanged} \cup eventTypes
    /\ eventTypes' = eventTypes \cup {StateChanged}
    /\ link' = "subscribing"
    /\ UNCHANGED <<msgID, conn, pending, linkID, seed, drained, booted, stopping, callVars, haVars>>
\* Types AddEventType has already asked for are asked for again.
MarkTypes_All ==
    /\ link = "seeded"
    /\ todo' = ({StateChanged} \cup eventTypes)
    /\ subscribed' = subscribed \cup {StateChanged} \cup eventTypes
    /\ link' = "subscribing"
    /\ UNCHANGED <<msgID, conn, eventTypes, pending, linkID, seed, drained, booted, stopping, callVars, haVars>>

MarkTypes ==
    /\ link = "seeded"
    /\ todo' = ({StateChanged} \cup eventTypes) \ subscribed
    /\ subscribed' = subscribed \cup {StateChanged} \cup eventTypes
    /\ link' = "subscribing"
    /\ UNCHANGED <<msgID, conn, eventTypes, pending, linkID, seed, drained, booted, stopping, callVars, haVars>>

NumberSubscribe ==
    /\ link = "subscribing" /\ todo # {} /\ linkID = 0
    /\ msgID' = NextID /\ linkID' = NextID
    /\ UNCHANGED <<conn, eventTypes, subscribed, pending, link, todo, seed, drained, booted, stopping, callVars, haVars>>

WriteSubscribe(t) ==
    /\ link = "subscribing" /\ t \in todo /\ linkID # 0
    /\ Reaches(dials) \/ Vanishes(dials)
    /\ Ask(t, linkID, dials)
    /\ todo' = todo \ {t} /\ linkID' = 0
    /\ UNCHANGED <<clientVars, link, seed, drained, booted, stopping, callVars, dials, net, rivals, answers, fate>>

EnterRead ==
    /\ link = "subscribing" /\ todo = {}
    /\ link' = "reading"
    /\ UNCHANGED <<clientVars, linkID, todo, seed, drained, booted, stopping, callVars, haVars>>

\* getStates drops what is not its own.
DeliverResult_Seeding(a) ==
    /\ a \in answers
    /\ link = "reading" \/ (link = "seeding" /\ a.id # linkID)
    /\ answers' = answers \ {a}
    /\ IF link = "reading" /\ a.id \in DOMAIN pending /\ chan[pending[a.id]] = "empty"
       THEN chan' = [chan EXCEPT ![pending[a.id]] = IF a.ok THEN "accepted" ELSE "refused"]
       ELSE UNCHANGED chan
    /\ UNCHANGED <<clientVars, loopVars, booted, stopping, cmd, verdict, writer, dials, net, lastID, asked, carried, rivals, fate>>

\* deliverResult: the channel has room for one, and nobody waits for the result
\* of a subscription or of a command whose waiter has left.
DeliverResult(a) ==
    /\ a \in answers
    /\ link = "reading" \/ (link = "seeding" /\ a.id # linkID)
    /\ answers' = answers \ {a}
    /\ IF a.id \in DOMAIN pending /\ chan[pending[a.id]] = "empty"
       THEN chan' = [chan EXCEPT ![pending[a.id]] = IF a.ok THEN "accepted" ELSE "refused"]
       ELSE UNCHANGED chan
    /\ UNCHANGED <<clientVars, loopVars, booted, stopping, cmd, verdict, writer, dials, net, lastID, asked, carried, rivals, fate>>

\* The map is replaced and its waiters are left alone.
Disconnect_NoDrain ==
    /\ link \in {"published", "ask", "seeding", "seeded", "subscribing", "reading"}
    /\ net = "broken" \/ stopping
    /\ link' = "closing" /\ linkID' = 0 /\ todo' = {} /\ seed' = "none"
    /\ conn' = NoSocket
    /\ drained' = {} /\ pending' = <<>>
    /\ UNCHANGED <<msgID, eventTypes, subscribed, booted, stopping, callVars, haVars>>

\* connect returns; its deferred function takes the waiters away with the connection.
Disconnect ==
    /\ link \in {"published", "ask", "seeding", "seeded", "subscribing", "reading"}
    /\ net = "broken" \/ stopping
    /\ link' = "closing" /\ linkID' = 0 /\ todo' = {} /\ seed' = "none"
    /\ conn' = NoSocket
    /\ drained' = Range(pending) /\ pending' = <<>>
    /\ UNCHANGED <<msgID, eventTypes, subscribed, booted, stopping, callVars, haVars>>

AuthFails ==
    /\ link = "auth" /\ (net = "broken" \/ stopping)
    /\ link' = "closing"
    /\ UNCHANGED <<clientVars, linkID, todo, seed, drained, booted, stopping, callVars, haVars>>

FailPending(c) ==
    /\ link = "closing" /\ c \in drained
    /\ drained' = drained \ {c}
    /\ chan' = [chan EXCEPT ![c] = IF @ = "empty" THEN "lost" ELSE @]
    /\ UNCHANGED <<clientVars, link, linkID, todo, seed, booted, stopping, cmd, verdict, writer, haVars>>

CloseNow ==
    /\ link = "closing" /\ drained = {}
    /\ link' = "down"
    /\ net' = "closed" /\ lastID' = 0 /\ answers' = {}
    /\ asked' = [t \in Types |-> 0] /\ carried' = {} /\ rivals' = FALSE
    /\ UNCHANGED <<clientVars, linkID, todo, seed, drained, booted, stopping, callVars, dials, fate>>

LoopExit ==
    /\ link = "down" /\ stopping
    /\ link' = "stopped"
    /\ UNCHANGED <<clientVars, linkID, todo, seed, drained, booted, stopping, callVars, haVars>>

Shutdown ==
    /\ ~stopping
    /\ stopping' = TRUE
    /\ UNCHANGED <<clientVars, loopVars, booted, callVars, haVars>>

-----------------------------------------------------------------------------
(* Commands: SendCommandAsync, SendCommandWaitResult, Query *)

NumberCommand(c) ==
    /\ booted /\ cmd[c].pc = "new"
    /\ msgID' = NextID
    /\ cmd' = [cmd EXCEPT ![c] = [@ EXCEPT !.pc = "numbered", !.id = NextID]]
    /\ UNCHANGED <<conn, eventTypes, subscribed, pending, loopVars, booted, stopping, chan, verdict, writer, haVars>>

Done == [pc |-> "done", id |-> 0, sock |-> NoSocket]

\* send, under the lock: no connection, no waiter.
NotConnected(c) ==
    /\ cmd[c].pc = "numbered" /\ conn = NoSocket
    /\ cmd' = [cmd EXCEPT ![c] = Done]
    /\ verdict' = [verdict EXCEPT ![c] = "unsent"]
    /\ UNCHANGED <<clientVars, loopVars, booted, stopping, chan, writer, haVars>>

Register(c) ==
    /\ cmd[c].pc = "numbered" /\ conn # NoSocket
    /\ pending' = [i \in DOMAIN pending \cup {cmd[c].id} |->
                      IF i = cmd[c].id THEN c ELSE pending[i]]
    /\ cmd' = [cmd EXCEPT ![c] = [@ EXCEPT !.pc = "registered", !.sock = conn]]
    /\ UNCHANGED <<msgID, conn, eventTypes, subscribed, loopVars, booted, stopping, chan, verdict, writer, haVars>>

WriteCommand(c) ==
    /\ cmd[c].pc = "registered"
    /\ \/ /\ Reaches(cmd[c].sock)
          /\ rivals' = TRUE
          /\ \E ok \in BOOLEAN :
                /\ ok => Accepts(cmd[c].id)
                /\ Receive(cmd[c].id) /\ Answer(cmd[c].id, ok)
                /\ fate' = [fate EXCEPT ![c] = IF ok THEN "accepted" ELSE "refused"]
       \/ Vanishes(cmd[c].sock) /\ UNCHANGED <<lastID, rivals, answers, fate>>
    /\ cmd' = [cmd EXCEPT ![c] = [@ EXCEPT !.pc = "waiting"]]
    /\ UNCHANGED <<clientVars, loopVars, booted, stopping, chan, verdict, writer, dials, net, asked, carried>>

\* The connection is dead or the caller's context is done.
WriteFails(c) ==
    /\ cmd[c].pc = "registered"
    /\ cmd' = [cmd EXCEPT ![c] = [@ EXCEPT !.pc = "leaving"]]
    /\ verdict' = [verdict EXCEPT ![c] = "unsent"]
    /\ UNCHANGED <<clientVars, loopVars, booted, stopping, chan, writer, haVars>>

Hear(c) ==
    /\ cmd[c].pc = "waiting" /\ chan[c] # "empty"
    /\ cmd' = [cmd EXCEPT ![c] = [@ EXCEPT !.pc = "leaving"]]
    /\ verdict' = [verdict EXCEPT ![c] = chan[c]]
    /\ UNCHANGED <<clientVars, loopVars, booted, stopping, chan, writer, haVars>>

\* The command's timeout or its context, which races an answer that is there.
GiveUp(c) ==
    /\ cmd[c].pc = "waiting"
    /\ cmd' = [cmd EXCEPT ![c] = [@ EXCEPT !.pc = "leaving"]]
    /\ verdict' = [verdict EXCEPT ![c] = "gave_up"]
    /\ UNCHANGED <<clientVars, loopVars, booted, stopping, chan, writer, haVars>>

\* forget takes whatever is in the map under the id.
Forget(c) ==
    /\ cmd[c].pc = "leaving"
    /\ pending' = [i \in DOMAIN pending \ {cmd[c].id} |-> pending[i]]
    /\ cmd' = [cmd EXCEPT ![c] = Done]
    /\ UNCHANGED <<msgID, conn, eventTypes, subscribed, loopVars, booted, stopping, chan, verdict, writer, haVars>>

-----------------------------------------------------------------------------
(* AddEventType and SendRaw *)

Returned == [pc |-> "done", type |-> Raw, id |-> 0, sock |-> NoSocket]

\* The locked part of AddEventType for a type that is new.
AddEventType(w, t) ==
    /\ booted /\ writer[w].pc = "new" /\ t \in ExtraTypes \ eventTypes
    /\ eventTypes' = eventTypes \cup {t}
    /\ IF conn # NoSocket /\ t \notin subscribed
       THEN /\ subscribed' = subscribed \cup {t}
            /\ writer' = [writer EXCEPT ![w] = [@ EXCEPT !.pc = "captured", !.type = t, !.sock = conn]]
       ELSE /\ writer' = [writer EXCEPT ![w] = Returned]
            /\ UNCHANGED subscribed
    /\ UNCHANGED <<msgID, conn, pending, loopVars, booted, stopping, cmd, chan, verdict, haVars>>

NumberLive(w) ==
    /\ writer[w].pc = "captured"
    /\ msgID' = NextID
    /\ writer' = [writer EXCEPT ![w] = [@ EXCEPT !.pc = "numbered", !.id = NextID]]
    /\ UNCHANGED <<conn, eventTypes, subscribed, pending, loopVars, booted, stopping, cmd, chan, verdict, haVars>>

WriteLive(w) ==
    /\ writer[w].pc = "numbered" /\ writer[w].type # Raw
    /\ Ask(writer[w].type, writer[w].id, writer[w].sock)
    /\ rivals' = (rivals \/ Reaches(writer[w].sock))
    /\ writer' = [writer EXCEPT ![w] = Returned]
    /\ UNCHANGED <<clientVars, loopVars, booted, stopping, cmd, chan, verdict, dials, net, answers, fate>>

\* fire_event: the id first, then SendRaw reads the connection and writes.
NumberRaw(w) ==
    /\ booted /\ writer[w].pc = "new"
    /\ msgID' = NextID
    /\ writer' = [writer EXCEPT ![w] = [@ EXCEPT !.pc = "numbered", !.id = NextID]]
    /\ UNCHANGED <<conn, eventTypes, subscribed, pending, loopVars, booted, stopping, cmd, chan, verdict, haVars>>

SendRaw(w) ==
    /\ writer[w].pc = "numbered" /\ writer[w].type = Raw
    /\ writer' = [writer EXCEPT ![w] = Returned]
    /\ \/ Reaches(conn) /\ Receive(writer[w].id) /\ rivals' = TRUE
       \/ ~Reaches(conn) /\ UNCHANGED <<lastID, rivals>>
    /\ UNCHANGED <<clientVars, loopVars, booted, stopping, cmd, chan, verdict, dials, net, asked, carried, answers, fate>>

-----------------------------------------------------------------------------
Connect ==
    \/ Publish \/ AskStates \/ WriteStates \/ (\E a \in answers : ReadStates(a))
    \/ MarkTypes \/ NumberSubscribe \/ (\E t \in todo : WriteSubscribe(t)) \/ EnterRead
    \/ Disconnect \/ AuthFails \/ (\E c \in drained : FailPending(c)) \/ CloseNow

Answered == \E a \in answers : DeliverResult(a)

Command(c) ==
    Register(c) \/ NotConnected(c) \/ WriteCommand(c) \/ WriteFails(c) \/ Hear(c) \/ Forget(c)

Live(w) == NumberLive(w) \/ WriteLive(w)

Next ==
    \/ Break \/ Dial \/ Connect \/ Answered \/ LoopExit \/ Shutdown
    \/ \E c \in Commands : NumberCommand(c) \/ Command(c) \/ GiveUp(c)
    \/ \E w \in Writers :
          \/ \E t \in ExtraTypes : AddEventType(w, t)
          \/ Live(w) \/ NumberRaw(w) \/ SendRaw(w)

Spec == Init /\ [][Next]_vars

\* Goroutines run, Home Assistant answers what it received, and a connection
\* that broke is noticed. No command's own timeout has to fire.
Fairness ==
    /\ WF_vars(Dial) /\ WF_vars(Connect) /\ WF_vars(Answered) /\ WF_vars(LoopExit)
    /\ \A c \in Commands : WF_vars(Command(c))
    /\ \A w \in Writers : WF_vars(Live(w))

FairSpec == Spec /\ Fairness

-----------------------------------------------------------------------------
(* Properties *)

\* A caller is told only what Home Assistant did with its own command: an
\* answer that is late, or of an earlier connection, is nobody else's
\* (deliverResult, client.go:253).
VerdictIsOwn ==
    \A c \in Commands :
        verdict[c] \in {"accepted", "refused"} => verdict[c] = fate[c]

\* Whoever waits without a result can still be reached: its channel is in the
\* map of the connection it sent on, or among those the disconnect is failing
\* (client.go:67: a waiter never blocks past the life of its connection).
NobodyStranded ==
    \A c \in Commands :
        cmd[c].pc = "waiting" /\ chan[c] = "empty" =>
            \/ c \in drained
            \/ /\ cmd[c].sock = conn
               /\ cmd[c].id \in DOMAIN pending /\ pending[cmd[c].id] = c

\* A connection carries every registered type, and none of them twice, whatever was
\* registered while it came up: connect and AddEventType between them ask Home
\* Assistant once, and once connect reads it was asked, or the goroutine that
\* registered the type is about to ask (client.go:97, client.go:370).
EachTypeAskedOnce ==
    /\ \A t \in Types : asked[t] <= 1
    /\ link = "reading" /\ conn = dials /\ net = "open" =>
        \A t \in {StateChanged} \cup eventTypes :
            \/ asked[t] > 0
            \/ \E w \in Writers :
                  /\ writer[w].pc \in {"captured", "numbered"}
                  /\ writer[w].type = t /\ writer[w].sock = conn

\* A command that was written returns although its timeout never fires: its answer
\* comes or the disconnect fails it.  And connections that come back carry every
\* subscription again, for good once they no longer break (client.go:99), unless a
\* goroutine wrote a frame of its own on the connection, which may have overtaken one
\* that subscribes: Home Assistant refuses that one and nothing sends it again.
ConnectionServes ==
    /\ \A c \in Commands : cmd[c].pc = "waiting" ~> cmd[c].pc = "done"
    /\ <>[](\/ stopping
           \/ \A t \in {StateChanged} \cup eventTypes :
                 t \in carried \/ (asked[t] > 0 /\ rivals))

\* Every connection that got past get_states has its states to deliver
\* (client.go:51: every reconnect has to re-seed).
EveryConnectSeeds == link \in {"seeded", "subscribing", "reading"} => seed = "states"

=============================================================================
