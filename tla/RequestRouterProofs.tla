------------------------ MODULE RequestRouterProofs -------------------------
(***************************************************************************)
(* Proofs about RequestRouter for any number of clients, routes, calls and *)
(* generations.                                                            *)
(*                                                                         *)
(* A loop that selects, loads or has ended has nothing left in its hands,  *)
(* and what it takes up it only lays down by replying (LoopInv); so a      *)
(* client that was accepted is either in the hands of its runner or has    *)
(* its reply (AcceptedIsAnswered).                                         *)
(***************************************************************************)
EXTENDS RequestRouter, TLAPS

LoopInv ==
    /\ gen \in 0..MaxGens /\ tracked \in Gens \cup {None}
    /\ runner \in [Gens -> {"none", "loading", "selecting", "handling", "hung", "ended"}]
    /\ work \in [Gens -> Clients \cup {Event, Nothing}]
    /\ req \in [Clients -> {"new", "matched", "sending", "waiting", "done"}]
    /\ runnerOf \in [Clients -> Gens \cup {None}]
    /\ DOMAIN reply = Clients
    /\ \A g \in Gens : g > gen => runner[g] = "none"
    /\ \A g \in Gens : work[g] = Nothing <=> runner[g] \notin {"handling", "hung"}
    /\ \A c \in Clients : req[c] \in {"sending", "waiting"} => runnerOf[c] \in Gens

IInv == LoopInv /\ AcceptedIsAnswered

LEMMA InitIInv == Init => IInv
<1>1. Init => LoopInv
    BY RouterAssumption DEF Init, LoopInv, Gens, None, Nothing
<1>2. Init => AcceptedIsAnswered
    BY DEF Init, AcceptedIsAnswered
<1> QED
    BY <1>1, <1>2 DEF IInv

LEMMA NextIInv == IInv /\ [Next]_vars => IInv'
<1> SUFFICES ASSUME IInv, [Next]_vars PROVE IInv'
    OBVIOUS
<1>1. /\ Nothing \notin Clients /\ Event \notin Clients /\ Nothing # Event
      /\ None \notin Gens /\ MaxGens \in Nat
    BY RouterAssumption DEF Nothing, Event, None, Gens
<1> USE <1>1 DEF IInv, LoopInv, AcceptedIsAnswered, scriptVars, loopVars, clientVars
<1>2. CASE StartScript
    <2>1. /\ gen + 1 \in Gens /\ gen + 1 > gen /\ gen' = gen + 1 /\ tracked' = gen + 1
          /\ runner' = [runner EXCEPT ![gen + 1] = "loading"]
          /\ UNCHANGED <<work, clientVars>>
        BY <1>2 DEF StartScript, Gens
    <2>2. \A g \in Gens : g > gen' => g > gen /\ g # gen + 1
        BY <2>1 DEF Gens
    <2>3. gen' \in 0..MaxGens
        BY <2>1 DEF Gens
    <2> QED
        BY <2>1, <2>2, <2>3
<1>3. CASE StopUnregisters \/ StopRemoves \/ StopAborts \/ StopReturns \/ \E g \in Gens : AfterLoad(g)
    BY <1>3 DEF StopUnregisters, StopRemoves, StopAborts, StopReturns, AfterLoad
<1>4. ASSUME NEW g \in Gens, LoadEnds(g) \/ AcceptEvent(g) \/ ReportFailure(g) PROVE IInv'
    <2>1. /\ runner[g] \in {"loading", "selecting"}
          /\ runner' = [runner EXCEPT ![g] = "handling"] /\ work' = [work EXCEPT ![g] = Event]
          /\ UNCHANGED <<gen, tracked, clientVars>>
        BY <1>4 DEF LoadEnds, AcceptEvent, ReportFailure
    <2> QED
        BY <2>1
<1>5. ASSUME NEW g \in Gens, NEW c \in Clients, AcceptRequest(g, c) PROVE IInv'
    BY <1>5 DEF AcceptRequest
<1>6. ASSUME NEW g \in Gens, Hangs(g) \/ LoopEnds(g) PROVE IInv'
    BY <1>6 DEF Hangs, LoopEnds
<1>7. ASSUME NEW g \in Gens, HandlerReturns(g) PROVE IInv'
    <2>1. /\ runner[g] \in {"handling", "hung"}
          /\ runner' = [runner EXCEPT ![g] = "selecting"] /\ work' = [work EXCEPT ![g] = Nothing]
          /\ UNCHANGED <<gen, tracked, req, runnerOf>>
        BY <1>7 DEF HandlerReturns, Returns
    <2>2. /\ DOMAIN reply' = Clients
          /\ \A c \in Clients : reply[c] # "empty" \/ work[g] = c => reply'[c] # "empty"
        <3>1. CASE work[g] = Event
            BY <1>7, <3>1 DEF HandlerReturns
        <3>2. CASE work[g] # Event
            <4>1. PICK status \in Outcomes(g, work[g]) : reply' = [reply EXCEPT ![work[g]] = status]
                BY <1>7, <3>2 DEF HandlerReturns
            <4>2. status # "empty"
                BY <4>1 DEF Outcomes
            <4> QED
                BY <4>1, <4>2
        <3> QED
            BY <3>1, <3>2
    <2> QED
        BY <2>1, <2>2
<1>8. ASSUME NEW g \in Gens, NEW k \in Calls, CallServiceNoWait(g, k) PROVE IInv'
    BY <1>8 DEF CallServiceNoWait
<1>9. ASSUME NEW c \in Clients, ServeHTTP(c) \/ GetRunner(c) \/ Deadline(c) \/ TakeReply(c) PROVE IInv'
    <2>1. CASE ServeHTTP(c)
        BY <2>1 DEF ServeHTTP, Answered
    <2>2. CASE GetRunner(c)
        BY <2>2 DEF GetRunner, Answered
    <2>3. CASE Deadline(c)
        BY <2>3 DEF Deadline, Answered
    <2>4. CASE TakeReply(c)
        <3>1. /\ req' = [req EXCEPT ![c] = "done"] /\ DOMAIN reply' = Clients
              /\ \A d \in Clients : d # c => reply'[d] = reply[d]
              /\ UNCHANGED <<gen, tracked, runner, work, runnerOf>>
            BY <2>4 DEF TakeReply, Answered
        <3> QED
            BY <3>1
    <2> QED
        BY <1>9, <2>1, <2>2, <2>3, <2>4
<1>10. ASSUME NEW k \in Calls, VerdictArrives(k) \/ HandOver(k) PROVE IInv'
    BY <1>10 DEF VerdictArrives, HandOver
<1>11. CASE UNCHANGED vars
    BY <1>11 DEF vars
<1> QED
    BY <1>2, <1>3, <1>4, <1>5, <1>6, <1>7, <1>8, <1>9, <1>10, <1>11 DEF Next, Loop

\* Whatever reloads, aborts and failures meet in the run loop, and however many clients
\* and generations there are: a request that the loop has accepted and is through with
\* has its reply (handleRequest, serve in router.go).
THEOREM Answering == Spec => []AcceptedIsAnswered
<1>1. IInv => AcceptedIsAnswered
    BY DEF IInv
<1> QED
    BY InitIInv, NextIInv, <1>1, PTL DEF Spec

=============================================================================
