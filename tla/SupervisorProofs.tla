-------------------------- MODULE SupervisorProofs --------------------------
(***************************************************************************)
(* Proofs about Supervisor, and about HotReload, which extends it, for     *)
(* every number of scripts, generations, callers and dispatchers.          *)
(*                                                                         *)
(* The invariant follows the code's own argument.  Supervisor.mu makes the *)
(* two maps change together (CriticalSections); Registry.mu makes what a   *)
(* dispatcher still has to visit a part of what is registered (TodoInv);   *)
(* and a generation that has left the maps belongs to the one StopScript   *)
(* that took it out (VictimInv), so nobody else closes its channel.        *)
(* The second half adds the files: a change is on its way to a callback,   *)
(* or a callback's call has still to take effect (StaleInv, SettleInv).    *)
(***************************************************************************)
EXTENDS HotReload, TLAPS

\* A caller is inside a critical section of Supervisor.mu.
InSection(c) == pc[c] \in {"add", "remove", "timers"}

\* A caller holds a generation it has taken out of the maps and not closed.
Closing(c) == pc[c] \in {"remove", "timers", "close"}

\* s.mu is held by the caller that is in a critical section, and what the
\* maps look like there.
CriticalSections ==
    /\ \A c \in Callers : InSection(c) <=> supMu = c
    /\ \A c \in Callers : pc[c] # "idle" => arg[c] \in Scripts
    /\ supMu = None => runners = scripts
    /\ \A c \in Callers :
         /\ pc[c] = "add" =>
              /\ victim[c] \in Handles
              /\ scripts[arg[c]] = victim[c] /\ runners[arg[c]] = None
              /\ loop[victim[c]] = "unused"
         /\ pc[c] = "remove" =>
              scripts[arg[c]] = None /\ runners[arg[c]] = victim[c]
         /\ pc[c] \in {"add", "remove"} =>
              \A s \in Scripts \ {arg[c]} : runners[s] = scripts[s]
         /\ pc[c] = "timers" => runners = scripts

\* Whoever is in the maps is open and belongs to its script; whoever is in
\* the registry has a goroutine.
TrackedInv ==
    \A s \in Scripts :
        /\ scripts[s] # None => owner[scripts[s]] = s /\ ~closed[scripts[s]]
        /\ runners[s] # None =>
             owner[runners[s]] = s /\ ~closed[runners[s]] /\ loop[runners[s]] # "unused"

\* A generation nobody has started has no trace anywhere.
FreshInv ==
    \A h \in Handles :
        /\ owner[h] = None => loop[h] = "unused"
        /\ loop[h] = "unused" => ~closed[h] /\ ~loaded[h] /\ hook[h] = "none" /\ queue[h] = 0

\* A generation that is being stopped is in no map and has one stopper.
VictimInv ==
    \A c \in Callers :
        Closing(c) =>
            /\ victim[c] \in Handles
            /\ owner[victim[c]] = arg[c]
            /\ ~closed[victim[c]]
            /\ loop[victim[c]] # "unused"
            /\ \A s \in Scripts : scripts[s] # victim[c]
            /\ pc[c] # "remove" => \A s \in Scripts : runners[s] # victim[c]
            /\ \A d \in Callers \ {c} : Closing(d) => victim[d] # victim[c]

\* What a dispatcher has still to visit is registered.
TodoInv ==
    /\ \A d \in Readers : todo[d] \subseteq Registered
    /\ \A d \in Readers \ readers : todo[d] = {}

IInv ==
    /\ TypeOK
    /\ CriticalSections
    /\ TrackedInv
    /\ FreshInv
    /\ VictimInv
    /\ TodoInv
    /\ RoutesOfTracked

-----------------------------------------------------------------------------
\* The invariant holds before any script is started.
LEMMA InitIInv == Init => IInv
<1> SUFFICES ASSUME Init PROVE IInv
  OBVIOUS
<1>1. TypeOK
  <2>1. queue \in [Handles -> 0..QueueCap]
    BY SupervisorAssumption DEF Init
  <2> QED
    BY <2>1 DEF Init, TypeOK, CallerStates, LoopStates, HookStates
<1>2. CriticalSections
  BY SupervisorAssumption DEF Init, CriticalSections, InSection
<1>3. TrackedInv /\ FreshInv /\ VictimInv /\ RoutesOfTracked
  BY DEF Init, TrackedInv, FreshInv, VictimInv, RoutesOfTracked, Closing
<1>4. TodoInv
  BY DEF Init, TodoInv
<1> QED
  BY <1>1, <1>2, <1>3, <1>4 DEF IInv

\* Every step of a caller, a runner, a script-load goroutine or a dispatcher
\* keeps the invariant: one step of the proof per action, and under it one
\* per part of the invariant that the action can disturb.
LEMMA InductiveStep == IInv /\ [Next]_vars => IInv'
<1> SUFFICES ASSUME TypeOK, CriticalSections, TrackedInv, FreshInv, VictimInv, TodoInv,
                    RoutesOfTracked, [Next]_vars
             PROVE  IInv'
  BY DEF IInv
<1> USE DEF vars, callerVars, tableVars, handleVars, readerVars
<1>1. ASSUME NEW c \in Callers, NEW s \in Scripts, NEW op \in {"start", "stop", "reload"}, Call(c, s, op)
      PROVE  IInv'
  <2>1. TypeOK'
    BY <1>1 DEF Call, TypeOK, CallerStates
  <2>2. CriticalSections'
    BY <1>1 DEF Call, TypeOK, CriticalSections, InSection
  <2>3. VictimInv'
    BY <1>1 DEF Call, TypeOK, VictimInv, Closing
  <2>4. TrackedInv' /\ FreshInv' /\ TodoInv' /\ RoutesOfTracked'
    BY <1>1 DEF Call, TrackedInv, FreshInv, TodoInv, RoutesOfTracked, Registered
  <2> QED
    BY <2>1, <2>2, <2>3, <2>4 DEF IInv
<1>2. ASSUME NEW c \in Callers, StartTracked(c)
      PROVE  IInv'
  <2>1. TypeOK'
    BY <1>2 DEF StartTracked, Leave, TypeOK, CallerStates
  <2>2. CriticalSections'
    BY <1>2 DEF StartTracked, Leave, TypeOK, CriticalSections, InSection
  <2>3. VictimInv'
    BY <1>2 DEF StartTracked, Leave, TypeOK, VictimInv, Closing
  <2>4. TrackedInv' /\ FreshInv' /\ TodoInv' /\ RoutesOfTracked'
    BY <1>2 DEF StartTracked, Leave, TrackedInv, FreshInv, TodoInv, RoutesOfTracked,
       Registered
  <2> QED
    BY <2>1, <2>2, <2>3, <2>4 DEF IInv
<1>3. ASSUME NEW c \in Callers, NEW h \in Handles, StartTrack(c, h)
      PROVE  IInv'
  <2>1. TypeOK'
    BY <1>3 DEF StartTrack, Fresh, TypeOK, CallerStates
  <2>2. CriticalSections'
    BY <1>3, SupervisorAssumption DEF StartTrack, Fresh, TypeOK, CriticalSections,
       TrackedInv, FreshInv, InSection
  <2>3. TrackedInv'
    BY <1>3, SupervisorAssumption DEF StartTrack, Fresh, TypeOK, CriticalSections,
       TrackedInv, FreshInv, InSection
  <2>4. FreshInv'
    BY <1>3 DEF StartTrack, Fresh, TypeOK, FreshInv
  <2>5. VictimInv'
    BY <1>3, SupervisorAssumption DEF StartTrack, Fresh, TypeOK, CriticalSections,
       TrackedInv, VictimInv, InSection, Closing
  <2>6. RoutesOfTracked'
    BY <1>3 DEF StartTrack, Fresh, TypeOK, RoutesOfTracked
  <2>7. TodoInv'
    BY <1>3 DEF StartTrack, Fresh, TodoInv, Registered
  <2> QED
    BY <2>1, <2>2, <2>3, <2>4, <2>5, <2>6, <2>7 DEF IInv
<1>4. ASSUME NEW c \in Callers, StartAdd(c)
      PROVE  IInv'
  <2>1. TypeOK'
    BY <1>4 DEF StartAdd, Leave, RegistryQuiet, TypeOK, CallerStates, LoopStates,
       HookStates
  <2>2. CriticalSections'
    BY <1>4, SupervisorAssumption DEF StartAdd, Leave, RegistryQuiet, TypeOK,
       CriticalSections, TrackedInv, InSection
  <2>3. TrackedInv'
    BY <1>4 DEF StartAdd, Leave, RegistryQuiet, TypeOK, CriticalSections, TrackedInv,
       InSection
  <2>4. FreshInv'
    BY <1>4, SupervisorAssumption DEF StartAdd, Leave, RegistryQuiet, TypeOK,
       CriticalSections, TrackedInv, FreshInv, InSection
  <2>5. VictimInv'
    BY <1>4 DEF StartAdd, Leave, RegistryQuiet, TypeOK, CriticalSections, VictimInv,
       InSection, Closing
  <2>6. TodoInv'
    BY <1>4 DEF StartAdd, Leave, RegistryQuiet, TypeOK, TodoInv, Registered
  <2>7. RoutesOfTracked'
    BY <1>4 DEF StartAdd, Leave, RegistryQuiet, RoutesOfTracked
  <2> QED
    BY <2>1, <2>2, <2>3, <2>4, <2>5, <2>6, <2>7 DEF IInv
<1>5. ASSUME NEW c \in Callers, StopUntracked(c)
      PROVE  IInv'
  <2>1. TypeOK'
    BY <1>5 DEF StopUntracked, Leave, AfterStop, TypeOK, CallerStates
  <2>2. CriticalSections'
    BY <1>5 DEF StopUntracked, Leave, AfterStop, TypeOK, CriticalSections, InSection
  <2>3. VictimInv'
    BY <1>5 DEF StopUntracked, Leave, AfterStop, TypeOK, VictimInv, Closing
  <2>4. TrackedInv' /\ FreshInv' /\ TodoInv' /\ RoutesOfTracked'
    BY <1>5 DEF StopUntracked, Leave, AfterStop, TrackedInv, FreshInv, TodoInv,
       RoutesOfTracked, Registered
  <2> QED
    BY <2>1, <2>2, <2>3, <2>4 DEF IInv
<1>6. ASSUME NEW c \in Callers, StopUntrack(c)
      PROVE  IInv'
  <2>1. TypeOK'
    BY <1>6, SupervisorAssumption DEF StopUntrack, TypeOK, CriticalSections, InSection,
       CallerStates
  <2>2. CriticalSections'
    BY <1>6, SupervisorAssumption DEF StopUntrack, TypeOK, CriticalSections, TrackedInv,
       InSection
  <2>3. TrackedInv'
    BY <1>6 DEF StopUntrack, TypeOK, TrackedInv
  <2>4. VictimInv'
    BY <1>6, SupervisorAssumption DEF StopUntrack, TypeOK, CriticalSections, TrackedInv,
       VictimInv, InSection, Closing
  <2>5. RoutesOfTracked'
    BY <1>6 DEF StopUntrack, TypeOK, RoutesOfTracked
  <2>6. FreshInv' /\ TodoInv'
    BY <1>6 DEF StopUntrack, FreshInv, TodoInv, Registered
  <2> QED
    BY <2>1, <2>2, <2>3, <2>4, <2>5, <2>6 DEF IInv
<1>7. ASSUME NEW c \in Callers, StopRemove(c)
      PROVE  IInv'
  <2>1. TypeOK'
    BY <1>7 DEF StopRemove, RegistryQuiet, TypeOK, CallerStates
  <2>2. CriticalSections'
    BY <1>7 DEF StopRemove, RegistryQuiet, TypeOK, CriticalSections, InSection
  <2>3. TrackedInv'
    BY <1>7 DEF StopRemove, RegistryQuiet, TypeOK, TrackedInv
  <2>4. VictimInv'
    BY <1>7 DEF StopRemove, RegistryQuiet, TypeOK, CriticalSections, VictimInv,
       InSection, Closing
  <2>5. TodoInv'
    BY <1>7 DEF StopRemove, RegistryQuiet, TypeOK, TodoInv, Registered
  <2>6. FreshInv' /\ RoutesOfTracked'
    BY <1>7 DEF StopRemove, RegistryQuiet, FreshInv, RoutesOfTracked
  <2> QED
    BY <2>1, <2>2, <2>3, <2>4, <2>5, <2>6 DEF IInv
<1>8. ASSUME NEW c \in Callers, StopTimers(c)
      PROVE  IInv'
  <2>1. TypeOK'
    BY <1>8 DEF StopTimers, TypeOK, CallerStates
  <2>2. CriticalSections'
    BY <1>8, SupervisorAssumption DEF StopTimers, TypeOK, CriticalSections, TrackedInv,
       InSection
  <2>3. VictimInv'
    BY <1>8 DEF StopTimers, TypeOK, VictimInv, Closing
  <2>4. TrackedInv' /\ FreshInv' /\ TodoInv' /\ RoutesOfTracked'
    BY <1>8 DEF StopTimers, TrackedInv, FreshInv, TodoInv, RoutesOfTracked, Registered
  <2> QED
    BY <2>1, <2>2, <2>3, <2>4 DEF IInv
<1>9. ASSUME NEW c \in Callers, StopClose(c)
      PROVE  IInv'
  <2>1. TypeOK'
    BY <1>9 DEF StopClose, TypeOK, CallerStates
  <2>2. CriticalSections'
    BY <1>9 DEF StopClose, TypeOK, CriticalSections, InSection
  <2>3. TrackedInv'
    BY <1>9 DEF StopClose, TypeOK, CriticalSections, TrackedInv, VictimInv, InSection,
       Closing
  <2>4. FreshInv'
    BY <1>9 DEF StopClose, TypeOK, CriticalSections, TrackedInv, FreshInv, VictimInv,
       InSection, Closing
  <2>5. VictimInv'
    BY <1>9 DEF StopClose, TypeOK, VictimInv, Closing
  <2>6. TodoInv' /\ RoutesOfTracked'
    BY <1>9 DEF StopClose, TodoInv, RoutesOfTracked, Registered
  <2> QED
    BY <2>1, <2>2, <2>3, <2>4, <2>5, <2>6 DEF IInv
<1>10. ASSUME NEW c \in Callers, StopTimeout(c)
       PROVE  IInv'
  <2>1. TypeOK'
    BY <1>10 DEF StopTimeout, TypeOK, CallerStates
  <2>2. CriticalSections'
    BY <1>10 DEF StopTimeout, TypeOK, CriticalSections, InSection
  <2>3. VictimInv'
    BY <1>10 DEF StopTimeout, TypeOK, VictimInv, Closing
  <2>4. TrackedInv' /\ FreshInv' /\ TodoInv' /\ RoutesOfTracked'
    BY <1>10 DEF StopTimeout, TrackedInv, FreshInv, TodoInv, RoutesOfTracked, Registered
  <2> QED
    BY <2>1, <2>2, <2>3, <2>4 DEF IInv
<1>11. ASSUME NEW c \in Callers, StopDone(c)
       PROVE  IInv'
  <2>1. TypeOK'
    BY <1>11 DEF StopDone, Leave, AfterStop, TypeOK, CallerStates
  <2>2. CriticalSections'
    BY <1>11 DEF StopDone, Leave, AfterStop, TypeOK, CriticalSections, InSection
  <2>3. VictimInv'
    BY <1>11 DEF StopDone, Leave, AfterStop, TypeOK, VictimInv, Closing
  <2>4. TrackedInv' /\ FreshInv' /\ TodoInv' /\ RoutesOfTracked'
    BY <1>11 DEF StopDone, Leave, AfterStop, TrackedInv, FreshInv, TodoInv,
       RoutesOfTracked, Registered
  <2> QED
    BY <2>1, <2>2, <2>3, <2>4 DEF IInv
<1>12. ASSUME NEW h \in Handles, LoadDone(h)
       PROVE  IInv'
  <2>1. TypeOK'
    BY <1>12 DEF LoadDone, TypeOK, LoopStates
  <2>2. CriticalSections'
    BY <1>12 DEF LoadDone, TypeOK, CriticalSections, InSection
  <2>3. TrackedInv'
    BY <1>12 DEF LoadDone, TypeOK, TrackedInv
  <2>4. FreshInv'
    BY <1>12 DEF LoadDone, TypeOK, FreshInv
  <2>5. VictimInv'
    BY <1>12 DEF LoadDone, TypeOK, VictimInv, Closing
  <2>6. RoutesOfTracked'
    BY <1>12 DEF LoadDone, TypeOK, RoutesOfTracked
  <2>7. TodoInv'
    BY <1>12 DEF LoadDone, TodoInv, Registered
  <2> QED
    BY <2>1, <2>2, <2>3, <2>4, <2>5, <2>6, <2>7 DEF IInv
<1>13. ASSUME NEW h \in Handles, Take(h)
       PROVE  IInv'
  <2>1. TypeOK'
    BY <1>13, SupervisorAssumption DEF Take, TypeOK, CriticalSections, InSection,
       LoopStates
  <2>2. CriticalSections'
    BY <1>13 DEF Take, TypeOK, CriticalSections, InSection
  <2>3. TrackedInv'
    BY <1>13 DEF Take, TypeOK, TrackedInv
  <2>4. FreshInv'
    BY <1>13 DEF Take, TypeOK, FreshInv
  <2>5. VictimInv'
    BY <1>13 DEF Take, TypeOK, VictimInv, Closing
  <2>6. TodoInv' /\ RoutesOfTracked'
    BY <1>13 DEF Take, TodoInv, RoutesOfTracked, Registered
  <2> QED
    BY <2>1, <2>2, <2>3, <2>4, <2>5, <2>6 DEF IInv
<1>14. ASSUME NEW h \in Handles, Return(h)
       PROVE  IInv'
  <2>1. TypeOK'
    BY <1>14 DEF Return, TypeOK, LoopStates
  <2>2. CriticalSections'
    BY <1>14 DEF Return, TypeOK, CriticalSections, InSection
  <2>3. TrackedInv'
    BY <1>14 DEF Return, TypeOK, TrackedInv
  <2>4. FreshInv'
    BY <1>14 DEF Return, TypeOK, FreshInv
  <2>5. VictimInv'
    BY <1>14 DEF Return, TypeOK, VictimInv, Closing
  <2>6. TodoInv' /\ RoutesOfTracked'
    BY <1>14 DEF Return, TodoInv, RoutesOfTracked, Registered
  <2> QED
    BY <2>1, <2>2, <2>3, <2>4, <2>5, <2>6 DEF IInv
<1>15. ASSUME NEW h \in Handles, DrainExit(h)
       PROVE  IInv'
  <2>1. TypeOK'
    BY <1>15 DEF DrainExit, TypeOK, LoopStates
  <2>2. CriticalSections'
    BY <1>15 DEF DrainExit, TypeOK, CriticalSections, InSection
  <2>3. TrackedInv'
    BY <1>15 DEF DrainExit, TypeOK, TrackedInv
  <2>4. FreshInv'
    BY <1>15 DEF DrainExit, TypeOK, FreshInv
  <2>5. VictimInv'
    BY <1>15 DEF DrainExit, TypeOK, VictimInv, Closing
  <2>6. TodoInv' /\ RoutesOfTracked'
    BY <1>15 DEF DrainExit, TodoInv, RoutesOfTracked, Registered
  <2> QED
    BY <2>1, <2>2, <2>3, <2>4, <2>5, <2>6 DEF IInv
<1>16. ASSUME NEW h \in Handles, CtxExit(h)
       PROVE  IInv'
  <2>1. TypeOK'
    BY <1>16 DEF CtxExit, TypeOK, LoopStates
  <2>2. CriticalSections'
    BY <1>16 DEF CtxExit, TypeOK, CriticalSections, InSection
  <2>3. TrackedInv'
    BY <1>16 DEF CtxExit, TypeOK, TrackedInv
  <2>4. FreshInv'
    BY <1>16 DEF CtxExit, TypeOK, FreshInv
  <2>5. VictimInv'
    BY <1>16 DEF CtxExit, TypeOK, VictimInv, Closing
  <2>6. TodoInv' /\ RoutesOfTracked'
    BY <1>16 DEF CtxExit, TodoInv, RoutesOfTracked, Registered
  <2> QED
    BY <2>1, <2>2, <2>3, <2>4, <2>5, <2>6 DEF IInv
<1>17. ASSUME NEW h \in Handles, Forget(h)
       PROVE  IInv'
  <2>1. TypeOK'
    BY <1>17, SupervisorAssumption DEF Forget, TypeOK, CriticalSections, InSection,
       LoopStates, HookStates
  <2>2. CriticalSections'
    BY <1>17 DEF Forget, TypeOK, CriticalSections, InSection
  <2>3. TrackedInv'
    BY <1>17 DEF Forget, TypeOK, TrackedInv
  <2>4. FreshInv'
    BY <1>17 DEF Forget, TypeOK, FreshInv
  <2>5. VictimInv'
    BY <1>17 DEF Forget, TypeOK, VictimInv, Closing
  <2>6. RoutesOfTracked'
    BY <1>17, SupervisorAssumption DEF Forget, TypeOK, CriticalSections, TrackedInv,
       RoutesOfTracked, InSection
  <2>7. TodoInv'
    BY <1>17 DEF Forget, TodoInv, Registered
  <2> QED
    BY <2>1, <2>2, <2>3, <2>4, <2>5, <2>6, <2>7 DEF IInv
<1>18. ASSUME NEW h \in Handles, NEW r \in BOOLEAN, AfterLoad(h, r)
       PROVE  IInv'
  <2>1. TypeOK'
    BY <1>18 DEF AfterLoad, IsCurrent, TypeOK, HookStates
  <2>2. FreshInv'
    BY <1>18 DEF AfterLoad, IsCurrent, TypeOK, FreshInv
  <2>3. RoutesOfTracked'
    BY <1>18 DEF AfterLoad, IsCurrent, TypeOK, RoutesOfTracked
  <2>4. CriticalSections' /\ TrackedInv' /\ VictimInv' /\ TodoInv'
    BY <1>18 DEF AfterLoad, IsCurrent, CriticalSections, TrackedInv, VictimInv, TodoInv,
       InSection, Closing, Registered
  <2> QED
    BY <2>1, <2>2, <2>3, <2>4 DEF IInv
<1>19. ASSUME NEW h \in Handles, Announce(h)
       PROVE  IInv'
  <2>1. TypeOK'
    BY <1>19 DEF Announce, TypeOK, HookStates
  <2>2. FreshInv'
    BY <1>19 DEF Announce, TypeOK, FreshInv
  <2>3. CriticalSections' /\ TrackedInv' /\ VictimInv' /\ TodoInv' /\ RoutesOfTracked'
    BY <1>19 DEF Announce, CriticalSections, TrackedInv, VictimInv, TodoInv,
       RoutesOfTracked, InSection, Closing, Registered
  <2> QED
    BY <2>1, <2>2, <2>3 DEF IInv
<1>20. ASSUME NEW h \in Handles, HookCancelled(h)
       PROVE  IInv'
  <2>1. TypeOK'
    BY <1>20 DEF HookCancelled, TypeOK, HookStates
  <2>2. FreshInv'
    BY <1>20 DEF HookCancelled, TypeOK, FreshInv
  <2>3. CriticalSections' /\ TrackedInv' /\ VictimInv' /\ TodoInv' /\ RoutesOfTracked'
    BY <1>20 DEF HookCancelled, CriticalSections, TrackedInv, VictimInv, TodoInv,
       RoutesOfTracked, InSection, Closing, Registered
  <2> QED
    BY <2>1, <2>2, <2>3 DEF IInv
<1>21. ASSUME NEW d \in Dispatchers, DispatchBegin(d)
       PROVE  IInv'
  <2>1. TypeOK'
    BY <1>21, SupervisorAssumption DEF DispatchBegin, TypeOK, CriticalSections,
       TrackedInv, FreshInv, VictimInv, TodoInv, RoutesOfTracked, InSection, Closing,
       CallerStates, LoopStates, HookStates, Registered, Readers
  <2>2. TodoInv'
    BY <1>21 DEF DispatchBegin, TypeOK, TodoInv, Registered
  <2>3. CriticalSections' /\ TrackedInv' /\ FreshInv' /\ VictimInv' /\ RoutesOfTracked'
    BY <1>21 DEF DispatchBegin, CriticalSections, TrackedInv, FreshInv, VictimInv,
       RoutesOfTracked, InSection, Closing
  <2> QED
    BY <2>1, <2>2, <2>3 DEF IInv
<1>22. ASSUME NEW S \in SUBSET Scripts, TickBegin(S)
       PROVE  IInv'
  <2>1. TypeOK'
    BY <1>22 DEF TickBegin, TypeOK
  <2>2. CriticalSections' /\ TrackedInv' /\ FreshInv' /\ VictimInv' /\ TodoInv' /\ RoutesOfTracked'
    BY <1>22 DEF TickBegin, CriticalSections, TrackedInv, FreshInv, VictimInv, TodoInv,
       RoutesOfTracked, InSection, Closing, Registered
  <2> QED
    BY <2>1, <2>2 DEF IInv
<1>23. ASSUME NEW s \in Scripts, TickDispatch(s)
       PROVE  IInv'
  <2>1. TypeOK'
    BY <1>23, SupervisorAssumption DEF TickDispatch, TypeOK, CriticalSections,
       VictimInv, InSection, Closing, Readers
  <2>2. TodoInv'
    BY <1>23 DEF TickDispatch, TypeOK, TodoInv, Registered
  <2>3. CriticalSections' /\ TrackedInv' /\ FreshInv' /\ VictimInv' /\ RoutesOfTracked'
    BY <1>23 DEF TickDispatch, CriticalSections, TrackedInv, FreshInv, VictimInv,
       RoutesOfTracked, InSection, Closing
  <2> QED
    BY <2>1, <2>2, <2>3 DEF IInv
<1>24. ASSUME TickEnd
       PROVE  IInv'
  <2>1. TypeOK'
    BY <1>24 DEF TickEnd, TypeOK
  <2>2. CriticalSections' /\ TrackedInv' /\ FreshInv' /\ VictimInv' /\ TodoInv' /\ RoutesOfTracked'
    BY <1>24 DEF TickEnd, CriticalSections, TrackedInv, FreshInv, VictimInv, TodoInv,
       RoutesOfTracked, InSection, Closing, Registered
  <2> QED
    BY <2>1, <2>2 DEF IInv
<1>25. ASSUME NEW d \in Readers, NEW h \in Handles, Send(d, h)
       PROVE  IInv'
  <2>1. TypeOK'
    BY <1>25, SupervisorAssumption DEF Send, TypeOK, CriticalSections, InSection
  <2>2. FreshInv'
    BY <1>25, SupervisorAssumption DEF Send, TypeOK, CriticalSections, TrackedInv,
       FreshInv, VictimInv, TodoInv, RoutesOfTracked, InSection, Closing, CallerStates,
       LoopStates, HookStates, Registered, Readers
  <2>3. TodoInv'
    BY <1>25 DEF Send, TypeOK, TodoInv, Registered
  <2>4. CriticalSections' /\ TrackedInv' /\ VictimInv' /\ RoutesOfTracked'
    BY <1>25 DEF Send, CriticalSections, TrackedInv, VictimInv, RoutesOfTracked,
       InSection, Closing
  <2> QED
    BY <2>1, <2>2, <2>3, <2>4 DEF IInv
<1>26. ASSUME NEW d \in Readers, NEW h \in Handles, Skip(d, h)
       PROVE  IInv'
  <2>1. TypeOK'
    BY <1>26 DEF Skip, TypeOK
  <2>2. TodoInv'
    BY <1>26 DEF Skip, TypeOK, TodoInv, Registered
  <2>3. CriticalSections' /\ TrackedInv' /\ FreshInv' /\ VictimInv' /\ RoutesOfTracked'
    BY <1>26 DEF Skip, CriticalSections, TrackedInv, FreshInv, VictimInv,
       RoutesOfTracked, InSection, Closing
  <2> QED
    BY <2>1, <2>2, <2>3 DEF IInv
<1>27. ASSUME NEW d \in Readers, DispatchEnd(d)
       PROVE  IInv'
  <2>1. TypeOK'
    BY <1>27 DEF DispatchEnd, TypeOK
  <2>2. TodoInv'
    BY <1>27 DEF DispatchEnd, TypeOK, TodoInv, Registered
  <2>3. CriticalSections' /\ TrackedInv' /\ FreshInv' /\ VictimInv' /\ RoutesOfTracked'
    BY <1>27 DEF DispatchEnd, CriticalSections, TrackedInv, FreshInv, VictimInv,
       RoutesOfTracked, InSection, Closing
  <2> QED
    BY <2>1, <2>2, <2>3 DEF IInv
<1>28. ASSUME Shutdown
       PROVE  IInv'
  <2>1. TypeOK'
    BY <1>28 DEF Shutdown, TypeOK
  <2>2. CriticalSections' /\ TrackedInv' /\ FreshInv' /\ VictimInv' /\ TodoInv' /\ RoutesOfTracked'
    BY <1>28 DEF Shutdown, CriticalSections, TrackedInv, FreshInv, VictimInv, TodoInv,
       RoutesOfTracked, InSection, Closing, Registered
  <2> QED
    BY <2>1, <2>2 DEF IInv
<1>29. CASE UNCHANGED vars
  BY <1>29 DEF IInv, TypeOK, CriticalSections, TrackedInv, FreshInv, VictimInv, TodoInv,
     RoutesOfTracked, InSection, Closing, Registered
<1> QED
  BY <1>1, <1>2, <1>3, <1>4, <1>5, <1>6, <1>7, <1>8, <1>9, <1>10, <1>11, <1>12, <1>13, <1>14, <1>15, <1>16, <1>17, <1>18, <1>19, <1>20, <1>21, <1>22, <1>23, <1>24, <1>25, <1>26, <1>27, <1>28, <1>29 DEF Next, CallerStep, RunnerStep, HookStep, DispatchStep

\* The invariant holds in every reachable state.
THEOREM Invariant == Spec => []IInv
  <1>1. Init => IInv
    BY InitIInv
  <1>2. IInv /\ [Next]_vars => IInv'
    BY InductiveStep
  <1> QED
    BY <1>1, <1>2, PTL DEF Spec

\* Every variable keeps its type; in particular no event channel holds more
\* than its capacity.
THEOREM TypeCorrect == Spec => []TypeOK
  <1>1. IInv => TypeOK
    BY DEF IInv
  <1> QED
    BY <1>1, Invariant, PTL

\* No dispatcher sends on a closed channel (supervisor.go:193): what it has
\* still to visit is registered, and whoever is registered is open.
THEOREM SendsAreSafe == Spec => []NoSendOnClosed
  <1>1. IInv => NoSendOnClosed
    BY DEF IInv, TodoInv, TrackedInv, NoSendOnClosed, Registered, TypeOK
  <1> QED
    BY <1>1, Invariant, PTL

\* No channel is closed twice (runner.go:287), whatever stops and reloads of
\* a script overlap: the one that took the generation out closes it.
THEOREM ClosesAreUnique == Spec => []CloseOnce
  <1>1. IInv => CloseOnce
    BY DEF IInv, VictimInv, Closing, CloseOnce
  <1> QED
    BY <1>1, Invariant, PTL

\* The supervisor's map and the registry agree whenever s.mu is free
\* (supervisor.go:187).
THEOREM MapsAgree == Spec => []RegistryAgrees
  <1>1. IInv => RegistryAgrees
    BY DEF IInv, CriticalSections, RegistryAgrees
  <1> QED
    BY <1>1, Invariant, PTL

\* The route table never names a generation that is not the tracked one, or
\* one that has not loaded (supervisor.go:164).
THEOREM RoutesAreCurrent == Spec => []RoutesOfTracked
  <1>1. IInv => RoutesOfTracked
    BY DEF IInv
  <1> QED
    BY <1>1, Invariant, PTL

\* A step that sends to a runner finds it registered; every other step leaves
\* the queues alone or shortens them.
LEMMA SilentStep ==
    IInv /\ [Next]_vars =>
        \A h \in Handles : h \notin Registered => queue'[h] <= queue[h]
<1> SUFFICES ASSUME IInv, [Next]_vars, NEW h \in Handles, h \notin Registered
             PROVE  queue'[h] <= queue[h]
  OBVIOUS
<1>1. queue[h] \in 0..QueueCap /\ queue \in [Handles -> 0..QueueCap]
  BY DEF IInv, TypeOK
<1>2. UNCHANGED queue => queue'[h] <= queue[h]
  BY <1>1, SupervisorAssumption
<1>3. CASE \E g \in Handles : Take(g)
  BY <1>1, <1>3, SupervisorAssumption DEF Take
<1>4. CASE \E g \in Handles : Forget(g)
  BY <1>1, <1>4, SupervisorAssumption DEF Forget
<1>5. CASE \E d \in Readers, g \in Handles : Send(d, g)
  <2>1. PICK d \in Readers, g \in Handles : Send(d, g)
    BY <1>5
  <2>2. g # h
    BY <2>1 DEF IInv, TodoInv, Send
  <2> QED
    BY <1>1, <2>1, <2>2, SupervisorAssumption DEF Send
<1>6. CASE \E c \in Callers : CallerStep(c) \/ \E s \in Scripts,
                op \in {"start", "stop", "reload"} : Call(c, s, op)
  BY <1>2, <1>6 DEF CallerStep, Call, StartTracked, StartTrack, StartAdd, StopUntracked,
     StopUntrack, StopRemove, StopTimers, StopClose, StopTimeout, StopDone, handleVars
<1>7. CASE \E g \in Handles : LoadDone(g) \/ Return(g) \/ DrainExit(g) \/ CtxExit(g)
                                 \/ HookStep(g)
  BY <1>2, <1>7 DEF LoadDone, Return, DrainExit, CtxExit, HookStep, AfterLoad, Announce,
     HookCancelled
<1>8. CASE \/ \E d \in Dispatchers : DispatchBegin(d)
           \/ \E d \in Readers : DispatchEnd(d) \/ \E g \in Handles : Skip(d, g)
           \/ \E S \in SUBSET Scripts : TickBegin(S)
           \/ \E s \in Scripts : TickDispatch(s)
           \/ TickEnd \/ Shutdown
  BY <1>2, <1>8 DEF DispatchBegin, DispatchEnd, Skip, TickBegin, TickDispatch, TickEnd,
     Shutdown, handleVars
<1>9. CASE UNCHANGED vars
  BY <1>2, <1>9 DEF vars, handleVars
<1> QED
  BY <1>3, <1>4, <1>5, <1>6, <1>7, <1>8, <1>9 DEF Next, RunnerStep, DispatchStep

\* A generation that has left the registry is never sent an event again
\* (supervisor.go:67).
THEOREM StoppingIsSilent == Spec => StoppedIsSilent
  <1>1. IInv /\ [Next]_vars =>
          [\A h \in Handles : h \notin Registered => queue'[h] <= queue[h]]_vars
    BY SilentStep
  <1> QED
    BY <1>1, Invariant, PTL DEF Spec, StoppedIsSilent

\* A goroutine that has ended was aborted, or left a closed and empty channel.
DrainInv ==
    \A h \in Handles : loop[h] = "exited" => CtxDone(h) \/ (closed[h] /\ queue[h] = 0)

\* Contexts stay done and channels closed until the handle is forgotten, and nobody
\* sends on a closed channel.
LEMMA DrainStep == IInv /\ DrainInv /\ [Next]_vars => DrainInv'
<1> SUFFICES ASSUME IInv, DrainInv, [Next]_vars, NEW h \in Handles, (loop[h] = "exited")'
             PROVE  CtxDone(h)' \/ (closed[h] /\ queue[h] = 0)'
  BY DEF DrainInv
<1>1. /\ TypeOK
      /\ loop[h] = "exited" => CtxDone(h) \/ (closed[h] /\ queue[h] = 0)
  BY DEF IInv, DrainInv
<1> USE DEF TypeOK, CtxDone
<1>2. CASE UNCHANGED <<loop, closed, queue, cancelled, rootDone>>
  BY <1>1, <1>2
<1>3. CASE \E d \in Readers, g \in Handles : Send(d, g)
  <2>1. PICK d \in Readers, g \in Handles : Send(d, g)
    BY <1>3
  <2>2. ~closed[g]
    BY <2>1 DEF IInv, TodoInv, TrackedInv, Send, Registered
  <2> QED
    BY <1>1, <2>1, <2>2 DEF Send
<1>4. CASE \E g \in Handles : RunnerStep(g)
  <2>1. PICK g \in Handles : RunnerStep(g)
    BY <1>4
  <2> QED
    BY <1>1, <2>1 DEF RunnerStep, LoadDone, Take, Return, DrainExit, CtxExit, Forget
<1>5. CASE \E c \in Callers : CallerStep(c)
  <2>1. PICK c \in Callers : CallerStep(c)
    BY <1>5
  <2> USE <1>1
  <2>2. CASE \E g \in Handles : StartTrack(c, g)
    BY <2>2 DEF StartTrack, handleVars
  <2>3. CASE StartAdd(c)
    BY <2>3 DEF StartAdd, handleVars
  <2>4. CASE StopClose(c)
    BY <2>4 DEF StopClose
  <2>5. CASE StopTimeout(c)
    BY <2>5 DEF StopTimeout
  <2>6. CASE StopDone(c)
    BY <2>6 DEF StopDone
  <2> QED
    BY <2>1, <2>2, <2>3, <2>4, <2>5, <2>6, <1>2 DEF CallerStep, StartTracked, StopUntracked,
       StopUntrack, StopRemove, StopTimers, handleVars
<1>6. CASE Shutdown
  BY <1>1, <1>6 DEF Shutdown
<1> QED
  BY <1>2, <1>3, <1>4, <1>5, <1>6 DEF Next, DispatchStep, Call, HookStep, AfterLoad, Announce,
     HookCancelled, DispatchBegin, DispatchEnd, Skip, TickBegin, TickDispatch, TickEnd, vars,
     handleVars

\* Everything a script accepted before it was stopped is handled, unless its context
\* was cancelled (runner.go:396).
THEOREM StopsDrain == Spec => []DrainsUnlessAborted
  <1>1. Init => DrainInv
    BY DEF Init, DrainInv
  <1>2. DrainInv => DrainsUnlessAborted
    BY DEF DrainInv, DrainsUnlessAborted
  <1> QED
    BY <1>1, <1>2, DrainStep, Invariant, PTL DEF Spec

-----------------------------------------------------------------------------
(* Hot reload *)

\* A change of the script's file has not got as far as a call yet.
Coming(s) == s \in fsq \/ timer[s] # "none" \/ stray[s] > 0 \/ spawned[s] > 0

Contents == 0..(MaxChanges + 1)

HotTypeOK ==
    /\ files \in [Scripts -> Contents]
    /\ changes \in Contents
    /\ boot \in {"start", "watching", "listed", "running"}
    /\ found \in SUBSET Scripts
    /\ fsq \in SUBSET Scripts
    /\ timer \in [Scripts -> {"none", "armed", "fired"}]
    /\ stray \in [Scripts -> Nat]
    /\ spawned \in [Scripts -> Nat]
    /\ crossed \in SUBSET Scripts
    /\ source \in [Handles -> Contents \cup {Unread}]

\* What main has not come to has not happened.
BootInv ==
    /\ boot \in {"start", "watching"} =>
         /\ found = {}
         /\ scripts = [s \in Scripts |-> None]
         /\ \A c \in Callers : pc[c] = "idle"
    /\ boot = "running" => found = {}
    /\ boot # "running" =>
         /\ crossed = {}
         /\ \A s \in Scripts : timer[s] = "none" /\ stray[s] = 0 /\ spawned[s] = 0
         /\ \A c \in Callers : pc[c] \in {"idle", "start", "add"}

\* A caller restarts a script only while it is in Reload.
RestartInv == \A c \in Callers : restart[c] => pc[c] \notin {"idle", "add"}

\* A generation that has not begun to load has read nothing.
SourceInv == \A h \in Handles : loop[h] = "unused" => source[h] = Unread

\* A generation that is older than its file is about to be stopped.
StaleInv ==
    ~rootDone =>
        \A s \in Scripts :
            scripts[s] # None /\ source[scripts[s]] \notin {Unread, files[s]} =>
                Coming(s) \/ \E c \in Callers : pc[c] = "stop" /\ arg[c] = s

\* A script whose file exists is tracked or about to be started, and nobody is
\* about to stop it; and the reverse.
SettlesAs(s) ==
    IF files[s] # 0
      THEN /\ \A d \in Callers : ~StillStops(d, s)
           /\ scripts[s] # None \/ s \in found \/ \E d \in Callers : StillStarts(d, s)
      ELSE /\ \A d \in Callers : ~StillStarts(d, s)
           /\ s \notin found
           /\ scripts[s] = None \/ \E d \in Callers : StillStops(d, s)

SettleInv ==
    ~rootDone /\ boot \in {"listed", "running"} =>
        \A s \in Scripts \ crossed : Coming(s) \/ SettlesAs(s)

HotIInv ==
    /\ HotTypeOK
    /\ BootInv
    /\ RestartInv
    /\ SourceInv
    /\ StaleInv
    /\ SettleInv

-----------------------------------------------------------------------------
\* The steps of hot reload are, for the supervisor, steps of its own.
LEMMA StepsOfSupervisor == [HotNext]_allVars => [Next]_vars
<1> SUFFICES ASSUME HotNext PROVE [Next]_vars
  BY DEF allVars, vars
<1>1. ASSUME NEW s \in Scripts, Save(s) \/ Delete(s) PROVE UNCHANGED vars
  BY <1>1 DEF Save, Delete, Change
<1>2. ASSUME Watch \/ List \/ RunWatcher PROVE UNCHANGED vars
  BY <1>2 DEF Watch, List, RunWatcher
<1>3. ASSUME NEW s \in Scripts, LoadNext(s) PROVE Next
  BY <1>3, HotReloadAssumption DEF LoadNext, Next
<1>4. ASSUME NEW s \in Scripts, Debounce(s) \/ Fire(s) \/ FireStray(s) PROVE UNCHANGED vars
  BY <1>4 DEF Debounce, Fire, FireStray
<1>5. ASSUME NEW c \in Callers, NEW s \in Scripts, Callback(c, s) PROVE [Next]_vars
  <2>1. CASE rootDone
    BY <1>5, <2>1 DEF Callback
  <2>2. CASE ~rootDone
    <3>1. Call(c, s, Decision(s))
      BY <1>5, <2>2 DEF Callback
    <3>2. Decision(s) \in {"start", "stop", "reload"}
      BY DEF Decision
    <3> HIDE DEF Call
    <3> QED
      BY <3>1, <3>2 DEF Next
  <2> QED
    BY <2>1, <2>2
<1>6. ASSUME NEW h \in Handles, ReadFile(h) \/ Loaded(h) \/ Forgotten(h) PROVE [Next]_vars
  BY <1>6 DEF ReadFile, Loaded, Forgotten, Next, RunnerStep
<1>7. ASSUME SupervisorStep PROVE Next
  BY <1>7 DEF SupervisorStep, Next, RunnerStep
<1> QED
  BY <1>1, <1>2, <1>3, <1>4, <1>5, <1>6, <1>7 DEF HotNext

\* HotReload takes no step of the supervisor that Supervisor does not, so the invariants
\* of Supervisor can be used for it.
LEMMA HotIsSupervisor == HotSpec => Spec
<1>1. HotInit => Init
  BY DEF HotInit
<1> QED
  BY <1>1, StepsOfSupervisor, PTL DEF HotSpec, Spec

LEMMA HotInitInv == HotInit => HotIInv
<1> SUFFICES ASSUME HotInit PROVE HotIInv
  OBVIOUS
<1> USE HotReloadAssumption DEF HotInit, Init
<1>1. HotTypeOK
  BY DEF HotTypeOK, Contents, Unread
<1>2. BootInv
  BY DEF BootInv
<1>3. RestartInv /\ SourceInv /\ StaleInv /\ SettleInv
  BY DEF RestartInv, SourceInv, StaleInv, SettleInv
<1> QED
  BY <1>1, <1>2, <1>3 DEF HotIInv

\* The variables of hot reload keep their types.
LEMMA HotTypeStep == IInv /\ HotTypeOK /\ HotNext => HotTypeOK'
<1> SUFFICES ASSUME IInv, HotTypeOK, HotNext PROVE HotTypeOK'
  OBVIOUS
<1> USE HotReloadAssumption DEF HotTypeOK, Contents
<1>1. ASSUME NEW s \in Scripts, Save(s) \/ Delete(s) PROVE HotTypeOK'
  BY <1>1 DEF Save, Delete, Change
<1>2. ASSUME Watch \/ List \/ RunWatcher PROVE HotTypeOK'
  BY <1>2 DEF Watch, List, RunWatcher
<1>3. ASSUME NEW s \in Scripts, LoadNext(s) PROVE HotTypeOK'
  BY <1>3 DEF LoadNext
<1>4. ASSUME NEW s \in Scripts, Debounce(s) \/ Fire(s) \/ FireStray(s) PROVE HotTypeOK'
  BY <1>4 DEF Debounce, Fire, FireStray
<1>5. ASSUME NEW c \in Callers, NEW s \in Scripts, Callback(c, s) PROVE HotTypeOK'
  BY <1>5 DEF Callback
<1>6. ASSUME NEW h \in Handles, ReadFile(h) PROVE HotTypeOK'
  <2>1. owner[h] \in Scripts
    BY <1>6 DEF ReadFile, IInv, TypeOK, FreshInv
  <2> QED
    BY <1>6, <2>1 DEF ReadFile
<1>7. ASSUME NEW h \in Handles, Loaded(h) \/ Forgotten(h) PROVE HotTypeOK'
  BY <1>7 DEF Loaded, Forgotten, watchVars
<1>8. ASSUME SupervisorStep PROVE HotTypeOK'
  BY <1>8 DEF SupervisorStep, watchVars
<1> QED
  BY <1>1, <1>2, <1>3, <1>4, <1>5, <1>6, <1>7, <1>8 DEF HotNext

\* A step of a caller does not change what the others are about to do, nor anything
\* about another script.
LEMMA CallerFrame ==
    ASSUME IInv, NEW c \in Callers, CallerStep(c)
    PROVE  /\ \A d \in Callers \ {c} : /\ pc'[d] = pc[d] /\ arg'[d] = arg[d]
                                       /\ restart'[d] = restart[d]
           /\ \A s \in Scripts \ {arg[c]} : scripts'[s] = scripts[s]
           /\ arg'[c] \in {arg[c], None}
           /\ arg[c] \in Scripts
           /\ pc[c] # "idle"
           /\ rootDone' = rootDone
<1> USE DEF IInv, TypeOK, CriticalSections, tableVars
<1>1. arg[c] \in Scripts /\ pc[c] # "idle"
  BY DEF CallerStep, StartTracked, StartTrack, StartAdd, StopUntracked, StopUntrack,
     StopRemove, StopTimers, StopClose, StopTimeout, StopDone
<1>2. CASE StartTracked(c) \/ StopUntracked(c) \/ StopDone(c) \/ StartAdd(c)
  BY <1>1, <1>2 DEF StartTracked, StopUntracked, StopDone, StartAdd, Leave
<1>3. CASE \E h \in Handles : StartTrack(c, h)
  BY <1>1, <1>3 DEF StartTrack
<1>4. CASE StopUntrack(c)
  BY <1>1, <1>4 DEF StopUntrack
<1>5. CASE StopRemove(c) \/ StopTimers(c) \/ StopClose(c) \/ StopTimeout(c)
  BY <1>1, <1>5 DEF StopRemove, StopTimers, StopClose, StopTimeout
<1> QED
  BY <1>2, <1>3, <1>4, <1>5 DEF CallerStep

\* What a step of a caller does to its own script: the stop of a reload or of a
\* deletion has begun, or a start has ended.
LEMMA CallerEffect ==
    ASSUME IInv, RestartInv, NEW c \in Callers, CallerStep(c), NEW s \in Scripts, arg[c] = s
    PROVE  /\ scripts'[s] # scripts[s] =>
                \/ pc[c] = "stop" /\ scripts'[s] = None
                \/ StillStarts(c, s) /\ scripts'[s] \in Fresh
           /\ StillStarts(c, s) => StillStarts(c, s)' \/ scripts'[s] # None
           /\ StillStarts(c, s)' => StillStarts(c, s)
           /\ StillStops(c, s) => scripts'[s] = None
           /\ ~StillStops(c, s)'
           /\ pc[c] = "stop" => scripts'[s] = None
           /\ restart'[c] => pc'[c] \notin {"idle", "add"}
           /\ pc[c] \in {"idle", "start", "add"} => pc'[c] \in {"idle", "start", "add"}
<1> USE DEF IInv, TypeOK, CriticalSections, RestartInv, StillStarts, StillStops, tableVars
<1>1. CASE StartTracked(c) \/ StopUntracked(c) \/ StopDone(c) \/ StartAdd(c)
  BY <1>1, SupervisorAssumption DEF StartTracked, StopUntracked, StopDone, StartAdd, Leave, AfterStop
<1>2. CASE \E h \in Handles : StartTrack(c, h)
  BY <1>2, SupervisorAssumption DEF StartTrack, Fresh
<1>3. CASE StopUntrack(c)
  BY <1>3, SupervisorAssumption DEF StopUntrack
<1>4. CASE StopRemove(c) \/ StopTimers(c) \/ StopClose(c) \/ StopTimeout(c)
  BY <1>4, SupervisorAssumption DEF StopRemove, StopTimers, StopClose, StopTimeout
<1> QED
  BY <1>1, <1>2, <1>3, <1>4 DEF CallerStep

\* The other steps of Supervisor leave the callers and the map of scripts alone.
LEMMA QuietSteps ==
    ASSUME SupervisorStep
    PROVE  \/ \E c \in Callers : CallerStep(c)
           \/ UNCHANGED <<pc, arg, restart, scripts>> /\ (rootDone' = rootDone \/ rootDone')
<1>1. CASE \E h \in Handles : Return(h) \/ DrainExit(h) \/ CtxExit(h) \/ HookStep(h)
  BY <1>1 DEF Return, DrainExit, CtxExit, HookStep, AfterLoad, Announce, HookCancelled,
     callerVars, tableVars
<1>2. CASE Shutdown
  BY <1>2 DEF Shutdown, callerVars, tableVars
<1> QED
  BY <1>1, <1>2 DEF SupervisorStep

\* Main comes to things in their order.
LEMMA BootStep == IInv /\ HotIInv /\ HotNext => BootInv'
<1> SUFFICES ASSUME IInv, HotIInv, HotNext PROVE BootInv'
  OBVIOUS
<1>1. BootInv /\ HotTypeOK /\ RestartInv
  BY DEF HotIInv
<1> USE <1>1, HotReloadAssumption DEF HotTypeOK
<1>2. ASSUME NEW s \in Scripts, Save(s) \/ Delete(s) PROVE BootInv'
  BY <1>2 DEF Save, Delete, Change, BootInv, vars, tableVars, callerVars
<1>3. ASSUME Watch PROVE BootInv'
  BY <1>3 DEF Watch, BootInv, vars, tableVars, callerVars
<1>4. ASSUME List PROVE BootInv'
  BY <1>4 DEF List, BootInv, vars, tableVars, callerVars
<1>5. ASSUME RunWatcher PROVE BootInv'
  BY <1>5 DEF RunWatcher, BootInv, vars, tableVars, callerVars
<1>6. ASSUME NEW s \in Scripts, LoadNext(s) PROVE BootInv'
  BY <1>6 DEF LoadNext, BootInv, Call, tableVars, IInv, TypeOK
<1>7. ASSUME NEW s \in Scripts, Debounce(s) \/ Fire(s) \/ FireStray(s) PROVE BootInv'
  BY <1>7 DEF Debounce, Fire, FireStray, BootInv, vars, tableVars, callerVars
<1>8. ASSUME NEW c \in Callers, NEW s \in Scripts, Callback(c, s) PROVE BootInv'
  BY <1>8 DEF Callback, BootInv
<1>9. ASSUME NEW h \in Handles, ReadFile(h) \/ Loaded(h) \/ Forgotten(h) PROVE BootInv'
  BY <1>9 DEF ReadFile, Loaded, Forgotten, LoadDone, Forget, BootInv, vars, tableVars,
     callerVars, watchVars
<1>10. ASSUME SupervisorStep PROVE BootInv'
  <2>1. UNCHANGED watchVars
    BY <1>10 DEF SupervisorStep
  <2>2. CASE UNCHANGED <<pc, scripts>>
    BY <2>1, <2>2 DEF BootInv, watchVars
  <2>3. ASSUME NEW c \in Callers, CallerStep(c) PROVE BootInv'
    <3>1. /\ \A d \in Callers \ {c} : pc'[d] = pc[d]
          /\ pc[c] # "idle" /\ arg[c] \in Scripts
      BY <2>3, CallerFrame
    <3>2. pc[c] \in {"idle", "start", "add"} => pc'[c] \in {"idle", "start", "add"}
      BY <2>3, <3>1, CallerEffect
    <3>3. boot \notin {"start", "watching"}
      BY <3>1 DEF BootInv
    <3> QED
      BY <2>1, <3>1, <3>3, <3>2 DEF BootInv, watchVars
  <2> QED
    BY <1>10, <2>2, <2>3, QuietSteps
<1> QED
  BY <1>2, <1>3, <1>4, <1>5, <1>6, <1>7, <1>8, <1>9, <1>10 DEF HotNext

\* Reload's second half is remembered until it starts the script.
LEMMA RestartStep == IInv /\ RestartInv /\ HotNext => RestartInv'
<1> SUFFICES ASSUME IInv, RestartInv, HotNext PROVE RestartInv'
  OBVIOUS
<1>1. CASE UNCHANGED <<pc, restart>>
  BY <1>1 DEF RestartInv
<1>2. ASSUME NEW c \in Callers, NEW s \in Scripts, NEW op, Call(c, s, op) PROVE RestartInv'
  BY <1>2 DEF Call, RestartInv, IInv, TypeOK
<1>3. ASSUME NEW c \in Callers, CallerStep(c) PROVE RestartInv'
  <2>1. restart'[c] => pc'[c] \notin {"idle", "add"}
    BY <1>3, CallerFrame, CallerEffect
  <2> QED
    BY <1>3, <2>1, CallerFrame DEF RestartInv
<1>4. CASE SupervisorStep
  BY <1>1, <1>3, <1>4, QuietSteps
<1>5. CASE \E s \in Scripts : LoadNext(s)
  BY <1>2, <1>5, HotReloadAssumption DEF LoadNext
<1>6. CASE \E c \in Callers, s \in Scripts : Callback(c, s)
  BY <1>1, <1>2, <1>6 DEF Callback, vars, callerVars
<1>7. CASE \E h \in Handles : ReadFile(h) \/ Loaded(h) \/ Forgotten(h)
  BY <1>1, <1>7 DEF ReadFile, Loaded, Forgotten, LoadDone, Forget, vars, callerVars
<1> QED
  BY <1>1, <1>4, <1>5, <1>6, <1>7 DEF HotNext, Save, Delete, Change, Watch, List, RunWatcher,
     Debounce, Fire, FireStray, vars, callerVars

\* A handle is forgotten together with what it has read, and nothing reads before
\* its goroutine is there.
LEMMA SourceStep == IInv /\ HotTypeOK /\ SourceInv /\ HotNext => SourceInv'
<1> SUFFICES ASSUME IInv, HotTypeOK, SourceInv, HotNext PROVE SourceInv'
  OBVIOUS
<1> USE DEF HotTypeOK, SourceInv
<1>1. CASE UNCHANGED <<loop, source>>
  BY <1>1
<1>2. CASE \E h \in Handles : ReadFile(h)
  BY <1>2 DEF ReadFile, vars, handleVars
<1>3. CASE \E h \in Handles : Loaded(h)
  BY <1>3 DEF Loaded, LoadDone, watchVars, IInv, TypeOK
<1>4. CASE \E h \in Handles : Forgotten(h)
  BY <1>4 DEF Forgotten, Forget, IInv, TypeOK
<1>5. CASE SupervisorStep
  <2>1. source' = source
    BY <1>5 DEF SupervisorStep, watchVars
  <2>2. \A h \in Handles : loop'[h] = "unused" => loop[h] = "unused"
    <3>1. CASE \E h \in Handles : Return(h) \/ DrainExit(h) \/ CtxExit(h)
      BY <3>1 DEF Return, DrainExit, CtxExit, IInv, TypeOK
    <3>2. CASE \E h \in Handles : HookStep(h)
      BY <3>2 DEF HookStep, AfterLoad, Announce, HookCancelled
    <3>3. CASE Shutdown
      BY <3>3 DEF Shutdown, handleVars
    <3>4. CASE \E c \in Callers : CallerStep(c)
      BY <3>4 DEF CallerStep, StartTracked, StartTrack, StartAdd, StopUntracked, StopUntrack,
         StopRemove, StopTimers, StopClose, StopTimeout, StopDone, handleVars, IInv, TypeOK
    <3> QED
      BY <1>5, <3>1, <3>2, <3>3, <3>4 DEF SupervisorStep
  <2> QED
    BY <2>1, <2>2
<1>6. CASE \/ \E s \in Scripts : LoadNext(s)
           \/ \E c \in Callers, s \in Scripts : Callback(c, s)
  BY <1>1, <1>6 DEF LoadNext, Callback, Call, vars, handleVars
<1> QED
  BY <1>1, <1>2, <1>3, <1>4, <1>5, <1>6 DEF HotNext, Save, Delete, Change, Watch, List,
     RunWatcher, Debounce, Fire, FireStray, vars, handleVars

\* A change that is on its way stays so until a callback takes it.
LEMMA ComingStep ==
    ASSUME HotTypeOK, NEW s \in Scripts, Coming(s),
           \/ \E t \in Scripts : Save(t) \/ Delete(t) \/ LoadNext(t)
           \/ Watch \/ List \/ RunWatcher
           \/ \E t \in Scripts : Debounce(t) \/ Fire(t) \/ FireStray(t)
           \/ \E c \in Callers, t \in Scripts \ {s} : Callback(c, t)
           \/ \E h \in Handles : ReadFile(h) \/ Loaded(h) \/ Forgotten(h)
           \/ SupervisorStep
    PROVE  Coming(s)'
<1> USE DEF Coming, HotTypeOK
<1>1. CASE UNCHANGED <<fsq, timer, stray, spawned>>
  BY <1>1
<1>2. CASE \E t \in Scripts : Save(t) \/ Delete(t)
  BY <1>2 DEF Save, Delete, Change
<1>3. CASE \E t \in Scripts : Debounce(t)
  BY <1>3 DEF Debounce
<1>4. CASE \E t \in Scripts : Fire(t)
  BY <1>4 DEF Fire
<1>5. CASE \E t \in Scripts : FireStray(t)
  BY <1>5 DEF FireStray
<1>6. CASE \E c \in Callers, t \in Scripts \ {s} : Callback(c, t)
  BY <1>6 DEF Callback
<1> QED
  BY <1>1, <1>2, <1>3, <1>4, <1>5, <1>6 DEF LoadNext, Watch, List, RunWatcher, ReadFile,
     Loaded, Forgotten, SupervisorStep, watchVars

\* No reload reads a file too early for a change to be noticed.
LEMMA StaleStep == IInv /\ HotIInv /\ HotNext => StaleInv'
<1> SUFFICES ASSUME IInv, HotIInv, HotNext, ~rootDone', NEW s \in Scripts,
                    scripts'[s] # None, source'[scripts'[s]] \notin {Unread, files'[s]}
             PROVE  Coming(s)' \/ \E c \in Callers : pc'[c] = "stop" /\ arg'[c] = s
  BY DEF StaleInv
<1> DEFINE Stopper(c) == pc[c] = "stop" /\ arg[c] = s
           Stale == scripts[s] # None /\ source[scripts[s]] \notin {Unread, files[s]}
           Goal == Coming(s)' \/ \E c \in Callers : Stopper(c)'
<1>1. HotTypeOK /\ BootInv /\ SourceInv /\ StaleInv /\ RestartInv /\ TypeOK /\ TrackedInv
  BY DEF HotIInv, IInv
<1>2. ~rootDone => (Stale => Coming(s) \/ \E c \in Callers : Stopper(c))
  BY <1>1 DEF StaleInv
<1>3. ASSUME NEW t \in Scripts, Save(t) \/ Delete(t) PROVE Goal
  <2>1. UNCHANGED <<scripts, pc, arg, rootDone, source>>
    BY <1>3 DEF Save, Delete, Change, vars, tableVars, callerVars
  <2>2. CASE t = s
    BY <1>1, <1>3, <2>1, <2>2 DEF Save, Delete, Change, BootInv, Coming
  <2>3. CASE t # s
    <3>1. files'[s] = files[s]
      BY <1>1, <1>3, <2>3 DEF Save, Delete, Change, HotTypeOK
    <3> QED
      BY <1>1, <1>2, <1>3, <2>1, <3>1, ComingStep
  <2> QED
    BY <2>2, <2>3
<1>4. ASSUME Watch \/ List \/ RunWatcher PROVE Goal
  BY <1>1, <1>2, <1>4, ComingStep DEF Watch, List, RunWatcher, vars, tableVars, callerVars
<1>5. ASSUME NEW t \in Scripts, LoadNext(t) PROVE Goal
  BY <1>1, <1>2, <1>5, ComingStep, HotReloadAssumption DEF LoadNext, Call, TypeOK, tableVars
<1>6. ASSUME NEW t \in Scripts, Debounce(t) \/ Fire(t) \/ FireStray(t) PROVE Goal
  BY <1>1, <1>2, <1>6, ComingStep DEF Debounce, Fire, FireStray, vars, tableVars, callerVars
<1>7. ASSUME NEW c \in Callers, NEW t \in Scripts, Callback(c, t) PROVE Goal
  <2>1. Call(c, t, Decision(t)) /\ UNCHANGED <<files, source>> /\ ~rootDone
    BY <1>7 DEF Callback, vars
  <2>2. CASE t = s
    BY <1>1, <2>1, <2>2 DEF Call, Decision, TypeOK
  <2>3. CASE t # s
    <3>1. Coming(s) => Coming(s)'
      BY <1>1, <1>7, <2>3, ComingStep
    <3> QED
      BY <1>1, <1>2, <2>1, <3>1 DEF Call, TypeOK, tableVars
  <2> QED
    BY <2>2, <2>3
<1>8. ASSUME NEW h \in Handles, ReadFile(h) PROVE Goal
  <2>1. Coming(s) => Coming(s)'
    BY <1>1, <1>8, ComingStep
  <2>2. h # scripts[s]
    BY <1>1, <1>8 DEF ReadFile, TrackedInv, TypeOK, HotTypeOK, vars, tableVars
  <2> QED
    BY <1>1, <1>2, <1>8, <2>1, <2>2 DEF ReadFile, vars, tableVars, callerVars, HotTypeOK, TypeOK
<1>9. ASSUME NEW h \in Handles, Loaded(h) PROVE Goal
  BY <1>1, <1>2, <1>9, ComingStep DEF Loaded, LoadDone, watchVars, tableVars, callerVars
<1>10. ASSUME NEW h \in Handles, Forgotten(h) PROVE Goal
  <2>1. Coming(s) => Coming(s)'
    BY <1>1, <1>10, ComingStep
  <2>2. h # scripts[s]
    BY <1>1, <1>10 DEF Forgotten, Forget, TrackedInv, TypeOK, tableVars
  <2> QED
    BY <1>1, <1>2, <1>10, <2>1, <2>2 DEF Forgotten, Forget, tableVars, callerVars, HotTypeOK, TypeOK
<1>11. ASSUME SupervisorStep PROVE Goal
  <2>1. (Coming(s) => Coming(s)') /\ UNCHANGED <<files, source>>
    BY <1>1, <1>11, ComingStep DEF SupervisorStep, watchVars
  <2>2. CASE UNCHANGED <<pc, arg, scripts, rootDone>>
    BY <1>2, <2>1, <2>2
  <2>3. ASSUME NEW c \in Callers, CallerStep(c) PROVE Goal
    <3>1. CASE arg[c] # s
      <4>1. scripts'[s] = scripts[s] /\ rootDone' = rootDone
        BY <2>3, <3>1, CallerFrame
      <4>2. \A d \in Callers : Stopper(d) => Stopper(d)'
        BY <2>3, <3>1, CallerFrame
      <4> QED
        BY <1>2, <2>1, <4>1, <4>2
    <3>2. CASE arg[c] = s
      <4>1. pc[c] # "stop"
        BY <1>1, <2>3, <3>2, CallerEffect
      <4>2. scripts'[s] = scripts[s] \/ scripts'[s] \in Fresh
        BY <1>1, <2>3, <3>2, CallerEffect
      <4>3. scripts'[s] \notin Fresh
        BY <1>1, <2>1 DEF Fresh, IInv, FreshInv, SourceInv
      <4>4. \A d \in Callers : Stopper(d) => Stopper(d)'
        BY <2>3, <4>1, CallerFrame
      <4>5. rootDone' = rootDone
        BY <2>3, CallerFrame
      <4> QED
        BY <1>2, <2>1, <4>2, <4>3, <4>4, <4>5
    <3> QED
      BY <3>1, <3>2
  <2> QED
    BY <1>11, <2>2, <2>3, QuietSteps
<1> QED
  BY <1>3, <1>4, <1>5, <1>6, <1>7, <1>8, <1>9, <1>10, <1>11 DEF HotNext

\* What is about to happen to a script is right whenever no change of its file is on
\* its way, and no callback has contradicted a call.
LEMMA SettleStep == IInv /\ HotIInv /\ HotNext => SettleInv'
<1> SUFFICES ASSUME IInv, HotIInv, HotNext, ~rootDone', boot' \in {"listed", "running"},
                    NEW s \in Scripts, s \notin crossed', ~Coming(s)'
             PROVE  SettlesAs(s)'
  BY DEF SettleInv
<1>1. /\ HotTypeOK /\ BootInv /\ SettleInv /\ RestartInv
      /\ TypeOK
      /\ \A c \in Callers : pc[c] # "idle" => arg[c] \in Scripts
  BY DEF HotIInv, IInv, CriticalSections
<1> USE DEF StillStarts, StillStops
<1>2. ASSUME ~rootDone, boot \in {"listed", "running"}, s \notin crossed, ~Coming(s)
      PROVE  SettlesAs(s)
  BY <1>1, <1>2 DEF SettleInv
<1>3. ASSUME NEW t \in Scripts, Save(t) \/ Delete(t) PROVE SettlesAs(s)'
  <2>1. UNCHANGED <<scripts, pc, arg, restart, rootDone, found, crossed, boot>> /\ ~Coming(s)
    BY <1>1, <1>3, ComingStep DEF Save, Delete, Change, vars, tableVars, callerVars
  <2>2. CASE t = s
    BY <1>1, <1>3, <2>1, <2>2 DEF Save, Delete, Change, Coming
  <2>3. CASE t # s
    <3>1. files'[s] = files[s]
      BY <1>1, <1>3, <2>3 DEF Save, Delete, Change, HotTypeOK
    <3> QED
      BY <1>2, <2>1, <3>1 DEF SettlesAs
  <2> QED
    BY <2>2, <2>3
<1>4. ASSUME Watch PROVE SettlesAs(s)'
  BY <1>4 DEF Watch
<1>5. ASSUME List PROVE SettlesAs(s)'
  BY <1>1, <1>5 DEF List, BootInv, SettlesAs, vars, tableVars, callerVars, RestartInv
<1>6. ASSUME RunWatcher PROVE SettlesAs(s)'
  <2>1. ~Coming(s)
    BY <1>1, <1>6, ComingStep
  <2> QED
    BY <1>2, <1>6, <2>1 DEF RunWatcher, SettlesAs, vars, tableVars, callerVars
<1>7. ASSUME NEW t \in Scripts, LoadNext(t) PROVE SettlesAs(s)'
  <2>1. ~Coming(s)
    BY <1>1, <1>7, ComingStep
  <2>2. SettlesAs(s)
    BY <1>2, <1>7, <2>1 DEF LoadNext, Call
  <2>3. /\ UNCHANGED <<files, scripts>>
        /\ found' = found \ {t}
        /\ pc[Main] = "idle"
        /\ pc' = [pc EXCEPT ![Main] = "start"]
        /\ arg' = [arg EXCEPT ![Main] = t]
        /\ restart' = [restart EXCEPT ![Main] = FALSE]
        /\ t \in found
    BY <1>7 DEF LoadNext, Call, tableVars
  <2>4. \A d \in Callers : StillStarts(d, s) => StillStarts(d, s)'
    BY <1>1, <2>3, HotReloadAssumption DEF TypeOK, RestartInv
  <2>5. \A d \in Callers : StillStops(d, s) <=> StillStops(d, s)'
    BY <1>1, <2>3, HotReloadAssumption DEF TypeOK, RestartInv
  <2>6. t # s => \A d \in Callers : StillStarts(d, s)' => StillStarts(d, s)
    BY <1>1, <2>3, HotReloadAssumption DEF TypeOK, RestartInv
  <2>7. t = s => StillStarts(Main, s)'
    BY <1>1, <2>3, HotReloadAssumption DEF TypeOK
  <2> HIDE DEF StillStarts, StillStops
  <2>8. CASE files[s] # 0
    BY <2>2, <2>3, <2>4, <2>5, <2>7, <2>8, HotReloadAssumption DEF SettlesAs
  <2>9. CASE files[s] = 0
    BY <2>2, <2>3, <2>5, <2>6, <2>9 DEF SettlesAs
  <2> QED
    BY <2>8, <2>9
<1>8. ASSUME NEW t \in Scripts, Debounce(t) \/ Fire(t) \/ FireStray(t) PROVE SettlesAs(s)'
  <2>1. ~Coming(s)
    BY <1>1, <1>8, ComingStep
  <2> QED
    BY <1>2, <1>8, <2>1 DEF Debounce, Fire, FireStray, SettlesAs, vars, tableVars, callerVars
<1>9. ASSUME NEW c \in Callers, NEW t \in Scripts, Callback(c, t) PROVE SettlesAs(s)'
  <2>1. /\ ~rootDone /\ c # Main /\ spawned[t] > 0
        /\ Call(c, t, Decision(t))
        /\ crossed' = IF Contradicts(t) THEN crossed \cup {t} ELSE crossed \ {t}
        /\ UNCHANGED <<files, boot, found>>
    BY <1>9 DEF Callback, vars
  <2>2. /\ scripts' = scripts
        /\ pc[c] = "idle" /\ restart[c] = FALSE
        /\ pc' = [pc EXCEPT ![c] = "stop"]
        /\ arg' = [arg EXCEPT ![c] = t]
        /\ restart' = [restart EXCEPT ![c] = files[t] # 0]
    BY <1>1, <2>1 DEF Call, Decision, tableVars, RestartInv, TypeOK
  <2>3. CASE t = s
    <3>1. ~Contradicts(s)
      BY <2>1, <2>3
    <3>2. found = {}
      BY <1>1, <2>1 DEF BootInv, HotTypeOK
    <3>3. CASE files[s] # 0
      <4>1. \A d \in Callers : ~StillStops(d, s)
        BY <3>1, <3>3 DEF Contradicts
      <4>2. \A d \in Callers : ~StillStops(d, s)'
        BY <1>1, <2>2, <2>3, <3>3, <4>1 DEF TypeOK
      <4>3. StillStarts(c, s)'
        BY <1>1, <2>2, <2>3, <3>3 DEF TypeOK
      <4> QED
        BY <2>1, <3>3, <4>2, <4>3 DEF SettlesAs
    <3>4. CASE files[s] = 0
      <4>1. \A d \in Callers : ~StillStarts(d, s)
        BY <3>1, <3>4 DEF Contradicts
      <4>2. \A d \in Callers : ~StillStarts(d, s)'
        BY <1>1, <2>2, <2>3, <3>4, <4>1 DEF TypeOK
      <4>3. StillStops(c, s)'
        BY <1>1, <2>2, <2>3, <3>4 DEF TypeOK
      <4> QED
        BY <2>1, <3>2, <3>4, <4>2, <4>3 DEF SettlesAs
    <3> QED
      BY <3>3, <3>4
  <2>4. CASE t # s
    <3>1. ~Coming(s)
      BY <1>1, <1>9, <2>4, ComingStep
    <3>2. SettlesAs(s)
      BY <1>2, <2>1, <2>4, <3>1
    <3>3. \A d \in Callers : /\ StillStarts(d, s)' <=> StillStarts(d, s)
                             /\ StillStops(d, s)' <=> StillStops(d, s)
      BY <1>1, <2>2, <2>4 DEF TypeOK
    <3> QED
      BY <2>1, <2>2, <3>2, <3>3 DEF SettlesAs
  <2> QED
    BY <2>3, <2>4
<1>10. ASSUME NEW h \in Handles, ReadFile(h) \/ Loaded(h) \/ Forgotten(h) PROVE SettlesAs(s)'
  <2>1. ~Coming(s)
    BY <1>1, <1>10, ComingStep
  <2> QED
    BY <1>2, <1>10, <2>1 DEF ReadFile, Loaded, LoadDone, Forgotten, Forget, SettlesAs, vars,
       tableVars, callerVars, watchVars
<1>11. ASSUME SupervisorStep PROVE SettlesAs(s)'
  <2>1. ~Coming(s) /\ UNCHANGED <<files, boot, found, crossed>>
    BY <1>1, <1>11, ComingStep DEF SupervisorStep, watchVars
  <2>2. CASE UNCHANGED <<pc, arg, restart, scripts, rootDone>>
    BY <1>2, <2>1, <2>2 DEF SettlesAs
  <2>3. ASSUME NEW c \in Callers, CallerStep(c) PROVE SettlesAs(s)'
    <3>1. SettlesAs(s)
      BY <1>2, <2>1, <2>3, CallerFrame
    <3>2. \A d \in Callers \ {c} : /\ StillStarts(d, s)' <=> StillStarts(d, s)
                                   /\ StillStops(d, s)' <=> StillStops(d, s)
      BY <2>3, CallerFrame
    <3>3. CASE arg[c] # s
      <4>1. scripts'[s] = scripts[s]
        BY <2>3, <3>3, CallerFrame
      <4>2. /\ ~StillStarts(c, s) /\ ~StillStops(c, s)
            /\ ~StillStarts(c, s)' /\ ~StillStops(c, s)'
        BY <2>3, <3>3, CallerFrame, SupervisorAssumption
      <4> HIDE DEF StillStarts, StillStops
      <4> QED
        BY <2>1, <3>1, <3>2, <4>1, <4>2 DEF SettlesAs
    <3>4. CASE arg[c] = s
      <4>1. /\ scripts'[s] # scripts[s] =>
                 \/ (StillStops(c, s) \/ StillStarts(c, s)) /\ scripts'[s] = None
                 \/ StillStarts(c, s) /\ scripts'[s] \in Fresh
            /\ StillStarts(c, s) => StillStarts(c, s)' \/ scripts'[s] # None
            /\ StillStarts(c, s)' => StillStarts(c, s)
            /\ StillStops(c, s) => scripts'[s] = None
            /\ ~StillStops(c, s)'
        <5>1. pc[c] = "stop" => StillStops(c, s) \/ StillStarts(c, s)
          BY <3>4
        <5> HIDE DEF StillStarts, StillStops
        <5>2. /\ scripts'[s] # scripts[s] =>
                   \/ pc[c] = "stop" /\ scripts'[s] = None
                   \/ StillStarts(c, s) /\ scripts'[s] \in Fresh
              /\ StillStarts(c, s) => StillStarts(c, s)' \/ scripts'[s] # None
              /\ StillStarts(c, s)' => StillStarts(c, s)
              /\ StillStops(c, s) => scripts'[s] = None
              /\ ~StillStops(c, s)'
          BY <1>1, <2>3, <3>4, CallerEffect
        <5> QED
          BY <5>1, <5>2
      <4> HIDE DEF StillStarts, StillStops
      <4>2. CASE files[s] # 0
        BY <2>1, <3>1, <3>2, <4>1, <4>2 DEF SettlesAs
      <4>3. CASE files[s] = 0
        BY <2>1, <3>1, <3>2, <4>1, <4>3 DEF SettlesAs
      <4> QED
        BY <4>2, <4>3
    <3> QED
      BY <3>3, <3>4
  <2> QED
    BY <1>11, <2>2, <2>3, QuietSteps
<1> QED
  BY <1>3, <1>4, <1>5, <1>6, <1>7, <1>8, <1>9, <1>10, <1>11 DEF HotNext

\* Every step of hot reload keeps both invariants.
LEMMA HotInductiveStep == IInv /\ HotIInv /\ [HotNext]_allVars => HotIInv'
<1>1. CASE HotNext
  BY <1>1, HotTypeStep, BootStep, RestartStep, SourceStep, StaleStep, SettleStep DEF HotIInv
<1>2. CASE UNCHANGED allVars
  BY <1>2 DEF allVars, vars, watchVars, callerVars, tableVars, handleVars, HotIInv, HotTypeOK,
     BootInv, RestartInv, SourceInv, StaleInv, SettleInv, Coming, SettlesAs, StillStarts,
     StillStops
<1> QED
  BY <1>1, <1>2

\* The invariants of the supervisor and of hot reload always hold.
THEOREM HotInvariant == HotSpec => [](IInv /\ HotIInv)
<1>1. HotSpec => []IInv
  BY HotIsSupervisor, Invariant, PTL
<1> QED
  BY <1>1, HotInitInv, HotInductiveStep, PTL DEF HotSpec

\* Once things are quiet no generation that runs is older than its file.
THEOREM ReloadsAreFresh == HotSpec => []NoStaleCode
<1>1. HotIInv => NoStaleCode
  <2> SUFFICES ASSUME HotIInv, Quiet, NEW s \in Scripts, scripts[s] # None
               PROVE  source[scripts[s]] \in {Unread, files[s]}
    BY DEF NoStaleCode
  <2> QED
    BY DEF HotIInv, StaleInv, HotTypeOK, Quiet, Coming
<1> QED
  BY <1>1, HotInvariant, PTL

\* Once things are quiet a script is tracked exactly when its file exists, unless its
\* last callback contradicted a call (watcher.go:83, :99).
THEOREM FilesAreSettled == HotSpec => []SettledUnlessCrossed
<1>1. HotIInv => SettledUnlessCrossed
  <2> SUFFICES ASSUME HotIInv, Quiet, NEW s \in Scripts, s \notin crossed
               PROVE  files[s] # 0 <=> scripts[s] # None
    BY DEF SettledUnlessCrossed
  <2>1. SettlesAs(s) /\ found = {}
    BY DEF HotIInv, SettleInv, BootInv, HotTypeOK, Quiet, Coming
  <2>2. \A c \in Callers : ~StillStarts(c, s) /\ ~StillStops(c, s)
    BY DEF HotIInv, RestartInv, Quiet, StillStarts, StillStops
  <2> QED
    BY <2>1, <2>2 DEF SettlesAs
<1> QED
  BY <1>1, HotInvariant, PTL

=============================================================================
