------------------------ MODULE MonitorManagerProofs ------------------------
(***************************************************************************)
(* Theorems about the monitor beside the service manager: the monitor      *)
(* changes nothing the manager promises, and what it records is justified. *)
(***************************************************************************)
EXTENDS MonitorManager, ServiceManagerProofs

\* Every step of the composition is a step of the manager or leaves it alone.
LEMMA MonitorNextStep == [MonitorNext]_allVars => [Next]_vars
  BY DEF MonitorNext, ManagerStep, allVars

\* The manager with a monitor beside it is the manager: all that is proved of
\* it holds for the composition.
THEOREM MonitorHarmless == MonitorSpec => Spec
  BY MonitorNextStep, PTL DEF MonitorSpec, Spec

-----------------------------------------------------------------------------

\* A service that stays RUNNING over a step keeps its process, and a process
\* once reaped is never anything else.
LEMMA StillRunning ==
    ASSUME ChildInv, [Next]_vars
    PROVE  /\ \A s \in Services :
                 state[s] = "RUNNING" /\ state'[s] = "RUNNING" => pid'[s] = pid[s]
           /\ \A p \in Pids : proc[p] = "reaped" => proc'[p] = "reaped"
  <1>0. Typed /\ TypeOK /\ Inside /\ Transient
    BY DEF ChildInv, Typed
  <1>1. CASE UNCHANGED vars
    BY <1>1 DEF vars, procVars
  <1>2. ASSUME NEW t \in Threads, ClientCall(t) \/ Enter(t) PROVE UNCHANGED <<pid, proc>>
    BY <1>2 DEF ClientCall, StartGroup, StopGroup, StopAll, Restart, Submit, Enter, procVars
  <1>3. ASSUME NEW p \in Pids, Kernel(p)
        PROVE  /\ UNCHANGED pid
               /\ \A q \in Pids : proc[q] = "reaped" => proc'[q] = "reaped"
    BY <1>0, <1>3 DEF Kernel, Exit, SpawnMember, MemberExit, TypeOK
  <1>4. ASSUME NEW t \in Threads, Critical(t)
        PROVE  /\ \A s \in Services : pid'[s] # pid[s] => state[s] # "RUNNING"
               /\ \A q \in Pids : proc[q] = "reaped" => proc'[q] = "reaped"
    <2>1. CASE DoStart(t) \/ DoStop(t) \/ BeginStart(t) \/ SpawnFails(t) \/ BeginStop(t)
      BY <2>1 DEF DoStart, DoStop, VisitDependency, VisitDependent, BeginStart, SpawnFails,
         BeginStop, procVars
    <2>2. CASE Spawn(t)
      <3>1. PICK p \in Pids :
               /\ at[t] = "fork"
               /\ Fork(p, Top(t).svc)
               /\ pid' = [pid EXCEPT ![Top(t).svc] = p]
        BY <2>2 DEF Spawn
      <3>2. state[Top(t).svc] = "STARTING"
        BY <1>0, <3>1 DEF Transient
      <3>3. QED
        BY <1>0, <3>1, <3>2 DEF Fork, TypeOK
    <2>3. CASE RunStopScript(t) \/ AwaitStopScript(t)
      BY <1>0, <2>3 DEF RunStopScript, AwaitStopScript, Fork, TypeOK
    <2>4. CASE ReapStopped(t) \/ KillGroup(t)
      <3>1. at[t] = "term" /\ pid' = [pid EXCEPT ![Top(t).svc] = NoPid]
        BY <2>4 DEF ReapStopped, KillGroup, EndStop
      <3>2. state[Top(t).svc] = "STOPPING"
        BY <1>0, <3>1 DEF Transient, Stopping
      <3>3. \A q \in Pids : proc[q] = "reaped" => proc'[q] = "reaped"
        BY <1>0, <2>4 DEF ReapStopped, KillGroup, Reaped, TypeOK
      <3>4. QED
        BY <1>0, <3>1, <3>2, <3>3 DEF TypeOK
    <2>5. QED
      BY <1>4, <2>1, <2>2, <2>3, <2>4 DEF Critical
  <1>5. QED
    BY <1>1, <1>2, <1>3, <1>4 DEF Next

-----------------------------------------------------------------------------

\* A status half taken is still true of its service, unless a stop came between.
ViewFits ==
    /\ phase \in {"pid", "kill"} => view.svc \notin todo
    /\ phase \in {"pid", "kill"} /\ view.wasRunning /\ view.svc \notin touched =>
          /\ state[view.svc] = "RUNNING"
          /\ phase = "kill" => pid[view.svc] = view.pid

\* Only services whose state this pass has read are suspected.
SuspectsRead == suspects \subseteq Read

MonitorInv ==
    /\ ChildInv
    /\ MonitorTypeOK
    /\ ViewFits
    /\ SuspectsRead
    /\ SuspicionsJustified

LEMMA MonitorInvInit == Init /\ MonitorInit => MonitorInv
  <1> SUFFICES ASSUME Init, MonitorInit PROVE MonitorInv
    OBVIOUS
  <1>1. ChildInv
    BY ChildInit
  <1>2. QED
    BY <1>1 DEF MonitorInit, MonitorInv, MonitorTypeOK, ViewFits, SuspectsRead,
       SuspicionsJustified, Phases, View

\* What the monitor believes survives whatever the manager does meanwhile.
LEMMA ManagerKeeps == MonitorInv /\ ManagerStep => MonitorInv'
  <1> SUFFICES ASSUME MonitorInv, ManagerStep PROVE MonitorInv'
    OBVIOUS
  <1>1. /\ ChildInv /\ ChildInv'
        /\ UNCHANGED monitorVars
        /\ [Next]_vars
        /\ MonitorTypeOK /\ ViewFits /\ SuspectsRead /\ SuspicionsJustified
    BY ChildStep DEF MonitorInv, ManagerStep
  <1>2. touched' = touched \cup {s \in Read : state[s] = "RUNNING" /\ state'[s] # "RUNNING"}
    BY DEF ManagerStep
  <1>3. /\ \A s \in Services :
              state[s] = "RUNNING" /\ state'[s] = "RUNNING" => pid'[s] = pid[s]
        /\ \A p \in Pids : proc[p] = "reaped" => proc'[p] = "reaped"
    BY <1>1, StillRunning
  <1>4. Read \subseteq Services /\ Read' = Read
    BY <1>1 DEF Read, monitorVars
  <1>5. MonitorTypeOK'
    BY <1>1, <1>2, <1>4 DEF MonitorTypeOK, monitorVars
  <1>6. ViewFits'
    <2>1. phase \in {"pid", "kill"} => view.svc \in Read
      BY <1>1 DEF ViewFits, Read, MonitorTypeOK, View
    <2>2. view.svc \in Services
      BY <1>1 DEF MonitorTypeOK, View
    <2>3. UNCHANGED <<phase, todo, view>>
      BY <1>1 DEF monitorVars
    <2>4. QED
      BY <1>1, <1>2, <1>3, <2>1, <2>2, <2>3 DEF ViewFits
  <1>7. SuspectsRead'
    BY <1>1, <1>4 DEF SuspectsRead, monitorVars
  <1>8. SuspicionsJustified'
    <2> SUFFICES ASSUME NEW s \in suspects, s \notin touched'
                 PROVE  state'[s] = "RUNNING" /\ proc'[pid'[s]] = "reaped"
      BY <1>1 DEF SuspicionsJustified, monitorVars
    <2>1. s \in Read /\ s \in Services
      BY <1>1, <1>4 DEF SuspectsRead
    <2>2. state[s] = "RUNNING" /\ proc[pid[s]] = "reaped"
      BY <1>1, <1>2 DEF SuspicionsJustified
    <2>3. pid[s] \in Pids
      BY <1>1, <2>1, <2>2 DEF ChildInv, PidFits, Typed, TypeOK
    <2>4. QED
      BY <1>2, <1>3, <2>1, <2>2, <2>3
  <1>9. QED
    BY <1>1, <1>5, <1>6, <1>7, <1>8 DEF MonitorInv

\* The monitor's own steps.
LEMMA MonitorKeeps ==
    MonitorInv /\ (StartMonitor \/ StopMonitor \/ MonitorStep) /\ UNCHANGED vars => MonitorInv'
  <1> SUFFICES ASSUME MonitorInv, StartMonitor \/ StopMonitor \/ MonitorStep, UNCHANGED vars
               PROVE  MonitorInv'
    OBVIOUS
  <1>1. /\ ChildInv /\ ChildInv'
        /\ UNCHANGED <<state, pid, proc>>
        /\ MonitorTypeOK /\ ViewFits /\ SuspectsRead /\ SuspicionsJustified
    BY ChildStep DEF MonitorInv, vars, procVars
  <1>2. CASE StartMonitor \/ StopMonitor \/ Leave \/ BeginPass
    <2>1. MonitorTypeOK'
      BY <1>1, <1>2 DEF StartMonitor, StopMonitor, Leave, BeginPass, MonitorTypeOK, Phases
    <2>2. ViewFits'
      BY <1>1, <1>2 DEF StartMonitor, StopMonitor, Leave, BeginPass, ViewFits
    <2>3. SuspectsRead'
      BY <1>1, <1>2 DEF StartMonitor, StopMonitor, Leave, BeginPass, SuspectsRead, Read
    <2>4. SuspicionsJustified'
      BY <1>1, <1>2 DEF StartMonitor, StopMonitor, Leave, BeginPass, SuspicionsJustified
    <2>5. QED
      BY <1>1, <2>1, <2>2, <2>3, <2>4 DEF MonitorInv
  <1>3. CASE ReadState
    <2>1. PICK s \in todo :
             /\ phase = "snap"
             /\ todo' = todo \ {s}
             /\ view' = [view EXCEPT !.svc = s, !.wasRunning = (state[s] = "RUNNING")]
             /\ phase' = "pid"
             /\ UNCHANGED <<running, suspects, failures, touched>>
      BY <1>3 DEF ReadState
    <2>2. s \in Services /\ view'.svc = s /\ view' \in View
          /\ (view'.wasRunning => state[s] = "RUNNING")
      BY <1>1, <2>1 DEF MonitorTypeOK, View
    <2>3. MonitorTypeOK'
      BY <1>1, <2>1, <2>2 DEF MonitorTypeOK, Phases
    <2>4. ViewFits'
      BY <1>1, <2>1, <2>2 DEF ViewFits
    <2>5. SuspectsRead' /\ SuspicionsJustified'
      BY <1>1, <2>1 DEF SuspectsRead, Read, SuspicionsJustified
    <2>6. QED
      BY <1>1, <2>3, <2>4, <2>5 DEF MonitorInv
  <1>4. CASE ReadPid
    <2>1. /\ phase = "pid"
          /\ view' = [view EXCEPT !.pid = pid[view.svc]]
          /\ phase' = "kill"
          /\ UNCHANGED <<running, todo, suspects, failures, touched>>
      BY <1>4 DEF ReadPid
    <2>2. pid[view.svc] \in Pids \cup {NoPid}
      BY <1>1 DEF MonitorTypeOK, View, ChildInv, Typed, TypeOK
    <2>3. /\ view'.svc = view.svc
          /\ view'.wasRunning = view.wasRunning
          /\ view'.pid = pid[view.svc]
          /\ view' \in View
      BY <1>1, <2>1, <2>2 DEF MonitorTypeOK, View
    <2>4. MonitorTypeOK'
      BY <1>1, <2>1, <2>3 DEF MonitorTypeOK, Phases
    <2>5. ViewFits'
      BY <1>1, <2>1, <2>3 DEF ViewFits
    <2>6. SuspectsRead' /\ SuspicionsJustified'
      BY <1>1, <2>1 DEF SuspectsRead, Read, SuspicionsJustified
    <2>7. QED
      BY <1>1, <2>4, <2>5, <2>6 DEF MonitorInv
  <1>5. CASE Probe
    <2>1. /\ phase = "kill"
          /\ suspects' = IF view.wasRunning /\ ~Answers(view.pid)
                         THEN suspects \cup {view.svc} ELSE suspects
          /\ view' = [view EXCEPT !.wasRunning = FALSE, !.pid = NoPid]
          /\ phase' = "snap"
          /\ UNCHANGED <<running, todo, failures, touched>>
      BY <1>5 DEF Probe
    <2>2. view.svc \in Services /\ view' \in View
      BY <1>1, <2>1 DEF MonitorTypeOK, View
    <2>3. MonitorTypeOK'
      BY <1>1, <2>1, <2>2 DEF MonitorTypeOK, Phases
    <2>4. ViewFits'
      BY <2>1 DEF ViewFits
    <2>5. SuspectsRead'
      BY <1>1, <2>1, <2>2 DEF SuspectsRead, Read, ViewFits
    <2>6. SuspicionsJustified'
      <3> SUFFICES ASSUME view.wasRunning, ~Answers(view.pid), view.svc \notin touched
                   PROVE  state[view.svc] = "RUNNING" /\ proc[pid[view.svc]] = "reaped"
        BY <1>1, <2>1 DEF SuspicionsJustified
      <3>1. state[view.svc] = "RUNNING" /\ pid[view.svc] = view.pid
        BY <1>1, <2>1 DEF ViewFits
      <3>2. view.pid # NoPid /\ view.pid \in Pids /\ proc[view.pid] # "unused"
        BY <1>1, <2>2, <3>1 DEF ChildInv, PidFits, Typed, TypeOK
      <3>3. proc[view.pid] = "reaped"
        BY <1>1, <3>2 DEF Answers, ChildInv, Typed, TypeOK
      <3>4. QED
        BY <3>1, <3>3
    <2>7. QED
      BY <1>1, <2>3, <2>4, <2>5, <2>6 DEF MonitorInv
  <1>6. CASE Record
    BY <1>1, <1>6 DEF Record, MonitorInv, MonitorTypeOK, Phases, ViewFits, SuspectsRead,
       SuspicionsJustified
  <1>7. QED
    BY <1>2, <1>3, <1>4, <1>5, <1>6 DEF MonitorStep

LEMMA MonitorInvStep == MonitorInv /\ [MonitorNext]_allVars => MonitorInv'
  <1> SUFFICES ASSUME MonitorInv, [MonitorNext]_allVars PROVE MonitorInv'
    OBVIOUS
  <1>1. CASE UNCHANGED allVars
    <2>1. ChildInv'
      BY <1>1, ChildStep DEF allVars, MonitorInv
    <2>2. UNCHANGED <<state, pid, proc, running, phase, todo, view, suspects, failures, touched>>
      BY <1>1 DEF allVars, vars, procVars, monitorVars
    <2>3. QED
      BY <2>1, <2>2 DEF MonitorInv, MonitorTypeOK, ViewFits, SuspectsRead, Read,
         SuspicionsJustified
  <1>2. QED
    BY <1>1, ManagerKeeps, MonitorKeeps DEF MonitorNext

\* The monitor's types.
THEOREM MonitorTypeCorrect == MonitorSpec => []MonitorTypeOK
  <1>1. MonitorSpec => []MonitorInv
    BY MonitorInvInit, MonitorInvStep, PTL DEF MonitorSpec
  <1>2. QED
    BY <1>1, PTL DEF MonitorInv

\* Whatever the unlocked snapshot interleaves with, the monitor suspects only
\* services that are RUNNING on a reaped process or that were being stopped or
\* restarted while it looked.
THEOREM MonitorJustified == MonitorSpec => []SuspicionsJustified
  <1>1. MonitorSpec => []MonitorInv
    BY MonitorInvInit, MonitorInvStep, PTL DEF MonitorSpec
  <1>2. QED
    BY <1>1, PTL DEF MonitorInv

=============================================================================
