------------------------- MODULE ModeManagerProofs --------------------------
(***************************************************************************)
(* Theorems about the mode manager on top of the service manager.  A       *)
(* switch stops and starts any set of services, so the theorems take every *)
(* set of services for a group that clients may pass.                      *)
(***************************************************************************)
EXTENDS ModeManager, ServiceManagerProofs

AnyGroup == Groups = SUBSET Services

LEMMA ModeSets ==
    ASSUME NEW m \in Modes
    PROVE  Up(m) \subseteq Services /\ Down(m) \subseteq Services /\ Up(m) \cap Down(m) = {}
  BY DEF Up, Down, Managed

\* The calls of a switch are those of a client with a group.
LEMMA SwitchCalls ==
    ASSUME AnyGroup, ModeTypeOK, NEW t \in Threads, SwitchTo(t)
    PROVE  UNCHANGED vars \/ ClientCall(t)
  <1>1. toStop[t] \in Groups /\ toStart[t] \in Groups
    BY DEF AnyGroup, ModeTypeOK
  <1>2. CASE CallStop(t)
    BY <1>1, <1>2 DEF CallStop, ClientCall, StopGroup
  <1>3. CASE CallStart(t)
    BY <1>1, <1>3 DEF CallStart, ClientCall, StartGroup
  <1>4. QED
    BY <1>2, <1>3 DEF SwitchTo, BeginSwitch, LookForStop, TurnToStart, LookForStart, EndSwitch

LEMMA ModeNextStep ==
    ASSUME AnyGroup, ModeTypeOK, [ModeNext]_modeVars
    PROVE  [Next]_vars
  <1>1. CASE ManagerStep
    BY <1>1 DEF ManagerStep, Next
  <1>2. ASSUME NEW t \in Threads, SwitchTo(t) PROVE [Next]_vars
    BY <1>2, SwitchCalls DEF Next
  <1>3. CASE UNCHANGED modeVars
    BY <1>3 DEF modeVars
  <1>4. QED
    BY <1>1, <1>2, <1>3 DEF ModeNext

-----------------------------------------------------------------------------

LEMMA ModeTypeInit == Init /\ ModeInit => ModeTypeOK
  BY DEF ModeInit, ModeTypeOK, Phases

LEMMA ModeTypeStep == ModeTypeOK /\ [ModeNext]_modeVars => ModeTypeOK'
  <1> SUFFICES ASSUME ModeTypeOK, [ModeNext]_modeVars PROVE ModeTypeOK'
    OBVIOUS
  <1>1. CASE ManagerStep
    BY <1>1 DEF ManagerStep, switchVars, ModeTypeOK
  <1>2. ASSUME NEW t \in Threads, BeginSwitch(t) PROVE ModeTypeOK'
    BY <1>2, ModeSets DEF BeginSwitch, ModeTypeOK, Phases
  <1>3. ASSUME NEW t \in Threads, LookForStop(t) PROVE ModeTypeOK'
    BY <1>3 DEF LookForStop, ModeTypeOK
  <1>4. ASSUME NEW t \in Threads, TurnToStart(t) PROVE ModeTypeOK'
    <2>1. mode[t] \in Modes
      BY <1>4 DEF TurnToStart, ModeTypeOK
    <2>2. QED
      BY <1>4, <2>1, ModeSets DEF TurnToStart, ModeTypeOK, Phases
  <1>5. ASSUME NEW t \in Threads, LookForStart(t) PROVE ModeTypeOK'
    BY <1>5 DEF LookForStart, ModeTypeOK
  <1>6. ASSUME NEW t \in Threads, CallStop(t) \/ CallStart(t) PROVE ModeTypeOK'
    BY <1>6 DEF CallStop, CallStart, ModeTypeOK, Phases
  <1>7. ASSUME NEW t \in Threads, EndSwitch(t) PROVE ModeTypeOK'
    BY <1>7 DEF EndSwitch, ModeTypeOK, Phases
  <1>8. CASE UNCHANGED modeVars
    BY <1>8 DEF modeVars, switchVars, ModeTypeOK
  <1>9. QED
    BY <1>1, <1>2, <1>3, <1>4, <1>5, <1>6, <1>7, <1>8 DEF ModeNext, SwitchTo

\* The mode manager's variables have their types.
THEOREM ModeTypeCorrect == ModeSpec => []ModeTypeOK
  BY ModeTypeInit, ModeTypeStep, PTL DEF ModeSpec

\* With mode switches among its clients the service manager is still the
\* service manager: all that is proved of it holds for the composition.
THEOREM ModeHarmless == ASSUME AnyGroup PROVE ModeSpec => Spec
  <1>1. ModeTypeOK /\ [ModeNext]_modeVars => [Next]_vars
    BY ModeNextStep
  <1>2. QED
    BY <1>1, ModeTypeCorrect, PTL DEF ModeSpec, Spec

-----------------------------------------------------------------------------
(***************************************************************************)
(* A switch to a closed mode touches nothing it should not.                *)
(***************************************************************************)

\* A call of op for a service in the set; do_start goes through depends().
Within(frame, op, set) ==
    /\ frame.op = op
    /\ frame.svc \in set
    /\ op = "start" => frame.todo \subseteq Deps[frame.svc]

\* Thread t makes only calls of op, for services in the set alone.
CallsWithin(t, op, set) ==
    /\ job[t].op = op
    /\ job[t].left \subseteq set
    /\ \A i \in 1 .. Len(stack[t]) : Within(stack[t][i], op, set)

\* The set holds with a service what do_start or do_stop goes on to from there.
Covers(op, set) ==
    /\ op = "start" => \A s \in set : Registered(s) \subseteq set
    /\ op = "stop" => \A o \in Services : Deps[o] \cap set # {} => o \in set

LEMMA ClosedCovers ==
    ASSUME NEW m \in Modes, Closed(m)
    PROVE  Covers("stop", Down(m)) /\ Covers("start", Services \ Down(m))
  BY DEF Closed, Covers, Registered

\* A call that goes on inside the service manager touches no other thread's calls.
LEMMA OthersUntouched ==
    ASSUME TypeOK, NEW u \in Threads, Critical(u), NEW t \in Threads, t # u
    PROVE  stack'[t] = stack[t] /\ job' = job
  <1>1. CASE DoStart(u) \/ DoStop(u)
    <2>1. job' = job /\ \E frames : stack' = [stack EXCEPT ![u] = frames]
      BY <1>1 DEF DoStart, DoStop, VisitDependency, VisitDependent
    <2>2. QED
      BY <2>1 DEF TypeOK
  <1>2. CASE BeginStart(u) \/ Spawn(u) \/ SpawnFails(u)
    <2>1. job' = job /\ (stack' = stack \/ \E frames : stack' = [stack EXCEPT ![u] = frames])
      BY <1>2 DEF BeginStart, Spawn, SpawnFails, Return, Unwind
    <2>2. QED
      BY <2>1 DEF TypeOK
  <1>3. CASE BeginStop(u) \/ RunStopScript(u) \/ AwaitStopScript(u) \/ ReapStopped(u) \/ KillGroup(u)
    <2>1. job' = job /\ (stack' = stack \/ \E frames : stack' = [stack EXCEPT ![u] = frames])
      BY <1>3 DEF BeginStop, RunStopScript, AwaitStopScript, ReapStopped, KillGroup, EndStop,
         AfterStop, Return
    <2>2. QED
      BY <2>1 DEF TypeOK
  <1>4. QED
    BY <1>1, <1>2, <1>3 DEF Critical

\* What a loop pushes, drops or returns from stays within the set.
LEMMA CriticalWithin ==
    ASSUME Typed, NEW t \in Threads, Critical(t), NEW op \in {"start", "stop"},
           NEW set, set \subseteq Services, Covers(op, set), CallsWithin(t, op, set)
    PROVE  CallsWithin(t, op, set)'
  <1> DEFINE L == Len(stack[t])
             Fits(seq) == \A i \in 1 .. Len(seq) : Within(seq[i], op, set)
  <1>1. stack[t] # <<>>
    BY DEF Critical, DoStart, DoStop, BeginStart, BeginStop, Spawn, SpawnFails,
       RunStopScript, AwaitStopScript, ReapStopped, KillGroup, EndStop, Walking, Typed, Inside
  <1>2. /\ TypeOK /\ stack[t] \in Seq(Frame) /\ L \in Nat \ {0} /\ L \in 1 .. L
        /\ Within(Top(t), op, set) /\ Top(t).op = op /\ Top(t).svc \in set
        /\ Fits(stack[t]) /\ stack \in [Threads -> Seq(Frame)]
    BY <1>1, TopType DEF Typed, TypeOK, Top, CallsWithin, Within
  <1>3. job' = job
    BY DEF Critical, DoStart, DoStop, VisitDependency, VisitDependent, BeginStart, BeginStop,
       Spawn, SpawnFails, RunStopScript, AwaitStopScript, ReapStopped, KillGroup, EndStop
  <1>4. ASSUME Fits(stack'[t]) PROVE CallsWithin(t, op, set)'
    BY <1>3, <1>4 DEF CallsWithin
  <1>5. ASSUME NEW n \in Names PROVE Len(Visited(t, n)) = L /\ Fits(Visited(t, n))
    <2>1. Len(Visited(t, n)) = L
      BY <1>1, <1>2, VisitedType
    <2>2. ASSUME NEW i \in 1 .. L PROVE Within(Visited(t, n)[i], op, set)
      <3>1. /\ Visited(t, n)[i].op = stack[t][i].op
            /\ Visited(t, n)[i].svc = stack[t][i].svc
            /\ Visited(t, n)[i].todo =
                  IF i = L THEN Top(t).todo \ {n} ELSE stack[t][i].todo
        BY <1>1, <1>2, VisitedType
      <3>2. Within(stack[t][i], op, set) /\ (i = L => stack[t][i] = Top(t))
        BY <1>2 DEF Top
      <3> HIDE DEF L
      <3>3. QED
        BY <3>1, <3>2 DEF Within
    <2> HIDE DEF L
    <2>3. QED
      BY <2>1, <2>2
  <1>5a. ASSUME NEW n \in Names, stack' = [stack EXCEPT ![t] = Visited(t, n)]
         PROVE  Fits(stack'[t])
    <2>1. stack'[t] = Visited(t, n)
      BY <1>2, <1>5a
    <2>2. QED
      BY <1>5, <2>1
  <1>6. ASSUME NEW n \in set, op \in Ops,
               stack' = [stack EXCEPT ![t] = Append(Visited(t, n), Call(op, n))]
        PROVE  Fits(stack'[t])
    <2>1. n \in Services /\ n \in Names
      BY ConfigAssumption
    <2>2. Call(op, n) \in Frame /\ Within(Call(op, n), op, set)
      BY <1>6, <2>1, CallType DEF Within, Call
    <2>3. /\ Visited(t, n) \in Seq(Frame) /\ Len(Visited(t, n)) = L
          /\ Fits(Visited(t, n))
      BY <1>1, <1>2, <1>5, <2>1, VisitedType
    <2>4. stack'[t] = Append(Visited(t, n), Call(op, n))
      BY <1>2, <1>6
    <2>5. Len(stack'[t]) = L + 1
      BY <2>2, <2>3, <2>4
    <2>6. \A i \in 1 .. L + 1 :
             stack'[t][i] = IF i = L + 1 THEN Call(op, n) ELSE Visited(t, n)[i]
      <3> HIDE DEF L
      <3>1. QED
        BY <1>2, <2>2, <2>3, <2>4
    <2>7. QED
      BY <1>2, <2>2, <2>3, <2>5, <2>6
  <1>7. CASE DoStart(t)
    <2>1. PICK d \in Top(t).todo :
             stack' = [stack EXCEPT ![t] =
                         IF d \in Services /\ state[d] # "RUNNING"
                         THEN Append(Visited(t, d), Call("start", d))
                         ELSE Visited(t, d)]
      BY <1>7 DEF DoStart, VisitDependency
    <2>2. op = "start" /\ d \in Names
      BY <1>1, <1>2, <1>7, TopType DEF DoStart, Walking
    <2>3. CASE d \in Services /\ state[d] # "RUNNING"
      <3>1. d \in Deps[Top(t).svc]
        BY <1>2, <2>2 DEF Within
      <3>2. d \in set
        BY <1>2, <2>2, <2>3, <3>1 DEF Covers, Registered
      <3>3. QED
        BY <1>4, <1>6, <2>1, <2>2, <2>3, <3>2 DEF Ops
    <2>4. CASE ~(d \in Services /\ state[d] # "RUNNING")
      BY <1>4, <1>5a, <2>1, <2>2, <2>4
    <2>5. QED
      BY <2>3, <2>4
  <1>8. CASE DoStop(t)
    <2>1. PICK o \in Top(t).todo :
             stack' = [stack EXCEPT ![t] =
                         IF state[o] = "RUNNING" /\ Top(t).svc \in Deps[o]
                         THEN Append(Visited(t, o), Call("stop", o))
                         ELSE Visited(t, o)]
      BY <1>8 DEF DoStop, VisitDependent
    <2>2. op = "stop" /\ o \in Services /\ o \in Names
      BY <1>1, <1>2, <1>8, TopType, ConfigAssumption DEF DoStop, Walking, Frame
    <2>3. CASE state[o] = "RUNNING" /\ Top(t).svc \in Deps[o]
      <3>1. o \in set
        BY <1>2, <2>2, <2>3 DEF Covers
      <3>2. QED
        BY <1>4, <1>6, <2>1, <2>2, <2>3, <3>1 DEF Ops
    <2>4. CASE ~(state[o] = "RUNNING" /\ Top(t).svc \in Deps[o])
      BY <1>4, <1>5a, <2>1, <2>2, <2>4
    <2>5. QED
      BY <2>3, <2>4
  <1>9. CASE Return(t)
    <2> DEFINE rest == SubSeq(stack[t], 1, Len(stack[t]) - 1)
    <2>1. stack'[t] = rest
      BY <1>2, <1>9 DEF Return
    <2>2. Len(rest) = L - 1 /\ \A i \in 1 .. L - 1 : rest[i] = stack[t][i]
      BY <1>1, <1>2, PopType
    <2>3. Fits(rest)
      <3> HIDE DEF rest, L
      <3>1. \A i \in 1 .. L - 1 : i \in 1 .. L
        BY <1>2
      <3>2. QED
        BY <1>2, <2>2, <3>1 DEF L
    <2>4. QED
      BY <1>4, <2>1, <2>3
  <1>10. CASE Unwind(t)
    <2>1. stack'[t] = <<>> /\ 1 .. Len(<<>>) = {}
      BY <1>2, <1>10 DEF Unwind
    <2>2. QED
      BY <1>4, <2>1
  <1>11. CASE stack' = stack
    BY <1>2, <1>4, <1>11
  <1>12. QED
    BY <1>7, <1>8, <1>9, <1>10, <1>11
       DEF Critical, BeginStart, BeginStop, Spawn, SpawnFails, RunStopScript, AwaitStopScript,
           ReapStopped, KillGroup, EndStop, AfterStop

\* The service manager's part of a step, for a thread that makes no new call.
LEMMA ManagerWithin ==
    ASSUME Typed, NEW t \in Threads, NEW op \in {"start", "stop"},
           NEW set, set \subseteq Services, Covers(op, set), CallsWithin(t, op, set),
           NEW u \in Threads, (ClientCall(u) /\ u # t) \/ Enter(u) \/ Critical(u)
    PROVE  CallsWithin(t, op, set)'
  <1>1. CASE ClientCall(u) /\ u # t
    <2>1. stack'[t] = stack[t] /\ job'[t] = job[t]
      BY <1>1 DEF ClientCall, StartGroup, StopGroup, StopAll, Restart, Submit, Typed, TypeOK
    <2>2. QED
      BY <2>1 DEF CallsWithin
  <1>2. CASE Enter(u) /\ u # t
    <2>1. stack'[t] = stack[t] /\ job'[t].op = job[t].op /\ job'[t].left = job[t].left
      BY <1>2 DEF Enter, Typed, TypeOK
    <2>2. QED
      BY <2>1 DEF CallsWithin
  <1>3. CASE Enter(u) /\ u = t
    <2>1. PICK s \in job[t].left :
             /\ stack' = [stack EXCEPT ![t] = <<Call(job[t].op, s)>>]
             /\ job' = [job EXCEPT ![t].left = @ \ {s}]
      BY <1>3 DEF Enter
    <2>2. s \in set /\ s \in Services /\ job[t].op = op
      BY DEF CallsWithin
    <2>3. Within(Call(op, s), op, set)
      BY <2>2 DEF Within, Call
    <2>4. stack'[t] = <<Call(op, s)>>
      BY <2>1, <2>2 DEF Typed, TypeOK
    <2>5. job'[t].op = op /\ job'[t].left \subseteq set
      BY <2>1 DEF Typed, TypeOK, Job, CallsWithin
    <2>6. Len(stack'[t]) = 1 /\ stack'[t][1] = Call(op, s)
      BY <2>4
    <2>7. \A i \in 1 .. Len(stack'[t]) : i = 1
      BY <2>6
    <2>8. QED
      BY <2>3, <2>5, <2>6, <2>7 DEF CallsWithin
  <1>4. CASE Critical(u) /\ u # t
    <2>1. stack[u] # <<>>
      BY <1>4 DEF Critical, DoStart, DoStop, BeginStart, BeginStop, Spawn, SpawnFails,
         RunStopScript, AwaitStopScript, ReapStopped, KillGroup, EndStop, Walking, Typed, Inside
    <2>2. stack'[t] = stack[t] /\ job' = job
      BY <1>4, OthersUntouched DEF Typed
    <2>3. QED
      BY <2>2 DEF CallsWithin
  <1>5. CASE Critical(u) /\ u = t
    BY <1>5, CriticalWithin
  <1>6. QED
    BY <1>1, <1>2, <1>3, <1>4, <1>5

\* Where a switch is, what it has noted, and what it has the manager do.
SwitchFits(t) ==
    /\ phase[t] \in {"idle", "stopping", "starting"} => toStop[t] = {}
    /\ phase[t] \in {"idle", "starting"} => toStart[t] = {}
    /\ phase[t] # "idle" =>
          toStop[t] \subseteq Down(mode[t]) /\ toStart[t] \subseteq Up(mode[t])
    /\ phase[t] = "lookStop" => Idle(t) /\ unseen[t] \subseteq Down(mode[t])
    /\ phase[t] = "lookStart" => Idle(t) /\ unseen[t] \subseteq Up(mode[t])
    /\ phase[t] = "stopping" => CallsWithin(t, "stop", Down(mode[t]))
    /\ phase[t] = "starting" => CallsWithin(t, "start", Services \ Down(mode[t]))

AllClosed == \A m \in Modes : Closed(m)

ModeInv == Typed /\ ModeTypeOK /\ \A t \in Threads : SwitchFits(t)

LEMMA ModeInvInit == Init /\ ModeInit => ModeInv
  <1> SUFFICES ASSUME Init, ModeInit PROVE ModeInv
    OBVIOUS
  <1>1. Typed /\ ModeTypeOK
    BY TypedInit, ModeTypeInit
  <1>2. QED
    BY <1>1 DEF ModeInit, ModeInv, SwitchFits

\* A step of the manager moves a switch's calls on within its mode.
LEMMA ManagerFits ==
    ASSUME AllClosed, ModeInv, ManagerStep, NEW t \in Threads
    PROVE  SwitchFits(t)'
  <1>0. /\ Typed /\ TypeOK /\ Inside /\ ModeTypeOK /\ SwitchFits(t)
        /\ phase' = phase /\ mode' = mode /\ unseen' = unseen
        /\ toStop' = toStop /\ toStart' = toStart
    BY DEF ModeInv, Typed, ManagerStep, switchVars
  <1>1. CASE phase[t] = "idle"
    BY <1>0, <1>1 DEF SwitchFits
  <1>2. CASE phase[t] # "idle"
    <2>1. PICK m \in Modes : m = mode[t]
      BY <1>0, <1>2 DEF ModeTypeOK
    <2>2. /\ Covers("stop", Down(m)) /\ Covers("start", Services \ Down(m))
          /\ Down(m) \subseteq Services
      BY ClosedCovers, ModeSets DEF AllClosed
    <2>3. CASE \E p \in Pids : Kernel(p)
      <3>1. stack' = stack /\ job' = job
        BY <2>3 DEF Kernel, Exit, SpawnMember, MemberExit, threadVars
      <3>2. QED
        BY <1>0, <3>1 DEF SwitchFits, CallsWithin, Idle
    <2>4. ASSUME NEW u \in Threads,
                 (phase[u] = "idle" /\ ClientCall(u)) \/ Enter(u) \/ Critical(u)
          PROVE  SwitchFits(t)'
      <3>1. (ClientCall(u) /\ u # t) \/ Enter(u) \/ Critical(u)
        BY <1>2, <2>4
      <3>2. phase[t] = "stopping" => CallsWithin(t, "stop", Down(m))'
        BY <1>0, <2>1, <2>2, <3>1, ManagerWithin DEF SwitchFits
      <3>3. phase[t] = "starting" => CallsWithin(t, "start", Services \ Down(m))'
        BY <1>0, <2>1, <2>2, <3>1, ManagerWithin DEF SwitchFits
      <3>4. Idle(t) => Idle(t)'
        <4> SUFFICES ASSUME Idle(t) PROVE Idle(t)'
          OBVIOUS
        <4>1. stack[t] = <<>> /\ job[t].left = {}
          BY DEF Idle
        <4>2. CASE ClientCall(u) /\ u # t
          BY <1>0, <4>1, <4>2 DEF ClientCall, StartGroup, StopGroup, StopAll, Restart, Submit,
             TypeOK, Idle
        <4>3. CASE Enter(u)
          BY <1>0, <4>1, <4>3 DEF Enter, TypeOK, Idle
        <4>4. CASE Critical(u)
          <5>1. stack[u] # <<>>
            BY <1>0, <4>4 DEF Critical, DoStart, DoStop, BeginStart, BeginStop, Spawn, SpawnFails,
               RunStopScript, AwaitStopScript, ReapStopped, KillGroup, EndStop, Walking, Inside
          <5>2. stack'[t] = stack[t] /\ job' = job
            BY <1>0, <4>1, <4>4, <5>1, OthersUntouched
          <5>3. QED
            BY <4>1, <5>2 DEF Idle
        <4>5. QED
          BY <3>1, <4>2, <4>3, <4>4
      <3>5. QED
        BY <1>0, <2>1, <3>2, <3>3, <3>4 DEF SwitchFits
    <2>5. QED
      BY <2>3, <2>4 DEF ManagerStep
  <1>3. QED
    BY <1>1, <1>2

\* The steps of the switches themselves.
LEMMA SwitchKeeps ==
    ASSUME ModeInv, NEW u \in Threads, SwitchTo(u), NEW t \in Threads
    PROVE  SwitchFits(t)'
  <1>0. Typed /\ TypeOK /\ ModeTypeOK /\ SwitchFits(t)
    BY DEF ModeInv, Typed
  <1>1. CASE t # u
    <2>1. /\ phase'[t] = phase[t] /\ mode'[t] = mode[t] /\ unseen'[t] = unseen[t]
          /\ toStop'[t] = toStop[t] /\ toStart'[t] = toStart[t]
          /\ stack'[t] = stack[t] /\ job'[t] = job[t]
      BY <1>0, <1>1 DEF SwitchTo, BeginSwitch, LookForStop, TurnToStart, LookForStart, CallStop,
         CallStart, EndSwitch, Submit, ModeTypeOK, TypeOK, vars, threadVars
    <2>2. QED
      BY <1>0, <2>1 DEF SwitchFits, CallsWithin, Idle
  <1>2. CASE t = u /\ BeginSwitch(u)
    <2>1. PICK m \in Modes :
             /\ phase[t] = "idle" /\ Idle(t)
             /\ phase'[t] = "lookStop" /\ mode'[t] = m /\ unseen'[t] = Down(m)
             /\ UNCHANGED <<stack, job, toStop, toStart>>
      BY <1>0, <1>2 DEF BeginSwitch, ModeTypeOK, vars, threadVars
    <2>2. QED
      BY <1>0, <2>1 DEF SwitchFits, Idle
  <1>3. CASE t = u /\ (LookForStop(u) \/ LookForStart(u))
    BY <1>0, <1>3 DEF LookForStop, LookForStart, SwitchFits, Idle, ModeTypeOK, vars, threadVars
  <1>4. CASE t = u /\ TurnToStart(u)
    BY <1>0, <1>4 DEF TurnToStart, SwitchFits, Idle, ModeTypeOK, vars, threadVars
  <1>5. ASSUME NEW op, NEW g, Submit(t, op, g, FALSE)
        PROVE  /\ stack'[t] = <<>> /\ job'[t].op = op /\ job'[t].left = g
               /\ 1 .. Len(stack'[t]) = {}
    BY <1>0, <1>5 DEF Submit, Idle, TypeOK
  <1>6. CASE t = u /\ CallStop(u)
    <2>1. /\ phase[t] = "lookStart" /\ phase'[t] = "stopping" /\ mode' = mode
          /\ toStop'[t] = {} /\ toStart' = toStart
          /\ Submit(t, "stop", toStop[t], FALSE)
      BY <1>0, <1>6 DEF CallStop, ModeTypeOK
    <2>2. CallsWithin(t, "stop", Down(mode[t]))'
      BY <1>0, <1>5, <2>1 DEF CallsWithin, SwitchFits
    <2>3. QED
      BY <1>0, <2>1, <2>2 DEF SwitchFits
  <1>7. CASE t = u /\ CallStart(u)
    <2>1. /\ phase[t] = "stopping" /\ phase'[t] = "starting" /\ mode' = mode
          /\ toStart'[t] = {} /\ toStop' = toStop
          /\ Submit(t, "start", toStart[t], FALSE)
      BY <1>0, <1>7 DEF CallStart, ModeTypeOK
    <2>2. toStart[t] \subseteq Services \ Down(mode[t])
      <3>1. mode[t] \in Modes
        BY <1>0, <2>1 DEF ModeTypeOK
      <3>2. QED
        BY <1>0, <2>1, <3>1, ModeSets DEF SwitchFits
    <2>3. CallsWithin(t, "start", Services \ Down(mode[t]))'
      BY <1>5, <2>1, <2>2 DEF CallsWithin
    <2>4. QED
      BY <1>0, <2>1, <2>3 DEF SwitchFits
  <1>8. CASE t = u /\ EndSwitch(u)
    BY <1>0, <1>8 DEF EndSwitch, SwitchFits, ModeTypeOK
  <1>9. QED
    BY <1>1, <1>2, <1>3, <1>4, <1>6, <1>7, <1>8 DEF SwitchTo

LEMMA ModeInvStep == AllClosed /\ ModeInv /\ AnyGroup /\ [ModeNext]_modeVars => ModeInv'
  <1> SUFFICES ASSUME AllClosed, ModeInv, AnyGroup, [ModeNext]_modeVars PROVE ModeInv'
    OBVIOUS
  <1>1. Typed' /\ ModeTypeOK'
    BY ModeNextStep, TypedStep, ModeTypeStep DEF ModeInv
  <1>2. ASSUME NEW t \in Threads PROVE SwitchFits(t)'
    <2>1. CASE ManagerStep
      BY <2>1, ManagerFits
    <2>2. CASE \E u \in Threads : SwitchTo(u)
      BY <2>2, SwitchKeeps
    <2>3. CASE UNCHANGED modeVars
      BY <2>3 DEF modeVars, vars, threadVars, switchVars, ModeInv, SwitchFits, CallsWithin, Idle
    <2>4. QED
      BY <2>1, <2>2, <2>3 DEF ModeNext
  <1>3. QED
    BY <1>1, <1>2 DEF ModeInv

\* do_start never takes a RUNNING service down, and do_stop brings none up.
LEMMA MoveDirection ==
    ASSUME ChildInv, [Next]_vars, NEW t \in Threads, lock = t,
           NEW s \in Services, state'[s] # state[s]
    PROVE  /\ Top(t).op = "stop" => state'[s] # "RUNNING"
           /\ Top(t).op = "start" => state[s] # "RUNNING"
  <1>1. Typed /\ TypeOK /\ Inside /\ Transient
    BY DEF ChildInv, Typed
  <1>2. Critical(t) /\ s = Top(t).svc
    BY <1>1, ChangedByLoopedCall
  <1>3. CASE DoStart(t) \/ DoStop(t) \/ RunStopScript(t) \/ AwaitStopScript(t)
    BY <1>3 DEF DoStart, DoStop, VisitDependency, VisitDependent, RunStopScript, AwaitStopScript
  <1>4. CASE BeginStart(t)
    BY <1>1, <1>2, <1>4 DEF BeginStart, Walking, TypeOK, Inside
  <1>5. CASE Spawn(t) \/ SpawnFails(t)
    <2>1. at[t] = "fork" /\ state[s] = "STARTING"
      BY <1>1, <1>2, <1>5 DEF Spawn, SpawnFails, Transient
    <2>2. Top(t).op # "stop"
      BY <1>1, <2>1 DEF Inside
    <2>3. QED
      BY <2>1, <2>2
  <1>6. CASE BeginStop(t)
    BY <1>1, <1>2, <1>6 DEF BeginStop, Walking, TypeOK
  <1>7. CASE ReapStopped(t) \/ KillGroup(t)
    <2>1. at[t] = "term" /\ state' = [state EXCEPT ![s] = "STOPPED"]
      BY <1>2, <1>7 DEF ReapStopped, KillGroup, EndStop
    <2>2. Top(t).op # "start" /\ state'[s] = "STOPPED"
      BY <1>1, <2>1 DEF Inside, TypeOK
    <2>3. QED
      BY <2>2
  <1>8. QED
    BY <1>2, <1>3, <1>4, <1>5, <1>6, <1>7 DEF Critical

LEMMA TowardsModeStep ==
    AllClosed /\ ModeInv /\ ChildInv /\ AnyGroup /\ [ModeNext]_modeVars => TowardsMode
  <1> SUFFICES ASSUME AllClosed, ModeInv, ChildInv, AnyGroup, [ModeNext]_modeVars,
                      NEW t \in Threads, lock = t, phase[t] # "idle",
                      NEW s \in Services, state'[s] # state[s]
               PROVE  /\ state[s] = "RUNNING" => s \in Down(mode[t])
                      /\ state'[s] = "RUNNING" => s \notin Down(mode[t])
    BY DEF TowardsMode
  <1>1. Typed /\ TypeOK /\ Inside /\ ModeTypeOK /\ SwitchFits(t) /\ [Next]_vars
    BY ModeNextStep DEF ModeInv, Typed
  <1>2. stack[t] # <<>> /\ s = Top(t).svc
    BY <1>1, ChangedByLoopedCall
  <1>3. /\ Top(t).op = "stop" => state'[s] # "RUNNING"
        /\ Top(t).op = "start" => state[s] # "RUNNING"
    BY <1>1, MoveDirection
  <1>4. Len(stack[t]) \in 1 .. Len(stack[t])
    BY <1>1, <1>2, TopType
  <1>5. CASE phase[t] = "stopping"
    <2>1. Top(t).op = "stop" /\ Top(t).svc \in Down(mode[t])
      BY <1>1, <1>4, <1>5 DEF SwitchFits, CallsWithin, Within, Top
    <2>2. QED
      BY <1>2, <1>3, <2>1
  <1>6. CASE phase[t] = "starting"
    <2>1. Top(t).op = "start" /\ Top(t).svc \in Services \ Down(mode[t])
      BY <1>1, <1>4, <1>6 DEF SwitchFits, CallsWithin, Within, Top
    <2>2. QED
      BY <1>2, <1>3, <2>1
  <1>7. phase[t] \in {"stopping", "starting"}
    BY <1>1, <1>2 DEF SwitchFits, Idle, ModeTypeOK, Phases
  <1>8. QED
    BY <1>5, <1>6, <1>7

\* When every mode is closed under dependencies, a switch takes down only what
\* its mode is to stop and never starts one of those, whatever other clients
\* and other switches do between its steps.
THEOREM SwitchStaysInMode ==
    ASSUME AnyGroup, AllClosed
    PROVE  ModeSpec => StaysInMode
  <1>1. Init /\ ModeInit => ModeInv /\ ChildInv
    BY ModeInvInit, ChildInit
  <1>2. ModeInv /\ ChildInv /\ [ModeNext]_modeVars => ModeInv' /\ ChildInv'
    <2> SUFFICES ASSUME ModeInv, ChildInv, [ModeNext]_modeVars PROVE ModeInv' /\ ChildInv'
      OBVIOUS
    <2>1. [Next]_vars
      BY ModeNextStep DEF ModeInv
    <2>2. QED
      BY <2>1, ModeInvStep, ChildStep
  <1>3. ModeInv /\ ChildInv /\ [ModeNext]_modeVars => TowardsMode
    BY TowardsModeStep
  <1>4. QED
    BY <1>1, <1>2, <1>3, PTL DEF ModeSpec, StaysInMode

-----------------------------------------------------------------------------
(***************************************************************************)
(* A switch that nobody disturbs reaches its mode.                         *)
(***************************************************************************)

\* Thread t still has a call to make or to finish for the service.
Due(t, s) == s \in job[t].left \/ \E i \in 1 .. Len(stack[t]) : stack[t][i].svc = s

\* A service the mode has not is down, or the switch has still to look at it,
\* has noted it, or is having it stopped.
StillToStop(t, s) ==
    \/ state[s] = "STOPPED"
    \/ phase[t] = "lookStop" /\ s \in unseen[t]
    \/ s \in toStop[t]
    \/ phase[t] = "stopping" /\ Due(t, s)

\* The same for a service the mode has.
StillToStart(t, s) ==
    \/ state[s] = "RUNNING"
    \/ phase[t] = "lookStop"
    \/ phase[t] = "lookStart" /\ s \in unseen[t]
    \/ s \in toStart[t]
    \/ phase[t] = "starting" /\ Due(t, s)

CleanFits(t) ==
    /\ mode[t] \in Modes
    /\ \A s \in Down(mode[t]) : StillToStop(t, s)
    /\ \A s \in Up(mode[t]) : StillToStart(t, s)

ReachFits == clean # NoThread => CleanFits(clean)

\* The innermost call of a thread is one of its calls.
LEMMA TopDue ==
    ASSUME TypeOK, NEW t \in Threads, stack[t] # <<>>
    PROVE  Due(t, Top(t).svc)
  BY TopType DEF Due, Top

\* A return ends the innermost call and no other.
LEMMA ReturnDue ==
    ASSUME TypeOK, NEW t \in Threads, stack[t] # <<>>, Return(t), job' = job,
           NEW s, Due(t, s), s # Top(t).svc
    PROVE  Due(t, s)'
  <1> DEFINE rest == SubSeq(stack[t], 1, Len(stack[t]) - 1)
  <1>1. CASE s \in job[t].left
    BY <1>1 DEF Due
  <1>2. CASE \E i \in 1 .. Len(stack[t]) : stack[t][i].svc = s
    <2>1. PICK i \in 1 .. Len(stack[t]) : stack[t][i].svc = s
      BY <1>2
    <2>2. Len(stack[t]) \in Nat \ {0}
      BY TopType
    <2>3. i \in 1 .. Len(stack[t]) - 1
      BY <2>1, <2>2 DEF Top
    <2>4. /\ Len(rest) = Len(stack[t]) - 1
          /\ \A k \in 1 .. Len(stack[t]) - 1 : rest[k] = stack[t][k]
      BY PopType
    <2>5. stack'[t] = rest
      BY DEF Return, TypeOK
    <2> HIDE DEF rest
    <2>6. i \in 1 .. Len(rest) /\ rest[i].svc = s
      BY <2>1, <2>3, <2>4
    <2>7. QED
      BY <2>5, <2>6 DEF Due
  <1>3. QED
    BY <1>1, <1>2 DEF Due

\* A visit, with or without a nested call, ends none.
LEMMA VisitDue ==
    ASSUME TypeOK, NEW t \in Threads, stack[t] # <<>>, job' = job, NEW n \in Names,
           \/ stack'[t] = Visited(t, n)
           \/ \E op \in Ops, r \in Services : stack'[t] = Append(Visited(t, n), Call(op, r)),
           NEW s, Due(t, s)
    PROVE  Due(t, s)'
  <1> DEFINE L == Len(stack[t])
  <1>1. /\ Visited(t, n) \in Seq(Frame) /\ Len(Visited(t, n)) = L
        /\ \A i \in 1 .. L : Visited(t, n)[i].svc = stack[t][i].svc
    BY VisitedType
  <1>2. L \in Nat
    BY TopType
  <1>3. \A i \in 1 .. L : i \in 1 .. Len(stack'[t]) /\ stack'[t][i].svc = stack[t][i].svc
    <2>1. CASE stack'[t] = Visited(t, n)
      BY <1>1, <2>1
    <2>2. ASSUME NEW op \in Ops, NEW r \in Services,
                 stack'[t] = Append(Visited(t, n), Call(op, r))
          PROVE  \A i \in 1 .. L : i \in 1 .. Len(stack'[t]) /\ stack'[t][i].svc = stack[t][i].svc
      <3>1. Call(op, r) \in Frame
        BY CallType
      <3> HIDE DEF L
      <3>2. /\ Len(Append(Visited(t, n), Call(op, r))) = L + 1
            /\ \A i \in 1 .. L : Append(Visited(t, n), Call(op, r))[i] = Visited(t, n)[i]
        BY <1>1, <1>2, <3>1
      <3>3. QED
        BY <1>1, <1>2, <2>2, <3>2
    <2>3. QED
      BY <2>1, <2>2
  <1>4. QED
    BY <1>3 DEF Due

\* What the thread in the manager still has to do stays so, or is done; a fork
\* that fails is seen in the states.
LEMMA CriticalDue ==
    ASSUME ChildInv, NEW t \in Threads, Critical(t), Top(t).op \in {"start", "stop"},
           NEW s \in Services, Due(t, s)
    PROVE  \/ Due(t, s)'
           \/ Top(t).op = "stop" /\ state'[s] = "STOPPED"
           \/ Top(t).op = "start" /\ state'[s] = "RUNNING"
           \/ \E r \in Services : state'[r] = "FAILED" /\ state[r] # "FAILED"
  <1>1. Typed /\ TypeOK /\ Inside /\ Transient
    BY DEF ChildInv, Typed
  <1>2. stack[t] # <<>>
    BY <1>1 DEF Critical, DoStart, DoStop, BeginStart, BeginStop, Spawn, SpawnFails,
       RunStopScript, AwaitStopScript, ReapStopped, KillGroup, EndStop, Walking, Inside
  <1>3. PICK r \in Services : r = Top(t).svc
    BY <1>1, <1>2, TopType
  <1>4. job' = job
    BY DEF Critical, DoStart, DoStop, VisitDependency, VisitDependent, BeginStart, BeginStop,
       Spawn, SpawnFails, RunStopScript, AwaitStopScript, ReapStopped, KillGroup, EndStop
  <1>5. ASSUME stack' = stack PROVE Due(t, s)'
    BY <1>4, <1>5 DEF Due
  <1>6. ASSUME Return(t) PROVE Due(t, s)' \/ s = r
    BY <1>1, <1>2, <1>3, <1>4, <1>6, ReturnDue
  <1>7. CASE DoStart(t)
    <2>1. PICK d \in Top(t).todo :
             stack' = [stack EXCEPT ![t] =
                         IF d \in Services /\ state[d] # "RUNNING"
                         THEN Append(Visited(t, d), Call("start", d))
                         ELSE Visited(t, d)]
      BY <1>7 DEF DoStart, VisitDependency
    <2>2. d \in Names
      BY <1>1, <1>2, TopType
    <2>3. \/ stack'[t] = Visited(t, d)
          \/ \E op \in Ops, q \in Services : stack'[t] = Append(Visited(t, d), Call(op, q))
      BY <1>1, <2>1 DEF TypeOK, Ops
    <2>4. QED
      BY <1>1, <1>2, <1>4, <2>2, <2>3, VisitDue
  <1>8. CASE DoStop(t)
    <2>1. PICK o \in Top(t).todo :
             stack' = [stack EXCEPT ![t] =
                         IF state[o] = "RUNNING" /\ Top(t).svc \in Deps[o]
                         THEN Append(Visited(t, o), Call("stop", o))
                         ELSE Visited(t, o)]
      BY <1>8 DEF DoStop, VisitDependent
    <2>2. o \in Services /\ o \in Names
      BY <1>1, <1>2, <1>8, TopType, ConfigAssumption DEF DoStop, Walking, Frame
    <2>3. \/ stack'[t] = Visited(t, o)
          \/ \E op \in Ops, q \in Services : stack'[t] = Append(Visited(t, o), Call(op, q))
      BY <1>1, <2>1, <2>2 DEF TypeOK, Ops
    <2>4. QED
      BY <1>1, <1>2, <1>4, <2>2, <2>3, VisitDue
  <1>9. CASE BeginStart(t)
    <2>1. Top(t).op = "start"
      BY <1>1, <1>9 DEF BeginStart, Walking, Inside
    <2>2. CASE state[r] = "RUNNING"
      <3>1. Return(t) /\ state' = state
        BY <1>3, <1>9, <2>2 DEF BeginStart
      <3>2. QED
        BY <1>6, <2>1, <2>2, <3>1
    <2>3. CASE state[r] # "RUNNING"
      BY <1>3, <1>5, <1>9, <2>3 DEF BeginStart
    <2>4. QED
      BY <2>2, <2>3
  <1>10. CASE Spawn(t)
    <2>1. Top(t).op = "start"
      BY <1>1, <1>10 DEF Spawn, Inside
    <2>2. Return(t) /\ state'[r] = "RUNNING"
      BY <1>1, <1>3, <1>10 DEF Spawn, TypeOK
    <2>3. QED
      BY <1>6, <2>1, <2>2
  <1>11. CASE SpawnFails(t)
    <2>1. state[r] = "STARTING" /\ state'[r] = "FAILED"
      BY <1>1, <1>3, <1>11 DEF SpawnFails, Transient, TypeOK
    <2>2. QED
      BY <2>1
  <1>12. CASE BeginStop(t)
    <2>1. Top(t).op = "stop"
      BY <1>12 DEF BeginStop, Walking
    <2>2. CASE pid[r] = NoPid
      <3>1. Return(t) /\ state'[r] = "STOPPED"
        BY <1>1, <1>3, <1>12, <2>1, <2>2 DEF BeginStop, AfterStop, TypeOK
      <3>2. QED
        BY <1>6, <2>1, <3>1
    <2>3. CASE pid[r] # NoPid
      BY <1>3, <1>5, <1>12, <2>3 DEF BeginStop
    <2>4. QED
      BY <2>2, <2>3
  <1>13. CASE RunStopScript(t) \/ AwaitStopScript(t)
    BY <1>5, <1>13 DEF RunStopScript, AwaitStopScript
  <1>14. CASE ReapStopped(t) \/ KillGroup(t)
    <2>1. Top(t).op = "stop"
      BY <1>1, <1>14 DEF ReapStopped, KillGroup, Inside
    <2>2. Return(t) /\ state'[r] = "STOPPED"
      BY <1>1, <1>3, <1>14, <2>1 DEF ReapStopped, KillGroup, EndStop, AfterStop, TypeOK
    <2>3. QED
      BY <1>6, <2>1, <2>2
  <1>15. QED
    BY <1>7, <1>8, <1>9, <1>10, <1>11, <1>12, <1>13, <1>14 DEF Critical

\* What a thread has to do is its own affair, and entering the manager for a
\* service puts it on the stack.
LEMMA OtherDue ==
    ASSUME Typed, NEW t \in Threads, NEW s, Due(t, s), NEW u \in Threads,
           (ClientCall(u) /\ u # t) \/ Enter(u) \/ (Critical(u) /\ u # t)
    PROVE  Due(t, s)'
  <1>1. TypeOK /\ Inside
    BY DEF Typed
  <1>2. CASE ClientCall(u) /\ u # t
    <2>1. stack'[t] = stack[t] /\ job'[t] = job[t]
      BY <1>1, <1>2 DEF ClientCall, StartGroup, StopGroup, StopAll, Restart, Submit, TypeOK
    <2>2. QED
      BY <2>1 DEF Due
  <1>3. CASE Enter(u) /\ u # t
    <2>1. stack'[t] = stack[t] /\ job'[t].left = job[t].left
      BY <1>1, <1>3 DEF Enter, TypeOK
    <2>2. QED
      BY <2>1 DEF Due
  <1>4. CASE Enter(t)
    <2>1. PICK r \in job[t].left :
             /\ stack[t] = <<>>
             /\ stack' = [stack EXCEPT ![t] = <<Call(job[t].op, r)>>]
             /\ job' = [job EXCEPT ![t].left = @ \ {r}]
      BY <1>4 DEF Enter
    <2>2. s \in job[t].left
      BY <2>1 DEF Due
    <2>3. job'[t].left = job[t].left \ {r} /\ stack'[t] = <<Call(job[t].op, r)>>
      BY <1>1, <2>1 DEF TypeOK, Job
    <2>4. 1 \in 1 .. Len(stack'[t]) /\ stack'[t][1].svc = r
      BY <2>3 DEF Call
    <2>5. QED
      BY <2>2, <2>3, <2>4 DEF Due
  <1>5. CASE Critical(u) /\ u # t
    <2>1. stack[u] # <<>>
      BY <1>1, <1>5 DEF Critical, DoStart, DoStop, BeginStart, BeginStop, Spawn, SpawnFails,
         RunStopScript, AwaitStopScript, ReapStopped, KillGroup, EndStop, Walking, Inside
    <2>2. stack'[t] = stack[t] /\ job' = job
      BY <1>1, <1>5, OthersUntouched
    <2>3. QED
      BY <2>2 DEF Due
  <1>6. QED
    BY <1>2, <1>3, <1>4, <1>5

\* A step of the manager that does not disturb the switch brings it on.
LEMMA ManagerReaches ==
    ASSUME AllClosed, AnyGroup, ModeInv, ChildInv, ReachFits, ManagerStep, clean' # NoThread
    PROVE  ReachFits'
  <1>1. /\ clean' = clean /\ Undisturbed
        /\ phase' = phase /\ mode' = mode /\ unseen' = unseen
        /\ toStop' = toStop /\ toStart' = toStart
    BY DEF ManagerStep, switchVars
  <1>2. /\ Typed /\ TypeOK /\ Inside /\ ModeTypeOK /\ [Next]_vars
        /\ \A t \in Threads : SwitchFits(t)
    BY ModeNextStep DEF ModeInv, Typed, ModeNext
  <1>3. PICK t \in Threads : t = clean
    BY <1>1, <1>2 DEF ModeTypeOK
  <1>4. PICK m \in Modes : m = mode[t]
    BY <1>1, <1>3 DEF ReachFits, CleanFits
  <1>5. Down(m) \subseteq Services /\ Up(m) \subseteq Services /\ Up(m) \cap Down(m) = {}
    BY ModeSets
  <1>6. ~\E r \in Services : state'[r] = "FAILED" /\ state[r] # "FAILED"
    BY <1>1 DEF Undisturbed
  <1>7. ASSUME stack[t] # <<>>
        PROVE  /\ phase[t] = "stopping" => Top(t).op = "stop"
               /\ phase[t] = "starting" => Top(t).op = "start" /\ Top(t).svc \notin Down(m)
    <2>1. Len(stack[t]) \in 1 .. Len(stack[t])
      BY <1>2, <1>7, TopType
    <2>2. QED
      BY <1>2, <1>4, <2>1 DEF SwitchFits, CallsWithin, Within, Top
  <1>8. ASSUME NEW s \in Services, Due(t, s), phase[t] \in {"stopping", "starting"}
        PROVE  \/ Due(t, s)'
               \/ phase[t] = "stopping" /\ state'[s] = "STOPPED"
               \/ phase[t] = "starting" /\ state'[s] = "RUNNING"
    <2>1. CASE \E p \in Pids : Kernel(p)
      <3>1. stack' = stack /\ job' = job
        BY <2>1 DEF Kernel, Exit, SpawnMember, MemberExit, threadVars
      <3>2. QED
        BY <1>8, <3>1 DEF Due
    <2>2. CASE Critical(t)
      <3>1. stack[t] # <<>>
        BY <1>2, <2>2 DEF Critical, DoStart, DoStop, BeginStart, BeginStop, Spawn, SpawnFails,
           RunStopScript, AwaitStopScript, ReapStopped, KillGroup, EndStop, Walking, Inside
      <3>2. QED
        BY <1>6, <1>7, <1>8, <2>2, <3>1, CriticalDue
    <2>3. ASSUME NEW u \in Threads,
                 (phase[u] = "idle" /\ ClientCall(u)) \/ Enter(u) \/ (Critical(u) /\ u # t)
          PROVE  Due(t, s)'
      <3>1. (ClientCall(u) /\ u # t) \/ Enter(u) \/ (Critical(u) /\ u # t)
        BY <1>8, <2>3
      <3>2. QED
        BY <1>2, <1>8, <3>1, OtherDue
    <2>4. QED
      BY <2>1, <2>2, <2>3 DEF ManagerStep
  <1>9. ASSUME NEW s \in Services, state'[s] # state[s]
        PROVE  /\ lock = t /\ s = Top(t).svc /\ stack[t] # <<>> /\ Due(t, s)
               /\ phase[t] \in {"stopping", "starting"}
    <2>1. lock = t
      BY <1>1, <1>3, <1>9 DEF Undisturbed
    <2>2. phase[t] # "idle"
      BY <1>1, <1>3, <1>9 DEF Undisturbed
    <2>3. stack[t] # <<>> /\ s = Top(t).svc
      BY <1>2, <1>9, <2>1, ChangedByLoopedCall
    <2>4. phase[t] \in {"stopping", "starting"}
      BY <1>2, <2>2, <2>3 DEF SwitchFits, Idle, ModeTypeOK, Phases
    <2>5. QED
      BY <1>2, <2>1, <2>3, <2>4, TopDue
  <1>10. ASSUME NEW s \in Down(m) PROVE StillToStop(t, s)'
    <2>1. StillToStop(t, s) /\ s \in Services
      BY <1>1, <1>3, <1>4, <1>5 DEF ReachFits, CleanFits
    <2>2. CASE state[s] = "STOPPED"
      <3>1. CASE state'[s] = state[s]
        BY <2>2, <3>1 DEF StillToStop
      <3>2. CASE state'[s] # state[s]
        <4>1. phase[t] = "stopping" /\ Due(t, s)
          BY <1>7, <1>9, <2>1, <3>2
        <4>2. QED
          BY <1>1, <1>8, <2>1, <4>1 DEF StillToStop
      <3>3. QED
        BY <3>1, <3>2
    <2>3. CASE phase[t] = "stopping" /\ Due(t, s)
      BY <1>1, <1>8, <2>1, <2>3 DEF StillToStop
    <2>4. QED
      BY <1>1, <2>1, <2>2, <2>3 DEF StillToStop
  <1>11. ASSUME NEW s \in Up(m) PROVE StillToStart(t, s)'
    <2>1. StillToStart(t, s) /\ s \in Services /\ s \notin Down(m)
      BY <1>1, <1>3, <1>4, <1>5 DEF ReachFits, CleanFits
    <2>2. CASE state[s] = "RUNNING"
      <3>1. CASE state'[s] = state[s]
        BY <2>2, <3>1 DEF StillToStart
      <3>2. CASE state'[s] # state[s]
        <4>1. lock = t /\ s = Top(t).svc /\ stack[t] # <<>> /\ phase[t] \in {"stopping", "starting"}
          BY <1>9, <2>1, <3>2
        <4>2. phase[t] # "starting"
          BY <1>2, <1>7, <2>1, <2>2, <3>2, <4>1, MoveDirection
        <4>3. phase[t] # "stopping"
          <5>1. Len(stack[t]) \in 1 .. Len(stack[t])
            BY <1>2, <4>1, TopType
          <5>2. QED
            BY <1>2, <1>4, <2>1, <4>1, <5>1 DEF SwitchFits, CallsWithin, Within, Top
        <4>4. QED
          BY <4>1, <4>2, <4>3
      <3>3. QED
        BY <3>1, <3>2
    <2>3. CASE phase[t] = "starting" /\ Due(t, s)
      BY <1>1, <1>8, <2>1, <2>3 DEF StillToStart
    <2>4. QED
      BY <1>1, <2>1, <2>2, <2>3 DEF StillToStart
  <1>12. QED
    BY <1>1, <1>3, <1>4, <1>10, <1>11 DEF ReachFits, CleanFits

\* So does a step of a switch.
LEMMA SwitchReaches ==
    ASSUME ModeInv, ReachFits, NEW u \in Threads, SwitchTo(u), clean' # NoThread
    PROVE  ReachFits'
  <1>1. TypeOK /\ ModeTypeOK /\ state' = state
    BY DEF ModeInv, Typed, SwitchTo, BeginSwitch, LookForStop, TurnToStart, LookForStart,
       CallStop, CallStart, EndSwitch, Submit, vars
  <1>2. CASE BeginSwitch(u)
    <2>1. PICK m \in Modes :
             /\ clean' = u /\ phase'[u] = "lookStop" /\ mode'[u] = m /\ unseen'[u] = Down(m)
      BY <1>1, <1>2 DEF BeginSwitch, ModeTypeOK
    <2>2. QED
      BY <2>1 DEF ReachFits, CleanFits, StillToStop, StillToStart
  <1>3. CASE ~BeginSwitch(u)
    <2>1. clean' = clean /\ mode' = mode
      BY <1>3 DEF SwitchTo, LookForStop, TurnToStart, LookForStart, CallStop, CallStart, EndSwitch
    <2>2. PICK t \in Threads : t = clean
      BY <1>1, <2>1 DEF ModeTypeOK
    <2>3. PICK m \in Modes : m = mode[t] /\ mode'[t] = m
      BY <2>1, <2>2 DEF ReachFits, CleanFits
    <2>4. /\ \A s \in Down(m) : StillToStop(t, s)
          /\ \A s \in Up(m) : StillToStart(t, s)
          /\ SwitchFits(t)
      BY <2>1, <2>2, <2>3 DEF ReachFits, CleanFits, ModeInv
    <2>5. ASSUME \A s \in Down(m) : StillToStop(t, s)',
                 \A s \in Up(m) : StillToStart(t, s)'
          PROVE  ReachFits'
      BY <2>1, <2>2, <2>3, <2>5 DEF ReachFits, CleanFits
    <2>6. CASE t # u
      <3>1. /\ phase'[t] = phase[t] /\ unseen'[t] = unseen[t]
            /\ toStop'[t] = toStop[t] /\ toStart'[t] = toStart[t]
            /\ stack'[t] = stack[t] /\ job'[t] = job[t]
        BY <1>1, <1>3, <2>6 DEF SwitchTo, LookForStop, TurnToStart, LookForStart, CallStop,
           CallStart, EndSwitch, Submit, ModeTypeOK, TypeOK, vars, threadVars
      <3>2. QED
        BY <1>1, <2>4, <2>5, <3>1 DEF StillToStop, StillToStart, Due
    <2>7. CASE t = u /\ (LookForStop(u) \/ TurnToStart(u) \/ LookForStart(u))
      BY <1>1, <2>3, <2>4, <2>5, <2>7 DEF LookForStop, TurnToStart, LookForStart, StillToStop,
         StillToStart, ModeTypeOK
    <2>8. CASE t = u /\ CallStop(u)
      <3>1. /\ phase[t] = "lookStart" /\ unseen[t] = {} /\ phase'[t] = "stopping"
            /\ job'[t].left = toStop[t] /\ toStart' = toStart
        BY <1>1, <2>8 DEF CallStop, Submit, ModeTypeOK, TypeOK
      <3>2. QED
        BY <1>1, <2>4, <2>5, <3>1 DEF StillToStop, StillToStart, Due
    <2>9. CASE t = u /\ CallStart(u)
      <3>1. /\ phase[t] = "stopping" /\ Idle(t) /\ phase'[t] = "starting"
            /\ job'[t].left = toStart[t] /\ toStop' = toStop
        BY <1>1, <2>9 DEF CallStart, Submit, ModeTypeOK, TypeOK
      <3>2. \A s : ~Due(t, s)
        BY <3>1 DEF Idle, Due
      <3>3. QED
        BY <1>1, <2>4, <2>5, <3>1, <3>2 DEF StillToStop, StillToStart, Due
    <2>10. CASE t = u /\ EndSwitch(u)
      <3>1. phase[t] = "starting" /\ Idle(t) /\ toStop' = toStop /\ toStart' = toStart
        BY <2>10 DEF EndSwitch
      <3>2. \A s : ~Due(t, s)
        BY <3>1 DEF Idle, Due
      <3>3. QED
        BY <1>1, <2>4, <2>5, <3>1, <3>2 DEF StillToStop, StillToStart
    <2>11. QED
      BY <1>3, <2>6, <2>7, <2>8, <2>9, <2>10 DEF SwitchTo
  <1>4. QED
    BY <1>2, <1>3

LEMMA ReachStep ==
    AllClosed /\ AnyGroup /\ ModeInv /\ ChildInv /\ ReachFits /\ [ModeNext]_modeVars => ReachFits'
  <1> SUFFICES ASSUME AllClosed, AnyGroup, ModeInv, ChildInv, ReachFits, [ModeNext]_modeVars,
                      clean' # NoThread
               PROVE  ReachFits'
    BY DEF ReachFits
  <1>1. CASE ManagerStep
    BY <1>1, ManagerReaches
  <1>2. CASE \E u \in Threads : SwitchTo(u)
    BY <1>2, SwitchReaches
  <1>3. CASE UNCHANGED modeVars
    BY <1>3 DEF modeVars, vars, threadVars, switchVars, ReachFits, CleanFits, StillToStop,
       StillToStart, Due
  <1>4. QED
    BY <1>1, <1>2, <1>3 DEF ModeNext

\* When every mode is closed under dependencies, one switch takes every service
\* the mode has up and every one it has not down, although it goes through its
\* lists in any order and each call may reach further than the service it is
\* for, unless another client changes a state meanwhile or a fork fails.
THEOREM SwitchReachesMode ==
    ASSUME AnyGroup, AllClosed
    PROVE  ModeSpec => []ModeReached
  <1> DEFINE IInv == ModeInv /\ ChildInv /\ ReachFits
  <1>1. Init /\ ModeInit => IInv
    BY ModeInvInit, ChildInit DEF ModeInit, ReachFits
  <1>2. IInv /\ [ModeNext]_modeVars => IInv'
    <2> SUFFICES ASSUME IInv, [ModeNext]_modeVars PROVE IInv'
      OBVIOUS
    <2>1. [Next]_vars
      BY ModeNextStep DEF ModeInv
    <2>2. QED
      BY <2>1, ModeInvStep, ChildStep, ReachStep
  <1>3. IInv => ModeReached
    BY DEF ModeInv, SwitchFits, ReachFits, CleanFits, StillToStop, StillToStart, ModeReached,
       ModeTypeOK
  <1>4. QED
    BY <1>1, <1>2, <1>3, PTL DEF ModeSpec

=============================================================================
