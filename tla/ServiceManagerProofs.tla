------------------------ MODULE ServiceManagerProofs ------------------------
(***************************************************************************)
(* Theorems about ServiceManager, for every configuration, any number of   *)
(* threads and processes.                                                  *)
(***************************************************************************)
EXTENDS ServiceManager, SequenceTheorems, TLAPS

-----------------------------------------------------------------------------
(***************************************************************************)
(* The call stack: what push, pop and the loop variable do to it.          *)
(***************************************************************************)

\* A call that has not looped yet is a frame.
LEMMA CallType ==
    ASSUME NEW op \in Ops, NEW s \in Services
    PROVE  Call(op, s) \in Frame /\ Call(op, s).op = op /\ Call(op, s).svc = s
  BY ConfigAssumption DEF Call, Frame, Ops

\* The innermost frame of a thread inside the manager.
LEMMA TopType ==
    ASSUME TypeOK, NEW t \in Threads, stack[t] # <<>>
    PROVE  /\ stack[t] \in Seq(Frame)
           /\ Len(stack[t]) \in Nat \ {0}
           /\ Len(stack[t]) \in 1 .. Len(stack[t])
           /\ Top(t) \in Frame
           /\ Top(t).op \in Ops
           /\ Top(t).svc \in Services
           /\ Top(t).todo \in SUBSET Names
  <1>1. stack[t] \in Seq(Frame)
    BY DEF TypeOK
  <1>2. Len(stack[t]) \in Nat \ {0}
    BY <1>1, EmptySeq
  <1>3. Top(t) \in Frame
    BY <1>1, <1>2, ElementOfSeq DEF Top
  <1>4. QED
    BY <1>1, <1>2, <1>3 DEF Frame

\* Moving the loop variable changes nothing but the innermost frame's todo.
LEMMA VisitedType ==
    ASSUME TypeOK, NEW t \in Threads, stack[t] # <<>>, NEW n \in Names
    PROVE  /\ Visited(t, n) \in Seq(Frame)
           /\ Len(Visited(t, n)) = Len(stack[t])
           /\ \A i \in 1 .. Len(stack[t]) :
                 /\ Visited(t, n)[i].op = stack[t][i].op
                 /\ Visited(t, n)[i].svc = stack[t][i].svc
                 /\ Visited(t, n)[i].todo =
                       IF i = Len(stack[t]) THEN Top(t).todo \ {n} ELSE stack[t][i].todo
  <1> DEFINE L == Len(stack[t])
             f == [Top(t) EXCEPT !.todo = @ \ {n}]
  <1>1. /\ stack[t] \in Seq(Frame) /\ L \in Nat \ {0} /\ L \in 1 .. L /\ Top(t) \in Frame
    BY TopType
  <1>2. f \in Frame /\ f.op = Top(t).op /\ f.svc = Top(t).svc /\ f.todo = Top(t).todo \ {n}
    BY <1>1 DEF Frame
  <1>3. Visited(t, n) = [stack[t] EXCEPT ![L] = f]
    BY DEF Visited, Top
  <1>4. /\ Visited(t, n) \in Seq(Frame)
        /\ Len(Visited(t, n)) = L
        /\ \A i \in 1 .. L : Visited(t, n)[i] = IF i = L THEN f ELSE stack[t][i]
    BY <1>1, <1>2, <1>3, ExceptSeq
  <1>5. QED
    BY <1>2, <1>4 DEF Top

\* Popping keeps the frames below.
LEMMA PopType ==
    ASSUME TypeOK, NEW t \in Threads, stack[t] # <<>>
    PROVE  LET rest == SubSeq(stack[t], 1, Len(stack[t]) - 1) IN
           /\ rest \in Seq(Frame)
           /\ Len(rest) = Len(stack[t]) - 1
           /\ \A i \in 1 .. Len(stack[t]) - 1 : rest[i] = stack[t][i]
           /\ Len(stack[t]) = 1 <=> rest = <<>>
  <1> DEFINE L == Len(stack[t])
             rest == SubSeq(stack[t], 1, L - 1)
  <1>1. stack[t] \in Seq(Frame) /\ L \in Nat \ {0}
    BY TopType
  <1>2. \A i \in 1 .. L - 1 : stack[t][i] \in Frame
    BY <1>1, ElementOfSeq
  <1>3. /\ rest \in Seq(Frame)
        /\ Len(rest) = IF 1 <= L - 1 THEN L - 1 - 1 + 1 ELSE 0
        /\ \A i \in 1 .. L - 1 - 1 + 1 : rest[i] = stack[t][1 + i - 1]
    BY <1>1, <1>2, SubSeqProperties
  <1>4. rest = <<>> <=> Len(rest) = 0
    BY <1>3, EmptySeq
  <1>5. Len(rest) = L - 1
    BY <1>1, <1>3
  <1>6. \A i \in 1 .. L - 1 : rest[i] = stack[t][i]
    BY <1>1, <1>3
  <1>7. L = 1 <=> rest = <<>>
    <2> HIDE DEF L, rest
    <2> QED BY <1>1, <1>4, <1>5
  <1>8. QED
    BY <1>3, <1>5, <1>6, <1>7

-----------------------------------------------------------------------------
(***************************************************************************)
(* Types, and who is inside the manager.                                   *)
(***************************************************************************)

\* A thread has calls on its stack exactly when it holds the mutex, and what
\* the innermost call is doing fits the kind of call it is.
Inside ==
    \A t \in Threads :
        /\ lock = t <=> stack[t] # <<>>
        /\ at[t] # "walk" => stack[t] # <<>> /\ Top(t).todo = {}
        /\ at[t] = "start" => Top(t).op = "restart"
        /\ at[t] = "fork" => Top(t).op \in {"start", "restart"}
        /\ at[t] \in {"script", "await", "term"} => Top(t).op \in {"stop", "restart"}

Typed == TypeOK /\ Inside

\* Returning from the innermost call.
LEMMA ReturnTyped ==
    ASSUME Typed, NEW t \in Threads, stack[t] # <<>>, Return(t)
    PROVE  /\ stack' \in [Threads -> Seq(Frame)]
           /\ at' \in [Threads -> Points]
           /\ lock' \in Threads \cup {NoThread}
           /\ Inside'
  <1> DEFINE rest == SubSeq(stack[t], 1, Len(stack[t]) - 1)
  <1>1. rest \in Seq(Frame) /\ (Len(stack[t]) = 1 <=> rest = <<>>)
    BY PopType DEF Typed
  <1>2. /\ stack' = [stack EXCEPT ![t] = rest]
        /\ at' = [at EXCEPT ![t] = "walk"]
        /\ lock' = IF Len(stack[t]) = 1 THEN NoThread ELSE lock
    BY DEF Return
  <1> HIDE DEF rest
  <1>3. lock = t
    BY DEF Typed, Inside
  <1>4. Inside'
    BY <1>1, <1>2, <1>3, ConfigAssumption DEF Typed, TypeOK, Inside, Top
  <1>5. QED
    BY <1>1, <1>2, <1>4 DEF Typed, TypeOK, Points

\* Failing all the way out.
LEMMA UnwindTyped ==
    ASSUME Typed, NEW t \in Threads, stack[t] # <<>>, Unwind(t)
    PROVE  /\ stack' \in [Threads -> Seq(Frame)]
           /\ at' \in [Threads -> Points]
           /\ lock' \in Threads \cup {NoThread}
           /\ Inside'
  <1>1. <<>> \in Seq(Frame)
    BY EmptySeq
  <1>2. lock = t
    BY DEF Typed, Inside
  <1>3. Inside'
    BY <1>2, ConfigAssumption DEF Unwind, Typed, TypeOK, Inside, Top
  <1>4. QED
    BY <1>1, <1>3 DEF Unwind, Typed, TypeOK, Points

\* Moving to another point of the innermost call.
LEMMA MoveTyped ==
    ASSUME Typed, NEW t \in Threads, stack[t] # <<>>, Top(t).todo = {},
           NEW q \in Points, at' = [at EXCEPT ![t] = q], UNCHANGED <<lock, stack>>,
           q = "start" => Top(t).op = "restart",
           q = "fork" => Top(t).op \in {"start", "restart"},
           q \in {"script", "await", "term"} => Top(t).op \in {"stop", "restart"}
    PROVE  /\ stack' \in [Threads -> Seq(Frame)]
           /\ at' \in [Threads -> Points]
           /\ lock' \in Threads \cup {NoThread}
           /\ Inside'
  BY DEF Typed, TypeOK, Inside, Top

\* The loops of do_start and do_stop, with or without a nested call.
LEMMA LoopTyped ==
    ASSUME Typed, NEW t \in Threads, stack[t] # <<>>, at[t] = "walk",
           NEW n \in Names, NEW op \in Ops, NEW s \in Services,
           \/ stack' = [stack EXCEPT ![t] = Visited(t, n)]
           \/ stack' = [stack EXCEPT ![t] = Append(Visited(t, n), Call(op, s))],
           UNCHANGED <<lock, at>>
    PROVE  /\ stack' \in [Threads -> Seq(Frame)]
           /\ Inside'
  <1>1. /\ Visited(t, n) \in Seq(Frame)
        /\ Len(Visited(t, n)) = Len(stack[t])
        /\ Len(stack[t]) \in Nat \ {0}
    BY VisitedType, TopType DEF Typed
  <1>2. Visited(t, n) # <<>>
    BY <1>1, EmptySeq
  <1>3. Append(Visited(t, n), Call(op, s)) \in Seq(Frame) \ {<<>>}
    BY <1>1, CallType, AppendProperties
  <1>4. PICK q \in Seq(Frame) \ {<<>>} : stack' = [stack EXCEPT ![t] = q]
    BY <1>1, <1>2, <1>3
  <1>5. QED
    BY <1>4 DEF Typed, TypeOK, Inside, Top

\* The two loops: the only actions that push a call.
LEMMA LoopStep ==
    ASSUME Typed, NEW t \in Threads, DoStart(t) \/ DoStop(t)
    PROVE  Typed'
  <1>1. stack[t] # <<>> /\ at[t] = "walk"
    BY DEF DoStart, DoStop, Walking
  <1>2. UNCHANGED <<state, pid, procVars, lock, at, helper, job, restarted>>
    BY DEF DoStart, DoStop, VisitDependency, VisitDependent
  <1>3. PICK n \in Names, op \in Ops, s \in Services :
           \/ stack' = [stack EXCEPT ![t] = Visited(t, n)]
           \/ stack' = [stack EXCEPT ![t] = Append(Visited(t, n), Call(op, s))]
    <2>1. CASE DoStart(t)
      <3>1. PICK d \in Top(t).todo :
               stack' = [stack EXCEPT ![t] =
                           IF d \in Services /\ state[d] # "RUNNING"
                           THEN Append(Visited(t, d), Call("start", d))
                           ELSE Visited(t, d)]
        BY <2>1 DEF DoStart, VisitDependency
      <3>2. "start" \in Ops /\ Top(t).svc \in Services /\ d \in Names
        BY <1>1, TopType DEF Typed, Ops
      <3>3. CASE d \in Services /\ state[d] # "RUNNING"
        <4>1. stack' = [stack EXCEPT ![t] = Append(Visited(t, d), Call("start", d))]
          BY <3>1, <3>3
        <4>2. QED
          BY <3>2, <3>3, <4>1
      <3>4. CASE ~(d \in Services /\ state[d] # "RUNNING")
        <4>1. stack' = [stack EXCEPT ![t] = Visited(t, d)]
          BY <3>1, <3>4
        <4>2. QED
          BY <3>2, <4>1
      <3>5. QED
        BY <3>3, <3>4
    <2>2. CASE DoStop(t)
      <3>1. PICK o \in Top(t).todo :
               stack' = [stack EXCEPT ![t] =
                           IF state[o] = "RUNNING" /\ Top(t).svc \in Deps[o]
                           THEN Append(Visited(t, o), Call("stop", o))
                           ELSE Visited(t, o)]
        BY <2>2 DEF DoStop, VisitDependent
      <3>2. "stop" \in Ops /\ o \in Services /\ o \in Names
        BY <1>1, <2>2, TopType DEF Typed, Ops, DoStop, Walking, Frame
      <3>3. CASE state[o] = "RUNNING" /\ Top(t).svc \in Deps[o]
        <4>1. stack' = [stack EXCEPT ![t] = Append(Visited(t, o), Call("stop", o))]
          BY <3>1, <3>3
        <4>2. QED
          BY <3>2, <4>1
      <3>4. CASE ~(state[o] = "RUNNING" /\ Top(t).svc \in Deps[o])
        <4>1. stack' = [stack EXCEPT ![t] = Visited(t, o)]
          BY <3>1, <3>4
        <4>2. QED
          BY <3>2, <4>1
      <3>5. QED
        BY <3>3, <3>4
    <2>3. QED
      BY <2>1, <2>2
  <1>4. stack' \in [Threads -> Seq(Frame)] /\ Inside'
    BY <1>1, <1>2, <1>3, LoopTyped
  <1>5. QED
    BY <1>2, <1>4 DEF Typed, TypeOK, procVars

\* What a thread does once its loop is over.
LEMMA LeafStep ==
    ASSUME Typed, NEW t \in Threads, Critical(t), ~DoStart(t), ~DoStop(t)
    PROVE  Typed'
  <1>1. stack[t] # <<>>
    BY DEF Critical, BeginStart, BeginStop, Spawn, SpawnFails, RunStopScript,
           AwaitStopScript, ReapStopped, KillGroup, EndStop, Walking, Typed, Inside
  <1>2. Top(t).svc \in Services /\ Top(t).op \in Ops
    BY <1>1, TopType DEF Typed
  <1>3. CASE BeginStart(t)
    <2>1. CASE state[Top(t).svc] = "RUNNING"
      BY <1>1, <1>3, <2>1, ReturnTyped DEF BeginStart, Typed, TypeOK, procVars
    <2>2. CASE state[Top(t).svc] # "RUNNING"
      <3>1. Top(t).todo = {} /\ Top(t).op \in {"start", "restart"}
        BY <1>3 DEF BeginStart, Walking, Typed, Inside
      <3>2. /\ state' = [state EXCEPT ![Top(t).svc] = "STARTING"]
            /\ at' = [at EXCEPT ![t] = "fork"]
            /\ UNCHANGED <<lock, stack, pid, procVars, helper, job, restarted>>
        BY <1>3, <2>2 DEF BeginStart
      <3>3. stack' \in [Threads -> Seq(Frame)] /\ at' \in [Threads -> Points] /\ Inside'
        BY <1>1, <3>1, <3>2, MoveTyped DEF Points
      <3>4. QED
        BY <1>2, <3>2, <3>3 DEF Typed, TypeOK, procVars, States
    <2>3. QED
      BY <2>1, <2>2
  <1>4. CASE Spawn(t)
    BY <1>1, <1>2, <1>4, ReturnTyped DEF Spawn, Fork, Typed, TypeOK, States
  <1>5. CASE SpawnFails(t)
    BY <1>1, <1>2, <1>5, UnwindTyped DEF SpawnFails, Typed, TypeOK, procVars, States
  <1>6. ASSUME AfterStop(t), Top(t).todo = {}, Top(t).op \in {"stop", "restart"}
        PROVE  /\ stack' \in [Threads -> Seq(Frame)]
               /\ at' \in [Threads -> Points]
               /\ lock' \in Threads \cup {NoThread}
               /\ restarted' \in SUBSET Services
               /\ Inside'
    <2>1. CASE Top(t).op = "restart"
      BY <1>1, <1>6, <2>1, MoveTyped DEF AfterStop, Points, Typed, TypeOK
    <2>2. CASE Top(t).op # "restart"
      BY <1>1, <1>6, <2>2, ReturnTyped DEF AfterStop, Typed, TypeOK
    <2>3. QED
      BY <2>1, <2>2
  <1>7. CASE BeginStop(t)
    <2>1. Top(t).todo = {} /\ Top(t).op \in {"stop", "restart"}
      BY <1>7 DEF BeginStop, Walking
    <2>2. CASE pid[Top(t).svc] = NoPid
      BY <1>2, <1>6, <1>7, <2>1, <2>2 DEF BeginStop, Typed, TypeOK, procVars, States
    <2>3. CASE pid[Top(t).svc] # NoPid
      <3>1. /\ state' = [state EXCEPT ![Top(t).svc] = "STOPPING"]
            /\ at' = [at EXCEPT ![t] = "script"]
            /\ UNCHANGED <<lock, stack, restarted, pid, procVars, helper, job>>
        BY <1>7, <2>3 DEF BeginStop
      <3>2. stack' \in [Threads -> Seq(Frame)] /\ at' \in [Threads -> Points] /\ Inside'
        BY <1>1, <2>1, <3>1, MoveTyped DEF Points
      <3>3. QED
        BY <1>2, <3>1, <3>2 DEF Typed, TypeOK, procVars, States
    <2>4. QED
      BY <2>2, <2>3
  <1>8. CASE RunStopScript(t)
    <2>1. Top(t).todo = {} /\ Top(t).op \in {"stop", "restart"}
      BY <1>8 DEF RunStopScript, Typed, Inside
    <2>2. PICK q \in {"await", "term"} : at' = [at EXCEPT ![t] = q]
      BY <1>8 DEF RunStopScript
    <2>3. stack' \in [Threads -> Seq(Frame)] /\ at' \in [Threads -> Points] /\ Inside'
      BY <1>1, <1>8, <2>1, <2>2, MoveTyped DEF RunStopScript, Points
    <2>4. QED
      BY <1>8, <2>3 DEF RunStopScript, Fork, Typed, TypeOK
  <1>9. CASE AwaitStopScript(t)
    <2>1. Top(t).todo = {} /\ Top(t).op \in {"stop", "restart"}
      BY <1>9 DEF AwaitStopScript, Typed, Inside
    <2>2. stack' \in [Threads -> Seq(Frame)] /\ at' \in [Threads -> Points] /\ Inside'
      BY <1>1, <1>9, <2>1, MoveTyped DEF AwaitStopScript, Points
    <2>3. QED
      BY <1>9, <2>2 DEF AwaitStopScript, Typed, TypeOK
  <1>10. CASE ReapStopped(t) \/ KillGroup(t)
    <2>1. EndStop(t) /\ Top(t).todo = {} /\ Top(t).op \in {"stop", "restart"}
      BY <1>10 DEF ReapStopped, KillGroup, EndStop, Typed, Inside
    <2>2. /\ proc' \in [Pids -> {"unused", "running", "zombie", "reaped"}]
          /\ members' \in SUBSET Pids
      BY <1>10 DEF ReapStopped, KillGroup, Reaped, Typed, TypeOK
    <2>3. QED
      BY <1>2, <1>6, <2>1, <2>2 DEF EndStop, Typed, TypeOK, States
  <1>11. QED
    BY <1>3, <1>4, <1>5, <1>7, <1>8, <1>9, <1>10 DEF Critical

\* Every step keeps the types and the lock discipline.
LEMMA TypedStep == Typed /\ [Next]_vars => Typed'
  <1> SUFFICES ASSUME Typed, [Next]_vars PROVE Typed'
    OBVIOUS
  <1>1. ASSUME NEW t \in Threads, ClientCall(t) PROVE Typed'
    <2>1. PICK op \in Ops, g \in SUBSET Services, o \in BOOLEAN : Submit(t, op, g, o)
      BY <1>1, ConfigAssumption
         DEF ClientCall, StartGroup, StopGroup, StopAll, Restart, Ops
    <2>2. QED
      BY <2>1 DEF Submit, Typed, TypeOK, Inside, Job, Top, procVars
  <1>2. ASSUME NEW t \in Threads, Enter(t) PROVE Typed'
    <2>1. PICK s \in job[t].left :
             /\ stack[t] = <<>>
             /\ lock = NoThread
             /\ lock' = t
             /\ stack' = [stack EXCEPT ![t] = <<Call(job[t].op, s)>>]
             /\ job' = [job EXCEPT ![t].left = @ \ {s}]
             /\ restarted' = IF job[t].op = "restart" THEN restarted \cup {s} ELSE restarted
             /\ UNCHANGED <<state, pid, procVars, at, helper>>
      BY <1>2 DEF Enter
    <2>2. job[t] \in Job /\ job[t].op \in Ops /\ s \in Services
      BY <2>1 DEF Typed, TypeOK, Job
    <2>3. Call(job[t].op, s) \in Frame
      BY <2>2, CallType
    <2>4. <<Call(job[t].op, s)>> \in Seq(Frame) \ {<<>>}
      BY <2>3
    <2>5. job' \in [Threads -> Job]
      BY <2>1, <2>2 DEF Typed, TypeOK, Job
    <2>6. at[t] = "walk"
      BY <2>1 DEF Typed, TypeOK, Inside
    <2>7. Inside'
      BY <2>1, <2>4, <2>6, ConfigAssumption DEF Typed, TypeOK, Inside, Top
    <2>8. QED
      BY <2>1, <2>2, <2>4, <2>5, <2>7 DEF Typed, TypeOK, procVars
  <1>3. ASSUME NEW t \in Threads, Critical(t) PROVE Typed'
    BY <1>3, LoopStep, LeafStep
  <1>4. ASSUME NEW p \in Pids, Kernel(p) PROVE Typed'
    BY <1>4 DEF Kernel, Exit, SpawnMember, MemberExit, Typed, TypeOK, Inside, Top, threadVars
  <1>5. CASE UNCHANGED vars
    BY <1>5 DEF vars, procVars, threadVars, Typed, TypeOK, Inside, Top
  <1>6. QED
    BY <1>1, <1>2, <1>3, <1>4, <1>5 DEF Next

LEMMA TypedInit == Init => Typed
  BY ConfigAssumption, EmptySeq DEF Init, Typed, TypeOK, Inside, States, Points, Job, Ops

\* The type invariant, together with the lock discipline it rests on: a thread
\* is inside do_start, do_stop or restart exactly when it holds mutex_.
THEOREM TypeCorrect == Spec => [](TypeOK /\ Inside)
  <1>1. Spec => []Typed
    BY TypedInit, TypedStep, PTL DEF Spec
  <1>2. QED
    BY <1>1, PTL DEF Typed

-----------------------------------------------------------------------------
(***************************************************************************)
(* Children.                                                               *)
(***************************************************************************)

Stopping == {"script", "await", "term"}

\* STARTING and STOPPING are the states of the one service the lock holder is
\* forking or stopping at that moment.
Transient ==
    /\ \A t \in Threads :
          /\ at[t] = "fork" => state[Top(t).svc] = "STARTING"
          /\ at[t] \in Stopping => state[Top(t).svc] = "STOPPING"
    /\ \A s \in Services : \A t \in Threads :
          state[s] \in {"STARTING", "STOPPING"} /\ lock = t =>
              at[t] \in Stopping \cup {"fork"} /\ Top(t).svc = s
    /\ \A s \in Services :
          state[s] \in {"STARTING", "STOPPING"} => lock \in Threads

\* pid_ is set exactly while a service runs or is being stopped, and names a
\* process that was forked for it.
PidFits ==
    \A s \in Services :
        /\ pid[s] # NoPid <=> state[s] \in {"RUNNING", "STOPPING"}
        /\ pid[s] # NoPid => proc[pid[s]] # "unused" /\ owner[pid[s]] = s

ChildInv == Typed /\ Transient /\ PidFits /\ NoLostChild

\* Only the lock holder is anywhere but outside.
LEMMA OthersOutside ==
    ASSUME Typed, NEW t \in Threads, stack[t] # <<>>, NEW u \in Threads, u # t
    PROVE  lock = t /\ stack[u] = <<>> /\ at[u] = "walk"
  BY DEF Typed, Inside

\* A return, an unwinding and a move keep Transient when they leave the service
\* in the state that goes with the new point.
LEMMA TransientStep ==
    ASSUME Typed, Typed', Transient, NEW t \in Threads, stack[t] # <<>>,
           NEW s \in Services, s = Top(t).svc,
           \A u \in Threads \ {t} : at'[u] = at[u] /\ stack'[u] = stack[u],
           \A r \in Services \ {s} : state'[r] = state[r],
           \/ at'[t] = "fork" /\ state'[s] = "STARTING" /\ stack' = stack
           \/ at'[t] \in Stopping /\ state'[s] = "STOPPING" /\ stack' = stack
           \/ at'[t] \in {"walk", "start"} /\ state'[s] \notin {"STARTING", "STOPPING"}
    PROVE  Transient'
  <1>1. \A u \in Threads \ {t} : stack[u] = <<>> /\ at[u] = "walk" /\ at'[u] = "walk"
    BY OthersOutside
  <1>2. lock = t
    BY DEF Typed, Inside
  <1>3. \A r \in Services \ {s} : state'[r] \notin {"STARTING", "STOPPING"}
    BY <1>2 DEF Transient
  <1>4. \A u \in Threads : lock' = u => stack'[u] # <<>>
    BY DEF Typed, Inside
  <1>5. CASE at'[t] = "fork" /\ state'[s] = "STARTING" /\ stack' = stack
    <2>1. lock' = t /\ Top(t)' = Top(t)
      BY <1>5 DEF Typed, Inside, Top
    <2>2. QED
      BY <1>1, <1>3, <1>5, <2>1 DEF Transient, Stopping
  <1>6. CASE at'[t] \in Stopping /\ state'[s] = "STOPPING" /\ stack' = stack
    <2>1. lock' = t /\ Top(t)' = Top(t)
      BY <1>6 DEF Typed, Inside, Top
    <2>2. QED
      BY <1>1, <1>3, <1>6, <2>1 DEF Transient, Stopping
  <1>7. CASE at'[t] \in {"walk", "start"} /\ state'[s] \notin {"STARTING", "STOPPING"}
    BY <1>1, <1>3, <1>7 DEF Transient, Stopping
  <1>8. QED
    BY <1>5, <1>6, <1>7

\* What happens to pid_, the process table and the states is local to the
\* service of the innermost call.
LEMMA ChildCritical ==
    ASSUME ChildInv, NEW t \in Threads, Critical(t), Typed'
    PROVE  ChildInv'
  <1> DEFINE s == Top(t).svc
  <1> USE DEF ChildInv
  <1>1. stack[t] # <<>>
    BY DEF Critical, DoStart, DoStop, BeginStart, BeginStop, Spawn, SpawnFails, RunStopScript,
           AwaitStopScript, ReapStopped, KillGroup, EndStop, Walking, Typed, Inside
  <1>2. s \in Services /\ lock = t
    BY <1>1, TopType, OthersOutside DEF Typed, Inside
  <1>3. TypeOK /\ TypeOK'
    BY DEF Typed
  <1>4. CASE DoStart(t) \/ DoStop(t)
    <2>1. UNCHANGED <<state, pid, proc, owner, lock, at>> /\ at[t] = "walk"
      BY <1>4 DEF DoStart, DoStop, VisitDependency, VisitDependent, Walking, procVars
    <2>2. \A r \in Services : state[r] \notin {"STARTING", "STOPPING"}
      BY <1>2, <2>1 DEF Transient, Stopping
    <2>3. \A u \in Threads : at[u] = "walk"
      BY <1>1, <2>1, OthersOutside
    <2>4. Transient'
      BY <2>1, <2>2, <2>3 DEF Transient, Stopping
    <2>5. PidFits' /\ NoLostChild'
      BY <2>1 DEF PidFits, NoLostChild
    <2>6. QED
      BY <2>4, <2>5
  <1>5. CASE BeginStart(t)
    <2>1. /\ UNCHANGED <<pid, proc, owner>>
          /\ at[t] \in {"walk", "start"}
      BY <1>5 DEF BeginStart, Walking, procVars
    <2>2. state[s] \notin {"STARTING", "STOPPING"}
      BY <1>2, <2>1 DEF Transient, Stopping
    <2>3. CASE state[s] = "RUNNING"
      <3>1. UNCHANGED state /\ Return(t)
        BY <1>5, <2>3 DEF BeginStart
      <3>2. Transient'
        BY <1>1, <1>2, <1>3, <2>2, <3>1, TransientStep DEF Return, TypeOK
      <3>3. PidFits' /\ NoLostChild'
        BY <2>1, <3>1 DEF PidFits, NoLostChild
      <3>4. QED
        BY <3>2, <3>3
    <2>4. CASE state[s] # "RUNNING"
      <3>1. /\ state' = [state EXCEPT ![s] = "STARTING"]
            /\ at' = [at EXCEPT ![t] = "fork"]
            /\ UNCHANGED stack
        BY <1>5, <2>4 DEF BeginStart
      <3>2. Transient'
        BY <1>1, <1>2, <1>3, <3>1, TransientStep DEF TypeOK
      <3>3. pid[s] = NoPid
        BY <1>2, <2>2, <2>4 DEF PidFits
      <3>4. PidFits' /\ NoLostChild'
        BY <1>2, <1>3, <2>1, <2>2, <2>4, <3>1, <3>3, ConfigAssumption
           DEF PidFits, NoLostChild, TypeOK
      <3>5. QED
        BY <3>2, <3>4
    <2>5. QED
      BY <2>3, <2>4
  <1>6. CASE Spawn(t)
    <2>1. PICK p \in Pids :
             /\ at[t] = "fork"
             /\ Fork(p, s)
             /\ pid' = [pid EXCEPT ![s] = p]
             /\ state' = [state EXCEPT ![s] = "RUNNING"]
             /\ Return(t)
      BY <1>6 DEF Spawn
    <2>2. Transient'
      BY <1>1, <1>2, <1>3, <2>1, TransientStep DEF Return, TypeOK
    <2>3. state[s] = "STARTING" /\ pid[s] = NoPid
      BY <1>2, <2>1 DEF Transient, PidFits
    <2>4. \A r \in Services : pid[r] # p
      BY <2>1, ConfigAssumption DEF PidFits, Fork
    <2>5. PidFits'
      BY <1>2, <1>3, <2>1, <2>3, <2>4, ConfigAssumption DEF PidFits, Fork, TypeOK
    <2>6. NoLostChild'
      <3> SUFFICES ASSUME NEW q \in Pids, proc'[q] = "running", owner'[q] # NoService
                   PROVE  /\ pid'[owner'[q]] = q
                          /\ state'[owner'[q]] \in {"RUNNING", "STOPPING"}
        BY DEF NoLostChild
      <3>1. CASE q = p
        BY <1>2, <1>3, <2>1, <3>1 DEF Fork, TypeOK
      <3>2. CASE q # p
        <4>1. proc[q] = "running" /\ owner'[q] = owner[q] /\ owner[q] \in Services
          BY <1>3, <2>1, <3>2 DEF Fork, TypeOK
        <4>2. pid[owner[q]] = q /\ state[owner[q]] \in {"RUNNING", "STOPPING"}
          BY <4>1 DEF NoLostChild
        <4>3. owner[q] # s
          BY <2>3, <4>2
        <4>4. QED
          BY <1>3, <2>1, <4>1, <4>2, <4>3 DEF TypeOK
      <3>3. QED
        BY <3>1, <3>2
    <2>7. QED
      BY <2>2, <2>5, <2>6
  <1>7. CASE SpawnFails(t)
    <2>1. /\ at[t] = "fork"
          /\ state' = [state EXCEPT ![s] = "FAILED"]
          /\ Unwind(t)
          /\ UNCHANGED <<pid, proc, owner>>
      BY <1>7 DEF SpawnFails, procVars
    <2>2. Transient'
      BY <1>1, <1>2, <1>3, <2>1, TransientStep DEF Unwind, TypeOK
    <2>3. state[s] = "STARTING" /\ pid[s] = NoPid
      BY <1>2, <2>1 DEF Transient, PidFits
    <2>4. PidFits' /\ NoLostChild'
      BY <1>2, <1>3, <2>1, <2>3, ConfigAssumption DEF PidFits, NoLostChild, TypeOK
    <2>5. QED
      BY <2>2, <2>4
  <1>8. ASSUME AfterStop(t)
        PROVE  /\ at'[t] \in {"walk", "start"}
               /\ \A u \in Threads \ {t} : at'[u] = at[u] /\ stack'[u] = stack[u]
    BY <1>3, <1>8 DEF AfterStop, Return, TypeOK
  <1>9. CASE BeginStop(t)
    <2>1. /\ UNCHANGED <<pid, proc, owner>>
          /\ at[t] = "walk"
      BY <1>9 DEF BeginStop, Walking, procVars
    <2>2. state[s] \notin {"STARTING", "STOPPING"}
      BY <1>2, <2>1 DEF Transient, Stopping
    <2>3. CASE pid[s] = NoPid
      <3>1. state' = [state EXCEPT ![s] = "STOPPED"] /\ AfterStop(t)
        BY <1>9, <2>3 DEF BeginStop
      <3>2. /\ at'[t] \in {"walk", "start"} /\ state'[s] \notin {"STARTING", "STOPPING"}
            /\ \A u \in Threads \ {t} : at'[u] = at[u] /\ stack'[u] = stack[u]
            /\ \A r \in Services \ {s} : state'[r] = state[r]
        BY <1>2, <1>3, <1>8, <3>1 DEF TypeOK
      <3>5. Transient'
        BY <1>1, <1>2, <3>2, TransientStep
      <3>3. PidFits' /\ NoLostChild'
        BY <1>2, <1>3, <2>1, <2>3, <3>1, ConfigAssumption DEF PidFits, NoLostChild, TypeOK
      <3>4. QED
        BY <3>3, <3>5
    <2>4. CASE pid[s] # NoPid
      <3>1. /\ state' = [state EXCEPT ![s] = "STOPPING"]
            /\ at' = [at EXCEPT ![t] = "script"]
            /\ UNCHANGED stack
        BY <1>9, <2>4 DEF BeginStop
      <3>2. Transient'
        BY <1>1, <1>2, <1>3, <3>1, TransientStep DEF TypeOK, Stopping
      <3>3. PidFits' /\ NoLostChild'
        BY <1>2, <1>3, <2>1, <2>4, <3>1, ConfigAssumption DEF PidFits, NoLostChild, TypeOK
      <3>4. QED
        BY <3>2, <3>3
    <2>5. QED
      BY <2>3, <2>4
  <1>10. CASE RunStopScript(t) \/ AwaitStopScript(t)
    <2>1. /\ at[t] \in Stopping
          /\ UNCHANGED <<state, pid, lock, stack>>
          /\ at'[t] \in Stopping
          /\ \A u \in Threads \ {t} : at'[u] = at[u]
      BY <1>3, <1>10 DEF RunStopScript, AwaitStopScript, TypeOK, Stopping
    <2>2. state[s] = "STOPPING"
      BY <2>1 DEF Transient
    <2>3. Transient'
      BY <1>1, <1>2, <2>1, <2>2, TransientStep
    <2>4. PidFits' /\ NoLostChild'
      <3>1. CASE AwaitStopScript(t)
        BY <1>3, <2>1, <3>1 DEF AwaitStopScript, PidFits, NoLostChild, TypeOK
      <3>2. CASE RunStopScript(t)
        <4>1. CASE UNCHANGED <<proc, owner>>
          BY <2>1, <4>1 DEF PidFits, NoLostChild
        <4>2. CASE \E p \in Pids : Fork(p, NoService)
          <5>1. PICK p \in Pids : Fork(p, NoService)
            BY <4>2
          <5>2. \A r \in Services : pid[r] # p
            BY <5>1, ConfigAssumption DEF PidFits, Fork
          <5>3. PidFits' /\ NoLostChild'
            BY <1>3, <2>1, <5>1, <5>2, ConfigAssumption DEF Fork, PidFits, NoLostChild, TypeOK
          <5>4. QED
            BY <5>3
        <4>3. QED
          BY <3>2, <4>1, <4>2 DEF RunStopScript
      <3>3. QED
        BY <1>10, <3>1, <3>2
    <2>5. QED
      BY <2>3, <2>4
  <1>11. CASE ReapStopped(t) \/ KillGroup(t)
    <2>1. /\ at[t] \in Stopping
          /\ pid' = [pid EXCEPT ![s] = NoPid]
          /\ state' = [state EXCEPT ![s] = "STOPPED"]
          /\ AfterStop(t)
          /\ UNCHANGED owner
      BY <1>11 DEF ReapStopped, KillGroup, EndStop, Stopping
    <2>2. Transient'
      <3>1. /\ at'[t] \in {"walk", "start"} /\ state'[s] \notin {"STARTING", "STOPPING"}
            /\ \A u \in Threads \ {t} : at'[u] = at[u] /\ stack'[u] = stack[u]
            /\ \A r \in Services \ {s} : state'[r] = state[r]
        BY <1>2, <1>3, <1>8, <2>1 DEF TypeOK
      <3>2. QED
        BY <1>1, <1>2, <3>1, TransientStep
    <2>3. state[s] = "STOPPING" /\ pid[s] # NoPid /\ pid[s] \in Pids
      BY <1>2, <1>3, <2>1 DEF Transient, PidFits, TypeOK
    <2>4. /\ proc'[pid[s]] # "running"
          /\ \A p \in Pids : /\ proc'[p] = "running" => proc[p] = "running"
                             /\ proc[p] # "unused" => proc'[p] # "unused"
      BY <1>3, <1>11, <2>3 DEF ReapStopped, KillGroup, Reaped, TypeOK
    <2>5. PidFits'
      BY <1>2, <1>3, <2>1, <2>4, ConfigAssumption DEF PidFits, TypeOK
    <2>6. NoLostChild'
      BY <1>2, <1>3, <2>1, <2>3, <2>4, ConfigAssumption DEF NoLostChild, TypeOK
    <2>7. QED
      BY <2>2, <2>5, <2>6
  <1>12. QED
    BY <1>4, <1>5, <1>6, <1>7, <1>9, <1>10, <1>11 DEF Critical

LEMMA ChildStep == ChildInv /\ [Next]_vars => ChildInv'
  <1> SUFFICES ASSUME ChildInv, [Next]_vars PROVE ChildInv'
    OBVIOUS
  <1>0. Typed' /\ Typed
    BY TypedStep DEF ChildInv
  <1>1. ASSUME NEW t \in Threads, ClientCall(t) PROVE ChildInv'
    <2>1. UNCHANGED <<state, pid, proc, owner, lock, stack, at>>
      BY <1>1 DEF ClientCall, StartGroup, StopGroup, StopAll, Restart, Submit, procVars
    <2>2. QED
      BY <1>0, <2>1 DEF ChildInv, Transient, PidFits, NoLostChild, Top
  <1>2. ASSUME NEW t \in Threads, Enter(t) PROVE ChildInv'
    <2>1. /\ UNCHANGED <<state, pid, proc, owner, at>>
          /\ lock = NoThread
      BY <1>2 DEF Enter, procVars
    <2>2. /\ \A u \in Threads : at[u] = "walk"
          /\ \A r \in Services : state[r] \notin {"STARTING", "STOPPING"}
      BY <1>0, <2>1, ConfigAssumption DEF Typed, TypeOK, Inside, ChildInv, Transient
    <2>3. QED
      BY <1>0, <2>1, <2>2 DEF ChildInv, Transient, PidFits, NoLostChild, Stopping
  <1>3. ASSUME NEW t \in Threads, Critical(t) PROVE ChildInv'
    BY <1>0, <1>3, ChildCritical
  <1>4. ASSUME NEW p \in Pids, Kernel(p) PROVE ChildInv'
    <2>1. UNCHANGED <<state, pid, owner, lock, stack, at>>
      BY <1>4 DEF Kernel, Exit, SpawnMember, MemberExit, threadVars
    <2>2. \A q \in Pids : /\ proc'[q] = "running" => proc[q] = "running"
                          /\ proc[q] # "unused" => proc'[q] # "unused"
      BY <1>0, <1>4 DEF Kernel, Exit, SpawnMember, MemberExit, Typed, TypeOK
    <2>3. PidFits' /\ NoLostChild'
      <3>1. PidFits'
        BY <1>0, <2>1, <2>2, ConfigAssumption DEF ChildInv, PidFits, Typed, TypeOK
      <3>2. NoLostChild'
        BY <2>1, <2>2 DEF ChildInv, NoLostChild
      <3>3. QED
        BY <3>1, <3>2
    <2>4. QED
      BY <1>0, <2>1, <2>3 DEF ChildInv, Transient, Top
  <1>5. CASE UNCHANGED vars
    BY <1>0, <1>5 DEF vars, procVars, threadVars, ChildInv, Transient, PidFits, NoLostChild, Top
  <1>6. QED
    BY <1>1, <1>2, <1>3, <1>4, <1>5 DEF Next

LEMMA ChildInit == Init => ChildInv
  <1> SUFFICES ASSUME Init PROVE ChildInv
    OBVIOUS
  <1>1. Typed
    BY TypedInit
  <1>2. QED
    BY <1>1 DEF Init, ChildInv, Transient, PidFits, NoLostChild, Stopping

\* No service ever has a live child its pid_ does not name: there are never two
\* instances of one service, and a service that is not RUNNING or STOPPING has
\* no live leader process.
THEOREM ChildrenTracked == Spec => []NoLostChild
  <1>1. Spec => []ChildInv
    BY ChildInit, ChildStep, PTL DEF Spec
  <1>2. QED
    BY <1>1, PTL DEF ChildInv

-----------------------------------------------------------------------------
(***************************************************************************)
(* The recursion.  A nested call is of the kind of the call it serves, and *)
(* what a loop has passed is as the loop left it: a dependency RUNNING, a  *)
(* dependent not, unless it is the one being worked on further up.         *)
(***************************************************************************)

Passed(t, i, n) ==
    /\ n \notin stack[t][i].todo
    /\ i < Len(stack[t]) => stack[t][i + 1].svc # n

FrameFits(t, i) ==
    /\ stack[t][i].op = Top(t).op
    /\ i < Len(stack[t]) => stack[t][i].op # "restart"
    /\ stack[t][i].op = "start" =>
          \A d \in Registered(stack[t][i].svc) :
              Passed(t, i, d) => state[d] = "RUNNING"
    /\ stack[t][i].op = "stop" =>
          \A o \in Services \ {stack[t][i].svc} :
              Passed(t, i, o) /\ stack[t][i].svc \in Deps[o] => state[o] # "RUNNING"
    /\ stack[t][i].op = "restart" => stack[t][i].svc \in restarted

CallsFit == \A t \in Threads : \A i \in 1 .. Len(stack[t]) : FrameFits(t, i)

\* A step inside the innermost call that moves the state of its service in the
\* direction of the call.
LEMMA FitsMove ==
    ASSUME CallsFit, stack' = stack, restarted' = restarted, NEW t \in Threads,
           \A u \in Threads \ {t} : stack[u] = <<>>,
           Top(t).op = "start" =>
               \A r \in Services : state[r] = "RUNNING" => state'[r] = "RUNNING",
           Top(t).op = "stop" =>
               \A r \in Services : state'[r] = "RUNNING" => state[r] = "RUNNING"
    PROVE  CallsFit'
  <1>1. ASSUME NEW i \in 1 .. Len(stack[t]) PROVE FrameFits(t, i)'
    BY <1>1 DEF CallsFit, FrameFits, Passed, Top, Registered
  <1>2. \A u \in Threads \ {t} : 1 .. Len(stack'[u]) = {}
    OBVIOUS
  <1>3. QED
    BY <1>1, <1>2 DEF CallsFit

\* A return: the caller finds the service of the innermost call as it wanted it.
LEMMA FitsReturn ==
    ASSUME Typed, CallsFit, NEW t \in Threads, stack[t] # <<>>, Return(t),
           \A u \in Threads \ {t} : stack[u] = <<>>,
           \A r \in restarted \ restarted' : Top(t).op # "restart",
           Top(t).op = "start" =>
               /\ \A r \in Services : state[r] = "RUNNING" => state'[r] = "RUNNING"
               /\ state'[Top(t).svc] = "RUNNING",
           Top(t).op = "stop" =>
               /\ \A r \in Services : state'[r] = "RUNNING" => state[r] = "RUNNING"
               /\ state'[Top(t).svc] # "RUNNING"
    PROVE  CallsFit'
  <1> DEFINE L == Len(stack[t])
  <1>1. /\ L \in Nat \ {0}
        /\ Len(stack'[t]) = L - 1
        /\ \A i \in 1 .. L - 1 : stack'[t][i] = stack[t][i]
    BY PopType, TopType DEF Return, Typed, TypeOK
  <1>2. \A i \in 1 .. L : FrameFits(t, i)
    BY DEF CallsFit
  <1> HIDE DEF L
  <1>3. ASSUME NEW i \in 1 .. L - 1 PROVE FrameFits(t, i)'
    <2>1. /\ stack[t][i].op = Top(t).op
          /\ stack[t][i].op # "restart"
          /\ stack'[t][i] = stack[t][i]
          /\ i \in 1 .. L
          /\ L - 1 \in 1 .. L
      BY <1>1, <1>2 DEF FrameFits, L
    <2>2. Top(t)' = stack[t][L - 1] /\ stack[t][L - 1].op = Top(t).op
      BY <1>1, <1>2, <2>1 DEF Top, FrameFits
    <2>3. ASSUME NEW n, Passed(t, i, n)' PROVE Passed(t, i, n) \/ n = Top(t).svc
      <3>1. CASE i < L - 1
        BY <1>1, <2>1, <2>3, <3>1, SMTT(30) DEF Passed, L
      <3>2. CASE i = L - 1
        BY <1>1, <2>1, <2>3, <3>2 DEF Passed, L, Top
      <3>3. QED
        BY <1>1, <3>1, <3>2
    <2>4. CASE Top(t).op = "start"
      <3>1. \A d \in Registered(stack[t][i].svc) : Passed(t, i, d)' => state'[d] = "RUNNING"
        BY <1>2, <2>1, <2>3, <2>4 DEF FrameFits, Registered
      <3>2. QED
        BY <2>1, <2>2, <2>4, <3>1 DEF FrameFits, Registered
    <2>5. CASE Top(t).op = "stop"
      <3>1. \A o \in Services \ {stack[t][i].svc} :
               Passed(t, i, o)' /\ stack[t][i].svc \in Deps[o] => state'[o] # "RUNNING"
        BY <1>2, <2>1, <2>3, <2>5 DEF FrameFits
      <3>2. QED
        BY <2>1, <2>2, <2>5, <3>1 DEF FrameFits
    <2>6. QED
      BY <2>1, <2>4, <2>5, TopType DEF Typed, Ops
  <1>4. \A u \in Threads \ {t} : 1 .. Len(stack'[u]) = {}
    BY DEF Return, Typed, TypeOK
  <1>5. QED
    BY <1>1, <1>3, <1>4 DEF CallsFit

\* A loop passes a name that is as the loop wants it.
LEMMA FitsVisit ==
    ASSUME Typed, CallsFit, NEW t \in Threads, stack[t] # <<>>, NEW n \in Names,
           \A u \in Threads \ {t} : stack[u] = <<>>,
           stack' = [stack EXCEPT ![t] = Visited(t, n)], UNCHANGED <<state, restarted>>,
           Top(t).op = "start" /\ n \in Services => state[n] = "RUNNING",
           Top(t).op = "stop" /\ Top(t).svc \in Deps[n] => state[n] # "RUNNING"
    PROVE  CallsFit'
  <1>0. PICK L \in Nat \ {0} : L = Len(stack[t])
    BY TopType DEF Typed
  <1>1. stack'[t] = Visited(t, n) /\ \A u \in Threads \ {t} : stack'[u] = <<>>
    BY DEF Typed, TypeOK
  <1>2. /\ Len(stack'[t]) = L
        /\ \A i \in 1 .. L :
              /\ stack'[t][i].op = stack[t][i].op
              /\ stack'[t][i].svc = stack[t][i].svc
              /\ stack'[t][i].todo = IF i = L THEN Top(t).todo \ {n} ELSE stack[t][i].todo
    <2>1. TypeOK /\ n \in Names
      BY ConfigAssumption DEF Typed
    <2>2. /\ Visited(t, n) \in Seq(Frame)
          /\ Len(Visited(t, n)) = Len(stack[t])
          /\ \A i \in 1 .. Len(stack[t]) :
                /\ Visited(t, n)[i].op = stack[t][i].op
                /\ Visited(t, n)[i].svc = stack[t][i].svc
                /\ Visited(t, n)[i].todo =
                      IF i = Len(stack[t]) THEN Top(t).todo \ {n} ELSE stack[t][i].todo
      BY <2>1, VisitedType
    <2>3. QED
      BY <1>0, <1>1, <2>2
  <1>3. Top(t) = stack[t][L] /\ Top(t)' = stack'[t][L]
    BY <1>0, <1>2 DEF Top
  <1>4. \A i \in 1 .. L : FrameFits(t, i)
    BY <1>0 DEF CallsFit
  <1>5. ASSUME NEW i \in 1 .. L PROVE FrameFits(t, i)'
    <2>1. /\ stack'[t][i].op = stack[t][i].op
          /\ stack'[t][i].svc = stack[t][i].svc
          /\ stack'[t][i].op = Top(t)'.op
          /\ i < L => stack[t][i].op # "restart" /\ stack'[t][i + 1].svc = stack[t][i + 1].svc
      BY <1>0, <1>2, <1>3, <1>4 DEF FrameFits
    <2>2. ASSUME NEW x, Passed(t, i, x)' PROVE Passed(t, i, x) \/ (i = L /\ x = n)
      BY <1>0, <1>2, <1>3, <2>1, <2>2 DEF Passed
    <2>3. i = L => stack[t][i].op = Top(t).op /\ stack[t][i].svc = Top(t).svc
      BY <1>3
    <2>4. stack[t][i].op = "start" =>
            \A d \in Registered(stack[t][i].svc) : Passed(t, i, d)' => state[d] = "RUNNING"
      BY <1>4, <2>2, <2>3 DEF FrameFits, Registered
    <2>5. stack[t][i].op = "stop" =>
            \A o \in Services \ {stack[t][i].svc} :
               Passed(t, i, o)' /\ stack[t][i].svc \in Deps[o] => state[o] # "RUNNING"
      BY <1>4, <2>2, <2>3 DEF FrameFits
    <2>6. stack[t][i].op = "restart" => stack[t][i].svc \in restarted
      BY <1>4 DEF FrameFits
    <2>7. i < Len(stack'[t]) => stack'[t][i].op # "restart"
      BY <1>0, <1>2, <2>1
    <2>8. QED
      BY <2>1, <2>4, <2>5, <2>6, <2>7 DEF FrameFits, Registered
  <1>6. \A u \in Threads \ {t} : 1 .. Len(stack'[u]) = {}
    BY <1>1
  <1>7. QED
    BY <1>2, <1>5, <1>6 DEF CallsFit

\* A loop calls itself for a name that is not as it wants it.
LEMMA FitsPush ==
    ASSUME Typed, CallsFit, NEW t \in Threads, stack[t] # <<>>, NEW n \in Services,
           \A u \in Threads \ {t} : stack[u] = <<>>, Top(t).op \in {"start", "stop"},
           stack' = [stack EXCEPT ![t] = Append(Visited(t, n), Call(Top(t).op, n))],
           UNCHANGED <<state, restarted>>
    PROVE  CallsFit'
  <1> DEFINE new == Call(Top(t).op, n)
  <1>0. PICK L \in Nat \ {0} : L = Len(stack[t])
    BY TopType DEF Typed
  <1>1. /\ stack'[t] = Append(Visited(t, n), new)
        /\ \A u \in Threads \ {t} : stack'[u] = <<>>
    BY DEF Typed, TypeOK
  <1>2. /\ Visited(t, n) \in Seq(Frame)
        /\ Len(Visited(t, n)) = L
        /\ \A i \in 1 .. L :
              /\ Visited(t, n)[i].op = stack[t][i].op
              /\ Visited(t, n)[i].svc = stack[t][i].svc
              /\ Visited(t, n)[i].todo = IF i = L THEN Top(t).todo \ {n} ELSE stack[t][i].todo
    <2>1. TypeOK /\ n \in Names
      BY ConfigAssumption DEF Typed
    <2>2. /\ Visited(t, n) \in Seq(Frame)
          /\ Len(Visited(t, n)) = Len(stack[t])
          /\ \A i \in 1 .. Len(stack[t]) :
                /\ Visited(t, n)[i].op = stack[t][i].op
                /\ Visited(t, n)[i].svc = stack[t][i].svc
                /\ Visited(t, n)[i].todo =
                      IF i = Len(stack[t]) THEN Top(t).todo \ {n} ELSE stack[t][i].todo
      BY <2>1, VisitedType
    <2>3. QED
      BY <1>0, <2>2
  <1>3. new \in Frame /\ new.op = Top(t).op /\ new.svc = n
    BY CallType DEF Ops
  <1>4. /\ Top(t).op = "start" => new.todo = Deps[n]
        /\ Top(t).op = "stop" => new.todo = Services \ {n}
    BY DEF Call
  <1> HIDE DEF new
  <1>5. /\ Len(stack'[t]) = L + 1
        /\ stack'[t][L + 1] = new
        /\ \A i \in 1 .. L : stack'[t][i] = Visited(t, n)[i]
    BY <1>0, <1>1, <1>2, <1>3, AppendProperties
  <1>6. Top(t) = stack[t][L] /\ Top(t)' = new
    BY <1>0, <1>5 DEF Top
  <1>7. \A i \in 1 .. L : FrameFits(t, i)
    BY <1>0 DEF CallsFit
  <1>8. ASSUME NEW i \in 1 .. L PROVE FrameFits(t, i)'
    <2>1. /\ stack'[t][i].op = stack[t][i].op
          /\ stack'[t][i].svc = stack[t][i].svc
          /\ stack'[t][i].todo = IF i = L THEN Top(t).todo \ {n} ELSE stack[t][i].todo
      BY <1>2, <1>5
    <2>8. i < L => stack'[t][i + 1].svc = stack[t][i + 1].svc
      BY <1>2, <1>5
    <2>9. i = L => stack'[t][i + 1].svc = n
      BY <1>3, <1>5
    <2>2. stack[t][i].op = Top(t).op
      BY <1>7 DEF FrameFits
    <2>3. ASSUME NEW x, Passed(t, i, x)' PROVE Passed(t, i, x)
      BY <1>0, <1>5, <1>6, <2>1, <2>3, <2>8, <2>9 DEF Passed
    <2>4. stack[t][i].op = "start" =>
            \A d \in Registered(stack[t][i].svc) : Passed(t, i, d)' => state[d] = "RUNNING"
      BY <1>7, <2>3 DEF FrameFits, Registered
    <2>5. stack[t][i].op = "stop" =>
            \A o \in Services \ {stack[t][i].svc} :
               Passed(t, i, o)' /\ stack[t][i].svc \in Deps[o] => state[o] # "RUNNING"
      BY <1>7, <2>3 DEF FrameFits
    <2>6. stack'[t][i].op = Top(t)'.op /\ stack'[t][i].op # "restart"
      BY <1>3, <1>6, <2>1, <2>2
    <2>7. QED
      BY <2>1, <2>4, <2>5, <2>6 DEF FrameFits, Registered
  <1>9. FrameFits(t, L + 1)'
    <2>1. \A d \in Registered(n) : ~Passed(t, L + 1, d)' \/ Top(t).op # "start"
      BY <1>4, <1>5 DEF Passed, Registered
    <2>2. \A o \in Services \ {n} : ~Passed(t, L + 1, o)' \/ Top(t).op # "stop"
      BY <1>4, <1>5 DEF Passed
    <2>3. Top(t)'.op = Top(t).op /\ Top(t)'.svc = n /\ stack'[t][L + 1] = Top(t)'
      BY <1>3, <1>5, <1>6
    <2>4. L + 1 < Len(stack'[t]) => FALSE
      BY <1>2, <1>5
    <2>5. QED
      BY <2>1, <2>2, <2>3, <2>4 DEF FrameFits, Registered
  <1>10. \A u \in Threads \ {t} : 1 .. Len(stack'[u]) = {}
    BY <1>1
  <1>11. 1 .. Len(stack'[t]) = 1 .. L \cup {L + 1}
    BY <1>2, <1>5
  <1>12. QED
    BY <1>8, <1>9, <1>10, <1>11 DEF CallsFit

\* One service changes state: up only with its dependencies up, down only with
\* its dependents down, unless it is a restart's.
LEMMA DepsMove ==
    ASSUME Typed, DepsRunning, NEW s \in Services,
           \A r \in Services \ {s} : state'[r] = state[r],
           restarted \ {s} \subseteq restarted',
           s \notin restarted' /\ state'[s] = "RUNNING" =>
               \A d \in Registered(s) : state'[d] = "RUNNING",
           s \notin restarted' /\ state'[s] # "RUNNING" =>
               \A o \in Services \ {s} :
                   s \in Deps[o] => state'[o] # "RUNNING" \/ o \in restarted'
    PROVE  DepsRunning'
  <1> SUFFICES ASSUME NEW o \in Services, NEW d \in Registered(o),
                      o \notin restarted', d \notin restarted', state'[o] = "RUNNING"
               PROVE  state'[d] = "RUNNING"
    BY DEF DepsRunning, Registered
  <1>1. CASE o = s
    BY <1>1
  <1>2. CASE o # s /\ d = s
    BY <1>2 DEF Registered
  <1>3. CASE o # s /\ d # s
    BY <1>3 DEF DepsRunning, Registered
  <1>4. QED
    BY <1>1, <1>2, <1>3

DepsInv == ChildInv /\ CallsFit /\ DepsRunning

\* ProcessService::stop has left its service STOPPED: on to the caller.
LEMMA DepsStopped ==
    ASSUME DepsInv, NEW t \in Threads, stack[t] # <<>>, AfterStop(t),
           Top(t).todo = {}, Top(t).op \in {"stop", "restart"},
           state' = [state EXCEPT ![Top(t).svc] = "STOPPED"]
    PROVE  CallsFit' /\ DepsRunning'
  <1>1. PICK s \in Services : s = Top(t).svc
    BY TopType DEF DepsInv, ChildInv, Typed
  <1>2. /\ Typed /\ CallsFit /\ DepsRunning
        /\ \A u \in Threads \ {t} : stack[u] = <<>>
    BY OthersOutside DEF DepsInv, ChildInv
  <1>3. state'[s] = "STOPPED" /\ \A r \in Services \ {s} : state'[r] = state[r]
    BY <1>1, <1>2 DEF Typed, TypeOK
  <1>4. Len(stack[t]) \in 1 .. Len(stack[t]) /\ FrameFits(t, Len(stack[t]))
    BY <1>2, TopType DEF CallsFit, Typed
  <1>5. CASE Top(t).op = "restart"
    <2>1. stack' = stack /\ restarted' = restarted
      BY <1>5 DEF AfterStop
    <2>2. CallsFit'
      BY <1>2, <1>5, <2>1, FitsMove
    <2>3. s \in restarted
      BY <1>1, <1>4, <1>5 DEF FrameFits, Top
    <2>4. QED
      BY <1>2, <1>3, <2>1, <2>2, <2>3, DepsMove
  <1>6. CASE Top(t).op = "stop"
    <2>1. Return(t) /\ restarted' = restarted \ {s}
      BY <1>1, <1>6 DEF AfterStop
    <2>2. CallsFit'
      BY <1>1, <1>2, <1>3, <1>6, <2>1, FitsReturn
    <2>3. \A o \in Services \ {s} : s \in Deps[o] => state[o] # "RUNNING"
      BY <1>1, <1>4, <1>6, TopType DEF FrameFits, Passed, Top
    <2>4. QED
      BY <1>2, <1>3, <2>1, <2>2, <2>3, DepsMove
  <1>7. QED
    BY <1>5, <1>6

\* The step of the thread inside the manager.
LEMMA DepsCritical ==
    ASSUME DepsInv, NEW t \in Threads, Critical(t)
    PROVE  CallsFit' /\ DepsRunning'
  <1>1. /\ Typed /\ Transient /\ CallsFit /\ DepsRunning
        /\ TypeOK /\ Inside
    BY DEF DepsInv, ChildInv, Typed
  <1>2. stack[t] # <<>>
    BY <1>1 DEF Critical, DoStart, DoStop, BeginStart, BeginStop, Spawn, SpawnFails,
       RunStopScript, AwaitStopScript, ReapStopped, KillGroup, EndStop, Walking, Inside
  <1>3. PICK s \in Services : s = Top(t).svc
    BY <1>1, <1>2, TopType
  <1>4. \A u \in Threads \ {t} : stack[u] = <<>>
    BY <1>1, <1>2, OthersOutside
  <1>5. Len(stack[t]) \in 1 .. Len(stack[t]) /\ FrameFits(t, Len(stack[t]))
    BY <1>1, <1>2, TopType DEF CallsFit
  <1>6. Top(t).op = "restart" => s \in restarted
    BY <1>3, <1>5 DEF FrameFits, Top
  <1>7. Top(t).op = "start" /\ Top(t).todo = {} =>
           \A d \in Registered(s) : state[d] = "RUNNING"
    BY <1>3, <1>5 DEF FrameFits, Passed, Top
  <1>8. Top(t).op = "stop" /\ Top(t).todo = {} =>
           \A o \in Services \ {s} : s \in Deps[o] => state[o] # "RUNNING"
    BY <1>3, <1>5 DEF FrameFits, Passed, Top
  <1>9. CASE DoStart(t)
    <2>1. PICK d \in Top(t).todo :
             stack' = [stack EXCEPT ![t] =
                         IF d \in Services /\ state[d] # "RUNNING"
                         THEN Append(Visited(t, d), Call("start", d))
                         ELSE Visited(t, d)]
      BY <1>9 DEF DoStart, VisitDependency
    <2>2. /\ UNCHANGED <<state, restarted>>
          /\ Top(t).op = "start"
          /\ d \in Names
      BY <1>1, <1>2, <1>9, TopType DEF DoStart, VisitDependency, Walking
    <2>3. CallsFit'
      <3>1. CASE d \in Services /\ state[d] # "RUNNING"
        <4>1. stack' = [stack EXCEPT ![t] = Append(Visited(t, d), Call(Top(t).op, d))]
          BY <2>1, <2>2, <3>1
        <4>2. QED
          BY <1>1, <1>2, <1>4, <2>2, <3>1, <4>1, FitsPush
      <3>2. CASE ~(d \in Services /\ state[d] # "RUNNING")
        <4>1. stack' = [stack EXCEPT ![t] = Visited(t, d)]
          BY <2>1, <3>2
        <4>2. QED
          BY <1>1, <1>2, <1>4, <2>2, <3>2, <4>1, FitsVisit
      <3>3. QED
        BY <3>1, <3>2
    <2>4. QED
      BY <1>1, <2>2, <2>3 DEF DepsRunning, Registered
  <1>10. CASE DoStop(t)
    <2>1. PICK o \in Top(t).todo :
             stack' = [stack EXCEPT ![t] =
                         IF state[o] = "RUNNING" /\ Top(t).svc \in Deps[o]
                         THEN Append(Visited(t, o), Call("stop", o))
                         ELSE Visited(t, o)]
      BY <1>10 DEF DoStop, VisitDependent
    <2>2. /\ UNCHANGED <<state, restarted>>
          /\ Top(t).op = "stop"
          /\ o \in Services
          /\ o \in Names
      BY <1>1, <1>2, <1>10, TopType, ConfigAssumption
         DEF DoStop, VisitDependent, Walking, Frame
    <2>3. CallsFit'
      <3>1. CASE state[o] = "RUNNING" /\ Top(t).svc \in Deps[o]
        <4>1. stack' = [stack EXCEPT ![t] = Append(Visited(t, o), Call(Top(t).op, o))]
          BY <2>1, <2>2, <3>1
        <4>2. QED
          BY <1>1, <1>2, <1>4, <2>2, <3>1, <4>1, FitsPush
      <3>2. CASE ~(state[o] = "RUNNING" /\ Top(t).svc \in Deps[o])
        <4>1. stack' = [stack EXCEPT ![t] = Visited(t, o)]
          BY <2>1, <3>2
        <4>2. QED
          BY <1>1, <1>2, <1>4, <2>2, <3>2, <4>1, FitsVisit
      <3>3. QED
        BY <3>1, <3>2
    <2>4. QED
      BY <1>1, <2>2, <2>3 DEF DepsRunning, Registered
  <1>11. CASE BeginStart(t)
    <2>1. /\ restarted' = restarted
          /\ Top(t).op # "stop"
      BY <1>1, <1>11 DEF BeginStart, Walking, Inside
    <2>2. CASE state[s] = "RUNNING"
      <3>1. Return(t) /\ state' = state
        BY <1>3, <1>11, <2>2 DEF BeginStart
      <3>2. CallsFit'
        BY <1>1, <1>2, <1>3, <1>4, <2>1, <2>2, <3>1, FitsReturn
      <3>3. QED
        BY <1>1, <2>1, <3>1, <3>2 DEF DepsRunning, Registered
    <2>3. CASE state[s] # "RUNNING"
      <3>1. state' = [state EXCEPT ![s] = "STARTING"] /\ stack' = stack
        BY <1>3, <1>11, <2>3 DEF BeginStart
      <3>2. /\ state'[s] = "STARTING"
            /\ \A r \in Services \ {s} : state'[r] = state[r]
        BY <1>1, <3>1 DEF TypeOK
      <3>3. CallsFit'
        BY <1>1, <1>4, <2>1, <2>3, <3>1, <3>2, FitsMove
      <3>4. DepsRunning'
        BY <1>1, <2>1, <2>3, <3>2 DEF DepsRunning, Registered
      <3>5. QED
        BY <3>3, <3>4
    <2>4. QED
      BY <2>2, <2>3
  <1>12. CASE Spawn(t)
    <2>1. /\ at[t] = "fork"
          /\ state' = [state EXCEPT ![s] = "RUNNING"]
          /\ restarted' = IF Top(t).op = "restart" THEN restarted ELSE restarted \ {s}
          /\ Return(t)
      BY <1>3, <1>12 DEF Spawn
    <2>2. Top(t).todo = {} /\ Top(t).op \in {"start", "restart"}
      BY <1>1, <2>1 DEF Inside
    <2>3. /\ state'[s] = "RUNNING"
          /\ \A r \in Services \ {s} : state'[r] = state[r]
      BY <1>1, <2>1 DEF TypeOK
    <2>4. CallsFit'
      BY <1>1, <1>2, <1>3, <1>4, <2>1, <2>2, <2>3, FitsReturn
    <2>5. \/ s \in restarted'
          \/ \A d \in Registered(s) : state'[d] = "RUNNING"
      BY <1>6, <1>7, <2>1, <2>2, <2>3 DEF Registered
    <2>6. DepsRunning'
      BY <1>1, <2>1, <2>3, <2>5, DepsMove
    <2>7. QED
      BY <2>4, <2>6
  <1>13. CASE SpawnFails(t)
    <2>1. /\ at[t] = "fork"
          /\ state' = [state EXCEPT ![s] = "FAILED"]
          /\ Unwind(t)
          /\ restarted' = restarted
      BY <1>3, <1>13 DEF SpawnFails
    <2>2. state[s] = "STARTING"
      BY <1>1, <1>3, <2>1 DEF Transient
    <2>3. \A u \in Threads : 1 .. Len(stack'[u]) = {}
      BY <1>1, <1>4, <2>1 DEF Unwind, TypeOK
    <2>4. CallsFit'
      BY <2>3 DEF CallsFit
    <2>5. DepsRunning'
      BY <1>1, <2>1, <2>2 DEF DepsRunning, Registered, TypeOK
    <2>6. QED
      BY <2>4, <2>5
  <1>14. CASE BeginStop(t)
    <2>1. Top(t).todo = {} /\ Top(t).op \in {"stop", "restart"}
      BY <1>14 DEF BeginStop, Walking
    <2>2. CASE pid[s] = NoPid
      <3>1. state' = [state EXCEPT ![s] = "STOPPED"] /\ AfterStop(t)
        BY <1>3, <1>14, <2>2 DEF BeginStop
      <3>2. QED
        BY <1>2, <1>3, <2>1, <3>1, DepsStopped
    <2>3. CASE pid[s] # NoPid
      <3>1. /\ state' = [state EXCEPT ![s] = "STOPPING"]
            /\ stack' = stack
            /\ restarted' = restarted
        BY <1>3, <1>14, <2>3 DEF BeginStop
      <3>2. /\ state'[s] = "STOPPING"
            /\ \A r \in Services \ {s} : state'[r] = state[r]
        BY <1>1, <3>1 DEF TypeOK
      <3>3. CallsFit'
        BY <1>1, <1>4, <2>1, <3>1, <3>2, FitsMove
      <3>4. DepsRunning'
        BY <1>1, <1>6, <1>8, <2>1, <3>1, <3>2, DepsMove
      <3>5. QED
        BY <3>3, <3>4
    <2>4. QED
      BY <2>2, <2>3
  <1>15. CASE RunStopScript(t) \/ AwaitStopScript(t)
    <2>1. UNCHANGED <<state, stack, restarted>>
      BY <1>15 DEF RunStopScript, AwaitStopScript
    <2>2. CallsFit'
      BY <1>1, <1>4, <2>1, FitsMove
    <2>3. QED
      BY <1>1, <2>1, <2>2 DEF DepsRunning, Registered
  <1>16. CASE ReapStopped(t) \/ KillGroup(t)
    <2>1. /\ at[t] = "term"
          /\ state' = [state EXCEPT ![s] = "STOPPED"]
          /\ AfterStop(t)
      BY <1>3, <1>16 DEF ReapStopped, KillGroup, EndStop
    <2>2. Top(t).todo = {} /\ Top(t).op \in {"stop", "restart"}
      BY <1>1, <2>1 DEF Inside
    <2>3. QED
      BY <1>2, <1>3, <2>1, <2>2, DepsStopped
  <1>17. QED
    BY <1>9, <1>10, <1>11, <1>12, <1>13, <1>14, <1>15, <1>16 DEF Critical

\* A thread enters the manager with a single call that has looped over nothing.
LEMMA DepsEnter ==
    ASSUME DepsInv, NEW t \in Threads, Enter(t)
    PROVE  CallsFit' /\ DepsRunning'
  <1>1. Typed /\ TypeOK /\ Inside /\ CallsFit /\ DepsRunning
    BY DEF DepsInv, ChildInv, Typed
  <1>2. PICK s \in job[t].left :
           /\ stack[t] = <<>>
           /\ lock = NoThread
           /\ stack' = [stack EXCEPT ![t] = <<Call(job[t].op, s)>>]
           /\ restarted' = IF job[t].op = "restart" THEN restarted \cup {s} ELSE restarted
           /\ state' = state
    BY DEF Enter
  <1>3. s \in Services /\ job[t].op \in Ops
    BY <1>1 DEF TypeOK, Job
  <1> DEFINE new == Call(job[t].op, s)
  <1>4. new \in Frame /\ new.op = job[t].op /\ new.svc = s
    BY <1>3, CallType
  <1>5. /\ job[t].op = "start" => new.todo = Deps[s]
        /\ job[t].op = "stop" => new.todo = Services \ {s}
    BY DEF Call
  <1> HIDE DEF new
  <1>6. \A u \in Threads \ {t} : stack'[u] = <<>>
    BY <1>1, <1>2, ConfigAssumption DEF TypeOK, Inside
  <1>7. stack'[t] = <<new>>
    BY <1>1, <1>2 DEF TypeOK, new
  <1>8. Len(stack'[t]) = 1 /\ stack'[t][1] = new /\ Top(t)' = new
    BY <1>7 DEF Top
  <1>9. FrameFits(t, 1)'
    BY <1>2, <1>3, <1>4, <1>5, <1>8 DEF FrameFits, Passed, Registered
  <1>10. \A u \in Threads \ {t} : 1 .. Len(stack'[u]) = {}
    BY <1>6
  <1>11. 1 .. Len(stack'[t]) = {1}
    BY <1>8
  <1>12. CallsFit'
    BY <1>9, <1>10, <1>11 DEF CallsFit
  <1>13. DepsRunning'
    BY <1>1, <1>2 DEF DepsRunning, Registered
  <1>14. QED
    BY <1>12, <1>13

LEMMA DepsStep == DepsInv /\ [Next]_vars => DepsInv'
  <1> SUFFICES ASSUME DepsInv, [Next]_vars PROVE DepsInv'
    OBVIOUS
  <1>0. ChildInv' /\ CallsFit /\ DepsRunning
    BY ChildStep DEF DepsInv
  <1>1. ASSUME UNCHANGED <<state, stack, restarted>> PROVE DepsInv'
    BY <1>0, <1>1 DEF DepsInv, CallsFit, FrameFits, Passed, Top, DepsRunning, Registered
  <1>2. ASSUME NEW t \in Threads, ClientCall(t) PROVE DepsInv'
    BY <1>1, <1>2 DEF ClientCall, StartGroup, StopGroup, StopAll, Restart, Submit
  <1>3. ASSUME NEW t \in Threads, Enter(t) PROVE DepsInv'
    BY <1>0, <1>3, DepsEnter DEF DepsInv
  <1>4. ASSUME NEW t \in Threads, Critical(t) PROVE DepsInv'
    BY <1>0, <1>4, DepsCritical DEF DepsInv
  <1>5. ASSUME NEW p \in Pids, Kernel(p) PROVE DepsInv'
    BY <1>1, <1>5 DEF Kernel, Exit, SpawnMember, MemberExit, threadVars
  <1>6. CASE UNCHANGED vars
    BY <1>1, <1>6 DEF vars, threadVars
  <1>7. QED
    BY <1>2, <1>3, <1>4, <1>5, <1>6 DEF Next

LEMMA DepsInit == Init => DepsInv
  <1> SUFFICES ASSUME Init PROVE DepsInv
    OBVIOUS
  <1>1. ChildInv
    BY ChildInit
  <1>2. \A t \in Threads : 1 .. Len(stack[t]) = {}
    BY DEF Init
  <1>3. QED
    BY <1>1, <1>2 DEF Init, DepsInv, CallsFit, DepsRunning

\* A RUNNING service has RUNNING dependencies whatever the clients do and
\* whatever fails, as long as neither was last started or stopped by restart.
THEOREM DependenciesRunning == Spec => []DepsRunning
  <1>1. Spec => []DepsInv
    BY DepsInit, DepsStep, PTL DEF Spec
  <1>2. QED
    BY <1>1, PTL DEF DepsInv

-----------------------------------------------------------------------------
(***************************************************************************)
(* The order of single steps.                                              *)
(***************************************************************************)

\* A step changes the state of no service but that of a call whose loop is over.
LEMMA ChangedByLoopedCall ==
    ASSUME Typed, [Next]_vars, NEW t \in Threads, lock = t,
           NEW s \in Services, state'[s] # state[s]
    PROVE  Critical(t) /\ stack[t] # <<>> /\ s = Top(t).svc /\ Top(t).todo = {}
  <1>1. state' # state
    OBVIOUS
  <1>2. PICK u \in Threads : Critical(u)
    <2>1. \A u \in Threads : ~ClientCall(u)
      BY <1>1 DEF ClientCall, StartGroup, StopGroup, StopAll, Restart, Submit
    <2>2. \A u \in Threads : ~Enter(u)
      BY <1>1 DEF Enter
    <2>3. \A p \in Pids : ~Kernel(p)
      BY <1>1 DEF Kernel, Exit, SpawnMember, MemberExit
    <2>4. Next
      BY <1>1 DEF vars
    <2>5. QED
      BY <2>1, <2>2, <2>3, <2>4 DEF Next
  <1>3. stack[u] # <<>>
    BY <1>2 DEF Critical, DoStart, DoStop, BeginStart, BeginStop, Spawn, SpawnFails,
       RunStopScript, AwaitStopScript, ReapStopped, KillGroup, EndStop, Walking, Typed, Inside
  <1>4. u = t
    BY <1>3 DEF Typed, Inside
  <1>5. Top(t).todo = {}
    BY <1>1, <1>2, <1>4 DEF Critical, DoStart, DoStop, VisitDependency, VisitDependent,
       BeginStart, BeginStop, Spawn, SpawnFails, RunStopScript, AwaitStopScript,
       ReapStopped, KillGroup, EndStop, Walking, Typed, Inside
  <1>6. \E x : state' = [state EXCEPT ![Top(t).svc] = x]
    BY <1>1, <1>2, <1>4 DEF Critical, DoStart, DoStop, VisitDependency, VisitDependent,
       BeginStart, BeginStop, Spawn, SpawnFails, RunStopScript, AwaitStopScript,
       ReapStopped, KillGroup, EndStop
  <1>7. s = Top(t).svc
    BY <1>6 DEF Typed, TypeOK
  <1>8. QED
    BY <1>2, <1>3, <1>4, <1>5, <1>7

LEMMA OrderlyStep == DepsInv /\ [Next]_vars => OrderlyStop /\ OrderlyStart
  <1> SUFFICES ASSUME DepsInv, [Next]_vars,
                      NEW t \in Threads, lock = t, NEW s \in Services, state'[s] # state[s]
               PROVE  /\ Top(t).op = "stop" =>
                            \A o \in Services \ {s} : s \in Deps[o] => state[o] # "RUNNING"
                      /\ Top(t).op = "start" => \A d \in Registered(s) : state[d] = "RUNNING"
    BY DEF OrderlyStop, OrderlyStart
  <1>1. Typed /\ CallsFit
    BY DEF DepsInv, ChildInv
  <1>2. stack[t] # <<>> /\ s = Top(t).svc /\ Top(t).todo = {}
    BY <1>1, ChangedByLoopedCall
  <1>3. FrameFits(t, Len(stack[t])) /\ Len(stack[t]) \in Nat
    BY <1>1, <1>2, TopType DEF CallsFit, Typed
  <1>4. QED
    BY <1>2, <1>3 DEF FrameFits, Passed, Top, Registered

\* do_stop takes a service down only after everything RUNNING that depends on
\* it, in every configuration, cyclic ones included.
THEOREM StopOrder == Spec => StopsDependentsFirst
  BY DepsInit, DepsStep, OrderlyStep, PTL DEF Spec, StopsDependentsFirst

\* do_start brings a service up only when all it depends on is RUNNING.
THEOREM StartOrder == Spec => StartsDependenciesFirst
  BY DepsInit, DepsStep, OrderlyStep, PTL DEF Spec, StartsDependenciesFirst

-----------------------------------------------------------------------------
(***************************************************************************)
(* The depth of the recursion when the dependencies have no cycle.         *)
(***************************************************************************)

\* A numbering that grows from dependency to dependent: there is one exactly
\* when a finite set of services has no dependency cycle.
Ranks(rank) ==
    /\ rank \in [Services -> Nat]
    /\ \A s \in Services : \A d \in Registered(s) : rank[d] < rank[s]

Descends(rank, t, i) ==
    /\ stack[t][i].op = "start" => stack[t][i].todo \subseteq Deps[stack[t][i].svc]
    /\ \A j \in i + 1 .. Len(stack[t]) :
          /\ stack[t][i].op = "start" => rank[stack[t][j].svc] < rank[stack[t][i].svc]
          /\ stack[t][i].op = "stop" => rank[stack[t][i].svc] < rank[stack[t][j].svc]

Descending(rank) == \A t \in Threads : \A i \in 1 .. Len(stack[t]) : Descends(rank, t, i)

\* The frames below the innermost one, after a return or an unwinding.
LEMMA DescendsPop ==
    ASSUME NEW rank, Typed, Descending(rank), NEW t \in Threads, stack[t] # <<>>,
           Return(t) \/ Unwind(t)
    PROVE  Descending(rank)'
  <1>1. \A u \in Threads \ {t} : stack'[u] = stack[u]
    BY DEF Return, Unwind, Typed, TypeOK
  <1>2. CASE Unwind(t)
    <2>1. 1 .. Len(stack'[t]) = {}
      BY <1>2 DEF Unwind, Typed, TypeOK
    <2>2. QED
      BY <1>1, <2>1 DEF Descending, Descends
  <1>3. CASE Return(t)
    <2>1. PICK L \in Nat \ {0} : L = Len(stack[t])
      BY TopType DEF Typed
    <2>2. /\ Len(stack'[t]) = L - 1
          /\ \A i \in 1 .. L - 1 : stack'[t][i] = stack[t][i]
      BY <1>3, <2>1, PopType DEF Return, Typed, TypeOK
    <2>3. ASSUME NEW i \in 1 .. L - 1 PROVE Descends(rank, t, i)'
      <3>1. Descends(rank, t, i) /\ stack'[t][i] = stack[t][i]
        BY <2>1, <2>2 DEF Descending
      <3>2. \A j \in i + 1 .. L - 1 : stack'[t][j] = stack[t][j] /\ j \in i + 1 .. L
        BY <2>2
      <3>3. QED
        BY <2>1, <2>2, <3>1, <3>2 DEF Descends
    <2>4. QED
      BY <1>1, <2>2, <2>3 DEF Descending, Descends
  <1>4. QED
    BY <1>2, <1>3

\* The loops: the nested call is for a dependency, or for a dependent.
LEMMA DescendsLoop ==
    ASSUME NEW rank, Ranks(rank), Typed, CallsFit, Descending(rank),
           NEW t \in Threads, DoStart(t) \/ DoStop(t)
    PROVE  Descending(rank)'
  <1>1. stack[t] # <<>> /\ Top(t).op \in {"start", "stop"}
    BY DEF DoStart, DoStop, Walking
  <1>2. PICK n \in Top(t).todo :
           \/ stack' = [stack EXCEPT ![t] = Visited(t, n)]
           \/ /\ stack' = [stack EXCEPT ![t] = Append(Visited(t, n), Call(Top(t).op, n))]
              /\ n \in Services
              /\ Top(t).op = "stop" => Top(t).svc \in Deps[n]
    <2>1. CASE DoStart(t)
      <3>1. PICK d \in Top(t).todo :
               stack' = [stack EXCEPT ![t] =
                           IF d \in Services /\ state[d] # "RUNNING"
                           THEN Append(Visited(t, d), Call("start", d))
                           ELSE Visited(t, d)]
        BY <2>1 DEF DoStart, VisitDependency
      <3>2. Top(t).op = "start"
        BY <2>1 DEF DoStart, Walking
      <3>3. QED
        BY <3>1, <3>2
    <2>2. CASE DoStop(t)
      <3>1. PICK o \in Top(t).todo :
               stack' = [stack EXCEPT ![t] =
                           IF state[o] = "RUNNING" /\ Top(t).svc \in Deps[o]
                           THEN Append(Visited(t, o), Call("stop", o))
                           ELSE Visited(t, o)]
        BY <2>2 DEF DoStop, VisitDependent
      <3>2. Top(t).op = "stop" /\ o \in Services
        BY <1>1, <2>2, TopType DEF DoStop, Walking, Typed, Frame
      <3>3. QED
        BY <3>1, <3>2
    <2>3. QED
      BY <2>1, <2>2
  <1>3. PICK L \in Nat \ {0} : L = Len(stack[t])
    BY <1>1, TopType DEF Typed
  <1>4. n \in Names /\ Top(t) = stack[t][L] /\ Top(t).svc \in Services
    BY <1>1, <1>3, TopType DEF Typed, Top
  <1>5. /\ Visited(t, n) \in Seq(Frame)
        /\ Len(Visited(t, n)) = L
        /\ \A i \in 1 .. L :
              /\ Visited(t, n)[i].op = stack[t][i].op
              /\ Visited(t, n)[i].svc = stack[t][i].svc
              /\ Visited(t, n)[i].todo = IF i = L THEN Top(t).todo \ {n} ELSE stack[t][i].todo
    <2>1. TypeOK
      BY DEF Typed
    <2>2. /\ Visited(t, n) \in Seq(Frame)
          /\ Len(Visited(t, n)) = Len(stack[t])
          /\ \A i \in 1 .. Len(stack[t]) :
                /\ Visited(t, n)[i].op = stack[t][i].op
                /\ Visited(t, n)[i].svc = stack[t][i].svc
                /\ Visited(t, n)[i].todo =
                      IF i = Len(stack[t]) THEN Top(t).todo \ {n} ELSE stack[t][i].todo
      BY <1>1, <1>4, <2>1, VisitedType
    <2>3. QED
      BY <1>3, <2>2
  <1>6. \A i \in 1 .. L : Descends(rank, t, i) /\ FrameFits(t, i)
    BY <1>3 DEF Descending, CallsFit
  <1>7. \A u \in Threads \ {t} : stack'[u] = stack[u]
    BY <1>2 DEF Typed, TypeOK
  <1>8. \A i \in 1 .. L :
           /\ Visited(t, n)[i].op = "start" =>
                 Visited(t, n)[i].todo \subseteq Deps[Visited(t, n)[i].svc]
           /\ Visited(t, n)[i].op = Top(t).op
    BY <1>4, <1>5, <1>6 DEF Descends, FrameFits
  <1>9. \A i \in 1 .. L : \A j \in i + 1 .. L :
           /\ Top(t).op = "start" => rank[stack[t][j].svc] < rank[stack[t][i].svc]
           /\ Top(t).op = "stop" => rank[stack[t][i].svc] < rank[stack[t][j].svc]
    BY <1>3, <1>6 DEF Descends, FrameFits
  <1>10. CASE stack' = [stack EXCEPT ![t] = Visited(t, n)]
    <2>1. stack'[t] = Visited(t, n)
      BY <1>10 DEF Typed, TypeOK
    <2>2. \A i \in 1 .. L : Descends(rank, t, i)'
      BY <1>5, <1>8, <1>9, <2>1 DEF Descends
    <2>3. QED
      BY <1>5, <1>7, <2>1, <2>2, SMTT(30) DEF Descending, Descends
  <1>11. CASE /\ stack' = [stack EXCEPT ![t] = Append(Visited(t, n), Call(Top(t).op, n))]
              /\ n \in Services
              /\ Top(t).op = "stop" => Top(t).svc \in Deps[n]
    <2> DEFINE new == Call(Top(t).op, n)
    <2>1. new \in Frame /\ new.op = Top(t).op /\ new.svc = n
      BY <1>1, <1>11, CallType DEF Ops
    <2>2. Top(t).op = "start" => new.todo = Deps[n]
      BY DEF Call
    <2>3. stack'[t] = Append(Visited(t, n), new)
      BY <1>11 DEF Typed, TypeOK
    <2> HIDE DEF new
    <2>4. /\ Len(stack'[t]) = L + 1
          /\ stack'[t][L + 1] = new
          /\ \A i \in 1 .. L : stack'[t][i] = Visited(t, n)[i]
      BY <1>3, <1>5, <2>1, <2>3, AppendProperties
    <2>5. /\ Top(t).op = "start" => rank[n] < rank[Top(t).svc]
          /\ Top(t).op = "stop" => rank[Top(t).svc] < rank[n]
      <3>1. L \in 1 .. L
        BY <1>3
      <3>2. Top(t).op = "start" => n \in Registered(Top(t).svc)
        BY <1>2, <1>4, <1>6, <1>11, <3>1 DEF Descends, Registered
      <3>3. Top(t).op = "stop" => Top(t).svc \in Registered(n)
        BY <1>4, <1>11 DEF Registered
      <3>4. QED
        BY <1>4, <1>11, <3>2, <3>3 DEF Ranks
    <2>6. \A i \in 1 .. L : stack[t][i].svc \in Services /\ rank[stack[t][i].svc] \in Nat
      <3>1. stack[t] \in Seq(Frame)
        BY DEF Typed, TypeOK
      <3>2. \A i \in 1 .. L : stack[t][i] \in Frame
        BY <1>3, <3>1, ElementOfSeq
      <3>3. QED
        BY <3>2 DEF Frame, Ranks
    <2>7. rank[n] \in Nat
      BY <1>11 DEF Ranks
    <2>8. \A i \in 1 .. L :
             /\ Top(t).op = "start" => rank[n] < rank[stack[t][i].svc]
             /\ Top(t).op = "stop" => rank[stack[t][i].svc] < rank[n]
      <3> TAKE i \in 1 .. L
      <3>1. CASE i = L
        BY <1>4, <2>5, <3>1
      <3>2. CASE i < L
        <4>1. L \in i + 1 .. L /\ L \in 1 .. L
          BY <3>2
        <4>2. /\ Top(t).op = "start" => rank[stack[t][L].svc] < rank[stack[t][i].svc]
              /\ Top(t).op = "stop" => rank[stack[t][i].svc] < rank[stack[t][L].svc]
          BY <1>9, <4>1
        <4>3. rank[stack[t][i].svc] \in Nat /\ rank[stack[t][L].svc] \in Nat
          BY <2>6, <4>1
        <4>4. QED
          BY <1>4, <2>5, <2>7, <4>2, <4>3
      <3>3. QED
        BY <3>1, <3>2
    <2>9. ASSUME NEW i \in 1 .. L PROVE Descends(rank, t, i)'
      <3>1. /\ stack'[t][i].op = Top(t).op
            /\ stack'[t][i].svc = stack[t][i].svc
            /\ stack'[t][i].op = "start" => stack'[t][i].todo \subseteq Deps[stack'[t][i].svc]
        BY <1>5, <1>8, <2>4
      <3>2. ASSUME NEW j \in i + 1 .. L + 1
            PROVE  /\ Top(t).op = "start" => rank[stack'[t][j].svc] < rank[stack[t][i].svc]
                   /\ Top(t).op = "stop" => rank[stack[t][i].svc] < rank[stack'[t][j].svc]
        <4>1. CASE j = L + 1
          BY <2>1, <2>4, <2>8, <4>1
        <4>2. CASE j # L + 1
          <5>1. j \in i + 1 .. L /\ j \in 1 .. L
            BY <4>2
          <5>2. stack'[t][j].svc = stack[t][j].svc
            BY <1>5, <2>4, <5>1
          <5>3. QED
            BY <1>9, <5>1, <5>2
        <4>3. QED
          BY <4>1, <4>2
      <3>3. QED
        BY <2>4, <3>1, <3>2 DEF Descends
    <2>10. Descends(rank, t, L + 1)'
      <3>1. L + 1 + 1 .. L + 1 = {}
        BY <1>3
      <3>2. QED
        BY <2>1, <2>2, <2>4, <3>1 DEF Descends
    <2>11. 1 .. Len(stack'[t]) = 1 .. L \cup {L + 1}
      BY <2>4
    <2>12. \A i \in 1 .. Len(stack'[t]) : Descends(rank, t, i)'
      BY <2>9, <2>10, <2>11
    <2>13. QED
      BY <1>7, <2>12 DEF Descending, Descends
  <1>12. QED
    BY <1>2, <1>10, <1>11

LEMMA DescendsStep ==
    ASSUME NEW rank, Ranks(rank)
    PROVE  DepsInv /\ Descending(rank) /\ [Next]_vars => Descending(rank)'
  <1> SUFFICES ASSUME DepsInv, Descending(rank), [Next]_vars PROVE Descending(rank)'
    OBVIOUS
  <1>0. Typed /\ CallsFit
    BY DEF DepsInv, ChildInv
  <1>1. ASSUME stack' = stack PROVE Descending(rank)'
    BY <1>1 DEF Descending, Descends
  <1>2. ASSUME NEW t \in Threads, ClientCall(t) PROVE Descending(rank)'
    BY <1>1, <1>2 DEF ClientCall, StartGroup, StopGroup, StopAll, Restart, Submit
  <1>3. ASSUME NEW t \in Threads, Enter(t) PROVE Descending(rank)'
    <2>1. PICK s \in job[t].left : stack' = [stack EXCEPT ![t] = <<Call(job[t].op, s)>>]
      BY <1>3 DEF Enter
    <2>2. /\ stack'[t] = <<Call(job[t].op, s)>>
          /\ \A u \in Threads \ {t} : stack'[u] = stack[u]
      BY <1>0, <2>1 DEF Typed, TypeOK
    <2>3. Len(stack'[t]) = 1 /\ stack'[t][1] = Call(job[t].op, s)
      BY <2>2
    <2>4. Descends(rank, t, 1)'
      BY <2>3 DEF Descends, Call
    <2>5. 1 .. Len(stack'[t]) = {1}
      BY <2>3
    <2>6. QED
      BY <2>2, <2>4, <2>5 DEF Descending, Descends
  <1>4. ASSUME NEW t \in Threads, Critical(t) PROVE Descending(rank)'
    <2>1. CASE DoStart(t) \/ DoStop(t)
      BY <1>0, <2>1, DescendsLoop
    <2>2. CASE ~(DoStart(t) \/ DoStop(t))
      <3>1. stack' = stack \/ Return(t) \/ Unwind(t)
        BY <1>4, <2>2 DEF Critical, BeginStart, BeginStop, Spawn, SpawnFails, RunStopScript,
           AwaitStopScript, ReapStopped, KillGroup, EndStop, AfterStop
      <3>2. stack[t] # <<>>
        BY <1>0, <1>4 DEF Critical, DoStart, DoStop, BeginStart, BeginStop, Spawn, SpawnFails,
           RunStopScript, AwaitStopScript, ReapStopped, KillGroup, EndStop, Walking, Typed, Inside
      <3>3. QED
        BY <1>0, <1>1, <3>1, <3>2, DescendsPop
    <2>3. QED
      BY <2>1, <2>2
  <1>5. ASSUME NEW p \in Pids, Kernel(p) PROVE Descending(rank)'
    BY <1>1, <1>5 DEF Kernel, Exit, SpawnMember, MemberExit, threadVars
  <1>6. CASE UNCHANGED vars
    BY <1>1, <1>6 DEF vars, threadVars
  <1>7. QED
    BY <1>2, <1>3, <1>4, <1>5, <1>6 DEF Next

\* Along a descending stack no service appears twice.
LEMMA DescendingNoReentry ==
    ASSUME NEW rank, Ranks(rank)
    PROVE  DepsInv /\ Descending(rank) => NoReentry
  <1> SUFFICES ASSUME DepsInv, Descending(rank), NEW t \in Threads,
                      NEW i \in 1 .. Len(stack[t]), NEW j \in 1 .. Len(stack[t]), i < j
               PROVE  stack[t][i].svc # stack[t][j].svc
    BY DEF NoReentry
  <1>1. /\ stack[t] \in Seq(Frame)
        /\ FrameFits(t, i)
        /\ Descends(rank, t, i)
    BY DEF DepsInv, ChildInv, Typed, TypeOK, CallsFit, Descending
  <1>2. stack[t][i] \in Frame /\ stack[t][j] \in Frame
    BY <1>1, ElementOfSeq
  <1>3. stack[t][i].op \in {"start", "stop"}
    BY <1>1, <1>2 DEF FrameFits, Frame, Ops
  <1>4. rank[stack[t][i].svc] \in Nat /\ rank[stack[t][j].svc] \in Nat
    BY <1>2 DEF Frame, Ranks
  <1>5. j \in i + 1 .. Len(stack[t])
    BY <1>1
  <1>6. QED
    BY <1>1, <1>3, <1>4, <1>5 DEF Descends

\* Without a dependency cycle the recursion never comes back to a service it is
\* working on: it is at most as deep as there are services.
THEOREM AcyclicNoReentry ==
    ASSUME NEW rank, Ranks(rank)
    PROVE  Spec => []NoReentry
  <1>1. Init => Descending(rank)
    <2> SUFFICES ASSUME Init PROVE Descending(rank)
      OBVIOUS
    <2>1. \A t \in Threads : 1 .. Len(stack[t]) = {}
      BY DEF Init
    <2>2. QED
      BY <2>1 DEF Descending
  <1>2. Spec => [](DepsInv /\ Descending(rank))
    BY <1>1, DepsInit, DepsStep, DescendsStep, PTL DEF Spec
  <1>3. QED
    BY <1>2, DescendingNoReentry, PTL

-----------------------------------------------------------------------------
(***************************************************************************)
(* The life cycle.                                                         *)
(***************************************************************************)

\* A step of the manager is a step of the life cycle or changes no state.
LEMMA LifecycleStep == ChildInv /\ [Next]_vars => [Lifecycle!Next]_state
  <1> SUFFICES ASSUME ChildInv, [Next]_vars, state' # state PROVE Lifecycle!Next
    OBVIOUS
  <1>0. Typed /\ TypeOK /\ Inside /\ Transient /\ PidFits
    BY DEF ChildInv, Typed
  <1>1. PICK t \in Threads : Critical(t)
    <2>1. \A u \in Threads : ~ClientCall(u)
      BY DEF ClientCall, StartGroup, StopGroup, StopAll, Restart, Submit
    <2>2. \A u \in Threads : ~Enter(u)
      BY DEF Enter
    <2>3. \A p \in Pids : ~Kernel(p)
      BY DEF Kernel, Exit, SpawnMember, MemberExit
    <2>4. Next
      BY DEF vars
    <2>5. QED
      BY <2>1, <2>2, <2>3, <2>4 DEF Next
  <1>2. stack[t] # <<>>
    BY <1>0, <1>1 DEF Critical, DoStart, DoStop, BeginStart, BeginStop, Spawn, SpawnFails,
       RunStopScript, AwaitStopScript, ReapStopped, KillGroup, EndStop, Walking, Inside
  <1>3. PICK s \in Services : s = Top(t).svc
    BY <1>0, <1>2, TopType
  <1>4. lock = t /\ state[s] \in States
    BY <1>0, <1>2, <1>3 DEF Inside, TypeOK
  <1>5. ASSUME at[t] \in {"walk", "start"} PROVE Lifecycle!Settled
    <2>1. \A r \in Services : state[r] \notin {"STARTING", "STOPPING"}
      BY <1>0, <1>4, <1>5 DEF Transient, Stopping
    <2>2. QED
      BY <1>0, <2>1 DEF Lifecycle!Settled, TypeOK, States
  <1>6. CASE BeginStart(t)
    <2>1. /\ state' = [state EXCEPT ![s] = "STARTING"]
          /\ state[s] # "RUNNING"
          /\ Lifecycle!Settled
      BY <1>3, <1>5, <1>6 DEF BeginStart, Walking
    <2>2. Lifecycle!Begin(s)
      BY <2>1 DEF Lifecycle!Begin, Lifecycle!Move, Lifecycle!Settled
    <2>3. QED
      BY <2>2 DEF Lifecycle!Next
  <1>7. CASE Spawn(t) \/ SpawnFails(t)
    <2>1. /\ \/ state' = [state EXCEPT ![s] = "RUNNING"]
             \/ state' = [state EXCEPT ![s] = "FAILED"]
          /\ state[s] = "STARTING"
      BY <1>0, <1>3, <1>7 DEF Spawn, SpawnFails, Transient
    <2>2. Lifecycle!Arrive(s)
      BY <2>1 DEF Lifecycle!Arrive, Lifecycle!Move
    <2>3. QED
      BY <2>2 DEF Lifecycle!Next
  <1>8. CASE BeginStop(t)
    <2>1. Lifecycle!Settled
      BY <1>5, <1>8 DEF BeginStop, Walking
    <2>2. CASE pid[s] = NoPid
      <3>1. state' = [state EXCEPT ![s] = "STOPPED"]
        BY <1>3, <1>8, <2>2 DEF BeginStop
      <3>2. state[s] # "STOPPED"
        BY <1>0, <3>1 DEF TypeOK
      <3>3. state[s] = "FAILED"
        BY <1>0, <2>1, <2>2, <3>2 DEF PidFits, Lifecycle!Settled
      <3>4. QED
        BY <2>1, <3>1, <3>3 DEF Lifecycle!Next, Lifecycle!Begin, Lifecycle!Move
    <2>3. CASE pid[s] # NoPid
      <3>1. state' = [state EXCEPT ![s] = "STOPPING"]
        BY <1>3, <1>8, <2>3 DEF BeginStop
      <3>2. state[s] = "RUNNING"
        BY <1>0, <2>1, <2>3 DEF PidFits, Lifecycle!Settled
      <3>3. QED
        BY <2>1, <3>1, <3>2 DEF Lifecycle!Next, Lifecycle!Begin, Lifecycle!Move
    <2>4. QED
      BY <2>2, <2>3
  <1>9. CASE ReapStopped(t) \/ KillGroup(t)
    <2>1. state' = [state EXCEPT ![s] = "STOPPED"] /\ state[s] = "STOPPING"
      BY <1>0, <1>3, <1>9 DEF ReapStopped, KillGroup, EndStop, Transient, Stopping
    <2>2. Lifecycle!Arrive(s)
      BY <2>1 DEF Lifecycle!Arrive, Lifecycle!Move
    <2>3. QED
      BY <2>2 DEF Lifecycle!Next
  <1>10. ~(DoStart(t) \/ DoStop(t) \/ RunStopScript(t) \/ AwaitStopScript(t))
    BY DEF DoStart, DoStop, VisitDependency, VisitDependent, RunStopScript, AwaitStopScript
  <1>11. QED
    BY <1>1, <1>6, <1>7, <1>8, <1>9, <1>10 DEF Critical

\* The manager, whatever threads, children and forks do, shows the life cycle
\* to those who read states without the mutex.
THEOREM RefinesLifecycle == Spec => Lifecycle!Spec
  <1>1. Init => Lifecycle!Init
    BY DEF Init, Lifecycle!Init
  <1>2. QED
    BY <1>1, ChildInit, ChildStep, LifecycleStep, PTL DEF Spec, Lifecycle!Spec

=============================================================================
