--------------------------- MODULE ServiceManager ---------------------------
(***************************************************************************)
(* The service manager of the robot runtime: ServiceManager and            *)
(* ProcessService (runtime/process/service_manager), the process helpers   *)
(* they call (common/process_utils.h), and the operating system's process  *)
(* table, which is shared by all services.                                 *)
(*                                                                         *)
(* Client threads (the CLI's main thread, one thread per TCP session) call *)
(* start, stop, restart and their group forms.  Every such call runs under *)
(* ServiceManager::mutex_, but it is not atomic: do_start and do_stop are  *)
(* recursive, so a thread holds an explicit call stack here, and each      *)
(* store that other threads can see without the mutex (all_status is not   *)
(* locked) is a step.  Children exit whenever they like.                   *)
(***************************************************************************)
EXTENDS Naturals, Sequences

CONSTANTS
    Names,       \* every name a configuration mentions
    Services,    \* the names registered by load_config
    Deps,        \* Deps[s]: the names in the "depends" list of service s
    Scripted,    \* services whose directory holds an executable stop.sh
    Launchers,   \* services whose start.sh leaves the program in a child of
                 \* the shell, so that the process group has other members
    Groups,      \* the groups of services clients pass to start and stop
    Threads,     \* client threads
    Pids,        \* process ids fork may hand out; bounds the number of forks
    NoPid,       \* pid_ = 0
    NoService,   \* owner of a process that is no service (a stop.sh)
    NoThread     \* mutex_ is free

ASSUME ConfigAssumption ==
    /\ Services \subseteq Names
    /\ Deps \in [Services -> SUBSET Names]
    /\ Groups \subseteq SUBSET Services
    /\ NoPid \notin Pids
    /\ NoService \notin Names
    /\ NoThread \notin Threads

VARIABLES
    state,      \* state[s]: ProcessService::state_
    pid,        \* pid[s]: ProcessService::pid_ (pgid_ always equals it)
    proc,       \* proc[p]: what the kernel knows of process p
    owner,      \* owner[p]: the service p was forked for
    members,    \* groups, by leader, with a live process besides the leader
    lock,       \* ServiceManager::mutex_
    stack,      \* stack[t]: the active do_start / do_stop / restart calls
    at,         \* at[t]: where the innermost of them is
    helper,     \* the stop.sh process the lock holder waits for
    job,        \* job[t]: the calls thread t still has to make
    restarted   \* history: services whose latest start or stop was restart's

procVars   == <<proc, owner, members>>
threadVars == <<lock, stack, at, helper, job>>
vars       == <<state, pid, procVars, threadVars, restarted>>

-----------------------------------------------------------------------------

States == {"STOPPED", "STARTING", "RUNNING", "STOPPING", "FAILED"}
Ops    == {"start", "stop", "restart"}
Points == {"walk", "start", "fork", "script", "await", "term"}

\* todo: the names in depends(), or the entries of services_, still to visit.
Frame == {f \in [op : Ops, svc : Services, todo : SUBSET Names] :
             f.op = "stop" => f.todo \subseteq Services}
Job   == [op : Ops, left : SUBSET Services, ordered : BOOLEAN]

\* Mutant of Call: do_stop goes through depends() and not through services_.
CallOverOwnList(op, s) ==
    [op |-> op, svc |-> s, todo |-> IF op = "restart" THEN {} ELSE Deps[s]]

\* A call of do_start(s), do_stop(s) or restart(s) that has not looped yet.
Call(op, s) ==
    [op |-> op, svc |-> s,
     todo |-> CASE op = "start" -> Deps[s]
                [] op = "stop"  -> Services \ {s}
                [] OTHER        -> {}]

Registered(s) == Deps[s] \cap Services

Top(t) == stack[t][Len(stack[t])]

\* The loop variable of the innermost call has moved past n.
Visited(t, n) == [stack[t] EXCEPT ![Len(stack[t])].todo = @ \ {n}]

\* The innermost call returns; the outermost one releases the mutex.
Return(t) ==
    /\ stack' = [stack EXCEPT ![t] = SubSeq(@, 1, Len(@) - 1)]
    /\ at' = [at EXCEPT ![t] = "walk"]
    /\ lock' = IF Len(stack[t]) = 1 THEN NoThread ELSE lock

\* A failed start makes every do_start below it on the stack return false.
Unwind(t) ==
    /\ stack' = [stack EXCEPT ![t] = <<>>]
    /\ at' = [at EXCEPT ![t] = "walk"]
    /\ lock' = NoThread

\* waitpid(-1, WNOHANG) until nothing is left to reap.
Reaped(table) == [p \in Pids |-> IF table[p] = "zombie" THEN "reaped" ELSE table[p]]

Init ==
    /\ state = [s \in Services |-> "STOPPED"]
    /\ pid = [s \in Services |-> NoPid]
    /\ proc = [p \in Pids |-> "unused"]
    /\ owner = [p \in Pids |-> NoService]
    /\ members = {}
    /\ lock = NoThread
    /\ stack = [t \in Threads |-> <<>>]
    /\ at = [t \in Threads |-> "walk"]
    /\ helper = NoPid
    /\ job = [t \in Threads |-> [op |-> "start", left |-> {}, ordered |-> FALSE]]
    /\ restarted = {}

-----------------------------------------------------------------------------
(***************************************************************************)
(* The public calls.  A thread takes the mutex once per service: the group *)
(* forms lock and unlock for every service they go through.                *)
(***************************************************************************)

Idle(t) == job[t].left = {} /\ stack[t] = <<>>

Submit(t, op, group, ordered) ==
    /\ Idle(t)
    /\ job' = [job EXCEPT ![t] = [op |-> op, left |-> group, ordered |-> ordered]]
    /\ UNCHANGED <<state, pid, procVars, lock, stack, at, helper, restarted>>

\* start, start_all and start_group: in the order of the map or of the list.
StartGroup(t) == \E g \in Groups : Submit(t, "start", g, FALSE)

\* stop and stop_group: in the order of the list.
StopGroup(t) == \E g \in Groups : Submit(t, "stop", g, FALSE)

\* stop_all: in the reverse of resolve_start_order.
StopAll(t) == Submit(t, "stop", Services, TRUE)

Restart(t) == \E s \in Services : Submit(t, "restart", {s}, FALSE)

\* stop_all takes the dependents of a service before the service; on a cycle
\* the depth-first order is arbitrary.
Leaves(left) == {s \in left : \A o \in left \ {s} : s \notin Deps[o]}

MayBeNext(j, s) == j.ordered => s \in Leaves(j.left) \/ Leaves(j.left) = {}

\* Mutant of Enter: goes in without waiting for the mutex.
EnterUnlocked(t) == \E s \in job[t].left :
    /\ stack[t] = <<>>
    /\ MayBeNext(job[t], s)
    /\ lock' = t
    /\ stack' = [stack EXCEPT ![t] = <<Call(job[t].op, s)>>]
    /\ job' = [job EXCEPT ![t].left = @ \ {s}]
    /\ restarted' = IF job[t].op = "restart" THEN restarted \cup {s} ELSE restarted
    /\ UNCHANGED <<state, pid, procVars, at, helper>>

Enter(t) == \E s \in job[t].left :
    /\ stack[t] = <<>>
    /\ lock = NoThread
    /\ MayBeNext(job[t], s)
    /\ lock' = t
    /\ stack' = [stack EXCEPT ![t] = <<Call(job[t].op, s)>>]
    /\ job' = [job EXCEPT ![t].left = @ \ {s}]
    /\ restarted' = IF job[t].op = "restart" THEN restarted \cup {s} ELSE restarted
    /\ UNCHANGED <<state, pid, procVars, at, helper>>

-----------------------------------------------------------------------------
(***************************************************************************)
(* do_start: start each registered dependency that is not RUNNING, then    *)
(* the service itself.                                                     *)
(***************************************************************************)

Walking(t, op) ==
    /\ stack[t] # <<>>
    /\ at[t] = "walk"
    /\ Top(t).op = op

\* Mutant of VisitDependency: only a STOPPED dependency is started.
VisitDependencyIfStopped(t) == \E d \in Top(t).todo :
    /\ stack' = [stack EXCEPT ![t] =
                   IF d \in Services /\ state[d] = "STOPPED"
                   THEN Append(Visited(t, d), Call("start", d))
                   ELSE Visited(t, d)]
    /\ UNCHANGED <<state, pid, procVars, lock, at, helper, job, restarted>>

VisitDependency(t) == \E d \in Top(t).todo :
    /\ stack' = [stack EXCEPT ![t] =
                   IF d \in Services /\ state[d] # "RUNNING"
                   THEN Append(Visited(t, d), Call("start", d))
                   ELSE Visited(t, d)]
    /\ UNCHANGED <<state, pid, procVars, lock, at, helper, job, restarted>>

DoStart(t) == Walking(t, "start") /\ VisitDependency(t)

\* Mutant of BeginStart: forks whatever the state.
BeginStartAlways(t) ==
    /\ stack[t] # <<>>
    /\ (Walking(t, "start") /\ Top(t).todo = {}) \/ at[t] = "start"
    /\ state' = [state EXCEPT ![Top(t).svc] = "STARTING"]
    /\ at' = [at EXCEPT ![t] = "fork"]
    /\ UNCHANGED <<lock, stack, pid, procVars, helper, job, restarted>>

\* ProcessService::start up to the fork; a RUNNING service is left alone.
BeginStart(t) ==
    /\ stack[t] # <<>>
    /\ \/ Walking(t, "start") /\ Top(t).todo = {}
       \/ at[t] = "start"
    /\ IF state[Top(t).svc] = "RUNNING"
       THEN Return(t) /\ UNCHANGED state
       ELSE /\ state' = [state EXCEPT ![Top(t).svc] = "STARTING"]
            /\ at' = [at EXCEPT ![t] = "fork"]
            /\ UNCHANGED <<lock, stack>>
    /\ UNCHANGED <<pid, procVars, helper, job, restarted>>

\* fork_and_exec: a new child, leader of its own session and process group.
Fork(p, s) ==
    /\ proc[p] = "unused"
    /\ proc' = [proc EXCEPT ![p] = "running"]
    /\ owner' = [owner EXCEPT ![p] = s]

Spawn(t) == \E p \in Pids : LET s == Top(t).svc IN
    /\ at[t] = "fork"
    /\ Fork(p, s)
    /\ pid' = [pid EXCEPT ![s] = p]
    /\ state' = [state EXCEPT ![s] = "RUNNING"]
    /\ restarted' = IF Top(t).op = "restart" THEN restarted ELSE restarted \ {s}
    /\ Return(t)
    /\ UNCHANGED <<members, helper, job>>

\* Mutant of SpawnFails: do_start ignores what the nested do_start returned.
SpawnFailsQuietly(t) ==
    /\ at[t] = "fork"
    /\ state' = [state EXCEPT ![Top(t).svc] = "FAILED"]
    /\ Return(t)
    /\ UNCHANGED <<pid, procVars, helper, job, restarted>>

\* Mutant of SpawnFails: fork's failure is reported but leaves no trace.
SpawnFailsStarting(t) ==
    /\ at[t] = "fork"
    /\ Unwind(t)
    /\ UNCHANGED <<state, pid, procVars, helper, job, restarted>>

SpawnFails(t) ==
    /\ at[t] = "fork"
    /\ state' = [state EXCEPT ![Top(t).svc] = "FAILED"]
    /\ Unwind(t)
    /\ UNCHANGED <<pid, procVars, helper, job, restarted>>

-----------------------------------------------------------------------------
(***************************************************************************)
(* do_stop: stop each RUNNING service that names this one in its list,     *)
(* then the service itself.  restart goes straight to the service.         *)
(***************************************************************************)

\* Mutant of VisitDependent: the dependents are left as they are.
VisitDependentOnly(t) == \E o \in Top(t).todo :
    /\ stack' = [stack EXCEPT ![t] = Visited(t, o)]
    /\ UNCHANGED <<state, pid, procVars, lock, at, helper, job, restarted>>

\* Mutant of VisitDependent: stops what is linked to the service either way.
VisitLinked(t) == \E o \in Top(t).todo :
    /\ stack' = [stack EXCEPT ![t] =
                   IF state[o] = "RUNNING" /\ (Top(t).svc \in Deps[o] \/ o \in Deps[Top(t).svc])
                   THEN Append(Visited(t, o), Call("stop", o))
                   ELSE Visited(t, o)]
    /\ UNCHANGED <<state, pid, procVars, lock, at, helper, job, restarted>>

VisitDependent(t) == \E o \in Top(t).todo :
    /\ stack' = [stack EXCEPT ![t] =
                   IF state[o] = "RUNNING" /\ Top(t).svc \in Deps[o]
                   THEN Append(Visited(t, o), Call("stop", o))
                   ELSE Visited(t, o)]
    /\ UNCHANGED <<state, pid, procVars, lock, at, helper, job, restarted>>

DoStop(t) == Walking(t, "stop") /\ VisitDependent(t)

\* What follows ProcessService::stop: restart goes on to start, others return.
AfterStop(t) ==
    IF Top(t).op = "restart"
    THEN /\ at' = [at EXCEPT ![t] = "start"]
         /\ UNCHANGED <<lock, stack, restarted>>
    ELSE /\ restarted' = restarted \ {Top(t).svc}
         /\ Return(t)

\* ProcessService::stop up to stop.sh; without a child it only sets the state.
BeginStop(t) == LET s == Top(t).svc IN
    /\ Walking(t, "stop") \/ Walking(t, "restart")
    /\ Top(t).todo = {}
    /\ IF pid[s] = NoPid
       THEN /\ state' = [state EXCEPT ![s] = "STOPPED"]
            /\ AfterStop(t)
       ELSE /\ state' = [state EXCEPT ![s] = "STOPPING"]
            /\ at' = [at EXCEPT ![t] = "script"]
            /\ UNCHANGED <<lock, stack, restarted>>
    /\ UNCHANGED <<pid, procVars, helper, job>>

\* An executable stop.sh is forked; without one, or when fork fails, the
\* group gets its SIGTERM at once.
RunStopScript(t) ==
    /\ at[t] = "script"
    /\ \/ /\ Top(t).svc \in Scripted
          /\ \E p \in Pids : Fork(p, NoService) /\ helper' = p
          /\ at' = [at EXCEPT ![t] = "await"]
       \/ /\ at' = [at EXCEPT ![t] = "term"]
          /\ UNCHANGED <<proc, owner, helper>>
    /\ UNCHANGED <<state, pid, members, lock, stack, job, restarted>>

\* Mutant of AwaitStopScript: waits without a time limit.
AwaitStopScriptForever(t) ==
    /\ at[t] = "await"
    /\ proc[helper] = "zombie"
    /\ proc' = [proc EXCEPT ![helper] = "reaped"]
    /\ helper' = NoPid
    /\ at' = [at EXCEPT ![t] = "term"]
    /\ UNCHANGED <<state, pid, owner, members, lock, stack, job, restarted>>

\* stop.sh is reaped when it ends in time and forgotten after three seconds.
AwaitStopScript(t) ==
    /\ at[t] = "await"
    /\ proc' = [proc EXCEPT ![helper] = IF @ = "zombie" THEN "reaped" ELSE @]
    /\ helper' = NoPid
    /\ at' = [at EXCEPT ![t] = "term"]
    /\ UNCHANGED <<state, pid, owner, members, lock, stack, job, restarted>>

EndStop(t) ==
    /\ at[t] = "term"
    /\ pid' = [pid EXCEPT ![Top(t).svc] = NoPid]
    /\ state' = [state EXCEPT ![Top(t).svc] = "STOPPED"]
    /\ AfterStop(t)
    /\ UNCHANGED <<owner, helper, job>>

\* stop_process_group, the leader gone within three seconds of SIGTERM.
ReapStopped(t) ==
    /\ at[t] = "term"
    /\ proc[pid[Top(t).svc]] = "zombie"
    /\ proc' = Reaped(proc)
    /\ EndStop(t)
    /\ UNCHANGED members

\* stop_process_group, three seconds over: SIGKILL for the whole group.  Also
\* the way out when another service's reap_zombies took the leader.
KillGroup(t) == LET p == pid[Top(t).svc] IN
    /\ at[t] = "term"
    /\ proc' = Reaped([proc EXCEPT ![p] = IF @ = "running" THEN "zombie" ELSE @])
    /\ members' = members \ {p}
    /\ EndStop(t)

-----------------------------------------------------------------------------
(***************************************************************************)
(* The children: a leader exits by itself, on a signal or in a crash; the  *)
(* program a shell started lives and dies on its own.                      *)
(***************************************************************************)

Exit(p) ==
    /\ proc[p] = "running"
    /\ proc' = [proc EXCEPT ![p] = "zombie"]
    /\ UNCHANGED <<state, pid, owner, members, threadVars, restarted>>

SpawnMember(p) ==
    /\ proc[p] = "running"
    /\ owner[p] \in Launchers
    /\ members' = members \cup {p}
    /\ UNCHANGED <<state, pid, proc, owner, threadVars, restarted>>

MemberExit(p) ==
    /\ p \in members
    /\ members' = members \ {p}
    /\ UNCHANGED <<state, pid, proc, owner, threadVars, restarted>>

-----------------------------------------------------------------------------

ClientCall(t) == StartGroup(t) \/ StopGroup(t) \/ StopAll(t) \/ Restart(t)

\* What the holder of the mutex does until it releases it.
Critical(t) ==
    \/ DoStart(t) \/ BeginStart(t) \/ Spawn(t) \/ SpawnFails(t)
    \/ DoStop(t) \/ BeginStop(t) \/ RunStopScript(t) \/ AwaitStopScript(t)
    \/ ReapStopped(t) \/ KillGroup(t)

Kernel(p) == Exit(p) \/ SpawnMember(p) \/ MemberExit(p)

Next ==
    \/ \E t \in Threads : ClientCall(t) \/ Enter(t) \/ Critical(t)
    \/ \E p \in Pids : Kernel(p)

Spec == Init /\ [][Next]_vars

\* A thread inside the manager is never blocked for good: every wait in it has
\* a time limit or waits for a process that SIGKILL has ended.
FairSpec == Spec /\ \A t \in Threads : WF_vars(Critical(t))

-----------------------------------------------------------------------------
(***************************************************************************)
(* Properties.                                                             *)
(***************************************************************************)

\* The variables have their types (service_manager.h:108-117, 167-172).
TypeOK ==
    /\ state \in [Services -> States]
    /\ pid \in [Services -> Pids \cup {NoPid}]
    /\ proc \in [Pids -> {"unused", "running", "zombie", "reaped"}]
    /\ owner \in [Pids -> Services \cup {NoService}]
    /\ members \in SUBSET Pids
    /\ lock \in Threads \cup {NoThread}
    /\ stack \in [Threads -> Seq(Frame)]
    /\ at \in [Threads -> Points]
    /\ helper \in Pids \cup {NoPid}
    /\ job \in [Threads -> Job]
    /\ restarted \in SUBSET Services

\* No child is ever lost: a live process forked for a service is the one its
\* pid_ names, so no service has two leaders at once and a stopped one has none
\* (ProcessService::start forks whatever pid_ holds; only the RUNNING test, the
\* mutex and the order of the stores keep it from overwriting a live pid_).
NoLostChild ==
    \A p \in Pids :
        proc[p] = "running" /\ owner[p] # NoService =>
            /\ pid[owner[p]] = p
            /\ state[owner[p]] \in {"RUNNING", "STOPPING"}

\* A RUNNING service runs on RUNNING dependencies, whatever the clients
\* interleave: do_start brings dependencies up first, do_stop takes dependents
\* down first, a failed fork starts nothing above it.  Only restart, which
\* looks at neither, may break it, for the service it was called on.
DepsRunning ==
    \A s \in Services : \A d \in Registered(s) :
        \/ state[s] # "RUNNING"
        \/ state[d] = "RUNNING"
        \/ s \in restarted
        \/ d \in restarted

\* do_start and do_stop never come back to a service they are already working
\* on, so their recursion is bounded by the number of services.
NoReentry ==
    \A t \in Threads : \A i, j \in 1 .. Len(stack[t]) :
        i # j => stack[t][i].svc # stack[t][j].svc

OrderlyStop ==
    \A t \in Threads : \A s \in Services :
        /\ lock = t
        /\ Top(t).op = "stop"
        /\ state[s] = "RUNNING"
        /\ state'[s] # "RUNNING"
        => \A o \in Services \ {s} : s \in Deps[o] => state[o] # "RUNNING"

OrderlyStart ==
    \A t \in Threads : \A s \in Services :
        /\ lock = t
        /\ Top(t).op = "start"
        /\ state[s] # "RUNNING"
        /\ state'[s] = "RUNNING"
        => \A d \in Registered(s) : state[d] = "RUNNING"

\* do_stop signals a service only when nothing RUNNING depends on it, also when
\* restarts have left services running without their dependencies.
StopsDependentsFirst == [][OrderlyStop]_vars

\* do_start forks a service only when every registered dependency is RUNNING.
StartsDependenciesFirst == [][OrderlyStart]_vars

\* Whoever takes the mutex gives it back: neither a child that ignores SIGTERM,
\* nor a stop.sh that hangs, nor a child another stop has reaped holds it up.
LockReleased == \A t \in Threads : lock = t ~> lock # t

\* To those who only read states the manager is the life cycle: one service
\* moves at a time, and it arrives.
Lifecycle == INSTANCE ServiceLifecycle

ImplementsLifecycle == Lifecycle!FairSpec

\* "stopped" means "the process is shut down" (config/modes.yaml:13): nothing of
\* a STOPPED service's process group is left.
StoppedMeansGone ==
    \A p \in Pids :
        owner[p] # NoService /\ state[owner[p]] = "STOPPED" =>
            proc[p] # "running" /\ p \notin members

=============================================================================
