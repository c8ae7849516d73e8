--------------------------- MODULE MonitorManager ---------------------------
(***************************************************************************)
(* MonitorManager (runtime/monitor) beside the service manager.  Its       *)
(* thread asks ServiceManager::all_status for every service, records those *)
(* that are RUNNING without a live process, sleeps and starts over.        *)
(*                                                                         *)
(* all_status does not take ServiceManager::mutex_: between two reads of   *)
(* ProcessService::status any number of the manager's steps may happen.    *)
(***************************************************************************)
EXTENDS ServiceManager

VARIABLES
    running,    \* MonitorManager::running_
    phase,      \* where the monitor's thread is; "off" when it is not running
    todo,       \* the services all_status has not come to yet
    view,       \* the status being taken: the state and the pid_ read so far
    suspects,   \* the services found dead in this pass
    failures,   \* the services the latest pass added a record for to failures_
    touched     \* history: services stopped since this pass read their state

monitorVars == <<running, phase, todo, view, suspects, failures>>
allVars     == <<vars, monitorVars, touched>>

Phases == {"off", "top", "snap", "pid", "kill"}

View == [svc : Services, wasRunning : BOOLEAN, pid : Pids \cup {NoPid}]

MonitorInit ==
    /\ running = FALSE
    /\ phase = "off"
    /\ todo = {}
    /\ view \in {v \in View : ~v.wasRunning /\ v.pid = NoPid}
    /\ suspects = {}
    /\ failures = {}
    /\ touched = {}

-----------------------------------------------------------------------------
(***************************************************************************)
(* The owner's calls.  stop() joins the thread, so start() comes after it  *)
(* has ended.                                                              *)
(***************************************************************************)

StartMonitor ==
    /\ ~running
    /\ phase = "off"
    /\ running' = TRUE
    /\ phase' = "top"
    /\ UNCHANGED <<todo, view, suspects, failures, touched>>

StopMonitor ==
    /\ running
    /\ running' = FALSE
    /\ UNCHANGED <<phase, todo, view, suspects, failures, touched>>

-----------------------------------------------------------------------------
(***************************************************************************)
(* monitor_loop.                                                           *)
(***************************************************************************)

Leave ==
    /\ phase = "top"
    /\ ~running
    /\ phase' = "off"
    /\ UNCHANGED <<running, todo, view, suspects, failures, touched>>

\* Mutant of BeginPass: goes by the names of the configuration.
BeginPassOverNames ==
    /\ phase = "top"
    /\ running
    /\ phase' = "snap"
    /\ todo' = Names
    /\ UNCHANGED <<running, view, suspects, failures, touched>>

BeginPass ==
    /\ phase = "top"
    /\ running
    /\ phase' = "snap"
    /\ todo' = Services
    /\ UNCHANGED <<running, view, suspects, failures, touched>>

\* status() of the next service, its first read: state_.
ReadState == \E s \in todo :
    /\ phase = "snap"
    /\ todo' = todo \ {s}
    /\ view' = [view EXCEPT !.svc = s, !.wasRunning = (state[s] = "RUNNING")]
    /\ phase' = "pid"
    /\ UNCHANGED <<running, suspects, failures, touched>>

\* is_alive() reads pid_ ...
ReadPid ==
    /\ phase = "pid"
    /\ view' = [view EXCEPT !.pid = pid[view.svc]]
    /\ phase' = "kill"
    /\ UNCHANGED <<running, todo, suspects, failures, touched>>

\* Mutant of Answers: any pid_ passes for a live process.
AnswersIfSet(p) == p # NoPid

\* ... and asks the kernel, which answers for a zombie as for a live process.
Answers(p) == p # NoPid /\ proc[p] \in {"running", "zombie"}

\* Mutant of Probe: the state read before is not looked at.
ProbeAny ==
    /\ phase = "kill"
    /\ suspects' = IF ~Answers(view.pid) THEN suspects \cup {view.svc} ELSE suspects
    /\ view' = [view EXCEPT !.wasRunning = FALSE, !.pid = NoPid]
    /\ phase' = "snap"
    /\ UNCHANGED <<running, todo, failures, touched>>

Probe ==
    /\ phase = "kill"
    /\ suspects' = IF view.wasRunning /\ ~Answers(view.pid)
                   THEN suspects \cup {view.svc}
                   ELSE suspects
    /\ view' = [view EXCEPT !.wasRunning = FALSE, !.pid = NoPid]
    /\ phase' = "snap"
    /\ UNCHANGED <<running, todo, failures, touched>>

\* The loop over the snapshot, and the sleep.
Record ==
    /\ phase = "snap"
    /\ todo = {}
    /\ failures' = suspects
    /\ suspects' = {}
    /\ touched' = {}
    /\ phase' = "top"
    /\ UNCHANGED <<running, todo, view>>

MonitorStep == Leave \/ BeginPass \/ ReadState \/ ReadPid \/ Probe \/ Record

-----------------------------------------------------------------------------

\* The services whose state has been read in this pass.
Read == IF phase \in {"off", "top"} THEN {} ELSE Services \ todo

\* Steps of clients, of the manager and of the kernel.
ManagerStep ==
    /\ Next
    /\ touched' = touched \cup
          {s \in Read : state[s] = "RUNNING" /\ state'[s] # "RUNNING"}
    /\ UNCHANGED monitorVars

MonitorNext ==
    \/ ManagerStep
    \/ (StartMonitor \/ StopMonitor \/ MonitorStep) /\ UNCHANGED vars

MonitorSpec == Init /\ MonitorInit /\ [][MonitorNext]_allVars

\* The monitor has a thread of its own that waits for nobody.
MonitorFairSpec == MonitorSpec /\ WF_allVars(MonitorStep /\ UNCHANGED vars)

-----------------------------------------------------------------------------
(***************************************************************************)
(* Properties.                                                             *)
(***************************************************************************)

MonitorTypeOK ==
    /\ running \in BOOLEAN
    /\ phase \in Phases
    /\ todo \in SUBSET Services
    /\ view \in View
    /\ suspects \in SUBSET Services
    /\ failures \in SUBSET Services
    /\ touched \in SUBSET Services

\* What the unlocked snapshot is worth: a service found dead is RUNNING with
\* its process dead and reaped, or a stop or restart of it began after its
\* state was read.  Nothing else is ever recorded, whatever the two threads
\* interleave (service_manager.cpp:115-125, 253-259).
SuspicionsJustified ==
    \A s \in suspects :
        \/ s \in touched
        \/ state[s] = "RUNNING" /\ proc[pid[s]] = "reaped"

\* A RUNNING service whose process is dead and reaped is recorded by
\* a pass, unless it is stopped, restarted, or the monitor stops.
ReapedRecorded == \A s \in Services :
    running /\ state[s] = "RUNNING" /\ proc[pid[s]] = "reaped"
        ~> s \in failures \/ state[s] # "RUNNING" \/ ~running

\* "Whether the process PID is alive (process crash)" (monitor_manager.cpp:50):
\* a crash is recorded.
CrashRecorded == \A s \in Services :
    running /\ state[s] = "RUNNING" /\ proc[pid[s]] # "running"
        ~> s \in failures \/ state[s] # "RUNNING" \/ ~running

=============================================================================
