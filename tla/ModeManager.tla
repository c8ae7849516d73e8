---------------------------- MODULE ModeManager -----------------------------
(***************************************************************************)
(* ModeManager (orchestration/mode) on top of the service manager.         *)
(* switch_to looks at the state of every service, notes what has to be     *)
(* stopped and what has to be started for the mode, and then calls         *)
(* ServiceManager::stop and start for the services it has noted.           *)
(*                                                                         *)
(* switch_to has no mutex of its own and reads the states without the      *)
(* service manager's, so other clients, and other switches, come between   *)
(* any two of its steps.                                                   *)
(***************************************************************************)
EXTENDS ServiceManager

CONSTANTS
    Modes,      \* the modes of modes.yaml
    AllModes,   \* those that have an entry "all"
    Target,     \* Target[m][s]: the target state of service s in mode m
    External,   \* services with lifecycle "external"
    NoMode      \* current_mode_ is empty

ASSUME ModeAssumption ==
    /\ AllModes \subseteq Modes
    /\ Target \in [Modes -> [Services -> {"active", "inactive", "stopped", "absent"}]]
    /\ External \subseteq Services
    /\ NoMode \notin Modes

VARIABLES
    phase,      \* phase[t]: where in switch_to thread t is, "idle" if not in it
    mode,       \* mode[t]: the mode of thread t's latest switch
    unseen,     \* unseen[t]: the services its loop has still to look at
    toStop,     \* toStop[t]: to_stop
    toStart,    \* toStart[t]: to_start
    current,    \* current_mode_
    clean       \* history: the thread whose switch alone has changed states,
                \* and without a failing fork, since it began; or NoThread

switchVars == <<phase, mode, unseen, toStop, toStart, current>>
modeVars   == <<vars, switchVars, clean>>

Phases == {"idle", "lookStop", "lookStart", "stopping", "starting"}

Managed == Services \ External

\* What the mode has running: "inactive" is no different from "active".
Up(m) ==
    IF m \in AllModes
    THEN Managed
    ELSE {s \in Managed : Target[m][s] \in {"active", "inactive"}}

\* What the mode has not: nothing when it names "all".
Down(m) == IF m \in AllModes THEN {} ELSE Managed \ Up(m)

ModeInit ==
    /\ phase = [t \in Threads |-> "idle"]
    /\ mode = [t \in Threads |-> NoMode]
    /\ unseen = [t \in Threads |-> {}]
    /\ toStop = [t \in Threads |-> {}]
    /\ toStart = [t \in Threads |-> {}]
    /\ current = NoMode
    /\ clean = NoThread

-----------------------------------------------------------------------------

\* Mutant of BeginSwitch: an unknown mode is one that has nothing.
BeginSwitchUnknown(t) == \E m \in Modes \cup {NoMode} :
    /\ phase[t] = "idle"
    /\ Idle(t)
    /\ phase' = [phase EXCEPT ![t] = "lookStop"]
    /\ mode' = [mode EXCEPT ![t] = m]
    /\ unseen' = [unseen EXCEPT ![t] = IF m \in Modes THEN Down(m) ELSE Services]
    /\ clean' = t
    /\ UNCHANGED <<vars, toStop, toStart, current>>

\* An unknown mode is refused before anything happens.
BeginSwitch(t) == \E m \in Modes :
    /\ phase[t] = "idle"
    /\ Idle(t)
    /\ phase' = [phase EXCEPT ![t] = "lookStop"]
    /\ mode' = [mode EXCEPT ![t] = m]
    /\ unseen' = [unseen EXCEPT ![t] = Down(m)]
    /\ clean' = t
    /\ UNCHANGED <<vars, toStop, toStart, current>>

\* Mutant of LookForStop: a service that failed has nothing to stop.
LookForStopRunning(t) == \E s \in unseen[t] :
    /\ phase[t] = "lookStop"
    /\ unseen' = [unseen EXCEPT ![t] = @ \ {s}]
    /\ toStop' = [toStop EXCEPT ![t] = IF state[s] = "RUNNING" THEN @ \cup {s} ELSE @]
    /\ UNCHANGED <<vars, phase, mode, toStart, current, clean>>

LookForStop(t) == \E s \in unseen[t] :
    /\ phase[t] = "lookStop"
    /\ unseen' = [unseen EXCEPT ![t] = @ \ {s}]
    /\ toStop' = [toStop EXCEPT ![t] = IF state[s] # "STOPPED" THEN @ \cup {s} ELSE @]
    /\ UNCHANGED <<vars, phase, mode, toStart, current, clean>>

TurnToStart(t) ==
    /\ phase[t] = "lookStop"
    /\ unseen[t] = {}
    /\ phase' = [phase EXCEPT ![t] = "lookStart"]
    /\ unseen' = [unseen EXCEPT ![t] = Up(mode[t])]
    /\ UNCHANGED <<vars, mode, toStop, toStart, current, clean>>

LookForStart(t) == \E s \in unseen[t] :
    /\ phase[t] = "lookStart"
    /\ unseen' = [unseen EXCEPT ![t] = @ \ {s}]
    /\ toStart' = [toStart EXCEPT ![t] = IF state[s] # "RUNNING" THEN @ \cup {s} ELSE @]
    /\ UNCHANGED <<vars, phase, mode, toStop, current, clean>>

\* Mutant of CallStop: everything is stopped before the mode is started.
CallStopAll(t) ==
    /\ phase[t] = "lookStart"
    /\ unseen[t] = {}
    /\ Submit(t, "stop", IF toStop[t] = {} THEN {} ELSE Services, FALSE)
    /\ phase' = [phase EXCEPT ![t] = "stopping"]
    /\ toStop' = [toStop EXCEPT ![t] = {}]
    /\ UNCHANGED <<mode, unseen, toStart, current, clean>>

\* sm_->stop for each service of to_stop, in the order of the map.
CallStop(t) ==
    /\ phase[t] = "lookStart"
    /\ unseen[t] = {}
    /\ Submit(t, "stop", toStop[t], FALSE)
    /\ phase' = [phase EXCEPT ![t] = "stopping"]
    /\ toStop' = [toStop EXCEPT ![t] = {}]
    /\ UNCHANGED <<mode, unseen, toStart, current, clean>>

\* sm_->start for each service of to_start, in the order of the map.
CallStart(t) ==
    /\ phase[t] = "stopping"
    /\ Submit(t, "start", toStart[t], FALSE)
    /\ phase' = [phase EXCEPT ![t] = "starting"]
    /\ toStart' = [toStart EXCEPT ![t] = {}]
    /\ UNCHANGED <<mode, unseen, toStop, current, clean>>

\* Whatever the calls returned, the mode is the current one.
EndSwitch(t) ==
    /\ phase[t] = "starting"
    /\ Idle(t)
    /\ phase' = [phase EXCEPT ![t] = "idle"]
    /\ current' = mode[t]
    /\ UNCHANGED <<vars, mode, unseen, toStop, toStart, clean>>

SwitchTo(t) ==
    \/ BeginSwitch(t) \/ LookForStop(t) \/ TurnToStart(t) \/ LookForStart(t)
    \/ CallStop(t) \/ CallStart(t) \/ EndSwitch(t)

-----------------------------------------------------------------------------

Undisturbed ==
    \/ state' = state
    \/ /\ lock = clean
       /\ clean # NoThread
       /\ phase[clean] # "idle"
       /\ \A s \in Services : state'[s] = "FAILED" => state[s] = "FAILED"

\* A thread calls the service manager when it is not switching modes.
ManagerStep ==
    /\ \/ \E t \in Threads :
             \/ phase[t] = "idle" /\ ClientCall(t)
             \/ Enter(t)
             \/ Critical(t)
       \/ \E p \in Pids : Kernel(p)
    /\ clean' = IF Undisturbed THEN clean ELSE NoThread
    /\ UNCHANGED switchVars

ModeNext == ManagerStep \/ \E t \in Threads : SwitchTo(t)

ModeSpec == Init /\ ModeInit /\ [][ModeNext]_modeVars

-----------------------------------------------------------------------------
(***************************************************************************)
(* Properties.                                                             *)
(***************************************************************************)

ModeTypeOK ==
    /\ phase \in [Threads -> Phases]
    /\ mode \in [Threads -> Modes \cup {NoMode}]
    /\ unseen \in [Threads -> SUBSET Services]
    /\ toStop \in [Threads -> SUBSET Services]
    /\ toStart \in [Threads -> SUBSET Services]
    /\ current \in Modes \cup {NoMode}
    /\ clean \in Threads \cup {NoThread}
    /\ \A t \in Threads : phase[t] # "idle" => mode[t] \in Modes

\* A mode is closed when what it does not shut down needs nothing it does.
Closed(m) == \A s \in Services \ Down(m) : Deps[s] \cap Down(m) = {}

\* One switch, undisturbed by other clients, takes the services to the mode's
\* target states, in whatever order to_stop and to_start are gone through, and
\* although stop takes dependents down and start brings dependencies up
\* (mode_manager.h:38: "true = switched").
ModeReached ==
    clean # NoThread /\ phase[clean] = "idle" =>
        /\ \A s \in Up(mode[clean]) : state[s] = "RUNNING"
        /\ \A s \in Down(mode[clean]) : state[s] = "STOPPED"

\* An active service has its "process up" (config_loader.h:54) once the switch
\* to the mode is done, unless others have interfered or a fork has failed.
ActiveRunning ==
    clean # NoThread /\ phase[clean] = "idle" =>
        \A s \in Up(mode[clean]) : state[s] = "RUNNING"

TowardsMode ==
    \A t \in Threads : \A s \in Services :
        /\ lock = t
        /\ phase[t] # "idle"
        => /\ state[s] = "RUNNING" /\ state'[s] # "RUNNING" => s \in Down(mode[t])
           /\ state[s] # "RUNNING" /\ state'[s] = "RUNNING" => s \notin Down(mode[t])

\* Whatever others do meanwhile, a switch takes down only services its mode is
\* to stop, and never starts one of those.
StaysInMode == [][TowardsMode]_modeVars

=============================================================================
