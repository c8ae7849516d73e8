-------------------------- MODULE HeartbeatMonitor --------------------------
(***************************************************************************)
(* HeartbeatMonitor (runtime/monitor/heartbeat): the heartbeats of the     *)
(* services come in on the subscription's thread, a thread of the monitor  *)
(* looks for services that have been silent too long, and both call the    *)
(* status callback.                                                        *)
(*                                                                         *)
(* Times are kept as ages: age[s] is "now - last_time" for the current     *)
(* time, and a heartbeat on its way carries the age of its timestamp.  An  *)
(* age stops growing at Cap(s), beyond which no comparison distinguishes   *)
(* it.  A service stamps its heartbeats with its own clock, which may be   *)
(* ahead of the monitor's or, as a negative number, behind it.             *)
(***************************************************************************)
EXTENDS Integers, Sequences

CONSTANTS
    Targets,    \* the services AddTarget registered
    Timeout,    \* Timeout[s]: timeout_sec, in ticks of the clock
    Ahead,      \* Ahead[s]: by how much the clock of s is ahead
    MaxLag,     \* bounds the ticks between reading the clock and locking
    Depth       \* the history depth of the subscription (10)

ASSUME HeartbeatAssumption ==
    /\ Timeout \in [Targets -> Nat]
    /\ Ahead \in [Targets -> Int]
    /\ MaxLag \in Nat
    /\ Depth \in Nat \ {0}

VARIABLES
    status,     \* InnerState::status
    age,        \* the age of InnerState::last_time
    incoming,   \* the ages of the heartbeats on their way, oldest first
    alive,      \* services that send heartbeats
    running,    \* running_
    phase,      \* where CheckLoop is
    lag,        \* how old CheckLoop's "now" is
    changes,    \* the time-outs CheckLoop has still to report
    told        \* what the callback was called with last, for each service

vars == <<status, age, incoming, alive, running, phase, lag, changes, told>>

Statuses == {"Offline", "Online", "Timeout"}
Phases   == {"off", "top", "check", "notify"}

Cap(s) == Timeout[s] + MaxLag + 1

Capped(s, a) == IF a > Cap(s) THEN Cap(s) ELSE a

\* The age a heartbeat has for the monitor when it is sent.
Stamp(s) == Capped(s, -Ahead[s])

Init ==
    /\ status = [s \in Targets |-> "Offline"]
    /\ age = [s \in Targets |-> Cap(s)]
    /\ incoming = [s \in Targets |-> <<>>]
    /\ alive \in SUBSET Targets
    /\ running = FALSE
    /\ phase = "off"
    /\ lag = 0
    /\ changes = {}
    /\ told = [s \in Targets |-> "Offline"]

-----------------------------------------------------------------------------
(***************************************************************************)
(* Outside the monitor: time, services, and the middleware in between,     *)
(* which keeps the last Depth heartbeats of a service.                     *)
(***************************************************************************)

Tick ==
    /\ phase = "check" => lag < MaxLag
    /\ lag' = IF phase = "check" THEN lag + 1 ELSE lag
    /\ age' = [s \in Targets |-> Capped(s, age[s] + 1)]
    /\ incoming' = [s \in Targets |->
           [i \in DOMAIN incoming[s] |-> Capped(s, incoming[s][i] + 1)]]
    /\ UNCHANGED <<status, alive, running, phase, changes, told>>

Send(s) ==
    /\ s \in alive
    /\ incoming' = [incoming EXCEPT ![s] =
                      Append(IF Len(@) < Depth THEN @ ELSE Tail(@), Stamp(s))]
    /\ UNCHANGED <<status, age, alive, running, phase, lag, changes, told>>

Die(s) ==
    /\ s \in alive
    /\ alive' = alive \ {s}
    /\ UNCHANGED <<status, age, incoming, running, phase, lag, changes, told>>

Revive(s) ==
    /\ s \notin alive
    /\ alive' = alive \cup {s}
    /\ UNCHANGED <<status, age, incoming, running, phase, lag, changes, told>>

-----------------------------------------------------------------------------

Start ==
    /\ ~running
    /\ phase = "off"
    /\ running' = TRUE
    /\ phase' = "top"
    /\ UNCHANGED <<status, age, incoming, alive, lag, changes, told>>

\* Stop joins the thread; a Start comes after that.
Stop ==
    /\ running
    /\ running' = FALSE
    /\ UNCHANGED <<status, age, incoming, alive, phase, lag, changes, told>>

\* Mutant of OnHeartbeat: a service that has timed out stays so.
OnHeartbeatOnce(s) ==
    /\ incoming[s] # <<>>
    /\ incoming' = [incoming EXCEPT ![s] = Tail(@)]
    /\ age' = [age EXCEPT ![s] = Head(incoming[s])]
    /\ status' = [status EXCEPT ![s] = IF @ = "Offline" THEN "Online" ELSE @]
    /\ told' = [told EXCEPT ![s] = IF status[s] = "Offline" THEN "Online" ELSE @]
    /\ UNCHANGED <<alive, running, phase, lag, changes>>

\* The callback is called when the status changes.
SetStatus(s, new) ==
    /\ status' = [status EXCEPT ![s] = new]
    /\ told' = [told EXCEPT ![s] = IF status[s] # new THEN new ELSE @]

\* All under mutex_, the callback included.
OnHeartbeat(s) ==
    /\ incoming[s] # <<>>
    /\ incoming' = [incoming EXCEPT ![s] = Tail(@)]
    /\ age' = [age EXCEPT ![s] = Head(incoming[s])]
    /\ SetStatus(s, "Online")
    /\ UNCHANGED <<alive, running, phase, lag, changes>>

-----------------------------------------------------------------------------
(***************************************************************************)
(* CheckLoop.                                                              *)
(***************************************************************************)

Leave ==
    /\ phase = "top"
    /\ ~running
    /\ phase' = "off"
    /\ UNCHANGED <<status, age, incoming, alive, running, lag, changes, told>>

\* The clock is read before mutex_ is taken.
ReadClock ==
    /\ phase = "top"
    /\ running
    /\ phase' = "check"
    /\ lag' = 0
    /\ UNCHANGED <<status, age, incoming, alive, running, changes, told>>

\* Mutant of Silent: the difference the wrong way round.
SilentBackwards(s) == status[s] = "Online" /\ lag - age[s] > Timeout[s]

\* now - last_time > timeout_sec, for the "now" read before.
Silent(s) == status[s] = "Online" /\ age[s] - lag > Timeout[s]

\* Mutant of Check: what is to be reported is picked out afterwards.
CheckForgetful ==
    /\ phase = "check"
    /\ status' = [s \in Targets |-> IF Silent(s) THEN "Timeout" ELSE status[s]]
    /\ changes' = {s \in Targets : Silent(s) /\ status'[s] = "Online"}
    /\ phase' = "notify"
    /\ lag' = 0
    /\ UNCHANGED <<age, incoming, alive, running, told>>

\* The pass over states_ under mutex_.
Check ==
    /\ phase = "check"
    /\ changes' = {s \in Targets : Silent(s)}
    /\ status' = [s \in Targets |-> IF Silent(s) THEN "Timeout" ELSE status[s]]
    /\ phase' = "notify"
    /\ lag' = 0
    /\ UNCHANGED <<age, incoming, alive, running, told>>

\* The callbacks, without mutex_.
Notify == \E s \in changes :
    /\ phase = "notify"
    /\ told' = [told EXCEPT ![s] = "Timeout"]
    /\ changes' = changes \ {s}
    /\ UNCHANGED <<status, age, incoming, alive, running, phase, lag>>

\* Mutant of EndPass: the loop may be left before everybody was told.
EndPassEarly ==
    /\ phase = "notify"
    /\ phase' = "top"
    /\ UNCHANGED <<status, age, incoming, alive, running, lag, changes, told>>

EndPass ==
    /\ phase = "notify"
    /\ changes = {}
    /\ phase' = "top"
    /\ UNCHANGED <<status, age, incoming, alive, running, lag, changes, told>>

CheckLoop == Leave \/ ReadClock \/ Check \/ Notify \/ EndPass

-----------------------------------------------------------------------------

Next ==
    \/ Tick \/ Start \/ Stop \/ CheckLoop
    \/ \E s \in Targets : Send(s) \/ Die(s) \/ Revive(s) \/ OnHeartbeat(s)

Spec == Init /\ [][Next]_vars

\* Time passes, the check thread runs, and what was sent is delivered.
FairSpec ==
    /\ Spec
    /\ WF_vars(Tick)
    /\ WF_vars(CheckLoop)
    /\ \A s \in Targets : WF_vars(OnHeartbeat(s))

-----------------------------------------------------------------------------
(***************************************************************************)
(* Properties.                                                             *)
(***************************************************************************)

\* The types; time-outs wait to be reported only while CheckLoop reports, and
\* its "now" is kept only until the pass under the lock.
TypeOK ==
    /\ status \in [Targets -> Statuses]
    /\ age \in [Targets -> Int]
    /\ incoming \in [Targets -> Seq(Int)]
    /\ alive \in SUBSET Targets
    /\ running \in BOOLEAN
    /\ phase \in Phases
    /\ lag \in 0 .. MaxLag /\ (phase # "check" => lag = 0)
    /\ changes \in SUBSET Targets /\ (phase # "notify" => changes = {})
    /\ told \in [Targets -> Statuses]

\* A service that counts as timed out has been silent for longer than its
\* time-out, by its own timestamps, although the clock was read before the lock
\* was taken and heartbeats came in between (heartbeat_monitor.cpp:111-130).
TimeoutJustified ==
    \A s \in Targets : status[s] = "Timeout" => age[s] > Timeout[s]

\* No time-out goes unreported: the callback has heard of it last, or CheckLoop
\* is about to tell it.
TimeoutTold ==
    \A s \in Targets : status[s] = "Timeout" => told[s] = "Timeout" \/ s \in changes

\* A service that falls silent times out, whatever is still on its way.
SilenceDetected == \A s \in Targets :
    running /\ status[s] = "Online" /\ s \notin alive
        ~> status[s] = "Timeout" \/ s \in alive \/ ~running

\* A heartbeat brings a service back Online.
Recovers == \A s \in Targets : incoming[s] # <<>> ~> status[s] = "Online"

\* The callback is "called when Online and Timeout switch"
\* (heartbeat_monitor.h:85): between two passes the listener knows the status.
ListenerUpToDate ==
    \A s \in Targets : phase = "top" => told[s] = status[s]

=============================================================================
