-------------------------- MODULE ServiceLifecycle --------------------------
(***************************************************************************)
(* What the service manager promises about ServiceState                    *)
(* (service_manager.h:21-27), for everybody who reads states without its   *)
(* mutex: services change state one at a time, along the life cycle only,  *)
(* and none stays STARTING or STOPPING.                                    *)
(***************************************************************************)
CONSTANT Services

VARIABLE state

Init == state = [s \in Services |-> "STOPPED"]

Settled == \A s \in Services : state[s] \in {"STOPPED", "RUNNING", "FAILED"}

Move(s, from, to) ==
    /\ state[s] \in from
    /\ state' = [state EXCEPT ![s] = to]

\* With no service between two states, one may begin to start or to stop; a
\* stop also clears a failure.
Begin(s) ==
    /\ Settled
    /\ \/ Move(s, {"STOPPED", "FAILED"}, "STARTING")
       \/ Move(s, {"RUNNING"}, "STOPPING")
       \/ Move(s, {"FAILED"}, "STOPPED")

\* The service between two states arrives.
Arrive(s) ==
    \/ Move(s, {"STARTING"}, "RUNNING")
    \/ Move(s, {"STARTING"}, "FAILED")
    \/ Move(s, {"STOPPING"}, "STOPPED")

Next == \E s \in Services : Begin(s) \/ Arrive(s)

Spec == Init /\ [][Next]_state

FairSpec == Spec /\ \A s \in Services : WF_state(Arrive(s))

=============================================================================
