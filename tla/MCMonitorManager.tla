-------------------------- MODULE MCMonitorManager --------------------------
(***************************************************************************)
(* One client thread, which the mutex makes as good as many, and two       *)
(* services of which remote needs motion; voice is not registered.         *)
(***************************************************************************)
EXTENDS MonitorManager, TLC

CONSTANTS motion, remote, voice, t1, p1, p2

TwoServices == {motion, remote}
AllNames    == TwoServices \cup {voice}
ChainDeps   == motion :> {} @@ remote :> {motion}
Singles     == {{motion}, {remote}}

=============================================================================
