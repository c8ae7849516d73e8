---------------------------- MODULE MCModeManager ---------------------------
(***************************************************************************)
(* Two services of which the second needs the first, and modes that ask    *)
(* for neither, the first, both, or the second alone.                      *)
(***************************************************************************)
EXTENDS ModeManager, TLC

CONSTANTS motion, remote, t1, t2, p1, p2, p3

ModeServices == {motion, remote}
ModeDeps     == motion :> {} @@ remote :> {motion}

ClosedTarget ==
    "standby" :> (motion :> "inactive" @@ remote :> "stopped") @@
    "debug"   :> (motion :> "absent" @@ remote :> "absent")
OpenTarget ==
    "teleop"  :> (motion :> "active" @@ remote :> "active") @@
    "solo"    :> (motion :> "absent" @@ remote :> "active")

Symmetry == Permutations(Threads) \cup Permutations(Pids)

=============================================================================
