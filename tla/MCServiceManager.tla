-------------------------- MODULE MCServiceManager --------------------------
(***************************************************************************)
(* Instances of ServiceManager: three services of which one is a base both *)
(* others need, the third also needing the second and a service nobody     *)
(* registered; and a pair that depends on each other.                      *)
(***************************************************************************)
EXTENDS ServiceManager, TLC

CONSTANTS motion, remote, voice, t1, t2, p1, p2, p3, p4

TreeServices == {motion, remote, voice}
TreeNames    == TreeServices \cup {"unregistered"}
TreeDeps ==
    motion :> {} @@ remote :> {motion} @@ voice :> {motion, remote, "unregistered"}
TreeGroups == {{motion}, {remote}, {voice}, TreeServices}

PairServices == {motion, remote}
PairDeps     == motion :> {remote} @@ remote :> {motion}
ChainDeps    == motion :> {} @@ remote :> {motion}
PairGroups   == {{motion}, {remote}}

Symmetry == Permutations(Threads) \cup Permutations(Pids)

=============================================================================
