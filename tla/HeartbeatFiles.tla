--------------------------- MODULE HeartbeatFiles ---------------------------
(***************************************************************************)
(* The heartbeat collector of the module manager hub                       *)
(* (core/heartbeat_collector_core.cpp, ros/heartbeat_collector_node.cpp).  *)
(* For every target it hears of it writes a file that others read: a       *)
(* temporary file first, which is then renamed.  A timer takes the file    *)
(* away when the target has been silent for too long.                      *)
(*                                                                         *)
(* One thread runs it.  Its steps are those that others, or a crash, can   *)
(* come between: the files are on the disk and outlive the process, what   *)
(* it knows of the targets does not.  checkTimeout is a step per target,   *)
(* because it takes their files away one after the other.                  *)
(***************************************************************************)
CONSTANTS
    Targets,    \* HeartbeatTarget, by name
    NoTarget    \* nothing is being written

VARIABLES
    collecting, \* the process runs
    state,      \* state[t]: SVC_ONLINE or SVC_OFFLINE
    silent,     \* silent[t]: now - last_time > timeout_sec_
    writing,    \* the target whose file is being written
    writeAt,    \* the next step of writeHeartbeatFile
    tmp,        \* tmp[t]: the temporary file
    dst,        \* dst[t]: the file others read
    cutShort    \* the disk has cut a write short

fileVars == <<collecting, state, silent, writing, writeAt, tmp, dst, cutShort>>

AllOffline == [t \in Targets |-> "OFFLINE"]
NeverHeard == [t \in Targets |-> TRUE]      \* last_time is 0

FilesInit ==
    /\ collecting = TRUE
    /\ state = AllOffline
    /\ silent = NeverHeard
    /\ writing = NoTarget
    /\ writeAt = "done"
    /\ tmp = [t \in Targets |-> "none"]
    /\ dst = [t \in Targets |-> "none"]
    /\ cutShort = FALSE

Idle == collecting /\ writing = NoTarget

\* Mutant of BeatArrives: the file is written in its place.
BeatInPlace(t) ==
    /\ Idle
    /\ state' = [state EXCEPT ![t] = "ONLINE"]
    /\ silent' = [silent EXCEPT ![t] = FALSE]
    /\ writing' = t
    /\ writeAt' = "data"
    /\ dst' = [dst EXCEPT ![t] = "part"]
    /\ UNCHANGED <<collecting, tmp, cutShort>>

\* onHeartbeat, up to the opening of the temporary file, which empties it; when
\* the directory cannot be made or the file not be opened, that is all.
BeatArrives(t) ==
    /\ Idle
    /\ state' = [state EXCEPT ![t] = "ONLINE"]
    /\ silent' = [silent EXCEPT ![t] = FALSE]
    /\ \/ /\ writing' = t
          /\ writeAt' = "data"
          /\ tmp' = [tmp EXCEPT ![t] = "part"]
       \/ UNCHANGED <<writing, writeAt, tmp>>
    /\ UNCHANGED <<collecting, dst, cutShort>>

\* The stream is written and closed, and nobody asks it how that went.
WriteData ==
    /\ writeAt = "data"
    /\ writeAt' = "rename"
    /\ \/ /\ tmp' = [tmp EXCEPT ![writing] = "whole"]
          /\ UNCHANGED cutShort
       \/ /\ cutShort' = TRUE
          /\ UNCHANGED tmp
    /\ UNCHANGED <<collecting, state, silent, writing, dst>>

\* The rename, or the removal of the temporary file when it fails.
Rename ==
    /\ writeAt = "rename"
    /\ \/ dst' = [dst EXCEPT ![writing] = tmp[writing]]
       \/ UNCHANGED dst
    /\ tmp' = [tmp EXCEPT ![writing] = "none"]
    /\ writing' = NoTarget
    /\ writeAt' = "done"
    /\ UNCHANGED <<collecting, state, silent, cutShort>>

\* Mutant of CheckTimeout: the file stays.
CheckKeepsFile(t) ==
    /\ Idle
    /\ state[t] = "ONLINE" /\ silent[t]
    /\ state' = [state EXCEPT ![t] = "OFFLINE"]
    /\ tmp' = [tmp EXCEPT ![t] = "none"]
    /\ UNCHANGED <<collecting, silent, writing, writeAt, dst, cutShort>>

CheckTimeout(t) ==
    /\ Idle
    /\ state[t] = "ONLINE" /\ silent[t]
    /\ state' = [state EXCEPT ![t] = "OFFLINE"]
    /\ dst' = [dst EXCEPT ![t] = "none"]
    /\ tmp' = [tmp EXCEPT ![t] = "none"]
    /\ UNCHANGED <<collecting, silent, writing, writeAt, cutShort>>

-----------------------------------------------------------------------------

\* The target has said nothing for timeout_sec_.
FallSilent(t) ==
    /\ ~silent[t]
    /\ silent' = [silent EXCEPT ![t] = TRUE]
    /\ UNCHANGED <<collecting, state, writing, writeAt, tmp, dst, cutShort>>

CrashCollector ==
    /\ collecting
    /\ collecting' = FALSE
    /\ state' = AllOffline
    /\ silent' = NeverHeard
    /\ writing' = NoTarget
    /\ writeAt' = "done"
    /\ UNCHANGED <<tmp, dst, cutShort>>

StartCollector ==
    /\ ~collecting
    /\ collecting' = TRUE
    /\ UNCHANGED <<state, silent, writing, writeAt, tmp, dst, cutShort>>

FilesNext ==
    \/ WriteData \/ Rename \/ CrashCollector \/ StartCollector
    \/ \E t \in Targets : BeatArrives(t) \/ CheckTimeout(t) \/ FallSilent(t)

FilesSpec == FilesInit /\ [][FilesNext]_fileVars

-----------------------------------------------------------------------------

FilesTypeOK ==
    /\ collecting \in BOOLEAN
    /\ state \in [Targets -> {"ONLINE", "OFFLINE"}]
    /\ silent \in [Targets -> BOOLEAN]
    /\ writing \in Targets \cup {NoTarget}
    /\ writeAt \in {"data", "rename", "done"}
    /\ tmp \in [Targets -> {"none", "part", "whole"}]
    /\ dst \in [Targets -> {"none", "part", "whole"}]
    /\ cutShort \in BOOLEAN

\* Whoever reads a heartbeat file, and whenever, finds it whole, across crashes
\* between any two steps and the temporary files they leave behind; only a disk
\* that cuts a write short, which nobody looks at, can spoil one
\* (writeHeartbeatFile).
FileWhole == \A t \in Targets : dst[t] = "part" => cutShort

\* A target that falls silent is taken for OFFLINE and its file taken away,
\* unless it is heard again or the collector itself dies, whatever the other
\* targets do meanwhile (checkTimeout).
SilentGoesOffline ==
    \A t \in Targets :
        (state[t] = "ONLINE" /\ silent[t])
            ~> (~silent[t] \/ ~collecting \/ (state[t] = "OFFLINE" /\ dst[t] = "none"))

=============================================================================
