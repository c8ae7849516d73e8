------------------------------- MODULE MCParts -------------------------------
(***************************************************************************)
(* The parts of the repository that share no state with the runtime or     *)
(* with each other, checked side by side: a behaviour is one of one part,  *)
(* chosen at its start, in which the variables of the others never change. *)
(***************************************************************************)
EXTENDS MessageBus, ReliableTopic, Discovery, FramePipeline, HeartbeatFiles,
        SerialFrames, DependencyOrder

LOCAL INSTANCE FiniteSets
LOCAL INSTANCE SequencesExt

VARIABLE part

partVars == <<part, busVars, topicVars, discoveryVars, pipeVars, fileVars,
              serialVars, dependencyVars>>

Parts == {"bus", "topic", "discovery", "pipeline", "files", "serial", "order"}

\* Start bytes among the axes, a button that may be taken for a count, and equal
\* beginnings.
MCFrames ==
    << [axes |-> <<170, 85>>, buttons |-> <<1>>], [axes |-> <<85>>, buttons |-> <<>>],
       [axes |-> <<170>>, buttons |-> <<0>>], [axes |-> <<170>>, buttons |-> <<>>] >>

\* A list for each set of up to two dependencies.
MCDepLists == {SetToSeq(names) : names \in {s \in SUBSET Services : Cardinality(s) <= 2}}

MCTables == {[n \in {} |-> <<>>], [n \in Services |-> <<>>]}

\* A checksum that tells apart what the run can make of the frames.
MCChecksum(bytes) ==
    LET sum[i \in Nat] == IF i = 0 THEN 7 ELSE (5 * sum[i - 1] + bytes[i]) % 251
    IN  sum[Len(bytes)]

PartsInit ==
    /\ part \in Parts
    /\ BusInit /\ TopicInit /\ DiscoveryInit /\ PipelineInit /\ FilesInit
    /\ SerialInit /\ DependencyInit

\* The other parts stay as they are.
Only(name) ==
    /\ UNCHANGED part
    /\ IF name = "bus" THEN TRUE ELSE UNCHANGED busVars
    /\ IF name = "topic" THEN TRUE ELSE UNCHANGED topicVars
    /\ IF name = "discovery" THEN TRUE ELSE UNCHANGED discoveryVars
    /\ IF name = "pipeline" THEN TRUE ELSE UNCHANGED pipeVars
    /\ IF name = "files" THEN TRUE ELSE UNCHANGED fileVars
    /\ IF name = "serial" THEN TRUE ELSE UNCHANGED serialVars
    /\ IF name = "order" THEN TRUE ELSE UNCHANGED dependencyVars

PartsNext ==
    \/ part = "bus" /\ BusNext /\ Only("bus")
    \/ part = "topic" /\ TopicNext /\ Only("topic")
    \/ part = "discovery" /\ DiscoveryNext /\ Only("discovery")
    \/ part = "pipeline" /\ PipelineNext /\ Only("pipeline")
    \/ part = "files" /\ FilesNext /\ Only("files")
    \/ part = "serial" /\ SerialNext /\ Only("serial")
    \/ part = "order" /\ DependencyNext /\ Only("order")

-----------------------------------------------------------------------------
(***************************************************************************)
(* Fairness.  The sets of workers, publishers, peers and targets are one   *)
(* set here, so that each condition is one of every part:                  *)
(*   - bus: threads run, handlers return, and none starves at a mutex that *)
(*     others take and free again and again;                               *)
(*   - topic: the timer sends heartbeats, and not all of them are lost;    *)
(*   - discovery: the timer announces, and not every announcement of a     *)
(*     node that goes on announcing is lost;                               *)
(*   - files: the process gets on with what it writes, and the timer fires *)
(*     although the heartbeats of others fill the time in between.         *)
(***************************************************************************)

ASSUME OneSet == Workers = Publishers /\ Workers = Peers /\ Workers = Targets

Turn(x) ==
    \/ part = "bus" /\ WorkerStep(x) /\ Only("bus")
    \/ part = "topic" /\ SendHeartbeat /\ Only("topic")
    \/ part = "discovery" /\ BroadcastAll(x) /\ Only("discovery")
    \/ part = "files" /\ CheckTimeout(x) /\ Only("files")

Arrival(x) ==
    \/ part = "bus" /\ ScheduleStep(x) /\ Only("bus")
    \/ part = "topic" /\ \E max \in beats : OnHeartbeat(max) /\ Only("topic")
    \/ part = "discovery" /\ \E m \in Peers \ {x} : HandleDiscovery(x, m) /\ Only("discovery")
    \/ part = "files" /\ (WriteData \/ Rename) /\ Only("files")

PartsFairness ==
    \A x \in Workers : SF_partVars(Turn(x)) /\ SF_partVars(Arrival(x))

PartsSpec == PartsInit /\ [][PartsNext]_partVars /\ PartsFairness

\* Every variable of every part has its type: the places of threads, counters and
\* indices within their bounds, and messages, files and bytes of the kinds the
\* code knows (all parts).
PartsTypeOK ==
    /\ part \in Parts
    /\ BusTypeOK /\ TopicTypeOK /\ DiscoveryTypeOK /\ PipelineTypeOK
    /\ FilesTypeOK /\ SerialTypeOK /\ DependencyTypeOK

=============================================================================
