----------------------------- MODULE MessageBus -----------------------------
(***************************************************************************)
(* The message bus of the system skeleton: MessageBus, its TopicChannels   *)
(* and the Executor whose worker threads run the handlers                  *)
(* (src/transport/message_bus.h).                                          *)
(*                                                                         *)
(* A channel has a queue of tasks, its own mutex and a flag, scheduled.    *)
(* Whoever puts a task into an idle channel raises the flag and, after     *)
(* letting go of the mutex, puts the channel into the executor's queue of  *)
(* ready channels.  A worker takes the channel, runs its tasks one after   *)
(* the other, and in one more critical section lowers the flag or puts the *)
(* channel back.  A step is a critical section, or what a thread does      *)
(* between two of them.  A worker that finds no ready channel goes to      *)
(* sleep on cv_: what it read under ready_mutex_ and its falling asleep    *)
(* are two steps, the mutex held between them, because stop_ is stored     *)
(* without the mutex.                                                      *)
(***************************************************************************)
EXTENDS Naturals, Sequences

CONSTANTS
    Topics,        \* topics nodes subscribe to
    Nodes,         \* nodes that subscribe
    Workers,       \* Executor::workers_
    Publishers,    \* threads that call publish or publishPtr
    MaxQueue,      \* TopicChannel::max_queue_size_
    MaxPublished,  \* bound on the messages published
    NoTopic, NoMessage

ASSUME BusAssumption ==
    /\ MaxQueue \in Nat \ {0}
    /\ MaxPublished \in Nat
    /\ NoTopic \notin Topics
    /\ NoMessage \notin Nat

VARIABLES
    handlers,      \* handlers[t]: the nodes in the channel's handlers
    channels,      \* topics_: the topics that have a channel
    joining,       \* joining[n]: the topic n is about to add its handler to
    tasks,         \* tasks[t]: TopicChannel::tasks, a task by its message
    scheduled,     \* scheduled[t]: TopicChannel::scheduled
    ready,         \* Executor::ready_topics_
    workerAt,      \* workerAt[w]: where worker_loop is
    workerOn,      \* workerOn[w]: its channel
    running,       \* running[w]: the task it runs
    publisherAt,   \* publisherAt[p]: where publish is
    publisherOn,   \* publisherOn[p]: its channel
    stopping,      \* how far ~Executor has come
    published      \* messages in tasks so far

subVars     == <<handlers, channels, joining>>
workerVars  == <<workerAt, workerOn, running>>
publishVars == <<publisherAt, publisherOn, published>>
busVars     == <<subVars, tasks, scheduled, ready, workerVars, publishVars, stopping>>

-----------------------------------------------------------------------------

WorkerPoints    == {"top", "test", "blocking", "asleep", "drain", "run",
                    "clear", "notify", "left"}
PublisherPoints == {"idle", "schedule", "notify"}

\* Some worker holds ready_mutex_ between its test and its wait.
ReadyLocked == \E w \in Workers : workerAt[w] = "blocking"

\* A worker holds the channel's mutex while it calls schedule.
ChannelLocked(t) == \E w \in Workers : workerAt[w] = "notify" /\ workerOn[w] = t

BusInit ==
    /\ handlers = [t \in Topics |-> {}]
    /\ channels = {}
    /\ joining = [n \in Nodes |-> NoTopic]
    /\ tasks = [t \in Topics |-> <<>>]
    /\ scheduled = [t \in Topics |-> FALSE]
    /\ ready = <<>>
    /\ workerAt = [w \in Workers |-> "top"]
    /\ workerOn = [w \in Workers |-> NoTopic]
    /\ running = [w \in Workers |-> NoMessage]
    /\ publisherAt = [p \in Publishers |-> "idle"]
    /\ publisherOn = [p \in Publishers |-> NoTopic]
    /\ stopping = "no"
    /\ published = 0

-----------------------------------------------------------------------------
(***************************************************************************)
(* subscribe: the channel is made under one mutex, the handler added under *)
(* another.                                                                *)
(***************************************************************************)

GetOrCreateChannel(n, t) ==
    /\ joining[n] = NoTopic
    /\ n \notin handlers[t]
    /\ channels' = channels \cup {t}
    /\ joining' = [joining EXCEPT ![n] = t]
    /\ UNCHANGED <<handlers, tasks, scheduled, ready, workerVars, publishVars, stopping>>

AddHandler(n) ==
    /\ joining[n] # NoTopic
    /\ ~ChannelLocked(joining[n])
    /\ handlers' = [handlers EXCEPT ![joining[n]] = @ \cup {n}]
    /\ joining' = [joining EXCEPT ![n] = NoTopic]
    /\ UNCHANGED <<channels, tasks, scheduled, ready, workerVars, publishVars, stopping>>

-----------------------------------------------------------------------------
(***************************************************************************)
(* publish and publishPtr.                                                 *)
(***************************************************************************)

\* Mutant of NeedSchedule: the flag is not looked at.
NeedScheduleIfEmpty(t) == tasks[t] = <<>>

NeedSchedule(t) == tasks[t] = <<>> /\ ~scheduled[t]

\* Mutant of Queued: a full queue refuses the new task.
QueuedUnlessFull(queue, m) ==
    IF Len(queue) >= MaxQueue THEN queue ELSE Append(queue, m)

\* The queue with the task of message m behind it; a full one loses its head.
Queued(queue, m) ==
    Append(IF Len(queue) >= MaxQueue THEN Tail(queue) ELSE queue, m)

Publish(p, t) ==
    /\ publisherAt[p] = "idle"
    /\ t \in channels
    /\ published < MaxPublished
    /\ ~ChannelLocked(t)
    /\ published' = published + 1
    /\ tasks' = [tasks EXCEPT ![t] = Queued(@, published')]
    /\ IF NeedSchedule(t)
       THEN /\ scheduled' = [scheduled EXCEPT ![t] = TRUE]
            /\ publisherAt' = [publisherAt EXCEPT ![p] = "schedule"]
            /\ publisherOn' = [publisherOn EXCEPT ![p] = t]
       ELSE UNCHANGED <<scheduled, publisherAt, publisherOn>>
    /\ UNCHANGED <<subVars, ready, workerVars, stopping>>

\* schedule: the push under ready_mutex_ ...
Schedule(p) ==
    /\ publisherAt[p] = "schedule"
    /\ ~ReadyLocked
    /\ ready' = Append(ready, publisherOn[p])
    /\ publisherAt' = [publisherAt EXCEPT ![p] = "notify"]
    /\ UNCHANGED <<subVars, tasks, scheduled, workerVars, publisherOn, published, stopping>>

\* ... and notify_one after it, which wakes one sleeper if there is any.
WakeOne(at) ==
    \/ /\ \A w \in Workers : workerAt[w] # "asleep"
       /\ workerAt' = at
    \/ \E w \in Workers :
          /\ workerAt[w] = "asleep"
          /\ workerAt' = [at EXCEPT ![w] = "test"]

\* Mutant of Notify: schedule forgets to notify.
NotifyNobody(p) ==
    /\ publisherAt[p] = "notify"
    /\ publisherAt' = [publisherAt EXCEPT ![p] = "idle"]
    /\ publisherOn' = [publisherOn EXCEPT ![p] = NoTopic]
    /\ UNCHANGED <<subVars, tasks, scheduled, ready, workerVars, published, stopping>>

Notify(p) ==
    /\ publisherAt[p] = "notify"
    /\ WakeOne(workerAt)
    /\ publisherAt' = [publisherAt EXCEPT ![p] = "idle"]
    /\ publisherOn' = [publisherOn EXCEPT ![p] = NoTopic]
    /\ UNCHANGED <<subVars, tasks, scheduled, ready, workerOn, running, published, stopping>>

-----------------------------------------------------------------------------
(***************************************************************************)
(* worker_loop.                                                            *)
(***************************************************************************)

Move(w, point) == workerAt' = [workerAt EXCEPT ![w] = point]

LoopHead(w) ==
    /\ workerAt[w] = "top"
    /\ Move(w, IF stopping = "no" THEN "test" ELSE "left")
    /\ UNCHANGED <<subVars, tasks, scheduled, ready, workerOn, running, publishVars, stopping>>

\* cv_.wait finds its predicate true: there is a channel, or stop_ is set.
TakeChannel(w) ==
    /\ workerAt[w] = "test"
    /\ ~ReadyLocked
    /\ ready # <<>>
    /\ workerOn' = [workerOn EXCEPT ![w] = Head(ready)]
    /\ ready' = Tail(ready)
    /\ Move(w, "drain")
    /\ UNCHANGED <<subVars, tasks, scheduled, running, publishVars, stopping>>

FindNothing(w) ==
    /\ workerAt[w] = "test"
    /\ ~ReadyLocked
    /\ ready = <<>>
    /\ Move(w, IF stopping = "no" THEN "blocking" ELSE "left")
    /\ UNCHANGED <<subVars, tasks, scheduled, ready, workerOn, running, publishVars, stopping>>

FallAsleep(w) ==
    /\ workerAt[w] = "blocking"
    /\ Move(w, "asleep")
    /\ UNCHANGED <<subVars, tasks, scheduled, ready, workerOn, running, publishVars, stopping>>

\* A condition variable may wake its sleepers for no reason.
WakeSpuriously(w) ==
    /\ workerAt[w] = "asleep"
    /\ Move(w, "test")
    /\ UNCHANGED <<subVars, tasks, scheduled, ready, workerOn, running, publishVars, stopping>>

\* The inner loop takes the next task, or finds the queue empty.
Drain(w) ==
    /\ workerAt[w] = "drain"
    /\ ~ChannelLocked(workerOn[w])
    /\ LET t == workerOn[w] IN
       IF tasks[t] = <<>>
       THEN /\ Move(w, "clear")
            /\ UNCHANGED <<tasks, running>>
       ELSE /\ running' = [running EXCEPT ![w] = Head(tasks[t])]
            /\ tasks' = [tasks EXCEPT ![t] = Tail(@)]
            /\ Move(w, "run")
    /\ UNCHANGED <<subVars, scheduled, ready, workerOn, publishVars, stopping>>

\* The task has called its handlers, outside every mutex.
RunTask(w) ==
    /\ workerAt[w] = "run"
    /\ running' = [running EXCEPT ![w] = NoMessage]
    /\ Move(w, "drain")
    /\ UNCHANGED <<subVars, tasks, scheduled, ready, workerOn, publishVars, stopping>>

\* The last critical section: lower the flag, or put the channel back.
Clear(w) ==
    /\ workerAt[w] = "clear"
    /\ ~ChannelLocked(workerOn[w])
    /\ LET t == workerOn[w] IN
       IF tasks[t] = <<>>
       THEN /\ scheduled' = [scheduled EXCEPT ![t] = FALSE]
            /\ workerOn' = [workerOn EXCEPT ![w] = NoTopic]
            /\ Move(w, "top")
            /\ UNCHANGED ready
       ELSE /\ ~ReadyLocked
            /\ ready' = Append(ready, t)
            /\ Move(w, "notify")
            /\ UNCHANGED <<scheduled, workerOn>>
    /\ UNCHANGED <<subVars, tasks, running, publishVars, stopping>>

\* schedule's notify_one, the channel's mutex still held.
NotifyFromWorker(w) ==
    /\ workerAt[w] = "notify"
    /\ WakeOne([workerAt EXCEPT ![w] = "top"])
    /\ workerOn' = [workerOn EXCEPT ![w] = NoTopic]
    /\ UNCHANGED <<subVars, tasks, scheduled, ready, running, publishVars, stopping>>

-----------------------------------------------------------------------------
(***************************************************************************)
(* ~Executor: stop_ is stored, then everybody notified.                    *)
(***************************************************************************)

StoreStop ==
    /\ stopping = "no"
    /\ stopping' = "stored"
    /\ UNCHANGED <<subVars, tasks, scheduled, ready, workerVars, publishVars>>

NotifyAll ==
    /\ stopping = "stored"
    /\ stopping' = "notified"
    /\ workerAt' = [w \in Workers |->
                       IF workerAt[w] = "asleep" THEN "test" ELSE workerAt[w]]
    /\ UNCHANGED <<subVars, tasks, scheduled, ready, workerOn, running, publishVars>>

-----------------------------------------------------------------------------

WorkerStep(w) ==
    \/ LoopHead(w) \/ TakeChannel(w) \/ FindNothing(w) \/ FallAsleep(w)
    \/ Drain(w) \/ RunTask(w) \/ Clear(w) \/ NotifyFromWorker(w)

ScheduleStep(p) == Schedule(p) \/ Notify(p)

BusNext ==
    \/ StoreStop \/ NotifyAll
    \/ \E n \in Nodes : AddHandler(n) \/ \E t \in Topics : GetOrCreateChannel(n, t)
    \/ \E p \in Publishers : ScheduleStep(p) \/ \E t \in Topics : Publish(p, t)
    \/ \E w \in Workers : WorkerStep(w) \/ WakeSpuriously(w)

BusSpec == BusInit /\ [][BusNext]_busVars

-----------------------------------------------------------------------------

BusTypeOK ==
    /\ handlers \in [Topics -> SUBSET Nodes]
    /\ channels \subseteq Topics
    /\ joining \in [Nodes -> Topics \cup {NoTopic}]
    /\ tasks \in [Topics -> Seq(1 .. published)]
    /\ scheduled \in [Topics -> BOOLEAN]
    /\ ready \in Seq(Topics)
    /\ workerAt \in [Workers -> WorkerPoints]
    /\ workerOn \in [Workers -> Topics \cup {NoTopic}]
    /\ running \in [Workers -> 1 .. published \cup {NoMessage}]
    /\ publisherAt \in [Publishers -> PublisherPoints]
    /\ publisherOn \in [Publishers -> Topics \cup {NoTopic}]
    /\ stopping \in {"no", "stored", "notified"}
    /\ published \in 0 .. MaxPublished

\* Who has the right to work on channel t: an entry of the ready queue, the
\* worker that has taken it out, the publisher that will put it in.
Tickets(t) ==
    [kind : {"entry"}, of : {i \in 1 .. Len(ready) : ready[i] = t}] \cup
    [kind : {"worker"}, of : {w \in Workers :
        workerOn[w] = t /\ workerAt[w] \in {"drain", "run", "clear"}}] \cup
    [kind : {"publisher"}, of : {p \in Publishers :
        publisherOn[p] = t /\ publisherAt[p] = "schedule"}]

\* Drained by a worker and refilled by publishers in separate critical
\* sections, a channel is never served by two: at most one ticket exists, and
\* exactly when the flag is up.  And no task is stranded in a channel nobody
\* will serve, although the worker that found it empty had not lowered the flag
\* yet when the task came (publish and worker_loop).
OneTicket ==
    \A t \in Topics :
        /\ scheduled[t] <=> Tickets(t) # {}
        /\ \A a, b \in Tickets(t) : a = b
        /\ tasks[t] # <<>> => scheduled[t]

\* A ready channel never waits for workers that all sleep: somebody is awake,
\* or about to notify, although notify_one is called without the mutex and
\* may find nobody asleep (schedule).
NoLostWakeup ==
    ready # <<>> =>
        \/ \E w \in Workers : workerAt[w] \notin {"asleep", "blocking"}
        \/ \E p \in Publishers : publisherAt[p] = "notify"

\* To its subscribers the bus is a set of mailboxes (TopicMailbox): one
\* message of a topic handled at a time, in order, the oldest displaced when
\* the queue is full, none forgotten while the bus is open.
HandledOn(t) ==
    {running[w] : w \in {v \in Workers : workerAt[v] = "run" /\ workerOn[v] = t}}

Mailbox == INSTANCE TopicMailbox WITH
    box     <- tasks,
    handled <- [t \in Topics |->
                   IF HandledOn(t) = {} THEN NoMessage ELSE CHOOSE m \in HandledOn(t) : TRUE],
    count   <- published,
    open    <- stopping = "no"

ImplementsMailbox == Mailbox!MailSpec

=============================================================================
