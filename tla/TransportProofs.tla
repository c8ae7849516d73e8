--------------------------- MODULE TransportProofs ---------------------------
(***************************************************************************)
(* Theorems about the two ways in which threads hand data to each other.   *)
(* The message bus: for any number of topics, workers and publishers and   *)
(* queues of any size, a channel is served by one worker at a time, a      *)
(* ready channel finds a worker awake, and the bus takes no step that a    *)
(* set of mailboxes does not take.  The rings of the pipeline: for any     *)
(* capacity, no frame is torn, and the sink is given frames in the order   *)
(* they were made.                                                         *)
(***************************************************************************)
EXTENDS MessageBus, FramePipeline, TLAPS

-----------------------------------------------------------------------------
(***************************************************************************)
(* Types.  A thread that is busy with a channel knows which.               *)
(***************************************************************************)

Busy == {"drain", "run", "clear", "notify"}

\* Where a thread is tells what its channel and its task can be.
AtTheirPlaces ==
    /\ \A w \in Workers : workerAt[w] \in Busy => workerOn[w] \in Topics
    /\ \A w \in Workers : workerAt[w] = "run" => running[w] \in 1 .. published
    /\ \A p \in Publishers : publisherAt[p] # "idle" => publisherOn[p] \in Topics

BusTyped == BusTypeOK /\ AtTheirPlaces

LEMMA QueuedTyped ==
    ASSUME NEW S, NEW queue \in Seq(S), NEW m \in S
    PROVE  Queued(queue, m) \in Seq(S) /\ Queued(queue, m) # <<>>
<1>1. CASE Len(queue) >= MaxQueue
  <2>1. queue # <<>>
    BY <1>1, BusAssumption
  <2>2. Tail(queue) \in Seq(S)
    BY <2>1
  <2>3. Queued(queue, m) = Append(Tail(queue), m)
    BY <1>1 DEF Queued
  <2>4. Append(Tail(queue), m) \in Seq(S) /\ Len(Append(Tail(queue), m)) = Len(Tail(queue)) + 1
    BY <2>2
  <2> QED
    BY <2>2, <2>3, <2>4
<1>2. CASE ~(Len(queue) >= MaxQueue)
  BY <1>2 DEF Queued
<1> QED
  BY <1>1, <1>2

LEMMA BusTypedNext == BusTyped /\ [BusNext]_busVars => BusTyped'
<1> SUFFICES ASSUME BusTyped, [BusNext]_busVars PROVE BusTyped'
  OBVIOUS
<1> USE DEF BusTyped, BusTypeOK, AtTheirPlaces, Busy, WorkerPoints, PublisherPoints,
            subVars, workerVars, publishVars
<1>1. ASSUME NEW n \in Nodes, NEW t \in Topics, GetOrCreateChannel(n, t) PROVE BusTyped'
  BY <1>1 DEF GetOrCreateChannel
<1>2. ASSUME NEW n \in Nodes, AddHandler(n) PROVE BusTyped'
  BY <1>2 DEF AddHandler
<1>3. ASSUME NEW p \in Publishers, NEW t \in Topics, Publish(p, t) PROVE BusTyped'
  <2>1. published' = published + 1 /\ published' \in 0 .. MaxPublished
        /\ published' \in 1 .. published' /\ 1 .. published \subseteq 1 .. published'
    BY <1>3, BusAssumption DEF Publish
  <2>2. tasks \in [Topics -> Seq(1 .. published')]
    BY <2>1
  <2>3. tasks' \in [Topics -> Seq(1 .. published')]
    BY <1>3, <2>1, <2>2, QueuedTyped DEF Publish
  <2>4. /\ scheduled' \in [Topics -> BOOLEAN]
        /\ publisherAt' \in [Publishers -> PublisherPoints]
        /\ publisherOn' \in [Publishers -> Topics \cup {NoTopic}]
        /\ \A q \in Publishers : publisherAt'[q] # "idle" => publisherOn'[q] \in Topics
    BY <1>3 DEF Publish
  <2>5. UNCHANGED <<subVars, ready, workerVars, stopping>>
    BY <1>3 DEF Publish
  <2> QED
    BY <2>1, <2>3, <2>4, <2>5
<1>4. ASSUME NEW p \in Publishers, Schedule(p) PROVE BusTyped'
  BY <1>4 DEF Schedule
<1>5. ASSUME NEW places \in [Workers -> WorkerPoints], WakeOne(places),
             \A w \in Workers : places[w] \in Busy => places[w] = workerAt[w]
      PROVE  /\ workerAt' \in [Workers -> WorkerPoints]
             /\ \A w \in Workers : workerAt'[w] \in Busy => workerAt'[w] = workerAt[w]
  BY <1>5 DEF WakeOne
<1>6. ASSUME NEW p \in Publishers, Notify(p) PROVE BusTyped'
  <2>1. /\ workerAt' \in [Workers -> WorkerPoints]
        /\ \A w \in Workers : workerAt'[w] \in Busy => workerAt'[w] = workerAt[w]
    BY <1>5, <1>6 DEF Notify
  <2> QED
    BY <1>6, <2>1 DEF Notify
<1>7. ASSUME NEW w \in Workers, LoopHead(w) PROVE BusTyped'
  BY <1>7 DEF LoopHead, Move
<1>8. ASSUME NEW w \in Workers, TakeChannel(w) PROVE BusTyped'
  BY <1>8 DEF TakeChannel, Move
<1>9. ASSUME NEW w \in Workers, FindNothing(w) PROVE BusTyped'
  BY <1>9 DEF FindNothing, Move
<1>10. ASSUME NEW w \in Workers, FallAsleep(w) PROVE BusTyped'
  BY <1>10 DEF FallAsleep, Move
<1>11. ASSUME NEW w \in Workers, WakeSpuriously(w) PROVE BusTyped'
  BY <1>11 DEF WakeSpuriously, Move
<1>12. ASSUME NEW w \in Workers, Drain(w) PROVE BusTyped'
  <2>1. workerOn[w] \in Topics
    BY <1>12 DEF Drain
  <2>2. CASE tasks[workerOn[w]] = <<>>
    BY <1>12, <2>1, <2>2 DEF Drain, Move
  <2>3. CASE tasks[workerOn[w]] # <<>>
    <3>1. /\ Head(tasks[workerOn[w]]) \in 1 .. published
          /\ Tail(tasks[workerOn[w]]) \in Seq(1 .. published)
      BY <2>1, <2>3
    <3> QED
      BY <1>12, <2>1, <2>3, <3>1 DEF Drain, Move
  <2> QED
    BY <2>2, <2>3
<1>13. ASSUME NEW w \in Workers, RunTask(w) PROVE BusTyped'
  BY <1>13 DEF RunTask, Move
<1>14. ASSUME NEW w \in Workers, Clear(w) PROVE BusTyped'
  <2>1. CASE tasks[workerOn[w]] = <<>>
    BY <1>14, <2>1 DEF Clear, Move
  <2>2. CASE tasks[workerOn[w]] # <<>>
    <3>1. workerOn[w] \in Topics /\ ready' = Append(ready, workerOn[w])
      BY <1>14, <2>2 DEF Clear
    <3>2. ready' \in Seq(Topics)
      BY <3>1
    <3> QED
      BY <1>14, <2>2, <3>2 DEF Clear, Move
  <2> QED
    BY <2>1, <2>2
<1>15. ASSUME NEW w \in Workers, NotifyFromWorker(w) PROVE BusTyped'
  <2> DEFINE places == [workerAt EXCEPT ![w] = "top"]
  <2>1. /\ places \in [Workers -> WorkerPoints]
        /\ \A v \in Workers : places[v] \in Busy => places[v] = workerAt[v] /\ v # w
    OBVIOUS
  <2>2. /\ workerAt' \in [Workers -> WorkerPoints]
        /\ \A v \in Workers : workerAt'[v] \in Busy => workerAt'[v] = workerAt[v] /\ v # w
    BY <1>15, <2>1 DEF NotifyFromWorker, WakeOne
  <2> QED
    BY <1>15, <2>2 DEF NotifyFromWorker
<1>16. CASE StoreStop
  BY <1>16 DEF StoreStop
<1>17. CASE NotifyAll
  BY <1>17 DEF NotifyAll
<1>18. CASE UNCHANGED busVars
  BY <1>18 DEF busVars
<1> QED
  BY <1>1, <1>2, <1>3, <1>4, <1>6, <1>7, <1>8, <1>9, <1>10, <1>11, <1>12, <1>13, <1>14,
     <1>15, <1>16, <1>17, <1>18 DEF BusNext, WorkerStep, ScheduleStep

LEMMA BusTypedInit == BusInit => BusTyped
<1> SUFFICES ASSUME BusInit PROVE BusTyped
  OBVIOUS
<1>1. BusTypeOK
  BY BusAssumption DEF BusInit, BusTypeOK, WorkerPoints, PublisherPoints
<1>2. AtTheirPlaces
  BY DEF BusInit, AtTheirPlaces, Busy
<1> QED
  BY <1>1, <1>2 DEF BusTyped

-----------------------------------------------------------------------------
(***************************************************************************)
(* One ticket.  The three ways to have the right to a channel, and that    *)
(* no two of them hold together.                                           *)
(***************************************************************************)

Entry(t, i)  == i \in 1 .. Len(ready) /\ ready[i] = t
Serves(t, w) == w \in Workers /\ workerOn[w] = t /\ workerAt[w] \in {"drain", "run", "clear"}
Owes(t, p)   == p \in Publishers /\ publisherOn[p] = t /\ publisherAt[p] = "schedule"

Listed(t)  == \E i \in 1 .. Len(ready) : Entry(t, i)
Served(t)  == \E w \in Workers : Serves(t, w)
Owed(t)    == \E p \in Publishers : Owes(t, p)

AtMostOne(t) ==
    /\ \A i, j \in 1 .. Len(ready) : Entry(t, i) /\ Entry(t, j) => i = j
    /\ \A v, w \in Workers : Serves(t, v) /\ Serves(t, w) => v = w
    /\ \A p, q \in Publishers : Owes(t, p) /\ Owes(t, q) => p = q
    /\ ~(Listed(t) /\ Served(t)) /\ ~(Listed(t) /\ Owed(t)) /\ ~(Served(t) /\ Owed(t))

Ticketed(t) ==
    /\ scheduled[t] <=> Listed(t) \/ Served(t) \/ Owed(t)
    /\ AtMostOne(t)
    /\ tasks[t] # <<>> => scheduled[t]

\* The same with the tickets in one set.
LEMMA TicketedIsOne ==
    ASSUME \A t \in Topics : Ticketed(t)
    PROVE  OneTicket
<1> SUFFICES ASSUME NEW t \in Topics
             PROVE  /\ scheduled[t] <=> Tickets(t) # {}
                    /\ \A a, b \in Tickets(t) : a = b
                    /\ tasks[t] # <<>> => scheduled[t]
  BY DEF OneTicket
<1> DEFINE E == [kind : {"entry"}, of : {i \in 1 .. Len(ready) : ready[i] = t}]
           S == [kind : {"worker"}, of : {w \in Workers :
                    workerOn[w] = t /\ workerAt[w] \in {"drain", "run", "clear"}}]
           O == [kind : {"publisher"}, of : {p \in Publishers :
                    publisherOn[p] = t /\ publisherAt[p] = "schedule"}]
<1>1. Tickets(t) = E \cup S \cup O
  BY DEF Tickets
<1>2. (E # {} <=> Listed(t)) /\ \A e \in E : e = [kind |-> "entry", of |-> e.of]
                                             /\ e.of \in 1 .. Len(ready) /\ Entry(t, e.of)
  <2>1. ASSUME Listed(t) PROVE E # {}
    <3>1. PICK i \in 1 .. Len(ready) : ready[i] = t
      BY <2>1 DEF Listed, Entry
    <3>2. [kind |-> "entry", of |-> i] \in E
      BY <3>1
    <3> QED
      BY <3>2
  <2>2. \A e \in E : e = [kind |-> "entry", of |-> e.of]
                     /\ e.of \in 1 .. Len(ready) /\ Entry(t, e.of)
    BY DEF Entry
  <2> QED
    BY <2>1, <2>2 DEF Listed
<1>3. (S # {} <=> Served(t)) /\ \A e \in S : e = [kind |-> "worker", of |-> e.of]
                                             /\ e.of \in Workers /\ Serves(t, e.of)
  <2>1. ASSUME Served(t) PROVE S # {}
    <3>1. PICK w \in Workers : Serves(t, w)
      BY <2>1 DEF Served
    <3>2. [kind |-> "worker", of |-> w] \in S
      BY <3>1 DEF Serves
    <3> QED
      BY <3>2
  <2>2. \A e \in S : e = [kind |-> "worker", of |-> e.of]
                     /\ e.of \in Workers /\ Serves(t, e.of)
    BY DEF Serves
  <2> QED
    BY <2>1, <2>2 DEF Served
<1>4. (O # {} <=> Owed(t)) /\ \A e \in O : e = [kind |-> "publisher", of |-> e.of]
                                           /\ e.of \in Publishers /\ Owes(t, e.of)
  <2>1. ASSUME Owed(t) PROVE O # {}
    <3>1. PICK p \in Publishers : Owes(t, p)
      BY <2>1 DEF Owed
    <3>2. [kind |-> "publisher", of |-> p] \in O
      BY <3>1 DEF Owes
    <3> QED
      BY <3>2
  <2>2. \A e \in O : e = [kind |-> "publisher", of |-> e.of]
                     /\ e.of \in Publishers /\ Owes(t, e.of)
    BY DEF Owes
  <2> QED
    BY <2>1, <2>2 DEF Owed
<1> HIDE DEF E, S, O
<1>5. ASSUME NEW a \in Tickets(t), NEW b \in Tickets(t) PROVE a = b
  <2>1. /\ ~(E # {} /\ S # {}) /\ ~(E # {} /\ O # {}) /\ ~(S # {} /\ O # {})
        /\ \A e, f \in E : e = f
        /\ \A e, f \in S : e = f
        /\ \A e, f \in O : e = f
    BY <1>2, <1>3, <1>4 DEF Ticketed, AtMostOne
  <2> QED
    BY <1>1, <1>5, <2>1
<1> QED
  BY <1>1, <1>2, <1>3, <1>4, <1>5 DEF Ticketed

\* A step that moves no ticket of a channel.
LEMMA TicketsStill ==
    ASSUME NEW t \in Topics, Ticketed(t), ready' = ready,
           \A w \in Workers : Serves(t, w)' <=> Serves(t, w),
           \A p \in Publishers : Owes(t, p)' <=> Owes(t, p),
           scheduled'[t] = scheduled[t],
           tasks'[t] # <<>> => tasks[t] # <<>> \/ scheduled[t]
    PROVE  Ticketed(t)'
<1>1. /\ \A i \in 1 .. Len(ready) : Entry(t, i)' <=> Entry(t, i)
      /\ Listed(t)' <=> Listed(t)
  BY DEF Entry, Listed
<1>2. (Served(t)' <=> Served(t)) /\ (Owed(t)' <=> Owed(t))
  BY DEF Served, Owed
<1>3. AtMostOne(t)'
  BY <1>1, <1>2 DEF Ticketed, AtMostOne
<1> QED
  BY <1>1, <1>2, <1>3 DEF Ticketed

\* A publisher that has raised the flag has the one ticket.
LEMMA PublishTicket ==
    ASSUME BusTyped, NEW t \in Topics, Ticketed(t),
           NEW p \in Publishers, NEW u \in Topics, Publish(p, u)
    PROVE  Ticketed(t)'
<1> USE DEF BusTyped, BusTypeOK, subVars, workerVars
<1>1. /\ ready' = ready /\ workerOn' = workerOn /\ workerAt' = workerAt
      /\ \A w \in Workers : Serves(t, w)' <=> Serves(t, w)
  BY DEF Publish, Serves
<1>2. CASE ~NeedSchedule(u)
  <2>1. UNCHANGED <<scheduled, publisherAt, publisherOn>>
    BY <1>2 DEF Publish
  <2>2. tasks'[t] # <<>> => tasks[t] # <<>> \/ scheduled[t]
    BY <1>2 DEF Publish, NeedSchedule
  <2> QED
    BY <1>1, <2>1, <2>2, TicketsStill DEF Owes
<1>3. CASE NeedSchedule(u) /\ t # u
  <2>1. /\ \A q \in Publishers : Owes(t, q)' <=> Owes(t, q)
        /\ scheduled'[t] = scheduled[t] /\ tasks'[t] = tasks[t]
    BY <1>3 DEF Publish, Owes
  <2> QED
    BY <1>1, <2>1, TicketsStill
<1>4. CASE NeedSchedule(u) /\ t = u
  <2>1. ~Listed(t) /\ ~Served(t) /\ ~Owed(t)
    BY <1>4 DEF Ticketed, NeedSchedule
  <2>2. ~Listed(t)' /\ ~Served(t)'
    BY <1>1, <2>1 DEF Listed, Served, Entry
  <2>3. /\ \A q \in Publishers : Owes(t, q)' <=> q = p
        /\ scheduled'[t] = TRUE
    BY <1>4, <2>1 DEF Publish, Owes, Owed
  <2>4. AtMostOne(t)'
    BY <2>2, <2>3 DEF AtMostOne, Listed, Served
  <2> QED
    BY <2>2, <2>3, <2>4 DEF Ticketed, Owed
<1> QED
  BY <1>2, <1>3, <1>4

\* The publisher's ticket becomes the last entry of the ready queue.
LEMMA ScheduleTicket ==
    ASSUME BusTyped, NEW t \in Topics, Ticketed(t), NEW p \in Publishers, Schedule(p)
    PROVE  Ticketed(t)'
<1> USE DEF BusTyped, BusTypeOK, subVars, workerVars
<1> DEFINE u == publisherOn[p]
           n == Len(ready) + 1
<1>1. /\ u \in Topics /\ ready' = Append(ready, u) /\ publisherOn' = publisherOn
      /\ publisherAt' = [publisherAt EXCEPT ![p] = "notify"]
      /\ UNCHANGED <<tasks, scheduled, workerAt, workerOn>>
      /\ publisherAt[p] = "schedule"
  BY DEF Schedule, AtTheirPlaces
<1>2. /\ Len(ready') = n /\ ready'[n] = u /\ n \in 1 .. n
      /\ \A i \in 1 .. n - 1 : ready'[i] = ready[i]
  BY <1>1
<1>3. \A w \in Workers : Serves(t, w)' <=> Serves(t, w)
  BY <1>1 DEF Serves
<1>4. \A q \in Publishers : Owes(t, q)' <=> Owes(t, q) /\ q # p
  BY <1>1 DEF Owes
<1>5. CASE t # u
  <2>1. \A i \in 1 .. n : Entry(t, i)' <=> i \in 1 .. Len(ready) /\ Entry(t, i)
    BY <1>2, <1>5 DEF Entry
  <2>2. Listed(t)' <=> Listed(t)
    BY <1>2, <2>1 DEF Listed, Entry
  <2>3. /\ Served(t)' <=> Served(t)
        /\ \A q \in Publishers : Owes(t, q)' <=> Owes(t, q)
        /\ Owed(t)' <=> Owed(t)
    BY <1>3, <1>4, <1>5 DEF Served, Owed, Owes
  <2>4. AtMostOne(t)'
    BY <1>2, <1>3, <2>1, <2>2, <2>3 DEF Ticketed, AtMostOne
  <2> QED
    BY <1>1, <2>2, <2>3, <2>4 DEF Ticketed
<1>6. CASE t = u
  <2>1. Owes(t, p)
    BY <1>1, <1>6 DEF Owes
  <2>2. /\ \A q \in Publishers : Owes(t, q) => q = p
        /\ ~Listed(t) /\ ~Served(t) /\ scheduled[t]
    BY <2>1 DEF Ticketed, AtMostOne, Owed
  <2>3. ASSUME NEW i \in 1 .. n PROVE Entry(t, i)' <=> i = n
    <3>1. CASE i = n
      BY <1>2, <1>6, <3>1 DEF Entry
    <3>2. CASE i # n
      <4>1. i \in 1 .. Len(ready) /\ i \in 1 .. n - 1
        BY <3>2
      <4> QED
        BY <1>2, <2>2, <3>2, <4>1 DEF Entry, Listed
    <3> QED
      BY <3>1, <3>2
  <2>4. Listed(t)' /\ ~Served(t)' /\ ~Owed(t)'
    BY <1>2, <1>3, <1>4, <2>2, <2>3 DEF Listed, Served, Owed
  <2>5. AtMostOne(t)'
    BY <1>2, <2>3, <2>4 DEF AtMostOne, Served, Owed
  <2> QED
    BY <1>1, <2>2, <2>4, <2>5 DEF Ticketed
<1> QED
  BY <1>5, <1>6

\* The first entry becomes the worker's ticket, the others move up.
LEMMA TakeTicket ==
    ASSUME BusTyped, NEW t \in Topics, Ticketed(t), NEW w \in Workers, TakeChannel(w)
    PROVE  Ticketed(t)'
<1> USE DEF BusTyped, BusTypeOK, subVars, publishVars, Move
<1> DEFINE n == Len(ready)
<1>1. /\ ready # <<>> /\ ready' = Tail(ready)
      /\ workerAt[w] = "test"
      /\ workerAt' = [workerAt EXCEPT ![w] = "drain"]
      /\ workerOn' = [workerOn EXCEPT ![w] = Head(ready)]
      /\ UNCHANGED <<tasks, scheduled, publisherAt, publisherOn>>
  BY DEF TakeChannel
<1>2. /\ n \in Nat /\ n >= 1 /\ Len(ready') = n - 1 /\ Head(ready) = ready[1]
      /\ \A i \in 1 .. n - 1 : ready'[i] = ready[i + 1]
  BY <1>1
<1>3. \A p \in Publishers : Owes(t, p)' <=> Owes(t, p)
  BY <1>1 DEF Owes
<1>4. \A v \in Workers : Serves(t, v)' <=> (Serves(t, v) \/ (v = w /\ t = ready[1]))
  BY <1>1, <1>2 DEF Serves
<1>5. \A i \in 1 .. n - 1 : i + 1 \in 1 .. n /\ (Entry(t, i)' <=> Entry(t, i + 1))
  BY <1>2 DEF Entry
<1>6. CASE t # ready[1]
  <2>1. Listed(t)' <=> Listed(t)
    <3>1. ASSUME Listed(t) PROVE Listed(t)'
      <4>1. PICK i \in 1 .. n : Entry(t, i)
        BY <3>1 DEF Listed
      <4>2. i # 1 /\ i - 1 \in 1 .. n - 1 /\ (i - 1) + 1 = i
        BY <1>2, <1>6, <4>1 DEF Entry
      <4> QED
        BY <1>2, <1>5, <4>1, <4>2 DEF Listed
    <3>2. ASSUME Listed(t)' PROVE Listed(t)
      BY <1>2, <1>5, <3>2 DEF Listed
    <3> QED
      BY <3>1, <3>2
  <2>2. /\ \A v \in Workers : Serves(t, v)' <=> Serves(t, v)
        /\ (Served(t)' <=> Served(t)) /\ (Owed(t)' <=> Owed(t))
    BY <1>3, <1>4, <1>6 DEF Served, Owed
  <2>3. \A i, j \in 1 .. Len(ready') : Entry(t, i)' /\ Entry(t, j)' => i = j
    <3> SUFFICES ASSUME NEW i \in 1 .. n - 1, NEW j \in 1 .. n - 1, Entry(t, i)', Entry(t, j)'
                 PROVE  i = j
      BY <1>2
    <3>1. i + 1 = j + 1
      BY <1>5 DEF Ticketed, AtMostOne
    <3> QED
      BY <3>1
  <2>4. AtMostOne(t)'
    BY <1>3, <2>1, <2>2, <2>3 DEF Ticketed, AtMostOne
  <2> QED
    BY <1>1, <2>1, <2>2, <2>4 DEF Ticketed
<1>7. CASE t = ready[1]
  <2>1. 1 \in 1 .. n /\ Entry(t, 1)
    BY <1>2, <1>7 DEF Entry
  <2>2. /\ \A i \in 1 .. n : Entry(t, i) => i = 1
        /\ ~Served(t) /\ ~Owed(t) /\ scheduled[t]
    BY <2>1 DEF Ticketed, AtMostOne, Listed
  <2>3. ~Listed(t)'
    <3> SUFFICES ASSUME NEW i \in 1 .. n - 1, Entry(t, i)' PROVE FALSE
      BY <1>2 DEF Listed
    <3>1. i + 1 = 1
      BY <1>5, <2>2
    <3> QED
      BY <3>1
  <2>4. /\ \A v \in Workers : Serves(t, v)' <=> v = w
        /\ Served(t)' /\ ~Owed(t)'
    BY <1>3, <1>4, <1>7, <2>2 DEF Served, Owed
  <2>5. AtMostOne(t)'
    BY <2>3, <2>4 DEF AtMostOne, Listed, Owed
  <2> QED
    BY <1>1, <2>2, <2>4, <2>5 DEF Ticketed
<1> QED
  BY <1>6, <1>7

\* A worker that finds the queue empty gives its ticket up, one that does not
\* puts it back into the ready queue.
LEMMA ClearTicket ==
    ASSUME BusTyped, NEW t \in Topics, Ticketed(t), NEW w \in Workers, Clear(w)
    PROVE  Ticketed(t)'
<1> USE DEF BusTyped, BusTypeOK, subVars, publishVars, Move
<1> DEFINE u == workerOn[w]
           n == Len(ready) + 1
<1>1. u \in Topics /\ Serves(u, w)
  BY DEF Clear, AtTheirPlaces, Busy, Serves
<1>2. \A p \in Publishers : Owes(t, p)' <=> Owes(t, p)
  BY DEF Clear, Owes
<1>3. tasks' = tasks /\ (t # u => scheduled'[t] = scheduled[t])
  BY <1>1 DEF Clear
<1>4. \A v \in Workers : Serves(t, v)' <=> Serves(t, v) /\ v # w
  BY <1>1 DEF Clear, Serves
<1>5. CASE tasks[u] = <<>> /\ t # u
  <2>1. ready' = ready
    BY <1>5 DEF Clear
  <2>2. \A v \in Workers : Serves(t, v)' <=> Serves(t, v)
    BY <1>4, <1>5 DEF Serves
  <2> QED
    BY <1>2, <1>3, <1>5, <2>1, <2>2, TicketsStill
<1>6. CASE tasks[u] = <<>> /\ t = u
  <2>1. ready' = ready /\ scheduled'[t] = FALSE
    BY <1>6 DEF Clear
  <2>2. /\ \A v \in Workers : Serves(t, v) => v = w
        /\ ~Listed(t) /\ ~Owed(t)
    BY <1>1, <1>6 DEF Ticketed, AtMostOne, Served
  <2>3. ~Listed(t)' /\ ~Served(t)' /\ ~Owed(t)'
    BY <1>2, <1>4, <2>1, <2>2 DEF Listed, Entry, Served, Owed
  <2>4. AtMostOne(t)'
    BY <2>3 DEF AtMostOne, Listed, Served, Owed
  <2> QED
    BY <1>3, <1>6, <2>1, <2>3, <2>4 DEF Ticketed
<1>7. CASE tasks[u] # <<>>
  <2>1. ready' = Append(ready, u) /\ scheduled' = scheduled
    BY <1>7 DEF Clear
  <2>2. /\ Len(ready) \in Nat /\ Len(ready') = n /\ ready'[n] = u /\ n \in 1 .. n
        /\ \A i \in 1 .. n - 1 : ready'[i] = ready[i]
    BY <1>1, <2>1
  <2>3. CASE t # u
    <3>1. \A i \in 1 .. n : Entry(t, i)' <=> i \in 1 .. Len(ready) /\ Entry(t, i)
      BY <2>2, <2>3 DEF Entry
    <3>2. Listed(t)' <=> Listed(t)
      BY <2>2, <3>1 DEF Listed, Entry
    <3>3. /\ \A v \in Workers : Serves(t, v)' <=> Serves(t, v)
          /\ (Served(t)' <=> Served(t)) /\ (Owed(t)' <=> Owed(t))
      BY <1>2, <1>4, <2>3 DEF Serves, Served, Owed
    <3>4. AtMostOne(t)'
      BY <1>2, <2>2, <3>1, <3>2, <3>3 DEF Ticketed, AtMostOne
    <3> QED
      BY <1>3, <2>1, <3>2, <3>3, <3>4 DEF Ticketed
  <2>4. CASE t = u
    <3>1. /\ \A v \in Workers : Serves(t, v) => v = w
          /\ ~Listed(t) /\ ~Owed(t) /\ scheduled[t]
      BY <1>1, <2>4 DEF Ticketed, AtMostOne, Served
    <3>2. ASSUME NEW i \in 1 .. n PROVE Entry(t, i)' <=> i = n
      <4>1. CASE i = n
        BY <2>2, <2>4, <4>1 DEF Entry
      <4>2. CASE i # n
        <5>1. i \in 1 .. Len(ready) /\ i \in 1 .. n - 1
          <6> DEFINE l == Len(ready)
          <6>1. l \in Nat /\ i \in 1 .. l + 1 /\ i # l + 1
            BY <2>2, <4>2
          <6> HIDE DEF l
          <6>2. i \in 1 .. l /\ i \in 1 .. (l + 1) - 1
            BY <6>1
          <6> QED
            BY <6>2 DEF l
        <5> QED
          BY <2>2, <3>1, <4>2, <5>1 DEF Entry, Listed
      <4> QED
        BY <4>1, <4>2
    <3>3. Listed(t)' /\ ~Served(t)' /\ ~Owed(t)'
      BY <1>2, <1>4, <2>2, <3>1, <3>2 DEF Listed, Served, Owed
    <3>4. AtMostOne(t)'
      BY <2>2, <3>2, <3>3 DEF AtMostOne, Served, Owed
    <3> QED
      BY <1>3, <2>1, <3>1, <3>3, <3>4 DEF Ticketed
  <2> QED
    BY <2>3, <2>4
<1> QED
  BY <1>5, <1>6, <1>7

\* Workers on their way, asleep or woken, and those that run tasks, keep their
\* tickets.
LEMMA OtherTickets ==
    ASSUME BusTyped, NEW t \in Topics, Ticketed(t), [BusNext]_busVars,
           \A p \in Publishers : ~Schedule(p) /\ \A u \in Topics : ~Publish(p, u),
           \A w \in Workers : ~TakeChannel(w) /\ ~Clear(w)
    PROVE  Ticketed(t)'
<1> USE DEF BusTyped, BusTypeOK, subVars, workerVars, publishVars, Move, Serves, Owes
<1>1. ASSUME ready' = ready, scheduled' = scheduled, workerOn' = workerOn,
             \A w \in Workers : workerAt'[w] \in {"drain", "run", "clear"}
                                  <=> workerAt[w] \in {"drain", "run", "clear"},
             \A p \in Publishers : Owes(t, p)' <=> Owes(t, p),
             tasks'[t] # <<>> => tasks[t] # <<>>
      PROVE  Ticketed(t)'
  BY <1>1, TicketsStill
<1>2. CASE StoreStop \/ UNCHANGED busVars
  BY <1>1, <1>2 DEF StoreStop, busVars
<1>3. CASE NotifyAll
  BY <1>1, <1>3 DEF NotifyAll
<1>4. ASSUME NEW n \in Nodes, AddHandler(n) \/ \E u \in Topics : GetOrCreateChannel(n, u)
      PROVE  Ticketed(t)'
  BY <1>1, <1>4 DEF AddHandler, GetOrCreateChannel
<1>5. ASSUME NEW p \in Publishers, Notify(p) PROVE Ticketed(t)'
  <2>1. \A w \in Workers : workerAt'[w] \in {"drain", "run", "clear"}
                             <=> workerAt[w] \in {"drain", "run", "clear"}
    BY <1>5 DEF Notify, WakeOne
  <2> QED
    BY <1>1, <1>5, <2>1 DEF Notify
<1>6. ASSUME NEW w \in Workers,
             LoopHead(w) \/ FindNothing(w) \/ FallAsleep(w) \/ WakeSpuriously(w) \/ RunTask(w)
      PROVE  Ticketed(t)'
  BY <1>1, <1>6 DEF LoopHead, FindNothing, FallAsleep, WakeSpuriously, RunTask
<1>7. ASSUME NEW w \in Workers, Drain(w) PROVE Ticketed(t)'
  <2>1. workerOn[w] \in Topics
    BY <1>7 DEF Drain, AtTheirPlaces, Busy
  <2>2. \A v \in Workers : workerAt'[v] \in {"drain", "run", "clear"}
                             <=> workerAt[v] \in {"drain", "run", "clear"}
    BY <1>7 DEF Drain
  <2>3. tasks'[t] # <<>> => tasks[t] # <<>>
    BY <1>7, <2>1 DEF Drain
  <2> QED
    BY <1>1, <1>7, <2>2, <2>3 DEF Drain
<1>8. ASSUME NEW w \in Workers, NotifyFromWorker(w) PROVE Ticketed(t)'
  <2>1. \A v \in Workers : Serves(t, v)' <=> Serves(t, v)
    <3>1. /\ workerAt[w] = "notify"
          /\ workerAt'[w] \notin {"drain", "run", "clear"}
          /\ \A v \in Workers \ {w} : workerOn'[v] = workerOn[v]
                /\ (workerAt'[v] \in {"drain", "run", "clear"}
                      <=> workerAt[v] \in {"drain", "run", "clear"})
      BY <1>8 DEF NotifyFromWorker, WakeOne
    <3> QED
      BY <3>1
  <2> QED
    BY <1>8, <2>1, TicketsStill DEF NotifyFromWorker
<1> QED
  BY <1>2, <1>3, <1>4, <1>5, <1>6, <1>7, <1>8 DEF BusNext, WorkerStep, ScheduleStep

LEMMA TicketsKept ==
    ASSUME BusTyped, NEW t \in Topics, Ticketed(t), [BusNext]_busVars
    PROVE  Ticketed(t)'
  BY PublishTicket, ScheduleTicket, TakeTicket, ClearTicket, OtherTickets

-----------------------------------------------------------------------------
(***************************************************************************)
(* Wake-ups.                                                               *)
(***************************************************************************)

\* A worker that holds ready_mutex_ on its way to sleep has seen an empty queue,
\* and nobody can have filled it since.
WakeInv == BusTyped /\ (ReadyLocked => ready = <<>>) /\ NoLostWakeup

Awake(w) == workerAt[w] \notin {"asleep", "blocking"}

LEMMA WakeStep ==
    ASSUME Workers # {}, WakeInv, [BusNext]_busVars
    PROVE  (ReadyLocked => ready = <<>>)' /\ NoLostWakeup'
<1> USE DEF WakeInv, BusTyped, BusTypeOK, subVars, workerVars, publishVars, Move
\* Most steps fill no queue and put nobody to sleep.
<1>1. ASSUME ready' = ready,
             \A w \in Workers : workerAt'[w] = "blocking" => workerAt[w] = "blocking",
             \A w \in Workers : Awake(w) => Awake(w)',
             \A p \in Publishers : publisherAt[p] = "notify" => publisherAt'[p] = "notify"
      PROVE  (ReadyLocked => ready = <<>>)' /\ NoLostWakeup'
  BY <1>1 DEF ReadyLocked, NoLostWakeup, Awake
<1>2. ASSUME NEW n \in Nodes, AddHandler(n) \/ \E t \in Topics : GetOrCreateChannel(n, t)
      PROVE  (ReadyLocked => ready = <<>>)' /\ NoLostWakeup'
  BY <1>1, <1>2 DEF AddHandler, GetOrCreateChannel, Awake
<1>3. ASSUME NEW p \in Publishers, NEW t \in Topics, Publish(p, t)
      PROVE  (ReadyLocked => ready = <<>>)' /\ NoLostWakeup'
  <2>1. \A q \in Publishers : publisherAt[q] = "notify" => publisherAt'[q] = "notify"
    BY <1>3 DEF Publish
  <2> QED
    BY <1>1, <1>3, <2>1 DEF Publish, Awake
<1>4. ASSUME NEW p \in Publishers, Schedule(p)
      PROVE  (ReadyLocked => ready = <<>>)' /\ NoLostWakeup'
  BY <1>4 DEF Schedule, ReadyLocked, NoLostWakeup
<1>5. ASSUME NEW p \in Publishers, Notify(p)
      PROVE  (ReadyLocked => ready = <<>>)' /\ NoLostWakeup'
  <2>1. CASE \E w \in Workers : workerAt[w] = "asleep"
    <3>1. PICK w \in Workers : workerAt[w] = "asleep" /\ workerAt' = [workerAt EXCEPT ![w] = "test"]
      BY <1>5, <2>1 DEF Notify, WakeOne
    <3> QED
      BY <1>5, <3>1 DEF Notify, ReadyLocked, NoLostWakeup
  <2>2. CASE \A w \in Workers : workerAt[w] # "asleep"
    <3>1. workerAt' = workerAt /\ ready' = ready
      BY <1>5, <2>2 DEF Notify, WakeOne
    <3> QED
      BY <2>2, <3>1 DEF ReadyLocked, NoLostWakeup
  <2> QED
    BY <2>1, <2>2
<1>6. ASSUME NEW w \in Workers, FindNothing(w) \/ FallAsleep(w)
      PROVE  (ReadyLocked => ready = <<>>)' /\ NoLostWakeup'
  <2>1. ready' = ready /\ ready = <<>>
    BY <1>6 DEF FindNothing, FallAsleep, ReadyLocked
  <2> QED
    BY <2>1 DEF NoLostWakeup
<1>7. ASSUME NEW w \in Workers, TakeChannel(w)
      PROVE  (ReadyLocked => ready = <<>>)' /\ NoLostWakeup'
  BY <1>7 DEF TakeChannel, ReadyLocked, NoLostWakeup
<1>8. ASSUME NEW w \in Workers,
             LoopHead(w) \/ WakeSpuriously(w) \/ RunTask(w) \/ Drain(w)
      PROVE  (ReadyLocked => ready = <<>>)' /\ NoLostWakeup'
  <2>1. /\ ready' = ready /\ publisherAt' = publisherAt
        /\ workerAt' = [workerAt EXCEPT ![w] = workerAt'[w]]
        /\ workerAt'[w] \notin {"asleep", "blocking"}
    BY <1>8 DEF LoopHead, WakeSpuriously, RunTask, Drain
  <2> QED
    BY <1>1, <2>1 DEF Awake
<1>9. ASSUME NEW w \in Workers, Clear(w)
      PROVE  (ReadyLocked => ready = <<>>)' /\ NoLostWakeup'
  <2>1. /\ workerAt'[w] \in {"top", "notify"}
        /\ \A v \in Workers \ {w} : workerAt'[v] = workerAt[v]
        /\ ready' = ready \/ ~ReadyLocked
    BY <1>9 DEF Clear
  <2> QED
    BY <2>1 DEF ReadyLocked, NoLostWakeup
<1>10. ASSUME NEW w \in Workers, NotifyFromWorker(w)
       PROVE  (ReadyLocked => ready = <<>>)' /\ NoLostWakeup'
  <2>1. /\ workerAt'[w] = "top" /\ ready' = ready
        /\ \A v \in Workers : workerAt'[v] = "blocking" => workerAt[v] = "blocking"
    BY <1>10 DEF NotifyFromWorker, WakeOne
  <2> QED
    BY <2>1 DEF ReadyLocked, NoLostWakeup
<1>11. CASE StoreStop \/ NotifyAll \/ UNCHANGED busVars
  BY <1>1, <1>11 DEF StoreStop, NotifyAll, busVars, Awake
<1> QED
  BY <1>2, <1>3, <1>4, <1>5, <1>6, <1>7, <1>8, <1>9, <1>10, <1>11
     DEF BusNext, WorkerStep, ScheduleStep

-----------------------------------------------------------------------------
(***************************************************************************)
(* Mailboxes.                                                              *)
(***************************************************************************)

\* What the mapping makes of the workers.
Handled(t) == IF HandledOn(t) = {} THEN NoMessage ELSE CHOOSE m \in HandledOn(t) : TRUE

\* At most one worker runs a task of a channel, and then that is what is handled.
LEMMA OneHandled ==
    ASSUME BusTyped, NEW t \in Topics, AtMostOne(t)
    PROVE  /\ \A w \in Workers : workerAt[w] = "run" /\ workerOn[w] = t
                                   => Handled(t) = running[w] /\ running[w] # NoMessage
           /\ (\A w \in Workers : ~(workerAt[w] = "run" /\ workerOn[w] = t))
                 => Handled(t) = NoMessage
<1>1. ASSUME NEW w \in Workers, workerAt[w] = "run", workerOn[w] = t
      PROVE  Handled(t) = running[w] /\ running[w] # NoMessage
  <2>1. \A v \in Workers : workerAt[v] = "run" /\ workerOn[v] = t => v = w
    BY <1>1 DEF AtMostOne, Serves
  <2>2. HandledOn(t) = {running[w]}
    BY <1>1, <2>1 DEF HandledOn
  <2>3. running[w] \in 1 .. published /\ published \in Nat
    BY <1>1, BusAssumption DEF BusTyped, BusTypeOK, AtTheirPlaces
  <2> QED
    BY <2>2, <2>3, BusAssumption DEF Handled
<1>2. ASSUME \A w \in Workers : ~(workerAt[w] = "run" /\ workerOn[w] = t)
      PROVE  Handled(t) = NoMessage
  BY <1>2 DEF Handled, HandledOn
<1> QED
  BY <1>1, <1>2

\* Who runs what decides what is handled.
LEMMA SameHandled ==
    ASSUME NEW t \in Topics,
           \A w \in Workers : /\ workerAt'[w] = "run" <=> workerAt[w] = "run"
                              /\ workerAt[w] = "run" => /\ workerOn'[w] = workerOn[w]
                                                        /\ running'[w] = running[w]
    PROVE  Handled(t)' = Handled(t)
<1>1. HandledOn(t)' = HandledOn(t)
  BY DEF HandledOn
<1> QED
  BY <1>1 DEF Handled

-----------------------------------------------------------------------------
(***************************************************************************)
(* The theorems.                                                           *)
(***************************************************************************)

\* Types and tickets together are inductive.
TicketsInv == BusTyped /\ \A t \in Topics : Ticketed(t)

LEMMA TicketsInit == BusInit => TicketsInv
<1> SUFFICES ASSUME BusInit, NEW t \in Topics PROVE Ticketed(t)
  BY BusTypedInit DEF TicketsInv
<1>1. ~Listed(t) /\ ~Served(t) /\ ~Owed(t)
  BY DEF BusInit, Listed, Entry, Served, Serves, Owed, Owes
<1>2. AtMostOne(t)
  BY <1>1 DEF AtMostOne, Listed, Served, Owed
<1> QED
  BY <1>1, <1>2 DEF Ticketed, BusInit

LEMMA TicketsAlways == BusSpec => []TicketsInv
<1>1. TicketsInv /\ [BusNext]_busVars => TicketsInv'
  BY BusTypedNext, TicketsKept DEF TicketsInv
<1> QED
  BY <1>1, TicketsInit, PTL DEF BusSpec

\* The variables of the bus keep their types whatever its threads do, and a
\* thread at work on a channel knows which channel it is (message_bus.h).
THEOREM BusTypes == BusSpec => [](BusTypeOK /\ AtTheirPlaces)
<1>1. TicketsInv => BusTypeOK /\ AtTheirPlaces
  BY DEF TicketsInv, BusTyped
<1> QED
  BY <1>1, TicketsAlways, PTL

\* A channel is served by one worker at a time, and none with a task in its
\* queue is forgotten, for any number of threads (publish and worker_loop).
THEOREM OneTicketAlways == BusSpec => []OneTicket
<1>1. TicketsInv => OneTicket
  BY TicketedIsOne DEF TicketsInv
<1> QED
  BY <1>1, TicketsAlways, PTL

\* An executor that has workers at all never lets a ready channel wait for
\* workers that all sleep (schedule and worker_loop).
THEOREM NoWakeupLost ==
    ASSUME Workers # {}
    PROVE  BusSpec => []NoLostWakeup
<1>1. BusInit => WakeInv
  <2> SUFFICES ASSUME BusInit PROVE WakeInv
    OBVIOUS
  <2>1. ready = <<>>
    BY DEF BusInit
  <2> QED
    BY <2>1, BusTypedInit DEF WakeInv, NoLostWakeup
<1>2. WakeInv /\ [BusNext]_busVars => WakeInv'
  <2> SUFFICES ASSUME WakeInv, [BusNext]_busVars PROVE WakeInv'
    OBVIOUS
  <2>1. BusTyped'
    BY BusTypedNext DEF WakeInv
  <2>2. (ReadyLocked => ready = <<>>)' /\ NoLostWakeup'
    BY WakeStep
  <2> QED
    BY <2>1, <2>2 DEF WakeInv
<1>3. WakeInv => NoLostWakeup
  BY DEF WakeInv
<1> QED
  BY <1>1, <1>2, <1>3, PTL DEF BusSpec

-----------------------------------------------------------------------------
(***************************************************************************)
(* The refinement: a worker that takes a task out takes it from the        *)
(* mailbox, and no other critical section is visible from outside.         *)
(***************************************************************************)

\* What is handled of every topic.
AllHandled == [t \in Topics |-> Handled(t)]

\* The mailboxes see nothing of a step.
MailStutter ==
    /\ tasks' = tasks /\ published' = published
    /\ AllHandled' = AllHandled
    /\ (stopping = "no")' = (stopping = "no")

LEMMA AllSame ==
    ASSUME \A w \in Workers : /\ workerAt'[w] = "run" <=> workerAt[w] = "run"
                              /\ workerAt[w] = "run" => /\ workerOn'[w] = workerOn[w]
                                                        /\ running'[w] = running[w]
    PROVE  AllHandled' = AllHandled
<1>1. \A t \in Topics : Handled(t)' = Handled(t)
  BY SameHandled
<1> QED
  BY <1>1 DEF AllHandled

\* publish puts the message into its mailbox.
LEMMA PublishPosts ==
    ASSUME BusTyped, NEW p \in Publishers, NEW t \in Topics, Publish(p, t)
    PROVE  Mailbox!Post(t)
<1>1. /\ UNCHANGED <<workerAt, workerOn, running, stopping>>
      /\ published' = published + 1
      /\ tasks' = [tasks EXCEPT ![t] = Queued(@, published')]
  BY DEF Publish, workerVars
<1>2. AllHandled' = AllHandled
  BY <1>1, AllSame
<1> QED
  BY <1>1, <1>2 DEF Mailbox!Post, Mailbox!Posted, Queued, AllHandled, Handled

\* A worker that finds a task takes it from the mailbox, of which nothing was
\* being handled.
LEMMA DrainTakes ==
    ASSUME TicketsInv, NEW w \in Workers, Drain(w), tasks[workerOn[w]] # <<>>
    PROVE  Mailbox!Take(workerOn[w])
<1> DEFINE t == workerOn[w]
           m == Head(tasks[t])
<1>1. /\ t \in Topics /\ workerAt[w] = "drain"
      /\ tasks' = [tasks EXCEPT ![t] = Tail(@)]
      /\ running' = [running EXCEPT ![w] = m]
      /\ workerAt' = [workerAt EXCEPT ![w] = "run"]
      /\ UNCHANGED <<workerOn, published, stopping>>
  BY DEF Drain, Move, publishVars, TicketsInv, BusTyped, AtTheirPlaces, Busy
<1>2. /\ workerAt \in [Workers -> WorkerPoints]
      /\ running \in [Workers -> 1 .. published \cup {NoMessage}]
  BY DEF TicketsInv, BusTyped, BusTypeOK
<1>3. AtMostOne(t)
  BY <1>1 DEF TicketsInv, Ticketed
<1>4. \A v \in Workers : ~(workerAt[v] = "run" /\ workerOn[v] = t)
  BY <1>1, <1>3 DEF AtMostOne, Serves
<1>5. Handled(t) = NoMessage
  BY <1>1, <1>3, <1>4, OneHandled DEF TicketsInv
<1>6. Handled(t)' = m
  <2>1. HandledOn(t)' = {m}
    BY <1>1, <1>2, <1>4 DEF HandledOn
  <2> QED
    BY <2>1 DEF Handled
<1>7. ASSUME NEW u \in Topics, u # t PROVE Handled(u)' = Handled(u)
  <2>1. HandledOn(u)' = HandledOn(u)
    BY <1>1, <1>2, <1>7 DEF HandledOn
  <2> QED
    BY <2>1 DEF Handled
<1>8. AllHandled' = [AllHandled EXCEPT ![t] = m] /\ AllHandled[t] = NoMessage
  BY <1>1, <1>5, <1>6, <1>7 DEF AllHandled
<1> QED
  BY <1>1, <1>8 DEF Mailbox!Take, AllHandled, Handled

\* The end of a task is the end of its message.
LEMMA RunFinishes ==
    ASSUME TicketsInv, NEW w \in Workers, RunTask(w)
    PROVE  workerOn[w] \in Topics /\ Mailbox!Finish(workerOn[w])
<1> DEFINE t == workerOn[w]
<1>1. /\ t \in Topics /\ workerAt[w] = "run"
      /\ workerAt' = [workerAt EXCEPT ![w] = "drain"]
      /\ running' = [running EXCEPT ![w] = NoMessage]
      /\ UNCHANGED <<workerOn, tasks, published, stopping>>
  BY DEF RunTask, Move, publishVars, TicketsInv, BusTyped, AtTheirPlaces, Busy
<1>2. /\ workerAt \in [Workers -> WorkerPoints]
      /\ running \in [Workers -> 1 .. published \cup {NoMessage}]
  BY DEF TicketsInv, BusTyped, BusTypeOK
<1>3. AtMostOne(t)
  BY <1>1 DEF TicketsInv, Ticketed
<1>4. Handled(t) # NoMessage
  BY <1>1, <1>3, OneHandled DEF TicketsInv
<1>5. Handled(t)' = NoMessage
  <2>1. \A v \in Workers : workerAt[v] = "run" /\ workerOn[v] = t => v = w
    BY <1>1, <1>3 DEF AtMostOne, Serves
  <2>2. HandledOn(t)' = {}
    BY <1>1, <1>2, <2>1 DEF HandledOn
  <2> QED
    BY <2>2 DEF Handled
<1>6. ASSUME NEW u \in Topics, u # t PROVE Handled(u)' = Handled(u)
  <2>1. HandledOn(u)' = HandledOn(u)
    BY <1>1, <1>2, <1>6 DEF HandledOn
  <2> QED
    BY <2>1 DEF Handled
<1>7. AllHandled' = [AllHandled EXCEPT ![t] = NoMessage] /\ AllHandled[t] # NoMessage
  BY <1>1, <1>4, <1>5, <1>6 DEF AllHandled
<1> QED
  BY <1>1, <1>7 DEF Mailbox!Finish, AllHandled, Handled

\* Every other step of a worker, a publisher or a subscriber stays inside the
\* bus.
LEMMA OthersStutter ==
    ASSUME BusTyped, [BusNext]_busVars, ~StoreStop,
           \A p \in Publishers, t \in Topics : ~Publish(p, t),
           \A w \in Workers : ~RunTask(w) /\ (Drain(w) => tasks[workerOn[w]] = <<>>)
    PROVE  MailStutter
<1> USE DEF BusTyped, BusTypeOK, subVars, workerVars, publishVars, Move
<1>1. ASSUME UNCHANGED <<tasks, published, workerOn, running>>,
             (stopping = "no")' = (stopping = "no"),
             \A w \in Workers : workerAt'[w] = "run" <=> workerAt[w] = "run"
      PROVE  MailStutter
  <2>1. AllHandled' = AllHandled
    BY <1>1, AllSame
  <2> QED
    BY <1>1, <2>1 DEF MailStutter
<1>2. ASSUME NEW n \in Nodes, AddHandler(n) \/ \E u \in Topics : GetOrCreateChannel(n, u)
      PROVE  MailStutter
  BY <1>1, <1>2 DEF AddHandler, GetOrCreateChannel
<1>3. ASSUME NEW p \in Publishers, Schedule(p) PROVE MailStutter
  BY <1>1, <1>3 DEF Schedule
<1>4. ASSUME NEW p \in Publishers, Notify(p) PROVE MailStutter
  <2>1. \A w \in Workers : workerAt'[w] = "run" <=> workerAt[w] = "run"
    BY <1>4 DEF Notify, WakeOne
  <2> QED
    BY <1>1, <1>4, <2>1 DEF Notify
<1>5. ASSUME NEW w \in Workers,
             LoopHead(w) \/ FindNothing(w) \/ FallAsleep(w) \/ WakeSpuriously(w)
      PROVE  MailStutter
  BY <1>1, <1>5 DEF LoopHead, FindNothing, FallAsleep, WakeSpuriously
<1>6. ASSUME NEW w \in Workers, TakeChannel(w) \/ Clear(w) \/ NotifyFromWorker(w)
      PROVE  MailStutter
  <2>1. /\ UNCHANGED <<tasks, published, running, stopping>>
        /\ \A v \in Workers : /\ workerAt'[v] = "run" <=> workerAt[v] = "run"
                              /\ workerAt[v] = "run" => workerOn'[v] = workerOn[v]
    BY <1>6 DEF TakeChannel, Clear, NotifyFromWorker, WakeOne
  <2>2. AllHandled' = AllHandled
    BY <2>1, AllSame
  <2> QED
    BY <2>1, <2>2 DEF MailStutter
<1>7. ASSUME NEW w \in Workers, Drain(w), tasks[workerOn[w]] = <<>>
      PROVE  MailStutter
  BY <1>1, <1>7 DEF Drain
<1>8. CASE NotifyAll
  BY <1>1, <1>8 DEF NotifyAll
<1>9. CASE UNCHANGED busVars
  BY <1>1, <1>9 DEF busVars
<1> QED
  BY <1>2, <1>3, <1>4, <1>5, <1>6, <1>7, <1>8, <1>9 DEF BusNext, WorkerStep, ScheduleStep

LEMMA MailStep ==
    ASSUME TicketsInv, [BusNext]_busVars
    PROVE  [Mailbox!MailNext]_(Mailbox!mailVars)
<1>1. ASSUME NEW p \in Publishers, NEW t \in Topics, Publish(p, t)
      PROVE  Mailbox!MailNext
  BY <1>1, PublishPosts DEF Mailbox!MailNext, TicketsInv
<1>2. ASSUME NEW w \in Workers, Drain(w), tasks[workerOn[w]] # <<>>
      PROVE  Mailbox!MailNext
  <2>1. workerOn[w] \in Topics
    BY <1>2 DEF Drain, TicketsInv, BusTyped, AtTheirPlaces, Busy
  <2> QED
    BY <1>2, <2>1, DrainTakes DEF Mailbox!MailNext
<1>3. ASSUME NEW w \in Workers, RunTask(w)
      PROVE  Mailbox!MailNext
  BY <1>3, RunFinishes DEF Mailbox!MailNext
<1>4. CASE StoreStop
  <2>1. /\ stopping = "no" /\ stopping' = "stored"
        /\ UNCHANGED <<tasks, published, workerAt, workerOn, running>>
    BY <1>4 DEF StoreStop, workerVars, publishVars
  <2>2. AllHandled' = AllHandled
    BY <2>1, AllSame
  <2>3. Mailbox!Close
    BY <2>1, <2>2 DEF Mailbox!Close, AllHandled, Handled
  <2> QED
    BY <2>3 DEF Mailbox!MailNext
<1>5. CASE MailStutter
  BY <1>5 DEF MailStutter, Mailbox!mailVars, AllHandled, Handled
<1> QED
  BY <1>1, <1>2, <1>3, <1>4, <1>5, OthersStutter DEF TicketsInv

\* Every step of the bus is a step of its mailboxes or none of theirs: the
\* safety half of ImplementsMailbox, for any number of threads (message_bus.h).
THEOREM RefinesMailbox ==
    BusSpec => Mailbox!MailInit /\ [][Mailbox!MailNext]_(Mailbox!mailVars)
<1>1. BusInit => Mailbox!MailInit
  <2> SUFFICES ASSUME BusInit PROVE Mailbox!MailInit
    OBVIOUS
  <2>1. \A t \in Topics : HandledOn(t) = {}
    BY DEF BusInit, HandledOn
  <2> QED
    BY <2>1 DEF BusInit, Mailbox!MailInit
<1>2. TicketsInv /\ [BusNext]_busVars => [Mailbox!MailNext]_(Mailbox!mailVars)
  BY MailStep
<1> QED
  BY <1>1, <1>2, TicketsAlways, PTL DEF BusSpec

-----------------------------------------------------------------------------
(***************************************************************************)
(* The rings: their indices.                                               *)
(***************************************************************************)

\* How many slots after slot r slot i comes.
Gap(r, i) == IF i >= r THEN i - r ELSE i + Capacity - r

\* The index after a slot is that of the next slot, or of the first.
LEMMA AfterSlot ==
    ASSUME NEW i \in Slots
    PROVE  /\ After(i) = IF i + 1 = Capacity THEN 0 ELSE i + 1
           /\ After(i) \in Slots
  BY PipelineAssumption DEF After, Slots

\* A gap is less than the ring is long, and tells the slots apart.
LEMMA GapTells ==
    ASSUME NEW r \in Slots, NEW i \in Slots, NEW j \in Slots
    PROVE  /\ Gap(r, i) \in 0 .. Capacity - 1
           /\ Gap(r, i) = 0 <=> i = r
           /\ Gap(r, i) = Gap(r, j) => i = j
  BY PipelineAssumption DEF Gap, Slots

\* The writer's next slot is one further from the reader.
LEMMA GapOfNext ==
    ASSUME NEW r \in Slots, NEW w \in Slots, After(w) # r
    PROVE  Gap(r, After(w)) = Gap(r, w) + 1
  BY AfterSlot, PipelineAssumption DEF Gap, Slots

\* From the reader's next slot every other slot is one nearer.
LEMMA GapFromNext ==
    ASSUME NEW r \in Slots, NEW i \in Slots, i # r
    PROVE  Gap(After(r), i) = Gap(r, i) - 1
  BY AfterSlot, PipelineAssumption DEF Gap, Slots

\* From the reader's next slot the one it leaves is the last.
LEMMA GapToLast ==
    ASSUME NEW r \in Slots
    PROVE  Gap(After(r), r) = Capacity - 1
  BY AfterSlot, PipelineAssumption DEF Gap, Slots

\* Two slots have different next slots.
LEMMA NextTells ==
    ASSUME NEW i \in Slots, NEW j \in Slots, i # j
    PROVE  After(i) # After(j)
  BY AfterSlot, PipelineAssumption DEF Slots

-----------------------------------------------------------------------------
(***************************************************************************)
(* The rings: the inductive invariant.                                     *)
(***************************************************************************)

\* The slots that hold frames.
Occupied(q) ==
    {i \in Slots : Gap(read_idx[q], i) < Gap(read_idx[q], write_idx[q])}

\* No frame comes before every frame.
Rank(f) == IF f = NoFrame THEN 0 ELSE f + 1

\* A producer that has found room still has it, a consumer that has found a
\* frame still has it: only the other side could take it away, and does not.
RingFits(q) ==
    /\ at[Producer(q)] \in {"fill", "publish"} => After(write_idx[q]) # read_idx[q]
    /\ at[Consumer(q)] \in {"copy", "free"} => read_idx[q] # write_idx[q]

\* Thread t holds a frame it has not put into the next ring yet.
Fresh(t) == at[t] \in {"offer", "fill", "publish", "free"}

\* Frame f lies before the producer's last one, or is that one.
Before(f, q) ==
    /\ Rank(f) <= Rank(frame[Producer(q)])
    /\ Fresh(Producer(q)) => Rank(f) < Rank(frame[Producer(q)])

\* The frames of a ring are in order ...
Rising(q) ==
    \A i, j \in Occupied(q) :
        Gap(read_idx[q], i) < Gap(read_idx[q], j)
            => Rank(slots[q][i]) < Rank(slots[q][j])

\* ... up to the producer's last one ...
UpToLast(q) ==
    /\ Before(frame[Consumer(q)], q)
    /\ \A i \in Occupied(q) : slots[q][i] \in Frames /\ Before(slots[q][i], q)

\* ... and from the consumer's last one, which may be still in its slot.
FromLast(q) ==
    \A i \in Occupied(q) :
        \/ Rank(frame[Consumer(q)]) < Rank(slots[q][i])
        \/ at[Consumer(q)] = "free" /\ i = read_idx[q]

\* The slot at hand holds the frame at hand.
AtHand(q) ==
    /\ at[Producer(q)] = "publish" => slots[q][write_idx[q]] = frame[Producer(q)]
    /\ at[Consumer(q)] = "free" => slots[q][read_idx[q]] = frame[Consumer(q)]

RingInOrder(q) == Rising(q) /\ UpToLast(q) /\ FromLast(q) /\ AtHand(q)

PipeInv ==
    /\ PipelineTypeOK
    /\ Rank(frame["simulator"]) <= frame_id
    /\ \A q \in Rings : RingFits(q) /\ RingInOrder(q)

-----------------------------------------------------------------------------
(***************************************************************************)
(* The rings: types and room.                                              *)
(***************************************************************************)

\* The threads at the ends of a ring are two of the three.
LEMMA Ends ==
    ASSUME NEW q \in Rings
    PROVE  /\ Producer(q) \in Threads /\ Consumer(q) \in Threads
           /\ Producer(q) # Consumer(q)
  BY DEF Rings, Threads, Producer, Consumer

LEMMA TypesKept == PipelineTypeOK /\ [PipelineNext]_pipeVars => PipelineTypeOK'
<1> SUFFICES ASSUME PipelineTypeOK, [PipelineNext]_pipeVars PROVE PipelineTypeOK'
  OBVIOUS
<1> USE Ends DEF PipelineTypeOK, At
<1>1. CASE MakeFrame
  BY <1>1, PipelineAssumption DEF MakeFrame, Threads, Frames
<1>2. CASE StopAll
  BY <1>2 DEF StopAll
<1>3. ASSUME NEW q \in Rings, Offer(q) PROVE PipelineTypeOK'
  BY <1>3 DEF Offer
<1>4. ASSUME NEW q \in Rings, Fill(q) PROVE PipelineTypeOK'
  BY <1>4 DEF Fill
<1>5. ASSUME NEW q \in Rings, PublishSlot(q) PROVE PipelineTypeOK'
  BY <1>5, AfterSlot DEF PublishSlot
<1>6. ASSUME NEW q \in Rings, Poll(q) PROVE PipelineTypeOK'
  BY <1>6 DEF Poll
<1>7. ASSUME NEW q \in Rings, Copy(q) PROVE PipelineTypeOK'
  BY <1>7 DEF Copy
<1>8. ASSUME NEW q \in Rings, Free(q) PROVE PipelineTypeOK'
  BY <1>8, AfterSlot DEF Free
<1>9. ASSUME NEW t \in Threads, Leave(t) PROVE PipelineTypeOK'
  BY <1>9 DEF Leave
<1>10. CASE UNCHANGED pipeVars
  BY <1>10 DEF pipeVars
<1> QED
  BY <1>1, <1>2, <1>3, <1>4, <1>5, <1>6, <1>7, <1>8, <1>9, <1>10 DEF PipelineNext

\* A number of the counter is above the simulator's last frame.
LEMMA CounterKept ==
    PipelineTypeOK /\ Rank(frame["simulator"]) <= frame_id /\ [PipelineNext]_pipeVars
        => (Rank(frame["simulator"]) <= frame_id)'
<1> SUFFICES ASSUME PipelineTypeOK, Rank(frame["simulator"]) <= frame_id, [PipelineNext]_pipeVars
             PROVE  (Rank(frame["simulator"]) <= frame_id)'
  OBVIOUS
<1>1. CASE MakeFrame
  BY <1>1, PipelineAssumption DEF MakeFrame, Rank, PipelineTypeOK, Threads
<1>2. ASSUME NEW q \in Rings, Copy(q) PROVE (Rank(frame["simulator"]) <= frame_id)'
  BY <1>2 DEF Copy, Rank, PipelineTypeOK, Rings, Consumer
<1>3. CASE UNCHANGED <<frame, frame_id>>
  BY <1>3
<1> QED
  BY <1>1, <1>2, <1>3 DEF PipelineNext, StopAll, Offer, Fill, PublishSlot, Poll, Free, Leave, pipeVars

\* Room once found is not taken away.
LEMMA FitsKept ==
    ASSUME PipelineTypeOK, NEW r \in Rings, RingFits(r), [PipelineNext]_pipeVars
    PROVE  RingFits(r)'
<1> USE Ends DEF PipelineTypeOK, At, RingFits
<1>1. CASE MakeFrame
  BY <1>1 DEF MakeFrame, Rings, Producer, Consumer, Threads
<1>2. ASSUME NEW q \in Rings, Offer(q) PROVE RingFits(r)'
  BY <1>2 DEF Offer, Full, Rings, Producer, Consumer, Threads
<1>3. ASSUME NEW q \in Rings, Fill(q) PROVE RingFits(r)'
  BY <1>3 DEF Fill, Rings, Producer, Consumer, Threads
<1>4. ASSUME NEW q \in Rings, PublishSlot(q) PROVE RingFits(r)'
  BY <1>4 DEF PublishSlot, Rings, Producer, Consumer, Threads
<1>5. ASSUME NEW q \in Rings, Poll(q) PROVE RingFits(r)'
  BY <1>5 DEF Poll, Rings, Producer, Consumer, Threads
<1>6. ASSUME NEW q \in Rings, Copy(q) PROVE RingFits(r)'
  BY <1>6 DEF Copy, Rings, Producer, Consumer, Threads
<1>7. ASSUME NEW q \in Rings, Free(q) PROVE RingFits(r)'
  <2>1. CASE r = q
    <3>1. After(write_idx[q]) # After(read_idx[q])
      BY <1>7, <2>1, NextTells DEF Free
    <3> QED
      BY <1>7, <2>1, <3>1 DEF Free, Rings, Producer, Consumer, Threads
  <2>2. CASE r # q
    BY <1>7, <2>2 DEF Free, Rings, Producer, Consumer, Threads
  <2> QED
    BY <2>1, <2>2
<1>8. ASSUME NEW t \in Threads, Leave(t) PROVE RingFits(r)'
  BY <1>8 DEF Leave, Rings, Producer, Consumer, Threads
<1>9. CASE UNCHANGED <<at, read_idx, write_idx>>
  BY <1>9
<1> QED
  BY <1>1, <1>2, <1>3, <1>4, <1>5, <1>6, <1>7, <1>8, <1>9 DEF PipelineNext, StopAll, pipeVars

-----------------------------------------------------------------------------
(***************************************************************************)
(* Order.                                                                  *)
(***************************************************************************)

\* Ring r, its slots, and the frames at its ends stay as they are.
Still(r) ==
    /\ slots'[r] = slots[r]
    /\ read_idx'[r] = read_idx[r]
    /\ write_idx'[r] = write_idx[r]
    /\ frame'[Producer(r)] = frame[Producer(r)]
    /\ frame'[Consumer(r)] = frame[Consumer(r)]

\* A step beside a ring, or one that only moves the threads at its ends, leaves it
\* in order.
LEMMA StillInOrder ==
    ASSUME NEW r \in Rings, RingInOrder(r), Still(r),
           Fresh(Producer(r))' => Fresh(Producer(r)),
           at'[Producer(r)] = "publish" => at[Producer(r)] = "publish",
           at'[Consumer(r)] = "free" <=> at[Consumer(r)] = "free"
    PROVE  RingInOrder(r)'
<1>1. Occupied(r)' = Occupied(r)
  BY DEF Still, Occupied, Gap, Slots
<1>2. Rising(r)'
  BY <1>1 DEF RingInOrder, Rising, Still, Rank, Gap
<1>3. UpToLast(r)'
  BY <1>1 DEF RingInOrder, UpToLast, Before, Still, Rank
<1>4. FromLast(r)'
  BY <1>1 DEF RingInOrder, FromLast, Still, Rank
<1>5. AtHand(r)'
  BY DEF RingInOrder, AtHand, Still
<1> QED
  BY <1>2, <1>3, <1>4, <1>5 DEF RingInOrder

\* The first slot is occupied when the reader has found it so, the slot to be
\* written never.
LEMMA OccupiedEnds ==
    ASSUME PipelineTypeOK, NEW r \in Rings
    PROVE  /\ write_idx[r] \notin Occupied(r)
           /\ read_idx[r] # write_idx[r] => read_idx[r] \in Occupied(r)
           /\ read_idx[r] \in Slots /\ write_idx[r] \in Slots
  BY GapTells DEF PipelineTypeOK, Occupied, Slots

LEMMA MakeFrameInOrder ==
    ASSUME PipeInv, NEW r \in Rings, MakeFrame
    PROVE  RingInOrder(r)'
<1> USE DEF PipeInv, PipelineTypeOK
<1>1. CASE r = "q1"
  <2>0. frame_id \in Frames /\ Rank(frame["simulator"]) < Rank(frame_id)
    BY PipelineAssumption DEF MakeFrame, Threads, Frames, Rank
  <2>1. /\ frame'["simulator"] = frame_id /\ frame'["detect"] = frame["detect"]
        /\ slots' = slots /\ read_idx' = read_idx /\ write_idx' = write_idx
        /\ at'["detect"] = at["detect"] /\ at'["simulator"] = "offer"
    BY DEF MakeFrame, At, Threads
  <2>2. Occupied(r)' = Occupied(r)
    BY <2>1 DEF Occupied, Gap, Slots
  <2>3. Rising(r)'
    BY <2>1, <2>2 DEF RingInOrder, Rising, Rank, Gap
  <2>4. UpToLast(r)'
    <3>1. ASSUME NEW f \in Frames \cup {NoFrame}, Before(f, r)
          PROVE  Rank(f) < Rank(frame_id)
      BY <1>1, <2>0, <3>1, PipelineAssumption DEF Before, Producer, Rank, Frames, Threads
    <3>2. /\ frame["detect"] \in Frames \cup {NoFrame}
          /\ Before(frame["detect"], r)
      BY <1>1 DEF RingInOrder, UpToLast, Consumer, Threads
    <3>3. \A i \in Occupied(r) : slots[r][i] \in Frames /\ Before(slots[r][i], r)
      BY DEF RingInOrder, UpToLast
    <3>4. /\ Rank(frame["detect"]) < Rank(frame_id)
          /\ \A i \in Occupied(r) : slots[r][i] \in Frames /\ Rank(slots[r][i]) < Rank(frame_id)
      BY <3>1, <3>2, <3>3
    <3>5. ASSUME NEW f \in Frames \cup {NoFrame}, Rank(f) < Rank(frame_id)
          PROVE  Before(f, r)'
      BY <1>1, <2>0, <2>1, <3>5, PipelineAssumption DEF Before, Producer, Rank, Frames
    <3> QED
      BY <1>1, <2>1, <2>2, <3>2, <3>4, <3>5 DEF UpToLast, Consumer
  <2>5. FromLast(r)'
    BY <1>1, <2>1, <2>2 DEF RingInOrder, FromLast, Consumer, Rank
  <2>6. AtHand(r)'
    BY <1>1, <2>1 DEF RingInOrder, AtHand, Producer, Consumer
  <2> QED
    BY <2>3, <2>4, <2>5, <2>6 DEF RingInOrder
<1>2. CASE r = "q2"
  <2>1. Still(r)
    BY <1>2 DEF MakeFrame, Still, Producer, Consumer, Threads
  <2> QED
    BY <1>2, <2>1, StillInOrder DEF MakeFrame, At, Fresh, Producer, Consumer, Threads
<1> QED
  BY <1>1, <1>2 DEF Rings

\* Offer, Poll and Leave only move threads.
LEMMA MovesInOrder ==
    ASSUME PipeInv, NEW r \in Rings, NEW q \in Rings, NEW t \in Threads,
           Offer(q) \/ Poll(q) \/ Leave(t)
    PROVE  RingInOrder(r)'
<1>1. Still(r)
  BY DEF Offer, Poll, Leave, Still
<1>2. /\ Fresh(Producer(r))' => Fresh(Producer(r))
      /\ at'[Producer(r)] = "publish" => at[Producer(r)] = "publish"
      /\ at'[Consumer(r)] = "free" <=> at[Consumer(r)] = "free"
  BY Ends DEF PipeInv, PipelineTypeOK, Offer, Poll, Leave, At, Fresh
<1> QED
  BY <1>1, <1>2, StillInOrder DEF PipeInv

LEMMA FillInOrder ==
    ASSUME PipeInv, NEW r \in Rings, NEW q \in Rings, Fill(q)
    PROVE  RingInOrder(r)'
<1> USE DEF PipeInv, PipelineTypeOK
<1>1. CASE r = q
  <2>1. /\ frame' = frame /\ read_idx' = read_idx /\ write_idx' = write_idx
        /\ at'[Consumer(q)] = at[Consumer(q)]
        /\ at[Producer(q)] = "fill" /\ at'[Producer(q)] = "publish"
    BY Ends DEF Fill, At
  <2>2. slots'[q] = [slots[q] EXCEPT ![write_idx[q]] = frame[Producer(q)]]
    BY DEF Fill
  <2>3. Occupied(r)' = Occupied(r)
    BY <2>1 DEF Occupied, Gap, Slots
  <2>4. \A i \in Occupied(r) : slots'[r][i] = slots[r][i]
    BY <1>1, <2>2, OccupiedEnds DEF Occupied
  <2>5. Rising(r)'
    BY <2>1, <2>3, <2>4 DEF RingInOrder, Rising, Rank, Gap
  <2>6. UpToLast(r)'
    BY <1>1, <2>1, <2>3, <2>4 DEF RingInOrder, UpToLast, Before, Fresh, Rank
  <2>7. FromLast(r)'
    BY <1>1, <2>1, <2>3, <2>4 DEF RingInOrder, FromLast, Rank
  <2>8. AtHand(r)'
    <3>1. at[Consumer(q)] = "free" => read_idx[q] \in Occupied(q)
      BY OccupiedEnds DEF RingFits
    <3>2. slots'[q][write_idx[q]] = frame[Producer(q)]
      BY <2>2, OccupiedEnds
    <3> QED
      BY <1>1, <2>1, <2>4, <3>1, <3>2 DEF RingInOrder, AtHand
  <2> QED
    BY <2>5, <2>6, <2>7, <2>8 DEF RingInOrder
<1>2. CASE r # q
  <2>1. Still(r)
    BY <1>2 DEF Fill, Still
  <2>2. /\ Fresh(Producer(r))' => Fresh(Producer(r))
        /\ at'[Producer(r)] = "publish" => at[Producer(r)] = "publish"
        /\ at'[Consumer(r)] = "free" <=> at[Consumer(r)] = "free"
    BY <1>2, Ends DEF Fill, At, Fresh, Producer, Rings
  <2> QED
    BY <2>1, <2>2, StillInOrder
<1> QED
  BY <1>1, <1>2

\* A frame published is the last of its ring.
LEMMA PublishInOrder ==
    ASSUME PipeInv, NEW r \in Rings, NEW q \in Rings, PublishSlot(q)
    PROVE  RingInOrder(r)'
<1> USE DEF PipeInv, PipelineTypeOK
<1>1. CASE r = q
  <2> DEFINE w == write_idx[q]
             f == frame[Producer(q)]
  <2>1. /\ frame' = frame /\ slots' = slots /\ read_idx' = read_idx
        /\ at'[Consumer(q)] = at[Consumer(q)]
        /\ at[Producer(q)] = "publish" /\ at'[Producer(q)] = "loop"
        /\ write_idx'[q] = After(w)
    BY Ends DEF PublishSlot, At
  <2>2. Occupied(r)' = Occupied(r) \cup {w}
    <3>1. w \in Slots /\ read_idx[q] \in Slots /\ After(w) # read_idx[q]
      BY <2>1 DEF RingFits
    <3>2. Gap(read_idx[q], After(w)) = Gap(read_idx[q], w) + 1
      BY <3>1, GapOfNext
    <3>3. \A i \in Slots : Gap(read_idx[q], i) \in Nat
                           /\ (Gap(read_idx[q], i) = Gap(read_idx[q], w) => i = w)
      BY <3>1, GapTells, PipelineAssumption
    <3>4. Occupied(r)' = {i \in Slots : Gap(read_idx[q], i) < Gap(read_idx[q], After(w))}
      BY <1>1, <2>1 DEF Occupied, Gap, Slots
    <3>5. ASSUME NEW i \in Slots
          PROVE  Gap(read_idx[q], i) < Gap(read_idx[q], After(w))
                    <=> Gap(read_idx[q], i) < Gap(read_idx[q], w) \/ i = w
      <4> DEFINE gi == Gap(read_idx[q], i)
                 gw == Gap(read_idx[q], w)
      <4>1. gi \in Nat /\ gw \in Nat /\ (gi = gw => i = w) /\ (i = w => gi = gw)
        BY <3>1, <3>3
      <4> HIDE DEF gi, gw
      <4>2. gi < gw + 1 <=> gi < gw \/ i = w
        BY <4>1
      <4> QED
        BY <3>2, <4>2 DEF gi, gw
    <3> QED
      BY <1>1, <3>1, <3>4, <3>5 DEF Occupied
  <2>3. /\ slots[q][w] = f
        /\ Rank(frame[Consumer(q)]) < Rank(f)
        /\ \A i \in Occupied(q) : slots[q][i] \in Frames /\ Rank(slots[q][i]) < Rank(f)
    BY <1>1, <2>1 DEF RingInOrder, AtHand, UpToLast, Before, Fresh
  <2>4. f \in Frames
    <3>1. f \in Frames \cup {NoFrame} /\ frame[Consumer(q)] \in Frames \cup {NoFrame}
      BY Ends
    <3> QED
      BY <2>3, <3>1, PipelineAssumption DEF Rank, Frames
  <2>5. \A i \in Occupied(q) : Gap(read_idx[q], i) < Gap(read_idx[q], w)
    BY DEF Occupied
  <2>6. Rising(r)'
    <3>1. \A i, j \in Occupied(q) \cup {w} :
             Gap(read_idx[q], i) < Gap(read_idx[q], j) => Rank(slots[q][i]) < Rank(slots[q][j])
      <4> SUFFICES ASSUME NEW i \in Occupied(q) \cup {w}, NEW j \in Occupied(q) \cup {w},
                          Gap(read_idx[q], i) < Gap(read_idx[q], j)
                   PROVE  Rank(slots[q][i]) < Rank(slots[q][j])
        OBVIOUS
      <4>1. CASE i = w
        <5>1. w \in Slots /\ read_idx[q] \in Slots
          OBVIOUS
        <5>2. i \in Slots /\ j \in Slots
          BY <5>1 DEF Occupied
        <5>3. Gap(read_idx[q], i) \in Nat /\ Gap(read_idx[q], j) \in Nat
          BY <5>1, <5>2, GapTells, PipelineAssumption
        <5> QED
          BY <2>5, <4>1, <5>3
      <4>2. CASE i # w /\ j = w
        BY <2>3, <4>2
      <4>3. CASE i # w /\ j # w
        BY <1>1, <4>3 DEF RingInOrder, Rising
      <4> QED
        BY <4>1, <4>2, <4>3
    <3> QED
      BY <1>1, <2>1, <2>2, <3>1 DEF Rising, Gap, Rank
  <2>7. UpToLast(r)'
    <3>1. /\ Rank(frame[Consumer(q)]) <= Rank(f)
          /\ \A i \in Occupied(q) \cup {w} :
                slots[q][i] \in Frames /\ Rank(slots[q][i]) <= Rank(f)
      <4>1. \A g \in Frames \cup {NoFrame} : Rank(g) \in Nat
        BY PipelineAssumption DEF Rank, Frames
      <4>2. frame[Consumer(q)] \in Frames \cup {NoFrame}
        BY Ends
      <4> QED
        BY <2>3, <2>4, <4>1, <4>2
    <3> QED
      BY <1>1, <2>1, <2>2, <3>1 DEF UpToLast, Before, Fresh, Rank
  <2>8. FromLast(r)'
    BY <1>1, <2>1, <2>2, <2>3 DEF RingInOrder, FromLast, Rank
  <2>9. AtHand(r)'
    BY <1>1, <2>1 DEF RingInOrder, AtHand
  <2> QED
    BY <2>6, <2>7, <2>8, <2>9 DEF RingInOrder
<1>2. CASE r # q
  <2>1. Still(r)
    BY <1>2 DEF PublishSlot, Still
  <2>2. /\ Fresh(Producer(r))' => Fresh(Producer(r))
        /\ at'[Producer(r)] = "publish" => at[Producer(r)] = "publish"
        /\ at'[Consumer(r)] = "free" <=> at[Consumer(r)] = "free"
    BY <1>2, Ends DEF PublishSlot, At, Fresh, Producer, Rings
  <2> QED
    BY <2>1, <2>2, StillInOrder
<1> QED
  BY <1>1, <1>2

\* The frame a consumer copies is a real one, after the last it had and before
\* all others in the ring.
LEMMA CopiedFrame ==
    ASSUME PipeInv, NEW q \in Rings, Copy(q)
    PROVE  /\ frame'[Consumer(q)] = slots[q][read_idx[q]]
           /\ slots[q][read_idx[q]] \in Frames
           /\ Before(slots[q][read_idx[q]], q)
           /\ Rank(frame[Consumer(q)]) < Rank(slots[q][read_idx[q]])
           /\ \A i \in Occupied(q) :
                 i # read_idx[q] => Rank(slots[q][read_idx[q]]) < Rank(slots[q][i])
<1> USE DEF PipeInv, PipelineTypeOK
<1>1. at[Consumer(q)] = "copy" /\ frame'[Consumer(q)] = slots[q][read_idx[q]]
  BY Ends DEF Copy
<1>2. read_idx[q] \in Occupied(q) /\ read_idx[q] \in Slots
  BY <1>1, OccupiedEnds DEF RingFits
<1>3. /\ slots[q][read_idx[q]] \in Frames
      /\ Before(slots[q][read_idx[q]], q)
      /\ Rank(frame[Consumer(q)]) < Rank(slots[q][read_idx[q]])
  BY <1>1, <1>2 DEF RingInOrder, UpToLast, FromLast
<1>4. ASSUME NEW i \in Occupied(q), i # read_idx[q]
      PROVE  Rank(slots[q][read_idx[q]]) < Rank(slots[q][i])
  <2>1. i \in Slots
    BY DEF Occupied
  <2>2. Gap(read_idx[q], read_idx[q]) = 0 /\ Gap(read_idx[q], i) \in Nat \ {0}
    BY <1>2, <1>4, <2>1, GapTells, PipelineAssumption
  <2> QED
    BY <1>2, <2>2 DEF RingInOrder, Rising
<1> QED
  BY <1>1, <1>3, <1>4

LEMMA CopyInOrder ==
    ASSUME PipeInv, NEW r \in Rings, NEW q \in Rings, Copy(q)
    PROVE  RingInOrder(r)'
<1> USE DEF PipeInv, PipelineTypeOK
<1> DEFINE c == Consumer(q)
           f == slots[q][read_idx[q]]
<1>1. /\ at[c] = "copy" /\ at'[c] = "free" /\ frame'[c] = f
      /\ \A t \in Threads \ {c} : at'[t] = at[t] /\ frame'[t] = frame[t]
      /\ slots' = slots /\ read_idx' = read_idx /\ write_idx' = write_idx
  BY Ends DEF Copy, At
<1>2. Occupied(r)' = Occupied(r)
  BY <1>1 DEF Occupied, Gap, Slots
<1>3. Rising(r)'
  BY <1>1, <1>2 DEF RingInOrder, Rising, Rank, Gap
<1>4. CASE r = q
  <2>1. /\ Producer(q) \in Threads \ {c}
        /\ Before(f, q)
        /\ \A i \in Occupied(q) : slots[q][i] \in Frames /\ Before(slots[q][i], q)
    BY Ends, CopiedFrame DEF RingInOrder, UpToLast
  <2>2. UpToLast(r)'
    BY <1>1, <1>2, <1>4, <2>1 DEF UpToLast, Before, Fresh, Rank
  <2>3. FromLast(r)'
    BY <1>1, <1>2, <1>4, CopiedFrame DEF FromLast, Rank
  <2>4. AtHand(r)'
    BY <1>1, <1>4, <2>1 DEF RingInOrder, AtHand
  <2> QED
    BY <1>3, <2>2, <2>3, <2>4 DEF RingInOrder
\* The detector's new frame comes after all it has put into the second ring.
<1>5. CASE r # q /\ Producer(r) = c
  <2>1. Consumer(r) \in Threads \ {c} /\ Rank(frame[c]) < Rank(f) /\ f \in Frames
    BY <1>5, Ends, CopiedFrame
  <2>2. /\ Before(frame[Consumer(r)], r) /\ frame[Consumer(r)] \in Frames \cup {NoFrame}
        /\ \A i \in Occupied(r) : slots[r][i] \in Frames /\ Before(slots[r][i], r)
    BY Ends DEF RingInOrder, UpToLast
  <2>3. ASSUME NEW g \in Frames \cup {NoFrame}, Before(g, r)
        PROVE  Before(g, r)'
    <3>1. Rank(g) < Rank(f)
      <4>1. Rank(g) \in Nat /\ Rank(f) \in Nat /\ Rank(frame[c]) \in Nat
        BY <2>1, Ends, PipelineAssumption DEF Rank, Frames
      <4> QED
        BY <1>5, <2>1, <2>3, <4>1 DEF Before
    <3>2. Rank(g) \in Nat /\ Rank(f) \in Nat
      BY <2>1, PipelineAssumption DEF Rank, Frames
    <3> QED
      BY <1>1, <1>5, <3>1, <3>2 DEF Before, Rank
  <2>4. UpToLast(r)'
    BY <1>1, <1>2, <2>1, <2>2, <2>3 DEF UpToLast
  <2>5. FromLast(r)'
    BY <1>1, <1>2, <2>1 DEF RingInOrder, FromLast, Rank
  <2>6. AtHand(r)'
    BY <1>1, <1>5, <2>1 DEF RingInOrder, AtHand
  <2> QED
    BY <1>3, <2>4, <2>5, <2>6 DEF RingInOrder
<1>6. CASE r # q /\ Producer(r) # c
  <2>1. Producer(r) \in Threads \ {c} /\ Consumer(r) \in Threads \ {c}
    BY <1>6, Ends DEF Rings, Consumer
  <2> QED
    BY <1>1, <2>1, StillInOrder DEF Still, Fresh
<1> QED
  BY <1>4, <1>5, <1>6

\* A slot freed is no longer of the ring, and was the first.
LEMMA FreeInOrder ==
    ASSUME PipeInv, NEW r \in Rings, NEW q \in Rings, Free(q)
    PROVE  RingInOrder(r)'
<1> USE DEF PipeInv, PipelineTypeOK
<1> DEFINE c == Consumer(q)
           n == read_idx[q]
<1>1. /\ at[c] = "free" /\ at'[c] \in {"offer", "loop"} /\ (c = "sink" => at'[c] = "loop")
      /\ \A t \in Threads \ {c} : at'[t] = at[t]
      /\ frame' = frame /\ slots' = slots /\ write_idx' = write_idx
      /\ read_idx'[q] = After(n)
  BY Ends DEF Free, At, Consumer
<1>2. CASE r = q
  <2>1. n \in Slots /\ write_idx[q] \in Slots /\ n # write_idx[q] /\ n \in Occupied(q)
    BY <1>1, OccupiedEnds DEF RingFits
  <2>2. \A i \in Slots \ {n} : Gap(After(n), i) = Gap(n, i) - 1 /\ Gap(n, i) \in Nat
    BY <2>1, GapFromNext, GapTells, PipelineAssumption
  <2>3. Occupied(r)' = Occupied(q) \ {n}
    <3>1. Occupied(r)' = {i \in Slots : Gap(After(n), i) < Gap(After(n), write_idx[q])}
      BY <1>1, <1>2 DEF Occupied, Gap, Slots
    <3>2. ~(Gap(After(n), n) < Gap(After(n), write_idx[q]))
      <4>1. Gap(After(n), n) = Capacity - 1
        BY <2>1, GapToLast
      <4>2. After(n) \in Slots
        BY <2>1, AfterSlot
      <4>3. Gap(After(n), write_idx[q]) \in 0 .. Capacity - 1
        BY <2>1, <4>2, GapTells
      <4> QED
        BY <4>1, <4>3, PipelineAssumption
    <3>3. \A i \in Slots \ {n} :
             Gap(After(n), i) < Gap(After(n), write_idx[q]) <=> Gap(n, i) < Gap(n, write_idx[q])
      BY <2>1, <2>2
    <3> QED
      BY <3>1, <3>2, <3>3 DEF Occupied
  <2>4. Rising(r)'
    <3>1. \A i, j \in Occupied(q) \ {n} :
             Gap(After(n), i) < Gap(After(n), j) => Rank(slots[q][i]) < Rank(slots[q][j])
      BY <1>2, <2>2 DEF RingInOrder, Rising, Occupied
    <3> QED
      BY <1>1, <1>2, <2>3, <3>1 DEF Rising, Gap, Rank
  <2>5. UpToLast(r)'
    BY <1>1, <1>2, <2>3, Ends DEF RingInOrder, UpToLast, Before, Fresh, Rank
  <2>6. FromLast(r)'
    <3>1. \A i \in Occupied(q) \ {n} : Rank(frame[c]) < Rank(slots[q][i])
      BY <1>2 DEF RingInOrder, FromLast
    <3> QED
      BY <1>1, <1>2, <2>3, <3>1 DEF FromLast, Rank
  <2>7. AtHand(r)'
    BY <1>1, <1>2, Ends DEF RingInOrder, AtHand
  <2> QED
    BY <2>4, <2>5, <2>6, <2>7 DEF RingInOrder
<1>3. CASE r # q
  <2>1. Still(r)
    BY <1>3 DEF Free, Still
  <2>2. /\ Fresh(Producer(r))' => Fresh(Producer(r))
        /\ at'[Producer(r)] = "publish" => at[Producer(r)] = "publish"
        /\ at'[Consumer(r)] = "free" <=> at[Consumer(r)] = "free"
    BY <1>1, <1>3, Ends DEF Fresh, Producer, Consumer, Rings, Threads
  <2> QED
    BY <2>1, <2>2, StillInOrder
<1> QED
  BY <1>2, <1>3

-----------------------------------------------------------------------------
(***************************************************************************)
(* The rings: the theorems.                                                *)
(***************************************************************************)

LEMMA PipeInvInit == PipelineInit => PipeInv
<1> SUFFICES ASSUME PipelineInit PROVE PipeInv
  OBVIOUS
<1> USE PipelineAssumption DEF PipelineInit
<1>1. PipelineTypeOK
  BY DEF PipelineTypeOK, Slots
<1>2. Rank(frame["simulator"]) <= frame_id
  BY DEF Rank, Threads
<1>3. ASSUME NEW q \in Rings PROVE RingFits(q) /\ RingInOrder(q)
  <2>1. RingFits(q)
    BY Ends DEF RingFits
  <2>2. Occupied(q) = {}
    BY DEF Occupied, Gap, Slots
  <2>3. Before(frame[Consumer(q)], q)
    BY Ends DEF Before, Fresh, Rank
  <2> QED
    BY <2>1, <2>2, <2>3, Ends DEF RingInOrder, Rising, UpToLast, FromLast, AtHand
<1> QED
  BY <1>1, <1>2, <1>3 DEF PipeInv

LEMMA PipeInvNext == PipeInv /\ [PipelineNext]_pipeVars => PipeInv'
<1> SUFFICES ASSUME PipeInv, [PipelineNext]_pipeVars PROVE PipeInv'
  OBVIOUS
<1>1. PipelineTypeOK' /\ (Rank(frame["simulator"]) <= frame_id)'
  BY TypesKept, CounterKept DEF PipeInv
<1>2. ASSUME NEW r \in Rings PROVE RingFits(r)'
  BY FitsKept DEF PipeInv
<1>3. ASSUME NEW r \in Rings PROVE RingInOrder(r)'
  <2>1. CASE MakeFrame
    BY <2>1, MakeFrameInOrder
  <2>2. CASE \E q \in Rings : Fill(q) \/ PublishSlot(q) \/ Copy(q) \/ Free(q)
    BY <2>2, FillInOrder, PublishInOrder, CopyInOrder, FreeInOrder
  <2>3. CASE \E q \in Rings : Offer(q) \/ Poll(q)
    <3>1. "sink" \in Threads
      BY DEF Threads
    <3> QED
      BY <2>3, <3>1, MovesInOrder
  <2>4. CASE \E t \in Threads : Leave(t)
    <3>1. "q1" \in Rings
      BY DEF Rings
    <3> QED
      BY <2>4, <3>1, MovesInOrder
  <2>5. CASE StopAll \/ UNCHANGED pipeVars
    <3>1. UNCHANGED <<at, frame, slots, read_idx, write_idx>>
      BY <2>5 DEF StopAll, pipeVars
    <3> QED
      BY <3>1, StillInOrder DEF PipeInv, Still, Fresh
  <2> QED
    BY <2>1, <2>2, <2>3, <2>4, <2>5 DEF PipelineNext
<1> QED
  BY <1>1, <1>2, <1>3 DEF PipeInv

LEMMA PipeInvAlways == PipelineSpec => []PipeInv
  BY PipeInvInit, PipeInvNext, PTL DEF PipelineSpec

\* The indices stay within the ring, and every thread where its loop can be.
THEOREM PipelineTyped == PipelineSpec => []PipelineTypeOK
<1>1. PipeInv => PipelineTypeOK
  BY DEF PipeInv
<1> QED
  BY <1>1, PipeInvAlways, PTL

\* No slot is filled while it is copied from, in rings of any capacity (enqueue,
\* dequeue).
THEOREM NothingTorn == PipelineSpec => []NoTornFrame
<1>1. PipeInv => NoTornFrame
  BY DEF PipeInv, RingFits, NoTornFrame
<1> QED
  BY <1>1, PipeInvAlways, PTL

\* The sink is given real frames, in the order they were made and none twice,
\* however many are lost at a full ring (simulator_thread, detect_thread,
\* sink_thread).
THEOREM SinkInOrder == PipelineSpec => PipelineInOrder
<1> DEFINE Given ==
        at["sink"] = "copy" /\ at'["sink"] = "free" =>
           /\ frame'["sink"] # NoFrame
           /\ frame["sink"] # NoFrame => frame'["sink"] > frame["sink"]
<1>1. PipeInv /\ [PipelineNext]_pipeVars => [Given]_pipeVars
  <2> SUFFICES ASSUME PipeInv, PipelineNext, at["sink"] = "copy", at'["sink"] = "free"
               PROVE  /\ frame'["sink"] # NoFrame
                      /\ frame["sink"] # NoFrame => frame'["sink"] > frame["sink"]
    BY DEF Given
  <2>1. Copy("q2")
    BY DEF PipelineNext, PipeInv, PipelineTypeOK, At, MakeFrame, StopAll, Offer, Fill,
           PublishSlot, Poll, Copy, Free, Leave, Rings, Threads, Producer, Consumer
  <2>2. /\ frame'["sink"] = slots["q2"][read_idx["q2"]]
        /\ slots["q2"][read_idx["q2"]] \in Frames
        /\ Rank(frame["sink"]) < Rank(slots["q2"][read_idx["q2"]])
    BY <2>1, CopiedFrame DEF Rings, Consumer
  <2> QED
    BY <2>2, PipelineAssumption DEF Rank, Frames, PipeInv, PipelineTypeOK, Threads
<1> QED
  BY <1>1, PipeInvAlways, PTL DEF PipelineSpec, PipelineInOrder

=============================================================================
