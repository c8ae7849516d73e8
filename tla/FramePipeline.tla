---------------------------- MODULE FramePipeline ----------------------------
(***************************************************************************)
(* The perception pipeline of lockfree-pipeline                            *)
(* (spsc_pipe_day2/01_base.cpp): a simulator, a detector and a sink, a     *)
(* thread each, with a lock-free ring, SPSCQueue, between the first two    *)
(* and another between the last two.                                       *)
(*                                                                         *)
(* enqueue and dequeue are three steps each: the two indices are loaded    *)
(* and compared, the slot is filled or copied, the own index is stored.    *)
(* The slot is no atomic; the acquire loads and release stores order its   *)
(* accesses as long as no two threads are at the same slot.                *)
(***************************************************************************)
EXTENDS Naturals

CONSTANTS
    Capacity,    \* slots of a ring (16)
    MaxFrames,   \* bound on Frame::id
    NoFrame

ASSUME PipelineAssumption ==
    Capacity \in Nat \ {0} /\ MaxFrames \in Nat /\ NoFrame \notin Nat

VARIABLES
    g_running,
    at,          \* at[t]: where thread t is
    frame,       \* frame[t]: its local frame
    frame_id,    \* the simulator's counter
    slots,       \* slots[q]: buffer_ of ring q, a frame by its id
    read_idx,    \* read_idx[q]
    write_idx    \* write_idx[q]

pipeVars == <<g_running, at, frame, frame_id, slots, read_idx, write_idx>>

Threads == {"simulator", "detect", "sink"}
Rings   == {"q1", "q2"}
Slots   == 0 .. Capacity - 1
Frames  == 0 .. MaxFrames

Producer(q) == IF q = "q1" THEN "simulator" ELSE "detect"
Consumer(q) == IF q = "q1" THEN "detect" ELSE "sink"

PipelineInit ==
    /\ g_running = TRUE
    /\ at = [t \in Threads |-> "loop"]
    /\ frame = [t \in Threads |-> NoFrame]
    /\ frame_id = 0
    /\ slots = [q \in Rings |-> [i \in Slots |-> NoFrame]]
    /\ read_idx = [q \in Rings |-> 0]
    /\ write_idx = [q \in Rings |-> 0]

At(t, point) == at' = [at EXCEPT ![t] = point]

\* Mutant of After: the ring does not close.
AfterUnwrapped(i) == i + 1

After(i) == (i + 1) % Capacity

-----------------------------------------------------------------------------
(***************************************************************************)
(* enqueue.                                                                *)
(***************************************************************************)

\* Mutant of Full: every slot is used.
FullLate(q) == FALSE

Full(q) == After(write_idx[q]) = read_idx[q]

\* A full ring refuses the frame, which is lost.
Offer(q) ==
    /\ at[Producer(q)] = "offer"
    /\ At(Producer(q), IF Full(q) THEN "loop" ELSE "fill")
    /\ UNCHANGED <<g_running, frame, frame_id, slots, read_idx, write_idx>>

Fill(q) ==
    /\ at[Producer(q)] = "fill"
    /\ slots' = [slots EXCEPT ![q][write_idx[q]] = frame[Producer(q)]]
    /\ At(Producer(q), "publish")
    /\ UNCHANGED <<g_running, frame, frame_id, read_idx, write_idx>>

PublishSlot(q) ==
    /\ at[Producer(q)] = "publish"
    /\ write_idx' = [write_idx EXCEPT ![q] = After(@)]
    /\ At(Producer(q), "loop")
    /\ UNCHANGED <<g_running, frame, frame_id, slots, read_idx>>

-----------------------------------------------------------------------------
(***************************************************************************)
(* dequeue, called at the head of the loop.                                *)
(***************************************************************************)

Poll(q) ==
    /\ at[Consumer(q)] = "loop"
    /\ g_running
    /\ read_idx[q] # write_idx[q]
    /\ At(Consumer(q), "copy")
    /\ UNCHANGED <<g_running, frame, frame_id, slots, read_idx, write_idx>>

Copy(q) ==
    /\ at[Consumer(q)] = "copy"
    /\ frame' = [frame EXCEPT ![Consumer(q)] = slots[q][read_idx[q]]]
    /\ At(Consumer(q), "free")
    /\ UNCHANGED <<g_running, frame_id, slots, read_idx, write_idx>>

\* Mutant of Free: the slot is freed twice over.
FreeTwo(q) ==
    /\ at[Consumer(q)] = "free"
    /\ read_idx' = [read_idx EXCEPT ![q] = After(After(@))]
    /\ At(Consumer(q), IF q = "q1" THEN "offer" ELSE "loop")
    /\ UNCHANGED <<g_running, frame, frame_id, slots, write_idx>>

\* The detector goes on to work on the frame and offer it to q2, the sink only
\* takes the time.
Free(q) ==
    /\ at[Consumer(q)] = "free"
    /\ read_idx' = [read_idx EXCEPT ![q] = After(@)]
    /\ At(Consumer(q), IF q = "q1" THEN "offer" ELSE "loop")
    /\ UNCHANGED <<g_running, frame, frame_id, slots, write_idx>>

-----------------------------------------------------------------------------

MakeFrame ==
    /\ at["simulator"] = "loop"
    /\ g_running
    /\ frame_id <= MaxFrames
    /\ frame' = [frame EXCEPT !["simulator"] = frame_id]
    /\ frame_id' = frame_id + 1
    /\ At("simulator", "offer")
    /\ UNCHANGED <<g_running, slots, read_idx, write_idx>>

\* main.
StopAll ==
    /\ g_running
    /\ g_running' = FALSE
    /\ UNCHANGED <<at, frame, frame_id, slots, read_idx, write_idx>>

Leave(t) ==
    /\ at[t] = "loop"
    /\ ~g_running
    /\ At(t, "left")
    /\ UNCHANGED <<g_running, frame, frame_id, slots, read_idx, write_idx>>

PipelineNext ==
    \/ MakeFrame \/ StopAll
    \/ \E q \in Rings :
          Offer(q) \/ Fill(q) \/ PublishSlot(q) \/ Poll(q) \/ Copy(q) \/ Free(q)
    \/ \E t \in Threads : Leave(t)

PipelineSpec == PipelineInit /\ [][PipelineNext]_pipeVars

-----------------------------------------------------------------------------

PipelineTypeOK ==
    /\ g_running \in BOOLEAN
    /\ at \in [Threads -> {"loop", "offer", "fill", "publish", "copy", "free", "left"}]
    /\ frame \in [Threads -> Frames \cup {NoFrame}]
    /\ frame_id \in 0 .. MaxFrames + 1
    /\ slots \in [Rings -> [Slots -> Frames \cup {NoFrame}]]
    /\ read_idx \in [Rings -> Slots]
    /\ write_idx \in [Rings -> Slots]

\* The producer never fills the slot the consumer copies from: without it the
\* plain accesses to buffer_ would be a data race, and frames torn (enqueue,
\* dequeue).
NoTornFrame ==
    \A q \in Rings :
        at[Producer(q)] = "fill" /\ at[Consumer(q)] = "copy"
            => write_idx[q] # read_idx[q]

\* However the three threads interleave and whichever frames are lost at a full
\* ring, the sink is given real frames, in the order they were made and none
\* twice.
PipelineInOrder ==
    [][ at["sink"] = "copy" /\ at'["sink"] = "free" =>
           /\ frame'["sink"] # NoFrame
           /\ frame["sink"] # NoFrame => frame'["sink"] > frame["sink"] ]_pipeVars

=============================================================================
