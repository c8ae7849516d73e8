---------------------------- MODULE ReliableTopic ----------------------------
(***************************************************************************)
(* A RELIABLE topic of uav_comm: one Publisher with its AckManager, one    *)
(* Subscription, and the transport between them (runtime/Publisher.cpp,    *)
(* runtime/Subscription.cpp, core/AckManager.h).                           *)
(*                                                                         *)
(* Samples are numbered.  The subscription keeps the largest number it     *)
(* knows of and a bitmap over the numbers below it, drops what the bitmap  *)
(* says it has, and asks for what is missing with a NACK; heartbeats tell  *)
(* it the publisher's largest number.  publish is called by any thread and *)
(* is three steps: the number, the cache, the transport.  What the         *)
(* subscription does runs on the one thread of the Reactor and is one      *)
(* step.  A sample, heartbeat or NACK may be overtaken, and may be lost by *)
(* the transport or by a full Reactor queue (Reactor::post).  The resends  *)
(* of one NACK are one step: an eviction in between is a loss.             *)
(***************************************************************************)
EXTENDS Naturals, FiniteSets

CONSTANTS
    Writers,    \* threads that call publish
    W,          \* bits of Subscription::bitmap_ (64), and AckManager::MAX_CACHE
    MaxSeq,     \* bound on the sequence numbers
    MaxFlight,  \* bound on the heartbeats in flight
    SameNode    \* both ends belong to one Node

ASSUME TopicAssumption == W \in Nat \ {0, 1} /\ MaxSeq \in Nat /\ MaxFlight \in Nat \ {0}
                         /\ SameNode \in BOOLEAN

VARIABLES
    seq,        \* Publisher::seq_
    writerAt,   \* where a thread is in publish
    writerSeq,  \* its current_seq
    cache,      \* the numbers in AckManager::cache_
    maxSeq,     \* AckManager::max_seq_
    samples,    \* samples in flight
    beats,      \* heartbeats in flight
    nacks,      \* NACKs in flight, as [base, bits]
    first,      \* Subscription::first_packet_
    last,       \* last_seq_
    bitmap,     \* the bits set in bitmap_
    nackBase,   \* last_nack_base_
    heard       \* the samples the callback has been given

publisherVars == <<seq, writerAt, writerSeq, cache, maxSeq>>
receiverVars == <<first, last, bitmap, nackBase, heard>>
topicVars == <<publisherVars, receiverVars, samples, beats, nacks>>

Seqs == 0 .. MaxSeq
Bits == 0 .. W - 1

TopicInit ==
    /\ seq = 0
    /\ writerAt = [t \in Writers |-> "idle"]
    /\ writerSeq = [t \in Writers |-> 0]
    /\ cache = {}
    /\ maxSeq = 0
    /\ samples = {} /\ beats = {} /\ nacks = {}
    /\ first = TRUE
    /\ last = 0
    /\ bitmap = {}
    /\ nackBase = 0
    /\ heard = {}

-----------------------------------------------------------------------------
(***************************************************************************)
(* The publisher.                                                          *)
(***************************************************************************)

TakeSeq(t) ==
    /\ writerAt[t] = "idle"
    /\ seq <= MaxSeq
    /\ seq' = seq + 1
    /\ writerSeq' = [writerSeq EXCEPT ![t] = seq]
    /\ writerAt' = [writerAt EXCEPT ![t] = "add"]
    /\ UNCHANGED <<cache, maxSeq, receiverVars, samples, beats, nacks>>

\* What AckManager::add keeps of the cached numbers.  The threshold is the
\* unsigned seq - MAX_CACHE: for a small seq it wraps and nothing is kept.
Kept(cached, s) ==
    IF Cardinality(cached) <= W THEN cached
    ELSE IF s >= W THEN {c \in cached : c >= s - W} ELSE {}

\* Mutant of Add: the largest number is set, not raised.
AddLatest(t) ==
    /\ writerAt[t] = "add"
    /\ cache' = Kept(cache \cup {writerSeq[t]}, writerSeq[t])
    /\ maxSeq' = writerSeq[t]
    /\ writerAt' = [writerAt EXCEPT ![t] = "send"]
    /\ UNCHANGED <<seq, writerSeq, receiverVars, samples, beats, nacks>>

Add(t) ==
    /\ writerAt[t] = "add"
    /\ cache' = Kept(cache \cup {writerSeq[t]}, writerSeq[t])
    /\ maxSeq' = IF writerSeq[t] > maxSeq THEN writerSeq[t] ELSE maxSeq
    /\ writerAt' = [writerAt EXCEPT ![t] = "send"]
    /\ UNCHANGED <<seq, writerSeq, receiverVars, samples, beats, nacks>>

SendSample(t) ==
    /\ writerAt[t] = "send"
    /\ samples' = samples \cup {writerSeq[t]}
    /\ writerAt' = [writerAt EXCEPT ![t] = "idle"]
    /\ UNCHANGED <<seq, writerSeq, cache, maxSeq, receiverVars, beats, nacks>>

SendHeartbeat ==
    /\ Cardinality(beats) < MaxFlight
    /\ beats' = beats \cup {maxSeq}
    /\ UNCHANGED <<publisherVars, receiverVars, samples, nacks>>

\* A NACK carries the id of the node of the subscription, and a publisher of
\* another node ignores it.
HandleNack(nack) ==
    /\ nack \in nacks
    /\ nacks' = nacks \ {nack}
    /\ samples' = IF SameNode
                  THEN samples \cup {s \in cache : s >= nack.base /\ s - nack.base \in nack.bits}
                  ELSE samples
    /\ UNCHANGED <<publisherVars, receiverVars, beats>>

-----------------------------------------------------------------------------
(***************************************************************************)
(* The subscription, as a record of what a handler may change.             *)
(***************************************************************************)

Window == [last |-> last, bits |-> bitmap, nackBase |-> nackBase, sent |-> nacks]

SetWindow(s) ==
    /\ last' = s.last
    /\ bitmap' = s.bits
    /\ nackBase' = s.nackBase
    /\ nacks' = s.sent

Base(s) == IF s.last >= W - 1 THEN s.last - (W - 1) ELSE 0

\* check_loss: bit i - 1 of the NACK stands for a hole at bit i, and one NACK
\* is sent for each base.
CheckLoss(s) ==
    LET holes == (1 .. W - 1) \ s.bits IN
    IF holes = {} \/ Base(s) = s.nackBase THEN s
    ELSE [s EXCEPT !.nackBase = Base(s),
                   !.sent = @ \cup {[base |-> Base(s), bits |-> {i - 1 : i \in holes}]}]

\* Mutant of MovedTo: the bits stay where they are.
MovedUnshifted(s, n) == [s EXCEPT !.last = n]

\* The window with n, which is not smaller, as its last number.
MovedTo(s, n) ==
    [s EXCEPT !.last = n, !.bits = {i + (n - s.last) : i \in @} \cap Bits]

\* on_raw has seen the sample and says so in the bitmap.
Duplicate(s) == s <= last /\ last - s \in bitmap

OnRaw(s) ==
    /\ s \in samples
    /\ samples' = samples \ {s}
    /\ first' = FALSE
    /\ \/ /\ first
          /\ SetWindow(CheckLoss([Window EXCEPT !.last = s, !.bits = {0}]))
          /\ heard' = heard \cup {s}
       \/ /\ ~first /\ Duplicate(s)
          /\ UNCHANGED <<last, bitmap, nackBase, nacks, heard>>
       \/ /\ ~first /\ ~Duplicate(s)
          /\ SetWindow(CheckLoss(
                IF s > last
                THEN LET moved == MovedTo(Window, s) IN [moved EXCEPT !.bits = @ \cup {0}]
                ELSE Window))
          /\ heard' = heard \cup {s}
    /\ UNCHANGED <<publisherVars, beats>>

\* The window moved by k whole windows and looked at after each: none of its
\* samples has come, so that each has a NACK, unless the last one sent had its
\* base.
Skipped(k) ==
    LET base(i) == last + i * W - (W - 1) IN
    IF k = 0 THEN Window
    ELSE [last |-> last + k * W, bits |-> {}, nackBase |-> base(k),
          sent |-> nacks \cup {[base |-> base(i), bits |-> 0 .. W - 2] :
                                  i \in {j \in 1 .. k : base(j) # nackBase \/ j > 1}}]

\* The window follows by whole windows and then by the rest.
OnHeartbeat(max) ==
    /\ max \in beats
    /\ beats' = beats \ {max}
    /\ \/ /\ max <= last
          /\ UNCHANGED <<last, bitmap, nackBase, nacks>>
       \/ /\ max > last
          /\ SetWindow(CheckLoss(MovedTo(Skipped((max - last) \div W), max)))
    /\ UNCHANGED <<publisherVars, samples, first, heard>>

-----------------------------------------------------------------------------

\* The transport, or a Reactor whose queue is full.
Lose ==
    /\ \/ /\ \E s \in samples : samples' = samples \ {s}
          /\ UNCHANGED <<beats, nacks>>
       \/ /\ \E b \in beats : beats' = beats \ {b}
          /\ UNCHANGED <<samples, nacks>>
       \/ /\ \E n \in nacks : nacks' = nacks \ {n}
          /\ UNCHANGED <<samples, beats>>
    /\ UNCHANGED <<publisherVars, receiverVars>>

TopicNext ==
    \/ \E t \in Writers : TakeSeq(t) \/ Add(t) \/ SendSample(t)
    \/ SendHeartbeat \/ Lose
    \/ \E nack \in nacks : HandleNack(nack)
    \/ \E s \in samples : OnRaw(s)
    \/ \E max \in beats : OnHeartbeat(max)

TopicSpec == TopicInit /\ [][TopicNext]_topicVars

-----------------------------------------------------------------------------

TopicTypeOK ==
    /\ seq \in 0 .. MaxSeq + 1
    /\ writerAt \in [Writers -> {"idle", "add", "send"}]
    /\ writerSeq \in [Writers -> Seqs]
    /\ cache \subseteq Seqs
    /\ maxSeq \in Seqs
    /\ samples \subseteq Seqs /\ beats \subseteq Seqs
    /\ nacks \subseteq [base : Seqs, bits : SUBSET Bits]
    /\ first \in BOOLEAN
    /\ last \in Seqs
    /\ bitmap \subseteq Bits
    /\ nackBase \in Seqs
    /\ heard \subseteq Seqs

\* on_raw drops a sample only because the bitmap says the callback has had it,
\* and the bitmap never says so of a sample it has not had: through samples
\* that come out of order, heartbeats that move the window by any distance, a
\* heartbeat before the first sample, and a first sample that moves it back.
WindowHonest ==
    \A i \in bitmap : i <= last /\ last - i \in heard

\* However many samples and heartbeats are lost, and although a late first
\* sample moves the window back, the subscription knows the publisher's largest
\* number again and again (on_heartbeat).
WindowFollows == []<>(last = maxSeq)

=============================================================================
