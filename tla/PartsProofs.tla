----------------------------- MODULE PartsProofs -----------------------------
(***************************************************************************)
(* Theorems about the parts that MCParts checks side by side (for the bus  *)
(* and the pipeline see TransportProofs): the subscription of a reliable   *)
(* topic drops no sample it has not delivered, for windows of any width    *)
(* and any number of samples; the heartbeat files of the hub are whole,    *)
(* for any set of targets; the depth-first sort of the DependencyManager   *)
(* yields an order, for every table of dependencies; the joystick bridge   *)
(* reports every frame of an undisturbed line, for any frames and however  *)
(* they are cut; and all of them together are well typed.                  *)
(***************************************************************************)
EXTENDS MCParts, TransportProofs, SequenceTheorems

-----------------------------------------------------------------------------
(***************************************************************************)
(* Windows.                                                                *)
(***************************************************************************)

\* A window as the handlers pass it on.
Windows == [last : Seqs, bits : SUBSET Bits, nackBase : Seqs,
            sent : SUBSET [base : Seqs, bits : SUBSET Bits]]

\* A window whose bits stand for samples among those delivered.
Honest(s, delivered) == \A i \in s.bits : i <= s.last /\ s.last - i \in delivered

LEMMA BitsAreNumbers == Bits \subseteq Nat /\ Seqs \subseteq Nat /\ W \in Nat /\ W > 1
  BY TopicAssumption DEF Bits, Seqs

\* A NACK leaves the window itself alone.
LEMMA CheckLossKeeps ==
    ASSUME NEW s \in Windows
    PROVE  /\ CheckLoss(s) \in Windows
           /\ CheckLoss(s).last = s.last
           /\ CheckLoss(s).bits = s.bits
<1> DEFINE holes == (1 .. W - 1) \ s.bits
           nack  == [base |-> Base(s), bits |-> {i - 1 : i \in holes}]
<1>1. Base(s) \in Seqs
  BY TopicAssumption DEF Base, Windows, Seqs
<1>2. nack \in [base : Seqs, bits : SUBSET Bits]
  <2>1. \A i \in holes : i - 1 \in Bits
    BY TopicAssumption DEF Bits
  <2> QED
    BY <1>1, <2>1
<1>3. CASE holes = {} \/ Base(s) = s.nackBase
  BY <1>3 DEF CheckLoss
<1>4. CASE ~(holes = {} \/ Base(s) = s.nackBase)
  <2>1. CheckLoss(s) = [s EXCEPT !.nackBase = Base(s), !.sent = @ \cup {nack}]
    BY <1>4 DEF CheckLoss
  <2> QED
    BY <1>1, <1>2, <2>1 DEF Windows
<1> QED
  BY <1>3, <1>4

\* Moved on, every bit stands for the sample it has stood for.
LEMMA MovedToKeeps ==
    ASSUME NEW s \in Windows, NEW n \in Seqs, n >= s.last,
           NEW delivered, Honest(s, delivered)
    PROVE  /\ MovedTo(s, n) \in Windows
           /\ MovedTo(s, n).last = n
           /\ Honest(MovedTo(s, n), delivered)
<1>1. MovedTo(s, n) = [s EXCEPT !.last = n, !.bits = {i + (n - s.last) : i \in s.bits} \cap Bits]
  BY DEF MovedTo
<1>2. /\ MovedTo(s, n) \in Windows
      /\ MovedTo(s, n).last = n
      /\ MovedTo(s, n).bits = {i + (n - s.last) : i \in s.bits} \cap Bits
  BY <1>1 DEF Windows
<1>3. ASSUME NEW i \in s.bits
      PROVE  i + (n - s.last) <= n /\ n - (i + (n - s.last)) \in delivered
  <2>1. i \in Nat /\ s.last \in Nat /\ n \in Nat
    BY BitsAreNumbers DEF Windows
  <2>2. i <= s.last /\ s.last - i \in delivered
    BY DEF Honest
  <2>3. n - (i + (n - s.last)) = s.last - i
    BY <2>1
  <2> QED
    BY <2>1, <2>2, <2>3
<1> QED
  BY <1>2, <1>3 DEF Honest

\* The window in the variables is one.
LEMMA WindowFits ==
    ASSUME TopicTypeOK, WindowHonest
    PROVE  Window \in Windows /\ Honest(Window, heard)
  BY DEF TopicTypeOK, WindowHonest, Window, Windows, Honest

\* Moved by whole windows it is empty, and no further than it may be.
LEMMA SkippedKeeps ==
    ASSUME TopicTypeOK, WindowHonest, NEW k \in Nat, last + k * W \in Seqs
    PROVE  /\ Skipped(k) \in Windows
           /\ Skipped(k).last = last + k * W
           /\ Honest(Skipped(k), heard)
<1>1. CASE k = 0
  BY <1>1, WindowFits, BitsAreNumbers DEF Skipped, Window, TopicTypeOK
<1>2. CASE k # 0
  <2> DEFINE base(i) == last + i * W - (W - 1)
             sent == nacks \cup {[base |-> base(i), bits |-> 0 .. W - 2] :
                                    i \in {j \in 1 .. k : base(j) # nackBase \/ j > 1}}
  <2>1. Skipped(k) = [last |-> last + k * W, bits |-> {}, nackBase |-> base(k), sent |-> sent]
    BY <1>2 DEF Skipped
  <2>2. ASSUME NEW i \in 1 .. k PROVE base(i) \in Seqs
    <3>1. last \in Nat /\ W \in Nat /\ W > 1 /\ i \in Nat /\ i >= 1 /\ i <= k
      BY BitsAreNumbers DEF TopicTypeOK
    <3>2. i * W >= W /\ i * W <= k * W /\ i * W \in Nat /\ k * W \in Nat
      <4>1. /\ i * W \in Nat /\ k * W \in Nat
            /\ (i - 1) * W \in Nat /\ (k - i) * W \in Nat
        BY <3>1
      <4>2. i * W = (i - 1) * W + W /\ k * W = i * W + (k - i) * W
        BY <3>1
      <4> QED
        BY <3>1, <4>1, <4>2
    <3> QED
      BY <3>1, <3>2, TopicAssumption DEF Seqs
  <2>3. sent \subseteq [base : Seqs, bits : SUBSET Bits]
    <3>1. 0 .. W - 2 \subseteq Bits
      BY BitsAreNumbers DEF Bits
    <3>2. \A i \in 1 .. k : [base |-> base(i), bits |-> 0 .. W - 2] \in [base : Seqs, bits : SUBSET Bits]
      BY <2>2, <3>1
    <3>3. nacks \subseteq [base : Seqs, bits : SUBSET Bits]
      BY DEF TopicTypeOK
    <3>4. ASSUME NEW n \in sent PROVE n \in [base : Seqs, bits : SUBSET Bits]
      <4>1. CASE n \in nacks
        BY <3>3, <4>1
      <4>2. CASE n \notin nacks
        <5>1. PICK i \in 1 .. k : n = [base |-> base(i), bits |-> 0 .. W - 2]
          BY <4>2
        <5> QED
          BY <3>2, <5>1
      <4> QED
        BY <4>1, <4>2
    <3> QED
      BY <3>4
  <2>4. base(k) \in Seqs
    BY <1>2, <2>2
  <2> QED
    BY <2>1, <2>3, <2>4 DEF Windows, Honest
<1> QED
  BY <1>1, <1>2

-----------------------------------------------------------------------------
(***************************************************************************)
(* The handlers.                                                           *)
(***************************************************************************)

\* What a handler leaves as its window is typed and honest.
LEMMA WindowSet ==
    ASSUME NEW s \in Windows, SetWindow(s), Honest(s, heard')
    PROVE  /\ last' \in Seqs /\ bitmap' \subseteq Bits /\ nackBase' \in Seqs
           /\ nacks' \subseteq [base : Seqs, bits : SUBSET Bits]
           /\ WindowHonest'
  BY DEF SetWindow, Windows, Honest, WindowHonest

LEMMA OnRawKeeps ==
    ASSUME TopicTypeOK, WindowHonest, NEW s \in samples, OnRaw(s)
    PROVE  TopicTypeOK' /\ WindowHonest'
<1> USE DEF TopicTypeOK
<1>1. s \in Seqs /\ s \in Nat /\ 0 \in Bits
  BY TopicAssumption DEF Seqs, Bits
<1>2. ASSUME NEW u \in Windows, SetWindow(u), Honest(u, heard \cup {s}), heard' = heard \cup {s}
      PROVE  TopicTypeOK' /\ WindowHonest'
  BY <1>1, <1>2, WindowSet DEF OnRaw, publisherVars
<1>3. CASE first
  <2> DEFINE u == [Window EXCEPT !.last = s, !.bits = {0}]
  <2>1. u \in Windows /\ u.last = s /\ u.bits = {0}
    BY <1>1, WindowFits DEF Windows
  <2> HIDE DEF u
  <2>2. CheckLoss(u).last = s /\ CheckLoss(u).bits = {0}
    BY <2>1, CheckLossKeeps
  <2>3. Honest(CheckLoss(u), heard \cup {s})
    BY <1>1, <2>2 DEF Honest
  <2> QED
    BY <1>2, <1>3, <2>1, <2>3, CheckLossKeeps DEF OnRaw, u
<1>4. CASE ~first /\ Duplicate(s)
  BY <1>4 DEF OnRaw, WindowHonest, publisherVars
<1>5. CASE ~first /\ ~Duplicate(s) /\ s > last
  <2> DEFINE moved == MovedTo(Window, s)
             u == [moved EXCEPT !.bits = @ \cup {0}]
  <2>1. moved \in Windows /\ moved.last = s /\ Honest(moved, heard)
    BY <1>1, <1>5, WindowFits, MovedToKeeps, BitsAreNumbers DEF Window
  <2>2. u \in Windows /\ u.last = s /\ u.bits = moved.bits \cup {0}
    BY <1>1, <2>1 DEF Windows
  <2> HIDE DEF moved, u
  <2>3. CheckLoss(u).last = s /\ CheckLoss(u).bits = moved.bits \cup {0}
    BY <2>2, CheckLossKeeps
  <2>4. Honest(CheckLoss(u), heard \cup {s})
    BY <1>1, <2>1, <2>3 DEF Honest
  <2> QED
    BY <1>2, <1>5, <2>2, <2>4, CheckLossKeeps DEF OnRaw, moved, u
<1>6. CASE ~first /\ ~Duplicate(s) /\ ~(s > last)
  <2>1. Honest(CheckLoss(Window), heard \cup {s})
    BY WindowFits, CheckLossKeeps DEF Honest
  <2> QED
    BY <1>2, <1>6, <2>1, WindowFits, CheckLossKeeps DEF OnRaw
<1> QED
  BY <1>3, <1>4, <1>5, <1>6

LEMMA OnHeartbeatKeeps ==
    ASSUME TopicTypeOK, WindowHonest, NEW max \in beats, OnHeartbeat(max)
    PROVE  TopicTypeOK' /\ WindowHonest'
<1> USE DEF TopicTypeOK
<1>1. CASE max <= last
  <2>1. UNCHANGED <<publisherVars, samples, first, last, bitmap, nackBase, nacks, heard>>
    BY <1>1, BitsAreNumbers DEF OnHeartbeat
  <2>2. beats' \subseteq Seqs
    BY DEF OnHeartbeat
  <2> QED
    BY <2>1, <2>2 DEF WindowHonest, publisherVars
<1>2. CASE max > last
  <2> DEFINE k == (max - last) \div W
             u == MovedTo(Skipped(k), max)
  <2>1. max \in Nat /\ last \in Nat /\ max - last \in Nat /\ W \in Nat /\ W > 1
    BY <1>2, BitsAreNumbers
  <2>2. k \in Nat /\ last + k * W \in Nat /\ last + k * W <= max
    BY <2>1
  <2>3. last + k * W \in Seqs
    <3>1. max <= MaxSeq /\ MaxSeq \in Nat
      BY TopicAssumption DEF Seqs
    <3> HIDE DEF k
    <3> QED
      BY <2>1, <2>2, <3>1 DEF Seqs
  <2> HIDE DEF k
  <2>4. /\ Skipped(k) \in Windows /\ Skipped(k).last = last + k * W
        /\ Honest(Skipped(k), heard)
    BY <2>2, <2>3, SkippedKeeps
  <2>5. u \in Windows /\ Honest(u, heard)
    BY <2>1, <2>2, <2>4, MovedToKeeps
  <2>6. SetWindow(CheckLoss(u)) /\ heard' = heard
    BY <1>2, <2>1 DEF OnHeartbeat, k
  <2>7. CheckLoss(u) \in Windows /\ Honest(CheckLoss(u), heard')
    BY <2>5, <2>6, CheckLossKeeps DEF Honest
  <2> QED
    BY <2>6, <2>7, WindowSet DEF OnHeartbeat, publisherVars
<1> QED
  BY <1>1, <1>2, BitsAreNumbers

\* A step of the publisher or the transport leaves the subscription alone.
LEMMA OthersKeep ==
    ASSUME TopicTypeOK, WindowHonest, UNCHANGED <<first, last, bitmap, nackBase, heard>>
    PROVE  /\ WindowHonest'
           /\ (first \in BOOLEAN)' /\ (last \in Seqs)' /\ (bitmap \subseteq Bits)'
           /\ (nackBase \in Seqs)' /\ (heard \subseteq Seqs)'
  BY DEF TopicTypeOK, WindowHonest

LEMMA TopicStep ==
    TopicTypeOK /\ WindowHonest /\ [TopicNext]_topicVars => TopicTypeOK' /\ WindowHonest'
<1> SUFFICES ASSUME TopicTypeOK, WindowHonest, [TopicNext]_topicVars
             PROVE  TopicTypeOK' /\ WindowHonest'
  OBVIOUS
<1> USE DEF receiverVars
<1>1. ASSUME NEW t \in Writers, TakeSeq(t) PROVE TopicTypeOK' /\ WindowHonest'
  BY <1>1, OthersKeep, TopicAssumption DEF TakeSeq, TopicTypeOK, Seqs
<1>2. ASSUME NEW t \in Writers, Add(t) PROVE TopicTypeOK' /\ WindowHonest'
  <2>1. Kept(cache \cup {writerSeq[t]}, writerSeq[t]) \subseteq Seqs
    BY DEF Kept, TopicTypeOK
  <2> QED
    BY <1>2, <2>1, OthersKeep DEF Add, TopicTypeOK
<1>3. ASSUME NEW t \in Writers, SendSample(t) PROVE TopicTypeOK' /\ WindowHonest'
  BY <1>3, OthersKeep DEF SendSample, TopicTypeOK
<1>4. CASE SendHeartbeat
  BY <1>4, OthersKeep DEF SendHeartbeat, TopicTypeOK, publisherVars
<1>5. CASE Lose
  BY <1>5, OthersKeep DEF Lose, TopicTypeOK, publisherVars
<1>6. ASSUME NEW nack \in nacks, HandleNack(nack) PROVE TopicTypeOK' /\ WindowHonest'
  BY <1>6, OthersKeep DEF HandleNack, TopicTypeOK, publisherVars
<1>7. CASE UNCHANGED topicVars
  BY <1>7, OthersKeep DEF topicVars, publisherVars, TopicTypeOK
<1> QED
  BY <1>1, <1>2, <1>3, <1>4, <1>5, <1>6, <1>7, OnRawKeeps, OnHeartbeatKeeps DEF TopicNext

-----------------------------------------------------------------------------
(***************************************************************************)
(* The theorems.                                                           *)
(***************************************************************************)

LEMMA TopicStart == TopicInit => TopicTypeOK /\ WindowHonest
  BY TopicAssumption DEF TopicInit, TopicTypeOK, WindowHonest, Seqs

\* Numbers and bits stay within their bounds.
THEOREM TopicTyped == TopicSpec => []TopicTypeOK
  BY TopicStart, TopicStep, PTL DEF TopicSpec

\* Whatever is lost, overtaken or sent again, and whatever heartbeats skip, a
\* sample is dropped only if the callback has had it (on_raw, on_heartbeat).
THEOREM DropsOnlyDuplicates == TopicSpec => []WindowHonest
  BY TopicStart, TopicStep, PTL DEF TopicSpec

-----------------------------------------------------------------------------
(***************************************************************************)
(* HeartbeatFiles.                                                         *)
(***************************************************************************)

\* Where writeHeartbeatFile is, and of what: the temporary file that is about to
\* be renamed is whole, unless the disk has cut it short.
WritingFits ==
    /\ writeAt = "done" <=> writing = NoTarget
    /\ writeAt = "rename" /\ tmp[writing] = "part" => cutShort

FilesInv == FilesTypeOK /\ WritingFits /\ FileWhole

LEMMA FilesInvInit == FilesInit => FilesInv
<1> SUFFICES ASSUME FilesInit PROVE FilesInv
  OBVIOUS
<1>1. FilesTypeOK
  BY DEF FilesInit, AllOffline, NeverHeard, FilesTypeOK
<1> QED
  BY <1>1 DEF FilesInit, FilesInv, WritingFits, FileWhole

LEMMA FilesInvStep ==
    ASSUME NoTarget \notin Targets, FilesInv, [FilesNext]_fileVars
    PROVE  FilesInv'
<1> USE DEF FilesInv, FilesTypeOK, WritingFits, FileWhole
<1>1. CASE WriteData
  BY <1>1 DEF WriteData
<1>2. CASE Rename
  BY <1>2 DEF Rename
<1>3. CASE CrashCollector
  BY <1>3 DEF CrashCollector, AllOffline, NeverHeard
<1>4. CASE StartCollector
  BY <1>4 DEF StartCollector
<1>5. ASSUME NEW t \in Targets, BeatArrives(t) PROVE FilesInv'
  BY <1>5 DEF BeatArrives, Idle
<1>6. ASSUME NEW t \in Targets, CheckTimeout(t) PROVE FilesInv'
  BY <1>6 DEF CheckTimeout, Idle
<1>7. ASSUME NEW t \in Targets, FallSilent(t) PROVE FilesInv'
  BY <1>7 DEF FallSilent
<1>8. CASE UNCHANGED fileVars
  BY <1>8 DEF fileVars
<1> QED
  BY <1>1, <1>2, <1>3, <1>4, <1>5, <1>6, <1>7, <1>8 DEF FilesNext

\* A reader of a heartbeat file never sees half of one, although the collector
\* may die between any two steps and leave a temporary file behind, as long as
\* the disk cuts no write short.
THEOREM FilesWhole ==
    ASSUME NoTarget \notin Targets
    PROVE  FilesSpec => []FileWhole
<1>1. FilesInv => FileWhole
  BY DEF FilesInv
<1> QED
  BY FilesInvInit, FilesInvStep, <1>1, PTL DEF FilesSpec

-----------------------------------------------------------------------------
(***************************************************************************)
(* The sort.  The calls of dfs that are active form a path: each was made  *)
(* for something the one below it depends on, so that a set closed under   *)
(* the dependencies that holds the one holds the other.  A name that is    *)
(* behind nothing in the path can therefore not be waited for, which is    *)
(* what keeps a cycle from misplacing those that are not on it.            *)
(***************************************************************************)

Calls == Seq([name : Services, next : Nat])

Entered(calls) == {calls[i].name : i \in DOMAIN calls}

InOrder == {order[i] : i \in DOMAIN order}

\* An active call is for a key that is not in the order, made once, and has
\* visited the dependencies it has come past.
CallFits(call, seen) ==
    /\ call.name \in Keys /\ call.name \notin InOrder
    /\ call.next \in 1 .. Len(deps_[call.name]) + 1
    /\ \A k \in 1 .. call.next - 1 : deps_[call.name][k] \in seen

CallsPath(calls) ==
    \A i, j \in DOMAIN calls :
        /\ calls[i].name = calls[j].name => i = j
        /\ i < j => \A set \in SUBSET Services :
                        ClosedUnder(set) /\ calls[i].name \in set => calls[j].name \in set

CallsFit(calls, seen) ==
    /\ \A i \in DOMAIN calls : CallFits(calls[i], seen)
    /\ CallsPath(calls)

VisitedFit == visited \cap Keys = InOrder \cup Entered(dfsCalls)

OrderFits ==
    \A i \in DOMAIN order :
        /\ \A j \in DOMAIN order : order[i] = order[j] => i = j
        /\ \A m \in Keys : Behind(order[i], m) => \E j \in 1 .. i - 1 : order[j] = m

KeysFit ==
    /\ sorting = "yes" => Keys \subseteq keysLeft \cup visited
    /\ sorting = "no" => /\ visited = {} /\ keysLeft = {}
                         /\ dfsCalls = <<>> /\ order = <<>>
    /\ sorting = "done" => keysLeft = {} /\ dfsCalls = <<>> /\ Keys \subseteq visited

SortInv ==
    /\ DependencyTypeOK
    /\ CallsFit(dfsCalls, visited)
    /\ VisitedFit
    /\ OrderFits
    /\ KeysFit

\* The top of a sequence, and what is left without it.
LEMMA TopAndRest ==
    ASSUME NEW S, NEW s \in Seq(S), s # <<>>
    PROVE  /\ Len(s) \in Nat /\ Len(s) > 0 /\ DOMAIN s = 1 .. Len(s)
           /\ Len(s) \in DOMAIN s /\ s[Len(s)] \in S
           /\ SubSeq(s, 1, Len(s) - 1) \in Seq(S)
           /\ DOMAIN SubSeq(s, 1, Len(s) - 1) = 1 .. Len(s) - 1
           /\ \A i \in 1 .. Len(s) - 1 : SubSeq(s, 1, Len(s) - 1)[i] = s[i]
  OBVIOUS

LEMMA SortInvInit == DependencyInit => SortInv
<1> SUFFICES ASSUME DependencyInit PROVE SortInv
  OBVIOUS
<1> USE DEF DependencyInit
<1>1. DependencyTypeOK
  BY DEF DependencyTypeOK, Keys
<1>2. CallsFit(dfsCalls, visited) /\ VisitedFit /\ OrderFits /\ KeysFit
  BY DEF CallsFit, CallsPath, VisitedFit, OrderFits, KeysFit, InOrder, Entered, Keys
<1> QED
  BY <1>1, <1>2 DEF SortInv

\* A new table ends what an earlier sort has left.
LEMMA NewTableKeeps ==
    ASSUME SortInv, ForgetOrder,
           \/ \E table \in Tables : deps_' = table
           \/ \E name \in Services, deps \in DepLists :
                  deps_' = [n \in Keys \cup {name} |-> IF n = name THEN deps ELSE deps_[n]]
    PROVE  SortInv'
<1> USE DEF ForgetOrder
<1>1. DependencyTypeOK'
  <2>1. Keys' \subseteq Services /\ deps_' \in [Keys' -> DepLists]
    BY DependsAssumption DEF DependsAssumption, DependencyTypeOK, Keys, SortInv
  <2> QED
    BY <2>1 DEF DependencyTypeOK
<1>2. /\ CallsFit(dfsCalls, visited)' /\ VisitedFit' /\ OrderFits' /\ KeysFit'
  BY DEF CallsFit, CallsPath, VisitedFit, OrderFits, KeysFit, InOrder, Entered, Keys
<1> QED
  BY <1>1, <1>2 DEF SortInv

LEMMA SortKeeps ==
    ASSUME SortInv, Sort
    PROVE  SortInv'
<1> USE DEF Sort, SortInv
<1>1. DependencyTypeOK'
  BY DEF DependencyTypeOK, Keys
<1>2. dfsCalls' = <<>> /\ order' = <<>> /\ visited' = {} /\ Keys' = Keys
  BY DEF KeysFit, Keys
<1>3. CallsFit(dfsCalls, visited)' /\ VisitedFit' /\ OrderFits' /\ KeysFit'
  BY <1>2 DEF CallsFit, CallsPath, VisitedFit, OrderFits, KeysFit, InOrder, Entered
<1> QED
  BY <1>1, <1>3

\* What an action that leaves the table and the order alone does not touch.
LEMMA SameTable ==
    ASSUME UNCHANGED <<deps_, order>>
    PROVE  /\ Keys' = Keys /\ InOrder' = InOrder
           /\ \A set : ClosedUnder(set)' = ClosedUnder(set)
           /\ \A n, m : Behind(n, m)' = Behind(n, m)
           /\ OrderFits' = OrderFits
           /\ \A call, seen : CallFits(call, seen)' = CallFits(call, seen)
           /\ \A calls, seen : CallsFit(calls, seen)' = CallsFit(calls, seen)
<1>1. Keys' = Keys /\ InOrder' = InOrder
  BY DEF Keys, InOrder
<1>2. \A n, m : DependsOn(n, m)' = DependsOn(n, m)
  BY <1>1 DEF DependsOn
<1>3. \A set : ClosedUnder(set)' = ClosedUnder(set)
  BY <1>2 DEF ClosedUnder
<1>4. \A n, m : Behind(n, m)' = Behind(n, m)
  BY <1>2, <1>3 DEF Behind
<1>5. OrderFits' = OrderFits
  BY <1>1, <1>4 DEF OrderFits
<1>6. \A call, seen : CallFits(call, seen)' = CallFits(call, seen)
  BY <1>1 DEF CallFits
<1>7. \A calls : CallsPath(calls)' = CallsPath(calls)
  BY <1>3 DEF CallsPath
<1>8. \A calls, seen : CallsFit(calls, seen)' = CallsFit(calls, seen)
  BY <1>6, <1>7 DEF CallsFit
<1> QED
  BY <1>1, <1>3, <1>4, <1>5, <1>6, <1>8

LEMMA SortReturnsKeeps ==
    ASSUME SortInv, SortReturns
    PROVE  SortInv'
<1> USE DEF SortReturns, SortInv
<1>1. DependencyTypeOK'
  BY DEF DependencyTypeOK, Keys
<1>2. CallsFit(dfsCalls, visited)' /\ OrderFits'
  BY SameTable
<1>3. VisitedFit' /\ KeysFit'
  BY DEF VisitedFit, KeysFit, InOrder, Entered, Keys
<1> QED
  BY <1>1, <1>2, <1>3

\* A call of dfs keeps the invariant, wherever it is made.
LEMMA CallDfsKeeps ==
    ASSUME SortInv, sorting = "yes",
           NEW name \in Services, NEW calls \in Calls,
           CallsFit(calls, visited \cup {name}), Entered(calls) = Entered(dfsCalls),
           calls # <<>> => DependsOn(calls[Len(calls)].name, name),
           CallDfs(name, calls), UNCHANGED <<deps_, sorting>>,
           keysLeft' \subseteq keysLeft, keysLeft \subseteq keysLeft' \cup {name}
    PROVE  SortInv'
<1> DEFINE pushed == Append(calls, [name |-> name, next |-> 1])
<1>1. UNCHANGED <<deps_, order>> /\ Keys' = Keys /\ InOrder' = InOrder
  BY SameTable DEF CallDfs
<1>2. visited' = visited \cup {name}
  BY DEF CallDfs
<1>3. pushed \in Calls
  BY DEF Calls
<1>4. dfsCalls' \in Calls
  BY <1>3 DEF CallDfs
<1>5. DependencyTypeOK'
  BY <1>1, <1>2, <1>4 DEF SortInv, DependencyTypeOK, Calls
<1>6. OrderFits'
  BY <1>1, SameTable DEF SortInv
<1>7. KeysFit'
  BY <1>1, <1>2 DEF SortInv, KeysFit
<1>8. CASE name \in visited \/ name \notin Keys
  <2>1. dfsCalls' = calls
    BY <1>8 DEF CallDfs
  <2>2. CallsFit(dfsCalls, visited)'
    BY <2>1, <1>1, <1>2, SameTable
  <2>3. VisitedFit'
    BY <2>1, <1>1, <1>2, <1>8 DEF SortInv, VisitedFit, Entered
  <2> QED
    BY <2>2, <2>3, <1>5, <1>6, <1>7 DEF SortInv
<1>9. CASE name \notin visited /\ name \in Keys
  <2>1. dfsCalls' = pushed /\ Len(pushed) = Len(calls) + 1 /\ DOMAIN pushed = 1 .. Len(calls) + 1
        /\ DOMAIN calls = 1 .. Len(calls) /\ Len(calls) \in Nat
    BY <1>9 DEF CallDfs, Calls
  <2>2. /\ \A i \in DOMAIN calls : pushed[i] = calls[i]
        /\ pushed[Len(calls) + 1] = [name |-> name, next |-> 1]
    BY <2>1 DEF Calls
  <2>3. name \notin InOrder /\ name \notin Entered(calls)
    BY <1>9 DEF SortInv, VisitedFit
  <2>4. Entered(pushed) = Entered(calls) \cup {name}
    BY <2>1, <2>2 DEF Entered
  <2>5. VisitedFit'
    <3>1. Entered(dfsCalls)' = Entered(pushed)
      BY <2>1 DEF Entered
    <3>2. visited' \cap Keys = (visited \cap Keys) \cup {name}
      BY <1>2, <1>9
    <3> HIDE DEF pushed
    <3> QED
      BY <3>1, <3>2, <2>4, <1>1 DEF SortInv, VisitedFit
  <2>6. deps_[name] \in DepLists
    BY <1>9 DEF SortInv, DependencyTypeOK
  <2>7. Len(deps_[name]) \in Nat
    BY <2>6, DependsAssumption DEF DependsAssumption
  <2>8. CallFits([name |-> name, next |-> 1], visited \cup {name})
    BY <2>3, <2>7, <1>9 DEF CallFits
  <2>9. \A i \in DOMAIN pushed : CallFits(pushed[i], visited \cup {name})
    <3>1. \A i \in DOMAIN calls : CallFits(calls[i], visited \cup {name})
      BY DEF CallsFit
    <3>2. \A i \in DOMAIN pushed : i \in DOMAIN calls \/ i = Len(calls) + 1
      BY <2>1
    <3> HIDE DEF pushed
    <3> QED
      BY <3>1, <3>2, <2>2, <2>8
  <2>10. CallsPath(pushed)
    <3> SUFFICES ASSUME NEW i \in DOMAIN pushed, NEW j \in DOMAIN pushed
                 PROVE  /\ pushed[i].name = pushed[j].name => i = j
                        /\ i < j => \A set \in SUBSET Services :
                               ClosedUnder(set) /\ pushed[i].name \in set
                                   => pushed[j].name \in set
      BY DEF CallsPath
    <3>1. CASE i \in DOMAIN calls /\ j \in DOMAIN calls
      BY <3>1, <2>2 DEF CallsFit, CallsPath
    <3>2. CASE i \notin DOMAIN calls
      BY <3>2, <2>1, <2>2, <2>3 DEF Entered
    <3>3. CASE i \in DOMAIN calls /\ j \notin DOMAIN calls
      <4>1. j = Len(calls) + 1 /\ pushed[j].name = name /\ pushed[i].name = calls[i].name
        BY <3>3, <2>1, <2>2
      <4>2. calls[i].name # name
        BY <3>3, <2>3 DEF Entered
      <4>3. ASSUME NEW set \in SUBSET Services, ClosedUnder(set), calls[i].name \in set
            PROVE  name \in set
        <5>1. Len(calls) \in DOMAIN calls /\ i <= Len(calls) /\ calls # <<>>
          BY <3>3, <2>1
        <5>2. calls[Len(calls)].name \in set
          <6>1. CASE i = Len(calls)
            BY <6>1, <4>3
          <6>2. CASE i < Len(calls)
            BY <6>2, <5>1, <4>3, <3>3 DEF CallsFit, CallsPath
          <6> QED
            BY <6>1, <6>2, <5>1, <2>1
        <5> QED
          BY <5>1, <5>2, <4>3 DEF ClosedUnder
      <4> QED
        BY <4>1, <4>2, <4>3
    <3> QED
      BY <3>1, <3>2, <3>3
  <2>11. CallsFit(pushed, visited \cup {name})
    BY <2>9, <2>10 DEF CallsFit
  <2>12. CallsFit(dfsCalls, visited)'
    BY <2>1, <2>11, <1>1, <1>2, SameTable
  <2> QED
    BY <2>5, <2>12, <1>5, <1>6, <1>7 DEF SortInv
<1> QED
  BY <1>8, <1>9

LEMMA NextKeyKeeps ==
    ASSUME SortInv, NextKey
    PROVE  SortInv'
<1>1. PICK name \in keysLeft : /\ dfsCalls = <<>>
                               /\ keysLeft' = keysLeft \ {name}
                               /\ CallDfs(name, dfsCalls)
                               /\ UNCHANGED <<deps_, sorting>>
  BY DEF NextKey
<1>2. name \in Services /\ dfsCalls \in Calls
  BY <1>1 DEF SortInv, DependencyTypeOK, Calls
<1>3. sorting = "yes"
  BY <1>1 DEF SortInv, DependencyTypeOK, KeysFit
<1>4. CallsFit(dfsCalls, visited \cup {name})
  BY <1>1 DEF CallsFit, CallsPath
<1> QED
  BY <1>1, <1>2, <1>3, <1>4, CallDfsKeeps

LEMMA NextDependencyKeeps ==
    ASSUME SortInv, NextDependency
    PROVE  SortInv'
<1> DEFINE L == Len(dfsCalls)
           top == dfsCalls[L]
           name == deps_[top.name][top.next]
           calls == [dfsCalls EXCEPT ![L].next = @ + 1]
<1>1. dfsCalls \in Calls /\ dfsCalls # <<>>
  BY DEF NextDependency, SortInv, DependencyTypeOK, Calls
<1>2. dfsCalls \in Calls /\ L \in Nat /\ L > 0 /\ L \in DOMAIN dfsCalls
      /\ DOMAIN dfsCalls = 1 .. L
  BY <1>1 DEF Calls
<1>3. CallFits(top, visited) /\ top \in [name : Services, next : Nat]
  <2>1. top \in [name : Services, next : Nat]
    BY <1>1, TopAndRest DEF Calls
  <2>2. \A i \in DOMAIN dfsCalls : CallFits(dfsCalls[i], visited)
    BY DEF SortInv, CallsFit
  <2> QED
    BY <2>1, <2>2, <1>2
<1>4. deps_[top.name] \in DepLists /\ top.name \in Keys
  BY <1>3 DEF SortInv, DependencyTypeOK, CallFits
<1>5. deps_[top.name] \in Seq(Services)
  BY <1>4, DependsAssumption DEF DependsAssumption
<1>6. top.next \in DOMAIN deps_[top.name] /\ top.next \in Nat
  BY <1>3, <1>5 DEF NextDependency, TopCall, CallFits
<1>7. name \in Services
  BY <1>5, <1>6
<1>8. DependsOn(top.name, name)
  BY <1>4, <1>6 DEF DependsOn
<1>9. calls \in Calls /\ Len(calls) = L /\ DOMAIN calls = DOMAIN dfsCalls
  BY <1>2, <1>3 DEF Calls
<1>10. /\ calls[L] = [name |-> top.name, next |-> top.next + 1]
       /\ \A i \in DOMAIN dfsCalls : /\ calls[i].name = dfsCalls[i].name
                                     /\ i # L => calls[i] = dfsCalls[i]
  BY <1>2, <1>3 DEF Calls
<1>11. Entered(calls) = Entered(dfsCalls)
  BY <1>9, <1>10 DEF Entered
<1>12. CallsPath(calls)
  BY <1>9, <1>10 DEF SortInv, CallsFit, CallsPath
<1>13. ASSUME NEW i \in DOMAIN calls PROVE CallFits(calls[i], visited \cup {name})
  <2>1. CASE i # L
    BY <2>1, <1>9, <1>10 DEF SortInv, CallsFit, CallFits
  <2>2. CASE i = L
    <3>1. top.next + 1 \in 1 .. Len(deps_[top.name]) + 1
      BY <1>5, <1>6
    <3>2. ASSUME NEW k \in 1 .. top.next PROVE deps_[top.name][k] \in visited \cup {name}
      BY <1>3, <1>6 DEF CallFits
    <3>3. (top.next + 1) - 1 = top.next
      BY <1>6
    <3> QED
      BY <3>1, <3>2, <3>3, <2>2, <1>3, <1>10 DEF CallFits
  <2> QED
    BY <2>1, <2>2
<1>14. CallsFit(calls, visited \cup {name})
  BY <1>12, <1>13 DEF CallsFit
<1>15. sorting = "yes"
  BY <1>2 DEF SortInv, DependencyTypeOK, KeysFit
<1>16. CallDfs(name, calls) /\ UNCHANGED <<deps_, sorting, keysLeft>>
  BY DEF NextDependency, TopCall
<1>17. DependsOn(calls[Len(calls)].name, name)
  BY <1>8, <1>9, <1>10
<1> HIDE DEF name, calls
<1> QED
  BY <1>7, <1>9, <1>11, <1>14, <1>15, <1>16, <1>17, CallDfsKeeps

\* A name goes into the order when all it depends on has been visited: that is in
\* the order too, or it is in the path, and depends on the name in turn.
LEMMA FinishKeeps ==
    ASSUME SortInv, Finish
    PROVE  SortInv'
<1> DEFINE L == Len(dfsCalls)
           n == dfsCalls[L].name
           rest == SubSeq(dfsCalls, 1, L - 1)
<1>1. dfsCalls \in Calls /\ dfsCalls # <<>> /\ order \in Seq(Services)
  BY DEF Finish, SortInv, DependencyTypeOK, Calls
<1>2. L \in Nat /\ L > 0 /\ L \in DOMAIN dfsCalls /\ DOMAIN dfsCalls = 1 .. L
  BY <1>1 DEF Calls
<1>3. \A i \in DOMAIN dfsCalls : CallFits(dfsCalls[i], visited)
  BY DEF SortInv, CallsFit
<1>4. CallFits(dfsCalls[L], visited) /\ dfsCalls[L] \in [name : Services, next : Nat]
  <2>1. dfsCalls[L] \in [name : Services, next : Nat]
    BY <1>1, TopAndRest DEF Calls
  <2> QED
    BY <2>1, <1>2, <1>3
<1>5. n \in Services /\ n \in Keys /\ n \notin InOrder
  BY <1>4 DEF CallFits
<1>6. deps_[n] \in Seq(Services)
  <2>1. deps_[n] \in DepLists
    BY <1>5 DEF SortInv, DependencyTypeOK
  <2> QED
    BY <2>1, DependsAssumption DEF DependsAssumption
<1>7. \A k \in DOMAIN deps_[n] : deps_[n][k] \in visited
  <2>1. dfsCalls[L].next = Len(deps_[n]) + 1
    BY <1>4, <1>6 DEF Finish, TopCall, CallFits
  <2>2. Len(deps_[n]) \in Nat /\ DOMAIN deps_[n] = 1 .. Len(deps_[n])
    BY <1>6
  <2>3. dfsCalls[L].next - 1 = Len(deps_[n])
    BY <2>1, <2>2
  <2> QED
    BY <2>2, <2>3, <1>4 DEF CallFits
<1>8. /\ Len(order) \in Nat /\ DOMAIN order = 1 .. Len(order)
      /\ order' = Append(order, n) /\ order' \in Seq(Services)
      /\ DOMAIN order' = 1 .. Len(order) + 1
      /\ order'[Len(order) + 1] = n
      /\ \A i \in 1 .. Len(order) : order'[i] = order[i]
  BY <1>1, <1>5 DEF Finish, TopCall
<1>9. InOrder' = InOrder \cup {n}
  BY <1>8 DEF InOrder
<1>10. /\ dfsCalls' = rest /\ rest \in Calls /\ DOMAIN rest = 1 .. L - 1
       /\ \A i \in 1 .. L - 1 : rest[i] = dfsCalls[i]
  BY <1>1, TopAndRest DEF Finish, Calls
<1>11. UNCHANGED <<deps_, sorting, keysLeft, visited>> /\ Keys' = Keys
  BY DEF Finish, Keys
<1>12. \A i \in 1 .. L - 1 : dfsCalls[i].name # n
  BY <1>2 DEF SortInv, CallsFit, CallsPath
<1>13. Entered(rest) = Entered(dfsCalls) \ {n}
  <2>1. \A i \in DOMAIN dfsCalls : i \in 1 .. L - 1 \/ i = L
    BY <1>2
  <2>2. \A i \in 1 .. L - 1 : i \in DOMAIN dfsCalls
    BY <1>2
  <2> HIDE DEF rest
  <2> QED
    BY <2>1, <2>2, <1>10, <1>12 DEF Entered
<1>14. n \in Entered(dfsCalls)
  BY <1>2 DEF Entered
<1> HIDE DEF n, rest, L
<1>15. DependencyTypeOK'
  BY <1>8, <1>10, <1>11 DEF SortInv, DependencyTypeOK, Calls
<1>16. VisitedFit'
  <2>1. Entered(dfsCalls)' = Entered(rest)
    BY <1>10 DEF Entered
  <2> QED
    BY <2>1, <1>9, <1>11, <1>13, <1>14 DEF SortInv, VisitedFit
<1>17. \A set : ClosedUnder(set)' = ClosedUnder(set)
  BY <1>11 DEF ClosedUnder, DependsOn
<1>18. CallsFit(dfsCalls, visited)'
  <2>1. ASSUME NEW i \in 1 .. L - 1 PROVE CallFits(dfsCalls[i], visited)'
    <3>1. CallFits(dfsCalls[i], visited) /\ dfsCalls[i].name # n
      BY <1>2, <1>3, <1>12
    <3>2. dfsCalls'[i] = dfsCalls[i]
      BY <1>10
    <3> QED
      BY <3>1, <3>2, <1>9, <1>11 DEF CallFits
  <2>2. CallsPath(rest)
    <3>1. CallsPath(dfsCalls) /\ DOMAIN rest \subseteq DOMAIN dfsCalls
      BY <1>2, <1>10 DEF SortInv, CallsFit
    <3> QED
      BY <3>1, <1>10 DEF CallsPath
  <2>3. CallsPath(dfsCalls)'
    BY <2>2, <1>10, <1>17 DEF CallsPath
  <2>4. DOMAIN dfsCalls' = 1 .. L - 1
    BY <1>10
  <2> QED
    BY <2>1, <2>3, <2>4 DEF CallsFit
<1>19. \A i, m : Behind(i, m)' = Behind(i, m)
  BY <1>11, <1>17 DEF Behind, DependsOn
<1>20. ASSUME NEW m \in Keys, Behind(n, m) PROVE m \in InOrder
  <2>1. PICK set \in SUBSET Services : ClosedUnder(set) /\ m \in set /\ n \notin set
    BY <1>20 DEF Behind
  <2>2. m \in visited
    BY <1>7, <1>20 DEF Behind, DependsOn
  <2>3. ASSUME m \in Entered(dfsCalls) PROVE FALSE
    <3>1. PICK p \in DOMAIN dfsCalls : dfsCalls[p].name = m
      BY <2>3 DEF Entered
    <3>2. p = L \/ p < L
      BY <1>2
    <3>3. n \in set
      BY <3>1, <3>2, <2>1, <1>2 DEF SortInv, CallsFit, CallsPath, n
    <3> QED
      BY <3>3, <2>1
  <2> QED
    BY <2>2, <2>3 DEF SortInv, VisitedFit
<1>21. OrderFits'
  <2>1. ASSUME NEW i \in 1 .. Len(order) + 1, NEW j \in 1 .. Len(order) + 1,
               order'[i] = order'[j]
        PROVE  i = j
    BY <2>1, <1>5, <1>8 DEF SortInv, OrderFits, InOrder
  <2>2. ASSUME NEW i \in 1 .. Len(order) + 1, NEW m \in Keys, Behind(order'[i], m)
        PROVE  \E j \in 1 .. i - 1 : order'[j] = m
    <3>1. CASE i \in 1 .. Len(order)
      <4>1. PICK j \in 1 .. i - 1 : order[j] = m
        BY <3>1, <2>2, <1>8 DEF SortInv, OrderFits
      <4> QED
        BY <4>1, <3>1, <1>8
    <3>2. CASE i = Len(order) + 1
      <4>1. PICK j \in DOMAIN order : order[j] = m
        BY <3>2, <2>2, <1>8, <1>20 DEF InOrder
      <4> QED
        BY <4>1, <3>2, <1>8
    <3> QED
      BY <3>1, <3>2, <1>8
  <2> QED
    BY <2>1, <2>2, <1>8, <1>11, <1>19 DEF OrderFits
<1>22. sorting = "yes"
  BY <1>1 DEF SortInv, KeysFit, DependencyTypeOK
<1>23. KeysFit'
  BY <1>11, <1>22 DEF SortInv, KeysFit
<1> QED
  BY <1>15, <1>16, <1>18, <1>21, <1>23 DEF SortInv

LEMMA SortInvStep ==
    ASSUME SortInv, [DependencyNext]_dependencyVars
    PROVE  SortInv'
<1>1. CASE UNCHANGED dependencyVars
  <2> USE <1>1 DEF dependencyVars, SortInv
  <2>1. DependencyTypeOK'
    BY DEF DependencyTypeOK, Keys
  <2>2. CallsFit(dfsCalls, visited)' /\ OrderFits'
    BY SameTable
  <2>3. VisitedFit' /\ KeysFit'
    BY DEF VisitedFit, KeysFit, InOrder, Entered, Keys
  <2> QED
    BY <2>1, <2>2, <2>3
<1>2. CASE DependencyNext
  BY <1>2, NewTableKeeps, SortKeeps, NextKeyKeeps, NextDependencyKeeps, FinishKeeps,
     SortReturnsKeeps DEF DependencyNext, SetDependencies, AddDependency
<1> QED
  BY <1>1, <1>2

LEMMA SortInvHolds == DependencySpec => []SortInv
  BY SortInvInit, SortInvStep, PTL DEF DependencySpec

\* The state of the manager and of a sort under way is well typed: what it visits,
\* orders and has still to come to are names it was given (DependencyManager, sort).
THEOREM OrderTyped == DependencySpec => []DependencyTypeOK
<1>1. SortInv => DependencyTypeOK
  BY DEF SortInv
<1> QED
  BY <1>1, SortInvHolds, PTL

\* Whatever the table of dependencies and the order its keys come in, a sort
\* that has returned has every key once, each after the keys it is behind, and
\* the stop order is the other way about (sort, resolve_stop_order).
THEOREM SortOrders == DependencySpec => []OrderRespectsDeps
<1>1. ASSUME SortInv, sorting = "done" PROVE OrderRespectsDeps
  <2> DEFINE N == Len(order)
             stop == ResolveStopOrder
  <2>1. order \in Seq(Services) /\ N \in Nat /\ DOMAIN order = 1 .. N
    BY <1>1 DEF SortInv, DependencyTypeOK
  <2>2. InOrder = Keys
    <3>1. Entered(dfsCalls) = {} /\ Keys \subseteq visited
      BY <1>1 DEF SortInv, KeysFit, Entered
    <3> QED
      BY <3>1, <1>1 DEF SortInv, VisitedFit
  <2>3. \A i, j \in 1 .. N : order[i] = order[j] => i = j
    BY <2>1, <1>1 DEF SortInv, OrderFits
  <2>4. ASSUME NEW i \in 1 .. N, NEW j \in 1 .. N, Behind(order[i], order[j])
        PROVE  j < i
    <3>1. order[j] \in Keys
      BY <2>1, <2>2 DEF InOrder
    <3>2. PICK k \in 1 .. i - 1 : order[k] = order[j]
      BY <3>1, <2>1, <2>4, <1>1 DEF SortInv, OrderFits
    <3>3. k \in 1 .. N
      BY <2>1
    <3>4. k = j
      BY <3>2, <3>3, <2>3
    <3> QED
      BY <3>4
  <2>5. DOMAIN stop = 1 .. N /\ \A i \in 1 .. N : stop[i] = order[N + 1 - i]
    BY <2>1 DEF ResolveStopOrder
  <2>6. \A i \in 1 .. N : N + 1 - i \in 1 .. N /\ stop[N + 1 - i] = order[i]
    BY <2>1, <2>5
  <2>7. {stop[i] : i \in 1 .. N} = InOrder
    BY <2>1, <2>5, <2>6 DEF InOrder
  <2>8. \A i, j \in 1 .. N : stop[i] = stop[j] => i = j
    <3> TAKE i \in 1 .. N, j \in 1 .. N
    <3>1. order[N + 1 - i] = order[N + 1 - j] => N + 1 - i = N + 1 - j
      BY <2>3, <2>6
    <3> QED
      BY <3>1, <2>1, <2>5
  <2>9. \A i, j \in 1 .. N : Behind(stop[i], stop[j]) => i < j
    <3> TAKE i \in 1 .. N, j \in 1 .. N
    <3>1. Behind(order[N + 1 - i], order[N + 1 - j]) => N + 1 - j < N + 1 - i
      BY <2>4, <2>6
    <3> QED
      BY <3>1, <2>1, <2>5
  <2>10. {order[i] : i \in DOMAIN order} = Keys /\ {stop[i] : i \in DOMAIN stop} = Keys
    BY <2>1, <2>2, <2>5, <2>7 DEF InOrder
  <2>11. \A i, j \in DOMAIN order :
            /\ Behind(order[i], order[j]) => j < i
            /\ Behind(stop[i], stop[j]) => i < j
    BY <2>1, <2>4, <2>9
  <2>12. /\ \A i, j \in DOMAIN order : order[i] = order[j] => i = j
         /\ \A i, j \in DOMAIN stop : stop[i] = stop[j] => i = j
    BY <2>1, <2>3, <2>5, <2>8
  <2> HIDE DEF stop, N
  <2>13. \A names \in {order, stop} :
            /\ {names[i] : i \in DOMAIN names} = Keys
            /\ \A i, j \in DOMAIN names : names[i] = names[j] => i = j
    BY <2>10, <2>12
  <2> QED
    BY <2>11, <2>13 DEF OrderRespectsDeps, ResolveStartOrder, stop
<1>2. SortInv => OrderRespectsDeps
  BY <1>1 DEF OrderRespectsDeps
<1> QED
  BY <1>2, SortInvHolds, PTL

-----------------------------------------------------------------------------
(***************************************************************************)
(* The joystick's frames.                                                  *)
(***************************************************************************)

LineBytes == 0 .. 255

Streams == INSTANCE FrameStreams WITH B <- LineBytes

\* calcCRC16 returns what fits into the two bytes of the frame, which are one here.
ChecksumFits == \A s \in Seq(LineBytes) : Checksum(s) \in LineBytes

\* What has a place in a frame: counts within the bounds.
Counted(c) ==
    /\ c \in JoyFrame
    /\ Len(c.axes) \in 1 .. MaxAxes /\ Len(c.buttons) <= MaxBtns

LEMMA CountedIs ==
    ASSUME NEW c, Counted(c)
    PROVE  /\ c.axes \in Seq(LineBytes) /\ Len(c.axes) \in Nat /\ Len(c.axes) >= 1
           /\ Len(c.axes) <= MaxAxes /\ Len(c.axes) \in LineBytes
           /\ c.buttons \in Seq(LineBytes) /\ Len(c.buttons) \in Nat
           /\ \A i \in 1 .. Len(c.buttons) : c.buttons[i] \in {0, 1}
           /\ Len(c.buttons) <= MaxBtns /\ Len(c.buttons) \in LineBytes
           /\ c = [axes |-> c.axes, buttons |-> c.buttons]
<1>1. c.axes \in Seq(LineBytes) /\ c.buttons \in Seq({0, 1})
      /\ c = [axes |-> c.axes, buttons |-> c.buttons]
  BY DEF Counted, JoyFrame, LineBytes
<1>2. Len(c.axes) \in Nat /\ Len(c.buttons) \in Nat
  BY <1>1
<1>3. Len(c.axes) \in LineBytes /\ Len(c.buttons) \in LineBytes
  <2> DEFINE a == Len(c.axes)
             n == Len(c.buttons)
  <2>1. a \in Nat /\ n \in Nat /\ a <= MaxAxes /\ n <= MaxBtns
    BY <1>2, SerialAssumption DEF Counted, SerialAssumption
  <2> HIDE DEF a, n
  <2>2. a \in LineBytes /\ n \in LineBytes
    BY <2>1, SerialAssumption DEF SerialAssumption, LineBytes
  <2> QED
    BY <2>2 DEF a, n
<1>4. c.buttons \in Seq(LineBytes) /\ \A i \in 1 .. Len(c.buttons) : c.buttons[i] \in {0, 1}
  BY <1>1 DEF LineBytes
<1> QED
  BY <1>1, <1>2, <1>3, <1>4 DEF Counted

\* A sequence and one element more.
LEMMA OneByteMore ==
    ASSUME NEW s \in Seq(LineBytes), NEW x \in LineBytes
    PROVE  /\ s \o <<x>> \in Seq(LineBytes) /\ Len(s \o <<x>>) = Len(s) + 1
           /\ \A i \in 1 .. Len(s) : (s \o <<x>>)[i] = s[i]
           /\ (s \o <<x>>)[Len(s) + 1] = x
<1> DEFINE e == <<x>>
<1>1. e \in Seq(LineBytes) /\ Len(e) = 1 /\ e[1] = x
  OBVIOUS
<1> HIDE DEF e
<1>2. /\ s \o e \in Seq(LineBytes) /\ Len(s \o e) = Len(s) + Len(e)
      /\ \A i \in 1 .. Len(s) : (s \o e)[i] = s[i]
      /\ \A i \in 1 .. Len(e) : (s \o e)[Len(s) + i] = e[i]
  BY <1>1, Streams!Joined, Zenon
<1>3. (s \o e)[Len(s) + 1] = x
  BY <1>1, <1>2
<1> QED
  BY <1>1, <1>2, <1>3 DEF e

\* What the contents of a frame have at which place.
LEMMA ContentIs ==
    ASSUME NEW c, Counted(c)
    PROVE  LET a == Len(c.axes)
               n == Len(c.buttons)
               s == Content(c) IN
           /\ s \in Seq(LineBytes) /\ Len(s) = a + n + 2
           /\ s[1] = a /\ \A i \in 1 .. a : s[1 + i] = c.axes[i]
           /\ s[2 + a] = n /\ \A i \in 1 .. n : s[(2 + a) + i] = c.buttons[i]
<1> DEFINE a == Len(c.axes)
           n == Len(c.buttons)
           h == <<a>>
           p == h \o c.axes
           q == p \o <<n>>
           s == q \o c.buttons
<1>1. /\ c.axes \in Seq(LineBytes) /\ a \in Nat /\ a \in LineBytes
      /\ c.buttons \in Seq(LineBytes) /\ n \in Nat /\ n \in LineBytes
  BY CountedIs
<1>2. Content(c) = s
  BY DEF Content
<1>3. h \in Seq(LineBytes) /\ Len(h) = 1 /\ h[1] = a
  BY <1>1
<1> HIDE DEF h, a, n
<1>4. /\ p \in Seq(LineBytes) /\ Len(p) = Len(h) + Len(c.axes)
      /\ \A i \in 1 .. Len(h) : p[i] = h[i]
      /\ \A i \in 1 .. Len(c.axes) : p[Len(h) + i] = c.axes[i]
  BY <1>1, <1>3, Streams!Joined, Zenon
<1> HIDE DEF p
<1>5. Len(p) = 1 + a /\ p[1] = a /\ \A i \in 1 .. a : p[1 + i] = c.axes[i]
  BY <1>1, <1>3, <1>4 DEF a
<1>6. /\ q \in Seq(LineBytes) /\ Len(q) = Len(p) + 1
      /\ \A i \in 1 .. Len(p) : q[i] = p[i]
      /\ q[Len(p) + 1] = n
  BY <1>1, <1>4, OneByteMore, Zenon
<1> HIDE DEF q
<1>7. /\ Len(q) = 2 + a /\ q[1] = a /\ q[2 + a] = n
      /\ \A i \in 1 .. a : q[1 + i] = c.axes[i]
  BY <1>1, <1>5, <1>6
<1>8. /\ s \in Seq(LineBytes) /\ Len(s) = Len(q) + Len(c.buttons)
      /\ \A i \in 1 .. Len(q) : s[i] = q[i]
      /\ \A i \in 1 .. Len(c.buttons) : s[Len(q) + i] = c.buttons[i]
  BY <1>1, <1>6, Streams!Joined, Zenon
<1> HIDE DEF s
<1>9. /\ Len(s) = (2 + a) + n
      /\ \A i \in 1 .. 2 + a : s[i] = q[i]
      /\ \A i \in 1 .. n : s[(2 + a) + i] = c.buttons[i]
  BY <1>7, <1>8 DEF n
<1>10. /\ Len(s) = a + n + 2 /\ s[1] = a /\ s[2 + a] = n
       /\ \A i \in 1 .. a : s[1 + i] = c.axes[i]
       /\ \A i \in 1 .. n : s[(2 + a) + i] = c.buttons[i]
  BY <1>1, <1>7, <1>9
<1> QED
  BY <1>2, <1>8, <1>10 DEF a, n

LEMMA JoyWireIs ==
    ASSUME ChecksumFits, NEW c, Counted(c)
    PROVE  LET m == Len(Content(c))
               w == Wire(c) IN
           /\ Content(c) \in Seq(LineBytes) /\ m \in Nat
           /\ w \in Seq(LineBytes) /\ Len(w) = m + 3
           /\ w[1] = 170 /\ w[2] = 85 /\ w[m + 3] = Checksum(Content(c))
           /\ \A i \in 1 .. m : w[2 + i] = Content(c)[i]
<1> DEFINE s == Content(c)
           m == Len(s)
           k == Checksum(s)
           h == SOF \o s
           w == h \o <<k>>
<1>1. s \in Seq(LineBytes)
  BY ContentIs
<1>2. k \in LineBytes
  BY <1>1 DEF ChecksumFits
<1>3. Wire(c) = w
  BY DEF Wire
<1>4. SOF \in Seq(LineBytes) /\ Len(SOF) = 2 /\ SOF[1] = 170 /\ SOF[2] = 85
  BY DEF SOF, LineBytes
<1> HIDE DEF s, k
<1>5. m \in Nat /\ SOF \in Seq(LineBytes)
  BY <1>1, <1>4
<1>6. /\ h \in Seq(LineBytes) /\ Len(h) = Len(SOF) + Len(s)
      /\ \A i \in 1 .. Len(SOF) : h[i] = SOF[i]
      /\ \A i \in 1 .. Len(s) : h[Len(SOF) + i] = s[i]
  BY <1>1, <1>5, Streams!Joined, Zenon
<1> HIDE DEF h
<1>7. /\ Len(h) = m + 2 /\ h[1] = 170 /\ h[2] = 85
      /\ \A i \in 1 .. m : h[2 + i] = s[i]
  BY <1>4, <1>5, <1>6
<1>8. /\ w \in Seq(LineBytes) /\ Len(w) = Len(h) + 1
      /\ \A i \in 1 .. Len(h) : w[i] = h[i]
      /\ w[Len(h) + 1] = k
  BY <1>2, <1>6, OneByteMore, Zenon
<1> HIDE DEF w
<1>9. /\ Len(w) = m + 3 /\ w[1] = 170 /\ w[2] = 85 /\ w[m + 3] = k
      /\ \A i \in 1 .. m : w[2 + i] = s[i]
  BY <1>5, <1>7, <1>8
<1> QED
  BY <1>1, <1>3, <1>5, <1>8, <1>9 DEF s, k, m

-----------------------------------------------------------------------------
(***************************************************************************)
(* What tryParseFrame finds at the beginning of a frame.                   *)
(***************************************************************************)

\* A buffer that begins with a start, or holds less than one, is kept as it is.
LEMMA SyncedAtStart ==
    ASSUME rx_buf \in Seq(LineBytes), Len(rx_buf) >= 2 => rx_buf[1] = 170 /\ rx_buf[2] = 85
    PROVE  Synced = rx_buf
<1> DEFINE b == rx_buf
<1>1. Len(b) \in Nat /\ Len(SOF) = 2
  BY DEF SOF
<1>2. CASE Len(b) < 2
  BY <1>1, <1>2 DEF Synced
<1>3. CASE Len(b) >= 2
  <2>1. SubSeq(b, 1, 1 + 1) = SOF
    <3> DEFINE s == SubSeq(b, 1, 1 + 1)
    <3>1. s \in Seq(LineBytes) /\ Len(s) = 2 /\ s[1] = b[1] /\ s[2] = b[2]
      BY <1>3
    <3> HIDE DEF s
    <3>2. s = <<170, 85>>
      BY <1>3, <3>1
    <3> QED
      BY <3>2 DEF s, SOF
  <2>2. 1 \in Starts(b) /\ \A i \in Starts(b) : 1 <= i /\ i \in Nat
    BY <1>1, <1>3, <2>1 DEF Starts
  <2> DEFINE lowest == CHOOSE i \in Starts(b) : \A j \in Starts(b) : i <= j
  <2>3. lowest \in Starts(b) /\ \A j \in Starts(b) : lowest <= j
    BY <2>2
  <2>4. lowest = 1
    <3> HIDE DEF lowest
    <3> QED
      BY <2>2, <2>3
  <2>5. FirstStart(b) = 1
    BY <2>4 DEF FirstStart
  <2>6. From(b, 1) = b
    BY SubSeqFull DEF From
  <2> QED
    BY <1>1, <1>3, <2>2, <2>5, <2>6 DEF Synced
<1> QED
  BY <1>1, <1>2, <1>3

\* tryParseFrame waits until a frame that begins the buffer is there as a whole,
\* and then takes out what was put in.
LEMMA JoyFrameFound ==
    ASSUME ChecksumFits, NEW c, Counted(c),
           NEW b \in Seq(LineBytes), Streams!Begins(b, Wire(c))
    PROVE  /\ Len(b) < Len(Wire(c)) => Verdict(b) = "wait"
           /\ Len(b) >= Len(Wire(c)) =>
                  Verdict(b) = "frame" /\ FrameLen(b) = Len(Wire(c)) /\ Decoded(b) = c
<1> DEFINE a == Len(c.axes)
           n == Len(c.buttons)
           s == Content(c)
           w == Wire(c)
           l == Len(b)
<1>1. /\ s \in Seq(LineBytes) /\ Len(s) = a + n + 2
      /\ s[1] = a /\ s[2 + a] = n
      /\ \A i \in 1 .. a : s[1 + i] = c.axes[i]
      /\ \A i \in 1 .. n : s[(2 + a) + i] = c.buttons[i]
  BY ContentIs
<1>2. /\ w \in Seq(LineBytes) /\ Len(w) = Len(s) + 3
      /\ w[1] = 170 /\ w[2] = 85 /\ w[Len(s) + 3] = Checksum(s)
      /\ \A i \in 1 .. Len(s) : w[2 + i] = s[i]
  BY JoyWireIs
<1>3. a \in Nat /\ a >= 1 /\ a <= MaxAxes /\ n \in Nat /\ n <= MaxBtns /\ l \in Nat
  BY CountedIs
<1>4. /\ c.axes \in Seq(LineBytes) /\ c.buttons \in Seq(LineBytes)
      /\ \A i \in 1 .. n : c.buttons[i] \in {0, 1}
      /\ c = [axes |-> c.axes, buttons |-> c.buttons]
  BY CountedIs
<1>5. \A k \in 1 .. Len(w) : k <= l => b[k] = w[k]
  BY DEF Streams!Begins
<1> HIDE DEF a, n, s, w, l
<1>6. /\ \A i \in 1 .. a + n + 2 : 2 + i <= l => b[2 + i] = s[i]
      /\ (a + n) + 5 <= l => b[(a + n) + 5] = Checksum(s)
  BY <1>1, <1>2, <1>3, <1>5, SMTT(30)
<1>7. Len(w) = (a + n) + 5
  BY <1>1, <1>2, <1>3
<1>8. MaxAxes \in Nat /\ MaxBtns \in Nat
  BY SerialAssumption DEF SerialAssumption
<1>9. l >= 3 => b[3] = a /\ BtnAt(b) = 4 + a
  <2>1. l >= 3 => b[2 + 1] = s[1]
    BY <1>3, <1>6
  <2> QED
    BY <1>1, <1>3, <2>1 DEF BtnAt
<1>10. l >= 4 + a => b[4 + a] = n /\ FrameLen(b) = (a + n) + 5
  <2>1. l >= 4 + a => b[2 + (2 + a)] = s[2 + a]
    BY <1>3, <1>6
  <2>2. 2 + (2 + a) = 4 + a
    BY <1>3
  <2> QED
    BY <1>1, <1>3, <1>9, <2>1, <2>2 DEF FrameLen
<1>11. l < (a + n) + 5 => Verdict(b) = "wait"
  BY <1>3, <1>8, <1>9, <1>10 DEF Verdict, l
<1>12. ASSUME l >= (a + n) + 5
       PROVE  /\ SubSeq(b, 3, FrameLen(b) - 1) = s
              /\ SubSeq(b, 4, BtnAt(b) - 1) = c.axes
              /\ [i \in 1 .. b[BtnAt(b)] |-> IF b[BtnAt(b) + i] = 0 THEN 0 ELSE 1] = c.buttons
  <2>1. /\ BtnAt(b) = 4 + a /\ b[BtnAt(b)] = n /\ FrameLen(b) = (a + n) + 5
    BY <1>3, <1>9, <1>10, <1>12
  <2>2. SubSeq(b, 2 + 1, (a + n) + 4) = s
    <3> DEFINE t == SubSeq(b, 2 + 1, (a + n) + 4)
    <3>1. /\ t \in Seq(LineBytes) /\ Len(t) = a + n + 2
          /\ \A i \in 1 .. a + n + 2 : t[i] = b[2 + i]
      <4>1. (a + n) + 4 \in Nat /\ (a + n) + 4 <= Len(b) /\ 2 <= (a + n) + 4
            /\ ((a + n) + 4) - 2 = a + n + 2
        BY <1>3, <1>12 DEF l
      <4> QED
        BY <4>1, Streams!Cut
    <3>2. \A i \in 1 .. a + n + 2 : b[2 + i] = s[i]
      BY <1>3, <1>6, <1>12
    <3> HIDE DEF t
    <3>3. t = s
      <4>1. Len(t) = Len(s) /\ \A i \in 1 .. Len(t) : t[i] = s[i]
        BY <1>1, <3>1, <3>2
      <4> QED
        BY <1>1, <3>1, <4>1, SeqEqual
    <3> QED
      BY <3>3 DEF t
  <2>3. SubSeq(b, 3 + 1, 3 + a) = c.axes
    <3> DEFINE t == SubSeq(b, 3 + 1, 3 + a)
    <3>1. t \in Seq(LineBytes) /\ Len(t) = a /\ \A i \in 1 .. a : t[i] = b[3 + i]
      <4>1. 3 + a \in Nat /\ 3 + a <= Len(b) /\ 3 <= 3 + a /\ (3 + a) - 3 = a
        BY <1>3, <1>12 DEF l
      <4> QED
        BY <4>1, Streams!Cut
    <3>2. ASSUME NEW i \in 1 .. a PROVE b[3 + i] = c.axes[i]
      <4>1. b[2 + (1 + i)] = s[1 + i] /\ 2 + (1 + i) = 3 + i
        BY <1>3, <1>6, <1>12
      <4> QED
        BY <1>1, <4>1
    <3> HIDE DEF t
    <3>3. t = c.axes
      <4>1. Len(t) = Len(c.axes) /\ \A i \in 1 .. Len(t) : t[i] = c.axes[i]
        BY <3>1, <3>2 DEF a
      <4> QED
        BY <1>4, <3>1, <4>1, SeqEqual
    <3> QED
      BY <3>3 DEF t
  <2>4. [i \in 1 .. n |-> IF b[(4 + a) + i] = 0 THEN 0 ELSE 1] = c.buttons
    <3>1. ASSUME NEW i \in 1 .. n PROVE b[(4 + a) + i] = c.buttons[i]
      <4>1. b[2 + ((2 + a) + i)] = s[(2 + a) + i] /\ 2 + ((2 + a) + i) = (4 + a) + i
        BY <1>3, <1>6, <1>12
      <4> QED
        BY <1>1, <4>1
    <3>2. c.buttons = [i \in 1 .. n |-> c.buttons[i]]
      BY <1>4 DEF n
    <3> QED
      BY <1>4, <3>1, <3>2
  <2>5. 2 + 1 = 3 /\ 3 + 1 = 4 /\ (4 + a) - 1 = 3 + a /\ ((a + n) + 5) - 1 = (a + n) + 4
    BY <1>3
  <2> QED
    BY <2>1, <2>2, <2>3, <2>4, <2>5
<1>13. ASSUME l >= (a + n) + 5
       PROVE  Verdict(b) = "frame" /\ FrameLen(b) = (a + n) + 5 /\ Decoded(b) = c
  <2>1. /\ l >= 3 /\ l >= 4 + a /\ b[3] = a /\ BtnAt(b) = 4 + a /\ b[4 + a] = n
        /\ FrameLen(b) = (a + n) + 5
    BY <1>3, <1>9, <1>10, <1>13
  <2>2. Checksum(SubSeq(b, 3, FrameLen(b) - 1)) = b[FrameLen(b)]
    BY <1>6, <1>12, <1>13, <2>1
  <2>3. Verdict(b) = "frame"
    BY <1>3, <1>8, <1>13, <2>1, <2>2 DEF Verdict, l
  <2>4. Decoded(b) = c
    BY <1>4, <1>12, <1>13 DEF Decoded
  <2> QED
    BY <2>1, <2>3, <2>4
<1> QED
  BY <1>3, <1>7, <1>11, <1>13 DEF l, w

-----------------------------------------------------------------------------
(***************************************************************************)
(* The joystick's types.                                                   *)
(***************************************************************************)

\* What is left of the buffer are bytes, also when the line has been disturbed.
LEMMA SyncedTyped ==
    ASSUME rx_buf \in Seq(LineBytes)
    PROVE  Synced \in Seq(LineBytes)
<1>1. CASE Len(rx_buf) < Len(SOF) \/ Starts(rx_buf) = {}
  BY <1>1 DEF Synced
<1>2. CASE ~(Len(rx_buf) < Len(SOF)) /\ Starts(rx_buf) # {}
  <2>1. Starts(rx_buf) \in SUBSET Nat
    BY DEF Starts
  <2>2. FirstStart(rx_buf) \in Starts(rx_buf)
    <3>1. \E i \in Starts(rx_buf) : \A j \in Starts(rx_buf) : i <= j
      BY <1>2, <2>1, Streams!First
    <3> QED
      BY <3>1 DEF FirstStart
  <2>3. FirstStart(rx_buf) \in 1 .. Len(rx_buf)
    BY <2>2 DEF Starts
  <2>4. From(rx_buf, FirstStart(rx_buf)) \in Seq(LineBytes)
    <3> DEFINE i == FirstStart(rx_buf)
    <3>1. i \in 1 .. Len(rx_buf)
      BY <2>3
    <3> HIDE DEF i
    <3>2. SubSeq(rx_buf, i, Len(rx_buf)) \in Seq(LineBytes)
      BY <3>1
    <3> QED
      BY <3>2 DEF From, i
  <2> QED
    BY <1>2, <2>4 DEF Synced
<1> QED
  BY <1>1, <1>2

LEMMA BytesAreNumbers ==
    ASSUME NEW n \in LineBytes
    PROVE  n \in Nat
  BY DEF LineBytes

\* A frame that is taken lies in the buffer.
LEMMA FrameInBuffer ==
    ASSUME NEW b \in Seq(LineBytes), Verdict(b) = "frame"
    PROVE  /\ FrameLen(b) \in Nat /\ FrameLen(b) <= Len(b)
           /\ From(b, FrameLen(b) + 1) \in Seq(LineBytes)
           /\ Decoded(b) \in JoyFrame
<1> DEFINE a == b[3]
           n == b[BtnAt(b)]
<1>1. /\ Len(b) \in Nat /\ Len(b) >= 3 /\ a \in 1 .. MaxAxes /\ MaxAxes \in Nat
      /\ Len(b) >= BtnAt(b) /\ Len(b) >= FrameLen(b)
  <2>1. /\ ~(Len(b) < 3) /\ b[3] \in 1 .. MaxAxes /\ ~(Len(b) < BtnAt(b))
        /\ ~(Len(b) < FrameLen(b))
    BY DEF Verdict
  <2>2. Len(b) \in Nat /\ MaxAxes \in Nat
    BY SerialAssumption DEF SerialAssumption
  <2>3. BtnAt(b) = 4 + b[3] /\ b[3] \in Nat
    BY <2>1, <2>2 DEF BtnAt
  <2>4. BtnAt(b) \in 1 .. Len(b)
    BY <2>1, <2>2, <2>3
  <2>5. b[BtnAt(b)] \in Nat
    BY <2>4, BytesAreNumbers
  <2>6. FrameLen(b) \in Nat
    BY <2>3, <2>5 DEF FrameLen
  <2> QED
    BY <2>1, <2>2, <2>3, <2>6
<1>2. BtnAt(b) = 4 + a /\ a \in Nat
  BY <1>1 DEF BtnAt
<1>3. n \in Nat /\ FrameLen(b) = (4 + a) + n + 1
  <2>1. BtnAt(b) \in 1 .. Len(b)
    BY <1>1, <1>2
  <2>2. n \in Nat
    BY <2>1, BytesAreNumbers
  <2> QED
    BY <1>2, <2>2 DEF FrameLen
<1> HIDE DEF a, n
<1>4. FrameLen(b) \in Nat /\ FrameLen(b) <= Len(b)
  BY <1>1, <1>2, <1>3
<1>5. From(b, FrameLen(b) + 1) \in Seq(LineBytes)
  BY <1>1, <1>4, Streams!Cut DEF From
<1>6. SubSeq(b, 4, BtnAt(b) - 1) \in Seq(LineBytes)
  <2>1. /\ 3 + a \in Nat /\ 3 + a <= Len(b) /\ BtnAt(b) - 1 = 3 + a /\ 3 + 1 = 4
    BY <1>1, <1>2
  <2>2. SubSeq(b, 3 + 1, 3 + a) \in Seq(LineBytes)
    BY <2>1, Streams!Cut
  <2> QED
    BY <2>1, <2>2
<1>7. [i \in 1 .. n |-> IF b[BtnAt(b) + i] = 0 THEN 0 ELSE 1] \in Seq({0, 1})
  BY <1>3
<1> QED
  BY <1>4, <1>5, <1>6, <1>7 DEF Decoded, JoyFrame, LineBytes, n

LEMMA SerialTypeInit == SerialInit => SerialTypeOK
<1>1. MaxNoise \in Nat /\ Len(ToSend) \in Nat
  BY SerialAssumption DEF SerialAssumption
<1>2. <<>> \in Seq(0 .. 255) /\ <<>> \in Seq(JoyFrame)
  OBVIOUS
<1>3. 0 \in 0 .. Len(ToSend) /\ 0 \in 0 .. MaxNoise
  BY <1>1
<1> QED
  BY <1>2, <1>3, Zenon DEF SerialInit, SerialTypeOK

LEMMA SentCounted ==
    ASSUME NEW i \in 1 .. Len(ToSend)
    PROVE  ToSend[i] \in JoyFrame /\ Counted(ToSend[i])
<1>1. ToSend \in Seq(JoyFrame) /\ i \in DOMAIN ToSend
  BY SerialAssumption DEF SerialAssumption
<1>2. ToSend[i] \in JoyFrame
  BY <1>1
<1> QED
  BY <1>1, <1>2, SerialAssumption DEF SerialAssumption, Counted

LEMMA SerialTypeStep ==
    ChecksumFits /\ SerialTypeOK /\ [SerialNext]_serialVars => SerialTypeOK'
<1> SUFFICES ASSUME ChecksumFits, SerialTypeOK, [SerialNext]_serialVars PROVE SerialTypeOK'
  OBVIOUS
<1>1. /\ line \in Seq(LineBytes) /\ rx_buf \in Seq(LineBytes) /\ Len(ToSend) \in Nat
      /\ Len(line) \in Nat
  BY SerialAssumption DEF SerialAssumption, SerialTypeOK, LineBytes
<1>2. Synced \in Seq(LineBytes)
  BY <1>1, SyncedTyped
<1>3. CASE SendFrame
  <2> DEFINE i == sentFrames + 1
  <2>1. i \in 1 .. Len(ToSend) /\ sentFrames' = i
    BY <1>1, <1>3 DEF SendFrame, SerialTypeOK
  <2>2. Wire(ToSend[i]) \in Seq(LineBytes)
    BY <2>1, SentCounted, JoyWireIs
  <2>3. line' = line \o Wire(ToSend[i])
    BY <1>3, <2>1 DEF SendFrame
  <2> HIDE DEF i
  <2>4. line' \in Seq(LineBytes)
    BY <1>1, <2>2, <2>3
  <2> QED
    BY <1>1, <1>3, <2>1, <2>4 DEF SendFrame, SerialTypeOK, LineBytes
<1>4. CASE Disturb
  <2>1. line' \in Seq(LineBytes)
    <3>1. CASE line # <<>> /\ line' = Tail(line)
      BY <1>1, <3>1
    <3>2. ASSUME NEW byte \in Noise, line' = <<byte>> \o line PROVE line' \in Seq(LineBytes)
      <4>1. byte \in LineBytes
        BY SerialAssumption DEF SerialAssumption, LineBytes
      <4> QED
        BY <1>1, <3>2, <4>1
    <3> QED
      BY <1>4, <3>1, <3>2 DEF Disturb
  <2>2. disturbed' \in 0 .. MaxNoise
    BY <1>4, SerialAssumption DEF SerialAssumption, Disturb, SerialTypeOK
  <2> QED
    BY <1>4, <2>1, <2>2 DEF Disturb, SerialTypeOK, LineBytes
<1>5. ASSUME NEW n \in 1 .. Len(line), FeedData(n) PROVE SerialTypeOK'
  <2>1. SubSeq(line, 1, n) \in Seq(LineBytes) /\ From(line, n + 1) \in Seq(LineBytes)
    BY <1>1 DEF From
  <2>2. rx_buf' \in Seq(LineBytes) /\ line' \in Seq(LineBytes)
    BY <1>1, <1>5, <2>1 DEF FeedData
  <2> QED
    BY <1>5, <2>2 DEF FeedData, SerialTypeOK, LineBytes
<1>6. CASE WaitForMore
  BY <1>2, <1>6 DEF WaitForMore, SerialTypeOK, LineBytes
<1>7. CASE SkipByte
  <2>1. Synced # <<>>
    BY <1>7 DEF SkipByte, Verdict
  <2>2. Tail(Synced) \in Seq(LineBytes)
    BY <1>2, <2>1
  <2> QED
    BY <1>7, <2>2 DEF SkipByte, SerialTypeOK, LineBytes
<1>8. CASE TakeFrame
  <2>1. /\ From(Synced, FrameLen(Synced) + 1) \in Seq(LineBytes)
        /\ Decoded(Synced) \in JoyFrame
    BY <1>2, <1>8, FrameInBuffer DEF TakeFrame
  <2>2. reported' \in Seq(JoyFrame)
    BY <1>8, <2>1 DEF TakeFrame, SerialTypeOK
  <2> QED
    BY <1>8, <2>1, <2>2 DEF TakeFrame, SerialTypeOK, LineBytes
<1>9. CASE UNCHANGED serialVars
  BY <1>9 DEF serialVars, SerialTypeOK
<1> QED
  BY <1>3, <1>4, <1>5, <1>6, <1>7, <1>8, <1>9 DEF SerialNext

\* What is on the line and in the buffer of the bridge are bytes, whatever disturbs
\* them, and what it reports are axes and buttons (JoyBridgeCore).
THEOREM SerialTyped == ASSUME ChecksumFits PROVE SerialSpec => []SerialTypeOK
  BY SerialTypeInit, SerialTypeStep, PTL DEF SerialSpec

-----------------------------------------------------------------------------
(***************************************************************************)
(* The stream of an undisturbed line.  What has been reported are the      *)
(* first frames that were sent; what is in the buffer and on the line are  *)
(* the others.  Between two calls of feedData the buffer does not hold the *)
(* next frame as a whole.                                                  *)
(***************************************************************************)

JoyWires == [i \in 1 .. Len(ToSend) |-> Wire(ToSend[i])]

Reports == Len(reported)

Coming == rx_buf \o line

StreamFits ==
    /\ Reports <= sentFrames
    /\ \A i \in 1 .. Reports : reported[i] = ToSend[i]
    /\ Streams!StreamIs(JoyWires, Reports, sentFrames, Coming, TRUE)
    /\ ~feeding /\ Reports < sentFrames => Len(rx_buf) < Len(JoyWires[Reports + 1])

JoyInv == SerialTypeOK /\ (disturbed = 0 => StreamFits)

LEMMA JoyWiresAre ==
    ASSUME ChecksumFits
    PROVE  /\ Len(ToSend) \in Nat
           /\ JoyWires \in Seq(Seq(LineBytes)) /\ Len(JoyWires) = Len(ToSend)
           /\ \A i \in 1 .. Len(ToSend) :
                 /\ JoyWires[i] = Wire(ToSend[i]) /\ JoyWires[i] \in Seq(LineBytes)
                 /\ Len(JoyWires[i]) \in Nat /\ Len(JoyWires[i]) > 0
<1>1. Len(ToSend) \in Nat
  BY SerialAssumption DEF SerialAssumption
<1>2. \A i \in 1 .. Len(ToSend) : /\ Wire(ToSend[i]) \in Seq(LineBytes)
                                  /\ Len(Wire(ToSend[i])) > 0
  <2> TAKE i \in 1 .. Len(ToSend)
  <2>1. /\ Wire(ToSend[i]) \in Seq(LineBytes)
        /\ Len(Wire(ToSend[i])) = Len(Content(ToSend[i])) + 3
        /\ Len(Content(ToSend[i])) \in Nat
    BY SentCounted, JoyWireIs
  <2> QED
    BY <2>1
<1>3. \A i \in 1 .. Len(ToSend) : Len(Wire(ToSend[i])) \in Nat
  BY <1>2
<1> QED
  BY <1>1, <1>2, <1>3 DEF JoyWires

LEMMA JoyNumbers ==
    ASSUME SerialTypeOK
    PROVE  /\ line \in Seq(LineBytes) /\ rx_buf \in Seq(LineBytes)
           /\ Coming \in Seq(LineBytes) /\ Len(Coming) = Len(rx_buf) + Len(line)
           /\ \A i \in 1 .. Len(rx_buf) : Coming[i] = rx_buf[i]
           /\ Len(rx_buf) \in Nat /\ Len(line) \in Nat /\ Len(Coming) \in Nat
           /\ Len(rx_buf) <= Len(Coming)
           /\ Reports \in Nat /\ sentFrames \in Nat /\ sentFrames <= Len(ToSend)
<1>1. line \in Seq(LineBytes) /\ rx_buf \in Seq(LineBytes) /\ reported \in Seq(JoyFrame)
  BY DEF SerialTypeOK, LineBytes
<1>2. /\ Coming \in Seq(LineBytes) /\ Len(Coming) = Len(rx_buf) + Len(line)
      /\ \A i \in 1 .. Len(rx_buf) : Coming[i] = rx_buf[i]
  BY <1>1, Streams!Joined, Zenon DEF Coming
<1>3. Len(rx_buf) \in Nat /\ Len(line) \in Nat /\ Reports \in Nat
  BY <1>1 DEF Reports
<1>4. sentFrames \in Nat /\ sentFrames <= Len(ToSend)
  BY SerialAssumption DEF SerialAssumption, SerialTypeOK
<1> QED
  BY <1>1, <1>2, <1>3, <1>4

\* The buffer begins with the next frame, and is empty when there is none.
LEMMA BufferBegins ==
    ASSUME ChecksumFits, SerialTypeOK, StreamFits
    PROVE  /\ Reports = sentFrames => Len(rx_buf) = 0
           /\ Reports < sentFrames => Streams!Begins(rx_buf, JoyWires[Reports + 1])
<1> DEFINE k == Reports
<1>1. /\ k \in Nat /\ sentFrames \in Nat /\ k <= sentFrames
      /\ rx_buf \in Seq(LineBytes) /\ Coming \in Seq(LineBytes)
      /\ Len(rx_buf) \in Nat /\ Len(rx_buf) <= Len(Coming)
      /\ \A i \in 1 .. Len(rx_buf) : Coming[i] = rx_buf[i]
      /\ Streams!StreamIs(JoyWires, k, sentFrames, Coming, TRUE)
  BY JoyNumbers DEF StreamFits
<1> HIDE DEF k
<1>2. /\ k = sentFrames => Len(rx_buf) = 0
      /\ k < sentFrames => Streams!Begins(rx_buf, JoyWires[k + 1])
  BY <1>1, JoyWiresAre, Streams!StreamBegins
<1> QED
  BY <1>2 DEF k

\* What tryParseFrame sees in an undisturbed stream.
LEMMA NextVerdict ==
    ASSUME ChecksumFits, SerialTypeOK, StreamFits
    PROVE  /\ Synced = rx_buf
           /\ Verdict(Synced) # "skip"
           /\ Verdict(Synced) = "wait" /\ Reports < sentFrames
                  => Len(rx_buf) < Len(JoyWires[Reports + 1])
           /\ Verdict(Synced) = "frame" =>
                 /\ Reports < sentFrames
                 /\ FrameLen(Synced) = Len(JoyWires[Reports + 1])
                 /\ FrameLen(Synced) <= Len(rx_buf)
                 /\ Decoded(Synced) = ToSend[Reports + 1]
<1> DEFINE k == Reports
           n == sentFrames
<1>1. /\ k \in Nat /\ n \in Nat /\ k <= n /\ n <= Len(ToSend) /\ Len(ToSend) \in Nat
      /\ rx_buf \in Seq(LineBytes) /\ Len(rx_buf) \in Nat
  BY JoyNumbers, JoyWiresAre DEF StreamFits
<1>2. /\ k = n => Len(rx_buf) = 0
      /\ k < n => Streams!Begins(rx_buf, JoyWires[k + 1])
  BY BufferBegins
<1> HIDE DEF k, n
<1>3. CASE k = n
  <2>1. Len(rx_buf) = 0
    BY <1>2, <1>3
  <2>2. Synced = rx_buf
    BY <1>1, <2>1, SyncedAtStart
  <2>3. Verdict(rx_buf) = "wait"
    BY <2>1 DEF Verdict
  <2> QED
    BY <1>1, <1>3, <2>2, <2>3 DEF k, n
<1>4. CASE k < n
  <2> DEFINE i == k + 1
             c == ToSend[i]
             w == Wire(c)
  <2>1. i \in 1 .. Len(ToSend)
    BY <1>1, <1>4
  <2>2. JoyWires[i] = w /\ Len(w) \in Nat
    BY <2>1, JoyWiresAre
  <2>3. Streams!Begins(rx_buf, w) /\ Counted(c)
    BY <1>2, <1>4, <2>1, <2>2, SentCounted
  <2> HIDE DEF i, c
  <2>4. /\ Len(w) \in Nat /\ Len(w) >= 2 /\ w[1] = 170 /\ w[2] = 85
    BY <2>2, <2>3, JoyWireIs
  <2>5. \A j \in 1 .. Len(w) : j <= Len(rx_buf) => rx_buf[j] = w[j]
    BY <2>3 DEF Streams!Begins
  <2>6. Len(rx_buf) >= 2 => rx_buf[1] = 170 /\ rx_buf[2] = 85
    <3> HIDE DEF w
    <3> QED
      BY <1>1, <2>4, <2>5
  <2>7. Synced = rx_buf
    BY <1>1, <2>6, SyncedAtStart
  <2>8. /\ Len(rx_buf) < Len(w) => Verdict(rx_buf) = "wait"
        /\ Len(rx_buf) >= Len(w) =>
               Verdict(rx_buf) = "frame" /\ FrameLen(rx_buf) = Len(w) /\ Decoded(rx_buf) = c
    BY <1>1, <2>3, JoyFrameFound
  <2> HIDE DEF w
  <2>9. \/ Len(rx_buf) < Len(w) /\ Verdict(rx_buf) = "wait"
        \/ /\ Len(w) <= Len(rx_buf) /\ Verdict(rx_buf) = "frame"
           /\ FrameLen(rx_buf) = Len(w) /\ Decoded(rx_buf) = c
    BY <1>1, <2>4, <2>8
  <2>10. JoyWires[Reports + 1] = w /\ ToSend[Reports + 1] = c /\ Reports < sentFrames
    BY <1>4, <2>2 DEF w, c, i, k, n
  <2> QED
    BY <2>7, <2>9, <2>10
<1> QED
  BY <1>1, <1>3, <1>4

LEMMA JoyInvInit == ChecksumFits /\ SerialInit => JoyInv
<1> SUFFICES ASSUME SerialInit PROVE JoyInv
  OBVIOUS
<1>1. Reports = 0 /\ sentFrames = 0 /\ Coming = <<>>
  BY DEF SerialInit, Reports, Coming
<1>2. Streams!StreamIs(JoyWires, 0, 0, <<>>, TRUE)
  BY Streams!NothingSent
<1>3. StreamFits
  <2>1. 0 <= 0 /\ ~(0 < 0) /\ \A i \in 1 .. 0 : reported[i] = ToSend[i]
    OBVIOUS
  <2> QED
    BY <1>1, <1>2, <2>1, Zenon DEF StreamFits
<1> QED
  BY <1>3, SerialTypeInit DEF JoyInv

LEMMA SendFits ==
    ASSUME ChecksumFits, SerialTypeOK, StreamFits, SendFrame
    PROVE  StreamFits'
<1> DEFINE k == Reports
           n == sentFrames
           w == JoyWires[n + 1]
<1>1. /\ k \in Nat /\ n \in Nat /\ k <= n /\ n < Len(ToSend) /\ Len(ToSend) \in Nat
      /\ rx_buf \in Seq(LineBytes) /\ line \in Seq(LineBytes) /\ Coming \in Seq(LineBytes)
      /\ Streams!StreamIs(JoyWires, k, n, Coming, TRUE)
  BY JoyNumbers, JoyWiresAre DEF StreamFits, SendFrame
<1>2. n + 1 \in 1 .. Len(ToSend)
  BY <1>1
<1>3. w = Wire(ToSend[n + 1]) /\ w \in Seq(LineBytes) /\ Len(w) > 0 /\ Len(w) \in Nat
  BY <1>2, JoyWiresAre
<1>4. /\ sentFrames' = n + 1 /\ line' = line \o Wire(ToSend[n + 1])
      /\ rx_buf' = rx_buf /\ reported' = reported /\ feeding' = feeding
  BY DEF SendFrame
<1> HIDE DEF k, n, w
<1>5. Streams!StreamIs(JoyWires, k, n + 1, Coming \o w, TRUE)
  <2>1. n < Len(JoyWires)
    BY <1>1, JoyWiresAre
  <2> QED
    BY <1>1, <2>1, JoyWiresAre, Streams!StreamSent DEF w
<1>6. Coming' = Coming \o w
  <2>1. (rx_buf \o line) \o w = rx_buf \o (line \o w)
    BY <1>1, <1>3, Streams!Associated, Zenon
  <2> QED
    BY <1>3, <1>4, <2>1 DEF Coming
<1>7. Reports' = k
  BY <1>4 DEF Reports, k
<1>8. ~feeding' => Len(rx_buf') < Len(JoyWires[k + 1])
  <2>1. CASE k = n
    <3>1. Len(rx_buf) = 0
      BY <2>1, BufferBegins DEF k, n
    <3> QED
      BY <1>3, <1>4, <2>1, <3>1 DEF w
  <2>2. CASE k < n
    BY <1>4, <2>2 DEF StreamFits, k, n
  <2> QED
    BY <1>1, <2>1, <2>2
<1>9. k <= n + 1
  BY <1>1
<1>10. \A i \in 1 .. k : reported'[i] = ToSend[i]
  BY <1>4 DEF StreamFits, k
<1> QED
  BY <1>4, <1>5, <1>6, <1>7, <1>8, <1>9, <1>10 DEF StreamFits

LEMMA FeedFits ==
    ASSUME SerialTypeOK, StreamFits, NEW n \in 1 .. Len(line), FeedData(n)
    PROVE  StreamFits'
<1> DEFINE s == SubSeq(line, 1, n)
           t == From(line, n + 1)
<1>1. /\ line \in Seq(LineBytes) /\ rx_buf \in Seq(LineBytes) /\ Len(line) \in Nat
  BY JoyNumbers
<1>2. s \in Seq(LineBytes) /\ t \in Seq(LineBytes)
  BY <1>1 DEF From
<1>3. s \o t = line
  <2>1. SubSeq(line, 1, n) \o SubSeq(line, n + 1, Len(line)) = SubSeq(line, 1, Len(line))
    <3>1. 1 \in 1 .. Len(line) + 1 /\ n \in 1 - 1 .. Len(line) /\ Len(line) \in n .. Len(line)
      BY <1>1
    <3> QED
      BY <1>1, <3>1, ConcatAdjacentSubSeq
  <2>2. SubSeq(line, 1, Len(line)) = line
    BY <1>1, SubSeqFull
  <2> QED
    BY <2>1, <2>2 DEF From
<1> HIDE DEF s, t
<1>4. (rx_buf \o s) \o t = rx_buf \o (s \o t)
  BY <1>1, <1>2, Streams!Associated, Zenon
<1>5. Coming' = Coming
  BY <1>3, <1>4 DEF FeedData, Coming, s, t
<1>6. feeding' /\ sentFrames' = sentFrames /\ reported' = reported /\ Reports' = Reports
  BY DEF FeedData, Reports
<1> QED
  BY <1>5, <1>6 DEF StreamFits

LEMMA WaitFits ==
    ASSUME ChecksumFits, SerialTypeOK, StreamFits, WaitForMore
    PROVE  StreamFits'
<1>1. /\ rx_buf' = rx_buf /\ line' = line /\ sentFrames' = sentFrames
      /\ reported' = reported /\ Reports' = Reports /\ Coming' = Coming
  BY NextVerdict DEF WaitForMore, Reports, Coming
<1>2. Reports < sentFrames => Len(rx_buf) < Len(JoyWires[Reports + 1])
  BY NextVerdict DEF WaitForMore
<1> QED
  BY <1>1, <1>2 DEF StreamFits

LEMMA TakeFits ==
    ASSUME ChecksumFits, SerialTypeOK, StreamFits, TakeFrame
    PROVE  StreamFits'
<1> DEFINE k == Reports
           n == sentFrames
           w == Len(JoyWires[k + 1])
<1>1. /\ Synced = rx_buf /\ Verdict(Synced) = "frame" /\ k < n /\ FrameLen(Synced) = w
      /\ w <= Len(rx_buf) /\ Decoded(Synced) = ToSend[k + 1]
  BY NextVerdict DEF TakeFrame
<1>2. /\ k \in Nat /\ n \in Nat /\ n <= Len(ToSend) /\ Len(ToSend) \in Nat
      /\ rx_buf \in Seq(LineBytes) /\ line \in Seq(LineBytes) /\ Coming \in Seq(LineBytes)
      /\ Len(rx_buf) \in Nat /\ Len(rx_buf) <= Len(Coming) /\ Len(Coming) \in Nat
      /\ Streams!StreamIs(JoyWires, k, n, Coming, TRUE)
  BY JoyNumbers, JoyWiresAre DEF StreamFits
<1>3. k + 1 \in 1 .. Len(ToSend)
  BY <1>1, <1>2
<1>4. w \in Nat
  BY <1>3, JoyWiresAre
<1>5. /\ rx_buf' = Streams!Remainder(rx_buf, w) /\ line' = line
      /\ reported' = Append(reported, ToSend[k + 1]) /\ sentFrames' = n
      /\ feeding' = feeding /\ feeding
  BY <1>1 DEF TakeFrame, From, Streams!Remainder
<1> HIDE DEF w
<1>6. Coming' = Streams!Remainder(Coming, w)
  BY <1>1, <1>2, <1>4, <1>5, Streams!RemainderJoined DEF Coming
<1>7. Streams!StreamIs(JoyWires, k + 1, n, Streams!Remainder(Coming, w), TRUE)
  <2>1. n <= Len(JoyWires) /\ w <= Len(Coming)
    BY <1>1, <1>2, <1>4, JoyWiresAre
  <2> QED
    BY <1>1, <1>2, <2>1, JoyWiresAre, Streams!StreamTaken DEF w
<1>8. /\ Reports' = k + 1
      /\ \A i \in 1 .. k : reported'[i] = reported[i]
      /\ reported'[k + 1] = ToSend[k + 1]
  <2>1. reported \in Seq(JoyFrame) /\ ToSend[k + 1] \in JoyFrame
    BY <1>3, SentCounted DEF SerialTypeOK
  <2> QED
    BY <1>5, <2>1 DEF Reports, k
<1>9. \A i \in 1 .. k + 1 : reported'[i] = ToSend[i]
  <2>1. \A i \in 1 .. k + 1 : i \in 1 .. k \/ i = k + 1
    BY <1>2
  <2> QED
    BY <1>8, <2>1 DEF StreamFits, k
<1>10. k + 1 <= n
  BY <1>1, <1>2
<1> HIDE DEF k, n
<1> QED
  BY <1>5, <1>6, <1>7, <1>8, <1>9, <1>10 DEF StreamFits

LEMMA JoyInvStep == ChecksumFits /\ JoyInv /\ [SerialNext]_serialVars => JoyInv'
<1> SUFFICES ASSUME ChecksumFits, JoyInv, [SerialNext]_serialVars PROVE JoyInv'
  OBVIOUS
<1>1. SerialTypeOK /\ SerialTypeOK'
  BY SerialTypeStep DEF JoyInv
<1>2. CASE Disturb
  BY <1>1, <1>2 DEF JoyInv, Disturb, SerialTypeOK
<1>3. CASE UNCHANGED serialVars
  BY <1>1, <1>3 DEF JoyInv, StreamFits, Reports, Coming, serialVars
<1>4. CASE SkipByte
  BY <1>1, <1>4, NextVerdict DEF JoyInv, SkipByte
<1>5. CASE SendFrame
  BY <1>1, <1>5, SendFits DEF JoyInv, SendFrame
<1>6. ASSUME NEW n \in 1 .. Len(line), FeedData(n) PROVE JoyInv'
  BY <1>1, <1>6, FeedFits DEF JoyInv, FeedData
<1>7. CASE WaitForMore
  BY <1>1, <1>7, WaitFits DEF JoyInv, WaitForMore
<1>8. CASE TakeFrame
  BY <1>1, <1>8, TakeFits DEF JoyInv, TakeFrame
<1> QED
  BY <1>2, <1>3, <1>4, <1>5, <1>6, <1>7, <1>8 DEF SerialNext

\* However an undisturbed line is cut into chunks, and whatever bytes the frames
\* hold: the bridge reports the frames that were sent, in order and none twice, and
\* each as soon as its last byte has come (feedData, tryParseFrame).
THEOREM UndisturbedParsed ==
    ASSUME ChecksumFits PROVE SerialSpec => [](disturbed = 0 => StreamParsed)
<1>1. ASSUME JoyInv, disturbed = 0 PROVE StreamParsed
  <2>1. SerialTypeOK /\ StreamFits
    BY <1>1 DEF JoyInv
  <2>2. /\ Reports \in Nat /\ sentFrames \in Nat /\ sentFrames <= Len(ToSend)
        /\ Len(ToSend) \in Nat /\ Reports <= sentFrames /\ Reports = Len(reported)
        /\ \A i \in 1 .. Reports : reported[i] = ToSend[i]
        /\ DOMAIN reported = 1 .. Reports /\ DOMAIN ToSend = 1 .. Len(ToSend)
        /\ \A i, j \in DOMAIN ToSend : ToSend[i] = ToSend[j] => i = j
    BY <2>1, JoyNumbers, JoyWiresAre, SerialAssumption
       DEF StreamFits, SerialTypeOK, Reports, SerialAssumption
  <2>3. \A i \in 1 .. Reports : SentAs(i) = {i}
    BY <2>2 DEF SentAs
  <2>4. ASSUME line = <<>>, ~feeding PROVE Reports = sentFrames /\ rx_buf = <<>>
    <3>1. /\ rx_buf \in Seq(LineBytes) /\ Coming \in Seq(LineBytes) /\ Len(rx_buf) \in Nat
          /\ Len(Coming) = Len(rx_buf) + 0
      <4>1. Len(line) = 0
        BY <2>4
      <4> QED
        BY <2>1, <4>1, JoyNumbers
    <3>2. Streams!StreamIs(JoyWires, Reports, sentFrames, Coming, TRUE)
      BY <2>1 DEF StreamFits
    <3>3. ~(Reports < sentFrames)
      <4> SUFFICES ASSUME Reports < sentFrames PROVE FALSE
        OBVIOUS
      <4>1. Len(rx_buf) < Len(JoyWires[Reports + 1])
        BY <2>1, <2>4 DEF StreamFits
      <4>2. Len(JoyWires[Reports + 1]) <= Len(Coming)
        BY <2>2, <3>1, <3>2, JoyWiresAre, Streams!StreamHolds
      <4>3. Len(JoyWires[Reports + 1]) \in Nat
        <5>1. Reports + 1 \in 1 .. Len(ToSend)
          BY <2>2
        <5> QED
          BY <5>1, JoyWiresAre
      <4> DEFINE x == Len(JoyWires[Reports + 1])
                 r == Len(rx_buf)
      <4> HIDE DEF x, r
      <4>4. x \in Nat /\ r \in Nat /\ r < x /\ x <= r + 0
        BY <3>1, <4>1, <4>2, <4>3 DEF x, r
      <4> QED
        BY <4>4
    <3>4. Reports = sentFrames
      BY <2>2, <3>3
    <3>5. Len(rx_buf) = 0
      BY <2>1, <3>4, BufferBegins
    <3> QED
      BY <3>1, <3>4, <3>5
  <2>5. \A i, j \in 1 .. Reports :
            i < j => \A a \in SentAs(i), b \in SentAs(j) : a < b
    BY <2>3
  <2>6. \A i \in 1 .. Reports : SentAs(i) # {}
    BY <2>3
  <2> QED
    BY <2>2, <2>4, <2>5, <2>6, Zenon DEF StreamParsed
<1>2. SerialSpec => []JoyInv
  BY JoyInvInit, JoyInvStep, PTL DEF SerialSpec
<1> QED
  BY <1>1, <1>2, PTL

-----------------------------------------------------------------------------
(***************************************************************************)
(* The parts side by side.  A step of one is a step or a stutter of each,  *)
(* and so every invariant above, and those of the bus and of the pipeline, *)
(* hold together.                                                          *)
(***************************************************************************)

LEMMA DiscoveryTypeInit == DiscoveryInit => DiscoveryTypeOK
  BY DEF DiscoveryInit, DiscoveryTypeOK, Unknown

LEMMA DiscoveryTypeStep ==
    DiscoveryTypeOK /\ [DiscoveryNext]_discoveryVars => DiscoveryTypeOK'
<1> SUFFICES ASSUME DiscoveryTypeOK, [DiscoveryNext]_discoveryVars PROVE DiscoveryTypeOK'
  OBVIOUS
<1> USE DEF DiscoveryTypeOK
<1>1. ASSUME NEW n \in Peers, StartNode(n) PROVE DiscoveryTypeOK'
  BY <1>1 DEF StartNode
<1>2. ASSUME NEW n \in Peers, CreateTopic(n) PROVE DiscoveryTypeOK'
  BY <1>2 DEF CreateTopic, Spread
<1>3. ASSUME NEW n \in Peers, BroadcastAll(n) PROVE DiscoveryTypeOK'
  BY <1>3 DEF BroadcastAll, Spread
<1>4. ASSUME NEW n \in Peers, CleanupNode(n) PROVE DiscoveryTypeOK'
  BY <1>4 DEF CleanupNode, Dead
<1>5. ASSUME NEW n \in Peers, CrashNode(n) PROVE DiscoveryTypeOK'
  BY <1>5 DEF CrashNode, Unknown
<1>6. ASSUME NEW n \in Peers, NEW m \in Peers, Hear(n, m) PROVE DiscoveryTypeOK'
  <2>1. alive' \in [Peers -> [Peers -> {"none", "recent", "old"}]]
    <3>1. alive' = [alive EXCEPT ![n][m] = "recent"]
      BY <1>6 DEF Hear, HandleDiscovery, HandleBeat
    <3> QED
      BY <3>1
  <2>2. CASE HandleDiscovery(n, m)
    <3>1. /\ up' \subseteq Peers
          /\ known' \in [Peers -> SUBSET Peers]
          /\ announced' \in [Peers -> SUBSET Peers]
      BY <2>2 DEF HandleDiscovery
    <3> QED
      BY <2>1, <3>1
  <2>3. CASE HandleBeat(n, m)
    BY <2>1, <2>3 DEF HandleBeat
  <2> QED
    BY <1>6, <2>2, <2>3 DEF Hear
<1>7. ASSUME NEW n \in Peers, NEW m \in Peers, GrowOld(n, m) PROVE DiscoveryTypeOK'
  BY <1>7 DEF GrowOld
<1>8. ASSUME NEW n \in Peers, NEW m \in Peers, LoseAnnouncement(n, m) PROVE DiscoveryTypeOK'
  BY <1>8 DEF LoseAnnouncement
<1>9. CASE UNCHANGED discoveryVars
  BY <1>9 DEF discoveryVars
<1> QED
  BY <1>1, <1>2, <1>3, <1>4, <1>5, <1>6, <1>7, <1>8, <1>9 DEF DiscoveryNext

PartsInv ==
    /\ part \in Parts
    /\ BusTyped
    /\ TopicTypeOK /\ WindowHonest
    /\ DiscoveryTypeOK
    /\ PipelineTypeOK
    /\ FilesInv
    /\ SerialTypeOK
    /\ SortInv

LEMMA PartsInvInit == PartsInit => PartsInv
  BY BusTypedInit, TopicStart, DiscoveryTypeInit, PipeInvInit, FilesInvInit, SerialTypeInit,
     SortInvInit DEF PartsInit, PartsInv, PipeInv

\* What moves one part leaves the others alone.
LEMMA EachPartSteps ==
    ASSUME [PartsNext]_partVars
    PROVE  /\ UNCHANGED part
           /\ [BusNext]_busVars
           /\ [TopicNext]_topicVars
           /\ [DiscoveryNext]_discoveryVars
           /\ [PipelineNext]_pipeVars
           /\ [FilesNext]_fileVars
           /\ [SerialNext]_serialVars
           /\ [DependencyNext]_dependencyVars
<1>1. CASE UNCHANGED partVars
  BY <1>1 DEF partVars
<1>2. CASE BusNext /\ Only("bus")
  BY <1>2 DEF Only
<1>3. CASE TopicNext /\ Only("topic")
  BY <1>3 DEF Only
<1>4. CASE DiscoveryNext /\ Only("discovery")
  BY <1>4 DEF Only
<1>5. CASE PipelineNext /\ Only("pipeline")
  BY <1>5 DEF Only
<1>6. CASE FilesNext /\ Only("files")
  BY <1>6 DEF Only
<1>7. CASE SerialNext /\ Only("serial")
  BY <1>7 DEF Only
<1>8. CASE DependencyNext /\ Only("order")
  BY <1>8 DEF Only
<1> QED
  BY <1>1, <1>2, <1>3, <1>4, <1>5, <1>6, <1>7, <1>8 DEF PartsNext

LEMMA PartsInvStep ==
    ASSUME ChecksumFits, NoTarget \notin Targets, PartsInv, [PartsNext]_partVars
    PROVE  PartsInv'
<1> USE EachPartSteps DEF PartsInv
<1>1. part' \in Parts
  OBVIOUS
<1>2. BusTyped'
  BY BusTypedNext
<1>3. TopicTypeOK' /\ WindowHonest'
  BY TopicStep
<1>4. DiscoveryTypeOK'
  BY DiscoveryTypeStep
<1>5. PipelineTypeOK'
  BY TypesKept
<1>6. FilesInv'
  BY FilesInvStep
<1>7. SerialTypeOK'
  BY SerialTypeStep
<1>8. SortInv'
  BY SortInvStep
<1> QED
  BY <1>1, <1>2, <1>3, <1>4, <1>5, <1>6, <1>7, <1>8

\* Every variable of every part keeps its type, in any number of workers, nodes,
\* targets and frames, whatever the part does (all parts).
THEOREM PartsTyped ==
    ASSUME ChecksumFits, NoTarget \notin Targets
    PROVE  PartsSpec => []PartsTypeOK
<1>1. PartsInv => PartsTypeOK
  BY DEF PartsInv, PartsTypeOK, BusTyped, FilesInv, SortInv
<1> QED
  BY PartsInvInit, PartsInvStep, <1>1, PTL DEF PartsSpec

=============================================================================
