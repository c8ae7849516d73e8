----------------------- MODULE HeartbeatMonitorProofs -----------------------
(***************************************************************************)
(* Proofs about HeartbeatMonitor, for every set of services, every         *)
(* time-out and every offset of the clocks.                                *)
(***************************************************************************)
EXTENDS HeartbeatMonitor, SequenceTheorems, TLAPS

\* TypeOK alone does not survive Check and EndPass; the steps also need that a
\* lag is only ever positive, which its range says.
Inv == TypeOK /\ TimeoutJustified /\ TimeoutTold

LEMMA CappedInt == ASSUME NEW s \in Targets, NEW a \in Int PROVE Capped(s, a) \in Int
  BY HeartbeatAssumption DEF Capped, Cap

\* Ages grow, up to a cap that is beyond the time-out: a service that has been
\* silent for too long stays so as time passes.
LEMMA CappedLate ==
    ASSUME NEW s \in Targets, NEW a \in Int, a > Timeout[s]
    PROVE  Capped(s, a + 1) > Timeout[s]
  BY HeartbeatAssumption DEF Capped, Cap

LEMMA InitInv == Init => Inv
<1>. SUFFICES ASSUME Init PROVE Inv
  OBVIOUS
<1>1. TypeOK
  <2>1. age \in [Targets -> Int]
    BY HeartbeatAssumption DEF Init, Cap
  <2>2. incoming \in [Targets -> Seq(Int)]
    BY DEF Init
  <2>3. status \in [Targets -> Statuses] /\ told \in [Targets -> Statuses]
    BY DEF Init, Statuses
  <2>4. lag \in 0 .. MaxLag /\ lag = 0
    BY HeartbeatAssumption DEF Init
  <2>5. changes \in SUBSET Targets /\ changes = {}
    BY DEF Init
  <2>6. alive \in SUBSET Targets /\ running \in BOOLEAN /\ phase \in Phases
    BY DEF Init, Phases
  <2>. QED
    BY <2>1, <2>2, <2>3, <2>4, <2>5, <2>6 DEF TypeOK
<1>. QED
  BY <1>1 DEF Init, Inv, TimeoutJustified, TimeoutTold

\* Every action keeps the types.
LEMMA TypeStep == TypeOK /\ [Next]_vars => TypeOK'
<1>. SUFFICES ASSUME TypeOK, [Next]_vars PROVE TypeOK'
  OBVIOUS
<1>1. CASE Tick
  <2>1. age' \in [Targets -> Int]
    BY <1>1, CappedInt DEF Tick, TypeOK
  <2>2. incoming' \in [Targets -> Seq(Int)]
    <3>1. ASSUME NEW s \in Targets
          PROVE  [i \in DOMAIN incoming[s] |-> Capped(s, incoming[s][i] + 1)] \in Seq(Int)
      <4>1. incoming[s] \in Seq(Int)
        BY DEF TypeOK
      <4>2. DOMAIN incoming[s] = 1 .. Len(incoming[s]) /\ Len(incoming[s]) \in Nat
        BY <4>1
      <4>3. ASSUME NEW i \in 1 .. Len(incoming[s])
            PROVE  Capped(s, incoming[s][i] + 1) \in Int
        <5>1. incoming[s][i] \in Int
          BY <4>1
        <5>2. incoming[s][i] + 1 \in Int
          BY <5>1
        <5>. QED
          BY <5>2, CappedInt
      <4>. QED
        BY <4>2, <4>3
    <3>. QED
      BY <1>1, <3>1 DEF Tick
  <2>3. lag' \in 0 .. MaxLag /\ (phase' # "check" => lag' = 0)
    BY <1>1, HeartbeatAssumption DEF Tick, TypeOK
  <2>. QED
    BY <1>1, <2>1, <2>2, <2>3 DEF Tick, TypeOK
<1>2. CASE Start
  BY <1>2 DEF Start, TypeOK, Phases
<1>3. CASE Stop
  BY <1>3 DEF Stop, TypeOK
<1>4. CASE Leave
  BY <1>4 DEF Leave, TypeOK, Phases
<1>5. CASE ReadClock
  BY <1>5, HeartbeatAssumption DEF ReadClock, TypeOK, Phases
<1>6. CASE Check
  <2>1. status' \in [Targets -> Statuses]
    BY <1>6 DEF Check, TypeOK, Statuses
  <2>. QED
    BY <1>6, <2>1, HeartbeatAssumption DEF Check, TypeOK, Phases
<1>7. CASE Notify
  BY <1>7 DEF Notify, TypeOK, Statuses
<1>8. CASE EndPass
  BY <1>8 DEF EndPass, TypeOK, Phases
<1>9. ASSUME NEW s \in Targets, Send(s) PROVE TypeOK'
  <2>1. incoming[s] \in Seq(Int)
    BY DEF TypeOK
  <2>2. Stamp(s) \in Int
    <3>1. -Ahead[s] \in Int
      BY HeartbeatAssumption
    <3>. QED
      BY <3>1, CappedInt DEF Stamp
  <2>3. Append(IF Len(incoming[s]) < Depth THEN incoming[s] ELSE Tail(incoming[s]), Stamp(s))
            \in Seq(Int)
    <3>1. CASE Len(incoming[s]) < Depth
      BY <2>1, <2>2, <3>1
    <3>2. CASE ~(Len(incoming[s]) < Depth)
      <4>1. incoming[s] # <<>>
        BY <2>1, <3>2, HeartbeatAssumption
      <4>2. Tail(incoming[s]) \in Seq(Int)
        BY <2>1, <4>1
      <4>. QED
        BY <2>2, <3>2, <4>2
    <3>. QED
      BY <3>1, <3>2
  <2>4. incoming' \in [Targets -> Seq(Int)]
    BY <1>9, <2>3 DEF Send, TypeOK
  <2>. QED
    BY <1>9, <2>4 DEF Send, TypeOK
<1>10. ASSUME NEW s \in Targets, Die(s) \/ Revive(s) PROVE TypeOK'
  BY <1>10 DEF Die, Revive, TypeOK
<1>11. ASSUME NEW s \in Targets, OnHeartbeat(s) PROVE TypeOK'
  <2>1. incoming[s] \in Seq(Int) /\ incoming[s] # <<>>
    BY <1>11 DEF OnHeartbeat, SetStatus, TypeOK
  <2>2. Head(incoming[s]) \in Int /\ Tail(incoming[s]) \in Seq(Int)
    BY <2>1
  <2>3. age' \in [Targets -> Int] /\ incoming' \in [Targets -> Seq(Int)]
    BY <1>11, <2>2 DEF OnHeartbeat, SetStatus, TypeOK
  <2>4. status' \in [Targets -> Statuses] /\ told' \in [Targets -> Statuses]
    BY <1>11 DEF OnHeartbeat, SetStatus, TypeOK, Statuses
  <2>. QED
    BY <1>11, <2>3, <2>4 DEF OnHeartbeat, SetStatus, TypeOK
<1>12. CASE UNCHANGED vars
  BY <1>12 DEF vars, TypeOK
<1>. QED
  BY <1>1, <1>2, <1>3, <1>4, <1>5, <1>6, <1>7, <1>8, <1>9, <1>10, <1>11, <1>12
     DEF Next, CheckLoop

\* Only Check times a service out, by an age its "now" underrates; only
\* OnHeartbeat makes an age smaller, and it makes the service Online.
LEMMA JustifiedStep == TypeOK /\ TimeoutJustified /\ [Next]_vars => TimeoutJustified'
<1>. SUFFICES ASSUME TypeOK, TimeoutJustified, [Next]_vars,
                     NEW t \in Targets, status'[t] = "Timeout"
              PROVE  age'[t] > Timeout[t]
  BY DEF TimeoutJustified
<1>1. CASE Tick
  BY <1>1, CappedLate DEF Tick, TypeOK, TimeoutJustified
<1>2. CASE Check
  <2>1. age' = age /\ (Silent(t) \/ status[t] = "Timeout")
    BY <1>2 DEF Check
  <2>2. Silent(t) => age[t] > Timeout[t]
    BY HeartbeatAssumption DEF Silent, TypeOK
  <2>. QED
    BY <2>1, <2>2 DEF TimeoutJustified
<1>3. ASSUME NEW s \in Targets, OnHeartbeat(s) PROVE age'[t] > Timeout[t]
  <2>1. t # s
    BY <1>3 DEF OnHeartbeat, SetStatus, TypeOK
  <2>. QED
    BY <1>3, <2>1 DEF OnHeartbeat, SetStatus, TypeOK, TimeoutJustified
<1>4. CASE UNCHANGED <<status, age>>
  BY <1>4 DEF TimeoutJustified
<1>. QED
  BY <1>1, <1>2, <1>3, <1>4
     DEF Next, CheckLoop, Start, Stop, Leave, ReadClock, Notify, EndPass,
         Send, Die, Revive, vars

\* Check puts every service it times out on its list, Notify takes it off when
\* it has told, and EndPass waits for the list to be empty.
LEMMA ToldStep == TypeOK /\ TimeoutTold /\ [Next]_vars => TimeoutTold'
<1>. SUFFICES ASSUME TypeOK, TimeoutTold, [Next]_vars,
                     NEW t \in Targets, status'[t] = "Timeout"
              PROVE  told'[t] = "Timeout" \/ t \in changes'
  BY DEF TimeoutTold
<1>1. CASE Check
  <2>1. phase = "check" /\ changes = {}
    BY <1>1 DEF Check, TypeOK
  <2>. QED
    BY <1>1, <2>1 DEF Check, TimeoutTold
<1>2. CASE Notify
  BY <1>2 DEF Notify, TypeOK, TimeoutTold
<1>3. ASSUME NEW s \in Targets, OnHeartbeat(s)
      PROVE  told'[t] = "Timeout" \/ t \in changes'
  <2>1. t # s
    BY <1>3 DEF OnHeartbeat, SetStatus, TypeOK
  <2>. QED
    BY <1>3, <2>1 DEF OnHeartbeat, SetStatus, TypeOK, TimeoutTold
<1>4. CASE UNCHANGED <<status, told, changes>>
  BY <1>4 DEF TimeoutTold
<1>. QED
  BY <1>1, <1>2, <1>3, <1>4
     DEF Next, CheckLoop, Tick, Start, Stop, Leave, ReadClock, EndPass,
         Send, Die, Revive, vars

LEMMA Invariance == Spec => []Inv
<1>1. Inv /\ [Next]_vars => Inv'
  BY TypeStep, JustifiedStep, ToldStep DEF Inv
<1>. QED
  BY InitInv, <1>1, PTL DEF Spec

\* The types; time-outs to report only while CheckLoop reports them.
THEOREM HeartbeatTypeCorrect == Spec => []TypeOK
  BY Invariance, PTL DEF Inv

\* CheckLoop times a service out only when its last timestamp is older than its
\* time-out, however the clock reading, the lock and OnHeartbeat interleave.
THEOREM HeartbeatJustified == Spec => []TimeoutJustified
  BY Invariance, PTL DEF Inv

\* Whoever is timed out has been reported, or stands on CheckLoop's list.
THEOREM HeartbeatTold == Spec => []TimeoutTold
  BY Invariance, PTL DEF Inv

=============================================================================
