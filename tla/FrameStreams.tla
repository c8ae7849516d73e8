---------------------------- MODULE FrameStreams ----------------------------
(***************************************************************************)
(* Lemmas about frames in a stream of bytes: how sequences are joined and  *)
(* cut, and what is at hand of a stream whose frames are sent at its end   *)
(* and taken from its beginning.  F[i] is frame i.                         *)
(***************************************************************************)
EXTENDS Integers, Sequences, SequenceTheorems, WellFoundedInduction, TLAPS

CONSTANT B   \* what a stream consists of

LEMMA Joined ==
    ASSUME NEW s \in Seq(B), NEW t \in Seq(B)
    PROVE  /\ s \o t \in Seq(B)
           /\ Len(s \o t) = Len(s) + Len(t)
           /\ \A i \in 1 .. Len(s) : (s \o t)[i] = s[i]
           /\ \A i \in 1 .. Len(t) : (s \o t)[Len(s) + i] = t[i]
  OBVIOUS

LEMMA Associated ==
    ASSUME NEW s \in Seq(B), NEW t \in Seq(B), NEW u \in Seq(B)
    PROVE  (s \o t) \o u = s \o (t \o u)
  BY ConcatAssociative

\* A part of a sequence, possibly an empty one.
LEMMA Cut ==
    ASSUME NEW s \in Seq(B), NEW m \in Nat, NEW n \in Nat, n <= Len(s)
    PROVE  /\ SubSeq(s, m + 1, n) \in Seq(B)
           /\ m <= n => Len(SubSeq(s, m + 1, n)) = n - m
           /\ \A i \in 1 .. n - m : SubSeq(s, m + 1, n)[i] = s[m + i]
  OBVIOUS

\* A set of places that is not empty has a first one.
LEMMA First ==
    ASSUME NEW S \in SUBSET Nat, S # {}
    PROVE  \E p \in S : \A q \in S : p <= q
<1> DEFINE less == OpToRel(<, Nat)
<1>1. PICK p \in S : \A q \in S : ~(<<q, p>> \in less)
  <2> HIDE DEF less
  <2> QED
    BY NatLessThanWellFounded, WFMin DEF less
<1>2. \A q \in S : p <= q
  <2> TAKE q \in S
  <2>1. <<q, p>> \notin {ss \in Nat \X Nat : ss[1] < ss[2]}
    BY <1>1 DEF OpToRel
  <2>2. <<q, p>> \in Nat \X Nat /\ <<q, p>>[1] = q /\ <<q, p>>[2] = p
    OBVIOUS
  <2>3. ~(q < p)
    BY <2>1, <2>2
  <2> QED
    BY <2>3
<1> QED
  BY <1>2

\* A sequence without its first n elements.
Remainder(s, n) == SubSeq(s, n + 1, Len(s))

\* What is dropped from a sequence is dropped from one that begins with it.
LEMMA RemainderJoined ==
    ASSUME NEW s \in Seq(B), NEW t \in Seq(B), NEW n \in Nat, n <= Len(s)
    PROVE  Remainder(s \o t, n) = Remainder(s, n) \o t
<1> DEFINE y == s \o t
           v == Remainder(s, n)
           l == Remainder(y, n)
           r == v \o t
           S == Len(s)
           T == Len(t)
<1>1. /\ y \in Seq(B) /\ Len(y) = Len(s) + Len(t)
      /\ \A i \in 1 .. Len(s) : y[i] = s[i]
      /\ \A i \in 1 .. Len(t) : y[Len(s) + i] = t[i]
  BY Joined, Zenon
<1>2. S \in Nat /\ T \in Nat /\ n <= S
  OBVIOUS
<1> HIDE DEF y
<1>3. /\ v \in Seq(B) /\ Len(v) = S - n /\ \A i \in 1 .. S - n : v[i] = s[n + i]
  BY <1>2, Cut DEF Remainder
<1>4. /\ l \in Seq(B) /\ Len(l) = Len(y) - n
      /\ \A i \in 1 .. Len(y) - n : l[i] = y[n + i]
  <2>1. Len(y) \in Nat /\ n <= Len(y)
    BY <1>1, <1>2
  <2> QED
    BY <1>1, <2>1, Cut DEF Remainder
<1> HIDE DEF v, l
<1>5. /\ r \in Seq(B) /\ Len(r) = Len(v) + Len(t)
      /\ \A i \in 1 .. Len(v) : r[i] = v[i]
      /\ \A i \in 1 .. Len(t) : r[Len(v) + i] = t[i]
  BY <1>3, Joined, Zenon
<1> HIDE DEF r
<1>6. Len(y) = S + T /\ Len(v) = S - n
  BY <1>1, <1>3
<1>7. Len(l) = (S + T) - n /\ Len(r) = (S - n) + T
  BY <1>4, <1>5, <1>6
<1>8. ASSUME NEW i \in 1 .. (S + T) - n PROVE l[i] = r[i]
  <2>1. l[i] = y[n + i]
    BY <1>4, <1>6
  <2>2. CASE i <= S - n
    <3>1. i \in 1 .. S - n /\ n + i \in 1 .. S
      BY <1>2, <2>2
    <3> HIDE DEF S
    <3>2. r[i] = v[i] /\ v[i] = s[n + i]
      BY <1>3, <1>5, <1>6, <3>1
    <3>3. y[n + i] = s[n + i]
      BY <1>1, <3>1 DEF S
    <3> QED
      BY <2>1, <3>2, <3>3
  <2>3. CASE i > S - n
    <3> DEFINE k == i - (S - n)
    <3>1. k \in 1 .. T /\ n + i = S + k /\ i = (S - n) + k
      BY <1>2, <2>3
    <3> HIDE DEF k
    <3>2. y[S + k] = t[k]
      BY <1>1, <3>1 DEF S, T
    <3>3. r[(S - n) + k] = t[k]
      BY <1>5, <1>6, <3>1 DEF T
    <3> QED
      BY <2>1, <3>1, <3>2, <3>3
  <2> QED
    BY <1>2, <2>2, <2>3
<1>9. l = r
  <2>1. Len(l) = Len(r) /\ \A i \in 1 .. Len(l) : l[i] = r[i]
    <3> HIDE DEF S, T
    <3> QED
      BY <1>2, <1>7, <1>8
  <2> QED
    BY <1>4, <1>5, <2>1, SeqEqual
<1> QED
  BY <1>9 DEF l, r, y, v

-----------------------------------------------------------------------------
(***************************************************************************)
(* The stream.  off says where the frames after a end that have been sent, *)
(* up to n, counted from the first byte that is not yet taken; what is at  *)
(* hand of them is rest.                                                   *)
(***************************************************************************)

FramesEnd(F, a, n, off) ==
    /\ off \in [a .. n -> Nat]
    /\ off[a] = 0
    /\ \A i, j \in a .. n : i <= j => off[i] <= off[j]
    /\ \A i \in a + 1 .. n : off[i] = off[i - 1] + Len(F[i])

FramesIn(F, a, n, rest, off) ==
    \A i \in a + 1 .. n : \A k \in 1 .. Len(F[i]) :
        off[i - 1] + k <= Len(rest) => rest[off[i - 1] + k] = F[i][k]

StreamIs(F, a, n, rest, whole) ==
    \E off : /\ FramesEnd(F, a, n, off)
             /\ FramesIn(F, a, n, rest, off)
             /\ Len(rest) <= off[n]
             /\ whole => Len(rest) = off[n]

\* The first of the frames from a + 1 to n.
LEMMA NextOf ==
    ASSUME NEW a \in Nat, NEW n \in Nat, a < n
    PROVE  a + 1 \in a + 1 .. n /\ (a + 1) - 1 = a
  OBVIOUS

\* What is at hand of f is the beginning of f, or f and more.
Begins(buf, f) == \A k \in 1 .. Len(f) : k <= Len(buf) => buf[k] = f[k]

LEMMA FrameTyped ==
    ASSUME NEW F \in Seq(Seq(B)), NEW i \in 1 .. Len(F)
    PROVE  F[i] \in Seq(B) /\ Len(F[i]) \in Nat
<1>1. F[i] \in Seq(B)
  OBVIOUS
<1> QED
  BY <1>1

\* At first nothing is at hand.
LEMMA NothingSent ==
    ASSUME NEW F, NEW whole
    PROVE  StreamIs(F, 0, 0, <<>>, whole)
<1> DEFINE off == [i \in 0 .. 0 |-> 0]
<1>1. FramesEnd(F, 0, 0, off) /\ FramesIn(F, 0, 0, <<>>, off) /\ off[0] = 0
  BY DEF FramesEnd, FramesIn
<1> HIDE DEF off
<1> QED
  BY <1>1 DEF StreamIs

\* Another frame is sent.
LEMMA StreamSent ==
    ASSUME NEW F \in Seq(Seq(B)), NEW a \in Nat, NEW n \in Nat, a <= n, n < Len(F),
           NEW rest \in Seq(B), StreamIs(F, a, n, rest, TRUE)
    PROVE  StreamIs(F, a, n + 1, rest \o F[n + 1], TRUE)
<1>1. PICK off : /\ FramesEnd(F, a, n, off) /\ FramesIn(F, a, n, rest, off)
                 /\ Len(rest) = off[n]
  BY DEF StreamIs
<1> DEFINE w == F[n + 1]
           more == rest \o w
           off2 == [i \in a .. n + 1 |-> IF i = n + 1 THEN off[n] + Len(w) ELSE off[i]]
<1>2. w \in Seq(B) /\ Len(w) \in Nat
  <2>1. n + 1 \in 1 .. Len(F)
    OBVIOUS
  <2> QED
    BY <2>1, FrameTyped
<1> HIDE DEF w
<1>3. /\ more \in Seq(B) /\ Len(more) = Len(rest) + Len(w)
      /\ \A i \in 1 .. Len(rest) : more[i] = rest[i]
      /\ \A i \in 1 .. Len(w) : more[Len(rest) + i] = w[i]
  BY <1>2, Joined, Zenon
<1> HIDE DEF more
<1>4. off \in [a .. n -> Nat] /\ off[n] \in Nat
  BY <1>1 DEF FramesEnd
<1>5. /\ off2 \in [a .. n + 1 -> Nat] /\ off2[n + 1] = off[n] + Len(w)
      /\ \A i \in a .. n : off2[i] = off[i]
  BY <1>2, <1>4
<1> HIDE DEF off2
<1>6. FramesEnd(F, a, n + 1, off2)
  <2>1. ASSUME NEW i \in a .. n + 1, NEW j \in a .. n + 1, i <= j
        PROVE  off2[i] <= off2[j]
    <3>1. \A m \in a .. n : off[m] \in Nat /\ off[m] <= off[n]
      BY <1>1, <1>4 DEF FramesEnd
    <3>2. CASE j = n + 1 /\ i = n + 1
      BY <1>2, <1>4, <1>5, <3>2
    <3>3. CASE j = n + 1 /\ i \in a .. n
      <4>1. off2[i] = off[i] /\ off[i] \in Nat /\ off[i] <= off[n]
        BY <1>5, <3>1, <3>3
      <4> QED
        BY <1>2, <1>4, <1>5, <3>3, <4>1
    <3>4. CASE i \in a .. n /\ j \in a .. n
      <4>1. off[i] <= off[j]
        BY <1>1, <2>1, <3>4 DEF FramesEnd
      <4> QED
        BY <1>5, <3>4, <4>1
    <3> QED
      BY <2>1, <3>2, <3>3, <3>4
  <2>2. \A i \in a + 1 .. n + 1 : off2[i] = off2[i - 1] + Len(F[i])
    <3>1. ASSUME NEW i \in a + 1 .. n PROVE off2[i] = off2[i - 1] + Len(F[i])
      <4>1. i \in a .. n /\ i - 1 \in a .. n
        OBVIOUS
      <4>2. off[i] = off[i - 1] + Len(F[i])
        BY <1>1 DEF FramesEnd
      <4> QED
        BY <1>5, <4>1, <4>2
    <3>2. off2[n + 1] = off2[(n + 1) - 1] + Len(F[n + 1])
      <4>1. (n + 1) - 1 = n /\ n \in a .. n
        OBVIOUS
      <4> QED
        BY <1>5, <4>1 DEF w
    <3>3. \A i \in a + 1 .. n + 1 : i = n + 1 \/ i \in a + 1 .. n
      OBVIOUS
    <3> QED
      BY <3>1, <3>2, <3>3
  <2> QED
    BY <1>1, <1>5, <2>1, <2>2 DEF FramesEnd
<1>7. FramesIn(F, a, n + 1, more, off2)
  <2> SUFFICES ASSUME NEW i \in a + 1 .. n + 1, NEW k \in 1 .. Len(F[i])
               PROVE  more[off2[i - 1] + k] = F[i][k]
    BY DEF FramesIn
  <2>1. CASE i = n + 1
    <3>1. i - 1 \in a .. n /\ i - 1 = n
      BY <2>1
    <3>2. off2[i - 1] = Len(rest)
      BY <1>1, <1>5, <3>1
    <3>3. k \in 1 .. Len(w) /\ F[i] = w
      BY <2>1 DEF w
    <3> QED
      BY <1>3, <3>2, <3>3
  <2>2. CASE i <= n
    <3>1. i \in a + 1 .. n /\ i - 1 \in a .. n
      BY <2>2
    <3>2. off2[i - 1] = off[i - 1] /\ off[i - 1] \in Nat /\ off[i] \in Nat
      BY <1>4, <1>5, <3>1, SMTT(30)
    <3>3. off[i] = off[i - 1] + Len(F[i]) /\ off[i] <= off[n]
      BY <1>1, <3>1 DEF FramesEnd
    <3>4. Len(F[i]) \in Nat
      <4>1. i \in 1 .. Len(F)
        BY <3>1
      <4> QED
        BY <4>1, FrameTyped
    <3>5. off[i - 1] + k \in 1 .. Len(rest)
      <4>1. k \in Nat /\ 1 <= k /\ k <= Len(F[i])
        BY <3>4
      <4> DEFINE l == Len(F[i])
                 p == off[i - 1]
                 e == off[i]
      <4>2. p \in Nat /\ e = p + l /\ e <= off[n] /\ l \in Nat /\ k <= l
        BY <3>2, <3>3, <3>4, <4>1
      <4> HIDE DEF l, p, e
      <4>3. p + k <= off[n]
        BY <1>4, <4>1, <4>2
      <4>4. off[i - 1] + k <= off[n]
        BY <4>3 DEF p
      <4> QED
        BY <1>1, <3>2, <4>1, <4>4
    <3>6. rest[off[i - 1] + k] = F[i][k]
      BY <1>1, <3>1, <3>5 DEF FramesIn
    <3> QED
      BY <1>3, <3>2, <3>5, <3>6
  <2> QED
    BY <2>1, <2>2
<1>8. Len(more) = off2[n + 1] /\ Len(more) \in Nat
  BY <1>1, <1>3, <1>5
<1> QED
  BY <1>6, <1>7, <1>8 DEF StreamIs, more, w

\* The end of what has been sent is lost.
LEMMA StreamLost ==
    ASSUME NEW F \in Seq(Seq(B)), NEW a \in Nat, NEW n \in Nat, a <= n, NEW whole,
           NEW rest \in Seq(B), StreamIs(F, a, n, rest, whole),
           NEW less \in Seq(B), Len(less) <= Len(rest),
           \A i \in 1 .. Len(less) : less[i] = rest[i]
    PROVE  StreamIs(F, a, n, less, FALSE)
<1>1. PICK off : /\ FramesEnd(F, a, n, off) /\ FramesIn(F, a, n, rest, off)
                 /\ Len(rest) <= off[n]
  BY DEF StreamIs
<1>2. off \in [a .. n -> Nat]
  BY <1>1 DEF FramesEnd
<1>3. Len(less) <= off[n]
  BY <1>1, <1>2
<1>4. FramesIn(F, a, n, less, off)
  <2> SUFFICES ASSUME NEW i \in a + 1 .. n, NEW k \in 1 .. Len(F[i]),
                      off[i - 1] + k <= Len(less)
               PROVE  less[off[i - 1] + k] = F[i][k]
    BY DEF FramesIn
  <2>1. off[i - 1] \in Nat
    BY <1>2
  <2>2. off[i - 1] + k \in 1 .. Len(less)
    BY <2>1, SMTT(30)
  <2>3. rest[off[i - 1] + k] = F[i][k]
    BY <1>1, <2>2 DEF FramesIn
  <2> QED
    BY <2>2, <2>3
<1> QED
  BY <1>1, <1>3, <1>4 DEF StreamIs

\* A buffer that holds the beginning of what is at hand begins with the first
\* frame, and is empty when there is none.
LEMMA StreamBegins ==
    ASSUME NEW F \in Seq(Seq(B)), NEW a \in Nat, NEW n \in Nat, a <= n, NEW whole,
           NEW rest \in Seq(B), StreamIs(F, a, n, rest, whole),
           NEW buf \in Seq(B), Len(buf) <= Len(rest),
           \A i \in 1 .. Len(buf) : buf[i] = rest[i]
    PROVE  /\ a = n => Len(buf) = 0
           /\ a < n => Begins(buf, F[a + 1])
<1>1. PICK off : /\ FramesEnd(F, a, n, off) /\ FramesIn(F, a, n, rest, off)
                 /\ Len(rest) <= off[n]
  BY DEF StreamIs
<1>2. off[a] = 0
  BY <1>1 DEF FramesEnd
<1>3. ASSUME a < n, NEW k \in 1 .. Len(F[a + 1]), k <= Len(buf)
      PROVE  buf[k] = F[a + 1][k]
  <2>1. a + 1 \in a + 1 .. n /\ (a + 1) - 1 = a /\ 0 + k = k
    <3>1. a + 1 \in a + 1 .. n /\ (a + 1) - 1 = a
      BY <1>3, NextOf
    <3>2. k \in Int
      OBVIOUS
    <3> QED
      BY <3>1, <3>2
  <2>2. off[(a + 1) - 1] + k <= Len(rest)
            => rest[off[(a + 1) - 1] + k] = F[a + 1][k]
    BY <1>1, <2>1 DEF FramesIn
  <2>3. off[(a + 1) - 1] + k = k /\ k <= Len(rest)
    BY <1>2, <1>3, <2>1
  <2> QED
    BY <1>3, <2>2, <2>3
<1>4. a = n => Len(buf) = 0
  BY <1>1, <1>2
<1> QED
  BY <1>3, <1>4 DEF Begins

\* When nothing is lost the first frame is at hand as a whole.
LEMMA StreamHolds ==
    ASSUME NEW F \in Seq(Seq(B)), NEW a \in Nat, NEW n \in Nat, a < n, n <= Len(F),
           NEW rest \in Seq(B), StreamIs(F, a, n, rest, TRUE)
    PROVE  Len(F[a + 1]) <= Len(rest)
<1>1. PICK off : FramesEnd(F, a, n, off) /\ Len(rest) = off[n]
  BY DEF StreamIs
<1>2. off \in [a .. n -> Nat] /\ off[a] = 0
  BY <1>1 DEF FramesEnd
<1>3. a + 1 \in a + 1 .. n /\ (a + 1) - 1 = a /\ a + 1 \in a .. n /\ n \in a .. n /\ a + 1 <= n
  OBVIOUS
<1>4. a + 1 \in 1 .. Len(F)
  OBVIOUS
<1>5. Len(F[a + 1]) \in Nat
  BY <1>4, FrameTyped
<1>6. off[a + 1] = Len(F[a + 1])
  <2>1. off[a + 1] = off[a] + Len(F[a + 1])
    BY <1>1, <1>3 DEF FramesEnd
  <2> QED
    BY <1>2, <1>5, <2>1
<1>7. off[a + 1] <= off[n]
  BY <1>1, <1>3 DEF FramesEnd
<1> QED
  BY <1>1, <1>6, <1>7

\* The first frame is taken out.
LEMMA StreamTaken ==
    ASSUME NEW F \in Seq(Seq(B)), NEW a \in Nat, NEW n \in Nat, a < n, n <= Len(F),
           NEW whole, NEW rest \in Seq(B), StreamIs(F, a, n, rest, whole),
           Len(F[a + 1]) <= Len(rest)
    PROVE  StreamIs(F, a + 1, n, Remainder(rest, Len(F[a + 1])), whole)
<1>1. PICK off : /\ FramesEnd(F, a, n, off) /\ FramesIn(F, a, n, rest, off)
                 /\ Len(rest) <= off[n] /\ (whole => Len(rest) = off[n])
  BY DEF StreamIs
<1> DEFINE w == Len(F[a + 1])
           left == Remainder(rest, w)
           off2 == [i \in a + 1 .. n |-> off[i] - w]
<1>2. \A i \in a + 1 .. n : Len(F[i]) \in Nat
  <2>1. \A i \in a + 1 .. n : i \in 1 .. Len(F)
    OBVIOUS
  <2> QED
    BY <2>1, FrameTyped
<1>3. w \in Nat
  BY <1>2
<1> HIDE DEF w
<1>4. /\ left \in Seq(B) /\ Len(left) = Len(rest) - w
      /\ \A i \in 1 .. Len(left) : left[i] = rest[w + i]
  <2>1. Len(rest) \in Nat /\ w <= Len(rest) /\ Len(rest) <= Len(rest)
    BY DEF w
  <2>2. /\ left \in Seq(B)
        /\ w <= Len(rest) => Len(left) = Len(rest) - w
        /\ \A i \in 1 .. Len(rest) - w : left[i] = rest[w + i]
    <3> HIDE DEF w
    <3> QED
      BY <1>3, <2>1, Cut, Zenon DEF Remainder
  <2> HIDE DEF left, w
  <2> QED
    BY <2>1, <2>2
<1> HIDE DEF left
<1>5. /\ Len(left) \in Nat /\ Len(rest) \in Nat /\ Len(left) = Len(rest) - w
  BY <1>4
<1>6. off \in [a .. n -> Nat] /\ off[a] = 0
  BY <1>1 DEF FramesEnd
<1>7. off[a + 1] = w
  <2>1. a + 1 \in a + 1 .. n /\ (a + 1) - 1 = a
    BY NextOf
  <2>2. off[a + 1] = off[a] + w
    BY <1>1, <2>1 DEF FramesEnd, w
  <2> QED
    BY <1>3, <1>6, <2>2
<1>8. \A i \in a + 1 .. n : off[i] \in Nat /\ w <= off[i]
  <2> TAKE i \in a + 1 .. n
  <2>1. i \in a .. n /\ a + 1 \in a .. n /\ a + 1 <= i
    OBVIOUS
  <2>2. off[a + 1] <= off[i]
    BY <1>1, <2>1 DEF FramesEnd
  <2> QED
    BY <1>6, <1>7, <2>1, <2>2
<1>9. off2 \in [a + 1 .. n -> Nat] /\ \A i \in a + 1 .. n : off2[i] = off[i] - w
  BY <1>3, <1>8
<1> HIDE DEF off2
<1>10. FramesEnd(F, a + 1, n, off2)
  <2>1. off2[a + 1] = 0
    BY <1>3, <1>7, <1>9
  <2>2. ASSUME NEW i \in a + 1 .. n, NEW j \in a + 1 .. n, i <= j
        PROVE  off2[i] <= off2[j]
    <3>1. i \in a .. n /\ j \in a .. n
      OBVIOUS
    <3>2. off[i] <= off[j]
      BY <1>1, <2>2, <3>1 DEF FramesEnd
    <3>3. off[i] \in Nat /\ off[j] \in Nat /\ off2[i] = off[i] - w /\ off2[j] = off[j] - w
      BY <1>8, <1>9
    <3> QED
      BY <1>3, <3>2, <3>3
  <2>3. ASSUME NEW i \in (a + 1) + 1 .. n PROVE off2[i] = off2[i - 1] + Len(F[i])
    <3>1. i \in a + 1 .. n /\ i - 1 \in a + 1 .. n
      OBVIOUS
    <3>2. off[i] = off[i - 1] + Len(F[i])
      BY <1>1, <3>1 DEF FramesEnd
    <3>3. off2[i] = off[i] - w /\ off2[i - 1] = off[i - 1] - w
      BY <1>9, <3>1
    <3>4. off[i] \in Nat /\ off[i - 1] \in Nat /\ Len(F[i]) \in Nat
      BY <1>2, <1>8, <3>1
    <3> QED
      BY <1>3, <3>2, <3>3, <3>4, SMTT(30)
  <2> QED
    BY <1>9, <2>1, <2>2, <2>3 DEF FramesEnd
<1>11. FramesIn(F, a + 1, n, left, off2)
  <2> SUFFICES ASSUME NEW i \in (a + 1) + 1 .. n, NEW k \in 1 .. Len(F[i]),
                      off2[i - 1] + k <= Len(left)
               PROVE  left[off2[i - 1] + k] = F[i][k]
    BY DEF FramesIn
  <2>1. i \in a + 1 .. n /\ i - 1 \in a + 1 .. n /\ k \in Nat
    BY <1>2
  <2>2. off2[i - 1] = off[i - 1] - w /\ off2[i - 1] \in Nat /\ off[i - 1] \in Nat
    BY <1>8, <1>9, <2>1
  <2> DEFINE p == off2[i - 1]
  <2>3. p + k <= Len(left) /\ k >= 1
    BY <1>2
  <2>4. off[i - 1] = p + w /\ p \in Nat
    BY <1>3, <2>2
  <2> HIDE DEF p
  <2>5. p + k \in 1 .. Len(left) /\ w + (p + k) = off[i - 1] + k
    BY <1>3, <1>5, <2>1, <2>3, <2>4
  <2>6. off[i - 1] + k <= Len(rest)
    BY <1>3, <1>5, <2>1, <2>3, <2>4
  <2>7. rest[off[i - 1] + k] = F[i][k]
    BY <1>1, <2>1, <2>6 DEF FramesIn
  <2> QED
    BY <1>4, <2>7, <2>5 DEF p
<1>12. Len(left) <= off2[n] /\ (whole => Len(left) = off2[n])
  <2>1. n \in a + 1 .. n
    OBVIOUS
  <2>2. off2[n] = off[n] - w /\ off[n] \in Nat
    BY <1>8, <1>9, <2>1
  <2>3. Len(rest) <= off[n] /\ (whole => Len(rest) = off[n])
    BY <1>1
  <2>4. Len(left) = Len(rest) - w /\ Len(rest) \in Nat
    BY <1>5
  <2> DEFINE x == Len(left)
             r == Len(rest)
             e == off[n]
  <2>5. off2[n] = e - w /\ e \in Nat /\ x = r - w /\ r \in Nat /\ r <= e
    BY <2>2, <2>3, <2>4
  <2>6. whole => r = e
    BY <2>3
  <2> HIDE DEF w, x, r, e
  <2>7. x <= off2[n] /\ (r = e => x = off2[n])
    BY <1>3, <2>5
  <2> QED
    BY <2>6, <2>7 DEF x
<1> QED
  BY <1>10, <1>11, <1>12 DEF StreamIs, left, w

=============================================================================
