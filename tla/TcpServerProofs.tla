-------------------------- MODULE TcpServerProofs ---------------------------
(***************************************************************************)
(* For every set of clients, every workload, every token and every check   *)
(* byte: when stop() has returned, no thread and no connection is left; no *)
(* request is carried out before its session was granted access; what is   *)
(* kept of the connections are bytes; and messages that arrive undamaged   *)
(* are answered in order, however the stream is cut.                       *)
(***************************************************************************)
EXTENDS TcpServer, FiniteSetTheorems, SequenceTheorems, TLAPS

-----------------------------------------------------------------------------
(***************************************************************************)
(* The inductive invariant.                                                *)
(***************************************************************************)

Shape ==
    /\ running \in BOOLEAN
    /\ owner \in {"idle", "close", "joinAcceptor", "joinSessions"}
    /\ listener \in {"open", "closed"}
    /\ acceptor \in {"none", "top", "accept", "spawn", "ended"}
    /\ taken \in Clients \cup {NoClient}
    /\ session \in [Clients -> {"none", "top", "poll", "parse", "act", "ended"}]
    /\ conn \in [Clients -> {"none", "pending", "open", "refused", "closed"}]

\* How far start() and stop() have come.
StopFits ==
    /\ running => owner = "idle" /\ listener = "open"
    /\ owner \in {"joinAcceptor", "joinSessions"} => listener = "closed"
    /\ owner = "joinSessions" => acceptor = "none"
    /\ ~running /\ owner = "idle" =>
           /\ listener = "closed" /\ acceptor = "none"
           /\ \A c \in Clients : ~Live(c)

\* A connection is open from accept4 to the end of its session, and waits only
\* where somebody listens.
ConnectionsFit ==
    /\ (acceptor = "spawn") <=> (taken # NoClient)
    /\ \A c \in Clients :
           /\ (conn[c] = "open") <=> (Live(c) \/ taken = c)
           /\ conn[c] = "pending" => Listening /\ session[c] = "none"
           /\ conn[c] = "none" => session[c] = "none"
           /\ taken = c => session[c] = "none"

Inv == Shape /\ StopFits /\ ConnectionsFit

LEMMA NoneTaken == NoClient \notin Clients
  BY GatewayAssumption DEF GatewayAssumption

\* Initially the server is stopped and nobody is connected.
LEMMA InitInv == Init => Inv
<1> SUFFICES ASSUME Init PROVE Inv
  OBVIOUS
<1>1. Shape
  BY DEF Init, Shape
<1>2. StopFits
  BY DEF Init, StopFits, Live
<1>3. ConnectionsFit
  BY NoneTaken DEF Init, ConnectionsFit, Live
<1> QED
  BY <1>1, <1>2, <1>3 DEF Inv

\* Connections, messages and hang-ups of clients.
LEMMA ClientKeepsInv ==
    ASSUME Inv, NEW c \in Clients, Client(c)
    PROVE  Inv'
<1> USE DEF Inv, Shape, StopFits, ConnectionsFit, Live, Listening, serverVars
<1>1. CASE Connect(c)
  BY <1>1 DEF Connect
<1>2. CASE Send(c) \/ HangUp(c)
  <2>1. UNCHANGED <<running, owner, listener, acceptor, taken, session, conn>>
    BY <1>2 DEF Send, HangUp
  <2> QED
    BY <2>1
<1> QED
  BY <1>1, <1>2 DEF Client

\* start() and stop().
LEMMA OwnerKeepsInv ==
    ASSUME Inv, Start \/ Stop \/ StopSteps
    PROVE  Inv'
<1> USE GatewayAssumption
    DEF GatewayAssumption, Inv, Shape, StopFits, ConnectionsFit, Live, Listening,
        clientVars, dataVars
<1>1. CASE Start
  BY <1>1 DEF Start
<1>2. CASE Stop
  BY <1>2 DEF Stop
<1>3. CASE CloseListener
  BY <1>3 DEF CloseListener, Refused
<1>4. CASE JoinAcceptor
  BY <1>4 DEF JoinAcceptor
<1>5. CASE JoinSessions
  BY <1>5 DEF JoinSessions
<1> QED
  BY <1>1, <1>2, <1>3, <1>4, <1>5 DEF StopSteps

\* acceptor_loop.
LEMMA AcceptorKeepsInv ==
    ASSUME Inv, AcceptorLoop \/ AcceptFails
    PROVE  Inv'
<1> USE GatewayAssumption
    DEF GatewayAssumption, Inv, Shape, StopFits, ConnectionsFit, Live, Listening,
        clientVars, dataVars
<1>1. CASE AcceptorTurn
  BY <1>1 DEF AcceptorTurn
<1>2. CASE Accept
  BY <1>2 DEF Accept, Refused
<1>3. CASE AcceptFails
  BY <1>3 DEF AcceptFails, Refused
<1>4. CASE Spawn
  BY <1>4 DEF Spawn
<1> QED
  BY <1>1, <1>2, <1>3, <1>4 DEF AcceptorLoop

\* What a step of a session does to the state Inv is about: it goes on, or it
\* closes its connection and ends.
SessionMoves(c) ==
    /\ Live(c)
    /\ \/ /\ \E phase \in {"top", "poll", "parse", "act"} : GoTo(c, phase)
          /\ UNCHANGED conn
       \/ Close(c)
    /\ UNCHANGED <<running, owner, listener, acceptor, taken>>

LEMMA SessionStepMoves ==
    ASSUME NEW c \in Clients, ClientSession(c)
    PROVE  SessionMoves(c)
<1> USE DEF SessionMoves, Live, At, serverVars
<1>1. CASE SessionTurn(c)
  BY <1>1 DEF SessionTurn
<1>2. CASE PollTimeout(c) \/ Read(c) \/ EndOfStream(c)
  BY <1>2 DEF PollTimeout, Read, EndOfStream
<1>3. CASE ParseFrame(c) \/ NeedMore(c) \/ Skip(c)
  BY <1>3 DEF ParseFrame, NeedMore, Skip
<1>4. CASE Handle(c)
  BY <1>4 DEF Handle
<1> QED
  BY <1>1, <1>2, <1>3, <1>4 DEF ClientSession

\* client_session.
LEMMA SessionKeepsInv ==
    ASSUME Inv, NEW c \in Clients, ClientSession(c)
    PROVE  Inv'
<1>1. SessionMoves(c)
  BY SessionStepMoves
<1> QED
  BY <1>1, NoneTaken
     DEF SessionMoves, GoTo, Close, Inv, Shape, StopFits, ConnectionsFit, Live, Listening

\* The invariant is inductive.
LEMMA StepKeepsInv == Inv /\ [Next]_vars => Inv'
<1> SUFFICES ASSUME Inv, [Next]_vars PROVE Inv'
  OBVIOUS
<1>1. CASE Next
  BY <1>1, ClientKeepsInv, OwnerKeepsInv, AcceptorKeepsInv, SessionKeepsInv DEF Next
<1>2. CASE UNCHANGED vars
  BY <1>2 DEF vars, serverVars, Inv, Shape, StopFits, ConnectionsFit, Live, Listening
<1> QED
  BY <1>1, <1>2

\* When stop() has returned, the acceptor has ended, no session runs and no
\* connection is open or waiting, although a connection may be accepted after
\* running_ is FALSE.
THEOREM StopLeavesNothing == Spec => []NothingLeft
<1>1. Inv => NothingLeft
  BY GatewayAssumption
     DEF GatewayAssumption, Inv, Shape, StopFits, ConnectionsFit, NothingLeft, Live, Listening
<1> QED
  BY InitInv, StepKeepsInv, <1>1, PTL DEF Spec

-----------------------------------------------------------------------------
(***************************************************************************)
(* Authentication.                                                         *)
(***************************************************************************)

Granted(q) == \E j \in 1 .. Len(q) : q[j].verdict = "granted"

DoneAfterGranted(q) ==
    \A i \in 1 .. Len(q) :
        q[i].verdict = "done" => Token = <<>> \/ \E j \in 1 .. i - 1 : q[j].verdict = "granted"

\* A session that counts as logged in has answered so.
LoginInv ==
    /\ answers = [c \in Clients |-> answers[c]]
    /\ loggedIn \in [Clients -> BOOLEAN]
    /\ \A c \in Clients :
           /\ \E S : answers[c] \in Seq(S)
           /\ loggedIn[c] => Granted(answers[c])
           /\ DoneAfterGranted(answers[c])

\* One more response after those that are there.
LEMMA OneMore ==
    ASSUME NEW S, NEW q \in Seq(S), NEW a
    PROVE  /\ Append(q, a) \in Seq(S \cup {a})
           /\ Len(Append(q, a)) = Len(q) + 1
           /\ \A i \in 1 .. Len(q) : Append(q, a)[i] = q[i]
           /\ Append(q, a)[Len(q) + 1] = a
<1>1. q \in Seq(S \cup {a}) /\ a \in S \cup {a}
  OBVIOUS
<1> QED
  BY <1>1

\* A grant stays, and "done" may follow it.
LEMMA OneMoreFits ==
    ASSUME NEW S, NEW q \in Seq(S), NEW a, DoneAfterGranted(q),
           a.verdict = "done" => Token = <<>> \/ Granted(q)
    PROVE  /\ DoneAfterGranted(Append(q, a))
           /\ Granted(q) \/ a.verdict = "granted" => Granted(Append(q, a))
<1> DEFINE r == Append(q, a)
<1>1. /\ Len(r) = Len(q) + 1 /\ Len(q) \in Nat
      /\ \A i \in 1 .. Len(q) : r[i] = q[i]
      /\ r[Len(q) + 1] = a
  BY OneMore
<1> HIDE DEF r
<1>2. DoneAfterGranted(r)
  <2> SUFFICES ASSUME NEW i \in 1 .. Len(r), r[i].verdict = "done", Token # <<>>
               PROVE  \E j \in 1 .. i - 1 : r[j].verdict = "granted"
    BY DEF DoneAfterGranted
  <2>1. CASE i \in 1 .. Len(q)
    <3>1. PICK j \in 1 .. i - 1 : q[j].verdict = "granted"
      BY <1>1, <2>1 DEF DoneAfterGranted
    <3> QED
      BY <1>1, <2>1, <3>1
  <2>2. CASE i = Len(q) + 1
    BY <1>1, <2>2 DEF Granted
  <2> QED
    BY <1>1, <2>1, <2>2
<1>3. Granted(q) \/ a.verdict = "granted" => Granted(r)
  BY <1>1 DEF Granted
<1> QED
  BY <1>2, <1>3 DEF r

\* Nothing is answered yet.
LEMMA InitLogin == Init => LoginInv
<1> SUFFICES ASSUME Init PROVE LoginInv
  OBVIOUS
<1>1. \A c \in Clients : answers[c] = <<>> /\ answers[c] \in Seq({})
  BY DEF Init
<1>2. \A c \in Clients : \E S : answers[c] \in Seq(S)
  BY <1>1
<1> QED
  BY <1>1, <1>2 DEF Init, LoginInv, Granted, DoneAfterGranted

\* The frame of a session: a refused one, a login, or a request.
LEMMA HandleKeepsLogin ==
    ASSUME LoginInv, NEW c \in Clients, Handle(c)
    PROVE  LoginInv'
<1> DEFINE Answers(cmd, verdict) ==
               answers' = [answers EXCEPT
                   ![c] = Append(@, [cmd |-> cmd, verdict |-> verdict])]
           Fits(verdict) ==
               /\ verdict = "done" => loggedIn[c] \/ Token = <<>>
               /\ \/ UNCHANGED loggedIn
                  \/ loggedIn' = [loggedIn EXCEPT ![c] = TRUE] /\ verdict = "granted"
<1>1. PICK cmd, verdict : Answers(cmd, verdict) /\ Fits(verdict)
  <2> DEFINE cmd == Request(accum[c]).cmd
  <2>1. CASE Answers(cmd, "done") /\ Fits("done")
    BY <2>1
  <2>2. CASE Answers(cmd, "granted") /\ Fits("granted")
    BY <2>2
  <2>3. CASE Answers(cmd, "denied") /\ Fits("denied")
    BY <2>3
  <2>4. \/ Answers(cmd, "done") /\ Fits("done")
        \/ Answers(cmd, "granted") /\ Fits("granted")
        \/ Answers(cmd, "denied") /\ Fits("denied")
    BY DEF Handle, Respond
  <2> QED
    BY <2>1, <2>2, <2>3, <2>4
<1> DEFINE a == [cmd |-> cmd, verdict |-> verdict]
<1>2. PICK S : answers[c] \in Seq(S)
  BY DEF LoginInv
<1>3. /\ answers'[c] = Append(answers[c], a)
      /\ \A d \in Clients \ {c} : answers'[d] = answers[d]
      /\ answers' = [d \in Clients |-> answers'[d]]
  BY <1>1 DEF LoginInv
<1>4. a.verdict = verdict
  OBVIOUS
<1> HIDE DEF a
<1>5. DoneAfterGranted(answers'[c]) /\ (loggedIn[c] \/ verdict = "granted" => Granted(answers'[c]))
  BY <1>1, <1>2, <1>3, <1>4, OneMoreFits DEF LoginInv
<1>6. \E T : answers'[c] \in Seq(T)
  <2>1. answers'[c] \in Seq(S \cup {a})
    BY <1>2, <1>3, OneMore
  <2> QED
    BY <2>1
<1>7. loggedIn' \in [Clients -> BOOLEAN] /\ (loggedIn'[c] => loggedIn[c] \/ verdict = "granted")
      /\ \A d \in Clients \ {c} : loggedIn'[d] = loggedIn[d]
  BY <1>1 DEF LoginInv
<1>8. ASSUME NEW d \in Clients
      PROVE  /\ \E T : answers'[d] \in Seq(T)
             /\ loggedIn'[d] => Granted(answers'[d])
             /\ DoneAfterGranted(answers'[d])
  <2>1. CASE d = c
    BY <2>1, <1>5, <1>6, <1>7
  <2>2. CASE d # c
    BY <2>2, <1>3, <1>7 DEF LoginInv
  <2> QED
    BY <2>1, <2>2
<1> QED
  BY <1>3, <1>7, <1>8 DEF LoginInv, Granted, DoneAfterGranted

\* Every other step leaves answers and logins alone.
LEMMA StepKeepsLogin == LoginInv /\ [Next]_vars => LoginInv'
<1> SUFFICES ASSUME LoginInv, [Next]_vars PROVE LoginInv'
  OBVIOUS
<1>1. ASSUME UNCHANGED <<answers, loggedIn>> PROVE LoginInv'
  BY <1>1 DEF LoginInv, Granted, DoneAfterGranted
<1>2. CASE Start \/ Stop \/ StopSteps
  BY <1>1, <1>2 DEF Start, Stop, StopSteps, CloseListener, JoinAcceptor, JoinSessions, dataVars
<1>3. CASE AcceptorLoop \/ AcceptFails
  BY <1>1, <1>3 DEF AcceptorLoop, AcceptorTurn, Accept, Spawn, AcceptFails, dataVars
<1>4. ASSUME NEW c \in Clients, Client(c) PROVE LoginInv'
  BY <1>1, <1>4 DEF Client, Connect, Send, HangUp, dataVars
<1>5. ASSUME NEW c \in Clients, ClientSession(c), ~Handle(c) PROVE LoginInv'
  BY <1>1, <1>5 DEF ClientSession, SessionTurn, PollTimeout, Read, EndOfStream, ParseFrame,
                    NeedMore, Skip, dataVars
<1>6. CASE UNCHANGED vars
  BY <1>1, <1>6 DEF vars, dataVars
<1> QED
  BY <1>2, <1>3, <1>4, <1>5, <1>6, HandleKeepsLogin DEF Next

\* With a token configured, no request is handed to the dispatcher before the
\* session has answered a login with the right token, whatever bytes arrive.
THEOREM LoginFirst == Spec => []GrantedFirst
<1>1. LoginInv => GrantedFirst
  BY DEF LoginInv, GrantedFirst, DoneAfterGranted, Answered
<1> QED
  BY InitLogin, StepKeepsLogin, <1>1, PTL DEF Spec

-----------------------------------------------------------------------------
(***************************************************************************)
(* Bytes.                                                                  *)
(***************************************************************************)

\* crc8 returns a byte.
Bytewise == \A q \in Seq(Byte) : Crc(q) \in Byte

Streams == INSTANCE FrameStreams WITH B <- Byte

LEMMA BytesAreNumbers ==
    ASSUME NEW n
    PROVE  n \in Byte <=> n \in Nat /\ n <= 255
  BY DEF Byte

LEMMA MaxWordIs == MaxWord \in Nat /\ MaxWord <= 65535
  BY DEF MaxWord

LEMMA WordIs == ASSUME NEW n \in 0 .. MaxWord PROVE n \in Nat /\ n <= 65535
  BY MaxWordIs

\* Two bytes hold a word.
LEMMA BytesAre ==
    ASSUME NEW n \in 0 .. MaxWord
    PROVE  /\ Bytes(n) \in Seq(Byte) /\ Len(Bytes(n)) = 2
           /\ Bytes(n)[1] \in Byte /\ Bytes(n)[2] \in Byte
           /\ Bytes(n)[1] \in Nat /\ Bytes(n)[2] \in Nat
           /\ 256 * Bytes(n)[1] + Bytes(n)[2] = n
<1> DEFINE d == n \div 256
           m == n % 256
<1>1. n \in Nat /\ n <= 65535
  BY WordIs
<1>2. m \in Nat /\ m <= 255
  BY <1>1, SMTT(30)
<1>3. d \in Nat /\ d <= 255
  BY <1>1, SMTT(30)
<1>4. m = n - 256 * d
  BY <1>1, SMTT(30)
<1>5. Bytes(n) = <<d, m>>
  BY DEF Bytes
<1> HIDE DEF d, m
<1>6. d \in Byte /\ m \in Byte
  BY <1>2, <1>3 DEF Byte
<1> QED
  BY <1>1, <1>2, <1>4, <1>5, <1>6

\* What is dropped from a buffer is dropped from a stream that begins with it.
LEMMA DroppedFirst ==
    ASSUME NEW s \in Seq(Byte), NEW t \in Seq(Byte), NEW n \in Nat, n <= Len(s)
    PROVE  Dropped(s \o t, n) = Dropped(s, n) \o t
  BY Streams!RemainderJoined DEF Dropped, Streams!Remainder

Body(cmd, data) == <<Version>> \o Bytes(cmd) \o Bytes(Len(data)) \o data

\* What a frame has at which place.
LEMMA BodyIs ==
    ASSUME NEW cmd \in 0 .. MaxWord, NEW data \in Payload
    PROVE  LET b == Body(cmd, data) IN
           /\ b \in Seq(Byte) /\ Len(b) = Len(data) + 5
           /\ b[2] \in Nat /\ b[3] \in Nat /\ 256 * b[2] + b[3] = cmd
           /\ b[4] \in Nat /\ b[5] \in Nat /\ 256 * b[4] + b[5] = Len(data)
           /\ \A i \in 1 .. Len(data) : b[5 + i] = data[i]
<1> DEFINE v == <<Version>>
           w == Bytes(cmd)
           c == v \o w
           n == Bytes(Len(data))
           l == c \o n
<1>1. data \in Seq(Byte) /\ Len(data) \in 0 .. MaxWord /\ Len(data) \in Nat
  BY DEF Payload
<1>2. v \in Seq(Byte) /\ Len(v) = 1
  BY DEF Version, Byte
<1>3. /\ w \in Seq(Byte) /\ Len(w) = 2 /\ w[1] \in Nat /\ w[2] \in Nat
      /\ 256 * w[1] + w[2] = cmd
  BY BytesAre
<1>4. /\ n \in Seq(Byte) /\ Len(n) = 2 /\ n[1] \in Nat /\ n[2] \in Nat
      /\ 256 * n[1] + n[2] = Len(data)
  BY <1>1, BytesAre
<1>5. Body(cmd, data) = l \o data
  BY DEF Body
<1> HIDE DEF v, w, n
<1>6. /\ c \in Seq(Byte) /\ Len(c) = Len(v) + Len(w)
      /\ \A i \in 1 .. Len(v) : c[i] = v[i]
      /\ \A i \in 1 .. Len(w) : c[Len(v) + i] = w[i]
  BY <1>2, <1>3, Streams!Joined, Zenon
<1> HIDE DEF c
<1>7. c \in Seq(Byte) /\ Len(c) = 3 /\ c[2] = w[1] /\ c[3] = w[2]
  BY <1>2, <1>3, <1>6
<1>8. /\ l \in Seq(Byte) /\ Len(l) = Len(c) + Len(n)
      /\ \A i \in 1 .. Len(c) : l[i] = c[i]
      /\ \A i \in 1 .. Len(n) : l[Len(c) + i] = n[i]
  BY <1>4, <1>7, Streams!Joined, Zenon
<1> HIDE DEF l
<1>9. /\ l \in Seq(Byte) /\ Len(l) = 5
      /\ l[2] = w[1] /\ l[3] = w[2] /\ l[4] = n[1] /\ l[5] = n[2]
  BY <1>4, <1>7, <1>8
<1> DEFINE b == l \o data
<1>10. /\ b \in Seq(Byte) /\ Len(b) = Len(l) + Len(data)
       /\ \A i \in 1 .. Len(l) : b[i] = l[i]
       /\ \A i \in 1 .. Len(data) : b[Len(l) + i] = data[i]
  BY <1>1, <1>9, Streams!Joined, Zenon
<1>11. Body(cmd, data) = b
  BY <1>5
<1> HIDE DEF b
<1>12. /\ b \in Seq(Byte) /\ Len(b) = Len(data) + 5
       /\ \A i \in 1 .. 5 : b[i] = l[i]
       /\ \A i \in 1 .. Len(data) : b[5 + i] = data[i]
  BY <1>1, <1>9, <1>10
<1>13. b[2] = w[1] /\ b[3] = w[2] /\ b[4] = n[1] /\ b[5] = n[2]
  BY <1>9, <1>12
<1>14. b[2] \in Nat /\ b[3] \in Nat /\ 256 * b[2] + b[3] = cmd
  BY <1>3, <1>13
<1>15. b[4] \in Nat /\ b[5] \in Nat /\ 256 * b[4] + b[5] = Len(data)
  BY <1>4, <1>13
<1> QED
  BY <1>11, <1>12, <1>14, <1>15, Zenon

LEMMA PackIs ==
    ASSUME Bytewise, NEW cmd \in 0 .. MaxWord, NEW data \in Payload
    PROVE  /\ Pack(cmd, data) \in Seq(Byte)
           /\ Len(Pack(cmd, data)) = Len(data) + 10 /\ Len(data) \in 0 .. MaxWord
           /\ Pack(cmd, data)[1] = 170 /\ Pack(cmd, data)[2] = 85
           /\ \A i \in 1 .. Len(data) + 5 : Pack(cmd, data)[2 + i] = Body(cmd, data)[i]
           /\ Pack(cmd, data)[Len(data) + 8] = Crc(Body(cmd, data))
           /\ Pack(cmd, data)[Len(data) + 9] = 13 /\ Pack(cmd, data)[Len(data) + 10] = 10
<1> DEFINE b == Body(cmd, data)
           h == Header \o b
           x == h \o <<Crc(b)>>
<1>1. Pack(cmd, data) = x \o Footer /\ Len(data) \in 0 .. MaxWord
  BY DEF Pack, Body, Payload
<1>2. Len(data) \in Nat
  BY DEF Payload
<1>3. b \in Seq(Byte) /\ Len(b) = Len(data) + 5
  BY BodyIs
<1>4. Crc(b) \in Byte
  BY <1>3 DEF Bytewise
<1> HIDE DEF b
<1>5. /\ Header \in Seq(Byte) /\ Len(Header) = 2 /\ Header[1] = 170 /\ Header[2] = 85
      /\ Footer \in Seq(Byte) /\ Len(Footer) = 2 /\ Footer[1] = 13 /\ Footer[2] = 10
  BY DEF Header, Footer, Byte
<1>6. b \in Seq(Byte) /\ Header \in Seq(Byte) /\ Footer \in Seq(Byte)
  BY <1>3, <1>5
<1>7. /\ h \in Seq(Byte) /\ Len(h) = Len(Header) + Len(b)
      /\ \A i \in 1 .. Len(Header) : h[i] = Header[i]
      /\ \A i \in 1 .. Len(b) : h[Len(Header) + i] = b[i]
  BY <1>6, Streams!Joined, Zenon
<1> HIDE DEF h
<1>8. /\ h[1] = 170 /\ h[2] = 85 /\ Len(h) = Len(data) + 7
      /\ \A i \in 1 .. Len(data) + 5 : h[2 + i] = b[i]
  BY <1>2, <1>3, <1>5, <1>7
<1>9. /\ <<Crc(b)>> \in Seq(Byte) /\ Len(<<Crc(b)>>) = 1 /\ <<Crc(b)>>[1] = Crc(b)
  BY <1>4
<1>10. /\ x \in Seq(Byte) /\ Len(x) = Len(h) + 1
       /\ \A i \in 1 .. Len(h) : x[i] = h[i]
       /\ x[Len(h) + 1] = Crc(b)
  <2> DEFINE e == <<Crc(b)>>
  <2>1. e \in Seq(Byte) /\ Len(e) = 1 /\ e[1] = Crc(b)
    BY <1>9
  <2>2. x = h \o e
    OBVIOUS
  <2> HIDE DEF e, x
  <2>3. /\ h \o e \in Seq(Byte) /\ Len(h \o e) = Len(h) + Len(e)
        /\ \A i \in 1 .. Len(h) : (h \o e)[i] = h[i]
        /\ \A i \in 1 .. Len(e) : (h \o e)[Len(h) + i] = e[i]
    BY <1>7, <2>1, Streams!Joined, Zenon
  <2>4. /\ x \in Seq(Byte) /\ Len(x) = Len(h) + Len(e)
        /\ \A i \in 1 .. Len(h) : x[i] = h[i]
        /\ \A i \in 1 .. Len(e) : x[Len(h) + i] = e[i]
    BY <2>2, <2>3, Zenon
  <2> QED
    BY <2>1, <2>4
<1> HIDE DEF x
<1> DEFINE p == x \o Footer
<1>11. x \in Seq(Byte)
  BY <1>10
<1>12. /\ p \in Seq(Byte) /\ Len(p) = Len(x) + Len(Footer)
       /\ \A i \in 1 .. Len(x) : p[i] = x[i]
       /\ \A i \in 1 .. Len(Footer) : p[Len(x) + i] = Footer[i]
  BY <1>6, <1>11, Streams!Joined, Zenon
<1>13. Pack(cmd, data) = p
  BY <1>1
<1> HIDE DEF p
<1>14. Len(x) = Len(data) + 8
  BY <1>2, <1>8, <1>10
<1>15. /\ Len(p) = Len(data) + 10 /\ p[Len(data) + 9] = 13 /\ p[Len(data) + 10] = 10
       /\ \A i \in 1 .. Len(data) + 8 : p[i] = x[i]
  BY <1>2, <1>5, <1>14, <1>12
<1>16. /\ p[1] = 170 /\ p[2] = 85 /\ p[Len(data) + 8] = Crc(b)
       /\ \A i \in 1 .. Len(data) + 5 : p[2 + i] = b[i]
  <2>1. p[1] = 170 /\ p[2] = 85 /\ p[Len(data) + 8] = Crc(b)
    BY <1>2, <1>8, <1>10, <1>15
  <2>2. ASSUME NEW i \in 1 .. Len(data) + 5 PROVE p[2 + i] = b[i]
    <3>1. 2 + i \in 1 .. Len(data) + 8 /\ 2 + i \in 1 .. Len(data) + 7
      BY <1>2
    <3>2. p[2 + i] = x[2 + i] /\ x[2 + i] = h[2 + i] /\ h[2 + i] = b[i]
      BY <3>1, <1>8, <1>10, <1>15
    <3> QED
      BY <3>2
  <2> QED
    BY <2>1, <2>2
<1> QED
  BY <1>1, <1>13, <1>12, <1>15, <1>16 DEF b

\* Damage leaves bytes.
LEMMA WireTyped ==
    ASSUME Bytewise, NEW m \in Message
    PROVE  Wire(m) \in Seq(Byte)
<1> DEFINE f == Pack(m.cmd, m.data)
<1>1. m.cmd \in 0 .. MaxWord /\ m.data \in Payload /\ m.fault \in Faults
  BY DEF Message
<1>2. f \in Seq(Byte) /\ Len(f) \in Nat /\ Len(f) >= 10
  BY <1>1, PackIs
<1> HIDE DEF f
<1>3. \A i \in DOMAIN f, b \in Byte : [f EXCEPT ![i] = b] \in Seq(Byte)
  BY <1>2
<1>4. ASSUME NEW i \in DOMAIN f
      PROVE  (f[i] + 1) % 256 \in Byte /\ (f[i] + 2) % 256 \in Byte
  <2>1. f[i] \in Nat
    BY <1>2, BytesAreNumbers
  <2>2. \A n \in Nat : n % 256 \in Nat /\ n % 256 <= 255
    OBVIOUS
  <2>3. f[i] + 1 \in Nat /\ f[i] + 2 \in Nat
    BY <2>1
  <2> QED
    BY <2>2, <2>3, BytesAreNumbers
<1>5. Tail(f) \in Seq(Byte)
  BY <1>2
<1>6. /\ {6, 7, Len(f) - 2, Len(f)} \subseteq DOMAIN f
      /\ 0 \in Byte /\ 8 \in Byte /\ 255 \in Byte
  BY <1>2 DEF Byte
<1> QED
  BY <1>1, <1>2, <1>3, <1>4, <1>5, <1>6 DEF Wire, Faults, f

\* parse_frame returns a number.
LEMMA ParseTyped ==
    ASSUME NEW buf \in Seq(Byte)
    PROVE  Parse(buf) \in Int
<1>1. CASE Len(buf) < MinSize \/ Headers(buf) = {}
  BY <1>1 DEF Parse
<1>2. CASE ~(Len(buf) < MinSize) /\ Headers(buf) # {}
  <2> DEFINE first == CHOOSE p \in Headers(buf) : \A q \in Headers(buf) : p <= q
  <2>1. \E p \in Headers(buf) : \A q \in Headers(buf) : p <= q
    <3>1. Headers(buf) \in SUBSET Nat
      BY DEF Headers
    <3> QED
      BY <1>2, <3>1, Streams!First
  <2>2. first \in Headers(buf)
    BY <2>1
  <2>3. first \in Nat
    BY <2>2 DEF Headers
  <2> HIDE DEF first
  <2>4. Len(buf) \in Nat /\ Len(buf) >= 8
    BY <1>2 DEF MinSize
  <2>5. DataLength(buf) \in Int
    <3>1. buf[6] \in Nat /\ buf[7] \in Nat
      BY <2>4, BytesAreNumbers
    <3> QED
      BY <3>1 DEF DataLength
  <2>6. Framed(buf) \in Int
    BY <2>5 DEF Framed, Envelope
  <2>7. Parse(buf) = IF first > 1 THEN -(first - 1) ELSE Framed(buf)
    BY <1>2 DEF Parse, first
  <2> QED
    BY <2>3, <2>6, <2>7
<1> QED
  BY <1>1, <1>2

-----------------------------------------------------------------------------
(***************************************************************************)
(* Types.                                                                  *)
(***************************************************************************)

\* The data of the connections; only those of the workload are ever made.
Typed ==
    /\ up \in BOOLEAN
    /\ script \in Workloads
    /\ accum \in [Clients -> Seq(Byte)]
    /\ net \in [Clients -> Seq(Byte)]
    /\ result \in [Clients -> Int]
    /\ loggedIn \in [Clients -> BOOLEAN]
    /\ sent \in [Clients -> Nat]
    /\ hung \in SUBSET Clients
    /\ \A c \in Clients : conn[c] # "none" => c \in DOMAIN script

LEMMA InitTyped == Init => Typed
  BY DEF Init, Typed

\* What a client sends are bytes.
LEMMA SendTyped ==
    ASSUME Bytewise, Inv, Typed, NEW c \in Clients, Client(c)
    PROVE  Typed'
<1>1. CASE Connect(c)
  BY <1>1 DEF Connect, Typed, Inv, Shape, serverVars, clientVars, dataVars
<1>2. CASE HangUp(c)
  <2>1. <<>> \in Seq(Byte)
    OBVIOUS
  <2>2. net' \in [Clients -> Seq(Byte)]
    BY <1>2, <2>1 DEF HangUp, Typed
  <2> QED
    BY <1>2, <2>2 DEF HangUp, Typed, serverVars
<1>3. CASE Send(c)
  <2>1. c \in DOMAIN script /\ sent[c] \in Nat /\ sent[c] < Len(script[c])
    BY <1>3 DEF Send, Typed
  <2>2. script[c] \in Seq(Message)
    BY <2>1, GatewayAssumption DEF GatewayAssumption, Typed
  <2>3. sent[c] + 1 \in Nat /\ script[c][sent[c] + 1] \in Message
    BY <2>1, <2>2
  <2>4. Wire(script[c][sent[c] + 1]) \in Seq(Byte) /\ net[c] \in Seq(Byte)
    BY <2>3, WireTyped DEF Typed
  <2>5. net[c] \o Wire(script[c][sent[c] + 1]) \in Seq(Byte)
    BY <2>4, Streams!Joined, Zenon
  <2> QED
    BY <1>3, <2>3, <2>5 DEF Send, Typed, serverVars
<1> QED
  BY <1>1, <1>2, <1>3 DEF Client

\* A session moves bytes from the network to its buffer, and drops them there.
LEMMA SessionTyped ==
    ASSUME Inv, Typed, NEW c \in Clients, ClientSession(c)
    PROVE  Typed'
<1>1. SessionMoves(c) /\ Live(c)
  BY SessionStepMoves DEF SessionMoves
<1>2. \A d \in Clients : conn'[d] # "none" => conn[d] # "none"
  BY <1>1 DEF SessionMoves, Close, Inv, Shape, ConnectionsFit
<1>3. accum[c] \in Seq(Byte) /\ net[c] \in Seq(Byte) /\ result[c] \in Int
  BY DEF Typed
<1>4. CASE SessionTurn(c) \/ PollTimeout(c) \/ EndOfStream(c) \/ NeedMore(c)
  BY <1>2, <1>4 DEF SessionTurn, PollTimeout, EndOfStream, NeedMore, Typed, serverVars,
                    clientVars, dataVars
<1>5. CASE Read(c)
  <2>1. PICK n \in {1, Len(net[c])} :
            /\ net[c] # <<>>
            /\ accum' = [accum EXCEPT ![c] = @ \o SubSeq(net[c], 1, n)]
            /\ net' = [net EXCEPT ![c] = Dropped(@, n)]
    BY <1>5 DEF Read
  <2>2. n \in Nat /\ n <= Len(net[c])
    BY <2>1, <1>3
  <2>3. SubSeq(net[c], 1, n) \in Seq(Byte) /\ Dropped(net[c], n) \in Seq(Byte)
    BY <1>3, <2>2 DEF Dropped
  <2>4. accum[c] \o SubSeq(net[c], 1, n) \in Seq(Byte)
    BY <1>3, <2>3, Streams!Joined, Zenon
  <2> QED
    BY <1>2, <1>5, <2>1, <2>3, <2>4 DEF Read, Typed, serverVars, clientVars
<1>6. CASE ParseFrame(c)
  BY <1>2, <1>3, <1>6, ParseTyped DEF ParseFrame, Typed, serverVars, clientVars
<1>7. ASSUME NEW n \in Nat, Consume(c, n), UNCHANGED <<net, script, sent, hung>>,
             up' \in BOOLEAN, loggedIn' \in [Clients -> BOOLEAN]
      PROVE  Typed'
  <2>1. Dropped(accum[c], n) \in Seq(Byte)
    BY <1>3 DEF Dropped
  <2> QED
    BY <1>2, <1>7, <2>1 DEF Consume, Typed
<1>8. CASE Skip(c)
  <2>1. -result[c] \in Nat
    BY <1>3, <1>8 DEF Skip
  <2> QED
    BY <1>7, <1>8, <2>1 DEF Skip, Typed, serverVars, clientVars
<1>9. CASE Handle(c)
  <2>1. result[c] \in Nat
    BY <1>3, <1>9 DEF Handle
  <2>2. up' \in BOOLEAN
    BY <1>9 DEF Handle, Respond
  <2>3. loggedIn' \in [Clients -> BOOLEAN]
    BY <1>9 DEF Handle, Typed
  <2> QED
    BY <1>7, <1>9, <2>1, <2>2, <2>3 DEF Handle, clientVars
<1> QED
  BY <1>4, <1>5, <1>6, <1>8, <1>9 DEF ClientSession

LEMMA StepTyped == Bytewise /\ Inv /\ Typed /\ [Next]_vars => Typed'
<1> SUFFICES ASSUME Bytewise, Inv, Typed, [Next]_vars PROVE Typed'
  OBVIOUS
<1>1. CASE Start \/ Stop \/ StopSteps
  BY <1>1 DEF Start, Stop, StopSteps, CloseListener, JoinAcceptor, JoinSessions, Refused,
              Typed, Inv, Shape, clientVars, dataVars
<1>2. CASE AcceptorLoop \/ AcceptFails
  BY <1>2 DEF AcceptorLoop, AcceptorTurn, Accept, Spawn, AcceptFails, Refused,
              Typed, Inv, Shape, clientVars, dataVars
<1>3. CASE UNCHANGED vars
  BY <1>3 DEF vars, serverVars, clientVars, dataVars, Typed
<1> QED
  BY <1>1, <1>2, <1>3, SendTyped, SessionTyped DEF Next

LEMMA TypedHolds == ASSUME Bytewise PROVE Spec => [](Inv /\ Typed)
  BY InitInv, InitTyped, StepKeepsInv, StepTyped, PTL DEF Spec

\* Every variable keeps its type, damaged frames or not: the parser returns
\* a number of bytes whatever it is given (client_session, parse_frame).
THEOREM GatewayTyped == ASSUME Bytewise PROVE Spec => []TypeOK
<1>1. Inv /\ Typed => TypeOK
  BY DEF Inv, Shape, StopFits, ConnectionsFit, Typed, TypeOK
<1> QED
  BY <1>1, TypedHolds, PTL

-----------------------------------------------------------------------------
(***************************************************************************)
(* Frames in the stream.                                                   *)
(***************************************************************************)

\* parse_frame finds a frame that begins the buffer, once it is there as a whole,
\* and asks for more until then.
LEMMA FrameFound ==
    ASSUME Bytewise, NEW cmd \in 0 .. MaxWord, NEW data \in Payload, Len(data) <= MaxData,
           NEW buf \in Seq(Byte), Streams!Begins(buf, Pack(cmd, data))
    PROVE  /\ Parse(buf) = IF Len(buf) < Len(Pack(cmd, data)) THEN 0
                           ELSE Len(Pack(cmd, data))
           /\ Len(buf) >= Len(Pack(cmd, data)) => Request(buf) = [cmd |-> cmd, data |-> data]
<1> DEFINE f == Pack(cmd, data)
           b == Body(cmd, data)
           n == Len(data)
<1>1. /\ f \in Seq(Byte) /\ Len(f) = n + 10 /\ f[1] = 170 /\ f[2] = 85
      /\ \A i \in 1 .. n + 5 : f[2 + i] = b[i]
      /\ f[n + 8] = Crc(b) /\ f[n + 9] = 13 /\ f[n + 10] = 10
  BY PackIs
<1>2. /\ b \in Seq(Byte) /\ Len(b) = n + 5
      /\ 256 * b[2] + b[3] = cmd /\ 256 * b[4] + b[5] = n
      /\ \A i \in 1 .. n : b[5 + i] = data[i]
  BY BodyIs
<1>3. n \in Nat /\ data \in Seq(Byte) /\ Len(buf) \in Nat
  BY DEF Payload
<1>4. \A k \in 1 .. n + 10 : k <= Len(buf) => buf[k] = f[k]
  BY <1>1 DEF Streams!Begins
<1> HIDE DEF f, b, n
<1>5. CASE Len(buf) < 8
  <2>1. Parse(buf) = 0
    BY <1>5 DEF Parse, MinSize
  <2> QED
    BY <1>1, <1>3, <1>5, <2>1 DEF f
<1>6. CASE Len(buf) >= 8
  <2>1. /\ buf[1] = 170 /\ buf[2] = 85 /\ buf[6] = b[4] /\ buf[7] = b[5]
        /\ buf[4] = b[2] /\ buf[5] = b[3]
    <3>1. /\ buf[1] = f[1] /\ buf[2] = f[2] /\ buf[4] = f[2 + 2] /\ buf[5] = f[2 + 3]
          /\ buf[6] = f[2 + 4] /\ buf[7] = f[2 + 5]
      BY <1>3, <1>4, <1>6
    <3>2. f[2 + 2] = b[2] /\ f[2 + 3] = b[3] /\ f[2 + 4] = b[4] /\ f[2 + 5] = b[5]
      BY <1>1, <1>3
    <3> QED
      BY <1>1, <3>1, <3>2
  <2>2. DataLength(buf) = n
    BY <1>2, <2>1 DEF DataLength
  <2>3. SubSeq(buf, 1, 1 + 1) = Header
    <3> DEFINE s == SubSeq(buf, 1, 1 + 1)
    <3>1. s \in Seq(Byte) /\ Len(s) = 2 /\ s[1] = buf[1] /\ s[2] = buf[2]
      BY <1>6
    <3> HIDE DEF s
    <3>2. s = <<170, 85>>
      BY <2>1, <3>1
    <3> QED
      BY <3>2 DEF s, Header
  <2>4. 1 \in Headers(buf) /\ Headers(buf) \subseteq Nat /\ \A q \in Headers(buf) : 1 <= q
    BY <1>3, <1>6, <2>3 DEF Headers
  <2> DEFINE first == CHOOSE p \in Headers(buf) : \A q \in Headers(buf) : p <= q
  <2>5. first \in Headers(buf) /\ \A q \in Headers(buf) : first <= q
    BY <2>4
  <2>6. first = 1
    <3> HIDE DEF first
    <3> QED
      BY <2>4, <2>5
  <2>7. Parse(buf) = IF first > 1 THEN -(first - 1) ELSE Framed(buf)
    BY <1>3, <1>6, <2>4 DEF Parse, MinSize
  <2> HIDE DEF first
  <2>8. Parse(buf) = Framed(buf)
    BY <2>6, <2>7
  <2>9. ~(DataLength(buf) > MaxData)
    BY <1>3, <2>2, GatewayAssumption DEF GatewayAssumption, n
  <2>10. CASE Len(buf) < n + 10
    BY <1>1, <1>3, <2>2, <2>8, <2>9, <2>10 DEF Framed, Envelope, f
  <2>11. CASE Len(buf) >= n + 10
    <3>1. buf[n + 8] = Crc(b) /\ buf[n + 9] = 13 /\ buf[n + 10] = 10
      BY <1>1, <1>3, <1>4, <2>11, SMTT(30)
    <3>2. SubSeq(buf, 3, n + 7) = b
      <4> DEFINE s == SubSeq(buf, 3, n + 7)
      <4>1. s \in Seq(Byte) /\ Len(s) = n + 5 /\ \A i \in 1 .. n + 5 : s[i] = buf[2 + i]
        BY <1>3, <2>11
      <4>2. \A i \in 1 .. n + 5 : buf[2 + i] = b[i]
        BY <1>1, <1>3, <1>4, <2>11, SMTT(30)
      <4> HIDE DEF s
      <4>3. s = b
        <5>1. Len(s) = Len(b) /\ \A i \in 1 .. Len(s) : s[i] = b[i]
          BY <1>2, <4>1, <4>2
        <5> QED
          BY <1>2, <4>1, <5>1, SeqEqual
      <4> QED
        BY <4>3 DEF s
    <3>3. SubSeq(buf, n + 9, n + 10) = Footer
      <4> DEFINE s == SubSeq(buf, n + 9, n + 10)
      <4>1. s \in Seq(Byte) /\ Len(s) = 2 /\ s[1] = buf[n + 9] /\ s[2] = buf[n + 10]
        BY <1>3, <2>11
      <4> HIDE DEF s
      <4>2. s = <<13, 10>>
        BY <3>1, <4>1
      <4> QED
        BY <4>2 DEF s, Footer
    <3>4. SubSeq(buf, 8, 7 + n) = data
      <4> DEFINE s == SubSeq(buf, 8, 7 + n)
      <4>1. s \in Seq(Byte) /\ Len(s) = n /\ \A i \in 1 .. n : s[i] = buf[2 + (5 + i)]
        BY <1>3, <2>11
      <4>2. \A i \in 1 .. n : buf[2 + (5 + i)] = b[5 + i]
        BY <1>1, <1>3, <1>4, <2>11, SMTT(30)
      <4> HIDE DEF s
      <4>3. s = data
        <5>1. Len(s) = Len(data) /\ \A i \in 1 .. Len(s) : s[i] = data[i]
          BY <1>2, <4>1, <4>2 DEF n
        <5> QED
          BY <1>3, <4>1, <5>1, SeqEqual
      <4> QED
        BY <4>3 DEF s
    <3>5. Framed(buf) = n + 10
      <4>1. /\ Envelope + DataLength(buf) = n + 10
            /\ (n + 10) - 2 = n + 8 /\ (n + 8) - 1 = n + 7 /\ (n + 8) + 1 = n + 9
        BY <1>3, <2>2 DEF Envelope
      <4>2. ~(Len(buf) < n + 10)
        BY <1>3, <2>11
      <4> QED
        BY <2>9, <3>1, <3>2, <3>3, <4>1, <4>2 DEF Framed
    <3>6. Request(buf) = [cmd |-> cmd, data |-> data]
      BY <1>2, <2>1, <2>2, <3>4 DEF Request
    <3> QED
      BY <1>1, <1>3, <2>8, <2>11, <3>5, <3>6 DEF f
  <2> QED
    BY <1>3, <2>10, <2>11
<1> QED
  BY <1>3, <1>5, <1>6

-----------------------------------------------------------------------------
(***************************************************************************)
(* The stream of the messages q that arrive undamaged: of those after a    *)
(* that have been sent, up to n, rest is at hand.                          *)
(***************************************************************************)

Clean(q) ==
    /\ q \in Seq(Message)
    /\ \A i \in DOMAIN q : q[i].fault = "none" /\ Len(q[i].data) <= MaxData

Wires(q) == [i \in DOMAIN q |-> Wire(q[i])]

StreamIs(q, a, n, rest, whole) == Streams!StreamIs(Wires(q), a, n, rest, whole)

LEMMA CleanWire ==
    ASSUME Bytewise, NEW q, Clean(q), NEW i \in 1 .. Len(q)
    PROVE  /\ q[i].cmd \in 0 .. MaxWord /\ q[i].data \in Payload
           /\ Wire(q[i]) = Pack(q[i].cmd, q[i].data)
           /\ Wire(q[i]) \in Seq(Byte) /\ Len(Wire(q[i])) \in Nat /\ Len(Wire(q[i])) >= 10
<1>1. q[i] \in Message /\ q[i].fault = "none"
  BY DEF Clean
<1>2. q[i].cmd \in 0 .. MaxWord /\ q[i].data \in Payload
  BY <1>1 DEF Message
<1>3. Wire(q[i]) = Pack(q[i].cmd, q[i].data)
  BY <1>1 DEF Wire
<1>4. Len(q[i].data) \in Nat
  BY <1>2 DEF Payload
<1> QED
  BY <1>2, <1>3, <1>4, PackIs

LEMMA CleanWires ==
    ASSUME Bytewise, NEW q, Clean(q)
    PROVE  /\ Wires(q) \in Seq(Seq(Byte)) /\ Len(Wires(q)) = Len(q) /\ Len(q) \in Nat
           /\ \A i \in 1 .. Len(q) : Wires(q)[i] = Wire(q[i])
<1>1. q \in Seq(Message)
  BY DEF Clean
<1>2. DOMAIN q = 1 .. Len(q) /\ Len(q) \in Nat
  BY <1>1
<1>3. \A i \in 1 .. Len(q) : Wire(q[i]) \in Seq(Byte)
  BY CleanWire
<1>4. Wires(q) = [i \in 1 .. Len(q) |-> Wire(q[i])]
  BY <1>2 DEF Wires
<1> QED
  BY <1>2, <1>3, <1>4

\* Another message is sent.
LEMMA StreamSent ==
    ASSUME Bytewise, NEW q, Clean(q), NEW a \in Nat, NEW n \in Nat, a <= n, n < Len(q),
           NEW rest \in Seq(Byte), StreamIs(q, a, n, rest, TRUE)
    PROVE  StreamIs(q, a, n + 1, rest \o Wire(q[n + 1]), TRUE)
<1>1. n + 1 \in 1 .. Len(q) /\ n < Len(Wires(q))
  BY CleanWires
<1>2. Streams!StreamIs(Wires(q), a, n + 1, rest \o Wires(q)[n + 1], TRUE)
  BY <1>1, CleanWires, Streams!StreamSent DEF StreamIs
<1> QED
  BY <1>1, <1>2, CleanWires DEF StreamIs

\* The first message is taken out.
LEMMA StreamTaken ==
    ASSUME Bytewise, NEW q, Clean(q), NEW a \in Nat, NEW n \in Nat, a < n, n <= Len(q),
           NEW whole, NEW rest \in Seq(Byte), StreamIs(q, a, n, rest, whole),
           Len(Wire(q[a + 1])) <= Len(rest)
    PROVE  StreamIs(q, a + 1, n, Dropped(rest, Len(Wire(q[a + 1]))), whole)
<1>1. a + 1 \in 1 .. Len(q) /\ n <= Len(Wires(q))
  BY CleanWires
<1>2. Wires(q)[a + 1] = Wire(q[a + 1])
  BY <1>1, CleanWires
<1>3. Streams!StreamIs(Wires(q), a + 1, n,
                       Streams!Remainder(rest, Len(Wires(q)[a + 1])), whole)
  BY <1>1, <1>2, CleanWires, Streams!StreamTaken DEF StreamIs
<1> QED
  BY <1>2, <1>3 DEF StreamIs, Streams!Remainder, Dropped

-----------------------------------------------------------------------------
(***************************************************************************)
(* Answers.  A session has answered the first messages of its client; what *)
(* is in its buffer and on its way to it is the rest of what was sent.     *)
(***************************************************************************)

AtHand(c) == accum[c] \o net[c]

\* The answers so far are the right ones, and only the last can be a refused login.
AnswersRight(c) ==
    \A i \in 1 .. Answered(c) :
        /\ answers[c][i] = Answer(Messages(c), i)
        /\ i < Answered(c) \/ session[c] # "ended" => ~Closes(Messages(c), i)

ServedFit(c) ==
    /\ sent[c] <= Len(Messages(c)) /\ Answered(c) <= sent[c]
    /\ StreamIs(Messages(c), Answered(c), sent[c], AtHand(c), c \notin hung)
    /\ session[c] = "act" => result[c] = Parse(accum[c])
    /\ AnswersRight(c)
    /\ Token # <<>> => (loggedIn[c] <=> \E i \in 1 .. Answered(c) : Opens(Messages(c), i))

CleanFit == \A c \in Clients : Clean(Messages(c)) => ServedFit(c)

LEMMA CountsAreNumbers ==
    ASSUME Typed, LoginInv, NEW c \in Clients
    PROVE  /\ Answered(c) \in Nat /\ sent[c] \in Nat
           /\ Len(accum[c]) \in Nat /\ Len(net[c]) \in Nat /\ Len(AtHand(c)) \in Nat
           /\ Len(accum[c]) <= Len(AtHand(c))
           /\ accum[c] \in Seq(Byte) /\ net[c] \in Seq(Byte) /\ AtHand(c) \in Seq(Byte)
           /\ Len(AtHand(c)) = Len(accum[c]) + Len(net[c])
           /\ \A i \in 1 .. Len(accum[c]) : AtHand(c)[i] = accum[c][i]
           /\ \A i \in 1 .. Len(net[c]) : AtHand(c)[Len(accum[c]) + i] = net[c][i]
<1>1. accum[c] \in Seq(Byte) /\ net[c] \in Seq(Byte) /\ sent[c] \in Nat
  BY DEF Typed
<1>2. Answered(c) \in Nat
  BY DEF LoginInv, Answered
<1>3. /\ AtHand(c) \in Seq(Byte) /\ Len(AtHand(c)) = Len(accum[c]) + Len(net[c])
      /\ \A i \in 1 .. Len(accum[c]) : AtHand(c)[i] = accum[c][i]
      /\ \A i \in 1 .. Len(net[c]) : AtHand(c)[Len(accum[c]) + i] = net[c][i]
  BY <1>1, Streams!Joined, Zenon DEF AtHand
<1> DEFINE A == Len(accum[c])
           N == Len(net[c])
           R == Len(AtHand(c))
<1>4. A \in Nat /\ N \in Nat /\ R \in Nat /\ R = A + N
  <2>1. \A s \in Seq(Byte) : Len(s) \in Nat
    OBVIOUS
  <2> QED
    BY <1>1, <1>3, <2>1
<1>5. A <= R
  <2> HIDE DEF A, N, R
  <2> QED
    BY <1>4
<1> QED
  BY <1>1, <1>2, <1>3, <1>4, <1>5

LEMMA InitClean == Init => CleanFit
<1> SUFFICES ASSUME Init, NEW c \in Clients, Clean(Messages(c)) PROVE ServedFit(c)
  BY DEF CleanFit
<1>1. /\ sent[c] = 0 /\ answers[c] = <<>> /\ Answered(c) = 0 /\ session[c] = "none"
      /\ loggedIn[c] = FALSE /\ AtHand(c) = <<>> /\ Len(AtHand(c)) = 0
  BY DEF Init, Answered, AtHand
<1>2. Len(Messages(c)) \in Nat
  BY DEF Clean
<1>3. StreamIs(Messages(c), 0, 0, AtHand(c), c \notin hung)
  BY <1>1, Streams!NothingSent DEF StreamIs
<1> QED
  BY <1>1, <1>2, <1>3 DEF ServedFit, AnswersRight

\* Steps that touch neither the data of c nor end what had ended.
LEMMA SameData ==
    ASSUME NEW c \in Clients, ServedFit(c), Messages(c)' = Messages(c),
           answers'[c] = answers[c], sent'[c] = sent[c], accum'[c] = accum[c],
           net'[c] = net[c], loggedIn'[c] = loggedIn[c], (c \in hung') = (c \in hung),
           session'[c] = "act" => session[c] = "act" /\ result'[c] = result[c],
           session'[c] # "ended" => session[c] # "ended"
    PROVE  ServedFit(c)'
<1>1. Answered(c)' = Answered(c) /\ AtHand(c)' = AtHand(c)
  BY DEF Answered, AtHand
<1>2. \A i : /\ Answer(Messages(c), i)' = Answer(Messages(c), i)
             /\ Closes(Messages(c), i)' = Closes(Messages(c), i)
             /\ Opens(Messages(c), i)' = Opens(Messages(c), i)
  BY DEF Answer, Closes, Free, Opens, Intact
<1>3. AnswersRight(c)'
  BY <1>1, <1>2 DEF ServedFit, AnswersRight
<1>4. StreamIs(Messages(c), Answered(c), sent[c], AtHand(c), c \notin hung)'
  <2>1. StreamIs(Messages(c)', Answered(c)', sent'[c], AtHand(c)', c \notin hung')
    BY <1>1 DEF ServedFit
  <2> QED
    BY <2>1
<1>5. (session[c] = "act" => result[c] = Parse(accum[c]))'
  BY DEF ServedFit
<1> QED
  BY <1>1, <1>2, <1>3, <1>4, <1>5 DEF ServedFit

\* What a step of one connection leaves of the others.
LEMMA OthersClean ==
    ASSUME CleanFit, NEW c \in Clients, script' = script,
           \A d \in Clients \ {c} :
               /\ answers'[d] = answers[d] /\ sent'[d] = sent[d] /\ accum'[d] = accum[d]
               /\ net'[d] = net[d] /\ loggedIn'[d] = loggedIn[d]
               /\ (d \in hung') = (d \in hung)
               /\ session'[d] = session[d] /\ result'[d] = result[d],
           Clean(Messages(c)) => ServedFit(c)'
    PROVE  CleanFit'
<1>1. \A d : Messages(d)' = Messages(d)
  BY DEF Messages
<1>2. ASSUME NEW d \in Clients, Clean(Messages(d)) PROVE ServedFit(d)'
  <2>1. CASE d = c
    BY <1>2, <2>1
  <2>2. CASE d # c
    BY <1>1, <1>2, <2>2, SameData DEF CleanFit
  <2> QED
    BY <2>1, <2>2
<1>3. \A d \in Clients : Clean(Messages(d))' = Clean(Messages(d))
  BY <1>1
<1> QED
  BY <1>2, <1>3 DEF CleanFit

LEMMA SendClean ==
    ASSUME Bytewise, Typed, LoginInv, CleanFit, NEW c \in Clients, Send(c)
    PROVE  CleanFit'
<1> DEFINE q == Messages(c)
           a == Answered(c)
           n == sent[c]
           w == Wire(q[n + 1])
<1>1. /\ c \notin hung /\ n < Len(q) /\ sent' = [sent EXCEPT ![c] = @ + 1]
      /\ net' = [net EXCEPT ![c] = @ \o w] /\ q = script[c]
      /\ UNCHANGED <<session, script, hung, accum, result, loggedIn, answers>>
  BY DEF Send, Typed, Messages
<1>2. ASSUME Clean(q) PROVE ServedFit(c)'
  <2>1. /\ a \in Nat /\ n \in Nat /\ accum[c] \in Seq(Byte) /\ net[c] \in Seq(Byte)
        /\ AtHand(c) \in Seq(Byte)
    BY CountsAreNumbers
  <2>2. ServedFit(c) /\ a <= n /\ StreamIs(q, a, n, AtHand(c), TRUE)
    BY <1>1, <1>2 DEF CleanFit, ServedFit
  <2>3. n + 1 \in 1 .. Len(q)
    BY <1>1, <1>2, <2>1 DEF Clean
  <2>4. w \in Seq(Byte)
    BY <1>2, <2>3, CleanWire
  <2>5. StreamIs(q, a, n + 1, AtHand(c) \o w, TRUE)
    BY <1>1, <1>2, <2>1, <2>2, StreamSent
  <2>6. q' = q /\ a' = a /\ sent'[c] = n + 1 /\ net'[c] = net[c] \o w
    BY <1>1 DEF Messages, Answered, Typed
  <2> HIDE DEF q, a, n, w
  <2>7. AtHand(c)' = AtHand(c) \o w
    <3>1. AtHand(c)' = accum[c] \o (net[c] \o w)
      BY <1>1, <2>6 DEF AtHand
    <3>2. (accum[c] \o net[c]) \o w = accum[c] \o (net[c] \o w)
      BY <2>1, <2>4, Streams!Associated, ZenonT(30)
    <3> QED
      BY <3>1, <3>2 DEF AtHand
  <2>8. StreamIs(q, a', sent'[c], AtHand(c)', c \notin hung')
    BY <1>1, <2>5, <2>6, <2>7
  <2>9. n + 1 <= Len(q) /\ a <= n + 1
    BY <2>1, <2>2, <2>3
  <2>10. AnswersRight(c)'
    BY <1>1, <2>2, <2>6 DEF ServedFit, AnswersRight, Answered, Answer, Closes, Free, Opens,
                            Intact, Messages
  <2>11. (Token # <<>> => (loggedIn[c] <=> \E i \in 1 .. Answered(c) : Opens(Messages(c), i)))'
    BY <1>1, <2>2, <2>6 DEF ServedFit, Opens, a, q
  <2>12. (session[c] = "act" => result[c] = Parse(accum[c]))'
    BY <1>1, <2>2 DEF ServedFit
  <2> QED
    BY <2>6, <2>8, <2>9, <2>10, <2>11, <2>12 DEF ServedFit, q, a, n
<1> QED
  BY <1>1, <1>2, OthersClean DEF Typed

\* What is on its way may be lost with a client that has hung up.
LEMMA HangUpClean ==
    ASSUME Bytewise, Typed, LoginInv, CleanFit, NEW c \in Clients, HangUp(c)
    PROVE  CleanFit'
<1> DEFINE q == Messages(c)
           a == Answered(c)
           n == sent[c]
<1>1. /\ c \notin hung /\ hung' = hung \cup {c}
      /\ net' \in {net, [net EXCEPT ![c] = <<>>]}
      /\ UNCHANGED <<session, script, sent, accum, result, loggedIn, answers>>
  BY DEF HangUp
<1>2. ASSUME Clean(q) PROVE ServedFit(c)'
  <2>1. /\ a \in Nat /\ n \in Nat /\ accum[c] \in Seq(Byte) /\ net[c] \in Seq(Byte)
        /\ AtHand(c) \in Seq(Byte) /\ Len(AtHand(c)) = Len(accum[c]) + Len(net[c])
        /\ \A i \in 1 .. Len(accum[c]) : AtHand(c)[i] = accum[c][i]
        /\ Len(accum[c]) \in Nat /\ Len(net[c]) \in Nat /\ Len(AtHand(c)) \in Nat
    BY CountsAreNumbers
  <2>2. ServedFit(c) /\ a <= n /\ n <= Len(q) /\ StreamIs(q, a, n, AtHand(c), TRUE)
    BY <1>1, <1>2 DEF CleanFit, ServedFit
  <2>3. q' = q /\ a' = a /\ n' = n
    BY <1>1 DEF Messages, Answered
  <2>4. Wires(q) \in Seq(Seq(Byte))
    BY <1>2, CleanWires
  <2> HIDE DEF q, a, n
  <2>5. StreamIs(q, a, n, AtHand(c)', FALSE)
    <3>1. CASE net' = net
      <4>1. AtHand(c)' = AtHand(c)
        BY <1>1, <3>1 DEF AtHand
      <4>2. StreamIs(q, a, n, AtHand(c), FALSE)
        BY <2>2 DEF StreamIs, Streams!StreamIs
      <4> QED
        BY <4>1, <4>2
    <3>2. CASE net' = [net EXCEPT ![c] = <<>>]
      <4>1. net'[c] = <<>>
        BY <3>2 DEF Typed
      <4>2. AtHand(c)' = accum[c] \o <<>>
        BY <1>1, <4>1 DEF AtHand
      <4>3. AtHand(c)' = accum[c]
        BY <2>1, <4>2, ConcatEmptySeq, Zenon
      <4>4. Len(accum[c]) <= Len(AtHand(c))
        BY CountsAreNumbers
      <4>5. StreamIs(q, a, n, accum[c], FALSE)
        BY <1>2, <2>1, <2>2, <2>4, <4>4, Streams!StreamLost DEF StreamIs
      <4> QED
        BY <4>3, <4>5
    <3> QED
      BY <1>1, <3>1, <3>2
  <2>6. StreamIs(q', a', n', AtHand(c)', c \notin hung')
    BY <1>1, <2>3, <2>5
  <2>7. AnswersRight(c)'
    BY <1>1, <2>2, <2>3 DEF ServedFit, AnswersRight, Answered, Answer, Closes, Free, Opens,
                            Intact, Messages
  <2>8. (Token # <<>> => (loggedIn[c] <=> \E i \in 1 .. Answered(c) : Opens(Messages(c), i)))'
    BY <1>1, <2>2, <2>3 DEF ServedFit, Opens, a, q
  <2>9. (session[c] = "act" => result[c] = Parse(accum[c]))'
    BY <1>1, <2>2 DEF ServedFit
  <2> QED
    BY <2>2, <2>3, <2>6, <2>7, <2>8, <2>9 DEF ServedFit, q, a, n
<1>3. \A d \in Clients \ {c} : net'[d] = net[d]
  BY <1>1 DEF Typed
<1> QED
  BY <1>1, <1>2, <1>3, OthersClean

\* Bytes come from the network into the buffer: together they stay the same.
LEMMA ReadClean ==
    ASSUME Inv, Typed, LoginInv, CleanFit, NEW c \in Clients, Read(c)
    PROVE  CleanFit'
<1>1. PICK n \in {1, Len(net[c])} :
          /\ net[c] # <<>>
          /\ accum' = [accum EXCEPT ![c] = @ \o SubSeq(net[c], 1, n)]
          /\ net' = [net EXCEPT ![c] = Dropped(@, n)]
          /\ GoTo(c, "parse")
          /\ UNCHANGED <<script, sent, hung, result, loggedIn, answers>>
  BY DEF Read, clientVars
<1>2. accum[c] \in Seq(Byte) /\ net[c] \in Seq(Byte)
  BY CountsAreNumbers
<1>3. n \in Nat /\ n <= Len(net[c]) /\ Len(net[c]) \in Nat
  BY <1>1, <1>2
<1> DEFINE s == SubSeq(net[c], 1, n)
           t == Dropped(net[c], n)
<1>4. s \in Seq(Byte) /\ t \in Seq(Byte)
  BY <1>2, <1>3 DEF Dropped
<1>5. s \o t = net[c]
  <2>1. SubSeq(net[c], 1, n) \o SubSeq(net[c], n + 1, Len(net[c]))
            = SubSeq(net[c], 1, Len(net[c]))
    <3>1. 1 \in 1 .. Len(net[c]) + 1 /\ n \in 1 - 1 .. Len(net[c]) /\ Len(net[c]) \in n .. Len(net[c])
      BY <1>3
    <3> QED
      BY <1>2, <3>1, ConcatAdjacentSubSeq
  <2>2. SubSeq(net[c], 1, Len(net[c])) = net[c]
    BY <1>2, SubSeqFull
  <2> QED
    BY <2>1, <2>2 DEF Dropped
<1> HIDE DEF s, t
<1>6. accum'[c] = accum[c] \o s /\ net'[c] = t
  BY <1>1 DEF Typed, s, t
<1>7. AtHand(c)' = AtHand(c)
  <2>1. (accum[c] \o s) \o t = accum[c] \o (s \o t)
    BY <1>2, <1>4, Streams!Associated, Zenon
  <2> QED
    BY <1>5, <1>6, <2>1 DEF AtHand
<1>8. session'[c] = "parse" /\ session[c] = "poll"
      /\ \A d \in Clients \ {c} : session'[d] = session[d]
  BY <1>1 DEF Read, At, GoTo, Inv, Shape
<1>9. ASSUME Clean(Messages(c)) PROVE ServedFit(c)'
  <2>1. ServedFit(c)
    BY <1>9 DEF CleanFit
  <2>2. Messages(c)' = Messages(c) /\ Answered(c)' = Answered(c) /\ sent' = sent
    BY <1>1 DEF Messages, Answered
  <2>3. StreamIs(Messages(c)', Answered(c)', sent'[c], AtHand(c)', c \notin hung')
    BY <1>1, <1>7, <2>1, <2>2 DEF ServedFit
  <2>4. AnswersRight(c)'
    BY <1>1, <1>8, <2>1, <2>2 DEF ServedFit, AnswersRight, Answered, Answer, Closes, Free,
                                  Opens, Intact
  <2>5. (Token # <<>> => (loggedIn[c] <=> \E i \in 1 .. Answered(c) : Opens(Messages(c), i)))'
    BY <1>1, <2>1, <2>2 DEF ServedFit, Opens
  <2> QED
    BY <1>8, <2>1, <2>2, <2>3, <2>4, <2>5 DEF ServedFit
<1>10. \A d \in Clients \ {c} : accum'[d] = accum[d] /\ net'[d] = net[d]
  BY <1>1 DEF Typed
<1> QED
  BY <1>1, <1>8, <1>9, <1>10, OthersClean

LEMMA ParseClean ==
    ASSUME Inv, Typed, CleanFit, NEW c \in Clients, ParseFrame(c)
    PROVE  CleanFit'
<1>1. /\ result' = [result EXCEPT ![c] = Parse(accum[c])]
      /\ GoTo(c, "act")
      /\ UNCHANGED <<script, sent, hung, accum, loggedIn, net, answers>>
  BY DEF ParseFrame, clientVars
<1>2. /\ result'[c] = Parse(accum[c]) /\ session[c] = "parse" /\ session'[c] = "act"
      /\ \A d \in Clients \ {c} : session'[d] = session[d] /\ result'[d] = result[d]
  BY <1>1 DEF ParseFrame, At, GoTo, Inv, Shape, Typed
<1>3. ASSUME Clean(Messages(c)) PROVE ServedFit(c)'
  <2>1. ServedFit(c)
    BY <1>3 DEF CleanFit
  <2>2. Messages(c)' = Messages(c) /\ Answered(c)' = Answered(c) /\ AtHand(c)' = AtHand(c)
    BY <1>1 DEF Messages, Answered, AtHand
  <2>3. StreamIs(Messages(c)', Answered(c)', sent'[c], AtHand(c)', c \notin hung')
    BY <1>1, <2>1, <2>2 DEF ServedFit
  <2>4. AnswersRight(c)'
    BY <1>1, <1>2, <2>1, <2>2 DEF ServedFit, AnswersRight, Answered, Answer, Closes, Free,
                                  Opens, Intact
  <2>5. (Token # <<>> => (loggedIn[c] <=> \E i \in 1 .. Answered(c) : Opens(Messages(c), i)))'
    BY <1>1, <2>1, <2>2 DEF ServedFit, Opens
  <2>6. (session[c] = "act" => result[c] = Parse(accum[c]))'
    BY <1>1, <1>2
  <2> QED
    BY <1>1, <2>1, <2>2, <2>3, <2>4, <2>5, <2>6 DEF ServedFit
<1> QED
  BY <1>1, <1>2, <1>3, OthersClean

\* What parse_frame has found is the next message, or nothing yet.
LEMMA NextFound ==
    ASSUME Bytewise, Typed, LoginInv, CleanFit, NEW c \in Clients, Clean(Messages(c)),
           session[c] = "act"
    PROVE  \/ result[c] = 0
           \/ /\ Answered(c) < sent[c]
              /\ result[c] = Len(Wire(Messages(c)[Answered(c) + 1]))
              /\ result[c] <= Len(accum[c])
              /\ Request(accum[c]) = [cmd  |-> Messages(c)[Answered(c) + 1].cmd,
                                      data |-> Messages(c)[Answered(c) + 1].data]
<1> DEFINE q == Messages(c)
           a == Answered(c)
           n == sent[c]
           m == q[a + 1]
<1>1. /\ a \in Nat /\ n \in Nat /\ accum[c] \in Seq(Byte) /\ AtHand(c) \in Seq(Byte)
      /\ Len(accum[c]) \in Nat /\ Len(accum[c]) <= Len(AtHand(c))
      /\ \A i \in 1 .. Len(accum[c]) : AtHand(c)[i] = accum[c][i]
  BY CountsAreNumbers
<1>2. /\ n <= Len(q) /\ a <= n /\ result[c] = Parse(accum[c])
      /\ \E whole : StreamIs(q, a, n, AtHand(c), whole)
  BY DEF CleanFit, ServedFit
<1>6. /\ Wires(q) \in Seq(Seq(Byte))
      /\ a < n => Wires(q)[a + 1] = Wire(q[a + 1])
  <2>1. q = Messages(c)
    OBVIOUS
  <2> HIDE DEF q
  <2>2. a < n => a + 1 \in 1 .. Len(q)
    BY <1>1, <1>2, <2>1 DEF Clean
  <2> QED
    BY <2>1, <2>2, CleanWires
<1> HIDE DEF q, a, n
<1>3. /\ a = n => Len(accum[c]) = 0
      /\ a < n => Streams!Begins(accum[c], Wire(q[a + 1]))
  <2>1. PICK whole : Streams!StreamIs(Wires(q), a, n, AtHand(c), whole)
    BY <1>2 DEF StreamIs
  <2>2. /\ a = n => Len(accum[c]) = 0
        /\ a < n => Streams!Begins(accum[c], Wires(q)[a + 1])
    BY <1>1, <1>2, <1>6, <2>1, Streams!StreamBegins, ZenonT(60)
  <2> QED
    BY <1>6, <2>2
<1>4. CASE a = n
  BY <1>2, <1>3, <1>4 DEF Parse, MinSize
<1>5. CASE a < n
  <2>1. a + 1 \in 1 .. Len(q) /\ Clean(q)
    BY <1>1, <1>2, <1>5 DEF q, Clean
  <2>2. /\ m.cmd \in 0 .. MaxWord /\ m.data \in Payload
        /\ Wire(m) = Pack(m.cmd, m.data) /\ Len(Wire(m)) \in Nat
    BY <2>1, CleanWire
  <2>3. Len(m.data) <= MaxData
    BY <2>1 DEF Clean
  <2> HIDE DEF m
  <2>4. Streams!Begins(accum[c], Pack(m.cmd, m.data))
    BY <1>3, <1>5, <2>2 DEF m
  <2>5. /\ Parse(accum[c]) = IF Len(accum[c]) < Len(Pack(m.cmd, m.data)) THEN 0
                             ELSE Len(Pack(m.cmd, m.data))
        /\ Len(accum[c]) >= Len(Pack(m.cmd, m.data))
               => Request(accum[c]) = [cmd |-> m.cmd, data |-> m.data]
    BY <1>1, <2>2, <2>3, <2>4, FrameFound
  <2>6. \/ result[c] = 0
        \/ /\ result[c] = Len(Wire(m)) /\ result[c] <= Len(accum[c])
           /\ Request(accum[c]) = [cmd |-> m.cmd, data |-> m.data]
    <3> DEFINE F == Len(Wire(m))
               B == Len(accum[c])
    <3>1. F \in Nat /\ B \in Nat
      BY <1>1, <2>2
    <3>2. /\ result[c] = IF B < F THEN 0 ELSE F
          /\ B >= F => Request(accum[c]) = [cmd |-> m.cmd, data |-> m.data]
      BY <1>2, <2>2, <2>5
    <3> HIDE DEF F, B
    <3>3. \/ result[c] = 0
          \/ result[c] = F /\ F <= B /\ Request(accum[c]) = [cmd |-> m.cmd, data |-> m.data]
      BY <3>1, <3>2
    <3> QED
      BY <3>3 DEF F, B
  <2> QED
    BY <1>5, <2>6 DEF m, q, a, n
<1> QED
  BY <1>1, <1>2, <1>4, <1>5

\* The answer to the next message comes after those that are there.
LEMMA HandleClean ==
    ASSUME Bytewise, Inv, Typed, LoginInv, CleanFit, NEW c \in Clients, Handle(c)
    PROVE  CleanFit'
<1> DEFINE q == Messages(c)
           a == Answered(c)
           m == q[a + 1]
           req == Request(accum[c])
           free == loggedIn[c] \/ Token = <<>>
           Put(verdict) == answers' = [answers EXCEPT
                               ![c] = Append(@, [cmd |-> req.cmd, verdict |-> verdict])]
<1>1. /\ session[c] = "act" /\ result[c] > 0
      /\ accum' = [accum EXCEPT ![c] = Dropped(@, result[c])]
      /\ result' = [result EXCEPT ![c] = 0]
      /\ UNCHANGED <<script, sent, hung, net>>
  BY DEF Handle, Consume, At, clientVars
<1>2. \/ free /\ Put("done") /\ loggedIn' = loggedIn /\ GoTo(c, "parse")
      \/ /\ ~free /\ req.cmd = CmdAuth /\ req.data = Token /\ Put("granted")
         /\ loggedIn' = [loggedIn EXCEPT ![c] = TRUE] /\ GoTo(c, "parse")
      \/ /\ ~free /\ req.cmd = CmdAuth /\ req.data # Token /\ Put("denied")
         /\ loggedIn' = loggedIn /\ GoTo(c, "ended")
      \/ /\ ~free /\ req.cmd # CmdAuth /\ Put("denied")
         /\ loggedIn' = loggedIn /\ GoTo(c, "parse")
  BY DEF Handle, Respond, Close
<1>3. /\ \A d \in Clients \ {c} : /\ answers'[d] = answers[d] /\ accum'[d] = accum[d]
                                  /\ loggedIn'[d] = loggedIn[d]
                                  /\ session'[d] = session[d] /\ result'[d] = result[d]
  BY <1>1, <1>2 DEF GoTo, Inv, Shape, Typed, LoginInv
<1>4. ASSUME Clean(q) PROVE ServedFit(c)'
  <2>1. /\ a \in Nat /\ sent[c] \in Nat /\ accum[c] \in Seq(Byte) /\ net[c] \in Seq(Byte)
        /\ AtHand(c) \in Seq(Byte) /\ Len(accum[c]) \in Nat
        /\ Len(AtHand(c)) \in Nat /\ Len(accum[c]) <= Len(AtHand(c))
    BY CountsAreNumbers
  <2>2. /\ a < sent[c] /\ result[c] = Len(Wire(m)) /\ result[c] <= Len(accum[c])
        /\ req = [cmd |-> m.cmd, data |-> m.data]
    BY <1>1, <1>4, NextFound
  <2>3. ServedFit(c) /\ sent[c] <= Len(q)
    BY <1>4 DEF CleanFit, ServedFit
  <2>4. a + 1 \in 1 .. Len(q) /\ Intact(q) = 1 .. Len(q)
    BY <1>4, <2>1, <2>2, <2>3 DEF Clean, Intact
  <2>5. result[c] \in Nat
    BY <1>4, <2>2, <2>4, CleanWire
  <2>6. /\ q' = q /\ sent'[c] = sent[c] /\ net'[c] = net[c]
        /\ accum'[c] = Dropped(accum[c], result[c])
    BY <1>1 DEF Messages, Typed
  <2>7. AtHand(c)' = Dropped(AtHand(c), result[c])
    <3>1. Dropped(accum[c] \o net[c], result[c]) = Dropped(accum[c], result[c]) \o net[c]
      BY <2>1, <2>2, <2>5, DroppedFirst
    <3> QED
      BY <2>6, <3>1 DEF AtHand
  <2> DEFINE verdict == IF free THEN "done" ELSE IF Opens(q, a + 1) THEN "granted" ELSE "denied"
             x == [cmd |-> m.cmd, verdict |-> verdict]
  <2>8. /\ Opens(q, a + 1) <=> req.cmd = CmdAuth /\ req.data = Token
        /\ req.cmd = m.cmd
    BY <2>2 DEF Opens
  <2>9. Put(verdict)
    BY <1>2, <2>8
  <2>10. answers'[c] = Append(answers[c], x)
    BY <2>8, <2>9 DEF LoginInv
  <2>11. PICK S : answers[c] \in Seq(S)
    BY DEF LoginInv
  <2>12. /\ Answered(c)' = a + 1
         /\ \A i \in 1 .. a : answers'[c][i] = answers[c][i]
         /\ answers'[c][a + 1] = x
    <3> HIDE DEF x
    <3> QED
      BY <2>10, <2>11, OneMore DEF Answered
  <2>13. free <=> Free(q, a + 1)
    <3>1. Token # <<>> => (loggedIn[c] <=> \E i \in 1 .. a : Opens(q, i))
      BY <2>3 DEF ServedFit
    <3>2. \A i : i \in 1 .. a <=> i \in Intact(q) /\ i < a + 1
      BY <2>1, <2>4
    <3> QED
      BY <3>1, <3>2 DEF Free
  <2>14. x = Answer(q, a + 1)
    BY <2>13 DEF Answer
  <2>15. session'[c] # "ended" => ~Closes(q, a + 1)
    BY <1>2, <2>8, <2>13 DEF Closes, GoTo, Inv, Shape
  <2>16. \A i \in 1 .. a : answers[c][i] = Answer(q, i) /\ ~Closes(q, i)
    BY <1>1, <2>3 DEF ServedFit, AnswersRight
  <2>17. (Token # <<>> => (loggedIn[c] <=> \E i \in 1 .. Answered(c) : Opens(Messages(c), i)))'
    <3>1. ASSUME Token # <<>>
          PROVE  loggedIn'[c] <=> (\E i \in 1 .. a : Opens(q, i)) \/ Opens(q, a + 1)
      <4>1. loggedIn[c] <=> \E i \in 1 .. a : Opens(q, i)
        BY <2>3, <3>1 DEF ServedFit
      <4>2. loggedIn'[c] <=> loggedIn[c] \/ Opens(q, a + 1)
        BY <1>2, <2>8, <3>1 DEF Typed
      <4> QED
        BY <4>1, <4>2
    <3>2. \A i : i \in 1 .. a + 1 <=> i \in 1 .. a \/ i = a + 1
      BY <2>1
    <3>3. \A i : Opens(Messages(c), i)' = Opens(q, i)
      BY <2>6 DEF Opens
    <3> QED
      BY <2>12, <3>1, <3>2, <3>3
  <2>18. StreamIs(q', Answered(c)', sent'[c], AtHand(c)', c \notin hung')
    <3>1. \A whole : StreamIs(q, a, sent[c], AtHand(c), whole)
                => StreamIs(q, a + 1, sent[c], AtHand(c)', whole)
      <4>1. Len(Wire(q[a + 1])) <= Len(AtHand(c))
        BY <2>1, <2>2, <2>5
      <4> QED
        BY <1>4, <2>1, <2>2, <2>3, <2>7, <4>1, StreamTaken
    <3>2. c \in hung => StreamIs(q, a, sent[c], AtHand(c), FALSE)
      BY <2>3 DEF ServedFit
    <3>3. c \notin hung => StreamIs(q, a, sent[c], AtHand(c), TRUE)
      BY <2>3 DEF ServedFit
    <3>4. c \in hung => StreamIs(q, a + 1, sent[c], AtHand(c)', FALSE)
      BY <3>1, <3>2
    <3>5. c \notin hung => StreamIs(q, a + 1, sent[c], AtHand(c)', TRUE)
      BY <3>1, <3>3
    <3> QED
      BY <1>1, <2>6, <2>12, <3>4, <3>5
  <2>19. AnswersRight(c)'
    <3>1. \A i : /\ Answer(Messages(c), i)' = Answer(q, i)
                 /\ Closes(Messages(c), i)' = Closes(q, i)
      BY <2>6 DEF Answer, Closes, Free, Opens, Intact
    <3>2. \A i \in 1 .. a + 1 : /\ answers'[c][i] = Answer(q, i)
                                /\ i < a + 1 \/ session'[c] # "ended" => ~Closes(q, i)
      <4> TAKE i \in 1 .. a + 1
      <4>1. CASE i \in 1 .. a
        BY <2>12, <2>16, <4>1
      <4>2. CASE i = a + 1
        BY <2>1, <2>12, <2>14, <2>15, <4>2
      <4> QED
        BY <2>1, <4>1, <4>2
    <3> QED
      BY <2>12, <3>1, <3>2 DEF AnswersRight
  <2>20. session'[c] # "act"
    BY <1>2 DEF GoTo, Inv, Shape
  <2>21. a + 1 <= sent[c]
    BY <2>1, <2>2
  <2> QED
    BY <2>3, <2>6, <2>12, <2>17, <2>18, <2>19, <2>20, <2>21 DEF ServedFit
<1> QED
  BY <1>1, <1>3, <1>4, OthersClean

\* Only the steps above touch the data of a connection, and no bytes of clean
\* messages are skipped.
LEMMA StepClean ==
    Bytewise /\ Inv /\ Typed /\ LoginInv /\ CleanFit /\ [Next]_vars => CleanFit'
<1> SUFFICES ASSUME Bytewise, Inv, Typed, LoginInv, CleanFit, [Next]_vars PROVE CleanFit'
  OBVIOUS
<1>1. ASSUME UNCHANGED <<script, answers, sent, accum, net, loggedIn, hung, result>>,
             \A c \in Clients : /\ session'[c] = "act" => session[c] = "act"
                                /\ session'[c] # "ended" => session[c] # "ended"
      PROVE  CleanFit'
  <2>1. \A c : Messages(c)' = Messages(c)
    BY <1>1 DEF Messages
  <2>2. ASSUME NEW c \in Clients, Clean(Messages(c)) PROVE ServedFit(c)'
    BY <1>1, <2>1, <2>2, SameData DEF CleanFit
  <2> QED
    BY <2>1, <2>2 DEF CleanFit
<1>2. CASE Start \/ Stop \/ StopSteps
  BY <1>1, <1>2 DEF Start, Stop, StopSteps, CloseListener, JoinAcceptor, JoinSessions,
                    clientVars, dataVars
<1>3. CASE AcceptorTurn \/ Accept \/ AcceptFails
  BY <1>1, <1>3 DEF AcceptorTurn, Accept, AcceptFails, clientVars, dataVars
<1>4. CASE Spawn
  <2>1. taken \in Clients /\ session[taken] = "none"
    BY <1>4, GatewayAssumption DEF GatewayAssumption, Spawn, Inv, Shape, ConnectionsFit
  <2>2. \A c \in Clients : session'[c] = IF c = taken THEN "top" ELSE session[c]
    BY <1>4 DEF Spawn, Inv, Shape
  <2> QED
    BY <1>1, <1>4, <2>1, <2>2 DEF Spawn, clientVars, dataVars
<1>5. ASSUME NEW c \in Clients, Connect(c) PROVE CleanFit'
  BY <1>1, <1>5 DEF Connect, clientVars, dataVars
<1>6. ASSUME NEW c \in Clients,
             SessionTurn(c) \/ PollTimeout(c) \/ EndOfStream(c) \/ NeedMore(c)
      PROVE  CleanFit'
  <2>1. \A d \in Clients : /\ session'[d] = "act" => session[d] = "act"
                           /\ session'[d] # "ended" => session[d] # "ended"
    BY <1>6 DEF SessionTurn, PollTimeout, EndOfStream, NeedMore, GoTo, Close, At, Inv, Shape
  <2> QED
    BY <1>1, <1>6, <2>1 DEF SessionTurn, PollTimeout, EndOfStream, NeedMore, clientVars,
                            dataVars
<1>7. ASSUME NEW c \in Clients, Skip(c) PROVE CleanFit'
  <2>1. session[c] = "act" /\ result[c] < 0 /\ script' = script
    BY <1>7 DEF Skip, At, clientVars
  <2>2. ~Clean(Messages(c))
    <3> SUFFICES ASSUME Clean(Messages(c)) PROVE FALSE
      OBVIOUS
    <3>1. result[c] = 0 \/ /\ Answered(c) < sent[c]
                           /\ result[c] = Len(Wire(Messages(c)[Answered(c) + 1]))
      BY <2>1, NextFound
    <3>2. Answered(c) \in Nat /\ sent[c] \in Nat /\ sent[c] <= Len(Messages(c))
      BY CountsAreNumbers DEF CleanFit, ServedFit
    <3>3. Len(Messages(c)) \in Nat
      BY DEF Clean
    <3>4. Answered(c) < sent[c] => Answered(c) + 1 \in 1 .. Len(Messages(c))
      BY <3>2, <3>3
    <3>5. result[c] = 0 \/ result[c] \in Nat
      BY <3>1, <3>4, CleanWire
    <3> QED
      BY <2>1, <3>5
  <2>3. \A d \in Clients \ {c} :
            /\ answers'[d] = answers[d] /\ sent'[d] = sent[d] /\ accum'[d] = accum[d]
            /\ net'[d] = net[d] /\ loggedIn'[d] = loggedIn[d]
            /\ (d \in hung') = (d \in hung)
            /\ session'[d] = session[d] /\ result'[d] = result[d]
    BY <1>7 DEF Skip, Consume, GoTo, Inv, Shape, Typed, clientVars
  <2> QED
    BY <2>1, <2>2, <2>3, OthersClean
<1>8. CASE UNCHANGED vars
  BY <1>1, <1>8 DEF vars, clientVars, dataVars
<1> QED
  BY <1>2, <1>3, <1>4, <1>5, <1>6, <1>7, <1>8, SendClean, HangUpClean, ReadClean, ParseClean,
     HandleClean DEF Next, AcceptorLoop, Client, ClientSession

LEMMA CleanHolds == ASSUME Bytewise PROVE Spec => [](Inv /\ Typed /\ LoginInv /\ CleanFit)
  BY InitInv, InitTyped, InitLogin, InitClean, StepKeepsInv, StepTyped, StepKeepsLogin,
     StepClean, PTL DEF Spec

\* The answers due to clean messages are those to the first of them.
LEMMA CleanAnswers ==
    ASSUME Typed, LoginInv, NEW c \in Clients, Clean(Messages(c)), ServedFit(c)
    PROVE  /\ Answered(c) <= Cardinality(Due(Messages(c)))
           /\ \A i \in Due(Messages(c)) :
                  Place(Messages(c), i) <= Answered(c)
                      => answers[c][Place(Messages(c), i)] = Answer(Messages(c), i)
<1> DEFINE q == Messages(c)
           a == Answered(c)
<1>1. a \in Nat /\ sent[c] \in Nat /\ a <= sent[c] /\ sent[c] <= Len(q) /\ Len(q) \in Nat
  <2>1. Answered(c) \in Nat /\ sent[c] \in Nat
    BY CountsAreNumbers
  <2>2. a <= sent[c] /\ sent[c] <= Len(q)
    BY DEF ServedFit
  <2>3. Len(q) \in Nat
    BY DEF Clean
  <2> QED
    BY <2>1, <2>2, <2>3
<1>2. Intact(q) = 1 .. Len(q)
  BY <1>1 DEF Clean, Intact
<1>3. \A i \in 1 .. a : answers[c][i] = Answer(q, i) /\ (i < a => ~Closes(q, i))
  BY DEF ServedFit, AnswersRight
<1> HIDE DEF q, a
<1>4. Due(q) \subseteq 1 .. Len(q) /\ 1 .. a \subseteq Due(q)
  <2>1. ASSUME NEW i \in 1 .. a PROVE i \in Due(q)
    BY <1>1, <1>2, <1>3 DEF Due
  <2> QED
    BY <1>2, <2>1 DEF Due
<1>5. a <= Cardinality(Due(q))
  <2>1. IsFiniteSet(1 .. Len(q)) /\ Cardinality(1 .. a) = a
    BY <1>1, FS_Interval
  <2>2. IsFiniteSet(Due(q))
    BY <1>4, <2>1, FS_Subset
  <2> QED
    BY <1>4, <2>1, <2>2, FS_Subset
<1>6. ASSUME NEW i \in Due(q) PROVE Place(q, i) = i
  <2>1. i \in 1 .. Len(q)
    BY <1>4
  <2>2. {j \in Due(q) : j <= i} = 1 .. i
    BY <1>1, <1>2, <2>1 DEF Due
  <2>3. Cardinality(1 .. i) = i
    BY <1>1, <2>1, FS_Interval
  <2> QED
    BY <2>2, <2>3 DEF Place
<1> QED
  BY <1>1, <1>3, <1>4, <1>5, <1>6 DEF q, a

\* What the clients send arrives undamaged, and fits into frames the parser accepts.
Undamaged ==
    \A w \in Workloads : \A c \in DOMAIN w : \A i \in DOMAIN w[c] :
        w[c][i].fault = "none" /\ Len(w[c][i].data) <= MaxData

\* However TCP cuts the bytes of a client, a byte at a time or several frames at
\* once, whatever the frames contain, and whenever clients hang up or the server
\* stops: its messages are answered in order, once, each with the verdict the
\* logins before it have earned, and a refused login ends the session
\* (client_session, parse_frame, pack_request, as long as no byte is damaged).
THEOREM AnswersInOrder == ASSUME Bytewise, Undamaged PROVE Spec => []AnswersFit
<1>1. ASSUME Inv /\ Typed /\ LoginInv /\ CleanFit PROVE AnswersFit
  <2>1. ASSUME NEW c \in Clients PROVE Clean(Messages(c))
    <3>1. CASE c \in DOMAIN script
      BY <1>1, <3>1, GatewayAssumption
         DEF GatewayAssumption, Typed, Undamaged, Clean, Messages
    <3>2. CASE c \notin DOMAIN script
      BY <3>2 DEF Clean, Messages
    <3> QED
      BY <3>1, <3>2
  <2> QED
    BY <1>1, <2>1, CleanAnswers DEF CleanFit, AnswersFit
<1> QED
  BY <1>1, CleanHolds, PTL

=============================================================================
