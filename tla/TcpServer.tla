----------------------------- MODULE TcpServer ------------------------------
(***************************************************************************)
(* The TCP gateway (gateway/tcp/tcp_server): the owner starts and stops    *)
(* it, a thread accepts connections, and every connection has a thread     *)
(* that collects bytes, takes frames out of them, checks the token and     *)
(* hands requests to the dispatcher.  Clients connect, send their bytes in *)
(* pieces of any size, and hang up whenever they like.                     *)
(***************************************************************************)
EXTENDS FrameParser, FiniteSets

CONSTANTS
    Clients,    \* connections; each client connects once
    Workloads,  \* which clients there are, and the messages each may send
    Token,      \* auth_token, as bytes; empty when nobody need log in
    NoClient    \* no connection accepted

Faults  == {"none", "crc", "footer", "length", "long", "huge", "headless"}

Byte == 0 .. 255

\* The command and the length of the data have two bytes of a frame each.
MaxWord == 256 * 256 - 1

Payload == {data \in Seq(Byte) : Len(data) <= MaxWord}

Message == [cmd : 0 .. MaxWord, data : Payload, fault : Faults]

ASSUME GatewayAssumption ==
    /\ \A w \in Workloads : DOMAIN w \subseteq Clients /\ w \in [DOMAIN w -> Seq(Message)]
    /\ Token \in Seq(Byte)
    /\ NoClient \notin Clients
    /\ MaxData \in Nat

VARIABLES
    up,         \* the process is alive
    running,    \* running_
    owner,      \* where the owner is in stop()
    listener,   \* the socket of listen_fd_
    acceptor,   \* where acceptor_loop is
    taken,      \* the connection accept4 has returned
    session,    \* session[c]: where client_session is
    accum,      \* accum[c]: accum
    result,     \* result[c]: what parse_frame has returned
    loggedIn,   \* loggedIn[c]: authenticated
    conn,       \* conn[c]: the connection as the client sees it
    script,     \* the workload: what each of its clients is going to send
    sent,       \* sent[c]: how many messages of it are sent
    net,        \* net[c]: bytes on their way to the server
    hung,       \* clients that have hung up
    answers     \* answers[c]: the responses written to c

serverVars == <<up, running, owner, listener, acceptor, taken>>
clientVars == <<script, sent, hung>>
dataVars   == <<accum, result, loggedIn, net, answers>>
vars       == <<serverVars, session, conn, clientVars, dataVars>>

CmdAuth == 65282

Init ==
    /\ up = TRUE
    /\ running = FALSE
    /\ owner = "idle"
    /\ listener = "closed"
    /\ acceptor = "none"
    /\ taken = NoClient
    /\ session = [c \in Clients |-> "none"]
    /\ accum = [c \in Clients |-> <<>>]
    /\ result = [c \in Clients |-> 0]
    /\ loggedIn = [c \in Clients |-> FALSE]
    /\ conn = [c \in Clients |-> "none"]
    /\ script \in Workloads
    /\ sent = [c \in Clients |-> 0]
    /\ net = [c \in Clients |-> <<>>]
    /\ hung = {}
    /\ answers = [c \in Clients |-> <<>>]

-----------------------------------------------------------------------------
(***************************************************************************)
(* The clients and the network.                                            *)
(***************************************************************************)

\* What a message looks like on the wire, after what has happened to it.  The
\* length field may promise the first bytes of the next frame, two kilobytes
\* that need not follow, or more than MAX_DATA_SIZE.
Wire(m) == LET f == Pack(m.cmd, m.data) IN
    CASE m.fault = "none"     -> f
      [] m.fault = "crc"      -> [f EXCEPT ![Len(f) - 2] = (@ + 1) % 256]
      [] m.fault = "footer"   -> [f EXCEPT ![Len(f)] = 0]
      [] m.fault = "length"   -> [f EXCEPT ![7] = (@ + 2) % 256]
      [] m.fault = "long"     -> [f EXCEPT ![6] = 8]
      [] m.fault = "huge"     -> [f EXCEPT ![6] = 255]
      [] m.fault = "headless" -> Tail(f)

\* A listening socket lives on after close while accept4 waits on it.
Listening == listener = "open" \/ acceptor = "accept"

Connect(c) ==
    /\ c \in DOMAIN script
    /\ conn[c] = "none"
    /\ Listening
    /\ conn' = [conn EXCEPT ![c] = "pending"]
    /\ UNCHANGED <<serverVars, session, clientVars, dataVars>>

Send(c) ==
    /\ conn[c] \in {"pending", "open"}
    /\ c \notin hung
    /\ sent[c] < Len(script[c])
    /\ sent' = [sent EXCEPT ![c] = @ + 1]
    /\ net' = [net EXCEPT ![c] = @ \o Wire(script[c][sent[c] + 1])]
    /\ UNCHANGED <<serverVars, session, conn, script, hung, accum, result, loggedIn, answers>>

\* What is on its way may still arrive, or be lost.
HangUp(c) ==
    /\ conn[c] \in {"pending", "open"}
    /\ c \notin hung
    /\ hung' = hung \cup {c}
    /\ net' \in {net, [net EXCEPT ![c] = <<>>]}
    /\ UNCHANGED <<serverVars, session, conn, script, sent, accum, result, loggedIn, answers>>

\* Connections nobody has accepted go down with the listening socket.
Refused == [c \in Clients |-> IF conn[c] = "pending" THEN "refused" ELSE conn[c]]

-----------------------------------------------------------------------------
(***************************************************************************)
(* The owner: start() and stop().                                          *)
(***************************************************************************)

Start ==
    /\ ~running
    /\ owner = "idle"
    /\ running' = TRUE
    /\ listener' = "open"
    /\ acceptor' = "top"
    /\ UNCHANGED <<up, owner, taken, session, conn, clientVars, dataVars>>

Stop ==
    /\ running
    /\ owner = "idle"
    /\ running' = FALSE
    /\ owner' = "close"
    /\ UNCHANGED <<up, listener, acceptor, taken, session, conn, clientVars, dataVars>>

CloseListener ==
    /\ owner = "close"
    /\ listener' = "closed"
    /\ conn' = IF acceptor = "accept" THEN conn ELSE Refused
    /\ owner' = "joinAcceptor"
    /\ UNCHANGED <<up, running, acceptor, taken, session, clientVars, dataVars>>

\* Mutant of JoinAcceptor: the acceptor is detached.
JoinAcceptorDetached ==
    /\ owner = "joinAcceptor"
    /\ owner' = "joinSessions"
    /\ UNCHANGED <<up, running, listener, acceptor, taken, session, conn, clientVars, dataVars>>

JoinAcceptor ==
    /\ owner = "joinAcceptor"
    /\ acceptor = "ended"
    /\ acceptor' = "none"
    /\ owner' = "joinSessions"
    /\ UNCHANGED <<up, running, listener, taken, session, conn, clientVars, dataVars>>

JoinSessions ==
    /\ owner = "joinSessions"
    /\ \A c \in Clients : session[c] \in {"none", "ended"}
    /\ owner' = "idle"
    /\ UNCHANGED <<up, running, listener, acceptor, taken, session, conn, clientVars, dataVars>>

\* Mutant of StopSteps: the sessions are joined before the acceptor.
JoinSessionsFirst ==
    /\ owner = "joinAcceptor"
    /\ \A c \in Clients : session[c] \in {"none", "ended"}
    /\ owner' = "joinSessions"
    /\ UNCHANGED <<up, running, listener, acceptor, taken, session, conn, clientVars, dataVars>>

JoinAcceptorLast ==
    /\ owner = "joinSessions"
    /\ acceptor = "ended"
    /\ acceptor' = "none"
    /\ owner' = "idle"
    /\ UNCHANGED <<up, running, listener, taken, session, conn, clientVars, dataVars>>

StopStepsSwapped == CloseListener \/ JoinSessionsFirst \/ JoinAcceptorLast

\* The rest of stop() after running_ is FALSE.
StopSteps == CloseListener \/ JoinAcceptor \/ JoinSessions

-----------------------------------------------------------------------------
(***************************************************************************)
(* acceptor_loop.                                                          *)
(***************************************************************************)

AcceptorTurn ==
    /\ acceptor = "top"
    /\ IF running /\ listener = "open" THEN acceptor' = "accept"
       ELSE ~running /\ acceptor' = "ended"
    /\ UNCHANGED <<up, running, owner, listener, taken, session, conn, clientVars, dataVars>>

\* accept4: it may return a connection although running_ is FALSE already.
Accept == \E c \in Clients :
    /\ acceptor = "accept"
    /\ conn[c] = "pending"
    /\ acceptor' = "spawn"
    /\ taken' = c
    /\ conn' = [(IF listener = "open" THEN conn ELSE Refused) EXCEPT ![c] = "open"]
    /\ UNCHANGED <<up, running, owner, listener, session, clientVars, dataVars>>

\* ECONNABORTED, EMFILE and the like: reported, and the loop goes on.
AcceptFails ==
    /\ acceptor = "accept"
    /\ acceptor' = "top"
    /\ conn' = IF listener = "open" THEN conn ELSE Refused
    /\ UNCHANGED <<up, running, owner, listener, taken, session, clientVars, dataVars>>

Spawn ==
    /\ acceptor = "spawn"
    /\ session' = [session EXCEPT ![taken] = "top"]
    /\ taken' = NoClient
    /\ acceptor' = "top"
    /\ UNCHANGED <<up, running, owner, listener, conn, clientVars, dataVars>>

-----------------------------------------------------------------------------
(***************************************************************************)
(* client_session.                                                         *)
(***************************************************************************)

At(c, phase) == session[c] = phase

GoTo(c, phase) == session' = [session EXCEPT ![c] = phase]

Close(c) ==
    /\ GoTo(c, "ended")
    /\ conn' = [conn EXCEPT ![c] = "closed"]

\* The test of running_ at the head of the loop.
SessionTurn(c) ==
    /\ At(c, "top")
    /\ IF running THEN GoTo(c, "poll") /\ UNCHANGED conn ELSE Close(c)
    /\ UNCHANGED <<serverVars, clientVars, dataVars>>

\* Mutant of PollTimeout: waits without a time limit.
PollForever(c) ==
    /\ At(c, "poll")
    /\ net[c] # <<>>
    /\ GoTo(c, "top")
    /\ UNCHANGED <<serverVars, conn, clientVars, dataVars>>

\* A second without data; while the server runs that changes nothing.
PollTimeout(c) ==
    /\ At(c, "poll")
    /\ ~running
    /\ GoTo(c, "top")
    /\ UNCHANGED <<serverVars, conn, clientVars, dataVars>>

\* A single byte, or all there is.
Read(c) == \E n \in {1, Len(net[c])} :
    /\ At(c, "poll")
    /\ net[c] # <<>>
    /\ accum' = [accum EXCEPT ![c] = @ \o SubSeq(net[c], 1, n)]
    /\ net' = [net EXCEPT ![c] = Dropped(@, n)]
    /\ GoTo(c, "parse")
    /\ UNCHANGED <<serverVars, conn, clientVars, result, loggedIn, answers>>

\* Mutant of EndOfStream: only an error of read ends the session.
EndOfStreamSpins(c) ==
    /\ At(c, "poll")
    /\ net[c] = <<>>
    /\ c \in hung
    /\ GoTo(c, "parse")
    /\ UNCHANGED <<serverVars, conn, clientVars, dataVars>>

\* read returns 0, or fails.
EndOfStream(c) ==
    /\ At(c, "poll")
    /\ net[c] = <<>>
    /\ c \in hung
    /\ Close(c)
    /\ UNCHANGED <<serverVars, clientVars, dataVars>>

ParseFrame(c) ==
    /\ At(c, "parse")
    /\ result' = [result EXCEPT ![c] = Parse(accum[c])]
    /\ GoTo(c, "act")
    /\ UNCHANGED <<serverVars, conn, clientVars, accum, loggedIn, net, answers>>

NeedMore(c) ==
    /\ At(c, "act")
    /\ result[c] = 0
    /\ GoTo(c, "top")
    /\ UNCHANGED <<serverVars, conn, clientVars, dataVars>>

Consume(c, n) ==
    /\ accum' = [accum EXCEPT ![c] = Dropped(@, n)]
    /\ result' = [result EXCEPT ![c] = 0]

Skip(c) ==
    /\ At(c, "act")
    /\ result[c] < 0
    /\ Consume(c, -result[c])
    /\ GoTo(c, "parse")
    /\ UNCHANGED <<serverVars, conn, clientVars, loggedIn, net, answers>>

\* pack_response and write.  Writing to a client that is gone raises SIGPIPE,
\* which the runtime does not ignore.
Respond(c, cmd, verdict) ==
    /\ answers' = [answers EXCEPT ![c] = Append(@, [cmd |-> cmd, verdict |-> verdict])]
    /\ up' \in IF c \in hung THEN BOOLEAN ELSE {TRUE}

\* Mutant of Handle: a wrong token does not close the connection.
HandleOpen(c) ==
    LET req  == Request(accum[c])
        free == loggedIn[c] \/ Token = <<>>
    IN
    /\ At(c, "act")
    /\ result[c] > 0
    /\ Consume(c, result[c])
    /\ GoTo(c, "parse")
    /\ \/ /\ free
          /\ Respond(c, req.cmd, "done")
          /\ UNCHANGED loggedIn
       \/ /\ ~free
          /\ loggedIn' = [loggedIn EXCEPT ![c] = req.cmd = CmdAuth /\ req.data = Token]
          /\ Respond(c, req.cmd, IF loggedIn'[c] THEN "granted" ELSE "denied")
    /\ UNCHANGED <<running, owner, listener, acceptor, taken, conn, clientVars, net>>

\* Mutant of Handle: what is refused is handed to the dispatcher all the same.
HandleOn(c) ==
    LET cmd == Request(accum[c]).cmd IN
    /\ At(c, "act")
    /\ result[c] > 0
    /\ Consume(c, result[c])
    /\ GoTo(c, "parse")
    /\ loggedIn' = [loggedIn EXCEPT
                        ![c] = @ \/ (cmd = CmdAuth /\ Request(accum[c]).data = Token)]
    /\ Respond(c, cmd, IF cmd # CmdAuth THEN "done"
                       ELSE IF loggedIn'[c] THEN "granted" ELSE "denied")
    /\ UNCHANGED <<running, owner, listener, acceptor, taken, conn, clientVars, net>>

\* A frame: a request of a client that is logged in goes to the dispatcher, a
\* wrong token ends the session, and anything else is refused.
Handle(c) ==
    LET req  == Request(accum[c])
        free == loggedIn[c] \/ Token = <<>>
    IN
    /\ At(c, "act")
    /\ result[c] > 0
    /\ Consume(c, result[c])
    /\ \/ /\ free
          /\ Respond(c, req.cmd, "done")
          /\ UNCHANGED <<loggedIn, conn>>
          /\ GoTo(c, "parse")
       \/ /\ ~free /\ req.cmd = CmdAuth /\ req.data = Token
          /\ loggedIn' = [loggedIn EXCEPT ![c] = TRUE]
          /\ Respond(c, req.cmd, "granted")
          /\ GoTo(c, "parse")
          /\ UNCHANGED conn
       \/ /\ ~free /\ req.cmd = CmdAuth /\ req.data # Token
          /\ Respond(c, req.cmd, "denied")
          /\ Close(c)
          /\ UNCHANGED loggedIn
       \/ /\ ~free /\ req.cmd # CmdAuth
          /\ Respond(c, req.cmd, "denied")
          /\ GoTo(c, "parse")
          /\ UNCHANGED <<loggedIn, conn>>
    /\ UNCHANGED <<running, owner, listener, acceptor, taken, clientVars, net>>

-----------------------------------------------------------------------------

Client(c) == Connect(c) \/ Send(c) \/ HangUp(c)

AcceptorLoop == AcceptorTurn \/ Accept \/ Spawn

ClientSession(c) ==
    \/ SessionTurn(c) \/ PollTimeout(c) \/ Read(c) \/ EndOfStream(c)
    \/ ParseFrame(c) \/ NeedMore(c) \/ Skip(c) \/ Handle(c)

Next ==
    /\ up
    /\ \/ Start \/ Stop \/ StopSteps \/ AcceptorLoop \/ AcceptFails
       \/ \E c \in Clients : Client(c) \/ ClientSession(c)

Spec == Init /\ [][Next]_vars

\* Every thread goes on when it can; nothing is expected of the clients.
FairSpec ==
    /\ Spec
    /\ WF_vars(up /\ StopSteps)
    /\ WF_vars(up /\ AcceptorLoop)
    /\ \A c \in Clients : WF_vars(up /\ ClientSession(c))

-----------------------------------------------------------------------------
(***************************************************************************)
(* Properties.                                                             *)
(***************************************************************************)

Live(c) == session[c] \notin {"none", "ended"}

\* Types; stop() is past the join of the acceptor only when that has ended, and
\* a connection is on its way from accept4 to its thread in phase "spawn" only.
TypeOK ==
    /\ up \in BOOLEAN /\ running \in BOOLEAN
    /\ owner \in {"idle", "close", "joinAcceptor", "joinSessions"}
    /\ listener \in {"open", "closed"}
    /\ acceptor \in {"none", "top", "accept", "spawn", "ended"}
    /\ taken \in Clients \cup {NoClient}
    /\ session \in [Clients -> {"none", "top", "poll", "parse", "act", "ended"}]
    /\ accum \in [Clients -> Seq(Byte)]
    /\ result \in [Clients -> Int]
    /\ loggedIn \in [Clients -> BOOLEAN]
    /\ conn \in [Clients -> {"none", "pending", "open", "refused", "closed"}]
    /\ sent \in [Clients -> Nat]
    /\ net \in [Clients -> Seq(Byte)]
    /\ hung \in SUBSET Clients
    /\ owner = "joinSessions" => acceptor = "none"
    /\ (acceptor = "spawn") = (taken # NoClient)

\* What a session has to answer to a sequence of messages, worked out without
\* the stream: one response for every intact one, up to a refused login.
Intact(q) == {i \in DOMAIN q : q[i].fault = "none"}

Opens(q, i) == q[i].cmd = CmdAuth /\ q[i].data = Token

Free(q, i) == Token = <<>> \/ \E j \in Intact(q) : j < i /\ Opens(q, j)

Closes(q, i) == ~Free(q, i) /\ q[i].cmd = CmdAuth /\ ~Opens(q, i)

Due(q) == {i \in Intact(q) : \A j \in Intact(q) : j < i => ~Closes(q, j)}

Answer(q, i) ==
    [cmd     |-> q[i].cmd,
     verdict |-> IF Free(q, i) THEN "done" ELSE IF Opens(q, i) THEN "granted" ELSE "denied"]

\* The place of the answer to message i among the answers.
Place(q, i) == Cardinality({j \in Due(q) : j <= i})

Answered(c) == Len(answers[c])

Messages(c) == IF c \in DOMAIN script THEN script[c] ELSE <<>>

SentAll(c) == c \in DOMAIN script /\ sent[c] = Len(script[c])

\* However the bytes of a connection are cut into pieces and whatever damaged
\* frames lie between the intact ones, every intact request is answered once, in
\* order, and none is carried out before the right token has come in.
AnswersFit ==
    \A c \in Clients : LET q == Messages(c) IN
        /\ Answered(c) <= Cardinality(Due(q))
        /\ \A i \in Due(q) :
               Place(q, i) <= Answered(c) => answers[c][Place(q, i)] = Answer(q, i)

\* Nothing reaches the dispatcher before the session has been granted access,
\* when there is a token.
GrantedFirst ==
    \A c \in Clients : \A i \in 1 .. Answered(c) :
        answers[c][i].verdict = "done" =>
            Token = <<>> \/ \E j \in 1 .. i - 1 : answers[c][j].verdict = "granted"

\* When stop() has returned, no thread and no connection is left, although
\* the acceptor may take one more connection after running_ is FALSE.
NothingLeft ==
    ~running /\ owner = "idle" =>
        /\ acceptor = "none"
        /\ \A c \in Clients : ~Live(c) /\ conn[c] \notin {"pending", "open"}

\* How many bytes go out for the messages from i on.
BytesFrom(q, i) ==
    LET bytes[j \in i .. Len(q) + 1] ==
            IF j > Len(q) THEN 0 ELSE Len(Wire(q[j])) + bytes[j + 1]
    IN  bytes[i]

\* The length field of message i, not above MAX_DATA_SIZE, promises more than
\* the client will ever send: parse_frame waits for the rest.
Overreaches(q, i) ==
    LET frame == Wire(q[i]) IN
    /\ SubSeq(frame, 1, 2) = Header
    /\ DataLength(frame) <= MaxData
    /\ Envelope + DataLength(frame) > BytesFrom(q, i)

\* The messages that are due and have no such frame in front of them.
InReach(q) == {i \in Due(q) : \A j \in 1 .. i - 1 : ~Overreaches(q, j)}

\* Damaged frames may lie between the intact ones: every intact request is
\* answered in the end, unless the client hangs up, the server stops or the
\* process dies, or parse_frame still waits for the bytes that a damaged length
\* in front of the request has promised.
Served == \A c \in Clients :
    conn[c] = "open" /\ SentAll(c)
        ~> \/ Answered(c) >= Cardinality(InReach(Messages(c)))
           \/ c \in hung \/ ~running \/ ~up

\* The thread of a client that has hung up ends, and so do all after stop().
SessionsEnd == \A c \in Clients :
    Live(c) /\ (c \in hung \/ ~running) ~> ~Live(c) \/ ~up

\* stop() waits for nothing but an acceptor that is blocked in accept4.
StopReturns ==
    owner = "joinAcceptor" /\ acceptor # "accept" ~> owner = "idle" \/ ~up

=============================================================================
