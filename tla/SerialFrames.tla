---------------------------- MODULE SerialFrames ----------------------------
(***************************************************************************)
(* How the joystick bridge of the module manager hub finds frames in what  *)
(* a serial line delivers (JoyBridgeCore, core/joy_bridge_core.cpp).  A    *)
(* frame is two start bytes, the axes and the buttons with a count before  *)
(* each, and a checksum.  The line keeps the order of its bytes and cuts   *)
(* them into chunks of any size; it may lose bytes and add others.  An     *)
(* axis and the checksum are one byte each here.                           *)
(***************************************************************************)
EXTENDS Naturals, Sequences

CONSTANTS
    ToSend,     \* what the other side sends, as [axes, buttons], all different
    Noise,      \* bytes that disturb the line
    MaxNoise,   \* bound on the disturbances
    MaxAxes,    \* MAX_AXES
    MaxBtns,    \* MAX_BTNS
    Checksum(_) \* calcCRC16

JoyFrame == [axes : Seq(0 .. 255), buttons : Seq({0, 1})]

ASSUME SerialAssumption ==
    /\ MaxAxes \in 0 .. 255 /\ MaxBtns \in 0 .. 255 /\ MaxNoise \in Nat
    /\ Noise \subseteq 0 .. 255
    /\ ToSend \in Seq(JoyFrame)
    /\ \A i \in DOMAIN ToSend :
          Len(ToSend[i].axes) \in 1 .. MaxAxes /\ Len(ToSend[i].buttons) <= MaxBtns
    /\ \A i, j \in DOMAIN ToSend : ToSend[i] = ToSend[j] => i = j

VARIABLES
    line,       \* bytes on their way
    sentFrames, \* how many of ToSend have been sent
    disturbed,  \* how often the line has been disturbed
    rx_buf,     \* rx_buf_
    feeding,    \* feedData is in its loop
    reported    \* the frames feedData has found so far

serialVars == <<line, sentFrames, disturbed, rx_buf, feeding, reported>>

SerialInit ==
    /\ line = <<>>
    /\ sentFrames = 0
    /\ disturbed = 0
    /\ rx_buf = <<>>
    /\ feeding = FALSE
    /\ reported = <<>>

-----------------------------------------------------------------------------

SOF == <<170, 85>>

From(bytes, i) == SubSeq(bytes, i, Len(bytes))

Content(c) ==
    <<Len(c.axes)>> \o c.axes \o <<Len(c.buttons)>> \o c.buttons

Wire(c) == SOF \o Content(c) \o <<Checksum(Content(c))>>

-----------------------------------------------------------------------------
Starts(bytes) == {i \in 1 .. Len(bytes) - 1 : SubSeq(bytes, i, i + 1) = SOF}

FirstStart(bytes) == CHOOSE i \in Starts(bytes) : \A j \in Starts(bytes) : i <= j

\* Of the bytes from a start on: the axes, the place of the button count, and
\* the length the frame has if its counts are right.
BtnAt(b) == 4 + b[3]
FrameLen(b) == BtnAt(b) + b[BtnAt(b)] + 1

\* What tryParseFrame makes of the bytes from a start on.
Verdict(b) ==
    IF Len(b) < 3 THEN "wait"
    ELSE IF b[3] \notin 1 .. MaxAxes THEN "skip"
    ELSE IF Len(b) < BtnAt(b) THEN "wait"
    ELSE IF b[BtnAt(b)] > MaxBtns THEN "skip"
    ELSE IF Len(b) < FrameLen(b) THEN "wait"
    ELSE IF Checksum(SubSeq(b, 3, FrameLen(b) - 1)) # b[FrameLen(b)] THEN "skip"
    ELSE "frame"

\* A button is pressed or not, whatever byte stands for it.
Decoded(b) ==
    [axes    |-> SubSeq(b, 4, BtnAt(b) - 1),
     buttons |-> [i \in 1 .. b[BtnAt(b)] |-> IF b[BtnAt(b) + i] = 0 THEN 0 ELSE 1]]

-----------------------------------------------------------------------------
(***************************************************************************)
(* feedData: it takes the bytes that have come, and calls tryParseFrame    *)
(* for as long as that returns true.  A call is a step.                    *)
(***************************************************************************)

\* The buffer from the first start on; a single byte may be half a start and stays.
Synced ==
    IF Len(rx_buf) < Len(SOF) THEN rx_buf
    ELSE IF Starts(rx_buf) = {} THEN <<>>
    ELSE From(rx_buf, FirstStart(rx_buf))

\* feedData is called with the next n bytes of the line.
FeedData(n) ==
    /\ ~feeding
    /\ n \in 1 .. Len(line)
    /\ line' = From(line, n + 1)
    /\ rx_buf' = rx_buf \o SubSeq(line, 1, n)
    /\ feeding' = TRUE
    /\ UNCHANGED <<sentFrames, disturbed, reported>>

\* Mutant of WaitForMore: what has come of a frame is thrown away.
WaitForNext ==
    /\ feeding /\ Verdict(Synced) = "wait"
    /\ rx_buf' = <<>>
    /\ feeding' = FALSE
    /\ UNCHANGED <<line, sentFrames, disturbed, reported>>

\* tryParseFrame returns false, and with it the loop ends.
WaitForMore ==
    /\ feeding /\ Verdict(Synced) = "wait"
    /\ rx_buf' = Synced
    /\ feeding' = FALSE
    /\ UNCHANGED <<line, sentFrames, disturbed, reported>>

\* What starts there is no frame: the search goes on behind the first start byte.
SkipByte ==
    /\ feeding /\ Verdict(Synced) = "skip"
    /\ rx_buf' = Tail(Synced)
    /\ UNCHANGED <<line, sentFrames, disturbed, feeding, reported>>

TakeFrame ==
    /\ feeding /\ Verdict(Synced) = "frame"
    /\ rx_buf' = From(Synced, FrameLen(Synced) + 1)
    /\ reported' = Append(reported, Decoded(Synced))
    /\ UNCHANGED <<line, sentFrames, disturbed, feeding>>

-----------------------------------------------------------------------------

SendFrame ==
    /\ sentFrames < Len(ToSend)
    /\ sentFrames' = sentFrames + 1
    /\ line' = line \o Wire(ToSend[sentFrames'])
    /\ UNCHANGED <<disturbed, rx_buf, feeding, reported>>

\* The line loses its next byte, or puts another before it.
Disturb ==
    /\ disturbed < MaxNoise
    /\ disturbed' = disturbed + 1
    /\ \/ line # <<>> /\ line' = Tail(line)
       \/ \E byte \in Noise : line' = <<byte>> \o line
    /\ UNCHANGED <<sentFrames, rx_buf, feeding, reported>>

SerialNext ==
    \/ SendFrame \/ Disturb
    \/ (\E n \in 1 .. Len(line) : FeedData(n)) \/ WaitForMore \/ SkipByte \/ TakeFrame

SerialSpec == SerialInit /\ [][SerialNext]_serialVars

-----------------------------------------------------------------------------

SerialTypeOK ==
    /\ line \in Seq(0 .. 255) /\ rx_buf \in Seq(0 .. 255)
    /\ sentFrames \in 0 .. Len(ToSend)
    /\ disturbed \in 0 .. MaxNoise
    /\ feeding \in BOOLEAN
    /\ reported \in Seq(JoyFrame)

\* Which frame each report is.
SentAs(i) == {k \in 1 .. sentFrames : ToSend[k] = reported[i]}

\* However the line is cut and disturbed, the bridge reports only frames that
\* were sent, in order and none twice, start bytes among the axes included; and
\* from an undisturbed line it reports every one as soon as its last byte has
\* come (feedData, tryParseFrame).
StreamParsed ==
    /\ \A i \in DOMAIN reported : SentAs(i) # {}
    /\ \A i, j \in DOMAIN reported :
          i < j => \A a \in SentAs(i), b \in SentAs(j) : a < b
    /\ disturbed = 0 /\ line = <<>> /\ ~feeding => Len(reported) = sentFrames /\ rx_buf = <<>>

=============================================================================
