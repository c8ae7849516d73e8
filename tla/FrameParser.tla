---------------------------- MODULE FrameParser -----------------------------
(***************************************************************************)
(* The frames of the TCP gateway (gateway/tcp/protocol_parser.h) on a      *)
(* stream of bytes:                                                        *)
(*   AA 55 | version | command (2) | length (2) | data | CRC | 0D 0A       *)
(***************************************************************************)
EXTENDS Integers, Sequences

CONSTANTS
    Crc(_),     \* crc8: the check byte of a sequence of bytes
    MaxData     \* MAX_DATA_SIZE

Header    == <<170, 85>>
Footer    == <<13, 10>>
Version   == 1
MinSize   == 8      \* FRAME_MIN_SIZE; the smallest frame has ten bytes
Envelope  == 10     \* the bytes of a frame around its data

Bytes(n) == <<n \div 256, n % 256>>

\* pack_request
Pack(cmd, data) ==
    LET body == <<Version>> \o Bytes(cmd) \o Bytes(Len(data)) \o data
    IN  Header \o body \o <<Crc(body)>> \o Footer

Headers(buf) == {p \in 1 .. Len(buf) - 1 : SubSeq(buf, p, p + 1) = Header}

DataLength(buf) == 256 * buf[6] + buf[7]

\* Mutant of Framed: a wrong check byte drops what the length field says.
FramedDropsAll(buf) ==
    LET total == Envelope + DataLength(buf)
        check == total - 2
    IN  IF DataLength(buf) > MaxData THEN -2
        ELSE IF Len(buf) < total THEN 0
        ELSE IF buf[check] # Crc(SubSeq(buf, 3, check - 1)) THEN -total
        ELSE IF SubSeq(buf, check + 1, total) # Footer THEN -4
        ELSE total

\* A frame that begins the buffer, with its length field as it is.
Framed(buf) ==
    LET total == Envelope + DataLength(buf)
        check == total - 2
    IN  IF DataLength(buf) > MaxData THEN -2
        ELSE IF Len(buf) < total THEN 0
        ELSE IF buf[check] # Crc(SubSeq(buf, 3, check - 1)) THEN -3
        ELSE IF SubSeq(buf, check + 1, total) # Footer THEN -4
        ELSE total

\* parse_frame: how many bytes the frame at the head has, 0 when more bytes are
\* needed, and as a negative number how many bytes the caller will drop.
Parse(buf) ==
    IF Len(buf) < MinSize \/ Headers(buf) = {} THEN 0
    ELSE LET first == CHOOSE p \in Headers(buf) : \A q \in Headers(buf) : p <= q
         IN  IF first > 1 THEN -(first - 1) ELSE Framed(buf)

\* The request in a frame parse_frame has accepted.
Request(buf) ==
    [cmd |-> 256 * buf[4] + buf[5], data |-> SubSeq(buf, 8, 7 + DataLength(buf))]

Dropped(buf, n) == SubSeq(buf, n + 1, Len(buf))

=============================================================================
