---------------------------- MODULE MCTcpServer -----------------------------
(***************************************************************************)
(* One or two clients against a gateway with a one-byte token.  They log   *)
(* in, forget to, use a wrong token, and send frames that are damaged in   *)
(* every way the parser distinguishes, next to intact ones, also behind a  *)
(* length for which the parser waits in vain; one client stays idle.       *)
(***************************************************************************)
EXTENDS TcpServer, Bitwise, SequencesExt

CONSTANTS console, tablet

\* One shift of crc8, polynomial x^8 + x^2 + x + 1.
Shifted(crc) == IF crc >= 128 THEN ((2 * crc) % 256) ^^ 7 ELSE 2 * crc

\* f from 0 .. 255 as a sequence, which TLC works out once and looks up.
Table(f) == SubSeq([i \in 1 .. 256 |-> f[i - 1]], 1, 256)

Shifted8 == Table([crc \in 0 .. 255 |->
    Shifted(Shifted(Shifted(Shifted(Shifted(Shifted(Shifted(Shifted(crc))))))))])

\* What byte b makes of crc.
After == Table([crc \in 0 .. 255 |->
             Table([b \in 0 .. 255 |-> Shifted8[1 + (crc ^^ b)]])])

Crc8(bytes) == FoldLeft(LAMBDA crc, b : After[crc + 1][b + 1], 0, bytes)

Frame(cmd, data, fault) == [cmd |-> cmd, data |-> data, fault |-> fault]

Login(fault)  == Frame(CmdAuth, <<7>>, fault)
WrongLogin    == Frame(CmdAuth, <<8>>, "none")
Ping(fault)   == Frame(65281, <<>>, fault)

MCToken    == <<7>>
TwoClients == {console, tablet}

Alone(messages) == console :> messages

MCWorkloads ==
    {Alone(<<Login("none"), Ping("none")>>), Alone(<<WrongLogin, Ping("none")>>),
     Alone(<<Login("length"), Ping("none"), Login("none")>>),
     Alone(<<Login("none"), Ping("long"), Ping("none")>>)} \cup
    {Alone(<<Login(f), Login("none")>>) : f \in Faults \ {"none"}} \cup
    {[c \in TwoClients |-> IF c = console THEN <<Ping("none")>> ELSE <<>>]}

=============================================================================
