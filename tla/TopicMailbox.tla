---------------------------- MODULE TopicMailbox ----------------------------
(***************************************************************************)
(* What the message bus promises to those who subscribe to its topics      *)
(* (system-skeleton, src/transport/message_bus.h), whatever threads serve  *)
(* them: a topic is a mailbox of bounded size that loses its oldest        *)
(* message when it is full, its messages are handled one at a time and in  *)
(* the order they were published, and while the bus is open every message  *)
(* is handled or displaced by newer ones.                                  *)
(***************************************************************************)
EXTENDS Naturals, Sequences

CONSTANTS
    Topics,      \* the topics
    MaxQueue,    \* how many messages a mailbox holds
    NoMessage    \* nothing is being handled

VARIABLES
    box,         \* box[t]: the messages of t nobody has begun to handle
    handled,     \* handled[t]: the message of t that is being handled
    count,       \* messages published so far; each is known by its number
    open         \* the bus has not begun to shut down

mailVars == <<box, handled, count, open>>

MailInit ==
    /\ box = [t \in Topics |-> <<>>]
    /\ handled = [t \in Topics |-> NoMessage]
    /\ count = 0
    /\ open = TRUE

\* What a mailbox holds when message m is put into queue.
Posted(queue, m) ==
    Append(IF Len(queue) >= MaxQueue THEN Tail(queue) ELSE queue, m)

Post(t) ==
    /\ count' = count + 1
    /\ box' = [box EXCEPT ![t] = Posted(@, count')]
    /\ UNCHANGED <<handled, open>>

Take(t) ==
    /\ handled[t] = NoMessage
    /\ box[t] # <<>>
    /\ handled' = [handled EXCEPT ![t] = Head(box[t])]
    /\ box' = [box EXCEPT ![t] = Tail(@)]
    /\ UNCHANGED <<count, open>>

Finish(t) ==
    /\ handled[t] # NoMessage
    /\ handled' = [handled EXCEPT ![t] = NoMessage]
    /\ UNCHANGED <<box, count, open>>

Close ==
    /\ open
    /\ open' = FALSE
    /\ UNCHANGED <<box, handled, count>>

MailNext == Close \/ \E t \in Topics : Post(t) \/ Take(t) \/ Finish(t)

MailSpec ==
    /\ MailInit /\ [][MailNext]_mailVars
    /\ \A t \in Topics : WF_mailVars(open /\ Take(t)) /\ WF_mailVars(Finish(t))

=============================================================================
