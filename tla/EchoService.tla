----------------------------- MODULE EchoService -----------------------------
(***************************************************************************)
(* What the echo server promises its clients: a client that has sent a     *)
(* whole message gets the text of that message, once, and gets it unless   *)
(* its connection or one of the two processes is lost.                     *)
(***************************************************************************)
EXTENDS Naturals, Sequences

CONSTANTS Clients,
          Text       \* the text of each message: a function on the messages

VARIABLES message,   \* the message of each client
          asked,     \* the clients whose whole message is in the stream
          answer,    \* the answer to each client, empty before it is sent
          lost       \* the clients a fault has hit

vars == <<message, asked, answer, lost>>

Init ==
    /\ message \in [Clients -> DOMAIN Text]
    /\ asked = {}
    /\ answer = [c \in Clients |-> <<>>]
    /\ lost = {}

Ask(c) ==
    /\ c \notin asked
    /\ asked' = asked \cup {c}
    /\ UNCHANGED <<message, answer, lost>>

Answer(c) ==
    /\ c \in asked
    /\ answer[c] = <<>>
    /\ answer' = [answer EXCEPT ![c] = Text[message[c]]]
    /\ UNCHANGED <<message, asked, lost>>

Lose(c) ==
    /\ lost' = lost \cup {c}
    /\ UNCHANGED <<message, asked, answer>>

Next == \E c \in Clients : Ask(c) \/ Answer(c) \/ Lose(c)

Spec == Init /\ [][Next]_vars

\* An answer is due to every client that is not lost.
FairSpec == Spec /\ \A c \in Clients : WF_vars(c \notin lost /\ Answer(c))
==============================================================================
