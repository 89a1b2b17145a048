-------------------------- MODULE BtcEchoRefinement --------------------------
(***************************************************************************)
(* The processes of BtcEcho implement EchoService.                         *)
(***************************************************************************)
EXTENDS BtcEcho

\* The clients whose write(2) took the whole message.
Asked == {c \in Clients : written[c] = MsgLen(c)}

\* The text format_msg_buf prints of a message with a payload of n units.
TextOf == [n \in Lens |-> [i \in 1 .. HdrSize + n |-> i]]

Service == INSTANCE EchoService
            WITH Text <- TextOf, message <- pld, asked <- Asked, answer <- sent, lost <- hurt

\* Accepting, forking, receiving in chunks, reaping and closing are invisible
\* to the client: what it sees is one answer to its message, due unless it is hurt.
ImplementsService == Service!FairSpec
==============================================================================
