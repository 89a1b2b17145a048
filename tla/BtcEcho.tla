------------------------------- MODULE BtcEcho -------------------------------
(***************************************************************************)
(* The echo server of btc_echo.c and the clients that call it.             *)
(*                                                                         *)
(* The parent accepts a connection, forks a child for it and closes its    *)
(* own copy of the descriptor.  The child reads one Bitcoin message with   *)
(* kyk_recv_btc_msg, answers with its hexadecimal text and exits.  SIGCHLD *)
(* interrupts the parent, whose handler reaps the dead children.  A client *)
(* (btc_version.c, btc_verack.c) sends one message through                 *)
(* kyk_send_btc_msg_buf and reads the answer with a single recv.           *)
(*                                                                         *)
(* A client run is identified with the connection it opens and with the    *)
(* child forked for it.  Bytes are counted in units: the message of client *)
(* c is the sequence 1, 2, ..., MsgLen(c) of its units, the first HdrSize  *)
(* of them the header, and the units LenOff+1 .. LenEnd of the header its  *)
(* payload length field.  TCP is a prefix-preserving stream: a recv        *)
(* returns any non-empty part of what was written and not yet read.        *)
(***************************************************************************)
EXTENDS Naturals, Sequences, FiniteSets

CONSTANTS Clients,   \* the client runs
          Listener,  \* the listening socket (sockfd)
          HdrSize,   \* size of a message header (24 bytes)
          LenOff,    \* offset of the payload length field (16)
          LenEnd,    \* end of the payload length field (20)
          BufSize,   \* PL_BUF_SIZE = MAX_BUF_SIZE (1024)
          Lens,      \* payload lengths of the messages the clients build
          ReplyBase, \* length of an answer to an empty payload (104)
          Backlog,   \* BACKLOG (10)
          MaxFaults  \* bound: how many clients a fault may hit

ASSUME SizesAssumption ==
    /\ HdrSize \in Nat /\ LenOff \in Nat /\ LenEnd \in Nat /\ BufSize \in Nat
    /\ LenOff < LenEnd /\ LenEnd <= HdrSize
    /\ ReplyBase \in Nat \ {0} /\ Backlog \in Nat \ {0} /\ MaxFaults \in Nat

\* pack_btc_message writes header and payload into a body of PL_BUF_SIZE bytes.
ASSUME LensAssumption == Lens \subseteq Nat /\ \A n \in Lens : HdrSize + n <= BufSize

ASSUME ListenerAssumption == Listener \notin Clients

VARIABLES
    cpc,        \* client: where it is in kyk_send_btc_msg_buf
    pld,        \* client: payload length of the message it built
    written,    \* client: units of the message written to the socket
    got,        \* client: what its recv returned
    backlog,    \* the listen queue of the server's socket
    taken,      \* connections that left the listen queue
    ppc,        \* parent: where it is in the accept loop
    newfd,      \* parent: new_fd
    pfds,       \* parent: the descriptors it holds
    kpc,        \* child: where it is
    kfds,       \* child: the descriptors it holds
    body,       \* child: msg_buf.body
    recvSize,   \* child: recv_size
    pldSize,    \* child: pld_size
    pldFlag,    \* child: pld_flag
    sent,       \* child: the answer sent on the connection
    sigPending, \* SIGCHLD is pending for the parent
    inHandler,  \* the parent is in sigchld_handler
    hurt        \* the clients a fault has hit

clientVars == <<cpc, pld, written, got>>
parentVars == <<backlog, taken, ppc, newfd, pfds>>
childVars  == <<kpc, kfds, body, recvSize, pldSize, pldFlag, sent>>
sigVars    == <<sigPending, inHandler>>
vars == <<clientVars, parentVars, childVars, sigVars, hurt>>

------------------------------------------------------------------------------
\* len = msg_buf -> len: header and payload.
MsgLen(c) == HdrSize + pld[c]

\* What format_msg_buf prints of the message of c: every unit of it, in order.
Echo(c) == [i \in 1 .. MsgLen(c) |-> i]

\* Two hexadecimal digits per payload byte on top of the fixed text.
ReplyLen(c) == ReplyBase + 2 * pld[c]

\* The client's descriptor is closed: its process has ended.
ClientGone(c) == cpc[c] \in {"done", "failed"}

\* No process of the server holds the connection of c any more.
ServerClosed(c) == c \in taken /\ c \notin pfds /\ \A k \in Clients : c \notin kfds[k]

\* A fault hits c: at most MaxFaults clients are hit.
Hurt(c) == /\ Cardinality(hurt \cup {c}) <= MaxFaults
           /\ hurt' = hurt \cup {c}

Junk == 0 \* a unit of the body that was never written

Init ==
    /\ cpc = [c \in Clients |-> "start"]
    /\ pld \in [Clients -> Lens]
    /\ written = [c \in Clients |-> 0]
    /\ got = [c \in Clients |-> "nothing"]
    /\ backlog = <<>>
    /\ taken = {}
    /\ ppc = "accept"
    /\ newfd = Listener \* new_fd is not set yet: no connection
    /\ pfds = {Listener}
    /\ kpc = [c \in Clients |-> "none"]
    /\ kfds = [c \in Clients |-> {}]
    /\ body = [c \in Clients |-> [i \in 1 .. BufSize |-> Junk]]
    /\ recvSize = [c \in Clients |-> 0]
    /\ pldSize = [c \in Clients |-> 0]
    /\ pldFlag = [c \in Clients |-> TRUE]
    /\ sent = [c \in Clients |-> <<>>]
    /\ sigPending = FALSE
    /\ inHandler = FALSE
    /\ hurt = {}

------------------------------------------------------------------------------
(* The client: kyk_send_btc_msg_buf *)

\* connect(2) completes as soon as the listen queue has room.
Connect(c) ==
    /\ cpc[c] = "start"
    /\ Len(backlog) < Backlog
    /\ cpc' = [cpc EXCEPT ![c] = "connected"]
    /\ backlog' = Append(backlog, c)
    /\ UNCHANGED <<pld, written, got, taken, ppc, newfd, pfds, childVars, sigVars, hurt>>

\* "Ignoring long message": the client exits after it has connected.
TooLong(c) ==
    /\ cpc[c] = "connected"
    /\ MsgLen(c) + 1 > BufSize
    /\ cpc' = [cpc EXCEPT ![c] = "failed"]
    /\ UNCHANGED <<pld, written, got, parentVars, childVars, sigVars, hurt>>

\* write(2) takes the whole message.
Write(c) ==
    /\ cpc[c] = "connected"
    /\ MsgLen(c) + 1 <= BufSize
    /\ written' = [written EXCEPT ![c] = MsgLen(c)]
    /\ cpc' = [cpc EXCEPT ![c] = "wrote"]
    /\ UNCHANGED <<pld, got, parentVars, childVars, sigVars, hurt>>

\* "partial/failed write": part of the message is in the stream, the client exits.
WriteFails(c) ==
    /\ cpc[c] = "connected"
    /\ MsgLen(c) + 1 <= BufSize
    /\ \E k \in 0 .. MsgLen(c) - 1 : written' = [written EXCEPT ![c] = k]
    /\ cpc' = [cpc EXCEPT ![c] = "failed"]
    /\ Hurt(c)
    /\ UNCHANGED <<pld, got, parentVars, childVars, sigVars>>

\* The one recv of MAX_BUF_SIZE-1 bytes returns part of the answer, or all of
\* it when it fits and has arrived; then main prints it and returns.
ClientRecv(c) ==
    /\ cpc[c] = "wrote"
    /\ sent[c] # <<>>
    /\ got' \in { [got EXCEPT ![c] = x] :
                    x \in {"part"} \cup (IF ReplyLen(c) <= BufSize - 1 THEN {"whole"} ELSE {}) }
    /\ cpc' = [cpc EXCEPT ![c] = "done"]
    /\ UNCHANGED <<pld, written, parentVars, childVars, sigVars, hurt>>

\* The server closed without an answer: recv returns 0, or -1 when the unread
\* message made the server's kernel reset the connection.
ClientRecvEnd(c) ==
    /\ cpc[c] = "wrote"
    /\ sent[c] = <<>>
    /\ ServerClosed(c)
    /\ \/ /\ got' = [got EXCEPT ![c] = "eof"]
          /\ cpc' = [cpc EXCEPT ![c] = "done"]
       \/ /\ cpc' = [cpc EXCEPT ![c] = "failed"]
          /\ UNCHANGED got
    /\ UNCHANGED <<pld, written, parentVars, childVars, sigVars, hurt>>

\* The client's process is killed.
ClientDies(c) ==
    /\ cpc[c] \in {"connected", "wrote"}
    /\ cpc' = [cpc EXCEPT ![c] = "failed"]
    /\ Hurt(c)
    /\ UNCHANGED <<pld, written, got, parentVars, childVars, sigVars>>

ClientStep(c) == Connect(c) \/ TooLong(c) \/ Write(c) \/ ClientRecv(c) \/ ClientRecvEnd(c)

------------------------------------------------------------------------------
(* The parent: the accept loop of main *)

Accept ==
    /\ ppc = "accept" /\ ~inHandler
    /\ backlog # <<>>
    /\ newfd' = Head(backlog)
    /\ pfds' = pfds \cup {Head(backlog)}
    /\ taken' = taken \cup {Head(backlog)}
    /\ backlog' = Tail(backlog)
    /\ ppc' = "fork"
    /\ UNCHANGED <<clientVars, childVars, sigVars, hurt>>

\* accept returns -1 (ECONNABORTED): the connection is lost and the loop continues.
AcceptFails ==
    /\ ppc = "accept" /\ ~inHandler
    /\ backlog # <<>>
    /\ Hurt(Head(backlog))
    /\ taken' = taken \cup {Head(backlog)}
    /\ backlog' = Tail(backlog)
    /\ UNCHANGED <<ppc, newfd, pfds, clientVars, childVars, sigVars>>

\* fork: the child starts with a copy of every descriptor of the parent.
Fork ==
    /\ ppc = "fork" /\ ~inHandler
    /\ kpc' = [kpc EXCEPT ![newfd] = "closing"]
    /\ kfds' = [kfds EXCEPT ![newfd] = pfds]
    /\ ppc' = "close"
    /\ UNCHANGED <<backlog, taken, newfd, pfds, body, recvSize, pldSize, pldFlag, sent,
                   clientVars, sigVars, hurt>>

\* fork returns -1, which !fork() takes for the parent's side.
ForkFails ==
    /\ ppc = "fork" /\ ~inHandler
    /\ Hurt(newfd)
    /\ ppc' = "close"
    /\ UNCHANGED <<backlog, taken, newfd, pfds, clientVars, childVars, sigVars>>

\* Mutated: the parent keeps new_fd.
Bad_CloseNewFd ==
    /\ ppc = "close" /\ ~inHandler
    /\ ppc' = "accept"
    /\ UNCHANGED <<backlog, taken, newfd, pfds, clientVars, childVars, sigVars, hurt>>

\* close(new_fd): "parent doesn't need this".
CloseNewFd ==
    /\ ppc = "close" /\ ~inHandler
    /\ pfds' = pfds \ {newfd}
    /\ ppc' = "accept"
    /\ UNCHANGED <<backlog, taken, newfd, clientVars, childVars, sigVars, hurt>>

ParentStep == Accept \/ Fork \/ CloseNewFd

------------------------------------------------------------------------------
(* sigchld_handler: it interrupts the parent anywhere, SIGCHLD is blocked   *)
(* while it runs and signals that arrive meanwhile merge into one.          *)

EnterHandler ==
    /\ sigPending /\ ~inHandler
    /\ inHandler' = TRUE
    /\ sigPending' = FALSE
    /\ UNCHANGED <<clientVars, parentVars, childVars, hurt>>

\* waitpid(-1, NULL, WNOHANG) > 0
Reap(c) ==
    /\ inHandler
    /\ kpc[c] = "zombie"
    /\ kpc' = [kpc EXCEPT ![c] = "reaped"]
    /\ UNCHANGED <<kfds, body, recvSize, pldSize, pldFlag, sent,
                   clientVars, parentVars, sigVars, hurt>>

\* Mutated: one waitpid instead of a loop.
Bad_LeaveHandler ==
    /\ inHandler
    /\ inHandler' = FALSE
    /\ UNCHANGED <<sigPending, clientVars, parentVars, childVars, hurt>>

\* waitpid returns 0 or -1: no dead child is left.
LeaveHandler ==
    /\ inHandler
    /\ \A c \in Clients : kpc[c] # "zombie"
    /\ inHandler' = FALSE
    /\ UNCHANGED <<sigPending, clientVars, parentVars, childVars, hurt>>

HandlerStep == EnterHandler \/ (\E c \in Clients : Reap(c)) \/ LeaveHandler

------------------------------------------------------------------------------
(* The child *)

\* close(sockfd): "child doesn't need the listener".
CloseListener(c) ==
    /\ kpc[c] = "closing"
    /\ kfds' = [kfds EXCEPT ![c] = @ \ {Listener}]
    /\ kpc' = [kpc EXCEPT ![c] = "recv"]
    /\ UNCHANGED <<body, recvSize, pldSize, pldFlag, sent, clientVars, parentVars, sigVars, hurt>>

\* Mutated: bptr is not advanced.
Bad_Filled(c, k) ==
    [i \in 1 .. BufSize |-> IF i \in 1 .. k THEN recvSize[c] + i ELSE body[c][i]]

\* The body of c after a recv of k units at bptr.
Filled(c, k) ==
    [i \in 1 .. BufSize |-> IF i \in recvSize[c] + 1 .. recvSize[c] + k THEN i ELSE body[c][i]]

\* read_pld_len(body, 16): the length the client wrote when the field is there,
\* any value when a part of it is still uninitialised.  (beej_unpack stores eight bytes into the
\* local of four; the value is right, and what the store hits behind it is not followed.)
ReadPldLen(c, b) ==
    IF \A i \in LenOff + 1 .. LenEnd : b[i] = i THEN {pld[c]} ELSE Lens

\* Mutated: the field is read as soon as its first byte may be there.
Bad_LengthDue(c, size) == size > LenOff /\ pldFlag[c]

\* The length field is read once, as soon as it is complete.
LengthDue(c, size) == size >= LenEnd /\ pldFlag[c]

\* Mutated: > for >=, so the loop waits for a byte that never comes.
Bad_AfterRecv_Strict(size, n) == IF size > n + HdrSize THEN "send" ELSE "recv"

\* The loop ends when header and payload are there: recv_size >= pld_size + msg_size.
AfterRecv(size, n) == IF size >= n + HdrSize THEN "send" ELSE "recv"

\* One turn of the loop of kyk_recv_btc_msg, recv having returned k > 0.
ChildRecv(c) ==
    /\ kpc[c] = "recv"
    /\ \E k \in 1 .. BufSize :
        LET size == recvSize[c] + k
        IN  /\ size <= written[c]
            /\ recvSize' = [recvSize EXCEPT ![c] = size]
            /\ body' = [body EXCEPT ![c] = Filled(c, k)]
            /\ IF LengthDue(c, size)
                 THEN /\ pldFlag' = [pldFlag EXCEPT ![c] = FALSE]
                      /\ \E n \in ReadPldLen(c, Filled(c, k)) : pldSize' = [pldSize EXCEPT ![c] = n]
                 ELSE UNCHANGED <<pldFlag, pldSize>>
            /\ kpc' = [kpc EXCEPT ![c] = AfterRecv(size, pldSize'[c])]
    /\ UNCHANGED <<kfds, sent, clientVars, parentVars, sigVars, hurt>>

\* Mutated: recv returning 0 ends the loop as an error does.
Bad_ChildRecvEof(c) ==
    /\ kpc[c] = "recv"
    /\ ClientGone(c) /\ recvSize[c] = written[c]
    /\ kpc' = [kpc EXCEPT ![c] = "close"]
    /\ UNCHANGED <<kfds, body, recvSize, pldSize, pldFlag, sent, clientVars, parentVars, sigVars, hurt>>

\* recv returns 0: the client has closed and everything it wrote is read.
\* Nothing in the loop tests for it, so the child calls recv again, forever.
ChildRecvEof(c) ==
    /\ kpc[c] = "recv"
    /\ ClientGone(c) /\ recvSize[c] = written[c]
    /\ UNCHANGED vars

\* Mutated: recv_size += i before the test for -1.
Bad_ChildRecvFails(c) ==
    /\ kpc[c] = "recv"
    /\ Hurt(c)
    /\ recvSize' = [recvSize EXCEPT ![c] = @ - 1]
    /\ kpc' = [kpc EXCEPT ![c] = "close"]
    /\ UNCHANGED <<kfds, body, pldSize, pldFlag, sent, clientVars, parentVars, sigVars>>

\* recv returns -1: the loop ends and kyk_recv_btc_msg returns -1.
ChildRecvFails(c) ==
    /\ kpc[c] = "recv"
    /\ Hurt(c)
    /\ kpc' = [kpc EXCEPT ![c] = IF recvSize[c] < pldSize[c] + HdrSize THEN "close" ELSE "send"]
    /\ UNCHANGED <<kfds, body, recvSize, pldSize, pldFlag, sent, clientVars, parentVars, sigVars>>

\* Mutated: the header is left out.
Bad_FormatMsgBuf(c) == [i \in 1 .. pldSize[c] |-> body[c][HdrSize + i]]

\* format_msg_buf prints the header and pld_len units of payload from the body.
FormatMsgBuf(c) == [i \in 1 .. HdrSize + pldSize[c] |-> body[c][i]]

ChildSend(c) ==
    /\ kpc[c] = "send"
    /\ sent' = [sent EXCEPT ![c] = FormatMsgBuf(c)]
    /\ kpc' = [kpc EXCEPT ![c] = "close"]
    /\ UNCHANGED <<kfds, body, recvSize, pldSize, pldFlag, clientVars, parentVars, sigVars, hurt>>

\* send returns -1 because the client is gone or the network failed.
ChildSendFails(c) ==
    /\ kpc[c] = "send"
    /\ \/ ClientGone(c) /\ UNCHANGED hurt
       \/ Hurt(c)
    /\ kpc' = [kpc EXCEPT ![c] = "close"]
    /\ UNCHANGED <<kfds, body, recvSize, pldSize, pldFlag, sent, clientVars, parentVars, sigVars>>

\* The child dies: the kernel closes its descriptors and signals the parent.
Dies(c) ==
    /\ kfds' = [kfds EXCEPT ![c] = {}]
    /\ kpc' = [kpc EXCEPT ![c] = "zombie"]
    /\ sigPending' = TRUE
    /\ UNCHANGED <<inHandler, body, recvSize, pldSize, pldFlag, sent, clientVars, parentVars, hurt>>

\* close(new_fd); exit(0)
ChildExit(c) == kpc[c] = "close" /\ Dies(c)

\* A send on a reset connection raises SIGPIPE, which kills the child.
ChildSigpipe(c) == kpc[c] = "send" /\ ClientGone(c) /\ Dies(c)

ChildStep(c) == CloseListener(c) \/ ChildRecv(c) \/ ChildSend(c) \/ ChildExit(c)

------------------------------------------------------------------------------
\* Every client run is over and the parent blocks in accept.
Idle ==
    /\ \A c \in Clients : ClientGone(c) /\ kpc[c] \in {"none", "reaped", "recv"}
    /\ ppc = "accept" /\ ~inHandler /\ ~sigPending /\ backlog = <<>>
    /\ UNCHANGED vars

Next ==
    \/ \E c \in Clients :
        \/ Connect(c) \/ TooLong(c) \/ Write(c) \/ WriteFails(c)
        \/ ClientRecv(c) \/ ClientRecvEnd(c) \/ ClientDies(c)
        \/ CloseListener(c) \/ ChildRecv(c) \/ ChildRecvEof(c) \/ ChildRecvFails(c)
        \/ ChildSend(c) \/ ChildSendFails(c) \/ ChildExit(c) \/ ChildSigpipe(c)
        \/ Reap(c)
    \/ Accept \/ AcceptFails \/ Fork \/ ForkFails \/ CloseNewFd
    \/ EnterHandler \/ LeaveHandler
    \/ Idle

Spec == Init /\ [][Next]_vars

\* The scheduler runs every process, the kernel delivers what was written and
\* signals that are pending.  Faults are never due.
Fairness ==
    /\ WF_vars(ParentStep)
    /\ WF_vars(HandlerStep)
    /\ \A c \in Clients : WF_vars(ClientStep(c)) /\ WF_vars(ChildStep(c))

FairSpec == Spec /\ Fairness

------------------------------------------------------------------------------
(* Properties *)

\* The type invariant.
TypeOK ==
    /\ cpc \in [Clients -> {"start", "connected", "wrote", "done", "failed"}]
    /\ pld \in [Clients -> Lens]
    /\ written \in [Clients -> Nat]
    /\ got \in [Clients -> {"nothing", "part", "whole", "eof"}]
    /\ backlog \in Seq(Clients)
    /\ taken \subseteq Clients
    /\ ppc \in {"accept", "fork", "close"}
    /\ newfd \in Clients \cup {Listener}
    /\ pfds \subseteq Clients \cup {Listener}
    /\ kpc \in [Clients -> {"none", "closing", "recv", "send", "close", "zombie", "reaped"}]
    /\ kfds \in [Clients -> SUBSET (Clients \cup {Listener})]
    /\ body \in [Clients -> [1 .. BufSize -> Nat]]
    /\ recvSize \in [Clients -> Nat]
    /\ pldSize \in [Clients -> Lens \cup {0}]
    /\ pldFlag \in [Clients -> BOOLEAN]
    /\ sent \in [Clients -> Seq(Nat)]
    /\ sigPending \in BOOLEAN
    /\ inHandler \in BOOLEAN
    /\ hurt \subseteq Clients

\* An answer is the text of exactly the message the client sent, and the child
\* has then read everything the client wrote: closing the descriptor with unread
\* data would reset the connection and could destroy the answer.  It relates the
\* client's message, the recv loop of kyk_recv_btc_msg (chunks of any size, the
\* length field read in the middle of them) and format_msg_buf.
AnswerIsEcho ==
    \A c \in Clients : sent[c] # <<>> =>
        /\ sent[c] = Echo(c)
        /\ recvSize[c] = written[c]
        /\ written[c] = MsgLen(c)

\* The child's writes at bptr stay inside msg_buf.body although every recv is
\* offered the full buf_len: the received part is a prefix of the client's
\* message, which the client's own length check keeps below the buffer size.
BodyIsPrefix ==
    \A c \in Clients :
        /\ recvSize[c] < BufSize
        /\ \A i \in 1 .. BufSize : body[c][i] = IF i <= recvSize[c] THEN i ELSE Junk

\* Descriptors: waiting in accept, the parent holds only the listener; a child
\* that serves holds only its own connection; a dead child and a connection that
\* is over are held by nobody.  It depends on the closes of both processes and
\* on what the child inherits at fork.
DescriptorsBalanced ==
    /\ pfds = {Listener} \cup (IF ppc = "accept" THEN {} ELSE {newfd})
    /\ \A c \in Clients :
        /\ kpc[c] = "closing" => kfds[c] = {Listener, c}
        /\ kpc[c] \in {"recv", "send", "close"} => kfds[c] = {c}
        /\ kpc[c] \in {"none", "zombie", "reaped"} => kfds[c] = {}

\* No dead child is forgotten: signals that arrive while the handler runs merge
\* into one, so each child that is dead has a handler run ahead of it.
NoZombieForgotten ==
    (\E c \in Clients : kpc[c] = "zombie") => (sigPending \/ inHandler)

\* The listen queue holds each connection once and never one that was accepted,
\* so a connection is forked for at most once.
QueueInv ==
    /\ \A i \in 1 .. Len(backlog) : backlog[i] \notin taken /\ cpc[backlog[i]] # "start"
    /\ \A i, j \in 1 .. Len(backlog) : backlog[i] = backlog[j] => i = j
    /\ \A c \in Clients : cpc[c] = "start" => c \notin taken
    /\ \A c \in Clients : c \notin taken => kpc[c] = "none"
    /\ ppc # "accept" => newfd \in taken
    /\ ppc = "fork" => kpc[newfd] = "none"

\* Where a child is in its loop determines what it has read, and where its
\* client is what it can have read.
LoopOf(c) ==
    /\ recvSize[c] <= written[c] /\ written[c] <= MsgLen(c) /\ written[c] < BufSize
    /\ cpc[c] \in {"start", "connected"} => written[c] = 0
    /\ pldFlag[c] <=> recvSize[c] < LenEnd
    /\ pldSize[c] = IF pldFlag[c] THEN 0 ELSE pld[c]
    /\ kpc[c] \in {"none", "closing", "recv"} => recvSize[c] < pldSize[c] + HdrSize
    /\ kpc[c] \in {"none", "closing"} => recvSize[c] = 0
    /\ kpc[c] \in {"none", "closing", "recv", "send"} => sent[c] = <<>>
    /\ kpc[c] = "send" => recvSize[c] = MsgLen(c)

LoopInv == \A c \in Clients : LoopOf(c)

\* The inductive invariant of the proofs.
IInv == TypeOK /\ QueueInv /\ LoopInv /\ BodyIsPrefix /\ AnswerIsEcho
        /\ DescriptorsBalanced /\ NoZombieForgotten

\* What a child does when its client ends in the middle of a message (crash,
\* failed write, "Ignoring long message"): kyk_recv_btc_msg gets 0 from recv
\* without noticing, and unless a recv fails the child stays in the loop for
\* ever, so its process and connection are never released.
Stranded(c) == kpc[c] = "recv" /\ ClientGone(c) /\ recvSize[c] = written[c]

\* A step takes a stranded child out of the loop only when it is a failing recv.
StrandedStays ==
    [][\A c \in Clients : Stranded(c) => Stranded(c)' \/ (kpc'[c] = "close" /\ c \in hurt')]_vars

\* Every client that sent its message and that no fault hits is answered, even
\* while other children are stranded and other connections are lost.
UnhurtAnswered ==
    \A c \in Clients : cpc[c] = "wrote" ~> (sent[c] # <<>> \/ c \in hurt)

\* A client that sent its message ends: it reads an answer or the end of the
\* stream, even when fork failed, since then the parent's close is the last one.
ClientsFinish ==
    \A c \in Clients : cpc[c] = "wrote" ~> ClientGone(c)

\* Every dead child is reaped.
ZombiesReaped ==
    \A c \in Clients : kpc[c] = "zombie" ~> kpc[c] = "reaped"
==============================================================================
