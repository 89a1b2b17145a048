---------------------------- MODULE BtcEchoProofs ----------------------------
(***************************************************************************)
(* Proofs about BtcEcho: its type invariant, the inductive invariant of the *)
(* accept queue, the descriptors and the receive loop, and the safety part  *)
(* of the refinement of EchoService.                                       *)
(***************************************************************************)
EXTENDS BtcEchoRefinement, SequenceTheorems, TLAPS

USE SizesAssumption, LensAssumption, ListenerAssumption
    DEF SizesAssumption, LensAssumption, ListenerAssumption

\* A message has a header and fits the body of a ptl_msg_buf.
LEMMA MsgLenFits ==
    ASSUME TypeOK, NEW c \in Clients
    PROVE  MsgLen(c) \in Nat /\ MsgLen(c) >= HdrSize /\ MsgLen(c) <= BufSize /\ HdrSize > 0
  <1>1. pld[c] \in Lens
    BY DEF TypeOK
  <1>2. pld[c] \in Nat /\ HdrSize + pld[c] <= BufSize
    BY <1>1
  <1>3. QED
    BY <1>2 DEF MsgLen

\* Init establishes the types.
LEMMA InitTypeOK == Init => TypeOK
  <1>1. SUFFICES ASSUME Init PROVE TypeOK
    OBVIOUS
  <1>2. backlog \in Seq(Clients) /\ sent \in [Clients -> Seq(Nat)]
    BY <1>1 DEF Init
  <1>3. QED
    BY <1>1, <1>2 DEF Init, TypeOK, Junk

\* The text of a message that fits the body is a sequence of units.
LEMMA FormatIsSeq ==
    ASSUME TypeOK, NEW c \in Clients
    PROVE  FormatMsgBuf(c) \in Seq(Nat)
  <1> DEFINE n == HdrSize + pldSize[c]
  <1>1. n \in Nat /\ n <= BufSize
    <2>1. pld[c] \in Lens /\ pldSize[c] \in Lens \cup {0}
      BY DEF TypeOK
    <2>2. /\ pld[c] \in Nat /\ HdrSize + pld[c] <= BufSize
          /\ \A m \in Lens : m \in Nat /\ HdrSize + m <= BufSize
      BY <2>1
    <2>3. pldSize[c] \in Nat /\ HdrSize + pldSize[c] <= BufSize
      <3>1. CASE pldSize[c] \in Lens
        BY <2>2, <3>1
      <3>2. CASE pldSize[c] = 0
        BY <2>2, <3>2
      <3>3. QED
        BY <2>1, <3>1, <3>2
    <2>4. QED
      BY <2>3
  <1>2. FormatMsgBuf(c) \in [1 .. n -> Nat]
    BY <1>1 DEF FormatMsgBuf, TypeOK
  <1>3. QED
    BY <1>1, <1>2, SeqDef

\* Every step preserves the types.
LEMMA NextTypeOK == TypeOK /\ QueueInv /\ [Next]_vars => TypeOK'
  <1> SUFFICES ASSUME TypeOK /\ QueueInv, [Next]_vars PROVE TypeOK'
    OBVIOUS
  <1> USE DEF clientVars, parentVars, childVars, sigVars
  <1>1. ASSUME NEW c \in Clients, Connect(c) PROVE TypeOK'
    <2>1. Append(backlog, c) \in Seq(Clients)
      BY AppendProperties DEF TypeOK
    <2>2. cpc' \in [Clients -> {"start", "connected", "wrote", "done", "failed"}]
      BY <1>1 DEF Connect, TypeOK
    <2>3. QED
      BY <1>1, <2>1, <2>2 DEF Connect, TypeOK
  <1>2. ASSUME NEW c \in Clients, TooLong(c) PROVE TypeOK'
    BY <1>2 DEF TooLong, TypeOK
  <1>3. ASSUME NEW c \in Clients, Write(c) PROVE TypeOK'
    BY <1>3, MsgLenFits DEF Write, TypeOK
  <1>4. ASSUME NEW c \in Clients, WriteFails(c) PROVE TypeOK'
    <2>1. PICK k \in 0 .. MsgLen(c) - 1 : written' = [written EXCEPT ![c] = k]
      BY <1>4 DEF WriteFails
    <2>2. k \in Nat
      BY MsgLenFits
    <2>3. written' \in [Clients -> Nat]
      BY <2>1, <2>2 DEF TypeOK
    <2>4. QED
      BY <1>4, <2>3 DEF WriteFails, Hurt, TypeOK
  <1>5. ASSUME NEW c \in Clients, ClientRecv(c) PROVE TypeOK'
    <2>1. PICK x \in {"part", "whole"} : got' = [got EXCEPT ![c] = x]
      BY <1>5 DEF ClientRecv
    <2>2. got' \in [Clients -> {"nothing", "part", "whole", "eof"}]
      BY <2>1 DEF TypeOK
    <2>3. QED
      BY <1>5, <2>2 DEF ClientRecv, TypeOK
  <1>6. ASSUME NEW c \in Clients, ClientRecvEnd(c) PROVE TypeOK'
    BY <1>6, ZenonT(60) DEF ClientRecvEnd, TypeOK
  <1>7. ASSUME NEW c \in Clients, ClientDies(c) PROVE TypeOK'
    BY <1>7 DEF ClientDies, Hurt, TypeOK
  <1>8. ASSUME NEW c \in Clients, CloseListener(c) PROVE TypeOK'
    BY <1>8 DEF CloseListener, TypeOK
  <1>9. ASSUME NEW c \in Clients, ChildRecv(c) PROVE TypeOK'
    <2>1. PICK k \in 1 .. BufSize :
             /\ recvSize[c] + k <= written[c]
             /\ recvSize' = [recvSize EXCEPT ![c] = recvSize[c] + k]
             /\ body' = [body EXCEPT ![c] = Filled(c, k)]
             /\ IF LengthDue(c, recvSize[c] + k)
                  THEN /\ pldFlag' = [pldFlag EXCEPT ![c] = FALSE]
                       /\ \E n \in ReadPldLen(c, Filled(c, k)) :
                            pldSize' = [pldSize EXCEPT ![c] = n]
                  ELSE UNCHANGED <<pldFlag, pldSize>>
             /\ kpc' = [kpc EXCEPT ![c] = AfterRecv(recvSize[c] + k, pldSize'[c])]
      BY <1>9 DEF ChildRecv
    <2>2. Filled(c, k) \in [1 .. BufSize -> Nat]
      BY DEF Filled, TypeOK
    <2>3. ReadPldLen(c, Filled(c, k)) \subseteq Lens
      BY DEF ReadPldLen, TypeOK
    <2>4. recvSize[c] + k \in Nat
      BY DEF TypeOK
    <2>5. recvSize' \in [Clients -> Nat] /\ body' \in [Clients -> [1 .. BufSize -> Nat]]
      BY <2>1, <2>2, <2>4 DEF TypeOK
    <2>6. pldSize' \in [Clients -> Lens \cup {0}] /\ pldFlag' \in [Clients -> BOOLEAN]
      <3>1. CASE LengthDue(c, recvSize[c] + k)
        <4>1. PICK n \in Lens : pldSize' = [pldSize EXCEPT ![c] = n]
          BY <2>1, <2>3, <3>1
        <4>2. QED
          BY <2>1, <3>1, <4>1 DEF TypeOK
      <3>2. CASE ~LengthDue(c, recvSize[c] + k)
        BY <2>1, <3>2 DEF TypeOK
      <3>3. QED
        BY <3>1, <3>2
    <2>7. kpc' \in [Clients -> {"none", "closing", "recv", "send", "close", "zombie", "reaped"}]
      BY <2>1 DEF TypeOK, AfterRecv
    <2>8. QED
      BY <1>9, <2>5, <2>6, <2>7 DEF ChildRecv, TypeOK
  <1>10. ASSUME NEW c \in Clients, ChildRecvFails(c) PROVE TypeOK'
    BY <1>10 DEF ChildRecvFails, Hurt, TypeOK
  <1>11. ASSUME NEW c \in Clients, ChildSend(c) PROVE TypeOK'
    BY <1>11, FormatIsSeq DEF ChildSend, TypeOK
  <1>12. ASSUME NEW c \in Clients, ChildSendFails(c) PROVE TypeOK'
    BY <1>12 DEF ChildSendFails, Hurt, TypeOK
  <1>13. ASSUME NEW c \in Clients, ChildExit(c) PROVE TypeOK'
    BY <1>13 DEF ChildExit, Dies, TypeOK
  <1>14. ASSUME NEW c \in Clients, ChildSigpipe(c) PROVE TypeOK'
    BY <1>14 DEF ChildSigpipe, Dies, TypeOK
  <1>15. ASSUME NEW c \in Clients, Reap(c) PROVE TypeOK'
    BY <1>15 DEF Reap, TypeOK
  <1>16. ASSUME Accept PROVE TypeOK'
    <2>1. Head(backlog) \in Clients /\ Tail(backlog) \in Seq(Clients)
      BY <1>16, HeadTailProperties DEF Accept, TypeOK
    <2>2. QED
      BY <1>16, <2>1 DEF Accept, TypeOK
  <1>17. ASSUME AcceptFails PROVE TypeOK'
    <2>1. Head(backlog) \in Clients /\ Tail(backlog) \in Seq(Clients)
      BY <1>17, HeadTailProperties DEF AcceptFails, TypeOK
    <2>2. QED
      BY <1>17, <2>1 DEF AcceptFails, Hurt, TypeOK
  <1>18. ASSUME Fork PROVE TypeOK'
    BY <1>18 DEF Fork, TypeOK, QueueInv
  <1>19. ASSUME ForkFails PROVE TypeOK'
    BY <1>19 DEF ForkFails, Hurt, TypeOK, QueueInv
  <1>20. ASSUME CloseNewFd PROVE TypeOK'
    BY <1>20 DEF CloseNewFd, TypeOK
  <1>21. ASSUME EnterHandler PROVE TypeOK'
    BY <1>21 DEF EnterHandler, TypeOK
  <1>22. ASSUME LeaveHandler PROVE TypeOK'
    BY <1>22 DEF LeaveHandler, TypeOK
  <1>23. ASSUME UNCHANGED vars PROVE TypeOK'
    BY <1>23 DEF vars, TypeOK
  <1>24. QED
    BY <1>1, <1>2, <1>3, <1>4, <1>5, <1>6, <1>7, <1>8, <1>9, <1>10, <1>11, <1>12, <1>13, <1>14, <1>15, <1>16, <1>17, <1>18, <1>19, <1>20, <1>21, <1>22, <1>23 DEF Next, ChildRecvEof, Idle

\* A step of a client or a child that leaves the queue and the accept loop alone.
LEMMA QueueSame ==
    ASSUME TypeOK, QueueInv, UNCHANGED <<backlog, taken, ppc, newfd>>,
           \A d \in Clients : cpc'[d] = "start" <=> cpc[d] = "start",
           \A d \in Clients : kpc[d] = "none" => kpc'[d] = "none"
    PROVE  QueueInv'
  <1>1. \A i \in 1 .. Len(backlog) : backlog[i] \in Clients
    BY LenProperties DEF TypeOK
  <1>2. QED
    BY <1>1 DEF QueueInv, TypeOK

\* Every step keeps the listen queue free of repetitions.
LEMMA NextQueueInv == TypeOK /\ QueueInv /\ [Next]_vars => QueueInv'
  <1> SUFFICES ASSUME TypeOK /\ QueueInv, [Next]_vars PROVE QueueInv'
    OBVIOUS
  <1> USE DEF clientVars, parentVars, childVars, sigVars
  <1>1. ASSUME NEW c \in Clients, Connect(c) PROVE QueueInv'
    <2> DEFINE q == backlog'
    <2>1. /\ Len(q) = Len(backlog) + 1 /\ q[Len(q)] = c
          /\ \A i \in 1 .. Len(backlog) : q[i] = backlog[i] /\ backlog[i] \in Clients
      BY <1>1, AppendProperties DEF Connect, TypeOK
    <2>2. \A i \in 1 .. Len(q) : i = Len(q) \/ i \in 1 .. Len(backlog)
      BY <1>1, <2>1, LenProperties, SMTT(60) DEF TypeOK
    <2>3. cpc[c] = "start" /\ c \notin taken /\ cpc' = [cpc EXCEPT ![c] = "connected"]
      BY <1>1 DEF Connect, QueueInv
    <2>4. \A i \in 1 .. Len(backlog) : backlog[i] # c
      BY <2>3 DEF QueueInv
    <2>5. \A i \in 1 .. Len(q) : q[i] \notin taken' /\ cpc'[q[i]] # "start"
      BY <1>1, <2>1, <2>2, <2>3, <2>4 DEF Connect, TypeOK, QueueInv
    <2>6. \A i, j \in 1 .. Len(q) : q[i] = q[j] => i = j
      BY <2>1, <2>2, <2>4 DEF QueueInv
    <2>7. /\ \A d \in Clients : cpc'[d] = "start" => d \notin taken'
          /\ \A d \in Clients : d \notin taken' => kpc'[d] = "none"
          /\ ppc' # "accept" => newfd' \in taken'
          /\ ppc' = "fork" => kpc'[newfd'] = "none"
      BY <1>1, <2>3 DEF Connect, TypeOK, QueueInv
    <2>8. QED
      BY <2>5, <2>6, <2>7 DEF QueueInv
  <1>2. ASSUME NEW c \in Clients, TooLong(c) PROVE QueueInv'
    <2>1. UNCHANGED <<backlog, taken, ppc, newfd, kpc>>
      BY <1>2 DEF TooLong
    <2>2. \A d \in Clients : cpc'[d] = "start" <=> cpc[d] = "start"
      BY <1>2 DEF TooLong, TypeOK
    <2>3. QED
      BY <2>1, <2>2, QueueSame
  <1>3. ASSUME NEW c \in Clients, Write(c) PROVE QueueInv'
    <2>1. UNCHANGED <<backlog, taken, ppc, newfd, kpc>>
      BY <1>3 DEF Write
    <2>2. \A d \in Clients : cpc'[d] = "start" <=> cpc[d] = "start"
      BY <1>3 DEF Write, TypeOK
    <2>3. QED
      BY <2>1, <2>2, QueueSame
  <1>4. ASSUME NEW c \in Clients, WriteFails(c) PROVE QueueInv'
    <2>1. UNCHANGED <<backlog, taken, ppc, newfd, kpc>>
      BY <1>4 DEF WriteFails
    <2>2. \A d \in Clients : cpc'[d] = "start" <=> cpc[d] = "start"
      BY <1>4 DEF WriteFails, TypeOK
    <2>3. QED
      BY <2>1, <2>2, QueueSame
  <1>5. ASSUME NEW c \in Clients, ClientRecv(c) PROVE QueueInv'
    <2>1. UNCHANGED <<backlog, taken, ppc, newfd, kpc>>
      BY <1>5 DEF ClientRecv
    <2>2. \A d \in Clients : cpc'[d] = "start" <=> cpc[d] = "start"
      BY <1>5 DEF ClientRecv, TypeOK
    <2>3. QED
      BY <2>1, <2>2, QueueSame
  <1>6. ASSUME NEW c \in Clients, ClientRecvEnd(c) PROVE QueueInv'
    <2>1. UNCHANGED <<backlog, taken, ppc, newfd, kpc>>
      BY <1>6 DEF ClientRecvEnd
    <2>2. \A d \in Clients : cpc'[d] = "start" <=> cpc[d] = "start"
      BY <1>6 DEF ClientRecvEnd, TypeOK
    <2>3. QED
      BY <2>1, <2>2, QueueSame
  <1>7. ASSUME NEW c \in Clients, ClientDies(c) PROVE QueueInv'
    <2>1. UNCHANGED <<backlog, taken, ppc, newfd, kpc>>
      BY <1>7 DEF ClientDies
    <2>2. \A d \in Clients : cpc'[d] = "start" <=> cpc[d] = "start"
      BY <1>7 DEF ClientDies, TypeOK
    <2>3. QED
      BY <2>1, <2>2, QueueSame
  <1>8. ASSUME NEW c \in Clients, CloseListener(c) PROVE QueueInv'
    <2>1. UNCHANGED <<backlog, taken, ppc, newfd, cpc>>
      BY <1>8 DEF CloseListener
    <2>2. \A d \in Clients : kpc[d] = "none" => kpc'[d] = "none"
      BY <1>8 DEF CloseListener, TypeOK
    <2>3. QED
      BY <2>1, <2>2, QueueSame
  <1>9. ASSUME NEW c \in Clients, ChildRecv(c) PROVE QueueInv'
    <2>1. UNCHANGED <<backlog, taken, ppc, newfd, cpc>>
      BY <1>9 DEF ChildRecv, AfterRecv
    <2>2. \A d \in Clients : kpc[d] = "none" => kpc'[d] = "none"
      BY <1>9 DEF ChildRecv, AfterRecv, TypeOK
    <2>3. QED
      BY <2>1, <2>2, QueueSame
  <1>10. ASSUME NEW c \in Clients, ChildRecvFails(c) PROVE QueueInv'
    <2>1. UNCHANGED <<backlog, taken, ppc, newfd, cpc>>
      BY <1>10 DEF ChildRecvFails
    <2>2. \A d \in Clients : kpc[d] = "none" => kpc'[d] = "none"
      BY <1>10 DEF ChildRecvFails, TypeOK
    <2>3. QED
      BY <2>1, <2>2, QueueSame
  <1>11. ASSUME NEW c \in Clients, ChildSend(c) PROVE QueueInv'
    <2>1. UNCHANGED <<backlog, taken, ppc, newfd, cpc>>
      BY <1>11 DEF ChildSend
    <2>2. \A d \in Clients : kpc[d] = "none" => kpc'[d] = "none"
      BY <1>11 DEF ChildSend, TypeOK
    <2>3. QED
      BY <2>1, <2>2, QueueSame
  <1>12. ASSUME NEW c \in Clients, ChildSendFails(c) PROVE QueueInv'
    <2>1. UNCHANGED <<backlog, taken, ppc, newfd, cpc>>
      BY <1>12 DEF ChildSendFails
    <2>2. \A d \in Clients : kpc[d] = "none" => kpc'[d] = "none"
      BY <1>12 DEF ChildSendFails, TypeOK
    <2>3. QED
      BY <2>1, <2>2, QueueSame
  <1>13. ASSUME NEW c \in Clients, ChildExit(c) PROVE QueueInv'
    <2>1. UNCHANGED <<backlog, taken, ppc, newfd, cpc>>
      BY <1>13 DEF ChildExit, Dies
    <2>2. \A d \in Clients : kpc[d] = "none" => kpc'[d] = "none"
      BY <1>13 DEF ChildExit, Dies, TypeOK
    <2>3. QED
      BY <2>1, <2>2, QueueSame
  <1>14. ASSUME NEW c \in Clients, ChildSigpipe(c) PROVE QueueInv'
    <2>1. UNCHANGED <<backlog, taken, ppc, newfd, cpc>>
      BY <1>14 DEF ChildSigpipe, Dies
    <2>2. \A d \in Clients : kpc[d] = "none" => kpc'[d] = "none"
      BY <1>14 DEF ChildSigpipe, Dies, TypeOK
    <2>3. QED
      BY <2>1, <2>2, QueueSame
  <1>15. ASSUME NEW c \in Clients, Reap(c) PROVE QueueInv'
    <2>1. UNCHANGED <<backlog, taken, ppc, newfd, cpc>>
      BY <1>15 DEF Reap
    <2>2. \A d \in Clients : kpc[d] = "none" => kpc'[d] = "none"
      BY <1>15 DEF Reap, TypeOK
    <2>3. QED
      BY <2>1, <2>2, QueueSame
  <1>16. ASSUME Accept PROVE QueueInv'
    <2> DEFINE q == backlog'
    <2>1. /\ backlog \in Seq(Clients) /\ backlog # <<>> /\ q = Tail(backlog)
          /\ taken' = taken \cup {Head(backlog)}
      BY <1>16 DEF Accept, TypeOK
    <2>2. /\ Head(backlog) = backlog[1] /\ Len(backlog) \in Nat \ {0}
          /\ Len(q) = Len(backlog) - 1
          /\ \A i \in 1 .. Len(q) : q[i] = backlog[i + 1] /\ backlog[i + 1] \in Clients
      BY <2>1, HeadTailProperties, EmptySeq, LenProperties
    <2>3. \A i \in 1 .. Len(q) : i + 1 \in 1 .. Len(backlog) /\ i + 1 # 1
      BY <2>2
    <2>4. 1 \in 1 .. Len(backlog) /\ backlog[1] \notin taken /\ cpc[backlog[1]] # "start"
          /\ backlog[1] \in Clients
      BY <2>1, <2>2 DEF QueueInv
    <2>5. \A i \in 1 .. Len(q) : q[i] # backlog[1]
      BY <2>2, <2>3, <2>4 DEF QueueInv
    <2>6. \A i \in 1 .. Len(q) : q[i] \notin taken' /\ cpc'[q[i]] # "start"
      BY <1>16, <2>1, <2>2, <2>3, <2>5 DEF Accept, QueueInv
    <2>7. \A i, j \in 1 .. Len(q) : q[i] = q[j] => i = j
      BY <2>2, <2>3 DEF QueueInv
    <2>8. /\ \A d \in Clients : cpc'[d] = "start" => d \notin taken'
          /\ \A d \in Clients : d \notin taken' => kpc'[d] = "none"
          /\ ppc' # "accept" => newfd' \in taken'
          /\ ppc' = "fork" => kpc'[newfd'] = "none"
      BY <1>16, <2>1, <2>2, <2>4 DEF Accept, QueueInv
    <2>9. QED
      BY <2>6, <2>7, <2>8 DEF QueueInv
  <1>17. ASSUME AcceptFails PROVE QueueInv'
    <2> DEFINE q == backlog'
    <2>1. /\ backlog \in Seq(Clients) /\ backlog # <<>> /\ q = Tail(backlog)
          /\ taken' = taken \cup {Head(backlog)}
      BY <1>17 DEF AcceptFails, TypeOK
    <2>2. /\ Head(backlog) = backlog[1] /\ Len(backlog) \in Nat \ {0}
          /\ Len(q) = Len(backlog) - 1
          /\ \A i \in 1 .. Len(q) : q[i] = backlog[i + 1] /\ backlog[i + 1] \in Clients
      BY <2>1, HeadTailProperties, EmptySeq, LenProperties
    <2>3. \A i \in 1 .. Len(q) : i + 1 \in 1 .. Len(backlog) /\ i + 1 # 1
      BY <2>2
    <2>4. 1 \in 1 .. Len(backlog) /\ backlog[1] \notin taken /\ cpc[backlog[1]] # "start"
          /\ backlog[1] \in Clients
      BY <2>1, <2>2 DEF QueueInv
    <2>5. \A i \in 1 .. Len(q) : q[i] # backlog[1]
      BY <2>2, <2>3, <2>4 DEF QueueInv
    <2>6. \A i \in 1 .. Len(q) : q[i] \notin taken' /\ cpc'[q[i]] # "start"
      BY <1>17, <2>1, <2>2, <2>3, <2>5 DEF AcceptFails, QueueInv
    <2>7. \A i, j \in 1 .. Len(q) : q[i] = q[j] => i = j
      BY <2>2, <2>3 DEF QueueInv
    <2>8. /\ \A d \in Clients : cpc'[d] = "start" => d \notin taken'
          /\ \A d \in Clients : d \notin taken' => kpc'[d] = "none"
          /\ ppc' # "accept" => newfd' \in taken'
          /\ ppc' = "fork" => kpc'[newfd'] = "none"
      BY <1>17, <2>1, <2>2, <2>4 DEF AcceptFails, QueueInv
    <2>9. QED
      BY <2>6, <2>7, <2>8 DEF QueueInv
  <1>18. ASSUME Fork PROVE QueueInv'
    BY <1>18 DEF Fork, TypeOK, QueueInv
  <1>19. ASSUME ForkFails PROVE QueueInv'
    BY <1>19 DEF ForkFails, Hurt, TypeOK, QueueInv
  <1>20. ASSUME CloseNewFd PROVE QueueInv'
    BY <1>20 DEF CloseNewFd, TypeOK, QueueInv
  <1>21. ASSUME EnterHandler PROVE QueueInv'
    BY <1>21 DEF EnterHandler, TypeOK, QueueInv
  <1>22. ASSUME LeaveHandler PROVE QueueInv'
    BY <1>22 DEF LeaveHandler, TypeOK, QueueInv
  <1>23. ASSUME UNCHANGED vars PROVE QueueInv'
    BY <1>23 DEF vars, TypeOK, QueueInv
  <1>24. QED
    BY <1>1, <1>2, <1>3, <1>4, <1>5, <1>6, <1>7, <1>8, <1>9, <1>10, <1>11, <1>12, <1>13, <1>14, <1>15, <1>16, <1>17, <1>18, <1>19, <1>20, <1>21, <1>22, <1>23 DEF Next, ChildRecvEof, Idle

\* One turn of the receive loop: the chunk extends the prefix in the body, and the
\* length acted upon is the one the client wrote.
LEMMA ChildRecvEffect ==
    ASSUME TypeOK, LoopInv, BodyIsPrefix, NEW c \in Clients, ChildRecv(c)
    PROVE  \E k \in 1 .. BufSize :
             LET size == recvSize[c] + k
                 n    == IF size >= LenEnd THEN pld[c] ELSE 0
             IN  /\ size \in Nat /\ size <= written[c]
                 /\ recvSize' = [recvSize EXCEPT ![c] = size]
                 /\ body' = [body EXCEPT ![c] = Filled(c, k)]
                 /\ \A i \in 1 .. BufSize : body'[c][i] = IF i <= size THEN i ELSE Junk
                 /\ pldFlag' = [pldFlag EXCEPT ![c] = size < LenEnd]
                 /\ pldSize' = [pldSize EXCEPT ![c] = n]
                 /\ kpc' = [kpc EXCEPT ![c] = AfterRecv(size, n)]
  <1>1. PICK k \in 1 .. BufSize :
          /\ recvSize[c] + k <= written[c]
          /\ recvSize' = [recvSize EXCEPT ![c] = recvSize[c] + k]
          /\ body' = [body EXCEPT ![c] = Filled(c, k)]
          /\ IF LengthDue(c, recvSize[c] + k)
               THEN /\ pldFlag' = [pldFlag EXCEPT ![c] = FALSE]
                    /\ \E n \in ReadPldLen(c, Filled(c, k)) : pldSize' = [pldSize EXCEPT ![c] = n]
               ELSE UNCHANGED <<pldFlag, pldSize>>
          /\ kpc' = [kpc EXCEPT ![c] = AfterRecv(recvSize[c] + k, pldSize'[c])]
    BY DEF ChildRecv
  <1> DEFINE size == recvSize[c] + k
             n == IF size >= LenEnd THEN pld[c] ELSE 0
  <1>2. size \in Nat /\ size <= written[c] /\ k \in Nat /\ k > 0 /\ recvSize[c] \in Nat
    BY <1>1, SMTT(60) DEF TypeOK
  <1>3. \A i \in 1 .. BufSize : Filled(c, k)[i] = IF i <= size THEN i ELSE Junk
    BY <1>2 DEF Filled, BodyIsPrefix
  <1>4. body'[c] = Filled(c, k)
    BY <1>1 DEF TypeOK
  <1>5. size <= BufSize
    BY <1>2, MsgLenFits DEF LoopInv, LoopOf, TypeOK
  <1>6. pldFlag' = [pldFlag EXCEPT ![c] = size < LenEnd] /\ pldSize' = [pldSize EXCEPT ![c] = n]
    <2>1. /\ pldFlag[c] = (recvSize[c] < LenEnd)
          /\ pldSize[c] = IF pldFlag[c] THEN 0 ELSE pld[c]
          /\ pldFlag \in [Clients -> BOOLEAN] /\ pldSize \in [Clients -> Lens \cup {0}]
      BY DEF LoopInv, LoopOf, TypeOK
    <2>2. CASE size < LenEnd
      <3>1. pldFlag[c] = TRUE /\ pldSize[c] = 0
        BY <1>2, <2>1, <2>2
      <3>2. UNCHANGED <<pldFlag, pldSize>>
        BY <1>1, <1>2, <2>2 DEF LengthDue
      <3>3. QED
        BY <1>2, <2>1, <2>2, <3>1, <3>2
    <2>3. CASE size >= LenEnd /\ recvSize[c] < LenEnd
      <3>1. \A i \in LenOff + 1 .. LenEnd : i \in 1 .. BufSize /\ i <= size
        BY <1>2, <1>5, <2>3
      <3>2. ReadPldLen(c, Filled(c, k)) = {pld[c]}
        BY <1>3, <3>1 DEF ReadPldLen
      <3>3. LengthDue(c, size)
        BY <2>1, <2>3 DEF LengthDue
      <3>4. pldFlag' = [pldFlag EXCEPT ![c] = FALSE] /\ pldSize' = [pldSize EXCEPT ![c] = pld[c]]
        BY <1>1, <3>2, <3>3
      <3>5. (size < LenEnd) = FALSE /\ n = pld[c]
        BY <1>2, <2>3
      <3>6. QED
        BY <3>4, <3>5
    <2>4. CASE size >= LenEnd /\ recvSize[c] >= LenEnd
      <3>1. pldFlag[c] = FALSE /\ pldSize[c] = pld[c]
        BY <1>2, <2>1, <2>4
      <3>2. UNCHANGED <<pldFlag, pldSize>>
        BY <1>1, <3>1 DEF LengthDue
      <3>3. QED
        BY <1>2, <2>1, <2>4, <3>1, <3>2
    <2>5. QED
      BY <1>2, <2>2, <2>3, <2>4
  <1>7. pldSize'[c] = n
    BY <1>6 DEF TypeOK
  <1>8. QED
    BY <1>1, <1>2, <1>3, <1>4, <1>6, <1>7

\* Receiving keeps a child in the loop or takes it to the answer.
LEMMA ChildRecvMoves ==
    ASSUME TypeOK, NEW c \in Clients, ChildRecv(c)
    PROVE  /\ kpc[c] = "recv"
           /\ kpc' \in [Clients -> {"none", "closing", "recv", "send", "close", "zombie", "reaped"}]
           /\ kpc'[c] \in {"recv", "send"}
           /\ \A d \in Clients : d # c => kpc'[d] = kpc[d]
  <1>1. PICK k \in 1 .. BufSize : kpc' = [kpc EXCEPT ![c] = AfterRecv(recvSize[c] + k, pldSize'[c])]
    BY DEF ChildRecv
  <1>2. kpc[c] = "recv"
    BY DEF ChildRecv
  <1>3. AfterRecv(recvSize[c] + k, pldSize'[c]) \in {"recv", "send"}
    BY DEF AfterRecv
  <1>4. QED
    BY <1>1, <1>2, <1>3 DEF TypeOK

\* A client whose data does not change keeps its part of LoopInv while it advances
\* and while its child is forked, starts to receive, or is past the loop.
LEMMA LoopOfSame ==
    ASSUME TypeOK, NEW d \in Clients, LoopOf(d), pld' = pld,
           written'[d] = written[d], recvSize'[d] = recvSize[d], pldFlag'[d] = pldFlag[d],
           pldSize'[d] = pldSize[d], sent'[d] = sent[d],
           cpc'[d] \in {"start", "connected"} => cpc[d] \in {"start", "connected"},
           \/ kpc'[d] = kpc[d]
           \/ kpc'[d] \in {"close", "zombie", "reaped"}
           \/ kpc[d] = "none" /\ kpc'[d] = "closing"
           \/ kpc[d] = "closing" /\ kpc'[d] = "recv"
    PROVE  LoopOf(d)'
  BY DEF LoopOf, MsgLen

\* Every step keeps the receive loop and the client in step.
LEMMA NextLoopInv == TypeOK /\ QueueInv /\ LoopInv /\ BodyIsPrefix /\ [Next]_vars => LoopInv'
  <1> SUFFICES ASSUME TypeOK, QueueInv, LoopInv, BodyIsPrefix, [Next]_vars, NEW d \in Clients
               PROVE LoopOf(d)'
    BY DEF LoopInv
  <1> USE DEF clientVars, parentVars, childVars, sigVars
  <1>0. /\ LoopOf(d)
        /\ written[d] \in Nat /\ recvSize[d] \in Nat /\ pld[d] \in Nat /\ MsgLen(d) \in Nat
        /\ pldFlag[d] \in BOOLEAN
    BY MsgLenFits DEF TypeOK, LoopInv
  <1>1. ASSUME NEW c \in Clients, Connect(c) PROVE LoopOf(d)'
    BY <1>0, <1>1, LoopOfSame DEF Connect, TypeOK
  <1>2. ASSUME NEW c \in Clients, TooLong(c) PROVE LoopOf(d)'
    BY <1>0, <1>2, LoopOfSame DEF TooLong, TypeOK
  <1>3. ASSUME NEW c \in Clients, Write(c) PROVE LoopOf(d)'
    <2>1. CASE c = d
      <3>1. /\ cpc[d] = "connected" /\ cpc'[d] = "wrote" /\ written'[d] = MsgLen(d)
            /\ MsgLen(d)' = MsgLen(d) /\ MsgLen(d) + 1 <= BufSize
        BY <1>3, <2>1 DEF Write, TypeOK, MsgLen
      <3>2. recvSize[d] = 0 /\ UNCHANGED <<pld, recvSize, pldFlag, pldSize, kpc, sent>>
        BY <1>0, <1>3, <3>1 DEF Write, LoopOf
      <3>3. QED
        BY <1>0, <3>1, <3>2 DEF LoopOf
    <2>2. CASE c # d
      BY <1>0, <1>3, <2>2, LoopOfSame DEF Write, TypeOK
    <2>3. QED
      BY <2>1, <2>2
  <1>4. ASSUME NEW c \in Clients, WriteFails(c) PROVE LoopOf(d)'
    <2>1. CASE c = d
      <3>1. PICK k \in 0 .. MsgLen(d) - 1 : written' = [written EXCEPT ![d] = k]
        BY <1>4, <2>1 DEF WriteFails
      <3>2. /\ cpc[d] = "connected" /\ cpc'[d] = "failed" /\ written'[d] = k
            /\ MsgLen(d)' = MsgLen(d) /\ MsgLen(d) + 1 <= BufSize
        BY <1>4, <2>1, <3>1 DEF WriteFails, TypeOK, MsgLen
      <3>3. recvSize[d] = 0 /\ UNCHANGED <<pld, recvSize, pldFlag, pldSize, kpc, sent>>
        BY <1>0, <1>4, <3>2 DEF WriteFails, LoopOf
      <3>4. QED
        BY <1>0, <3>1, <3>2, <3>3 DEF LoopOf
    <2>2. CASE c # d
      BY <1>0, <1>4, <2>2, LoopOfSame DEF WriteFails, Hurt, TypeOK
    <2>3. QED
      BY <2>1, <2>2
  <1>5. ASSUME NEW c \in Clients, ClientRecv(c) PROVE LoopOf(d)'
    BY <1>0, <1>5, LoopOfSame DEF ClientRecv, TypeOK
  <1>6. ASSUME NEW c \in Clients, ClientRecvEnd(c) PROVE LoopOf(d)'
    BY <1>0, <1>6, LoopOfSame DEF ClientRecvEnd, TypeOK
  <1>7. ASSUME NEW c \in Clients, ClientDies(c) PROVE LoopOf(d)'
    BY <1>0, <1>7, LoopOfSame DEF ClientDies, Hurt, TypeOK
  <1>8. ASSUME NEW c \in Clients, CloseListener(c) PROVE LoopOf(d)'
    BY <1>0, <1>8, LoopOfSame DEF CloseListener, TypeOK
  <1>9. ASSUME NEW c \in Clients, ChildRecv(c) PROVE LoopOf(d)'
    <2>1. PICK k \in 1 .. BufSize :
            LET size == recvSize[c] + k
                n    == IF size >= LenEnd THEN pld[c] ELSE 0
            IN  /\ size \in Nat /\ size <= written[c]
                /\ recvSize' = [recvSize EXCEPT ![c] = size]
                /\ body' = [body EXCEPT ![c] = Filled(c, k)]
                /\ \A i \in 1 .. BufSize : body'[c][i] = IF i <= size THEN i ELSE Junk
                /\ pldFlag' = [pldFlag EXCEPT ![c] = size < LenEnd]
                /\ pldSize' = [pldSize EXCEPT ![c] = n]
                /\ kpc' = [kpc EXCEPT ![c] = AfterRecv(size, n)]
      BY <1>9, ChildRecvEffect
    <2>2. CASE c # d
      BY <1>0, <1>9, <2>1, <2>2, LoopOfSame, ZenonT(60) DEF ChildRecv, TypeOK
    <2>3. CASE c = d
      <3> DEFINE size == recvSize[d] + k
                 n    == IF size >= LenEnd THEN pld[d] ELSE 0
      <3>1. /\ size \in Nat /\ size <= written[d] /\ written' = written /\ pld' = pld
            /\ cpc' = cpc /\ sent' = sent /\ kpc[d] = "recv"
            /\ recvSize'[d] = size /\ pldSize'[d] = n
        BY <1>9, <2>1, <2>3 DEF ChildRecv, TypeOK
      <3>2. pldFlag'[d] <=> size < LenEnd
        BY <2>1, <2>3 DEF TypeOK
      <3>3. kpc'[d] = AfterRecv(size, n)
        BY <2>1, <2>3 DEF TypeOK
      <3>4. size <= MsgLen(d) /\ written[d] <= MsgLen(d) /\ written[d] < BufSize
        BY <1>0, <3>1 DEF LoopOf
      <3>5. MsgLen(d)' = MsgLen(d)
        BY <3>1 DEF MsgLen
      <3>6. CASE size >= n + HdrSize
        <4>1. size >= LenEnd /\ n = pld[d] /\ size = MsgLen(d)
          BY <1>0, <3>1, <3>4, <3>6 DEF MsgLen
        <4>2. kpc'[d] = "send"
          BY <3>3, <3>6 DEF AfterRecv
        <4>3. QED
          BY <1>0, <3>1, <3>2, <3>4, <3>5, <4>1, <4>2 DEF LoopOf
      <3>7. CASE ~(size >= n + HdrSize)
        <4>1. kpc'[d] = "recv"
          BY <3>3, <3>7 DEF AfterRecv
        <4>2. size < n + HdrSize
          BY <1>0, <3>1, <3>7
        <4>3. QED
          BY <1>0, <3>1, <3>2, <3>4, <3>5, <4>1, <4>2 DEF LoopOf
      <3>8. QED
        BY <3>6, <3>7
    <2>4. QED
      BY <2>2, <2>3
  <1>10. ASSUME NEW c \in Clients, ChildRecvFails(c) PROVE LoopOf(d)'
    <2>1. kpc' = [kpc EXCEPT ![c] = "close"]
      <3>1. LoopOf(c) /\ kpc[c] = "recv"
        BY <1>10 DEF ChildRecvFails, LoopInv
      <3>2. recvSize[c] < pldSize[c] + HdrSize
        BY <3>1 DEF LoopOf
      <3>3. QED
        BY <1>10, <3>2 DEF ChildRecvFails
    <2>2. QED
      BY <1>0, <1>10, <2>1, LoopOfSame DEF ChildRecvFails, TypeOK
  <1>11. ASSUME NEW c \in Clients, ChildSend(c) PROVE LoopOf(d)'
    <2>1. CASE c = d
      BY <1>0, <1>11, <2>1, MsgLenFits DEF ChildSend, TypeOK, LoopOf, MsgLen
    <2>2. CASE c # d
      BY <1>0, <1>11, <2>2, LoopOfSame DEF ChildSend, TypeOK
    <2>3. QED
      BY <2>1, <2>2
  <1>12. ASSUME NEW c \in Clients, ChildSendFails(c) PROVE LoopOf(d)'
    BY <1>0, <1>12, LoopOfSame DEF ChildSendFails, Hurt, TypeOK
  <1>13. ASSUME NEW c \in Clients, ChildExit(c) PROVE LoopOf(d)'
    BY <1>0, <1>13, LoopOfSame DEF ChildExit, Dies, TypeOK
  <1>14. ASSUME NEW c \in Clients, ChildSigpipe(c) PROVE LoopOf(d)'
    BY <1>0, <1>14, LoopOfSame DEF ChildSigpipe, Dies, TypeOK
  <1>15. ASSUME NEW c \in Clients, Reap(c) PROVE LoopOf(d)'
    BY <1>0, <1>15, LoopOfSame DEF Reap, TypeOK
  <1>16. ASSUME Accept PROVE LoopOf(d)'
    BY <1>0, <1>16, LoopOfSame DEF Accept, TypeOK
  <1>17. ASSUME AcceptFails PROVE LoopOf(d)'
    BY <1>0, <1>17, LoopOfSame DEF AcceptFails, Hurt, TypeOK
  <1>18. ASSUME Fork PROVE LoopOf(d)'
    BY <1>0, <1>18, LoopOfSame, SMTT(60) DEF Fork, TypeOK, QueueInv
  <1>19. ASSUME ForkFails PROVE LoopOf(d)'
    BY <1>0, <1>19, LoopOfSame DEF ForkFails, Hurt, TypeOK
  <1>20. ASSUME CloseNewFd PROVE LoopOf(d)'
    BY <1>0, <1>20, LoopOfSame DEF CloseNewFd, TypeOK
  <1>21. ASSUME EnterHandler PROVE LoopOf(d)'
    BY <1>0, <1>21, LoopOfSame DEF EnterHandler, TypeOK
  <1>22. ASSUME LeaveHandler PROVE LoopOf(d)'
    BY <1>0, <1>22, LoopOfSame DEF LeaveHandler, TypeOK
  <1>23. ASSUME UNCHANGED vars PROVE LoopOf(d)'
    BY <1>0, <1>23, LoopOfSame DEF vars
  <1>24. QED
    BY <1>1, <1>2, <1>3, <1>4, <1>5, <1>6, <1>7, <1>8, <1>9, <1>10, <1>11, <1>12, <1>13, <1>14, <1>15, <1>16, <1>17, <1>18, <1>19, <1>20, <1>21, <1>22, <1>23 DEF Next, ChildRecvEof, Idle

\* Every step keeps what was received a prefix of the message.
LEMMA NextBodyIsPrefix == TypeOK /\ QueueInv /\ LoopInv /\ BodyIsPrefix /\ [Next]_vars => BodyIsPrefix'
  <1> SUFFICES ASSUME TypeOK /\ QueueInv /\ LoopInv /\ BodyIsPrefix, [Next]_vars PROVE BodyIsPrefix'
    OBVIOUS
  <1> USE DEF clientVars, parentVars, childVars, sigVars
  <1>1. ASSUME NEW c \in Clients, Connect(c) PROVE BodyIsPrefix'
    BY <1>1 DEF Connect, TypeOK, LoopInv, BodyIsPrefix
  <1>2. ASSUME NEW c \in Clients, TooLong(c) PROVE BodyIsPrefix'
    BY <1>2 DEF TooLong, TypeOK, LoopInv, BodyIsPrefix
  <1>3. ASSUME NEW c \in Clients, Write(c) PROVE BodyIsPrefix'
    BY <1>3 DEF Write, TypeOK, LoopInv, BodyIsPrefix
  <1>4. ASSUME NEW c \in Clients, WriteFails(c) PROVE BodyIsPrefix'
    BY <1>4 DEF WriteFails, Hurt, TypeOK, LoopInv, BodyIsPrefix
  <1>5. ASSUME NEW c \in Clients, ClientRecv(c) PROVE BodyIsPrefix'
    BY <1>5 DEF ClientRecv, TypeOK, LoopInv, BodyIsPrefix
  <1>6. ASSUME NEW c \in Clients, ClientRecvEnd(c) PROVE BodyIsPrefix'
    BY <1>6 DEF ClientRecvEnd, TypeOK, LoopInv, BodyIsPrefix
  <1>7. ASSUME NEW c \in Clients, ClientDies(c) PROVE BodyIsPrefix'
    BY <1>7 DEF ClientDies, Hurt, TypeOK, LoopInv, BodyIsPrefix
  <1>8. ASSUME NEW c \in Clients, CloseListener(c) PROVE BodyIsPrefix'
    BY <1>8 DEF CloseListener, TypeOK, LoopInv, BodyIsPrefix
  <1>9. ASSUME NEW c \in Clients, ChildRecv(c) PROVE BodyIsPrefix'
    <2>1. PICK k \in 1 .. BufSize :
            LET size == recvSize[c] + k
                n    == IF size >= LenEnd THEN pld[c] ELSE 0
            IN  /\ size \in Nat /\ size <= written[c]
                /\ recvSize' = [recvSize EXCEPT ![c] = size]
                /\ body' = [body EXCEPT ![c] = Filled(c, k)]
                /\ \A i \in 1 .. BufSize : body'[c][i] = IF i <= size THEN i ELSE Junk
                /\ pldFlag' = [pldFlag EXCEPT ![c] = size < LenEnd]
                /\ pldSize' = [pldSize EXCEPT ![c] = n]
                /\ kpc' = [kpc EXCEPT ![c] = AfterRecv(size, n)]
      BY <1>9, ChildRecvEffect
    <2>2. QED
      <3>1. recvSize[c] + k < BufSize
        BY <2>1 DEF LoopInv, LoopOf, TypeOK
      <3>2. \A d \in Clients : d # c => body'[d] = body[d] /\ recvSize'[d] = recvSize[d]
        BY <2>1 DEF TypeOK
      <3>3. recvSize'[c] = recvSize[c] + k
        BY <2>1 DEF TypeOK
      <3>4. QED
        BY <2>1, <3>1, <3>2, <3>3 DEF BodyIsPrefix
  <1>10. ASSUME NEW c \in Clients, ChildRecvFails(c) PROVE BodyIsPrefix'
    BY <1>10 DEF ChildRecvFails, Hurt, TypeOK, LoopInv, BodyIsPrefix
  <1>11. ASSUME NEW c \in Clients, ChildSend(c) PROVE BodyIsPrefix'
    BY <1>11 DEF ChildSend, TypeOK, LoopInv, BodyIsPrefix
  <1>12. ASSUME NEW c \in Clients, ChildSendFails(c) PROVE BodyIsPrefix'
    BY <1>12 DEF ChildSendFails, Hurt, TypeOK, LoopInv, BodyIsPrefix
  <1>13. ASSUME NEW c \in Clients, ChildExit(c) PROVE BodyIsPrefix'
    BY <1>13 DEF ChildExit, Dies, TypeOK, LoopInv, BodyIsPrefix
  <1>14. ASSUME NEW c \in Clients, ChildSigpipe(c) PROVE BodyIsPrefix'
    BY <1>14 DEF ChildSigpipe, Dies, TypeOK, LoopInv, BodyIsPrefix
  <1>15. ASSUME NEW c \in Clients, Reap(c) PROVE BodyIsPrefix'
    BY <1>15 DEF Reap, TypeOK, LoopInv, BodyIsPrefix
  <1>16. ASSUME Accept PROVE BodyIsPrefix'
    BY <1>16 DEF Accept, TypeOK, LoopInv, BodyIsPrefix
  <1>17. ASSUME AcceptFails PROVE BodyIsPrefix'
    BY <1>17 DEF AcceptFails, Hurt, TypeOK, LoopInv, BodyIsPrefix
  <1>18. ASSUME Fork PROVE BodyIsPrefix'
    BY <1>18 DEF Fork, TypeOK, LoopInv, BodyIsPrefix
  <1>19. ASSUME ForkFails PROVE BodyIsPrefix'
    BY <1>19 DEF ForkFails, Hurt, TypeOK, LoopInv, BodyIsPrefix
  <1>20. ASSUME CloseNewFd PROVE BodyIsPrefix'
    BY <1>20 DEF CloseNewFd, TypeOK, LoopInv, BodyIsPrefix
  <1>21. ASSUME EnterHandler PROVE BodyIsPrefix'
    BY <1>21 DEF EnterHandler, TypeOK, LoopInv, BodyIsPrefix
  <1>22. ASSUME LeaveHandler PROVE BodyIsPrefix'
    BY <1>22 DEF LeaveHandler, TypeOK, LoopInv, BodyIsPrefix
  <1>23. ASSUME UNCHANGED vars PROVE BodyIsPrefix'
    BY <1>23 DEF vars, TypeOK, LoopInv, BodyIsPrefix
  <1>24. QED
    BY <1>1, <1>2, <1>3, <1>4, <1>5, <1>6, <1>7, <1>8, <1>9, <1>10, <1>11, <1>12, <1>13, <1>14, <1>15, <1>16, <1>17, <1>18, <1>19, <1>20, <1>21, <1>22, <1>23 DEF Next, ChildRecvEof, Idle

\* An answer is only ever the text of the whole message.
LEMMA NextAnswerIsEcho == TypeOK /\ QueueInv /\ LoopInv /\ BodyIsPrefix /\ AnswerIsEcho /\ [Next]_vars => AnswerIsEcho'
  <1> SUFFICES ASSUME TypeOK /\ QueueInv /\ LoopInv /\ BodyIsPrefix /\ AnswerIsEcho, [Next]_vars PROVE AnswerIsEcho'
    OBVIOUS
  <1> USE DEF clientVars, parentVars, childVars, sigVars
  <1>1. ASSUME NEW c \in Clients, Connect(c) PROVE AnswerIsEcho'
    BY <1>1 DEF Connect, TypeOK, LoopInv, AnswerIsEcho, MsgLen, Echo
  <1>2. ASSUME NEW c \in Clients, TooLong(c) PROVE AnswerIsEcho'
    BY <1>2 DEF TooLong, TypeOK, LoopInv, AnswerIsEcho, MsgLen, Echo
  <1>3. ASSUME NEW c \in Clients, Write(c) PROVE AnswerIsEcho'
    BY <1>3 DEF Write, TypeOK, LoopInv, AnswerIsEcho, MsgLen, Echo
  <1>4. ASSUME NEW c \in Clients, WriteFails(c) PROVE AnswerIsEcho'
    <2>1. LoopOf(c) /\ cpc[c] = "connected" /\ MsgLen(c) # 0
      BY <1>4, MsgLenFits DEF WriteFails, LoopInv
    <2>2. sent[c] = <<>>
      BY <2>1 DEF LoopOf, AnswerIsEcho
    <2>3. \A d \in Clients : d # c => written'[d] = written[d]
      BY <1>4 DEF WriteFails, TypeOK
    <2>4. UNCHANGED <<pld, sent, recvSize>>
      BY <1>4 DEF WriteFails
    <2>5. QED
      BY <2>2, <2>3, <2>4 DEF AnswerIsEcho, MsgLen, Echo
  <1>5. ASSUME NEW c \in Clients, ClientRecv(c) PROVE AnswerIsEcho'
    BY <1>5 DEF ClientRecv, TypeOK, LoopInv, AnswerIsEcho, MsgLen, Echo
  <1>6. ASSUME NEW c \in Clients, ClientRecvEnd(c) PROVE AnswerIsEcho'
    BY <1>6 DEF ClientRecvEnd, TypeOK, LoopInv, AnswerIsEcho, MsgLen, Echo
  <1>7. ASSUME NEW c \in Clients, ClientDies(c) PROVE AnswerIsEcho'
    BY <1>7 DEF ClientDies, Hurt, TypeOK, LoopInv, AnswerIsEcho, MsgLen, Echo
  <1>8. ASSUME NEW c \in Clients, CloseListener(c) PROVE AnswerIsEcho'
    BY <1>8 DEF CloseListener, TypeOK, LoopInv, AnswerIsEcho, MsgLen, Echo
  <1>9. ASSUME NEW c \in Clients, ChildRecv(c) PROVE AnswerIsEcho'
    BY <1>9, SMTT(60) DEF ChildRecv, TypeOK, LoopInv, AnswerIsEcho, MsgLen, Echo
  <1>10. ASSUME NEW c \in Clients, ChildRecvFails(c) PROVE AnswerIsEcho'
    BY <1>10 DEF ChildRecvFails, Hurt, TypeOK, LoopInv, AnswerIsEcho, MsgLen, Echo
  <1>11. ASSUME NEW c \in Clients, ChildSend(c) PROVE AnswerIsEcho'
    <2>1. /\ LoopOf(c) /\ kpc[c] = "send"
          /\ written[c] \in Nat /\ recvSize[c] \in Nat /\ pld[c] \in Nat /\ pldFlag[c] \in BOOLEAN
      BY <1>11 DEF ChildSend, LoopInv, TypeOK
    <2>2. /\ recvSize[c] = MsgLen(c) /\ written[c] = MsgLen(c) /\ MsgLen(c) \in Nat
          /\ HdrSize <= MsgLen(c) /\ MsgLen(c) <= BufSize
      BY <2>1, MsgLenFits DEF LoopOf
    <2>3. pldSize[c] = pld[c]
      BY <2>1, <2>2 DEF LoopOf
    <2>4. \A i \in 1 .. MsgLen(c) : body[c][i] = i
      BY <2>2 DEF BodyIsPrefix
    <2>5. FormatMsgBuf(c) = Echo(c)
      BY <2>3, <2>4 DEF FormatMsgBuf, Echo, MsgLen
    <2>6. sent' = [sent EXCEPT ![c] = Echo(c)] /\ UNCHANGED <<pld, written, recvSize>>
      BY <1>11, <2>5 DEF ChildSend
    <2>7. QED
      BY <2>2, <2>6 DEF AnswerIsEcho, MsgLen, Echo, TypeOK
  <1>12. ASSUME NEW c \in Clients, ChildSendFails(c) PROVE AnswerIsEcho'
    BY <1>12 DEF ChildSendFails, Hurt, TypeOK, LoopInv, AnswerIsEcho, MsgLen, Echo
  <1>13. ASSUME NEW c \in Clients, ChildExit(c) PROVE AnswerIsEcho'
    BY <1>13 DEF ChildExit, Dies, TypeOK, LoopInv, AnswerIsEcho, MsgLen, Echo
  <1>14. ASSUME NEW c \in Clients, ChildSigpipe(c) PROVE AnswerIsEcho'
    BY <1>14 DEF ChildSigpipe, Dies, TypeOK, LoopInv, AnswerIsEcho, MsgLen, Echo
  <1>15. ASSUME NEW c \in Clients, Reap(c) PROVE AnswerIsEcho'
    BY <1>15 DEF Reap, TypeOK, LoopInv, AnswerIsEcho, MsgLen, Echo
  <1>16. ASSUME Accept PROVE AnswerIsEcho'
    BY <1>16 DEF Accept, TypeOK, LoopInv, AnswerIsEcho, MsgLen, Echo
  <1>17. ASSUME AcceptFails PROVE AnswerIsEcho'
    BY <1>17 DEF AcceptFails, Hurt, TypeOK, LoopInv, AnswerIsEcho, MsgLen, Echo
  <1>18. ASSUME Fork PROVE AnswerIsEcho'
    BY <1>18 DEF Fork, TypeOK, LoopInv, AnswerIsEcho, MsgLen, Echo
  <1>19. ASSUME ForkFails PROVE AnswerIsEcho'
    BY <1>19 DEF ForkFails, Hurt, TypeOK, LoopInv, AnswerIsEcho, MsgLen, Echo
  <1>20. ASSUME CloseNewFd PROVE AnswerIsEcho'
    BY <1>20 DEF CloseNewFd, TypeOK, LoopInv, AnswerIsEcho, MsgLen, Echo
  <1>21. ASSUME EnterHandler PROVE AnswerIsEcho'
    BY <1>21 DEF EnterHandler, TypeOK, LoopInv, AnswerIsEcho, MsgLen, Echo
  <1>22. ASSUME LeaveHandler PROVE AnswerIsEcho'
    BY <1>22 DEF LeaveHandler, TypeOK, LoopInv, AnswerIsEcho, MsgLen, Echo
  <1>23. ASSUME UNCHANGED vars PROVE AnswerIsEcho'
    BY <1>23 DEF vars, TypeOK, LoopInv, AnswerIsEcho, MsgLen, Echo
  <1>24. QED
    BY <1>1, <1>2, <1>3, <1>4, <1>5, <1>6, <1>7, <1>8, <1>9, <1>10, <1>11, <1>12, <1>13, <1>14, <1>15, <1>16, <1>17, <1>18, <1>19, <1>20, <1>21, <1>22, <1>23 DEF Next, ChildRecvEof, Idle

\* Every step keeps the descriptors balanced.
LEMMA NextDescriptorsBalanced == TypeOK /\ QueueInv /\ DescriptorsBalanced /\ [Next]_vars => DescriptorsBalanced'
  <1> SUFFICES ASSUME TypeOK /\ QueueInv /\ DescriptorsBalanced, [Next]_vars PROVE DescriptorsBalanced'
    OBVIOUS
  <1> USE DEF clientVars, parentVars, childVars, sigVars
  <1>1. ASSUME NEW c \in Clients, Connect(c) PROVE DescriptorsBalanced'
    BY <1>1 DEF Connect, TypeOK, QueueInv, DescriptorsBalanced
  <1>2. ASSUME NEW c \in Clients, TooLong(c) PROVE DescriptorsBalanced'
    BY <1>2 DEF TooLong, TypeOK, QueueInv, DescriptorsBalanced
  <1>3. ASSUME NEW c \in Clients, Write(c) PROVE DescriptorsBalanced'
    BY <1>3 DEF Write, TypeOK, QueueInv, DescriptorsBalanced
  <1>4. ASSUME NEW c \in Clients, WriteFails(c) PROVE DescriptorsBalanced'
    BY <1>4 DEF WriteFails, Hurt, TypeOK, QueueInv, DescriptorsBalanced
  <1>5. ASSUME NEW c \in Clients, ClientRecv(c) PROVE DescriptorsBalanced'
    BY <1>5 DEF ClientRecv, TypeOK, QueueInv, DescriptorsBalanced
  <1>6. ASSUME NEW c \in Clients, ClientRecvEnd(c) PROVE DescriptorsBalanced'
    BY <1>6 DEF ClientRecvEnd, TypeOK, QueueInv, DescriptorsBalanced
  <1>7. ASSUME NEW c \in Clients, ClientDies(c) PROVE DescriptorsBalanced'
    BY <1>7 DEF ClientDies, Hurt, TypeOK, QueueInv, DescriptorsBalanced
  <1>8. ASSUME NEW c \in Clients, CloseListener(c) PROVE DescriptorsBalanced'
    BY <1>8 DEF CloseListener, TypeOK, QueueInv, DescriptorsBalanced
  <1>9. ASSUME NEW c \in Clients, ChildRecv(c) PROVE DescriptorsBalanced'
    <2>1. kpc[c] = "recv" /\ kpc' \in [Clients -> {"none", "closing", "recv", "send", "close",
                                                  "zombie", "reaped"}]
          /\ kpc'[c] \in {"recv", "send"} /\ \A d \in Clients : d # c => kpc'[d] = kpc[d]
      BY <1>9, ChildRecvMoves
    <2>2. UNCHANGED <<kfds, pfds, ppc, newfd>>
      BY <1>9 DEF ChildRecv
    <2>3. QED
      BY <2>1, <2>2 DEF DescriptorsBalanced
  <1>10. ASSUME NEW c \in Clients, ChildRecvFails(c) PROVE DescriptorsBalanced'
    BY <1>10 DEF ChildRecvFails, Hurt, TypeOK, QueueInv, DescriptorsBalanced
  <1>11. ASSUME NEW c \in Clients, ChildSend(c) PROVE DescriptorsBalanced'
    BY <1>11 DEF ChildSend, TypeOK, QueueInv, DescriptorsBalanced
  <1>12. ASSUME NEW c \in Clients, ChildSendFails(c) PROVE DescriptorsBalanced'
    BY <1>12 DEF ChildSendFails, Hurt, TypeOK, QueueInv, DescriptorsBalanced
  <1>13. ASSUME NEW c \in Clients, ChildExit(c) PROVE DescriptorsBalanced'
    BY <1>13 DEF ChildExit, Dies, TypeOK, QueueInv, DescriptorsBalanced
  <1>14. ASSUME NEW c \in Clients, ChildSigpipe(c) PROVE DescriptorsBalanced'
    BY <1>14 DEF ChildSigpipe, Dies, TypeOK, QueueInv, DescriptorsBalanced
  <1>15. ASSUME NEW c \in Clients, Reap(c) PROVE DescriptorsBalanced'
    BY <1>15 DEF Reap, TypeOK, QueueInv, DescriptorsBalanced
  <1>16. ASSUME Accept PROVE DescriptorsBalanced'
    BY <1>16, SMTT(60) DEF Accept, TypeOK, QueueInv, DescriptorsBalanced
  <1>17. ASSUME AcceptFails PROVE DescriptorsBalanced'
    BY <1>17 DEF AcceptFails, Hurt, TypeOK, QueueInv, DescriptorsBalanced
  <1>18. ASSUME Fork PROVE DescriptorsBalanced'
    BY <1>18 DEF Fork, TypeOK, QueueInv, DescriptorsBalanced
  <1>19. ASSUME ForkFails PROVE DescriptorsBalanced'
    BY <1>19 DEF ForkFails, Hurt, TypeOK, QueueInv, DescriptorsBalanced
  <1>20. ASSUME CloseNewFd PROVE DescriptorsBalanced'
    BY <1>20 DEF CloseNewFd, TypeOK, QueueInv, DescriptorsBalanced
  <1>21. ASSUME EnterHandler PROVE DescriptorsBalanced'
    BY <1>21 DEF EnterHandler, TypeOK, QueueInv, DescriptorsBalanced
  <1>22. ASSUME LeaveHandler PROVE DescriptorsBalanced'
    BY <1>22 DEF LeaveHandler, TypeOK, QueueInv, DescriptorsBalanced
  <1>23. ASSUME UNCHANGED vars PROVE DescriptorsBalanced'
    BY <1>23 DEF vars, TypeOK, QueueInv, DescriptorsBalanced
  <1>24. QED
    BY <1>1, <1>2, <1>3, <1>4, <1>5, <1>6, <1>7, <1>8, <1>9, <1>10, <1>11, <1>12, <1>13, <1>14, <1>15, <1>16, <1>17, <1>18, <1>19, <1>20, <1>21, <1>22, <1>23 DEF Next, ChildRecvEof, Idle

\* A child that dies leaves a handler run ahead.
LEMMA NextNoZombieForgotten == TypeOK /\ QueueInv /\ NoZombieForgotten /\ [Next]_vars => NoZombieForgotten'
  <1> SUFFICES ASSUME TypeOK /\ QueueInv /\ NoZombieForgotten, [Next]_vars PROVE NoZombieForgotten'
    OBVIOUS
  <1> USE DEF clientVars, parentVars, childVars, sigVars
  <1>1. ASSUME NEW c \in Clients, Connect(c) PROVE NoZombieForgotten'
    BY <1>1 DEF Connect, TypeOK, QueueInv, NoZombieForgotten
  <1>2. ASSUME NEW c \in Clients, TooLong(c) PROVE NoZombieForgotten'
    BY <1>2 DEF TooLong, TypeOK, QueueInv, NoZombieForgotten
  <1>3. ASSUME NEW c \in Clients, Write(c) PROVE NoZombieForgotten'
    BY <1>3 DEF Write, TypeOK, QueueInv, NoZombieForgotten
  <1>4. ASSUME NEW c \in Clients, WriteFails(c) PROVE NoZombieForgotten'
    BY <1>4 DEF WriteFails, Hurt, TypeOK, QueueInv, NoZombieForgotten
  <1>5. ASSUME NEW c \in Clients, ClientRecv(c) PROVE NoZombieForgotten'
    BY <1>5 DEF ClientRecv, TypeOK, QueueInv, NoZombieForgotten
  <1>6. ASSUME NEW c \in Clients, ClientRecvEnd(c) PROVE NoZombieForgotten'
    BY <1>6 DEF ClientRecvEnd, TypeOK, QueueInv, NoZombieForgotten
  <1>7. ASSUME NEW c \in Clients, ClientDies(c) PROVE NoZombieForgotten'
    BY <1>7 DEF ClientDies, Hurt, TypeOK, QueueInv, NoZombieForgotten
  <1>8. ASSUME NEW c \in Clients, CloseListener(c) PROVE NoZombieForgotten'
    BY <1>8 DEF CloseListener, TypeOK, QueueInv, NoZombieForgotten
  <1>9. ASSUME NEW c \in Clients, ChildRecv(c) PROVE NoZombieForgotten'
    <2>1. kpc'[c] # "zombie" /\ \A d \in Clients : d # c => kpc'[d] = kpc[d]
      BY <1>9, ChildRecvMoves
    <2>2. UNCHANGED sigVars
      BY <1>9 DEF ChildRecv
    <2>3. QED
      BY <2>1, <2>2 DEF NoZombieForgotten
  <1>10. ASSUME NEW c \in Clients, ChildRecvFails(c) PROVE NoZombieForgotten'
    BY <1>10 DEF ChildRecvFails, Hurt, TypeOK, QueueInv, NoZombieForgotten
  <1>11. ASSUME NEW c \in Clients, ChildSend(c) PROVE NoZombieForgotten'
    BY <1>11 DEF ChildSend, TypeOK, QueueInv, NoZombieForgotten
  <1>12. ASSUME NEW c \in Clients, ChildSendFails(c) PROVE NoZombieForgotten'
    BY <1>12 DEF ChildSendFails, Hurt, TypeOK, QueueInv, NoZombieForgotten
  <1>13. ASSUME NEW c \in Clients, ChildExit(c) PROVE NoZombieForgotten'
    BY <1>13 DEF ChildExit, Dies, TypeOK, QueueInv, NoZombieForgotten
  <1>14. ASSUME NEW c \in Clients, ChildSigpipe(c) PROVE NoZombieForgotten'
    BY <1>14 DEF ChildSigpipe, Dies, TypeOK, QueueInv, NoZombieForgotten
  <1>15. ASSUME NEW c \in Clients, Reap(c) PROVE NoZombieForgotten'
    BY <1>15 DEF Reap, TypeOK, QueueInv, NoZombieForgotten
  <1>16. ASSUME Accept PROVE NoZombieForgotten'
    BY <1>16 DEF Accept, TypeOK, QueueInv, NoZombieForgotten
  <1>17. ASSUME AcceptFails PROVE NoZombieForgotten'
    BY <1>17 DEF AcceptFails, Hurt, TypeOK, QueueInv, NoZombieForgotten
  <1>18. ASSUME Fork PROVE NoZombieForgotten'
    BY <1>18 DEF Fork, TypeOK, QueueInv, NoZombieForgotten
  <1>19. ASSUME ForkFails PROVE NoZombieForgotten'
    BY <1>19 DEF ForkFails, Hurt, TypeOK, QueueInv, NoZombieForgotten
  <1>20. ASSUME CloseNewFd PROVE NoZombieForgotten'
    BY <1>20 DEF CloseNewFd, TypeOK, QueueInv, NoZombieForgotten
  <1>21. ASSUME EnterHandler PROVE NoZombieForgotten'
    BY <1>21 DEF EnterHandler, TypeOK, QueueInv, NoZombieForgotten
  <1>22. ASSUME LeaveHandler PROVE NoZombieForgotten'
    BY <1>22 DEF LeaveHandler, TypeOK, QueueInv, NoZombieForgotten
  <1>23. ASSUME UNCHANGED vars PROVE NoZombieForgotten'
    BY <1>23 DEF vars, TypeOK, QueueInv, NoZombieForgotten
  <1>24. QED
    BY <1>1, <1>2, <1>3, <1>4, <1>5, <1>6, <1>7, <1>8, <1>9, <1>10, <1>11, <1>12, <1>13, <1>14, <1>15, <1>16, <1>17, <1>18, <1>19, <1>20, <1>21, <1>22, <1>23 DEF Next, ChildRecvEof, Idle

\* The inductive invariant is established and preserved.
LEMMA InitIInv == Init => IInv
  <1> SUFFICES ASSUME Init PROVE IInv
    OBVIOUS
  <1>1. TypeOK
    BY InitTypeOK
  <1>2. QueueInv
    BY <1>1 DEF Init, QueueInv
  <1>3. ASSUME NEW c \in Clients PROVE LoopOf(c)
    <2>1. MsgLen(c) \in Nat /\ 0 < HdrSize /\ 0 <= MsgLen(c) /\ 0 < BufSize
      BY <1>1, MsgLenFits
    <2>2. QED
      BY <2>1 DEF Init, LoopOf
  <1>4. BodyIsPrefix
    <2>1. \A c \in Clients : 0 < BufSize
      BY <1>1, MsgLenFits
    <2>2. QED
      BY <2>1 DEF Init, BodyIsPrefix
  <1>5. AnswerIsEcho /\ DescriptorsBalanced /\ NoZombieForgotten
    BY DEF Init, AnswerIsEcho, DescriptorsBalanced, NoZombieForgotten
  <1>6. QED
    BY <1>1, <1>2, <1>3, <1>4, <1>5 DEF IInv, LoopInv

LEMMA NextIInv == IInv /\ [Next]_vars => IInv'
  BY NextTypeOK, NextQueueInv, NextLoopInv, NextBodyIsPrefix, NextAnswerIsEcho,
     NextDescriptorsBalanced, NextNoZombieForgotten DEF IInv

\* IInv holds of every reachable state.
THEOREM Invariance == Spec => []IInv
  BY InitIInv, NextIInv, PTL DEF Spec

\* The types of the server's and the clients' state hold in every reachable state.
THEOREM TypeCorrect == Spec => []TypeOK
  BY Invariance, PTL DEF IInv

\* An answer is the text of exactly the message the client sent, for any number
\* of clients, any message and header sizes and any chunking of the stream.
THEOREM AnswerCorrect == Spec => []AnswerIsEcho
  BY Invariance, PTL DEF IInv

\* The child never writes outside msg_buf.body for the messages clients send.
THEOREM BodyCorrect == Spec => []BodyIsPrefix
  BY Invariance, PTL DEF IInv

\* No descriptor leaks from the parent into a later child, and none is kept.
THEOREM DescriptorsCorrect == Spec => []DescriptorsBalanced
  BY Invariance, PTL DEF IInv

\* A dead child always has a handler run ahead of it.
THEOREM ZombiesCorrect == Spec => []NoZombieForgotten
  BY Invariance, PTL DEF IInv

\* What a step does to a child and its client: a stranded child is as it was, or a recv
\* failed that a fault has hit.
LEMMA StrandedStep ==
    ASSUME IInv, [Next]_vars, NEW d \in Clients, Stranded(d)
    PROVE  Stranded(d)' \/ (kpc'[d] = "close" /\ d \in hurt')
  <1>. USE DEF clientVars, parentVars, childVars, sigVars
  <1>1. /\ kpc[d] = "recv" /\ cpc[d] \in {"done", "failed"} /\ recvSize[d] = written[d]
        /\ recvSize[d] < pldSize[d] + HdrSize /\ recvSize[d] \in Nat
    BY DEF IInv, Stranded, ClientGone, LoopInv, LoopOf, TypeOK
  <1>2. ASSUME cpc'[d] = cpc[d], written'[d] = written[d], kpc'[d] = kpc[d],
               recvSize'[d] = recvSize[d]
        PROVE  Stranded(d)'
    BY <1>1, <1>2 DEF Stranded, ClientGone
  <1>. USE <1>1 DEF IInv, TypeOK
  <1>3. ASSUME NEW c \in Clients, Connect(c) \/ TooLong(c) \/ Write(c)
        PROVE  Stranded(d)'
    BY <1>2, <1>3 DEF Connect, TooLong, Write
  <1>4. ASSUME NEW c \in Clients, WriteFails(c) PROVE Stranded(d)'
    <2>1. c # d
      BY <1>4 DEF WriteFails
    <2>2. written'[d] = written[d]
      BY <1>4, <2>1 DEF WriteFails
    <2>. QED
      BY <1>2, <1>4, <2>1, <2>2 DEF WriteFails
  <1>5. ASSUME NEW c \in Clients, ClientRecv(c) \/ ClientRecvEnd(c) \/ ClientDies(c)
        PROVE  Stranded(d)'
    BY <1>2, <1>5 DEF ClientRecv, ClientRecvEnd, ClientDies
  <1>6. ASSUME NEW c \in Clients, ChildRecv(c) PROVE Stranded(d)'
    <2>1. PICK k \in 1 .. BufSize :
             /\ recvSize[c] + k <= written[c]
             /\ recvSize' = [recvSize EXCEPT ![c] = recvSize[c] + k]
             /\ kpc' = [kpc EXCEPT ![c] = AfterRecv(recvSize[c] + k, pldSize'[c])]
      BY <1>6 DEF ChildRecv
    <2>2. c # d
      BY <2>1
    <2>. QED
      BY <1>2, <1>6, <2>1, <2>2 DEF ChildRecv
  <1>7. ASSUME NEW c \in Clients, ChildRecvFails(c)
        PROVE  Stranded(d)' \/ (kpc'[d] = "close" /\ d \in hurt')
    <2>1. CASE c = d
      BY <1>7, <2>1 DEF ChildRecvFails, Hurt
    <2>2. CASE c # d
      BY <1>2, <1>7, <2>2 DEF ChildRecvFails
    <2>. QED
      BY <2>1, <2>2
  <1>8. ASSUME NEW c \in Clients,
               CloseListener(c) \/ ChildSend(c) \/ ChildSendFails(c) \/ Reap(c)
        PROVE  Stranded(d)'
    BY <1>2, <1>8 DEF CloseListener, ChildSend, ChildSendFails, Reap
  <1>9. ASSUME NEW c \in Clients, ChildExit(c) \/ ChildSigpipe(c) PROVE Stranded(d)'
    BY <1>2, <1>9 DEF ChildExit, ChildSigpipe, Dies
  <1>10. ASSUME Accept \/ AcceptFails \/ ForkFails \/ CloseNewFd \/ EnterHandler \/ LeaveHandler
         PROVE  Stranded(d)'
    BY <1>2, <1>10 DEF Accept, AcceptFails, ForkFails, CloseNewFd, EnterHandler, LeaveHandler
  <1>11. ASSUME Fork PROVE Stranded(d)'
    <2>1. kpc[newfd] = "none" /\ kpc' = [kpc EXCEPT ![newfd] = "closing"]
      BY <1>11 DEF Fork, QueueInv
    <2>2. kpc'[d] = kpc[d]
      BY <2>1
    <2>. QED
      BY <1>2, <1>11, <2>2 DEF Fork
  <1>12. ASSUME UNCHANGED vars PROVE Stranded(d)'
    BY <1>2, <1>12 DEF vars
  <1>. QED
    BY <1>3, <1>4, <1>5, <1>6, <1>7, <1>8, <1>9, <1>10, <1>11, <1>12
       DEF Next, ChildRecvEof, Idle

\* For any number of clients and any sizes: a child whose client ended in the middle of a
\* message leaves the loop of kyk_recv_btc_msg by no step but a recv that fails.
THEOREM StrandedCorrect == Spec => StrandedStays
  <1>1. IInv /\ [Next]_vars
            => [\A c \in Clients : Stranded(c) => Stranded(c)' \/ (kpc'[c] = "close" /\ c \in hurt')]_vars
    BY StrandedStep
  <1>2. QED
    BY <1>1, Invariance, PTL DEF Spec, StrandedStays

------------------------------------------------------------------------------
(* Refinement *)

\* The initial states are initial states of the service.
LEMMA InitRefines == Init => Service!Init
  <1> SUFFICES ASSUME Init PROVE Service!Init
    OBVIOUS
  <1>1. DOMAIN TextOf = Lens
    BY DEF TextOf
  <1>2. \A c \in Clients : written[c] # MsgLen(c)
    BY InitTypeOK, MsgLenFits DEF Init
  <1>3. Asked = {}
    BY <1>2 DEF Asked
  <1>4. QED
    BY <1>1, <1>3 DEF Init, Service!Init

\* Every step is a step of the service or leaves what the client sees unchanged.
LEMMA NextRefines == IInv /\ [Next]_vars => [Service!Next]_Service!vars
  <1> SUFFICES ASSUME IInv, [Next]_vars PROVE [Service!Next]_Service!vars
    OBVIOUS
  <1> USE DEF clientVars, parentVars, childVars, sigVars
  <1>0. TypeOK /\ LoopInv /\ AnswerIsEcho /\ BodyIsPrefix
    BY DEF IInv
  <1>1. ASSUME NEW c \in Clients, Write(c) PROVE Service!Ask(c)
    <2>1. LoopOf(c) /\ MsgLen(c) # 0 /\ cpc[c] = "connected"
      BY <1>0, <1>1, MsgLenFits DEF LoopInv, Write
    <2>2. c \notin Asked
      BY <2>1 DEF LoopOf, Asked
    <2>3. Asked' = Asked \cup {c}
      BY <1>0, <1>1 DEF Write, Asked, MsgLen, TypeOK
    <2>4. QED
      BY <1>1, <2>2, <2>3 DEF Write, Service!Ask
  <1>2. ASSUME NEW c \in Clients, ChildSend(c) PROVE Service!Answer(c)
    <2>1. /\ LoopOf(c) /\ kpc[c] = "send"
          /\ written[c] \in Nat /\ recvSize[c] \in Nat /\ pld[c] \in Lens
      BY <1>0, <1>2 DEF ChildSend, LoopInv, TypeOK
    <2>2. c \in Asked /\ sent[c] = <<>>
      BY <1>0, <2>1, MsgLenFits DEF LoopOf, Asked
    <2>3. AnswerIsEcho'
      BY <1>2, NextAnswerIsEcho DEF IInv, Next
    <2>4. sent' = [sent EXCEPT ![c] = FormatMsgBuf(c)] /\ UNCHANGED <<pld, written, hurt>>
      BY <1>2 DEF ChildSend
    <2>5. FormatMsgBuf(c) = TextOf[pld[c]]
      <3>1. /\ recvSize[c] = MsgLen(c) /\ MsgLen(c) \in Nat /\ MsgLen(c) >= HdrSize
            /\ MsgLen(c) <= BufSize
        BY <1>0, <2>1, MsgLenFits DEF LoopOf
      <3>2. pldFlag[c] = FALSE /\ pldSize[c] = pld[c]
        BY <1>0, <2>1, <3>1 DEF LoopOf, TypeOK
      <3>3. \A i \in 1 .. MsgLen(c) : body[c][i] = i
        BY <1>0, <3>1 DEF BodyIsPrefix
      <3>4. QED
        BY <2>1, <3>2, <3>3 DEF FormatMsgBuf, TextOf, MsgLen
    <2>6. Asked' = Asked
      BY <2>4 DEF Asked, MsgLen
    <2>7. QED
      BY <2>2, <2>4, <2>5, <2>6 DEF Service!Answer
  <1>3. ASSUME NEW c \in Clients, WriteFails(c) PROVE Service!Lose(c)
    <2>1. PICK k \in 0 .. MsgLen(c) - 1 : written' = [written EXCEPT ![c] = k]
      BY <1>3 DEF WriteFails
    <2>2. LoopOf(c) /\ MsgLen(c) \in Nat /\ MsgLen(c) # 0 /\ cpc[c] = "connected" /\ k # MsgLen(c)
      BY <1>0, <1>3, MsgLenFits DEF LoopInv, WriteFails
    <2>3. c \notin Asked
      BY <2>2 DEF LoopOf, Asked
    <2>4. Asked' = Asked
      BY <1>0, <1>3, <2>1, <2>2, <2>3 DEF Asked, MsgLen, WriteFails, TypeOK
    <2>5. QED
      BY <1>3, <2>4 DEF WriteFails, Hurt, Service!Lose
  <1>4. ASSUME NEW c \in Clients, ClientDies(c) \/ ChildRecvFails(c) PROVE Service!Lose(c)
    BY <1>4 DEF ClientDies, ChildRecvFails, Hurt, Asked, MsgLen, Service!Lose
  <1>5. ASSUME NEW c \in Clients, ChildSendFails(c) PROVE [Service!Next]_Service!vars
    <2>1. UNCHANGED <<pld, Asked, sent>>
      BY <1>5 DEF ChildSendFails, Asked, MsgLen
    <2>2. CASE UNCHANGED hurt
      BY <2>1, <2>2 DEF Service!vars
    <2>3. CASE Hurt(c)
      BY <2>1, <2>3 DEF Hurt, Service!Next, Service!Lose
    <2>4. QED
      BY <1>5, <2>2, <2>3 DEF ChildSendFails
  <1>6. ASSUME AcceptFails PROVE Service!Lose(Head(backlog)) /\ Head(backlog) \in Clients
    <2>1. Head(backlog) \in Clients
      BY <1>0, <1>6, HeadTailProperties DEF AcceptFails, TypeOK
    <2>2. QED
      BY <1>6, <2>1 DEF AcceptFails, Hurt, Asked, MsgLen, Service!Lose
  <1>7. ASSUME ForkFails PROVE Service!Lose(newfd) /\ newfd \in Clients
    <2>1. newfd \in Clients
      BY <1>0, <1>7 DEF IInv, ForkFails, QueueInv, TypeOK
    <2>2. QED
      BY <1>7, <2>1 DEF ForkFails, Hurt, Asked, MsgLen, Service!Lose
  <1>8. ASSUME NEW c \in Clients,
               \/ Connect(c) \/ TooLong(c) \/ ClientRecv(c) \/ ClientRecvEnd(c)
               \/ CloseListener(c) \/ ChildRecv(c) \/ ChildRecvEof(c)
               \/ ChildExit(c) \/ ChildSigpipe(c) \/ Reap(c)
        PROVE  UNCHANGED Service!vars
    <2>1. UNCHANGED <<pld, written, sent, hurt>>
      BY <1>8 DEF Connect, TooLong, ClientRecv, ClientRecvEnd, CloseListener, ChildRecv,
                  ChildRecvEof, ChildExit, ChildSigpipe, Dies, Reap, vars
    <2>2. QED
      BY <2>1 DEF Asked, MsgLen, Service!vars
  <1>9. ASSUME Accept \/ Fork \/ CloseNewFd \/ EnterHandler \/ LeaveHandler \/ Idle \/ UNCHANGED vars
        PROVE  UNCHANGED Service!vars
    <2>1. UNCHANGED <<pld, written, sent, hurt>>
      BY <1>9 DEF Accept, Fork, CloseNewFd, EnterHandler, LeaveHandler, Idle, vars
    <2>2. QED
      BY <2>1 DEF Asked, MsgLen, Service!vars
  <1>10. QED
    BY <1>1, <1>2, <1>3, <1>4, <1>5, <1>6, <1>7, <1>8, <1>9 DEF Next, Service!Next

\* Every behaviour of the processes, for any number of clients, is one of the
\* service: no answer without a request, at most one, and the right one.
THEOREM Refinement == Spec => Service!Spec
  <1>1. Init => Service!Init
    BY InitRefines
  <1>2. IInv /\ [Next]_vars => [Service!Next]_Service!vars
    BY NextRefines
  <1>3. QED
    BY <1>1, <1>2, Invariance, PTL DEF Spec, Service!Spec
==============================================================================
