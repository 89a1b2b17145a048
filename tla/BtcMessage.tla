----------------------------- MODULE BtcMessage -----------------------------
(***************************************************************************)
(* The clients protocols/btc_version/btc_version.c and protocols/btc_verack/  *)
(* btc_verack.c: a message is built and packed (btc_message.c), sent to a     *)
(* node over a connection of kyk_socket.c, and what one recv brings of the    *)
(* answer is shown, unpacked into a message, packed again and shown, and by   *)
(* btc_version.c also taken apart as a version, whatever it is.  The          *)
(* btc_version.c before them, in protocols ("first_version"), and the one     *)
(* after them, in kyk_block ("last_version"), send a version and show what    *)
(* has come as it is.                                                         *)
(*                                                                         *)
(* Other small programs stand beside them: debug_beej_pack.c, whose packet is *)
(* read once it is packed, and the sockets' first trials, which send or show  *)
(* a text: stream_socket_client.c with its server, and bgnet_listener.c with  *)
(* bgnet_talker.c and bgnet_broadcaster.c, which send it a datagram.          *)
(*                                                                         *)
(* A struct is the sequence of its bytes.  What a variable holds before it is *)
(* written is in Junk.  What happens after a copy or a reader has left its    *)
(* buffer is not followed (pc = "overrun").                                   *)
(***************************************************************************)
EXTENDS BeejPack, KykSha, FiniteSetsExt

CONSTANTS CmdSize,      \* bytes of a command (12)
          IpSize,       \* bytes of an address (16)
          BufSize,      \* PL_BUF_SIZE and MAX_BUF_SIZE (1024)
          Magic,        \* NT_MAGIC_MAIN
          Names,        \* the bytes of the commands "version" and "verack"
          Times,        \* what time() may say
          FirstTime,    \* 0x5986bc73, the time first_version puts
          OwnVers, Height, LocalIp, Port,  \* 70014, 329167, LOCAL_IP_SRC, 8333
          Texts,        \* what a text program may send
          TextSize,     \* MAXDATASIZE and MAXBUFLEN (100)
          Replies,      \* the messages a node may answer with
          MaxAddrs,     \* addresses of a name
          Junk,         \* memory nobody has written
          Tests         \* what debug_beej_pack.c may pack

VARIABLES prog,    \* the program
          pc,      \* its next step
          junk,    \* what its memory held at the start
          ver,     \* the version it sends
          req,     \* msg_buf: the request
          addrs,   \* the addresses not tried yet
          reply,   \* the message the node has answered with
          wire,    \* the node's bytes not received yet
          closed,  \* the node has closed the connection
          nread,   \* the bytes recv has brought
          resp,    \* resp_buf: the response
          msg,     \* what it is unpacked into
          shown,   \* the bytes shown: those of resp, and then of resp_msg_buf
         fields,  \* the fields shown of the response, when it is read as a version
          test     \* what is packed, item by item

vars == <<prog, pc, junk, ver, req, addrs, reply, wire, closed, nread, resp, msg, shown, fields, test>>

\* What every step leaves alone but the one that shows a version.
clientVars == <<prog, junk, ver, fields, test>>

Checksum(payload) == SubSeq(kyk_dble_sha256(payload), 1, 4)

Unpackers == {"btc_version", "btc_verack"}
Printers  == {"first_version", "last_version"}
Programs  == Unpackers \cup Printers

Streams   == Programs \cup {"stream_socket_client"}
Datagrams == {"bgnet_listener", "bgnet_talker", "bgnet_broadcaster"}

Header == 4 + CmdSize + 4 + 4

Part(s, from, n) == SubSeq(s, from + 1, from + n)

\* The bytes held once stores have been made in their order: the last store of a byte counts.
Laid(held, stores) ==
    [j \in 1 .. Len(held) |->
        LET over == {k \in 1 .. Len(stores) : stores[k].at < j /\ j <= stores[k].at + Len(stores[k].bytes)}
        IN  IF over = {} THEN held[j] ELSE stores[Max(over)].bytes[j - stores[Max(over)].at]]

Stored(held, at, bytes) == Laid(held, <<[at |-> at, bytes |-> bytes]>>)

P(order, ch, v) == beej_pack(<<order, ch>>, <<v>>)

------------------------------------------------------------------------------
(* btc_message.c, and the same functions in the two programs. *)

pack_ptl_net_addr(na) == P("<", "Q", na.servs) \o na.ipv \o P(">", "H", na.port)

\* The user agent goes out without its length, a zero of two bytes in its place.
pack_version(v) ==
    P("<", "l", v.vers) \o P("<", "Q", v.servs) \o P("<", "q", v.ttamp)
    \o pack_ptl_net_addr(v.addr_recv) \o pack_ptl_net_addr(v.addr_from)
    \o P("<", "Q", v.nonce) \o P("<", "H", 0) \o v.uagent \o P("<", "l", v.start_height)

pack_btc_message(magic, cmd, checksum, payload) ==
    P("<", "L", magic) \o cmd \o P("<", "L", Len(payload)) \o checksum \o payload

\* build_btc_message: strcpy leaves what memory held behind the command's name.
Command(name, held) == Stored(held, 0, Append(name, 0))

\* Mutated: the length is unpacked after the checksum has been copied.
Bad_Stores(b) ==
    LET L(at) == LE(Value(Part(b, at, 4), "<"), StoreWidth("L"))
    IN  <<[at |-> 0, bytes |-> L(0)],
          [at |-> 4, bytes |-> Part(b, 4, CmdSize)],
          [at |-> 8 + CmdSize, bytes |-> Part(b, 8 + CmdSize, 4)],
          [at |-> 4 + CmdSize, bytes |-> L(4 + CmdSize)]>>

\* The stores of unpack_resp_buf into the fields of struct ptl_msg, without the payload:
\* a field of four bytes is stored as a long, over the one behind it.
Stores(b) ==
    LET L(at) == LE(Value(Part(b, at, 4), "<"), StoreWidth("L"))
    IN  <<[at |-> 0, bytes |-> L(0)],
          [at |-> 4, bytes |-> Part(b, 4, CmdSize)],
          [at |-> 4 + CmdSize, bytes |-> L(4 + CmdSize)],
          [at |-> 8 + CmdSize, bytes |-> Part(b, 8 + CmdSize, 4)]>>

unpack_resp_buf(b, held) == Laid(held, Stores(b))

MsgMagic(m) == Num(Part(m, 0, 4))
MsgCmd(m)   == Part(m, 4, CmdSize)
MsgLen(m)   == Num(Part(m, 4 + CmdSize, 4))
MsgSum(m)   == Part(m, 8 + CmdSize, 4)

build_net_addr == [servs |-> 1, ipv |-> LocalIp, port |-> Port]

\* build_version_payload, up to the packing.
build_version_payload(now) ==
    [vers |-> OwnVers, servs |-> 1, ttamp |-> now, addr_recv |-> build_net_addr,
     addr_from |-> build_net_addr, nonce |-> 0, uagent |-> <<>>, start_height |-> Height]

\* The bytes read_varint reads, the first one among them.
VarintWidth(b) ==
    CASE b < Base - 3 -> 1 [] b = Base - 3 -> 2 [] b = Base - 2 -> 4 [] b = Base - 1 -> 8

\* read_varint: behind a first byte of 0xfd or more it reads the number from that byte on.
read_varint(s, at) ==
    LET b == s[at + 1]
    IN  IF b < Base - 3 THEN b ELSE Num(Part(s, at, VarintWidth(b)))

\* Where a payload has the length of its user agent: behind the version, its services and
\* time, two addresses and the nonce.
UserAgent == 28 + 2 * (8 + IpSize + 2)

\* The fields print_version_payload shows of a buffer, each as bytes.
print_version_payload(s) ==
    LET na  == 8 + IpSize + 2
        len == read_varint(s, UserAgent)
    IN  [vers |-> Part(s, 0, 4), servs |-> Part(s, 4, 8), ttamp |-> Part(s, 12, 8),
         recv |-> Part(s, 20, na), from |-> Part(s, 20 + na, na),
         nonce |-> Part(s, 20 + 2 * na, 8), ua_len |-> Part(s, UserAgent, 2),
         uagent |-> Part(s, UserAgent + 2, len), start_height |-> Part(s, UserAgent + 2 + len, 4)]

\* All it reads is in s: the length of the user agent, the agent, which nobody has limited,
\* with n bytes behind it, and the zero that ends it as a text.
VersionIn(s, n) ==
    /\ Len(s) > UserAgent
    /\ UserAgent + VarintWidth(s[UserAgent + 1]) <= Len(s)
    /\ UserAgent + 2 + read_varint(s, UserAgent) + n <= Len(s)
    /\ \E j \in UserAgent + 3 .. Len(s) : s[j] = 0

------------------------------------------------------------------------------
(* debug_beej_pack.c: a packet is a sequence of items.  An item is a number, or a text     *)
(* behind its length, either with its order or without, and a text may be read with a     *)
(* limit; or it is a character that one of the two functions meets and does not know.  A  *)
(* text is its bytes before the zero that ends it.                                       *)

FormatOf(i) == CASE i.kind = "number" -> Append(i.ord, i.ch) [] i.kind = "text" -> i.ord \o <<"H", "s">>
                 [] i.kind = "packed" -> <<i.ch>> [] i.kind = "read" -> <<>>

BackOf(i) == CASE i.kind = "number" -> Append(i.ord, i.ch) [] i.kind = "text" -> i.ord \o i.lim \o <<"s">>
               [] i.kind = "packed" -> <<>> [] i.kind = "read" -> <<i.ch>>

ArgsOf(i) == CASE i.kind = "number" -> <<i.v>> [] i.kind = "text" -> <<Len(i.v), i.v>> [] OTHER -> <<>>

\* The limit a number in a format stands for.
LimitOf(digits) ==
    LET max[j \in 0 .. Len(digits)] == IF j = 0 THEN 0 ELSE Limit(max[j - 1], digits[j])
    IN  max[Len(digits)]

\* What should be read of an item.
ValuesOf(i) == CASE i.kind = "number" -> <<i.v>>
                 [] i.kind = "text" -> <<SubSeq(i.v, 1, Copied(Len(i.v), LimitOf(i.lim)))>>
                 [] OTHER -> <<>>

\* The parts, one behind the other.
Joint(parts) ==
    LET all[j \in 0 .. Len(parts)] == IF j = 0 THEN <<>> ELSE all[j - 1] \o parts[j]
    IN  all[Len(parts)]

Format(t) == Joint([j \in 1 .. Len(t) |-> FormatOf(t[j])])
Back(t)   == Joint([j \in 1 .. Len(t) |-> BackOf(t[j])])
Args(t)   == Joint([j \in 1 .. Len(t) |-> ArgsOf(t[j])])
Values(t) == Joint([j \in 1 .. Len(t) |-> ValuesOf(t[j])])

\* A floating point number that its field holds; no other is packed as Zero is.
Holds(bits, expbits, v) ==
    /\ v \in [neg : BOOLEAN, frac : 0 .. Bit(Precision) - 1,
              shift : -Bias(expbits) .. Bit(expbits) - 1 - Bias(expbits)]
    /\ (v.frac * Bit(SigBits(bits, expbits))) % Bit(Precision) = 0
    /\ v.neg \/ v.frac # 0 \/ v.shift # -Bias(expbits)

\* v is a value of the C type that is packed as ch.
Typed(v, ch) ==
    /\ ch \in Floats => v = Zero \/ Holds(ByteBits * Width(ch), ExpBits[ch], v)
    /\ ch \in Signed => v \in Int /\ -Space(ch) <= 2 * v /\ 2 * v < Space(ch)
    /\ ch \notin Floats \cup Signed => v \in 0 .. Space(ch) - 1

Item(i) ==
    /\ i.kind \in {"number", "text", "packed", "read"}
    /\ i.ord \in {<<>>, <<"<">>, <<">">>}
    /\ i.kind = "number" => i.ch \in Fields /\ Typed(i.v, i.ch)
    /\ i.kind = "text" => /\ i.v \in Seq(Byte) /\ Len(i.v) < Short
                          /\ i.lim \in Seq({Numeral[d] : d \in 1 .. 10})
    /\ i.kind \in {"packed", "read"} => i.ch \notin Orders \cup Fields \cup {"s"}
    /\ i.kind = "read" => ~Digit(i.ch)

------------------------------------------------------------------------------
(* The values of the constants. *)

\* v is an int32_t or int64_t.
Int32(v) == v \in Int /\ -Long <= 2 * v /\ 2 * v < Long
Int64(v) == v \in Int /\ -Quad <= 2 * v /\ 2 * v < Quad

\* A name leaves room for its zero.
Name(n) == n \in Seq(Byte) /\ Len(n) < CmdSize

\* What checksums are made of.
Payloads == {<<>>} \cup {pack_version(build_version_payload(t)) : t \in Times \cup {FirstTime}}
                  \cup {m.payload : m \in Replies}

ASSUME BtcMessageAssumption ==
    /\ CmdSize \in Nat /\ IpSize \in Nat
    /\ BufSize \in Header .. Long - 1 /\ BufSize <= Base * Short
    /\ MaxAddrs \in Nat \ {0} /\ TextSize \in Nat \ {0}
    /\ Magic \in 0 .. Long - 1
    /\ Name(Names["btc_version"]) /\ Name(Names["btc_verack"])
    /\ \A t \in Times \cup {FirstTime} : Int64(t)
    /\ Int32(OwnVers) /\ Int32(Height) /\ Port \in 0 .. Short - 1
    /\ LocalIp \in Seq(Byte) /\ Len(LocalIp) = IpSize
    /\ Texts \subseteq Seq(Byte)
    /\ \A m \in Replies : m \in [magic : 0 .. Long - 1, name : Seq(Byte), payload : Seq(Byte)] /\ Name(m.name)
    /\ \A s \in Payloads : /\ Len(s) < Long
                          /\ kyk_dble_sha256(s) \in Seq(Byte) /\ Len(kyk_dble_sha256(s)) >= 4
    /\ \A s \in Junk : s \in Seq(Byte) /\ Len(s) = BufSize
    /\ \A t \in Tests : Len(t) \in Nat /\ \A j \in 1 .. Len(t) : Item(t[j])

------------------------------------------------------------------------------
(* The client. *)

NoVersion == [uagent |-> <<>>]

\* What time it is for a program that sends a version.
Clock(p) == IF p = "first_version" THEN {FirstTime} ELSE Times

NoTest == <<>>

Init ==
    /\ junk \in Junk
    /\ \/ prog \in {"btc_version"} \cup Printers
          /\ ver \in {build_version_payload(t) : t \in Clock(prog)}
          /\ pc = "build" /\ test = NoTest
       \/ prog = "btc_verack" /\ ver = NoVersion /\ pc = "build" /\ test = NoTest
       \/ prog \in {"stream_socket_client"} \cup Datagrams /\ ver = NoVersion
          /\ pc = "lookup" /\ test = NoTest
       \/ prog = "debug" /\ ver = NoVersion /\ pc = "pack" /\ test \in Tests
    /\ req = <<>>
    /\ addrs = 0
    /\ reply = <<>>
    /\ wire = <<>>
    /\ closed = FALSE
    /\ nread = 0
    /\ resp = junk
    /\ msg = <<>>
    /\ shown = <<>>
    /\ fields = <<>>

\* What main calls its message, and what is in it.
CommandName == IF prog = "btc_verack" THEN Names["btc_verack"] ELSE Names["btc_version"]
Request     == IF prog = "btc_verack" THEN <<>> ELSE pack_version(ver)

\* build_version_payload, build_btc_message and pack_btc_message.
Build ==
    /\ pc = "build"
    /\ req' = pack_btc_message(Magic, Command(CommandName, Part(junk, 0, CmdSize)),
                               Checksum(Request), Request)
    /\ pc' = "lookup"
    /\ UNCHANGED <<clientVars, addrs, reply, wire, closed, nread, resp, msg, shown>>

\* getaddrinfo.
Lookup ==
    /\ pc = "lookup"
    /\ \/ pc' = "exit" /\ addrs' = 0
       \/ pc' = "connect" /\ addrs' \in 1 .. MaxAddrs
    /\ UNCHANGED <<clientVars, req, reply, wire, closed, nread, resp, msg, shown>>

\* What a program does with its socket.
Opened == CASE prog \in Programs -> "write" [] prog = "bgnet_talker" -> "sendto" [] OTHER -> "recv"

\* Mutated: behind the last address the loop starts again.
Bad_TryAddress ==
    /\ pc = "connect" /\ addrs > 0
    /\ \/ pc' = Opened /\ addrs' = addrs
       \/ pc' = "connect" /\ addrs' = IF addrs = 1 THEN MaxAddrs ELSE addrs - 1
    /\ UNCHANGED <<clientVars, req, reply, wire, closed, nread, resp, msg, shown>>

\* A turn of the loop over the addresses: connect or bind succeeds, or it fails or
\* socket does.
TryAddress ==
    /\ pc = "connect" /\ addrs > 0
    /\ \/ pc' = Opened /\ addrs' = addrs
       \/ pc' = "connect" /\ addrs' = addrs - 1
    /\ UNCHANGED <<clientVars, req, reply, wire, closed, nread, resp, msg, shown>>

CouldNotConnect ==
    /\ pc = "connect" /\ addrs = 0
    /\ pc' = "exit"
    /\ UNCHANGED <<clientVars, req, addrs, reply, wire, closed, nread, resp, msg, shown>>

\* One write, of the whole request or not; a request that does not fit is not sent.
Write ==
    /\ pc = "write"
    /\ pc' \in IF Len(req) + 1 > BufSize THEN {"exit"} ELSE {"recv", "exit"}
    /\ UNCHANGED <<clientVars, req, addrs, reply, wire, closed, nread, resp, msg, shown>>

\* One recv: any part of what has arrived, nothing at the end of the stream, or an error.
Recv ==
    /\ pc = "recv"
    /\ wire # <<>> \/ closed
    /\ \/ \E n \in 0 .. BufSize - 1 :
              /\ n <= Len(wire) /\ (n = 0 => wire = <<>>)
              /\ nread' = n
              /\ resp' = Stored(resp, 0, Part(wire, 0, n))
              /\ wire' = Part(wire, n, Len(wire) - n)
              /\ pc' = "print"
       \/ pc' = "exit" /\ UNCHANGED <<nread, resp, wire>>
    /\ UNCHANGED <<clientVars, req, addrs, reply, closed, msg, shown>>

\* The place of the zero that ends the text in s.
EndOfText(s) == Min({j \in 1 .. Len(s) : s[j] = 0})

\* What has come is shown as a text, up to a zero byte, and then byte by byte.
PrintBody ==
    /\ pc = "print"
    /\ IF \E j \in 1 .. Len(resp) : resp[j] = 0
       THEN /\ shown' = Part(resp, 0, EndOfText(resp) - 1) \o Part(resp, 0, nread)
            /\ pc' = IF prog \in Unpackers THEN "unpack" ELSE "done"
       ELSE shown' = shown /\ pc' = "overrun"
    /\ UNCHANGED <<clientVars, req, addrs, reply, wire, closed, nread, resp, msg>>

\* unpack_resp_buf copies as many bytes as the message says, out of a buffer of BufSize.
Unpack ==
    /\ pc = "unpack"
    /\ \E stores \in {Stores(resp)} : msg' = Laid(Part(junk, 0, Header), stores)
    /\ pc' = IF MsgLen(msg') > BufSize - Header THEN "overrun" ELSE "show"
    /\ UNCHANGED <<clientVars, req, addrs, reply, wire, closed, nread, resp, shown>>

\* Mutated: the payload is all that came.
Bad_Payload == Part(resp, Header, nread - Header)

\* What lies behind the header, as many bytes as the message says.
Payload == Part(resp, Header, MsgLen(msg))

\* pack_btc_message, which in btc_version.c puts its own magic number for the message's.
\* The command, which print_msg_buf shows as a text, ends no later than in the first zero
\* of the length behind it: a length that fits has one.
Show ==
    /\ pc = "show"
    /\ shown' = pack_btc_message(IF prog = "btc_version" THEN Magic ELSE MsgMagic(msg),
                                 MsgCmd(msg), MsgSum(msg), Payload)
    /\ pc' = IF prog = "btc_version" THEN "version" ELSE "done"
    /\ UNCHANGED <<clientVars, req, addrs, reply, wire, closed, nread, resp, msg>>

\* print_version_payload of btc_version.c reads the payload as a version, whatever command
\* came with it, and behind its end what the malloc of unpack_resp_buf has found.
ShowVersion ==
    /\ pc = "version"
    /\ \E pld \in {Payload} : \E buf \in {Stored(held, 0, pld) : held \in Junk} :
           IF VersionIn(buf, 5)
           THEN fields' = print_version_payload(buf) /\ pc' = "done"
           ELSE fields' = fields /\ pc' = "overrun"
    /\ UNCHANGED <<prog, junk, ver, test, req, addrs, reply, wire, closed, nread, resp, msg, shown>>

\* The one recv of stream_socket_client.c, of which the text is shown.
RecvText ==
    /\ pc = "recv"
    /\ wire # <<>> \/ closed
    /\ \/ \E n \in 0 .. TextSize - 1 :
              /\ n <= Len(wire) /\ (n = 0 => wire = <<>>)
              /\ nread' = n
              /\ shown' = Part(wire, 0, n)
              /\ wire' = Part(wire, n, Len(wire) - n)
              /\ pc' = "done"
       \/ pc' = "exit" /\ UNCHANGED <<nread, shown, wire>>
    /\ UNCHANGED <<clientVars, req, addrs, reply, closed, resp, msg>>

\* Mutated: recvfrom is given the whole buffer, with no room for the zero behind the text.
Bad_RecvFrom ==
    /\ pc = "recv"
    /\ reply # <<>>
    /\ \/ /\ nread' = Min({Len(wire), TextSize})
          /\ shown' = Part(wire, 0, nread')
          /\ wire' = <<>>
          /\ pc' = "done"
       \/ pc' = "exit" /\ UNCHANGED <<nread, shown, wire>>
    /\ UNCHANGED <<clientVars, req, addrs, reply, closed, resp, msg>>

\* The one recvfrom of bgnet_listener.c: what does not fit of the datagram is lost.
RecvFrom ==
    /\ pc = "recv"
    /\ reply # <<>>
    /\ \/ /\ nread' = Min({Len(wire), TextSize - 1})
          /\ shown' = Part(wire, 0, nread')
          /\ wire' = <<>>
          /\ pc' = "done"
       \/ pc' = "exit" /\ UNCHANGED <<nread, shown, wire>>
    /\ UNCHANGED <<clientVars, req, addrs, reply, closed, resp, msg>>

\* sendto of bgnet_talker.c, of the text of its command line.
SendTo ==
    /\ pc = "sendto"
    /\ \/ req' \in Texts /\ pc' = "done"
       \/ pc' = "exit" /\ UNCHANGED req
    /\ UNCHANGED <<clientVars, addrs, reply, wire, closed, nread, resp, msg, shown>>

\* bgnet_broadcaster.c, which knows one address and exits at whatever fails.
Broadcast ==
    /\ pc = "lookup"
    /\ \/ req' \in Texts /\ pc' = "done"
       \/ pc' = "exit" /\ UNCHANGED req
    /\ UNCHANGED <<clientVars, addrs, reply, wire, closed, nread, resp, msg, shown>>

\* debug_beej_pack.c.  An item is read with the characters of its own order and width; the
\* program's first trial of a long is not: it packs with "<L" and reads with "L", into a
\* variable of half the width that is stored.
DebugPack ==
    /\ pc = "pack"
    /\ \E fmt \in {Format(test)}, args \in {Args(test)} : req' = beej_pack(fmt, args)
    /\ pc' = "done"
    /\ UNCHANGED <<clientVars, addrs, reply, wire, closed, nread, resp, msg, shown>>

------------------------------------------------------------------------------
(* The node, which has the request once it is written, and the text programs' peers. *)

ReplyBytes(m) ==
    pack_btc_message(m.magic, Command(m.name, [j \in 1 .. CmdSize |-> 0]), Checksum(m.payload), m.payload)

\* It answers, with nothing or a verack behind its answer.
NodeReplies ==
    /\ pc = "recv" /\ prog \in Programs /\ reply = <<>> /\ ~closed
    /\ \E m \in Replies, verack \in BOOLEAN :
           /\ reply' = <<m>>
           /\ wire' = ReplyBytes(m) \o
                  IF verack THEN ReplyBytes([magic |-> m.magic, name |-> Names["btc_verack"], payload |-> <<>>])
                  ELSE <<>>
    /\ UNCHANGED <<clientVars, pc, req, addrs, closed, nread, resp, msg, shown>>

\* What a text program waits for: the text stream_socket_server.c sends, or a datagram.
TextSent ==
    /\ pc = "recv" /\ prog \notin Programs /\ reply = <<>> /\ ~closed
    /\ \E text \in Texts : reply' = <<text>> /\ wire' = text
    /\ UNCHANGED <<clientVars, pc, req, addrs, closed, nread, resp, msg, shown>>

\* The connection ends; stream_socket_server.c ends it after its text, or when it could
\* not send it.
NodeCloses ==
    /\ pc = "recv" /\ prog \in Streams /\ ~closed
    /\ closed' = TRUE
    /\ UNCHANGED <<clientVars, pc, req, addrs, reply, wire, nread, resp, msg, shown>>

Ended == pc \in {"exit", "overrun", "done"} /\ UNCHANGED vars

Connecting == Lookup \/ TryAddress \/ CouldNotConnect

MessageClient ==
    prog \in Programs
    /\ (Build \/ Connecting \/ Write \/ Recv \/ PrintBody \/ Unpack \/ Show \/ ShowVersion)
StreamClient  == prog = "stream_socket_client" /\ (Connecting \/ RecvText)
Listener      == prog = "bgnet_listener" /\ (Connecting \/ RecvFrom)
Talker        == prog = "bgnet_talker" /\ (Connecting \/ SendTo)
Broadcaster   == prog = "bgnet_broadcaster" /\ Broadcast

Client == MessageClient \/ StreamClient \/ Listener \/ Talker \/ Broadcaster \/ DebugPack

Next == Client \/ NodeReplies \/ TextSent \/ NodeCloses \/ Ended

\* The client runs; nobody makes the node answer.
Spec == Init /\ [][Next]_vars /\ WF_vars(Client)

------------------------------------------------------------------------------
(* Properties *)

\* The type invariant.
TypeOK ==
    /\ pc \in {"build", "lookup", "connect", "write", "sendto", "recv", "print", "unpack", "show",
               "version", "pack", "exit", "overrun", "done"}
    /\ addrs \in 0 .. MaxAddrs
    /\ nread \in 0 .. (IF prog \in Programs THEN BufSize ELSE TextSize) - 1
    /\ \A s \in {req, wire, resp, msg, shown} : s \in Seq(Byte)
    /\ Len(resp) = BufSize

\* This repository's reader of a message finds in the request the command, whatever memory
\* held behind its name, and as many bytes behind the header as the header says and has a
\* checksum of, a whole version among them of which print_version_payload, which skips two
\* bytes for the length of the user agent as pack_version writes two, shows what was put in.
RequestReads ==
    pc = "lookup" /\ prog \in Programs =>
        LET m       == unpack_resp_buf(req, Part(junk, 0, Header))
            payload == Part(req, Header, Len(req) - Header)
            v       == print_version_payload(payload)
        IN  /\ MsgMagic(m) = Magic
            /\ Part(MsgCmd(m), 0, Len(CommandName) + 1) = Append(CommandName, 0)
            /\ MsgLen(m) = Len(payload)
            /\ MsgSum(m) = Checksum(payload)
            /\ prog # "btc_verack" =>
                   /\ beej_unpack(v.vers, <<"<", "l">>).args = <<ver.vers>>
                   /\ beej_unpack(v.ttamp, <<"<", "q">>).args = <<ver.ttamp>>
                   /\ beej_unpack(Part(v.from, 8 + IpSize, 2), <<">", "H">>).args = <<ver.addr_from.port>>
                   /\ v.uagent = ver.uagent
                   /\ beej_unpack(v.start_height, <<"<", "l">>).args = <<ver.start_height>>

\* The client has the node's message whole: recv has brought all of it, and it fits.
Whole == /\ reply # <<>>
         /\ nread >= Header + Len(reply[1].payload)
         /\ Header + Len(reply[1].payload) <= BufSize

\* What a client that unpacks shows is the node's message to the byte, without what came
\* behind it, although every number is stored over the field behind it.  btc_verack does so
\* with every whole message; btc_version, which then reads any payload as a version in a
\* buffer of BufSize, ends and shows the fields of the version when there is one in the
\* payload, user agent and all, and says nothing of one the agent's length leads out of.
\* A client that does not unpack finds the end of its text no later than in the zero behind
\* the command's name, and shows the message to the byte after that text.  A text that fits
\* comes whole in a datagram, and in a stream as the first recv found it.
ShowsReply ==
    /\ prog \in Unpackers /\ pc \in {"done", "overrun"} /\ Whole =>
           shown = ReplyBytes([reply[1] EXCEPT !.magic = IF prog = "btc_version" THEN Magic ELSE @])
    /\ prog = "btc_verack" /\ pc \in {"done", "overrun"} /\ Whole => pc = "done"
    /\ prog = "btc_version" /\ pc \in {"done", "overrun"} /\ Whole
       /\ VersionIn(reply[1].payload, 4) =>
           pc = "done" /\ fields = print_version_payload(reply[1].payload)
    /\ prog \in Printers /\ pc \in {"done", "overrun"} /\ Whole =>
           LET text == Len(shown) - nread
               sent == ReplyBytes(reply[1])
           IN  /\ pc = "done"
               /\ text \in 0 .. 4 + CmdSize
               /\ Part(shown, 0, text) = Part(sent, 0, text)
               /\ Part(shown, text, Len(sent)) = sent
    /\ prog \notin Programs /\ pc = "done" /\ reply # <<>> =>
           /\ nread < TextSize /\ shown = Part(reply[1], 0, nread)
           /\ prog = "bgnet_listener" /\ Len(reply[1]) < TextSize => shown = reply[1]

\* Either every number of more than a byte has its order before it, or none has.
OwnOrders(t) ==
    \/ \A j \in 1 .. Len(t) :
           t[j].kind = "text" \/ (t[j].kind = "number" /\ Width(t[j].ch) > 1) => t[j].ord # <<>>
    \/ \A j \in 1 .. Len(t) : t[j].kind \in {"number", "text"} => t[j].ord = <<>>

\* A packet reads back, to its last byte, as the numbers packed when each has its own
\* order, because beej_pack forgets the order after every number and beej_unpack keeps
\* it, and as the strings when their lengths were packed before them.
PacketReadsBack ==
    prog = "debug" /\ pc = "done" /\ OwnOrders(test) =>
        LET u == beej_unpack(req, Back(test))
        IN  u.args = Values(test) /\ u.at = Len(req)

\* The client ends, unless the node keeps silent.
ClientEnds ==
    <>(pc \in {"exit", "overrun", "done"}) \/ <>[](pc = "recv" /\ wire = <<>> /\ ~closed)
==============================================================================
