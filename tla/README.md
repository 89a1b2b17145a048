# A verification project for block7days

`block7days` is a study implementation of parts of Bitcoin in C: a client and an
echo server that speak the wire protocol, serialisers and parsers for
transactions and blocks, the P2PKH script interpreter, Merkle trees, addresses
and a miner for a private genesis block. The code lives in several directories,
each of which repeats most of the previous one; `src/protocols/kyk_block/` is the
newest and most complete copy, and file names and line numbers used here refer to
it unless another path is given.

This directory holds TLA+ models of that code, TLC configurations that check
them on small instances and TLAPS proofs about them. `PROJECT.json` maps every
definition to the lines it models and lists components, runs, mutants, hazards,
findings and theorems.

## Inventory

| Component | State | Operations | Hard behaviours | What makes it correct |
|---|---|---|---|---|
| Echo server and clients (`btc_echo.c`, `kyk_socket.c`, `btc_message.c`) | listening socket and its queue, one process and one connection per client, receive buffer and counters of each child, pending SIGCHLD | connect, write, one recv; accept, fork, close; receive loop, format, send, exit; reap | processes interleave, the stream arrives in arbitrary pieces, accept, fork, send and recv fail, clients end early, signals merge | an answer is the text of exactly the message sent; the receive buffer is not overrun; no descriptor or zombie is kept; who is not hit by a fault is answered |
| Script interpreter (`kyk_script.c`) | array of pointers, `top` and `hgt`, heap | push, DUP, HASH160, EQUALVERIFY, CHECKSIG, end | two counters moved apart, items freed and pushed again, unchecked depth | memory is used as C defines it; a spending script passes exactly for the right key and signature; what is copied of its key is the key's |
| Merkle tree (`kyk_mkl_tree.c`) | linked levels of nodes | leaves from transactions or txids, parent level, root | odd levels, a list of one, two byte orders | the root is the Merkle root, however the leaves were made, and the loop ends |
| Header and miner (`kyk_block.c`, `kyk_difficulty.c`, `kyk_hash_nonce.c`) | header, header buffer, nonce | serialise, target of a `bts`, hash and compare, next nonce | nonce packed behind fields packed once, wrap-around, equality | the header serialised later meets its target, with the first nonce that does |
| Block file reader (`parse_block.c`, `varint.c`) | file position, end-of-file flag, one block struct, header pointer | read a word, a hash, a varint; skip; print | reads that write more than their field, end of file cleared by seeks, old bytes in a counter | every block of the file is printed whole and in order; the loop ends |
| Genesis block program (`kyk_gens_block.c`) | block file, its stream, transaction, tree, header | open, make transaction, tree, header, mine, write, close | failing calls nobody checks, kills, runs after killed runs, old stack | a whole block on the disk commits to its transaction and is mined; the same key gets the same block |
| Genesis transaction program (`kyk_gens_tx.c`) and those around it (`kyk_tx0.c`, `kyk_exe_p2pkh_sc_test.c`, `pem_to_address.c`, `kyk_address_test.c`, `kyk_make_address_test.c`, `kyk_ecdsa_test.c`, `kyk_sc_pubkey_test.c`) | key, address, script, transaction, file | read a key, make an address, a script and a transaction, show a txid | a key shorter than its buffer, a PEM file that cannot be read, texts of the wrong size, byte orders | the file, parsed, pays the key it was given; a txid shown leads to its transaction |
| Varints (`varint.c`, `src/btc_client.c`, the parsers) | none | pack, unpack, read | lengths at 0xfd, 2^16, 2^32; byte order; no bound of the buffer | unpack inverts pack; the four readers and writers agree |
| Binary packing (`beej_pack.c`) | none | pack and unpack by format | byte-order switches, widths, strings without a length, rounding | unpack inverts pack for formats with an order for every field or none |
| Message codec (`btc_message.c`, `btc_version.c`) | message and payload buffers | pack, unpack, build and print version messages | fields stored over their neighbours, command padding, a length that is not sent | the codec's own reader reads the request; what is shown is the node's message to the byte |
| Version and verack clients (`btc_version.c` in `protocols`, `btc_version` and `kyk_block`, `btc_verack.c`, their `kyk_socket.c`) | socket, response buffer | look up, connect, write, one recv | each address tried once, an answer in pieces or none, two messages in one recv, every answer read as a version, with a length inside that the node chose | the client ends unless the node keeps silent, and shows a message it has whole; a text shown ends within its buffer |
| Transaction serialisation (`kyk_tx.c`, `kyk_ser.c`) | none | serialise by struct or by column | counts and lengths of two kinds, byte order of each field, the sequence number in another order | both serialisers write the same, and a parser reads it |
| Transaction parsers (`src/parse_tx*.c`, `src/parse_txin*.c`, `src/parse_txout*.c`) | file position, growing structs | read one part after another | each depends on the lengths read before; a script is read, gone back over and parsed | they read what the serialiser writes, to the end, within their arrays |
| Base58 and addresses (`kyk_base58.c`, `kyk_address.c`, the first part of `kyk_script.c`) | none | encode, decode, checksum, script of an address | leading zeros, failures passed on as lengths | an address made is read as the same hash; a mistyped one pays nobody else |
| Hashes, signatures, utilities (`kyk_sha.c`, `kyk_ecdsa.c`, `kyk_utils.c`) | none | wrappers of OpenSSL, hexadecimal text | orders of bytes, text of odd or wrong length | text is read as the bytes written |
| Text clients (`stream_socket_client.c`, `bgnet_*.c`) | socket, buffer | connect or bind, one recv | the stream in pieces, a datagram that does not fit | what is shown is a beginning of the text, all of it for a datagram that fits |
| Experiments with C, older copies | none of their own | | | |

How they interact: a client's message goes through the message codec into a
socket and through the echo server back as text, or to a node of the network whose
answer goes back through the codec. The genesis programs call the address and
script makers for their transaction, the serialiser, the Merkle tree for the root,
the miner for the nonce and the header serialiser for the file; the transaction
parsers read what the serialiser wrote, and the block file reader reads files of the
network's blocks, which carry the magic number and size that the genesis program
leaves out. Only the echo server runs several processes; the clients race with their
peer; everything else is sequential, and its difficulty lies in memory, byte order,
boundaries and failures that are ignored.

## Modules

| Module | Models |
|---|---|
| `EchoService` | abstract: a client that has asked gets the text of its message, once |
| `BtcEcho` | parent, SIGCHLD handler, children and clients of the echo server |
| `BtcEchoRefinement` | the mapping of `BtcEcho` to `EchoService` |
| `KykScript` | `kyk_run_sc` and its operators |
| `KykMklTree` | the Merkle tree, with the reference tree as an assumption on a constant |
| `KykMklTreeTest` | the seven programs that build a tree and show it; extends `KykMklTree` |
| `KykHashNonce` | `kyk_hsh_nonce`, `kyk_bts2target`, header serialisation |
| `KykBlockTest` | the programs that show a header's target, difficulty and hash; extends `KykHashNonce` |
| `KykParseBlk` | `main` of `parse_block.c` and what it calls |
| `KykGensBlock` | the genesis program, composed of `KykMklTree` (an instance) and `KykHashNonce` (extended) |
| `Bytes` | bytes and little-endian and big-endian numbers, for a byte of `Base` values |
| `KykUtils` | hexadecimal text; extends `Bytes` |
| `KykTx` | varints and both serialisers; extends `KykUtils` |
| `ParseTx` | the seven parsers over a file that a serialiser wrote; extends `KykTx` |
| `KykSha` | how the library's hashes are composed; extends `Bytes` |
| `KykAddress` | Base58, addresses and their scripts; extends `KykTx` and `KykSha` |
| `KykGensTx` | the genesis transaction program and those around it, composed of `KykAddress` and `ParseTx` |
| `BeejPack` | packing and unpacking by format; extends `Bytes` |
| `BtcMessage` | the message codec, the clients and a node; extends `BeejPack` and `KykSha` |
| `BtcEchoProofs`, `KykScriptProofs`, `KykMklTreeProofs`, `KykParseBlkProofs`, `KykGensTxProofs`, `BtcMessageProofs` | theorems and proofs of one component each |
| `KykGensBlockProofs` | theorems and proofs of the miner, the programs around a header and the genesis program |
| `BytesProofs` | lemmas for those proofs: induction, functions defined by recursion, sequences, and the bytes of numbers; extends `Bytes` |
| `MCBtcEcho`, `MCKykScript`, `MCKykMklTree`, `MCKykHashNonce`, `MCKykParseBlk`, `MCKykGensBlock`, `MCKykGensTx`, `MCBtcMessage` | instances for TLC |

Definitions named `Bad_...` are mutated forms of the definition that follows
them, each with a comment saying what the mutation is. Nothing uses them; put in
the place of the original, each makes a named property fail.

### Echo server (`BtcEcho`)

A client run, its connection and the child forked for it are one element of
`Clients`. The parent's program counter `ppc` is at `accept`, `fork` or `close`
(btc_echo.c:96-128), a child's `kpc` at the close of the listener, the receive
loop, the send and the close, then `zombie` until the handler reaps it. Bytes
are units: the message of a client is the sequence of its unit numbers, so that
a lost, repeated or misplaced unit shows. A recv takes any non-empty part of what
is in the stream. The receive loop is as in the code: the length field is taken
once it is complete (`LengthDue`), the loop ends when `recv_size` is not below the
length plus the header, and a recv of 0 changes nothing (`ChildRecvEof`), which is
what leaves a child in the loop when its client ended early (`StrandedStays`). The
handler may interrupt the parent anywhere; a SIGCHLD that comes while one is
pending is lost, as on Unix. `MaxFaults` bounds how many clients may be hit by
failures of accept, fork, send, recv, write or by a death.

### Script interpreter (`KykScript`)

A script is its sequence of operations; a push carries its bytes as one value.
Pointers are numbered as malloc returns them. An action is stated only for a defined
step; `MemorySafe` says that every step is: the operands are allocated, the slot
written lies in the array, and freeing the stack frees each item once. Of an item its
bytes are one value and its size (`Size`) a number. `kyk_ec_sig_verify` copies 33
bytes of the public key whatever the size of its item (kyk_ecdsa.c:76), and reads past
a shorter one: a hash, or a text that is no key. The copy is not used, so the step is
followed; `MemorySafe` says that a script that spends with a key of `KeySize` bytes or
more copies bytes of the key (`KeyInItem`), and says nothing of the copy in any other
script. `hgt` and `top` are kept apart as in the code. `DepthAssumption` is the
caller's obligation that nothing in the code checks: no operation finds too few items
and no push finds the array full.

### Merkle tree (`KykMklTree`)

`levels` holds every level in the order of allocation, each with its number and
the level below; `pnt` is the local of `create_mkl_tree`. Node bodies are kept
reversed and turned back for hashing, as in `kyk_hash_mkltree_node`. The reference
is not built by levels: `Merkle[s][h][j]` is node `j` at height `h`, standing for
2^h transactions from j * 2^h on, and hashes the two nodes below it, or the first
twice when the second stands for none (`MerkleAssumption`, which TLC evaluates).
`KykMklTreeTest` puts a test program around it: how many transactions it has, whether
its leaves are made of buffers or of txids, and what it shows. `lv` walks down the
`dwn` pointers as `kyk_print_mkl_tree` does.

### Miner (`KykHashNonce`)

`buf` is the header buffer: the fields other than the nonce are packed before the
loop, the nonce in every round. `SeriRest` is the serialisation of those fields,
with the two hashes turned. The nonce wraps at `NonceMod`, the uint32_t's range.
`bts` is a number whose top byte is the exponent. `KykBlockTest` runs that loop inside
`block_nonce_test.c` and `kyk_hsh_nonce`, and adds what is shown: `kyk_bts2dlt` divides
rounding up, keeps 32 bits and divides by zero for a target of zero.

### Block file reader (`KykParseBlk`)

Memory is one cell for each field, in the order of the structs. `beej_unpack` stores
an `unsigned long`, eight bytes on the 64-bit builds of the makefile, so a word read
through `Unpack` also clobbers the cell behind its own; the read of the size clobbers
the header pointer, which is set after it. `kyk_varint_fread` reads into part of an
eight-byte counter, whose other bytes stay. `AtEnd` reads return nothing and set
`eof`; `Seek` clears it. Behind the end of the file a failing read unpacks again what
its field holds, and stores the zeros of the upper half behind it. So the size is
zero, and the seek goes back and leads into the middle of a block (`Lost`); from there
any bytes may be read, except that the loop still counts. `BlockBehindTheEnd` follows
that round: the seek that clears the indicator, and the block of zeros printed with
the last block's magic number.

### Genesis program (`KykGensBlock`)

The tree is an instance of its module and the miner's module is extended, so that
`hd`, `buf`, `hs`, `pc` and `first` are the miner's own; their steps are steps of
`MakeTree` and `Mine`.  Here `vars`, `Init` and `TypeOK` are the miner's, `gensVars`,
`GensInit` and `GensTypeOK` the program's. A transaction is the key it pays. `out` is
the buffer of the stream, which reaches the disk at `fclose` or not at all when the
process dies; a full disk takes a part. A key below 2^248 leaves bytes of the stack in
`priv` although its PEM file is read (kyk_gens_block.c:184): a run with such a key
reaches the states of `CreateTxWithoutPem`, and `SameBlockAgain` compares the blocks
that pay one key. `Rerun` starts the program again with an arbitrary stack.

### Transactions (`Bytes`, `KykUtils`, `KykTx`, `ParseTx`)

A byte has `Base` values, and a number of `n` bytes is packed by its digits, so that a
byte of eight values has every change of width within numbers TLC can count to. A
transaction is the struct of `kyk_tx.h`. `SeriTx` joins its parts in the order of
`kyk_seri_tx`; `TxColumns` are the calls of `kyk_tx_inc_ser` a program makes, one
column each, with the scripts as text. Each parser is the list of its reads
(`Text[prog]`); an action is one read, `Needs` says how many bytes it takes, and
`rest` is the file from the place the stream is at. A read past the end (`EndOfFile`)
or past an array (`OverrunCoinbase`, `OverrunStack`) is recorded in `fault`, and what
happens after it is not followed. `Readable` says which transactions a parser is able to
take apart; it is a condition on the transaction alone.

### Addresses and the genesis transaction (`KykSha`, `KykAddress`, `KykGensTx`)

Base58 is between numbers of any size, with the leading zeros apart, as in the code. A
character is its place in the alphabet and may be none. `raw_decode_base58` and its
callers are one operator whose result is "good", "bad" or "crash". `KykGensTx`
follows a key from the PEM file (`Filled`: `BN_bn2bin` writes from the first byte that is
not zero, and the rest of `priv` is what the stack held) to the address, the script,
the file and, with the actions of `ParseTx`, to what the last of the parsers shows. The
programs around it start at another stage of the same way. `kyk_gens_tx.c` is the same
file in the directories `kyk_gens_tx` and `kyk_block`.

### Messages (`BeejPack`, `BtcMessage`)

`beej_pack` and `beej_unpack` are folds over a format with the byte order as state:
the packer goes back to the network's order after every number, the unpacker keeps the
last order it was told. A floating point number is its sign, its fraction and its
exponent, rounded and biased as `pack754` does. A packet of `debug_beej_pack.c` is a
sequence of items, from which come the format it is packed with (`Format`), the
arguments (`Args`), the format it is read with (`Back`) and what should be read
(`Values`): a number with its order or without one, a text behind its length, read
with or without a limit, or a character only one side meets and neither knows. A
struct is the sequence of its bytes, and `Stores` are the stores of `unpack_resp_buf`
in their order and in the width they really have. The client is one process with its
steps in `pc`; the node answers once, in one or two messages, whole, in part, late or
not at all, and may close the connection at any time. The clients print what has come
as a text, which ends at the first zero byte, and then byte by byte (`PrintBody`);
reading a buffer that has no zero byte leaves it. The first and the last of the three
`btc_version.c` end there; the middle one, like `btc_verack.c`, unpacks the answer and
packs it again. The middle one goes on to read the payload as a version, whatever the
message is (`ShowVersion`): it stands in a buffer of 1024 bytes over what malloc left
there, and the length of the user agent is the peer's, or what is left in the buffer
behind a short payload. `VersionIn` says that this reading stays within the buffer;
when it does not, the program is in "overrun", and `ShowsReply` says for which answers
that is excluded. `RequestReads` reads the request with the repository's own
`print_version_payload`, which skips two bytes where the packer writes two for an
empty user agent; a node that takes the length of the user agent for a varint of one
byte would find the height shifted by one. The text programs and `debug_beej_pack.c`
are further values of `prog`.

## Runs

| Run | Instance | What it shows |
|---|---|---|
| `echo_safety` | two interchangeable clients, header of four units with a length field of two, payloads of 0, 2 and 3 units (3 is too long for the client), queue of one, one fault | the answers, the receive buffer, the descriptors and the dead children are right in every interleaving and chunking |
| `echo_live` | as above with smaller messages, fair | every client no fault hits is answered, clients end, zombies are reaped, stranded children stay, and the whole implements `EchoService` with its liveness |
| `script` | every script of up to four operations within four items, and 72 spending scripts with right, wrong and short keys, array of five | memory, leaks and the verdict |
| `merkle_tree` | every list of up to five of three transactions, one of each length up to twenty, and the seven programs with up to 777 | the tree is the reference tree, by either way of making leaves, and every program ends having shown that tree |
| `hash_nonce` | seven nonces, eight targets from zero on, any start, any buffer, four programs | the first fitting nonce is found, the header serialised later meets the target, what is shown of a header goes together, and a program ends if its header can be mined |
| `parse_blk` | files of up to three blocks, counters of one, two, four and eight bytes, 0 to 4 asked for | blocks whole and in order, the header pointer good, a block of zeros behind the last one and not an end of file, the loop ends |
| `parse_blk_counter_doc` | the same | expected violation: a short counter keeps upper bytes of the one before |
| `gens_block` | two runs, three keys, three nonces, kills and failures anywhere | what is on the disk is consistent, runs agree, a run ends if its header can be mined |
| `gens_block_saved_doc` | the same | expected violation: "saved ... successfully" without a block on the disk |
| `gens_block_pem_doc` | the same | expected violation: without the PEM file a block for a key of the old stack is saved |
| `gens_tx` | transactions with scripts, counts and values on both sides of each boundary, from both serialisers, through seven parsers; five keys, some 3,400 typed addresses, the texts of a transaction | what is written is read, an address taken pays the hash it stands for, and a file pays the key it was made for |
| `message` | two clients that unpack an answer and two that show it as it comes, nine answers with something or nothing behind them, among them versions of another node whose user agent fits or leads out of the buffer, every length of a recv, two contents of memory, two addresses; the text programs; packets of one field of every format and of pairs, with the extreme values, of texts with and without a limit, and with a character one side does not know | the request is read, what is shown is the node's message and, of a version that fits, its fields, packets read back, and a client ends unless the node keeps silent |

### Why the bounds are enough

* Two clients: the children share nothing with one another but descriptors
  inherited from the parent, signals and the queue, and each of these needs two
  of them to go wrong: two deaths merge into one signal, a second client waits
  while the first is served or lost. The queue of one is full with one waiting.
  The length field spans two units so that it can be received in halves, and the
  buffer is as small as leaves one message that just fits and one that is too
  long. The theorems remove these bounds.
* Scripts of four operations contain every pair of operators after every way to
  set up their operands; the spending scripts, seven or eight operations, are in
  the instance besides. The theorems remove these bounds too.
* Twenty transactions make trees of one to six levels with odd levels at every
  height, alone and one above the other; 777 is what the longest program has.
* Seven nonces contain starts before and after the fitting one, wraps, hashes
  equal to the target before smaller ones, and headers nothing fits.
* Three blocks make a first, a middle and a last one; the counters lie on both
  sides of each change of varint length, in a byte of eight values.
* A byte of eight values has its varint tags at 5, 6 and 7, so a script of six bytes has
  a length of three bytes. There are scripts of no, one, two and more opcodes, pushes that
  are cut off, a script longer than the array of a stack or the text of a coinbase, and
  counts of inputs and outputs of 0, 1, 2 and 5. The theorems remove these bounds.
* Typed addresses are every text of up to four characters, with a character outside
  the alphabet or none, the address of every key, longer texts that begin like one, and
  texts too long to be one; the keys have leading zeros or none.
* Messages are shorter than, as long as and longer than the response buffer, and one recv
  brings every part of each. Every field is packed with its least and greatest value,
  those next to the sign bit, and after a field of the other byte order. The theorems
  remove these bounds.
* Two runs of the genesis program are a killed run and the run after it.

### Deadlock

Every run checks for deadlock; each system has a step of its own for having
ended (`Idle`, `Returned`, `Closed`, `Over`, `Exited`, `Ended`, `AllEnded`).

### Fairness

Echo server: weak fairness of the parent, the handler, each child and each
client. The operating system schedules every process that can run, delivers what
is in a stream and signals that are pending. Failures and deaths are in no fair
action: nothing has to fail. A recv on an empty stream of a live client is not
enabled, so nothing is assumed of a client that does not write. The sequential
programs are fair in their one step relation, as a process that can run is run;
nobody has to kill the genesis program or to run it again.

## Proofs

The theorems hold for every value of the constants that satisfies the named
assumptions; no theorem uses an unproved fact.

* `BtcEchoProofs`, for any number of clients, sizes, queue length and number of
  faults (`SizesAssumption`, `LensAssumption`, `ListenerAssumption`): the inductive
  invariant `IInv` adds to the properties `QueueInv` (each connection is in the
  queue once and never after it was accepted, so a child is forked for it once)
  and `LoopInv` (a child's place in its loop determines what it has read and
  whether it knows the length). Without the first a second child could share a
  connection; without the second nothing ties the end of the loop to the end of
  the message. From it: `TypeCorrect`, `AnswerCorrect`, `BodyCorrect`,
  `DescriptorsCorrect`, `ZombiesCorrect`, and `Refinement`: initial states and
  steps map to those of `EchoService`. `StrandedCorrect`, an action property, goes
  through the actions from a state of the invariant: none but a failing recv
  takes a stranded child out of its loop, because its stream stays empty and its
  count stays below the length of the message.
* `KykScriptProofs` (`ValuesAssumption`, `DepthAssumption`): `StackInv` says that
  `top`, `hgt` and the depth of the script agree and that the items are allocated
  and different. `SpendInv` says, for each position in a spending script of any length,
  what the items are; `SpendVerdict` follows. `MemoryCorrect` needs both: the first for
  slots and frees, the second for what CHECKSIG copies of a key.
  `LeakCorrect` counts the items: those allocated are those on the stack and two for
  each operation that pops and does not free, operator by operator.
* `KykMklTreeProofs` (`DigestAssumption`, `InputsAssumption`, `MerkleAssumption`):
  each level equals the reference at its height, node by node, and links to all of
  the level below. `RootCorrect` and `ConnectedCorrect` follow for every hash
  function and list. `TestsMakeTrees` shows that every behaviour of a test program is one
  of the tree, so that the root it shows is right (`TestRootCorrect`).
* `KykGensBlockProofs`, the miner (`BaseAssumption`, `HeaderAssumption`): what is
  packed, what is hashed, what is accepted and which nonces were tried in vain.
  `MinedCorrect` and `FirstNonceCorrect` follow for every hash function, target and
  width of nonce. `TestsMine` shows that a program around a header does with it what
  the miner does; `HashShownCorrect` adds the hash that is shown, and `ShownCorrect`
  the difficulty (`MaxTargetAssumption`): a power of the byte is a natural and not
  zero, so a target is zero exactly when its mantissa is, and a quotient rounded up is
  the least number whose product with the target reaches the greatest one. Rounding
  and the 32 bits that are kept are in the statement, not left out of it.
* `KykParseBlkProofs` (`FilesAssumption`): where the stream is before each statement
  and which fields memory holds by then, in the file, right behind it and after that.
  `OrderCorrect`, `PointerCorrect` and `EndCorrect` follow for every file of whole
  blocks and every `-n`. For the last the invariant has, statement by statement behind
  the end, which fields hold the zeros of a failed read and whether the indicator is
  set: it is before the skip, and is not after it. `TypesCorrect` rests on it, since
  only who knows the place knows that no seek goes before the file's beginning.
* `KykGensBlockProofs`, the genesis program (`KeysAssumption` besides): the invariant
  follows the root from the tree through the header and the miner's buffer to the
  stream and the disk, with the nonces tried before. `BlockCommitsCorrect` follows,
  and `SameBlockAgainCorrect`, since the first nonce is one. `TypesCorrect` takes the
  types of the tree and the miner through the composition.
* `BytesProofs` (`BaseAssumption`): the induction theorems of the library take an
  operator, which the provers cannot be given. With a set in the operator's place
  induction follows from the least element of a set of naturals; and a function
  defined by recursion exists, solves its equation and has values of the type each
  step gives (`StepSolution`, `StepSolves`, `StepType`). The powers of a byte, the
  value of a sequence of digits, the list of what a parser has read, the state of the
  packer after each character of a format and the joint of the items of a packet are
  such functions. A number is its low byte and the rest (`Split`), and what is left
  after `n` bytes of a number of `n` bytes is zero (`NoMore`); so a word that is
  written is read (`Word`), and bytes that are read as a number are those it is
  written as (`WordWritten`).
* `KykGensTxProofs`, for a byte of any number of values, transactions, keys, typed texts
  and hash functions, in five parts:
    * Numbers (`BaseAssumption`, `HexAssumption`): from the lemmas of `BytesProofs`,
      `VarintRead` for every number of eight bytes in front of any others, `VarintWidth`
      for the function that was written a second time, and `HexRead` for both readers of
      hexadecimal text. Between two bases,
      `NumberOfDigits` and `DigitsOfNumber` say that digits and number determine each
      other, but for zeros in front.
    * Addresses (`AddressAssumption`, `ZerosAssumption`): `AddressMade` (an address that
      is made is read as its hash, with any zeros in front of it) and
      `AddressTaken` (one that is taken is the address of the hash it is taken for).
      `ZerosAssumption` is needed because a text of ones with a wrong character
      behind them is decoded as nothing but zeros.
    * Serialised parts (`HashSizeAssumption`, `ParseTxAssumption`): each field of a
      transaction is at its place among the bytes and is found there by the read that
      is meant for it, with anything behind it.
    * Parsers: `Typing` types the variables of each parser by what it has read so far.
      `Following` says, for each read, where the stream is (`Place`), what the fields and
      finished lists show (`Fields`, `Listed`) and how far into a script an opcode
      scan has come (`Scanned`). Without the place a read says nothing about a
      field; without `Scanned` nothing ends the scan at the end of the script.
      It is stated under `Readable`, so it holds of transactions a parser can
      take apart, and also says that no read leaves the file or an array.
    * Programs (`GensTxAssumption`, `HashAssumption`): `AllInv` adds how the file came to be.
      `Opened` says that the file before the first read is what `kyk_seri_tx` writes,
      `Keyed` ties what the buffer holds to the key, `Addressed` the address and the
      script to the buffer, and `Owned` the file and the txid to the script. Each is
      needed by the next: the file is compared with the key, and only these say that
      the buffer, the address and the script still stand for it. `AllTypeCorrect`,
      `AllReadsBackCorrect`, `TakenAddressPaysCorrect` and `PaysOwnerCorrect`, the four
      properties of `gens_tx`, follow. TLC agreed that `AllInv` is an invariant of that
      run's instance before it was proved.
* `BtcMessageProofs`, for every memory, answer, text and packet (`BaseAssumption`,
  `BitsAssumption`, `BtcMessageAssumption`), from the bytes up:
    * Stores: `LaidIs` says which store of several a byte is left with, and `UnpackIs`
      that the stores of `unpack_resp_buf`, each number over the field behind it, leave
      the header as it came, because each field is stored before the one behind it.
      `MessageIs` and `VersionIs` give the place of every field in what is packed.
    * Fields: `IntegerBack`, by the sign bit and either byte order, and `FloatBack`, by
      the parts of the significand that `pack754` puts under the exponent; together
      `FieldBack`.
    * Clients: the inductive invariant `IInv` adds to `TypeOK` what a program has started
      with (`Started`), that the request is what was packed (`Asked`), who can have an
      answer and when (`Answered`), that the stream begins with the whole answer until
      recv (`Arriving`) and `resp_buf` after it if that brought all of it (`Arrived`), and
      what has been made of the buffer by each program (`Handled`, `Told`). Each carries
      the answer one step further; without `Arrived` nothing says that the length
      unpacked from the buffer is the one of the node's message. `Handled` also has the
      reasons for which a client has left a buffer: a buffer without a zero byte, a
      length that does not fit, a version that leads out of its buffer. The first is
      excluded for a whole answer because its length has a zero byte (`WholeEnds`), the
      last because a version inside its payload is read the same in a longer
      buffer (`VersionKept`). `RequestIsRead`,
      `ReplyIsShown` and `TypeCorrect` follow. For a client that prints, `PrinterShows`
      finds the end of the text no later than in the zero behind the command's name.
    * Packets of any number of items: what `beej_pack` makes of a packet is the joint of
      what it makes of each item (`PackItem`, `PacketIs`), and `beej_unpack` comes to an
      item at the place where its bytes begin (`UnpackItem`, `PacketBack`). The orders the
      two hold there are not the same, since the packer forgets its order after every
      number and the unpacker keeps it; they agree on each field if every number has an
      order of its own or none has, which is the condition of `PacketReadsBack`
      (`OwnOrders`). `PacketIsRead` follows.

  TLC agreed that `IInv` is an invariant of the instance of `message` before it was
  proved.

Why the code justifies what is assumed: bytes have 256 values and hexadecimal text 16
digits (`BaseAssumption`, `HexAssumption`); the counts in `kyk_tx.h` are integers of
at most 64 bits (`ParseTxAssumption`); the hash in an address has 20 bytes, which one
opcode can push, and its script five entries where the array of the parser has 100
(`GensTxAssumption`); SHA-256 and RIPEMD-160 have results of one size for everything
(`HashAssumption`), and the checksum of 21 zeros is known (`ZerosAssumption`). A byte
has eight bits, and a float's exponent and sign leave room in its field for the rest
(`BitsAssumption`). In `BtcMessageAssumption`, the response buffer of 1024 bytes holds
the header of 24, and a length of four bytes that fits it is below 2^24, so that its
last byte is zero; versions and heights are `int32_t`, times `int64_t`, the port an
`uint16_t`; `strcpy` of "version" and "verack", and of the names a node uses, leaves a
zero in the twelve bytes of a command; a payload's length has four bytes, and its
checksum is the first four of a hash of 32. The numbers a packet is made of are those
of the C type of their field; a text is shorter than 2^16, as its length is packed in
two bytes; and a floating point number is one its field holds exactly, since any other
is rounded, and not the one other than zero that is packed as zeros (`Holds`). Every
assumption is evaluated on the instances of the runs.

Only model-checked: liveness, as the prover does not do it (`UnhurtAnswered`,
`ClientsFinish`, `ZombiesReaped`, the liveness of `ImplementsService`,
`TreePrinted`, `MinesIfPossible`, `Ends`, `RunEnds`, `ClientEnds`). Every invariant and
every action property that a passing run checks has a theorem.

## Findings

* parse_block.c:135 reads a counter of fewer than eight bytes into part of an
  uninitialised or old one, which is printed.
* kyk_gens_block.c:81 reports success before the block has left the buffer, and
  the result of `fclose` is not looked at.
* kyk_gens_block.c:139 ignores that the PEM file could not be read and goes on with
  an uninitialised key.

## Not modelled

* Start-up of the server: socket, bind and listen either work or end it. The
  parent is not restarted: it keeps nothing that a new one would find. errno is saved
  and restored in the handler around calls whose result does not depend on it. An
  accept that fails because the process is out of descriptors leaves the queue as it
  was.
* The bytes that two calls store past the variable they are given, since an unpacked
  `L` is eight bytes: `read_pld_len` (kyk_socket.c:153-161) into its local of four,
  and the read of the nonce (parse_block.c:99) into the last field of the 80 bytes
  malloc'd at :82. The values are right and nothing that is shown is touched; what the
  stores hit is not followed.
* In `debug_beej_pack.c`, what lines 50-57 do besides: a number packed with `<` and read
  without, and words stored into narrower variables. The items of a packet are read in the
  order they were packed with.
* Pushes cut off at the end of a script that is run, and scripts that break
  `DepthAssumption`: reading beyond a buffer is undefined.
* An empty transaction list, for which `create_mkl_tree` never returns.
* `bts` with an exponent below 3.
* Block files that end within a block; 32-bit builds, where `unsigned long` has
  four bytes; `parse_block` without `-n`, which reads a NULL pointer.
* What a parser or a client does after it has read past the end of its file or left a
  buffer; the texts of addresses, ports and times that are shown.
* Cryptography: hashes and public keys are arbitrary functions, the verification of a
  signature an arbitrary relation, and making a signature is left out.
* `debug_hashblock.c`, which calls `kyk_dble_sha256` with one argument of its two and
  does not compile; `parse_tx0.c`, `src/btc_client.c` but for its varints, and the
  select server, which are earlier or other programs; the experiments with C, and the
  scripts in Ruby and Python. Older copies of a file are not modelled again, except
  where a program of their directory is. `beej_pack.c`, `varint.c`, `kyk_address.c`,
  `btc_message.c` and other helpers stand unchanged in several directories: a
  definition stands for all such copies.

## Plan

Done, in this order, the most intricate first: the echo server with its abstract
service and refinement; the script interpreter; the Merkle tree; the miner; the
block file reader; the genesis program as the composition of tree and miner; varints,
both serialisers and the parsers that read them back; addresses and the programs that
go from a key to a file; packing, the message codec and its clients; the programs that
show trees and headers; and, for each of them, theorems of every safety property its runs
check.

Next:

1. The echo server with three clients and two faults, as far as its states can be
   counted.
2. A script that is run being the bytes that the serialiser writes: the interpreter
   composed with `KykGensTx`, over scripts as bytes.
