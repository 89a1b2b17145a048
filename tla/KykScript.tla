------------------------------ MODULE KykScript ------------------------------
(***************************************************************************)
(* The script interpreter of kyk_script.c: kyk_run_sc and the operators it  *)
(* calls, on a fixed array of items that point into the heap.               *)
(*                                                                         *)
(* A script is the sequence of its operations; a constant is one operation  *)
(* with the bytes it pushes.  buf is an array of pointers, a pointer is the *)
(* number of the malloc that returned it, heap[p] the bytes behind it and   *)
(* live the pointers not yet freed.  top is the index of the top item; 0 is *)
(* both the NULL of init_sc_stack and the buf-1 that pops leave behind,     *)
(* since a push goes to the first slot from either.                        *)
(*                                                                         *)
(* The interpreter checks nothing: reading below the stack, writing above   *)
(* it, and reading or freeing memory already freed are undefined in C.  The *)
(* actions are stated for defined steps only, and MemorySafe says that      *)
(* there is always one.  One undefined read is let pass: CHECKSIG copies 33 *)
(* bytes of the public key's item whatever its size, into an array that     *)
(* nothing reads, and MemorySafe says which scripts keep it in the item.    *)
(***************************************************************************)
EXTENDS Integers, Sequences, FiniteSets

CONSTANTS Values,    \* the byte strings scripts push
          Size,      \* how many bytes each of them has
          KeySize,   \* what kyk_ec_sig_verify copies of a public key (33)
          Hash160,   \* kyk_dgst_hash160, as a function on Values
          SigVerify, \* kyk_ec_sig_verify: <<sig, pubkey>> to -1, 0 or 1
          BufSize,   \* KYK_SC_STACK_BUF_SIZE (20)
          Scripts,   \* the scripts that are run
          Depth      \* the stack depth of each script after each operation

Ops == [op : {"push"}, val : Values] \cup [op : {"dup", "hash160", "equalverify", "checksig", "other"}]

\* What an operation needs on the stack, and by how much it changes it.
Needs(o) == CASE o.op \in {"push", "other"} -> 0
              [] o.op \in {"dup", "hash160"} -> 1
              [] o.op \in {"equalverify", "checksig"} -> 2

Effect(o) == CASE o.op \in {"push", "dup"} -> 1
               [] o.op \in {"hash160", "other"} -> 0
               [] o.op \in {"equalverify", "checksig"} -> -2

ASSUME ValuesAssumption ==
    /\ Size \in [Values -> Nat]
    /\ KeySize \in Nat
    /\ Hash160 \in [Values -> Values]
    /\ SigVerify \in [Values \X Values -> {-1, 0, 1}]
    /\ BufSize \in Nat \ {0}
    /\ Scripts \subseteq Seq(Ops)

\* The caller's obligation, which the code leaves unchecked: no operation of a
\* script finds too few items and no push finds the array full.
ASSUME DepthAssumption ==
    \A s \in Scripts :
        /\ Depth[s][0] = 0
        /\ \A i \in 1 .. Len(s) :
            /\ Needs(s[i]) <= Depth[s][i - 1]
            /\ Depth[s][i] = Depth[s][i - 1] + Effect(s[i])
            /\ Depth[s][i] <= BufSize

VARIABLES sc,      \* the script
          pc,      \* how many of its operations have run (count, sc)
          buf,     \* stk.buf: the pointers of the items
          top,     \* stk.top
          hgt,     \* stk.hgt
          heap,    \* the bytes behind each pointer ever allocated
          live,    \* the pointers that are allocated now
          code,    \* what the last verifying operator returned
          verdict  \* of kyk_run_sc: "running", "fails" (it returns 0) or "passes" (1)

vars == <<sc, pc, buf, top, hgt, heap, live, code, verdict>>

------------------------------------------------------------------------------
\* 76 A9 14 <hash> 88 AC
BuildP2pkh(hash) == << [op |-> "dup"], [op |-> "hash160"], [op |-> "push", val |-> hash],
                       [op |-> "equalverify"], [op |-> "checksig"] >>

\* kyk_combine_sc copies one script after the other.
CombineSc(scSig, scPubk) == scSig \o scPubk

\* Mutated: init_sc_stack leaves hgt as it finds it on the C stack.
Bad_Init ==
    /\ sc \in Scripts
    /\ pc = 0
    /\ buf = [i \in 1 .. BufSize |-> 0]
    /\ top = 0
    /\ hgt \in {0, BufSize + 1}
    /\ heap = <<>>
    /\ live = {}
    /\ code = 1
    /\ verdict = "running"

Init ==
    /\ sc \in Scripts
    /\ pc = 0
    /\ buf = [i \in 1 .. BufSize |-> 0] \* no pointer yet
    /\ top = 0
    /\ hgt = 0
    /\ heap = <<>>
    /\ live = {}
    /\ code = 1
    /\ verdict = "running"

\* The next operation is o, and kyk_run_sc moves past it.
Fetch(o) ==
    /\ verdict = "running"
    /\ pc < Len(sc)
    /\ o = sc[pc + 1]
    /\ pc' = pc + 1
    /\ UNCHANGED sc

\* kyk_sc_stack_push of the bytes v, on a stack whose top is at t.
PushAt(t, v) ==
    /\ t < BufSize
    /\ heap' = Append(heap, v)
    /\ buf' = [buf EXCEPT ![t + 1] = Len(heap) + 1]
    /\ top' = t + 1

\* The item at depth d below the top can be read.
Readable(d) == top - d \in 1 .. BufSize /\ buf[top - d] \in live

Item(d) == heap[buf[top - d]]

\* free_sc_stack frees hgt items downwards from the item at t.
FreeStack(t, h) ==
    LET slots == t - h + 1 .. t
    IN  /\ slots \subseteq 1 .. BufSize
        /\ {buf[i] : i \in slots} \subseteq live
        /\ Cardinality({buf[i] : i \in slots}) = h
        /\ live' = live \ {buf[i] : i \in slots}
        /\ top' = t - h

\* A constant of 0x01 .. 0x4b bytes.
PushConst ==
    /\ \E v \in Values :
        /\ Fetch([op |-> "push", val |-> v])
        /\ PushAt(top, v)
    /\ live' = live \cup {Len(heap) + 1}
    /\ hgt' = hgt + 1
    /\ UNCHANGED <<code, verdict>>

\* Mutated: the copy shares the bytes of the item below it.
Bad_OpDup ==
    /\ Fetch([op |-> "dup"])
    /\ Readable(0) /\ top < BufSize
    /\ buf' = [buf EXCEPT ![top + 1] = buf[top]]
    /\ top' = top + 1
    /\ hgt' = hgt + 1
    /\ UNCHANGED <<heap, live, code, verdict>>

\* kyk_sc_op_dup pushes a copy of the bytes of the top item.
OpDup ==
    /\ Fetch([op |-> "dup"])
    /\ Readable(0)
    /\ PushAt(top, Item(0))
    /\ live' = live \cup {Len(heap) + 1}
    /\ hgt' = hgt + 1
    /\ UNCHANGED <<code, verdict>>

\* Mutated: the popped item is not freed.
Bad_OpHash160 ==
    /\ Fetch([op |-> "hash160"])
    /\ Readable(0)
    /\ PushAt(top - 1, Hash160[Item(0)])
    /\ live' = live \cup {Len(heap) + 1}
    /\ UNCHANGED <<hgt, code, verdict>>

\* kyk_sc_op_hash160 pops the top item, frees it and pushes its hash.
OpHash160 ==
    /\ Fetch([op |-> "hash160"])
    /\ Readable(0)
    /\ PushAt(top - 1, Hash160[Item(0)])
    /\ live' = (live \ {buf[top]}) \cup {Len(heap) + 1}
    /\ UNCHANGED <<hgt, code, verdict>>

\* kyk_sc_cmpitem on the two top items.
ItemsEqual == Item(0) = Item(1)

\* kyk_sc_op_eq_verify: equal items are popped (and never freed), different
\* ones stay and end the run, which frees the whole stack.
OpEqualVerify ==
    /\ Fetch([op |-> "equalverify"])
    /\ Readable(0) /\ Readable(1)
    /\ \/ /\ ItemsEqual
          /\ top' = top - 2
          /\ hgt' = hgt - 2
          /\ code' = 1
          /\ UNCHANGED <<live, verdict>>
       \/ /\ ~ItemsEqual
          /\ FreeStack(top, hgt)
          /\ code' = 0
          /\ verdict' = "fails"
          /\ UNCHANGED hgt
    /\ UNCHANGED <<buf, heap>>

\* Mutated: public key and signature are taken in the other order.
Bad_CheckedSig == SigVerify[<<Item(0), Item(1)>>]

\* The top item is the public key, the one below it the signature.
CheckedSig == SigVerify[<<Item(1), Item(0)>>]

\* kyk_sc_op_checksig pops both items (and never frees them) whatever the
\* result, pushes nothing, and a result below 1 ends the run.  Of an item shorter
\* than KeySize kyk_ec_sig_verify reads on behind its bytes: undefined in C, and
\* without effect here, since the copy is not looked at again (see KeyInItem).
OpCheckSig ==
    /\ Fetch([op |-> "checksig"])
    /\ Readable(0) /\ Readable(1)
    /\ code' = CheckedSig
    /\ hgt' = hgt - 2
    /\ \/ /\ CheckedSig = 1
          /\ top' = top - 2
          /\ UNCHANGED <<live, verdict>>
       \/ /\ CheckedSig < 1
          /\ FreeStack(top - 2, hgt - 2)
          /\ verdict' = "fails"
    /\ UNCHANGED <<buf, heap>>

\* "Invalid Op Code": the run ends and the stack is not freed.
InvalidOp ==
    /\ Fetch([op |-> "other"])
    /\ verdict' = "fails"
    /\ UNCHANGED <<buf, top, hgt, heap, live, code>>

\* The end of the script: the stack is freed and 1 returned, whatever was on it.
Finish ==
    /\ verdict = "running"
    /\ pc = Len(sc)
    /\ FreeStack(top, hgt)
    /\ verdict' = "passes"
    /\ UNCHANGED <<sc, pc, buf, hgt, heap, code>>

\* kyk_run_sc has returned.
Returned == verdict # "running" /\ UNCHANGED vars

Next ==
    \/ PushConst \/ OpDup \/ OpHash160 \/ OpEqualVerify \/ OpCheckSig \/ InvalidOp
    \/ Finish \/ Returned

Spec == Init /\ [][Next]_vars

------------------------------------------------------------------------------
(* Properties *)

\* The type invariant.
TypeOK ==
    /\ sc \in Scripts
    /\ pc \in 0 .. Len(sc)
    /\ buf \in [1 .. BufSize -> Nat]
    /\ top \in 0 .. BufSize
    /\ hgt \in 0 .. BufSize
    /\ heap \in Seq(Values)
    /\ live \subseteq 1 .. Len(heap)
    /\ code \in {-1, 0, 1}
    /\ verdict \in {"running", "fails", "passes"}

\* The two items of the stack an operation reads, and the slot it writes.
OperandsDefined(o) ==
    /\ Needs(o) >= 1 => Readable(0)
    /\ Needs(o) >= 2 => Readable(1)
    /\ o.op \in {"push", "dup"} => top < BufSize

\* Every pointer free_sc_stack would free now is allocated and freed once: top,
\* which the operators move, agrees with hgt, which they count.
FreeDefined ==
    /\ top - hgt + 1 .. top \subseteq 1 .. BufSize
    /\ \A i \in top - hgt + 1 .. top : buf[i] \in live
    /\ \A i, j \in top - hgt + 1 .. top : buf[i] = buf[j] => i = j

\* sc is a scriptSig that only pushes, its last two items sig and pubkey, followed
\* by the pay-to-pubkey-hash script of hash.
Spends(sig, pubkey, hash) ==
    \E n \in 2 .. Len(sc) :
        /\ Len(sc) = n + 5
        /\ \A i \in 1 .. n : sc[i].op = "push"
        /\ sc[n - 1].val = sig /\ sc[n].val = pubkey
        /\ SubSeq(sc, n + 1, n + 5) = BuildP2pkh(hash)

\* The copy of the public key that an operation takes stays within the top item.
KeyInItem(o) == o.op = "checksig" => Size[Item(0)] >= KeySize

\* A script that keeps its depth within bounds never makes the interpreter use a
\* slot outside buf, an item that was freed, or free an item twice.  The code
\* holds no check of its own: it rests on DUP copying, on HASH160 freeing what it
\* popped, and on top and hgt moving together in every operator.  In a spending
\* script CHECKSIG, which takes 33 bytes of whatever item is on top, takes them from
\* the public key, so that a key of 33 bytes or more is enough; of any other script
\* that runs CHECKSIG nothing is said about this copy.
MemorySafe ==
    verdict = "running" =>
        /\ FreeDefined
        /\ pc < Len(sc) =>
            /\ OperandsDefined(sc[pc + 1])
            /\ \A sig, pubkey, hash \in Values :
                  Spends(sig, pubkey, hash) /\ Size[pubkey] >= KeySize => KeyInItem(sc[pc + 1])

\* The operations run that take items off the stack without freeing them.
Popped == {i \in 1 .. pc : sc[i].op \in {"equalverify", "checksig"}}

\* Memory is accounted for: what is allocated beyond the stack is two items for
\* each EQUALVERIFY and CHECKSIG that has run, and when the run returns after
\* freeing the stack nothing else is left (a failed EQUALVERIFY pops nothing).
LeakAccounted ==
    LET failed == verdict = "fails" /\ sc[pc].op = "equalverify"
        lost   == 2 * (Cardinality(Popped) - IF failed THEN 1 ELSE 0)
    IN  CASE verdict = "running" -> Cardinality(live) = top + lost
          [] verdict = "fails" /\ sc[pc].op = "other" -> Cardinality(live) = top + lost
          [] OTHER -> Cardinality(live) = lost

\* kyk_run_sc returns 1 for a spending script exactly when the public key hashes
\* to the hash of the script and the signature verifies under it, whatever was
\* pushed before them: operand order, the order of the checks and the stack
\* left behind by each operator all matter.
SpendCorrect ==
    \A sig, pubkey, hash \in Values :
        Spends(sig, pubkey, hash) /\ verdict # "running" =>
            (verdict = "passes" <=> /\ Hash160[pubkey] = hash
                             /\ SigVerify[<<sig, pubkey>>] = 1)
==============================================================================
