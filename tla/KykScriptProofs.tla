--------------------------- MODULE KykScriptProofs ---------------------------
(***************************************************************************)
(* Proofs about KykScript: for every script that keeps its depth within the *)
(* stack array the interpreter is memory safe, and for every spending       *)
(* script its verdict is the one pay-to-pubkey-hash promises.               *)
(***************************************************************************)
EXTENDS KykScript, SequenceTheorems, FiniteSetTheorems, TLAPS

\* While the script runs, top and hgt are the depth of what has run, and the
\* items of the stack are allocated and distinct.
StackInv ==
    verdict = "running" =>
        /\ top = Depth[sc][pc] /\ hgt = top
        /\ \A i \in 1 .. top : buf[i] \in live
        /\ \A i, j \in 1 .. top : buf[i] = buf[j] => i = j

\* The operation fetched is an operation, and the assumption gives its depths.
LEMMA Fetched ==
    ASSUME TypeOK, NEW o, Fetch(o)
    PROVE  /\ o \in Ops /\ sc' = sc /\ pc' = pc + 1 /\ pc' \in 0 .. Len(sc) /\ pc + 1 \in 1 .. Len(sc)
           /\ o = sc[pc + 1] /\ verdict = "running"
           /\ Needs(o) <= Depth[sc][pc]
           /\ Depth[sc][pc'] = Depth[sc][pc] + Effect(o)
           /\ Depth[sc][pc'] <= BufSize
  <1>1. sc \in Scripts /\ sc \in Seq(Ops) /\ Len(sc) \in Nat /\ pc \in 0 .. Len(sc) /\ pc < Len(sc)
    BY ValuesAssumption DEF TypeOK, Fetch, ValuesAssumption
  <1>2. pc + 1 \in 1 .. Len(sc) /\ sc[pc + 1] \in Ops /\ (pc + 1) - 1 = pc
    BY <1>1, LenProperties
  <1>3. QED
    BY <1>1, <1>2, DepthAssumption DEF Fetch, DepthAssumption

\* A push allocates the next pointer and leaves every other slot and byte alone.
LEMMA PushEffect ==
    ASSUME TypeOK, NEW t \in 0 .. BufSize, NEW v \in Values, PushAt(t, v)
    PROVE  /\ t < BufSize /\ top' = t + 1
           /\ heap' \in Seq(Values) /\ Len(heap') = Len(heap) + 1 /\ Len(heap) \in Nat
           /\ heap'[Len(heap) + 1] = v
           /\ \A p \in 1 .. Len(heap) : heap'[p] = heap[p]
           /\ buf' \in [1 .. BufSize -> Nat]
           /\ buf'[t + 1] = Len(heap) + 1
           /\ \A i \in 1 .. BufSize : i # t + 1 => buf'[i] = buf[i]
  <1>1. heap \in Seq(Values) /\ Len(heap) \in Nat /\ buf \in [1 .. BufSize -> Nat] /\ BufSize \in Nat
    BY LenProperties, ValuesAssumption DEF TypeOK, ValuesAssumption
  <1>2. t + 1 \in 1 .. BufSize /\ t < BufSize
    BY <1>1 DEF PushAt
  <1>3. QED
    BY <1>1, <1>2, AppendProperties DEF PushAt

\* Init establishes the types and the stack invariant.
LEMMA InitIInv == Init => TypeOK /\ StackInv
  <1> SUFFICES ASSUME Init PROVE TypeOK /\ StackInv
    OBVIOUS
  <1>1. sc \in Scripts /\ sc \in Seq(Ops) /\ Len(sc) \in Nat /\ Depth[sc][0] = 0
    BY ValuesAssumption, DepthAssumption DEF Init, ValuesAssumption, DepthAssumption
  <1>2. heap \in Seq(Values) /\ Len(heap) = 0
    BY DEF Init
  <1>3. TypeOK
    BY <1>1, <1>2, ValuesAssumption DEF Init, TypeOK, ValuesAssumption
  <1>4. StackInv
    BY <1>1 DEF Init, StackInv
  <1>5. QED
    BY <1>3, <1>4

\* Freeing the stack only lowers top and takes pointers out of live.
LEMMA FreeEffect ==
    ASSUME TypeOK, NEW t \in 0 .. BufSize, NEW h \in 0 .. BufSize, FreeStack(t, h)
    PROVE  top' \in 0 .. BufSize /\ live' \subseteq live
  <1>1. BufSize \in Nat /\ t - h + 1 .. t \subseteq 1 .. BufSize
    BY ValuesAssumption DEF FreeStack, ValuesAssumption
  <1>2. CASE h = 0
    BY <1>1, <1>2 DEF FreeStack
  <1>3. CASE h > 0
    <2>1. t - h + 1 \in t - h + 1 .. t
      BY <1>1, <1>3
    <2>2. t - h + 1 \in 1 .. BufSize
      BY <1>1, <2>1
    <2>3. QED
      BY <1>1, <2>2 DEF FreeStack
  <1>4. QED
    BY <1>2, <1>3

\* A set of pointers and the next pointer.
LEMMA NextPointer ==
    ASSUME NEW n \in Nat, NEW S, S \subseteq 1 .. n
    PROVE  S \cup {n + 1} \subseteq 1 .. n + 1
  <1>1. \A p \in S : p \in 1 .. n + 1
    <2> TAKE p \in S
    <2>1. p \in 1 .. n
      OBVIOUS
    <2>2. QED
      BY <2>1
  <1>2. QED
    BY <1>1

\* A pushed item is allocated and shares its bytes with no other item.
LEMMA Grown ==
    ASSUME TypeOK, StackInv,
           NEW o, Fetch(o), Effect(o) = 1,
           NEW v \in Values, PushAt(top, v),
           live' = live \cup {Len(heap) + 1}, hgt' = hgt + 1, UNCHANGED <<code, verdict>>
    PROVE  TypeOK' /\ StackInv'
  <1>1. /\ sc' = sc /\ pc' \in 0 .. Len(sc) /\ verdict = "running"
        /\ Depth[sc][pc'] = Depth[sc][pc] + 1
    BY Fetched
  <1>2. BufSize \in Nat /\ top \in 0 .. BufSize /\ live \subseteq 1 .. Len(heap)
    BY ValuesAssumption DEF TypeOK, ValuesAssumption
  <1>3. /\ top = Depth[sc][pc] /\ hgt = top
        /\ \A i \in 1 .. top : buf[i] \in live
        /\ \A i, j \in 1 .. top : buf[i] = buf[j] => i = j
    BY <1>1 DEF StackInv
  <1>4. /\ top < BufSize /\ top' = top + 1
        /\ heap' \in Seq(Values) /\ Len(heap') = Len(heap) + 1 /\ Len(heap) \in Nat
        /\ buf' \in [1 .. BufSize -> Nat] /\ buf'[top + 1] = Len(heap) + 1
        /\ \A i \in 1 .. BufSize : i # top + 1 => buf'[i] = buf[i]
    BY <1>2, PushEffect
  <1>5. TypeOK'
    <2>1. top' \in 0 .. BufSize /\ hgt' \in 0 .. BufSize
      BY <1>2, <1>3, <1>4
    <2>2. live' \subseteq 1 .. Len(heap')
      BY <1>2, <1>4, NextPointer
    <2>3. QED
      BY <1>1, <1>4, <2>1, <2>2 DEF TypeOK
  <1>6. \A i \in 1 .. top : i \in 1 .. BufSize /\ i # top + 1 /\ buf'[i] = buf[i] /\ buf'[i] # Len(heap) + 1
    <2> TAKE i \in 1 .. top
    <2>1. i \in 1 .. BufSize /\ i # top + 1
      BY <1>2
    <2>2. buf'[i] = buf[i] /\ buf[i] \in 1 .. Len(heap)
      BY <1>2, <1>3, <1>4, <2>1
    <2>3. QED
      BY <1>4, <2>1, <2>2
  <1>7. \A i \in 1 .. top' : buf'[i] \in live'
    <2> TAKE i \in 1 .. top'
    <2>1. i \in 1 .. top \/ i = top + 1
      BY <1>2, <1>4
    <2>2. QED
      BY <1>3, <1>4, <1>6, <2>1
  <1>8. \A i, j \in 1 .. top' : buf'[i] = buf'[j] => i = j
    <2> TAKE i, j \in 1 .. top'
    <2>1. (i \in 1 .. top \/ i = top + 1) /\ (j \in 1 .. top \/ j = top + 1)
      BY <1>2, <1>4
    <2>2. QED
      BY <1>3, <1>4, <1>6, <2>1
  <1>9. QED
    BY <1>1, <1>3, <1>4, <1>5, <1>7, <1>8 DEF StackInv

\* PUSH preserves the types and the stack invariant.
LEMMA PushConstStep == TypeOK /\ StackInv /\ PushConst => TypeOK' /\ StackInv'
  <1> SUFFICES ASSUME TypeOK, StackInv, PushConst PROVE TypeOK' /\ StackInv'
    OBVIOUS
  <1>1. PICK v \in Values : Fetch([op |-> "push", val |-> v]) /\ PushAt(top, v)
    BY DEF PushConst
  <1>2. Effect([op |-> "push", val |-> v]) = 1
    BY DEF Effect
  <1>3. QED
    BY <1>1, <1>2, Grown DEF PushConst

\* DUP preserves the types and the stack invariant.
LEMMA OpDupStep == TypeOK /\ StackInv /\ OpDup => TypeOK' /\ StackInv'
  <1> SUFFICES ASSUME TypeOK, StackInv, OpDup PROVE TypeOK' /\ StackInv'
    OBVIOUS
  <1>1. Effect([op |-> "dup"]) = 1
    BY DEF Effect
  <1>2. Item(0) \in Values
    BY LenProperties DEF OpDup, TypeOK, Readable, Item
  <1>3. QED
    BY <1>1, <1>2, Grown DEF OpDup

\* HASH160 preserves the types and the stack invariant: the pushed item takes the
\* slot of the one that was freed.
LEMMA OpHash160Step == TypeOK /\ StackInv /\ OpHash160 => TypeOK' /\ StackInv'
  <1> SUFFICES ASSUME TypeOK, StackInv, OpHash160 PROVE TypeOK' /\ StackInv'
    OBVIOUS
  <1> DEFINE o == [op |-> "hash160"]
  <1>1. Fetch(o) /\ Effect(o) = 0 /\ Readable(0) /\ PushAt(top - 1, Hash160[Item(0)])
    BY DEF OpHash160, Effect
  <1>2. /\ sc' = sc /\ pc' \in 0 .. Len(sc) /\ verdict = "running"
        /\ Depth[sc][pc'] = Depth[sc][pc] + Effect(o)
    BY <1>1, Fetched
  <1>3. Depth[sc][pc] = top /\ Depth[sc][pc'] = Depth[sc][pc] + 0
    BY <1>1, <1>2 DEF StackInv
  <1>4. BufSize \in Nat /\ top \in 1 .. BufSize /\ live \subseteq 1 .. Len(heap) /\ buf[top] \in live
    BY <1>1, ValuesAssumption DEF TypeOK, ValuesAssumption, Readable
  <1>5. Hash160[Item(0)] \in Values
    BY <1>1, LenProperties, ValuesAssumption DEF TypeOK, Readable, Item, ValuesAssumption
  <1>6. /\ top' = top
        /\ heap' \in Seq(Values) /\ Len(heap') = Len(heap) + 1 /\ Len(heap) \in Nat
        /\ buf' \in [1 .. BufSize -> Nat] /\ buf'[top] = Len(heap) + 1
        /\ \A i \in 1 .. BufSize : i # top => buf'[i] = buf[i]
    <2>1. top - 1 \in 0 .. BufSize /\ (top - 1) + 1 = top
      BY <1>4
    <2>2. QED
      BY <1>1, <1>5, <2>1, PushEffect
  <1>7. live' = (live \ {buf[top]}) \cup {Len(heap) + 1} /\ UNCHANGED <<hgt, code, verdict>>
    BY DEF OpHash160
  <1>8. TypeOK'
    <2>1. live \ {buf[top]} \subseteq 1 .. Len(heap)
      BY <1>4
    <2>2. live' \subseteq 1 .. Len(heap')
      BY <1>6, <1>7, <2>1, NextPointer
    <2>3. QED
      BY <1>2, <1>4, <1>6, <1>7, <2>2 DEF TypeOK
  <1>9. /\ hgt = top
        /\ \A i \in 1 .. top : buf[i] \in live
        /\ \A i, j \in 1 .. top : buf[i] = buf[j] => i = j
    BY <1>2 DEF StackInv
  <1>10. \A i \in 1 .. top : i # top => /\ buf'[i] = buf[i] /\ buf'[i] # buf[top]
                                         /\ buf'[i] # Len(heap) + 1 /\ buf'[i] \in live
    <2> SUFFICES ASSUME NEW i \in 1 .. top, i # top
                 PROVE  /\ buf'[i] = buf[i] /\ buf'[i] # buf[top]
                        /\ buf'[i] # Len(heap) + 1 /\ buf'[i] \in live
      OBVIOUS
    <2>1. i \in 1 .. BufSize /\ top \in 1 .. top
      BY <1>4
    <2>2. buf'[i] = buf[i] /\ buf[i] \in live /\ buf[i] # buf[top]
      BY <1>6, <1>9, <2>1
    <2>3. buf[i] \in 1 .. Len(heap)
      BY <1>4, <2>2
    <2>4. QED
      BY <1>6, <2>2, <2>3
  <1>11. \A i \in 1 .. top : buf'[i] \in live'
    BY <1>6, <1>7, <1>10
  <1>12. \A i, j \in 1 .. top : buf'[i] = buf'[j] => i = j
    BY <1>6, <1>9, <1>10
  <1>13. top' = Depth[sc'][pc'] /\ hgt' = top'
    BY <1>2, <1>3, <1>4, <1>6, <1>7, <1>9
  <1>14. QED
    BY <1>6, <1>8, <1>11, <1>12, <1>13 DEF StackInv

\* An operator that pops two items and lets the run go on keeps both.
LEMMA Shrunk ==
    ASSUME TypeOK, StackInv,
           NEW o, Fetch(o), Effect(o) = -2,
           top' = top - 2, hgt' = hgt - 2, Readable(1), code' \in {-1, 0, 1},
           UNCHANGED <<buf, heap, live, verdict>>
    PROVE  TypeOK' /\ StackInv'
  <1>1. /\ sc' = sc /\ pc' \in 0 .. Len(sc) /\ verdict = "running"
        /\ Depth[sc][pc'] = Depth[sc][pc] - 2
    BY Fetched
  <1>2. BufSize \in Nat /\ top \in 0 .. BufSize /\ top' \in 0 .. BufSize
    BY ValuesAssumption DEF TypeOK, ValuesAssumption, Readable
  <1>3. /\ top = Depth[sc][pc] /\ hgt = top
        /\ \A i \in 1 .. top : buf[i] \in live
        /\ \A i, j \in 1 .. top : buf[i] = buf[j] => i = j
    BY <1>1 DEF StackInv
  <1>4. TypeOK'
    BY <1>1, <1>2, <1>3 DEF TypeOK
  <1>5. \A i \in 1 .. top' : i \in 1 .. top
    BY <1>2
  <1>6. QED
    BY <1>1, <1>2, <1>3, <1>4, <1>5 DEF StackInv

\* EQUALVERIFY preserves the types and the stack invariant.
LEMMA OpEqualVerifyStep == TypeOK /\ StackInv /\ OpEqualVerify => TypeOK' /\ StackInv'
  <1> SUFFICES ASSUME TypeOK, StackInv, OpEqualVerify PROVE TypeOK' /\ StackInv'
    OBVIOUS
  <1>1. Fetch([op |-> "equalverify"]) /\ Effect([op |-> "equalverify"]) = -2 /\ Readable(1)
    BY DEF OpEqualVerify, Effect
  <1>2. CASE ItemsEqual
    BY <1>1, <1>2, Shrunk DEF OpEqualVerify
  <1>3. CASE ~ItemsEqual
    <2>1. FreeStack(top, hgt) /\ code' = 0 /\ verdict' = "fails" /\ UNCHANGED <<hgt, buf, heap>>
      BY <1>3 DEF OpEqualVerify
    <2>2. top' \in 0 .. BufSize /\ live' \subseteq live
      BY <2>1, FreeEffect DEF TypeOK
    <2>3. sc' = sc /\ pc' \in 0 .. Len(sc)
      BY <1>1, Fetched
    <2>4. QED
      BY <2>1, <2>2, <2>3 DEF TypeOK, StackInv
  <1>4. QED
    BY <1>2, <1>3

\* CHECKSIG preserves the types and the stack invariant.
LEMMA OpCheckSigStep == TypeOK /\ StackInv /\ OpCheckSig => TypeOK' /\ StackInv'
  <1> SUFFICES ASSUME TypeOK, StackInv, OpCheckSig PROVE TypeOK' /\ StackInv'
    OBVIOUS
  <1> DEFINE o == [op |-> "checksig"]
  <1>1. Fetch(o) /\ Effect(o) = -2 /\ Readable(0) /\ Readable(1)
    BY DEF OpCheckSig, Effect
  <1>2. code' \in {-1, 0, 1}
    <2>1. Item(0) \in Values /\ Item(1) \in Values
      BY <1>1, LenProperties DEF TypeOK, Readable, Item
    <2>2. QED
      BY <2>1, ValuesAssumption DEF OpCheckSig, CheckedSig, ValuesAssumption
  <1>3. CASE CheckedSig = 1
    BY <1>1, <1>2, <1>3, Shrunk DEF OpCheckSig
  <1>4. CASE CheckedSig < 1
    <2>1. FreeStack(top - 2, hgt - 2) /\ verdict' = "fails" /\ hgt' = hgt - 2 /\ UNCHANGED <<buf, heap>>
      BY <1>4 DEF OpCheckSig
    <2>2. sc' = sc /\ pc' \in 0 .. Len(sc) /\ verdict = "running"
      BY <1>1, Fetched
    <2>3. top - 2 \in 0 .. BufSize /\ hgt - 2 \in 0 .. BufSize
      <3>1. hgt = top /\ top = Depth[sc][pc] /\ 2 <= Depth[sc][pc]
        BY <1>1, <2>2, Fetched DEF StackInv, Needs
      <3>2. QED
        BY <3>1, ValuesAssumption DEF TypeOK, ValuesAssumption
    <2>4. top' \in 0 .. BufSize /\ live' \subseteq live
      BY <2>1, <2>3, FreeEffect
    <2>5. QED
      BY <1>2, <2>1, <2>2, <2>3, <2>4 DEF TypeOK, StackInv
  <1>5. QED
    BY <1>3, <1>4 DEF OpCheckSig

\* Every step of the interpreter preserves the types and the stack invariant.
LEMMA NextIInv == TypeOK /\ StackInv /\ [Next]_vars => TypeOK' /\ StackInv'
  <1> SUFFICES ASSUME TypeOK, StackInv, [Next]_vars PROVE TypeOK' /\ StackInv'
    OBVIOUS
  <1>1. CASE PushConst
    BY <1>1, PushConstStep
  <1>2. CASE OpDup
    BY <1>2, OpDupStep
  <1>3. CASE OpHash160
    BY <1>3, OpHash160Step
  <1>4. CASE OpEqualVerify
    BY <1>4, OpEqualVerifyStep
  <1>5. CASE OpCheckSig
    BY <1>5, OpCheckSigStep
  <1>6. CASE InvalidOp
    <2>1. sc' = sc /\ pc' \in 0 .. Len(sc)
      BY <1>6, Fetched DEF InvalidOp
    <2>2. QED
      BY <1>6, <2>1 DEF InvalidOp, TypeOK, StackInv
  <1>7. CASE Finish
    <2>1. top' \in 0 .. BufSize /\ live' \subseteq live
      BY <1>7, FreeEffect DEF Finish, TypeOK
    <2>2. QED
      BY <1>7, <2>1 DEF Finish, TypeOK, StackInv
  <1>8. CASE UNCHANGED vars
    BY <1>8 DEF vars, TypeOK, StackInv
  <1>9. QED
    BY <1>1, <1>2, <1>3, <1>4, <1>5, <1>6, <1>7, <1>8 DEF Next, Returned

\* The types of the state hold in every reachable state of every script that keeps
\* its depth within the array.
THEOREM TypeCorrect == Spec => []TypeOK
  <1>1. QED
    BY InitIInv, NextIInv, PTL DEF Spec

\* The stack invariant is enough for the next step to find its items and its slot.
LEMMA StackIsSafe ==
    ASSUME TypeOK, StackInv, verdict = "running"
    PROVE  FreeDefined /\ (pc < Len(sc) => OperandsDefined(sc[pc + 1]))
  <1>1. /\ top = Depth[sc][pc] /\ hgt = top /\ top \in 0 .. BufSize /\ BufSize \in Nat
        /\ \A i \in 1 .. top : buf[i] \in live
        /\ \A i, j \in 1 .. top : buf[i] = buf[j] => i = j
    BY ValuesAssumption DEF TypeOK, StackInv, ValuesAssumption
  <1>2. FreeDefined
    <2>1. top - hgt + 1 = 1
      BY <1>1
    <2>2. QED
      BY <1>1, <2>1 DEF FreeDefined
  <1>3. ASSUME pc < Len(sc) PROVE OperandsDefined(sc[pc + 1])
    <2> DEFINE o == sc[pc + 1]
    <2>1. sc \in Scripts /\ sc \in Seq(Ops) /\ pc \in 0 .. Len(sc) /\ Len(sc) \in Nat
      BY LenProperties, ValuesAssumption DEF TypeOK, ValuesAssumption
    <2>2. pc + 1 \in 1 .. Len(sc) /\ (pc + 1) - 1 = pc /\ o \in Ops
      BY <1>3, <2>1, LenProperties
    <2>3. Needs(o) <= top /\ top + Effect(o) <= BufSize
      <3>1. /\ Needs(sc[pc + 1]) <= Depth[sc][(pc + 1) - 1]
            /\ Depth[sc][pc + 1] = Depth[sc][(pc + 1) - 1] + Effect(sc[pc + 1])
            /\ Depth[sc][pc + 1] <= BufSize
        BY <2>1, <2>2, DepthAssumption DEF DepthAssumption
      <3>2. Depth[sc][(pc + 1) - 1] = top
        BY <1>1, <2>2
      <3>3. QED
        BY <3>1, <3>2
    <2>4. Needs(o) \in 0 .. 2
      BY <2>2 DEF Needs, Ops
    <2>5. Needs(o) >= 1 => Readable(0)
      BY <1>1, <2>3, <2>4 DEF Readable
    <2>6. Needs(o) >= 2 => Readable(1)
      BY <1>1, <2>3, <2>4 DEF Readable
    <2>7. o.op \in {"push", "dup"} => top < BufSize
      BY <1>1, <2>3 DEF Effect
    <2>8. QED
      BY <2>5, <2>6, <2>7 DEF OperandsDefined
  <1>4. QED
    BY <1>2, <1>3

------------------------------------------------------------------------------
(* The verdict of a spending script *)

Val(i) == heap[buf[i]]

\* sc is n pushes, the last two sig and pubkey, and the script of hash.
SpendsAt(n, sig, pubkey, hash) ==
    /\ Len(sc) = n + 5
    /\ \A i \in 1 .. n : sc[i].op = "push"
    /\ sc[n - 1].val = sig /\ sc[n].val = pubkey
    /\ sc[n + 1] = [op |-> "dup"] /\ sc[n + 2] = [op |-> "hash160"]
    /\ sc[n + 3] = [op |-> "push", val |-> hash]
    /\ sc[n + 4] = [op |-> "equalverify"] /\ sc[n + 5] = [op |-> "checksig"]

\* What the stack holds when a script that SpendsAt is running.
Holds(n, sig, pubkey, hash) ==
    /\ pc <= n => top = pc /\ \A i \in 1 .. n : i <= pc => Val(i) = sc[i].val
    /\ pc = n + 1 => top = n + 1 /\ Val(n - 1) = sig /\ Val(n) = pubkey /\ Val(n + 1) = pubkey
    /\ pc = n + 2 => top = n + 1 /\ Val(n - 1) = sig /\ Val(n) = pubkey /\ Val(n + 1) = Hash160[pubkey]
    /\ pc = n + 3 => /\ top = n + 2 /\ Val(n - 1) = sig /\ Val(n) = pubkey
                     /\ Val(n + 1) = Hash160[pubkey] /\ Val(n + 2) = hash
    /\ pc = n + 4 => top = n /\ Val(n - 1) = sig /\ Val(n) = pubkey /\ Hash160[pubkey] = hash
    /\ pc = n + 5 => Hash160[pubkey] = hash /\ SigVerify[<<sig, pubkey>>] = 1

Verdict(n, sig, pubkey, hash) ==
    IF verdict = "running"
    THEN Holds(n, sig, pubkey, hash)
    ELSE verdict = "passes" <=> Hash160[pubkey] = hash /\ SigVerify[<<sig, pubkey>>] = 1

SpendInv ==
    \A n \in Nat : \A sig, pubkey, hash \in Values :
        n >= 2 /\ SpendsAt(n, sig, pubkey, hash) => Verdict(n, sig, pubkey, hash)

\* A spending script has n pushes for some n.
LEMMA SpendsSomewhere ==
    ASSUME TypeOK, NEW sig \in Values, NEW pubkey \in Values, NEW hash \in Values,
           Spends(sig, pubkey, hash)
    PROVE  \E n \in Nat : n >= 2 /\ SpendsAt(n, sig, pubkey, hash)
  <1>1. PICK n \in 2 .. Len(sc) :
            /\ Len(sc) = n + 5
            /\ \A i \in 1 .. n : sc[i].op = "push"
            /\ sc[n - 1].val = sig /\ sc[n].val = pubkey
            /\ SubSeq(sc, n + 1, n + 5) = BuildP2pkh(hash)
    BY DEF Spends
  <1>2. sc \in Seq(Ops) /\ Len(sc) \in Nat /\ n \in Nat /\ n >= 2
    BY ValuesAssumption, LenProperties DEF TypeOK, ValuesAssumption
  <1>3. \A i \in 1 .. 5 : SubSeq(sc, n + 1, n + 5)[i] = sc[n + i]
    <2>1. n + 1 \in 1 .. Len(sc) + 1 /\ n + 5 \in n .. Len(sc) /\ (n + 5) - (n + 1) + 1 = 5
      BY <1>1, <1>2
    <2>2. \A i \in 1 .. 5 : (n + 1) + i - 1 = n + i
      BY <1>2
    <2>3. QED
      BY <1>1, <1>2, <2>1, <2>2, SubSeqProperties
  <1>4. SpendsAt(n, sig, pubkey, hash)
    <2>1. /\ sc[n + 1] = BuildP2pkh(hash)[1] /\ sc[n + 2] = BuildP2pkh(hash)[2]
          /\ sc[n + 3] = BuildP2pkh(hash)[3] /\ sc[n + 4] = BuildP2pkh(hash)[4]
          /\ sc[n + 5] = BuildP2pkh(hash)[5]
      BY <1>1, <1>3
    <2>2. QED
      BY <1>1, <2>1 DEF SpendsAt, BuildP2pkh
  <1>5. QED
    BY <1>2, <1>4

\* SpendInv says what SpendCorrect says.
LEMMA SpendInvIsCorrect == TypeOK /\ SpendInv => SpendCorrect
  <1> SUFFICES ASSUME TypeOK, SpendInv,
                      NEW sig \in Values, NEW pubkey \in Values, NEW hash \in Values,
                      Spends(sig, pubkey, hash), verdict # "running"
               PROVE  verdict = "passes" <=> Hash160[pubkey] = hash /\ SigVerify[<<sig, pubkey>>] = 1
    BY DEF SpendCorrect
  <1>1. PICK n \in Nat : n >= 2 /\ SpendsAt(n, sig, pubkey, hash)
    BY SpendsSomewhere
  <1>2. QED
    BY <1>1 DEF SpendInv, Verdict

\* What the stack of a spending script holds puts the public key on top at CHECKSIG.
LEMMA SpendTakesKey ==
    ASSUME TypeOK, SpendInv, verdict = "running", pc < Len(sc),
           NEW sig \in Values, NEW pubkey \in Values, NEW hash \in Values,
           Spends(sig, pubkey, hash), Size[pubkey] >= KeySize
    PROVE  KeyInItem(sc[pc + 1])
  <1> SUFFICES ASSUME sc[pc + 1].op = "checksig" PROVE Size[Item(0)] >= KeySize
    BY DEF KeyInItem
  <1>1. PICK n \in Nat : n >= 2 /\ SpendsAt(n, sig, pubkey, hash)
    BY SpendsSomewhere
  <1>2. pc \in 0 .. n + 4 /\ pc \in Nat
    BY <1>1 DEF SpendsAt, TypeOK
  <1>3. pc = n + 4
    <2>1. ~(pc < n)
      <3> SUFFICES ASSUME pc < n PROVE FALSE
        OBVIOUS
      <3>1. pc + 1 \in 1 .. n
        BY <1>2
      <3>2. QED
        BY <1>1, <3>1 DEF SpendsAt
    <2>2. pc \notin {n, n + 1, n + 2, n + 3}
      BY <1>1, <1>2 DEF SpendsAt
    <2>3. QED
      BY <1>1, <1>2, <2>1, <2>2
  <1>4. top = n /\ Val(n) = pubkey
    BY <1>1, <1>3 DEF SpendInv, Verdict, Holds
  <1>5. QED
    BY <1>4 DEF Item, Val

\* Where each operation stands in a spending script.
LEMMA Position ==
    ASSUME TypeOK, NEW n \in Nat, n >= 2, NEW sig, NEW pubkey, NEW hash,
           SpendsAt(n, sig, pubkey, hash), NEW o, Fetch(o)
    PROVE  /\ pc \in Nat /\ sc' = sc /\ pc' = pc + 1 /\ verdict = "running"
           /\ \/ pc < n /\ o.op = "push" /\ o.val = sc[pc + 1].val
              \/ pc = n /\ o.op = "dup"
              \/ pc = n + 1 /\ o.op = "hash160"
              \/ pc = n + 2 /\ o.op = "push" /\ o.val = hash
              \/ pc = n + 3 /\ o.op = "equalverify"
              \/ pc = n + 4 /\ o.op = "checksig"
  <1>1. /\ pc + 1 \in 1 .. n + 5 /\ o = sc[pc + 1] /\ pc \in Nat
        /\ sc' = sc /\ pc' = pc + 1 /\ verdict = "running"
    BY Fetched DEF SpendsAt, TypeOK
  <1>2. CASE pc < n
    <2>1. pc + 1 \in 1 .. n
      BY <1>1, <1>2
    <2>2. QED
      BY <1>1, <1>2, <2>1 DEF SpendsAt
  <1>3. CASE pc >= n
    <2>1. pc = n \/ pc = n + 1 \/ pc = n + 2 \/ pc = n + 3 \/ pc = n + 4
      BY <1>1, <1>3
    <2>2. QED
      BY <1>1, <2>1 DEF SpendsAt
  <1>4. QED
    BY <1>1, <1>2, <1>3

\* A push changes the bytes of no item below it.
LEMMA Kept ==
    ASSUME TypeOK, StackInv, verdict = "running",
           NEW t \in 0 .. top, NEW v \in Values, PushAt(t, v)
    PROVE  Val(t + 1)' = v /\ \A i \in 1 .. t : Val(i)' = Val(i)
  <1>1. top \in 0 .. BufSize /\ BufSize \in Nat /\ t \in 0 .. BufSize /\ live \subseteq 1 .. Len(heap)
    BY ValuesAssumption DEF TypeOK, ValuesAssumption
  <1>2. /\ heap'[Len(heap) + 1] = v /\ \A q \in 1 .. Len(heap) : heap'[q] = heap[q]
        /\ buf'[t + 1] = Len(heap) + 1
        /\ \A i \in 1 .. BufSize : i # t + 1 => buf'[i] = buf[i]
    BY <1>1, PushEffect
  <1>3. \A i \in 1 .. t : Val(i)' = Val(i)
    <2> TAKE i \in 1 .. t
    <2>1. i \in 1 .. BufSize /\ i \in 1 .. top /\ i # t + 1
      BY <1>1
    <2>2. buf[i] \in live
      BY <2>1 DEF StackInv
    <2>3. buf[i] \in 1 .. Len(heap) /\ buf'[i] = buf[i]
      BY <1>1, <1>2, <2>1, <2>2
    <2>4. QED
      BY <1>2, <2>3 DEF Val
  <1>4. QED
    BY <1>2, <1>3 DEF Val

\* Each step of a spending script keeps what the stack holds, or ends the run with
\* the right verdict.
LEMMA VerdictStep ==
    ASSUME TypeOK, StackInv, NEW n \in Nat, n >= 2,
           NEW sig \in Values, NEW pubkey \in Values, NEW hash \in Values,
           SpendsAt(n, sig, pubkey, hash), verdict = "running", Holds(n, sig, pubkey, hash),
           Next
    PROVE  Verdict(n, sig, pubkey, hash)'
  <1>0. top \in 0 .. BufSize /\ BufSize \in Nat /\ pc \in Nat
    BY ValuesAssumption DEF TypeOK, ValuesAssumption
  <1>1. CASE PushConst
    <2>1. PICK v \in Values : Fetch([op |-> "push", val |-> v]) /\ PushAt(top, v)
      BY <1>1 DEF PushConst
    <2>2. /\ sc' = sc /\ pc' = pc + 1 /\ verdict' = "running" /\ top' = top + 1
          /\ (pc < n /\ v = sc[pc + 1].val) \/ (pc = n + 2 /\ v = hash)
      BY <1>1, <2>1, Position DEF PushConst, PushAt
    <2>3. PICK t \in 0 .. top : t = top
      BY <1>0
    <2>4. Val(t + 1)' = v /\ \A i \in 1 .. t : Val(i)' = Val(i)
      BY <2>1, <2>3, Kept
    <2>5. CASE pc < n /\ v = sc[pc + 1].val
      <3>1. pc <= n
        BY <1>0, <2>5
      <3>2. top = pc /\ \A i \in 1 .. n : i <= pc => Val(i) = sc[i].val
        BY <3>1 DEF Holds
      <3>3. \A i \in 1 .. n : i <= pc + 1 => Val(i)' = sc[i].val
        <4> SUFFICES ASSUME NEW i \in 1 .. n, i <= pc + 1 PROVE Val(i)' = sc[i].val
          OBVIOUS
        <4>1. i = pc + 1 \/ (i <= pc /\ i \in 1 .. top)
          BY <1>0, <3>2
        <4>2. QED
          BY <2>3, <2>4, <2>5, <3>2, <4>1
      <3>4. pc + 1 <= n /\ pc + 1 # n + 1 /\ pc + 1 # n + 2 /\ pc + 1 # n + 3 /\ pc + 1 # n + 4 /\ pc + 1 # n + 5
        BY <1>0, <2>5
      <3>5. QED
        BY <2>2, <3>2, <3>3, <3>4 DEF Holds, Verdict
    <2>6. CASE pc = n + 2 /\ v = hash
      <3>1. top = n + 1 /\ Val(n - 1) = sig /\ Val(n) = pubkey /\ Val(n + 1) = Hash160[pubkey]
        BY <2>6 DEF Holds
      <3>2. Val(n - 1)' = sig /\ Val(n)' = pubkey /\ Val(n + 1)' = Hash160[pubkey] /\ Val(n + 2)' = hash
        <4>1. n - 1 \in 1 .. top /\ n \in 1 .. top /\ n + 1 \in 1 .. top /\ top + 1 = n + 2
          BY <3>1
        <4>2. QED
          BY <2>3, <2>4, <2>6, <3>1, <4>1
      <3>3. pc' = n + 3 /\ top' = n + 2
        BY <2>2, <2>6, <3>1
      <3>4. QED
        BY <2>2, <3>2, <3>3 DEF Holds, Verdict
    <2>7. QED
      BY <2>2, <2>5, <2>6
  <1>2. CASE OpDup
    <2>1. Fetch([op |-> "dup"]) /\ PushAt(top, Item(0)) /\ verdict' = verdict
      BY <1>2 DEF OpDup
    <2>2. pc' = pc + 1 /\ verdict' = "running" /\ top' = top + 1 /\ pc = n
      BY <2>1, Position DEF PushAt
    <2>3. top = n /\ Val(n - 1) = sig /\ Val(n) = pubkey
      BY <2>2 DEF Holds, SpendsAt
    <2>4. Item(0) = pubkey
      BY <2>3 DEF Item, Val
    <2>5. Val(n + 1)' = pubkey /\ Val(n - 1)' = sig /\ Val(n)' = pubkey
      BY <1>0, <2>1, <2>3, <2>4, Kept
    <2>6. pc' = n + 1 /\ top' = n + 1
      BY <2>2, <2>3
    <2>7. QED
      BY <2>2, <2>5, <2>6 DEF Holds, Verdict
  <1>3. CASE OpHash160
    <2>1. Fetch([op |-> "hash160"]) /\ PushAt(top - 1, Hash160[Item(0)]) /\ verdict' = verdict
      BY <1>3 DEF OpHash160
    <2>2. pc' = pc + 1 /\ verdict' = "running" /\ top' = (top - 1) + 1 /\ pc = n + 1
      BY <2>1, Position DEF PushAt
    <2>3. top = n + 1 /\ Val(n - 1) = sig /\ Val(n) = pubkey /\ Val(n + 1) = pubkey
      BY <2>2 DEF Holds
    <2>4. Item(0) = pubkey /\ Hash160[pubkey] \in Values
      BY <2>3, ValuesAssumption DEF Item, Val, ValuesAssumption
    <2>5. Val(n + 1)' = Hash160[pubkey] /\ Val(n - 1)' = sig /\ Val(n)' = pubkey
      <3>1. top - 1 = n /\ n \in 0 .. top /\ n - 1 \in 1 .. n /\ n \in 1 .. n
        BY <2>3
      <3>2. PushAt(n, Hash160[pubkey])
        BY <2>1, <2>4, <3>1
      <3>3. QED
        BY <2>3, <2>4, <3>1, <3>2, Kept
    <2>6. pc' = n + 2 /\ top' = n + 1
      BY <2>2, <2>3
    <2>7. QED
      BY <2>2, <2>5, <2>6 DEF Holds, Verdict
  <1>4. CASE OpEqualVerify
    <2>1. Fetch([op |-> "equalverify"]) /\ UNCHANGED <<buf, heap>>
      BY <1>4 DEF OpEqualVerify
    <2>2. pc' = pc + 1 /\ pc = n + 3
      BY <2>1, Position
    <2>3. /\ top = n + 2 /\ Val(n - 1) = sig /\ Val(n) = pubkey
          /\ Val(n + 1) = Hash160[pubkey] /\ Val(n + 2) = hash
      BY <2>2 DEF Holds
    <2>4. ItemsEqual <=> Hash160[pubkey] = hash
      <3>1. top - 0 = n + 2 /\ top - 1 = n + 1
        BY <2>3
      <3>2. QED
        BY <2>3, <3>1 DEF ItemsEqual, Item, Val
    <2>5. CASE ItemsEqual
      <3>1. top' = n /\ verdict' = "running" /\ pc' = n + 4
        BY <1>4, <2>2, <2>3, <2>5 DEF OpEqualVerify
      <3>2. Val(n - 1)' = sig /\ Val(n)' = pubkey
        BY <2>1, <2>3 DEF Val
      <3>3. QED
        BY <2>4, <2>5, <3>1, <3>2 DEF Holds, Verdict
    <2>6. CASE ~ItemsEqual
      BY <1>4, <2>4, <2>6 DEF OpEqualVerify, Verdict
    <2>7. QED
      BY <2>5, <2>6
  <1>5. CASE OpCheckSig
    <2>1. Fetch([op |-> "checksig"])
      BY <1>5 DEF OpCheckSig
    <2>2. pc' = pc + 1 /\ pc = n + 4
      BY <2>1, Position
    <2>3. top = n /\ Val(n - 1) = sig /\ Val(n) = pubkey /\ Hash160[pubkey] = hash
      BY <2>2 DEF Holds
    <2>4. CheckedSig = SigVerify[<<sig, pubkey>>]
      BY <2>3 DEF CheckedSig, Item, Val
    <2>5. CASE CheckedSig = 1
      <3>1. verdict' = "running" /\ pc' = n + 5
        BY <1>5, <2>2, <2>5 DEF OpCheckSig
      <3>2. QED
        BY <2>3, <2>4, <2>5, <3>1 DEF Holds, Verdict
    <2>6. CASE CheckedSig < 1
      <3>1. verdict' = "fails" /\ CheckedSig # 1
        BY <1>5, <2>6 DEF OpCheckSig
      <3>2. QED
        BY <2>4, <3>1 DEF Verdict
    <2>7. QED
      BY <1>5, <2>5, <2>6 DEF OpCheckSig
  <1>6. CASE InvalidOp
    <2>1. Fetch([op |-> "other"])
      BY <1>6 DEF InvalidOp
    <2>2. QED
      BY <2>1, Position
  <1>7. CASE Finish
    <2>1. pc = n + 5 /\ verdict' = "passes"
      BY <1>7 DEF Finish, SpendsAt
    <2>2. QED
      BY <2>1 DEF Holds, Verdict
  <1>8. QED
    BY <1>1, <1>2, <1>3, <1>4, <1>5, <1>6, <1>7 DEF Next, Returned

\* Init establishes SpendInv.
LEMMA InitSpend == Init => SpendInv
  BY DEF Init, SpendInv, Verdict, Holds

\* Every step preserves SpendInv.
LEMMA NextSpend == TypeOK /\ StackInv /\ SpendInv /\ [Next]_vars => SpendInv'
  <1> SUFFICES ASSUME TypeOK, StackInv, SpendInv, [Next]_vars,
                      NEW n \in Nat, n >= 2,
                      NEW sig \in Values, NEW pubkey \in Values, NEW hash \in Values,
                      SpendsAt(n, sig, pubkey, hash)'
               PROVE  Verdict(n, sig, pubkey, hash)'
    BY DEF SpendInv
  <1>1. CASE UNCHANGED vars
    <2>1. UNCHANGED <<sc, pc, buf, top, heap, verdict>>
      BY <1>1 DEF vars
    <2>2. SpendsAt(n, sig, pubkey, hash)
      BY <2>1 DEF SpendsAt
    <2>3. Verdict(n, sig, pubkey, hash)
      BY <2>2 DEF SpendInv
    <2>4. ASSUME NEW i PROVE Val(i)' = Val(i)
      BY <2>1 DEF Val
    <2>5. Holds(n, sig, pubkey, hash) <=> Holds(n, sig, pubkey, hash)'
      BY <2>1, <2>4 DEF Holds
    <2>6. QED
      BY <2>1, <2>3, <2>5 DEF Verdict
  <1>2. CASE Next /\ verdict = "running"
    <2>1. sc' = sc
      BY <1>2 DEF Next, PushConst, OpDup, OpHash160, OpEqualVerify, OpCheckSig, InvalidOp,
                  Finish, Returned, Fetch
    <2>2. SpendsAt(n, sig, pubkey, hash)
      BY <2>1 DEF SpendsAt
    <2>3. Holds(n, sig, pubkey, hash)
      BY <1>2, <2>2 DEF SpendInv, Verdict
    <2>4. QED
      BY <1>2, <2>2, <2>3, VerdictStep
  <1>3. CASE Next /\ verdict # "running"
    <2>1. UNCHANGED vars
      BY <1>3 DEF Next, PushConst, OpDup, OpHash160, OpEqualVerify, OpCheckSig, InvalidOp,
                  Finish, Returned, Fetch
    <2>2. QED
      BY <1>1, <2>1
  <1>4. QED
    BY <1>1, <1>2, <1>3

\* kyk_run_sc never uses a slot outside its array or an item that was freed, and
\* never frees one twice, for every script that keeps its depth within the array; and
\* what CHECKSIG copies of a spending script's public key of 33 bytes or more is the key's.
THEOREM MemoryCorrect == Spec => []MemorySafe
  <1>1. TypeOK /\ StackInv /\ SpendInv => MemorySafe
    BY StackIsSafe, SpendTakesKey DEF MemorySafe
  <1>2. QED
    BY <1>1, InitIInv, NextIInv, InitSpend, NextSpend, PTL DEF Spec

\* kyk_run_sc accepts a spending script exactly when the public key hashes to the
\* hash of the script and the signature verifies under it.
THEOREM SpendVerdict == Spec => []SpendCorrect
  <1>1. QED
    BY InitIInv, NextIInv, InitSpend, NextSpend, SpendInvIsCorrect, PTL DEF Spec

------------------------------------------------------------------------------
(* Memory accounted for. *)

\* The sets that are counted are finite, and each operation that runs counts or does not.
LEMMA Counts ==
    ASSUME TypeOK, NEW o, Fetch(o)
    PROVE  /\ IsFiniteSet(live) /\ Cardinality(live) \in Nat
           /\ Cardinality(Popped) \in Nat
           /\ Cardinality(Popped')
                  = IF o.op \in {"equalverify", "checksig"} THEN Cardinality(Popped) + 1
                    ELSE Cardinality(Popped)
  <1>1. sc' = sc /\ pc' = pc + 1 /\ o = sc[pc + 1] /\ pc \in Nat
    BY Fetched DEF TypeOK
  <1>2. IsFiniteSet(live) /\ Cardinality(live) \in Nat
    <2>1. Len(heap) \in Nat /\ live \in SUBSET (1 .. Len(heap))
      BY LenProperties DEF TypeOK
    <2>2. IsFiniteSet(1 .. Len(heap))
      BY <2>1, FS_Interval
    <2>3. IsFiniteSet(live)
      BY <2>1, <2>2, FS_Subset
    <2>. QED
      BY <2>3, FS_CardinalityType
  <1>3. IsFiniteSet(Popped) /\ Cardinality(Popped) \in Nat
    <2>1. Popped \in SUBSET (1 .. pc)
      BY DEF Popped
    <2>2. IsFiniteSet(1 .. pc)
      BY <1>1, FS_Interval
    <2>3. IsFiniteSet(Popped)
      BY <2>1, <2>2, FS_Subset
    <2>. QED
      BY <2>3, FS_CardinalityType
  <1>4. pc + 1 \notin Popped
    BY <1>1 DEF Popped
  <1>5. Popped' = IF o.op \in {"equalverify", "checksig"} THEN Popped \cup {pc + 1}
                       ELSE Popped
    <2>1. Popped' = {i \in 1 .. pc + 1 : sc[i].op \in {"equalverify", "checksig"}}
      BY <1>1 DEF Popped
    <2>2. Popped = {i \in 1 .. pc : sc[i].op \in {"equalverify", "checksig"}}
      BY DEF Popped
    <2>3. \A i : i \in 1 .. pc + 1 <=> i \in 1 .. pc \/ i = pc + 1
      BY <1>1
    <2>. QED
      BY <1>1, <2>1, <2>2, <2>3
  <1>. QED
    BY <1>2, <1>3, <1>4, <1>5, FS_AddElement

\* free_sc_stack frees as many items as it is told.
LEMMA Freed ==
    ASSUME NEW t \in Int, NEW h \in Nat, IsFiniteSet(live), FreeStack(t, h)
    PROVE  Cardinality(live') = Cardinality(live) - h
  <1>. DEFINE S == {buf[i] : i \in t - h + 1 .. t}
  <1>1. S \subseteq live /\ Cardinality(S) = h /\ live' = live \ S
    BY DEF FreeStack
  <1>. HIDE DEF S
  <1>2. live \cap S = S
    BY <1>1
  <1>. QED
    BY <1>1, <1>2, FS_Difference

\* What LeakAccounted says, verdict by verdict.
Running == verdict = "running" => Cardinality(live) = top + 2 * Cardinality(Popped)

Account ==
    /\ Running
    /\ verdict = "fails" /\ sc[pc].op = "other" =>
           Cardinality(live) = top + 2 * Cardinality(Popped)
    /\ verdict = "fails" /\ sc[pc].op = "equalverify" =>
           Cardinality(live) = 2 * (Cardinality(Popped) - 1)
    /\ verdict = "fails" /\ sc[pc].op \notin {"other", "equalverify"} =>
           Cardinality(live) = 2 * Cardinality(Popped)
    /\ verdict = "passes" => Cardinality(live) = 2 * Cardinality(Popped)

LEMMA AccountIsLeak == TypeOK /\ Account => LeakAccounted
  <1>. SUFFICES ASSUME TypeOK, Account PROVE LeakAccounted
    OBVIOUS
  <1>1. Cardinality(Popped) \in Nat
    <2>1. pc \in Int /\ Popped \in SUBSET (1 .. pc)
      BY DEF TypeOK, Popped
    <2>2. IsFiniteSet(1 .. pc)
      BY <2>1, FS_Interval
    <2>3. IsFiniteSet(Popped)
      BY <2>1, <2>2, FS_Subset
    <2>. QED
      BY <2>3, FS_CardinalityType
  <1>2. verdict \in {"running", "fails", "passes"}
    BY DEF TypeOK
  <1>3. CASE verdict = "running"
    BY <1>1, <1>3 DEF Account, Running, LeakAccounted
  <1>4. CASE verdict = "fails" /\ sc[pc].op = "other"
    BY <1>1, <1>4 DEF Account, LeakAccounted
  <1>5. CASE verdict = "fails" /\ sc[pc].op = "equalverify"
    BY <1>1, <1>5 DEF Account, LeakAccounted
  <1>6. CASE verdict = "fails" /\ sc[pc].op \notin {"other", "equalverify"}
    BY <1>1, <1>6 DEF Account, LeakAccounted
  <1>7. CASE verdict = "passes"
    BY <1>1, <1>7 DEF Account, LeakAccounted
  <1>. QED
    BY <1>2, <1>3, <1>4, <1>5, <1>6, <1>7

LEMMA GrownLeak ==
    ASSUME TypeOK, StackInv, Running,
           NEW o, Fetch(o), o.op \notin {"equalverify", "checksig"},
           top' = top + 1, live' = live \cup {Len(heap) + 1}, verdict' = verdict
    PROVE  Account'
  <1>1. verdict = "running" /\ top \in Nat
    BY Fetched, ValuesAssumption, SMTT(30) DEF TypeOK, ValuesAssumption
  <1>2. Len(heap) + 1 \notin live
    BY LenProperties DEF TypeOK
  <1>3. Cardinality(live') = Cardinality(live) + 1
    BY <1>2, Counts, FS_AddElement
  <1>4. Cardinality(Popped') = Cardinality(Popped) /\ Cardinality(Popped) \in Nat
    BY Counts
  <1>5. Cardinality(live') = top' + 2 * Cardinality(Popped')
    BY <1>1, <1>3, <1>4 DEF Running
  <1>. QED
    BY <1>1, <1>5 DEF Account, Running
\* HASH160 frees the item it pops and allocates another.
LEMMA Hash160Leak == TypeOK /\ StackInv /\ Running /\ OpHash160 => Account'
  <1>. SUFFICES ASSUME TypeOK, StackInv, Running, OpHash160 PROVE Account'
    OBVIOUS
  <1>. DEFINE o == [op |-> "hash160"]
  <1>1. Fetch(o) /\ verdict = "running" /\ verdict' = verdict
    BY DEF OpHash160, Fetch
  <1>2. top' = top /\ buf[top] \in live /\ live' = (live \ {buf[top]}) \cup {Len(heap) + 1}
        /\ top \in Nat
    <2>1. top \in 0 .. BufSize /\ BufSize \in Nat
      BY ValuesAssumption DEF TypeOK, ValuesAssumption
    <2>. QED
      BY <2>1 DEF OpHash160, PushAt, Readable
  <1>3. Len(heap) + 1 \notin live
    BY LenProperties DEF TypeOK
  <1>4. Cardinality(live') = Cardinality(live)
    <2>1. IsFiniteSet(live) /\ Cardinality(live) \in Nat
      BY <1>1, Counts
    <2>2. IsFiniteSet(live \ {buf[top]}) /\ Cardinality(live \ {buf[top]}) = Cardinality(live) - 1
      BY <1>2, <2>1, FS_RemoveElement
    <2>. QED
      <3>1. Len(heap) + 1 \notin live \ {buf[top]}
        BY <1>3
      <3>2. Cardinality(live') = Cardinality(live \ {buf[top]}) + 1
        BY <1>2, <2>2, <3>1, FS_AddElement
      <3>. QED
        BY <2>1, <2>2, <3>2
  <1>5. Cardinality(Popped') = Cardinality(Popped)
    BY <1>1, Counts
  <1>. QED
    BY <1>1, <1>2, <1>4, <1>5 DEF Account, Running

\* EQUALVERIFY takes two items off and forgets them, or frees the stack.
LEMMA EqualVerifyLeak == TypeOK /\ StackInv /\ Running /\ OpEqualVerify => Account'
  <1>. SUFFICES ASSUME TypeOK, StackInv, Running, OpEqualVerify PROVE Account'
    OBVIOUS
  <1>. DEFINE o == [op |-> "equalverify"]
  <1>1. Fetch(o) /\ verdict = "running" /\ hgt = top /\ top \in Nat
    BY ValuesAssumption DEF OpEqualVerify, Fetch, StackInv, TypeOK, ValuesAssumption
  <1>2. /\ Cardinality(Popped') = Cardinality(Popped) + 1 /\ Cardinality(Popped) \in Nat
        /\ IsFiniteSet(live) /\ Cardinality(live) \in Nat
    BY <1>1, Counts
  <1>3. sc'[pc'].op = "equalverify"
    BY <1>1, Fetched
  <1>4. CASE ItemsEqual
    <2>1. top' = top - 2 /\ live' = live /\ verdict' = "running"
      BY <1>1, <1>4 DEF OpEqualVerify
    <2>. QED
      BY <1>1, <1>2, <2>1 DEF Account, Running
  <1>5. CASE ~ItemsEqual
    <2>1. FreeStack(top, hgt) /\ verdict' = "fails"
      BY <1>5 DEF OpEqualVerify
    <2>2. Cardinality(live') = Cardinality(live) - top
      BY <1>1, <1>2, <2>1, Freed
    <2>. QED
      BY <1>1, <1>2, <1>3, <2>1, <2>2 DEF Account, Running
  <1>. QED
    BY <1>4, <1>5

\* CHECKSIG takes them off either way.
LEMMA CheckSigLeak == TypeOK /\ StackInv /\ Running /\ OpCheckSig => Account'
  <1>. SUFFICES ASSUME TypeOK, StackInv, Running, OpCheckSig PROVE Account'
    OBVIOUS
  <1>. DEFINE o == [op |-> "checksig"]
  <1>1. /\ Fetch(o) /\ verdict = "running" /\ hgt = top /\ top \in Nat /\ Readable(1)
        /\ top <= BufSize /\ BufSize \in Nat
    BY ValuesAssumption DEF OpCheckSig, Fetch, StackInv, TypeOK, ValuesAssumption
  <1>2. /\ Cardinality(Popped') = Cardinality(Popped) + 1 /\ Cardinality(Popped) \in Nat
        /\ IsFiniteSet(live) /\ Cardinality(live) \in Nat
    BY <1>1, Counts
  <1>3. sc'[pc'].op = "checksig"
    BY <1>1, Fetched
  <1>4. CASE CheckedSig = 1 /\ top' = top - 2 /\ UNCHANGED <<live, verdict>>
    BY <1>1, <1>2, <1>4 DEF Account, Running
  <1>5. CASE FreeStack(top - 2, hgt - 2) /\ verdict' = "fails"
    <2>1. top - 2 \in Nat
      BY <1>1 DEF Readable
    <2>2. Cardinality(live') = Cardinality(live) - (top - 2)
      BY <1>1, <1>2, <1>5, <2>1, Freed
    <2>. QED
      BY <1>1, <1>2, <1>3, <1>5, <2>2 DEF Account, Running
  <1>. QED
    BY <1>4, <1>5 DEF OpCheckSig

\* Every step of a run keeps the account, and a run that has returned stays.
LEMMA NextLeak == TypeOK /\ StackInv /\ Account /\ [Next]_vars => Account'
  <1>. SUFFICES ASSUME TypeOK, StackInv, Account, [Next]_vars PROVE Account'
    OBVIOUS
  <1>1. Running
    BY DEF Account
  <1>2. CASE PushConst
    <2>1. PICK v \in Values : Fetch([op |-> "push", val |-> v]) /\ PushAt(top, v)
      BY <1>2 DEF PushConst
    <2>. QED
      BY <1>1, <1>2, <2>1, GrownLeak DEF PushConst, PushAt
  <1>3. CASE OpDup
    BY <1>1, <1>3, GrownLeak DEF OpDup, PushAt
  <1>4. CASE OpHash160
    BY <1>1, <1>4, Hash160Leak
  <1>5. CASE OpEqualVerify
    BY <1>1, <1>5, EqualVerifyLeak
  <1>6. CASE OpCheckSig
    BY <1>1, <1>6, CheckSigLeak
  <1>7. CASE InvalidOp
    <2>1. Fetch([op |-> "other"]) /\ verdict' = "fails" /\ UNCHANGED <<top, live>>
      BY <1>7 DEF InvalidOp
    <2>2. verdict = "running" /\ sc'[pc'].op = "other"
      BY <2>1, Fetched
    <2>3. Cardinality(Popped') = Cardinality(Popped) /\ Cardinality(Popped) \in Nat
      BY <2>1, Counts
    <2>. QED
      BY <1>1, <2>1, <2>2, <2>3 DEF Account, Running
  <1>8. CASE Finish
    <2>1. FreeStack(top, hgt) /\ verdict = "running" /\ verdict' = "passes" /\ UNCHANGED <<sc, pc>>
      BY <1>8 DEF Finish
    <2>2. hgt = top /\ top \in Nat
      BY <2>1, ValuesAssumption DEF StackInv, TypeOK, ValuesAssumption
    <2>3. IsFiniteSet(live) /\ Popped' = Popped
      <3>1. Len(heap) \in Nat /\ live \in SUBSET (1 .. Len(heap))
        BY LenProperties DEF TypeOK
      <3>2. IsFiniteSet(1 .. Len(heap))
        BY <3>1, FS_Interval
      <3>. QED
        BY <2>1, <3>1, <3>2, FS_Subset DEF Popped
    <2>4. Cardinality(live') = Cardinality(live) - top
      BY <2>1, <2>2, <2>3, Freed
    <2>5. Cardinality(Popped) \in Nat
      <3>1. pc \in Int /\ Popped \in SUBSET (1 .. pc)
        BY DEF TypeOK, Popped
      <3>2. IsFiniteSet(1 .. pc)
        BY <3>1, FS_Interval
      <3>3. IsFiniteSet(Popped)
        BY <3>1, <3>2, FS_Subset
      <3>. QED
        BY <3>3, FS_CardinalityType
    <2>. QED
      BY <1>1, <2>1, <2>2, <2>3, <2>4, <2>5 DEF Account, Running
  <1>9. CASE UNCHANGED vars
    BY <1>9 DEF vars, Account, Running, Popped
  <1>. QED
    BY <1>2, <1>3, <1>4, <1>5, <1>6, <1>7, <1>8, <1>9 DEF Next, Returned

\* Whatever script is run, the interpreter leaks two items for each EQUALVERIFY and CHECKSIG
\* that popped them, and nothing else but the stack an invalid operation leaves.
THEOREM LeakCorrect == Spec => []LeakAccounted
  <1>1. Init => Account
    <2>. SUFFICES ASSUME Init PROVE Account
      OBVIOUS
    <2>1. Popped = {} /\ live = {} /\ top = 0 /\ verdict = "running"
      BY DEF Init, Popped
    <2>. QED
      BY <2>1, FS_EmptySet DEF Account, Running
  <1>. QED
    BY <1>1, InitIInv, NextIInv, NextLeak, AccountIsLeak, PTL DEF Spec
=============================================================================
