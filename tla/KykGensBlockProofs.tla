------------------------ MODULE KykGensBlockProofs ------------------------
(***************************************************************************)
(* The miner, the programs around a header and the genesis program, for every *)
(* set of keys, every hash function, every width of the nonce and every       *)
(* target.  The header that the miner returns meets its target, with the      *)
(* first nonce that does, counted around the end of the uint32_t; what the    *)
(* programs show of it goes together; and a whole block on the disk commits   *)
(* to the transaction in it and is mined, and is the same block whenever the  *)
(* genesis program makes one for the same key, however often it was killed    *)
(* before.                                                                   *)
(***************************************************************************)
EXTENDS KykBlockTest, KykGensBlock, BytesProofs

(* The next nonce is one more, and 0 after the last. *)
LEMMA NextNonceValue ==
    ASSUME NEW n \in Nonces
    PROVE  /\ NextNonce(n) \in Nonces
           /\ NextNonce(n) = IF n = NonceMod - 1 THEN 0 ELSE n + 1
<1>1. NonceMod \in Nat /\ NonceMod # 0
  BY HeaderAssumption DEF HeaderAssumption
<1>2. CASE n = NonceMod - 1
  <2>1. n + 1 = NonceMod /\ NonceMod % NonceMod = 0
    BY <1>1, <1>2 DEF Nonces
  <2> QED BY <1>1, <1>2, <2>1 DEF NextNonce, Nonces
<1>3. CASE n # NonceMod - 1
  <2>1. n + 1 \in 0 .. NonceMod - 1
    BY <1>1, <1>3 DEF Nonces
  <2>2. (n + 1) % NonceMod = n + 1
    BY <1>1, <2>1
  <2> QED BY <1>3, <2>1, <2>2 DEF NextNonce, Nonces
<1> QED BY <1>2, <1>3

(* Going on to the next nonce passes no other nonce than the one left. *)
LEMMA PassedNonces ==
    ASSUME NEW a \in Nonces, NEW b \in Nonces
    PROVE  From(a, NextNonce(b)) \subseteq From(a, b) \cup {b}
<1>1. NonceMod \in Nat /\ NonceMod # 0
  BY HeaderAssumption DEF HeaderAssumption
<1>2. PICK c : c = NextNonce(b)
  OBVIOUS
<1>3. c \in Nonces /\ c = IF b = NonceMod - 1 THEN 0 ELSE b + 1
  BY <1>2, NextNonceValue
<1>4. From(a, c) \subseteq From(a, b) \cup {b}
  BY <1>1, <1>3 DEF From, Nonces
<1> QED BY <1>2, <1>4

(* A header with another nonce is a header. *)
LEMMA HeaderNonce ==
    ASSUME NEW h \in Headers, NEW n \in Nonces
    PROVE  /\ [h EXCEPT !.nonce = n] \in Headers
           /\ [h EXCEPT !.nonce = n].rest = h.rest
           /\ [h EXCEPT !.nonce = n].bts = h.bts
           /\ [h EXCEPT !.nonce = n].nonce = n
  BY DEF Headers

(* The types of the header, the buffer and the number compared. *)
THEOREM TypeCorrect == Spec => []TypeOK
<1>1. Init => TypeOK
  BY DEF Init, TypeOK, Headers
<1>2. ASSUME TypeOK, [Next]_vars PROVE TypeOK'
  <2>1. CASE Prepare
    <3>1. SeriRest[hd.rest] \in Rests
      BY <1>2, HeaderAssumption DEF HeaderAssumption, TypeOK, Headers
    <3> QED BY <1>2, <2>1, <3>1 DEF TypeOK, Prepare, SeriWithoutNonce, Headers
  <2>2. CASE TryNonce
    <3>1. buf' \in Headers
      BY <1>2, <2>2, HeaderNonce DEF TypeOK, TryNonce, Headers
    <3>2. hs' \in Nat
      BY <2>2, <3>1, HeaderAssumption DEF TryNonce, HeaderAssumption
    <3> QED BY <1>2, <2>2, <3>1, <3>2 DEF TypeOK, TryNonce
  <2>3. CASE Found
    BY <1>2, <2>3 DEF TypeOK, Found
  <2>4. CASE Bump
    <3>1. hd.nonce \in Nonces
      BY <1>2 DEF TypeOK, Headers
    <3>2. hd' \in Headers
      BY <1>2, <2>4, <3>1, NextNonceValue, HeaderNonce DEF TypeOK, Bump
    <3> QED BY <1>2, <2>4, <3>2 DEF TypeOK, Bump
  <2>5. CASE Returned \/ UNCHANGED vars
    BY <1>2, <2>5 DEF TypeOK, Returned, vars
  <2> QED BY <1>2, <2>1, <2>2, <2>3, <2>4, <2>5 DEF Next
<1> QED BY <1>1, <1>2, PTL DEF Spec

------------------------------------------------------------------------------
(* The inductive invariant. *)

\* The fields packed before the loop are the header's own.
Packed ==
    pc # "start" => buf.rest = SeriRest[hd.rest] /\ buf.bts = hd.bts

\* What is compared is the hash of the header as it is.
Hashed ==
    pc \in {"compare", "done"} => buf = SeriBlkHd(hd) /\ hs = HashValue[SeriBlkHd(hd)]

Accepted == pc = "done" => ~AboveTarget

\* Every nonce passed has been tried in vain.
Tried == \A n \in From(first, hd.nonce) : ~Meets(WithNonce(n))

Inv == TypeOK /\ Packed /\ Hashed /\ Accepted /\ Tried

(* The inductive invariant holds at first. *)
LEMMA InitInv == Init => Inv
<1> SUFFICES ASSUME Init PROVE Inv
  OBVIOUS
<1>1. TypeOK
  BY DEF Init, TypeOK, Headers
<1>2. Packed /\ Hashed /\ Accepted
  BY DEF Init, Packed, Hashed, Accepted
<1>3. first \in Int /\ hd.nonce = first
  <2>1. first \in Nonces /\ hd.nonce = first
    BY <1>1 DEF Init, TypeOK
  <2> QED BY <2>1, HeaderAssumption DEF Nonces, HeaderAssumption
<1>4. From(first, hd.nonce) = {}
  <2>1. From(first, hd.nonce) = first .. first - 1
    BY <1>3 DEF From
  <2> QED BY <1>3, <2>1
<1> QED BY <1>1, <1>2, <1>4 DEF Inv, Tried

(* Every step keeps it. *)
LEMMA StepInv == Inv /\ TypeOK' /\ [Next]_vars => Inv'
<1> SUFFICES ASSUME Inv, TypeOK', [Next]_vars PROVE Inv'
  OBVIOUS
<1>1. CASE Prepare
  <2>1. Packed'
    BY <1>1 DEF Prepare, Packed, SeriWithoutNonce
  <2>2. Hashed' /\ Accepted'
    BY <1>1 DEF Prepare, Hashed, Accepted
  <2>3. Tried'
    BY <1>1 DEF Prepare, Tried, Inv, From, Meets, WithNonce
  <2> QED BY <2>1, <2>2, <2>3 DEF Inv
<1>2. CASE TryNonce
  <2>1. hd \in Headers /\ buf \in Headers /\ hd.nonce \in Nonces
    BY DEF Inv, TypeOK, Headers
  <2>2. buf.rest = SeriRest[hd.rest] /\ buf.bts = hd.bts
    BY <1>2 DEF Inv, Packed, TryNonce
  <2>3. [buf EXCEPT !.nonce = hd.nonce] = SeriBlkHd(hd)
    <3>1. SeriRest[hd.rest] \in Rests
      BY <2>1, HeaderAssumption DEF HeaderAssumption, Headers
    <3> QED BY <2>1, <2>2, <3>1 DEF Headers, SeriBlkHd
  <2>4. buf' = SeriBlkHd(hd') /\ hs' = HashValue[SeriBlkHd(hd')] /\ hd' = hd
    BY <1>2, <2>3 DEF TryNonce
  <2>5. Packed'
    BY <1>2, <2>4 DEF TryNonce, Packed, SeriBlkHd
  <2>6. Hashed' /\ Accepted'
    BY <1>2, <2>4 DEF TryNonce, Hashed, Accepted
  <2>7. Tried'
    BY <1>2 DEF TryNonce, Tried, Inv, From, Meets, WithNonce
  <2> QED BY <2>5, <2>6, <2>7 DEF Inv
<1>3. CASE Found
  <2>1. Packed' /\ Hashed'
    BY <1>3 DEF Found, Packed, Hashed, Inv
  <2>2. Accepted'
    BY <1>3 DEF Found, Accepted, AboveTarget
  <2>3. Tried'
    BY <1>3 DEF Found, Tried, Inv, From, Meets, WithNonce
  <2> QED BY <2>1, <2>2, <2>3 DEF Inv
<1>4. CASE Bump
  <2>1. hd \in Headers /\ hd.nonce \in Nonces /\ first \in Nonces
    BY DEF Inv, TypeOK, Headers
  <2>2. PICK m \in Nonces : m = NextNonce(hd.nonce)
    BY <2>1, NextNonceValue
  <2>3. hd' = [hd EXCEPT !.nonce = m] /\ hd'.nonce = m
    BY <1>4, <2>1, <2>2, HeaderNonce DEF Bump
  <2>4. hd'.rest = hd.rest /\ hd'.bts = hd.bts
    BY <2>1, <2>2, <2>3, HeaderNonce
  <2>5. Packed' /\ Hashed' /\ Accepted'
    BY <1>4, <2>4 DEF Bump, Packed, Hashed, Accepted, Inv
  <2>6. ~Meets(WithNonce(hd.nonce))
    <3>1. hs = HashValue[SeriBlkHd(hd)]
      BY <1>4 DEF Bump, Inv, Hashed
    <3>2. WithNonce(hd.nonce) = hd
      BY <2>1 DEF WithNonce, Headers
    <3> QED BY <1>4, <3>1, <3>2 DEF Bump, AboveTarget, Meets
  <2>7. From(first, m) \subseteq From(first, hd.nonce) \cup {hd.nonce}
    BY <2>1, <2>2, PassedNonces
  <2>8. ASSUME NEW n \in From(first, m) PROVE ~Meets([hd' EXCEPT !.nonce = n])
    <3>1. ~Meets(WithNonce(n))
      BY <2>6, <2>7, <2>8 DEF Inv, Tried
    <3>2. [hd' EXCEPT !.nonce = n] = [hd EXCEPT !.nonce = n]
      BY <2>1, <2>3 DEF Headers
    <3> QED BY <3>1, <3>2 DEF WithNonce
  <2>9. Tried'
    BY <1>4, <2>3, <2>8 DEF Bump, Tried, From, Meets, WithNonce
  <2> QED BY <2>5, <2>9 DEF Inv
<1>5. CASE Returned \/ UNCHANGED vars
  <2>1. UNCHANGED vars
    BY <1>5 DEF Returned
  <2> QED BY <2>1 DEF vars, Inv, Packed, Hashed, Accepted, Tried, AboveTarget,
                      From, Meets, WithNonce
<1> QED BY <1>1, <1>2, <1>3, <1>4, <1>5 DEF Next

(* The invariant holds in every state. *)
LEMMA InvHolds == Spec => []Inv
<1>1. Spec => []TypeOK
  BY TypeCorrect
<1> QED BY <1>1, InitInv, StepInv, PTL DEF Spec

------------------------------------------------------------------------------
(* The header serialised after mining (kyk_seri_blk_hd, for the block file) is the *)
(* one whose hash kyk_hsh_nonce accepted.                                          *)
THEOREM MinedCorrect == Spec => []MinedMeetsTarget
<1>1. Inv => MinedMeetsTarget
  <2> SUFFICES ASSUME Inv, pc = "done" PROVE Meets(hd)
    BY DEF MinedMeetsTarget
  <2>1. hs = HashValue[SeriBlkHd(hd)] /\ ~AboveTarget
    BY DEF Inv, Hashed, Accepted
  <2> QED BY <2>1 DEF Meets, AboveTarget
<1> QED BY <1>1, InvHolds, PTL

(* kyk_hsh_nonce leaves out no nonce, not even around the end of the uint32_t. *)
THEOREM FirstNonceCorrect == Spec => []FirstNonce
<1>1. Inv => FirstNonce
  BY DEF Inv, Tried, FirstNonce
<1> QED BY <1>1, InvHolds, PTL

------------------------------------------------------------------------------
\* The programs around a header mine as kyk_hsh_nonce does.
THEOREM TestsMine == TestSpec => Spec
<1>1. TestInit => Init
  BY DEF TestInit
<1>2. [TestNext]_testVars => [Next]_vars
  <2>. SUFFICES ASSUME [TestNext]_testVars PROVE [Next]_vars
    OBVIOUS
  <2>1. CASE MineNonce
    BY <2>1 DEF MineNonce, Next
  <2>2. CASE TellTarget \/ DividesByZero \/ TellMined \/ TellHash
    BY <2>2 DEF TellTarget, DividesByZero, TellMined, TellHash
  <2>3. CASE UNCHANGED testVars
    BY <2>3 DEF testVars
  <2>. QED
    BY <2>1, <2>2, <2>3 DEF TestNext, Step, Ended
<1>. QED
  BY <1>1, <1>2, PTL DEF TestSpec, Spec

\* What main holds of the header while it mines, and what it has shown at its end.
ShownInv ==
    /\ at \in {"tell", "hash"} => hd.nonce = first
    /\ at \in {"tell", "hash", "mine"} => shown.hash = None /\ shown.nonce = None
    /\ DOMAIN shown = {"tg", "dlt", "hash", "nonce"}
    /\ HashAgrees

\* No program has shown anything at first.
LEMMA InitShown == TestInit => ShownInv
<1>. SUFFICES ASSUME TestInit PROVE ShownInv
  OBVIOUS
<1>1. at \in {"tell", "hash", "mine"} /\ at # "end"
  BY DEF TestInit, FirstDo
<1>. QED
  BY <1>1 DEF TestInit, Init, ShownInv, HashAgrees

\* Every step of a program keeps it: the hash shown is that of the header as it stands.
LEMMA StepShown == Inv /\ ShownInv /\ [TestNext]_testVars => ShownInv'
<1>. SUFFICES ASSUME Inv, ShownInv, [TestNext]_testVars PROVE ShownInv'
  OBVIOUS
<1>. USE DEF ShownInv
<1>1. hd \in Headers /\ first \in Nonces
  BY DEF Inv, TypeOK
<1>2. WithNonce(hd.nonce) = hd
  BY <1>1 DEF WithNonce, Headers
<1>3. \A n \in Nonces : n # None
  BY HeaderAssumption DEF HeaderAssumption, Nonces, None
<1>4. CASE TellTarget
  <2>1. at' \in {"mine", "end"} /\ shown'.hash = None /\ shown'.nonce = None
    BY <1>4 DEF TellTarget
  <2>. QED
    BY <1>4, <2>1 DEF TellTarget, HashAgrees
<1>5. CASE DividesByZero
  BY <1>5 DEF DividesByZero, HashAgrees
<1>6. CASE MineNonce
  BY <1>6 DEF MineNonce, HashAgrees
<1>7. CASE TellMined
  <2>1. shown'.hash = hs /\ shown'.nonce = hd.nonce /\ shown'.tg = Bts2Target(hd.bts)
    BY <1>7 DEF TellMined
  <2>2. hs = HashValue[SeriBlkHd(hd)] /\ ~(hs > Bts2Target(hd.bts))
    BY <1>7 DEF TellMined, Inv, Hashed, Accepted, AboveTarget
  <2>3. hd.nonce # None
    BY <1>1, <1>3 DEF Headers
  <2>4. hd' = hd /\ HashValue[SeriBlkHd(WithNonce(hd.nonce))] = hs /\ at' = "end"
    BY <1>2, <1>7, <2>2 DEF TellMined, vars
  <2>5. HashAgrees'
    BY <2>1, <2>2, <2>3, <2>4 DEF HashAgrees, WithNonce
  <2>. QED
    BY <1>7, <2>4, <2>5 DEF TellMined
<1>8. CASE TellHash
  <2>1. shown'.hash = HashValue[SeriBlkHd(hd)] /\ shown'.nonce = None /\ at' = "end"
    BY <1>8 DEF TellHash
  <2>2. hd.nonce = first /\ hd' = hd /\ first' = first
    BY <1>8 DEF TellHash, vars
  <2>3. HashAgrees'
    BY <1>2, <2>1, <2>2 DEF HashAgrees, WithNonce
  <2>. QED
    BY <1>8, <2>1, <2>3 DEF TellHash
<1>9. CASE UNCHANGED testVars
  BY <1>9 DEF testVars, vars, HashAgrees, WithNonce
<1>. QED
  BY <1>4, <1>5, <1>6, <1>7, <1>8, <1>9 DEF TestNext, Step, Ended

\* Whatever the hash function and the targets: the nonce a miner shows gives, in
\* block_hash_test, the hash it shows, and that meets the target it shows.
THEOREM HashShownCorrect == TestSpec => []HashAgrees
<1>1. TestSpec => []Inv
  BY TestsMine, InvHolds, PTL
<1>2. TestSpec => []ShownInv
  BY <1>1, InitShown, StepShown, PTL DEF TestSpec
<1>3. ShownInv => HashAgrees
  BY DEF ShownInv
<1>. QED
  BY <1>2, <1>3, PTL

------------------------------------------------------------------------------
(* The difficulty. *)

\* 256 ^ n is a natural.
LEMMA PowerNat ==
    ASSUME NEW n \in Nat
    PROVE  BytePower(n) \in Nat
<1>. DEFINE M(x) == Base * x
            F(p) == [j \in 0 .. n |-> IF j = 0 THEN 1 ELSE M(p[j - 1])]
            p == CHOOSE q : q = F(q)
            G == [x \in (1 .. n) \X Nat |-> M(x[2])]
<1>1. \A x \in Nat : M(x) \in Nat
  BY BaseAssumption DEF BaseAssumption
<1>2. G \in [(1 .. n) \X Nat -> Nat] /\ \A j \in 1 .. n, x \in Nat : G[<<j, x>>] = M(x)
  <2>. HIDE DEF M
  <2>. QED
    BY <1>1
<1>3. PICK f \in [0 .. n -> Nat] : StepSolves(f, n, 1, G)
  <2>. HIDE DEF G
  <2>. QED
    BY <1>2, StepSolution
<1>4. f = F(f)
  <2>. HIDE DEF M
  <2>1. \A j \in 1 .. n : j \in 1 .. n /\ f[j - 1] \in Nat
    OBVIOUS
  <2>2. \A j \in 1 .. n : f[j] = M(f[j - 1])
    <3>. HIDE DEF G
    <3>. QED
      BY <1>2, <1>3, <2>1 DEF StepSolves
  <2>. QED
    BY <1>3, <2>2 DEF StepSolves
<1>5. p = F(p)
  BY <1>4
<1>6. BytePower(n) = p[n]
  BY DEF BytePower, p
<1>. HIDE DEF M, p
<1>7. p[0] = 1 /\ \A j \in 1 .. n : p[j] = M(p[j - 1])
  BY <1>5
<1>8. p[0] \in Nat /\ \A j \in 1 .. n : p[j - 1] \in Nat => p[j] \in Nat
  <2>1. ASSUME NEW j \in 1 .. n, p[j - 1] \in Nat PROVE p[j] \in Nat
    <3>1. p[j] = M(p[j - 1])
      BY <1>7
    <3>. QED
      BY <1>1, <2>1, <3>1
  <2>. QED
    BY <1>7, <2>1
<1>9. p \in [0 .. n -> Nat]
  <2>. DEFINE W == {p[j] : j \in 0 .. n}
  <2>1. \A j \in 0 .. n : p[j] \in W
    OBVIOUS
  <2>2. p \in [0 .. n -> W]
    <3>. HIDE DEF W
    <3>. QED
      BY <1>5, <2>1
  <2>. HIDE DEF W
  <2>. QED
    BY <1>8, <2>2, StepType
<1>. QED
  BY <1>6, <1>9

\* A target is a natural.
LEMMA TargetNat ==
    ASSUME NEW b \in Bts
    PROVE  Bts2Target(b) \in Nat
<1>1. /\ Mantissas \in Nat /\ Mantissas > 0
      /\ b \in Nat /\ b >= 3 * Mantissas
  <2>1. Base \in Nat /\ Base > 0 /\ Bts \subseteq 3 * Mantissas .. Base * Mantissas - 1
    BY BaseAssumption, HeaderAssumption DEF BaseAssumption, HeaderAssumption
  <2>2. Mantissas \in Nat /\ Mantissas > 0
    <3>1. Base * Base \in Nat /\ Base * Base > 0
      BY <2>1
    <3>. QED
      BY <2>1, <3>1 DEF Mantissas
  <2>. QED
    BY <2>1, <2>2
<1>2. b \div Mantissas \in Nat /\ b % Mantissas \in Nat /\ b % Mantissas < Mantissas
      /\ b = (b % Mantissas) + Mantissas * (b \div Mantissas)
  BY <1>1, Division
<1>3. b \div Mantissas >= 3
  <2>. DEFINE e == b \div Mantissas
              r == b % Mantissas
  <2>1. e \in Nat /\ r \in Nat /\ r < Mantissas /\ b = r + Mantissas * e
    BY <1>2
  <2>. HIDE DEF e, r
  <2>2. ASSUME e <= 2 PROVE FALSE
    <3>1. Mantissas * e <= Mantissas * 2
      BY <1>1, <2>1, <2>2
    <3>. QED
      BY <1>1, <2>1, <3>1
  <2>3. e >= 3
    BY <2>1, <2>2
  <2>. QED
    BY <2>3 DEF e
<1>4. BytePower((b \div Mantissas) - 3) \in Nat
  BY <1>2, <1>3, PowerNat
<1>. QED
  BY <1>2, <1>4 DEF Bts2Target

\* mpz_cdiv_q: the least d that makes d times t reach m.
LEMMA RoundedUp ==
    ASSUME NEW m \in Nat, NEW t \in Nat, t # 0
    PROVE  LET d == (m + t - 1) \div t
           IN  d \in 0 .. m /\ d * t >= m /\ (d - 1) * t < m
<1>. DEFINE d == (m + t - 1) \div t
            r == (m + t - 1) % t
<1>1. m + t - 1 \in Nat /\ t > 0
  OBVIOUS
<1>2. d \in Nat /\ r \in Nat /\ r < t /\ m + t - 1 = r + t * d
  BY <1>1, Division
<1>. HIDE DEF d, r
<1>3. d * t = t * d /\ (d - 1) * t = t * d - t
  BY <1>2
<1>4. ASSUME d >= m + 1 PROVE FALSE
  <2>1. t * d >= t * (m + 1) /\ t * (m + 1) = t * m + t /\ t * m >= m
    BY <1>1, <1>2, <1>4
  <2>. QED
    BY <1>1, <1>2, <2>1
<1>5. d \in 0 .. m /\ d * t >= m /\ (d - 1) * t < m
  BY <1>1, <1>2, <1>3, <1>4
<1>. QED
  BY <1>5 DEF d

\* A difficulty that has been shown is that of the header, and so is the target.
ShownDlt ==
    /\ at = "abort" => Bts2Target(hd.bts) = 0
    /\ DOMAIN shown = {"tg", "dlt", "hash", "nonce"}
    /\ shown.dlt # None => /\ Bts2Target(hd.bts) # 0
                           /\ shown.tg = Bts2Target(hd.bts)
                           /\ shown.dlt = Bts2Dlt(hd.bts)

\* No difficulty has been shown at first.
LEMMA InitDlt == TestInit => ShownDlt
<1>. SUFFICES ASSUME TestInit PROVE ShownDlt
  OBVIOUS
<1>1. at # "abort" /\ shown = [tg |-> None, dlt |-> None, hash |-> None, nonce |-> None]
  BY DEF TestInit, FirstDo
<1>. QED
  BY <1>1 DEF ShownDlt

\* Mining changes the nonce of the header and nothing else of it.
LEMMA BtsStays == ASSUME TypeOK, MineNonce PROVE hd'.bts = hd.bts
<1>1. hd \in Headers /\ hd.nonce \in Nonces
  BY DEF TypeOK, Headers
<1>2. CASE Bump
  BY <1>1, <1>2, NextNonceValue, HeaderNonce DEF Bump
<1>. QED
  BY <1>2 DEF MineNonce, Prepare, TryNonce, Found

\* Every step keeps it.
LEMMA StepDlt == Inv /\ ShownDlt /\ [TestNext]_testVars => ShownDlt'
<1>. SUFFICES ASSUME Inv, ShownDlt, [TestNext]_testVars PROVE ShownDlt'
  OBVIOUS
<1>. USE DEF ShownDlt
<1>1. CASE TellTarget
  <2>1. hd' = hd /\ at' # "abort"
    BY <1>1 DEF TellTarget, vars
  <2>2. /\ DOMAIN shown' = {"tg", "dlt", "hash", "nonce"}
        /\ shown'.tg = Bts2Target(hd.bts) /\ shown'.dlt = Bts2Dlt(hd.bts)
    BY <1>1 DEF TellTarget
  <2>. QED
    BY <1>1, <2>1, <2>2 DEF TellTarget
<1>2. CASE DividesByZero
  BY <1>2 DEF DividesByZero, vars
<1>3. CASE MineNonce
  <2>1. hd'.bts = hd.bts
    BY <1>3, BtsStays DEF Inv
  <2>2. at' = at /\ shown' = shown
    BY <1>3 DEF MineNonce
  <2>. QED
    BY <2>1, <2>2
<1>4. CASE TellMined
  <2>1. /\ DOMAIN shown' = {"tg", "dlt", "hash", "nonce"}
        /\ shown'.tg = Bts2Target(hd.bts) /\ shown'.dlt = shown.dlt
        /\ hd' = hd /\ at' = "end"
    BY <1>4 DEF TellMined, vars
  <2>. QED
    BY <2>1
<1>5. CASE TellHash
  <2>1. /\ DOMAIN shown' = {"tg", "dlt", "hash", "nonce"}
        /\ shown'.tg = shown.tg /\ shown'.dlt = shown.dlt
        /\ hd' = hd /\ at' = "end"
    BY <1>5 DEF TellHash, vars
  <2>. QED
    BY <2>1
<1>6. CASE UNCHANGED testVars
  BY <1>6 DEF testVars, vars
<1>. QED
  BY <1>1, <1>2, <1>3, <1>4, <1>5, <1>6 DEF TestNext, Step, Ended

\* What ShownDlt says of the quotient is what a reader of the difficulty expects.
LEMMA DltCounts == Inv /\ ShownDlt => DifficultyAgrees
<1>. SUFFICES ASSUME Inv, ShownDlt, at = "end", shown.dlt # None
              PROVE  \E d \in 0 .. MaxTarget : /\ d * shown.tg >= MaxTarget
                                               /\ (d - 1) * shown.tg < MaxTarget
                                               /\ shown.dlt = d % NonceMod
  BY DEF DifficultyAgrees, ShownDlt
<1>. DEFINE t == Bts2Target(hd.bts)
            d == (MaxTarget + t - 1) \div t
<1>1. t \in Nat /\ t # 0 /\ shown.tg = t /\ shown.dlt = d % NonceMod
  BY TargetNat DEF Inv, TypeOK, Headers, ShownDlt, Bts2Dlt
<1>2. d \in 0 .. MaxTarget /\ d * t >= MaxTarget /\ (d - 1) * t < MaxTarget
  <2>. HIDE DEF t
  <2>. QED
    BY <1>1, RoundedUp, MaxTargetAssumption DEF MaxTargetAssumption
<1>. HIDE DEF t, d
<1>. QED
  BY <1>1, <1>2

\* Whatever the target of difficulty 1 and the widths: the hash a miner shows is that of the
\* header with the nonce shown and meets the target shown, the difficulty shown is how many
\* of the target cover that of difficulty 1, and only a target of zero ends a program early.
THEOREM ShownCorrect == TestSpec => []ShownAgrees
<1>1. TestSpec => []Inv
  BY TestsMine, InvHolds, PTL
<1>2. TestSpec => []ShownDlt
  BY <1>1, InitDlt, StepDlt, PTL DEF TestSpec
<1>3. HashAgrees /\ Inv /\ ShownDlt => ShownAgrees
  BY DltCounts DEF ShownAgrees
<1>. QED
  BY <1>1, <1>2, <1>3, HashShownCorrect, PTL

------------------------------------------------------------------------------
(* The genesis program. *)

\* The header of the block that pays key k, with nonce n, and the block.
HeaderFor(k, n) == [rest |-> SeriRest[TxHash[k]], bts |-> GensBts, nonce |-> n]

BlockOf(k, n) == <<SeriBlkHd(HeaderFor(k, n)), 1, k>>

\* n is the first nonce with which that header meets its target.
Mined(k, n) ==
    /\ Meets(HeaderFor(k, n))
    /\ \A i \in 0 .. n - 1 : ~Meets(HeaderFor(k, i))

GoodBlock(b) == \E k \in Keys, n \in Nonces : b = BlockOf(k, n) /\ Mined(k, n)

(* The types of a header for a key and of its serialised form. *)
LEMMA HeaderValue ==
    ASSUME NEW k \in Keys, NEW n \in Nonces
    PROVE  /\ SeriRest[TxHash[k]] \in Rests
           /\ HeaderFor(k, n) \in Headers
           /\ SeriBlkHd(HeaderFor(k, n)) = [rest |-> TxHash[k], bts |-> GensBts, nonce |-> n]
<1>1. TxHash[k] \in Rests /\ SeriRest[TxHash[k]] \in Rests /\ SeriRest[SeriRest[TxHash[k]]] = TxHash[k]
  BY HeaderAssumption, KeysAssumption DEF HeaderAssumption, KeysAssumption
<1>2. HeaderFor(k, n) \in Headers
  BY <1>1, KeysAssumption DEF KeysAssumption, HeaderFor, Headers
<1>3. SeriBlkHd(HeaderFor(k, n)) = [rest |-> TxHash[k], bts |-> GensBts, nonce |-> n]
  BY <1>1 DEF HeaderFor, SeriBlkHd
<1> QED BY <1>1, <1>2, <1>3

(* A block of a key on the disk is one of the first nonce: two of them are one. *)
LEMMA OneBlock ==
    ASSUME NEW a, NEW b, GoodBlock(a), GoodBlock(b), a[3] = b[3]
    PROVE  a = b
<1>1. PICK k \in Keys, n \in Nonces : a = BlockOf(k, n) /\ Mined(k, n)
  BY DEF GoodBlock
<1>2. PICK l \in Keys, m \in Nonces : b = BlockOf(l, m) /\ Mined(l, m)
  BY DEF GoodBlock
<1>3. k = l
  BY <1>1, <1>2 DEF BlockOf
<1>4. n \in Int /\ m \in Int /\ n >= 0 /\ m >= 0
  BY HeaderAssumption DEF HeaderAssumption, Nonces
<1>5. ~(n < m) /\ ~(m < n)
  <2>1. n < m => n \in 0 .. m - 1
    BY <1>4
  <2>2. m < n => m \in 0 .. n - 1
    BY <1>4
  <2> QED BY <1>1, <1>2, <1>3, <2>1, <2>2 DEF Mined
<1> QED BY <1>1, <1>2, <1>3, <1>4, <1>5

(* As much of a file of three parts as has three parts is all of it. *)
LEMMA WholePrefix ==
    ASSUME NEW x, NEW y, NEW z, NEW n \in 0 .. 3,
           Len(SubSeq(<<x, y, z>>, 1, n)) = 3
    PROVE  SubSeq(<<x, y, z>>, 1, n) = <<x, y, z>>
<1>1. PICK s : s = <<x, y, z>>
  OBVIOUS
<1>2. s \in Seq({x, y, z}) /\ Len(s) = 3 /\ s[1] = x /\ s[2] = y /\ s[3] = z
  BY <1>1
<1>3. SubSeq(s, 1, n) = [i \in 1 .. n |-> s[i]]
  BY <1>2, SubSeqProperties
<1>4. Len(SubSeq(s, 1, n)) = n
  BY <1>2, SubSeqProperties
<1>5. n = 3
  BY <1>1, <1>4
<1>6. SubSeq(s, 1, 3) = s
  BY <1>2, <1>3, <1>5, LenProperties
<1> QED BY <1>1, <1>5, <1>6

------------------------------------------------------------------------------
(* The inductive invariant. *)

\* The tree in the making is that of the transaction.
TreeInv ==
    stage = "tree" =>
        /\ input = <<tx>>
        /\ treePc \in {"parent", "done"} =>
            /\ pnt = 1
            /\ levels = <<[nd |-> <<[lft |-> 0, rgt |-> 0, ntype |-> "ROOT",
                                     bdy |-> SeriRest[TxHash[tx]]]>>, dwn |-> 0, inx |-> 1]>>

\* The header in the making is that of the transaction, the nonces below its own have been
\* tried in vain, and what is hashed is its serialised form.
MineInv ==
    stage \in {"mine", "close"} =>
        \E n \in Nonces :
            /\ hd = HeaderFor(tx, n)
            /\ \A i \in 0 .. n - 1 : ~Meets(HeaderFor(tx, i))
            /\ pc # "start" =>
                   buf.rest = TxHash[tx] /\ buf.bts = GensBts
            /\ pc \in {"compare", "done"} => hs = HashValue[SeriBlkHd(hd)]
            /\ pc = "done" => Meets(hd)
            /\ stage = "close" => pc = "done"

\* What the stream has buffered is the block.
OutInv == out = <<>> \/ (stage = "close" /\ out = BlockBytes)

DiskInv == Whole(disk) => GoodBlock(disk)

MadeInv == \A b \in made : GoodBlock(b)

IInv ==
    /\ tx \in Keys
    /\ treePc \in {"leafs", "parent", "done"}
    /\ buf \in Headers
    /\ TreeInv /\ MineInv /\ OutInv /\ DiskInv /\ MadeInv

(* The inductive invariant holds at first. *)
LEMMA InitGens == GensInit => IInv
<1> SUFFICES ASSUME GensInit PROVE IInv
  OBVIOUS
<1>1. tx \in Keys /\ treePc \in {"leafs", "parent", "done"} /\ buf \in Headers
  BY KeysAssumption DEF GensInit, KeysAssumption, Init
<1>2. TreeInv /\ MineInv /\ OutInv /\ MadeInv
  BY DEF GensInit, TreeInv, MineInv, OutInv, MadeInv
<1>3. DiskInv
  BY DEF GensInit, DiskInv, Whole
<1> QED BY <1>1, <1>2, <1>3 DEF IInv

(* make_mkl_tree_root on one transaction: its leaf is the root. *)
LEMMA MakeTreeInv == IInv /\ MakeTree => IInv'
<1> SUFFICES ASSUME IInv, MakeTree PROVE IInv'
  OBVIOUS
<1>1. stage = "tree" /\ stage' = "tree" /\ input = <<tx>> /\ tx \in Keys /\ tx' = tx
  BY DEF MakeTree, IInv, TreeInv
<1>2. buf' \in Headers /\ MineInv' /\ OutInv' /\ DiskInv' /\ MadeInv'
  BY <1>1 DEF MakeTree, vars, IInv, MineInv, OutInv, DiskInv, Whole, MadeInv
<1>3. TreeInv' /\ treePc' \in {"leafs", "parent", "done"}
  <2>1. CASE Tree!CreateLeafs
    <3>1. input' = input /\ pnt' = 1 /\ treePc' = "parent"
      BY <2>1 DEF Tree!CreateLeafs, Tree!LeafLevel
    <3>2. PICK leafs : leafs = [i \in 1 .. Len(input) |-> Tree!HashedLeaf(input[i])]
      OBVIOUS
    <3>3. leafs = <<Tree!HashedLeaf(tx)>>
      BY <1>1, <3>2
    <3>4. Tree!MarkRoot(leafs)
            = <<[lft |-> 0, rgt |-> 0, ntype |-> "ROOT", bdy |-> SeriRest[TxHash[tx]]]>>
      BY <3>3 DEF Tree!MarkRoot, Tree!HashedLeaf
    <3>5. levels' = <<[nd |-> Tree!MarkRoot(leafs), dwn |-> 0, inx |-> 1]>>
      BY <2>1, <3>2 DEF Tree!CreateLeafs, Tree!LeafLevel
    <3> QED BY <1>1, <3>1, <3>4, <3>5 DEF TreeInv
  <2>2. CASE Tree!CreateParent
    <3>1. treePc = "parent" /\ input' = input
      BY <2>2 DEF Tree!CreateParent
    <3>2. pnt = 1 /\ levels = <<[nd |-> <<[lft |-> 0, rgt |-> 0, ntype |-> "ROOT",
                                           bdy |-> SeriRest[TxHash[tx]]]>>, dwn |-> 0, inx |-> 1]>>
      BY <1>1, <3>1 DEF IInv, TreeInv
    <3>3. Tree!RootLevel(levels[pnt])
      BY <3>2 DEF Tree!RootLevel
    <3>4. UNCHANGED <<levels, pnt>>
      BY <2>2, <3>3 DEF Tree!CreateParent
    <3>5. treePc' \in {"parent", "done"}
      BY <2>2 DEF Tree!CreateParent, Tree!Returns
    <3> QED BY <1>1, <3>1, <3>2, <3>4, <3>5 DEF TreeInv
  <2> QED BY <2>1, <2>2 DEF MakeTree
<1> QED BY <1>1, <1>2, <1>3 DEF IInv

(* The header that is filled in is that of the transaction, with nonce 0. *)
LEMMA FillHeaderInv == IInv /\ FillHeader => IInv'
<1> SUFFICES ASSUME IInv, FillHeader PROVE IInv'
  OBVIOUS
<1>1. tx' = tx /\ tx \in Keys /\ treePc' = treePc /\ buf' \in Headers
  BY DEF FillHeader, treeVars, IInv
<1>2. levels[pnt].nd[1].bdy = SeriRest[TxHash[tx]]
  BY DEF FillHeader, IInv, TreeInv
<1>3. hd' = HeaderFor(tx, 0) /\ 0 \in Nonces
  BY <1>2, HeaderAssumption DEF FillHeader, HeaderFor, HeaderAssumption, Nonces
<1>4. MineInv'
  BY <1>1, <1>3 DEF FillHeader, MineInv
<1>5. TreeInv' /\ OutInv' /\ DiskInv' /\ MadeInv'
  BY DEF FillHeader, IInv, TreeInv, OutInv, DiskInv, Whole, MadeInv
<1> QED BY <1>1, <1>4, <1>5 DEF IInv, FillHeader

(* The miner keeps what is known of the header and the buffer. *)
LEMMA MineStepInv == IInv /\ Mine => IInv'
<1> SUFFICES ASSUME IInv, Mine PROVE IInv'
  OBVIOUS
<1>1. stage = "mine" /\ stage' = "mine" /\ tx' = tx /\ tx \in Keys /\ UNCHANGED treeVars
  BY DEF Mine, IInv
<1>2. TreeInv' /\ OutInv' /\ DiskInv' /\ MadeInv' /\ treePc' \in {"leafs", "parent", "done"}
  BY <1>1 DEF Mine, treeVars, IInv, TreeInv, OutInv, DiskInv, Whole, MadeInv
<1>3. PICK n \in Nonces :
        /\ hd = HeaderFor(tx, n)
        /\ \A i \in 0 .. n - 1 : ~Meets(HeaderFor(tx, i))
        /\ pc # "start" => buf.rest = TxHash[tx] /\ buf.bts = GensBts
        /\ pc \in {"compare", "done"} => hs = HashValue[SeriBlkHd(hd)]
        /\ pc = "done" => Meets(hd)
  BY <1>1 DEF IInv, MineInv
<1>4. buf \in Headers /\ hd.nonce = n /\ hd.bts = GensBts /\ hd.rest = SeriRest[TxHash[tx]]
  BY <1>3 DEF IInv, HeaderFor
<1>5. TxHash[tx] \in Rests /\ SeriRest[SeriRest[TxHash[tx]]] = TxHash[tx] /\ GensBts \in Bts
  BY <1>1, KeysAssumption DEF KeysAssumption
<1>6. buf' \in Headers /\ MineInv'
  <2>1. CASE Prepare
    <3>1. hd' = hd /\ pc' = "try" /\ buf' = [rest |-> TxHash[tx], bts |-> GensBts, nonce |-> buf.nonce]
      BY <2>1, <1>4, <1>5 DEF Prepare, SeriWithoutNonce
    <3>2. buf' \in Headers /\ buf'.rest = TxHash[tx] /\ buf'.bts = GensBts
      BY <3>1, <1>4, <1>5 DEF Headers
    <3> QED BY <1>1, <1>3, <3>1, <3>2 DEF MineInv
  <2>2. CASE TryNonce
    <3>1. hd' = hd /\ pc' = "compare" /\ pc = "try"
          /\ buf' = [buf EXCEPT !.nonce = hd.nonce] /\ hs' = HashValue[buf']
      BY <2>2 DEF TryNonce
    <3>2. buf' = [rest |-> TxHash[tx], bts |-> GensBts, nonce |-> n]
      BY <3>1, <1>3, <1>4 DEF Headers
    <3>3. buf' = SeriBlkHd(hd')
      BY <3>1, <3>2, <1>1, <1>3, HeaderValue
    <3>4. buf' \in Headers
      BY <3>2, <1>5 DEF Headers
    <3>5. buf'.rest = TxHash[tx] /\ buf'.bts = GensBts
      BY <3>2
    <3>6. hs' = HashValue[SeriBlkHd(hd')]
      BY <3>1, <3>3
    <3> QED BY <1>1, <1>3, <3>1, <3>4, <3>5, <3>6 DEF MineInv
  <2>3. CASE Found
    <3>1. pc = "compare" /\ pc' = "done" /\ UNCHANGED <<hd, buf, hs>>
      BY <2>3 DEF Found
    <3>2. Meets(hd)
      BY <2>3, <3>1, <1>3 DEF Found, AboveTarget, Meets
    <3>3. Meets(hd')
      BY <3>1, <3>2
    <3>4. hs' = HashValue[SeriBlkHd(hd')]
      BY <3>1, <1>3
    <3> QED BY <1>1, <1>3, <1>4, <3>1, <3>3, <3>4 DEF MineInv
  <2>4. CASE Bump
    <3>1. pc = "compare" /\ pc' = "try" /\ UNCHANGED <<buf, hs>>
          /\ hd' = [hd EXCEPT !.nonce = NextNonce(hd.nonce)]
      BY <2>4 DEF Bump
    <3>2. ~Meets(HeaderFor(tx, n))
      BY <2>4, <3>1, <1>3 DEF Bump, AboveTarget, Meets
    <3>3. PICK m \in Nonces : m = NextNonce(n)
      BY NextNonceValue
    <3>4. hd' = HeaderFor(tx, m)
      BY <3>1, <3>3, <1>3, <1>4 DEF HeaderFor
    <3>5. \A i \in 0 .. m - 1 : i \in 0 .. n - 1 \/ i = n
      BY <3>3, NextNonceValue, HeaderAssumption DEF HeaderAssumption, Nonces
    <3>6. \A i \in 0 .. m - 1 : ~Meets(HeaderFor(tx, i))
      BY <3>2, <3>5, <1>3
    <3> QED BY <1>1, <1>3, <1>4, <3>1, <3>4, <3>6 DEF MineInv
  <2> QED BY <2>1, <2>2, <2>3, <2>4 DEF Mine
<1> QED BY <1>1, <1>2, <1>6 DEF IInv

(* The stream, the file and the other steps. *)
LEMMA OtherStepsInv ==
    IInv /\ (Open \/ OpenFails \/ (\E k \in Keys : TreeOf(k)) \/ Killed \/ Rerun) => IInv'
<1> SUFFICES ASSUME IInv, Open \/ OpenFails \/ (\E k \in Keys : TreeOf(k)) \/ Killed \/ Rerun
             PROVE  IInv'
  OBVIOUS
<1>1. CASE Open
  <2>1. DiskInv'
    BY <1>1 DEF Open, DiskInv, Whole
  <2> QED BY <1>1, <2>1 DEF Open, treeVars, vars, IInv, TreeInv, MineInv, OutInv, MadeInv
<1>2. CASE OpenFails
  BY <1>2 DEF OpenFails, treeVars, vars, IInv, TreeInv, MineInv, OutInv, DiskInv, Whole,
              MadeInv
<1>3. ASSUME NEW k \in Keys, TreeOf(k) PROVE IInv'
  BY <1>3 DEF TreeOf, vars, IInv, TreeInv, MineInv, OutInv, DiskInv, Whole, MadeInv
<1>4. CASE Killed
  BY <1>4 DEF Killed, Dies, treeVars, vars, IInv, TreeInv, MineInv, OutInv, DiskInv, Whole,
              MadeInv
<1>5. CASE Rerun
  BY <1>5 DEF Rerun, treeVars, IInv, TreeInv, MineInv, OutInv, DiskInv, Whole, MadeInv
<1> QED BY <1>1, <1>2, <1>3, <1>4, <1>5

(* What is buffered is a mined block, and what is on the disk is a part of it. *)
LEMMA BlockInv == IInv /\ (Write \/ WriteFails \/ Close) => IInv'
<1> SUFFICES ASSUME IInv, Write \/ WriteFails \/ Close PROVE IInv'
  OBVIOUS
<1>1. CASE Write
  <2>1. stage = "mine" /\ stage' = "close" /\ pc = "done" /\ out' = BlockBytes
        /\ UNCHANGED <<disk, tx, input, levels, pnt, treePc, hd, buf, hs, pc, made>>
    BY <1>1 DEF Write, treeVars, vars
  <2>2. BlockBytes' = BlockBytes
    BY <2>1 DEF BlockBytes, SeriBlkHd
  <2>3. OutInv'
    BY <2>1, <2>2 DEF OutInv
  <2>4. TreeInv' /\ MineInv' /\ DiskInv' /\ MadeInv'
    BY <2>1 DEF IInv, TreeInv, MineInv, DiskInv, Whole, MadeInv
  <2> QED BY <2>1, <2>3, <2>4 DEF IInv
<1>2. CASE WriteFails
  BY <1>2 DEF WriteFails, Dies, treeVars, vars, IInv, TreeInv, MineInv, OutInv, DiskInv,
              Whole, MadeInv
<1>3. CASE Close
  <2>1. stage = "close" /\ stage' = "ended" /\ out' = <<>>
        /\ UNCHANGED <<tx, input, levels, pnt, treePc, hd, buf, hs, pc>>
    BY <1>3 DEF Close, treeVars, vars
  <2>2. PICK n \in 0 .. Len(out) : disk' = SubSeq(out, 1, n)
    BY <1>3 DEF Close
  <2>3. Len(disk') = 3 => GoodBlock(disk')
    <3>1. PICK m \in Nonces :
            /\ hd = HeaderFor(tx, m)
            /\ \A i \in 0 .. m - 1 : ~Meets(HeaderFor(tx, i))
            /\ pc = "done" => Meets(hd)
            /\ stage = "close" => pc = "done"
      BY <2>1 DEF IInv, MineInv
    <3>2. Mined(tx, m) /\ tx \in Keys
      BY <2>1, <3>1 DEF Mined, IInv
    <3>3. CASE out = <<>>
      <4>1. n = 0
        BY <2>2, <3>3
      <4>2. disk' = <<>>
        BY <2>2, <3>3, <4>1, SubSeqEmpty
      <4> QED BY <4>2
    <3>4. CASE out = BlockBytes
      <4>1. out = BlockOf(tx, m)
        BY <3>1, <3>4 DEF BlockBytes, BlockOf
      <4>2. Len(out) = 3
        BY <4>1 DEF BlockOf
      <4>3. Len(disk') = 3 => disk' = out
        BY <2>2, <4>1, <4>2, WholePrefix DEF BlockOf
      <4> QED BY <3>2, <4>1, <4>3 DEF GoodBlock
    <3> QED BY <3>3, <3>4 DEF IInv, OutInv
  <2>4. DiskInv' /\ MadeInv'
    BY <1>3, <2>3 DEF Close, DiskInv, Whole, MadeInv, IInv
  <2> QED BY <2>1, <2>4 DEF IInv, TreeInv, MineInv, OutInv
<1> QED BY <1>1, <1>2, <1>3

(* Every step keeps the invariant. *)
LEMMA StepGens == IInv /\ [GensNext]_gensVars => IInv'
<1> SUFFICES ASSUME IInv, [GensNext]_gensVars PROVE IInv'
  OBVIOUS
<1>1. CreateTx \/ CreateTxWithoutPem => \E k \in Keys : TreeOf(k)
  BY KeysAssumption DEF CreateTx, CreateTxWithoutPem, KeysAssumption
<1>2. CASE UNCHANGED gensVars
  BY <1>2 DEF gensVars, treeVars, vars, IInv, TreeInv, MineInv, OutInv, BlockBytes, DiskInv, Whole,
              MadeInv, SeriBlkHd
<1>3. CASE Over
  BY <1>2, <1>3 DEF Over
<1> QED BY <1>1, <1>2, <1>3, OtherStepsInv, MakeTreeInv, FillHeaderInv, MineStepInv, BlockInv
        DEF GensNext, Main

(* The invariant holds in every state. *)
LEMMA GensHolds == GensSpec => []IInv
<1> QED BY InitGens, StepGens, PTL DEF GensSpec

------------------------------------------------------------------------------
(* The block on the disk commits to its transaction, and its header is mined: the tree, *)
(* the header and the miner's buffer agree on the byte order of the root.               *)
THEOREM BlockCommitsCorrect == GensSpec => []BlockCommits
<1>1. IInv => BlockCommits
  <2> SUFFICES ASSUME IInv, Whole(disk) PROVE BlockCommits
    BY DEF BlockCommits
  <2>1. PICK k \in Keys, n \in Nonces : disk = BlockOf(k, n) /\ Mined(k, n)
    BY DEF IInv, DiskInv, GoodBlock
  <2>2. disk[1] = [rest |-> TxHash[k], bts |-> GensBts, nonce |-> n] /\ disk[3] = k
    BY <2>1, HeaderValue DEF BlockOf
  <2>3. ~(HashValue[disk[1]] > Bts2Target(GensBts))
    <3>1. Meets(HeaderFor(k, n)) /\ HeaderFor(k, n).bts = GensBts
      BY <2>1 DEF Mined, HeaderFor
    <3>2. disk[1] = SeriBlkHd(HeaderFor(k, n))
      BY <2>1 DEF BlockOf
    <3> QED BY <3>1, <3>2 DEF Meets
  <2> QED BY <2>2, <2>3 DEF BlockCommits
<1> QED BY <1>1, GensHolds, PTL

(* kyk_gens_block makes one block for a key, whatever its stack holds when it starts. *)
THEOREM SameBlockAgainCorrect == GensSpec => []SameBlockAgain
<1>1. IInv => SameBlockAgain
  BY OneBlock DEF IInv, MadeInv, SameBlockAgain
<1> QED BY <1>1, GensHolds, PTL
------------------------------------------------------------------------------
(* The types. *)

\* A level of one node, as trees of one transaction have it.
LeafLevelOf(d) ==
    <<[nd |-> <<[lft |-> 0, rgt |-> 0, ntype |-> "ROOT", bdy |-> d]>>, dwn |-> 0, inx |-> 1]>>

LevelType == [nd : Seq(Tree!LeafNodes \cup Tree!BranchNodes), dwn : Nat, inx : Nat]

LEMMA LeafLevelType ==
    ASSUME NEW d \in Rests
    PROVE  LeafLevelOf(d) \in Seq(LevelType) /\ Len(LeafLevelOf(d)) = 1
<1>1. PICK x : x = [lft |-> 0, rgt |-> 0, ntype |-> "ROOT", bdy |-> d]
  OBVIOUS
<1>2. x \in Tree!LeafNodes \cup Tree!BranchNodes
  BY <1>1 DEF Tree!LeafNodes
<1>3. PICK y : y = [nd |-> <<x>>, dwn |-> 0, inx |-> 1]
  OBVIOUS
<1>4. <<x>> \in Seq(Tree!LeafNodes \cup Tree!BranchNodes)
  BY <1>2
<1>5. y \in LevelType
  BY <1>3, <1>4 DEF LevelType
<1>6. LeafLevelOf(d) = <<y>>
  BY <1>1, <1>3 DEF LeafLevelOf
<1> QED BY <1>5, <1>6

(* A header and its serialised form are headers. *)
LEMMA SeriType ==
    ASSUME NEW h \in Headers
    PROVE  SeriBlkHd(h) \in Headers
<1>1. SeriRest[h.rest] \in Rests
  BY HeaderAssumption DEF HeaderAssumption, Headers
<1> QED BY <1>1 DEF SeriBlkHd, Headers

(* The parts of a file that fclose has written. *)
LEMMA PartTypes ==
    ASSUME NEW h \in Headers, NEW k \in Keys, NEW n \in 0 .. 3,
           NEW s, s = SubSeq(<<h, 1, k>>, 1, n)
    PROVE  /\ Len(s) <= 3
           /\ Len(s) >= 1 => s[1] \in Headers
           /\ Len(s) >= 2 => s[2] = 1
           /\ Len(s) = 3 => s[3] \in Keys
<1>1. PICK b : b = <<h, 1, k>>
  OBVIOUS
<1>2. Len(b) = 3 /\ b[1] = h /\ b[2] = 1 /\ b[3] = k /\ b \in Seq({h, 1, k})
  BY <1>1
<1>3. /\ Len(s) = n
      /\ \A j \in 1 .. n : s[j] = b[j]
  <2>1. s = [j \in 1 .. n |-> b[j]] /\ Len(s) = n
    BY <1>1, <1>2, SubSeqProperties
  <2> QED BY <2>1
<1> QED BY <1>2, <1>3

LEMMA MakeTreeTypes ==
    ASSUME GensTypeOK, IInv, IInv', MakeTree
    PROVE  GensTypeOK'
<1>1. /\ stage = "tree" /\ input = <<tx>> /\ tx \in Keys
      /\ UNCHANGED <<disk, fp, out, tx, hd, buf, hs, pc, first, said, runs, stage>>
  BY DEF MakeTree, vars, IInv, TreeInv
<1>2. Tree!TypeOK'
  <2>1. /\ input' = input
        /\ treePc' \in {"parent", "done"}
    BY DEF MakeTree, Tree!CreateLeafs, Tree!LeafLevel, Tree!CreateParent, Tree!Returns
  <2>2. pnt' = 1 /\ levels' = LeafLevelOf(SeriRest[TxHash[tx]])
    BY <1>1, <2>1 DEF IInv, TreeInv, LeafLevelOf
  <2>3. SeriRest[TxHash[tx]] \in Rests
    BY <1>1, HeaderAssumption, KeysAssumption DEF HeaderAssumption, KeysAssumption
  <2>4. levels' \in Seq(LevelType) /\ Len(levels') = 1
    BY <2>2, <2>3, LeafLevelType
  <2>5. pnt' \in 0 .. Len(levels')
    BY <2>2, <2>4
  <2> QED BY <1>1, <2>1, <2>4, <2>5 DEF GensTypeOK, Tree!TypeOK, LevelType
<1>3. TypeOK'
  BY <1>1 DEF GensTypeOK, TypeOK
<1>4. BlockBytes' = BlockBytes
  BY <1>1 DEF BlockBytes, SeriBlkHd
<1> QED BY <1>1, <1>2, <1>3, <1>4 DEF GensTypeOK

LEMMA MineTypes ==
    ASSUME GensTypeOK, IInv, Mine
    PROVE  GensTypeOK'
<1>1. /\ stage = "mine" /\ out = <<>>
      /\ UNCHANGED <<disk, fp, out, tx, input, levels, pnt, treePc, said, runs, stage>>
  BY DEF Mine, treeVars, IInv, OutInv
<1>2. TypeOK'
  <2>1. CASE Prepare
    <3>1. SeriRest[hd.rest] \in Rests
      BY HeaderAssumption DEF HeaderAssumption, GensTypeOK, TypeOK, Headers
    <3> QED BY <2>1, <3>1 DEF Prepare, SeriWithoutNonce, GensTypeOK, TypeOK,
                              Headers
  <2>2. CASE TryNonce
    <3>1. buf' \in Headers
      BY <2>2 DEF TryNonce, GensTypeOK, TypeOK, Headers
    <3>2. HashValue[buf'] \in Nat
      BY <3>1, HeaderAssumption DEF HeaderAssumption
    <3> QED BY <2>2, <3>1, <3>2 DEF TryNonce, GensTypeOK, TypeOK
  <2>3. CASE Found
    BY <2>3 DEF Found, GensTypeOK, TypeOK
  <2>4. CASE Bump
    <3>1. hd.nonce \in Nonces
      BY DEF GensTypeOK, TypeOK, Headers
    <3>2. NextNonce(hd.nonce) \in Nonces
      BY <3>1, NextNonceValue
    <3>3. hd' \in Headers
      BY <2>4, <3>2 DEF Bump, GensTypeOK, TypeOK, Headers
    <3> QED BY <2>4, <3>3 DEF Bump, GensTypeOK, TypeOK
  <2> QED BY <2>1, <2>2, <2>3, <2>4 DEF Mine
<1>3. Tree!TypeOK'
  BY <1>1 DEF GensTypeOK, Tree!TypeOK
<1> QED BY <1>1, <1>2, <1>3 DEF GensTypeOK

LEMMA OtherTypes ==
    ASSUME GensTypeOK, IInv,
           \/ Open \/ OpenFails \/ (\E k \in Keys : TreeOf(k)) \/ FillHeader
           \/ Write \/ WriteFails \/ Close \/ Killed \/ Rerun
    PROVE  GensTypeOK'
<1>1. CASE Open \/ OpenFails \/ (\E k \in Keys : TreeOf(k))
  <2>1. /\ out = <<>> /\ out' = <<>>
        /\ UNCHANGED <<hd, buf, hs, pc, first, said, runs>>
        /\ disk' \in {disk, <<>>} /\ fp' \in BOOLEAN /\ tx' \in Keys
        /\ stage' \in {"tx", "tree"}
    BY <1>1 DEF Open, OpenFails, TreeOf, vars, IInv, OutInv, GensTypeOK
  <2>2. TypeOK'
    BY <2>1 DEF GensTypeOK, TypeOK
  <2>3. Tree!TypeOK'
    <3>1. CASE Open \/ OpenFails
      BY <3>1 DEF Open, OpenFails, treeVars, GensTypeOK, Tree!TypeOK
    <3>2. ASSUME NEW k \in Keys, TreeOf(k) PROVE Tree!TypeOK'
      <4>1. input' = <<k>> /\ levels' = <<>> /\ pnt' = 0 /\ treePc' = "leafs"
        BY <3>2 DEF TreeOf
      <4>2. input' \in Lists
        BY <4>1 DEF Lists
      <4>3. levels' \in Seq(LevelType) /\ Len(levels') = 0
        BY <4>1
      <4> QED BY <4>1, <4>2, <4>3 DEF Tree!TypeOK, LevelType
    <3> QED BY <1>1, <3>1, <3>2
  <2> QED BY <2>1, <2>2, <2>3 DEF GensTypeOK
<1>2. CASE FillHeader
  <2>1. /\ out = <<>> /\ out' = <<>> /\ stage' = "mine"
        /\ UNCHANGED <<disk, fp, tx, input, levels, pnt, treePc, said, runs>>
    BY <1>2 DEF FillHeader, treeVars, IInv, OutInv
  <2>2. levels[pnt].nd[1].bdy = SeriRest[TxHash[tx]]
    BY <1>2 DEF FillHeader, IInv, TreeInv
  <2>3. hd' = HeaderFor(tx, 0) /\ 0 \in Nonces /\ tx \in Keys
    BY <1>2, <2>2, HeaderAssumption DEF FillHeader, HeaderFor, HeaderAssumption, Nonces, IInv
  <2>4. hd' \in Headers
    BY <2>3, HeaderValue
  <2>5. TypeOK'
    BY <1>2, <2>3, <2>4 DEF FillHeader, TypeOK
  <2>6. Tree!TypeOK'
    BY <2>1 DEF GensTypeOK, Tree!TypeOK
  <2> QED BY <2>1, <2>5, <2>6 DEF GensTypeOK
<1>3. CASE Write \/ WriteFails \/ Killed
  <2>1. /\ UNCHANGED <<disk, fp, tx, input, levels, pnt, treePc, hd, buf, hs, pc, first, runs>>
        /\ out' \in {<<>>, BlockBytes} /\ said' \in BOOLEAN /\ stage' \in {"close", "ended"}
    BY <1>3 DEF Write, WriteFails, Killed, Dies, treeVars, vars, GensTypeOK
  <2>2. BlockBytes' = BlockBytes
    BY <2>1 DEF BlockBytes, SeriBlkHd
  <2>3. Tree!TypeOK' /\ TypeOK'
    BY <2>1 DEF GensTypeOK, Tree!TypeOK, TypeOK
  <2> QED BY <2>1, <2>2, <2>3 DEF GensTypeOK
<1>4. CASE Close
  <2>1. /\ UNCHANGED <<fp, tx, input, levels, pnt, treePc, hd, buf, hs, pc, first, said, runs>>
        /\ out' = <<>> /\ stage' = "ended"
    BY <1>4 DEF Close, treeVars, vars
  <2>2. PICK n \in 0 .. Len(out) : disk' = SubSeq(out, 1, n)
    BY <1>4 DEF Close
  <2>3. /\ Len(disk') <= 3
        /\ Len(disk') >= 1 => disk'[1] \in Headers
        /\ Len(disk') >= 2 => disk'[2] = 1
        /\ Len(disk') = 3 => disk'[3] \in Keys
    <3>1. CASE out = <<>>
      <4>1. n = 0
        BY <2>2, <3>1
      <4>2. disk' = <<>>
        BY <2>2, <3>1, <4>1, SubSeqEmpty
      <4> QED BY <4>2
    <3>2. CASE out = BlockBytes
      <4>1. hd \in Headers /\ tx \in Keys
        BY DEF GensTypeOK, TypeOK
      <4>2. PICK h \in Headers : h = SeriBlkHd(hd)
        BY <4>1, SeriType
      <4>3. out = <<h, 1, tx>> /\ Len(out) = 3
        BY <3>2, <4>2 DEF BlockBytes
      <4>4. disk' = SubSeq(<<h, 1, tx>>, 1, n) /\ n \in 0 .. 3
        BY <2>2, <4>3
      <4> QED BY <4>1, <4>2, <4>4, PartTypes
    <3> QED BY <3>1, <3>2 DEF GensTypeOK
  <2>4. Tree!TypeOK' /\ TypeOK'
    BY <2>1 DEF GensTypeOK, Tree!TypeOK, TypeOK
  <2> QED BY <2>1, <2>3, <2>4 DEF GensTypeOK
<1>5. CASE Rerun
  <2>1. /\ UNCHANGED <<disk, fp, tx, input, levels, pnt, treePc, buf, hs, first>>
        /\ out = <<>> /\ out' = <<>> /\ said' = FALSE /\ stage' = "open"
        /\ hd' \in Headers /\ pc' = "start"
    BY <1>5 DEF Rerun, treeVars, IInv, OutInv
  <2>2. runs' \in 1 .. MaxRuns
    BY <1>5, KeysAssumption DEF Rerun, GensTypeOK, KeysAssumption
  <2>3. Tree!TypeOK' /\ TypeOK'
    BY <2>1 DEF GensTypeOK, Tree!TypeOK, TypeOK
  <2> QED BY <2>1, <2>2, <2>3 DEF GensTypeOK
<1> QED BY <1>1, <1>2, <1>3, <1>4, <1>5

(* The types of the program, of its tree and of its miner, through kills and reruns: what  *)
(* is on the disk is a block or a beginning of one, and what is buffered is the block.     *)
THEOREM TypesCorrect == GensSpec => []GensTypeOK
<1>1. GensInit => GensTypeOK
  <2> SUFFICES ASSUME GensInit PROVE GensTypeOK
    OBVIOUS
  <2>1. tx \in Keys /\ runs \in 1 .. MaxRuns
    BY KeysAssumption DEF GensInit, KeysAssumption
  <2>2. Tree!TypeOK
    <3>1. input \in Lists
      BY KeysAssumption DEF GensInit, KeysAssumption, Lists
    <3>2. levels \in Seq(LevelType) /\ Len(levels) = 0
      BY DEF GensInit
    <3> QED BY <3>1, <3>2 DEF GensInit, Tree!TypeOK, LevelType
  <2>3. TypeOK
    BY DEF GensInit, Init, TypeOK, Headers
  <2>4. disk = <<>> /\ Len(disk) = 0
    BY DEF GensInit
  <2>5. out \in {<<>>, BlockBytes} /\ fp \in BOOLEAN /\ said \in BOOLEAN
        /\ stage \in {"open", "tx", "tree", "mine", "close", "ended"}
    BY DEF GensInit
  <2> QED BY <2>1, <2>2, <2>3, <2>4, <2>5 DEF GensTypeOK
<1>2. GensTypeOK /\ IInv /\ IInv' /\ [GensNext]_gensVars => GensTypeOK'
  <2> SUFFICES ASSUME GensTypeOK, IInv, IInv', [GensNext]_gensVars PROVE GensTypeOK'
    OBVIOUS
  <2>1. CreateTx \/ CreateTxWithoutPem => \E k \in Keys : TreeOf(k)
    BY KeysAssumption DEF CreateTx, CreateTxWithoutPem, KeysAssumption
  <2>2. CASE UNCHANGED gensVars
    BY <2>2 DEF gensVars, treeVars, vars, GensTypeOK, Tree!TypeOK, TypeOK, BlockBytes,
                SeriBlkHd
  <2> QED BY <2>1, <2>2, MakeTreeTypes, MineTypes, OtherTypes DEF GensNext, Main, Over
<1> QED BY <1>1, <1>2, GensHolds, PTL DEF GensSpec
==============================================================================
