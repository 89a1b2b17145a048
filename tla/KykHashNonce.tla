---------------------------- MODULE KykHashNonce ----------------------------
(***************************************************************************)
(* The miner of kyk_hash_nonce.c: kyk_hsh_nonce tries the nonces of a block   *)
(* header in turn until the double hash of the header, read as a number, is   *)
(* at most the target that its bts field stands for.                          *)
(*                                                                         *)
(* The fields the loop leaves alone are one value, rest; a serialised header  *)
(* is the serialised rest, with the two hashes in it reversed, bts and nonce. *)
(* The nonce is a uint32_t: after the *)
(* last one comes 0, and a header no nonce fits is tried for ever.            *)
(***************************************************************************)
EXTENDS Bytes

CONSTANTS Rests,     \* version, previous block, Merkle root and time
          SeriRest,  \* these as they are serialised
          Bts,       \* the values of bts looked at
          NonceMod,  \* the values of a uint32_t (2^32)
          HashValue  \* kyk_dgst_hash256 of a serialised header, reversed and imported

Nonces == 0 .. NonceMod - 1

Headers == [rest : Rests, bts : Bts, nonce : Nonces]

\* 0xffffff + 1: the values of a mantissa.
Mantissas == Base * Base * Base

\* The exponent is at least 3: below it ep - 3 becomes an enormous unsigned power.
ASSUME HeaderAssumption ==
    /\ NonceMod \in Nat \ {0}
    /\ Bts \subseteq 3 * Mantissas .. Base * Mantissas - 1
    /\ SeriRest \in [Rests -> Rests]
    /\ HashValue \in [Headers -> Nat]

VARIABLES hd,    \* the header passed in
          buf,   \* hd_buf: the header as serialised so far
          hs,    \* the number the hash stands for
          pc,    \* "start", "try", "compare" or "done"
          first  \* the nonce the header came with (read by the properties only)

vars == <<hd, buf, hs, pc, first>>

------------------------------------------------------------------------------
\* mpz_ui_pow_ui(tg, 2, 8 * n).
BytePower(n) ==
    LET p[j \in 0 .. n] == IF j = 0 THEN 1 ELSE Base * p[j - 1]
    IN  p[n]

\* kyk_bts2target: the top byte of bts is an exponent, the other three a mantissa.
Bts2Target(bts) ==
    LET ep == bts \div Mantissas
        mt == bts % Mantissas
    IN  mt * BytePower(ep - 3)

\* Mutated: the miner packs the hashes in the order they are kept in.
Bad_SeriWithoutNonce(h, n) == [rest |-> h.rest, bts |-> h.bts, nonce |-> n]

\* kyk_seri_blk_hd_without_nonce: the nonce's bytes are those the buffer has.
SeriWithoutNonce(h, n) == [rest |-> SeriRest[h.rest], bts |-> h.bts, nonce |-> n]

\* kyk_seri_blk_hd.
SeriBlkHd(h) == [rest |-> SeriRest[h.rest], bts |-> h.bts, nonce |-> h.nonce]

Init ==
    /\ hd \in Headers
    /\ first = hd.nonce
    /\ buf \in Headers \* not initialised
    /\ hs = 0
    /\ pc = "start"

\* What comes before the loop.
Prepare ==
    /\ pc = "start"
    /\ buf' = SeriWithoutNonce(hd, buf.nonce)
    /\ pc' = "try"
    /\ UNCHANGED <<hd, hs, first>>

\* Mutated: the nonce is not packed into the buffer again.
Bad_TryNonce ==
    /\ pc = "try"
    /\ buf' = IF hd.nonce = first THEN [buf EXCEPT !.nonce = hd.nonce] ELSE buf
    /\ hs' = HashValue[buf']
    /\ pc' = "compare"
    /\ UNCHANGED <<hd, first>>

\* The nonce is packed behind the other fields, and the header hashed.
TryNonce ==
    /\ pc = "try"
    /\ buf' = [buf EXCEPT !.nonce = hd.nonce]
    /\ hs' = HashValue[buf']
    /\ pc' = "compare"
    /\ UNCHANGED <<hd, first>>

\* Mutated: the nonce is counted in a wider type.
Bad_NextNonce(n) == n + 1

NextNonce(n) == (n + 1) % NonceMod

\* Mutated: the hash must be below the target.
Bad_AboveTarget == hs >= Bts2Target(hd.bts)

AboveTarget == hs > Bts2Target(hd.bts)

\* The hash is at most the target: the nonce stays in the header.
Found ==
    /\ pc = "compare"
    /\ ~AboveTarget
    /\ pc' = "done"
    /\ UNCHANGED <<hd, buf, hs, first>>

\* The hash is above the target: on to the next nonce.
Bump ==
    /\ pc = "compare"
    /\ AboveTarget
    /\ hd' = [hd EXCEPT !.nonce = NextNonce(hd.nonce)]
    /\ pc' = "try"
    /\ UNCHANGED <<buf, hs, first>>

\* kyk_hsh_nonce has returned.
Returned == pc = "done" /\ UNCHANGED vars

Next == Prepare \/ TryNonce \/ Found \/ Bump \/ Returned

Spec == Init /\ [][Next]_vars

------------------------------------------------------------------------------
(* Properties *)

\* The type invariant.
TypeOK ==
    /\ hd \in Headers
    /\ buf \in Headers
    /\ hs \in Nat
    /\ pc \in {"start", "try", "compare", "done"}
    /\ first \in Nonces

\* A header whose double hash is at most its target.
Meets(h) == ~(HashValue[SeriBlkHd(h)] > Bts2Target(h.bts))

WithNonce(n) == [hd EXCEPT !.nonce = n]

\* The nonces the miner passes from a on before it comes to b.
From(a, b) == IF a <= b THEN a .. b - 1 ELSE (a .. NonceMod - 1) \cup (0 .. b - 1)

\* The header that is serialised afresh after mining, for the block file, meets the
\* target: the nonce left in the header is the one the accepted hash was taken of,
\* and the fields packed before the loop are those of the header.
MinedMeetsTarget == pc = "done" => Meets(hd)

\* No nonce on the way to the one found meets the target, not even around the
\* end of the uint32_t: none is left out and none is accepted too late.
FirstNonce == pc = "done" => \A n \in From(first, hd.nonce) : ~Meets(WithNonce(n))
==============================================================================
