---------------------------- MODULE KykBlockTest ----------------------------
(***************************************************************************)
(* The programs around a block header: block_nonce_test.c, which shows the    *)
(* target and the difficulty of a header and mines it, with the loop of       *)
(* KykHashNonce; block_hash_test.c, which shows the hash of a header; and     *)
(* bits_to_target.c, which shows the target and the difficulty of a bts.      *)
(* With them runs kyk_hsh_nonce as kyk_gens_block.c calls it, which shows its *)
(* target at the end.                                                        *)
(***************************************************************************)
EXTENDS KykHashNonce

CONSTANT MaxTarget  \* DLT1_TARGET_HEX_STR: the target of difficulty 1

ASSUME MaxTargetAssumption == MaxTarget \in Nat

VARIABLES prog,   \* the program that runs
          at,     \* what it does: "tell", "mine", "hash", "end" or "abort"
          shown   \* what it has shown: the target, the difficulty, the hash, the nonce

testVars == <<vars, prog, at, shown>>

None == -1

------------------------------------------------------------------------------
\* Mutated: the quotient is rounded down.
Bad_Bts2Dlt(bts) == (MaxTarget \div Bts2Target(bts)) % NonceMod

\* kyk_bts2dlt: mpz_cdiv_q rounds up, and the low 32 bits are taken.
Bts2Dlt(bts) == ((MaxTarget + Bts2Target(bts) - 1) \div Bts2Target(bts)) % NonceMod

\* The first thing a program does.
FirstDo(p) == CASE p \in {"block_nonce_test", "bits_to_target"} -> "tell"
                [] p = "block_hash_test" -> "hash"
                [] p = "kyk_hsh_nonce" -> "mine"

TestInit ==
    /\ Init
    /\ prog \in {"block_nonce_test", "bits_to_target", "block_hash_test", "kyk_hsh_nonce"}
    /\ at = FirstDo(prog)
    /\ shown = [tg |-> None, dlt |-> None, hash |-> None, nonce |-> None]

\* The target and the difficulty of the header are computed and shown.
TellTarget ==
    /\ at = "tell"
    /\ Bts2Target(hd.bts) # 0
    /\ shown' = [shown EXCEPT !.tg = Bts2Target(hd.bts), !.dlt = Bts2Dlt(hd.bts)]
    /\ at' = IF prog = "block_nonce_test" THEN "mine" ELSE "end"
    /\ UNCHANGED <<vars, prog>>

\* The target is zero: mpz_cdiv_q divides by it, and the process is ended.
DividesByZero ==
    /\ at = "tell"
    /\ Bts2Target(hd.bts) = 0
    /\ at' = "abort"
    /\ UNCHANGED <<vars, prog, shown>>

\* The loop, in block_nonce_test.c as in kyk_hash_nonce.c.
MineNonce ==
    /\ at = "mine"
    /\ Prepare \/ TryNonce \/ Found \/ Bump
    /\ UNCHANGED <<prog, at, shown>>

\* The hash and the nonce are shown; kyk_hsh_nonce shows the target too.
TellMined ==
    /\ at = "mine"
    /\ pc = "done"
    /\ shown' = [shown EXCEPT !.hash = hs, !.nonce = hd.nonce, !.tg = Bts2Target(hd.bts)]
    /\ at' = "end"
    /\ UNCHANGED <<vars, prog>>

\* block_hash_test.c, which has the nonce of its header in its source.
TellHash ==
    /\ at = "hash"
    /\ shown' = [shown EXCEPT !.hash = HashValue[SeriBlkHd(hd)]]
    /\ at' = "end"
    /\ UNCHANGED <<vars, prog>>

Step == TellTarget \/ DividesByZero \/ MineNonce \/ TellMined \/ TellHash

\* The program has ended.
Ended == at \in {"end", "abort"} /\ UNCHANGED testVars

TestNext == Step \/ Ended

TestSpec == TestInit /\ [][TestNext]_testVars

\* The program runs.
FairTestSpec == TestSpec /\ WF_testVars(Step)

------------------------------------------------------------------------------
(* Properties *)

\* The hash that a miner shows is at most the target shown, and is what block_hash_test
\* would show for the same header with the nonce shown.
HashAgrees ==
    at = "end" =>
        /\ shown.hash # None =>
               shown.hash = HashValue[SeriBlkHd(WithNonce(IF shown.nonce = None THEN first
                                                          ELSE shown.nonce))]
        /\ shown.nonce # None => ~(shown.hash > shown.tg)

\* The difficulty shown counts how many of the target it takes to cover that of difficulty
\* 1, but for what a uint32_t cannot hold; a program that never shows it divided by zero.
DifficultyAgrees ==
    /\ at = "abort" => Bts2Target(hd.bts) = 0
    /\ at = "end" /\ shown.dlt # None =>
           \E d \in 0 .. MaxTarget :
               /\ d * shown.tg >= MaxTarget
               /\ (d - 1) * shown.tg < MaxTarget
               /\ shown.dlt = d % NonceMod

\* What the programs show of a header goes together.
ShownAgrees == HashAgrees /\ DifficultyAgrees

\* A program comes to its end, or to a division by zero, unless no nonce fits the header it
\* mines: a header that some nonce fits is mined, whatever nonce the miner starts from.
MinesIfPossible ==
    (prog \in {"block_nonce_test", "kyk_hsh_nonce"} => \E n \in Nonces : Meets(WithNonce(n)))
        ~> at \in {"end", "abort"}
==============================================================================
