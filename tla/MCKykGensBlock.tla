--------------------------- MODULE MCKykGensBlock ---------------------------
(* Instances of KykGensBlock for TLC. *)
EXTENDS KykGensBlock

MCRests == (1 .. 3) \X BOOLEAN

MCBts == {GensBts}

MCSeriRest == [d \in MCRests |-> <<d[1], ~d[2]>>]

MCTxHash == [k \in Keys |-> <<k, FALSE>>]

MCHash256 == [p \in MCRests \X MCRests |-> p[1]]

\* Headers over the third key's transaction cannot be mined.
MCHashValue ==
    [h \in [rest : MCRests, bts : {GensBts}, nonce : 0 .. NonceMod - 1] |->
        3 + (IF h.rest[1] = 3 THEN 5 ELSE (2 * h.nonce + h.rest[1]) % 4)
          + (IF h.rest[2] THEN 0 ELSE 1)]
==============================================================================
