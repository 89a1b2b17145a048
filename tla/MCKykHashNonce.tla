--------------------------- MODULE MCKykHashNonce ---------------------------
(* Instances of KykBlockTest, and with it of KykHashNonce, for TLC. *)
EXTENDS KykBlockTest

\* Targets from 0 to 24, in a byte of six values.
MCBts == {ep * Mantissas + mt : ep \in {3, 4}, mt \in {0, 1, 3, 4}}

MCSeriRest == [r \in Rests |-> 7 - r]

\* A hash that is small for few nonces and for none of some headers, and that equals
\* the target of some headers before a nonce that falls below it.
MCHashValue == [h \in Headers |-> ((h.nonce * 7 + h.rest * 5 + h.bts * 3 + 1) % 11) + h.rest]
==============================================================================
