----------------------------- MODULE MCBtcEcho -----------------------------
(* Instances of BtcEcho for TLC. *)
EXTENDS BtcEchoRefinement, TLC

\* Clients are interchangeable in the safety runs.
ClientSymmetry == Permutations(Clients)
=============================================================================
