------------------------------- MODULE KykSha -------------------------------
(***************************************************************************)
(* kyk_sha.c over the hashes of OpenSSL, of which nothing is known but that   *)
(* they make bytes of bytes.                                                  *)
(***************************************************************************)
EXTENDS Bytes

CONSTANTS Sha256(_), Ripemd160(_)

kyk_dble_sha256(str) == Sha256(Sha256(str))

\* As users read a hash: the last byte first.
kyk_inver_hash(src) == Reversed(kyk_dble_sha256(src))

kyk_dgst_hash256(message) == Sha256(Sha256(message))

kyk_dgst_hash160(message) == Ripemd160(Sha256(message))
==============================================================================
