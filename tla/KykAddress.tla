---------------------------- MODULE KykAddress ----------------------------
(***************************************************************************)
(* Addresses: kyk_address.c makes one of a private key, kyk_base58.c writes   *)
(* it down and reads it, and kyk_script.c turns it into the script of an      *)
(* output that pays it.                                                       *)
(*                                                                         *)
(* A character is its place in the alphabet; larger numbers are characters    *)
(* that are not in it.  The sizes are parameters, and so are the hashes       *)
(* (KykSha) and the public key of a private one, of which nothing is known.   *)
(***************************************************************************)
EXTENDS KykTx, KykSha

CONSTANTS Alphabet,   \* characters of the alphabet (58)
          KeySize,    \* bytes of a private key (32)
          PkhSize,    \* RIPEMD160_DIGEST_LENGTH (20)
          CheckSize,  \* bytes of a checksum (4)
          Public(_),  \* the public key of a private key, a number
          OpDup, OpHash160, OpEqualVerify, OpCheckSig

ASSUME AddressAssumption ==
    /\ Alphabet \in Nat /\ Alphabet > 1
    /\ KeySize \in Nat \ {0}
    /\ PkhSize \in Byte
    /\ CheckSize \in Nat
    /\ {OpDup, OpHash160, OpEqualVerify, OpCheckSig} \subseteq Byte

\* kyk_make_address: MAIN_NW.
Version == 0

AddressSize == 1 + PkhSize + CheckSize

Zeros(n) == [j \in 1 .. n |-> 0]

------------------------------------------------------------------------------
(* Numbers of any size; OpenSSL's BIGNUM. *)

\* The number with the digits s, most significant first.
Number(s, base) ==
    LET v[j \in 0 .. Len(s)] == IF j = 0 THEN 0 ELSE base * v[j - 1] + s[j]
    IN  v[Len(s)]

\* The digits of x, most significant first, without leading zeros: BN_bn2bin.
Digits(x, base) ==
    LET d[y \in 0 .. x] == IF y = 0 THEN <<>> ELSE Append(d[y \div base], y % base)
    IN  d[x]

LeadingZeros(s) ==
    CHOOSE n \in 0 .. Len(s) : (\A j \in 1 .. n : s[j] = 0) /\ (n < Len(s) => s[n + 1] # 0)

------------------------------------------------------------------------------
(* kyk_base58.c *)

kyk_base58(bytes) == Zeros(LeadingZeros(bytes)) \o Digits(Number(bytes, Base), Alphabet)

\* raw_decode_base58: at a character not in the alphabet it frees bn and says so, but
\* its callers use bn all the same.  A zero reads as a zero then, and of any other
\* number BN_num_bits_word reads a digit through a null pointer.
raw_decode_base58(src) ==
    LET bad   == {j \in DOMAIN src : src[j] >= Alphabet}
        first == CHOOSE j \in bad : \A m \in bad : j <= m
    IN  IF bad = {} THEN [ok |-> TRUE, bn |-> Number(src, Alphabet)]
        ELSE [ok |-> \A j \in 1 .. first - 1 : src[j] = 0, bn |-> 0]

get_checksum(data) == SubSeq(kyk_dgst_hash256(data), 1, CheckSize)

\* Of SHA-256: the checksum of nothing but zeros, 0x94a00911, is not zero itself.
ASSUME ZerosAssumption == get_checksum(Zeros(1 + PkhSize)) # Zeros(CheckSize)

\* Mutated: the checksum is never wrong.
Bad_validate_base58_checksum(buf) == Len(buf) = AddressSize

validate_base58_checksum(buf) ==
    get_checksum(SubSeq(buf, 1, 1 + PkhSize)) = SubSeq(buf, 2 + PkhSize, AddressSize)

------------------------------------------------------------------------------
(* kyk_address.c *)

set_version_byte(digest, vbyt) == <<vbyt>> \o digest

get_addr_checksum(dgst6) == SubSeq(dgst6, 1, CheckSize)

\* Steps 4 to 8 of kyk_make_address; set_chksum_byte.
AddressBytes(pkh) ==
    LET dgst4 == set_version_byte(pkh, Version)
    IN  dgst4 \o get_addr_checksum(Sha256(Sha256(dgst4)))

kyk_ec_new_keypair(priv) == Public(Number(priv, Base))

kyk_make_address(priv) == kyk_base58(AddressBytes(Ripemd160(Sha256(kyk_ec_new_keypair(priv)))))

------------------------------------------------------------------------------
(* kyk_script.c *)

\* pubk_hash_from_address: "crash" where it leaves its buffer or uses a null pointer.
pubk_hash_from_address(addr) ==
    LET raw   == raw_decode_base58(addr)
        bytes == Digits(raw.bn, Base)
        buf   == Zeros(AddressSize - Len(bytes)) \o bytes
    IN  IF ~raw.ok \/ Len(bytes) > AddressSize THEN [result |-> "crash", hash |-> <<>>]
        ELSE IF ~validate_base58_checksum(buf) THEN [result |-> "bad", hash |-> <<>>]
        ELSE [result |-> "good", hash |-> SubSeq(buf, 2, 1 + PkhSize)]

build_p2pkh_sc_pubk(pkh) ==
    <<OpDup, OpHash160, PkhSize>> \o pkh \o <<OpEqualVerify, OpCheckSig>>
==============================================================================
