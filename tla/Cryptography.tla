----------------------------- MODULE Cryptography -----------------------------
(***************************************************************************)
(* The framing of ciphertexts, digests and keys (utility_ext_impl.cc and   *)
(* the generate functions of the mutators).  AES, SHA-256 and HMAC are     *)
(* BoringSSL's and perfect: a byte they make is a term that names the key  *)
(* and what it was made of, and nobody else can make it.                   *)
(*                                                                         *)
(* A byte is a tuple that begins with its kind: <<"b", c>> is a character. *)
(***************************************************************************)
EXTENDS Integers, Sequences

CONSTANTS BlockSize,    \* EVP_CIPHER_block_size, 16 for AES
          IvLength,     \* AES_CBC_IV_LENGTH
          JoinKeySize,  \* join_key_size()
          Colliding     \* texts whose digests begin with the same bytes

ASSUME SizesAssumption == /\ BlockSize \in Nat \ {0}
                          /\ IvLength \in Nat \ {0}
                          /\ JoinKeySize \in Nat

-----------------------------------------------------------------------------
(* Hexadecimal strings: "\x" and two digits for every byte.                 *)
Hex(bytes) ==
  <<<<"b", "\\">>, <<"b", "x">>>> \o
  [i \in 1 .. 2 * Len(bytes) |->
     <<IF i % 2 = 1 THEN "high" ELSE "low", bytes[(i + 1) \div 2]>>]

(* remove_prefix(2) and HexStringToBytes.                                   *)
HexDropped(chars) ==
  [i \in 1 .. (Len(chars) - 2) \div 2 |-> chars[2 * i + 1][2]]

-----------------------------------------------------------------------------
(* AES in CBC mode.                                                         *)

(* Mutant of MaxCiphertextSize: a whole last block needs no padding.        *)
MaxCiphertextSizeRounded(size) == ((size + BlockSize - 1) \div BlockSize) * BlockSize

(* max_ciphertext_size: the size of the buffer that is encrypted into.      *)
MaxCiphertextSize(size) == ((size + BlockSize) \div BlockSize) * BlockSize

(* PKCS #7: as many bytes as are missing, a whole block where none is.      *)
Padding(size) == BlockSize - (size % BlockSize)
Padded(text) == text \o [i \in 1 .. Padding(Len(text)) |-> <<"pad", Padding(Len(text))>>]

Iv == [i \in 1 .. IvLength |-> <<"iv", i>>]

EncryptFinal(key, text) ==
  [i \in DOMAIN Padded(text) |-> <<"cipher", key, i, Padded(text)[i]>>]

(* The initialization vector, which is random, comes first.                 *)
AESEncrypt(key, text) == Iv \o EncryptFinal(key, text)

DecryptFailed == [isOk |-> FALSE, out |-> <<>>]

(* Under another key, or cut, a ciphertext does not end in a padding.       *)
DecryptFinal(key, cipher) ==
  LET size == Len(cipher)
      genuine == /\ size > 0 /\ size % BlockSize = 0
                 /\ \A i \in 1 .. size :
                      cipher[i][1] = "cipher" /\ cipher[i][2] = key /\ cipher[i][3] = i
                 /\ cipher[size][4][1] = "pad"
  IN IF genuine
       THEN [isOk |-> TRUE, out |-> [i \in 1 .. size - cipher[size][4][2] |-> cipher[i][4]]]
       ELSE DecryptFailed

AESDecrypt(key, cipherData) ==
  IF Len(cipherData) < IvLength
    THEN DecryptFailed
    ELSE DecryptFinal(key, SubSeq(cipherData, IvLength + 1, Len(cipherData)))

(* What is stored of an encrypted value, and what comes back of it.         *)
CryptoString(key, text) == Hex(AESEncrypt(key, text))
FromCryptoString(key, chars) == AESDecrypt(key, HexDropped(chars))
IsCiphertext(chars) ==
  \E i \in DOMAIN chars : chars[i][1] = "high" /\ chars[i][2][1] = "cipher"

-----------------------------------------------------------------------------
(* Digests.  The bytes of a number are not those of the text that shows it. *)

HMACString(key, type, text) == Hex(<<<<"hmac", key, type, text>>>>)

(* The first bytes of a digest may be those of another text.                *)
Sha256Digest(type, text) ==
  <<IF type = "string" /\ text \in Colliding THEN <<"sha", "string", <<>>>>
                                             ELSE <<"sha", type, text>>,
    <<"sha2", type, text>>>>

JoinKeyString(type, text) == Hex(SubSeq(Sha256Digest(type, text), 1, JoinKeySize))
================================================================================
