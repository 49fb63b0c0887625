------------------------------ MODULE StoreProofs ------------------------------
(***************************************************************************)
(* What the proxy writes into the tables of the server: the framing of     *)
(* ciphertexts for every text, block size and key; the values of a         *)
(* statement with their companions; the store, for any statements; and     *)
(* the way back of what is stored, for any visits of a query.              *)
(***************************************************************************)
EXTENDS Store, ResultColumns, Flattening

-----------------------------------------------------------------------------
(* Whole blocks.                                                            *)

LEMMA Division ==
  ASSUME NEW n \in Nat, NEW b \in Nat \ {0}
  PROVE  /\ n \div b \in Nat /\ n % b \in Nat /\ n % b < b
         /\ n = ((n \div b) * b) + (n % b)
  OBVIOUS

LEMMA OneBlockMore ==
  ASSUME NEW n \in Nat, NEW b \in Nat \ {0}
  PROVE  (n + b) \div b = n \div b + 1
  OBVIOUS

LEMMA WholeBlocks ==
  ASSUME NEW k \in Nat, NEW b \in Nat \ {0}
  PROVE  (k * b) % b = 0
  OBVIOUS

LEMMA BlocksOfAText ==
  ASSUME NEW size \in Nat
  PROVE  /\ Padding(size) \in 1 .. BlockSize
         /\ size + Padding(size) = MaxCiphertextSize(size)
         /\ (size + Padding(size)) % BlockSize = 0
<1> DEFINE b == BlockSize
           k == size \div b
           r == size % b
<1>1. b \in Nat \ {0}
  BY SizesAssumption
<1>2. k \in Nat /\ r \in Nat /\ r < b /\ size = (k * b) + r
  BY <1>1, Division
<1>3. Padding(size) = b - r
  BY DEF Padding
<1>4. MaxCiphertextSize(size) = (k + 1) * b
  BY <1>1, OneBlockMore DEF MaxCiphertextSize
<1> HIDE DEF b, k, r
<1>5. (k + 1) * b = (k * b) + b
  BY <1>1, <1>2
<1>6. k * b \in Nat
  BY <1>1, <1>2
<1>7. size + Padding(size) = (k + 1) * b
  BY <1>1, <1>2, <1>3, <1>5, <1>6
<1>8. ((k + 1) * b) % b = 0
  BY <1>1, <1>2, WholeBlocks
<1> QED BY <1>1, <1>2, <1>3, <1>4, <1>7, <1>8 DEF b

LEMMA JoinedUp ==
  ASSUME NEW T, NEW a \in Seq(T), NEW b \in Seq(T)
  PROVE  /\ a \o b \in Seq(T)
         /\ Len(a) \in Nat /\ Len(b) \in Nat
         /\ Len(a \o b) = Len(a) + Len(b)
         /\ DOMAIN (a \o b) = 1 .. Len(a) + Len(b)
         /\ \A i \in 1 .. Len(a) : (a \o b)[i] = a[i]
         /\ \A i \in 1 .. Len(b) : (a \o b)[Len(a) + i] = b[i]
<1>1. /\ a \o b \in Seq(T) /\ Len(a \o b) = Len(a) + Len(b)
      /\ \A i \in 1 .. Len(a) + Len(b) :
           (a \o b)[i] = IF i <= Len(a) THEN a[i] ELSE b[i - Len(a)]
      /\ Len(a) \in Nat /\ Len(b) \in Nat
  BY ConcatProperties, LenProperties
<1>2. DOMAIN (a \o b) = 1 .. Len(a) + Len(b)
  BY <1>1, LenProperties
<1>3. \A i \in 1 .. Len(a) : (a \o b)[i] = a[i]
  BY <1>1
<1>4. \A i \in 1 .. Len(b) : (a \o b)[Len(a) + i] = b[i]
  <2> TAKE i \in 1 .. Len(b)
  <2>1. /\ Len(a) + i \in 1 .. Len(a) + Len(b) /\ ~(Len(a) + i <= Len(a))
        /\ (Len(a) + i) - Len(a) = i
    BY <1>1
  <2> QED BY <1>1, <2>1
<1> QED BY <1>1, <1>2, <1>3, <1>4

-----------------------------------------------------------------------------
(* Hexadecimal strings.                                                     *)

LEMMA Halves ==
  ASSUME NEW n \in Nat, NEW i \in 1 .. n
  PROVE  /\ (2 * i - 1) \in 1 .. 2 * n
         /\ (2 * i - 1) % 2 = 1
         /\ ((2 * i - 1) + 1) \div 2 = i
  OBVIOUS

LEMMA DigitsAreDropped ==
  ASSUME NEW S, NEW bytes \in Seq(S), NEW T, NEW front \in Seq(T), NEW digits \in Seq(T)
  PROVE  /\ Len(front) = 2 /\ Len(digits) = 2 * Len(bytes)
         /\ \A i \in 1 .. Len(bytes) : digits[2 * i - 1][2] = bytes[i]
         => HexDropped(front \o digits) = bytes
<1> DEFINE n == Len(bytes)
<1>1. n \in Nat /\ bytes = [i \in 1 .. n |-> bytes[i]]
  BY LenProperties
<1>2. /\ Len(front \o digits) = Len(front) + Len(digits)
      /\ \A j \in 1 .. Len(digits) : (front \o digits)[Len(front) + j] = digits[j]
  BY JoinedUp
<1>3. SUFFICES ASSUME Len(front) = 2, Len(digits) = 2 * n,
                      \A i \in 1 .. n : digits[2 * i - 1][2] = bytes[i]
               PROVE  HexDropped(front \o digits) = bytes
  OBVIOUS
<1> HIDE DEF n
<1>4. Len(front \o digits) = 2 + 2 * n
  BY <1>2, <1>3
<1>5. (Len(front \o digits) - 2) \div 2 = n
  BY <1>1, <1>4
<1>6. \A i \in 1 .. n : (front \o digits)[2 * i + 1] = digits[2 * i - 1]
  <2> TAKE i \in 1 .. n
  <2>1. 2 * i - 1 \in 1 .. Len(digits) /\ Len(front) + (2 * i - 1) = 2 * i + 1
    BY <1>1, <1>3
  <2> QED BY <1>2, <2>1
<1>7. HexDropped(front \o digits) = [i \in 1 .. n |-> (front \o digits)[2 * i + 1][2]]
  BY <1>5 DEF HexDropped
<1>8. HexDropped(front \o digits) = [i \in 1 .. n |-> bytes[i]]
  BY <1>3, <1>6, <1>7
<1> QED BY <1>1, <1>8

(* HexStringToBytes reads what is written behind "\x", whatever the bytes.  *)
THEOREM HexIsRead ==
  ASSUME NEW S, NEW bytes \in Seq(S)
  PROVE  HexDropped(Hex(bytes)) = bytes
<1> DEFINE n == Len(bytes)
           front == <<<<"b", "\\">>, <<"b", "x">>>>
           digits == [i \in 1 .. 2 * n |->
                        <<IF i % 2 = 1 THEN "high" ELSE "low", bytes[(i + 1) \div 2]>>]
           T == {front[1], front[2]} \union {digits[i] : i \in 1 .. 2 * n}
<1>1. n \in Nat /\ 2 * n \in Nat
  BY LenProperties
<1>2. Hex(bytes) = front \o digits
  BY DEF Hex
<1>3. front \in Seq(T)
  OBVIOUS
<1>4. digits \in Seq(T)
  BY <1>1
<1>5. \A i \in 1 .. n : digits[2 * i - 1][2] = bytes[i]
  <2> TAKE i \in 1 .. n
  <2>1. /\ (2 * i - 1) \in 1 .. 2 * n /\ ((2 * i - 1) + 1) \div 2 = i
    BY <1>1, Halves
  <2> QED BY <2>1
<1>6. Len(front) = 2 /\ Len(digits) = 2 * n
  BY <1>1
<1> HIDE DEF front, digits, T
<1>7. /\ Len(front) = 2 /\ Len(digits) = 2 * Len(bytes)
      /\ \A i \in 1 .. Len(bytes) : digits[2 * i - 1][2] = bytes[i]
      => HexDropped(front \o digits) = bytes
  BY <1>3, <1>4, DigitsAreDropped
<1> QED BY <1>2, <1>5, <1>6, <1>7

-----------------------------------------------------------------------------
(* Ciphertexts.                                                             *)

LEMMA PaddedText ==
  ASSUME NEW S, NEW text \in Seq(S)
  PROVE  LET n == Len(text)
             p == Padding(n)
         IN /\ n \in Nat /\ p \in 1 .. BlockSize /\ n + p \in Nat
            /\ Padded(text) \in Seq(S \union {<<"pad", p>>})
            /\ Len(Padded(text)) = n + p
            /\ DOMAIN Padded(text) = 1 .. n + p
            /\ \A i \in 1 .. n : Padded(text)[i] = text[i]
            /\ Padded(text)[n + p] = <<"pad", p>>
<1> DEFINE n == Len(text)
           p == Padding(n)
           T == S \union {<<"pad", p>>}
           tail == [i \in 1 .. p |-> <<"pad", p>>]
<1>1. n \in Nat
  BY LenProperties
<1>2. p \in 1 .. BlockSize /\ BlockSize \in Nat
  BY <1>1, BlocksOfAText, SizesAssumption
<1>3. p \in Nat /\ p >= 1 /\ n + p \in Nat
  BY <1>1, <1>2
<1>4. tail \in Seq(T) /\ Len(tail) = p /\ tail[p] = <<"pad", p>>
  <2> HIDE DEF p
  <2> QED BY <1>3
<1>5. text \in Seq(T) /\ DOMAIN text = 1 .. n
  <2>1. DOMAIN text = 1 .. n /\ \A i \in 1 .. n : text[i] \in S
    BY LenProperties
  <2>2. text = [i \in 1 .. n |-> text[i]] /\ \A i \in 1 .. n : text[i] \in T
    BY <2>1, LenProperties
  <2> HIDE DEF T
  <2> QED BY <1>1, <2>1, <2>2
<1>6. Padded(text) = text \o tail
  BY DEF Padded
<1> HIDE DEF n, p, T, tail
<1>7. /\ text \o tail \in Seq(T) /\ Len(text \o tail) = n + p
      /\ \A i \in 1 .. n + p :
           (text \o tail)[i] = IF i <= n THEN text[i] ELSE tail[i - n]
  BY <1>4, <1>5, ConcatProperties DEF n
<1>8. DOMAIN (text \o tail) = 1 .. n + p
  BY <1>7, LenProperties
<1>9. \A i \in 1 .. n : (text \o tail)[i] = text[i]
  <2> TAKE i \in 1 .. n
  <2>1. i \in 1 .. n + p /\ i <= n
    BY <1>1, <1>3
  <2> QED BY <1>7, <2>1
<1>10. (text \o tail)[n + p] = <<"pad", p>>
  <2>1. n + p \in 1 .. n + p /\ ~(n + p <= n) /\ (n + p) - n = p
    BY <1>1, <1>3
  <2> QED BY <1>4, <1>7, <2>1
<1> QED BY <1>1, <1>2, <1>3, <1>6, <1>7, <1>8, <1>9, <1>10 DEF n, p, T

(* What EVP_EncryptFinal_ex leaves fills max_ciphertext_size exactly: the   *)
(* buffer that was reserved is never written past its end.                  *)
THEOREM CiphertextFillsItsBuffer ==
  ASSUME NEW S, NEW text \in Seq(S), NEW key
  PROVE  Len(AESEncrypt(key, text)) - IvLength = MaxCiphertextSize(Len(text))
<1> DEFINE c == EncryptFinal(key, text)
           size == Len(text) + Padding(Len(text))
           C == {c[i] : i \in 1 .. size} \union {Iv[i] : i \in 1 .. IvLength}
<1>1. /\ Len(text) \in Nat /\ size \in Nat /\ DOMAIN Padded(text) = 1 .. size
  BY PaddedText
<1>2. size = MaxCiphertextSize(Len(text))
  BY <1>1, BlocksOfAText
<1>3. c \in Seq(C) /\ Len(c) = size
  <2> HIDE DEF size
  <2> QED BY <1>1 DEF EncryptFinal
<1>4. Iv \in Seq(C) /\ Len(Iv) = IvLength
  BY SizesAssumption DEF Iv
<1> HIDE DEF c, C, size
<1>5. Len(Iv \o c) = IvLength + size
  BY <1>3, <1>4, ConcatProperties
<1> QED BY <1>1, <1>2, <1>5, SizesAssumption DEF AESEncrypt, c

LEMMA EncryptedText ==
  ASSUME NEW S, NEW text \in Seq(S), NEW key
  PROVE  DecryptFinal(key, EncryptFinal(key, text)) = [isOk |-> TRUE, out |-> text]
<1> DEFINE n == Len(text)
           p == Padding(n)
           size == n + p
           c == EncryptFinal(key, text)
<1>1. /\ n \in Nat /\ p \in 1 .. BlockSize /\ size \in Nat
      /\ DOMAIN Padded(text) = 1 .. size
      /\ \A i \in 1 .. n : Padded(text)[i] = text[i]
      /\ Padded(text)[size] = <<"pad", p>>
  BY PaddedText
<1>2. size % BlockSize = 0
  BY <1>1, BlocksOfAText
<1>3. text = [i \in 1 .. n |-> text[i]]
  BY LenProperties
<1>4. BlockSize \in Nat
  BY SizesAssumption
<1> HIDE DEF n, p
<1>5. p \in Nat /\ size > 0 /\ size - p = n /\ size \in 1 .. size
  BY <1>1, <1>4
<1> HIDE DEF size
<1>6. c = [i \in 1 .. size |-> <<"cipher", key, i, Padded(text)[i]>>]
  BY <1>1 DEF EncryptFinal
<1>7. Len(c) = size
  BY <1>1, <1>6
<1>8. \A i \in 1 .. size :
        c[i][1] = "cipher" /\ c[i][2] = key /\ c[i][3] = i /\ c[i][4] = Padded(text)[i]
  BY <1>6
<1>9. c[size][4] = <<"pad", p>>
  BY <1>1, <1>5, <1>8
<1> HIDE DEF c
<1>10. c[size][4][1] = "pad" /\ c[size][4][2] = p
  BY <1>9
<1>11. DecryptFinal(key, c)
         = [isOk |-> TRUE, out |-> [i \in 1 .. size - p |-> c[i][4]]]
  BY <1>2, <1>5, <1>7, <1>8, <1>10 DEF DecryptFinal
<1>12. [i \in 1 .. n |-> c[i][4]] = [i \in 1 .. n |-> text[i]]
  <2>1. \A i \in 1 .. n : i \in 1 .. size /\ c[i][4] = text[i]
    BY <1>1, <1>5, <1>8
  <2> QED BY <2>1
<1> QED BY <1>3, <1>5, <1>11, <1>12 DEF c

(* What is encrypted comes back under the same key, whatever the text, the  *)
(* block size and the length of the initialization vector.                  *)
THEOREM EncryptedIsDecrypted ==
  ASSUME NEW S, NEW text \in Seq(S), NEW key
  PROVE  AESDecrypt(key, AESEncrypt(key, text)) = [isOk |-> TRUE, out |-> text]
<1> DEFINE c == EncryptFinal(key, text)
           size == Len(text) + Padding(Len(text))
           C == {c[i] : i \in 1 .. size} \union {Iv[i] : i \in 1 .. IvLength}
<1>1. /\ size \in Nat /\ DOMAIN Padded(text) = 1 .. size
  BY PaddedText
<1>2. c \in Seq(C)
  <2> HIDE DEF size
  <2> QED BY <1>1 DEF EncryptFinal
<1>11. Len(c) = size
  <2> HIDE DEF size
  <2> QED BY <1>1 DEF EncryptFinal
<1>3. Iv \in Seq(C)
  BY SizesAssumption DEF Iv
<1>4. Len(Iv) = IvLength /\ IvLength \in Nat
  BY SizesAssumption DEF Iv
<1> HIDE DEF c, size, C
<1>5. /\ Iv \o c \in Seq(C) /\ Len(Iv \o c) = Len(Iv) + Len(c)
      /\ \A i \in 1 .. Len(c) : (Iv \o c)[Len(Iv) + i] = c[i]
  BY <1>2, <1>3, JoinedUp
<1> DEFINE all == Iv \o c
           rest == SubSeq(all, IvLength + 1, Len(all))
<1>6. Len(all) = IvLength + size
  BY <1>4, <1>5, <1>11
<1>7. rest = c
  <2> HIDE DEF all
  <2>1. /\ IvLength + 1 \in Int /\ Len(all) \in Int
        /\ \A i \in IvLength + 1 .. Len(all) : all[i] \in C
    <3>1. all \in Seq(C)
      BY <1>5 DEF all
    <3>2. Len(all) \in Nat /\ \A i \in 1 .. Len(all) : all[i] \in C
      BY <3>1, LenProperties
    <3> QED BY <1>4, <3>2
  <2>2. /\ rest \in Seq(C)
        /\ Len(rest) = IF IvLength + 1 <= Len(all) THEN Len(all) - (IvLength + 1) + 1 ELSE 0
        /\ \A i \in 1 .. Len(all) - (IvLength + 1) + 1 :
             rest[i] = all[(IvLength + 1) + i - 1]
    BY <2>1, SubSeqProperties
  <2> HIDE DEF rest
  <2>3. Len(rest) = size
    BY <1>1, <1>4, <1>6, <2>2
  <2>4. \A i \in 1 .. size : rest[i] = c[i]
    <3> TAKE i \in 1 .. size
    <3>1. /\ i \in 1 .. Len(all) - (IvLength + 1) + 1
          /\ (IvLength + 1) + i - 1 = IvLength + i
      BY <1>1, <1>4, <1>6
    <3>2. rest[i] = all[IvLength + i]
      BY <2>2, <3>1
    <3>3. all[Len(Iv) + i] = c[i]
      BY <1>5, <1>11 DEF all
    <3> QED BY <1>4, <3>2, <3>3
  <2> QED BY <1>2, <1>11, <2>2, <2>3, <2>4, SeqEqual
<1>8. ~(Len(all) < IvLength)
  BY <1>1, <1>4, <1>6
<1>9. AESEncrypt(key, text) = all
  BY DEF AESEncrypt, c
<1> HIDE DEF all
<1>10. AESDecrypt(key, all) = DecryptFinal(key, c)
  BY <1>7, <1>8 DEF AESDecrypt
<1> QED BY <1>9, <1>10, EncryptedText DEF c

(* So a value that is stored as the mutators write it is read back as it    *)
(* was.                                                                     *)
THEOREM StoredIsRead ==
  ASSUME NEW S, NEW text \in Seq(S), NEW key
  PROVE  FromCryptoString(key, CryptoString(key, text)) = [isOk |-> TRUE, out |-> text]
<1> DEFINE c == EncryptFinal(key, text)
           size == Len(text) + Padding(Len(text))
           C == {c[i] : i \in 1 .. size} \union {Iv[i] : i \in 1 .. IvLength}
<1>1. size \in Nat /\ DOMAIN Padded(text) = 1 .. size
  BY PaddedText
<1>2. c \in Seq(C)
  <2> HIDE DEF size
  <2> QED BY <1>1 DEF EncryptFinal
<1>3. Iv \in Seq(C)
  BY SizesAssumption DEF Iv
<1> HIDE DEF C
<1>4. AESEncrypt(key, text) \in Seq(C)
  BY <1>2, <1>3, ConcatProperties DEF AESEncrypt
<1>5. HexDropped(Hex(AESEncrypt(key, text))) = AESEncrypt(key, text)
  BY <1>4, HexIsRead
<1> QED BY <1>5, EncryptedIsDecrypted DEF FromCryptoString, CryptoString

-----------------------------------------------------------------------------
(* Hexadecimal strings tell digests, ciphertexts and texts apart.           *)

Half(i) == (i + 1) \div 2
Digit(bytes, i) == <<IF i % 2 = 1 THEN "high" ELSE "low", bytes[Half(i)]>>
IsHexOf(chars, bytes, n, m) ==
  /\ n \in Nat /\ m = 2 * n /\ DOMAIN chars = 1 .. 2 + m /\ DOMAIN bytes = 1 .. n
  /\ chars[1] = <<"b", "\\">> /\ chars[2] = <<"b", "x">>
  /\ \A i \in 1 .. m : chars[2 + i] = Digit(bytes, i)

LEMMA HexIs ==
  ASSUME NEW S, NEW bytes \in Seq(S), NEW chars, chars = Hex(bytes),
         NEW n, n = Len(bytes), NEW m, m = 2 * n
  PROVE  IsHexOf(chars, bytes, n, m)
<1>1. n \in Nat /\ m \in Nat /\ DOMAIN bytes = 1 .. n
  BY LenProperties
<1> DEFINE front == <<<<"b", "\\">>, <<"b", "x">>>>
           digits == [i \in 1 .. m |-> Digit(bytes, i)]
           T == {front[1], front[2]} \union {digits[i] : i \in 1 .. m}
<1>2. chars = front \o digits
  BY DEF Hex, Digit, Half
<1>3. /\ front \in Seq(T) /\ Len(front) = 2
      /\ front[1] = <<"b", "\\">> /\ front[2] = <<"b", "x">>
  OBVIOUS
<1>4. digits \in Seq(T) /\ Len(digits) = m /\ \A i \in 1 .. m : digits[i] = Digit(bytes, i)
  BY <1>1
<1> DEFINE la == 2
<1> HIDE DEF front, digits, T, la
<1>5. la = Len(front) /\ m = Len(digits)
  BY <1>3, <1>4 DEF la
<1>6. /\ DOMAIN chars = 1 .. la + m
      /\ \A k \in 1 .. la : chars[k] = front[k]
      /\ \A k \in 1 .. m : chars[la + k] = digits[k]
  <2>1. front \in Seq(T) /\ digits \in Seq(T)
    BY <1>3, <1>4
  <2>2. /\ DOMAIN (front \o digits) = 1 .. Len(front) + Len(digits)
        /\ \A k \in 1 .. Len(front) : (front \o digits)[k] = front[k]
        /\ \A k \in 1 .. Len(digits) : (front \o digits)[Len(front) + k] = digits[k]
    BY <2>1, JoinedUp
  <2> QED BY <1>2, <1>5, <2>2
<1> QED BY <1>1, <1>3, <1>4, <1>6 DEF la, IsHexOf

LEMMA HalfOf ==
  ASSUME NEW n \in Nat, NEW i \in 1 .. 2 * n
  PROVE  Half(i) \in 1 .. n
BY DEF Half

LEMMA HexIsNoText ==
  ASSUME NEW S, NEW bytes \in Seq(S), Len(bytes) # 0
  PROVE  \E i \in DOMAIN Hex(bytes) : Hex(bytes)[i][1] # "b"
<1> DEFINE chars == Hex(bytes)
           n == Len(bytes)
           m == 2 * n
<1>1. n # 0 /\ IsHexOf(chars, bytes, n, m)
  BY HexIs
<1> HIDE DEF chars, n, m
<1>2. 1 \in 1 .. m /\ 3 \in DOMAIN chars /\ 2 + 1 = 3
  BY <1>1 DEF IsHexOf
<1>3. chars[3] = Digit(bytes, 1)
  BY <1>1, <1>2 DEF IsHexOf
<1>4. Digit(bytes, 1)[1] \in {"high", "low"}
  BY DEF Digit
<1> QED BY <1>2, <1>3, <1>4 DEF chars

LEMMA HexIsACell ==
  ASSUME NEW S, NEW bytes \in Seq(S)
  PROVE  Hex(bytes) # NullCell
<1>1. Hex(bytes)[1] = <<"b", "\\">>
  BY HexIs DEF IsHexOf
<1>2. NullCell[1] = <<"null">> /\ <<"null">> # <<"b", "\\">>
  BY DEF NullCell
<1> QED BY <1>1, <1>2

LEMMA HexOfOthers ==
  ASSUME NEW S, NEW bytes \in Seq(S), \A k \in DOMAIN bytes : bytes[k][1] # "cipher"
  PROVE  ~IsCiphertext(Hex(bytes))
<1> DEFINE chars == Hex(bytes)
           n == Len(bytes)
           m == 2 * n
<1>1. IsHexOf(chars, bytes, n, m)
  BY HexIs
<1> HIDE DEF chars, n, m
<1>2. chars[1][1] = "b" /\ chars[2][1] = "b"
  BY <1>1 DEF IsHexOf
<1>3. ASSUME NEW i \in DOMAIN chars, chars[i][1] = "high"
      PROVE  chars[i][2][1] # "cipher"
  <2>1. i # 1 /\ i # 2
    BY <1>2, <1>3
  <2> DEFINE k == i - 2
  <2>2. k \in 1 .. m /\ 2 + k = i /\ n \in Nat /\ m = 2 * n
    BY <1>1, <2>1 DEF IsHexOf
  <2> HIDE DEF k
  <2>3. chars[i] = Digit(bytes, k)
    BY <1>1, <2>2 DEF IsHexOf
  <2>4. Half(k) \in DOMAIN bytes
    BY <1>1, <2>2, HalfOf DEF IsHexOf
  <2>5. chars[i][2] = bytes[Half(k)]
    BY <2>3 DEF Digit
  <2> QED BY <2>4, <2>5
<1> QED BY <1>3 DEF IsCiphertext, chars

(* Digests of different texts differ: HMAC is perfect.                      *)
LEMMA DigestTellsApart ==
  ASSUME NEW key, NEW type, NEW one, NEW other,
         HMACString(key, type, one) = HMACString(key, type, other)
  PROVE  one = other
<1>1. ASSUME NEW text
      PROVE  HMACString(key, type, text)[3][2][4] = text
  <2> DEFINE a == <<"hmac", key, type, text>>
             bytes == <<a>>
             chars == Hex(bytes)
  <2>1. a[4] = text
    OBVIOUS
  <2> HIDE DEF a
  <2>2. bytes \in Seq({a}) /\ Len(bytes) = 1 /\ bytes[1] = a
    OBVIOUS
  <2> HIDE DEF bytes
  <2>3. IsHexOf(chars, bytes, 1, 2)
    BY <2>2, HexIs, 2 = 2 * 1
  <2> HIDE DEF chars
  <2>4. chars[3] = Digit(bytes, 1)
    BY <2>3, 1 \in 1 .. 2, 2 + 1 = 3 DEF IsHexOf
  <2>5. Half(1) = 1
    BY DEF Half
  <2>6. chars[3][2] = a
    BY <2>2, <2>4, <2>5 DEF Digit
  <2>7. HMACString(key, type, text) = chars
    BY DEF HMACString, chars, bytes, a
  <2> QED BY <2>1, <2>6, <2>7
<1>2. HMACString(key, type, one)[3][2][4] = one
  BY <1>1
<1>3. HMACString(key, type, other)[3][2][4] = other
  BY <1>1
<1> QED BY <1>2, <1>3

LEMMA IndexCell ==
  ASSUME NEW key, NEW type, NEW text
  PROVE  LET cell == HMACString(key, type, text)
         IN /\ cell # NullCell /\ ~IsCiphertext(cell)
            /\ \E i \in DOMAIN cell : cell[i][1] # "b"
<1> DEFINE a == <<"hmac", key, type, text>>
           bytes == <<a>>
<1>1. bytes \in Seq({a}) /\ Len(bytes) = 1 /\ DOMAIN bytes = {1} /\ bytes[1][1] = "hmac"
  OBVIOUS
<1>2. HMACString(key, type, text) = Hex(bytes)
  BY DEF HMACString
<1> HIDE DEF a, bytes
<1>3. Hex(bytes) # NullCell
  BY <1>1, HexIsACell
<1>4. ~IsCiphertext(Hex(bytes))
  <2>1. \A k \in DOMAIN bytes : bytes[k][1] # "cipher"
    BY <1>1
  <2> QED BY <1>1, <2>1, HexOfOthers
<1>5. \E i \in DOMAIN Hex(bytes) : Hex(bytes)[i][1] # "b"
  BY <1>1, HexIsNoText
<1> QED BY <1>2, <1>3, <1>4, <1>5

LEMMA JoinKeyCell ==
  ASSUME NEW type, NEW text
  PROVE  LET cell == JoinKeyString(type, text)
         IN /\ cell # NullCell /\ ~IsCiphertext(cell)
            /\ \E i \in DOMAIN cell : cell[i][1] # "b"
<1> DEFINE digest == Sha256Digest(type, text)
           S == {digest[1], digest[2]}
           bytes == SubSeq(digest, 1, JoinKeySize)
<1>1. digest \in Seq(S) /\ Len(digest) = 2 /\ digest[1][1] = "sha" /\ digest[2][1] = "sha2"
  BY DEF Sha256Digest
<1> HIDE DEF digest, S
<1>2. /\ bytes \in Seq(S) /\ Len(bytes) = JoinKeySize
      /\ \A i \in 1 .. JoinKeySize : bytes[i] = digest[i]
  <2>1. JoinKeySize \in 1 .. 2 /\ \A i \in 1 .. JoinKeySize : digest[i] \in S
    BY <1>1, JoinKeyAssumption, ElementOfSeq
  <2> QED BY <1>1, <2>1, SubSeqProperties
<1>3. \A k \in DOMAIN bytes : bytes[k][1] # "cipher"
  <2>1. DOMAIN bytes = 1 .. JoinKeySize
    BY <1>2, LenProperties
  <2>2. \A k \in 1 .. JoinKeySize : k = 1 \/ k = 2
    BY JoinKeyAssumption
  <2> QED BY <1>1, <1>2, <2>1, <2>2
<1>4. Len(bytes) # 0
  BY <1>2, JoinKeyAssumption
<1> HIDE DEF bytes
<1>5. JoinKeyString(type, text) = Hex(bytes)
  BY DEF JoinKeyString, bytes, digest
<1> QED BY <1>2, <1>3, <1>4, <1>5, HexIsACell, HexOfOthers, HexIsNoText

LEMMA CipherCell ==
  ASSUME NEW S, NEW text \in Seq(S), NEW key
  PROVE  LET cell == CryptoString(key, text)
         IN /\ cell # NullCell
            /\ \E i \in DOMAIN cell : cell[i][1] # "b"
            /\ HexDropped(cell) = AESEncrypt(key, text)
<1> DEFINE c == EncryptFinal(key, text)
           size == Len(text) + Padding(Len(text))
           C == {c[i] : i \in 1 .. size} \union {Iv[i] : i \in 1 .. IvLength}
           bytes == AESEncrypt(key, text)
<1>1. size \in Nat /\ DOMAIN Padded(text) = 1 .. size
  BY PaddedText
<1>2. c \in Seq(C) /\ Len(c) \in Nat
  <2> HIDE DEF size
  <2> QED BY <1>1 DEF EncryptFinal
<1>3. Iv \in Seq(C) /\ Len(Iv) = IvLength
  BY SizesAssumption DEF Iv
<1> HIDE DEF C, c
<1>4. bytes \in Seq(C) /\ Len(bytes) = IvLength + Len(c)
  BY <1>2, <1>3, ConcatProperties DEF AESEncrypt, c
<1>5. Len(bytes) # 0
  <2> DEFINE l == Len(bytes)
             lc == Len(c)
  <2>1. l = IvLength + lc /\ lc \in Nat
    BY <1>2, <1>4
  <2> HIDE DEF l, lc
  <2>2. l # 0
    BY <2>1, SizesAssumption
  <2> QED BY <2>2 DEF l
<1> HIDE DEF bytes
<1>6. CryptoString(key, text) = Hex(bytes)
  BY DEF CryptoString, bytes
<1> QED BY <1>4, <1>5, <1>6, HexIsACell, HexIsNoText, HexIsRead DEF bytes

LEMMA TextCell ==
  ASSUME NEW text \in Texts
  PROVE  /\ text # NullCell /\ ~IsCiphertext(text)
         /\ DOMAIN text = 1 .. Len(text) /\ Len(text) \in Nat
<1>1. /\ Len(text) \in Nat /\ DOMAIN text = 1 .. Len(text)
      /\ \A i \in DOMAIN text : text[i] \in {"b"} \X Characters
  BY LenProperties, ElementOfSeq DEF Texts
<1>2. \A i \in DOMAIN text : text[i][1] = "b"
  BY <1>1
<1>3. text # NullCell
  <2> SUFFICES ASSUME text = NullCell PROVE FALSE
    OBVIOUS
  <2>1. 1 \in DOMAIN text /\ text[1] = <<"null">>
    BY DEF NullCell
  <2>2. <<"null">>[1] = "null"
    OBVIOUS
  <2> QED BY <1>2, <2>1, <2>2
<1> QED BY <1>1, <1>2, <1>3 DEF IsCiphertext

-----------------------------------------------------------------------------
(* The pieces that are not empty, each of one element, one behind another.  *)
Single(piece, S) == piece = <<>> \/ \E x \in S : piece = <<x>>

Picking(pieces, n, flat, m, from) ==
  /\ from \in [1 .. m -> 1 .. n]
  /\ \A k \in 1 .. m : pieces[from[k]] = <<flat[k]>>
  /\ \A k, l \in 1 .. m : from[k] = from[l] => k = l
  /\ \A i \in 1 .. n : pieces[i] # <<>> => \E k \in 1 .. m : from[k] = i

LEMMA PickNone ==
  ASSUME NEW pieces, NEW n \in Nat, NEW flat, NEW m \in Nat, NEW from,
         Picking(pieces, n, flat, m, from), pieces[n + 1] = <<>>
  PROVE  Picking(pieces, n + 1, flat, m, from)
<1>1. from \in [1 .. m -> 1 .. n + 1]
  BY DEF Picking
<1>2. \A i \in 1 .. n + 1 : i \in 1 .. n \/ i = n + 1
  OBVIOUS
<1> QED BY <1>1, <1>2 DEF Picking

LEMMA PickOne ==
  ASSUME NEW pieces, NEW n \in Nat, NEW flat, NEW m \in Nat, NEW from,
         Picking(pieces, n, flat, m, from),
         NEW x, pieces[n + 1] = <<x>>,
         NEW more, \A k \in 1 .. m : more[k] = flat[k], more[m + 1] = x
  PROVE  \E f : Picking(pieces, n + 1, more, m + 1, f)
<1> DEFINE f == [k \in 1 .. m + 1 |-> IF k = m + 1 THEN n + 1 ELSE from[k]]
<1>1. \A k \in 1 .. m : from[k] \in 1 .. n
  BY DEF Picking
<1>2. /\ f \in [1 .. m + 1 -> 1 .. n + 1] /\ f[m + 1] = n + 1
      /\ \A k \in 1 .. m : f[k] = from[k]
  BY <1>1
<1> HIDE DEF f
<1>3. \A k \in 1 .. m + 1 : k \in 1 .. m \/ k = m + 1
  OBVIOUS
<1>4. \A k \in 1 .. m + 1 : pieces[f[k]] = <<more[k]>>
  BY <1>2, <1>3 DEF Picking
<1>5. \A k, l \in 1 .. m + 1 : f[k] = f[l] => k = l
  <2> SUFFICES ASSUME NEW k \in 1 .. m + 1, NEW l \in 1 .. m + 1, f[k] = f[l]
               PROVE  k = l
    OBVIOUS
  <2>1. \A j \in 1 .. m : f[j] # n + 1
    BY <1>1, <1>2
  <2>2. CASE k \in 1 .. m /\ l \in 1 .. m
    BY <1>2, <2>2 DEF Picking
  <2> QED BY <1>2, <1>3, <2>1, <2>2
<1>6. ASSUME NEW i \in 1 .. n + 1, pieces[i] # <<>>
      PROVE  \E k \in 1 .. m + 1 : f[k] = i
  <2>1. CASE i = n + 1
    BY <1>2, <2>1
  <2>2. CASE i # n + 1
    <3>0. i \in 1 .. n
      BY <2>2
    <3>1. PICK k \in 1 .. m : from[k] = i
      BY <1>6, <3>0 DEF Picking
    <3>2. k \in 1 .. m + 1 /\ f[k] = i
      BY <1>2, <3>1
    <3> QED BY <3>2
  <2> QED BY <2>1, <2>2
<1> QED BY <1>2, <1>4, <1>5, <1>6 DEF Picking

LEMMA FlattenPicks ==
  ASSUME NEW S, NEW pieces \in Seq(Seq(S)), NEW n, n = Len(pieces),
         \A i \in 1 .. n : Single(pieces[i], S),
         NEW flat, flat = FlattenSeq(pieces), NEW m, m = Len(flat)
  PROVE  /\ flat \in Seq(S) /\ m \in Nat
         /\ \E from : Picking(pieces, n, flat, m, from)
<1>1. n \in Nat
  BY LenProperties
<1>2. PICK upTo \in [0 .. n -> Seq(S)] : Accumulates(pieces, upTo) /\ flat = upTo[n]
  BY FlattenGrows
<1> DEFINE T == {i \in 0 .. n : \E from : Picking(pieces, i, upTo[i], Len(upTo[i]), from)}
<1>3. 0 \in T
  <2>1. 0 \in 0 .. n /\ upTo[0] = <<>> /\ Len(<<>>) = 0 /\ 1 .. 0 = {}
    BY <1>1, <1>2 DEF Accumulates
  <2> DEFINE from == [k \in 1 .. 0 |-> 0]
  <2>2. Picking(pieces, 0, upTo[0], 0, from)
    BY <2>1 DEF Picking
  <2> QED BY <2>1, <2>2
<1>4. ASSUME NEW i \in 1 .. n, i - 1 \in T
      PROVE  i \in T
  <2> DEFINE j == i - 1
             flat0 == upTo[j]
             m0 == Len(flat0)
             flat1 == upTo[i]
             piece == pieces[i]
  <2>1. j \in 0 .. n /\ j \in Nat /\ i = j + 1 /\ i \in 0 .. n
    BY <1>1
  <2>2. flat0 \in Seq(S) /\ m0 \in Nat
    <3>1. flat0 \in Seq(S)
      BY <1>2, <2>1
    <3> QED BY <3>1, LenProperties
  <2>3. flat1 = flat0 \o piece
    BY <1>1, <1>2 DEF Accumulates
  <2>4. PICK from : Picking(pieces, j, flat0, m0, from)
    BY <1>4
  <2>5. Single(piece, S)
    OBVIOUS
  <2> HIDE DEF j, flat0, m0, flat1, piece, T
  <2>6. \E f : Picking(pieces, i, flat1, Len(flat1), f)
    <3>1. CASE piece = <<>>
      <4>1. flat1 = flat0
        BY <2>2, <2>3, <3>1, ConcatEmptySeq
      <4>2. pieces[j + 1] = <<>>
        BY <2>1, <3>1 DEF piece
      <4>3. Picking(pieces, j + 1, flat0, m0, from)
        BY <2>1, <2>2, <2>4, <4>2, PickNone
      <4> QED BY <2>1, <4>1, <4>3 DEF m0
    <3>2. CASE piece # <<>>
      <4>1. PICK x \in S : piece = <<x>>
        BY <2>5, <3>2 DEF Single
      <4>2. flat1 = Append(flat0, x)
        BY <2>2, <2>3, <4>1, AppendIsConcat
      <4>3. /\ Len(flat1) = m0 + 1 /\ flat1[m0 + 1] = x
            /\ \A k \in 1 .. m0 : flat1[k] = flat0[k]
        BY <2>2, <4>2, AppendProperties DEF m0
      <4>4. pieces[j + 1] = <<x>>
        BY <2>1, <4>1 DEF piece
      <4>5. \E f : Picking(pieces, j + 1, flat1, m0 + 1, f)
        BY <2>1, <2>2, <2>4, <4>3, <4>4, PickOne
      <4> QED BY <2>1, <4>3, <4>5
    <3> QED BY <3>1, <3>2
  <2> QED BY <2>1, <2>6 DEF T, flat1
<1>5. n \in T
  <2> HIDE DEF T
  <2>1. \A i \in 0 .. n : i \in T
    BY <1>1, <1>3, <1>4, CountingUp
  <2> QED BY <1>1, <2>1
<1>6. n \in 0 .. n /\ upTo[n] \in Seq(S)
  BY <1>1, <1>2
<1> QED BY <1>2, <1>5, <1>6, LenProperties

-----------------------------------------------------------------------------
(* The configuration: a column that is indexed or joined on is encrypted,   *)
(* and its companions are columns of its table that clients do not see.     *)
LEMMA ConfiguredColumns ==
  /\ HasBlindIndex \subseteq IsEncrypted /\ HasJoin \subseteq IsEncrypted
  /\ \A ref \in IsEncrypted : ref = <<ref[1], ref[2]>> /\ ref[1] \in TDETables
  /\ TDETables \subseteq Tables
BY DEF HasBlindIndex, HasJoin, IsEncrypted, TDETables, Tables, Columns

LEMMA RefParts == ASSUME NEW table, NEW name PROVE <<table, name>>[1] = table /\ <<table, name>>[2] = name
OBVIOUS

LEMMA VisibleOf ==
  ASSUME NEW table \in TDETables
  PROVE  \A name : name \in Visible(table) <=> <<table, name>> \in IsEncrypted
<1>1. \A ref \in IsEncrypted : ref = <<ref[1], ref[2]>>
  BY ConfiguredColumns
<1>2. Visible(table) = {ref[2] : ref \in {r \in IsEncrypted : r[1] = table}}
  BY DEF Visible
<1>3. ASSUME NEW name, name \in Visible(table)
      PROVE  <<table, name>> \in IsEncrypted
  <2>1. PICK ref \in IsEncrypted : ref[1] = table /\ ref[2] = name
    BY <1>2, <1>3
  <2> QED BY <1>1, <2>1
<1>4. ASSUME NEW name, <<table, name>> \in IsEncrypted
      PROVE  name \in Visible(table)
  <2>1. <<table, name>>[1] = table /\ <<table, name>>[2] = name
    BY RefParts
  <2> QED BY <1>2, <1>4, <2>1
<1> QED BY <1>3, <1>4

LEMMA VisibleColumns ==
  ASSUME NEW table \in Tables
  PROVE  /\ Visible(table) \subseteq Columns[table]
         /\ \A name : <<table, name>> \in IsEncrypted => name \in Visible(table)
         /\ table \in TDETables => \A name \in Visible(table) : <<table, name>> \in IsEncrypted
         /\ table \notin TDETables => Visible(table) = Columns[table]
<1>1. CASE table = "cities"
  <2>1. \A name \in Visible(table) : name \in {"id", "name", "timezone"}
    BY <1>1, VisibleOf DEF TDETables, IsEncrypted
  <2> QED BY <1>1, <2>1, VisibleOf DEF Columns, TDETables
<1>2. CASE table = "city2region"
  <2>1. \A name \in Visible(table) : name \in {"id", "region"}
    BY <1>2, VisibleOf DEF TDETables, IsEncrypted
  <2> QED BY <1>2, <2>1, VisibleOf DEF Columns, TDETables
<1>3. CASE table = "notes"
  BY <1>3 DEF Visible, TDETables, IsEncrypted, Columns
<1> QED BY <1>1, <1>2, <1>3 DEF Tables, Columns

LEMMA IndexColumns ==
  ASSUME NEW table \in Tables, NEW name, <<table, name>> \in HasBlindIndex
  PROVE  /\ BIColumn[name] \in Columns[table] \ Visible(table)
         /\ \A other : <<table, other>> \in HasBlindIndex /\ BIColumn[other] = BIColumn[name]
                          => other = name
         /\ \A other : <<table, other>> \in HasJoin => JoinKeyColumn[other] # BIColumn[name]
<1>1. table = "cities" /\ name \in {"id", "name"}
  BY DEF HasBlindIndex
<1>2. \A other \in Visible(table) : other \in {"id", "name", "timezone"}
  BY <1>1, VisibleOf DEF TDETables, IsEncrypted
<1> QED BY <1>1, <1>2 DEF HasBlindIndex, HasJoin, BIColumn, JoinKeyColumn, Columns

LEMMA JoinKeyColumns ==
  ASSUME NEW table \in Tables, NEW name, <<table, name>> \in HasJoin
  PROVE  /\ JoinKeyColumn[name] \in Columns[table] \ Visible(table)
         /\ \A other : <<table, other>> \in HasJoin => other = name
<1>1. table \in {"cities", "city2region"} /\ name = "id"
  BY DEF HasJoin
<1>2. \A other \in Visible(table) : other \in {"id", "name", "timezone", "region"}
  BY <1>1, VisibleOf DEF TDETables, IsEncrypted
<1> QED BY <1>1, <1>2 DEF HasJoin, JoinKeyColumn, Columns

-----------------------------------------------------------------------------
(* Pairs of a column and a value, and what the mutators add for them.       *)
Pairs(table) == [column : Visible(table), value : Literals]

(* What the mutators write for a pair: the pair itself or a companion.      *)
WrittenFor(table, pair, written) ==
  \/ written = EncryptedPair(table, pair)
  \/ IndexOf(table, pair) = <<written>>
  \/ JoinKeyOf(table, pair) = <<written>>

LEMMA PairEncrypted ==
  ASSUME NEW table, NEW pair \in Pairs(table)
  PROVE  /\ EncryptedPair(table, pair).column = pair.column
         /\ EncryptedPair(table, pair).value =
              IF <<table, pair.column>> \in IsEncrypted
                THEN EncryptedLiteral(pair.value, <<table, pair.column>>) ELSE pair.value
BY DEF EncryptedPair, Configured, Pairs

LEMMA PairIndexed ==
  ASSUME NEW table, NEW pair
  PROVE  /\ IndexOf(table, pair) = <<>> \/ \E x : IndexOf(table, pair) = <<x>>
         /\ <<table, pair.column>> \in HasBlindIndex => \E x : IndexOf(table, pair) = <<x>>
         /\ \A x : IndexOf(table, pair) = <<x>> =>
              /\ <<table, pair.column>> \in HasBlindIndex
              /\ x.column = BIColumn[pair.column]
              /\ x.value = HashLiteral(pair.value, <<table, pair.column>>)
<1> DEFINE new == [column |-> BIColumn[pair.column],
                   value |-> HashLiteral(pair.value, <<table, pair.column>>)]
<1>1. /\ new.column = BIColumn[pair.column]
      /\ new.value = HashLiteral(pair.value, <<table, pair.column>>)
  OBVIOUS
<1>2. IndexOf(table, pair) = IF <<table, pair.column>> \in HasBlindIndex THEN <<new>> ELSE <<>>
  BY DEF IndexOf, Configured
<1> HIDE DEF new
<1>3. \A x : <<new>> = <<x>> => x = new
  OBVIOUS
<1>4. \A x : <<x>> # <<>>
  OBVIOUS
<1> QED BY <1>1, <1>2, <1>3, <1>4

LEMMA PairKeyed ==
  ASSUME NEW table, NEW pair
  PROVE  /\ JoinKeyOf(table, pair) = <<>> \/ \E x : JoinKeyOf(table, pair) = <<x>>
         /\ <<table, pair.column>> \in HasJoin => \E x : JoinKeyOf(table, pair) = <<x>>
         /\ \A x : JoinKeyOf(table, pair) = <<x>> =>
              /\ <<table, pair.column>> \in HasJoin
              /\ x.column = JoinKeyColumn[pair.column]
              /\ x.value = JoinKeyLiteral(pair.value, <<table, pair.column>>)
<1> DEFINE new == [column |-> JoinKeyColumn[pair.column],
                   value |-> JoinKeyLiteral(pair.value, <<table, pair.column>>)]
<1>1. /\ new.column = JoinKeyColumn[pair.column]
      /\ new.value = JoinKeyLiteral(pair.value, <<table, pair.column>>)
  OBVIOUS
<1>2. JoinKeyOf(table, pair) = IF <<table, pair.column>> \in HasJoin THEN <<new>> ELSE <<>>
  BY DEF JoinKeyOf, Configured
<1> HIDE DEF new
<1>3. \A x : <<new>> = <<x>> => x = new
  OBVIOUS
<1>4. \A x : <<x>> # <<>>
  OBVIOUS
<1> QED BY <1>1, <1>2, <1>3, <1>4

(* A companion has no configuration of its own.                             *)
LEMMA CompanionPair ==
  ASSUME NEW table \in Tables, NEW x, x.column \in Columns[table] \ Visible(table)
  PROVE  /\ EncryptedPair(table, x) = x
         /\ IndexOf(table, x) = <<>> /\ JoinKeyOf(table, x) = <<>>
<1>1. <<table, x.column>> \notin IsEncrypted
  BY VisibleColumns
<1>2. /\ <<table, x.column>> \notin HasBlindIndex
      /\ <<table, x.column>> \notin HasJoin
  BY <1>1, ConfiguredColumns
<1> QED BY <1>1, <1>2 DEF EncryptedPair, IndexOf, JoinKeyOf, Configured

(* Sequences, whatever they are made of.                                    *)
IsListing(list, n) == n \in Nat /\ list \in Seq({list[i] : i \in 1 .. n}) /\ Len(list) = n

LEMMA ListingIs ==
  ASSUME NEW list, NEW n, IsListing(list, n)
  PROVE  n \in Nat /\ DOMAIN list = 1 .. n
BY LenProperties DEF IsListing

LEMMA ListingOf ==
  ASSUME NEW n \in Nat, NEW list, DOMAIN list = 1 .. n, list = [i \in 1 .. n |-> list[i]]
  PROVE  IsListing(list, n)
<1> DEFINE S == {list[i] : i \in 1 .. n}
<1>1. list \in [1 .. n -> S]
  OBVIOUS
<1> HIDE DEF S
<1>2. list \in Seq(S) /\ Len(list) = n
  BY <1>1
<1> QED BY <1>2 DEF IsListing, S

LEMMA ListingOfSeq ==
  ASSUME NEW S, NEW list \in Seq(S)
  PROVE  IsListing(list, Len(list)) /\ \A i \in 1 .. Len(list) : list[i] \in S
<1>1. Len(list) \in Nat /\ list \in [1 .. Len(list) -> S]
  BY LenProperties
<1> QED BY <1>1, ListingOf

OneBehind(whole, one, n, other, m) ==
  /\ IsListing(whole, n + m)
  /\ \A k \in 1 .. n : whole[k] = one[k]
  /\ \A k \in 1 .. m : whole[n + k] = other[k]

LEMMA ListingJoined ==
  ASSUME NEW one, NEW n, IsListing(one, n), NEW other, NEW m, IsListing(other, m),
         NEW whole, whole = one \o other
  PROVE  OneBehind(whole, one, n, other, m)
<1> DEFINE S == {one[i] : i \in 1 .. n} \union {other[i] : i \in 1 .. m}
<1>1. n \in Nat /\ m \in Nat /\ n = Len(one) /\ m = Len(other)
  BY DEF IsListing
<1>2. one \in Seq(S) /\ other \in Seq(S)
  <2>1. DOMAIN one = 1 .. n /\ DOMAIN other = 1 .. m
    BY ListingIs
  <2> QED BY <1>1, <2>1 DEF IsListing
<1> HIDE DEF S
<1>3. /\ whole \in Seq(S) /\ DOMAIN whole = 1 .. n + m
      /\ \A k \in 1 .. n : whole[k] = one[k]
      /\ \A k \in 1 .. m : whole[n + k] = other[k]
  BY <1>1, <1>2, Joined
<1> DEFINE l == Len(whole)
<1>4. l = n + m /\ l \in Nat
  BY <1>1, <1>3, LenProperties
<1>5. IsListing(whole, l)
  BY <1>3, ListingOfSeq
<1> HIDE DEF l
<1> QED BY <1>3, <1>4, <1>5 DEF OneBehind

LEMMA PiecesPicked ==
  ASSUME NEW n, NEW pieces, IsListing(pieces, n),
         \A i \in 1 .. n : pieces[i] = <<>> \/ \E x : pieces[i] = <<x>>
  PROVE  \E m, from :
           /\ m \in Nat /\ IsListing(FlattenSeq(pieces), m)
           /\ Picking(pieces, n, FlattenSeq(pieces), m, from)
<1> DEFINE S == {pieces[i][1] : i \in 1 .. n}
           flat == FlattenSeq(pieces)
           m == Len(flat)
<1>1. \A i \in 1 .. n : Single(pieces[i], S)
  <2> SUFFICES ASSUME NEW i \in 1 .. n, NEW x, pieces[i] = <<x>>
               PROVE  x \in S
    BY DEF Single
  <2>1. <<x>>[1] = x
    OBVIOUS
  <2> QED BY <2>1
<1> HIDE DEF S
<1>2. pieces \in Seq(Seq(S)) /\ n = Len(pieces)
  <2>1. n \in Nat /\ DOMAIN pieces = 1 .. n /\ n = Len(pieces)
    BY ListingIs DEF IsListing
  <2> DEFINE Q == Seq(S)
  <2>2. \A i \in 1 .. n : pieces[i] \in Q
    <3>1. <<>> \in Seq(S) /\ \A x \in S : <<x>> \in Seq(S)
      BY EmptySeq
    <3> QED BY <1>1, <3>1 DEF Single
  <2>3. pieces = [i \in 1 .. n |-> pieces[i]]
    BY LenProperties DEF IsListing
  <2> HIDE DEF Q
  <2>4. pieces \in [1 .. n -> Q]
    BY <2>2, <2>3
  <2>5. pieces \in Seq(Q)
    BY <2>1, <2>4
  <2> QED BY <2>1, <2>5 DEF Q
<1>3. flat \in Seq(S) /\ m \in Nat /\ \E from : Picking(pieces, n, flat, m, from)
  BY <1>1, <1>2, FlattenPicks
<1> HIDE DEF flat
<1>4. IsListing(flat, m)
  BY <1>3, ListingOfSeq
<1> QED BY <1>3, <1>4 DEF flat

(* The pairs that the server is sent, one behind another.                   *)
SealedIs(whole, table, given, n, indexes, mi, ofIndex, keys, mk, ofKey) ==
  /\ n \in Nat /\ mi \in Nat /\ mk \in Nat /\ DOMAIN whole = 1 .. n + mi + mk
  /\ \A k \in 1 .. n : whole[k] = EncryptedPair(table, given[k])
  /\ \A k \in 1 .. mi : whole[n + k] = indexes[k]
  /\ \A k \in 1 .. mk : whole[n + mi + k] = keys[k]
  /\ Picking([i \in 1 .. n |-> IndexOf(table, given[i])], n, indexes, mi, ofIndex)
  /\ Picking([i \in 1 .. n |-> JoinKeyOf(table, given[i])], n, keys, mk, ofKey)

LEMMA SealedParts ==
  ASSUME NEW table, NEW given, IsGiven(table, given), NEW n, n = Len(given)
  PROVE  \E indexes, mi, ofIndex, keys, mk, ofKey :
           SealedIs(Sealed(table, given), table, given, n, indexes, mi, ofIndex, keys, mk, ofKey)
<1>1. /\ n \in Nat /\ DOMAIN given = 1 .. n /\ IsListing(given, n) /\ table \in Tables
      /\ \A i \in 1 .. n : given[i] \in Pairs(table)
  BY LenProperties, ListingOfSeq DEF IsGiven, Pairs
<1> DEFINE indexPieces == [i \in 1 .. n |-> IndexOf(table, given[i])]
           indexes == FlattenSeq(indexPieces)
<1>2. PICK mi, ofIndex :
        mi \in Nat /\ IsListing(indexes, mi) /\ Picking(indexPieces, n, indexes, mi, ofIndex)
  <2>1. \A i \in 1 .. n : indexPieces[i] = <<>> \/ \E x : indexPieces[i] = <<x>>
    <3> TAKE i \in 1 .. n
    <3>1. indexPieces[i] = IndexOf(table, given[i])
      OBVIOUS
    <3> HIDE DEF indexPieces
    <3>2. IndexOf(table, given[i]) = <<>> \/ \E x : IndexOf(table, given[i]) = <<x>>
      BY PairIndexed
    <3> QED BY <3>1, <3>2
  <2>2. IsListing(indexPieces, n)
    BY <1>1, ListingOf
  <2> HIDE DEF indexPieces
  <2> QED BY <2>1, <2>2, PiecesPicked
<1> DEFINE first == Indexed(table, given)
           n1 == n + mi
<1>3. first = given \o indexes
  BY <1>1 DEF Indexed
<1>4. \A k \in 1 .. mi : /\ indexes[k].column \in Columns[table] \ Visible(table)
                         /\ EncryptedPair(table, indexes[k]) = indexes[k]
                         /\ JoinKeyOf(table, indexes[k]) = <<>>
  <2> SUFFICES ASSUME NEW k \in 1 .. mi
               PROVE  indexes[k].column \in Columns[table] \ Visible(table)
    BY <1>1, CompanionPair
  <2>1. ofIndex[k] \in 1 .. n /\ indexPieces[ofIndex[k]] = <<indexes[k]>>
    BY <1>2 DEF Picking
  <2> HIDE DEF indexes
  <2>2. IndexOf(table, given[ofIndex[k]]) = <<indexes[k]>>
    BY <2>1
  <2>3. /\ <<table, given[ofIndex[k]].column>> \in HasBlindIndex
        /\ indexes[k].column = BIColumn[given[ofIndex[k]].column]
    BY <2>2, PairIndexed
  <2> QED BY <1>1, <2>3, IndexColumns
<1> HIDE DEF indexes, first, n1
<1>5. /\ IsListing(first, n1) /\ n1 = n + mi /\ n1 \in Nat /\ DOMAIN first = 1 .. n1
      /\ \A k \in 1 .. n : first[k] = given[k]
      /\ \A k \in 1 .. mi : first[n + k] = indexes[k]
  <2>1. IsListing(given, n) /\ IsListing(indexes, mi)
    BY <1>1, <1>2
  <2>2. OneBehind(first, given, n, indexes, mi)
    BY <1>3, <2>1, ListingJoined
  <2> QED BY <2>2, ListingIs DEF n1, OneBehind
<1> DEFINE keyPieces == [i \in 1 .. n1 |-> JoinKeyOf(table, first[i])]
           keys == FlattenSeq(keyPieces)
<1>6. PICK mk, from :
        mk \in Nat /\ IsListing(keys, mk) /\ Picking(keyPieces, n1, keys, mk, from)
  <2>1. \A i \in 1 .. n1 : keyPieces[i] = <<>> \/ \E x : keyPieces[i] = <<x>>
    <3> TAKE i \in 1 .. n1
    <3>1. keyPieces[i] = JoinKeyOf(table, first[i])
      OBVIOUS
    <3> HIDE DEF keyPieces
    <3>2. JoinKeyOf(table, first[i]) = <<>> \/ \E x : JoinKeyOf(table, first[i]) = <<x>>
      BY PairKeyed
    <3> QED BY <3>1, <3>2
  <2>2. IsListing(keyPieces, n1)
    BY <1>5, ListingOf
  <2> HIDE DEF keyPieces
  <2> QED BY <2>1, <2>2, PiecesPicked
<1> DEFINE second == Keyed(table, first)
<1>7. second = first \o keys
  BY <1>5 DEF Keyed
<1>8. Sealed(table, given) = Encrypted(table, second)
  BY DEF Sealed, first
<1>9. \A i \in 1 .. n1 : i \in 1 .. n \/ \E k \in 1 .. mi : i = n + k
  <2> SUFFICES ASSUME NEW i \in 1 .. n1, i \notin 1 .. n PROVE i - n \in 1 .. mi /\ i = n + (i - n)
    OBVIOUS
  <2> QED BY <1>1, <1>2, <1>5
<1>10. Picking([i \in 1 .. n |-> JoinKeyOf(table, given[i])], n, keys, mk, from)
  <2> DEFINE pieces == [i \in 1 .. n |-> JoinKeyOf(table, given[i])]
  <2>1. /\ \A i \in 1 .. n : keyPieces[i] = pieces[i] /\ i \in 1 .. n1
        /\ \A k \in 1 .. mi : keyPieces[n + k] = <<>>
    <3>1. \A i \in 1 .. n : i \in 1 .. n1
      BY <1>1, <1>2, <1>5
    <3>2. \A k \in 1 .. mi : n + k \in 1 .. n1
      BY <1>1, <1>2, <1>5
    <3> QED BY <1>4, <1>5, <3>1, <3>2
  <2> HIDE DEF keyPieces, pieces, keys
  <2>2. \A k \in 1 .. mk : from[k] \in 1 .. n
    <3> SUFFICES ASSUME NEW k \in 1 .. mk PROVE from[k] \in 1 .. n
      OBVIOUS
    <3>1. from[k] \in 1 .. n1 /\ keyPieces[from[k]] = <<keys[k]>>
      BY <1>6 DEF Picking
    <3>2. keyPieces[from[k]] # <<>>
      BY <3>1
    <3> QED BY <1>9, <2>1, <3>1, <3>2
  <2>3. from \in [1 .. mk -> 1 .. n]
    BY <1>6, <2>2 DEF Picking
  <2>4. Picking(pieces, n, keys, mk, from)
    BY <1>6, <2>1, <2>2, <2>3 DEF Picking
  <2> QED BY <2>4 DEF pieces
<1>11. \A k \in 1 .. mk : EncryptedPair(table, keys[k]) = keys[k]
  <2> SUFFICES ASSUME NEW k \in 1 .. mk
               PROVE  keys[k].column \in Columns[table] \ Visible(table)
    BY <1>1, CompanionPair
  <2>1. from[k] \in 1 .. n /\ [i \in 1 .. n |-> JoinKeyOf(table, given[i])][from[k]] = <<keys[k]>>
    BY <1>10 DEF Picking
  <2> HIDE DEF keys
  <2>2. JoinKeyOf(table, given[from[k]]) = <<keys[k]>>
    BY <2>1
  <2>3. /\ <<table, given[from[k]].column>> \in HasJoin
        /\ keys[k].column = JoinKeyColumn[given[from[k]].column]
    BY <2>2, PairKeyed
  <2> QED BY <1>1, <2>3, JoinKeyColumns
<1> HIDE DEF keys, second
<1>12. /\ DOMAIN second = 1 .. n1 + mk
       /\ \A k \in 1 .. n1 : second[k] = first[k]
       /\ \A k \in 1 .. mk : second[n1 + k] = keys[k]
  <2>1. IsListing(first, n1) /\ IsListing(keys, mk)
    BY <1>5, <1>6
  <2>2. OneBehind(second, first, n1, keys, mk)
    BY <1>7, <2>1, ListingJoined
  <2> QED BY <2>2, ListingIs DEF OneBehind
<1> DEFINE whole == Sealed(table, given)
<1>13. /\ DOMAIN whole = 1 .. n1 + mk
       /\ \A k \in 1 .. n1 + mk : whole[k] = EncryptedPair(table, second[k])
  BY <1>8, <1>12 DEF Encrypted
<1> HIDE DEF whole
<1>14. /\ \A k \in 1 .. n1 : k \in 1 .. n1 + mk
       /\ \A k \in 1 .. mk : n1 + k \in 1 .. n1 + mk
       /\ \A k \in 1 .. n : k \in 1 .. n1
       /\ \A k \in 1 .. mi : n + k \in 1 .. n1
  BY <1>1, <1>2, <1>5, <1>6
<1>15. \A k \in 1 .. n : whole[k] = EncryptedPair(table, given[k])
  BY <1>5, <1>12, <1>13, <1>14
<1>16. \A k \in 1 .. mi : whole[n + k] = indexes[k]
  BY <1>4, <1>5, <1>12, <1>13, <1>14
<1>17. \A k \in 1 .. mk : whole[n1 + k] = keys[k]
  BY <1>11, <1>12, <1>13, <1>14
<1>18. SealedIs(whole, table, given, n, indexes, mi, ofIndex, keys, mk, from)
  <2>1. n1 = n + mi /\ n \in Nat /\ mi \in Nat /\ mk \in Nat
    BY <1>1, <1>2, <1>5, <1>6
  <2>2. /\ DOMAIN whole = 1 .. n + mi + mk
        /\ \A k \in 1 .. mk : whole[n + mi + k] = keys[k]
    BY <1>13, <1>17, <2>1
  <2>3. Picking(indexPieces, n, indexes, mi, ofIndex)
    BY <1>2
  <2> HIDE DEF keyPieces
  <2> QED BY <1>10, <1>15, <1>16, <2>1, <2>2, <2>3 DEF SealedIs
<1>19. SealedIs(Sealed(table, given), table, given, n, indexes, mi, ofIndex, keys, mk, from)
  BY <1>18 DEF whole
<1> HIDE DEF whole
<1> QED BY <1>19

LEMMA SealedPairs ==
  ASSUME NEW table, NEW given, IsGiven(table, given), NEW whole, whole = Sealed(table, given)
  PROVE  /\ \E n \in Nat : DOMAIN whole = 1 .. n
         /\ \A k \in DOMAIN whole : \E i \in DOMAIN given : WrittenFor(table, given[i], whole[k])
         /\ \A i \in DOMAIN given : \A x :
              WrittenFor(table, given[i], x) => \E k \in DOMAIN whole : whole[k] = x
         /\ \A k, l \in DOMAIN whole : whole[k].column = whole[l].column => k = l
<1> DEFINE n == Len(given)
<1>1. /\ n \in Nat /\ DOMAIN given = 1 .. n /\ table \in Tables
      /\ \A i \in 1 .. n : given[i] \in Pairs(table)
      /\ \A i, j \in 1 .. n : given[i].column = given[j].column => i = j
  <2>1. given \in Seq(Pairs(table)) /\ table \in Tables
    BY DEF IsGiven, Pairs
  <2>2. n \in Nat /\ DOMAIN given = 1 .. n /\ \A i \in 1 .. n : given[i] \in Pairs(table)
    BY <2>1, LenProperties, ElementOfSeq
  <2> HIDE DEF n
  <2>3. \A i, j \in DOMAIN given : given[i].column = given[j].column => i = j
    BY DEF IsGiven
  <2> QED BY <2>1, <2>2, <2>3
<1>2. PICK indexes, mi, ofIndex, keys, mk, ofKey :
        SealedIs(whole, table, given, n, indexes, mi, ofIndex, keys, mk, ofKey)
  BY SealedParts
<1> HIDE DEF n
<1> DEFINE indexPieces == [i \in 1 .. n |-> IndexOf(table, given[i])]
           keyPieces == [i \in 1 .. n |-> JoinKeyOf(table, given[i])]
<1>3. /\ mi \in Nat /\ mk \in Nat /\ DOMAIN whole = 1 .. n + mi + mk
      /\ \A k \in 1 .. n : whole[k] = EncryptedPair(table, given[k])
      /\ \A k \in 1 .. mi : whole[n + k] = indexes[k]
      /\ \A k \in 1 .. mk : whole[n + mi + k] = keys[k]
      /\ Picking(indexPieces, n, indexes, mi, ofIndex)
      /\ Picking(keyPieces, n, keys, mk, ofKey)
  BY <1>2 DEF SealedIs
<1>4. /\ \A i \in 1 .. n : indexPieces[i] = IndexOf(table, given[i])
      /\ \A i \in 1 .. n : keyPieces[i] = JoinKeyOf(table, given[i])
  OBVIOUS
<1> HIDE DEF indexPieces, keyPieces
<1>5. \A k \in 1 .. n + mi + mk :
        \/ k \in 1 .. n
        \/ \E j \in 1 .. mi : k = n + j
        \/ \E j \in 1 .. mk : k = n + mi + j
  <2> SUFFICES ASSUME NEW k \in 1 .. n + mi + mk, k \notin 1 .. n
               PROVE  \/ k - n \in 1 .. mi /\ k = n + (k - n)
                      \/ k - n - mi \in 1 .. mk /\ k = n + mi + (k - n - mi)
    OBVIOUS
  <2> QED BY <1>1, <1>3
<1>6. /\ \A k \in 1 .. n : k \in 1 .. n + mi + mk
      /\ \A k \in 1 .. mi : n + k \in 1 .. n + mi + mk
      /\ \A k \in 1 .. mk : n + mi + k \in 1 .. n + mi + mk
  BY <1>1, <1>3
<1>7. ASSUME NEW k \in 1 .. n
      PROVE  whole[k].column = given[k].column /\ given[k].column \in Visible(table)
  <2>1. given[k] \in Pairs(table) /\ whole[k] = EncryptedPair(table, given[k])
    BY <1>1, <1>3
  <2>2. whole[k].column = given[k].column
    BY <2>1, PairEncrypted
  <2> QED BY <2>1, <2>2 DEF Pairs
<1>8. ASSUME NEW k \in 1 .. mi
      PROVE  /\ ofIndex[k] \in 1 .. n /\ IndexOf(table, given[ofIndex[k]]) = <<whole[n + k]>>
             /\ <<table, given[ofIndex[k]].column>> \in HasBlindIndex
             /\ whole[n + k].column = BIColumn[given[ofIndex[k]].column]
  <2>1. ofIndex[k] \in 1 .. n /\ indexPieces[ofIndex[k]] = <<indexes[k]>>
    BY <1>3 DEF Picking
  <2>2. IndexOf(table, given[ofIndex[k]]) = <<whole[n + k]>>
    BY <1>3, <1>4, <2>1
  <2> QED BY <2>1, <2>2, PairIndexed
<1>9. ASSUME NEW k \in 1 .. mk
      PROVE  /\ ofKey[k] \in 1 .. n /\ JoinKeyOf(table, given[ofKey[k]]) = <<whole[n + mi + k]>>
             /\ <<table, given[ofKey[k]].column>> \in HasJoin
             /\ whole[n + mi + k].column = JoinKeyColumn[given[ofKey[k]].column]
  <2>1. ofKey[k] \in 1 .. n /\ keyPieces[ofKey[k]] = <<keys[k]>>
    BY <1>3 DEF Picking
  <2>2. JoinKeyOf(table, given[ofKey[k]]) = <<whole[n + mi + k]>>
    BY <1>3, <1>4, <2>1
  <2> QED BY <2>1, <2>2, PairKeyed
<1>10. ASSUME NEW k \in DOMAIN whole
       PROVE  \E i \in DOMAIN given : WrittenFor(table, given[i], whole[k])
  <2>1. CASE k \in 1 .. n
    BY <1>1, <1>3, <2>1 DEF WrittenFor
  <2>2. ASSUME NEW j \in 1 .. mi, k = n + j
        PROVE  WrittenFor(table, given[ofIndex[j]], whole[k])
    BY <1>8, <2>2 DEF WrittenFor
  <2>3. ASSUME NEW j \in 1 .. mk, k = n + mi + j
        PROVE  WrittenFor(table, given[ofKey[j]], whole[k])
    BY <1>9, <2>3 DEF WrittenFor
  <2>4. /\ \A j \in 1 .. mi : ofIndex[j] \in DOMAIN given
        /\ \A j \in 1 .. mk : ofKey[j] \in DOMAIN given
    BY <1>1, <1>8, <1>9
  <2>5. \/ k \in 1 .. n
        \/ \E j \in 1 .. mi : k = n + j
        \/ \E j \in 1 .. mk : k = n + mi + j
    BY <1>3, <1>5
  <2> QED BY <2>1, <2>2, <2>3, <2>4, <2>5
<1>11. ASSUME NEW i \in DOMAIN given, NEW x, WrittenFor(table, given[i], x)
       PROVE  \E k \in DOMAIN whole : whole[k] = x
  <2>0. \A y : <<y>> # <<>> /\ (<<x>> = <<y>> => x = y)
    OBVIOUS
  <2>1. CASE x = EncryptedPair(table, given[i])
    BY <1>1, <1>3, <1>6, <2>1
  <2>2. CASE IndexOf(table, given[i]) = <<x>>
    <3>1. indexPieces[i] = <<x>> /\ indexPieces[i] # <<>> /\ i \in 1 .. n
      BY <1>1, <1>4, <2>0, <2>2
    <3>2. PICK j \in 1 .. mi : ofIndex[j] = i
      BY <1>3, <3>1 DEF Picking
    <3>3. <<x>> = <<whole[n + j]>>
      BY <1>8, <2>2, <3>2
    <3> QED BY <1>3, <1>6, <2>0, <3>3
  <2>3. CASE JoinKeyOf(table, given[i]) = <<x>>
    <3>1. keyPieces[i] = <<x>> /\ keyPieces[i] # <<>> /\ i \in 1 .. n
      BY <1>1, <1>4, <2>0, <2>3
    <3>2. PICK j \in 1 .. mk : ofKey[j] = i
      BY <1>3, <3>1 DEF Picking
    <3>3. <<x>> = <<whole[n + mi + j]>>
      BY <1>9, <2>3, <3>2
    <3> QED BY <1>3, <1>6, <2>0, <3>3
  <2> QED BY <1>11, <2>1, <2>2, <2>3 DEF WrittenFor
<1>12. ASSUME NEW k \in DOMAIN whole, NEW l \in DOMAIN whole, whole[k].column = whole[l].column
       PROVE  k = l
  <2>1. ASSUME NEW i \in 1 .. mi, NEW j \in 1 .. mi,
               whole[n + i].column = whole[n + j].column
        PROVE  n + i = n + j
    <3> DEFINE one == given[ofIndex[i]].column
               other == given[ofIndex[j]].column
    <3>0. /\ <<table, one>> \in HasBlindIndex /\ <<table, other>> \in HasBlindIndex
          /\ BIColumn[other] = BIColumn[one]
      BY <1>8, <2>1
    <3>1. other = one
      <4> HIDE DEF one, other
      <4> QED BY <1>1, <3>0, IndexColumns
    <3>2. ofIndex[i] = ofIndex[j]
      BY <1>1, <1>8, <3>1
    <3> QED BY <1>3, <3>2 DEF Picking
  <2>2. ASSUME NEW i \in 1 .. mk, NEW j \in 1 .. mk,
               whole[n + mi + i].column = whole[n + mi + j].column
        PROVE  n + mi + i = n + mi + j
    <3>1. given[ofKey[i]].column = given[ofKey[j]].column
      BY <1>1, <1>9, <2>2, JoinKeyColumns
    <3>2. ofKey[i] = ofKey[j]
      BY <1>1, <1>9, <3>1
    <3> QED BY <1>3, <3>2 DEF Picking
  <2>3. \A i \in 1 .. n : \A j \in 1 .. mi : whole[i].column # whole[n + j].column
    <3> TAKE i \in 1 .. n
    <3> TAKE j \in 1 .. mi
    <3> DEFINE name == given[ofIndex[j]].column
    <3>1. <<table, name>> \in HasBlindIndex /\ whole[n + j].column = BIColumn[name]
      BY <1>8
    <3> HIDE DEF name
    <3>2. BIColumn[name] \notin Visible(table)
      BY <1>1, <3>1, IndexColumns
    <3> QED BY <1>7, <3>1, <3>2
  <2>4. \A i \in 1 .. n : \A j \in 1 .. mk : whole[i].column # whole[n + mi + j].column
    <3> TAKE i \in 1 .. n
    <3> TAKE j \in 1 .. mk
    <3> DEFINE name == given[ofKey[j]].column
    <3>1. <<table, name>> \in HasJoin /\ whole[n + mi + j].column = JoinKeyColumn[name]
      BY <1>9
    <3> HIDE DEF name
    <3>2. JoinKeyColumn[name] \notin Visible(table)
      BY <1>1, <3>1, JoinKeyColumns
    <3> QED BY <1>7, <3>1, <3>2
  <2>5. \A i \in 1 .. mi : \A j \in 1 .. mk : whole[n + i].column # whole[n + mi + j].column
    <3> TAKE i \in 1 .. mi
    <3> TAKE j \in 1 .. mk
    <3> DEFINE one == given[ofIndex[i]].column
               other == given[ofKey[j]].column
    <3>1. <<table, one>> \in HasBlindIndex /\ whole[n + i].column = BIColumn[one]
      BY <1>8
    <3>2. <<table, other>> \in HasJoin /\ whole[n + mi + j].column = JoinKeyColumn[other]
      BY <1>9
    <3> HIDE DEF one, other
    <3>3. JoinKeyColumn[other] # BIColumn[one]
      BY <1>1, <3>1, <3>2, IndexColumns
    <3> QED BY <3>1, <3>2, <3>3
  <2>6. CASE k \in 1 .. n /\ l \in 1 .. n
    BY <1>1, <1>7, <1>12, <2>6
  <2>7. k \in 1 .. n + mi + mk /\ l \in 1 .. n + mi + mk
    BY <1>3
  <2> QED BY <1>5, <1>12, <2>1, <2>2, <2>3, <2>4, <2>5, <2>6, <2>7
<1>13. \E m \in Nat : DOMAIN whole = 1 .. m
  BY <1>1, <1>3
<1> QED BY <1>10, <1>11, <1>12, <1>13

-----------------------------------------------------------------------------
(* Rows: a stored cell is the encryption of the cell in clear, or what its  *)
(* companion must hold, and no statement changes that.                      *)
SealedCell(ref, cell) ==
  IF cell = NullCell \/ ref \notin IsEncrypted THEN cell ELSE CryptoString(Key(ref), cell)
IndexedCell(ref, cell) ==
  IF cell = NullCell THEN NullCell ELSE HMACString(Key(ref), "string", cell)
KeyedCell(cell) ==
  IF cell = NullCell THEN NullCell ELSE JoinKeyString("string", cell)

SealedRow(table, row, clear) ==
  /\ DOMAIN row = Columns[table]
  /\ \A name \in Visible(table) : row[name] = SealedCell(<<table, name>>, clear[name])
  /\ \A name \in Visible(table) : <<table, name>> \in HasBlindIndex =>
       row[BIColumn[name]] = IndexedCell(<<table, name>>, clear[name])
  /\ \A name \in Visible(table) : <<table, name>> \in HasJoin =>
       row[JoinKeyColumn[name]] = KeyedCell(clear[name])

LEMMA CellOfText ==
  ASSUME NEW text
  PROVE  Cell(Lit("string", text)) = text /\ Cell(NullLit) = NullCell
BY DEF Cell, Lit, NullLit

LEMMA CellOfLiteral ==
  ASSUME NEW lit \in Literals
  PROVE  /\ Cell(lit) \in Texts \union {NullCell}
         /\ IsNull(lit) <=> Cell(lit) = NullCell
         /\ ~IsNull(lit) => Cell(lit) = lit.text
<1>1. lit.text \in Texts
  BY DEF Literals
<1>2. lit.text # NullCell
  BY <1>1, TextCell
<1>3. CASE lit.type = "null"
  BY <1>3 DEF Cell, IsNull
<1>4. CASE lit.type # "null"
  <2>1. Cell(lit) = lit.text
    BY <1>4 DEF Cell
  <2> QED BY <1>1, <1>2, <1>4, <2>1 DEF IsNull
<1> QED BY <1>3, <1>4

LEMMA WrittenCells ==
  ASSUME NEW table, NEW pair \in Pairs(table), AsWritten(pair), IsText(table, pair),
         NEW ref, ref = <<table, pair.column>>, NEW cell, cell = Cell(pair.value)
  PROVE  /\ Cell(EncryptedPair(table, pair).value) = SealedCell(ref, cell)
         /\ ref \in HasBlindIndex => Cell(HashLiteral(pair.value, ref)) = IndexedCell(ref, cell)
         /\ ref \in HasJoin => Cell(JoinKeyLiteral(pair.value, ref)) = KeyedCell(cell)
<1> DEFINE lit == pair.value
<1>1. lit \in Literals
  BY DEF Pairs
<1>2. EncryptedPair(table, pair).value = IF ref \in IsEncrypted THEN EncryptedLiteral(lit, ref) ELSE lit
  BY PairEncrypted
<1>3. lit.type = "float" => Rounded[lit.text] = lit.text
  BY DEF AsWritten
<1>4. ref \in HasBlindIndex \union HasJoin => lit.type \in {"string", "null"}
  BY DEF IsText, Configured
<1>5. cell = Cell(lit)
  OBVIOUS
<1> HIDE DEF lit
<1>6. CASE IsNull(lit)
  <2>1. cell = NullCell
    BY <1>1, <1>5, <1>6, CellOfLiteral
  <2>2. /\ EncryptedLiteral(lit, ref) = NullLit /\ HashLiteral(lit, ref) = NullLit
        /\ JoinKeyLiteral(lit, ref) = NullLit
    BY <1>6 DEF EncryptedLiteral, HashLiteral, JoinKeyLiteral
  <2>3. Cell(NullLit) = NullCell
    BY CellOfText
  <2> QED BY <1>2, <1>5, <2>1, <2>2, <2>3 DEF SealedCell, IndexedCell, KeyedCell, lit
<1>7. CASE ~IsNull(lit)
  <2>1. cell = lit.text /\ cell # NullCell
    BY <1>1, <1>5, <1>7, CellOfLiteral
  <2>2. EncryptedLiteral(lit, ref) = Lit("string", CryptoString(Key(ref), cell))
    BY <1>3, <1>7, <2>1 DEF EncryptedLiteral
  <2>3. ref \in HasBlindIndex \union HasJoin => lit.type = "string"
    BY <1>4, <1>7 DEF IsNull
  <2>4. ref \in HasBlindIndex => HashLiteral(lit, ref) = Lit("string", HMACString(Key(ref), "string", cell))
    BY <1>7, <2>1, <2>3 DEF HashLiteral
  <2>5. ref \in HasJoin => JoinKeyLiteral(lit, ref) = Lit("string", JoinKeyString("string", cell))
    BY <1>7, <2>1, <2>3 DEF JoinKeyLiteral
  <2>6. \A text : Cell(Lit("string", text)) = text
    BY CellOfText
  <2> QED BY <1>2, <1>5, <2>1, <2>2, <2>4, <2>5, <2>6 DEF SealedCell, IndexedCell, KeyedCell, lit
<1> QED BY <1>6, <1>7

LEMMA ChangedTo ==
  ASSUME NEW row, NEW given, NEW i \in DOMAIN given, given[i].column \in DOMAIN row,
         \A k, l \in DOMAIN given : given[k].column = given[l].column => k = l
  PROVE  Changed(row, given)[given[i].column] = Cell(given[i].value)
<1> DEFINE name == given[i].column
           chosen == CHOOSE k \in DOMAIN given : given[k].column = name
<1>1. chosen \in DOMAIN given /\ given[chosen].column = name
  OBVIOUS
<1>2. chosen = i
  BY <1>1
<1> HIDE DEF chosen
<1>3. Changed(row, given)[name] = Cell(given[chosen].value)
  BY DEF Changed, chosen
<1> QED BY <1>2, <1>3

LEMMA ChangedNot ==
  ASSUME NEW row, NEW given, NEW name \in DOMAIN row,
         \A k \in DOMAIN given : given[k].column # name
  PROVE  Changed(row, given)[name] = row[name]
BY DEF Changed

LEMMA ChangedColumns ==
  ASSUME NEW row, NEW given
  PROVE  DOMAIN Changed(row, given) = DOMAIN row
BY DEF Changed

(* What gives a column a value is what was written for a pair of it.        *)
LEMMA WrittenColumns ==
  ASSUME NEW table \in Tables, NEW pair \in Pairs(table), NEW x, WrittenFor(table, pair, x),
         NEW name
  PROVE  /\ x.column = name /\ name \in Visible(table) =>
              pair.column = name /\ x = EncryptedPair(table, pair)
         /\ <<table, name>> \in HasBlindIndex /\ x.column = BIColumn[name] =>
              pair.column = name /\ IndexOf(table, pair) = <<x>>
         /\ <<table, name>> \in HasJoin /\ x.column = JoinKeyColumn[name] =>
              pair.column = name /\ JoinKeyOf(table, pair) = <<x>>
<1> DEFINE own == pair.column
<1>1. own \in Visible(table)
  BY DEF Pairs
<1>2. CASE x = EncryptedPair(table, pair)
  <2>1. x.column = own
    BY <1>2, PairEncrypted
  <2> HIDE DEF own
  <2>2. <<table, name>> \in HasBlindIndex => BIColumn[name] \notin Visible(table)
    BY IndexColumns
  <2>3. <<table, name>> \in HasJoin => JoinKeyColumn[name] \notin Visible(table)
    BY JoinKeyColumns
  <2> QED BY <1>1, <1>2, <2>1, <2>2, <2>3 DEF own
<1>3. CASE IndexOf(table, pair) = <<x>>
  <2>1. <<table, own>> \in HasBlindIndex /\ x.column = BIColumn[own]
    BY <1>3, PairIndexed
  <2> HIDE DEF own
  <2>2. /\ BIColumn[own] \notin Visible(table)
        /\ <<table, name>> \in HasBlindIndex /\ BIColumn[name] = BIColumn[own] => name = own
        /\ <<table, name>> \in HasJoin => JoinKeyColumn[name] # BIColumn[own]
    BY <2>1, IndexColumns
  <2> QED BY <1>3, <2>1, <2>2 DEF own
<1>4. CASE JoinKeyOf(table, pair) = <<x>>
  <2>1. <<table, own>> \in HasJoin /\ x.column = JoinKeyColumn[own]
    BY <1>4, PairKeyed
  <2> HIDE DEF own
  <2>2. /\ JoinKeyColumn[own] \notin Visible(table)
        /\ <<table, name>> \in HasJoin => name = own
    BY <2>1, JoinKeyColumns
  <2>3. <<table, name>> \in HasBlindIndex => JoinKeyColumn[own] # BIColumn[name]
    BY <2>1, IndexColumns
  <2> QED BY <1>4, <2>1, <2>2, <2>3 DEF own
<1> QED BY <1>2, <1>3, <1>4 DEF WrittenFor

LEMMA GivenPairs ==
  ASSUME NEW table, NEW given, IsGiven(table, given), NEW i \in DOMAIN given
  PROVE  given[i] \in Pairs(table)
<1>1. given \in Seq(Pairs(table))
  BY DEF IsGiven, Pairs
<1> QED BY <1>1, LenProperties, ElementOfSeq

LEMMA ChangedRow ==
  ASSUME NEW table, NEW given, IsGiven(table, given), NEW clear \in ClearRows(table)
  PROVE  Changed(clear, given) \in ClearRows(table)
<1> DEFINE C == Texts \union {NullCell}
           new == Changed(clear, given)
<1>1. /\ \A k \in DOMAIN given : given[k] \in Pairs(table)
      /\ \A k, l \in DOMAIN given : given[k].column = given[l].column => k = l
  BY LenProperties, ElementOfSeq DEF IsGiven, Pairs
<1>2. DOMAIN clear = Columns[table] /\ \A name \in Columns[table] : clear[name] \in C
  BY DEF ClearRows
<1>3. ASSUME NEW name \in Columns[table]
      PROVE  new[name] \in C
  <2>1. CASE \A k \in DOMAIN given : given[k].column # name
    BY <1>2, <2>1, ChangedNot
  <2>2. ASSUME NEW k \in DOMAIN given, given[k].column = name
        PROVE  new[name] \in C
    <3>1. new[name] = Cell(given[k].value)
      BY <1>1, <1>2, <2>2, ChangedTo
    <3>2. given[k].value \in Literals
      BY <1>1 DEF Pairs
    <3> QED BY <3>1, <3>2, CellOfLiteral
  <2> QED BY <2>1, <2>2
<1>4. DOMAIN new = Columns[table] /\ new = [name \in DOMAIN new |-> new[name]]
  BY <1>2, ChangedColumns DEF Changed
<1> HIDE DEF C, new
<1>5. new \in [Columns[table] -> C]
  BY <1>3, <1>4
<1> QED BY <1>5 DEF ClearRows, C, new

LEMMA ChangedIsSealed ==
  ASSUME NEW table, NEW given, IsGiven(table, given), NEW clear \in ClearRows(table),
         NEW row, SealedRow(table, row, clear)
  PROVE  SealedRow(table, Changed(row, Sealed(table, given)), Changed(clear, given))
<1> DEFINE whole == Sealed(table, given)
           newRow == Changed(row, whole)
           newClear == Changed(clear, given)
<1>1. /\ \A k \in DOMAIN given : /\ given[k] \in Pairs(table) /\ AsWritten(given[k])
                                 /\ IsText(table, given[k])
      /\ \A k, l \in DOMAIN given : given[k].column = given[l].column => k = l
      /\ table \in Tables
  <2>1. \A k \in DOMAIN given : given[k] \in Pairs(table)
    BY GivenPairs
  <2> QED BY <2>1 DEF IsGiven
<1>2. /\ \A k \in DOMAIN whole : \E i \in DOMAIN given : WrittenFor(table, given[i], whole[k])
      /\ \A i \in DOMAIN given : \A x :
           WrittenFor(table, given[i], x) => \E k \in DOMAIN whole : whole[k] = x
      /\ \A k, l \in DOMAIN whole : whole[k].column = whole[l].column => k = l
  BY SealedPairs
<1> HIDE DEF whole
<1>3. /\ DOMAIN row = Columns[table] /\ DOMAIN clear = Columns[table]
      /\ DOMAIN newRow = Columns[table]
  BY ChangedColumns DEF SealedRow, ClearRows
<1>4. ASSUME NEW i \in DOMAIN given, NEW x, WrittenFor(table, given[i], x),
             x.column \in Columns[table]
      PROVE  newRow[x.column] = Cell(x.value)
  <2>1. PICK k \in DOMAIN whole : whole[k] = x
    BY <1>2, <1>4
  <2> QED BY <1>2, <1>3, <1>4, <2>1, ChangedTo
<1>5. ASSUME NEW name \in Visible(table), NEW i \in DOMAIN given, given[i].column = name
      PROVE  newClear[name] = Cell(given[i].value)
  BY <1>1, <1>3, <1>5, ChangedTo, VisibleColumns
<1>6. ASSUME NEW name \in Visible(table), \A i \in DOMAIN given : given[i].column # name
      PROVE  newClear[name] = clear[name]
  BY <1>1, <1>3, <1>6, ChangedNot, VisibleColumns
<1> HIDE DEF newRow, newClear
<1>7. ASSUME NEW name \in Visible(table)
      PROVE  newRow[name] = SealedCell(<<table, name>>, newClear[name])
  <2>0. name \in Columns[table]
    BY <1>1, VisibleColumns
  <2>1. ASSUME NEW i \in DOMAIN given, given[i].column = name
        PROVE  newRow[name] = SealedCell(<<table, name>>, newClear[name])
    <3> DEFINE x == EncryptedPair(table, given[i])
    <3>1. x.column = name /\ WrittenFor(table, given[i], x)
      BY <1>1, <2>1, PairEncrypted DEF WrittenFor
    <3>2. newRow[name] = Cell(x.value)
      BY <1>4, <2>0, <3>1
    <3>3. Cell(x.value) = SealedCell(<<table, name>>, Cell(given[i].value))
      BY <1>1, <2>1, WrittenCells
    <3> QED BY <1>5, <2>1, <3>2, <3>3
  <2>2. CASE \A i \in DOMAIN given : given[i].column # name
    <3>1. \A k \in DOMAIN whole : whole[k].column # name
      <4> SUFFICES ASSUME NEW k \in DOMAIN whole, whole[k].column = name PROVE FALSE
        OBVIOUS
      <4>1. PICK i \in DOMAIN given : WrittenFor(table, given[i], whole[k])
        BY <1>2
      <4>2. given[i].column = name
        BY <1>1, <4>1, WrittenColumns
      <4> QED BY <2>2, <4>2
    <3>2. newRow[name] = row[name]
      BY <1>3, <2>0, <3>1, ChangedNot DEF newRow
    <3> QED BY <1>6, <2>2, <3>2 DEF SealedRow
  <2> QED BY <2>1, <2>2
<1>8. ASSUME NEW name, <<table, name>> \in HasBlindIndex
      PROVE  newRow[BIColumn[name]] = IndexedCell(<<table, name>>, newClear[name])
  <2> DEFINE column == BIColumn[name]
  <2>0. column \in Columns[table] /\ name \in Visible(table)
    BY <1>1, <1>8, IndexColumns, VisibleColumns, ConfiguredColumns
  <2>1. ASSUME NEW i \in DOMAIN given, given[i].column = name
        PROVE  newRow[column] = IndexedCell(<<table, name>>, newClear[name])
    <3>1. PICK x : IndexOf(table, given[i]) = <<x>>
      BY <1>8, <2>1, PairIndexed
    <3>2. x.column = column /\ x.value = HashLiteral(given[i].value, <<table, name>>)
      BY <2>1, <3>1, PairIndexed
    <3>3. newRow[column] = Cell(x.value)
      BY <1>4, <2>0, <3>1, <3>2 DEF WrittenFor
    <3>4. Cell(x.value) = IndexedCell(<<table, name>>, Cell(given[i].value))
      BY <1>1, <1>8, <2>1, <3>2, WrittenCells
    <3> QED BY <1>5, <2>0, <2>1, <3>3, <3>4
  <2>2. CASE \A i \in DOMAIN given : given[i].column # name
    <3>1. \A k \in DOMAIN whole : whole[k].column # column
      BY <1>1, <1>2, <1>8, <2>2, WrittenColumns
    <3>2. newRow[column] = row[column]
      BY <1>3, <2>0, <3>1, ChangedNot DEF newRow
    <3> QED BY <1>6, <1>8, <2>0, <2>2, <3>2 DEF SealedRow
  <2> QED BY <2>1, <2>2
<1>9. ASSUME NEW name, <<table, name>> \in HasJoin
      PROVE  newRow[JoinKeyColumn[name]] = KeyedCell(newClear[name])
  <2> DEFINE column == JoinKeyColumn[name]
  <2>0. column \in Columns[table] /\ name \in Visible(table)
    BY <1>1, <1>9, JoinKeyColumns, VisibleColumns, ConfiguredColumns
  <2>1. ASSUME NEW i \in DOMAIN given, given[i].column = name
        PROVE  newRow[column] = KeyedCell(newClear[name])
    <3>1. PICK x : JoinKeyOf(table, given[i]) = <<x>>
      BY <1>9, <2>1, PairKeyed
    <3>2. x.column = column /\ x.value = JoinKeyLiteral(given[i].value, <<table, name>>)
      BY <2>1, <3>1, PairKeyed
    <3>3. newRow[column] = Cell(x.value)
      BY <1>4, <2>0, <3>1, <3>2 DEF WrittenFor
    <3>4. Cell(x.value) = KeyedCell(Cell(given[i].value))
      BY <1>1, <1>9, <2>1, <3>2, WrittenCells
    <3> QED BY <1>5, <2>0, <2>1, <3>3, <3>4
  <2>2. CASE \A i \in DOMAIN given : given[i].column # name
    <3>1. \A k \in DOMAIN whole : whole[k].column # column
      BY <1>1, <1>2, <1>9, <2>2, WrittenColumns
    <3>2. newRow[column] = row[column]
      BY <1>3, <2>0, <3>1, ChangedNot DEF newRow
    <3> QED BY <1>6, <1>9, <2>0, <2>2, <3>2 DEF SealedRow
  <2> QED BY <2>1, <2>2
<1> QED BY <1>3, <1>7, <1>8, <1>9 DEF SealedRow, newRow, newClear, whole

LEMMA NullRowIsSealed ==
  ASSUME NEW table \in Tables
  PROVE  NullRow(table) \in ClearRows(table) /\ SealedRow(table, NullRow(table), NullRow(table))
<1>1. \A name \in Columns[table] : NullRow(table)[name] = NullCell
  BY DEF NullRow
<1>2. DOMAIN NullRow(table) = Columns[table] /\ NullRow(table) \in ClearRows(table)
  BY DEF NullRow, ClearRows
<1>3. \A name \in Visible(table) : NullRow(table)[name] = NullCell
  BY <1>1, VisibleColumns
<1>4. \A name : <<table, name>> \in HasBlindIndex => NullRow(table)[BIColumn[name]] = NullCell
  BY <1>1, IndexColumns
<1>5. \A name : <<table, name>> \in HasJoin => NullRow(table)[JoinKeyColumn[name]] = NullCell
  BY <1>1, JoinKeyColumns
<1> QED BY <1>2, <1>3, <1>4, <1>5 DEF SealedRow, SealedCell, IndexedCell, KeyedCell

(* A table without TDE has its rows in clear.                               *)
LEMMA ClearRowIsSealed ==
  ASSUME NEW table \in Tables \ TDETables, NEW row \in ClearRows(table)
  PROVE  SealedRow(table, row, row)
<1>1. \A name : <<table, name>>[1] = table
  BY RefParts
<1>2. \A name : <<table, name>> \notin IsEncrypted
  BY <1>1, ConfiguredColumns
<1>3. \A name : <<table, name>> \notin HasBlindIndex /\ <<table, name>> \notin HasJoin
  BY <1>2, ConfiguredColumns
<1>4. DOMAIN row = Columns[table]
  BY DEF ClearRows
<1> QED BY <1>2, <1>3, <1>4 DEF SealedRow, SealedCell

(* What a row holds is what a reader with the keys gets.                    *)
LEMMA SealedCellIsRead ==
  ASSUME NEW ref, NEW cell \in Texts \union {NullCell}
  PROVE  DecryptedCell({ref} \intersect IsEncrypted, SealedCell(ref, cell))
           = [isOk |-> TRUE, out |-> cell]
<1>1. CASE ref \notin IsEncrypted
  <2>1. {ref} \intersect IsEncrypted = {} /\ SealedCell(ref, cell) = cell
    BY <1>1 DEF SealedCell
  <2> QED BY <2>1 DEF DecryptedCell
<1>2. CASE cell = NullCell
  BY <1>2 DEF DecryptedCell, SealedCell
<1>3. CASE ref \in IsEncrypted /\ cell # NullCell
  <2> DEFINE config == {ref} \intersect IsEncrypted
             chosen == CHOOSE column \in config : TRUE
             stays == SealedCell(ref, cell)
  <2>1. stays = CryptoString(Key(ref), cell)
    BY <1>3 DEF SealedCell
  <2>2. cell \in Seq({"b"} \X Characters)
    BY <1>3 DEF Texts
  <2>3. stays # NullCell
    BY <2>1, <2>2, CipherCell
  <2>4. config = {ref} /\ config # {}
    BY <1>3
  <2>5. chosen = ref
    BY <2>4
  <2>6. FromCryptoString(Key(ref), stays) = [isOk |-> TRUE, out |-> cell]
    BY <2>1, <2>2, StoredIsRead
  <2> HIDE DEF stays, config
  <2>7. DecryptedCell(config, stays) = FromCryptoString(Key(chosen), stays)
    BY <2>3, <2>4 DEF DecryptedCell
  <2> QED BY <2>5, <2>6, <2>7 DEF stays, config
<1> QED BY <1>1, <1>2, <1>3

LEMMA SealedRowIsStored ==
  ASSUME NEW table \in Tables, NEW clear \in ClearRows(table), NEW row,
         SealedRow(table, row, clear)
  PROVE  StoredAs(table, row, clear)
<1>1. \A name \in Visible(table) : clear[name] \in Texts \union {NullCell}
  BY VisibleColumns DEF ClearRows
<1>2. ASSUME NEW name \in Visible(table)
      PROVE  DecryptedCell({<<table, name>>} \intersect IsEncrypted, row[name])
               = [isOk |-> TRUE, out |-> clear[name]]
  <2>1. row[name] = SealedCell(<<table, name>>, clear[name])
    BY DEF SealedRow
  <2> QED BY <1>1, <2>1, SealedCellIsRead
<1>3. ASSUME NEW ref \in HasBlindIndex, ref[1] = table
      PROVE  Companion(clear[ref[2]], row[BIColumn[ref[2]]],
                       HMACString(Key(ref), "string", clear[ref[2]]))
  <2> DEFINE name == ref[2]
  <2>1. ref = <<table, name>> /\ ref \in IsEncrypted
    BY <1>3, ConfiguredColumns
  <2>2. name \in Visible(table)
    BY <2>1, VisibleColumns
  <2> HIDE DEF name
  <2>3. row[BIColumn[name]] = IndexedCell(ref, clear[name])
    BY <2>1, <2>2 DEF SealedRow
  <2> QED BY <2>3 DEF Companion, IndexedCell, name
<1>4. ASSUME NEW ref \in HasJoin, ref[1] = table
      PROVE  Companion(clear[ref[2]], row[JoinKeyColumn[ref[2]]],
                       JoinKeyString("string", clear[ref[2]]))
  <2> DEFINE name == ref[2]
  <2>1. ref = <<table, name>> /\ ref \in IsEncrypted
    BY <1>4, ConfiguredColumns
  <2>2. name \in Visible(table)
    BY <2>1, VisibleColumns
  <2> HIDE DEF name
  <2>3. row[JoinKeyColumn[name]] = KeyedCell(clear[name])
    BY <1>4, <2>1, <2>2 DEF SealedRow
  <2> QED BY <2>3 DEF Companion, KeyedCell, name
<1> QED BY <1>2, <1>3, <1>4 DEF StoredAs

LEMMA SealedCellFits ==
  ASSUME NEW ref \in IsEncrypted, NEW cell \in Texts \union {NullCell}, cell # NullCell
  PROVE  Len(HexDropped(SealedCell(ref, cell))) - IvLength <= MaxCiphertextSize(Len(cell))
<1>1. cell \in Seq({"b"} \X Characters)
  BY DEF Texts
<1>2. HexDropped(SealedCell(ref, cell)) = AESEncrypt(Key(ref), cell)
  BY <1>1, CipherCell DEF SealedCell
<1> DEFINE l == Len(AESEncrypt(Key(ref), cell)) - IvLength
<1>3. l = MaxCiphertextSize(Len(cell))
  BY <1>1, CiphertextFillsItsBuffer
<1>4. MaxCiphertextSize(Len(cell)) \in Int
  <2> DEFINE size == Len(cell)
  <2>1. size \in Nat
    BY <1>1, LenProperties
  <2> HIDE DEF size
  <2>2. MaxCiphertextSize(size) \in Int
    BY <2>1, SizesAssumption DEF MaxCiphertextSize
  <2> QED BY <2>2 DEF size
<1> HIDE DEF l
<1>5. l <= MaxCiphertextSize(Len(cell))
  BY <1>3, <1>4
<1> QED BY <1>2, <1>5 DEF l

(* What is sent for a column that is encrypted, or for a companion, is no   *)
(* text of a client.                                                        *)
LEMMA NotInClear ==
  ASSUME NEW text, \E i \in DOMAIN text : text[i][1] # "b"
  PROVE  ~InClear(Lit("string", text)) /\ ~InClear(NullLit)
BY DEF InClear, Lit, NullLit, IsNull

LEMMA SensitiveColumns ==
  ASSUME NEW table \in Tables, NEW name, Sensitive(table, name), name \in Visible(table)
  PROVE  <<table, name>> \in IsEncrypted
<1>1. table \in TDETables
  <2>1. <<table, name>>[1] = table
    BY RefParts
  <2> QED BY <2>1, ConfiguredColumns DEF Sensitive
<1> QED BY <1>1, VisibleColumns

LEMMA LiteralIsHidden ==
  ASSUME NEW table, NEW pair \in Pairs(table), AsWritten(pair), NEW ref
  PROVE  /\ ~InClear(EncryptedLiteral(pair.value, ref))
         /\ ~InClear(HashLiteral(pair.value, ref))
         /\ ~InClear(JoinKeyLiteral(pair.value, ref))
<1> DEFINE lit == pair.value
<1>1. lit.text \in Seq({"b"} \X Characters) /\ (lit.type = "float" => Rounded[lit.text] = lit.text)
  BY DEF Pairs, Literals, Texts, AsWritten
<1> HIDE DEF lit
<1>2. ~InClear(EncryptedLiteral(lit, ref))
  <2>1. EncryptedLiteral(lit, ref) \in {NullLit, Lit("string", CryptoString(Key(ref), lit.text))}
    BY <1>1 DEF EncryptedLiteral
  <2>2. \E i \in DOMAIN CryptoString(Key(ref), lit.text) :
          CryptoString(Key(ref), lit.text)[i][1] # "b"
    BY <1>1, CipherCell
  <2> QED BY <2>1, <2>2, NotInClear
<1>3. ~InClear(HashLiteral(lit, ref))
  <2>1. HashLiteral(lit, ref)
          \in {NullLit, Lit("string", HMACString(Key(ref), lit.type, lit.text))}
    BY DEF HashLiteral
  <2>2. \E i \in DOMAIN HMACString(Key(ref), lit.type, lit.text) :
          HMACString(Key(ref), lit.type, lit.text)[i][1] # "b"
    BY IndexCell
  <2> QED BY <2>1, <2>2, NotInClear
<1>4. ~InClear(JoinKeyLiteral(lit, ref))
  <2>1. JoinKeyLiteral(lit, ref) \in {NullLit, Lit("string", JoinKeyString(lit.type, lit.text))}
    BY DEF JoinKeyLiteral
  <2>2. \E i \in DOMAIN JoinKeyString(lit.type, lit.text) :
          JoinKeyString(lit.type, lit.text)[i][1] # "b"
    BY JoinKeyCell
  <2> QED BY <2>1, <2>2, NotInClear
<1> QED BY <1>2, <1>3, <1>4 DEF lit

(* The pairs of a statement: of columns of the table, each given once, and  *)
(* none of those that are to stay hidden in clear.                          *)
SafelyGiven(table, whole) ==
  /\ \A k \in DOMAIN whole :
       /\ whole[k].column \in Columns[table]
       /\ Sensitive(table, whole[k].column) => ~InClear(whole[k].value)
  /\ \A k, l \in DOMAIN whole : k # l => whole[k].column # whole[l].column

LEMMA SealedIsSafe ==
  ASSUME NEW table, NEW given, IsGiven(table, given)
  PROVE  SafelyGiven(table, Sealed(table, given))
<1> DEFINE whole == Sealed(table, given)
<1>1. /\ \A i \in DOMAIN given : given[i] \in Pairs(table) /\ AsWritten(given[i])
      /\ table \in Tables
  <2>1. \A k \in DOMAIN given : given[k] \in Pairs(table)
    BY GivenPairs
  <2> QED BY <2>1 DEF IsGiven
<1>2. /\ \A k \in DOMAIN whole : \E i \in DOMAIN given : WrittenFor(table, given[i], whole[k])
      /\ \A k, l \in DOMAIN whole : whole[k].column = whole[l].column => k = l
  BY SealedPairs
<1> HIDE DEF whole
<1>3. ASSUME NEW k \in DOMAIN whole
      PROVE  /\ whole[k].column \in Columns[table]
             /\ Sensitive(table, whole[k].column) => ~InClear(whole[k].value)
  <2>1. PICK i \in DOMAIN given : WrittenFor(table, given[i], whole[k])
    BY <1>2
  <2> DEFINE pair == given[i]
             x == whole[k]
             name == pair.column
             ref == <<table, name>>
  <2>2. pair \in Pairs(table) /\ AsWritten(pair) /\ name \in Visible(table)
    BY <1>1 DEF Pairs
  <2>3. WrittenFor(table, pair, x)
    BY <2>1
  <2> HIDE DEF x, pair
  <2>4. CASE x = EncryptedPair(table, pair)
    <3>1. x.column = name
          /\ x.value = IF ref \in IsEncrypted THEN EncryptedLiteral(pair.value, ref) ELSE pair.value
      BY <2>2, <2>4, PairEncrypted
    <3>2. name \in Columns[table] /\ (Sensitive(table, name) => ref \in IsEncrypted)
      BY <1>1, <2>2, VisibleColumns, SensitiveColumns
    <3>3. ~InClear(EncryptedLiteral(pair.value, ref))
      BY <2>2, LiteralIsHidden
    <3> QED BY <3>1, <3>2, <3>3 DEF x
  <2>5. CASE IndexOf(table, pair) = <<x>>
    <3>1. ref \in HasBlindIndex /\ x.column = BIColumn[name] /\ x.value = HashLiteral(pair.value, ref)
      BY <2>5, PairIndexed
    <3>2. BIColumn[name] \in Columns[table]
      BY <1>1, <3>1, IndexColumns
    <3>3. ~InClear(HashLiteral(pair.value, ref))
      BY <2>2, LiteralIsHidden
    <3> QED BY <3>1, <3>2, <3>3 DEF x
  <2>6. CASE JoinKeyOf(table, pair) = <<x>>
    <3>1. ref \in HasJoin /\ x.column = JoinKeyColumn[name] /\ x.value = JoinKeyLiteral(pair.value, ref)
      BY <2>6, PairKeyed
    <3>2. JoinKeyColumn[name] \in Columns[table]
      BY <1>1, <3>1, JoinKeyColumns
    <3>3. ~InClear(JoinKeyLiteral(pair.value, ref))
      BY <2>2, LiteralIsHidden
    <3> QED BY <3>1, <3>2, <3>3 DEF x
  <2> QED BY <2>3, <2>4, <2>5, <2>6 DEF WrittenFor
<1> QED BY <1>2, <1>3 DEF SafelyGiven, whole

-----------------------------------------------------------------------------
(* Tables: as many rows stored as in clear, each sealed.                    *)
TableHeld(table, rows, clear) ==
  /\ clear \in Seq(ClearRows(table)) /\ Len(clear) <= MaxRows
  /\ IsListing(rows, Len(clear))
  /\ \A i \in 1 .. Len(clear) : SealedRow(table, rows[i], clear[i])

LEMMA HeldAt ==
  ASSUME NEW table, NEW rows, NEW clear, TableHeld(table, rows, clear), NEW n, n = Len(clear)
  PROVE  /\ n \in Nat /\ n <= MaxRows /\ DOMAIN clear = 1 .. n /\ DOMAIN rows = 1 .. n
         /\ Len(rows) = n /\ IsListing(rows, n) /\ IsListing(clear, n)
         /\ \A i \in 1 .. n : clear[i] \in ClearRows(table) /\ SealedRow(table, rows[i], clear[i])
<1>1. clear \in Seq(ClearRows(table))
  BY DEF TableHeld
<1>2. n \in Nat /\ DOMAIN clear = 1 .. n /\ \A i \in 1 .. n : clear[i] \in ClearRows(table)
  BY <1>1, LenProperties, ElementOfSeq
<1>3. IsListing(clear, n)
  BY <1>1, ListingOfSeq
<1>4. IsListing(rows, n) /\ n <= MaxRows
  BY DEF TableHeld
<1>5. DOMAIN rows = 1 .. n /\ Len(rows) = n
  BY <1>4, ListingIs DEF IsListing
<1> QED BY <1>2, <1>3, <1>4, <1>5 DEF TableHeld

LEMMA HeldJoined ==
  ASSUME NEW table, NEW rows, NEW clear, TableHeld(table, rows, clear),
         NEW moreRows, NEW moreClear, moreClear \in Seq(ClearRows(table)),
         NEW m, m = Len(moreClear), IsListing(moreRows, m),
         \A i \in 1 .. m : SealedRow(table, moreRows[i], moreClear[i]),
         Len(rows) + m <= MaxRows
  PROVE  TableHeld(table, rows \o moreRows, clear \o moreClear)
<1> DEFINE n == Len(clear)
           allRows == rows \o moreRows
           allClear == clear \o moreClear
           l == Len(allClear)
<1>1. /\ n \in Nat /\ IsListing(rows, n) /\ IsListing(clear, n) /\ Len(rows) = n
      /\ \A i \in 1 .. n : SealedRow(table, rows[i], clear[i])
      /\ clear \in Seq(ClearRows(table))
  BY HeldAt DEF TableHeld
<1>2. m \in Nat /\ IsListing(moreClear, m)
  BY ListingOfSeq DEF IsListing
<1>3. allClear \in Seq(ClearRows(table))
  BY <1>1, ConcatProperties
<1> HIDE DEF n
<1>4. OneBehind(allRows, rows, n, moreRows, m)
  BY <1>1, ListingJoined
<1>5. OneBehind(allClear, clear, n, moreClear, m)
  BY <1>1, <1>2, ListingJoined
<1> HIDE DEF allRows, allClear
<1>6. l = n + m
  BY <1>5 DEF OneBehind, IsListing
<1>7. ASSUME NEW i \in 1 .. n + m
      PROVE  SealedRow(table, allRows[i], allClear[i])
  <2>1. CASE i \in 1 .. n
    BY <1>1, <1>4, <1>5, <2>1 DEF OneBehind
  <2>2. CASE i \notin 1 .. n
    <3> DEFINE j == i - n
    <3>1. j \in 1 .. m /\ i = n + j
      BY <1>1, <1>2, <2>2
    <3> HIDE DEF j
    <3>2. allRows[n + j] = moreRows[j] /\ allClear[n + j] = moreClear[j]
      BY <1>4, <1>5, <3>1 DEF OneBehind
    <3> QED BY <3>1, <3>2
  <2> QED BY <2>1, <2>2
<1>8. l <= MaxRows /\ IsListing(allRows, l)
  BY <1>1, <1>4, <1>6 DEF OneBehind
<1>9. TableHeld(table, allRows, allClear)
  BY <1>3, <1>6, <1>7, <1>8 DEF TableHeld
<1> QED BY <1>9 DEF allRows, allClear

LEMMA HeldAppended ==
  ASSUME NEW table, NEW rows, NEW clear, TableHeld(table, rows, clear),
         NEW row, NEW clearRow \in ClearRows(table), SealedRow(table, row, clearRow),
         Len(rows) < MaxRows
  PROVE  TableHeld(table, Append(rows, row), Append(clear, clearRow))
<1> DEFINE moreRows == <<row>>
           moreClear == <<clearRow>>
           n == Len(rows)
           m == 1
<1>1. /\ moreClear \in Seq(ClearRows(table)) /\ Len(moreClear) = m /\ moreClear[1] = clearRow
      /\ IsListing(moreRows, m) /\ moreRows[1] = row
  <2>1. moreRows \in Seq({row}) /\ Len(moreRows) = 1 /\ moreRows[1] = row
    OBVIOUS
  <2>2. \A i \in 1 .. 1 : moreRows[i] = row
    BY <2>1
  <2>3. {moreRows[i] : i \in 1 .. 1} = {row}
    BY <2>2
  <2>4. IsListing(moreRows, 1)
    BY <2>1, <2>3 DEF IsListing
  <2> QED BY <2>1, <2>4
<1>2. rows \in Seq({rows[i] : i \in 1 .. n}) /\ clear \in Seq(ClearRows(table)) /\ n \in Nat
  BY HeldAt DEF TableHeld, IsListing
<1>3. Append(rows, row) = rows \o moreRows
  <2> DEFINE S == {rows[i] : i \in 1 .. n} \union {row}
  <2>1. rows \in Seq(S) /\ row \in S
    <3>1. DOMAIN rows = 1 .. n
      BY <1>2, LenProperties
    <3> QED BY <1>2, <3>1
  <2> HIDE DEF S, n
  <2> QED BY <2>1, AppendIsConcat
<1>4. Append(clear, clearRow) = clear \o moreClear
  BY <1>2, AppendIsConcat
<1>5. n + m <= MaxRows
  <2> HIDE DEF n
  <2>1. n < MaxRows
    BY DEF n
  <2> QED BY <1>2, <2>1, RowsAssumption
<1>6. \A i \in 1 .. m : SealedRow(table, moreRows[i], moreClear[i])
  BY <1>1
<1> HIDE DEF moreRows, moreClear, m
<1>7. TableHeld(table, rows \o moreRows, clear \o moreClear)
  BY <1>1, <1>5, <1>6, HeldJoined
<1> QED BY <1>3, <1>4, <1>7

LEMMA HeldChanged ==
  ASSUME NEW table, NEW rows, NEW clear, TableHeld(table, rows, clear),
         NEW given, IsGiven(table, given), NEW hit,
         NEW newRows, newRows = [i \in DOMAIN rows |->
           IF i \in hit THEN Changed(rows[i], Sealed(table, given)) ELSE rows[i]],
         NEW newClear, newClear = [i \in DOMAIN clear |->
           IF i \in hit THEN Changed(clear[i], given) ELSE clear[i]]
  PROVE  TableHeld(table, newRows, newClear)
<1> DEFINE n == Len(clear)
           R == ClearRows(table)
<1>1. /\ n \in Nat /\ n <= MaxRows /\ DOMAIN clear = 1 .. n /\ DOMAIN rows = 1 .. n
      /\ \A i \in 1 .. n : clear[i] \in R /\ SealedRow(table, rows[i], clear[i])
  BY HeldAt
<1> HIDE DEF n
<1>2. \A i \in 1 .. n : newClear[i] \in R
  BY <1>1, ChangedRow
<1>3. \A i \in 1 .. n : SealedRow(table, newRows[i], newClear[i])
  BY <1>1, ChangedIsSealed
<1>4. newClear = [i \in 1 .. n |-> newClear[i]] /\ newRows = [i \in 1 .. n |-> newRows[i]]
  BY <1>1
<1> HIDE DEF R
<1>5. newClear \in Seq(R) /\ Len(newClear) = n
  BY <1>1, <1>2, <1>4
<1>6. DOMAIN newRows = 1 .. n
  BY <1>1
<1>7. IsListing(newRows, n)
  BY <1>1, <1>4, <1>6, ListingOf
<1> QED BY <1>1, <1>3, <1>5, <1>7 DEF TableHeld, R

-----------------------------------------------------------------------------
(* The inductive invariant: what a table holds is sealed row by row, and    *)
(* the last statement gives nothing away.  StoreDecrypts says what the      *)
(* cells are read as; the buffers and comparisons need what they are.       *)
StoreHeld ==
  /\ DOMAIN plain = Tables /\ DOMAIN stored = Tables
  /\ \A table \in Tables : TableHeld(table, stored[table], plain[table])
  /\ sent.op \in {"none", "insert", "update", "select", "copy"}
  /\ SafelyGiven(sent.table, Given(sent))

LEMMA NothingIsSafe == ASSUME NEW table PROVE SafelyGiven(table, <<>>)
<1>1. DOMAIN <<>> = {}
  OBVIOUS
<1> QED BY <1>1 DEF SafelyGiven

LEMMA StoreInitHolds == StoreInit => StoreHeld
<1> SUFFICES ASSUME StoreInit PROVE StoreHeld
  OBVIOUS
<1>1. ASSUME NEW table \in Tables
      PROVE  TableHeld(table, stored[table], plain[table])
  <2>1. stored[table] = <<>> /\ plain[table] = <<>>
    BY DEF StoreInit
  <2>2. <<>> \in Seq(ClearRows(table)) /\ Len(<<>>) = 0 /\ 0 <= MaxRows /\ 1 .. 0 = {}
    BY RowsAssumption
  <2>3. IsListing(<<>>, 0)
    BY DEF IsListing
  <2> QED BY <2>1, <2>2, <2>3 DEF TableHeld
<1>2. sent.op = "none"
  BY DEF StoreInit
<1>3. Given(sent) = <<>>
  BY <1>2 DEF Given
<1> QED BY <1>1, <1>2, <1>3, NothingIsSafe DEF StoreHeld, StoreInit

LEMMA OtherTablesHeld ==
  ASSUME StoreHeld, NEW table \in Tables, NEW rows, NEW clear, TableHeld(table, rows, clear),
         plain' = [plain EXCEPT ![table] = clear], stored' = [stored EXCEPT ![table] = rows]
  PROVE  /\ DOMAIN plain' = Tables /\ DOMAIN stored' = Tables
         /\ \A other \in Tables : TableHeld(other, stored'[other], plain'[other])
BY DEF StoreHeld

(* The half of the invariant that is about what was sent.                   *)
LEMMA SentIsSafe ==
  (\E query : SendsSealed(query)) \/ SendsNothingGiven =>
    sent'.op \in {"none", "insert", "update", "select", "copy"} /\ SafelyGiven(sent'.table, Given(sent'))
<1>1. ASSUME NEW query, SendsSealed(query)
      PROVE  sent'.op \in {"insert", "update"} /\ SafelyGiven(sent'.table, Given(sent'))
  BY <1>1, SealedIsSafe DEF SendsSealed
<1>2. ASSUME SendsNothingGiven
      PROVE  sent'.op \in {"none", "select", "copy"} /\ SafelyGiven(sent'.table, Given(sent'))
  BY <1>2, NothingIsSafe DEF SendsNothingGiven
<1> QED BY <1>1, <1>2

LEMMA InsertHolds ==
  ASSUME StoreHeld, NEW query \in Queries, StoreInsert(query)
  PROVE  StoreHeld'
<1> DEFINE table == query.table
           given == Given(query)
           row == RowOf(table, Sealed(table, given))
           clearRow == RowOf(table, given)
<1>1. IsGiven(table, given) /\ table \in Tables /\ Given(sent') = Sealed(table, given)
  BY DEF StoreInsert, SendsSealed, IsGiven
<1>2. NullRow(table) \in ClearRows(table) /\ SealedRow(table, NullRow(table), NullRow(table))
  BY <1>1, NullRowIsSealed
<1>3. clearRow \in ClearRows(table)
  BY <1>1, <1>2, ChangedRow DEF RowOf
<1>4. SealedRow(table, row, clearRow)
  BY <1>1, <1>2, ChangedIsSealed DEF RowOf
<1>5. /\ plain' = [plain EXCEPT ![table] = Append(plain[table], clearRow)]
      /\ stored' = [stored EXCEPT ![table] = Append(stored[table], row)]
      /\ Len(stored[table]) < MaxRows
  BY <1>1 DEF StoreInsert
<1> HIDE DEF row, clearRow, table, given
<1>6. TableHeld(table, Append(stored[table], row), Append(plain[table], clearRow))
  <2>1. TableHeld(table, stored[table], plain[table])
    BY <1>1 DEF StoreHeld
  <2> QED BY <1>3, <1>4, <1>5, <2>1, HeldAppended
<1>7. /\ DOMAIN plain' = Tables /\ DOMAIN stored' = Tables
      /\ \A other \in Tables : TableHeld(other, stored'[other], plain'[other])
  BY <1>1, <1>5, <1>6, OtherTablesHeld
<1> QED BY <1>7, SentIsSafe DEF StoreHeld, StoreInsert

LEMMA UpdateHolds ==
  ASSUME StoreHeld, NEW query \in Queries, StoreUpdate(query)
  PROVE  StoreHeld'
<1> DEFINE table == query.table
           given == Given(query)
<1>1. IsGiven(table, given) /\ table \in Tables /\ Given(sent') = Sealed(table, given)
  BY DEF StoreUpdate, SendsSealed, IsGiven
<1>2. PICK hit :
        /\ plain' = [plain EXCEPT ![table] =
             [i \in DOMAIN @ |-> IF i \in hit THEN Changed(@[i], given) ELSE @[i]]]
        /\ stored' = [stored EXCEPT ![table] =
             [i \in DOMAIN @ |-> IF i \in hit THEN Changed(@[i], Given(sent')) ELSE @[i]]]
  BY DEF StoreUpdate
<1> DEFINE rows == [i \in DOMAIN stored[table] |->
             IF i \in hit THEN Changed(stored[table][i], Sealed(table, given)) ELSE stored[table][i]]
           clear == [i \in DOMAIN plain[table] |->
             IF i \in hit THEN Changed(plain[table][i], given) ELSE plain[table][i]]
<1>3. /\ plain' = [plain EXCEPT ![table] = clear]
      /\ stored' = [stored EXCEPT ![table] = rows]
  BY <1>1, <1>2
<1>4. TableHeld(table, rows, clear)
  <2>1. TableHeld(table, stored[table], plain[table])
    BY <1>1 DEF StoreHeld
  <2> QED BY <1>1, <2>1, HeldChanged
<1> HIDE DEF rows, clear, table, given
<1>5. /\ DOMAIN plain' = Tables /\ DOMAIN stored' = Tables
      /\ \A other \in Tables : TableHeld(other, stored'[other], plain'[other])
  BY <1>1, <1>3, <1>4, OtherTablesHeld
<1> QED BY <1>5, SentIsSafe DEF StoreHeld, StoreUpdate

LEMMA CopyHolds ==
  ASSUME StoreHeld, StoreCopy
  PROVE  StoreHeld'
<1>1. PICK table \in Tables \ TDETables :
        \E rows \in Seq(ClearRows(table)) :
          /\ Len(stored[table]) + Len(rows) <= MaxRows
          /\ plain' = [plain EXCEPT ![table] = plain[table] \o rows]
          /\ stored' = [stored EXCEPT ![table] = stored[table] \o rows]
  BY DEF StoreCopy, StoreHeld
<1>2. PICK rows \in Seq(ClearRows(table)) :
        /\ Len(stored[table]) + Len(rows) <= MaxRows
        /\ plain' = [plain EXCEPT ![table] = plain[table] \o rows]
        /\ stored' = [stored EXCEPT ![table] = stored[table] \o rows]
  BY <1>1
<1> DEFINE m == Len(rows)
<1>3. /\ IsListing(rows, m)
      /\ \A i \in 1 .. m : SealedRow(table, rows[i], rows[i])
  BY ListingOfSeq, ClearRowIsSealed
<1>4. TableHeld(table, stored[table] \o rows, plain[table] \o rows)
  <2>1. TableHeld(table, stored[table], plain[table])
    BY DEF StoreHeld
  <2>2. Len(stored[table]) + m <= MaxRows
    BY <1>2
  <2> QED BY <1>3, <2>1, <2>2, HeldJoined
<1>5. /\ DOMAIN plain' = Tables /\ DOMAIN stored' = Tables
      /\ \A other \in Tables : TableHeld(other, stored'[other], plain'[other])
  BY <1>2, <1>4, OtherTablesHeld
<1> QED BY <1>5, SentIsSafe DEF StoreHeld, StoreCopy

LEMMA StoreStepHolds == StoreHeld /\ [StoreNext]_storeVars => StoreHeld'
<1> SUFFICES ASSUME StoreHeld, [StoreNext]_storeVars PROVE StoreHeld'
  OBVIOUS
<1>1. CASE UNCHANGED storeVars
  BY <1>1 DEF StoreHeld, storeVars
<1>2. ASSUME UNCHANGED <<plain, stored>>,
             SendsNothingGiven \/ \E query \in Queries : SendsSealed(query)
      PROVE  StoreHeld'
  <2>1. plain' = plain /\ stored' = stored
    BY <1>2
  <2> QED BY <1>2, <2>1, SentIsSafe DEF StoreHeld
<1>3. CASE StoreCopy
  BY <1>3, CopyHolds
<1>4. ASSUME NEW query \in Queries, StoreInsert(query) PROVE StoreHeld'
  BY <1>4, InsertHolds
<1>5. ASSUME NEW query \in Queries, StoreUpdate(query) PROVE StoreHeld'
  BY <1>5, UpdateHolds
<1> QED BY <1>1, <1>2, <1>3, <1>4, <1>5 DEF StoreNext

LEMMA StoreHolds == StoreSpec => []StoreHeld
BY StoreInitHolds, StoreStepHolds, PTL DEF StoreSpec

(* Tables keep their columns and their bound, clients' rows are of texts    *)
(* only, and no statement for the server gives a column twice or one that   *)
(* its table does not have.                                                 *)
THEOREM StoreTyped == StoreSpec => []TypeOK
<1>1. StoreHeld => TypeOK
  <2> SUFFICES ASSUME StoreHeld PROVE TypeOK
    OBVIOUS
  <2>1. ASSUME NEW table \in Tables
        PROVE  /\ IsTable(table, plain[table]) /\ IsTable(table, stored[table])
               /\ plain[table] \in Seq(ClearRows(table))
    <3> DEFINE n == Len(plain[table])
    <3>1. TableHeld(table, stored[table], plain[table])
      BY DEF StoreHeld
    <3>2. /\ n <= MaxRows /\ DOMAIN plain[table] = 1 .. n /\ DOMAIN stored[table] = 1 .. n
          /\ Len(stored[table]) = n
          /\ \A i \in 1 .. n : /\ plain[table][i] \in ClearRows(table)
                               /\ SealedRow(table, stored[table][i], plain[table][i])
      BY <3>1, HeldAt
    <3>3. \A row \in ClearRows(table) : DOMAIN row = Columns[table]
      BY DEF ClearRows
    <3>4. \A row, clear : SealedRow(table, row, clear) => DOMAIN row = Columns[table]
      BY DEF SealedRow
    <3>5. plain[table] \in Seq(ClearRows(table))
      BY <3>1 DEF TableHeld
    <3> QED BY <3>2, <3>3, <3>4, <3>5 DEF IsTable
  <2>2. /\ sent.op \in {"none", "insert", "update", "select", "copy"}
        /\ \A i, j \in DOMAIN Given(sent) :
             /\ Given(sent)[i].column \in Columns[sent.table]
             /\ i # j => Given(sent)[i].column # Given(sent)[j].column
    BY DEF StoreHeld, SafelyGiven
  <2> QED BY <2>1, <2>2 DEF TypeOK
<1> QED BY <1>1, StoreHolds, PTL

(* What was written comes back: every cell is decrypted to what the         *)
(* client's statements mean, and every companion is that of the value       *)
(* beside it, after any INSERTs and UPDATEs.                                *)
THEOREM StoreIsRead == StoreSpec => []StoreDecrypts
<1>1. StoreHeld => StoreDecrypts
  <2> SUFFICES ASSUME StoreHeld, NEW table \in Tables
               PROVE  /\ Len(plain[table]) = Len(stored[table])
                      /\ \A i \in DOMAIN plain[table] :
                           StoredAs(table, stored[table][i], plain[table][i])
    BY DEF StoreDecrypts
  <2> DEFINE n == Len(plain[table])
  <2>1. TableHeld(table, stored[table], plain[table])
    BY DEF StoreHeld
  <2>2. /\ DOMAIN plain[table] = 1 .. n /\ Len(stored[table]) = n
        /\ \A i \in 1 .. n : /\ plain[table][i] \in ClearRows(table)
                             /\ SealedRow(table, stored[table][i], plain[table][i])
    BY <2>1, HeldAt
  <2> QED BY <2>2, SealedRowIsStored
<1> QED BY <1>1, StoreHolds, PTL

(* No text that a client's statement gives has overrun the buffer that it   *)
(* was encrypted into.                                                      *)
THEOREM StoreFits == StoreSpec => []CiphertextsFit
<1>1. StoreHeld => CiphertextsFit
  <2> SUFFICES ASSUME StoreHeld, NEW ref \in IsEncrypted, NEW i \in DOMAIN stored[ref[1]],
                      stored[ref[1]][i][ref[2]] # NullCell
               PROVE  Len(HexDropped(stored[ref[1]][i][ref[2]])) - IvLength
                        <= MaxCiphertextSize(Len(plain[ref[1]][i][ref[2]]))
    BY DEF CiphertextsFit
  <2> DEFINE table == ref[1]
             name == ref[2]
             n == Len(plain[table])
             cell == plain[table][i][name]
  <2>1. ref = <<table, name>> /\ table \in Tables
    BY ConfiguredColumns
  <2>2. name \in Visible(table) /\ name \in Columns[table]
    <3> HIDE DEF table, name
    <3>1. <<table, name>> \in IsEncrypted
      BY <2>1
    <3> QED BY <2>1, <3>1, VisibleColumns
  <2>3. TableHeld(table, stored[table], plain[table])
    BY <2>1 DEF StoreHeld
  <2>4. plain[table][i] \in ClearRows(table) /\ SealedRow(table, stored[table][i], plain[table][i])
    <3>1. DOMAIN stored[table] = 1 .. n
      BY <2>3, HeldAt
    <3>2. \A k \in 1 .. n : /\ plain[table][k] \in ClearRows(table)
                            /\ SealedRow(table, stored[table][k], plain[table][k])
      BY <2>3, HeldAt
    <3> QED BY <3>1, <3>2
  <2>5. cell \in Texts \union {NullCell}
    BY <2>2, <2>4 DEF ClearRows
  <2>6. stored[table][i][name] = SealedCell(ref, cell)
    BY <2>1, <2>2, <2>4 DEF SealedRow
  <2>7. cell # NullCell
    BY <2>6 DEF SealedCell
  <2> HIDE DEF cell
  <2>8. Len(HexDropped(SealedCell(ref, cell))) - IvLength <= MaxCiphertextSize(Len(cell))
    BY <2>5, <2>7, SealedCellFits
  <2> QED BY <2>6, <2>8 DEF cell
<1> QED BY <1>1, StoreHolds, PTL

(* No statement carries in clear what is to be stored encrypted, nor a text *)
(* of a client for a blind index or a join key.                             *)
THEOREM GivenValuesAreHidden == StoreSpec => []GivenStayHidden
<1>1. StoreHeld => GivenStayHidden
  BY DEF StoreHeld, SafelyGiven, GivenStayHidden
<1> QED BY <1>1, StoreHolds, PTL

-----------------------------------------------------------------------------
(* Comparisons.                                                             *)
ColumnOf(range, name, alias) ==
  [is |-> "column", table |-> range, name |-> name, alias |-> alias]
Comparison(op, left, right) == [is |-> "op", op |-> op, args |-> <<left, right>>]

LEMMA RangedCell ==
  ASSUME NEW range, NEW row, NEW name \in DOMAIN row, NEW alias
  PROVE  Value(Ranged(range, row), ColumnOf(range, name, alias)) = row[name]
<1>1. <<range, name>> \in DOMAIN Ranged(range, row) /\ <<range, name>>[2] = name
  BY DEF Ranged
<1>2. Ranged(range, row)[<<range, name>>] = row[name]
  BY <1>1 DEF Ranged
<1> QED BY <1>2 DEF Value, IsColumn, ColumnOf

LEMMA TruthOfTwo ==
  ASSUME NEW row, NEW left, NEW right, NEW op \in {"eq", "ne"}
  PROVE  ComparisonTruth(row, Comparison(op, left, right))
           = Compared(op = "eq", Value(row, left), Value(row, right))
<1>1. /\ Comparison(op, left, right).op = op /\ Comparison(op, left, right).args[1] = left
      /\ Comparison(op, left, right).args[2] = right
  BY DEF Comparison
<1>2. CASE op = "eq"
  BY <1>1, <1>2 DEF ComparisonTruth
<1>3. CASE op = "ne"
  BY <1>1, <1>3 DEF ComparisonTruth
<1> QED BY <1>2, <1>3

(* An index tells two values apart exactly if they differ.                  *)
LEMMA IndexedCells ==
  ASSUME NEW ref, NEW one \in Texts \union {NullCell}, NEW other \in Texts \union {NullCell}
  PROVE  /\ SameCell(IndexedCell(ref, one), IndexedCell(ref, other)) = SameCell(one, other)
         /\ IndexedCell(ref, one) = NullCell <=> one = NullCell
<1>1. \A text : HMACString(Key(ref), "string", text) # NullCell
                /\ ~IsCiphertext(HMACString(Key(ref), "string", text))
  BY IndexCell
<1>2. ~IsCiphertext(NullCell)
  BY DEF IsCiphertext, NullCell
<1>3. ~IsCiphertext(one)
  BY <1>2, TextCell
<1>4. HMACString(Key(ref), "string", one) = HMACString(Key(ref), "string", other) => one = other
  BY DigestTellsApart
<1>5. ~IsCiphertext(IndexedCell(ref, one))
  BY <1>1, <1>2 DEF IndexedCell
<1>6. IndexedCell(ref, one) = IndexedCell(ref, other) <=> one = other
  BY <1>1, <1>4 DEF IndexedCell
<1> QED BY <1>1, <1>3, <1>5, <1>6 DEF SameCell, IndexedCell

LEMMA IndexComparisonIs ==
  ASSUME NEW aliases, NEW range, NEW name, NEW alias, NEW op, NEW lit, NEW ref \in HasBlindIndex,
         ref = <<TableOf(aliases, range), name>>
  PROVE  IndexComparison(aliases, Comparison(op, ColumnOf(range, name, alias), lit))
           = Comparison(op, ColumnOf(range, BIColumn[name], alias), HashLiteral(lit, ref))
<1> DEFINE column == ColumnOf(range, name, alias)
           expr == Comparison(op, column, lit)
<1>1. RefOf(aliases, expr.args[1]) = ref /\ ref[2] = name
  BY DEF RefOf, Comparison, ColumnOf
<1> DEFINE new == [column EXCEPT !.name = BIColumn[name]]
           args == <<column, lit>>
           renamed == [expr EXCEPT !.args[1].name = BIColumn[name]]
<1>2. [expr EXCEPT !.args[1].name = BIColumn[name], !.args[2] = HashLiteral(@, ref)]
        = Comparison(op, ColumnOf(range, BIColumn[name], alias), HashLiteral(lit, ref))
  <2>1. new = ColumnOf(range, BIColumn[name], alias)
    BY DEF ColumnOf
  <2> HIDE DEF column, new
  <2>2. renamed = Comparison(op, new, lit)
    <3>1. [args EXCEPT ![1].name = BIColumn[name]] = <<new, lit>>
      BY DEF new
    <3>2. renamed = [is |-> "op", op |-> op, args |-> [args EXCEPT ![1].name = BIColumn[name]]]
      BY DEF Comparison
    <3> QED BY <3>1, <3>2 DEF Comparison
  <2>3. [renamed EXCEPT !.args[2] = HashLiteral(@, ref)]
          = Comparison(op, new, HashLiteral(lit, ref))
    <3> DEFINE pair == <<new, lit>>
    <3>1. [pair EXCEPT ![2] = HashLiteral(@, ref)] = <<new, HashLiteral(lit, ref)>>
      OBVIOUS
    <3>2. renamed = [is |-> "op", op |-> op, args |-> pair]
      BY <2>2 DEF Comparison
    <3> HIDE DEF pair, renamed
    <3> QED BY <3>1, <3>2 DEF Comparison
  <2>4. [expr EXCEPT !.args[1].name = BIColumn[name], !.args[2] = HashLiteral(@, ref)]
          = [renamed EXCEPT !.args[2] = HashLiteral(@, ref)]
    <3>1. expr = [is |-> "op", op |-> op, args |-> args]
      BY DEF Comparison
    <3> HIDE DEF args, expr
    <3> QED BY <3>1
  <2> QED BY <2>1, <2>3, <2>4
<1> QED BY <1>1, <1>2 DEF IndexComparison

(* A condition on an indexed column finds on the server the rows that it    *)
(* means: it has the same truth, unknown included, for the row that is      *)
(* stored as for the row in clear.                                          *)
THEOREM IndexComparisonAgrees ==
  ASSUME NEW table \in Tables, NEW clear \in ClearRows(table), NEW row,
         SealedRow(table, row, clear),
         NEW aliases, NEW range, TableOf(aliases, range) = table,
         NEW name, <<table, name>> \in HasBlindIndex, NEW alias,
         NEW op \in {"eq", "ne"}, NEW lit \in Literals, lit.type \in {"string", "null"},
         NEW expr, expr = Comparison(op, ColumnOf(range, name, alias), lit)
  PROVE  ComparisonTruth(Ranged(range, row), IndexComparison(aliases, expr))
           = ComparisonTruth(Ranged(range, clear), expr)
<1> DEFINE ref == <<table, name>>
           cell == clear[name]
           value == Cell(lit)
           index == BIColumn[name]
           hash == HashLiteral(lit, ref)
           server == Ranged(range, row)
           client == Ranged(range, clear)
<1>1. /\ name \in Visible(table) /\ name \in Columns[table] /\ index \in Columns[table]
  <2>1. <<table, name>> \in IsEncrypted
    BY ConfiguredColumns
  <2> QED BY <2>1, VisibleColumns, IndexColumns
<1>2. DOMAIN row = Columns[table] /\ DOMAIN clear = Columns[table]
      /\ cell \in Texts \union {NullCell} /\ value \in Texts \union {NullCell}
  BY <1>1, CellOfLiteral DEF SealedRow, ClearRows
<1>3. row[index] = IndexedCell(ref, cell)
  BY <1>1 DEF SealedRow
<1>4. Cell(hash) = IndexedCell(ref, value) /\ hash.is = "literal"
  <2>1. CASE IsNull(lit)
    <3>1. hash = NullLit /\ value = NullCell
      BY <2>1, CellOfLiteral DEF HashLiteral
    <3>2. NullLit.is = "literal"
      BY DEF NullLit, Lit
    <3> QED BY <3>1, <3>2, CellOfText DEF IndexedCell
  <2>2. CASE ~IsNull(lit)
    <3>1. lit.type = "string" /\ value = lit.text /\ value # NullCell
      BY <2>2, CellOfLiteral DEF IsNull
    <3>2. hash = Lit("string", HMACString(Key(ref), "string", value))
      BY <2>2, <3>1 DEF HashLiteral
    <3>3. Cell(hash) = HMACString(Key(ref), "string", value) /\ hash.is = "literal"
      BY <3>2, CellOfText DEF Lit
    <3> QED BY <3>1, <3>3 DEF IndexedCell
  <2> QED BY <2>1, <2>2
<1>5. IndexComparison(aliases, expr) = Comparison(op, ColumnOf(range, index, alias), hash)
  BY IndexComparisonIs
<1>6. Value(server, ColumnOf(range, index, alias)) = row[index]
      /\ Value(client, ColumnOf(range, name, alias)) = cell
  BY <1>1, <1>2, RangedCell
<1>7. Value(server, hash) = Cell(hash) /\ Value(client, lit) = value
  <2>1. lit.is = "literal"
    BY DEF Literals
  <2> QED BY <1>4, <2>1 DEF Value, IsColumn
<1> HIDE DEF server, client, hash, index, value, cell, ref
<1>8. ComparisonTruth(server, IndexComparison(aliases, expr))
        = Compared(op = "eq", IndexedCell(ref, cell), IndexedCell(ref, value))
  BY <1>3, <1>4, <1>5, <1>6, <1>7, TruthOfTwo
<1>9. ComparisonTruth(client, expr) = Compared(op = "eq", cell, value)
  BY <1>6, <1>7, TruthOfTwo
<1>10. /\ SameCell(IndexedCell(ref, cell), IndexedCell(ref, value)) = SameCell(cell, value)
       /\ IndexedCell(ref, cell) = NullCell <=> cell = NullCell
       /\ IndexedCell(ref, value) = NullCell <=> value = NullCell
  BY <1>2, IndexedCells
<1>11. Compared(op = "eq", IndexedCell(ref, cell), IndexedCell(ref, value))
         = Compared(op = "eq", cell, value)
  BY <1>10 DEF Compared
<1> QED BY <1>8, <1>9, <1>11 DEF server, client

(* Rows are grouped by a blind index as they would be by the column itself. *)
THEOREM IndexGroupsAgree ==
  ASSUME NEW table \in Tables,
         NEW one \in ClearRows(table), NEW row, SealedRow(table, row, one),
         NEW other \in ClearRows(table), NEW otherRow, SealedRow(table, otherRow, other),
         NEW name, <<table, name>> \in HasBlindIndex
  PROVE  SameCell(row[BIColumn[name]], otherRow[BIColumn[name]]) = SameCell(one[name], other[name])
<1> DEFINE ref == <<table, name>>
<1>1. name \in Visible(table) /\ name \in Columns[table]
  <2>1. ref \in IsEncrypted
    BY ConfiguredColumns
  <2> QED BY <2>1, VisibleColumns
<1>2. one[name] \in Texts \union {NullCell} /\ other[name] \in Texts \union {NullCell}
  BY <1>1 DEF ClearRows
<1>3. /\ row[BIColumn[name]] = IndexedCell(ref, one[name])
      /\ otherRow[BIColumn[name]] = IndexedCell(ref, other[name])
  BY <1>1 DEF SealedRow
<1> HIDE DEF ref
<1> QED BY <1>2, <1>3, IndexedCells

LEMMA JoinComparisonIs ==
  ASSUME NEW aliases, NEW one, NEW other, NEW range1, NEW range2, NEW name1, NEW name2, NEW alias1, NEW alias2,
         one = ColumnOf(range1, name1, alias1), other = ColumnOf(range2, name2, alias2),
         <<TableOf(aliases, range1), name1>> \in HasJoin,
         <<TableOf(aliases, range2), name2>> \in HasJoin
  PROVE  JoinComparison(aliases, Comparison("eq", one, other))
           = Comparison("eq", ColumnOf(range1, JoinKeyColumn[name1], alias1),
                              ColumnOf(range2, JoinKeyColumn[name2], alias2))
<1> DEFINE expr == Comparison("eq", one, other)
           new == [one EXCEPT !.name = JoinKeyColumn[@]]
           newOther == [other EXCEPT !.name = JoinKeyColumn[@]]
           args == <<one, other>>
           renamed == [expr EXCEPT !.args[1].name = JoinKeyColumn[@]]
<1>1. IsEncryptedJoin(aliases, expr)
  <2>1. /\ RefOf(aliases, expr.args[1]) = <<TableOf(aliases, range1), name1>>
        /\ RefOf(aliases, expr.args[2]) = <<TableOf(aliases, range2), name2>>
    BY DEF RefOf, Comparison, ColumnOf
  <2>2. \A i \in 1 .. 2 : i = 1 \/ i = 2
    OBVIOUS
  <2> HIDE DEF expr
  <2> QED BY <2>1, <2>2 DEF IsEncryptedJoin
<1>2. /\ new = ColumnOf(range1, JoinKeyColumn[name1], alias1)
      /\ newOther = ColumnOf(range2, JoinKeyColumn[name2], alias2)
  <2>1. one.name = name1 /\ other.name = name2
    BY DEF ColumnOf
  <2>2. new = [one EXCEPT !.name = JoinKeyColumn[name1]]
    BY <2>1
  <2>3. newOther = [other EXCEPT !.name = JoinKeyColumn[name2]]
    BY <2>1
  <2> HIDE DEF new, newOther
  <2>4. new = ColumnOf(range1, JoinKeyColumn[name1], alias1)
    BY <2>2 DEF ColumnOf
  <2>5. newOther = ColumnOf(range2, JoinKeyColumn[name2], alias2)
    BY <2>3 DEF ColumnOf
  <2> QED BY <2>4, <2>5
<1> HIDE DEF new, newOther
<1>3. renamed = Comparison("eq", new, other)
  <2>1. [args EXCEPT ![1].name = JoinKeyColumn[@]] = <<new, other>>
    BY DEF new
  <2>2. renamed = [is |-> "op", op |-> "eq", args |-> [args EXCEPT ![1].name = JoinKeyColumn[@]]]
    BY DEF Comparison
  <2> QED BY <2>1, <2>2 DEF Comparison
<1>4. [renamed EXCEPT !.args[2].name = JoinKeyColumn[@]] = Comparison("eq", new, newOther)
  <2> DEFINE pair == <<new, other>>
  <2>1. [pair EXCEPT ![2].name = JoinKeyColumn[@]] = <<new, newOther>>
    BY DEF newOther
  <2>2. renamed = [is |-> "op", op |-> "eq", args |-> pair]
    BY <1>3 DEF Comparison
  <2> HIDE DEF pair, renamed
  <2> QED BY <2>1, <2>2 DEF Comparison
<1>5. [expr EXCEPT !.args[1].name = JoinKeyColumn[@], !.args[2].name = JoinKeyColumn[@]]
        = [renamed EXCEPT !.args[2].name = JoinKeyColumn[@]]
  <2>1. expr = [is |-> "op", op |-> "eq", args |-> args]
    BY DEF Comparison
  <2> HIDE DEF args, expr
  <2> QED BY <2>1
<1> HIDE DEF expr
<1>6. JoinComparison(aliases, expr)
        = [expr EXCEPT !.args[1].name = JoinKeyColumn[@], !.args[2].name = JoinKeyColumn[@]]
  BY <1>1 DEF JoinComparison
<1> QED BY <1>2, <1>4, <1>5, <1>6 DEF expr

LEMMA BothCells ==
  ASSUME NEW range1, NEW row1, NEW name1 \in DOMAIN row1, NEW alias1,
         NEW range2, NEW row2, NEW name2 \in DOMAIN row2, NEW alias2, range1 # range2
  PROVE  /\ Value(Both(Ranged(range1, row1), Ranged(range2, row2)), ColumnOf(range1, name1, alias1))
              = row1[name1]
         /\ Value(Both(Ranged(range1, row1), Ranged(range2, row2)), ColumnOf(range2, name2, alias2))
              = row2[name2]
<1> DEFINE one == Ranged(range1, row1)
           other == Ranged(range2, row2)
           both == Both(one, other)
<1>1. /\ <<range1, name1>> \in DOMAIN one /\ one[<<range1, name1>>] = row1[name1]
      /\ <<range2, name2>> \in DOMAIN other /\ other[<<range2, name2>>] = row2[name2]
  <2>1. <<range1, name1>>[2] = name1 /\ <<range2, name2>>[2] = name2
    OBVIOUS
  <2> QED BY <2>1 DEF Ranged
<1>2. <<range2, name2>> \notin DOMAIN one
  BY DEF Ranged
<1> HIDE DEF one, other
<1>3. both[<<range1, name1>>] = row1[name1] /\ both[<<range2, name2>>] = row2[name2]
  BY <1>1, <1>2 DEF Both
<1> HIDE DEF both
<1> QED BY <1>3 DEF Value, IsColumn, ColumnOf, both, one, other

(* The two halves of an encrypted join.  The server is asked for the rows   *)
(* with the same join keys, which are too many where keys collide, and of   *)
(* these the proxy keeps the ones whose columns are the same once they are  *)
(* decrypted: together these are the rows that the client's join means.     *)
THEOREM JoinComparisonAgrees ==
  ASSUME NEW table1 \in Tables, NEW clear1 \in ClearRows(table1), NEW row1,
         SealedRow(table1, row1, clear1),
         NEW table2 \in Tables, NEW clear2 \in ClearRows(table2), NEW row2,
         SealedRow(table2, row2, clear2),
         NEW aliases, NEW range1, TableOf(aliases, range1) = table1,
         NEW range2, TableOf(aliases, range2) = table2, range1 # range2,
         NEW name1, <<table1, name1>> \in HasJoin, NEW name2, <<table2, name2>> \in HasJoin,
         NEW alias1, NEW alias2, NEW expr,
         expr = Comparison("eq", ColumnOf(range1, name1, alias1), ColumnOf(range2, name2, alias2)),
         NEW found, found = ComparisonTruth(Both(Ranged(range1, row1), Ranged(range2, row2)),
                                            JoinComparison(aliases, expr)),
         NEW meant, meant = ComparisonTruth(Both(Ranged(range1, clear1), Ranged(range2, clear2)), expr)
  PROVE  meant = "T" <=>
           /\ found = "T"
           /\ DecryptedCell({<<table1, name1>>}, row1[name1]).out
                = DecryptedCell({<<table2, name2>>}, row2[name2]).out
<1> DEFINE ref1 == <<table1, name1>>
           ref2 == <<table2, name2>>
           key1 == JoinKeyColumn[name1]
           key2 == JoinKeyColumn[name2]
           cell1 == clear1[name1]
           cell2 == clear2[name2]
<1>1. /\ name1 \in Visible(table1) /\ name1 \in Columns[table1] /\ key1 \in Columns[table1]
      /\ name2 \in Visible(table2) /\ name2 \in Columns[table2] /\ key2 \in Columns[table2]
      /\ ref1 \in IsEncrypted /\ ref2 \in IsEncrypted
  <2>1. ref1 \in IsEncrypted /\ ref2 \in IsEncrypted
    BY ConfiguredColumns
  <2> QED BY <2>1, VisibleColumns, JoinKeyColumns
<1>2. /\ DOMAIN row1 = Columns[table1] /\ DOMAIN clear1 = Columns[table1]
      /\ DOMAIN row2 = Columns[table2] /\ DOMAIN clear2 = Columns[table2]
      /\ cell1 \in Texts \union {NullCell} /\ cell2 \in Texts \union {NullCell}
  BY <1>1 DEF SealedRow, ClearRows
<1>3. /\ row1[key1] = KeyedCell(cell1) /\ row1[name1] = SealedCell(ref1, cell1)
      /\ row2[key2] = KeyedCell(cell2) /\ row2[name2] = SealedCell(ref2, cell2)
  BY <1>1 DEF SealedRow
<1>4. JoinComparison(aliases, expr)
        = Comparison("eq", ColumnOf(range1, key1, alias1), ColumnOf(range2, key2, alias2))
  BY JoinComparisonIs
<1>5. /\ DecryptedCell({ref1}, row1[name1]) = [isOk |-> TRUE, out |-> cell1]
      /\ DecryptedCell({ref2}, row2[name2]) = [isOk |-> TRUE, out |-> cell2]
  <2>1. {ref1} \intersect IsEncrypted = {ref1} /\ {ref2} \intersect IsEncrypted = {ref2}
    BY <1>1
  <2> HIDE DEF ref1, ref2, cell1, cell2
  <2> QED BY <1>2, <1>3, <2>1, SealedCellIsRead
<1>6. found = Compared(TRUE, KeyedCell(cell1), KeyedCell(cell2))
  <2> DEFINE server == Both(Ranged(range1, row1), Ranged(range2, row2))
             left == ColumnOf(range1, key1, alias1)
             right == ColumnOf(range2, key2, alias2)
  <2>1. Value(server, left) = row1[key1] /\ Value(server, right) = row2[key2]
    BY <1>1, <1>2, BothCells
  <2>2. found = ComparisonTruth(server, Comparison("eq", left, right))
    BY <1>4
  <2> HIDE DEF server, left, right, key1, key2
  <2>3. found = Compared("eq" = "eq", Value(server, left), Value(server, right))
    BY <2>2, TruthOfTwo
  <2> QED BY <1>3, <2>1, <2>3
<1>7. meant = Compared(TRUE, cell1, cell2)
  <2> DEFINE client == Both(Ranged(range1, clear1), Ranged(range2, clear2))
             left == ColumnOf(range1, name1, alias1)
             right == ColumnOf(range2, name2, alias2)
  <2>1. Value(client, left) = cell1 /\ Value(client, right) = cell2
    <3>1. name1 \in DOMAIN clear1 /\ name2 \in DOMAIN clear2
      BY <1>1, <1>2
    <3>2. Value(client, left) = clear1[name1] /\ Value(client, right) = clear2[name2]
      BY <3>1, BothCells
    <3> QED BY <3>2
  <2>2. meant = ComparisonTruth(client, Comparison("eq", left, right))
    OBVIOUS
  <2> HIDE DEF client, left, right
  <2>3. meant = Compared("eq" = "eq", Value(client, left), Value(client, right))
    BY <2>2, TruthOfTwo
  <2> QED BY <2>1, <2>3
<1>8. \A text : /\ JoinKeyString("string", text) # NullCell
                /\ ~IsCiphertext(JoinKeyString("string", text))
  BY JoinKeyCell
<1>9. cell1 # NullCell => ~IsCiphertext(cell1)
  BY <1>2, TextCell
<1> HIDE DEF cell1, cell2
<1>10. meant = "T" <=> cell1 # NullCell /\ cell2 # NullCell /\ cell1 = cell2
  BY <1>7, <1>9 DEF Compared, SameCell
<1>11. cell1 # NullCell /\ cell1 = cell2 => found = "T"
  BY <1>6, <1>8 DEF Compared, SameCell, KeyedCell
<1>12. found = "T" => cell1 # NullCell /\ cell2 # NullCell
  BY <1>6 DEF Compared, KeyedCell
<1> QED BY <1>5, <1>10, <1>11, <1>12

(* A comparison with an indexed column goes to the server without the text  *)
(* that the column is compared with.                                        *)
THEOREM ComparedValuesAreHidden ==
  ASSUME NEW aliases, NEW range, NEW name, NEW alias, NEW op, NEW lit,
         <<TableOf(aliases, range), name>> \in HasBlindIndex
  PROVE  ~InClear(IndexComparison(aliases, Comparison(op, ColumnOf(range, name, alias), lit)).args[2])
<1> DEFINE ref == <<TableOf(aliases, range), name>>
           hash == HashLiteral(lit, ref)
<1>1. IndexComparison(aliases, Comparison(op, ColumnOf(range, name, alias), lit))
        = Comparison(op, ColumnOf(range, BIColumn[name], alias), hash)
  BY IndexComparisonIs
<1>2. ~InClear(hash)
  <2>1. hash \in {NullLit, Lit("string", HMACString(Key(ref), lit.type, lit.text))}
    BY DEF HashLiteral
  <2>2. \E i \in DOMAIN HMACString(Key(ref), lit.type, lit.text) :
          HMACString(Key(ref), lit.type, lit.text)[i][1] # "b"
    BY IndexCell
  <2> QED BY <2>1, <2>2, NotInClear
<1> HIDE DEF hash
<1>3. Comparison(op, ColumnOf(range, BIColumn[name], alias), hash).args[2] = hash
  BY DEF Comparison
<1> QED BY <1>1, <1>2, <1>3

-----------------------------------------------------------------------------
(* What a visitor remembers, visit by visit.                                *)

GoesThrough(upTo, n, mutator, visits, encrypted) ==
  /\ upTo[0] = Unseen
  /\ \A i \in 1 .. n : upTo[i] = Remembered(mutator, upTo[i - 1], visits[i], encrypted)

LEMMA MemoryGrows ==
  ASSUME NEW mutator, NEW visits, NEW encrypted, NEW n \in Nat, Len(visits) = n
  PROVE  \E upTo : /\ GoesThrough(upTo, n, mutator, visits, encrypted)
                   /\ Memory(mutator, visits, encrypted) = upTo[n]
<1> DEFINE Next(f, i) == IF i = 0 THEN Unseen
                         ELSE Remembered(mutator, f[i - 1], visits[i], encrypted)
           GrowsTo(f, k) == \A i \in 0 .. k : f[i] = Next(f, i)
           T == {k \in 0 .. n : \E f : GrowsTo(f, k)}
<1>1. 0 \in T
  <2> DEFINE f == [i \in {0} |-> Unseen]
  <2>1. \A i \in 0 .. 0 : i = 0 /\ f[i] = Unseen
    OBVIOUS
  <2> HIDE DEF f
  <2>2. GrowsTo(f, 0)
    BY <2>1
  <2> QED BY <2>2
<1>2. ASSUME NEW k \in 1 .. n, k - 1 \in T
      PROVE  k \in T
  <2>1. PICK f : GrowsTo(f, k - 1)
    BY <1>2
  <2> DEFINE last == Next(f, k)
             g == [i \in 0 .. k |-> IF i = k THEN last ELSE f[i]]
  <2>2. ASSUME NEW i \in 0 .. k
        PROVE  g[i] = Next(g, i)
    <3>1. CASE i = k
      <4>1. g[k - 1] = f[k - 1] /\ g[i] = last /\ i # 0
        BY <3>1
      <4> HIDE DEF g
      <4> QED BY <3>1, <4>1
    <3>2. CASE i # k
      <4>1. i \in 0 .. k - 1 /\ g[i] = f[i] /\ (i # 0 => g[i - 1] = f[i - 1])
        BY <3>2
      <4> HIDE DEF g
      <4> QED BY <2>1, <4>1
    <3> QED BY <3>1, <3>2
  <2> HIDE DEF g
  <2>3. GrowsTo(g, k)
    BY <2>2
  <2> QED BY <2>3
<1>3. n \in T
  <2> HIDE DEF T
  <2>1. \A i \in 0 .. n : i \in T
    BY <1>1, <1>2, CountingUp
  <2> QED BY <2>1
<1>4. PICK f : GrowsTo(f, n)
  BY <1>3
<1> DEFINE upTo == CHOOSE g : g = [i \in 0 .. n |-> Next(g, i)]
<1>5. \E g : g = [i \in 0 .. n |-> Next(g, i)]
  <2> DEFINE g == [i \in 0 .. n |-> f[i]]
  <2>1. \A i \in 0 .. n : g[i] = Next(g, i)
    BY <1>4
  <2>2. g = [i \in 0 .. n |-> g[i]]
    OBVIOUS
  <2> HIDE DEF g
  <2>3. g = [i \in 0 .. n |-> Next(g, i)]
    BY <2>1, <2>2
  <2> QED BY <2>3
<1>6. upTo = [i \in 0 .. n |-> Next(upTo, i)]
  BY <1>5
<1>7. Memory(mutator, visits, encrypted) = upTo[n]
  BY DEF Memory
<1> HIDE DEF upTo
<1>8. upTo[0] = Unseen
  BY <1>6
<1>9. \A i \in 1 .. n : upTo[i] = Remembered(mutator, upTo[i - 1], visits[i], encrypted)
  BY <1>6
<1>10. GoesThrough(upTo, n, mutator, visits, encrypted)
  BY <1>8, <1>9 DEF GoesThrough
<1> QED BY <1>7, <1>10

IsMemory(memory) ==
  memory = [outcome |-> memory.outcome, aliases |-> memory.aliases,
            selected |-> memory.selected, names |-> memory.names]

InBody(visit) == visit.kind = "column" /\ visit.place = "body"

SelectedIs(next, memory, column, name, ref) ==
  /\ column.table # ""
  /\ next.selected = memory.selected \union {ref}
  /\ next.names = Put(memory.names, name, ref)
  /\ column.alias = "" /\ name \in DOMAIN memory.names => memory.names[name] = ref

LEMMA Selected ==
  ASSUME NEW memory, IsMemory(memory), NEW column, IsColumn(column),
         NEW next, next = ColumnSelected(memory, column), next.outcome = "ok",
         memory.outcome = "ok",
         NEW name, name = ShownName(column), NEW ref, ref = RefOf(memory.aliases, column)
  PROVE  SelectedIs(next, memory, column, name, ref)
<1>1. name = IF column.alias = "" THEN column.name ELSE column.alias
  BY DEF ShownName
<1> DEFINE refused == \/ column.table = ""
                      \/ /\ column.alias = "" /\ name \in DOMAIN memory.names
                         /\ memory.names[name] # ref
<1>2. next = IF refused THEN [memory EXCEPT !.outcome = "refused"]
             ELSE [memory EXCEPT !.selected = memory.selected \union {ref},
                                 !.names = Put(memory.names, name, ref)]
  BY <1>1 DEF ColumnSelected
<1>3. ~refused
  BY <1>2 DEF IsMemory
<1>4. /\ next.selected = memory.selected \union {ref}
      /\ next.names = Put(memory.names, name, ref)
  BY <1>2, <1>3 DEF IsMemory
<1> QED BY <1>3, <1>4 DEF SelectedIs

LEMMA RememberedIs ==
  ASSUME NEW mutator, NEW memory, IsMemory(memory), NEW visit, NEW encrypted,
         NEW next, next = Remembered(mutator, memory, visit, encrypted)
  PROVE  /\ IsMemory(next)
         /\ memory.outcome # "ok" => next = memory
         /\ visit.kind # "alias" => next.aliases = memory.aliases
         /\ ~InBody(visit) => next.names = memory.names /\ next.selected = memory.selected
         /\ memory.outcome = "ok" /\ InBody(visit) =>
              next = ColumnSelected(memory, visit.of)
<1>1. memory.outcome = "ok" /\ InBody(visit) => next = ColumnSelected(memory, visit.of)
  BY DEF Remembered, InBody
<1>2. memory.outcome # "ok" => next = memory
  BY DEF Remembered
<1>3. \/ next = memory
      \/ \E outcome : next = [memory EXCEPT !.outcome = outcome]
      \/ /\ visit.kind = "alias"
         /\ \E aliases : next = [memory EXCEPT !.aliases = aliases]
      \/ /\ InBody(visit)
         /\ \E selected, names : next = [memory EXCEPT !.selected = selected, !.names = names]
  <2>1. CASE memory.outcome = "ok" /\ InBody(visit)
    BY <1>1, <2>1 DEF ColumnSelected
  <2>2. CASE ~ (memory.outcome = "ok" /\ InBody(visit))
    BY <2>2 DEF Remembered, InBody
  <2> QED BY <2>1, <2>2
<1> QED BY <1>1, <1>2, <1>3 DEF IsMemory

(* A column of the body, as the visitor meets it.                           *)
IsShown(visits, k, column) ==
  k \in DOMAIN visits /\ InBody(visits[k]) /\ visits[k].of = column /\ IsColumn(column)

(* Without a SELECT inside of another, FROM is visited before the body.     *)
AliasesFirst(visits) ==
  \A k, l \in DOMAIN visits : visits[k].kind = "alias" /\ InBody(visits[l]) => k < l

HasColumn(memory, column) ==
  /\ column.table # "" /\ RefOf(memory.aliases, column) \in memory.selected
  /\ ShownName(column) \in DOMAIN memory.names
  /\ memory.names[ShownName(column)] = RefOf(memory.aliases, column)

TakesName(visit, column) ==
  InBody(visit) /\ visit.of.alias # "" /\ ShownName(visit.of) = ShownName(column)

LEMMA PutIs ==
  ASSUME NEW map, NEW key, NEW value, NEW put, put = Put(map, key, value)
  PROVE  /\ key \in DOMAIN put /\ put[key] = value
         /\ \A k \in DOMAIN map : k \in DOMAIN put /\ (k # key => put[k] = map[k])
BY DEF Put

LEMMA ColumnIsKept ==
  ASSUME NEW mutator, NEW memory, IsMemory(memory), NEW visit, NEW encrypted,
         NEW next, next = Remembered(mutator, memory, visit, encrypted), next.outcome = "ok",
         NEW column, HasColumn(memory, column), visit.kind # "alias",
         InBody(visit) => IsColumn(visit.of) /\ ~TakesName(visit, column)
  PROVE  HasColumn(next, column)
<1> DEFINE name == ShownName(column)
           ref == RefOf(memory.aliases, column)
           other == visit.of
           otherName == ShownName(other)
           otherRef == RefOf(memory.aliases, other)
<1>1. IsMemory(next) /\ next.aliases = memory.aliases
  BY RememberedIs
<1>2. memory.outcome = "ok"
  BY RememberedIs
<1>3. CASE ~InBody(visit)
  <2>1. next.names = memory.names /\ next.selected = memory.selected
    BY <1>3, RememberedIs
  <2> QED BY <1>1, <2>1 DEF HasColumn
<1>4. CASE InBody(visit)
  <2>1. next = ColumnSelected(memory, other)
    BY <1>2, <1>4, RememberedIs
  <2>2. SelectedIs(next, memory, other, otherName, otherRef)
    BY <1>2, <1>4, <2>1, Selected
  <2> DEFINE put == Put(memory.names, otherName, otherRef)
  <2>3. /\ next.selected = memory.selected \union {otherRef} /\ next.names = put
        /\ other.alias = "" /\ otherName \in DOMAIN memory.names =>
             memory.names[otherName] = otherRef
    BY <2>2 DEF SelectedIs
  <2>4. /\ otherName \in DOMAIN put /\ put[otherName] = otherRef
        /\ \A k \in DOMAIN memory.names :
             k \in DOMAIN put /\ (k # otherName => put[k] = memory.names[k])
    BY PutIs
  <2> HIDE DEF put
  <2>5. name \in DOMAIN memory.names /\ memory.names[name] = ref /\ ref \in memory.selected
    BY DEF HasColumn
  <2>6. name = otherName => otherRef = ref
    <3>1. other.alias = "" \/ name # otherName
      BY <1>4 DEF TakesName
    <3> QED BY <2>3, <2>5, <3>1
  <2>7. name \in DOMAIN put /\ put[name] = ref
    BY <2>4, <2>5, <2>6
  <2> HIDE DEF name, ref, otherName, otherRef, other
  <2>8. ref \in next.selected /\ next.names[name] = ref /\ name \in DOMAIN next.names
    BY <2>3, <2>5, <2>7
  <2> QED BY <1>1, <2>8 DEF HasColumn, name, ref
<1> QED BY <1>3, <1>4

(* What the way back goes by: where a column of the body is the only one of *)
(* its name, the visitor remembers under that name the column of the very   *)
(* table it comes from, whatever aliases stand for the tables and whatever  *)
(* else it has met in the query.                                            *)
THEOREM ColumnsAreRemembered ==
  ASSUME NEW mutator, NEW encrypted, NEW visits, NEW n \in Nat, Len(visits) = n,
         DOMAIN visits = 1 .. n,
         AliasesFirst(visits), \A l \in 1 .. n : InBody(visits[l]) => IsColumn(visits[l].of),
         NEW memory, memory = Memory(mutator, visits, encrypted), memory.outcome = "ok",
         NEW column, NEW k, IsShown(visits, k, column),
         \A l \in 1 .. n : TakesName(visits[l], column) => l = k
  PROVE  HasColumn(memory, column)
<1>0. PICK upTo : GoesThrough(upTo, n, mutator, visits, encrypted) /\ memory = upTo[n]
  BY MemoryGrows
<1>1. /\ upTo[0] = Unseen /\ memory = upTo[n]
      /\ \A i \in 1 .. n : upTo[i] = Remembered(mutator, upTo[i - 1], visits[i], encrypted)
  BY <1>0 DEF GoesThrough
<1>2. \A i \in 0 .. n : IsMemory(upTo[i])
  <2> DEFINE T == {i \in 0 .. n : IsMemory(upTo[i])}
  <2>1. 0 \in T
    BY <1>1 DEF IsMemory, Unseen
  <2>2. \A i \in 1 .. n : i - 1 \in T => i \in T
    BY <1>1, RememberedIs
  <2> HIDE DEF T
  <2>3. \A i \in 0 .. n : i \in T
    BY <2>1, <2>2, CountingUp
  <2> QED BY <2>3 DEF T
<1>3. \A i \in 1 .. n : upTo[i].outcome = "ok" => upTo[i - 1].outcome = "ok"
  <2> TAKE i \in 1 .. n
  <2>1. IsMemory(upTo[i - 1]) /\ upTo[i] = Remembered(mutator, upTo[i - 1], visits[i], encrypted)
    BY <1>1, <1>2
  <2>2. upTo[i - 1].outcome # "ok" => upTo[i] = upTo[i - 1]
    BY <2>1, RememberedIs
  <2> QED BY <2>2
<1>4. \A i \in 0 .. n : upTo[i].outcome = "ok"
  <2> DEFINE T == {i \in 0 .. n : upTo[n - i].outcome = "ok"}
  <2>1. 0 \in T
    BY <1>1
  <2>2. ASSUME NEW i \in 1 .. n, i - 1 \in T
        PROVE  i \in T
    <3> DEFINE j == n - (i - 1)
    <3>1. j \in 1 .. n /\ j - 1 = n - i
      OBVIOUS
    <3>2. upTo[j].outcome = "ok"
      BY <2>2
    <3> HIDE DEF j
    <3> QED BY <1>3, <3>1, <3>2
  <2> HIDE DEF T
  <2>3. \A i \in 0 .. n : i \in T
    BY <2>1, <2>2, CountingUp
  <2> TAKE i \in 0 .. n
  <2>4. n - i \in 0 .. n /\ n - (n - i) = i
    OBVIOUS
  <2> QED BY <2>3, <2>4 DEF T
<1>5. k \in 1 .. n /\ InBody(visits[k]) /\ visits[k].of = column /\ IsColumn(column)
  BY DEF IsShown
<1>6. HasColumn(upTo[k], column)
  <2> DEFINE before == upTo[k - 1]
             ref == RefOf(before.aliases, column)
             name == ShownName(column)
  <2>1. /\ k - 1 \in 0 .. n /\ k \in 0 .. n /\ IsMemory(before) /\ before.outcome = "ok"
        /\ upTo[k].outcome = "ok"
        /\ upTo[k] = Remembered(mutator, before, visits[k], encrypted)
    BY <1>1, <1>2, <1>4, <1>5
  <2>2. upTo[k] = ColumnSelected(before, column) /\ upTo[k].aliases = before.aliases
    BY <1>5, <2>1, RememberedIs DEF InBody
  <2>3. SelectedIs(upTo[k], before, column, name, ref)
    BY <1>5, <2>1, <2>2, Selected
  <2>4. /\ column.table # "" /\ upTo[k].names = Put(before.names, name, ref)
        /\ upTo[k].selected = before.selected \union {ref}
    BY <2>3 DEF SelectedIs
  <2> DEFINE names == upTo[k].names
             known == before.names
  <2>5. name \in DOMAIN names /\ names[name] = ref
    <3>1. names = Put(known, name, ref)
      BY <2>4
    <3> HIDE DEF names, known, name, ref, before
    <3> QED BY <3>1, PutIs
  <2> QED BY <2>2, <2>4, <2>5 DEF HasColumn
<1>7. \A i \in 1 .. n : k < i /\ HasColumn(upTo[i - 1], column) => HasColumn(upTo[i], column)
  <2> SUFFICES ASSUME NEW i \in 1 .. n, k < i, HasColumn(upTo[i - 1], column)
               PROVE  HasColumn(upTo[i], column)
    OBVIOUS
  <2>1. /\ IsMemory(upTo[i - 1]) /\ upTo[i].outcome = "ok"
        /\ upTo[i] = Remembered(mutator, upTo[i - 1], visits[i], encrypted)
    BY <1>1, <1>2, <1>4
  <2>2. visits[i].kind # "alias"
    BY <1>5 DEF AliasesFirst
  <2>3. InBody(visits[i]) =>
          IsColumn(visits[i].of) /\ ~TakesName(visits[i], column)
    BY <1>5
  <2> QED BY <2>1, <2>2, <2>3, ColumnIsKept
<1>8. HasColumn(upTo[n], column)
  <2> DEFINE T == {i \in 0 .. n : i < k \/ HasColumn(upTo[i], column)}
  <2>1. 0 \in T
    BY <1>5
  <2>2. \A i \in 1 .. n : i - 1 \in T => i \in T
    BY <1>5, <1>6, <1>7
  <2> HIDE DEF T
  <2>3. n \in T
    BY <2>1, <2>2, CountingUp
  <2> QED BY <1>5, <2>3 DEF T
<1> QED BY <1>1, <1>8

-----------------------------------------------------------------------------
(* The rows of FROM, stored and in clear: a row of its table for each of    *)
(* the names that the tables have there.                                    *)
HasCells(whole, range, row) ==
  \A name \in DOMAIN row : /\ <<range, name>> \in DOMAIN whole
                           /\ whole[<<range, name>>] = row[name]

IsSealedOf(table, range, server, client) ==
  /\ table \in Tables
  /\ \E clear \in ClearRows(table) : \E row :
       /\ SealedRow(table, row, clear)
       /\ HasCells(server, range, row) /\ HasCells(client, range, clear)

OnlyOf(ranges, whole) == \A column \in DOMAIN whole : column[1] \in ranges

FromSealed(aliases, ranges, server, client) ==
  /\ OnlyOf(ranges, server) /\ OnlyOf(ranges, client)
  /\ \A range \in ranges : IsSealedOf(TableOf(aliases, range), range, server, client)

LEMMA RangedHasCells ==
  ASSUME NEW range, NEW row
  PROVE  HasCells(Ranged(range, row), range, row) /\ OnlyOf({range}, Ranged(range, row))
<1>1. \A name : <<range, name>>[2] = name /\ <<range, name>>[1] = range
  OBVIOUS
<1>2. OnlyOf({range}, Ranged(range, row))
  BY DEF OnlyOf, Ranged
<1> QED BY <1>1, <1>2 DEF HasCells, Ranged

LEMMA RangedIsSealed ==
  ASSUME NEW table \in Tables, NEW clear \in ClearRows(table), NEW row,
         SealedRow(table, row, clear),
         NEW aliases, NEW range, TableOf(aliases, range) = table
  PROVE  FromSealed(aliases, {range}, Ranged(range, row), Ranged(range, clear))
<1>1. /\ HasCells(Ranged(range, row), range, row)
      /\ HasCells(Ranged(range, clear), range, clear)
      /\ OnlyOf({range}, Ranged(range, row)) /\ OnlyOf({range}, Ranged(range, clear))
  BY RangedHasCells
<1>2. IsSealedOf(table, range, Ranged(range, row), Ranged(range, clear))
  BY <1>1 DEF IsSealedOf
<1> QED BY <1>1, <1>2 DEF FromSealed

IsApart(whole, range) == \A column \in DOMAIN whole : column[1] # range

LEMMA BothHaveCells ==
  ASSUME NEW one, NEW other, NEW range, NEW row
  PROVE  /\ HasCells(one, range, row) => HasCells(Both(one, other), range, row)
         /\ HasCells(other, range, row) /\ IsApart(one, range) =>
              HasCells(Both(one, other), range, row)
<1>1. \A name : <<range, name>>[1] = range
  OBVIOUS
<1>2. HasCells(one, range, row) => HasCells(Both(one, other), range, row)
  BY DEF HasCells, Both
<1>3. HasCells(other, range, row) /\ IsApart(one, range) =>
        HasCells(Both(one, other), range, row)
  BY <1>1 DEF HasCells, Both, IsApart
<1> QED BY <1>2, <1>3

(* A join of what has no name in common.                                    *)
LEMMA BothAreSealed ==
  ASSUME NEW aliases,
         NEW ranges1, NEW server1, NEW client1, FromSealed(aliases, ranges1, server1, client1),
         NEW ranges2, NEW server2, NEW client2, FromSealed(aliases, ranges2, server2, client2),
         ranges1 \intersect ranges2 = {}
  PROVE  FromSealed(aliases, ranges1 \union ranges2, Both(server1, server2), Both(client1, client2))
<1> DEFINE server == Both(server1, server2)
           client == Both(client1, client2)
<1>1. OnlyOf(ranges1 \union ranges2, server) /\ OnlyOf(ranges1 \union ranges2, client)
  BY DEF FromSealed, OnlyOf, Both
<1>2. ASSUME NEW range \in ranges1 \union ranges2
      PROVE  IsSealedOf(TableOf(aliases, range), range, server, client)
  <2> DEFINE table == TableOf(aliases, range)
  <2>1. CASE range \in ranges1
    <3>1. IsSealedOf(table, range, server1, client1)
      BY <2>1 DEF FromSealed
    <3> HIDE DEF table
    <3>2. PICK clear \in ClearRows(table) : \E row :
            /\ SealedRow(table, row, clear)
            /\ HasCells(server1, range, row) /\ HasCells(client1, range, clear)
      BY <3>1 DEF IsSealedOf
    <3>3. PICK row : /\ SealedRow(table, row, clear)
                     /\ HasCells(server1, range, row) /\ HasCells(client1, range, clear)
      BY <3>2
    <3>4. HasCells(server, range, row) /\ HasCells(client, range, clear)
      BY <3>3, BothHaveCells
    <3>5. IsSealedOf(table, range, server, client)
      BY <3>1, <3>3, <3>4 DEF IsSealedOf
    <3> QED BY <3>5 DEF table
  <2>2. CASE range \in ranges2
    <3>1. IsSealedOf(table, range, server2, client2)
      BY <2>2 DEF FromSealed
    <3>2. IsApart(server1, range) /\ IsApart(client1, range)
      BY <2>2 DEF FromSealed, OnlyOf, IsApart
    <3> HIDE DEF table
    <3>3. PICK clear \in ClearRows(table) : \E row :
            /\ SealedRow(table, row, clear)
            /\ HasCells(server2, range, row) /\ HasCells(client2, range, clear)
      BY <3>1 DEF IsSealedOf
    <3>4. PICK row : /\ SealedRow(table, row, clear)
                     /\ HasCells(server2, range, row) /\ HasCells(client2, range, clear)
      BY <3>3
    <3>5. HasCells(server, range, row) /\ HasCells(client, range, clear)
      BY <3>2, <3>4, BothHaveCells
    <3>6. IsSealedOf(table, range, server, client)
      BY <3>1, <3>4, <3>5 DEF IsSealedOf
    <3> QED BY <3>6 DEF table
  <2> QED BY <2>1, <2>2
<1> HIDE DEF server, client
<1> QED BY <1>1, <1>2 DEF FromSealed, server, client

(* A column that the client may name, and its cells on both sides.          *)
MayName(aliases, ranges, column) ==
  /\ IsColumn(column) /\ column.table \in ranges
  /\ column.name \in Visible(TableOf(aliases, column.table))

LEMMA NamedCells ==
  ASSUME NEW aliases, NEW ranges, NEW server, NEW client, FromSealed(aliases, ranges, server, client),
         NEW column, MayName(aliases, ranges, column),
         NEW cell, cell = Value(client, column)
  PROVE  /\ cell \in Texts \union {NullCell}
         /\ Value(server, column) = SealedCell(RefOf(aliases, column), cell)
<1> DEFINE range == column.table
           name == column.name
           table == TableOf(aliases, range)
<1>1. /\ range \in ranges /\ name \in Visible(table)
      /\ Value(client, column) = client[<<range, name>>]
      /\ Value(server, column) = server[<<range, name>>]
      /\ RefOf(aliases, column) = <<table, name>>
  BY DEF MayName, Value, RefOf
<1>2. IsSealedOf(table, range, server, client)
  BY <1>1 DEF FromSealed
<1> HIDE DEF range, name, table
<1>3. PICK clear \in ClearRows(table) : \E row :
        /\ SealedRow(table, row, clear)
        /\ HasCells(server, range, row) /\ HasCells(client, range, clear)
  BY <1>2 DEF IsSealedOf
<1>4. PICK row : /\ SealedRow(table, row, clear)
                 /\ HasCells(server, range, row) /\ HasCells(client, range, clear)
  BY <1>3
<1>5. name \in Columns[table]
  BY <1>1, <1>2, VisibleColumns DEF IsSealedOf
<1>6. DOMAIN row = Columns[table] /\ row[name] = SealedCell(<<table, name>>, clear[name])
  BY <1>1, <1>4 DEF SealedRow
<1>7. DOMAIN clear = Columns[table] /\ clear[name] \in Texts \union {NullCell}
  BY <1>5 DEF ClearRows
<1>8. server[<<range, name>>] = row[name] /\ client[<<range, name>>] = clear[name]
  BY <1>4, <1>5, <1>6, <1>7 DEF HasCells
<1> QED BY <1>1, <1>6, <1>7, <1>8

-----------------------------------------------------------------------------
(* The body of a SELECT, and what a visitor has met of it: the columns that *)
(* are shown and, inside of other expressions, columns without an alias.    *)
IsVisited(visits) ==
  /\ \E n \in Nat : DOMAIN visits = 1 .. n /\ Len(visits) = n
  /\ AliasesFirst(visits)
  /\ \A l \in DOMAIN visits : InBody(visits[l]) => IsColumn(visits[l].of)

IsSelected(body, visits, at) ==
  /\ \A j \in DOMAIN body : IsColumn(body[j]) => IsShown(visits, at[j], body[j])
  /\ \A l \in DOMAIN visits : InBody(visits[l]) /\ visits[l].of.alias # "" =>
       \E j \in DOMAIN body : IsColumn(body[j]) /\ at[j] = l

ShownNames(body) == [j \in DOMAIN body |-> ShownName(body[j])]

LEMMA BodyIsRemembered ==
  ASSUME NEW mutator, NEW encrypted, NEW visits, IsVisited(visits),
         NEW memory, memory = Memory(mutator, visits, encrypted), memory.outcome = "ok",
         NEW body, NEW at, IsSelected(body, visits, at), ~Ambiguous(ShownNames(body)),
         NEW j \in DOMAIN body, IsColumn(body[j])
  PROVE  HasColumn(memory, body[j])
<1>1. PICK n \in Nat : DOMAIN visits = 1 .. n /\ Len(visits) = n
  BY DEF IsVisited
<1>2. /\ AliasesFirst(visits)
      /\ \A l \in 1 .. n : InBody(visits[l]) => IsColumn(visits[l].of)
  BY <1>1 DEF IsVisited
<1>3. IsShown(visits, at[j], body[j])
  BY DEF IsSelected
<1>4. \A l \in 1 .. n : TakesName(visits[l], body[j]) => l = at[j]
  <2> SUFFICES ASSUME NEW l \in 1 .. n, TakesName(visits[l], body[j])
               PROVE  l = at[j]
    OBVIOUS
  <2>1. /\ InBody(visits[l]) /\ visits[l].of.alias # ""
        /\ ShownName(visits[l].of) = ShownName(body[j])
    BY DEF TakesName
  <2>2. PICK i \in DOMAIN body : IsColumn(body[i]) /\ at[i] = l
    BY <1>1, <2>1 DEF IsSelected
  <2>3. body[i] = visits[l].of
    BY <2>2 DEF IsSelected, IsShown
  <2>4. ShownNames(body)[i] = ShownName(body[i]) /\ ShownNames(body)[j] = ShownName(body[j])
        /\ DOMAIN ShownNames(body) = DOMAIN body
    BY DEF ShownNames
  <2>5. ShownNames(body)[i] = ShownNames(body)[j]
    BY <2>1, <2>3, <2>4
  <2>6. i = j
    BY <2>4, <2>5 DEF Ambiguous
  <2> QED BY <2>2, <2>6
<1> DEFINE k == at[j]
           column == body[j]
<1> HIDE DEF k, column
<1>5. IsShown(visits, k, column) /\ \A l \in 1 .. n : TakesName(visits[l], column) => l = k
  BY <1>3, <1>4 DEF k, column
<1>6. HasColumn(memory, column)
  BY <1>1, <1>2, <1>5, ColumnsAreRemembered
<1> QED BY <1>6 DEF column

(* What comes back of a column that the client selects is its value: the    *)
(* cell that the server shows, decrypted as its name in the result says, is *)
(* the cell of the row in clear, for whatever tables are joined under       *)
(* whatever aliases, and for every row of the answer.                       *)
THEOREM AnswersAreRead ==
  ASSUME NEW visits, IsVisited(visits),
         NEW memory, memory = Memory("encryption", visits, IsEncrypted), memory.outcome = "ok",
         NEW body, NEW at, IsSelected(body, visits, at),
         NEW columnNames, columnNames = ShownNames(body), ~Ambiguous(columnNames),
         NEW rewriting, rewriting.names = memory.names,
         NEW ranges, NEW server, NEW client, FromSealed(memory.aliases, ranges, server, client),
         NEW j \in DOMAIN body, MayName(memory.aliases, ranges, body[j]),
         NEW answer, DOMAIN answer = DOMAIN body, answer[j] = Value(server, body[j])
  PROVE  DecryptedRow(rewriting, columnNames, answer)[j]
           = [isOk |-> TRUE, out |-> Value(client, body[j])]
<1> DEFINE column == body[j]
           ref == RefOf(memory.aliases, column)
           name == ShownName(column)
           cell == Value(client, column)
<1>1. HasColumn(memory, column)
  BY BodyIsRemembered DEF MayName
<1>2. columnNames[j] = name
  BY DEF ShownNames
<1>3. /\ cell \in Texts \union {NullCell}
      /\ Value(server, column) = SealedCell(ref, cell)
  BY NamedCells
<1>4. answer[j] = SealedCell(ref, cell)
  BY <1>3
<1>5. name \in DOMAIN rewriting.names /\ rewriting.names[name] = ref
  BY <1>1 DEF HasColumn
<1> HIDE DEF column, ref, name, cell
<1>6. RowConfig(rewriting.names, name) = {ref} \intersect IsEncrypted
  <2>1. RowConfig(rewriting.names, name) = IF ref \in IsEncrypted THEN {ref} ELSE {}
    BY <1>5 DEF RowConfig
  <2> QED BY <2>1
<1>7. DecryptedCell({ref} \intersect IsEncrypted, SealedCell(ref, cell))
        = [isOk |-> TRUE, out |-> cell]
  BY <1>3, SealedCellIsRead
<1>8. DecryptedRow(rewriting, columnNames, answer)[j]
        = DecryptedCell(RowConfig(rewriting.names, columnNames[j]), answer[j])
  BY DEF DecryptedRow
<1> QED BY <1>2, <1>4, <1>6, <1>7, <1>8 DEF column, cell

-----------------------------------------------------------------------------
(* The columns of a join in a result.                                       *)
LEMMA LastIs ==
  ASSUME NEW m \in Nat, NEW indices \in SUBSET (1 .. m), indices # {}
  PROVE  LastOf(indices) \in indices
<1> DEFINE Bounded(k) == \A j \in indices : j <= k
           HasLast == \E last \in indices : Bounded(last)
           T == {k \in 0 .. m : Bounded(k) => HasLast}
<1>1. 0 \in T
  <2>1. ~Bounded(0)
    <3>1. PICK j \in indices : TRUE
      OBVIOUS
    <3>2. j \in 1 .. m /\ ~ (j <= 0)
      OBVIOUS
    <3> QED BY <3>2
  <2> HIDE DEF Bounded, HasLast
  <2>2. 0 \in 0 .. m
    OBVIOUS
  <2> QED BY <2>1, <2>2
<1>2. ASSUME NEW k \in 1 .. m, k - 1 \in T
      PROVE  k \in T
  <2> SUFFICES ASSUME Bounded(k)
               PROVE  HasLast
    OBVIOUS
  <2>1. CASE k \in indices
    BY <2>1
  <2>2. CASE k \notin indices
    <3>1. Bounded(k - 1)
      BY <2>2
    <3> HIDE DEF Bounded, HasLast
    <3> QED BY <1>2, <3>1
  <2> QED BY <2>1, <2>2
<1>3. m \in T
  <2> HIDE DEF T
  <2>1. \A i \in 0 .. m : i \in T
    BY <1>1, <1>2, CountingUp
  <2> QED BY <2>1
<1>4. Bounded(m)
  OBVIOUS
<1>5. HasLast
  <2> HIDE DEF Bounded, HasLast
  <2> QED BY <1>3, <1>4
<1> QED BY <1>5 DEF LastOf

(* No table is joined with itself.                                          *)
OneEach(aliases, ranges) ==
  \A range1, range2 \in ranges :
    TableOf(aliases, range1) = TableOf(aliases, range2) => range1 = range2

JoinedColumns(aliases, joins) ==
  [i \in DOMAIN joins |-> [side \in 1 .. 2 |-> RefOf(aliases, joins[i].args[side])]]

(* The row of a result that the columns of a row of FROM are read into.     *)
ShowsColumns(body, client, ranges, row) ==
  \A j \in DOMAIN body : IsColumn(body[j]) =>
    body[j].table \in ranges /\ row[j] = Value(client, body[j])

(* What is known of the names in a result and of a row of it.               *)
IsNamed(memory, body, ranges, client, row) ==
  /\ \E m \in Nat : DOMAIN body = 1 .. m
  /\ "?column?" \notin DOMAIN memory.names
  /\ \A j \in DOMAIN body : IsColumn(body[j]) => HasColumn(memory, body[j])
  /\ OneEach(memory.aliases, ranges)
  /\ ShowsColumns(body, client, ranges, row)

LEMMA IndexIsColumn ==
  ASSUME NEW memory, NEW body, NEW ranges, NEW client, NEW row,
         IsNamed(memory, body, ranges, client, row),
         NEW columnNames, columnNames = ShownNames(body),
         NEW column, IsColumn(column), column.table \in ranges,
         NEW ref, ref = RefOf(memory.aliases, column),
         NEW index, index = LastOf(Indices(memory.names, columnNames, ref)),
         Indices(memory.names, columnNames, ref) # {}
  PROVE  row[index] = Value(client, column)
<1>0. PICK m \in Nat : DOMAIN body = 1 .. m
  BY DEF IsNamed
<1> DEFINE indices == Indices(memory.names, columnNames, ref)
           name == columnNames[index]
           shown == body[index]
<1>1. DOMAIN columnNames = 1 .. m /\ \A j \in 1 .. m : columnNames[j] = ShownName(body[j])
  BY <1>0 DEF ShownNames
<1>2. indices \in SUBSET (1 .. m)
  BY <1>1 DEF Indices
<1>3. index \in indices
  BY <1>2, LastIs
<1>4. index \in 1 .. m /\ name \in DOMAIN memory.names /\ memory.names[name] = ref
  BY <1>1, <1>3 DEF Indices
<1>5. name = ShownName(shown)
  BY <1>1, <1>4
<1>6. IsColumn(shown)
  BY <1>4, <1>5 DEF ShownName, IsNamed
<1>7. HasColumn(memory, shown)
  BY <1>0, <1>4, <1>6 DEF IsNamed
<1>8. RefOf(memory.aliases, shown) = ref
  BY <1>4, <1>5, <1>7 DEF HasColumn
<1>9. shown.table \in ranges /\ row[index] = Value(client, shown)
  BY <1>0, <1>4, <1>6 DEF ShowsColumns, IsNamed
<1> HIDE DEF shown
<1>10. shown.table = column.table /\ shown.name = column.name
  <2>1. /\ TableOf(memory.aliases, shown.table) = TableOf(memory.aliases, column.table)
        /\ shown.name = column.name
    BY <1>8 DEF RefOf
  <2> QED BY <1>9, <2>1 DEF OneEach, IsNamed
<1> QED BY <1>6, <1>9, <1>10 DEF Value

(* The rows that the proxy keeps are the ones with equal values in both     *)
(* columns of every join, each looked up where its name says it is.         *)
JoinsOf(rewriting, memory, ranges, joins) ==
  /\ rewriting.joinNames = memory.names
  /\ rewriting.comparisons = JoinedColumns(memory.aliases, joins)
  /\ \A i \in DOMAIN joins : \A side \in 1 .. 2 :
       IsColumn(joins[i].args[side]) /\ joins[i].args[side].table \in ranges

LEMMA JoinsAreMet ==
  ASSUME NEW memory, NEW body, NEW ranges, NEW client, NEW row,
         IsNamed(memory, body, ranges, client, row),
         NEW joins, NEW rewriting, JoinsOf(rewriting, memory, ranges, joins),
         NEW columnNames, columnNames = ShownNames(body),
         ~JoinColumnMissing(rewriting, columnNames)
  PROVE  JoinIsMet(rewriting, columnNames, row) <=>
           \A i \in DOMAIN joins : Value(client, joins[i].args[1]) = Value(client, joins[i].args[2])
<1> DEFINE Index(i, side) == LastOf(Indices(rewriting.joinNames, columnNames,
                                            rewriting.comparisons[i][side]))
<1>1. DOMAIN rewriting.comparisons = DOMAIN joins
  BY DEF JoinedColumns, JoinsOf
<1>2. ASSUME NEW i \in DOMAIN joins, NEW side \in 1 .. 2
      PROVE  row[Index(i, side)] = Value(client, joins[i].args[side])
  <2> DEFINE column == joins[i].args[side]
             ref == RefOf(memory.aliases, column)
             index == Index(i, side)
  <2>1. rewriting.comparisons[i][side] = ref
    <3>1. JoinedColumns(memory.aliases, joins)[i]
            = [other \in 1 .. 2 |-> RefOf(memory.aliases, joins[i].args[other])]
      BY DEF JoinedColumns
    <3>2. JoinedColumns(memory.aliases, joins)[i][side] = ref
      BY <3>1
    <3> QED BY <3>2 DEF JoinsOf
  <2>2. /\ IsColumn(column) /\ column.table \in ranges
        /\ rewriting.joinNames = memory.names
    BY DEF JoinsOf
  <2> HIDE DEF column, ref
  <2>3. Indices(memory.names, columnNames, ref) # {}
    BY <1>1, <2>1, <2>2 DEF JoinColumnMissing
  <2>4. index = LastOf(Indices(memory.names, columnNames, ref))
    BY <2>1, <2>2
  <2>5. ref = RefOf(memory.aliases, column)
    BY DEF ref
  <2> HIDE DEF index
  <2>6. row[index] = Value(client, column)
    BY <2>2, <2>3, <2>4, <2>5, IndexIsColumn
  <2> QED BY <2>6 DEF index, column
<1>3. JoinIsMet(rewriting, columnNames, row) <=>
        \A i \in DOMAIN joins : row[Index(i, 1)] = row[Index(i, 2)]
  BY <1>1 DEF JoinIsMet
<1>4. 1 \in 1 .. 2 /\ 2 \in 1 .. 2
  OBVIOUS
<1> HIDE DEF Index
<1> QED BY <1>2, <1>3, <1>4

(* The join keys of a column that may be joined on.                         *)
LEMMA KeyedCells ==
  ASSUME NEW aliases, NEW ranges, NEW server, NEW client, FromSealed(aliases, ranges, server, client),
         NEW range \in ranges, NEW name, <<TableOf(aliases, range), name>> \in HasJoin, NEW alias,
         NEW column, column = ColumnOf(range, name, alias),
         NEW key, key = ColumnOf(range, JoinKeyColumn[name], alias),
         NEW cell, cell = Value(client, column)
  PROVE  cell \in Texts \union {NullCell} /\ Value(server, key) = KeyedCell(cell)
<1> DEFINE table == TableOf(aliases, range)
           keyName == JoinKeyColumn[name]
<1>1. /\ Value(client, column) = client[<<range, name>>]
      /\ Value(server, key) = server[<<range, keyName>>]
  BY DEF Value, IsColumn, ColumnOf
<1>2. IsSealedOf(table, range, server, client) /\ <<table, name>> \in HasJoin
  BY DEF FromSealed
<1> HIDE DEF table, keyName
<1>3. PICK clear \in ClearRows(table) : \E row :
        /\ SealedRow(table, row, clear)
        /\ HasCells(server, range, row) /\ HasCells(client, range, clear)
  BY <1>2 DEF IsSealedOf
<1>4. PICK row : /\ SealedRow(table, row, clear)
                 /\ HasCells(server, range, row) /\ HasCells(client, range, clear)
  BY <1>3
<1>5. /\ table \in Tables /\ name \in Visible(table) /\ name \in Columns[table]
      /\ keyName \in Columns[table]
  <2>1. table \in Tables
    BY <1>2 DEF IsSealedOf
  <2>2. <<table, name>> \in IsEncrypted
    BY <1>2, ConfiguredColumns
  <2>3. name \in Visible(table) /\ Visible(table) \subseteq Columns[table]
    BY <2>1, <2>2, VisibleColumns
  <2>4. keyName \in Columns[table]
    BY <1>2, <2>1, <2>3, JoinKeyColumns DEF keyName
  <2> QED BY <2>1, <2>3, <2>4
<1>6. DOMAIN row = Columns[table] /\ row[keyName] = KeyedCell(clear[name])
  BY <1>2, <1>4, <1>5 DEF SealedRow, keyName
<1>7. DOMAIN clear = Columns[table] /\ clear[name] \in Texts \union {NullCell}
  BY <1>5 DEF ClearRows
<1>8. server[<<range, keyName>>] = row[keyName] /\ client[<<range, name>>] = clear[name]
  BY <1>4, <1>5, <1>6, <1>7 DEF HasCells
<1> QED BY <1>1, <1>6, <1>7, <1>8

IsJoin(aliases, ranges, join) ==
  \E range1 \in ranges, range2 \in ranges : \E name1, alias1, name2, alias2 :
    /\ join = Comparison("eq", ColumnOf(range1, name1, alias1), ColumnOf(range2, name2, alias2))
    /\ <<TableOf(aliases, range1), name1>> \in HasJoin
    /\ <<TableOf(aliases, range2), name2>> \in HasJoin

LEMMA JoinAgrees ==
  ASSUME NEW aliases, NEW ranges, NEW server, NEW client, FromSealed(aliases, ranges, server, client),
         NEW join, IsJoin(aliases, ranges, join)
  PROVE  /\ \A side \in 1 .. 2 : IsColumn(join.args[side]) /\ join.args[side].table \in ranges
         /\ ComparisonTruth(client, join) = "T" <=>
              /\ ComparisonTruth(server, JoinComparison(aliases, join)) = "T"
              /\ Value(client, join.args[1]) = Value(client, join.args[2])
<1>1. PICK range1 \in ranges, range2 \in ranges : \E name1, alias1, name2, alias2 :
        /\ join = Comparison("eq", ColumnOf(range1, name1, alias1), ColumnOf(range2, name2, alias2))
        /\ <<TableOf(aliases, range1), name1>> \in HasJoin
        /\ <<TableOf(aliases, range2), name2>> \in HasJoin
  BY DEF IsJoin
<1>2. PICK name1, alias1, name2, alias2 :
        /\ join = Comparison("eq", ColumnOf(range1, name1, alias1), ColumnOf(range2, name2, alias2))
        /\ <<TableOf(aliases, range1), name1>> \in HasJoin
        /\ <<TableOf(aliases, range2), name2>> \in HasJoin
  BY <1>1
<1> DEFINE one == ColumnOf(range1, name1, alias1)
           other == ColumnOf(range2, name2, alias2)
           key1 == ColumnOf(range1, JoinKeyColumn[name1], alias1)
           key2 == ColumnOf(range2, JoinKeyColumn[name2], alias2)
           cell1 == Value(client, one)
           cell2 == Value(client, other)
<1>3. /\ cell1 \in Texts \union {NullCell} /\ Value(server, key1) = KeyedCell(cell1)
      /\ cell2 \in Texts \union {NullCell} /\ Value(server, key2) = KeyedCell(cell2)
  BY <1>2, KeyedCells
<1>4. JoinComparison(aliases, join) = Comparison("eq", key1, key2)
  BY <1>2, JoinComparisonIs
<1>5. join = Comparison("eq", one, other) /\ join.args[1] = one /\ join.args[2] = other
  BY <1>2 DEF Comparison
<1>6. /\ IsColumn(one) /\ one.table = range1
      /\ IsColumn(other) /\ other.table = range2
  BY DEF ColumnOf, IsColumn
<1> HIDE DEF one, other, key1, key2
<1>7. /\ ComparisonTruth(client, join) = Compared("eq" = "eq", cell1, cell2)
      /\ ComparisonTruth(server, JoinComparison(aliases, join))
           = Compared("eq" = "eq", Value(server, key1), Value(server, key2))
  BY <1>4, <1>5, TruthOfTwo
<1>8. \A text : /\ JoinKeyString("string", text) # NullCell
                /\ ~IsCiphertext(JoinKeyString("string", text))
  BY JoinKeyCell
<1>9. cell1 # NullCell => ~IsCiphertext(cell1)
  BY <1>3, TextCell
<1> DEFINE found == ComparisonTruth(server, JoinComparison(aliases, join))
           meant == ComparisonTruth(client, join)
<1>10. found = Compared(TRUE, KeyedCell(cell1), KeyedCell(cell2)) /\ meant = Compared(TRUE, cell1, cell2)
  BY <1>3, <1>7
<1> HIDE DEF cell1, cell2, found, meant
<1>11. meant = "T" <=> cell1 # NullCell /\ cell2 # NullCell /\ cell1 = cell2
  BY <1>10, <1>9 DEF Compared, SameCell
<1>12. cell1 # NullCell /\ cell1 = cell2 => found = "T"
  BY <1>10, <1>8 DEF Compared, SameCell, KeyedCell
<1>13. found = "T" => cell1 # NullCell /\ cell2 # NullCell
  BY <1>10 DEF Compared, KeyedCell
<1>14. meant = "T" <=> found = "T" /\ cell1 = cell2
  BY <1>11, <1>12, <1>13
<1>15. \A side \in 1 .. 2 : IsColumn(join.args[side]) /\ join.args[side].table \in ranges
  <2>1. \A side \in 1 .. 2 : side = 1 \/ side = 2
    OBVIOUS
  <2> QED BY <1>5, <1>6, <2>1
<1> QED BY <1>5, <1>14, <1>15 DEF cell1, cell2, found, meant

(* The two halves of encrypted joins together, for as many tables as are    *)
(* joined: the rows with equal join keys that the server finds, of which    *)
(* the proxy keeps those whose decrypted columns are equal, are exactly the *)
(* rows that the conditions of the client mean, collisions included.        *)
THEOREM JoinsAreExact ==
  ASSUME NEW visits, IsVisited(visits),
         NEW memory, memory = Memory("join", visits, IsEncrypted), memory.outcome = "ok",
         NEW body, NEW m \in Nat, DOMAIN body = 1 .. m, NEW at, IsSelected(body, visits, at),
         NEW columnNames, columnNames = ShownNames(body), ~Ambiguous(columnNames),
         "?column?" \notin DOMAIN memory.names,
         NEW ranges, OneEach(memory.aliases, ranges),
         NEW server, NEW client, FromSealed(memory.aliases, ranges, server, client),
         NEW row, ShowsColumns(body, client, ranges, row),
         NEW joins, \A i \in DOMAIN joins : IsJoin(memory.aliases, ranges, joins[i]),
         NEW rewriting, rewriting.joinNames = memory.names,
         rewriting.comparisons = JoinedColumns(memory.aliases, joins),
         ~JoinColumnMissing(rewriting, columnNames)
  PROVE  (\A i \in DOMAIN joins : ComparisonTruth(client, joins[i]) = "T") <=>
           /\ \A i \in DOMAIN joins :
                ComparisonTruth(server, JoinComparison(memory.aliases, joins[i])) = "T"
           /\ JoinIsMet(rewriting, columnNames, row)
<1>1. \A i \in DOMAIN joins :
        /\ \A side \in 1 .. 2 : IsColumn(joins[i].args[side]) /\ joins[i].args[side].table \in ranges
        /\ ComparisonTruth(client, joins[i]) = "T" <=>
             /\ ComparisonTruth(server, JoinComparison(memory.aliases, joins[i])) = "T"
             /\ Value(client, joins[i].args[1]) = Value(client, joins[i].args[2])
  BY JoinAgrees
<1>2. JoinIsMet(rewriting, columnNames, row) <=>
        \A i \in DOMAIN joins : Value(client, joins[i].args[1]) = Value(client, joins[i].args[2])
  <2>1. IsNamed(memory, body, ranges, client, row)
    <3>1. \A j \in DOMAIN body : IsColumn(body[j]) => HasColumn(memory, body[j])
      BY BodyIsRemembered
    <3> QED BY <3>1 DEF IsNamed
  <2>2. JoinsOf(rewriting, memory, ranges, joins)
    BY <1>1 DEF JoinsOf
  <2> QED BY <2>1, <2>2, JoinsAreMet
<1> QED BY <1>1, <1>2
================================================================================
