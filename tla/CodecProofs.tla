---------------------------- MODULE CodecProofs ----------------------------
(***************************************************************************)
(* Theorems about MessageCodec, for any texts, any number of columns and   *)
(* fields, any cut of the message and anything that follows it.            *)
(***************************************************************************)
EXTENDS MessageCodec, Flattening

-----------------------------------------------------------------------------
(* Sequences put one behind the other: where each of them ends.             *)

LaidOut(pieces, ends, all) ==
  /\ ends \in [0 .. Len(pieces) -> Nat]
  /\ ends[0] = 0 /\ ends[Len(pieces)] = Len(all)
  /\ \A i \in 1 .. Len(pieces) :
       /\ ends[i] = ends[i - 1] + Len(pieces[i]) /\ ends[i] <= Len(all)
       /\ \A k \in 1 .. Len(pieces[i]) : all[ends[i - 1] + k] = pieces[i][k]

LEMMA Flattened ==
  ASSUME NEW S, NEW pieces \in Seq(Seq(S))
  PROVE  /\ FlattenSeq(pieces) \in Seq(S)
         /\ \E ends : LaidOut(pieces, ends, FlattenSeq(pieces))
<1> DEFINE n == Len(pieces)
           all == FlattenSeq(pieces)
<1>1. n \in Nat /\ \A i \in 1 .. n : pieces[i] \in Seq(S)
  BY LenProperties, ElementOfSeq
<1>2. PICK upTo \in [0 .. n -> Seq(S)] : Accumulates(pieces, upTo) /\ all = upTo[n]
  BY FlattenGrows
<1> HIDE DEF all
<1>3. all \in Seq(S)
  BY <1>1, <1>2
<1> DEFINE ends == [i \in 0 .. n |-> Len(upTo[i])]
<1>4. ASSUME NEW i \in 1 .. n
      PROVE  /\ upTo[i - 1] \in Seq(S) /\ upTo[i] \in Seq(S) /\ pieces[i] \in Seq(S)
             /\ Len(upTo[i]) = Len(upTo[i - 1]) + Len(pieces[i])
             /\ \A k \in 1 .. Len(upTo[i - 1]) : upTo[i][k] = upTo[i - 1][k]
             /\ \A k \in 1 .. Len(pieces[i]) : upTo[i][Len(upTo[i - 1]) + k] = pieces[i][k]
             /\ Len(upTo[i]) \in Nat /\ Len(upTo[i - 1]) \in Nat /\ Len(pieces[i]) \in Nat
  <2> DEFINE before == upTo[i - 1]
             piece == pieces[i]
  <2>1. before \in Seq(S) /\ piece \in Seq(S) /\ upTo[i] \in Seq(S)
    <3>1. i - 1 \in 0 .. n /\ i \in 0 .. n
      BY <1>1
    <3> QED BY <1>1, <3>1
  <2>2. upTo[i] = before \o piece
    BY <1>2 DEF Accumulates
  <2> DEFINE lb == Len(before)
             lp == Len(piece)
             now == upTo[i]
  <2> HIDE DEF before, piece, now
  <2>3. now = before \o piece /\ now \in Seq(S)
    BY <2>1, <2>2 DEF now
  <2>4. /\ lb \in Nat /\ lp \in Nat /\ Len(now) = lb + lp
        /\ \A k \in 1 .. lb : now[k] = before[k]
        /\ \A k \in 1 .. lp : now[lb + k] = piece[k]
    BY <2>1, <2>3, Joined
  <2>5. Len(now) \in Nat
    <3> HIDE DEF lb, lp
    <3> QED BY <2>4
  <2> QED BY <2>1, <2>3, <2>4, <2>5 DEF before, piece, now
<1>5. ASSUME NEW j \in 1 .. n
      PROVE  /\ Len(upTo[j]) <= Len(all)
             /\ \A k \in 1 .. Len(upTo[j]) : all[k] = upTo[j][k]
  <2> DEFINE T == {i \in 0 .. n : i >= j =>
                     /\ Len(upTo[j]) <= Len(upTo[i])
                     /\ \A k \in 1 .. Len(upTo[j]) : upTo[i][k] = upTo[j][k]}
  <2>1. 0 \in T
    BY <1>1
  <2>2. ASSUME NEW i \in 1 .. n, i - 1 \in T
        PROVE  i \in T
    <3>1. CASE i < j
      BY <3>1
    <3>2. CASE i = j
      BY <3>2, <1>4
    <3>3. CASE i > j
      <4>1. /\ Len(upTo[j]) <= Len(upTo[i - 1])
            /\ \A k \in 1 .. Len(upTo[j]) : upTo[i - 1][k] = upTo[j][k]
        BY <2>2, <3>3
      <4>2. Len(upTo[j]) \in Nat
        BY <1>4
      <4> DEFINE l == Len(upTo[i - 1])
                 lj == Len(upTo[j])
                 lp == Len(pieces[i])
      <4>3. l \in Nat /\ lp \in Nat /\ lj \in Nat /\ lj <= l /\ Len(upTo[i]) = l + lp
        BY <1>4, <4>1, <4>2
      <4>4. lj <= Len(upTo[i])
        <5> HIDE DEF l, lj, lp
        <5> QED BY <4>3
      <4>5. ASSUME NEW k \in 1 .. lj PROVE upTo[i][k] = upTo[j][k]
        <5>1. k \in 1 .. l
          <6> HIDE DEF l, lj, lp
          <6> QED BY <4>3
        <5> QED BY <1>4, <4>1, <5>1
      <4> QED BY <4>4, <4>5
    <3> QED BY <3>1, <3>2, <3>3
  <2>3. \A i \in 0 .. n : i \in T
    <3> HIDE DEF T, n
    <3> QED BY <1>1, <2>1, <2>2, CountingUp
  <2>4. n \in T /\ n >= j
    BY <1>1, <2>3
  <2> QED BY <1>2, <2>4
<1>6. /\ ends \in [0 .. n -> Nat] /\ ends[0] = 0 /\ ends[n] = Len(all)
      /\ \A i \in 1 .. n : ends[i] = Len(upTo[i]) /\ ends[i - 1] = Len(upTo[i - 1])
  <2>1. \A i \in 0 .. n : Len(upTo[i]) \in Nat
    BY <1>1, LenProperties
  <2>2. Len(upTo[0]) = 0
    BY <1>2, EmptySeq DEF Accumulates
  <2> QED BY <1>1, <1>2, <2>1, <2>2
<1> HIDE DEF ends
<1>7. ASSUME NEW i \in 1 .. n
      PROVE  /\ ends[i] = ends[i - 1] + Len(pieces[i]) /\ ends[i] <= Len(all)
             /\ \A k \in 1 .. Len(pieces[i]) : all[ends[i - 1] + k] = pieces[i][k]
  <2>1. ends[i] = ends[i - 1] + Len(pieces[i]) /\ ends[i] <= Len(all)
    BY <1>4, <1>5, <1>6
  <2>2. ASSUME NEW k \in 1 .. Len(pieces[i])
        PROVE  all[ends[i - 1] + k] = pieces[i][k]
    <3> DEFINE l == Len(upTo[i - 1])
               lp == Len(pieces[i])
               at == l + k
    <3>1. l \in Nat /\ lp \in Nat /\ Len(upTo[i]) = l + lp /\ ends[i - 1] = l
      BY <1>4, <1>6
    <3>2. at \in 1 .. Len(upTo[i])
      <4>1. k \in 1 .. lp
        OBVIOUS
      <4> HIDE DEF l, lp
      <4> QED BY <3>1, <4>1
    <3>3. upTo[i][at] = pieces[i][k]
      BY <1>4
    <3>4. all[at] = upTo[i][at]
      <4> HIDE DEF at
      <4> QED BY <1>5, <3>2
    <3> QED BY <3>1, <3>3, <3>4
  <2> QED BY <2>1, <2>2
<1>8. LaidOut(pieces, ends, all)
  BY <1>6, <1>7 DEF LaidOut
<1> QED BY <1>3, <1>8 DEF all

-----------------------------------------------------------------------------
(* Validation of a part of a message, from the offset o of its body on.     *)

(* How long it is.                                                          *)
Sized(seq, n) == n = Len(seq)

(* bytes are a beginning of the message and of what follows.                *)
Begins(bytes, body) ==
  /\ Header <= Len(bytes)
  /\ \A k \in 1 .. Len(body) : Header + k <= Len(bytes) => bytes[Header + k] = body[k]

At(body, o) == Step("OK", Header + o, Len(body) - o)

(* The result of a validation that should come to o: more is needed exactly *)
(* as long as it is not there.                                              *)
Right(step, bytes, body, o) ==
  IF Len(bytes) < Header + o
    THEN step.result = "NeedMoreData" /\ step.at \in Header .. Len(bytes)
    ELSE step = At(body, o)

LEMMA AtAnOffset ==
  ASSUME NEW body, NEW bytes, NEW o
  PROVE  /\ At(body, o).result = "OK" /\ At(body, o).at = 5 + o
         /\ At(body, o).left = Len(body) - o
         /\ There(bytes, At(body, o)) = Len(bytes) - (5 + o)
BY DEF At, Step, There, Header

LEMMA MoreIsRight ==
  ASSUME NEW body \in Seq(Nat), NEW bytes \in Seq(Nat), NEW o \in Nat, NEW next \in Nat,
         5 + o <= Len(bytes), Len(bytes) < 5 + next
  PROVE  Right(NeedMore(At(body, o)), bytes, body, next)
<1> DEFINE n == Len(bytes)
<1>1. n \in Nat
  BY LenProperties
<1>2. NeedMore(At(body, o)).result = "NeedMoreData" /\ NeedMore(At(body, o)).at = 5 + o
  BY DEF NeedMore, At, Step, Header
<1>3. n < 5 + next /\ 5 + o \in 5 .. n
  <2>1. 5 + o <= n /\ n < 5 + next
    OBVIOUS
  <2> HIDE DEF n
  <2> QED BY <1>1, <2>1
<1> QED BY <1>2, <1>3 DEF Right, Header

LEMMA OnwardIsRight ==
  ASSUME NEW body \in Seq(Nat), NEW bytes \in Seq(Nat), NEW o \in Nat, NEW size \in Nat,
         NEW next, next = o + size, ~ (Len(bytes) < 5 + next)
  PROVE  Right(Advance(At(body, o), size), bytes, body, next)
<1> DEFINE l == Len(body)
<1>1. l \in Nat
  BY LenProperties
<1>2. Advance(At(body, o), size) = Step("OK", 5 + o + size, l - o - size)
  BY DEF Advance, At, Step, Header
<1>3. At(body, next) = Step("OK", 5 + next, l - next)
  BY DEF At, Header
<1>4. 5 + o + size = 5 + next /\ l - o - size = l - next
  <2> HIDE DEF l
  <2> QED BY <1>1
<1> QED BY <1>2, <1>3, <1>4 DEF Right, Header

LEMMA IntIsRight ==
  ASSUME NEW body \in Seq(Nat), NEW bytes \in Seq(Nat),
         NEW o \in Nat, NEW size \in Nat, NEW next, next = o + size,
         next <= Len(body), 5 + o <= Len(bytes)
  PROVE  Right(ValidateInt(size, bytes, At(body, o)), bytes, body, next)
<1> DEFINE n == Len(bytes)
           l == Len(body)
           step == At(body, o)
<1>1. n \in Nat /\ l \in Nat /\ next \in Nat /\ next <= l /\ 5 + o <= n
  BY LenProperties
<1>2. step.left = l - o /\ There(bytes, step) = n - (5 + o)
  BY AtAnOffset
<1> HIDE DEF n, l, step
<1>3. ~ (step.left < size) /\ step.left >= size
  BY <1>1, <1>2
<1>4. CASE n < 5 + next
  <2>1. There(bytes, step) < size
    BY <1>1, <1>2, <1>4
  <2>2. ValidateInt(size, bytes, step) = NeedMore(step)
    BY <1>3, <2>1 DEF ValidateInt
  <2> QED BY <1>1, <1>4, <2>2, MoreIsRight DEF n, step
<1>5. CASE ~ (n < 5 + next)
  <2>1. ~ (There(bytes, step) < size)
    BY <1>1, <1>2, <1>5
  <2>2. ValidateInt(size, bytes, step) = Advance(step, size)
    BY <1>3, <2>1 DEF ValidateInt
  <2> QED BY <1>1, <1>5, <2>2, OnwardIsRight DEF n, step
<1> QED BY <1>4, <1>5

(* A text of n bytes without a zero, and the zero that ends it.             *)
LEMMA StringIsRight ==
  ASSUME NEW body \in Seq(Nat), NEW bytes \in Seq(Nat), Begins(bytes, body),
         NEW o \in Nat, NEW size \in Nat, NEW next, next = o + size + 1,
         next <= Len(body), 5 + o <= Len(bytes),
         \A k \in 1 .. size : body[o + k] # 0, body[o + size + 1] = 0
  PROVE  Right(ValidateString(bytes, At(body, o)), bytes, body, next)
<1> DEFINE n == Len(bytes)
           l == Len(body)
           zeros == {i \in 5 + o .. n - 1 : bytes[i + 1] = 0}
<1>1. n \in Nat /\ l \in Nat /\ o + size + 1 <= l /\ 5 + o <= n
  BY LenProperties DEF Header
<1>2. \A k \in 1 .. l : 5 + k <= n => bytes[5 + k] = body[k]
  BY DEF Begins, Header
<1> HIDE DEF n, l
<1>3. At(body, o).at = 5 + o /\ At(body, o).left = l - o
  BY AtAnOffset DEF l
<1>4. There(bytes, At(body, o)) = n - (5 + o)
  BY AtAnOffset DEF n
<1>5. ASSUME NEW i \in zeros PROVE i >= 5 + o + size
  <2>1. CASE i < 5 + o + size
    <3> DEFINE k == i - 4 - o
    <3>1. k \in 1 .. size /\ o + k \in 1 .. l /\ 5 + (o + k) = i + 1 /\ i + 1 <= n
      BY <1>1, <2>1
    <3>2. bytes[i + 1] = body[o + k]
      <4> DEFINE j == o + k
      <4>1. j \in 1 .. l /\ 5 + j = i + 1 /\ i + 1 <= n
        BY <3>1
      <4> HIDE DEF j
      <4>2. bytes[5 + j] = body[j]
        BY <1>2, <4>1
      <4>3. bytes[i + 1] = body[j]
        BY <4>1, <4>2
      <4> QED BY <4>3 DEF j
    <3>3. body[o + k] # 0
      <4> HIDE DEF k
      <4> QED BY <3>1
    <3> QED BY <3>2, <3>3
  <2>2. i \in Int
    BY <1>1
  <2> QED BY <1>1, <2>1, <2>2
<1>6. CASE n < 5 + o + size + 1
  <2>1. zeros = {}
    BY <1>1, <1>5, <1>6
  <2>2. ValidateString(bytes, At(body, o)) = NeedMore(At(body, o))
    <3>1. {i \in At(body, o).at .. Len(bytes) - 1 : bytes[i + 1] = 0} = {}
      BY <1>3, <2>1 DEF n
    <3>2. ~ (At(body, o).left <= There(bytes, At(body, o)))
      BY <1>1, <1>3, <1>4, <1>6
    <3> QED BY <3>1, <3>2 DEF ValidateString
  <2>3. next \in Nat /\ n < 5 + next
    BY <1>1, <1>6
  <2> QED BY <1>1, <2>2, <2>3, MoreIsRight DEF n
<1>7. CASE ~ (n < 5 + o + size + 1)
  <2> DEFINE z == 5 + o + size
  <2>1. z \in zeros
    <3> DEFINE j == o + size + 1
    <3>1. j \in 1 .. l /\ 5 + j = z + 1 /\ z + 1 <= n /\ z \in 5 + o .. n - 1
      BY <1>1, <1>7
    <3>2. body[j] = 0
      OBVIOUS
    <3> HIDE DEF j, z
    <3>3. bytes[5 + j] = body[j]
      BY <1>2, <3>1
    <3> QED BY <3>1, <3>2, <3>3
  <2>2. Min(zeros) = z
    <3>1. z \in Int /\ \A i \in zeros : z <= i /\ i \in Int
      BY <1>1, <1>5
    <3> HIDE DEF zeros, z
    <3>2. \A x \in zeros : (\A y \in zeros : x <= y) => x = z
      BY <2>1, <3>1
    <3> QED BY <2>1, <3>1, <3>2 DEF Min
  <2>3. zeros = {i \in At(body, o).at .. Len(bytes) - 1 : bytes[i + 1] = 0}
    BY <1>3 DEF n
  <2>4. zeros # {} /\ ~ (z - At(body, o).at >= At(body, o).left)
    <3>1. z - (5 + o) = size /\ ~ (size >= l - o)
      BY <1>1
    <3> HIDE DEF zeros, z
    <3> QED BY <1>3, <2>1, <3>1
  <2>5. z - At(body, o).at + 1 = size + 1
    BY <1>1, <1>3
  <2>6. ValidateString(bytes, At(body, o)) = Advance(At(body, o), size + 1)
    <3> HIDE DEF zeros, z
    <3> QED BY <2>2, <2>3, <2>4, <2>5 DEF ValidateString
  <2>7. size + 1 \in Nat /\ next = o + (size + 1) /\ ~ (Len(bytes) < 5 + next)
    BY <1>1, <1>7 DEF n
  <2> QED BY <2>6, <2>7, OnwardIsRight
<1> QED BY <1>6, <1>7

LEMMA ColumnInBytes ==
  ASSUME NEW value \in Value
  PROVE  /\ ColumnBytes(value) \in Seq(Nat)
         /\ value = Null => Len(ColumnBytes(value)) = 4 /\ ColumnBytes(value)[1] = 255
         /\ value # Null => /\ value \in Seq(Nat) /\ Len(value) \in Nat
                            /\ Len(ColumnBytes(value)) = 4 + Len(value)
                            /\ ColumnBytes(value)[1] = 0
                            /\ ColumnBytes(value)[4] = Len(value)
                            /\ \A k \in 1 .. Len(value) : ColumnBytes(value)[4 + k] = value[k]
<1>1. CASE value = Null
  <2>1. ColumnBytes(value) = <<255, 255, 255, 255>>
    BY <1>1 DEF ColumnBytes, Int32
  <2> QED BY <1>1, <2>1
<1>2. CASE value # Null
  <2>1. value \in Seq(Nat)
    BY <1>2 DEF Value
  <2>2. Len(value) \in Nat
    BY <2>1, LenProperties
  <2> DEFINE size == Len(value)
             head == <<0, 0, 0, size>>
             all == ColumnBytes(value)
  <2>3. ColumnBytes(value) = head \o value
    BY <1>2, <2>2 DEF ColumnBytes, Int32
  <2>4. head \in Seq(Nat) /\ Len(head) = 4 /\ head[1] = 0 /\ head[4] = size
    BY <2>2
  <2>5. size = Len(value) /\ 4 = Len(head)
    OBVIOUS
  <2> HIDE DEF head, size, all
  <2>6. all = head \o value
    BY <2>3 DEF all
  <2> DEFINE four == Len(head)
             long == Len(value)
  <2>7. /\ all \in Seq(Nat) /\ Len(all) = four + long
        /\ \A k \in 1 .. four : all[k] = head[k]
        /\ \A k \in 1 .. long : all[four + k] = value[k]
    <3>1. head \in Seq(Nat) /\ value \in Seq(Nat) /\ all = head \o value
      BY <2>1, <2>6, <2>4
    <3> QED BY <3>1, Joined
  <2> HIDE DEF four, long
  <2>8. four = 4 /\ long = size
    BY <2>5 DEF four, long
  <2> QED BY <1>2, <2>1, <2>2, <2>4, <2>7, <2>8 DEF size, all
<1> QED BY <1>1, <1>2

(* A length, and as many bytes unless it is -1.                             *)
LEMMA VarByteNIsRight ==
  ASSUME NEW body \in Seq(Nat), NEW bytes \in Seq(Nat), Begins(bytes, body),
         NEW n \in Nat, NEW l \in Nat, Sized(bytes, n), Sized(body, l),
         NEW o \in Nat, NEW size \in Nat, NEW next \in Nat, next = o + size,
         next <= l, 5 + o <= n,
         \/ size = 4 /\ body[o + 1] = 255
         \/ size >= 4 /\ body[o + 1] = 0 /\ body[o + 4] = size - 4
  PROVE  Right(ValidateVarByteN(bytes, At(body, o)), bytes, body, next)
<1> DEFINE step == At(body, o)
           len == PeekInt32(bytes, step.at)
<1>1. /\ step.at = 5 + o /\ step.left = l - o /\ There(bytes, step) = n - (5 + o)
      /\ size >= 4
  <2>1. size >= 4
    OBVIOUS
  <2>2. step.at = 5 + o /\ step.left = Len(body) - o
        /\ There(bytes, step) = Len(bytes) - (5 + o)
    BY AtAnOffset
  <2>3. n = Len(bytes) /\ l = Len(body)
    BY DEF Sized
  <2> QED BY <2>1, <2>2, <2>3
<1>2. len = IF bytes[5 + o + 1] = 255 THEN -1 ELSE bytes[5 + o + 4]
  BY <1>1 DEF PeekInt32
<1> HIDE DEF step, len
<1>3. step.left >= 4 /\ step.left \notin 0 .. 3
  BY <1>1
<1>4. CASE n < 5 + o + 4
  <2>1. There(bytes, step) < 4 /\ n < 5 + next
    BY <1>1, <1>4
  <2>2. ValidateVarByteN(bytes, step) = NeedMore(step)
    BY <1>3, <2>1, Zenon DEF ValidateVarByteN
  <2> QED BY <2>1, <2>2, MoreIsRight DEF step, Sized
<1>5. CASE n >= 5 + o + 4
  <2>1. \A k \in 1 .. l : 5 + k <= n => bytes[5 + k] = body[k]
    BY DEF Begins, Header, Sized
  <2>2. /\ o + 1 \in 1 .. l /\ 5 + (o + 1) <= n /\ 5 + (o + 1) = 5 + o + 1
        /\ o + 4 \in 1 .. l /\ 5 + (o + 4) <= n /\ 5 + (o + 4) = 5 + o + 4
    BY <1>1, <1>5
  <2>3. bytes[5 + (o + 1)] = body[o + 1] /\ bytes[5 + (o + 4)] = body[o + 4]
    BY <2>1, <2>2
  <2>4. bytes[5 + o + 1] = body[o + 1] /\ bytes[5 + o + 4] = body[o + 4]
    BY <2>2, <2>3
  <2>5. (size = 4 /\ len = -1) \/ (size >= 4 /\ len = size - 4)
    <3>1. CASE size = 4 /\ body[o + 1] = 255
      <4>1. bytes[5 + o + 1] = 255
        BY <2>4, <3>1
      <4> QED BY <1>2, <3>1, <4>1
    <3>2. CASE size >= 4 /\ body[o + 1] = 0 /\ body[o + 4] = size - 4
      <4>1. bytes[5 + o + 1] = 0 /\ bytes[5 + o + 4] = size - 4
        BY <2>4, <3>2
      <4>2. len = bytes[5 + o + 4]
        BY <1>2, <4>1
      <4> QED BY <3>2, <4>1, <4>2
    <3> QED BY <3>1, <3>2
  <2>6. ~ (len > step.left) /\ ~ (There(bytes, step) < 4)
    BY <1>1, <1>5, <2>5
  <2>7. ValidateVarByteN(bytes, step) =
          CASE len > step.left -> Failed(step)
            [] len < 1 -> Advance(step, 4)
            [] OTHER -> IF There(bytes, step) < len + 4 THEN NeedMore(step)
                                                        ELSE Advance(step, len + 4)
    BY <1>3, <2>6 DEF ValidateVarByteN, len
  <2>8. CASE n < 5 + next
    <3>1. ~ (len < 1) /\ There(bytes, step) < len + 4
      BY <1>1, <1>5, <2>5, <2>8
    <3>2. ValidateVarByteN(bytes, step) = NeedMore(step)
      BY <2>6, <2>7, <3>1
    <3> QED BY <2>8, <3>2, MoreIsRight DEF step, Sized
  <2>9. CASE ~ (n < 5 + next)
    <3>1. ValidateVarByteN(bytes, step) = Advance(step, size)
      <4>1. CASE size = 4 /\ len = -1
        <5>1. len < 1
          BY <4>1
        <5> QED BY <2>6, <2>7, <4>1, <5>1
      <4>2. CASE len < 1
        <5>1. size = 4
          BY <2>5, <4>2
        <5> QED BY <2>6, <2>7, <4>2, <5>1
      <4>3. CASE ~ (len < 1) /\ len = size - 4
        <5>1. ~ (len < 1) /\ len + 4 = size /\ ~ (There(bytes, step) < len + 4)
          BY <1>1, <2>9, <4>3
        <5> QED BY <2>6, <2>7, <5>1
      <4> QED BY <2>5, <4>1, <4>2, <4>3
    <3> QED BY <2>9, <3>1, OnwardIsRight DEF step, Sized
  <2> QED BY <2>8, <2>9
<1> QED BY <1>4, <1>5

-----------------------------------------------------------------------------
(* Whatever the bytes are, a validation comes to no place behind them.      *)

StepsUpTo(n) == [result : {"OK", "NeedMoreData", "Failed"}, at : 0 .. n, left : Int]

LEMMA StopsInside ==
  ASSUME NEW n \in Nat, NEW step \in StepsUpTo(n)
  PROVE  NeedMore(step) \in StepsUpTo(n) /\ Failed(step) \in StepsUpTo(n)
BY DEF NeedMore, Failed, StepsUpTo

LEMMA AdvancesInside ==
  ASSUME NEW n \in Nat, NEW step \in StepsUpTo(n), NEW size \in Nat, step.at + size <= n
  PROVE  Advance(step, size) \in StepsUpTo(n)
BY DEF Advance, Step, StepsUpTo

LEMMA IntStaysInside ==
  ASSUME NEW bytes, NEW n \in Nat, Sized(bytes, n),
         NEW step \in StepsUpTo(n), NEW size \in Nat
  PROVE  ValidateInt(size, bytes, step) \in StepsUpTo(n)
<1>1. There(bytes, step) = n - step.at /\ step.at \in 0 .. n /\ step.left \in Int
  BY DEF There, Sized, StepsUpTo
<1>2. CASE step.left >= size /\ ~ (There(bytes, step) < size)
  <2>1. ValidateInt(size, bytes, step) = Advance(step, size)
    BY <1>1, <1>2 DEF ValidateInt
  <2>2. step.at + size <= n
    BY <1>1, <1>2
  <2> QED BY <2>1, <2>2, AdvancesInside
<1>3. CASE ~ (step.left >= size /\ ~ (There(bytes, step) < size))
  <2>1. ValidateInt(size, bytes, step) \in {NeedMore(step), Failed(step)}
    BY <1>1, <1>3 DEF ValidateInt
  <2> QED BY <2>1, StopsInside
<1> QED BY <1>2, <1>3

LEMMA StringStaysInside ==
  ASSUME NEW bytes, NEW n \in Nat, Sized(bytes, n), NEW step \in StepsUpTo(n)
  PROVE  ValidateString(bytes, step) \in StepsUpTo(n)
<1>1. step.at \in 0 .. n
  BY DEF StepsUpTo
<1> DEFINE zeros == {i \in step.at .. n - 1 : bytes[i + 1] = 0}
           size == Min(zeros) - step.at
<1>2. zeros = {i \in step.at .. Len(bytes) - 1 : bytes[i + 1] = 0}
  BY DEF Sized
<1>3. CASE zeros = {} \/ size >= step.left
  <2>1. ValidateString(bytes, step) \in {NeedMore(step), Failed(step)}
    BY <1>2, <1>3 DEF ValidateString
  <2> QED BY <2>1, StopsInside
<1>4. CASE zeros # {} /\ ~ (size >= step.left)
  <2>1. ValidateString(bytes, step) = Advance(step, size + 1)
    <3> HIDE DEF zeros
    <3> QED BY <1>2, <1>4 DEF ValidateString
  <2>2. Min(zeros) \in zeros
    <3>1. \E z \in zeros : \A y \in zeros : z <= y
      <4>1. zeros \subseteq Nat /\ zeros # {}
        BY <1>1, <1>4
      <4> HIDE DEF zeros
      <4> QED BY <4>1, Least
    <3> HIDE DEF zeros
    <3> QED BY <3>1 DEF Min
  <2>3. size + 1 \in Nat /\ step.at + (size + 1) <= n
    <3>1. Min(zeros) \in step.at .. n - 1
      BY <2>2
    <3> HIDE DEF zeros
    <3> QED BY <1>1, <3>1
  <2> HIDE DEF size
  <2> QED BY <2>1, <2>3, AdvancesInside
<1> QED BY <1>3, <1>4

LEMMA VarByteNStaysInside ==
  ASSUME NEW bytes \in Seq(Nat), NEW n \in Nat, Sized(bytes, n), NEW step \in StepsUpTo(n)
  PROVE  ValidateVarByteN(bytes, step) \in StepsUpTo(n)
<1>1. There(bytes, step) = n - step.at /\ step.at \in 0 .. n /\ step.left \in Int
  BY DEF There, Sized, StepsUpTo
<1>2. CASE step.left \in 0 .. 3 \/ There(bytes, step) < 4
  <2>1. CASE step.left \in 0 .. 3
    <3>1. ValidateVarByteN(bytes, step) = Failed(step)
      BY <2>1, Zenon DEF ValidateVarByteN
    <3> QED BY <3>1, StopsInside
  <2>2. CASE step.left \notin 0 .. 3 /\ There(bytes, step) < 4
    <3>1. ValidateVarByteN(bytes, step) = NeedMore(step)
      BY <2>2, Zenon DEF ValidateVarByteN
    <3> QED BY <3>1, StopsInside
  <2> QED BY <1>2, <2>1, <2>2
<1>3. CASE ~ (step.left \in 0 .. 3 \/ There(bytes, step) < 4)
  <2> DEFINE len == PeekInt32(bytes, step.at)
             at == step.at
  <2>1. at + 4 \in 1 .. n
    BY <1>1, <1>3
  <2>2. bytes[at + 4] \in Nat
    <3>1. at + 4 \in 1 .. Len(bytes)
      BY <2>1 DEF Sized
    <3> HIDE DEF at
    <3> QED BY <3>1, ElementOfSeq
  <2>3. len \in Int
    <3>1. len = IF bytes[at + 1] = 255 THEN -1 ELSE bytes[at + 4]
      BY DEF PeekInt32
    <3> HIDE DEF len, at
    <3> QED BY <2>2, <3>1
  <2> HIDE DEF len
  <2>4. ValidateVarByteN(bytes, step) =
          CASE len > step.left -> Failed(step)
            [] len < 1 -> Advance(step, 4)
            [] OTHER -> IF There(bytes, step) < len + 4 THEN NeedMore(step)
                                                        ELSE Advance(step, len + 4)
    BY <1>3 DEF ValidateVarByteN, len
  <2>5. CASE len > step.left
    <3>1. ValidateVarByteN(bytes, step) \in {Failed(step), Advance(step, 4)}
      BY <2>4, <2>5
    <3> QED BY <1>1, <1>3, <3>1, StopsInside, AdvancesInside
  <2>6. CASE ~ (len > step.left) /\ len < 1
    <3>1. ValidateVarByteN(bytes, step) = Advance(step, 4)
      BY <2>4, <2>6
    <3> QED BY <1>1, <1>3, <3>1, AdvancesInside
  <2>7. CASE ~ (len > step.left) /\ ~ (len < 1)
    <3>1. CASE There(bytes, step) < len + 4
      <4>1. ValidateVarByteN(bytes, step) = NeedMore(step)
        BY <2>4, <2>7, <3>1
      <4> QED BY <4>1, StopsInside
    <3>2. CASE ~ (There(bytes, step) < len + 4)
      <4>1. ValidateVarByteN(bytes, step) = Advance(step, len + 4)
        BY <2>4, <2>7, <3>2
      <4>2. len + 4 \in Nat /\ step.at + (len + 4) <= n
        BY <1>1, <2>3, <2>7, <3>2
      <4> QED BY <4>1, <4>2, AdvancesInside
    <3> QED BY <3>1, <3>2
  <2> QED BY <2>5, <2>6, <2>7
<1> QED BY <1>2, <1>3

LEMMA FieldStaysInside ==
  ASSUME NEW bytes, NEW n \in Nat, Sized(bytes, n), NEW step \in StepsUpTo(n)
  PROVE  ValidateField(bytes, step) \in StepsUpTo(n)
<1>1. ValidateInt(1, bytes, step) \in StepsUpTo(n)
  BY IntStaysInside
<1> QED BY <1>1, StringStaysInside DEF ValidateField, Then

-----------------------------------------------------------------------------
(* The loops of Array and Repeated, turn by turn.                           *)

Turned(after, bytes, count) ==
  \A i \in 1 .. count : after[i] = Then(after[i - 1], ValidateVarByteN, bytes)

LEMMA ArrayTurns ==
  ASSUME NEW bytes \in Seq(Nat), NEW n \in Nat, Sized(bytes, n),
         NEW step \in StepsUpTo(n), step.left >= 2, There(bytes, step) >= 2,
         NEW count, count = PeekInt16(bytes, step.at)
  PROVE  /\ count \in Nat
         /\ \E after : /\ after[0] = Advance(step, 2)
                       /\ Turned(after, bytes, count)
                       /\ ValidateArray(bytes, step) = after[count]
<1>1. There(bytes, step) = n - step.at /\ step.at \in 0 .. n
  BY DEF There, Sized, StepsUpTo
<1>2. count \in Nat
  <2> DEFINE at == step.at
  <2>1. at + 2 \in 1 .. n
    BY <1>1
  <2>2. bytes[at + 2] \in Nat
    <3>1. at + 2 \in 1 .. Len(bytes)
      BY <2>1 DEF Sized
    <3> HIDE DEF at
    <3> QED BY <3>1, ElementOfSeq
  <2> QED BY <2>2 DEF PeekInt16
<1> DEFINE X == StepsUpTo(n)
           start == Advance(step, 2)
           turn == [i \in 1 .. count |-> [s \in X |-> Then(s, ValidateVarByteN, bytes)]]
<1>3. start \in X
  BY <1>1, AdvancesInside
<1>4. turn \in [1 .. count -> [X -> X]]
  BY VarByteNStaysInside DEF Then
<1>5. PICK f \in [0 .. count -> X] : Runs(f, count, start, turn)
  <2> HIDE DEF X, start, turn
  <2> QED BY <1>2, <1>3, <1>4, LoopRuns
<1>6. f[0] = start /\ Turned(f, bytes, count)
  <2>1. \A i \in 1 .. count : i - 1 \in 0 .. count
    BY <1>2
  <2>2. \A i \in 1 .. count : f[i - 1] \in X
    BY <2>1
  <2> QED BY <1>5, <2>2 DEF Runs, Turned
<1> DEFINE after == CHOOSE g : g = [i \in 0 .. count |->
                      IF i = 0 THEN start ELSE Then(g[i - 1], ValidateVarByteN, bytes)]
<1>7. ValidateArray(bytes, step) = after[count]
  <2>1. ~ (step.left < 2) /\ ~ (There(bytes, step) < 2)
    BY <1>1 DEF StepsUpTo
  <2> QED BY <2>1 DEF ValidateArray, Loop
<1>8. \E g : g = [i \in 0 .. count |->
                    IF i = 0 THEN start ELSE Then(g[i - 1], ValidateVarByteN, bytes)]
  <2>1. f = [i \in 0 .. count |-> f[i]]
    OBVIOUS
  <2>2. \A i \in 0 .. count : f[i] = IF i = 0 THEN start
                                              ELSE Then(f[i - 1], ValidateVarByteN, bytes)
    <3>1. \A i \in 0 .. count : i = 0 \/ i \in 1 .. count
      BY <1>2
    <3> HIDE DEF start
    <3> QED BY <1>6, <3>1 DEF Turned
  <2>3. f = [i \in 0 .. count |->
               IF i = 0 THEN start ELSE Then(f[i - 1], ValidateVarByteN, bytes)]
    BY <2>1, <2>2
  <2> QED BY <2>3
<1>9. after = [i \in 0 .. count |->
                 IF i = 0 THEN start ELSE Then(after[i - 1], ValidateVarByteN, bytes)]
  BY <1>8
<1> HIDE DEF after, start
<1>10. after[0] = start /\ Turned(after, bytes, count)
  <2>1. \A i \in 1 .. count : i \in 0 .. count /\ i # 0
    BY <1>2
  <2>2. 0 \in 0 .. count
    BY <1>2
  <2> QED BY <1>9, <2>1, <2>2 DEF Turned
<1> QED BY <1>2, <1>7, <1>10 DEF start

Repeating(after, bytes, count) ==
  \A i \in 1 .. count :
    after[i] = IF ValidateField(bytes, after[i - 1]).result = "OK"
                 THEN ValidateField(bytes, after[i - 1]) ELSE after[i - 1]

LEMMA RepeatedTurns ==
  ASSUME NEW bytes, NEW n \in Nat, Sized(bytes, n),
         NEW step \in StepsUpTo(n), step.left \in Nat, ~ (There(bytes, step) < step.left)
  PROVE  \E after : /\ after[0] = step
                    /\ Repeating(after, bytes, step.left)
                    /\ ValidateRepeated(bytes, step) = after[step.left]
<1> DEFINE X == StepsUpTo(n)
           count == step.left
           Item(s) == IF ValidateField(bytes, s).result = "OK"
                        THEN ValidateField(bytes, s) ELSE s
           turn == [i \in 1 .. count |-> [s \in X |-> Item(s)]]
<1>1. count \in Nat
  OBVIOUS
<1>2. turn \in [1 .. count -> [X -> X]]
  BY FieldStaysInside
<1>3. PICK f \in [0 .. count -> X] : Runs(f, count, step, turn)
  <2>1. step \in X
    OBVIOUS
  <2> HIDE DEF X, turn, count
  <2> QED BY <1>1, <1>2, <2>1, LoopRuns
<1>4. f[0] = step /\ \A i \in 1 .. count : f[i] = Item(f[i - 1])
  <2>1. \A i \in 1 .. count : i - 1 \in 0 .. count
    BY <1>1
  <2>2. \A i \in 1 .. count : f[i - 1] \in X
    BY <2>1
  <2>3. f[0] = step /\ \A i \in 1 .. count : f[i] = turn[i][f[i - 1]]
    BY <1>3 DEF Runs
  <2> QED BY <2>2, <2>3
<1> DEFINE after == CHOOSE g : g = [i \in 0 .. count |->
                      IF i = 0 THEN step ELSE Item(g[i - 1])]
<1>5. ValidateRepeated(bytes, step) = after[count]
  BY DEF ValidateRepeated, Loop
<1> HIDE DEF count, Item
<1>6. \E g : g = [i \in 0 .. count |-> IF i = 0 THEN step ELSE Item(g[i - 1])]
  <2>1. f = [i \in 0 .. count |-> f[i]]
    OBVIOUS
  <2>2. \A i \in 0 .. count : f[i] = IF i = 0 THEN step ELSE Item(f[i - 1])
    <3>1. \A i \in 0 .. count : i = 0 \/ i \in 1 .. count
      BY <1>1
    <3> QED BY <1>4, <3>1
  <2>3. f = [i \in 0 .. count |-> IF i = 0 THEN step ELSE Item(f[i - 1])]
    BY <2>1, <2>2
  <2> QED BY <2>3
<1>7. after = [i \in 0 .. count |-> IF i = 0 THEN step ELSE Item(after[i - 1])]
  BY <1>6
<1> HIDE DEF after
<1>8. after[0] = step /\ \A i \in 1 .. count : after[i] = Item(after[i - 1])
  <2>1. \A i \in 1 .. count : i \in 0 .. count /\ i # 0
    BY <1>1
  <2>2. 0 \in 0 .. count
    BY <1>1
  <2> QED BY <1>7, <2>1, <2>2
<1>9. Repeating(after, bytes, step.left)
  BY <1>8 DEF Repeating, Item, count
<1> QED BY <1>5, <1>8, <1>9 DEF count

-----------------------------------------------------------------------------
(* Where the columns of a row and the fields of an error are.               *)

RowBody(columns) ==
  Int16(Len(columns)) \o FlattenSeq([i \in DOMAIN columns |-> ColumnBytes(columns[i])])

ColumnSize(columns, i) == Len(ColumnBytes(columns[i]))

RowIs(body, columns, ends) ==
  /\ ends \in [0 .. Len(columns) -> Nat]
  /\ ends[0] = 2 /\ ends[Len(columns)] = Len(body) /\ body[2] = Len(columns)
  /\ \A i \in 1 .. Len(columns) :
       /\ ends[i] = ends[i - 1] + ColumnSize(columns, i) /\ ends[i] <= Len(body)
       /\ \A k \in 1 .. ColumnSize(columns, i) :
            body[ends[i - 1] + k] = ColumnBytes(columns[i])[k]

LEMMA RowIsLaidOut ==
  ASSUME NEW columns \in Seq(Value)
  PROVE  /\ RowBody(columns) \in Seq(Nat)
         /\ \E ends : RowIs(RowBody(columns), columns, ends)
<1> DEFINE count == Len(columns)
           pieces == [i \in DOMAIN columns |-> ColumnBytes(columns[i])]
           flat == FlattenSeq(pieces)
           body == RowBody(columns)
           head == Int16(count)
<1>1. /\ count \in Nat /\ DOMAIN columns = 1 .. count
      /\ \A i \in 1 .. count : columns[i] \in Value
  BY LenProperties, ElementOfSeq
<1>2. pieces \in [1 .. count -> Seq(Nat)]
  BY <1>1, ColumnInBytes
<1>3. pieces \in Seq(Seq(Nat)) /\ Len(pieces) = count
  <2>1. pieces \in Seq(Seq(Nat))
    BY <1>1, <1>2, SeqDef
  <2>2. DOMAIN pieces = 1 .. count
    BY <1>2
  <2> HIDE DEF pieces, count
  <2> QED BY <1>1, <2>1, <2>2, LenProperties
<1>4. \A i \in 1 .. count : pieces[i] = ColumnBytes(columns[i])
  BY <1>1
<1> HIDE DEF pieces
<1>5. flat \in Seq(Nat)
  BY <1>3, Flattened
<1>6. PICK before : LaidOut(pieces, before, flat)
  BY <1>3, Flattened
<1>7. head \in Seq(Nat) /\ Len(head) = 2 /\ head[2] = count
  BY <1>1 DEF Int16
<1>8. body = head \o flat
  BY DEF RowBody, pieces
<1> DEFINE two == Len(head)
           size == Len(flat)
<1> HIDE DEF flat, body, head
<1>9. /\ body \in Seq(Nat) /\ two \in Nat /\ size \in Nat /\ Len(body) = two + size
      /\ \A k \in 1 .. two : body[k] = head[k]
      /\ \A k \in 1 .. size : body[two + k] = flat[k]
  <2>1. head \in Seq(Nat)
    BY <1>7
  <2> QED BY <1>5, <1>8, <2>1, Joined
<1>10. two = 2
  BY <1>7
<1>11. /\ before \in [0 .. count -> Nat] /\ before[0] = 0 /\ before[count] = size
       /\ \A i \in 1 .. count :
            /\ before[i] = before[i - 1] + ColumnSize(columns, i) /\ before[i] <= size
            /\ \A k \in 1 .. ColumnSize(columns, i) :
                 flat[before[i - 1] + k] = ColumnBytes(columns[i])[k]
            /\ ColumnSize(columns, i) \in Nat
  <2>1. /\ before \in [0 .. count -> Nat] /\ before[0] = 0 /\ before[count] = size
        /\ \A i \in 1 .. count :
             /\ before[i] = before[i - 1] + Len(pieces[i]) /\ before[i] <= size
             /\ \A k \in 1 .. Len(pieces[i]) : flat[before[i - 1] + k] = pieces[i][k]
    BY <1>3, <1>6 DEF LaidOut
  <2>2. \A i \in 1 .. count : ColumnSize(columns, i) \in Nat
    BY <1>1, ColumnInBytes, LenProperties DEF ColumnSize
  <2> HIDE DEF count, size
  <2> QED BY <1>4, <2>1, <2>2 DEF ColumnSize
<1> DEFINE ends == [i \in 0 .. count |-> 2 + before[i]]
<1> HIDE DEF two, size
<1>12. ends \in [0 .. count -> Nat] /\ ends[0] = 2 /\ ends[count] = Len(body)
  BY <1>1, <1>9, <1>10, <1>11
<1>13. body[2] = count
  BY <1>7, <1>9, <1>10
<1>14. \A i \in 1 .. count : /\ ends[i] = 2 + before[i] /\ ends[i - 1] = 2 + before[i - 1]
                             /\ before[i] \in Nat /\ before[i - 1] \in Nat
  <2>1. before \in [0 .. count -> Nat]
    BY <1>11
  <2>2. \A i \in 1 .. count : i \in 0 .. count /\ i - 1 \in 0 .. count
    BY <1>1
  <2> HIDE DEF count
  <2>3. \A i \in 0 .. count : ends[i] = 2 + before[i] /\ before[i] \in Nat
    BY <2>1
  <2> HIDE DEF ends
  <2> QED BY <2>2, <2>3
<1> HIDE DEF ends
<1>15. ASSUME NEW i \in 1 .. count
       PROVE  /\ ends[i] = ends[i - 1] + ColumnSize(columns, i) /\ ends[i] <= Len(body)
              /\ \A k \in 1 .. ColumnSize(columns, i) :
                   body[ends[i - 1] + k] = ColumnBytes(columns[i])[k]
  <2> DEFINE s == ColumnSize(columns, i)
             b == before[i - 1]
  <2>1. /\ s \in Nat /\ b \in Nat /\ before[i] = b + s /\ before[i] <= size
        /\ ends[i] = 2 + before[i] /\ ends[i - 1] = 2 + b
    BY <1>11, <1>14
  <2>2. \A k \in 1 .. s : flat[b + k] = ColumnBytes(columns[i])[k]
    BY <1>11
  <2>3. \A k \in 1 .. size : body[2 + k] = flat[k]
    BY <1>9, <1>10
  <2>4. Len(body) = 2 + size
    BY <1>9, <1>10
  <2> HIDE DEF s, b
  <2>5. ASSUME NEW k \in 1 .. s PROVE body[ends[i - 1] + k] = ColumnBytes(columns[i])[k]
    <3> DEFINE j == b + k
    <3>1. j \in 1 .. size /\ ends[i - 1] + k = 2 + j
      BY <1>9, <2>1
    <3>2. flat[j] = ColumnBytes(columns[i])[k]
      BY <2>2
    <3> HIDE DEF j
    <3> QED BY <2>3, <3>1, <3>2
  <2>6. ends[i] = ends[i - 1] + s /\ ends[i] <= Len(body)
    BY <1>9, <2>1, <2>4
  <2> QED BY <2>5, <2>6 DEF s
<1>16. RowIs(body, columns, ends)
  BY <1>12, <1>13, <1>15 DEF RowIs
<1> QED BY <1>9, <1>16 DEF body


ErrorBody(fields) ==
  FlattenSeq([i \in DOMAIN fields |-> FieldBytes(fields[i])]) \o <<0>>

FieldSize(fields, i) == Len(fields[i].text) + 2

LEMMA FieldInBytes ==
  ASSUME NEW field \in ErrorField, NEW size, Sized(field.text, size)
  PROVE  /\ size \in Nat /\ FieldBytes(field) \in Seq(Nat) /\ Sized(FieldBytes(field), size + 2)
         /\ FieldBytes(field)[1] = field.code /\ field.code # 0 /\ field.code \in Nat
         /\ FieldBytes(field)[size + 2] = 0
         /\ \A k \in 1 .. size : /\ FieldBytes(field)[k + 1] = field.text[k]
                                 /\ field.text[k] # 0
<1> DEFINE code == field.code
           text == field.text
           head == <<code>>
           front == head \o text
           end == <<0>>
           all == FieldBytes(field)
<1>1. code \in Nat /\ code # 0 /\ text \in Seq(Nat \ {0})
  BY DEF ErrorField, Text
<1>2. text \in Seq(Nat) /\ \A k \in 1 .. Len(text) : text[k] # 0
  <2> HIDE DEF text
  <2>1. text \in [1 .. Len(text) -> Nat \ {0}] /\ Len(text) \in Nat
    BY <1>1, LenProperties
  <2>2. text \in [1 .. Len(text) -> Nat]
    BY <2>1
  <2> QED BY <2>1, <2>2, SeqDef
<1>3. head \in Seq(Nat) /\ Len(head) = 1 /\ head[1] = code
  BY <1>1
<1>4. end \in Seq(Nat) /\ Len(end) = 1 /\ end[1] = 0
  OBVIOUS
<1>5. all = front \o end
  BY DEF FieldBytes
<1> HIDE DEF code, text, head, front, end, all
<1>6. front = head \o text
  BY DEF front
<1> DEFINE one == Len(head)
           long == Len(text)
<1>7. /\ front \in Seq(Nat) /\ Len(front) = one + long /\ one \in Nat /\ long \in Nat
      /\ \A k \in 1 .. one : front[k] = head[k]
      /\ \A k \in 1 .. long : front[one + k] = text[k]
  <2>1. head \in Seq(Nat) /\ text \in Seq(Nat)
    BY <1>2, <1>3
  <2> QED BY <1>6, <2>1, Joined
<1> DEFINE most == Len(front)
           last == Len(end)
<1>8. /\ all \in Seq(Nat) /\ Len(all) = most + last /\ most \in Nat /\ last \in Nat
      /\ \A k \in 1 .. most : all[k] = front[k]
      /\ \A k \in 1 .. last : all[most + k] = end[k]
  <2>1. front \in Seq(Nat) /\ end \in Seq(Nat)
    BY <1>4, <1>7
  <2> HIDE DEF one, long
  <2> QED BY <1>5, <2>1, Joined
<1>9. one = 1 /\ last = 1 /\ long = size /\ most = 1 + size /\ size \in Nat
  <2>1. most = one + long
    BY <1>7
  <2>2. one = 1 /\ last = 1 /\ long = size
    BY <1>3, <1>4 DEF Sized, text
  <2> HIDE DEF one, last, long, most
  <2> QED BY <1>7, <2>1, <2>2
<1>10. \A k \in 1 .. size : text[k] # 0
  BY <1>2, <1>9
<1> HIDE DEF one, last, long, most
<1>11. 1 \in 1 .. most /\ all[1] = code
  BY <1>3, <1>7, <1>8, <1>9
<1>12. all[size + 2] = 0
  <2>1. most + 1 = size + 2 /\ 1 \in 1 .. last
    BY <1>9
  <2>2. all[most + 1] = end[1]
    BY <1>8, <2>1
  <2> QED BY <1>4, <2>1, <2>2
<1>13. ASSUME NEW k \in 1 .. size
       PROVE  all[k + 1] = text[k]
  <2>1. 1 + k \in 1 .. most /\ 1 + k = k + 1
    BY <1>9
  <2>2. front[1 + k] = text[k]
    BY <1>7, <1>9
  <2> QED BY <1>8, <2>1, <2>2
<1>14. Sized(all, size + 2)
  <2>1. Len(all) = most + last
    BY <1>8
  <2>2. most + last = size + 2
    BY <1>9
  <2> QED BY <2>1, <2>2 DEF Sized
<1> QED BY <1>1, <1>8, <1>9, <1>10, <1>11, <1>12, <1>13, <1>14 DEF code, text, all

ErrorIs(body, fields, ends) ==
  /\ ends \in [0 .. Len(fields) -> Nat]
  /\ ends[0] = 0 /\ Sized(body, ends[Len(fields)] + 1)
  /\ body[ends[Len(fields)] + 1] = 0
  /\ \A i \in 1 .. Len(fields) :
       /\ ends[i] = ends[i - 1] + FieldSize(fields, i) /\ ends[i] <= ends[Len(fields)]
       /\ \A k \in 1 .. FieldSize(fields, i) :
            body[ends[i - 1] + k] = FieldBytes(fields[i])[k]

LEMMA ErrorIsLaidOut ==
  ASSUME NEW fields \in Seq(ErrorField)
  PROVE  /\ ErrorBody(fields) \in Seq(Nat)
         /\ \E ends : ErrorIs(ErrorBody(fields), fields, ends)
<1> DEFINE count == Len(fields)
           pieces == [i \in DOMAIN fields |-> FieldBytes(fields[i])]
           flat == FlattenSeq(pieces)
           body == ErrorBody(fields)
           end == <<0>>
<1>1. /\ count \in Nat /\ DOMAIN fields = 1 .. count
      /\ \A i \in 1 .. count : fields[i] \in ErrorField
  BY LenProperties, ElementOfSeq
<1>2. \A i \in 1 .. count : /\ FieldBytes(fields[i]) \in Seq(Nat)
                            /\ Len(FieldBytes(fields[i])) = FieldSize(fields, i)
                            /\ FieldSize(fields, i) \in Nat
  <2> SUFFICES ASSUME NEW i \in 1 .. count
               PROVE  /\ FieldBytes(fields[i]) \in Seq(Nat)
                      /\ Len(FieldBytes(fields[i])) = FieldSize(fields, i)
                      /\ FieldSize(fields, i) \in Nat
    OBVIOUS
  <2> DEFINE size == Len(fields[i].text)
  <2>1. Sized(fields[i].text, size) /\ fields[i] \in ErrorField
    BY <1>1 DEF Sized
  <2> HIDE DEF size
  <2>2. size \in Nat /\ FieldBytes(fields[i]) \in Seq(Nat) /\ Sized(FieldBytes(fields[i]), size + 2)
    BY <2>1, FieldInBytes
  <2>3. FieldSize(fields, i) = size + 2
    BY DEF FieldSize, size
  <2>4. Len(FieldBytes(fields[i])) = size + 2
    BY <2>2 DEF Sized
  <2> QED BY <2>2, <2>3, <2>4
<1>3. pieces \in Seq(Seq(Nat)) /\ Len(pieces) = count
  <2>1. pieces \in [1 .. count -> Seq(Nat)]
    BY <1>1, <1>2
  <2>2. pieces \in Seq(Seq(Nat))
    BY <1>1, <2>1, SeqDef
  <2>3. DOMAIN pieces = 1 .. count
    BY <2>1
  <2> HIDE DEF pieces, count
  <2> QED BY <1>1, <2>2, <2>3, LenProperties
<1>4. \A i \in 1 .. count : pieces[i] = FieldBytes(fields[i])
  BY <1>1
<1> HIDE DEF pieces
<1>5. flat \in Seq(Nat)
  BY <1>3, Flattened
<1>6. PICK ends : LaidOut(pieces, ends, flat)
  BY <1>3, Flattened
<1>7. end \in Seq(Nat) /\ Len(end) = 1 /\ end[1] = 0
  OBVIOUS
<1>8. body = flat \o end
  BY DEF ErrorBody, pieces
<1> DEFINE one == Len(end)
           size == Len(flat)
<1> HIDE DEF flat, body, end
<1>9. /\ body \in Seq(Nat) /\ one \in Nat /\ size \in Nat /\ Len(body) = size + one
      /\ \A k \in 1 .. size : body[k] = flat[k]
      /\ \A k \in 1 .. one : body[size + k] = end[k]
  <2>1. end \in Seq(Nat)
    BY <1>7
  <2> QED BY <1>5, <1>8, <2>1, Joined
<1>10. one = 1
  BY <1>7
<1>11. /\ ends \in [0 .. count -> Nat] /\ ends[0] = 0 /\ ends[count] = size
       /\ \A i \in 1 .. count :
            /\ ends[i] = ends[i - 1] + FieldSize(fields, i) /\ ends[i] <= size
            /\ \A k \in 1 .. FieldSize(fields, i) :
                 flat[ends[i - 1] + k] = FieldBytes(fields[i])[k]
            /\ FieldSize(fields, i) \in Nat
  <2>1. /\ ends \in [0 .. count -> Nat] /\ ends[0] = 0 /\ ends[count] = size
        /\ \A i \in 1 .. count :
             /\ ends[i] = ends[i - 1] + Len(pieces[i]) /\ ends[i] <= size
             /\ \A k \in 1 .. Len(pieces[i]) : flat[ends[i - 1] + k] = pieces[i][k]
    BY <1>3, <1>6 DEF LaidOut
  <2>2. \A i \in 1 .. count : Len(pieces[i]) = FieldSize(fields, i)
    BY <1>2, <1>4
  <2> HIDE DEF count, size
  <2> QED BY <1>2, <1>4, <2>1, <2>2
<1>12. \A i \in 1 .. count : ends[i - 1] \in Nat
  <2>1. \A i \in 1 .. count : i - 1 \in 0 .. count
    BY <1>1
  <2> HIDE DEF count, size
  <2> QED BY <1>11, <2>1
<1>13. Sized(body, size + 1) /\ body[size + 1] = 0
  <2>1. 1 \in 1 .. one
    BY <1>10
  <2>2. body[size + 1] = 0
    BY <1>7, <1>9, <2>1
  <2>3. Len(body) = size + 1
    BY <1>9, <1>10
  <2> QED BY <2>2, <2>3 DEF Sized
<1>14. ASSUME NEW i \in 1 .. count, NEW k \in 1 .. FieldSize(fields, i)
       PROVE  body[ends[i - 1] + k] = FieldBytes(fields[i])[k]
  <2> DEFINE j == ends[i - 1] + k
             s == FieldSize(fields, i)
             b == ends[i - 1]
  <2>1. s \in Nat /\ b \in Nat /\ b + s <= size /\ size \in Nat
    BY <1>9, <1>11, <1>12
  <2>2. flat[j] = FieldBytes(fields[i])[k]
    BY <1>11
  <2>3. k \in 1 .. s /\ j = b + k
    OBVIOUS
  <2> HIDE DEF j, s, b, size
  <2>4. j \in 1 .. size
    BY <2>1, <2>3
  <2>5. body[j] = flat[j]
    BY <1>9, <2>4
  <2> QED BY <2>2, <2>5 DEF j
<1> HIDE DEF size
<1>15. ErrorIs(body, fields, ends)
  <2>1. ends \in [0 .. Len(fields) -> Nat] /\ ends[0] = 0
    BY <1>11
  <2>2. ends[Len(fields)] = size
    BY <1>11
  <2>3. \A i \in 1 .. Len(fields) :
             ends[i] = ends[i - 1] + FieldSize(fields, i) /\ ends[i] <= size
    BY <1>11
  <2>4. \A i \in 1 .. Len(fields) : \A k \in 1 .. FieldSize(fields, i) :
            body[ends[i - 1] + k] = FieldBytes(fields[i])[k]
    BY <1>14
  <2> HIDE DEF count
  <2> QED BY <1>13, <2>1, <2>2, <2>3, <2>4 DEF ErrorIs
<1> QED BY <1>9, <1>15 DEF body
-----------------------------------------------------------------------------
(* A message is valid exactly when it is there as a whole.                  *)

LEMMA RowIsRight ==
  ASSUME NEW columns \in Seq(Value), NEW body, body = RowBody(columns),
         NEW bytes \in Seq(Nat), Begins(bytes, body),
         NEW n \in Nat, NEW l \in Nat, Sized(bytes, n), Sized(body, l), 5 <= n
  PROVE  Right(ValidateArray(bytes, At(body, 0)), bytes, body, l)
<1> DEFINE count == Len(columns)
           step == At(body, 0)
<1>1. body \in Seq(Nat)
  BY RowIsLaidOut
<1>2. PICK ends : RowIs(body, columns, ends)
  BY RowIsLaidOut
<1>3. count \in Nat /\ \A i \in 1 .. count : columns[i] \in Value
  BY LenProperties, ElementOfSeq
<1>4. \A i \in 1 .. count : ColumnSize(columns, i) \in Nat
  BY <1>3, ColumnInBytes, LenProperties DEF ColumnSize
<1>5. /\ ends \in [0 .. count -> Nat] /\ ends[0] = 2 /\ ends[count] = l /\ body[2] = count
      /\ \A i \in 1 .. count :
           /\ ends[i] = ends[i - 1] + ColumnSize(columns, i) /\ ends[i] <= l
           /\ \A k \in 1 .. ColumnSize(columns, i) :
                body[ends[i - 1] + k] = ColumnBytes(columns[i])[k]
  <2>1. l = Len(body)
    BY DEF Sized
  <2>2. /\ ends \in [0 .. count -> Nat] /\ ends[0] = 2 /\ ends[count] = Len(body)
        /\ body[2] = count
        /\ \A i \in 1 .. count :
             /\ ends[i] = ends[i - 1] + ColumnSize(columns, i) /\ ends[i] <= Len(body)
             /\ \A k \in 1 .. ColumnSize(columns, i) :
                  body[ends[i - 1] + k] = ColumnBytes(columns[i])[k]
    BY <1>2, Zenon DEF RowIs, count
  <2> QED BY <2>1, <2>2, Zenon
<1> HIDE DEF count
<1>6. \A i \in 1 .. count : ends[i] \in Nat /\ ends[i - 1] \in Nat
  <2>1. \A i \in 1 .. count : i \in 0 .. count /\ i - 1 \in 0 .. count
    BY <1>3
  <2> QED BY <1>5, <2>1
<1>7. l >= 2
  <2>1. CASE count = 0
    BY <1>5, <2>1
  <2>2. CASE count # 0
    <3>1. 1 \in 1 .. count
      BY <1>3, <2>2
    <3>2. ends[1] = ends[1 - 1] + ColumnSize(columns, 1) /\ ends[1] <= l
      BY <1>5, <3>1
    <3>3. ends[1] = 2 + ColumnSize(columns, 1)
      BY <1>5, <3>2, 1 - 1 = 0
    <3> QED BY <1>4, <3>1, <3>2, <3>3
  <2> QED BY <2>1, <2>2
<1>8. step.result = "OK" /\ step.at = 5 /\ step.left = l /\ There(bytes, step) = n - 5
  <2>1. step.result = "OK" /\ step.at = 5 + 0 /\ step.left = Len(body) - 0
        /\ There(bytes, step) = Len(bytes) - (5 + 0)
    BY AtAnOffset
  <2>2. n = Len(bytes) /\ l = Len(body)
    BY DEF Sized
  <2> HIDE DEF step
  <2> QED BY <2>1, <2>2
<1>9. step \in StepsUpTo(n)
  <2>1. 5 \in 0 .. n /\ l \in Int
    OBVIOUS
  <2>2. step = [result |-> "OK", at |-> 5, left |-> l]
    <3>1. step = [result |-> "OK", at |-> 5 + 0, left |-> l - 0]
      BY DEF At, Step, Header, Sized
    <3> HIDE DEF step
    <3> QED BY <3>1
  <2> QED BY <2>1, <2>2 DEF StepsUpTo
<1> HIDE DEF step
<1>10. CASE n < 7
  <2>1. ValidateArray(bytes, step) = NeedMore(step)
    <3>1. There(bytes, step) < 2 /\ step.left >= 2 /\ ~ (step.left < 2)
      BY <1>7, <1>8, <1>10
    <3> QED BY <3>1 DEF ValidateArray
  <2>2. 5 + 0 <= Len(bytes) /\ Len(bytes) < 5 + l
    <3>1. 5 + 0 <= n /\ n < 5 + l
      BY <1>7, <1>10
    <3> QED BY <3>1 DEF Sized
  <2> QED BY <1>1, <2>1, <2>2, MoreIsRight DEF step
<1>11. CASE n >= 7
  <2>1. PeekInt16(bytes, step.at) = count
    <3>1. \A k \in 1 .. l : 5 + k <= n => bytes[5 + k] = body[k]
      BY DEF Begins, Header, Sized
    <3>2. 2 \in 1 .. l /\ 5 + 2 <= n
      BY <1>7, <1>11
    <3>3. bytes[5 + 2] = count
      BY <1>5, <3>1, <3>2
    <3> QED BY <1>8, <3>3 DEF PeekInt16
  <2>2. PICK after : /\ after[0] = Advance(step, 2)
                     /\ Turned(after, bytes, count)
                     /\ ValidateArray(bytes, step) = after[count]
    <3>1. step.left >= 2 /\ There(bytes, step) >= 2
      BY <1>7, <1>8, <1>11
    <3> QED BY <1>9, <2>1, <3>1, ArrayTurns
  <2> DEFINE T == {i \in 0 .. count : Right(after[i], bytes, body, ends[i])}
  <2>3. 0 \in T
    <3>1. 2 = 0 + 2 /\ ~ (n < 5 + 2)
      BY <1>11
    <3>2. ~ (Len(bytes) < 5 + 2)
      BY <3>1 DEF Sized
    <3>3. Right(Advance(step, 2), bytes, body, 2)
      BY <1>1, <3>1, <3>2, OnwardIsRight DEF step
    <3>4. 0 \in 0 .. count
      BY <1>3
    <3> QED BY <1>5, <2>2, <3>3, <3>4
  <2>4. ASSUME NEW i \in 1 .. count, i - 1 \in T
        PROVE  i \in T
    <3> DEFINE o == ends[i - 1]
               next == ends[i]
               size == ColumnSize(columns, i)
               value == columns[i]
    <3>1. o \in Nat /\ next \in Nat /\ size \in Nat /\ next = o + size /\ next <= l
      BY <1>4, <1>5, <1>6
    <3>2. Right(after[i - 1], bytes, body, o)
      BY <2>4
    <3>3. after[i] = Then(after[i - 1], ValidateVarByteN, bytes)
      BY <2>2 DEF Turned
    <3>4. \A k \in 1 .. size : body[o + k] = ColumnBytes(value)[k]
      BY <1>5
    <3>5. Len(ColumnBytes(value)) = size /\ value \in Value
      BY <1>3 DEF ColumnSize
    <3> HIDE DEF o, next, size, value
    <3>6. \/ size = 4 /\ body[o + 1] = 255
          \/ size >= 4 /\ body[o + 1] = 0 /\ body[o + 4] = size - 4
      <4>1. CASE value = Null
        <5>1. size = 4 /\ ColumnBytes(value)[1] = 255
          BY <3>5, <4>1, ColumnInBytes
        <5>2. 1 \in 1 .. size
          BY <5>1
        <5> QED BY <3>4, <5>1, <5>2
      <4>2. CASE value # Null
        <5> DEFINE long == Len(value)
        <5>1. /\ long \in Nat /\ size = 4 + long
              /\ ColumnBytes(value)[1] = 0 /\ ColumnBytes(value)[4] = long
          BY <3>5, <4>2, ColumnInBytes
        <5> HIDE DEF long
        <5>2. 1 \in 1 .. size /\ 4 \in 1 .. size /\ size >= 4 /\ long = size - 4
          BY <5>1
        <5>3. body[o + 1] = 0 /\ body[o + 4] = long
          BY <3>4, <5>1, <5>2
        <5> QED BY <5>2, <5>3
      <4> QED BY <4>1, <4>2
    <3>7. CASE n < 5 + o
      <4>1. n < 5 + next
        BY <3>1, <3>7
      <4>2. Len(bytes) < 5 + o /\ Len(bytes) < 5 + next
        BY <3>7, <4>1 DEF Sized
      <4>3. after[i - 1].result = "NeedMoreData" /\ after[i - 1].at \in 5 .. Len(bytes)
        BY <3>2, <4>2 DEF Right, Header
      <4>4. after[i] = after[i - 1]
        BY <3>3, <4>3 DEF Then
      <4>5. Right(after[i], bytes, body, next)
        BY <4>2, <4>3, <4>4 DEF Right, Header
      <4> QED BY <4>5 DEF next
    <3>8. CASE ~ (n < 5 + o)
      <4>1. ~ (Len(bytes) < 5 + o)
        BY <3>8 DEF Sized
      <4>2. after[i - 1] = At(body, o)
        BY <3>2, <4>1 DEF Right, Header
      <4>3. At(body, o).result = "OK"
        BY AtAnOffset
      <4>4. after[i] = ValidateVarByteN(bytes, At(body, o))
        BY <3>3, <4>2, <4>3 DEF Then
      <4>5. 5 + o <= n
        BY <3>1, <3>8
      <4>6. Right(ValidateVarByteN(bytes, At(body, o)), bytes, body, next)
        BY <1>1, <3>1, <3>6, <4>5, VarByteNIsRight
      <4>7. Right(after[i], bytes, body, next)
        BY <4>4, <4>6
      <4> QED BY <4>7 DEF next
    <3> QED BY <3>7, <3>8
  <2>5. \A i \in 0 .. count : i \in T
    <3> HIDE DEF T
    <3> QED BY <1>3, <2>3, <2>4, CountingUp
  <2>6. count \in 0 .. count
    BY <1>3
  <2>7. Right(after[count], bytes, body, ends[count])
    BY <2>5, <2>6
  <2> QED BY <1>5, <2>2, <2>7 DEF step
<1>12. n < 7 \/ n >= 7
  OBVIOUS
<1> QED BY <1>10, <1>11, <1>12

(* A field that is there is gone over,                                      *)
IsField(body, o, size) ==
  body[o + 1 + size + 1] = 0 /\ \A k \in 1 .. size : body[o + 1 + k] # 0

LEMMA FieldIsRight ==
  ASSUME NEW body \in Seq(Nat), NEW bytes \in Seq(Nat), Begins(bytes, body),
         NEW n \in Nat, NEW l \in Nat, Sized(bytes, n), Sized(body, l), 5 + l <= n,
         NEW o \in Nat, NEW size \in Nat, NEW next \in Nat, next = o + size + 2, next <= l,
         IsField(body, o, size)
  PROVE  ValidateField(bytes, At(body, o)) = At(body, next)
<1> DEFINE first == o + 1
<1>1. first \in Nat /\ first <= l /\ ~ (n < 5 + first) /\ ~ (n < 5 + next)
      /\ 5 + o <= n /\ 5 + first <= n /\ next = first + size + 1
  OBVIOUS
<1>2. n = Len(bytes) /\ l = Len(body)
  BY DEF Sized
<1>3. \A k \in 1 .. size : body[first + k] # 0
  BY DEF IsField
<1>4. body[first + size + 1] = 0 /\ first = o + 1 /\ 1 \in Nat
  BY DEF IsField
<1> HIDE DEF first
<1>5. Right(ValidateInt(1, bytes, At(body, o)), bytes, body, first)
  BY <1>1, <1>2, <1>4, IntIsRight
<1>6. ValidateInt(1, bytes, At(body, o)) = At(body, first)
  BY <1>1, <1>2, <1>5 DEF Right, Header
<1>7. Right(ValidateString(bytes, At(body, first)), bytes, body, next)
  BY <1>1, <1>2, <1>3, <1>4, StringIsRight
<1>8. ValidateString(bytes, At(body, first)) = At(body, next)
  BY <1>1, <1>2, <1>7 DEF Right, Header
<1>9. At(body, first).result = "OK"
  BY AtAnOffset
<1> QED BY <1>6, <1>8, <1>9 DEF ValidateField, Then

(* and none is found at the zero that ends the fields.                      *)
LEMMA NoFieldAtTheEnd ==
  ASSUME NEW body \in Seq(Nat), NEW bytes \in Seq(Nat),
         NEW n \in Nat, NEW l \in Nat, Sized(bytes, n), Sized(body, l), 5 + l <= n,
         NEW o \in Nat, l = o + 1
  PROVE  ValidateField(bytes, At(body, o)).result = "Failed"
<1>1. n = Len(bytes) /\ l = Len(body) /\ 1 \in Nat
  BY DEF Sized
<1>2. Right(ValidateInt(1, bytes, At(body, o)), bytes, body, l)
  <2>1. 5 + o <= n /\ l <= l
    OBVIOUS
  <2> QED BY <1>1, <2>1, IntIsRight
<1>3. ValidateInt(1, bytes, At(body, o)) = At(body, l)
  <2>1. ~ (n < 5 + l)
    OBVIOUS
  <2> QED BY <1>1, <1>2, <2>1 DEF Right, Header
<1> DEFINE step == At(body, l)
           zeros == {i \in step.at .. Len(bytes) - 1 : bytes[i + 1] = 0}
           size == Min(zeros) - step.at
<1>4. step.result = "OK" /\ step.at = 5 + l /\ step.left = 0 /\ There(bytes, step) = n - (5 + l)
  <2>1. /\ step.result = "OK" /\ step.at = 5 + l
        /\ step.left = Len(body) - l
        /\ There(bytes, step) = Len(bytes) - (5 + l)
    BY DEF At, Step, There, Header
  <2> HIDE DEF step
  <2>2. step.left = l - l /\ There(bytes, step) = n - (5 + l)
    BY <1>1, <2>1
  <2> QED BY <2>1, <2>2
<1> HIDE DEF step
<1>5. ValidateString(bytes, step) = Failed(step)
  <2>1. CASE zeros = {}
    <3>1. step.left <= There(bytes, step)
      BY <1>4
    <3> QED BY <2>1, <3>1 DEF ValidateString
  <2>2. CASE zeros # {}
    <3>1. zeros = {i \in 5 + l .. n - 1 : bytes[i + 1] = 0}
      BY <1>1, <1>4
    <3>2. zeros \subseteq Nat /\ \A z \in zeros : z >= 5 + l
      <4> HIDE DEF zeros
      <4> QED BY <3>1
    <3>3. size >= step.left
      <4> HIDE DEF zeros
      <4>1. \E z \in zeros : \A y \in zeros : z <= y
        BY <2>2, <3>2, Least
      <4>2. Min(zeros) \in zeros
        BY <4>1 DEF Min
      <4>3. Min(zeros) \in Nat /\ Min(zeros) >= 5 + l
        BY <3>2, <4>2
      <4>4. size = Min(zeros) - (5 + l)
        BY <1>4
      <4> HIDE DEF size
      <4> QED BY <1>4, <4>3, <4>4
    <3> HIDE DEF size
    <3>4. ValidateString(bytes, step) =
            CASE zeros = {} -> IF step.left <= There(bytes, step) THEN Failed(step)
                                                                  ELSE NeedMore(step)
              [] zeros # {} /\ size >= step.left -> Failed(step)
              [] OTHER -> Advance(step, size + 1)
      BY DEF ValidateString, size
    <3> HIDE DEF zeros
    <3> QED BY <2>2, <3>3, <3>4
  <2> QED BY <2>1, <2>2
<1>6. ValidateField(bytes, At(body, o)) = Failed(step)
  BY <1>3, <1>4, <1>5 DEF ValidateField, Then, step
<1> QED BY <1>6 DEF Failed, step, At, Step

(* Where the fields are, by the length of the whole.                        *)
FieldsLaid(body, fields, ends, l, count) ==
  /\ count \in Nat /\ ends \in [0 .. count -> Nat] /\ ends[0] = 0
  /\ l = ends[count] + 1 /\ body[l] = 0 /\ ends[count] \in Nat
  /\ \A i \in 1 .. count :
       /\ fields[i] \in ErrorField
       /\ i \in 0 .. count /\ i - 1 \in 0 .. count /\ i # 0
       /\ ends[i] \in Nat /\ ends[i - 1] \in Nat
       /\ FieldSize(fields, i) \in Nat /\ FieldSize(fields, i) >= 2
       /\ ends[i] = ends[i - 1] + FieldSize(fields, i) /\ ends[i] <= ends[count]
       /\ \A k \in 1 .. FieldSize(fields, i) :
            body[ends[i - 1] + k] = FieldBytes(fields[i])[k]

LEMMA FieldsAre ==
  ASSUME NEW fields \in Seq(ErrorField), NEW body, NEW ends, ErrorIs(body, fields, ends),
         NEW l \in Nat, Sized(body, l), NEW count, Sized(fields, count)
  PROVE  FieldsLaid(body, fields, ends, l, count)
<1> DEFINE last == ends[count]
<1>1. count = Len(fields) /\ l = Len(body)
  BY DEF Sized
<1>2. count \in Nat /\ \A i \in 1 .. count : fields[i] \in ErrorField
  BY <1>1, LenProperties, ElementOfSeq
<1>3. ends \in [0 .. count -> Nat] /\ ends[0] = 0 /\ l = last + 1 /\ body[l] = 0
  <2>1. ends \in [0 .. count -> Nat] /\ ends[0] = 0 /\ Sized(body, last + 1)
        /\ body[last + 1] = 0
    BY <1>1, Zenon DEF ErrorIs
  <2> QED BY <1>1, <2>1 DEF Sized
<1>4. \A i \in 1 .. count :
        /\ ends[i] = ends[i - 1] + FieldSize(fields, i) /\ ends[i] <= last
        /\ \A k \in 1 .. FieldSize(fields, i) :
             body[ends[i - 1] + k] = FieldBytes(fields[i])[k]
  BY <1>1, Zenon DEF ErrorIs
<1>5. \A i \in 1 .. count : i \in 0 .. count /\ i - 1 \in 0 .. count /\ i # 0
  BY <1>2
<1>6. last \in Nat /\ \A i \in 1 .. count : ends[i] \in Nat /\ ends[i - 1] \in Nat
  <2>1. count \in 0 .. count
    BY <1>2
  <2> QED BY <1>3, <1>5, <2>1
<1>7. ASSUME NEW i \in 1 .. count
      PROVE  FieldSize(fields, i) \in Nat /\ FieldSize(fields, i) >= 2
  <2> DEFINE size == Len(fields[i].text)
  <2>1. Sized(fields[i].text, size) /\ fields[i] \in ErrorField
    BY <1>2 DEF Sized
  <2> HIDE DEF size
  <2>2. size \in Nat
    BY <2>1, FieldInBytes
  <2>3. FieldSize(fields, i) = size + 2
    BY DEF FieldSize, size
  <2> QED BY <2>2, <2>3
<1> HIDE DEF last
<1> QED BY <1>2, <1>3, <1>4, <1>5, <1>6, <1>7 DEF last, FieldsLaid

LEMMA FewFields ==
  ASSUME NEW fields \in Seq(ErrorField), NEW body, NEW ends, ErrorIs(body, fields, ends),
         NEW l \in Nat, Sized(body, l)
  PROVE  Len(fields) < l
<1> DEFINE count == Len(fields)
           U == {i \in 0 .. count : ends[i] >= i}
<1>1. Sized(fields, count)
  BY DEF Sized
<1> HIDE DEF count
<1>2. /\ count \in Nat /\ ends[0] = 0 /\ l = ends[count] + 1 /\ ends[count] \in Nat
      /\ \A i \in 1 .. count :
           /\ i \in 0 .. count /\ ends[i] \in Nat /\ ends[i - 1] \in Nat
           /\ FieldSize(fields, i) \in Nat /\ FieldSize(fields, i) >= 2
           /\ ends[i] = ends[i - 1] + FieldSize(fields, i)
  <2>1. FieldsLaid(body, fields, ends, l, count)
    BY <1>1, FieldsAre
  <2> QED BY <2>1 DEF FieldsLaid
<1>3. 0 \in U
  BY <1>2
<1>4. ASSUME NEW i \in 1 .. count, i - 1 \in U
      PROVE  i \in U
  BY <1>2, <1>4
<1>5. \A i \in 0 .. count : i \in U
  <2> HIDE DEF U
  <2> QED BY <1>2, <1>3, <1>4, CountingUp
<1>6. count \in 0 .. count
  BY <1>2
<1>7. ends[count] >= count
  BY <1>5, <1>6
<1> QED BY <1>2, <1>7 DEF count

LEMMA ErrorIsRight ==
  ASSUME NEW fields \in Seq(ErrorField), NEW body, body = ErrorBody(fields),
         NEW bytes \in Seq(Nat), Begins(bytes, body),
         NEW n \in Nat, NEW l \in Nat, Sized(bytes, n), Sized(body, l), 5 <= n
  PROVE  Right(Validate("ErrorResponse", bytes, At(body, 0)), bytes, body, l)
<1> DEFINE count == Len(fields)
           step == At(body, 0)
<1>1. body \in Seq(Nat)
  BY ErrorIsLaidOut
<1>2. PICK ends : ErrorIs(body, fields, ends)
  BY ErrorIsLaidOut
<1> DEFINE last == ends[count]
<1>3. Sized(fields, count) /\ n = Len(bytes) /\ l = Len(body)
  BY DEF Sized
<1>4. count < l
  BY <1>2, FewFields
<1> HIDE DEF count
<1>5. /\ count \in Nat /\ ends \in [0 .. count -> Nat] /\ ends[0] = 0
      /\ l = last + 1 /\ last \in Nat
      /\ \A i \in 1 .. count :
           /\ fields[i] \in ErrorField
           /\ ends[i] \in Nat /\ ends[i - 1] \in Nat
           /\ FieldSize(fields, i) \in Nat /\ FieldSize(fields, i) >= 2
           /\ ends[i] = ends[i - 1] + FieldSize(fields, i) /\ ends[i] <= last
           /\ \A k \in 1 .. FieldSize(fields, i) :
                body[ends[i - 1] + k] = FieldBytes(fields[i])[k]
  <2>1. FieldsLaid(body, fields, ends, l, count)
    BY <1>2, <1>3, FieldsAre
  <2> QED BY <2>1 DEF FieldsLaid
<1> HIDE DEF last
<1>6. step.result = "OK" /\ step.at = 5 /\ step.left = l /\ There(bytes, step) = n - 5
  <2>1. step.result = "OK" /\ step.at = 5 + 0 /\ step.left = Len(body) - 0
        /\ There(bytes, step) = Len(bytes) - (5 + 0)
    BY AtAnOffset
  <2> HIDE DEF step
  <2> QED BY <1>3, <2>1
<1>7. step \in StepsUpTo(n)
  <2>1. 5 \in 0 .. n /\ l \in Int
    OBVIOUS
  <2>2. step = [result |-> "OK", at |-> 5, left |-> l]
    <3>1. step = [result |-> "OK", at |-> 5 + 0, left |-> l - 0]
      BY DEF At, Step, Header, Sized
    <3> HIDE DEF step
    <3> QED BY <3>1
  <2> QED BY <2>1, <2>2 DEF StepsUpTo
<1>8. Validate("ErrorResponse", bytes, step) =
         IF ValidateRepeated(bytes, step).result = "OK"
           THEN ValidateInt(1, bytes, ValidateRepeated(bytes, step))
           ELSE ValidateRepeated(bytes, step)
  BY DEF Validate
<1>9. CASE n < 5 + l
  <2>1. ValidateRepeated(bytes, step) = NeedMore(step)
    <3>1. There(bytes, step) < step.left
      BY <1>6, <1>9
    <3> QED BY <3>1 DEF ValidateRepeated
  <2>2. NeedMore(step).result = "NeedMoreData"
    BY DEF NeedMore, step, At, Step
  <2>3. Validate("ErrorResponse", bytes, step) = NeedMore(step)
    BY <1>8, <2>1, <2>2
  <2>4. 5 + 0 <= n
    OBVIOUS
  <2> QED BY <1>1, <1>3, <1>9, <2>3, <2>4, MoreIsRight DEF step
<1>10. CASE ~ (n < 5 + l)
  <2>1. PICK after : /\ after[0] = step /\ Repeating(after, bytes, l)
                     /\ ValidateRepeated(bytes, step) = after[l]
    <3>1. step.left \in Nat /\ ~ (There(bytes, step) < step.left)
      BY <1>6, <1>10
    <3> QED BY <1>6, <1>7, <3>1, RepeatedTurns
  <2>2. 5 + l <= n
    BY <1>10
  <2> DEFINE T == {i \in 0 .. l : after[i] = At(body, IF i <= count THEN ends[i] ELSE last)}
  <2>3. 0 \in T
    BY <1>5, <2>1 DEF step
  <2>4. ASSUME NEW i \in 1 .. l, i - 1 \in T
        PROVE  i \in T
    <3>1. after[i] = IF ValidateField(bytes, after[i - 1]).result = "OK"
                       THEN ValidateField(bytes, after[i - 1]) ELSE after[i - 1]
      BY <2>1 DEF Repeating
    <3>2. i \in 0 .. l
      OBVIOUS
    <3>3. CASE i <= count
      <4> DEFINE o == ends[i - 1]
                 next == ends[i]
                 field == fields[i]
                 size == Len(field.text)
      <4>1. i \in 1 .. count
        BY <3>3
      <4>2. field \in ErrorField /\ Sized(field.text, size)
        BY <1>5, <4>1 DEF Sized
      <4>3. FieldSize(fields, i) = size + 2
        BY DEF FieldSize
      <4>4. /\ o \in Nat /\ next \in Nat /\ next = o + FieldSize(fields, i) /\ next <= last
            /\ \A k \in 1 .. FieldSize(fields, i) : body[o + k] = FieldBytes(field)[k]
        BY <1>5, <4>1
      <4>5. after[i - 1] = At(body, o)
        BY <1>5, <2>4, <3>3
      <4> HIDE DEF o, next, field, size
      <4>6. /\ size \in Nat /\ FieldBytes(field)[size + 2] = 0
            /\ \A k \in 1 .. size : FieldBytes(field)[k + 1] # 0
        <5>1. /\ size \in Nat /\ FieldBytes(field)[size + 2] = 0
              /\ \A k \in 1 .. size : /\ FieldBytes(field)[k + 1] = field.text[k]
                                      /\ field.text[k] # 0
          BY <4>2, FieldInBytes
        <5> QED BY <5>1
      <4>7. next = o + size + 2 /\ next <= l
        BY <1>5, <4>3, <4>4, <4>6
      <4>8. \A k \in 1 .. size + 2 : body[o + k] = FieldBytes(field)[k]
        BY <4>3, <4>4
      <4>9. \A k \in 1 .. size : body[o + 1 + k] # 0
        <5> SUFFICES ASSUME NEW k \in 1 .. size
                     PROVE  body[o + 1 + k] # 0
          OBVIOUS
        <5>1. k + 1 \in 1 .. size + 2 /\ o + (k + 1) = o + 1 + k
          BY <4>4, <4>6
        <5> QED BY <4>6, <4>8, <5>1
      <4>10. body[o + 1 + size + 1] = 0
        <5>1. size + 2 \in 1 .. size + 2 /\ o + (size + 2) = o + 1 + size + 1
          BY <4>4, <4>6
        <5> QED BY <4>6, <4>8, <5>1
      <4>11. ValidateField(bytes, At(body, o)) = At(body, next)
        <5>1. o \in Nat /\ size \in Nat /\ next \in Nat
          BY <4>4, <4>6
        <5>2. IsField(body, o, size)
          BY <4>9, <4>10 DEF IsField
        <5> QED BY <1>1, <2>2, <4>7, <5>1, <5>2, FieldIsRight
      <4>12. At(body, next).result = "OK"
        BY AtAnOffset
      <4>13. after[i] = At(body, next)
        BY <3>1, <4>5, <4>11, <4>12
      <4> QED BY <3>2, <3>3, <4>13 DEF next
    <3>4. CASE ~ (i <= count)
      <4>1. after[i - 1] = At(body, last)
        <5>1. CASE i - 1 <= count
          <6>1. i - 1 = count
            BY <1>5, <3>4, <5>1
          <6> QED BY <2>4, <5>1, <6>1 DEF last
        <5>2. CASE ~ (i - 1 <= count)
          BY <2>4, <5>2
        <5> QED BY <5>1, <5>2
      <4>2. ValidateField(bytes, At(body, last)).result = "Failed"
        <5>1. last \in Nat /\ l = last + 1
          BY <1>5
        <5> QED BY <1>1, <2>2, <5>1, NoFieldAtTheEnd
      <4>3. after[i] = At(body, last)
        BY <3>1, <4>1, <4>2
      <4> QED BY <3>2, <3>4, <4>3
    <3> QED BY <3>3, <3>4
  <2>5. \A i \in 0 .. l : i \in T
    <3> HIDE DEF T
    <3> QED BY <2>3, <2>4, CountingUp
  <2>6. after[l] = At(body, last)
    <3>1. l \in 0 .. l /\ ~ (l <= count)
      BY <1>4, <1>5
    <3> QED BY <2>5, <3>1
  <2>7. At(body, last).result = "OK"
    BY AtAnOffset
  <2>8. Validate("ErrorResponse", bytes, step) = ValidateInt(1, bytes, At(body, last))
    BY <1>8, <2>1, <2>6, <2>7
  <2>9. 1 \in Nat /\ l <= Len(body) /\ 5 + last <= Len(bytes)
    <3>1. 5 + last <= n /\ l <= l
      BY <1>5, <2>2
    <3> QED BY <1>3, <3>1
  <2>10. Right(ValidateInt(1, bytes, At(body, last)), bytes, body, l)
    BY <1>1, <1>5, <2>9, IntIsRight
  <2> QED BY <2>8, <2>10 DEF step
<1> QED BY <1>9, <1>10

(* Where a text is that comes behind something, with its zero.              *)
TextAt(body, o, text, size) ==
  /\ body[o + size + 1] = 0
  /\ \A k \in 1 .. size : body[o + k] = text[k] /\ body[o + k] # 0

TextBehind(body, front, o, text, size) ==
  /\ size \in Nat /\ o \in Nat /\ body \in Seq(Nat) /\ Sized(body, o + size + 1)
  /\ TextAt(body, o, text, size)
  /\ \A k \in 1 .. o : body[k] = front[k]

Closed(body, front, text) == body = front \o text \o <<0>>

LEMMA TextIsLaidOut ==
  ASSUME NEW text \in Text, NEW size, Sized(text, size),
         NEW front \in Seq(Nat), NEW o, Sized(front, o),
         NEW body, Closed(body, front, text)
  PROVE  TextBehind(body, front, o, text, size)
<1> DEFINE most == front \o text
           end == <<0>>
<1>1. text \in Seq(Nat) /\ \A k \in 1 .. Len(text) : text[k] # 0
  <2>1. text \in [1 .. Len(text) -> Nat \ {0}] /\ Len(text) \in Nat
    BY LenProperties DEF Text
  <2>2. text \in [1 .. Len(text) -> Nat]
    BY <2>1
  <2> QED BY <2>1, <2>2, SeqDef
<1>2. end \in Seq(Nat) /\ Len(end) = 1 /\ end[1] = 0
  OBVIOUS
<1>3. body = most \o end
  BY DEF Closed
<1> HIDE DEF most, end
<1>4. most = front \o text
  BY DEF most
<1> DEFINE lf == Len(front)
           lt == Len(text)
<1>5. /\ most \in Seq(Nat) /\ Len(most) = lf + lt /\ lf \in Nat /\ lt \in Nat
      /\ \A k \in 1 .. lf : most[k] = front[k]
      /\ \A k \in 1 .. lt : most[lf + k] = text[k]
  <2>1. front \in Seq(Nat) /\ text \in Seq(Nat)
    BY <1>1
  <2> QED BY <1>4, <2>1, Joined
<1> DEFINE lm == Len(most)
           le == Len(end)
<1>6. /\ body \in Seq(Nat) /\ Len(body) = lm + le /\ lm \in Nat /\ le \in Nat
      /\ \A k \in 1 .. lm : body[k] = most[k]
      /\ \A k \in 1 .. le : body[lm + k] = end[k]
  <2>1. most \in Seq(Nat) /\ end \in Seq(Nat)
    BY <1>2, <1>5
  <2> HIDE DEF lf, lt
  <2> QED BY <1>3, <2>1, Joined
<1>7. lf = o /\ lt = size /\ lm = o + size /\ le = 1 /\ o \in Nat /\ size \in Nat
  <2>1. lf = o /\ lt = size /\ le = 1 /\ lm = lf + lt
    BY <1>2, <1>5 DEF Sized
  <2> HIDE DEF lf, lt, lm, le
  <2> QED BY <1>5, <2>1
<1>8. Sized(body, o + size + 1)
  <2>1. Len(body) = lm + le
    BY <1>6
  <2> HIDE DEF lm, le
  <2> QED BY <1>7, <2>1 DEF Sized
<1>9. \A k \in 1 .. size : text[k] # 0
  BY <1>1, <1>7
<1> HIDE DEF lf, lt, lm, le
<1>10. body[o + size + 1] = 0
  <2>1. 1 \in 1 .. le /\ lm + 1 = o + size + 1
    BY <1>7
  <2>2. body[lm + 1] = end[1]
    BY <1>6, <2>1
  <2> QED BY <1>2, <2>1, <2>2
<1>11. ASSUME NEW k \in 1 .. size PROVE body[o + k] = text[k]
  <2>1. o + k \in 1 .. lm
    BY <1>7
  <2>2. most[o + k] = text[k]
    BY <1>5, <1>7
  <2> QED BY <1>6, <2>1, <2>2
<1>12. ASSUME NEW k \in 1 .. o PROVE body[k] = front[k]
  <2>1. k \in 1 .. lm
    BY <1>7
  <2> QED BY <1>5, <1>6, <1>7, <2>1
<1>13. TextAt(body, o, text, size)
  BY <1>9, <1>10, <1>11 DEF TextAt
<1> QED BY <1>6, <1>7, <1>8, <1>12, <1>13 DEF TextBehind

LEMMA TextIsRight ==
  ASSUME NEW body \in Seq(Nat), NEW bytes \in Seq(Nat), Begins(bytes, body),
         NEW n \in Nat, NEW l \in Nat, Sized(bytes, n), Sized(body, l),
         NEW o \in Nat, NEW size \in Nat, NEW next \in Nat, next = o + size + 1,
         next <= l, 5 + o <= n, NEW text, TextAt(body, o, text, size)
  PROVE  Right(ValidateString(bytes, At(body, o)), bytes, body, next)
<1>1. next <= Len(body) /\ 5 + o <= Len(bytes)
  BY DEF Sized
<1>2. body[o + size + 1] = 0 /\ \A k \in 1 .. size : body[o + k] # 0
  BY DEF TextAt
<1> QED BY <1>1, <1>2, StringIsRight

QueryIs(body, text, size) ==
  /\ body \in Seq(Nat) /\ size \in Nat /\ Sized(body, size + 1)
  /\ TextAt(body, 0, text, size)

Ended(text) == text \o <<0>>

LEMMA QueryIsLaidOut ==
  ASSUME NEW text \in Text, NEW size, Sized(text, size), NEW body, body = Ended(text)
  PROVE  QueryIs(body, text, size)
<1> DEFINE front == <<>>
<1>1. front \in Seq(Nat) /\ Sized(front, 0)
  BY EmptySeq DEF Sized
<1>2. text \in Seq(Nat \ {0})
  BY DEF Text
<1>3. front \o text = text
  BY <1>2, ConcatEmptySeq
<1> HIDE DEF front
<1>4. Closed(body, front, text)
  BY <1>3 DEF Closed, Ended
<1>5. /\ size \in Nat /\ 0 \in Nat /\ body \in Seq(Nat) /\ Sized(body, 0 + size + 1)
      /\ TextAt(body, 0, text, size)
  <2>1. TextBehind(body, front, 0, text, size)
    BY <1>1, <1>4, TextIsLaidOut
  <2> QED BY <2>1 DEF TextBehind
<1>6. 0 + size + 1 = size + 1
  BY <1>5
<1> QED BY <1>5, <1>6 DEF QueryIs

StatusIs(body, name, text, sn, st) ==
  /\ body \in Seq(Nat) /\ sn \in Nat /\ st \in Nat /\ Sized(body, sn + 1 + st + 1)
  /\ TextAt(body, 0, name, sn) /\ TextAt(body, sn + 1, text, st)

LEMMA StatusIsLaidOut ==
  ASSUME NEW name \in Text, NEW sn, Sized(name, sn), NEW text \in Text, NEW st, Sized(text, st),
         NEW front, front = Ended(name), NEW body, Closed(body, front, text)
  PROVE  StatusIs(body, name, text, sn, st)
<1>1. Closed(body, front, text)
  OBVIOUS
<1>2. QueryIs(front, name, sn)
  BY QueryIsLaidOut
<1>3. front \in Seq(Nat) /\ sn \in Nat /\ Sized(front, sn + 1) /\ TextAt(front, 0, name, sn)
  BY <1>2 DEF QueryIs
<1> DEFINE o == sn + 1
<1>4. Sized(front, o) /\ front \in Seq(Nat)
  BY <1>3
<1> HIDE DEF o
<1>5. /\ st \in Nat /\ o \in Nat /\ body \in Seq(Nat) /\ Sized(body, o + st + 1)
      /\ TextAt(body, o, text, st) /\ \A k \in 1 .. o : body[k] = front[k]
  <2>1. TextBehind(body, front, o, text, st)
    BY <1>1, <1>4, TextIsLaidOut
  <2> QED BY <2>1 DEF TextBehind
<1>6. TextAt(body, 0, name, sn)
  <2>1. front[0 + sn + 1] = 0
        /\ \A k \in 1 .. sn : front[0 + k] = name[k] /\ front[0 + k] # 0
    BY <1>3 DEF TextAt
  <2>2. 0 + sn + 1 \in 1 .. o /\ \A k \in 1 .. sn : 0 + k \in 1 .. o
    BY <1>3 DEF o
  <2>3. body[0 + sn + 1] = front[0 + sn + 1] /\ \A k \in 1 .. sn : body[0 + k] = front[0 + k]
    BY <1>5, <2>2
  <2> QED BY <2>1, <2>3 DEF TextAt
<1> QED BY <1>3, <1>5, <1>6 DEF StatusIs, o

LEMMA QueryIsRight ==
  ASSUME NEW body, NEW text, NEW size, QueryIs(body, text, size),
         NEW bytes \in Seq(Nat), Begins(bytes, body),
         NEW n \in Nat, NEW l \in Nat, Sized(bytes, n), Sized(body, l), 5 <= n
  PROVE  Right(Validate("Query", bytes, At(body, 0)), bytes, body, l)
<1>1. body \in Seq(Nat) /\ size \in Nat /\ Sized(body, size + 1) /\ TextAt(body, 0, text, size)
  BY DEF QueryIs
<1>2. l = size + 1
  BY <1>1 DEF Sized
<1>3. 0 \in Nat /\ l = 0 + size + 1 /\ l <= l /\ 5 + 0 <= n
  BY <1>1, <1>2
<1>4. Right(ValidateString(bytes, At(body, 0)), bytes, body, l)
  BY <1>1, <1>3, TextIsRight
<1> QED BY <1>4 DEF Validate

LEMMA StatusIsRight ==
  ASSUME NEW body, NEW name, NEW text, NEW sn, NEW st, StatusIs(body, name, text, sn, st),
         NEW bytes \in Seq(Nat), Begins(bytes, body),
         NEW n \in Nat, NEW l \in Nat, Sized(bytes, n), Sized(body, l), 5 <= n
  PROVE  Right(Validate("ParameterStatus", bytes, At(body, 0)), bytes, body, l)
<1> DEFINE o == sn + 1
           first == ValidateString(bytes, At(body, 0))
<1>1. /\ body \in Seq(Nat) /\ sn \in Nat /\ st \in Nat /\ Sized(body, o + st + 1)
      /\ TextAt(body, 0, name, sn) /\ TextAt(body, o, text, st)
  BY DEF StatusIs
<1>2. l = o + st + 1
  BY <1>1 DEF Sized
<1>3. /\ 0 \in Nat /\ o \in Nat /\ o = 0 + sn + 1 /\ o <= l /\ 5 + 0 <= n /\ l <= l
      /\ Len(bytes) = n
  BY <1>1, <1>2 DEF Sized
<1> HIDE DEF o, first
<1>4. Right(first, bytes, body, o)
  BY <1>1, <1>3, TextIsRight DEF first
<1>5. Validate("ParameterStatus", bytes, At(body, 0)) = Then(first, ValidateString, bytes)
  BY DEF Validate, first
<1>6. CASE n < 5 + o
  <2>1. first.result = "NeedMoreData" /\ first.at \in 5 .. Len(bytes)
    BY <1>3, <1>4, <1>6 DEF Right, Header
  <2>2. Then(first, ValidateString, bytes) = first
    BY <2>1 DEF Then
  <2>3. n < 5 + l
    BY <1>3, <1>6
  <2> QED BY <1>3, <1>5, <2>1, <2>2, <2>3 DEF Right, Header
<1>7. CASE ~ (n < 5 + o)
  <2>1. first = At(body, o)
    BY <1>3, <1>4, <1>7 DEF Right, Header
  <2>2. At(body, o).result = "OK"
    BY AtAnOffset
  <2>3. Then(first, ValidateString, bytes) = ValidateString(bytes, At(body, o))
    BY <2>1, <2>2 DEF Then
  <2>4. 5 + o <= n
    BY <1>3, <1>7
  <2>5. Right(ValidateString(bytes, At(body, o)), bytes, body, l)
    BY <1>1, <1>2, <1>3, <2>4, TextIsRight
  <2> QED BY <1>5, <2>3, <2>5
<1> QED BY <1>6, <1>7

LEMMA PasswordIsRight ==
  ASSUME NEW body, NEW text, NEW size, QueryIs(body, text, size), size >= 3,
         NEW bytes \in Seq(Nat), Begins(bytes, body),
         NEW n \in Nat, NEW l \in Nat, Sized(bytes, n), Sized(body, l), 5 <= n
  PROVE  Right(Validate("PasswordMessage", bytes, At(body, 0)), bytes, body, l)
<1> DEFINE first == ValidateInt(4, bytes, At(body, 0))
<1>1. body \in Seq(Nat) /\ size \in Nat /\ Sized(body, size + 1)
  BY DEF QueryIs
<1>2. l = size + 1 /\ Len(bytes) = n /\ Len(body) = l
  BY <1>1 DEF Sized
<1>3. Right(first, bytes, body, 4)
  <2>1. 0 \in Nat /\ 4 \in Nat /\ 4 = 0 + 4 /\ 4 <= l /\ 5 + 0 <= n
    BY <1>1, <1>2
  <2>2. 4 <= Len(body) /\ 5 + 0 <= Len(bytes)
    BY <1>2, <2>1
  <2> QED BY <1>1, <2>1, <2>2, IntIsRight
<1>4. Validate("PasswordMessage", bytes, At(body, 0)) = Then(first, ValidateByteN, bytes)
  BY DEF Validate
<1> HIDE DEF first
<1>5. CASE n < 5 + 4
  <2>1. first.result = "NeedMoreData" /\ first.at \in 5 .. Len(bytes)
    BY <1>2, <1>3, <1>5 DEF Right, Header
  <2>2. Then(first, ValidateByteN, bytes) = first
    BY <2>1 DEF Then
  <2>3. n < 5 + l
    BY <1>1, <1>2, <1>5
  <2> QED BY <1>2, <1>4, <2>1, <2>2, <2>3 DEF Right, Header
<1>6. CASE ~ (n < 5 + 4)
  <2> DEFINE step == At(body, 4)
  <2>1. first = step
    BY <1>2, <1>3, <1>6 DEF Right, Header
  <2>2. step.result = "OK" /\ step.left = l - 4 /\ There(bytes, step) = n - (5 + 4)
    BY <1>2 DEF At, Step, There, Header
  <2>3. Then(first, ValidateByteN, bytes) = ValidateByteN(bytes, step)
    BY <2>1, <2>2 DEF Then
  <2> HIDE DEF step
  <2>4. CASE n < 5 + l
    <3>1. step.left > There(bytes, step)
      BY <1>6, <2>2, <2>4
    <3>2. ValidateByteN(bytes, step) = NeedMore(step)
      BY <3>1 DEF ValidateByteN
    <3>3. 4 \in Nat /\ 5 + 4 <= Len(bytes) /\ Len(bytes) < 5 + l
      BY <1>2, <1>6, <2>4
    <3> QED BY <1>1, <1>4, <2>3, <3>2, <3>3, MoreIsRight DEF step
  <2>5. CASE ~ (n < 5 + l)
    <3>1. ~ (step.left > There(bytes, step))
      BY <1>6, <2>2, <2>5
    <3>2. ValidateByteN(bytes, step) = Advance(step, l - 4)
      BY <2>2, <3>1 DEF ValidateByteN
    <3>3. 4 \in Nat /\ l - 4 \in Nat /\ l = 4 + (l - 4) /\ ~ (Len(bytes) < 5 + l)
      BY <1>1, <1>2, <2>5
    <3> QED BY <1>1, <1>4, <2>3, <3>2, <3>3, OnwardIsRight DEF step
  <2> QED BY <2>4, <2>5
<1> QED BY <1>5, <1>6

(* The first four bytes of a password pass for an integer.                  *)
LongEnough(m) == m.kind = "PasswordMessage" => Len(m.text) >= 3

LEMMA MessageIsRight ==
  ASSUME NEW m \in Message, LongEnough(m), NEW body, body = Body(m)
  PROVE  /\ body \in Seq(Nat)
         /\ \A bytes \in Seq(Nat) : \A n \in Nat : \A l \in Nat :
              Begins(bytes, body) /\ Sized(bytes, n) /\ Sized(body, l) /\ 5 <= n =>
                Right(Validate(m.kind, bytes, At(body, 0)), bytes, body, l)
<1>1. CASE m \in [kind : {"Query"}, text : Text]
  <2>1. m.kind = "Query" /\ m.text \in Text
    BY <1>1
  <2>2. body = Ended(m.text)
    BY <2>1 DEF Body, Ended
  <2> DEFINE size == Len(m.text)
  <2>3. Sized(m.text, size)
    BY DEF Sized
  <2> HIDE DEF size
  <2>4. QueryIs(body, m.text, size)
    BY <2>1, <2>2, <2>3, QueryIsLaidOut
  <2>5. body \in Seq(Nat)
    BY <2>4 DEF QueryIs
  <2> QED BY <2>1, <2>4, <2>5, QueryIsRight
<1>2. CASE m \in [kind : {"DataRow"}, columns : Seq(Value)]
  <2>1. m.kind = "DataRow" /\ m.columns \in Seq(Value)
    BY <1>2
  <2>2. body = RowBody(m.columns)
    BY <2>1 DEF Body, RowBody
  <2>3. body \in Seq(Nat)
    BY <2>1, <2>2, RowIsLaidOut
  <2>4. \A bytes : Validate(m.kind, bytes, At(body, 0)) = ValidateArray(bytes, At(body, 0))
    BY <2>1 DEF Validate
  <2> QED BY <2>1, <2>2, <2>3, <2>4, RowIsRight
<1>3. CASE m \in [kind : {"ErrorResponse"}, fields : Seq(ErrorField)]
  <2>1. m.kind = "ErrorResponse" /\ m.fields \in Seq(ErrorField)
    BY <1>3
  <2>2. body = ErrorBody(m.fields)
    BY <2>1 DEF Body, ErrorBody
  <2>3. body \in Seq(Nat)
    BY <2>1, <2>2, ErrorIsLaidOut
  <2> QED BY <2>1, <2>2, <2>3, ErrorIsRight
<1>4. CASE m \in [kind : {"ParameterStatus"}, name : Text, text : Text]
  <2>1. m.kind = "ParameterStatus" /\ m.name \in Text /\ m.text \in Text
    BY <1>4
  <2> DEFINE sn == Len(m.name)
             st == Len(m.text)
             front == Ended(m.name)
  <2>2. Closed(body, front, m.text)
    BY <2>1 DEF Body, Closed, Ended
  <2>3. Sized(m.name, sn) /\ Sized(m.text, st) /\ front = Ended(m.name)
    BY DEF Sized
  <2> HIDE DEF sn, st, front
  <2>4. StatusIs(body, m.name, m.text, sn, st)
    BY <2>1, <2>2, <2>3, StatusIsLaidOut
  <2>5. body \in Seq(Nat)
    BY <2>4 DEF StatusIs
  <2> QED BY <2>1, <2>4, <2>5, StatusIsRight
<1>5. CASE m \in [kind : {"PasswordMessage"}, text : Text]
  <2>1. m.kind = "PasswordMessage" /\ m.text \in Text
    BY <1>5
  <2>2. body = Ended(m.text)
    BY <2>1 DEF Body, Ended
  <2> DEFINE size == Len(m.text)
  <2>3. Sized(m.text, size) /\ size >= 3
    BY <2>1 DEF Sized, LongEnough
  <2> HIDE DEF size
  <2>4. QueryIs(body, m.text, size)
    BY <2>1, <2>2, <2>3, QueryIsLaidOut
  <2>5. body \in Seq(Nat)
    BY <2>4 DEF QueryIs
  <2> QED BY <2>1, <2>3, <2>4, <2>5, PasswordIsRight
<1> QED BY <1>1, <1>2, <1>3, <1>4, <1>5 DEF Message

-----------------------------------------------------------------------------
(* The message and what follows it, as they come.                           *)

LEMMA SameSequence ==
  ASSUME NEW S, NEW a \in Seq(S), NEW b \in Seq(S), NEW n, Sized(a, n), Sized(b, n),
         \A k \in 1 .. n : a[k] = b[k]
  PROVE  a = b
<1>1. a \in [1 .. n -> S] /\ b \in [1 .. n -> S]
  BY LenProperties DEF Sized
<1>2. a = [k \in 1 .. n |-> a[k]] /\ b = [k \in 1 .. n |-> b[k]]
  BY <1>1
<1> QED BY <1>2

FrameIs(frame, body, l) ==
  /\ frame \in Seq(Nat) /\ Sized(frame, 5 + l) /\ frame[2] = 0 /\ frame[5] = l + 4
  /\ \A k \in 1 .. l : frame[5 + k] = body[k]

Kinds == {"Query", "DataRow", "ErrorResponse", "ParameterStatus", "PasswordMessage"}

Headed(frame, id, n, body) == frame = <<id>> \o Int32(n) \o body

LEMMA HeadedIs ==
  ASSUME NEW kind \in Kinds, NEW body \in Seq(Nat), NEW l \in Nat, Sized(body, l),
         NEW frame, Headed(frame, Identifier[kind], l + 4, body)
  PROVE  FrameIs(frame, body, l)
<1> DEFINE id == Identifier[kind]
           one == <<id>>
           int == Int32(l + 4)
           head == one \o int
<1>1. id \in Nat
  BY DEF Kinds, Identifier
<1>2. int = <<0, 0, 0, l + 4>>
  BY DEF Int32
<1>3. head = one \o int /\ frame = head \o body
  BY DEF Headed
<1> HIDE DEF id
<1>4. one \in Seq(Nat) /\ Len(one) = 1
  BY <1>1
<1>5. int \in Seq(Nat) /\ Len(int) = 4 /\ int[1] = 0 /\ int[4] = l + 4
  <2> HIDE DEF int
  <2> QED BY <1>2
<1> HIDE DEF one, int, head
<1> DEFINE first == Len(one)
           four == Len(int)
<1>6. /\ head \in Seq(Nat) /\ Len(head) = first + four
      /\ \A k \in 1 .. four : head[first + k] = int[k]
  <2>1. one \in Seq(Nat) /\ int \in Seq(Nat) /\ head = one \o int
    BY <1>3, <1>4, <1>5
  <2> QED BY <2>1, Joined
<1>7. first = 1 /\ four = 4
  BY <1>4, <1>5
<1> HIDE DEF first, four
<1>8. Len(head) = 5 /\ head[2] = 0 /\ head[5] = l + 4
  <2>1. first + 1 = 2 /\ first + 4 = 5 /\ first + four = 5 /\ 1 \in 1 .. four /\ 4 \in 1 .. four
    BY <1>7
  <2>2. head[first + 1] = int[1] /\ head[first + 4] = int[4]
    BY <1>6, <2>1
  <2> QED BY <1>5, <1>6, <2>1, <2>2
<1> DEFINE lh == Len(head)
           lb == Len(body)
<1>9. /\ frame \in Seq(Nat) /\ Len(frame) = lh + lb
      /\ \A k \in 1 .. lh : frame[k] = head[k]
      /\ \A k \in 1 .. lb : frame[lh + k] = body[k]
  <2>1. head \in Seq(Nat) /\ body \in Seq(Nat) /\ frame = head \o body
    BY <1>3, <1>6
  <2> QED BY <2>1, Joined
<1>10. lh = 5 /\ lb = l
  BY <1>8 DEF Sized
<1> HIDE DEF lh, lb
<1>11. 2 \in 1 .. lh /\ 5 \in 1 .. lh
  BY <1>10
<1>12. frame[2] = 0 /\ frame[5] = l + 4
  BY <1>8, <1>9, <1>11
<1> QED BY <1>9, <1>10, <1>12 DEF FrameIs, Sized

LEMMA FrameIsLaidOut ==
  ASSUME NEW kind \in Kinds, NEW body \in Seq(Nat), NEW l \in Nat, Sized(body, l)
  PROVE  FrameIs(Frame(kind, body), body, l)
<1>1. Headed(Frame(kind, body), Identifier[kind], l + 4, body)
  BY DEF Frame, Sized, Headed
<1> QED BY <1>1, HeadedIs

(* What has come is a beginning of the stream.                              *)
ComesFrom(bytes, stream, n, s) ==
  /\ bytes \in Seq(Nat) /\ stream \in Seq(Nat) /\ Sized(bytes, n) /\ Sized(stream, s)
  /\ n \in Nat /\ s \in Nat /\ n <= s /\ \A k \in 1 .. n : bytes[k] = stream[k]

StreamIs(stream, body, l, s) ==
  /\ stream \in Seq(Nat) /\ Sized(stream, s) /\ l \in Nat /\ s \in Nat /\ 5 + l <= s
  /\ stream[2] = 0 /\ stream[5] = l + 4
  /\ \A k \in 1 .. l : stream[5 + k] = body[k]

LEMMA StreamIsLaidOut ==
  ASSUME NEW frame, NEW body, NEW l \in Nat, FrameIs(frame, body, l),
         NEW behind \in Seq(Nat), NEW stream, stream = frame \o behind,
         NEW s, Sized(stream, s)
  PROVE  StreamIs(stream, body, l, s)
<1>1. /\ frame \in Seq(Nat) /\ Sized(frame, 5 + l) /\ frame[2] = 0 /\ frame[5] = l + 4
      /\ \A k \in 1 .. l : frame[5 + k] = body[k]
  BY DEF FrameIs
<1> DEFINE lf == Len(frame)
           lb == Len(behind)
<1>2. /\ stream \in Seq(Nat) /\ Len(stream) = lf + lb /\ lf \in Nat /\ lb \in Nat
      /\ \A k \in 1 .. lf : stream[k] = frame[k]
  BY <1>1, Joined
<1>3. lf = 5 + l /\ s = lf + lb
  BY <1>1, <1>2 DEF Sized
<1> HIDE DEF lf, lb
<1>4. s \in Nat /\ 5 + l <= s /\ 2 \in 1 .. lf /\ 5 \in 1 .. lf /\ \A k \in 1 .. l : 5 + k \in 1 .. lf
  BY <1>2, <1>3
<1>5. stream[2] = 0 /\ stream[5] = l + 4
  BY <1>1, <1>2, <1>4
<1>6. \A k \in 1 .. l : stream[5 + k] = body[k]
  BY <1>1, <1>2, <1>4
<1> QED BY <1>2, <1>4, <1>5, <1>6 DEF StreamIs

LEMMA WhatComes ==
  ASSUME NEW bytes, NEW stream, NEW body, NEW n, NEW s, NEW l,
         ComesFrom(bytes, stream, n, s), StreamIs(stream, body, l, s), 5 <= n, Sized(body, l)
  PROVE  /\ PeekInt32(bytes, 1) = l + 4
         /\ Begins(bytes, body)
<1>1. /\ bytes \in Seq(Nat) /\ Sized(bytes, n) /\ n \in Nat
      /\ \A k \in 1 .. n : bytes[k] = stream[k]
  BY DEF ComesFrom
<1>2. /\ l \in Nat /\ stream[2] = 0 /\ stream[5] = l + 4
      /\ \A k \in 1 .. l : stream[5 + k] = body[k]
  BY DEF StreamIs
<1>3. bytes[2] = 0 /\ bytes[5] = l + 4
  <2>1. 2 \in 1 .. n /\ 5 \in 1 .. n
    BY <1>1
  <2> QED BY <1>1, <1>2, <2>1
<1>4. PeekInt32(bytes, 1) = l + 4
  <2>1. 1 + 1 = 2 /\ 1 + 4 = 5
    OBVIOUS
  <2> QED BY <1>3, <2>1 DEF PeekInt32
<1>5. \A k \in 1 .. l : 5 + k <= n => bytes[5 + k] = body[k]
  <2>1. \A k \in 1 .. l : 5 + k <= n => 5 + k \in 1 .. n
    BY <1>1, <1>2
  <2> QED BY <1>1, <1>2, <2>1
<1>6. Begins(bytes, body)
  <2>1. n = Len(bytes) /\ l = Len(body)
    BY <1>1 DEF Sized
  <2> QED BY <1>5, <2>1 DEF Begins, Header
<1> QED BY <1>4, <1>6

LEMMA OneMoreComes ==
  ASSUME NEW bytes, NEW stream, NEW n, NEW s, ComesFrom(bytes, stream, n, s), n < s,
         NEW more, more = Append(bytes, stream[n + 1])
  PROVE  ComesFrom(more, stream, n + 1, s)
<1>1. /\ bytes \in Seq(Nat) /\ stream \in Seq(Nat) /\ Sized(bytes, n) /\ Sized(stream, s)
      /\ n \in Nat /\ s \in Nat /\ \A k \in 1 .. n : bytes[k] = stream[k]
  BY DEF ComesFrom
<1> DEFINE next == stream[n + 1]
<1>2. next \in Nat
  <2>1. n + 1 \in 1 .. Len(stream)
    BY <1>1 DEF Sized
  <2> QED BY <1>1, <2>1, ElementOfSeq
<1> HIDE DEF next
<1>3. /\ more \in Seq(Nat) /\ Len(more) = Len(bytes) + 1
      /\ \A k \in 1 .. Len(bytes) : more[k] = bytes[k]
      /\ more[Len(bytes) + 1] = next
  BY <1>1, <1>2, AppendProperties DEF next
<1>4. Len(bytes) = n
  BY <1>1 DEF Sized
<1>5. ASSUME NEW k \in 1 .. n + 1 PROVE more[k] = stream[k]
  <2>1. CASE k \in 1 .. n
    BY <1>1, <1>3, <1>4, <2>1
  <2>2. CASE k = n + 1
    BY <1>3, <1>4, <2>2 DEF next
  <2>3. k \in 1 .. n \/ k = n + 1
    BY <1>1
  <2> QED BY <2>1, <2>2, <2>3
<1>6. Sized(more, n + 1) /\ n + 1 \in Nat /\ n + 1 <= s
  BY <1>1, <1>3, <1>4 DEF Sized
<1> QED BY <1>1, <1>3, <1>5, <1>6 DEF ComesFrom

-----------------------------------------------------------------------------
(* The state of the codec.                                                  *)

(* The messages that a peer sends which keeps to the protocol.              *)
WellFormed ==
  /\ Messages \subseteq Message /\ Follow \in Seq(Nat)
  /\ \A m \in Messages : LongEnough(m)

(* What has come is a beginning of the stream; the verdict tells whether    *)
(* the message is whole, and no more was gone over than has come; what was  *)
(* written was made of the body.                                            *)
GoneOver(c, n) == c \in Nat /\ (c > 0 => 5 + c <= n)

CodecHeldFor(body, l, n, s) ==
  /\ body = Body(message) /\ Sized(body, l)
  /\ ComesFrom(data, Stream, n, s) /\ StreamIs(Stream, body, l, s)
  /\ IF n < 5 + l
       THEN verdict = "NeedMoreData" /\ GoneOver(consumed, n)
       ELSE verdict = "OK" /\ consumed = l
  /\ written # <<>> => n >= 5 + l /\ written = Replacement(message.kind, body)

CodecHeld == /\ message \in Messages
             /\ \E body, l, n, s : CodecHeldFor(body, l, n, s)

LEMMA MessageIsLaidOut ==
  ASSUME WellFormed, message \in Messages
  PROVE  /\ message.kind \in Kinds
         /\ \E l, s : Sized(Body(message), l) /\ StreamIs(Stream, Body(message), l, s)
<1> DEFINE body == Body(message)
           frame == Frame(message.kind, body)
           l == Len(body)
           s == Len(Stream)
<1>1. message \in Message /\ LongEnough(message) /\ Follow \in Seq(Nat)
  BY DEF WellFormed
<1>2. message.kind \in Kinds
  BY <1>1 DEF Message, Kinds
<1>3. body \in Seq(Nat)
  BY <1>1, MessageIsRight
<1>4. l \in Nat /\ Sized(body, l) /\ Sized(Stream, s)
  BY <1>3, LenProperties DEF Sized
<1>5. Stream = frame \o Follow
  BY DEF Stream
<1> HIDE DEF body, frame, l, s
<1>6. FrameIs(frame, body, l)
  BY <1>2, <1>3, <1>4, FrameIsLaidOut DEF frame
<1>7. StreamIs(Stream, body, l, s)
  BY <1>1, <1>4, <1>5, <1>6, StreamIsLaidOut
<1> QED BY <1>2, <1>4, <1>7 DEF body

LEMMA CodecHeldInit ==
  ASSUME WellFormed, Init
  PROVE  CodecHeld
<1>1. message \in Messages /\ data = <<>> /\ verdict = "NeedMoreData" /\ consumed = 0
      /\ written = <<>>
  BY DEF Init
<1>2. PICK l, s : Sized(Body(message), l) /\ StreamIs(Stream, Body(message), l, s)
  BY <1>1, MessageIsLaidOut
<1>3. l \in Nat /\ s \in Nat /\ Stream \in Seq(Nat) /\ Sized(Stream, s)
  BY <1>2 DEF StreamIs
<1>4. data \in Seq(Nat) /\ Sized(data, 0)
  BY <1>1, EmptySeq DEF Sized
<1>5. ComesFrom(data, Stream, 0, s)
  BY <1>3, <1>4 DEF ComesFrom
<1>6. CodecHeldFor(Body(message), l, 0, s)
  <2>1. 0 < 5 + l /\ GoneOver(0, 0)
    BY <1>3 DEF GoneOver
  <2> QED BY <1>1, <1>2, <1>5, <2>1 DEF CodecHeldFor
<1> QED BY <1>1, <1>6 DEF CodecHeld

LEMMA CodecHeldArrive ==
  ASSUME WellFormed, CodecHeld, Arrive
  PROVE  CodecHeld'
<1>1. PICK body, l, n, s : CodecHeldFor(body, l, n, s)
  BY DEF CodecHeld
<1>2. /\ body = Body(message) /\ Sized(body, l)
      /\ ComesFrom(data, Stream, n, s) /\ StreamIs(Stream, body, l, s)
      /\ n < 5 + l => GoneOver(consumed, n)
      /\ n < 5 + l => verdict = "NeedMoreData"
  BY <1>1 DEF CodecHeldFor
<1>3. message \in Messages /\ message' = message /\ written = <<>> /\ written' = <<>>
  BY DEF CodecHeld, Arrive
<1>4. Stream' = Stream /\ Body(message)' = Body(message)
  BY <1>3 DEF Stream
<1>5. n \in Nat /\ s \in Nat /\ Sized(data, n) /\ Sized(Stream, s) /\ l \in Nat
  BY <1>2 DEF ComesFrom, StreamIs
<1>6. n < s /\ data' = Append(data, Stream[n + 1])
  BY <1>5 DEF Arrive, Sized
<1> DEFINE more == data'
           now == n + 1
<1>7. ComesFrom(more, Stream, now, s)
  BY <1>2, <1>6, OneMoreComes
<1>8. Len(more) = now /\ Sized(more, now) /\ more \in Seq(Nat)
  BY <1>7 DEF ComesFrom, Sized
<1>9. IF now < 5 + l THEN verdict' = "NeedMoreData" /\ GoneOver(consumed', now)
                     ELSE verdict' = "OK" /\ consumed' = l
  <2>1. CASE now < 5
    <3>1. verdict' = verdict /\ consumed' = consumed
      BY <1>8, <2>1 DEF Arrive, Header
    <3>2. n < 5 + l /\ now < 5 + l
      BY <1>5, <2>1
    <3>3. GoneOver(consumed, now)
      BY <1>2, <1>5, <3>2 DEF GoneOver
    <3> QED BY <1>2, <3>1, <3>2, <3>3
  <2>2. CASE ~ (now < 5)
    <3> DEFINE step == Validate(message.kind, more, Step("OK", Header, PeekInt32(more, 1) - 4))
    <3>1. verdict' = step.result /\ consumed' = step.at - 5
      BY <1>8, <2>2 DEF Arrive, Header
    <3>2. 5 <= now /\ now \in Nat
      BY <1>5, <2>2
    <3>3. PeekInt32(more, 1) = l + 4 /\ Begins(more, body)
      <4> HIDE DEF more, now
      <4> QED BY <1>2, <1>7, <3>2, WhatComes
    <3>4. Step("OK", Header, PeekInt32(more, 1) - 4) = At(body, 0)
      <4>1. Len(body) = l
        BY <1>2 DEF Sized
      <4>2. At(body, 0) = Step("OK", 5 + 0, l - 0)
        BY <4>1 DEF At, Header
      <4>3. 5 + 0 = 5 /\ l - 0 = l /\ (l + 4) - 4 = l
        BY <1>5
      <4> QED BY <3>3, <4>2, <4>3 DEF Header
    <3>5. message \in Message /\ LongEnough(message)
      BY <1>3 DEF WellFormed
    <3>6. Right(Validate(message.kind, more, At(body, 0)), more, body, l)
      <4> HIDE DEF more, now, step
      <4> QED BY <1>2, <1>5, <1>8, <3>2, <3>3, <3>5, MessageIsRight
    <3>7. Right(step, more, body, l)
      BY <3>4, <3>6
    <3> HIDE DEF step
    <3>8. CASE now < 5 + l
      <4>1. step.result = "NeedMoreData" /\ step.at \in 5 .. now
        BY <1>8, <3>7, <3>8 DEF Right, Header
      <4> HIDE DEF more
      <4>2. GoneOver(step.at - 5, now)
        BY <3>2, <4>1 DEF GoneOver
      <4> QED BY <3>1, <3>8, <4>1, <4>2
    <3>9. CASE ~ (now < 5 + l)
      <4>1. step = At(body, l)
        BY <1>8, <3>7, <3>9 DEF Right, Header
      <4>2. step.result = "OK" /\ step.at = 5 + l
        BY <4>1, AtAnOffset
      <4>3. (5 + l) - 5 = l
        BY <1>5
      <4> QED BY <3>1, <3>9, <4>2, <4>3
    <3> QED BY <3>8, <3>9
  <2> QED BY <2>1, <2>2
<1>10. CodecHeldFor(body, l, now, s)'
  BY <1>2, <1>3, <1>4, <1>7, <1>9 DEF CodecHeldFor
<1> QED BY <1>3, <1>10 DEF CodecHeld

LEMMA CodecHeldProcess ==
  ASSUME WellFormed, CodecHeld, Process
  PROVE  CodecHeld'
<1>1. PICK body, l, n, s : CodecHeldFor(body, l, n, s)
  BY DEF CodecHeld
<1>2. /\ message' = message /\ data' = data /\ verdict' = verdict /\ consumed' = consumed
      /\ verdict = "OK" /\ message \in Messages
      /\ written' = Replacement(message.kind, SubSeq(data, 6, PeekInt32(data, 1) + 1))
  BY DEF CodecHeld, Process, Header
<1>3. Stream' = Stream /\ Body(message)' = Body(message)
  BY <1>2 DEF Stream
<1>4. /\ body = Body(message) /\ Sized(body, l)
      /\ ComesFrom(data, Stream, n, s) /\ StreamIs(Stream, body, l, s)
      /\ ~ (n < 5 + l) /\ consumed = l
  <2>1. CASE n < 5 + l
    BY <1>1, <1>2, <2>1 DEF CodecHeldFor
  <2>2. CASE ~ (n < 5 + l)
    BY <1>1, <2>2 DEF CodecHeldFor
  <2> QED BY <2>1, <2>2
<1>5. n \in Nat /\ l \in Nat /\ data \in Seq(Nat) /\ Sized(data, n)
  BY <1>4 DEF ComesFrom, StreamIs
<1>6. PeekInt32(data, 1) = l + 4 /\ Begins(data, body)
  <2>1. 5 <= n
    BY <1>4, <1>5
  <2> QED BY <1>4, <2>1, WhatComes
<1> DEFINE part == SubSeq(data, 6, 5 + l)
<1>7. SubSeq(data, 6, PeekInt32(data, 1) + 1) = part
  <2>1. l + 4 + 1 = 5 + l
    BY <1>5
  <2> QED BY <1>6, <2>1
<1>8. body \in Seq(Nat)
  BY <1>2, <1>4, MessageIsRight DEF WellFormed
<1>9. part \in Seq(Nat) /\ Sized(part, l) /\ \A k \in 1 .. l : part[k] = data[5 + k]
  <2> DEFINE end == 5 + l
  <2>1. \A k \in 6 .. end : data[k] \in Nat
    <3>1. \A k \in 1 .. n : data[k] \in Nat
      BY <1>5, ElementOfSeq DEF Sized
    <3>2. \A k \in 6 .. end : k \in 1 .. n
      BY <1>4, <1>5
    <3> QED BY <3>1, <3>2
  <2>2. end \in Int /\ 6 \in Int
    BY <1>5
  <2> HIDE DEF end
  <2>3. /\ SubSeq(data, 6, end) \in Seq(Nat)
        /\ Len(SubSeq(data, 6, end)) = IF 6 <= end THEN end - 6 + 1 ELSE 0
        /\ \A k \in 1 .. end - 6 + 1 : SubSeq(data, 6, end)[k] = data[6 + k - 1]
    BY <2>1, <2>2, SubSeqProperties
  <2>4. /\ end - 6 + 1 = l /\ (IF 6 <= end THEN end - 6 + 1 ELSE 0) = l
        /\ \A k \in 1 .. l : 6 + k - 1 = 5 + k
    BY <1>5 DEF end
  <2>5. \A k \in 1 .. l : SubSeq(data, 6, end)[k] = data[5 + k]
    BY <2>3, <2>4
  <2>6. part = SubSeq(data, 6, end)
    BY DEF end
  <2> HIDE DEF part
  <2> QED BY <2>3, <2>4, <2>5, <2>6 DEF Sized
<1>10. \A k \in 1 .. l : data[5 + k] = body[k]
  <2>1. \A k \in 1 .. l : 5 + k <= n
    BY <1>4, <1>5
  <2> QED BY <1>4, <1>5, <1>6, <2>1 DEF Begins, Header, Sized
<1>11. part = body
  <2> HIDE DEF part
  <2>1. \A k \in 1 .. l : part[k] = body[k]
    BY <1>9, <1>10
  <2> QED BY <1>4, <1>8, <1>9, <2>1, SameSequence
<1>12. written' = Replacement(message.kind, body) /\ n >= 5 + l
  <2> HIDE DEF part
  <2>1. written' = Replacement(message.kind, part)
    BY <1>2, <1>7
  <2>2. n >= 5 + l
    BY <1>4, <1>5
  <2> QED BY <1>11, <2>1, <2>2
<1>13. CodecHeldFor(body, l, n, s)'
  BY <1>2, <1>3, <1>4, <1>12 DEF CodecHeldFor
<1> QED BY <1>2, <1>13 DEF CodecHeld

LEMMA CodecHeldNext ==
  ASSUME WellFormed, CodecHeld, [Next]_vars
  PROVE  CodecHeld'
<1>1. CASE Arrive
  BY <1>1, CodecHeldArrive
<1>2. CASE Process
  BY <1>2, CodecHeldProcess
<1>3. CASE UNCHANGED vars
  <2>1. PICK body, l, n, s : CodecHeldFor(body, l, n, s)
    BY DEF CodecHeld
  <2>2. message' = message /\ data' = data /\ verdict' = verdict /\ consumed' = consumed
        /\ written' = written /\ message \in Messages
    BY <1>3 DEF vars, CodecHeld
  <2>3. Stream' = Stream /\ Body(message)' = Body(message)
    BY <2>2 DEF Stream
  <2>4. CodecHeldFor(body, l, n, s)'
    BY <2>1, <2>2, <2>3 DEF CodecHeldFor
  <2> QED BY <2>2, <2>4 DEF CodecHeld
<1> QED BY <1>1, <1>2, <1>3 DEF Next

LEMMA CodecIsHeld ==
  ASSUME WellFormed
  PROVE  Spec => []CodecHeld
<1>1. Init => CodecHeld
  BY CodecHeldInit
<1>2. CodecHeld /\ [Next]_vars => CodecHeld'
  BY CodecHeldNext
<1> QED BY <1>1, <1>2, PTL DEF Spec

(* Whatever the messages and what follows, the bytes are those of the       *)
(* message, the validation keeps to those that have come, and nothing is    *)
(* written but for a valid one.                                             *)
THEOREM CodecIsTyped ==
  ASSUME WellFormed
  PROVE  Spec => []TypeOK
<1>1. CodecHeld => TypeOK
  <2> SUFFICES ASSUME CodecHeld PROVE TypeOK
    OBVIOUS
  <2>1. PICK body, l, n, s : CodecHeldFor(body, l, n, s)
    BY DEF CodecHeld
  <2>2. /\ ComesFrom(data, Stream, n, s) /\ StreamIs(Stream, body, l, s)
        /\ (n < 5 + l /\ verdict = "NeedMoreData" /\ GoneOver(consumed, n))
           \/ (~ (n < 5 + l) /\ verdict = "OK" /\ consumed = l)
        /\ written # <<>> => n >= 5 + l
    BY <2>1 DEF CodecHeldFor
  <2>3. /\ data \in Seq(Nat) /\ Stream \in Seq(Nat) /\ Sized(data, n) /\ Sized(Stream, s)
        /\ n \in Nat /\ s \in Nat /\ n <= s /\ \A k \in 1 .. n : data[k] = Stream[k]
    BY <2>2 DEF ComesFrom
  <2>4. l \in Nat /\ 5 + l <= s
    BY <2>2 DEF StreamIs
  <2>5. Len(data) = n /\ Len(Stream) = s
    BY <2>3 DEF Sized
  <2>6. IsPrefix(data, Stream)
    <3> DEFINE a == SubSeq(data, 1, n)
               b == SubSeq(Stream, 1, n)
    <3>1. /\ \A k \in 1 .. n : data[k] \in Nat
          /\ \A k \in 1 .. n : Stream[k] \in Nat
      <4>1. \A k \in 1 .. n : data[k] \in Nat
        BY <2>3, ElementOfSeq DEF Sized
      <4> QED BY <2>3, <4>1
    <3>2. 1 \in Int /\ n \in Int
      BY <2>3
    <3>3. /\ a \in Seq(Nat) /\ Len(a) = (IF 1 <= n THEN n - 1 + 1 ELSE 0)
          /\ \A k \in 1 .. n - 1 + 1 : a[k] = data[1 + k - 1]
      BY <3>1, <3>2, SubSeqProperties
    <3>4. /\ b \in Seq(Nat) /\ Len(b) = (IF 1 <= n THEN n - 1 + 1 ELSE 0)
          /\ \A k \in 1 .. n - 1 + 1 : b[k] = Stream[1 + k - 1]
      BY <3>1, <3>2, SubSeqProperties
    <3> HIDE DEF a, b
    <3>5. /\ n - 1 + 1 = n /\ (IF 1 <= n THEN n - 1 + 1 ELSE 0) = n
          /\ \A k \in 1 .. n : 1 + k - 1 = k
      BY <2>3
    <3>6. /\ Sized(a, n) /\ Sized(b, n) /\ \A k \in 1 .. n : a[k] = b[k]
      BY <2>3, <3>3, <3>4, <3>5 DEF Sized
    <3>7. a = b
      BY <3>3, <3>4, <3>6, SameSequence
    <3> QED BY <2>3, <2>5, <3>7 DEF IsPrefix, a, b
  <2>7. /\ verdict \in {"OK", "NeedMoreData", "Failed"}
        /\ consumed \in Nat /\ (consumed > 0 => Header + consumed <= n)
    BY <2>2, <2>3, <2>4 DEF GoneOver, Header
  <2>8. written # <<>> => verdict = "OK"
    BY <2>2, <2>3, <2>4
  <2> QED BY <2>5, <2>6, <2>7, <2>8 DEF TypeOK, CodecHeld
<1> QED BY <1>1, CodecIsHeld, PTL

(* Wherever the stream is cut, a part of a message is never taken for the   *)
(* whole nor for a malformed one, and the whole never waits for more.       *)
THEOREM WholeMessagesAreValid ==
  ASSUME WellFormed
  PROVE  Spec => []ValidExactlyWhenWhole
<1>1. CodecHeld => ValidExactlyWhenWhole
  <2> SUFFICES ASSUME CodecHeld PROVE ValidExactlyWhenWhole
    OBVIOUS
  <2>1. PICK body, l, n, s : CodecHeldFor(body, l, n, s)
    BY DEF CodecHeld
  <2>2. /\ body = Body(message) /\ Sized(body, l) /\ ComesFrom(data, Stream, n, s)
        /\ verdict = IF n < 5 + l THEN "NeedMoreData" ELSE "OK"
    BY <2>1 DEF CodecHeldFor
  <2>3. Len(data) = n /\ BodyLength = l
    BY <2>2 DEF ComesFrom, Sized, BodyLength
  <2> QED BY <2>2, <2>3 DEF ValidExactlyWhenWhole, Header
<1> QED BY <1>1, CodecIsHeld, PTL

(* The validation of a whole message goes over all of it and over nothing   *)
(* of what follows.                                                         *)
THEOREM WholeMessagesAreConsumed ==
  ASSUME WellFormed
  PROVE  Spec => []ConsumedToTheEnd
<1>1. CodecHeld => ConsumedToTheEnd
  <2> SUFFICES ASSUME CodecHeld PROVE ConsumedToTheEnd
    OBVIOUS
  <2>1. PICK body, l, n, s : CodecHeldFor(body, l, n, s)
    BY DEF CodecHeld
  <2>2. /\ body = Body(message) /\ Sized(body, l)
        /\ verdict = "OK" => consumed = l
    BY <2>1 DEF CodecHeldFor
  <2>3. BodyLength = l
    BY <2>2 DEF Sized, BodyLength
  <2> QED BY <2>2, <2>3 DEF ConsumedToTheEnd
<1> QED BY <1>1, CodecIsHeld, PTL

-----------------------------------------------------------------------------
(* Reading: what was laid out is found again.                               *)

PartAt(body, o, part, size) == \A k \in 1 .. size : body[o + k] = part[k]

LEMMA PartIs ==
  ASSUME NEW S, NEW body \in Seq(S), NEW l \in Nat, Sized(body, l),
         NEW o \in Nat, NEW size \in Nat, o + size <= l,
         NEW part \in Seq(S), Sized(part, size), PartAt(body, o, part, size)
  PROVE  SubSeq(body, o + 1, o + size) = part
<1> DEFINE first == o + 1
           last == o + size
           cut == SubSeq(body, first, last)
<1>1. first \in Int /\ last \in Int /\ \A k \in first .. last : k \in 1 .. l
  OBVIOUS
<1>2. \A k \in 1 .. l : body[k] \in S
  BY ElementOfSeq DEF Sized
<1>3. /\ last - first + 1 = size
      /\ (IF first <= last THEN last - first + 1 ELSE 0) = size
      /\ \A k \in 1 .. size : first + k - 1 = o + k
  OBVIOUS
<1> HIDE DEF first, last
<1>4. /\ cut \in Seq(S) /\ Len(cut) = (IF first <= last THEN last - first + 1 ELSE 0)
      /\ \A k \in 1 .. last - first + 1 : cut[k] = body[first + k - 1]
  <2>1. \A k \in first .. last : body[k] \in S
    BY <1>1, <1>2
  <2> QED BY <1>1, <2>1, SubSeqProperties
<1> HIDE DEF cut
<1>5. Sized(cut, size) /\ \A k \in 1 .. size : cut[k] = part[k]
  BY <1>3, <1>4 DEF Sized, PartAt
<1>6. cut = part
  BY <1>4, <1>5, SameSequence
<1> QED BY <1>6 DEF cut, first, last

LEMMA OneMoreRead ==
  ASSUME NEW S, NEW s \in Seq(S), NEW n \in Nat, Sized(s, n), NEW i \in 1 .. n
  PROVE  Append(SubSeq(s, 1, i - 1), s[i]) = SubSeq(s, 1, i)
<1> DEFINE a == SubSeq(s, 1, i - 1)
           b == SubSeq(s, 1, i)
           c == Append(a, s[i])
<1>1. \A k \in 1 .. n : s[k] \in S
  BY ElementOfSeq DEF Sized
<1>2. 1 \in Int /\ i \in Int /\ i - 1 \in Int
  OBVIOUS
<1>3. /\ a \in Seq(S) /\ Len(a) = (IF 1 <= i - 1 THEN i - 1 - 1 + 1 ELSE 0)
      /\ \A k \in 1 .. i - 1 - 1 + 1 : a[k] = s[1 + k - 1]
  <2>1. \A k \in 1 .. i - 1 : s[k] \in S
    BY <1>1
  <2> QED BY <1>2, <2>1, SubSeqProperties
<1>4. /\ b \in Seq(S) /\ Len(b) = (IF 1 <= i THEN i - 1 + 1 ELSE 0)
      /\ \A k \in 1 .. i - 1 + 1 : b[k] = s[1 + k - 1]
  <2>1. \A k \in 1 .. i : s[k] \in S
    BY <1>1
  <2> QED BY <1>2, <2>1, SubSeqProperties
<1> HIDE DEF a, b
<1>5. Len(a) = i - 1 /\ \A k \in 1 .. i - 1 : a[k] = s[k]
  <2>1. /\ i - 1 - 1 + 1 = i - 1 /\ (IF 1 <= i - 1 THEN i - 1 - 1 + 1 ELSE 0) = i - 1
        /\ \A k \in 1 .. i - 1 : 1 + k - 1 = k
    OBVIOUS
  <2> QED BY <1>3, <2>1
<1>6. Sized(b, i) /\ \A k \in 1 .. i : b[k] = s[k]
  <2>1. /\ i - 1 + 1 = i /\ (IF 1 <= i THEN i - 1 + 1 ELSE 0) = i
        /\ \A k \in 1 .. i : 1 + k - 1 = k
    OBVIOUS
  <2> QED BY <1>4, <2>1 DEF Sized
<1>7. /\ c \in Seq(S) /\ Len(c) = Len(a) + 1
      /\ \A k \in 1 .. Len(a) : c[k] = a[k]
      /\ c[Len(a) + 1] = s[i]
  BY <1>1, <1>3, AppendProperties
<1> HIDE DEF c
<1>8. Sized(c, i) /\ \A k \in 1 .. i : c[k] = s[k]
  <2>1. (i - 1) + 1 = i /\ \A k \in 1 .. i : k \in 1 .. i - 1 \/ k = i
    OBVIOUS
  <2>2. Len(c) = i /\ c[i] = s[i] /\ \A k \in 1 .. i - 1 : c[k] = s[k]
    BY <1>5, <1>7, <2>1
  <2>3. \A k \in 1 .. i : c[k] = s[k]
    BY <2>1, <2>2
  <2> QED BY <2>2, <2>3 DEF Sized
<1>9. \A k \in 1 .. i : c[k] = b[k]
  BY <1>6, <1>8
<1>10. c = b
  BY <1>4, <1>6, <1>7, <1>8, <1>9, SameSequence
<1> QED BY <1>10 DEF a, b, c

LEMMA WholeRead ==
  ASSUME NEW S, NEW s \in Seq(S), NEW n \in Nat, Sized(s, n)
  PROVE  SubSeq(s, 1, n) = s /\ SubSeq(s, 1, 0) = <<>>
<1>1. n = Len(s)
  BY DEF Sized
<1>2. SubSeq(s, 1, 0) = <<>>
  BY SubSeqEmpty
<1>3. SubSeq(s, 1, n) = s
  BY <1>1, SubSeqFull
<1> QED BY <1>2, <1>3

LEMMA TextIsRead ==
  ASSUME NEW body \in Seq(Nat), NEW l \in Nat, Sized(body, l),
         NEW o \in Nat, NEW size \in Nat, o + size + 1 <= l,
         NEW text \in Text, Sized(text, size), TextAt(body, o, text, size)
  PROVE  ReadString(body, o) = text
<1> DEFINE zeros == {i \in o + 1 .. l : body[i] = 0}
           z == o + size + 1
<1>1. body[z] = 0 /\ \A k \in 1 .. size : body[o + k] = text[k] /\ body[o + k] # 0
  BY DEF TextAt
<1>2. ReadString(body, o) = SubSeq(body, o + 1, Min(zeros) - 1)
  BY DEF ReadString, Sized
<1>3. z \in zeros
  BY <1>1
<1>4. ASSUME NEW i \in zeros PROVE z <= i /\ i \in Int
  <2>1. i \in o + 1 .. l /\ body[i] = 0
    OBVIOUS
  <2>2. CASE i < z
    <3> DEFINE k == i - o
    <3>1. k \in 1 .. size /\ o + k = i
      BY <2>1, <2>2
    <3> HIDE DEF k
    <3>2. body[o + k] # 0
      BY <1>1, <3>1
    <3> QED BY <2>1, <3>1, <3>2
  <2> QED BY <2>1, <2>2
<1>5. Min(zeros) = z
  <2>1. z \in Int
    OBVIOUS
  <2> HIDE DEF zeros, z
  <2>2. \A x \in zeros : (\A y \in zeros : x <= y) => x = z
    BY <1>3, <1>4, <2>1
  <2> QED BY <1>3, <1>4, <2>2 DEF Min
<1>6. z - 1 = o + size /\ o + size <= l
  OBVIOUS
<1>7. text \in Seq(Nat)
  <2>1. text \in [1 .. size -> Nat \ {0}]
    BY LenProperties DEF Text, Sized
  <2>2. text \in [1 .. size -> Nat]
    BY <2>1
  <2> QED BY <2>2, SeqDef
<1>8. PartAt(body, o, text, size)
  BY <1>1 DEF PartAt
<1>9. SubSeq(body, o + 1, o + size) = text
  BY <1>6, <1>7, <1>8, PartIs
<1> HIDE DEF zeros, z
<1> QED BY <1>2, <1>5, <1>6, <1>9

(* A value of no byte is read as no value.                                  *)
Reread(value) == IF value = <<>> THEN Null ELSE value

LEMMA NullIsNoText == Null # <<>> /\ Null \notin Seq(Nat)
<1>1. Null # <<>>
  BY DEF Null
<1>2. SUFFICES ASSUME Null \in Seq(Nat) PROVE FALSE
  BY <1>1
<1>3. Null[1] \in Nat
  <2>1. Len(Null) = 1 /\ 1 \in 1 .. 1
    BY DEF Null
  <2> QED BY <1>2, <2>1, ElementOfSeq
<1>4. Null[1] = -1
  BY DEF Null
<1> QED BY <1>3, <1>4

LEMMA ColumnIsRead ==
  ASSUME NEW body \in Seq(Nat), NEW l \in Nat, Sized(body, l), NEW o \in Nat,
         NEW value \in Value, NEW size \in Nat, Sized(ColumnBytes(value), size), o + size <= l,
         PartAt(body, o, ColumnBytes(value), size)
  PROVE  /\ ReadVarByteN(body, o) = Reread(value) /\ Reread(value) \in Value
         /\ SizeOf(Reread(value)) = size /\ size >= 4
<1> DEFINE len == PeekInt32(body, o)
<1>1. len = IF body[o + 1] = 255 THEN -1 ELSE body[o + 4]
  BY DEF PeekInt32
<1>2. ReadVarByteN(body, o) = IF len < 1 THEN Null ELSE SubSeq(body, o + 5, o + 4 + len)
  BY DEF ReadVarByteN
<1>3. size = Len(ColumnBytes(value))
  BY DEF Sized
<1> HIDE DEF len
<1>4. Null \in Value
  BY DEF Value
<1>5. CASE value = Null
  <2>1. size = 4 /\ ColumnBytes(value)[1] = 255
    BY <1>3, <1>5, ColumnInBytes
  <2>2. 1 \in 1 .. size
    BY <2>1
  <2>3. body[o + 1] = 255
    <3>1. body[o + 1] = ColumnBytes(value)[1]
      BY <2>2 DEF PartAt
    <3> QED BY <2>1, <3>1
  <2>4. len = -1
    BY <1>1, <2>3
  <2>5. Reread(value) = Null
    BY <1>5 DEF Reread
  <2> QED BY <1>2, <1>4, <2>1, <2>4, <2>5 DEF SizeOf
<1>6. CASE value # Null
  <2> DEFINE long == Len(value)
  <2>1. /\ value \in Seq(Nat) /\ long \in Nat /\ size = 4 + long
        /\ ColumnBytes(value)[1] = 0 /\ ColumnBytes(value)[4] = long
        /\ \A k \in 1 .. long : ColumnBytes(value)[4 + k] = value[k]
    BY <1>3, <1>6, ColumnInBytes
  <2>2. value = <<>> <=> long = 0
    BY <2>1, EmptySeq
  <2>3. Sized(value, long) /\ SizeOf(value) = 4 + long
    BY <1>6 DEF Sized, SizeOf
  <2> HIDE DEF long
  <2>4. 1 \in 1 .. size /\ 4 \in 1 .. size /\ size >= 4
    BY <2>1
  <2>5. body[o + 1] = 0 /\ body[o + 4] = long
    BY <2>1, <2>4 DEF PartAt
  <2>6. len = long
    BY <1>1, <2>5
  <2>7. CASE long = 0
    <3>1. Reread(value) = Null /\ ReadVarByteN(body, o) = Null
      BY <1>2, <2>2, <2>6, <2>7 DEF Reread
    <3> QED BY <1>4, <2>1, <2>7, <3>1 DEF SizeOf
  <2>8. CASE long # 0
    <3>1. Reread(value) = value
      BY <2>2, <2>8 DEF Reread
    <3> DEFINE at == o + 4
    <3>2. SubSeq(body, at + 1, at + long) = value
      <4>1. at \in Nat /\ at + long <= l
        BY <2>1
      <4>2. PartAt(body, at, value, long)
        <5>1. \A k \in 1 .. long : 4 + k \in 1 .. size /\ o + (4 + k) = at + k
          BY <2>1
        <5>2. \A k \in 1 .. long : body[o + (4 + k)] = ColumnBytes(value)[4 + k]
          BY <5>1 DEF PartAt
        <5>3. \A k \in 1 .. long : body[at + k] = body[o + (4 + k)]
          BY <5>1
        <5> HIDE DEF at
        <5> QED BY <2>1, <5>2, <5>3 DEF PartAt
      <4> HIDE DEF at
      <4> QED BY <2>1, <2>3, <4>1, <4>2, PartIs
    <3>3. at + 1 = o + 5 /\ at + long = o + 4 + len /\ ~ (len < 1)
      BY <2>1, <2>6, <2>8
    <3> HIDE DEF at
    <3>4. ReadVarByteN(body, o) = value
      BY <1>2, <3>2, <3>3
    <3> QED BY <2>1, <2>3, <2>4, <3>1, <3>4
  <2> QED BY <2>7, <2>8
<1> QED BY <1>5, <1>6

RereadAll(columns) == [i \in 1 .. Len(columns) |-> Reread(columns[i])]

LEMMA RowIsRead ==
  ASSUME NEW columns \in Seq(Value), NEW body, body = RowBody(columns),
         NEW l \in Nat, Sized(body, l)
  PROVE  ReadColumns(body) = RereadAll(columns) /\ RereadAll(columns) \in Seq(Value)
<1> DEFINE count == Len(columns)
           all == RereadAll(columns)
           size(i) == ColumnSize(columns, i)
<1>1. body \in Seq(Nat)
  BY RowIsLaidOut
<1>2. PICK ends : RowIs(body, columns, ends)
  BY RowIsLaidOut
<1>3. count \in Nat /\ \A i \in 1 .. count : columns[i] \in Value
  BY LenProperties, ElementOfSeq
<1>4. \A i \in 1 .. count : size(i) \in Nat /\ Sized(ColumnBytes(columns[i]), size(i))
  BY <1>3, ColumnInBytes, LenProperties DEF ColumnSize, Sized
<1>5. /\ ends \in [0 .. count -> Nat] /\ ends[0] = 2 /\ body[2] = count
      /\ \A i \in 1 .. count :
           /\ ends[i] = ends[i - 1] + size(i) /\ ends[i] <= l
           /\ \A k \in 1 .. size(i) : body[ends[i - 1] + k] = ColumnBytes(columns[i])[k]
  <2>1. l = Len(body)
    BY DEF Sized
  <2>2. /\ ends \in [0 .. count -> Nat] /\ ends[0] = 2
        /\ body[2] = count
        /\ \A i \in 1 .. count :
             /\ ends[i] = ends[i - 1] + ColumnSize(columns, i) /\ ends[i] <= Len(body)
             /\ \A k \in 1 .. ColumnSize(columns, i) :
                  body[ends[i - 1] + k] = ColumnBytes(columns[i])[k]
    BY <1>2, Zenon DEF RowIs, count
  <2> QED BY <2>1, <2>2, Zenon
<1>6. \A i \in 1 .. count : all[i] = Reread(columns[i])
  BY DEF RereadAll
<1> HIDE DEF count, size
<1>7. \A i \in 1 .. count : ends[i] \in Nat /\ ends[i - 1] \in Nat /\ i \in 0 .. count
                            /\ i - 1 \in 0 .. count /\ i # 0
  <2>1. \A i \in 1 .. count : i \in 0 .. count /\ i - 1 \in 0 .. count /\ i # 0
    BY <1>3
  <2> QED BY <1>5, <2>1
<1>8. ASSUME NEW i \in 1 .. count
      PROVE  /\ ReadVarByteN(body, ends[i - 1]) = all[i] /\ all[i] \in Value
             /\ ends[i] = ends[i - 1] + SizeOf(all[i])
  <2> DEFINE o == ends[i - 1]
             s == size(i)
             value == columns[i]
  <2>1. o \in Nat /\ s \in Nat /\ ends[i] = o + s /\ ends[i] <= l /\ value \in Value
    BY <1>3, <1>4, <1>5, <1>7
  <2>2. Sized(ColumnBytes(value), s) /\ PartAt(body, o, ColumnBytes(value), s)
    BY <1>4, <1>5 DEF PartAt
  <2>3. all[i] = Reread(value)
    BY <1>6
  <2> HIDE DEF o, s, value, all
  <2>4. o + s <= l
    BY <2>1
  <2>5. /\ ReadVarByteN(body, o) = Reread(value) /\ Reread(value) \in Value
        /\ SizeOf(Reread(value)) = s
    BY <1>1, <2>1, <2>2, <2>4, ColumnIsRead
  <2> QED BY <2>1, <2>3, <2>5 DEF o
<1>9. all \in Seq(Value) /\ Sized(all, count)
  <2>1. all = [i \in 1 .. count |-> all[i]]
    BY DEF RereadAll, count
  <2>2. \A i \in 1 .. count : all[i] \in Value
    BY <1>8
  <2> HIDE DEF all
  <2>3. all \in [1 .. count -> Value]
    BY <2>1, <2>2
  <2>4. all \in Seq(Value)
    BY <1>3, <2>3, SeqDef
  <2>5. DOMAIN all = 1 .. count
    BY <2>3
  <2> QED BY <1>3, <2>4, <2>5, LenProperties DEF Sized
<1> HIDE DEF all
<1> DEFINE start == [at |-> 2, values |-> <<>>]
           Column(done, i) ==
             [at |-> done.at + SizeOf(ReadVarByteN(body, done.at)),
              values |-> Append(done.values, ReadVarByteN(body, done.at))]
           after == CHOOSE g : g = [i \in 0 .. count |->
                       IF i = 0 THEN start ELSE Column(g[i - 1], i)]
           read == [i \in 0 .. count |-> [at |-> ends[i], values |-> SubSeq(all, 1, i)]]
<1>10. ReadColumns(body) = after[count].values
  <2>1. PeekInt16(body, 0) = count
    <3>1. 0 + 2 = 2
      OBVIOUS
    <3> QED BY <1>5, <3>1 DEF PeekInt16
  <2> QED BY <2>1 DEF ReadColumns, Loop
<1>11. read[0] = start
  <2>1. SubSeq(all, 1, 0) = <<>> /\ 0 \in 0 .. count
    BY <1>3, <1>9, WholeRead
  <2> QED BY <1>5, <2>1
<1>12. ASSUME NEW i \in 1 .. count PROVE read[i] = Column(read[i - 1], i)
  <2>1. read[i - 1] = [at |-> ends[i - 1], values |-> SubSeq(all, 1, i - 1)]
        /\ read[i] = [at |-> ends[i], values |-> SubSeq(all, 1, i)]
    BY <1>7
  <2>2. Append(SubSeq(all, 1, i - 1), all[i]) = SubSeq(all, 1, i)
    BY <1>3, <1>9, OneMoreRead
  <2> HIDE DEF read
  <2>3. read[i - 1].at = ends[i - 1] /\ read[i - 1].values = SubSeq(all, 1, i - 1)
    BY <2>1
  <2> QED BY <1>8, <2>1, <2>2, <2>3
<1> HIDE DEF Column, start
<1>13. \E g : g = [i \in 0 .. count |-> IF i = 0 THEN start ELSE Column(g[i - 1], i)]
  <2>1. read = [i \in 0 .. count |-> read[i]]
    OBVIOUS
  <2> HIDE DEF read
  <2>2. \A i \in 0 .. count : read[i] = IF i = 0 THEN start ELSE Column(read[i - 1], i)
    <3>1. \A i \in 0 .. count : i = 0 \/ i \in 1 .. count
      BY <1>3
    <3> QED BY <1>7, <1>11, <1>12, <3>1
  <2>3. read = [i \in 0 .. count |-> IF i = 0 THEN start ELSE Column(read[i - 1], i)]
    BY <2>1, <2>2
  <2> QED BY <2>3
<1>14. after = [i \in 0 .. count |-> IF i = 0 THEN start ELSE Column(after[i - 1], i)]
  BY <1>13
<1> HIDE DEF after
<1> DEFINE T == {i \in 0 .. count : after[i] = read[i]}
<1>15. 0 \in T
  <2>1. 0 \in 0 .. count
    BY <1>3
  <2> HIDE DEF read
  <2> QED BY <1>11, <1>14, <2>1
<1>16. ASSUME NEW i \in 1 .. count, i - 1 \in T PROVE i \in T
  <2>1. after[i] = Column(after[i - 1], i) /\ i \in 0 .. count
    BY <1>7, <1>14
  <2> HIDE DEF read
  <2> QED BY <1>12, <1>16, <2>1
<1>17. after[count] = read[count] /\ count \in 0 .. count
  <2> HIDE DEF T
  <2>1. \A i \in 0 .. count : i \in T
    BY <1>3, <1>15, <1>16, CountingUp
  <2> QED BY <1>3, <2>1 DEF T
<1>18. read[count].values = all
  <2>1. SubSeq(all, 1, count) = all
    BY <1>3, <1>9, WholeRead
  <2> QED BY <1>17, <2>1
<1> HIDE DEF read
<1> QED BY <1>9, <1>10, <1>17, <1>18 DEF all

LEMMA FieldIsRead ==
  ASSUME NEW body \in Seq(Nat), NEW l \in Nat, Sized(body, l), NEW o \in Nat,
         NEW field \in ErrorField, NEW size, Sized(field.text, size), o + size + 2 <= l,
         PartAt(body, o, FieldBytes(field), size + 2)
  PROVE  /\ ReadString(body, o + 1) = field.text
         /\ [code |-> body[o + 1], text |-> field.text] = field
<1>1. /\ size \in Nat /\ FieldBytes(field)[1] = field.code /\ FieldBytes(field)[size + 2] = 0
      /\ \A k \in 1 .. size : /\ FieldBytes(field)[k + 1] = field.text[k]
                              /\ field.text[k] # 0
  BY FieldInBytes
<1>2. 1 \in 1 .. size + 2 /\ size + 2 \in 1 .. size + 2
      /\ \A k \in 1 .. size : k + 1 \in 1 .. size + 2
  BY <1>1
<1>3. \A k \in 1 .. size + 2 : body[o + k] = FieldBytes(field)[k]
  BY DEF PartAt
<1>4. body[o + 1] = field.code
  BY <1>1, <1>2, <1>3
<1> DEFINE first == o + 1
           text == field.text
<1>5. body[first + size + 1] = 0
  <2>1. o + (size + 2) = first + size + 1
    BY <1>1
  <2>2. body[o + (size + 2)] = 0
    BY <1>1, <1>2, <1>3
  <2> HIDE DEF first
  <2> QED BY <2>1, <2>2
<1>6. \A k \in 1 .. size : body[first + k] = text[k] /\ body[first + k] # 0
  <2>1. \A k \in 1 .. size : o + (k + 1) = first + k
    BY <1>1
  <2>2. \A k \in 1 .. size : body[o + (k + 1)] = text[k] /\ text[k] # 0
    BY <1>1, <1>2, <1>3
  <2> HIDE DEF first, text
  <2> QED BY <2>1, <2>2
<1>7. TextAt(body, first, text, size)
  BY <1>5, <1>6 DEF TextAt
<1>8. text \in Text /\ Sized(text, size) /\ first \in Nat /\ first + size + 1 <= l
  BY <1>1 DEF ErrorField
<1>9. ReadString(body, first) = text
  <2> HIDE DEF first, text
  <2> QED BY <1>1, <1>7, <1>8, TextIsRead
<1>10. [code |-> field.code, text |-> field.text] = field
  BY DEF ErrorField
<1> QED BY <1>4, <1>9, <1>10

LEMMA ErrorIsRead ==
  ASSUME NEW fields \in Seq(ErrorField), NEW body, body = ErrorBody(fields)
  PROVE  ReadFields(body) = fields
<1> DEFINE count == Len(fields)
           l == Len(body)
           start == [at |-> 0, values |-> <<>>]
           Field(done, i) ==
             IF done.at >= l - 1 THEN done
             ELSE [at |-> done.at + Len(ReadString(body, done.at + 1)) + 2,
                   values |-> Append(done.values,
                                     [code |-> body[done.at + 1],
                                      text |-> ReadString(body, done.at + 1)])]
           after == CHOOSE g : g = [i \in 0 .. l |->
                       IF i = 0 THEN start ELSE Field(g[i - 1], i)]
<1>1. ReadFields(body) = after[l].values
  BY DEF ReadFields, Loop
<1>2. body \in Seq(Nat) /\ Sized(body, l) /\ l \in Nat
  BY ErrorIsLaidOut, LenProperties DEF Sized
<1> HIDE DEF l
<1>3. PICK ends : ErrorIs(body, fields, ends)
  BY ErrorIsLaidOut
<1>4. count < l /\ Sized(fields, count)
  BY <1>2, <1>3, FewFields DEF Sized
<1> HIDE DEF count
<1> DEFINE last == ends[count]
           size(i) == FieldSize(fields, i)
<1>5. /\ count \in Nat /\ ends[0] = 0 /\ l = last + 1 /\ last \in Nat
      /\ \A i \in 1 .. count :
           /\ fields[i] \in ErrorField
           /\ i \in 0 .. count /\ i - 1 \in 0 .. count /\ i # 0
           /\ ends[i] \in Nat /\ ends[i - 1] \in Nat
           /\ size(i) \in Nat /\ size(i) >= 2
           /\ ends[i] = ends[i - 1] + size(i) /\ ends[i] <= last
           /\ \A k \in 1 .. size(i) : body[ends[i - 1] + k] = FieldBytes(fields[i])[k]
  <2>1. FieldsLaid(body, fields, ends, l, count)
    BY <1>2, <1>3, <1>4, FieldsAre
  <2> QED BY <2>1 DEF FieldsLaid
<1> HIDE DEF last, size
<1>6. ASSUME NEW i \in 1 .. count
      PROVE  /\ ReadString(body, ends[i - 1] + 1) = fields[i].text
             /\ [code |-> body[ends[i - 1] + 1], text |-> fields[i].text] = fields[i]
             /\ ends[i] = ends[i - 1] + Len(fields[i].text) + 2
             /\ ~ (ends[i - 1] >= l - 1)
  <2> DEFINE o == ends[i - 1]
             field == fields[i]
             long == Len(field.text)
  <2>1. /\ o \in Nat /\ size(i) \in Nat /\ ends[i] = o + size(i) /\ ends[i] <= last
        /\ field \in ErrorField /\ size(i) >= 2
    BY <1>5
  <2>2. Sized(field.text, long) /\ size(i) = long + 2
    BY DEF Sized, size, FieldSize
  <2>3. PartAt(body, o, FieldBytes(field), size(i))
    BY <1>5 DEF PartAt
  <2> HIDE DEF o, field, long
  <2>4. long \in Nat
    BY <2>1, <2>2, FieldInBytes
  <2>5. /\ o + long + 2 <= l /\ ends[i] = o + long + 2 /\ ~ (o >= l - 1)
    BY <1>5, <2>1, <2>2, <2>4
  <2>6. PartAt(body, o, FieldBytes(field), long + 2)
    BY <2>2, <2>3
  <2>7. /\ ReadString(body, o + 1) = field.text
        /\ [code |-> body[o + 1], text |-> field.text] = field
    BY <1>2, <2>1, <2>2, <2>5, <2>6, FieldIsRead
  <2> QED BY <2>5, <2>7 DEF o, field, long
<1> DEFINE upTo(i) == IF i <= count THEN i ELSE count
           read == [i \in 0 .. l |-> [at |-> ends[upTo(i)], values |-> SubSeq(fields, 1, upTo(i))]]
<1>7. read[0] = start
  <2>1. SubSeq(fields, 1, 0) = <<>> /\ 0 \in 0 .. l /\ upTo(0) = 0
    BY <1>2, <1>4, <1>5, WholeRead
  <2> QED BY <1>5, <2>1
<1>8. ASSUME NEW i \in 1 .. l PROVE read[i] = Field(read[i - 1], i)
  <2>1. i \in 0 .. l /\ i - 1 \in 0 .. l
    BY <1>2
  <2>2. read[i - 1].at = ends[upTo(i - 1)] /\ read[i - 1].values = SubSeq(fields, 1, upTo(i - 1))
        /\ read[i] = [at |-> ends[upTo(i)], values |-> SubSeq(fields, 1, upTo(i))]
        /\ read[i - 1] = [at |-> ends[upTo(i - 1)], values |-> SubSeq(fields, 1, upTo(i - 1))]
    BY <2>1
  <2> HIDE DEF read
  <2>3. CASE i <= count
    <3>1. i \in 1 .. count /\ upTo(i) = i /\ upTo(i - 1) = i - 1
      BY <1>5, <2>3
    <3>2. Append(SubSeq(fields, 1, i - 1), fields[i]) = SubSeq(fields, 1, i)
      BY <1>4, <1>5, <3>1, OneMoreRead
    <3> HIDE DEF upTo
    <3>3. read[i - 1].at = ends[i - 1] /\ read[i - 1].values = SubSeq(fields, 1, i - 1)
          /\ read[i] = [at |-> ends[i], values |-> SubSeq(fields, 1, i)]
      BY <2>2, <3>1
    <3>4. ~ (read[i - 1].at >= l - 1)
      BY <1>6, <3>1, <3>3
    <3> DEFINE text == ReadString(body, read[i - 1].at + 1)
    <3>5. text = fields[i].text /\ [code |-> body[ends[i - 1] + 1], text |-> text] = fields[i]
          /\ ends[i] = ends[i - 1] + Len(text) + 2
      BY <1>6, <3>1, <3>3
    <3> HIDE DEF text
    <3>6. Field(read[i - 1], i) = [at |-> ends[i - 1] + Len(text) + 2,
                                   values |-> Append(SubSeq(fields, 1, i - 1), fields[i])]
      BY <3>3, <3>4, <3>5 DEF text
    <3> HIDE DEF Field
    <3> QED BY <3>2, <3>3, <3>5, <3>6
  <2>4. CASE ~ (i <= count)
    <3>1. upTo(i) = count /\ upTo(i - 1) = count
      BY <1>5, <2>4
    <3> HIDE DEF upTo
    <3>2. read[i - 1].at = last /\ read[i] = read[i - 1]
      BY <2>2, <3>1 DEF last
    <3>3. read[i - 1].at >= l - 1
      BY <1>5, <3>2
    <3> QED BY <3>2, <3>3
  <2> QED BY <2>3, <2>4
<1> HIDE DEF Field, start, upTo
<1>9. \E g : g = [i \in 0 .. l |-> IF i = 0 THEN start ELSE Field(g[i - 1], i)]
  <2>1. read = [i \in 0 .. l |-> read[i]]
    OBVIOUS
  <2> HIDE DEF read
  <2>2. \A i \in 0 .. l : read[i] = IF i = 0 THEN start ELSE Field(read[i - 1], i)
    <3>1. \A i \in 0 .. l : i = 0 \/ (i \in 1 .. l /\ i # 0)
      BY <1>2
    <3> QED BY <1>7, <1>8, <3>1
  <2>3. read = [i \in 0 .. l |-> IF i = 0 THEN start ELSE Field(read[i - 1], i)]
    BY <2>1, <2>2
  <2> QED BY <2>3
<1>10. after = [i \in 0 .. l |-> IF i = 0 THEN start ELSE Field(after[i - 1], i)]
  BY <1>9
<1> HIDE DEF after
<1> DEFINE T == {i \in 0 .. l : after[i] = read[i]}
<1>11. 0 \in T
  <2> HIDE DEF read
  <2>1. 0 \in 0 .. l
    BY <1>2
  <2> QED BY <1>7, <1>10, <2>1
<1>12. ASSUME NEW i \in 1 .. l, i - 1 \in T PROVE i \in T
  <2>1. i \in 0 .. l /\ i # 0
    BY <1>2
  <2> HIDE DEF read
  <2>2. after[i] = Field(after[i - 1], i)
    BY <1>10, <2>1
  <2> QED BY <1>8, <1>12, <2>1, <2>2
<1>13. after[l] = read[l]
  <2> HIDE DEF T
  <2>1. \A i \in 0 .. l : i \in T
    BY <1>2, <1>11, <1>12, CountingUp
  <2>2. l \in 0 .. l
    BY <1>2
  <2> QED BY <2>1, <2>2 DEF T
<1>14. read[l].values = fields
  <2>1. SubSeq(fields, 1, count) = fields
    BY <1>4, <1>5, WholeRead
  <2>2. upTo(l) = count /\ l \in 0 .. l
    BY <1>2, <1>4, <1>5 DEF upTo
  <2> QED BY <2>1, <2>2
<1> HIDE DEF read
<1> QED BY <1>1, <1>13, <1>14

-----------------------------------------------------------------------------
(* Writing: the size is counted right, and what was read is written again.  *)

LEMMA Fits ==
  ASSUME NEW a \in Nat, a < Wrap
  PROVE  a % Wrap = a
<1>1. Wrap \in Nat \ {0}
  BY WrapAssumption
<1> QED BY <1>1

LEMMA SizeIsRight ==
  ASSUME NEW value \in Value
  PROVE  /\ SizeOf(value) \in Nat /\ SizeOf(value) = Len(ColumnBytes(value))
         /\ Reread(value) \in Value /\ SizeOf(Reread(value)) = SizeOf(value)
<1>1. SizeOf(Null) = 4 /\ Null \in Value
  BY DEF SizeOf, Value
<1>2. CASE value = Null
  <2>1. Len(ColumnBytes(value)) = 4
    BY <1>2, ColumnInBytes
  <2>2. Reread(value) = Null
    BY <1>2 DEF Reread
  <2> QED BY <1>1, <1>2, <2>1, <2>2
<1>3. CASE value # Null
  <2> DEFINE long == Len(value)
  <2>1. value \in Seq(Nat) /\ long \in Nat /\ Len(ColumnBytes(value)) = 4 + long
    BY <1>3, ColumnInBytes
  <2>2. SizeOf(value) = 4 + long
    BY <1>3 DEF SizeOf
  <2>3. value = <<>> => long = 0
    BY EmptySeq
  <2> HIDE DEF long
  <2>4. CASE value = <<>>
    BY <1>1, <2>1, <2>2, <2>3, <2>4 DEF Reread
  <2>5. CASE value # <<>>
    BY <2>1, <2>2, <2>5 DEF Reread
  <2> QED BY <2>4, <2>5
<1> QED BY <1>2, <1>3

(* Where the columns are, by the length of the whole.                       *)
ColumnsLaid(columns, ends, l, count) ==
  /\ count \in Nat /\ l \in Nat /\ ends[0] = 2 /\ ends[count] = l
  /\ \A i \in 0 .. count : ends[i] \in Nat /\ ends[i] >= 2
  /\ \A i \in 1 .. count :
       /\ i \in 0 .. count /\ i - 1 \in 0 .. count /\ i # 0
       /\ columns[i] \in Value
       /\ ends[i] = ends[i - 1] + SizeOf(columns[i]) /\ ends[i] <= l

LEMMA ColumnsAre ==
  ASSUME NEW columns \in Seq(Value), NEW l, Sized(RowBody(columns), l),
         NEW count, Sized(columns, count)
  PROVE  \E ends : ColumnsLaid(columns, ends, l, count)
<1> DEFINE body == RowBody(columns)
<1>1. PICK ends : RowIs(body, columns, ends)
  BY RowIsLaidOut
<1>2. body \in Seq(Nat)
  BY RowIsLaidOut
<1> HIDE DEF body
<1>3. count = Len(columns) /\ l = Len(body)
  BY DEF Sized, body
<1>4. count \in Nat /\ l \in Nat /\ \A i \in 1 .. count : columns[i] \in Value
  BY <1>2, <1>3, LenProperties, ElementOfSeq
<1>5. /\ ends \in [0 .. count -> Nat] /\ ends[0] = 2 /\ ends[count] = l
      /\ \A i \in 1 .. count :
           ends[i] = ends[i - 1] + ColumnSize(columns, i) /\ ends[i] <= l
  BY <1>1, <1>3, Zenon DEF RowIs
<1>6. \A i \in 1 .. count : ColumnSize(columns, i) = SizeOf(columns[i])
                            /\ SizeOf(columns[i]) \in Nat
  BY <1>4, SizeIsRight DEF ColumnSize
<1>7. \A i \in 1 .. count : i \in 0 .. count /\ i - 1 \in 0 .. count /\ i # 0
  BY <1>4
<1>8. \A i \in 0 .. count : ends[i] \in Nat /\ ends[i] >= 2
  <2> DEFINE T == {i \in 0 .. count : ends[i] >= 2}
  <2>1. 0 \in T
    BY <1>4, <1>5
  <2>2. ASSUME NEW i \in 1 .. count, i - 1 \in T PROVE i \in T
    <3>1. ends[i] = ends[i - 1] + SizeOf(columns[i]) /\ SizeOf(columns[i]) \in Nat
      BY <1>5, <1>6
    <3>2. ends[i - 1] \in Nat /\ ends[i - 1] >= 2 /\ i \in 0 .. count
      BY <1>5, <1>7, <2>2
    <3>3. ends[i] >= 2
      BY <3>1, <3>2
    <3> QED BY <3>2, <3>3
  <2>3. \A i \in 0 .. count : i \in T
    <3> HIDE DEF T
    <3> QED BY <1>4, <2>1, <2>2, CountingUp
  <2> QED BY <1>5, <2>3
<1> QED BY <1>4, <1>5, <1>6, <1>7, <1>8 DEF ColumnsLaid

LEMMA RowIsCounted ==
  ASSUME NEW columns \in Seq(Value), NEW l, Sized(RowBody(columns), l), l <= Wrap
  PROVE  2 + Counted(columns, SizeOf) = l
<1> DEFINE count == Len(columns)
           Counting(sum, i) == (sum + SizeOf(columns[i])) % Wrap
           after == CHOOSE g : g = [i \in 0 .. count |-> IF i = 0 THEN 0 ELSE Counting(g[i - 1], i)]
<1>1. Counted(columns, SizeOf) = after[count]
  BY DEF Counted, Loop
<1>2. Sized(columns, count)
  BY DEF Sized
<1> HIDE DEF count
<1>3. PICK ends : ColumnsLaid(columns, ends, l, count)
  BY <1>2, ColumnsAre
<1>4. /\ count \in Nat /\ l \in Nat /\ ends[0] = 2 /\ ends[count] = l
      /\ \A i \in 0 .. count : ends[i] \in Nat /\ ends[i] >= 2
      /\ \A i \in 1 .. count :
           /\ i \in 0 .. count /\ i - 1 \in 0 .. count /\ i # 0
           /\ columns[i] \in Value
           /\ ends[i] = ends[i - 1] + SizeOf(columns[i]) /\ ends[i] <= l
  BY <1>3 DEF ColumnsLaid
<1> DEFINE sum == [i \in 0 .. count |-> ends[i] - 2]
<1>5. \A i \in 0 .. count : sum[i] = ends[i] - 2
  OBVIOUS
<1>6. sum = [i \in 0 .. count |-> sum[i]]
  OBVIOUS
<1> HIDE DEF sum
<1>7. ASSUME NEW i \in 1 .. count PROVE sum[i] = Counting(sum[i - 1], i)
  <2> DEFINE size == SizeOf(columns[i])
             a == ends[i - 1]
             b == ends[i]
  <2>1. /\ a \in Nat /\ b \in Nat /\ b >= 2 /\ b = a + size /\ b <= l /\ size \in Nat
        /\ sum[i] = b - 2 /\ sum[i - 1] = a - 2
    BY <1>4, <1>5, SizeIsRight
  <2> HIDE DEF size, a, b
  <2>2. sum[i - 1] + size = b - 2 /\ b - 2 \in Nat /\ b - 2 < Wrap
    BY <1>4, <2>1, WrapAssumption
  <2>3. (b - 2) % Wrap = b - 2
    BY <2>2, Fits
  <2> QED BY <2>1, <2>2, <2>3 DEF size
<1> HIDE DEF Counting
<1>8. sum[0] = 0
  <2>1. 0 \in 0 .. count
    BY <1>4
  <2> QED BY <1>4, <1>5, <2>1
<1>9. sum = [i \in 0 .. count |-> IF i = 0 THEN 0 ELSE Counting(sum[i - 1], i)]
  <2>1. \A i \in 0 .. count : sum[i] = IF i = 0 THEN 0 ELSE Counting(sum[i - 1], i)
    <3>1. \A i \in 0 .. count : i = 0 \/ (i \in 1 .. count /\ i # 0)
      BY <1>4
    <3> QED BY <1>7, <1>8, <3>1
  <2> QED BY <1>6, <2>1
<1>10. after = [i \in 0 .. count |-> IF i = 0 THEN 0 ELSE Counting(after[i - 1], i)]
  <2>1. \E g : g = [i \in 0 .. count |-> IF i = 0 THEN 0 ELSE Counting(g[i - 1], i)]
    BY <1>9
  <2> QED BY <2>1
<1> HIDE DEF after
<1> DEFINE T == {i \in 0 .. count : after[i] = sum[i]}
<1>11. 0 \in T
  <2>1. 0 \in 0 .. count
    BY <1>4
  <2> QED BY <1>8, <1>10, <2>1
<1>12. ASSUME NEW i \in 1 .. count, i - 1 \in T PROVE i \in T
  <2>1. after[i] = Counting(after[i - 1], i) /\ i \in 0 .. count
    BY <1>4, <1>10
  <2> QED BY <1>7, <1>12, <2>1
<1>13. after[count] = sum[count] /\ count \in 0 .. count
  <2> HIDE DEF T
  <2>1. \A i \in 0 .. count : i \in T
    BY <1>4, <1>11, <1>12, CountingUp
  <2>2. count \in 0 .. count
    BY <1>4
  <2> QED BY <2>1, <2>2 DEF T
<1> QED BY <1>1, <1>4, <1>5, <1>13

LEMMA ErrorIsCounted ==
  ASSUME NEW fields \in Seq(ErrorField), NEW l, Sized(ErrorBody(fields), l), l <= Wrap
  PROVE  Counted(fields, LAMBDA field : Len(field.text) + 2) + 1 = l
<1> DEFINE count == Len(fields)
           Counting(sum, i) == (sum + (Len(fields[i].text) + 2)) % Wrap
           after == CHOOSE g : g = [i \in 0 .. count |-> IF i = 0 THEN 0 ELSE Counting(g[i - 1], i)]
           body == ErrorBody(fields)
<1>1. Counted(fields, LAMBDA field : Len(field.text) + 2) = after[count]
  BY DEF Counted, Loop
<1>2. body \in Seq(Nat)
  BY ErrorIsLaidOut
<1>3. PICK ends : ErrorIs(body, fields, ends)
  BY ErrorIsLaidOut
<1>4. Sized(fields, count) /\ Sized(body, l)
  BY DEF Sized
<1> HIDE DEF count, body
<1>5. l \in Nat
  BY <1>2, <1>4, LenProperties DEF Sized
<1>6. /\ count \in Nat /\ ends[0] = 0 /\ l = ends[count] + 1 /\ ends[count] \in Nat
      /\ \A i \in 1 .. count :
           /\ i \in 0 .. count /\ i - 1 \in 0 .. count /\ i # 0
           /\ ends[i] \in Nat /\ ends[i - 1] \in Nat
           /\ ends[i] = ends[i - 1] + FieldSize(fields, i) /\ ends[i] <= ends[count]
  <2>1. FieldsLaid(body, fields, ends, l, count)
    BY <1>3, <1>4, <1>5, FieldsAre
  <2> QED BY <2>1 DEF FieldsLaid
<1> DEFINE sum == [i \in 0 .. count |-> ends[i]]
<1>7. \A i \in 0 .. count : sum[i] = ends[i]
  OBVIOUS
<1>8. sum = [i \in 0 .. count |-> sum[i]]
  OBVIOUS
<1> HIDE DEF sum
<1>9. ASSUME NEW i \in 1 .. count PROVE sum[i] = Counting(sum[i - 1], i)
  <2> DEFINE size == Len(fields[i].text) + 2
             a == ends[i - 1]
             b == ends[i]
  <2>1. size = FieldSize(fields, i)
    BY DEF FieldSize
  <2> HIDE DEF size
  <2>2. /\ b \in Nat /\ b = a + size /\ b < l /\ sum[i] = b /\ sum[i - 1] = a
    BY <1>5, <1>6, <1>7, <2>1
  <2> HIDE DEF a, b
  <2>3. b < Wrap
    BY <1>5, <2>2, WrapAssumption
  <2>4. b % Wrap = b
    BY <2>2, <2>3, Fits
  <2> QED BY <2>2, <2>4 DEF size
<1> HIDE DEF Counting
<1>10. sum[0] = 0
  <2>1. 0 \in 0 .. count
    BY <1>6
  <2> QED BY <1>6, <1>7, <2>1
<1>11. sum = [i \in 0 .. count |-> IF i = 0 THEN 0 ELSE Counting(sum[i - 1], i)]
  <2>1. \A i \in 0 .. count : sum[i] = IF i = 0 THEN 0 ELSE Counting(sum[i - 1], i)
    <3>1. \A i \in 0 .. count : i = 0 \/ (i \in 1 .. count /\ i # 0)
      BY <1>6
    <3> QED BY <1>9, <1>10, <3>1
  <2> QED BY <1>8, <2>1
<1>12. after = [i \in 0 .. count |-> IF i = 0 THEN 0 ELSE Counting(after[i - 1], i)]
  <2>1. \E g : g = [i \in 0 .. count |-> IF i = 0 THEN 0 ELSE Counting(g[i - 1], i)]
    BY <1>11
  <2> QED BY <2>1
<1> HIDE DEF after
<1> DEFINE T == {i \in 0 .. count : after[i] = sum[i]}
<1>13. 0 \in T
  <2>1. 0 \in 0 .. count
    BY <1>6
  <2> QED BY <1>10, <1>12, <2>1
<1>14. ASSUME NEW i \in 1 .. count, i - 1 \in T PROVE i \in T
  <2>1. after[i] = Counting(after[i - 1], i) /\ i \in 0 .. count
    BY <1>6, <1>12
  <2> QED BY <1>9, <1>14, <2>1
<1>15. after[count] = sum[count] /\ count \in 0 .. count
  <2> HIDE DEF T
  <2>1. \A i \in 0 .. count : i \in T
    BY <1>6, <1>13, <1>14, CountingUp
  <2>2. count \in 0 .. count
    BY <1>6
  <2> QED BY <2>1, <2>2 DEF T
<1> QED BY <1>1, <1>6, <1>7, <1>15

LEMMA RereadIsLaidOutAlike ==
  ASSUME NEW columns \in Seq(Value), NEW l, Sized(RowBody(columns), l),
         RereadAll(columns) \in Seq(Value)
  PROVE  Sized(RowBody(RereadAll(columns)), l)
<1> DEFINE all == RereadAll(columns)
           count == Len(columns)
           m == Len(RowBody(all))
<1>1. Sized(columns, count) /\ Sized(RowBody(all), m)
  BY DEF Sized
<1>2. \A i \in 1 .. count : all[i] = Reread(columns[i])
  BY DEF RereadAll
<1>3. DOMAIN all = 1 .. count /\ count \in Nat
  BY LenProperties DEF RereadAll
<1> HIDE DEF all, count, m
<1>4. Sized(all, count)
  BY <1>3, LenProperties DEF Sized, all
<1>5. PICK ends : ColumnsLaid(columns, ends, l, count)
  BY <1>1, ColumnsAre
<1>6. PICK others : ColumnsLaid(all, others, m, count)
  BY <1>1, <1>4, ColumnsAre DEF all
<1>7. /\ ends[0] = 2 /\ ends[count] = l /\ others[0] = 2 /\ others[count] = m
      /\ \A i \in 1 .. count :
           /\ i \in 0 .. count
           /\ columns[i] \in Value
           /\ ends[i] = ends[i - 1] + SizeOf(columns[i])
           /\ others[i] = others[i - 1] + SizeOf(all[i])
  BY <1>5, <1>6 DEF ColumnsLaid
<1> DEFINE T == {i \in 0 .. count : ends[i] = others[i]}
<1>8. 0 \in T
  BY <1>3, <1>7
<1>9. ASSUME NEW i \in 1 .. count, i - 1 \in T PROVE i \in T
  <2>1. SizeOf(all[i]) = SizeOf(columns[i])
    BY <1>2, <1>7, SizeIsRight
  <2>2. ends[i - 1] = others[i - 1]
    BY <1>9
  <2> QED BY <1>7, <2>1, <2>2
<1>10. \A i \in 0 .. count : i \in T
  <2> HIDE DEF T
  <2> QED BY <1>3, <1>8, <1>9, CountingUp
<1>11. count \in 0 .. count
  BY <1>3
<1>12. m = l
  BY <1>7, <1>10, <1>11
<1> QED BY <1>1, <1>12 DEF all

(* No column of it has a value of no byte.                                  *)
NoEmptyValue(m) == m.kind = "DataRow" =>
                     \A i \in 1 .. Len(m.columns) : m.columns[i] # <<>>

LEMMA RereadIsTheSame ==
  ASSUME NEW columns \in Seq(Value), \A i \in 1 .. Len(columns) : columns[i] # <<>>
  PROVE  RereadAll(columns) = columns
<1>1. columns \in [1 .. Len(columns) -> Value]
  BY LenProperties
<1>2. columns = [i \in 1 .. Len(columns) |-> columns[i]]
  BY <1>1
<1> QED BY <1>2 DEF RereadAll, Reread

(* What is written has the size that it says.                               *)
LEMMA WrittenIs ==
  ASSUME NEW m \in Message, LongEnough(m), NEW body, body = Body(m),
         NEW l, Sized(body, l), l <= Wrap
  PROVE  /\ \E wb \in Seq(Nat) : Sized(wb, l) /\ FrameIs(Replacement(m.kind, body), wb, l)
         /\ NoEmptyValue(m) => Replacement(m.kind, body) = Frame(m.kind, body)
<1>1. body \in Seq(Nat) /\ l \in Nat /\ m.kind \in Kinds
  <2>1. body \in Seq(Nat)
    BY MessageIsRight
  <2>2. m.kind \in Kinds
    BY DEF Message, Kinds
  <2> QED BY <2>1, <2>2, LenProperties DEF Sized
<1> DEFINE wb == WriteBody(m.kind, body)
           whole == Replacement(m.kind, body)
<1>2. SUFFICES \/ ~ IsWriteable(m.kind)
               \/ /\ IsWriteable(m.kind)
                  /\ wb \in Seq(Nat) /\ Sized(wb, l) /\ GetSize(m.kind, body) = l
                  /\ NoEmptyValue(m) => wb = body
  <2>1. CASE ~ IsWriteable(m.kind)
    <3>1. whole = Frame(m.kind, body)
      BY <2>1 DEF Replacement
    <3> QED BY <1>1, <3>1, FrameIsLaidOut
  <2>2. CASE /\ IsWriteable(m.kind)
             /\ wb \in Seq(Nat) /\ Sized(wb, l) /\ GetSize(m.kind, body) = l
             /\ NoEmptyValue(m) => wb = body
    <3>1. whole = <<Identifier[m.kind]>> \o Int32(l + 4) \o wb
      BY <2>2 DEF Replacement
    <3> HIDE DEF wb, whole
    <3>2. Headed(whole, Identifier[m.kind], l + 4, wb)
      BY <3>1 DEF Headed
    <3>3. FrameIs(whole, wb, l)
      BY <1>1, <2>2, <3>2, HeadedIs
    <3>4. NoEmptyValue(m) => whole = Frame(m.kind, body)
      <4>1. Len(body) = l
        BY DEF Sized
      <4> QED BY <2>2, <3>1, <4>1 DEF Frame
    <3> QED BY <2>2, <3>3, <3>4 DEF whole
  <2> QED BY <2>1, <2>2
<1>3. CASE m \in [kind : {"Query"}, text : Text]
  <2>1. m.kind = "Query" /\ m.text \in Text
    BY <1>3
  <2>2. body = Ended(m.text)
    BY <2>1 DEF Body, Ended
  <2> DEFINE size == Len(m.text)
  <2>3. Sized(m.text, size)
    BY DEF Sized
  <2> HIDE DEF size
  <2>4. size \in Nat /\ Sized(body, size + 1) /\ TextAt(body, 0, m.text, size)
    BY <2>1, <2>2, <2>3, QueryIsLaidOut DEF QueryIs
  <2>5. l = size + 1
    BY <2>4 DEF Sized
  <2>6. ReadString(body, 0) = m.text
    <3>1. 0 \in Nat /\ 0 + size + 1 <= l
      BY <2>4, <2>5
    <3> QED BY <1>1, <2>1, <2>3, <2>4, <3>1, TextIsRead
  <2>7. GetSize(m.kind, body) = l
    <3>1. GetSize(m.kind, body) = Len(m.text) + 1
      BY <2>1, <2>6 DEF GetSize
    <3> QED BY <2>3, <2>5, <3>1 DEF Sized
  <2>8. wb = body
    BY <2>1, <2>2, <2>6 DEF WriteBody, Ended
  <2>9. IsWriteable(m.kind)
    BY <2>1 DEF IsWriteable
  <2> QED BY <1>1, <2>7, <2>8, <2>9
<1>4. CASE m \in [kind : {"DataRow"}, columns : Seq(Value)]
  <2> DEFINE columns == m.columns
             all == RereadAll(columns)
  <2>1. m.kind = "DataRow" /\ columns \in Seq(Value)
    BY <1>4
  <2>2. body = RowBody(columns)
    BY <2>1 DEF Body, RowBody
  <2> HIDE DEF columns
  <2>3. ReadColumns(body) = all /\ all \in Seq(Value)
    BY <1>1, <2>1, <2>2, RowIsRead
  <2>4. Sized(RowBody(all), l)
    BY <2>1, <2>2, <2>3, RereadIsLaidOutAlike
  <2>5. GetSize(m.kind, body) = l
    <3> HIDE DEF all
    <3>1. GetSize(m.kind, body) = 2 + Counted(all, SizeOf)
      BY <2>1, <2>3 DEF GetSize
    <3> QED BY <2>3, <2>4, <3>1, RowIsCounted
  <2>6. wb = RowBody(all)
    <3> HIDE DEF all
    <3> QED BY <2>1, <2>3 DEF WriteBody, RowBody
  <2>7. wb \in Seq(Nat)
    <3> HIDE DEF all
    <3> QED BY <2>3, <2>6, RowIsLaidOut
  <2>8. NoEmptyValue(m) => wb = body
    <3>1. NoEmptyValue(m) => \A i \in 1 .. Len(columns) : columns[i] # <<>>
      BY <2>1 DEF NoEmptyValue, columns
    <3>2. NoEmptyValue(m) => all = columns
      BY <2>1, <3>1, RereadIsTheSame
    <3> HIDE DEF all
    <3> QED BY <2>2, <2>6, <3>2
  <2>9. IsWriteable(m.kind)
    BY <2>1 DEF IsWriteable
  <2> QED BY <2>4, <2>5, <2>6, <2>7, <2>8, <2>9
<1>5. CASE m \in [kind : {"ErrorResponse"}, fields : Seq(ErrorField)]
  <2> DEFINE fields == m.fields
  <2>1. m.kind = "ErrorResponse" /\ fields \in Seq(ErrorField)
    BY <1>5
  <2>2. body = ErrorBody(fields)
    BY <2>1 DEF Body, ErrorBody
  <2> HIDE DEF fields
  <2>3. ReadFields(body) = fields
    BY <2>1, <2>2, ErrorIsRead
  <2>4. GetSize(m.kind, body) = l
    <3>1. GetSize(m.kind, body) = Counted(fields, LAMBDA field : Len(field.text) + 2) + 1
      BY <2>1, <2>3 DEF GetSize
    <3>2. Counted(fields, LAMBDA field : Len(field.text) + 2) + 1 = l
      BY <2>1, <2>2, ErrorIsCounted
    <3> QED BY <3>1, <3>2
  <2>5. wb = body
    BY <2>1, <2>2, <2>3 DEF WriteBody, ErrorBody
  <2>6. IsWriteable(m.kind)
    BY <2>1 DEF IsWriteable
  <2> QED BY <1>1, <2>4, <2>5, <2>6
<1>6. CASE m \in [kind : {"ParameterStatus"}, name : Text, text : Text]
  BY <1>6 DEF IsWriteable
<1>7. CASE m \in [kind : {"PasswordMessage"}, text : Text]
  BY <1>7 DEF IsWriteable
<1> QED BY <1>3, <1>4, <1>5, <1>6, <1>7 DEF Message

(* A body is counted in the width of the size.                              *)
SizesFit == \A m \in Messages : Len(Body(m)) <= Wrap

(* What is written says of itself how long it is, a value of no byte or not.*)
THEOREM WrittenLengthIsTrue ==
  ASSUME WellFormed, SizesFit
  PROVE  Spec => []LengthIsTrue
<1>1. CodecHeld => LengthIsTrue
  <2> SUFFICES ASSUME CodecHeld, written # <<>>
               PROVE  PeekInt32(written, 1) = Len(written) - 1
    BY DEF LengthIsTrue
  <2>1. PICK body, l, n, s : CodecHeldFor(body, l, n, s)
    BY DEF CodecHeld
  <2>2. /\ body = Body(message) /\ Sized(body, l) /\ StreamIs(Stream, body, l, s)
        /\ written = Replacement(message.kind, body) /\ message \in Messages
    BY <2>1 DEF CodecHeldFor, CodecHeld
  <2>3. message \in Message /\ LongEnough(message) /\ l \in Nat /\ l <= Wrap
    BY <2>2 DEF WellFormed, SizesFit, Sized, StreamIs
  <2>4. PICK wb : FrameIs(written, wb, l)
    BY <2>2, <2>3, WrittenIs
  <2>5. Len(written) = 5 + l /\ written[2] = 0 /\ written[5] = l + 4
    BY <2>4 DEF FrameIs, Sized
  <2>6. PeekInt32(written, 1) = l + 4
    <3>1. 1 + 1 = 2 /\ 1 + 4 = 5
      OBVIOUS
    <3> QED BY <2>5, <3>1 DEF PeekInt32
  <2> QED BY <2>3, <2>5, <2>6
<1> QED BY <1>1, CodecIsHeld, PTL

(* A message nobody changes is passed as it came, unless a value of it has  *)
(* no byte: the run v_empty_value shows what becomes of that.               *)
THEOREM MessagesArePassed ==
  ASSUME WellFormed, SizesFit, \A m \in Messages : NoEmptyValue(m)
  PROVE  Spec => []PassedAsItCame
<1>1. CodecHeld => PassedAsItCame
  <2> SUFFICES ASSUME CodecHeld, written # <<>>
               PROVE  written = Frame(message.kind, Body(message))
    BY DEF PassedAsItCame
  <2>1. PICK body, l, n, s : CodecHeldFor(body, l, n, s)
    BY DEF CodecHeld
  <2>2. /\ body = Body(message) /\ Sized(body, l)
        /\ written = Replacement(message.kind, body) /\ message \in Messages
    BY <2>1 DEF CodecHeldFor, CodecHeld
  <2>3. message \in Message /\ LongEnough(message) /\ l <= Wrap /\ NoEmptyValue(message)
    BY <2>2 DEF WellFormed, SizesFit, Sized
  <2> QED BY <2>2, <2>3, WrittenIs
<1> QED BY <1>1, CodecIsHeld, PTL

(* Whatever bytes a peer sends and whatever length it states, a validation  *)
(* ends inside of the buffer: the next one takes the bytes that are there   *)
(* from the length of the buffer without going below zero.                  *)
THEOREM ValidationStaysInside ==
  ASSUME NEW kind \in Kinds, NEW bytes \in Seq(Nat), NEW n \in Nat, Sized(bytes, n),
         NEW start \in StepsUpTo(n), start.left \in Nat
  PROVE  Validate(kind, bytes, start) \in StepsUpTo(n)
<1>1. CASE kind = "Query"
  BY <1>1, StringStaysInside DEF Validate
<1>2. CASE kind = "DataRow"
  <2>1. Validate(kind, bytes, start) = ValidateArray(bytes, start)
    BY <1>2 DEF Validate
  <2>2. There(bytes, start) = n - start.at /\ start.at \in 0 .. n
    BY DEF There, Sized, StepsUpTo
  <2>3. CASE start.left < 2 \/ There(bytes, start) < 2
    <3>1. CASE start.left < 2
      <4>1. ~ (start.left >= 2)
        BY <3>1
      <4>2. ValidateArray(bytes, start) = Failed(start)
        BY <3>1, <4>1 DEF ValidateArray
      <4> QED BY <2>1, <4>2, StopsInside
    <3>2. CASE start.left >= 2 /\ There(bytes, start) < 2
      <4>1. ~ (start.left < 2)
        BY <3>2
      <4>2. ValidateArray(bytes, start) = NeedMore(start)
        BY <3>2, <4>1 DEF ValidateArray
      <4> QED BY <2>1, <4>2, StopsInside
    <3> QED BY <2>3, <3>1, <3>2
  <2>4. CASE ~ (start.left < 2 \/ There(bytes, start) < 2)
    <3> DEFINE count == PeekInt16(bytes, start.at)
    <3>1. start.left >= 2 /\ There(bytes, start) >= 2
      BY <2>2, <2>4
    <3>2. /\ count \in Nat
          /\ \E after : /\ after[0] = Advance(start, 2)
                        /\ Turned(after, bytes, count)
                        /\ ValidateArray(bytes, start) = after[count]
      BY <3>1, ArrayTurns
    <3>3. PICK after : /\ after[0] = Advance(start, 2)
                       /\ Turned(after, bytes, count)
                       /\ ValidateArray(bytes, start) = after[count]
      BY <3>2
    <3> HIDE DEF count
    <3> DEFINE T == {i \in 0 .. count : after[i] \in StepsUpTo(n)}
    <3>4. 0 \in T
      BY <2>2, <3>1, <3>2, <3>3, AdvancesInside
    <3>5. ASSUME NEW i \in 1 .. count, i - 1 \in T PROVE i \in T
      <4>1. after[i] = Then(after[i - 1], ValidateVarByteN, bytes) /\ i \in 0 .. count
        BY <3>2, <3>3 DEF Turned
      <4> QED BY <3>5, <4>1, VarByteNStaysInside DEF Then
    <3>6. \A i \in 0 .. count : i \in T
      <4> HIDE DEF T
      <4> QED BY <3>2, <3>4, <3>5, CountingUp
    <3>7. count \in 0 .. count
      BY <3>2
    <3> QED BY <2>1, <3>3, <3>6, <3>7
  <2> QED BY <2>3, <2>4
<1>3. CASE kind = "ErrorResponse"
  <2> DEFINE fields == ValidateRepeated(bytes, start)
  <2>1. Validate(kind, bytes, start) = IF fields.result = "OK" THEN ValidateInt(1, bytes, fields)
                                                               ELSE fields
    BY <1>3 DEF Validate
  <2>2. fields \in StepsUpTo(n)
    <3>1. CASE There(bytes, start) < start.left
      <4>1. fields = NeedMore(start)
        BY <3>1 DEF ValidateRepeated
      <4> QED BY <4>1, StopsInside
    <3>2. CASE ~ (There(bytes, start) < start.left)
      <4> DEFINE count == start.left
      <4>1. PICK after : /\ after[0] = start /\ Repeating(after, bytes, count)
                         /\ fields = after[count]
        BY <3>2, RepeatedTurns
      <4>2. count \in Nat
        OBVIOUS
      <4> HIDE DEF count, fields
      <4> DEFINE T == {i \in 0 .. count : after[i] \in StepsUpTo(n)}
      <4>3. 0 \in T
        BY <4>1, <4>2
      <4>4. ASSUME NEW i \in 1 .. count, i - 1 \in T PROVE i \in T
        <5>1. after[i] = (IF ValidateField(bytes, after[i - 1]).result = "OK"
                           THEN ValidateField(bytes, after[i - 1]) ELSE after[i - 1])
              /\ i \in 0 .. count
          BY <4>1, <4>2 DEF Repeating
        <5> QED BY <4>4, <5>1, FieldStaysInside
      <4>5. \A i \in 0 .. count : i \in T
        <5> HIDE DEF T
        <5> QED BY <4>2, <4>3, <4>4, CountingUp
      <4>6. count \in 0 .. count
        BY <4>2
      <4> QED BY <4>1, <4>5, <4>6
    <3> QED BY <3>1, <3>2
  <2> HIDE DEF fields
  <2> QED BY <2>1, <2>2, IntStaysInside
<1>4. CASE kind = "ParameterStatus"
  <2>1. ValidateString(bytes, start) \in StepsUpTo(n)
    BY StringStaysInside
  <2> QED BY <1>4, <2>1, StringStaysInside DEF Validate, Then
<1>5. CASE kind = "PasswordMessage"
  <2> DEFINE first == ValidateInt(4, bytes, start)
  <2>1. Validate(kind, bytes, start) = Then(first, ValidateByteN, bytes)
    BY <1>5 DEF Validate
  <2>2. first \in StepsUpTo(n)
    BY IntStaysInside
  <2>3. first.result = "OK" => first.left \in Nat
    <3>1. CASE start.left < 4
      <4>1. first = Failed(start)
        BY <3>1 DEF ValidateInt
      <4> QED BY <4>1 DEF Failed, StepsUpTo
    <3>2. CASE start.left >= 4 /\ There(bytes, start) < 4
      <4>1. first = NeedMore(start)
        BY <3>2 DEF ValidateInt
      <4> QED BY <4>1 DEF NeedMore, StepsUpTo
    <3>3. CASE start.left >= 4 /\ ~ (There(bytes, start) < 4)
      <4>1. first = Advance(start, 4)
        BY <3>3 DEF ValidateInt
      <4> QED BY <3>3, <4>1 DEF Advance, Step
    <3> QED BY <3>1, <3>2, <3>3
  <2> HIDE DEF first
  <2>4. ASSUME first.result = "OK" PROVE ValidateByteN(bytes, first) \in StepsUpTo(n)
    <3>1. There(bytes, first) = n - first.at /\ first.at \in 0 .. n /\ first.left \in Nat
      BY <2>2, <2>3, <2>4 DEF There, Sized, StepsUpTo
    <3>2. CASE first.left > There(bytes, first)
      BY <2>2, <3>2, StopsInside DEF ValidateByteN
    <3>3. CASE ~ (first.left > There(bytes, first))
      <4>1. first.at + first.left <= n
        BY <3>1, <3>3
      <4> QED BY <2>2, <3>1, <3>3, <4>1, AdvancesInside DEF ValidateByteN
    <3> QED BY <3>2, <3>3
  <2> QED BY <2>1, <2>2, <2>4 DEF Then
<1> QED BY <1>1, <1>2, <1>3, <1>4, <1>5 DEF Kinds
=============================================================================
