------------------------------ MODULE Flattening ------------------------------
(***************************************************************************)
(* What the proofs about sequences of any length rest on: induction up to  *)
(* a number, and FlattenSeq, which is defined by recursion.                *)
(***************************************************************************)
EXTENDS Integers, Sequences, SequencesExt, SequenceTheorems, WellFoundedInduction,
        TLAPS

-----------------------------------------------------------------------------
(* Induction up to a number, over the set of the numbers it holds for.      *)

LEMMA Least ==
  ASSUME NEW T, T \subseteq Nat, T # {}
  PROVE  \E n \in T : \A m \in T : n <= m
<1>1. \E x \in T : \A y \in T : ~ (<<y, x>> \in OpToRel(<, Nat))
  BY NatLessThanWellFounded, WFMin
<1>2. \A x, y \in Nat : y < x => <<y, x>> \in OpToRel(<, Nat)
  BY Zenon DEF OpToRel
<1>3. \E x \in T : \A y \in T : ~ (y < x)
  BY <1>1, <1>2, Zenon
<1> QED BY <1>3

LEMMA CountingUp ==
  ASSUME NEW n \in Nat, NEW T, 0 \in T, \A i \in 1 .. n : i - 1 \in T => i \in T
  PROVE  \A i \in 0 .. n : i \in T
<1> SUFFICES ASSUME NEW k \in 0 .. n, k \notin T
             PROVE  FALSE
  OBVIOUS
<1> DEFINE Missing == {i \in 0 .. n : i \notin T}
<1>1. \E i \in Missing : \A j \in Missing : i <= j
  <2>1. Missing \subseteq Nat /\ Missing # {}
    OBVIOUS
  <2> HIDE DEF Missing
  <2> QED BY <2>1, Least
<1>2. PICK i \in Missing : \A j \in Missing : i <= j
  BY <1>1
<1>3. i \in 1 .. n /\ i \notin T
  BY <1>2
<1>4. i - 1 \in 0 .. n /\ i - 1 \in T
  BY <1>2, <1>3
<1> QED BY <1>3, <1>4

(* A loop whose turns stay within a set has its values.                     *)
Runs(f, n, start, turn) ==
  f[0] = start /\ \A i \in 1 .. n : f[i] = turn[i][f[i - 1]]

LEMMA LoopRuns ==
  ASSUME NEW n \in Nat, NEW X, NEW start \in X, NEW turn \in [1 .. n -> [X -> X]]
  PROVE  \E f \in [0 .. n -> X] : Runs(f, n, start, turn)
<1> DEFINE RunsTo(f, k) == \A i \in 0 .. k :
             f[i] = IF i = 0 THEN start ELSE turn[i][f[i - 1]]
           T == {k \in 0 .. n : \E f \in [0 .. n -> X] : RunsTo(f, k)}
<1>1. 0 \in T
  <2> DEFINE f == [i \in 0 .. n |-> start]
  <2>1. f \in [0 .. n -> X] /\ f[0] = start /\ 0 \in 0 .. n
    OBVIOUS
  <2> HIDE DEF f
  <2>2. RunsTo(f, 0)
    BY <2>1
  <2> QED BY <2>1, <2>2
<1>2. ASSUME NEW k \in 1 .. n, k - 1 \in T
      PROVE  k \in T
  <2>1. PICK f \in [0 .. n -> X] : RunsTo(f, k - 1)
    BY <1>2
  <2> DEFINE next == turn[k][f[k - 1]]
             g == [i \in 0 .. n |-> IF i = k THEN next ELSE f[i]]
  <2>2. k - 1 \in 0 .. n /\ next \in X
    OBVIOUS
  <2>3. g \in [0 .. n -> X]
    BY <2>2
  <2>4. ASSUME NEW i \in 0 .. k
        PROVE  g[i] = IF i = 0 THEN start ELSE turn[i][g[i - 1]]
    <3>1. CASE i = k
      <4>1. g[i - 1] = f[k - 1] /\ g[i] = next /\ i # 0
        BY <2>2, <3>1
      <4>2. next = turn[i][g[i - 1]]
        BY <3>1, <4>1
      <4> HIDE DEF g, next
      <4> QED BY <4>1, <4>2
    <3>2. CASE i # k
      <4>1. i \in 0 .. k - 1 /\ g[i] = f[i]
        BY <3>2
      <4>2. i # 0 => g[i - 1] = f[i - 1]
        BY <3>2
      <4> HIDE DEF g
      <4> QED BY <2>1, <4>1, <4>2
    <3> QED BY <3>1, <3>2
  <2> HIDE DEF g, next
  <2> QED BY <2>3, <2>4
<1>3. n \in T
  <2> HIDE DEF T
  <2>1. \A i \in 0 .. n : i \in T
    BY <1>1, <1>2, CountingUp
  <2> QED BY <2>1
<1>4. PICK f \in [0 .. n -> X] : RunsTo(f, n)
  BY <1>3
<1>5. 0 \in 0 .. n /\ \A i \in 1 .. n : i \in 0 .. n /\ i # 0
  OBVIOUS
<1>6. f[0] = start /\ \A i \in 1 .. n : f[i] = turn[i][f[i - 1]]
  BY <1>4, <1>5
<1> QED BY <1>6 DEF Runs

-----------------------------------------------------------------------------
(* Sequences put one behind the other.                                      *)

(* Each beginning of it is the one before and a piece.                      *)
Accumulates(pieces, upTo) ==
  /\ upTo[0] = <<>>
  /\ \A i \in 1 .. Len(pieces) : upTo[i] = upTo[i - 1] \o pieces[i]

LEMMA Joined ==
  ASSUME NEW S, NEW a \in Seq(S), NEW b \in Seq(S), NEW c, c = a \o b,
         NEW la, NEW lb, la = Len(a), lb = Len(b)
  PROVE  /\ la \in Nat /\ lb \in Nat /\ c \in Seq(S) /\ Len(c) = la + lb
         /\ DOMAIN c = 1 .. la + lb
         /\ \A k \in 1 .. la : c[k] = a[k]
         /\ \A k \in 1 .. lb : c[la + k] = b[k]
<1>1. la \in Nat /\ lb \in Nat
  BY LenProperties
<1>2. c \in Seq(S) /\ Len(c) = la + lb
  BY ConcatProperties
<1>3. DOMAIN c = 1 .. la + lb
  BY <1>2, LenProperties
<1>4. ASSUME NEW k \in 1 .. la PROVE c[k] = a[k]
  <2>1. k \in 1 .. Len(a) + Len(b) /\ k <= Len(a)
    BY <1>1
  <2> QED BY <2>1, ConcatProperties
<1>5. ASSUME NEW k \in 1 .. lb PROVE c[la + k] = b[k]
  <2> DEFINE j == la + k
  <2>1. j \in 1 .. la + lb /\ ~ (j <= la) /\ j - la = k
    BY <1>1
  <2> HIDE DEF j
  <2>2. c[j] = b[j - la]
    BY <2>1, ConcatProperties
  <2> QED BY <2>1, <2>2 DEF j
<1> QED BY <1>1, <1>2, <1>3, <1>4, <1>5

LEMMA FlattenGrows ==
  ASSUME NEW S, NEW pieces \in Seq(Seq(S))
  PROVE  \E upTo \in [0 .. Len(pieces) -> Seq(S)] :
           Accumulates(pieces, upTo) /\ FlattenSeq(pieces) = upTo[Len(pieces)]
<1> DEFINE n == Len(pieces)
<1>1. n \in Nat /\ DOMAIN pieces = 1 .. n /\ \A i \in 1 .. n : pieces[i] \in Seq(S)
  BY LenProperties, ElementOfSeq
<1> DEFINE turn == [i \in 1 .. n |-> [s \in Seq(S) |-> s \o pieces[i]]]
<1>2. turn \in [1 .. n -> [Seq(S) -> Seq(S)]]
  BY <1>1, ConcatProperties
<1>3. PICK upTo \in [0 .. n -> Seq(S)] :
        upTo[0] = <<>> /\ \A i \in 1 .. n : upTo[i] = turn[i][upTo[i - 1]]
  <2> DEFINE X == Seq(S)
             empty == <<>>
  <2>1. n \in Nat /\ empty \in X /\ turn \in [1 .. n -> [X -> X]]
    BY <1>1, <1>2, EmptySeq
  <2> HIDE DEF turn, n, X, empty
  <2>2. \E upTo \in [0 .. n -> X] : Runs(upTo, n, empty, turn)
    BY <2>1, LoopRuns
  <2> QED BY <2>2 DEF X, empty, Runs
<1>4. ASSUME NEW i \in 1 .. n
      PROVE  upTo[i] = upTo[i - 1] \o pieces[i] /\ upTo[i - 1] \in Seq(S)
  <2>1. i \in 0 .. n /\ i - 1 \in 0 .. n /\ i # 0
    BY <1>1
  <2>2. upTo[i] = turn[i][upTo[i - 1]] /\ upTo[i - 1] \in Seq(S)
    <3> HIDE DEF turn, n
    <3> QED BY <1>3, <2>1
  <2> QED BY <2>2
<1>5. upTo[0] = <<>>
  <2> HIDE DEF turn
  <2> QED BY <1>1, <1>3
<1>6. Accumulates(pieces, upTo)
  BY <1>4, <1>5 DEF Accumulates
<1>7. FlattenSeq(pieces) = upTo[n]
  <2>1. CASE n = 0
    <3>1. pieces = <<>>
      BY <2>1, EmptySeq
    <3> QED BY <2>1, <3>1, <1>5 DEF FlattenSeq
  <2>2. CASE n # 0
    <3> DEFINE flatten == CHOOSE f : f = [i \in 1 .. n |-> IF i = 1 THEN pieces[i]
                                                           ELSE f[i - 1] \o pieces[i]]
    <3>1. FlattenSeq(pieces) = flatten[n]
      BY <2>2 DEF FlattenSeq
    <3>2. \E f : f = [i \in 1 .. n |-> IF i = 1 THEN pieces[i] ELSE f[i - 1] \o pieces[i]]
      <4> DEFINE f == [i \in 1 .. n |-> upTo[i]]
      <4>1. ASSUME NEW i \in 1 .. n
            PROVE  f[i] = IF i = 1 THEN pieces[i] ELSE f[i - 1] \o pieces[i]
        <5>1. CASE i = 1
          <6>1. pieces[1] \in Seq(S) /\ upTo[1] = upTo[1 - 1] \o pieces[1]
            BY <1>1, <1>4, <5>1
          <6>2. upTo[1] = <<>> \o pieces[1]
            BY <6>1, <1>5, 1 - 1 = 0
          <6> QED BY <5>1, <6>1, <6>2, ConcatEmptySeq
        <5>2. CASE i # 1
          <6>1. i - 1 \in 1 .. n
            BY <1>1, <5>2
          <6> QED BY <1>4, <5>2, <6>1
        <5> QED BY <5>1, <5>2
      <4>2. f = [i \in 1 .. n |-> IF i = 1 THEN pieces[i] ELSE f[i - 1] \o pieces[i]]
        <5>1. f = [i \in 1 .. n |-> f[i]]
          OBVIOUS
        <5> HIDE DEF f
        <5> QED BY <4>1, <5>1
      <4> QED BY <4>2
    <3>3. flatten = [i \in 1 .. n |-> IF i = 1 THEN pieces[i]
                                               ELSE flatten[i - 1] \o pieces[i]]
      BY <3>2
    <3> HIDE DEF flatten
    <3> DEFINE T == {i \in 0 .. n : i = 0 \/ flatten[i] = upTo[i]}
    <3>4. 0 \in T
      BY <1>1
    <3>5. ASSUME NEW i \in 1 .. n, i - 1 \in T
          PROVE  i \in T
      <4>1. flatten[i] = IF i = 1 THEN pieces[i] ELSE flatten[i - 1] \o pieces[i]
        BY <3>3
      <4>2. CASE i = 1
        <5>1. pieces[1] \in Seq(S) /\ upTo[1] = upTo[1 - 1] \o pieces[1]
          BY <1>1, <1>4, <4>2
        <5>2. upTo[1] = <<>> \o pieces[1]
          BY <5>1, <1>5, 1 - 1 = 0
        <5> QED BY <4>1, <4>2, <5>1, <5>2, ConcatEmptySeq
      <4>3. CASE i # 1
        <5>1. flatten[i - 1] = upTo[i - 1] /\ i \in 0 .. n
          BY <3>5, <4>3
        <5>2. flatten[i] = upTo[i]
          BY <1>4, <4>1, <4>3, <5>1
        <5> QED BY <5>1, <5>2
      <4> QED BY <4>2, <4>3
    <3>6. \A i \in 0 .. n : i \in T
      <4> HIDE DEF T, n
      <4> QED BY <1>1, <3>4, <3>5, CountingUp
    <3>7. n \in T
      BY <1>1, <3>6
    <3> QED BY <2>2, <3>1, <3>7
  <2> QED BY <2>1, <2>2
<1> QED BY <1>6, <1>7

LEMMA FlattenNone == FlattenSeq(<<>>) = <<>>
BY DEF FlattenSeq

LEMMA FlattenOne ==
  ASSUME NEW S, NEW piece \in Seq(S)
  PROVE  FlattenSeq(<<piece>>) = piece
<1> DEFINE one == <<piece>>
<1>1. one \in Seq(Seq(S)) /\ Len(one) = 1 /\ one[1] = piece
  OBVIOUS
<1> HIDE DEF one
<1>2. PICK upTo \in [0 .. 1 -> Seq(S)] : Accumulates(one, upTo) /\ FlattenSeq(one) = upTo[1]
  BY <1>1, FlattenGrows
<1>3. upTo[0] = <<>> /\ upTo[1] = upTo[1 - 1] \o piece
  BY <1>1, <1>2 DEF Accumulates
<1>4. upTo[1] = piece
  BY <1>3, 1 - 1 = 0, ConcatEmptySeq
<1> QED BY <1>2, <1>4 DEF one

LEMMA FlattenIsSeq ==
  ASSUME NEW S, NEW pieces \in Seq(Seq(S))
  PROVE  FlattenSeq(pieces) \in Seq(S)
<1> DEFINE n == Len(pieces)
<1>1. n \in 0 .. n
  BY LenProperties
<1>2. PICK upTo \in [0 .. n -> Seq(S)] : FlattenSeq(pieces) = upTo[n]
  BY FlattenGrows
<1> HIDE DEF n
<1> QED BY <1>1, <1>2

LEMMA FlattenJoined ==
  ASSUME NEW S, NEW a \in Seq(Seq(S)), NEW b \in Seq(Seq(S))
  PROVE  FlattenSeq(a \o b) = FlattenSeq(a) \o FlattenSeq(b)
<1> DEFINE c == a \o b
           la == Len(a)
           lb == Len(b)
           lc == Len(c)
<1>1. /\ la \in Nat /\ lb \in Nat /\ c \in Seq(Seq(S)) /\ lc = la + lb
      /\ \A i \in 1 .. la : c[i] = a[i]
      /\ \A i \in 1 .. lb : c[la + i] = b[i]
  BY Joined
<1>2. PICK f \in [0 .. la -> Seq(S)] : Accumulates(a, f) /\ FlattenSeq(a) = f[la]
  BY FlattenGrows
<1>3. PICK g \in [0 .. lb -> Seq(S)] : Accumulates(b, g) /\ FlattenSeq(b) = g[lb]
  BY FlattenGrows
<1>4. PICK h \in [0 .. lc -> Seq(S)] : Accumulates(c, h) /\ FlattenSeq(c) = h[lc]
  BY <1>1, FlattenGrows
<1>5. /\ f[0] = <<>> /\ \A i \in 1 .. la : f[i] = f[i - 1] \o a[i]
      /\ g[0] = <<>> /\ \A i \in 1 .. lb : g[i] = g[i - 1] \o b[i]
      /\ h[0] = <<>> /\ \A i \in 1 .. lc : h[i] = h[i - 1] \o c[i]
  BY <1>2, <1>3, <1>4 DEF Accumulates
<1>6. \A i \in 1 .. lb : b[i] \in Seq(S)
  BY ElementOfSeq
<1> HIDE DEF la, lb, lc, c
<1>7. \A i \in 0 .. la : h[i] = f[i]
  <2> DEFINE T == {i \in 0 .. la : h[i] = f[i]}
  <2>1. 0 \in T
    BY <1>1, <1>5
  <2>2. ASSUME NEW i \in 1 .. la, i - 1 \in T
        PROVE  i \in T
    <3>1. i \in 1 .. lc /\ i \in 0 .. la
      BY <1>1
    <3> QED BY <1>1, <1>5, <2>2, <3>1
  <2>3. \A i \in 0 .. la : i \in T
    <3> HIDE DEF T
    <3> QED BY <1>1, <2>1, <2>2, CountingUp
  <2> QED BY <2>3
<1>8. \A i \in 0 .. lb : h[la + i] = f[la] \o g[i]
  <2> DEFINE T == {i \in 0 .. lb : h[la + i] = f[la] \o g[i]}
  <2>1. 0 \in T
    <3>1. la \in 0 .. la /\ la + 0 = la /\ 0 \in 0 .. lb
      BY <1>1
    <3>2. f[la] \in Seq(S)
      BY <1>2, <3>1
    <3>3. f[la] \o <<>> = f[la]
      BY <3>2, ConcatEmptySeq
    <3> QED BY <1>5, <1>7, <3>1, <3>3
  <2>2. ASSUME NEW i \in 1 .. lb, i - 1 \in T
        PROVE  i \in T
    <3> DEFINE k == la + i
               j == i - 1
    <3>1. k \in 1 .. lc /\ k - 1 = la + j /\ j \in 0 .. lb /\ i \in 0 .. lb /\ la \in 0 .. la
      BY <1>1
    <3>2. h[k] = h[k - 1] \o c[k] /\ c[k] = b[i]
      BY <1>1, <1>5, <3>1
    <3>3. h[la + j] = f[la] \o g[j]
      BY <2>2
    <3>4. g[i] = g[j] \o b[i]
      BY <1>5
    <3>5. f[la] \in Seq(S) /\ g[j] \in Seq(S) /\ b[i] \in Seq(S)
      BY <1>2, <1>3, <1>6, <3>1
    <3> HIDE DEF k, j
    <3>6. h[k] = (f[la] \o g[j]) \o b[i]
      BY <3>1, <3>2, <3>3
    <3>7. (f[la] \o g[j]) \o b[i] = f[la] \o (g[j] \o b[i])
      <4> DEFINE x == f[la]
                 y == g[j]
                 z == b[i]
      <4>1. x \in Seq(S) /\ y \in Seq(S) /\ z \in Seq(S)
        BY <3>5
      <4> HIDE DEF x, y, z
      <4>2. (x \o y) \o z = x \o (y \o z)
        BY <4>1, ConcatAssociative
      <4> QED BY <4>2 DEF x, y, z
    <3>8. h[k] = f[la] \o g[i]
      BY <3>4, <3>6, <3>7
    <3> QED BY <3>1, <3>8 DEF k
  <2>3. \A i \in 0 .. lb : i \in T
    <3> HIDE DEF T
    <3> QED BY <1>1, <2>1, <2>2, CountingUp
  <2> QED BY <2>3
<1>9. h[lc] = f[la] \o g[lb]
  <2>1. lb \in 0 .. lb
    BY <1>1
  <2> QED BY <1>1, <1>8, <2>1
<1> QED BY <1>2, <1>3, <1>4, <1>9 DEF c

-----------------------------------------------------------------------------
(* What the elements of a sequence stand for, one behind the other.         *)
Pieces(f, seq) == [i \in DOMAIN seq |-> f[seq[i]]]
Collect(f, seq) == FlattenSeq(Pieces(f, seq))

(* Each turn adds what one element stands for.                              *)
Collecting(f, seq, upTo) ==
  /\ upTo[0] = <<>>
  /\ \A i \in 1 .. Len(seq) : upTo[i] = upTo[i - 1] \o f[seq[i]]

CollectedBy(f, seq, upTo) == /\ Collecting(f, seq, upTo)
                             /\ Collect(f, seq) = upTo[Len(seq)]

LEMMA CollectSteps ==
  ASSUME NEW S, NEW T, NEW f \in [T -> Seq(S)], NEW seq \in Seq(T)
  PROVE  /\ Pieces(f, seq) \in Seq(Seq(S))
         /\ Collect(f, seq) \in Seq(S)
         /\ \E upTo \in [0 .. Len(seq) -> Seq(S)] : CollectedBy(f, seq, upTo)
<1> DEFINE pieces == Pieces(f, seq)
           n == Len(seq)
<1>1. n \in Nat /\ DOMAIN seq = 1 .. n /\ \A i \in 1 .. n : seq[i] \in T
  BY LenProperties, ElementOfSeq
<1>2. pieces = [i \in 1 .. n |-> f[seq[i]]] /\ \A i \in 1 .. n : f[seq[i]] \in Seq(S)
  BY <1>1 DEF Pieces
<1>3. pieces \in Seq(Seq(S))
  <2> HIDE DEF n
  <2> QED BY <1>1, <1>2, IsASeq
<1>4. Len(pieces) = n /\ \A i \in 1 .. n : pieces[i] = f[seq[i]]
  <2>1. DOMAIN pieces = 1 .. n
    BY <1>2
  <2> HIDE DEF pieces, n
  <2>2. DOMAIN pieces = 1 .. Len(pieces) /\ Len(pieces) \in Nat
    BY <1>3, LenProperties
  <2>3. Len(pieces) = n
    BY <1>1, <2>1, <2>2
  <2> QED BY <1>2, <2>3
<1> HIDE DEF pieces, n
<1>5. PICK upTo \in [0 .. n -> Seq(S)] : Accumulates(pieces, upTo) /\ FlattenSeq(pieces) = upTo[n]
  BY <1>3, <1>4, FlattenGrows
<1>6. upTo[0] = <<>> /\ \A i \in 1 .. n : upTo[i] = upTo[i - 1] \o f[seq[i]]
  BY <1>4, <1>5 DEF Accumulates
<1>7. Collect(f, seq) = upTo[n]
  BY <1>5 DEF Collect, pieces
<1>8. upTo[n] \in Seq(S)
  BY <1>1, <1>5
<1> QED BY <1>3, <1>6, <1>7, <1>8 DEF pieces, n, Collecting, CollectedBy

LEMMA CollectNone == ASSUME NEW f PROVE Collect(f, <<>>) = <<>>
<1>1. Pieces(f, <<>>) = <<>>
  BY DEF Pieces
<1> QED BY <1>1, FlattenNone DEF Collect

LEMMA CollectOne ==
  ASSUME NEW S, NEW T, NEW f \in [T -> Seq(S)], NEW x \in T
  PROVE  Collect(f, <<x>>) = f[x]
<1>1. Pieces(f, <<x>>) = <<f[x]>>
  BY DEF Pieces
<1>2. FlattenSeq(<<f[x]>>) = f[x]
  <2> DEFINE piece == f[x]
  <2>1. piece \in Seq(S)
    OBVIOUS
  <2> HIDE DEF piece
  <2>2. FlattenSeq(<<piece>>) = piece
    BY <2>1, FlattenOne
  <2> QED BY <2>2 DEF piece
<1> QED BY <1>1, <1>2 DEF Collect

LEMMA CollectJoined ==
  ASSUME NEW S, NEW T, NEW f \in [T -> Seq(S)], NEW a \in Seq(T), NEW b \in Seq(T)
  PROVE  Collect(f, a \o b) = Collect(f, a) \o Collect(f, b)
<1> DEFINE c == a \o b
           pa == Pieces(f, a)
           pb == Pieces(f, b)
           pc == Pieces(f, c)
           la == Len(a)
           lb == Len(b)
<1>1. /\ la \in Nat /\ lb \in Nat /\ c \in Seq(T) /\ DOMAIN c = 1 .. la + lb
      /\ \A i \in 1 .. la : c[i] = a[i]
      /\ \A i \in 1 .. lb : c[la + i] = b[i]
  BY Joined
<1>2. pa \in Seq(Seq(S)) /\ pb \in Seq(Seq(S)) /\ pc \in Seq(Seq(S))
  BY <1>1, CollectSteps
<1>3. DOMAIN a = 1 .. la /\ DOMAIN b = 1 .. lb
  BY LenProperties
<1>4. /\ DOMAIN pa = 1 .. la /\ \A i \in 1 .. la : pa[i] = f[a[i]]
      /\ DOMAIN pb = 1 .. lb /\ \A i \in 1 .. lb : pb[i] = f[b[i]]
      /\ DOMAIN pc = 1 .. la + lb /\ \A i \in 1 .. la + lb : pc[i] = f[c[i]]
  <2> HIDE DEF la, lb, c
  <2> QED BY <1>1, <1>3 DEF Pieces
<1> HIDE DEF pa, pb, pc, la, lb, c
<1>5. /\ Len(pa) = la /\ Len(pb) = lb /\ Len(pc) = la + lb
  <2>1. /\ DOMAIN pa = 1 .. Len(pa) /\ Len(pa) \in Nat
        /\ DOMAIN pb = 1 .. Len(pb) /\ Len(pb) \in Nat
        /\ DOMAIN pc = 1 .. Len(pc) /\ Len(pc) \in Nat
    BY <1>2, LenProperties
  <2>2. Len(pa) = la /\ Len(pb) = lb
    BY <1>1, <1>4, <2>1
  <2>3. Len(pc) = la + lb
    BY <1>1, <1>4, <2>1
  <2> QED BY <2>2, <2>3
<1> DEFINE joined == pa \o pb
<1>6. /\ joined \in Seq(Seq(S)) /\ Len(joined) = la + lb /\ DOMAIN joined = 1 .. la + lb
      /\ \A i \in 1 .. la : joined[i] = pa[i]
      /\ \A i \in 1 .. lb : joined[la + i] = pb[i]
  <2> DEFINE X == Seq(S)
  <2>1. pa \in Seq(X) /\ pb \in Seq(X) /\ la = Len(pa) /\ lb = Len(pb)
    BY <1>2, <1>5
  <2> HIDE DEF joined, X
  <2>2. joined = pa \o pb
    BY DEF joined
  <2>3. /\ joined \in Seq(X) /\ Len(joined) = la + lb /\ DOMAIN joined = 1 .. la + lb
        /\ \A i \in 1 .. la : joined[i] = pa[i]
        /\ \A i \in 1 .. lb : joined[la + i] = pb[i]
    BY <2>1, <2>2, Joined
  <2> QED BY <2>3 DEF X
<1> HIDE DEF joined
<1>7. ASSUME NEW i \in 1 .. la + lb
      PROVE  pc[i] = joined[i]
  <2>1. CASE i \in 1 .. la
    <3>1. pc[i] = f[c[i]] /\ c[i] = a[i] /\ joined[i] = pa[i] /\ pa[i] = f[a[i]]
      BY <1>1, <1>4, <1>6, <2>1
    <3> QED BY <3>1
  <2>2. CASE i \notin 1 .. la
    <3> DEFINE j == i - la
    <3>1. j \in 1 .. lb /\ i = la + j
      BY <1>1, <2>2
    <3> HIDE DEF j
    <3>2. pc[i] = f[c[i]] /\ c[i] = b[j] /\ joined[i] = pb[j] /\ pb[j] = f[b[j]]
      BY <1>1, <1>4, <1>6, <3>1
    <3> QED BY <3>2
  <2> QED BY <2>1, <2>2
<1>8. pc = joined
  <2>1. DOMAIN pc = DOMAIN joined /\ \A i \in DOMAIN pc : pc[i] = joined[i]
    BY <1>4, <1>6, <1>7
  <2>2. pc = [i \in DOMAIN pc |-> pc[i]] /\ joined = [i \in DOMAIN joined |-> joined[i]]
    BY <1>2, <1>6, IsASeq, LenProperties
  <2> QED BY <2>1, <2>2
<1>9. FlattenSeq(pc) = FlattenSeq(pa) \o FlattenSeq(pb)
  BY <1>2, <1>8, FlattenJoined DEF joined
<1> QED BY <1>9 DEF Collect, pa, pb, pc, c

(* The sequence goes on behind each of its beginnings, and does not grow    *)
(* where an element stands for nothing.                                     *)
Extends(b, a, S) == \E rest \in Seq(S) : b = a \o rest

LEMMA ExtendsMore ==
  ASSUME NEW S, NEW a \in Seq(S), NEW b, NEW c \in Seq(S), Extends(b, a, S)
  PROVE  Extends(b \o c, a, S)
<1>1. PICK rest \in Seq(S) : b = a \o rest
  BY DEF Extends
<1>2. (a \o rest) \o c = a \o (rest \o c)
  BY ConcatAssociative
<1>3. rest \o c \in Seq(S)
  BY ConcatProperties
<1> QED BY <1>1, <1>2, <1>3 DEF Extends

LEMMA ExtendsItself == ASSUME NEW S, NEW a \in Seq(S) PROVE Extends(a, a, S)
<1>1. <<>> \in Seq(S) /\ a = a \o <<>>
  BY EmptySeq, ConcatEmptySeq
<1> QED BY <1>1 DEF Extends

LEMMA CollectGoesOn ==
  ASSUME NEW S, NEW T, NEW f \in [T -> Seq(S)], NEW seq \in Seq(T), NEW n, n = Len(seq),
         NEW upTo \in [0 .. n -> Seq(S)], Collecting(f, seq, upTo),
         NEW x \in 0 .. n, NEW y \in 0 .. n, x <= y
  PROVE  Extends(upTo[y], upTo[x], S)
<1>1. n \in Nat /\ \A i \in 1 .. n : f[seq[i]] \in Seq(S)
  BY LenProperties, ElementOfSeq
<1>2. \A i \in 1 .. n : upTo[i] = upTo[i - 1] \o f[seq[i]]
  BY DEF Collecting
<1> DEFINE T0 == {i \in 0 .. n : i < x \/ Extends(upTo[i], upTo[x], S)}
<1>3. x \in T0
  <2> DEFINE a == upTo[x]
  <2>1. a \in Seq(S)
    OBVIOUS
  <2> HIDE DEF a
  <2>2. Extends(a, a, S)
    BY <2>1, ExtendsItself
  <2> QED BY <2>2 DEF a
<1>4. 0 \in T0
  <2>1. 0 < x \/ x = 0
    BY <1>1
  <2> QED BY <1>1, <1>3, <2>1
<1>5. ASSUME NEW i \in 1 .. n, i - 1 \in T0
      PROVE  i \in T0
  <2>1. i < x \/ i = x \/ i > x
    BY <1>1
  <2>2. CASE i > x
    <3> DEFINE more == f[seq[i]]
               before == upTo[x]
               now == upTo[i - 1]
    <3>1. i - 1 \in 0 .. n /\ i \in 0 .. n /\ ~ (i - 1 < x)
      BY <1>1, <2>2
    <3>2. Extends(now, before, S)
      BY <1>5, <3>1
    <3>3. upTo[i] = now \o more /\ more \in Seq(S) /\ before \in Seq(S)
      BY <1>1, <1>2
    <3> HIDE DEF now, more, before
    <3>4. Extends(now \o more, before, S)
      BY <3>2, <3>3, ExtendsMore
    <3> QED BY <3>1, <3>3, <3>4 DEF before
  <2> QED BY <1>1, <1>3, <2>1, <2>2
<1>6. \A i \in 0 .. n : i \in T0
  <2> HIDE DEF T0
  <2> QED BY <1>1, <1>4, <1>5, CountingUp
<1>7. y \in T0 /\ ~ (y < x)
  BY <1>1, <1>6
<1> QED BY <1>7

Skips(f, seq, x, y) == \A i \in x + 1 .. y : f[seq[i]] = <<>>
Stays(upTo, x, y) == upTo[y] = upTo[x]

LEMMA CollectSkips ==
  ASSUME NEW S, NEW T, NEW f \in [T -> Seq(S)], NEW seq \in Seq(T), NEW n, n = Len(seq),
         NEW upTo \in [0 .. n -> Seq(S)], Collecting(f, seq, upTo),
         NEW x \in 0 .. n, NEW y \in 0 .. n, x <= y, Skips(f, seq, x, y)
  PROVE  Stays(upTo, x, y)
<1>1. n \in Nat /\ \A i \in 0 .. n : upTo[i] \in Seq(S)
  BY LenProperties
<1>2. \A i \in 1 .. n : upTo[i] = upTo[i - 1] \o f[seq[i]]
  BY DEF Collecting
<1> DEFINE T0 == {i \in 0 .. n : i < x \/ i > y \/ upTo[i] = upTo[x]}
<1>3. 0 \in T0
  BY <1>1
<1>4. ASSUME NEW i \in 1 .. n, i - 1 \in T0
      PROVE  i \in T0
  <2>1. i < x \/ i = x \/ i > y \/ i \in x + 1 .. y
    BY <1>1
  <2>2. CASE i \in x + 1 .. y
    <3> DEFINE before == upTo[i - 1]
    <3>1. i - 1 \in 0 .. n /\ ~ (i - 1 < x) /\ ~ (i - 1 > y)
      BY <1>1, <2>2
    <3>2. before \in Seq(S) /\ before = upTo[x] /\ upTo[i] = before \o f[seq[i]]
      BY <1>1, <1>2, <1>4, <3>1
    <3>3. f[seq[i]] = <<>>
      BY <2>2 DEF Skips
    <3> HIDE DEF before
    <3>4. upTo[i] = upTo[x]
      BY <3>2, <3>3, ConcatEmptySeq
    <3> QED BY <1>1, <3>4
  <2> QED BY <1>1, <2>1, <2>2
<1>5. \A i \in 0 .. n : i \in T0
  <2> HIDE DEF T0
  <2> QED BY <1>1, <1>3, <1>4, CountingUp
<1>6. y \in T0 /\ ~ (y < x) /\ ~ (y > y)
  BY <1>1, <1>5
<1> QED BY <1>6 DEF Stays

(* What the elements of a collection stand for is what the elements it was  *)
(* collected of stand for by way of it.                                     *)
Maps(f, T, S) == f \in [T -> Seq(S)]

LEMMA MapsJoined ==
  ASSUME NEW S, NEW T, NEW f, Maps(f, T, S), NEW a \in Seq(T), NEW b \in Seq(T)
  PROVE  Collect(f, a \o b) = Collect(f, a) \o Collect(f, b)
BY CollectJoined DEF Maps

LEMMA CollectTwice ==
  ASSUME NEW S, NEW T, NEW U, NEW f, Maps(f, T, S), NEW g, Maps(g, S, U),
         NEW h, Maps(h, T, U), \A x \in T : h[x] = Collect(g, f[x]),
         NEW seq \in Seq(T)
  PROVE  Collect(g, Collect(f, seq)) = Collect(h, seq)
<1> DEFINE n == Len(seq)
<1>1. n \in Nat /\ \A i \in 1 .. n : seq[i] \in T
  BY LenProperties, ElementOfSeq
<1>2. PICK upTo \in [0 .. n -> Seq(S)] : CollectedBy(f, seq, upTo)
  BY CollectSteps DEF Maps
<1>3. PICK up \in [0 .. n -> Seq(U)] : CollectedBy(h, seq, up)
  BY CollectSteps DEF Maps
<1>4. /\ upTo[0] = <<>> /\ \A i \in 1 .. n : upTo[i] = upTo[i - 1] \o f[seq[i]]
      /\ up[0] = <<>> /\ \A i \in 1 .. n : up[i] = up[i - 1] \o h[seq[i]]
      /\ Collect(f, seq) = upTo[n] /\ Collect(h, seq) = up[n]
  BY <1>2, <1>3 DEF Collecting, CollectedBy
<1> HIDE DEF n
<1> DEFINE Same == {i \in 0 .. n : Collect(g, upTo[i]) = up[i]}
<1>5. 0 \in Same
  BY <1>1, <1>4, CollectNone
<1>6. ASSUME NEW i \in 1 .. n, i - 1 \in Same
      PROVE  i \in Same
  <2> DEFINE j == i - 1
             x == seq[i]
             before == upTo[j]
             more == f[x]
  <2>1. j \in 0 .. n /\ i \in 0 .. n /\ x \in T
    BY <1>1
  <2>2. before \in Seq(S) /\ more \in Seq(S) /\ upTo[i] = before \o more
        /\ up[i] = up[j] \o h[x] /\ h[x] = Collect(g, more) /\ Collect(g, before) = up[j]
    BY <1>4, <1>6, <2>1 DEF Maps
  <2> HIDE DEF j, x, before, more
  <2>3. Collect(g, before \o more) = Collect(g, before) \o Collect(g, more)
    <3>1. before \in Seq(S) /\ more \in Seq(S)
      BY <2>2
    <3> QED BY <3>1, MapsJoined
  <2> QED BY <2>1, <2>2, <2>3
<1>7. \A i \in 0 .. n : i \in Same
  <2> HIDE DEF Same
  <2> QED BY <1>1, <1>5, <1>6, CountingUp
<1>8. n \in Same
  BY <1>1, <1>7
<1> QED BY <1>4, <1>8

LEMMA PrefixOfJoined ==
  ASSUME NEW S, NEW a \in Seq(S), NEW b \in Seq(S)
  PROVE  IsPrefix(a, a \o b)
<1> DEFINE c == a \o b
           la == Len(a)
           lb == Len(b)
<1>1. /\ la \in Nat /\ lb \in Nat /\ c \in Seq(S) /\ Len(c) = la + lb
      /\ \A k \in 1 .. la : c[k] = a[k]
  BY Joined
<1>2. SubSeq(a, 1, la) = a
  BY SubSeqFull
<1>3. SubSeq(c, 1, la) = a
  BY SubSeqOfConcat1
<1>4. la <= Len(c)
  <2> HIDE DEF la, lb, c
  <2> QED BY <1>1
<1> QED BY <1>2, <1>3, <1>4 DEF IsPrefix

(* What picks from a sequence leaves out nothing in front of what it picked: *)
(* it collects a beginning of what the whole sequence stands for.           *)
Picks(f, a, picked, g, b, picks, h) ==
  /\ picked \subseteq 1 .. Len(a) /\ picks \subseteq 1 .. Len(b)
  /\ \A i \in 1 .. Len(a) : i \notin picked => f[a[i]] = <<>>
  /\ \A k \in 1 .. Len(b) : k \notin picks => g[b[k]] = <<>>
  /\ \A i \in picked : /\ h[i] \in picks /\ f[a[i]] = g[b[h[i]]]
                       /\ {h[j] : j \in {x \in picked : x < i}} = {k \in picks : k < h[i]}

LEMMA PickedIsPrefix ==
  ASSUME NEW S, NEW T, NEW U, NEW f, Maps(f, T, S), NEW g, Maps(g, U, S),
         NEW a \in Seq(T), NEW b \in Seq(U),
         NEW picked, NEW picks, NEW h, Picks(f, a, picked, g, b, picks, h)
  PROVE  IsPrefix(Collect(f, a), Collect(g, b))
<1> DEFINE n == Len(a)
           l == Len(b)
<1>1. n \in Nat /\ l \in Nat
  BY LenProperties
<1>2. PICK x \in [0 .. n -> Seq(S)] : CollectedBy(f, a, x)
  BY CollectSteps DEF Maps
<1>3. PICK y \in [0 .. l -> Seq(S)] : CollectedBy(g, b, y)
  BY CollectSteps DEF Maps
<1>4. /\ x[0] = <<>> /\ \A i \in 1 .. n : x[i] = x[i - 1] \o f[a[i]]
      /\ y[0] = <<>> /\ \A k \in 1 .. l : y[k] = y[k - 1] \o g[b[k]]
      /\ Collect(f, a) = x[n] /\ Collect(g, b) = y[l]
  BY <1>2, <1>3 DEF Collecting, CollectedBy
<1>5. /\ picked \subseteq 1 .. n /\ picks \subseteq 1 .. l
      /\ \A i \in 1 .. n : i \notin picked => f[a[i]] = <<>>
      /\ \A k \in 1 .. l : k \notin picks => g[b[k]] = <<>>
      /\ \A i \in picked : /\ h[i] \in picks /\ f[a[i]] = g[b[h[i]]]
                           /\ {h[j] : j \in {z \in picked : z < i}} = {k \in picks : k < h[i]}
  BY DEF Picks
<1>6. ASSUME NEW c \in 0 .. l, NEW d \in 0 .. l, c <= d, \A k \in c + 1 .. d : k \notin picks
      PROVE  y[d] = y[c]
  <2>1. \A k \in c + 1 .. d : k \in 1 .. l /\ g[b[k]] = <<>>
    BY <1>1, <1>5, <1>6
  <2>2. /\ Collecting(g, b, y) /\ g \in [U -> Seq(S)] /\ y \in [0 .. l -> Seq(S)]
        /\ b \in Seq(U)
    BY <1>3 DEF CollectedBy, Maps
  <2>3. Skips(g, b, c, d)
    BY <2>1 DEF Skips
  <2>4. l = Len(b) /\ c <= d /\ c \in 0 .. l /\ d \in 0 .. l
    BY <1>6
  <2> HIDE DEF l
  <2>5. Stays(y, c, d)
    BY <2>2, <2>3, <2>4, CollectSkips
  <2> QED BY <2>5 DEF Stays
<1>7. Collecting(g, b, y) /\ g \in [U -> Seq(S)] /\ l = Len(b)
  BY <1>3 DEF CollectedBy, Maps
<1> HIDE DEF n, l
<1>20. picked \subseteq Nat /\ picked \subseteq 1 .. n /\ \A z \in picked : ~ (z <= 0)
  <2>1. picked \subseteq 1 .. n
    BY <1>5
  <2>2. \A z \in 1 .. n : z \in Nat /\ ~ (z <= 0)
    BY <1>1
  <2> QED BY <2>1, <2>2
<1>21. picks \subseteq Nat /\ picks \subseteq 1 .. l /\ \A z \in picks : ~ (z <= 0)
  <2>1. picks \subseteq 1 .. l
    BY <1>5
  <2>2. \A z \in 1 .. l : z \in Nat /\ ~ (z <= 0)
    BY <1>1
  <2> QED BY <2>1, <2>2
<1> DEFINE Took(i) == {h[j] : j \in {z \in picked : z <= i}}
           UpTo(k) == {q \in picks : q <= k}
           At == {i \in 0 .. n : \E k \in 0 .. l : x[i] = y[k] /\ Took(i) = UpTo(k)}
<1>8. 0 \in At
  <2>1. {z \in picked : z <= 0} = {} /\ UpTo(0) = {}
    BY <1>20, <1>21
  <2>2. 0 \in 0 .. n /\ 0 \in 0 .. l
    BY <1>1
  <2>3. Took(0) = UpTo(0)
    BY <2>1
  <2> HIDE DEF Took, UpTo
  <2> QED BY <1>4, <2>2, <2>3
<1>9. ASSUME NEW i \in 1 .. n, i - 1 \in At
      PROVE  i \in At
  <2>1. PICK k \in 0 .. l : x[i - 1] = y[k] /\ Took(i - 1) = UpTo(k)
    BY <1>9
  <2>2. CASE i \notin picked
    <3> DEFINE before == x[i - 1]
    <3>1. i - 1 \in 0 .. n /\ i \in 0 .. n
      BY <1>1
    <3>2. before \in Seq(S) /\ x[i] = before \o f[a[i]] /\ f[a[i]] = <<>>
      BY <1>4, <1>5, <2>2, <3>1
    <3> HIDE DEF before
    <3>3. x[i] = before
      BY <3>2, ConcatEmptySeq
    <3>4. {z \in picked : z <= i} = {z \in picked : z <= i - 1}
      <4>1. \A z \in picked : z # i
        BY <2>2
      <4>2. \A z \in picked : z <= i <=> z <= i - 1
        BY <1>1, <1>20, <4>1
      <4> QED BY <4>2
    <3>5. Took(i) = Took(i - 1)
      BY <3>4
    <3> HIDE DEF Took, UpTo
    <3> QED BY <2>1, <3>1, <3>3, <3>5 DEF before
  <2>3. CASE i \in picked
    <3> DEFINE q == h[i]
    <3>1. q \in picks /\ q \in 1 .. l /\ f[a[i]] = g[b[q]]
      BY <1>5, <2>3
    <3>2. {z \in picked : z < i} = {z \in picked : z <= i - 1}
      <4>1. \A z \in picked : z < i <=> z <= i - 1
        BY <1>1, <1>20
      <4> QED BY <4>1
    <3>3. UpTo(k) = {p \in picks : p < q}
      BY <1>5, <2>1, <2>3, <3>2
    <3>4. Took(i) = Took(i - 1) \union {q}
      <4>1. {z \in picked : z <= i} = {z \in picked : z <= i - 1} \union {i}
        <5>1. \A z \in picked : z <= i <=> z <= i - 1 \/ z = i
          BY <1>1, <1>20
        <5> DEFINE low == {z \in picked : z <= i - 1}
        <5>2. \A z : z \in low <=> z \in picked /\ z <= i - 1
          OBVIOUS
        <5> HIDE DEF low
        <5>3. {z \in picked : z <= i} = low \union {i}
          BY <2>3, <5>1, <5>2
        <5> QED BY <5>3 DEF low
      <4> QED BY <4>1
    <3>5. UpTo(q) = UpTo(k) \union {q}
      <4>1. UpTo(q) = {p \in picks : p < q} \union {q}
        <5> HIDE DEF q
        <5>1. \A z \in picks : z <= q <=> z < q \/ z = q
          BY <1>21, <3>1
        <5> QED BY <3>1, <5>1
      <4> QED BY <3>3, <4>1
    <3> HIDE DEF q
    <3>6. q - 1 \in 0 .. l /\ k <= q - 1
      <4>1. ~ (q <= k)
        <5>1. q \in Nat /\ ~ (q < q)
          BY <1>21, <3>1
        <5>2. q \notin UpTo(k)
          BY <3>3, <5>1
        <5>3. q <= k => q \in UpTo(k)
          BY <3>1
        <5> QED BY <5>2, <5>3
      <4>2. q \in 1 .. l
        BY <3>1
      <4> QED BY <1>1, <4>1, <4>2
    <3>7. \A p \in k + 1 .. q - 1 : p \notin picks
      <4>1. ASSUME NEW p \in k + 1 .. q - 1, p \in picks
            PROVE  FALSE
        <5>1. p < q /\ ~ (p <= k) /\ p \in Nat
          BY <1>1, <3>1
        <5>2. p \in UpTo(k)
          BY <3>3, <4>1, <5>1
        <5> QED BY <5>1, <5>2
      <4> QED BY <4>1
    <3>8. y[q - 1] = y[k]
      BY <1>6, <3>6, <3>7
    <3>9. x[i] = x[i - 1] \o f[a[i]] /\ y[q] = y[q - 1] \o g[b[q]]
      BY <1>4, <3>1
    <3>10. x[i] = y[q]
      BY <2>1, <3>1, <3>8, <3>9
    <3>11. Took(i) = UpTo(q)
      BY <2>1, <3>4, <3>5
    <3>12. q \in 0 .. l /\ i \in 0 .. n
      BY <1>1, <3>1
    <3> HIDE DEF Took, UpTo
    <3> QED BY <3>10, <3>11, <3>12
  <2> QED BY <2>2, <2>3
<1>10. n \in At
  <2> HIDE DEF At
  <2>1. \A i \in 0 .. n : i \in At
    BY <1>1, <1>8, <1>9, CountingUp
  <2> QED BY <1>1, <2>1
<1>11. PICK k \in 0 .. l : x[n] = y[k]
  BY <1>10
<1>12. l \in 0 .. l /\ k <= l
  BY <1>1
<1>13. Extends(y[l], y[k], S)
  BY <1>7, <1>12, CollectGoesOn
<1>14. y[k] \in Seq(S)
  OBVIOUS
<1> DEFINE begin == y[k]
<1> HIDE DEF begin
<1>15. PICK rest \in Seq(S) : y[l] = begin \o rest
  BY <1>13 DEF Extends, begin
<1>16. IsPrefix(begin, begin \o rest)
  <2>1. begin \in Seq(S)
    BY <1>14 DEF begin
  <2> QED BY <2>1, PrefixOfJoined
<1> QED BY <1>4, <1>11, <1>15, <1>16 DEF begin
=============================================================================
