------------------------------ MODULE RelayProofs ------------------------------
(***************************************************************************)
(* Connection implements Relay, for clients that wait, any number of       *)
(* messages and any cut of the streams.                                    *)
(***************************************************************************)
EXTENDS SessionProofs, Flattening

-----------------------------------------------------------------------------
(* What the streams are mapped to.                                          *)
AnyKind == ClientKinds \union ServerKinds \union {"own_ssl"}
RequestType == [kind : AnyKind, m : Nat, to : {"server", "proxy", "refused"}]
AnswerType == [kind : AnyKind, m : Nat, from : {"server", "proxy"}]

RequestOf == [byte \in TaggedPiece |-> Requested(byte)]
AnswerOf == [byte \in Piece |-> Answer(byte)]
ServersOf == [request \in RequestType |-> R!ToServer(request)]
OwnOf == [request \in RequestType |-> OwnTo(request)]
OnlyBy(author) == [answer \in AnswerType |-> R!OfAuthor(answer, author)]
ToldBy(author) == [byte \in Piece |-> R!From(author, Answer(byte))]

Said(m) == [kind |-> sent[m], m |-> m, to |-> Destination(m)]
SaidUpTo(n) == [m \in 1 .. n |-> Said(m)]

LEMMA FlattensAgree == ASSUME NEW seqs PROVE R!FlattenSeq(seqs) = FlattenSeq(seqs)
BY DEF R!FlattenSeq, FlattenSeq

LEMMA PrefixesAgree == ASSUME NEW s, NEW t PROVE R!IsPrefix(s, t) <=> IsPrefix(s, t)
BY DEF R!IsPrefix, IsPrefix

LEMMA DestinationIs == \A m : Destination(m) \in {"server", "proxy", "refused"}
BY DEF Destination

LEMMA AuthorIs == \A m : Author(m) \in {"server", "proxy"}
BY DEF Author

LEMMA Named ==
  /\ \A byte \in TaggedPiece : Requested(byte) \in Seq(RequestType)
  /\ \A byte \in Piece : Answer(byte) \in Seq(AnswerType)
  /\ \A request \in RequestType : R!ToServer(request) \in Seq(RequestType)
  /\ \A request \in RequestType : OwnTo(request) \in Seq(AnswerType)
  /\ \A author : \A answer \in AnswerType : R!OfAuthor(answer, author) \in Seq(AnswerType)
<1>1. ASSUME NEW byte \in TaggedPiece
      PROVE  Requested(byte) \in Seq(RequestType)
  <2>1. Request(byte) \in RequestType
    BY DestinationIs DEF Request, RequestType, TaggedPiece, AnyKind
  <2> QED BY <2>1 DEF Requested
<1>2. ASSUME NEW byte \in Piece
      PROVE  Answer(byte) \in Seq(AnswerType)
  <2>1. Told(byte) \in AnswerType
    BY AuthorIs DEF Told, AnswerType, Piece, AnyKind
  <2> QED BY <2>1 DEF Answer
<1>3. ASSUME NEW request \in RequestType
      PROVE  R!ToServer(request) \in Seq(RequestType)
  BY DEF R!ToServer
<1>4. ASSUME NEW request \in RequestType
      PROVE  OwnTo(request) \in Seq(AnswerType)
  <2>1. \A kind \in {"failed", "ready", "S"} : OwnAnswer(kind, request) \in AnswerType
    BY DEF OwnAnswer, AnswerType, RequestType, AnyKind, ServerKinds
  <2>2. /\ OwnAnswer("failed", request) \in AnswerType
        /\ OwnAnswer("ready", request) \in AnswerType
        /\ OwnAnswer("S", request) \in AnswerType
    BY <2>1
  <2> QED BY <2>2 DEF OwnTo
<1>5. ASSUME NEW answer \in AnswerType, NEW author
      PROVE  R!OfAuthor(answer, author) \in Seq(AnswerType)
  BY DEF R!OfAuthor
<1> QED BY <1>1, <1>2, <1>3, <1>4, <1>5

LEMMA MapsAre ==
  /\ RequestOf \in [TaggedPiece -> Seq(RequestType)]
  /\ AnswerOf \in [Piece -> Seq(AnswerType)]
  /\ ServersOf \in [RequestType -> Seq(RequestType)]
  /\ OwnOf \in [RequestType -> Seq(AnswerType)]
  /\ \A author : OnlyBy(author) \in [AnswerType -> Seq(AnswerType)]
BY Named DEF RequestOf, AnswerOf, ServersOf, OwnOf, OnlyBy

LEMMA SaidIs ==
  ASSUME Shape
  PROVE  /\ Len(sent) \in Nat
         /\ \A n \in 0 .. Len(sent) : /\ SaidUpTo(n) \in Seq(RequestType)
                                      /\ Len(SaidUpTo(n)) = n
         /\ \A m \in 1 .. Len(sent) : Said(m) \in RequestType
         /\ [m \in DOMAIN sent |-> [kind |-> sent[m], m |-> m, to |-> Destination(m)]]
              = SaidUpTo(Len(sent))
<1> DEFINE l == Len(sent)
<1>1. l \in Nat /\ DOMAIN sent = 1 .. l /\ \A m \in 1 .. l : sent[m] \in ClientKinds
  BY LenProperties, ElementOfSeq DEF Shape
<1> HIDE DEF l
<1>2. \A m \in 1 .. l : Said(m) \in RequestType
  BY <1>1, DestinationIs DEF Said, RequestType, AnyKind
<1>3. ASSUME NEW n \in 0 .. l
      PROVE  SaidUpTo(n) \in Seq(RequestType) /\ Len(SaidUpTo(n)) = n
  <2> DEFINE s == SaidUpTo(n)
  <2>1. n \in Nat /\ DOMAIN s = 1 .. n /\ \A m \in 1 .. n : Said(m) \in RequestType
    BY <1>1, <1>2 DEF SaidUpTo
  <2>2. s \in Seq(RequestType)
    BY <2>1, IsASeq DEF SaidUpTo
  <2> HIDE DEF s
  <2>3. DOMAIN s = 1 .. Len(s) /\ Len(s) \in Nat
    BY <2>2, LenProperties
  <2> QED BY <2>1, <2>2, <2>3 DEF s
<1>4. [m \in DOMAIN sent |-> [kind |-> sent[m], m |-> m, to |-> Destination(m)]] = SaidUpTo(l)
  BY <1>1 DEF SaidUpTo, Said
<1> QED BY <1>1, <1>2, <1>3, <1>4 DEF l

(* The mapping in terms of what is collected.                               *)
LEMMA RequestsCollected ==
  ASSUME NEW bytes \in Seq(TaggedPiece)
  PROVE  RequestsIn(bytes) = Collect(RequestOf, bytes)
<1>1. \A i \in DOMAIN bytes : bytes[i] \in TaggedPiece
  BY ElementOfSeq, LenProperties
<1>2. [i \in DOMAIN bytes |-> Requested(bytes[i])] = Pieces(RequestOf, bytes)
  BY <1>1 DEF Pieces, RequestOf
<1> QED BY <1>2 DEF RequestsIn, Collect

LEMMA AnswersCollected ==
  ASSUME NEW bytes \in Seq(Piece)
  PROVE  AnswersIn(bytes) = Collect(AnswerOf, bytes) /\ AnswersIn(bytes) \in Seq(AnswerType)
<1>1. \A i \in DOMAIN bytes : bytes[i] \in Piece
  BY ElementOfSeq, LenProperties
<1>2. [i \in DOMAIN bytes |-> Answer(bytes[i])] = Pieces(AnswerOf, bytes)
  BY <1>1 DEF Pieces, AnswerOf
<1>3. AnswersIn(bytes) = Collect(AnswerOf, bytes)
  BY <1>2 DEF AnswersIn, Collect
<1> DEFINE f == AnswerOf
<1>4. f \in [Piece -> Seq(AnswerType)]
  BY MapsAre
<1> HIDE DEF f
<1>5. Collect(f, bytes) \in Seq(AnswerType)
  BY <1>4, CollectSteps
<1> QED BY <1>3, <1>5 DEF f

LEMMA MeantCollected ==
  ASSUME Shape
  PROVE  /\ R!MeantForServer = Collect(ServersOf, SaidUpTo(Len(sent)))
         /\ R!OwnAnswers = Collect(OwnOf, SaidUpTo(Len(sent)))
<1> DEFINE all == [m \in DOMAIN sent |-> [kind |-> sent[m], m |-> m, to |-> Destination(m)]]
           s == SaidUpTo(Len(sent))
<1>1. all = s /\ s \in Seq(RequestType)
  <2>1. Len(sent) \in 0 .. Len(sent)
    BY SaidIs
  <2> QED BY <2>1, SaidIs
<1>2. /\ R!MeantForServer = R!FlattenSeq([m \in DOMAIN all |-> R!ToServer(all[m])])
      /\ R!OwnAnswers = R!FlattenSeq([m \in DOMAIN all |-> OwnTo(all[m])])
  BY DEF R!MeantForServer, R!OwnAnswers
<1> HIDE DEF all, s
<1>3. \A m \in DOMAIN s : s[m] \in RequestType
  BY <1>1, ElementOfSeq, LenProperties
<1>4. /\ [m \in DOMAIN s |-> R!ToServer(s[m])] = Pieces(ServersOf, s)
      /\ [m \in DOMAIN s |-> OwnTo(s[m])] = Pieces(OwnOf, s)
  BY <1>3 DEF Pieces, ServersOf, OwnOf
<1> QED BY <1>1, <1>2, <1>4, FlattensAgree DEF Collect, s

LEMMA FromCollected ==
  ASSUME NEW messages \in Seq(AnswerType), NEW author
  PROVE  /\ R!From(author, messages) = Collect(OnlyBy(author), messages)
         /\ R!From(author, messages) \in Seq(AnswerType)
<1>1. \A i \in DOMAIN messages : messages[i] \in AnswerType
  BY ElementOfSeq, LenProperties
<1>2. [i \in DOMAIN messages |-> R!OfAuthor(messages[i], author)] = Pieces(OnlyBy(author), messages)
  BY <1>1 DEF Pieces, OnlyBy
<1>3. R!From(author, messages) = Collect(OnlyBy(author), messages)
  BY <1>2, FlattensAgree DEF R!From, Collect
<1> DEFINE f == OnlyBy(author)
<1>4. f \in [AnswerType -> Seq(AnswerType)]
  BY MapsAre
<1> HIDE DEF f
<1>5. Collect(f, messages) \in Seq(AnswerType)
  BY <1>4, CollectSteps
<1> QED BY <1>3, <1>5 DEF f

(* What one of the two says in a stream of bytes.                           *)
LEMMA ToldCollected ==
  ASSUME NEW bytes \in Seq(Piece), NEW author
  PROVE  /\ R!From(author, AnswersIn(bytes)) = Collect(ToldBy(author), bytes)
         /\ ToldBy(author) \in [Piece -> Seq(AnswerType)]
         /\ R!From(author, AnswersIn(bytes)) \in Seq(AnswerType)
<1> DEFINE f == AnswerOf
           g == OnlyBy(author)
           h == ToldBy(author)
<1>1. f \in [Piece -> Seq(AnswerType)] /\ g \in [AnswerType -> Seq(AnswerType)]
  BY MapsAre
<1>2. \A byte \in Piece : f[byte] = Answer(byte) /\ Answer(byte) \in Seq(AnswerType)
  BY Named DEF AnswerOf
<1>3. ASSUME NEW byte \in Piece
      PROVE  h[byte] = Collect(g, f[byte]) /\ h[byte] \in Seq(AnswerType)
  BY <1>2, FromCollected DEF ToldBy
<1>4. h \in [Piece -> Seq(AnswerType)]
  BY <1>3 DEF ToldBy
<1>5. AnswersIn(bytes) = Collect(f, bytes) /\ AnswersIn(bytes) \in Seq(AnswerType)
  BY AnswersCollected
<1>6. R!From(author, AnswersIn(bytes)) = Collect(g, AnswersIn(bytes))
      /\ R!From(author, AnswersIn(bytes)) \in Seq(AnswerType)
  BY <1>5, FromCollected
<1> HIDE DEF f, g, h
<1>7. Maps(f, Piece, AnswerType) /\ Maps(g, AnswerType, AnswerType) /\ Maps(h, Piece, AnswerType)
  BY <1>1, <1>4 DEF Maps
<1>8. Collect(g, Collect(f, bytes)) = Collect(h, bytes)
  BY <1>3, <1>7, CollectTwice
<1> QED BY <1>4, <1>5, <1>6, <1>8 DEF h

LEMMA ToldIs ==
  ASSUME NEW byte \in Piece, NEW author
  PROVE  ToldBy(author)[byte]
           = IF IsLast(byte) /\ Author(byte.m) = author THEN <<Told(byte)>> ELSE <<>>
<1> DEFINE it == Told(byte)
<1>1. ToldBy(author)[byte] = R!From(author, Answer(byte))
  BY DEF ToldBy
<1>2. it \in AnswerType /\ it.from = Author(byte.m)
  <2>1. it.from = Author(byte.m)
    BY DEF Told
  <2> QED BY <2>1, AuthorIs DEF Told, AnswerType, Piece, AnyKind
<1> HIDE DEF it
<1>3. ASSUME NEW empty, empty = <<>>
      PROVE  R!From(author, empty) = <<>>
  <2>1. empty \in Seq(AnswerType)
    BY <1>3, EmptySeq
  <2>2. R!From(author, empty) = Collect(OnlyBy(author), empty)
    BY <2>1, FromCollected
  <2> QED BY <1>3, <2>2, CollectNone
<1>4. R!From(author, <<it>>) = R!OfAuthor(it, author)
  <2> DEFINE h == OnlyBy(author)
  <2>1. <<it>> \in Seq(AnswerType)
    BY <1>2
  <2>2. R!From(author, <<it>>) = Collect(h, <<it>>)
    BY <2>1, FromCollected
  <2>3. h \in [AnswerType -> Seq(AnswerType)]
    BY MapsAre
  <2>4. h[it] = R!OfAuthor(it, author)
    BY <1>2 DEF OnlyBy
  <2> HIDE DEF h
  <2>5. Collect(h, <<it>>) = h[it]
    BY <1>2, <2>3, CollectOne
  <2> QED BY <2>2, <2>4, <2>5
<1>5. CASE ~ IsLast(byte)
  <2>1. Answer(byte) = <<>>
    BY <1>5 DEF Answer
  <2> QED BY <1>1, <1>3, <1>5, <2>1
<1>6. CASE IsLast(byte)
  <2>1. Answer(byte) = <<it>>
    BY <1>6 DEF Answer, it
  <2>2. R!OfAuthor(it, author) = IF Author(byte.m) = author THEN <<it>> ELSE <<>>
    BY <1>2 DEF R!OfAuthor
  <2> QED BY <1>1, <1>4, <1>6, <2>1, <2>2 DEF it
<1> QED BY <1>5, <1>6

-----------------------------------------------------------------------------
(* What was passed is the beginning of what was said.                       *)

(* No two of the numbered bytes are the same.                               *)
Apart(bytes) == \A i, j \in DOMAIN bytes : i # j /\ bytes[i].m # 0 => bytes[i] # bytes[j]

LEMMA RequestsInOrder ==
  ASSUME Shape, QueriesRelayedOnce
  PROVE  IsPrefix(RequestsIn(upstream), R!MeantForServer)
<1> DEFINE n == Len(upstream)
           l == Len(sent)
           said == SaidUpTo(l)
           f == RequestOf
           g == ServersOf
           passed == {i \in 1 .. n : upstream[i].m # 0 /\ upstream[i].part = 3}
           meant == {m \in 1 .. l : ForServer(m)}
           number == [i \in passed |-> upstream[i].m]
<1>1. /\ upstream \in Seq(TaggedPiece) /\ DOMAIN upstream = 1 .. n /\ n \in Nat
      /\ \A i \in 1 .. n : upstream[i] \in TaggedPiece /\ upstream[i].m \in Nat
  <2>1. /\ upstream \in Seq(TaggedPiece) /\ DOMAIN upstream = 1 .. n /\ n \in Nat
        /\ \A i \in 1 .. n : upstream[i] \in TaggedPiece
    BY LenProperties, ElementOfSeq DEF Shape
  <2> QED BY <2>1 DEF TaggedPiece
<1>2. /\ l \in Nat /\ DOMAIN sent = 1 .. l /\ said \in Seq(RequestType) /\ Len(said) = l
      /\ \A m \in 1 .. l : said[m] = Said(m) /\ Said(m) \in RequestType /\ sent[m] \in ClientKinds
  <2>1. l \in Nat /\ DOMAIN sent = 1 .. l /\ \A m \in 1 .. l : sent[m] \in ClientKinds
    BY LenProperties, ElementOfSeq DEF Shape
  <2>2. l \in 0 .. l
    BY <2>1
  <2>3. said \in Seq(RequestType) /\ Len(said) = l /\ \A m \in 1 .. l : Said(m) \in RequestType
    BY <2>2, SaidIs
  <2> QED BY <2>1, <2>3 DEF SaidUpTo
<1>3. \A i \in 1 .. n : upstream[i].m # 0 =>
        /\ Plain(upstream[i]) \in Meant
        /\ ServerGot(i - 1) = {byte \in Meant : Earlier(byte, upstream[i])}
  BY <1>1 DEF QueriesRelayedOnce
<1> HIDE DEF n, l, said, f, g
<1>4. ASSUME NEW i \in 1 .. n, upstream[i].m # 0
      PROVE  /\ upstream[i].m \in meant /\ upstream[i].kind = sent[upstream[i].m]
             /\ upstream[i].kind \notin {"S", "N"}
  <2>1. Plain(upstream[i]) \in Meant
    BY <1>3, <1>4
  <2>2. /\ Plain(upstream[i]).m = upstream[i].m /\ Plain(upstream[i]).kind = upstream[i].kind
    BY DEF Plain
  <2>3. PICK m \in {x \in DOMAIN sent : ForServer(x)}, part \in 1 .. 3 :
          Plain(upstream[i]) = [kind |-> sent[m], m |-> m, part |-> part]
    BY <2>1 DEF Meant
  <2>4. upstream[i].m = m /\ upstream[i].kind = sent[m] /\ m \in 1 .. l /\ ForServer(m)
    BY <1>2, <2>2, <2>3
  <2>5. sent[m] \in ClientKinds
    BY <1>2, <2>4
  <2> QED BY <2>4, <2>5 DEF ClientKinds
<1>5. ASSUME NEW i \in 1 .. n, i \notin passed
      PROVE  f[upstream[i]] = <<>>
  <2>1. ~ IsLast(upstream[i])
    BY <1>4, <1>5 DEF IsLast
  <2>2. f[upstream[i]] = Requested(upstream[i])
    BY <1>1 DEF f, RequestOf
  <2> QED BY <2>1, <2>2 DEF Requested
<1>6. ASSUME NEW m \in 1 .. l
      PROVE  /\ g[said[m]] = R!ToServer(Said(m))
             /\ Destination(m) = "server" <=> ForServer(m)
             /\ m \notin meant => g[said[m]] = <<>>
             /\ m \in meant => g[said[m]] = <<Said(m)>>
  <2>1. g[said[m]] = R!ToServer(Said(m))
    BY <1>2 DEF g, ServersOf
  <2>2. Destination(m) = "server" <=> ForServer(m)
    BY DEF Destination, ForServer
  <2>3. Said(m).to = Destination(m)
    BY DEF Said
  <2> QED BY <2>1, <2>2, <2>3 DEF R!ToServer
<1>7. ASSUME NEW i \in passed
      PROVE  /\ number[i] \in meant /\ number[i] = upstream[i].m
             /\ f[upstream[i]] = g[said[number[i]]]
             /\ {number[j] : j \in {x \in passed : x < i}} = {m \in meant : m < number[i]}
  <2> DEFINE m == upstream[i].m
  <2>1. i \in 1 .. n /\ m # 0 /\ upstream[i].part = 3 /\ number[i] = m
    OBVIOUS
  <2>2. m \in meant /\ m \in 1 .. l /\ upstream[i].kind = sent[m]
    BY <1>4, <2>1
  <2>3. f[upstream[i]] = <<Said(m)>>
    <3>1. f[upstream[i]] = Requested(upstream[i])
      BY <1>1, <2>1 DEF f, RequestOf
    <3>2. IsLast(upstream[i])
      BY <2>1 DEF IsLast
    <3>3. Request(upstream[i]) = Said(m)
      BY <2>2 DEF Request, Said
    <3> QED BY <3>1, <3>2, <3>3 DEF Requested
  <2>4. g[said[m]] = <<Said(m)>>
    BY <1>6, <2>2
  <2>5. ServerGot(i - 1) = {byte \in Meant : Earlier(byte, upstream[i])}
    BY <1>3, <2>1
  <2>6. ASSUME NEW j \in passed, j < i
        PROVE  number[j] \in meant /\ number[j] < m
    <3>1. j \in 1 .. n /\ j \in 1 .. i - 1 /\ upstream[j].m # 0 /\ upstream[j].part = 3
          /\ number[j] = upstream[j].m
      BY <1>1, <2>1, <2>6
    <3>2. Plain(upstream[j]) \in ServerGot(i - 1)
      BY <3>1 DEF ServerGot
    <3>3. Earlier(Plain(upstream[j]), upstream[i])
      BY <2>5, <3>2
    <3>4. Plain(upstream[j]).m = number[j] /\ Plain(upstream[j]).part = 3
      BY <3>1 DEF Plain
    <3>5. number[j] \in meant
      BY <1>4, <3>1
    <3> QED BY <2>1, <3>3, <3>4, <3>5 DEF Earlier
  <2>7. ASSUME NEW k \in meant, k < m
        PROVE  \E j \in passed : j < i /\ number[j] = k
    <3> DEFINE byte == [kind |-> sent[k], m |-> k, part |-> 3]
    <3>1. byte \in Meant /\ Earlier(byte, upstream[i])
      BY <1>2, <2>1, <2>7 DEF Meant, Earlier
    <3>2. byte \in ServerGot(i - 1)
      BY <2>5, <3>1
    <3>3. PICK j \in 1 .. i - 1 : upstream[j].m # 0 /\ byte = Plain(upstream[j])
      BY <3>2 DEF ServerGot
    <3>4. upstream[j].m = k /\ upstream[j].part = 3
      BY <3>3 DEF Plain
    <3>5. j \in 1 .. n /\ j < i
      BY <1>1, <2>1
    <3>6. j \in passed
      BY <3>3, <3>4, <3>5
    <3> QED BY <3>4, <3>5, <3>6
  <2> HIDE DEF passed, meant, number, m
  <2>8. {number[j] : j \in {x \in passed : x < i}} = {k \in meant : k < m}
    BY <2>6, <2>7
  <2> QED BY <2>1, <2>2, <2>3, <2>4, <2>8 DEF m
<1>8. passed \subseteq 1 .. n /\ meant \subseteq 1 .. l
  OBVIOUS
<1> HIDE DEF passed, meant, number
<1>9. Picks(f, upstream, passed, g, said, meant, number)
  BY <1>2, <1>5, <1>6, <1>7, <1>8 DEF Picks, n
<1>10. Maps(f, TaggedPiece, RequestType) /\ Maps(g, RequestType, RequestType)
  BY MapsAre DEF Maps, f, g
<1>11. IsPrefix(Collect(f, upstream), Collect(g, said))
  BY <1>1, <1>2, <1>9, <1>10, PickedIsPrefix
<1>12. RequestsIn(upstream) = Collect(f, upstream)
  BY <1>1, RequestsCollected DEF f
<1>13. R!MeantForServer = Collect(g, said)
  BY MeantCollected DEF g, said, l
<1> QED BY <1>11, <1>12, <1>13

LEMMA AnswersInOrder ==
  ASSUME Shape, Streamed, DownHeld, Apart(answers)
  PROVE  IsPrefix(R!From("server", AnswersIn(downstream)), AnswersIn(answers))
<1> DEFINE n == Len(downstream)
           l == Len(answers)
           f == ToldBy("server")
           g == AnswerOf
           passed == {i \in 1 .. n : IsLast(downstream[i]) /\ downstream[i].m \in Addressed}
           told == {k \in 1 .. l : IsLast(answers[k])}
           Place(i, k) == /\ answers[k] = downstream[i]
                          /\ Among(downstream, Addressed, i - 1) = Among(answers, Numbered, k - 1)
           place == [i \in passed |-> CHOOSE k \in 1 .. l : Place(i, k)]
<1>1. /\ downstream \in Seq(Piece) /\ DOMAIN downstream = 1 .. n /\ n \in Nat
      /\ \A i \in 1 .. n : downstream[i] \in Piece /\ downstream[i].m \in DOMAIN sent
  <2>1. \A i \in 1 .. n : downstream[i] \in Piece
    BY ElementOfSeq DEF Streamed
  <2> QED BY <2>1, LenProperties DEF Streamed, DownHeld
<1>2. /\ answers \in Seq(Piece) /\ DOMAIN answers = 1 .. l /\ l \in Nat
      /\ \A k \in 1 .. l : answers[k] \in Piece /\ answers[k].m \in Nat
  <2>1. \A k \in 1 .. l : answers[k] \in Piece
    BY ElementOfSeq DEF Streamed
  <2> QED BY <2>1, LenProperties DEF Streamed, Piece
<1> HIDE DEF n, l, f, g
<1>3. \A i \in 1 .. n : downstream[i].m \in Addressed => \E k \in 1 .. l : Place(i, k)
  BY <1>1, <1>2 DEF DownHeld, InPlace
<1>4. \A i, j \in 1 .. l : i # j /\ answers[i].m # 0 => answers[i] # answers[j]
  BY <1>2 DEF Apart
<1>5. \A x : x \in Addressed => x \in Nat /\ x # 0 /\ x \in DOMAIN sent /\ ForServer(x)
  <2>1. DOMAIN sent = 1 .. Len(sent) /\ Len(sent) \in Nat
    BY LenProperties DEF Shape
  <2> QED BY <2>1 DEF Addressed
<1>6. ASSUME NEW i \in 1 .. n
      PROVE  /\ i \notin passed => f[downstream[i]] = <<>>
             /\ i \in passed => f[downstream[i]] = <<Told(downstream[i])>>
  <2> DEFINE byte == downstream[i]
  <2>1. byte \in Piece /\ byte.m \in DOMAIN sent
    BY <1>1
  <2>2. Author(byte.m) = "server" <=> byte.m \in Addressed
    BY <2>1 DEF Author, Addressed
  <2>3. f[byte] = IF IsLast(byte) /\ Author(byte.m) = "server" THEN <<Told(byte)>> ELSE <<>>
    BY <2>1, ToldIs DEF f
  <2>4. i \in passed <=> IsLast(byte) /\ byte.m \in Addressed
    OBVIOUS
  <2> QED BY <2>2, <2>3, <2>4
<1>7. ASSUME NEW k \in 1 .. l
      PROVE  /\ k \notin told => g[answers[k]] = <<>>
             /\ k \in told => g[answers[k]] = <<Told(answers[k])>>
  <2>1. g[answers[k]] = Answer(answers[k])
    BY <1>2 DEF g, AnswerOf
  <2> QED BY <2>1 DEF Answer
<1>8. ASSUME NEW i \in passed
      PROVE  /\ place[i] \in told /\ Place(i, place[i])
             /\ f[downstream[i]] = g[answers[place[i]]]
  <2> DEFINE k == place[i]
  <2>1. i \in 1 .. n /\ IsLast(downstream[i]) /\ downstream[i].m \in Addressed
    OBVIOUS
  <2>2. k \in 1 .. l /\ Place(i, k)
    BY <1>3, <2>1
  <2>3. k \in told
    BY <2>1, <2>2
  <2>4. f[downstream[i]] = <<Told(downstream[i])>>
    BY <1>6, <2>1
  <2>5. g[answers[k]] = <<Told(answers[k])>>
    BY <1>7, <2>2, <2>3
  <2> HIDE DEF passed, told, place
  <2> QED BY <2>2, <2>3, <2>4, <2>5
<1>9. ASSUME NEW i \in passed
      PROVE  {place[j] : j \in {x \in passed : x < i}} = {k \in told : k < place[i]}
  <2> DEFINE k == place[i]
  <2>1. i \in 1 .. n /\ k \in told /\ Place(i, k) /\ k \in 1 .. l
    BY <1>8
  <2>2. Among(downstream, Addressed, i - 1) = Among(answers, Numbered, k - 1)
    BY <2>1
  <2> HIDE DEF k
  <2>3. ASSUME NEW j \in passed, j < i
        PROVE  place[j] \in told /\ place[j] < k
    <3> DEFINE m == place[j]
    <3>1. m \in told /\ m \in 1 .. l /\ answers[m] = downstream[j]
      BY <1>8
    <3>2. j \in 1 .. i - 1 /\ downstream[j].m \in Addressed
      BY <1>1, <2>1, <2>3
    <3> HIDE DEF m
    <3>3. downstream[j] \in Among(downstream, Addressed, i - 1)
      BY <3>2 DEF Among
    <3>4. PICK h \in 1 .. k - 1 : answers[h] = downstream[j]
      BY <2>2, <3>3 DEF Among
    <3>5. h \in 1 .. l /\ h < k
      BY <1>2, <2>1
    <3>6. answers[h].m # 0
      BY <1>5, <3>2, <3>4
    <3>7. h = m
      BY <1>4, <3>1, <3>4, <3>5, <3>6
    <3> QED BY <3>1, <3>5, <3>7 DEF m
  <2>4. ASSUME NEW q \in told, q < k
        PROVE  \E j \in passed : j < i /\ place[j] = q
    <3>1. q \in 1 .. l /\ q \in 1 .. k - 1 /\ IsLast(answers[q]) /\ answers[q].m # 0
      BY <1>2, <2>1, <2>4 DEF IsLast
    <3>2. answers[q].m \in Numbered
      BY <1>2, <3>1 DEF Numbered
    <3>3. answers[q] \in Among(answers, Numbered, k - 1)
      BY <3>1, <3>2 DEF Among
    <3>4. PICK j \in 1 .. i - 1 : downstream[j].m \in Addressed /\ downstream[j] = answers[q]
      BY <2>2, <3>3 DEF Among
    <3>5. j \in 1 .. n /\ j < i
      BY <1>1, <2>1
    <3>6. j \in passed
      BY <3>1, <3>4, <3>5
    <3>7. place[j] \in 1 .. l /\ answers[place[j]] = downstream[j]
      BY <1>8, <3>6
    <3>8. place[j] = q
      BY <1>4, <3>1, <3>4, <3>7
    <3> QED BY <3>5, <3>6, <3>8
  <2> HIDE DEF passed, told, place
  <2>5. {place[j] : j \in {x \in passed : x < i}} = {q \in told : q < k}
    BY <2>3, <2>4
  <2> QED BY <2>5 DEF k
<1>10. passed \subseteq 1 .. n /\ told \subseteq 1 .. l
  OBVIOUS
<1> HIDE DEF passed, told, place
<1>11. Picks(f, downstream, passed, g, answers, told, place)
  BY <1>6, <1>7, <1>8, <1>9, <1>10 DEF Picks, n, l
<1>12. Maps(f, Piece, AnswerType) /\ Maps(g, Piece, AnswerType)
  BY <1>1, MapsAre, ToldCollected DEF Maps, f, g
<1>13. IsPrefix(Collect(f, downstream), Collect(g, answers))
  BY <1>1, <1>2, <1>11, <1>12, PickedIsPrefix
<1>14. R!From("server", AnswersIn(downstream)) = Collect(f, downstream)
  BY <1>1, ToldCollected DEF f
<1>15. AnswersIn(answers) = Collect(g, answers)
  BY <1>2, AnswersCollected DEF g
<1> QED BY <1>13, <1>14, <1>15

-----------------------------------------------------------------------------
(* What the proxy answers itself: nothing else has the same number, and the *)
(* client gets all of it once the message is taken off its buffer.          *)
Kept == {m \in DOMAIN sent : ~ForServer(m)}

OwnBy(kept) ==
  [byte \in Piece |-> IF IsLast(byte) /\ byte.m \in kept
                        THEN <<[kind |-> byte.kind, m |-> byte.m, from |-> "proxy"]>>
                        ELSE <<>>]
OwnIn(bytes, kept) == Collect(OwnBy(kept), bytes)
OwnUpTo(n) == Collect(OwnOf, SaidUpTo(n))

Unanswered == /\ Len(sent) \in Kept
              /\ validation["frontend"] # <<>> \/ wire["frontend"] # <<>>
Settled == IF Unanswered THEN Len(sent) - 1 ELSE Len(sent)

OnlyOf(bytes, numbers) == \A i \in DOMAIN bytes : bytes[i].m # 0 => bytes[i].m \in numbers

OwnHeld ==
  /\ OnlyOf(retained, Addressed)
  /\ OnlyOf(wire["backend"], Addressed) /\ OnlyOf(validation["backend"], Addressed)
  /\ OwnIn(downstream \o replacement["backend"], Kept) = OwnUpTo(Settled)

(* The server has read all but the last message, and has not answered that: *)
(* the number of an answer tells to what.                                   *)
ServedHeld ==
  /\ \/ served = Len(upstream)
     \/ /\ Len(upstream) = served + 3
        /\ IF upstream[served + 1].m = 0
             THEN state = "NegotiatingUpstreamSSL"
             ELSE upstream[served + 1].m = Len(sent) /\ ~OnTheWay
  /\ OnlyOf(answers, Addressed) /\ Apart(answers)
  /\ OnTheWay \/ served # Len(upstream) =>
       \A j \in DOMAIN answers : answers[j].m < Len(sent)

LEMMA KeptIs ==
  ASSUME Shape
  PROVE  /\ Len(sent) \in Nat /\ DOMAIN sent = 1 .. Len(sent)
         /\ Kept \subseteq 1 .. Len(sent) /\ Addressed \subseteq 1 .. Len(sent)
         /\ Kept \cap Addressed = {} /\ Kept \union Addressed = 1 .. Len(sent)
BY LenProperties DEF Shape, Kept, Addressed

LEMMA OwnMaps == ASSUME NEW kept PROVE OwnBy(kept) \in [Piece -> Seq(AnswerType)]
<1> SUFFICES ASSUME NEW byte \in Piece
             PROVE  (IF IsLast(byte) /\ byte.m \in kept
                       THEN <<[kind |-> byte.kind, m |-> byte.m, from |-> "proxy"]>>
                       ELSE <<>>) \in Seq(AnswerType)
  BY DEF OwnBy
<1>1. [kind |-> byte.kind, m |-> byte.m, from |-> "proxy"] \in AnswerType
  BY DEF Piece, AnswerType, AnyKind
<1> QED BY <1>1

LEMMA OwnInIs ==
  ASSUME Shape, NEW bytes \in Seq(Piece)
  PROVE  /\ R!From("proxy", AnswersIn(bytes)) = OwnIn(bytes, Kept)
         /\ OwnIn(bytes, Kept) \in Seq(AnswerType)
<1>1. ASSUME NEW byte \in Piece
      PROVE  ToldBy("proxy")[byte] = OwnBy(Kept)[byte]
  <2>1. ToldBy("proxy")[byte]
          = IF IsLast(byte) /\ Author(byte.m) = "proxy" THEN <<Told(byte)>> ELSE <<>>
    BY ToldIs
  <2>2. Author(byte.m) = "proxy" <=> byte.m \in Kept
    BY DEF Author, Kept
  <2>3. Author(byte.m) = "proxy"
          => Told(byte) = [kind |-> byte.kind, m |-> byte.m, from |-> "proxy"]
    BY DEF Told
  <2> QED BY <2>1, <2>2, <2>3 DEF OwnBy
<1>2. ToldBy("proxy") = OwnBy(Kept)
  BY <1>1 DEF ToldBy, OwnBy
<1> QED BY <1>2, ToldCollected DEF OwnIn

LEMMA OwnInJoined ==
  ASSUME NEW kept, NEW a \in Seq(Piece), NEW b \in Seq(Piece)
  PROVE  /\ OwnIn(a \o b, kept) = OwnIn(a, kept) \o OwnIn(b, kept)
         /\ OwnIn(a, kept) \in Seq(AnswerType) /\ OwnIn(b, kept) \in Seq(AnswerType)
<1> DEFINE f == OwnBy(kept)
<1>1. f \in [Piece -> Seq(AnswerType)]
  BY OwnMaps
<1> HIDE DEF f
<1>2. Collect(f, a \o b) = Collect(f, a) \o Collect(f, b)
  BY <1>1, CollectJoined
<1>3. Collect(f, a) \in Seq(AnswerType) /\ Collect(f, b) \in Seq(AnswerType)
  BY <1>1, CollectSteps
<1> QED BY <1>2, <1>3 DEF f, OwnIn

LEMMA OwnInNone ==
  ASSUME NEW kept, NEW numbers, kept \cap numbers = {},
         NEW bytes \in Seq(Piece), OnlyOf(bytes, numbers)
  PROVE  OwnIn(bytes, kept) = <<>>
<1> DEFINE f == OwnBy(kept)
           n == Len(bytes)
<1>1. f \in [Piece -> Seq(AnswerType)]
  BY OwnMaps
<1>2. n \in Nat /\ DOMAIN bytes = 1 .. n /\ \A i \in 1 .. n : bytes[i] \in Piece
  BY LenProperties, ElementOfSeq
<1>3. ASSUME NEW i \in 1 .. n
      PROVE  f[bytes[i]] = <<>>
  <2>1. bytes[i].m # 0 => bytes[i].m \notin kept
    BY <1>2 DEF OnlyOf
  <2>2. ~ (IsLast(bytes[i]) /\ bytes[i].m \in kept)
    BY <2>1 DEF IsLast
  <2> QED BY <1>2, <2>2 DEF OwnBy
<1> HIDE DEF f
<1>4. PICK upTo \in [0 .. n -> Seq(AnswerType)] : CollectedBy(f, bytes, upTo)
  BY <1>1, CollectSteps
<1>5. Collecting(f, bytes, upTo) /\ upTo[0] = <<>> /\ Collect(f, bytes) = upTo[n]
  BY <1>4 DEF CollectedBy, Collecting
<1>6. Skips(f, bytes, 0, n)
  BY <1>3 DEF Skips
<1>7. n = Len(bytes) /\ 0 \in 0 .. n /\ n \in 0 .. n /\ 0 <= n
  BY <1>2
<1> HIDE DEF n
<1>8. Stays(upTo, 0, n)
  BY <1>1, <1>5, <1>6, <1>7, CollectSkips
<1> QED BY <1>5, <1>8 DEF OwnIn, f, Stays

LEMMA OwnUpToNext ==
  ASSUME Shape, NEW n \in 1 .. Len(sent)
  PROVE  /\ OwnUpTo(n) = OwnUpTo(n - 1) \o OwnTo(Said(n))
         /\ OwnUpTo(n - 1) \in Seq(AnswerType) /\ OwnTo(Said(n)) \in Seq(AnswerType)
<1> DEFINE before == SaidUpTo(n - 1)
           all == SaidUpTo(n)
           it == Said(n)
<1>1. /\ n \in Nat /\ before \in Seq(RequestType) /\ all \in Seq(RequestType)
      /\ Len(before) = n - 1 /\ Len(all) = n /\ it \in RequestType
  <2>1. n \in 0 .. Len(sent) /\ n - 1 \in 0 .. Len(sent) /\ Len(sent) \in Nat
    BY SaidIs
  <2> QED BY <2>1, SaidIs
<1>2. /\ \A m \in 1 .. n - 1 : before[m] = Said(m)
      /\ \A m \in 1 .. n : all[m] = Said(m)
  BY DEF SaidUpTo
<1> HIDE DEF before, all, it
<1>3. all = before \o <<it>>
  <2> DEFINE c == before \o <<it>>
  <2>1. <<it>> \in Seq(RequestType) /\ Len(<<it>>) = 1 /\ <<it>>[1] = it
    BY <1>1
  <2>2. c \in Seq(RequestType) /\ Len(c) = n
    BY <1>1, <2>1, ConcatProperties
  <2>3. ASSUME NEW m \in 1 .. n
        PROVE  c[m] = all[m]
    <3>1. CASE m <= n - 1
      <4>1. c[m] = before[m]
        BY <1>1, <2>1, <3>1, ConcatProperties
      <4>2. m \in 1 .. n - 1
        BY <1>1, <3>1
      <4> QED BY <1>2, <4>1, <4>2
    <3>2. CASE ~ (m <= n - 1)
      <4>1. m = n /\ m - (n - 1) = 1
        BY <1>1, <3>2
      <4>2. c[m] = <<it>>[m - (n - 1)]
        BY <1>1, <2>1, <3>2, ConcatProperties
      <4> QED BY <1>1, <1>2, <2>1, <4>1, <4>2 DEF it
    <3> QED BY <3>1, <3>2
  <2> HIDE DEF c
  <2>4. c = all
    BY <1>1, <2>2, <2>3, SeqEqual
  <2> QED BY <2>4 DEF c
<1> DEFINE f == OwnOf
<1>4. f \in [RequestType -> Seq(AnswerType)] /\ f[it] = OwnTo(it)
  BY <1>1, MapsAre DEF OwnOf
<1> HIDE DEF f
<1> DEFINE one == <<it>>
<1>5. one \in Seq(RequestType)
  BY <1>1
<1> HIDE DEF one
<1>6. Collect(f, before \o one) = Collect(f, before) \o Collect(f, one)
  <2>1. Maps(f, RequestType, AnswerType)
    BY <1>4 DEF Maps
  <2> QED BY <1>1, <1>5, <2>1, MapsJoined
<1>7. Collect(f, <<it>>) = f[it] /\ f[it] \in Seq(AnswerType)
  BY <1>1, <1>4, CollectOne
<1>8. Collect(f, before) \in Seq(AnswerType)
  BY <1>1, <1>4, CollectSteps
<1> QED BY <1>3, <1>4, <1>6, <1>7, <1>8 DEF OwnUpTo, f, before, all, it, one

LEMMA OwnInOrder ==
  ASSUME Shape, Streamed, OwnHeld
  PROVE  IsPrefix(R!From("proxy", AnswersIn(downstream)), R!OwnAnswers)
<1> DEFINE d == downstream
           r == replacement["backend"]
           x == OwnIn(d, Kept)
           y == OwnIn(r, Kept)
           l == Len(sent)
<1>1. d \in Seq(Piece) /\ r \in Seq(Piece)
  BY DEF Shape, Streams, Sides, Streamed
<1>2. R!From("proxy", AnswersIn(d)) = x
  BY <1>1, OwnInIs
<1>3. OwnIn(d \o r, Kept) = x \o y /\ x \in Seq(AnswerType) /\ y \in Seq(AnswerType)
  BY <1>1, OwnInJoined
<1>4. R!OwnAnswers = OwnUpTo(l)
  BY MeantCollected DEF OwnUpTo
<1>5. x \o y = OwnUpTo(Settled)
  <2>1. OwnIn(d \o r, Kept) = OwnUpTo(Settled)
    BY DEF OwnHeld
  <2> QED BY <1>3, <2>1
<1>6. CASE Settled = l
  <2> HIDE DEF x, y, d, l
  <2>1. IsPrefix(x, x \o y)
    BY <1>3, PrefixOfJoined
  <2> QED BY <1>2, <1>4, <1>5, <1>6, <2>1 DEF d
<1>7. CASE Settled # l
  <2>1. Settled = l - 1 /\ l \in 1 .. Len(sent)
    BY <1>7, KeptIs DEF Settled, Unanswered
  <2> DEFINE z == OwnTo(Said(l))
  <2>2. OwnUpTo(l) = OwnUpTo(l - 1) \o z /\ z \in Seq(AnswerType)
    BY <2>1, OwnUpToNext
  <2> HIDE DEF x, y, z, d, l
  <2>3. (x \o y) \o z = x \o (y \o z) /\ y \o z \in Seq(AnswerType)
    BY <1>3, <2>2, ConcatAssociative, ConcatProperties
  <2>4. IsPrefix(x, x \o (y \o z))
    BY <1>3, <2>3, PrefixOfJoined
  <2> QED BY <1>2, <1>4, <1>5, <2>1, <2>2, <2>3, <2>4 DEF d
<1> QED BY <1>6, <1>7

-----------------------------------------------------------------------------
(* The server answers the message it has got, and each message once.        *)
Tells(bytes, kinds, m) ==
  /\ bytes \in Seq(Piece) /\ Apart(bytes)
  /\ \A i \in DOMAIN bytes : bytes[i].m = m /\ bytes[i].kind \in kinds

LEMMA TellsOne ==
  ASSUME NEW kind \in AnyKind, NEW m \in Nat
  PROVE  Tells(Bytes(kind, m), {kind}, m) /\ Tells(Byte(kind, m), {kind}, m)
<1> DEFINE all == Bytes(kind, m)
           one == Byte(kind, m)
<1>1. /\ all \in Seq(Piece) /\ Len(all) = 3 /\ one \in Seq(Piece)
      /\ \A p \in 1 .. 3 : all[p] = [kind |-> kind, m |-> m, part |-> p]
  BY BytesArePieces DEF AnyKind
<1>2. DOMAIN one = {1} /\ one[1].m = m /\ one[1].kind = kind
  BY DEF Byte
<1> HIDE DEF all, one
<1>3. DOMAIN all = 1 .. 3
  BY <1>1, LenProperties
<1>4. Tells(all, {kind}, m)
  BY <1>1, <1>3 DEF Tells, Apart
<1>5. Tells(one, {kind}, m)
  BY <1>1, <1>2 DEF Tells, Apart
<1> QED BY <1>4, <1>5 DEF all, one

LEMMA ApartJoined ==
  ASSUME NEW a \in Seq(Piece), NEW b \in Seq(Piece), Apart(a), Apart(b),
         \A i \in DOMAIN a, j \in DOMAIN b : a[i].m # 0 \/ b[j].m # 0 => a[i] # b[j]
  PROVE  Apart(a \o b)
<1> DEFINE c == a \o b
           la == Len(a)
           lb == Len(b)
<1>1. /\ la \in Nat /\ lb \in Nat /\ DOMAIN c = 1 .. la + lb
      /\ \A k \in 1 .. la : c[k] = a[k]
      /\ \A k \in 1 .. lb : c[la + k] = b[k]
      /\ DOMAIN a = 1 .. la /\ DOMAIN b = 1 .. lb
  BY Joined, LenProperties
<1> HIDE DEF c, la, lb
<1>2. ASSUME NEW i \in 1 .. la + lb
      PROVE  \/ i \in 1 .. la /\ c[i] = a[i]
             \/ \E k \in 1 .. lb : i = la + k /\ c[i] = b[k]
  <2>1. CASE i <= la
    BY <1>1, <2>1
  <2>2. CASE ~ (i <= la)
    <3>1. i - la \in 1 .. lb /\ i = la + (i - la)
      BY <1>1, <2>2
    <3> QED BY <1>1, <3>1
  <2> QED BY <2>1, <2>2
<1>3. ASSUME NEW i \in 1 .. la + lb, NEW j \in 1 .. la + lb, i # j, c[i].m # 0
      PROVE  c[i] # c[j]
  <2>1. CASE i \in 1 .. la /\ c[i] = a[i]
    <3>1. CASE j \in 1 .. la /\ c[j] = a[j]
      BY <1>1, <1>3, <2>1, <3>1 DEF Apart
    <3>2. CASE \E k \in 1 .. lb : j = la + k /\ c[j] = b[k]
      BY <1>1, <1>3, <2>1, <3>2
    <3> QED BY <1>2, <3>1, <3>2
  <2>2. CASE \E k \in 1 .. lb : i = la + k /\ c[i] = b[k]
    <3>1. PICK k \in 1 .. lb : i = la + k /\ c[i] = b[k]
      BY <2>2
    <3>2. CASE j \in 1 .. la /\ c[j] = a[j]
      <4>1. a[j] # b[k]
        BY <1>1, <1>3, <3>1, <3>2
      <4> QED BY <3>1, <3>2, <4>1
    <3>3. CASE \E h \in 1 .. lb : j = la + h /\ c[j] = b[h]
      <4>1. PICK h \in 1 .. lb : j = la + h /\ c[j] = b[h]
        BY <3>3
      <4>2. k # h
        BY <1>3, <3>1, <4>1
      <4> QED BY <1>1, <1>3, <3>1, <4>1, <4>2 DEF Apart
    <3> QED BY <1>2, <3>2, <3>3
  <2> QED BY <1>2, <2>1, <2>2
<1>4. Apart(c)
  BY <1>1, <1>3 DEF Apart
<1> QED BY <1>4 DEF c

LEMMA TellsBoth ==
  ASSUME NEW m, NEW k, NEW l, k \cap l = {}, NEW a, Tells(a, k, m), NEW b, Tells(b, l, m)
  PROVE  Tells(a \o b, k \union l, m)
<1>1. /\ a \in Seq(Piece) /\ b \in Seq(Piece) /\ Apart(a) /\ Apart(b)
      /\ \A i \in DOMAIN a : a[i].m = m /\ a[i].kind \in k
      /\ \A i \in DOMAIN b : b[i].m = m /\ b[i].kind \in l
  BY DEF Tells
<1>2. \A i \in DOMAIN a, j \in DOMAIN b : a[i] # b[j]
  BY <1>1
<1>3. Apart(a \o b)
  BY <1>1, <1>2, ApartJoined
<1> DEFINE c == a \o b
           la == Len(a)
           lb == Len(b)
<1>4. /\ la \in Nat /\ lb \in Nat /\ c \in Seq(Piece) /\ DOMAIN c = 1 .. la + lb
      /\ \A j \in 1 .. la : c[j] = a[j]
      /\ \A j \in 1 .. lb : c[la + j] = b[j]
      /\ DOMAIN a = 1 .. la /\ DOMAIN b = 1 .. lb
  BY <1>1, Joined, LenProperties
<1> HIDE DEF c, la, lb
<1>5. ASSUME NEW i \in 1 .. la + lb
      PROVE  c[i].m = m /\ c[i].kind \in k \union l
  <2>1. CASE i <= la
    BY <1>1, <1>4, <2>1
  <2>2. CASE ~ (i <= la)
    <3>1. i - la \in 1 .. lb /\ i = la + (i - la)
      BY <1>4, <2>2
    <3>2. c[i] = b[i - la]
      BY <1>4, <3>1
    <3> QED BY <1>1, <1>4, <3>1, <3>2
  <2> QED BY <2>1, <2>2
<1>6. Apart(c)
  BY <1>3 DEF c
<1>7. Tells(c, k \union l, m)
  BY <1>4, <1>5, <1>6 DEF Tells
<1> QED BY <1>7 DEF c

LEMMA TellsWider ==
  ASSUME NEW m, NEW k, NEW l, k \subseteq l, NEW a, Tells(a, k, m)
  PROVE  Tells(a, l, m)
BY DEF Tells

LEMMA RepliesTell ==
  ASSUME NEW kind, NEW m \in Nat, NEW reply \in Replies(kind, m)
  PROVE  Tells(reply, ServerKinds, m)
<1>1. ServerKinds \subseteq AnyKind /\ SslReplies \subseteq ServerKinds
      /\ {"authreq", "ready", "row", "complete", "failed"} \subseteq ServerKinds
  BY PeersAssumption DEF ServerKinds, AnyKind
<1>2. ASSUME NEW said \in ServerKinds
      PROVE  Tells(Bytes(said, m), {said}, m) /\ Tells(Byte(said, m), {said}, m)
  BY <1>1, TellsOne
<1>3. ASSUME NEW said \in ServerKinds
      PROVE  Tells(Bytes(said, m), ServerKinds, m) /\ Tells(Byte(said, m), ServerKinds, m)
  <2>1. {said} \subseteq ServerKinds
    OBVIOUS
  <2> QED BY <1>2, <2>1, TellsWider
<1>4. Tells(Bytes("row", m) \o Bytes("complete", m) \o Bytes("ready", m), ServerKinds, m)
  <2>1. Tells(Bytes("row", m) \o Bytes("complete", m), {"row"} \union {"complete"}, m)
    <3>1. {"row"} \cap {"complete"} = {}
      OBVIOUS
    <3>2. Tells(Bytes("row", m), {"row"}, m) /\ Tells(Bytes("complete", m), {"complete"}, m)
      BY <1>1, <1>2
    <3> QED BY <3>1, <3>2, TellsBoth
  <2>2. ({"row"} \union {"complete"}) \cap {"ready"} = {}
    OBVIOUS
  <2>3. Tells(Bytes("ready", m), {"ready"}, m)
    BY <1>1, <1>2
  <2> DEFINE k == {"row"} \union {"complete"}
             a == Bytes("row", m) \o Bytes("complete", m)
             b == Bytes("ready", m)
  <2>4. k \union {"ready"} \subseteq ServerKinds
    BY <1>1
  <2> HIDE DEF k, a, b
  <2>5. Tells(a \o b, k \union {"ready"}, m)
    BY <2>1, <2>2, <2>3, TellsBoth DEF k, a, b
  <2> QED BY <2>4, <2>5, TellsWider DEF a, b
<1>5. Tells(Bytes("failed", m) \o Bytes("ready", m), ServerKinds, m)
  <2>1. {"failed"} \cap {"ready"} = {}
    OBVIOUS
  <2>2. Tells(Bytes("failed", m), {"failed"}, m) /\ Tells(Bytes("ready", m), {"ready"}, m)
    BY <1>1, <1>2
  <2>3. Tells(Bytes("failed", m) \o Bytes("ready", m), {"failed"} \union {"ready"}, m)
    BY <2>1, <2>2, TellsBoth
  <2>4. {"failed"} \union {"ready"} \subseteq ServerKinds
    BY <1>1
  <2> QED BY <2>3, <2>4, TellsWider
<1>6. CASE kind \in {"own_ssl", "ssl", "gss"}
  <2>1. \E said \in SslReplies : reply \in {Bytes(said, m), Byte(said, m)}
    BY <1>6 DEF Replies
  <2> QED BY <1>1, <1>3, <2>1
<1>7. CASE kind = "startup"
  <2>1. reply \in {Bytes("authreq", m), Bytes("ready", m)}
    BY <1>7 DEF Replies
  <2> QED BY <1>1, <1>3, <2>1
<1>8. CASE kind = "password"
  <2>1. reply = Bytes("ready", m)
    BY <1>8 DEF Replies
  <2> QED BY <1>1, <1>3, <2>1
<1>9. CASE kind = "query"
  <2>1. reply \in {Bytes("row", m) \o Bytes("complete", m) \o Bytes("ready", m),
                   Bytes("failed", m) \o Bytes("ready", m)}
    BY <1>9 DEF Replies
  <2> QED BY <1>4, <1>5, <2>1
<1>10. CASE kind \notin {"own_ssl", "ssl", "gss", "startup", "password", "query"}
  <2>1. reply = <<>>
    BY <1>10 DEF Replies
  <2>2. <<>> \in Seq(Piece) /\ DOMAIN <<>> = {}
    BY EmptySeq
  <2> QED BY <2>1, <2>2 DEF Tells, Apart
<1> QED BY <1>6, <1>7, <1>8, <1>9, <1>10

LEMMA OnlyJoined ==
  ASSUME NEW numbers, NEW a \in Seq(Piece), NEW b \in Seq(Piece)
  PROVE  OnlyOf(a \o b, numbers) <=> OnlyOf(a, numbers) /\ OnlyOf(b, numbers)
<1> DEFINE c == a \o b
           la == Len(a)
           lb == Len(b)
<1>1. /\ la \in Nat /\ lb \in Nat /\ DOMAIN c = 1 .. la + lb
      /\ \A k \in 1 .. la : c[k] = a[k]
      /\ \A k \in 1 .. lb : c[la + k] = b[k]
      /\ DOMAIN a = 1 .. la /\ DOMAIN b = 1 .. lb
  BY Joined, LenProperties
<1> HIDE DEF c, la, lb
<1>2. \A k \in 1 .. la : k \in 1 .. la + lb
  BY <1>1
<1>3. \A k \in 1 .. lb : la + k \in 1 .. la + lb
  BY <1>1
<1>4. \A i \in 1 .. la + lb : i \in 1 .. la \/ \E k \in 1 .. lb : i = la + k
  <2> SUFFICES ASSUME NEW i \in 1 .. la + lb, i \notin 1 .. la
               PROVE  \E k \in 1 .. lb : i = la + k
    OBVIOUS
  <2>1. i - la \in 1 .. lb /\ i = la + (i - la)
    BY <1>1
  <2> QED BY <2>1
<1>5. OnlyOf(c, numbers) => OnlyOf(a, numbers) /\ OnlyOf(b, numbers)
  <2> SUFFICES ASSUME OnlyOf(c, numbers) PROVE OnlyOf(a, numbers) /\ OnlyOf(b, numbers)
    OBVIOUS
  <2>1. OnlyOf(a, numbers)
    BY <1>1, <1>2 DEF OnlyOf
  <2>2. OnlyOf(b, numbers)
    BY <1>1, <1>3 DEF OnlyOf
  <2> QED BY <2>1, <2>2
<1>6. OnlyOf(a, numbers) /\ OnlyOf(b, numbers) => OnlyOf(c, numbers)
  <2> SUFFICES ASSUME OnlyOf(a, numbers), OnlyOf(b, numbers), NEW i \in 1 .. la + lb
               PROVE  c[i].m # 0 => c[i].m \in numbers
    BY <1>1 DEF OnlyOf
  <2>1. CASE i \in 1 .. la
    BY <1>1, <2>1 DEF OnlyOf
  <2>2. CASE \E k \in 1 .. lb : i = la + k
    <3>1. PICK k \in 1 .. lb : i = la + k
      BY <2>2
    <3> QED BY <1>1, <3>1 DEF OnlyOf
  <2> QED BY <1>4, <2>1, <2>2
<1> QED BY <1>5, <1>6 DEF c

LEMMA ElementsJoined ==
  ASSUME NEW a \in Seq(Piece), NEW b \in Seq(Piece)
  PROVE  \A i \in DOMAIN (a \o b) :
           (a \o b)[i] \in {a[j] : j \in DOMAIN a} \union {b[j] : j \in DOMAIN b}
<1> DEFINE c == a \o b
           la == Len(a)
           lb == Len(b)
<1>1. /\ la \in Nat /\ lb \in Nat /\ DOMAIN c = 1 .. la + lb
      /\ \A k \in 1 .. la : c[k] = a[k]
      /\ \A k \in 1 .. lb : c[la + k] = b[k]
      /\ DOMAIN a = 1 .. la /\ DOMAIN b = 1 .. lb
  BY Joined, LenProperties
<1> HIDE DEF c, la, lb
<1>2. ASSUME NEW i \in 1 .. la + lb
      PROVE  c[i] \in {a[j] : j \in DOMAIN a} \union {b[j] : j \in DOMAIN b}
  <2>1. CASE i \in 1 .. la
    BY <1>1, <2>1
  <2>2. CASE i \notin 1 .. la
    <3>1. i - la \in 1 .. lb /\ i = la + (i - la)
      BY <1>1, <2>2
    <3> QED BY <1>1, <3>1
  <2> QED BY <2>1, <2>2
<1> QED BY <1>1, <1>2 DEF c

LEMMA InitServed == Init => ServedHeld
BY EmptySeq DEF Init, ServedHeld, OnlyOf, Apart

LEMMA ServedSame ==
  ASSUME ServedHeld, UNCHANGED <<config, sent, upstream, served, answers>>,
         OnTheWay' => OnTheWay, state' = state \/ served = Len(upstream)
  PROVE  ServedHeld'
<1>1. Addressed' = Addressed
  BY AddressedSame
<1>2. /\ OnlyOf(answers', Addressed') /\ Apart(answers')
      /\ OnTheWay' \/ served' # Len(upstream') =>
           \A j \in DOMAIN answers' : answers'[j].m < Len(sent')
  BY <1>1 DEF ServedHeld
<1>3. \/ served' = Len(upstream')
      \/ /\ Len(upstream') = served' + 3
         /\ IF upstream'[served' + 1].m = 0
              THEN state' = "NegotiatingUpstreamSSL"
              ELSE upstream'[served' + 1].m = Len(sent') /\ ~OnTheWay'
  <2>1. CASE served = Len(upstream)
    BY <2>1
  <2>2. CASE served # Len(upstream)
    BY <2>2 DEF ServedHeld
  <2> QED BY <2>1, <2>2
<1> QED BY <1>2, <1>3 DEF ServedHeld

LEMMA ThreeMore ==
  ASSUME NEW S, NEW a \in Seq(S), NEW b \in Seq(S), Len(b) = 3, NEW c, c = a \o b
  PROVE  Len(a) \in Nat /\ Len(c) = Len(a) + 3 /\ c[Len(a) + 1] = b[1]
<1> DEFINE la == Len(a)
           lb == Len(b)
<1>0. lb = 3
  OBVIOUS
<1>1. la \in Nat /\ Len(c) = la + lb
      /\ \A i \in 1 .. la + lb : c[i] = IF i <= la THEN a[i] ELSE b[i - la]
  <2>1. Len(a \o b) = la + lb
    BY ConcatProperties
  <2>2. \A i \in 1 .. la + lb : (a \o b)[i] = IF i <= la THEN a[i] ELSE b[i - la]
    BY ConcatProperties
  <2> QED BY <2>1, <2>2, LenProperties
<1> HIDE DEF la, lb
<1>2. la + 1 \in 1 .. la + lb /\ ~ (la + 1 <= la) /\ (la + 1) - la = 1
  BY <1>0, <1>1
<1> QED BY <1>0, <1>1, <1>2 DEF la

(* Something is written to the server that has read all before.             *)
LEMMA ServedWritten ==
  ASSUME Shape, ServedHeld, UNCHANGED <<config, sent, served, answers>>,
         served = Len(upstream), OnTheWay,
         NEW bytes \in Seq(Piece), Len(bytes) = 3, NEW tls \in BOOLEAN,
         upstream' = upstream \o Over(tls, bytes),
         IF bytes[1].m = 0 THEN state' = "NegotiatingUpstreamSSL"
                           ELSE bytes[1].m = Len(sent) /\ ~OnTheWay'
  PROVE  ServedHeld'
<1> DEFINE more == Over(tls, bytes)
           n == Len(upstream)
<1>1. more \in Seq(TaggedPiece) /\ Len(more) = 3 /\ more[1].m = bytes[1].m
  <2>1. more \in Seq(TaggedPiece) /\ Len(more) = 3
    BY OverIsTagged
  <2>2. DOMAIN bytes = 1 .. 3
    BY LenProperties
  <2> QED BY <2>1, <2>2 DEF Over
<1> HIDE DEF more
<1>2. /\ n \in Nat /\ Len(upstream') = n + 3 /\ upstream'[n + 1] = more[1]
  <2> DEFINE both == upstream'
  <2>1. upstream \in Seq(TaggedPiece) /\ both = upstream \o more
    BY DEF Shape, more
  <2> HIDE DEF both
  <2>2. Len(upstream) \in Nat /\ Len(both) = Len(upstream) + 3 /\ both[Len(upstream) + 1] = more[1]
    BY <1>1, <2>1, ThreeMore
  <2> QED BY <2>2 DEF both
<1> HIDE DEF n
<1>3. served' = n
  BY DEF n
<1>4. Len(upstream') = served' + 3 /\ upstream'[served' + 1].m = bytes[1].m
  BY <1>1, <1>2, <1>3
<1>5. Addressed' = Addressed
  BY AddressedSame
<1>6. /\ OnlyOf(answers', Addressed') /\ Apart(answers')
      /\ \A j \in DOMAIN answers' : answers'[j].m < Len(sent')
  BY <1>5 DEF ServedHeld
<1> QED BY <1>4, <1>6 DEF ServedHeld

LEMMA ClientSendsServed ==
  ASSUME Patient, Shape, Streamed, OneUnderWay, ServedHeld, NEW kind \in Kinds, ClientSends(kind)
  PROVE  ServedHeld'
<1>1. served = Len(upstream) /\ Len(sent) \in Nat /\ DOMAIN sent = 1 .. Len(sent)
  BY SendsFromRest, LenProperties DEF Resting, Shape
<1>2. /\ UNCHANGED <<config, upstream, served, answers>> /\ sent' = Append(sent, kind)
  BY DEF ClientSends, server, outputs
<1>3. /\ Len(sent') = Len(sent) + 1 /\ DOMAIN sent' = 1 .. Len(sent) + 1
      /\ \A m \in DOMAIN sent : sent'[m] = sent[m]
  <2>1. kind \in ClientKinds
    BY KindsAssumption
  <2> QED BY <1>2, <2>1, AppendProperties, LenProperties DEF Shape
<1>4. Addressed \subseteq Addressed'
  BY <1>1, <1>2, <1>3 DEF Addressed, ForServer
<1>5. OnlyOf(answers', Addressed') /\ Apart(answers')
  BY <1>2, <1>4 DEF ServedHeld, OnlyOf
<1>6. \A j \in DOMAIN answers' : answers'[j].m < Len(sent')
  <2>1. \A j \in DOMAIN answers : answers[j].m = 0 \/ answers[j].m \in 1 .. Len(sent)
    BY <1>1 DEF ServedHeld, OnlyOf, Addressed
  <2> QED BY <1>1, <1>2, <1>3, <2>1
<1>7. served' = Len(upstream')
  BY <1>1, <1>2
<1> QED BY <1>5, <1>6, <1>7 DEF ServedHeld

LEMMA ServerAnswersServed ==
  ASSUME Shape, Streamed, OneUnderWay, QueriesRelayedOnce, ServedHeld, ServerAnswers
  PROVE  ServedHeld'
<1>1. /\ Len(upstream) >= served + 3 /\ served' = served + 3
      /\ UNCHANGED <<config, sent, upstream, validation, replacement, tempStorage>>
      /\ wire'["frontend"] = wire["frontend"] /\ ~closed
  BY DEF ServerAnswers, Quiet, client, buffers, outputs, Shape, Streams, Sides
<1> DEFINE n == Len(upstream)
           m == upstream[served + 1].m
<1>2. n \in Nat /\ served \in Nat /\ DOMAIN upstream = 1 .. n
      /\ upstream \in Seq(TaggedPiece) /\ Len(sent) \in Nat
  BY LenProperties DEF Shape
<1>3. /\ n = served + 3 /\ (m # 0 => m = Len(sent) /\ ~OnTheWay)
      /\ m = 0 => state = "NegotiatingUpstreamSSL"
      /\ \A j \in DOMAIN answers : answers[j].m < Len(sent)
  <2>1. n >= served + 3
    BY <1>1
  <2> HIDE DEF n
  <2>2. served # n
    BY <1>2, <2>1
  <2> QED BY <2>2 DEF ServedHeld, n
<1>4. upstream[served + 1] \in TaggedPiece
  <2> HIDE DEF n
  <2>1. served + 1 \in 1 .. n
    BY <1>2, <1>3
  <2> QED BY <1>2, <2>1, ElementOfSeq DEF n
<1>5. m \in Nat /\ (m # 0 => m \in Addressed)
  <2>1. m \in Nat
    BY <1>4 DEF TaggedPiece
  <2>2. ASSUME m # 0 PROVE m \in Addressed
    <3>1. served + 1 \in DOMAIN upstream
      <4> HIDE DEF n
      <4> QED BY <1>2, <1>3
    <3>2. Plain(upstream[served + 1]) \in Meant /\ Plain(upstream[served + 1]).m = m
      BY <2>2, <3>1 DEF QueriesRelayedOnce, Plain
    <3> QED BY <3>2, MeantBytes DEF Addressed
  <2> QED BY <2>1, <2>2
<1>6. PICK reply \in Replies(upstream[served + 1].kind, m) : answers' = answers \o reply
  BY DEF ServerAnswers
<1>7. Tells(reply, ServerKinds, m)
  BY <1>5, <1>6, RepliesTell
<1> HIDE DEF n, m
<1>8. /\ reply \in Seq(Piece) /\ Apart(reply) /\ \A i \in DOMAIN reply : reply[i].m = m
  BY <1>7 DEF Tells
<1>9. answers \in Seq(Piece) /\ Apart(answers) /\ OnlyOf(answers, Addressed)
  BY DEF Streamed, ServedHeld
<1>10. Apart(answers')
  <2>1. \A i \in DOMAIN answers, j \in DOMAIN reply :
          answers[i].m # 0 \/ reply[j].m # 0 => answers[i] # reply[j]
    <3> SUFFICES ASSUME NEW i \in DOMAIN answers, NEW j \in DOMAIN reply,
                        answers[i] = reply[j], answers[i].m # 0
                 PROVE  FALSE
      OBVIOUS
    <3>1. answers[i].m = m /\ m = Len(sent) /\ answers[i].m < Len(sent)
      BY <1>3, <1>8
    <3> QED BY <1>2, <3>1
  <2> QED BY <1>6, <1>8, <1>9, <2>1, ApartJoined
<1>11. Addressed' = Addressed
  BY <1>1, AddressedSame
<1>12. OnlyOf(answers', Addressed')
  <2>1. \A i \in DOMAIN reply : reply[i].m # 0 => reply[i].m \in Addressed
    BY <1>5, <1>8
  <2> QED BY <1>6, <1>8, <1>9, <1>11, <2>1, OnlyJoined DEF OnlyOf
<1>13. OnTheWay' => \A j \in DOMAIN answers' : answers'[j].m < Len(sent')
  <2> SUFFICES ASSUME OnTheWay' PROVE \A j \in DOMAIN answers' : answers'[j].m < Len(sent)
    BY <1>1
  <2>1. OnTheWay
    BY <1>1 DEF OnTheWay
  <2>2. m = 0
    BY <1>3, <2>1
  <2>3. sent # <<>>
    BY <1>1, <1>3, <2>2 DEF OneUnderWay, Resting, Arriving, Negotiating, Leaving, AtServer,
       Answered, Passing, LostSync, Forwardable
  <2>4. Len(sent) # 0 /\ 0 < Len(sent)
    <3> DEFINE l == Len(sent)
    <3>1. l # 0 /\ l \in Nat
      BY <1>2, <2>3, EmptySeq DEF Shape
    <3> HIDE DEF l
    <3>2. 0 < l
      BY <3>1
    <3> QED BY <3>1, <3>2 DEF l
  <2>5. \A i \in DOMAIN answers' : answers'[i] \in {answers[j] : j \in DOMAIN answers}
                                                  \union {reply[j] : j \in DOMAIN reply}
    BY <1>6, <1>8, <1>9, ElementsJoined
  <2> QED BY <1>3, <1>8, <2>2, <2>4, <2>5
<1>14. served' = Len(upstream')
  BY <1>1, <1>3 DEF n
<1> QED BY <1>10, <1>11, <1>12, <1>13, <1>14 DEF ServedHeld

LEMMA DroppedFront ==
  ASSUME Shape, Running, DropAll
  PROVE  validation'["frontend"] # <<>> => validation["frontend"] # <<>>
BY DEF DropAll, Running, Shape, Streams, Sides

LEMMA ReceivedFront ==
  ASSUME Shape, NEW side \in Sides, Receive(side)
  PROVE  /\ validation["frontend"] # <<>> \/ wire["frontend"] # <<>>
             => validation'["frontend"] # <<>> \/ wire'["frontend"] # <<>>
         /\ validation'["frontend"] # <<>> \/ wire'["frontend"] # <<>>
             => validation["frontend"] # <<>> \/ wire["frontend"] # <<>>
<1>1. /\ \A at \in Sides \ {side} : validation'[at] = validation[at] /\ wire'[at] = wire[at]
      /\ wire[side] # <<>> /\ validation'[side] # <<>>
  BY SameStream
<1>2. CASE side = "frontend"
  BY <1>1, <1>2
<1>3. CASE side = "backend"
  <2>1. "frontend" \in Sides \ {side}
    BY <1>3 DEF Sides
  <2> QED BY <1>1, <2>1
<1> QED BY <1>2, <1>3 DEF Sides

(* What comes to the front of the proxy leaves it behind OnTheWay.          *)
LEMMA DecodeServed ==
  ASSUME Shape, Shape', Streamed, OneUnderWay, ServedHeld, Decode
  PROVE  ServedHeld'
<1>1. CASE /\ Readable("frontend") /\ state \in {"InitState", "InSyncState"}
           /\ ~StartNegotiation /\ ~LoseSync
  <2>1. served = Len(upstream) /\ Arriving /\ Buffer = LastSent /\ handler = "frontend" /\ sent # <<>>
    BY <1>1, FrontMessage
  <2>2. OnTheWay
    BY <2>1, SentIsThree DEF OnTheWay, Buffer
  <2>3. TerminateSslRequest \/ PassEncrypted \/ StartInClear \/ RelayOrRefuse
    BY <1>1, <2>1, NeverDisturbed
       DEF Decode, NegotiationAnswered, Ignore, RetainOrEmit, Readable
  <2>4. UNCHANGED <<config, sent, upstream, served, answers>>
    BY <2>3 DEF TerminateSslRequest, PassEncrypted, StartInClear, RelayOrRefuse, client, server,
       outputs
  <2> QED BY <2>1, <2>2, <2>4, ServedSame
<1>2. CASE StartNegotiation
  <2>1. Readable("frontend") /\ state = "InitState"
    BY <1>2 DEF StartNegotiation
  <2>2. served = Len(upstream) /\ Arriving /\ Buffer = LastSent /\ handler = "frontend" /\ sent # <<>>
    BY <2>1, FrontMessage
  <2>3. OnTheWay
    BY <2>2, SentIsThree DEF OnTheWay, Buffer
  <2> DEFINE own == Bytes("own_ssl", 0)
  <2>4. /\ UNCHANGED <<config, sent, served, answers>> /\ state' = "NegotiatingUpstreamSSL"
        /\ upstream' = upstream \o Over(upstreamTls, own) /\ upstreamTls \in BOOLEAN
    BY <1>2 DEF StartNegotiation, client, server, Shape
  <2>5. own \in Seq(Piece) /\ Len(own) = 3 /\ own[1].m = 0
    <3>1. /\ own \in Seq(Piece) /\ Len(own) = 3
          /\ \A p \in 1 .. 3 : own[p] = [kind |-> "own_ssl", m |-> 0, part |-> p]
      BY BytesArePieces
    <3> HIDE DEF own
    <3> QED BY <3>1
  <2> HIDE DEF own
  <2> QED BY <2>2, <2>3, <2>4, <2>5, ServedWritten
<1>3. CASE NegotiationAnswered
  <2>1. /\ UNCHANGED <<config, sent, served, answers>> /\ Negotiating /\ ~closed
        /\ handler = "backend" /\ Buffer # <<>>
        /\ ~closed' => /\ AtServer' /\ EncryptUpstream /\ tempStorage = LastSent
        /\ closed' => GiveUpUpstream
    BY <1>3, NegotiationAnsweredOne DEF NegotiationAnswered, client, server
  <2>2. validation["backend"] # <<>>
    BY <2>1 DEF Buffer
  <2>3. served = Len(upstream)
    BY <2>1, <2>2, AtTheBack DEF Negotiating, Answered, Passing
  <2>4. sent # <<>> /\ tempStorage = LastSent /\ LastSent # <<>> /\ LastSent \in Seq(Piece)
        /\ Len(LastSent) = 3 /\ LastSent[1].m = Len(sent) /\ Len(sent) \in 1 .. Len(sent)
    <3>1. sent # <<>> /\ tempStorage = LastSent
      BY <2>1 DEF Negotiating
    <3>2. LastSent[1] = [kind |-> LastKind, m |-> Len(sent), part |-> 1]
      BY <3>1, SentIsThree
    <3> QED BY <3>1, <3>2, SentIsThree
  <2>5. OnTheWay
    BY <2>4 DEF OnTheWay
  <2>6. CASE closed'
    <3>1. upstream' = upstream
      BY <2>1, <2>6 DEF GiveUpUpstream
    <3> QED BY <2>1, <2>3, <2>5, <3>1, ServedSame
  <2>7. CASE ~closed'
    <3>1. upstream' = upstream \o Over(TRUE, LastSent)
      BY <2>1, <2>4, <2>7 DEF EncryptUpstream
    <3>2. ~OnTheWay'
      BY <2>1, <2>7 DEF AtServer, FrontEmpty, OnTheWay
    <3>3. LastSent[1].m # 0
      <4> DEFINE l == Len(sent)
      <4>1. l \in 1 .. l /\ LastSent[1].m = l
        BY <2>4
      <4> HIDE DEF l
      <4>2. l # 0
        BY <4>1
      <4> QED BY <4>1, <4>2
    <3> DEFINE last == LastSent
    <3>4. last \in Seq(Piece) /\ Len(last) = 3 /\ last[1].m = Len(sent) /\ last[1].m # 0
          /\ upstream' = upstream \o Over(TRUE, last)
      BY <2>4, <3>1, <3>3
    <3> HIDE DEF last
    <3> QED BY <2>1, <2>3, <2>5, <3>2, <3>4, ServedWritten
  <2> QED BY <2>6, <2>7
<1>4. CASE LoseSync
  <2>1. /\ UNCHANGED <<config, sent, upstream, served, answers, wire, replacement, tempStorage>>
        /\ DropAll /\ Running
    BY <1>4 DEF LoseSync, client, server, outputs
  <2>2. served' = Len(upstream')
    BY <1>4, LoseSyncOne DEF LostSync
  <2>3. OnTheWay' => OnTheWay
    BY <2>1, DroppedFront DEF OnTheWay
  <2> QED BY <2>1, <2>2, <2>3, ServedSame
<1>5. CASE Ignore
  <2>1. /\ UNCHANGED <<config, sent, upstream, served, answers, wire, replacement, tempStorage,
                       state>>
        /\ DropAll /\ Running
    BY <1>5 DEF Ignore, client, server, outputs
  <2>2. OnTheWay' => OnTheWay
    BY <2>1, DroppedFront DEF OnTheWay
  <2> QED BY <2>1, <2>2, ServedSame
<1>6. CASE RetainOrEmit
  <2>1. /\ UNCHANGED <<config, sent, upstream, served, answers, state, wire, tempStorage>>
        /\ Drop(3) /\ handler = "backend"
        /\ replacement' = replacement \/ \E bytes : Replace("backend", bytes)
    BY <1>6 DEF RetainOrEmit, client, server, outputs, Readable
  <2>2. /\ replacement'["frontend"] = replacement["frontend"]
        /\ validation'["frontend"] = validation["frontend"]
    BY <2>1 DEF Replace, Drop, Shape, Streams, Sides
  <2>3. OnTheWay' => OnTheWay
    BY <2>1, <2>2 DEF OnTheWay
  <2> QED BY <2>1, <2>3, ServedSame
<1>7. TerminateSslRequest \/ PassEncrypted \/ StartInClear \/ RelayOrRefuse
        => Readable("frontend") /\ state \in {"InitState", "InSyncState"}
  BY DEF TerminateSslRequest, PassEncrypted, StartInClear, RelayOrRefuse
<1> QED BY <1>1, <1>2, <1>3, <1>4, <1>5, <1>6, <1>7, NeverDisturbed DEF Decode

LEMMA FinishServed ==
  ASSUME Shape, OneUnderWay, ServedHeld, Finish
  PROVE  ServedHeld'
<1>1. /\ ~closed /\ handler \in Sides
      /\ UNCHANGED <<config, sent, served, answers, wire, validation, state, tempStorage>>
      /\ upstream' = upstream \o Over(upstreamTls, replacement["frontend"])
      /\ replacement' = Nothing /\ upstreamTls \in BOOLEAN
  BY Finished DEF Shape
<1>2. OnTheWay' => OnTheWay
  BY <1>1, NothingIsEmpty DEF OnTheWay
<1>3. CASE replacement["frontend"] = <<>>
  <2>1. upstream' = upstream
    BY <1>1, <1>3, NothingWritten
  <2> QED BY <1>1, <1>2, <2>1, ServedSame
<1>4. CASE replacement["frontend"] # <<>>
  <2>1. Leaving \/ Passing
    BY <1>1, <1>4, NothingIsEmpty
       DEF OneUnderWay, Resting, Arriving, Negotiating, AtServer, Answered, LostSync, FrontEmpty
  <2>2. /\ replacement["frontend"] = LastSent /\ sent # <<>>
        /\ validation["frontend"] = <<>> /\ wire["frontend"] = <<>> /\ tempStorage = <<>>
        /\ state # "NegotiatingUpstreamSSL"
    BY <1>4, <2>1 DEF Leaving, Passing, Forwardable
  <2>3. OnTheWay /\ ~OnTheWay'
    BY <1>1, <1>4, <2>2, NothingIsEmpty DEF OnTheWay
  <2>4. served = Len(upstream)
    BY <2>2, <2>3 DEF ServedHeld
  <2> DEFINE last == LastSent
  <2>5. last \in Seq(Piece) /\ Len(last) = 3 /\ last[1].m = Len(sent) /\ last[1].m # 0
        /\ upstream' = upstream \o Over(upstreamTls, last)
    <3>1. LastSent[1] = [kind |-> LastKind, m |-> Len(sent), part |-> 1]
      BY <2>2, SentIsThree
    <3>2. Len(sent) # 0 /\ LastSent[1].m = Len(sent)
      BY <2>2, <3>1, EmptySeq DEF Shape
    <3>3. LastSent \in Seq(Piece) /\ Len(LastSent) = 3
      BY <2>2, SentIsThree
    <3> QED BY <1>1, <2>2, <3>2, <3>3
  <2> HIDE DEF last
  <2> QED BY <1>1, <2>3, <2>4, <2>5, ServedWritten
<1> QED BY <1>3, <1>4

LEMMA NextServed ==
  ASSUME Patient, Shape, Shape', Streamed, OneUnderWay, QueriesRelayedOnce, ServedHeld, [Next]_vars
  PROVE  ServedHeld'
<1>1. CASE ClientReads \/ BytesSent \/ UNCHANGED vars
  <2>1. UNCHANGED <<config, sent, upstream, served, answers, state, validation, wire, replacement,
                    tempStorage>>
    BY <1>1 DEF ClientReads, BytesSent, vars, client, server, buffers, outputs
  <2>2. OnTheWay' = OnTheWay
    BY <2>1 DEF OnTheWay
  <2> QED BY <2>1, <2>2, ServedSame
<1>2. CASE \E side \in Sides : Receive(side)
  <2>1. PICK side \in Sides : Receive(side)
    BY <1>2
  <2>2. UNCHANGED <<config, sent, upstream, served, answers, state, replacement, tempStorage>>
    BY <2>1 DEF Receive, client, server, outputs
  <2>3. OnTheWay' => OnTheWay
    BY <2>1, <2>2, ReceivedFront DEF OnTheWay
  <2> QED BY <2>2, <2>3, ServedSame
<1> QED BY <1>1, <1>2, ClientSendsServed, ServerAnswersServed, FinishServed, DecodeServed DEF Next

-----------------------------------------------------------------------------
(* The proxy answers a message of its own when it takes it off.             *)
InFront == validation["frontend"] # <<>> \/ wire["frontend"] # <<>>
BackIsAddressed ==
  /\ OnlyOf(retained, Addressed)
  /\ OnlyOf(wire["backend"], Addressed) /\ OnlyOf(validation["backend"], Addressed)

LEMMA KeptSame ==
  ASSUME UNCHANGED <<config, sent>>
  PROVE  /\ Kept' = Kept /\ Addressed' = Addressed
         /\ \A n : OwnUpTo(n)' = OwnUpTo(n)
<1>1. Kept' = Kept /\ Addressed' = Addressed
  BY DEF Kept, Addressed, ForServer
<1>2. \A n : SaidUpTo(n)' = SaidUpTo(n)
  BY DEF SaidUpTo, Said, Destination
<1> QED BY <1>1, <1>2 DEF OwnUpTo

LEMMA SettledSame ==
  ASSUME UNCHANGED <<config, sent>>, Len(sent) \in Kept => (InFront' <=> InFront)
  PROVE  Settled' = Settled
<1>1. Kept' = Kept
  BY KeptSame
<1>2. Unanswered' <=> Unanswered
  BY <1>1 DEF Unanswered, InFront
<1> QED BY <1>2 DEF Settled

LEMMA OwnSame ==
  ASSUME OwnHeld, UNCHANGED <<config, sent, downstream>>, BackIsAddressed',
         replacement'["backend"] = replacement["backend"],
         Len(sent) \in Kept => (InFront' <=> InFront)
  PROVE  OwnHeld'
<1>1. Kept' = Kept /\ Settled' = Settled /\ \A n : OwnUpTo(n)' = OwnUpTo(n)
  BY KeptSame, SettledSame
<1>2. OwnIn(downstream' \o replacement'["backend"], Kept') = OwnUpTo(Settled)
  BY <1>1 DEF OwnHeld
<1>3. OwnUpTo(Settled)' = OwnUpTo(Settled)
  BY <1>1 DEF OwnUpTo, SaidUpTo, Said, Destination
<1> QED BY <1>2, <1>3 DEF OwnHeld, BackIsAddressed

(* What comes to the client more, of the server or of the proxy.            *)
LEMMA OwnMore ==
  ASSUME Shape, Streamed, OwnHeld, UNCHANGED <<config, sent>>, BackIsAddressed',
         NEW more \in Seq(Piece),
         downstream' \o replacement'["backend"]
           = (downstream \o replacement["backend"]) \o more,
         \/ /\ OnlyOf(more, Addressed)
            /\ Len(sent) \in Kept => (InFront' <=> InFront)
         \/ /\ OwnIn(more, Kept) = OwnTo(Said(Len(sent)))
            /\ Len(sent) \in Kept /\ InFront /\ ~InFront'
  PROVE  OwnHeld'
<1> DEFINE out == downstream \o replacement["backend"]
           x == OwnIn(out, Kept)
           y == OwnIn(more, Kept)
<1>1. Kept' = Kept
  BY KeptSame
<1>2. out \in Seq(Piece)
  <2>1. replacement["backend"] \in Seq(Piece) /\ downstream \in Seq(Piece)
    BY DEF Shape, Streams, Sides, Streamed
  <2> QED BY <2>1, ConcatProperties
<1>3. OwnIn(out \o more, Kept) = x \o y /\ x \in Seq(AnswerType) /\ y \in Seq(AnswerType)
  BY <1>2, OwnInJoined
<1>4. x = OwnUpTo(Settled)
  BY DEF OwnHeld
<1>5. x \o y = OwnUpTo(Settled')
  <2>1. CASE OnlyOf(more, Addressed) /\ (Len(sent) \in Kept => (InFront' <=> InFront))
    <3>1. Kept \cap Addressed = {}
      BY KeptIs
    <3>2. y = <<>>
      BY <2>1, <3>1, OwnInNone
    <3>3. Settled' = Settled
      BY <2>1, SettledSame
    <3> HIDE DEF x, y
    <3> QED BY <1>3, <1>4, <3>2, <3>3, ConcatEmptySeq
  <2>2. CASE OwnIn(more, Kept) = OwnTo(Said(Len(sent))) /\ Len(sent) \in Kept /\ InFront /\ ~InFront'
    <3>1. Len(sent) \in 1 .. Len(sent)
      BY <2>2, KeptIs
    <3>2. OwnUpTo(Len(sent)) = OwnUpTo(Len(sent) - 1) \o OwnTo(Said(Len(sent)))
      BY <3>1, OwnUpToNext
    <3>3. Settled = Len(sent) - 1
      BY <2>2 DEF Settled, Unanswered, InFront
    <3>4. Settled' = Len(sent)
      <4>1. ~ Unanswered'
        BY <2>2 DEF Unanswered, InFront
      <4> QED BY <4>1 DEF Settled
    <3> QED BY <1>4, <2>2, <3>2, <3>3, <3>4
  <2> QED BY <2>1, <2>2
<1>6. OwnIn(downstream' \o replacement'["backend"], Kept') = OwnUpTo(Settled')
  BY <1>1, <1>3, <1>5
<1>7. OwnUpTo(Settled)' = OwnUpTo(Settled')
  BY DEF OwnUpTo, SaidUpTo, Said, Destination
<1> QED BY <1>6, <1>7 DEF OwnHeld, BackIsAddressed

LEMMA NotKept ==
  ASSUME sent # <<>>, LastKind # "refused", LastKind = "ssl" => ~config.terminateSsl
  PROVE  Len(sent) \notin Kept
BY DEF Kept, ForServer, LastKind

(* The bytes of an answer count as the answer, once.                        *)
LEMMA OwnInBytes ==
  ASSUME NEW kept, NEW m \in kept, m \in Nat \ {0}, NEW kind \in AnyKind
  PROVE  /\ OwnIn(Bytes(kind, m), kept) = <<[kind |-> kind, m |-> m, from |-> "proxy"]>>
                \/ kind \in {"S", "N"}
         /\ kind \in {"S", "N"} =>
              OwnIn(Byte(kind, m), kept) = <<[kind |-> kind, m |-> m, from |-> "proxy"]>>
<1> DEFINE f == OwnBy(kept)
           it == [kind |-> kind, m |-> m, from |-> "proxy"]
           all == Bytes(kind, m)
           one == [kind |-> kind, m |-> m, part |-> 1]
<1>1. f \in [Piece -> Seq(AnswerType)]
  BY OwnMaps
<1>2. /\ all \in Seq(Piece) /\ Len(all) = 3
      /\ \A p \in 1 .. 3 : all[p] = [kind |-> kind, m |-> m, part |-> p]
  BY BytesArePieces DEF AnyKind
<1>3. it \in AnswerType
  BY DEF AnswerType
<1>4. \A p \in 1 .. 3 : [kind |-> kind, m |-> m, part |-> p] \in Piece
  BY DEF Piece, AnyKind
<1>5. \A p \in 1 .. 3 : f[[kind |-> kind, m |-> m, part |-> p]]
                          = IF p = 3 \/ kind \in {"S", "N"} THEN <<it>> ELSE <<>>
  BY <1>4 DEF OwnBy, IsLast
<1>6. kind \in {"S", "N"} => OwnIn(Byte(kind, m), kept) = <<it>>
  <2>1. one \in Piece /\ (kind \in {"S", "N"} => f[one] = <<it>>)
    BY <1>4, <1>5
  <2>2. Byte(kind, m) = <<one>>
    BY DEF Byte
  <2> HIDE DEF f, it, one
  <2>3. Collect(f, <<one>>) = f[one]
    BY <1>1, <2>1, CollectOne
  <2> QED BY <2>1, <2>2, <2>3 DEF OwnIn, f
<1>7. kind \notin {"S", "N"} => OwnIn(all, kept) = <<it>>
  <2> SUFFICES ASSUME kind \notin {"S", "N"} PROVE OwnIn(all, kept) = <<it>>
    OBVIOUS
  <2>1. f[all[1]] = <<>> /\ f[all[2]] = <<>> /\ f[all[3]] = <<it>>
    BY <1>2, <1>5
  <2> HIDE DEF f, all, it
  <2>2. PICK upTo \in [0 .. Len(all) -> Seq(AnswerType)] : CollectedBy(f, all, upTo)
    BY <1>1, <1>2, CollectSteps
  <2>3. /\ Collect(f, all) = upTo[3] /\ upTo[0] = <<>>
        /\ \A i \in 1 .. 3 : upTo[i] = upTo[i - 1] \o f[all[i]]
    BY <1>2, <2>2 DEF CollectedBy, Collecting
  <2>4. upTo[1] = upTo[0] \o f[all[1]] /\ upTo[2] = upTo[1] \o f[all[2]]
        /\ upTo[3] = upTo[2] \o f[all[3]]
    <3>1. ASSUME NEW i \in 1 .. 3, NEW j, j = i - 1
          PROVE  upTo[i] = upTo[j] \o f[all[i]]
      BY <2>3, <3>1
    <3>2. 1 \in 1 .. 3 /\ 2 \in 1 .. 3 /\ 3 \in 1 .. 3 /\ 0 = 1 - 1 /\ 1 = 2 - 1 /\ 2 = 3 - 1
      OBVIOUS
    <3> HIDE DEF CollectedBy
    <3> QED BY <3>1, <3>2
  <2>5. <<>> \o <<>> = <<>>
    BY EmptySeq, ConcatEmptySeq
  <2>6. <<>> \o <<it>> = <<it>>
    <3>1. <<it>> \in Seq(AnswerType)
      BY <1>3
    <3> QED BY <3>1, ConcatEmptySeq
  <2> QED BY <2>1, <2>3, <2>4, <2>5, <2>6 DEF OwnIn, f
<1> QED BY <1>6, <1>7

LEMMA PairJoined ==
  ASSUME NEW S, NEW x \in S, NEW y \in S
  PROVE  <<x>> \o <<y>> = <<x, y>>
<1> DEFINE a == <<x>>
           b == <<y>>
           c == <<x, y>>
           d == a \o b
<1>1. /\ a \in Seq(S) /\ Len(a) = 1 /\ a[1] = x
      /\ b \in Seq(S) /\ Len(b) = 1 /\ b[1] = y
      /\ c \in Seq(S) /\ Len(c) = 2 /\ c[1] = x /\ c[2] = y
  OBVIOUS
<1> HIDE DEF a, b, c
<1>2. d \in Seq(S) /\ Len(d) = 1 + 1 /\ d[1] = x /\ d[1 + 1] = y
  <2>1. d \in Seq(S) /\ Len(d) = 1 + 1
    BY <1>1, ConcatProperties
  <2>2. \A i \in 1 .. 1 + 1 : d[i] = IF i <= 1 THEN a[i] ELSE b[i - 1]
    <3>1. a \in Seq(S) /\ b \in Seq(S)
      BY <1>1
    <3>2. \A i \in 1 .. Len(a) + Len(b) : d[i] = IF i <= Len(a) THEN a[i] ELSE b[i - Len(a)]
      BY <3>1, ConcatProperties
    <3> HIDE DEF d
    <3> QED BY <1>1, <3>2
  <2>3. 1 \in 1 .. 1 + 1 /\ 1 <= 1 /\ 1 + 1 \in 1 .. 1 + 1 /\ ~ (1 + 1 <= 1) /\ (1 + 1) - 1 = 1
    OBVIOUS
  <2> QED BY <1>1, <2>1, <2>2, <2>3
<1> HIDE DEF d
<1>3. \A i \in 1 .. 2 : c[i] = d[i]
  BY <1>1, <1>2
<1>4. c = d
  BY <1>1, <1>2, <1>3, SeqEqual
<1> QED BY <1>4 DEF a, b, c, d

(* A query that is refused.                                                 *)
LEMMA OwnInRefusal ==
  ASSUME Shape, sent # <<>>, LastKind = "refused"
  PROVE  /\ Bytes("failed", Len(sent)) \o Bytes("ready", Len(sent)) \in Seq(Piece)
         /\ OwnIn(Bytes("failed", Len(sent)) \o Bytes("ready", Len(sent)), Kept)
              = OwnTo(Said(Len(sent)))
         /\ Len(sent) \in Kept
<1> DEFINE l == Len(sent)
           a == Bytes("failed", l)
           b == Bytes("ready", l)
           x == [kind |-> "failed", m |-> l, from |-> "proxy"]
           y == [kind |-> "ready", m |-> l, from |-> "proxy"]
<1>1. l \in Nat \ {0} /\ l \in DOMAIN sent /\ l \in Kept
  <2>1. l \in Nat /\ l \in 1 .. l
    BY SentIsThree
  <2>2. l \in DOMAIN sent /\ sent[l] = "refused"
    BY <2>1, LenProperties DEF Shape, LastKind
  <2>3. l \in Kept
    BY <2>2 DEF Kept, ForServer
  <2> HIDE DEF l
  <2> QED BY <2>1, <2>2, <2>3
<1>2. a \in Seq(Piece) /\ b \in Seq(Piece)
  <2>1. l \in Nat
    BY <1>1
  <2> QED BY <2>1, BytesArePieces DEF ServerKinds
<1>3. OwnIn(a, Kept) = <<x>> /\ OwnIn(b, Kept) = <<y>>
  <2> HIDE DEF l
  <2> QED BY <1>1, OwnInBytes DEF AnyKind, ServerKinds
<1>4. OwnTo(Said(l)) = <<x, y>>
  <2>1. Said(l).to = "refused" /\ Said(l).m = l
    BY DEF Said, Destination, LastKind
  <2> QED BY <2>1 DEF OwnTo, OwnAnswer
<1> HIDE DEF a, b
<1>5. OwnIn(a \o b, Kept) = OwnIn(a, Kept) \o OwnIn(b, Kept) /\ a \o b \in Seq(Piece)
  BY <1>2, OwnInJoined, ConcatProperties
<1>6. <<x>> \o <<y>> = <<x, y>>
  <2>1. x \in AnswerType /\ y \in AnswerType
    BY <1>1 DEF AnswerType, AnyKind, ServerKinds
  <2> HIDE DEF x, y
  <2> QED BY <2>1, PairJoined
<1> QED BY <1>1, <1>3, <1>4, <1>5, <1>6 DEF a, b

LEMMA OwnInAcceptance ==
  ASSUME Shape, sent # <<>>, LastKind = "ssl", config.terminateSsl
  PROVE  /\ Byte("S", Len(sent)) \in Seq(Piece)
         /\ OwnIn(Byte("S", Len(sent)), Kept) = OwnTo(Said(Len(sent)))
         /\ Len(sent) \in Kept
<1> DEFINE l == Len(sent)
           x == [kind |-> "S", m |-> l, from |-> "proxy"]
<1>1. l \in Nat \ {0} /\ l \in DOMAIN sent /\ l \in Kept
  <2>1. l \in Nat /\ l \in 1 .. l
    BY SentIsThree
  <2>2. l \in DOMAIN sent /\ sent[l] = "ssl"
    BY <2>1, LenProperties DEF Shape, LastKind
  <2>3. l \in Kept
    BY <2>2 DEF Kept, ForServer
  <2> HIDE DEF l
  <2> QED BY <2>1, <2>2, <2>3
<1>2. Byte("S", l) \in Seq(Piece)
  <2>1. l \in Nat
    BY <1>1
  <2> QED BY <2>1, BytesArePieces DEF ServerKinds
<1>3. OwnIn(Byte("S", l), Kept) = <<x>>
  <2> HIDE DEF l
  <2> QED BY <1>1, OwnInBytes DEF AnyKind, ServerKinds
<1>4. OwnTo(Said(l)) = <<x>>
  <2>1. Said(l).to = "proxy" /\ Said(l).m = l
    BY DEF Said, Destination, LastKind
  <2> QED BY <2>1 DEF OwnTo, OwnAnswer
<1> QED BY <1>1, <1>2, <1>3, <1>4

(* What the number of a byte says does not change with what is sent later.  *)
LEMMA OwnInAgrees ==
  ASSUME NEW bytes \in Seq(Piece), NEW kept, NEW more,
         \A i \in DOMAIN bytes : bytes[i].m \in kept <=> bytes[i].m \in more
  PROVE  OwnIn(bytes, kept) = OwnIn(bytes, more)
<1>1. \A i \in DOMAIN bytes : bytes[i] \in Piece
  BY ElementOfSeq, LenProperties
<1>2. \A i \in DOMAIN bytes : OwnBy(kept)[bytes[i]] = OwnBy(more)[bytes[i]]
  BY <1>1 DEF OwnBy
<1>3. Pieces(OwnBy(kept), bytes) = Pieces(OwnBy(more), bytes)
  BY <1>2 DEF Pieces
<1> QED BY <1>3 DEF OwnIn, Collect

OwnNext == \A n \in 1 .. Len(sent) : OwnUpTo(n) = OwnUpTo(n - 1) \o OwnTo(Said(n))
OwnTyped == \A n \in 0 .. Len(sent) : OwnUpTo(n) \in Seq(AnswerType)

LEMMA OwnNextHolds == Shape => OwnNext /\ OwnTyped
<1> SUFFICES ASSUME Shape PROVE OwnNext /\ OwnTyped
  OBVIOUS
<1>1. OwnNext
  BY OwnUpToNext DEF OwnNext
<1>2. ASSUME NEW n \in 0 .. Len(sent)
      PROVE  OwnUpTo(n) \in Seq(AnswerType)
  <2>1. SaidUpTo(n) \in Seq(RequestType)
    BY SaidIs
  <2> DEFINE f == OwnOf
             s == SaidUpTo(n)
  <2>2. f \in [RequestType -> Seq(AnswerType)] /\ s \in Seq(RequestType)
    BY <2>1, MapsAre
  <2> HIDE DEF f, s
  <2>3. Collect(f, s) \in Seq(AnswerType)
    BY <2>2, CollectSteps
  <2> QED BY <2>3 DEF OwnUpTo, f, s
<1> QED BY <1>1, <1>2 DEF OwnTyped

LEMMA OwnNextAfter == Shape' => OwnNext' /\ OwnTyped'
BY OwnNextHolds, PTL

LEMMA ClientSendsOwn ==
  ASSUME Patient, Shape, Shape', Streamed, OneUnderWay, DownHeld, OwnHeld,
         NEW kind \in Kinds, ClientSends(kind)
  PROVE  OwnHeld'
<1> DEFINE out == downstream \o replacement["backend"]
<1>1. /\ Resting /\ UNCHANGED <<config, downstream, replacement, retained, validation>>
      /\ sent' = Append(sent, kind) /\ wire'["backend"] = wire["backend"]
  BY SendsFromRest DEF ClientSends, buffers, outputs, Shape, Streams, Sides
<1>2. PICK l \in Nat : l = Len(sent)
  BY LenProperties DEF Shape
<1>3. /\ Len(sent') = l + 1 /\ DOMAIN sent = 1 .. l /\ DOMAIN sent' = 1 .. l + 1
      /\ \A m \in 1 .. l : sent'[m] = sent[m]
  <2>1. kind \in ClientKinds /\ sent \in Seq(ClientKinds)
    BY KindsAssumption DEF Shape
  <2> QED BY <1>1, <1>2, <2>1, AppendProperties, LenProperties
<1>4. Addressed \subseteq Addressed' /\ \A m \in 1 .. l : m \in Kept <=> m \in Kept'
  BY <1>1, <1>3 DEF Addressed, Kept, ForServer
<1>5. BackIsAddressed'
  BY <1>1, <1>4 DEF BackIsAddressed, OnlyOf, OwnHeld
<1>6. out = downstream /\ downstream \in Seq(Piece)
  BY <1>1, ConcatEmptySeq DEF Resting, BackEmpty, Streamed
<1>7. OwnIn(out, Kept) = OwnIn(out, Kept')
  <2>1. \A i \in DOMAIN downstream : downstream[i].m \in 1 .. l
    BY <1>3 DEF DownHeld
  <2> QED BY <1>4, <1>6, <2>1, OwnInAgrees
<1>8. OwnIn(out, Kept) = OwnUpTo(l)
  <2>1. Settled = l
    BY <1>1, <1>2 DEF Settled, Unanswered, Resting, FrontEmpty
  <2> QED BY <2>1 DEF OwnHeld
<1>9. OwnUpTo(l)' = OwnUpTo(l)
  <2>1. \A m \in 1 .. l : Said(m)' = Said(m)
    BY <1>1, <1>3 DEF Said, Destination
  <2>2. SaidUpTo(l)' = SaidUpTo(l)
    BY <2>1 DEF SaidUpTo
  <2> QED BY <2>2 DEF OwnUpTo
<1>10. InFront'
  <2> DEFINE bytes == Bytes(kind, Len(sent) + 1)
  <2>1. bytes \in Seq(Piece) /\ Len(bytes) = 3
    <3>1. kind \in ClientKinds /\ Len(sent) + 1 \in Nat
      BY <1>2, KindsAssumption
    <3> QED BY <3>1, BytesArePieces
  <2>2. wire'["frontend"] = <<>> \o bytes
    BY <1>1 DEF ClientSends, Resting, FrontEmpty, Shape, Streams, Sides
  <2> HIDE DEF bytes
  <2>3. bytes # <<>> /\ <<>> \o bytes = bytes
    BY <2>1, EmptySeq, ConcatEmptySeq
  <2> QED BY <2>2, <2>3 DEF InFront
<1>11. OwnUpTo(Settled)' = OwnUpTo(l)
  <2>1. CASE l + 1 \in Kept'
    <3>1. Settled' = l
      <4>1. Unanswered'
        BY <1>3, <1>10, <2>1 DEF Unanswered, InFront
      <4> QED BY <1>2, <1>3, <4>1 DEF Settled
    <3> QED BY <1>9, <3>1 DEF OwnUpTo, SaidUpTo, Said, Destination
  <2>2. CASE l + 1 \notin Kept'
    <3>1. Settled' = l + 1
      <4>1. ~ Unanswered'
        BY <1>3, <2>2 DEF Unanswered
      <4> QED BY <1>3, <4>1 DEF Settled
    <3>2. OwnUpTo(l + 1)' = OwnUpTo(l)' \o OwnTo(Said(l + 1)')
      <4>1. \A n \in 1 .. l + 1 : OwnUpTo(n)' = OwnUpTo(n - 1)' \o OwnTo(Said(n)')
        BY <1>3, OwnNextAfter DEF OwnNext
      <4>2. l + 1 \in 1 .. l + 1 /\ (l + 1) - 1 = l
        BY <1>2
      <4> QED BY <4>1, <4>2
    <3>3. OwnTo(Said(l + 1)') = <<>>
      <4>1. l + 1 \in DOMAIN sent'
        BY <1>2, <1>3
      <4>2. Destination(l + 1)' = "server"
        BY <2>2, <4>1 DEF Kept, ForServer, Destination
      <4>3. Said(l + 1)'.to = "server"
        BY <4>2 DEF Said
      <4> QED BY <4>3 DEF OwnTo
    <3>4. OwnUpTo(l) \in Seq(AnswerType)
      <4>1. l \in 0 .. Len(sent)
        BY <1>2
      <4> QED BY <4>1, OwnNextHolds DEF OwnTyped
    <3>5. OwnUpTo(l + 1)' = OwnUpTo(l)
      BY <1>9, <3>2, <3>3, <3>4, ConcatEmptySeq
    <3> QED BY <3>1, <3>5 DEF OwnUpTo, SaidUpTo, Said, Destination
  <2> QED BY <2>1, <2>2
<1>12. OwnIn(downstream' \o replacement'["backend"], Kept') = OwnUpTo(l)
  BY <1>1, <1>7, <1>8
<1> QED BY <1>5, <1>11, <1>12 DEF OwnHeld, BackIsAddressed

LEMMA ServerAnswersOwn ==
  ASSUME Shape, Streamed, OneUnderWay, QueriesRelayedOnce, OwnHeld, ServerAnswers
  PROVE  OwnHeld'
<1>1. /\ UNCHANGED <<config, sent, downstream, replacement, retained, validation, upstream>>
      /\ wire'["frontend"] = wire["frontend"] /\ Len(upstream) >= served + 3
  BY DEF ServerAnswers, client, buffers, outputs, Shape, Streams, Sides
<1> DEFINE n == Len(upstream)
           it == upstream[served + 1]
           m == it.m
<1>2. served + 1 \in DOMAIN upstream /\ it \in TaggedPiece
  <2>1. n \in Nat /\ n >= served + 3 /\ DOMAIN upstream = 1 .. n /\ served \in Nat
    BY <1>1, LenProperties DEF Shape
  <2> HIDE DEF n
  <2>2. served + 1 \in 1 .. n
    BY <2>1
  <2> QED BY <2>1, <2>2, ElementOfSeq DEF n, Shape
<1>3. m \in Nat /\ (m # 0 => m \in Addressed)
  <2>1. m \in Nat
    BY <1>2 DEF TaggedPiece
  <2>2. ASSUME m # 0 PROVE m \in Addressed
    <3>1. Plain(it) \in Meant /\ Plain(it).m = m
      BY <1>2, <2>2 DEF QueriesRelayedOnce, Plain
    <3> QED BY <3>1, MeantBytes DEF Addressed
  <2> QED BY <2>1, <2>2
<1>4. PICK reply \in Replies(it.kind, m) : wire' = [wire EXCEPT !["backend"] = @ \o reply]
  BY DEF ServerAnswers
<1> HIDE DEF it, m, n
<1>5. reply \in Seq(Piece) /\ OnlyOf(reply, Addressed)
  BY <1>3, <1>4, RepliesTell DEF Tells, OnlyOf
<1>6. OnlyOf(wire'["backend"], Addressed)
  <2>1. wire["backend"] \in Seq(Piece) /\ wire'["backend"] = wire["backend"] \o reply
    BY <1>4 DEF Shape, Streams, Sides
  <2> QED BY <1>5, <2>1, OnlyJoined DEF OwnHeld
<1>7. BackIsAddressed'
  BY <1>1, <1>6, AddressedSame DEF BackIsAddressed, OwnHeld
<1> QED BY <1>1, <1>7, OwnSame DEF InFront

LEMMA ReceiveOwn ==
  ASSUME Shape, Shape', OwnHeld, NEW side \in Sides, Receive(side)
  PROVE  OwnHeld'
<1>1. UNCHANGED <<config, sent, downstream, replacement, retained>>
  BY DEF Receive, client, outputs
<1>2. OnlyOf(validation'["backend"], Addressed) /\ OnlyOf(wire'["backend"], Addressed)
  <2> DEFINE v == validation["backend"]
             w == wire["backend"]
             x == validation'["backend"]
             y == wire'["backend"]
  <2>1. /\ v \in Seq(Piece) /\ w \in Seq(Piece) /\ x \in Seq(Piece) /\ y \in Seq(Piece)
        /\ x \o y = v \o w /\ OnlyOf(v, Addressed) /\ OnlyOf(w, Addressed)
    BY SameStream DEF Shape, Streams, Sides, OwnHeld
  <2> HIDE DEF v, w, x, y
  <2>2. OnlyOf(x \o y, Addressed)
    BY <2>1, OnlyJoined
  <2>3. OnlyOf(x, Addressed) /\ OnlyOf(y, Addressed)
    BY <2>1, <2>2, OnlyJoined
  <2> QED BY <2>3 DEF x, y
<1>3. BackIsAddressed'
  BY <1>1, <1>2, AddressedSame DEF BackIsAddressed, OwnHeld
<1>4. InFront' <=> InFront
  BY ReceivedFront DEF InFront
<1> QED BY <1>1, <1>3, <1>4, OwnSame

LEMMA FinishOwn ==
  ASSUME Shape, Streamed, OneUnderWay, OwnHeld, Finish
  PROVE  OwnHeld'
<1>1. /\ UNCHANGED <<config, sent, wire, validation, retained>>
      /\ downstream' = downstream \o replacement["backend"] /\ replacement' = Nothing
      /\ replacement["backend"] \in Seq(Piece)
  BY Finished
<1> DEFINE out == downstream \o replacement["backend"]
           none == <<>>
<1>2. out \in Seq(Piece) /\ none \in Seq(Piece) /\ OnlyOf(none, Addressed)
      /\ downstream' \o replacement'["backend"] = out \o none
  <2>1. out \in Seq(Piece)
    BY <1>1, ConcatProperties DEF Streamed
  <2>2. none \in Seq(Piece) /\ DOMAIN none = {}
    BY EmptySeq
  <2> QED BY <1>1, <2>1, <2>2, NothingIsEmpty DEF OnlyOf
<1>3. BackIsAddressed' /\ (InFront' <=> InFront)
  BY <1>1, AddressedSame DEF BackIsAddressed, OwnHeld, InFront
<1> HIDE DEF none
<1> QED BY <1>1, <1>2, <1>3, OwnMore

LEMMA TerminateOwn ==
  ASSUME Shape, Shape', Streamed, OneUnderWay, OwnHeld, TerminateSslRequest
  PROVE  OwnHeld'
<1>1. /\ Readable("frontend") /\ state = "InitState" /\ Current.kind = "ssl" /\ config.terminateSsl
      /\ UNCHANGED <<config, sent, wire, retained>> /\ Drop(3)
      /\ downstream' = downstream \o Byte("S", Current.m) /\ replacement' = Nothing
  BY TerminateOne DEF TerminateSslRequest, client
<1>2. /\ sent # <<>> /\ LastKind = "ssl" /\ Current.m = Len(sent) /\ wire["frontend"] = <<>>
      /\ validation'["frontend"] = <<>> /\ validation'["backend"] = validation["backend"]
      /\ Buffer = LastSent /\ handler = "frontend" /\ BackEmpty
  BY <1>1, FrontMessage
<1> DEFINE more == Byte("S", Len(sent))
<1>3. more \in Seq(Piece) /\ OwnIn(more, Kept) = OwnTo(Said(Len(sent))) /\ Len(sent) \in Kept
  BY <1>1, <1>2, OwnInAcceptance
<1>4. downstream' \o replacement'["backend"] = (downstream \o replacement["backend"]) \o more
  <2>1. downstream \in Seq(Piece) /\ downstream' = downstream \o more
    BY <1>1, <1>2 DEF Streamed
  <2>2. replacement["backend"] = <<>> /\ replacement'["backend"] = <<>>
    BY <1>1, <1>2, NothingIsEmpty DEF BackEmpty
  <2> HIDE DEF more
  <2>3. downstream \o <<>> = downstream /\ (downstream \o more) \o <<>> = downstream \o more
    BY <1>3, <2>1, ConcatEmptySeq, ConcatProperties
  <2> QED BY <2>1, <2>2, <2>3
<1>5. InFront /\ ~InFront'
  BY <1>1, <1>2, SentIsThree DEF InFront, Buffer
<1>6. BackIsAddressed'
  BY <1>1, <1>2, AddressedSame DEF BackIsAddressed, OwnHeld
<1> HIDE DEF more
<1> QED BY <1>1, <1>3, <1>4, <1>5, <1>6, OwnMore

LEMMA RelayOwn ==
  ASSUME Shape, Streamed, OneUnderWay, OwnHeld, RelayOrRefuse
  PROVE  OwnHeld'
<1>1. /\ Readable("frontend") /\ state = "InSyncState" /\ Drop(3)
      /\ UNCHANGED <<config, sent, wire, downstream>>
  BY DEF RelayOrRefuse, client, outputs
<1>2. /\ sent # <<>> /\ LastKind = Current.kind /\ Current.m = Len(sent) /\ wire["frontend"] = <<>>
      /\ validation'["frontend"] = <<>> /\ validation'["backend"] = validation["backend"]
      /\ Buffer = LastSent /\ handler = "frontend" /\ BackEmpty /\ Message = LastSent
      /\ Arriving
  BY <1>1, FrontMessage
<1>3. retained' = <<>>
  BY <1>2 DEF RelayOrRefuse, BackEmpty
<1>4. BackIsAddressed'
  <2>1. OnlyOf(<<>>, Addressed)
    BY DEF OnlyOf
  <2> QED BY <1>1, <1>2, <1>3, <2>1, AddressedSame DEF BackIsAddressed, OwnHeld
<1>5. CASE LastKind = "refused"
  <2> DEFINE more == Bytes("failed", Len(sent)) \o Bytes("ready", Len(sent))
  <2>1. more \in Seq(Piece) /\ OwnIn(more, Kept) = OwnTo(Said(Len(sent))) /\ Len(sent) \in Kept
    BY <1>2, <1>5, OwnInRefusal
  <2>2. replacement'["backend"] = <<>> \o more
    <3>1. Replace("backend", more)
      BY <1>2, <1>5 DEF RelayOrRefuse
    <3> HIDE DEF more
    <3> QED BY <1>2, <3>1 DEF Replace, BackEmpty, Shape, Streams, Sides
  <2>3. InFront /\ ~InFront'
    BY <1>1, <1>2, SentIsThree DEF InFront, Buffer
  <2> HIDE DEF more
  <2>4. downstream' \o replacement'["backend"] = (downstream \o replacement["backend"]) \o more
    <3>1. downstream \o <<>> = downstream /\ <<>> \o more = more
      BY <2>1, ConcatEmptySeq DEF Streamed
    <3> QED BY <1>1, <1>2, <2>2, <3>1 DEF BackEmpty
  <2> QED BY <1>1, <1>4, <2>1, <2>3, <2>4, OwnMore
<1>6. CASE LastKind # "refused"
  <2>1. Replace("frontend", Message)
    BY <1>2, <1>6 DEF RelayOrRefuse
  <2>2. replacement'["backend"] = replacement["backend"]
    BY <2>1 DEF Replace, Shape, Streams, Sides
  <2>3. Len(sent) \notin Kept
    BY <1>1, <1>2, <1>6, NotKept DEF Arriving
  <2> QED BY <1>1, <1>4, <2>2, <2>3, OwnSame
<1> QED BY <1>5, <1>6

LEMMA RetainOwn ==
  ASSUME Shape, Streamed, OwnHeld, RetainOrEmit
  PROVE  OwnHeld'
<1> DEFINE v == validation["backend"]
           r == replacement["backend"]
           h == retained
           first == SubSeq(v, 1, 3)
           left == SubSeq(v, 4, Len(v))
<1>1. /\ Readable("backend") /\ Drop(3) /\ UNCHANGED <<config, sent, wire, downstream>>
      /\ handler = "backend" /\ Message = first
  BY DEF RetainOrEmit, client, outputs, Readable, Message, Buffer
<1>2. /\ v \in Seq(Piece) /\ r \in Seq(Piece) /\ h \in Seq(Piece) /\ downstream \in Seq(Piece)
      /\ OnlyOf(v, Addressed) /\ OnlyOf(h, Addressed) /\ OnlyOf(wire["backend"], Addressed)
  BY DEF Shape, Streams, Sides, OwnHeld, Streamed
<1>3. validation'["backend"] = left /\ validation'["frontend"] = validation["frontend"]
  BY <1>1 DEF Drop, Shape, Streams, Sides
<1>4. first \in Seq(Piece) /\ left \in Seq(Piece) /\ OnlyOf(first, Addressed) /\ OnlyOf(left, Addressed)
  <2>1. Len(v) >= 3
    BY <1>1 DEF Readable, Buffer
  <2>2. <<>> \in Seq(Piece)
    BY EmptySeq
  <2> DEFINE all == v \o <<>>
             rest == left \o <<>>
  <2>3. /\ first \in Seq(Piece) /\ left \in Seq(Piece) /\ v = first \o left
    <3> HIDE DEF v
    <3>1. ASSUME NEW later \in Seq(Piece)
          PROVE  /\ SubSeq(v, 1, 3) \in Seq(Piece) /\ SubSeq(v, 4, Len(v)) \in Seq(Piece)
                 /\ v = SubSeq(v, 1, 3) \o SubSeq(v, 4, Len(v))
      BY <1>2, <2>1, TakenOff
    <3> QED BY <2>2, <3>1
  <2> HIDE DEF first, left, v
  <2> QED BY <1>2, <2>3, OnlyJoined
<1> HIDE DEF v, r, h, first, left
<1>5. InFront' <=> InFront
  BY <1>1, <1>3 DEF InFront
<1>6. CASE Current.kind = "row" /\ retained' = retained \o Message /\ UNCHANGED replacement
  <2>1. OnlyOf(retained', Addressed)
    BY <1>1, <1>2, <1>4, <1>6, OnlyJoined DEF h
  <2>2. BackIsAddressed'
    BY <1>1, <1>2, <1>3, <1>4, <2>1, AddressedSame DEF BackIsAddressed
  <2> QED BY <1>1, <1>5, <1>6, <2>2, OwnSame
<1>7. ASSUME NEW more \in Seq(Piece), OnlyOf(more, Addressed), Replace("backend", more),
             OnlyOf(retained', Addressed)
      PROVE  OwnHeld'
  <2>1. replacement'["backend"] = r \o more
    BY <1>7 DEF Replace, Shape, Streams, Sides, r
  <2>2. downstream' \o replacement'["backend"] = (downstream \o r) \o more
    <3>1. (downstream \o r) \o more = downstream \o (r \o more)
      BY <1>2, <1>7, Regrouped
    <3> QED BY <1>1, <2>1, <3>1
  <2>3. BackIsAddressed'
    BY <1>1, <1>2, <1>3, <1>4, <1>7, AddressedSame DEF BackIsAddressed
  <2> QED BY <1>1, <1>5, <1>7, <2>2, <2>3, OwnMore DEF r
<1>8. CASE Current.kind = "complete" /\ Replace("backend", retained \o Message) /\ retained' = <<>>
  <2> DEFINE more == h \o first
  <2>1. more \in Seq(Piece) /\ OnlyOf(more, Addressed)
    BY <1>2, <1>4, OnlyJoined, ConcatProperties
  <2>2. OnlyOf(retained', Addressed)
    BY <1>8 DEF OnlyOf
  <2>3. Replace("backend", more)
    BY <1>1, <1>8 DEF h
  <2> HIDE DEF more
  <2> QED BY <1>7, <2>1, <2>2, <2>3
<1>9. CASE /\ Current.kind \notin {"row", "complete"} /\ Replace("backend", Message)
           /\ UNCHANGED retained
  <2>1. OnlyOf(retained', Addressed) /\ Replace("backend", first)
    BY <1>1, <1>2, <1>9 DEF h
  <2> QED BY <1>4, <1>7, <2>1
<1> QED BY <1>6, <1>8, <1>9 DEF RetainOrEmit

LEMMA DecodeOwn ==
  ASSUME Shape, Shape', Streamed, OneUnderWay, OwnHeld, Decode
  PROVE  OwnHeld'
<1>1. OnlyOf(<<>>, Addressed)
  BY DEF OnlyOf
<1>2. CASE PassEncrypted \/ StartInClear
  <2>1. /\ Readable("frontend") /\ state = "InitState" /\ Drop(3) /\ Replace("frontend", Message)
        /\ UNCHANGED <<config, sent, wire, downstream, retained>>
    BY <1>2 DEF PassEncrypted, StartInClear, client, outputs
  <2>2. /\ sent # <<>> /\ LastKind = Current.kind /\ validation'["backend"] = validation["backend"]
    BY <2>1, FrontMessage
  <2>3. Len(sent) \notin Kept
    BY <1>2, <2>2, NotKept DEF PassEncrypted, StartInClear
  <2>4. replacement'["backend"] = replacement["backend"]
    BY <2>1 DEF Replace, Shape, Streams, Sides
  <2>5. BackIsAddressed'
    BY <2>1, <2>2, AddressedSame DEF BackIsAddressed, OwnHeld
  <2> QED BY <2>1, <2>3, <2>4, <2>5, OwnSame
<1>3. CASE StartNegotiation
  <2>1. /\ Readable("frontend") /\ state = "InitState" /\ Drop(3) /\ replacement' = Nothing
        /\ UNCHANGED <<config, sent, wire, downstream, retained>> /\ Current.kind = "startup"
    BY <1>3, StartNegotiationOne DEF StartNegotiation, client
  <2>2. /\ sent # <<>> /\ LastKind = Current.kind /\ validation'["backend"] = validation["backend"]
        /\ BackEmpty
    BY <2>1, FrontMessage
  <2>3. Len(sent) \notin Kept
    BY <2>1, <2>2, NotKept
  <2>4. replacement'["backend"] = replacement["backend"]
    BY <2>1, <2>2, NothingIsEmpty DEF BackEmpty
  <2>5. BackIsAddressed'
    BY <2>1, <2>2, AddressedSame DEF BackIsAddressed, OwnHeld
  <2> QED BY <2>1, <2>3, <2>4, <2>5, OwnSame
<1>4. CASE NegotiationAnswered
  <2>1. /\ Negotiating /\ replacement' = Nothing /\ DropAll /\ handler = "backend"
        /\ UNCHANGED <<config, sent, wire, downstream, retained>>
    BY <1>4, NegotiationAnsweredOne DEF NegotiationAnswered, client
  <2>2. sent # <<>> /\ LastKind = "startup" /\ replacement = Nothing
    BY <2>1 DEF Negotiating
  <2>3. Len(sent) \notin Kept
    BY <2>2, NotKept
  <2>4. validation'["backend"] = <<>>
    BY <2>1 DEF DropAll, Shape, Streams, Sides
  <2>5. BackIsAddressed'
    BY <1>1, <2>1, <2>4, AddressedSame DEF BackIsAddressed, OwnHeld
  <2> QED BY <2>1, <2>2, <2>3, <2>5, OwnSame
<1>5. CASE LoseSync \/ Ignore
  <2>1. /\ UNCHANGED <<config, sent, wire, downstream, retained, replacement>> /\ DropAll /\ Running
    BY <1>5 DEF LoseSync, Ignore, client, outputs
  <2>2. validation'["backend"] = validation["backend"] \/ validation'["backend"] = <<>>
    BY <2>1 DEF DropAll, Running, Shape, Streams, Sides
  <2>3. BackIsAddressed'
    BY <1>1, <2>1, <2>2, AddressedSame DEF BackIsAddressed, OwnHeld
  <2>4. Len(sent) \notin Kept
    <3>1. CASE LoseSync
      <4>1. sent' # <<>> /\ sent'[Len(sent')] \in {"oversized", "short_password"}
        BY <3>1, LoseSyncOne DEF LostSync, LastKind
      <4> QED BY <2>1, <4>1, NotKept DEF LastKind
    <3>2. CASE Ignore
      <4>1. Passing \/ LostSync
        BY <3>2, <2>1, NotClosed DEF Ignore, Running, OneUnderWay, Resting, Arriving, Negotiating,
           Leaving, AtServer, Answered, Forwardable
      <4>2. CASE Passing
        BY <4>2 DEF Passing, Kept
      <4>3. CASE LostSync
        BY <4>3, NotKept DEF LostSync
      <4> QED BY <4>1, <4>2, <4>3
    <3> QED BY <1>5, <3>1, <3>2
  <2> QED BY <2>1, <2>3, <2>4, OwnSame
<1> QED BY <1>2, <1>3, <1>4, <1>5, TerminateOwn, RelayOwn, RetainOwn, NeverDisturbed DEF Decode

LEMMA NextOwn ==
  ASSUME Patient, Shape, Shape', Streamed, OneUnderWay, QueriesRelayedOnce, DownHeld, OwnHeld,
         [Next]_vars
  PROVE  OwnHeld'
<1>1. CASE ClientReads \/ BytesSent \/ UNCHANGED vars
  <2>1. UNCHANGED <<config, sent, downstream, validation, wire, replacement, retained>>
    BY <1>1 DEF ClientReads, BytesSent, vars, client, buffers, outputs
  <2>2. BackIsAddressed' /\ (InFront' <=> InFront)
    BY <2>1, AddressedSame DEF BackIsAddressed, OwnHeld, InFront
  <2> QED BY <2>1, <2>2, OwnSame
<1> QED BY <1>1, ClientSendsOwn, ServerAnswersOwn, ReceiveOwn, FinishOwn, DecodeOwn DEF Next

LEMMA InitOwn == Init => OwnHeld
<1> SUFFICES ASSUME Init PROVE OwnHeld
  OBVIOUS
<1>1. /\ sent = <<>> /\ downstream = <<>> /\ retained = <<>>
      /\ wire["backend"] = <<>> /\ validation["backend"] = <<>> /\ replacement["backend"] = <<>>
  BY NothingIsEmpty DEF Init
<1>2. \A numbers : OnlyOf(<<>>, numbers)
  BY DEF OnlyOf
<1>3. Len(sent) = 0 /\ DOMAIN sent = {} /\ <<>> \o <<>> = <<>>
  BY <1>1, EmptySeq, ConcatEmptySeq
<1>4. Settled = 0
  BY <1>3 DEF Settled, Unanswered, Kept
<1>5. OwnUpTo(0) = <<>>
  <2>1. SaidUpTo(0) = <<>>
    <3>1. SaidUpTo(0) \in Seq(RequestType) /\ Len(SaidUpTo(0)) = 0
      <4>1. 0 \in 0 .. Len(sent)
        BY <1>3
      <4>2. Shape
        BY InitShape
      <4> QED BY <4>1, <4>2, SaidIs
    <3> QED BY <3>1, EmptySeq
  <2> QED BY <2>1, CollectNone DEF OwnUpTo
<1>6. OwnIn(<<>>, Kept) = <<>>
  BY CollectNone DEF OwnIn
<1> QED BY <1>1, <1>2, <1>3, <1>4, <1>5, <1>6 DEF OwnHeld

-----------------------------------------------------------------------------
(* Every step of the connection is a step of the relay.                     *)
Shut == closed \/ (state = "OutOfSyncState" /\ replacement = Nothing)

Ordered ==
  /\ IsPrefix(RequestsIn(upstream), R!MeantForServer)
  /\ IsPrefix(R!From("server", AnswersIn(downstream)), AnswersIn(answers))
  /\ IsPrefix(R!From("proxy", AnswersIn(downstream)), R!OwnAnswers)

RelayInv ==
  /\ Shape /\ Streamed /\ TypeHeld /\ SessionHeld
  /\ UpHeld /\ DownHeld /\ ServedHeld /\ OwnHeld

LEMMA RelayIsOrdered == RelayInv => Ordered
<1> SUFFICES ASSUME RelayInv PROVE Ordered
  OBVIOUS
<1>1. QueriesRelayedOnce /\ Apart(answers)
  BY DEF RelayInv, UpHeld, ServedHeld
<1>2. Shape /\ Streamed /\ DownHeld /\ OwnHeld
  BY DEF RelayInv
<1> QED BY <1>1, <1>2, RequestsInOrder, AnswersInOrder, OwnInOrder DEF Ordered

LEMMA RelayStaysOrdered == RelayInv' => Ordered'
BY RelayIsOrdered, PTL

LEMMA InitRelay == Init => RelayInv
BY InitShape, InitStreamed, InitTypes, InitOne, InitUp, InitDown, InitServed, InitOwn DEF RelayInv

LEMMA NextRelay ==
  ASSUME Patient, RelayInv, [Next]_vars
  PROVE  RelayInv'
<1>1. /\ Shape /\ Streamed /\ TypeHeld /\ SessionHeld
      /\ UpHeld /\ DownHeld /\ ServedHeld /\ OwnHeld
  BY DEF RelayInv
<1>2. Shape' /\ Streamed' /\ TypeHeld'
  BY <1>1, NextKeepsShape, NextStreamed, NextTypes
<1>3. OneUnderWay /\ QueriesRelayedOnce
  BY <1>1 DEF SessionHeld, UpHeld
<1>4. SessionHeld' /\ UpHeld' /\ DownHeld'
  BY <1>1, <1>2, <1>3, NextSession, NextUp, NextDown
<1>5. ServedHeld' /\ OwnHeld'
  BY <1>1, <1>2, <1>3, NextServed, NextOwn
<1> QED BY <1>2, <1>4, <1>5 DEF RelayInv

(* What else than the client and the server writes to the streams.          *)
LEMMA OutputsGrow ==
  ASSUME Shape, Streamed, [Next]_vars,
         ~ (\E kind \in Kinds : ClientSends(kind)), ~ServerAnswers
  PROVE  /\ UNCHANGED <<config, sent, answers>>
         /\ Extends(upstream', upstream, TaggedPiece)
         /\ Extends(downstream', downstream, Piece)
<1>1. /\ upstream \in Seq(TaggedPiece) /\ downstream \in Seq(Piece)
      /\ replacement["frontend"] \in Seq(Piece) /\ replacement["backend"] \in Seq(Piece)
      /\ tempStorage \in Seq(Piece) /\ upstreamTls \in BOOLEAN
  BY DEF Shape, Streams, Sides, Streamed
<1>2. ASSUME UNCHANGED <<config, sent, answers>>, UNCHANGED outputs
      PROVE  /\ UNCHANGED <<config, sent, answers>>
             /\ Extends(upstream', upstream, TaggedPiece)
             /\ Extends(downstream', downstream, Piece)
  BY <1>1, <1>2, ExtendsItself DEF outputs
<1>3. CASE ClientReads \/ BytesSent \/ UNCHANGED vars
  BY <1>2, <1>3 DEF ClientReads, BytesSent, vars, server, client
<1>4. CASE \E side \in Sides : Receive(side)
  BY <1>2, <1>4 DEF Receive, server, client
<1>5. CASE Finish
  <2>1. UNCHANGED <<config, sent, answers>> /\ downstream' = downstream \o replacement["backend"]
        /\ (upstream' = upstream \/ upstream' = upstream \o Over(upstreamTls, replacement["frontend"]))
    BY <1>5 DEF Finish, server, client
  <2>2. Over(upstreamTls, replacement["frontend"]) \in Seq(TaggedPiece)
    BY <1>1, OverIsTagged
  <2> QED BY <1>1, <2>1, <2>2, ExtendsItself DEF Extends
<1>6. CASE TerminateSslRequest
  <2>1. UNCHANGED <<config, sent, answers, upstream>> /\ downstream' = downstream \o Byte("S", Current.m)
    BY <1>6 DEF TerminateSslRequest, server, client
  <2>2. Byte("S", Current.m) \in Seq(Piece)
    <3>1. Current \in Piece
      BY <1>6, WholeMessage DEF TerminateSslRequest, Sides
    <3>2. Current.m \in Nat
      BY <3>1 DEF Piece
    <3> QED BY <3>2, BytesArePieces DEF ServerKinds
  <2> QED BY <1>1, <2>1, <2>2, ExtendsItself DEF Extends
<1>7. CASE StartNegotiation
  <2>1. UNCHANGED <<config, sent, answers, downstream>>
        /\ upstream' = upstream \o Over(upstreamTls, Bytes("own_ssl", 0))
    BY <1>7 DEF StartNegotiation, server, client
  <2>2. Over(upstreamTls, Bytes("own_ssl", 0)) \in Seq(TaggedPiece)
    BY <1>1, OverIsTagged, BytesArePieces
  <2> QED BY <1>1, <2>1, <2>2, ExtendsItself DEF Extends
<1>8. CASE NegotiationAnswered
  <2>1. UNCHANGED <<config, sent, answers, downstream>>
        /\ (upstream' = upstream \/ upstream' = upstream \o Over(TRUE, tempStorage))
    BY <1>8 DEF NegotiationAnswered, EncryptUpstream, GiveUpUpstream, server, client
  <2>2. Over(TRUE, tempStorage) \in Seq(TaggedPiece)
    BY <1>1, OverIsTagged
  <2> QED BY <1>1, <2>1, <2>2, ExtendsItself DEF Extends
<1>9. CASE \/ PassEncrypted \/ StartInClear \/ NegotiationDisturbed \/ LoseSync \/ Ignore
           \/ RelayOrRefuse \/ RetainOrEmit
  BY <1>2, <1>9 DEF PassEncrypted, StartInClear, NegotiationDisturbed, LoseSync, Ignore,
     RelayOrRefuse, RetainOrEmit, server, client
<1> QED BY <1>3, <1>4, <1>5, <1>6, <1>7, <1>8, <1>9 DEF Next, Decode

(* The numbers of what is in the streams are those of messages sent.        *)
LEMMA NamesKept ==
  ASSUME UNCHANGED <<config, sent>>
  PROVE  /\ \A byte : Requested(byte)' = Requested(byte) /\ Answer(byte)' = Answer(byte)
         /\ \A messages, author : R!From(author, messages)' = R!From(author, messages)
         /\ R!MeantForServer' = R!MeantForServer /\ R!OwnAnswers' = R!OwnAnswers
<1>1. \A byte : Requested(byte)' = Requested(byte)
  BY DEF Requested, Request, Destination, IsLast
<1>2. \A byte : Answer(byte)' = Answer(byte)
  BY DEF Answer, Told, Author, ForServer, IsLast
<1>3. \A messages, author : R!From(author, messages)' = R!From(author, messages)
  OBVIOUS
<1>4. R!MeantForServer' = R!MeantForServer /\ R!OwnAnswers' = R!OwnAnswers
  BY DEF R!MeantForServer, R!OwnAnswers, Destination
<1> QED BY <1>1, <1>2, <1>3, <1>4

LEMMA RequestsGrow ==
  ASSUME NEW a \in Seq(TaggedPiece), NEW b, Extends(b, a, TaggedPiece)
  PROVE  IsPrefix(RequestsIn(a), RequestsIn(b))
<1>1. PICK rest \in Seq(TaggedPiece) : b = a \o rest
  BY DEF Extends
<1>2. b \in Seq(TaggedPiece)
  BY <1>1, ConcatProperties
<1> DEFINE f == RequestOf
<1>3. RequestsIn(a) = Collect(f, a) /\ RequestsIn(b) = Collect(f, b)
  BY <1>2, RequestsCollected
<1>4. Maps(f, TaggedPiece, RequestType)
  BY MapsAre DEF Maps
<1> HIDE DEF f
<1>5. Collect(f, b) = Collect(f, a) \o Collect(f, rest)
  BY <1>1, <1>4, MapsJoined
<1>6. Collect(f, a) \in Seq(RequestType) /\ Collect(f, rest) \in Seq(RequestType)
  BY <1>4, CollectSteps DEF Maps
<1> QED BY <1>3, <1>5, <1>6, PrefixOfJoined

LEMMA AnswersJoined ==
  ASSUME NEW a \in Seq(Piece), NEW b \in Seq(Piece)
  PROVE  /\ AnswersIn(a \o b) = AnswersIn(a) \o AnswersIn(b)
         /\ AnswersIn(a) \in Seq(AnswerType) /\ AnswersIn(b) \in Seq(AnswerType)
<1>1. a \o b \in Seq(Piece)
  BY ConcatProperties
<1> DEFINE f == AnswerOf
<1>2. /\ AnswersIn(a) = Collect(f, a) /\ AnswersIn(b) = Collect(f, b)
      /\ AnswersIn(a \o b) = Collect(f, a \o b)
      /\ AnswersIn(a) \in Seq(AnswerType) /\ AnswersIn(b) \in Seq(AnswerType)
  BY <1>1, AnswersCollected
<1>3. Maps(f, Piece, AnswerType)
  BY MapsAre DEF Maps
<1> HIDE DEF f
<1>4. Collect(f, a \o b) = Collect(f, a) \o Collect(f, b)
  BY <1>3, MapsJoined
<1> QED BY <1>2, <1>4

LEMMA AnswersGrow ==
  ASSUME NEW a \in Seq(Piece), NEW b, Extends(b, a, Piece)
  PROVE  IsPrefix(AnswersIn(a), AnswersIn(b))
<1>1. PICK rest \in Seq(Piece) : b = a \o rest
  BY DEF Extends
<1> QED BY <1>1, AnswersJoined, PrefixOfJoined

(* The mapping itself, before and after a step.                             *)
LEMMA StreamsNamed ==
  ASSUME UNCHANGED <<config, sent>>
  PROVE  /\ \A bytes : RequestsIn(bytes)' = RequestsIn(bytes)
         /\ \A bytes : AnswersIn(bytes)' = AnswersIn(bytes)
BY NamesKept DEF RequestsIn, AnswersIn

LEMMA StreamsAfter ==
  ASSUME UNCHANGED <<config, sent>>
  PROVE  /\ RequestsIn(upstream)' = RequestsIn(upstream')
         /\ AnswersIn(downstream)' = AnswersIn(downstream')
         /\ AnswersIn(answers)' = AnswersIn(answers')
<1>1. RequestsIn(upstream)' = RequestsIn(upstream')
  BY DEF RequestsIn, Requested, Request, Destination, IsLast
<1>2. AnswersIn(downstream)' = AnswersIn(downstream')
  BY DEF AnswersIn, Answer, Told, Author, ForServer, IsLast
<1>3. AnswersIn(answers)' = AnswersIn(answers')
  BY DEF AnswersIn, Answer, Told, Author, ForServer, IsLast
<1> QED BY <1>1, <1>2, <1>3

LEMMA Passes ==
  ASSUME RelayInv, RelayInv', ~Shut, UNCHANGED <<config, sent, answers>>,
         Extends(upstream', upstream, TaggedPiece), Extends(downstream', downstream, Piece)
  PROVE  R!Pass
<1>1. Ordered'
  BY RelayStaysOrdered
<1>2. upstream \in Seq(TaggedPiece) /\ downstream \in Seq(Piece)
  BY DEF RelayInv, Shape, Streamed
<1>3. /\ IsPrefix(RequestsIn(upstream), RequestsIn(upstream)')
      /\ IsPrefix(AnswersIn(downstream), AnswersIn(downstream)')
  BY <1>2, RequestsGrow, AnswersGrow, StreamsAfter
<1>4. /\ IsPrefix(RequestsIn(upstream)', R!MeantForServer)
      /\ IsPrefix(R!From("server", AnswersIn(downstream)'), AnswersIn(answers))
      /\ IsPrefix(R!From("proxy", AnswersIn(downstream)'), R!OwnAnswers)
      /\ AnswersIn(answers)' = AnswersIn(answers)
  <2>1. R!MeantForServer' = R!MeantForServer /\ R!OwnAnswers' = R!OwnAnswers
    BY NamesKept
  <2>2. AnswersIn(answers)' = AnswersIn(answers)
    BY StreamsAfter
  <2> QED BY <1>1, <2>1, <2>2 DEF Ordered
<1>5. [m \in DOMAIN sent' |-> [kind |-> sent'[m], m |-> m, to |-> Destination(m)']]
        = [m \in DOMAIN sent |-> [kind |-> sent[m], m |-> m, to |-> Destination(m)]]
  BY DEF Destination
<1>6. ~ (closed \/ (state = "OutOfSyncState" /\ replacement = Nothing))
  BY DEF Shut
<1>7. (closed' \/ (state' = "OutOfSyncState" /\ replacement' = Nothing))
        \in BOOLEAN
  OBVIOUS
<1> QED BY <1>3, <1>4, <1>5, <1>6, <1>7, PrefixesAgree DEF R!Pass

(* What is shut writes nothing and stays shut.                              *)
LEMMA ShutPassesNothing ==
  ASSUME Shape, Streamed, OneUnderWay, Shut, [Next]_vars,
         ~ (\E kind \in Kinds : ClientSends(kind)), ~ServerAnswers
  PROVE  UNCHANGED <<config, sent, answers, upstream, downstream>> /\ Shut'
<1>1. CASE closed
  <2>1. handler = "none"
    BY <1>1 DEF OneUnderWay
  <2>2. UNCHANGED vars
    BY <1>1, <2>1, ClosedIsOver
  <2> QED BY <1>1, <2>2 DEF vars, client, server, outputs, transports, Shut
<1>2. CASE ~closed
  <2>1. state = "OutOfSyncState" /\ replacement = Nothing
    BY <1>2 DEF Shut
  <2>2. CASE \/ ClientReads \/ BytesSent \/ Ignore \/ UNCHANGED vars
             \/ \E side \in Sides : Receive(side)
    <3>1. UNCHANGED <<config, sent, answers, upstream, downstream, state, replacement>>
      BY <2>2 DEF ClientReads, BytesSent, Ignore, Receive, vars, client, server, buffers, outputs
    <3> QED BY <2>1, <3>1 DEF Shut, Nothing
  <2>3. CASE Finish
    <3>1. replacement["frontend"] = <<>> /\ replacement["backend"] = <<>>
      BY <2>1 DEF Nothing, Sides
    <3>2. downstream' = downstream
      BY <2>3, <3>1, ConcatEmptySeq DEF Finish, Streamed
    <3>3. upstream' = upstream
      <4>1. upstreamTls \in BOOLEAN
        BY DEF Shape
      <4>2. upstream \o Over(upstreamTls, <<>>) = upstream
        BY <4>1, NothingWritten
      <4> QED BY <2>3, <3>1, <4>2 DEF Finish
    <3>4. replacement' = Nothing
      <4>1. CASE handler = "frontend"
        BY <2>3, <4>1 DEF Finish
      <4>2. CASE handler # "frontend"
        <5>1. replacement' = [replacement EXCEPT !["backend"] = <<>>]
          BY <2>3, <4>2 DEF Finish
        <5> QED BY <2>1, <5>1 DEF Nothing
      <4> QED BY <4>1, <4>2
    <3>5. UNCHANGED <<config, sent, answers, state>>
      BY <2>3 DEF Finish, client, server
    <3> QED BY <2>1, <3>2, <3>3, <3>4, <3>5 DEF Shut
  <2>4. ~ (Decode /\ ~Ignore)
    BY <2>1 DEF Decode, TerminateSslRequest, PassEncrypted, StartInClear, StartNegotiation,
       NegotiationDisturbed, NegotiationAnswered, LoseSync, RelayOrRefuse, RetainOrEmit
  <2> QED BY <2>2, <2>3, <2>4 DEF Next
<1> QED BY <1>1, <1>2

LEMMA ShutStutters ==
  ASSUME UNCHANGED <<config, sent, answers, upstream, downstream>>, Shut, Shut'
  PROVE  UNCHANGED R!relayVars
<1>1. /\ RequestsIn(upstream)' = RequestsIn(upstream)
      /\ AnswersIn(downstream)' = AnswersIn(downstream)
      /\ AnswersIn(answers)' = AnswersIn(answers)
  BY StreamsAfter
<1>2. [m \in DOMAIN sent' |-> [kind |-> sent'[m], m |-> m, to |-> Destination(m)']]
        = [m \in DOMAIN sent |-> [kind |-> sent[m], m |-> m, to |-> Destination(m)]]
  BY DEF Destination
<1>3. (closed' \/ (state' = "OutOfSyncState" /\ replacement' = Nothing))
        = (closed \/ (state = "OutOfSyncState" /\ replacement = Nothing))
  BY DEF Shut
<1> QED BY <1>1, <1>2, <1>3 DEF R!relayVars

(* The server's answer tells as many messages as end in it.                 *)
LEMMA TellsAnswers ==
  ASSUME RelayInv, ServerAnswers
  PROVE  R!Tell
<1>1. PICK reply \in Replies(upstream[served + 1].kind, upstream[served + 1].m) :
        answers' = answers \o reply
  BY DEF ServerAnswers
<1>2. /\ Shape /\ Streamed /\ ServedHeld /\ QueriesRelayedOnce /\ Scalars
  BY DEF RelayInv, UpHeld, TypeHeld
<1> DEFINE n == upstream[served + 1].m
<1>3. served + 1 \in 1 .. Len(upstream) /\ upstream[served + 1] \in TaggedPiece /\ n \in Nat
  <2>1. served \in Nat /\ Len(upstream) \in Nat /\ Len(upstream) >= served + 3
    BY <1>2, LenProperties DEF Shape, ServerAnswers
  <2>2. served + 1 \in 1 .. Len(upstream)
    BY <2>1
  <2>3. upstream[served + 1] \in TaggedPiece
    BY <1>2, <2>2, ElementOfSeq DEF Shape
  <2> QED BY <2>2, <2>3 DEF TaggedPiece
<1>4. n # 0 => n \in Addressed /\ n \in 1 .. MaxMessages
  <2> SUFFICES ASSUME n # 0 PROVE n \in Addressed /\ n \in 1 .. MaxMessages
    OBVIOUS
  <2>1. Plain(upstream[served + 1]) \in Meant
    BY <1>2, <1>3, LenProperties DEF QueriesRelayedOnce, Shape
  <2>2. Plain(upstream[served + 1]).m = n
    BY DEF Plain
  <2>3. n \in DOMAIN sent /\ ForServer(n)
    BY <1>2, <2>1, <2>2, MeantBytes
  <2>4. DOMAIN sent = 1 .. Len(sent) /\ Len(sent) \in Nat /\ Len(sent) <= MaxMessages
    BY <1>2, LenProperties DEF Shape, Scalars
  <2> QED BY <2>3, <2>4, KindsAssumption DEF Addressed
<1>5. Tells(reply, ServerKinds, n)
  BY <1>3, RepliesTell
<1>6. reply \in Seq(Piece) /\ answers \in Seq(Piece)
  BY <1>2, <1>5 DEF Tells, Streamed
<1>7. AnswersIn(answers') = AnswersIn(answers) \o AnswersIn(reply)
  BY <1>1, <1>6, AnswersJoined
<1>8. /\ AnswersIn(answers) \in Seq(AnswerType) /\ AnswersIn(reply) \in Seq(AnswerType)
  BY <1>6, AnswersJoined
<1> DEFINE Tellable == [kind : ServerKinds, m : 1 .. MaxMessages, from : {"server"}]
<1>9. AnswersIn(reply) \in Seq(Tellable)
  <2> DEFINE k == Len(reply)
             pieces == [i \in 1 .. k |-> Answer(reply[i])]
  <2>1. k \in Nat /\ DOMAIN reply = 1 .. k
    BY <1>6, LenProperties
  <2>2. ASSUME NEW i \in 1 .. k
        PROVE  Answer(reply[i]) \in Seq(Tellable)
    <3>1. reply[i].m = n /\ reply[i].kind \in ServerKinds
      BY <1>5, <2>1 DEF Tells
    <3>2. CASE ~ IsLast(reply[i])
      BY <3>2, EmptySeq DEF Answer
    <3>3. CASE IsLast(reply[i])
      <4>1. n \in Addressed /\ n \in 1 .. MaxMessages
        BY <1>4, <3>1, <3>3 DEF IsLast
      <4>2. Author(n) = "server"
        BY <4>1 DEF Author, Addressed
      <4>3. Told(reply[i]) \in Tellable
        BY <3>1, <4>1, <4>2 DEF Told
      <4> QED BY <3>3, <4>3 DEF Answer
    <3> QED BY <3>2, <3>3
  <2> HIDE DEF Tellable
  <2>3. pieces \in Seq(Seq(Tellable))
    <3>1. pieces \in [1 .. k -> Seq(Tellable)]
      BY <2>2
    <3> QED BY <2>1, <3>1, SeqDef
  <2>4. AnswersIn(reply) = FlattenSeq(pieces)
    BY <2>1 DEF AnswersIn
  <2> QED BY <2>3, <2>4, FlattenIsSeq
<1> DEFINE a == AnswersIn(answers)
           b == AnswersIn(reply)
           c == AnswersIn(answers')
           la == Len(a)
           lb == Len(b)
<1>10. IsPrefix(a, c)
  BY <1>7, <1>8, PrefixOfJoined
<1>11. \A i \in la + 1 .. Len(c) : c[i] \in Tellable
  <2> HIDE DEF a, b, c
  <2>1. /\ la \in Nat /\ lb \in Nat /\ Len(c) = la + lb
        /\ \A i \in 1 .. lb : c[la + i] = b[i]
    BY <1>7, <1>8, Joined DEF a, b, c
  <2>2. \A i \in 1 .. lb : b[i] \in Tellable
    BY <1>9, ElementOfSeq DEF b
  <2> HIDE DEF la, lb, Tellable
  <2>3. ASSUME NEW i \in la + 1 .. Len(c)
        PROVE  c[i] \in Tellable
    <3>1. i - la \in 1 .. lb /\ la + (i - la) = i
      BY <2>1
    <3> QED BY <2>1, <2>2, <3>1
  <2> QED BY <2>3
<1>12. UNCHANGED <<config, sent, upstream, downstream, closed, state, replacement>>
  BY DEF ServerAnswers, client, buffers, outputs, transports
<1>13. /\ RequestsIn(upstream)' = RequestsIn(upstream)
       /\ AnswersIn(downstream)' = AnswersIn(downstream)
       /\ AnswersIn(answers)' = AnswersIn(answers')
  BY <1>12, StreamsAfter
<1>14. [m \in DOMAIN sent' |-> [kind |-> sent'[m], m |-> m, to |-> Destination(m)']]
        = [m \in DOMAIN sent |-> [kind |-> sent[m], m |-> m, to |-> Destination(m)]]
  BY <1>12 DEF Destination
<1>15. (closed' \/ (state' = "OutOfSyncState" /\ replacement' = Nothing))
        = (closed \/ (state = "OutOfSyncState" /\ replacement = Nothing))
  BY <1>12 DEF Nothing
<1> QED BY <1>10, <1>11, <1>13, <1>14, <1>15, PrefixesAgree DEF R!Tell

(* What the client says now is named; what was said keeps its name.         *)
LEMMA NamedBefore ==
  ASSUME Shape, NEW kind \in ClientKinds, sent' = Append(sent, kind), config' = config
  PROVE  /\ \A byte : byte.m = 0 \/ byte.m \in DOMAIN sent =>
              Requested(byte)' = Requested(byte) /\ Answer(byte)' = Answer(byte)
         /\ \A m \in DOMAIN sent : Destination(m)' = Destination(m) /\ sent'[m] = sent[m]
         /\ Len(sent) \in Nat /\ DOMAIN sent = 1 .. Len(sent)
         /\ DOMAIN sent' = 1 .. Len(sent) + 1 /\ sent'[Len(sent) + 1] = kind
<1>1. /\ Len(sent) \in Nat /\ DOMAIN sent = 1 .. Len(sent)
      /\ DOMAIN sent' = 1 .. Len(sent) + 1 /\ sent'[Len(sent) + 1] = kind
      /\ \A m \in DOMAIN sent : sent'[m] = sent[m]
  <2>1. sent \in Seq(ClientKinds)
    BY DEF Shape
  <2> QED BY <2>1, AppendProperties, LenProperties
<1>2. \A m \in DOMAIN sent : m \in DOMAIN sent'
  BY <1>1
<1>3. \A m \in DOMAIN sent : /\ Destination(m)' = Destination(m)
                             /\ ForServer(m)' <=> ForServer(m)
  BY <1>1 DEF Destination, ForServer
<1>4. \A m \in DOMAIN sent : Author(m)' = Author(m)
  BY <1>2, <1>3 DEF Author
<1>5. ASSUME NEW byte, byte.m = 0 \/ byte.m \in DOMAIN sent
      PROVE  Requested(byte)' = Requested(byte) /\ Answer(byte)' = Answer(byte)
  <2>1. CASE byte.m = 0
    BY <2>1 DEF Requested, Answer, IsLast
  <2>2. CASE byte.m \in DOMAIN sent
    <3> DEFINE m == byte.m
    <3>1. Destination(m)' = Destination(m) /\ Author(m)' = Author(m)
      BY <1>3, <1>4, <2>2
    <3>2. Request(byte)' = Request(byte) /\ Told(byte)' = Told(byte)
      BY <3>1 DEF Request, Told
    <3> QED BY <3>2 DEF Requested, Answer, IsLast
  <2> QED BY <1>5, <2>1, <2>2
<1> QED BY <1>1, <1>3, <1>5

LEMMA SaysRequests ==
  ASSUME RelayInv, NEW kind \in Kinds, ClientSends(kind)
  PROVE  R!Say
<1>1. /\ Shape /\ Streamed /\ ServedHeld /\ QueriesRelayedOnce /\ DownHeld /\ Scalars
  BY DEF RelayInv, UpHeld, TypeHeld
<1>2. /\ sent' = Append(sent, kind) /\ Len(sent) < MaxMessages
      /\ UNCHANGED <<config, upstream, downstream, answers, closed, state, replacement>>
  BY DEF ClientSends, server, outputs, transports, buffers
<1>3. kind \in ClientKinds
  BY KindsAssumption
<1> DEFINE l == Len(sent)
<1>4. /\ \A byte : byte.m = 0 \/ byte.m \in DOMAIN sent =>
              Requested(byte)' = Requested(byte) /\ Answer(byte)' = Answer(byte)
      /\ \A m \in DOMAIN sent : Destination(m)' = Destination(m) /\ sent'[m] = sent[m]
      /\ l \in Nat /\ DOMAIN sent = 1 .. l
      /\ DOMAIN sent' = 1 .. l + 1 /\ sent'[l + 1] = kind
  BY <1>1, <1>2, <1>3, NamedBefore
<1>5. RequestsIn(upstream)' = RequestsIn(upstream)
  <2>1. ASSUME NEW i \in DOMAIN upstream
        PROVE  upstream[i].m = 0 \/ upstream[i].m \in DOMAIN sent
    <3>1. upstream[i].m # 0 => Plain(upstream[i]) \in Meant
      BY <1>1 DEF QueriesRelayedOnce
    <3>2. Plain(upstream[i]).m = upstream[i].m
      BY DEF Plain
    <3> QED BY <1>1, <3>1, <3>2, MeantBytes
  <2>2. \A i \in DOMAIN upstream : Requested(upstream[i])' = Requested(upstream[i])
    <3> SUFFICES ASSUME NEW i \in DOMAIN upstream
                 PROVE  Requested(upstream[i])' = Requested(upstream[i])
      OBVIOUS
    <3>1. PICK byte : byte = upstream[i]
      OBVIOUS
    <3>2. Requested(byte)' = Requested(byte)
      BY <1>4, <2>1, <3>1
    <3>3. Requested(upstream[i])' = Requested(byte)'
      BY <1>2, <3>1 DEF Requested, Request, IsLast, Destination
    <3> QED BY <3>1, <3>2, <3>3
  <2> QED BY <1>2, <2>2 DEF RequestsIn
<1>6. AnswersIn(downstream)' = AnswersIn(downstream)
  <2>1. ASSUME NEW i \in DOMAIN downstream
        PROVE  downstream[i].m \in DOMAIN sent
    BY <1>1 DEF DownHeld
  <2>2. \A i \in DOMAIN downstream : Answer(downstream[i])' = Answer(downstream[i])
    <3> SUFFICES ASSUME NEW i \in DOMAIN downstream
                 PROVE  Answer(downstream[i])' = Answer(downstream[i])
      OBVIOUS
    <3>1. PICK byte : byte = downstream[i]
      OBVIOUS
    <3>2. Answer(byte)' = Answer(byte)
      BY <1>4, <2>1, <3>1
    <3>3. Answer(downstream[i])' = Answer(byte)'
      BY <1>2, <3>1 DEF Answer, Told, IsLast, Author, ForServer
    <3> QED BY <3>1, <3>2, <3>3
  <2> QED BY <1>2, <2>2 DEF AnswersIn
<1>7. AnswersIn(answers)' = AnswersIn(answers)
  <2>1. ASSUME NEW i \in DOMAIN answers
        PROVE  answers[i].m = 0 \/ answers[i].m \in DOMAIN sent
    BY <1>1 DEF ServedHeld, OnlyOf, Addressed
  <2>2. \A i \in DOMAIN answers : Answer(answers[i])' = Answer(answers[i])
    <3> SUFFICES ASSUME NEW i \in DOMAIN answers
                 PROVE  Answer(answers[i])' = Answer(answers[i])
      OBVIOUS
    <3>1. PICK byte : byte = answers[i]
      OBVIOUS
    <3>2. Answer(byte)' = Answer(byte)
      BY <1>4, <2>1, <3>1
    <3>3. Answer(answers[i])' = Answer(byte)'
      BY <1>2, <3>1 DEF Answer, Told, IsLast, Author, ForServer
    <3> QED BY <3>1, <3>2, <3>3
  <2> QED BY <1>2, <2>2 DEF AnswersIn
<1> DEFINE said == [m \in DOMAIN sent |-> [kind |-> sent[m], m |-> m, to |-> Destination(m)]]
           saidNext == [m \in DOMAIN sent' |-> [kind |-> sent'[m], m |-> m, to |-> Destination(m)']]
           requests == [kind : Kinds, m : 1 .. MaxMessages, to : {"server", "proxy", "refused"}]
<1>8. \E request \in requests : saidNext = Append(said, request)
  <2>1. PICK n : n = l + 1
    OBVIOUS
  <2>2. PICK to : to = Destination(n)'
    OBVIOUS
  <2> DEFINE request == [kind |-> kind, m |-> n, to |-> to]
  <2>3. request \in requests
    <3>1. n \in 1 .. MaxMessages
      BY <1>2, <1>4, <2>1, KindsAssumption
    <3>2. to \in {"server", "proxy", "refused"}
      BY <2>2 DEF Destination
    <3> QED BY <3>1, <3>2
  <2>4. saidNext = Append(said, request)
    <3>1. said \in Seq(RequestType) /\ Len(said) = l
      <4>1. l \in 0 .. l
        BY <1>4
      <4> QED BY <1>1, <4>1, SaidIs
    <3>2. DOMAIN Append(said, request) = 1 .. l + 1
      BY <3>1, <1>4
    <3>3. \A m \in 1 .. l : saidNext[m] = said[m]
      BY <1>4
    <3>4. saidNext[n] = request
      BY <1>4, <2>1, <2>2
    <3>10. request \in RequestType
      BY <1>3, <1>4, <2>1, <2>3 DEF RequestType, AnyKind
    <3> HIDE DEF said, request, saidNext
    <3>5. /\ Append(said, request)[l + 1] = request
          /\ \A m \in 1 .. l : Append(said, request)[m] = said[m]
      BY <3>1, <1>4
    <3>6. saidNext = [m \in 1 .. l + 1 |-> saidNext[m]]
      BY <1>4 DEF saidNext
    <3>7. Append(said, request) = [m \in 1 .. l + 1 |-> Append(said, request)[m]]
      <4> DEFINE longer == Append(said, request)
      <4>1. longer \in Seq(RequestType)
        BY <3>1, <3>10, AppendProperties
      <4> HIDE DEF longer
      <4>2. \E k \in Nat : longer \in [1 .. k -> RequestType]
        BY <4>1, SeqDef
      <4>3. longer = [m \in DOMAIN longer |-> longer[m]]
        BY <4>2
      <4> QED BY <3>2, <4>3 DEF longer
    <3>8. \A m \in 1 .. l + 1 : m \in 1 .. l \/ m = l + 1
      BY <1>4
    <3>9. \A m \in 1 .. l + 1 : saidNext[m] = Append(said, request)[m]
      BY <2>1, <3>3, <3>4, <3>5, <3>8
    <3> QED BY <3>6, <3>7, <3>9
  <2> QED BY <2>3, <2>4
<1>9. (closed' \/ (state' = "OutOfSyncState" /\ replacement' = Nothing))
        = (closed \/ (state = "OutOfSyncState" /\ replacement = Nothing))
  BY <1>2 DEF Nothing
<1> QED BY <1>5, <1>6, <1>7, <1>8, <1>9 DEF R!Say

LEMMA InitRelays == Init => R!Init
<1> SUFFICES ASSUME Init PROVE R!Init
  OBVIOUS
<1>1. /\ sent = <<>> /\ upstream = <<>> /\ downstream = <<>> /\ answers = <<>>
      /\ closed = FALSE /\ state = "InitState"
  BY DEF Init
<1>2. [m \in DOMAIN sent |-> [kind |-> sent[m], m |-> m, to |-> Destination(m)]] = <<>>
  BY <1>1
<1>3. RequestsIn(upstream) = <<>>
  <2>1. RequestsIn(upstream) = Collect(RequestOf, <<>>)
    BY <1>1, RequestsCollected, EmptySeq
  <2> QED BY <2>1, CollectNone
<1>4. AnswersIn(downstream) = <<>> /\ AnswersIn(answers) = <<>>
  <2>1. AnswersIn(<<>>) = Collect(AnswerOf, <<>>)
    BY AnswersCollected, EmptySeq
  <2> QED BY <1>1, <2>1, CollectNone
<1>5. (closed \/ (state = "OutOfSyncState" /\ replacement = Nothing)) = FALSE
  BY <1>1
<1> QED BY <1>2, <1>3, <1>4, <1>5 DEF R!Init

LEMMA NextRelays ==
  ASSUME Patient, RelayInv, [Next]_vars
  PROVE  R!Next \/ UNCHANGED R!relayVars
<1>1. RelayInv'
  BY NextRelay
<1>2. Shape /\ Streamed /\ OneUnderWay
  BY DEF RelayInv, SessionHeld
<1>3. CASE \E kind \in Kinds : ClientSends(kind)
  BY <1>3, SaysRequests DEF R!Next
<1>4. CASE ServerAnswers
  BY <1>4, TellsAnswers DEF R!Next
<1>5. CASE ~ (\E kind \in Kinds : ClientSends(kind)) /\ ~ServerAnswers /\ Shut
  BY <1>2, <1>5, ShutPassesNothing, ShutStutters
<1>6. CASE ~ (\E kind \in Kinds : ClientSends(kind)) /\ ~ServerAnswers /\ ~Shut
  BY <1>1, <1>2, <1>6, OutputsGrow, Passes DEF R!Next
<1> QED BY <1>3, <1>4, <1>5, <1>6

(* What the implementation rests on, for the client that waits: besides     *)
(* what RelayIsHeld says, the server has answered each message at most once *)
(* and only what it was sent, and the client gets all of the proxy's own    *)
(* answers once their message is taken off its buffer.                      *)
THEOREM AnswersAreAddressed ==
  ASSUME Patient
  PROVE  Spec => [](ServedHeld /\ OwnHeld)
<1>1. RelayInv /\ [Next]_vars => RelayInv'
  BY NextRelay
<1>2. RelayInv => ServedHeld /\ OwnHeld
  BY DEF RelayInv
<1> QED BY InitRelay, <1>1, <1>2, PTL DEF Spec

(* A connection whose client waits is a relay of two streams of messages,   *)
(* with the proxy's own answers in between, for every number of messages    *)
(* and however the network cuts them: onData and onWrite pass in order and  *)
(* once what is meant for the other side, and nothing after the shut.       *)
THEOREM ConnectionIsARelay ==
  ASSUME Patient
  PROVE  Spec => ConnectionRelays
<1>1. RelayInv /\ [Next]_vars => RelayInv'
  BY NextRelay
<1>2. RelayInv /\ [Next]_vars => R!Next \/ UNCHANGED R!relayVars
  BY NextRelays
<1> QED BY InitRelay, InitRelays, <1>1, <1>2, PTL DEF Spec, ConnectionRelays, R!Spec
=============================================================================
