--------------------------- MODULE ConnectionProofs ---------------------------
(***************************************************************************)
(* Theorems about Connection, for any messages, any answers of the server  *)
(* and any cut of the stream.                                              *)
(***************************************************************************)
EXTENDS Connection, SequenceTheorems, TLAPS

Lost == "OutOfSyncState"

(* The actions between two handlers, and those that start and end one, do   *)
(* not touch the state of the decoder.                                      *)
LEMMA PeersLeaveState ==
  ASSUME \/ \E kind \in Kinds : ClientSends(kind)
         \/ ClientReads \/ ServerAnswers
         \/ \E side \in Sides : Receive(side)
         \/ Finish \/ BytesSent
  PROVE  state' = state
<1>1. CASE \E kind \in Kinds : ClientSends(kind)
  BY <1>1 DEF ClientSends
<1>2. CASE ClientReads
  BY <1>2 DEF ClientReads
<1>3. CASE ServerAnswers
  BY <1>3 DEF ServerAnswers
<1>4. CASE \E side \in Sides : Receive(side)
  BY <1>4 DEF Receive
<1>5. CASE Finish
  BY <1>5 DEF Finish
<1>6. CASE BytesSent
  BY <1>6 DEF BytesSent
<1> QED
  BY <1>1, <1>2, <1>3, <1>4, <1>5, <1>6

(* Out of sync, the decoder only ignores what comes: every other turn of    *)
(* doDecode belongs to another state.                                       *)
LEMMA OnlyIgnored ==
  ASSUME state = Lost, Decode
  PROVE  Ignore
<1>1. ~TerminateSslRequest /\ ~PassEncrypted /\ ~StartInClear /\ ~StartNegotiation
  BY DEF Lost, TerminateSslRequest, PassEncrypted, StartInClear, StartNegotiation
<1>2. ~NegotiationDisturbed /\ ~NegotiationAnswered
  BY DEF Lost, NegotiationDisturbed, NegotiationAnswered
<1>3. ~LoseSync /\ ~RelayOrRefuse /\ ~RetainOrEmit
  BY DEF Lost, LoseSync, RelayOrRefuse, RetainOrEmit
<1> QED
  BY <1>1, <1>2, <1>3 DEF Decode

(* "Once the decoder enters OutOfSyncState it cannot leave that state"      *)
(* (postgres_decoder.cc, onDataIgnore).                                     *)
THEOREM OutOfSyncStays == Spec => OutOfSyncIsFinal
<1>1. ASSUME [Next]_vars
      PROVE  [state = Lost => state' = Lost]_vars
  <2> SUFFICES ASSUME Next, state = Lost
               PROVE  state' = Lost
    BY <1>1
  <2>1. CASE Decode
    BY <2>1, OnlyIgnored DEF Ignore
  <2>2. CASE ~Decode
    BY <2>2, PeersLeaveState DEF Next
  <2> QED
    BY <2>1, <2>2
<1> QED
  BY <1>1, PTL DEF Spec, OutOfSyncIsFinal, Lost
-----------------------------------------------------------------------------
(* What the proofs need to know of the types: the buffers are sequences of  *)
(* bytes, and the numbers are numbers.                                      *)
Piece == [kind : ClientKinds \union ServerKinds \union {"own_ssl"}, m : Nat,
          part : 1 .. 3]
TaggedPiece == [kind : ClientKinds \union ServerKinds \union {"own_ssl"}, m : Nat,
                part : 1 .. 3, tls : BOOLEAN]
Streams == [Sides -> Seq(Piece)]

Shape ==
  /\ config \in ConfigType
  /\ sent \in Seq(ClientKinds)
  /\ wire \in Streams /\ validation \in Streams /\ replacement \in Streams
  /\ tempStorage \in Seq(Piece) /\ retained \in Seq(Piece)
  /\ upstream \in Seq(TaggedPiece) /\ served \in Nat
  /\ handler \in Sides \union {"none"}
  /\ upstreamTls \in BOOLEAN

LEMMA BytesArePieces ==
  ASSUME NEW kind \in ClientKinds \union ServerKinds \union {"own_ssl"}, NEW m \in Nat
  PROVE  /\ Bytes(kind, m) \in Seq(Piece) /\ Len(Bytes(kind, m)) = 3
         /\ Byte(kind, m) \in Seq(Piece)
         /\ \A p \in 1 .. 3 : Bytes(kind, m)[p] = [kind |-> kind, m |-> m, part |-> p]
<1>1. Bytes(kind, m) \in [1 .. 3 -> Piece]
  BY DEF Bytes, Piece
<1>2. Bytes(kind, m) \in Seq(Piece)
  BY <1>1, SeqDef
<1>3. [kind |-> kind, m |-> m, part |-> 1] \in Piece
  BY DEF Piece
<1> QED BY <1>1, <1>2, <1>3, LenProperties DEF Bytes, Byte

LEMMA OverIsTagged ==
  ASSUME NEW tls \in BOOLEAN, NEW bytes \in Seq(Piece)
  PROVE  /\ Over(tls, bytes) \in Seq(TaggedPiece)
         /\ Len(Over(tls, bytes)) = Len(bytes)
         /\ \A i \in 1 .. Len(bytes) : /\ Over(tls, bytes)[i].kind = bytes[i].kind
                                       /\ Over(tls, bytes)[i].tls = tls
<1>1. DOMAIN bytes = 1 .. Len(bytes) /\ Len(bytes) \in Nat
  BY LenProperties
<1>2. \A i \in 1 .. Len(bytes) : bytes[i] \in Piece
  BY ElementOfSeq
<1>3. Over(tls, bytes) \in [1 .. Len(bytes) -> TaggedPiece]
  BY <1>1, <1>2 DEF Over, Piece, TaggedPiece
<1>4. Over(tls, bytes) \in Seq(TaggedPiece)
  BY <1>1, <1>3, SeqDef
<1>5. Len(Over(tls, bytes)) = Len(bytes)
  BY <1>1, <1>3, <1>4, LenProperties
<1> QED BY <1>1, <1>4, <1>5 DEF Over

(* Two streams, one behind the other.                                       *)
LEMMA JoinedUp ==
  ASSUME NEW S, NEW s \in Seq(S), NEW t \in Seq(S), NEW both, both = s \o t
  PROVE  /\ both \in Seq(S) /\ DOMAIN both = 1 .. Len(s) + Len(t)
         /\ Len(s) \in Nat /\ Len(t) \in Nat
         /\ DOMAIN s = 1 .. Len(s) /\ DOMAIN t = 1 .. Len(t)
         /\ \A i \in 1 .. Len(s) + Len(t) :
              both[i] = IF i <= Len(s) THEN s[i] ELSE t[i - Len(s)]
<1>1. both \in Seq(S) /\ Len(both) = Len(s) + Len(t)
  BY ConcatProperties
<1>2. DOMAIN both = 1 .. Len(both)
  BY <1>1, LenProperties
<1> QED BY <1>1, <1>2, ConcatProperties, LenProperties

LEMMA Regrouped ==
  ASSUME NEW first \in Seq(Piece), NEW second \in Seq(Piece), NEW third \in Seq(Piece)
  PROVE  (first \o second) \o third = first \o (second \o third)
BY ConcatAssociative

(* The rest of a sequence.                                                  *)
LEMMA Rest ==
  ASSUME NEW S, NEW s \in Seq(S), NEW n \in 0 .. Len(s)
  PROVE  /\ SubSeq(s, n + 1, Len(s)) \in Seq(S)
         /\ Len(SubSeq(s, n + 1, Len(s))) = Len(s) - n
         /\ \A i \in 1 .. Len(s) - n : SubSeq(s, n + 1, Len(s))[i] = s[n + i]
<1>1. Len(s) \in Nat
  BY LenProperties
<1>2. \A i \in n + 1 .. Len(s) : s[i] \in S
  BY <1>1, ElementOfSeq
<1> QED BY <1>1, <1>2, SubSeqProperties

LEMMA Beginning ==
  ASSUME NEW S, NEW s \in Seq(S), NEW n \in 0 .. Len(s)
  PROVE  SubSeq(s, 1, n) \in Seq(S)
<1>1. Len(s) \in Nat
  BY LenProperties
<1>2. \A i \in 1 .. n : s[i] \in S
  BY <1>1, ElementOfSeq
<1> QED BY <1>1, <1>2, SubSeqProperties

(* What doDecode does to the buffers.                                       *)
LEMMA Dropped ==
  ASSUME Shape, handler \in Sides,
         \/ DropAll
         \/ Drop(3) /\ Len(Buffer) >= 3
  PROVE  /\ validation' \in Streams
         /\ \A side \in Sides \ {handler} : validation'[side] = validation[side]
<1>1. Buffer \in Seq(Piece) /\ Len(Buffer) \in Nat /\ validation \in Streams
  BY LenProperties DEF Shape, Streams, Buffer
<1>2. CASE DropAll
  BY <1>1, <1>2, EmptySeq DEF DropAll, Streams
<1>3. CASE Drop(3) /\ Len(Buffer) >= 3
  <2>1. SubSeq(Buffer, 4, Len(Buffer)) \in Seq(Piece)
    BY <1>1, <1>3, Rest, 3 \in 0 .. Len(Buffer), 3 + 1 = 4
  <2>2. validation' = [validation EXCEPT ![handler] = SubSeq(Buffer, 4, Len(Buffer))]
    BY <1>3 DEF Drop, Buffer
  <2> QED BY <1>1, <2>1, <2>2 DEF Streams
<1> QED BY <1>2, <1>3

LEMMA Replaced ==
  ASSUME replacement \in Streams, NEW side \in Sides, NEW bytes \in Seq(Piece),
         Replace(side, bytes)
  PROVE  /\ replacement' \in Streams
         /\ replacement'[side] = replacement[side] \o bytes
         /\ \A other \in Sides \ {side} : replacement'[other] = replacement[other]
<1>1. replacement[side] \o bytes \in Seq(Piece)
  BY ConcatProperties DEF Streams
<1> QED BY <1>1 DEF Replace, Streams

(* A handler at a whole message.                                            *)
LEMMA WholeMessage ==
  ASSUME Shape, NEW side \in Sides, Readable(side)
  PROVE  /\ handler = side /\ handler \in Sides
         /\ Buffer \in Seq(Piece) /\ Len(Buffer) \in Nat /\ Len(Buffer) >= 3
         /\ Message \in Seq(Piece) /\ Len(Message) = 3
         /\ \A i \in 1 .. 3 : Message[i] = Buffer[i]
         /\ Current \in Piece /\ Current = Buffer[1]
<1>1. handler = side /\ handler \in Sides /\ Len(Buffer) >= 3
  BY DEF Readable
<1>2. Buffer \in Seq(Piece) /\ Len(Buffer) \in Nat
  BY <1>1, LenProperties DEF Shape, Streams, Buffer
<1>3. \A i \in 1 .. 3 : Buffer[i] \in Piece
  BY <1>1, <1>2, ElementOfSeq
<1>4. Message \in Seq(Piece) /\ Len(Message) = 3 /\ \A i \in 1 .. 3 : Message[i] = Buffer[i]
  BY <1>3, SubSeqProperties, 3 - 1 + 1 = 3 DEF Message
<1>5. Current = Buffer[1]
  BY <1>1, <1>2 DEF Current
<1> QED BY <1>1, <1>2, <1>3, <1>4, <1>5

-----------------------------------------------------------------------------
(* Every step keeps the shape.                                              *)
ShapeVars == <<config, sent, wire, validation, replacement, tempStorage, retained,
               upstream, served, handler, upstreamTls>>

LEMMA SameShape == Shape /\ UNCHANGED ShapeVars => Shape'
BY DEF Shape, ShapeVars, Streams

LEMMA InitShape == Init => Shape
<1> SUFFICES ASSUME Init PROVE Shape
  OBVIOUS
<1>1. config \in ConfigType
  BY ConfigAssumption DEF Init
<1>2. Nothing \in Streams /\ <<>> \in Seq(Piece) /\ <<>> \in Seq(TaggedPiece)
      /\ <<>> \in Seq(ClientKinds)
  BY EmptySeq DEF Nothing, Streams
<1> QED BY <1>1, <1>2 DEF Init, Shape

LEMMA RepliesArePieces ==
  ASSUME NEW kind, NEW m \in Nat, NEW reply \in Replies(kind, m)
  PROVE  reply \in Seq(Piece)
<1>1. \A r \in ServerKinds : Bytes(r, m) \in Seq(Piece) /\ Byte(r, m) \in Seq(Piece)
  BY BytesArePieces
<1>2. SslReplies \subseteq ServerKinds
  BY PeersAssumption DEF ServerKinds
<1>3. {"authreq", "ready", "row", "complete", "failed"} \subseteq ServerKinds
  BY DEF ServerKinds
<1>4. CASE kind \in {"own_ssl", "ssl", "gss"}
  BY <1>1, <1>2, <1>4 DEF Replies
<1>5. CASE kind \in {"startup", "password"}
  BY <1>1, <1>3, <1>5 DEF Replies
<1>6. CASE kind = "query"
  <2>1. /\ Bytes("row", m) \o Bytes("complete", m) \in Seq(Piece)
        /\ Bytes("failed", m) \o Bytes("ready", m) \in Seq(Piece)
    BY <1>1, <1>3, ConcatProperties
  <2>2. Bytes("row", m) \o Bytes("complete", m) \o Bytes("ready", m) \in Seq(Piece)
    BY <1>1, <1>3, <2>1, ConcatProperties
  <2> QED BY <1>6, <2>1, <2>2 DEF Replies
<1>7. CASE kind \notin {"own_ssl", "ssl", "gss", "startup", "password", "query"}
  BY <1>7, EmptySeq DEF Replies
<1> QED BY <1>4, <1>5, <1>6, <1>7

LEMMA PeersKeepShape ==
  ASSUME Shape,
         \/ \E kind \in Kinds : ClientSends(kind)
         \/ ClientReads \/ ServerAnswers
         \/ \E side \in Sides : Receive(side)
         \/ BytesSent
  PROVE  Shape'
<1>1. CASE \E kind \in Kinds : ClientSends(kind)
  <2>1. PICK kind \in Kinds : ClientSends(kind)
    BY <1>1
  <2>2. kind \in ClientKinds
    BY KindsAssumption
  <2>3. sent' \in Seq(ClientKinds) /\ Len(sent) + 1 \in Nat
    BY <2>1, <2>2, AppendProperties, LenProperties DEF ClientSends, Shape
  <2>4. wire["frontend"] \o Bytes(kind, Len(sent) + 1) \in Seq(Piece)
    BY <2>2, <2>3, BytesArePieces, ConcatProperties DEF Shape, Streams, Sides
  <2>5. wire' \in Streams
    BY <2>1, <2>4 DEF ClientSends, Shape, Streams
  <2>6. UNCHANGED <<config, validation, replacement, tempStorage, retained, upstream,
                    served, handler, upstreamTls>>
    BY <2>1 DEF ClientSends, server, buffers, outputs, transports
  <2> QED BY <2>3, <2>5, <2>6 DEF Shape
<1>2. CASE ClientReads
  BY <1>2, SameShape DEF ClientReads, ShapeVars, server, buffers, outputs, transports
<1>3. CASE ServerAnswers
  <2>1. upstream[served + 1] \in TaggedPiece /\ served' \in Nat
    <3>1. served + 1 \in 1 .. Len(upstream) /\ upstream \in Seq(TaggedPiece)
      BY <1>3, LenProperties DEF ServerAnswers, Shape
    <3> QED BY <1>3, <3>1, ElementOfSeq DEF ServerAnswers, Shape
  <2>2. PICK reply \in Replies(upstream[served + 1].kind, upstream[served + 1].m) :
          wire' = [wire EXCEPT !["backend"] = @ \o reply]
    BY <1>3 DEF ServerAnswers
  <2>3. reply \in Seq(Piece)
    BY <2>1, RepliesArePieces DEF TaggedPiece
  <2>4. wire["backend"] \o reply \in Seq(Piece)
    BY <2>3, ConcatProperties DEF Shape, Streams, Sides
  <2>5. wire' \in Streams
    BY <2>2, <2>4 DEF Shape, Streams
  <2>6. UNCHANGED <<config, sent, validation, replacement, tempStorage, retained,
                    upstream, handler, upstreamTls>>
    BY <1>3 DEF ServerAnswers, client, buffers, outputs, transports
  <2> QED BY <2>1, <2>5, <2>6 DEF Shape
<1>4. CASE \E side \in Sides : Receive(side)
  <2>1. PICK side \in Sides : Receive(side)
    BY <1>4
  <2>2. PICK n \in 1 .. Len(wire[side]) :
          /\ validation' = [validation EXCEPT ![side] = @ \o SubSeq(wire[side], 1, n)]
          /\ wire' = [wire EXCEPT ![side] = SubSeq(@, n + 1, Len(@))]
    BY <2>1 DEF Receive
  <2>3. wire[side] \in Seq(Piece) /\ validation[side] \in Seq(Piece)
        /\ n \in 0 .. Len(wire[side])
    BY LenProperties DEF Shape, Streams
  <2>4. /\ SubSeq(wire[side], 1, n) \in Seq(Piece)
        /\ SubSeq(wire[side], n + 1, Len(wire[side])) \in Seq(Piece)
    BY <2>3, Beginning, Rest
  <2>5. validation[side] \o SubSeq(wire[side], 1, n) \in Seq(Piece)
    BY <2>3, <2>4, ConcatProperties
  <2>6. validation' \in Streams /\ wire' \in Streams
    BY <2>2, <2>4, <2>5 DEF Shape, Streams
  <2>7. /\ UNCHANGED <<config, sent, replacement, tempStorage, retained, upstream,
                       served, upstreamTls>>
        /\ handler' \in Sides
    BY <2>1 DEF Receive, client, server, outputs, transports
  <2> QED BY <2>6, <2>7 DEF Shape
<1>5. CASE BytesSent
  BY <1>5, SameShape DEF BytesSent, ShapeVars, client, server, buffers, outputs
<1> QED BY <1>1, <1>2, <1>3, <1>4, <1>5

LEMMA FinishKeepsShape == Shape /\ Finish => Shape'
<1> SUFFICES ASSUME Shape, Finish PROVE Shape'
  OBVIOUS
<1>1. Over(upstreamTls, replacement["frontend"]) \in Seq(TaggedPiece)
  BY OverIsTagged DEF Shape, Streams, Sides
<1>2. upstream' \in Seq(TaggedPiece)
  BY <1>1, ConcatProperties DEF Finish, Shape
<1>3. Nothing \in Streams /\ [replacement EXCEPT !["backend"] = <<>>] \in Streams
  BY EmptySeq DEF Nothing, Shape, Streams
<1>4. replacement' \in Streams
  BY <1>3 DEF Finish
<1>5. handler' = "none"
  BY DEF Finish
<1>6. UNCHANGED <<config, sent, wire, validation, tempStorage, retained, served,
                  upstreamTls>>
  BY DEF Finish, client, server, transports
<1> QED BY <1>2, <1>4, <1>5, <1>6 DEF Shape

LEMMA Stopping ==
  ASSUME Shape, NEW rest, Stop(rest)
  PROVE  /\ replacement' \in Streams
         /\ replacement' = [replacement EXCEPT ![handler] = <<>>]
         /\ handler' = "none"
BY EmptySeq DEF Stop, Shape, Streams

(* The start-up of the connection.                                          *)
LEMMA StartKeepsShape ==
  ASSUME Shape,
         TerminateSslRequest \/ PassEncrypted \/ StartInClear \/ StartNegotiation
  PROVE  Shape'
<1>1. Readable("frontend") /\ "frontend" \in Sides
  BY DEF TerminateSslRequest, PassEncrypted, StartInClear, StartNegotiation, Sides
<1>2. Drop(3)
  BY DEF TerminateSslRequest, PassEncrypted, StartInClear, StartNegotiation
<1>3. validation' \in Streams
  BY <1>1, <1>2, WholeMessage, Dropped
<1>4. Message \in Seq(Piece) /\ Buffer \in Seq(Piece)
  BY <1>1, WholeMessage
<1>5. replacement' \in Streams /\ handler' \in Sides \union {"none"}
  <2>1. CASE TerminateSslRequest \/ StartNegotiation
    BY <2>1, Stopping DEF TerminateSslRequest, StartNegotiation
  <2>2. CASE PassEncrypted \/ StartInClear
    BY <1>1, <1>4, <2>2, Replaced DEF PassEncrypted, StartInClear, Shape
  <2> QED BY <2>1, <2>2
<1>6. tempStorage' \in Seq(Piece)
  BY <1>4, ConcatProperties
     DEF TerminateSslRequest, PassEncrypted, StartInClear, StartNegotiation, Shape
<1>7. upstream' \in Seq(TaggedPiece)
  <2>1. CASE StartNegotiation
    <3>1. Bytes("own_ssl", 0) \in Seq(Piece)
      BY BytesArePieces
    <3>2. Over(upstreamTls, Bytes("own_ssl", 0)) \in Seq(TaggedPiece)
      BY <3>1, OverIsTagged DEF Shape
    <3> QED BY <2>1, <3>2, ConcatProperties DEF StartNegotiation, Shape
  <2>2. CASE ~StartNegotiation
    BY <2>2 DEF TerminateSslRequest, PassEncrypted, StartInClear, Shape, outputs
  <2> QED BY <2>1, <2>2
<1>8. UNCHANGED <<config, sent, wire, retained, served, upstreamTls>>
  BY DEF TerminateSslRequest, PassEncrypted, StartInClear, StartNegotiation, client,
         server, transports
<1> QED BY <1>3, <1>5, <1>6, <1>7, <1>8 DEF Shape

(* The end of the negotiation, and what is thrown away.                     *)
LEMMA EndsKeepShape ==
  ASSUME Shape,
         NegotiationDisturbed \/ NegotiationAnswered \/ LoseSync \/ Ignore
  PROVE  Shape'
<1>1. handler \in Sides
  BY DEF NegotiationDisturbed, NegotiationAnswered, LoseSync, Ignore, Running, Shape,
         Sides
<1>2. DropAll
  BY DEF NegotiationDisturbed, NegotiationAnswered, LoseSync, Ignore
<1>3. validation' \in Streams
  BY <1>1, <1>2, Dropped
<1>4. CASE NegotiationAnswered
  <2>1. replacement' \in Streams /\ handler' \in Sides \union {"none"}
    BY <1>4, Stopping DEF NegotiationAnswered
  <2>2. EncryptUpstream \/ GiveUpUpstream
    BY <1>4 DEF NegotiationAnswered
  <2>3. Over(TRUE, tempStorage) \in Seq(TaggedPiece)
    BY OverIsTagged DEF Shape
  <2>4. /\ upstream' \in Seq(TaggedPiece) /\ tempStorage' \in Seq(Piece)
        /\ upstreamTls' \in BOOLEAN
    <3>1. CASE EncryptUpstream
      <4>1. upstream \o Over(TRUE, tempStorage) \in Seq(TaggedPiece)
        BY <2>3, ConcatProperties DEF Shape
      <4> QED BY <3>1, <4>1, EmptySeq DEF EncryptUpstream
    <3>2. CASE GiveUpUpstream
      BY <3>2 DEF GiveUpUpstream, Shape
    <3> QED BY <2>2, <3>1, <3>2
  <2>5. UNCHANGED <<config, sent, wire, retained, served>>
    BY <1>4 DEF NegotiationAnswered, client, server
  <2> QED BY <1>3, <2>1, <2>4, <2>5 DEF Shape
<1>5. CASE NegotiationDisturbed \/ LoseSync \/ Ignore
  <2>1. UNCHANGED <<config, sent, wire, replacement, tempStorage, retained, upstream,
                    served, handler, upstreamTls>>
    BY <1>5 DEF NegotiationDisturbed, LoseSync, Ignore, client, server, outputs,
                transports
  <2> QED BY <1>3, <2>1 DEF Shape
<1> QED BY <1>4, <1>5

LEMMA RelayKeepsShape == Shape /\ RelayOrRefuse => Shape'
<1> SUFFICES ASSUME Shape, RelayOrRefuse PROVE Shape'
  OBVIOUS
<1>1. Readable("frontend") /\ Drop(3) /\ "frontend" \in Sides /\ "backend" \in Sides
  BY DEF RelayOrRefuse, Sides
<1>2. validation' \in Streams
  BY <1>1, WholeMessage, Dropped
<1>3. Message \in Seq(Piece) /\ Current \in Piece
  BY <1>1, WholeMessage
<1>4. Bytes("failed", Current.m) \o Bytes("ready", Current.m) \in Seq(Piece)
  <2>1. "failed" \in ServerKinds /\ "ready" \in ServerKinds /\ Current.m \in Nat
    BY <1>3 DEF ServerKinds, Piece
  <2>2. /\ Bytes("failed", Current.m) \in Seq(Piece)
        /\ Bytes("ready", Current.m) \in Seq(Piece)
    BY <2>1, BytesArePieces
  <2> QED BY <2>2, ConcatProperties
<1>5. replacement' \in Streams
  <2>1. \/ Replace("backend", Bytes("failed", Current.m) \o Bytes("ready", Current.m))
        \/ Replace("frontend", Message)
    BY DEF RelayOrRefuse
  <2> QED BY <1>1, <1>3, <1>4, <2>1, Replaced DEF Shape
<1>6. retained' \in Seq(Piece)
  BY EmptySeq DEF RelayOrRefuse, Shape
<1>7. UNCHANGED <<config, sent, wire, tempStorage, upstream, served, handler,
                  upstreamTls>>
  BY DEF RelayOrRefuse, client, server, outputs, transports
<1> QED BY <1>2, <1>5, <1>6, <1>7 DEF Shape

LEMMA RetainKeepsShape == Shape /\ RetainOrEmit => Shape'
<1> SUFFICES ASSUME Shape, RetainOrEmit PROVE Shape'
  OBVIOUS
<1>1. Readable("backend") /\ Drop(3) /\ "backend" \in Sides
  BY DEF RetainOrEmit, Sides
<1>2. validation' \in Streams
  BY <1>1, WholeMessage, Dropped
<1>3. Message \in Seq(Piece) /\ retained \in Seq(Piece)
  BY <1>1, WholeMessage DEF Shape
<1>4. retained \o Message \in Seq(Piece)
  BY <1>3, ConcatProperties
<1>5. \/ replacement' = replacement
      \/ Replace("backend", retained \o Message)
      \/ Replace("backend", Message)
  BY DEF RetainOrEmit
<1>6. replacement' \in Streams
  BY <1>1, <1>3, <1>4, <1>5, Replaced DEF Shape
<1>7. retained' \in Seq(Piece)
  BY <1>3, <1>4, EmptySeq DEF RetainOrEmit
<1>8. UNCHANGED <<config, sent, wire, tempStorage, upstream, served, handler,
                  upstreamTls>>
  BY DEF RetainOrEmit, client, server, outputs, transports
<1> QED BY <1>2, <1>6, <1>7, <1>8 DEF Shape

LEMMA NextKeepsShape == Shape /\ [Next]_vars => Shape'
<1> SUFFICES ASSUME Shape, [Next]_vars PROVE Shape'
  OBVIOUS
<1>1. CASE Decode
  BY <1>1, StartKeepsShape, EndsKeepShape, RelayKeepsShape, RetainKeepsShape DEF Decode
<1>2. CASE Finish
  BY <1>2, FinishKeepsShape
<1>3. CASE \/ \E kind \in Kinds : ClientSends(kind)
           \/ ClientReads \/ ServerAnswers
           \/ \E side \in Sides : Receive(side)
           \/ BytesSent
  BY <1>3, PeersKeepShape
<1>4. CASE UNCHANGED vars
  BY <1>4, SameShape
     DEF vars, ShapeVars, client, server, buffers, outputs, transports
<1> QED BY <1>1, <1>2, <1>3, <1>4 DEF Next

-----------------------------------------------------------------------------
(* Messages in a stream of bytes.                                           *)

LEMMA MessageAppended ==
  ASSUME NEW bytes \in Seq(Piece), InMessages(bytes), NEW m \in Nat,
         NEW kind \in ClientKinds \union ServerKinds \union {"own_ssl"}
  PROVE  InMessages(bytes \o Bytes(kind, m))
<1> DEFINE next == Bytes(kind, m)
           all == bytes \o next
<1>1. /\ next \in Seq(Piece) /\ Len(next) = 3
      /\ next[1] = [kind |-> kind, m |-> m, part |-> 1]
      /\ next[2] = [kind |-> kind, m |-> m, part |-> 2]
      /\ next[3] = [kind |-> kind, m |-> m, part |-> 3]
  BY BytesArePieces
<1>2. /\ all \in Seq(Piece) /\ Len(all) = Len(bytes) + 3 /\ DOMAIN all = 1 .. Len(bytes) + 3
      /\ Len(bytes) \in Nat /\ DOMAIN bytes = 1 .. Len(bytes)
      /\ \A i \in 1 .. Len(bytes) + 3 :
           all[i] = IF i <= Len(bytes) THEN bytes[i] ELSE next[i - Len(bytes)]
  <2> HIDE DEF next
  <2>1. Len(bytes) \in Nat /\ DOMAIN bytes = 1 .. Len(bytes)
    BY LenProperties
  <2>2. /\ all \in Seq(Piece) /\ Len(all) = Len(bytes) + Len(next)
        /\ \A i \in 1 .. Len(bytes) + Len(next) :
             all[i] = IF i <= Len(bytes) THEN bytes[i] ELSE next[i - Len(bytes)]
    BY <1>1, ConcatProperties
  <2> HIDE DEF all
  <2>3. DOMAIN all = 1 .. Len(all)
    BY <2>2, LenProperties
  <2> QED BY <1>1, <2>1, <2>2, <2>3
<1> HIDE DEF next, all
<1>3. SUFFICES ASSUME NEW i \in DOMAIN all
               PROVE  /\ i = 1 => all[i].part = 1
                      /\ all[i].part = 1 => /\ i + 2 \in DOMAIN all
                                            /\ all[i + 1].kind = all[i].kind
                                            /\ all[i + 2].kind = all[i].kind
                                            /\ all[i + 2].part = 3
                      /\ all[i].part = 3 /\ i + 1 \in DOMAIN all => all[i + 1].part = 1
                      /\ all[i].part # 3 => i + 1 \in DOMAIN all
  BY DEF InMessages, next, all
<1>4. /\ all[Len(bytes) + 1] = next[1] /\ all[Len(bytes) + 2] = next[2]
      /\ all[Len(bytes) + 3] = next[3]
  BY <1>2
<1>5. CASE i <= Len(bytes)
  <2>1. i \in DOMAIN bytes /\ all[i] = bytes[i]
    BY <1>2, <1>5
  <2>2. i = 1 => all[i].part = 1
    BY <2>1 DEF InMessages
  <2>3. ASSUME all[i].part = 1
        PROVE  /\ i + 2 \in DOMAIN all /\ all[i + 1].kind = all[i].kind
               /\ all[i + 2].kind = all[i].kind /\ all[i + 2].part = 3
    <3>1. /\ i + 2 \in DOMAIN bytes /\ bytes[i + 1].kind = bytes[i].kind
          /\ bytes[i + 2].kind = bytes[i].kind /\ bytes[i + 2].part = 3
      BY <2>1, <2>3 DEF InMessages
    <3>2. all[i + 1] = bytes[i + 1] /\ all[i + 2] = bytes[i + 2] /\ i + 2 \in DOMAIN all
      BY <1>2, <2>1, <3>1
    <3> QED BY <2>1, <3>1, <3>2
  <2>4. ASSUME all[i].part = 3, i + 1 \in DOMAIN all
        PROVE  all[i + 1].part = 1
    <3>1. CASE i = Len(bytes)
      BY <1>1, <1>4, <3>1
    <3>2. CASE i # Len(bytes)
      <4>1. i + 1 \in DOMAIN bytes /\ all[i + 1] = bytes[i + 1]
        BY <1>2, <1>5, <2>1, <3>2
      <4> QED BY <2>1, <2>4, <4>1 DEF InMessages
    <3> QED BY <3>1, <3>2
  <2>5. i + 1 \in DOMAIN all
    BY <1>2, <1>5
  <2> QED BY <2>2, <2>3, <2>4, <2>5
<1>6. CASE i = Len(bytes) + 1
  <2>1. i + 1 = Len(bytes) + 2 /\ i + 2 = Len(bytes) + 3
    BY <1>2, <1>6
  <2>2. all[i].part = 1 /\ all[i].kind = kind /\ all[i + 1].kind = kind
        /\ all[i + 2].kind = kind /\ all[i + 2].part = 3
    BY <1>1, <1>4, <1>6, <2>1
  <2> QED BY <1>2, <1>6, <2>1, <2>2
<1>7. CASE i = Len(bytes) + 2
  BY <1>1, <1>2, <1>4, <1>7
<1>8. CASE i = Len(bytes) + 3
  BY <1>1, <1>2, <1>4, <1>8
<1> QED BY <1>2, <1>5, <1>6, <1>7, <1>8

(* The first three bytes are one message, and what follows are messages.    *)
LEMMA MessageTaken ==
  ASSUME NEW bytes \in Seq(Piece), NEW later \in Seq(Piece), Len(bytes) >= 3,
         InMessages(bytes \o later)
  PROVE  /\ InMessages(SubSeq(bytes, 4, Len(bytes)) \o later)
         /\ bytes[2].kind = bytes[1].kind /\ bytes[3].kind = bytes[1].kind
<1> DEFINE all == bytes \o later
           rest == SubSeq(bytes, 4, Len(bytes))
           left == rest \o later
<1>1. /\ Len(bytes) \in Nat /\ Len(later) \in Nat
      /\ all \in Seq(Piece) /\ DOMAIN all = 1 .. Len(bytes) + Len(later)
      /\ \A i \in 1 .. Len(bytes) + Len(later) :
           all[i] = IF i <= Len(bytes) THEN bytes[i] ELSE later[i - Len(bytes)]
  BY ConcatProperties, LenProperties
<1>2. /\ rest \in Seq(Piece) /\ Len(rest) = Len(bytes) - 3
      /\ \A i \in 1 .. Len(bytes) - 3 : rest[i] = bytes[3 + i]
  <2>1. 3 \in 0 .. Len(bytes) /\ 3 + 1 = 4
    BY <1>1
  <2> QED BY <2>1, Rest
<1>3. /\ left \in Seq(Piece) /\ DOMAIN left = 1 .. Len(bytes) - 3 + Len(later)
      /\ \A i \in 1 .. Len(bytes) - 3 + Len(later) :
           left[i] = IF i <= Len(bytes) - 3 THEN rest[i] ELSE later[i - (Len(bytes) - 3)]
  BY <1>1, <1>2, ConcatProperties, LenProperties
<1>4. InMessages(all)
  OBVIOUS
<1> HIDE DEF all, rest, left
<1>5. /\ 1 \in DOMAIN all /\ 3 \in DOMAIN all /\ all[1] = bytes[1] /\ all[2] = bytes[2]
      /\ all[3] = bytes[3]
  BY <1>1
<1>6. /\ all[1].part = 1 /\ all[2].kind = all[1].kind /\ all[3].kind = all[1].kind
      /\ all[3].part = 3
  <2>1. all[1].part = 1
    BY <1>4, <1>5 DEF InMessages
  <2>2. all[1 + 1].kind = all[1].kind /\ all[1 + 2].kind = all[1].kind /\ all[1 + 2].part = 3
    BY <1>4, <1>5, <2>1 DEF InMessages
  <2> QED BY <2>1, <2>2
<1>7. ASSUME NEW i \in DOMAIN left
      PROVE  i \in Int /\ i + 3 \in DOMAIN all /\ left[i] = all[i + 3]
  <2>1. i \in 1 .. Len(bytes) - 3 + Len(later) /\ i + 3 \in 1 .. Len(bytes) + Len(later)
    BY <1>1, <1>3
  <2>2. CASE i <= Len(bytes) - 3
    <3>1. left[i] = rest[i] /\ i \in 1 .. Len(bytes) - 3
      BY <1>1, <1>3, <2>1, <2>2
    <3>2. rest[i] = bytes[3 + i] /\ 3 + i = i + 3
      BY <1>1, <1>2, <3>1
    <3>3. all[i + 3] = bytes[i + 3]
      BY <1>1, <2>1, <2>2
    <3> QED BY <1>1, <2>1, <3>1, <3>2, <3>3
  <2>3. CASE ~(i <= Len(bytes) - 3)
    <3>1. left[i] = later[i - (Len(bytes) - 3)]
      BY <1>3, <2>1, <2>3
    <3>2. all[i + 3] = later[(i + 3) - Len(bytes)]
      BY <1>1, <2>1, <2>3
    <3>3. i - (Len(bytes) - 3) = (i + 3) - Len(bytes)
      BY <1>1, <2>1
    <3> QED BY <1>1, <2>1, <3>1, <3>2, <3>3
  <2> QED BY <2>2, <2>3
<1>8. ASSUME NEW i \in Int, i + 3 \in DOMAIN all, i >= 1
      PROVE  i \in DOMAIN left
  BY <1>1, <1>3, <1>8
<1>9. ASSUME NEW i \in DOMAIN left
      PROVE  /\ i = 1 => left[i].part = 1
             /\ left[i].part = 1 => /\ i + 2 \in DOMAIN left
                                    /\ left[i + 1].kind = left[i].kind
                                    /\ left[i + 2].kind = left[i].kind
                                    /\ left[i + 2].part = 3
             /\ left[i].part = 3 /\ i + 1 \in DOMAIN left => left[i + 1].part = 1
             /\ left[i].part # 3 => i + 1 \in DOMAIN left
  <2>1. i \in Int /\ i + 3 \in DOMAIN all /\ left[i] = all[i + 3]
    BY <1>3, <1>7
  <2>2. i = 1 => left[i].part = 1
    <3>1. i = 1 => 3 + 1 \in DOMAIN all /\ left[i] = all[3 + 1]
      BY <2>1
    <3>2. 3 \in DOMAIN all /\ all[3].part = 3
      BY <1>5, <1>6
    <3>3. 3 + 1 \in DOMAIN all => all[3 + 1].part = 1
      BY <1>4, <3>2 DEF InMessages
    <3> QED BY <3>1, <3>3
  <2>3. ASSUME left[i].part = 1
        PROVE  /\ i + 2 \in DOMAIN left /\ left[i + 1].kind = left[i].kind
               /\ left[i + 2].kind = left[i].kind /\ left[i + 2].part = 3
    <3>1. /\ (i + 3) + 2 \in DOMAIN all /\ all[(i + 3) + 1].kind = all[i + 3].kind
          /\ all[(i + 3) + 2].kind = all[i + 3].kind /\ all[(i + 3) + 2].part = 3
      BY <1>4, <2>1, <2>3 DEF InMessages
    <3>2. i + 2 \in DOMAIN left /\ i + 1 \in DOMAIN left
      <4>1. /\ i \in Int /\ i >= 1 /\ i + 2 \in Int /\ i + 1 \in Int
            /\ (i + 2) + 3 \in DOMAIN all /\ (i + 1) + 3 \in DOMAIN all
        BY <1>1, <1>3, <2>1, <3>1
      <4> QED BY <1>8, <4>1
    <3>3. left[i + 1] = all[(i + 1) + 3] /\ left[i + 2] = all[(i + 2) + 3]
      BY <1>7, <3>2
    <3>4. (i + 1) + 3 = (i + 3) + 1 /\ (i + 2) + 3 = (i + 3) + 2
      BY <2>1
    <3> QED BY <2>1, <3>1, <3>2, <3>3, <3>4
  <2>4. ASSUME left[i].part = 3, i + 1 \in DOMAIN left
        PROVE  left[i + 1].part = 1
    <3>1. (i + 1) + 3 \in DOMAIN all /\ left[i + 1] = all[(i + 1) + 3]
      BY <1>7, <2>4
    <3>2. (i + 1) + 3 = (i + 3) + 1
      BY <2>1
    <3> QED BY <1>4, <2>1, <2>4, <3>1, <3>2 DEF InMessages
  <2>5. ASSUME left[i].part # 3
        PROVE  i + 1 \in DOMAIN left
    <3>1. (i + 3) + 1 \in DOMAIN all
      BY <1>4, <2>1, <2>5 DEF InMessages
    <3>2. /\ i \in Int /\ i >= 1 /\ i + 1 \in Int /\ i + 1 >= 1
          /\ (i + 1) + 3 \in DOMAIN all
      BY <1>1, <1>3, <2>1, <3>1
    <3> QED BY <1>8, <3>2
  <2> QED BY <2>2, <2>3, <2>4, <2>5
<1>10. InMessages(left)
  BY <1>9 DEF InMessages
<1> QED BY <1>5, <1>6, <1>10 DEF left, rest

-----------------------------------------------------------------------------
(* A session is encrypted on its way to the server.                         *)

LEMMA InitHeld == Init => EncryptionHeld
<1> SUFFICES ASSUME Init PROVE EncryptionHeld
  OBVIOUS
<1>1. validation["frontend"] = <<>> /\ wire["frontend"] = <<>> /\ replacement["frontend"] = <<>>
  BY DEF Init, Nothing, Sides
<1>2. InMessages(<<>> \o <<>>)
  <2>1. <<>> \in Seq(Piece) /\ <<>> \o <<>> = <<>>
    BY EmptySeq, ConcatEmptySeq
  <2>2. DOMAIN <<>> = {}
    OBVIOUS
  <2> QED BY <2>1, <2>2 DEF InMessages
<1>3. DOMAIN <<>> = {} /\ upstream = <<>> /\ state = "InitState"
  BY DEF Init
<1> QED BY <1>1, <1>2, <1>3 DEF EncryptionHeld, SessionIsEncrypted

(* What EncryptionHeld depends on.                                          *)
HeldVars == <<config, state, validation["frontend"], wire["frontend"],
              replacement["frontend"], upstream, upstreamTls>>

LEMMA CoverKept ==
  ASSUME EncryptionHeld,
         UNCHANGED <<config, state, replacement["frontend"], upstream, upstreamTls>>,
         state \in {"InitState", "NegotiatingUpstreamSSL"} =>
           InMessages(validation'["frontend"] \o wire'["frontend"])
  PROVE  EncryptionHeld'
<1>1. SessionIsEncrypted'
  BY DEF EncryptionHeld, SessionIsEncrypted, Secret
<1>2. (config.upstreamSsl = "REQUIRE" =>
        /\ state = "InSyncState" => upstreamTls
        /\ ~upstreamTls => \A i \in DOMAIN replacement["frontend"] :
                             ~Secret(replacement["frontend"][i]))'
  BY DEF EncryptionHeld, Secret
<1>3. (state \in {"InitState", "NegotiatingUpstreamSSL"} =>
        InMessages(validation["frontend"] \o wire["frontend"]))'
  BY DEF InMessages
<1> QED BY <1>1, <1>2, <1>3 DEF EncryptionHeld

LEMMA SameHeld == EncryptionHeld /\ UNCHANGED HeldVars => EncryptionHeld'
<1> SUFFICES ASSUME EncryptionHeld, UNCHANGED HeldVars PROVE EncryptionHeld'
  OBVIOUS
<1>1. UNCHANGED <<config, state, validation["frontend"], wire["frontend"],
                  replacement["frontend"], upstream, upstreamTls>>
  BY DEF HeldVars
<1>2. state \in {"InitState", "NegotiatingUpstreamSSL"} =>
        InMessages(validation'["frontend"] \o wire'["frontend"])
  BY <1>1 DEF EncryptionHeld
<1> QED BY <1>1, <1>2, CoverKept

LEMMA ClientSendsHeld ==
  ASSUME Shape, EncryptionHeld, NEW kind \in Kinds, ClientSends(kind)
  PROVE  EncryptionHeld'
<1>1. UNCHANGED <<config, state, validation, replacement, upstream, upstreamTls>>
  BY DEF ClientSends, buffers, outputs, transports
<1>2. ASSUME state \in {"InitState", "NegotiatingUpstreamSSL"}
      PROVE  InMessages(validation'["frontend"] \o wire'["frontend"])
  <2>1. kind \in ClientKinds /\ Len(sent) + 1 \in Nat
    BY KindsAssumption, LenProperties DEF Shape
  <2>2. /\ Bytes(kind, Len(sent) + 1) \in Seq(Piece)
        /\ validation["frontend"] \in Seq(Piece) /\ wire["frontend"] \in Seq(Piece)
    BY <2>1, BytesArePieces DEF Shape, Streams, Sides
  <2>3. wire'["frontend"] = wire["frontend"] \o Bytes(kind, Len(sent) + 1)
    BY DEF ClientSends, Shape, Streams, Sides
  <2>4. validation'["frontend"] \o wire'["frontend"]
          = (validation["frontend"] \o wire["frontend"]) \o Bytes(kind, Len(sent) + 1)
    <3>1. (validation["frontend"] \o wire["frontend"]) \o Bytes(kind, Len(sent) + 1)
            = validation["frontend"] \o (wire["frontend"] \o Bytes(kind, Len(sent) + 1))
      BY <2>2, Regrouped
    <3> QED BY <1>1, <2>3, <3>1
  <2>5. validation["frontend"] \o wire["frontend"] \in Seq(Piece)
    BY <2>2, ConcatProperties
  <2>6. InMessages(validation["frontend"] \o wire["frontend"])
    BY <1>2 DEF EncryptionHeld
  <2> QED BY <2>1, <2>4, <2>5, <2>6, MessageAppended
<1> QED BY <1>1, <1>2, CoverKept DEF EncryptionHeld

LEMMA ReceiveHeld ==
  ASSUME Shape, EncryptionHeld, NEW side \in Sides, Receive(side)
  PROVE  EncryptionHeld'
<1>1. UNCHANGED <<config, state, replacement, upstream, upstreamTls>>
  BY DEF Receive, outputs, transports
<1>2. PICK n \in 1 .. Len(wire[side]) :
        /\ validation' = [validation EXCEPT ![side] = @ \o SubSeq(wire[side], 1, n)]
        /\ wire' = [wire EXCEPT ![side] = SubSeq(@, n + 1, Len(@))]
  BY DEF Receive
<1>3. CASE side # "frontend"
  <2>1. UNCHANGED <<validation["frontend"], wire["frontend"]>>
    BY <1>2, <1>3 DEF Shape, Streams, Sides
  <2> QED BY <1>1, <2>1, SameHeld DEF HeldVars
<1>4. CASE side = "frontend"
  <2> DEFINE old == validation["frontend"]
             way == wire["frontend"]
  <2>1. old \in Seq(Piece) /\ way \in Seq(Piece) /\ Len(way) \in Nat
        /\ n \in 1 .. Len(way)
    BY <1>2, <1>4, LenProperties DEF Shape, Streams, Sides
  <2>2. /\ SubSeq(way, 1, n) \in Seq(Piece)
        /\ SubSeq(way, n + 1, Len(way)) \in Seq(Piece)
    BY <2>1, Beginning, Rest
  <2>3. /\ validation'["frontend"] = old \o SubSeq(way, 1, n)
        /\ wire'["frontend"] = SubSeq(way, n + 1, Len(way))
    BY <1>2, <1>4 DEF Shape, Streams, Sides
  <2>4. SubSeq(way, 1, n) \o SubSeq(way, n + 1, Len(way)) = way
    <3>1. /\ 1 \in 1 .. Len(way) + 1 /\ n \in 1 - 1 .. Len(way)
          /\ Len(way) \in n .. Len(way)
      BY <2>1
    <3>2. SubSeq(way, 1, n) \o SubSeq(way, n + 1, Len(way)) = SubSeq(way, 1, Len(way))
      BY <2>1, <3>1, ConcatAdjacentSubSeq
    <3> QED BY <2>1, <3>2, SubSeqFull
  <2> HIDE DEF old, way
  <2>5. validation'["frontend"] \o wire'["frontend"] = old \o way
    <3>1. (old \o SubSeq(way, 1, n)) \o SubSeq(way, n + 1, Len(way))
            = old \o (SubSeq(way, 1, n) \o SubSeq(way, n + 1, Len(way)))
      BY <2>1, <2>2, Regrouped
    <3> QED BY <2>3, <2>4, <3>1
  <2>6. state \in {"InitState", "NegotiatingUpstreamSSL"} => InMessages(old \o way)
    BY DEF EncryptionHeld, old, way
  <2> QED BY <1>1, <2>5, <2>6, CoverKept
<1> QED BY <1>3, <1>4

LEMMA FinishHeld == Shape /\ EncryptionHeld /\ Finish => EncryptionHeld'
<1> SUFFICES ASSUME Shape, EncryptionHeld, Finish PROVE EncryptionHeld'
  OBVIOUS
<1>1. UNCHANGED <<config, state, validation, wire, upstreamTls>>
  BY DEF Finish, transports
<1>2. CASE handler # "frontend"
  <2>1. UNCHANGED upstream /\ replacement' = [replacement EXCEPT !["backend"] = <<>>]
    BY <1>2 DEF Finish
  <2>2. replacement'["frontend"] = replacement["frontend"]
    BY <2>1 DEF Shape, Streams, Sides
  <2> QED BY <1>1, <2>1, <2>2, SameHeld DEF HeldVars
<1>3. CASE handler = "frontend"
  <2> DEFINE waiting == replacement["frontend"]
             over == Over(upstreamTls, waiting)
  <2>1. upstream' = upstream \o over /\ replacement' = Nothing
    BY <1>3 DEF Finish
  <2>2. replacement'["frontend"] = <<>> /\ DOMAIN <<>> = {}
    BY <2>1 DEF Nothing, Sides
  <2>3. waiting \in Seq(Piece) /\ Len(waiting) \in Nat /\ upstream \in Seq(TaggedPiece)
        /\ DOMAIN waiting = 1 .. Len(waiting)
    BY LenProperties DEF Shape, Streams, Sides
  <2>4. /\ over \in Seq(TaggedPiece) /\ Len(over) = Len(waiting)
        /\ \A i \in 1 .. Len(waiting) : over[i].kind = waiting[i].kind
                                        /\ over[i].tls = upstreamTls
    BY <2>3, OverIsTagged DEF Shape
  <2> HIDE DEF waiting, over
  <2>5. ASSUME config.upstreamSsl = "REQUIRE", NEW i \in DOMAIN upstream',
               Secret(upstream'[i])
        PROVE  upstream'[i].tls
    <3>1. /\ Len(upstream) \in Nat /\ DOMAIN upstream = 1 .. Len(upstream)
          /\ i \in 1 .. Len(upstream) + Len(waiting)
          /\ upstream'[i] = IF i <= Len(upstream) THEN upstream[i]
                                                  ELSE over[i - Len(upstream)]
      BY <2>1, <2>3, <2>4, <2>5, JoinedUp
    <3>2. CASE i <= Len(upstream)
      BY <2>5, <3>1, <3>2 DEF EncryptionHeld, SessionIsEncrypted
    <3>3. CASE ~(i <= Len(upstream))
      <4>1. i - Len(upstream) \in 1 .. Len(waiting) /\ upstream'[i] = over[i - Len(upstream)]
        BY <2>3, <3>1, <3>3
      <4>2. /\ upstream'[i].kind = waiting[i - Len(upstream)].kind
            /\ upstream'[i].tls = upstreamTls
        BY <2>4, <4>1
      <4>3. Secret(waiting[i - Len(upstream)]) /\ i - Len(upstream) \in DOMAIN waiting
        BY <2>3, <2>5, <4>1, <4>2 DEF Secret
      <4>4. upstreamTls
        BY <2>5, <4>3 DEF EncryptionHeld, waiting
      <4> QED BY <4>2, <4>4
    <3> QED BY <3>2, <3>3
  <2> QED BY <1>1, <2>2, <2>5 DEF EncryptionHeld, SessionIsEncrypted
<1> QED BY <1>2, <1>3

(* Bytes sent to the server one behind the other.                           *)
LEMMA SentHeld ==
  ASSUME Shape, SessionIsEncrypted, config' = config,
         NEW bytes \in Seq(TaggedPiece),
         upstream' = upstream \o bytes,
         \A i \in DOMAIN bytes : Secret(bytes[i]) => bytes[i].tls
  PROVE  SessionIsEncrypted'
<1> SUFFICES ASSUME config.upstreamSsl = "REQUIRE", NEW i \in DOMAIN upstream',
                    Secret(upstream'[i])
             PROVE  upstream'[i].tls
  BY DEF SessionIsEncrypted, Secret
<1>1. /\ Len(upstream) \in Nat /\ DOMAIN upstream = 1 .. Len(upstream)
      /\ Len(bytes) \in Nat /\ DOMAIN bytes = 1 .. Len(bytes)
      /\ i \in 1 .. Len(upstream) + Len(bytes)
      /\ upstream'[i] = IF i <= Len(upstream) THEN upstream[i] ELSE bytes[i - Len(upstream)]
  <2>1. upstream \in Seq(TaggedPiece)
    BY DEF Shape
  <2> QED BY <2>1, JoinedUp
<1>2. CASE i <= Len(upstream)
  BY <1>1, <1>2 DEF SessionIsEncrypted
<1>3. CASE ~(i <= Len(upstream))
  <2>1. i - Len(upstream) \in DOMAIN bytes /\ upstream'[i] = bytes[i - Len(upstream)]
    BY <1>1, <1>3
  <2> QED BY <2>1
<1> QED BY <1>2, <1>3

LEMMA DroppedKeepsMessages ==
  ASSUME Shape, EncryptionHeld, Readable("frontend"), Drop(3), wire' = wire,
         state \in {"InitState", "NegotiatingUpstreamSSL"}
  PROVE  /\ InMessages(validation'["frontend"] \o wire'["frontend"])
         /\ \A i \in 1 .. 3 : Message[i].kind = Current.kind
<1>1. /\ handler = "frontend" /\ Buffer = validation["frontend"]
      /\ Buffer \in Seq(Piece) /\ Len(Buffer) >= 3 /\ Current = Buffer[1]
      /\ \A i \in 1 .. 3 : Message[i] = Buffer[i]
  BY WholeMessage DEF Sides, Buffer
<1>2. wire["frontend"] \in Seq(Piece)
  BY DEF Shape, Streams, Sides
<1>3. InMessages(Buffer \o wire["frontend"])
  BY <1>1 DEF EncryptionHeld
<1>4. /\ InMessages(SubSeq(Buffer, 4, Len(Buffer)) \o wire["frontend"])
      /\ Buffer[2].kind = Buffer[1].kind /\ Buffer[3].kind = Buffer[1].kind
  BY <1>1, <1>2, <1>3, MessageTaken
<1>5. validation'["frontend"] = SubSeq(Buffer, 4, Len(Buffer))
  BY <1>1 DEF Drop, Shape, Streams, Sides
<1>6. \A i \in 1 .. 3 : i = 1 \/ i = 2 \/ i = 3
  OBVIOUS
<1> QED BY <1>1, <1>4, <1>5, <1>6

LEMMA TerminateHeld == Shape /\ EncryptionHeld /\ TerminateSslRequest => EncryptionHeld'
<1> SUFFICES ASSUME Shape, EncryptionHeld, TerminateSslRequest PROVE EncryptionHeld'
  OBVIOUS
<1>1. Readable("frontend") /\ handler = "frontend" /\ state = "InitState"
  BY DEF TerminateSslRequest, Readable
<1>2. UNCHANGED <<config, state, upstream, upstreamTls, wire>>
  BY DEF TerminateSslRequest
<1>3. replacement'["frontend"] = <<>> /\ DOMAIN <<>> = {}
  BY <1>1, Stopping DEF TerminateSslRequest, Shape, Streams, Sides
<1>4. InMessages(validation'["frontend"] \o wire'["frontend"])
  BY <1>1, <1>2, DroppedKeepsMessages DEF TerminateSslRequest
<1>5. SessionIsEncrypted'
  BY <1>2 DEF EncryptionHeld, SessionIsEncrypted, Secret
<1> QED BY <1>1, <1>2, <1>3, <1>4, <1>5 DEF EncryptionHeld

LEMMA PassEncryptedHeld == Shape /\ EncryptionHeld /\ PassEncrypted => EncryptionHeld'
<1> SUFFICES ASSUME Shape, EncryptionHeld, PassEncrypted PROVE EncryptionHeld'
  OBVIOUS
<1>1. Readable("frontend") /\ Drop(3) /\ "frontend" \in Sides
      /\ state = "InitState" /\ state' = "EncryptedState"
  BY DEF PassEncrypted, Sides
<1>2. UNCHANGED <<config, upstream, upstreamTls, wire>>
  BY DEF PassEncrypted, outputs, transports
<1>3. /\ Message \in Seq(Piece) /\ Len(Message) = 3
      /\ replacement["frontend"] \in Seq(Piece)
  BY <1>1, WholeMessage DEF Shape, Streams
<1>4. replacement'["frontend"] = replacement["frontend"] \o Message
  BY <1>1, <1>3, Replaced DEF PassEncrypted, Shape
<1>5. \A i \in 1 .. 3 : ~Secret(Message[i])
  BY <1>1, <1>2, DroppedKeepsMessages DEF PassEncrypted, Secret
<1>6. ASSUME config.upstreamSsl = "REQUIRE", ~upstreamTls,
             NEW i \in DOMAIN replacement'["frontend"]
      PROVE  ~Secret(replacement'["frontend"][i])
  <2> DEFINE old == replacement["frontend"]
             new == replacement'["frontend"]
  <2>1. /\ Len(old) \in Nat /\ DOMAIN old = 1 .. Len(old)
        /\ i \in 1 .. Len(old) + 3
        /\ new[i] = IF i <= Len(old) THEN old[i] ELSE Message[i - Len(old)]
    <3>1. old \in Seq(Piece) /\ new = old \o Message /\ i \in DOMAIN new
      BY <1>3, <1>4, <1>6
    <3> HIDE DEF old, new
    <3> QED BY <1>3, <3>1, JoinedUp
  <2>2. \A j \in DOMAIN old : ~Secret(old[j])
    BY <1>6 DEF EncryptionHeld
  <2> HIDE DEF old, new
  <2>3. CASE i <= Len(old)
    BY <2>1, <2>2, <2>3 DEF new
  <2>4. CASE ~(i <= Len(old))
    <3>1. i - Len(old) \in 1 .. 3 /\ new[i] = Message[i - Len(old)]
      BY <2>1, <2>4
    <3> QED BY <1>5, <3>1 DEF new
  <2> QED BY <2>3, <2>4
<1>7. SessionIsEncrypted'
  BY <1>2 DEF EncryptionHeld, SessionIsEncrypted, Secret
<1> QED BY <1>1, <1>2, <1>6, <1>7 DEF EncryptionHeld

LEMMA StartInClearHeld == Shape /\ EncryptionHeld /\ StartInClear => EncryptionHeld'
<1> SUFFICES ASSUME Shape, EncryptionHeld, StartInClear PROVE EncryptionHeld'
  OBVIOUS
<1>1. state' = "InSyncState" /\ config' = config /\ config.upstreamSsl # "REQUIRE"
  BY DEF StartInClear
<1> QED BY <1>1 DEF EncryptionHeld, SessionIsEncrypted

LEMMA StartNegotiationHeld == Shape /\ EncryptionHeld /\ StartNegotiation => EncryptionHeld'
<1> SUFFICES ASSUME Shape, EncryptionHeld, StartNegotiation PROVE EncryptionHeld'
  OBVIOUS
<1>1. Readable("frontend") /\ handler = "frontend" /\ state = "InitState"
      /\ state' = "NegotiatingUpstreamSSL"
  BY DEF StartNegotiation, Readable
<1>2. UNCHANGED <<config, upstreamTls, wire>>
  BY DEF StartNegotiation, transports
<1>3. replacement'["frontend"] = <<>> /\ DOMAIN <<>> = {}
  BY <1>1, Stopping DEF StartNegotiation, Shape, Streams, Sides
<1>4. InMessages(validation'["frontend"] \o wire'["frontend"])
  BY <1>1, <1>2, DroppedKeepsMessages DEF StartNegotiation
<1>5. SessionIsEncrypted'
  <2> DEFINE own == Bytes("own_ssl", 0)
             over == Over(upstreamTls, own)
  <2>1. /\ own \in Seq(Piece) /\ Len(own) = 3
        /\ \A p \in 1 .. 3 : own[p] = [kind |-> "own_ssl", m |-> 0, part |-> p]
    BY BytesArePieces
  <2>2. \A p \in 1 .. 3 : own[p].kind = "own_ssl"
    BY <2>1
  <2>3. /\ over \in Seq(TaggedPiece) /\ Len(over) = 3
        /\ \A p \in 1 .. 3 : over[p].kind = "own_ssl"
    <3>1. upstreamTls \in BOOLEAN
      BY DEF Shape
    <3> HIDE DEF own
    <3> QED BY <2>1, <2>2, <3>1, OverIsTagged
  <2>4. DOMAIN over = 1 .. 3
    BY <2>3, LenProperties
  <2>5. upstream' = upstream \o over
    BY DEF StartNegotiation
  <2> HIDE DEF over, own
  <2>6. \A i \in DOMAIN over : ~Secret(over[i])
    BY <2>3, <2>4 DEF Secret
  <2> QED BY <1>2, <2>3, <2>5, <2>6, SentHeld DEF EncryptionHeld
<1> QED BY <1>1, <1>2, <1>3, <1>4, <1>5 DEF EncryptionHeld

LEMMA NegotiationAnsweredHeld ==
  Shape /\ EncryptionHeld /\ NegotiationAnswered => EncryptionHeld'
<1> SUFFICES ASSUME Shape, EncryptionHeld, NegotiationAnswered PROVE EncryptionHeld'
  OBVIOUS
<1>1. handler = "backend" /\ state = "NegotiatingUpstreamSSL" /\ UNCHANGED <<config, wire>>
      /\ (EncryptUpstream \/ GiveUpUpstream)
  BY DEF NegotiationAnswered
<1>2. validation'["frontend"] = validation["frontend"]
  BY <1>1, Dropped DEF NegotiationAnswered, Sides
<1>3. replacement'["frontend"] = replacement["frontend"]
  BY <1>1, Stopping DEF NegotiationAnswered, Shape, Streams, Sides
<1>4. InMessages(validation'["frontend"] \o wire'["frontend"])
  BY <1>1, <1>2 DEF EncryptionHeld
<1>5. CASE EncryptUpstream
  <2>1. upstreamTls' = TRUE /\ upstream' = upstream \o Over(TRUE, tempStorage)
    BY <1>5 DEF EncryptUpstream
  <2>2. tempStorage \in Seq(Piece)
    BY DEF Shape
  <2>3. /\ Over(TRUE, tempStorage) \in Seq(TaggedPiece)
        /\ Len(Over(TRUE, tempStorage)) = Len(tempStorage)
        /\ \A i \in 1 .. Len(tempStorage) : Over(TRUE, tempStorage)[i].tls = TRUE
    BY <2>2, OverIsTagged
  <2>4. \A i \in DOMAIN Over(TRUE, tempStorage) : Over(TRUE, tempStorage)[i].tls
    BY <2>3, LenProperties
  <2>5. SessionIsEncrypted'
    BY <1>1, <2>1, <2>3, <2>4, SentHeld DEF EncryptionHeld
  <2> QED BY <1>4, <2>1, <2>5 DEF EncryptionHeld
<1>6. CASE GiveUpUpstream
  <2>1. UNCHANGED <<upstream, upstreamTls>> /\ state' # "InSyncState"
    BY <1>6 DEF GiveUpUpstream
  <2>2. SessionIsEncrypted'
    BY <1>1, <2>1 DEF EncryptionHeld, SessionIsEncrypted, Secret
  <2>3. (config.upstreamSsl = "REQUIRE" /\ ~upstreamTls =>
          \A i \in DOMAIN replacement["frontend"] :
            ~Secret(replacement["frontend"][i]))'
    BY <1>1, <1>3, <2>1 DEF EncryptionHeld, Secret
  <2> QED BY <1>4, <2>1, <2>2, <2>3 DEF EncryptionHeld
<1> QED BY <1>1, <1>5, <1>6

(* What is thrown away is not passed.                                       *)
LEMMA ThrownAwayHeld ==
  ASSUME Shape, EncryptionHeld, NegotiationDisturbed \/ LoseSync \/ Ignore
  PROVE  EncryptionHeld'
<1>1. UNCHANGED <<config, replacement, upstream, upstreamTls>>
  BY DEF NegotiationDisturbed, LoseSync, Ignore, outputs, transports
<1>2. state' \in {"OutOfSyncState", "EncryptedState"}
  BY DEF NegotiationDisturbed, LoseSync, Ignore
<1>3. SessionIsEncrypted'
  BY <1>1 DEF EncryptionHeld, SessionIsEncrypted, Secret
<1>4. (config.upstreamSsl = "REQUIRE" /\ ~upstreamTls =>
        \A i \in DOMAIN replacement["frontend"] :
          ~Secret(replacement["frontend"][i]))'
  BY <1>1 DEF EncryptionHeld, Secret
<1> QED BY <1>2, <1>3, <1>4 DEF EncryptionHeld

(* In the session the switch lies behind: whatever waits goes over TLS.     *)
LEMMA InSessionHeld ==
  ASSUME Shape, EncryptionHeld, RelayOrRefuse \/ RetainOrEmit
  PROVE  EncryptionHeld'
<1>1. UNCHANGED <<config, state, upstream, upstreamTls>> /\ state = "InSyncState"
  BY DEF RelayOrRefuse, RetainOrEmit, outputs, transports
<1>2. SessionIsEncrypted'
  BY <1>1 DEF EncryptionHeld, SessionIsEncrypted, Secret
<1>3. (config.upstreamSsl = "REQUIRE" => upstreamTls)'
  BY <1>1 DEF EncryptionHeld
<1> QED BY <1>1, <1>2, <1>3 DEF EncryptionHeld

LEMMA NextHeld == Shape /\ EncryptionHeld /\ [Next]_vars => EncryptionHeld'
<1> SUFFICES ASSUME Shape, EncryptionHeld, [Next]_vars PROVE EncryptionHeld'
  OBVIOUS
<1>1. CASE Decode
  BY <1>1, TerminateHeld, PassEncryptedHeld, StartInClearHeld, StartNegotiationHeld,
     NegotiationAnsweredHeld, ThrownAwayHeld, InSessionHeld DEF Decode
<1>2. CASE Finish
  BY <1>2, FinishHeld
<1>3. CASE \E kind \in Kinds : ClientSends(kind)
  BY <1>3, ClientSendsHeld
<1>4. CASE \E side \in Sides : Receive(side)
  BY <1>4, ReceiveHeld
<1>5. CASE ClientReads \/ BytesSent \/ UNCHANGED vars
  <2>1. UNCHANGED <<config, state, validation, wire, replacement, upstream, upstreamTls>>
    BY <1>5 DEF ClientReads, BytesSent, vars, buffers, outputs, transports
  <2> QED BY <2>1, SameHeld DEF HeldVars
<1>6. CASE ServerAnswers
  <2>1. UNCHANGED <<config, state, validation, replacement, upstream, upstreamTls>>
    BY <1>6 DEF ServerAnswers, buffers, outputs, transports
  <2>2. wire'["frontend"] = wire["frontend"]
    BY <1>6 DEF ServerAnswers, Shape, Streams, Sides
  <2> QED BY <2>1, <2>2, SameHeld DEF HeldVars
<1> QED BY <1>1, <1>2, <1>3, <1>4, <1>5, <1>6 DEF Next

(* What the server must get over TLS waits for the switch, and the session  *)
(* begins behind it only (encryptUpstream, temp_storage_).                  *)
THEOREM EncryptionIsHeld == Spec => []EncryptionHeld
<1>1. Init => Shape /\ EncryptionHeld
  BY InitShape, InitHeld
<1>2. Shape /\ EncryptionHeld /\ [Next]_vars => (Shape /\ EncryptionHeld)'
  BY NextKeepsShape, NextHeld
<1> QED BY <1>1, <1>2, PTL DEF Spec

(* With upstream_ssl REQUIRE the startup, the password and the queries      *)
(* reach the server over TLS or not at all, however the client's stream is  *)
(* cut, whatever it sends and whatever the server answers.                  *)
THEOREM SessionsAreEncrypted == Spec => []SessionIsEncrypted
<1>1. EncryptionHeld => SessionIsEncrypted
  BY DEF EncryptionHeld
<1> QED BY <1>1, EncryptionIsHeld, PTL
-----------------------------------------------------------------------------
(* Types.  What a stream carries, by its end: what the client calls for and *)
(* what the server replies, and either of them once a session has begun.    *)
Call == [kind : ClientKinds, m : 1 .. MaxMessages, part : 1 .. 3]
SessionCall == [kind : ClientKinds \ {"ssl", "gss"}, m : 1 .. MaxMessages, part : 1 .. 3]
SessionSent == [kind : ClientKinds \ {"ssl", "gss"}, m : 0 .. MaxMessages, part : 1 .. 3,
                tls : BOOLEAN]
Reply == [kind : ServerKinds, m : 0 .. MaxMessages, part : 1 .. 3]
SessionReply == [kind : ServerKinds \ {"S", "N"}, m : 0 .. MaxMessages, part : 1 .. 3]

LEMMA Widened ==
  ASSUME NEW S, NEW T, S \subseteq T, NEW s \in Seq(S)
  PROVE  s \in Seq(T)
<1>1. PICK n \in Nat : s \in [1 .. n -> S]
  BY SeqDef
<1>2. s \in [1 .. n -> T]
  BY <1>1
<1> QED BY <1>2, SeqDef

LEMMA Narrowed ==
  ASSUME NEW S, NEW T, NEW s \in Seq(S), \A i \in DOMAIN s : s[i] \in T
  PROVE  s \in Seq(T)
<1>1. PICK n \in Nat : s \in [1 .. n -> S]
  BY SeqDef
<1>2. s \in [1 .. n -> T]
  BY <1>1
<1> QED BY <1>2, SeqDef

LEMMA BytesAre ==
  ASSUME NEW kinds, NEW numbers, NEW kind \in kinds, NEW m \in numbers
  PROVE  /\ Bytes(kind, m) \in Seq([kind : kinds, m : numbers, part : 1 .. 3])
         /\ Byte(kind, m) \in Seq([kind : kinds, m : numbers, part : 1 .. 3])
         /\ Len(Bytes(kind, m)) = 3 /\ Len(Byte(kind, m)) = 1
<1> DEFINE S == [kind : kinds, m : numbers, part : 1 .. 3]
<1>1. Bytes(kind, m) \in [1 .. 3 -> S]
  BY DEF Bytes
<1>2. Bytes(kind, m) \in Seq(S)
  <2> HIDE DEF S
  <2> QED BY <1>1, SeqDef
<1>3. Len(Bytes(kind, m)) = 3
  BY <1>1, <1>2, LenProperties
<1>4. [kind |-> kind, m |-> m, part |-> 1] \in S
  OBVIOUS
<1> HIDE DEF S
<1>5. Byte(kind, m) \in Seq(S) /\ Len(Byte(kind, m)) = 1
  BY <1>4 DEF Byte
<1> QED BY <1>2, <1>3, <1>5 DEF S

LEMMA Grows ==
  ASSUME NEW S, NEW s \in Seq(S), NEW t \in Seq(S), NEW n \in 0 .. Len(s)
  PROVE  s \o t \in Seq(S) /\ n \in 0 .. Len(s \o t)
<1> DEFINE l == Len(s)
           k == Len(t)
<1>1. s \o t \in Seq(S) /\ Len(s \o t) = l + k
  BY ConcatProperties
<1>2. l \in Nat /\ k \in Nat
  BY LenProperties
<1>3. n \in 0 .. l
  OBVIOUS
<1> HIDE DEF l, k
<1>4. n \in 0 .. l + k
  BY <1>2, <1>3
<1> QED BY <1>1, <1>4

LEMMA Split ==
  ASSUME NEW S, NEW s \in Seq(S), NEW n \in 0 .. Len(s)
  PROVE  SubSeq(s, 1, n) \o SubSeq(s, n + 1, Len(s)) = s
<1>1. /\ 1 \in 1 .. Len(s) + 1 /\ n \in 1 - 1 .. Len(s) /\ Len(s) \in n .. Len(s)
  BY LenProperties
<1>2. SubSeq(s, 1, n) \o SubSeq(s, n + 1, Len(s)) = SubSeq(s, 1, Len(s))
  BY <1>1, ConcatAdjacentSubSeq
<1> QED BY <1>2, SubSeqFull

(* What goes through the filter stays what it is.                           *)
LEMMA Flows ==
  ASSUME Shape, NEW S, NEW side \in Sides,
         wire[side] \in Seq(S), validation[side] \in Seq(S),
         NEW other \in Sides, Receive(other)
  PROVE  wire'[side] \in Seq(S) /\ validation'[side] \in Seq(S)
<1>1. PICK n \in 1 .. Len(wire[other]) :
        /\ validation' = [validation EXCEPT ![other] = @ \o SubSeq(wire[other], 1, n)]
        /\ wire' = [wire EXCEPT ![other] = SubSeq(@, n + 1, Len(@))]
  BY DEF Receive
<1>2. CASE other # side
  BY <1>1, <1>2 DEF Shape, Streams
<1>3. CASE other = side
  <2>1. n \in 0 .. Len(wire[side])
    BY <1>3, LenProperties
  <2>2. SubSeq(wire[side], 1, n) \in Seq(S) /\ SubSeq(wire[side], n + 1, Len(wire[side])) \in Seq(S)
    BY <2>1, Beginning, Rest
  <2>3. validation[side] \o SubSeq(wire[side], 1, n) \in Seq(S)
    BY <2>2, ConcatProperties
  <2> QED BY <1>1, <1>3, <2>2, <2>3 DEF Shape, Streams
<1> QED BY <1>2, <1>3

LEMMA Shrinks ==
  ASSUME Shape, handler \in Sides, NEW S, NEW side \in Sides, validation[side] \in Seq(S),
         \/ DropAll
         \/ Drop(3) /\ Len(Buffer) >= 3
  PROVE  validation'[side] \in Seq(S)
<1>1. CASE side # handler
  BY <1>1, Dropped
<1>2. CASE side = handler /\ DropAll
  BY <1>2, EmptySeq DEF DropAll, Shape, Streams
<1>3. CASE side = handler /\ Drop(3) /\ Len(Buffer) >= 3
  <2>1. Buffer \in Seq(S) /\ Len(Buffer) \in Nat
    BY <1>3, LenProperties DEF Buffer
  <2>2. SubSeq(Buffer, 4, Len(Buffer)) \in Seq(S)
    BY <1>3, <2>1, Rest, 3 \in 0 .. Len(Buffer), 3 + 1 = 4
  <2>3. validation' = [validation EXCEPT ![handler] = SubSeq(Buffer, 4, Len(Buffer))]
    BY <1>3 DEF Drop, Buffer
  <2> QED BY <1>3, <2>2, <2>3 DEF Shape, Streams
<1> QED BY <1>1, <1>2, <1>3

LEMMA Taken ==
  ASSUME Shape, NEW S, NEW side \in Sides, validation[side] \in Seq(S), Readable(side)
  PROVE  Message \in Seq(S) /\ Current \in S /\ Len(Message) = 3
<1>1. handler = side /\ Len(Buffer) >= 3 /\ Buffer \in Seq(S) /\ Len(Buffer) \in Nat
  BY LenProperties DEF Readable, Buffer
<1>2. \A i \in 1 .. 3 : Buffer[i] \in S
  BY <1>1, ElementOfSeq
<1>3. Message \in Seq(S) /\ Len(Message) = 3
  BY <1>2, SubSeqProperties, 3 - 1 + 1 = 3 DEF Message
<1>4. Current = Buffer[1]
  BY <1>1 DEF Current
<1> QED BY <1>2, <1>3, <1>4

LEMMA OverIs ==
  ASSUME NEW kinds, NEW numbers, NEW tls \in BOOLEAN,
         NEW bytes \in Seq([kind : kinds, m : numbers, part : 1 .. 3])
  PROVE  /\ Over(tls, bytes) \in Seq([kind : kinds, m : numbers, part : 1 .. 3, tls : BOOLEAN])
         /\ Len(Over(tls, bytes)) = Len(bytes)
<1> DEFINE S == [kind : kinds, m : numbers, part : 1 .. 3]
           T == [kind : kinds, m : numbers, part : 1 .. 3, tls : BOOLEAN]
<1>1. DOMAIN bytes = 1 .. Len(bytes) /\ Len(bytes) \in Nat
  BY LenProperties
<1>2. \A i \in 1 .. Len(bytes) : bytes[i] \in S
  BY ElementOfSeq
<1>3. Over(tls, bytes) \in [1 .. Len(bytes) -> T]
  BY <1>1, <1>2 DEF Over
<1> HIDE DEF T
<1>4. Over(tls, bytes) \in Seq(T)
  BY <1>1, <1>3, SeqDef
<1>5. Len(Over(tls, bytes)) = Len(bytes)
  BY <1>1, <1>3, <1>4, LenProperties
<1> QED BY <1>4, <1>5 DEF T

-----------------------------------------------------------------------------
(* What a client reads: it takes one byte for an answer to SSLRequest and a *)
(* message otherwise.  The marks are the places it may come to.             *)
ReadSize(byte) == IF byte.kind \in {"S", "N"} THEN 1 ELSE 3

Marks(marks, bytes, n, at) ==
  /\ marks \subseteq 0 .. n /\ at \in marks /\ n \in marks
  /\ \A k \in marks : k < n => k + ReadSize(bytes[k + 1]) \in marks

ReadFrom(bytes, at) == \E marks : Marks(marks, bytes, Len(bytes), at)

LEMMA ReadOn ==
  ASSUME NEW bytes \in Seq(Reply), NEW at, ReadFrom(bytes, at), at < Len(bytes)
  PROVE  ReadFrom(bytes, at + ReadSize(bytes[at + 1]))
BY DEF ReadFrom, Marks

LEMMA ReadMore ==
  ASSUME NEW bytes \in Seq(Reply), NEW more \in Seq(Reply), NEW at,
         ReadFrom(bytes, at), ReadFrom(more, 0)
  PROVE  ReadFrom(bytes \o more, at)
<1> DEFINE n == Len(bytes)
           l == Len(more)
           all == bytes \o more
<1>1. PICK old : Marks(old, bytes, n, at)
  BY DEF ReadFrom
<1>2. PICK new : Marks(new, more, l, 0)
  BY DEF ReadFrom
<1>3. n \in Nat /\ l \in Nat
  BY LenProperties
<1>7. Len(all) = n + l
  BY ConcatProperties
<1>8. \A i \in 1 .. n + l : all[i] = IF i <= n THEN bytes[i] ELSE more[i - n]
  BY ConcatProperties
<1> HIDE DEF n, l, all
<1>9. \A i \in 1 .. n : all[i] = bytes[i]
  BY <1>3, <1>8
<1>10. \A j \in 1 .. l : all[n + j] = more[j]
  BY <1>3, <1>8
<1> DEFINE marks == old \union {n + k : k \in new}
<1>4. marks \subseteq 0 .. n + l /\ at \in marks /\ n + l \in marks
  <2>1. old \subseteq 0 .. n /\ new \subseteq 0 .. l /\ at \in old /\ l \in new
    BY <1>1, <1>2 DEF Marks
  <2>2. old \subseteq 0 .. n + l
    BY <1>3, <2>1
  <2>3. {n + k : k \in new} \subseteq 0 .. n + l
    BY <1>3, <2>1
  <2> QED BY <2>1, <2>2, <2>3
<1>5. ASSUME NEW k \in marks, k < n + l
      PROVE  k + ReadSize(all[k + 1]) \in marks
  <2>1. CASE k \in old /\ k < n
    <3>1. k + 1 \in 1 .. n
      BY <1>1, <1>3, <2>1 DEF Marks
    <3>2. all[k + 1] = bytes[k + 1]
      BY <1>9, <3>1
    <3>3. k + ReadSize(bytes[k + 1]) \in old
      BY <1>1, <2>1 DEF Marks
    <3> QED BY <3>2, <3>3
  <2>2. CASE ~ (k \in old /\ k < n)
    <3>1. PICK j \in new : k = n + j
      <4>1. CASE k \in old
        <5>1. k = n /\ n = n + 0 /\ 0 \in new
          BY <1>1, <1>2, <1>3, <2>2, <4>1 DEF Marks
        <5> QED BY <5>1
      <4> QED BY <4>1
    <3>2. j \in 0 .. l /\ j < l
      BY <1>2, <1>3, <1>5, <3>1 DEF Marks
    <3>3. j + 1 \in 1 .. l /\ k + 1 = n + (j + 1)
      BY <1>3, <3>1, <3>2
    <3>4. all[k + 1] = more[j + 1]
      BY <1>10, <3>3
    <3>5. j + ReadSize(more[j + 1]) \in new
      BY <1>2, <3>2 DEF Marks
    <3>6. n + (j + ReadSize(more[j + 1])) \in marks
      BY <3>5
    <3>7. k + ReadSize(all[k + 1]) = n + (j + ReadSize(more[j + 1]))
      BY <1>3, <3>1, <3>2, <3>4 DEF ReadSize
    <3> QED BY <3>6, <3>7
  <2> QED BY <2>1, <2>2
<1>6. Marks(marks, all, n + l, at)
  <2> HIDE DEF marks
  <2> QED BY <1>4, <1>5 DEF Marks
<1> QED BY <1>6, <1>7 DEF ReadFrom, all

LEMMA ReadByThree ==
  ASSUME NEW bytes \in Seq(SessionReply), Len(bytes) % 3 = 0
  PROVE  ReadFrom(bytes, 0)
<1> DEFINE n == Len(bytes)
           marks == {k \in 0 .. n : k % 3 = 0}
<1>1. n \in Nat /\ n % 3 = 0 /\ \A k \in 1 .. n : ReadSize(bytes[k]) = 3
  <2>1. \A k \in 1 .. n : bytes[k] \in SessionReply
    BY ElementOfSeq
  <2>2. n \in Nat
    BY LenProperties
  <2>3. \A byte \in SessionReply : ReadSize(byte) = 3
    BY DEF SessionReply, ReadSize
  <2> QED BY <2>1, <2>2, <2>3
<1> HIDE DEF n
<1>2. marks \subseteq 0 .. n /\ 0 \in marks /\ n \in marks
  BY <1>1
<1>3. ASSUME NEW k \in marks, k < n
      PROVE  k + ReadSize(bytes[k + 1]) \in marks
  <2>1. ReadSize(bytes[k + 1]) = 3
    BY <1>1, <1>3
  <2>2. k + 3 \in 0 .. n /\ (k + 3) % 3 = 0
    BY <1>1, <1>3
  <2> QED BY <2>1, <2>2
<1>4. Marks(marks, bytes, n, 0)
  BY <1>2, <1>3 DEF Marks
<1> QED BY <1>4 DEF ReadFrom, n

LEMMA ReadOne ==
  ASSUME NEW m
  PROVE  ReadFrom(Byte("S", m), 0)
<1> DEFINE bytes == Byte("S", m)
<1>1. Len(bytes) = 1 /\ bytes[1].kind = "S"
  BY DEF Byte
<1> HIDE DEF bytes
<1>2. Marks({0, 1}, bytes, 1, 0)
  BY <1>1 DEF Marks, ReadSize
<1> QED BY <1>1, <1>2 DEF ReadFrom, bytes

-----------------------------------------------------------------------------
(* The answers of the server.                                               *)
Calls == {"own_ssl", "ssl", "gss"}

LEMMA ServerSaysReplies ==
  ASSUME NEW kind, NEW m \in 0 .. MaxMessages, NEW reply \in Replies(kind, m)
  PROVE  /\ reply \in Seq(Reply)
         /\ kind \notin Calls => reply \in Seq(SessionReply)
         /\ Len(reply) = 1 \/ \A i \in DOMAIN reply : reply[i].kind # "S"
<1>1. /\ \A r \in ServerKinds \ {"S", "N"} : Bytes(r, m) \in Seq(SessionReply)
      /\ \A r \in ServerKinds : Byte(r, m) \in Seq(Reply) /\ Len(Byte(r, m)) = 1
  BY BytesAre DEF Reply, SessionReply
<1>2. {"authreq", "ready", "row", "complete", "failed", "E"} \subseteq ServerKinds \ {"S", "N"}
  BY DEF ServerKinds
<1>3. ASSUME reply \in Seq(SessionReply)
      PROVE  reply \in Seq(Reply) /\ \A i \in DOMAIN reply : reply[i].kind # "S"
  <2>1. SessionReply \subseteq Reply
    BY DEF SessionReply, Reply
  <2>2. \A i \in DOMAIN reply : reply[i] \in SessionReply
    BY <1>3, ElementOfSeq, LenProperties
  <2> QED BY <1>3, <2>1, <2>2, Widened DEF SessionReply
<1>4. CASE kind \in Calls
  <2>1. PICK r \in SslReplies : IF r = "E" THEN reply = Bytes(r, m) ELSE reply = Byte(r, m)
    BY <1>4 DEF Replies, Calls
  <2>2. CASE r = "E"
    BY <1>1, <1>2, <1>3, <1>4, <2>1, <2>2
  <2>3. CASE r # "E"
    <3>1. r \in ServerKinds
      BY PeersAssumption DEF ServerKinds
    <3> QED BY <1>1, <1>4, <2>1, <2>3, <3>1
  <2> QED BY <2>2, <2>3
<1>5. CASE kind \notin Calls
  <2>1. reply \in Seq(SessionReply)
    <3>1. CASE kind \in {"startup", "password"}
      BY <1>1, <1>2, <3>1 DEF Replies
    <3>2. CASE kind = "query"
      <4>1. /\ Bytes("row", m) \o Bytes("complete", m) \in Seq(SessionReply)
            /\ Bytes("failed", m) \o Bytes("ready", m) \in Seq(SessionReply)
        BY <1>1, <1>2, ConcatProperties
      <4>2. Bytes("row", m) \o Bytes("complete", m) \o Bytes("ready", m) \in Seq(SessionReply)
        BY <1>1, <1>2, <4>1, ConcatProperties
      <4> QED BY <3>2, <4>1, <4>2 DEF Replies
    <3>3. CASE kind \notin {"startup", "password", "query"}
      BY <1>5, <3>3, EmptySeq DEF Replies, Calls
    <3> QED BY <3>1, <3>2, <3>3
  <2> QED BY <1>3, <1>5, <2>1
<1> QED BY <1>4, <1>5

-----------------------------------------------------------------------------
(* The invariant of the types.                                              *)

Scalars ==
  /\ config \in Configs
  /\ sent \in Seq(Kinds) /\ Len(sent) <= MaxMessages
  /\ stage \in {"start", "negotiated", "login", "session", "ended"}
  /\ awaiting \in BOOLEAN
  /\ state \in {"InitState", "InSyncState", "OutOfSyncState", "EncryptedState",
                "NegotiatingUpstreamSSL"}
  /\ upstreamTls \in BOOLEAN
  /\ downstreamTls \in {"clear", "switching", "tls"}
  /\ closed \in BOOLEAN /\ (closed => handler = "none")
  /\ failedAsserts \subseteq {"onWrite", "Stopped"}

(* On the way to the server ...                                             *)
Upwards ==
  /\ wire["frontend"] \in Seq(Call) /\ validation["frontend"] \in Seq(Call)
  /\ replacement["frontend"] \in Seq(Call) /\ tempStorage \in Seq(Call)
  /\ upstream \in Seq(TaggedPart) /\ served \in 0 .. Len(upstream)

(* ... on the way to the proxy, and to the client: what the proxy puts      *)
(* together for it are whole messages.                                      *)
Backwards ==
  /\ wire["backend"] \in Seq(Reply) /\ validation["backend"] \in Seq(Reply)
  /\ answers \in Seq(Reply)

Downwards ==
  /\ replacement["backend"] \in Seq(SessionReply) /\ Len(replacement["backend"]) % 3 = 0
  /\ retained \in Seq(SessionReply) /\ Len(retained) % 3 = 0
  /\ downstream \in Seq(Reply) /\ ReadFrom(downstream, heard)

(* A request to encrypt is the beginning of all: a client that has sent its *)
(* startup sends none, so that in a session no single byte is answered.     *)
Fresh == stage = "start" /\ (Patient => ~awaiting)
Fronts == validation["frontend"] \o wire["frontend"]
Backs == validation["backend"] \o wire["backend"]

StartupLast(bytes, fresh) ==
  \A i, j \in DOMAIN bytes :
    bytes[i].kind = "startup" => ~fresh /\ (i < j => bytes[j].kind \notin {"ssl", "gss"})

InSession ==
  /\ ~Fresh
  /\ wire["frontend"] \in Seq(SessionCall) /\ validation["frontend"] \in Seq(SessionCall)

NotBegun ==
  /\ upstream = <<>> /\ served = 0 /\ replacement["frontend"] = <<>> /\ tempStorage = <<>>
  /\ wire["backend"] = <<>> /\ validation["backend"] = <<>>
  /\ StartupLast(Fronts, Fresh)

Undecided ==
  /\ InSession
  /\ tempStorage \in Seq(SessionCall) /\ replacement["frontend"] = <<>>
  /\ \/ Backs = <<>> /\ Len(upstream) = served + 3
     \/ served = Len(upstream) /\ (Len(Backs) = 1 \/ \A i \in DOMAIN Backs : Backs[i].kind # "S")

NoCallUnserved == \A i \in served + 1 .. Len(upstream) : upstream[i] \in SessionSent

Agreeing ==
  /\ InSession
  /\ replacement["frontend"] \in Seq(SessionCall)
  /\ NoCallUnserved
  /\ wire["backend"] \in Seq(SessionReply) /\ validation["backend"] \in Seq(SessionReply)

ByState ==
  ~closed => /\ state = "InitState" => NotBegun
             /\ state = "NegotiatingUpstreamSSL" => Undecided
             /\ state = "InSyncState" => Agreeing

TypeHeld == Scalars /\ Upwards /\ Backwards /\ Downwards /\ ByState

LEMMA TypeOKIsHeld ==
  ASSUME Shape, TypeHeld
  PROVE  TypeOK
<1>1. Call \subseteq Part /\ Reply \subseteq Part /\ SessionReply \subseteq Part
  BY DEF Call, Reply, SessionReply, Part
<1>2. /\ wire["frontend"] \in Seq(Part) /\ validation["frontend"] \in Seq(Part)
      /\ replacement["frontend"] \in Seq(Part) /\ tempStorage \in Seq(Part)
  BY <1>1, Widened DEF TypeHeld, Upwards
<1>3. /\ wire["backend"] \in Seq(Part) /\ validation["backend"] \in Seq(Part)
      /\ answers \in Seq(Part)
  BY <1>1, Widened DEF TypeHeld, Backwards
<1>4. /\ replacement["backend"] \in Seq(Part) /\ retained \in Seq(Part)
      /\ downstream \in Seq(Part)
  BY <1>1, Widened DEF TypeHeld, Downwards
<1>5. wire \in [Sides -> Seq(Part)] /\ validation \in [Sides -> Seq(Part)]
      /\ replacement \in [Sides -> Seq(Part)]
  BY <1>2, <1>3, <1>4 DEF Shape, Streams, Sides
<1>6. heard \in 0 .. Len(downstream)
  BY DEF TypeHeld, Downwards, ReadFrom, Marks
<1>7. handler \in Sides \union {"none"}
  BY DEF Shape
<1> QED BY <1>2, <1>3, <1>4, <1>5, <1>6, <1>7 DEF TypeOK, TypeHeld, Scalars, Upwards

LEMMA InitTypes == Init => TypeHeld
<1> SUFFICES ASSUME Init PROVE TypeHeld
  OBVIOUS
<1>1. \A S : <<>> \in Seq(S)
  BY EmptySeq
<1>2. Len(<<>>) = 0 /\ 0 % 3 = 0
  BY EmptySeq
<1>3. /\ wire = Nothing /\ validation = Nothing /\ replacement = Nothing
      /\ Nothing["frontend"] = <<>> /\ Nothing["backend"] = <<>>
  BY DEF Init, Nothing, Sides
<1>4. Scalars
  <2>1. sent \in Seq(Kinds) /\ Len(sent) <= MaxMessages
    BY <1>1, <1>2, KindsAssumption DEF Init
  <2> QED BY <2>1 DEF Init, Scalars
<1>5. Upwards
  BY <1>1, <1>2, <1>3 DEF Init, Upwards
<1>6. Backwards
  BY <1>1, <1>3 DEF Init, Backwards
<1>7. ReadFrom(<<>>, 0)
  BY <1>1, <1>2, ReadByThree
<1>8. Downwards
  BY <1>1, <1>2, <1>3, <1>7 DEF Init, Downwards
<1>9. ByState
  <2>1. Fronts = <<>>
    BY <1>1, <1>3, ConcatEmptySeq DEF Fronts
  <2>2. StartupLast(Fronts, Fresh)
    BY <2>1, DOMAIN <<>> = {} DEF StartupLast
  <2> QED BY <1>3, <2>2 DEF Init, ByState, NotBegun
<1> QED BY <1>4, <1>5, <1>6, <1>8, <1>9 DEF TypeHeld

(* Every action that is not the end of a handler or one between two of them *)
(* is a turn of doDecode.                                                   *)
LEMMA TurnsRun == Decode /\ Shape => handler \in Sides
BY DEF Decode, TerminateSslRequest, PassEncrypted, StartInClear, StartNegotiation,
       NegotiationDisturbed, NegotiationAnswered, LoseSync, Ignore, RelayOrRefuse,
       RetainOrEmit, Readable, Running, Shape, Sides

LEMMA ScalarsKept == Shape /\ Scalars /\ [Next]_vars => Scalars'
<1> SUFFICES ASSUME Shape, Scalars, [Next]_vars PROVE Scalars'
  OBVIOUS
<1>1. CASE \E kind \in Kinds : ClientSends(kind)
  <2>1. PICK kind \in Kinds : ClientSends(kind)
    BY <1>1
  <2>2. sent' \in Seq(Kinds) /\ Len(sent') <= MaxMessages
    <3>1. Len(sent) < MaxMessages /\ sent' = Append(sent, kind) /\ Len(sent) \in Nat
      BY <2>1, LenProperties DEF ClientSends, Scalars
    <3>2. sent' \in Seq(Kinds) /\ Len(sent') = Len(sent) + 1
      BY <3>1, AppendProperties DEF Scalars
    <3> QED BY <3>1, <3>2, KindsAssumption
  <2>3. awaiting' \in BOOLEAN /\ stage' \in {"ended", "session", stage}
    BY <2>1 DEF ClientSends
  <2>4. UNCHANGED <<config, state, upstreamTls, downstreamTls, closed, handler, failedAsserts>>
    BY <2>1 DEF ClientSends, transports
  <2> QED BY <2>2, <2>3, <2>4 DEF Scalars
<1>2. CASE ClientReads
  <2>1. awaiting' \in BOOLEAN /\ stage' \in {"negotiated", "login", "session", stage}
    BY <1>2 DEF ClientReads, StageAfter, Scalars
  <2>2. UNCHANGED <<config, sent, state, upstreamTls, downstreamTls, closed, handler,
                    failedAsserts>>
    BY <1>2 DEF ClientReads, transports
  <2> QED BY <2>1, <2>2 DEF Scalars
<1>3. CASE ServerAnswers \/ UNCHANGED vars
  <2>1. UNCHANGED <<config, sent, stage, awaiting, state, upstreamTls, downstreamTls, closed,
                    handler, failedAsserts>>
    BY <1>3 DEF ServerAnswers, vars, client, transports
  <2> QED BY <2>1 DEF Scalars
<1>4. CASE \E side \in Sides : Receive(side)
  <2>1. UNCHANGED <<config, sent, stage, awaiting, state, upstreamTls, downstreamTls, closed,
                    failedAsserts>> /\ ~closed
    BY <1>4 DEF Receive, Quiet, client, transports
  <2> QED BY <2>1 DEF Scalars
<1>5. CASE Finish
  <2>1. UNCHANGED <<config, sent, stage, awaiting, state, upstreamTls, downstreamTls, closed>>
        /\ handler' = "none"
    BY <1>5 DEF Finish, client, transports
  <2>2. failedAsserts' \subseteq {"onWrite", "Stopped"}
    BY <1>5 DEF Finish, Asserts, Scalars
  <2> QED BY <2>1, <2>2 DEF Scalars
<1>6. CASE BytesSent
  <2>1. UNCHANGED <<config, sent, stage, awaiting, state, upstreamTls, handler, failedAsserts>>
        /\ handler = "none"
    BY <1>6 DEF BytesSent, Quiet, client
  <2>2. downstreamTls' \in {"tls", downstreamTls} /\ closed' \in BOOLEAN
    BY <1>6 DEF BytesSent, Scalars
  <2> QED BY <2>1, <2>2 DEF Scalars
<1>7. CASE Decode
  <2>1. handler \in Sides /\ ~closed
    <3>1. handler \in Sides
      BY <1>7, TurnsRun
    <3> QED BY <3>1 DEF Scalars, Sides
  <2>2. UNCHANGED <<config, sent, stage, awaiting>>
    BY <1>7 DEF Decode, TerminateSslRequest, PassEncrypted, StartInClear, StartNegotiation,
       NegotiationDisturbed, NegotiationAnswered, LoseSync, Ignore, RelayOrRefuse,
       RetainOrEmit, client
  <2>3. CASE TerminateSslRequest
    <3>1. UNCHANGED <<state, upstreamTls, closed>> /\ downstreamTls' = "switching"
          /\ failedAsserts' \subseteq {"onWrite", "Stopped"}
      BY <2>3 DEF TerminateSslRequest, Stop, Asserts, Scalars
    <3> QED BY <2>1, <2>2, <3>1 DEF Scalars
  <2>4. CASE StartNegotiation
    <3>1. UNCHANGED <<upstreamTls, downstreamTls, closed>> /\ state' = "NegotiatingUpstreamSSL"
          /\ failedAsserts' \subseteq {"onWrite", "Stopped"}
      BY <2>4 DEF StartNegotiation, Stop, Asserts, Scalars, transports
    <3> QED BY <2>1, <2>2, <3>1 DEF Scalars
  <2>5. CASE NegotiationAnswered
    <3>1. UNCHANGED downstreamTls /\ handler' = "none"
          /\ failedAsserts' \subseteq {"onWrite", "Stopped"}
      BY <2>5 DEF NegotiationAnswered, Stop, Asserts, Scalars
    <3>2. /\ state' \in {"InitState", "InSyncState", "OutOfSyncState"}
          /\ upstreamTls' \in BOOLEAN /\ closed' \in BOOLEAN
      BY <2>5 DEF NegotiationAnswered, EncryptUpstream, GiveUpUpstream, Scalars
    <3> QED BY <2>2, <3>1, <3>2 DEF Scalars
  <2>6. CASE \/ PassEncrypted \/ StartInClear \/ NegotiationDisturbed \/ LoseSync \/ Ignore
             \/ RelayOrRefuse \/ RetainOrEmit
    <3>1. UNCHANGED <<upstreamTls, downstreamTls, closed, handler, failedAsserts>>
          /\ state' \in {"EncryptedState", "InSyncState", "OutOfSyncState", state}
      BY <2>6 DEF PassEncrypted, StartInClear, NegotiationDisturbed, LoseSync, Ignore,
         RelayOrRefuse, RetainOrEmit, transports
    <3> QED BY <2>2, <3>1 DEF Scalars
  <2> QED BY <1>7, <2>3, <2>4, <2>5, <2>6 DEF Decode
<1> QED BY <1>1, <1>2, <1>3, <1>4, <1>5, <1>6, <1>7 DEF Next

(* The way to the server.                                                   *)
LEMMA DecodeUpwards ==
  ASSUME Shape, Scalars, Upwards, Decode
  PROVE  Upwards'
<1>1. handler \in Sides
  BY TurnsRun
<1>2. "frontend" \in Sides /\ "backend" \in Sides
  BY DEF Sides
<1>3. UNCHANGED <<wire, served>>
  BY DEF Decode, TerminateSslRequest, PassEncrypted, StartInClear, StartNegotiation,
     NegotiationDisturbed, NegotiationAnswered, LoseSync, Ignore, RelayOrRefuse,
     RetainOrEmit, server
<1>4. \/ DropAll
      \/ Drop(3) /\ Len(Buffer) >= 3
  BY DEF Decode, TerminateSslRequest, PassEncrypted, StartInClear, StartNegotiation,
     NegotiationDisturbed, NegotiationAnswered, LoseSync, Ignore, RelayOrRefuse,
     RetainOrEmit, Readable
<1>5. validation'["frontend"] \in Seq(Call)
  BY <1>1, <1>2, <1>4, Shrinks DEF Upwards
<1>6. replacement'["frontend"] \in Seq(Call)
  <2>1. CASE TerminateSslRequest \/ StartNegotiation \/ NegotiationAnswered
    <3>1. replacement' = [replacement EXCEPT ![handler] = <<>>]
      BY <2>1 DEF TerminateSslRequest, StartNegotiation, NegotiationAnswered, Stop
    <3> QED BY <1>2, <3>1, EmptySeq DEF Shape, Streams, Upwards
  <2>2. CASE PassEncrypted \/ StartInClear \/ RelayOrRefuse
    <3>1. Message \in Seq(Call)
      BY <1>2, <2>2, Taken DEF PassEncrypted, StartInClear, RelayOrRefuse, Upwards
    <3>2. replacement["frontend"] \o Message \in Seq(Call)
      BY <3>1, ConcatProperties DEF Upwards
    <3>3. replacement'["frontend"] \in {replacement["frontend"] \o Message, replacement["frontend"]}
      BY <1>2, <2>2 DEF PassEncrypted, StartInClear, RelayOrRefuse, Replace, Shape, Streams
    <3> QED BY <3>2, <3>3 DEF Upwards
  <2>3. CASE RetainOrEmit
    <3>1. replacement'["frontend"] = replacement["frontend"]
      BY <1>2, <2>3 DEF RetainOrEmit, Replace, Shape, Streams
    <3> QED BY <3>1 DEF Upwards
  <2>4. CASE NegotiationDisturbed \/ LoseSync \/ Ignore
    BY <2>4 DEF NegotiationDisturbed, LoseSync, Ignore, Upwards
  <2> QED BY <2>1, <2>2, <2>3, <2>4 DEF Decode
<1>7. CASE StartNegotiation
  <2>1. Buffer \in Seq(Call)
    BY <1>7 DEF StartNegotiation, Readable, Buffer, Upwards
  <2>2. tempStorage' \in Seq(Call)
    BY <1>7, <2>1, ConcatProperties DEF StartNegotiation, Upwards
  <2>3. "own_ssl" \in ClientKinds \union {"own_ssl"} /\ 0 \in 0 .. MaxMessages
    BY KindsAssumption
  <2>4. Bytes("own_ssl", 0) \in Seq([kind : ClientKinds \union {"own_ssl"},
                                     m : 0 .. MaxMessages, part : 1 .. 3])
    BY <2>3, BytesAre
  <2>5. Over(upstreamTls, Bytes("own_ssl", 0)) \in Seq(TaggedPart)
    BY <2>4, OverIs DEF TaggedPart, Scalars
  <2>6. upstream' \in Seq(TaggedPart) /\ served \in 0 .. Len(upstream')
    BY <1>7, <2>5, Grows DEF StartNegotiation, Upwards
  <2> QED BY <1>3, <1>5, <1>6, <2>2, <2>6 DEF Upwards
<1>8. CASE NegotiationAnswered
  <2>1. CASE EncryptUpstream
    <3>1. Call \subseteq [kind : ClientKinds \union {"own_ssl"}, m : 0 .. MaxMessages, part : 1 .. 3]
      BY DEF Call
    <3>2. tempStorage \in Seq([kind : ClientKinds \union {"own_ssl"}, m : 0 .. MaxMessages,
                               part : 1 .. 3])
      BY <3>1, Widened DEF Upwards
    <3>3. Over(TRUE, tempStorage) \in Seq(TaggedPart)
      BY <3>2, OverIs DEF TaggedPart
    <3>4. upstream' \in Seq(TaggedPart) /\ served \in 0 .. Len(upstream')
      BY <2>1, <3>3, Grows DEF EncryptUpstream, Upwards
    <3>5. tempStorage' \in Seq(Call)
      BY <2>1, EmptySeq DEF EncryptUpstream
    <3> QED BY <1>3, <1>5, <1>6, <3>4, <3>5 DEF Upwards
  <2>2. CASE GiveUpUpstream
    BY <1>3, <1>5, <1>6, <2>2 DEF GiveUpUpstream, Upwards
  <2> QED BY <1>8, <2>1, <2>2 DEF NegotiationAnswered
<1>9. CASE ~ (StartNegotiation \/ NegotiationAnswered)
  <2>1. UNCHANGED <<tempStorage, upstream>>
    BY <1>9 DEF Decode, TerminateSslRequest, PassEncrypted, StartInClear,
       NegotiationDisturbed, LoseSync, Ignore, RelayOrRefuse, RetainOrEmit, outputs
  <2> QED BY <1>3, <1>5, <1>6, <2>1 DEF Upwards
<1> QED BY <1>7, <1>8, <1>9

LEMMA TurnsTake ==
  ASSUME Decode
  PROVE  /\ DropAll \/ (Drop(3) /\ Len(Buffer) >= 3)
         /\ UNCHANGED <<wire, served, answers, sent, stage, awaiting, heard>>
BY DEF Decode, TerminateSslRequest, PassEncrypted, StartInClear, StartNegotiation,
   NegotiationDisturbed, NegotiationAnswered, LoseSync, Ignore, RelayOrRefuse,
   RetainOrEmit, Readable, server, client

Between == \/ \E kind \in Kinds : ClientSends(kind)
           \/ ClientReads \/ ServerAnswers
           \/ \E side \in Sides : Receive(side)
           \/ BytesSent

(* What a client sends is a call for the message of its number.             *)
LEMMA ClientCalls ==
  ASSUME Scalars, NEW kind \in Kinds, ClientSends(kind)
  PROVE  /\ kind \in ClientKinds /\ Len(sent) + 1 \in 1 .. MaxMessages
         /\ Bytes(kind, Len(sent) + 1) \in Seq(Call)
<1>1. kind \in ClientKinds
  BY KindsAssumption
<1>2. Len(sent) + 1 \in 1 .. MaxMessages
  <2>1. Len(sent) \in Nat
    BY LenProperties DEF Scalars
  <2>2. Len(sent) < MaxMessages
    BY DEF ClientSends
  <2> QED BY <2>1, <2>2, KindsAssumption
<1>3. Bytes(kind, Len(sent) + 1) \in Seq(Call)
  BY <1>1, <1>2, BytesAre DEF Call
<1> QED BY <1>1, <1>2, <1>3

LEMMA BetweenUpwards ==
  ASSUME Shape, Scalars, Upwards, Between
  PROVE  Upwards'
<1>1. "frontend" \in Sides /\ "backend" \in Sides
  BY DEF Sides
<1>2. CASE \E kind \in Kinds : ClientSends(kind)
  <2>1. PICK kind \in Kinds : ClientSends(kind)
    BY <1>2
  <2>2. Bytes(kind, Len(sent) + 1) \in Seq(Call)
    BY <2>1, ClientCalls
  <2>3. wire["frontend"] \o Bytes(kind, Len(sent) + 1) \in Seq(Call)
    BY <2>2, ConcatProperties DEF Upwards
  <2>4. wire'["frontend"] \in Seq(Call)
    BY <1>1, <2>1, <2>3 DEF ClientSends, Shape, Streams
  <2>5. UNCHANGED <<validation, replacement, tempStorage, upstream, served>>
    BY <2>1 DEF ClientSends, server, buffers, outputs
  <2> QED BY <2>4, <2>5 DEF Upwards
<1>3. CASE ClientReads \/ BytesSent
  <2>1. UNCHANGED <<wire, validation, replacement, tempStorage, upstream, served>>
    BY <1>3 DEF ClientReads, BytesSent, server, buffers, outputs
  <2> QED BY <2>1 DEF Upwards
<1>4. CASE ServerAnswers
  <2>1. UNCHANGED <<validation, replacement, tempStorage, upstream>>
        /\ wire'["frontend"] = wire["frontend"]
    BY <1>1, <1>4 DEF ServerAnswers, buffers, outputs, Shape, Streams
  <2>2. served' \in 0 .. Len(upstream')
    <3>1. Len(upstream) >= served + 3 /\ served' = served + 3
      BY <1>4 DEF ServerAnswers
    <3>2. served \in Nat /\ Len(upstream) \in Nat
      BY LenProperties DEF Shape
    <3> QED BY <2>1, <3>1, <3>2
  <2> QED BY <2>1, <2>2 DEF Upwards
<1>5. CASE \E side \in Sides : Receive(side)
  <2>1. PICK side \in Sides : Receive(side)
    BY <1>5
  <2>2. wire'["frontend"] \in Seq(Call) /\ validation'["frontend"] \in Seq(Call)
    BY <1>1, <2>1, Flows DEF Upwards
  <2>3. UNCHANGED <<replacement, tempStorage, upstream, served>>
    BY <2>1 DEF Receive, server, outputs
  <2> QED BY <2>2, <2>3 DEF Upwards
<1> QED BY <1>2, <1>3, <1>4, <1>5 DEF Between

LEMMA FinishUpwards ==
  ASSUME Shape, Scalars, Upwards, Finish
  PROVE  Upwards'
<1>1. "frontend" \in Sides /\ "backend" \in Sides
  BY DEF Sides
<1>2. UNCHANGED <<wire, validation, tempStorage, served>>
  BY DEF Finish, server
<1>3. replacement'["frontend"] \in {<<>>, replacement["frontend"]}
  BY <1>1 DEF Finish, Nothing, Shape, Streams
<1>4. replacement'["frontend"] \in Seq(Call)
  BY <1>3, EmptySeq DEF Upwards
<1>5. upstream' \in Seq(TaggedPart) /\ served \in 0 .. Len(upstream')
  <2>1. CASE handler = "frontend"
    <3>1. Call \subseteq [kind : ClientKinds \union {"own_ssl"}, m : 0 .. MaxMessages,
                          part : 1 .. 3]
      BY DEF Call
    <3>2. replacement["frontend"] \in Seq([kind : ClientKinds \union {"own_ssl"},
                                           m : 0 .. MaxMessages, part : 1 .. 3])
      <4> DEFINE bytes == replacement["frontend"]
      <4>1. bytes \in Seq(Call)
        BY DEF Upwards
      <4> HIDE DEF bytes
      <4>2. bytes \in Seq([kind : ClientKinds \union {"own_ssl"}, m : 0 .. MaxMessages,
                           part : 1 .. 3])
        BY <3>1, <4>1, Widened
      <4> QED BY <4>2 DEF bytes
    <3>3. Over(upstreamTls, replacement["frontend"]) \in Seq(TaggedPart)
      BY <3>2, OverIs DEF TaggedPart, Scalars
    <3>4. upstream' = upstream \o Over(upstreamTls, replacement["frontend"])
      BY <2>1 DEF Finish
    <3> QED BY <3>3, <3>4, Grows DEF Upwards
  <2>2. CASE handler # "frontend"
    BY <2>2 DEF Finish, Upwards
  <2> QED BY <2>1, <2>2
<1> QED BY <1>2, <1>4, <1>5 DEF Upwards

-----------------------------------------------------------------------------
(* The way to the proxy.                                                    *)

(* What the server answers, and to what.                                    *)
LEMMA ServerReplies ==
  ASSUME Shape, Upwards, ServerAnswers
  PROVE  \E reply :
           /\ wire' = [wire EXCEPT !["backend"] = @ \o reply]
           /\ answers' = answers \o reply
           /\ reply \in Seq(Reply)
           /\ upstream[served + 1].kind \notin Calls => reply \in Seq(SessionReply)
           /\ Len(reply) = 1 \/ \A i \in DOMAIN reply : reply[i].kind # "S"
<1>1. upstream[served + 1] \in TaggedPart
  <2>1. Len(upstream) >= served + 3
    BY DEF ServerAnswers
  <2>2. served \in Nat /\ Len(upstream) \in Nat
    BY LenProperties DEF Shape
  <2>3. served + 1 \in 1 .. Len(upstream)
    BY <2>1, <2>2
  <2> QED BY <2>3, ElementOfSeq DEF Upwards
<1>2. upstream[served + 1].m \in 0 .. MaxMessages
  BY <1>1 DEF TaggedPart
<1>3. PICK reply \in Replies(upstream[served + 1].kind, upstream[served + 1].m) :
        /\ wire' = [wire EXCEPT !["backend"] = @ \o reply]
        /\ answers' = answers \o reply
  BY DEF ServerAnswers
<1>4. /\ reply \in Seq(Reply)
      /\ upstream[served + 1].kind \notin Calls => reply \in Seq(SessionReply)
      /\ Len(reply) = 1 \/ \A i \in DOMAIN reply : reply[i].kind # "S"
  BY <1>2, ServerSaysReplies
<1> QED BY <1>3, <1>4

LEMMA BackwardsKept ==
  ASSUME Shape, Upwards, Backwards, [Next]_vars
  PROVE  Backwards'
<1>1. "frontend" \in Sides /\ "backend" \in Sides
  BY DEF Sides
<1>2. CASE Decode
  <2>1. handler \in Sides
    BY <1>2, TurnsRun
  <2>2. validation'["backend"] \in Seq(Reply)
    BY <1>1, <1>2, <2>1, TurnsTake, Shrinks DEF Backwards
  <2> QED BY <1>2, <2>2, TurnsTake DEF Backwards
<1>3. CASE \E kind \in Kinds : ClientSends(kind)
  BY <1>1, <1>3 DEF ClientSends, server, buffers, Backwards, Shape, Streams
<1>4. CASE ClientReads \/ BytesSent \/ Finish \/ UNCHANGED vars
  <2>1. UNCHANGED <<wire, validation, answers>>
    BY <1>4 DEF ClientReads, BytesSent, Finish, vars, server, buffers
  <2> QED BY <2>1 DEF Backwards
<1>5. CASE ServerAnswers
  <2>1. PICK reply \in Seq(Reply) : /\ wire' = [wire EXCEPT !["backend"] = @ \o reply]
                                    /\ answers' = answers \o reply
    BY <1>5, ServerReplies
  <2>2. wire["backend"] \o reply \in Seq(Reply) /\ answers' \in Seq(Reply)
    BY <2>1, ConcatProperties DEF Backwards
  <2>3. wire'["backend"] \in Seq(Reply)
    BY <1>1, <2>1, <2>2 DEF Shape, Streams
  <2>4. UNCHANGED validation
    BY <1>5 DEF ServerAnswers, buffers
  <2> QED BY <2>2, <2>3, <2>4 DEF Backwards
<1>6. CASE \E side \in Sides : Receive(side)
  <2>1. PICK side \in Sides : Receive(side)
    BY <1>6
  <2>2. wire'["backend"] \in Seq(Reply) /\ validation'["backend"] \in Seq(Reply)
    BY <1>1, <2>1, Flows DEF Backwards
  <2>3. UNCHANGED answers
    BY <2>1 DEF Receive, server
  <2> QED BY <2>2, <2>3 DEF Backwards
<1> QED BY <1>2, <1>3, <1>4, <1>5, <1>6 DEF Next

-----------------------------------------------------------------------------
(* The way to the client.                                                   *)
WholeReplies(bytes) == bytes \in Seq(SessionReply) /\ Len(bytes) % 3 = 0

LEMMA MoreReplies ==
  ASSUME NEW first, NEW second, WholeReplies(first), WholeReplies(second)
  PROVE  WholeReplies(first \o second)
<1> DEFINE l == Len(first)
           k == Len(second)
<1>1. first \o second \in Seq(SessionReply) /\ Len(first \o second) = l + k
  BY ConcatProperties DEF WholeReplies
<1>2. l \in Nat /\ k \in Nat /\ l % 3 = 0 /\ k % 3 = 0
  BY LenProperties DEF WholeReplies
<1> HIDE DEF l, k
<1>3. (l + k) % 3 = 0
  BY <1>2
<1> QED BY <1>1, <1>3 DEF WholeReplies

LEMMA OneReply ==
  ASSUME NEW bytes \in Seq(SessionReply), Len(bytes) = 3
  PROVE  WholeReplies(bytes)
BY 3 % 3 = 0 DEF WholeReplies

LEMMA NoReply == WholeReplies(<<>>)
BY EmptySeq, 0 % 3 = 0 DEF WholeReplies

LEMMA RepliesRead ==
  ASSUME downstream \in Seq(Reply), ReadFrom(downstream, heard),
         NEW bytes, WholeReplies(bytes)
  PROVE  downstream \o bytes \in Seq(Reply) /\ ReadFrom(downstream \o bytes, heard)
<1>1. SessionReply \subseteq Reply
  BY DEF SessionReply, Reply
<1>2. bytes \in Seq(Reply)
  BY <1>1, Widened DEF WholeReplies
<1>3. ReadFrom(bytes, 0)
  BY ReadByThree DEF WholeReplies
<1> QED BY <1>2, <1>3, ReadMore, ConcatProperties

LEMMA PeersDownwards ==
  ASSUME Shape, Downwards, Between \/ Finish \/ UNCHANGED vars
  PROVE  Downwards'
<1>1. "frontend" \in Sides /\ "backend" \in Sides
  BY DEF Sides
<1>2. CASE ClientReads
  <2>1. UNCHANGED <<replacement, retained, downstream>>
    BY <1>2 DEF ClientReads, buffers, outputs
  <2>2. heard' = heard + ReadSize(downstream[heard + 1]) /\ heard < Len(downstream)
    BY <1>2 DEF ClientReads, ReadSize
  <2>3. ReadFrom(downstream, heard')
    BY <2>2, ReadOn DEF Downwards
  <2> QED BY <2>1, <2>3 DEF Downwards
<1>3. CASE Finish
  <2>1. WholeReplies(replacement["backend"])
    BY DEF Downwards, WholeReplies
  <2>2. downstream' \in Seq(Reply) /\ ReadFrom(downstream', heard)
    BY <1>3, <2>1, RepliesRead DEF Finish, Downwards
  <2>3. replacement'["backend"] = <<>>
    BY <1>1, <1>3 DEF Finish, Nothing, Shape, Streams
  <2>4. UNCHANGED <<heard, retained>>
    BY <1>3 DEF Finish, client
  <2> QED BY <2>2, <2>3, <2>4, NoReply DEF Downwards, WholeReplies
<1>4. CASE (Between /\ ~ClientReads) \/ UNCHANGED vars
  <2>1. UNCHANGED <<replacement, retained, downstream, heard>>
    BY <1>4 DEF Between, ClientSends, ServerAnswers, Receive, BytesSent, vars, client, buffers,
       outputs
  <2> QED BY <2>1 DEF Downwards
<1> QED BY <1>2, <1>3, <1>4

LEMMA StartDownwards ==
  ASSUME Shape, Upwards, Downwards,
         \/ TerminateSslRequest \/ StartNegotiation \/ NegotiationAnswered
         \/ PassEncrypted \/ StartInClear \/ NegotiationDisturbed \/ LoseSync \/ Ignore
  PROVE  Downwards'
<1>1. "frontend" \in Sides /\ "backend" \in Sides
  BY DEF Sides
<1>2. UNCHANGED <<retained, heard>>
  BY DEF TerminateSslRequest, StartNegotiation, NegotiationAnswered, PassEncrypted,
     StartInClear, NegotiationDisturbed, LoseSync, Ignore, client
<1>3. replacement'["backend"] \in {<<>>, replacement["backend"]}
  BY <1>1 DEF TerminateSslRequest, StartNegotiation, NegotiationAnswered, PassEncrypted,
     StartInClear, NegotiationDisturbed, LoseSync, Ignore, Stop, Replace, Readable, Shape,
     Streams
<1>4. WholeReplies(replacement'["backend"])
  BY <1>3, NoReply DEF WholeReplies, Downwards
<1>5. downstream' \in Seq(Reply) /\ ReadFrom(downstream', heard)
  <2>1. CASE TerminateSslRequest
    <3>1. Current \in Call
      BY <1>1, <2>1, Taken DEF TerminateSslRequest, Upwards
    <3>2. "S" \in ServerKinds /\ Current.m \in 0 .. MaxMessages
      BY <3>1 DEF Call, ServerKinds
    <3>3. Byte("S", Current.m) \in Seq(Reply)
      BY <3>2, BytesAre DEF Reply
    <3>4. ReadFrom(Byte("S", Current.m), 0)
      BY ReadOne
    <3>5. downstream' = downstream \o Byte("S", Current.m)
      BY <2>1 DEF TerminateSslRequest
    <3> QED BY <3>3, <3>4, <3>5, ReadMore, ConcatProperties DEF Downwards
  <2>2. CASE ~TerminateSslRequest
    <3>1. UNCHANGED downstream
      BY <2>2 DEF StartNegotiation, NegotiationAnswered, PassEncrypted, StartInClear,
         NegotiationDisturbed, LoseSync, Ignore, outputs
    <3> QED BY <3>1 DEF Downwards
  <2> QED BY <2>1, <2>2
<1> QED BY <1>2, <1>4, <1>5 DEF Downwards, WholeReplies

(* A query that is refused is answered with an error and that the session   *)
(* is ready.                                                                *)
LEMMA RelayDownwards ==
  ASSUME Shape, Upwards, Downwards, RelayOrRefuse
  PROVE  Downwards'
<1>1. "frontend" \in Sides /\ "backend" \in Sides
  BY DEF Sides
<1>2. UNCHANGED <<downstream, heard>>
  BY DEF RelayOrRefuse, client, outputs
<1>3. retained' \in {<<>>, retained}
  BY DEF RelayOrRefuse
<1>4. WholeReplies(retained')
  BY <1>3, NoReply DEF WholeReplies, Downwards
<1>5. WholeReplies(replacement'["backend"])
  <2> DEFINE failed == Bytes("failed", Current.m)
             ready == Bytes("ready", Current.m)
  <2>1. WholeReplies(failed) /\ WholeReplies(ready)
    <3>1. Current \in Call
      BY <1>1, Taken DEF RelayOrRefuse, Upwards
    <3>2. Current.m \in 0 .. MaxMessages
      BY <3>1 DEF Call
    <3>3. "failed" \in ServerKinds \ {"S", "N"} /\ "ready" \in ServerKinds \ {"S", "N"}
      BY DEF ServerKinds
    <3>4. failed \in Seq(SessionReply) /\ Len(failed) = 3
      BY <3>2, <3>3, BytesAre DEF SessionReply
    <3>5. ready \in Seq(SessionReply) /\ Len(ready) = 3
      BY <3>2, <3>3, BytesAre DEF SessionReply
    <3> QED BY <3>4, <3>5, OneReply
  <2> HIDE DEF failed, ready
  <2>2. WholeReplies(replacement["backend"] \o (failed \o ready))
    BY <2>1, MoreReplies DEF Downwards, WholeReplies
  <2>3. replacement'["backend"] \in {replacement["backend"],
                                     replacement["backend"] \o (failed \o ready)}
    BY <1>1 DEF RelayOrRefuse, Replace, Shape, Streams, failed, ready
  <2> QED BY <2>2, <2>3 DEF Downwards, WholeReplies
<1> QED BY <1>2, <1>4, <1>5 DEF Downwards, WholeReplies

LEMMA RetainDownwards ==
  ASSUME Shape, Downwards, RetainOrEmit, validation["backend"] \in Seq(SessionReply)
  PROVE  Downwards'
<1>1. "frontend" \in Sides /\ "backend" \in Sides
  BY DEF Sides
<1>2. UNCHANGED <<downstream, heard>>
  BY DEF RetainOrEmit, client, outputs
<1>3. WholeReplies(Message)
  <2>1. Message \in Seq(SessionReply) /\ Len(Message) = 3
    BY <1>1, Taken DEF RetainOrEmit
  <2> QED BY <2>1, OneReply
<1>4. WholeReplies(retained) /\ WholeReplies(replacement["backend"])
  BY DEF Downwards, WholeReplies
<1>5. WholeReplies(retained \o Message)
  BY <1>3, <1>4, MoreReplies
<1>6. WholeReplies(retained')
  BY <1>4, <1>5, NoReply DEF RetainOrEmit
<1>7. replacement'["backend"] \in {replacement["backend"],
                                   replacement["backend"] \o (retained \o Message),
                                   replacement["backend"] \o Message}
  BY <1>1 DEF RetainOrEmit, Replace, Shape, Streams
<1>8. WholeReplies(replacement'["backend"])
  BY <1>3, <1>4, <1>5, <1>7, MoreReplies
<1> QED BY <1>2, <1>6, <1>8 DEF Downwards, WholeReplies

(* The result that is retained is one of the session, so that its bytes are *)
(* a client's to read by three.                                             *)
LEMMA DownwardsKept == Shape /\ TypeHeld /\ [Next]_vars => Downwards'
<1> SUFFICES ASSUME Shape, TypeHeld, [Next]_vars PROVE Downwards'
  OBVIOUS
<1>1. Upwards /\ Downwards
  BY DEF TypeHeld
<1>2. CASE Decode /\ RetainOrEmit
  <2>1. ~closed
    <3>1. handler # "none"
      BY <1>2 DEF RetainOrEmit, Readable
    <3> QED BY <3>1 DEF TypeHeld, Scalars
  <2>2. validation["backend"] \in Seq(SessionReply)
    BY <1>2, <2>1 DEF RetainOrEmit, TypeHeld, ByState, Agreeing
  <2> QED BY <1>1, <1>2, <2>2, RetainDownwards
<1>3. CASE Decode /\ ~RetainOrEmit
  BY <1>1, <1>3, StartDownwards, RelayDownwards DEF Decode
<1>4. CASE ~Decode
  BY <1>1, <1>4, PeersDownwards DEF Next, Between
<1> QED BY <1>2, <1>3, <1>4

-----------------------------------------------------------------------------
(* The state of the decoder.                                                *)

LEMMA FrontsAre ==
  ASSUME Upwards
  PROVE  /\ Fronts \in Seq(Call)
         /\ \A i \in DOMAIN Fronts : i \in Nat /\ i >= 1
<1>1. Fronts \in Seq(Call)
  BY ConcatProperties DEF Upwards, Fronts
<1> QED BY <1>1, LenProperties

LEMMA LaterFresh ==
  ASSUME NEW bytes, NEW fresh, NEW later, StartupLast(bytes, fresh), later => fresh
  PROVE  StartupLast(bytes, later)
BY DEF StartupLast

Alike(bytes, kind) == \A i \in DOMAIN bytes : bytes[i].kind = kind

LEMMA StartupSent ==
  ASSUME NEW bytes \in Seq(Call), NEW more \in Seq(Call), NEW kind, NEW fresh, NEW later,
         StartupLast(bytes, fresh), later => fresh,
         Alike(more, kind),
         kind = "startup" => ~later,
         kind \in {"ssl", "gss"} => fresh
  PROVE  StartupLast(bytes \o more, later)
<1> DEFINE all == bytes \o more
           n == Len(bytes)
           l == Len(more)
<1>1. /\ DOMAIN all = 1 .. n + l /\ n \in Nat /\ l \in Nat
      /\ DOMAIN bytes = 1 .. n /\ DOMAIN more = 1 .. l
      /\ \A i \in 1 .. n + l : all[i] = IF i <= n THEN bytes[i] ELSE more[i - n]
  BY JoinedUp
<1> HIDE DEF all, n, l
<1>2. ASSUME NEW i \in DOMAIN all
      PROVE  i \in Int /\ IF i <= n THEN i \in DOMAIN bytes /\ all[i] = bytes[i]
                                    ELSE all[i].kind = kind
  <2>1. CASE i <= n
    BY <1>1, <2>1
  <2>2. CASE ~ (i <= n)
    <3>1. i - n \in DOMAIN more /\ all[i] = more[i - n]
      BY <1>1, <2>2
    <3> QED BY <1>1, <2>2, <3>1 DEF Alike
  <2> QED BY <2>1, <2>2
<1>3. ASSUME NEW i \in DOMAIN all, NEW j \in DOMAIN all, all[i].kind = "startup"
      PROVE  ~later /\ (i < j => all[j].kind \notin {"ssl", "gss"})
  <2>1. CASE i <= n
    <3>1. i \in DOMAIN bytes /\ bytes[i].kind = "startup"
      BY <1>2, <1>3, <2>1
    <3>2. ~fresh
      BY <3>1 DEF StartupLast
    <3>3. CASE j <= n
      <4>1. j \in DOMAIN bytes /\ all[j] = bytes[j]
        BY <1>2, <3>3
      <4> QED BY <3>1, <3>2, <4>1 DEF StartupLast
    <3>4. CASE ~ (j <= n)
      <4>1. all[j].kind = kind
        BY <1>2, <3>4
      <4> QED BY <3>2, <4>1
    <3> QED BY <3>3, <3>4
  <2>2. CASE ~ (i <= n)
    <3>1. kind = "startup" /\ ~later
      BY <1>2, <1>3, <2>2
    <3>2. ASSUME i < j
          PROVE  all[j].kind = kind
      <4>1. ~ (j <= n)
        BY <1>1, <1>2, <2>2, <3>2
      <4> QED BY <1>2, <4>1
    <3> QED BY <3>1, <3>2
  <2> QED BY <2>1, <2>2
<1>4. StartupLast(all, later)
  BY <1>3 DEF StartupLast
<1> QED BY <1>4 DEF all

(* A message less in front of it.                                           *)
LEMMA StartupTaken ==
  ASSUME NEW bytes \in Seq(Call), NEW more \in Seq(Call), NEW fresh, Len(bytes) >= 3,
         StartupLast(bytes \o more, fresh)
  PROVE  StartupLast(SubSeq(bytes, 4, Len(bytes)) \o more, fresh)
<1> DEFINE all == bytes \o more
           rest == SubSeq(bytes, 4, Len(bytes))
           left == rest \o more
           n == Len(bytes)
           l == Len(more)
<1>1. /\ DOMAIN all = 1 .. n + l /\ n \in Nat /\ l \in Nat /\ n >= 3
      /\ \A i \in 1 .. n + l : all[i] = IF i <= n THEN bytes[i] ELSE more[i - n]
  BY JoinedUp
<1>2. /\ rest \in Seq(Call) /\ Len(rest) = n - 3
      /\ \A i \in 1 .. n - 3 : rest[i] = bytes[3 + i]
  <2>1. 3 \in 0 .. Len(bytes) /\ 3 + 1 = 4
    BY <1>1
  <2> QED BY <2>1, Rest
<1>3. /\ DOMAIN left = 1 .. (n - 3) + l
      /\ \A i \in 1 .. (n - 3) + l :
           left[i] = IF i <= n - 3 THEN rest[i] ELSE more[i - (n - 3)]
  <2> HIDE DEF rest
  <2> QED BY <1>2, JoinedUp
<1>4. StartupLast(all, fresh)
  OBVIOUS
<1> HIDE DEF all, rest, left, n, l
<1>5. ASSUME NEW i \in DOMAIN left
      PROVE  i \in Int /\ i + 3 \in DOMAIN all /\ left[i] = all[i + 3]
  <2>1. i \in 1 .. (n - 3) + l /\ i + 3 \in 1 .. n + l
    BY <1>1, <1>3
  <2>2. CASE i <= n - 3
    <3>1. left[i] = rest[i] /\ i \in 1 .. n - 3
      BY <1>1, <1>3, <2>1, <2>2
    <3>2. rest[i] = bytes[3 + i] /\ 3 + i = i + 3
      BY <1>1, <1>2, <3>1
    <3>3. all[i + 3] = bytes[i + 3]
      BY <1>1, <2>1, <2>2
    <3> QED BY <1>1, <2>1, <3>1, <3>2, <3>3
  <2>3. CASE ~(i <= n - 3)
    <3>1. left[i] = more[i - (n - 3)]
      BY <1>3, <2>1, <2>3
    <3>2. all[i + 3] = more[(i + 3) - n]
      BY <1>1, <2>1, <2>3
    <3>3. i - (n - 3) = (i + 3) - n
      BY <1>1, <2>1
    <3> QED BY <1>1, <2>1, <3>1, <3>2, <3>3
  <2> QED BY <2>2, <2>3
<1>6. ASSUME NEW i \in DOMAIN left, NEW j \in DOMAIN left, left[i].kind = "startup"
      PROVE  ~fresh /\ (i < j => left[j].kind \notin {"ssl", "gss"})
  <2>1. i + 3 \in DOMAIN all /\ j + 3 \in DOMAIN all /\ all[i + 3].kind = "startup"
        /\ left[j] = all[j + 3] /\ (i < j => i + 3 < j + 3)
    BY <1>5, <1>6
  <2> QED BY <1>4, <2>1 DEF StartupLast
<1>7. StartupLast(left, fresh)
  BY <1>6 DEF StartupLast
<1> QED BY <1>7 DEF left, rest

(* Behind a startup there is nothing but a session.                         *)
LEMMA StartupBegins ==
  ASSUME NEW bytes \in Seq(Call), NEW more \in Seq(Call), NEW fresh, Len(bytes) >= 1,
         bytes[1].kind = "startup", StartupLast(bytes \o more, fresh)
  PROVE  ~fresh /\ bytes \in Seq(SessionCall) /\ more \in Seq(SessionCall)
<1> DEFINE all == bytes \o more
           n == Len(bytes)
           l == Len(more)
<1>1. /\ DOMAIN all = 1 .. n + l /\ n \in Nat /\ l \in Nat /\ n >= 1
      /\ DOMAIN bytes = 1 .. n /\ DOMAIN more = 1 .. l
      /\ \A i \in 1 .. n + l : all[i] = IF i <= n THEN bytes[i] ELSE more[i - n]
  BY JoinedUp
<1>2. /\ \A i \in DOMAIN bytes : bytes[i] \in Call
      /\ \A i \in DOMAIN more : more[i] \in Call
  BY <1>1, ElementOfSeq
<1>3. StartupLast(all, fresh) /\ bytes[1].kind = "startup"
  OBVIOUS
<1> HIDE DEF all, n, l
<1>4. 1 \in DOMAIN all /\ all[1].kind = "startup"
  BY <1>1, <1>3
<1>5. \A j \in DOMAIN all : ~fresh /\ all[j].kind \notin {"ssl", "gss"}
  <2> TAKE j \in DOMAIN all
  <2>1. j = 1 \/ 1 < j
    BY <1>1
  <2> QED BY <1>3, <1>4, <2>1 DEF StartupLast
<1>6. \A i \in DOMAIN bytes : bytes[i] \in SessionCall
  <2> TAKE i \in DOMAIN bytes
  <2>1. i \in DOMAIN all /\ all[i] = bytes[i]
    BY <1>1
  <2>2. bytes[i].kind \notin {"ssl", "gss"}
    BY <1>5, <2>1
  <2> QED BY <1>2, <2>2 DEF Call, SessionCall
<1>7. \A i \in DOMAIN more : more[i] \in SessionCall
  <2> TAKE i \in DOMAIN more
  <2>1. n + i \in DOMAIN all /\ all[n + i] = more[i]
    BY <1>1
  <2>2. more[i].kind \notin {"ssl", "gss"}
    BY <1>5, <2>1
  <2> QED BY <1>2, <2>2 DEF Call, SessionCall
<1> QED BY <1>4, <1>5, <1>6, <1>7, Narrowed

(* A client grows no younger.                                               *)
LEMMA FreshOnce == Scalars /\ [Next]_vars => (Fresh' => Fresh)
<1> SUFFICES ASSUME Scalars, [Next]_vars, Fresh' PROVE Fresh
  OBVIOUS
<1>1. CASE \E kind \in Kinds : ClientSends(kind)
  <2>1. PICK kind \in Kinds : ClientSends(kind)
    BY <1>1
  <2>2. stage' \in {"ended", "session", stage} /\ (Patient => ~awaiting)
    BY <2>1 DEF ClientSends
  <2> QED BY <2>2 DEF Fresh
<1>2. CASE ClientReads
  <2> DEFINE kind == downstream[heard + 1].kind
  <2>1. stage' = StageAfter(kind)
        /\ awaiting' = (awaiting /\ kind \notin {"S", "N", "authreq", "ready"})
    BY <1>2 DEF ClientReads
  <2> HIDE DEF kind
  <2>2. kind \notin {"S", "N", "authreq", "ready"} /\ stage' = stage
    BY <2>1 DEF StageAfter, Fresh
  <2> QED BY <2>1, <2>2 DEF Fresh
<1>3. CASE ~ (ClientReads \/ \E kind \in Kinds : ClientSends(kind))
  <2>1. UNCHANGED <<stage, awaiting>>
    BY <1>3, TurnsTake DEF Next, ServerAnswers, Receive, Finish, BytesSent, vars, client
  <2> QED BY <2>1 DEF Fresh
<1> QED BY <1>1, <1>2, <1>3

(* What the state of the decoder says of the rest.                          *)
StateVars == <<stage, awaiting, wire, validation, replacement, tempStorage, upstream, served,
               state, closed>>

LEMMA SameByState == ByState /\ UNCHANGED StateVars => ByState'
<1> SUFFICES ASSUME ByState, UNCHANGED StateVars PROVE ByState'
  OBVIOUS
<1>1. UNCHANGED <<Fresh, Fronts, Backs>>
  BY DEF StateVars, Fresh, Fronts, Backs
<1>2. NotBegun => NotBegun'
  BY <1>1 DEF StateVars, NotBegun
<1>3. InSession => InSession'
  BY <1>1 DEF StateVars, InSession
<1>4. Undecided => Undecided'
  BY <1>1, <1>3 DEF StateVars, Undecided
<1>5. Agreeing => Agreeing'
  BY <1>3 DEF StateVars, Agreeing, NoCallUnserved
<1> QED BY <1>2, <1>4, <1>5 DEF StateVars, ByState

LEMMA ClosedByState == closed' => ByState'
BY DEF ByState

LEMMA LeftByState ==
  ASSUME state' \in {"OutOfSyncState", "EncryptedState"}
  PROVE  ByState'
BY DEF ByState

LEMMA ClientSendsByState ==
  ASSUME Shape, TypeHeld, NEW kind \in Kinds, ClientSends(kind)
  PROVE  ByState'
<1>1. "frontend" \in Sides /\ "backend" \in Sides
  BY DEF Sides
<1>2. Upwards /\ Scalars /\ ByState /\ ~closed
  BY DEF TypeHeld, ClientSends, Quiet
<1> DEFINE more == Bytes(kind, Len(sent) + 1)
<1>3. more \in Seq(Call) /\ Alike(more, kind)
  BY <1>2, ClientCalls DEF Bytes, Alike
<1>4. /\ UNCHANGED <<validation, replacement, tempStorage, upstream, served, state, closed>>
      /\ wire'["frontend"] = wire["frontend"] \o more
      /\ wire'["backend"] = wire["backend"]
  BY <1>1 DEF ClientSends, server, buffers, outputs, transports, Shape, Streams
<1>5. kind \in {"ssl", "gss"} => Fresh
  BY DEF ClientSends, Sendable, Fresh
<1>6. Fresh' => Fresh
  BY <1>2, FreshOnce DEF Next
<1>7. kind = "startup" => ~Fresh'
  <2>1. ASSUME kind = "startup"
        PROVE  awaiting' /\ (~Patient => stage' = "session")
    BY <2>1 DEF ClientSends
  <2> QED BY <2>1 DEF Fresh
<1>8. CASE state = "InitState"
  <2>1. NotBegun
    BY <1>2, <1>8 DEF ByState
  <2>2. Fronts' = Fronts \o more
    <3> DEFINE old == validation["frontend"]
               way == wire["frontend"]
    <3>1. old \in Seq(Call) /\ way \in Seq(Call)
      BY <1>2 DEF Upwards
    <3> HIDE DEF more, old, way
    <3>2. (old \o way) \o more = old \o (way \o more)
      BY <1>3, <3>1, ConcatAssociative
    <3> QED BY <1>4, <3>2 DEF Fronts, old, way
  <2>3. StartupLast(Fronts, Fresh)
    BY <2>1 DEF NotBegun
  <2>4. StartupLast(Fronts \o more, Fresh')
    <3>1. Fronts \in Seq(Call)
      BY <1>2, FrontsAre
    <3> DEFINE fresh == Fresh
               later == Fresh'
    <3>2. StartupLast(Fronts, fresh) /\ (later => fresh) /\ (kind = "startup" => ~later)
          /\ (kind \in {"ssl", "gss"} => fresh)
      BY <1>5, <1>6, <1>7, <2>3
    <3> HIDE DEF fresh, later, more
    <3>3. StartupLast(Fronts \o more, later)
      BY <1>3, <3>1, <3>2, StartupSent
    <3> QED BY <3>3 DEF later
  <2>5. StartupLast(Fronts, Fresh)'
    BY <2>2, <2>4
  <2>6. NotBegun'
    BY <1>4, <2>1, <2>5 DEF NotBegun
  <2> QED BY <1>4, <1>8, <2>6 DEF ByState
<1>9. CASE state \in {"NegotiatingUpstreamSSL", "InSyncState"}
  <2>1. InSession
    BY <1>2, <1>9 DEF ByState, Undecided, Agreeing
  <2>2. more \in Seq(SessionCall)
    <3>1. kind \notin {"ssl", "gss"}
      BY <1>5, <2>1 DEF InSession
    <3>2. SessionCall = [kind : ClientKinds \ {"ssl", "gss"}, m : 1 .. MaxMessages, part : 1 .. 3]
      BY DEF SessionCall
    <3>3. kind \in ClientKinds \ {"ssl", "gss"} /\ Len(sent) + 1 \in 1 .. MaxMessages
      BY <1>2, <3>1, ClientCalls
    <3> QED BY <3>2, <3>3, BytesAre
  <2> HIDE DEF more
  <2>3. wire["frontend"] \o more \in Seq(SessionCall)
    BY <2>1, <2>2, ConcatProperties DEF InSession
  <2>4. InSession'
    BY <1>4, <1>6, <2>1, <2>3 DEF InSession
  <2>5. Undecided => Undecided'
    BY <1>4, <2>4 DEF Undecided, Backs
  <2>6. Agreeing => Agreeing'
    BY <1>4, <2>4 DEF Agreeing, NoCallUnserved
  <2> QED BY <1>2, <1>4, <1>9, <2>5, <2>6 DEF ByState
<1>10. CASE state \notin {"InitState", "NegotiatingUpstreamSSL", "InSyncState"}
  BY <1>4, <1>10 DEF ByState
<1> QED BY <1>8, <1>9, <1>10

LEMMA ClientReadsByState ==
  ASSUME TypeHeld, ClientReads
  PROVE  ByState'
<1>1. Fresh' => Fresh
  BY FreshOnce DEF TypeHeld, Next
<1>2. UNCHANGED <<wire, validation, replacement, tempStorage, upstream, served, state, closed>>
  BY DEF ClientReads, server, buffers, outputs, transports
<1>3. ByState
  BY DEF TypeHeld
<1>4. NotBegun => NotBegun'
  <2>1. ASSUME StartupLast(Fronts, Fresh)
        PROVE  StartupLast(Fronts, Fresh')
    <3> DEFINE fresh == Fresh
               later == Fresh'
    <3>1. StartupLast(Fronts, fresh) /\ (later => fresh)
      BY <1>1, <2>1
    <3> HIDE DEF fresh, later
    <3>2. StartupLast(Fronts, later)
      BY <3>1, LaterFresh
    <3> QED BY <3>2 DEF later
  <2>2. Fronts' = Fronts
    BY <1>2 DEF Fronts
  <2> QED BY <1>2, <2>1, <2>2 DEF NotBegun
<1>5. InSession => InSession'
  BY <1>1, <1>2 DEF InSession
<1>6. Undecided => Undecided'
  BY <1>2, <1>5 DEF Undecided, Backs
<1>7. Agreeing => Agreeing'
  BY <1>2, <1>5 DEF Agreeing, NoCallUnserved
<1> QED BY <1>2, <1>3, <1>4, <1>6, <1>7 DEF ByState

LEMMA ServerAnswersByState ==
  ASSUME Shape, TypeHeld, ServerAnswers
  PROVE  ByState'
<1>1. "frontend" \in Sides /\ "backend" \in Sides
  BY DEF Sides
<1>2. ByState /\ Upwards /\ ~closed
  BY DEF TypeHeld, ServerAnswers, Quiet
<1>3. PICK reply :
        /\ wire' = [wire EXCEPT !["backend"] = @ \o reply]
        /\ reply \in Seq(Reply)
        /\ upstream[served + 1].kind \notin Calls => reply \in Seq(SessionReply)
        /\ Len(reply) = 1 \/ \A i \in DOMAIN reply : reply[i].kind # "S"
  BY <1>2, ServerReplies
<1>4. /\ UNCHANGED <<stage, awaiting, validation, replacement, tempStorage, upstream, state,
                     closed>>
      /\ wire'["frontend"] = wire["frontend"] /\ wire'["backend"] = wire["backend"] \o reply
      /\ served' = served + 3 /\ Len(upstream) >= served + 3
  BY <1>1, <1>3 DEF ServerAnswers, client, buffers, outputs, transports, Shape, Streams
<1>5. served \in Nat /\ Len(upstream) \in Nat
  BY LenProperties DEF Shape
<1>6. Fresh' = Fresh /\ (InSession => InSession')
  BY <1>4 DEF InSession, Fresh
<1>7. ~NotBegun
  <2>1. Len(<<>>) = 0 /\ ~ (0 >= 0 + 3)
    BY EmptySeq
  <2> QED BY <1>4, <2>1 DEF NotBegun
<1>8. Undecided => Undecided'
  <2> SUFFICES ASSUME Undecided PROVE Undecided'
    OBVIOUS
  <2>1. Backs = <<>> /\ Len(upstream) = served + 3
    BY <1>4, <1>5 DEF Undecided
  <2>2. validation["backend"] = <<>> /\ wire["backend"] = <<>>
    BY <2>1, ConcatProperties, LenProperties, EmptySeq DEF Backs, Shape, Streams, Sides
  <2>3. Backs' = reply
    <3>1. <<>> \o reply = reply
      BY <1>3, ConcatEmptySeq
    <3> QED BY <1>4, <2>2, <3>1 DEF Backs
  <2>4. served' = Len(upstream)
    BY <1>4, <2>1
  <2>5. Len(Backs') = 1 \/ \A i \in DOMAIN Backs' : Backs'[i].kind # "S"
    BY <1>3, <2>3
  <2> QED BY <1>4, <1>6, <2>4, <2>5 DEF Undecided
<1>9. Agreeing => Agreeing'
  <2> SUFFICES ASSUME Agreeing PROVE Agreeing'
    OBVIOUS
  <2>1. served + 1 \in served + 1 .. Len(upstream)
    BY <1>4, <1>5
  <2>2. upstream[served + 1] \in SessionSent
    BY <2>1 DEF Agreeing, NoCallUnserved
  <2>3. upstream[served + 1].kind \notin Calls
    BY <2>2 DEF SessionSent, ClientKinds, Calls
  <2>4. wire["backend"] \o reply \in Seq(SessionReply)
    BY <1>3, <2>3, ConcatProperties DEF Agreeing
  <2>5. NoCallUnserved'
    <3>1. served' + 1 .. Len(upstream) \subseteq served + 1 .. Len(upstream)
      BY <1>4, <1>5
    <3> QED BY <1>4, <3>1 DEF NoCallUnserved, Agreeing
  <2> QED BY <1>4, <1>6, <2>4, <2>5 DEF Agreeing
<1> QED BY <1>2, <1>4, <1>7, <1>8, <1>9 DEF ByState

LEMMA StreamsReceived ==
  ASSUME Shape, NEW side \in Sides, Receive(side)
  PROVE  Fronts' = Fronts /\ Backs' = Backs
<1>1. "frontend" \in Sides /\ "backend" \in Sides
  BY DEF Sides
<1>2. PICK n \in 1 .. Len(wire[side]) :
        /\ validation' = [validation EXCEPT ![side] = @ \o SubSeq(wire[side], 1, n)]
        /\ wire' = [wire EXCEPT ![side] = SubSeq(@, n + 1, Len(@))]
  BY DEF Receive
<1>3. wire[side] \in Seq(Piece) /\ validation[side] \in Seq(Piece)
      /\ n \in 0 .. Len(wire[side])
  BY LenProperties DEF Shape, Streams
<1> DEFINE first == SubSeq(wire[side], 1, n)
           rest == SubSeq(wire[side], n + 1, Len(wire[side]))
<1>4. first \in Seq(Piece) /\ rest \in Seq(Piece) /\ wire[side] = first \o rest
  <2>1. first \in Seq(Piece) /\ rest \in Seq(Piece)
    BY <1>3, Beginning, Rest
  <2> QED BY <1>3, <2>1, Split
<1>5. validation'[side] = validation[side] \o first /\ wire'[side] = rest
  BY <1>2 DEF Shape, Streams
<1>6. \A other \in Sides \ {side} : validation'[other] = validation[other]
                                    /\ wire'[other] = wire[other]
  BY <1>2 DEF Shape, Streams
<1>7. validation'[side] \o wire'[side] = validation[side] \o wire[side]
  <2> DEFINE old == validation[side]
  <2>1. old \in Seq(Piece)
    BY <1>3
  <2> HIDE DEF first, rest, old
  <2>2. (old \o first) \o rest = old \o (first \o rest)
    BY <1>4, <2>1, ConcatAssociative
  <2> QED BY <1>4, <1>5, <2>2 DEF old
<1> QED BY <1>1, <1>6, <1>7 DEF Fronts, Backs, Sides

LEMMA ReceiveByState ==
  ASSUME Shape, TypeHeld, NEW side \in Sides, Receive(side)
  PROVE  ByState'
<1>1. "frontend" \in Sides /\ "backend" \in Sides
  BY DEF Sides
<1>2. ByState /\ ~closed
  BY DEF TypeHeld, Receive, Quiet
<1>3. UNCHANGED <<stage, awaiting, replacement, tempStorage, upstream, served, state, closed>>
  BY DEF Receive, client, server, outputs, transports
<1>4. Fronts' = Fronts /\ Backs' = Backs /\ Fresh' = Fresh
  BY <1>3, StreamsReceived DEF Fresh
<1>5. NotBegun => NotBegun'
  <2> SUFFICES ASSUME NotBegun PROVE NotBegun'
    OBVIOUS
  <2>1. side # "backend"
    <3>1. Len(<<>>) = 0 /\ 1 .. 0 = {}
      BY EmptySeq
    <3> QED BY <3>1 DEF Receive, NotBegun
  <2>2. wire'["backend"] = wire["backend"] /\ validation'["backend"] = validation["backend"]
    BY <1>1, <2>1 DEF Receive, Shape, Streams
  <2> QED BY <1>3, <1>4, <2>2 DEF NotBegun
<1>6. InSession => InSession'
  <2> SUFFICES ASSUME InSession PROVE InSession'
    OBVIOUS
  <2>1. wire["frontend"] \in Seq(SessionCall) /\ validation["frontend"] \in Seq(SessionCall)
    BY DEF InSession
  <2>2. wire'["frontend"] \in Seq(SessionCall) /\ validation'["frontend"] \in Seq(SessionCall)
    BY <1>1, <2>1, Flows
  <2> QED BY <1>4, <2>2 DEF InSession
<1>7. Undecided => Undecided'
  BY <1>3, <1>4, <1>6 DEF Undecided
<1>8. Agreeing => Agreeing'
  <2> SUFFICES ASSUME Agreeing PROVE Agreeing'
    OBVIOUS
  <2>1. wire["backend"] \in Seq(SessionReply) /\ validation["backend"] \in Seq(SessionReply)
    BY DEF Agreeing
  <2>2. wire'["backend"] \in Seq(SessionReply) /\ validation'["backend"] \in Seq(SessionReply)
    BY <1>1, <2>1, Flows
  <2> QED BY <1>3, <1>6, <2>2 DEF Agreeing, NoCallUnserved
<1> QED BY <1>2, <1>3, <1>5, <1>7, <1>8 DEF ByState

(* What is written to the server in a session is no call for encryption.    *)
LEMMA SessionSentOn ==
  ASSUME upstream \in Seq(TaggedPart), served \in 0 .. Len(upstream), NoCallUnserved,
         NEW bytes \in Seq(SessionCall), NEW tls \in BOOLEAN,
         upstream' = upstream \o Over(tls, bytes), served' = served
  PROVE  NoCallUnserved'
<1> DEFINE more == Over(tls, bytes)
           n == Len(upstream)
           l == Len(more)
<1>1. SessionCall \subseteq [kind : ClientKinds \ {"ssl", "gss"}, m : 0 .. MaxMessages,
                             part : 1 .. 3]
  BY DEF SessionCall
<1>2. bytes \in Seq([kind : ClientKinds \ {"ssl", "gss"}, m : 0 .. MaxMessages, part : 1 .. 3])
  BY <1>1, Widened
<1>3. more \in Seq(SessionSent)
  BY <1>2, OverIs DEF SessionSent
<1>4. SessionSent \subseteq TaggedPart
  BY DEF SessionSent, TaggedPart
<1>5. more \in Seq(TaggedPart)
  BY <1>3, <1>4, Widened
<1>6. \A i \in 1 .. l : more[i] \in SessionSent
  BY <1>3, ElementOfSeq
<1> HIDE DEF more
<1>7. /\ Len(upstream') = n + l /\ n \in Nat /\ l \in Nat
      /\ \A i \in 1 .. n + l : upstream'[i] = IF i <= n THEN upstream[i] ELSE more[i - n]
  BY <1>5, ConcatProperties, LenProperties DEF more
<1>8. served \in 0 .. n /\ \A i \in served + 1 .. n : upstream[i] \in SessionSent
  BY DEF NoCallUnserved
<1> HIDE DEF n, l
<1>9. ASSUME NEW i \in served + 1 .. n + l
      PROVE  upstream'[i] \in SessionSent
  <2>1. i \in 1 .. n + l
    BY <1>7, <1>8
  <2>2. CASE i <= n
    BY <1>7, <1>8, <2>1, <2>2
  <2>3. CASE ~ (i <= n)
    <3>1. i - n \in 1 .. l /\ upstream'[i] = more[i - n]
      BY <1>7, <2>1, <2>3
    <3> QED BY <1>6, <3>1
  <2> QED BY <2>2, <2>3
<1> QED BY <1>7, <1>9 DEF NoCallUnserved

LEMMA NothingOver ==
  ASSUME NEW tls \in BOOLEAN
  PROVE  Over(tls, <<>>) = <<>>
<1>1. <<>> \in Seq([kind : {}, m : {}, part : 1 .. 3]) /\ Len(<<>>) = 0
  BY EmptySeq
<1>2. /\ Over(tls, <<>>) \in Seq([kind : {}, m : {}, part : 1 .. 3, tls : BOOLEAN])
      /\ Len(Over(tls, <<>>)) = 0
  BY <1>1, OverIs
<1> QED BY <1>2, EmptySeq

LEMMA FinishByState ==
  ASSUME Shape, TypeHeld, Finish
  PROVE  ByState'
<1>1. "frontend" \in Sides /\ "backend" \in Sides
  BY DEF Sides
<1>2. ByState /\ Upwards
  BY DEF TypeHeld
<1>3. UNCHANGED <<stage, awaiting, wire, validation, tempStorage, served, state, closed>>
  BY DEF Finish, client, server, transports
<1>4. Fronts' = Fronts /\ Backs' = Backs /\ Fresh' = Fresh /\ (InSession => InSession')
  BY <1>3 DEF Fresh, Fronts, Backs, InSession
<1>5. /\ replacement'["frontend"] \in {<<>>, replacement["frontend"]}
      /\ upstream' \in {upstream, upstream \o Over(upstreamTls, replacement["frontend"])}
  BY <1>1 DEF Finish, Nothing, Shape, Streams
<1>6. ASSUME replacement["frontend"] = <<>>
      PROVE  replacement'["frontend"] = <<>> /\ upstream' = upstream
  <2>1. Over(upstreamTls, <<>>) = <<>>
    BY NothingOver DEF TypeHeld, Scalars
  <2>2. upstream \o <<>> = upstream
    BY <1>2, ConcatEmptySeq DEF Upwards
  <2> QED BY <1>5, <1>6, <2>1, <2>2
<1>7. NotBegun => NotBegun'
  BY <1>3, <1>4, <1>6 DEF NotBegun
<1>8. Undecided => Undecided'
  BY <1>3, <1>4, <1>6 DEF Undecided
<1>9. Agreeing => Agreeing'
  <2> SUFFICES ASSUME Agreeing PROVE Agreeing'
    OBVIOUS
  <2>1. replacement'["frontend"] \in Seq(SessionCall)
    BY <1>5, EmptySeq DEF Agreeing
  <2>2. NoCallUnserved'
    <3>1. CASE upstream' = upstream
      BY <1>3, <3>1 DEF Agreeing, NoCallUnserved
    <3>2. CASE upstream' = upstream \o Over(upstreamTls, replacement["frontend"])
      <4>1. replacement["frontend"] \in Seq(SessionCall) /\ NoCallUnserved
            /\ upstreamTls \in BOOLEAN /\ served' = served
            /\ upstream \in Seq(TaggedPart) /\ served \in 0 .. Len(upstream)
        BY <1>2, <1>3 DEF Agreeing, TypeHeld, Scalars, Upwards
      <4> QED BY <3>2, <4>1, SessionSentOn
    <3> QED BY <1>5, <3>1, <3>2
  <2> QED BY <1>3, <1>4, <2>1, <2>2 DEF Agreeing
<1> QED BY <1>2, <1>3, <1>7, <1>8, <1>9 DEF ByState

LEMMA BytesSentByState ==
  ASSUME TypeHeld, BytesSent
  PROVE  ByState'
<1>1. CASE closed'
  BY <1>1, ClosedByState
<1>2. CASE ~closed'
  <2>1. closed' = closed
    BY <1>2 DEF BytesSent, Quiet, TypeHeld, Scalars
  <2>2. UNCHANGED <<stage, awaiting, wire, validation, replacement, tempStorage, upstream,
                    served, state>>
    BY DEF BytesSent, client, server, buffers, outputs
  <2> QED BY <2>1, <2>2, SameByState DEF TypeHeld, StateVars
<1> QED BY <1>1, <1>2

-----------------------------------------------------------------------------
(* The beginnings of a connection.                                          *)
LEMMA BeginsAt ==
  ASSUME Shape, TypeHeld, Decode
  PROVE  /\ "frontend" \in Sides /\ "backend" \in Sides /\ handler \in Sides
         /\ ~closed /\ ByState /\ Upwards
         /\ UNCHANGED <<wire, served, stage, awaiting>> /\ Fresh' = Fresh
<1>1. handler \in Sides
  BY TurnsRun
<1>2. ~closed /\ ByState /\ Upwards
  BY <1>1 DEF TypeHeld, Scalars, Sides
<1>3. UNCHANGED <<wire, served, stage, awaiting>>
  BY TurnsTake
<1> QED BY <1>1, <1>2, <1>3 DEF Sides, Fresh

LEMMA TerminateByState ==
  ASSUME Shape, TypeHeld, TerminateSslRequest
  PROVE  ByState'
<1>1. /\ "frontend" \in Sides /\ "backend" \in Sides
      /\ ~closed /\ ByState /\ Upwards
      /\ UNCHANGED <<wire, served, stage, awaiting>> /\ Fresh' = Fresh
  BY BeginsAt DEF Decode
<1>2. state = "InitState" /\ handler = "frontend" /\ Len(Buffer) >= 3
  BY DEF TerminateSslRequest, Readable
<1>3. NotBegun
  BY <1>1, <1>2 DEF ByState
<1>4. UNCHANGED <<tempStorage, upstream, state, closed>>
  BY DEF TerminateSslRequest
<1>5. replacement'["frontend"] = <<>>
  BY <1>1, <1>2 DEF TerminateSslRequest, Stop, Shape, Streams
<1> DEFINE old == validation["frontend"]
           way == wire["frontend"]
<1>6. validation'["frontend"] = SubSeq(old, 4, Len(old)) /\ Len(old) >= 3
      /\ validation'["backend"] = validation["backend"]
  <2>1. validation' = [validation EXCEPT ![handler] = SubSeq(@, 3 + 1, Len(@))] /\ 3 + 1 = 4
    BY DEF TerminateSslRequest, Drop
  <2> QED BY <1>1, <1>2, <2>1 DEF Shape, Streams, Buffer
<1>7. old \in Seq(Call) /\ way \in Seq(Call)
  BY <1>1 DEF Upwards
<1>8. StartupLast(old \o way, Fresh)
  BY <1>3 DEF NotBegun, Fronts
<1>9. StartupLast(SubSeq(old, 4, Len(old)) \o way, Fresh)
  <2> HIDE DEF old, way
  <2> QED BY <1>6, <1>7, <1>8, StartupTaken
<1>10. StartupLast(Fronts, Fresh)'
  BY <1>1, <1>6, <1>9 DEF Fronts
<1>11. NotBegun'
  BY <1>1, <1>3, <1>4, <1>5, <1>6, <1>10 DEF NotBegun
<1> QED BY <1>2, <1>4, <1>11 DEF ByState

(* A startup that is looked at is the end of what may be encrypted.         *)
LEMMA StartupSeen ==
  ASSUME Shape, TypeHeld, StartInClear \/ StartNegotiation
  PROVE  /\ InSession /\ NotBegun
         /\ Message \in Seq(SessionCall) /\ Buffer \in Seq(SessionCall)
         /\ validation'["frontend"] \in Seq(SessionCall)
<1>1. "frontend" \in Sides /\ "backend" \in Sides /\ handler \in Sides
      /\ ~closed /\ ByState /\ Upwards
  BY BeginsAt DEF Decode
<1>2. state = "InitState" /\ Readable("frontend") /\ Current.kind = "startup" /\ Drop(3)
  BY DEF StartInClear, StartNegotiation
<1>3. handler = "frontend" /\ Len(Buffer) >= 3
  BY <1>2 DEF Readable
<1>4. NotBegun
  BY <1>1, <1>2 DEF ByState
<1> DEFINE old == validation["frontend"]
           way == wire["frontend"]
<1>5. old \in Seq(Call) /\ way \in Seq(Call) /\ old = Buffer
  BY <1>1, <1>3 DEF Upwards, Buffer
<1>6. Len(old) >= 1 /\ old[1].kind = "startup"
  <2>1. Len(Buffer) \in Nat
    BY <1>5, LenProperties
  <2>2. Current = Buffer[1]
    BY <1>3, <1>5, <2>1 DEF Current
  <2> QED BY <1>2, <1>3, <1>5, <2>1, <2>2
<1>7. StartupLast(old \o way, Fresh)
  BY <1>4 DEF NotBegun, Fronts
<1>8. ~Fresh /\ old \in Seq(SessionCall) /\ way \in Seq(SessionCall)
  <2> HIDE DEF old, way
  <2> QED BY <1>5, <1>6, <1>7, StartupBegins
<1>9. Message \in Seq(SessionCall)
  BY <1>1, <1>2, <1>8, Taken
<1>10. validation'["frontend"] \in Seq(SessionCall)
  BY <1>1, <1>2, <1>3, <1>8, Shrinks
<1> QED BY <1>4, <1>5, <1>8, <1>9, <1>10 DEF InSession

LEMMA StartInClearByState ==
  ASSUME Shape, TypeHeld, StartInClear
  PROVE  ByState'
<1>1. /\ "frontend" \in Sides /\ "backend" \in Sides /\ handler \in Sides
      /\ ~closed /\ ByState /\ Upwards
      /\ UNCHANGED <<wire, served, stage, awaiting>> /\ Fresh' = Fresh
  BY BeginsAt DEF Decode
<1>2. /\ InSession /\ NotBegun
      /\ Message \in Seq(SessionCall)
      /\ validation'["frontend"] \in Seq(SessionCall)
  BY StartupSeen
<1>3. InSession'
  BY <1>1, <1>2 DEF InSession
<1>4. replacement'["frontend"] \in Seq(SessionCall)
  <2>1. replacement'["frontend"] = <<>> \o Message
    BY <1>1, <1>2 DEF StartInClear, Replace, Shape, Streams, NotBegun
  <2> QED BY <1>2, <2>1, ConcatEmptySeq
<1>5. NoCallUnserved'
  <2>1. UNCHANGED upstream
    BY DEF StartInClear, outputs
  <2>2. upstream' = <<>> /\ served' = 0 /\ Len(<<>>) = 0 /\ 0 + 1 .. 0 = {}
    BY <1>1, <1>2, <2>1, EmptySeq DEF NotBegun
  <2> QED BY <2>2 DEF NoCallUnserved
<1>6. wire'["backend"] = <<>> /\ validation'["backend"] = <<>>
  BY <1>1, <1>2 DEF StartInClear, Readable, Drop, Shape, Streams, NotBegun
<1>7. Agreeing'
  BY <1>3, <1>4, <1>5, <1>6, EmptySeq DEF Agreeing
<1>8. state' = "InSyncState"
  BY DEF StartInClear
<1> QED BY <1>7, <1>8 DEF ByState

LEMMA StartNegotiationByState ==
  ASSUME Shape, TypeHeld, StartNegotiation
  PROVE  ByState'
<1>1. /\ "frontend" \in Sides /\ "backend" \in Sides /\ handler \in Sides
      /\ ~closed /\ ByState /\ Upwards
      /\ UNCHANGED <<wire, served, stage, awaiting>> /\ Fresh' = Fresh
  BY BeginsAt DEF Decode
<1>2. /\ InSession /\ NotBegun
      /\ Buffer \in Seq(SessionCall)
      /\ validation'["frontend"] \in Seq(SessionCall)
  BY StartupSeen
<1>3. InSession'
  BY <1>1, <1>2 DEF InSession
<1>4. tempStorage' \in Seq(SessionCall)
  <2>1. tempStorage' = <<>> \o Buffer
    BY <1>2 DEF StartNegotiation, NotBegun
  <2> QED BY <1>2, <2>1, ConcatEmptySeq
<1>5. replacement'["frontend"] = <<>>
  BY <1>1 DEF StartNegotiation, Readable, Stop, Shape, Streams
<1>6. Backs' = <<>>
  <2>1. wire'["backend"] = <<>> /\ validation'["backend"] = <<>>
    BY <1>1, <1>2 DEF StartNegotiation, Readable, Drop, Shape, Streams, NotBegun
  <2> QED BY <2>1, EmptySeq, ConcatEmptySeq DEF Backs
<1>7. Len(upstream') = served' + 3
  <2> DEFINE own == Over(upstreamTls, Bytes("own_ssl", 0))
  <2>1. own \in Seq(TaggedPiece) /\ Len(own) = 3
    <3>1. Bytes("own_ssl", 0) \in Seq(Piece) /\ Len(Bytes("own_ssl", 0)) = 3
      BY BytesArePieces
    <3> QED BY <3>1, OverIsTagged DEF Shape
  <2>2. upstream' = <<>> \o own /\ served' = 0
    BY <1>1, <1>2 DEF StartNegotiation, NotBegun
  <2> HIDE DEF own
  <2>3. upstream' = own
    BY <2>1, <2>2, ConcatEmptySeq
  <2> QED BY <2>1, <2>2, <2>3, 0 + 3 = 3
<1>8. Undecided'
  BY <1>3, <1>4, <1>5, <1>6, <1>7 DEF Undecided
<1>9. state' = "NegotiatingUpstreamSSL"
  BY DEF StartNegotiation
<1> QED BY <1>8, <1>9 DEF ByState

(* The one byte of the agreement is all there is of the server: what comes  *)
(* behind it is a session.                                                  *)
LEMMA NegotiationAnsweredByState ==
  ASSUME Shape, TypeHeld, NegotiationAnswered
  PROVE  ByState'
<1>1. /\ "frontend" \in Sides /\ "backend" \in Sides /\ handler \in Sides
      /\ ~closed /\ ByState /\ Upwards
      /\ UNCHANGED <<wire, served, stage, awaiting>> /\ Fresh' = Fresh
  BY BeginsAt DEF Decode
<1>2. state = "NegotiatingUpstreamSSL" /\ handler = "backend" /\ Buffer # <<>> /\ DropAll
  BY DEF NegotiationAnswered
<1>3. CASE GiveUpUpstream
  BY <1>3, ClosedByState DEF GiveUpUpstream
<1>4. CASE Agreed /\ EncryptUpstream
  <2>1. Undecided
    BY <1>1, <1>2 DEF ByState
  <2> DEFINE old == validation["backend"]
             way == wire["backend"]
  <2>2. old \in Seq(Reply) /\ way \in Seq(Reply) /\ old = Buffer
    BY <1>2 DEF TypeHeld, Backwards, Buffer
  <2>3. Len(old) = 1 /\ old[1].kind = "S"
    BY <1>4, <2>2 DEF Agreed, Current
  <2>4. Backs = old \o way
    BY DEF Backs
  <2>5. /\ DOMAIN Backs = 1 .. Len(old) + Len(way) /\ Len(way) \in Nat
        /\ Len(Backs) = Len(old) + Len(way)
        /\ \A i \in 1 .. Len(old) + Len(way) :
             Backs[i] = IF i <= Len(old) THEN old[i] ELSE way[i - Len(old)]
    <3> HIDE DEF old, way
    <3> QED BY <2>2, <2>4, JoinedUp, ConcatProperties
  <2> HIDE DEF old, way
  <2>6. 1 \in DOMAIN Backs /\ Backs[1].kind = "S"
    BY <2>3, <2>5
  <2>7. Backs # <<>>
    BY <2>6
  <2>8. served = Len(upstream) /\ Len(Backs) = 1
    BY <2>1, <2>6, <2>7 DEF Undecided
  <2>9. way = <<>>
    <3>1. Len(way) = 0
      <4> DEFINE l == Len(way)
      <4>1. l \in Nat /\ 1 = 1 + l
        BY <2>3, <2>5, <2>8
      <4> HIDE DEF l
      <4>2. l = 0
        BY <4>1
      <4> QED BY <4>2 DEF l
    <3> QED BY <2>2, <3>1, EmptySeq
  <2>10. wire'["backend"] = <<>> /\ validation'["backend"] = <<>>
         /\ validation'["frontend"] = validation["frontend"]
    BY <1>1, <1>2, <2>9 DEF DropAll, Shape, Streams, way
  <2>11. InSession'
    BY <1>1, <2>1, <2>10 DEF Undecided, InSession
  <2>12. replacement'["frontend"] = <<>>
    BY <1>1, <1>2, <2>1 DEF NegotiationAnswered, Stop, Shape, Streams, Undecided
  <2>13. NoCallUnserved'
    <3>1. tempStorage \in Seq(SessionCall) /\ TRUE \in BOOLEAN /\ served' = served
          /\ upstream' = upstream \o Over(TRUE, tempStorage)
          /\ upstream \in Seq(TaggedPart) /\ served \in 0 .. Len(upstream)
      BY <1>1, <1>4, <2>1 DEF Undecided, EncryptUpstream, Upwards
    <3>2. NoCallUnserved
      <4>1. Len(upstream) \in Nat
        BY <3>1, LenProperties
      <4>2. served + 1 .. Len(upstream) = {}
        BY <2>8, <4>1
      <4> QED BY <4>2 DEF NoCallUnserved
    <3> QED BY <3>1, <3>2, SessionSentOn
  <2>14. Agreeing'
    BY <2>10, <2>11, <2>12, <2>13, EmptySeq DEF Agreeing
  <2>15. state' = "InSyncState"
    BY <1>4 DEF EncryptUpstream
  <2> QED BY <2>14, <2>15 DEF ByState
<1> QED BY <1>3, <1>4 DEF NegotiationAnswered

-----------------------------------------------------------------------------
(* The session.                                                             *)
LEMMA SessionByState ==
  ASSUME Shape, TypeHeld, RelayOrRefuse \/ RetainOrEmit
  PROVE  ByState'
<1>1. /\ "frontend" \in Sides /\ "backend" \in Sides /\ handler \in Sides
      /\ ~closed /\ ByState /\ Upwards
      /\ UNCHANGED <<wire, served, stage, awaiting>> /\ Fresh' = Fresh
  BY BeginsAt DEF Decode
<1>2. state = "InSyncState" /\ UNCHANGED <<upstream, state>> /\ Drop(3) /\ Len(Buffer) >= 3
  BY DEF RelayOrRefuse, RetainOrEmit, Readable, outputs
<1>3. Agreeing
  BY <1>1, <1>2 DEF ByState
<1>4. /\ validation["frontend"] \in Seq(SessionCall)
      /\ validation["backend"] \in Seq(SessionReply)
      /\ replacement["frontend"] \in Seq(SessionCall)
  BY <1>3 DEF Agreeing, InSession
<1>5. /\ validation'["frontend"] \in Seq(SessionCall)
      /\ validation'["backend"] \in Seq(SessionReply)
  BY <1>1, <1>2, <1>4, Shrinks
<1>6. replacement'["frontend"] \in Seq(SessionCall)
  <2>1. CASE RelayOrRefuse
    <3>1. Message \in Seq(SessionCall)
      BY <1>1, <1>4, <2>1, Taken DEF RelayOrRefuse
    <3>2. replacement["frontend"] \o Message \in Seq(SessionCall)
      BY <1>4, <3>1, ConcatProperties
    <3>3. replacement'["frontend"] \in {replacement["frontend"] \o Message,
                                        replacement["frontend"]}
      BY <1>1, <2>1 DEF RelayOrRefuse, Replace, Shape, Streams
    <3> QED BY <1>4, <3>2, <3>3
  <2>2. CASE RetainOrEmit
    <3>1. replacement'["frontend"] = replacement["frontend"]
      BY <1>1, <2>2 DEF RetainOrEmit, Replace, Shape, Streams
    <3> QED BY <1>4, <3>1
  <2> QED BY <2>1, <2>2
<1>7. Agreeing'
  BY <1>1, <1>2, <1>3, <1>5, <1>6 DEF Agreeing, InSession, NoCallUnserved
<1> QED BY <1>2, <1>7 DEF ByState

LEMMA IgnoreByState ==
  ASSUME PassEncrypted \/ NegotiationDisturbed \/ LoseSync \/ Ignore
  PROVE  ByState'
BY LeftByState DEF PassEncrypted, NegotiationDisturbed, LoseSync, Ignore

LEMMA ByStateKept == Shape /\ TypeHeld /\ [Next]_vars => ByState'
<1> SUFFICES ASSUME Shape, TypeHeld, [Next]_vars PROVE ByState'
  OBVIOUS
<1>1. CASE Between
  BY <1>1, ClientSendsByState, ClientReadsByState, ServerAnswersByState, ReceiveByState,
     BytesSentByState DEF Between
<1>2. CASE Finish
  BY <1>2, FinishByState
<1>3. CASE Decode
  BY <1>3, TerminateByState, StartInClearByState, StartNegotiationByState,
     NegotiationAnsweredByState, SessionByState, IgnoreByState DEF Decode
<1>4. CASE UNCHANGED vars
  BY <1>4, SameByState DEF TypeHeld, StateVars, vars, client, server, buffers, outputs,
     transports
<1> QED BY <1>1, <1>2, <1>3, <1>4 DEF Next, Between

LEMMA NextTypes == Shape /\ TypeHeld /\ [Next]_vars => TypeHeld'
<1> SUFFICES ASSUME Shape, TypeHeld, [Next]_vars PROVE TypeHeld'
  OBVIOUS
<1>1. Scalars /\ Upwards /\ Backwards
  BY DEF TypeHeld
<1>2. Upwards'
  <2>1. CASE UNCHANGED vars
    BY <1>1, <2>1 DEF Upwards, vars, server, buffers, outputs
  <2> QED BY <1>1, <2>1, BetweenUpwards, FinishUpwards, DecodeUpwards DEF Next, Between
<1> QED BY <1>1, <1>2, ScalarsKept, BackwardsKept, DownwardsKept, ByStateKept DEF TypeHeld

(* Every variable of the connection has its type, whatever the client       *)
(* sends, waiting or not, however the stream is cut (postgres_filter.cc):   *)
(* the client reads no further than what was written to it, because a       *)
(* single byte is the answer to a request to encrypt only.                  *)
THEOREM ConnectionIsTyped == Spec => []TypeOK
<1>1. Init => Shape /\ TypeHeld
  BY InitShape, InitTypes
<1>2. Shape /\ TypeHeld /\ [Next]_vars => (Shape /\ TypeHeld)'
  BY NextKeepsShape, NextTypes
<1>3. Shape /\ TypeHeld => TypeOK
  BY TypeOKIsHeld
<1> QED BY <1>1, <1>2, <1>3, PTL DEF Spec
=============================================================================
