----------------------------- MODULE SessionProofs -----------------------------
(***************************************************************************)
(* Theorems about Connection with a client that waits for its answers: one *)
(* message or its answer is under way, the ASSERTs of the handlers hold,   *)
(* the decoder stays in sync, and each byte is relayed once and in order.  *)
(***************************************************************************)
EXTENDS ConnectionProofs

(* What was sent and what was heard.                                        *)
Streamed == downstream \in Seq(Piece) /\ answers \in Seq(Piece) /\ heard \in Nat

LEMMA InitStreamed == Init => Streamed
BY EmptySeq DEF Init, Streamed

LEMMA NextStreamed ==
  ASSUME Shape, Streamed, [Next]_vars
  PROVE  Streamed'
<1>1. CASE ServerAnswers
  <2>1. upstream[served + 1] \in TaggedPiece
    <3>1. served + 1 \in 1 .. Len(upstream) /\ upstream \in Seq(TaggedPiece)
      BY <1>1, LenProperties DEF ServerAnswers, Shape
    <3> QED BY <3>1, ElementOfSeq
  <2>2. PICK reply \in Replies(upstream[served + 1].kind, upstream[served + 1].m) :
          answers' = answers \o reply
    BY <1>1 DEF ServerAnswers
  <2>3. reply \in Seq(Piece)
    BY <2>1, RepliesArePieces DEF TaggedPiece
  <2> QED BY <1>1, <2>2, <2>3, ConcatProperties DEF ServerAnswers, Streamed, client, outputs
<1>2. CASE Finish
  <2>1. replacement["backend"] \in Seq(Piece)
    BY DEF Shape, Streams, Sides
  <2> QED BY <1>2, <2>1, ConcatProperties DEF Finish, Streamed, client, server
<1>3. CASE TerminateSslRequest
  <2>1. Current \in Piece
    BY <1>3, WholeMessage DEF TerminateSslRequest, Sides
  <2>2. Byte("S", Current.m) \in Seq(Piece)
    BY <2>1, BytesArePieces DEF Piece, ServerKinds
  <2> QED BY <1>3, <2>2, ConcatProperties DEF TerminateSslRequest, Streamed, client, server
<1>4. CASE ClientReads
  BY <1>4 DEF ClientReads, Streamed, server, outputs
<1>5. CASE Decode /\ ~TerminateSslRequest
  <2>1. UNCHANGED <<downstream, answers, heard>>
    BY <1>5 DEF Decode, PassEncrypted, StartInClear, StartNegotiation, NegotiationDisturbed,
       NegotiationAnswered, LoseSync, Ignore, RelayOrRefuse, RetainOrEmit, client, server,
       outputs
  <2> QED BY <2>1 DEF Streamed
<1>6. CASE \/ \E kind \in Kinds : ClientSends(kind)
           \/ \E side \in Sides : Receive(side)
           \/ BytesSent \/ UNCHANGED vars
  <2>1. UNCHANGED <<downstream, answers, heard>>
    BY <1>6 DEF ClientSends, Receive, BytesSent, vars, client, server, outputs
  <2> QED BY <2>1 DEF Streamed
<1> QED BY <1>1, <1>2, <1>3, <1>4, <1>5, <1>6 DEF Next

-----------------------------------------------------------------------------

(* Where a connection is: what decides between the phases.                  *)

(* A closed connection does nothing any more.                               *)
LEMMA ClosedIsOver ==
  ASSUME closed, handler = "none", [Next]_vars
  PROVE  UNCHANGED vars
<1>1. ~Quiet /\ ~Running
  BY DEF Quiet, Running
<1>2. ~(\E kind \in Kinds : ClientSends(kind)) /\ ~ClientReads /\ ~ServerAnswers
      /\ ~(\E side \in Sides : Receive(side)) /\ ~BytesSent
  BY <1>1 DEF ClientSends, ClientReads, ServerAnswers, Receive, BytesSent
<1>3. ~Finish
  BY <1>1 DEF Finish
<1>4. ~Decode
  BY <1>1 DEF Decode, TerminateSslRequest, PassEncrypted, StartInClear, StartNegotiation,
     NegotiationDisturbed, NegotiationAnswered, LoseSync, Ignore, RelayOrRefuse,
     RetainOrEmit, Readable, Running
<1> QED BY <1>2, <1>3, <1>4 DEF Next

LEMMA AtTheFront ==
  ASSUME OneUnderWay, ~closed, validation["frontend"] # <<>> \/ wire["frontend"] # <<>>
  PROVE  Arriving \/ LostSync
BY DEF OneUnderWay, Resting, Negotiating, Leaving, AtServer, Answered, Passing, FrontEmpty

LEMMA AtTheBack ==
  ASSUME OneUnderWay, ~closed, validation["backend"] # <<>> \/ wire["backend"] # <<>>
  PROVE  \/ Negotiating /\ served = Len(upstream)
         \/ Answered /\ state = "InSyncState"
         \/ Passing
BY DEF OneUnderWay, Resting, Arriving, Negotiating, Leaving, AtServer, Answered, LostSync,
   BackEmpty

(* The buffers of a side without data.                                      *)
LEMMA BothEmpty ==
  ASSUME Shape, replacement["frontend"] = <<>>, replacement["backend"] = <<>>
  PROVE  replacement = Nothing
BY DEF Shape, Streams, Nothing, Sides

LEMMA NothingIsEmpty ==
  /\ Nothing["frontend"] = <<>> /\ Nothing["backend"] = <<>>
  /\ "frontend" \in Sides /\ "backend" \in Sides
BY DEF Nothing, Sides

(* What has not come to its place: from the server to the client.           *)
Behind == validation["backend"] \o wire["backend"]

LEMMA ComingRegrouped ==
  ASSUME Shape
  PROVE  /\ Behind \in Seq(Piece) /\ replacement["backend"] \in Seq(Piece)
         /\ retained \in Seq(Piece)
         /\ replacement["backend"] \o retained \in Seq(Piece)
         /\ Coming = (replacement["backend"] \o retained) \o Behind
         /\ Coming \in Seq(Piece)
         /\ BackEmpty => Coming = <<>>
         /\ Coming = <<>> => BackEmpty
<1>1. /\ validation["backend"] \in Seq(Piece) /\ wire["backend"] \in Seq(Piece)
      /\ replacement["backend"] \in Seq(Piece) /\ retained \in Seq(Piece)
  BY DEF Shape, Streams, Sides
<1> DEFINE v == validation["backend"]
           w == wire["backend"]
           r == replacement["backend"]
<1>2. v \in Seq(Piece) /\ w \in Seq(Piece) /\ r \in Seq(Piece) /\ retained \in Seq(Piece)
  BY <1>1
<1> HIDE DEF v, w, r
<1>3. r \o retained \in Seq(Piece) /\ v \o w \in Seq(Piece)
  BY <1>2, ConcatProperties
<1>4. ((r \o retained) \o v) \o w = (r \o retained) \o (v \o w)
  BY <1>2, <1>3, Regrouped
<1>5. (r \o retained) \o (v \o w) \in Seq(Piece)
  BY <1>3, ConcatProperties
<1>6. (r \o retained) \o (v \o w) = <<>> => r = <<>> /\ retained = <<>> /\ v = <<>> /\ w = <<>>
  BY <1>2, <1>3, ConcatEqualIffEmpty
<1>7. r = <<>> /\ retained = <<>> /\ v = <<>> /\ w = <<>> => (r \o retained) \o (v \o w) = <<>>
  BY <1>2, <1>3, ConcatEqualIffEmpty
<1> QED BY <1>2, <1>3, <1>4, <1>5, <1>6, <1>7 DEF v, w, r, Behind, Coming, BackEmpty

(* What is to be read by the client.                                        *)
LEMMA UnreadIsTheRest ==
  ASSUME Streamed, heard <= Len(downstream)
  PROVE  /\ Unread \in Seq(Piece) /\ Len(Unread) = Len(downstream) - heard
         /\ Len(downstream) \in Nat /\ DOMAIN downstream = 1 .. Len(downstream)
         /\ \A i \in 1 .. Len(downstream) - heard : Unread[i] = downstream[heard + i]
         /\ heard = Len(downstream) <=> Unread = <<>>
<1>1. Len(downstream) \in Nat /\ heard \in 0 .. Len(downstream)
      /\ DOMAIN downstream = 1 .. Len(downstream) /\ downstream \in Seq(Piece)
  BY LenProperties DEF Streamed
<1>2. /\ Unread \in Seq(Piece) /\ Len(Unread) = Len(downstream) - heard
      /\ \A i \in 1 .. Len(downstream) - heard : Unread[i] = downstream[heard + i]
  BY <1>1, Rest DEF Unread
<1>3. Unread = <<>> => Len(Unread) = 0
  BY EmptySeq
<1>4. Len(Unread) = 0 => Unread = <<>>
  BY <1>2, EmptySeq
<1>5. Len(Unread) = 0 <=> heard = Len(downstream)
  <2> DEFINE all == Len(downstream)
             left == Len(Unread)
  <2>1. left = all - heard /\ all \in Nat /\ heard \in 0 .. all
    BY <1>1, <1>2
  <2> HIDE DEF all, left
  <2>2. left = 0 <=> heard = all
    BY <2>1
  <2> QED BY <2>2 DEF all, left
<1> QED BY <1>1, <1>2, <1>3, <1>4, <1>5

-----------------------------------------------------------------------------
(* One message under way: every action moves it on, or leaves it where it   *)
(* is.                                                                      *)
PhaseVars == <<config, sent, stage, awaiting, wire, validation, replacement, state,
               tempStorage, retained, upstream, served, downstream, heard>>

LEMMA SentIsThree ==
  ASSUME Shape, sent # <<>>
  PROVE  /\ Len(sent) \in Nat /\ Len(sent) \in 1 .. Len(sent) /\ LastKind \in ClientKinds
         /\ LastSent \in Seq(Piece) /\ Len(LastSent) = 3 /\ LastSent # <<>>
         /\ \A p \in 1 .. 3 : LastSent[p] = [kind |-> LastKind, m |-> Len(sent), part |-> p]
<1>1. Len(sent) \in Nat /\ Len(sent) \in 1 .. Len(sent)
  BY EmptySeq DEF Shape
<1>2. LastKind \in ClientKinds
  BY <1>1, ElementOfSeq DEF Shape, LastKind
<1>3. /\ LastSent \in Seq(Piece) /\ Len(LastSent) = 3
      /\ \A p \in 1 .. 3 : LastSent[p] = [kind |-> LastKind, m |-> Len(sent), part |-> p]
  BY <1>1, <1>2, BytesArePieces DEF LastSent, LastKind
<1>4. LastSent # <<>>
  <2>1. Len(LastSent) # 0
    BY <1>3
  <2> QED BY <2>1, EmptySeq
<1> QED BY <1>1, <1>2, <1>3, <1>4

LEMMA SamePhase ==
  ASSUME Shape, OneUnderWay, ~closed, ~closed', UNCHANGED PhaseVars,
         handler' = handler \/ replacement["frontend"] = <<>>
  PROVE  OneUnderWay'
<1> USE DEF PhaseVars, FrontEmpty, BackEmpty, Waiting, LastKind, LastSent, Forwardable
<1>1. CASE Resting
  <2>1. Resting'
    BY <1>1 DEF Resting
  <2> QED BY <2>1 DEF OneUnderWay
<1>2. CASE Arriving
  <2>1. Arriving'
    BY <1>2 DEF Arriving
  <2> QED BY <2>1 DEF OneUnderWay
<1>3. CASE Negotiating
  <2>1. Negotiating'
    BY <1>3 DEF Negotiating
  <2> QED BY <2>1 DEF OneUnderWay
<1>4. CASE Leaving
  <2>1. handler' = handler
    BY <1>4, SentIsThree DEF Leaving
  <2>2. Leaving'
    BY <1>4, <2>1 DEF Leaving
  <2> QED BY <2>2 DEF OneUnderWay
<1>5. CASE AtServer
  <2>1. AtServer'
    BY <1>5 DEF AtServer
  <2> QED BY <2>1 DEF OneUnderWay
<1>6. CASE Answered
  <2>1. Answered'
    BY <1>6 DEF Answered, Unread, Coming, Proper, InMessages
  <2> QED BY <2>1 DEF OneUnderWay
<1>7. CASE Passing
  <2>1. Passing'
    BY <1>7 DEF Passing, ForServer
  <2> QED BY <2>1 DEF OneUnderWay
<1>8. CASE LostSync
  <2>1. LostSync'
    BY <1>8 DEF LostSync
  <2> QED BY <2>1 DEF OneUnderWay
<1> QED BY <1>1, <1>2, <1>3, <1>4, <1>5, <1>6, <1>7, <1>8 DEF OneUnderWay

(* A client that waits sends only when all is at rest.                      *)
LEMMA SendsFromRest ==
  ASSUME Patient, OneUnderWay, NEW kind \in Kinds, ClientSends(kind)
  PROVE  Resting
<1>1. ~closed /\ ~awaiting /\ Sendable(kind)
  BY DEF ClientSends, Quiet
<1>2. stage # "ended"
  BY <1>1 DEF Sendable
<1>3. ~Waiting
  BY <1>1, <1>2 DEF Waiting
<1>4. ~Arriving /\ ~Leaving /\ ~AtServer /\ ~Passing
  BY <1>3 DEF Arriving, Leaving, AtServer, Passing, Forwardable
<1>5. ~Negotiating /\ ~Answered /\ ~LostSync
  BY <1>1 DEF Negotiating, Answered, LostSync
<1> QED BY <1>1, <1>4, <1>5 DEF OneUnderWay

LEMMA ClientSendsOne ==
  ASSUME Patient, Shape, OneUnderWay, NEW kind \in Kinds, ClientSends(kind)
  PROVE  Arriving' /\ ~closed'
<1>1. Resting /\ ~closed /\ Sendable(kind)
  BY SendsFromRest DEF ClientSends, Quiet
<1>2. kind \in ClientKinds /\ sent \in Seq(ClientKinds)
      /\ Len(sent) \in Nat /\ Len(sent) + 1 \in Nat
  BY KindsAssumption, LenProperties DEF Shape
<1>3. /\ sent' # <<>> /\ Len(sent') = Len(sent) + 1 /\ LastKind' = kind
  BY <1>2, AppendProperties DEF ClientSends, LastKind
<1>4. /\ Bytes(kind, Len(sent) + 1) \in Seq(Piece)
      /\ LastSent' = Bytes(kind, Len(sent) + 1)
  <2>1. LastSent' = Bytes(kind, Len(sent) + 1)
    BY <1>3 DEF LastSent, LastKind
  <2>2. Bytes(kind, Len(sent) + 1) \in Seq(Piece)
    BY <1>2, BytesArePieces
  <2> QED BY <2>1, <2>2
<1>5. validation'["frontend"] = <<>> /\ wire'["frontend"] = <<>> \o Bytes(kind, Len(sent) + 1)
  BY <1>1 DEF ClientSends, Resting, FrontEmpty, buffers, Shape, Streams, Sides
<1>6. validation'["frontend"] \o wire'["frontend"] = LastSent'
  BY <1>4, <1>5, ConcatEmptySeq
<1>7. Waiting'
  BY <1>3 DEF ClientSends, Waiting
<1>8. wire'["backend"] = wire["backend"]
  BY DEF ClientSends, Shape, Streams, Sides
<1>9. UNCHANGED <<heard, served, validation, replacement, upstream, downstream, closed,
                  state, tempStorage, retained>>
  BY DEF ClientSends, server, buffers, outputs, transports
<1>10. /\ replacement'["frontend"] = <<>> /\ tempStorage' = <<>> /\ BackEmpty'
       /\ served' = Len(upstream') /\ heard' = Len(downstream')
  BY <1>1, <1>8, <1>9 DEF Resting, FrontEmpty, BackEmpty
<1>11. \/ state = "InitState" /\ kind \in {"ssl", "gss", "cancel", "startup", "oversized"}
       \/ /\ state = "InSyncState"
          /\ kind \in {"password", "short_password", "query", "refused", "terminate"}
  BY <1>1, <1>2 DEF Resting, Sendable, ClientKinds
<1> QED BY <1>1, <1>3, <1>6, <1>7, <1>9, <1>10, <1>11 DEF Arriving

-----------------------------------------------------------------------------
(* A message at the beginning of a stream, and the answer behind it.        *)
LEMMA TakenOff ==
  ASSUME NEW bytes \in Seq(Piece), NEW later \in Seq(Piece), Len(bytes) >= 3,
         NEW all, all = bytes \o later,
         NEW left, left = SubSeq(bytes, 4, Len(bytes)) \o later
  PROVE  /\ all \in Seq(Piece) /\ left \in Seq(Piece)
         /\ SubSeq(bytes, 1, 3) \in Seq(Piece) /\ SubSeq(bytes, 4, Len(bytes)) \in Seq(Piece)
         /\ bytes = SubSeq(bytes, 1, 3) \o SubSeq(bytes, 4, Len(bytes))
         /\ Len(left) \in Nat /\ Len(all) = Len(left) + 3
         /\ DOMAIN all = 1 .. Len(left) + 3 /\ DOMAIN left = 1 .. Len(left)
         /\ \A i \in 1 .. Len(left) : left[i] = all[i + 3]
         /\ \A i \in 1 .. 3 : all[i] = bytes[i]
<1> DEFINE rest == SubSeq(bytes, 4, Len(bytes))
<1>1. Len(bytes) \in Nat /\ Len(later) \in Nat /\ 3 \in 0 .. Len(bytes) /\ 3 + 1 = 4
  BY LenProperties
<1>2. /\ rest \in Seq(Piece) /\ Len(rest) = Len(bytes) - 3
      /\ \A i \in 1 .. Len(bytes) - 3 : rest[i] = bytes[3 + i]
  BY <1>1, Rest
<1>3. SubSeq(bytes, 1, 3) \in Seq(Piece)
  BY <1>1, Beginning
<1>4. SubSeq(bytes, 1, 3) \o rest = bytes
  <2>1. 1 \in 1 .. Len(bytes) + 1 /\ 3 \in 1 - 1 .. Len(bytes) /\ Len(bytes) \in 3 .. Len(bytes)
    BY <1>1
  <2>2. SubSeq(bytes, 1, 3) \o SubSeq(bytes, 3 + 1, Len(bytes)) = SubSeq(bytes, 1, Len(bytes))
    BY <2>1, ConcatAdjacentSubSeq
  <2> QED BY <1>1, <2>2, SubSeqFull
<1> HIDE DEF rest
<1>5. /\ all \in Seq(Piece) /\ DOMAIN all = 1 .. Len(bytes) + Len(later)
      /\ \A i \in 1 .. Len(bytes) + Len(later) :
           all[i] = IF i <= Len(bytes) THEN bytes[i] ELSE later[i - Len(bytes)]
  BY JoinedUp
<1>6. /\ left \in Seq(Piece) /\ DOMAIN left = 1 .. Len(rest) + Len(later)
      /\ \A i \in 1 .. Len(rest) + Len(later) :
           left[i] = IF i <= Len(rest) THEN rest[i] ELSE later[i - Len(rest)]
  <2>1. left = rest \o later
    BY DEF rest
  <2>2. /\ rest \o later \in Seq(Piece) /\ Len(rest \o later) = Len(rest) + Len(later)
        /\ \A i \in 1 .. Len(rest) + Len(later) :
             (rest \o later)[i] = IF i <= Len(rest) THEN rest[i] ELSE later[i - Len(rest)]
    BY <1>2, ConcatProperties
  <2>3. DOMAIN (rest \o later) = 1 .. Len(rest \o later)
    BY <2>2, LenProperties
  <2> QED BY <2>1, <2>2, <2>3
<1>7. Len(left) = Len(rest) + Len(later) /\ Len(all) = Len(bytes) + Len(later)
  <2>1. Len(left) = Len(rest) + Len(later)
    BY <1>2, ConcatProperties DEF rest
  <2> QED BY <2>1, ConcatProperties
<1>8. ASSUME NEW i \in 1 .. Len(left)
      PROVE  left[i] = all[i + 3]
  <2>1. CASE i <= Len(rest)
    <3>1. left[i] = rest[i] /\ i \in 1 .. Len(bytes) - 3
      BY <1>1, <1>2, <1>6, <1>7, <2>1
    <3>2. i + 3 \in 1 .. Len(bytes) + Len(later) /\ i + 3 <= Len(bytes) /\ 3 + i = i + 3
      BY <1>1, <3>1
    <3>3. rest[i] = bytes[3 + i] /\ all[i + 3] = bytes[i + 3]
      BY <1>2, <1>5, <3>1, <3>2
    <3> QED BY <3>1, <3>2, <3>3
  <2>2. CASE ~(i <= Len(rest))
    <3>1. left[i] = later[i - Len(rest)]
      BY <1>6, <1>7, <2>2
    <3>2. /\ i + 3 \in 1 .. Len(bytes) + Len(later) /\ ~(i + 3 <= Len(bytes))
          /\ i - Len(rest) = (i + 3) - Len(bytes)
      BY <1>1, <1>2, <1>7, <2>2
    <3> QED BY <1>5, <3>1, <3>2
  <2> QED BY <2>1, <2>2
<1>9. Len(left) \in Nat /\ Len(all) = Len(left) + 3
  BY <1>1, <1>2, <1>7
<1>10. \A i \in 1 .. 3 : all[i] = bytes[i]
  BY <1>1, <1>5
<1>11. DOMAIN all = 1 .. Len(left) + 3 /\ DOMAIN left = 1 .. Len(left)
  BY <1>5, <1>6, <1>7, <1>9
<1> QED BY <1>2, <1>3, <1>4, <1>5, <1>6, <1>8, <1>9, <1>10, <1>11 DEF rest

LEMMA FirstMessage ==
  ASSUME NEW bytes \in Seq(Piece), bytes # <<>>, InMessages(bytes)
  PROVE  /\ Len(bytes) >= 3 /\ bytes[1].part = 1
         /\ \A i \in 1 .. 3 : bytes[i].kind = bytes[1].kind
<1>1. DOMAIN bytes = 1 .. Len(bytes) /\ Len(bytes) \in Nat \ {0}
  BY LenProperties, EmptySeq
<1>2. 1 \in DOMAIN bytes
  BY <1>1
<1>3. bytes[1].part = 1
  BY <1>2 DEF InMessages
<1>4. 1 + 2 \in DOMAIN bytes /\ bytes[1 + 1].kind = bytes[1].kind /\ bytes[1 + 2].kind = bytes[1].kind
  BY <1>2, <1>3 DEF InMessages
<1>5. \A i \in 1 .. 3 : i = 1 \/ i = 2 \/ i = 3
  OBVIOUS
<1> QED BY <1>1, <1>3, <1>4, <1>5

AnswerKinds == {"row", "complete", "failed", "authreq", "ready"}

LEMMA KindsOfAnswers ==
  ASSUME NEW answer, Proper(answer), NEW i \in DOMAIN answer
  PROVE  answer[i].kind \in AnswerKinds
BY DEF Proper, Follows, AnswerKinds

LEMMA ProperBehind ==
  ASSUME NEW all, NEW left, NEW n \in Nat, Proper(all),
         DOMAIN all = 1 .. n + 3, DOMAIN left = 1 .. n,
         \A i \in 1 .. n : left[i] = all[i + 3]
  PROVE  Proper(left)
<1> SUFFICES ASSUME NEW i \in 1 .. n
             PROVE  IF i + 3 \in DOMAIN left
                      THEN <<left[i].kind, left[i + 3].kind>> \in Follows
                      ELSE left[i].kind \in {"authreq", "ready"}
  BY DEF Proper
<1>1. i + 3 \in DOMAIN all /\ left[i] = all[i + 3]
  OBVIOUS
<1>2. IF (i + 3) + 3 \in DOMAIN all
        THEN <<all[i + 3].kind, all[(i + 3) + 3].kind>> \in Follows
        ELSE all[i + 3].kind \in {"authreq", "ready"}
  BY <1>1 DEF Proper
<1>3. CASE i + 3 \in 1 .. n
  <2>1. (i + 3) + 3 \in DOMAIN all /\ left[i + 3] = all[(i + 3) + 3]
    BY <1>3
  <2> QED BY <1>1, <1>2, <1>3, <2>1
<1>4. CASE i + 3 \notin 1 .. n
  <2>1. (i + 3) + 3 \notin DOMAIN all
    BY <1>4
  <2> QED BY <1>1, <1>2, <1>4, <2>1
<1> QED BY <1>3, <1>4

(* One stream of messages behind another.                                   *)
LEMMA MessagesJoined ==
  ASSUME NEW first \in Seq(Piece), NEW second \in Seq(Piece),
         InMessages(first), InMessages(second)
  PROVE  InMessages(first \o second)
<1> DEFINE both == first \o second
           n == Len(first)
<1>1. /\ DOMAIN both = 1 .. n + Len(second)
      /\ n \in Nat /\ Len(second) \in Nat
      /\ DOMAIN first = 1 .. n /\ DOMAIN second = 1 .. Len(second)
      /\ \A i \in 1 .. n + Len(second) : both[i] = IF i <= n THEN first[i] ELSE second[i - n]
  BY JoinedUp
<1> HIDE DEF both, n
<1>2. SUFFICES ASSUME NEW i \in DOMAIN both
               PROVE  /\ i = 1 => both[i].part = 1
                      /\ both[i].part = 1 => /\ i + 2 \in DOMAIN both
                                             /\ both[i + 1].kind = both[i].kind
                                             /\ both[i + 2].kind = both[i].kind
                                             /\ both[i + 2].part = 3
                      /\ both[i].part = 3 /\ i + 1 \in DOMAIN both => both[i + 1].part = 1
                      /\ both[i].part # 3 => i + 1 \in DOMAIN both
  BY DEF InMessages, both
<1>3. CASE i <= n
  <2>1. i \in DOMAIN first /\ both[i] = first[i] /\ i \in Int
    BY <1>1, <1>3
  <2>2. i + 1 \in DOMAIN first => i + 1 \in DOMAIN both /\ both[i + 1] = first[i + 1]
    BY <1>1, <2>1
  <2>3. i + 2 \in DOMAIN first =>
          /\ i + 2 \in DOMAIN both /\ both[i + 2] = first[i + 2]
          /\ i + 1 \in DOMAIN first
    BY <1>1, <2>1
  <2>4. CASE i + 1 \in DOMAIN first
    BY <2>1, <2>2, <2>3, <2>4 DEF InMessages
  <2>5. CASE i + 1 \notin DOMAIN first
    <3>1. i = n
      BY <1>1, <2>1, <2>5
    <3>2. both[i].part = 3
      BY <2>1, <2>5 DEF InMessages
    <3>3. ASSUME i + 1 \in DOMAIN both
          PROVE  both[i + 1].part = 1
      <4>1. 1 \in DOMAIN second /\ both[i + 1] = second[1]
        BY <1>1, <3>1, <3>3
      <4> QED BY <4>1 DEF InMessages
    <3>4. i = 1 => both[i].part = 1
      BY <2>1 DEF InMessages
    <3> QED BY <3>2, <3>3, <3>4
  <2> QED BY <2>4, <2>5
<1>4. CASE ~(i <= n)
  <2>2. i - n \in DOMAIN second /\ both[i] = second[i - n]
    BY <1>1, <1>4
  <2>3. i + 1 \in DOMAIN both <=> (i - n) + 1 \in DOMAIN second
    BY <1>1, <1>4
  <2>4. i + 1 \in DOMAIN both => both[i + 1] = second[(i - n) + 1]
    BY <1>1, <1>4
  <2>5. /\ i + 2 \in DOMAIN both <=> (i - n) + 2 \in DOMAIN second
        /\ i + 2 \in DOMAIN both =>
             both[i + 2] = second[(i - n) + 2] /\ i + 1 \in DOMAIN both
    BY <1>1, <1>4
  <2>6. i = 1 => i - n = 1
    BY <1>1, <1>4
  <2> QED BY <2>2, <2>3, <2>4, <2>5, <2>6 DEF InMessages
<1> QED BY <1>1, <1>3, <1>4

LEMMA RestOfRest ==
  ASSUME NEW S, NEW s \in Seq(S), NEW n \in Nat, NEW k \in Nat, n + k <= Len(s)
  PROVE  SubSeq(SubSeq(s, n + 1, Len(s)), k + 1, Len(SubSeq(s, n + 1, Len(s))))
           = SubSeq(s, (n + k) + 1, Len(s))
<1> DEFINE rest == SubSeq(s, n + 1, Len(s))
<1>1. Len(s) \in Nat /\ n \in 0 .. Len(s) /\ n + k \in 0 .. Len(s)
  BY LenProperties
<1>2. /\ rest \in Seq(S) /\ Len(rest) = Len(s) - n
      /\ \A i \in 1 .. Len(s) - n : rest[i] = s[n + i]
  BY <1>1, Rest
<1>3. /\ SubSeq(s, (n + k) + 1, Len(s)) \in Seq(S)
      /\ Len(SubSeq(s, (n + k) + 1, Len(s))) = Len(s) - (n + k)
      /\ \A i \in 1 .. Len(s) - (n + k) : SubSeq(s, (n + k) + 1, Len(s))[i] = s[(n + k) + i]
  BY <1>1, Rest
<1> HIDE DEF rest
<1>4. k \in 0 .. Len(rest)
  BY <1>1, <1>2
<1>5. /\ SubSeq(rest, k + 1, Len(rest)) \in Seq(S)
      /\ Len(SubSeq(rest, k + 1, Len(rest))) = Len(rest) - k
      /\ \A i \in 1 .. Len(rest) - k : SubSeq(rest, k + 1, Len(rest))[i] = rest[k + i]
  BY <1>2, <1>4, Rest
<1>6. ASSUME NEW i \in 1 .. Len(rest) - k
      PROVE  SubSeq(rest, k + 1, Len(rest))[i] = SubSeq(s, (n + k) + 1, Len(s))[i]
  <2>1. k + i \in 1 .. Len(s) - n /\ i \in 1 .. Len(s) - (n + k) /\ n + (k + i) = (n + k) + i
    BY <1>1, <1>2
  <2>2. rest[k + i] = s[n + (k + i)]
    BY <1>2, <2>1
  <2>3. SubSeq(s, (n + k) + 1, Len(s))[i] = s[(n + k) + i]
    BY <1>3, <2>1
  <2> QED BY <1>5, <2>1, <2>2, <2>3
<1>7. Len(rest) - k = Len(s) - (n + k)
  BY <1>1, <1>2
<1>8. SubSeq(rest, k + 1, Len(rest)) = SubSeq(s, (n + k) + 1, Len(s))
  BY <1>3, <1>5, <1>6, <1>7, SeqEqual
<1> QED BY <1>8 DEF rest

-----------------------------------------------------------------------------
(* The client reads a message: it goes on to wait for the rest of the       *)
(* answer or, when that was the last of it, all is at rest.                 *)
LEMMA ClientReadsOne ==
  ASSUME Shape, Streamed, OneUnderWay, ClientReads
  PROVE  OneUnderWay' /\ ~closed'
<1>1. /\ ~closed /\ heard < Len(downstream)
      /\ UNCHANGED <<config, sent, served, answers, wire, validation, replacement, upstream,
                     downstream, upstreamTls, downstreamTls, closed, state, tempStorage,
                     retained, handler>>
  BY DEF ClientReads, Quiet, server, buffers, outputs, transports
<1>2. heard \in Nat /\ Len(downstream) \in Nat /\ heard # Len(downstream)
  BY <1>1, LenProperties DEF Streamed
<1>3. Answered
  BY <1>1, <1>2 DEF OneUnderWay, Resting, Arriving, Negotiating, Leaving, AtServer, Passing,
                    LostSync
<1>4. FrontEmpty' /\ served' = Len(upstream')
  BY <1>1, <1>3 DEF Answered, FrontEmpty
<1>5. CASE state = "InitState" /\ BackEmpty
  <2>1. Len(downstream) = heard + 1 /\ downstream[heard + 1].kind = "S"
    BY <1>3, <1>5 DEF Answered
  <2>2. heard' = Len(downstream') /\ stage' = "negotiated"
    BY <1>1, <1>2, <2>1 DEF ClientReads, StageAfter
  <2>3. Resting'
    BY <1>1, <1>4, <1>5, <2>2 DEF Resting, BackEmpty
  <2> QED BY <1>1, <2>3 DEF OneUnderWay
<1>6. CASE state = "InSyncState"
  <2> DEFINE all == Unread \o Coming
             left == SubSeq(Unread, 4, Len(Unread)) \o Coming
  <2>1. /\ Proper(all) /\ InMessages(Unread) /\ InMessages(replacement["backend"])
        /\ InMessages(retained) /\ InMessages(validation["backend"] \o wire["backend"])
        /\ \A i \in DOMAIN retained : retained[i].kind = "row"
        /\ \A i \in DOMAIN Coming : Coming[i].m = Len(sent)
        /\ sent # <<>> /\ awaiting
    BY <1>3, <1>6 DEF Answered
  <2>2. /\ Unread \in Seq(Piece) /\ Len(Unread) = Len(downstream) - heard /\ Unread # <<>>
        /\ Unread[1] = downstream[heard + 1]
    BY <1>1, <1>2, UnreadIsTheRest
  <2>3. Coming \in Seq(Piece)
    BY ComingRegrouped
  <2>4. Len(Unread) >= 3
    BY <2>1, <2>2, FirstMessage
  <2>5. /\ all \in Seq(Piece) /\ left \in Seq(Piece) /\ SubSeq(Unread, 4, Len(Unread)) \in Seq(Piece)
        /\ Len(left) \in Nat /\ DOMAIN all = 1 .. Len(left) + 3
        /\ DOMAIN left = 1 .. Len(left)
        /\ \A i \in 1 .. Len(left) : left[i] = all[i + 3]
        /\ \A i \in 1 .. 3 : all[i] = Unread[i]
    BY <2>2, <2>3, <2>4, TakenOff
  <2> HIDE DEF all, left
  <2>6. all[1] = downstream[heard + 1] /\ 1 \in DOMAIN all
    BY <2>2, <2>5
  <2>7. downstream[heard + 1].kind \in AnswerKinds
    BY <2>1, <2>6, KindsOfAnswers
  <2>8. heard' = heard + 3
    BY <2>7 DEF ClientReads, AnswerKinds
  <2>14. heard + 3 <= Len(downstream) /\ downstream \in Seq(Piece)
    BY <1>2, <2>2, <2>4 DEF Streamed
  <2>9. Unread' = SubSeq(Unread, 4, Len(Unread))
    <3>2. SubSeq(Unread, 3 + 1, Len(Unread)) = SubSeq(downstream, (heard + 3) + 1, Len(downstream))
      BY <1>2, <2>14, RestOfRest DEF Unread
    <3>3. Unread' = SubSeq(downstream, (heard + 3) + 1, Len(downstream))
      BY <1>1, <2>8 DEF Unread
    <3>4. 3 + 1 = 4
      OBVIOUS
    <3> QED BY <3>2, <3>3, <3>4
  <2>10. Coming' = Coming
    BY <1>1 DEF Coming
  <2>11. InMessages(Unread')
    <3>1. Unread \o <<>> = Unread /\ SubSeq(Unread, 4, Len(Unread)) \o <<>> = SubSeq(Unread, 4, Len(Unread))
      BY <2>2, <2>5, ConcatEmptySeq
    <3>2. InMessages(SubSeq(Unread, 4, Len(Unread)) \o <<>>)
      <4>1. <<>> \in Seq(Piece) /\ InMessages(Unread \o <<>>)
        BY <2>1, <3>1, EmptySeq
      <4> QED BY <2>2, <2>4, <4>1, MessageTaken
    <3> QED BY <2>9, <3>1, <3>2
  <2>12. CASE Len(left) # 0
    <3>1. left # <<>> /\ Proper(left)
      BY <2>1, <2>5, <2>12, ProperBehind, EmptySeq
    <3>2. 1 + 3 \in DOMAIN all
      BY <2>5, <2>12
    <3>3. <<all[1].kind, all[1 + 3].kind>> \in Follows
      BY <2>1, <2>6, <3>2 DEF Proper
    <3>4. downstream[heard + 1].kind \in {"row", "complete", "failed"}
      BY <2>6, <3>3 DEF Follows
    <3>5. awaiting'
      BY <2>1, <3>4 DEF ClientReads
    <3>6. Unread' \o Coming' = left
      BY <2>9, <2>10 DEF left
    <3>7. (Unread \o Coming # <<>> /\ Proper(Unread \o Coming))'
      BY <3>1, <3>6 DEF Proper
    <3>8. Answered'
      <4>1. heard' <= Len(downstream')
        BY <1>1, <2>8, <2>14
      <4> QED
        BY <1>1, <1>4, <1>6, <2>1, <2>10, <2>11, <3>5, <3>7, <4>1 DEF Answered, InMessages
    <3> QED BY <1>1, <3>8 DEF OneUnderWay
  <2>13. CASE Len(left) = 0
    <3>1. left = <<>>
      BY <2>5, <2>13, EmptySeq
    <3>2. SubSeq(Unread, 4, Len(Unread)) = <<>> /\ Coming = <<>>
      BY <2>3, <2>5, <3>1, ConcatEqualIffEmpty DEF left
    <3>3. BackEmpty'
      BY <1>1, <3>2, ComingRegrouped DEF BackEmpty
    <3>4. 1 + 3 \notin DOMAIN all
      BY <2>5, <2>13
    <3>5. downstream[heard + 1].kind \in {"authreq", "ready"}
      BY <2>1, <2>6, <3>4 DEF Proper
    <3>6. stage' \in {"login", "session"}
      BY <3>5 DEF ClientReads, StageAfter
    <3>7. heard' = Len(downstream')
      <4>1. Len(Unread) \in Nat /\ 3 \in 0 .. Len(Unread) /\ 3 + 1 = 4
        BY <2>2, <2>4, LenProperties
      <4>2. Len(SubSeq(Unread, 3 + 1, Len(Unread))) = Len(Unread) - 3
        BY <2>2, <4>1, Rest
      <4>3. Len(SubSeq(Unread, 3 + 1, Len(Unread))) = 0
        BY <3>2, <4>1, EmptySeq
      <4>4. Len(Unread) = 3
        BY <4>1, <4>2, <4>3
      <4>5. Len(downstream) = heard + 3
        <5> DEFINE n == Len(downstream)
                   u == Len(Unread)
        <5>1. heard \in Nat /\ n \in Nat /\ u = n - heard /\ u = 3
          BY <1>2, <2>2, <4>4
        <5> HIDE DEF n, u
        <5>2. n = heard + 3
          BY <5>1
        <5> QED BY <5>2 DEF n
      <4> QED BY <1>1, <2>8, <4>5
    <3>8. Resting'
      BY <1>1, <1>4, <1>6, <3>3, <3>6, <3>7 DEF Resting
    <3> QED BY <1>1, <3>8 DEF OneUnderWay
  <2> QED BY <2>12, <2>13
<1> QED BY <1>3, <1>5, <1>6 DEF Answered

-----------------------------------------------------------------------------
(* The answer to a message, as the server and as the proxy itself gives it. *)
WholeAnswer(answer, m) ==
  /\ answer \in Seq(Piece) /\ Len(answer) >= 3 /\ DOMAIN answer = 1 .. Len(answer)
  /\ Proper(answer) /\ InMessages(answer)
  /\ \A i \in DOMAIN answer : answer[i].m = m

LEMMA OneMessage ==
  ASSUME NEW kind \in ClientKinds \union ServerKinds \union {"own_ssl"}, NEW m \in Nat
  PROVE  InMessages(Bytes(kind, m))
<1>1. <<>> \in Seq(Piece) /\ DOMAIN <<>> = {}
  BY EmptySeq
<1>2. InMessages(<<>>)
  BY <1>1 DEF InMessages
<1>3. InMessages(<<>> \o Bytes(kind, m))
  BY <1>1, <1>2, MessageAppended
<1>4. Bytes(kind, m) \in Seq(Piece)
  BY BytesArePieces
<1> QED BY <1>3, <1>4, ConcatEmptySeq

LEMMA AnswerOfOne ==
  ASSUME NEW kind \in {"authreq", "ready"}, NEW m \in Nat
  PROVE  /\ WholeAnswer(Bytes(kind, m), m)
         /\ \A i \in 1 .. 3 : Bytes(kind, m)[i].kind = kind
<1> DEFINE answer == Bytes(kind, m)
<1>0. kind \in ClientKinds \union ServerKinds \union {"own_ssl"}
  BY DEF ServerKinds
<1>1. /\ answer \in Seq(Piece) /\ Len(answer) = 3
      /\ \A p \in 1 .. 3 : answer[p] = [kind |-> kind, m |-> m, part |-> p]
      /\ InMessages(answer)
  BY <1>0, BytesArePieces, OneMessage
<1> HIDE DEF answer
<1>2. DOMAIN answer = 1 .. 3
  BY <1>1, LenProperties
<1>3. \A i \in 1 .. 3 : i + 3 \notin 1 .. 3
  OBVIOUS
<1>4. \A i \in 1 .. 3 : answer[i].kind = kind /\ answer[i].m = m
  BY <1>1
<1>5. Proper(answer)
  BY <1>2, <1>3, <1>4 DEF Proper
<1>6. WholeAnswer(answer, m)
  BY <1>1, <1>2, <1>4, <1>5 DEF WholeAnswer
<1> QED BY <1>4, <1>6 DEF answer

LEMMA AnswerExtended ==
  ASSUME NEW kind \in ServerKinds, NEW m \in Nat, NEW answer, WholeAnswer(answer, m),
         \A i \in 1 .. 3 : <<kind, answer[i].kind>> \in Follows
  PROVE  /\ WholeAnswer(Bytes(kind, m) \o answer, m)
         /\ \A i \in 1 .. 3 : (Bytes(kind, m) \o answer)[i].kind = kind
<1> DEFINE first == Bytes(kind, m)
           all == first \o answer
<1>1. /\ first \in Seq(Piece) /\ Len(first) = 3
      /\ \A p \in 1 .. 3 : first[p] = [kind |-> kind, m |-> m, part |-> p]
      /\ InMessages(first)
  BY BytesArePieces, OneMessage
<1>2. /\ answer \in Seq(Piece) /\ Len(answer) >= 3 /\ Proper(answer) /\ InMessages(answer)
      /\ \A i \in DOMAIN answer : answer[i].m = m
  BY DEF WholeAnswer
<1> HIDE DEF first
<1>3. /\ all \in Seq(Piece) /\ DOMAIN all = 1 .. 3 + Len(answer)
      /\ Len(answer) \in Nat /\ DOMAIN answer = 1 .. Len(answer)
      /\ \A i \in 1 .. 3 + Len(answer) :
           all[i] = IF i <= 3 THEN first[i] ELSE answer[i - 3]
  <2>1. first \in Seq(Piece) /\ answer \in Seq(Piece) /\ all = first \o answer
    BY <1>1, <1>2
  <2> HIDE DEF all
  <2>2. /\ all \in Seq(Piece) /\ DOMAIN all = 1 .. Len(first) + Len(answer)
        /\ Len(answer) \in Nat /\ DOMAIN answer = 1 .. Len(answer)
        /\ \A i \in 1 .. Len(first) + Len(answer) :
             all[i] = IF i <= Len(first) THEN first[i] ELSE answer[i - Len(first)]
    BY <2>1, JoinedUp
  <2> QED BY <1>1, <2>2
<1>4. InMessages(all)
  BY <1>1, <1>2, MessagesJoined
<1>5. Len(all) = 3 + Len(answer)
  <2>1. Len(first \o answer) = Len(first) + Len(answer)
    BY <1>1, <1>2, ConcatProperties
  <2> QED BY <1>1, <2>1
<1> HIDE DEF all
<1>6. \A i \in 1 .. 3 : all[i].kind = kind /\ all[i].m = m
  BY <1>1, <1>3
<1>7. \A i \in 4 .. 3 + Len(answer) : all[i] = answer[i - 3] /\ i - 3 \in DOMAIN answer
  BY <1>3
<1>8. ASSUME NEW i \in DOMAIN all
      PROVE  IF i + 3 \in DOMAIN all
               THEN <<all[i].kind, all[i + 3].kind>> \in Follows
               ELSE all[i].kind \in {"authreq", "ready"}
  <2>1. CASE i \in 1 .. 3
    <3>1. i + 3 \in 4 .. 3 + Len(answer) /\ (i + 3) - 3 = i
      BY <1>2, <1>3, <2>1
    <3>2. i + 3 \in DOMAIN all /\ all[i + 3] = answer[i] /\ all[i].kind = kind
      BY <1>3, <1>6, <1>7, <2>1, <3>1
    <3> QED BY <2>1, <3>2
  <2>2. CASE i \notin 1 .. 3
    <3>1. i \in 4 .. 3 + Len(answer) /\ i - 3 \in DOMAIN answer /\ all[i] = answer[i - 3]
      BY <1>3, <1>7, <2>2
    <3>2. i + 3 \in DOMAIN all <=> (i - 3) + 3 \in DOMAIN answer
      BY <1>3, <3>1
    <3>3. i + 3 \in DOMAIN all => all[i + 3] = answer[(i - 3) + 3]
      BY <1>3, <3>1
    <3>4. IF (i - 3) + 3 \in DOMAIN answer
            THEN <<answer[i - 3].kind, answer[(i - 3) + 3].kind>> \in Follows
            ELSE answer[i - 3].kind \in {"authreq", "ready"}
      BY <1>2, <3>1 DEF Proper
    <3> QED BY <3>1, <3>2, <3>3, <3>4
  <2> QED BY <2>1, <2>2
<1>9. Proper(all)
  BY <1>8 DEF Proper
<1>10. ASSUME NEW i \in DOMAIN all
       PROVE  all[i].m = m
  <2>1. i \in 1 .. 3 \/ i \in 4 .. 3 + Len(answer)
    BY <1>3
  <2> QED BY <1>2, <1>6, <1>7, <2>1
<1>11. WholeAnswer(all, m)
  BY <1>2, <1>3, <1>4, <1>5, <1>9, <1>10 DEF WholeAnswer
<1> QED BY <1>6, <1>11 DEF all, first

LEMMA AnswersAreWhole ==
  ASSUME NEW m \in Nat
  PROVE  /\ WholeAnswer(Bytes("authreq", m), m) /\ WholeAnswer(Bytes("ready", m), m)
         /\ WholeAnswer(Bytes("failed", m) \o Bytes("ready", m), m)
         /\ WholeAnswer(Bytes("row", m) \o Bytes("complete", m) \o Bytes("ready", m), m)
<1>1. /\ WholeAnswer(Bytes("authreq", m), m) /\ WholeAnswer(Bytes("ready", m), m)
      /\ \A i \in 1 .. 3 : Bytes("ready", m)[i].kind = "ready"
  BY AnswerOfOne
<1>2. /\ "failed" \in ServerKinds /\ "complete" \in ServerKinds /\ "row" \in ServerKinds
      /\ "ready" \in ServerKinds
  BY DEF ServerKinds
<1>3. WholeAnswer(Bytes("failed", m) \o Bytes("ready", m), m)
  <2>1. \A i \in 1 .. 3 : <<"failed", Bytes("ready", m)[i].kind>> \in Follows
    BY <1>1 DEF Follows
  <2> QED BY <1>1, <1>2, <2>1, AnswerExtended
<1>4. /\ WholeAnswer(Bytes("complete", m) \o Bytes("ready", m), m)
      /\ \A i \in 1 .. 3 : (Bytes("complete", m) \o Bytes("ready", m))[i].kind = "complete"
  <2>1. \A i \in 1 .. 3 : <<"complete", Bytes("ready", m)[i].kind>> \in Follows
    BY <1>1 DEF Follows
  <2> QED BY <1>1, <1>2, <2>1, AnswerExtended
<1>5. WholeAnswer(Bytes("row", m) \o (Bytes("complete", m) \o Bytes("ready", m)), m)
  <2>1. \A i \in 1 .. 3 :
          <<"row", (Bytes("complete", m) \o Bytes("ready", m))[i].kind>> \in Follows
    BY <1>4 DEF Follows
  <2> DEFINE answer == Bytes("complete", m) \o Bytes("ready", m)
  <2>2. /\ WholeAnswer(answer, m)
        /\ \A i \in 1 .. 3 : <<"row", answer[i].kind>> \in Follows
    BY <1>4, <2>1
  <2> HIDE DEF answer
  <2>3. WholeAnswer(Bytes("row", m) \o answer, m)
    BY <1>2, <2>2, AnswerExtended
  <2> QED BY <2>3 DEF answer
<1>6. Bytes("row", m) \o (Bytes("complete", m) \o Bytes("ready", m))
        = (Bytes("row", m) \o Bytes("complete", m)) \o Bytes("ready", m)
  <2>1. /\ Bytes("row", m) \in Seq(Piece) /\ Bytes("complete", m) \in Seq(Piece)
        /\ Bytes("ready", m) \in Seq(Piece)
    BY <1>2, BytesArePieces
  <2> QED BY <2>1, Regrouped
<1> QED BY <1>1, <1>3, <1>5, <1>6

LEMMA RepliesAreWhole ==
  ASSUME NEW m \in Nat, NEW kind \in {"startup", "password", "query"},
         NEW reply \in Replies(kind, m)
  PROVE  WholeAnswer(reply, m)
<1>1. CASE kind = "startup"
  <2>1. reply \in {Bytes("authreq", m), Bytes("ready", m)}
    BY <1>1 DEF Replies
  <2> QED BY <2>1, AnswersAreWhole
<1>2. CASE kind = "password"
  <2>1. reply = Bytes("ready", m)
    BY <1>2 DEF Replies
  <2> QED BY <2>1, AnswersAreWhole
<1>3. CASE kind = "query"
  <2>1. reply \in {Bytes("row", m) \o Bytes("complete", m) \o Bytes("ready", m),
                   Bytes("failed", m) \o Bytes("ready", m)}
    BY <1>3 DEF Replies
  <2> QED BY <2>1, AnswersAreWhole
<1> QED BY <1>1, <1>2, <1>3

(* An answer that has just come, from the server or from the proxy.         *)
LEMMA JustAnswered ==
  ASSUME Shape', Streamed', sent' # <<>>, awaiting', FrontEmpty', served' = Len(upstream'),
         heard' = Len(downstream'), state' = "InSyncState", retained' = <<>>,
         NEW answer, WholeAnswer(answer, Len(sent')),
         \/ /\ replacement'["backend"] = <<>>
            /\ validation'["backend"] = <<>> /\ wire'["backend"] = answer
         \/ /\ replacement'["backend"] = answer
            /\ validation'["backend"] = <<>> /\ wire'["backend"] = <<>>
  PROVE  Answered'
<1>1. answer \in Seq(Piece) /\ answer # <<>> /\ Proper(answer) /\ InMessages(answer)
      /\ \A i \in DOMAIN answer : answer[i].m = Len(sent')
  BY EmptySeq DEF WholeAnswer
<1>2. <<>> \in Seq(Piece) /\ <<>> \o <<>> = <<>> /\ <<>> \o answer = answer
      /\ answer \o <<>> = answer /\ DOMAIN <<>> = {}
  BY <1>1, EmptySeq, ConcatEmptySeq
<1>3. Coming' = answer
  BY <1>2 DEF Coming
<1>4. Unread' = <<>>
  <2>1. Len(downstream') \in Int /\ heard' \in Int /\ heard' + 1 \in Int
        /\ Len(downstream') < heard' + 1
    BY LenProperties DEF Streamed
  <2> QED BY <2>1, SubSeqEmpty DEF Unread
<1>5. Unread' \o Coming' = answer
  BY <1>2, <1>3, <1>4
<1>6. InMessages(<<>>)
  BY <1>2 DEF InMessages
<1>7. /\ InMessages(Unread') /\ InMessages(replacement'["backend"]) /\ InMessages(retained')
      /\ InMessages(validation'["backend"] \o wire'["backend"])
  BY <1>1, <1>2, <1>4, <1>6
<1>8. heard' <= Len(downstream')
  BY LenProperties DEF Streamed
<1> QED BY <1>1, <1>2, <1>3, <1>5, <1>7, <1>8 DEF Answered, InMessages, Proper

(* The server answers: the request of the proxy's own, or the client's.     *)
LEMMA ServerAnswersOne ==
  ASSUME Shape, Streamed, Shape', Streamed', OneUnderWay, ServerAnswers
  PROVE  OneUnderWay' /\ ~closed'
<1>1. /\ ~closed /\ Len(upstream) >= served + 3 /\ served' = served + 3
      /\ UNCHANGED <<config, sent, stage, awaiting, heard, validation, replacement, upstream,
                     downstream, upstreamTls, downstreamTls, closed, state, tempStorage,
                     retained, handler>>
  BY DEF ServerAnswers, Quiet, client, buffers, outputs, transports
<1>2. PICK reply \in Replies(upstream[served + 1].kind, upstream[served + 1].m) :
        wire' = [wire EXCEPT !["backend"] = @ \o reply]
  BY DEF ServerAnswers
<1>3. wire'["frontend"] = wire["frontend"] /\ wire'["backend"] = wire["backend"] \o reply
  BY <1>2 DEF Shape, Streams, Sides
<1>4. served \in Nat /\ Len(upstream) \in Nat /\ served # Len(upstream)
  BY <1>1, LenProperties DEF Shape
<1>5. Negotiating \/ AtServer \/ Passing
  BY <1>1, <1>4 DEF OneUnderWay, Resting, Arriving, Leaving, Answered, LostSync
<1>6. CASE Passing
  <2>1. Passing'
    BY <1>1, <1>3, <1>6 DEF Passing, Waiting, LastKind, LastSent, ForServer
  <2> QED BY <1>1, <2>1 DEF OneUnderWay
<1>7. CASE Negotiating
  <2>1. /\ validation["backend"] = <<>> /\ wire["backend"] = <<>>
        /\ Len(upstream) = served + 3
        /\ upstream[served + 1].kind = "own_ssl" /\ upstream[served + 1].m = 0
    BY <1>4, <1>7 DEF Negotiating
  <2>2. reply \in {Byte("S", 0), Byte("N", 0), Bytes("E", 0)}
    BY <1>2, <2>1, PeersAssumption DEF Replies
  <2>3. reply \in Seq(Piece)
    BY <2>2, BytesArePieces DEF ServerKinds
  <2>4. validation'["backend"] \o wire'["backend"] = reply
    BY <1>1, <1>3, <2>1, <2>3, ConcatEmptySeq
  <2>5. served' = Len(upstream')
    BY <1>1, <2>1
  <2>6. Negotiating'
    BY <1>1, <1>3, <1>7, <2>2, <2>4, <2>5 DEF Negotiating, LastKind, LastSent
  <2> QED BY <1>1, <2>6 DEF OneUnderWay
<1>8. CASE AtServer
  <2>1. /\ sent # <<>> /\ Waiting /\ state = "InSyncState"
        /\ LastKind \in {"startup", "password", "query", "terminate"}
        /\ upstream[served + 1].kind = LastKind /\ upstream[served + 1].m = Len(sent)
        /\ FrontEmpty /\ BackEmpty /\ heard = Len(downstream)
        /\ Len(upstream) = served + 3
    BY <1>8 DEF AtServer, Forwardable
  <2>2. Len(sent) \in Nat /\ served' = Len(upstream') /\ FrontEmpty'
    BY <1>1, <1>3, <2>1, LenProperties DEF Shape, FrontEmpty
  <2>3. CASE LastKind = "terminate"
    <3>1. reply = <<>>
      BY <1>2, <2>1, <2>3 DEF Replies
    <3>2. wire'["backend"] = <<>>
      BY <1>3, <2>1, <3>1 DEF BackEmpty
    <3>3. stage' = "ended"
      BY <1>1, <2>1, <2>3 DEF Waiting
    <3>4. Resting'
      BY <1>1, <2>1, <2>2, <3>2, <3>3 DEF Resting, BackEmpty
    <3> QED BY <1>1, <3>4 DEF OneUnderWay
  <2>4. CASE LastKind # "terminate"
    <3>1. WholeAnswer(reply, Len(sent')) /\ awaiting'
      BY <1>1, <1>2, <2>1, <2>2, <2>4, RepliesAreWhole DEF Waiting
    <3>2. wire'["backend"] = reply
      <4>1. reply \in Seq(Piece)
        BY <3>1 DEF WholeAnswer
      <4> QED BY <1>3, <2>1, <4>1, ConcatEmptySeq DEF BackEmpty
    <3>3. Answered'
      BY <1>1, <2>1, <2>2, <3>1, <3>2, JustAnswered DEF BackEmpty
    <3> QED BY <1>1, <3>3 DEF OneUnderWay
  <2> QED BY <2>3, <2>4
<1> QED BY <1>5, <1>6, <1>7, <1>8

-----------------------------------------------------------------------------
(* The network: what has come and what is coming are the same stream.       *)
LEMMA SameStream ==
  ASSUME Shape, NEW side \in Sides, Receive(side)
  PROVE  /\ \A at \in Sides : validation'[at] \o wire'[at] = validation[at] \o wire[at]
         /\ \A at \in Sides \ {side} : validation'[at] = validation[at] /\ wire'[at] = wire[at]
         /\ wire[side] # <<>> /\ validation'[side] # <<>>
<1>1. PICK n \in 1 .. Len(wire[side]) :
        /\ validation' = [validation EXCEPT ![side] = @ \o SubSeq(wire[side], 1, n)]
        /\ wire' = [wire EXCEPT ![side] = SubSeq(@, n + 1, Len(@))]
  BY DEF Receive
<1>2. \A at \in Sides \ {side} : validation'[at] = validation[at] /\ wire'[at] = wire[at]
  BY <1>1 DEF Shape, Streams
<1> DEFINE old == validation[side]
           way == wire[side]
<1>3. old \in Seq(Piece) /\ way \in Seq(Piece) /\ Len(way) \in Nat /\ n \in 1 .. Len(way)
  BY <1>1, LenProperties DEF Shape, Streams
<1>4. /\ SubSeq(way, 1, n) \in Seq(Piece)
      /\ SubSeq(way, n + 1, Len(way)) \in Seq(Piece)
  BY <1>3, Beginning, Rest
<1>5. /\ validation'[side] = old \o SubSeq(way, 1, n)
      /\ wire'[side] = SubSeq(way, n + 1, Len(way))
  BY <1>1 DEF Shape, Streams
<1>6. SubSeq(way, 1, n) \o SubSeq(way, n + 1, Len(way)) = way
  <2>1. /\ 1 \in 1 .. Len(way) + 1 /\ n \in 1 - 1 .. Len(way)
        /\ Len(way) \in n .. Len(way)
    BY <1>3
  <2>2. SubSeq(way, 1, n) \o SubSeq(way, n + 1, Len(way)) = SubSeq(way, 1, Len(way))
    BY <1>3, <2>1, ConcatAdjacentSubSeq
  <2> QED BY <1>3, <2>2, SubSeqFull
<1>7. Len(SubSeq(way, 1, n)) = n
  <2>1. \A i \in 1 .. n : way[i] \in Piece
    BY <1>3, ElementOfSeq
  <2> QED BY <1>3, <2>1, SubSeqProperties
<1> HIDE DEF old, way
<1>8. validation'[side] \o wire'[side] = old \o way
  <2>1. (old \o SubSeq(way, 1, n)) \o SubSeq(way, n + 1, Len(way))
          = old \o (SubSeq(way, 1, n) \o SubSeq(way, n + 1, Len(way)))
    BY <1>3, <1>4, Regrouped
  <2> QED BY <1>5, <1>6, <2>1
<1>9. way # <<>> /\ validation'[side] # <<>>
  <2>1. Len(way) # 0 /\ Len(SubSeq(way, 1, n)) # 0
    BY <1>3, <1>7
  <2>2. way # <<>> /\ SubSeq(way, 1, n) # <<>>
    BY <2>1, EmptySeq
  <2>3. old \o SubSeq(way, 1, n) # <<>>
    <3> DEFINE came == SubSeq(way, 1, n)
    <3>1. came \in Seq(Piece) /\ came # <<>>
      BY <1>4, <2>2
    <3> HIDE DEF came
    <3>2. old \o came = <<>> => came = <<>>
      BY <1>3, <3>1, ConcatEqualIffEmpty
    <3> QED BY <3>1, <3>2 DEF came
  <2> QED BY <1>5, <2>2, <2>3
<1> QED BY <1>2, <1>8, <1>9 DEF old, way

LEMMA ReceiveOne ==
  ASSUME Shape, Shape', OneUnderWay, NEW side \in Sides, Receive(side)
  PROVE  OneUnderWay' /\ ~closed'
<1>1. /\ ~closed
      /\ UNCHANGED <<config, sent, stage, awaiting, heard, served, answers, replacement,
                     upstream, downstream, closed, state, tempStorage, retained>>
  BY DEF Receive, Quiet, client, server, outputs, transports
<1>2. handler = "none" /\ handler' = side
  BY DEF Receive, Quiet
<1>3. CASE side = "frontend"
  <2>1. /\ validation'["frontend"] \o wire'["frontend"]
             = validation["frontend"] \o wire["frontend"]
        /\ validation'["backend"] = validation["backend"] /\ wire'["backend"] = wire["backend"]
        /\ wire["frontend"] # <<>>
    BY <1>3, SameStream DEF Sides
  <2>2. Arriving \/ LostSync
    BY <1>1, <2>1, AtTheFront
  <2>3. BackEmpty => BackEmpty'
    BY <1>1, <2>1 DEF BackEmpty
  <2>4. CASE Arriving
    <3>1. Arriving'
      BY <1>1, <2>1, <2>3, <2>4 DEF Arriving, LastSent, LastKind, Waiting
    <3> QED BY <1>1, <3>1 DEF OneUnderWay
  <2>5. CASE LostSync
    <3>1. LostSync'
      BY <1>1, <2>1, <2>3, <2>5 DEF LostSync, LastKind
    <3> QED BY <1>1, <3>1 DEF OneUnderWay
  <2> QED BY <2>2, <2>4, <2>5
<1>4. CASE side = "backend"
  <2>1. /\ validation'["backend"] \o wire'["backend"]
             = validation["backend"] \o wire["backend"]
        /\ validation'["frontend"] = validation["frontend"]
        /\ wire'["frontend"] = wire["frontend"]
        /\ wire["backend"] # <<>>
    BY <1>4, SameStream DEF Sides
  <2>2. \/ Negotiating /\ served = Len(upstream)
        \/ Answered /\ state = "InSyncState"
        \/ Passing
    BY <1>1, <2>1, AtTheBack
  <2>3. CASE Negotiating
    <3>1. /\ served = Len(upstream)
          /\ validation["backend"] \o wire["backend"]
                \in {Byte("S", 0), Byte("N", 0), Bytes("E", 0)}
      BY <2>1, <2>3 DEF Negotiating
    <3>2. Negotiating'
      BY <1>1, <2>1, <2>3, <3>1 DEF Negotiating, LastSent, LastKind
    <3> QED BY <1>1, <3>2 DEF OneUnderWay
  <2>4. CASE Answered /\ state = "InSyncState"
    <3>1. Coming' = Coming
      <4>1. /\ replacement["backend"] \o retained \in Seq(Piece)
            /\ validation["backend"] \in Seq(Piece) /\ wire["backend"] \in Seq(Piece)
            /\ validation'["backend"] \in Seq(Piece) /\ wire'["backend"] \in Seq(Piece)
        BY ConcatProperties DEF Shape, Streams, Sides
      <4> DEFINE r == replacement["backend"] \o retained
                 v == validation["backend"]
                 w == wire["backend"]
                 v2 == validation'["backend"]
                 w2 == wire'["backend"]
      <4>2. (r \o v) \o w = r \o (v \o w) /\ (r \o v2) \o w2 = r \o (v2 \o w2)
        <5> HIDE DEF r, v, w, v2, w2
        <5>1. r \in Seq(Piece) /\ v \in Seq(Piece) /\ w \in Seq(Piece)
              /\ v2 \in Seq(Piece) /\ w2 \in Seq(Piece)
          BY <4>1 DEF r, v, w, v2, w2
        <5>2. (r \o v) \o w = r \o (v \o w)
          BY <5>1, Regrouped
        <5>3. (r \o v2) \o w2 = r \o (v2 \o w2)
          BY <5>1, Regrouped
        <5> QED BY <5>2, <5>3
      <4> QED BY <1>1, <2>1, <4>2 DEF Coming
    <3>2. Unread' = Unread /\ FrontEmpty'
      BY <1>1, <2>1, <2>4 DEF Unread, Answered, FrontEmpty
    <3>3. Answered'
      <4>1. /\ Unread \o Coming # <<>> /\ Proper(Unread \o Coming)
            /\ \A i \in DOMAIN Coming : Coming[i].m = Len(sent)
            /\ InMessages(Unread) /\ InMessages(replacement["backend"])
            /\ InMessages(retained)
            /\ InMessages(validation["backend"] \o wire["backend"])
            /\ \A i \in DOMAIN retained : retained[i].kind = "row"
            /\ sent # <<>> /\ awaiting /\ served = Len(upstream)
            /\ heard <= Len(downstream)
        BY <2>4 DEF Answered
      <4>2. /\ Unread' \o Coming' # <<>> /\ Proper(Unread' \o Coming')
            /\ InMessages(Unread') /\ InMessages(replacement'["backend"])
            /\ InMessages(retained')
            /\ InMessages(validation'["backend"] \o wire'["backend"])
        BY <1>1, <2>1, <3>1, <3>2, <4>1
      <4>3. /\ \A i \in DOMAIN Coming' : Coming'[i].m = Len(sent')
            /\ \A i \in DOMAIN retained' : retained'[i].kind = "row"
            /\ sent' # <<>> /\ awaiting' /\ served' = Len(upstream')
            /\ state' = "InSyncState" /\ heard' <= Len(downstream')
        BY <1>1, <2>4, <3>1, <4>1
      <4> QED BY <3>2, <4>2, <4>3 DEF Answered
    <3> QED BY <1>1, <3>3 DEF OneUnderWay
  <2>5. CASE Passing
    <3>1. Passing'
      BY <1>1, <1>2, <2>1, <2>5 DEF Passing, Waiting, LastKind, LastSent, ForServer
    <3> QED BY <1>1, <3>1 DEF OneUnderWay
  <2> QED BY <2>2, <2>3, <2>4, <2>5
<1> QED BY <1>3, <1>4 DEF Sides

-----------------------------------------------------------------------------
(* A handler leaves: what it gathered is sent.                              *)
LEMMA NotClosed ==
  ASSUME OneUnderWay, handler # "none"
  PROVE  ~closed
BY DEF OneUnderWay

LEMMA RestJoined ==
  ASSUME NEW s \in Seq(Piece), NEW t \in Seq(Piece), NEW n \in Nat, n <= Len(s)
  PROVE  SubSeq(s \o t, n + 1, Len(s \o t)) = SubSeq(s, n + 1, Len(s)) \o t
<1> DEFINE all == s \o t
           rest == SubSeq(s, n + 1, Len(s))
           left == SubSeq(all, n + 1, Len(all))
<1>1. Len(s) \in Nat /\ Len(t) \in Nat /\ n \in 0 .. Len(s)
  BY LenProperties
<1>2. /\ all \in Seq(Piece) /\ Len(all) = Len(s) + Len(t)
      /\ \A i \in 1 .. Len(s) + Len(t) : all[i] = IF i <= Len(s) THEN s[i] ELSE t[i - Len(s)]
  BY ConcatProperties
<1>3. /\ rest \in Seq(Piece) /\ Len(rest) = Len(s) - n
      /\ \A i \in 1 .. Len(s) - n : rest[i] = s[n + i]
  BY <1>1, Rest
<1> HIDE DEF all, rest
<1>4. n \in 0 .. Len(all)
  BY <1>1, <1>2
<1>5. /\ left \in Seq(Piece) /\ Len(left) = Len(all) - n
      /\ \A i \in 1 .. Len(all) - n : left[i] = all[n + i]
  BY <1>2, <1>4, Rest
<1>6. /\ rest \o t \in Seq(Piece) /\ Len(rest \o t) = Len(rest) + Len(t)
      /\ \A i \in 1 .. Len(rest) + Len(t) :
           (rest \o t)[i] = IF i <= Len(rest) THEN rest[i] ELSE t[i - Len(rest)]
  BY <1>3, ConcatProperties
<1> HIDE DEF left
<1>7. ASSUME NEW i \in 1 .. Len(left)
      PROVE  left[i] = (rest \o t)[i]
  <2>1. /\ i \in 1 .. Len(rest) + Len(t) /\ n + i \in 1 .. Len(s) + Len(t)
        /\ i \in 1 .. Len(all) - n
    BY <1>1, <1>2, <1>3, <1>5
  <2>2. CASE i <= Len(rest)
    BY <1>1, <1>2, <1>3, <1>5, <1>6, <2>1, <2>2
  <2>3. CASE ~(i <= Len(rest))
    <3>1. ~(n + i <= Len(s)) /\ (n + i) - Len(s) = i - Len(rest)
      BY <1>1, <1>3, <2>1, <2>3
    <3>2. all[n + i] = t[(n + i) - Len(s)]
      BY <1>2, <2>1, <3>1
    <3>3. (rest \o t)[i] = t[i - Len(rest)]
      BY <1>6, <2>1, <2>3
    <3> QED BY <1>5, <2>1, <3>1, <3>2, <3>3
  <2> QED BY <2>2, <2>3
<1>8. Len(left) = Len(rest \o t)
  BY <1>1, <1>2, <1>3, <1>5, <1>6
<1>9. left = rest \o t
  BY <1>5, <1>6, <1>7, <1>8, SeqEqual
<1> QED BY <1>9 DEF left, rest, all

(* What Finish does, without the ASSERT of onWrite.                         *)
LEMMA Finished ==
  ASSUME Shape, OneUnderWay, Finish
  PROVE  /\ ~closed /\ ~closed' /\ handler \in Sides /\ handler' = "none"
         /\ UNCHANGED <<config, sent, stage, awaiting, heard, served, answers, wire,
                        validation, closed, state, tempStorage, retained>>
         /\ downstream' = downstream \o replacement["backend"]
         /\ handler = "backend" => replacement["frontend"] = <<>>
         /\ upstream' = upstream \o Over(upstreamTls, replacement["frontend"])
         /\ replacement' = Nothing /\ replacement["frontend"] \in Seq(Piece)
         /\ replacement["backend"] \in Seq(Piece)
<1>1. /\ ~closed /\ ~closed' /\ handler \in Sides /\ handler' = "none"
      /\ UNCHANGED <<config, sent, stage, awaiting, heard, served, answers, wire,
                     validation, closed, state, tempStorage, retained>>
      /\ downstream' = downstream \o replacement["backend"]
  BY NotClosed DEF Finish, Running, Shape, client, server, transports
<1>2. handler = "backend" => replacement["frontend"] = <<>>
  BY <1>1 DEF OneUnderWay, Resting, Arriving, Negotiating, Leaving, AtServer, Answered,
              Passing, LostSync, FrontEmpty, Nothing, Sides
<1>3. /\ replacement["frontend"] \in Seq(Piece) /\ replacement["backend"] \in Seq(Piece)
      /\ upstream \in Seq(TaggedPiece) /\ upstreamTls \in BOOLEAN
      /\ replacement \in Streams
  BY DEF Shape, Streams, Sides
<1>4. CASE handler = "frontend"
  BY <1>1, <1>2, <1>3, <1>4 DEF Finish
<1>5. CASE handler = "backend"
  <2>1. upstream' = upstream /\ replacement' = [replacement EXCEPT !["backend"] = <<>>]
    BY <1>5 DEF Finish
  <2>2. replacement' = Nothing
    BY <1>2, <1>3, <1>5, <2>1 DEF Streams, Nothing, Sides
  <2>3. Over(upstreamTls, replacement["frontend"]) = <<>>
    <3>1. /\ Over(upstreamTls, replacement["frontend"]) \in Seq(TaggedPiece)
          /\ Len(Over(upstreamTls, replacement["frontend"])) = Len(replacement["frontend"])
      BY <1>3, OverIsTagged
    <3> QED BY <1>2, <1>5, <3>1, EmptySeq
  <2> QED BY <1>1, <1>2, <1>3, <2>1, <2>2, <2>3, ConcatEmptySeq
<1> QED BY <1>1, <1>4, <1>5 DEF Sides

LEMMA OverLastSent ==
  ASSUME Shape, sent # <<>>, NEW tls \in BOOLEAN
  PROVE  /\ Over(tls, LastSent) \in Seq(TaggedPiece) /\ Len(Over(tls, LastSent)) = 3
         /\ DOMAIN Over(tls, LastSent) = 1 .. 3
         /\ \A p \in 1 .. 3 : Plain(Over(tls, LastSent)[p]) = LastSent[p]
<1>1. /\ LastSent \in Seq(Piece) /\ Len(LastSent) = 3
      /\ \A p \in 1 .. 3 : LastSent[p] = [kind |-> LastKind, m |-> Len(sent), part |-> p]
  BY SentIsThree
<1>2. /\ Over(tls, LastSent) \in Seq(TaggedPiece) /\ Len(Over(tls, LastSent)) = 3
      /\ DOMAIN LastSent = 1 .. 3
  BY <1>1, OverIsTagged, LenProperties
<1>3. DOMAIN Over(tls, LastSent) = 1 .. 3
  BY <1>2, LenProperties
<1>4. \A p \in 1 .. 3 : Plain(Over(tls, LastSent)[p]) = LastSent[p]
  BY <1>1, <1>2 DEF Over, Plain
<1> QED BY <1>2, <1>3, <1>4

(* The client's message is on its way to the server.                        *)
LEMMA SentToServer ==
  ASSUME Shape, Shape', OneUnderWay, NEW tls \in BOOLEAN,
         upstream' = upstream \o Over(tls, LastSent), served' = served,
         served = Len(upstream), sent # <<>>, sent' = sent
  PROVE  /\ Len(upstream') = served' + 3
         /\ upstream'[served' + 1].kind = LastKind' /\ upstream'[served' + 1].m = Len(sent')
<1>1. /\ Over(tls, LastSent) \in Seq(TaggedPiece) /\ Len(Over(tls, LastSent)) = 3
      /\ \A p \in 1 .. 3 : Plain(Over(tls, LastSent)[p]) = LastSent[p]
      /\ LastSent[1] = [kind |-> LastKind, m |-> Len(sent), part |-> 1]
  BY OverLastSent, SentIsThree
<1>2. upstream \in Seq(TaggedPiece) /\ Len(upstream) \in Nat
  BY LenProperties DEF Shape
<1>3. /\ Len(upstream') = Len(upstream) + 3
      /\ upstream'[Len(upstream) + 1] = Over(tls, LastSent)[1]
  <2> DEFINE new == Over(tls, LastSent)
  <2>1. new \in Seq(TaggedPiece) /\ Len(new) = 3 /\ upstream' = upstream \o new
    BY <1>1
  <2> HIDE DEF new
  <2>2. /\ Len(upstream \o new) = Len(upstream) + Len(new)
        /\ \A i \in 1 .. Len(upstream) + Len(new) :
             (upstream \o new)[i] = IF i <= Len(upstream) THEN upstream[i]
                                                          ELSE new[i - Len(upstream)]
    BY <1>2, <2>1, ConcatProperties
  <2>3. /\ Len(upstream) + 1 \in 1 .. Len(upstream) + Len(new)
        /\ ~(Len(upstream) + 1 <= Len(upstream)) /\ (Len(upstream) + 1) - Len(upstream) = 1
    BY <1>2, <2>1
  <2>4. upstream'[Len(upstream) + 1] = new[1]
    BY <2>1, <2>2, <2>3
  <2> QED BY <2>1, <2>2, <2>4 DEF new
<1>4. Over(tls, LastSent)[1].kind = LastKind /\ Over(tls, LastSent)[1].m = Len(sent)
  BY <1>1 DEF Plain
<1> QED BY <1>3, <1>4 DEF LastKind

LEMMA FinishOne ==
  ASSUME Shape, Shape', Streamed, OneUnderWay, Finish
  PROVE  OneUnderWay' /\ ~closed'
<1>1. /\ ~closed /\ ~closed' /\ handler \in Sides /\ handler' = "none"
      /\ UNCHANGED <<config, sent, stage, awaiting, heard, served, answers, wire,
                     validation, closed, state, tempStorage, retained>>
      /\ downstream' = downstream \o replacement["backend"]
      /\ upstream' = upstream \o Over(upstreamTls, replacement["frontend"])
      /\ replacement' = Nothing /\ replacement["frontend"] \in Seq(Piece)
      /\ replacement["backend"] \in Seq(Piece)
  BY Finished
<1>2. /\ downstream \in Seq(Piece) /\ upstream \in Seq(TaggedPiece) /\ upstreamTls \in BOOLEAN
      /\ Over(upstreamTls, replacement["frontend"]) \in Seq(TaggedPiece)
      /\ Len(Over(upstreamTls, replacement["frontend"])) = Len(replacement["frontend"])
  BY <1>1, OverIsTagged DEF Shape, Streamed
<1>3. replacement["frontend"] = <<>> => upstream' = upstream
  <2>1. Len(Over(upstreamTls, <<>>)) = 0 => Over(upstreamTls, <<>>) = <<>>
    BY OverIsTagged, EmptySeq DEF Shape
  <2> QED BY <1>1, <1>2, <2>1, EmptySeq, ConcatEmptySeq
<1>4. replacement["backend"] = <<>> => downstream' = downstream
  BY <1>1, <1>2, ConcatEmptySeq
<1>5. CASE replacement["frontend"] = <<>> /\ replacement["backend"] = <<>>
  <2>1. UNCHANGED PhaseVars
    BY <1>1, <1>3, <1>4, <1>5, BothEmpty DEF PhaseVars
  <2> QED BY <1>1, <1>5, <2>1, SamePhase
<1>6. CASE replacement["frontend"] # <<>>
  <2>1. Leaving \/ Passing
    BY <1>1, <1>6, NothingIsEmpty
       DEF OneUnderWay, Resting, Arriving, Negotiating, AtServer, Answered, LostSync, FrontEmpty
  <2>2. CASE Leaving
    <3>1. replacement["frontend"] = LastSent /\ replacement["backend"] = <<>>
      BY <2>2 DEF Leaving, BackEmpty
    <3>2. /\ Len(upstream') = served' + 3
          /\ upstream'[served' + 1].kind = LastKind' /\ upstream'[served' + 1].m = Len(sent')
      BY <1>1, <1>2, <2>2, <3>1, SentToServer DEF Leaving, Forwardable
    <3>3. FrontEmpty' /\ BackEmpty' /\ heard' = Len(downstream')
      BY <1>1, <1>4, <2>2, <3>1, NothingIsEmpty DEF Leaving, FrontEmpty, BackEmpty
    <3>4. Forwardable'
      BY <1>1, <2>2 DEF Leaving, Forwardable, Waiting, LastKind
    <3>5. AtServer'
      BY <3>2, <3>3, <3>4 DEF AtServer
    <3> QED BY <1>1, <3>5 DEF OneUnderWay
  <2>3. CASE Passing
    <3>1. downstream' = downstream
      BY <1>4, <2>3 DEF Passing
    <3>2. Passing'
      BY <1>1, <2>3, <3>1, NothingIsEmpty DEF Passing, Waiting, LastKind, ForServer
    <3> QED BY <1>1, <3>2 DEF OneUnderWay
  <2> QED BY <2>1, <2>2, <2>3
<1>7. CASE replacement["frontend"] = <<>> /\ replacement["backend"] # <<>>
  <2>1. Answered /\ state = "InSyncState" /\ ~BackEmpty
    BY <1>1, <1>7, NothingIsEmpty
       DEF OneUnderWay, Resting, Arriving, Negotiating, Leaving, AtServer, Passing, LostSync,
           BackEmpty, Answered
  <2>2. /\ Unread \o Coming # <<>> /\ Proper(Unread \o Coming)
        /\ \A i \in DOMAIN Coming : Coming[i].m = Len(sent)
        /\ InMessages(Unread) /\ InMessages(replacement["backend"])
        /\ InMessages(retained)
        /\ InMessages(validation["backend"] \o wire["backend"])
        /\ \A i \in DOMAIN retained : retained[i].kind = "row"
        /\ sent # <<>> /\ awaiting /\ served = Len(upstream)
        /\ heard <= Len(downstream) /\ FrontEmpty
    BY <2>1 DEF Answered
  <2> DEFINE out == replacement["backend"]
             left == retained \o validation["backend"] \o wire["backend"]
  <2>3. out \in Seq(Piece) /\ Unread \in Seq(Piece)
    BY <1>1, <2>2, UnreadIsTheRest
  <2>4. Unread' = Unread \o out
    <3>1. heard \in Nat
      BY DEF Streamed
    <3>2. SubSeq(downstream \o out, heard + 1, Len(downstream \o out)) = Unread \o out
      BY <1>2, <2>2, <2>3, <3>1, RestJoined DEF Unread
    <3> QED BY <1>1, <3>2 DEF Unread
  <2>5. left \in Seq(Piece) /\ Coming = out \o left /\ Coming' = left
    <3>1. /\ retained \in Seq(Piece) /\ validation["backend"] \in Seq(Piece)
          /\ wire["backend"] \in Seq(Piece)
      BY DEF Shape, Streams, Sides
    <3> DEFINE v == validation["backend"]
               w == wire["backend"]
    <3>2. v \in Seq(Piece) /\ w \in Seq(Piece) /\ retained \in Seq(Piece) /\ out \in Seq(Piece)
      BY <2>3, <3>1
    <3> HIDE DEF v, w, out
    <3>3. retained \o v \in Seq(Piece) /\ (retained \o v) \o w \in Seq(Piece)
      BY <3>2, ConcatProperties
    <3>4. (out \o retained) \o v = out \o (retained \o v)
      BY <3>2, Regrouped
    <3>5. (out \o (retained \o v)) \o w = out \o ((retained \o v) \o w)
      BY <3>2, <3>3, Regrouped
    <3>6. Coming = out \o left
      BY <3>4, <3>5 DEF Coming, out, v, w
    <3>7. Coming' = ((<<>> \o retained) \o v) \o w
      BY <1>1, NothingIsEmpty DEF Coming, v, w
    <3>8. <<>> \o retained = retained
      BY <3>2, ConcatEmptySeq
    <3> QED BY <3>3, <3>6, <3>7, <3>8 DEF v, w
  <2> HIDE DEF out, left
  <2>6. Unread' \o Coming' = Unread \o Coming
    BY <2>3, <2>4, <2>5, Regrouped
  <2>7. InMessages(Unread')
    BY <2>2, <2>3, <2>4, MessagesJoined DEF out
  <2>8. \A i \in DOMAIN Coming' : Coming'[i].m = Len(sent')
    <3>1. SUFFICES ASSUME NEW i \in DOMAIN left PROVE left[i].m = Len(sent)
      BY <1>1, <2>5
    <3>2. /\ DOMAIN Coming = 1 .. Len(out) + Len(left) /\ Len(out) \in Nat
          /\ Len(left) \in Nat /\ DOMAIN left = 1 .. Len(left)
          /\ \A j \in 1 .. Len(out) + Len(left) :
               Coming[j] = IF j <= Len(out) THEN out[j] ELSE left[j - Len(out)]
      BY <2>3, <2>5, JoinedUp
    <3>3. /\ Len(out) + i \in 1 .. Len(out) + Len(left) /\ ~(Len(out) + i <= Len(out))
          /\ (Len(out) + i) - Len(out) = i
      BY <3>2
    <3>4. Coming[Len(out) + i] = left[i] /\ Len(out) + i \in DOMAIN Coming
      BY <3>2, <3>3
    <3> QED BY <2>2, <3>4
  <2>9. InMessages(replacement'["backend"])
    BY <1>1, NothingIsEmpty DEF InMessages
  <2>10. heard' <= Len(downstream')
    <3>1. Len(downstream') = Len(downstream) + Len(out) /\ Len(out) \in Nat
          /\ Len(downstream) \in Nat
      BY <1>1, <1>2, <2>3, ConcatProperties, LenProperties DEF out
    <3>2. heard \in Nat
      BY DEF Streamed
    <3> QED BY <1>1, <2>2, <3>1, <3>2
  <2>11. FrontEmpty' /\ upstream' = upstream
    BY <1>1, <1>3, <1>7, <2>2, NothingIsEmpty DEF FrontEmpty
  <2>12. /\ Unread' \o Coming' # <<>> /\ Proper(Unread' \o Coming')
         /\ InMessages(retained')
         /\ InMessages(validation'["backend"] \o wire'["backend"])
         /\ \A i \in DOMAIN retained' : retained'[i].kind = "row"
         /\ sent' # <<>> /\ awaiting' /\ served' = Len(upstream') /\ state' = "InSyncState"
    BY <1>1, <2>1, <2>2, <2>6, <2>11
  <2>13. Answered'
    BY <2>7, <2>8, <2>9, <2>10, <2>11, <2>12 DEF Answered
  <2> QED BY <1>1, <2>13 DEF OneUnderWay
<1> QED BY <1>5, <1>6, <1>7

LEMMA BytesSentOne ==
  ASSUME Shape, OneUnderWay, BytesSent
  PROVE  OneUnderWay'
<1>1. ~closed /\ handler = "none" /\ handler' = "none" /\ UNCHANGED PhaseVars
  BY DEF BytesSent, Quiet, PhaseVars, client, server, buffers, outputs
<1>2. CASE closed'
  BY <1>1, <1>2 DEF OneUnderWay
<1>3. CASE ~closed'
  BY <1>1, <1>3, SamePhase
<1> QED BY <1>2, <1>3

-----------------------------------------------------------------------------
(* The client's message, when the decoder has all of it.                    *)
LEMMA FrontBuffer ==
  ASSUME Shape, OneUnderWay, handler = "frontend", Buffer # <<>>,
         state \in {"InitState", "InSyncState"}
  PROVE  /\ Arriving /\ ~closed /\ sent # <<>> /\ Len(Buffer) \in 1 .. 3
         /\ Current.kind = LastKind /\ Current.m = Len(sent)
         /\ Len(Buffer) >= 3 => Buffer = LastSent /\ wire["frontend"] = <<>>
<1>1. ~closed /\ Buffer = validation["frontend"]
  BY NotClosed DEF Buffer
<1>2. Arriving /\ sent # <<>>
  <2>1. Arriving \/ LostSync
    BY <1>1, AtTheFront
  <2> QED BY <2>1 DEF LostSync, Arriving
<1> DEFINE v == validation["frontend"]
           w == wire["frontend"]
<1>3. /\ v \in Seq(Piece) /\ w \in Seq(Piece) /\ v \o w = LastSent
      /\ LastSent \in Seq(Piece) /\ Len(LastSent) = 3
      /\ LastSent[1] = [kind |-> LastKind, m |-> Len(sent), part |-> 1]
  <2>1. /\ LastSent \in Seq(Piece) /\ Len(LastSent) = 3
        /\ LastSent[1] = [kind |-> LastKind, m |-> Len(sent), part |-> 1]
    BY <1>2, SentIsThree
  <2>2. v \in Seq(Piece) /\ w \in Seq(Piece)
    BY DEF Shape, Streams, Sides
  <2>3. v \o w = LastSent
    BY <1>2 DEF Arriving
  <2> QED BY <2>1, <2>2, <2>3
<1> HIDE DEF v, w
<1>4. /\ Len(v \o w) = Len(v) + Len(w) /\ Len(v) \in Nat /\ Len(w) \in Nat
      /\ \A i \in 1 .. Len(v) + Len(w) : (v \o w)[i] = IF i <= Len(v) THEN v[i] ELSE w[i - Len(v)]
  BY <1>3, ConcatProperties, LenProperties
<1> DEFINE a == Len(v)
           b == Len(w)
<1>9. a \in Nat \ {0} /\ b \in Nat /\ a + b = 3
  <2>1. v # <<>>
    BY <1>1 DEF v
  <2> QED BY <1>3, <1>4, <2>1, EmptySeq
<1> HIDE DEF a, b
<1>10. a \in 1 .. 3 /\ 1 \in 1 .. a + b /\ 1 <= a /\ (a >= 3 => b = 0)
  BY <1>9
<1>5. Len(v) \in 1 .. 3
  BY <1>10 DEF a
<1>6. v[1] = LastSent[1]
  <2>1. 1 \in 1 .. Len(v) + Len(w) /\ 1 <= Len(v)
    <3>1. 1 \in 1 .. a + b /\ 1 <= a
      BY <1>10
    <3> QED BY <3>1 DEF a, b
  <2> QED BY <1>3, <1>4, <2>1
<1>7. Current = v[1]
  BY <1>1, <1>3, <1>5 DEF Current, v
<1>8. ASSUME Len(v) >= 3
      PROVE  v = LastSent /\ w = <<>>
  <2>1. Len(w) = 0
    BY <1>8, <1>10 DEF a, b
  <2>2. w = <<>>
    BY <1>3, <2>1, EmptySeq
  <2> QED BY <1>3, <2>2, ConcatEmptySeq
<1> QED BY <1>1, <1>2, <1>3, <1>5, <1>6, <1>7, <1>8 DEF v, w

LEMMA FrontMessage ==
  ASSUME Shape, OneUnderWay, Readable("frontend"), state \in {"InitState", "InSyncState"}
  PROVE  /\ Arriving /\ ~closed /\ sent # <<>> /\ handler = "frontend" /\ Waiting
         /\ Current.kind = LastKind /\ Current.m = Len(sent)
         /\ Message = LastSent /\ Buffer = LastSent /\ wire["frontend"] = <<>>
         /\ replacement["frontend"] = <<>> /\ tempStorage = <<>> /\ BackEmpty
         /\ served = Len(upstream) /\ heard = Len(downstream)
         /\ LastKind \notin {"oversized", "short_password"}
         /\ Drop(3) => /\ validation'["frontend"] = <<>>
                       /\ validation'["backend"] = validation["backend"]
<1>1. /\ handler = "frontend" /\ Buffer \in Seq(Piece) /\ Len(Buffer) >= 3 /\ ~Unreadable
  BY WholeMessage DEF Readable, Sides
<1>2. Buffer # <<>>
  BY <1>1, EmptySeq
<1>3. /\ Arriving /\ ~closed /\ sent # <<>>
      /\ Current.kind = LastKind /\ Current.m = Len(sent)
      /\ Buffer = LastSent /\ wire["frontend"] = <<>> /\ Len(Buffer) = 3
  <2>1. /\ Arriving /\ ~closed /\ sent # <<>>
        /\ Current.kind = LastKind /\ Current.m = Len(sent)
        /\ Buffer = LastSent /\ wire["frontend"] = <<>>
    BY <1>1, <1>2, FrontBuffer
  <2> QED BY <2>1, SentIsThree
<1>4. Message = LastSent
  BY <1>1, <1>3, SubSeqFull DEF Message
<1>5. LastKind \notin {"oversized", "short_password"}
  BY <1>1, <1>3 DEF Unreadable
<1>6. ASSUME Drop(3)
      PROVE  /\ validation'["frontend"] = <<>>
             /\ validation'["backend"] = validation["backend"]
  <2>1. SubSeq(Buffer, 4, 3) = <<>>
    BY <1>1, SubSeqEmpty
  <2>2. 3 + 1 = 4
    OBVIOUS
  <2>3. validation' = [validation EXCEPT !["frontend"] = SubSeq(Buffer, 4, 3)]
    BY <1>1, <1>3, <1>6, <2>2 DEF Drop, Buffer
  <2> QED BY <2>1, <2>3 DEF Shape, Streams, Sides
<1>7. /\ Waiting /\ replacement["frontend"] = <<>> /\ tempStorage = <<>> /\ BackEmpty
      /\ served = Len(upstream) /\ heard = Len(downstream)
  BY <1>3 DEF Arriving
<1> QED BY <1>1, <1>3, <1>4, <1>5, <1>6, <1>7

(* The client's start: what it comes to.                                    *)
LEMMA TerminateOne ==
  ASSUME Shape, Shape', Streamed, OneUnderWay, TerminateSslRequest
  PROVE  Answered' /\ ~closed' /\ handler' = "none" /\ failedAsserts' = failedAsserts
         /\ replacement' = Nothing
<1>1. Readable("frontend") /\ state = "InitState" /\ state' = state /\ Drop(3)
      /\ UNCHANGED <<config, sent, stage, awaiting, heard, served, answers, wire, upstream,
                     closed, tempStorage, retained>>
      /\ downstream' = downstream \o Byte("S", Current.m) /\ Current.kind = "ssl"
      /\ Stop(validation'[handler])
  BY DEF TerminateSslRequest, client, server
<1>2. /\ Arriving /\ ~closed /\ sent # <<>> /\ handler = "frontend" /\ Waiting
      /\ LastKind = "ssl" /\ Current.m = Len(sent) /\ wire["frontend"] = <<>>
      /\ replacement["frontend"] = <<>> /\ tempStorage = <<>> /\ BackEmpty
      /\ served = Len(upstream) /\ heard = Len(downstream)
      /\ validation'["frontend"] = <<>> /\ validation'["backend"] = validation["backend"]
  BY <1>1, FrontMessage
<1>3. /\ replacement' = [replacement EXCEPT !["frontend"] = <<>>] /\ handler' = "none"
      /\ failedAsserts' = failedAsserts
  BY <1>1, <1>2 DEF Stop, Asserts
<1>4. replacement' = Nothing
  BY <1>2, <1>3 DEF Shape, Streams, Nothing, Sides, BackEmpty
<1>5. /\ Len(downstream') = heard' + 1 /\ downstream'[heard' + 1].kind = "S"
  <2> DEFINE byte == Byte("S", Current.m)
  <2>1. /\ byte \in Seq(Piece) /\ Len(byte) = 1 /\ byte[1].kind = "S"
    <3>1. Current.m \in Nat
      BY <1>2, SentIsThree
    <3> QED BY <3>1, BytesArePieces DEF ServerKinds, Byte
  <2>2. downstream \in Seq(Piece) /\ Len(downstream) \in Nat
    BY LenProperties DEF Streamed
  <2> HIDE DEF byte
  <2>3. /\ Len(downstream \o byte) = Len(downstream) + Len(byte)
        /\ \A i \in 1 .. Len(downstream) + Len(byte) :
             (downstream \o byte)[i] = IF i <= Len(downstream) THEN downstream[i]
                                                                ELSE byte[i - Len(downstream)]
    BY <2>1, <2>2, ConcatProperties
  <2>4. /\ Len(downstream) + 1 \in 1 .. Len(downstream) + Len(byte)
        /\ ~(Len(downstream) + 1 <= Len(downstream))
        /\ (Len(downstream) + 1) - Len(downstream) = 1
    BY <2>1, <2>2
  <2>5. (downstream \o byte)[Len(downstream) + 1] = byte[1]
    BY <2>3, <2>4
  <2>6. downstream' = downstream \o byte
    BY <1>1 DEF byte
  <2> QED BY <1>1, <1>2, <2>1, <2>3, <2>5, <2>6
<1>6. awaiting'
  BY <1>1, <1>2 DEF Waiting
<1>7. FrontEmpty' /\ BackEmpty'
  BY <1>1, <1>2, <1>4, NothingIsEmpty DEF FrontEmpty, BackEmpty
<1>8. Answered'
  BY <1>1, <1>2, <1>5, <1>6, <1>7 DEF Answered
<1> QED BY <1>1, <1>2, <1>3, <1>4, <1>8

LEMMA ReplacedByLast ==
  ASSUME Shape, sent # <<>>, replacement["frontend"] = <<>>, Message = LastSent,
         Replace("frontend", Message)
  PROVE  /\ replacement'["frontend"] = LastSent
         /\ replacement'["backend"] = replacement["backend"]
<1>1. LastSent \in Seq(Piece) /\ <<>> \o LastSent = LastSent
  BY SentIsThree, ConcatEmptySeq
<1> QED BY <1>1 DEF Replace, Shape, Streams, Sides

LEMMA PassEncryptedOne ==
  ASSUME Shape, OneUnderWay, PassEncrypted
  PROVE  Passing' /\ ~closed'
<1>1. Readable("frontend") /\ state = "InitState" /\ state' = "EncryptedState" /\ Drop(3)
      /\ UNCHANGED <<config, sent, stage, awaiting, heard, served, answers, wire, upstream,
                     downstream, closed, tempStorage, retained, handler>>
      /\ Replace("frontend", Message)
      /\ \/ Current.kind \in {"gss", "cancel"}
         \/ Current.kind = "ssl" /\ ~config.terminateSsl
  BY DEF PassEncrypted, client, server, outputs, transports
<1>2. /\ ~closed /\ sent # <<>> /\ handler = "frontend" /\ Waiting
      /\ Current.kind = LastKind /\ wire["frontend"] = <<>> /\ Message = LastSent
      /\ replacement["frontend"] = <<>> /\ tempStorage = <<>> /\ BackEmpty
      /\ heard = Len(downstream) /\ validation'["frontend"] = <<>>
  BY <1>1, FrontMessage
<1>3. replacement'["frontend"] = LastSent /\ replacement'["backend"] = <<>>
  BY <1>1, <1>2, ReplacedByLast DEF BackEmpty
<1>4. Waiting' /\ LastSent' = LastSent
  BY <1>1, <1>2 DEF Waiting, LastKind, LastSent
<1>5. ForServer(Len(sent))'
  BY <1>1, <1>2 DEF ForServer, LastKind
<1>6. Passing'
  BY <1>1, <1>2, <1>3, <1>4, <1>5 DEF Passing, BackEmpty
<1> QED BY <1>1, <1>2, <1>6

LEMMA StartInClearOne ==
  ASSUME Shape, OneUnderWay, StartInClear
  PROVE  Leaving' /\ ~closed'
<1>1. Readable("frontend") /\ state = "InitState" /\ state' = "InSyncState" /\ Drop(3)
      /\ UNCHANGED <<config, sent, stage, awaiting, heard, served, answers, wire, upstream,
                     downstream, closed, tempStorage, retained, handler>>
      /\ Replace("frontend", Message) /\ Current.kind = "startup"
  BY DEF StartInClear, client, server, outputs, transports
<1>2. /\ ~closed /\ sent # <<>> /\ handler = "frontend" /\ Waiting
      /\ Current.kind = LastKind /\ wire["frontend"] = <<>> /\ Message = LastSent
      /\ replacement["frontend"] = <<>> /\ tempStorage = <<>> /\ BackEmpty
      /\ heard = Len(downstream) /\ served = Len(upstream)
      /\ validation'["frontend"] = <<>> /\ validation'["backend"] = validation["backend"]
  BY <1>1, FrontMessage
<1>3. replacement'["frontend"] = LastSent /\ replacement'["backend"] = <<>>
  BY <1>1, <1>2, ReplacedByLast DEF BackEmpty
<1>4. Waiting' /\ LastSent' = LastSent /\ LastKind' = "startup"
  BY <1>1, <1>2 DEF Waiting, LastKind, LastSent
<1>5. Leaving'
  BY <1>1, <1>2, <1>3, <1>4 DEF Leaving, Forwardable, BackEmpty
<1> QED BY <1>1, <1>2, <1>5

-----------------------------------------------------------------------------
(* The negotiation with the server.                                         *)
LEMMA StartNegotiationOne ==
  ASSUME Shape, Shape', OneUnderWay, StartNegotiation
  PROVE  /\ Negotiating' /\ ~closed' /\ handler' = "none" /\ failedAsserts' = failedAsserts
         /\ replacement' = Nothing
<1>1. /\ Readable("frontend") /\ state = "InitState" /\ state' = "NegotiatingUpstreamSSL"
      /\ Drop(3) /\ Stop(validation'[handler])
      /\ UNCHANGED <<config, sent, stage, awaiting, heard, served, answers, wire,
                     downstream, closed, retained>>
      /\ tempStorage' = tempStorage \o Buffer
      /\ upstream' = upstream \o Over(upstreamTls, Bytes("own_ssl", 0))
      /\ Current.kind = "startup"
  BY DEF StartNegotiation, client, server, transports
<1>2. /\ Arriving /\ ~closed /\ sent # <<>> /\ handler = "frontend" /\ Waiting
      /\ LastKind = "startup" /\ wire["frontend"] = <<>> /\ Buffer = LastSent
      /\ replacement["frontend"] = <<>> /\ tempStorage = <<>> /\ BackEmpty
      /\ served = Len(upstream) /\ heard = Len(downstream)
      /\ validation'["frontend"] = <<>> /\ validation'["backend"] = validation["backend"]
  BY <1>1, FrontMessage
<1>3. /\ replacement' = [replacement EXCEPT !["frontend"] = <<>>] /\ handler' = "none"
      /\ failedAsserts' = failedAsserts
  BY <1>1, <1>2 DEF Stop, Asserts
<1>4. replacement' = Nothing
  BY <1>2, <1>3 DEF Shape, Streams, Nothing, Sides, BackEmpty
<1>5. tempStorage' = LastSent' /\ awaiting' /\ LastKind' = "startup"
  <2>1. <<>> \o LastSent = LastSent
    BY <1>2, SentIsThree, ConcatEmptySeq
  <2> QED BY <1>1, <1>2, <2>1 DEF Waiting, LastKind, LastSent
<1>6. /\ Len(upstream') = served' + 3
      /\ upstream'[served' + 1].kind = "own_ssl" /\ upstream'[served' + 1].m = 0
  <2> DEFINE own == Bytes("own_ssl", 0)
             over == Over(upstreamTls, own)
  <2>1. /\ own \in Seq(Piece) /\ Len(own) = 3
        /\ own[1] = [kind |-> "own_ssl", m |-> 0, part |-> 1]
    <3>1. /\ own \in Seq(Piece) /\ Len(own) = 3
          /\ \A p \in 1 .. 3 : own[p] = [kind |-> "own_ssl", m |-> 0, part |-> p]
      BY BytesArePieces
    <3> QED BY <3>1
  <2>2. DOMAIN own = 1 .. 3
    BY <2>1, LenProperties
  <2>3. /\ over \in Seq(TaggedPiece) /\ Len(over) = 3
        /\ over[1].kind = own[1].kind /\ over[1].m = own[1].m
    <3>1. upstreamTls \in BOOLEAN
      BY DEF Shape
    <3> HIDE DEF own
    <3>2. over \in Seq(TaggedPiece) /\ Len(over) = 3
      BY <2>1, <3>1, OverIsTagged
    <3>3. over[1].kind = own[1].kind /\ over[1].m = own[1].m
      BY <2>2 DEF Over
    <3> QED BY <3>2, <3>3
  <2>4. upstream' = upstream \o over /\ upstream \in Seq(TaggedPiece) /\ Len(upstream) \in Nat
    BY <1>1, LenProperties DEF Shape
  <2> HIDE DEF over, own
  <2>5. /\ Len(upstream \o over) = Len(upstream) + Len(over)
        /\ \A i \in 1 .. Len(upstream) + Len(over) :
             (upstream \o over)[i] = IF i <= Len(upstream) THEN upstream[i]
                                                           ELSE over[i - Len(upstream)]
    BY <2>3, <2>4, ConcatProperties
  <2>6. /\ Len(upstream) + 1 \in 1 .. Len(upstream) + Len(over)
        /\ ~(Len(upstream) + 1 <= Len(upstream)) /\ (Len(upstream) + 1) - Len(upstream) = 1
    BY <2>3, <2>4
  <2>7. (upstream \o over)[Len(upstream) + 1] = over[1]
    BY <2>5, <2>6
  <2> QED BY <1>1, <1>2, <2>1, <2>3, <2>4, <2>5, <2>7
<1>7. Negotiating'
  BY <1>1, <1>2, <1>4, <1>5, <1>6 DEF Negotiating, BackEmpty
<1> QED BY <1>1, <1>2, <1>3, <1>4, <1>7

(* No data of the client comes into a negotiation.                          *)
LEMMA NeverDisturbed ==
  ASSUME OneUnderWay
  PROVE  ~NegotiationDisturbed
<1> SUFFICES ASSUME NegotiationDisturbed PROVE FALSE
  OBVIOUS
<1>1. state = "NegotiatingUpstreamSSL" /\ handler = "frontend" /\ validation["frontend"] # <<>>
  BY DEF NegotiationDisturbed, Buffer
<1>2. Arriving \/ LostSync
  BY <1>1, NotClosed, AtTheFront
<1> QED BY <1>1, <1>2 DEF Arriving, LostSync

LEMMA NegotiationAnsweredOne ==
  ASSUME Shape, Shape', OneUnderWay, NegotiationAnswered
  PROVE  /\ Negotiating /\ ~closed /\ handler' = "none" /\ failedAsserts' = failedAsserts
         /\ replacement' = Nothing
         /\ ~closed' => /\ AtServer' /\ EncryptUpstream /\ Behind = Byte("S", 0)
                        /\ tempStorage = LastSent /\ served = Len(upstream)
                        /\ validation' = Nothing
         /\ closed' => GiveUpUpstream
<1>1. /\ state = "NegotiatingUpstreamSSL" /\ handler = "backend" /\ Buffer # <<>>
      /\ DropAll /\ Stop(<<>>)
      /\ UNCHANGED <<config, sent, stage, awaiting, heard, served, answers, wire,
                     downstream, retained>>
      /\ (Agreed /\ EncryptUpstream) \/ GiveUpUpstream
  BY DEF NegotiationAnswered, client, server
<1>2. ~closed /\ Buffer = validation["backend"]
  BY <1>1, NotClosed DEF Buffer
<1>3. Negotiating /\ served = Len(upstream)
  <2>1. \/ Negotiating /\ served = Len(upstream)
        \/ Answered /\ state = "InSyncState"
        \/ Passing
    BY <1>1, <1>2, AtTheBack
  <2> QED BY <1>1, <2>1 DEF Passing
<1>4. /\ sent # <<>> /\ awaiting /\ LastKind = "startup" /\ tempStorage = LastSent
      /\ validation["frontend"] = <<>> /\ wire["frontend"] = <<>>
      /\ replacement = Nothing /\ retained = <<>> /\ heard = Len(downstream)
      /\ Behind \in {Byte("S", 0), Byte("N", 0), Bytes("E", 0)}
  BY <1>1, <1>2, <1>3 DEF Negotiating, Behind
<1>5. handler' = "none" /\ failedAsserts' = failedAsserts
  BY <1>1 DEF Stop, Asserts
<1>6. replacement' = Nothing
  BY <1>1, <1>4 DEF Stop, Nothing, Sides
<1>7. validation' = Nothing
  BY <1>1, <1>4 DEF DropAll, Shape, Streams, Nothing, Sides
<1>8. CASE GiveUpUpstream
  BY <1>2, <1>3, <1>5, <1>6, <1>8 DEF GiveUpUpstream
<1>9. CASE Agreed /\ EncryptUpstream
  <2>1. /\ ~closed' /\ upstreamTls' = TRUE /\ upstream' = upstream \o Over(TRUE, LastSent)
        /\ tempStorage' = <<>> /\ state' = "InSyncState"
    BY <1>2, <1>4, <1>9 DEF EncryptUpstream
  <2>2. /\ Len(upstream') = served' + 3
        /\ upstream'[served' + 1].kind = LastKind' /\ upstream'[served' + 1].m = Len(sent')
    BY <1>1, <1>3, <1>4, <2>1, SentToServer
  <2>3. Behind = Byte("S", 0) /\ wire["backend"] = <<>>
    <3> DEFINE v == validation["backend"]
               w == wire["backend"]
    <3>1. v \in Seq(Piece) /\ w \in Seq(Piece) /\ Len(v) = 1 /\ v[1].kind = "S"
      <4>1. v \in Seq(Piece) /\ w \in Seq(Piece) /\ Len(v) = 1
        BY <1>2, <1>9 DEF Agreed, Shape, Streams, Sides
      <4>2. Current = v[1]
        BY <1>2, <4>1 DEF Current
      <4> QED BY <1>9, <4>1, <4>2 DEF Agreed
    <3>2. v \o w \in {Byte("S", 0), Byte("N", 0), Bytes("E", 0)}
      BY <1>4 DEF Behind
    <3> HIDE DEF v, w
    <3>3. /\ Len(v \o w) = 1 + Len(w) /\ (v \o w)[1] = v[1] /\ Len(w) \in Nat
      <4>1. Len(v \o w) = Len(v) + Len(w) /\ Len(w) \in Nat
        BY <3>1, ConcatProperties, LenProperties
      <4>2. 1 \in 1 .. Len(v) + Len(w) /\ 1 <= Len(v)
        BY <3>1, <4>1
      <4>3. (v \o w)[1] = v[1]
        BY <3>1, <4>2, ConcatProperties
      <4> QED BY <3>1, <4>1, <4>3
    <3>4. /\ Byte("N", 0)[1].kind = "N" /\ Bytes("E", 0)[1].kind = "E"
          /\ Len(Byte("S", 0)) = 1
      BY DEF Byte, Bytes
    <3>5. v \o w = Byte("S", 0)
      BY <3>1, <3>2, <3>3, <3>4
    <3>6. Len(w) = 0
      BY <3>3, <3>4, <3>5
    <3> QED BY <3>1, <3>5, <3>6, EmptySeq DEF v, w, Behind
  <2>4. FrontEmpty' /\ BackEmpty'
    BY <1>1, <1>4, <1>6, <1>7, <2>1, <2>3, NothingIsEmpty DEF FrontEmpty, BackEmpty
  <2>5. Forwardable'
    BY <1>1, <1>4, <2>1 DEF Forwardable, Waiting, LastKind
  <2>6. AtServer'
    BY <1>1, <1>4, <2>2, <2>4, <2>5 DEF AtServer
  <2> QED BY <1>2, <1>3, <1>4, <1>5, <1>6, <1>7, <1>9, <2>1, <2>3, <2>6
<1> QED BY <1>1, <1>8, <1>9

-----------------------------------------------------------------------------
(* The session.                                                             *)
LEMMA LastPart ==
  ASSUME NEW s \in Seq(Piece), NEW t \in Seq(Piece), NEW i \in 1 .. Len(t)
  PROVE  /\ Len(s) + i \in DOMAIN (s \o t) /\ (s \o t)[Len(s) + i] = t[i]
         /\ Len(s) \in Nat /\ Len(t) \in Nat /\ Len(s \o t) = Len(s) + Len(t)
         /\ s \o t \in Seq(Piece) /\ Len(s) + i \in 1 .. Len(s \o t)
<1>1. /\ s \o t \in Seq(Piece) /\ Len(s \o t) = Len(s) + Len(t)
      /\ \A j \in 1 .. Len(s) + Len(t) : (s \o t)[j] = IF j <= Len(s) THEN s[j] ELSE t[j - Len(s)]
  BY ConcatProperties
<1>2. Len(s) \in Nat /\ Len(t) \in Nat /\ DOMAIN (s \o t) = 1 .. Len(s \o t)
  BY <1>1, LenProperties
<1>3. /\ Len(s) + i \in 1 .. Len(s) + Len(t) /\ ~(Len(s) + i <= Len(s))
      /\ (Len(s) + i) - Len(s) = i
  BY <1>2
<1> QED BY <1>1, <1>2, <1>3

LEMMA FirstPart ==
  ASSUME NEW s \in Seq(Piece), NEW t \in Seq(Piece), NEW i \in 1 .. Len(s)
  PROVE  i \in DOMAIN (s \o t) /\ (s \o t)[i] = s[i]
<1>1. /\ s \o t \in Seq(Piece) /\ Len(s \o t) = Len(s) + Len(t)
      /\ \A j \in 1 .. Len(s) + Len(t) : (s \o t)[j] = IF j <= Len(s) THEN s[j] ELSE t[j - Len(s)]
  BY ConcatProperties
<1>2. Len(s) \in Nat /\ Len(t) \in Nat /\ DOMAIN (s \o t) = 1 .. Len(s \o t)
  BY <1>1, LenProperties
<1>3. i \in 1 .. Len(s) + Len(t) /\ i <= Len(s)
  BY <1>2
<1> QED BY <1>1, <1>2, <1>3

(* Where the bytes behind the decoder stand in the answer.                  *)
LEMMA PlaceInAnswer ==
  ASSUME Shape, Streamed, heard <= Len(downstream)
  PROVE  \E n \in Nat : /\ n = Len(Unread) + Len(replacement["backend"] \o retained)
                        /\ \A i \in 1 .. Len(Behind) :
                             /\ n + i \in DOMAIN (Unread \o Coming)
                             /\ (Unread \o Coming)[n + i] = Behind[i]
                        /\ retained # <<>> =>
                             /\ n \in DOMAIN (Unread \o Coming)
                             /\ Len(retained) \in DOMAIN retained
                             /\ (Unread \o Coming)[n] = retained[Len(retained)]
<1>1. /\ Behind \in Seq(Piece) /\ replacement["backend"] \in Seq(Piece)
      /\ retained \in Seq(Piece)
      /\ replacement["backend"] \o retained \in Seq(Piece)
      /\ Coming = (replacement["backend"] \o retained) \o Behind /\ Coming \in Seq(Piece)
  BY ComingRegrouped
<1>2. Unread \in Seq(Piece)
  BY UnreadIsTheRest
<1> DEFINE r == replacement["backend"]
           held == r \o retained
<1>3. held \in Seq(Piece) /\ Coming = held \o Behind /\ Len(held) \in Nat /\ Len(Unread) \in Nat
      /\ r \in Seq(Piece)
  BY <1>1, <1>2, LenProperties
<1> DEFINE n == Len(Unread) + Len(held)
<1>4. ASSUME NEW i \in 1 .. Len(held) + Len(Behind)
      PROVE  /\ Len(Unread) + i \in DOMAIN (Unread \o Coming)
             /\ (Unread \o Coming)[Len(Unread) + i] = Coming[i]
  <2>1. Len(Coming) = Len(held) + Len(Behind)
    BY <1>1, <1>3, ConcatProperties
  <2>2. i \in 1 .. Len(Coming)
    BY <2>1
  <2> DEFINE u == Unread
             c == Coming
  <2>3. u \in Seq(Piece) /\ c \in Seq(Piece) /\ i \in 1 .. Len(c)
    BY <1>1, <1>2, <2>2
  <2> HIDE DEF u, c, held, n
  <2>4. Len(u) + i \in DOMAIN (u \o c) /\ (u \o c)[Len(u) + i] = c[i]
    BY <2>3, LastPart
  <2> QED BY <2>4 DEF u, c
<1>5. ASSUME NEW i \in 1 .. Len(Behind)
      PROVE  /\ n + i \in DOMAIN (Unread \o Coming)
             /\ (Unread \o Coming)[n + i] = Behind[i]
  <2>1. Coming[Len(held) + i] = Behind[i]
    <3> DEFINE b == Behind
    <3>1. held \in Seq(Piece) /\ b \in Seq(Piece) /\ i \in 1 .. Len(b) /\ Coming = held \o b
      BY <1>1, <1>3
    <3> HIDE DEF held, b, n
    <3>2. (held \o b)[Len(held) + i] = b[i]
      BY <3>1, LastPart
    <3> QED BY <3>1, <3>2 DEF b
  <2> HIDE DEF held
  <2>2. Len(Behind) \in Nat
    BY <1>1, LenProperties
  <2>3. Len(held) + i \in 1 .. Len(held) + Len(Behind) /\ n + i = Len(Unread) + (Len(held) + i)
    BY <1>3, <2>2
  <2> QED BY <1>4, <2>1, <2>3
<1>6. ASSUME retained # <<>>
      PROVE  /\ n \in DOMAIN (Unread \o Coming)
             /\ Len(retained) \in DOMAIN retained
             /\ (Unread \o Coming)[n] = retained[Len(retained)]
  <2>1. /\ Len(retained) \in 1 .. Len(retained) /\ DOMAIN retained = 1 .. Len(retained)
        /\ Len(retained) \in Nat
    <3>1. Len(retained) \in Nat \ {0}
      BY <1>1, <1>6, EmptySeq
    <3> QED BY <1>1, <3>1, LenProperties
  <2>2. /\ held[Len(r) + Len(retained)] = retained[Len(retained)]
        /\ Len(held) = Len(r) + Len(retained) /\ Len(r) \in Nat
    <3> HIDE DEF r
    <3> QED BY <1>1, <1>3, <2>1, LastPart
  <2> HIDE DEF held, r
  <2>3. Len(held) \in 1 .. Len(held)
    BY <2>1, <2>2
  <2>4. Coming[Len(held)] = held[Len(held)]
    BY <1>1, <1>3, <2>3, FirstPart
  <2>5. Len(held) \in 1 .. Len(held) + Len(Behind)
    <3>1. Len(Behind) \in Nat
      BY <1>1, LenProperties
    <3> QED BY <1>3, <2>3, <3>1
  <2> QED BY <1>4, <2>1, <2>2, <2>4, <2>5
<1>7. n \in Nat
  BY <1>3
<1> QED BY <1>5, <1>6, <1>7

LEMMA MessageAlone ==
  ASSUME NEW bytes \in Seq(Piece), InMessages(bytes), Len(bytes) >= 3,
         NEW first \in Seq(Piece), Len(first) = 3, \A i \in 1 .. 3 : first[i] = bytes[i]
  PROVE  InMessages(first)
<1>1. DOMAIN bytes = 1 .. Len(bytes) /\ Len(bytes) \in Nat /\ DOMAIN first = 1 .. 3
  BY LenProperties
<1>2. 1 \in DOMAIN bytes /\ 2 \in DOMAIN bytes /\ 3 \in DOMAIN bytes
  BY <1>1
<1>3. bytes[1].part = 1
  BY <1>2 DEF InMessages
<1>4. bytes[1 + 1].kind = bytes[1].kind /\ bytes[1 + 2].kind = bytes[1].kind /\ bytes[1 + 2].part = 3
  BY <1>2, <1>3 DEF InMessages
<1>5. bytes[2].part # 3
  <2>1. bytes[2].part = 3 => bytes[2 + 1].part = 1
    <3>1. 2 + 1 \in DOMAIN bytes
      BY <1>2
    <3> QED BY <1>2, <3>1 DEF InMessages
  <2> QED BY <1>4, <2>1
<1>6. bytes[2].part # 1
  <2>1. bytes[2].part = 1 => 2 + 2 \in DOMAIN bytes /\ bytes[2 + 2].part = 3
    BY <1>2 DEF InMessages
  <2>2. 3 + 1 \in DOMAIN bytes => bytes[3 + 1].part = 1
    BY <1>2, <1>4 DEF InMessages
  <2> QED BY <2>1, <2>2
<1>7. SUFFICES ASSUME NEW i \in 1 .. 3
               PROVE  /\ i = 1 => first[i].part = 1
                      /\ first[i].part = 1 => /\ i + 2 \in 1 .. 3
                                              /\ first[i + 1].kind = first[i].kind
                                              /\ first[i + 2].kind = first[i].kind
                                              /\ first[i + 2].part = 3
                      /\ first[i].part = 3 /\ i + 1 \in 1 .. 3 => first[i + 1].part = 1
                      /\ first[i].part # 3 => i + 1 \in 1 .. 3
  BY <1>1 DEF InMessages
<1>8. /\ first[1].part = 1 /\ first[2].part # 1 /\ first[2].part # 3 /\ first[3].part = 3
      /\ first[2].kind = first[1].kind /\ first[3].kind = first[1].kind
  BY <1>3, <1>4, <1>5, <1>6
<1>9. CASE i = 1
  BY <1>8, <1>9
<1>10. CASE i = 2
  BY <1>8, <1>10
<1>11. CASE i = 3
  BY <1>8, <1>11
<1> QED BY <1>9, <1>10, <1>11

(* The message of the server that the decoder is at.                        *)
LEMMA BackMessage ==
  ASSUME Shape, Streamed, OneUnderWay, handler = "backend", Buffer # <<>>,
         state \in {"InitState", "InSyncState"}
  PROVE  /\ Answered /\ state = "InSyncState" /\ ~closed
         /\ Behind \in Seq(Piece) /\ InMessages(Behind) /\ Len(Behind) >= 3
         /\ Current = Behind[1] /\ Current.kind \in AnswerKinds
         /\ \A i \in 1 .. 3 : Behind[i].kind = Current.kind
         /\ retained # <<>> => Current.kind = "complete"
<1>1. ~closed /\ Buffer = validation["backend"]
  BY NotClosed DEF Buffer
<1>2. Answered /\ state = "InSyncState"
  BY <1>1, AtTheBack DEF Negotiating, Passing
<1>3. /\ Proper(Unread \o Coming) /\ heard <= Len(downstream) /\ InMessages(Behind)
      /\ \A i \in DOMAIN retained : retained[i].kind = "row"
  BY <1>2 DEF Answered, Behind
<1>4. /\ validation["backend"] \in Seq(Piece) /\ wire["backend"] \in Seq(Piece)
      /\ Behind \in Seq(Piece)
  BY ConcatProperties DEF Shape, Streams, Sides, Behind
<1>5. Behind # <<>> /\ Behind[1] = Buffer[1]
  <2> DEFINE v == validation["backend"]
             w == wire["backend"]
  <2>1. v \in Seq(Piece) /\ w \in Seq(Piece) /\ v # <<>>
    BY <1>1, <1>4
  <2> HIDE DEF v, w
  <2>2. 1 \in 1 .. Len(v)
    <3>1. Len(v) \in Nat \ {0}
      BY <2>1, EmptySeq
    <3> QED BY <3>1
  <2>3. (v \o w)[1] = v[1] /\ v \o w # <<>>
    BY <2>1, <2>2, FirstPart, ConcatEqualIffEmpty
  <2> QED BY <1>1, <2>3 DEF v, w, Behind
<1>6. /\ Len(Behind) >= 3 /\ \A i \in 1 .. 3 : Behind[i].kind = Behind[1].kind
  BY <1>3, <1>4, <1>5, FirstMessage
<1>7. Current = Behind[1]
  BY <1>1, <1>4, <1>5 DEF Current
<1>8. PICK n \in Nat : /\ \A i \in 1 .. Len(Behind) :
                            /\ n + i \in DOMAIN (Unread \o Coming)
                            /\ (Unread \o Coming)[n + i] = Behind[i]
                       /\ retained # <<>> =>
                            /\ n \in DOMAIN (Unread \o Coming)
                            /\ Len(retained) \in DOMAIN retained
                            /\ (Unread \o Coming)[n] = retained[Len(retained)]
  BY <1>3, PlaceInAnswer
<1>9. Len(Behind) \in Nat /\ 1 \in 1 .. Len(Behind) /\ 3 \in 1 .. Len(Behind)
  BY <1>4, <1>6, LenProperties
<1>10. Current.kind \in AnswerKinds
  BY <1>3, <1>7, <1>8, <1>9, KindsOfAnswers
<1>11. ASSUME retained # <<>>
       PROVE  Current.kind = "complete"
  <2>1. (Unread \o Coming)[n].kind = "row" /\ n \in DOMAIN (Unread \o Coming)
    BY <1>3, <1>8, <1>11
  <2>2. n + 3 \in DOMAIN (Unread \o Coming) /\ (Unread \o Coming)[n + 3].kind = Current.kind
    BY <1>6, <1>7, <1>8, <1>9
  <2>3. <<"row", Current.kind>> \in Follows
    BY <1>3, <2>1, <2>2 DEF Proper
  <2> QED BY <2>3 DEF Follows
<1> QED BY <1>1, <1>2, <1>3, <1>4, <1>6, <1>7, <1>10, <1>11

(* A message that does not validate is the client's.                        *)
LEMMA LoseSyncOne ==
  ASSUME Shape, Streamed, OneUnderWay, LoseSync
  PROVE  LostSync' /\ ~closed'
<1>1. /\ Running /\ state \in {"InitState", "InSyncState"} /\ Unreadable
      /\ state' = "OutOfSyncState" /\ DropAll
      /\ UNCHANGED <<config, sent, stage, awaiting, heard, served, answers, wire, upstream,
                     downstream, closed, replacement, tempStorage, retained, handler>>
  BY DEF LoseSync, client, server, outputs, transports
<1>2. handler \in Sides /\ Buffer \in Seq(Piece)
  BY <1>1 DEF Running, Shape, Buffer, Streams
<1>3. Buffer # <<>> /\ Current.kind \in {"oversized", "short_password"}
  <2>1. Len(Buffer) # 0
    BY <1>1, <1>2 DEF Unreadable
  <2> QED BY <1>1, <1>2, <2>1, EmptySeq DEF Unreadable
<1>4. handler = "frontend"
  <2> SUFFICES ASSUME handler = "backend" PROVE FALSE
    BY <1>2 DEF Sides
  <2>1. Current.kind \in AnswerKinds
    BY <1>1, <1>3, BackMessage
  <2> QED BY <1>3, <2>1 DEF AnswerKinds
<1>5. Arriving /\ ~closed /\ sent # <<>> /\ Current.kind = LastKind
  BY <1>1, <1>3, <1>4, FrontBuffer
<1>6. /\ LastKind \in {"oversized", "short_password"} /\ awaiting
      /\ replacement["frontend"] = <<>> /\ BackEmpty
      /\ served = Len(upstream) /\ heard = Len(downstream)
  BY <1>3, <1>5 DEF Arriving, Waiting
<1>7. replacement' = Nothing
  BY <1>1, <1>6, BothEmpty DEF BackEmpty
<1>8. validation'["backend"] = validation["backend"]
  BY <1>1, <1>4 DEF DropAll, Shape, Streams, Sides
<1>9. BackEmpty'
  BY <1>1, <1>6, <1>8 DEF BackEmpty
<1>10. LostSync'
  BY <1>1, <1>5, <1>6, <1>7, <1>9 DEF LostSync, LastKind
<1> QED BY <1>1, <1>5, <1>10

LEMMA IgnoreOne ==
  ASSUME Shape, OneUnderWay, Ignore
  PROVE  OneUnderWay' /\ ~closed'
<1>1. /\ Running /\ state \in {"OutOfSyncState", "EncryptedState"} /\ DropAll
      /\ UNCHANGED <<config, sent, stage, awaiting, heard, served, answers, wire, upstream,
                     downstream, closed, state, replacement, tempStorage, retained, handler>>
  BY DEF Ignore, client, server, outputs, transports
<1>2. ~closed /\ ~closed'
  BY <1>1, NotClosed DEF Running
<1>3. \A side \in Sides : validation[side] = <<>> => validation'[side] = <<>>
  BY <1>1 DEF DropAll, Shape, Streams
<1>4. LostSync \/ Passing
  BY <1>1, <1>2 DEF OneUnderWay, Resting, Arriving, Negotiating, Leaving, AtServer, Answered,
     Forwardable
<1>5. CASE LostSync
  <2>1. LostSync'
    BY <1>1, <1>3, <1>5, NothingIsEmpty DEF LostSync, LastKind, BackEmpty
  <2> QED BY <1>2, <2>1 DEF OneUnderWay
<1>6. CASE Passing
  <2>1. Passing'
    BY <1>1, <1>3, <1>6, NothingIsEmpty
       DEF Passing, Waiting, LastKind, LastSent, ForServer
  <2> QED BY <1>2, <2>1 DEF OneUnderWay
<1> QED BY <1>4, <1>5, <1>6

(* A message of the client in the session goes on to the server, or its     *)
(* answer to the client.                                                    *)
LEMMA RelayOrRefuseOne ==
  ASSUME Shape, Shape', Streamed', OneUnderWay, RelayOrRefuse
  PROVE  (Leaving' \/ Answered') /\ ~closed'
<1>1. /\ Readable("frontend") /\ state = "InSyncState" /\ state' = state /\ Drop(3)
      /\ UNCHANGED <<config, sent, stage, awaiting, heard, served, answers, wire, upstream,
                     downstream, closed, tempStorage, handler>>
      /\ retained' = IF Current.kind \in {"query", "refused"} THEN <<>> ELSE retained
      /\ IF Current.kind = "refused"
           THEN Replace("backend", Bytes("failed", Current.m) \o Bytes("ready", Current.m))
           ELSE Replace("frontend", Message)
  BY DEF RelayOrRefuse, client, server, outputs, transports
<1>2. /\ Arriving /\ ~closed /\ sent # <<>> /\ handler = "frontend" /\ Waiting
      /\ Current.kind = LastKind /\ Current.m = Len(sent) /\ wire["frontend"] = <<>>
      /\ Message = LastSent
      /\ replacement["frontend"] = <<>> /\ tempStorage = <<>> /\ BackEmpty
      /\ served = Len(upstream) /\ heard = Len(downstream)
      /\ LastKind \notin {"oversized", "short_password"}
      /\ validation'["frontend"] = <<>> /\ validation'["backend"] = validation["backend"]
  BY <1>1, FrontMessage
<1>3. LastKind \in {"password", "query", "refused", "terminate"}
  BY <1>1, <1>2 DEF Arriving
<1>4. retained' = <<>>
  BY <1>1, <1>2 DEF BackEmpty
<1>5. Waiting' /\ LastSent' = LastSent /\ LastKind' = LastKind
  BY <1>1, <1>2 DEF Waiting, LastKind, LastSent
<1>6. CASE LastKind # "refused"
  <2>1. replacement'["frontend"] = LastSent /\ replacement'["backend"] = <<>>
    BY <1>1, <1>2, <1>6, ReplacedByLast DEF BackEmpty
  <2>2. BackEmpty'
    BY <1>1, <1>2, <1>4, <2>1 DEF BackEmpty
  <2>3. Forwardable'
    BY <1>1, <1>2, <1>3, <1>5, <1>6 DEF Forwardable
  <2>4. Leaving'
    BY <1>1, <1>2, <1>5, <2>1, <2>2, <2>3 DEF Leaving
  <2> QED BY <1>1, <1>2, <2>4
<1>7. CASE LastKind = "refused"
  <2> DEFINE answer == Bytes("failed", Len(sent)) \o Bytes("ready", Len(sent))
  <2>1. WholeAnswer(answer, Len(sent')) /\ answer \in Seq(Piece)
    <3>1. Len(sent) \in Nat
      BY <1>2, SentIsThree
    <3> QED BY <1>1, <3>1, AnswersAreWhole DEF WholeAnswer
  <2>2. Replace("backend", answer)
    BY <1>1, <1>2, <1>7
  <2> HIDE DEF answer
  <2>3. replacement'["frontend"] = <<>> /\ replacement'["backend"] = answer
    <3>1. <<>> \o answer = answer
      BY <2>1, ConcatEmptySeq
    <3> QED BY <1>2, <2>2, <3>1 DEF Replace, Shape, Streams, Sides, BackEmpty
  <2>4. FrontEmpty'
    BY <1>1, <1>2, <2>3 DEF FrontEmpty
  <2>5. awaiting'
    BY <1>1, <1>2, <1>7 DEF Waiting
  <2>6. validation'["backend"] = <<>> /\ wire'["backend"] = <<>>
    BY <1>1, <1>2 DEF BackEmpty
  <2>7. Answered'
    BY <1>1, <1>2, <1>4, <2>1, <2>3, <2>4, <2>5, <2>6, JustAnswered
  <2> QED BY <1>1, <1>2, <2>7
<1> QED BY <1>6, <1>7

(* A message of the server is held back or goes on: of the answer that      *)
(* comes it stays the next part, whichever buffer it is in.                 *)
LEMMA RetainOrEmitOne ==
  ASSUME Shape, Shape', Streamed, OneUnderWay, RetainOrEmit
  PROVE  Answered /\ state = "InSyncState" /\ Answered' /\ ~closed' /\ Coming' = Coming
<1>1. /\ Readable("backend") /\ state = "InSyncState" /\ state' = state /\ Drop(3)
      /\ UNCHANGED <<config, sent, stage, awaiting, heard, served, answers, wire, upstream,
                     downstream, closed, tempStorage, handler>>
      /\ \/ Current.kind = "row" /\ retained' = retained \o Message /\ replacement' = replacement
         \/ /\ Current.kind = "complete" /\ Replace("backend", retained \o Message)
            /\ retained' = <<>>
         \/ /\ Current.kind \notin {"row", "complete"} /\ Replace("backend", Message)
            /\ retained' = retained
  BY DEF RetainOrEmit, client, server, outputs, transports
<1>2. /\ handler = "backend" /\ Buffer \in Seq(Piece) /\ Len(Buffer) >= 3
      /\ Message \in Seq(Piece) /\ Len(Message) = 3 /\ \A i \in 1 .. 3 : Message[i] = Buffer[i]
  BY <1>1, WholeMessage DEF Sides
<1>3. Buffer # <<>>
  BY <1>2, EmptySeq
<1>4. /\ Answered /\ ~closed
      /\ Behind \in Seq(Piece) /\ InMessages(Behind) /\ Len(Behind) >= 3
      /\ Current = Behind[1] /\ Current.kind \in AnswerKinds
      /\ \A i \in 1 .. 3 : Behind[i].kind = Current.kind
      /\ retained # <<>> => Current.kind = "complete"
  BY <1>1, <1>2, <1>3, BackMessage
<1> DEFINE v == Buffer
           w == wire["backend"]
           r == replacement["backend"]
           message == Message
           next == Behind'
<1>5. /\ v \in Seq(Piece) /\ w \in Seq(Piece) /\ r \in Seq(Piece) /\ retained \in Seq(Piece)
      /\ message \in Seq(Piece) /\ Behind = v \o w /\ Len(v) >= 3
      /\ next = SubSeq(v, 4, Len(v)) \o w /\ message = SubSeq(v, 1, 3)
  <2>1. validation'["backend"] = SubSeq(v, 4, Len(v))
    <3>1. 3 + 1 = 4
      OBVIOUS
    <3> QED BY <1>1, <1>2, <3>1 DEF Drop, Buffer, Shape, Streams, Sides
  <2> QED BY <1>1, <1>2, <2>1 DEF Behind, Message, Shape, Streams, Sides, Buffer
<1>6. replacement'["frontend"] = replacement["frontend"]
      /\ validation'["frontend"] = validation["frontend"]
  BY <1>1, <1>2 DEF Replace, Drop, Shape, Streams, Sides
<1> HIDE DEF v, w, r, message, next
<1>7. /\ next \in Seq(Piece) /\ InMessages(next) /\ Behind = message \o next
      /\ \A i \in 1 .. 3 : Behind[i] = v[i]
  <2>1. /\ next \in Seq(Piece) /\ SubSeq(v, 4, Len(v)) \in Seq(Piece)
        /\ v = message \o SubSeq(v, 4, Len(v)) /\ \A i \in 1 .. 3 : Behind[i] = v[i]
    BY <1>5, TakenOff
  <2>2. InMessages(next)
    BY <1>4, <1>5, MessageTaken
  <2> DEFINE rest == SubSeq(v, 4, Len(v))
  <2>3. rest \in Seq(Piece) /\ v = message \o rest /\ next = rest \o w
    BY <1>5, <2>1
  <2> HIDE DEF rest
  <2>4. (message \o rest) \o w = message \o (rest \o w)
    BY <1>5, <2>3, Regrouped
  <2> QED BY <1>5, <2>1, <2>2, <2>3, <2>4
<1>8. InMessages(message) /\ Len(message) = 3 /\ DOMAIN message = 1 .. 3
      /\ \A i \in 1 .. 3 : message[i].kind = Current.kind
  <2>1. Len(message) = 3 /\ \A i \in 1 .. 3 : message[i] = Behind[i]
    BY <1>2, <1>7 DEF message, v
  <2>2. InMessages(message)
    BY <1>4, <1>5, <2>1, MessageAlone
  <2> QED BY <1>4, <1>5, <2>1, <2>2, LenProperties
<1>9. /\ InMessages(r) /\ InMessages(retained) /\ InMessages(Unread)
      /\ Unread \o Coming # <<>> /\ Proper(Unread \o Coming) /\ heard <= Len(downstream)
      /\ \A i \in DOMAIN Coming : Coming[i].m = Len(sent)
      /\ \A i \in DOMAIN retained : retained[i].kind = "row"
      /\ sent # <<>> /\ awaiting /\ served = Len(upstream) /\ FrontEmpty
  BY <1>1, <1>4 DEF Answered, r
<1> DEFINE nextR == replacement'["backend"]
<1>10. /\ nextR \in Seq(Piece) /\ retained' \in Seq(Piece)
       /\ nextR \o retained' = (r \o retained) \o message
       /\ InMessages(nextR) /\ InMessages(retained')
       /\ \A i \in DOMAIN retained' : retained'[i].kind = "row"
  <2>1. CASE Current.kind = "row"
    <3>1. retained = <<>> /\ retained' = retained \o message /\ nextR = r
      BY <1>1, <1>4, <2>1 DEF message, r
    <3>2. <<>> \o message = message /\ r \o <<>> = r
      BY <1>5, ConcatEmptySeq
    <3>3. retained' = message
      BY <3>1, <3>2
    <3> QED BY <1>5, <1>8, <1>9, <2>1, <3>1, <3>2, <3>3
  <2>2. CASE Current.kind = "complete"
    <3> DEFINE all == retained \o message
    <3>1. retained' = <<>> /\ nextR = r \o all
      BY <1>1, <2>2 DEF message, r, Replace, Shape, Streams, Sides
    <3>2. all \in Seq(Piece) /\ InMessages(all) /\ r \o all = (r \o retained) \o message
      BY <1>5, <1>8, <1>9, MessagesJoined, ConcatProperties, Regrouped
    <3> HIDE DEF all
    <3>3. r \o all \in Seq(Piece) /\ (r \o all) \o <<>> = r \o all /\ InMessages(r \o all)
      <4>1. r \o all \in Seq(Piece) /\ InMessages(r \o all)
        BY <1>5, <1>9, <3>2, MessagesJoined, ConcatProperties
      <4> QED BY <4>1, ConcatEmptySeq
    <3>4. <<>> \in Seq(Piece) /\ DOMAIN <<>> = {}
      BY EmptySeq
    <3>5. InMessages(<<>>)
      BY <3>4 DEF InMessages
    <3> HIDE DEF nextR
    <3> QED BY <3>1, <3>2, <3>3, <3>4, <3>5
  <2>3. CASE Current.kind \notin {"row", "complete"}
    <3>1. retained = <<>> /\ retained' = <<>> /\ nextR = r \o message
      BY <1>1, <1>4, <2>3 DEF message, r, Replace, Shape, Streams, Sides
    <3>2. r \o <<>> = r
      BY <1>5, ConcatEmptySeq
    <3>3. r \o message \in Seq(Piece) /\ (r \o message) \o <<>> = r \o message
          /\ InMessages(r \o message)
      <4>1. r \o message \in Seq(Piece) /\ InMessages(r \o message)
        BY <1>5, <1>8, <1>9, MessagesJoined, ConcatProperties
      <4> QED BY <4>1, ConcatEmptySeq
    <3> HIDE DEF nextR
    <3> QED BY <1>5, <1>9, <3>1, <3>2, <3>3
  <2> QED BY <2>1, <2>2, <2>3
<1>11. Coming' = Coming
  <2> DEFINE held == r \o retained
  <2>1. held \in Seq(Piece)
    BY <1>5, ConcatProperties
  <2>2. Coming = held \o Behind
    BY ComingRegrouped DEF r
  <2>3. Coming' = (nextR \o retained') \o next
    <3>1. validation'["backend"] \in Seq(Piece) /\ wire'["backend"] \in Seq(Piece)
      BY DEF Shape, Streams, Sides
    <3> DEFINE v1 == validation'["backend"]
               w1 == wire'["backend"]
               h1 == nextR \o retained'
    <3>2. h1 \in Seq(Piece) /\ v1 \in Seq(Piece) /\ w1 \in Seq(Piece)
      BY <1>10, <3>1, ConcatProperties
    <3>3. Coming' = (h1 \o v1) \o w1 /\ next = v1 \o w1
      BY DEF Coming, Behind, next
    <3> HIDE DEF v1, w1, h1
    <3>4. (h1 \o v1) \o w1 = h1 \o (v1 \o w1)
      BY <3>2, Regrouped
    <3> QED BY <3>3, <3>4 DEF h1
  <2> HIDE DEF held
  <2>4. (held \o message) \o next = held \o (message \o next)
    BY <1>5, <1>7, <2>1, Regrouped
  <2> QED BY <1>7, <1>10, <2>2, <2>3, <2>4 DEF held
<1>12. Unread' = Unread
  BY <1>1 DEF Unread
<1>13. FrontEmpty'
  BY <1>1, <1>6, <1>9 DEF FrontEmpty
<1>14. InMessages(validation'["backend"] \o wire'["backend"])
  BY <1>7 DEF next, Behind
<1>15. Answered'
  BY <1>1, <1>9, <1>10, <1>11, <1>12, <1>13, <1>14 DEF Answered
<1> QED BY <1>1, <1>4, <1>11, <1>15

-----------------------------------------------------------------------------
(* All of it: one message is under way, and with it the buffers that wait   *)
(* for more have no whole message in them.                                  *)
Decoding == state \in {"InitState", "InSyncState"} /\ ~closed
NoMessageLeft == Decoding => \A side \in Sides : handler # side => Len(validation[side]) <= 2

LEMMA InitOne ==
  ASSUME Init
  PROVE  SessionHeld
<1>1. /\ FrontEmpty /\ BackEmpty /\ replacement = Nothing /\ validation = Nothing
      /\ ~closed /\ state = "InitState" /\ failedAsserts = {}
  BY NothingIsEmpty DEF Init, FrontEmpty, BackEmpty
<1>2. Resting
  <2>1. served = Len(upstream) /\ heard = Len(downstream)
    BY EmptySeq DEF Init
  <2> QED BY <1>1, <2>1 DEF Init, Resting
<1>3. \A side \in Sides : Len(validation[side]) <= 2
  <2>1. Len(<<>>) = 0
    BY EmptySeq
  <2> QED BY <1>1, <2>1 DEF Nothing
<1> QED BY <1>1, <1>2, <1>3 DEF SessionHeld, OneUnderWay, NoAssertFails, SyncIsKept, InvalidSent

LEMMA DecodeOne ==
  ASSUME Shape, Shape', Streamed, Streamed', OneUnderWay, Decode
  PROVE  OneUnderWay'
<1>1. CASE TerminateSslRequest
  BY <1>1, TerminateOne DEF OneUnderWay
<1>2. CASE PassEncrypted
  BY <1>2, PassEncryptedOne DEF OneUnderWay
<1>3. CASE StartInClear
  BY <1>3, StartInClearOne DEF OneUnderWay
<1>4. CASE StartNegotiation
  BY <1>4, StartNegotiationOne DEF OneUnderWay
<1>5. CASE NegotiationAnswered
  BY <1>5, NegotiationAnsweredOne DEF OneUnderWay
<1>6. CASE LoseSync
  BY <1>6, LoseSyncOne DEF OneUnderWay
<1>7. CASE Ignore
  BY <1>7, IgnoreOne
<1>8. CASE RelayOrRefuse
  BY <1>8, RelayOrRefuseOne DEF OneUnderWay
<1>9. CASE RetainOrEmit
  BY <1>9, RetainOrEmitOne DEF OneUnderWay
<1> QED BY <1>1, <1>2, <1>3, <1>4, <1>5, <1>6, <1>7, <1>8, <1>9, NeverDisturbed DEF Decode

LEMMA NextOneUnderWay ==
  ASSUME Patient, Shape, Shape', Streamed, Streamed', OneUnderWay, [Next]_vars
  PROVE  OneUnderWay'
<1>1. CASE \E kind \in Kinds : ClientSends(kind)
  BY <1>1, ClientSendsOne DEF OneUnderWay
<1>2. CASE ClientReads
  BY <1>2, ClientReadsOne
<1>3. CASE ServerAnswers
  BY <1>3, ServerAnswersOne
<1>4. CASE \E side \in Sides : Receive(side)
  BY <1>4, ReceiveOne
<1>5. CASE Decode
  BY <1>5, DecodeOne
<1>6. CASE Finish
  BY <1>6, FinishOne
<1>7. CASE BytesSent
  BY <1>7, BytesSentOne
<1>8. CASE UNCHANGED vars
  <2>1. UNCHANGED PhaseVars /\ handler' = handler /\ closed' = closed
    BY <1>8 DEF vars, PhaseVars, client, server, buffers, outputs, transports
  <2>2. CASE closed
    BY <2>1, <2>2 DEF OneUnderWay
  <2>3. CASE ~closed
    BY <2>1, <2>3, SamePhase
  <2> QED BY <2>2, <2>3
<1> QED BY <1>1, <1>2, <1>3, <1>4, <1>5, <1>6, <1>7, <1>8 DEF Next

(* The buffer of the other side stays, and the one of the handler is left   *)
(* when there is no whole message in it.                                    *)
LEMMA NextLeavesNone ==
  ASSUME Shape, Shape', Streamed, OneUnderWay, NoMessageLeft, [Next]_vars
  PROVE  NoMessageLeft'
<1> SUFFICES ASSUME Decoding', NEW side \in Sides, handler' # side
             PROVE  Len(validation'[side]) <= 2
  BY DEF NoMessageLeft
<1>1. Len(<<>>) = 0 /\ <<>> \in Seq(Piece)
  BY EmptySeq
<1>2. CASE /\ validation'[side] = validation[side] /\ handler # side
           /\ state \in {"InitState", "InSyncState"} /\ ~closed
  BY <1>2 DEF NoMessageLeft, Decoding
<1>3. CASE validation'[side] = <<>>
  BY <1>1, <1>3
<1>4. CASE UNCHANGED vars
  <2>1. validation' = validation /\ state' = state /\ handler' = handler /\ closed' = closed
    BY <1>4 DEF vars, buffers, transports
  <2> QED BY <1>2, <2>1 DEF Decoding
<1>5. CASE (\E kind \in Kinds : ClientSends(kind)) \/ ClientReads \/ ServerAnswers \/ BytesSent
  <2>1. /\ validation' = validation /\ state' = state /\ handler' = handler
        /\ closed' # closed => closed'
    BY <1>5 DEF ClientSends, ClientReads, ServerAnswers, BytesSent, buffers, transports, Quiet
  <2> QED BY <1>2, <2>1 DEF Decoding
<1>6. CASE \E at \in Sides : Receive(at)
  <2>1. PICK at \in Sides : Receive(at)
    BY <1>6
  <2>2. handler = "none" /\ ~closed /\ state' = state /\ side # at
    BY <2>1 DEF Receive, Quiet
  <2>3. validation'[side] = validation[side]
    BY <2>1, <2>2, SameStream
  <2> QED BY <1>2, <2>2, <2>3 DEF Decoding, Sides
<1>7. CASE Finish
  <2>1. /\ validation' = validation /\ state' = state /\ closed' = closed /\ handler \in Sides
        /\ Buffer = <<>> \/ NeedMoreData
    BY <1>7, Finished DEF Finish
  <2>2. CASE handler # side
    BY <1>2, <2>1, <2>2 DEF Decoding
  <2>3. CASE handler = side
    <3>1. CASE Buffer = <<>>
      BY <1>3, <2>1, <2>3, <3>1 DEF Buffer
    <3>2. CASE NeedMoreData
      <4> DEFINE n == Len(validation[side])
      <4>1. Len(validation'[side]) = n /\ n \in 1 .. 2
        BY <2>1, <2>3, <3>2 DEF NeedMoreData, Buffer
      <4> HIDE DEF n
      <4> QED BY <4>1
    <3> QED BY <2>1, <3>1, <3>2
  <2> QED BY <2>2, <2>3
<1>8. CASE TerminateSslRequest \/ StartNegotiation
  <2>1. Readable("frontend") /\ state = "InitState" /\ Drop(3)
    BY <1>8 DEF TerminateSslRequest, StartNegotiation
  <2>2. /\ ~closed /\ handler = "frontend" /\ validation'["frontend"] = <<>>
        /\ validation'["backend"] = validation["backend"]
    BY <2>1, FrontMessage
  <2> QED BY <1>2, <1>3, <2>1, <2>2 DEF Sides
<1>9. CASE NegotiationAnswered
  <2>1. validation' = Nothing
    <3>1. ~closed'
      BY DEF Decoding
    <3> QED BY <1>9, <3>1, NegotiationAnsweredOne
  <2> QED BY <1>3, <2>1 DEF Nothing
<1>10. CASE PassEncrypted \/ StartInClear \/ LoseSync \/ Ignore \/ RelayOrRefuse \/ RetainOrEmit
  <2>1. PassEncrypted => state' = "EncryptedState"
    BY DEF PassEncrypted
  <2>2. LoseSync => state' = "OutOfSyncState"
    BY DEF LoseSync
  <2>3. Ignore => state' \in {"EncryptedState", "OutOfSyncState"}
    BY DEF Ignore
  <2>4. StartInClear \/ RelayOrRefuse \/ RetainOrEmit
    BY <1>10, <2>1, <2>2, <2>3 DEF Decoding
  <2>5. /\ state \in {"InitState", "InSyncState"} /\ Drop(3) /\ closed' = closed
        /\ handler' = handler /\ handler \in Sides
    BY <2>4, WholeMessage DEF StartInClear, RelayOrRefuse, RetainOrEmit, transports, Readable, Sides
  <2>6. validation'[side] = validation[side]
    BY <2>5 DEF Drop, Shape, Streams
  <2> QED BY <1>2, <2>5, <2>6 DEF Decoding
<1> QED BY <1>4, <1>5, <1>6, <1>7, <1>8, <1>9, <1>10, NeverDisturbed DEF Next, Decode

(* No handler leaves something in the replacement data, nor with an ASSERT  *)
(* that does not hold.                                                      *)
LEMMA NextAsserts ==
  ASSUME Shape, Shape', Streamed, OneUnderWay, [Next]_vars,
         handler = "none" => replacement = Nothing, NoAssertFails
  PROVE  /\ handler' = "none" => replacement' = Nothing
         /\ NoAssertFails'
<1>1. CASE Finish
  <2>1. replacement' = Nothing /\ (handler = "backend" => replacement["frontend"] = <<>>)
    BY <1>1, Finished
  <2>2. handler = "backend" => Asserts("onWrite", replacement["frontend"] = <<>>)
    BY <1>1 DEF Finish
  <2>3. handler = "frontend" => failedAsserts' = failedAsserts
    BY <1>1 DEF Finish
  <2>4. handler \in Sides
    BY <1>1, Finished
  <2> QED BY <2>1, <2>2, <2>3, <2>4 DEF Asserts, NoAssertFails, Sides
<1>2. CASE TerminateSslRequest \/ StartNegotiation \/ NegotiationAnswered
  <2>1. failedAsserts' = failedAsserts /\ replacement' = Nothing
    BY <1>2, TerminateOne, StartNegotiationOne, NegotiationAnsweredOne
  <2> QED BY <2>1 DEF NoAssertFails
<1>3. CASE PassEncrypted \/ StartInClear \/ LoseSync \/ Ignore \/ RelayOrRefuse \/ RetainOrEmit
  <2>1. handler' = handler /\ handler # "none" /\ failedAsserts' = failedAsserts
    BY <1>3 DEF PassEncrypted, StartInClear, LoseSync, Ignore, RelayOrRefuse, RetainOrEmit,
       Running, Readable
  <2> QED BY <2>1 DEF NoAssertFails
<1>4. CASE \/ \E kind \in Kinds : ClientSends(kind)
           \/ ClientReads \/ ServerAnswers \/ BytesSent \/ UNCHANGED vars
  <2>1. handler' = handler /\ replacement' = replacement /\ failedAsserts' = failedAsserts
    BY <1>4 DEF ClientSends, ClientReads, ServerAnswers, BytesSent, vars, buffers
  <2> QED BY <2>1 DEF NoAssertFails
<1>5. CASE \E side \in Sides : Receive(side)
  <2>1. handler' # "none" /\ failedAsserts' = failedAsserts
    BY <1>5 DEF Receive, Sides
  <2> QED BY <2>1 DEF NoAssertFails
<1> QED BY <1>1, <1>2, <1>3, <1>4, <1>5, NeverDisturbed DEF Next, Decode

LEMMA NextSession ==
  ASSUME Patient, Shape, Shape', Streamed, Streamed', SessionHeld, [Next]_vars
  PROVE  SessionHeld'
<1>1. OneUnderWay /\ NoMessageLeft /\ (handler = "none" => replacement = Nothing) /\ NoAssertFails
  BY DEF SessionHeld, NoMessageLeft, Decoding
<1>2. OneUnderWay'
  BY <1>1, NextOneUnderWay
<1>3. NoMessageLeft'
  BY <1>1, NextLeavesNone
<1>4. /\ handler' = "none" => replacement' = Nothing
      /\ NoAssertFails'
  BY <1>1, NextAsserts
<1>5. SyncIsKept'
  <2>1. sent' \in Seq(ClientKinds)
    BY DEF Shape
  <2> SUFFICES ASSUME state' = "OutOfSyncState", ~closed'
               PROVE  \E m \in DOMAIN sent' : sent'[m] \in {"oversized", "short_password"}
    BY DEF SyncIsKept, InvalidSent
  <2>2. LostSync'
    BY <1>2 DEF OneUnderWay, Resting, Arriving, Negotiating, Leaving, AtServer, Answered, Passing,
       Forwardable
  <2>3. Len(sent') \in DOMAIN sent'
    BY <2>1, <2>2, EmptySeq, LenProperties DEF LostSync
  <2> QED BY <2>2, <2>3 DEF LostSync, LastKind
<1> QED BY <1>2, <1>3, <1>4, <1>5 DEF SessionHeld, NoMessageLeft, Decoding

(* A client that waits has one message or its answer under way, at every    *)
(* moment and however the streams are cut: the phases of SessionHeld are    *)
(* what can be between it and the server.                                   *)
THEOREM SessionIsHeld ==
  ASSUME Patient
  PROVE  Spec => []SessionHeld
<1>1. Init => Shape /\ Streamed /\ SessionHeld
  BY InitShape, InitStreamed, InitOne
<1>2. Shape /\ Streamed /\ SessionHeld /\ [Next]_vars => (Shape /\ Streamed /\ SessionHeld)'
  <2> SUFFICES ASSUME Shape, Streamed, SessionHeld, [Next]_vars
               PROVE  Shape' /\ Streamed' /\ SessionHeld'
    OBVIOUS
  <2>1. Shape'
    BY NextKeepsShape
  <2>2. Streamed'
    BY NextStreamed
  <2> QED BY <2>1, <2>2, NextSession
<1> QED BY <1>1, <1>2, PTL DEF Spec

(* The handlers leave with their buffers as the ASSERTs of onWrite and of   *)
(* the Stopped results say.                                                 *)
THEOREM AssertsHold ==
  ASSUME Patient
  PROVE  Spec => []NoAssertFails
<1>1. SessionHeld => NoAssertFails
  BY DEF SessionHeld
<1> QED BY <1>1, SessionIsHeld, PTL

(* The decoder of a client that waits falls out of sync by a message that   *)
(* does not validate only.                                                  *)
THEOREM SyncStays == Spec => []SyncIsKept
<1>1. CASE Patient
  <2>1. SessionHeld => SyncIsKept
    BY DEF SessionHeld
  <2> QED BY <1>1, <2>1, SessionIsHeld, PTL
<1>2. CASE ~Patient
  <2>1. SyncIsKept
    BY <1>2 DEF SyncIsKept
  <2> QED BY <2>1, PTL
<1> QED BY <1>1, <1>2

-----------------------------------------------------------------------------
(* What the server has got.                                                 *)
UpHeld ==
  /\ QueriesRelayedOnce
  /\ state # "OutOfSyncState" =>
       ServerGot(Len(upstream)) = {byte \in Meant : OnTheWay => byte.m < Len(sent)}

Got(bytes, n) == {Plain(bytes[i]) : i \in {j \in 1 .. n : bytes[j].m # 0}}

LEMMA UpIsHeld ==
  ASSUME \A i \in DOMAIN upstream' : upstream'[i].m # 0 =>
           /\ Plain(upstream'[i]) \in Meant'
           /\ Got(upstream', i - 1) = {byte \in Meant' : Earlier(byte, upstream'[i])},
         state' # "OutOfSyncState" =>
           Got(upstream', Len(upstream')) = {byte \in Meant' : OnTheWay' => byte.m < Len(sent')}
  PROVE  UpHeld'
BY DEF UpHeld, QueriesRelayedOnce, ServerGot, Got, Plain, Earlier

LEMMA UpWasHeld ==
  ASSUME UpHeld
  PROVE  /\ \A i \in DOMAIN upstream : upstream[i].m # 0 =>
              /\ Plain(upstream[i]) \in Meant
              /\ Got(upstream, i - 1) = {byte \in Meant : Earlier(byte, upstream[i])}
         /\ state # "OutOfSyncState" =>
              Got(upstream, Len(upstream)) = {byte \in Meant : OnTheWay => byte.m < Len(sent)}
BY DEF UpHeld, QueriesRelayedOnce, ServerGot, Got, Plain, Earlier

LEMMA MeantBytes ==
  ASSUME Shape
  PROVE  /\ \A byte \in Meant :
              /\ byte.m \in DOMAIN sent /\ ForServer(byte.m) /\ byte.part \in 1 .. 3
              /\ byte = [kind |-> sent[byte.m], m |-> byte.m, part |-> byte.part]
              /\ byte.m \in Nat /\ byte.m <= Len(sent)
         /\ \A m \in DOMAIN sent, p \in 1 .. 3 :
              ForServer(m) => [kind |-> sent[m], m |-> m, part |-> p] \in Meant
         /\ DOMAIN sent = 1 .. Len(sent) /\ Len(sent) \in Nat
<1>1. DOMAIN sent = 1 .. Len(sent) /\ Len(sent) \in Nat
  BY LenProperties DEF Shape
<1>2. ASSUME NEW byte \in Meant
      PROVE  /\ byte.m \in DOMAIN sent /\ ForServer(byte.m) /\ byte.part \in 1 .. 3
             /\ byte = [kind |-> sent[byte.m], m |-> byte.m, part |-> byte.part]
             /\ byte.m \in Nat /\ byte.m <= Len(sent)
  <2>1. PICK m \in {x \in DOMAIN sent : ForServer(x)}, p \in 1 .. 3 :
          byte = [kind |-> sent[m], m |-> m, part |-> p]
    BY DEF Meant
  <2>2. m \in DOMAIN sent /\ ForServer(m) /\ byte.m = m /\ byte.part = p
    BY <2>1
  <2> QED BY <1>1, <2>1, <2>2
<1>3. ASSUME NEW m \in DOMAIN sent, NEW p \in 1 .. 3, ForServer(m)
      PROVE  [kind |-> sent[m], m |-> m, part |-> p] \in Meant
  BY <1>3 DEF Meant
<1> QED BY <1>1, <1>2, <1>3

LEMMA MeantSame ==
  ASSUME sent' = sent, config' = config
  PROVE  Meant' = Meant
BY DEF Meant, ForServer

(* The server gets nothing, and what is on its way stays there.             *)
LEMMA UpSame ==
  ASSUME Shape, UpHeld, UNCHANGED <<config, sent, upstream>>,
         state = "OutOfSyncState" => state' = "OutOfSyncState",
         state' # "OutOfSyncState" => OnTheWay' = OnTheWay \/ ~ForServer(Len(sent))
  PROVE  UpHeld'
<1>1. Meant' = Meant
  BY MeantSame
<1>2. \A i \in DOMAIN upstream' : upstream'[i].m # 0 =>
         /\ Plain(upstream'[i]) \in Meant'
         /\ Got(upstream', i - 1) = {byte \in Meant' : Earlier(byte, upstream'[i])}
  BY <1>1, UpWasHeld
<1>3. ASSUME state' # "OutOfSyncState"
      PROVE  Got(upstream', Len(upstream')) = {byte \in Meant' : OnTheWay' => byte.m < Len(sent')}
  <2>1. Got(upstream, Len(upstream)) = {byte \in Meant : OnTheWay => byte.m < Len(sent)}
    BY <1>3, UpWasHeld
  <2>2. ASSUME NEW byte \in Meant
        PROVE  (OnTheWay => byte.m < Len(sent)) <=> (OnTheWay' => byte.m < Len(sent'))
    <3>1. CASE OnTheWay' = OnTheWay
      BY <3>1
    <3>2. CASE ~ForServer(Len(sent))
      <4>1. byte.m \in Nat /\ byte.m <= Len(sent) /\ byte.m # Len(sent) /\ Len(sent) \in Nat
        BY <3>2, MeantBytes
      <4> QED BY <4>1
    <3> QED BY <1>3, <3>1, <3>2
  <2>3. {byte \in Meant : OnTheWay => byte.m < Len(sent)}
          = {byte \in Meant' : OnTheWay' => byte.m < Len(sent')}
    BY <1>1, <2>2
  <2> QED BY <2>1, <2>3
<1> QED BY <1>2, <1>3, UpIsHeld

(* A new message comes behind all that was got.                             *)
LEMMA UpSends ==
  ASSUME Shape, Shape', UpHeld, NEW kind, sent' = Append(sent, kind),
         UNCHANGED <<config, upstream>>,
         state = "OutOfSyncState" => state' = "OutOfSyncState", ~OnTheWay, OnTheWay'
  PROVE  UpHeld'
<1>1. /\ Len(sent') = Len(sent) + 1 /\ Len(sent) \in Nat /\ DOMAIN sent = 1 .. Len(sent)
      /\ DOMAIN sent' = 1 .. Len(sent) + 1 /\ \A m \in DOMAIN sent : sent'[m] = sent[m]
  <2>1. kind \in ClientKinds
    <3>1. sent'[Len(sent) + 1] = kind /\ Len(sent') = Len(sent) + 1 /\ Len(sent) \in Nat
      BY DEF Shape
    <3>2. Len(sent) + 1 \in 1 .. Len(sent')
      BY <3>1
    <3> QED BY <3>1, <3>2, ElementOfSeq DEF Shape
  <2> QED BY <2>1, AppendProperties, LenProperties DEF Shape
<1>2. \A m \in DOMAIN sent : ForServer(m)' <=> ForServer(m)
  BY <1>1 DEF ForServer
<1>3. Meant \subseteq Meant' /\ \A byte \in Meant : byte.m \in Nat /\ byte.m <= Len(sent)
  <2>1. SUFFICES ASSUME NEW byte \in Meant
                 PROVE  byte \in Meant' /\ byte.m \in Nat /\ byte.m <= Len(sent)
    OBVIOUS
  <2>2. /\ byte.m \in DOMAIN sent /\ ForServer(byte.m) /\ byte.part \in 1 .. 3
        /\ byte = [kind |-> sent[byte.m], m |-> byte.m, part |-> byte.part]
        /\ byte.m \in Nat /\ byte.m <= Len(sent)
    BY MeantBytes
  <2>3. byte.m \in DOMAIN sent' /\ ForServer(byte.m)' /\ sent'[byte.m] = sent[byte.m]
    BY <1>1, <1>2, <2>2
  <2> QED BY <2>2, <2>3 DEF Meant
<1>4. \A byte \in Meant' : byte.m <= Len(sent) => byte \in Meant
  <2>1. SUFFICES ASSUME NEW byte \in Meant', byte.m <= Len(sent)
                 PROVE  byte \in Meant
    OBVIOUS
  <2>2. PICK m \in DOMAIN sent', p \in 1 .. 3 :
          ForServer(m)' /\ byte = [kind |-> sent'[m], m |-> m, part |-> p]
    BY DEF Meant
  <2>3. m \in DOMAIN sent
    BY <1>1, <2>1, <2>2
  <2> QED BY <1>1, <1>2, <2>2, <2>3, MeantBytes
<1>5. \A byte \in Meant' : byte.m \in Nat
  BY <1>1 DEF Meant
<1>6. ASSUME NEW i \in DOMAIN upstream, upstream[i].m # 0
      PROVE  /\ Plain(upstream[i]) \in Meant'
             /\ Got(upstream, i - 1) = {byte \in Meant' : Earlier(byte, upstream[i])}
  <2>1. /\ Plain(upstream[i]) \in Meant
        /\ Got(upstream, i - 1) = {byte \in Meant : Earlier(byte, upstream[i])}
    BY <1>6, UpWasHeld
  <2>2. upstream[i].m \in Nat /\ upstream[i].m <= Len(sent)
    BY <1>3, <2>1 DEF Plain
  <2>3. \A byte \in Meant' : Earlier(byte, upstream[i]) => byte.m <= Len(sent)
    BY <1>1, <1>5, <2>2 DEF Earlier
  <2> QED BY <1>3, <1>4, <2>1, <2>3
<1>7. ASSUME state' # "OutOfSyncState"
      PROVE  Got(upstream', Len(upstream')) = {byte \in Meant' : OnTheWay' => byte.m < Len(sent')}
  <2>1. Got(upstream, Len(upstream)) = Meant
    BY <1>7, UpWasHeld
  <2>2. Meant = {byte \in Meant' : OnTheWay' => byte.m < Len(sent')}
    <3>1. \A byte \in Meant' : byte.m < Len(sent') <=> byte.m <= Len(sent)
      BY <1>1, <1>5
    <3> QED BY <1>3, <1>4, <3>1
  <2> QED BY <2>1, <2>2
<1> QED BY <1>6, <1>7, UpIsHeld

(* What was written before is the same, and so is what was got with it.     *)
LEMMA GotBefore ==
  ASSUME Shape, NEW more \in Seq(TaggedPiece), upstream' = upstream \o more
  PROVE  /\ Len(upstream) \in Nat /\ Len(more) \in Nat
         /\ Len(upstream') = Len(upstream) + Len(more)
         /\ DOMAIN upstream' = 1 .. Len(upstream) + Len(more)
         /\ \A i \in 1 .. Len(upstream) : upstream'[i] = upstream[i]
         /\ \A i \in 1 .. Len(more) : upstream'[Len(upstream) + i] = more[i]
         /\ \A n \in 0 .. Len(upstream) : Got(upstream', n) = Got(upstream, n)
<1> DEFINE u == upstream
           all == upstream \o more
<1>1. u \in Seq(TaggedPiece) /\ Len(u) \in Nat /\ Len(more) \in Nat
  BY LenProperties DEF Shape
<1>2. /\ all \in Seq(TaggedPiece) /\ Len(all) = Len(u) + Len(more)
      /\ \A i \in 1 .. Len(u) + Len(more) : all[i] = IF i <= Len(u) THEN u[i] ELSE more[i - Len(u)]
  BY <1>1, ConcatProperties
<1>3. DOMAIN all = 1 .. Len(u) + Len(more)
  BY <1>2, LenProperties
<1>4. upstream' = all
  OBVIOUS
<1> HIDE DEF u, all
<1>5. \A i \in 1 .. Len(u) : all[i] = u[i]
  BY <1>1, <1>2
<1>6. \A i \in 1 .. Len(more) : all[Len(u) + i] = more[i]
  <2> SUFFICES ASSUME NEW i \in 1 .. Len(more) PROVE all[Len(u) + i] = more[i]
    OBVIOUS
  <2>1. /\ Len(u) + i \in 1 .. Len(u) + Len(more) /\ ~(Len(u) + i <= Len(u))
        /\ (Len(u) + i) - Len(u) = i
    BY <1>1
  <2> QED BY <1>2, <2>1
<1>7. ASSUME NEW n \in 0 .. Len(u)
      PROVE  Got(upstream', n) = Got(upstream, n)
  <2>1. \A j \in 1 .. n : upstream'[j] = upstream[j]
    <3>1. \A j \in 1 .. n : j \in 1 .. Len(u)
      BY <1>1
    <3> QED BY <1>4, <1>5, <3>1 DEF u
  <2>2. {j \in 1 .. n : upstream'[j].m # 0} = {j \in 1 .. n : upstream[j].m # 0}
    BY <2>1
  <2> QED BY <2>1, <2>2 DEF Got
<1> QED BY <1>1, <1>2, <1>3, <1>4, <1>5, <1>6, <1>7 DEF u

(* The request of the proxy's own is no message of the client's.            *)
LEMMA UpOwn ==
  ASSUME Shape, UpHeld, UNCHANGED <<config, sent>>, OnTheWay, OnTheWay',
         state # "OutOfSyncState",
         NEW more \in Seq(TaggedPiece), upstream' = upstream \o more,
         \A i \in 1 .. Len(more) : more[i].m = 0
  PROVE  UpHeld'
<1> DEFINE n == Len(upstream)
           k == Len(more)
<1>1. /\ n \in Nat /\ k \in Nat /\ Len(upstream') = n + k
      /\ DOMAIN upstream' = 1 .. n + k /\ DOMAIN upstream = 1 .. n
      /\ \A i \in 1 .. n : upstream'[i] = upstream[i]
      /\ \A i \in 1 .. k : upstream'[n + i].m = 0
      /\ \A j \in 0 .. n : Got(upstream', j) = Got(upstream, j)
  BY GotBefore, LenProperties DEF Shape
<1>2. Meant' = Meant
  BY MeantSame
<1> HIDE DEF n, k
<1>3. ASSUME NEW i \in 1 .. n + k, upstream'[i].m # 0
      PROVE  i \in 1 .. n
  <2>1. CASE i <= n
    BY <1>1, <2>1
  <2>2. CASE i > n
    <3>1. i - n \in 1 .. k /\ n + (i - n) = i
      BY <1>1, <2>2
    <3> QED BY <1>1, <1>3, <3>1
  <2> QED BY <1>1, <2>1, <2>2
<1>4. ASSUME NEW i \in DOMAIN upstream', upstream'[i].m # 0
      PROVE  /\ Plain(upstream'[i]) \in Meant'
             /\ Got(upstream', i - 1) = {byte \in Meant' : Earlier(byte, upstream'[i])}
  <2>1. i \in DOMAIN upstream /\ upstream'[i] = upstream[i] /\ i - 1 \in 0 .. n
    BY <1>1, <1>3, <1>4
  <2>2. /\ Plain(upstream[i]) \in Meant
        /\ Got(upstream, i - 1) = {byte \in Meant : Earlier(byte, upstream[i])}
    BY <1>4, <2>1, UpWasHeld
  <2> QED BY <1>1, <1>2, <2>1, <2>2
<1>5. Got(upstream', n + k) = Got(upstream', n)
  <2>1. {j \in 1 .. n + k : upstream'[j].m # 0} = {j \in 1 .. n : upstream'[j].m # 0}
    <3>1. \A j \in 1 .. n : j \in 1 .. n + k
      BY <1>1
    <3> QED BY <1>3, <3>1
  <2> QED BY <2>1 DEF Got
<1>6. Got(upstream', n + k) = {byte \in Meant' : OnTheWay' => byte.m < Len(sent')}
  <2>1. Got(upstream, n) = {byte \in Meant : OnTheWay => byte.m < Len(sent)}
    BY UpWasHeld DEF n
  <2>2. n \in 0 .. n
    BY <1>1
  <2> QED BY <1>1, <1>2, <1>5, <2>1, <2>2
<1> QED BY <1>1, <1>4, <1>6, UpIsHeld

LEMMA GotOneMore ==
  ASSUME NEW bytes, NEW n \in Nat, NEW next, next = n + 1, bytes[next].m # 0
  PROVE  Got(bytes, next) = Got(bytes, n) \union {Plain(bytes[next])}
<1>1. {j \in 1 .. next : bytes[j].m # 0} = {j \in 1 .. n : bytes[j].m # 0} \union {next}
  <2>1. \A j : j \in 1 .. next <=> j \in 1 .. n \/ j = next
    OBVIOUS
  <2> QED BY <2>1
<1>2. {Plain(bytes[i]) : i \in {j \in 1 .. n : bytes[j].m # 0} \union {next}}
        = {Plain(bytes[i]) : i \in {j \in 1 .. n : bytes[j].m # 0}} \union {Plain(bytes[next])}
  OBVIOUS
<1> QED BY <1>1, <1>2 DEF Got

(* The message comes to the server, part by part behind all before it.      *)
LEMMA UpSent ==
  ASSUME Shape, UpHeld, sent # <<>>, ForServer(Len(sent)), UNCHANGED <<config, sent>>,
         OnTheWay, ~OnTheWay', state # "OutOfSyncState",
         NEW tls \in BOOLEAN, upstream' = upstream \o Over(tls, LastSent)
  PROVE  UpHeld'
<1> DEFINE n == Len(upstream)
           l == Len(sent)
           more == Over(tls, LastSent)
           part(p) == [kind |-> LastKind, m |-> l, part |-> p]
           Until(p) == {byte \in Meant : byte.m < l \/ (byte.m = l /\ byte.part <= p)}
<1>1. /\ l \in Nat \ {0} /\ l \in DOMAIN sent
      /\ more \in Seq(TaggedPiece) /\ Len(more) = 3
      /\ \A p \in 1 .. 3 : Plain(more[p]) = part(p)
  <2>1. /\ Len(sent) \in Nat /\ Len(sent) \in 1 .. Len(sent)
        /\ \A p \in 1 .. 3 : LastSent[p] = [kind |-> LastKind, m |-> Len(sent), part |-> p]
    BY SentIsThree
  <2>2. /\ more \in Seq(TaggedPiece) /\ Len(more) = 3
        /\ \A p \in 1 .. 3 : Plain(more[p]) = LastSent[p]
    BY OverLastSent
  <2> QED BY <2>1, <2>2, LenProperties DEF Shape
<1>2. Meant' = Meant
  BY MeantSame
<1>3. \A p \in 1 .. 3 : part(p) \in Meant
  BY <1>1, MeantBytes DEF LastKind
<1>4. /\ n \in Nat /\ Len(upstream') = n + 3 /\ DOMAIN upstream' = 1 .. n + 3
      /\ DOMAIN upstream = 1 .. n
      /\ \A i \in 1 .. n : upstream'[i] = upstream[i]
      /\ \A p \in 1 .. 3 : upstream'[n + p] = more[p]
      /\ \A j \in 0 .. n : Got(upstream', j) = Got(upstream, j)
  <2> HIDE DEF more
  <2>1. upstream' = upstream \o more
    BY DEF more
  <2> QED BY <1>1, <2>1, GotBefore, LenProperties DEF Shape
<1> HIDE DEF n, more
<1>5. \A byte \in Meant : /\ byte.m \in Nat /\ byte.m <= l /\ byte.part \in 1 .. 3
                          /\ byte.m = l => byte = part(byte.part)
  <2>1. \A byte \in Meant :
          /\ byte.m \in Nat /\ byte.m <= Len(sent) /\ byte.part \in 1 .. 3
          /\ byte = [kind |-> sent[byte.m], m |-> byte.m, part |-> byte.part]
    BY MeantBytes
  <2> QED BY <2>1 DEF LastKind
<1>6. \A p \in 1 .. 3 : Until(p) = Until(p - 1) \union {part(p)}
  <2>1. SUFFICES ASSUME NEW p \in 1 .. 3 PROVE Until(p) = Until(p - 1) \union {part(p)}
    OBVIOUS
  <2>2. part(p).m = l /\ part(p).part = p
    OBVIOUS
  <2>3. \A byte \in Meant : byte.m = l /\ byte.part = p => byte = part(p)
    BY <1>5
  <2>4. \A byte \in Meant :
          (byte.m < l \/ (byte.m = l /\ byte.part <= p))
            <=> (byte.m < l \/ (byte.m = l /\ byte.part <= p - 1)) \/ byte = part(p)
    BY <1>1, <1>5, <2>2, <2>3
  <2> HIDE DEF part
  <2> QED BY <1>3, <2>4
<1>7. Got(upstream', n) = Until(0)
  <2>1. Got(upstream, n) = {byte \in Meant : OnTheWay => byte.m < l}
    BY UpWasHeld DEF n
  <2>2. n \in 0 .. n
    BY <1>4
  <2>3. \A byte \in Meant : byte.m < l <=> byte.m < l \/ (byte.m = l /\ byte.part <= 0)
    BY <1>5
  <2> QED BY <1>4, <2>1, <2>2, <2>3
<1>8. n \in Nat
  BY <1>4
<1>9. \A p \in 0 .. 3 : Got(upstream', n + p) = Until(p)
  <2>1. /\ n + 0 = n /\ (n + 1) + 1 = n + 2 /\ (n + 2) + 1 = n + 3
        /\ n + 1 \in Nat /\ n + 2 \in Nat
    BY <1>8
  <2>2. ASSUME NEW p \in 1 .. 3
        PROVE  Plain(upstream'[n + p]) = part(p) /\ upstream'[n + p].m # 0
    <3>1. Plain(upstream'[n + p]) = part(p)
      BY <1>1, <1>4
    <3>2. Plain(upstream'[n + p]).m = l
      BY <3>1
    <3> QED BY <1>1, <3>1, <3>2 DEF Plain
  <2> HIDE DEF Until, part
  <2>3. /\ 1 \in 1 .. 3 /\ 2 \in 1 .. 3 /\ 3 \in 1 .. 3 /\ 1 - 1 = 0 /\ 2 - 1 = 1 /\ 3 - 1 = 2
        /\ \A p \in 0 .. 3 : p = 0 \/ p = 1 \/ p = 2 \/ p = 3
    OBVIOUS
  <2>4. Got(upstream', n + 1) = Until(1)
    <3>1. Until(1) = Until(0) \union {part(1)}
      BY <1>6, <2>3
    <3> DEFINE here == n
               next == n + 1
               up == upstream'
    <3>2. here \in Nat /\ next = here + 1 /\ up[next].m # 0 /\ Plain(up[next]) = part(1)
      BY <1>8, <2>1, <2>2, <2>3
    <3>3. Got(up, here) = Until(0)
      BY <1>7
    <3> HIDE DEF here, next, up
    <3>4. Got(up, next) = Got(up, here) \union {Plain(up[next])}
      BY <3>2, GotOneMore
    <3>5. Got(up, next) = Until(1)
      BY <3>1, <3>2, <3>3, <3>4
    <3> QED BY <3>5 DEF next, up
  <2>5. Got(upstream', n + 2) = Until(2)
    <3>1. Until(2) = Until(1) \union {part(2)}
      BY <1>6, <2>3
    <3> DEFINE here == n + 1
               next == n + 2
               up == upstream'
    <3>2. here \in Nat /\ next = here + 1 /\ up[next].m # 0 /\ Plain(up[next]) = part(2)
      BY <1>8, <2>1, <2>2, <2>3
    <3>3. Got(up, here) = Until(1)
      BY <2>4
    <3> HIDE DEF here, next, up
    <3>4. Got(up, next) = Got(up, here) \union {Plain(up[next])}
      BY <3>2, GotOneMore
    <3>5. Got(up, next) = Until(2)
      BY <3>1, <3>2, <3>3, <3>4
    <3> QED BY <3>5 DEF next, up
  <2>6. Got(upstream', n + 3) = Until(3)
    <3>1. Until(3) = Until(2) \union {part(3)}
      BY <1>6, <2>3
    <3> DEFINE here == n + 2
               next == n + 3
               up == upstream'
    <3>2. here \in Nat /\ next = here + 1 /\ up[next].m # 0 /\ Plain(up[next]) = part(3)
      BY <1>8, <2>1, <2>2, <2>3
    <3>3. Got(up, here) = Until(2)
      BY <2>5
    <3> HIDE DEF here, next, up
    <3>4. Got(up, next) = Got(up, here) \union {Plain(up[next])}
      BY <3>2, GotOneMore
    <3>5. Got(up, next) = Until(3)
      BY <3>1, <3>2, <3>3, <3>4
    <3> QED BY <3>5 DEF next, up
  <2> QED BY <1>7, <2>1, <2>3, <2>4, <2>5, <2>6
<1>10. ASSUME NEW i \in DOMAIN upstream', upstream'[i].m # 0
       PROVE  /\ Plain(upstream'[i]) \in Meant'
              /\ Got(upstream', i - 1) = {byte \in Meant' : Earlier(byte, upstream'[i])}
  <2>1. CASE i <= n
    <3>1. i \in DOMAIN upstream /\ upstream'[i] = upstream[i] /\ i - 1 \in 0 .. n
      BY <1>4, <2>1
    <3>2. /\ Plain(upstream[i]) \in Meant
          /\ Got(upstream, i - 1) = {byte \in Meant : Earlier(byte, upstream[i])}
      BY <1>10, <3>1, UpWasHeld
    <3> QED BY <1>2, <1>4, <3>1, <3>2
  <2>2. CASE i > n
    <3> DEFINE p == i - n
    <3>1. p \in 1 .. 3 /\ n + p = i /\ n + (p - 1) = i - 1 /\ p - 1 \in 0 .. 3
      <4>1. i \in 1 .. n + 3
        BY <1>4
      <4> QED BY <1>8, <2>2, <4>1
    <3>2. Plain(upstream'[i]) = part(p)
      BY <1>1, <1>4, <3>1
    <3>3. Got(upstream', i - 1) = Until(p - 1)
      BY <1>9, <3>1
    <3>4. upstream'[i].m = l /\ upstream'[i].part = p
      <4>1. Plain(upstream'[i]).m = l /\ Plain(upstream'[i]).part = p
        BY <3>2
      <4> QED BY <4>1 DEF Plain
    <3> HIDE DEF p
    <3>5. \A byte \in Meant :
            Earlier(byte, upstream'[i]) <=> byte.m < l \/ (byte.m = l /\ byte.part <= p - 1)
      <4>1. ASSUME NEW byte \in Meant
            PROVE  byte.part < p <=> byte.part <= p - 1
        <5> DEFINE q == byte.part
        <5>1. q \in 1 .. 3
          BY <1>5
        <5> HIDE DEF q
        <5>2. q < p <=> q <= p - 1
          BY <3>1, <5>1
        <5> QED BY <5>2 DEF q
      <4> QED BY <3>4, <4>1 DEF Earlier
    <3>6. part(p) \in Meant
      BY <1>3, <3>1
    <3> QED BY <1>2, <3>2, <3>3, <3>5, <3>6
  <2> QED BY <1>4, <2>1, <2>2
<1>11. Got(upstream', Len(upstream')) = {byte \in Meant' : OnTheWay' => byte.m < Len(sent')}
  <2>1. 3 \in 0 .. 3
    OBVIOUS
  <2>2. Until(3) = Meant
    BY <1>1, <1>5
  <2> QED BY <1>2, <1>4, <1>9, <2>1, <2>2
<1> QED BY <1>10, <1>11, UpIsHeld

LEMMA InitUp == Init => UpHeld
<1> SUFFICES ASSUME Init PROVE UpHeld
  OBVIOUS
<1>1. sent = <<>> /\ upstream = <<>> /\ DOMAIN upstream = {} /\ DOMAIN sent = {} /\ Len(upstream) = 0
  BY EmptySeq DEF Init
<1>2. Meant = {}
  BY <1>1 DEF Meant
<1>3. ServerGot(Len(upstream)) = {}
  <2>1. 1 .. 0 = {}
    OBVIOUS
  <2> QED BY <1>1, <2>1 DEF ServerGot
<1> QED BY <1>1, <1>2, <1>3 DEF UpHeld, QueriesRelayedOnce

LEMMA NothingWritten ==
  ASSUME Shape, NEW tls \in BOOLEAN
  PROVE  upstream \o Over(tls, <<>>) = upstream
<1>1. Over(tls, <<>>) \in Seq(TaggedPiece) /\ Len(Over(tls, <<>>)) = 0
  BY OverIsTagged, EmptySeq
<1>2. Over(tls, <<>>) = <<>>
  BY <1>1, EmptySeq
<1> QED BY <1>2, ConcatEmptySeq DEF Shape

(* The handler that ends writes the last message, or nothing.               *)
LEMMA FinishUp ==
  ASSUME Shape, OneUnderWay, UpHeld, Finish
  PROVE  UpHeld'
<1>1. /\ ~closed /\ handler \in Sides /\ handler' = "none"
      /\ UNCHANGED <<config, sent, wire, validation, state, tempStorage>>
      /\ upstream' = upstream \o Over(upstreamTls, replacement["frontend"])
      /\ replacement' = Nothing
  BY Finished
<1>2. CASE replacement["frontend"] = <<>>
  <2>1. upstream' = upstream
    BY <1>1, <1>2, NothingWritten DEF Shape
  <2>2. OnTheWay' = OnTheWay
    BY <1>1, <1>2, NothingIsEmpty DEF OnTheWay
  <2> QED BY <1>1, <2>1, <2>2, UpSame
<1>3. CASE replacement["frontend"] # <<>>
  <2>1. Leaving \/ Passing
    BY <1>1, <1>3, NothingIsEmpty
       DEF OneUnderWay, Resting, Arriving, Negotiating, AtServer, Answered, LostSync, FrontEmpty
  <2>2. /\ replacement["frontend"] = LastSent /\ sent # <<>> /\ ForServer(Len(sent))
        /\ validation["frontend"] = <<>> /\ wire["frontend"] = <<>> /\ tempStorage = <<>>
        /\ state # "OutOfSyncState"
    BY <1>3, <2>1 DEF Leaving, Passing, Forwardable, ForServer, LastKind
  <2>3. OnTheWay /\ ~OnTheWay'
    BY <1>1, <1>3, <2>2, NothingIsEmpty DEF OnTheWay
  <2>4. upstreamTls \in BOOLEAN
    BY DEF Shape
  <2> QED BY <1>1, <2>2, <2>3, <2>4, UpSent
<1> QED BY <1>2, <1>3

(* The client's messages in the decoder.                                    *)
LEMMA DecodeUp ==
  ASSUME Shape, Shape', Streamed, OneUnderWay, UpHeld, Decode
  PROVE  UpHeld'
<1>1. CASE Readable("frontend") /\ state \in {"InitState", "InSyncState"}
  <2>1. /\ Arriving /\ ~closed /\ sent # <<>> /\ handler = "frontend"
        /\ Current.kind = LastKind /\ Message = LastSent /\ Buffer = LastSent
        /\ replacement["frontend"] = <<>> /\ tempStorage = <<>> /\ LastSent # <<>>
    BY <1>1, FrontMessage, SentIsThree
  <2>2. OnTheWay
    BY <2>1 DEF OnTheWay, Buffer
  <2>3. CASE TerminateSslRequest
    <3>1. UNCHANGED <<config, sent, upstream, state>> /\ ~ForServer(Len(sent))
      BY <2>1, <2>3 DEF TerminateSslRequest, client, ForServer, LastKind
    <3> QED BY <3>1, UpSame
  <2>4. CASE PassEncrypted \/ StartInClear
    <3>1. /\ UNCHANGED <<config, sent, upstream>> /\ state = "InitState"
          /\ Replace("frontend", Message)
      BY <2>4 DEF PassEncrypted, StartInClear, client, outputs
    <3>2. OnTheWay'
      BY <2>1, <3>1, ReplacedByLast DEF OnTheWay
    <3> QED BY <2>2, <3>1, <3>2, UpSame
  <2>5. CASE StartNegotiation
    <3>1. /\ UNCHANGED <<config, sent>> /\ state # "OutOfSyncState"
          /\ tempStorage' = tempStorage \o Buffer
          /\ upstream' = upstream \o Over(upstreamTls, Bytes("own_ssl", 0))
      BY <2>5 DEF StartNegotiation, client
    <3>2. OnTheWay'
      <4>1. <<>> \o LastSent = LastSent
        BY <2>1, SentIsThree, ConcatEmptySeq
      <4> QED BY <2>1, <3>1, <4>1 DEF OnTheWay
    <3> DEFINE own == Bytes("own_ssl", 0)
               more == Over(upstreamTls, own)
    <3>3. /\ own \in Seq(Piece) /\ Len(own) = 3 /\ DOMAIN own = 1 .. 3
          /\ \A p \in 1 .. 3 : own[p].m = 0
      <4>1. /\ own \in Seq(Piece) /\ Len(own) = 3
            /\ \A p \in 1 .. 3 : own[p] = [kind |-> "own_ssl", m |-> 0, part |-> p]
        BY BytesArePieces
      <4> HIDE DEF own
      <4>2. DOMAIN own = 1 .. 3
        BY <4>1, LenProperties
      <4> QED BY <4>1, <4>2
    <3> HIDE DEF own
    <3>4. /\ more \in Seq(TaggedPiece) /\ \A i \in 1 .. Len(more) : more[i].m = 0
      <4>1. more \in Seq(TaggedPiece) /\ Len(more) = 3
        BY <3>3, OverIsTagged DEF Shape
      <4>2. \A i \in 1 .. 3 : more[i].m = 0
        BY <3>3 DEF Over
      <4> QED BY <4>1, <4>2
    <3>5. upstream' = upstream \o more
      BY <3>1 DEF own
    <3> HIDE DEF more
    <3> QED BY <2>2, <3>1, <3>2, <3>4, <3>5, UpOwn
  <2>6. CASE RelayOrRefuse
    <3>1. UNCHANGED <<config, sent, upstream, state>>
      BY <2>6 DEF RelayOrRefuse, client, outputs
    <3>2. CASE Current.kind = "refused"
      <4>1. ~ForServer(Len(sent))
        BY <2>1, <3>2 DEF ForServer, LastKind
      <4> QED BY <3>1, <4>1, UpSame
    <3>3. CASE Current.kind # "refused"
      <4>1. Replace("frontend", Message)
        BY <2>6, <3>3 DEF RelayOrRefuse
      <4>2. OnTheWay'
        BY <2>1, <4>1, ReplacedByLast DEF OnTheWay
      <4> QED BY <2>2, <3>1, <4>2, UpSame
    <3> QED BY <3>2, <3>3
  <2>7. CASE LoseSync
    <3>1. UNCHANGED <<config, sent, upstream>> /\ state' = "OutOfSyncState"
      BY <2>7 DEF LoseSync, client, outputs
    <3> QED BY <3>1, UpSame
  <2>8. ~NegotiationAnswered /\ ~Ignore /\ ~RetainOrEmit
    BY <1>1, <2>1 DEF NegotiationAnswered, Ignore, RetainOrEmit, Readable
  <2> QED BY <2>3, <2>4, <2>5, <2>6, <2>7, <2>8, NeverDisturbed DEF Decode
<1>2. CASE NegotiationAnswered
  <2>1. /\ UNCHANGED <<config, sent>> /\ state = "NegotiatingUpstreamSSL"
        /\ Negotiating
        /\ ~closed' => /\ AtServer' /\ EncryptUpstream /\ tempStorage = LastSent
        /\ closed' => GiveUpUpstream
    BY <1>2, NegotiationAnsweredOne DEF NegotiationAnswered, client
  <2>2. /\ sent # <<>> /\ tempStorage = LastSent /\ LastSent # <<>> /\ ForServer(Len(sent))
    BY <2>1, SentIsThree DEF Negotiating, ForServer, LastKind
  <2>3. OnTheWay
    BY <2>2 DEF OnTheWay
  <2>4. CASE closed'
    <3>1. upstream' = upstream /\ tempStorage' = tempStorage
      BY <2>1, <2>4 DEF GiveUpUpstream
    <3>2. OnTheWay'
      BY <2>2, <3>1 DEF OnTheWay
    <3> QED BY <2>1, <2>3, <3>1, <3>2, UpSame
  <2>5. CASE ~closed'
    <3>1. upstream' = upstream \o Over(TRUE, LastSent)
      BY <2>1, <2>2, <2>5 DEF EncryptUpstream
    <3>2. ~OnTheWay'
      BY <2>1, <2>5 DEF AtServer, FrontEmpty, OnTheWay
    <3> QED BY <2>1, <2>2, <2>3, <3>1, <3>2, UpSent
  <2> QED BY <2>4, <2>5
<1>3. CASE LoseSync
  <2>1. UNCHANGED <<config, sent, upstream>> /\ state' = "OutOfSyncState"
    BY <1>3 DEF LoseSync, client, outputs
  <2> QED BY <2>1, UpSame
<1>4. CASE Ignore
  <2>1. /\ UNCHANGED <<config, sent, upstream, state, wire, replacement, tempStorage>>
        /\ DropAll /\ Running /\ state \in {"OutOfSyncState", "EncryptedState"}
    BY <1>4 DEF Ignore, client, outputs
  <2>2. state = "EncryptedState" => validation["frontend"] = <<>>
    BY <2>1, NotClosed DEF Running, OneUnderWay, Resting, Arriving, Negotiating, Leaving, AtServer,
       Answered, Forwardable, Passing, LostSync
  <2>3. validation["frontend"] = <<>> => validation'["frontend"] = <<>>
    BY <2>1 DEF DropAll, Shape, Streams, Sides
  <2>4. state # "OutOfSyncState" => OnTheWay' = OnTheWay
    BY <2>1, <2>2, <2>3 DEF OnTheWay
  <2> QED BY <2>1, <2>4, UpSame
<1>5. CASE RetainOrEmit
  <2>1. /\ UNCHANGED <<config, sent, upstream, state, wire, tempStorage>> /\ Drop(3)
        /\ handler = "backend"
        /\ replacement' = replacement \/ \E bytes : Replace("backend", bytes)
    BY <1>5 DEF RetainOrEmit, client, outputs, Readable
  <2>2. /\ replacement'["frontend"] = replacement["frontend"]
        /\ validation'["frontend"] = validation["frontend"]
    BY <2>1 DEF Replace, Drop, Shape, Streams, Sides
  <2>3. OnTheWay' = OnTheWay
    BY <2>1, <2>2 DEF OnTheWay
  <2> QED BY <2>1, <2>3, UpSame
<1>6. TerminateSslRequest \/ PassEncrypted \/ StartInClear \/ StartNegotiation \/ RelayOrRefuse
        => Readable("frontend") /\ state \in {"InitState", "InSyncState"}
  BY DEF TerminateSslRequest, PassEncrypted, StartInClear, StartNegotiation, RelayOrRefuse
<1> QED BY <1>1, <1>2, <1>3, <1>4, <1>5, <1>6, NeverDisturbed DEF Decode

LEMMA NextUp ==
  ASSUME Patient, Shape, Shape', Streamed, OneUnderWay, UpHeld, [Next]_vars
  PROVE  UpHeld'
<1>1. CASE \E kind \in Kinds : ClientSends(kind)
  <2>1. PICK kind \in Kinds : ClientSends(kind)
    BY <1>1
  <2>2. /\ UNCHANGED <<config, upstream, state>> /\ sent' = Append(sent, kind)
        /\ wire' = [wire EXCEPT !["frontend"] = @ \o Bytes(kind, Len(sent) + 1)]
    BY <2>1 DEF ClientSends, outputs
  <2>3. Resting
    BY <2>1, SendsFromRest
  <2>4. ~OnTheWay
    BY <2>3 DEF Resting, FrontEmpty, OnTheWay
  <2>5. OnTheWay'
    <3> DEFINE bytes == Bytes(kind, Len(sent) + 1)
    <3>1. bytes \in Seq(Piece) /\ Len(bytes) = 3
      <4>1. kind \in ClientKinds /\ Len(sent) + 1 \in Nat
        BY KindsAssumption, LenProperties DEF Shape
      <4> QED BY <4>1, BytesArePieces
    <3> HIDE DEF bytes
    <3>2. bytes # <<>> /\ <<>> \o bytes = bytes
      BY <3>1, EmptySeq, ConcatEmptySeq
    <3>3. wire'["frontend"] = bytes
      BY <2>2, <2>3, <3>2 DEF bytes, Resting, FrontEmpty, Shape, Streams, Sides
    <3> QED BY <3>2, <3>3 DEF OnTheWay
  <2> QED BY <2>2, <2>4, <2>5, UpSends
<1>2. CASE ClientReads \/ ServerAnswers \/ BytesSent \/ UNCHANGED vars
  <2>1. /\ UNCHANGED <<config, sent, upstream, state, validation, replacement, tempStorage>>
        /\ wire'["frontend"] = wire["frontend"]
    BY <1>2 DEF ClientReads, ServerAnswers, BytesSent, vars, client, buffers, outputs, Shape,
       Streams, Sides
  <2>2. OnTheWay' = OnTheWay
    BY <2>1 DEF OnTheWay
  <2> QED BY <2>1, <2>2, UpSame
<1>3. CASE \E side \in Sides : Receive(side)
  <2>1. PICK side \in Sides : Receive(side)
    BY <1>3
  <2>2. UNCHANGED <<config, sent, upstream, state, replacement, tempStorage>>
    BY <2>1 DEF Receive, client, outputs
  <2>3. /\ \A at \in Sides \ {side} : validation'[at] = validation[at] /\ wire'[at] = wire[at]
        /\ wire[side] # <<>> /\ validation'[side] # <<>>
    BY <2>1, SameStream
  <2>4. OnTheWay' = OnTheWay
    <3>1. CASE side = "frontend"
      BY <2>3, <3>1 DEF OnTheWay
    <3>2. CASE side = "backend"
      <4>1. "frontend" \in Sides \ {side}
        BY <3>2 DEF Sides
      <4> QED BY <2>2, <2>3, <4>1 DEF OnTheWay
    <3> QED BY <3>1, <3>2 DEF Sides
  <2> QED BY <2>2, <2>4, UpSame
<1> QED BY <1>1, <1>2, <1>3, FinishUp, DecodeUp DEF Next

-----------------------------------------------------------------------------
(* What the client has got.                                                 *)
Among(bytes, numbers, n) == {bytes[i] : i \in {j \in 1 .. n : bytes[j].m \in numbers}}
Numbered == Nat \ {0}
Addressed == {m \in DOMAIN sent : ForServer(m)}
Relaying == state \in {"InitState", "InSyncState", "NegotiatingUpstreamSSL"} /\ ~closed

(* The first k bytes of the server are with the client, the others come.    *)
Cut(down, said, coming, numbers, last, k) ==
  /\ k \in 0 .. Len(said)
  /\ Among(down, numbers, Len(down)) = Among(said, Numbered, k)
  /\ IF last \in numbers THEN coming = SubSeq(said, k + 1, Len(said)) ELSE k = Len(said)

InPlace(down, said, numbers) ==
  \A i \in DOMAIN down : down[i].m \in numbers =>
    \E k \in DOMAIN said : /\ said[k] = down[i]
                           /\ Among(down, numbers, i - 1) = Among(said, Numbered, k - 1)

DownHeld ==
  /\ \A i \in DOMAIN downstream : downstream[i].m \in DOMAIN sent
  /\ InPlace(downstream, answers, Addressed)
  /\ Relaying => \E k \in 0 .. Len(answers) :
                   Cut(downstream, answers, Coming, Addressed, Len(sent), k)

LEMMA AmongSame ==
  ASSUME NEW a, NEW b, NEW s, NEW t, NEW n,
         \A i \in 1 .. n : b[i] = a[i] /\ (a[i].m \in t <=> a[i].m \in s)
  PROVE  Among(b, t, n) = Among(a, s, n)
<1>1. {j \in 1 .. n : b[j].m \in t} = {j \in 1 .. n : a[j].m \in s}
  OBVIOUS
<1> QED BY <1>1 DEF Among

FirstOf(bytes, n) == {bytes[i] : i \in 1 .. n}
Continues(bytes, n, more, j, numbers) ==
  \A i \in 1 .. j : bytes[n + i] = more[i] /\ more[i].m \in numbers

LEMMA AmongMore ==
  ASSUME NEW bytes, NEW s, NEW n \in Nat, NEW j \in Nat, NEW more, NEW all, all = n + j,
         Continues(bytes, n, more, j, s)
  PROVE  Among(bytes, s, all) = Among(bytes, s, n) \union FirstOf(more, j)
<1>0. \A i \in 1 .. j : bytes[n + i] = more[i] /\ more[i].m \in s
  BY DEF Continues
<1>1. ASSUME NEW i \in 1 .. n + j, ~(i <= n)
      PROVE  \E h \in 1 .. j : n + h = i
  <2>1. i - n \in 1 .. j /\ n + (i - n) = i
    BY <1>1
  <2> QED BY <2>1
<1>2. ASSUME NEW x \in Among(bytes, s, n + j)
      PROVE  x \in Among(bytes, s, n) \union FirstOf(more, j)
  <2>1. PICK i \in 1 .. n + j : bytes[i].m \in s /\ x = bytes[i]
    BY DEF Among
  <2>2. CASE i <= n
    <3>1. i \in 1 .. n
      BY <2>2
    <3> QED BY <2>1, <3>1 DEF Among
  <2>3. CASE ~(i <= n)
    BY <1>0, <1>1, <2>1, <2>3 DEF FirstOf
  <2> QED BY <2>2, <2>3
<1>3. ASSUME NEW x \in Among(bytes, s, n)
      PROVE  x \in Among(bytes, s, n + j)
  <2>1. PICK i \in 1 .. n : bytes[i].m \in s /\ x = bytes[i]
    BY DEF Among
  <2>2. i \in 1 .. n + j
    OBVIOUS
  <2> QED BY <2>1, <2>2 DEF Among
<1>4. ASSUME NEW i \in 1 .. j
      PROVE  more[i] \in Among(bytes, s, n + j)
  <2>1. n + i \in 1 .. n + j
    OBVIOUS
  <2> QED BY <1>0, <2>1 DEF Among
<1> QED BY <1>2, <1>3, <1>4 DEF FirstOf

LEMMA AmongNone ==
  ASSUME NEW bytes, NEW s, NEW n \in Nat, NEW j \in Nat,
         \A i \in 1 .. j : bytes[n + i].m \notin s
  PROVE  Among(bytes, s, n + j) = Among(bytes, s, n)
<1>1. ASSUME NEW i \in 1 .. n + j, bytes[i].m \in s
      PROVE  i \in 1 .. n
  <2>1. CASE i <= n
    BY <2>1
  <2>2. CASE ~(i <= n)
    <3>1. i - n \in 1 .. j /\ n + (i - n) = i
      BY <2>2
    <3> QED BY <1>1, <3>1
  <2> QED BY <2>1, <2>2
<1>2. \A i \in 1 .. n : i \in 1 .. n + j
  OBVIOUS
<1>3. {i \in 1 .. n + j : bytes[i].m \in s} = {i \in 1 .. n : bytes[i].m \in s}
  BY <1>1, <1>2
<1> QED BY <1>3 DEF Among

(* In the words of Connection.                                              *)
LEMMA NumberedAnswers ==
  ASSUME NEW bytes \in Seq(Piece)
  PROVE  /\ DOMAIN bytes = 1 .. Len(bytes) /\ Len(bytes) \in Nat
         /\ \A i \in 1 .. Len(bytes) : bytes[i].m \in Nat
<1>1. \A i \in 1 .. Len(bytes) : bytes[i] \in Piece
  BY ElementOfSeq
<1> QED BY <1>1, LenProperties DEF Piece

LEMMA SaidIsAmong ==
  ASSUME Streamed, NEW n \in 0 .. Len(answers)
  PROVE  ServerSaid(n) = Among(answers, Numbered, n)
<1>1. \A i \in 1 .. Len(answers) : answers[i].m \in Nat /\ Len(answers) \in Nat
  BY NumberedAnswers DEF Streamed
<1>2. \A i \in 1 .. n : i \in 1 .. Len(answers)
  BY NumberedAnswers DEF Streamed
<1>3. {j \in 1 .. n : answers[j].m # 0} = {j \in 1 .. n : answers[j].m \in Numbered}
  BY <1>1, <1>2 DEF Numbered
<1> QED BY <1>3 DEF ServerSaid, Among

LEMMA GotIsAmong ==
  ASSUME Streamed, \A i \in DOMAIN downstream : downstream[i].m \in DOMAIN sent,
         NEW n \in 0 .. Len(downstream)
  PROVE  ClientGot(n) = Among(downstream, Addressed, n)
<1>1. \A i \in 1 .. n : downstream[i].m \in DOMAIN sent
  BY NumberedAnswers DEF Streamed
<1>2. {j \in 1 .. n : ForServer(downstream[j].m)} = {j \in 1 .. n : downstream[j].m \in Addressed}
  BY <1>1 DEF Addressed
<1> QED BY <1>2 DEF ClientGot, Among

LEMMA DownInWords ==
  ASSUME Shape, Streamed, DownHeld
  PROVE  /\ AnswersRelayedOnce
         /\ Relaying =>
              \E k \in 0 .. Len(answers) :
                /\ ClientGot(Len(downstream)) = ServerSaid(k)
                /\ IF sent # <<>> /\ ForServer(Len(sent))
                     THEN Coming = SubSeq(answers, k + 1, Len(answers))
                     ELSE k = Len(answers)
<1>1. /\ DOMAIN downstream = 1 .. Len(downstream) /\ Len(downstream) \in Nat
      /\ DOMAIN answers = 1 .. Len(answers) /\ Len(answers) \in Nat
      /\ \A i \in DOMAIN downstream : downstream[i].m \in DOMAIN sent
      /\ InPlace(downstream, answers, Addressed)
  BY NumberedAnswers DEF Streamed, DownHeld
<1>2. ASSUME NEW i \in DOMAIN downstream, ForServer(downstream[i].m)
      PROVE  \E k \in DOMAIN answers : /\ answers[k] = downstream[i]
                                       /\ ClientGot(i - 1) = ServerSaid(k - 1)
  <2>1. downstream[i].m \in Addressed
    BY <1>1, <1>2 DEF Addressed
  <2>2. PICK k \in DOMAIN answers :
          /\ answers[k] = downstream[i]
          /\ Among(downstream, Addressed, i - 1) = Among(answers, Numbered, k - 1)
    BY <1>1, <2>1 DEF InPlace
  <2>3. i - 1 \in 0 .. Len(downstream) /\ k - 1 \in 0 .. Len(answers)
    BY <1>1
  <2>4. ClientGot(i - 1) = Among(downstream, Addressed, i - 1)
    BY <1>1, <2>3, GotIsAmong
  <2>5. ServerSaid(k - 1) = Among(answers, Numbered, k - 1)
    BY <2>3, SaidIsAmong
  <2> QED BY <2>2, <2>4, <2>5
<1>3. ASSUME Relaying
      PROVE  \E k \in 0 .. Len(answers) :
                /\ ClientGot(Len(downstream)) = ServerSaid(k)
                /\ IF sent # <<>> /\ ForServer(Len(sent))
                     THEN Coming = SubSeq(answers, k + 1, Len(answers))
                     ELSE k = Len(answers)
  <2>1. PICK k \in 0 .. Len(answers) : Cut(downstream, answers, Coming, Addressed, Len(sent), k)
    BY <1>3 DEF DownHeld
  <2>2. Len(downstream) \in 0 .. Len(downstream)
    BY <1>1
  <2>3. ClientGot(Len(downstream)) = ServerSaid(k)
    BY <1>1, <2>1, <2>2, GotIsAmong, SaidIsAmong DEF Cut
  <2>4. sent # <<>> /\ ForServer(Len(sent)) <=> Len(sent) \in Addressed
    <3>1. DOMAIN sent = 1 .. Len(sent) /\ Len(sent) \in Nat
      BY LenProperties DEF Shape
    <3>2. sent # <<>> <=> Len(sent) \in DOMAIN sent
      <4>1. sent # <<>> => Len(sent) # 0
        BY EmptySeq DEF Shape
      <4>2. sent = <<>> => Len(sent) = 0
        BY EmptySeq
      <4> QED BY <3>1, <4>1, <4>2
    <3> QED BY <3>2 DEF Addressed
  <2> QED BY <2>1, <2>3, <2>4 DEF Cut
<1> QED BY <1>2, <1>3 DEF AnswersRelayedOnce

LEMMA AddressedSame ==
  ASSUME sent' = sent, config' = config
  PROVE  Addressed' = Addressed
BY DEF Addressed, ForServer

(* Nothing comes to the client, and what comes stays what it is.            *)
LEMMA DownSame ==
  ASSUME DownHeld, UNCHANGED <<config, sent, downstream, answers>>,
         Relaying' => Relaying /\ (Coming' = Coming \/ Len(sent) \notin Addressed)
  PROVE  DownHeld'
<1>1. Addressed' = Addressed
  BY AddressedSame
<1>2. ASSUME Relaying'
      PROVE  \E k \in 0 .. Len(answers') :
               Cut(downstream', answers', Coming', Addressed', Len(sent'), k)
  <2>1. PICK k \in 0 .. Len(answers) : Cut(downstream, answers, Coming, Addressed, Len(sent), k)
    BY <1>2 DEF DownHeld
  <2>2. Cut(downstream, answers, Coming', Addressed, Len(sent), k)
    BY <1>2, <2>1 DEF Cut
  <2> QED BY <1>1, <2>2
<1>3. /\ \A i \in DOMAIN downstream' : downstream'[i].m \in DOMAIN sent'
      /\ InPlace(downstream', answers', Addressed')
  BY <1>1 DEF DownHeld
<1> QED BY <1>2, <1>3 DEF DownHeld

(* The client sends on when it has all that the server said.                *)
LEMMA DownSends ==
  ASSUME Shape, Shape', Streamed, DownHeld, NEW kind, sent' = Append(sent, kind),
         UNCHANGED <<config, downstream, answers>>, Coming = <<>>, Coming' = <<>>, Relaying
  PROVE  DownHeld'
<1>1. /\ Len(sent') = Len(sent) + 1 /\ Len(sent) \in Nat /\ DOMAIN sent = 1 .. Len(sent)
      /\ DOMAIN sent' = 1 .. Len(sent) + 1 /\ \A m \in DOMAIN sent : sent'[m] = sent[m]
  <2>1. kind \in ClientKinds
    <3>1. sent'[Len(sent) + 1] = kind /\ Len(sent') = Len(sent) + 1 /\ Len(sent) \in Nat
      BY DEF Shape
    <3>2. Len(sent) + 1 \in 1 .. Len(sent')
      BY <3>1
    <3> QED BY <3>1, <3>2, ElementOfSeq DEF Shape
  <2> QED BY <2>1, AppendProperties, LenProperties DEF Shape
<1>2. \A m \in DOMAIN sent : m \in Addressed' <=> m \in Addressed
  BY <1>1 DEF Addressed, ForServer
<1>3. /\ DOMAIN downstream = 1 .. Len(downstream) /\ Len(downstream) \in Nat
      /\ DOMAIN answers = 1 .. Len(answers) /\ Len(answers) \in Nat
      /\ \A i \in DOMAIN downstream : downstream[i].m \in DOMAIN sent
      /\ InPlace(downstream, answers, Addressed)
  BY NumberedAnswers DEF Streamed, DownHeld
<1>4. \A n \in 0 .. Len(downstream) :
        Among(downstream, Addressed', n) = Among(downstream, Addressed, n)
  <2>1. SUFFICES ASSUME NEW n \in 0 .. Len(downstream)
                 PROVE  Among(downstream, Addressed', n) = Among(downstream, Addressed, n)
    OBVIOUS
  <2>2. \A i \in 1 .. n : downstream[i].m \in Addressed' <=> downstream[i].m \in Addressed
    <3>1. \A i \in 1 .. n : i \in DOMAIN downstream
      BY <1>3
    <3> QED BY <1>2, <1>3, <3>1
  <2> QED BY <2>2, AmongSame
<1>5. InPlace(downstream, answers, Addressed')
  <2>1. SUFFICES ASSUME NEW i \in DOMAIN downstream, downstream[i].m \in Addressed'
                 PROVE  \E k \in DOMAIN answers :
                          /\ answers[k] = downstream[i]
                          /\ Among(downstream, Addressed', i - 1) = Among(answers, Numbered, k - 1)
    BY DEF InPlace
  <2>2. downstream[i].m \in Addressed /\ i - 1 \in 0 .. Len(downstream)
    BY <1>2, <1>3, <2>1
  <2> QED BY <1>3, <1>4, <2>2 DEF InPlace
<1>6. \E k \in 0 .. Len(answers') :
        Cut(downstream', answers', Coming', Addressed', Len(sent'), k)
  <2>1. PICK k \in 0 .. Len(answers) : Cut(downstream, answers, Coming, Addressed, Len(sent), k)
    BY DEF DownHeld
  <2>2. k = Len(answers)
    <3>1. SUFFICES ASSUME <<>> = SubSeq(answers, k + 1, Len(answers)) PROVE k = Len(answers)
      BY <2>1 DEF Cut
    <3>2. Len(SubSeq(answers, k + 1, Len(answers))) = Len(answers) - k
      BY Rest DEF Streamed
    <3> DEFINE n == Len(answers)
    <3>3. 0 = n - k
      <4>1. Len(<<>>) = 0
        BY EmptySeq
      <4> QED BY <3>1, <3>2, <4>1
    <3>5. n \in Nat /\ k \in Nat
      BY <1>3
    <3> HIDE DEF n
    <3>4. k = n
      BY <3>3, <3>5
    <3> QED BY <3>4 DEF n
  <2>3. SubSeq(answers, k + 1, Len(answers)) = <<>>
    BY <1>3, <2>2, SubSeqEmpty
  <2>4. Len(downstream) \in 0 .. Len(downstream)
    BY <1>3
  <2>5. Cut(downstream, answers, Coming', Addressed', Len(sent'), k)
    BY <1>4, <2>1, <2>2, <2>3, <2>4 DEF Cut
  <2> QED BY <2>5
<1>7. \A i \in DOMAIN downstream' : downstream'[i].m \in DOMAIN sent'
  BY <1>1, <1>3
<1> QED BY <1>5, <1>6, <1>7 DEF DownHeld

(* The server answers: there is more to come.                               *)
LEMMA DownAnswers ==
  ASSUME Streamed, Streamed', DownHeld, UNCHANGED <<config, sent, downstream>>,
         NEW reply \in Seq(Piece), answers' = answers \o reply,
         Relaying' => /\ Relaying /\ Len(sent) \in Addressed
                      /\ Coming' = Coming \o reply
  PROVE  DownHeld'
<1>1. Addressed' = Addressed
  BY AddressedSame
<1>2. /\ answers \in Seq(Piece) /\ Len(answers) \in Nat /\ Len(reply) \in Nat
      /\ Len(answers') = Len(answers) + Len(reply)
      /\ DOMAIN answers = 1 .. Len(answers) /\ DOMAIN answers' = 1 .. Len(answers) + Len(reply)
      /\ \A i \in 1 .. Len(answers) : answers'[i] = answers[i]
  <2>1. /\ answers \in Seq(Piece) /\ Len(answers) \in Nat /\ Len(reply) \in Nat
        /\ DOMAIN answers = 1 .. Len(answers)
    BY LenProperties DEF Streamed
  <2>2. /\ Len(answers \o reply) = Len(answers) + Len(reply) /\ answers \o reply \in Seq(Piece)
        /\ \A i \in 1 .. Len(answers) + Len(reply) :
             (answers \o reply)[i] = IF i <= Len(answers) THEN answers[i]
                                                          ELSE reply[i - Len(answers)]
    BY <2>1, ConcatProperties
  <2>3. DOMAIN (answers \o reply) = 1 .. Len(answers) + Len(reply)
    BY <2>2, LenProperties
  <2>4. \A i \in 1 .. Len(answers) : i \in 1 .. Len(answers) + Len(reply) /\ i <= Len(answers)
    BY <2>1
  <2> QED BY <2>1, <2>2, <2>3, <2>4
<1>3. \A n \in 0 .. Len(answers) : Among(answers', Numbered, n) = Among(answers, Numbered, n)
  <2>1. SUFFICES ASSUME NEW n \in 0 .. Len(answers)
                 PROVE  Among(answers', Numbered, n) = Among(answers, Numbered, n)
    OBVIOUS
  <2> DEFINE a == answers
             b == answers'
  <2>2. \A i \in 1 .. n : b[i] = a[i] /\ (a[i].m \in Numbered <=> a[i].m \in Numbered)
    BY <1>2
  <2> HIDE DEF a, b
  <2>3. Among(b, Numbered, n) = Among(a, Numbered, n)
    BY <2>2, AmongSame
  <2> QED BY <2>3 DEF a, b
<1>4. InPlace(downstream', answers', Addressed')
  <2>1. SUFFICES ASSUME NEW i \in DOMAIN downstream, downstream[i].m \in Addressed
                 PROVE  \E k \in DOMAIN answers' :
                          /\ answers'[k] = downstream[i]
                          /\ Among(downstream, Addressed, i - 1) = Among(answers', Numbered, k - 1)
    BY <1>1 DEF InPlace
  <2>2. PICK k \in DOMAIN answers :
          /\ answers[k] = downstream[i]
          /\ Among(downstream, Addressed, i - 1) = Among(answers, Numbered, k - 1)
    BY <2>1 DEF DownHeld, InPlace
  <2>3. k \in DOMAIN answers' /\ answers'[k] = answers[k] /\ k - 1 \in 0 .. Len(answers)
    BY <1>2, <2>2
  <2> QED BY <1>3, <2>2, <2>3
<1>5. ASSUME Relaying'
      PROVE  \E k \in 0 .. Len(answers') :
               Cut(downstream', answers', Coming', Addressed', Len(sent'), k)
  <2>1. PICK k \in 0 .. Len(answers) : Cut(downstream, answers, Coming, Addressed, Len(sent), k)
    BY <1>5 DEF DownHeld
  <2>2. Coming' = SubSeq(answers, k + 1, Len(answers)) \o reply
    BY <1>5, <2>1 DEF Cut
  <2>3. SubSeq(answers \o reply, k + 1, Len(answers \o reply))
          = SubSeq(answers, k + 1, Len(answers)) \o reply
    <3>1. k \in Nat /\ k <= Len(answers)
      BY <1>2
    <3> QED BY <1>2, <3>1, RestJoined
  <2>4. k \in 0 .. Len(answers')
    BY <1>2
  <2>5. Cut(downstream, answers', Coming', Addressed, Len(sent), k)
    BY <1>3, <1>5, <2>1, <2>2, <2>3, <2>4 DEF Cut
  <2> QED BY <1>1, <2>4, <2>5
<1>6. \A i \in DOMAIN downstream' : downstream'[i].m \in DOMAIN sent'
  BY DEF DownHeld
<1> QED BY <1>4, <1>5, <1>6 DEF DownHeld

(* The proxy has the answer to its own request: it is not for the client.   *)
LEMMA DownNegotiated ==
  ASSUME Streamed, DownHeld, UNCHANGED <<config, sent, downstream, answers>>,
         Relaying, Len(sent) \in Addressed, Coming = Byte("S", 0), Coming' = <<>>
  PROVE  DownHeld'
<1>1. Addressed' = Addressed
  BY AddressedSame
<1>2. PICK k \in 0 .. Len(answers) : Cut(downstream, answers, Coming, Addressed, Len(sent), k)
  BY DEF DownHeld
<1>3. /\ answers \in Seq(Piece) /\ Len(answers) \in Nat
      /\ Byte("S", 0) = SubSeq(answers, k + 1, Len(answers))
      /\ Among(downstream, Addressed, Len(downstream)) = Among(answers, Numbered, k)
  BY <1>2, LenProperties DEF Cut, Streamed
<1>4. Len(Byte("S", 0)) = 1 /\ Byte("S", 0)[1].m = 0
  BY DEF Byte
<1>5. Len(answers) = k + 1
  <2> DEFINE n == Len(answers)
  <2>1. Len(SubSeq(answers, k + 1, Len(answers))) = n - k /\ n \in Nat /\ k \in Nat
    BY <1>3, Rest
  <2>2. n - k = 1
    BY <1>3, <1>4, <2>1
  <2> HIDE DEF n
  <2>3. n = k + 1
    BY <2>1, <2>2
  <2> QED BY <2>3 DEF n
<1>6. \A i \in 1 .. 1 : answers[k + i].m \notin Numbered
  <2>1. \A i \in 1 .. Len(answers) - k : SubSeq(answers, k + 1, Len(answers))[i] = answers[k + i]
    BY <1>3, Rest
  <2>2. 1 \in 1 .. Len(answers) - k
    BY <1>5
  <2>3. answers[k + 1].m = 0
    BY <1>3, <1>4, <2>1, <2>2
  <2> QED BY <2>3 DEF Numbered
<1>7. Among(answers, Numbered, k + 1) = Among(answers, Numbered, k)
  <2> DEFINE a == answers
  <2>1. k \in Nat /\ 1 \in Nat /\ \A i \in 1 .. 1 : a[k + i].m \notin Numbered
    BY <1>3, <1>6
  <2> HIDE DEF a
  <2>2. Among(a, Numbered, k + 1) = Among(a, Numbered, k)
    BY <2>1, AmongNone
  <2> QED BY <2>2 DEF a
<1>8. Cut(downstream', answers', Coming', Addressed', Len(sent'), Len(answers'))
  <2>1. SubSeq(answers, Len(answers) + 1, Len(answers)) = <<>>
    BY <1>3, SubSeqEmpty
  <2>2. Len(answers) \in 0 .. Len(answers)
    BY <1>3
  <2> QED BY <1>1, <1>3, <1>5, <1>7, <2>1, <2>2 DEF Cut
<1>9. Len(answers') \in 0 .. Len(answers')
  BY <1>3
<1>10. /\ \A i \in DOMAIN downstream' : downstream'[i].m \in DOMAIN sent'
       /\ InPlace(downstream', answers', Addressed')
  BY <1>1 DEF DownHeld
<1> QED BY <1>8, <1>9, <1>10 DEF DownHeld

(* Something is written to the client: what came next of the answer, or the *)
(* proxy's own words.                                                       *)
LEMMA DownWritten ==
  ASSUME Shape, Streamed, Streamed', DownHeld, UNCHANGED <<config, sent, answers>>,
         sent # <<>>, Relaying, Coming' \in Seq(Piece),
         NEW out \in Seq(Piece), downstream' = downstream \o out,
         \A i \in 1 .. Len(out) : out[i].m = Len(sent),
         Len(sent) \in Addressed => Coming = out \o Coming'
  PROVE  DownHeld'
<1> DEFINE n == Len(downstream)
           l == Len(sent)
           o == Len(out)
           next == Coming'
           a == answers
           d == downstream
           dd == downstream'
           size == Len(answers)
<1>1. Addressed' = Addressed
  BY AddressedSame
<1>2. /\ n \in Nat /\ o \in Nat /\ Len(dd) = n + o /\ DOMAIN d = 1 .. n /\ DOMAIN dd = 1 .. n + o
      /\ size \in Nat /\ DOMAIN a = 1 .. size /\ a \in Seq(Piece)
      /\ \A i \in 1 .. n : dd[i] = d[i]
      /\ \A i \in 1 .. o : dd[n + i] = out[i]
  <2>1. /\ d \in Seq(Piece) /\ n \in Nat /\ o \in Nat /\ DOMAIN d = 1 .. n
        /\ size \in Nat /\ DOMAIN a = 1 .. size /\ a \in Seq(Piece)
    BY LenProperties DEF Streamed
  <2>2. /\ DOMAIN dd = 1 .. n + o /\ dd \in Seq(Piece)
        /\ \A i \in 1 .. n + o : dd[i] = IF i <= n THEN d[i] ELSE out[i - n]
    BY <2>1, JoinedUp
  <2>3. Len(dd) = n + o
    BY <2>1, ConcatProperties
  <2> HIDE DEF n, o, d, dd, a, size
  <2>4. \A i \in 1 .. n : dd[i] = d[i]
    BY <2>1, <2>2
  <2>5. \A i \in 1 .. o : n + i \in 1 .. n + o /\ ~(n + i <= n) /\ (n + i) - n = i
    BY <2>1
  <2> QED BY <2>1, <2>2, <2>3, <2>4, <2>5
<1>3. l \in DOMAIN sent /\ (l \in Addressed => Coming = out \o next)
      /\ \A i \in 1 .. o : out[i].m = l
  BY SentIsThree, LenProperties DEF Shape
<1>4. /\ \A i \in DOMAIN d : d[i].m \in DOMAIN sent
      /\ InPlace(d, a, Addressed)
  BY DEF DownHeld
<1>5. PICK k \in 0 .. size : Cut(d, a, Coming, Addressed, l, k)
  BY DEF DownHeld
<1> HIDE DEF n, l, o, a, d, dd, size
<1>6. k \in Nat /\ k <= size
  BY <1>2, <1>5
<1>7. \A i \in 0 .. n : Among(dd, Addressed, i) = Among(d, Addressed, i)
  <2>1. SUFFICES ASSUME NEW i \in 0 .. n PROVE Among(dd, Addressed, i) = Among(d, Addressed, i)
    OBVIOUS
  <2>2. \A j \in 1 .. i : dd[j] = d[j] /\ (d[j].m \in Addressed <=> d[j].m \in Addressed)
    BY <1>2
  <2> QED BY <2>2, AmongSame
<1>8. \A i \in DOMAIN dd : dd[i].m \in DOMAIN sent
  <2>1. SUFFICES ASSUME NEW i \in 1 .. n + o PROVE dd[i].m \in DOMAIN sent
    BY <1>2
  <2>2. CASE i <= n
    <3>1. i \in 1 .. n
      BY <1>2, <2>2
    <3> QED BY <1>2, <1>4, <3>1
  <2>3. CASE ~(i <= n)
    <3>1. i - n \in 1 .. o /\ n + (i - n) = i
      BY <1>2, <2>3
    <3>2. dd[i] = out[i - n]
      BY <1>2, <3>1
    <3> QED BY <1>3, <3>1, <3>2
  <2> QED BY <2>2, <2>3
<1>9. ASSUME NEW i \in 1 .. n, dd[i].m \in Addressed
      PROVE  \E h \in DOMAIN a : /\ a[h] = dd[i]
                                 /\ Among(dd, Addressed, i - 1) = Among(a, Numbered, h - 1)
  <2>1. i \in DOMAIN d /\ d[i].m \in Addressed /\ dd[i] = d[i]
    BY <1>2, <1>9
  <2>2. PICK h \in DOMAIN a : /\ a[h] = d[i]
                              /\ Among(d, Addressed, i - 1) = Among(a, Numbered, h - 1)
    BY <1>4, <2>1 DEF InPlace
  <2>3. i - 1 \in 0 .. n
    BY <1>2
  <2> QED BY <1>7, <2>1, <2>2, <2>3
<1>10. CASE l \notin Addressed
  <2>1. \A i \in 1 .. o : dd[n + i].m \notin Addressed
    BY <1>2, <1>3, <1>10
  <2>2. Among(dd, Addressed, n + o) = Among(d, Addressed, n)
    <3>1. Among(dd, Addressed, n + o) = Among(dd, Addressed, n)
      BY <1>2, <2>1, AmongNone
    <3>2. n \in 0 .. n
      BY <1>2
    <3> QED BY <1>7, <3>1, <3>2
  <2>3. InPlace(dd, a, Addressed)
    <3>1. SUFFICES ASSUME NEW i \in 1 .. n + o, dd[i].m \in Addressed
                   PROVE  \E h \in DOMAIN a :
                            /\ a[h] = dd[i]
                            /\ Among(dd, Addressed, i - 1) = Among(a, Numbered, h - 1)
      BY <1>2 DEF InPlace
    <3>2. i \in 1 .. n
      <4>1. CASE i <= n
        BY <1>2, <4>1
      <4>2. CASE ~(i <= n)
        <5>1. i - n \in 1 .. o /\ n + (i - n) = i
          BY <1>2, <4>2
        <5> QED BY <2>1, <3>1, <5>1
      <4> QED BY <4>1, <4>2
    <3> QED BY <1>9, <3>1, <3>2
  <2>4. Cut(dd, a, next, Addressed, l, k)
    <3>1. /\ Among(d, Addressed, Len(d)) = Among(a, Numbered, k) /\ k = Len(a)
          /\ k \in 0 .. Len(a)
      BY <1>5, <1>10 DEF Cut
    <3>2. Len(d) = n
      BY DEF n, d
    <3> QED BY <1>2, <1>10, <2>2, <3>1, <3>2 DEF Cut
  <2>5. k \in 0 .. Len(answers')
    BY <1>5 DEF size
  <2> QED BY <1>1, <1>8, <2>3, <2>4, <2>5 DEF DownHeld, a, d, dd, l
<1>11. CASE l \in Addressed
  <2>1. /\ Among(d, Addressed, Len(d)) = Among(a, Numbered, k)
        /\ out \o next = SubSeq(a, k + 1, Len(a)) /\ Len(d) = n /\ Len(a) = size
    BY <1>3, <1>5, <1>11 DEF Cut, n, d, a, size
  <2>2. /\ Len(next) \in Nat /\ Len(out \o next) = o + Len(next)
        /\ \A i \in 1 .. o : (out \o next)[i] = out[i]
    <3> HIDE DEF next
    <3>1. next \in Seq(Piece)
      BY DEF next
    <3>2. /\ Len(next) \in Nat
          /\ \A i \in 1 .. Len(out) + Len(next) :
               (out \o next)[i] = IF i <= Len(out) THEN out[i] ELSE next[i - Len(out)]
      BY <3>1, JoinedUp
    <3>3. Len(out \o next) = Len(out) + Len(next)
      BY <3>1, ConcatProperties
    <3>4. \A i \in 1 .. o : i \in 1 .. o + Len(next) /\ i <= o
      BY <1>2, <3>2
    <3> QED BY <3>2, <3>3, <3>4 DEF o
  <2>3. /\ Len(SubSeq(a, k + 1, Len(a))) = size - k
        /\ \A i \in 1 .. size - k : SubSeq(a, k + 1, Len(a))[i] = a[k + i]
    BY <1>2, <1>5, <2>1, Rest
  <2> DEFINE rest == Len(next)
  <2>4. size - k = o + rest /\ rest \in Nat
    BY <2>1, <2>2, <2>3
  <2> HIDE DEF rest
  <2>5. k + o \in 0 .. size /\ \A i \in 1 .. o : i \in 1 .. size - k /\ k + i \in 1 .. size
    BY <1>2, <1>6, <2>4
  <2>6. \A i \in 1 .. o : a[k + i] = out[i]
    BY <2>1, <2>2, <2>3, <2>5
  <2>7. \A i \in 1 .. o : out[i].m \in Numbered /\ out[i].m \in Addressed
    <3>1. l \in Numbered
      BY SentIsThree DEF Numbered, l
    <3> QED BY <1>3, <1>11, <3>1
  <2>8. \A j \in 0 .. o : Among(dd, Addressed, n + j) = Among(a, Numbered, k + j)
    <3>1. SUFFICES ASSUME NEW j \in 0 .. o
                   PROVE  Among(dd, Addressed, n + j) = Among(a, Numbered, k + j)
      OBVIOUS
    <3>2. \A i \in 1 .. j : i \in 1 .. o
      BY <1>2
    <3>3. /\ \A i \in 1 .. j : dd[n + i] = out[i] /\ out[i].m \in Addressed
          /\ \A i \in 1 .. j : a[k + i] = out[i] /\ out[i].m \in Numbered
      BY <1>2, <2>6, <2>7, <3>2
    <3>4. j \in Nat /\ n \in Nat /\ k \in Nat
      BY <1>2, <1>6
    <3> DEFINE all == n + j
               heardOf == k + j
    <3>8. all = n + j /\ heardOf = k + j
      OBVIOUS
    <3> HIDE DEF all, heardOf
    <3>5. Among(dd, Addressed, all) = Among(dd, Addressed, n) \union FirstOf(out, j)
      <4> DEFINE s == Addressed
      <4>1. \A i \in 1 .. j : dd[n + i] = out[i] /\ out[i].m \in s
        BY <3>3
      <4> HIDE DEF s
      <4>2. Continues(dd, n, out, j, s)
        BY <4>1 DEF Continues
      <4>3. Among(dd, s, all) = Among(dd, s, n) \union FirstOf(out, j)
        BY <3>4, <3>8, <4>2, AmongMore
      <4> QED BY <4>3 DEF s
    <3>6. Among(a, Numbered, heardOf) = Among(a, Numbered, k) \union FirstOf(out, j)
      <4> DEFINE s == Numbered
      <4>1. \A i \in 1 .. j : a[k + i] = out[i] /\ out[i].m \in s
        BY <3>3
      <4> HIDE DEF s
      <4>2. Continues(a, k, out, j, s)
        BY <4>1 DEF Continues
      <4>3. Among(a, s, heardOf) = Among(a, s, k) \union FirstOf(out, j)
        BY <3>4, <3>8, <4>2, AmongMore
      <4> QED BY <4>3 DEF s
    <3>7. Among(dd, Addressed, n) = Among(a, Numbered, k)
      <4>1. n \in 0 .. n
        BY <1>2
      <4> QED BY <1>7, <2>1, <4>1
    <3> QED BY <3>5, <3>6, <3>7, <3>8
  <2>9. InPlace(dd, a, Addressed)
    <3>1. SUFFICES ASSUME NEW i \in 1 .. n + o, dd[i].m \in Addressed
                   PROVE  \E h \in DOMAIN a :
                            /\ a[h] = dd[i]
                            /\ Among(dd, Addressed, i - 1) = Among(a, Numbered, h - 1)
      BY <1>2 DEF InPlace
    <3>2. CASE i <= n
      <4>1. i \in 1 .. n
        BY <1>2, <3>2
      <4> QED BY <1>9, <3>1, <4>1
    <3>3. CASE ~(i <= n)
      <4> DEFINE j == i - n
      <4>1. j \in 1 .. o /\ n + j = i /\ n + (j - 1) = i - 1 /\ j - 1 \in 0 .. o
            /\ k + (j - 1) = (k + j) - 1
        BY <1>2, <1>6, <3>3
      <4> HIDE DEF j
      <4>2. dd[i] = out[j] /\ a[k + j] = out[j] /\ k + j \in DOMAIN a
        BY <1>2, <2>5, <2>6, <4>1
      <4>3. Among(dd, Addressed, n + (j - 1)) = Among(a, Numbered, k + (j - 1))
        BY <2>8, <4>1
      <4> QED BY <4>1, <4>2, <4>3
    <3> QED BY <3>2, <3>3
  <2>10. Cut(dd, a, next, Addressed, l, k + o)
    <3>1. next = SubSeq(a, (k + o) + 1, Len(a))
      <4> DEFINE later == next
      <4>1. later \in Seq(Piece) /\ o \in Nat /\ o <= Len(out) /\ Len(out) = o
        BY <1>2 DEF o
      <4>2. SubSeq(out, o + 1, Len(out)) = <<>>
        BY <4>1, SubSeqEmpty
      <4> HIDE DEF later
      <4>3. SubSeq(out \o later, o + 1, Len(out \o later)) = SubSeq(out, o + 1, Len(out)) \o later
        BY <4>1, RestJoined
      <4>4. <<>> \o later = later
        BY <4>1, ConcatEmptySeq
      <4>5. SubSeq(SubSeq(a, k + 1, Len(a)), o + 1, Len(SubSeq(a, k + 1, Len(a))))
              = SubSeq(a, (k + o) + 1, Len(a))
        <5>1. k + o <= Len(a)
          BY <1>2, <1>6, <2>1, <2>5
        <5> QED BY <1>2, <1>6, <5>1, RestOfRest
      <4>6. out \o later = SubSeq(a, k + 1, Len(a))
        BY <2>1 DEF later
      <4> QED BY <4>2, <4>3, <4>4, <4>5, <4>6 DEF later
    <3>2. Among(dd, Addressed, Len(dd)) = Among(a, Numbered, k + o)
      <4>1. o \in 0 .. o
        BY <1>2
      <4> QED BY <1>2, <2>8, <4>1
    <3> QED BY <1>11, <2>1, <2>5, <3>1, <3>2 DEF Cut
  <2>11. k + o \in 0 .. Len(answers')
    BY <2>5 DEF size
  <2> QED BY <1>1, <1>8, <2>9, <2>10, <2>11 DEF DownHeld, a, d, dd, l
<1> QED BY <1>10, <1>11

-----------------------------------------------------------------------------
(* The steps of the connection on the way to the client.                    *)
LEMMA InitDown == Init => DownHeld
<1> SUFFICES ASSUME Init PROVE DownHeld
  OBVIOUS
<1>1. /\ sent = <<>> /\ downstream = <<>> /\ answers = <<>> /\ DOMAIN downstream = {}
      /\ DOMAIN sent = {} /\ Len(answers) = 0 /\ Len(downstream) = 0 /\ Len(sent) = 0
  BY EmptySeq DEF Init
<1>2. Addressed = {}
  BY <1>1 DEF Addressed
<1>3. Among(downstream, Addressed, Len(downstream)) = Among(answers, Numbered, 0)
  <2>1. 1 .. 0 = {}
    OBVIOUS
  <2> QED BY <1>1, <2>1 DEF Among
<1>4. Cut(downstream, answers, Coming, Addressed, Len(sent), 0)
  BY <1>1, <1>2, <1>3 DEF Cut
<1>5. 0 \in 0 .. Len(answers)
  BY <1>1
<1> QED BY <1>1, <1>4, <1>5 DEF DownHeld, InPlace

LEMMA ComingNext ==
  ASSUME Shape'
  PROVE  /\ Coming' = (replacement'["backend"] \o retained') \o Behind'
         /\ Coming' \in Seq(Piece)
         /\ BackEmpty' => Coming' = <<>>
<1>1. /\ validation'["backend"] \in Seq(Piece) /\ wire'["backend"] \in Seq(Piece)
      /\ replacement'["backend"] \in Seq(Piece) /\ retained' \in Seq(Piece)
  BY DEF Shape, Streams, Sides
<1> DEFINE v == validation'["backend"]
           w == wire'["backend"]
           r == replacement'["backend"]
           h == retained'
<1>2. v \in Seq(Piece) /\ w \in Seq(Piece) /\ r \in Seq(Piece) /\ h \in Seq(Piece)
  BY <1>1
<1>3. /\ Coming' = ((r \o h) \o v) \o w /\ Behind' = v \o w
      /\ BackEmpty' => r = <<>> /\ h = <<>> /\ v = <<>> /\ w = <<>>
  BY DEF Coming, Behind, BackEmpty
<1> HIDE DEF v, w, r, h
<1>4. r \o h \in Seq(Piece) /\ v \o w \in Seq(Piece)
  BY <1>2, ConcatProperties
<1>5. ((r \o h) \o v) \o w = (r \o h) \o (v \o w)
  <2> DEFINE held == r \o h
  <2>1. held \in Seq(Piece)
    BY <1>4
  <2> HIDE DEF held
  <2>2. (held \o v) \o w = held \o (v \o w)
    BY <1>2, <2>1, Regrouped
  <2> QED BY <2>2 DEF held
<1>6. (r \o h) \o (v \o w) \in Seq(Piece)
  BY <1>4, ConcatProperties
<1>7. r = <<>> /\ h = <<>> /\ v = <<>> /\ w = <<>> => (r \o h) \o (v \o w) = <<>>
  BY <1>2, <1>4, ConcatEqualIffEmpty
<1>8. Coming' = (r \o h) \o Behind'
  BY <1>3, <1>5
<1>9. Coming' \in Seq(Piece) /\ (BackEmpty' => Coming' = <<>>)
  BY <1>3, <1>5, <1>6, <1>7
<1> QED BY <1>8, <1>9 DEF r, h

LEMMA ClientSendsDown ==
  ASSUME Patient, Shape, Shape', Streamed, OneUnderWay, DownHeld,
         NEW kind \in Kinds, ClientSends(kind)
  PROVE  DownHeld'
<1>1. Resting /\ Arriving' /\ ~closed
  BY SendsFromRest, ClientSendsOne DEF ClientSends, Quiet
<1>2. Coming = <<>> /\ Relaying
  BY <1>1, ComingRegrouped DEF Resting, Relaying
<1>3. Coming' = <<>>
  BY <1>1, ComingNext DEF Arriving
<1>4. sent' = Append(sent, kind) /\ UNCHANGED <<config, downstream, answers>>
  BY DEF ClientSends, server, outputs
<1> QED BY <1>2, <1>3, <1>4, DownSends

LEMMA ServerAnswersDown ==
  ASSUME Shape, Shape', Streamed, Streamed', OneUnderWay, DownHeld, ServerAnswers
  PROVE  DownHeld'
<1>1. /\ ~closed /\ Len(upstream) >= served + 3
      /\ UNCHANGED <<config, sent, downstream, state, closed, validation, replacement, retained>>
  BY DEF ServerAnswers, Quiet, client, buffers, outputs, transports
<1>2. PICK reply \in Replies(upstream[served + 1].kind, upstream[served + 1].m) :
        /\ wire' = [wire EXCEPT !["backend"] = @ \o reply]
        /\ answers' = answers \o reply
  BY DEF ServerAnswers
<1>3. reply \in Seq(Piece)
  <2>1. served + 1 \in 1 .. Len(upstream) /\ upstream \in Seq(TaggedPiece)
    BY <1>1, LenProperties DEF Shape
  <2>2. upstream[served + 1] \in TaggedPiece
    BY <2>1, ElementOfSeq
  <2> QED BY <1>2, <2>2, RepliesArePieces DEF TaggedPiece
<1>4. Negotiating \/ AtServer \/ Passing
  <2>1. served \in Nat /\ Len(upstream) \in Nat /\ served # Len(upstream)
    BY <1>1, LenProperties DEF Shape
  <2> QED BY <1>1, <2>1 DEF OneUnderWay, Resting, Arriving, Leaving, Answered, LostSync
<1>5. Relaying' => Relaying /\ Len(sent) \in Addressed
  <2> SUFFICES ASSUME Relaying' PROVE Relaying /\ Len(sent) \in Addressed
    OBVIOUS
  <2>1. Relaying
    BY <1>1 DEF Relaying
  <2>2. sent # <<>> /\ LastKind \in {"startup", "password", "query", "terminate"}
    BY <1>4, <2>1 DEF Negotiating, AtServer, Forwardable, Passing, Relaying
  <2>3. Len(sent) \in DOMAIN sent
    BY <2>2, SentIsThree
  <2> QED BY <2>1, <2>2, <2>3 DEF Addressed, ForServer, LastKind
<1>6. Coming' = Coming \o reply
  <2> DEFINE h == replacement["backend"] \o retained
             b == Behind
             w == wire["backend"]
             v == validation["backend"]
  <2>1. h \in Seq(Piece) /\ b \in Seq(Piece) /\ v \in Seq(Piece) /\ w \in Seq(Piece)
        /\ Coming = h \o b /\ b = v \o w
    BY ComingRegrouped DEF Behind, Shape, Streams, Sides
  <2>2. Coming' = h \o Behind' /\ Behind' = v \o (w \o reply)
    BY <1>1, <1>2, ComingNext DEF Behind, Shape, Streams, Sides
  <2> HIDE DEF h, b, w, v
  <2>3. reply \in Seq(Piece)
    BY <1>3
  <2>4. (v \o w) \o reply = v \o (w \o reply)
    BY <2>1, <2>3, Regrouped
  <2>5. (h \o b) \o reply = h \o (b \o reply)
    BY <2>1, <2>3, Regrouped
  <2>6. Coming' = h \o (v \o (w \o reply))
    BY <2>2
  <2>7. b \o reply = v \o (w \o reply)
    BY <2>1, <2>4
  <2> QED BY <2>1, <2>5, <2>6, <2>7
<1> QED BY <1>1, <1>2, <1>3, <1>5, <1>6, DownAnswers

LEMMA ReceiveDown ==
  ASSUME Shape, Shape', DownHeld, NEW side \in Sides, Receive(side)
  PROVE  DownHeld'
<1>1. /\ UNCHANGED <<config, sent, downstream, answers, state, closed, replacement, retained>>
  BY DEF Receive, client, server, outputs, transports
<1>2. Behind' = Behind
  BY SameStream DEF Behind, Sides
<1>3. Coming' = Coming
  BY <1>1, <1>2, ComingNext, ComingRegrouped
<1> QED BY <1>1, <1>3, DownSame DEF Relaying

(* A handler leaves: what it gathered for the client is written.            *)
LEMMA FinishDown ==
  ASSUME Shape, Shape', Streamed, Streamed', OneUnderWay, DownHeld, Finish
  PROVE  DownHeld'
<1> DEFINE out == replacement["backend"]
           left == retained \o Behind
<1>1. /\ ~closed /\ ~closed'
      /\ UNCHANGED <<config, sent, answers, wire, validation, closed, state, retained>>
      /\ downstream' = downstream \o out /\ replacement' = Nothing /\ out \in Seq(Piece)
  BY Finished
<1>2. retained \in Seq(Piece) /\ Behind \in Seq(Piece) /\ Coming = (out \o retained) \o Behind
  BY ComingRegrouped
<1>3. Behind' = Behind
  BY <1>1 DEF Behind
<1>4. Coming' = (<<>> \o retained) \o Behind /\ Coming' \in Seq(Piece)
  BY <1>1, <1>3, ComingNext, NothingIsEmpty
<1>5. Coming' = left /\ left \in Seq(Piece) /\ Coming = out \o left
  <2> DEFINE b == Behind
  <2>1. b \in Seq(Piece) /\ retained \in Seq(Piece) /\ out \in Seq(Piece)
    BY <1>1, <1>2
  <2> HIDE DEF b, out
  <2>2. (out \o retained) \o b = out \o (retained \o b) /\ <<>> \o retained = retained
    BY <2>1, Regrouped, ConcatEmptySeq
  <2>3. retained \o b \in Seq(Piece)
    BY <2>1, ConcatProperties
  <2> QED BY <1>2, <1>4, <2>2, <2>3 DEF b
<1>6. CASE out = <<>>
  <2>1. downstream' = downstream
    BY <1>1, <1>6, ConcatEmptySeq DEF Streamed
  <2>2. Coming' = Coming
    BY <1>5, <1>6, ConcatEmptySeq
  <2> QED BY <1>1, <2>1, <2>2, DownSame DEF Relaying
<1>7. CASE out # <<>>
  <2>1. Answered /\ state = "InSyncState"
    BY <1>1, <1>7, NothingIsEmpty
       DEF OneUnderWay, Resting, Arriving, Negotiating, Leaving, AtServer, Passing, LostSync,
           BackEmpty, Answered
  <2>2. sent # <<>> /\ \A i \in DOMAIN Coming : Coming[i].m = Len(sent)
    BY <2>1 DEF Answered
  <2>3. \A i \in 1 .. Len(out) : out[i].m = Len(sent)
    <3> HIDE DEF out, left
    <3>1. /\ DOMAIN Coming = 1 .. Len(out) + Len(left) /\ Len(out) \in Nat /\ Len(left) \in Nat
          /\ \A j \in 1 .. Len(out) + Len(left) :
               Coming[j] = IF j <= Len(out) THEN out[j] ELSE left[j - Len(out)]
      BY <1>1, <1>5, JoinedUp, LenProperties
    <3>2. \A i \in 1 .. Len(out) : i \in 1 .. Len(out) + Len(left) /\ i <= Len(out)
      BY <3>1
    <3> QED BY <2>2, <3>1, <3>2
  <2>4. Relaying /\ Coming = out \o Coming'
    BY <1>1, <1>5, <2>1 DEF Relaying
  <2> HIDE DEF out, left
  <2> QED BY <1>1, <1>4, <2>2, <2>3, <2>4, DownWritten
<1> QED BY <1>6, <1>7

(* The server's messages in the decoder.                                    *)
LEMMA TerminateDown ==
  ASSUME Shape, Shape', Streamed, Streamed', OneUnderWay, DownHeld, TerminateSslRequest
  PROVE  DownHeld'
<1>1. /\ Readable("frontend") /\ state = "InitState" /\ Current.kind = "ssl" /\ config.terminateSsl
      /\ UNCHANGED <<config, sent, answers>>
      /\ downstream' = downstream \o Byte("S", Current.m)
  BY DEF TerminateSslRequest, client, server
<1>2. /\ ~closed /\ sent # <<>> /\ LastKind = "ssl" /\ Current.m = Len(sent)
  BY <1>1, FrontMessage
<1>3. Len(sent) \notin Addressed
  BY <1>1, <1>2 DEF Addressed, ForServer, LastKind
<1> DEFINE out == Byte("S", Len(sent))
<1>4. out \in Seq(Piece) /\ \A i \in 1 .. Len(out) : out[i].m = Len(sent)
  <2>1. Len(sent) \in Nat
    BY <1>2, SentIsThree
  <2>2. out \in Seq(Piece) /\ Len(out) = 1 /\ out[1].m = Len(sent)
    BY <2>1, BytesArePieces DEF ServerKinds, Byte
  <2> HIDE DEF out
  <2> QED BY <2>2
<1>5. downstream' = downstream \o out
  BY <1>1, <1>2
<1>6. Coming' \in Seq(Piece) /\ Relaying
  BY <1>1, <1>2, ComingNext DEF Relaying
<1> HIDE DEF out
<1> QED BY <1>1, <1>2, <1>3, <1>4, <1>5, <1>6, DownWritten

LEMMA DecodeDown ==
  ASSUME Shape, Shape', Streamed, Streamed', OneUnderWay, DownHeld, Decode
  PROVE  DownHeld'
<1>1. CASE PassEncrypted \/ LoseSync \/ Ignore
  <2>1. UNCHANGED <<config, sent, downstream, answers>> /\ ~Relaying'
    BY <1>1 DEF PassEncrypted, LoseSync, Ignore, client, server, outputs, Relaying
  <2> QED BY <2>1, DownSame
<1>2. CASE StartInClear \/ StartNegotiation
  <2>1. /\ UNCHANGED <<config, sent, downstream, answers, closed>>
        /\ Readable("frontend") /\ state = "InitState"
    BY <1>2 DEF StartInClear, StartNegotiation, client, server, outputs, transports
  <2>2. BackEmpty /\ ~closed
    BY <2>1, FrontMessage
  <2>3. Leaving' \/ Negotiating'
    BY <1>2, StartInClearOne, StartNegotiationOne
  <2>4. BackEmpty'
    <3>1. CASE Leaving'
      BY <3>1 DEF Leaving
    <3>2. CASE StartNegotiation
      <4>1. Drop(3) /\ Stop(validation'[handler]) /\ wire' = wire /\ retained' = retained
            /\ handler = "frontend"
        BY <3>2 DEF StartNegotiation, Readable
      <4> QED BY <2>2, <4>1 DEF BackEmpty, Drop, Stop, Shape, Streams, Sides
    <3>3. CASE StartInClear
      BY <3>1, <3>3, StartInClearOne
    <3> QED BY <1>2, <3>2, <3>3
  <2>5. Coming = <<>> /\ Coming' = <<>>
    BY <2>2, <2>4, ComingNext, ComingRegrouped
  <2> QED BY <2>1, <2>2, <2>5, DownSame DEF Relaying
<1>3. CASE RelayOrRefuse
  <2>1. /\ UNCHANGED <<config, sent, downstream, answers, closed, state>>
        /\ Readable("frontend") /\ state = "InSyncState"
    BY <1>3 DEF RelayOrRefuse, client, server, outputs, transports
  <2>2. BackEmpty /\ ~closed /\ Current.kind = LastKind /\ sent # <<>>
    BY <2>1, FrontMessage
  <2>3. Relaying
    BY <2>1, <2>2 DEF Relaying
  <2>4. CASE LastKind = "refused"
    <3>1. Len(sent) \notin Addressed
      BY <2>4 DEF Addressed, ForServer, LastKind
    <3> QED BY <2>1, <2>3, <3>1, DownSame
  <2>5. CASE LastKind # "refused"
    <3>1. /\ Drop(3) /\ Replace("frontend", Message) /\ wire' = wire /\ handler = "frontend"
          /\ retained' = <<>>
      BY <1>3, <2>2, <2>5 DEF RelayOrRefuse, Readable, BackEmpty
    <3>2. BackEmpty'
      BY <2>2, <3>1 DEF BackEmpty, Drop, Replace, Shape, Streams, Sides
    <3>3. Coming = <<>> /\ Coming' = <<>>
      BY <2>2, <3>2, ComingNext, ComingRegrouped
    <3> QED BY <2>1, <2>3, <3>3, DownSame
  <2> QED BY <2>4, <2>5
<1>4. CASE NegotiationAnswered
  <2>1. /\ UNCHANGED <<config, sent, downstream, answers>> /\ state = "NegotiatingUpstreamSSL"
        /\ Negotiating /\ ~closed
        /\ ~closed' => AtServer' /\ Behind = Byte("S", 0)
    BY <1>4, NegotiationAnsweredOne DEF NegotiationAnswered, client, server
  <2>2. CASE closed'
    BY <2>1, <2>2, DownSame DEF Relaying
  <2>3. CASE ~closed'
    <3>1. /\ sent # <<>> /\ LastKind = "startup" /\ replacement = Nothing /\ retained = <<>>
      BY <2>1 DEF Negotiating
    <3>2. Len(sent) \in Addressed /\ Relaying
      BY <2>1, <3>1, SentIsThree DEF Addressed, ForServer, LastKind, Relaying
    <3>3. Coming = Byte("S", 0)
      <4>1. Coming = (<<>> \o <<>>) \o Behind /\ Behind \in Seq(Piece)
        BY <3>1, ComingRegrouped, NothingIsEmpty
      <4>2. <<>> \o <<>> = <<>>
        BY EmptySeq, ConcatEmptySeq
      <4> QED BY <2>1, <2>3, <4>1, <4>2, ConcatEmptySeq
    <3>4. Coming' = <<>>
      BY <2>1, <2>3, ComingNext DEF AtServer
    <3> QED BY <2>1, <3>2, <3>3, <3>4, DownNegotiated
  <2> QED BY <2>2, <2>3
<1>5. CASE RetainOrEmit
  <2>1. UNCHANGED <<config, sent, downstream, answers, state, closed>>
    BY <1>5 DEF RetainOrEmit, client, server, outputs, transports
  <2>2. Coming' = Coming
    BY <1>5, RetainOrEmitOne
  <2> QED BY <2>1, <2>2, DownSame DEF Relaying
<1> QED BY <1>1, <1>2, <1>3, <1>4, <1>5, TerminateDown, NeverDisturbed DEF Decode

LEMMA NextDown ==
  ASSUME Patient, Shape, Shape', Streamed, Streamed', OneUnderWay, DownHeld, [Next]_vars
  PROVE  DownHeld'
<1>1. CASE ClientReads \/ BytesSent \/ UNCHANGED vars
  <2>1. /\ UNCHANGED <<config, sent, downstream, answers, state, validation, wire, replacement,
                       retained>>
        /\ ~closed' => ~closed
    BY <1>1 DEF ClientReads, BytesSent, vars, client, server, buffers, outputs, transports, Quiet
  <2>2. Coming' = Coming
    BY <2>1 DEF Coming
  <2> QED BY <2>1, <2>2, DownSame DEF Relaying
<1> QED BY <1>1, ClientSendsDown, ServerAnswersDown, ReceiveDown, DecodeDown, FinishDown DEF Next

-----------------------------------------------------------------------------
(* Both halves, and what they come to.                                      *)
LEMMA RelayInWords ==
  ASSUME Shape, Streamed, UpHeld, DownHeld
  PROVE  RelayHeld
<1>1. AnswersRelayedOnce /\ QueriesRelayedOnce
  BY DownInWords DEF UpHeld
<1>2. \A i \in DOMAIN downstream : downstream[i].m \in DOMAIN sent
  BY DEF DownHeld
<1>3. state # "OutOfSyncState" =>
        ServerGot(Len(upstream)) = {byte \in Meant : OnTheWay => byte.m < Len(sent)}
  BY DEF UpHeld
<1>4. state \in {"InitState", "InSyncState", "NegotiatingUpstreamSSL"} /\ ~closed =>
        \E k \in 0 .. Len(answers) :
          /\ ClientGot(Len(downstream)) = ServerSaid(k)
          /\ IF sent # <<>> /\ ForServer(Len(sent))
               THEN Coming = SubSeq(answers, k + 1, Len(answers))
               ELSE k = Len(answers)
  BY DownInWords DEF Relaying
<1> QED BY <1>1, <1>2, <1>3, <1>4 DEF RelayHeld

(* A client that waits: what is not with the server is the one message      *)
(* under way, and what is not with the client is what follows a cut of the  *)
(* server's answers.                                                        *)
THEOREM RelayIsHeld ==
  ASSUME Patient
  PROVE  Spec => []RelayHeld
<1>1. Init => Shape /\ Streamed /\ SessionHeld /\ UpHeld /\ DownHeld
  BY InitShape, InitStreamed, InitOne, InitUp, InitDown
<1>2. Shape /\ Streamed /\ SessionHeld /\ UpHeld /\ DownHeld /\ [Next]_vars
        => (Shape /\ Streamed /\ SessionHeld /\ UpHeld /\ DownHeld)'
  <2> SUFFICES ASSUME Shape, Streamed, SessionHeld, UpHeld, DownHeld, [Next]_vars
               PROVE  Shape' /\ Streamed' /\ SessionHeld' /\ UpHeld' /\ DownHeld'
    OBVIOUS
  <2>1. Shape' /\ Streamed'
    BY NextKeepsShape, NextStreamed
  <2>2. OneUnderWay
    BY DEF SessionHeld
  <2>3. SessionHeld'
    BY <2>1, NextSession
  <2>4. UpHeld'
    BY <2>1, <2>2, NextUp
  <2>5. DownHeld'
    BY <2>1, <2>2, NextDown
  <2> QED BY <2>1, <2>3, <2>4, <2>5
<1>3. Shape /\ Streamed /\ UpHeld /\ DownHeld => RelayHeld
  BY RelayInWords
<1> QED BY <1>1, <1>2, <1>3, PTL DEF Spec

(* The server gets the messages of a client that waits whole, in order and  *)
(* once, whatever the number of messages and however they are cut.          *)
THEOREM QueriesAreRelayed ==
  ASSUME Patient
  PROVE  Spec => []QueriesRelayedOnce
<1>1. RelayHeld => QueriesRelayedOnce
  BY DEF RelayHeld
<1> QED BY <1>1, RelayIsHeld, PTL

(* The client gets the server's answers in order and once, the rows that    *)
(* are held back included.                                                  *)
THEOREM AnswersAreRelayed ==
  ASSUME Patient
  PROVE  Spec => []AnswersRelayedOnce
<1>1. RelayHeld => AnswersRelayedOnce
  BY DEF RelayHeld
<1> QED BY <1>1, RelayIsHeld, PTL

(* What ends an answer is no row: with nothing behind it none is held back. *)
LEMMA NoRowIsLast ==
  ASSUME NEW unread \in Seq(Piece), NEW rows \in Seq(Piece), Proper(unread \o rows),
         \A i \in DOMAIN rows : rows[i].kind = "row"
  PROVE  rows = <<>>
<1> SUFFICES ASSUME rows # <<>> PROVE FALSE
  OBVIOUS
<1> DEFINE n == Len(rows)
           l == Len(unread)
           all == unread \o rows
<1>1. n \in Nat \ {0} /\ l \in Nat /\ DOMAIN rows = 1 .. n
  BY EmptySeq, LenProperties
<1>2. n \in 1 .. n
  BY <1>1
<1>3. l + n \in DOMAIN all /\ all[l + n] = rows[n] /\ DOMAIN all = 1 .. l + n
  BY <1>2, LastPart, LenProperties
<1>4. all[l + n].kind = "row" /\ Proper(all)
  BY <1>1, <1>2, <1>3
<1> HIDE DEF n, l, all
<1>5. l + n + 3 \notin DOMAIN all
  BY <1>1, <1>3
<1> QED BY <1>3, <1>4, <1>5 DEF Proper

LEMMA LeftAtRest ==
  ASSUME Shape, Streamed, SessionHeld, Quiet, wire = Nothing, served = Len(upstream),
         state = "InSyncState"
  PROVE  FrontEmpty /\ BackEmpty
<1>1. /\ ~closed /\ handler = "none" /\ replacement = Nothing /\ OneUnderWay
      /\ \A side \in Sides : Len(validation[side]) <= 2
  BY DEF SessionHeld, Quiet, Sides
<1>2. /\ wire["frontend"] = <<>> /\ wire["backend"] = <<>> /\ replacement["backend"] = <<>>
      /\ validation["frontend"] \in Seq(Piece) /\ validation["backend"] \in Seq(Piece)
      /\ Len(validation["frontend"]) <= 2 /\ Len(validation["backend"]) <= 2
  BY <1>1, NothingIsEmpty DEF Shape, Streams
<1>3. /\ validation["frontend"] \o wire["frontend"] = validation["frontend"]
      /\ Behind = validation["backend"]
  BY <1>2, ConcatEmptySeq DEF Behind
<1>4. ~Arriving
  <2> SUFFICES ASSUME Arriving PROVE FALSE
    OBVIOUS
  <2>1. validation["frontend"] = LastSent /\ sent # <<>>
    BY <1>3 DEF Arriving
  <2>2. Len(validation["frontend"]) = 3
    BY <2>1, SentIsThree
  <2> QED BY <1>2, <2>2
<1>5. ~AtServer
  <2>1. served \in Nat
    BY DEF Shape
  <2> QED BY <2>1 DEF AtServer
<1>6. Resting \/ Answered
  BY <1>1, <1>4, <1>5 DEF OneUnderWay, Negotiating, Leaving, Passing, LostSync
<1>7. ASSUME Answered
      PROVE  FrontEmpty /\ BackEmpty
  <2>1. /\ FrontEmpty /\ heard <= Len(downstream) /\ Proper(Unread \o Coming)
        /\ InMessages(Behind) /\ \A i \in DOMAIN retained : retained[i].kind = "row"
    BY <1>7 DEF Answered, Behind
  <2>2. Behind = <<>>
    <3>1. Behind \in Seq(Piece) /\ ~(Len(Behind) >= 3)
      <4> DEFINE v == validation["backend"]
      <4>1. v \in Seq(Piece) /\ Len(v) \in Nat /\ Len(v) <= 2
        BY <1>2, LenProperties
      <4>2. ~(Len(v) >= 3)
        BY <4>1
      <4> QED BY <1>3, <4>1, <4>2
    <3> QED BY <2>1, <3>1, FirstMessage
  <2>3. Coming = retained /\ retained \in Seq(Piece)
    <3>1. Coming = (<<>> \o retained) \o <<>> /\ retained \in Seq(Piece)
      BY <1>2, <2>2, ComingRegrouped
    <3>2. <<>> \o retained = retained /\ retained \o <<>> = retained
      BY <3>1, ConcatEmptySeq
    <3> QED BY <3>1, <3>2
  <2>4. Unread \in Seq(Piece)
    BY <2>1, UnreadIsTheRest
  <2>5. retained = <<>>
    <3> DEFINE unread == Unread
    <3>1. unread \in Seq(Piece) /\ Proper(unread \o retained)
      BY <2>1, <2>3, <2>4
    <3> HIDE DEF unread
    <3> QED BY <2>1, <2>3, <3>1, NoRowIsLast
  <2> QED BY <1>2, <1>3, <2>1, <2>2, <2>5 DEF BackEmpty
<1> QED BY <1>6, <1>7 DEF Resting

LEMMA AllIsRelayed ==
  ASSUME Shape, Streamed, RelayHeld, FrontEmpty, BackEmpty, state = "InSyncState", ~closed
  PROVE  AllRelayed
<1>1. ServerGot(Len(upstream)) = Meant
  <2>1. ~OnTheWay
    BY DEF OnTheWay, FrontEmpty
  <2>2. ServerGot(Len(upstream)) = {byte \in Meant : OnTheWay => byte.m < Len(sent)}
    BY DEF RelayHeld
  <2> QED BY <2>1, <2>2
<1>2. PICK k \in 0 .. Len(answers) :
        /\ ClientGot(Len(downstream)) = ServerSaid(k)
        /\ IF sent # <<>> /\ ForServer(Len(sent))
             THEN Coming = SubSeq(answers, k + 1, Len(answers))
             ELSE k = Len(answers)
  BY DEF RelayHeld
<1>3. k = Len(answers)
  <2> SUFFICES ASSUME Coming = SubSeq(answers, k + 1, Len(answers)) PROVE k = Len(answers)
    BY <1>2
  <2>1. SubSeq(answers, k + 1, Len(answers)) = <<>>
    BY ComingRegrouped
  <2> DEFINE n == Len(answers)
             rest == SubSeq(answers, k + 1, Len(answers))
  <2>2. Len(rest) = n - k /\ n \in Nat /\ k \in Nat /\ Len(rest) = 0
    BY <2>1, Rest, LenProperties, EmptySeq DEF Streamed
  <2> HIDE DEF n, rest
  <2>3. k = n
    BY <2>2
  <2> QED BY <2>3 DEF n
<1> QED BY <1>1, <1>2, <1>3 DEF AllRelayed

(* When nothing is under way any more, no buffer holds back anything of the *)
(* session, and both sides have all that the other one has sent.            *)
THEOREM NothingStaysBehind ==
  ASSUME Patient
  PROVE  Spec => []NothingLeftBehind
<1>1. Init => Shape /\ Streamed
  BY InitShape, InitStreamed
<1>2. Shape /\ Streamed /\ [Next]_vars => Shape' /\ Streamed'
  BY NextKeepsShape, NextStreamed
<1>3. Shape /\ Streamed /\ SessionHeld /\ RelayHeld => NothingLeftBehind
  <2> SUFFICES ASSUME Shape, Streamed, SessionHeld, RelayHeld, Quiet, wire = Nothing,
                      served = Len(upstream), state = "InSyncState"
               PROVE  /\ validation = Nothing /\ tempStorage = <<>> /\ retained = <<>>
                      /\ AllRelayed
    BY DEF NothingLeftBehind
  <2>1. FrontEmpty /\ BackEmpty
    BY LeftAtRest
  <2>2. validation = Nothing
    BY <2>1 DEF FrontEmpty, BackEmpty, Shape, Streams, Nothing, Sides
  <2>3. AllRelayed
    BY <2>1, AllIsRelayed DEF Quiet
  <2> QED BY <2>1, <2>2, <2>3 DEF FrontEmpty, BackEmpty
<1> QED BY <1>1, <1>2, <1>3, SessionIsHeld, RelayIsHeld, PTL DEF Spec
=============================================================================
