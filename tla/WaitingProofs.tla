---------------------------- MODULE WaitingProofs ----------------------------
(***************************************************************************)
(* A client that waits for its answers: the handlers do what they should,  *)
(* its rows come behind their description, decoded as their own, and none  *)
(* of them is lost; if the server fails statements only before their first *)
(* row, what the client is told is what ResultStream promises.             *)
(***************************************************************************)
EXTENDS MutationManagerProofs

(* A client that waits sends queries of one statement, one at a time; what  *)
(* is not parsed and yet passed on returns no rows; and no mutator reports  *)
(* an error.                                                                *)
ClientWaits ==
  /\ Window = 1 /\ ~MutatorErrors
  /\ \A kind \in Queries : /\ Len(kind.body) <= 1
                           /\ kind.verdict \notin {"unimplemented", "prepared"}
                           /\ PassedUnparsed(kind) =>
                                \A s \in DOMAIN kind.body : kind.body[s] # "select"

(* Rows behind their description.                                           *)
Matched(seq) ==
  \A i \in DOMAIN seq : seq[i].type = "D" =>
    /\ i > 1 /\ seq[i - 1].type \in {"T", "D"}
    /\ seq[i - 1].q = seq[i].q /\ seq[i - 1].s = seq[i].s

AllFit(seq) == \A i \in DOMAIN seq : seq[i].fit

LEMMA ToldIsMatched == /\ RowsMatchDescription <=> Matched(delivered)
                       /\ RowsFit <=> AllFit(delivered)
BY DEF RowsMatchDescription, Matched, RowsFit, AllFit

LEMMA FitBoth ==
  ASSUME NEW a \in Seq(MessageType), NEW b \in Seq(MessageType), AllFit(a), AllFit(b)
  PROVE  AllFit(a \o b)
<1>1. /\ DOMAIN a = 1 .. Len(a) /\ DOMAIN b = 1 .. Len(b)
      /\ Len(a) \in Nat /\ Len(b) \in Nat
      /\ DOMAIN (a \o b) = 1 .. Len(a) + Len(b)
  BY LenProperties, ConcatProperties
<1>2. SUFFICES ASSUME NEW i \in DOMAIN (a \o b) PROVE (a \o b)[i].fit
  BY DEF AllFit
<1>3. CASE i <= Len(a)
  <2>1. i \in DOMAIN a /\ (a \o b)[i] = a[i]
    BY <1>1, <1>3, ConcatProperties
  <2> QED BY <2>1 DEF AllFit
<1>4. CASE i > Len(a)
  <2>1. i - Len(a) \in DOMAIN b /\ (a \o b)[i] = b[i - Len(a)]
    BY <1>1, <1>4, ConcatProperties
  <2> QED BY <2>1 DEF AllFit
<1> QED BY <1>1, <1>3, <1>4

LEMMA QuietTailMatched ==
  ASSUME NEW a \in Seq(MessageType), NEW b \in Seq(MessageType),
         Matched(a), WithoutRows(b)
  PROVE  Matched(a \o b)
<1>1. /\ DOMAIN a = 1 .. Len(a) /\ DOMAIN b = 1 .. Len(b)
      /\ Len(a) \in Nat /\ Len(b) \in Nat
      /\ DOMAIN (a \o b) = 1 .. Len(a) + Len(b)
  BY LenProperties, ConcatProperties
<1>2. ASSUME NEW i \in DOMAIN (a \o b), (a \o b)[i].type = "D"
      PROVE  /\ i > 1 /\ (a \o b)[i - 1].type \in {"T", "D"}
             /\ (a \o b)[i - 1].q = (a \o b)[i].q /\ (a \o b)[i - 1].s = (a \o b)[i].s
  <2>1. i <= Len(a)
    <3>1. CASE i > Len(a)
      <4>1. i - Len(a) \in DOMAIN b /\ (a \o b)[i] = b[i - Len(a)]
        BY <1>1, <3>1, ConcatProperties
      <4> QED BY <1>2, <4>1 DEF WithoutRows, IsRow
    <3> QED BY <1>1, <3>1
  <2>2. i \in DOMAIN a /\ (a \o b)[i] = a[i]
    BY <1>1, <2>1, ConcatProperties
  <2>3. i > 1
    BY <1>2, <2>2 DEF Matched
  <2>4. (a \o b)[i - 1] = a[i - 1]
    BY <1>1, <2>1, <2>2, <2>3, ConcatProperties
  <2> QED BY <1>2, <2>2, <2>3, <2>4 DEF Matched
<1> QED BY <1>2 DEF Matched

LEMMA ResultMatched ==
  ASSUME NEW a \in Seq(MessageType), NEW d \in MessageType,
         NEW b \in Seq(MessageType),
         Matched(a), d.type = "T",
         \A i \in DOMAIN b : b[i].type = "D" /\ b[i].q = d.q /\ b[i].s = d.s
  PROVE  Matched(a \o <<d>> \o b)
<1> DEFINE c == a \o <<d>>
<1>1. /\ DOMAIN a = 1 .. Len(a) /\ DOMAIN b = 1 .. Len(b)
      /\ Len(a) \in Nat /\ Len(b) \in Nat
  BY LenProperties
<1>2. /\ c \in Seq(MessageType) /\ c = Append(a, d)
      /\ Len(c) = Len(a) + 1 /\ c[Len(a) + 1] = d
  BY <1>1, AppendIsConcat, AppendProperties
<1>3. Matched(c)
  <2>1. <<d>> \in Seq(MessageType) /\ WithoutRows(<<d>>)
    BY DEF WithoutRows, IsRow
  <2> QED BY <2>1, QuietTailMatched
<1> HIDE DEF c
<1>4. DOMAIN (c \o b) = 1 .. Len(c) + Len(b) /\ DOMAIN c = 1 .. Len(c)
  BY <1>2, LenProperties, ConcatProperties
<1>5. ASSUME NEW i \in DOMAIN (c \o b), (c \o b)[i].type = "D"
      PROVE  /\ i > 1 /\ (c \o b)[i - 1].type \in {"T", "D"}
             /\ (c \o b)[i - 1].q = (c \o b)[i].q /\ (c \o b)[i - 1].s = (c \o b)[i].s
  <2>1. CASE i <= Len(c)
    <3>1. i \in DOMAIN c /\ (c \o b)[i] = c[i]
      BY <1>1, <1>2, <1>4, <2>1, ConcatProperties
    <3>2. i > 1
      BY <1>3, <1>5, <3>1 DEF Matched
    <3>3. (c \o b)[i - 1] = c[i - 1]
      BY <1>1, <1>2, <1>4, <2>1, <3>2, ConcatProperties
    <3> QED BY <1>3, <1>5, <3>1, <3>2, <3>3 DEF Matched
  <2>2. CASE i = Len(c) + 1
    <3>1. (c \o b)[i - 1] = d /\ 1 \in DOMAIN b /\ (c \o b)[i] = b[1]
      BY <1>1, <1>2, <1>4, <2>2, ConcatProperties
    <3> QED BY <1>1, <1>2, <2>2, <3>1
  <2>3. CASE i > Len(c) + 1
    <3>1. /\ i - 1 - Len(c) \in DOMAIN b /\ i - Len(c) \in DOMAIN b
          /\ (c \o b)[i - 1] = b[i - 1 - Len(c)] /\ (c \o b)[i] = b[i - Len(c)]
      BY <1>1, <1>2, <1>4, <2>3, ConcatProperties
    <3> QED BY <1>1, <1>2, <2>3, <3>1
  <2> QED BY <1>1, <1>2, <1>4, <2>1, <2>2, <2>3
<1> QED BY <1>5 DEF Matched, c

(* One message passed on, or none.                                          *)
LEMMA PassedOnIsRight ==
  ASSUME TypeOK, RowsFit, RowsMatchDescription,
         NEW b \in Seq(MessageType), WithoutRows(b), AllFit(b),
         delivered' = delivered \o b
  PROVE  RowsFit' /\ RowsMatchDescription'
<1>1. /\ delivered \in Seq(MessageType) /\ Matched(delivered) /\ AllFit(delivered)
  BY ToldIsMatched DEF TypeOK, ClientTypes
<1>2. Matched(delivered') /\ AllFit(delivered')
  BY <1>1, QuietTailMatched, FitBoth
<1> QED BY <1>2 DEF RowsMatchDescription, Matched, RowsFit, AllFit

(* The query at the server is the only one.                                 *)
LEMMA OneAtServer ==
  ASSUME OneAtATime, server.phase # "idle"
  PROVE  /\ read <= Len(delivered) /\ Len(log) = ready + 1
         /\ toServer = <<>> /\ UnreadReady = {} /\ server.q = Len(log)
BY DEF OneAtATime

LEMMA StillNothingToRead ==
  ASSUME TypeOK, TypeOK', UnreadReady = {}, read' = read, SameReady(delivered, delivered')
  PROVE  UnreadReady' = {}
<1>1. /\ delivered \in Seq(MessageType) /\ delivered' \in Seq(MessageType)
      /\ read \in Nat /\ Len(delivered) \in Nat /\ Len(delivered') \in Nat
      /\ DOMAIN delivered = 1 .. Len(delivered)
      /\ DOMAIN delivered' = 1 .. Len(delivered')
  BY LenProperties DEF TypeOK, ClientTypes
<1>2. ASSUME NEW i \in UnreadReady' PROVE i \in UnreadReady
  <2>1. i \in read + 1 .. Len(delivered') /\ delivered'[i].type = "Z"
    BY <1>2 DEF UnreadReady
  <2>2. i \in DOMAIN delivered /\ delivered'[i] = delivered[i]
    BY <1>1, <2>1 DEF SameReady
  <2> QED BY <1>1, <2>1, <2>2 DEF UnreadReady
<1> QED BY <1>2

-----------------------------------------------------------------------------
(* WaitingHeld is inductive: one lemma for each action.                     *)

LEMMA WaitingTypes ==
  ASSUME TypeOK
  PROVE  /\ log \in Seq(Queries) /\ Len(log) \in Nat
         /\ ready \in Nat /\ read \in Nat
         /\ delivered \in Seq(MessageType) /\ Len(delivered) \in Nat
         /\ retentRows \in Seq(MessageType) /\ Len(retentRows) \in Nat
         /\ retentRowDescription \in MessageType
         /\ server \in ServerType
BY QueryNumbers, LenProperties DEF TypeOK, ClientTypes, BackendTypes, RetainedTypes

(* The client sends only when nothing is under way.                         *)
LEMMA ClientMaySend ==
  ASSUME ClientWaits, TypeOK, OneAtATime, NEW kind \in Queries, ClientQuery(kind)
  PROVE  /\ ready = Len(log) /\ toServer = <<>> /\ server.phase = "idle"
         /\ UnreadReady = {} /\ read <= Len(delivered)
<1>1. Len(log) \in Nat /\ ready \in Nat
  BY WaitingTypes
<1>2. Len(log) - ready < 1
  BY DEF ClientQuery, ClientWaits
<1> QED BY <1>1, <1>2 DEF OneAtATime

LEMMA ClientQueryWaiting ==
  ASSUME ClientWaits, TypeOK, TypeOK', WaitingHeld,
         NEW kind \in Queries, ClientQuery(kind)
  PROVE  WaitingHeld'
<1> DEFINE q == Len(log) + 1
<1>1. /\ ready = Len(log) /\ toServer = <<>> /\ server.phase = "idle"
      /\ UnreadReady = {} /\ read <= Len(delivered)
  BY ClientMaySend DEF WaitingHeld
<1>2. /\ log' = Append(log, kind)
      /\ UNCHANGED <<read, ready, server, tx, serial, kept>>
  BY DEF ClientQuery
<1>3. /\ log \in Seq(Queries) /\ Len(log) \in Nat /\ Len(log') = q
      /\ log'[q] = kind /\ q \in Nat
      /\ delivered \in Seq(MessageType) /\ Len(delivered) \in Nat /\ read \in Nat
  BY <1>2, WaitingTypes, AppendProperties
<1>4. ProcessQuery(kind, q)
  BY DEF ClientQuery, ClientWaits, ProcessQueryPanics, ProcessParse
<1>5. q = Len(log) + 1
  OBVIOUS
<1> HIDE DEF q
<1>6. /\ errorState' = 0 /\ dataRowConfig'.whole /\ NoAssertFails' /\ NoCrash'
      /\ retentRows' = <<>> /\ retentRowDescription' = retentRowDescription
  BY <1>4 DEF ProcessQuery, MutateQuery, Assert, WaitingHeld, NoAssertFails, NoCrash
<1>7. OneResultRetained'
  BY <1>6, BoundsAssumption DEF OneResultRetained
<1>8. CASE Forwarded(kind)
  <2>1. /\ toServer' = Append(toServer, q) /\ delivered' = delivered
    BY <1>4, <1>8 DEF ProcessQuery
  <2>2. toServer' = <<q>>
    BY <1>1, <2>1
  <2>3. UnreadReady' = {}
    BY <1>1, <1>2, <2>1 DEF UnreadReady
  <2>4. OneAtATime'
    BY <1>1, <1>2, <1>3, <1>5, <2>1, <2>2, <2>3 DEF OneAtATime
  <2>5. kind.verdict = "rewritten" =>
          seen' = [join |-> q, encryption |-> q] /\ joinIndices' = {}
    BY <1>4 DEF ProcessQuery, MutateQuery
  <2>6. OwnColumns'
    <3>1. Len(log') = q /\ log'[Len(log')] = kind /\ server'.phase = "idle"
      BY <1>1, <1>2, <1>3
    <3>2. Forwarded(log'[Len(log')])
      BY <1>8, <3>1
    <3> QED BY <2>5, <3>1, <3>2 DEF OwnColumns
  <2>7. OwnResult'
    BY <1>1, <1>2, <1>6 DEF WaitingHeld, OwnResult
  <2>8. RowsFit' /\ RowsMatchDescription'
    BY <2>1 DEF WaitingHeld, RowsFit, RowsMatchDescription
  <2> QED BY <1>6, <1>7, <2>4, <2>6, <2>7, <2>8 DEF WaitingHeld
<1>9. CASE ~Forwarded(kind)
  <2> DEFINE e == ErrorResponse(q, 0)
             z == ReadyForQuery(q, "I")
  <2>1. /\ toServer' = toServer /\ delivered' = delivered \o <<e, z>>
    BY <1>4, <1>9 DEF ProcessQuery, ErrorAnswer
  <2>2. /\ e \in MessageType /\ z \in MessageType
        /\ e.type = "E" /\ z.type = "Z" /\ e.fit /\ z.fit
    BY <1>3, MessagesAreTyped DEF ErrorResponse, ReadyForQuery, Message, Statuses
  <2> HIDE DEF e, z
  <2>3. /\ <<e, z>> \in Seq(MessageType) /\ Len(<<e, z>>) = 2
        /\ WithoutRows(<<e, z>>) /\ AllFit(<<e, z>>)
    BY <2>2 DEF WithoutRows, IsRow, AllFit
  <2>4. RowsFit' /\ RowsMatchDescription'
    BY <2>1, <2>3, PassedOnIsRight DEF WaitingHeld
  <2>5. /\ Len(delivered') = Len(delivered) + 2
        /\ \A i \in 1 .. Len(delivered) : delivered'[i] = delivered[i]
        /\ delivered'[Len(delivered) + 1] = e /\ delivered'[Len(delivered) + 2] = z
    BY <1>3, <2>1, <2>3, ConcatProperties
  <2>6. UnreadReady' = {Len(delivered) + 2}
    <3>1. ASSUME NEW i \in UnreadReady' PROVE i = Len(delivered) + 2
      <4>1. /\ i \in read + 1 .. Len(delivered) + 2 /\ delivered'[i].type = "Z"
        BY <1>2, <2>5 DEF UnreadReady
      <4>2. i # Len(delivered) + 1
        BY <2>2, <2>5, <4>1
      <4>3. ~(i <= Len(delivered))
        <5>1. ASSUME i <= Len(delivered) PROVE FALSE
          <6>1. delivered[i].type = "Z" /\ i \in read + 1 .. Len(delivered)
            BY <1>3, <2>5, <4>1, <5>1
          <6> QED BY <1>1, <6>1 DEF UnreadReady
        <5> QED BY <5>1
      <4> QED BY <1>3, <4>1, <4>2, <4>3
    <3>2. Len(delivered) + 2 \in UnreadReady'
      BY <1>1, <1>2, <1>3, <2>2, <2>5 DEF UnreadReady
    <3> QED BY <3>1, <3>2
  <2>7. \E i \in UnreadReady' : UnreadReady' = {i}
    BY <2>6
  <2>8. /\ read' <= Len(delivered')
        /\ Len(log') = ready' + 1 /\ toServer' = <<>> /\ server'.phase = "idle"
    BY <1>1, <1>2, <1>3, <1>5, <2>1, <2>5
  <2>9. OneAtATime'
    BY <2>7, <2>8 DEF OneAtATime
  <2>10. OwnColumns' /\ OwnResult'
    BY <1>6, <2>8 DEF WaitingHeld, OwnColumns, OwnResult
  <2> QED BY <1>6, <1>7, <2>4, <2>9, <2>10 DEF WaitingHeld
<1> QED BY <1>8, <1>9

LEMMA ClientReadsWaiting ==
  ASSUME TypeOK, WaitingHeld, ClientReads
  PROVE  WaitingHeld'
<1>1. PICK i \in read + 1 .. Len(delivered) :
        /\ delivered[i].type = "Z"
        /\ \A j \in read + 1 .. i - 1 : delivered[j].type # "Z"
        /\ read' = i
  BY DEF ClientReads
<1>2. /\ UNCHANGED <<log, delivered, toServer, server, errorState, retentRows,
                    retentRowDescription, seen, joinIndices, dataRowConfig,
                    failedAsserts, crashed>>
  BY DEF ClientReads, backend, retained, metadata
<1>3. /\ Len(log) \in Nat /\ ready \in Nat /\ read \in Nat /\ Len(delivered) \in Nat
  BY WaitingTypes
<1>4. i \in UnreadReady
  BY <1>1 DEF UnreadReady
<1>5. /\ Len(log) = ready + 1 /\ toServer = <<>> /\ server.phase = "idle"
      /\ UnreadReady = {i}
  BY <1>4 DEF WaitingHeld, OneAtATime
<1>6. ready' = Len(log)
  BY <1>3, <1>5 DEF ClientReads
<1>7. UnreadReady' = {}
  <2>1. ASSUME NEW j \in UnreadReady' PROVE FALSE
    <3>1. j \in i + 1 .. Len(delivered) /\ delivered[j].type = "Z"
      BY <1>1, <1>2, <2>1 DEF UnreadReady
    <3>2. j \in UnreadReady /\ j # i
      BY <1>1, <1>3, <3>1 DEF UnreadReady
    <3> QED BY <1>5, <3>2
  <2> QED BY <2>1
<1>8. OneAtATime'
  BY <1>1, <1>2, <1>3, <1>5, <1>6, <1>7 DEF OneAtATime
<1>9. OwnColumns' /\ OwnResult'
  BY <1>2, <1>5 DEF WaitingHeld, OwnColumns, OwnResult
<1>10. OneResultRetained' /\ RowsFit' /\ RowsMatchDescription'
  BY <1>2 DEF WaitingHeld, OneResultRetained, RowsFit, RowsMatchDescription
<1> QED BY <1>2, <1>8, <1>9, <1>10 DEF WaitingHeld, NoAssertFails, NoCrash

LEMMA ServerBeginsWaiting ==
  ASSUME ClientWaits, TypeOK, WaitingHeld, ServerBegins
  PROVE  WaitingHeld'
<1>1. /\ UNCHANGED <<log, read, ready, delivered, errorState, retentRows,
                    retentRowDescription, seen, joinIndices, dataRowConfig,
                    failedAsserts, crashed>>
  BY DEF ServerBegins, client, retained, metadata
<1>2. /\ Len(log) \in Nat /\ ready \in Nat /\ log \in Seq(Queries)
  BY WaitingTypes
<1>3. /\ Len(log) = ready + 1 /\ toServer = <<Len(log)>> /\ UnreadReady = {}
      /\ read <= Len(delivered) /\ server.phase = "idle"
  BY DEF ServerBegins, WaitingHeld, OneAtATime
<1>4. Head(toServer) = Len(log) /\ Tail(toServer) = <<>>
  BY <1>3
<1>5. /\ toServer' = <<>> /\ server' = [phase |-> FirstPhase(Len(log)), q |-> Len(log),
                                       s |-> 1, rows |-> 0]
  BY <1>4 DEF ServerBegins
<1>6. log[Len(log)] \in Queries
  BY <1>2, <1>3, LenProperties
<1>7. log[Len(log)].body \in Seq(Statements) /\ Len(log[Len(log)].body) <= 1
  BY <1>6, QueriesAssumption DEF QueryType, ClientWaits
<1>8. /\ server'.phase \in {"start", "empty"}
      /\ server'.phase = "start" => Len(log[Len(log)].body) = 1
  <2> DEFINE body == log[Len(log)].body
  <2>1. body \in Seq(Statements) /\ Len(body) <= 1
    BY <1>7
  <2>2. server'.phase = IF body = <<>> THEN "empty" ELSE "start"
    BY <1>5 DEF FirstPhase
  <2> HIDE DEF body
  <2>3. body # <<>> => Len(body) = 1
    <3>1. Len(body) \in Nat
      BY <2>1, LenProperties
    <3>2. body # <<>> => Len(body) # 0
      BY <2>1, EmptySeq
    <3> DEFINE n == Len(body)
    <3>3. n \in Nat /\ n <= 1 /\ (body # <<>> => n # 0)
      BY <2>1, <3>1, <3>2
    <3> HIDE DEF n
    <3>4. n # 0 => n = 1
      BY <3>3
    <3> QED BY <3>3, <3>4 DEF n
  <2>4. /\ server'.phase \in {"start", "empty"}
        /\ server'.phase = "start" => Len(body) = 1
    BY <2>2, <2>3
  <2> QED BY <2>4 DEF body
<1>9. UnreadReady' = {}
  BY <1>1, <1>3 DEF UnreadReady
<1>10. OneAtATime'
  BY <1>1, <1>3, <1>5, <1>8, <1>9 DEF OneAtATime
<1>11. OwnColumns'
  <2>1. /\ Forwarded(log[Len(log)])
        /\ log[Len(log)].verdict = "rewritten" =>
             joinIndices = {} /\ seen = [join |-> Len(log), encryption |-> Len(log)]
    BY <1>3 DEF WaitingHeld, OwnColumns
  <2>2. log' = log /\ joinIndices' = joinIndices /\ seen' = seen
    BY <1>1
  <2> QED BY <1>8, <2>1, <2>2 DEF OwnColumns
<1>12. OwnResult'
  <2>1. retentRows = <<>>
    BY <1>3 DEF WaitingHeld, OwnResult
  <2> QED BY <1>1, <1>5, <1>8, <2>1 DEF WaitingHeld, OwnResult, Body
<1>13. OneResultRetained' /\ RowsFit' /\ RowsMatchDescription'
  BY <1>1 DEF WaitingHeld, OneResultRetained, RowsFit, RowsMatchDescription
<1> QED BY <1>1, <1>10, <1>11, <1>12, <1>13 DEF WaitingHeld, NoAssertFails, NoCrash

(* The steps of the server inside a query leave the client waiting for it.  *)
LEMMA StillAtServer ==
  ASSUME TypeOK, TypeOK', OneAtATime, server.phase # "idle",
         server'.phase # "idle", server'.q = server.q,
         UNCHANGED <<read, ready, log, toServer>>,
         SameReady(delivered, delivered'), Len(delivered) <= Len(delivered')
  PROVE  OneAtATime'
<1>1. /\ read <= Len(delivered) /\ Len(log) = ready + 1
      /\ toServer = <<>> /\ UnreadReady = {} /\ server.q = Len(log)
  BY OneAtServer
<1>2. UnreadReady' = {}
  BY <1>1, StillNothingToRead
<1>3. /\ read \in Nat /\ Len(delivered) \in Nat /\ Len(delivered') \in Nat
  BY LenProperties DEF TypeOK, ClientTypes
<1>4. read' <= Len(delivered')
  BY <1>1, <1>3
<1> QED BY <1>1, <1>2, <1>4 DEF OneAtATime

LEMMA RowDescriptionWaiting ==
  ASSUME ClientWaits, TypeOK, TypeOK', WaitingHeld, ProcessRowDescription
  PROVE  WaitingHeld'
<1>1. DescriptionRetained
  BY DEF ProcessRowDescription, DescriptionAmbiguous, DescriptionLacksJoinColumn,
         ClientWaits
<1>2. /\ server.phase = "start" /\ server'.phase = "rows"
      /\ server'.q = server.q /\ server'.s = server.s /\ server'.rows = server.rows
      /\ server.rows \in Nat
  BY WaitingTypes DEF ProcessRowDescription, ServerType
<1>3. /\ UNCHANGED <<log, read, ready, delivered, toServer, retentRows, crashed>>
  BY DEF ProcessRowDescription, client
<1>4. OneAtATime'
  <2>1. SameReady(delivered, delivered') /\ Len(delivered) <= Len(delivered')
    BY <1>3, WaitingTypes DEF SameReady
  <2> QED BY <1>2, <1>3, <2>1, StillAtServer DEF WaitingHeld
<1>5. toServer = <<>> /\ server.q = Len(log)
  BY <1>2, OneAtServer DEF WaitingHeld
<1>6. /\ log[Len(log)].verdict = "rewritten" /\ joinIndices = {}
      /\ seen = [join |-> Len(log), encryption |-> Len(log)]
  <2>1. /\ Forwarded(log[Len(log)])
        /\ log[Len(log)].verdict = "rewritten" =>
             joinIndices = {} /\ seen = [join |-> Len(log), encryption |-> Len(log)]
    BY <1>2 DEF WaitingHeld, OwnColumns
  <2>2. server.s \in DOMAIN Body /\ Body[server.s] = "select"
    <3>1. server.s = 1 /\ Len(Body) = 1
      BY <1>2 DEF WaitingHeld, OwnResult
    <3> QED BY <3>1 DEF ProcessRowDescription, Statement
  <2>3. log[Len(log)] \in Queries
    <3>1. log \in Seq(Queries) /\ Len(log) \in Nat /\ ready \in Nat
      BY WaitingTypes
    <3>2. Len(log) = ready + 1
      BY <1>2, OneAtServer DEF WaitingHeld
    <3> QED BY <3>1, <3>2, LenProperties
  <2>4. ~PassedUnparsed(log[Len(log)])
    BY <1>5, <2>2, <2>3 DEF ClientWaits, Body
  <2> QED BY <2>1, <2>4 DEF Forwarded
<1>7. /\ seen' = seen /\ dataRowConfig' = [of |-> server.q, whole |-> TRUE]
      /\ joinIndices' \subseteq {<<server.q, server.q, server.s>>}
      /\ retentRowDescription' = RowDescription(server.q, server.s)
      /\ errorState' = 0
  BY <1>1, <1>5, <1>6 DEF DescriptionRetained
<1>8. OwnColumns'
  <2>1. Forwarded(log[Len(log)])
    BY <1>6 DEF Forwarded
  <2>2. Statement' = Statement /\ Statement = "select"
    BY <1>2, <1>3 DEF ProcessRowDescription, Statement, Body
  <2>3. log' = log /\ server'.q = server.q /\ server'.s = server.s
    BY <1>2, <1>3
  <2> QED BY <1>2, <1>5, <1>6, <1>7, <2>1, <2>2, <2>3 DEF OwnColumns
<1>9. OwnResult'
  <2>1. /\ retentRows = <<>> /\ server.s = 1 /\ Len(Body) = 1
    BY <1>2 DEF WaitingHeld, OwnResult
  <2>2. Body' = Body
    BY <1>2, <1>3 DEF Body
  <2>3. Len(retentRows') = 0 /\ DOMAIN retentRows' = {}
    BY <1>3, <2>1
  <2>4. RowDescription(server.q, server.s).type = "T" /\ RowDescription(server.q, server.s).fit
    BY DEF RowDescription, Message
  <2> QED BY <1>2, <1>3, <1>5, <1>7, <2>1, <2>2, <2>3, <2>4 DEF OwnResult
<1>10. OneResultRetained' /\ RowsFit' /\ RowsMatchDescription'
  BY <1>3 DEF WaitingHeld, OneResultRetained, RowsFit, RowsMatchDescription
<1>11. NoAssertFails' /\ NoCrash'
  BY <1>3 DEF ProcessRowDescription, Assert, WaitingHeld, NoAssertFails, NoCrash
<1> QED BY <1>4, <1>7, <1>8, <1>9, <1>10, <1>11 DEF WaitingHeld

LEMMA DataRowWaiting ==
  ASSUME ClientWaits, TypeOK, TypeOK', WaitingHeld, ProcessDataRow
  PROVE  WaitingHeld'
<1> DEFINE row == DataRow(server.q, server.s, serial + 1, Fit)
<1>1. /\ server.phase = "rows" /\ server'.phase = "rows"
      /\ server'.q = server.q /\ server'.s = server.s /\ server'.rows = server.rows + 1
      /\ server.rows \in Nat /\ server.rows < MaxRows
  BY WaitingTypes, BoundsAssumption DEF ProcessDataRow, ServerType
<1>2. /\ UNCHANGED <<log, read, ready, delivered, toServer, retentRowDescription,
                    seen, joinIndices, dataRowConfig>>
  BY DEF ProcessDataRow, client, metadata
<1>3. OneAtATime'
  <2>1. SameReady(delivered, delivered') /\ Len(delivered) <= Len(delivered')
    BY <1>2, WaitingTypes DEF SameReady
  <2> QED BY <1>1, <1>2, <2>1, StillAtServer DEF WaitingHeld
<1>4. toServer = <<>> /\ server.q = Len(log)
  BY <1>1, OneAtServer DEF WaitingHeld
<1>5. /\ dataRowConfig.whole /\ dataRowConfig.of = server.q /\ errorState = 0
      /\ joinIndices \subseteq {<<server.q, server.q, server.s>>}
  BY <1>1 DEF WaitingHeld, OwnColumns
<1>6. Fit
  BY <1>5 DEF Fit
<1>7. ~RowOutOfBounds
  BY <1>5 DEF RowOutOfBounds
<1>8. /\ errorState' = 0 /\ crashed' = crashed
      /\ retentRows' = retentRows \/ retentRows' = Append(retentRows, row)
  BY <1>5, <1>7 DEF ProcessDataRow, RowDiscarded, RowRetained, RowNotDecrypted,
                    RowFailsJoin, ClientWaits
<1>9. OwnColumns'
  <2>1. Statement' = Statement
    BY <1>1, <1>2 DEF Statement, Body
  <2> QED BY <1>1, <1>2, <1>4, <2>1 DEF WaitingHeld, OwnColumns
<1>10. /\ row \in MessageType /\ row.type = "D" /\ row.fit
       /\ row.q = server.q /\ row.s = server.s
  <2>1. server.q \in Nat /\ server.s \in Nat /\ serial + 1 \in Nat
    BY <1>1, ServerAtQuery DEF TypeOK, BackendTypes
  <2>2. row \in MessageType
    BY <1>6, <2>1, MessagesAreTyped
  <2> QED BY <1>6, <2>2 DEF DataRow, Message
<1> HIDE DEF row
<1>11. /\ retentRows \in Seq(MessageType) /\ Len(retentRows) \in Nat
       /\ Len(retentRows) <= server.rows
       /\ server.s = 1 /\ Len(Body) = 1
       /\ retentRowDescription = RowDescription(server.q, server.s)
  BY <1>1, WaitingTypes DEF WaitingHeld, OwnResult
<1>12. \A i \in DOMAIN retentRows :
         /\ retentRows[i].type = "D" /\ retentRows[i].fit
         /\ retentRows[i].q = server.q /\ retentRows[i].s = server.s
  BY <1>1 DEF WaitingHeld, OwnResult
<1>13. /\ Len(retentRows') <= server.rows + 1
       /\ \A i \in DOMAIN retentRows' :
            /\ retentRows'[i].type = "D" /\ retentRows'[i].fit
            /\ retentRows'[i].q = server.q /\ retentRows'[i].s = server.s
  <2>1. CASE retentRows' = retentRows
    BY <1>1, <1>11, <1>12, <2>1
  <2>2. CASE retentRows' = Append(retentRows, row)
    <3>1. Len(retentRows') = Len(retentRows) + 1
      BY <1>10, <1>11, <2>2, AppendProperties
    <3>2. ASSUME NEW i \in DOMAIN retentRows'
          PROVE  \/ i \in DOMAIN retentRows /\ retentRows'[i] = retentRows[i]
                 \/ retentRows'[i] = row
      BY <1>10, <1>11, <2>2, OneReadyAdded
    <3>3. Len(retentRows') <= server.rows + 1
      BY <1>1, <1>11, <3>1
    <3> QED BY <1>10, <1>12, <3>2, <3>3
  <2> QED BY <1>8, <2>1, <2>2
<1>14. OwnResult'
  <2>1. Body' = Body
    BY <1>1, <1>2 DEF Body
  <2> QED BY <1>1, <1>2, <1>4, <1>11, <1>13, <2>1 DEF WaitingHeld, OwnResult
<1>15. OneResultRetained'
  <2>1. Len(retentRows') <= MaxRows
    <3>1. Len(retentRows') \in Nat
      BY LenProperties DEF TypeOK, RetainedTypes
    <3> QED BY <1>1, <1>13, <3>1, BoundsAssumption
  <2> QED BY <1>13, <2>1 DEF OneResultRetained
<1>16. RowsFit' /\ RowsMatchDescription'
  BY <1>2 DEF WaitingHeld, RowsFit, RowsMatchDescription
<1>17. NoAssertFails' /\ NoCrash'
  BY <1>5, <1>8 DEF ProcessDataRow, Assert, WaitingHeld, NoAssertFails, NoCrash
<1> QED BY <1>2, <1>3, <1>5, <1>8, <1>9, <1>14, <1>15, <1>16, <1>17 DEF WaitingHeld

(* A query whose statement is over: the columns and the result are history. *)
LEMMA QueryOver ==
  ASSUME TypeOK, TypeOK', WaitingHeld, server.phase # "idle",
         server'.phase = "done", server'.q = server.q,
         UNCHANGED <<read, ready, log, toServer, metadata>>,
         SameReady(delivered, delivered'), Len(delivered) <= Len(delivered'),
         retentRowDescription' \in {retentRowDescription, Null}
  PROVE  OneAtATime' /\ OwnColumns' /\ OwnResult'
<1>1. OneAtATime'
  BY StillAtServer DEF WaitingHeld
<1>2. toServer = <<>> /\ server.q = Len(log)
  BY OneAtServer DEF WaitingHeld
<1>3. /\ seen' = seen /\ joinIndices' = joinIndices /\ dataRowConfig' = dataRowConfig
  BY DEF metadata
<1>4. OwnColumns'
  BY <1>2, <1>3 DEF WaitingHeld, OwnColumns
<1>5. OwnResult'
  BY <1>2 DEF WaitingHeld, OwnResult
<1> QED BY <1>1, <1>4, <1>5

LEMMA ResultIsTold ==
  ASSUME TypeOK, WaitingHeld, Completes, ResultEmitted
  PROVE  /\ RowsFit' /\ RowsMatchDescription'
         /\ SameReady(delivered, delivered') /\ Len(delivered) <= Len(delivered')
<1> DEFINE last == CommandComplete(server.q, server.s)
           described == delivered \o RetainedDescription
<1>1. /\ delivered \in Seq(MessageType) /\ retentRows \in Seq(MessageType)
      /\ retentRowDescription \in MessageType
      /\ Matched(delivered) /\ AllFit(delivered)
  BY WaitingTypes, ToldIsMatched DEF WaitingHeld
<1>2. last \in MessageType /\ last.type = "C" /\ last.fit
  <2>1. server.q \in Nat /\ server.s \in Nat
    BY ServerAtQuery DEF TypeOK, Completes
  <2> QED BY <2>1, MessagesAreTyped DEF CommandComplete, Message
<1>3. delivered' = (described \o retentRows) \o <<last>>
  BY DEF ResultEmitted
<1> HIDE DEF last
<1>4. /\ described \in Seq(MessageType) /\ SameReady(delivered, described)
      /\ Matched(described) /\ AllFit(described)
  <2>1. CASE retentRowDescription = Null
    <3>1. described = delivered
      BY <1>1, <2>1, ConcatEmptySeq DEF RetainedDescription
    <3> QED BY <1>1, <3>1 DEF SameReady
  <2>2. CASE retentRowDescription # Null
    <3> DEFINE d == retentRowDescription
    <3>1. d \in MessageType /\ d.type = "T" /\ d.fit
      BY <1>1, <2>2 DEF WaitingHeld, OwnResult
    <3>2. described = delivered \o <<d>>
      BY <2>2 DEF RetainedDescription
    <3> HIDE DEF d
    <3>3. <<d>> \in Seq(MessageType) /\ WithoutRows(<<d>>) /\ AllFit(<<d>>)
      BY <3>1 DEF WithoutRows, IsRow, AllFit
    <3> QED BY <1>1, <3>1, <3>2, <3>3, OneMessageAdded, QuietTailMatched, FitBoth
  <2> QED BY <2>1, <2>2
<1>5. WithoutReady(retentRows) /\ AllFit(retentRows) /\ Matched(described \o retentRows)
  <2>1. CASE server.phase = "rows"
    <3> DEFINE d == retentRowDescription
    <3>1. /\ d = RowDescription(server.q, server.s)
          /\ \A i \in DOMAIN retentRows : /\ retentRows[i].type = "D" /\ retentRows[i].fit
                                         /\ retentRows[i].q = server.q
                                         /\ retentRows[i].s = server.s
      BY <2>1 DEF WaitingHeld, OwnResult
    <3>2. d \in MessageType /\ d.type = "T" /\ d.q = server.q /\ d.s = server.s /\ d # Null
      BY <1>1, <3>1 DEF RowDescription, Message, Null
    <3>3. described = delivered \o <<d>>
      BY <3>2 DEF RetainedDescription
    <3> HIDE DEF d
    <3>4. Matched(delivered \o <<d>> \o retentRows)
      BY <1>1, <3>1, <3>2, ResultMatched
    <3> QED BY <3>1, <3>3, <3>4 DEF WithoutReady, AllFit
  <2>2. CASE server.phase = "start"
    <3>1. retentRows = <<>>
      BY <2>2 DEF WaitingHeld, OwnResult
    <3>2. described \o retentRows = described
      BY <1>4, <3>1, ConcatEmptySeq
    <3> QED BY <1>4, <3>1, <3>2 DEF WithoutReady, AllFit
  <2> QED BY <2>1, <2>2 DEF Completes
<1> DEFINE result == described \o retentRows
<1>6. /\ result \in Seq(MessageType) /\ SameReady(described, result)
      /\ Matched(result) /\ AllFit(result)
      /\ Len(result) = Len(described) + Len(retentRows)
  <2> HIDE DEF described
  <2> QED BY <1>1, <1>4, <1>5, NoReadyAdded, FitBoth, ConcatProperties
<1>7. <<last>> \in Seq(MessageType) /\ WithoutRows(<<last>>) /\ AllFit(<<last>>)
  BY <1>2 DEF WithoutRows, IsRow, AllFit
<1>8. Len(described) = Len(delivered) + Len(RetainedDescription)
      /\ Len(RetainedDescription) \in Nat
  <2>1. RetainedDescription \in Seq(MessageType)
    BY <1>1, EmptySeq DEF RetainedDescription
  <2> QED BY <1>1, <2>1, ConcatProperties, LenProperties
<1> HIDE DEF described, result
<1>9. /\ Matched(result \o <<last>>) /\ AllFit(result \o <<last>>)
      /\ SameReady(result, result \o <<last>>)
      /\ Len(result \o <<last>>) = Len(result) + 1
  <2>1. Matched(result \o <<last>>) /\ AllFit(result \o <<last>>)
    BY <1>6, <1>7, QuietTailMatched, FitBoth
  <2>2. SameReady(result, result \o <<last>>)
    BY <1>2, <1>6, OneMessageAdded
  <2>3. Len(<<last>>) = 1
    OBVIOUS
  <2>4. Len(result \o <<last>>) = Len(result) + 1
    BY <1>6, <1>7, <2>3, ConcatProperties
  <2> QED BY <2>1, <2>2, <2>4
<1>10. delivered' = result \o <<last>>
  BY <1>3 DEF result
<1>11. RowsFit' /\ RowsMatchDescription'
  BY <1>9, <1>10 DEF RowsFit, AllFit, RowsMatchDescription, Matched
<1>12. SameReady(delivered, delivered')
  BY <1>4, <1>6, <1>9, <1>10, SameReadyTwice
<1>13. Len(delivered) <= Len(delivered')
  <2>1. Len(delivered) \in Nat /\ Len(retentRows) \in Nat
    BY WaitingTypes
  <2> QED BY <1>6, <1>8, <1>9, <1>10, <2>1
<1> QED BY <1>11, <1>12, <1>13

LEMMA CommandCompleteWaiting ==
  ASSUME ClientWaits, TypeOK, TypeOK', WaitingHeld, ProcessCommandComplete
  PROVE  WaitingHeld'
<1>1. /\ server.phase \in {"rows", "start"} /\ Completes
      /\ UNCHANGED <<log, read, ready, toServer, metadata>>
  BY DEF ProcessCommandComplete, Completes, client
<1>2. server'.q = server.q /\ server'.phase = "done"
  <2>1. server.s = 1 /\ Len(Body) = 1
    BY <1>1 DEF WaitingHeld, OwnResult
  <2> QED BY <2>1, WaitingTypes DEF ProcessCommandComplete, StatementDone, ServerType
<1>3. ResultEmitted
  <2>1. \A i \in DOMAIN retentRows : retentRows[i] # Null
    <3>1. CASE server.phase = "rows"
      <4>1. \A i \in DOMAIN retentRows : retentRows[i].type = "D"
        BY <3>1 DEF WaitingHeld, OwnResult
      <4> QED BY <4>1 DEF Null, Message
    <3>2. CASE server.phase = "start"
      BY <3>2 DEF WaitingHeld, OwnResult
    <3> QED BY <1>1, <3>1, <3>2
  <2>2. errorState = 0
    BY DEF WaitingHeld
  <2> QED BY <2>1, <2>2 DEF ProcessCommandComplete, EmptiedRowEmitted, ErrorEmitted
<1>4. /\ RowsFit' /\ RowsMatchDescription'
      /\ SameReady(delivered, delivered') /\ Len(delivered) <= Len(delivered')
  BY <1>1, <1>3, ResultIsTold
<1>5. OneAtATime' /\ OwnColumns' /\ OwnResult'
  BY <1>1, <1>2, <1>3, <1>4, QueryOver DEF ResultEmitted
<1>6. OneResultRetained'
  <2>1. /\ \A i \in DOMAIN retentRows' : retentRows'[i] = Null
        /\ retentRows' = [i \in DOMAIN retentRows |-> Null]
    BY <1>3 DEF ResultEmitted
  <2>2. /\ DOMAIN retentRows = 1 .. Len(retentRows) /\ DOMAIN retentRows' = 1 .. Len(retentRows')
        /\ DOMAIN retentRows' = DOMAIN retentRows
        /\ Len(retentRows) \in Nat /\ Len(retentRows') \in Nat
    BY <2>1, LenProperties DEF TypeOK, RetainedTypes
  <2>3. Len(retentRows') = Len(retentRows)
    <3> DEFINE a == Len(retentRows)
               b == Len(retentRows')
    <3>1. a \in Nat /\ b \in Nat /\ 1 .. a = 1 .. b
      BY <2>2
    <3> HIDE DEF a, b
    <3>2. ~(a < b)
      <4>1. ASSUME a < b PROVE FALSE
        <5>1. b \in 1 .. b /\ b \notin 1 .. a
          BY <3>1, <4>1
        <5> QED BY <3>1, <5>1
      <4> QED BY <4>1
    <3>3. ~(b < a)
      <4>1. ASSUME b < a PROVE FALSE
        <5>1. a \in 1 .. a /\ a \notin 1 .. b
          BY <3>1, <4>1
        <5> QED BY <3>1, <5>1
      <4> QED BY <4>1
    <3> QED BY <3>1, <3>2, <3>3 DEF a, b
  <2>4. Len(retentRows) <= MaxRows
    BY DEF WaitingHeld, OneResultRetained
  <2> QED BY <2>1, <2>3, <2>4 DEF OneResultRetained
<1>7. /\ errorState' = 0 /\ dataRowConfig'.whole /\ NoAssertFails' /\ NoCrash'
  BY <1>1, <1>3 DEF ResultEmitted, WaitingHeld, NoAssertFails, NoCrash, metadata
<1> QED BY <1>4, <1>5, <1>6, <1>7 DEF WaitingHeld

(* The messages of the server that are passed on one by one.                *)
LEMMA MessagePassedOn ==
  ASSUME TypeOK, WaitingHeld, NEW m \in MessageType, m.type \notin {"D"}, m.fit,
         delivered' = Append(delivered, m)
  PROVE  /\ RowsFit' /\ RowsMatchDescription'
         /\ m.type # "Z" => SameReady(delivered, delivered')
         /\ Len(delivered') = Len(delivered) + 1
<1>1. delivered \in Seq(MessageType)
  BY WaitingTypes
<1>2. delivered' = delivered \o <<m>> /\ <<m>> \in Seq(MessageType)
  BY <1>1, AppendIsConcat
<1>3. WithoutRows(<<m>>) /\ AllFit(<<m>>)
  BY DEF WithoutRows, IsRow, AllFit
<1>4. RowsFit' /\ RowsMatchDescription'
  BY <1>2, <1>3, PassedOnIsRight DEF WaitingHeld
<1>5. m.type # "Z" => SameReady(delivered, delivered')
  BY <1>1, OneMessageAdded
<1>6. Len(delivered') = Len(delivered) + 1
  BY <1>1, AppendProperties
<1> QED BY <1>4, <1>5, <1>6

LEMMA ErrorResponseWaiting ==
  ASSUME TypeOK, TypeOK', WaitingHeld, ProcessErrorResponse
  PROVE  WaitingHeld'
<1> DEFINE m == ErrorResponse(server.q, server.s)
<1>1. /\ server.phase # "idle" /\ server'.phase = "done" /\ server'.q = server.q
      /\ UNCHANGED <<log, read, ready, toServer, metadata, errorState, retentRows,
                     retentRowDescription, crashed>>
  BY WaitingTypes DEF ProcessErrorResponse, Fails, client, retained, ServerType
<1>2. m \in MessageType /\ m.type = "E" /\ m.fit
  <2>1. server.q \in Nat /\ server.s \in Nat
    BY <1>1, ServerAtQuery DEF TypeOK
  <2> QED BY <2>1, MessagesAreTyped DEF ErrorResponse, Message
<1>3. delivered' = Append(delivered, m)
  BY DEF ProcessErrorResponse
<1> HIDE DEF m
<1>4. /\ RowsFit' /\ RowsMatchDescription' /\ SameReady(delivered, delivered')
      /\ Len(delivered') = Len(delivered) + 1
  BY <1>2, <1>3, MessagePassedOn
<1>5. Len(delivered) <= Len(delivered')
  BY <1>4, WaitingTypes
<1>6. OneAtATime' /\ OwnColumns' /\ OwnResult'
  BY <1>1, <1>4, <1>5, QueryOver
<1>7. NoAssertFails'
  BY DEF ProcessErrorResponse, Assert, WaitingHeld, NoAssertFails
<1> QED BY <1>1, <1>4, <1>6, <1>7
        DEF WaitingHeld, OneResultRetained, NoCrash, metadata

LEMMA EmptyQueryResponseWaiting ==
  ASSUME TypeOK, TypeOK', WaitingHeld, ProcessEmptyQueryResponse
  PROVE  WaitingHeld'
<1> DEFINE m == EmptyQueryResponse(server.q)
<1>1. /\ server.phase # "idle" /\ server'.phase = "done" /\ server'.q = server.q
      /\ UNCHANGED <<log, read, ready, toServer, metadata, errorState, retentRows,
                     retentRowDescription, crashed>>
  BY WaitingTypes DEF ProcessEmptyQueryResponse, client, retained, ServerType
<1>2. m \in MessageType /\ m.type = "I" /\ m.fit
  <2>1. server.q \in Nat
    BY <1>1, ServerAtQuery DEF TypeOK
  <2> QED BY <2>1, MessagesAreTyped DEF EmptyQueryResponse, Message
<1>3. delivered' = Append(delivered, m)
  BY DEF ProcessEmptyQueryResponse
<1> HIDE DEF m
<1>4. /\ RowsFit' /\ RowsMatchDescription' /\ SameReady(delivered, delivered')
      /\ Len(delivered') = Len(delivered) + 1
  BY <1>2, <1>3, MessagePassedOn
<1>5. Len(delivered) <= Len(delivered')
  BY <1>4, WaitingTypes
<1>6. OneAtATime' /\ OwnColumns' /\ OwnResult'
  BY <1>1, <1>4, <1>5, QueryOver
<1>7. NoAssertFails'
  BY DEF ProcessEmptyQueryResponse, Assert, WaitingHeld, NoAssertFails
<1> QED BY <1>1, <1>4, <1>6, <1>7
        DEF WaitingHeld, OneResultRetained, NoCrash, metadata

LEMMA ReadyForQueryWaiting ==
  ASSUME TypeOK, TypeOK', WaitingHeld, PassReadyForQuery
  PROVE  WaitingHeld'
<1> DEFINE m == ReadyForQuery(server.q, tx)
<1>1. /\ server.phase # "idle" /\ server'.phase = "idle"
      /\ UNCHANGED <<log, read, ready, toServer, seen, joinIndices, dataRowConfig,
                     errorState, retentRows, retentRowDescription, failedAsserts,
                     crashed>>
  BY DEF PassReadyForQuery, client, retained, metadata, Idle
<1>2. m \in MessageType /\ m.type = "Z" /\ m.fit
  <2>1. server.q \in Nat /\ tx \in Statuses
    BY <1>1, ServerAtQuery DEF TypeOK, BackendTypes, Statuses
  <2> QED BY <2>1, MessagesAreTyped DEF ReadyForQuery, Message
<1>3. delivered' = Append(delivered, m)
  BY DEF PassReadyForQuery
<1> HIDE DEF m
<1>4. /\ RowsFit' /\ RowsMatchDescription' /\ Len(delivered') = Len(delivered) + 1
  BY <1>2, <1>3, MessagePassedOn
<1>5. /\ read <= Len(delivered) /\ Len(log) = ready + 1
      /\ toServer = <<>> /\ UnreadReady = {}
  BY <1>1, OneAtServer DEF WaitingHeld
<1>6. /\ delivered \in Seq(MessageType) /\ Len(delivered) \in Nat /\ read \in Nat
  BY WaitingTypes
<1>7. /\ \A i \in 1 .. Len(delivered) : delivered'[i] = delivered[i]
      /\ delivered'[Len(delivered) + 1] = m
  BY <1>2, <1>3, <1>6, AppendProperties
<1>8. UnreadReady' = {Len(delivered) + 1}
  <2>1. ASSUME NEW i \in UnreadReady' PROVE i = Len(delivered) + 1
    <3>1. i \in read + 1 .. Len(delivered) + 1 /\ delivered'[i].type = "Z"
      BY <1>1, <1>4, <2>1 DEF UnreadReady
    <3>2. ~(i <= Len(delivered))
      <4>1. ASSUME i <= Len(delivered) PROVE FALSE
        <5>1. delivered[i].type = "Z" /\ i \in read + 1 .. Len(delivered)
          BY <1>6, <1>7, <3>1, <4>1
        <5> QED BY <1>5, <5>1 DEF UnreadReady
      <4> QED BY <4>1
    <3> QED BY <1>6, <3>1, <3>2
  <2>2. Len(delivered) + 1 \in UnreadReady'
    BY <1>1, <1>2, <1>4, <1>5, <1>6, <1>7 DEF UnreadReady
  <2> QED BY <2>1, <2>2
<1>9. \E i \in UnreadReady' : UnreadReady' = {i}
  BY <1>8
<1>10. read' <= Len(delivered')
  BY <1>1, <1>4, <1>5, <1>6
<1>11. OneAtATime'
  BY <1>1, <1>5, <1>9, <1>10 DEF OneAtATime
<1>12. OwnColumns' /\ OwnResult'
  BY <1>1, <1>5 DEF WaitingHeld, OwnColumns, OwnResult
<1> QED BY <1>1, <1>4, <1>11, <1>12
        DEF WaitingHeld, OneResultRetained, NoAssertFails, NoCrash

LEMMA NextWaiting ==
  ASSUME ClientWaits, TypeOK, TypeOK', WaitingHeld, [Next]_vars
  PROVE  WaitingHeld'
<1>1. CASE \E kind \in Queries : ClientQuery(kind)
  BY <1>1, ClientQueryWaiting
<1>2. CASE ClientReads
  BY <1>2, ClientReadsWaiting
<1>3. CASE ServerNext
  BY <1>3, ServerBeginsWaiting, RowDescriptionWaiting, DataRowWaiting,
     CommandCompleteWaiting, ErrorResponseWaiting, EmptyQueryResponseWaiting,
     ReadyForQueryWaiting DEF ServerNext
<1>4. CASE UNCHANGED vars
  <2>1. UNCHANGED <<log, read, ready, delivered, toServer, server, errorState,
                    retentRowDescription, retentRows, seen, joinIndices,
                    dataRowConfig, failedAsserts, crashed>>
    BY <1>4 DEF vars, client, backend, retained, metadata
  <2> QED BY <2>1 DEF WaitingHeld, OneAtATime, UnreadReady, OwnColumns, OwnResult,
                      Body, Statement, OneResultRetained, NoAssertFails, NoCrash,
                      RowsFit, RowsMatchDescription
<1> QED BY <1>1, <1>2, <1>3, <1>4 DEF Next

(* What a waiting client rests on: its query is in one place, its columns   *)
(* are remembered while the server has it, and what is retained is its own. *)
THEOREM WaitingIsHeld ==
  ASSUME ClientWaits
  PROVE  Spec => []WaitingHeld
<1>1. Init => WaitingHeld
  <2> SUFFICES ASSUME Init PROVE WaitingHeld
    OBVIOUS
  <2>1. OneAtATime /\ OwnColumns /\ OwnResult
    BY EmptySeq DEF Init, OneAtATime, UnreadReady, OwnColumns, OwnResult, Idle
  <2>2. OneResultRetained /\ RowsFit /\ RowsMatchDescription
    BY BoundsAssumption DEF Init, OneResultRetained, RowsFit, RowsMatchDescription
  <2> QED BY <2>1, <2>2 DEF Init, WaitingHeld, NoAssertFails, NoCrash
<1>2. TypeOK /\ TypeOK' /\ WaitingHeld /\ [Next]_vars => WaitingHeld'
  BY NextWaiting
<1> QED BY <1>1, <1>2, TypeCorrect, PTL DEF Spec

(* Then no handler of the manager touches an emptied pointer, reads outside *)
(* a vector or reaches a PANIC, ...                                         *)
THEOREM WaitingClientsDoNotCrash ==
  ASSUME ClientWaits
  PROVE  Spec => []NoCrash
<1>1. WaitingHeld => NoCrash
  BY DEF WaitingHeld
<1> QED BY <1>1, WaitingIsHeld, PTL

(* ... no ASSERT of theirs fails, ...                                       *)
THEOREM HandlersAssertNothingWrong ==
  ASSUME ClientWaits
  PROVE  Spec => []NoAssertFails
<1>1. WaitingHeld => NoAssertFails
  BY DEF WaitingHeld
<1> QED BY <1>1, WaitingIsHeld, PTL

(* ... every row comes behind the description of its own statement, ...     *)
THEOREM RowsDoMatchDescriptions ==
  ASSUME ClientWaits
  PROVE  Spec => []RowsMatchDescription
<1>1. WaitingHeld => RowsMatchDescription
  BY DEF WaitingHeld
<1> QED BY <1>1, WaitingIsHeld, PTL

(* ... decoded with the columns and filtered with the indices of its own    *)
(* result, ...                                                              *)
THEOREM RowsDoFit ==
  ASSUME ClientWaits
  PROVE  Spec => []RowsFit
<1>1. WaitingHeld => RowsFit
  BY DEF WaitingHeld
<1> QED BY <1>1, WaitingIsHeld, PTL

(* ... and the connection never retains more than one result.               *)
THEOREM RetainedIsOneResult ==
  ASSUME ClientWaits
  PROVE  Spec => []OneResultRetained
<1>1. WaitingHeld => OneResultRetained
  BY DEF WaitingHeld
<1> QED BY <1>1, WaitingIsHeld, PTL

-----------------------------------------------------------------------------
(* The rows of a client that waits are not lost on the way to it.           *)

(* What delivered becomes: longer, with the same completions or one more.   *)
WithoutCompletion(seq) == \A i \in DOMAIN seq : seq[i].type # "C"

SameCompletions(a, b) ==
  \A i \in DOMAIN b : b[i].type = "C" => i \in DOMAIN a /\ b[i] = a[i]

Begins(a, b) == \A i \in DOMAIN a : i \in DOMAIN b /\ b[i] = a[i]

LEMMA NoCompletionAdded ==
  ASSUME NEW a \in Seq(MessageType), NEW b \in Seq(MessageType), WithoutCompletion(b)
  PROVE  SameCompletions(a, a \o b) /\ Begins(a, a \o b) /\ a \o b \in Seq(MessageType)
<1>1. /\ DOMAIN a = 1 .. Len(a) /\ DOMAIN b = 1 .. Len(b)
      /\ Len(a) \in Nat /\ Len(b) \in Nat
      /\ DOMAIN (a \o b) = 1 .. Len(a) + Len(b)
      /\ a \o b \in Seq(MessageType)
  BY LenProperties, ConcatProperties
<1>2. ASSUME NEW i \in DOMAIN (a \o b), (a \o b)[i].type = "C"
      PROVE  i \in DOMAIN a /\ (a \o b)[i] = a[i]
  <2>1. i <= Len(a)
    <3>1. CASE i > Len(a)
      <4>1. i - Len(a) \in DOMAIN b /\ (a \o b)[i] = b[i - Len(a)]
        BY <1>1, <3>1, ConcatProperties
      <4> QED BY <1>2, <4>1 DEF WithoutCompletion
    <3> QED BY <1>1, <3>1
  <2> QED BY <1>1, <2>1, ConcatProperties
<1>3. ASSUME NEW i \in DOMAIN a PROVE i \in DOMAIN (a \o b) /\ (a \o b)[i] = a[i]
  BY <1>1, ConcatProperties
<1> QED BY <1>1, <1>2, <1>3 DEF SameCompletions, Begins

LEMMA OneBegins ==
  ASSUME NEW a \in Seq(MessageType), NEW m \in MessageType
  PROVE  /\ Begins(a, Append(a, m)) /\ Append(a, m) \in Seq(MessageType)
         /\ m.type # "C" => SameCompletions(a, Append(a, m))
<1>1. Append(a, m) = a \o <<m>> /\ <<m>> \in Seq(MessageType)
  BY AppendIsConcat
<1>2. m.type # "C" => WithoutCompletion(<<m>>)
  BY DEF WithoutCompletion
<1>3. m.type # "C" => SameCompletions(a, Append(a, m))
  BY <1>1, <1>2, NoCompletionAdded
<1>4. Begins(a, Append(a, m))
  <2>1. /\ DOMAIN a = 1 .. Len(a) /\ Len(a) \in Nat
        /\ Append(a, m) \in Seq(MessageType) /\ Len(Append(a, m)) = Len(a) + 1
        /\ \A j \in 1 .. Len(a) : Append(a, m)[j] = a[j]
    BY AppendProperties, LenProperties
  <2>2. DOMAIN Append(a, m) = 1 .. Len(a) + 1
    BY <2>1, LenProperties
  <2> QED BY <2>1, <2>2 DEF Begins
<1> QED BY <1>1, <1>3, <1>4, AppendProperties

LEMMA BeginsTwice ==
  ASSUME NEW a, NEW b, NEW c, SameCompletions(a, b), SameCompletions(b, c),
         Begins(a, b), Begins(b, c)
  PROVE  SameCompletions(a, c) /\ Begins(a, c)
BY DEF SameCompletions, Begins

(* A step that completes no statement and keeps no row.                     *)
LEMMA NothingCompleted ==
  ASSUME TypeOK, TypeOK', KeptHeld, kept' = kept,
         SameCompletions(delivered, delivered'), Begins(delivered, delivered')
  PROVE  CompletedResultsAreWhole'
<1>1. /\ DOMAIN delivered = 1 .. Len(delivered) /\ Len(delivered) \in Nat
      /\ DOMAIN delivered' = 1 .. Len(delivered') /\ Len(delivered') \in Nat
  BY LenProperties DEF TypeOK, ClientTypes
<1>2. ASSUME NEW i \in DOMAIN delivered', delivered'[i].type = "C",
             NEW r \in DOMAIN kept,
             kept[r].q = delivered'[i].q, kept[r].s = delivered'[i].s
      PROVE  \E j \in 1 .. i - 1 : delivered'[j] = kept[r]
  <2>1. i \in DOMAIN delivered /\ delivered'[i] = delivered[i]
    BY <1>2 DEF SameCompletions
  <2>2. PICK j \in 1 .. i - 1 : delivered[j] = kept[r]
    BY <1>2, <2>1 DEF KeptHeld, CompletedResultsAreWhole
  <2>3. j \in DOMAIN delivered
    BY <1>1, <2>1
  <2> QED BY <2>2, <2>3 DEF Begins
<1> QED BY <1>2 DEF CompletedResultsAreWhole

LEMMA NothingKept ==
  ASSUME TypeOK, TypeOK', KeptHeld, UNCHANGED <<kept, log>>,
         SameCompletions(delivered, delivered'), Begins(delivered, delivered'),
         NotBegun' => NotBegun,
         server'.phase = "rows" =>
           /\ server.phase = "rows" \/ NotBegun
           /\ server'.q = server.q /\ server.q = Len(log)
           /\ retentRows' = retentRows
  PROVE  KeptHeld'
<1>1. CompletedResultsAreWhole'
  BY NothingCompleted
<1>2. /\ \A r \in DOMAIN kept' : kept'[r].q <= Len(log')
      /\ \A i \in DOMAIN delivered' :
           delivered'[i].type = "C" => delivered'[i].q <= Len(log')
  BY DEF KeptHeld, SameCompletions
<1>3. NotBegun' => \A r \in DOMAIN kept' : kept'[r].q # Len(log')
  BY DEF KeptHeld
<1>4. NotBegun' \/ server'.phase = "rows" =>
        \A i \in DOMAIN delivered' :
          delivered'[i].type = "C" => delivered'[i].q # Len(log')
  BY DEF KeptHeld, SameCompletions
<1>5. ASSUME server'.phase = "rows", NEW r \in DOMAIN kept', kept'[r].q = server'.q
      PROVE  \E j \in DOMAIN retentRows' : retentRows'[j] = kept'[r]
  <2>1. ~NotBegun
    BY <1>5 DEF KeptHeld
  <2> QED BY <1>5, <2>1 DEF KeptHeld
<1> QED BY <1>1, <1>2, <1>3, <1>4, <1>5 DEF KeptHeld

LEMMA KeptNumbers ==
  ASSUME TypeOK
  PROVE  /\ Len(log) \in Nat /\ kept \in Seq(MessageType)
         /\ \A r \in DOMAIN kept : kept[r].q \in Nat
         /\ \A i \in DOMAIN delivered : delivered[i].q \in Nat
<1>1. kept \in Seq(MessageType)
  BY DEF TypeOK, RetainedTypes
<1>2. \A r \in DOMAIN kept : kept[r] \in MessageType
  BY <1>1, LenProperties
<1> QED BY <1>1, <1>2, NamesAreNumbers DEF MessageType

LEMMA ClientQueryKept ==
  ASSUME ClientWaits, TypeOK, TypeOK', WaitingHeld, KeptHeld,
         NEW kind \in Queries, ClientQuery(kind)
  PROVE  KeptHeld'
<1> DEFINE q == Len(log) + 1
<1>1. /\ server.phase = "idle" /\ server' = server /\ kept' = kept
  BY ClientMaySend DEF ClientQuery, WaitingHeld
<1>2. /\ Len(log) \in Nat /\ Len(log') = q /\ q \in Nat
      /\ delivered \in Seq(MessageType)
  BY WaitingTypes, AppendProperties DEF ClientQuery
<1>3. ProcessQuery(kind, q)
  BY DEF ClientQuery, ClientWaits, ProcessQueryPanics, ProcessParse
<1>4. q > Len(log)
  BY <1>2
<1> HIDE DEF q
<1>5. SameCompletions(delivered, delivered') /\ Begins(delivered, delivered')
  <2>1. CASE delivered' = delivered
    BY <2>1 DEF SameCompletions, Begins
  <2>2. CASE delivered' = delivered \o ErrorAnswer(q)
    <3>1. ErrorAnswer(q) \in Seq(MessageType)
      BY <1>2, ErrorAnswerIsTyped
    <3>2. WithoutCompletion(ErrorAnswer(q))
      BY DEF WithoutCompletion, ErrorAnswer, ErrorResponse, ReadyForQuery, Message
    <3> QED BY <1>2, <2>2, <3>1, <3>2, NoCompletionAdded
  <2> QED BY <1>3, <2>1, <2>2 DEF ProcessQuery
<1>6. CompletedResultsAreWhole'
  BY <1>1, <1>5, NothingCompleted
<1>7. /\ \A r \in DOMAIN kept' : kept'[r].q <= q /\ kept'[r].q # q
      /\ \A i \in DOMAIN delivered' :
           delivered'[i].type = "C" => delivered'[i].q <= q /\ delivered'[i].q # q
  BY <1>1, <1>2, <1>4, <1>5, KeptNumbers DEF KeptHeld, SameCompletions
<1> QED BY <1>1, <1>2, <1>6, <1>7 DEF KeptHeld

LEMMA DataRowKept ==
  ASSUME ClientWaits, TypeOK, TypeOK', WaitingHeld, KeptHeld, ProcessDataRow
  PROVE  KeptHeld'
<1> DEFINE row == DataRow(server.q, server.s, serial + 1, Fit)
<1>1. /\ server.phase = "rows" /\ server'.phase = "rows" /\ server'.q = server.q
      /\ UNCHANGED <<log, delivered, toServer>>
  BY WaitingTypes DEF ProcessDataRow, ServerType, client
<1>2. toServer = <<>> /\ server.q = Len(log)
  BY <1>1, OneAtServer DEF WaitingHeld
<1>3. ~NotBegun'
  BY <1>1, <1>2 DEF NotBegun
<1>4. /\ dataRowConfig.whole /\ errorState = 0
      /\ joinIndices \subseteq {<<server.q, server.q, server.s>>}
  BY <1>1 DEF WaitingHeld, OwnColumns
<1>5. \/ retentRows' = retentRows /\ kept' = kept
      \/ retentRows' = Append(retentRows, row) /\ kept' = Append(kept, row)
  BY <1>4 DEF ProcessDataRow, RowDiscarded, RowRetained, RowNotDecrypted, RowFailsJoin,
              RowOutOfBounds, ClientWaits
<1>6. SameCompletions(delivered, delivered') /\ Begins(delivered, delivered')
  BY <1>1 DEF SameCompletions, Begins
<1>7. CASE retentRows' = retentRows /\ kept' = kept
  BY <1>1, <1>2, <1>3, <1>6, <1>7, NothingKept
<1>8. CASE retentRows' = Append(retentRows, row) /\ kept' = Append(kept, row)
  <2>1. row \in MessageType /\ row.q = server.q
    <3>1. Fit \in BOOLEAN /\ server.q \in Nat /\ server.s \in Nat /\ serial + 1 \in Nat
      BY <1>1, ServerAtQuery DEF Fit, TypeOK, BackendTypes
    <3>2. row \in MessageType
      BY <3>1, MessagesAreTyped
    <3> QED BY <3>2 DEF DataRow, Message
  <2> HIDE DEF row
  <2>2. /\ kept \in Seq(MessageType) /\ retentRows \in Seq(MessageType)
        /\ Len(log) \in Nat
    BY KeptNumbers, WaitingTypes
  <2>3. ASSUME NEW r \in DOMAIN kept'
        PROVE  (r \in DOMAIN kept /\ kept'[r] = kept[r]) \/ kept'[r] = row
    BY <1>8, <2>1, <2>2, OneReadyAdded
  <2>4. /\ Begins(retentRows, retentRows')
        /\ \E j \in DOMAIN retentRows' : retentRows'[j] = row
    <3>1. Begins(retentRows, retentRows')
      BY <1>8, <2>1, <2>2, OneBegins
    <3>2. /\ Len(retentRows) + 1 \in DOMAIN retentRows'
          /\ retentRows'[Len(retentRows) + 1] = row
      BY <1>8, <2>1, <2>2, AppendProperties, LenProperties
    <3> QED BY <3>1, <3>2
  <2>5. \A r \in DOMAIN kept' : kept'[r].q <= Len(log')
    BY <1>1, <1>2, <2>1, <2>2, <2>3 DEF KeptHeld
  <2>6. \A r \in DOMAIN kept' : kept'[r].q = server'.q =>
          \E j \in DOMAIN retentRows' : retentRows'[j] = kept'[r]
    BY <1>1, <2>1, <2>3, <2>4 DEF KeptHeld, Begins
  <2>7. \A i \in DOMAIN delivered : delivered[i].type = "C" => delivered[i].q # Len(log)
    BY <1>1 DEF KeptHeld
  <2>8. ASSUME NEW i \in DOMAIN delivered', delivered'[i].type = "C",
               NEW r \in DOMAIN kept',
               kept'[r].q = delivered'[i].q, kept'[r].s = delivered'[i].s
        PROVE  \E j \in 1 .. i - 1 : delivered'[j] = kept'[r]
    <3>1. r \in DOMAIN kept /\ kept'[r] = kept[r]
      BY <1>1, <1>2, <2>1, <2>3, <2>7, <2>8
    <3> QED BY <1>1, <2>8, <3>1 DEF KeptHeld, CompletedResultsAreWhole
  <2>9. CompletedResultsAreWhole'
    BY <2>8 DEF CompletedResultsAreWhole
  <2>10. \A i \in DOMAIN delivered' :
           delivered'[i].type = "C" => delivered'[i].q <= Len(log') /\ delivered'[i].q # Len(log')
    BY <1>1, <2>7 DEF KeptHeld
  <2> QED BY <1>3, <2>5, <2>6, <2>9, <2>10 DEF KeptHeld
<1> QED BY <1>5, <1>7, <1>8

(* A completed result: its rows come before its completion.                 *)
LEMMA ResultIsWhole ==
  ASSUME TypeOK, TypeOK', WaitingHeld, KeptHeld, Completes, ResultEmitted, kept' = kept
  PROVE  /\ CompletedResultsAreWhole'
         /\ \A i \in DOMAIN delivered' : delivered'[i].type = "C" =>
              \/ i \in DOMAIN delivered /\ delivered'[i] = delivered[i]
              \/ delivered'[i].q = server.q
<1> DEFINE last == CommandComplete(server.q, server.s)
           described == delivered \o RetainedDescription
           result == described \o retentRows
<1>1. /\ delivered \in Seq(MessageType) /\ retentRows \in Seq(MessageType)
      /\ retentRowDescription \in MessageType
  BY WaitingTypes
<1>2. last \in MessageType /\ last.type = "C" /\ last.q = server.q
  <2>1. server.q \in Nat /\ server.s \in Nat
    BY ServerAtQuery DEF TypeOK, Completes
  <2> QED BY <2>1, MessagesAreTyped DEF CommandComplete, Message
<1>3. delivered' = result \o <<last>>
  BY DEF ResultEmitted
<1>4. server.q = Len(log)
  BY OneAtServer DEF WaitingHeld, Completes
<1> HIDE DEF last
<1>5. /\ described \in Seq(MessageType)
      /\ SameCompletions(delivered, described) /\ Begins(delivered, described)
  <2>1. RetainedDescription \in Seq(MessageType) /\ WithoutCompletion(RetainedDescription)
    <3>1. CASE retentRowDescription = Null
      BY <3>1, EmptySeq DEF RetainedDescription, WithoutCompletion
    <3>2. CASE retentRowDescription # Null
      <4>1. retentRowDescription.type = "T"
        BY <3>2 DEF WaitingHeld, OwnResult
      <4> QED BY <1>1, <3>2, <4>1 DEF RetainedDescription, WithoutCompletion
    <3> QED BY <3>1, <3>2
  <2> QED BY <1>1, <2>1, NoCompletionAdded
<1> HIDE DEF described
<1>6. WithoutCompletion(retentRows)
  <2>1. CASE server.phase = "rows"
    BY <2>1 DEF WaitingHeld, OwnResult, WithoutCompletion
  <2>2. CASE server.phase = "start"
    BY <2>2 DEF WaitingHeld, OwnResult, WithoutCompletion
  <2> QED BY <2>1, <2>2 DEF Completes
<1>7. /\ result \in Seq(MessageType)
      /\ SameCompletions(delivered, result) /\ Begins(delivered, result)
  <2>1. /\ result \in Seq(MessageType)
        /\ SameCompletions(described, result) /\ Begins(described, result)
    BY <1>1, <1>5, <1>6, NoCompletionAdded
  <2> QED BY <1>5, <2>1, BeginsTwice
<1>8. \A k \in DOMAIN retentRows : \E j \in DOMAIN result : result[j] = retentRows[k]
  <2> TAKE k \in DOMAIN retentRows
  <2>1. /\ Len(described) \in Nat /\ Len(retentRows) \in Nat
        /\ k \in 1 .. Len(retentRows)
        /\ DOMAIN result = 1 .. Len(described) + Len(retentRows)
    BY <1>1, <1>5, <1>7, LenProperties, ConcatProperties
  <2>2. /\ Len(described) + k \in DOMAIN result
        /\ result[Len(described) + k] = retentRows[k]
    BY <1>1, <1>5, <2>1, ConcatProperties
  <2> QED BY <2>2
<1> HIDE DEF result
<1>9. /\ delivered' = Append(result, last) /\ Begins(result, delivered')
      /\ Len(result) \in Nat /\ DOMAIN result = 1 .. Len(result)
  BY <1>2, <1>3, <1>7, AppendIsConcat, OneBegins, LenProperties
<1>10. \A i \in DOMAIN delivered' :
         \/ i \in DOMAIN result /\ delivered'[i] = result[i]
         \/ i = Len(result) + 1 /\ delivered'[i] = last
  BY <1>2, <1>7, <1>9, OneReadyAdded
<1>11. \A i \in DOMAIN delivered' : delivered'[i].type = "C" =>
         \/ i \in DOMAIN delivered /\ delivered'[i] = delivered[i]
         \/ i = Len(result) + 1 /\ delivered'[i] = last
  BY <1>7, <1>10 DEF SameCompletions
<1>12. ASSUME NEW r \in DOMAIN kept, kept[r].q = server.q
       PROVE  \E k \in DOMAIN retentRows : retentRows[k] = kept[r]
  <2>1. ~NotBegun
    BY <1>4, <1>12 DEF KeptHeld
  <2>2. server.phase = "rows"
    BY <2>1 DEF NotBegun, Completes
  <2> QED BY <1>12, <2>2 DEF KeptHeld
<1>13. ASSUME NEW i \in DOMAIN delivered', delivered'[i].type = "C",
              NEW r \in DOMAIN kept,
              kept[r].q = delivered'[i].q, kept[r].s = delivered'[i].s
       PROVE  \E j \in 1 .. i - 1 : delivered'[j] = kept[r]
  <2>1. CASE i \in DOMAIN delivered /\ delivered'[i] = delivered[i]
    <3>1. PICK j \in 1 .. i - 1 : delivered[j] = kept[r]
      BY <1>13, <2>1 DEF KeptHeld, CompletedResultsAreWhole
    <3>2. j \in DOMAIN delivered
      <4>1. DOMAIN delivered = 1 .. Len(delivered) /\ Len(delivered) \in Nat
        BY <1>1, LenProperties
      <4> QED BY <2>1, <4>1
    <3>3. delivered'[j] = delivered[j]
      BY <1>7, <1>9, <3>2 DEF Begins
    <3> QED BY <3>1, <3>3
  <2>2. CASE i = Len(result) + 1 /\ delivered'[i] = last
    <3>1. kept[r].q = server.q
      BY <1>2, <1>13, <2>2
    <3>2. PICK k \in DOMAIN retentRows : retentRows[k] = kept[r]
      BY <1>12, <3>1
    <3>3. PICK j \in DOMAIN result : result[j] = kept[r]
      BY <1>8, <3>2
    <3>4. delivered'[j] = kept[r]
      BY <1>9, <3>3 DEF Begins
    <3>5. j \in 1 .. i - 1
      BY <1>9, <2>2, <3>3
    <3> QED BY <3>4, <3>5
  <2> QED BY <1>11, <1>13, <2>1, <2>2
<1>14. CompletedResultsAreWhole'
  BY <1>13 DEF CompletedResultsAreWhole
<1> QED BY <1>2, <1>11, <1>14

LEMMA CommandCompleteKept ==
  ASSUME ClientWaits, TypeOK, TypeOK', WaitingHeld, KeptHeld, ProcessCommandComplete
  PROVE  KeptHeld'
<1>1. /\ server.phase \in {"rows", "start"} /\ Completes
      /\ UNCHANGED <<log, toServer, kept>>
  BY DEF ProcessCommandComplete, Completes, client
<1>2. server'.phase = "done"
  <2>1. server.s = 1 /\ Len(Body) = 1
    BY <1>1 DEF WaitingHeld, OwnResult
  <2> QED BY <2>1, WaitingTypes DEF ProcessCommandComplete, StatementDone, ServerType
<1>3. toServer = <<>> /\ server.q = Len(log)
  BY <1>1, OneAtServer DEF WaitingHeld
<1>4. ~NotBegun'
  BY <1>1, <1>2, <1>3 DEF NotBegun
<1>5. ResultEmitted
  <2>1. \A i \in DOMAIN retentRows : retentRows[i] # Null
    <3>1. CASE server.phase = "rows"
      <4>1. \A i \in DOMAIN retentRows : retentRows[i].type = "D"
        BY <3>1 DEF WaitingHeld, OwnResult
      <4> QED BY <4>1 DEF Null, Message
    <3>2. CASE server.phase = "start"
      BY <3>2 DEF WaitingHeld, OwnResult
    <3> QED BY <1>1, <3>1, <3>2
  <2>2. errorState = 0
    BY DEF WaitingHeld
  <2> QED BY <2>1, <2>2 DEF ProcessCommandComplete, EmptiedRowEmitted, ErrorEmitted
<1>6. /\ CompletedResultsAreWhole'
      /\ \A i \in DOMAIN delivered' : delivered'[i].type = "C" =>
           \/ i \in DOMAIN delivered /\ delivered'[i] = delivered[i]
           \/ delivered'[i].q = server.q
  BY <1>1, <1>5, ResultIsWhole
<1>7. \A i \in DOMAIN delivered' :
        delivered'[i].type = "C" => delivered'[i].q <= Len(log')
  BY <1>1, <1>3, <1>6, KeptNumbers DEF KeptHeld
<1>8. \A r \in DOMAIN kept' : kept'[r].q <= Len(log')
  BY <1>1 DEF KeptHeld
<1> QED BY <1>2, <1>4, <1>6, <1>7, <1>8 DEF KeptHeld

LEMMA OtherStepsKept ==
  ASSUME ClientWaits, TypeOK, TypeOK', WaitingHeld, KeptHeld,
         \/ ServerBegins
         \/ ProcessRowDescription
         \/ ProcessErrorResponse
         \/ ProcessEmptyQueryResponse
         \/ PassReadyForQuery
         \/ ClientReads
         \/ UNCHANGED vars
  PROVE  KeptHeld'
<1>1. UNCHANGED <<kept, log>> /\ delivered \in Seq(MessageType)
  BY WaitingTypes
     DEF ServerBegins, ProcessRowDescription, ProcessErrorResponse,
         ProcessEmptyQueryResponse, PassReadyForQuery, ClientReads, vars, client
<1>2. \/ delivered' = delivered
      \/ \E m \in MessageType : m.type # "C" /\ delivered' = Append(delivered, m)
  <2>1. CASE ProcessErrorResponse
    <3>1. server.q \in Nat /\ server.s \in Nat
      BY <2>1, ServerAtQuery DEF ProcessErrorResponse, Fails, TypeOK
    <3>2. /\ ErrorResponse(server.q, server.s) \in MessageType
          /\ ErrorResponse(server.q, server.s).type # "C"
      BY <3>1, MessagesAreTyped DEF ErrorResponse, Message
    <3> QED BY <2>1, <3>2 DEF ProcessErrorResponse
  <2>2. CASE ProcessEmptyQueryResponse
    <3>1. server.q \in Nat
      BY <2>2, ServerAtQuery DEF ProcessEmptyQueryResponse, TypeOK
    <3>2. /\ EmptyQueryResponse(server.q) \in MessageType
          /\ EmptyQueryResponse(server.q).type # "C"
      BY <3>1, MessagesAreTyped DEF EmptyQueryResponse, Message
    <3> QED BY <2>2, <3>2 DEF ProcessEmptyQueryResponse
  <2>3. CASE PassReadyForQuery
    <3>1. server.q \in Nat /\ tx \in Statuses
      BY <2>3, ServerAtQuery DEF PassReadyForQuery, TypeOK, BackendTypes, Statuses
    <3>2. /\ ReadyForQuery(server.q, tx) \in MessageType
          /\ ReadyForQuery(server.q, tx).type # "C"
      BY <3>1, MessagesAreTyped DEF ReadyForQuery, Message
    <3> QED BY <2>3, <3>2 DEF PassReadyForQuery
  <2>4. CASE \/ ServerBegins \/ ProcessRowDescription \/ ClientReads \/ UNCHANGED vars
    BY <2>4 DEF ServerBegins, ProcessRowDescription, ClientReads, vars
  <2> QED BY <2>1, <2>2, <2>3, <2>4
<1>3. SameCompletions(delivered, delivered') /\ Begins(delivered, delivered')
  <2>1. CASE delivered' = delivered
    BY <2>1 DEF SameCompletions, Begins
  <2>2. CASE \E m \in MessageType : m.type # "C" /\ delivered' = Append(delivered, m)
    BY <1>1, <2>2, OneBegins
  <2> QED BY <1>2, <2>1, <2>2
<1>4. CASE ServerBegins
  <2>1. NotBegun /\ server'.phase # "rows"
    BY <1>4 DEF ServerBegins, NotBegun, FirstPhase
  <2> QED BY <1>1, <1>3, <2>1, NothingKept
<1>5. CASE ProcessRowDescription
  <2>1. /\ server.phase = "start" /\ server'.phase = "rows" /\ server'.q = server.q
        /\ retentRows' = retentRows /\ toServer' = toServer
    BY <1>5, WaitingTypes DEF ProcessRowDescription, ServerType
  <2>2. toServer = <<>> /\ server.q = Len(log)
    BY <2>1, OneAtServer DEF WaitingHeld
  <2> QED BY <1>1, <1>3, <2>1, <2>2, NothingKept DEF NotBegun
<1>6. CASE ProcessErrorResponse \/ ProcessEmptyQueryResponse \/ PassReadyForQuery
  <2>1. /\ server.phase # "idle" /\ server'.phase \in {"done", "idle"}
        /\ toServer' = toServer
    <3>1. CASE ProcessErrorResponse
      BY <3>1, WaitingTypes DEF ProcessErrorResponse, Fails, ServerType
    <3>2. CASE ProcessEmptyQueryResponse
      BY <3>2, WaitingTypes DEF ProcessEmptyQueryResponse, ServerType
    <3>3. CASE PassReadyForQuery
      BY <3>3 DEF PassReadyForQuery, Idle
    <3> QED BY <1>6, <3>1, <3>2, <3>3
  <2>2. toServer = <<>>
    BY <2>1, OneAtServer DEF WaitingHeld
  <2> QED BY <1>1, <1>3, <2>1, <2>2, NothingKept DEF NotBegun
<1>7. CASE ClientReads \/ UNCHANGED vars
  <2>1. UNCHANGED <<server, toServer, retentRows>>
    BY <1>7 DEF ClientReads, vars, backend, retained
  <2>2. server.phase = "rows" => server.q = Len(log)
    BY OneAtServer DEF WaitingHeld
  <2> QED BY <1>1, <1>3, <2>1, <2>2, NothingKept DEF NotBegun
<1> QED BY <1>4, <1>5, <1>6, <1>7

LEMMA NextKept ==
  ASSUME ClientWaits, TypeOK, TypeOK', WaitingHeld, KeptHeld, [Next]_vars
  PROVE  KeptHeld'
BY ClientQueryKept, DataRowKept, CommandCompleteKept, OtherStepsKept DEF Next, ServerNext

(* Between the mutators and the client no row is lost: what they let        *)
(* through waits in retent_rows_ until its statement is completed, ...      *)
THEOREM KeptIsHeld ==
  ASSUME ClientWaits
  PROVE  Spec => []KeptHeld
<1>1. Init => KeptHeld
  BY EmptySeq DEF Init, KeptHeld, CompletedResultsAreWhole, Idle
<1>2. TypeOK /\ TypeOK' /\ WaitingHeld /\ KeptHeld /\ [Next]_vars => KeptHeld'
  BY NextKept
<1> QED BY <1>1, <1>2, TypeCorrect, WaitingIsHeld, PTL DEF Spec

(* ... so every result that is completed is whole.                          *)
THEOREM ResultsAreWhole ==
  ASSUME ClientWaits
  PROVE  Spec => []CompletedResultsAreWhole
<1>1. KeptHeld => CompletedResultsAreWhole
  BY DEF KeptHeld
<1> QED BY <1>1, KeptIsHeld, PTL

-----------------------------------------------------------------------------
FailsEarly == FailPhases \subseteq {"start"}

(* Nothing is told of a query that was not sent.                            *)
Known(seq, k) == \A i \in DOMAIN seq : seq[i].q <= k

LEMMA KnownMessage ==
  ASSUME NEW a \in Seq(MessageType), NEW m \in MessageType, NEW k \in Nat,
         Known(a, k), m.q <= k
  PROVE  /\ Append(a, m) \in Seq(MessageType) /\ Append(a, m) # <<>>
         /\ Append(a, m)[Len(Append(a, m))] = m
         /\ Known(Append(a, m), k)
<1>1. Known(Append(a, m), k)
  BY OneReadyAdded DEF Known
<1> QED BY <1>1, AppendProperties

LEMMA KnownTail ==
  ASSUME NEW a \in Seq(MessageType), NEW b \in Seq(MessageType), NEW k \in Nat,
         Known(a, k), Known(b, k)
  PROVE  Known(a \o b, k) /\ a \o b \in Seq(MessageType)
<1>1. /\ DOMAIN a = 1 .. Len(a) /\ DOMAIN b = 1 .. Len(b)
      /\ Len(a) \in Nat /\ Len(b) \in Nat
      /\ DOMAIN (a \o b) = 1 .. Len(a) + Len(b)
      /\ a \o b \in Seq(MessageType)
  BY LenProperties, ConcatProperties
<1>2. ASSUME NEW i \in DOMAIN (a \o b) PROVE (a \o b)[i].q <= k
  <2>1. CASE i <= Len(a)
    <3>1. i \in DOMAIN a /\ (a \o b)[i] = a[i]
      BY <1>1, <2>1, ConcatProperties
    <3> QED BY <3>1 DEF Known
  <2>2. CASE i > Len(a)
    <3>1. i - Len(a) \in DOMAIN b /\ (a \o b)[i] = b[i - Len(a)]
      BY <1>1, <2>2, ConcatProperties
    <3> QED BY <3>1 DEF Known
  <2> QED BY <1>1, <2>1, <2>2
<1> QED BY <1>1, <1>2 DEF Known

LEMMA AllIsKnown == PromiseHeld => Known(delivered, Len(log))
BY DEF PromiseHeld, Known

LEMMA LastIsTyped ==
  ASSUME TypeOK, delivered # <<>>
  PROVE  Len(delivered) \in DOMAIN delivered /\ LastTold \in MessageType /\ LastTold.q \in Nat
<1>1. /\ delivered \in Seq(MessageType) /\ Len(delivered) \in Nat
      /\ DOMAIN delivered = 1 .. Len(delivered)
  BY WaitingTypes, LenProperties
<1>2. Len(delivered) # 0
  BY <1>1, EmptySeq
<1>3. Len(delivered) \in DOMAIN delivered
  BY <1>1, <1>2
<1> QED BY <1>1, <1>3, NamesAreNumbers DEF LastTold

(* A message about the query sent last ends what is told.                   *)
LEMMA AnswerEnds ==
  ASSUME TypeOK, log' = log, NEW a \in Seq(MessageType), Known(a, Len(log)),
         NEW m \in MessageType, m.q = Len(log), delivered' = Append(a, m)
  PROVE  /\ \A i \in DOMAIN delivered' : delivered'[i].q <= Len(log')
         /\ delivered' # <<>> /\ LastTold' = m /\ m.q = Len(log')
<1>1. Len(log) \in Nat
  BY WaitingTypes
<1> QED BY <1>1, KnownMessage DEF LastTold, Known

LEMMA ClientQueryPromised ==
  ASSUME ClientWaits, TypeOK, TypeOK', WaitingHeld, PromiseHeld,
         NEW kind \in Queries, ClientQuery(kind)
  PROVE  PromiseHeld'
<1> DEFINE q == Len(log) + 1
<1>1. /\ server.phase = "idle" /\ server' = server /\ toServer = <<>>
      /\ UNCHANGED <<kept, serial>>
  BY ClientMaySend DEF ClientQuery, WaitingHeld
<1>2. /\ Len(log) \in Nat /\ Len(log') = q /\ q \in Nat
      /\ delivered \in Seq(MessageType)
  BY WaitingTypes, AppendProperties DEF ClientQuery
<1>3. ProcessQuery(kind, q)
  BY DEF ClientQuery, ClientWaits, ProcessQueryPanics, ProcessParse
<1>4. retentRowDescription' = Null
  BY <1>1, <1>3 DEF ProcessQuery, PromiseHeld
<1>5. \A r \in DOMAIN kept' : kept'[r].n <= serial'
  BY <1>1 DEF PromiseHeld
<1>6. \A i \in DOMAIN delivered : delivered[i].q <= q /\ delivered[i].q # q
  BY <1>2, AllIsKnown, NamesAreNumbers DEF Known
<1> HIDE DEF q
<1>7. CASE Forwarded(kind)
  <2>1. toServer' = Append(toServer, q) /\ delivered' = delivered
    BY <1>3, <1>7 DEF ProcessQuery
  <2>2. toServer' # <<>>
    BY <1>1, <2>1
  <2>3. Untold'
    BY <1>2, <1>6, <2>1, LastIsTyped DEF Untold, LastTold
  <2> QED BY <1>1, <1>2, <1>4, <1>5, <1>6, <2>1, <2>2, <2>3 DEF PromiseHeld
<1>8. CASE ~Forwarded(kind)
  <2> DEFINE e == ErrorResponse(q, 0)
             z == ReadyForQuery(q, "I")
  <2>1. toServer' = toServer /\ delivered' = delivered \o <<e, z>>
    BY <1>3, <1>8 DEF ProcessQuery, ErrorAnswer
  <2>2. /\ e \in MessageType /\ e.q = q
        /\ z \in MessageType /\ z.q = q /\ z.type = "Z"
    BY <1>2, MessagesAreTyped DEF ErrorResponse, ReadyForQuery, Message, Statuses
  <2> HIDE DEF e, z
  <2>3. delivered' = Append(Append(delivered, e), z)
    BY <1>2, <2>1, <2>2, TwoMessagesAdded
  <2>4. Known(delivered, q)
    BY <1>6 DEF Known
  <2>5. Append(delivered, e) \in Seq(MessageType) /\ Known(Append(delivered, e), q)
    BY <1>2, <2>2, <2>4, KnownMessage
  <2>6. /\ \A i \in DOMAIN delivered' : delivered'[i].q <= Len(log')
        /\ delivered' # <<>> /\ LastTold' = z
    BY <1>2, <2>2, <2>3, <2>5, KnownMessage DEF LastTold, Known
  <2>7. ~NotBegun'
    BY <1>1, <2>1 DEF NotBegun
  <2> QED BY <1>1, <1>2, <1>4, <1>5, <2>2, <2>6, <2>7 DEF PromiseHeld
<1> QED BY <1>7, <1>8

LEMMA ServerBeginsPromised ==
  ASSUME TypeOK, WaitingHeld, PromiseHeld, ServerBegins
  PROVE  PromiseHeld'
<1>1. /\ server.phase = "idle" /\ toServer # <<>>
      /\ UNCHANGED <<log, delivered, kept, serial, retentRowDescription>>
      /\ retentRowDescription = Null
  BY DEF ServerBegins, client, retained, PromiseHeld
<1>2. toServer = <<Len(log)>>
  BY <1>1 DEF WaitingHeld, OneAtATime
<1>3. /\ toServer' = <<>> /\ server'.q = Len(log)
      /\ server'.phase = FirstPhase(Len(log))
  BY <1>2 DEF ServerBegins
<1>4. /\ server'.phase \in {"start", "empty"}
      /\ server'.phase = "empty" => Body' = <<>>
  BY <1>1, <1>3 DEF FirstPhase, Body
<1>5. Untold'
  BY <1>1 DEF PromiseHeld, NotBegun, Untold, LastTold
<1> QED BY <1>1, <1>3, <1>4, <1>5 DEF PromiseHeld

LEMMA RowDescriptionPromised ==
  ASSUME TypeOK, WaitingHeld, KeptHeld, PromiseHeld, ProcessRowDescription
  PROVE  PromiseHeld'
<1>1. /\ server.phase = "start" /\ server'.phase = "rows"
      /\ UNCHANGED <<log, delivered, kept, serial, retentRows>>
  BY WaitingTypes DEF ProcessRowDescription, client, ServerType
<1>2. /\ \A r \in DOMAIN kept : kept[r].q # Len(log)
      /\ retentRows = <<>> /\ NotBegun
  BY <1>1 DEF KeptHeld, NotBegun, WaitingHeld, OwnResult
<1>3. \E k \in 0 .. Len(kept') :
        /\ \A r \in DOMAIN kept' : kept'[r].q = Len(log') <=> r > k
        /\ retentRows' = SubSeq(kept', k + 1, Len(kept'))
  <2>1. kept \in Seq(MessageType) /\ Len(kept) \in Nat /\ DOMAIN kept = 1 .. Len(kept)
    BY KeptNumbers, LenProperties
  <2>2. \A r \in DOMAIN kept : ~(r > Len(kept))
    BY <2>1
  <2>3. SubSeq(kept, Len(kept) + 1, Len(kept)) = <<>>
    BY <2>1, SubSeqEmpty
  <2>4. Len(kept) \in 0 .. Len(kept)
    BY <2>1
  <2> QED BY <1>1, <1>2, <2>2, <2>3, <2>4
<1>4. Untold'
  BY <1>1, <1>2 DEF PromiseHeld, Untold, LastTold
<1> QED BY <1>1, <1>3, <1>4 DEF PromiseHeld

(* What follows the first k messages of a sequence.                         *)
LEMMA Rest ==
  ASSUME NEW a \in Seq(MessageType), NEW k \in 0 .. Len(a)
  PROVE  /\ SubSeq(a, k + 1, Len(a)) \in Seq(MessageType)
         /\ Len(SubSeq(a, k + 1, Len(a))) = Len(a) - k
         /\ \A i \in 1 .. Len(a) - k : SubSeq(a, k + 1, Len(a))[i] = a[k + i]
<1>1. Len(a) \in Nat /\ DOMAIN a = 1 .. Len(a) /\ k \in Nat /\ k <= Len(a)
  <2>1. Len(a) \in Nat /\ DOMAIN a = 1 .. Len(a)
    BY LenProperties
  <2> QED BY <2>1
<1>2. k + 1 \in Int /\ Len(a) \in Int /\ \A i \in k + 1 .. Len(a) : a[i] \in MessageType
  BY <1>1
<1>3. /\ SubSeq(a, k + 1, Len(a)) \in Seq(MessageType)
      /\ Len(SubSeq(a, k + 1, Len(a)))
           = IF k + 1 <= Len(a) THEN Len(a) - (k + 1) + 1 ELSE 0
      /\ \A i \in 1 .. Len(a) - (k + 1) + 1 :
           SubSeq(a, k + 1, Len(a))[i] = a[k + 1 + i - 1]
  BY <1>2, SubSeqProperties
<1>4. \A i \in 1 .. Len(a) - k : i \in 1 .. Len(a) - (k + 1) + 1 /\ k + 1 + i - 1 = k + i
  BY <1>1
<1>5. (IF k + 1 <= Len(a) THEN Len(a) - (k + 1) + 1 ELSE 0) = Len(a) - k
  <2> DEFINE n == Len(a)
  <2>1. n \in Nat /\ k \in Nat /\ k <= n
    BY <1>1
  <2> HIDE DEF n
  <2>2. (IF k + 1 <= n THEN n - (k + 1) + 1 ELSE 0) = n - k
    BY <2>1
  <2> QED BY <2>2 DEF n
<1> QED BY <1>3, <1>4, <1>5

(* A row is kept behind those that wait.                                    *)
LEMMA LongerRest ==
  ASSUME NEW n \in Nat, NEW k \in Nat, k <= n,
         NEW s \in Seq(MessageType), Len(s) = n - k,
         NEW t \in Seq(MessageType), Len(t) = n + 1 - k,
         NEW m \in MessageType,
         \A i \in 1 .. n - k : t[i] = s[i], t[n + 1 - k] = m
  PROVE  Append(s, m) = t
<1>1. /\ Append(s, m) \in Seq(MessageType) /\ Len(Append(s, m)) = Len(s) + 1
      /\ \A i \in 1 .. Len(s) : Append(s, m)[i] = s[i]
      /\ Append(s, m)[Len(s) + 1] = m
  BY AppendProperties
<1>2. Len(Append(s, m)) = Len(t) /\ Len(s) + 1 = n + 1 - k
  BY <1>1
<1>3. ASSUME NEW i \in 1 .. Len(Append(s, m)) PROVE Append(s, m)[i] = t[i]
  <2>1. i \in 1 .. n - k \/ i = n + 1 - k
    BY <1>1, <1>2
  <2>2. CASE i \in 1 .. n - k
    BY <1>1, <2>2
  <2>3. CASE i = n + 1 - k
    BY <1>1, <1>2, <2>3
  <2> QED BY <2>1, <2>2, <2>3
<1> QED BY <1>1, <1>2, <1>3, SeqEqual

LEMMA RowBehindRows ==
  ASSUME NEW a \in Seq(MessageType), NEW k \in 0 .. Len(a), NEW m \in MessageType
  PROVE  /\ k \in 0 .. Len(Append(a, m))
         /\ Append(SubSeq(a, k + 1, Len(a)), m)
              = SubSeq(Append(a, m), k + 1, Len(Append(a, m)))
<1> DEFINE b == Append(a, m)
           s == SubSeq(a, k + 1, Len(a))
           t == SubSeq(b, k + 1, Len(b))
           n == Len(a)
<1>1. /\ n \in Nat /\ DOMAIN a = 1 .. n
      /\ b \in Seq(MessageType) /\ Len(b) = n + 1
      /\ \A i \in 1 .. n : b[i] = a[i]
      /\ b[n + 1] = m
  BY LenProperties, AppendProperties
<1>2. /\ s \in Seq(MessageType) /\ Len(s) = n - k
      /\ \A i \in 1 .. n - k : s[i] = a[k + i]
  BY Rest
<1> HIDE DEF b
<1>3. k \in 0 .. Len(b) /\ k \in Nat /\ k <= n
  BY <1>1
<1>4. /\ t \in Seq(MessageType) /\ Len(t) = Len(b) - k
      /\ \A i \in 1 .. Len(b) - k : t[i] = b[k + i]
  BY <1>1, <1>3, Rest
<1> HIDE DEF s, t, n
<1>5. \A i \in 1 .. n - k : t[i] = s[i]
  <2> TAKE i \in 1 .. n - k
  <2>1. i \in 1 .. Len(b) - k /\ k + i \in 1 .. n
    BY <1>1, <1>3
  <2> QED BY <1>1, <1>2, <1>4, <2>1
<1>6. t[n + 1 - k] = m
  <2>1. n + 1 - k \in 1 .. Len(b) - k /\ k + (n + 1 - k) = n + 1
    BY <1>1, <1>3
  <2> QED BY <1>1, <1>4, <2>1
<1>7. Len(t) = n + 1 - k
  BY <1>1, <1>4
<1>8. Append(s, m) = t
  BY <1>1, <1>2, <1>3, <1>4, <1>5, <1>6, <1>7, LongerRest
<1> QED BY <1>3, <1>8 DEF b, s, t, n

(* What a row that is received does to the rows.                            *)
LEMMA RowIsKept ==
  ASSUME ClientWaits, TypeOK, WaitingHeld, ProcessDataRow
  PROVE  LET row == DataRow(server.q, server.s, serial + 1, TRUE)
         IN /\ server.q = Len(log) /\ Statement = "select"
            /\ row \in MessageType /\ row.q = server.q /\ row.n = serial + 1
            /\ \/ retentRows' = retentRows /\ kept' = kept
               \/ retentRows' = Append(retentRows, row) /\ kept' = Append(kept, row)
<1> DEFINE row == DataRow(server.q, server.s, serial + 1, TRUE)
<1>1. /\ server.phase = "rows" /\ dataRowConfig.whole /\ errorState = 0
      /\ dataRowConfig.of = server.q /\ Statement = "select"
      /\ joinIndices \subseteq {<<server.q, server.q, server.s>>}
  BY DEF ProcessDataRow, WaitingHeld, OwnColumns
<1>2. Fit
  BY <1>1 DEF Fit
<1>3. server.q = Len(log)
  BY <1>1, OneAtServer DEF WaitingHeld
<1>4. \/ retentRows' = retentRows /\ kept' = kept
      \/ retentRows' = Append(retentRows, row) /\ kept' = Append(kept, row)
  BY <1>1, <1>2 DEF ProcessDataRow, RowDiscarded, RowRetained, RowNotDecrypted,
                    RowFailsJoin, RowOutOfBounds, ClientWaits
<1>5. row \in MessageType /\ row.q = server.q /\ row.n = serial + 1
  <2>1. server.q \in Nat /\ server.s \in Nat /\ serial + 1 \in Nat
    BY <1>1, ServerAtQuery DEF TypeOK, BackendTypes
  <2>2. row \in MessageType
    BY <2>1, MessagesAreTyped
  <2> QED BY <2>2 DEF DataRow, Message
<1> QED BY <1>1, <1>3, <1>4, <1>5

LEMMA DataRowPromised ==
  ASSUME ClientWaits, TypeOK, WaitingHeld, KeptHeld, PromiseHeld, ProcessDataRow
  PROVE  PromiseHeld'
<1> DEFINE row == DataRow(server.q, server.s, serial + 1, TRUE)
<1>1. /\ server.phase = "rows" /\ server'.phase = "rows" /\ server'.q = server.q
      /\ serial \in Nat /\ serial' = serial + 1
      /\ UNCHANGED <<log, delivered, toServer>>
  BY WaitingTypes DEF ProcessDataRow, ServerType, client, TypeOK, BackendTypes
<1>2. /\ server.q = Len(log)
      /\ row \in MessageType /\ row.q = server.q /\ row.n = serial + 1
      /\ \/ retentRows' = retentRows /\ kept' = kept
         \/ retentRows' = Append(retentRows, row) /\ kept' = Append(kept, row)
  BY RowIsKept
<1> HIDE DEF row
<1>3. /\ kept \in Seq(MessageType) /\ Len(log) \in Nat
      /\ DOMAIN kept = 1 .. Len(kept) /\ Len(kept) \in Nat
      /\ \A r \in DOMAIN kept : kept[r].n \in Nat
  BY KeptNumbers, SerialsAreNumbers, LenProperties
<1>4. PICK k \in 0 .. Len(kept) :
        /\ \A r \in DOMAIN kept : kept[r].q = Len(log) <=> r > k
        /\ retentRows = SubSeq(kept, k + 1, Len(kept))
  BY <1>1 DEF PromiseHeld
<1>5. \A r \in DOMAIN kept' :
        \/ r \in DOMAIN kept /\ kept'[r] = kept[r]
        \/ r = Len(kept) + 1 /\ kept'[r] = row
  BY <1>2, <1>3, OneReadyAdded
<1>6. \A r \in DOMAIN kept' : kept'[r].n <= serial'
  BY <1>1, <1>2, <1>3, <1>5 DEF PromiseHeld
<1>7. \A r \in DOMAIN kept' : kept'[r].q = Len(log') <=> r > k
  BY <1>1, <1>2, <1>3, <1>4, <1>5
<1>8. k \in 0 .. Len(kept') /\ retentRows' = SubSeq(kept', k + 1, Len(kept'))
  BY <1>2, <1>3, <1>4, RowBehindRows
<1>9. Untold'
  BY <1>1 DEF PromiseHeld, Untold, LastTold
<1> QED BY <1>1, <1>6, <1>7, <1>8, <1>9 DEF PromiseHeld

(* A statement that completes: the description, if any, and the rows are    *)
(* those of its query.                                                      *)
LEMMA ResultIsEmitted ==
  ASSUME ClientWaits, TypeOK, WaitingHeld, PromiseHeld, ProcessCommandComplete
  PROVE  /\ ResultEmitted /\ server'.phase = "done" /\ server.q = Len(log)
         /\ \/ /\ server.phase = "rows" /\ Statement = "select"
               /\ RetainedDescription = <<RowDescription(server.q, server.s)>>
               /\ Known(retentRows, Len(log))
            \/ /\ server.phase = "start" /\ Statement # "select"
               /\ RetainedDescription = <<>> /\ retentRows = <<>>
<1>1. server.phase \in {"rows", "start"} /\ Completes
  BY DEF ProcessCommandComplete, Completes
<1>2. server'.phase = "done"
  <2>1. server.s = 1 /\ Len(Body) = 1
    BY <1>1 DEF WaitingHeld, OwnResult
  <2> QED BY <2>1, WaitingTypes DEF ProcessCommandComplete, StatementDone, ServerType
<1>3. server.q = Len(log) /\ Len(log) \in Nat
  BY <1>1, OneAtServer, WaitingTypes DEF WaitingHeld
<1>4. CASE server.phase = "rows"
  <2>1. /\ retentRowDescription = RowDescription(server.q, server.s)
        /\ \A i \in DOMAIN retentRows : /\ retentRows[i].type = "D"
                                        /\ retentRows[i].q = server.q
    BY <1>4 DEF WaitingHeld, OwnResult
  <2>2. RetainedDescription = <<RowDescription(server.q, server.s)>>
    <3>1. retentRowDescription.type = "T" /\ Null.type = "none"
      BY <2>1 DEF RowDescription, Null, Message
    <3> QED BY <2>1, <3>1 DEF RetainedDescription
  <2>3. /\ \A i \in DOMAIN retentRows : retentRows[i] # Null
        /\ Known(retentRows, Len(log))
    BY <1>3, <2>1 DEF Null, Message, Known
  <2>4. Statement = "select" /\ errorState = 0
    BY <1>4 DEF WaitingHeld, OwnColumns
  <2>5. ResultEmitted
    BY <2>3, <2>4 DEF ProcessCommandComplete, EmptiedRowEmitted, ErrorEmitted
  <2> QED BY <1>2, <1>3, <1>4, <2>2, <2>3, <2>4, <2>5
<1>5. CASE server.phase = "start"
  <2>1. retentRows = <<>> /\ retentRowDescription = Null /\ errorState = 0
    BY <1>5 DEF WaitingHeld, OwnResult, PromiseHeld
  <2>2. ResultEmitted
    BY <2>1 DEF ProcessCommandComplete, EmptiedRowEmitted, ErrorEmitted
  <2>3. Statement # "select"
    BY <1>1, <1>5 DEF Completes
  <2> QED BY <1>2, <1>3, <1>5, <2>1, <2>2, <2>3 DEF RetainedDescription
<1> QED BY <1>1, <1>4, <1>5

LEMMA CommandCompletePromised ==
  ASSUME ClientWaits, TypeOK, WaitingHeld, PromiseHeld, ProcessCommandComplete
  PROVE  PromiseHeld'
<1> DEFINE last == CommandComplete(server.q, server.s)
           before == delivered \o RetainedDescription \o retentRows
<1>1. /\ UNCHANGED <<log, kept, serial, toServer>>
      /\ server.phase \in {"rows", "start"}
  BY DEF ProcessCommandComplete, client, Completes
<1>2. /\ ResultEmitted /\ server'.phase = "done" /\ server.q = Len(log)
  BY ResultIsEmitted
<1>3. /\ delivered \in Seq(MessageType) /\ retentRows \in Seq(MessageType)
      /\ Len(log) \in Nat /\ server.q \in Nat /\ server.s \in Nat
  BY <1>1, WaitingTypes, ServerAtQuery DEF TypeOK
<1>4. last \in MessageType /\ last.q = Len(log) /\ last.type = "C"
  BY <1>2, <1>3, MessagesAreTyped DEF CommandComplete, Message
<1>5. /\ RetainedDescription \in Seq(MessageType) /\ Known(RetainedDescription, Len(log))
      /\ Known(retentRows, Len(log))
  <2>1. CASE /\ RetainedDescription = <<RowDescription(server.q, server.s)>>
             /\ Known(retentRows, Len(log))
    <3>1. /\ RowDescription(server.q, server.s) \in MessageType
          /\ RowDescription(server.q, server.s).q = Len(log)
      BY <1>2, <1>3, MessagesAreTyped DEF RowDescription, Message
    <3> QED BY <1>3, <2>1, <3>1 DEF Known
  <2>2. CASE RetainedDescription = <<>> /\ retentRows = <<>>
    BY <2>2, EmptySeq DEF Known
  <2> QED BY <2>1, <2>2, ResultIsEmitted
<1>6. before \in Seq(MessageType) /\ Known(before, Len(log))
  <2>1. /\ delivered \o RetainedDescription \in Seq(MessageType)
        /\ Known(delivered \o RetainedDescription, Len(log))
    BY <1>3, <1>5, AllIsKnown, KnownTail
  <2> QED BY <1>3, <1>5, <2>1, KnownTail
<1>7. delivered' = before \o <<last>> /\ retentRowDescription' = Null
  BY <1>2 DEF ResultEmitted
<1> HIDE DEF last, before
<1>8. delivered' = Append(before, last)
  BY <1>4, <1>6, <1>7, AppendIsConcat
<1>9. /\ \A i \in DOMAIN delivered' : delivered'[i].q <= Len(log')
      /\ delivered' # <<>> /\ LastTold' = last /\ last.q = Len(log')
  BY <1>1, <1>4, <1>6, <1>8, AnswerEnds
<1>10. \A r \in DOMAIN kept' : kept'[r].n <= serial'
  BY <1>1 DEF PromiseHeld
<1>11. ~NotBegun'
  <2>1. toServer = <<>>
    BY <1>1, OneAtServer DEF WaitingHeld
  <2> QED BY <1>1, <1>2, <2>1 DEF NotBegun
<1> QED BY <1>2, <1>4, <1>7, <1>9, <1>10, <1>11 DEF PromiseHeld

(* The messages that are passed on.                                         *)
LEMMA PassedOnPromised ==
  ASSUME TypeOK, WaitingHeld, PromiseHeld, server.phase \notin {"idle", "rows"},
         NEW m \in MessageType, m.q = Len(log), delivered' = Append(delivered, m),
         \/ server'.phase = "done" /\ m.type # "Z"
         \/ server'.phase = "idle" /\ m.type = "Z",
         UNCHANGED <<log, kept, serial, toServer, retentRowDescription>>
  PROVE  PromiseHeld'
<1>1. toServer' = <<>> /\ server'.phase \in {"idle", "done"}
  BY OneAtServer DEF WaitingHeld
<1>2. ~NotBegun'
  BY <1>1 DEF NotBegun
<1>3. retentRowDescription' = Null /\ \A r \in DOMAIN kept' : kept'[r].n <= serial'
  BY DEF PromiseHeld
<1>4. /\ \A i \in DOMAIN delivered' : delivered'[i].q <= Len(log')
      /\ delivered' # <<>> /\ LastTold' = m /\ m.q = Len(log')
  BY WaitingTypes, AllIsKnown, AnswerEnds
<1> QED BY <1>1, <1>2, <1>3, <1>4 DEF PromiseHeld

(* The message that each step of the server passes on.                      *)
LEMMA ErrorIsPassedOn ==
  ASSUME FailsEarly, TypeOK, WaitingHeld, ProcessErrorResponse
  PROVE  /\ server.phase = "start" /\ server.q = Len(log) /\ server.s = 1
         /\ ErrorResponse(server.q, server.s) \in MessageType
<1>1. server.phase = "start"
  BY DEF ProcessErrorResponse, Fails, FailsEarly
<1>2. server.q \in Nat /\ server.s \in Nat
  BY <1>1, ServerAtQuery DEF TypeOK
<1> QED BY <1>1, <1>2, MessagesAreTyped, OneAtServer DEF WaitingHeld, OwnResult

LEMMA EmptyAnswerIsPassedOn ==
  ASSUME TypeOK, WaitingHeld, ProcessEmptyQueryResponse
  PROVE  /\ server.phase = "empty" /\ server.q = Len(log)
         /\ EmptyQueryResponse(server.q) \in MessageType
<1>1. server.phase = "empty"
  BY DEF ProcessEmptyQueryResponse
<1>2. server.q \in Nat
  BY <1>1, ServerAtQuery DEF TypeOK
<1> QED BY <1>1, <1>2, MessagesAreTyped, OneAtServer DEF WaitingHeld

LEMMA ReadyIsPassedOn ==
  ASSUME TypeOK, WaitingHeld, PassReadyForQuery
  PROVE  /\ server.phase = "done" /\ server.q = Len(log) /\ tx \in Statuses
         /\ ReadyForQuery(server.q, tx) \in MessageType
<1>1. server.phase = "done"
  BY DEF PassReadyForQuery
<1>2. server.q \in Nat /\ tx \in Statuses
  BY <1>1, ServerAtQuery DEF TypeOK, BackendTypes, Statuses
<1> QED BY <1>1, <1>2, MessagesAreTyped, OneAtServer DEF WaitingHeld

LEMMA OtherStepsPromised ==
  ASSUME FailsEarly, TypeOK, WaitingHeld, PromiseHeld,
         \/ ProcessErrorResponse
         \/ ProcessEmptyQueryResponse
         \/ PassReadyForQuery
         \/ ClientReads
         \/ UNCHANGED vars
  PROVE  PromiseHeld'
<1>1. CASE ProcessErrorResponse
  <2>1. /\ ErrorResponse(server.q, server.s).q = server.q
        /\ ErrorResponse(server.q, server.s).type = "E"
    BY DEF ErrorResponse, Message
  <2>2. server'.phase = "done"
    BY <1>1, WaitingTypes DEF ProcessErrorResponse, ServerType
  <2> QED BY <1>1, <2>1, <2>2, ErrorIsPassedOn, PassedOnPromised
          DEF ProcessErrorResponse, client, retained
<1>2. CASE ProcessEmptyQueryResponse
  <2>1. /\ EmptyQueryResponse(server.q).q = server.q
        /\ EmptyQueryResponse(server.q).type = "I"
    BY DEF EmptyQueryResponse, Message
  <2>2. server'.phase = "done"
    BY <1>2, WaitingTypes DEF ProcessEmptyQueryResponse, ServerType
  <2> QED BY <1>2, <2>1, <2>2, EmptyAnswerIsPassedOn, PassedOnPromised
          DEF ProcessEmptyQueryResponse, client, retained
<1>3. CASE PassReadyForQuery
  <2>1. /\ ReadyForQuery(server.q, tx).q = server.q
        /\ ReadyForQuery(server.q, tx).type = "Z"
    BY DEF ReadyForQuery, Message
  <2>2. server'.phase = "idle"
    BY <1>3 DEF PassReadyForQuery, Idle
  <2> QED BY <1>3, <2>1, <2>2, ReadyIsPassedOn, PassedOnPromised
          DEF PassReadyForQuery, client, retained
<1>4. CASE ClientReads \/ UNCHANGED vars
  <2>1. UNCHANGED <<log, delivered, kept, serial, toServer, server, retentRows,
                    retentRowDescription>>
    BY <1>4 DEF ClientReads, vars, client, backend, retained
  <2> QED BY <2>1 DEF PromiseHeld, NotBegun, Untold, LastTold, Body
<1> QED BY <1>1, <1>2, <1>3, <1>4

(* A client that waits is told everything at once and in turn, as long as   *)
(* the server fails statements only before their first row.                 *)
THEOREM PromiseIsHeld ==
  ASSUME ClientWaits, FailsEarly
  PROVE  Spec => []PromiseHeld
<1>1. Init => PromiseHeld
  BY EmptySeq DEF Init, PromiseHeld, NotBegun, Untold, Idle
<1>2. TypeOK /\ TypeOK' /\ WaitingHeld /\ KeptHeld /\ PromiseHeld /\ [Next]_vars
        => PromiseHeld'
  BY ClientQueryPromised, ServerBeginsPromised, RowDescriptionPromised,
     DataRowPromised, CommandCompletePromised, OtherStepsPromised DEF Next, ServerNext
<1> QED BY <1>1, <1>2, TypeCorrect, WaitingIsHeld, KeptIsHeld, PTL DEF Spec

-----------------------------------------------------------------------------
(* The steps that the promise allows.  What a query asks for is fixed when  *)
(* it is sent.                                                              *)
Asked == [i \in DOMAIN log |-> Expects(log[i])]

LEMMA WhatIsAsked ==
  ASSUME TypeOK
  PROVE  /\ Asked \in Seq(Promise!Answers) /\ Len(Asked) = Len(log)
         /\ \A i \in 1 .. Len(log) : Asked[i] = Expects(log[i])
<1>1. log \in Seq(Queries) /\ Len(log) \in Nat /\ DOMAIN log = 1 .. Len(log)
  BY WaitingTypes, LenProperties
<1>2. \A i \in 1 .. Len(log) : Expects(log[i]) \in Promise!Answers
  BY DEF Expects, Promise!Answers
<1>3. Asked = [i \in 1 .. Len(log) |-> Expects(log[i])]
  BY <1>1 DEF Asked
<1> HIDE DEF Expects
<1> QED BY <1>1, <1>2, <1>3

LEMMA OneMoreAsked ==
  ASSUME TypeOK, TypeOK', NEW kind \in Queries, log' = Append(log, kind)
  PROVE  Asked' = Append(Asked, Expects(kind)) /\ Expects(kind) \in Promise!Answers
<1>1. /\ Asked \in Seq(Promise!Answers) /\ Len(Asked) = Len(log)
      /\ \A i \in 1 .. Len(log) : Asked[i] = Expects(log[i])
  BY WhatIsAsked
<1>2. /\ Asked' \in Seq(Promise!Answers) /\ Len(Asked') = Len(log')
      /\ \A i \in 1 .. Len(log') : Asked'[i] = Expects(log'[i])
  <2>1. /\ log' \in Seq(Queries) /\ Len(log') \in Nat /\ DOMAIN log' = 1 .. Len(log')
    BY LenProperties DEF TypeOK, ClientTypes
  <2>2. \A i \in 1 .. Len(log') : Expects(log'[i]) \in Promise!Answers
    BY DEF Expects, Promise!Answers
  <2>3. Asked' = [i \in 1 .. Len(log') |-> Expects(log'[i])]
    BY <2>1 DEF Asked
  <2> HIDE DEF Expects
  <2> QED BY <2>1, <2>2, <2>3
<1>3. /\ Len(log) \in Nat /\ Len(log') = Len(log) + 1
      /\ \A i \in 1 .. Len(log) : log'[i] = log[i]
      /\ log'[Len(log) + 1] = kind
  BY WaitingTypes, AppendProperties
<1>4. Expects(kind) \in Promise!Answers
  BY DEF Expects, Promise!Answers
<1>5. /\ Append(Asked, Expects(kind)) \in Seq(Promise!Answers)
      /\ Len(Append(Asked, Expects(kind))) = Len(log) + 1
      /\ \A i \in 1 .. Len(log) : Append(Asked, Expects(kind))[i] = Asked[i]
      /\ Append(Asked, Expects(kind))[Len(log) + 1] = Expects(kind)
  BY <1>1, <1>4, AppendProperties
<1>6. ASSUME NEW i \in 1 .. Len(Asked')
      PROVE  Asked'[i] = Append(Asked, Expects(kind))[i]
  <2>1. i \in 1 .. Len(log) \/ i = Len(log) + 1
    BY <1>2, <1>3
  <2> HIDE DEF Asked, Expects
  <2> QED BY <1>1, <1>2, <1>3, <1>5, <2>1
<1> QED BY <1>2, <1>3, <1>4, <1>5, <1>6, SeqEqual

(* The state of the promise.                                                *)
LEMMA PromisedState ==
  ASSUME TypeOK
  PROVE  /\ Promise!Now = Len(log)
         /\ Promise!Told <=> ~Untold
         /\ Promise!Open <=> Len(log) > 0 /\ (Untold \/ LastTold.type # "Z")
<1>1. Promise!Now = Len(log)
  BY WhatIsAsked DEF Asked, Promise!Now
<1> QED BY <1>1 DEF Promise!Told, Promise!Open, Promise!LastHeard, Untold, LastTold

(* While the query sent last is not answered to its end, the promise is     *)
(* open.                                                                    *)
LEMMA PromiseIsOpen ==
  ASSUME TypeOK, WaitingHeld, PromiseHeld, server.phase # "idle"
  PROVE  /\ Promise!Open /\ server.q = Len(log) /\ Len(log) > 0
         /\ server.phase \in {"start", "rows", "empty"} => ~Promise!Told
         /\ server.phase = "done" => Promise!Told
<1>1. server.q = Len(log) /\ Len(log) > 0
  BY OneAtServer, ServerAtQuery, WaitingTypes DEF WaitingHeld, TypeOK, QueryNumber
<1>2. server.phase \in {"start", "rows", "empty"} => Untold
  BY DEF PromiseHeld, NotBegun
<1>3. server.phase = "done" => ~Untold /\ LastTold.type # "Z"
  BY DEF PromiseHeld, Untold
<1>4. server.phase \in {"start", "rows", "empty", "done"}
  BY WaitingTypes DEF ServerType
<1> QED BY <1>1, <1>2, <1>3, <1>4, PromisedState

(* What the statement at the server is promised to return.                  *)
LEMMA AnswerIsAsked ==
  ASSUME TypeOK, WaitingHeld, PromiseHeld, server.phase # "idle"
  PROVE  /\ server.phase \in {"start", "rows"} =>
              Asked[Len(log)] = IF Statement = "select" THEN "rows" ELSE "completion"
         /\ server.phase = "empty" => Asked[Len(log)] = "nothing"
<1>1. server.q = Len(log) /\ Len(log) > 0 /\ Len(log) \in Nat
  BY PromiseIsOpen, WaitingTypes
<1>2. Asked[Len(log)] = Expects(log[Len(log)])
  BY <1>1, WhatIsAsked
<1>3. Body = log[Len(log)].body
  BY <1>1 DEF Body
<1>4. server.phase \in {"start", "rows"} =>
        Body # <<>> /\ Statement = log[Len(log)].body[1]
  BY <1>1, <1>3, EmptySeq DEF WaitingHeld, OwnResult, Statement
<1>5. server.phase = "empty" => Body = <<>>
  BY DEF PromiseHeld
<1> QED BY <1>2, <1>3, <1>4, <1>5 DEF Expects

LEMMA QueryIsAsked ==
  ASSUME ClientWaits, TypeOK, TypeOK', WaitingHeld, PromiseHeld,
         NEW kind \in Queries, ClientQuery(kind)
  PROVE  Promise!Ask \/ Promise!Refuse
<1>1. /\ server.phase = "idle" /\ toServer = <<>> /\ kept' = kept
      /\ log' = Append(log, kind)
  BY ClientMaySend DEF ClientQuery, WaitingHeld
<1>2. ~Promise!Open
  <2>1. Len(log) \in Nat /\ (Len(log) > 0 => log # <<>>)
    BY WaitingTypes, EmptySeq
  <2>2. log # <<>> => ~Untold /\ LastTold.type = "Z"
    BY <1>1 DEF PromiseHeld, Untold
  <2> QED BY <2>1, <2>2, PromisedState
<1>3. Asked' = Append(Asked, Expects(kind)) /\ Expects(kind) \in Promise!Answers
  BY <1>1, OneMoreAsked
<1>4. Promise!Now = Len(log)
  BY PromisedState
<1>5. ProcessQuery(kind, Len(log) + 1)
  BY DEF ClientQuery, ClientWaits, ProcessQueryPanics, ProcessParse
<1>6. CASE Forwarded(kind)
  <2>1. delivered' = delivered
    BY <1>5, <1>6 DEF ProcessQuery
  <2> QED BY <1>1, <1>2, <1>3, <2>1 DEF Promise!Ask, Asked
<1>7. CASE ~Forwarded(kind)
  <2>1. delivered' = delivered \o <<ErrorResponse(Len(log) + 1, 0),
                                    ReadyForQuery(Len(log) + 1, "I")>>
    BY <1>5, <1>7 DEF ProcessQuery, ErrorAnswer
  <2> QED BY <1>1, <1>2, <1>3, <1>4, <2>1
          DEF Promise!Refuse, Promise!ErrorResponse, Promise!ReadyForQuery,
              Promise!Message, ErrorResponse, ReadyForQuery, Message, Asked
<1> QED BY <1>6, <1>7

LEMMA RowIsKeptAsPromised ==
  ASSUME ClientWaits, TypeOK, WaitingHeld, PromiseHeld, ProcessDataRow
  PROVE  Promise!Keep \/ UNCHANGED Promise!vars
<1> DEFINE row == DataRow(server.q, server.s, serial + 1, TRUE)
<1>1. /\ server.phase = "rows" /\ UNCHANGED <<log, delivered>>
      /\ server.s = 1 /\ serial \in Nat
  BY DEF ProcessDataRow, client, WaitingHeld, OwnResult, TypeOK, BackendTypes
<1>2. /\ server.q = Len(log) /\ Statement = "select"
      /\ row \in MessageType /\ row.n = serial + 1
      /\ \/ retentRows' = retentRows /\ kept' = kept
         \/ retentRows' = Append(retentRows, row) /\ kept' = Append(kept, row)
  BY RowIsKept
<1>3. /\ Promise!Open /\ ~Promise!Told /\ Promise!Now = Len(log)
      /\ Asked[Len(log)] = "rows" /\ Asked' = Asked
  BY <1>1, <1>2, PromiseIsOpen, AnswerIsAsked, PromisedState DEF Asked
<1>4. CASE kept' = kept
  BY <1>1, <1>3, <1>4 DEF Promise!vars, Asked
<1>5. CASE kept' = Append(kept, row)
  <2>1. row = Promise!DataRow(Promise!Now, 1, row.n, TRUE)
    BY <1>1, <1>2, <1>3 DEF DataRow, Message, Promise!DataRow, Promise!Message
  <2>2. /\ kept \in Seq(MessageType) /\ Len(kept) \in Nat
        /\ \A i \in DOMAIN kept : kept[i].n \in Nat
    BY KeptNumbers, SerialsAreNumbers, LenProperties
  <2> HIDE DEF row
  <2>3. /\ Len(kept') = Len(kept) + 1 /\ kept'[Len(kept')] = row
    BY <1>2, <1>5, <2>2, AppendProperties
  <2>4. \A i \in DOMAIN kept : kept[i].n < row.n
    BY <1>1, <1>2, <2>2 DEF PromiseHeld
  <2> QED BY <1>1, <1>3, <1>5, <2>1, <2>3, <2>4 DEF Promise!Keep, Asked
<1> QED BY <1>2, <1>4, <1>5

LEMMA ResultIsToldAsPromised ==
  ASSUME ClientWaits, TypeOK, WaitingHeld, PromiseHeld, ProcessCommandComplete
  PROVE  Promise!TellRows \/ Promise!TellCompletion
<1> DEFINE last == CommandComplete(server.q, server.s)
<1>1. /\ server.phase \in {"start", "rows"} /\ UNCHANGED <<log, kept>>
      /\ server.s = 1
  BY DEF ProcessCommandComplete, Completes, client, WaitingHeld, OwnResult
<1>2. /\ server.q = Len(log)
      /\ delivered' = delivered \o RetainedDescription \o retentRows \o <<last>>
  BY ResultIsEmitted DEF ResultEmitted
<1>3. /\ Promise!Open /\ ~Promise!Told /\ Promise!Now = Len(log) /\ Asked' = Asked
      /\ Asked[Len(log)] = IF Statement = "select" THEN "rows" ELSE "completion"
  BY <1>1, PromiseIsOpen, AnswerIsAsked, PromisedState DEF Asked
<1>4. last = Promise!CommandComplete(Promise!Now, 1)
  BY <1>1, <1>2, <1>3
     DEF CommandComplete, Message, Promise!CommandComplete, Promise!Message
<1> HIDE DEF last
<1>5. CASE server.phase = "rows"
  <2>1. /\ Statement = "select"
        /\ RetainedDescription = <<RowDescription(server.q, server.s)>>
    BY <1>5, ResultIsEmitted
  <2>2. RowDescription(server.q, server.s) = Promise!RowDescription(Promise!Now, 1)
    BY <1>1, <1>2, <1>3
       DEF RowDescription, Message, Promise!RowDescription, Promise!Message
  <2>3. PICK k \in 0 .. Len(kept) :
          /\ \A r \in DOMAIN kept : kept[r].q = Len(log) <=> r > k
          /\ retentRows = SubSeq(kept, k + 1, Len(kept))
    BY <1>5 DEF PromiseHeld
  <2>4. Promise!RowsBehind(k)
    BY <1>3, <2>3 DEF Promise!RowsBehind
  <2> QED BY <1>1, <1>2, <1>3, <1>4, <2>1, <2>2, <2>3, <2>4
          DEF Promise!TellRows, Asked
<1>6. CASE server.phase = "start"
  <2>1. /\ Statement # "select" /\ RetainedDescription = <<>> /\ retentRows = <<>>
    BY <1>6, ResultIsEmitted
  <2>2. delivered' = Append(delivered, last)
    <3>1. /\ delivered \in Seq(MessageType) /\ last \in MessageType
      <4>1. server.q \in Nat /\ server.s \in Nat
        BY <1>1, ServerAtQuery DEF TypeOK
      <4> QED BY <4>1, WaitingTypes, MessagesAreTyped DEF last
    <3>2. delivered \o <<>> = delivered
      BY <3>1, ConcatEmptySeq
    <3> QED BY <1>2, <2>1, <3>1, <3>2, AppendIsConcat
  <2> QED BY <1>1, <1>3, <1>4, <2>1, <2>2 DEF Promise!TellCompletion, Asked
<1> QED BY <1>1, <1>5, <1>6

LEMMA OthersToldAsPromised ==
  ASSUME FailsEarly, TypeOK, WaitingHeld, PromiseHeld
  PROVE  /\ ProcessErrorResponse => Promise!TellError
         /\ ProcessEmptyQueryResponse => Promise!TellNothing
         /\ PassReadyForQuery => Promise!TellReady
<1>1. Promise!Now = Len(log)
  BY PromisedState
<1>2. ASSUME ProcessErrorResponse PROVE Promise!TellError
  <2>1. /\ server.phase = "start" /\ server.q = Len(log) /\ server.s = 1
    BY <1>2, ErrorIsPassedOn
  <2>2. /\ delivered' = Append(delivered, ErrorResponse(server.q, server.s))
        /\ UNCHANGED <<log, kept>>
    BY <1>2 DEF ProcessErrorResponse, client
  <2>3. ErrorResponse(server.q, server.s) = Promise!ErrorResponse(Promise!Now, 1)
    BY <1>1, <2>1 DEF ErrorResponse, Message, Promise!ErrorResponse, Promise!Message
  <2>4. Promise!Open /\ ~Promise!Told
    BY <2>1, PromiseIsOpen
  <2> QED BY <2>2, <2>3, <2>4 DEF Promise!TellError
<1>3. ASSUME ProcessEmptyQueryResponse PROVE Promise!TellNothing
  <2>1. server.phase = "empty" /\ server.q = Len(log)
    BY <1>3, EmptyAnswerIsPassedOn
  <2>2. /\ delivered' = Append(delivered, EmptyQueryResponse(server.q))
        /\ UNCHANGED <<log, kept>>
    BY <1>3 DEF ProcessEmptyQueryResponse, client
  <2>3. EmptyQueryResponse(server.q) = Promise!EmptyQueryResponse(Promise!Now)
    BY <1>1, <2>1
       DEF EmptyQueryResponse, Message, Promise!EmptyQueryResponse, Promise!Message
  <2>4. Promise!Open /\ ~Promise!Told /\ Asked[Len(log)] = "nothing"
    BY <2>1, PromiseIsOpen, AnswerIsAsked
  <2> QED BY <1>1, <2>2, <2>3, <2>4 DEF Promise!TellNothing, Asked
<1>4. ASSUME PassReadyForQuery PROVE Promise!TellReady
  <2>1. server.phase = "done" /\ server.q = Len(log) /\ tx \in Statuses
    BY <1>4, ReadyIsPassedOn
  <2>2. /\ delivered' = Append(delivered, ReadyForQuery(server.q, tx))
        /\ UNCHANGED <<log, kept>>
    BY <1>4 DEF PassReadyForQuery, client
  <2>3. /\ ReadyForQuery(server.q, tx) = Promise!ReadyForQuery(Promise!Now, tx)
        /\ tx \in Promise!Statuses
    BY <1>1, <2>1
       DEF ReadyForQuery, Message, Promise!ReadyForQuery, Promise!Message, Statuses,
           Promise!Statuses
  <2>4. Promise!Open /\ Promise!Told
    BY <2>1, PromiseIsOpen
  <2> QED BY <2>2, <2>3, <2>4 DEF Promise!TellReady
<1> QED BY <1>2, <1>3, <1>4

LEMMA StepIsPromised ==
  ASSUME ClientWaits, FailsEarly, TypeOK, TypeOK', WaitingHeld, PromiseHeld, [Next]_vars
  PROVE  [Promise!Next]_Promise!vars
<1>1. CASE \E kind \in Queries : ClientQuery(kind)
  BY <1>1, QueryIsAsked DEF Promise!Next
<1>2. CASE ProcessDataRow
  BY <1>2, RowIsKeptAsPromised DEF Promise!Next
<1>3. CASE ProcessCommandComplete
  BY <1>3, ResultIsToldAsPromised DEF Promise!Next
<1>4. CASE ProcessErrorResponse \/ ProcessEmptyQueryResponse \/ PassReadyForQuery
  BY <1>4, OthersToldAsPromised DEF Promise!Next
<1>5. CASE ServerBegins \/ ProcessRowDescription \/ ClientReads \/ UNCHANGED vars
  <2>1. UNCHANGED <<log, kept, delivered>>
    BY <1>5 DEF ServerBegins, ProcessRowDescription, ClientReads, vars, client
  <2> QED BY <2>1 DEF Promise!vars
<1> QED BY <1>1, <1>2, <1>3, <1>4, <1>5 DEF Next, ServerNext

(* What such a client is told is what ResultStream promises: each of its    *)
(* queries is answered once and in turn, with its own description, exactly  *)
(* the rows the mutators let through and its own completion, all at once,   *)
(* or with one error.                                                       *)
THEOREM PromiseIsKept ==
  ASSUME ClientWaits, FailsEarly
  PROVE  Spec => PromiseKept
<1>1. Init => Promise!Init
  <2> SUFFICES ASSUME Init PROVE Promise!Init
    OBVIOUS
  <2>1. DOMAIN log = {}
    BY DEF Init
  <2>2. [i \in DOMAIN log |-> Expects(log[i])] = <<>>
    BY <2>1
  <2> QED BY <2>2 DEF Init, Promise!Init
<1>2. TypeOK /\ TypeOK' /\ WaitingHeld /\ PromiseHeld /\ [Next]_vars
        => [Promise!Next]_Promise!vars
  BY StepIsPromised
<1> QED BY <1>1, <1>2, TypeCorrect, WaitingIsHeld, PromiseIsHeld, PTL
        DEF Spec, PromiseKept, Promise!Spec
=============================================================================
