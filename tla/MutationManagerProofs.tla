------------------------- MODULE MutationManagerProofs -------------------------
(***************************************************************************)
(* Theorems about MutationManager, for any pipelining and any failures:    *)
(* types; the rows a client is shown, in the order of the server; one      *)
(* ReadyForQuery for each query.                                           *)
(***************************************************************************)
EXTENDS MutationManager, SequenceTheorems, TLAPS

-----------------------------------------------------------------------------
(* Types of numbers and messages.                                           *)

LEMMA QueryNumbers ==
  /\ \A q \in QueryNumber : q \in QueryNumberOrNone /\ q # 0
  /\ \A q \in QueryNumberOrNone : q \in Nat /\ (q # 0 => q \in QueryNumber)
  /\ 0 \in QueryNumberOrNone
BY BoundsAssumption DEF QueryNumber, QueryNumberOrNone

LEMMA MessagesAreTyped ==
  /\ Null \in MessageType
  /\ \A q, s \in Nat : /\ RowDescription(q, s) \in MessageType
                       /\ CommandComplete(q, s) \in MessageType
                       /\ ErrorResponse(q, s) \in MessageType
  /\ \A q, s, n \in Nat, fit \in BOOLEAN : DataRow(q, s, n, fit) \in MessageType
  /\ \A q \in Nat : EmptyQueryResponse(q) \in MessageType
  /\ \A q \in Nat, status \in Statuses : ReadyForQuery(q, status) \in MessageType
BY DEF Null, RowDescription, CommandComplete, ErrorResponse, DataRow,
       EmptyQueryResponse, ReadyForQuery, Message, MessageType, Types, Statuses

(* What a client can be told: a message that has not been moved from.       *)
Whole == MessageType \ {Null}

LEMMA MessagesAreWhole ==
  /\ \A q, s \in Nat : /\ RowDescription(q, s) \in Whole
                       /\ CommandComplete(q, s) \in Whole
                       /\ ErrorResponse(q, s) \in Whole
  /\ \A q \in Nat : EmptyQueryResponse(q) \in Whole
  /\ \A q \in Nat, status \in Statuses : ReadyForQuery(q, status) \in Whole
<1>1. \A message \in MessageType : message.type # Null.type => message \in Whole
  BY DEF Whole
<1> QED BY <1>1, MessagesAreTyped
        DEF Null, RowDescription, CommandComplete, ErrorResponse, EmptyQueryResponse,
            ReadyForQuery, Message

LEMMA WholeSequences ==
  ASSUME NEW s
  PROVE  s \in Seq(Whole) <=> /\ s \in Seq(MessageType)
                              /\ \A i \in DOMAIN s : s[i] # Null
<1>1. ASSUME s \in Seq(Whole)
      PROVE  s \in Seq(MessageType) /\ \A i \in DOMAIN s : s[i] # Null
  <2>1. Whole \subseteq MessageType
    BY DEF Whole
  <2>2. \A i \in DOMAIN s : s[i] \in Whole
    BY <1>1, LenProperties, ElementOfSeq
  <2> QED BY <1>1, <2>1, <2>2, SeqMonotonic DEF Whole
<1>2. ASSUME s \in Seq(MessageType), \A i \in DOMAIN s : s[i] # Null
      PROVE  s \in Seq(Whole)
  <2>1. /\ Len(s) \in Nat /\ s \in [1 .. Len(s) -> MessageType]
        /\ \A i \in 1 .. Len(s) : s[i] \in Whole
    BY <1>2, LenProperties, ElementOfSeq DEF Whole
  <2>2. s \in [1 .. Len(s) -> Whole]
    BY <2>1
  <2> QED BY <2>1, <2>2, SeqDef
<1> QED BY <1>1, <1>2

LEMMA ErrorAnswerIsTyped ==
  ASSUME NEW q \in Nat
  PROVE  ErrorAnswer(q) \in Seq(MessageType) /\ ErrorAnswer(q) \in Seq(Whole)
<1>1. ErrorResponse(q, 0) \in Whole /\ ReadyForQuery(q, "I") \in Whole
  BY MessagesAreWhole DEF Statuses
<1>2. ErrorAnswer(q) \in Seq(Whole)
  BY <1>1 DEF ErrorAnswer
<1> QED BY <1>2, WholeSequences

LEMMA ToldIsWhole ==
  ASSUME TypeOK
  PROVE  delivered \in Seq(Whole)
BY WholeSequences DEF TypeOK, ClientTypes

(* The query and the statement the server is at.                            *)
LEMMA ServerAtQuery ==
  ASSUME BackendTypes, server.phase # "idle"
  PROVE  /\ server.q \in QueryNumber /\ server.q \in Nat /\ server.s \in Nat
         /\ server.q \in QueryNumberOrNone
BY QueryNumbers DEF BackendTypes, ServerType

-----------------------------------------------------------------------------
(* Type correctness: one lemma for each action.                             *)

LEMMA InitTyped == Init => TypeOK
<1> SUFFICES ASSUME Init PROVE TypeOK
  OBVIOUS
<1>1. ClientTypes
  BY QueryNumbers, BoundsAssumption, EmptySeq DEF Init, ClientTypes
<1>2. BackendTypes
  BY QueryNumbers, BoundsAssumption DEF Init, BackendTypes, Idle, ServerType
<1>3. RetainedTypes
  BY QueryNumbers, MessagesAreTyped DEF Init, RetainedTypes
<1>4. MetadataTypes
  BY QueryNumbers DEF Init, MetadataTypes
<1>5. FailureTypes
  BY DEF Init, FailureTypes
<1> QED BY <1>1, <1>2, <1>3, <1>4, <1>5 DEF TypeOK

LEMMA ClientQueryTyped ==
  ASSUME TypeOK, NEW kind \in Queries, ClientQuery(kind)
  PROVE  TypeOK'
<1> DEFINE q == Len(log) + 1
<1>1. q \in QueryNumber /\ q \in QueryNumberOrNone /\ q \in Nat
  BY BoundsAssumption, QueryNumbers
     DEF ClientQuery, TypeOK, ClientTypes, QueryNumber
<1>2. log' \in Seq(Queries) /\ Len(log') <= MaxQueries
  BY BoundsAssumption, AppendProperties DEF ClientQuery, TypeOK, ClientTypes
<1>3. UNCHANGED <<read, ready, server, tx, serial, kept>>
  BY DEF ClientQuery
<1> HIDE DEF q
<1>4. \/ ProcessQuery(kind, q)
      \/ ProcessQueryPanics(kind, q)
      \/ ProcessParse(kind, q)
  BY DEF ClientQuery, q
<1>5. delivered' \in Seq(Whole)
  <2>1. delivered \in Seq(Whole)
    BY ToldIsWhole
  <2>2. ErrorAnswer(q) \in Seq(Whole)
    BY <1>1, ErrorAnswerIsTyped
  <2>3. ErrorResponse(q, 0) \in Whole
    BY <1>1, MessagesAreWhole
  <2>4. \/ delivered' = delivered
        \/ delivered' = delivered \o ErrorAnswer(q)
        \/ delivered' = Append(delivered, ErrorResponse(q, 0))
    BY <1>4 DEF ProcessQuery, ProcessQueryPanics, ProcessParse
  <2> QED BY <2>1, <2>2, <2>3, <2>4, ConcatProperties, AppendProperties
<1>6. toServer' \in Seq(QueryNumber)
  <2>1. toServer \in Seq(QueryNumber)
    BY DEF TypeOK, BackendTypes
  <2>2. toServer' = toServer \/ toServer' = Append(toServer, q)
    BY <1>4 DEF ProcessQuery, ProcessQueryPanics, ProcessParse
  <2> QED BY <1>1, <2>1, <2>2, AppendProperties
<1>7. RetainedTypes'
  <2>1. /\ errorState' = errorState \/ errorState' = 0
        /\ retentRowDescription' = retentRowDescription
        /\ retentRows' = retentRows \/ retentRows' = <<>>
    BY <1>4 DEF ProcessQuery, ProcessQueryPanics, ProcessParse, retained
  <2>2. retentRows' \in Seq(MessageType)
    BY <2>1, EmptySeq DEF TypeOK, RetainedTypes
  <2>3. errorState' \in QueryNumberOrNone
    BY <2>1, QueryNumbers DEF TypeOK, RetainedTypes
  <2> QED BY <1>3, <2>1, <2>2, <2>3 DEF TypeOK, RetainedTypes
<1>8. MetadataTypes'
  <2>1. \/ UNCHANGED metadata
        \/ MutateQuery(kind, q)
    BY <1>4 DEF ProcessQuery, ProcessQueryPanics, ProcessParse
  <2> QED BY <1>1, <2>1 DEF TypeOK, MetadataTypes, MutateQuery, metadata
<1>9. FailureTypes'
  BY <1>4 DEF ProcessQuery, ProcessQueryPanics, ProcessParse, Assert, TypeOK,
              FailureTypes, Handlers
<1>10. /\ delivered' \in Seq(MessageType)
       /\ \A i \in DOMAIN delivered' : delivered'[i] # Null
  BY <1>5, WholeSequences
<1> QED BY <1>2, <1>3, <1>6, <1>7, <1>8, <1>9, <1>10
        DEF TypeOK, ClientTypes, BackendTypes

LEMMA ClientReadsTyped == TypeOK /\ ClientReads => TypeOK'
<1> SUFFICES ASSUME TypeOK, ClientReads PROVE TypeOK'
  OBVIOUS
<1>1. read' \in Nat
  BY DEF ClientReads, TypeOK, ClientTypes
<1>2. ready' \in QueryNumberOrNone
  BY BoundsAssumption DEF ClientReads, TypeOK, ClientTypes, QueryNumberOrNone
<1> QED BY <1>1, <1>2
        DEF TypeOK, ClientTypes, BackendTypes, RetainedTypes, MetadataTypes,
            FailureTypes, ClientReads, backend, retained, metadata

LEMMA ServerBeginsTyped == TypeOK /\ ServerBegins => TypeOK'
<1> SUFFICES ASSUME TypeOK, ServerBegins PROVE TypeOK'
  OBVIOUS
<1>1. Head(toServer) \in QueryNumber /\ Tail(toServer) \in Seq(QueryNumber)
  BY HeadTailProperties DEF TypeOK, BackendTypes, ServerBegins
<1>2. FirstPhase(Head(toServer)) \in {"start", "empty"}
  BY DEF FirstPhase
<1>3. BackendTypes'
  BY <1>1, <1>2, QueryNumbers, BoundsAssumption
     DEF TypeOK, BackendTypes, ServerType, ServerBegins
<1> QED BY <1>3
        DEF TypeOK, ClientTypes, RetainedTypes, MetadataTypes, FailureTypes,
            ServerBegins, client, retained, metadata

LEMMA RowConfigIsTyped ==
  ASSUME NEW q \in QueryNumberOrNone, NEW whole \in BOOLEAN
  PROVE  [of |-> q, whole |-> whole] \in [of : QueryNumberOrNone, whole : BOOLEAN]
OBVIOUS

LEMMA RowDescriptionTyped == TypeOK /\ ProcessRowDescription => TypeOK'
<1> SUFFICES ASSUME TypeOK, ProcessRowDescription PROVE TypeOK'
  OBVIOUS
<1>1. server.q \in QueryNumberOrNone /\ server.q \in Nat /\ server.s \in Nat
  BY ServerAtQuery DEF TypeOK, ProcessRowDescription
<1>2. RowDescription(server.q, server.s) \in MessageType
  BY <1>1, MessagesAreTyped
<1>3. seen.join \in Nat
  BY QueryNumbers DEF TypeOK, MetadataTypes
<1>4. \/ DescriptionRetained
      \/ DescriptionAmbiguous
      \/ DescriptionLacksJoinColumn
  BY DEF ProcessRowDescription
<1>5. RetainedTypes'
  <2>1. errorState' \in QueryNumberOrNone
    BY <1>1, <1>4, QueryNumbers
       DEF DescriptionRetained, DescriptionAmbiguous, DescriptionLacksJoinColumn
  <2>2. retentRowDescription' \in MessageType
    BY <1>2, <1>4
       DEF TypeOK, RetainedTypes, DescriptionRetained, DescriptionAmbiguous,
           DescriptionLacksJoinColumn
  <2> QED BY <2>1, <2>2 DEF TypeOK, RetainedTypes, ProcessRowDescription
<1>6. MetadataTypes'
  <2>1. seen' = seen /\ seen.encryption \in QueryNumberOrNone
    BY <1>4 DEF TypeOK, MetadataTypes, DescriptionRetained, DescriptionAmbiguous,
                DescriptionLacksJoinColumn
  <2>2. dataRowConfig' \in [of : QueryNumberOrNone, whole : BOOLEAN]
    <3>1. \/ dataRowConfig' = [of |-> seen.encryption, whole |-> TRUE]
          \/ dataRowConfig' = [of |-> seen.encryption, whole |-> FALSE]
      BY <1>4 DEF DescriptionRetained, DescriptionAmbiguous, DescriptionLacksJoinColumn
    <3> QED BY <2>1, <3>1, RowConfigIsTyped
  <2>3. <<seen.join, server.q, server.s>> \in Nat \X Nat \X Nat
    BY <1>1, <1>3
  <2>4. joinIndices' \subseteq Nat \X Nat \X Nat
    BY <1>4, <2>3
       DEF TypeOK, MetadataTypes, DescriptionRetained, DescriptionAmbiguous,
           DescriptionLacksJoinColumn
  <2> QED BY <2>1, <2>2, <2>4 DEF TypeOK, MetadataTypes
<1>7. BackendTypes'
  BY DEF TypeOK, BackendTypes, ServerType, ProcessRowDescription
<1>8. FailureTypes'
  BY DEF TypeOK, FailureTypes, Assert, Handlers, ProcessRowDescription
<1> QED BY <1>5, <1>6, <1>7, <1>8
        DEF TypeOK, ClientTypes, ProcessRowDescription, client

LEMMA DataRowTyped == TypeOK /\ ProcessDataRow => TypeOK'
<1> SUFFICES ASSUME TypeOK, ProcessDataRow PROVE TypeOK'
  OBVIOUS
<1>1. /\ server.q \in QueryNumberOrNone /\ server.q \in Nat /\ server.s \in Nat
      /\ serial + 1 \in Nat
  BY ServerAtQuery DEF TypeOK, BackendTypes, ProcessDataRow
<1>2. DataRow(server.q, server.s, serial + 1, Fit) \in MessageType
  BY <1>1, MessagesAreTyped DEF Fit
<1>3. RowDiscarded \/ RowRetained \/ RowNotDecrypted \/ RowFailsJoin \/ RowOutOfBounds
  BY DEF ProcessDataRow
<1>4. RetainedTypes'
  <2>1. errorState' \in QueryNumberOrNone
    BY <1>1, <1>3
       DEF TypeOK, RetainedTypes, RowDiscarded, RowRetained, RowNotDecrypted,
           RowFailsJoin, RowOutOfBounds
  <2>2. CASE RowRetained
    <3>1. retentRows' \in Seq(MessageType)
      BY <1>2, <2>2, AppendProperties DEF TypeOK, RetainedTypes, RowRetained
    <3>2. kept' \in Seq(MessageType)
      BY <1>2, <2>2, AppendProperties DEF TypeOK, RetainedTypes, RowRetained
    <3> QED BY <2>1, <3>1, <3>2 DEF TypeOK, RetainedTypes, ProcessDataRow
  <2>3. CASE ~RowRetained
    <3>1. UNCHANGED <<retentRows, kept>>
      BY <1>3, <2>3 DEF RowDiscarded, RowNotDecrypted, RowFailsJoin, RowOutOfBounds
    <3> QED BY <2>1, <3>1 DEF TypeOK, RetainedTypes, ProcessDataRow
  <2> QED BY <2>2, <2>3
<1>5. BackendTypes'
  BY <1>1, BoundsAssumption DEF TypeOK, BackendTypes, ServerType, ProcessDataRow
<1>6. FailureTypes'
  BY <1>3 DEF TypeOK, FailureTypes, Assert, Handlers, ProcessDataRow, RowDiscarded,
              RowRetained, RowNotDecrypted, RowFailsJoin, RowOutOfBounds
<1> QED BY <1>4, <1>5, <1>6
        DEF TypeOK, ClientTypes, MetadataTypes, ProcessDataRow, client, metadata

LEMMA RetainedDescriptionIsTyped ==
  ASSUME RetainedTypes
  PROVE  RetainedDescription \in Seq(MessageType)
BY DEF RetainedTypes, RetainedDescription

LEMMA EmissionIsWhole ==
  ASSUME RetainedTypes, \A i \in DOMAIN retentRows : retentRows[i] # Null
  PROVE  RetainedDescription \in Seq(Whole) /\ retentRows \in Seq(Whole)
<1>1. retentRowDescription # Null => retentRowDescription \in Whole
  BY DEF RetainedTypes, Whole
<1>2. RetainedDescription \in Seq(Whole)
  BY <1>1 DEF RetainedDescription
<1> QED BY <1>2, WholeSequences DEF RetainedTypes

LEMMA EmptiedRowsAreTyped ==
  ASSUME RetainedTypes
  PROVE  [i \in DOMAIN retentRows |-> Null] \in Seq(MessageType)
<1>1. DOMAIN retentRows = 1 .. Len(retentRows) /\ Len(retentRows) \in Nat
  BY LenProperties DEF RetainedTypes
<1> QED BY <1>1, MessagesAreTyped

LEMMA CommandCompleteTyped == TypeOK /\ ProcessCommandComplete => TypeOK'
<1> SUFFICES ASSUME TypeOK, ProcessCommandComplete PROVE TypeOK'
  OBVIOUS
<1>1. server.q \in QueryNumberOrNone /\ server.q \in Nat /\ server.s \in Nat
  BY ServerAtQuery DEF TypeOK, ProcessCommandComplete, Completes
<1>2. <<CommandComplete(server.q, server.s)>> \in Seq(Whole)
  BY <1>1, MessagesAreWhole
<1>3. delivered \in Seq(Whole) /\ errorState \in Nat
  BY QueryNumbers, ToldIsWhole DEF TypeOK, RetainedTypes
<1>4. ResultEmitted \/ EmptiedRowEmitted \/ ErrorEmitted
  BY DEF ProcessCommandComplete
<1>5. delivered' \in Seq(Whole)
  <2>1. CASE ResultEmitted
    <3>1. RetainedDescription \in Seq(Whole) /\ retentRows \in Seq(Whole)
      BY <2>1, EmissionIsWhole DEF TypeOK, ResultEmitted
    <3>2. delivered \o RetainedDescription \in Seq(Whole)
      BY <1>3, <3>1, ConcatProperties
    <3>3. delivered \o RetainedDescription \o retentRows \in Seq(Whole)
      BY <3>1, <3>2, ConcatProperties
    <3> QED BY <1>2, <2>1, <3>3, ConcatProperties DEF ResultEmitted
  <2>2. CASE EmptiedRowEmitted
    BY <1>3, <2>2 DEF EmptiedRowEmitted
  <2>3. CASE ErrorEmitted
    <3>1. ErrorAnswer(errorState) \in Seq(Whole)
      BY <1>3, ErrorAnswerIsTyped
    <3>2. delivered \o ErrorAnswer(errorState) \in Seq(Whole)
      BY <1>3, <3>1, ConcatProperties
    <3> QED BY <1>2, <2>3, <3>2, ConcatProperties DEF ErrorEmitted
  <2> QED BY <1>4, <2>1, <2>2, <2>3
<1>6. RetainedTypes'
  <2>1. kept' = kept
    BY DEF ProcessCommandComplete
  <2>2. /\ errorState' \in {errorState, 0}
        /\ retentRowDescription' \in {retentRowDescription, Null}
        /\ retentRows' \in {retentRows, [i \in DOMAIN retentRows |-> Null]}
    BY <1>4 DEF ResultEmitted, EmptiedRowEmitted, ErrorEmitted, retained
  <2> QED BY <2>1, <2>2, QueryNumbers, MessagesAreTyped, EmptiedRowsAreTyped
          DEF TypeOK, RetainedTypes
<1>7. BackendTypes'
  <2>1. tx' \in {"I", "T", "E"}
    BY DEF TypeOK, BackendTypes, ProcessCommandComplete, TxAfterComplete
  <2>2. server' \in ServerType /\ server'.q = server.q
    <3>1. server \in ServerType
      BY DEF TypeOK, BackendTypes
    <3>2. server.s + 1 \in Nat /\ 0 \in 0 .. MaxRows
      BY <1>1, BoundsAssumption
    <3>3. StatementDone
      BY DEF ProcessCommandComplete
    <3> QED BY <3>1, <3>2, <3>3 DEF ServerType, StatementDone
  <2>3. server.q # 0
    BY DEF TypeOK, BackendTypes, ProcessCommandComplete, Completes
  <2> QED BY <2>1, <2>2, <2>3 DEF TypeOK, BackendTypes, ProcessCommandComplete
<1>8. FailureTypes'
  BY <1>4 DEF TypeOK, FailureTypes, Handlers, ResultEmitted, EmptiedRowEmitted,
              ErrorEmitted
<1>9. /\ delivered' \in Seq(MessageType)
      /\ \A i \in DOMAIN delivered' : delivered'[i] # Null
  BY <1>5, WholeSequences
<1> QED BY <1>6, <1>7, <1>8, <1>9
        DEF TypeOK, ClientTypes, MetadataTypes, ProcessCommandComplete, client,
            metadata

LEMMA ErrorResponseTyped == TypeOK /\ ProcessErrorResponse => TypeOK'
<1> SUFFICES ASSUME TypeOK, ProcessErrorResponse PROVE TypeOK'
  OBVIOUS
<1>1. server.q \in QueryNumberOrNone /\ server.q \in Nat /\ server.s \in Nat
  BY ServerAtQuery DEF TypeOK, ProcessErrorResponse, Fails
<1>2. ErrorResponse(server.q, server.s) \in Whole
  BY <1>1, MessagesAreWhole
<1>3. /\ delivered' \in Seq(MessageType)
      /\ \A i \in DOMAIN delivered' : delivered'[i] # Null
  <2>1. delivered' \in Seq(Whole)
    BY <1>2, ToldIsWhole, AppendProperties DEF ProcessErrorResponse
  <2> QED BY <2>1, WholeSequences
<1>4. BackendTypes'
  <2>1. server' \in ServerType /\ server'.q = server.q
    <3>1. server \in ServerType /\ 0 \in 0 .. MaxRows
      BY BoundsAssumption DEF TypeOK, BackendTypes
    <3>2. server' = [server EXCEPT !.phase = "done", !.rows = 0]
      BY DEF ProcessErrorResponse
    <3> QED BY <3>1, <3>2 DEF ServerType
  <2>2. server.q # 0
    BY DEF TypeOK, BackendTypes, ProcessErrorResponse, Fails
  <2>3. tx' \in {"I", "T", "E"}
    BY DEF TypeOK, BackendTypes, ProcessErrorResponse
  <2> QED BY <2>1, <2>2, <2>3 DEF TypeOK, BackendTypes, ProcessErrorResponse
<1>5. FailureTypes'
  BY DEF TypeOK, FailureTypes, Assert, Handlers, ProcessErrorResponse
<1> QED BY <1>3, <1>4, <1>5
        DEF TypeOK, ClientTypes, RetainedTypes, MetadataTypes,
            ProcessErrorResponse, client, retained, metadata

LEMMA EmptyQueryResponseTyped == TypeOK /\ ProcessEmptyQueryResponse => TypeOK'
<1> SUFFICES ASSUME TypeOK, ProcessEmptyQueryResponse PROVE TypeOK'
  OBVIOUS
<1>1. server.q \in QueryNumberOrNone /\ server.q \in Nat
  BY ServerAtQuery DEF TypeOK, ProcessEmptyQueryResponse
<1>2. EmptyQueryResponse(server.q) \in Whole
  BY <1>1, MessagesAreWhole
<1>3. /\ delivered' \in Seq(MessageType)
      /\ \A i \in DOMAIN delivered' : delivered'[i] # Null
  <2>1. delivered' \in Seq(Whole)
    BY <1>2, ToldIsWhole, AppendProperties DEF ProcessEmptyQueryResponse
  <2> QED BY <2>1, WholeSequences
<1>4. BackendTypes'
  BY <1>1 DEF TypeOK, BackendTypes, ServerType, ProcessEmptyQueryResponse
<1>5. FailureTypes'
  BY DEF TypeOK, FailureTypes, Assert, Handlers, ProcessEmptyQueryResponse
<1> QED BY <1>3, <1>4, <1>5
        DEF TypeOK, ClientTypes, RetainedTypes, MetadataTypes,
            ProcessEmptyQueryResponse, client, retained, metadata

LEMMA ReadyForQueryTyped == TypeOK /\ PassReadyForQuery => TypeOK'
<1> SUFFICES ASSUME TypeOK, PassReadyForQuery PROVE TypeOK'
  OBVIOUS
<1>1. server.q \in Nat /\ tx \in Statuses
  BY ServerAtQuery DEF TypeOK, BackendTypes, PassReadyForQuery, Statuses
<1>2. ReadyForQuery(server.q, tx) \in Whole
  BY <1>1, MessagesAreWhole
<1>3. /\ delivered' \in Seq(MessageType)
      /\ \A i \in DOMAIN delivered' : delivered'[i] # Null
  <2>1. delivered' \in Seq(Whole)
    BY <1>2, ToldIsWhole, AppendProperties DEF PassReadyForQuery
  <2> QED BY <2>1, WholeSequences
<1>4. BackendTypes'
  BY QueryNumbers, BoundsAssumption
     DEF TypeOK, BackendTypes, ServerType, Idle, PassReadyForQuery
<1> QED BY <1>3, <1>4
        DEF TypeOK, ClientTypes, RetainedTypes, MetadataTypes, FailureTypes,
            PassReadyForQuery, client, retained, metadata

LEMMA StutterTyped == TypeOK /\ UNCHANGED vars => TypeOK'
BY DEF TypeOK, ClientTypes, BackendTypes, RetainedTypes, MetadataTypes,
       FailureTypes, vars, client, backend, retained, metadata

(* Every reachable state is well typed: no handler, in whatever order the   *)
(* messages of both sides arrive, loses count of the queries under way.     *)
THEOREM TypeCorrect == Spec => []TypeOK
<1>1. Init => TypeOK
  BY InitTyped
<1>2. TypeOK /\ [Next]_vars => TypeOK'
  BY ClientQueryTyped, ClientReadsTyped, ServerBeginsTyped, RowDescriptionTyped,
     DataRowTyped, CommandCompleteTyped, ErrorResponseTyped,
     EmptyQueryResponseTyped, ReadyForQueryTyped, StutterTyped
     DEF Next, ServerNext
<1> QED BY <1>1, <1>2, PTL DEF Spec

-----------------------------------------------------------------------------
(* The order of rows, whatever overlaps and fails, and their place behind a *)
(* description as long as no mutator reports an error.                      *)

(* Sequences of messages.                                                   *)

LEMMA SerialsAreNumbers ==
  ASSUME NEW a \in Seq(MessageType)
  PROVE  \A i \in DOMAIN a : a[i].n \in Nat
<1>1. \A i \in DOMAIN a : a[i] \in MessageType
  BY LenProperties
<1> QED BY <1>1 DEF MessageType

LEMMA QuietTail ==
  ASSUME NEW a \in Seq(MessageType), NEW b \in Seq(MessageType), WithoutRows(b)
  PROVE  /\ Increasing(a) => Increasing(a \o b)
         /\ \A k \in Nat : UpTo(a, k) => UpTo(a \o b, k)
         /\ \A c \in Seq(MessageType) : Before(a, c) => Before(a \o b, c)
<1>1. /\ DOMAIN a = 1 .. Len(a) /\ DOMAIN b = 1 .. Len(b)
      /\ Len(a) \in Nat /\ Len(b) \in Nat
      /\ DOMAIN (a \o b) = 1 .. Len(a) + Len(b)
  BY LenProperties, ConcatProperties
<1>2. \A i \in DOMAIN (a \o b) :
        IsRow((a \o b)[i]) => i \in DOMAIN a /\ (a \o b)[i] = a[i]
  BY <1>1, ConcatProperties DEF WithoutRows
<1>3. Increasing(a) => Increasing(a \o b)
  BY <1>2 DEF Increasing
<1>4. \A k \in Nat : UpTo(a, k) => UpTo(a \o b, k)
  BY <1>2 DEF UpTo
<1>5. \A c \in Seq(MessageType) : Before(a, c) => Before(a \o b, c)
  BY <1>2 DEF Before
<1> QED BY <1>3, <1>4, <1>5

LEMMA RowsBehindRows ==
  ASSUME NEW a \in Seq(MessageType), NEW b \in Seq(MessageType),
         Increasing(a), Increasing(b), Before(a, b)
  PROVE  Increasing(a \o b)
<1>1. /\ DOMAIN a = 1 .. Len(a) /\ DOMAIN b = 1 .. Len(b)
      /\ Len(a) \in Nat /\ Len(b) \in Nat
      /\ DOMAIN (a \o b) = 1 .. Len(a) + Len(b)
  BY LenProperties, ConcatProperties
<1>2. SUFFICES ASSUME NEW i \in DOMAIN (a \o b), NEW j \in DOMAIN (a \o b), i < j,
                      IsRow((a \o b)[i]), IsRow((a \o b)[j])
               PROVE  (a \o b)[i].n < (a \o b)[j].n
  BY DEF Increasing
<1>3. CASE j <= Len(a)
  <2>1. i \in DOMAIN a /\ j \in DOMAIN a /\ (a \o b)[i] = a[i] /\ (a \o b)[j] = a[j]
    BY <1>1, <1>2, <1>3, ConcatProperties
  <2> QED BY <1>2, <2>1 DEF Increasing
<1>4. CASE i > Len(a)
  <2>1. /\ i - Len(a) \in DOMAIN b /\ j - Len(a) \in DOMAIN b
        /\ i - Len(a) < j - Len(a)
        /\ (a \o b)[i] = b[i - Len(a)] /\ (a \o b)[j] = b[j - Len(a)]
    BY <1>1, <1>2, <1>4, ConcatProperties
  <2> QED BY <1>2, <2>1 DEF Increasing
<1>5. CASE i <= Len(a) /\ j > Len(a)
  <2>1. /\ i \in DOMAIN a /\ j - Len(a) \in DOMAIN b
        /\ (a \o b)[i] = a[i] /\ (a \o b)[j] = b[j - Len(a)]
    BY <1>1, <1>2, <1>5, ConcatProperties
  <2> QED BY <1>2, <2>1 DEF Before
<1> QED BY <1>1, <1>3, <1>4, <1>5

LEMMA UpToBoth ==
  ASSUME NEW a \in Seq(MessageType), NEW b \in Seq(MessageType), NEW k \in Nat,
         UpTo(a, k), UpTo(b, k)
  PROVE  UpTo(a \o b, k)
<1>1. /\ DOMAIN a = 1 .. Len(a) /\ DOMAIN b = 1 .. Len(b)
      /\ Len(a) \in Nat /\ Len(b) \in Nat
      /\ DOMAIN (a \o b) = 1 .. Len(a) + Len(b)
  BY LenProperties, ConcatProperties
<1>2. SUFFICES ASSUME NEW i \in DOMAIN (a \o b), IsRow((a \o b)[i])
               PROVE  (a \o b)[i].n <= k
  BY DEF UpTo
<1>3. CASE i <= Len(a)
  <2>1. i \in DOMAIN a /\ (a \o b)[i] = a[i]
    BY <1>1, <1>3, ConcatProperties
  <2> QED BY <1>2, <2>1 DEF UpTo
<1>4. CASE i > Len(a)
  <2>1. i - Len(a) \in DOMAIN b /\ (a \o b)[i] = b[i - Len(a)]
    BY <1>1, <1>4, ConcatProperties
  <2> QED BY <1>2, <2>1 DEF UpTo
<1> QED BY <1>1, <1>3, <1>4

LEMMA NothingIsOrdered ==
  ASSUME NEW b, WithoutRows(b)
  PROVE  /\ Increasing(b)
         /\ \A k \in Nat : UpTo(b, k)
         /\ \A a \in Seq(MessageType) : Before(a, b)
BY DEF WithoutRows, Increasing, UpTo, Before

LEMMA KindsOfMessages ==
  /\ \A q, s \in Nat : /\ WithoutRows(<<CommandComplete(q, s)>>)
                       /\ WithoutRows(<<ErrorResponse(q, s)>>)
                       /\ ~IsRow(RowDescription(q, s))
  /\ \A q \in Nat : WithoutRows(<<EmptyQueryResponse(q)>>)
  /\ \A q \in Nat : WithoutRows(ErrorAnswer(q))
  /\ \A q \in Nat, status \in Statuses : WithoutRows(<<ReadyForQuery(q, status)>>)
  /\ ~IsRow(Null)
BY DEF WithoutRows, IsRow, Null, RowDescription, CommandComplete, ErrorResponse,
       EmptyQueryResponse, ReadyForQuery, Message, ErrorAnswer

-----------------------------------------------------------------------------
(* RowOrder is inductive.                                                   *)

LEMMA InitOrder == Init => RowOrder
BY KindsOfMessages
   DEF Init, RowOrder, Increasing, Before, UpTo

(* A step that writes no row and leaves the retained rows or drops them.    *)
LEMMA QuietStep ==
  ASSUME TypeOK, RowOrder,
         NEW b \in Seq(MessageType), WithoutRows(b),
         delivered' = delivered \o b,
         retentRows' = retentRows \/ retentRows' = <<>>,
         serial' = serial,
         ~IsRow(retentRowDescription')
  PROVE  RowOrder'
<1>1. delivered \in Seq(MessageType) /\ retentRows \in Seq(MessageType) /\ serial \in Nat
  BY DEF TypeOK, ClientTypes, RetainedTypes, BackendTypes
<1>2. /\ Increasing(delivered \o b)
      /\ UpTo(delivered \o b, serial)
      /\ Before(delivered \o b, retentRows)
  BY <1>1, QuietTail DEF RowOrder
<1>3. CASE retentRows' = retentRows
  BY <1>2, <1>3 DEF RowOrder
<1>4. CASE retentRows' = <<>>
  <2>1. Increasing(<<>>) /\ UpTo(<<>>, serial) /\ Before(delivered \o b, <<>>)
    BY DEF Increasing, UpTo, Before
  <2> QED BY <1>2, <1>4, <2>1 DEF RowOrder
<1> QED BY <1>3, <1>4

(* ... in particular one that writes nothing.                               *)
LEMMA SilentStep ==
  ASSUME TypeOK, RowOrder, delivered' = delivered,
         retentRows' = retentRows \/ retentRows' = <<>>, serial' = serial,
         ~IsRow(retentRowDescription')
  PROVE  RowOrder'
<1>1. delivered \in Seq(MessageType) /\ delivered \o <<>> = delivered
  BY ConcatEmptySeq DEF TypeOK, ClientTypes
<1>2. <<>> \in Seq(MessageType) /\ WithoutRows(<<>>)
  BY EmptySeq DEF WithoutRows
<1> QED BY <1>1, <1>2, QuietStep

LEMMA ClientQueryOrder ==
  ASSUME TypeOK, RowOrder, NEW kind \in Queries, ClientQuery(kind)
  PROVE  RowOrder'
<1> DEFINE q == Len(log) + 1
<1>1. q \in Nat /\ delivered \in Seq(MessageType)
  BY DEF TypeOK, ClientTypes
<1>2. serial' = serial
  BY DEF ClientQuery
<1> HIDE DEF q
<1>3. \/ ProcessQuery(kind, q)
      \/ ProcessQueryPanics(kind, q)
      \/ ProcessParse(kind, q)
  BY DEF ClientQuery, q
<1>4. ~IsRow(retentRowDescription')
  BY <1>3 DEF RowOrder, ProcessQuery, ProcessQueryPanics, ProcessParse, retained
<1>5. retentRows' = retentRows \/ retentRows' = <<>>
  BY <1>3 DEF ProcessQuery, ProcessQueryPanics, ProcessParse, retained
<1>6. \/ delivered' = delivered
      \/ delivered' = delivered \o ErrorAnswer(q)
      \/ delivered' = Append(delivered, ErrorResponse(q, 0))
  BY <1>3 DEF ProcessQuery, ProcessQueryPanics, ProcessParse
<1>7. CASE delivered' = delivered
  BY <1>2, <1>4, <1>5, <1>7, SilentStep
<1>8. CASE delivered' = delivered \o ErrorAnswer(q)
  BY <1>1, <1>2, <1>4, <1>5, <1>8, QuietStep, ErrorAnswerIsTyped, KindsOfMessages
<1>9. CASE delivered' = Append(delivered, ErrorResponse(q, 0))
  <2>1. ErrorResponse(q, 0) \in MessageType /\ <<ErrorResponse(q, 0)>> \in Seq(MessageType)
    BY <1>1, MessagesAreTyped
  <2>2. delivered' = delivered \o <<ErrorResponse(q, 0)>>
    BY <1>1, <1>9, <2>1, AppendIsConcat
  <2> QED BY <1>1, <1>2, <1>4, <1>5, <2>1, <2>2, QuietStep, KindsOfMessages
<1> QED BY <1>6, <1>7, <1>8, <1>9

(* The messages of the server that are passed on one by one.                *)
LEMMA PassedOnOrder ==
  ASSUME TypeOK, RowOrder,
         NEW m \in MessageType, ~IsRow(m),
         delivered' = Append(delivered, m),
         UNCHANGED <<retentRows, serial, retentRowDescription>>
  PROVE  RowOrder'
<1>1. delivered \in Seq(MessageType)
  BY DEF TypeOK, ClientTypes
<1>2. delivered' = delivered \o <<m>> /\ <<m>> \in Seq(MessageType)
  BY <1>1, AppendIsConcat
<1>3. WithoutRows(<<m>>)
  BY DEF WithoutRows
<1> QED BY <1>2, <1>3, QuietStep DEF RowOrder

LEMMA DataRowOrder == TypeOK /\ RowOrder /\ ProcessDataRow => RowOrder'
<1> SUFFICES ASSUME TypeOK, RowOrder, ProcessDataRow PROVE RowOrder'
  OBVIOUS
<1> DEFINE row == DataRow(server.q, server.s, serial + 1, Fit)
<1>1. /\ delivered \in Seq(MessageType) /\ retentRows \in Seq(MessageType)
      /\ serial \in Nat /\ serial' = serial + 1
      /\ delivered' = delivered /\ retentRowDescription' = retentRowDescription
  BY DEF TypeOK, ClientTypes, RetainedTypes, BackendTypes, ProcessDataRow, client
<1>2. retentRows' = retentRows \/ retentRows' = Append(retentRows, row)
  BY DEF ProcessDataRow, RowDiscarded, RowRetained, RowNotDecrypted, RowFailsJoin,
         RowOutOfBounds
<1>3. row \in MessageType /\ IsRow(row) /\ row.n = serial + 1
  <2>1. server.q \in Nat /\ server.s \in Nat
    BY ServerAtQuery DEF TypeOK, ProcessDataRow
  <2>2. row \in MessageType
    <3>1. Fit \in BOOLEAN
      BY DEF Fit
    <3> QED BY <1>1, <2>1, <3>1, MessagesAreTyped
  <2> QED BY <2>2 DEF DataRow, Message, IsRow
<1> HIDE DEF row
<1>4. UpTo(delivered, serial + 1) /\ UpTo(retentRows, serial + 1)
  <2>1. \A i \in DOMAIN delivered : delivered[i].n \in Nat
    BY <1>1, SerialsAreNumbers
  <2>2. \A i \in DOMAIN retentRows : retentRows[i].n \in Nat
    BY <1>1, SerialsAreNumbers
  <2> QED BY <1>1, <2>1, <2>2 DEF RowOrder, UpTo
<1>5. CASE retentRows' = retentRows
  BY <1>1, <1>4, <1>5 DEF RowOrder
<1>6. CASE retentRows' = Append(retentRows, row)
  <2>1. retentRows' = retentRows \o <<row>> /\ <<row>> \in Seq(MessageType)
    BY <1>1, <1>3, <1>6, AppendIsConcat
  <2>2. Increasing(<<row>>) /\ UpTo(<<row>>, serial + 1)
    BY <1>1, <1>3 DEF Increasing, UpTo
  <2>3. /\ DOMAIN <<row>> = {1} /\ <<row>>[1] = row
        /\ \A i \in DOMAIN retentRows : retentRows[i].n \in Nat
        /\ \A i \in DOMAIN delivered : delivered[i].n \in Nat
    BY <1>1, SerialsAreNumbers
  <2>4. Before(retentRows, <<row>>)
    BY <1>1, <1>3, <2>3 DEF RowOrder, UpTo, Before
  <2>5. Increasing(retentRows')
    BY <1>1, <2>1, <2>2, <2>4, RowsBehindRows DEF RowOrder
  <2>6. UpTo(retentRows', serial + 1)
    <3>1. serial + 1 \in Nat
      BY <1>1
    <3> QED BY <1>1, <1>4, <2>1, <2>2, <3>1, UpToBoth
  <2>7. Before(delivered, retentRows')
    <3>1. /\ DOMAIN retentRows' = 1 .. Len(retentRows) + 1
          /\ DOMAIN retentRows = 1 .. Len(retentRows)
          /\ Len(retentRows) \in Nat
          /\ \A i \in 1 .. Len(retentRows) : retentRows'[i] = retentRows[i]
          /\ retentRows'[Len(retentRows) + 1] = row
      BY <1>1, <1>3, <1>6, AppendProperties, LenProperties
    <3>2. \A i \in DOMAIN delivered : IsRow(delivered[i]) => delivered[i].n < row.n
      BY <1>1, <1>3, <2>3 DEF RowOrder, UpTo
    <3> QED BY <3>1, <3>2 DEF RowOrder, Before
  <2> QED BY <1>1, <1>4, <2>5, <2>6, <2>7 DEF RowOrder
<1> QED BY <1>2, <1>5, <1>6

LEMMA CommandCompleteOrder == TypeOK /\ RowOrder /\ ProcessCommandComplete => RowOrder'
<1> SUFFICES ASSUME TypeOK, RowOrder, ProcessCommandComplete PROVE RowOrder'
  OBVIOUS
<1> DEFINE last == <<CommandComplete(server.q, server.s)>>
<1>1. /\ delivered \in Seq(MessageType) /\ retentRows \in Seq(MessageType)
      /\ serial \in Nat /\ serial' = serial /\ errorState \in Nat
      /\ RetainedDescription \in Seq(MessageType)
  BY QueryNumbers, RetainedDescriptionIsTyped
     DEF TypeOK, ClientTypes, RetainedTypes, BackendTypes, ProcessCommandComplete
<1>2. last \in Seq(MessageType) /\ WithoutRows(last)
  <2>1. server.q \in Nat /\ server.s \in Nat
    BY ServerAtQuery DEF TypeOK, ProcessCommandComplete, Completes
  <2>2. last \in Seq(MessageType)
    BY <2>1, MessagesAreTyped
  <2>3. WithoutRows(last)
    BY <2>1, KindsOfMessages
  <2> QED BY <2>2, <2>3
<1>3. WithoutRows(RetainedDescription)
  BY DEF RowOrder, RetainedDescription, WithoutRows
<1> HIDE DEF last
<1>4. CASE ResultEmitted
  <2> DEFINE opened == delivered \o RetainedDescription
             shown == opened \o retentRows
             emptied == [i \in DOMAIN retentRows |-> Null]
  <2>1. /\ opened \in Seq(MessageType) /\ Increasing(opened)
        /\ UpTo(opened, serial) /\ Before(opened, retentRows)
    BY <1>1, <1>3, QuietTail, ConcatProperties DEF RowOrder
  <2>2. /\ shown \in Seq(MessageType) /\ Increasing(shown) /\ UpTo(shown, serial)
    <3> HIDE DEF opened
    <3> QED BY <1>1, <2>1, RowsBehindRows, UpToBoth, ConcatProperties DEF RowOrder
  <2>3. delivered' = shown \o last /\ retentRows' = emptied /\ retentRowDescription' = Null
    BY <1>4 DEF ResultEmitted, last
  <2>4. WithoutRows(emptied)
    BY KindsOfMessages DEF WithoutRows
  <2> HIDE DEF shown, emptied
  <2>5. /\ delivered' \in Seq(MessageType) /\ Increasing(delivered')
        /\ UpTo(delivered', serial)
    BY <1>1, <1>2, <2>2, <2>3, QuietTail, ConcatProperties
  <2> QED BY <1>1, <2>3, <2>4, <2>5, NothingIsOrdered, KindsOfMessages DEF RowOrder
<1>5. CASE EmptiedRowEmitted
  BY <1>1, <1>5, SilentStep DEF EmptiedRowEmitted, retained, RowOrder
<1>6. CASE ErrorEmitted
  <2> DEFINE answer == ErrorAnswer(errorState)
  <2>1. answer \in Seq(MessageType) /\ WithoutRows(answer)
    BY <1>1, ErrorAnswerIsTyped, KindsOfMessages
  <2> HIDE DEF answer
  <2>2. delivered' = delivered \o (answer \o last)
    <3>1. delivered' = (delivered \o answer) \o last
      BY <1>6 DEF ErrorEmitted, answer, last
    <3>2. (delivered \o answer) \o last = delivered \o (answer \o last)
      BY <1>1, <1>2, <2>1, ConcatAssociative
    <3> QED BY <3>1, <3>2
  <2>3. answer \o last \in Seq(MessageType) /\ WithoutRows(answer \o last)
    <3>1. /\ DOMAIN answer = 1 .. Len(answer) /\ DOMAIN last = 1 .. Len(last)
          /\ Len(answer) \in Nat /\ Len(last) \in Nat
          /\ answer \o last \in Seq(MessageType)
          /\ DOMAIN (answer \o last) = 1 .. Len(answer) + Len(last)
      BY <1>2, <2>1, LenProperties, ConcatProperties
    <3>2. ASSUME NEW i \in DOMAIN (answer \o last)
          PROVE  ~IsRow((answer \o last)[i])
      <4>1. CASE i <= Len(answer)
        BY <1>2, <2>1, <3>1, <4>1, ConcatProperties DEF WithoutRows
      <4>2. CASE i > Len(answer)
        <5>1. i - Len(answer) \in DOMAIN last /\ (answer \o last)[i] = last[i - Len(answer)]
          BY <1>2, <2>1, <3>1, <4>2, ConcatProperties
        <5> QED BY <1>2, <5>1 DEF WithoutRows
      <4> QED BY <3>1, <4>1, <4>2
    <3> QED BY <3>1, <3>2 DEF WithoutRows
  <2> QED BY <1>1, <1>6, <2>2, <2>3, QuietStep DEF ErrorEmitted, retained, RowOrder
<1> QED BY <1>4, <1>5, <1>6 DEF ProcessCommandComplete

LEMMA OtherServerStepsOrder ==
  ASSUME TypeOK, RowOrder,
         \/ ServerBegins
         \/ ProcessRowDescription
         \/ ProcessErrorResponse
         \/ ProcessEmptyQueryResponse
         \/ PassReadyForQuery
  PROVE  RowOrder'
<1>1. CASE ServerBegins
  BY <1>1, SilentStep DEF ServerBegins, RowOrder, retained
<1>2. CASE ProcessRowDescription
  <2>1. server.q \in Nat /\ server.s \in Nat
    BY <1>2, ServerAtQuery DEF TypeOK, ProcessRowDescription
  <2>2. ~IsRow(retentRowDescription')
    BY <1>2, <2>1, KindsOfMessages
       DEF RowOrder, ProcessRowDescription, DescriptionRetained,
           DescriptionAmbiguous, DescriptionLacksJoinColumn
  <2> QED BY <1>2, <2>2, SilentStep DEF ProcessRowDescription
<1>3. CASE ProcessErrorResponse
  <2>1. server.q \in Nat /\ server.s \in Nat
    BY <1>3, ServerAtQuery DEF TypeOK, ProcessErrorResponse, Fails
  <2>2. /\ ErrorResponse(server.q, server.s) \in MessageType
        /\ ~IsRow(ErrorResponse(server.q, server.s))
    BY <2>1, MessagesAreTyped DEF ErrorResponse, Message, IsRow
  <2> QED BY <1>3, <2>2, PassedOnOrder DEF ProcessErrorResponse, retained
<1>4. CASE ProcessEmptyQueryResponse
  <2>1. server.q \in Nat
    BY <1>4, ServerAtQuery DEF TypeOK, ProcessEmptyQueryResponse
  <2>2. /\ EmptyQueryResponse(server.q) \in MessageType
        /\ ~IsRow(EmptyQueryResponse(server.q))
    BY <2>1, MessagesAreTyped DEF EmptyQueryResponse, Message, IsRow
  <2> QED BY <1>4, <2>2, PassedOnOrder DEF ProcessEmptyQueryResponse, retained
<1>5. CASE PassReadyForQuery
  <2>1. server.q \in Nat /\ tx \in Statuses
    BY <1>5, ServerAtQuery DEF TypeOK, BackendTypes, PassReadyForQuery, Statuses
  <2>2. /\ ReadyForQuery(server.q, tx) \in MessageType
        /\ ~IsRow(ReadyForQuery(server.q, tx))
    BY <2>1, MessagesAreTyped DEF ReadyForQuery, Message, IsRow
  <2> QED BY <1>5, <2>2, PassedOnOrder DEF PassReadyForQuery, retained
<1> QED BY <1>1, <1>2, <1>3, <1>4, <1>5

LEMMA NextOrder == TypeOK /\ RowOrder /\ [Next]_vars => RowOrder'
<1> SUFFICES ASSUME TypeOK, RowOrder, [Next]_vars PROVE RowOrder'
  OBVIOUS
<1>1. CASE \E kind \in Queries : ClientQuery(kind)
  BY <1>1, ClientQueryOrder
<1>2. CASE ClientReads
  BY <1>2, SilentStep DEF ClientReads, RowOrder, backend, retained
<1>3. CASE ServerNext
  BY <1>3, DataRowOrder, CommandCompleteOrder, OtherServerStepsOrder DEF ServerNext
<1>4. CASE UNCHANGED vars
  BY <1>4, SilentStep DEF RowOrder, vars, backend, retained
<1> QED BY <1>1, <1>2, <1>3, <1>4 DEF Next

(* The retained rows are always the youngest and in order, whatever is      *)
(* pipelined and whoever fails.                                             *)
THEOREM RowOrderIsKept == Spec => []RowOrder
<1>1. Init => RowOrder
  BY InitOrder
<1>2. TypeOK /\ RowOrder /\ [Next]_vars => RowOrder'
  BY NextOrder
<1> QED BY <1>1, <1>2, TypeCorrect, PTL DEF Spec

(* So no row is delivered twice or behind a later one.                      *)
THEOREM RowsAreInServerOrder == Spec => []RowsInServerOrder
<1>1. RowOrder => RowsInServerOrder
  BY DEF RowOrder, RowsInServerOrder
<1> QED BY <1>1, RowOrderIsKept, PTL

-----------------------------------------------------------------------------
(* Rows behind descriptions, as long as the mutators report no error.       *)

Opened(seq) ==
  \A i \in DOMAIN seq : IsRow(seq[i]) => i > 1 /\ seq[i - 1].type \in {"T", "D"}

LEMMA OpenedMeansFollowing == RowsFollowDescription <=> Opened(delivered)
BY DEF RowsFollowDescription, Opened, IsRow

LEMMA QuietTailOpened ==
  ASSUME NEW a \in Seq(MessageType), NEW b \in Seq(MessageType),
         Opened(a), WithoutRows(b)
  PROVE  Opened(a \o b)
<1>1. /\ DOMAIN a = 1 .. Len(a) /\ DOMAIN b = 1 .. Len(b)
      /\ Len(a) \in Nat /\ Len(b) \in Nat
      /\ DOMAIN (a \o b) = 1 .. Len(a) + Len(b)
  BY LenProperties, ConcatProperties
<1>2. SUFFICES ASSUME NEW i \in DOMAIN (a \o b), IsRow((a \o b)[i])
               PROVE  i > 1 /\ (a \o b)[i - 1].type \in {"T", "D"}
  BY DEF Opened
<1>3. i <= Len(a)
  <2>1. CASE i > Len(a)
    <3>1. i - Len(a) \in DOMAIN b /\ (a \o b)[i] = b[i - Len(a)]
      BY <1>1, <2>1, ConcatProperties
    <3> QED BY <1>2, <3>1 DEF WithoutRows
  <2> QED BY <1>1, <2>1
<1>4. i \in DOMAIN a /\ (a \o b)[i] = a[i]
  BY <1>1, <1>3, ConcatProperties
<1>5. i > 1 /\ a[i - 1].type \in {"T", "D"}
  BY <1>2, <1>4 DEF Opened
<1>6. (a \o b)[i - 1] = a[i - 1]
  BY <1>1, <1>3, <1>4, <1>5, ConcatProperties
<1> QED BY <1>5, <1>6

LEMMA ResultOpened ==
  ASSUME NEW a \in Seq(MessageType), NEW d \in MessageType,
         NEW b \in Seq(MessageType),
         Opened(a), d.type = "T", \A i \in DOMAIN b : IsRow(b[i])
  PROVE  Opened(a \o <<d>> \o b)
<1> DEFINE c == a \o <<d>>
<1>1. /\ DOMAIN a = 1 .. Len(a) /\ DOMAIN b = 1 .. Len(b)
      /\ Len(a) \in Nat /\ Len(b) \in Nat
  BY LenProperties
<1>2. /\ c \in Seq(MessageType) /\ c = Append(a, d)
      /\ Len(c) = Len(a) + 1 /\ c[Len(a) + 1] = d
  BY <1>1, AppendIsConcat, AppendProperties
<1>3. Opened(c)
  <2>1. <<d>> \in Seq(MessageType) /\ WithoutRows(<<d>>)
    BY DEF WithoutRows, IsRow
  <2> QED BY <2>1, QuietTailOpened
<1> HIDE DEF c
<1>4. DOMAIN (c \o b) = 1 .. Len(c) + Len(b) /\ DOMAIN c = 1 .. Len(c)
  BY <1>2, LenProperties, ConcatProperties
<1>5. ASSUME NEW i \in DOMAIN (c \o b), IsRow((c \o b)[i])
      PROVE  i > 1 /\ (c \o b)[i - 1].type \in {"T", "D"}
  <2>1. CASE i <= Len(c)
    <3>1. i \in DOMAIN c /\ (c \o b)[i] = c[i]
      BY <1>1, <1>2, <1>4, <2>1, ConcatProperties
    <3>2. i > 1 /\ c[i - 1].type \in {"T", "D"}
      BY <1>3, <1>5, <3>1 DEF Opened
    <3>3. (c \o b)[i - 1] = c[i - 1]
      BY <1>1, <1>2, <1>4, <2>1, <3>2, ConcatProperties
    <3> QED BY <3>2, <3>3
  <2>2. CASE i = Len(c) + 1
    <3>1. (c \o b)[i - 1] = d
      BY <1>1, <1>2, <1>4, <2>2, ConcatProperties
    <3> QED BY <1>1, <1>2, <2>2, <3>1
  <2>3. CASE i > Len(c) + 1
    <3>1. /\ i - 1 - Len(c) \in DOMAIN b
          /\ (c \o b)[i - 1] = b[i - 1 - Len(c)]
      BY <1>1, <1>2, <1>4, <2>3, ConcatProperties
    <3> QED BY <1>1, <1>2, <2>3, <3>1 DEF IsRow
  <2> QED BY <1>1, <1>2, <1>4, <2>1, <2>2, <2>3
<1> QED BY <1>5 DEF Opened, c

(* A step that writes no row, keeps the description, and does not enter a   *)
(* result.                                                                  *)
LEMMA QuietStepHeld ==
  ASSUME TypeOK, DescriptionHeld,
         NEW b \in Seq(MessageType), WithoutRows(b),
         delivered' = delivered \o b,
         errorState' = 0,
         retentRows' = retentRows \/ retentRows' = <<>>,
         retentRowDescription' = retentRowDescription,
         server'.phase = "rows" => server.phase = "rows"
  PROVE  DescriptionHeld'
<1>1. delivered \in Seq(MessageType)
  BY DEF TypeOK, ClientTypes
<1>2. Opened(delivered')
  BY <1>1, QuietTailOpened, OpenedMeansFollowing DEF DescriptionHeld
<1>3. RowsFollowDescription'
  BY <1>2 DEF RowsFollowDescription, Opened, IsRow
<1> QED BY <1>3 DEF DescriptionHeld

LEMMA SilentStepHeld ==
  ASSUME TypeOK, DescriptionHeld,
         delivered' = delivered,
         errorState' = 0,
         retentRows' = retentRows \/ retentRows' = <<>>,
         retentRowDescription' = retentRowDescription,
         server'.phase = "rows" => server.phase = "rows"
  PROVE  DescriptionHeld'
<1>1. delivered \in Seq(MessageType) /\ delivered \o <<>> = delivered
  BY ConcatEmptySeq DEF TypeOK, ClientTypes
<1>2. <<>> \in Seq(MessageType) /\ WithoutRows(<<>>)
  BY EmptySeq DEF WithoutRows
<1> QED BY <1>1, <1>2, QuietStepHeld

LEMMA PassedOnHeld ==
  ASSUME TypeOK, DescriptionHeld,
         NEW m \in MessageType, ~IsRow(m),
         delivered' = Append(delivered, m),
         UNCHANGED <<errorState, retentRows, retentRowDescription>>,
         server'.phase # "rows"
  PROVE  DescriptionHeld'
<1>1. delivered \in Seq(MessageType)
  BY DEF TypeOK, ClientTypes
<1>2. delivered' = delivered \o <<m>> /\ <<m>> \in Seq(MessageType)
  BY <1>1, AppendIsConcat
<1>3. WithoutRows(<<m>>) /\ errorState' = 0
  BY DEF WithoutRows, DescriptionHeld
<1> QED BY <1>2, <1>3, QuietStepHeld

LEMMA ClientQueryHeld ==
  ASSUME TypeOK, DescriptionHeld, NEW kind \in Queries, ClientQuery(kind)
  PROVE  DescriptionHeld'
<1> DEFINE q == Len(log) + 1
<1>1. q \in Nat /\ delivered \in Seq(MessageType) /\ server' = server
  BY DEF TypeOK, ClientTypes, ClientQuery
<1> HIDE DEF q
<1>2. \/ ProcessQuery(kind, q)
      \/ ProcessQueryPanics(kind, q)
      \/ ProcessParse(kind, q)
  BY DEF ClientQuery, q
<1>3. /\ errorState' = 0
      /\ retentRowDescription' = retentRowDescription
      /\ retentRows' = retentRows \/ retentRows' = <<>>
  BY <1>2 DEF DescriptionHeld, ProcessQuery, ProcessQueryPanics, ProcessParse, retained
<1>4. \/ delivered' = delivered
      \/ delivered' = delivered \o ErrorAnswer(q)
      \/ delivered' = Append(delivered, ErrorResponse(q, 0))
  BY <1>2 DEF ProcessQuery, ProcessQueryPanics, ProcessParse
<1>5. CASE delivered' = delivered
  BY <1>1, <1>3, <1>5, SilentStepHeld
<1>6. CASE delivered' = delivered \o ErrorAnswer(q)
  BY <1>1, <1>3, <1>6, QuietStepHeld, ErrorAnswerIsTyped, KindsOfMessages
<1>7. CASE delivered' = Append(delivered, ErrorResponse(q, 0))
  <2>1. ErrorResponse(q, 0) \in MessageType /\ <<ErrorResponse(q, 0)>> \in Seq(MessageType)
    BY <1>1, MessagesAreTyped
  <2>2. delivered' = delivered \o <<ErrorResponse(q, 0)>>
    BY <1>1, <1>7, <2>1, AppendIsConcat
  <2> QED BY <1>1, <1>3, <2>1, <2>2, QuietStepHeld, KindsOfMessages
<1> QED BY <1>4, <1>5, <1>6, <1>7

LEMMA RowDescriptionHeld ==
  ASSUME ~MutatorErrors, TypeOK, DescriptionHeld, ProcessRowDescription
  PROVE  DescriptionHeld'
<1>1. DescriptionRetained
  BY DEF ProcessRowDescription, DescriptionAmbiguous, DescriptionLacksJoinColumn
<1>2. /\ retentRowDescription'.type = "T" /\ retentRowDescription' # Null
      /\ errorState' = 0
  BY <1>1 DEF DescriptionRetained, RowDescription, Null, Message
<1>3. delivered' = delivered /\ retentRows' = retentRows
  BY DEF ProcessRowDescription
<1>4. RowsFollowDescription'
  BY <1>3 DEF DescriptionHeld, RowsFollowDescription
<1> QED BY <1>2, <1>3, <1>4 DEF DescriptionHeld

LEMMA DataRowHeld ==
  ASSUME ~MutatorErrors, TypeOK, DescriptionHeld, ProcessDataRow
  PROVE  DescriptionHeld'
<1> DEFINE row == DataRow(server.q, server.s, serial + 1, Fit)
<1>1. /\ delivered' = delivered /\ retentRowDescription' = retentRowDescription
      /\ retentRowDescription # Null
      /\ retentRows \in Seq(MessageType)
  BY DEF ProcessDataRow, DescriptionHeld, TypeOK, RetainedTypes
<1>2. errorState' = 0
  BY DEF DescriptionHeld, ProcessDataRow, RowDiscarded, RowRetained, RowNotDecrypted,
         RowFailsJoin, RowOutOfBounds
<1>3. retentRows' = retentRows \/ retentRows' = Append(retentRows, row)
  BY DEF ProcessDataRow, RowDiscarded, RowRetained, RowNotDecrypted, RowFailsJoin,
         RowOutOfBounds
<1>4. RowsFollowDescription'
  BY <1>1 DEF DescriptionHeld, RowsFollowDescription
<1>5. \A i \in DOMAIN retentRows' : retentRows'[i] = Null \/ IsRow(retentRows'[i])
  <2>1. CASE retentRows' = retentRows
    BY <2>1 DEF DescriptionHeld
  <2>2. CASE retentRows' = Append(retentRows, row)
    <3>1. row \in MessageType /\ IsRow(row)
      <4>1. Fit \in BOOLEAN /\ server.q \in Nat /\ server.s \in Nat /\ serial + 1 \in Nat
        BY ServerAtQuery DEF Fit, TypeOK, BackendTypes, ProcessDataRow
      <4>2. row \in MessageType
        BY <4>1, MessagesAreTyped
      <4> QED BY <4>2 DEF DataRow, Message, IsRow
    <3> HIDE DEF row
    <3>2. /\ DOMAIN retentRows' = 1 .. Len(retentRows) + 1
          /\ DOMAIN retentRows = 1 .. Len(retentRows)
          /\ Len(retentRows) \in Nat
          /\ \A i \in 1 .. Len(retentRows) : retentRows'[i] = retentRows[i]
          /\ retentRows'[Len(retentRows) + 1] = row
      BY <1>1, <2>2, <3>1, AppendProperties, LenProperties
    <3> QED BY <3>1, <3>2 DEF DescriptionHeld
  <2> QED BY <1>3, <2>1, <2>2
<1> QED BY <1>1, <1>2, <1>4, <1>5 DEF DescriptionHeld

LEMMA CommandCompleteHeld ==
  ASSUME TypeOK, DescriptionHeld, ProcessCommandComplete
  PROVE  DescriptionHeld'
<1> DEFINE last == <<CommandComplete(server.q, server.s)>>
<1>1. /\ delivered \in Seq(MessageType) /\ retentRows \in Seq(MessageType)
      /\ retentRowDescription \in MessageType
      /\ Opened(delivered)
  BY OpenedMeansFollowing
     DEF TypeOK, ClientTypes, RetainedTypes, DescriptionHeld
<1>2. last \in Seq(MessageType) /\ WithoutRows(last)
  <2>1. server.q \in Nat /\ server.s \in Nat
    BY ServerAtQuery DEF TypeOK, ProcessCommandComplete, Completes
  <2>2. last \in Seq(MessageType)
    BY <2>1, MessagesAreTyped
  <2>3. WithoutRows(last)
    BY <2>1, KindsOfMessages
  <2> QED BY <2>2, <2>3
<1> HIDE DEF last
<1>3. server'.phase # "rows"
  BY DEF ProcessCommandComplete, StatementDone, TypeOK, BackendTypes, ServerType
<1>4. CASE ResultEmitted
  <2>1. delivered' = (delivered \o RetainedDescription \o retentRows) \o last
    BY <1>4 DEF ResultEmitted, last
  <2>2. \A i \in DOMAIN retentRows : IsRow(retentRows[i])
    BY <1>4 DEF ResultEmitted, DescriptionHeld
  <2>3. /\ Opened(delivered \o RetainedDescription \o retentRows)
        /\ delivered \o RetainedDescription \o retentRows \in Seq(MessageType)
    <3>1. CASE retentRowDescription = Null
      <4>1. RetainedDescription = <<>> /\ delivered \o RetainedDescription = delivered
        BY <1>1, <3>1, ConcatEmptySeq DEF RetainedDescription
      <4>2. WithoutRows(retentRows)
        BY <1>4, <3>1 DEF DescriptionHeld, ResultEmitted, WithoutRows
      <4> QED BY <1>1, <4>1, <4>2, QuietTailOpened, ConcatProperties
    <3>2. CASE retentRowDescription # Null
      <4>1. /\ RetainedDescription = <<retentRowDescription>>
            /\ retentRowDescription.type = "T"
        BY <3>2 DEF RetainedDescription, DescriptionHeld
      <4>2. delivered \o <<retentRowDescription>> \in Seq(MessageType)
        BY <1>1, ConcatProperties
      <4>3. delivered \o <<retentRowDescription>> \o retentRows \in Seq(MessageType)
        BY <1>1, <4>2, ConcatProperties
      <4>4. Opened(delivered \o <<retentRowDescription>> \o retentRows)
        BY <1>1, <2>2, <4>1, ResultOpened
      <4> QED BY <4>1, <4>3, <4>4
    <3> QED BY <3>1, <3>2
  <2>4. Opened(delivered')
    BY <1>2, <2>1, <2>3, QuietTailOpened
  <2>5. RowsFollowDescription'
    BY <2>4 DEF RowsFollowDescription, Opened, IsRow
  <2>6. /\ retentRowDescription' = Null
        /\ \A i \in DOMAIN retentRows' : retentRows'[i] = Null
        /\ errorState' = 0
    BY <1>4 DEF ResultEmitted
  <2> QED BY <1>3, <2>5, <2>6 DEF DescriptionHeld
<1>5. CASE EmptiedRowEmitted
  BY <1>3, <1>5, SilentStepHeld DEF EmptiedRowEmitted, retained, DescriptionHeld
<1>6. CASE ErrorEmitted
  BY <1>6 DEF ErrorEmitted, DescriptionHeld
<1> QED BY <1>4, <1>5, <1>6 DEF ProcessCommandComplete

LEMMA OtherServerStepsHeld ==
  ASSUME TypeOK, DescriptionHeld,
         \/ ServerBegins
         \/ ProcessErrorResponse
         \/ ProcessEmptyQueryResponse
         \/ PassReadyForQuery
  PROVE  DescriptionHeld'
<1>1. CASE ServerBegins
  <2>1. server'.phase # "rows"
    BY <1>1 DEF ServerBegins, FirstPhase
  <2> QED BY <1>1, <2>1, SilentStepHeld DEF ServerBegins, DescriptionHeld, retained
<1>2. CASE ProcessErrorResponse
  <2>1. server.q \in Nat /\ server.s \in Nat
    BY <1>2, ServerAtQuery DEF TypeOK, ProcessErrorResponse, Fails
  <2>2. /\ ErrorResponse(server.q, server.s) \in MessageType
        /\ ~IsRow(ErrorResponse(server.q, server.s))
    BY <2>1, MessagesAreTyped DEF ErrorResponse, Message, IsRow
  <2>3. server'.phase # "rows"
    BY <1>2 DEF ProcessErrorResponse, TypeOK, BackendTypes, ServerType
  <2> QED BY <1>2, <2>2, <2>3, PassedOnHeld DEF ProcessErrorResponse, retained
<1>3. CASE ProcessEmptyQueryResponse
  <2>1. server.q \in Nat
    BY <1>3, ServerAtQuery DEF TypeOK, ProcessEmptyQueryResponse
  <2>2. /\ EmptyQueryResponse(server.q) \in MessageType
        /\ ~IsRow(EmptyQueryResponse(server.q))
    BY <2>1, MessagesAreTyped DEF EmptyQueryResponse, Message, IsRow
  <2>3. server'.phase # "rows"
    BY <1>3 DEF ProcessEmptyQueryResponse, TypeOK, BackendTypes, ServerType
  <2> QED BY <1>3, <2>2, <2>3, PassedOnHeld DEF ProcessEmptyQueryResponse, retained
<1>4. CASE PassReadyForQuery
  <2>1. server.q \in Nat /\ tx \in Statuses
    BY <1>4, ServerAtQuery DEF TypeOK, BackendTypes, PassReadyForQuery, Statuses
  <2>2. /\ ReadyForQuery(server.q, tx) \in MessageType
        /\ ~IsRow(ReadyForQuery(server.q, tx))
    BY <2>1, MessagesAreTyped DEF ReadyForQuery, Message, IsRow
  <2>3. server'.phase # "rows"
    BY <1>4 DEF PassReadyForQuery, Idle
  <2> QED BY <1>4, <2>2, <2>3, PassedOnHeld DEF PassReadyForQuery, retained
<1> QED BY <1>1, <1>2, <1>3, <1>4

LEMMA NextHeld ==
  ASSUME ~MutatorErrors, TypeOK, DescriptionHeld, [Next]_vars
  PROVE  DescriptionHeld'
<1>1. CASE \E kind \in Queries : ClientQuery(kind)
  BY <1>1, ClientQueryHeld
<1>2. CASE ClientReads
  BY <1>2, SilentStepHeld DEF ClientReads, DescriptionHeld, backend, retained
<1>3. CASE ServerNext
  BY <1>3, RowDescriptionHeld, DataRowHeld, CommandCompleteHeld, OtherServerStepsHeld
     DEF ServerNext
<1>4. CASE UNCHANGED vars
  BY <1>4, SilentStepHeld DEF DescriptionHeld, vars, backend, retained
<1> QED BY <1>1, <1>2, <1>3, <1>4 DEF Next

(* As long as the mutators report no error, a retained row is never without *)
(* its description, pipelining, batches and failing servers included.       *)
THEOREM DescriptionIsHeld ==
  ASSUME ~MutatorErrors
  PROVE  Spec => []DescriptionHeld
<1>1. Init => DescriptionHeld
  BY DEF Init, DescriptionHeld, RowsFollowDescription, Idle, Null, Message
<1>2. TypeOK /\ DescriptionHeld /\ [Next]_vars => DescriptionHeld'
  BY NextHeld
<1> QED BY <1>1, <1>2, TypeCorrect, PTL DEF Spec

(* So no row reaches the client out of a result.                            *)
THEOREM RowsDoFollowDescriptions ==
  ASSUME ~MutatorErrors
  PROVE  Spec => []RowsFollowDescription
<1>1. DescriptionHeld => RowsFollowDescription
  BY DEF DescriptionHeld
<1> QED BY <1>1, DescriptionIsHeld, PTL

-----------------------------------------------------------------------------
(* One ReadyForQuery for each query, whatever overlaps, as long as no       *)
(* mutator reports an error.                                                *)

(* Messages that leave the ReadyForQuery messages as they were.             *)

WithoutReady(seq) == \A i \in DOMAIN seq : seq[i].type # "Z"

SameReady(a, b) ==
  \A i \in DOMAIN b : b[i].type = "Z" => i \in DOMAIN a /\ b[i] = a[i]

LEMMA NoReadyAdded ==
  ASSUME NEW a \in Seq(MessageType), NEW b \in Seq(MessageType), WithoutReady(b)
  PROVE  SameReady(a, a \o b) /\ a \o b \in Seq(MessageType)
<1>1. /\ DOMAIN a = 1 .. Len(a) /\ DOMAIN b = 1 .. Len(b)
      /\ Len(a) \in Nat /\ Len(b) \in Nat
      /\ DOMAIN (a \o b) = 1 .. Len(a) + Len(b)
      /\ a \o b \in Seq(MessageType)
  BY LenProperties, ConcatProperties
<1>2. ASSUME NEW i \in DOMAIN (a \o b), (a \o b)[i].type = "Z"
      PROVE  i \in DOMAIN a /\ (a \o b)[i] = a[i]
  <2>1. i <= Len(a)
    <3>1. CASE i > Len(a)
      <4>1. i - Len(a) \in DOMAIN b /\ (a \o b)[i] = b[i - Len(a)]
        BY <1>1, <3>1, ConcatProperties
      <4> QED BY <1>2, <4>1 DEF WithoutReady
    <3> QED BY <1>1, <3>1
  <2> QED BY <1>1, <2>1, ConcatProperties
<1> QED BY <1>1, <1>2 DEF SameReady

LEMMA SameReadyTwice ==
  ASSUME NEW a, NEW b, NEW c, SameReady(a, b), SameReady(b, c)
  PROVE  SameReady(a, c)
BY DEF SameReady

LEMMA OneMessageAdded ==
  ASSUME NEW a \in Seq(MessageType), NEW m \in MessageType, m.type # "Z"
  PROVE  /\ SameReady(a, Append(a, m)) /\ SameReady(a, a \o <<m>>)
         /\ a \o <<m>> \in Seq(MessageType)
<1>1. Append(a, m) = a \o <<m>> /\ <<m>> \in Seq(MessageType)
  BY AppendIsConcat
<1>2. WithoutReady(<<m>>)
  BY DEF WithoutReady
<1> QED BY <1>1, <1>2, NoReadyAdded

LEMMA TwoMessagesAdded ==
  ASSUME NEW a \in Seq(MessageType), NEW m \in MessageType, NEW n \in MessageType
  PROVE  a \o <<m, n>> = Append(Append(a, m), n)
<1>1. /\ <<m, n>> \in Seq(MessageType) /\ Len(<<m, n>>) = 2
      /\ Len(a) \in Nat /\ a \o <<m, n>> \in Seq(MessageType)
      /\ Len(a \o <<m, n>>) = Len(a) + 2
  BY ConcatProperties, LenProperties
<1>2. /\ Append(a, m) \in Seq(MessageType) /\ Len(Append(a, m)) = Len(a) + 1
      /\ Append(a, m)[Len(a) + 1] = m
      /\ \A i \in 1 .. Len(a) : Append(a, m)[i] = a[i]
  BY AppendProperties
<1>3. /\ Append(Append(a, m), n) \in Seq(MessageType)
      /\ Len(Append(Append(a, m), n)) = Len(a) + 2
      /\ Append(Append(a, m), n)[Len(a) + 2] = n
      /\ \A i \in 1 .. Len(a) + 1 : Append(Append(a, m), n)[i] = Append(a, m)[i]
  BY <1>1, <1>2, AppendProperties
<1>4. /\ \A i \in 1 .. Len(a) : (a \o <<m, n>>)[i] = a[i]
      /\ (a \o <<m, n>>)[Len(a) + 1] = m /\ (a \o <<m, n>>)[Len(a) + 2] = n
  BY <1>1, ConcatProperties
<1>5. \A i \in 1 .. Len(a) + 2 : (a \o <<m, n>>)[i] = Append(Append(a, m), n)[i]
  <2> TAKE i \in 1 .. Len(a) + 2
  <2>1. i \in 1 .. Len(a) \/ i = Len(a) + 1 \/ i = Len(a) + 2
    BY <1>1
  <2> QED BY <1>1, <1>2, <1>3, <1>4, <2>1
<1> QED BY <1>1, <1>3, <1>5, SeqEqual

(* ... and one ReadyForQuery at the end.                                    *)
LEMMA OneReadyAdded ==
  ASSUME NEW a \in Seq(MessageType), NEW m \in MessageType,
         NEW i \in DOMAIN Append(a, m)
  PROVE  \/ i \in DOMAIN a /\ Append(a, m)[i] = a[i]
         \/ i = Len(a) + 1 /\ Append(a, m)[i] = m
<1>1. /\ DOMAIN a = 1 .. Len(a) /\ Len(a) \in Nat
      /\ Append(a, m) \in Seq(MessageType)
      /\ Len(Append(a, m)) = Len(a) + 1
      /\ Append(a, m)[Len(a) + 1] = m
      /\ \A j \in 1 .. Len(a) : Append(a, m)[j] = a[j]
  BY AppendProperties, LenProperties
<1>2. DOMAIN Append(a, m) = 1 .. Len(a) + 1
  BY <1>1, LenProperties
<1> QED BY <1>1, <1>2

-----------------------------------------------------------------------------
(* ReadyHeld is inductive.                                                  *)

(* A step that answers nobody and moves no query.                           *)
LEMMA NobodyAnswered ==
  ASSUME TypeOK, ReadyHeld,
         errorState' = 0,
         SameReady(delivered, delivered'),
         log' = log, toServer' = toServer,
         server'.phase # "idle" => server.phase # "idle" /\ server'.q = server.q
  PROVE  ReadyHeld'
<1>1. /\ \A i \in DOMAIN delivered' : delivered'[i].type = "Z" =>
           /\ delivered'[i].q <= Len(log)
           /\ server'.phase # "idle" => delivered'[i].q # server'.q
           /\ \A j \in DOMAIN toServer : toServer[j] # delivered'[i].q
  BY DEF SameReady, ReadyHeld
<1>2. OneReadyPerQuery'
  BY DEF SameReady, ReadyHeld, OneReadyPerQuery
<1> QED BY <1>1, <1>2 DEF ReadyHeld

LEMMA SilenceIsReady ==
  ASSUME TypeOK, ReadyHeld, UNCHANGED <<errorState, delivered, log, toServer>>,
         server'.phase # "idle" => server.phase # "idle" /\ server'.q = server.q
  PROVE  ReadyHeld'
<1>1. SameReady(delivered, delivered')
  BY DEF SameReady
<1> QED BY <1>1, NobodyAnswered DEF ReadyHeld

(* What names a query is a number.                                          *)
LEMMA NamesAreNumbers ==
  ASSUME TypeOK
  PROVE  /\ Len(log) \in Nat
         /\ \A i \in DOMAIN toServer : toServer[i] \in Nat
         /\ \A i \in DOMAIN delivered : delivered[i].q \in Nat
         /\ server.phase # "idle" => server.q \in Nat
<1>1. Len(log) \in Nat /\ delivered \in Seq(MessageType) /\ toServer \in Seq(QueryNumber)
  BY DEF TypeOK, ClientTypes, BackendTypes
<1>2. \A i \in DOMAIN toServer : toServer[i] \in QueryNumber
  BY <1>1, LenProperties
<1>3. \A i \in DOMAIN delivered : delivered[i] \in MessageType
  BY <1>1, LenProperties
<1>4. \A i \in DOMAIN delivered : delivered[i].q \in Nat
  BY <1>3 DEF MessageType
<1>5. \A i \in DOMAIN toServer : toServer[i] \in Nat
  BY <1>2, QueryNumbers
<1> QED BY <1>1, <1>4, <1>5, ServerAtQuery DEF TypeOK

(* A new query is in no place yet.                                          *)
LEMMA NewQueryIsNowhere ==
  ASSUME TypeOK, ReadyHeld
  PROVE  /\ Len(log) \in Nat
         /\ \A i \in DOMAIN toServer : toServer[i] < Len(log) + 1
         /\ server.phase # "idle" => server.q < Len(log) + 1
         /\ \A i \in DOMAIN delivered :
              delivered[i].type = "Z" => delivered[i].q < Len(log) + 1
BY NamesAreNumbers DEF ReadyHeld

LEMMA QueryForwarded ==
  ASSUME TypeOK, ReadyHeld,
         NEW q \in QueryNumber, q = Len(log) + 1, Len(log') = q,
         errorState' = 0, server' = server,
         SameReady(delivered, delivered'),
         toServer' = Append(toServer, q)
  PROVE  ReadyHeld'
<1>1. /\ Len(log) \in Nat /\ toServer \in Seq(QueryNumber)
      /\ DOMAIN toServer = 1 .. Len(toServer) /\ Len(toServer) \in Nat
  BY LenProperties DEF TypeOK, ClientTypes, BackendTypes
<1>2. q \in Nat
  BY QueryNumbers
<1>3. /\ DOMAIN toServer' = 1 .. Len(toServer) + 1
      /\ toServer'[Len(toServer) + 1] = q
      /\ \A i \in 1 .. Len(toServer) : toServer'[i] = toServer[i]
  BY <1>1, AppendProperties, LenProperties
<1>4. \A i \in DOMAIN toServer' :
        \/ i \in DOMAIN toServer /\ toServer'[i] = toServer[i]
        \/ i = Len(toServer) + 1 /\ toServer'[i] = q
  BY <1>1, <1>3
<1>5. /\ \A i \in DOMAIN toServer : toServer[i] < q
      /\ server.phase # "idle" => server.q < q
      /\ \A i \in DOMAIN delivered : delivered[i].type = "Z" => delivered[i].q < q
      /\ \A i \in DOMAIN toServer : toServer[i] \in Nat
      /\ \A i \in DOMAIN delivered : delivered[i].q \in Nat
      /\ server.phase # "idle" => server.q \in Nat
  BY NewQueryIsNowhere, NamesAreNumbers
<1>6. /\ \A i \in DOMAIN toServer' : toServer'[i] <= q
      /\ \A i, j \in DOMAIN toServer' : toServer'[i] = toServer'[j] => i = j
  BY <1>1, <1>2, <1>4, <1>5 DEF ReadyHeld
<1>7. server.phase # "idle" =>
        /\ server.q <= q
        /\ \A i \in DOMAIN toServer' : toServer'[i] # server.q
  BY <1>2, <1>4, <1>5 DEF ReadyHeld
<1>8. \A i \in DOMAIN delivered' : delivered'[i].type = "Z" =>
        /\ delivered'[i].q <= q
        /\ server.phase # "idle" => delivered'[i].q # server.q
        /\ \A j \in DOMAIN toServer' : toServer'[j] # delivered'[i].q
  BY <1>2, <1>4, <1>5 DEF ReadyHeld, SameReady
<1>9. OneReadyPerQuery'
  BY DEF SameReady, ReadyHeld, OneReadyPerQuery
<1> QED BY <1>6, <1>7, <1>8, <1>9 DEF ReadyHeld

(* A ReadyForQuery for a query that is in no other place.                   *)
LEMMA QueryAnswered ==
  ASSUME TypeOK, ReadyHeld,
         NEW before \in Seq(MessageType), NEW m \in MessageType, m.type = "Z",
         SameReady(delivered, before), delivered' = Append(before, m),
         errorState' = 0, toServer' = toServer,
         Len(log') \in Nat, Len(log) <= Len(log'), m.q <= Len(log'),
         \A i \in DOMAIN toServer : toServer[i] # m.q,
         \A i \in DOMAIN delivered : delivered[i].type = "Z" => delivered[i].q # m.q,
         server'.phase # "idle" =>
           server.phase # "idle" /\ server'.q = server.q /\ m.q # server.q
  PROVE  ReadyHeld'
<1>1. \A i \in DOMAIN delivered' : delivered'[i].type = "Z" =>
        \/ i \in DOMAIN delivered /\ delivered'[i] = delivered[i]
        \/ i = Len(before) + 1 /\ delivered'[i] = m
  BY OneReadyAdded DEF SameReady
<1>2. /\ Len(log) \in Nat
      /\ \A i \in DOMAIN toServer : toServer[i] \in Nat
      /\ \A i \in DOMAIN delivered : delivered[i].q \in Nat
      /\ server.phase # "idle" => server.q \in Nat
  BY NamesAreNumbers
<1>3. /\ \A i \in DOMAIN toServer' : toServer'[i] <= Len(log')
      /\ server'.phase # "idle" => server'.q <= Len(log')
  BY <1>2 DEF ReadyHeld
<1>4. \A i \in DOMAIN delivered' : delivered'[i].type = "Z" =>
        /\ delivered'[i].q <= Len(log')
        /\ server'.phase # "idle" => delivered'[i].q # server'.q
        /\ \A j \in DOMAIN toServer' : toServer'[j] # delivered'[i].q
  BY <1>1, <1>2 DEF ReadyHeld
<1>5. OneReadyPerQuery'
  BY <1>1 DEF ReadyHeld, OneReadyPerQuery
<1> QED BY <1>3, <1>4, <1>5 DEF ReadyHeld

LEMMA ClientQueryReady ==
  ASSUME TypeOK, ReadyHeld, NEW kind \in Queries, ClientQuery(kind)
  PROVE  ReadyHeld'
<1> DEFINE q == Len(log) + 1
<1>1. /\ log' = Append(log, kind) /\ log \in Seq(Queries)
      /\ Len(log) < MaxQueries /\ server' = server
  BY DEF TypeOK, ClientTypes, ClientQuery
<1>2. Len(log) \in Nat /\ Len(log') = q /\ delivered \in Seq(MessageType)
  BY <1>1, AppendProperties, LenProperties DEF TypeOK, ClientTypes
<1>3. q \in QueryNumber /\ q \in Nat
  BY <1>1, <1>2, BoundsAssumption DEF QueryNumber
<1>4. /\ ErrorResponse(q, 0) \in MessageType /\ ErrorResponse(q, 0).type # "Z"
      /\ ReadyForQuery(q, "I") \in MessageType
      /\ ReadyForQuery(q, "I").type = "Z" /\ ReadyForQuery(q, "I").q = q
  BY <1>3, MessagesAreTyped DEF ErrorResponse, ReadyForQuery, Message, Statuses
<1>5. q = Len(log) + 1
  OBVIOUS
<1>6. \/ ProcessQuery(kind, q)
      \/ ProcessQueryPanics(kind, q)
      \/ ProcessParse(kind, q)
  BY DEF ClientQuery
<1> HIDE DEF q
<1>7. errorState' = 0
  BY <1>6 DEF ReadyHeld, ProcessQuery, ProcessQueryPanics, ProcessParse
<1>8. SameReady(delivered, delivered)
  BY DEF SameReady
<1>9. CASE delivered' = delivered /\ toServer' = Append(toServer, q)
  BY <1>1, <1>2, <1>3, <1>5, <1>7, <1>8, <1>9, QueryForwarded
<1>10. CASE delivered' = Append(delivered, ErrorResponse(q, 0))
            /\ toServer' = Append(toServer, q)
  <2>1. SameReady(delivered, delivered')
    BY <1>2, <1>4, <1>10, OneMessageAdded
  <2> QED BY <1>1, <1>2, <1>3, <1>5, <1>7, <1>10, <2>1, QueryForwarded
<1>11. CASE delivered' = delivered \o ErrorAnswer(q) /\ toServer' = toServer
  <2> DEFINE before == Append(delivered, ErrorResponse(q, 0))
  <2>1. before \in Seq(MessageType) /\ SameReady(delivered, before)
    BY <1>2, <1>4, AppendProperties, OneMessageAdded
  <2>2. delivered \o ErrorAnswer(q) = Append(before, ReadyForQuery(q, "I"))
    BY <1>2, <1>4, TwoMessagesAdded DEF ErrorAnswer
  <2>3. /\ \A i \in DOMAIN toServer : toServer[i] # q
        /\ \A i \in DOMAIN delivered : delivered[i].type = "Z" => delivered[i].q # q
        /\ server.phase # "idle" => server.q # q
    BY <1>5, NewQueryIsNowhere, NamesAreNumbers
  <2> DEFINE m == ReadyForQuery(q, "I")
  <2>4. m \in MessageType /\ m.type = "Z" /\ m.q = q /\ delivered' = Append(before, m)
    BY <1>4, <1>11, <2>2
  <2>5. Len(log') \in Nat /\ Len(log) <= Len(log') /\ q <= Len(log')
    BY <1>2, <1>3, <1>5
  <2> HIDE DEF before, m
  <2> QED BY <1>1, <1>7, <1>11, <2>1, <2>3, <2>4, <2>5, QueryAnswered
<1>12. CASE delivered' = delivered /\ toServer' = toServer
  <2>1. /\ \A i \in DOMAIN toServer : toServer[i] <= Len(log')
        /\ server.phase # "idle" => server.q <= Len(log')
        /\ \A i \in DOMAIN delivered :
             delivered[i].type = "Z" => delivered[i].q <= Len(log')
    BY <1>2, <1>5, NewQueryIsNowhere, NamesAreNumbers
  <2> QED BY <1>1, <1>7, <1>12, <2>1 DEF ReadyHeld, OneReadyPerQuery
<1>13. \/ delivered' = delivered /\ toServer' = Append(toServer, q)
       \/ delivered' = Append(delivered, ErrorResponse(q, 0))
            /\ toServer' = Append(toServer, q)
       \/ delivered' = delivered \o ErrorAnswer(q) /\ toServer' = toServer
       \/ delivered' = delivered /\ toServer' = toServer
  BY <1>6 DEF ProcessQuery, ProcessQueryPanics, ProcessParse
<1> QED BY <1>9, <1>10, <1>11, <1>12, <1>13

LEMMA ServerBeginsReady == TypeOK /\ ReadyHeld /\ ServerBegins => ReadyHeld'
<1> SUFFICES ASSUME TypeOK, ReadyHeld, ServerBegins PROVE ReadyHeld'
  OBVIOUS
<1>1. /\ toServer \in Seq(QueryNumber) /\ toServer # <<>>
      /\ toServer' = Tail(toServer) /\ server'.q = Head(toServer)
      /\ UNCHANGED <<log, delivered, errorState>>
  BY DEF TypeOK, BackendTypes, ServerBegins, client
<1>2. /\ DOMAIN toServer = 1 .. Len(toServer) /\ Len(toServer) \in Nat \ {0}
      /\ Head(toServer) = toServer[1]
      /\ DOMAIN toServer' = 1 .. Len(toServer) - 1
      /\ \A i \in 1 .. Len(toServer) - 1 : toServer'[i] = toServer[i + 1]
  BY <1>1, HeadTailProperties, LenProperties, EmptySeq
<1>3. \A i \in DOMAIN toServer' :
        i + 1 \in DOMAIN toServer /\ toServer'[i] = toServer[i + 1] /\ i + 1 # 1
  BY <1>2
<1>4. 1 \in DOMAIN toServer
  BY <1>2
<1>5. /\ \A i \in DOMAIN toServer' : toServer'[i] <= Len(log)
      /\ \A i \in DOMAIN toServer' : toServer'[i] # toServer[1]
      /\ toServer[1] <= Len(log)
  BY <1>3, <1>4 DEF ReadyHeld
<1>6. \A i, j \in DOMAIN toServer' : toServer'[i] = toServer'[j] => i = j
  <2> TAKE i, j \in DOMAIN toServer'
  <2>1. toServer[i + 1] = toServer[j + 1] => i + 1 = j + 1
    BY <1>3 DEF ReadyHeld
  <2> QED BY <1>2, <1>3, <2>1
<1>7. \A i \in DOMAIN delivered : delivered[i].type = "Z" =>
        /\ delivered[i].q <= Len(log)
        /\ delivered[i].q # toServer[1]
        /\ \A j \in DOMAIN toServer' : toServer'[j] # delivered[i].q
  BY <1>3, <1>4 DEF ReadyHeld
<1> QED BY <1>1, <1>2, <1>5, <1>6, <1>7 DEF ReadyHeld, OneReadyPerQuery

LEMMA ReadyForQueryReady == TypeOK /\ ReadyHeld /\ PassReadyForQuery => ReadyHeld'
<1> SUFFICES ASSUME TypeOK, ReadyHeld, PassReadyForQuery PROVE ReadyHeld'
  OBVIOUS
<1> DEFINE m == ReadyForQuery(server.q, tx)
<1>1. /\ server.phase # "idle" /\ server.q \in Nat /\ tx \in Statuses
      /\ server.q <= Len(log)
  BY ServerAtQuery DEF TypeOK, BackendTypes, PassReadyForQuery, Statuses, ReadyHeld
<1>2. m \in MessageType /\ m.type = "Z" /\ m.q = server.q
  BY <1>1, MessagesAreTyped DEF ReadyForQuery, Message
<1>3. delivered' = Append(delivered, m) /\ server'.phase = "idle"
  BY DEF PassReadyForQuery, Idle
<1>4. UNCHANGED <<log, toServer, errorState>>
  BY DEF PassReadyForQuery, client
<1>5. delivered \in Seq(MessageType) /\ SameReady(delivered, delivered)
  BY DEF TypeOK, ClientTypes, SameReady
<1>6. Len(log) \in Nat
  BY NamesAreNumbers
<1> HIDE DEF m
<1>7. /\ \A i \in DOMAIN toServer : toServer[i] # m.q
      /\ \A i \in DOMAIN delivered : delivered[i].type = "Z" => delivered[i].q # m.q
      /\ errorState = 0
  BY <1>1, <1>2 DEF ReadyHeld
<1> QED BY <1>1, <1>2, <1>3, <1>4, <1>5, <1>6, <1>7, QueryAnswered

LEMMA CommandCompleteReady ==
  ASSUME TypeOK, DescriptionHeld, ReadyHeld, ProcessCommandComplete
  PROVE  ReadyHeld'
<1> DEFINE last == CommandComplete(server.q, server.s)
<1>1. /\ delivered \in Seq(MessageType) /\ retentRows \in Seq(MessageType)
      /\ retentRowDescription \in MessageType /\ errorState = 0
  BY DEF TypeOK, ClientTypes, RetainedTypes, ReadyHeld
<1>2. last \in MessageType /\ last.type # "Z"
  <2>1. server.q \in Nat /\ server.s \in Nat
    BY ServerAtQuery DEF TypeOK, ProcessCommandComplete, Completes
  <2> QED BY <2>1, MessagesAreTyped DEF CommandComplete, Message
<1>3. /\ UNCHANGED <<log, toServer>> /\ server.phase # "idle" /\ server'.q = server.q
  BY DEF ProcessCommandComplete, client, Completes, StatementDone, TypeOK, BackendTypes,
         ServerType
<1> HIDE DEF last
<1>4. CASE ResultEmitted
  <2> DEFINE described == delivered \o RetainedDescription
  <2>1. described \in Seq(MessageType) /\ SameReady(delivered, described)
    <3>1. CASE retentRowDescription = Null
      <4>1. described = delivered
        BY <1>1, <3>1, ConcatEmptySeq DEF RetainedDescription
      <4> QED BY <1>1, <4>1 DEF SameReady
    <3>2. CASE retentRowDescription # Null
      <4>1. retentRowDescription.type # "Z"
        BY <3>2 DEF DescriptionHeld
      <4>2. described = delivered \o <<retentRowDescription>>
        BY <3>2 DEF RetainedDescription
      <4> QED BY <1>1, <4>1, <4>2, OneMessageAdded
    <3> QED BY <3>1, <3>2
  <2> HIDE DEF described
  <2>2. WithoutReady(retentRows)
    BY <1>4 DEF WithoutReady, DescriptionHeld, ResultEmitted, IsRow
  <2>3. described \o retentRows \in Seq(MessageType) /\ SameReady(described, described \o retentRows)
    BY <1>1, <2>1, <2>2, NoReadyAdded
  <2>4. SameReady(described \o retentRows, (described \o retentRows) \o <<last>>)
    BY <1>2, <2>3, OneMessageAdded
  <2>5. delivered' = (described \o retentRows) \o <<last>>
    BY <1>4 DEF ResultEmitted, described, last
  <2>6. SameReady(delivered, delivered')
    BY <2>1, <2>3, <2>4, <2>5, SameReadyTwice
  <2>7. errorState' = 0
    BY <1>4 DEF ResultEmitted
  <2> QED BY <1>3, <2>6, <2>7, NobodyAnswered
<1>5. CASE EmptiedRowEmitted
  BY <1>3, <1>5, SilenceIsReady DEF EmptiedRowEmitted
<1>6. CASE ErrorEmitted
  BY <1>1, <1>6 DEF ErrorEmitted
<1> QED BY <1>4, <1>5, <1>6 DEF ProcessCommandComplete

LEMMA OtherServerStepsReady ==
  ASSUME ~MutatorErrors, TypeOK, ReadyHeld,
         \/ ProcessRowDescription
         \/ ProcessDataRow
         \/ ProcessErrorResponse
         \/ ProcessEmptyQueryResponse
  PROVE  ReadyHeld'
<1>1. server.phase # "idle" /\ server'.q = server.q /\ UNCHANGED <<log, toServer>>
  BY DEF ProcessRowDescription, ProcessDataRow, ProcessErrorResponse, Fails,
         ProcessEmptyQueryResponse, client, TypeOK, BackendTypes, ServerType
<1>2. server.q \in Nat /\ server.s \in Nat /\ delivered \in Seq(MessageType)
  BY <1>1, ServerAtQuery DEF TypeOK, ClientTypes
<1>3. errorState' = 0
  BY DEF ProcessRowDescription, DescriptionRetained, DescriptionAmbiguous,
         DescriptionLacksJoinColumn, ProcessDataRow, RowDiscarded, RowRetained,
         RowNotDecrypted, RowFailsJoin, RowOutOfBounds, ProcessErrorResponse,
         ProcessEmptyQueryResponse, ReadyHeld
<1>4. CASE ProcessRowDescription \/ ProcessDataRow
  <2>1. delivered' = delivered
    BY <1>4 DEF ProcessRowDescription, ProcessDataRow
  <2> QED BY <1>1, <1>3, <2>1, SilenceIsReady DEF ReadyHeld
<1>5. CASE ProcessErrorResponse
  <2>1. /\ ErrorResponse(server.q, server.s) \in MessageType
        /\ ErrorResponse(server.q, server.s).type # "Z"
    BY <1>2, MessagesAreTyped DEF ErrorResponse, Message
  <2>2. SameReady(delivered, delivered')
    BY <1>2, <1>5, <2>1, OneMessageAdded DEF ProcessErrorResponse
  <2> QED BY <1>1, <1>3, <2>2, NobodyAnswered
<1>6. CASE ProcessEmptyQueryResponse
  <2>1. /\ EmptyQueryResponse(server.q) \in MessageType
        /\ EmptyQueryResponse(server.q).type # "Z"
    BY <1>2, MessagesAreTyped DEF EmptyQueryResponse, Message
  <2>2. SameReady(delivered, delivered')
    BY <1>2, <1>6, <2>1, OneMessageAdded DEF ProcessEmptyQueryResponse
  <2> QED BY <1>1, <1>3, <2>2, NobodyAnswered
<1> QED BY <1>4, <1>5, <1>6

LEMMA NextReady ==
  ASSUME ~MutatorErrors, TypeOK, DescriptionHeld, ReadyHeld, [Next]_vars
  PROVE  ReadyHeld'
<1>1. CASE \E kind \in Queries : ClientQuery(kind)
  BY <1>1, ClientQueryReady
<1>2. CASE ClientReads
  BY <1>2, SilenceIsReady DEF ClientReads, backend
<1>3. CASE ServerNext
  BY <1>3, ServerBeginsReady, ReadyForQueryReady, CommandCompleteReady,
     OtherServerStepsReady DEF ServerNext
<1>4. CASE UNCHANGED vars
  BY <1>4, SilenceIsReady DEF vars, client, backend
<1> QED BY <1>1, <1>2, <1>3, <1>4 DEF Next

(* As long as no mutator reports an error, every query is in one place:     *)
(* queued, at the server, or answered by processQuery or the server.        *)
THEOREM ReadyIsHeld ==
  ASSUME ~MutatorErrors
  PROVE  Spec => []ReadyHeld
<1>1. Init => ReadyHeld
  BY DEF Init, ReadyHeld, OneReadyPerQuery, Idle
<1>2. TypeOK /\ DescriptionHeld /\ ReadyHeld /\ [Next]_vars => ReadyHeld'
  BY NextReady
<1> QED BY <1>1, <1>2, TypeCorrect, DescriptionIsHeld, PTL DEF Spec

(* So one ReadyForQuery answers a query, however many are outstanding: the  *)
(* error answers of the proxy never double those of the server.             *)
THEOREM QueriesAreAnsweredOnce ==
  ASSUME ~MutatorErrors
  PROVE  Spec => []OneReadyPerQuery
<1>1. ReadyHeld => OneReadyPerQuery
  BY DEF ReadyHeld
<1> QED BY <1>1, ReadyIsHeld, PTL
================================================================================
