--------------------------- MODULE MutationManager ---------------------------
(***************************************************************************)
(* One client connection after the start-up exchange, seen from the        *)
(* mutation manager (postgres_mutation_manager.cc): the client sends       *)
(* queries, the manager rewrites or rejects them, the server answers what  *)
(* was forwarded, and the manager retains the description and the rows of  *)
(* a result until the server completes the statement.                      *)
(*                                                                         *)
(* One Envoy worker thread runs every handler of a connection to its end,  *)
(* so a handler is one action.  A message of the server and the handler    *)
(* that receives it are one action too: the bytes between them are a FIFO  *)
(* that nobody else reads, so the manager sees the same sequences of       *)
(* events.  The queue of forwarded queries and the client's lag behind the *)
(* delivered messages are kept, because they decide what overlaps what.    *)
(*                                                                         *)
(* ASSERT is compiled out of the release build that is deployed: a failed  *)
(* one is recorded in failedAsserts and the handler goes on.               *)
(***************************************************************************)
EXTENDS Messages

CONSTANTS
  Queries,        \* the queries a client may send (records, see QueryType)
  MaxQueries,     \* bound: queries sent on the connection
  MaxRows,        \* bound: rows of one result
  Window,         \* queries the client has outstanding; 1 waits for each answer
  Permissive,     \* PostgresFilterConfig::permissive_parsing_
  FailPhases,     \* where the server may fail a statement: "start", "rows"
  MutatorErrors   \* TRUE: mutators may reject a description or a row

(* Where processQueryImpl leaves a query: not parsed, stopped by a mutator  *)
(* of the chain or by the dumper, or rewritten.  "unimplemented" parses to  *)
(* a statement the visitors PANIC on; "prepared" is sent with Parse, Bind,  *)
(* Execute and Sync.                                                        *)
Verdicts == {"unparsed", "blind_index", "join", "encryption", "dumper",
             "rewritten", "unimplemented", "prepared"}

(* What the server makes of the statements of a query.  "bind" is the Bind  *)
(* of a statement whose Parse the server never got.                         *)
Statements == {"select", "command", "begin", "end", "bind"}

(* joins: mutateJoins recorded a comparison of two encrypted columns.       *)
QueryType == [verdict : Verdicts, body : Seq(Statements), joins : BOOLEAN]

ASSUME QueriesAssumption == Queries \subseteq QueryType
ASSUME BoundsAssumption == /\ MaxQueries \in Nat
                           /\ MaxRows \in Nat
                           /\ Window \in Nat \ {0}
ASSUME SwitchesAssumption == /\ Permissive \in BOOLEAN
                             /\ MutatorErrors \in BOOLEAN
                             /\ FailPhases \subseteq {"start", "rows"}

VARIABLES
  log,            \* the queries the client has sent
  read,           \* how far the client has read delivered
  ready,          \* ReadyForQuery messages the client has taken as answers
  delivered,      \* every message written to the client, in order
  toServer,       \* forwarded queries the server has not begun
  server,         \* the query and statement the server is at
  tx,             \* the server's transaction status: "I", "T" or "E"
  serial,         \* rows the server has sent on the connection
  errorState,     \* error_state_: 0 is ok, else the query it was recorded for
  retentRowDescription,   \* retent_row_description_
  retentRows,     \* retent_rows_; Null is a moved-from unique_ptr
  seen,           \* the query whose columns each result mutator remembers
  joinIndices,    \* join_comparisons_indices_: whose columns they point into
  dataRowConfig,  \* data_row_config_: built from whose columns, and whole or not
  kept,           \* history: the rows the mutators let through, in order
  failedAsserts,  \* history: handlers whose ASSERT did not hold
  crashed         \* a handler aborted the process

client == <<log, read, ready>>
backend == <<toServer, server, tx, serial>>
retained == <<retentRowDescription, retentRows>>
metadata == <<seen, joinIndices, dataRowConfig>>
vars == <<client, delivered, backend, errorState, retained, metadata, kept,
          failedAsserts, crashed>>

-----------------------------------------------------------------------------
Idle == [phase |-> "idle", q |-> 0, s |-> 0, rows |-> 0]

Init ==
  /\ log = <<>> /\ read = 0 /\ ready = 0
  /\ delivered = <<>>
  /\ toServer = <<>> /\ server = Idle /\ tx = "I" /\ serial = 0
  /\ errorState = 0
  /\ retentRowDescription = Null /\ retentRows = <<>>
  /\ seen = [join |-> 0, encryption |-> 0]
  /\ joinIndices = {}
  /\ dataRowConfig = [of |-> 0, whole |-> TRUE]
  /\ kept = <<>>
  /\ failedAsserts = {}
  /\ crashed = FALSE

Assert(handler, condition) ==
  failedAsserts' = IF condition THEN failedAsserts
                                ELSE failedAsserts \union {handler}

-----------------------------------------------------------------------------
(* The client's side.                                                       *)

(* Mutant of ErrorAnswer: the ReadyForQuery comes first.                    *)
ErrorAnswerReadyFirst(q) == <<ReadyForQuery(q, "I"), ErrorResponse(q, 0)>>

(* Mutant of ErrorAnswer: the ReadyForQuery is forgotten.                   *)
ErrorAnswerAlone(q) == <<ErrorResponse(q, 0)>>

(* emitErrorResponse: an error and a ReadyForQuery of the proxy's own.      *)
ErrorAnswer(q) == <<ErrorResponse(q, 0), ReadyForQuery(q, "I")>>

PassedUnparsed(kind) == kind.verdict = "unparsed" /\ Permissive
Forwarded(kind) == kind.verdict = "rewritten" \/ PassedUnparsed(kind)

(* Mutant of MutateQuery: join_comparisons_indices_ is not cleared.         *)
MutateQueryKeepingJoins(kind, q) ==
  /\ seen' = [join |-> q, encryption |-> q]
  /\ UNCHANGED <<joinIndices, dataRowConfig>>

(* The mutators that reached their visitQuery forget the columns of the     *)
(* query before; ProbabilisticJoin comes before Encryption in the chain.    *)
MutateQuery(kind, q) ==
  LET join == kind.verdict \in {"join", "encryption", "dumper", "rewritten"}
      encryption == kind.verdict \in {"encryption", "dumper", "rewritten"}
  IN /\ seen' = [join |-> IF join THEN q ELSE seen.join,
                 encryption |-> IF encryption THEN q ELSE seen.encryption]
     /\ joinIndices' = IF join THEN {} ELSE joinIndices
     /\ UNCHANGED dataRowConfig

(* Mutant of ProcessQuery: retent_rows_ is not cleared.                     *)
ProcessQueryKeepingRows(kind, q) ==
  /\ kind.verdict \notin {"unimplemented", "prepared"}
  /\ Assert("processQuery", errorState = 0)
  /\ MutateQuery(kind, q)
  /\ IF Forwarded(kind)
       THEN /\ toServer' = Append(toServer, q)
            /\ UNCHANGED <<delivered, errorState>>
       ELSE /\ delivered' = delivered \o ErrorAnswer(q)
            /\ errorState' = 0
            /\ UNCHANGED toServer
  /\ UNCHANGED <<retained, crashed>>

(* Mutant of ProcessQuery: a rejected query is answered and forwarded.      *)
ProcessQueryForwardingAll(kind, q) ==
  /\ kind.verdict \notin {"unimplemented", "prepared"}
  /\ Assert("processQuery", errorState = 0)
  /\ retentRows' = <<>>
  /\ MutateQuery(kind, q)
  /\ toServer' = Append(toServer, q)
  /\ delivered' = IF Forwarded(kind) THEN delivered ELSE delivered \o ErrorAnswer(q)
  /\ UNCHANGED <<errorState, retentRowDescription, crashed>>

(* Mutant of ProcessQuery: the rejection is left in error_state_.           *)
ProcessQueryKeepingError(kind, q) ==
  /\ kind.verdict \notin {"unimplemented", "prepared"}
  /\ Assert("processQuery", errorState = 0)
  /\ retentRows' = <<>>
  /\ MutateQuery(kind, q)
  /\ IF Forwarded(kind)
       THEN /\ toServer' = Append(toServer, q)
            /\ UNCHANGED <<delivered, errorState>>
       ELSE /\ delivered' = delivered \o ErrorAnswer(q)
            /\ errorState' = q
            /\ UNCHANGED toServer
  /\ UNCHANGED <<retentRowDescription, crashed>>

(* processQuery for a query the parser or the chain lets through or stops.  *)
ProcessQuery(kind, q) ==
  /\ kind.verdict \notin {"unimplemented", "prepared"}
  /\ Assert("processQuery", errorState = 0)
  /\ retentRows' = <<>>
  /\ MutateQuery(kind, q)
  /\ IF Forwarded(kind)
       THEN /\ toServer' = Append(toServer, q)
            /\ UNCHANGED <<delivered, errorState>>
       ELSE /\ delivered' = delivered \o ErrorAnswer(q)
            /\ errorState' = 0
            /\ UNCHANGED toServer
  /\ UNCHANGED <<retentRowDescription, crashed>>

(* The statement visitor of the first mutator has no case for it.           *)
ProcessQueryPanics(kind, q) ==
  /\ kind.verdict = "unimplemented"
  /\ crashed' = TRUE
  /\ UNCHANGED <<delivered, toServer, errorState, retained, metadata,
                 failedAsserts>>

(* processParse consumes Parse and emits the error alone; the messages that *)
(* follow it in the same flight are passed to the server.                   *)
ProcessParse(kind, q) ==
  /\ kind.verdict = "prepared"
  /\ delivered' = Append(delivered, ErrorResponse(q, 0))
  /\ toServer' = Append(toServer, q)
  /\ UNCHANGED <<errorState, retained, metadata, failedAsserts, crashed>>

ClientQuery(kind) ==
  /\ ~crashed
  /\ Len(log) < MaxQueries
  /\ Len(log) - ready < Window
  /\ log' = Append(log, kind)
  /\ LET q == Len(log) + 1
     IN \/ ProcessQuery(kind, q)
        \/ ProcessQueryPanics(kind, q)
        \/ ProcessParse(kind, q)
  /\ UNCHANGED <<read, ready, server, tx, serial, kept>>

(* The client reads up to the next ReadyForQuery.  It takes it as the       *)
(* answer to its oldest open query; one that comes while none is open is    *)
(* dropped, as libpq does.                                                  *)
ClientReads ==
  /\ \E i \in read + 1 .. Len(delivered) :
       /\ delivered[i].type = "Z"
       /\ \A j \in read + 1 .. i - 1 : delivered[j].type # "Z"
       /\ read' = i
  /\ ready' = IF ready < Len(log) THEN ready + 1 ELSE ready
  /\ UNCHANGED <<log, delivered, backend, errorState, retained, metadata, kept,
                 failedAsserts, crashed>>

-----------------------------------------------------------------------------
(* The server's side: it takes the forwarded queries one by one.            *)

Body == log[server.q].body
Statement == Body[server.s]
FirstPhase(q) == IF log[q].body = <<>> THEN "empty" ELSE "start"

ServerBegins ==
  /\ ~crashed
  /\ server.phase = "idle"
  /\ toServer # <<>>
  /\ toServer' = Tail(toServer)
  /\ server' = [phase |-> FirstPhase(Head(toServer)), q |-> Head(toServer),
                s |-> 1, rows |-> 0]
  /\ UNCHANGED <<client, delivered, tx, serial, errorState, retained, metadata,
                 kept, failedAsserts, crashed>>

StatementDone ==
  server' = [server EXCEPT !.s = @ + 1, !.rows = 0,
                           !.phase = IF server.s = Len(Body) THEN "done"
                                                             ELSE "start"]

(* processRowDescription.  The chain runs backwards, Encryption first.      *)
JoinsRecorded == seen.join # 0 /\ log[seen.join].joins

(* Mutant of DescriptionRetained: the message is consumed and not kept.     *)
DescriptionConsumed ==
  /\ errorState' = 0
  /\ dataRowConfig' = [of |-> seen.encryption, whole |-> TRUE]
  /\ joinIndices' = IF JoinsRecorded
                      THEN joinIndices \union {<<seen.join, server.q, server.s>>}
                      ELSE joinIndices
  /\ UNCHANGED <<retentRowDescription, seen>>

DescriptionRetained ==
  /\ errorState' = 0
  /\ retentRowDescription' = RowDescription(server.q, server.s)
  /\ dataRowConfig' = [of |-> seen.encryption, whole |-> TRUE]
  /\ joinIndices' = IF JoinsRecorded
                      THEN joinIndices \union {<<seen.join, server.q, server.s>>}
                      ELSE joinIndices
  /\ UNCHANGED seen

DescriptionAmbiguous ==
  /\ MutatorErrors
  /\ errorState' = server.q
  /\ dataRowConfig' = [of |-> seen.encryption, whole |-> FALSE]
  /\ UNCHANGED <<retentRowDescription, seen, joinIndices>>

DescriptionLacksJoinColumn ==
  /\ MutatorErrors
  /\ JoinsRecorded
  /\ errorState' = server.q
  /\ dataRowConfig' = [of |-> seen.encryption, whole |-> TRUE]
  /\ UNCHANGED <<retentRowDescription, seen, joinIndices>>

ProcessRowDescription ==
  /\ ~crashed
  /\ server.phase = "start" /\ Statement = "select" /\ tx # "E"
  /\ Assert("processRowDescription", errorState = 0)
  /\ \/ DescriptionRetained
     \/ DescriptionAmbiguous
     \/ DescriptionLacksJoinColumn
  /\ server' = [server EXCEPT !.phase = "rows"]
  /\ UNCHANGED <<client, delivered, toServer, tx, serial, retentRows, kept, crashed>>

(* processDataRow.                                                          *)
Fit == /\ dataRowConfig.of \in {0, server.q}
       /\ joinIndices \subseteq {<<server.q, server.q, server.s>>}

RowDiscarded ==
  /\ errorState # 0
  /\ UNCHANGED <<errorState, retentRows, kept, crashed>>

(* Mutant of RowRetained: the row replaces those before it.                 *)
RowReplacesRows ==
  /\ errorState = 0
  /\ LET row == DataRow(server.q, server.s, serial + 1, Fit)
     IN /\ retentRows' = <<row>>
        /\ kept' = Append(kept, row)
  /\ UNCHANGED <<errorState, crashed>>

RowRetained ==
  /\ errorState = 0
  /\ LET row == DataRow(server.q, server.s, serial + 1, Fit)
     IN /\ retentRows' = Append(retentRows, row)
        /\ kept' = Append(kept, row)
  /\ UNCHANGED <<errorState, crashed>>

RowNotDecrypted ==
  /\ errorState = 0
  /\ MutatorErrors
  /\ errorState' = server.q
  /\ UNCHANGED <<retentRows, kept, crashed>>

RowFailsJoin ==
  /\ errorState = 0
  /\ joinIndices # {}
  /\ UNCHANGED <<errorState, retentRows, kept, crashed>>

(* data_row_config_ shorter than the row, or an index into the columns of   *)
(* another result, is read out of its bounds: the process may die as well   *)
(* as go on with what it finds there.                                       *)
RowOutOfBounds ==
  /\ errorState = 0
  /\ \/ ~dataRowConfig.whole
     \/ \E index \in joinIndices : index[2] # server.q \/ index[3] # server.s
  /\ crashed' = TRUE
  /\ UNCHANGED <<errorState, retentRows, kept>>

ProcessDataRow ==
  /\ ~crashed
  /\ server.phase = "rows" /\ server.rows < MaxRows
  /\ Assert("mutateDataRow", errorState # 0 \/ dataRowConfig.whole)
  /\ RowDiscarded \/ RowRetained \/ RowNotDecrypted \/ RowFailsJoin \/ RowOutOfBounds
  /\ server' = [server EXCEPT !.rows = @ + 1]
  /\ serial' = serial + 1
  /\ UNCHANGED <<client, delivered, toServer, tx, retentRowDescription, metadata>>

(* processCommandComplete.                                                  *)
Completes == \/ server.phase = "rows"
             \/ /\ server.phase = "start"
                /\ \/ Statement \in {"command", "begin"} /\ tx # "E"
                   \/ Statement = "end"

TxAfterComplete == CASE Statement = "begin" -> "T"
                     [] Statement = "end" -> "I"
                     [] OTHER -> tx

(* Mutant of RetainedDescription: it is not asked whether there is one.     *)
RetainedDescriptionUnasked == <<retentRowDescription>>

RetainedDescription ==
  IF retentRowDescription = Null THEN <<>> ELSE <<retentRowDescription>>

(* Mutant of ResultEmitted: the rows come before their description.         *)
RowsEmittedFirst ==
  /\ errorState = 0
  /\ \A i \in DOMAIN retentRows : retentRows[i] # Null
  /\ delivered' = delivered \o retentRows \o RetainedDescription
                            \o <<CommandComplete(server.q, server.s)>>
  /\ retentRowDescription' = Null
  /\ retentRows' = [i \in DOMAIN retentRows |-> Null]
  /\ UNCHANGED <<errorState, failedAsserts, crashed>>

(* Mutant of ResultEmitted: the rows are copied and stay retained.          *)
RowsEmittedAndKept ==
  /\ errorState = 0
  /\ \A i \in DOMAIN retentRows : retentRows[i] # Null
  /\ delivered' = delivered \o RetainedDescription \o retentRows
                            \o <<CommandComplete(server.q, server.s)>>
  /\ retentRowDescription' = Null
  /\ UNCHANGED <<errorState, retentRows, failedAsserts, crashed>>

(* The retained response and the message itself, which is moved out too.    *)
(* The emptied rows stay in the vector.                                     *)
ResultEmitted ==
  /\ errorState = 0
  /\ \A i \in DOMAIN retentRows : retentRows[i] # Null
  /\ delivered' = delivered \o RetainedDescription \o retentRows
                            \o <<CommandComplete(server.q, server.s)>>
  /\ retentRowDescription' = Null
  /\ retentRows' = [i \in DOMAIN retentRows |-> Null]
  /\ UNCHANGED <<errorState, failedAsserts, crashed>>

(* emitBackendMessage writes through an emptied pointer.                    *)
EmptiedRowEmitted ==
  /\ errorState = 0
  /\ \E i \in DOMAIN retentRows : retentRows[i] = Null
  /\ failedAsserts' = failedAsserts \union {"emitBackendMessage"}
  /\ crashed' = TRUE
  /\ UNCHANGED <<delivered, errorState, retained>>

(* The error is emitted in front of the message, which nobody consumes.     *)
ErrorEmitted ==
  /\ errorState # 0
  /\ delivered' = delivered \o ErrorAnswer(errorState)
                            \o <<CommandComplete(server.q, server.s)>>
  /\ errorState' = 0
  /\ UNCHANGED <<retained, failedAsserts, crashed>>

ProcessCommandComplete ==
  /\ ~crashed
  /\ Completes
  /\ ResultEmitted \/ EmptiedRowEmitted \/ ErrorEmitted
  /\ tx' = TxAfterComplete
  /\ StatementDone
  /\ UNCHANGED <<client, toServer, serial, metadata, kept>>

(* processErrorResponse passes the error on; the server skips the rest of   *)
(* the query.                                                               *)
Fails == \/ server.phase = "rows" /\ "rows" \in FailPhases
         \/ /\ server.phase = "start"
            /\ Statement # "end"
            /\ Statement = "bind" \/ tx = "E" \/ "start" \in FailPhases

ProcessErrorResponse ==
  /\ ~crashed
  /\ Fails
  /\ Assert("processErrorResponse", errorState = 0)
  /\ delivered' = Append(delivered, ErrorResponse(server.q, server.s))
  /\ server' = [server EXCEPT !.phase = "done", !.rows = 0]
  /\ tx' = IF tx = "I" THEN "I" ELSE "E"
  /\ UNCHANGED <<client, toServer, serial, errorState, retained, metadata, kept,
                 crashed>>

ProcessEmptyQueryResponse ==
  /\ ~crashed
  /\ server.phase = "empty"
  /\ Assert("processEmptyQueryResponse", errorState = 0)
  /\ delivered' = Append(delivered, EmptyQueryResponse(server.q))
  /\ server' = [server EXCEPT !.phase = "done"]
  /\ UNCHANGED <<client, toServer, tx, serial, errorState, retained, metadata,
                 kept, crashed>>

(* ReadyForQuery has no handler and is passed on.                           *)
PassReadyForQuery ==
  /\ ~crashed
  /\ server.phase = "done"
  /\ delivered' = Append(delivered, ReadyForQuery(server.q, tx))
  /\ server' = Idle
  /\ UNCHANGED <<client, toServer, tx, serial, errorState, retained, metadata,
                 kept, failedAsserts, crashed>>

-----------------------------------------------------------------------------
ServerNext == \/ ServerBegins
              \/ ProcessRowDescription
              \/ ProcessDataRow
              \/ ProcessCommandComplete
              \/ ProcessErrorResponse
              \/ ProcessEmptyQueryResponse
              \/ PassReadyForQuery

Next == \/ \E kind \in Queries : ClientQuery(kind)
        \/ ClientReads
        \/ ServerNext

Spec == Init /\ [][Next]_vars

(* The server works on, the client reads on; a client need not send.        *)
FairSpec == Spec /\ WF_vars(ServerNext) /\ WF_vars(ClientReads)
-----------------------------------------------------------------------------
(* Properties.                                                              *)

Handlers == {"processQuery", "processRowDescription", "mutateDataRow",
             "processErrorResponse", "processEmptyQueryResponse",
             "emitBackendMessage"}

QueryNumber == 1 .. MaxQueries
QueryNumberOrNone == 0 .. MaxQueries

ServerType == [phase : {"idle", "start", "rows", "empty", "done"},
               q : QueryNumberOrNone, s : Nat, rows : 0 .. MaxRows]

ClientTypes ==
  /\ log \in Seq(Queries) /\ Len(log) <= MaxQueries
  /\ read \in Nat
  /\ ready \in QueryNumberOrNone
  /\ delivered \in Seq(MessageType)
  /\ \A i \in DOMAIN delivered : delivered[i] # Null

BackendTypes ==
  /\ toServer \in Seq(QueryNumber)
  /\ server \in ServerType
  /\ server.phase # "idle" => server.q # 0
  /\ tx \in {"I", "T", "E"}
  /\ serial \in Nat

RetainedTypes ==
  /\ errorState \in QueryNumberOrNone
  /\ retentRowDescription \in MessageType
  /\ retentRows \in Seq(MessageType)
  /\ kept \in Seq(MessageType)

MetadataTypes ==
  /\ seen \in [join : QueryNumberOrNone, encryption : QueryNumberOrNone]
  /\ joinIndices \subseteq Nat \X Nat \X Nat
  /\ dataRowConfig \in [of : QueryNumberOrNone, whole : BOOLEAN]

FailureTypes ==
  /\ failedAsserts \subseteq Handlers
  /\ crashed \in BOOLEAN

(* Every variable has its type, what names a query names one the client may *)
(* have sent, and no moved-from message is ever written to the client.      *)
TypeOK == /\ ClientTypes
          /\ BackendTypes
          /\ RetainedTypes
          /\ MetadataTypes
          /\ FailureTypes

(* Whatever overlaps and whatever fails, the client never gets a row twice  *)
(* or behind a later row of the server: retent_rows_ is emitted in order,   *)
(* emptied on the way, and never filled with an older row.                  *)
RowsInServerOrder == Increasing(delivered)

(* ... which is kept by what is retained: rows younger than all delivered   *)
(* ones, in order themselves, none younger than the server's last.          *)
RowOrder ==
  /\ Increasing(delivered)
  /\ Increasing(retentRows)
  /\ Before(delivered, retentRows)
  /\ UpTo(delivered, serial)
  /\ UpTo(retentRows, serial)
  /\ ~IsRow(retentRowDescription)

(* A row reaches the client directly behind a RowDescription or another     *)
(* row: a client that gets a row out of a result cannot decode it.          *)
RowsFollowDescription ==
  \A i \in DOMAIN delivered :
    delivered[i].type = "D" => i > 1 /\ delivered[i - 1].type \in {"T", "D"}

(* ... which is kept as long as no mutator reports an error: nothing is     *)
(* discarded, and while the server is in a result, or rows of one wait, the *)
(* description is there to precede them.                                    *)
DescriptionHeld ==
  /\ errorState = 0
  /\ \A i \in DOMAIN retentRows : retentRows[i] = Null \/ IsRow(retentRows[i])
  /\ retentRowDescription # Null => retentRowDescription.type = "T"
  /\ server.phase = "rows" => retentRowDescription # Null
  /\ (\E i \in DOMAIN retentRows : retentRows[i] # Null)
       => retentRowDescription # Null
  /\ RowsFollowDescription

(* ... and behind the description and the rows of its own statement: rows   *)
(* retained for a statement that failed are gone before the next result.    *)
RowsMatchDescription ==
  \A i \in DOMAIN delivered :
    delivered[i].type = "D" =>
      /\ i > 1 /\ delivered[i - 1].type \in {"T", "D"}
      /\ delivered[i - 1].q = delivered[i].q
      /\ delivered[i - 1].s = delivered[i].s

(* No delivered row was decrypted or filtered with the columns of another   *)
(* result than its own.                                                     *)
RowsFit == \A i \in DOMAIN delivered : delivered[i].fit

(* A completed result shows every row the mutators let through.             *)
CompletedResultsAreWhole ==
  \A i \in DOMAIN delivered : delivered[i].type = "C" =>
    \A r \in DOMAIN kept :
      kept[r].q = delivered[i].q /\ kept[r].s = delivered[i].s =>
        \E j \in 1 .. i - 1 : delivered[j] = kept[r]

(* What a connection holds is never more than one result: the rows of a     *)
(* statement that the server failed are dropped before those of another are *)
(* retained, and emptied pointers do not pile up over the queries.          *)
OneResultRetained ==
  /\ Len(retentRows) <= MaxRows
  /\ \A i, j \in DOMAIN retentRows :
       retentRows[i] # Null /\ retentRows[j] # Null =>
         retentRows[i].q = retentRows[j].q /\ retentRows[i].s = retentRows[j].s

(* One query, one ReadyForQuery: a second one answers the next query before *)
(* the server has seen it, and every later answer is off by one.            *)
OneReadyPerQuery ==
  \A i, j \in DOMAIN delivered :
    delivered[i].type = "Z" /\ delivered[j].type = "Z"
      /\ delivered[i].q = delivered[j].q => i = j

(* ... which is kept because every query is in one place only: forwarded,   *)
(* at the server, or answered.                                              *)
ReadyHeld ==
  /\ errorState = 0
  /\ \A i \in DOMAIN toServer : toServer[i] <= Len(log)
  /\ \A i, j \in DOMAIN toServer : toServer[i] = toServer[j] => i = j
  /\ server.phase # "idle" =>
       /\ server.q <= Len(log)
       /\ \A i \in DOMAIN toServer : toServer[i] # server.q
  /\ \A i \in DOMAIN delivered : delivered[i].type = "Z" =>
       /\ delivered[i].q <= Len(log)
       /\ server.phase # "idle" => delivered[i].q # server.q
       /\ \A j \in DOMAIN toServer : toServer[j] # delivered[i].q
  /\ OneReadyPerQuery

(* A description is followed by a row or the completion of its statement.   *)
DescriptionsOpenTheirResult ==
  \A i \in DOMAIN delivered : delivered[i].type = "T" =>
    /\ i < Len(delivered)
    /\ delivered[i + 1].type \in {"D", "C"}
    /\ delivered[i + 1].q = delivered[i].q
    /\ delivered[i + 1].s = delivered[i].s

(* No ASSERT of the handlers fails.                                         *)
NoAssertFails == failedAsserts = {}

(* The handlers never write through an emptied pointer, read outside a      *)
(* vector or reach a PANIC.                                                 *)
NoCrash == ~crashed

(* A client that waits, with queries of one statement, and no rows for what *)
(* was not parsed, no error of a mutator: the query it has sent last is in  *)
(* one place, ...                                                           *)
UnreadReady == {i \in read + 1 .. Len(delivered) : delivered[i].type = "Z"}

OneAtATime ==
  /\ read <= Len(delivered)
  /\ \/ /\ ready = Len(log)
        /\ toServer = <<>> /\ server.phase = "idle" /\ UnreadReady = {}
     \/ /\ Len(log) = ready + 1
        /\ \/ toServer = <<Len(log)>> /\ server.phase = "idle" /\ UnreadReady = {}
           \/ /\ toServer = <<>> /\ UnreadReady = {}
              /\ server.phase # "idle" /\ server.q = Len(log)
           \/ /\ toServer = <<>> /\ server.phase = "idle"
              /\ \E i \in UnreadReady : UnreadReady = {i}

(* ... the mutators remember its columns while the server has it, ...       *)
OwnColumns ==
  /\ toServer # <<>> \/ server.phase # "idle" =>
       /\ Forwarded(log[Len(log)])
       /\ log[Len(log)].verdict = "rewritten" =>
            /\ seen = [join |-> Len(log), encryption |-> Len(log)]
            /\ server.phase \in {"idle", "start", "empty"} => joinIndices = {}
  /\ server.phase = "rows" => /\ Statement = "select"
                              /\ dataRowConfig.of = server.q
                              /\ joinIndices \subseteq {<<server.q, server.q, server.s>>}

(* ... and what is retained is the result of its only statement.            *)
OwnResult ==
  /\ \/ retentRowDescription = Null
     \/ retentRowDescription.type = "T" /\ retentRowDescription.fit
  /\ server.phase \in {"start", "rows"} => server.s = 1 /\ Len(Body) = 1
  /\ toServer # <<>> \/ server.phase \in {"start", "empty"} => retentRows = <<>>
  /\ server.phase = "rows" =>
       /\ retentRowDescription = RowDescription(server.q, server.s)
       /\ Len(retentRows) <= server.rows
       /\ \A i \in DOMAIN retentRows : /\ retentRows[i].type = "D" /\ retentRows[i].fit
                                      /\ retentRows[i].q = server.q
                                      /\ retentRows[i].s = server.s

(* Then no handler asserts or touches what it must not, and what is told is *)
(* right.                                                                   *)
WaitingHeld ==
  /\ errorState = 0 /\ dataRowConfig.whole
  /\ OneAtATime /\ OwnColumns /\ OwnResult
  /\ OneResultRetained
  /\ NoAssertFails /\ NoCrash
  /\ RowsFit /\ RowsMatchDescription

(* ... and complete: a row that was let through waits in retent_rows_ until *)
(* its statement is completed.                                              *)
NotBegun == toServer # <<>> \/ server.phase \in {"start", "empty"}

KeptHeld ==
  /\ \A r \in DOMAIN kept : kept[r].q <= Len(log)
  /\ \A i \in DOMAIN delivered :
       delivered[i].type = "C" => delivered[i].q <= Len(log)
  /\ NotBegun => \A r \in DOMAIN kept : kept[r].q # Len(log)
  /\ NotBegun \/ server.phase = "rows" =>
       \A i \in DOMAIN delivered :
         delivered[i].type = "C" => delivered[i].q # Len(log)
  /\ server.phase = "rows" =>
       \A r \in DOMAIN kept : kept[r].q = server.q =>
         \E j \in DOMAIN retentRows : retentRows[j] = kept[r]
  /\ CompletedResultsAreWhole

(* If the server fails statements only before their first row, all that is  *)
(* told is what was promised: nothing is told of a query before its answer, *)
(* which is told at once, and the rows retained are the last ones kept.     *)
LastTold == delivered[Len(delivered)]
Untold == delivered = <<>> \/ LastTold.q # Len(log)

PromiseHeld ==
  /\ \A i \in DOMAIN delivered : delivered[i].q <= Len(log)
  /\ \A r \in DOMAIN kept : kept[r].n <= serial
  /\ toServer = <<>> /\ server.phase = "idle" /\ log # <<>> =>
       delivered # <<>> /\ LastTold.type = "Z" /\ LastTold.q = Len(log)
  /\ NotBegun \/ server.phase = "rows" => Untold
  /\ server.phase = "done" =>
       delivered # <<>> /\ LastTold.type # "Z" /\ LastTold.q = Len(log)
  /\ server.phase = "empty" => Body = <<>>
  /\ server.phase # "rows" => retentRowDescription = Null
  /\ server.phase = "rows" =>
       \E k \in 0 .. Len(kept) :
         /\ \A r \in DOMAIN kept : kept[r].q = Len(log) <=> r > k
         /\ retentRows = SubSeq(kept, k + 1, Len(kept))

(* Every query is answered in the end, as long as the process lives.        *)
EveryQueryAnswered ==
  \A k \in 1 .. MaxQueries : (Len(log) >= k) ~> (ready >= k \/ crashed)

(* The promise to a client that waits for its answers (ResultStream).       *)
Expects(kind) == CASE kind.body = <<>> -> "nothing"
                   [] kind.body # <<>> /\ kind.body[1] = "select" -> "rows"
                   [] OTHER -> "completion"

Promise == INSTANCE ResultStream
             WITH asked <- [i \in DOMAIN log |-> Expects(log[i])],
                  heard <- delivered

PromiseKept == Promise!Spec
=============================================================================
