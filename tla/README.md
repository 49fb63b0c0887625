# postgres-tde: models, checks and proofs

postgres-tde is an Envoy network filter between PostgreSQL clients and a server
that holds ciphertexts only. It decodes the frontend/backend protocol, rewrites
queries (blind indexes, shortened join keys, encrypted literals), holds each
result back until the server completes it, decrypts and filters its rows, and
can terminate TLS on the client's side and start it on the server's.

This directory models that program in TLA+. Paths below are relative to
`src/postgres_tde/source/`; `NW` is `filters/network/postgres_tde`.

## 1. Inventory

| component | state it keeps | operations | hard about it |
|---|---|---|---|
| `PostgresFilter` (`NW/postgres_filter.cc`) | two validation buffers, two replacement buffers | `onData`, `onWrite`, `onSSLRequest`, `sendUpstream`, `encryptUpstream`, `doDecode` | chunks cut anywhere; one handler fills the buffer of the other direction; a callback after `'S'` was transmitted |
| `DecoderImpl` (`NW/postgres_decoder.cc`) | `state_`, `temp_storage_`, the current message | `onData`, `onDataInit`, `onDataInSync`, `onDataIgnore`, `onDataInNegotiating`, one handler per message | when a message is whole; negotiation with the server in the middle of the start-up; never to leave OutOfSyncState |
| codec (`NW/postgres_message.{h,cc}`) | the fields of a message | `validate`, `read`, `write`, `getSize`, `isWriteable` | lengths against what is left; NULL against empty; sizes added in 16 bits |
| `MutationManagerImpl` (`NW/postgres_mutation_manager.cc`) | `retent_row_description_`, `retent_rows_`, `error_state_` | `processQuery`, `processParse`, `processRowDescription`, `processDataRow`, `processCommandComplete`, `processEmptyQueryResponse`, `processErrorResponse` | results retained over several events; failures in the middle; several statements, several queries in flight |
| mutators (`NW/mutators/*.cc`) | columns and joins of the last query, indices of the last description | `mutateQuery`, `mutateRowDescription`, `mutateDataRow` | state of one query used for the results of another; what must change together in a row; joins that are only approximate on the server |
| visitor and dumper (`common/sqlutils/ast`) | aliases, `in_select_body_`, the text | `visit*` | what is not visited is not refused; what is not dumped is lost; PANIC on unknown statements |
| cryptography (`common/crypto`) | none | AES-CBC, HMAC, SHA-256 | random IVs; what exactly is hashed |
| configuration (`NW/config`) | a fixed table of columns | `getColumnConfig`, `hasTDEEnabled` | which statements are protected by it, and which forms of them are not |
| utilities, build, benchmarks, deployment | none | - | - |

**How they interact.** One Envoy worker thread runs every callback of a
connection. Bytes arrive at `onData` (client) or `onWrite` (server); the filter
loops over the decoder, which takes one message at a time off the validation
buffer, reads it if it has a handler, and calls the mutation manager. The
manager calls the three mutators forwards for queries and backwards for
results. A handler consumes its message, lets it pass, or emits messages of its
own into the replacement buffer, which the filter sends when it leaves.

**What makes them correct.**

* Filter and decoder: messages leave whole, in order and once, whatever the cut
  and whatever the negotiation; nothing whole is left behind; what must be
  encrypted upstream is; OutOfSyncState is final; a waiting client is answered
  or disconnected.
* Codec: a message is taken exactly when it is whole; what is written anew is
  what came, with a true length.
* Mutation manager: one answer per query, in order; a result is its own
  description, all rows the mutators let through, in the server's order, and its
  completion, or an error and nothing else.
* Mutators: the client is told what a database in clear would tell it; what is
  stored decrypts to what was meant, with the blind index and the join key of
  the same value; no encrypted column's value is sent in clear; no query but the
  ones nobody supports ends the process.
* Cryptography: a ciphertext fits its buffer and decrypts to what was encrypted.

## 2. Modules

| module | models | code |
|---|---|---|
| `Messages` | the backend messages as records, the order of rows in a sequence | `postgres_protocol.h` |
| `MutationManager` | a connection from its first query: client, manager with its mutators' state, server | `postgres_mutation_manager.cc`, the stateful parts of the mutators |
| `ResultStream` | the abstract promise to a client that waits for its answers | - (specification) |
| `Connection` | a connection from its first byte: buffers, decoder states, TLS on both sides | `postgres_filter.cc`, `postgres_decoder.cc` |
| `Relay` | the abstract promise of a connection: two streams with the proxy's own answers in between | - (specification) |
| `MessageCodec` | validation, reading, writing of a message byte by byte | `postgres_message.{h,cc}`, `DecoderImpl::initialize`, `processMessageBody` |
| `Cryptography` | framing, sizes and hexadecimal form of ciphertexts, HMACs, join keys | `common/crypto`, the `generate...` functions of the mutators |
| `Statements` | queries as the parser gives them, the values they give to columns | `sqlutils/ast/visitor.h`, the loops of the mutators |
| `Values` | the configuration, and what becomes of one value, one row, one comparison | `dummy_config.h`, `NW/mutators/*.cc` |
| `Store` | the abstract promise about the tables, and the properties of what is stored | `processQueryImpl`, `base_mutator.cc` |
| `ResultColumns` | what a visitor remembers of a query, and the way back of its result | `sqlutils/ast/visitor.cc`, `encryption.cc`, `probabilistic_join.cc` |
| `SqlVisitor` | the walk of a visitor over a query | `sqlutils/ast/visitor.cc`, `NW/mutators/base_mutator.cc` |
| `Mutators` | the three mutators on the way to the server, the dumper | `NW/mutators/*.cc`, `dump_visitor.cc` |
| `Server` | PostgreSQL, as far as rewritten statements depend on it | external |
| `QueryRewrite` | clients' statements run twice: rewritten on ciphertexts, as they are on a database in clear | `processQueryImpl`, the mutators from end to end |
| `MutationManagerProofs` | theorems about `MutationManager` under any pipelining: types, the order and place of rows, one answer per query | - |
| `WaitingProofs` | theorems about `MutationManager` with clients that wait: no crash, whole results, the refinement of `ResultStream` | - |
| `ConnectionProofs`, `SessionProofs` | theorems about `Connection`: its types, OutOfSyncState, upstream TLS; sessions of clients that wait, what is relayed in them | - |
| `RelayProofs` | theorems about `Connection` with clients that wait: the refinement of `Relay` | - |
| `Flattening` | lemmas about sequences put together from pieces, and induction over numbers | - |
| `CodecProofs` | theorems about `MessageCodec`: validation, reading and writing of messages of any size | - |
| `StoreProofs` | theorems about `Store`, `Values` and `ResultColumns`: the framing of ciphertexts, what is stored, comparisons and joins of it, what comes back, what is hidden | - |
| `MC*` | the instances TLC checks | - |

### MutationManager

A query is a record: where `processQueryImpl` leaves it (`verdict`: not parsed,
stopped by one of the mutators or the dumper, rewritten, PANIC, or sent with
`Parse`), what the server makes of it (`body`: its statements) and whether
`mutateJoins` records a join. Which query gets which verdict is
`QueryRewrite`'s subject; here every verdict the run's set of queries allows may
come at any time.

`retentRowDescription`, `retentRows` and `errorState` are the fields of the
manager. `retentRows` keeps `Null` elements after an emission, as the code keeps
moved-from pointers: the vector is cleared by the next query only. `seen`,
`joinIndices` and `dataRowConfig` say *whose* columns the mutators remember, so
that a row filtered with the columns of another result is seen (`fit`).
`errorState` is the number of the query an error was recorded for.

Each handler of the manager is an action (`ProcessRowDescription`,
`ProcessDataRow`, ...), with its alternatives as disjuncts (`RowRetained`,
`RowDiscarded`, `RowFailsJoin`, `RowNotDecrypted`, `RowOutOfBounds`).
`ProcessQuery` is the whole of `processQuery`: the check, the clearing of the
rows, the chain, then forwarding or the error answer. The server's step and the
handler that receives its message are one action: the bytes in between are a
FIFO nobody else reads, so the manager sees the same sequences of events. The
queue of forwarded queries and the client's lag behind what is written to it
*are* kept, since they decide what overlaps what. The server follows the simple
query protocol: it runs the statements in turn, skips the rest after an error
and ends with ReadyForQuery; it may fail before the first row or in the middle
(`FailPhases`).

`ASSERT` is compiled out of the release build that is deployed. A handler whose
assertion does not hold is recorded in `failedAsserts` and goes on as the code
does. PANIC, a write through an emptied pointer and a read outside of
`data_row_config_` set `crashed`; the last of these is undefined behaviour and
may also go on.

### Connection

`Connection` starts with the first byte of a client. `config` is chosen in the
initial state and never changes, as all connections of a listener share theirs,
so one run has every configuration of `terminate_ssl` and `upstream_ssl`.

A message is three parts (less than a header, the header, the body), which is
where the decoder looks; an answer to SSLRequest is one byte. `Receive` takes
any prefix of what is under way into the validation buffer and enters the
handler; every turn of `doDecode` is an action; `Finish` and `Stop` leave the
handler and send the replacement buffers. Client and server act between two
handlers. Of the manager only what it does with bytes is left: relay, refuse,
retain, emit. `Patient = FALSE` is a client that waits for nothing.

### MessageCodec

The types Int, String, ByteN, VarByteN, Array, Repeated and Sequence, in five
message types that use all of them. `Frame` writes what a peer sends, `Arrive`
delivers it byte by byte, followed by the bytes of another message; `Process`
reads the message and writes it anew. An integer stands in its last byte,
whatever its value, and a loop over elements is a recursive function (`Loop`);
the 16-bit sum of the sizes wraps at `Wrap`. `Message` says what a peer may send
that keeps to the protocol.

### QueryRewrite and what it is built from

`Statements` has the queries as records and sequences: expressions, table
references (tables with aliases, joins, cross products, subselects), SELECT with
all its clauses, INSERT, INSERT ... SELECT, UPDATE, and the statements that are
refused or end the process. `SqlVisitor!VisitedStatement` is the walk of a visitor: the
list of what it meets, in its order, with the place it meets it in, up to what
it refuses and what it has no case for. What a visitor keeps of it is in
`ResultColumns`, visit by visit (`Remembered`; `table_aliases_`,
`select_columns_`, `select_column_aliases_`, one map for the whole query).

`Mutators` has the three mutators on top of that walk. Each has an outcome
(`"ok"`, `"refused"`, `"crashed"`), the query it leaves and what it remembers.
What they do with the values a statement gives is in `Values`, one pair of a
column and a value at a time: blind index and join put the companions (`..._bi`,
`..._joinkey`) behind the columns given (`Indexed`, `Keyed`), then what is
encrypted takes the place of its value (`Encrypted`). So are the rewriting of a
single comparison (`IndexComparison`, `JoinComparison`) and the way back of a
cell (`DecryptedCell`). `Dump` loses what the dumper does not write.
`ResultColumns!Received` is the way back: names of the description to columns,
decryption, then the join, all by the names that PostgreSQL gives (`ShownName`).

`Cryptography` takes bytes as terms: a character, a byte of a ciphertext that
names its key and its place, a byte of a digest. `AESDecrypt` succeeds only on
what was encrypted under the same key and is whole. `Colliding` are texts that
share their join key, `Rounded` what `std::to_string` makes of a float.

`Server` is PostgreSQL: conditions with NULL, joins, DISTINCT, GROUP BY, HAVING,
LIMIT, and which of the rewritten statements it does not accept.
`QueryRewrite` sends the queries: `stored` is the database the server has,
`plain` one on which the client's own statement runs; `due` is the answer in
clear, `told` what comes out of `Received`. A query is refused by the proxy,
ends the process, is rejected by the server, or runs.

`Store` leaves the queries out: a statement that gives values goes to the server
as `Sealed` of them, and either nothing happens or both tables change in the
same way, a row more or some rows (any) changed. `QueryRewrite` extends it, so
that `TypeOK`, `StoreDecrypts`, `CiphertextsFit` and `GivenStayHidden` are the
same formulas in the run and in the theorems.

## 3. Runs

| run | asks | bounds |
|---|---|---|
| `conforming` | Does the connection implement `ResultStream` for a client that waits, with permissive parsing and transactions, if the server fails only before the first row? Does any handler's ASSERT fail? | 3 queries, 2 rows |
| `server_failures` | ... and if the server also fails in the middle of a result: rows match their description and their columns, completed results are whole, never more than one result held, no crash; the invariants `WaitingHeld` and `KeptHeld` of the proofs | 3 queries, 2 rows |
| `pipelined` | Two queries outstanding, queries of two statements, refused queries and Parses that overtake, failures anywhere: does every row stand behind a description or a row? Is no query told ready twice, as each is in one place (`ReadyHeld`)? | 3 queries, 1 row |
| `hostile` | All verdicts, prepared statements, failing mutators, pipelining: type invariant, order of rows, and an answer for every query while the process lives | 2 queries, 1 row |
| `connect` | Every configuration, chunks cut anywhere, every answer to the negotiation, a password, refused queries, messages that do not validate, for clients that wait: whole messages once and in order both ways, nothing left behind, encrypted where it must be, ASSERTs, sync lost by what does not validate only, every other wait ends; does it implement `Relay`? | 5 messages |
| `connect_eager` | A client that waits for nothing and sends what does not validate: is OutOfSyncState final? Does nothing secret wait before the switch to TLS (`EncryptionHeld`)? | 3 messages |
| `codec` | Taken exactly when whole, read to its end, written as it came with a true length | texts of up to 5 bytes, rows of up to 2 columns, `Wrap` one above the longest sum of sizes |
| `rewrite` | About fifty queries in any order: every connective and clause, joins, GROUP BY and HAVING, INSERT, UPDATE, INSERT ... SELECT, a table without TDE, all that is refused, rejected or fatal: answers agree with the database in clear, the store decrypts to it with the right companions, ciphertexts fit, no secret is sent, only the unsupported is fatal; does it implement `Store`? | 2 rows per table, blocks of 2 bytes, join keys of 1, ids that collide in them |
| `v_stale_description` | finding 1 | 2 queries |
| `v_empty_value` | finding 2 | rows of up to 2 columns |
| `v_body_comparison` | finding 3 | 2 rows |
| `v_encrypted_session` | finding 4 | 2 messages |

**Why the bounds are enough.** A hazard of the manager needs a query that
leaves something behind, one that finds it, and one that shows that it is gone
again (3 queries), and a row that is retained when another one arrives (2 rows);
a second outstanding query is the shortest overlap. `hostile` has 2 queries
because it has every disturbance at once; the invariants it checks are proved
for all values below. A `Connection` session is TLS request, startup, password
and query (4), with one more message to see what is left behind. Two rows on
either side of a join are one that meets it and one that only shares its key.
`Wrap` is so small that the longest row of `codec` is the longest one the counter
can count. Blocks of two bytes have texts that fill a block (`xx`), texts that do not (`x`)
and the empty text, which is all that padding tells apart.

**Deadlock** is not checked: a client need not send anything, a bounded one
stops, and a crashed process does nothing.

**Fairness.** `MutationManager!FairSpec`: the server goes on (`WF` of its
steps as a whole, since which way it goes is its own affair), and the client
reads what is written to it. `Connection!FairSpec`: the network delivers, a
handler runs to its end (it is a loop in one thread), the transmission callback
comes (`OnTransmitted` is Envoy's promise), the server answers, the client
reads. No step of a client that sends is fair. `EveryWaitEnds` excepts two waits
that the code does not end: of a client that asked for an encryption the proxy
does not terminate (finding 4), and of one that sent what does not validate.

## 4. Refinement

`conforming` checks `PromiseKept`, which is `ResultStream!Spec` with
`asked <- what each query of log asks for`, `heard <- delivered` and
`kept <- kept` (rows the mutators let through). `ResultStream` has no buffers,
no decoder state and no server: a result is told in one step, as a whole, only
for the query asked last, and refused queries are answered at once. It is
checked, and proved, for queries of one statement and a client that waits. The
promise does not hold beyond that; section 6 says how it fails. The rows of a
result are what stands in `kept` behind the last place of another query
(`RowsBehind`), so that a result is a piece of a sequence and not a selection
from it.

`connect` checks `ConnectionRelays`, which is `Relay!Spec` with the client's and
the server's messages as `said` and `told`, and the messages of which the last
part was written (`RequestsIn`, `AnswersIn`) as `up` and `down`. `Relay` knows no buffers, no chunks, no
handlers, no negotiation and no retained results: what is meant for the server
is passed in order and once, what the server tells reaches the client in order
and once, the answers of the proxy's own come in the order of what they answer,
and once the connection is shut (closed, or the decoder is out of sync and what
came before has been sent) nothing passes in either direction. EncryptedState is
not shut: what the code drops there is no part of the promise (finding 4). It is checked,
and proved, for clients that wait.

`rewrite` checks `StoreIsKept`, which is `Store!StoreSpec` on the tables and the
last statement sent. `Store` knows no visitors, no mutators' states, no dumper
and no conditions: only what a statement gives, in which order the chain adds to
it, and that the rows an UPDATE hits are the same rows in clear and on the
server. The last is where conditions come in: a comparison that is rewritten to
hit other rows breaks the refinement. It is checked with TLC only, see below.

## 5. Proofs

The theorems about `MutationManager` hold for every set of queries, any number of queries and rows,
any pipelining (`Window`), both parsing modes and any failures of the server,
under the named assumptions on the constants in `MutationManager`
(`QueriesAssumption`, `BoundsAssumption`, `SwitchesAssumption`).

* `MutationManagerProofs!TypeCorrect`: `Spec => []TypeOK`. `TypeOK` is
  inductive as it stands once it says that the server is at a query whenever it
  is not idle. It also says that no moved-from message is ever written to the
  client. The proof goes by groups of variables (client, server, retained,
  mutators, failures), with one lemma per handler.
* `MutationManagerProofs!RowOrderIsKept` and `RowsAreInServerOrder`:
  no row is delivered twice or behind a later row. `Increasing(delivered)` is
  not inductive: an emission appends what is retained. `RowOrder` adds that
  retained rows increase, that all of them are younger than all delivered ones
  and not younger than `serial`, and that a description is not a row. An
  emission then joins two increasing sequences of which one lies before the
  other and leaves `Null` behind; a new row has the number `serial + 1`; a
  query only forgets. The lemmas on joining sequences are stated apart.
* `MutationManagerProofs!DescriptionIsHeld` and `RowsDoFollowDescriptions`: a row
  reaches the client directly behind a description or another row. Assumption:
  `MutatorErrors = FALSE` (with it a rejected description is not retained while
  its rows are discarded, and a later description may be lost with the error;
  TLC refutes the inductive invariant there). `DescriptionHeld` adds that
  `error_state_` is clear, that the server is in a result only with its
  description retained, and that retained rows imply a retained description;
  this is so although rows and description are dropped at different times,
  because rows are dropped first.

* `MutationManagerProofs!ReadyIsHeld` and `QueriesAreAnsweredOnce`: no query is told
  ready twice, although refused queries overtake those that are queued. A query
  is in one place: in the queue, at the server, or answered. `ReadyHeld` says
  that these never name a query twice, nor one that was not sent; `ProcessQuery`
  gives a new query to one of them only. Assumption: `MutatorErrors = FALSE`,
  since an error that waits for its completion is answered besides the server's
  own ReadyForQuery.
* `WaitingProofs` is about clients that wait. `ClientWaits` names what that
  takes: `Window = 1`, no mutator errors, queries of at most one statement, none
  that PANICs, none with `Parse`, and with permissive parsing no SELECT among
  those that are passed unparsed. Section 6 shows what goes wrong without most
  of them. Failures of the server are free. `WaitingHeld` says that the only
  query is in the queue, at the server or waiting for the client to read its
  answer (`OneAtATime`); that the mutators remember this query's columns while
  the server has it, if it is a SELECT (`OwnColumns`); and that what is retained
  is the result of its only statement (`OwnResult`). A description left by a
  failed result may wait beside it, which is finding 1: `OwnResult` claims it
  only while rows come. From it follow `NoCrash`, `NoAssertFails`,
  `RowsMatchDescription`, `RowsFit` and `OneResultRetained`.
* `WaitingProofs!KeptIsHeld` and `ResultsAreWhole`: what the mutators let through
  reaches the client before the completion. `KeptHeld` adds that nothing is kept
  of, and no completion told for, a query that has not begun, and that in a
  result the rows kept are all retained. The emission then moves every one of
  them in front of the completion.
* `WaitingProofs!PromiseIsKept`: `Spec => PromiseKept`, the refinement of
  `ResultStream`, in addition for a server that fails statements only before
  their first row (`FailsEarly`; otherwise finding 1). The mapping needs
  `PromiseHeld` (`PromiseIsHeld`): what is kept behind the last place of another
  query is what is retained now, the client has been told nothing of the query
  under way but what it was told at once (`Untold`, `LastTold`), and the log
  knows every query that is told of. Then each step is one of `ResultStream`: a
  query that is forwarded is an `Ask`, one that is refused a `Refuse`, a row
  retained a `Keep`; what reaches the client is one of `TellRows`,
  `TellCompletion`, `TellNothing`, `TellError` and `TellReady`; and every other
  step leaves `asked`, `kept` and `heard` as they are.

The theorems about `Connection` hold for any messages, any answers of the server
and any cut of the stream, in every configuration.

* `ConnectionProofs!OutOfSyncStays`: OutOfSyncState is never left. It needs no
  invariant: every turn of `doDecode` but `Ignore` belongs to another state, and
  client, server, network and the ends of a handler leave the state alone.
* `ConnectionProofs!EncryptionIsHeld` and `SessionsAreEncrypted`: with
  `upstream_ssl REQUIRE` no startup, password or query reaches the server but
  over TLS, for impatient clients too. `EncryptionHeld` adds that the decoder is
  in sync only behind the switch, that before it nothing secret is in the
  replacement buffer of the client's side, and, since the decoder drains as many
  bytes as a header names, that what it has in front of it until the session
  begins are whole messages: otherwise it could take the tail of a startup for a
  cancel request, which is passed in clear.
* `ConnectionProofs!ConnectionIsTyped`: the type invariant, for clients that
  wait for nothing too. Its one deep part is that a client never reads past the
  end of what was written to it, although it waits for three bytes of an answer
  to a message and for one of an answer to a request to encrypt. `TypeHeld`
  therefore says by what each stream ends: single bytes are answered to requests
  to encrypt only, every other answer comes as three, and behind a startup there
  is no request to encrypt. What each state of the decoder implies of what was
  read and written so far carries this over the negotiations.

`SessionProofs` is about clients that wait (`Patient`), for any number of
messages and any cut of either stream.

* `SessionIsHeld`, `AssertsHold` and `SyncStays`: `SessionHeld` says where the
  one message under way, or its answer, can be: on its way to the decoder
  (`Arriving`), put aside while TLS is negotiated (`Negotiating`), in the
  replacement buffer (`Leaving`), with the server (`AtServer`), on its way back
  (`Answered`), or given up (`Passing`, `LostSync`); everything else is empty
  then. An answer may be in four buffers and the network at a time, cut
  anywhere; `Proper` says of the concatenation what may follow what, and
  `InMessages` of each buffer that it holds whole messages. That every buffer
  but the running handler's holds less than a message is what makes a handler
  leave only when nothing is left to be done. The ASSERTs of `onWrite` and of
  the Stopped results, and that only what does not validate loses sync, are
  parts of it.
* `RelayIsHeld`, `QueriesAreRelayed`, `AnswersAreRelayed` and
  `NothingStaysBehind`: each byte once, in order, whole messages. The properties
  say it by sets of bytes: in front of each byte that was relayed are exactly
  those that were sent before it. `RelayHeld` adds where the streams are cut:
  what the server lacks is the one message under way, and what the client lacks
  is what follows the `k`-th byte of the answers, which is, byte for byte, what
  is in the buffers on the way back (`Coming`). Then each step moves the cut, or
  moves bytes across it. When nothing is under way the cut is at the end.

`RelayProofs!ConnectionIsARelay`: `Spec => ConnectionRelays`, the refinement of
`Relay`, for clients that wait.

* The mapping puts a sequence together from pieces: each byte contributes the
  message it ends, or nothing. `FlattenSeq` is a fold; `Flattening` shows by
  induction what it gives for an empty sequence, for one piece and for two
  sequences joined (`FlattenJoined`), and so that longer streams map to longer
  ones.
* What was passed is a prefix of what was said. `PickedIsPrefix` reduces this to
  places: a sequence collected from one stream is a prefix of that collected from
  another when the places that contribute go in order to such places of the
  other, with none left out in front. `QueriesRelayedOnce` and `InPlace` of
  `DownHeld`, which speak of sets of bytes, give those places
  (`RequestsInOrder`, `AnswersInOrder`).
* For that no two bytes of the answers may be the same, and the proxy's own
  answers must not be taken for the server's. `ServedHeld` says that the server has
  read all but the last message and has answered each at most once, `OwnHeld`
  that everything on the way back in front of the replacement buffer is the
  server's, and that the client has got, or will get when the handler ends, the
  proxy's answers to all messages that were taken off their buffer, and no others
  (`AnswersAreAddressed`).
* Then a step of the client is `Say`, of the server `Tell`; every other step
  makes both outputs longer or leaves them, and is `Pass` (`OutputsGrow`,
  `Passes`), or stutters where the connection is shut (`ShutPassesNothing`).

`CodecProofs` is about well-formed messages (`WellFormed`: of the set `Message`,
with anything behind them, and passwords of three characters at least, see
section 6), for any texts, any number of columns and fields, of any size.

* `CodecIsTyped`, `WholeMessagesAreValid`, `WholeMessagesAreConsumed`: a message
  validates exactly when it is whole, and then to its last byte. The proof says
  where each part of a body begins (`RowIs`, `ErrorIs`, `QueryIs`, `StatusIs`),
  by induction over the parts, and that each type's validation at such a place
  is `Right`: it goes on to the next place when the bytes up to there have come,
  and asks for more otherwise. The turns of the loops of Array and Repeated go
  from one place to the next; the one thing behind an ErrorResponse's fields
  that is no field is its terminating zero. `CodecHeld` carries this over the
  bytes that arrive.
* `WrittenLengthIsTrue` and `MessagesArePassed`: what is written states its own
  length, and is what came. In addition a body is no longer than the uint16_t
  that counts it (`SizesFit`: longer rows are announced wrongly, section 6), and
  for the second no value of a row is empty (`NoEmptyValue`: finding 2). Reading
  is shown to undo the peer's writing, element by element, but for the NULL an
  empty value is read as (`RereadAll`).
* `ValidationStaysInside`: whatever the bytes are and whatever length they state,
  a validation ends inside of the buffer, so that `data.length() - pos` never
  goes below zero.

The inductions go over the set of the numbers up to which something holds
(`Flattening!CountingUp`, from the well-foundedness of `<` on the naturals), as the
library's induction takes an operator.

`StoreProofs` is about the store, for every text, block size, length of the
initialization vector and of the join key, any texts that share a join key
(`Colliding`), any number of rows and any statements.

* What is written is as long as `max_ciphertext_size` says
  (`CiphertextFillsItsBuffer`), is decrypted to the text (`EncryptedIsDecrypted`),
  and so is the hexadecimal form it is stored in (`HexIsRead`, `StoredIsRead`).
  Texts that fill their last block are where an off-by-one would be; the lemmas
  on blocks are about them.
* `StoreTyped`, `StoreIsRead`, `StoreFits`, `GivenValuesAreHidden`:
  `StoreSpec` implies `TypeOK`, `StoreDecrypts`, `CiphertextsFit` and
  `GivenStayHidden`, the half of `SecretsStayHidden` about values to be stored.
  `StoreDecrypts` says what the cells are read as; the buffers and the
  comparisons depend on what they are. The inductive invariant `StoreHeld`
  therefore says of every row of the server that it is the row in clear, sealed
  (`SealedRow`): each encrypted cell is the ciphertext of the cell in clear, each
  companion the digest of it, NULL stays NULL. It adds that the cells in clear are
  texts (what is decrypted is compared with them), that both tables have as many
  rows, and that the last statement gives nothing away (`SafelyGiven`); TLC
  checked it on the states of `rewrite` before it was proved. The step rests on
  `SealedPairs`: whatever a statement gives, `Sealed` is the given columns in
  their places with their values encrypted, then the blind indexes of those that
  have one, then the join keys, no column twice. So a row that is inserted or
  changed by it has for each column the value of the one pair that names it
  (`WrittenCells`), and a column that is not given keeps ciphertext, index and
  key (`ChangedIsSealed`): none of the three is ever changed alone.
* `IndexComparisonAgrees`, `IndexGroupsAgree`, `ComparedValuesAreHidden`: `=` and
  `<>` of an indexed column with a text or NULL has the same truth for the sealed
  row as the client's comparison for the row in clear, unknown included; sealed
  rows fall into the same groups by the index as by the column; and the literal
  that is sent is a digest. `JoinComparisonAgrees`: an encrypted join is met in
  clear exactly if the server finds the rows by their join keys and the cells
  the proxy decrypts are the same, whatever keys collide; NULL joins nothing.
* `ColumnsAreRemembered`, `AnswersAreRead`, `JoinsAreExact`: the way back, which
  goes by names. For any sequence of visits that a visitor lets pass, the
  column remembered under a name that one column of the body has is that column
  of the very table its alias stands for: by induction over the visits
  (`MemoryGrows`), it is so right behind the visit of the column, and no later
  visit takes the name (`ColumnIsKept`). So every cell shown of a column is
  decrypted with the key of its column, or not at all if it has none, and comes
  out as the cell in clear. `JoinsAreExact` puts the halves of joins together,
  for any tables joined by any number of conditions: that all are true in clear
  is the same as that all hold of the join keys at the server and that the
  proxy, looking both columns up by their names in the decrypted row, keeps it.

What a query is assumed to be for the last three are hypotheses of the theorems. A
name that two columns of the result have, or a join whose columns are not shown,
is refused by the proxy (`Ambiguous`, `JoinColumnMissing`). FROM is visited in
front of the body (`AliasesFirst`): that is `Visitor::visitSelectStatement`
without a SELECT inside of another, which the server refuses anyway (section 6).
An alias inside of an expression does not exist in SQL (`IsSelected`). A client
names columns in clear (`MayName`). `JoinsAreExact` is about joins of different
tables (`OneEach`; section 6 has the other ones) and no column called `?column?`.
13 of the 15 SELECTs that `rewrite` forwards are such queries, three of them
joins; the other two are those whose results the proxy refuses.

Assumptions, besides those on sizes (`SizesAssumption`, `RowsAssumption`):
`JoinKeyAssumption`, a join key has at least one part and no more than the digest
(`ASSERT(join_key_size <= hash.size())`, `probabilistic_join.cc:264`; the
configured size is 1, `dummy_config.h:167`). What clients are assumed to give is
`IsGiven`, a guard of `Store` and so a part of what `StoreIsKept` checks: columns
in clear of the table, none twice, texts or NULL to columns that are indexed or
joined on, and floats written with six decimals, as `std::to_string` writes
them. Section 6 shows what goes wrong without the last two.

**Only model-checked.** Liveness (`EveryQueryAnswered`, `EveryWaitEnds`), which
is beyond this prover. Of `QueryRewrite`, whose queries are trees and whose
operators on them are RECURSIVE: that it implements `Store` (`StoreIsKept`: that
the walk finds every value given, that refusing comes before changing, that
conditions of any shape hit the same rows), `AnswersAgree`,
`CrashIsUnsupported`, and the half of `SecretsStayHidden` about comparisons: that
a rewritten comparison hides its text is proved, that every comparison with an
indexed column is rewritten or refused is an induction over the query. In the same
way the theorems on comparisons are about one comparison or several that must
all hold; OR and NOT over them are structural recursion and left to TLC, and so is
that the walk over a tree gives such visits as `AnswersAreRead` is about. The findings, being violations,
have no theorems.

## 6. What the models show to be wrong

Findings, each with a run:

1. `v_stale_description`: `retent_row_description_` is cleared only where it is
   emitted (`postgres_mutation_manager.cc:92`). After a SELECT that the server
   fails in the middle, the next completion (an INSERT's, say) brings the
   description of the failed SELECT.
2. `v_empty_value`: `VarByteN::read` takes a length of 0 for NULL
   (`postgres_message.cc:96`), so that an empty string comes back as NULL.
3. `v_body_comparison`: `SELECT c2r.id, c2r.region = 'r' ...` goes to the server
   with `'r'` in clear, because everything in the body of a SELECT is let
   through (`mutators/encryption.cc:103`).
4. `v_encrypted_session`: with `terminate_ssl` false an SSLRequest is passed to
   the server and the decoder enters EncryptedState, in which
   `onDataIgnore` drains everything (`postgres_decoder.cc:377`). The answer of
   the server is lost and the client waits for ever.

Outside of what the passing runs allow, the same modules also show the
following. The runs' constants exclude them, so that the remaining behaviour can
be checked; each is reached by the change of constants in brackets.

* A client with two queries outstanding loses rows: the second query clears the
  rows retained for the first [`server_failures` with `Window = 2`:
  `CompletedResultsAreWhole`], and rows of the first are decrypted or filtered with
  the columns of the second [`RowsFit`]. A refused query is answered before the
  one in front of it; `OneReadyPerQuery` says only that neither is answered twice.
* A Parse is refused with an error of the proxy's, but the Bind and Execute that
  follow it go on to the server and bring a second error (`ProcessParse`). There
  is one ReadyForQuery all the same.
* Two SELECTs in one query crash: `retent_rows_` still holds the emptied
  pointers of the first result when the second is emitted
  [`server_failures` with `BatchQueries`: `NoCrash`].
* A mutator's error followed by a server's error for the same statement leaves
  `error_state_` set for a later one [`MutatorErrors = TRUE`: `NoAssertFails`];
  the CommandComplete of a result answered with an error is passed behind it.
* With permissive parsing, an unparsed SELECT is filtered with the columns of
  the query before it [`RowsFit` with `Unparsed(<<"select">>)`].
* The ReadyForQuery of a refused query always says idle
  (`postgres_protocol.cc`), inside a transaction too.
* `upstream_ssl REQUIRE` and a client that sends on behind its startup: the
  rest of the buffer is both in `temp_storage_` and in the buffer, and the
  ASSERT behind Stopped does not hold [`connect_eager` with `NoAssertFails`].
* A password of one or two characters does not validate, since PasswordMessage
  is described as Int32 and ByteN, and the session goes out of sync. Then, as for
  any message that does not validate, all that follows is dropped in silence and
  the client waits for ever [`connect` with `EveryWaitEnds` without
  `InvalidSent`].
* A row of 64 KiB and more is announced with a wrapped length [`codec` with
  `Wrap = 14`: `LengthIsTrue`].
* `AnswersAgree` fails for OR and LIMIT over an encrypted join (the server
  decides before rows are dropped), LEFT JOIN (dumped as JOIN), DISTINCT (not
  dumped), a join of a table with itself on one column (both sides have the name
  of one column, so the filter compares a value with itself,
  `probabilistic_join.cc:39`), and a value stored as a number but compared as a
  text (their hashes differ) [`rewrite` with such a query].
* `StoreDecrypts`, `AnswersAgree` and `StoreIsKept` fail for every float that is
  not written with exactly six decimals: `0.5` is stored in an encrypted column,
  and told, as `0.500000`, since `std::to_string` writes it
  (`mutators/encryption.cc:203`) [`rewrite` with `Half` in place of `HalfToSix`
  in the UPDATE of `timezone`]. Floats that are not encrypted are written by the
  dumper with six significant digits (`dump_visitor.cc:37`).
* **Clients do not give an id twice** (`NewIds`): the columns `id` are unique in
  the databases of the tests, but ciphertexts have random IVs, so the constraint
  of the server never fires and the store has two rows where the database in
  clear refuses the second.
* HAVING is visited as GROUP BY is: a LIKE on an indexed column there is renamed
  by the blind index before the encryption mutator looks for the column, which
  then lets its literal out in clear (`visitor.cc:181`, `blind_index.cc:33`)
  [`SecretsStayHidden` with `c.name LIKE 'x'` in HAVING].

Among the queries of `rewrite`, with the outcome the code gives them:

* Fatal to the process, and so to every connection: an INSERT without a list of
  columns into a table without TDE (`blind_index.cc:119`), NATURAL JOIN
  (`visitor.cc:214`), EXISTS, IN (SELECT ...), BETWEEN, CASE, function calls and
  parameters (`visitor.cc:91`, `:118`), any statement the visitor has no case for
  (`visitor.cc:34`). `CrashIsUnsupported` says that there are no others.
* Rejected by the server because of what the dumper leaves out: a SELECT in FROM
  (its alias, `dump_visitor.cc:199`), UPDATE of a table with an alias (`:267`),
  `a ^ b` (its operator, `:313`). INSERT ... SELECT loses its columns (`:252`):
  it fills the table's columns in their order instead.
* Rejected by the server because the mutators look at less than they rename: GROUP
  BY an indexed column with that column in the body, where it keeps its name.

Quotes inside of literals are not escaped by the dumper (`dump_visitor.cc:43`);
the text of SQL is not modelled.

## 7. Not modelled

* Pass-through messages (COPY, notices, ParameterStatus in `Connection`, ...):
  they have no handler and are relayed as `terminate` and `authreq` are.
* `end_stream` and connection resets (`postgres_filter.cc:37` and `:98`): they
  are Envoy's, outside of this repository, and no buffer depends on them.
* Statistics and configuration parsing.
* AES, HMAC and SHA-256 themselves (BoringSSL); the SQL parser (hsql).
* UNION (refused) and WITH (neither visited nor dumped); arithmetic and the
  other comparisons, which the visitor walks as it walks AND; BETWEEN and CASE,
  which are fatal as function calls are; four columns of the configuration that
  are only encrypted, as `timezone` is.
* The text of SQL: quotes, blanks, digits of numbers.
* The aliases of nested SELECTs share one map (`visitor.cc:201`). The model has
  it so, but nothing can be observed of it, as every such query is rejected.
* The extended query protocol beyond `Parse` being refused.
* Memory in bytes: `OneResultRetained` bounds what is retained by one result, and
  a result has no bound in the code.
* Build files, benchmarks, deployment: nothing of them has a behaviour.

## 8. Plan

1. *Done*: every component that has a behaviour, three abstract specifications and
   their refinements; proved: types, order, place and completeness of rows, one
   answer per query, no crash of waiting clients, the types of a connection, the
   encryption of sessions, relaying in order and once, the refinements of
   `ResultStream` and `Relay`, the validation, reading and writing of messages,
   the framing of ciphertexts, what is stored and hidden by any statements,
   comparisons and joins of it, and what comes back of it.
2. Compose `Connection` and `MutationManager`, so that pipelining comes from the
   network and no longer from `Window`. The interface is narrow (a message in,
   messages out, in one handler) and both sides are checked against it; the
   product of their states is what stands in the way.
3. The refinement of `Store` by `QueryRewrite` as a theorem: its operators on
   queries would have to be recursive functions on sets of queries of bounded
   depth.
