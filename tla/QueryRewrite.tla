---------------------------- MODULE QueryRewrite ----------------------------
(***************************************************************************)
(* What the rewriting of queries and of their results amounts to.  The     *)
(* client's statements run twice: as the mutators rewrite them, on the     *)
(* database that holds ciphertexts, blind indexes and join keys, and as    *)
(* they are, on a database in clear, which says what they mean.            *)
(*                                                                         *)
(* Server has what a statement does to a database.                         *)
(***************************************************************************)
EXTENDS Server, Store

VARIABLES
  asked,    \* the last query the client sent
  due,      \* what it answers on plain
  told,     \* what the client is told
  crashed   \* the query ended the process

vars == <<plain, stored, asked, sent, due, told, crashed>>

(* What becomes of every query, with the server's own verdict.              *)
Rewritten ==
  [query \in Queries |->
     LET rewriting == Rewrite(query)
     IN IF rewriting.outcome = "ok" /\ Fails(rewriting.query)
          THEN [rewriting EXCEPT !.outcome = "rejected"] ELSE rewriting]

-----------------------------------------------------------------------------
NothingSent == [op |-> "none"]

Init == /\ plain = [table \in Tables |-> <<>>]
        /\ stored = [table \in Tables |-> <<>>]
        /\ asked = NothingSent /\ sent = NothingSent
        /\ due = Result(<<>>) /\ told = Result(<<>>)
        /\ crashed = FALSE

(* The client sends a query, with what the mutators make of it.             *)
Asks(query) == ~crashed /\ asked' = query

(* The error goes to the client, the query to nobody.                       *)
Refuse(query, rewriting) ==
  /\ Asks(query)
  /\ rewriting.outcome = "refused"
  /\ sent' = NothingSent
  /\ due' = ErrorResult /\ told' = ErrorResult
  /\ UNCHANGED <<plain, stored, crashed>>

(* Every client loses its connection.                                       *)
Crash(query, rewriting) ==
  /\ Asks(query)
  /\ rewriting.outcome = "crashed"
  /\ crashed' = TRUE
  /\ sent' = NothingSent
  /\ due' = ErrorResult /\ told' = ErrorResult
  /\ UNCHANGED <<plain, stored>>

(* The server's error is passed on.                                         *)
Fail(query, rewriting) ==
  /\ Asks(query)
  /\ rewriting.outcome = "rejected"
  /\ sent' = rewriting.query
  /\ due' = ErrorResult /\ told' = ErrorResult
  /\ UNCHANGED <<plain, stored, crashed>>

Forward(query, rewriting) ==
  /\ Asks(query)
  /\ rewriting.outcome = "ok"
  /\ sent' = rewriting.query
  /\ UNCHANGED crashed

Done == due' = Result(<<>>) /\ told' = Result(<<>>)

Select(query, rewriting) ==
  /\ query.op = "select"
  /\ Forward(query, rewriting)
  /\ due' = Result(Answer(plain, query))
  /\ LET body == rewriting.query.body
         columnNames == [j \in DOMAIN body |-> ShownName(body[j])]
     IN told' = Received(rewriting, columnNames, Answer(stored, rewriting.query))
  /\ UNCHANGED <<plain, stored>>

Ids(table) == {plain[table][i]["id"] : i \in DOMAIN plain[table]}

(* Clients do not give an id twice: see README.md.                          *)
NewIds(query) ==
  \A i \in DOMAIN Given(query) :
    Given(query)[i].column = "id" => Cell(Given(query)[i].value) \notin Ids(query.table)

Insert(query, rewriting) ==
  /\ query.op = "insert"
  /\ Forward(query, rewriting)
  /\ Len(stored[query.table]) < MaxRows
  /\ NewIds(query)
  /\ plain' = Inserted(plain, query)
  /\ stored' = Inserted(stored, rewriting.query)
  /\ Done

Copy(query, rewriting) ==
  /\ query.op = "copy"
  /\ Forward(query, rewriting)
  /\ plain' = Copied(plain, query)
  /\ stored' = Copied(stored, rewriting.query)
  /\ \A table \in Tables : Len(stored'[table]) <= MaxRows
  /\ Done

Update(query, rewriting) ==
  /\ query.op = "update"
  /\ Forward(query, rewriting)
  /\ (\E i \in DOMAIN query.updates : query.updates[i].column = "id")
       => NewIds(query) /\ Len(plain[query.table]) < 2
  /\ plain' = Updated(plain, query)
  /\ stored' = Updated(stored, rewriting.query)
  /\ Done

Next == \E query \in Queries : \E rewriting \in {Rewritten[query]} :
          \/ Refuse(query, rewriting) \/ Crash(query, rewriting) \/ Fail(query, rewriting)
          \/ Select(query, rewriting)
          \/ Insert(query, rewriting) \/ Copy(query, rewriting) \/ Update(query, rewriting)

Spec == Init /\ [][Next]_vars
-----------------------------------------------------------------------------
(* Properties.                                                              *)

(* The client is told what the database in clear would tell it, or an       *)
(* error.                                                                   *)
AnswersAgree == told.isOk => told = due

AliasesOf(query) ==
  CASE query.op \in {"select"} -> Ranges(query.from)
    [] query.op = "update" -> {<<query.table, query.table>>}
    [] OTHER -> {}

About(query, column) ==
  {<<range[2], column.name>> : range \in {r \in AliasesOf(query) : r[1] = column.table}}

ExpressionsIn(query) ==
  LET exprs == CASE query.op = "select" -> JoinedOn(query.from) \o query.body \o query.where
                                             \o query.group \o query.having
                 [] query.op = "update" -> query.where
                 [] OTHER -> <<>>
  IN UNION {ExpressionsOf(exprs[i]) : i \in DOMAIN exprs}

(* No value of an encrypted column is sent in clear, neither to be stored   *)
(* nor to be compared with the column.                                      *)
SecretsStayHidden ==
  /\ GivenStayHidden
  /\ \A expr \in ExpressionsIn(sent) :
       IsOperator(expr) =>
         \A i, j \in DOMAIN expr.args :
           IsColumn(expr.args[i]) /\ InClear(expr.args[j]) =>
             \A ref \in About(sent, expr.args[i]) : ~Sensitive(ref[1], ref[2])

(* The process dies of nothing but what the visitors have no case for and   *)
(* an INSERT that does not list its columns, and of these only where the    *)
(* table has no TDE: "columns definition for INSERT is required for         *)
(* TDE-enabled tables".                                                     *)
RECURSIVE HasNatural(_)
HasNatural(ref) ==
  IF ref.is = "join" THEN ref.on = <<>> \/ HasNatural(ref.left) \/ HasNatural(ref.right)
                     ELSE FALSE

Unsupported(query) ==
  \/ query.op = "other"
  \/ query.op = "insert" /\ query.columns = NoColumns /\ query.table \notin TDETables
  \/ /\ query.op = "select"
     /\ \/ HasNatural(query.from)
        \/ \E expr \in ExpressionsIn(query) : expr.is = "call"
  \/ /\ query.op \in {"update", "insert"}
     /\ \E expr \in ExpressionsIn(query) \union {Given(query)[i].value : i \in DOMAIN Given(query)} :
          expr.is = "call"

CrashIsUnsupported == crashed => Unsupported(asked)

(* Whatever the queries look like, they do to the store what the values     *)
(* they give do.                                                            *)
StoreIsKept == StoreSpec
=============================================================================
