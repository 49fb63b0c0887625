------------------------------- MODULE Mutators -------------------------------
(***************************************************************************)
(* The chain of mutators: what each one refuses, what it replaces, what    *)
(* the dumper writes of the outcome, and how a result goes back through    *)
(* the chain (mutators/*.cc, dump_visitor.cc).                             *)
(***************************************************************************)
EXTENDS SqlVisitor, ResultColumns

-----------------------------------------------------------------------------
(* What a mutator replaces in the expressions it has visited.               *)
Renamed(column, has, Name) ==
  IF column \in has THEN Name[column[2]] ELSE column[2]

IndexGroupColumn(aliases, column) ==
  [column EXCEPT !.name = Renamed(RefOf(aliases, column), HasBlindIndex, BIColumn)]

RECURSIVE Replaced(_, _, _, _)
Replaced(mutator, aliases, place, expr) ==
  CASE Candidate(mutator, expr) /\ mutator = "blind_index" -> IndexComparison(aliases, expr)
    [] Candidate(mutator, expr) /\ mutator = "join" -> JoinComparison(aliases, expr)
    [] IsOperator(expr) /\ ~Candidate(mutator, expr) ->
         [expr EXCEPT !.args = [i \in DOMAIN @ |-> Replaced(mutator, aliases, place, @[i])]]
    [] IsColumn(expr) /\ mutator = "blind_index" /\ place = "group" ->
         IndexGroupColumn(aliases, expr)
    [] OTHER -> expr

ReplacedAll(mutator, aliases, place, exprs) ==
  [i \in DOMAIN exprs |-> Replaced(mutator, aliases, place, exprs[i])]

RECURSIVE ReplacedTable(_, _, _), ReplacedSelect(_, _, _)
ReplacedTable(mutator, aliases, ref) ==
  CASE ref.is = "sub" -> [ref EXCEPT !.select = ReplacedSelect(mutator, aliases, @)]
    [] ref.is = "join" ->
         [ref EXCEPT !.left = ReplacedTable(mutator, aliases, @),
                     !.right = ReplacedTable(mutator, aliases, @),
                     !.on = ReplacedAll(mutator, aliases, "on", @)]
    [] ref.is = "cross" ->
         [ref EXCEPT !.list = [i \in DOMAIN @ |-> ReplacedTable(mutator, aliases, @[i])]]
    [] OTHER -> ref

ReplacedSelect(mutator, aliases, select) ==
  [select EXCEPT !.from = ReplacedTable(mutator, aliases, @),
                 !.body = ReplacedAll(mutator, aliases, "body", @),
                 !.where = ReplacedAll(mutator, aliases, "where", @),
                 !.group = ReplacedAll(mutator, aliases, "group", @),
                 !.having = ReplacedAll(mutator, aliases, "group", @),
                 !.order = ReplacedAll(mutator, aliases, "order", @)]

-----------------------------------------------------------------------------
(* A column that is configured is given literals only.                      *)
OnlyLiterals(query, has) ==
  \A i \in DOMAIN Given(query) :
    Configured(query.table, has, Given(query)[i]) => IsLiteral(Given(query)[i].value)

WithReplaced(mutator, aliases, query) ==
  CASE query.op = "select" -> ReplacedSelect(mutator, aliases, query)
    [] query.op = "copy" -> [query EXCEPT !.select = ReplacedSelect(mutator, aliases, @)]
    [] query.op = "update" ->
         [query EXCEPT !.where = ReplacedAll(mutator, aliases, "where", @),
                       !.updates = [i \in DOMAIN @ |->
                          [@[i] EXCEPT !.value = Replaced(mutator, aliases, "value", @)]]]
    [] query.op = "insert" ->
         [query EXCEPT !.values = ReplacedAll(mutator, aliases, "value", @)]
    [] OTHER -> query

-----------------------------------------------------------------------------
(* The three mutators.  A mutation has an outcome, the query it leaves and  *)
(* what the mutator remembers for the result.                               *)
Mutation(outcome, query, memory) ==
  [outcome |-> outcome, query |-> query, memory |-> memory]

Candidates(visits) == SelectSeq(visits, LAMBDA visit : visit.kind = "candidate")

(* A candidate of the blind index, or a column of GROUP BY and HAVING,      *)
(* without its table.                                                       *)
IndexUnqualified(visits) ==
  \E i \in DOMAIN visits :
    \/ visits[i].kind = "candidate" /\ visits[i].of.args[1].table = ""
    \/ visits[i].kind = "column" /\ visits[i].place = "group" /\ visits[i].of.table = ""

IndexGiven(query) == WithGiven(query, Indexed(query.table, Given(query)))

(* An INSERT without columns comes as far as their size().                  *)
BlindIndex(query) ==
  LET visits == VisitedStatement("blind_index", query, TDETables)
      memory == Memory("blind_index", visits, IsEncrypted)
      outcome == CASE memory.outcome # "ok" -> memory.outcome
                   [] memory.outcome = "ok" /\ IndexUnqualified(visits) -> "refused"
                   [] memory.outcome = "ok" /\ query.op = "insert"
                        /\ query.columns = NoColumns -> "crashed"
                   [] memory.outcome = "ok" /\ query.op \in {"insert", "update"}
                        /\ (Ragged(query) \/ ~OnlyLiterals(query, HasBlindIndex)) -> "refused"
                   [] OTHER -> "ok"
  IN IF outcome # "ok" THEN Mutation(outcome, query, memory)
     ELSE Mutation("ok",
                   IndexGiven(WithReplaced("blind_index", memory.aliases, query)),
                   memory)

(* A join needs the tables of its columns, and both in the body.            *)
JoinRefused(visits, memory) ==
  \E i \in DOMAIN Candidates(visits) :
    LET expr == Candidates(visits)[i].of
    IN \/ \E side \in 1 .. 2 : expr.args[side].table = ""
       \/ /\ IsEncryptedJoin(memory.aliases, expr)
          /\ \E side \in 1 .. 2 :
               RefOf(memory.aliases, expr.args[side]) \notin memory.selected

KeyGiven(query) == WithGiven(query, Keyed(query.table, Given(query)))

ProbabilisticJoin(query) ==
  LET visits == VisitedStatement("join", query, TDETables)
      memory == Memory("join", visits, IsEncrypted)
      outcome == CASE memory.outcome # "ok" -> memory.outcome
                   [] memory.outcome = "ok" /\ JoinRefused(visits, memory) -> "refused"
                   [] memory.outcome = "ok" /\ ~OnlyLiterals(query, HasJoin) -> "refused"
                   [] OTHER -> "ok"
  IN IF outcome # "ok" THEN Mutation(outcome, query, memory)
     ELSE Mutation("ok",
                   KeyGiven(WithReplaced("join", memory.aliases, query)),
                   memory)

(* join_comparisons_: the columns of each join on join keys.                *)
JoinComparisons(query) ==
  LET visits == VisitedStatement("join", query, TDETables)
      memory == Memory("join", visits, IsEncrypted)
      joins == SelectSeq(Candidates(visits),
                         LAMBDA visit : IsEncryptedJoin(memory.aliases, visit.of))
  IN [i \in DOMAIN joins |-> [side \in 1 .. 2 |->
                                RefOf(memory.aliases, joins[i].of.args[side])]]

EncryptGiven(query) == WithGiven(query, Encrypted(query.table, Given(query)))

(* Mutant of Encryption: what the visitor prohibits is let through.         *)
EncryptionUnprohibited(query) ==
  LET memory == Memory("encryption", VisitedStatement("encryption", query, TDETables), {})
      outcome == CASE memory.outcome # "ok" -> memory.outcome
                   [] memory.outcome = "ok" /\ ~OnlyLiterals(query, IsEncrypted) -> "refused"
                   [] OTHER -> "ok"
  IN Mutation(outcome, IF outcome = "ok" THEN EncryptGiven(query) ELSE query, memory)

Encryption(query) ==
  LET memory == Memory("encryption", VisitedStatement("encryption", query, TDETables),
                       IsEncrypted)
      outcome == CASE memory.outcome # "ok" -> memory.outcome
                   [] memory.outcome = "ok" /\ ~OnlyLiterals(query, IsEncrypted) -> "refused"
                   [] OTHER -> "ok"
  IN Mutation(outcome, IF outcome = "ok" THEN EncryptGiven(query) ELSE query, memory)

-----------------------------------------------------------------------------
(* The text that goes to the server, read as a query again: every join is a *)
(* JOIN, there is no DISTINCT, a subselect, the table of an UPDATE and the  *)
(* columns of an INSERT ... SELECT have lost their names, and so has the    *)
(* operator "^".                                                            *)
OperatorText(op) == IF op = "caret" THEN "" ELSE op

RECURSIVE DumpedExpression(_)
DumpedExpression(expr) ==
  IF IsOperator(expr)
    THEN [expr EXCEPT !.op = OperatorText(@),
                      !.args = [i \in DOMAIN @ |-> DumpedExpression(@[i])]]
    ELSE expr

DumpedAll(exprs) == [i \in DOMAIN exprs |-> DumpedExpression(exprs[i])]

RECURSIVE DumpedTable(_), DumpedSelect(_)
DumpedTable(ref) ==
  CASE ref.is = "join" -> [ref EXCEPT !.kind = "inner", !.left = DumpedTable(@),
                                      !.right = DumpedTable(@), !.on = DumpedAll(@)]
    [] ref.is = "cross" -> [ref EXCEPT !.list = [i \in DOMAIN @ |-> DumpedTable(@[i])]]
    [] ref.is = "sub" -> [ref EXCEPT !.alias = "", !.select = DumpedSelect(@)]
    [] OTHER -> ref

DumpedSelect(select) ==
  [select EXCEPT !.from = DumpedTable(@), !.body = DumpedAll(@), !.where = DumpedAll(@),
                 !.group = DumpedAll(@), !.having = DumpedAll(@), !.order = DumpedAll(@),
                 !.distinct = FALSE]

Dump(query) ==
  CASE query.op = "select" -> DumpedSelect(query)
    [] query.op = "insert" -> [query EXCEPT !.values = DumpedAll(@)]
    [] query.op = "update" ->
         [query EXCEPT !.alias = "", !.where = DumpedAll(@),
                       !.updates = [i \in DOMAIN @ |->
                          [@[i] EXCEPT !.value = DumpedExpression(@)]]]
    [] query.op = "copy" -> [query EXCEPT !.columns = NoColumns, !.select = DumpedSelect(@)]
    [] OTHER -> query

(* A rewriting: the query for the server and what the mutators keep in mind *)
(* for its result.                                                          *)
Rewriting(outcome, query, names, joinNames, comparisons) ==
  [outcome |-> outcome, query |-> query, names |-> names, joinNames |-> joinNames,
   comparisons |-> comparisons]
Stopped(outcome) == Rewriting(outcome, [op |-> "none"], <<>>, <<>>, <<>>)

Rewrite(query) ==
  LET indexed == BlindIndex(query)
      joined == ProbabilisticJoin(indexed.query)
      encrypted == Encryption(joined.query)
  IN CASE indexed.outcome # "ok" -> Stopped(indexed.outcome)
       [] indexed.outcome = "ok" /\ joined.outcome # "ok" -> Stopped(joined.outcome)
       [] indexed.outcome = "ok" /\ joined.outcome = "ok" /\ encrypted.outcome # "ok" ->
            Stopped(encrypted.outcome)
       [] OTHER -> Rewriting("ok", Dump(encrypted.query), encrypted.memory.names,
                             joined.memory.names, JoinComparisons(indexed.query))
================================================================================
