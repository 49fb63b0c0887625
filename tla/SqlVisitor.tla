------------------------------ MODULE SqlVisitor ------------------------------
(***************************************************************************)
(* The walk of the visitors over queries (sqlutils/ast/visitor.cc).        *)
(*                                                                         *)
(* A visitor does not descend into a candidate of its own, see Candidate.  *)
(***************************************************************************)
EXTENDS Statements, FiniteSets
LOCAL INSTANCE SequencesExt

Mutators == {"blind_index", "join", "encryption"}

(* The operators of visitOperatorExpression that queries use here.          *)
Operators == {"eq", "ne", "like", "and", "or", "not", "isnull", "in", "exists", "caret"}

(* BlindIndex keeps a column compared with a literal, ProbabilisticJoin a   *)
(* column equal to a column.                                                *)
Candidate(mutator, expr) ==
  /\ IsOperator(expr)
  /\ \/ /\ mutator = "blind_index" /\ expr.op \in {"eq", "ne"}
        /\ IsColumn(expr.args[1]) /\ IsLiteral(expr.args[2])
     \/ /\ mutator = "join" /\ expr.op = "eq"
        /\ IsColumn(expr.args[1]) /\ IsColumn(expr.args[2])

-----------------------------------------------------------------------------
(* What a visitor meets, in its order: candidates, columns and where they   *)
(* are, aliases of tables, and what ends the walk.                          *)
Visit(kind, place, of) == <<[kind |-> kind, place |-> place, of |-> of]>>
Refusal == Visit("refused", "-", <<>>)
Panic == Visit("crashed", "-", <<>>)

Flatten(visits) == FlattenSeq(visits)

RECURSIVE Visited(_, _, _)
Visited(mutator, place, expr) ==
  CASE Candidate(mutator, expr) -> Visit("candidate", place, expr)
    [] IsColumn(expr) -> Visit("column", place, expr)
    [] IsLiteral(expr) -> <<>>
    [] expr.is \in {"star", "array"} -> Refusal
    [] IsOperator(expr) /\ ~Candidate(mutator, expr) /\ expr.op \in Operators ->
         Flatten([i \in DOMAIN expr.args |-> Visited(mutator, place, expr.args[i])])
    [] OTHER -> Panic

VisitedAll(mutator, place, exprs) ==
  Flatten([i \in DOMAIN exprs |-> Visited(mutator, place, exprs[i])])

TableAlias(table, alias) ==
  IF alias = "" THEN <<>> ELSE Visit("alias", "from", [alias |-> alias, table |-> table])

RECURSIVE VisitedTable(_, _), VisitedSelect(_, _)
VisitedTable(mutator, ref) ==
  CASE ref.is = "table" -> TableAlias(ref.name, ref.alias)
    [] ref.is = "sub" -> VisitedSelect(mutator, ref.select)
    [] ref.is = "join" ->
         VisitedTable(mutator, ref.left) \o VisitedTable(mutator, ref.right)
           \o (IF ref.on = <<>> THEN Panic ELSE VisitedAll(mutator, "on", ref.on))
    [] ref.is = "cross" ->
         Flatten([i \in DOMAIN ref.list |-> VisitedTable(mutator, ref.list[i])])
    [] OTHER -> Panic

VisitedSelect(mutator, select) ==
  VisitedTable(mutator, select.from)
    \o VisitedAll(mutator, "body", select.body)
    \o VisitedAll(mutator, "where", select.where)
    \o VisitedAll(mutator, "group", select.group \o select.having)
    \o VisitedAll(mutator, "order", select.order)

(* Mutant of VisitedStatement: nobody looks at the columns of an INSERT.    *)
VisitedStatementUnlisted(mutator, query, tde) ==
  CASE query.op = "select" -> VisitedSelect(mutator, query)
    [] query.op = "insert" -> VisitedAll(mutator, "value", query.values)
    [] query.op = "copy" -> IF query.table \in tde THEN Refusal
                            ELSE VisitedSelect(mutator, query.select)
    [] query.op = "update" ->
         TableAlias(query.table, query.alias)
           \o VisitedAll(mutator, "value",
                         [i \in DOMAIN query.updates |-> query.updates[i].value])
           \o VisitedAll(mutator, "where", query.where)
    [] query.op = "delete" -> Refusal
    [] OTHER -> Panic

(* With what BaseMutator adds for the tables that have TDE enabled.         *)
VisitedStatement(mutator, query, tde) ==
  CASE query.op = "select" -> VisitedSelect(mutator, query)
    [] query.op = "insert" -> IF query.table \in tde /\ query.columns = NoColumns
                                THEN Refusal
                                ELSE VisitedAll(mutator, "value", query.values)
    [] query.op = "copy" -> IF query.table \in tde THEN Refusal
                            ELSE VisitedSelect(mutator, query.select)
    [] query.op = "update" ->
         TableAlias(query.table, query.alias)
           \o VisitedAll(mutator, "value",
                         [i \in DOMAIN query.updates |-> query.updates[i].value])
           \o VisitedAll(mutator, "where", query.where)
    [] query.op = "delete" -> Refusal
    [] OTHER -> Panic

-----------------------------------------------------------------------------
(* A statement with some of its expressions replaced.  The operators below  *)
(* go where the visitors go.                                                *)
RECURSIVE ColumnsOf(_)
ColumnsOf(expr) ==
  CASE IsColumn(expr) -> {expr}
    [] IsOperator(expr) -> UNION {ColumnsOf(expr.args[i]) : i \in DOMAIN expr.args}
    [] OTHER -> {}

AllColumnsOf(exprs) == UNION {ColumnsOf(exprs[i]) : i \in DOMAIN exprs}

RECURSIVE ExpressionsOf(_)
ExpressionsOf(expr) ==
  {expr} \union (IF IsOperator(expr)
                   THEN UNION {ExpressionsOf(expr.args[i]) : i \in DOMAIN expr.args}
                   ELSE {})
================================================================================
