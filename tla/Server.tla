-------------------------------- MODULE Server --------------------------------
(***************************************************************************)
(* PostgreSQL, which is external, as far as the proxy depends on it: what  *)
(* statements answer and what they do to a database, with conditions on    *)
(* NULL, joins, DISTINCT, GROUP BY and LIMIT as far as the queries use     *)
(* them, and which of the rewritten statements it does not accept.         *)
(*                                                                         *)
(* A database gives every table a sequence of rows; a row gives every      *)
(* column a cell, which is a sequence of bytes or NullCell.                *)
(***************************************************************************)
EXTENDS Mutators

-----------------------------------------------------------------------------
(* Conditions: true (T), false (F) or unknown (U).                          *)
AllOf(truths) == IF "F" \in truths THEN "F" ELSE IF "U" \in truths THEN "U" ELSE "T"
Negated(truth) == CASE truth = "T" -> "F" [] truth = "F" -> "T" [] OTHER -> "U"

RECURSIVE Truth(_, _)
Truth(row, expr) ==
  LET truths == {Truth(row, expr.args[i]) : i \in DOMAIN expr.args}
  IN CASE expr.op = "and" -> AllOf(truths)
       [] expr.op = "or" -> AnyOf(truths)
       [] expr.op = "not" -> Negated(Truth(row, expr.args[1]))
       [] OTHER -> ComparisonTruth(row, expr)

(* A condition is a sequence of at most one expression.                     *)
Holds(row, condition) == \A i \in DOMAIN condition : Truth(row, condition[i]) = "T"

-----------------------------------------------------------------------------
(* FROM.                                                                    *)
RangeOf(ref) == IF ref.alias = "" THEN ref.name ELSE ref.alias

RECURSIVE Ranges(_)
Ranges(ref) ==
  CASE ref.is = "table" -> {<<RangeOf(ref), ref.name>>}
    [] ref.is = "join" -> Ranges(ref.left) \union Ranges(ref.right)
    [] ref.is = "cross" -> UNION {Ranges(ref.list[i]) : i \in DOMAIN ref.list}
    [] OTHER -> {}

NoRow(ref) ==
  [column \in UNION {{range[1]} \X Columns[range[2]] : range \in Ranges(ref)} |-> NullCell]

Pairs(lefts, rights) ==
  FlattenSeq([i \in DOMAIN lefts |->
    [j \in DOMAIN rights |-> Both(lefts[i], rights[j])]])

RECURSIVE From(_, _)
From(db, ref) ==
  CASE ref.is = "table" -> [i \in DOMAIN db[ref.name] |-> Ranged(RangeOf(ref), db[ref.name][i])]
    [] ref.is = "cross" -> FoldLeft(LAMBDA rows, next : Pairs(rows, From(db, next)),
                                    From(db, ref.list[1]), Tail(ref.list))
    [] ref.is = "join" ->
         LET Matches(row) == SelectSeq(Pairs(<<row>>, From(db, ref.right)),
                                       LAMBDA both : Holds(both, ref.on))
             lefts == From(db, ref.left)
         IN FlattenSeq([i \in DOMAIN lefts |->
              IF ref.kind = "left" /\ Matches(lefts[i]) = <<>>
                THEN <<Both(lefts[i], NoRow(ref.right))>>
                ELSE Matches(lefts[i])])

-----------------------------------------------------------------------------
(* SELECT.                                                                  *)
TruthCell(truth) == <<<<"truth", truth>>>>
Shown(row, expr) == IF IsOperator(expr) THEN TruthCell(Truth(row, expr)) ELSE Value(row, expr)

SameRow(one, other) == \A i \in DOMAIN one : SameCell(one[i], other[i])

WithoutRepeats(rows) ==
  FoldLeft(LAMBDA done, row : IF \E i \in DOMAIN done : SameRow(done[i], row)
                                THEN done ELSE Append(done, row),
           <<>>, rows)

Unaliased(column) == [column EXCEPT !.alias = ""]
Plainly(exprs) == {Unaliased(column) : column \in AllColumnsOf(exprs)}

(* Rows are grouped by equal columns; nothing else may be shown of a group. *)
Grouped(select, found) ==
  IF select.group = <<>> THEN found
  ELSE LET GroupKey(row) == [i \in DOMAIN select.group |-> Value(row, select.group[i])]
       IN FoldLeft(LAMBDA done, row :
                     IF \E i \in DOMAIN done : SameRow(GroupKey(done[i]), GroupKey(row))
                       THEN done ELSE Append(done, row),
                   <<>>, found)

Answer(db, select) ==
  LET found == SelectSeq(From(db, select.from), LAMBDA row : Holds(row, select.where))
      groups == SelectSeq(Grouped(select, found), LAMBDA row : Holds(row, select.having))
      shown == [i \in DOMAIN groups |->
                  [j \in DOMAIN select.body |-> Shown(groups[i], select.body[j])]]
      rows == IF select.distinct THEN WithoutRepeats(shown) ELSE shown
  IN IF select.limit > 0 /\ Len(rows) > select.limit THEN SubSeq(rows, 1, select.limit)
                                                     ELSE rows

(* What the server does not accept: a subselect without an alias, a table   *)
(* that is not in FROM, two operands without an operator, a column that is  *)
(* not grouped by.                                                          *)
RECURSIVE HasSubselect(_)
HasSubselect(ref) ==
  CASE ref.is = "sub" -> ref.alias = ""
    [] ref.is = "join" -> HasSubselect(ref.left) \/ HasSubselect(ref.right)
    [] ref.is = "cross" -> \E i \in DOMAIN ref.list : HasSubselect(ref.list[i])
    [] OTHER -> FALSE

RECURSIVE JoinedOn(_)
JoinedOn(ref) ==
  IF ref.is = "join" THEN ref.on \o JoinedOn(ref.left) \o JoinedOn(ref.right) ELSE <<>>

ClausesOf(select) == JoinedOn(select.from) \o select.body \o select.where
                       \o select.group \o select.having \o select.order

NoOperator(expr) == IsOperator(expr) /\ expr.op = ""

SelectFails(select) ==
  \/ HasSubselect(select.from)
  \/ \E i \in DOMAIN ClausesOf(select) :
       \E expr \in ExpressionsOf(ClausesOf(select)[i]) : NoOperator(expr)
  \/ \E column \in AllColumnsOf(ClausesOf(select)) :
       column.table \notin {range[1] : range \in Ranges(select.from)}
  \/ /\ select.group # <<>>
     /\ ~(Plainly(select.body \o select.having) \subseteq Plainly(select.group))

Fails(query) ==
  CASE query.op = "select" -> SelectFails(query)
    [] query.op = "copy" -> SelectFails(query.select)
    [] query.op = "update" ->
         \E column \in AllColumnsOf(query.where) :
           column.table # (IF query.alias = "" THEN query.table ELSE query.alias)
    [] OTHER -> FALSE

-----------------------------------------------------------------------------
(* Statements that change a table.                                          *)
Inserted(db, query) ==
  [db EXCEPT ![query.table] = Append(@, RowOf(query.table, Given(query)))]

Copied(db, query) ==
  LET rows == Answer(db, query.select)
      names == IF query.columns = NoColumns THEN <<"note">> ELSE query.columns
      Copy(row) == [name \in Columns[query.table] |->
                      row[CHOOSE j \in DOMAIN names : names[j] = name]]
  IN [db EXCEPT ![query.table] = @ \o [i \in DOMAIN rows |-> Copy(rows[i])]]

Updated(db, query) ==
  LET range == IF query.alias = "" THEN query.table ELSE query.alias
  IN [db EXCEPT ![query.table] =
        [i \in DOMAIN @ |-> IF Holds(Ranged(range, @[i]), query.where)
                              THEN Changed(@[i], Given(query)) ELSE @[i]]]
================================================================================
