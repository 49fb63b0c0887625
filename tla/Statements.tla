------------------------------ MODULE Statements ------------------------------
(***************************************************************************)
(* Queries as the parser hands them over.                                  *)
(*                                                                         *)
(*   expression  [is |-> "column", table, name, alias], "" for none;       *)
(*               [is |-> "literal", type, text]; [is |-> "star"];          *)
(*               [is |-> "array"]; [is |-> "op", op, args];                *)
(*               [is |-> "call"] for whatever the visitor has no case for  *)
(*   table ref   [is |-> "table", name, alias];                            *)
(*               [is |-> "join", kind, left, right, on];                   *)
(*               [is |-> "cross", list]; [is |-> "sub", select]            *)
(*   statement   [op |-> "select", from, body, where, group, having,       *)
(*               order, distinct, limit]; [op |-> "insert", table,         *)
(*               columns, values]; [op |-> "copy", table, columns,         *)
(*               select]; [op |-> "update", table, alias, updates, where]; *)
(*               [op |-> "delete"]; [op |-> "other"]                       *)
(*                                                                         *)
(* where, having and on are sequences of at most one expression; columns   *)
(* is NoColumns if there is no list of columns.  "in" and "exists" of a    *)
(* subselect have a "call" for the list that the parser leaves null.       *)
(***************************************************************************)
EXTENDS Integers, Sequences

NoColumns == <<"none">>

IsColumn(expr) == expr.is = "column"
IsLiteral(expr) == expr.is = "literal"
IsOperator(expr) == expr.is = "op"

-----------------------------------------------------------------------------
(* Literals.                                                                *)
Lit(type, text) == [is |-> "literal", type |-> type, text |-> text]
NullLit == Lit("null", <<>>)
IsNull(lit) == lit.type = "null"

-----------------------------------------------------------------------------
(* Columns: what stands in front of a name is a table or the alias of one.  *)
TableOf(aliases, name) == IF name \in DOMAIN aliases THEN aliases[name] ELSE name
RefOf(aliases, column) == <<TableOf(aliases, column.table), column.name>>

-----------------------------------------------------------------------------
(* Values given to columns by INSERT and UPDATE: pairs, in their order.     *)
Given(query) ==
  CASE query.op = "insert" /\ query.columns # NoColumns ->
         [i \in DOMAIN query.columns |-> [column |-> query.columns[i], value |-> query.values[i]]]
    [] query.op = "update" -> query.updates
    [] OTHER -> <<>>

Ragged(query) == query.op = "insert" /\ query.columns # NoColumns
                   /\ Len(query.columns) # Len(query.values)

WithGiven(query, given) ==
  CASE query.op = "insert" /\ query.columns # NoColumns ->
         [query EXCEPT !.columns = [i \in DOMAIN given |-> given[i].column],
                       !.values = [i \in DOMAIN given |-> given[i].value]]
    [] query.op = "update" -> [query EXCEPT !.updates = given]
    [] OTHER -> query
================================================================================
