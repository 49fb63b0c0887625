---------------------------- MODULE ResultColumns ----------------------------
(***************************************************************************)
(* How the columns of a result are told apart: what a visitor remembers of *)
(* a query, and the way back of its result, which goes by the names of the *)
(* columns.  PostgreSQL gives them those names, which is external.         *)
(***************************************************************************)
EXTENDS Values

-----------------------------------------------------------------------------
(* What a visitor remembers: table_aliases_, select_columns_ and            *)
(* select_column_aliases_, for the whole query and not for each SELECT.     *)
Put(map, key, value) ==
  [k \in DOMAIN map \union {key} |-> IF k = key THEN value ELSE map[k]]

Unseen == [outcome |-> "ok", aliases |-> <<>>, selected |-> {}, names |-> <<>>]

(* A column in the body of a SELECT needs its table, and without an alias   *)
(* a name that no other column has.                                         *)
ColumnSelected(memory, column) ==
  LET ref == RefOf(memory.aliases, column)
      name == IF column.alias = "" THEN column.name ELSE column.alias
  IN IF \/ column.table = ""
        \/ /\ column.alias = "" /\ name \in DOMAIN memory.names
           /\ memory.names[name] # ref
       THEN [memory EXCEPT !.outcome = "refused"]
       ELSE [memory EXCEPT !.selected = @ \union {ref}, !.names = Put(@, name, ref)]

(* EncryptionMutator refuses other uses of a column without a table or one  *)
(* that is encrypted.                                                       *)
Prohibited(mutator, memory, column, encrypted) ==
  /\ mutator = "encryption"
  /\ column.table = "" \/ RefOf(memory.aliases, column) \in encrypted

Remembered(mutator, memory, visit, encrypted) ==
  CASE memory.outcome # "ok" -> memory
    [] memory.outcome = "ok" /\ visit.kind \in {"refused", "crashed"} ->
         [memory EXCEPT !.outcome = visit.kind]
    [] memory.outcome = "ok" /\ visit.kind = "alias" ->
         [memory EXCEPT !.aliases = Put(@, visit.of.alias, visit.of.table)]
    [] memory.outcome = "ok" /\ visit.kind = "column" /\ visit.place = "body" ->
         ColumnSelected(memory, visit.of)
    [] memory.outcome = "ok" /\ visit.kind = "column" /\ visit.place # "body"
         /\ Prohibited(mutator, memory, visit.of, encrypted) ->
         [memory EXCEPT !.outcome = "refused"]
    [] OTHER -> memory

Memory(mutator, visits, encrypted) ==
  LET upTo[i \in 0 .. Len(visits)] ==
        IF i = 0 THEN Unseen
        ELSE Remembered(mutator, upTo[i - 1], visits[i], encrypted)
  IN upTo[Len(visits)]

-----------------------------------------------------------------------------
(* The way back, Encryption first.                                          *)
ErrorResult == [isOk |-> FALSE, rows |-> <<>>]
Result(rows) == [isOk |-> TRUE, rows |-> rows]

(* The names that PostgreSQL gives to the columns of a result.              *)
ShownName(expr) ==
  CASE ~IsColumn(expr) -> "?column?"
    [] IsColumn(expr) /\ expr.alias = "" -> expr.name
    [] OTHER -> expr.alias

(* Two columns of one name are refused, whatever they are.                  *)
Ambiguous(columnNames) ==
  \E i, j \in DOMAIN columnNames : i # j /\ columnNames[i] = columnNames[j]

(* data_row_config_: the encrypted column that is shown, or none.           *)
RowConfig(names, columnName) ==
  IF columnName \in DOMAIN names /\ names[columnName] \in IsEncrypted
    THEN {names[columnName]} ELSE {}

(* columns2idx, in which the last column of a name stays.                   *)
Indices(joinNames, columnNames, ref) ==
  {i \in DOMAIN columnNames : /\ columnNames[i] \in DOMAIN joinNames
                              /\ joinNames[columnNames[i]] = ref}

JoinColumnMissing(rewriting, columnNames) ==
  \E i \in DOMAIN rewriting.comparisons, side \in 1 .. 2 :
    Indices(rewriting.joinNames, columnNames, rewriting.comparisons[i][side]) = {}

LastOf(indices) == CHOOSE i \in indices : \A j \in indices : j <= i

DecryptedRow(rewriting, columnNames, row) ==
  [j \in DOMAIN row |-> DecryptedCell(RowConfig(rewriting.names, columnNames[j]), row[j])]

(* Mutant of JoinIsMet: the rows of the server are taken as they come.      *)
JoinIsTaken(rewriting, columnNames, row) == TRUE

JoinIsMet(rewriting, columnNames, row) ==
  \A i \in DOMAIN rewriting.comparisons :
    LET Index(side) == LastOf(Indices(rewriting.joinNames, columnNames,
                                    rewriting.comparisons[i][side]))
    IN row[Index(1)] = row[Index(2)]

Received(rewriting, columnNames, rows) ==
  LET decrypted == [i \in DOMAIN rows |-> DecryptedRow(rewriting, columnNames, rows[i])]
      shown == [i \in DOMAIN rows |-> [j \in DOMAIN rows[i] |-> decrypted[i][j].out]]
  IN IF \/ Ambiguous(columnNames)
        \/ JoinColumnMissing(rewriting, columnNames)
        \/ \E i \in DOMAIN rows : \E j \in DOMAIN rows[i] : ~decrypted[i][j].isOk
       THEN ErrorResult
       ELSE Result(SelectSeq(shown, LAMBDA row : JoinIsMet(rewriting, columnNames, row)))
================================================================================
