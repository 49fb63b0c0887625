-------------------------------- MODULE Values --------------------------------
(***************************************************************************)
(* What becomes of a value: the configuration of its column, what the      *)
(* mutators write of it into a statement, the row of a table it makes,     *)
(* what a comparison with it becomes, and the way back of a row.           *)
(*                                                                         *)
(* The tables are those of config/dummy_config.h with fewer of the columns *)
(* that are only encrypted; "notes" is a table without TDE.  The rows and  *)
(* their comparison are PostgreSQL's, which is external: a row gives every *)
(* column a cell, which is a sequence of bytes or NullCell.                *)
(***************************************************************************)
EXTENDS Statements, Cryptography, SequencesExt

CONSTANTS
  Rounded      \* what std::to_string makes of the text of a float literal

(* ASSERT(join_key_size <= hash.size()): a join key is not empty, and no    *)
(* more than the digest, which has two parts here.                          *)
ASSUME JoinKeyAssumption == JoinKeySize \in 1 .. 2

-----------------------------------------------------------------------------
(* The configuration.                                                       *)
TDETables == {"cities", "city2region"}
IsEncrypted == {<<"cities", "id">>, <<"cities", "name">>, <<"cities", "timezone">>,
                <<"city2region", "id">>, <<"city2region", "region">>}
HasBlindIndex == {<<"cities", "id">>, <<"cities", "name">>}
HasJoin == {<<"cities", "id">>, <<"city2region", "id">>}

(* Mutant of BIColumn: the entry of one column is a copy of another's.      *)
BIColumnCopied == [id |-> "id_bi", name |-> "id_bi"]

BIColumn == [id |-> "id_bi", name |-> "name_bi"]
JoinKeyColumn == [id |-> "id_joinkey"]

Columns == [cities |-> {"id", "name", "timezone", "id_bi", "name_bi", "id_joinkey"},
            city2region |-> {"id", "region", "id_joinkey"},
            notes |-> {"note"}]
Tables == DOMAIN Columns

(* The columns in clear have the names of the encrypted ones.               *)
Visible(table) ==
  IF table \in TDETables THEN {ref[2] : ref \in {r \in IsEncrypted : r[1] = table}}
                         ELSE Columns[table]

(* Every column has keys of its own.                                        *)
Key(column) == column

-----------------------------------------------------------------------------
(* What the mutators make of a literal.                                     *)

(* A number is encrypted as the text that std::to_string gives it, which    *)
(* for a float is another one than it was given with, unless that had six   *)
(* digits behind its point.                                                 *)
EncryptedLiteral(lit, column) ==
  IF IsNull(lit) THEN NullLit
  ELSE Lit("string", CryptoString(Key(column), IF lit.type = "float" THEN Rounded[lit.text]
                                                                     ELSE lit.text))

(* Mutant of HashLiteral: the type of the literal is written in front.      *)
HashLiteralTyped(lit, column) ==
  IF IsNull(lit) THEN NullLit
  ELSE Lit("string", <<<<"b", lit.type>>>> \o HMACString(Key(column), lit.type, lit.text))

HashLiteral(lit, column) ==
  IF IsNull(lit) THEN NullLit
  ELSE Lit("string", HMACString(Key(column), lit.type, lit.text))

JoinKeyLiteral(lit, column) ==
  IF IsNull(lit) THEN NullLit ELSE Lit("string", JoinKeyString(lit.type, lit.text))

-----------------------------------------------------------------------------
(* Values given to the columns of a table: the companions of the configured *)
(* columns come behind all the others, then what is encrypted takes the     *)
(* place of its value.                                                      *)
Configured(table, has, pair) == <<table, pair.column>> \in has

IndexOf(table, pair) ==
  IF Configured(table, HasBlindIndex, pair)
    THEN <<[column |-> BIColumn[pair.column],
            value |-> HashLiteral(pair.value, <<table, pair.column>>)]>>
    ELSE <<>>

JoinKeyOf(table, pair) ==
  IF Configured(table, HasJoin, pair)
    THEN <<[column |-> JoinKeyColumn[pair.column],
            value |-> JoinKeyLiteral(pair.value, <<table, pair.column>>)]>>
    ELSE <<>>

Indexed(table, given) ==
  given \o FlattenSeq([i \in DOMAIN given |-> IndexOf(table, given[i])])

Keyed(table, given) ==
  given \o FlattenSeq([i \in DOMAIN given |-> JoinKeyOf(table, given[i])])

EncryptedPair(table, pair) ==
  IF Configured(table, IsEncrypted, pair)
    THEN [pair EXCEPT !.value = EncryptedLiteral(@, <<table, pair.column>>)]
    ELSE pair

Encrypted(table, given) == [i \in DOMAIN given |-> EncryptedPair(table, given[i])]

-----------------------------------------------------------------------------
(* Rows.                                                                    *)
NullCell == <<<<"null">>>>

Cell(lit) ==
  CASE lit.type = "null" -> NullCell
    [] OTHER -> lit.text

Changed(row, given) ==
  [name \in DOMAIN row |->
     IF \E i \in DOMAIN given : given[i].column = name
       THEN Cell(given[CHOOSE i \in DOMAIN given : given[i].column = name].value)
       ELSE row[name]]

NullRow(table) == [name \in Columns[table] |-> NullCell]
RowOf(table, given) == Changed(NullRow(table), given)

(* The rows of FROM go by table name or alias, and by column.               *)
Ranged(range, row) == [column \in {range} \X DOMAIN row |-> row[column[2]]]
Both(one, other) ==
  [column \in DOMAIN one \union DOMAIN other |->
     IF column \in DOMAIN one THEN one[column] ELSE other[column]]

-----------------------------------------------------------------------------
(* Comparisons: true (T), false (F) or unknown (U).                         *)

(* No text is ever encrypted to the same bytes twice.                       *)
SameCell(one, other) == one = other /\ ~IsCiphertext(one)

Value(row, expr) ==
  IF IsColumn(expr) THEN row[<<expr.table, expr.name>>] ELSE Cell(expr)

Compared(equal, one, other) ==
  IF NullCell \in {one, other} THEN "U"
  ELSE IF SameCell(one, other) = equal THEN "T" ELSE "F"

AnyOf(truths) == IF "T" \in truths THEN "T" ELSE IF "U" \in truths THEN "U" ELSE "F"

(* LIKE without a wildcard is equality.                                     *)
ComparisonTruth(row, expr) ==
  LET Of(i) == Value(row, expr.args[i])
  IN CASE expr.op \in {"eq", "like"} -> Compared(TRUE, Of(1), Of(2))
       [] expr.op = "ne" -> Compared(FALSE, Of(1), Of(2))
       [] expr.op = "in" -> AnyOf({Compared(TRUE, Of(1), Of(i)) : i \in 2 .. Len(expr.args)})
       [] expr.op = "isnull" -> IF Of(1) = NullCell THEN "T" ELSE "F"

(* Mutant of IndexComparison: every comparison becomes an equality.         *)
IndexComparisonEqual(aliases, expr) ==
  LET ref == RefOf(aliases, expr.args[1])
  IN IF ref \in HasBlindIndex
       THEN [expr EXCEPT !.op = "eq", !.args[1].name = BIColumn[ref[2]],
                         !.args[2] = HashLiteral(@, ref)]
       ELSE expr

IndexComparison(aliases, expr) ==
  LET ref == RefOf(aliases, expr.args[1])
  IN IF ref \in HasBlindIndex
       THEN [expr EXCEPT !.args[1].name = BIColumn[ref[2]],
                         !.args[2] = HashLiteral(@, ref)]
       ELSE expr

IsEncryptedJoin(aliases, expr) ==
  \A i \in 1 .. 2 : RefOf(aliases, expr.args[i]) \in HasJoin

JoinComparison(aliases, expr) ==
  IF IsEncryptedJoin(aliases, expr)
    THEN [expr EXCEPT !.args[1].name = JoinKeyColumn[@], !.args[2].name = JoinKeyColumn[@]]
    ELSE expr

-----------------------------------------------------------------------------
(* The way back of a row.                                                   *)

(* NULL and what has no configuration stay as they are.                     *)
DecryptedCell(config, cell) ==
  IF config = {} \/ cell = NullCell THEN [isOk |-> TRUE, out |-> cell]
  ELSE FromCryptoString(Key(CHOOSE column \in config : TRUE), cell)
================================================================================
