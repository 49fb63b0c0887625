--------------------------------- MODULE Store ---------------------------------
(***************************************************************************)
(* What the rewriting promises of the store, whatever the queries look     *)
(* like: a statement of the client changes the tables in clear, and the    *)
(* statement that is sent for it changes the same rows of the stored       *)
(* tables, by the values as the mutators write them.  Which rows an UPDATE *)
(* is about, and what a SELECT answers, is left open.                      *)
(***************************************************************************)
EXTENDS Values

CONSTANTS
  Queries,     \* the queries clients may send
  Characters,  \* what the texts of clients are made of
  MaxRows      \* bound: rows of a table

ASSUME RowsAssumption == MaxRows \in Nat

VARIABLES
  plain,    \* the tables as the client's statements make them
  stored,   \* the tables as the rewritten statements make them
  sent      \* the last statement the server was sent

storeVars == <<plain, stored, sent>>

-----------------------------------------------------------------------------
(* What clients give: literals, no column twice, texts to the columns that  *)
(* are indexed or joined on, and floats written with the digits that they   *)
(* are encrypted with (0.500000; what is given as 0.5 is told as 0.500000). *)
Texts == Seq({"b"} \X Characters)
Types == {"string", "int", "float", "null"}

Literals == [is : {"literal"}, type : Types, text : Texts]

AsWritten(pair) == pair.value.type = "float" => Rounded[pair.value.text] = pair.value.text

IsText(table, pair) ==
  Configured(table, HasBlindIndex \union HasJoin, pair) => pair.value.type \in {"string", "null"}

IsGiven(table, given) ==
  /\ table \in Tables
  /\ given \in Seq([column : Visible(table), value : Literals])
  /\ \A i \in DOMAIN given : AsWritten(given[i]) /\ IsText(table, given[i])
  /\ \A i, j \in DOMAIN given : given[i].column = given[j].column => i = j

(* What the server is sent of it.                                           *)
Sealed(table, given) == Encrypted(table, Keyed(table, Indexed(table, given)))

StoreInit ==
  /\ plain = [table \in Tables |-> <<>>]
  /\ stored = [table \in Tables |-> <<>>]
  /\ sent = [op |-> "none"]

(* A statement that gives values is sent, maybe for the server to reject.   *)
SendsSealed(query) ==
  /\ query.op \in {"insert", "update"} /\ ~Ragged(query)
  /\ sent'.op = query.op /\ sent'.table = query.table
  /\ IsGiven(query.table, Given(query))
  /\ Given(sent') = Sealed(query.table, Given(query))

StoreInsert(query) ==
  /\ SendsSealed(query)
  /\ Len(stored[query.table]) < MaxRows
  /\ plain' = [plain EXCEPT ![query.table] =
                 Append(@, RowOf(query.table, Given(query)))]
  /\ stored' = [stored EXCEPT ![query.table] =
                  Append(@, RowOf(query.table, Given(sent')))]

StoreUpdate(query) ==
  /\ SendsSealed(query)
  /\ \E hit \in SUBSET DOMAIN plain[query.table] :
       /\ plain' = [plain EXCEPT ![query.table] =
            [i \in DOMAIN @ |-> IF i \in hit THEN Changed(@[i], Given(query)) ELSE @[i]]]
       /\ stored' = [stored EXCEPT ![query.table] =
            [i \in DOMAIN @ |-> IF i \in hit THEN Changed(@[i], Given(sent')) ELSE @[i]]]

SendsNothingGiven ==
  /\ sent'.op \in {"none", "select", "copy"}
  /\ Given(sent') = <<>>

(* INSERT ... SELECT is for tables without TDE only.                        *)
ClearRows(table) == [Columns[table] -> Texts \union {NullCell}]

StoreCopy ==
  /\ SendsNothingGiven
  /\ \E table \in Tables \ TDETables :
       \E rows \in {SubSeq(plain'[table], Len(plain[table]) + 1, Len(plain'[table]))} :
         /\ rows \in Seq(ClearRows(table))
         /\ Len(stored[table]) + Len(rows) <= MaxRows
         /\ plain' = [plain EXCEPT ![table] = @ \o rows]
         /\ stored' = [stored EXCEPT ![table] = @ \o rows]

StoreNext ==
  \/ SendsNothingGiven /\ UNCHANGED <<plain, stored>>
  \/ StoreCopy
  \/ \E query \in Queries :
       \/ SendsSealed(query) /\ UNCHANGED <<plain, stored>>
       \/ StoreInsert(query)
       \/ StoreUpdate(query)

StoreSpec == StoreInit /\ [][StoreNext]_storeVars
-----------------------------------------------------------------------------
(* Properties.                                                              *)

(* The tables have rows with the columns of the table, no more than the     *)
(* bound and in clear of texts only, and a statement for the server gives   *)
(* no column that the table does not have and none twice.                   *)
IsTable(table, rows) ==
  /\ Len(rows) <= MaxRows
  /\ \A i \in DOMAIN rows : DOMAIN rows[i] = Columns[table]

TypeOK ==
  /\ \A table \in Tables : IsTable(table, plain[table]) /\ IsTable(table, stored[table])
  /\ \A table \in Tables : plain[table] \in Seq(ClearRows(table))
  /\ sent.op \in {"none", "insert", "update", "select", "copy"}
  /\ \A i, j \in DOMAIN Given(sent) :
       /\ Given(sent)[i].column \in Columns[sent.table]
       /\ i # j => Given(sent)[i].column # Given(sent)[j].column

(* What is stored, decrypted with the key of its column, is what the        *)
(* client's statements mean, and every blind index and join key is that of  *)
(* the value beside it: no statement changes one and not the other.         *)
Companion(value, cell, digest) ==
  IF value = NullCell THEN cell = NullCell ELSE cell = digest

StoredAs(table, row, given) ==
  /\ \A name \in Visible(table) :
       LET ref == <<table, name>>
       IN DecryptedCell({ref} \intersect IsEncrypted, row[name])
            = [isOk |-> TRUE, out |-> given[name]]
  /\ \A ref \in {r \in HasBlindIndex : r[1] = table} :
       Companion(given[ref[2]], row[BIColumn[ref[2]]],
                 HMACString(Key(ref), "string", given[ref[2]]))
  /\ \A ref \in {r \in HasJoin : r[1] = table} :
       Companion(given[ref[2]], row[JoinKeyColumn[ref[2]]],
                 JoinKeyString("string", given[ref[2]]))

StoreDecrypts ==
  \A table \in Tables :
    /\ Len(plain[table]) = Len(stored[table])
    /\ \A i \in DOMAIN plain[table] : StoredAs(table, stored[table][i], plain[table][i])

(* Every ciphertext has fitted into the buffer that AESEncrypt gives it.    *)
CiphertextsFit ==
  \A ref \in IsEncrypted : \A i \in DOMAIN stored[ref[1]] :
    LET cell == stored[ref[1]][i][ref[2]]  clear == plain[ref[1]][i][ref[2]]
    IN cell # NullCell =>
         Len(HexDropped(cell)) - IvLength <= MaxCiphertextSize(Len(clear))

(* No value is sent in clear to be stored in a column that is encrypted or  *)
(* a companion of one.                                                      *)
InClear(expr) == /\ IsLiteral(expr) /\ ~IsNull(expr)
                 /\ \A i \in DOMAIN expr.text : expr.text[i][1] = "b"

Sensitive(table, name) ==
  \/ <<table, name>> \in IsEncrypted
  \/ \E ref \in HasBlindIndex : ref[1] = table /\ BIColumn[ref[2]] = name
  \/ \E ref \in HasJoin : ref[1] = table /\ JoinKeyColumn[ref[2]] = name

GivenStayHidden ==
  \A i \in DOMAIN Given(sent) :
    Sensitive(sent.table, Given(sent)[i].column) => ~InClear(Given(sent)[i].value)
================================================================================
