--------------------------- MODULE MCQueryRewrite ---------------------------
(***************************************************************************)
(* Instances of QueryRewrite for TLC: the queries a run may send.          *)
(***************************************************************************)
EXTENDS QueryRewrite

A == <<<<"b", "a">>>>
B == <<<<"b", "b">>>>
X == <<<<"b", "x">>>>
XX == X \o X
Seven == <<<<"b", "7">>>>
Zeros(n) == [i \in 1 .. n |-> <<"b", "0">>]
Half == <<<<"b", "0">>, <<"b", ".">>, <<"b", "5">>>>
HalfToSix == Half \o Zeros(5)

Text(text) == Lit("string", text)
Col(table, name) == [is |-> "column", table |-> table, name |-> name, alias |-> ""]
As(column, alias) == [column EXCEPT !.alias = alias]
Op(op, args) == [is |-> "op", op |-> op, args |-> args]
Eq(left, right) == Op("eq", <<left, right>>)
Is(table, name, text) == Eq(Col(table, name), Text(text))
Call == [is |-> "call"]

Ref(name, alias) == [is |-> "table", name |-> name, alias |-> alias]
Cities == Ref("cities", "c")
Regions == Ref("city2region", "r")
Notes == Ref("notes", "")
JoinOn(kind, on) == [is |-> "join", kind |-> kind, left |-> Cities, right |-> Regions, on |-> on]
Cross == [is |-> "cross", list |-> <<Cities, Regions>>]

SelectFrom(from, body, where) ==
  [op |-> "select", from |-> from, body |-> body, where |-> where, group |-> <<>>,
   having |-> <<>>, order |-> <<>>, distinct |-> FALSE, limit |-> 0]
Three == <<Col("c", "id"), Col("c", "name"), Col("c", "timezone")>>
SelectCities(condition) == SelectFrom(Cities, Three, <<condition>>)
SameIds == Eq(Col("c", "id"), Col("r", "id"))
Ids2 == <<As(Col("c", "id"), "c_id"), As(Col("r", "id"), "r_id"), Col("r", "region")>>
Joined(where) == SelectFrom(JoinOn("inner", <<SameIds>>), Ids2, where)

InsertCity(id, name) ==
  [op |-> "insert", table |-> "cities", columns |-> <<"id", "name">>, values |-> <<id, name>>]
InsertRegion(id) ==
  [op |-> "insert", table |-> "city2region", columns |-> <<"id", "region">>,
   values |-> <<id, Text(<<>>)>>]
UpdateCity(column, value, where) ==
  [op |-> "update", table |-> "cities", alias |-> "",
   updates |-> <<[column |-> column, value |-> value]>>, where |-> <<where>>]
Unlisted(table) == [op |-> "insert", table |-> table, columns |-> NoColumns,
                    values |-> <<Text(X)>>]
CopyFrom(select) == [op |-> "copy", table |-> "notes", columns |-> <<"note">>,
                     select |-> select]

(* The ids "a" and "b" have the same join key.                              *)
SharedKeys == {A, B}

(* std::to_string writes a float with six digits behind its point, however  *)
(* many it was given with.                                                  *)
SixDecimals == [text \in {Half, HalfToSix} |-> HalfToSix]
Letters == {"a", "b", "x", "7", "0", ".", "5"}

Changes ==
  {InsertCity(Text(A), Text(X)), InsertCity(Text(A), NullLit),
   InsertCity(Text(B), Text(X)), InsertCity(Text(B), Text(XX))}
    \union {InsertRegion(Text(id)) : id \in {A, B}}
    \union {UpdateCity("id", Text(B), Is("cities", "id", A)),
            UpdateCity("name", Text(XX), Op("ne", <<Col("cities", "name"), Text(XX)>>)),
            UpdateCity("timezone", Lit("float", HalfToSix), Is("cities", "id", B)),
            UpdateCity("timezone", Lit("int", Seven), Is("cities", "id", B))}

(* Comparisons with texts under every connective, and joins on equal ids.   *)
Reads ==
  {SelectCities(Is("c", "name", X)),
   SelectCities(Op("not", <<Is("c", "name", X)>>)),
   SelectCities(Op("or", <<Is("c", "id", A), Op("ne", <<Col("c", "name"), Text(XX)>>)>>)),
   Joined(<<>>), Joined(<<Is("c", "id", B)>>),
   SelectFrom(Cross, Ids2, <<Op("and", <<SameIds, Is("c", "name", XX)>>)>>),
   SelectFrom(Cities, <<As(Col("c", "id"), "name"), Is("c", "name", X)>>, <<>>),
   SelectFrom(Cities, <<As(Col("c", "name"), "id"), Op("isnull", <<Col("c", "timezone")>>)>>, <<>>),
   [SelectFrom(Cities, <<Text(X)>>, <<>>)
      EXCEPT !.group = <<Col("c", "name")>>, !.having = <<Is("c", "name", X)>>]}

(* A table without TDE.                                                     *)
Aside ==
  {[op |-> "insert", table |-> "notes", columns |-> <<"note">>, values |-> <<Text(X)>>],
   SelectFrom(Notes, <<Col("notes", "note")>>, <<Op("like", <<Col("notes", "note"), Text(X)>>)>>),
   SelectFrom([is |-> "cross", list |-> <<Cities, Notes>>],
              <<Col("notes", "note"), As(Col("c", "name"), "n")>>,
              <<Op("in", <<Col("notes", "note"), Text(A), Text(X)>>)>>),
   CopyFrom(SelectFrom(Notes, <<Col("notes", "note")>>, <<>>))}

(* What one of the mutators, the server or the way back refuses.            *)
Refusals ==
  {SelectCities(Op("like", <<Col("c", "name"), Text(X)>>)),
   SelectCities(Is("c", "timezone", Seven)),
   SelectCities(Is("", "name", X)),
   SelectCities(Op("and", <<Is("c", "id", A), [is |-> "array"]>>)),
   SelectFrom(Cities, <<[is |-> "star"]>>, <<>>),
   SelectFrom(Cities, <<Col("", "id")>>, <<>>),
   SelectFrom(JoinOn("inner", <<SameIds>>), <<Col("c", "name"), Col("r", "region")>>, <<>>),
   SelectFrom(JoinOn("inner", <<SameIds>>), <<Col("c", "id"), Col("r", "id")>>, <<>>),
   SelectFrom(JoinOn("inner", <<SameIds>>),
              <<As(Col("c", "id"), "id"), As(Col("r", "id"), "id")>>, <<>>),
   SelectFrom(JoinOn("inner", <<SameIds>>),
              <<Op("isnull", <<Col("c", "id")>>), As(Col("r", "id"), "r_id")>>, <<>>),
   SelectFrom(JoinOn("inner", <<Eq(Col("c", "id"), Col("r", "region"))>>), Ids2, <<>>),
   SelectFrom(JoinOn("inner", <<Eq(Col("", "id"), Col("r", "id"))>>), Ids2, <<>>),
   SelectFrom(Notes, <<Col("notes", "note")>>,
              <<Eq(Op("caret", <<Col("notes", "note"), Text(X)>>), Text(X))>>),
   [SelectCities(Is("c", "name", X)) EXCEPT !.group = <<Col("c", "name")>>],
   [SelectCities(Is("c", "name", X)) EXCEPT !.group = <<Col("", "name")>>],
   [SelectCities(Is("c", "name", X)) EXCEPT !.order = <<Col("c", "name")>>],
   SelectFrom([is |-> "sub", alias |-> "s", select |-> SelectCities(Is("c", "id", A))],
              <<Col("s", "id")>>, <<>>),
   InsertCity(Op("eq", <<Text(A), Text(B)>>), Text(X)),
   [InsertCity(Text(A), Text(X)) EXCEPT !.values = <<Text(A)>>],
   Unlisted("cities"),
   [CopyFrom(SelectCities(Is("c", "id", A))) EXCEPT !.table = "cities"],
   UpdateCity("name", Text(XX), Op("like", <<Col("cities", "name"), Text(X)>>)),
   UpdateCity("timezone", Col("cities", "name"), Is("cities", "id", A)),
   [UpdateCity("name", Text(X), Is("c", "id", A)) EXCEPT !.alias = "c"],
   [op |-> "delete"]}

(* What ends the process.                                                   *)
Crashes ==
  {Unlisted("notes"), [op |-> "other"],
   SelectFrom(JoinOn("inner", <<>>), Ids2, <<>>),
   SelectCities(Op("exists", <<Call>>)), SelectFrom(Cities, <<Call>>, <<>>),
   UpdateCity("name", Text(X), Op("in", <<Col("cities", "id"), Call>>))}

PlainQueries == Changes \union Reads \union Aside \union Refusals \union Crashes

(* A comparison in the body of a SELECT.                                    *)
BodyQueries == {SelectFrom(Regions, <<Col("r", "id"), Is("r", "region", X)>>, <<>>)}
=============================================================================
