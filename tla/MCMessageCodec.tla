--------------------------- MODULE MCMessageCodec ---------------------------
(***************************************************************************)
(* Instances of MessageCodec for TLC: the messages that may come.          *)
(***************************************************************************)
EXTENDS MessageCodec

Texts == {<<>>, <<7>>, <<7, 9>>}
Rows(values) == {[kind |-> "DataRow", columns |-> columns] :
                   columns \in UNION {[1 .. n -> values] : n \in 0 .. 2}}
ErrorFields == [code : {77}, text : Texts]

RowMessages == Rows({Null, <<7>>, <<0, 255, 0>>})
EmptyValueMessages == Rows({Null, <<>>, <<7>>})

OtherMessages ==
  {[kind |-> "Query", text |-> text] : text \in Texts}
    \union {[kind |-> "ParameterStatus", name |-> name, text |-> text] :
              name \in Texts, text \in Texts}
    \union {[kind |-> "ErrorResponse", fields |-> fields] :
              fields \in UNION {[1 .. n -> ErrorFields] : n \in 0 .. 2}}

Passwords(lengths) ==
  {[kind |-> "PasswordMessage", text |-> [i \in 1 .. n |-> 7]] : n \in lengths}

ConformingMessages == RowMessages \union OtherMessages \union Passwords({3, 5})

(* A DataRow of no column follows.                                          *)
NextMessage == <<68, 0, 0, 0, 6, 0, 0>>
=============================================================================
