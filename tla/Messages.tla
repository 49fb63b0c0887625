------------------------------- MODULE Messages -------------------------------
(***************************************************************************)
(* The messages of the backend that the mutation manager handles or emits  *)
(* (postgres_protocol.h), reduced to what the properties tell apart: the   *)
(* type byte, the query and the statement answered, the serial number of a *)
(* row, whether a row was read with the columns of its own result, and the *)
(* transaction status of a ReadyForQuery.                                  *)
(***************************************************************************)
EXTENDS Integers, Sequences

Types == {"none", "T", "D", "C", "E", "I", "Z"}
Statuses == {"-", "I", "T", "E"}

MessageType == [type : Types, q : Nat, s : Nat, n : Nat, status : Statuses,
                fit : BOOLEAN]

Message(t, q, s, n, status, fit) ==
  [type |-> t, q |-> q, s |-> s, n |-> n, status |-> status, fit |-> fit]

(* A moved-from unique_ptr.                                                 *)
Null == Message("none", 0, 0, 0, "-", TRUE)

RowDescription(q, s) == Message("T", q, s, 0, "-", TRUE)
DataRow(q, s, n, fit) == Message("D", q, s, n, "-", fit)
CommandComplete(q, s) == Message("C", q, s, 0, "-", TRUE)
ErrorResponse(q, s) == Message("E", q, s, 0, "-", TRUE)
EmptyQueryResponse(q) == Message("I", q, 0, 0, "-", TRUE)
ReadyForQuery(q, status) == Message("Z", q, 0, 0, status, TRUE)

-----------------------------------------------------------------------------
(* Sequences of messages and the serial numbers of their rows.              *)
IsRow(m) == m.type = "D"

WithoutRows(seq) == \A i \in DOMAIN seq : ~IsRow(seq[i])

Increasing(seq) ==
  \A i, j \in DOMAIN seq :
    i < j /\ IsRow(seq[i]) /\ IsRow(seq[j]) => seq[i].n < seq[j].n

Before(first, second) ==
  \A i \in DOMAIN first, j \in DOMAIN second :
    IsRow(first[i]) /\ IsRow(second[j]) => first[i].n < second[j].n

UpTo(seq, k) == \A i \in DOMAIN seq : IsRow(seq[i]) => seq[i].n <= k
=============================================================================
