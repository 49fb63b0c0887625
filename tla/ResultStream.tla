----------------------------- MODULE ResultStream -----------------------------
(***************************************************************************)
(* What a client that waits for each answer is promised by the proxy: one  *)
(* answer per query, in order, closed by one ReadyForQuery, and a result   *)
(* that is its own description, exactly the rows the mutators let through, *)
(* decoded with its own columns and in the server's order, and its         *)
(* completion, all at once or not at all.                                  *)
(***************************************************************************)
EXTENDS Messages, Sequences

VARIABLES
  asked,   \* what each query asks for: "rows", "completion" or "nothing"
  kept,    \* the rows that are to be shown, in the order of the server
  heard    \* what the client has been sent

vars == <<asked, kept, heard>>

Answers == {"rows", "completion", "nothing"}
Now == Len(asked)
LastHeard == heard[Len(heard)]

Told == heard # <<>> /\ LastHeard.q = Now
Open == Now > 0 /\ ~(Told /\ LastHeard.type = "Z")

(* Behind k are the rows of the query asked last, and no others.            *)
RowsBehind(k) == \A i \in DOMAIN kept : kept[i].q = Now <=> i > k

Init == asked = <<>> /\ kept = <<>> /\ heard = <<>>

Ask == /\ ~Open
       /\ \E answer \in Answers : asked' = Append(asked, answer)
       /\ UNCHANGED <<kept, heard>>

Refuse == /\ ~Open
          /\ \E answer \in Answers : asked' = Append(asked, answer)
          /\ heard' = heard \o <<ErrorResponse(Now + 1, 0), ReadyForQuery(Now + 1, "I")>>
          /\ UNCHANGED kept

Keep == /\ Open /\ ~Told
        /\ asked[Now] = "rows"
        /\ Len(kept') = Len(kept) + 1
        /\ LET row == kept'[Len(kept')]
           IN /\ kept' = Append(kept, row)
              /\ row = DataRow(Now, 1, row.n, TRUE)
              /\ \A i \in DOMAIN kept : kept[i].n < row.n
        /\ UNCHANGED <<asked, heard>>

TellRows == /\ Open /\ ~Told
            /\ asked[Now] = "rows"
            /\ \E k \in 0 .. Len(kept) :
                 /\ RowsBehind(k)
                 /\ heard' = heard \o <<RowDescription(Now, 1)>>
                                   \o SubSeq(kept, k + 1, Len(kept))
                                   \o <<CommandComplete(Now, 1)>>
            /\ UNCHANGED <<asked, kept>>

TellCompletion == /\ Open /\ ~Told
                  /\ asked[Now] = "completion"
                  /\ heard' = Append(heard, CommandComplete(Now, 1))
                  /\ UNCHANGED <<asked, kept>>

TellNothing == /\ Open /\ ~Told
               /\ asked[Now] = "nothing"
               /\ heard' = Append(heard, EmptyQueryResponse(Now))
               /\ UNCHANGED <<asked, kept>>

TellError == /\ Open /\ ~Told
             /\ heard' = Append(heard, ErrorResponse(Now, 1))
             /\ UNCHANGED <<asked, kept>>

TellReady == /\ Open /\ Told
             /\ \E status \in Statuses : heard' = Append(heard, ReadyForQuery(Now, status))
             /\ UNCHANGED <<asked, kept>>

Next == \/ Ask \/ Refuse \/ Keep
        \/ TellRows \/ TellCompletion \/ TellNothing \/ TellError \/ TellReady

Spec == Init /\ [][Next]_vars
=============================================================================
