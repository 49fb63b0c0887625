-------------------------- MODULE MCMutationManager --------------------------
(***************************************************************************)
(* Instances of MutationManager for TLC: the queries a run may send.       *)
(***************************************************************************)
EXTENDS MutationManager

Query(verdict, body) == [verdict |-> verdict, body |-> body, joins |-> FALSE]

Select == Query("rewritten", <<"select">>)
Command == Query("rewritten", <<"command">>)
JoinSelect == [Select EXCEPT !.joins = TRUE]
RejectedBy(mutator) == Query(mutator, <<"select">>)
Unparsed(body) == Query("unparsed", body)
Unimplemented == Query("unimplemented", <<"command">>)
Prepared == Query("prepared", <<"bind">>)
Batch(first, second) == Query("rewritten", <<first, second>>)

(* Statements the rewriter knows, one per query.                            *)
SingleQueries == {Select, JoinSelect, Command,
                  RejectedBy("blind_index"), RejectedBy("join"),
                  RejectedBy("encryption"), RejectedBy("dumper")}

(* ... a query the parser does not know, refused unless it is permissive.   *)
StrictQueries == SingleQueries \union {Unparsed(<<"select">>)}

(* Permissive parsing: what only the server understands is forwarded.  None *)
(* of it returns rows here.                                                 *)
ConformingQueries == SingleQueries \union
  {Unparsed(<<>>), Unparsed(<<"begin">>), Unparsed(<<"end">>)}

(* Several statements in a query, and a Parse that is refused while what    *)
(* follows it goes on to the server.                                        *)
BatchQueries == {Select, RejectedBy("join"), Prepared, Batch("select", "select"),
                 Batch("command", "select")}

(* Everything at once.                                                      *)
HostileQueries == {JoinSelect, Command, RejectedBy("join"), Prepared,
                   Unimplemented, Batch("select", "select"),
                   Unparsed(<<>>), Unparsed(<<"begin">>)}
=============================================================================
