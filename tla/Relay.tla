--------------------------------- MODULE Relay ---------------------------------
(***************************************************************************)
(* What a connection through the proxy promises, without buffers, chunks,  *)
(* handlers or decoder states: two streams of messages, each passed on in  *)
(* order and once, with the proxy's own answers put in between, until the  *)
(* connection is shut; then nothing passes any more.                       *)
(***************************************************************************)
EXTENDS Sequences, SequencesExt

CONSTANTS
  Requests,   \* what a client may say: records with a field "to"
  Answers,    \* what a server may tell: records with a field "from"
  Own(_)      \* the proxy's own answers to a request not meant for the server

VARIABLES
  said,   \* what the client has said
  told,   \* what the server has told
  up,     \* what the server has been passed
  down,   \* what the client has been passed
  shut    \* nothing passes any more

relayVars == <<said, told, up, down, shut>>

Init == said = <<>> /\ told = <<>> /\ up = <<>> /\ down = <<>> /\ shut = FALSE

ToServer(request) == IF request.to = "server" THEN <<request>> ELSE <<>>
MeantForServer == FlattenSeq([m \in DOMAIN said |-> ToServer(said[m])])
OwnAnswers == FlattenSeq([m \in DOMAIN said |-> Own(said[m])])

OfAuthor(answer, author) == IF answer.from = author THEN <<answer>> ELSE <<>>
From(author, messages) ==
  FlattenSeq([i \in DOMAIN messages |-> OfAuthor(messages[i], author)])

Say == /\ \E request \in Requests : said' = Append(said, request)
       /\ UNCHANGED <<told, up, down, shut>>

Tell == /\ IsPrefix(told, told')
        /\ \A i \in Len(told) + 1 .. Len(told') : told'[i] \in Answers
        /\ UNCHANGED <<said, up, down, shut>>

Pass == /\ ~shut
        /\ IsPrefix(up, up') /\ IsPrefix(up', MeantForServer)
        /\ IsPrefix(down, down')
        /\ IsPrefix(From("server", down'), told)
        /\ IsPrefix(From("proxy", down'), OwnAnswers)
        /\ shut' \in BOOLEAN
        /\ UNCHANGED <<said, told>>

Next == Say \/ Tell \/ Pass

Spec == Init /\ [][Next]_relayVars
================================================================================
