------------------------------ MODULE Connection ------------------------------
(***************************************************************************)
(* A connection through the proxy from its first byte: the filter          *)
(* (postgres_filter.cc) collects what arrives in a validation buffer and   *)
(* lets the decoder (postgres_decoder.cc) take whole messages off it; what *)
(* is to be sent on gathers in the replacement data of the other side.     *)
(*                                                                         *)
(* The network delivers a stream in chunks of any size.  A message is cut  *)
(* where the decoder looks: part 1 is less than the header, part 2         *)
(* completes the header, part 3 the body; an answer to SSLRequest is one   *)
(* byte.  A handler of the filter is a loop over the decoder: Receive      *)
(* enters it, each turn of doDecode is an action, Finish and the Stopped   *)
(* results leave it, and nothing else happens in between, as one worker    *)
(* thread serves the connection.                                           *)
(*                                                                         *)
(* The mutation manager is reduced to what it does with bytes: it relays,  *)
(* refuses, retains and emits (MutationManager has the rest of it).        *)
(***************************************************************************)
EXTENDS Integers, Sequences, SequencesExt

CONSTANTS
  Kinds,          \* the messages the client may send
  MaxMessages,    \* bound: messages the client sends
  Patient,        \* the client waits for the answer before it sends on
  Configs,        \* the configurations of the filter
  SslReplies,     \* the server's answers to a request to encrypt
  Switches        \* outcomes of starting a secure transport

ClientKinds == {"ssl", "gss", "cancel", "startup", "oversized", "password",
                "short_password", "query", "refused", "terminate"}
ServerKinds == {"S", "N", "E", "authreq", "row", "complete", "failed", "ready"}

ASSUME KindsAssumption == Kinds \subseteq ClientKinds /\ MaxMessages \in Nat
(* terminate_ssl_ and upstream_ssl_ of PostgresFilterConfig.                *)
ConfigType == [terminateSsl : BOOLEAN, upstreamSsl : {"DISABLE", "REQUIRE"}]

ASSUME ConfigAssumption == Configs \subseteq ConfigType
ASSUME PeersAssumption == /\ Patient \in BOOLEAN
                          /\ SslReplies \subseteq {"S", "N", "E"}
                          /\ Switches \subseteq BOOLEAN

Sides == {"frontend", "backend"}

VARIABLES
  config,         \* config_, of all connections of a listener
  sent,           \* the messages the client has sent
  stage,          \* how far the client has got
  awaiting,       \* the client waits for an answer
  wire,           \* bytes under way to the proxy, from either side
  validation,     \* frontend_validation_buffer_, backend_validation_buffer_
  replacement,    \* frontend_replacement_data_, backend_replacement_data_
  state,          \* DecoderImpl::state_
  tempStorage,    \* temp_storage_
  retained,       \* the result the mutation manager holds back
  handler,        \* the handler that runs: onData, onWrite or none
  upstream,       \* what was written to the server, and whether over TLS
  served,         \* how far the server has read upstream
  answers,        \* history: what the server has sent
  downstream,     \* what was written to the client
  heard,          \* how far the client has read downstream
  upstreamTls,    \* the upstream connection uses TLS
  downstreamTls,  \* "clear", "switching" or "tls"
  closed,         \* the filter closed the connection
  failedAsserts   \* history: handlers whose ASSERT did not hold

client == <<sent, stage, awaiting, heard>>
server == <<served, answers>>
buffers == <<validation, replacement>>
outputs == <<upstream, downstream>>
transports == <<upstreamTls, downstreamTls, closed>>
vars == <<config, client, server, wire, buffers, outputs, transports, state,
          tempStorage, retained, handler, failedAsserts>>

-----------------------------------------------------------------------------
(* Bytes.                                                                   *)
Bytes(kind, m) == [p \in 1 .. 3 |-> [kind |-> kind, m |-> m, part |-> p]]
Byte(kind, m) == <<[kind |-> kind, m |-> m, part |-> 1]>>

Over(tls, bytes) ==
  [i \in DOMAIN bytes |-> [kind |-> bytes[i].kind, m |-> bytes[i].m,
                           part |-> bytes[i].part, tls |-> tls]]

Nothing == [side \in Sides |-> <<>>]

Init ==
  /\ config \in Configs
  /\ sent = <<>> /\ stage = "start" /\ awaiting = FALSE /\ heard = 0
  /\ served = 0 /\ answers = <<>>
  /\ wire = Nothing /\ validation = Nothing /\ replacement = Nothing
  /\ state = "InitState" /\ tempStorage = <<>> /\ retained = <<>>
  /\ handler = "none"
  /\ upstream = <<>> /\ downstream = <<>>
  /\ upstreamTls = FALSE /\ downstreamTls = "clear" /\ closed = FALSE
  /\ failedAsserts = {}

Asserts(name, condition) ==
  failedAsserts' = IF condition THEN failedAsserts ELSE failedAsserts \union {name}

-----------------------------------------------------------------------------
(* The client and the server, between two handlers of the proxy.            *)
Quiet == handler = "none" /\ ~closed

Sendable(kind) ==
  CASE kind \in {"ssl", "gss", "cancel"} -> stage = "start"
    [] kind \in {"startup", "oversized"} -> stage \in {"start", "negotiated"}
    [] kind \in {"password", "short_password"} -> stage = "login"
    [] OTHER -> stage = "session"

(* A client that does not wait goes straight from its startup to queries.   *)
ClientSends(kind) ==
  /\ Quiet
  /\ Len(sent) < MaxMessages
  /\ Patient => ~awaiting
  /\ Sendable(kind)
  /\ sent' = Append(sent, kind)
  /\ wire' = [wire EXCEPT !["frontend"] = @ \o Bytes(kind, Len(sent) + 1)]
  /\ awaiting' = (kind \notin {"cancel", "terminate"})
  /\ stage' = CASE kind \in {"cancel", "terminate"} -> "ended"
                [] kind = "startup" /\ ~Patient -> "session"
                [] OTHER -> stage
  /\ UNCHANGED <<config, heard, server, buffers, outputs, transports, state,
                 tempStorage, retained, handler, failedAsserts>>

StageAfter(kind) == CASE kind \in {"S", "N"} -> "negotiated"
                      [] kind = "authreq" -> "login"
                      [] kind = "ready" -> "session"
                      [] OTHER -> stage

ClientReads ==
  /\ Quiet
  /\ downstreamTls # "switching"
  /\ heard < Len(downstream)
  /\ LET byte == downstream[heard + 1]
     IN /\ heard' = heard + (IF byte.kind \in {"S", "N"} THEN 1 ELSE 3)
        /\ stage' = StageAfter(byte.kind)
        /\ awaiting' = (awaiting /\ byte.kind \notin {"S", "N", "authreq", "ready"})
  /\ UNCHANGED <<config, sent, server, wire, buffers, outputs, transports, state,
                 tempStorage, retained, handler, failedAsserts>>

Replies(kind, m) ==
  CASE kind \in {"own_ssl", "ssl", "gss"} ->
         {Byte(reply, m) : reply \in SslReplies \ {"E"}}
           \union {Bytes(reply, m) : reply \in SslReplies \cap {"E"}}
    [] kind = "startup" -> {Bytes(reply, m) : reply \in {"authreq", "ready"}}
    [] kind = "password" -> {Bytes("ready", m)}
    [] kind = "query" -> {Bytes("row", m) \o Bytes("complete", m) \o Bytes("ready", m),
                          Bytes("failed", m) \o Bytes("ready", m)}
    [] OTHER -> {<<>>}

ServerAnswers ==
  /\ Quiet
  /\ Len(upstream) >= served + 3
  /\ served' = served + 3
  /\ \E reply \in Replies(upstream[served + 1].kind, upstream[served + 1].m) :
       /\ wire' = [wire EXCEPT !["backend"] = @ \o reply]
       /\ answers' = answers \o reply
  /\ UNCHANGED <<config, client, buffers, outputs, transports, state, tempStorage,
                 retained, handler, failedAsserts>>

-----------------------------------------------------------------------------
(* The filter.                                                              *)

(* onData (frontend) and onWrite (backend) take over what has arrived.      *)
Receive(side) ==
  /\ Quiet
  /\ \E n \in 1 .. Len(wire[side]) :
       /\ validation' = [validation EXCEPT ![side] = @ \o SubSeq(wire[side], 1, n)]
       /\ wire' = [wire EXCEPT ![side] = SubSeq(@, n + 1, Len(@))]
  /\ handler' = side
  /\ UNCHANGED <<config, client, server, replacement, outputs, transports, state,
                 tempStorage, retained, failedAsserts>>

(* What doDecode looks at.                                                  *)
Running == handler # "none"
Buffer == validation[handler]
Current == Head(Buffer)

(* Mutant of Message: it is written anew without its type byte.             *)
MessageWithoutType == SubSeq(Buffer, 2, 3)

Message == SubSeq(Buffer, 1, 3)

(* Mutant of Unreadable: a header without its body fails the validation.    *)
UnreadableInPart ==
  \/ Len(Buffer) = 2
  \/ Len(Buffer) > 2 /\ Current.kind \in {"oversized", "short_password"}

(* The header is there and the message fails its validation: a startup of   *)
(* more than MAX_STARTUP_PACKET_LENGTH, a password shorter than the Int32   *)
(* that onDataInSync expects.                                               *)
Unreadable == Len(Buffer) >= 2 /\ Current.kind \in {"oversized", "short_password"}

(* Mutant of NeedMoreData: a whole message is one byte short.               *)
NeedMoreThanWhole == /\ state \in {"InitState", "InSyncState"}
                     /\ Len(Buffer) \in 1 .. 3
                     /\ ~Unreadable

NeedMoreData == /\ state \in {"InitState", "InSyncState"}
                /\ Len(Buffer) \in 1 .. 2
                /\ ~Unreadable
Readable(side) == /\ Running /\ handler = side
                  /\ Len(Buffer) >= 3
                  /\ ~Unreadable

Drop(n) == validation' = [validation EXCEPT ![handler] = SubSeq(@, n + 1, Len(@))]
DropAll == validation' = [validation EXCEPT ![handler] = <<>>]
Replace(side, bytes) == replacement' = [replacement EXCEPT ![side] = @ \o bytes]

(* Mutant of Finish: onData does not drain what it sent to the server.      *)
FinishUndrained ==
  /\ Running
  /\ Buffer = <<>> \/ NeedMoreData
  /\ downstream' = downstream \o replacement["backend"]
  /\ upstream' = IF handler = "frontend"
                    THEN upstream \o Over(upstreamTls, replacement["frontend"])
                    ELSE upstream
  /\ replacement' = [replacement EXCEPT !["backend"] = <<>>]
  /\ handler' = "none"
  /\ UNCHANGED <<config, client, server, wire, validation, transports, state,
                 tempStorage, retained, failedAsserts>>

(* ReadyForNext with an empty buffer, or NeedMoreData: what the decoder put *)
(* into the replacement data is sent.                                       *)
Finish ==
  /\ Running
  /\ Buffer = <<>> \/ NeedMoreData
  /\ downstream' = downstream \o replacement["backend"]
  /\ IF handler = "frontend"
       THEN /\ upstream' = upstream \o Over(upstreamTls, replacement["frontend"])
            /\ replacement' = Nothing
            /\ UNCHANGED failedAsserts
       ELSE /\ Asserts("onWrite", replacement["frontend"] = <<>>)
            /\ replacement' = [replacement EXCEPT !["backend"] = <<>>]
            /\ UNCHANGED upstream
  /\ handler' = "none"
  /\ UNCHANGED <<config, client, server, wire, validation, transports, state,
                 tempStorage, retained>>

(* Stopped: the handler leaves at once and drains its replacement data.     *)
Stop(rest) ==
  /\ Asserts("Stopped", rest = <<>>)
  /\ replacement' = [replacement EXCEPT ![handler] = <<>>]
  /\ handler' = "none"

(* The callback of onSSLRequest: 'S' has been transmitted.                  *)
BytesSent ==
  /\ Quiet
  /\ downstreamTls = "switching"
  /\ \E success \in Switches :
       IF success THEN downstreamTls' = "tls" /\ UNCHANGED closed
                  ELSE closed' = TRUE /\ UNCHANGED downstreamTls
  /\ UNCHANGED <<config, client, server, wire, buffers, outputs, upstreamTls, state,
                 tempStorage, retained, handler, failedAsserts>>

-----------------------------------------------------------------------------
(* The decoder before the session: onDataInit and onDataInNegotiating.      *)

(* Mutant of TerminateSslRequest: the request stays in its buffer.          *)
TerminateSslRequestUndrained ==
  /\ state = "InitState"
  /\ Readable("frontend")
  /\ Current.kind = "ssl" /\ config.terminateSsl
  /\ downstream' = downstream \o Byte("S", Current.m)
  /\ downstreamTls' = "switching"
  /\ Stop(Buffer)
  /\ UNCHANGED <<config, client, server, wire, validation, upstream, upstreamTls, closed,
                 state, tempStorage, retained>>

(* onSSLRequest answers for the server; the request goes no further.        *)
TerminateSslRequest ==
  /\ state = "InitState"
  /\ Readable("frontend")
  /\ Current.kind = "ssl" /\ config.terminateSsl
  /\ Drop(3)
  /\ downstream' = downstream \o Byte("S", Current.m)
  /\ downstreamTls' = "switching"
  /\ Stop(validation'[handler])
  /\ UNCHANGED <<config, client, server, wire, upstream, upstreamTls, closed, state,
                 tempStorage, retained>>

(* Any other code of 1234 in its high bits, or an SSLRequest that is not    *)
(* terminated.                                                              *)
PassEncrypted ==
  /\ state = "InitState"
  /\ Readable("frontend")
  /\ \/ Current.kind \in {"gss", "cancel"}
     \/ Current.kind = "ssl" /\ ~config.terminateSsl
  /\ state' = "EncryptedState"
  /\ Drop(3)
  /\ Replace("frontend", Message)
  /\ UNCHANGED <<config, client, server, wire, outputs, transports, tempStorage,
                 retained, handler, failedAsserts>>

(* Mutant of StartInClear: upstream_ssl is not looked at.                   *)
StartInClearAlways ==
  /\ state = "InitState"
  /\ Readable("frontend")
  /\ Current.kind = "startup"
  /\ state' = "InSyncState"
  /\ Drop(3)
  /\ Replace("frontend", Message)
  /\ UNCHANGED <<config, client, server, wire, outputs, transports, tempStorage,
                 retained, handler, failedAsserts>>

StartInClear ==
  /\ state = "InitState"
  /\ Readable("frontend")
  /\ Current.kind = "startup" /\ config.upstreamSsl # "REQUIRE"
  /\ state' = "InSyncState"
  /\ Drop(3)
  /\ Replace("frontend", Message)
  /\ UNCHANGED <<config, client, server, wire, outputs, transports, tempStorage,
                 retained, handler, failedAsserts>>

(* The whole buffer is put aside and an SSLRequest of the proxy's own sent. *)
StartNegotiation ==
  /\ state = "InitState"
  /\ Readable("frontend")
  /\ Current.kind = "startup" /\ config.upstreamSsl = "REQUIRE"
  /\ tempStorage' = tempStorage \o Buffer
  /\ upstream' = upstream \o Over(upstreamTls, Bytes("own_ssl", 0))
  /\ state' = "NegotiatingUpstreamSSL"
  /\ Drop(3)
  /\ Stop(validation'[handler])
  /\ UNCHANGED <<config, client, server, wire, downstream, transports, retained>>

(* No data from downstream is allowed when negotiating upstream SSL.        *)
NegotiationDisturbed ==
  /\ state = "NegotiatingUpstreamSSL"
  /\ handler = "frontend" /\ Buffer # <<>>
  /\ state' = "OutOfSyncState"
  /\ DropAll
  /\ UNCHANGED <<config, client, server, wire, replacement, outputs, transports,
                 tempStorage, retained, handler, failedAsserts>>

Agreed == Len(Buffer) = 1 /\ Current.kind = "S"

(* Mutant of EncryptUpstream: what was put aside is sent before the switch. *)
EncryptUpstreamLate ==
  /\ upstreamTls' = TRUE
  /\ upstream' = upstream \o Over(upstreamTls, tempStorage)
  /\ tempStorage' = <<>>
  /\ state' = "InSyncState"
  /\ UNCHANGED closed

(* Mutant of EncryptUpstream: what was put aside is dropped.                *)
EncryptUpstreamForgetting ==
  /\ upstreamTls' = TRUE
  /\ tempStorage' = <<>>
  /\ state' = "InSyncState"
  /\ UNCHANGED <<upstream, closed>>

(* startSecureTransport, then the startup that was put aside.              *)
EncryptUpstream ==
  /\ upstreamTls' = TRUE
  /\ upstream' = upstream \o Over(TRUE, tempStorage)
  /\ tempStorage' = <<>>
  /\ state' = "InSyncState"
  /\ UNCHANGED closed

(* One 'E', which may be the first byte of an error message, leaves the     *)
(* state at InitState, anything else at OutOfSyncState.                     *)
GiveUpUpstream ==
  /\ closed' = TRUE
  /\ state' = IF Len(Buffer) = 1 /\ Current.kind # "N"
                THEN "InitState" ELSE "OutOfSyncState"
  /\ UNCHANGED <<upstream, upstreamTls, tempStorage>>

(* Mutant of NegotiationAnswered: an answer is taken in any state.          *)
NegotiationAnsweredLate ==
  /\ handler = "backend" /\ Buffer # <<>>
  /\ \/ Agreed /\ TRUE \in Switches /\ EncryptUpstream
     \/ Agreed /\ FALSE \in Switches /\ GiveUpUpstream
     \/ ~Agreed /\ GiveUpUpstream
  /\ DropAll
  /\ Stop(<<>>)
  /\ UNCHANGED <<config, client, server, wire, downstream, downstreamTls, retained>>

NegotiationAnswered ==
  /\ state = "NegotiatingUpstreamSSL"
  /\ handler = "backend" /\ Buffer # <<>>
  /\ \/ Agreed /\ TRUE \in Switches /\ EncryptUpstream
     \/ Agreed /\ FALSE \in Switches /\ GiveUpUpstream
     \/ ~Agreed /\ GiveUpUpstream
  /\ DropAll
  /\ Stop(<<>>)
  /\ UNCHANGED <<config, client, server, wire, downstream, downstreamTls, retained>>

-----------------------------------------------------------------------------
(* The decoder in the session (onDataInSync) and after it (onDataIgnore).   *)

LoseSync ==
  /\ Running
  /\ state \in {"InitState", "InSyncState"}
  /\ Unreadable
  /\ state' = "OutOfSyncState"
  /\ DropAll
  /\ UNCHANGED <<config, client, server, wire, replacement, outputs, transports,
                 tempStorage, retained, handler, failedAsserts>>

Ignore ==
  /\ Running
  /\ state \in {"OutOfSyncState", "EncryptedState"}
  /\ Buffer # <<>>
  /\ DropAll
  /\ UNCHANGED <<config, client, server, wire, replacement, outputs, transports, state,
                 tempStorage, retained, handler, failedAsserts>>

(* Mutant of RelayOrRefuse: the answer of a refused query ends before its   *)
(* error.                                                                   *)
RefuseReadyFirst ==
  /\ state = "InSyncState"
  /\ Readable("frontend")
  /\ Drop(3)
  /\ retained' = IF Current.kind \in {"query", "refused"} THEN <<>> ELSE retained
  /\ IF Current.kind = "refused"
       THEN Replace("backend", Bytes("ready", Current.m) \o Bytes("failed", Current.m))
       ELSE Replace("frontend", Message)
  /\ UNCHANGED <<config, client, server, wire, outputs, transports, state,
                 tempStorage, handler, failedAsserts>>

(* A message of the client: processQuery forgets the rows of the result     *)
(* before; a query it refuses is answered in the server's place.            *)
RelayOrRefuse ==
  /\ state = "InSyncState"
  /\ Readable("frontend")
  /\ Drop(3)
  /\ retained' = IF Current.kind \in {"query", "refused"} THEN <<>> ELSE retained
  /\ IF Current.kind = "refused"
       THEN Replace("backend", Bytes("failed", Current.m) \o Bytes("ready", Current.m))
       ELSE Replace("frontend", Message)
  /\ UNCHANGED <<config, client, server, wire, outputs, transports, state,
                 tempStorage, handler, failedAsserts>>

(* Mutant of RetainOrEmit: the completion overtakes its rows.               *)
EmitCompletionFirst ==
  /\ state = "InSyncState"
  /\ Readable("backend")
  /\ Drop(3)
  /\ \/ /\ Current.kind = "row"
        /\ retained' = retained \o Message
        /\ UNCHANGED replacement
     \/ /\ Current.kind = "complete"
        /\ Replace("backend", Message \o retained)
        /\ retained' = <<>>
     \/ /\ Current.kind \notin {"row", "complete"}
        /\ Replace("backend", Message)
        /\ UNCHANGED retained
  /\ UNCHANGED <<config, client, server, wire, outputs, transports, state,
                 tempStorage, handler, failedAsserts>>

(* A message of the server: a result is retained up to its completion.      *)
RetainOrEmit ==
  /\ state = "InSyncState"
  /\ Readable("backend")
  /\ Drop(3)
  /\ \/ /\ Current.kind = "row"
        /\ retained' = retained \o Message
        /\ UNCHANGED replacement
     \/ /\ Current.kind = "complete"
        /\ Replace("backend", retained \o Message)
        /\ retained' = <<>>
     \/ /\ Current.kind \notin {"row", "complete"}
        /\ Replace("backend", Message)
        /\ UNCHANGED retained
  /\ UNCHANGED <<config, client, server, wire, outputs, transports, state,
                 tempStorage, handler, failedAsserts>>

-----------------------------------------------------------------------------
Decode == \/ TerminateSslRequest \/ PassEncrypted \/ StartInClear
          \/ StartNegotiation \/ NegotiationDisturbed \/ NegotiationAnswered
          \/ LoseSync \/ Ignore \/ RelayOrRefuse \/ RetainOrEmit

Next == \/ \E kind \in Kinds : ClientSends(kind)
        \/ ClientReads
        \/ ServerAnswers
        \/ \E side \in Sides : Receive(side)
        \/ Decode
        \/ Finish
        \/ BytesSent

Spec == Init /\ [][Next]_vars

(* The network delivers, a handler runs to its end, the server answers and  *)
(* the client reads; nobody has to send.                                    *)
FairSpec == /\ Spec
            /\ \A side \in Sides : WF_vars(Receive(side))
            /\ WF_vars(Decode \/ Finish)
            /\ WF_vars(BytesSent)
            /\ WF_vars(ServerAnswers)
            /\ WF_vars(ClientReads)
-----------------------------------------------------------------------------
(* Properties.                                                              *)

Part == [kind : ClientKinds \union ServerKinds \union {"own_ssl"},
         m : 0 .. MaxMessages, part : 1 .. 3]
TaggedPart == [kind : ClientKinds \union {"own_ssl"}, m : 0 .. MaxMessages,
               part : 1 .. 3, tls : BOOLEAN]

(* Every variable has its type.                                             *)
TypeOK ==
  /\ config \in Configs
  /\ sent \in Seq(Kinds) /\ Len(sent) <= MaxMessages
  /\ stage \in {"start", "negotiated", "login", "session", "ended"}
  /\ awaiting \in BOOLEAN
  /\ wire \in [Sides -> Seq(Part)]
  /\ validation \in [Sides -> Seq(Part)]
  /\ replacement \in [Sides -> Seq(Part)]
  /\ state \in {"InitState", "InSyncState", "OutOfSyncState", "EncryptedState",
                "NegotiatingUpstreamSSL"}
  /\ tempStorage \in Seq(Part) /\ retained \in Seq(Part)
  /\ handler \in Sides \union {"none"}
  /\ upstream \in Seq(TaggedPart) /\ served \in 0 .. Len(upstream)
  /\ answers \in Seq(Part)
  /\ downstream \in Seq(Part) /\ heard \in 0 .. Len(downstream)
  /\ upstreamTls \in BOOLEAN
  /\ downstreamTls \in {"clear", "switching", "tls"}
  /\ closed \in BOOLEAN
  /\ failedAsserts \subseteq {"onWrite", "Stopped"}

(* What the client means for the server: not what is refused, nor an        *)
(* SSLRequest that the proxy answers itself.                                *)
ForServer(m) == /\ sent[m] # "refused"
                /\ ~(sent[m] = "ssl" /\ config.terminateSsl)

(* The bytes that are meant for the server, and what it has got of them, in *)
(* the first n bytes it was sent.                                           *)
Meant == {[kind |-> sent[m], m |-> m, part |-> p] :
            m \in {x \in DOMAIN sent : ForServer(x)}, p \in 1 .. 3}

Plain(byte) == [kind |-> byte.kind, m |-> byte.m, part |-> byte.part]
ServerGot(n) == {Plain(upstream[i]) : i \in {j \in 1 .. n : upstream[j].m # 0}}

Earlier(a, b) == a.m < b.m \/ (a.m = b.m /\ a.part < b.part)

(* The same for the client: own_ssl has number 0, and its answer is not for *)
(* the client.                                                              *)
ServerSaid(n) == {answers[i] : i \in {j \in 1 .. n : answers[j].m # 0}}
ClientGot(n) == {downstream[i] : i \in {j \in 1 .. n : ForServer(downstream[j].m)}}

(* However the stream is cut into chunks, and whatever the negotiation of   *)
(* TLS puts aside, the server gets the client's messages whole, in order    *)
(* and once: in front of each byte exactly those that come before it.       *)
QueriesRelayedOnce ==
  \A i \in DOMAIN upstream : upstream[i].m # 0 =>
    /\ Plain(upstream[i]) \in Meant
    /\ ServerGot(i - 1) = {byte \in Meant : Earlier(byte, upstream[i])}

(* ... and the client the server's, although results are held back.         *)
AnswersRelayedOnce ==
  \A i \in DOMAIN downstream : ForServer(downstream[i].m) =>
    \E k \in DOMAIN answers : /\ answers[k] = downstream[i]
                              /\ ClientGot(i - 1) = ServerSaid(k - 1)

AllRelayed == /\ ServerGot(Len(upstream)) = Meant
              /\ ClientGot(Len(downstream)) = ServerSaid(Len(answers))

(* When nothing is under way any more, no whole message of a session is     *)
(* left in a buffer of the proxy, waiting for another one to push it out.   *)
NothingLeftBehind ==
  Quiet /\ wire = Nothing /\ served = Len(upstream) /\ state = "InSyncState"
    => /\ validation = Nothing /\ tempStorage = <<>> /\ retained = <<>>
       /\ AllRelayed

Secret(byte) == byte.kind \in {"startup", "password", "query"}

(* upstream_ssl REQUIRE: the startup, the password and the queries reach    *)
(* the server over TLS or not at all.                                       *)
SessionIsEncrypted ==
  config.upstreamSsl = "REQUIRE" =>
    \A i \in DOMAIN upstream : Secret(upstream[i]) => upstream[i].tls

(* Up to the last byte that is under way: every message has its parts.      *)
InMessages(bytes) ==
  \A i \in DOMAIN bytes :
    /\ i = 1 => bytes[i].part = 1
    /\ bytes[i].part = 1 => /\ i + 2 \in DOMAIN bytes
                            /\ bytes[i + 1].kind = bytes[i].kind
                            /\ bytes[i + 2].kind = bytes[i].kind
                            /\ bytes[i + 2].part = 3
    /\ bytes[i].part = 3 /\ i + 1 \in DOMAIN bytes => bytes[i + 1].part = 1
    /\ bytes[i].part # 3 => i + 1 \in DOMAIN bytes

(* ... which is kept because the session begins behind the switch only,     *)
(* what waits for the server before the switch is no part of a session, and *)
(* until then the decoder looks at the beginnings of messages: what passes  *)
(* as a cancel request has nothing of a startup in it.                      *)
EncryptionHeld ==
  /\ state \in {"InitState", "NegotiatingUpstreamSSL"} =>
       InMessages(validation["frontend"] \o wire["frontend"])
  /\ config.upstreamSsl = "REQUIRE" =>
       /\ state = "InSyncState" => upstreamTls
       /\ ~upstreamTls => \A i \in DOMAIN replacement["frontend"] :
                            ~Secret(replacement["frontend"][i])
  /\ SessionIsEncrypted

(* The handlers leave with the buffers as their ASSERTs say: a message that *)
(* stops the decoder is the last one in its buffer, and onWrite finds       *)
(* nothing to be sent to the server.                                        *)
NoAssertFails == failedAsserts = {}

(* terminate_ssl false: "the Postgres proxy filter will not try to          *)
(* terminate SSL session, but will pass all the packets to the upstream     *)
(* server" (postgres_tde.proto), and so the server's to the client, or the  *)
(* client never learns what it may encrypt.                                 *)
AllPacketsArePassed ==
  ~config.terminateSsl /\ state = "EncryptedState" /\ Quiet /\ wire = Nothing
    => AllRelayed

InvalidSent == \E m \in DOMAIN sent : sent[m] \in {"oversized", "short_password"}

(* A client that waits keeps the decoder on track with messages that        *)
(* validate; only a failed negotiation, which closes the connection, leaves *)
(* OutOfSyncState as well.                                                  *)
SyncIsKept ==
  Patient /\ state = "OutOfSyncState" => closed \/ InvalidSent

(* A client that waits has one message or its answer under way: at rest     *)
(* every buffer is empty, and so is each one that the message has not come  *)
(* to or has left.                                                          *)
LastSent == Bytes(sent[Len(sent)], Len(sent))
LastKind == sent[Len(sent)]
Waiting == IF LastKind \in {"cancel", "terminate"} THEN stage = "ended" ELSE awaiting

FrontEmpty == /\ validation["frontend"] = <<>> /\ wire["frontend"] = <<>>
              /\ replacement["frontend"] = <<>> /\ tempStorage = <<>>
BackEmpty == /\ validation["backend"] = <<>> /\ wire["backend"] = <<>>
             /\ replacement["backend"] = <<>> /\ retained = <<>>

Resting ==
  /\ FrontEmpty /\ BackEmpty
  /\ served = Len(upstream) /\ heard = Len(downstream)
  /\ \/ state = "InitState" /\ stage \in {"start", "negotiated"}
     \/ state = "InSyncState" /\ stage \in {"login", "session", "ended"}

Arriving ==
  /\ sent # <<>> /\ Waiting
  /\ validation["frontend"] \o wire["frontend"] = LastSent
  /\ replacement["frontend"] = <<>> /\ tempStorage = <<>> /\ BackEmpty
  /\ served = Len(upstream) /\ heard = Len(downstream)
  /\ \/ state = "InitState"
        /\ LastKind \in {"ssl", "gss", "cancel", "startup", "oversized"}
     \/ state = "InSyncState"
        /\ LastKind \in {"password", "short_password", "query", "refused", "terminate"}

Negotiating ==
  /\ state = "NegotiatingUpstreamSSL"
  /\ sent # <<>> /\ awaiting /\ LastKind = "startup" /\ tempStorage = LastSent
  /\ validation["frontend"] = <<>> /\ wire["frontend"] = <<>>
  /\ replacement = Nothing /\ retained = <<>> /\ heard = Len(downstream)
  /\ \/ /\ validation["backend"] = <<>> /\ wire["backend"] = <<>>
        /\ Len(upstream) = served + 3
        /\ upstream[served + 1].kind = "own_ssl" /\ upstream[served + 1].m = 0
     \/ /\ served = Len(upstream)
        /\ validation["backend"] \o wire["backend"]
              \in {Byte("S", 0), Byte("N", 0), Bytes("E", 0)}

Forwardable == /\ sent # <<>> /\ Waiting /\ state = "InSyncState"
               /\ LastKind \in {"startup", "password", "query", "terminate"}

Leaving ==
  /\ Forwardable
  /\ handler = "frontend" /\ replacement["frontend"] = LastSent
  /\ validation["frontend"] = <<>> /\ wire["frontend"] = <<>> /\ tempStorage = <<>>
  /\ BackEmpty /\ served = Len(upstream) /\ heard = Len(downstream)

AtServer ==
  /\ Forwardable
  /\ FrontEmpty /\ BackEmpty /\ heard = Len(downstream)
  /\ Len(upstream) = served + 3
  /\ upstream[served + 1].kind = LastKind /\ upstream[served + 1].m = Len(sent)

(* The answer, from the client's end of the way to the server's: what       *)
(* follows a row, a completion or an error, and what ends it.               *)
Unread == SubSeq(downstream, heard + 1, Len(downstream))
Coming == replacement["backend"] \o retained \o validation["backend"] \o wire["backend"]

Follows == {<<"row", "complete">>, <<"complete", "ready">>, <<"failed", "ready">>}
Proper(answer) ==
  \A i \in DOMAIN answer :
    IF i + 3 \in DOMAIN answer
      THEN <<answer[i].kind, answer[i + 3].kind>> \in Follows
      ELSE answer[i].kind \in {"authreq", "ready"}

Answered ==
  /\ sent # <<>> /\ awaiting /\ FrontEmpty /\ served = Len(upstream)
  /\ \/ /\ state = "InitState" /\ BackEmpty
        /\ Len(downstream) = heard + 1 /\ downstream[heard + 1].kind = "S"
     \/ /\ state = "InSyncState" /\ heard <= Len(downstream)
        /\ Unread \o Coming # <<>> /\ Proper(Unread \o Coming)
        /\ \A i \in DOMAIN Coming : Coming[i].m = Len(sent)
        /\ InMessages(Unread) /\ InMessages(replacement["backend"]) /\ InMessages(retained)
        /\ InMessages(validation["backend"] \o wire["backend"])
        /\ \A i \in DOMAIN retained : retained[i].kind = "row"

(* The decoder is done with it: what is passed unread, and what is lost.    *)
Passing ==
  /\ state = "EncryptedState"
  /\ sent # <<>> /\ Waiting /\ ForServer(Len(sent))
  /\ validation["frontend"] = <<>> /\ wire["frontend"] = <<>> /\ tempStorage = <<>>
  /\ replacement["backend"] = <<>> /\ retained = <<>> /\ heard = Len(downstream)
  /\ \/ replacement["frontend"] = <<>>
     \/ handler = "frontend" /\ replacement["frontend"] = LastSent

LostSync ==
  /\ state = "OutOfSyncState"
  /\ sent # <<>> /\ awaiting /\ LastKind \in {"oversized", "short_password"}
  /\ replacement = Nothing /\ BackEmpty
  /\ served = Len(upstream) /\ heard = Len(downstream)

OneUnderWay ==
  IF closed THEN handler = "none"
            ELSE \/ Resting \/ Arriving \/ Negotiating \/ Leaving \/ AtServer
                 \/ Answered \/ Passing \/ LostSync

(* Then the handlers leave whole messages behind in no buffer, and their    *)
(* ASSERTs hold.                                                            *)
SessionHeld ==
  /\ OneUnderWay
  /\ state \in {"InitState", "InSyncState"} /\ ~closed =>
       \A side \in Sides : handler # side => Len(validation[side]) <= 2
  /\ handler = "none" => replacement = Nothing
  /\ NoAssertFails
  /\ SyncIsKept

(* ... and what has not come to its end is what is under way.               *)
OnTheWay == \/ replacement["frontend"] # <<>> \/ tempStorage # <<>>
            \/ validation["frontend"] # <<>> \/ wire["frontend"] # <<>>

RelayHeld ==
  /\ QueriesRelayedOnce /\ AnswersRelayedOnce
  /\ \A i \in DOMAIN downstream : downstream[i].m \in DOMAIN sent
  /\ state # "OutOfSyncState" =>
       ServerGot(Len(upstream)) = {byte \in Meant : OnTheWay => byte.m < Len(sent)}
  /\ state \in {"InitState", "InSyncState", "NegotiatingUpstreamSSL"} /\ ~closed =>
       \E k \in 0 .. Len(answers) :
         /\ ClientGot(Len(downstream)) = ServerSaid(k)
         /\ IF sent # <<>> /\ ForServer(Len(sent))
              THEN Coming = SubSeq(answers, k + 1, Len(answers))
              ELSE k = Len(answers)

-----------------------------------------------------------------------------
(* The abstract connection.                                                 *)

Destination(m) == CASE sent[m] = "refused" -> "refused"
                    [] sent[m] = "ssl" /\ config.terminateSsl -> "proxy"
                    [] OTHER -> "server"
Author(m) == IF m \in DOMAIN sent /\ ~ForServer(m) THEN "proxy" ELSE "server"

IsLast(byte) == byte.m # 0 /\ (byte.part = 3 \/ byte.kind \in {"S", "N"})

Request(byte) == [kind |-> byte.kind, m |-> byte.m, to |-> Destination(byte.m)]
Told(byte) == [kind |-> byte.kind, m |-> byte.m, from |-> Author(byte.m)]

(* The messages whose last bytes these are.                                 *)
Requested(byte) == IF IsLast(byte) THEN <<Request(byte)>> ELSE <<>>
Answer(byte) == IF IsLast(byte) THEN <<Told(byte)>> ELSE <<>>

RequestsIn(bytes) == FlattenSeq([i \in DOMAIN bytes |-> Requested(bytes[i])])
AnswersIn(bytes) == FlattenSeq([i \in DOMAIN bytes |-> Answer(bytes[i])])

OwnAnswer(kind, request) == [kind |-> kind, m |-> request.m, from |-> "proxy"]
OwnTo(request) ==
  CASE request.to = "refused" -> <<OwnAnswer("failed", request), OwnAnswer("ready", request)>>
    [] request.to = "proxy" -> <<OwnAnswer("S", request)>>
    [] OTHER -> <<>>

(* The connection is shut for its abstraction when the filter has closed it *)
(* or, once what came before has been sent, the decoder is out of sync.     *)
R == INSTANCE Relay WITH
  Requests <- [kind : Kinds, m : 1 .. MaxMessages, to : {"server", "proxy", "refused"}],
  Answers <- [kind : ServerKinds, m : 1 .. MaxMessages, from : {"server"}],
  Own <- OwnTo,
  said <- [m \in DOMAIN sent |-> [kind |-> sent[m], m |-> m, to |-> Destination(m)]],
  told <- AnswersIn(answers),
  up <- RequestsIn(upstream),
  down <- AnswersIn(downstream),
  shut <- closed \/ (state = "OutOfSyncState" /\ replacement = Nothing)

(* With its buffers, its negotiations and its states the connection is a    *)
(* relay of two streams with the proxy's answers in between, and once it is *)
(* closed or out of sync it passes nothing more in either direction.        *)
ConnectionRelays == R!Spec

(* "Once the decoder enters OutOfSyncState it cannot leave that state", not *)
(* even when the answer of a negotiation comes late.                        *)
OutOfSyncIsFinal == [][state = "OutOfSyncState" => state' = "OutOfSyncState"]_vars

(* A client that waits gets its answer, or the connection is closed, or it  *)
(* asked for an encryption that the proxy does not terminate, or sent what  *)
(* does not validate: in both cases what comes after that is ignored.       *)
EveryWaitEnds ==
  awaiting ~> (~awaiting \/ closed \/ state = "EncryptedState" \/ InvalidSent)
=============================================================================
