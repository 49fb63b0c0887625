----------------------------- MODULE MCConnection -----------------------------
(***************************************************************************)
(* Instances of Connection for TLC: the messages a client may send.        *)
(***************************************************************************)
EXTENDS Connection

(* A session with or without TLS and a password, and what does not validate *)
(* in place of its startup or its password.                                 *)
SessionKinds == {"ssl", "startup", "password", "query", "refused", "terminate",
                 "cancel", "oversized", "short_password"}

(* Everything the decoder has a case for.                                   *)
AllKinds == {"ssl", "gss", "startup", "oversized", "short_password", "query", "refused"}

(* Every configuration, and the one that negotiates TLS with the server for *)
(* clients that do not use it.                                              *)
AllConfigs == ConfigType
UpstreamOnly == {[terminateSsl |-> FALSE, upstreamSsl |-> "REQUIRE"]}

(* TLS is left to the client and the server.                                *)
PassThrough == {[terminateSsl |-> FALSE, upstreamSsl |-> "DISABLE"]}
=============================================================================
