----------------------------- MODULE MCWsClient -----------------------------
(* WsClient for small numbers of calls and messages.                        *)
EXTENDS WsClient

CONSTANTS u1, k1, m1, m2

MCUsers == {u1}
MCClosers == {k1}
MCMessages == {m1, m2}
=============================================================================
