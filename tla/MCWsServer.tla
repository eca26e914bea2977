----------------------------- MODULE MCWsServer -----------------------------
(***************************************************************************)
(* Model values and bounds for the two sides of the WebSocket server,      *)
(* which share no state: how connections come and go (WsServer), and what  *)
(* travels over them (WsMessages).  A behaviour shows one of them, in one  *)
(* of two setups each: two clients whom nobody subscribes, or one client   *)
(* and two users who hold its connection; a peer that sends large          *)
(* messages, or one that sends messages in different codecs, while both    *)
(* receive broadcasts.                                                     *)
(***************************************************************************)
EXTENDS WsServer, WsMessages

CONSTANTS c1, c2, u1, u2, news, w1

MCConns == {c1, c2}
MCUsers == {u1, u2}
MCTopics == {news}

MCSubscribers == {c2}
MCMiddlewares == {w1}

Req(id, c, frame, codec, size) ==
  [id |-> id, conn |-> c, frame |-> frame, codec |-> codec, action |-> "echo", size |-> size]

\* One peer sends a message that is too large and one beyond the library's
\* limit; the other one in JSON, and JSON in a binary frame, which protobuf
\* refuses or takes for a message without fields.
MCRequests ==
  {Req("r1", c1, "binary", Configured, 2),
   Req("r2", c1, "text", "json", 3),
   Req("r3", c2, "text", "json", 1),
   Req("r4", c2, "binary", "json", 1)}

VARIABLE setup

MCInit == /\ setup \in {"clients", "users", "large", "codecs"}
          /\ NewServer /\ Init
          /\ setup \in {"large", "codecs"} => heartbeat

Connections ==
  /\ setup \in {"clients", "users"}
  /\ Next /\ UNCHANGED msgVars
  /\ setup = "clients" => UNCHANGED call
  /\ setup = "users" => serve'[c2] = "away"

Traffic ==
  /\ setup \in {"large", "codecs"}
  /\ MsgNext /\ UNCHANGED vars
  /\ setup = "large" => cur'[c2] = cur[c2]
  /\ setup = "codecs" => cur'[c1] = cur[c1]

MCSpec == /\ MCInit /\ [][UNCHANGED setup /\ (Connections \/ Traffic)]_<<vars, msgVars, setup>>
          /\ Fairness
=============================================================================
