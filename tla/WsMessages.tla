----------------------------- MODULE WsMessages -----------------------------
(***************************************************************************)
(* What travels over the connections of the WebSocket server               *)
(* (ws/server/conn.go, server.go, ws/codec): requests that are decoded and *)
(* given to handlers, responses, broadcasts, the bounded send queue, and   *)
(* the response codec, which follows the last request that was decoded.    *)
(* WsServer models how the connections come and go; here one only ends     *)
(* when its peer sends what the library refuses to read.                   *)
(***************************************************************************)
EXTENDS Integers, Sequences, FiniteSets, SequencesExt

CONSTANTS
  Peers, Subscribers,   \* the connections, by peer, and those subscribed to the topic
  Actions,              \* actions requests may name
  Middlewares,          \* what Use registers, each once
  Configured,           \* the server's codec: "json", "msgpack" or "protobuf"
  QueueSize,            \* sendBufferSize
  MaxMessage,           \* maxMessageSize, 0 for no limit
  ReadLimit,            \* the WebSocket library's own limit, which the server leaves as it is
  Requests,             \* the peers' messages: see RequestsAssumption
  Notices,              \* responses that are broadcast or published
  HandlerAnswers        \* bound: responses a handler sends for one request

Codecs == {"json", "msgpack", "protobuf"}
None == "none"
Ids == {r.id : r \in Requests}

\* Each is sent at most once: its id, the connection, the frame it comes in, the
\* codec its bytes were made with, the action they name, and its size.
ASSUME RequestsAssumption ==
  \A r \in Requests :
    /\ r \in [id : {r.id}, conn : Peers, frame : {"text", "binary"}, codec : Codecs,
              action : Actions, size : Nat]
    /\ r.id \notin Notices \cup {None}
    /\ \A s \in Requests : s.id = r.id => s = r
ASSUME ServerAssumption ==
  /\ Subscribers \subseteq Peers /\ Configured \in Codecs /\ QueueSize \in Nat \ {0}
  /\ MaxMessage \in Nat /\ ReadLimit \in Nat /\ HandlerAnswers \in Nat

VARIABLES
  unsent,               \* requests the peers have still to send
  cur,                  \* per connection, the request readLoop is at, and how far
  respCodec, sendCh,    \* Conn.respCodec and Conn.sendCh
  writing, wire,        \* what writeLoop has taken, and what it has written
  middleware, handlers, \* of the server; a handler is the chain it runs through
  gor,                  \* handler goroutines; out is what SendResp has made and not queued
  notice,               \* the broadcast at work: its response, connections, out as above
  unnoticed,            \* notices not yet broadcast
  lost,                 \* responses refused with ErrSendFull
  returned,             \* requests whose handler has returned
  used                  \* history: the codecs of the requests that were decoded, in order

reading == <<unsent, cur>>
sending == <<respCodec, sendCh, lost>>
routing == <<middleware, handlers>>
running == <<gor, returned>>
casting == <<notice, unnoticed>>
msgVars == <<reading, sending, writing, wire, routing, running, casting, used>>

Init ==
  /\ unsent = Requests
  /\ cur = [c \in Peers |-> [at |-> "reading", req |-> None]]
  /\ respCodec = [c \in Peers |-> Configured]
  /\ sendCh = [c \in Peers |-> <<>>]
  /\ writing = [c \in Peers |-> <<>>] /\ wire = [c \in Peers |-> <<>>]
  /\ middleware = <<>> /\ handlers = [a \in Actions |-> <<>>]
  /\ gor = {} /\ returned = {} /\ lost = {}
  /\ notice = [resp |-> None, unfit |-> {}, to |-> {}, out |-> {}] /\ unnoticed = Notices
  /\ used = [c \in Peers |-> <<>>]

-----------------------------------------------------------------------------
(* Codecs.                                                                 *)

MessageType(codec) == IF codec = "json" THEN "text" ELSE "binary"

\* Bytes made by one codec are refused by another, except that protobuf may
\* take foreign bytes for a message without fields.
UnmarshalRequest(codec, r) ==
  IF r.codec = codec THEN {[ok |-> TRUE, action |-> r.action]}
  ELSE {[ok |-> FALSE, action |-> None]}
       \cup (IF codec = "protobuf" THEN {[ok |-> TRUE, action |-> None]} ELSE {})

\* The codecs that may refuse a response a program made: JSON refuses data that
\* is not JSON, protobuf text that is not UTF-8.
Unfit == SUBSET {"json", "protobuf"}

\* A response encoded now.  "of" is the request the server itself answers by
\* it, None for responses of programs; "id" is the id it carries; "turn" counts
\* the requests that had been decoded on the connection.
MarshalResponse(c, of, id, code) ==
  [of |-> of, id |-> id, code |-> code, codec |-> respCodec[c], turn |-> Len(used[c])]

-----------------------------------------------------------------------------
(* Sending.  Goroutines and broadcasts make a response and queue it in two  *)
(* steps, between which readLoop may set the response codec; readLoop's own *)
(* responses are made and queued in one, for it alone sets the codec.       *)

Closed(c) == cur[c].at = "closed"

\* The select of SendResp: a full queue refuses the response.
Enqueue(c, data) ==
  IF Len(sendCh[c]) < QueueSize
  THEN /\ sendCh' = [sendCh EXCEPT ![c] = Append(@, data)]
       /\ UNCHANGED lost
  ELSE /\ lost' = lost \cup {<<c, data.of>>}
       /\ UNCHANGED sendCh

\* What readLoop answers by itself: the responses name no id.
SendResp(c, of, code) == Enqueue(c, MarshalResponse(c, of, None, code))

\* Once the connection is closed writeLoop ends, or its Write fails.
WriterTakes(c) ==
  /\ ~Closed(c)
  /\ writing[c] = <<>> /\ sendCh[c] # <<>>
  /\ writing' = [writing EXCEPT ![c] = <<Head(sendCh[c])>>]
  /\ sendCh' = [sendCh EXCEPT ![c] = Tail(@)]
  /\ UNCHANGED <<reading, respCodec, lost, wire, routing, running, casting, used>>

\* The kind of frame follows from the response codec of this moment.
WriterWrites(c) ==
  /\ ~Closed(c)
  /\ writing[c] # <<>>
  /\ wire' = [wire EXCEPT ![c] = Append(@, [data |-> writing[c][1], turn |-> Len(used[c]),
                                           frame |-> MessageType(respCodec[c])])]
  /\ writing' = [writing EXCEPT ![c] = <<>>]
  /\ UNCHANGED <<reading, sending, routing, running, casting, used>>

-----------------------------------------------------------------------------
(* readLoop and the handlers.                                              *)

\* conn.Read: the peer sends its requests in any order.  A message beyond the
\* library's limit fails the read, which ends readLoop and closes the
\* connection.
Read(c) ==
  /\ cur[c].at = "reading"
  /\ \E r \in unsent : /\ r.conn = c
                       /\ cur' = [cur EXCEPT ![c] =
                            [at |-> IF r.size > ReadLimit THEN "closed" ELSE "decoding", req |-> r]]
                       /\ unsent' = unsent \ {r}
  /\ UNCHANGED <<sending, writing, wire, routing, running, casting, used>>

LargeRequest(r) == MaxMessage > 0 /\ r.size > MaxMessage

\* Mutant of TooLarge: answers and goes on with the request.
TooLargeGoesOn(c) ==
  /\ cur[c].at = "decoding" /\ LargeRequest(cur[c].req)
  /\ SendResp(c, cur[c].req.id, 413)
  /\ cur' = [cur EXCEPT ![c].req.size = 0]
  /\ UNCHANGED <<unsent, respCodec, writing, wire, routing, running, casting, used>>

TooLarge(c) ==
  /\ cur[c].at = "decoding" /\ LargeRequest(cur[c].req)
  /\ SendResp(c, cur[c].req.id, 413)
  /\ cur' = [cur EXCEPT ![c] = [at |-> "reading", req |-> None]]
  /\ UNCHANGED <<unsent, respCodec, writing, wire, routing, running, casting, used>>

\* Text is JSON, whatever the server is configured for.
RequestCodec(r) == IF r.frame = "text" THEN "json" ELSE Configured

\* Mutant of Decode: the response codec is set before it is known whether the
\* request can be decoded.
DecodeSetsFirst(c) ==
  LET r == cur[c].req IN
  /\ cur[c].at = "decoding" /\ ~LargeRequest(r)
  /\ respCodec' = [respCodec EXCEPT ![c] = RequestCodec(r)]
  /\ \E got \in UnmarshalRequest(RequestCodec(r), r) :
       IF got.ok
       THEN /\ used' = [used EXCEPT ![c] = Append(@, RequestCodec(r))]
            /\ cur' = [cur EXCEPT ![c] = [at |-> "routing", req |-> [r EXCEPT !.action = got.action]]]
            /\ UNCHANGED <<sendCh, lost>>
       ELSE /\ SendResp(c, r.id, 400)
            /\ cur' = [cur EXCEPT ![c] = [at |-> "reading", req |-> None]]
            /\ UNCHANGED used
  /\ UNCHANGED <<unsent, writing, wire, routing, running, casting>>

\* What was decoded sets the response codec; what was not is answered by 400.
Decode(c) ==
  LET r == cur[c].req IN
  /\ cur[c].at = "decoding" /\ ~LargeRequest(r)
  /\ \E got \in UnmarshalRequest(RequestCodec(r), r) :
       IF got.ok
       THEN /\ respCodec' = [respCodec EXCEPT ![c] = RequestCodec(r)]
            /\ used' = [used EXCEPT ![c] = Append(@, RequestCodec(r))]
            /\ cur' = [cur EXCEPT ![c] = [at |-> "routing", req |-> [r EXCEPT !.action = got.action]]]
            /\ UNCHANGED <<sendCh, lost>>
       ELSE /\ SendResp(c, r.id, 400)
            /\ cur' = [cur EXCEPT ![c] = [at |-> "reading", req |-> None]]
            /\ UNCHANGED <<respCodec, used>>
  /\ UNCHANGED <<unsent, writing, wire, routing, running, casting>>

Handler(a) == IF a \in Actions THEN handlers[a] ELSE <<>>

\* No handler: 404.  Else a goroutine, and readLoop is back at Read.
Route(c) ==
  LET r == cur[c].req IN
  /\ cur[c].at = "routing"
  /\ IF Handler(r.action) = <<>>
     THEN SendResp(c, r.id, 404) /\ UNCHANGED gor
     ELSE /\ gor' = gor \cup {[conn |-> c, id |-> r.id, action |-> r.action,
                               chain |-> Handler(r.action), left |-> HandlerAnswers, out |-> {}]}
          /\ UNCHANGED <<sendCh, lost>>
  /\ cur' = [cur EXCEPT ![c] = [at |-> "reading", req |-> None]]
  /\ UNCHANGED <<unsent, respCodec, writing, wire, routing, returned, casting, used>>

Becomes(g, h) == gor' = (gor \ {g}) \cup {h}

\* The chain of middlewares and the handler send a response of their own, with
\* the request's id: SendResp as far as the encoding, which may refuse it.
HandlerMakes(g) ==
  /\ g \in gor /\ g.out = {} /\ g.left > 0
  /\ \E unfit \in Unfit :
       Becomes(g, [g EXCEPT !.left = @ - 1,
                            !.out = IF respCodec[g.conn] \in unfit THEN {}
                                    ELSE {MarshalResponse(g.conn, None, g.id, 200)}])
  /\ UNCHANGED <<reading, sending, writing, wire, routing, returned, casting, used>>

\* They may panic, whether they have sent a response or not: recover answers.
HandlerPanics(g) ==
  /\ g \in gor /\ g.out = {}
  /\ Becomes(g, [g EXCEPT !.left = 0, !.out = {MarshalResponse(g.conn, g.id, None, 500)}])
  /\ UNCHANGED <<reading, sending, writing, wire, routing, returned, casting, used>>

\* The second half of SendResp; after the answer of recover nothing is left.
HandlerQueues(g) ==
  /\ g \in gor
  /\ \E data \in g.out :
       /\ Enqueue(g.conn, data)
       /\ IF data.of = None THEN Becomes(g, [g EXCEPT !.out = {}]) ELSE gor' = gor \ {g}
  /\ UNCHANGED <<reading, respCodec, writing, wire, routing, returned, casting, used>>

HandlerReturns(g) ==
  /\ g \in gor /\ g.out = {}
  /\ gor' = gor \ {g} /\ returned' = returned \cup {g.id}
  /\ UNCHANGED <<reading, sending, writing, wire, routing, casting, used>>

-----------------------------------------------------------------------------
(* The server: Use, Handle, Broadcast and Publish.                         *)

Use(w) ==
  /\ w \notin ToSet(middleware)
  /\ middleware' = Append(middleware, w)
  /\ UNCHANGED <<reading, sending, writing, wire, handlers, running, casting, used>>

\* Handle wraps the handler from the last middleware to the first: what runs
\* is the first middleware registered, the others after it, then the handler.
Wrapped(a) == middleware \o <<a>>

Handle(a) ==
  /\ handlers' = [handlers EXCEPT ![a] = Wrapped(a)]
  /\ UNCHANGED <<reading, sending, writing, wire, middleware, running, casting, used>>

\* The connections there are, are looked up once; a filter may leave some out.
CastBegins(n, to) ==
  /\ n \in unnoticed /\ notice.to = {} /\ to # {}
  /\ \E unfit \in Unfit : notice' = [resp |-> n, unfit |-> unfit, to |-> to, out |-> {}]
  /\ unnoticed' = unnoticed \ {n}
  /\ UNCHANGED <<reading, sending, writing, wire, routing, running, used>>

Open == {c \in Peers : ~Closed(c)}

Broadcast(n) == CastBegins(n, Open)
BroadcastFilter(n) == \E keep \in SUBSET Open : CastBegins(n, keep)
Publish(n) == CastBegins(n, Subscribers \cap Open)
PublishFilter(n) == \E keep \in SUBSET (Subscribers \cap Open) : CastBegins(n, keep)

\* One connection after the other, in the order of a map, which is any: the
\* response is made, or skipped when the codec refuses it, and then queued.
CastMakes(c) ==
  /\ c \in notice.to /\ notice.out = {}
  /\ IF respCodec[c] \in notice.unfit
     THEN notice' = [notice EXCEPT !.to = @ \ {c}]
     ELSE notice' = [notice EXCEPT !.out = {[conn |-> c, data |-> MarshalResponse(c, None, notice.resp, 200)]}]
  /\ UNCHANGED <<reading, sending, writing, wire, routing, running, unnoticed, used>>

CastQueues(c) ==
  /\ \E o \in notice.out : o.conn = c /\ Enqueue(c, o.data)
  /\ notice' = [notice EXCEPT !.to = @ \ {c}, !.out = {}]
  /\ UNCHANGED <<reading, respCodec, writing, wire, routing, running, unnoticed, used>>

-----------------------------------------------------------------------------
MsgNext ==
  \/ \E c \in Peers : \/ Read(c) \/ TooLarge(c) \/ Decode(c) \/ Route(c)
                      \/ WriterTakes(c) \/ WriterWrites(c)
                      \/ CastMakes(c) \/ CastQueues(c)
  \/ \E g \in gor : HandlerMakes(g) \/ HandlerPanics(g) \/ HandlerQueues(g) \/ HandlerReturns(g)
  \/ \E w \in Middlewares : Use(w)
  \/ \E a \in Actions : Handle(a)
  \/ \E n \in Notices : Broadcast(n) \/ BroadcastFilter(n) \/ Publish(n) \/ PublishFilter(n)

MsgSpec == Init /\ [][MsgNext]_msgVars

-----------------------------------------------------------------------------
(* Properties.                                                             *)

\* The responses of connection c that are somewhere on their way to its peer.
Answers(c) ==
  LET written == [i \in DOMAIN wire[c] |-> wire[c][i].data]
  IN  written \o writing[c] \o sendCh[c]

\* Where request r is: how often, over all the places a request and the
\* server's own answer to it can be in.
Places(r) ==
  LET c == r.conn
      here(b) == IF b THEN 1 ELSE 0
  IN  here(r \in unsent)
      + here(cur[c].at # "reading" /\ cur[c].req.id = r.id)
      + Cardinality({g \in gor : g.id = r.id})
      + Cardinality({i \in DOMAIN Answers(c) : Answers(c)[i].of = r.id})
      + here(<<c, r.id>> \in lost) + here(r.id \in returned)

\* Every request is accounted for once: it is on its way, has closed the
\* connection, is in one handler, has had one that returned (after however many
\* responses of its own), or was answered by the server (400, 404, 413, 500)
\* once, by a response that is queued, written, or was refused by a full queue;
\* and a handler runs inside the middlewares that were registered before it, in
\* the order of their registration.
AnsweredOnce ==
  /\ \A r \in Requests : Places(r) = 1
  /\ \A g \in gor : \E n \in 0..Len(middleware) :
       g.chain = SubSeq(middleware, 1, n) \o <<g.action>>
  /\ \A c \in Peers : Len(sendCh[c]) <= QueueSize

\* A response of a handler, or the server's own to a request it has decoded.
IsReply(data) == data.code \in {404, 500} \/ data.id \in Ids

\* A frame whose kind is not that of the bytes in it is only written when
\* a request in another codec was decoded between the encoding and the writing;
\* and a peer all of whose decoded requests are in one codec gets the replies
\* to them in that codec and in frames of its kind, whatever the server is
\* configured for.
FramesMatch ==
  \A c \in Peers : \A i \in DOMAIN wire[c] :
    LET sent == wire[c][i]
        data == sent.data
    IN  /\ sent.frame # MessageType(data.codec) =>
             \E n \in data.turn + 1 .. sent.turn : used[c][n] # data.codec
        /\ \A codec \in Codecs : ToSet(used[c]) = {codec} /\ IsReply(data) =>
             data.codec = codec /\ sent.frame = MessageType(codec)

\* What ws/README.md says of frames, and what is not so: JSON is in text frames
\* and the other codecs in binary ones.
FramesFit ==
  \A c \in Peers : \A i \in DOMAIN wire[c] :
    wire[c][i].frame = MessageType(wire[c][i].data.codec)

\* What ws/README.md and types/message.go say of responses, and what is not so:
\* the response to a request that was decoded carries the request's id.
AnswersCarryId ==
  \A c \in Peers : \A i \in DOMAIN Answers(c) :
    Answers(c)[i].code \in {404, 500} => Answers(c)[i].id = Answers(c)[i].of

\* What ws/README.md says of large messages, and what is not so: they are
\* answered, and the connection goes on reading.
LargeIsAnswered == \A c \in Peers : ~Closed(c)
=============================================================================
