---------------------------- MODULE HttpConnection ----------------------------
(***************************************************************************)
(* What a worker does with an accepted connection: process_new_connection  *)
(* of mongoose.c reads requests from the socket into one buffer, hands     *)
(* each to handle_request, which calls the daemon (webui_base::handle_http *)
(* and tau_handler::handle_http), then drops the request from the buffer   *)
(* and goes on with the next one if the connection is kept alive.          *)
(*                                                                         *)
(* The stream of a client is a sequence of units <<connection, request,    *)
(* place>>.  The first HeadLen places of a request are its head, the last  *)
(* of them the blank line; the rest is its body, which contains no blank   *)
(* line and does not begin like a request (the daemon's bodies are JSON).  *)
(* recv returns any part of what has arrived.  A request is known by its   *)
(* shape: the length of its body, whether the client asks to keep the      *)
(* connection, and its kind:                                               *)
(*   "call"     authorised, for /rpc, with a Content-Length the daemon     *)
(*              accepts: the handler reads the body;                       *)
(*   "refused"  answered without reading the body (no credentials, body    *)
(*              too long, another URI, an invalid URI or version);         *)
(*   "digest"   PUT or DELETE, answered by send_authorization_request;     *)
(*   "unsized"  POST without Content-Length.                               *)
(***************************************************************************)
EXTENDS Integers, Sequences, FiniteSets

CONSTANTS
  Shapes,          \* requests a client may send: [kind, body, keep]
  HeadLen,         \* units of a request head
  BufSize,         \* conn->buf_size
  MaxRequests,     \* bound on the requests of a connection
  MaxConnections   \* bound on the connections the worker serves

Kinds == {"call", "refused", "digest", "unsized"}

ASSUME ShapeAssumption ==
  /\ Shapes \subseteq [kind : Kinds, body : Nat, keep : BOOLEAN]
  /\ \A s \in Shapes : s.kind = "call" => s.body > 0

ASSUME SizeAssumption ==
  /\ HeadLen \in Nat \ {0}
  /\ BufSize \in Nat \ {0}
  /\ MaxRequests \in Nat
  /\ MaxConnections \in Nat \ {0}

VARIABLES
  cn,           \* number of the connection the worker serves
  stream,       \* shapes of the requests the client has begun to send
  offset,       \* units of its last request the client has sent
  wire,         \* units sent and not received
  stop_flag,    \* ctx->stop_flag
  pc,           \* where process_new_connection is
  buf,          \* conn->buf, up to data_len
  request_len,  \* conn->request_len
  cur,          \* conn->request_info: <<connection, request>>
  post_body,    \* what mg_read has returned to the handler
  answers,      \* answers sent on this connection
  unread        \* a request of this connection was left before its body
                \* had been received

clientVars == <<stream, offset, wire>>
vars == <<cn, clientVars, stop_flag, pc, buf, request_len, cur, post_body, answers, unread>>

Shape(r) == stream[r[2]]

Least(a, b) == IF a < b THEN a ELSE b

Init ==
  /\ cn = 1
  /\ stream = <<>>
  /\ offset = 0
  /\ wire = <<>>
  /\ stop_flag = 0
  /\ pc = "read"
  /\ buf = <<>>
  /\ request_len = 0
  /\ cur = <<0, 0>>
  /\ post_body = <<>>
  /\ answers = <<>>
  /\ unread = FALSE

-------------------------------------------------------------------------------
(* The client and the owner of the server *)

\* The client sends the next unit of its request, or begins another one,
\* whether or not it has got the answer to the last one.
ClientSends ==
  LET n == Len(stream)
  IN  /\ pc # "done"
      /\ \/ /\ n > 0
            /\ offset < HeadLen + stream[n].body
            /\ offset' = offset + 1
            /\ wire' = Append(wire, <<cn, n, offset + 1>>)
            /\ UNCHANGED stream
         \/ /\ n > 0 => offset = HeadLen + stream[n].body
            /\ n < MaxRequests
            /\ \E shape \in Shapes : stream' = Append(stream, shape)
            /\ offset' = 1
            /\ wire' = Append(wire, <<cn, n + 1, 1>>)
      /\ UNCHANGED <<cn, stop_flag, pc, buf, request_len, cur, post_body, answers, unread>>

\* mg_stop is called.
Stop ==
  /\ stop_flag = 0
  /\ stop_flag' = 1
  /\ UNCHANGED <<cn, clientVars, pc, buf, request_len, cur, post_body, answers, unread>>

-------------------------------------------------------------------------------
(* Reading a request *)

\* recv returns the first n units that have arrived.
Received(n) == SubSeq(wire, 1, n)
Remaining(n) == SubSeq(wire, n + 1, Len(wire))

\* Mutant: recv never times out.
PullFailsAtStop == stop_flag = 1

\* pull returns 0 or -1: the client has closed or stayed silent until the
\* socket timeout, or the server is stopping.
PullFails == wire = <<>> \/ stop_flag = 1

\* get_request_len: the length up to the first blank line, or 0.
RequestLen ==
  LET ends == {k \in DOMAIN buf : buf[k][3] = HeadLen}
  IN  IF ends = {} THEN 0 ELSE CHOOSE k \in ends : \A j \in ends : k <= j

\* parse_http_message accepts the head: it is one from its first unit on.
WellFormed == RequestLen = HeadLen /\ \A k \in 1 .. HeadLen : buf[k] = <<buf[1][1], buf[1][2], k>>

\* Mutant: recv may fill a whole buffer, whatever is in it.
ReadMoreUnbounded ==
  /\ pc = "read"
  /\ RequestLen = 0
  /\ Len(buf) < BufSize
  /\ stop_flag = 0
  /\ \E n \in 1 .. Least(Len(wire), BufSize) :
       /\ buf' = buf \o Received(n)
       /\ wire' = Remaining(n)
  /\ UNCHANGED <<cn, stream, offset, stop_flag, pc, request_len, cur, post_body, answers, unread>>

\* read_request: one more pull into the rest of the buffer.
ReadMore ==
  /\ pc = "read"
  /\ RequestLen = 0
  /\ stop_flag = 0
  /\ \E n \in 1 .. Least(Len(wire), BufSize - Len(buf)) :
       /\ buf' = buf \o Received(n)
       /\ wire' = Remaining(n)
  /\ UNCHANGED <<cn, stream, offset, stop_flag, pc, request_len, cur, post_body, answers, unread>>

\* getreq fails: the client is gone or silent, the head does not fit in the
\* buffer, or it is not a request.  The answer is a 500 and the connection is
\* closed, after the buffer has been emptied.
Reject ==
  /\ pc = "read"
  /\ \/ RequestLen = 0 /\ (Len(buf) = BufSize \/ PullFails)
     \/ RequestLen > 0 /\ ~ WellFormed
  /\ answers' = Append(answers, [to |-> <<cn, 0>>, excess |-> 0])
  /\ request_len' = 0
  /\ buf' = <<>>
  /\ pc' = "done"
  /\ UNCHANGED <<cn, clientVars, stop_flag, cur, post_body, unread>>

\* Mutant: mg_read copies all buffered data, not only this request's.
BufferedBodyUncapped(len) == SubSeq(buf, RequestLen + 1, Len(buf))

\* What mg_read finds of the body in the buffer, at most len units.
BufferedBody(len) == SubSeq(buf, RequestLen + 1, Least(Len(buf), RequestLen + len))

\* tau_handler::handle_http gets as far as mg_read.
ReadsBody(r) == Shape(r).kind = "call"

\* getreq succeeds and handle_request is called; a call goes on to mg_read.
Parse ==
  LET r == <<buf[1][1], buf[1][2]>>
  IN  /\ pc = "read"
      /\ RequestLen > 0
      /\ WellFormed
      /\ request_len' = RequestLen
      /\ cur' = r
      /\ post_body' = IF ReadsBody(r) THEN BufferedBody(Shape(r).body) ELSE <<>>
      /\ pc' = IF ReadsBody(r) THEN "body" ELSE "answer"
      /\ UNCHANGED <<cn, clientVars, stop_flag, buf, answers, unread>>

-------------------------------------------------------------------------------
(* Handling a request *)

\* pull_all: the rest of the body comes straight from the socket.
ReadBody ==
  /\ pc = "body"
  /\ stop_flag = 0
  /\ \E n \in 1 .. Least(Len(wire), Shape(cur).body - Len(post_body)) :
       /\ post_body' = post_body \o Received(n)
       /\ wire' = Remaining(n)
  /\ UNCHANGED <<cn, stream, offset, stop_flag, pc, buf, request_len, cur, answers, unread>>

\* mg_read returns; the handler does not look at how much was read.
BodyDone ==
  /\ pc = "body"
  /\ Len(post_body) = Shape(cur).body \/ PullFails
  /\ pc' = "answer"
  /\ UNCHANGED <<cn, clientVars, stop_flag, buf, request_len, cur, post_body, answers, unread>>

\* Mutant: the terminator is written once more on its own.
ExcessWithTwoNuls(r) == {0} \cup {x \in {2} : Shape(r).kind = "call"}

\* Units that may be sent beyond the announced Content-Length: none by
\* send_http_error and return_error, and the NUL after the result of
\* handle_json_rpc.
Excess(r) == {0} \cup {x \in {1} : Shape(r).kind = "call"}

Answer ==
  /\ pc = "answer"
  /\ \E excess \in Excess(cur) :
       answers' = Append(answers, [to |-> cur, excess |-> excess])
  /\ pc' = "end"
  /\ UNCHANGED <<cn, clientVars, stop_flag, buf, request_len, cur, post_body, unread>>

\* conn->content_len of the current request.
ContentLen == IF Shape(cur).kind = "unsized" THEN -1 ELSE Shape(cur).body

\* conn->status_code is 401 only when mongoose itself asks for a password.
ShouldKeepAlive == Shape(cur).keep /\ Shape(cur).kind # "digest"

\* How much of the buffer belongs to the current request.
DiscardLen ==
  IF ContentLen >= 0 /\ request_len > 0 /\ request_len + ContentLen < Len(buf)
    THEN request_len + ContentLen
    ELSE Len(buf)

\* The units of the current request that the worker has received.
Arrived ==
  {u \in {buf[k] : k \in DOMAIN buf} \cup {post_body[k] : k \in DOMAIN post_body} :
     <<u[1], u[2]>> = cur}

\* The end of the loop in process_new_connection; the handler's copy of the body
\* is gone, and request_len is reset before the next request is read.
EndRequest ==
  /\ pc = "end"
  /\ buf' = SubSeq(buf, DiscardLen + 1, Len(buf))
  /\ unread' = (unread \/ Cardinality(Arrived) < HeadLen + Shape(cur).body)
  /\ pc' = IF stop_flag = 0 /\ ContentLen >= 0 /\ ShouldKeepAlive THEN "read" ELSE "done"
  /\ request_len' = 0
  /\ post_body' = <<>>
  /\ UNCHANGED <<cn, clientVars, stop_flag, cur, answers>>

\* Mutant: the receiving buffer is not reset for a new connection.
NextConnectionKeepsBuffer ==
  /\ pc = "done"
  /\ stop_flag = 0
  /\ cn < MaxConnections
  /\ cn' = cn + 1
  /\ offset' = 0
  /\ wire' = <<>>
  /\ answers' = <<>>
  /\ unread' = FALSE
  /\ pc' = "read"
  /\ stream' = <<>>
  /\ UNCHANGED <<stop_flag, buf, request_len, cur, post_body>>

\* The worker closes the connection and serves the next one with the same
\* connection object, of which only the buffer is reset.
NextConnection ==
  /\ pc = "done"
  /\ stop_flag = 0
  /\ cn < MaxConnections
  /\ cn' = cn + 1
  /\ offset' = 0
  /\ wire' = <<>>
  /\ buf' = <<>>
  /\ answers' = <<>>
  /\ unread' = FALSE
  /\ pc' = "read"
  /\ stream' = <<>>
  /\ UNCHANGED <<stop_flag, request_len, cur, post_body>>

\* The last connection of the model is closed.
Finished ==
  /\ pc = "done"
  /\ UNCHANGED vars

-------------------------------------------------------------------------------
WorkerSteps ==
  \/ ReadMore \/ Reject \/ Parse
  \/ ReadBody \/ BodyDone \/ Answer \/ EndRequest

Next == ClientSends \/ Stop \/ WorkerSteps \/ NextConnection \/ Finished

Spec == Init /\ [][Next]_vars

\* The worker runs; recv returns after the socket timeout at the latest.
\* Clients need not send anything, nor anything to its end.
FairSpec == Spec /\ WF_vars(WorkerSteps)

-------------------------------------------------------------------------------
(* Properties *)

Units == (1 .. MaxConnections) \X (1 .. MaxRequests) \X Nat

\* Type invariant of the connection object and of the stream.
TypeOK ==
  /\ cn \in Nat
  /\ stream \in Seq(Shapes)
  /\ offset \in Nat
  /\ wire \in Seq(Units)
  /\ stop_flag \in 0 .. 1
  /\ pc \in {"read", "body", "answer", "end", "done"}
  /\ buf \in Seq(Units)
  /\ request_len \in Nat
  /\ cur \in Nat \X Nat
  /\ post_body \in Seq(Units)
  /\ answers \in Seq([to : Nat \X Nat, excess : 0 .. 1])
  /\ unread \in BOOLEAN

\* The assertions of read_request, getreq and process_new_connection: the data
\* never outgrows the buffer, the head is within the data, and no more is
\* discarded than there is.
AssertionsHold ==
  /\ Len(buf) <= BufSize
  /\ pc \in {"body", "answer", "end"} => request_len <= Len(buf)
  /\ pc = "end" => DiscardLen \in 0 .. Len(buf)

\* The connection stays in step: the next unit process_new_connection will look
\* at is the first one of the first request it has not answered, however the
\* stream is cut into packets and whatever was sent ahead or was left over from
\* the last connection; unless a request was left before its body had arrived.
InStep ==
  pc = "read" /\ ~ unread /\ buf \o wire # <<>> =>
    Head(buf \o wire) = <<cn, Len(answers) + 1, 1>>

\* What mg_read gives the handler is the body of its request from its first
\* unit on and nothing else, whether it came from the buffer or the socket.
BodyIntact ==
  pc \in {"body", "answer"} =>
    \A k \in DOMAIN post_body : post_body[k] = <<cur[1], cur[2], HeadLen + k>>

\* A connection ends although its client falls silent at any point: what the
\* thread pool relies on when it lets a worker serve a connection.
ConnectionEnds == pc # "done" ~> pc = "done"

\* The comments in tau_handler::handle_http: the terminating NUL is there for
\* the daemon's own use and is not counted by Content-Length, so an answer is
\* as long as it says.
AnswerFramed == \A k \in DOMAIN answers : answers[k].excess = 0
===============================================================================
