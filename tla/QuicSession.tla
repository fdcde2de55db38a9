----------------------------- MODULE QuicSession -----------------------------
(***************************************************************************)
(* The QUIC transport of the SDK: QUICSession (one session, one thread),   *)
(* its QUICDataStreams and the QUICConnections that wait for their         *)
(* callbacks.  Other threads only queue blocks for the session thread;     *)
(* packets, the 100 ms timer and socket errors are delivered on it, so     *)
(* every handler is one step and the hazard is the order of the steps.     *)
(*                                                                         *)
(* The QUIC library is external: it completes or repeats the handshake,    *)
(* hands out streams or refuses to, delivers headers, data and stream      *)
(* closes, and closes every stream when the connection is closed.  A       *)
(* session that is destroyed while its handshake is being repeated takes   *)
(* its streams with it without closing them: mStreamDelegateMap then holds *)
(* freed streams (orphans).  Using one either ends the process, which a    *)
(* behaviour may do at any point, or reads its last values, as here.       *)
(***************************************************************************)
EXTENDS Integers, Sequences, FiniteSets

CONSTANTS
    Requests,    \* QUICConnections, each started once
    MaxChunks,   \* bound on the data frames of a response
    MaxQueue     \* bound on the blocks other threads have queued

ASSUME QuicAssumption == MaxChunks \in Nat /\ MaxQueue \in Nat \ {0}

VARIABLES
    queue,     \* blocks performed on the session thread
    session,   \* mSession: "none", "handshaking", "established" or "closed"
    conn,      \* per request: its stream, its map entry and what its delegate was told
    orphans,   \* history: requests whose stream was freed while in the map
    dropped    \* history: requests p_sendRequest returned null for

vars == <<queue, session, conn, orphans, dropped>>

Block == [op : {"connect"}] \cup [op : {"send"}, req : Requests]

Call == [kind : {"response", "redirect", "finish", "fail"}, chunk : {0}]
          \cup [kind : {"data"}, chunk : 1..MaxChunks]

\* A QUICConnection and its QUICDataStream.
Connection ==
    [stream : {"none", "open", "gone"},
     anchored : BOOLEAN,           \* mAnchor0
     mapped : BOOLEAN,             \* the stream is a key of mStreamDelegateMap
     failed : BOOLEAN,             \* mFailed
     headers : BOOLEAN,            \* mHeadersDelivered
     timing : BOOLEAN,             \* mInitialMS is not 0
     received : 0..MaxChunks,      \* data frames the library has delivered
     cache : Seq(1..MaxChunks),    \* mCacheList
     calls : Seq(Call)]            \* what the ConnectionDelegate was told

TypeOK ==
    /\ queue \in Seq(Block)
    /\ session \in {"none", "handshaking", "established", "closed"}
    /\ conn \in [Requests -> Connection]
    /\ orphans \subseteq Requests
    /\ dropped \subseteq Requests

Fresh ==
    [stream |-> "none", anchored |-> FALSE, mapped |-> FALSE, failed |-> FALSE,
     headers |-> FALSE, timing |-> FALSE, received |-> 0, cache |-> <<>>, calls |-> <<>>]

\* QUICSession::instance has queued its first connect.
Init ==
    /\ queue = <<[op |-> "connect"]>>
    /\ session = "none"
    /\ conn = [r \in Requests |-> Fresh]
    /\ orphans = {}
    /\ dropped = {}

-----------------------------------------------------------------------------
(* Callbacks: QUICSession looks the stream up in its map, QUICConnection   *)
(* tells its delegate, or nobody once it has been redirected.              *)

Told(c, kind, n) == [c EXCEPT !.calls = Append(@, [kind |-> kind, chunk |-> n])]

\* mRedirect is set.
Redirected(c) == \E i \in DOMAIN c.calls : c.calls[i].kind = "redirect"

onQUICStreamReceivedResponse(c, kind) == IF c.mapped THEN Told(c, kind, 0) ELSE c

onQUICStreamReceivedData(c, n) ==
    IF c.mapped /\ ~Redirected(c) THEN Told(c, "data", n) ELSE c

Ended(c, kind) ==
    CASE ~c.mapped -> c
      [] c.mapped /\ Redirected(c) -> [c EXCEPT !.mapped = FALSE]
      [] OTHER -> [Told(c, kind, 0) EXCEPT !.mapped = FALSE, !.anchored = FALSE]

onQUICStreamCompleted_NotErased(c) == [Ended(c, "finish") EXCEPT !.mapped = c.mapped]

onQUICStreamCompleted(c) == Ended(c, "finish")

onQUICStreamFailed(c) == Ended(c, "fail")

-----------------------------------------------------------------------------
(* QUICDataStream. *)

FlushCache_FromZero(c) ==
    LET flushed == [i \in DOMAIN c.cache |-> [kind |-> "data", chunk |-> c.cache[i] - 1]]
    IN  [c EXCEPT !.calls = IF c.mapped /\ ~Redirected(c) THEN @ \o flushed ELSE @,
                  !.cache = <<>>]

\* The cached data goes first, in the order it arrived.
FlushCache(c) ==
    LET flushed == [i \in DOMAIN c.cache |-> [kind |-> "data", chunk |-> c.cache[i]]]
    IN  [c EXCEPT !.calls = IF c.mapped /\ ~Redirected(c) THEN @ \o flushed ELSE @,
                  !.cache = <<>>]

\* Data before the headers is kept, data after them is passed on.
should_add_incoming_data(c, n) ==
    IF c.headers
    THEN onQUICStreamReceivedData(FlushCache(c), n)
    ELSE [c EXCEPT !.cache = Append(@, n)]

\* The next piece of the response.
Chunk(c) == c.received + 1

OnStreamFrame(c) ==
    LET fed == [should_add_incoming_data(c, Chunk(c)) EXCEPT !.received = @ + 1]
    IN  IF c.failed THEN fed ELSE [fed EXCEPT !.timing = FALSE]

OnInitialHeadersComplete(c, kind) ==
    IF c.failed
    THEN c
    ELSE [onQUICStreamReceivedResponse(c, kind) EXCEPT !.timing = FALSE, !.headers = TRUE]

\* Headers that never came are replaced by an empty response with code 0.
WithResponse(c) ==
    IF c.headers
    THEN c
    ELSE [onQUICStreamReceivedResponse(c, "response") EXCEPT !.headers = TRUE]

onVisitorSentClose_NoFlush(c) ==
    IF c.failed
    THEN c
    ELSE [onQUICStreamCompleted(WithResponse(c)) EXCEPT !.timing = FALSE]

\* The library closes the stream, for whatever reason.
onVisitorSentClose(c) ==
    IF c.failed
    THEN c
    ELSE [onQUICStreamCompleted(FlushCache(WithResponse(c))) EXCEPT !.timing = FALSE]

onSocketError_Silent(c) == [c EXCEPT !.failed = TRUE, !.mapped = FALSE]

onSocketError(c) ==
    IF c.failed THEN c ELSE onQUICStreamFailed([c EXCEPT !.failed = TRUE])

updateStream_NoTimeout(c, late) == [c EXCEPT !.timing = TRUE]

\* QUICDataStream::update: late says whether more than mTimeoutMS have passed.
updateStream(c, late) ==
    CASE c.failed -> c
      [] ~c.failed /\ ~c.timing -> [c EXCEPT !.timing = TRUE]
      [] ~c.failed /\ c.timing /\ ~late -> c
      [] OTHER -> onQUICStreamFailed([c EXCEPT !.failed = TRUE])

-----------------------------------------------------------------------------
(* The library closes or frees streams. *)

Closed(c) ==
    IF c.stream = "open" THEN [onVisitorSentClose(c) EXCEPT !.stream = "gone"] ELSE c

Freed(c) == IF c.stream = "open" THEN [c EXCEPT !.stream = "gone"] ELSE c

p_connected == session = "established"

Disconnected_NoClose == [r \in Requests |-> Freed(conn[r])]

\* p_disconnect: SendConnectionClose closes every stream, but is only sent when
\* p_connected; then the session is destroyed with the streams it still has.
Disconnected ==
    [r \in Requests |-> IF p_connected THEN Closed(conn[r]) ELSE Freed(conn[r])]

\* Ghost: streams in the map that go down with a session whose handshake is being
\* repeated.
Orphaned == {r \in Requests : session = "handshaking" /\ conn[r].stream = "open" /\ conn[r].mapped}

-----------------------------------------------------------------------------
(* Other threads. *)

\* QUICConnection::startWithRequest.
startWithRequest(r) ==
    /\ conn[r] = Fresh
    /\ Len(queue) < MaxQueue
    /\ conn' = [conn EXCEPT ![r].anchored = TRUE]
    /\ queue' = Append(queue, [op |-> "send", req |-> r])
    /\ UNCHANGED <<session, orphans, dropped>>

\* The screen is locked, or a configuration changes the edge host or port.
reconnect ==
    /\ Len(queue) < MaxQueue
    /\ queue' = Append(queue, [op |-> "connect"])
    /\ UNCHANGED <<session, conn, orphans, dropped>>

-----------------------------------------------------------------------------
(* Blocks of the session thread. *)

\* p_connect: an old session is disconnected first.  The new one may be encrypted
\* at once, from cached keys; without a socket there is none.
p_connect(outcome) ==
    /\ queue # <<>>
    /\ Head(queue).op = "connect"
    /\ queue' = Tail(queue)
    /\ session' = outcome
    /\ conn' = IF session = "none" THEN conn ELSE Disconnected
    /\ orphans' = IF session = "none" THEN orphans ELSE orphans \cup Orphaned
    /\ UNCHANGED dropped

Sending(r) == queue # <<>> /\ Head(queue) = [op |-> "send", req |-> r]

\* p_sendRequest without an encrypted connection: nobody is told.
p_sendRequest_NotConnected(r) ==
    /\ Sending(r)
    /\ ~p_connected
    /\ queue' = Tail(queue)
    /\ dropped' = dropped \cup {r}
    /\ UNCHANGED <<session, conn, orphans>>

\* The library refuses a stream (too many, or the peer is going away): the session
\* is reconnected and the request is not sent again.
p_sendRequest_NoStream(r) ==
    /\ Sending(r)
    /\ p_connected
    /\ queue' = Append(Tail(queue), [op |-> "connect"])
    /\ dropped' = dropped \cup {r}
    /\ UNCHANGED <<session, conn, orphans>>

p_sendRequest(r) ==
    /\ Sending(r)
    /\ p_connected
    /\ queue' = Tail(queue)
    /\ conn' = [conn EXCEPT ![r].stream = "open", ![r].mapped = TRUE]
    /\ UNCHANGED <<session, orphans, dropped>>

-----------------------------------------------------------------------------
(* Packets, the timer and the socket. *)

Alive == session \in {"handshaking", "established"}

\* The server accepts the client hello, or rejects it after streams were opened.
HandshakeStep ==
    /\ Alive
    /\ session' = IF session = "established" THEN "handshaking" ELSE "established"
    /\ UNCHANGED <<queue, conn, orphans, dropped>>

HeadersArrive(r, kind) ==
    /\ Alive
    /\ conn[r].stream = "open"
    /\ ~conn[r].headers
    /\ conn' = [conn EXCEPT ![r] = OnInitialHeadersComplete(@, kind)]
    /\ UNCHANGED <<queue, session, orphans, dropped>>

DataArrives(r) ==
    /\ Alive
    /\ conn[r].stream = "open"
    /\ conn[r].received < MaxChunks
    /\ conn' = [conn EXCEPT ![r] = OnStreamFrame(@)]
    /\ UNCHANGED <<queue, session, orphans, dropped>>

\* The response is complete, or the peer resets the stream.
StreamCloses(r) ==
    /\ Alive
    /\ conn[r].stream = "open"
    /\ conn' = [conn EXCEPT ![r] = Closed(@)]
    /\ UNCHANGED <<queue, session, orphans, dropped>>

\* The peer closes the connection, or the library does on an error.
ConnectionCloses ==
    /\ Alive
    /\ session' = "closed"
    /\ conn' = [r \in Requests |-> Closed(conn[r])]
    /\ UNCHANGED <<queue, orphans, dropped>>

\* The socket was closed: disconnect, and fail what is left in the map.
onQUICError ==
    /\ session # "none"
    /\ session' = "none"
    /\ conn' = [r \in Requests |->
                  LET c == Disconnected[r] IN IF c.mapped THEN onSocketError(c) ELSE c]
    /\ UNCHANGED <<queue, orphans, dropped>>

\* The timer, every 100 ms; the requests in late have been without a frame for
\* mTimeoutMS.
update(late) ==
    /\ \E r \in Requests : conn[r].mapped
    /\ conn' = [r \in Requests |->
                  IF conn[r].mapped THEN updateStream(conn[r], r \in late) ELSE conn[r]]
    /\ UNCHANGED <<queue, session, orphans, dropped>>

Next ==
    \/ reconnect
    \/ \E outcome \in {"none", "handshaking", "established"} : p_connect(outcome)
    \/ HandshakeStep
    \/ ConnectionCloses
    \/ onQUICError
    \/ \E late \in SUBSET Requests : update(late)
    \/ \E r \in Requests :
          \/ startWithRequest(r)
          \/ p_sendRequest_NotConnected(r)
          \/ p_sendRequest_NoStream(r)
          \/ p_sendRequest(r)
          \/ \E kind \in {"response", "redirect"} : HeadersArrive(r, kind)
          \/ DataArrives(r)
          \/ StreamCloses(r)

Spec == Init /\ [][Next]_vars

(***************************************************************************)
(* Fairness: the run loop of the session thread serves its queue, the      *)
(* timer fires for ever and time passes, so that a stream without frames   *)
(* is found late.                                                          *)
(***************************************************************************)
Fairness ==
    /\ WF_vars(\E outcome \in {"none", "handshaking", "established"} : p_connect(outcome))
    /\ WF_vars(\E r \in Requests : \/ p_sendRequest_NotConnected(r)
                                   \/ p_sendRequest_NoStream(r)
                                   \/ p_sendRequest(r))
    /\ \A r \in Requests :
          WF_vars(\E late \in SUBSET Requests : conn[r].mapped /\ r \in late /\ update(late))

FairSpec == Spec /\ Fairness

-----------------------------------------------------------------------------
(* Properties. *)

Terminal == {"finish", "fail", "redirect"}

\* The contract of ConnectionDelegate: a response comes first and once, the data
\* follows in the order it was received and without gaps, and after a finish, an
\* error or a redirect the delegate hears nothing more, although the timer, the
\* library and the socket can each end a request.
CallsWellFormed ==
    \A r \in Requests :
        LET calls == conn[r].calls IN
        \A i \in DOMAIN calls :
            /\ calls[i].kind \in Terminal => i = Len(calls)
            /\ calls[i].kind = "response" => i = 1
            /\ calls[i].kind = "data" => /\ calls[1].kind = "response"
                                         /\ calls[i].chunk = i - 1
            /\ calls[i].kind = "finish" => calls[1].kind = "response"

\* What the delegate of a request has heard.
Heard(r) ==
    LET calls == conn[r].calls
    IN  [heard |-> {calls[i].kind : i \in DOMAIN calls},
         pieces |-> Cardinality({i \in DOMAIN calls : calls[i].kind = "data"})]

Contract == INSTANCE LoadContract WITH told <- [r \in Requests |-> Heard(r)]

\* The session, its streams and their connections implement LoadContract: no timer,
\* packet, socket error or reconnection tells a delegate more after the end, and
\* none takes back or repeats a response.
ImplementsContract == Contract!Spec

\* A request that finishes has passed on all the data its stream has received,
\* including what came before the headers and was cached.
NothingHeldBack ==
    \A r \in Requests :
        LET calls == conn[r].calls IN
        calls # <<>> /\ calls[Len(calls)].kind = "finish" => Len(calls) = conn[r].received + 2

\* What update and onQUICError walk through is alive: the QUICConnection is anchored
\* and the stream belongs to the session, unless the session was destroyed while
\* its handshake was being repeated.
DelegatesAlive ==
    \A r \in Requests : conn[r].mapped =>
        /\ conn[r].anchored
        /\ conn[r].stream = "open" \/ r \in orphans

\* A request that left the queue is in the map, or its delegate has been told how it
\* ended; only p_sendRequest forgets requests.
NeverForgotten ==
    \A r \in Requests :
        \/ conn[r] = Fresh
        \/ \E i \in DOMAIN queue : queue[i] = [op |-> "send", req |-> r]
        \/ conn[r].mapped
        \/ r \in dropped
        \/ \E i \in DOMAIN conn[r].calls : conn[r].calls[i].kind \in Terminal

\* A request that got a stream ends: the 20 second timer catches every stream that
\* the library and the socket leave alone, whatever session it belonged to.
StreamsEnd == \A r \in Requests : conn[r].mapped ~> ~conn[r].mapped
=============================================================================
