------------------------- MODULE QuicSessionProofs -------------------------
(***************************************************************************)
(* Proofs about QuicSession, for any number of requests, of data frames    *)
(* and of queued blocks.                                                   *)
(*                                                                         *)
(* The invariant says in which phase of its life every request is: not yet *)
(* sent, with its stream in the map, or over.  The phase fixes what its    *)
(* delegate has been told and what its stream caches, so that every handler *)
(* of a stream can be proved about on its own; the session, the queue and  *)
(* the two histories only decide which phases can meet.  That the session  *)
(* implements LoadContract needs one thing more: whatever a handler does,  *)
(* it adds to the calls a delegate has heard.                              *)
(***************************************************************************)
EXTENDS QuicSession, SequenceFacts

-----------------------------------------------------------------------------
(* The invariant. *)

Answer == [kind |-> "response", chunk |-> 0]
Piece(n) == [kind |-> "data", chunk |-> n]
Last(kind) == [kind |-> kind, chunk |-> 0]

\* A response and the first n pieces of its data.
Begun(n) == [i \in 1 .. n + 1 |-> IF i = 1 THEN Answer ELSE Piece(i - 1)]

\* The pieces after n, up to m.
Kept(n, m) == [i \in 1 .. m - n |-> n + i]

\* Queued for the session thread, or dropped by it.
Waiting == [Fresh EXCEPT !.anchored = TRUE]

\* No headers yet: the delegate has been told nothing and all data is cached.
BeforeHeaders(c) == ~c.headers /\ c.calls = <<>> /\ c.cache = Kept(0, c.received)

\* The delegate has the response and some data, the cache has the rest.
AfterHeaders(c) ==
    c.headers /\ \E n \in 0 .. c.received : c.calls = Begun(n) /\ c.cache = Kept(n, c.received)

AfterRedirect(c) == c.headers /\ c.calls = <<Last("redirect")>>

\* In the map.
Served(c) ==
    /\ c.mapped
    /\ c.anchored
    /\ ~c.failed
    /\ c.stream # "none"
    /\ BeforeHeaders(c) \/ AfterHeaders(c) \/ AfterRedirect(c)

\* Redirected or failed before or after the response, or finished with all the data.
EndOf(c) ==
    \/ c.calls = <<Last("redirect")>>
    \/ c.calls = <<Last("fail")>>
    \/ \E n \in 0 .. MaxChunks : c.calls = Append(Begun(n), Last("fail"))
    \/ c.calls = Append(Begun(c.received), Last("finish")) /\ c.stream = "gone"

\* Out of the map again.
Over(c) ==
    /\ ~c.mapped
    /\ c.stream # "none"
    /\ c.stream = "open" => c.failed
    /\ EndOf(c)

\* The life of a request.
Phase(c) == c = Fresh \/ c = Waiting \/ Served(c) \/ Over(c)

PhaseInv == \A r \in Requests : Phase(conn[r])

\* Streams are open only while there is a session, and those in the map that are
\* gone went down with a session.
StreamInv ==
    /\ session \in {"none", "closed"} => \A r \in Requests : conn[r].stream # "open"
    /\ \A r \in Requests : conn[r].mapped /\ conn[r].stream = "gone" => r \in orphans

SendOf(r) == [op |-> "send", req |-> r]

Has(s, x) == \E i \in DOMAIN s : s[i] = x
Once(s, x) == \A i, j \in DOMAIN s : s[i] = x /\ s[j] = x => i = j

\* A request waits exactly while its block is queued, once, or after it was dropped.
QueueInv ==
    \A r \in Requests :
        /\ conn[r] = Waiting <=> r \in dropped \/ Has(queue, SendOf(r))
        /\ r \in dropped => ~Has(queue, SendOf(r))
        /\ Once(queue, SendOf(r))

QuicInv == TypeOK /\ PhaseInv /\ StreamInv /\ QueueInv

-----------------------------------------------------------------------------
(* What is told and what is cached. *)

LEMMA MaxChunksNat == MaxChunks \in Nat
BY QuicAssumption

\* The calls of a response whose first pieces have been passed on.
LEMMA BegunFacts ==
    ASSUME NEW n \in 0 .. MaxChunks
    PROVE  /\ Begun(n) \in Seq(Call)
           /\ Len(Begun(n)) = n + 1
           /\ DOMAIN Begun(n) = 1 .. n + 1
           /\ Begun(n)[1] = Answer
           /\ \A i \in 2 .. n + 1 : Begun(n)[i] = Piece(i - 1)
           /\ \A i \in 1 .. n + 1 : Begun(n)[i].kind \notin {"redirect", "finish", "fail"}
<1>1. n \in Nat /\ n <= MaxChunks
  BY MaxChunksNat
<1>2. DOMAIN Begun(n) = 1 .. n + 1 /\ Begun(n)[1] = Answer
  BY <1>1 DEF Begun
<1>3. \A i \in 2 .. n + 1 : Begun(n)[i] = Piece(i - 1)
  BY <1>1 DEF Begun
<1>4. \A i \in 2 .. n + 1 : Piece(i - 1) \in Call
  BY <1>1, MaxChunksNat DEF Piece, Call
<1>5. Answer \in Call
  BY DEF Answer, Call
<1>6. \A i \in 1 .. n + 1 : i = 1 \/ i \in 2 .. n + 1
  BY <1>1
<1>7. \A i \in 1 .. n + 1 : (IF i = 1 THEN Answer ELSE Piece(i - 1)) \in Call
  BY <1>4, <1>5, <1>6
<1>8. Begun(n) \in [1 .. n + 1 -> Call]
  BY <1>7 DEF Begun
<1>9. Begun(n) \in Seq(Call) /\ Len(Begun(n)) = n + 1
  BY <1>1, <1>8
<1>10. \A i \in 1 .. n + 1 : Begun(n)[i].kind \notin {"redirect", "finish", "fail"}
  <2> TAKE i \in 1 .. n + 1
  <2>1. CASE i = 1
    BY <1>2, <2>1 DEF Answer
  <2>2. CASE i \in 2 .. n + 1
    <3>1. Piece(i - 1).kind = "data"
      BY DEF Piece
    <3> QED BY <1>3, <2>2, <3>1
  <2> QED BY <1>6, <2>1, <2>2
<1> QED BY <1>2, <1>3, <1>9, <1>10

\* One more piece, and the first one.
LEMMA BegunGrows ==
    /\ Begun(0) = <<Answer>>
    /\ \A n \in 0 .. MaxChunks : n < MaxChunks => Append(Begun(n), Piece(n + 1)) = Begun(n + 1)
<1>1. Begun(0) = <<Answer>>
  BY DEF Begun
<1>2. ASSUME NEW n \in 0 .. MaxChunks, n < MaxChunks
      PROVE  Append(Begun(n), Piece(n + 1)) = Begun(n + 1)
  <2> DEFINE s == Begun(n)
             u == Begun(n + 1)
             a == Append(s, Piece(n + 1))
  <2>1. n \in Nat /\ n + 1 \in 0 .. MaxChunks
    BY <1>2, MaxChunksNat
  <2>2. /\ s \in Seq(Call) /\ Len(s) = n + 1
        /\ s[1] = Answer /\ \A i \in 2 .. n + 1 : s[i] = Piece(i - 1)
    BY BegunFacts
  <2>3. /\ u \in Seq(Call) /\ Len(u) = n + 2
        /\ u[1] = Answer /\ \A i \in 2 .. n + 2 : u[i] = Piece(i - 1)
    <3>1. n + 1 + 1 = n + 2
      BY <2>1
    <3> HIDE DEF u
    <3> QED BY <2>1, <3>1, BegunFacts DEF u
  <2>4. Piece(n + 1) \in Call
    BY <2>1 DEF Piece, Call
  <2> HIDE DEF s, u
  <2>5. /\ a \in Seq(Call) /\ Len(a) = n + 2
        /\ \A i \in 1 .. n + 1 : a[i] = s[i]
        /\ a[n + 2] = Piece(n + 1)
    BY <2>1, <2>2, <2>4
  <2> HIDE DEF a
  <2>6. \A i \in 1 .. n + 2 : a[i] = u[i]
    <3> TAKE i \in 1 .. n + 2
    <3>1. CASE i = 1
      <4>1. 1 \in 1 .. n + 1
        BY <2>1
      <4>2. a[1] = Answer
        BY <2>2, <2>5, <4>1
      <4> QED BY <2>3, <3>1, <4>2
    <3>2. CASE i \in 2 .. n + 1
      <4>1. i \in 1 .. n + 1 /\ i \in 2 .. n + 2
        BY <2>1, <3>2
      <4> QED BY <2>2, <2>3, <2>5, <3>2, <4>1
    <3>3. CASE i = n + 2
      <4>1. (n + 2) - 1 = n + 1 /\ n + 2 \in 2 .. n + 2
        BY <2>1
      <4> QED BY <2>3, <2>5, <3>3, <4>1
    <3> QED BY <2>1, <3>1, <3>2, <3>3
  <2>7. a = u
    <3>1. \A i \in 1 .. Len(a) : a[i] = u[i]
      BY <2>5, <2>6
    <3> QED BY <2>3, <2>5, <3>1, SeqEqual
  <2> QED BY <2>7 DEF a, s, u
<1> QED BY <1>1, <1>2

\* A function on 1 .. k is a sequence, and a sequence is such a function.
LEMMA AsSequence ==
    ASSUME NEW S, NEW k \in Nat, NEW f \in [1 .. k -> S]
    PROVE  f \in Seq(S) /\ Len(f) = k
OBVIOUS

LEMMA AsFunction ==
    ASSUME NEW S, NEW s \in Seq(S)
    PROVE  \E k \in Nat : s \in [1 .. k -> S]
<1>1. Len(s) \in Nat /\ s \in [1 .. Len(s) -> S]
  OBVIOUS
<1> QED BY <1>1

\* The cached pieces are in order, and grow at the end.
LEMMA KeptFacts ==
    ASSUME NEW m \in 0 .. MaxChunks, NEW n \in 0 .. m
    PROVE  /\ Kept(n, m) \in Seq(1 .. MaxChunks)
           /\ DOMAIN Kept(n, m) = 1 .. m - n
           /\ \A i \in 1 .. m - n : Kept(n, m)[i] = n + i
           /\ Kept(m, m) = <<>>
           /\ m < MaxChunks => Append(Kept(n, m), m + 1) = Kept(n, m + 1)
<1>1. n \in Nat /\ m \in Nat /\ n <= m /\ m <= MaxChunks /\ m - n \in Nat
  BY MaxChunksNat
<1>2. /\ DOMAIN Kept(n, m) = 1 .. m - n
      /\ \A i \in 1 .. m - n : Kept(n, m)[i] = n + i
  BY <1>1 DEF Kept
<1>3. \A i \in 1 .. m - n : n + i \in 1 .. MaxChunks
  BY <1>1, MaxChunksNat
<1>4. Kept(n, m) \in Seq(1 .. MaxChunks) /\ Len(Kept(n, m)) = m - n
  <2> DEFINE k == m - n
  <2>1. Kept(n, m) \in [1 .. k -> 1 .. MaxChunks]
    BY <1>3 DEF Kept
  <2>2. k \in Nat
    BY <1>1
  <2> HIDE DEF k
  <2>3. Kept(n, m) \in Seq(1 .. MaxChunks) /\ Len(Kept(n, m)) = k
    BY <2>1, <2>2, AsSequence
  <2> QED BY <2>3 DEF k
<1>5. Kept(m, m) = <<>>
  BY <1>1 DEF Kept
<1>6. ASSUME m < MaxChunks PROVE Append(Kept(n, m), m + 1) = Kept(n, m + 1)
  <2> DEFINE s == Kept(n, m)
             u == Kept(n, m + 1)
             a == Append(s, m + 1)
             k == m - n
  <2>1. k \in Nat /\ n + (k + 1) = m + 1 /\ (m + 1) - n = k + 1 /\ m + 1 \in 1 .. MaxChunks
    BY <1>1, <1>6, MaxChunksNat
  <2>2. /\ s \in Seq(1 .. MaxChunks) /\ Len(s) = k
        /\ \A i \in 1 .. k : s[i] = n + i
    BY <1>2, <1>4
  <2>3. u = [i \in 1 .. k + 1 |-> n + i]
    BY <2>1 DEF Kept
  <2> HIDE DEF s, u, k
  <2>4. /\ a \in Seq(1 .. MaxChunks) /\ Len(a) = k + 1
        /\ \A i \in 1 .. k : a[i] = s[i]
        /\ a[k + 1] = m + 1
    BY <2>1, <2>2
  <2> HIDE DEF a
  <2>5. \A i \in 1 .. k + 1 : a[i] = n + i
    <3> TAKE i \in 1 .. k + 1
    <3>1. CASE i \in 1 .. k
      BY <2>2, <2>4, <3>1
    <3>2. CASE i = k + 1
      BY <2>1, <2>4, <3>2
    <3> QED BY <2>1, <3>1, <3>2
  <2>6. a = u
    BY <2>1, <2>3, <2>4, <2>5
  <2> QED BY <2>6 DEF a, u, s
<1> QED BY <1>2, <1>4, <1>5, <1>6

\* The calls that pass a sequence of pieces on.
Pieces(s) == [i \in DOMAIN s |-> [kind |-> "data", chunk |-> s[i]]]

\* Flushing the cache passes on what was received and not yet told.
LEMMA FlushTells ==
    ASSUME NEW m \in 0 .. MaxChunks, NEW n \in 0 .. m
    PROVE  Begun(n) \o Pieces(Kept(n, m)) = Begun(m)
<1> DEFINE k == m - n
           s == Begun(n)
           u == Pieces(Kept(n, m))
           v == Begun(m)
           c == s \o u
<1>1. /\ n \in Nat /\ m \in Nat /\ n <= m /\ m <= MaxChunks /\ k \in Nat
      /\ n \in 0 .. MaxChunks /\ (n + 1) + k = m + 1
  BY MaxChunksNat
<1>2. /\ s \in Seq(Call) /\ Len(s) = n + 1
      /\ s[1] = Answer /\ \A i \in 2 .. n + 1 : s[i] = Piece(i - 1)
  BY <1>1, BegunFacts
<1>3. /\ v \in Seq(Call) /\ Len(v) = m + 1
      /\ v[1] = Answer /\ \A i \in 2 .. m + 1 : v[i] = Piece(i - 1)
  BY <1>1, BegunFacts
<1>4. DOMAIN u = 1 .. k /\ \A i \in 1 .. k : u[i] = Piece(n + i)
  BY KeptFacts DEF Pieces, Piece
<1>5. \A i \in 1 .. k : Piece(n + i) \in Call
  BY <1>1, MaxChunksNat DEF Piece, Call
<1>6. u \in Seq(Call) /\ Len(u) = k
  <2>1. u = [i \in 1 .. k |-> u[i]]
    BY <1>4 DEF Pieces
  <2>2. u \in [1 .. k -> Call]
    BY <1>4, <1>5, <2>1
  <2> QED BY <1>1, <2>2
<1> HIDE DEF s, u, v, k
<1>7. /\ c \in Seq(Call) /\ Len(c) = m + 1
      /\ \A i \in 1 .. n + 1 : c[i] = s[i]
      /\ \A i \in 1 .. k : c[(n + 1) + i] = u[i]
  <2>0. s \in Seq(Call) /\ u \in Seq(Call) /\ Len(s) = n + 1 /\ Len(u) = k
    BY <1>2, <1>6
  <2>1. /\ c \in Seq(Call) /\ Len(c) = Len(s) + Len(u)
        /\ \A i \in 1 .. Len(s) + Len(u) : c[i] = IF i <= Len(s) THEN s[i] ELSE u[i - Len(s)]
    BY ONLY <2>0, ConcatProperties, Zenon
  <2>2. \A i \in 1 .. (n + 1) + k : c[i] = IF i <= n + 1 THEN s[i] ELSE u[i - (n + 1)]
    <3> HIDE DEF c
    <3> QED BY ONLY <2>0, <2>1
  <2> HIDE DEF c
  <2>3. \A i \in 1 .. n + 1 : c[i] = s[i]
    <3> TAKE i \in 1 .. n + 1
    <3>1. i \in 1 .. (n + 1) + k /\ i <= n + 1
      BY <1>1
    <3> QED BY <2>2, <3>1
  <2>4. \A i \in 1 .. k : c[(n + 1) + i] = u[i]
    <3> TAKE i \in 1 .. k
    <3>1. /\ (n + 1) + i \in 1 .. (n + 1) + k /\ ~((n + 1) + i <= n + 1)
          /\ ((n + 1) + i) - (n + 1) = i
      BY <1>1
    <3> QED BY <2>2, <3>1
  <2> QED BY <1>1, <2>0, <2>1, <2>3, <2>4
<1> HIDE DEF c
<1>8. \A i \in 1 .. m + 1 : c[i] = v[i]
  <2> TAKE i \in 1 .. m + 1
  <2>1. CASE i = 1
    <3>1. 1 \in 1 .. n + 1
      BY <1>1
    <3>2. c[1] = Answer
      BY <1>2, <1>7, <3>1
    <3> QED BY <1>3, <2>1, <3>2
  <2>2. CASE i \in 2 .. n + 1
    <3>1. i \in 1 .. n + 1 /\ i \in 2 .. m + 1
      BY <1>1, <2>2
    <3> QED BY <1>2, <1>3, <1>7, <2>2, <3>1
  <2>3. CASE i > n + 1
    <3> DEFINE j == i - (n + 1)
    <3>1. j \in 1 .. k /\ (n + 1) + j = i /\ n + j = i - 1 /\ i \in 2 .. m + 1
      BY <1>1, <2>3
    <3> HIDE DEF j
    <3>2. c[i] = Piece(n + j)
      BY <1>4, <1>7, <3>1
    <3> QED BY <1>3, <3>1, <3>2
  <2> QED BY <1>1, <2>1, <2>2, <2>3
<1>9. c = v
  <2>1. c \in Seq(Call) /\ v \in Seq(Call) /\ Len(c) = Len(v)
    BY <1>3, <1>7
  <2>2. \A i \in 1 .. Len(c) : c[i] = v[i]
    BY <1>7, <1>8
  <2> QED BY <2>1, <2>2, SeqEqual
<1> QED BY <1>9 DEF c, s, u, v

-----------------------------------------------------------------------------
(* The callbacks of a stream. *)

\* Only a redirect is told on its own and followed by nothing.
LEMMA RedirectedFacts ==
    ASSUME NEW c \in Connection
    PROVE  /\ BeforeHeaders(c) \/ AfterHeaders(c) => ~Redirected(c)
           /\ AfterRedirect(c) => Redirected(c)
<1>1. ASSUME BeforeHeaders(c) PROVE ~Redirected(c)
  BY <1>1 DEF BeforeHeaders, Redirected
<1>2. ASSUME AfterHeaders(c) PROVE ~Redirected(c)
  <2>1. PICK n \in 0 .. c.received : c.calls = Begun(n)
    BY <1>2 DEF AfterHeaders
  <2>2. n \in 0 .. MaxChunks
    BY MaxChunksNat DEF Connection
  <2>3. \A i \in DOMAIN Begun(n) : Begun(n)[i].kind # "redirect"
    BY <2>2, BegunFacts
  <2> QED BY <2>1, <2>3 DEF Redirected
<1>3. ASSUME AfterRedirect(c) PROVE Redirected(c)
  BY <1>3 DEF AfterRedirect, Redirected, Last
<1> QED BY <1>1, <1>2, <1>3

\* One call more.
LEMMA ToldFacts ==
    ASSUME NEW c \in Connection, NEW kind, NEW n, [kind |-> kind, chunk |-> n] \in Call
    PROVE  /\ Told(c, kind, n) \in Connection
           /\ Told(c, kind, n).calls = Append(c.calls, [kind |-> kind, chunk |-> n])
           /\ Told(c, kind, n).cache = c.cache
           /\ Told(c, kind, n).stream = c.stream
           /\ Told(c, kind, n).received = c.received
           /\ Told(c, kind, n).mapped = c.mapped
           /\ Told(c, kind, n).anchored = c.anchored
           /\ Told(c, kind, n).failed = c.failed
           /\ Told(c, kind, n).headers = c.headers
<1>1. Append(c.calls, [kind |-> kind, chunk |-> n]) \in Seq(Call)
  BY DEF Connection
<1> QED BY <1>1 DEF Told, Connection

\* Completed or failed: out of the map, and told so unless it was redirected.
LEMMA EndedFacts ==
    ASSUME NEW c \in Connection, NEW kind \in {"finish", "fail"}
    PROVE  /\ Ended(c, kind) \in Connection
           /\ ~Ended(c, kind).mapped
           /\ Ended(c, kind).stream = c.stream
           /\ Ended(c, kind).received = c.received
           /\ Ended(c, kind).failed = c.failed
           /\ Ended(c, kind).calls = IF c.mapped /\ ~Redirected(c)
                                     THEN Append(c.calls, Last(kind)) ELSE c.calls
<1>1. [kind |-> kind, chunk |-> 0] \in Call
  BY DEF Call
<1> DEFINE t == Told(c, kind, 0)
<1>2. /\ t \in Connection
      /\ t.calls = Append(c.calls, Last(kind))
      /\ t.stream = c.stream /\ t.received = c.received /\ t.failed = c.failed
  BY <1>1, ToldFacts DEF Last
<1> HIDE DEF t
<1> DEFINE e == [t EXCEPT !.mapped = FALSE, !.anchored = FALSE]
           d == [c EXCEPT !.mapped = FALSE]
<1>3. /\ e \in Connection /\ ~e.mapped
      /\ e.stream = t.stream /\ e.received = t.received /\ e.failed = t.failed
      /\ e.calls = t.calls
  BY <1>2 DEF Connection
<1>4. /\ d \in Connection /\ ~d.mapped
      /\ d.stream = c.stream /\ d.received = c.received /\ d.failed = c.failed
      /\ d.calls = c.calls
  BY DEF Connection
<1>5. c.mapped \in BOOLEAN
  BY DEF Connection
<1> HIDE DEF e, d
<1>6. CASE ~c.mapped
  BY <1>6 DEF Ended
<1>7. CASE c.mapped /\ Redirected(c)
  <2>1. Ended(c, kind) = d
    BY <1>7 DEF Ended, d
  <2> QED BY <1>4, <1>7, <2>1
<1>8. CASE c.mapped /\ ~Redirected(c)
  <2>1. Ended(c, kind) = e
    BY <1>8 DEF Ended, e, t
  <2> QED BY <1>2, <1>3, <1>8, <2>1
<1> QED BY <1>5, <1>6, <1>7, <1>8

\* The timer and the socket: a request in the map fails, and is told so.
LEMMA FailFacts ==
    ASSUME NEW c \in Connection, Served(c)
    PROVE  /\ onQUICStreamFailed([c EXCEPT !.failed = TRUE]) \in Connection
           /\ Over(onQUICStreamFailed([c EXCEPT !.failed = TRUE]))
           /\ onQUICStreamFailed([c EXCEPT !.failed = TRUE]).stream = c.stream
<1> DEFINE b == [c EXCEPT !.failed = TRUE]
           e == Ended(b, "fail")
<1>1. /\ b \in Connection /\ b.failed /\ b.mapped
      /\ b.stream = c.stream /\ b.received = c.received /\ b.calls = c.calls
  BY DEF Connection, Served
<1>2. Redirected(b) <=> Redirected(c)
  BY <1>1 DEF Redirected
<1> HIDE DEF b
<1>3. /\ e \in Connection /\ ~e.mapped /\ e.stream = c.stream
      /\ e.failed
      /\ e.calls = IF ~Redirected(c) THEN Append(c.calls, Last("fail")) ELSE c.calls
  BY <1>1, <1>2, EndedFacts
<1> HIDE DEF e
<1>4. EndOf(e)
  <2>1. CASE BeforeHeaders(c)
    <3>1. e.calls = Append(<<>>, Last("fail"))
      BY <1>3, <2>1, RedirectedFacts DEF BeforeHeaders
    <3> QED BY <3>1 DEF EndOf
  <2>2. CASE AfterHeaders(c)
    <3>1. PICK n \in 0 .. c.received : c.calls = Begun(n)
      BY <2>2 DEF AfterHeaders
    <3>2. n \in 0 .. MaxChunks
      BY MaxChunksNat DEF Connection
    <3>3. e.calls = Append(Begun(n), Last("fail"))
      BY <1>3, <2>2, <3>1, RedirectedFacts
    <3> QED BY <3>2, <3>3 DEF EndOf
  <2>3. CASE AfterRedirect(c)
    <3>1. e.calls = <<Last("redirect")>>
      BY <1>3, <2>3, RedirectedFacts DEF AfterRedirect
    <3> QED BY <3>1 DEF EndOf
  <2> QED BY <2>1, <2>2, <2>3 DEF Served
<1>5. Over(e)
  BY <1>3, <1>4 DEF Over, Served
<1>6. onQUICStreamFailed([c EXCEPT !.failed = TRUE]) = e
  BY DEF onQUICStreamFailed, e, b
<1> QED BY <1>3, <1>5, <1>6

\* The timer and the socket on a stream that is in the map.
LEMMA UpdateFacts ==
    ASSUME NEW c \in Connection, Served(c), NEW late \in BOOLEAN
    PROVE  /\ updateStream(c, late) \in Connection
           /\ Served(updateStream(c, late)) \/ Over(updateStream(c, late))
           /\ updateStream(c, late).stream = c.stream
           /\ onSocketError(c) \in Connection
           /\ Over(onSocketError(c))
           /\ onSocketError(c).stream = c.stream
<1>1. ~c.failed
  BY DEF Served
<1>2. onSocketError(c) = onQUICStreamFailed([c EXCEPT !.failed = TRUE])
  BY <1>1 DEF onSocketError
<1> DEFINE u == [c EXCEPT !.timing = TRUE]
<1>3. /\ u \in Connection /\ u.stream = c.stream /\ u.mapped = c.mapped /\ u.anchored = c.anchored
      /\ u.failed = c.failed /\ u.headers = c.headers /\ u.received = c.received
      /\ u.cache = c.cache /\ u.calls = c.calls
  BY DEF Connection
<1> HIDE DEF u
<1>4. Served(u)
  BY <1>3 DEF Served, BeforeHeaders, AfterHeaders, AfterRedirect
<1>5. \/ updateStream(c, late) = u
      \/ updateStream(c, late) = c
      \/ updateStream(c, late) = onQUICStreamFailed([c EXCEPT !.failed = TRUE])
  <2>1. CASE ~c.timing
    BY <1>1, <2>1 DEF updateStream, u
  <2>2. CASE c.timing /\ ~late
    BY <1>1, <2>2 DEF updateStream
  <2>3. CASE c.timing /\ late
    BY <1>1, <2>3 DEF updateStream
  <2> QED BY <2>1, <2>2, <2>3 DEF Connection
<1> QED BY <1>2, <1>3, <1>4, <1>5, FailFacts

\* The headers: a response or a redirect is told first.
LEMMA HeadersFacts ==
    ASSUME NEW c \in Connection, Served(c) \/ Over(c), c.stream = "open", ~c.headers,
           NEW kind \in {"response", "redirect"}
    PROVE  /\ OnInitialHeadersComplete(c, kind) \in Connection
           /\ Served(OnInitialHeadersComplete(c, kind)) \/ Over(OnInitialHeadersComplete(c, kind))
           /\ OnInitialHeadersComplete(c, kind).stream = c.stream
<1>1. CASE Over(c)
  <2>1. OnInitialHeadersComplete(c, kind) = c
    BY <1>1 DEF Over, OnInitialHeadersComplete
  <2> QED BY <1>1, <2>1
<1>2. CASE Served(c)
  <2> DEFINE t == Told(c, kind, 0)
             h == [t EXCEPT !.timing = FALSE, !.headers = TRUE]
  <2>1. [kind |-> kind, chunk |-> 0] \in Call
    BY DEF Call
  <2>2. c.calls = <<>> /\ c.cache = Kept(0, c.received)
    BY <1>2 DEF Served, BeforeHeaders, AfterHeaders, AfterRedirect
  <2>3. /\ t \in Connection
        /\ t.calls = Append(c.calls, [kind |-> kind, chunk |-> 0])
        /\ t.cache = c.cache /\ t.stream = c.stream /\ t.received = c.received
        /\ t.mapped = c.mapped /\ t.anchored = c.anchored /\ t.failed = c.failed
    BY <2>1, ToldFacts
  <2> HIDE DEF t
  <2>4. /\ h \in Connection
        /\ h.calls = t.calls /\ h.cache = t.cache /\ h.stream = t.stream /\ h.received = t.received
        /\ h.mapped = t.mapped /\ h.anchored = t.anchored /\ h.failed = t.failed /\ h.headers
    BY <2>3 DEF Connection
  <2>5. OnInitialHeadersComplete(c, kind) = h
    BY <1>2 DEF Served, OnInitialHeadersComplete, onQUICStreamReceivedResponse, t, h
  <2> HIDE DEF h
  <2>6. h.calls = <<[kind |-> kind, chunk |-> 0]>>
    BY <2>2, <2>3, <2>4
  <2>7. AfterHeaders(h) \/ AfterRedirect(h)
    <3>1. CASE kind = "response"
      <4>1. h.calls = Begun(0) /\ 0 \in 0 .. h.received
        BY <2>4, <2>6, <3>1, BegunGrows DEF Answer, Connection
      <4> QED BY <2>2, <2>3, <2>4, <4>1 DEF AfterHeaders
    <3>2. CASE kind = "redirect"
      BY <2>4, <2>6, <3>2 DEF AfterRedirect, Last
    <3> QED BY <3>1, <3>2
  <2>8. Served(h)
    BY <1>2, <2>3, <2>4, <2>7 DEF Served
  <2> QED BY <2>3, <2>4, <2>5, <2>8
<1> QED BY <1>1, <1>2

\* Flushing empties the cache and tells what it held, in order.
LEMMA FlushFacts ==
    ASSUME NEW c \in Connection
    PROVE  /\ FlushCache(c) \in Connection
           /\ FlushCache(c).cache = <<>>
           /\ FlushCache(c).stream = c.stream
           /\ FlushCache(c).received = c.received
           /\ FlushCache(c).mapped = c.mapped
           /\ FlushCache(c).anchored = c.anchored
           /\ FlushCache(c).failed = c.failed
           /\ FlushCache(c).headers = c.headers
           /\ ~c.mapped \/ AfterRedirect(c) => FlushCache(c).calls = c.calls
           /\ c.mapped /\ AfterHeaders(c) => FlushCache(c).calls = Begun(c.received)
           /\ AfterHeaders(c) \/ AfterRedirect(c) \/ ~c.mapped => Redirected(FlushCache(c)) = Redirected(c)
<1> DEFINE new == IF c.mapped /\ ~Redirected(c) THEN c.calls \o Pieces(c.cache) ELSE c.calls
           f == [c EXCEPT !.calls = new, !.cache = <<>>]
<1>1. c.cache \in Seq(1 .. MaxChunks) /\ c.calls \in Seq(Call) /\ c.received \in 0 .. MaxChunks
  BY DEF Connection
<1>2. Pieces(c.cache) \in Seq(Call)
  <2>1. PICK k \in Nat : c.cache \in [1 .. k -> 1 .. MaxChunks]
    BY <1>1, AsFunction
  <2>2. DOMAIN c.cache = 1 .. k /\ \A i \in 1 .. k : c.cache[i] \in 1 .. MaxChunks
    BY <2>1
  <2>3. \A i \in 1 .. k : [kind |-> "data", chunk |-> c.cache[i]] \in Call
    BY <2>2 DEF Call
  <2>4. Pieces(c.cache) \in [1 .. k -> Call]
    BY <2>2, <2>3 DEF Pieces
  <2> QED BY <2>4, AsSequence
<1>3. new \in Seq(Call)
  BY <1>1, <1>2, ConcatProperties
<1>4. FlushCache(c) = f
  BY DEF FlushCache, Pieces
<1>5. ~c.mapped \/ AfterRedirect(c) => new = c.calls
  BY RedirectedFacts
<1>6. ASSUME c.mapped, AfterHeaders(c) PROVE new = Begun(c.received)
  <2>1. PICK n \in 0 .. c.received : c.calls = Begun(n) /\ c.cache = Kept(n, c.received)
    BY <1>6 DEF AfterHeaders
  <2>2. new = Begun(n) \o Pieces(Kept(n, c.received))
    BY <1>6, <2>1, RedirectedFacts
  <2> QED BY <1>1, <2>2, FlushTells
<1> HIDE DEF new
<1>7. <<>> \in Seq(1 .. MaxChunks)
  OBVIOUS
<1>8. /\ f \in Connection /\ f.calls = new /\ f.cache = <<>>
      /\ f.stream = c.stream /\ f.received = c.received /\ f.mapped = c.mapped
      /\ f.anchored = c.anchored /\ f.failed = c.failed /\ f.headers = c.headers
  BY <1>3, <1>7 DEF Connection
<1> HIDE DEF f
<1>9. ASSUME AfterHeaders(c) \/ AfterRedirect(c) \/ ~c.mapped PROVE Redirected(f) = Redirected(c)
  <2>1. CASE ~c.mapped \/ AfterRedirect(c)
    BY <1>5, <1>8, <2>1 DEF Redirected
  <2>2. CASE c.mapped /\ AfterHeaders(c)
    <3>1. f.calls = Begun(c.received)
      BY <1>6, <1>8, <2>2
    <3>2. \A i \in DOMAIN f.calls : f.calls[i].kind # "redirect"
      BY <1>1, <3>1, BegunFacts
    <3>3. ~Redirected(f)
      BY <3>2 DEF Redirected
    <3>4. ~Redirected(c)
      BY <2>2, RedirectedFacts
    <3> QED BY <3>3, <3>4 DEF Redirected
  <2>3. c.mapped \in BOOLEAN
    BY DEF Connection
  <2> QED BY <1>9, <2>1, <2>2, <2>3
<1> QED BY <1>4, <1>5, <1>6, <1>8, <1>9

\* A data frame: cached before the headers, passed on after them.
LEMMA FrameFacts ==
    ASSUME NEW c \in Connection, Served(c) \/ Over(c), c.stream = "open", c.received < MaxChunks
    PROVE  /\ OnStreamFrame(c) \in Connection
           /\ Served(OnStreamFrame(c)) \/ Over(OnStreamFrame(c))
           /\ OnStreamFrame(c).stream = c.stream
<1> DEFINE n == c.received
           d == should_add_incoming_data(c, Chunk(c))
           e == [d EXCEPT !.received = @ + 1]
           g == [e EXCEPT !.timing = FALSE]
<1>1. n \in 0 .. MaxChunks /\ n + 1 \in 1 .. MaxChunks /\ n + 1 \in 0 .. MaxChunks /\ n \in Nat
  BY MaxChunksNat DEF Connection
<1>2. [kind |-> "data", chunk |-> n + 1] \in Call
  BY <1>1 DEF Call
<1>3. /\ d \in Connection /\ d.received = n /\ d.stream = c.stream
      /\ d.mapped = c.mapped /\ d.anchored = c.anchored /\ d.failed = c.failed /\ d.headers = c.headers
      /\ ~c.mapped => d.calls = c.calls
      /\ c.mapped /\ BeforeHeaders(c) => d.calls = c.calls /\ d.cache = Kept(0, n + 1)
      /\ c.mapped /\ AfterHeaders(c) => d.calls = Begun(n + 1) /\ d.cache = <<>>
      /\ c.mapped /\ AfterRedirect(c) => d.calls = c.calls
  <2>1. CASE ~c.headers
    <3>1. d = [c EXCEPT !.cache = Append(@, n + 1)]
      BY <2>1 DEF should_add_incoming_data, Chunk
    <3>2. Append(c.cache, n + 1) \in Seq(1 .. MaxChunks)
      BY <1>1 DEF Connection
    <3>3. d \in Connection
      BY <3>1, <3>2 DEF Connection
    <3>4. /\ d.received = n /\ d.stream = c.stream
          /\ d.mapped = c.mapped /\ d.anchored = c.anchored /\ d.failed = c.failed
          /\ d.headers = c.headers /\ d.calls = c.calls /\ d.cache = Append(c.cache, n + 1)
      BY <3>1 DEF Connection
    <3>5. BeforeHeaders(c) => d.cache = Kept(0, n + 1)
      <4>1. 0 \in 0 .. n
        BY <1>1
      <4>2. Append(Kept(0, n), n + 1) = Kept(0, n + 1)
        BY <1>1, <4>1, KeptFacts
      <4> QED BY <3>4, <4>2 DEF BeforeHeaders
    <3>6. ~AfterHeaders(c) /\ ~AfterRedirect(c)
      BY <2>1 DEF AfterHeaders, AfterRedirect
    <3> HIDE DEF d
    <3> QED BY <3>3, <3>4, <3>5, <3>6
  <2>2. CASE c.headers
    <3> DEFINE f == FlushCache(c)
    <3>1. d = onQUICStreamReceivedData(f, n + 1)
      BY <2>2 DEF should_add_incoming_data, Chunk
    <3>2. Served(c) \/ ~c.mapped
      BY DEF Over
    <3>3. ~BeforeHeaders(c)
      BY <2>2 DEF BeforeHeaders
    <3>4. c.mapped => AfterHeaders(c) \/ AfterRedirect(c)
      BY <3>2, <3>3 DEF Served
    <3>5. /\ f \in Connection /\ f.cache = <<>> /\ f.stream = c.stream /\ f.received = n
          /\ f.mapped = c.mapped /\ f.anchored = c.anchored /\ f.failed = c.failed
          /\ f.headers = c.headers
          /\ ~c.mapped \/ AfterRedirect(c) => f.calls = c.calls
          /\ c.mapped /\ AfterHeaders(c) => f.calls = Begun(n)
          /\ c.mapped => Redirected(f) = Redirected(c)
      BY <3>2, <3>4, FlushFacts
    <3> HIDE DEF f
    <3>6. CASE ~c.mapped
      BY <3>1, <3>5, <3>6 DEF onQUICStreamReceivedData
    <3>7. CASE c.mapped /\ AfterRedirect(c)
      <4>1. d = f
        BY <3>1, <3>5, <3>7, RedirectedFacts DEF onQUICStreamReceivedData
      <4>2. ~AfterHeaders(c)
        BY <3>7, RedirectedFacts
      <4> HIDE DEF d
      <4> QED BY <3>3, <3>5, <3>7, <4>1, <4>2
    <3>8. CASE c.mapped /\ AfterHeaders(c)
      <4>1. d = Told(f, "data", n + 1)
        BY <3>1, <3>5, <3>8, RedirectedFacts DEF onQUICStreamReceivedData
      <4>2. ~AfterRedirect(c)
        BY <3>8, RedirectedFacts
      <4>3. /\ d \in Connection /\ d.calls = Append(f.calls, [kind |-> "data", chunk |-> n + 1])
            /\ d.cache = f.cache /\ d.received = f.received /\ d.stream = f.stream
            /\ d.mapped = f.mapped /\ d.anchored = f.anchored /\ d.failed = f.failed
            /\ d.headers = f.headers
        BY <1>2, <3>5, <4>1, ToldFacts
      <4>4. Append(Begun(n), Piece(n + 1)) = Begun(n + 1)
        BY <1>1, BegunGrows
      <4>5. d.calls = Begun(n + 1)
        BY <3>5, <3>8, <4>3, <4>4 DEF Piece
      <4> HIDE DEF d
      <4> QED BY <3>3, <3>5, <3>8, <4>2, <4>3, <4>5
    <3>9. c.mapped \in BOOLEAN
      BY DEF Connection
    <3> QED BY <3>4, <3>6, <3>7, <3>8, <3>9
  <2> QED BY <2>1, <2>2 DEF Connection
<1> HIDE DEF d
<1>4. /\ e \in Connection /\ e.received = n + 1 /\ e.stream = c.stream
      /\ e.mapped = c.mapped /\ e.anchored = c.anchored /\ e.failed = c.failed /\ e.headers = c.headers
      /\ e.calls = d.calls /\ e.cache = d.cache
  BY <1>1, <1>3 DEF Connection
<1> HIDE DEF e
<1>5. /\ g \in Connection /\ g.received = n + 1 /\ g.stream = c.stream
      /\ g.mapped = c.mapped /\ g.anchored = c.anchored /\ g.failed = c.failed /\ g.headers = c.headers
      /\ g.calls = d.calls /\ g.cache = d.cache
  BY <1>4 DEF Connection
<1> HIDE DEF g
<1>6. OnStreamFrame(c) = IF c.failed THEN e ELSE g
  BY DEF OnStreamFrame, d, e, g
<1> DEFINE o == OnStreamFrame(c)
<1>7. /\ o \in Connection /\ o.received = n + 1 /\ o.stream = c.stream
      /\ o.mapped = c.mapped /\ o.anchored = c.anchored /\ o.failed = c.failed /\ o.headers = c.headers
      /\ o.calls = d.calls /\ o.cache = d.cache
  BY <1>4, <1>5, <1>6
<1> HIDE DEF o
<1>8. CASE Over(c)
  <2>1. o.calls = c.calls /\ c.stream # "gone"
    BY <1>3, <1>7, <1>8 DEF Over
  <2>2. EndOf(o)
    BY <1>8, <2>1 DEF Over, EndOf
  <2>3. Over(o)
    BY <1>7, <1>8, <2>2 DEF Over
  <2> QED BY <1>7, <2>3 DEF o
<1>9. CASE Served(c)
  <2>1. c.mapped
    BY <1>9 DEF Served
  <2>2. CASE BeforeHeaders(c)
    <3>1. BeforeHeaders(o)
      BY <1>3, <1>7, <2>1, <2>2 DEF BeforeHeaders
    <3>2. Served(o)
      BY <1>7, <1>9, <3>1 DEF Served
    <3> QED BY <1>7, <3>2 DEF o
  <2>3. CASE AfterHeaders(c)
    <3>1. o.calls = Begun(n + 1) /\ o.cache = <<>> /\ n + 1 \in 0 .. o.received
      BY <1>1, <1>3, <1>7, <2>1, <2>3
    <3>2. o.cache = Kept(n + 1, n + 1)
      BY <1>1, <3>1, KeptFacts
    <3>3. AfterHeaders(o)
      BY <1>7, <2>3, <3>1, <3>2 DEF AfterHeaders
    <3>4. Served(o)
      BY <1>7, <1>9, <3>3 DEF Served
    <3> QED BY <1>7, <3>4 DEF o
  <2>4. CASE AfterRedirect(c)
    <3>1. AfterRedirect(o)
      BY <1>3, <1>7, <2>1, <2>4 DEF AfterRedirect
    <3>2. Served(o)
      BY <1>7, <1>9, <3>1 DEF Served
    <3> QED BY <1>7, <3>2 DEF o
  <2> QED BY <1>9, <2>2, <2>3, <2>4 DEF Served
<1> QED BY <1>8, <1>9

\* The library closes a stream: what was cached is passed on before the finish.
LEMMA ClosedFacts ==
    ASSUME NEW c \in Connection, Phase(c)
    PROVE  /\ Closed(c) \in Connection
           /\ Phase(Closed(c))
           /\ Closed(c).stream # "open"
           /\ c.stream # "open" => Closed(c) = c
           /\ c.stream = "open" => Over(Closed(c))
<1>1. CASE c.stream # "open"
  BY <1>1 DEF Closed
<1>2. CASE c.stream = "open"
  <2> DEFINE v == onVisitorSentClose(c)
             o == [v EXCEPT !.stream = "gone"]
  <2>1. Closed(c) = o
    BY <1>2 DEF Closed
  <2>2. SUFFICES /\ v \in Connection /\ ~v.mapped
                 /\ \/ v.calls = <<Last("redirect")>>
                    \/ v.calls = <<Last("fail")>>
                    \/ \E n \in 0 .. MaxChunks : v.calls = Append(Begun(n), Last("fail"))
                    \/ v.calls = Append(Begun(v.received), Last("finish"))
    <3> HIDE DEF v
    <3>1. /\ o \in Connection /\ o.stream = "gone" /\ o.mapped = v.mapped
          /\ o.calls = v.calls /\ o.received = v.received
      BY <2>2 DEF Connection
    <3> HIDE DEF o
    <3>2. EndOf(o)
      BY <2>2, <3>1 DEF EndOf
    <3>3. Over(o)
      BY <2>2, <3>1, <3>2 DEF Over
    <3> QED BY <1>2, <2>1, <3>1, <3>3 DEF Phase
  <2>3. Served(c) \/ Over(c)
    BY <1>2 DEF Phase, Fresh, Waiting
  <2>4. CASE Over(c)
    <3>1. v = c
      BY <1>2, <2>4 DEF onVisitorSentClose, Over
    <3> QED BY <1>2, <2>4, <3>1 DEF Over, EndOf
  <2>5. CASE Served(c)
    <3> DEFINE w == WithResponse(c)
               f == FlushCache(w)
               e == Ended(f, "finish")
    <3>1. v = [e EXCEPT !.timing = FALSE]
      BY <2>5 DEF Served, onVisitorSentClose, onQUICStreamCompleted
    <3>2. /\ w \in Connection /\ Served(w) /\ w.received = c.received
          /\ AfterHeaders(w) \/ AfterRedirect(w)
      <4>1. CASE c.headers
        <5>1. w = c
          BY <4>1 DEF WithResponse
        <5>2. ~BeforeHeaders(c)
          BY <4>1 DEF BeforeHeaders
        <5> QED BY <2>5, <5>1, <5>2 DEF Served
      <4>2. CASE ~c.headers
        <5> DEFINE t == Told(c, "response", 0)
        <5>1. [kind |-> "response", chunk |-> 0] \in Call
          BY DEF Call
        <5>2. c.calls = <<>> /\ c.cache = Kept(0, c.received) /\ c.mapped
          BY <2>5, <4>2 DEF Served, BeforeHeaders, AfterHeaders, AfterRedirect
        <5>3. /\ t \in Connection
              /\ t.calls = Append(c.calls, [kind |-> "response", chunk |-> 0])
              /\ t.cache = c.cache /\ t.stream = c.stream /\ t.received = c.received
              /\ t.mapped = c.mapped /\ t.anchored = c.anchored /\ t.failed = c.failed
          BY <5>1, ToldFacts
        <5>4. w = [t EXCEPT !.headers = TRUE]
          BY <4>2, <5>2 DEF WithResponse, onQUICStreamReceivedResponse
        <5> HIDE DEF t
        <5>5. /\ w \in Connection /\ w.headers
              /\ w.calls = t.calls /\ w.cache = t.cache /\ w.stream = t.stream
              /\ w.received = t.received /\ w.mapped = t.mapped /\ w.anchored = t.anchored
              /\ w.failed = t.failed
          BY <5>3, <5>4 DEF Connection
        <5> HIDE DEF w
        <5>6. w.calls = Begun(0) /\ 0 \in 0 .. w.received
          BY <5>2, <5>3, <5>5, BegunGrows DEF Answer, Connection
        <5>7. AfterHeaders(w)
          BY <5>2, <5>3, <5>5, <5>6 DEF AfterHeaders
        <5>8. Served(w)
          BY <2>5, <5>3, <5>5, <5>7 DEF Served
        <5> QED BY <5>3, <5>5, <5>7, <5>8
      <4> QED BY <4>1, <4>2 DEF Connection
    <3> HIDE DEF w
    <3>3. w.mapped
      BY <3>2 DEF Served
    <3>4. /\ f \in Connection /\ f.received = w.received /\ f.mapped
          /\ AfterRedirect(w) => f.calls = w.calls
          /\ AfterHeaders(w) => f.calls = Begun(w.received)
          /\ Redirected(f) = Redirected(w)
      BY <3>2, <3>3, FlushFacts
    <3> HIDE DEF f
    <3>5. /\ e \in Connection /\ ~e.mapped /\ e.received = f.received
          /\ e.calls = IF ~Redirected(f) THEN Append(f.calls, Last("finish")) ELSE f.calls
      BY <3>4, EndedFacts
    <3> HIDE DEF e
    <3>6. v \in Connection /\ ~v.mapped /\ v.received = e.received /\ v.calls = e.calls
      BY <3>1, <3>5 DEF Connection
    <3> HIDE DEF v
    <3>7. CASE AfterHeaders(w)
      <4>1. ~Redirected(w)
        BY <3>2, <3>7, RedirectedFacts
      <4>2. v.calls = Append(Begun(v.received), Last("finish"))
        BY <3>4, <3>5, <3>6, <3>7, <4>1
      <4> QED BY <3>6, <4>2
    <3>8. CASE AfterRedirect(w)
      <4>1. Redirected(w)
        BY <3>2, <3>8, RedirectedFacts
      <4>2. v.calls = <<Last("redirect")>>
        BY <3>4, <3>5, <3>6, <3>8, <4>1 DEF AfterRedirect
      <4> QED BY <3>6, <4>2
    <3> QED BY <3>2, <3>7, <3>8
  <2> QED BY <2>3, <2>4, <2>5
<1> QED BY <1>1, <1>2

\* A session that is destroyed takes its streams along without a word.
LEMMA FreedFacts ==
    ASSUME NEW c \in Connection, Phase(c)
    PROVE  /\ Freed(c) \in Connection
           /\ Phase(Freed(c))
           /\ Freed(c).stream # "open"
           /\ Freed(c).mapped = c.mapped
           /\ c.stream # "open" => Freed(c) = c
           /\ c.stream = "open" => Freed(c).stream = "gone"
<1>1. CASE c.stream # "open"
  BY <1>1 DEF Freed
<1>2. CASE c.stream = "open"
  <2> DEFINE o == [c EXCEPT !.stream = "gone"]
  <2>1. Freed(c) = o
    BY <1>2 DEF Freed
  <2>2. /\ o \in Connection /\ o.stream = "gone" /\ o.mapped = c.mapped
        /\ o.anchored = c.anchored /\ o.failed = c.failed /\ o.headers = c.headers
        /\ o.received = c.received /\ o.calls = c.calls /\ o.cache = c.cache
    BY DEF Connection
  <2> HIDE DEF o
  <2>3. Served(c) \/ Over(c)
    BY <1>2 DEF Phase, Fresh, Waiting
  <2>4. Served(c) => Served(o)
    BY <2>2 DEF Served, BeforeHeaders, AfterHeaders, AfterRedirect
  <2>5. Over(c) => Over(o)
    BY <1>2, <2>2 DEF Over, EndOf
  <2> QED BY <1>2, <2>1, <2>2, <2>3, <2>4, <2>5 DEF Phase
<1> QED BY <1>1, <1>2

-----------------------------------------------------------------------------
(* The queue. *)

\* What is in a sequence after Append.
LEMMA AppendHas ==
    ASSUME NEW S, NEW s \in Seq(S), NEW b \in S, NEW x
    PROVE  /\ Has(Append(s, b), x) <=> Has(s, x) \/ x = b
           /\ Once(s, x) /\ (x # b \/ ~Has(s, x)) => Once(Append(s, b), x)
<1> DEFINE a == Append(s, b)
           n == Len(s)
<1>1. /\ n \in Nat /\ DOMAIN s = 1 .. n /\ DOMAIN a = 1 .. n + 1
      /\ \A i \in 1 .. n : a[i] = s[i]
      /\ a[n + 1] = b
  OBVIOUS
<1> HIDE DEF a, n
<1>2. \A i \in 1 .. n + 1 : i \in 1 .. n \/ i = n + 1
  BY <1>1
<1>3. 1 .. n \subseteq 1 .. n + 1 /\ n + 1 \in 1 .. n + 1
  BY <1>1
<1>4. Has(a, x) <=> Has(s, x) \/ x = b
  <2>1. ASSUME Has(a, x) PROVE Has(s, x) \/ x = b
    BY <1>1, <1>2, <2>1 DEF Has
  <2>2. ASSUME Has(s, x) PROVE Has(a, x)
    BY <1>1, <1>3, <2>2 DEF Has
  <2>3. ASSUME x = b PROVE Has(a, x)
    BY <1>1, <1>3, <2>3 DEF Has
  <2> QED BY <2>1, <2>2, <2>3
<1>5. ASSUME Once(s, x), x # b \/ ~Has(s, x) PROVE Once(a, x)
  <2> SUFFICES ASSUME NEW i \in 1 .. n + 1, NEW j \in 1 .. n + 1, a[i] = x, a[j] = x
               PROVE  i = j
    BY <1>1 DEF Once
  <2>1. CASE i \in 1 .. n /\ j \in 1 .. n
    BY <1>1, <1>5, <2>1 DEF Once
  <2>2. CASE i = n + 1 /\ j \in 1 .. n
    BY <1>1, <1>5, <2>2 DEF Has
  <2>3. CASE j = n + 1 /\ i \in 1 .. n
    BY <1>1, <1>5, <2>3 DEF Has
  <2> QED BY <1>2, <2>1, <2>2, <2>3
<1> QED BY <1>4, <1>5 DEF a

\* What is in a sequence after its head is taken.
LEMMA TailHas ==
    ASSUME NEW S, NEW s \in Seq(S), s # <<>>, NEW x
    PROVE  /\ Tail(s) \in Seq(S)
           /\ Has(s, x) <=> Has(Tail(s), x) \/ Head(s) = x
           /\ Once(s, x) => Once(Tail(s), x)
           /\ Once(s, x) /\ Head(s) = x => ~Has(Tail(s), x)
<1> DEFINE u == Tail(s)
           n == Len(s)
<1>1. /\ n \in Nat /\ n >= 1 /\ DOMAIN s = 1 .. n /\ DOMAIN u = 1 .. n - 1
      /\ u \in Seq(S)
      /\ \A i \in 1 .. n - 1 : u[i] = s[i + 1]
      /\ Head(s) = s[1]
  OBVIOUS
<1> HIDE DEF u, n
<1>2. \A i \in 1 .. n : i = 1 \/ (i - 1 \in 1 .. n - 1 /\ (i - 1) + 1 = i)
  BY <1>1
<1>3. /\ \A i \in 1 .. n - 1 : i + 1 \in 1 .. n /\ i + 1 # 1
      /\ \A i, j \in 1 .. n - 1 : i + 1 = j + 1 => i = j
      /\ 1 \in 1 .. n
  BY <1>1
<1>4. ASSUME Has(s, x) PROVE Has(u, x) \/ Head(s) = x
  <2>1. PICK i \in 1 .. n : s[i] = x
    BY <1>1, <1>4 DEF Has
  <2>2. CASE i = 1
    BY <1>1, <2>1, <2>2
  <2>3. CASE i - 1 \in 1 .. n - 1 /\ (i - 1) + 1 = i
    <3>1. u[i - 1] = x
      BY <1>1, <2>1, <2>3
    <3> QED BY <1>1, <2>3, <3>1 DEF Has
  <2> QED BY <1>2, <2>2, <2>3
<1>5. ASSUME Has(u, x) \/ Head(s) = x PROVE Has(s, x)
  BY <1>1, <1>3, <1>5 DEF Has
<1>6. ASSUME Once(s, x) PROVE Once(u, x)
  <2> SUFFICES ASSUME NEW i \in 1 .. n - 1, NEW j \in 1 .. n - 1, u[i] = x, u[j] = x
               PROVE  i = j
    BY <1>1 DEF Once
  <2>1. i + 1 \in DOMAIN s /\ j + 1 \in DOMAIN s /\ s[i + 1] = x /\ s[j + 1] = x
    BY <1>1, <1>3
  <2>2. i + 1 = j + 1
    BY <1>6, <2>1 DEF Once
  <2> QED BY <1>3, <2>2
<1>7. ASSUME Once(s, x), Head(s) = x PROVE ~Has(u, x)
  BY <1>1, <1>3, <1>7 DEF Once, Has
<1> QED BY <1>1, <1>4, <1>5, <1>6, <1>7 DEF u

\* The block of one request is not another's, nor a connect.
LEMMA SendFacts ==
    /\ \A r \in Requests : SendOf(r) \in Block
    /\ \A r, m \in Requests : SendOf(r) = SendOf(m) => r = m
    /\ [op |-> "connect"] \in Block
    /\ \A r \in Requests : SendOf(r) # [op |-> "connect"] /\ SendOf(r).op # "connect"
<1>1. \A r \in Requests : SendOf(r).op = "send" /\ SendOf(r).req = r
  BY DEF SendOf
<1>2. \A r \in Requests : SendOf(r) \in Block
  BY DEF SendOf, Block
<1>3. [op |-> "connect"] \in Block
  BY DEF Block
<1> QED BY <1>1, <1>2, <1>3

\* A request whose stream was created waits no longer.
LEMMA PhaseFacts ==
    ASSUME NEW c \in Connection
    PROVE  /\ Served(c) \/ Over(c) => c # Waiting /\ c # Fresh
           /\ Phase(c) /\ c.stream # "none" => Served(c) \/ Over(c)
           /\ Phase(c) /\ c.mapped => Served(c)
           /\ Waiting \in Connection /\ Fresh \in Connection
           /\ Waiting # Fresh
           /\ Waiting.stream = "none" /\ Fresh.stream = "none" /\ ~Waiting.mapped /\ ~Fresh.mapped
<1>1. Waiting \in Connection /\ Fresh \in Connection
  <2>1. <<>> \in Seq(1 .. MaxChunks) /\ <<>> \in Seq(Call) /\ 0 \in 0 .. MaxChunks
    BY MaxChunksNat
  <2> QED BY <2>1 DEF Waiting, Fresh, Connection
<1>2. /\ Waiting.stream = "none" /\ Fresh.stream = "none" /\ ~Waiting.mapped /\ ~Fresh.mapped
      /\ Waiting.anchored /\ ~Fresh.anchored
  BY DEF Waiting, Fresh
<1>3. Waiting # Fresh
  BY <1>2
<1>4. Served(c) \/ Over(c) => c # Waiting /\ c # Fresh
  BY <1>2 DEF Served, Over
<1>5. Phase(c) /\ c.stream # "none" => Served(c) \/ Over(c)
  BY <1>2 DEF Phase
<1>6. Phase(c) /\ c.mapped => Served(c)
  BY <1>2 DEF Phase, Over
<1> QED BY <1>1, <1>2, <1>3, <1>4, <1>5, <1>6

-----------------------------------------------------------------------------
(* The actions. *)

\* A handler moves requests that have had a stream, and no others.
LEMMA HandlerKeeps ==
    ASSUME QuicInv, conn' \in [Requests -> Connection],
           session' \in {"none", "handshaking", "established", "closed"},
           orphans' \subseteq Requests,
           \A r \in Requests : conn'[r] = conn[r]
                                 \/ (conn[r].stream # "none" /\ (Served(conn'[r]) \/ Over(conn'[r])))
    PROVE  /\ PhaseInv'
           /\ \A r \in Requests : conn'[r] = Waiting <=> conn[r] = Waiting
           /\ queue' = queue /\ dropped' = dropped => TypeOK' /\ QueueInv'
<1>1. PhaseInv'
  BY DEF QuicInv, PhaseInv, Phase
<1>2. \A r \in Requests : conn'[r] = Waiting <=> conn[r] = Waiting
  BY PhaseFacts
<1>3. queue' = queue /\ dropped' = dropped => TypeOK'
  BY DEF QuicInv, TypeOK
<1>4. queue' = queue /\ dropped' = dropped => QueueInv'
  BY <1>2 DEF QuicInv, QueueInv
<1> QED BY <1>1, <1>2, <1>3, <1>4

\* A packet for one stream, and the timer, leave every stream where it is.
LEMMA InPlace ==
    ASSUME QuicInv, conn' \in [Requests -> Connection], UNCHANGED <<queue, session, orphans, dropped>>,
           \A r \in Requests :
              \/ conn'[r] = conn[r]
              \/ /\ conn[r].stream # "none" /\ (Served(conn'[r]) \/ Over(conn'[r]))
                 /\ conn'[r].stream = conn[r].stream
                 /\ conn[r].mapped \/ conn[r].stream = "open"
    PROVE  QuicInv'
<1>1. /\ session' \in {"none", "handshaking", "established", "closed"}
      /\ orphans' \subseteq Requests
  BY DEF QuicInv, TypeOK
<1>2. PhaseInv' /\ TypeOK' /\ QueueInv'
  BY <1>1, HandlerKeeps
<1>3. StreamInv'
  <2>1. session' \in {"none", "closed"} => \A r \in Requests : conn'[r].stream # "open"
    BY DEF QuicInv, StreamInv
  <2>2. \A r \in Requests : conn'[r].mapped /\ conn'[r].stream = "gone" => r \in orphans'
    BY DEF QuicInv, StreamInv
  <2> QED BY <2>1, <2>2 DEF StreamInv
<1> QED BY <1>2, <1>3 DEF QuicInv

LEMMA HeadersArriveInv ==
    ASSUME QuicInv, NEW r \in Requests, NEW kind \in {"response", "redirect"}, HeadersArrive(r, kind)
    PROVE  QuicInv'
<1> DEFINE c == conn[r]
           d == OnInitialHeadersComplete(c, kind)
<1>1. conn \in [Requests -> Connection] /\ c \in Connection /\ Phase(c)
  BY DEF QuicInv, TypeOK, PhaseInv
<1>2. c.stream = "open" /\ ~c.headers /\ UNCHANGED <<queue, session, orphans, dropped>>
  BY DEF HeadersArrive
<1>3. d \in Connection /\ (Served(d) \/ Over(d)) /\ d.stream = c.stream
  BY <1>1, <1>2, HeadersFacts, PhaseFacts
<1>4. conn' = [conn EXCEPT ![r] = d]
  BY <1>1 DEF HeadersArrive
<1> HIDE DEF d
<1>5. conn' \in [Requests -> Connection] /\ conn'[r] = d /\ \A m \in Requests \ {r} : conn'[m] = conn[m]
  BY <1>1, <1>3, <1>4
<1> QED BY <1>2, <1>3, <1>5, InPlace

LEMMA DataArrivesInv ==
    ASSUME QuicInv, NEW r \in Requests, DataArrives(r)
    PROVE  QuicInv'
<1> DEFINE c == conn[r]
           d == OnStreamFrame(c)
<1>1. conn \in [Requests -> Connection] /\ c \in Connection /\ Phase(c)
  BY DEF QuicInv, TypeOK, PhaseInv
<1>2. c.stream = "open" /\ c.received < MaxChunks /\ UNCHANGED <<queue, session, orphans, dropped>>
  BY DEF DataArrives
<1>3. d \in Connection /\ (Served(d) \/ Over(d)) /\ d.stream = c.stream
  BY <1>1, <1>2, FrameFacts, PhaseFacts
<1>4. conn' = [conn EXCEPT ![r] = d]
  BY <1>1 DEF DataArrives
<1> HIDE DEF d
<1>5. conn' \in [Requests -> Connection] /\ conn'[r] = d /\ \A m \in Requests \ {r} : conn'[m] = conn[m]
  BY <1>1, <1>3, <1>4
<1> QED BY <1>2, <1>3, <1>5, InPlace

LEMMA updateInv ==
    ASSUME QuicInv, NEW late \in SUBSET Requests, update(late)
    PROVE  QuicInv'
<1>1. conn \in [Requests -> Connection] /\ \A r \in Requests : conn[r] \in Connection /\ Phase(conn[r])
  BY DEF QuicInv, TypeOK, PhaseInv
<1>2. UNCHANGED <<queue, session, orphans, dropped>>
  BY DEF update
<1> DEFINE u(r) == IF conn[r].mapped THEN updateStream(conn[r], r \in late) ELSE conn[r]
<1>3. ASSUME NEW r \in Requests
      PROVE  /\ u(r) \in Connection
             /\ \/ u(r) = conn[r]
                \/ /\ conn[r].stream # "none" /\ (Served(u(r)) \/ Over(u(r)))
                   /\ u(r).stream = conn[r].stream
                   /\ conn[r].mapped
  <2>1. CASE conn[r].mapped
    <3>1. Served(conn[r]) /\ (r \in late) \in BOOLEAN
      BY <1>1, <2>1, PhaseFacts
    <3>2. u(r) = updateStream(conn[r], r \in late)
      BY <2>1
    <3> QED BY <1>1, <2>1, <3>1, <3>2, UpdateFacts DEF Served
  <2>2. CASE ~conn[r].mapped
    BY <1>1, <2>2
  <2> QED BY <2>1, <2>2
<1>4. conn' = [r \in Requests |-> u(r)]
  BY DEF update
<1> HIDE DEF u
<1>5. conn' \in [Requests -> Connection] /\ \A r \in Requests : conn'[r] = u(r)
  BY <1>3, <1>4
<1> QED BY <1>2, <1>3, <1>5, InPlace

\* Streams are closed, one or all.
LEMMA ClosingInv ==
    ASSUME QuicInv, conn' \in [Requests -> Connection], UNCHANGED <<queue, orphans, dropped>>,
           session' \in {"none", "handshaking", "established", "closed"},
           \A r \in Requests : conn'[r] = conn[r] \/ conn'[r] = Closed(conn[r]),
           session' = session \/ \A r \in Requests : conn'[r] = Closed(conn[r])
    PROVE  QuicInv'
<1>1. \A r \in Requests : conn[r] \in Connection /\ Phase(conn[r])
  BY DEF QuicInv, TypeOK, PhaseInv
<1>2. orphans' \subseteq Requests
  BY DEF QuicInv, TypeOK
<1>3. \A r \in Requests : conn'[r] = conn[r]
                            \/ (conn[r].stream = "open" /\ Over(conn'[r]) /\ conn'[r].stream # "open")
  BY <1>1, ClosedFacts
<1>4. PhaseInv' /\ TypeOK' /\ QueueInv'
  BY <1>2, <1>3, HandlerKeeps
<1>5. session' \in {"none", "closed"} => \A r \in Requests : conn'[r].stream # "open"
  <2>1. CASE session' = session
    BY <1>3, <2>1 DEF QuicInv, StreamInv
  <2>2. CASE \A r \in Requests : conn'[r] = Closed(conn[r])
    BY <1>1, <2>2, ClosedFacts
  <2> QED BY <2>1, <2>2
<1>6. \A r \in Requests : conn'[r].mapped /\ conn'[r].stream = "gone" => r \in orphans'
  BY <1>3 DEF QuicInv, StreamInv, Over
<1> QED BY <1>4, <1>5, <1>6 DEF QuicInv, StreamInv

LEMMA StreamClosesInv ==
    ASSUME QuicInv, NEW r \in Requests, StreamCloses(r)
    PROVE  QuicInv'
<1>1. conn \in [Requests -> Connection] /\ conn[r] \in Connection /\ Phase(conn[r])
  BY DEF QuicInv, TypeOK, PhaseInv
<1>2. Closed(conn[r]) \in Connection
  BY <1>1, ClosedFacts
<1>3. conn' = [conn EXCEPT ![r] = Closed(conn[r])] /\ UNCHANGED <<queue, session, orphans, dropped>>
  BY <1>1 DEF StreamCloses
<1>4. /\ conn' \in [Requests -> Connection] /\ conn'[r] = Closed(conn[r])
      /\ \A m \in Requests \ {r} : conn'[m] = conn[m]
  BY <1>1, <1>2, <1>3
<1>5. session' \in {"none", "handshaking", "established", "closed"}
  BY <1>3 DEF QuicInv, TypeOK
<1> QED BY <1>3, <1>4, <1>5, ClosingInv

LEMMA ConnectionClosesInv ==
    ASSUME QuicInv, ConnectionCloses
    PROVE  QuicInv'
<1>1. \A r \in Requests : conn[r] \in Connection /\ Phase(conn[r])
  BY DEF QuicInv, TypeOK, PhaseInv
<1>2. \A r \in Requests : Closed(conn[r]) \in Connection
  BY <1>1, ClosedFacts
<1>3. /\ conn' = [r \in Requests |-> Closed(conn[r])] /\ UNCHANGED <<queue, orphans, dropped>>
      /\ session' = "closed"
  BY DEF ConnectionCloses
<1>4. conn' \in [Requests -> Connection] /\ \A r \in Requests : conn'[r] = Closed(conn[r])
  BY <1>2, <1>3
<1> QED BY <1>3, <1>4, ClosingInv

\* p_disconnect leaves no stream open, and in the map only those it frees.
LEMMA DisconnectedFacts ==
    ASSUME QuicInv, NEW r \in Requests
    PROVE  /\ Disconnected[r] \in Connection
           /\ Phase(Disconnected[r])
           /\ Disconnected[r].stream # "open"
           /\ conn[r].stream # "open" => Disconnected[r] = conn[r]
           /\ conn[r].stream = "open" => Served(Disconnected[r]) \/ Over(Disconnected[r])
           /\ Disconnected[r].mapped => conn[r].mapped
           /\ Disconnected[r].mapped /\ conn[r].stream = "open" => r \in Orphaned
<1>1. conn[r] \in Connection /\ Phase(conn[r])
  BY DEF QuicInv, TypeOK, PhaseInv
<1>2. CASE p_connected
  <2>1. Disconnected[r] = Closed(conn[r])
    BY <1>2 DEF Disconnected
  <2>2. conn[r].stream = "open" => ~Disconnected[r].mapped
    BY <1>1, <2>1, ClosedFacts DEF Over
  <2> QED BY <1>1, <2>1, <2>2, ClosedFacts
<1>3. CASE ~p_connected
  <2>1. Disconnected[r] = Freed(conn[r])
    BY <1>3 DEF Disconnected
  <2>2. conn[r].stream = "open" => session = "handshaking"
    BY <1>3 DEF QuicInv, TypeOK, StreamInv, p_connected
  <2>3. /\ Freed(conn[r]) \in Connection /\ Phase(Freed(conn[r])) /\ Freed(conn[r]).stream # "open"
        /\ Freed(conn[r]).mapped = conn[r].mapped
        /\ conn[r].stream # "open" => Freed(conn[r]) = conn[r]
        /\ conn[r].stream = "open" => Freed(conn[r]).stream = "gone"
    BY <1>1, FreedFacts
  <2>4. conn[r].stream = "open" => Served(Freed(conn[r])) \/ Over(Freed(conn[r]))
    BY <2>3, PhaseFacts
  <2>5. conn[r].stream = "open" /\ conn[r].mapped => r \in Orphaned
    BY <2>2 DEF Orphaned
  <2> QED BY <2>1, <2>3, <2>4, <2>5
<1> QED BY <1>2, <1>3

\* The socket fails: nothing is left in the map.
LEMMA onQUICErrorInv ==
    ASSUME QuicInv, onQUICError
    PROVE  QuicInv'
<1> DEFINE d(r) == Disconnected[r]
           e(r) == IF d(r).mapped THEN onSocketError(d(r)) ELSE d(r)
<1>1. /\ session' = "none" /\ UNCHANGED <<queue, orphans, dropped>>
      /\ conn' = [r \in Requests |-> e(r)]
  BY DEF onQUICError
<1>2. ASSUME NEW r \in Requests
      PROVE  /\ e(r) \in Connection
             /\ e(r).stream # "open"
             /\ ~e(r).mapped
             /\ e(r) = conn[r] \/ (conn[r].stream # "none" /\ (Served(e(r)) \/ Over(e(r))))
  <2> HIDE DEF d
  <2>1. /\ d(r) \in Connection /\ Phase(d(r)) /\ d(r).stream # "open"
        /\ conn[r].stream # "open" => d(r) = conn[r]
        /\ conn[r].stream = "open" => Served(d(r)) \/ Over(d(r))
        /\ d(r).mapped => conn[r].mapped
    BY DisconnectedFacts DEF d
  <2>2. conn[r] \in Connection /\ Phase(conn[r])
    BY DEF QuicInv, TypeOK, PhaseInv
  <2>3. CASE d(r).mapped
    <3>1. Served(d(r)) /\ Served(conn[r])
      BY <2>1, <2>2, <2>3, PhaseFacts
    <3>2. e(r) = onSocketError(d(r))
      BY <2>3
    <3>3. e(r) \in Connection /\ Over(e(r)) /\ e(r).stream = d(r).stream
      BY <2>1, <3>1, <3>2, UpdateFacts
    <3> QED BY <2>1, <3>1, <3>3 DEF Over, Served
  <2>4. CASE ~d(r).mapped
    BY <2>1, <2>4
  <2> QED BY <2>3, <2>4
<1> HIDE DEF e
<1>3. conn' \in [Requests -> Connection] /\ \A r \in Requests : conn'[r] = e(r)
  BY <1>1, <1>2
<1>4. orphans' \subseteq Requests
  BY <1>1 DEF QuicInv, TypeOK
<1>5. PhaseInv' /\ TypeOK' /\ QueueInv'
  BY <1>1, <1>2, <1>3, <1>4, HandlerKeeps
<1>6. StreamInv'
  BY <1>2, <1>3 DEF StreamInv
<1> QED BY <1>5, <1>6 DEF QuicInv

\* p_connect: the head of the queue is no request's block.
LEMMA p_connectInv ==
    ASSUME QuicInv, NEW outcome \in {"none", "handshaking", "established"}, p_connect(outcome)
    PROVE  QuicInv'
<1>1. /\ queue # <<>> /\ Head(queue).op = "connect" /\ queue' = Tail(queue) /\ session' = outcome
      /\ dropped' = dropped
      /\ conn' = IF session = "none" THEN conn ELSE Disconnected
      /\ orphans' = IF session = "none" THEN orphans ELSE orphans \cup Orphaned
  BY DEF p_connect
<1>2. /\ queue \in Seq(Block) /\ conn \in [Requests -> Connection]
      /\ orphans \subseteq Requests /\ dropped \subseteq Requests
  BY DEF QuicInv, TypeOK
<1>3. orphans' \subseteq Requests
  BY <1>1, <1>2 DEF Orphaned
<1>4. conn' \in [Requests -> Connection]
  <2>1. Disconnected \in [Requests -> Connection]
    <3>1. Disconnected = [r \in Requests |-> Disconnected[r]]
      BY DEF Disconnected
    <3> QED BY <3>1, DisconnectedFacts
  <2> QED BY <1>1, <1>2, <2>1
<1>5. \A r \in Requests :
        /\ conn'[r].stream # "open"
        /\ conn'[r].mapped /\ conn'[r].stream = "gone" => r \in orphans'
        /\ conn'[r] = conn[r]
             \/ (conn[r].stream # "none" /\ (Served(conn'[r]) \/ Over(conn'[r])))
  <2>1. CASE session = "none"
    BY <1>1, <2>1 DEF QuicInv, StreamInv
  <2>2. CASE session # "none"
    <3> TAKE r \in Requests
    <3>1. conn'[r] = Disconnected[r] /\ orphans' = orphans \cup Orphaned
      BY <1>1, <2>2
    <3>2. CASE conn[r].stream = "open"
      BY <3>1, <3>2, DisconnectedFacts
    <3>3. CASE conn[r].stream # "open"
      BY <3>1, <3>3, DisconnectedFacts DEF QuicInv, StreamInv
    <3> QED BY <3>2, <3>3
  <2> QED BY <2>1, <2>2
<1>6. session' \in {"none", "handshaking", "established", "closed"}
  BY <1>1
<1>7. PhaseInv' /\ \A r \in Requests : conn'[r] = Waiting <=> conn[r] = Waiting
  BY <1>3, <1>4, <1>5, <1>6, HandlerKeeps
<1>8. StreamInv'
  BY <1>5 DEF StreamInv
<1>9. TypeOK'
  <2>1. queue' \in Seq(Block)
    BY <1>1, <1>2, TailHas
  <2> QED BY <1>1, <1>2, <1>3, <1>4, <1>6, <2>1 DEF TypeOK
<1>10. \A r \in Requests : /\ Has(queue', SendOf(r)) <=> Has(queue, SendOf(r))
                           /\ Once(queue, SendOf(r)) => Once(queue', SendOf(r))
  BY <1>1, <1>2, TailHas, SendFacts
<1>11. QueueInv'
  BY <1>1, <1>7, <1>10 DEF QuicInv, QueueInv
<1> QED BY <1>7, <1>8, <1>9, <1>11 DEF QuicInv

LEMMA reconnectInv ==
    ASSUME QuicInv, reconnect
    PROVE  QuicInv'
<1>1. queue' = Append(queue, [op |-> "connect"]) /\ UNCHANGED <<session, conn, orphans, dropped>>
  BY DEF reconnect
<1>2. queue \in Seq(Block) /\ [op |-> "connect"] \in Block
  BY SendFacts DEF QuicInv, TypeOK
<1>3. TypeOK'
  BY <1>1, <1>2 DEF QuicInv, TypeOK
<1>4. \A r \in Requests : /\ Has(queue', SendOf(r)) <=> Has(queue, SendOf(r))
                          /\ Once(queue, SendOf(r)) => Once(queue', SendOf(r))
  BY <1>1, <1>2, AppendHas, SendFacts
<1> QED BY <1>1, <1>3, <1>4 DEF QuicInv, PhaseInv, StreamInv, QueueInv

LEMMA startWithRequestInv ==
    ASSUME QuicInv, NEW r \in Requests, startWithRequest(r)
    PROVE  QuicInv'
<1>1. /\ conn[r] = Fresh /\ queue' = Append(queue, SendOf(r))
      /\ UNCHANGED <<session, orphans, dropped>>
  BY DEF startWithRequest, SendOf
<1>2. /\ queue \in Seq(Block) /\ conn \in [Requests -> Connection] /\ SendOf(r) \in Block
  BY SendFacts DEF QuicInv, TypeOK
<1>3. conn' = [conn EXCEPT ![r] = Waiting]
  BY <1>1, <1>2 DEF startWithRequest, Waiting
<1>4. /\ Waiting \in Connection /\ Waiting # Fresh /\ ~Waiting.mapped /\ Waiting.stream = "none"
  BY <1>1, <1>2, PhaseFacts
<1>5. /\ conn' \in [Requests -> Connection] /\ conn'[r] = Waiting
      /\ \A m \in Requests \ {r} : conn'[m] = conn[m]
  BY <1>2, <1>3, <1>4
<1>6. TypeOK'
  BY <1>1, <1>2, <1>5 DEF QuicInv, TypeOK
<1>7. PhaseInv'
  BY <1>5 DEF QuicInv, PhaseInv, Phase
<1>8. StreamInv'
  BY <1>1, <1>4, <1>5 DEF QuicInv, StreamInv
<1>9. ~Has(queue, SendOf(r)) /\ r \notin dropped
  BY <1>1, <1>4 DEF QuicInv, QueueInv
<1>10. \A m \in Requests : /\ Has(queue', SendOf(m)) <=> Has(queue, SendOf(m)) \/ m = r
                           /\ Once(queue, SendOf(m)) => Once(queue', SendOf(m))
  BY <1>1, <1>2, <1>9, AppendHas, SendFacts
<1>11. QueueInv'
  BY <1>1, <1>5, <1>9, <1>10 DEF QuicInv, QueueInv
<1> QED BY <1>6, <1>7, <1>8, <1>11 DEF QuicInv

\* A block at the head of the queue is its request's only one.
LEMMA SendingFacts ==
    ASSUME QuicInv, NEW r \in Requests, Sending(r)
    PROVE  /\ conn[r] = Waiting
           /\ r \notin dropped
           /\ Tail(queue) \in Seq(Block)
           /\ \A m \in Requests : /\ Has(Tail(queue), SendOf(m)) <=> Has(queue, SendOf(m)) /\ m # r
                                  /\ Once(Tail(queue), SendOf(m))
<1>1. queue \in Seq(Block) /\ queue # <<>> /\ Head(queue) = SendOf(r)
  BY DEF QuicInv, TypeOK, Sending, SendOf
<1>2. \A m \in Requests : Once(queue, SendOf(m))
  BY DEF QuicInv, QueueInv
<1>3. Has(queue, SendOf(r))
  BY <1>1, TailHas
<1>4. conn[r] = Waiting /\ r \notin dropped
  BY <1>3 DEF QuicInv, QueueInv
<1> QED BY <1>1, <1>2, <1>4, TailHas, SendFacts

\* p_sendRequest returns null: the request is dropped.
LEMMA DroppedInv ==
    ASSUME QuicInv, NEW r \in Requests,
           p_sendRequest_NotConnected(r) \/ p_sendRequest_NoStream(r)
    PROVE  QuicInv'
<1>1. /\ Sending(r) /\ UNCHANGED <<session, conn, orphans>> /\ dropped' = dropped \cup {r}
      /\ queue' = Tail(queue) \/ queue' = Append(Tail(queue), [op |-> "connect"])
  BY DEF p_sendRequest_NotConnected, p_sendRequest_NoStream
<1>2. /\ conn[r] = Waiting /\ r \notin dropped /\ Tail(queue) \in Seq(Block)
      /\ \A m \in Requests : /\ Has(Tail(queue), SendOf(m)) <=> Has(queue, SendOf(m)) /\ m # r
                             /\ Once(Tail(queue), SendOf(m))
  BY <1>1, SendingFacts
<1>3. queue' \in Seq(Block)
  BY <1>1, <1>2, SendFacts
<1>4. \A m \in Requests : /\ Has(queue', SendOf(m)) <=> Has(queue, SendOf(m)) /\ m # r
                          /\ Once(queue', SendOf(m))
  <2>1. CASE queue' = Tail(queue)
    BY <1>2, <2>1
  <2>2. CASE queue' = Append(Tail(queue), [op |-> "connect"])
    <3> DEFINE t == Tail(queue)
               q == Append(t, [op |-> "connect"])
    <3>1. t \in Seq(Block) /\ [op |-> "connect"] \in Block
      BY <1>2, SendFacts
    <3>2. \A m \in Requests : SendOf(m) # [op |-> "connect"]
      BY SendFacts
    <3> HIDE DEF t
    <3>3. \A m \in Requests : /\ Has(q, SendOf(m)) <=> Has(t, SendOf(m))
                              /\ Once(t, SendOf(m)) => Once(q, SendOf(m))
      BY <3>1, <3>2, AppendHas
    <3> HIDE DEF q
    <3> QED BY <1>2, <2>2, <3>3 DEF q, t
  <2> QED BY <1>1, <2>1, <2>2
<1>5. TypeOK'
  BY <1>1, <1>3 DEF QuicInv, TypeOK
<1>6. QueueInv'
  BY <1>1, <1>2, <1>4 DEF QuicInv, QueueInv
<1> QED BY <1>1, <1>5, <1>6 DEF QuicInv, PhaseInv, StreamInv

LEMMA p_sendRequestInv ==
    ASSUME QuicInv, NEW r \in Requests, p_sendRequest(r)
    PROVE  QuicInv'
<1> DEFINE d == [Waiting EXCEPT !.stream = "open", !.mapped = TRUE]
<1>1. /\ Sending(r) /\ session = "established" /\ queue' = Tail(queue)
      /\ UNCHANGED <<session, orphans, dropped>>
  BY DEF p_sendRequest, p_connected
<1>2. /\ conn[r] = Waiting /\ r \notin dropped /\ queue' \in Seq(Block)
      /\ \A m \in Requests : /\ Has(queue', SendOf(m)) <=> Has(queue, SendOf(m)) /\ m # r
                             /\ Once(queue', SendOf(m))
  BY <1>1, SendingFacts
<1>3. conn \in [Requests -> Connection] /\ conn[r] \in Connection
  BY DEF QuicInv, TypeOK
<1>4. conn' = [conn EXCEPT ![r] = d]
  BY <1>2, <1>3 DEF p_sendRequest, d
<1>5. /\ d \in Connection /\ d.stream = "open" /\ d.mapped
      /\ d.anchored /\ ~d.failed /\ ~d.headers /\ d.received = 0 /\ d.cache = <<>> /\ d.calls = <<>>
  <2>1. Waiting \in Connection
    BY <1>3, PhaseFacts
  <2>2. /\ Waiting.anchored /\ ~Waiting.failed /\ ~Waiting.headers /\ Waiting.received = 0
        /\ Waiting.cache = <<>> /\ Waiting.calls = <<>>
    BY DEF Waiting, Fresh
  <2> QED BY <2>1, <2>2 DEF Connection
<1> HIDE DEF d
<1>6. BeforeHeaders(d)
  <2>1. 0 \in 0 .. MaxChunks /\ 0 \in 0 .. 0
    BY MaxChunksNat
  <2>2. Kept(0, 0) = <<>>
    BY <2>1, KeptFacts
  <2> QED BY <1>5, <2>2 DEF BeforeHeaders
<1>7. Served(d)
  BY <1>5, <1>6 DEF Served
<1>8. /\ conn' \in [Requests -> Connection] /\ conn'[r] = d
      /\ \A m \in Requests \ {r} : conn'[m] = conn[m]
  BY <1>3, <1>4, <1>5
<1>9. TypeOK'
  BY <1>1, <1>2, <1>8 DEF QuicInv, TypeOK
<1>10. PhaseInv'
  BY <1>7, <1>8 DEF QuicInv, PhaseInv, Phase
<1>11. StreamInv'
  BY <1>1, <1>5, <1>8 DEF QuicInv, StreamInv
<1>12. d # Waiting
  BY <1>5, <1>7, PhaseFacts
<1>13. QueueInv'
  BY <1>1, <1>2, <1>8, <1>12 DEF QuicInv, QueueInv
<1> QED BY <1>9, <1>10, <1>11, <1>13 DEF QuicInv

-----------------------------------------------------------------------------
(* The theorems. *)

\* Every step of the session thread and of the other threads keeps the invariant.
LEMMA QuicStep == QuicInv /\ [Next]_vars => QuicInv'
<1> SUFFICES ASSUME QuicInv, [Next]_vars PROVE QuicInv'
  OBVIOUS
<1>1. CASE UNCHANGED vars
  BY <1>1 DEF vars, QuicInv, TypeOK, PhaseInv, StreamInv, QueueInv
<1>2. ASSUME HandshakeStep PROVE QuicInv'
  <2>1. /\ session \in {"handshaking", "established"} /\ session' \in {"handshaking", "established"}
        /\ UNCHANGED <<queue, conn, orphans, dropped>>
    BY <1>2 DEF HandshakeStep, Alive
  <2> QED BY <2>1 DEF QuicInv, TypeOK, PhaseInv, StreamInv, QueueInv
<1>3. ASSUME NEW r \in Requests,
             \/ startWithRequest(r) \/ p_sendRequest_NotConnected(r) \/ p_sendRequest_NoStream(r)
             \/ p_sendRequest(r) \/ (\E kind \in {"response", "redirect"} : HeadersArrive(r, kind))
             \/ DataArrives(r) \/ StreamCloses(r)
      PROVE  QuicInv'
  BY <1>3, startWithRequestInv, DroppedInv, p_sendRequestInv, HeadersArriveInv, DataArrivesInv,
     StreamClosesInv
<1> QED BY <1>1, <1>2, <1>3, reconnectInv, p_connectInv, ConnectionClosesInv, onQUICErrorInv,
           updateInv DEF Next

LEMMA QuicInit == Init => QuicInv
<1> SUFFICES ASSUME Init PROVE QuicInv
  OBVIOUS
<1>1. \A r \in Requests : conn[r] = Fresh
  BY DEF Init
<1>2. /\ Fresh \in Connection /\ Waiting # Fresh /\ Fresh.stream = "none" /\ ~Fresh.mapped
  <2>1. <<>> \in Seq(1 .. MaxChunks) /\ <<>> \in Seq(Call) /\ 0 \in 0 .. MaxChunks
    BY MaxChunksNat
  <2>2. Fresh \in Connection
    BY <2>1 DEF Fresh, Connection
  <2> QED BY <2>2, PhaseFacts
<1>3. TypeOK
  <2>1. queue \in Seq(Block)
    BY SendFacts DEF Init
  <2> QED BY <1>2, <2>1 DEF Init, TypeOK
<1>4. PhaseInv /\ StreamInv
  BY <1>1, <1>2 DEF Init, PhaseInv, StreamInv, Phase
<1>5. QueueInv
  <2>1. \A r \in Requests : ~Has(queue, SendOf(r)) /\ Once(queue, SendOf(r))
    <3>1. DOMAIN queue = {1} /\ queue[1] = [op |-> "connect"]
      BY DEF Init
    <3> QED BY <3>1, SendFacts DEF Has, Once
  <2> QED BY <1>1, <1>2, <2>1 DEF Init, QueueInv
<1> QED BY <1>3, <1>4, <1>5 DEF QuicInv

\* The invariant, for every number of requests, data frames and queued blocks.
THEOREM QuicCorrect == Spec => []QuicInv
BY QuicInit, QuicStep, PTL DEF Spec

\* The variables keep their types: a cached piece is one that was received, and what
\* the delegate is told is a response, a redirect, data or an end.
THEOREM TypeCorrect == Spec => []TypeOK
<1>1. QuicInv => TypeOK
  BY DEF QuicInv
<1> QED BY <1>1, QuicCorrect, PTL

\* What a delegate can have heard, in any phase of its request.
LEMMA CallsShape ==
    ASSUME QuicInv, NEW r \in Requests
    PROVE  LET calls == conn[r].calls IN
           \/ calls = <<>>
           \/ calls = <<Last("redirect")>>
           \/ calls = <<Last("fail")>>
           \/ \E n \in 0 .. MaxChunks :
                 calls = Begun(n) \/ calls = Append(Begun(n), Last("fail")) \/ calls = Append(Begun(n), Last("finish"))
<1> DEFINE calls == conn[r].calls
<1>1. conn[r] \in Connection /\ Phase(conn[r])
  BY DEF QuicInv, TypeOK, PhaseInv
<1>2. conn[r].received \in 0 .. MaxChunks
  BY <1>1 DEF Connection
<1>3. CASE conn[r] = Fresh \/ conn[r] = Waiting
  BY <1>3 DEF Fresh, Waiting
<1>4. CASE Served(conn[r])
  <2>1. \A n \in 0 .. conn[r].received : n \in 0 .. MaxChunks
    BY <1>2, MaxChunksNat
  <2> QED BY <1>4, <2>1 DEF Served, BeforeHeaders, AfterHeaders, AfterRedirect
<1>5. CASE Over(conn[r])
  BY <1>2, <1>5 DEF Over, EndOf
<1> QED BY <1>1, <1>3, <1>4, <1>5 DEF Phase

\* onQUICError, update and the library can each end a request, in any order: still
\* what its delegate is told is a response first, the data in order, and one end.
THEOREM CallsWellFormedCorrect == Spec => []CallsWellFormed
<1>1. ASSUME QuicInv PROVE CallsWellFormed
  <2> SUFFICES ASSUME NEW r \in Requests, NEW i \in DOMAIN conn[r].calls
               PROVE  LET calls == conn[r].calls IN
                      /\ calls[i].kind \in Terminal => i = Len(calls)
                      /\ calls[i].kind = "response" => i = 1
                      /\ calls[i].kind = "data" => calls[1].kind = "response" /\ calls[i].chunk = i - 1
                      /\ calls[i].kind = "finish" => calls[1].kind = "response"
    BY DEF CallsWellFormed
  <2> DEFINE calls == conn[r].calls
  <2>3. calls # <<>>
    OBVIOUS
  <2>4. \/ calls = <<Last("redirect")>>
        \/ calls = <<Last("fail")>>
        \/ \E n \in 0 .. MaxChunks :
              calls = Begun(n) \/ calls = Append(Begun(n), Last("fail")) \/ calls = Append(Begun(n), Last("finish"))
    BY <1>1, <2>3, CallsShape
  <2> HIDE DEF calls
  <2>5. i \in DOMAIN calls
    BY DEF calls
  <2>6. CASE calls = <<Last("redirect")>> \/ calls = <<Last("fail")>>
    <3>1. i = 1 /\ Len(calls) = 1 /\ calls[1].kind \in {"redirect", "fail"}
      BY <2>5, <2>6 DEF Last
    <3> QED BY <3>1 DEF calls
  <2>7. ASSUME NEW n \in 0 .. MaxChunks, calls = Begun(n)
        PROVE  /\ calls[i].kind \notin {"redirect", "finish", "fail"}
               /\ calls[i].kind = "response" => i = 1
               /\ calls[i].kind = "data" => calls[1].kind = "response" /\ calls[i].chunk = i - 1
    <3>1. /\ DOMAIN calls = 1 .. n + 1 /\ calls[1] = Answer
          /\ \A k \in 2 .. n + 1 : calls[k] = Piece(k - 1)
          /\ calls[i].kind \notin {"redirect", "finish", "fail"}
      BY <2>5, <2>7, BegunFacts
    <3>2. i = 1 \/ i \in 2 .. n + 1
      BY <2>5, <3>1, MaxChunksNat
    <3>3. Answer.kind = "response" /\ Piece(i - 1).kind = "data" /\ Piece(i - 1).chunk = i - 1
      BY DEF Answer, Piece
    <3> QED BY <3>1, <3>2, <3>3
  <2>8. ASSUME NEW n \in 0 .. MaxChunks, NEW kind \in {"fail", "finish"},
               calls = Append(Begun(n), Last(kind))
        PROVE  /\ calls[i].kind \in {"redirect", "finish", "fail"} => i = Len(calls)
               /\ calls[i].kind = "response" => i = 1
               /\ calls[i].kind \in {"data", "finish"} => calls[1].kind = "response"
               /\ calls[i].kind = "data" => calls[i].chunk = i - 1
    <3> DEFINE b == Begun(n)
    <3>1. /\ b \in Seq(Call) /\ Len(b) = n + 1 /\ b[1] = Answer
          /\ \A k \in 2 .. n + 1 : b[k] = Piece(k - 1)
          /\ \A k \in 1 .. n + 1 : b[k].kind \notin {"redirect", "finish", "fail"}
      BY BegunFacts
    <3>2. n \in Nat /\ Last(kind) \in Call /\ Last(kind).kind = kind
      BY MaxChunksNat DEF Last, Call
    <3> HIDE DEF b
    <3>3. /\ DOMAIN calls = 1 .. n + 2 /\ Len(calls) = n + 2
          /\ \A k \in 1 .. n + 1 : calls[k] = b[k]
          /\ calls[n + 2] = Last(kind)
      BY <2>8, <3>1, <3>2 DEF b
    <3>4. i = 1 \/ i \in 2 .. n + 1 \/ i = n + 2
      BY <2>5, <3>2, <3>3
    <3>5. Answer.kind = "response" /\ Piece(i - 1).kind = "data" /\ Piece(i - 1).chunk = i - 1
      BY DEF Answer, Piece
    <3>6. 1 \in 1 .. n + 1 /\ 2 .. n + 1 \subseteq 1 .. n + 1
      BY <3>2
    <3>7. calls[1].kind = "response"
      BY <3>1, <3>3, <3>5, <3>6
    <3>8. CASE i = n + 2
      BY <3>2, <3>3, <3>7, <3>8
    <3>9. CASE i = 1
      BY <3>7, <3>9
    <3>10. CASE i \in 2 .. n + 1
      <4>1. calls[i] = Piece(i - 1)
        BY <3>1, <3>3, <3>6, <3>10
      <4> QED BY <3>5, <3>7, <4>1
    <3> QED BY <3>4, <3>8, <3>9, <3>10
  <2> QED BY <2>4, <2>6, <2>7, <2>8 DEF calls, Terminal
<1> QED BY <1>1, QuicCorrect, PTL

\* A finish is only told after every frame the stream has received, cached or not.
THEOREM NothingHeldBackCorrect == Spec => []NothingHeldBack
<1>1. ASSUME QuicInv PROVE NothingHeldBack
  <2> SUFFICES ASSUME NEW r \in Requests, conn[r].calls # <<>>,
                      conn[r].calls[Len(conn[r].calls)].kind = "finish"
               PROVE  Len(conn[r].calls) = conn[r].received + 2
    BY DEF NothingHeldBack
  <2> DEFINE c == conn[r]
             calls == conn[r].calls
  <2>1. c \in Connection /\ Phase(c)
    BY <1>1 DEF QuicInv, TypeOK, PhaseInv
  <2>2. c.received \in 0 .. MaxChunks /\ c.received \in Nat
    BY <2>1, MaxChunksNat DEF Connection
  <2>3. \A n \in 0 .. MaxChunks : calls # Begun(n)
    <3> TAKE n \in 0 .. MaxChunks
    <3>1. /\ Len(Begun(n)) = n + 1 /\ n + 1 \in 1 .. n + 1
          /\ \A k \in 1 .. n + 1 : Begun(n)[k].kind \notin {"redirect", "finish", "fail"}
      BY BegunFacts, MaxChunksNat
    <3> QED BY <3>1
  <2>4. \A n \in 0 .. MaxChunks : calls # Append(Begun(n), Last("fail"))
    <3> TAKE n \in 0 .. MaxChunks
    <3>1. Begun(n) \in Seq(Call) /\ Last("fail") \in Call /\ Last("fail").kind = "fail"
      BY BegunFacts DEF Last, Call
    <3> DEFINE a == Append(Begun(n), Last("fail"))
    <3>2. a[Len(a)] = Last("fail")
      BY <3>1
    <3> HIDE DEF a
    <3>3. a # calls
      BY <3>1, <3>2
    <3> QED BY <3>3 DEF a
  <2>5. calls # <<Last("redirect")>> /\ calls # <<Last("fail")>>
    BY DEF Last
  <2>6. ~(c = Fresh \/ c = Waiting)
    BY DEF Fresh, Waiting
  <2>7. ~Served(c)
    <3>1. \A n \in 0 .. c.received : n \in 0 .. MaxChunks
      BY <2>2, MaxChunksNat
    <3> QED BY <2>3, <2>5, <3>1 DEF Served, BeforeHeaders, AfterHeaders, AfterRedirect
  <2>8. calls = Append(Begun(c.received), Last("finish"))
    BY <2>1, <2>4, <2>5, <2>6, <2>7 DEF Phase, Over, EndOf
  <2>9. Begun(c.received) \in Seq(Call) /\ Len(Begun(c.received)) = c.received + 1
    BY <2>2, BegunFacts
  <2>10. Last("finish") \in Call
    BY DEF Last, Call
  <2>11. Len(calls) = (c.received + 1) + 1
    BY <2>8, <2>9, <2>10
  <2> QED BY <2>2, <2>11
<1> QED BY <1>1, QuicCorrect, PTL

\* What the timer and the socket error walk through is alive, or went down with a
\* session whose handshake was being repeated.
THEOREM DelegatesAliveCorrect == Spec => []DelegatesAlive
<1>1. ASSUME QuicInv PROVE DelegatesAlive
  <2> SUFFICES ASSUME NEW r \in Requests, conn[r].mapped
               PROVE  conn[r].anchored /\ (conn[r].stream = "open" \/ r \in orphans)
    BY DEF DelegatesAlive
  <2>1. conn[r] \in Connection /\ Served(conn[r])
    BY <1>1, PhaseFacts DEF QuicInv, TypeOK, PhaseInv
  <2>2. conn[r].stream = "open" \/ conn[r].stream = "gone"
    BY <2>1 DEF Served, Connection
  <2> QED BY <1>1, <2>1, <2>2 DEF Served, QuicInv, StreamInv
<1> QED BY <1>1, QuicCorrect, PTL

\* No request is lost between the queue, the map and its last callback, except those
\* p_sendRequest returned null for.
THEOREM NeverForgottenCorrect == Spec => []NeverForgotten
<1>1. ASSUME QuicInv PROVE NeverForgotten
  <2> SUFFICES ASSUME NEW r \in Requests, conn[r] # Fresh, ~conn[r].mapped, r \notin dropped,
                      ~\E i \in DOMAIN queue : queue[i] = [op |-> "send", req |-> r]
               PROVE  \E i \in DOMAIN conn[r].calls : conn[r].calls[i].kind \in Terminal
    BY DEF NeverForgotten
  <2>1. conn[r] \in Connection /\ Phase(conn[r]) /\ conn[r].received \in 0 .. MaxChunks
    BY <1>1 DEF QuicInv, TypeOK, PhaseInv, Connection
  <2>2. conn[r] # Waiting
    BY <1>1 DEF QuicInv, QueueInv, Has, SendOf
  <2>3. EndOf(conn[r])
    BY <2>1, <2>2 DEF Phase, Served, Over
  <2> DEFINE calls == conn[r].calls
  <2>4. CASE calls = <<Last("redirect")>> \/ calls = <<Last("fail")>>
    <3>1. 1 \in DOMAIN calls /\ calls[1].kind \in Terminal
      BY <2>4 DEF Last, Terminal
    <3> QED BY <3>1
  <2>5. ASSUME NEW n \in 0 .. MaxChunks, NEW kind \in {"fail", "finish"},
               calls = Append(Begun(n), Last(kind))
        PROVE  \E i \in DOMAIN calls : calls[i].kind \in Terminal
    <3>1. Begun(n) \in Seq(Call) /\ Last(kind) \in Call /\ Last(kind).kind = kind
      BY BegunFacts DEF Last, Call
    <3>2. Len(calls) \in DOMAIN calls /\ calls[Len(calls)] = Last(kind)
      BY <2>5, <3>1
    <3> QED BY <3>1, <3>2 DEF Terminal
  <2> HIDE DEF calls
  <2>6. \/ calls = <<Last("redirect")>> \/ calls = <<Last("fail")>>
        \/ \E n \in 0 .. MaxChunks : calls = Append(Begun(n), Last("fail"))
        \/ calls = Append(Begun(conn[r].received), Last("finish"))
    BY <2>3 DEF EndOf, calls
  <2> QED BY <2>1, <2>4, <2>5, <2>6 DEF calls
<1> QED BY <1>1, QuicCorrect, PTL

-----------------------------------------------------------------------------
(* The session implements the contract of a load. *)

\* d is c after handlers that at most told its delegate more.
Grown(c, d) == d \in Connection /\ Extends(c.calls, d.calls)

\* Handlers one after the other.
LEMMA GrownOrder ==
    /\ \A c \in Connection : Grown(c, c)
    /\ \A c, d, e : Grown(c, d) /\ Grown(d, e) => Grown(c, e)
BY ExtendsOrder DEF Grown

\* Each callback adds a call or says nothing; the cache is told at the end too.
LEMMA CallbacksGrow ==
    ASSUME NEW c \in Connection
    PROVE  /\ \A kind \in {"response", "redirect"} : Grown(c, onQUICStreamReceivedResponse(c, kind))
           /\ \A n \in 1 .. MaxChunks : Grown(c, onQUICStreamReceivedData(c, n))
           /\ \A kind \in {"finish", "fail"} : Grown(c, Ended(c, kind))
           /\ Grown(c, FlushCache(c))
<1>1. c.calls \in Seq(Call) /\ c.cache \in Seq(1 .. MaxChunks)
  BY DEF Connection
<1>2. Grown(c, c)
  BY GrownOrder
<1>3. ASSUME NEW kind, NEW n, [kind |-> kind, chunk |-> n] \in Call
      PROVE  Grown(c, Told(c, kind, n))
  <2> DEFINE x == [kind |-> kind, chunk |-> n]
             t == Told(c, kind, n)
  <2>1. t \in Connection /\ t.calls = Append(c.calls, x)
    BY <1>3, ToldFacts
  <2>2. x \in Call
    BY <1>3
  <2> HIDE DEF x, t
  <2>3. Extends(c.calls, Append(c.calls, x))
    BY <1>1, <2>2, ExtendsFacts
  <2>4. Grown(c, t)
    BY <2>1, <2>3 DEF Grown
  <2> QED BY <2>4 DEF t
<1>4. \A kind \in {"response", "redirect"} : Grown(c, onQUICStreamReceivedResponse(c, kind))
  <2> TAKE kind \in {"response", "redirect"}
  <2>1. [kind |-> kind, chunk |-> 0] \in Call
    BY DEF Call
  <2> QED BY <1>2, <1>3, <2>1 DEF onQUICStreamReceivedResponse
<1>5. \A n \in 1 .. MaxChunks : Grown(c, onQUICStreamReceivedData(c, n))
  <2> TAKE n \in 1 .. MaxChunks
  <2>1. [kind |-> "data", chunk |-> n] \in Call
    BY DEF Call
  <2> QED BY <1>2, <1>3, <2>1 DEF onQUICStreamReceivedData
<1>6. \A kind \in {"finish", "fail"} : Grown(c, Ended(c, kind))
  <2> TAKE kind \in {"finish", "fail"}
  <2>1. Last(kind) \in Call
    BY DEF Last, Call
  <2>2. Extends(c.calls, c.calls) /\ Extends(c.calls, Append(c.calls, Last(kind)))
    BY <1>1, <2>1, ExtendsOrder, ExtendsFacts
  <2>3. /\ Ended(c, kind) \in Connection
        /\ Ended(c, kind).calls = c.calls \/ Ended(c, kind).calls = Append(c.calls, Last(kind))
    BY EndedFacts
  <2> QED BY <2>2, <2>3 DEF Grown
<1>7. Grown(c, FlushCache(c))
  <2> DEFINE new == IF c.mapped /\ ~Redirected(c) THEN c.calls \o Pieces(c.cache) ELSE c.calls
             f == [c EXCEPT !.calls = new, !.cache = <<>>]
  <2>1. FlushCache(c) = f /\ FlushCache(c) \in Connection
    BY FlushFacts DEF FlushCache, Pieces
  <2>2. Pieces(c.cache) \in Seq(Call)
    <3>1. PICK k \in Nat : c.cache \in [1 .. k -> 1 .. MaxChunks]
      BY <1>1, AsFunction
    <3>2. DOMAIN c.cache = 1 .. k /\ \A i \in 1 .. k : c.cache[i] \in 1 .. MaxChunks
      BY <3>1
    <3>3. \A i \in 1 .. k : [kind |-> "data", chunk |-> c.cache[i]] \in Call
      BY <3>2 DEF Call
    <3>4. Pieces(c.cache) \in [1 .. k -> Call]
      BY <3>2, <3>3 DEF Pieces
    <3> QED BY <3>4, AsSequence
  <2>3. Extends(c.calls, new)
    BY <1>1, <2>2, ExtendsOrder, ExtendsFacts
  <2> HIDE DEF new
  <2>4. f.calls = new
    BY DEF Connection
  <2> QED BY <2>1, <2>3, <2>4 DEF Grown
<1> QED BY <1>4, <1>5, <1>6, <1>7

\* So does every handler of a stream, whatever it calls.
LEMMA HandlersGrow ==
    ASSUME NEW c \in Connection
    PROVE  /\ \A kind \in {"response", "redirect"} : Grown(c, OnInitialHeadersComplete(c, kind))
           /\ c.received < MaxChunks => Grown(c, OnStreamFrame(c))
           /\ Grown(c, Closed(c)) /\ Grown(c, Freed(c)) /\ Grown(c, onSocketError(c))
           /\ \A late \in BOOLEAN : Grown(c, updateStream(c, late))
<1>1. Grown(c, c)
  BY GrownOrder
<1>2. ASSUME NEW d, Grown(c, d)
      PROVE  /\ Grown(c, [d EXCEPT !.timing = FALSE])
             /\ Grown(c, [d EXCEPT !.timing = TRUE])
             /\ Grown(c, [d EXCEPT !.headers = TRUE])
             /\ Grown(c, [d EXCEPT !.timing = FALSE, !.headers = TRUE])
             /\ Grown(c, [d EXCEPT !.failed = TRUE])
             /\ Grown(c, [d EXCEPT !.stream = "gone"])
  <2>1. d \in Connection /\ Extends(c.calls, d.calls)
    BY <1>2 DEF Grown
  <2>2. ASSUME NEW e \in Connection, e.calls = d.calls PROVE Grown(c, e)
    BY <2>1, <2>2 DEF Grown
  <2>3. /\ [d EXCEPT !.timing = FALSE] \in Connection
        /\ [d EXCEPT !.timing = TRUE] \in Connection
        /\ [d EXCEPT !.headers = TRUE] \in Connection
        /\ [d EXCEPT !.timing = FALSE, !.headers = TRUE] \in Connection
        /\ [d EXCEPT !.failed = TRUE] \in Connection
        /\ [d EXCEPT !.stream = "gone"] \in Connection
    BY <2>1 DEF Connection
  <2>4. /\ [d EXCEPT !.timing = FALSE].calls = d.calls
        /\ [d EXCEPT !.timing = TRUE].calls = d.calls
        /\ [d EXCEPT !.headers = TRUE].calls = d.calls
        /\ [d EXCEPT !.timing = FALSE, !.headers = TRUE].calls = d.calls
        /\ [d EXCEPT !.failed = TRUE].calls = d.calls
        /\ [d EXCEPT !.stream = "gone"].calls = d.calls
    BY <2>1 DEF Connection
  <2> QED BY <2>2, <2>3, <2>4
<1>3. \A kind \in {"response", "redirect"} : Grown(c, OnInitialHeadersComplete(c, kind))
  <2> TAKE kind \in {"response", "redirect"}
  <2>1. Grown(c, onQUICStreamReceivedResponse(c, kind))
    BY CallbacksGrow
  <2> QED BY <1>1, <1>2, <2>1 DEF OnInitialHeadersComplete
<1>4. ASSUME c.received < MaxChunks PROVE Grown(c, OnStreamFrame(c))
  <2> DEFINE n == c.received
             d == should_add_incoming_data(c, Chunk(c))
             e == [d EXCEPT !.received = @ + 1]
  <2>1. n \in Nat /\ n + 1 \in 1 .. MaxChunks /\ n + 1 \in 0 .. MaxChunks /\ Chunk(c) = n + 1
    BY <1>4, MaxChunksNat DEF Connection, Chunk
  <2>2. Grown(c, d) /\ d.received = n
    <3>1. CASE c.headers
      <4> DEFINE f == FlushCache(c)
      <4>1. Grown(c, f) /\ f.received = n /\ f \in Connection
        BY CallbacksGrow, FlushFacts
      <4>2. d = onQUICStreamReceivedData(f, n + 1)
        BY <2>1, <3>1 DEF should_add_incoming_data
      <4> HIDE DEF f
      <4>3. Grown(f, onQUICStreamReceivedData(f, n + 1))
        BY <2>1, <4>1, CallbacksGrow
      <4>4. onQUICStreamReceivedData(f, n + 1).received = n
        <5>1. [kind |-> "data", chunk |-> n + 1] \in Call
          BY <2>1 DEF Call
        <5> QED BY <4>1, <5>1, ToldFacts DEF onQUICStreamReceivedData
      <4> HIDE DEF d
      <4> QED BY <4>1, <4>2, <4>3, <4>4, GrownOrder
    <3>2. CASE ~c.headers
      <4>1. d = [c EXCEPT !.cache = Append(@, n + 1)]
        BY <2>1, <3>2 DEF should_add_incoming_data
      <4>2. Append(c.cache, n + 1) \in Seq(1 .. MaxChunks)
        BY <2>1 DEF Connection
      <4>3. d \in Connection /\ d.calls = c.calls /\ d.received = n
        BY <4>1, <4>2 DEF Connection
      <4> QED BY <1>1, <4>3 DEF Grown
    <3> QED BY <3>1, <3>2
  <2> HIDE DEF d
  <2>3. Grown(c, e)
    BY <2>1, <2>2 DEF Grown, Connection
  <2>4. OnStreamFrame(c) = IF c.failed THEN e ELSE [e EXCEPT !.timing = FALSE]
    BY DEF OnStreamFrame, d
  <2> HIDE DEF e
  <2> QED BY <1>2, <2>3, <2>4
<1>5. Grown(c, Closed(c))
  <2> DEFINE w == WithResponse(c)
             f == FlushCache(w)
             e == Ended(f, "finish")
  <2>1. Grown(c, w) /\ w \in Connection
    BY <1>1, <1>2, CallbacksGrow DEF WithResponse, Grown
  <2> HIDE DEF w
  <2>2. Grown(w, f) /\ f \in Connection
    BY <2>1, CallbacksGrow DEF Grown
  <2> HIDE DEF f
  <2>3. Grown(f, e)
    BY <2>2, CallbacksGrow
  <2> HIDE DEF e
  <2>4. Grown(c, e)
    BY <2>1, <2>2, <2>3, GrownOrder
  <2>5. onVisitorSentClose(c) = IF c.failed THEN c ELSE [e EXCEPT !.timing = FALSE]
    BY DEF onVisitorSentClose, onQUICStreamCompleted, w, f, e
  <2>6. Grown(c, onVisitorSentClose(c))
    BY <1>1, <1>2, <2>4, <2>5
  <2> QED BY <1>1, <1>2, <2>6 DEF Closed
<1>6. Grown(c, Freed(c))
  BY <1>1, <1>2 DEF Freed
<1>7. Grown(c, onQUICStreamFailed([c EXCEPT !.failed = TRUE]))
  <2> DEFINE b == [c EXCEPT !.failed = TRUE]
  <2>1. Grown(c, b) /\ b \in Connection
    BY <1>1, <1>2 DEF Grown
  <2> HIDE DEF b
  <2>2. Grown(b, Ended(b, "fail"))
    BY <2>1, CallbacksGrow
  <2> QED BY <2>1, <2>2, GrownOrder DEF onQUICStreamFailed, b
<1>8. Grown(c, onSocketError(c))
  BY <1>1, <1>7 DEF onSocketError
<1>9. \A late \in BOOLEAN : Grown(c, updateStream(c, late))
  <2> TAKE late \in BOOLEAN
  <2>1. \/ updateStream(c, late) = c
        \/ updateStream(c, late) = [c EXCEPT !.timing = TRUE]
        \/ updateStream(c, late) = onQUICStreamFailed([c EXCEPT !.failed = TRUE])
    <3>1. CASE c.failed
      BY <3>1 DEF updateStream
    <3>2. CASE ~c.failed /\ ~c.timing
      BY <3>2 DEF updateStream
    <3>3. CASE ~c.failed /\ c.timing /\ ~late
      BY <3>3 DEF updateStream
    <3>4. CASE ~c.failed /\ c.timing /\ late
      BY <3>4 DEF updateStream
    <3> QED BY <3>1, <3>2, <3>3, <3>4
  <2> QED BY <1>1, <1>2, <1>7, <2>1
<1> QED BY <1>3, <1>4, <1>5, <1>6, <1>8, <1>9

\* No step of the session or of another thread takes back what a delegate has heard.
LEMMA CallsGrow ==
    ASSUME TypeOK, [Next]_vars, NEW r \in Requests
    PROVE  Extends(conn[r].calls, conn'[r].calls)
<1> DEFINE c == conn[r]
<1>1. /\ conn \in [Requests -> Connection] /\ c \in Connection
      /\ session \in {"none", "handshaking", "established", "closed"}
  BY DEF TypeOK
<1>2. Extends(c.calls, c.calls)
  BY ExtendsOrder
<1>3. CASE UNCHANGED conn
  BY <1>2, <1>3
<1>4. Grown(c, Disconnected[r])
  BY <1>1, HandlersGrow DEF Disconnected
<1>5. CASE ConnectionCloses
  BY <1>1, <1>5, HandlersGrow DEF ConnectionCloses, Grown
<1>6. CASE onQUICError
  <2> DEFINE d == Disconnected[r]
  <2>1. conn'[r] = IF d.mapped THEN onSocketError(d) ELSE d
    BY <1>6 DEF onQUICError
  <2>2. d \in Connection /\ Grown(c, d)
    BY <1>4 DEF Grown
  <2> HIDE DEF d
  <2>3. Grown(d, onSocketError(d))
    BY <2>2, HandlersGrow
  <2>4. Grown(c, conn'[r])
    BY <2>1, <2>2, <2>3, GrownOrder
  <2> QED BY <2>4 DEF Grown
<1>7. ASSUME NEW outcome \in {"none", "handshaking", "established"}, p_connect(outcome)
      PROVE  Extends(c.calls, conn'[r].calls)
  BY <1>2, <1>4, <1>7 DEF p_connect, Grown
<1>8. ASSUME NEW late \in SUBSET Requests, update(late)
      PROVE  Extends(c.calls, conn'[r].calls)
  <2>1. conn'[r] = IF c.mapped THEN updateStream(c, r \in late) ELSE c
    BY <1>8 DEF update
  <2>2. (r \in late) \in BOOLEAN
    OBVIOUS
  <2>3. Grown(c, updateStream(c, r \in late))
    BY <1>1, <2>2, HandlersGrow
  <2> QED BY <1>2, <2>1, <2>3 DEF Grown
<1>9. ASSUME NEW m \in Requests,
             \/ startWithRequest(m) \/ p_sendRequest(m)
             \/ (\E kind \in {"response", "redirect"} : HeadersArrive(m, kind))
             \/ DataArrives(m) \/ StreamCloses(m)
      PROVE  Extends(c.calls, conn'[r].calls)
  <2>1. CASE m # r
    <3>1. conn'[r] = c
      BY <1>1, <1>9, <2>1 DEF startWithRequest, p_sendRequest, HeadersArrive, DataArrives, StreamCloses
    <3> QED BY <1>2, <3>1
  <2>2. CASE m = r
    <3>1. CASE startWithRequest(r)
      <4>1. conn'[r] = [c EXCEPT !.anchored = TRUE]
        BY <1>1, <3>1 DEF startWithRequest
      <4>2. conn'[r].calls = c.calls
        BY <1>1, <4>1 DEF Connection
      <4> QED BY <1>2, <4>2
    <3>2. CASE p_sendRequest(r)
      <4>1. conn'[r] = [c EXCEPT !.stream = "open", !.mapped = TRUE]
        BY <1>1, <3>2 DEF p_sendRequest
      <4>2. conn'[r].calls = c.calls
        BY <1>1, <4>1 DEF Connection
      <4> QED BY <1>2, <4>2
    <3>3. ASSUME NEW kind \in {"response", "redirect"}, HeadersArrive(r, kind)
          PROVE  Extends(c.calls, conn'[r].calls)
      <4>1. conn'[r] = OnInitialHeadersComplete(c, kind)
        BY <1>1, <3>3 DEF HeadersArrive
      <4> QED BY <1>1, <4>1, HandlersGrow DEF Grown
    <3>4. CASE DataArrives(r)
      <4>1. conn'[r] = OnStreamFrame(c) /\ c.received < MaxChunks
        BY <1>1, <3>4 DEF DataArrives
      <4> QED BY <1>1, <4>1, HandlersGrow DEF Grown
    <3>5. CASE StreamCloses(r)
      <4>1. conn'[r] = Closed(c)
        BY <1>1, <3>5 DEF StreamCloses
      <4> QED BY <1>1, <4>1, HandlersGrow DEF Grown
    <3> QED BY <1>9, <2>2, <3>1, <3>2, <3>3, <3>4, <3>5
  <2> QED BY <2>1, <2>2
<1>10. CASE reconnect \/ HandshakeStep \/ UNCHANGED vars
  BY <1>3, <1>10 DEF reconnect, HandshakeStep, vars
<1>11. ASSUME NEW m \in Requests, p_sendRequest_NotConnected(m) \/ p_sendRequest_NoStream(m)
       PROVE  Extends(c.calls, conn'[r].calls)
  BY <1>3, <1>11 DEF p_sendRequest_NotConnected, p_sendRequest_NoStream
<1> QED BY <1>5, <1>6, <1>7, <1>8, <1>9, <1>10, <1>11 DEF Next

\* A redirect is told on its own: not after a response, and followed by nothing.
RedirectAlone ==
    \A r \in Requests : \A i \in DOMAIN conn[r].calls :
        conn[r].calls[i].kind = "redirect" => Len(conn[r].calls) = 1

\* It is in no other shape of what a delegate hears.
LEMMA RedirectAloneCorrect == Spec => []RedirectAlone
<1>1. ASSUME QuicInv PROVE RedirectAlone
  <2> SUFFICES ASSUME NEW r \in Requests, NEW i \in DOMAIN conn[r].calls,
                      conn[r].calls[i].kind = "redirect"
               PROVE  Len(conn[r].calls) = 1
    BY DEF RedirectAlone
  <2> DEFINE calls == conn[r].calls
  <2>1. ASSUME NEW n \in 0 .. MaxChunks, NEW kind \in {"fail", "finish"}
        PROVE  calls # Begun(n) /\ calls # Append(Begun(n), Last(kind))
    <3> DEFINE b == Begun(n)
               a == Append(b, Last(kind))
    <3>1. /\ b \in Seq(Call) /\ Len(b) = n + 1 /\ n + 1 \in Nat
          /\ \A k \in 1 .. n + 1 : b[k].kind # "redirect"
      BY BegunFacts, MaxChunksNat
    <3>2. Last(kind) \in Call /\ Last(kind).kind # "redirect"
      BY DEF Last, Call
    <3> HIDE DEF b
    <3>3. /\ DOMAIN b = 1 .. n + 1 /\ DOMAIN a = 1 .. n + 2
          /\ \A k \in 1 .. n + 1 : a[k] = b[k]
          /\ a[n + 2] = Last(kind)
      BY <3>1, <3>2
    <3> HIDE DEF a
    <3>4. \A k \in 1 .. n + 2 : k \in 1 .. n + 1 \/ k = n + 2
      BY <3>1
    <3>5. \A k \in DOMAIN a : a[k].kind # "redirect"
      BY <3>1, <3>2, <3>3, <3>4
    <3>6. \A k \in DOMAIN b : b[k].kind # "redirect"
      BY <3>1, <3>3
    <3> QED BY <3>5, <3>6 DEF a, b
  <2>2. calls = <<Last("redirect")>> \/ calls = <<Last("fail")>>
    BY <1>1, <2>1, CallsShape
  <2> QED BY <2>2 DEF Last
<1> QED BY <1>1, QuicCorrect, PTL

\* Well-formed calls make a client of the contract.
LEMMA HeardFacts ==
    ASSUME NEW calls \in Seq(Call),
           \A i \in DOMAIN calls :
              /\ calls[i].kind \in Terminal => i = Len(calls)
              /\ calls[i].kind = "data" => calls[1].kind = "response"
              /\ calls[i].kind = "finish" => calls[1].kind = "response"
              /\ calls[i].kind = "redirect" => Len(calls) = 1
    PROVE  [heard |-> {calls[i].kind : i \in DOMAIN calls},
            pieces |-> Cardinality({i \in DOMAIN calls : calls[i].kind = "data"})]
              \in Contract!Clients
<1> DEFINE heard == {calls[i].kind : i \in DOMAIN calls}
           data == {i \in DOMAIN calls : calls[i].kind = "data"}
           n == Cardinality(data)
<1>1. /\ \A i \in DOMAIN calls : 1 \in DOMAIN calls
      /\ \A i \in DOMAIN calls : calls[i] \in Call
      /\ Len(calls) = 1 => DOMAIN calls = {1}
  BY LenProperties
<1>2. n \in Nat /\ (n = 0 <=> data = {})
  BY PositionsGrow
<1>3. n = 0 <=> "data" \notin heard
  BY <1>2
<1> HIDE DEF n
<1>4. heard \subseteq {"response", "data", "redirect", "finish", "fail"}
  <2>1. \A x \in Call : x.kind \in {"response", "data", "redirect", "finish", "fail"}
    BY DEF Call
  <2> QED BY <1>1, <2>1
<1>5. heard \cap {"data", "finish"} # {} => "response" \in heard
  BY <1>1
<1>6. "redirect" \in heard => heard \subseteq {"redirect"}
  BY <1>1
<1>7. ~({"finish", "fail"} \subseteq heard)
  BY DEF Terminal
<1> DEFINE c == [heard |-> heard, pieces |-> n]
<1> HIDE DEF heard
<1>8. c.heard = heard /\ c.pieces = n
  OBVIOUS
<1>9. c \in [heard : SUBSET Contract!Kinds, pieces : Nat]
  BY <1>2, <1>4 DEF Contract!Kinds, Contract!Ends
<1> HIDE DEF c
<1>10. c \in Contract!Clients
  BY <1>3, <1>5, <1>6, <1>7, <1>8, <1>9 DEF Contract!Clients, Contract!Ends
<1> QED BY <1>10 DEF c, heard, n

\* What is heard before and after a step.
LEMMA ToldMoreFacts ==
    ASSUME TypeOK, TypeOK', CallsWellFormed', [Next]_vars, NEW r \in Requests
    PROVE  Contract!ToldMore(Heard(r), Heard(r)')
<1> DEFINE calls == conn[r].calls
           more == conn'[r].calls
           data == {i \in DOMAIN calls : calls[i].kind = "data"}
           pieces == {i \in DOMAIN more : more[i].kind = "data"}
           heard == {calls[i].kind : i \in DOMAIN calls}
           after == {more[i].kind : i \in DOMAIN more}
<1>1. /\ Heard(r) = [heard |-> heard, pieces |-> Cardinality(data)]
      /\ Heard(r)' = [heard |-> after, pieces |-> Cardinality(pieces)]
  BY DEF Heard
<1>2. Extends(calls, more)
  BY CallsGrow
<1>3. calls \in Seq(Call) /\ more \in Seq(Call)
  BY DEF TypeOK, Connection
<1>4. \A i \in DOMAIN more : more[i].kind \in {"finish", "fail"} => i = Len(more)
  BY DEF CallsWellFormed, Terminal
<1> HIDE DEF calls, more
<1>5. data \subseteq pieces /\ heard \subseteq after
  BY <1>2 DEF Extends
<1>6. Cardinality(data) <= Cardinality(pieces)
  BY <1>3, <1>5, PositionsGrow
<1>7. ASSUME heard \cap {"finish", "fail"} # {} PROVE more = calls
  <2>1. PICK i \in DOMAIN calls : calls[i].kind \in {"finish", "fail"}
    BY <1>7
  <2>2. i \in DOMAIN more /\ i = Len(more)
    BY <1>2, <1>4, <2>1 DEF Extends
  <2>3. Len(more) <= Len(calls)
    BY <1>3, <2>1, <2>2, LenProperties
  <2> QED BY <1>2, <1>3, <2>3, ExtendsSame
<1>8. heard \cap {"finish", "fail"} # {} => after = heard /\ pieces = data
  BY <1>7
<1> HIDE DEF heard, after, data, pieces
<1> QED BY <1>1, <1>5, <1>6, <1>8 DEF Contract!ToldMore, Contract!Ended, Contract!Ends

\* Whatever the timer, the library, the socket and a reconnection do, in any order: a
\* delegate hears a redirect, or a response, data and one end, and nothing after it.
THEOREM ContractCorrect == Spec => ImplementsContract
<1> DEFINE told == [r \in Requests |-> Heard(r)]
<1>1. ASSUME Init PROVE Contract!Init
  <2>1. ASSUME NEW r \in Requests PROVE Heard(r) = [heard |-> {}, pieces |-> 0]
    <3>1. conn[r].calls = <<>>
      BY <1>1 DEF Init, Fresh
    <3>2. /\ {conn[r].calls[i].kind : i \in DOMAIN conn[r].calls} = {}
          /\ {i \in DOMAIN conn[r].calls : conn[r].calls[i].kind = "data"} = {}
      <4>1. DOMAIN conn[r].calls = {}
        BY <3>1
      <4> QED BY <4>1
    <3>3. Cardinality({}) = 0
      BY FS_EmptySet
    <3> QED BY <3>2, <3>3, Zenon DEF Heard
  <2> QED BY <2>1 DEF Contract!Init
<1>2. ASSUME TypeOK, TypeOK', CallsWellFormed', RedirectAlone', [Next]_vars PROVE Contract!Next
  <2>1. ASSUME NEW r \in Requests PROVE Heard(r)' \in Contract!Clients
    <3> DEFINE more == conn'[r].calls
    <3>1. more \in Seq(Call)
      BY <1>2 DEF TypeOK, Connection
    <3>2. \A i \in DOMAIN more :
             /\ more[i].kind \in Terminal => i = Len(more)
             /\ more[i].kind = "data" => more[1].kind = "response"
             /\ more[i].kind = "finish" => more[1].kind = "response"
             /\ more[i].kind = "redirect" => Len(more) = 1
      BY <1>2 DEF CallsWellFormed, RedirectAlone
    <3>3. Heard(r)' = [heard |-> {more[i].kind : i \in DOMAIN more},
                       pieces |-> Cardinality({i \in DOMAIN more : more[i].kind = "data"})]
      BY DEF Heard
    <3> HIDE DEF more
    <3> QED BY <3>1, <3>2, <3>3, HeardFacts
  <2>2. told' \in [Requests -> Contract!Clients]
    BY <2>1
  <2>3. \A r \in Requests : Contract!ToldMore(told[r], told'[r])
    BY <1>2, ToldMoreFacts
  <2> QED BY <2>2, <2>3 DEF Contract!Next
<1> QED BY <1>1, <1>2, TypeCorrect, CallsWellFormedCorrect, RedirectAloneCorrect, PTL
        DEF Spec, ImplementsContract, Contract!Spec
=============================================================================
