------------------------ MODULE FailureMonitorProofs ------------------------
(***************************************************************************)
(* Proofs about FailureMonitor, for any finite set of requests, any        *)
(* protocols, interval, threshold and clock.                               *)
(*                                                                         *)
(* validate counts the entries of two vectors, the properties speak of     *)
(* requests.  The invariant joins them: the entries of a vector are in     *)
(* one-to-one correspondence with the requests that made them, and an      *)
(* entry is the time its request remembers.  What validate counts on its   *)
(* copies is then the number of requests in its window, however many       *)
(* requests are logged, fail or are cleared before it gets to count them.  *)
(***************************************************************************)
EXTENDS FailureMonitor, SequenceFacts, FiniteSetTheorems, FunctionTheorems

-----------------------------------------------------------------------------
(* Vectors and the requests behind them. *)

\* The vector s has one entry for each request of S, its time t[q].
Lists(s, S, t) == \E f \in Bijection(DOMAIN s, S) : \A i \in DOMAIN s : s[i] = t[f[i]]

\* The vector s has entries of requests of S only, none twice.
ListsSome(s, S, t) == \E T \in SUBSET S : Lists(s, T, t)

\* What a bijection is, in the form the proofs below use.
LEMMA BijectionDef ==
    ASSUME NEW S, NEW T, NEW f
    PROVE  f \in Bijection(S, T) <=>
             /\ f \in [S -> T]
             /\ \A a, b \in S : f[a] = f[b] => a = b
             /\ \A y \in T : \E x \in S : f[x] = y
<1> DEFINE Inj == \A a, b \in S : f[a] = f[b] => a = b
           Sur == \A y \in T : \E x \in S : f[x] = y
<1>1. f \in Injection(S, T) <=> f \in [S -> T] /\ Inj
  <2>1. f \in Injection(S, T) <=> f \in [S -> T] /\ IsInjective(f)
    BY DEF Injection
  <2>2. f \in [S -> T] => (IsInjective(f) <=> Inj)
    BY DEF IsInjective
  <2> QED BY <2>1, <2>2
<1>2. f \in Surjection(S, T) <=> f \in [S -> T] /\ Sur
  BY Zenon DEF Surjection
<1>3. f \in Bijection(S, T) <=> f \in Injection(S, T) /\ f \in Surjection(S, T)
  BY DEF Bijection
<1> HIDE DEF Inj, Sur
<1>4. f \in Bijection(S, T) <=> f \in [S -> T] /\ Inj /\ Sur
  BY <1>1, <1>2, <1>3
<1> QED BY <1>4 DEF Inj, Sur

\* The empty vector lists nobody.
LEMMA ListsNobody ==
    ASSUME NEW S, NEW t
    PROVE  Lists(<<>>, {}, t) /\ ListsSome(<<>>, S, t)
<1> DEFINE e == [i \in {} |-> i]
<1>1. e \in [{} -> {}]
  OBVIOUS
<1> HIDE DEF e
<1>2. e \in Bijection({}, {})
  BY <1>1, BijectionDef
<1>3. DOMAIN <<>> = {}
  OBVIOUS
<1>4. Lists(<<>>, {}, t)
  BY <1>2, <1>3 DEF Lists
<1> QED BY <1>4 DEF ListsSome

\* Only the times of the listed requests matter.
LEMMA ListsSame ==
    ASSUME NEW s, NEW S, NEW t, NEW u, \A q \in S : u[q] = t[q]
    PROVE  /\ Lists(s, S, t) => Lists(s, S, u)
           /\ ListsSome(s, S, t) => ListsSome(s, S, u)
<1>1. ASSUME NEW T \in SUBSET S, Lists(s, T, t) PROVE Lists(s, T, u)
  <2>1. PICK f \in Bijection(DOMAIN s, T) : \A i \in DOMAIN s : s[i] = t[f[i]]
    BY <1>1 DEF Lists
  <2>2. \A i \in DOMAIN s : f[i] \in T
    BY BijectionDef
  <2>3. \A i \in DOMAIN s : s[i] = u[f[i]]
    BY <2>1, <2>2
  <2> QED BY <2>3 DEF Lists
<1> QED BY <1>1 DEF ListsSome

\* One more entry for a request that had none.
LEMMA ListsAppend ==
    ASSUME NEW X, NEW s \in Seq(X), NEW x \in X, NEW S, NEW t, Lists(s, S, t),
           NEW q, q \notin S, t[q] = x
    PROVE  Lists(Append(s, x), S \cup {q}, t)
<1> DEFINE n == Len(s)
           a == Append(s, x)
<1>1. /\ n \in Nat /\ DOMAIN s = 1 .. n /\ DOMAIN a = 1 .. n + 1
      /\ \A i \in 1 .. n : a[i] = s[i]
      /\ a[n + 1] = x
  OBVIOUS
<1> HIDE DEF n, a
<1>2. PICK f \in Bijection(1 .. n, S) : \A i \in 1 .. n : s[i] = t[f[i]]
  BY <1>1 DEF Lists
<1>3. /\ f \in [1 .. n -> S]
      /\ \A i, j \in 1 .. n : f[i] = f[j] => i = j
      /\ \A y \in S : \E i \in 1 .. n : f[i] = y
  <2> DEFINE I == 1 .. n
  <2> HIDE DEF I
  <2>1. f \in Bijection(I, S)
    BY DEF I
  <2>2. /\ f \in [I -> S]
        /\ \A i, j \in I : f[i] = f[j] => i = j
        /\ \A y \in S : \E i \in I : f[i] = y
    BY <2>1, BijectionDef
  <2> QED BY <2>2 DEF I
<1> DEFINE g == [i \in 1 .. n + 1 |-> IF i = n + 1 THEN q ELSE f[i]]
<1>4. /\ \A i \in 1 .. n + 1 : i = n + 1 \/ i \in 1 .. n
      /\ 1 .. n \subseteq 1 .. n + 1 /\ n + 1 \in 1 .. n + 1
      /\ n + 1 \notin 1 .. n
  BY <1>1
<1>5. g[n + 1] = q /\ \A i \in 1 .. n : g[i] = f[i]
  BY <1>4
<1>6. g \in [1 .. n + 1 -> S \cup {q}]
  BY <1>3, <1>4
<1> HIDE DEF g
<1>7. \A i, j \in 1 .. n + 1 : g[i] = g[j] => i = j
  BY <1>3, <1>4, <1>5
<1>8. \A y \in S \cup {q} : \E i \in 1 .. n + 1 : g[i] = y
  BY <1>3, <1>4, <1>5
<1>9. g \in Bijection(1 .. n + 1, S \cup {q})
  <2> DEFINE I == 1 .. n + 1
             T == S \cup {q}
  <2>1. /\ g \in [I -> T]
        /\ \A i, j \in I : g[i] = g[j] => i = j
        /\ \A y \in T : \E i \in I : g[i] = y
    BY <1>6, <1>7, <1>8
  <2> HIDE DEF I, T
  <2>2. g \in Bijection(I, T)
    BY <2>1, BijectionDef
  <2> QED BY <2>2 DEF I, T
<1>10. \A i \in 1 .. n + 1 : a[i] = t[g[i]]
  BY <1>1, <1>2, <1>4, <1>5
<1> QED BY <1>1, <1>9, <1>10 DEF Lists, a

\* A listed request has an entry.
LEMMA ListsHas ==
    ASSUME NEW s, NEW S, NEW t, Lists(s, S, t), NEW q \in S
    PROVE  \E i \in DOMAIN s : s[i] = t[q]
<1>1. PICK f \in Bijection(DOMAIN s, S) : \A i \in DOMAIN s : s[i] = t[f[i]]
  BY DEF Lists
<1>2. PICK i \in DOMAIN s : f[i] = q
  BY BijectionDef
<1> QED BY <1>1, <1>2

\* The entries in a window are as many as the requests in it.
LEMMA ListsCount ==
    ASSUME NEW s \in Seq(Times), NEW S, NEW t, Lists(s, S, t),
           NEW W, W = {q \in S : now - t[q] <= Interval}
    PROVE  /\ IsFiniteSet(Recent(s)) /\ IsFiniteSet(W)
           /\ Cardinality(Recent(s)) \in Nat
           /\ Cardinality(Recent(s)) = Cardinality(W)
<1> DEFINE R == Recent(s)
<1>1. PICK f \in Bijection(DOMAIN s, S) : \A i \in DOMAIN s : s[i] = t[f[i]]
  BY DEF Lists
<1>2. /\ f \in [DOMAIN s -> S]
      /\ \A i, j \in DOMAIN s : f[i] = f[j] => i = j
      /\ \A y \in S : \E i \in DOMAIN s : f[i] = y
  BY BijectionDef
<1>3. IsFiniteSet(R)
  <2>1. DOMAIN s = 1 .. Len(s) /\ Len(s) \in Nat
    OBVIOUS
  <2>2. IsFiniteSet(DOMAIN s)
    BY <2>1, FS_Interval
  <2>3. R \in SUBSET DOMAIN s
    BY DEF Recent
  <2> HIDE DEF R
  <2> QED BY <2>2, <2>3, FS_Subset
<1> DEFINE g == [i \in R |-> f[i]]
<1>4. \A i \in R : f[i] \in W
  BY <1>1, <1>2 DEF Recent
<1>5. \A y \in W : \E i \in R : f[i] = y
  BY <1>1, <1>2 DEF Recent
<1>6. R \subseteq DOMAIN s
  BY DEF Recent
<1> HIDE DEF R
<1>7. g \in [R -> W]
  BY <1>4
<1>8. \A i \in R : g[i] = f[i]
  OBVIOUS
<1> HIDE DEF g
<1>9. g \in Bijection(R, W)
  <2>1. \A a, b \in R : g[a] = g[b] => a = b
    BY <1>2, <1>6, <1>8
  <2>2. \A y \in W : \E x \in R : g[x] = y
    BY <1>5, <1>8
  <2> QED BY <1>7, <2>1, <2>2, BijectionDef
<1>10. ExistsBijection(R, W)
  BY <1>9 DEF ExistsBijection
<1>11. IsFiniteSet(W) /\ Cardinality(W) = Cardinality(R)
  BY <1>3, <1>10, FS_Bijection
<1>12. Cardinality(R) \in Nat
  BY <1>3, FS_CardinalityType
<1> QED BY <1>3, <1>11, <1>12 DEF R

-----------------------------------------------------------------------------
(* The invariant. *)

LoggedTime == [q \in Requests |-> request[q].logged]
FailedTime == [q \in Requests |-> request[q].failed]

View == [logged : SUBSET Requests, failed : SUBSET Requests]

\* What a request remembers: it fails once, and when its failure did not overtake its
\* log entry, that entry is older and was seen.
Known(r) ==
    /\ request[r].proto = None => request[r].logged = None /\ request[r].failed = None
    /\ request[r].logged # None => request[r].logged <= now
    /\ request[r].copy # None \/ request[r].verdict # None => request[r].failed # None
    /\ request[r].failed # None =>
          /\ request[r].ended
          /\ request[r].failed <= now
          /\ request[r].saw \in View
          /\ \A m \in request[r].saw.logged : request[m].logged # None
          /\ \A m \in request[r].saw.failed : request[m].failed # None
          /\ ~request[r].overtook => /\ request[r].logged # None
                                     /\ request[r].logged <= request[r].failed
                                     /\ r \in request[r].saw.logged

\* The two vectors of a protocol.
Vectors(p) ==
    /\ Lists(connections[p], Logged(p), LoggedTime)
    /\ ListsSome(reports[p], Failed(p), FailedTime)
    /\ clears = 0 => Lists(reports[p], Failed(p), FailedTime)

\* The copies of them a validate works on.
Copied(r) ==
    request[r].copy # None =>
        /\ Lists(request[r].copy.rqVec, request[r].saw.logged, LoggedTime)
        /\ ListsSome(request[r].copy.vec, request[r].saw.failed, FailedTime)
        /\ clears = 0 => Lists(request[r].copy.vec, request[r].saw.failed, FailedTime)
        /\ ~request[r].raced =>
              \E i \in DOMAIN request[r].copy.vec : request[r].copy.vec[i] = request[r].failed

\* The properties, for one request.
UndefinedWhenLate(r) ==
    request[r].verdict = "undefined" =>
        \/ request[r].overtook
        \/ request[r].raced
        \/ request[r].decided - request[r].logged > Interval

SeenLogged(r) == {q \in request[r].saw.logged : request[r].decided - request[q].logged <= Interval}
SeenFailed(r) == {q \in request[r].saw.failed : request[r].decided - request[q].failed <= Interval}

Justified(r) ==
    request[r].verdict = "notify" =>
        100 * Cardinality(SeenFailed(r)) > Threshold * Cardinality(SeenLogged(r))

SomeSurvived(r) ==
    request[r].verdict = "quiet" =>
        \/ clears > 0
        \/ /\ 100 * Cardinality(SeenFailed(r)) <= Threshold * Cardinality(SeenLogged(r))
           /\ \/ Threshold >= 100
              \/ \E q \in request[r].saw.failed : request[q].overtook
              \/ ~(SeenLogged(r) \subseteq request[r].saw.failed)

Decided(r) == UndefinedWhenLate(r) /\ Justified(r) /\ SomeSurvived(r)

MonitorInv ==
    /\ TypeOK
    /\ \A r \in Requests : Known(r)
    /\ \A p \in Protocols : Vectors(p)
    /\ \A r \in Requests : Copied(r)
    /\ \A r \in Requests : Decided(r)

-----------------------------------------------------------------------------
(* What no step changes. *)

\* Times once set, and what was seen at a failure, are never written again.
Keeps ==
    /\ \A m \in Requests :
          /\ request[m].logged # None => request'[m].logged = request[m].logged
          /\ request[m].failed # None => /\ request'[m].failed = request[m].failed
                                         /\ request'[m].saw = request[m].saw
                                         /\ request'[m].overtook = request[m].overtook
                                         /\ request'[m].raced = request[m].raced
    /\ clears > 0 => clears' > 0
    /\ clears' = 0 => clears = 0

\* The sets a request saw keep their times.
LEMMA SeenKept ==
    ASSUME MonitorInv, Keeps, NEW r \in Requests, request[r].failed # None
    PROVE  /\ request'[r].saw = request[r].saw
           /\ request[r].saw.logged \subseteq Requests /\ request[r].saw.failed \subseteq Requests
           /\ \A q \in request[r].saw.logged : request'[q].logged = request[q].logged
           /\ \A q \in request[r].saw.failed : /\ request'[q].failed = request[q].failed
                                               /\ request'[q].overtook = request[q].overtook
           /\ \A q \in request[r].saw.logged : LoggedTime'[q] = LoggedTime[q]
           /\ \A q \in request[r].saw.failed : FailedTime'[q] = FailedTime[q]
<1>1. Known(r)
  BY DEF MonitorInv
<1>2. /\ request[r].saw.logged \subseteq Requests /\ request[r].saw.failed \subseteq Requests
      /\ \A m \in request[r].saw.logged : request[m].logged # None
      /\ \A m \in request[r].saw.failed : request[m].failed # None
  BY <1>1 DEF Known, View
<1>3. /\ \A q \in request[r].saw.logged : request'[q].logged = request[q].logged
      /\ \A q \in request[r].saw.failed : /\ request'[q].failed = request[q].failed
                                          /\ request'[q].overtook = request[q].overtook
  BY <1>2 DEF Keeps
<1>4. \A q \in Requests : /\ LoggedTime[q] = request[q].logged /\ LoggedTime'[q] = request'[q].logged
                          /\ FailedTime[q] = request[q].failed /\ FailedTime'[q] = request'[q].failed
  BY DEF LoggedTime, FailedTime
<1>5. request'[r].saw = request[r].saw
  BY DEF Keeps
<1> QED BY <1>2, <1>3, <1>4, <1>5

\* So copies that are not yet compared stay as good as they were.
LEMMA CopiedKept ==
    ASSUME MonitorInv, Keeps, NEW r \in Requests, request'[r].copy = request[r].copy
    PROVE  Copied(r)'
<1> SUFFICES ASSUME request[r].copy # None
             PROVE  Copied(r)'
  BY DEF Copied
<1>1. request[r].failed # None
  BY DEF MonitorInv, Known
<1>2. /\ Lists(request[r].copy.rqVec, request[r].saw.logged, LoggedTime)
      /\ ListsSome(request[r].copy.vec, request[r].saw.failed, FailedTime)
      /\ clears = 0 => Lists(request[r].copy.vec, request[r].saw.failed, FailedTime)
      /\ ~request[r].raced =>
            \E i \in DOMAIN request[r].copy.vec : request[r].copy.vec[i] = request[r].failed
  BY DEF MonitorInv, Copied
<1>3. /\ request'[r].saw = request[r].saw
      /\ \A q \in request[r].saw.logged : LoggedTime'[q] = LoggedTime[q]
      /\ \A q \in request[r].saw.failed : FailedTime'[q] = FailedTime[q]
  BY <1>1, SeenKept
<1>4. request'[r].failed = request[r].failed /\ request'[r].raced = request[r].raced
  BY <1>1 DEF Keeps
<1>5. Lists(request[r].copy.rqVec, request[r].saw.logged, LoggedTime')
  BY <1>2, <1>3, ListsSame
<1>6. /\ ListsSome(request[r].copy.vec, request[r].saw.failed, FailedTime')
      /\ clears = 0 => Lists(request[r].copy.vec, request[r].saw.failed, FailedTime')
  BY <1>2, <1>3, ListsSame
<1> QED BY <1>2, <1>3, <1>4, <1>5, <1>6 DEF Copied, Keeps

\* And so do verdicts.
LEMMA DecidedKept ==
    ASSUME MonitorInv, Keeps, NEW r \in Requests,
           request'[r].verdict = request[r].verdict, request'[r].decided = request[r].decided
    PROVE  Decided(r)'
<1>1. CASE request[r].verdict = None
  <2>1. request'[r].verdict \notin Verdicts
    BY <1>1, NoneAssumption
  <2> QED BY <2>1 DEF Decided, UndefinedWhenLate, Justified, SomeSurvived, Verdicts
<1>2. CASE request[r].verdict # None
  <2>1. request[r].failed # None /\ (~request[r].overtook => request[r].logged # None)
    BY <1>2 DEF MonitorInv, Known
  <2>2. /\ request'[r].saw = request[r].saw
        /\ \A q \in request[r].saw.logged : request'[q].logged = request[q].logged
        /\ \A q \in request[r].saw.failed : /\ request'[q].failed = request[q].failed
                                            /\ request'[q].overtook = request[q].overtook
    BY <2>1, SeenKept
  <2>3. SeenLogged(r)' = SeenLogged(r) /\ SeenFailed(r)' = SeenFailed(r)
    BY <2>2 DEF SeenLogged, SeenFailed
  <2>4. Decided(r)
    BY DEF MonitorInv
  <2>5. UndefinedWhenLate(r)'
    BY <2>1, <2>4 DEF Decided, UndefinedWhenLate, Keeps
  <2>6. Justified(r)'
    BY <2>3, <2>4 DEF Decided, Justified
  <2>7. SomeSurvived(r)'
    BY <2>2, <2>3, <2>4 DEF Decided, SomeSurvived, Keeps
  <2> QED BY <2>5, <2>6, <2>7 DEF Decided
<1> QED BY <1>1, <1>2

\* A request nothing happens to.
LEMMA KnownKept ==
    ASSUME MonitorInv, Keeps, NEW r \in Requests, request'[r] = request[r],
           now' \in Times, now <= now'
    PROVE  Known(r)'
<1>1. Known(r) /\ now \in Nat /\ now' \in Nat /\ request[r] \in Request
  BY FailureMonitorAssumption DEF MonitorInv, TypeOK, Times
<1>2. /\ request[r].logged # None => request[r].logged \in Nat
      /\ request[r].failed # None => request[r].failed \in Nat
  BY <1>1, FailureMonitorAssumption DEF Request, Times
<1>3. CASE request[r].failed = None
  BY <1>1, <1>2, <1>3 DEF Known
<1>4. CASE request[r].failed # None
  <2>1. /\ request[r].saw.logged \subseteq Requests /\ request[r].saw.failed \subseteq Requests
        /\ \A q \in request[r].saw.logged : request'[q].logged = request[q].logged
        /\ \A q \in request[r].saw.failed : request'[q].failed = request[q].failed
    BY <1>4, SeenKept
  <2>2. request[r].failed <= now' /\ (request[r].logged # None => request[r].logged <= now')
    BY <1>1, <1>2, <1>4 DEF Known
  <2> QED BY <1>1, <1>4, <2>1, <2>2 DEF Known
<1> QED BY <1>3, <1>4

\* A protocol none of whose entries and requests change.
LEMMA VectorsKept ==
    ASSUME MonitorInv, Keeps, NEW p \in Protocols,
           connections'[p] = connections[p], reports'[p] = reports[p],
           Logged(p)' = Logged(p), Failed(p)' = Failed(p)
    PROVE  Vectors(p)'
<1>1. Vectors(p)
  BY DEF MonitorInv
<1>2. \A q \in Logged(p) : LoggedTime'[q] = LoggedTime[q]
  BY DEF Keeps, Logged, Of, LoggedTime
<1>3. \A q \in Failed(p) : FailedTime'[q] = FailedTime[q]
  BY DEF Keeps, Failed, Of, FailedTime
<1>4. Lists(connections[p], Logged(p), LoggedTime')
  BY <1>1, <1>2, ListsSame DEF Vectors
<1>5. /\ ListsSome(reports[p], Failed(p), FailedTime')
      /\ clears = 0 => Lists(reports[p], Failed(p), FailedTime')
  BY <1>1, <1>3, ListsSame DEF Vectors
<1> QED BY <1>4, <1>5 DEF Vectors, Keeps

-----------------------------------------------------------------------------
(* The actions. *)

\* A step that writes one request.
LEMMA OneRequest ==
    ASSUME MonitorInv, Keeps, TypeOK', NEW r \in Requests, now' = now,
           \A m \in Requests \ {r} : request'[m] = request[m],
           Known(r)', Copied(r)', Decided(r)', \A p \in Protocols : Vectors(p)'
    PROVE  MonitorInv'
<1>1. now' \in Times /\ now <= now'
  BY FailureMonitorAssumption DEF MonitorInv, TypeOK, Times
<1>2. \A m \in Requests \ {r} : Known(m)'
  BY <1>1, KnownKept
<1>3. \A m \in Requests \ {r} : Copied(m)'
  BY CopiedKept
<1>4. \A m \in Requests \ {r} : Decided(m)'
  BY DecidedKept
<1> QED BY <1>2, <1>3, <1>4 DEF MonitorInv

\* The record of a request, and what it is worth.
LEMMA RequestFacts ==
    ASSUME MonitorInv, NEW r \in Requests
    PROVE  /\ request \in [Requests -> Request] /\ request[r] \in Request
           /\ Known(r) /\ Copied(r) /\ Decided(r)
           /\ now \in Times /\ now \in Nat /\ clears \in Nat
           /\ now # None
           /\ request[r].logged # None => request[r].logged \in Nat
           /\ request[r].failed # None => request[r].failed \in Nat
<1>1. now \in Times /\ now \in Nat /\ clears \in Nat /\ now # None
  BY FailureMonitorAssumption, NoneAssumption DEF MonitorInv, TypeOK, Times
<1>2. request \in [Requests -> Request] /\ request[r] \in Request
  BY DEF MonitorInv, TypeOK
<1>3. /\ request[r].logged # None => request[r].logged \in Nat
      /\ request[r].failed # None => request[r].failed \in Nat
  BY <1>2, FailureMonitorAssumption DEF Request, Times
<1> QED BY <1>1, <1>2, <1>3 DEF MonitorInv

LEMMA startWithRequestInv ==
    ASSUME MonitorInv, NEW r \in Requests, NEW p \in Protocols, startWithRequest(r, p)
    PROVE  MonitorInv'
<1> DEFINE new == [request[r] EXCEPT !.proto = p]
<1>1. /\ request[r] \in Request /\ request \in [Requests -> Request]
      /\ Known(r) /\ now \in Times /\ now \in Nat /\ clears \in Nat
  BY RequestFacts
<1>2. /\ request[r].proto = None /\ request' = [request EXCEPT ![r] = new]
      /\ UNCHANGED <<reports, connections, clears, crashed, now>>
  BY <1>1 DEF startWithRequest
<1>3. request[r].logged = None /\ request[r].failed = None
  BY <1>1, <1>2 DEF Known
<1>4. /\ new \in Request /\ new.proto = p
      /\ new.logged = request[r].logged /\ new.failed = request[r].failed
      /\ new.copy = request[r].copy /\ new.verdict = request[r].verdict
      /\ new.decided = request[r].decided
  BY <1>1 DEF Request
<1> HIDE DEF new
<1>5. /\ request' \in [Requests -> Request] /\ request'[r] = new
      /\ \A m \in Requests \ {r} : request'[m] = request[m]
  BY <1>1, <1>2, <1>4
<1>6. Keeps
  BY <1>2, <1>3, <1>5 DEF Keeps
<1>7. TypeOK'
  BY <1>2, <1>5 DEF MonitorInv, TypeOK
<1>8. \A q \in Protocols : Logged(q)' = Logged(q) /\ Failed(q)' = Failed(q)
  BY <1>3, <1>4, <1>5 DEF Logged, Failed, Of
<1>9. \A q \in Protocols : Vectors(q)'
  BY <1>2, <1>6, <1>8, VectorsKept
<1>10. Known(r)'
  <2>1. p # None
    BY NoneAssumption
  <2> QED BY <1>1, <1>3, <1>4, <1>5, <2>1 DEF Known
<1>11. Copied(r)' /\ Decided(r)'
  BY <1>4, <1>5, <1>6, CopiedKept, DecidedKept
<1> QED BY <1>2, <1>5, <1>6, <1>7, <1>9, <1>10, <1>11, OneRequest

LEMMA connectionDidFinishInv ==
    ASSUME MonitorInv, NEW r \in Requests, connectionDidFinish(r)
    PROVE  MonitorInv'
<1> DEFINE new == [request[r] EXCEPT !.ended = TRUE]
<1>1. /\ request[r] \in Request /\ request \in [Requests -> Request]
      /\ Known(r) /\ now \in Times /\ now \in Nat /\ clears \in Nat
  BY RequestFacts
<1>2. /\ ~request[r].ended /\ request' = [request EXCEPT ![r] = new]
      /\ UNCHANGED <<reports, connections, clears, crashed, now>>
  BY <1>1 DEF connectionDidFinish
<1>3. request[r].failed = None
  BY <1>1, <1>2 DEF Known
<1>4. /\ new \in Request /\ new.proto = request[r].proto
      /\ new.logged = request[r].logged /\ new.failed = request[r].failed
      /\ new.copy = request[r].copy /\ new.verdict = request[r].verdict
      /\ new.decided = request[r].decided
  BY <1>1 DEF Request
<1> HIDE DEF new
<1>5. /\ request' \in [Requests -> Request] /\ request'[r] = new
      /\ \A m \in Requests \ {r} : request'[m] = request[m]
  BY <1>1, <1>2, <1>4
<1>6. Keeps
  BY <1>2, <1>3, <1>4, <1>5 DEF Keeps
<1>7. TypeOK'
  BY <1>2, <1>5 DEF MonitorInv, TypeOK
<1>8. \A q \in Protocols : Logged(q)' = Logged(q) /\ Failed(q)' = Failed(q)
  BY <1>4, <1>5 DEF Logged, Failed, Of
<1>9. \A q \in Protocols : Vectors(q)'
  BY <1>2, <1>6, <1>8, VectorsKept
<1>10. Known(r)'
  BY <1>1, <1>2, <1>3, <1>4, <1>5 DEF Known
<1>11. Copied(r)' /\ Decided(r)'
  BY <1>4, <1>5, <1>6, CopiedKept, DecidedKept
<1> QED BY <1>2, <1>5, <1>6, <1>7, <1>9, <1>10, <1>11, OneRequest

\* A log entry is the time the request remembers.
LEMMA logConnectionInv ==
    ASSUME MonitorInv, NEW r \in Requests, logConnection(r)
    PROVE  MonitorInv'
<1> DEFINE new == [request[r] EXCEPT !.logged = now]
<1>1. /\ request[r] \in Request /\ request \in [Requests -> Request]
      /\ Known(r) /\ now \in Times /\ now \in Nat /\ clears \in Nat /\ now # None
  BY RequestFacts
<1>0. PICK p \in Protocols : p = request[r].proto
  BY <1>1 DEF logConnection, Request
<1>2. /\ p # None /\ request[r].logged = None /\ request' = [request EXCEPT ![r] = new]
      /\ connections' = [connections EXCEPT ![p] = Append(connections[p], now)]
      /\ UNCHANGED <<reports, clears, crashed, now>>
  BY <1>0, <1>1 DEF logConnection, MonitorInv, TypeOK
<1>3. connections \in [Protocols -> Seq(Times)] /\ connections[p] \in Seq(Times)
  BY DEF MonitorInv, TypeOK
<1>4. /\ new \in Request /\ new.proto = p
      /\ new.logged = now /\ new.failed = request[r].failed /\ new.ended = request[r].ended
      /\ new.copy = request[r].copy /\ new.verdict = request[r].verdict
      /\ new.decided = request[r].decided /\ new.saw = request[r].saw
      /\ new.overtook = request[r].overtook /\ new.raced = request[r].raced
  BY <1>0, <1>1 DEF Request
<1> HIDE DEF new
<1>5. /\ request' \in [Requests -> Request] /\ request'[r] = new
      /\ \A m \in Requests \ {r} : request'[m] = request[m]
  BY <1>1, <1>2, <1>4
<1>6. Keeps
  BY <1>2, <1>4, <1>5 DEF Keeps
<1>7. /\ connections' \in [Protocols -> Seq(Times)] /\ connections'[p] = Append(connections[p], now)
      /\ \A q \in Protocols \ {p} : connections'[q] = connections[q]
  BY <1>1, <1>2, <1>3
<1>8. TypeOK'
  BY <1>2, <1>5, <1>7 DEF MonitorInv, TypeOK
<1>9. /\ Logged(p)' = Logged(p) \cup {r} /\ r \notin Logged(p)
      /\ \A q \in Protocols \ {p} : Logged(q)' = Logged(q)
      /\ \A q \in Protocols : Failed(q)' = Failed(q)
  BY <1>0, <1>1, <1>2, <1>4, <1>5 DEF Logged, Failed, Of
<1>10. \A q \in Protocols \ {p} : Vectors(q)'
  BY <1>2, <1>6, <1>7, <1>9, VectorsKept
<1>11. Vectors(p)'
  <2>1. Vectors(p)
    BY <1>3 DEF MonitorInv
  <2>2. \A q \in Logged(p) : LoggedTime'[q] = LoggedTime[q]
    BY <1>6 DEF Keeps, Logged, Of, LoggedTime
  <2>3. FailedTime' = FailedTime
    BY <1>4, <1>5 DEF FailedTime
  <2>4. LoggedTime'[r] = now
    BY <1>4, <1>5 DEF LoggedTime
  <2>5. Lists(connections[p], Logged(p), LoggedTime')
    BY <2>1, <2>2, ListsSame DEF Vectors
  <2>6. Lists(Append(connections[p], now), Logged(p) \cup {r}, LoggedTime')
    BY <1>1, <1>3, <1>9, <2>4, <2>5, ListsAppend
  <2> QED BY <1>2, <1>3, <1>7, <1>9, <2>1, <2>3, <2>6 DEF Vectors
<1>12. Known(r)'
  <2>1. CASE request[r].failed = None
    BY <1>0, <1>1, <1>2, <1>4, <1>5, <2>1 DEF Known
  <2>2. CASE request[r].failed # None
    <3>1. request[r].overtook
      BY <1>1, <1>2, <2>2 DEF Known
    <3>2. /\ request[r].saw.logged \subseteq Requests /\ request[r].saw.failed \subseteq Requests
          /\ \A q \in request[r].saw.logged : request'[q].logged = request[q].logged
          /\ \A q \in request[r].saw.failed : request'[q].failed = request[q].failed
      BY <1>6, <2>2, SeenKept
    <3>3. now <= now
      BY <1>1
    <3> QED BY <1>0, <1>1, <1>2, <1>4, <1>5, <2>2, <3>1, <3>2, <3>3 DEF Known
  <2> QED BY <2>1, <2>2
<1>13. Copied(r)' /\ Decided(r)'
  BY <1>4, <1>5, <1>6, CopiedKept, DecidedKept
<1> QED BY <1>2, <1>5, <1>6, <1>8, <1>10, <1>11, <1>12, <1>13, OneRequest

\* A failure is reported once, by a request that had none.
LEMMA ReportedFacts ==
    ASSUME MonitorInv, NEW r \in Requests, NEW p \in Protocols, p = request[r].proto,
           ~request[r].ended, NEW vec \in Seq(Times), NEW raced \in BOOLEAN, Reported(r, vec, raced)
    PROVE  /\ request' \in [Requests -> Request]
           /\ \A m \in Requests \ {r} : request'[m] = request[m]
           /\ request'[r].proto = p
           /\ request'[r].logged = request[r].logged
           /\ request'[r].ended
           /\ request'[r].failed = now
           /\ request'[r].copy = [vec |-> vec, rqVec |-> connections[p]]
           /\ request'[r].saw = [logged |-> Logged(p), failed |-> Failed(p) \cup {r}]
           /\ request'[r].overtook = (request[r].logged = None)
           /\ request'[r].raced = raced
           /\ request'[r].verdict = None
           /\ request[r].failed = None
<1>1. /\ request[r] \in Request /\ request \in [Requests -> Request]
      /\ Known(r) /\ now \in Times
  BY RequestFacts
<1>2. request[r].failed = None
  BY <1>1 DEF Known
<1>3. request[r].verdict = None
  BY <1>1, <1>2 DEF Known
<1> DEFINE copy == [vec |-> vec, rqVec |-> connections[p]]
           saw == [logged |-> Logged(p), failed |-> Failed(p) \cup {r}]
           over == (request[r].logged = None)
           new == [request[r] EXCEPT !.ended = TRUE, !.failed = now, !.copy = copy, !.saw = saw,
                                     !.overtook = over, !.raced = raced]
<1>4. request' = [request EXCEPT ![r] = new]
  BY <1>1 DEF Reported
<1>5. copy \in [vec : Seq(Times), rqVec : Seq(Times)]
  BY DEF MonitorInv, TypeOK
<1>6. saw \in [logged : SUBSET Requests, failed : SUBSET Requests]
  BY DEF Logged, Failed, Of
<1>7. over \in BOOLEAN
  OBVIOUS
<1> HIDE DEF copy, saw, over
<1>8. /\ new \in Request
      /\ new.proto = request[r].proto /\ new.logged = request[r].logged /\ new.ended
      /\ new.failed = now /\ new.copy = copy /\ new.saw = saw /\ new.overtook = over
      /\ new.raced = raced /\ new.verdict = request[r].verdict
  <2>1. new \in Request
    BY <1>1, <1>5, <1>6, <1>7 DEF Request
  <2>2. /\ new.proto = request[r].proto /\ new.logged = request[r].logged /\ new.ended
        /\ new.failed = now /\ new.verdict = request[r].verdict
    BY <1>1 DEF Request
  <2>3. /\ new.copy = copy /\ new.saw = saw /\ new.overtook = over /\ new.raced = raced
    BY <1>1 DEF Request
  <2> QED BY <2>1, <2>2, <2>3
<1> HIDE DEF new
<1>9. /\ request' \in [Requests -> Request] /\ request'[r] = new
      /\ \A m \in Requests \ {r} : request'[m] = request[m]
  BY <1>1, <1>4, <1>8
<1> QED BY <1>2, <1>3, <1>8, <1>9 DEF copy, saw, over

\* What it changes about times and about the sets of requests.
LEMMA ReportedSets ==
    ASSUME MonitorInv, NEW r \in Requests, NEW p \in Protocols, p = request[r].proto,
           request[r].failed = None, request'[r].proto = p, request'[r].failed = now,
           request'[r].logged = request[r].logged,
           \A m \in Requests \ {r} : request'[m] = request[m],
           clears > 0 => clears' > 0, clears' = 0 => clears = 0
    PROVE  /\ Keeps
           /\ \A q \in Protocols : Logged(q)' = Logged(q)
           /\ \A q \in Protocols \ {p} : Failed(q)' = Failed(q)
           /\ Failed(p)' = Failed(p) \cup {r}
           /\ r \notin Failed(p)
           /\ LoggedTime' = LoggedTime
           /\ FailedTime'[r] = now
           /\ \A q \in Failed(p) : FailedTime'[q] = FailedTime[q]
<1>1. now # None
  BY RequestFacts
<1>2. Keeps
  BY DEF Keeps
<1>3. \A q \in Protocols : Logged(q)' = Logged(q)
  BY DEF Logged, Of
<1>4. /\ \A q \in Protocols \ {p} : Failed(q)' = Failed(q)
      /\ Failed(p)' = Failed(p) \cup {r} /\ r \notin Failed(p)
  BY <1>1 DEF Failed, Of
<1>5. LoggedTime' = LoggedTime /\ FailedTime'[r] = now
  BY DEF LoggedTime, FailedTime
<1>6. \A q \in Failed(p) : FailedTime'[q] = FailedTime[q]
  BY DEF Failed, Of, FailedTime
<1> QED BY <1>2, <1>3, <1>4, <1>5, <1>6

\* The copies are made of the vectors as they stand, or as the race leaves them.
LEMMA ReportedInv ==
    ASSUME MonitorInv, NEW r \in Requests, NEW p \in Protocols, p = request[r].proto,
           ~request[r].ended, NEW vec \in Seq(Times), NEW raced \in BOOLEAN, Reported(r, vec, raced),
           clears > 0 => clears' > 0, clears' = 0 => clears = 0, clears' \in 0 .. MaxClears,
           UNCHANGED <<connections, crashed, now>>, reports' \in [Protocols -> Seq(Times)],
           ListsSome(vec, Failed(p) \cup {r}, FailedTime'),
           clears' = 0 => Lists(vec, Failed(p) \cup {r}, FailedTime'),
           ~raced => \E i \in DOMAIN vec : vec[i] = now,
           ListsSome(reports'[p], Failed(p) \cup {r}, FailedTime'),
           clears' = 0 => Lists(reports'[p], Failed(p) \cup {r}, FailedTime'),
           \A q \in Protocols \ {p} : (reports'[q] = <<>> /\ clears' > 0) \/ reports'[q] = reports[q]
    PROVE  MonitorInv'
<1>1. /\ Known(r) /\ now \in Times /\ now \in Nat /\ now # None /\ clears \in Nat
      /\ request[r].logged # None => request[r].logged \in Nat
  BY RequestFacts
<1>2. /\ request' \in [Requests -> Request]
      /\ \A m \in Requests \ {r} : request'[m] = request[m]
      /\ request'[r].proto = p
      /\ request'[r].logged = request[r].logged
      /\ request'[r].ended
      /\ request'[r].failed = now
      /\ request'[r].copy = [vec |-> vec, rqVec |-> connections[p]]
      /\ request'[r].saw = [logged |-> Logged(p), failed |-> Failed(p) \cup {r}]
      /\ request'[r].overtook = (request[r].logged = None)
      /\ request'[r].raced = raced
      /\ request'[r].verdict = None
      /\ request[r].failed = None
  BY ReportedFacts
<1>3. /\ Keeps
      /\ \A q \in Protocols : Logged(q)' = Logged(q)
      /\ \A q \in Protocols \ {p} : Failed(q)' = Failed(q)
      /\ Failed(p)' = Failed(p) \cup {r}
      /\ LoggedTime' = LoggedTime
  BY <1>2, ReportedSets
<1>4. TypeOK'
  BY <1>2 DEF MonitorInv, TypeOK
<1>5. Decided(r)'
  <2>1. request'[r].verdict \notin Verdicts
    BY <1>2, NoneAssumption
  <2> QED BY <2>1 DEF Decided, UndefinedWhenLate, Justified, SomeSurvived, Verdicts
<1>6. Copied(r)'
  <2>1. /\ request'[r].copy.vec = vec /\ request'[r].copy.rqVec = connections[p]
        /\ request'[r].saw.logged = Logged(p) /\ request'[r].saw.failed = Failed(p) \cup {r}
    BY <1>2
  <2>2. Lists(connections[p], Logged(p), LoggedTime)
    BY DEF MonitorInv, Vectors
  <2> QED BY <1>2, <1>3, <2>1, <2>2 DEF Copied
<1>7. Known(r)'
  <2>1. /\ request'[r].saw.logged = Logged(p) /\ request'[r].saw.failed = Failed(p) \cup {r}
        /\ request'[r].saw \in View
    BY <1>2 DEF View, Logged, Failed, Of
  <2>2. \A m \in Logged(p) : request'[m].logged # None
    BY <1>2 DEF Logged, Of
  <2>3. \A m \in Failed(p) \cup {r} : request'[m].failed # None
    BY <1>1, <1>2 DEF Failed, Of
  <2>4. ~request'[r].overtook => request'[r].logged # None /\ r \in Logged(p)
    BY <1>2 DEF Logged, Of
  <2>5. now <= now /\ (request[r].logged # None => request[r].logged <= now)
    BY <1>1 DEF Known
  <2>6. p # None
    BY NoneAssumption
  <2> QED BY <1>1, <1>2, <2>1, <2>2, <2>3, <2>4, <2>5, <2>6 DEF Known
<1>8. \A q \in Protocols : Vectors(q)'
  <2>1. Vectors(p)'
    <3>1. Lists(connections[p], Logged(p), LoggedTime)
      BY DEF MonitorInv, Vectors
    <3> QED BY <1>3, <3>1 DEF Vectors
  <2>2. ASSUME NEW q \in Protocols \ {p} PROVE Vectors(q)'
    <3>1. CASE reports'[q] = reports[q]
      BY <1>3, <2>2, <3>1, VectorsKept
    <3>2. CASE reports'[q] = <<>> /\ clears' > 0
      <4>1. Lists(connections[q], Logged(q), LoggedTime)
        BY <2>2 DEF MonitorInv, Vectors
      <4>2. ListsSome(<<>>, Failed(q), FailedTime')
        BY ListsNobody
      <4>3. ~(clears' = 0)
        BY <3>2
      <4> QED BY <1>3, <3>2, <4>1, <4>2, <4>3 DEF Vectors
    <3> QED BY <2>2, <3>1, <3>2
  <2> QED BY <2>1, <2>2
<1> QED BY <1>2, <1>3, <1>4, <1>5, <1>6, <1>7, <1>8, OneRequest

\* A report is appended to the reports of the protocol.
LEMMA ReportAppended ==
    ASSUME MonitorInv, NEW r \in Requests, NEW p \in Protocols, p = request[r].proto,
           request[r].failed = None, request'[r].proto = p, request'[r].failed = now,
           request'[r].logged = request[r].logged,
           \A m \in Requests \ {r} : request'[m] = request[m],
           clears > 0 => clears' > 0, clears' = 0 => clears = 0
    PROVE  /\ Append(reports[p], now) \in Seq(Times) /\ <<now>> \in Seq(Times)
           /\ ListsSome(Append(reports[p], now), Failed(p) \cup {r}, FailedTime')
           /\ clears = 0 => Lists(Append(reports[p], now), Failed(p) \cup {r}, FailedTime')
           /\ ListsSome(<<now>>, Failed(p) \cup {r}, FailedTime')
           /\ ListsSome(<<>>, Failed(p) \cup {r}, FailedTime')
<1>1. /\ r \notin Failed(p) /\ FailedTime'[r] = now
      /\ \A q \in Failed(p) : FailedTime'[q] = FailedTime[q]
  BY ReportedSets
<1>2. reports[p] \in Seq(Times) /\ now \in Times /\ <<>> \in Seq(Times)
  BY DEF MonitorInv, TypeOK
<1>3. /\ ListsSome(reports[p], Failed(p), FailedTime')
      /\ clears = 0 => Lists(reports[p], Failed(p), FailedTime')
  BY <1>1, ListsSame DEF MonitorInv, Vectors
<1>4. ASSUME NEW T \in SUBSET Failed(p), Lists(reports[p], T, FailedTime')
      PROVE  Lists(Append(reports[p], now), T \cup {r}, FailedTime')
  BY <1>1, <1>2, <1>4, ListsAppend
<1>5. ListsSome(Append(reports[p], now), Failed(p) \cup {r}, FailedTime')
  <2>1. PICK T \in SUBSET Failed(p) : Lists(reports[p], T, FailedTime')
    BY <1>3 DEF ListsSome
  <2>2. T \cup {r} \in SUBSET (Failed(p) \cup {r})
    OBVIOUS
  <2> QED BY <1>4, <2>1, <2>2 DEF ListsSome
<1>6. Lists(<<now>>, {r}, FailedTime')
  <2>1. Lists(<<>>, {}, FailedTime')
    BY ListsNobody
  <2>2. Lists(Append(<<>>, now), {} \cup {r}, FailedTime')
    BY <1>1, <1>2, <2>1, ListsAppend
  <2>3. Append(<<>>, now) = <<now>> /\ {} \cup {r} = {r}
    OBVIOUS
  <2> QED BY <2>2, <2>3
<1>7. ListsSome(<<now>>, Failed(p) \cup {r}, FailedTime')
  <2>1. {r} \in SUBSET (Failed(p) \cup {r})
    OBVIOUS
  <2> QED BY <1>6, <2>1 DEF ListsSome
<1>8. ASSUME clears = 0
      PROVE  Lists(Append(reports[p], now), Failed(p) \cup {r}, FailedTime')
  <2>1. Failed(p) \in SUBSET Failed(p)
    OBVIOUS
  <2> QED BY <1>3, <1>4, <1>8, <2>1
<1>9. ListsSome(<<>>, Failed(p) \cup {r}, FailedTime')
  BY ListsNobody
<1>10. Append(reports[p], now) \in Seq(Times) /\ <<now>> \in Seq(Times)
  BY <1>2
<1> QED BY <1>5, <1>7, <1>8, <1>9, <1>10

LEMMA logFailureInv ==
    ASSUME MonitorInv, NEW r \in Requests, logFailure(r)
    PROVE  MonitorInv'
<1>1. PICK p \in Protocols : p = request[r].proto
  BY RequestFacts DEF logFailure, Request
<1>2. /\ ~request[r].ended /\ UNCHANGED <<connections, clears, crashed, now>>
      /\ reports' = [reports EXCEPT ![p] = Append(reports[p], now)]
      /\ Reported(r, reports'[p], FALSE)
  BY <1>1 DEF logFailure, MonitorInv, TypeOK
<1>3. /\ reports \in [Protocols -> Seq(Times)] /\ now \in Times /\ clears \in 0 .. MaxClears
      /\ clears \in Nat
  BY RequestFacts DEF MonitorInv, TypeOK
<1>4. /\ reports'[p] = Append(reports[p], now) /\ reports' \in [Protocols -> Seq(Times)]
      /\ \A q \in Protocols \ {p} : reports'[q] = reports[q]
  BY <1>2, <1>3
<1> DEFINE vec == Append(reports[p], now)
<1>5. vec \in Seq(Times) /\ \E i \in DOMAIN vec : vec[i] = now
  <2>1. vec \in Seq(Times) /\ Len(vec) \in DOMAIN vec /\ vec[Len(vec)] = now
    BY <1>3
  <2> QED BY <2>1
<1>6. Reported(r, vec, FALSE)
  BY <1>2, <1>4
<1> HIDE DEF vec
<1>7. /\ ListsSome(vec, Failed(p) \cup {r}, FailedTime')
      /\ clears = 0 => Lists(vec, Failed(p) \cup {r}, FailedTime')
  <2>1. /\ \A m \in Requests \ {r} : request'[m] = request[m]
        /\ request'[r].proto = p
        /\ request'[r].logged = request[r].logged
        /\ request'[r].failed = now
        /\ request[r].failed = None
    <3>1. p = request[r].proto /\ ~request[r].ended /\ vec \in Seq(Times) /\ FALSE \in BOOLEAN
      BY <1>1, <1>2, <1>5
    <3> QED BY <1>6, <3>1, ReportedFacts
  <2> QED BY <1>1, <1>2, <2>1, ReportAppended DEF vec
<1>8. reports'[p] = vec
  BY <1>4 DEF vec
<1> QED BY <1>1, <1>2, <1>3, <1>4, <1>5, <1>6, <1>7, <1>8, ReportedInv

LEMMA clearDuringLogFailureInv ==
    ASSUME MonitorInv, NEW r \in Requests, clearDuringLogFailure(r)
    PROVE  MonitorInv'
<1>1. PICK p \in Protocols : p = request[r].proto
  BY RequestFacts DEF clearDuringLogFailure, Request
<1>2. /\ ~request[r].ended /\ UNCHANGED <<connections, crashed, now>>
      /\ clears < MaxClears /\ clears' = clears + 1
  BY <1>1 DEF clearDuringLogFailure
<1>3. /\ reports \in [Protocols -> Seq(Times)] /\ now \in Times /\ clears \in 0 .. MaxClears
      /\ clears \in Nat /\ MaxClears \in Nat
  BY RequestFacts, FailureMonitorAssumption DEF MonitorInv, TypeOK
<1>4. clears' \in 0 .. MaxClears /\ clears' > 0 /\ ~(clears' = 0)
  BY <1>2, <1>3
<1> DEFINE Outcomes == {Append(reports[p], now), <<now>>, <<>>}
<1>5. PICK left \in Outcomes, vec \in Outcomes :
        /\ reports' = [q \in Protocols |-> IF q = p THEN left ELSE <<>>]
        /\ Reported(r, vec, TRUE)
  BY <1>1 DEF clearDuringLogFailure
<1>6. Outcomes \subseteq Seq(Times)
  BY <1>3
<1>7. \A v \in Outcomes : ListsSome(v, Failed(p) \cup {r}, FailedTime')
  <2> HIDE DEF Outcomes
  <2>1. /\ \A m \in Requests \ {r} : request'[m] = request[m]
        /\ request'[r].proto = p
        /\ request'[r].logged = request[r].logged
        /\ request'[r].failed = now
        /\ request[r].failed = None
    <3>1. p = request[r].proto /\ ~request[r].ended /\ vec \in Seq(Times) /\ TRUE \in BOOLEAN
      BY <1>1, <1>2, <1>6
    <3>2. Reported(r, vec, TRUE)
      BY <1>5
    <3> QED BY <3>1, <3>2, ReportedFacts
  <2> QED BY <1>1, <1>2, <1>4, <2>1, ReportAppended DEF Outcomes
<1> HIDE DEF Outcomes
<1>8. /\ reports' \in [Protocols -> Seq(Times)] /\ reports'[p] = left
      /\ \A q \in Protocols \ {p} : reports'[q] = <<>>
  BY <1>5, <1>6
<1>9. vec \in Seq(Times)
  BY <1>6
<1> QED BY <1>1, <1>2, <1>4, <1>5, <1>7, <1>8, <1>9, ReportedInv

\* The requests in the window of a validate that runs now.
WindowLogged(r) == {q \in request[r].saw.logged : now - request[q].logged <= Interval}
WindowFailed(r) == {q \in request[r].saw.failed : now - request[q].failed <= Interval}

\* What validate counts on its copies, in requests: every logged one, and failed ones
\* only, all of them unless the records were cleared.
LEMMA CountFacts ==
    ASSUME MonitorInv, NEW r \in Requests, request[r].copy # None
    PROVE  /\ Cardinality(Recent(request[r].copy.rqVec)) \in Nat
           /\ Cardinality(Recent(request[r].copy.vec)) \in Nat
           /\ Cardinality(WindowFailed(r)) \in Nat
           /\ IsFiniteSet(WindowFailed(r))
           /\ IsFiniteSet(Recent(request[r].copy.rqVec))
           /\ Cardinality(Recent(request[r].copy.rqVec)) = Cardinality(WindowLogged(r))
           /\ Cardinality(Recent(request[r].copy.vec)) <= Cardinality(WindowFailed(r))
           /\ clears = 0 =>
                Cardinality(Recent(request[r].copy.vec)) = Cardinality(WindowFailed(r))
<1> DEFINE vec == request[r].copy.vec
           rqVec == request[r].copy.rqVec
           L == request[r].saw.logged
           F == request[r].saw.failed
<1>1. request[r] \in Request /\ request[r].failed # None /\ Known(r) /\ Copied(r)
  BY RequestFacts DEF Known
<1>2. vec \in Seq(Times) /\ rqVec \in Seq(Times)
  BY <1>1 DEF Request
<1>3. L \subseteq Requests /\ F \subseteq Requests
  BY <1>1 DEF Known, View
<1>4. /\ Lists(rqVec, L, LoggedTime) /\ ListsSome(vec, F, FailedTime)
      /\ clears = 0 => Lists(vec, F, FailedTime)
  BY <1>1 DEF Copied
<1>5. WindowLogged(r) = {q \in L : now - LoggedTime[q] <= Interval}
  BY <1>3 DEF WindowLogged, LoggedTime
<1>6. WindowFailed(r) = {q \in F : now - FailedTime[q] <= Interval}
  BY <1>3 DEF WindowFailed, FailedTime
<1>7. IsFiniteSet(WindowFailed(r)) /\ Cardinality(WindowFailed(r)) \in Nat
  <2>1. WindowFailed(r) \in SUBSET Requests
    BY <1>3 DEF WindowFailed
  <2> QED BY <2>1, FailureMonitorAssumption, FS_Subset, FS_CardinalityType
<1> HIDE DEF vec, rqVec, L, F
<1>8. /\ IsFiniteSet(Recent(rqVec)) /\ Cardinality(Recent(rqVec)) \in Nat
      /\ Cardinality(Recent(rqVec)) = Cardinality(WindowLogged(r))
  <2>1. Lists(rqVec, L, LoggedTime)
    BY <1>4
  <2> DEFINE W == WindowLogged(r)
  <2>2. W = {q \in L : now - LoggedTime[q] <= Interval}
    BY <1>5
  <2> HIDE DEF W
  <2>3. /\ IsFiniteSet(Recent(rqVec)) /\ Cardinality(Recent(rqVec)) \in Nat
        /\ Cardinality(Recent(rqVec)) = Cardinality(W)
    BY <1>2, <2>1, <2>2, ListsCount
  <2> QED BY <2>3 DEF W
<1>9. /\ Cardinality(Recent(vec)) \in Nat
      /\ Cardinality(Recent(vec)) <= Cardinality(WindowFailed(r))
  <2>1. PICK S \in SUBSET F : Lists(vec, S, FailedTime)
    BY <1>4 DEF ListsSome
  <2> DEFINE W == {q \in S : now - FailedTime[q] <= Interval}
  <2>2. /\ Cardinality(Recent(vec)) \in Nat /\ IsFiniteSet(W)
        /\ Cardinality(Recent(vec)) = Cardinality(W)
    BY <1>2, <2>1, ListsCount
  <2>3. W \in SUBSET WindowFailed(r)
    BY <1>6
  <2> HIDE DEF W
  <2>4. Cardinality(W) <= Cardinality(WindowFailed(r))
    BY <1>7, <2>3, FS_Subset
  <2> QED BY <2>2, <2>4
<1>10. ASSUME clears = 0 PROVE Cardinality(Recent(vec)) = Cardinality(WindowFailed(r))
  <2>1. Lists(vec, F, FailedTime)
    BY <1>4, <1>10
  <2> DEFINE W == WindowFailed(r)
  <2>2. W = {q \in F : now - FailedTime[q] <= Interval}
    BY <1>6
  <2> HIDE DEF W
  <2>3. Cardinality(Recent(vec)) = Cardinality(W)
    BY <1>2, <2>1, <2>2, ListsCount
  <2> QED BY <2>3 DEF W
<1> QED BY <1>7, <1>8, <1>9, <1>10 DEF vec, rqVec

\* A percentage below 100 is less than the whole.
LEMMA BelowAll ==
    ASSUME NEW f \in Nat, NEW n \in Nat, n # 0, n <= f, 100 * f <= Threshold * n
    PROVE  Threshold >= 100
<1> SUFFICES ASSUME ~(Threshold >= 100) PROVE FALSE
  OBVIOUS
<1>1. Threshold \in Int /\ Threshold <= 99
  BY FailureMonitorAssumption
<1>2. Threshold * n <= 99 * n
  BY <1>1
<1>3. Threshold * n \in Int
  BY <1>1
<1> DEFINE x == Threshold * n
<1> HIDE DEF x
<1>4. x \in Int /\ x <= 99 * n /\ 100 * f <= x
  BY <1>2, <1>3 DEF x
<1> QED BY <1>4

\* The end of validate, whatever the verdict.
LEMMA VerdictInv ==
    ASSUME MonitorInv, NEW r \in Requests, NEW verdict \in Verdicts, request[r].copy # None,
           request' = [request EXCEPT ![r].verdict = verdict, ![r].decided = now, ![r].copy = None],
           UNCHANGED <<reports, connections, clears, now>>, crashed' \in BOOLEAN,
           verdict = "undefined" => \/ request[r].overtook
                                    \/ request[r].raced
                                    \/ now - request[r].logged > Interval,
           verdict = "notify" =>
               100 * Cardinality(WindowFailed(r)) > Threshold * Cardinality(WindowLogged(r)),
           verdict = "quiet" =>
               \/ clears > 0
               \/ /\ 100 * Cardinality(WindowFailed(r)) <= Threshold * Cardinality(WindowLogged(r))
                  /\ \/ Threshold >= 100
                     \/ \E q \in request[r].saw.failed : request[q].overtook
                     \/ ~(WindowLogged(r) \subseteq request[r].saw.failed)
    PROVE  MonitorInv'
<1>1. /\ request[r] \in Request /\ request \in [Requests -> Request]
      /\ Known(r) /\ now \in Times /\ now # None /\ r \in Requests
  BY RequestFacts
<1>2. request[r].failed # None
  BY <1>1 DEF Known
<1> DEFINE new == [request[r] EXCEPT !.verdict = verdict, !.decided = now, !.copy = None]
<1>3. request' = [request EXCEPT ![r] = new]
  BY <1>1
<1>4. /\ new \in Request /\ new.proto = request[r].proto
      /\ new.logged = request[r].logged /\ new.failed = request[r].failed /\ new.ended = request[r].ended
      /\ new.copy = None /\ new.verdict = verdict /\ new.decided = now
      /\ new.saw = request[r].saw /\ new.overtook = request[r].overtook /\ new.raced = request[r].raced
  BY <1>1 DEF Request
<1> HIDE DEF new
<1>5. /\ request' \in [Requests -> Request] /\ request'[r] = new
      /\ \A m \in Requests \ {r} : request'[m] = request[m]
  BY ONLY <1>1, <1>3, <1>4
<1>6. Keeps
  BY <1>4, <1>5 DEF Keeps
<1>7. TypeOK'
  BY <1>5 DEF MonitorInv, TypeOK
<1>8. \A q \in Protocols : Logged(q)' = Logged(q) /\ Failed(q)' = Failed(q)
  BY <1>4, <1>5 DEF Logged, Failed, Of
<1>9. \A q \in Protocols : Vectors(q)'
  BY <1>6, <1>8, VectorsKept
<1>10. /\ request[r].saw.logged \subseteq Requests /\ request[r].saw.failed \subseteq Requests
       /\ \A q \in request[r].saw.logged : request'[q].logged = request[q].logged
       /\ \A q \in request[r].saw.failed : /\ request'[q].failed = request[q].failed
                                           /\ request'[q].overtook = request[q].overtook
  BY <1>2, <1>6, SeenKept
<1>11. Known(r)'
  BY <1>1, <1>2, <1>4, <1>5, <1>10 DEF Known
<1>12. Copied(r)'
  BY <1>4, <1>5 DEF Copied
<1>13. SeenLogged(r)' = WindowLogged(r) /\ SeenFailed(r)' = WindowFailed(r)
  BY <1>4, <1>5, <1>10 DEF SeenLogged, SeenFailed, WindowLogged, WindowFailed
<1>14. UndefinedWhenLate(r)'
  BY <1>4, <1>5 DEF UndefinedWhenLate
<1>15. Justified(r)'
  BY <1>4, <1>5, <1>13 DEF Justified
<1>16. SomeSurvived(r)'
  BY <1>4, <1>5, <1>10, <1>13 DEF SomeSurvived
<1> QED BY <1>5, <1>6, <1>7, <1>9, <1>11, <1>12, <1>14, <1>15, <1>16, OneRequest DEF Decided

LEMMA validateInv ==
    ASSUME MonitorInv, NEW r \in Requests, validate(r)
    PROVE  MonitorInv'
<1> DEFINE vec == request[r].copy.vec
           rqVec == request[r].copy.rqVec
           fails == Cardinality(Recent(vec))
           total == Cardinality(Recent(rqVec))
           verdict == Decision(vec, rqVec)
<1>1. /\ request[r].copy # None /\ Recent(rqVec) # {}
      /\ request' = [request EXCEPT ![r].verdict = verdict, ![r].decided = now, ![r].copy = None]
      /\ UNCHANGED <<reports, connections, clears, crashed, now>>
  BY DEF validate
<1>2. /\ total \in Nat /\ fails \in Nat /\ Cardinality(WindowFailed(r)) \in Nat
      /\ IsFiniteSet(WindowFailed(r)) /\ IsFiniteSet(Recent(rqVec))
      /\ total = Cardinality(WindowLogged(r))
      /\ fails <= Cardinality(WindowFailed(r))
      /\ clears = 0 => fails = Cardinality(WindowFailed(r))
  BY <1>1, CountFacts
<1>3. total # 0
  BY <1>1, <1>2, FS_EmptySet
<1>4. /\ verdict \in {"early return", "notify", "quiet"}
      /\ verdict = "notify" => 100 * fails > Threshold * total
      /\ verdict = "quiet" => ~(fails > total) /\ ~(100 * fails > Threshold * total)
  <2> DEFINE x == Threshold * total
  <2> HIDE DEF fails, total, x
  <2>1. verdict = CASE fails > total -> "early return"
                    [] fails <= total /\ 100 * fails > x -> "notify"
                    [] OTHER -> "quiet"
    BY DEF Decision, fails, total, x
  <2> HIDE DEF verdict
  <2>2. CASE fails > total
    <3>1. ~(fails <= total)
      BY <1>2, <2>2
    <3>2. verdict = "early return"
      BY <2>1, <2>2, <3>1
    <3> QED BY <3>2
  <2>3. CASE ~(fails > total) /\ 100 * fails > x
    <3>1. fails <= total
      BY <1>2, <2>3
    <3>2. verdict = "notify"
      BY <2>1, <2>3, <3>1
    <3> QED BY <2>3, <3>2 DEF x
  <2>4. CASE ~(fails > total) /\ ~(100 * fails > x)
    <3>1. verdict = "quiet"
      BY <2>1, <2>4
    <3> QED BY <2>4, <3>1 DEF x
  <2> QED BY <2>2, <2>3, <2>4
<1>5. verdict \in Verdicts /\ verdict # "undefined"
  BY <1>4 DEF Verdicts
<1> HIDE DEF verdict
<1>6. ASSUME verdict = "notify"
      PROVE  100 * Cardinality(WindowFailed(r)) > Threshold * Cardinality(WindowLogged(r))
  <2> DEFINE x == Threshold * total
             w == Cardinality(WindowFailed(r))
  <2>1. x \in Int
    BY <1>2, FailureMonitorAssumption
  <2>2. 100 * fails > x /\ fails <= w /\ w \in Nat
    BY <1>2, <1>4, <1>6
  <2>3. x = Threshold * Cardinality(WindowLogged(r))
    BY <1>2
  <2> HIDE DEF fails, total, x, w
  <2>4. 100 * w > x
    BY <1>2, <2>1, <2>2
  <2> QED BY <2>3, <2>4 DEF w
<1>7. ASSUME verdict = "quiet", ~(clears > 0)
      PROVE  100 * Cardinality(WindowFailed(r)) <= Threshold * Cardinality(WindowLogged(r))
  <2> DEFINE x == Threshold * total
  <2>1. clears = 0
    BY <1>1, <1>7, RequestFacts
  <2>2. ~(100 * fails > x) /\ fails = Cardinality(WindowFailed(r)) /\ total = Cardinality(WindowLogged(r))
    BY <1>2, <1>4, <1>7, <2>1
  <2>3. x \in Int
    BY <1>2, FailureMonitorAssumption
  <2> HIDE DEF fails, total, x
  <2>4. 100 * fails <= x
    BY <1>2, <2>2, <2>3
  <2> QED BY <2>2, <2>4 DEF x
<1>8. ASSUME verdict = "quiet", ~(clears > 0), ~(Threshold >= 100),
             ~\E q \in request[r].saw.failed : request[q].overtook,
             WindowLogged(r) \subseteq request[r].saw.failed
      PROVE  FALSE
  <2>1. Known(r) /\ request[r].failed # None /\ now \in Nat
    BY <1>1, RequestFacts DEF Known
  <2>2. WindowLogged(r) \subseteq WindowFailed(r)
    <3> SUFFICES ASSUME NEW q \in WindowLogged(r) PROVE now - request[q].failed <= Interval
      BY <1>8 DEF WindowFailed
    <3>1. q \in request[r].saw.failed /\ q \in Requests
      BY <1>8, <2>1 DEF Known, View
    <3>2. request[q].failed # None /\ ~request[q].overtook
      BY <1>8, <2>1, <3>1 DEF Known
    <3>3. Known(q)
      BY <3>1 DEF MonitorInv
    <3>4. request[q].logged # None /\ request[q].logged <= request[q].failed
      BY <3>2, <3>3 DEF Known
    <3>5. request[q].logged \in Nat /\ request[q].failed \in Nat
      BY <3>1, <3>2, <3>4, RequestFacts
    <3>6. now - request[q].logged <= Interval
      BY DEF WindowLogged
    <3> QED BY <2>1, <3>4, <3>5, <3>6, FailureMonitorAssumption
  <2>3. Cardinality(WindowLogged(r)) <= Cardinality(WindowFailed(r))
    BY <1>2, <2>2, FS_Subset
  <2>4. 100 * Cardinality(WindowFailed(r)) <= Threshold * Cardinality(WindowLogged(r))
    BY <1>7, <1>8
  <2> HIDE DEF fails, total
  <2> QED BY <1>2, <1>3, <1>8, <2>3, <2>4, BelowAll
<1>9. crashed' \in BOOLEAN
  BY <1>1 DEF MonitorInv, TypeOK
<1> QED BY <1>1, <1>5, <1>6, <1>7, <1>8, <1>9, VerdictInv

LEMMA validateUndefinedInv ==
    ASSUME MonitorInv, NEW r \in Requests, validateUndefined(r)
    PROVE  MonitorInv'
<1> DEFINE vec == request[r].copy.vec
           rqVec == request[r].copy.rqVec
<1>1. /\ request[r].copy # None /\ (Recent(vec) = {} \/ Recent(rqVec) = {})
      /\ request' = [request EXCEPT ![r].verdict = "undefined", ![r].decided = now, ![r].copy = None]
      /\ crashed' \in BOOLEAN /\ UNCHANGED <<reports, connections, clears, now>>
  BY DEF validateUndefined
<1>2. /\ Known(r) /\ Copied(r) /\ request[r].failed # None /\ now \in Nat /\ Interval \in Int
  BY <1>1, RequestFacts, FailureMonitorAssumption DEF Known
<1>3. ASSUME ~request[r].overtook, ~request[r].raced PROVE now - request[r].logged > Interval
  <2>1. /\ request[r].logged # None /\ request[r].logged <= request[r].failed
        /\ r \in request[r].saw.logged
    BY <1>2, <1>3 DEF Known
  <2>2. request[r].logged \in Nat /\ request[r].failed \in Nat
    BY <1>2, <2>1, RequestFacts
  <2>3. \E i \in DOMAIN rqVec : rqVec[i] = request[r].logged
    <3>1. Lists(rqVec, request[r].saw.logged, LoggedTime)
      BY <1>1, <1>2 DEF Copied
    <3>2. \E i \in DOMAIN rqVec : rqVec[i] = LoggedTime[r]
      BY <2>1, <3>1, ListsHas
    <3> QED BY <3>2 DEF LoggedTime
  <2>4. \E i \in DOMAIN vec : vec[i] = request[r].failed
    BY <1>1, <1>2, <1>3 DEF Copied
  <2>5. CASE Recent(rqVec) = {}
    <3>1. ~(now - request[r].logged <= Interval)
      BY <2>3, <2>5 DEF Recent
    <3> QED BY <1>2, <2>2, <3>1
  <2>6. CASE Recent(vec) = {}
    <3>1. ~(now - request[r].failed <= Interval)
      BY <2>4, <2>6 DEF Recent
    <3> QED BY <1>2, <2>1, <2>2, <3>1
  <2> QED BY <1>1, <2>5, <2>6
<1>4. "undefined" \in Verdicts /\ "undefined" # "notify" /\ "undefined" # "quiet"
  BY DEF Verdicts
<1> QED BY <1>1, <1>3, <1>4, VerdictInv

\* The records of failures are cleared; copies made before keep what they have.
LEMMA clearInv ==
    ASSUME MonitorInv, clear
    PROVE  MonitorInv'
<1>1. /\ clears < MaxClears /\ clears' = clears + 1
      /\ reports' = [p \in Protocols |-> <<>>]
      /\ UNCHANGED <<connections, request, crashed, now>>
  BY DEF clear
<1>2. clears \in 0 .. MaxClears /\ clears' \in 0 .. MaxClears /\ clears' > 0 /\ ~(clears' = 0)
  BY <1>1, FailureMonitorAssumption DEF MonitorInv, TypeOK
<1>3. Keeps
  BY <1>1, <1>2 DEF Keeps
<1>4. now \in Times /\ now <= now
  BY FailureMonitorAssumption DEF MonitorInv, TypeOK, Times
<1>5. TypeOK'
  <2>1. <<>> \in Seq(Times)
    OBVIOUS
  <2> QED BY <1>1, <1>2, <2>1 DEF MonitorInv, TypeOK
<1>6. \A p \in Protocols : Vectors(p)'
  <2> TAKE p \in Protocols
  <2>1. Lists(connections[p], Logged(p), LoggedTime)
    BY DEF MonitorInv, Vectors
  <2>2. ListsSome(<<>>, Failed(p), FailedTime)
    BY ListsNobody
  <2>3. Logged(p)' = Logged(p) /\ Failed(p)' = Failed(p) /\ LoggedTime' = LoggedTime /\ FailedTime' = FailedTime
    BY <1>1 DEF Logged, Failed, Of, LoggedTime, FailedTime
  <2> QED BY <1>1, <1>2, <2>1, <2>2, <2>3 DEF Vectors
<1>7. \A r \in Requests : Known(r)' /\ Copied(r)' /\ Decided(r)'
  BY <1>1, <1>3, <1>4, KnownKept, CopiedKept, DecidedKept
<1> QED BY <1>5, <1>6, <1>7 DEF MonitorInv

LEMMA TickInv ==
    ASSUME MonitorInv, Tick
    PROVE  MonitorInv'
<1>1. now < MaxTime /\ now' = now + 1 /\ UNCHANGED <<reports, connections, request, clears, crashed>>
  BY DEF Tick
<1>2. now \in Times /\ now' \in Times /\ now <= now'
  BY <1>1, FailureMonitorAssumption DEF MonitorInv, TypeOK, Times
<1>3. Keeps
  BY <1>1 DEF Keeps
<1>4. TypeOK'
  BY <1>1, <1>2 DEF MonitorInv, TypeOK
<1>5. \A p \in Protocols : Vectors(p)'
  <2>1. \A p \in Protocols : Logged(p)' = Logged(p) /\ Failed(p)' = Failed(p)
    BY <1>1 DEF Logged, Failed, Of
  <2> QED BY <1>1, <1>3, <2>1, VectorsKept
<1>6. \A r \in Requests : Known(r)' /\ Copied(r)' /\ Decided(r)'
  BY <1>1, <1>2, <1>3, KnownKept, CopiedKept, DecidedKept
<1> QED BY <1>4, <1>5, <1>6 DEF MonitorInv

-----------------------------------------------------------------------------
(* The theorems. *)

LEMMA MonitorInit == Init => MonitorInv
<1> SUFFICES ASSUME Init PROVE MonitorInv
  OBVIOUS
<1>1. \A r \in Requests : request[r] = New
  BY DEF Init
<1>2. TypeOK
  <2>1. <<>> \in Seq(Times) /\ 0 \in Times /\ 0 \in 0 .. MaxClears
    BY FailureMonitorAssumption DEF Times
  <2>2. New \in Request
    BY DEF New, Request
  <2> QED BY <2>1, <2>2 DEF Init, TypeOK
<1>3. \A r \in Requests : Known(r) /\ Copied(r)
  BY <1>1 DEF Known, Copied, New
<1>4. \A r \in Requests : Decided(r)
  <2>1. \A r \in Requests : request[r].verdict \notin Verdicts
    BY <1>1, NoneAssumption DEF New
  <2> QED BY <2>1 DEF Decided, UndefinedWhenLate, Justified, SomeSurvived, Verdicts
<1>5. \A p \in Protocols : Vectors(p)
  <2> TAKE p \in Protocols
  <2>1. Logged(p) = {} /\ Failed(p) = {}
    BY <1>1 DEF Logged, Failed, Of, New
  <2>2. connections[p] = <<>> /\ reports[p] = <<>>
    BY DEF Init
  <2>3. /\ Lists(<<>>, {}, LoggedTime) /\ ListsSome(<<>>, {}, FailedTime) /\ Lists(<<>>, {}, FailedTime)
    BY ListsNobody
  <2> QED BY <2>1, <2>2, <2>3 DEF Vectors
<1> QED BY <1>2, <1>3, <1>4, <1>5 DEF MonitorInv

LEMMA MonitorStep == MonitorInv /\ [Next]_vars => MonitorInv'
<1> SUFFICES ASSUME MonitorInv, [Next]_vars PROVE MonitorInv'
  OBVIOUS
<1>1. CASE UNCHANGED vars
  <2>1. UNCHANGED <<reports, connections, request, clears, crashed, now>>
    BY <1>1 DEF vars
  <2>2. Keeps
    BY <2>1 DEF Keeps
  <2>3. now \in Times /\ now <= now /\ TypeOK'
    BY <2>1, FailureMonitorAssumption DEF MonitorInv, TypeOK, Times
  <2>4. \A p \in Protocols : Logged(p)' = Logged(p) /\ Failed(p)' = Failed(p)
    BY <2>1 DEF Logged, Failed, Of
  <2>5. \A p \in Protocols : Vectors(p)'
    BY <2>1, <2>2, <2>4, VectorsKept
  <2>6. \A r \in Requests : Known(r)' /\ Copied(r)' /\ Decided(r)'
    BY <2>1, <2>2, <2>3, KnownKept, CopiedKept, DecidedKept
  <2> QED BY <2>3, <2>5, <2>6 DEF MonitorInv
<1>2. ASSUME NEW r \in Requests,
             \/ (\E p \in Protocols : startWithRequest(r, p)) \/ logConnection(r)
             \/ connectionDidFinish(r) \/ logFailure(r) \/ clearDuringLogFailure(r)
             \/ validate(r) \/ validateUndefined(r)
      PROVE  MonitorInv'
  BY <1>2, startWithRequestInv, logConnectionInv, connectionDidFinishInv, logFailureInv,
     clearDuringLogFailureInv, validateInv, validateUndefinedInv
<1> QED BY <1>1, <1>2, clearInv, TickInv DEF Next

\* The invariant: every entry of a vector, and of a copy, has its own request.
THEOREM MonitorCorrect == Spec => []MonitorInv
BY MonitorInit, MonitorStep, PTL DEF Spec

\* The vectors hold times that have been, and a request remembers one of each kind.
THEOREM TypeCorrect == Spec => []TypeOK
<1>1. MonitorInv => TypeOK
  BY DEF MonitorInv
<1> QED BY <1>1, MonitorCorrect, PTL

\* The prune loops of validate only run off their vectors when the failure overtook its
\* log entry, raced with a clear, or was looked at too late.
THEOREM UndefinedOnlyWhenLateCorrect == Spec => []UndefinedOnlyWhenLate
<1>1. MonitorInv => UndefinedOnlyWhenLate
  BY DEF MonitorInv, Decided, UndefinedWhenLate, UndefinedOnlyWhenLate
<1> QED BY <1>1, MonitorCorrect, PTL

\* The window of a decided request, with its times written out.
LEMMA WindowDef ==
    ASSUME NEW r \in Requests
    PROVE  /\ InWindow(r, request[r].saw.logged, LoggedAt) = SeenLogged(r)
           /\ InWindow(r, request[r].saw.failed, FailedAt) = SeenFailed(r)
BY DEF InWindow, LoggedAt, FailedAt, SeenLogged, SeenFailed

\* When validate calls the subscribers, the threshold was exceeded by requests that
\* really failed in the window.
THEOREM NotifyJustifiedCorrect == Spec => []NotifyJustified
<1>1. ASSUME MonitorInv PROVE NotifyJustified
  <2> SUFFICES ASSUME NEW r \in Requests, request[r].verdict = "notify"
               PROVE  100 * Cardinality(InWindow(r, request[r].saw.failed, FailedAt))
                        > Threshold * Cardinality(InWindow(r, request[r].saw.logged, LoggedAt))
    BY DEF NotifyJustified
  <2>1. Justified(r)
    BY <1>1 DEF MonitorInv, Decided
  <2> QED BY <2>1, WindowDef DEF Justified
<1> QED BY <1>1, MonitorCorrect, PTL

\* When it stays quiet and the records were not cleared, the failures in the window are
\* within the threshold, whatever integer that is; below 100 percent some request in
\* the window had not failed, unless a failure overtook its log entry.
THEOREM QuietMeansSomeSurvivedCorrect == Spec => []QuietMeansSomeSurvived
<1>1. ASSUME MonitorInv PROVE QuietMeansSomeSurvived
  <2> SUFFICES ASSUME NEW r \in Requests, request[r].verdict = "quiet", ~(clears > 0)
               PROVE  /\ 100 * Cardinality(InWindow(r, request[r].saw.failed, FailedAt))
                           <= Threshold * Cardinality(InWindow(r, request[r].saw.logged, LoggedAt))
                      /\ \/ Threshold >= 100
                         \/ \E q \in request[r].saw.failed : request[q].overtook
                         \/ ~(InWindow(r, request[r].saw.logged, LoggedAt) \subseteq request[r].saw.failed)
    BY DEF QuietMeansSomeSurvived
  <2>1. SomeSurvived(r)
    BY <1>1 DEF MonitorInv, Decided
  <2> QED BY <2>1, WindowDef DEF SomeSurvived
<1> QED BY <1>1, MonitorCorrect, PTL
=============================================================================
