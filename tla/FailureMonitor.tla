--------------------------- MODULE FailureMonitor ---------------------------
(***************************************************************************)
(* ProtocolFailureMonitor with the requests that feed it.  A request is    *)
(* started and then logged by one thread (ConnectionProxy::start) and      *)
(* fails on another, so its failure can overtake its log entry; a request  *)
(* without a host even fails inside startWithRequest.  A failure adds a    *)
(* report and copies both vectors under mLock; the copies are pruned and   *)
(* compared after the lock is released.                                    *)
(*                                                                         *)
(* The prune loops read the first element without looking whether there is *)
(* one, and erase once more when all are old: then the outcome is          *)
(* undefined and the model allows a crash or any decision.                 *)
(***************************************************************************)
EXTENDS Integers, Sequences, FiniteSets

CONSTANTS
    Requests,
    Protocols,
    Interval,   \* failuresMonitoringInterval, in seconds
    Threshold,  \* failuresFailoverThreshold, in percent
    MaxTime,    \* bound on the clock
    MaxClears,  \* bound on the clears
    None

ASSUME FailureMonitorAssumption ==
    /\ Interval \in Int
    /\ Threshold \in Int
    /\ MaxTime \in Nat
    /\ MaxClears \in Nat
    /\ IsFiniteSet(Requests)

VARIABLES
    reports,     \* mReportMap: the times of the reported failures
    connections, \* mLoggedConnections: the times of the logged requests
    request,     \* each request and where its threads are
    clears,      \* how often the failure records have been cleared
    crashed,
    now

vars == <<reports, connections, request, clears, crashed, now>>

Times == 0..MaxTime
Verdicts == {"undefined", "early return", "quiet", "notify"}

ASSUME NoneAssumption == None \notin Protocols /\ None \notin Times /\ None \notin Verdicts

Request ==
    [proto : Protocols \cup {None},
     logged : Times \cup {None},    \* when it was logged
     ended : BOOLEAN,
     failed : Times \cup {None},    \* when its failure was
     copy : [vec : Seq(Times), rqVec : Seq(Times)] \cup {None},   \* what a validate works on
     \* history: what had been logged and had failed when the copies were made
     saw : [logged : SUBSET Requests, failed : SUBSET Requests] \cup {None},
     overtook : BOOLEAN,            \* history: it failed before it was logged
     raced : BOOLEAN,               \* history: clear ran at the same time
     verdict : Verdicts \cup {None},
     decided : Times \cup {None}]   \* history: when the verdict was reached

New == [proto |-> None, logged |-> None, ended |-> FALSE, failed |-> None, copy |-> None,
        saw |-> None, overtook |-> FALSE, raced |-> FALSE, verdict |-> None, decided |-> None]

Of(p) == {q \in Requests : request[q].proto = p}
Logged(p) == {q \in Of(p) : request[q].logged # None}
Failed(p) == {q \in Of(p) : request[q].failed # None}

TypeOK ==
    /\ reports \in [Protocols -> Seq(Times)]
    /\ connections \in [Protocols -> Seq(Times)]
    /\ request \in [Requests -> Request]
    /\ clears \in 0..MaxClears
    /\ crashed \in BOOLEAN
    /\ now \in Times

Init ==
    /\ reports = [p \in Protocols |-> <<>>]
    /\ connections = [p \in Protocols |-> <<>>]
    /\ request = [r \in Requests |-> New]
    /\ clears = 0
    /\ crashed = FALSE
    /\ now = 0

-----------------------------------------------------------------------------
\* ConnectionProxy::start, first half.
startWithRequest(r, p) ==
    /\ request[r].proto = None
    /\ request' = [request EXCEPT ![r].proto = p]
    /\ UNCHANGED <<reports, connections, clears, crashed, now>>

logConnection_Ahead(r) ==
    LET p == request[r].proto IN
    /\ p # None
    /\ request[r].logged = None
    /\ connections' = [connections EXCEPT ![p] = Append(@, now + 1)]
    /\ request' = [request EXCEPT ![r].logged = now]
    /\ UNCHANGED <<reports, clears, crashed, now>>

\* ConnectionProxy::start, second half.
logConnection(r) ==
    LET p == request[r].proto IN
    /\ p # None
    /\ request[r].logged = None
    /\ connections' = [connections EXCEPT ![p] = Append(@, now)]
    /\ request' = [request EXCEPT ![r].logged = now]
    /\ UNCHANGED <<reports, clears, crashed, now>>

connectionDidFinish(r) ==
    /\ request[r].proto # None
    /\ ~request[r].ended
    /\ request' = [request EXCEPT ![r].ended = TRUE]
    /\ UNCHANGED <<reports, connections, clears, crashed, now>>

\* The part of validate under mLock, with the copy of the reports it takes.
Reported(r, vec, raced) ==
    LET p == request[r].proto IN
    request' = [request EXCEPT
        ![r].ended    = TRUE,
        ![r].failed   = now,
        ![r].copy     = [vec |-> vec, rqVec |-> connections[p]],
        ![r].saw      = [logged |-> Logged(p), failed |-> Failed(p) \cup {r}],
        ![r].overtook = (request[r].logged = None),
        ![r].raced    = raced]

\* connectionDidFailWithError, logFailure, and validate up to the unlock.
logFailure(r) ==
    LET p == request[r].proto IN
    /\ p # None
    /\ ~request[r].ended
    /\ reports' = [reports EXCEPT ![p] = Append(@, now)]
    /\ Reported(r, reports'[p], FALSE)
    /\ UNCHANGED <<connections, clears, crashed, now>>

\* ProtocolFailureMonitor::clear, which takes no lock.
clear ==
    /\ clears < MaxClears
    /\ reports' = [p \in Protocols |-> <<>>]
    /\ clears' = clears + 1
    /\ UNCHANGED <<connections, request, crashed, now>>

\* clear while another thread pushes a report and copies the vector: either write
\* of the end of the vector may be the one that stays, and the copy may be made
\* before or after the clear.
clearDuringLogFailure(r) ==
    LET p == request[r].proto IN
    /\ p # None
    /\ ~request[r].ended
    /\ clears < MaxClears
    /\ \E left, vec \in {Append(reports[p], now), <<now>>, <<>>} :
          /\ reports' = [q \in Protocols |-> IF q = p THEN left ELSE <<>>]
          /\ Reported(r, vec, TRUE)
    /\ clears' = clears + 1
    /\ UNCHANGED <<connections, crashed, now>>

-----------------------------------------------------------------------------
Recent_Open(s) == {i \in DOMAIN s : now - s[i] < Interval}

\* The entries the prune loops do not erase.
Recent(s) == {i \in DOMAIN s : now - s[i] <= Interval}

Decision_NoPrune(vec, rqVec) ==
    IF Len(vec) > Len(rqVec) THEN "early return"
    ELSE IF 100 * Len(vec) > Threshold * Len(rqVec) THEN "notify" ELSE "quiet"

Decision_Fraction(vec, rqVec) ==
    LET fails == Cardinality(Recent(vec))
        total == Cardinality(Recent(rqVec))
    IN  CASE fails > total -> "early return"
          [] fails <= total /\ fails > Threshold * total -> "notify"
          [] OTHER -> "quiet"

\* The comparison on the pruned copies.
Decision(vec, rqVec) ==
    LET fails == Cardinality(Recent(vec))
        total == Cardinality(Recent(rqVec))
    IN  CASE fails > total -> "early return"
          [] fails <= total /\ 100 * fails > Threshold * total -> "notify"
          [] OTHER -> "quiet"

\* The rest of validate: prune, compare, and call the subscribers.
validate(r) ==
    LET copy == request[r].copy IN
    /\ copy # None
    /\ Recent(copy.vec) # {}
    /\ Recent(copy.rqVec) # {}
    /\ request' = [request EXCEPT ![r].verdict = Decision(copy.vec, copy.rqVec),
                                  ![r].decided = now, ![r].copy = None]
    /\ UNCHANGED <<reports, connections, clears, crashed, now>>

\* A prune loop has nothing to read.
validateUndefined(r) ==
    LET copy == request[r].copy IN
    /\ copy # None
    /\ Recent(copy.vec) = {} \/ Recent(copy.rqVec) = {}
    /\ request' = [request EXCEPT ![r].verdict = "undefined", ![r].decided = now, ![r].copy = None]
    /\ crashed' \in BOOLEAN
    /\ UNCHANGED <<reports, connections, clears, now>>

Tick ==
    /\ now < MaxTime
    /\ now' = now + 1
    /\ UNCHANGED <<reports, connections, request, clears, crashed>>

Next ==
    /\ ~crashed
    /\ \/ \E r \in Requests :
            \/ \E p \in Protocols : startWithRequest(r, p)
            \/ logConnection(r)
            \/ connectionDidFinish(r)
            \/ logFailure(r)
            \/ clearDuringLogFailure(r)
            \/ validate(r)
            \/ validateUndefined(r)
       \/ clear
       \/ Tick

Spec == Init /\ [][Next]_vars

-----------------------------------------------------------------------------
(* Properties. *)

\* The requests whose entry made at times[q] was in the window of r's validate.
InWindow(r, set, time(_)) ==
    {q \in set : request[r].decided - time(q) <= Interval}

LoggedAt(q) == request[q].logged
FailedAt(q) == request[q].failed

\* validate reads within its vectors for a failure that is reported after its
\* request was logged and decided within the interval, as long as no clear races.
UndefinedOnlyWhenLate ==
    \A r \in Requests :
        request[r].verdict = "undefined" =>
            \/ request[r].overtook
            \/ request[r].raced
            \/ request[r].decided - request[r].logged > Interval

\* Subscribers are only called when the failures that really happened in the window
\* exceed the threshold of the requests logged when the failure was reported:
\* clears, races and late decisions never invent a failure.
NotifyJustified ==
    \A r \in Requests :
        request[r].verdict = "notify" =>
            100 * Cardinality(InWindow(r, request[r].saw.failed, FailedAt))
              > Threshold * Cardinality(InWindow(r, request[r].saw.logged, LoggedAt))

\* When validate stays quiet although the records were not cleared, the requests that
\* failed in the window are within the threshold of those logged in it, although the
\* vectors it counts were copied earlier; and then, with a threshold below 100 percent,
\* not every request in the window had failed, unless a failure had overtaken its log
\* entry.  Nothing validates the threshold: from 100 on quiet says nothing of survivors.
QuietMeansSomeSurvived ==
    \A r \in Requests :
        request[r].verdict = "quiet" =>
            \/ clears > 0
            \/ /\ 100 * Cardinality(InWindow(r, request[r].saw.failed, FailedAt))
                    <= Threshold * Cardinality(InWindow(r, request[r].saw.logged, LoggedAt))
               /\ \/ Threshold >= 100
                  \/ \E q \in request[r].saw.failed : request[q].overtook
                  \/ ~(InWindow(r, request[r].saw.logged, LoggedAt) \subseteq request[r].saw.failed)

\* What the comment on the early return says ("this case also means that all
\* requests are successful"), in its weakest form: some request was.
EarlyReturnMeansSuccess ==
    \A r \in Requests :
        request[r].verdict = "early return" =>
            \E q \in request[r].saw.logged : q \notin request[r].saw.failed
=============================================================================
