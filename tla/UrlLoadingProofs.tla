-------------------------- MODULE UrlLoadingProofs --------------------------
(***************************************************************************)
(* Proofs about UrlLoading, for any requests, domains and configurations   *)
(* and any number of data callbacks.                                       *)
(*                                                                         *)
(* A request only meets the others in the dispatch_once of the sessions,   *)
(* in syncing and in gone, so the invariant is one of its record req[r]:   *)
(* what was passed to the client followed by what is still queued for the  *)
(* delegate is what its task has done so far.  That story only grows, and  *)
(* after an end by a record at most: the step of LoadContract.             *)
(***************************************************************************)
EXTENDS UrlLoading, SequenceFacts, FiniteSetTheorems

-----------------------------------------------------------------------------
(* Type correctness. *)

\* Set changes one request.
LEMMA SetFacts ==
    ASSUME TypeOK, NEW r \in Requests, NEW new \in Request, Set(r, new)
    PROVE  /\ req' \in [Requests -> Request]
           /\ req'[r] = new
           /\ \A m \in Requests \ {r} : req'[m] = req[m]
BY DEF TypeOK, Set

\* What holds of the other variables when shared is unchanged.
LEMMA SharedType ==
    ASSUME TypeOK, req' \in [Requests -> Request], UNCHANGED shared
    PROVE  TypeOK'
BY DEF TypeOK, shared

\* The calls of a record for the statistics.
LEMMA CollectedFacts ==
    /\ Collected \in Seq(Calls)
    /\ Collected = <<>> \/ Collected = <<"record">>
<1>1. <<"record">> \in Seq(Calls) /\ <<>> \in Seq(Calls)
  BY DEF Calls
<1> QED BY <1>1 DEF Collected

\* A request keeps its type while it is routed.
LEMMA RoutingType ==
    ASSUME TypeOK, NEW r \in Requests,
           \/ (\E d \in Domains : canInitWithRequest(r, d)) \/ canTransport(r) \/ shouldTransportDomainName(r)
           \/ (\E p \in {"quic", "standard"} : currentProtocol(r, p))
           \/ markProvisioned(r) \/ setEdgeHost(r) \/ startDirect(r)
    PROVE  TypeOK'
<1> USE DEF Steps, Sessions
<1>1. req[r] \in Request
  BY DEF TypeOK
<1>2. ASSUME NEW d \in Domains, canInitWithRequest(r, d) PROVE TypeOK'
  BY <1>1, <1>2, SetFacts, SharedType DEF canInitWithRequest, Request
<1>3. CASE canTransport(r)
  <2>1. {conf} \in SUBSET Configurations
    BY DEF TypeOK
  <2>2. /\ [req[r] EXCEPT !.step = "listed", !.since = {conf}] \in Request
        /\ [req[r] EXCEPT !.step = "direct", !.domain = None] \in Request
    BY <1>1, <2>1 DEF Request
  <2> QED BY <1>3, <2>2, SetFacts, SharedType DEF canTransport
<1>4. CASE shouldTransportDomainName(r)
  BY <1>1, <1>4, SetFacts, SharedType DEF shouldTransportDomainName, Request
<1>5. ASSUME NEW p \in {"quic", "standard"}, currentProtocol(r, p) PROVE TypeOK'
  BY <1>1, <1>5, SetFacts, SharedType DEF currentProtocol, Request
<1>6. CASE markProvisioned(r)
  <2> DEFINE p == isDomainNameProvisioned(getActive, req[r].domain)
             next == IF req[r].session = "quic" THEN "quic" ELSE "marked"
             new == [req[r] EXCEPT !.step = next, !.marked = p, !.domain = None, !.since = {}]
  <2>1. p \in BOOLEAN
    BY DEF isDomainNameProvisioned
  <2>2. next \in Steps
    OBVIOUS
  <2>3. Set(r, new) /\ UNCHANGED shared
    BY <1>6 DEF markProvisioned
  <2> HIDE DEF p, next, Steps
  <2>4. new \in Request
    BY <1>1, <2>1, <2>2 DEF Request
  <2> HIDE DEF new
  <2> QED BY <2>3, <2>4, SetFacts, SharedType
<1>7. CASE setEdgeHost(r)
  <2>1. PICK host \in BOOLEAN :
           /\ Set(r, [req[r] EXCEPT !.step = "ready", !.hasHost = host, !.marked = FALSE])
           /\ UNCHANGED shared
    BY <1>7 DEF setEdgeHost
  <2> DEFINE new == [req[r] EXCEPT !.step = "ready", !.hasHost = host, !.marked = FALSE]
  <2>2. Set(r, new) /\ UNCHANGED shared
    BY <2>1
  <2>3. new \in Request
    BY <1>1, <2>1 DEF Request
  <2> HIDE DEF new
  <2> QED BY <2>2, <2>3, SetFacts, SharedType
<1>8. CASE startDirect(r)
  <2> DEFINE new == [req[r] EXCEPT !.step = "ready", !.session = "origin"]
  <2>1. Set(r, new) /\ UNCHANGED shared
    BY <1>8 DEF startDirect
  <2>2. new \in Request
    BY <1>1 DEF Request
  <2> HIDE DEF new
  <2> QED BY <2>1, <2>2, SetFacts, SharedType
<1> QED BY <1>2, <1>3, <1>4, <1>5, <1>6, <1>7, <1>8

\* A request keeps its type while it is started.
LEMMA StartingType ==
    ASSUME TypeOK, NEW r \in Requests,
           \/ failWithoutHost(r) \/ failedWithoutHost(r) \/ enterOnce(r)
           \/ createTaskWithRequest(r) \/ retainHolder(r) \/ p_createTaskWithParams(r)
    PROVE  TypeOK'
<1> USE DEF Steps, Sessions
<1>1. req[r] \in Request
  BY DEF TypeOK
<1>2. CASE failWithoutHost(r)
  <2>1. Append(req[r].story, "fail") \in Seq(Calls)
    BY <1>1 DEF Request, Calls
  <2>2. [req[r] EXCEPT !.step = "failing", !.story = Append(@, "fail")] \in Request
    BY <1>1, <2>1 DEF Request
  <2> QED BY <1>2, <2>2, SetFacts, SharedType DEF failWithoutHost
<1>3. CASE failedWithoutHost(r)
  <2> DEFINE new == [req[r] EXCEPT !.step = "over"]
  <2>1. Set(r, new) /\ UNCHANGED shared
    BY <1>3 DEF failedWithoutHost
  <2>2. new \in Request
    BY <1>1 DEF Request
  <2> HIDE DEF new
  <2> QED BY <2>1, <2>2, SetFacts, SharedType
<1>4. CASE enterOnce(r)
  <2> DEFINE new == [req[r] EXCEPT !.step = "waiting"]
  <2>1. Set(r, new)
    BY <1>4 DEF enterOnce
  <2>2. new \in Request
    BY <1>1 DEF Request
  <2> HIDE DEF new
  <2>3. req' \in [Requests -> Request]
    BY <2>1, <2>2, SetFacts
  <2> QED BY <1>4, <2>3 DEF enterOnce, TypeOK
<1>5. CASE createTaskWithRequest(r)
  <2> DEFINE standard == req[r].session = "standard"
             next == IF standard THEN "created" ELSE "started"
             new == [req[r] EXCEPT !.step = next, !.mapped = standard, !.task = "queued"]
  <2>1. standard \in BOOLEAN /\ next \in Steps /\ "queued" \in TaskStates
    BY DEF TaskStates
  <2>2. Set(r, new)
    BY <1>5 DEF createTaskWithRequest
  <2> HIDE DEF standard, next, Steps
  <2>3. new \in Request
    BY <1>1, <2>1 DEF Request
  <2> HIDE DEF new
  <2>4. req' \in [Requests -> Request]
    BY <2>2, <2>3, SetFacts
  <2> QED BY <1>5, <2>4 DEF createTaskWithRequest, TypeOK
<1>6. CASE retainHolder(r)
  BY <1>1, <1>6, SetFacts, SharedType DEF retainHolder, Request
<1>7. CASE p_createTaskWithParams(r)
  BY <1>1, <1>7, SetFacts, SharedType DEF p_createTaskWithParams, Request, TaskStates
<1> QED BY <1>2, <1>3, <1>4, <1>5, <1>6, <1>7

\* A task keeps its type when something happens to it, and has not more than
\* MaxFrames data callbacks.
LEMMA EventType ==
    ASSUME TypeOK, NEW r \in Requests, TaskEvent(r)
    PROVE  TypeOK'
<1>1. req[r] \in Request
  BY DEF TypeOK
<1>2. PICK call \in Calls, task \in TaskStates :
         /\ Event(r, call, task)
         /\ call = "data" => req[r].sent < MaxFrames
  BY DEF TaskEvent, Calls, TaskStates
<1>3. /\ Append(req[r].queue, call) \in Seq(Calls)
      /\ req[r].sent + (IF call = "data" THEN 1 ELSE 0) \in 0 .. MaxFrames
  BY <1>1, <1>2, UrlLoadingAssumption DEF Request
<1>4. [req[r] EXCEPT !.task = task, !.queue = Append(@, call),
                     !.sent = @ + (IF call = "data" THEN 1 ELSE 0),
                     !.failed = (call = "fail")] \in Request
  BY <1>1, <1>3 DEF Request
<1> QED BY <1>2, <1>4, SetFacts, SharedType DEF Event

\* What a callback does to the record of a request.
LEMMA PassedType ==
    ASSUME TypeOK, NEW r \in Requests, req[r].queue # <<>>
    PROVE  /\ Pending(r) \in Calls
           /\ Tail(req[r].queue) \in Seq(Calls)
           /\ \A c \in Calls : Passed(r, c) \in Request
<1>1. req[r] \in Request
  BY DEF TypeOK
<1>2. Pending(r) \in Calls /\ Tail(req[r].queue) \in Seq(Calls)
  BY <1>1 DEF Pending, Request
<1>3. ASSUME NEW c \in Calls PROVE Passed(r, c) \in Request
  <2>1. Append(req[r].story, c) \in Seq(Calls)
    BY <1>1 DEF Request
  <2> QED BY <1>1, <1>2, <2>1 DEF Passed, Request, TaskStates
<1> QED BY <1>2, <1>3

\* The ends that are told with a record.
LEMMA RecordedType ==
    ASSUME NEW q \in Request
    PROVE  /\ [q EXCEPT !.story = @ \o Collected, !.holder = "released", !.mapped = FALSE] \in Request
           /\ originEnd(q) \in Request
<1>1. q.story \o Collected \in Seq(Calls)
  BY CollectedFacts, ConcatFacts DEF Request
<1>2. <<"finish">> \in Seq(Calls)
  BY DEF Calls
<1>3. q.story \o Collected \o <<"finish">> \in Seq(Calls)
  BY <1>1, <1>2, ConcatFacts
<1> QED BY <1>1, <1>3 DEF Request, originEnd

\* The delegates keep the type.
LEMMA DelegateType ==
    ASSUME TypeOK, NEW r \in Requests, Delegate(r)
    PROVE  TypeOK'
<1>1. req[r] \in Request
  BY DEF TypeOK
<1>2. "finish" \in Calls /\ "fail" \in Calls
  BY DEF Calls
<1>3. CASE standardProgress(r)
  BY <1>3, PassedType, SetFacts, SharedType DEF standardProgress, Called
<1>4. CASE standardFinish(r)
  <2>1. Passed(r, "finish") \in Request
    BY <1>2, <1>4, PassedType DEF standardFinish, Called
  <2>2. req' \in [Requests -> Request] /\ gone' \in BOOLEAN
    BY <1>4, <2>1, RecordedType, SetFacts DEF standardFinish, Released
  <2> QED BY <1>4, <2>2 DEF standardFinish, TypeOK
<1>5. CASE standardFail(r)
  <2>1. req' \in [Requests -> Request]
    BY <1>2, <1>5, PassedType, SetFacts DEF standardFail, Called
  <2> QED BY <1>5, <2>1 DEF standardFail, TypeOK
<1>6. CASE standardFailed(r)
  <2>1. req' \in [Requests -> Request] /\ gone' \in BOOLEAN
    BY <1>1, <1>6, RecordedType, SetFacts DEF standardFailed, Released
  <2> QED BY <1>6, <2>1 DEF standardFailed, TypeOK
<1>7. CASE originProgress(r)
  <2>1. Passed(r, Pending(r)) \in Request /\ Tail(req[r].queue) \in Seq(Calls)
    BY <1>7, PassedType DEF originProgress, Called
  <2>2. [req[r] EXCEPT !.queue = Tail(@)] \in Request
    BY <1>1, <2>1 DEF Request
  <2>3. req' \in [Requests -> Request] /\ checking' \in Requests \cup {None}
    BY <1>7, <2>1, <2>2, SetFacts DEF originProgress
  <2> QED BY <1>7, <2>3 DEF originProgress, TypeOK
<1>9. CASE originCheck(r)
  <2>1. req' \in [Requests -> Request]
    BY <1>1, <1>9, RecordedType, SetFacts DEF originCheck
  <2> QED BY <1>9, <2>1 DEF originCheck, TypeOK
<1>8. CASE originComplete(r)
  <2>1. /\ Tail(req[r].queue) \in Seq(Calls)
        /\ Append(req[r].story, "fail") \in Seq(Calls)
        /\ req[r].story \o Collected \o <<"finish">> \in Seq(Calls)
        /\ req[r].story \in Seq(Calls)
    <3>1. req[r].story \in Seq(Calls) /\ Tail(req[r].queue) \in Seq(Calls)
      BY <1>1, <1>8, PassedType DEF originComplete, Called, Request
    <3>2. Append(req[r].story, "fail") \in Seq(Calls)
      BY <1>2, <3>1
    <3>3. <<"finish">> \in Seq(Calls)
      BY DEF Calls
    <3> QED BY <3>1, <3>2, <3>3, CollectedFacts, ConcatFacts
  <2> DEFINE told == IF ~req[r].mapped THEN req[r].story
                     ELSE IF Pending(r) = "fail" THEN Append(req[r].story, "fail")
                          ELSE req[r].story \o Collected \o <<"finish">>
             new == [req[r] EXCEPT !.queue = Tail(@), !.mapped = FALSE, !.story = told]
  <2>2. new \in Request
    <3>1. told \in Seq(Calls)
      BY <2>1
    <3> HIDE DEF told
    <3> QED BY <1>1, <2>1, <3>1 DEF Request
  <2> HIDE DEF new
  <2>3. TypeOK' \/ req' # [req EXCEPT ![r] = new]
    BY <1>8, <2>2, SetFacts, SharedType DEF originComplete, Set
  <2> QED BY <1>8, <2>3 DEF originComplete, Set, new
<1> QED BY <1>3, <1>4, <1>5, <1>6, <1>7, <1>8, <1>9 DEF Delegate

\* The configuration and startWithSDKKey keep the type.
LEMMA SurroundingsType ==
    ASSUME TypeOK, NEW c \in Configurations,
           registerClass \/ startWithSDKKey \/ Activate(c) \/ StaleChanges \/ UNCHANGED vars
    PROVE  TypeOK'
<1>1. CASE registerClass \/ StaleChanges \/ UNCHANGED vars
  BY <1>1 DEF registerClass, StaleChanges, vars, TypeOK
<1>2. CASE startWithSDKKey
  BY <1>2 DEF startWithSDKKey, TypeOK, Sessions
<1>3. CASE Activate(c)
  <2>1. ASSUME NEW r \in Requests
        PROVE  (IF req[r].since = {} THEN req[r]
                ELSE [req[r] EXCEPT !.since = @ \cup {c}]) \in Request
    <3>1. req[r] \in Request
      BY DEF TypeOK
    <3>2. req[r].since \cup {c} \in SUBSET Configurations
      BY <3>1 DEF Request
    <3> QED BY <3>1, <3>2 DEF Request
  <2>2. req' \in [Requests -> Request]
    BY <1>3, <2>1 DEF Activate
  <2> QED BY <1>3, <2>2 DEF Activate, TypeOK
<1> QED BY <1>1, <1>2, <1>3
LEMMA InitType == Init => TypeOK
<1> SUFFICES ASSUME Init PROVE TypeOK
  OBVIOUS
<1>1. <<>> \in Seq(Calls) /\ 0 \in 0 .. MaxFrames
  BY UrlLoadingAssumption
<1>2. Unused \in Request
  BY <1>1 DEF Unused, Request, Steps, TaskStates
<1> QED BY <1>2 DEF Init, TypeOK

LEMMA TypeStep == TypeOK /\ [Next]_vars => TypeOK'
<1> SUFFICES ASSUME TypeOK, [Next]_vars PROVE TypeOK'
  OBVIOUS
<1>1. ASSUME NEW r \in Requests, NEW d \in Domains, Alive(canInitWithRequest(r, d)) PROVE TypeOK'
  BY <1>1, RoutingType DEF Alive
<1>2. ASSUME NEW r \in Requests, Alive(Loading(r)) PROVE TypeOK'
  BY <1>2, RoutingType, StartingType DEF Alive, Loading
<1>3. ASSUME NEW r \in Requests, Alive(p_createTaskWithParams(r)) PROVE TypeOK'
  BY <1>3, StartingType DEF Alive
<1>4. ASSUME NEW r \in Requests, Alive(TaskEvent(r)) PROVE TypeOK'
  BY <1>4, EventType DEF Alive
<1>5. ASSUME NEW r \in Requests, Alive(Delegate(r)) PROVE TypeOK'
  BY <1>5, DelegateType DEF Alive
<1>6. CASE Alive(registerClass) \/ Alive(startWithSDKKey) \/ Alive(StaleChanges) \/ Gone \/ UNCHANGED vars
  <2>1. conf \in Configurations
    BY DEF TypeOK
  <2> QED BY <1>6, <2>1, SurroundingsType DEF Alive, Gone
<1>7. ASSUME NEW c \in Configurations, Alive(Activate(c)) PROVE TypeOK'
  BY <1>7, SurroundingsType DEF Alive
<1> QED BY <1>1, <1>2, <1>3, <1>4, <1>5, <1>6, <1>7 DEF Next

\* The type invariant holds in every behaviour: a request is always in one of its
\* steps and no task has more than MaxFrames data callbacks.
THEOREM TypeCorrect == Spec => []TypeOK
BY InitType, TypeStep, PTL DEF Spec

-----------------------------------------------------------------------------
(* The course of a load. *)

Ends == {"finish", "fail"}

\* The client has been told of an end.
EndTold(q) == \E i \in DOMAIN q.story : q.story[i] \in Ends

\* A response and n times data.
Loaded(s, n) ==
    /\ Len(s) = n + 1
    /\ s[1] = "response"
    /\ \A i \in 2 .. Len(s) : s[i] = "data"

\* What a task may have done before its end.
Progress(s) == s = <<>> \/ s = <<"redirect">> \/ \E n \in Nat : Loaded(s, n)

\* The calls of a task so far: those passed on, and those queued for its delegate.
Trace(q) == q.story \o q.queue

\* How far a task is says which calls there have been.
TraceOfTask(q, t) ==
    /\ q.task \in {"none", "queued", "running"} => t = <<>> /\ q.sent = 0
    /\ q.task = "responded" => t = <<"response">> /\ q.story = <<>> /\ q.sent = 0
    /\ q.task = "redirecting" => t = <<"redirect">>
    /\ q.task = "receiving" => Loaded(t, q.sent)
    /\ q.task # "completed" => ~q.failed
    /\ q.task = "completed" =>
          \E s \in Seq(Calls) :
             IF q.failed THEN Progress(s) /\ t = Append(s, "fail")
                         ELSE Loaded(s, q.sent) /\ t = Append(s, "finish")

\* A load in progress has passed on what its task did, in order, up to a point.
Underway(q) == ~EndTold(q) /\ TraceOfTask(q, Trace(q))

\* The story of a load that is over, after the progress s.
Whole(q, s) ==
    \/ ~q.failed /\ Loaded(s, q.sent)
    \/ q.session = "origin" /\ q.synthetic /\ \E n \in Nat : Loaded(s, n)

Ending(q, s) ==
    \/ /\ q.failed /\ Progress(s)
       /\ \/ q.story = Append(s, "fail")
          \/ q.session = "standard" /\ q.story = Append(Append(s, "fail"), "record")
    \/ /\ Whole(q, s)
       /\ \/ q.story = Append(s, "finish")
          \/ q.session = "standard" /\ q.story = Append(Append(s, "finish"), "record")
          \/ q.session = "origin" /\ q.story = Append(Append(s, "record"), "finish")

Over(q) ==
    /\ q.task = "completed"
    /\ q.session = "standard" => q.queue = <<>>
    /\ \E s \in Seq(Calls) : Ending(q, s)

\* Before there is a task.
Early == {"idle", "offered", "listed", "edge", "chosen", "marked", "direct", "ready", "waiting", "quic"}

NotStarted(q) ==
    /\ q.task = "none" /\ q.queue = <<>> /\ q.holder = "unset" /\ ~q.mapped
    /\ q.sent = 0 /\ ~q.failed /\ ~q.synthetic
    /\ \/ q.step \in Early /\ q.story = <<>>
       \/ q.step \in {"failing", "over"} /\ q.story = <<"fail">> /\ ~q.hasHost
    /\ q.step = "chosen" => q.session \in {"quic", "standard"}
    /\ q.step = "marked" => q.session = "standard"
    /\ q.step \in {"ready", "waiting"} => q.session \in Sessions

\* waits: the failure of q keeps the delegate queue waiting; g: the process has ended.
HolderOf(q, waits, g) ==
    /\ q.step = "created" => /\ q.session = "standard" /\ q.holder # "retained"
                             /\ q.holder = "unset" \/ g
    /\ q.session = "standard" =>
          /\ q.step = "started" => q.holder # "unset"
          /\ q.holder # "released" /\ EndTold(q) => waits
          /\ q.holder = "released" => EndTold(q) /\ ~waits
    /\ q.session = "origin" => q.holder = "unset" /\ ~waits

Started(q, waits, g) ==
    /\ q.task # "none"
    /\ q.step \in {"created", "started"}
    /\ q.session \in Sessions
    /\ Underway(q) \/ Over(q)
    /\ q.session = "origin" => (q.mapped <=> q.task # "queued" /\ ~EndTold(q))
    /\ HolderOf(q, waits, g)
    /\ waits => EndTold(q) /\ q.story[Len(q.story)] = "fail"

LoadOf(q, waits, g) == (NotStarted(q) /\ ~waits) \/ Started(q, waits, g)

LoadInv == \A r \in Requests : LoadOf(req[r], syncing = r, gone)

\* RSOriginSession has passed on a response or data, and looks at the task next.
CheckInv ==
    checking # None => /\ req[checking].session = "origin"
                       /\ \E n \in Nat : Loaded(req[checking].story, n)

GoneInv == gone => \E r \in Requests : req[r].step = "created"

\* The parts of a request that are sequences of calls.
LEMMA RequestFacts ==
    ASSUME NEW q \in Request
    PROVE  /\ q.story \in Seq(Calls) /\ q.queue \in Seq(Calls)
           /\ Len(q.story) \in Nat /\ DOMAIN q.story = 1 .. Len(q.story)
           /\ q.sent \in Nat
           /\ q.failed \in BOOLEAN /\ q.mapped \in BOOLEAN
           /\ q.task \in TaskStates
BY LenProperties, UrlLoadingAssumption DEF Request

LEMMA CallFacts == /\ "response" \in Calls /\ "redirect" \in Calls /\ "data" \in Calls
                   /\ "finish" \in Calls /\ "fail" \in Calls /\ "record" \in Calls
BY DEF Calls

\* Progress has neither an end nor a record.
LEMMA ProgressFacts ==
    ASSUME NEW s \in Seq(Calls), Progress(s), NEW i \in 1 .. Len(s)
    PROVE  /\ s[i] \in {"response", "redirect", "data"}
           /\ s[i] \in {"response", "redirect"} => i = 1
           /\ s[i] = "data" => s[1] = "response"
           /\ s[i] \in {"response", "data"} => Loaded(s, Len(s) - 1)
<1>1. Len(s) \in Nat
  BY LenProperties
<1>2. CASE s = <<>>
  BY <1>2
<1>3. CASE s = <<"redirect">>
  BY <1>3
<1>4. ASSUME NEW n \in Nat, Loaded(s, n)
      PROVE  /\ s[i] \in {"response", "data"}
             /\ s[i] = "response" => i = 1
             /\ s[1] = "response"
             /\ Loaded(s, Len(s) - 1)
  BY <1>1, <1>4 DEF Loaded
<1> QED BY <1>2, <1>3, <1>4 DEF Progress

\* A load that is over has been told of its end.
LEMMA OverIsTold ==
    ASSUME NEW q \in Request, Over(q)
    PROVE  EndTold(q)
<1>1. PICK s \in Seq(Calls) : Ending(q, s)
  BY DEF Over
<1>2. Len(s) \in Nat
  BY LenProperties
<1>3. ASSUME NEW e \in Ends, q.story = Append(s, e) \/ q.story = Append(Append(s, e), "record")
      PROVE  EndTold(q)
  <2>1. e \in Calls
    BY DEF Ends, Calls
  <2>2. Len(s) + 1 \in DOMAIN q.story /\ q.story[Len(s) + 1] = e
    BY <1>2, <1>3, <2>1, CallFacts
  <2> QED BY <2>2 DEF EndTold
<1>4. CASE q.story = Append(Append(s, "record"), "finish")
  <2>1. Len(s) + 2 \in DOMAIN q.story /\ q.story[Len(s) + 2] = "finish"
    BY <1>2, <1>4, CallFacts
  <2> QED BY <2>1 DEF EndTold, Ends
<1> QED BY <1>1, <1>3, <1>4 DEF Ending, Ends

\* What is told of a load is the first part of its trace, what is queued the rest.
LEMMA TraceFacts ==
    ASSUME NEW q \in Request
    PROVE  /\ Trace(q) \in Seq(Calls)
           /\ Len(Trace(q)) \in Nat
           /\ Len(Trace(q)) = Len(q.story) + Len(q.queue)
           /\ Len(q.story) \in Nat /\ Len(q.queue) \in Nat
           /\ \A i \in 1 .. Len(q.story) : Trace(q)[i] = q.story[i]
           /\ q.queue = <<>> => Trace(q) = q.story
           /\ q.queue # <<>> => /\ Len(q.queue) > 0
                                /\ Trace(q)[Len(q.story) + 1] = Head(q.queue)
<1> DEFINE st == q.story
           qu == q.queue
<1>1. st \in Seq(Calls) /\ qu \in Seq(Calls)
  BY RequestFacts
<1> HIDE DEF st, qu
<1>2. /\ st \o qu \in Seq(Calls)
      /\ Len(st \o qu) = Len(st) + Len(qu)
      /\ \A i \in 1 .. Len(st) : (st \o qu)[i] = st[i]
      /\ qu = <<>> => st \o qu = st
      /\ qu # <<>> => (st \o qu)[Len(st) + 1] = Head(qu)
  BY <1>1, PartsFacts, Zenon
<1>3. Trace(q) = st \o qu
  BY DEF Trace, st, qu
<1> DEFINE t == Trace(q)
<1>4. /\ t \in Seq(Calls)
      /\ Len(t) = Len(st) + Len(qu)
      /\ \A i \in 1 .. Len(st) : t[i] = st[i]
      /\ qu = <<>> => t = st
      /\ qu # <<>> => t[Len(st) + 1] = Head(qu)
  BY <1>2, <1>3, Zenon
<1> HIDE DEF t
<1>5. /\ Len(st) \in Nat /\ Len(qu) \in Nat /\ Len(t) \in Nat
      /\ qu # <<>> => Len(qu) > 0
  BY <1>1, <1>4, LenProperties, EmptySeq
<1> QED BY <1>4, <1>5 DEF st, qu, t

\* The trace when a call is passed on, and when one is queued.
LEMMA TraceSteps ==
    ASSUME NEW q \in Request, NEW p \in Request
    PROVE  /\ q.queue # <<>> /\ p.story = Append(q.story, Head(q.queue)) /\ p.queue = Tail(q.queue)
                => Trace(p) = Trace(q)
           /\ \A call \in Calls : p.story = q.story /\ p.queue = Append(q.queue, call)
                => Trace(p) = Append(Trace(q), call)
<1> DEFINE st == q.story
           qu == q.queue
<1>1. st \in Seq(Calls) /\ qu \in Seq(Calls)
  BY RequestFacts
<1> HIDE DEF st, qu
<1>2. qu # <<>> => Append(st, Head(qu)) \o Tail(qu) = st \o qu
  BY <1>1, PartsFacts
<1>3. \A call \in Calls : st \o Append(qu, call) = Append(st \o qu, call)
  BY <1>1, PartsFacts
<1> QED BY <1>2, <1>3, Zenon DEF Trace, st, qu

\* A call is queued for the delegate.
Pends(q) == q.queue # <<>>

\* Which calls the task of a load in progress has made, by position.
LEMMA PendingFacts ==
    ASSUME NEW q \in Request, Underway(q), Pends(q)
    PROVE  /\ Head(q.queue) \in Calls
           /\ q.task \notin {"none", "queued", "running"}
           /\ q.task = "responded" => Head(q.queue) = "response"
           /\ Head(q.queue) \in Ends => q.task = "completed"
<1> DEFINE t == Trace(q)
           m == Len(q.story)
           n == Len(q.queue)
           h == Head(q.queue)
<1>1. /\ m \in Nat /\ n \in Nat /\ n > 0 /\ h \in Calls /\ q.task \in TaskStates
      /\ t \in Seq(Calls) /\ Len(t) = m + n /\ t[m + 1] = h
  BY RequestFacts, TraceFacts, HeadTailProperties DEF Pends
<1>2. /\ q.task \in {"none", "queued", "running"} => t = <<>>
      /\ q.task = "responded" => t = <<"response">> /\ m = 0
      /\ q.task = "redirecting" => t = <<"redirect">>
      /\ q.task = "receiving" => Loaded(t, q.sent)
  BY EmptySeq DEF Underway, TraceOfTask
<1> HIDE DEF t, m, n, h
<1>3. m + 1 \in 1 .. Len(t)
  BY <1>1
<1>4. t # <<>>
  BY <1>1
<1>5. q.task = "responded" => h = "response"
  BY <1>1, <1>2
<1>6. ASSUME h \in Ends, q.task # "completed" PROVE FALSE
  <2>1. q.sent \in Nat /\ 0 \in Nat
    BY RequestFacts
  <2>2. t = <<"response">> => Loaded(t, 0)
    BY DEF Loaded
  <2>3. Progress(t)
    BY <1>1, <1>2, <1>4, <1>6, <2>1, <2>2 DEF Progress, TaskStates
  <2> QED BY <1>1, <1>3, <1>6, <2>3, ProgressFacts DEF Ends
<1> QED BY <1>1, <1>2, <1>4, <1>5, <1>6 DEF h

\* Passing on a call that is no end: the trace stays what it was.
LEMMA PassKeepsUnderway ==
    ASSUME NEW q \in Request, NEW p \in Request, Underway(q), Pends(q),
           Head(q.queue) \notin Ends,
           p.story = Append(q.story, Head(q.queue)), p.queue = Tail(q.queue),
           p.sent = q.sent, p.failed = q.failed,
           p.task = IF Head(q.queue) = "response" /\ q.task = "responded" THEN "receiving" ELSE q.task
    PROVE  Underway(p)
<1>1. /\ q.story \in Seq(Calls) /\ q.queue \in Seq(Calls)
      /\ Len(q.story) \in Nat /\ DOMAIN q.story = 1 .. Len(q.story)
  BY RequestFacts
<1>2. Trace(p) = Trace(q)
  BY TraceSteps DEF Pends
<1>3. ~EndTold(p)
  <2>1. Head(q.queue) \in Calls
    BY PendingFacts
  <2>2. /\ DOMAIN p.story = 1 .. Len(q.story) + 1
        /\ \A i \in 1 .. Len(q.story) : p.story[i] = q.story[i]
        /\ p.story[Len(q.story) + 1] = Head(q.queue)
    BY <1>1, <2>1, AppendProperties, LenProperties
  <2>3. \A i \in 1 .. Len(q.story) : q.story[i] \notin Ends
    BY <1>1 DEF Underway, EndTold
  <2> QED BY <1>1, <2>2, <2>3 DEF EndTold
<1>4. TraceOfTask(p, Trace(q))
  <2>1. TraceOfTask(q, Trace(q))
    BY DEF Underway
  <2>2. CASE q.task = "responded"
    <3>1. Trace(q) = <<"response">> /\ q.sent = 0 /\ ~q.failed
      BY <2>1, <2>2 DEF TraceOfTask
    <3>2. Loaded(Trace(q), q.sent)
      BY <3>1 DEF Loaded
    <3>3. p.task = "receiving"
      BY <2>2, PendingFacts
    <3> QED BY <3>1, <3>2, <3>3 DEF TraceOfTask
  <2>3. CASE q.task # "responded"
    BY <2>1, <2>3 DEF TraceOfTask
  <2> QED BY <2>2, <2>3
<1> QED BY <1>2, <1>3, <1>4 DEF Underway

\* An event of the task lengthens the trace.
LEMMA EventKeepsUnderway ==
    ASSUME NEW q \in Request, NEW p \in Request, Underway(q), NEW call \in Calls,
           p.story = q.story, p.queue = Append(q.queue, call),
           p.sent = q.sent + (IF call = "data" THEN 1 ELSE 0), p.failed = (call = "fail"),
           \/ q.task = "running" /\ call = "response" /\ p.task = "responded"
           \/ q.task = "running" /\ call = "redirect" /\ p.task = "redirecting"
           \/ q.task = "receiving" /\ call = "data" /\ p.task = "receiving"
           \/ q.task = "receiving" /\ call = "finish" /\ p.task = "completed"
           \/ q.task \in {"running", "responded", "receiving", "redirecting"}
              /\ call = "fail" /\ p.task = "completed"
    PROVE  Underway(p)
<1> DEFINE t == Trace(q)
<1>1. /\ q.story \in Seq(Calls) /\ q.queue \in Seq(Calls)
      /\ Len(q.story) \in Nat /\ DOMAIN q.story = 1 .. Len(q.story)
      /\ q.sent \in Nat
  BY RequestFacts
<1>2. t \in Seq(Calls) /\ Trace(p) = Append(t, call) /\ Len(t) \in Nat
  BY TraceFacts, TraceSteps
<1>3. ~EndTold(p)
  BY DEF Underway, EndTold
<1>4. TraceOfTask(q, t)
  BY DEF Underway
<1> HIDE DEF t
<1>5. CASE q.task = "running" /\ call = "response" /\ p.task = "responded"
  <2>1. t = <<>> /\ q.sent = 0
    BY <1>4, <1>5 DEF TraceOfTask
  <2>2. q.story = <<>>
    BY <1>1, <2>1, ConcatEqualIffEmpty DEF Trace, t
  <2>3. Append(t, call) = <<"response">>
    BY <1>5, <2>1
  <2>4. p.sent = 0 /\ ~p.failed
    <3>1. p.sent = 0
      BY <1>5, <2>1
    <3>2. ~p.failed
      BY <1>5, Zenon
    <3> QED BY <3>1, <3>2
  <2>5. TraceOfTask(p, <<"response">>)
    BY <1>5, <2>2, <2>4 DEF TraceOfTask
  <2> QED BY <1>2, <1>3, <2>3, <2>5 DEF Underway
<1>6. CASE q.task = "running" /\ call = "redirect" /\ p.task = "redirecting"
  <2>1. t = <<>>
    BY <1>4, <1>6 DEF TraceOfTask
  <2>2. Append(t, call) = <<"redirect">>
    BY <1>6, <2>1
  <2> QED BY <1>2, <1>3, <1>6, <2>2 DEF Underway, TraceOfTask
<1>7. CASE q.task = "receiving" /\ call = "data" /\ p.task = "receiving"
  <2>1. Loaded(t, q.sent)
    BY <1>4, <1>7 DEF TraceOfTask
  <2>2. Loaded(Append(t, call), q.sent + 1)
    BY <1>1, <1>2, <1>7, <2>1 DEF Loaded
  <2>3. p.sent = q.sent + 1 /\ ~p.failed
    BY <1>7
  <2>4. TraceOfTask(p, Append(t, call))
    BY <1>7, <2>2, <2>3 DEF TraceOfTask
  <2> QED BY <1>2, <1>3, <2>4 DEF Underway
<1>8. CASE q.task = "receiving" /\ call = "finish" /\ p.task = "completed"
  <2>1. Loaded(t, q.sent)
    BY <1>4, <1>8 DEF TraceOfTask
  <2>2. p.sent = q.sent /\ ~p.failed
    <3>1. p.sent = q.sent
      BY <1>1, <1>8
    <3>2. ~p.failed
      BY <1>8, Zenon
    <3> QED BY <3>1, <3>2
  <2>3. TraceOfTask(p, Append(t, call))
    BY <1>2, <1>8, <2>1, <2>2 DEF TraceOfTask
  <2> QED BY <1>2, <1>3, <2>3 DEF Underway
<1>9. CASE /\ q.task \in {"running", "responded", "receiving", "redirecting"}
           /\ call = "fail" /\ p.task = "completed"
  <2>1. Progress(t)
    <3>1. CASE q.task = "responded"
      <4>1. t = <<"response">>
        BY <1>4, <3>1 DEF TraceOfTask
      <4>2. Loaded(t, 0) /\ 0 \in Nat
        BY <4>1 DEF Loaded
      <4> QED BY <4>2 DEF Progress
    <3> QED BY <1>1, <1>4, <1>9, <3>1 DEF TraceOfTask, Progress
  <2> QED BY <1>1, <1>2, <1>3, <1>9, <2>1 DEF Underway, TraceOfTask
<1> QED BY <1>5, <1>6, <1>7, <1>8, <1>9

\* An end that is pending is the last call, and says how the task ended.
LEMMA EndIsLast ==
    ASSUME NEW q \in Request, Underway(q), Pends(q), Head(q.queue) \in Ends
    PROVE  /\ q.task = "completed"
           /\ Tail(q.queue) = <<>>
           /\ Head(q.queue) = "fail" => q.failed /\ Progress(q.story)
           /\ Head(q.queue) = "finish" => ~q.failed /\ Loaded(q.story, q.sent)
<1> DEFINE st == q.story
           qu == q.queue
           t == Trace(q)
           end == IF q.failed THEN "fail" ELSE "finish"
<1>1. /\ st \in Seq(Calls) /\ qu \in Seq(Calls) /\ qu # <<>>
      /\ Len(st) \in Nat /\ Len(qu) \in Nat /\ Len(qu) > 0
      /\ q.sent \in Nat /\ q.failed \in BOOLEAN
      /\ t \in Seq(Calls) /\ Len(t) = Len(st) + Len(qu) /\ t[Len(st) + 1] = Head(qu)
      /\ Head(qu) \in Ends
  BY RequestFacts, TraceFacts DEF Pends
<1>2. q.task = "completed"
  BY PendingFacts
<1>3. PICK s \in Seq(Calls) :
         /\ t = Append(s, end)
         /\ IF q.failed THEN Progress(s) ELSE Loaded(s, q.sent)
  BY <1>2 DEF Underway, TraceOfTask
<1>4. end \in Calls
  BY CallFacts
<1>5. Progress(s)
  BY <1>1, <1>3 DEF Progress
<1>6. t = st \o qu
  BY DEF Trace
<1> HIDE DEF end, t, st, qu
<1>7. /\ Len(t) = Len(s) + 1 /\ Len(s) \in Nat
      /\ \A i \in 1 .. Len(s) : t[i] = s[i]
  BY <1>3, <1>4, AppendProperties, LenProperties
<1>8. Len(st) = Len(s)
  <2> SUFFICES ASSUME Len(st) # Len(s) PROVE FALSE
    OBVIOUS
  <2>1. Len(st) + 1 \in 1 .. Len(s)
    BY <1>1, <1>7
  <2>2. s[Len(st) + 1] \in Ends
    BY <1>1, <1>7, <2>1
  <2> QED BY <1>5, <2>1, <2>2, ProgressFacts DEF Ends
<1>9. st = s /\ Tail(qu) = <<>> /\ Head(qu) = end
  <2>1. st \o qu = Append(s, end)
    BY <1>3, <1>6
  <2>2. /\ st \in Seq(Calls) /\ qu \in Seq(Calls) /\ qu # <<>>
        /\ s \in Seq(Calls) /\ end \in Calls /\ Len(st) = Len(s)
    BY <1>1, <1>4, <1>8
  <2> QED BY ONLY <2>1, <2>2, LastPart
<1> QED BY <1>2, <1>3, <1>9 DEF end, st, qu

\* A response or data is pending: what the client has heard with it is a response
\* and data, whether the task has ended or not.
LEMMA LateCallIsLoad ==
    ASSUME NEW q \in Request, Underway(q), Pends(q), Head(q.queue) \in {"response", "data"}
    PROVE  Loaded(Append(q.story, Head(q.queue)), Len(q.story))
<1> DEFINE st == q.story
           h == Head(q.queue)
           n == Len(q.queue)
           t == Trace(q)
           k == Len(st) + 1
           a == Append(st, h)
           end == IF q.failed THEN "fail" ELSE "finish"
<1>1. /\ st \in Seq(Calls) /\ Len(st) \in Nat /\ n \in Nat /\ n > 0
      /\ q.sent \in Nat /\ q.failed \in BOOLEAN
      /\ h \in Calls /\ h \in {"response", "data"}
      /\ t \in Seq(Calls) /\ Len(t) = Len(st) + n /\ t[k] = h /\ Len(t) \in Nat
      /\ \A i \in 1 .. Len(st) : t[i] = st[i]
  BY RequestFacts, TraceFacts, PendingFacts DEF Pends
<1> HIDE DEF t, st, h, n
<1>2. k \in 1 .. Len(t)
  BY <1>1
<1>3. PICK s \in Seq(Calls) : /\ Progress(s)
                             /\ k \in 1 .. Len(s)
                             /\ \A i \in 1 .. Len(s) : t[i] = s[i]
  <2>1. CASE q.task = "completed"
    <3>1. PICK s \in Seq(Calls) :
             /\ t = Append(s, end)
             /\ IF q.failed THEN Progress(s) ELSE Loaded(s, q.sent)
      BY <2>1 DEF Underway, TraceOfTask, t
    <3>2. end \in Calls /\ end \in Ends
      BY CallFacts DEF Ends
    <3>3. Progress(s)
      BY <1>1, <3>1 DEF Progress
    <3> HIDE DEF end
    <3>4. /\ Len(t) = Len(s) + 1 /\ Len(s) \in Nat
          /\ \A i \in 1 .. Len(s) : t[i] = s[i]
          /\ t[Len(s) + 1] = end
      BY <3>1, <3>2, AppendProperties, LenProperties
    <3>5. k # Len(s) + 1
      BY <1>1, <3>2, <3>4 DEF Ends
    <3>6. k \in 1 .. Len(s)
      BY <1>2, <3>4, <3>5
    <3> QED BY <3>3, <3>4, <3>6
  <2>2. CASE q.task # "completed"
    <3>1. q.task \in {"responded", "redirecting", "receiving"}
      BY <2>2, RequestFacts, PendingFacts DEF TaskStates
    <3>2. \/ t = <<"response">> \/ t = <<"redirect">> \/ Loaded(t, q.sent)
      BY <3>1 DEF Underway, TraceOfTask, t
    <3>3. t = <<"response">> => Loaded(t, 0) /\ 0 \in Nat
      BY DEF Loaded
    <3>4. Progress(t)
      BY <1>1, <3>2, <3>3 DEF Progress
    <3> QED BY <1>1, <1>2, <3>4
  <2> QED BY <2>1, <2>2
<1>4. /\ Len(a) = k
      /\ \A i \in 1 .. Len(st) : a[i] = st[i]
      /\ a[k] = h
  BY <1>1, AppendProperties
<1> HIDE DEF a
<1>5. Len(s) \in Nat
  BY LenProperties
<1>6. Loaded(s, Len(s) - 1)
  BY <1>1, <1>3, ProgressFacts
<1>7. \A i \in 1 .. k : a[i] = s[i]
  <2> TAKE i \in 1 .. k
  <2>1. i = k \/ i \in 1 .. Len(st)
    BY <1>1
  <2>2. i \in 1 .. Len(s)
    BY <1>3, <1>5
  <2> QED BY <1>1, <1>3, <1>4, <2>1, <2>2
<1>8. Loaded(a, Len(st))
  BY <1>1, <1>3, <1>4, <1>5, <1>6, <1>7 DEF Loaded
<1> QED BY <1>8 DEF a, st, h

\* The course of a load is in these parts of its record.
LEMMA SameCourse ==
    ASSUME NEW q \in Request, NEW p \in Request,
           p.story = q.story, p.queue = q.queue, p.task = q.task, p.sent = q.sent,
           p.failed = q.failed, p.session = q.session, p.synthetic = q.synthetic
    PROVE  /\ EndTold(p) <=> EndTold(q)
           /\ Underway(p) <=> Underway(q)
           /\ Over(p) <=> Over(q)
<1>1. EndTold(p) <=> EndTold(q)
  BY DEF EndTold
<1>2. Underway(p) <=> Underway(q)
  BY <1>1, Zenon DEF Underway, Trace, TraceOfTask
<1>3. Over(p) <=> Over(q)
  BY Zenon DEF Over, Ending, Whole
<1> QED BY <1>1, <1>2, <1>3

\* A step of one request leaves the course of the others alone.
LEMMA OthersKeep ==
    ASSUME LoadInv, ~gone, NEW r \in Requests,
           \A m \in Requests \ {r} : req'[m] = req[m] /\ (syncing' = m <=> syncing = m),
           LoadOf(req'[r], syncing' = r, gone')
    PROVE  LoadInv'
<1> SUFFICES ASSUME NEW m \in Requests PROVE LoadOf(req'[m], syncing' = m, gone')
  BY DEF LoadInv
<1>1. CASE m = r
  BY <1>1
<1>2. CASE m # r
  <2>1. req'[m] = req[m] /\ (syncing' = m <=> syncing = m)
    BY <1>2
  <2>2. LoadOf(req[m], syncing = m, gone)
    BY DEF LoadInv
  <2> QED BY <2>1, <2>2 DEF LoadOf, Started, HolderOf
<1> QED BY <1>1, <1>2

\* Set leaves the other requests alone.
LEMMA SetOthers ==
    ASSUME TypeOK, NEW r \in Requests, NEW new, Set(r, new)
    PROVE  req'[r] = new /\ \A m \in Requests \ {r} : req'[m] = req[m]
BY DEF TypeOK, Set

\* A request that is routed, or failed for want of a host, has no task yet.
LEMMA RoutingLoad ==
    ASSUME TypeOK, LoadInv, ~gone, NEW r \in Requests,
           \/ (\E d \in Domains : canInitWithRequest(r, d)) \/ canTransport(r)
           \/ shouldTransportDomainName(r)
           \/ (\E p \in {"quic", "standard"} : currentProtocol(r, p))
           \/ markProvisioned(r) \/ setEdgeHost(r) \/ startDirect(r)
           \/ failWithoutHost(r) \/ failedWithoutHost(r)
    PROVE  LoadInv'
<1> DEFINE q == req[r]
<1>1. q \in Request
  BY DEF TypeOK
<1>2. q.step \in Early \cup {"failing"}
  BY DEF canInitWithRequest, canTransport, shouldTransportDomainName, currentProtocol,
         markProvisioned, setEdgeHost, startDirect, failWithoutHost, failedWithoutHost, Early
<1>3. NotStarted(q) /\ syncing # r
  <2>1. LoadOf(q, syncing = r, gone)
    BY DEF LoadInv
  <2> QED BY <1>2, <2>1 DEF LoadOf, Started, Early
<1>4. UNCHANGED shared
  BY DEF canInitWithRequest, canTransport, shouldTransportDomainName, currentProtocol,
         markProvisioned, setEdgeHost, startDirect, failWithoutHost, failedWithoutHost
<1> DEFINE Alone == \A m \in Requests \ {r} : req'[m] = req[m]
<1>5. NotStarted(req'[r]) /\ Alone
  <2>1. ASSUME NEW d \in Domains, canInitWithRequest(r, d) PROVE NotStarted(req'[r]) /\ Alone
    <3>1. Alone /\ req'[r] = [q EXCEPT !.step = "offered", !.domain = d]
      BY <2>1, SetOthers DEF canInitWithRequest
    <3>2. q.step = "idle"
      BY <2>1 DEF canInitWithRequest
    <3> HIDE DEF q
    <3>3. NotStarted([q EXCEPT !.step = "offered", !.domain = d])
      BY <1>1, <1>3, <3>2 DEF NotStarted, Early, Request, Sessions
    <3> QED BY <3>1, <3>3
  <2>2. CASE canTransport(r)
    <3>1. Alone /\ (\/ req'[r] = [q EXCEPT !.step = "listed", !.since = {conf}]
             \/ req'[r] = [q EXCEPT !.step = "direct", !.domain = None])
      BY <2>2, SetOthers DEF canTransport
    <3>2. q.step = "offered"
      BY <2>2 DEF canTransport
    <3> HIDE DEF q
    <3>3. NotStarted([q EXCEPT !.step = "listed", !.since = {conf}])
      BY <1>1, <1>3, <3>2 DEF NotStarted, Early, Request, Sessions
    <3>4. NotStarted([q EXCEPT !.step = "direct", !.domain = None])
      BY <1>1, <1>3, <3>2 DEF NotStarted, Early, Request, Sessions
    <3> QED BY <3>1, <3>3, <3>4
  <2>3. CASE shouldTransportDomainName(r)
    <3>1. Alone /\ (\/ req'[r] = [q EXCEPT !.step = "edge"]
             \/ req'[r] = [q EXCEPT !.step = "direct", !.domain = None, !.since = {}])
      BY <2>3, SetOthers DEF shouldTransportDomainName
    <3>2. q.step = "listed"
      BY <2>3 DEF shouldTransportDomainName
    <3> HIDE DEF q
    <3>3. NotStarted([q EXCEPT !.step = "edge"])
      BY <1>1, <1>3, <3>2 DEF NotStarted, Early, Request, Sessions
    <3>4. NotStarted([q EXCEPT !.step = "direct", !.domain = None, !.since = {}])
      BY <1>1, <1>3, <3>2 DEF NotStarted, Early, Request, Sessions
    <3> QED BY <3>1, <3>3, <3>4
  <2>4. ASSUME NEW p \in {"quic", "standard"}, currentProtocol(r, p) PROVE NotStarted(req'[r]) /\ Alone
    <3>1. Alone /\ req'[r] = [q EXCEPT !.step = "chosen", !.session = p]
      BY <2>4, SetOthers DEF currentProtocol
    <3>2. q.step = "edge"
      BY <2>4 DEF currentProtocol
    <3> HIDE DEF q
    <3>3. NotStarted([q EXCEPT !.step = "chosen", !.session = p])
      BY <1>1, <1>3, <3>2 DEF NotStarted, Early, Request, Sessions
    <3> QED BY <3>1, <3>3
  <2>5. CASE markProvisioned(r)
    <3>1. Alone /\ req'[r] = [q EXCEPT !.step = IF q.session = "quic" THEN "quic" ELSE "marked",
                              !.marked = isDomainNameProvisioned(getActive, q.domain),
                              !.domain = None, !.since = {}]
      BY <2>5, SetOthers DEF markProvisioned
    <3>2. q.step = "chosen"
      BY <2>5 DEF markProvisioned
    <3> HIDE DEF q
    <3>3. NotStarted([q EXCEPT !.step = IF q.session = "quic" THEN "quic" ELSE "marked",
                              !.marked = isDomainNameProvisioned(getActive, q.domain),
                              !.domain = None, !.since = {}])
      BY <1>1, <1>3, <3>2 DEF NotStarted, Early, Request, Sessions
    <3> QED BY <3>1, <3>3
  <2>6. CASE setEdgeHost(r)
    <3>1. PICK host \in BOOLEAN :
             Alone /\ req'[r] = [q EXCEPT !.step = "ready", !.hasHost = host, !.marked = FALSE]
      BY <2>6, SetOthers DEF setEdgeHost
    <3>2. q.step = "marked"
      BY <2>6 DEF setEdgeHost
    <3> HIDE DEF q
    <3>3. NotStarted([q EXCEPT !.step = "ready", !.hasHost = host, !.marked = FALSE])
      BY <1>1, <1>3, <3>2 DEF NotStarted, Early, Request, Sessions
    <3> QED BY <3>1, <3>3
  <2>7. CASE startDirect(r)
    <3>1. Alone /\ req'[r] = [q EXCEPT !.step = "ready", !.session = "origin"]
      BY <2>7, SetOthers DEF startDirect
    <3>2. q.step = "direct"
      BY <2>7 DEF startDirect
    <3> HIDE DEF q
    <3>3. NotStarted([q EXCEPT !.step = "ready", !.session = "origin"])
      BY <1>1, <1>3, <3>2 DEF NotStarted, Early, Request, Sessions
    <3> QED BY <3>1, <3>3
  <2>8. CASE failWithoutHost(r)
    <3>1. Alone /\ req'[r] = [q EXCEPT !.step = "failing", !.story = Append(@, "fail")]
      BY <2>8, SetOthers DEF failWithoutHost
    <3>2. q.step = "ready" /\ ~q.hasHost
      BY <2>8 DEF failWithoutHost
    <3> HIDE DEF q
    <3>3. Append(q.story, "fail") = <<"fail">>
      <4>1. q.story = <<>>
        BY <1>3, <3>2 DEF NotStarted
      <4>2. Append(<<>>, "fail") = <<"fail">>
        OBVIOUS
      <4> QED BY <4>1, <4>2, Zenon
    <3>4. NotStarted([q EXCEPT !.step = "failing", !.story = <<"fail">>])
      BY <1>1, <1>3, <3>2 DEF NotStarted, Early, Request
    <3> QED BY <3>1, <3>3, <3>4
  <2>9. CASE failedWithoutHost(r)
    <3>1. Alone /\ req'[r] = [q EXCEPT !.step = "over"]
      BY <2>9, SetOthers DEF failedWithoutHost
    <3>2. q.step = "failing"
      BY <2>9 DEF failedWithoutHost
    <3> HIDE DEF q
    <3>3. NotStarted([q EXCEPT !.step = "over"])
      BY <1>1, <1>3, <3>2 DEF NotStarted, Early, Request, Sessions
    <3> QED BY <3>1, <3>3
  <2> QED BY <2>1, <2>2, <2>3, <2>4, <2>5, <2>6, <2>7, <2>8, <2>9
<1>6. syncing' = syncing /\ gone' = gone
  BY <1>4 DEF shared
<1>7. LoadOf(req'[r], syncing' = r, gone')
  BY <1>3, <1>5, <1>6 DEF LoadOf
<1> QED BY <1>5, <1>6, <1>7, OthersKeep

\* A request gets its task.
LEMMA StartingLoad ==
    ASSUME TypeOK, LoadInv, ~gone, NEW r \in Requests,
           \/ enterOnce(r) \/ createTaskWithRequest(r) \/ retainHolder(r)
           \/ p_createTaskWithParams(r)
    PROVE  LoadInv'
<1> DEFINE q == req[r]
           Alone == \A m \in Requests \ {r} : req'[m] = req[m]
<1>1. q \in Request /\ TypeOK'
  BY StartingType DEF TypeOK
<1>2. LoadOf(q, syncing = r, gone)
  BY DEF LoadInv
<1>3. syncing' = syncing /\ gone' = gone
  BY DEF enterOnce, createTaskWithRequest, retainHolder, p_createTaskWithParams, shared
<1>4. CASE enterOnce(r)
  <2>1. Alone /\ req'[r] = [q EXCEPT !.step = "waiting"]
    BY <1>4, SetOthers DEF enterOnce
  <2>2. q.step = "ready"
    BY <1>4 DEF enterOnce
  <2> HIDE DEF q
  <2>3. NotStarted(q) /\ syncing # r
    BY <1>2, <2>2 DEF LoadOf, Started
  <2>4. NotStarted([q EXCEPT !.step = "waiting"])
    BY <1>1, <2>2, <2>3 DEF NotStarted, Early, Request, Sessions
  <2>5. LoadOf(req'[r], syncing' = r, gone')
    BY <1>3, <2>1, <2>3, <2>4 DEF LoadOf
  <2> QED BY <1>3, <2>1, <2>5, OthersKeep
<1>5. CASE createTaskWithRequest(r)
  <2> DEFINE p == [q EXCEPT !.step = IF q.session = "standard" THEN "created" ELSE "started",
                            !.mapped = (q.session = "standard"), !.task = "queued"]
  <2>1. Alone /\ req'[r] = p
    BY <1>5, SetOthers DEF createTaskWithRequest
  <2>2. q.step \in {"ready", "waiting"}
    BY <1>5 DEF createTaskWithRequest
  <2>3. p \in Request
    BY <1>1, <2>1 DEF TypeOK
  <2> HIDE DEF q
  <2>4. NotStarted(q) /\ syncing # r
    BY <1>2, <2>2 DEF LoadOf, Started
  <2>5. /\ q.story = <<>> /\ q.queue = <<>> /\ q.holder = "unset" /\ q.sent = 0
        /\ ~q.failed /\ q.session \in Sessions
    BY <2>2, <2>4 DEF NotStarted
  <2>6. /\ p.story = q.story /\ p.queue = q.queue /\ p.holder = q.holder /\ p.sent = q.sent
        /\ p.failed = q.failed /\ p.session = q.session /\ p.task = "queued"
        /\ p.step = IF q.session = "standard" THEN "created" ELSE "started"
        /\ p.mapped = (q.session = "standard")
    BY <1>1 DEF Request
  <2> HIDE DEF p
  <2>7. ~EndTold(p)
    BY <2>5, <2>6 DEF EndTold
  <2>8. Trace(p) = <<>>
    BY <2>3, <2>5, <2>6, TraceFacts
  <2>9. Underway(p)
    BY <2>5, <2>6, <2>7, <2>8 DEF Underway, TraceOfTask
  <2>10. p.session = "origin" => ~p.mapped
    BY <2>6, Zenon
  <2>11. HolderOf(p, syncing = r, gone)
    BY <2>4, <2>5, <2>6, <2>7 DEF HolderOf, Sessions
  <2>12. Started(p, syncing = r, gone)
    BY <2>4, <2>5, <2>6, <2>9, <2>10, <2>11 DEF Started
  <2>13. LoadOf(req'[r], syncing' = r, gone')
    BY <1>3, <2>1, <2>12 DEF LoadOf
  <2> QED BY <1>3, <2>1, <2>13, OthersKeep
<1>6. CASE retainHolder(r)
  <2> DEFINE p == [q EXCEPT !.step = "started", !.holder = "retained"]
  <2>1. Alone /\ req'[r] = p
    BY <1>6, SetOthers DEF retainHolder
  <2>2. q.step = "created"
    BY <1>6 DEF retainHolder
  <2>3. p \in Request
    BY <1>1, <2>1 DEF TypeOK
  <2> HIDE DEF q
  <2>4. Started(q, syncing = r, gone)
    BY <1>2, <2>2 DEF LoadOf, NotStarted, Early
  <2>5. /\ p.story = q.story /\ p.queue = q.queue /\ p.holder = "retained" /\ p.sent = q.sent
        /\ p.failed = q.failed /\ p.session = q.session /\ p.task = q.task
        /\ p.step = "started" /\ p.mapped = q.mapped /\ p.synthetic = q.synthetic
    BY <1>1 DEF Request
  <2> HIDE DEF p
  <2>6. /\ EndTold(p) <=> EndTold(q)
        /\ Underway(p) <=> Underway(q)
        /\ Over(p) <=> Over(q)
    BY <1>1, <2>3, <2>5, SameCourse
  <2>7. q.session = "standard" /\ q.holder = "unset"
    BY <2>2, <2>4 DEF Started, HolderOf
  <2>8. HolderOf(p, syncing = r, gone)
    BY <2>2, <2>4, <2>5, <2>6, <2>7 DEF Started, HolderOf
  <2>9. Started(p, syncing = r, gone)
    BY <2>4, <2>5, <2>6, <2>7, <2>8 DEF Started
  <2>10. LoadOf(req'[r], syncing' = r, gone')
    BY <1>3, <2>1, <2>9 DEF LoadOf
  <2> QED BY <1>3, <2>1, <2>10, OthersKeep
<1>7. CASE p_createTaskWithParams(r)
  <2> DEFINE p == [q EXCEPT !.task = "running", !.mapped = TRUE]
  <2>1. Alone /\ req'[r] = p
    BY <1>7, SetOthers DEF p_createTaskWithParams
  <2>2. q.task = "queued"
    BY <1>7 DEF p_createTaskWithParams
  <2>3. p \in Request
    BY <1>1, <2>1 DEF TypeOK
  <2> HIDE DEF q
  <2>4. Started(q, syncing = r, gone) /\ Underway(q)
    BY <1>2, <2>2 DEF LoadOf, NotStarted, Started, Over
  <2>5. /\ p.story = q.story /\ p.queue = q.queue /\ p.holder = q.holder /\ p.sent = q.sent
        /\ p.failed = q.failed /\ p.session = q.session /\ p.task = "running"
        /\ p.step = q.step /\ p.mapped
    BY <1>1 DEF Request
  <2> HIDE DEF p
  <2>6. (EndTold(p) <=> EndTold(q)) /\ ~EndTold(q)
    BY <2>4, <2>5 DEF EndTold, Underway
  <2>7. Trace(p) = Trace(q) /\ TraceOfTask(q, Trace(q))
    BY <2>4, <2>5, Zenon DEF Trace, Underway
  <2>8. Underway(p)
    BY <2>2, <2>5, <2>6, <2>7 DEF Underway, TraceOfTask
  <2>9. HolderOf(p, syncing = r, gone)
    BY <2>4, <2>5, <2>6 DEF Started, HolderOf
  <2>10. Started(p, syncing = r, gone)
    BY <2>4, <2>5, <2>6, <2>8, <2>9 DEF Started
  <2>11. LoadOf(req'[r], syncing' = r, gone')
    BY <1>3, <2>1, <2>10 DEF LoadOf
  <2> QED BY <1>3, <2>1, <2>11, OthersKeep
<1> QED BY <1>4, <1>5, <1>6, <1>7

\* Something happens to a task.
LEMMA EventLoad ==
    ASSUME TypeOK, LoadInv, ~gone, NEW r \in Requests, TaskEvent(r)
    PROVE  LoadInv'
<1> DEFINE q == req[r]
<1>1. q \in Request /\ TypeOK'
  BY EventType DEF TypeOK
<1>2. LoadOf(q, syncing = r, gone)
  BY DEF LoadInv
<1>3. PICK call \in Calls, task \in TaskStates :
         /\ Event(r, call, task)
         /\ \/ q.task = "running" /\ call = "response" /\ task = "responded"
            \/ q.task = "running" /\ call = "redirect" /\ task = "redirecting"
            \/ q.task = "receiving" /\ call = "data" /\ task = "receiving"
            \/ q.task = "receiving" /\ call = "finish" /\ task = "completed"
            \/ q.task \in {"running", "responded", "receiving", "redirecting"}
               /\ call = "fail" /\ task = "completed"
  BY DEF TaskEvent, Calls, TaskStates
<1> DEFINE p == [q EXCEPT !.task = task, !.queue = Append(@, call),
                          !.sent = @ + (IF call = "data" THEN 1 ELSE 0),
                          !.failed = (call = "fail")]
<1>4. /\ req'[r] = p /\ \A m \in Requests \ {r} : req'[m] = req[m]
      /\ syncing' = syncing /\ gone' = gone
  BY <1>3, SetOthers DEF Event, shared
<1>5. p \in Request
  BY <1>1, <1>4 DEF TypeOK
<1> HIDE DEF q
<1>6. Started(q, syncing = r, gone) /\ Underway(q)
  BY <1>2, <1>3 DEF LoadOf, NotStarted, Started, Over
<1>7. /\ p.story = q.story /\ p.queue = Append(q.queue, call) /\ p.holder = q.holder
      /\ p.sent = q.sent + (IF call = "data" THEN 1 ELSE 0) /\ p.failed = (call = "fail")
      /\ p.session = q.session /\ p.task = task /\ p.step = q.step /\ p.mapped = q.mapped
  BY <1>1 DEF Request
<1> HIDE DEF p
<1>8. Underway(p)
  BY <1>1, <1>3, <1>5, <1>6, <1>7, EventKeepsUnderway
<1>9. (EndTold(p) <=> EndTold(q)) /\ ~EndTold(q)
  BY <1>6, <1>7 DEF EndTold, Underway
<1>10. HolderOf(p, syncing = r, gone)
  BY <1>6, <1>7, <1>9 DEF Started, HolderOf
<1>11. p.task \notin {"none", "queued"} /\ q.task # "queued"
  BY <1>3, <1>7
<1>12. Started(p, syncing = r, gone)
  BY <1>6, <1>7, <1>8, <1>9, <1>10, <1>11 DEF Started
<1>13. LoadOf(req'[r], syncing' = r, gone')
  BY <1>4, <1>12 DEF LoadOf
<1> QED BY <1>4, <1>13, OthersKeep

\* What a record adds to a story.
LEMMA RecordFacts ==
    ASSUME NEW s \in Seq(Calls)
    PROVE  /\ s \o Collected = s \/ s \o Collected = Append(s, "record")
           /\ \/ s \o Collected \o <<"finish">> = Append(s, "finish")
              \/ s \o Collected \o <<"finish">> = Append(Append(s, "record"), "finish")
<1>1. "record" \in Calls /\ "finish" \in Calls
  BY CallFacts
<1>2. s \o <<>> = s /\ s \o <<"record">> = Append(s, "record")
  BY <1>1, PartsFacts
<1>3. s \o Collected = s \/ s \o Collected = Append(s, "record")
  BY <1>2, CollectedFacts
<1>4. Append(s, "record") \in Seq(Calls)
  BY <1>1, AppendProperties
<1>5. s \o <<"finish">> = Append(s, "finish")
  BY <1>1, PartsFacts
<1>6. Append(s, "record") \o <<"finish">> = Append(Append(s, "record"), "finish")
  BY <1>1, <1>4, PartsFacts
<1> QED BY <1>3, <1>5, <1>6, Zenon

\* A failure that is passed on ends the load.
LEMMA FailIsOver ==
    ASSUME NEW q \in Request, NEW p \in Request, Underway(q), Pends(q), Head(q.queue) = "fail",
           p.story = Append(q.story, "fail"), p.queue = Tail(q.queue),
           p.task = q.task, p.failed = q.failed
    PROVE  Over(p) /\ p.story[Len(p.story)] = "fail"
<1>1. q.story \in Seq(Calls) /\ "fail" \in Calls
  BY RequestFacts, CallFacts
<1>2. q.task = "completed" /\ Tail(q.queue) = <<>> /\ q.failed /\ Progress(q.story)
  BY EndIsLast DEF Ends
<1>3. Ending(p, q.story)
  BY <1>2 DEF Ending
<1>4. Over(p)
  BY <1>1, <1>2, <1>3 DEF Over
<1> DEFINE s == q.story
<1>5. p.story = Append(s, "fail") /\ s \in Seq(Calls)
  BY <1>1
<1> HIDE DEF s
<1>6. Len(Append(s, "fail")) = Len(s) + 1 /\ Append(s, "fail")[Len(s) + 1] = "fail"
  BY <1>1, <1>5, AppendProperties
<1> QED BY <1>4, <1>5, <1>6

\* So does the end of a load that is told as finished, with or without a record.
LEMMA FinishIsOver ==
    ASSUME NEW q \in Request, NEW p \in Request, Underway(q), Pends(q), Head(q.queue) = "finish",
           p.queue = Tail(q.queue), p.task = q.task, p.failed = q.failed, p.sent = q.sent,
           \/ p.story = Append(q.story, "finish")
           \/ p.session = "standard" /\ p.story = Append(Append(q.story, "finish"), "record")
           \/ p.session = "origin" /\ p.story = Append(Append(q.story, "record"), "finish")
    PROVE  Over(p)
<1>1. q.story \in Seq(Calls)
  BY RequestFacts
<1>2. q.task = "completed" /\ Tail(q.queue) = <<>> /\ ~q.failed /\ Loaded(q.story, q.sent)
  BY EndIsLast DEF Ends
<1>3. Whole(p, q.story)
  BY <1>2 DEF Whole
<1>4. Ending(p, q.story)
  BY <1>3, Zenon DEF Ending
<1> QED BY <1>1, <1>2, <1>4 DEF Over

\* RSOriginSession ends a load whose task has completed.
LEMMA SyntheticIsOver ==
    ASSUME NEW q \in Request, NEW p \in Request, NEW n \in Nat, Loaded(q.story, n),
           p.task = "completed", p.session = "origin", p.synthetic,
           \/ p.story = Append(q.story, "finish")
           \/ p.story = Append(Append(q.story, "record"), "finish")
    PROVE  Over(p)
<1>1. q.story \in Seq(Calls)
  BY RequestFacts
<1>2. Whole(p, q.story)
  BY DEF Whole
<1>3. Ending(p, q.story)
  BY <1>2, Zenon DEF Ending
<1> QED BY <1>1, <1>3 DEF Over

\* The record of a failure follows it.
LEMMA RecordOfFailure ==
    ASSUME NEW q \in Request, NEW p \in Request, Over(q), q.session = "standard",
           q.story[Len(q.story)] = "fail",
           p.story = q.story \o Collected, p.queue = q.queue, p.task = q.task,
           p.failed = q.failed, p.session = q.session
    PROVE  Over(p)
<1>1. PICK s \in Seq(Calls) : Ending(q, s)
  BY DEF Over
<1> DEFINE st == q.story
<1>2. st \in Seq(Calls) /\ st[Len(st)] = "fail"
  BY RequestFacts
<1>3. st \in {Append(s, "fail"), Append(Append(s, "fail"), "record"), Append(s, "finish"),
              Append(Append(s, "finish"), "record")}
  BY <1>1 DEF Ending
<1> HIDE DEF st
<1>4. "fail" \in Calls /\ "finish" \in Calls /\ "record" \in Calls /\ Len(s) \in Nat
  BY CallFacts, LenProperties
<1>5. st = Append(s, "fail")
  BY <1>2, <1>3, <1>4
<1>6. q.failed /\ Progress(s)
  <2>1. Append(s, "fail")[Len(s) + 1] = "fail" /\ Append(s, "finish")[Len(s) + 1] = "finish"
        /\ Len(Append(s, "fail")) = Len(s) + 1
        /\ Len(Append(Append(s, "finish"), "record")) = Len(s) + 2
    BY <1>4
  <2>2. q.story # Append(s, "finish") /\ q.story # Append(Append(s, "finish"), "record")
    BY <1>4, <1>5, <2>1 DEF st
  <2> QED BY <1>1, <2>2 DEF Ending
<1>7. p.story = st \/ p.story = Append(st, "record")
  BY <1>2, RecordFacts DEF st
<1>8. Ending(p, s)
  BY <1>5, <1>6, <1>7, Zenon DEF Ending
<1> QED BY <1>8 DEF Over

\* A call that is passed on.
LEMMA PassedFields ==
    ASSUME NEW r \in Requests, req[r] \in Request, NEW c
    PROVE  LET q == req[r]
               p == Passed(r, c)
           IN  /\ p.story = Append(q.story, c) /\ p.queue = Tail(q.queue)
               /\ p.task = IF c = "response" /\ q.task = "responded" THEN "receiving" ELSE q.task
               /\ p.sent = q.sent /\ p.failed = q.failed /\ p.session = q.session
               /\ p.step = q.step /\ p.holder = q.holder /\ p.mapped = q.mapped
               /\ p.synthetic = q.synthetic
BY DEF Passed, Request

\* A request whose delegate is called has a task; over the edge it is not over.
LEMMA CalledFacts ==
    ASSUME TypeOK, LoadInv, NEW r \in Requests, Called(r)
    PROVE  /\ req[r] \in Request
           /\ Pends(req[r])
           /\ Pending(r) = Head(req[r].queue)
           /\ syncing # r
           /\ Started(req[r], FALSE, gone)
           /\ req[r].session \in Sessions
           /\ req[r].session = "standard" => Underway(req[r])
<1>1. req[r] \in Request /\ Pends(req[r]) /\ Pending(r) = Head(req[r].queue)
  BY DEF TypeOK, Called, Pends, Pending
<1>2. LoadOf(req[r], syncing = r, gone)
  BY DEF LoadInv
<1>3. Started(req[r], syncing = r, gone)
  BY <1>1, <1>2 DEF LoadOf, NotStarted, Pends
<1>4. req[r].session \in Sessions
  BY <1>3 DEF Started
<1>5. syncing # r
  BY <1>3, <1>4, UrlLoadingAssumption DEF Started, HolderOf, Called, Sessions
<1>6. Started(req[r], FALSE, gone)
  BY <1>3, <1>5 DEF Started, HolderOf
<1>7. req[r].session = "standard" => Underway(req[r])
  BY <1>1, <1>6 DEF Started, Over, Pends
<1> QED BY <1>1, <1>4, <1>5, <1>6, <1>7

\* A load that goes on when a call has been passed to the client.
LEMMA PassStarted ==
    ASSUME NEW q \in Request, NEW p \in Request, Started(q, FALSE, FALSE), Underway(q), Underway(p),
           q.task # "queued",
           p.task \notin {"none", "queued"}, p.session = q.session, p.step = q.step,
           p.holder = q.holder, p.mapped = q.mapped
    PROVE  Started(p, FALSE, FALSE)
<1>1. ~EndTold(q) /\ ~EndTold(p)
  BY DEF Underway
<1>2. HolderOf(p, FALSE, FALSE)
  BY <1>1 DEF Started, HolderOf
<1> QED BY <1>1, <1>2 DEF Started

\* The standard delegate.
LEMMA StandardLoad ==
    ASSUME TypeOK, LoadInv, ~gone, NEW r \in Requests,
           standardProgress(r) \/ standardFinish(r) \/ standardFail(r)
    PROVE  LoadInv'
<1> DEFINE q == req[r]
           Alone == \A m \in Requests \ {r} : req'[m] = req[m]
<1>1. Called(r) /\ q.session = "standard" /\ TypeOK'
  BY DelegateType DEF standardProgress, standardFinish, standardFail, Delegate
<1>2. /\ q \in Request /\ Pends(q) /\ Pending(r) = Head(q.queue) /\ syncing # r
      /\ Started(q, FALSE, gone) /\ Underway(q)
  BY <1>1, CalledFacts
<1>3. Started(q, FALSE, FALSE) /\ q.task # "queued" /\ q.task # "none" /\ ~EndTold(q)
      /\ q.holder # "released" /\ (q.step = "created" => q.holder = "unset")
      /\ (q.step = "started" => q.holder = "retained")
  <2>1. Started(q, FALSE, FALSE)
    BY <1>2 DEF Started, HolderOf
  <2>2. q.holder \in {"unset", "retained", "released"}
    BY <1>2 DEF Request
  <2> QED BY <1>1, <1>2, <2>1, <2>2, PendingFacts DEF Started, HolderOf, Underway
<1>4. CASE standardProgress(r)
  <2> DEFINE p == Passed(r, Pending(r))
  <2>1. Alone /\ req'[r] = p /\ syncing' = syncing /\ gone' = gone
    BY <1>4, SetOthers DEF standardProgress, shared
  <2>2. p \in Request
    BY <1>1, <2>1 DEF TypeOK
  <2>3. /\ p.story = Append(q.story, Pending(r)) /\ p.queue = Tail(q.queue)
        /\ p.task = IF Pending(r) = "response" /\ q.task = "responded" THEN "receiving" ELSE q.task
        /\ p.sent = q.sent /\ p.failed = q.failed /\ p.session = q.session
        /\ p.step = q.step /\ p.holder = q.holder /\ p.mapped = q.mapped
    BY <1>2, PassedFields
  <2>4. Pending(r) \notin Ends
    BY <1>4 DEF standardProgress, Ends
  <2> HIDE DEF p, q
  <2>5. Underway(p)
    BY <1>2, <2>2, <2>3, <2>4, PassKeepsUnderway
  <2>6. Started(p, FALSE, FALSE)
    BY <1>2, <1>3, <2>2, <2>3, <2>5, PassStarted
  <2>7. LoadOf(req'[r], syncing' = r, gone')
    BY <1>2, <2>1, <2>6 DEF LoadOf, Started, HolderOf
  <2> QED BY <2>1, <2>7, OthersKeep
<1>5. CASE standardFinish(r)
  <2> DEFINE p0 == Passed(r, "finish")
             p == [p0 EXCEPT !.story = @ \o Collected, !.holder = "released", !.mapped = FALSE]
  <2>1. /\ Alone /\ req'[r] = p /\ syncing' = syncing /\ (gone' <=> p0.holder = "unset")
        /\ Pending(r) = "finish"
    BY <1>5, SetOthers DEF standardFinish, Released
  <2>2. p \in Request
    BY <1>1, <2>1 DEF TypeOK
  <2>3. p0 \in Request
    BY <1>1, PassedType, CallFacts DEF Called
  <2>4. /\ p0.story = Append(q.story, "finish") /\ p0.queue = Tail(q.queue)
        /\ p0.task = q.task
        /\ p0.sent = q.sent /\ p0.failed = q.failed /\ p0.session = q.session
        /\ p0.step = q.step /\ p0.holder = q.holder
    BY <1>2, PassedFields
  <2> HIDE DEF p0, q
  <2>5. /\ p.story = p0.story \o Collected /\ p.queue = p0.queue /\ p.task = p0.task
        /\ p.sent = p0.sent /\ p.failed = p0.failed /\ p.session = p0.session
        /\ p.step = p0.step /\ p.holder = "released"
    BY <2>3 DEF Request
  <2> HIDE DEF p
  <2>6. p.story = p0.story \/ p.story = Append(p0.story, "record")
    BY <2>3, <2>5, RecordFacts, RequestFacts
  <2>7. Over(p)
    <3>1. \/ p.story = Append(q.story, "finish")
          \/ p.session = "standard" /\ p.story = Append(Append(q.story, "finish"), "record")
      BY <1>1, <2>4, <2>5, <2>6, Zenon DEF q
    <3>2. /\ p.queue = Tail(q.queue) /\ p.task = q.task /\ p.failed = q.failed /\ p.sent = q.sent
          /\ Head(q.queue) = "finish"
      BY <1>2, <2>1, <2>4, <2>5
    <3> QED BY <1>2, <2>2, <3>1, <3>2, FinishIsOver
  <2>8. EndTold(p)
    BY <2>2, <2>7, OverIsTold
  <2>9. p.step = q.step /\ p.session = "standard" /\ p.task = q.task
    BY <1>1, <2>4, <2>5 DEF q
  <2>10. HolderOf(p, FALSE, gone')
    BY <1>3, <2>1, <2>4, <2>5, <2>8, <2>9 DEF HolderOf
  <2>11. Started(p, FALSE, gone')
    <3>1. p.task # "none" /\ p.step \in {"created", "started"}
      BY <1>3, <2>9 DEF Started
    <3> QED BY <2>7, <2>8, <2>9, <2>10, <3>1 DEF Started, Sessions
  <2>12. LoadOf(req'[r], syncing' = r, gone')
    BY <1>2, <2>1, <2>11 DEF LoadOf, Started, HolderOf
  <2> QED BY <2>1, <2>12, OthersKeep
<1>6. CASE standardFail(r)
  <2> DEFINE p == Passed(r, "fail")
  <2>1. /\ Alone /\ req'[r] = p /\ syncing' = r /\ gone' = gone
        /\ Pending(r) = "fail" /\ syncing = None
    BY <1>1, <1>6, SetOthers DEF standardFail, Called
  <2>2. p \in Request
    BY <1>1, <2>1 DEF TypeOK
  <2>3. /\ p.story = Append(q.story, "fail") /\ p.queue = Tail(q.queue)
        /\ p.task = q.task /\ p.failed = q.failed /\ p.session = q.session
        /\ p.step = q.step /\ p.holder = q.holder
    BY <1>2, PassedFields
  <2> HIDE DEF p, q
  <2>4. Over(p) /\ p.story[Len(p.story)] = "fail"
    BY <1>2, <2>1, <2>2, <2>3, FailIsOver
  <2>5. EndTold(p)
    BY <2>2, <2>4, OverIsTold
  <2>6. p.session = "standard"
    BY <1>1, <2>3 DEF q
  <2>7. HolderOf(p, TRUE, gone)
    BY <1>3, <2>3, <2>5, <2>6 DEF HolderOf
  <2>8. Started(p, TRUE, gone)
    BY <1>3, <2>3, <2>4, <2>5, <2>6, <2>7 DEF Started
  <2>9. LoadOf(req'[r], syncing' = r, gone')
    BY <2>1, <2>8 DEF LoadOf, Started, HolderOf
  <2>10. \A m \in Requests \ {r} : req'[m] = req[m] /\ (syncing' = m <=> syncing = m)
    BY <2>1, UrlLoadingAssumption
  <2> QED BY <2>9, <2>10, OthersKeep
<1> QED BY <1>4, <1>5, <1>6

\* The rest of the handler of a failure.
LEMMA FailedLoad ==
    ASSUME TypeOK, LoadInv, ~gone, NEW r \in Requests, standardFailed(r)
    PROVE  LoadInv'
<1> DEFINE q == req[r]
           p == [q EXCEPT !.story = @ \o Collected, !.holder = "released", !.mapped = FALSE]
<1>1. /\ req'[r] = p /\ (\A m \in Requests \ {r} : req'[m] = req[m])
      /\ syncing = r /\ syncing' = None /\ (gone' <=> q.holder = "unset")
  BY SetOthers DEF standardFailed, Released
<1>2. q \in Request /\ p \in Request
  BY <1>1, DelegateType DEF TypeOK, Delegate
<1>3. Started(q, TRUE, FALSE)
  <2>1. LoadOf(q, syncing = r, gone)
    BY DEF LoadInv
  <2> QED BY <1>1, <2>1 DEF LoadOf, Started, HolderOf
<1> HIDE DEF q
<1>4. /\ EndTold(q) /\ q.story[Len(q.story)] = "fail" /\ q.session = "standard"
      /\ Over(q) /\ q.task # "none" /\ q.step \in {"created", "started"}
      /\ (q.step = "created" => q.holder = "unset")
  BY <1>3 DEF Started, HolderOf, Underway, Sessions
<1>5. /\ p.story = q.story \o Collected /\ p.queue = q.queue /\ p.task = q.task
      /\ p.failed = q.failed /\ p.session = q.session
      /\ p.step = q.step /\ p.holder = "released"
  BY <1>2 DEF Request
<1> HIDE DEF p
<1>6. Over(p)
  BY <1>2, <1>4, <1>5, RecordOfFailure
<1>7. EndTold(p)
  BY <1>2, <1>6, OverIsTold
<1>8. HolderOf(p, FALSE, gone')
  BY <1>1, <1>4, <1>5, <1>7 DEF HolderOf
<1>9. Started(p, FALSE, gone')
  BY <1>4, <1>5, <1>6, <1>7, <1>8 DEF Started, Sessions
<1>10. syncing' # r
  BY <1>1, UrlLoadingAssumption
<1>11. LoadOf(req'[r], syncing' = r, gone')
  BY <1>1, <1>9, <1>10 DEF LoadOf, Started, HolderOf
<1>12. \A m \in Requests \ {r} : req'[m] = req[m] /\ (syncing' = m <=> syncing = m)
  BY <1>1, UrlLoadingAssumption
<1> QED BY <1>11, <1>12, OthersKeep

\* A direct load that is in the map is in progress, one that is not is over.
LEMMA MappedFacts ==
    ASSUME NEW q \in Request, Started(q, FALSE, FALSE), Pends(q), q.session = "origin"
    PROVE  /\ q.mapped => Underway(q) /\ ~EndTold(q) /\ q.task \notin {"none", "queued"}
           /\ ~q.mapped => Over(q) /\ EndTold(q)
<1>1. Underway(q) => ~EndTold(q) /\ q.task \notin {"none", "queued"}
  BY PendingFacts DEF Underway
<1>2. Over(q) => EndTold(q)
  BY OverIsTold
<1>3. (Underway(q) \/ Over(q)) /\ (q.mapped <=> q.task # "queued" /\ ~EndTold(q))
  BY DEF Started
<1> QED BY <1>1, <1>2, <1>3, Zenon

\* The end of a direct load: nobody holds it, and it leaves the map.
LEMMA OriginOver ==
    ASSUME NEW q \in Request, NEW p \in Request, Started(q, FALSE, FALSE), q.session = "origin",
           Over(p), ~p.mapped, p.session = q.session, p.step = q.step, p.holder = q.holder
    PROVE  Started(p, FALSE, FALSE)
<1>1. EndTold(p) /\ p.task # "none"
  BY OverIsTold DEF Over
<1>2. HolderOf(p, FALSE, FALSE)
  BY DEF Started, HolderOf
<1> QED BY <1>1, <1>2 DEF Started

\* The origin delegate.
LEMMA OriginLoad ==
    ASSUME TypeOK, LoadInv, ~gone, NEW r \in Requests, originProgress(r) \/ originComplete(r)
    PROVE  LoadInv'
<1> DEFINE q == req[r]
           p == req'[r]
           h == Head(q.queue)
<1>1. /\ Called(r) /\ q.session = "origin" /\ TypeOK'
      /\ syncing' = syncing /\ gone' = gone
  BY DelegateType DEF originProgress, originComplete, Delegate, shared
<1>2. /\ q \in Request /\ Pends(q) /\ Pending(r) = h /\ syncing # r /\ p \in Request
      /\ Started(q, FALSE, gone)
  BY <1>1, CalledFacts DEF TypeOK
<1>3. Started(q, FALSE, FALSE)
  BY <1>2 DEF Started, HolderOf
<1>4. \A m \in Requests \ {r} : req'[m] = req[m]
  BY SetOthers DEF originProgress, originComplete
<1>5. ASSUME ~q.mapped PROVE Started(p, FALSE, FALSE)
  <2>1. p.queue = Tail(q.queue) /\ p.story = q.story /\ p.task = q.task /\ p.sent = q.sent
        /\ p.failed = q.failed /\ p.session = q.session /\ p.synthetic = q.synthetic
        /\ p.step = q.step /\ p.holder = q.holder /\ ~p.mapped
    <3>1. \/ p = [q EXCEPT !.queue = Tail(@)]
          \/ p = [q EXCEPT !.queue = Tail(@), !.mapped = FALSE, !.story = @]
      BY <1>5, SetOthers DEF originProgress, originComplete
    <3> HIDE DEF q, p
    <3> QED BY <1>2, <1>5, <3>1 DEF Request
  <2> HIDE DEF q, p
  <2>2. q.session = "origin"
    BY <1>1 DEF q
  <2>3. Over(q)
    BY <1>2, <1>3, <1>5, <2>2, MappedFacts
  <2>4. Over(p)
    <3>1. PICK s \in Seq(Calls) : Ending(q, s)
      BY <2>3 DEF Over
    <3>2. Ending(p, s)
      BY <2>1, <3>1, Zenon DEF Ending, Whole
    <3> QED BY <2>1, <2>2, <2>3, <3>2 DEF Over
  <2> QED BY <1>2, <1>3, <2>1, <2>2, <2>4, OriginOver
<1>6. ASSUME q.mapped /\ originProgress(r) PROVE Started(p, FALSE, FALSE)
  <2> DEFINE u == Passed(r, h)
  <2>1. h \in {"response", "data", "redirect"}
    BY <1>2, <1>6 DEF originProgress
  <2>2. p = u
    BY <1>2, <1>6, SetOthers DEF originProgress
  <2>3. u \in Request
    BY <1>1, <1>2, PassedType DEF Called
  <2>4. /\ u.story = Append(q.story, h) /\ u.queue = Tail(q.queue)
        /\ u.task = IF h = "response" /\ q.task = "responded" THEN "receiving" ELSE q.task
        /\ u.sent = q.sent /\ u.failed = q.failed /\ u.session = q.session
        /\ u.step = q.step /\ u.holder = q.holder /\ u.mapped = q.mapped
    BY <1>2, PassedFields
  <2>5. Underway(q) /\ q.task \notin {"none", "queued"}
    BY <1>1, <1>2, <1>3, <1>6, MappedFacts
  <2> HIDE DEF u, q, p, h
  <2>6. Underway(u)
    BY <1>2, <2>1, <2>3, <2>4, <2>5, PassKeepsUnderway DEF Ends, h
  <2>7. Started(u, FALSE, FALSE)
    BY <1>2, <1>3, <2>3, <2>4, <2>5, <2>6, PassStarted
  <2> QED BY <2>2, <2>7
<1>7. ASSUME q.mapped /\ originComplete(r) PROVE Started(p, FALSE, FALSE)
  <2> DEFINE st == IF h = "fail" THEN Append(q.story, "fail")
                   ELSE q.story \o Collected \o <<"finish">>
  <2>1. h \in {"finish", "fail"} /\ p = [q EXCEPT !.queue = Tail(@), !.mapped = FALSE, !.story = st]
    BY <1>2, <1>7, SetOthers DEF originComplete
  <2>2. Underway(q)
    BY <1>1, <1>2, <1>3, <1>7, MappedFacts
  <2> HIDE DEF q, p, st
  <2>3. /\ p.story = st /\ p.queue = Tail(q.queue) /\ p.task = q.task /\ p.sent = q.sent
        /\ p.failed = q.failed /\ p.session = q.session
        /\ p.step = q.step /\ p.holder = q.holder /\ ~p.mapped
    BY <1>2, <2>1 DEF Request
  <2>4. q.session = "origin"
    BY <1>1 DEF q
  <2>5. CASE h = "fail"
    <3>1. p.story = Append(q.story, "fail")
      BY <2>3, <2>5 DEF st
    <3> QED BY <1>2, <1>3, <2>2, <2>3, <2>4, <2>5, <3>1, FailIsOver, OriginOver
  <2>6. CASE h = "finish"
    <3>1. p.story = q.story \o Collected \o <<"finish">>
      BY <2>3, <2>6 DEF st
    <3>2. \/ p.story = Append(q.story, "finish")
          \/ p.session = "origin" /\ p.story = Append(Append(q.story, "record"), "finish")
      BY <1>2, <2>3, <2>4, <3>1, RecordFacts, RequestFacts
    <3>3. Over(p)
      BY <1>2, <2>2, <2>3, <2>6, <3>2, FinishIsOver
    <3> QED BY <1>2, <1>3, <2>3, <2>4, <3>3, OriginOver
  <2> QED BY <2>1, <2>5, <2>6
<1>8. Started(p, FALSE, FALSE)
  BY <1>5, <1>6, <1>7
<1>9. LoadOf(req'[r], syncing' = r, gone')
  BY <1>1, <1>2, <1>8 DEF LoadOf, Started, HolderOf
<1> QED BY <1>1, <1>4, <1>9, OthersKeep

\* The end that RSOriginSession tells by itself.
LEMMA OriginCheckLoad ==
    ASSUME TypeOK, LoadInv, CheckInv, ~gone, NEW r \in Requests, originCheck(r)
    PROVE  LoadInv'
<1> DEFINE q == req[r]
           p == req'[r]
<1>1. /\ checking = r /\ TypeOK' /\ syncing' = syncing /\ gone' = gone
      /\ p = (IF q.task = "completed" THEN originEnd(q) ELSE q)
      /\ \A m \in Requests \ {r} : req'[m] = req[m]
  BY DelegateType, SetOthers DEF originCheck, Delegate
<1>2. q \in Request /\ p \in Request /\ LoadOf(q, syncing = r, gone)
  BY <1>1 DEF TypeOK, LoadInv
<1>3. q.session = "origin" /\ \E n \in Nat : Loaded(q.story, n)
  BY <1>1, UrlLoadingAssumption DEF CheckInv
<1> HIDE DEF p, q
<1>4. LoadOf(p, syncing = r, gone)
  <2>1. CASE q.task # "completed"
    BY <1>1, <1>2, <2>1
  <2>2. CASE q.task = "completed"
    <3>1. Started(q, syncing = r, gone)
      BY <1>2, <2>2 DEF LoadOf, NotStarted
    <3>2. syncing # r /\ Started(q, FALSE, FALSE)
      BY <1>3, <3>1 DEF Started, HolderOf
    <3>3. /\ p.story = q.story \o Collected \o <<"finish">> /\ p.synthetic /\ ~p.mapped
          /\ p.task = "completed" /\ p.session = q.session /\ p.step = q.step
          /\ p.holder = q.holder
      BY <1>1, <1>2, <2>2 DEF originEnd, Request
    <3>4. p.story = Append(q.story, "finish") \/ p.story = Append(Append(q.story, "record"), "finish")
      BY <1>2, <3>3, RecordFacts, RequestFacts
    <3>5. Over(p)
      BY <1>2, <1>3, <3>3, <3>4, SyntheticIsOver
    <3>6. Started(p, FALSE, FALSE)
      BY <1>2, <1>3, <3>2, <3>3, <3>5, OriginOver
    <3> QED BY <1>3, <3>2, <3>3, <3>6 DEF LoadOf, Started, HolderOf
  <2> QED BY <2>1, <2>2
<1> QED BY <1>1, <1>4, OthersKeep DEF p

\* The configuration and startWithSDKKey leave the course of every load alone.
LEMMA SurroundingsLoad ==
    ASSUME TypeOK, LoadInv, NEW c \in Configurations,
           registerClass \/ startWithSDKKey \/ Activate(c) \/ StaleChanges \/ UNCHANGED vars
    PROVE  LoadInv'
<1>1. CASE registerClass \/ startWithSDKKey \/ StaleChanges \/ UNCHANGED vars
  <2>1. req' = req /\ syncing' = syncing /\ gone' = gone
    BY <1>1 DEF registerClass, startWithSDKKey, StaleChanges, vars
  <2> QED BY <2>1 DEF LoadInv, LoadOf, Started, HolderOf
<1>2. CASE Activate(c)
  <2> SUFFICES ASSUME NEW r \in Requests PROVE LoadOf(req'[r], syncing' = r, gone')
    BY DEF LoadInv
  <2> DEFINE q == req[r]
             p == req'[r]
  <2>1. /\ q \in Request /\ p \in Request
        /\ syncing' = syncing /\ gone' = gone
    BY <1>2, SurroundingsType DEF TypeOK, Activate
  <2>2. p = q \/ p = [q EXCEPT !.since = @ \cup {c}]
    BY <1>2 DEF Activate
  <2>3. LoadOf(q, syncing = r, gone)
    BY DEF LoadInv
  <2> HIDE DEF q, p
  <2>4. /\ p.story = q.story /\ p.queue = q.queue /\ p.task = q.task /\ p.sent = q.sent
        /\ p.failed = q.failed /\ p.session = q.session /\ p.synthetic = q.synthetic
        /\ p.step = q.step /\ p.holder = q.holder /\ p.mapped = q.mapped /\ p.hasHost = q.hasHost
    BY <2>1, <2>2 DEF Request
  <2>5. /\ EndTold(p) <=> EndTold(q)
        /\ Underway(p) <=> Underway(q)
        /\ Over(p) <=> Over(q)
    BY <2>1, <2>4, SameCourse
  <2>6. NotStarted(q) => NotStarted(p)
    BY <2>4, Zenon DEF NotStarted
  <2>7. ASSUME Started(q, syncing = r, gone) PROVE Started(p, syncing = r, gone)
    BY <2>4, <2>5, <2>7 DEF Started, HolderOf
  <2>8. LoadOf(p, syncing = r, gone)
    BY <2>3, <2>6, <2>7 DEF LoadOf
  <2> QED BY <2>1, <2>8 DEF LoadOf, Started, HolderOf, p
<1> QED BY <1>1, <1>2

\* Nothing but a delegate, or a load that is left without a host, tells a client.
LEMMA QuietStory ==
    ASSUME TypeOK, NEW m \in Requests,
           \/ (\E d \in Domains : canInitWithRequest(m, d)) \/ canTransport(m)
           \/ shouldTransportDomainName(m) \/ (\E p \in {"quic", "standard"} : currentProtocol(m, p))
           \/ markProvisioned(m) \/ setEdgeHost(m) \/ startDirect(m) \/ failedWithoutHost(m)
           \/ enterOnce(m) \/ createTaskWithRequest(m) \/ retainHolder(m)
           \/ p_createTaskWithParams(m) \/ TaskEvent(m)
    PROVE  \A k \in Requests : req'[k].story = req[k].story
<1>1. req \in [Requests -> Request] /\ req[m] \in Request
  BY DEF TypeOK
<1> SUFFICES ASSUME NEW k \in Requests PROVE req'[k].story = req[k].story
  OBVIOUS
<1>2. CASE \E d \in Domains : canInitWithRequest(m, d)
  <2>1. PICK d \in Domains : Set(m, [req[m] EXCEPT !.step = "offered", !.domain = d])
    BY <1>2 DEF canInitWithRequest
  <2> DEFINE new == [req[m] EXCEPT !.step = "offered", !.domain = d]
  <2>2. new.story = req[m].story
    BY <1>1 DEF Request
  <2> HIDE DEF new
  <2> QED BY <1>1, <2>1, <2>2 DEF Set
<1>3. CASE canTransport(m)
  BY <1>1, <1>3 DEF canTransport, Set, Request
<1>4. CASE shouldTransportDomainName(m)
  BY <1>1, <1>4 DEF shouldTransportDomainName, Set, Request
<1>5. CASE \E p \in {"quic", "standard"} : currentProtocol(m, p)
  BY <1>1, <1>5 DEF currentProtocol, Set, Request
<1>6. CASE markProvisioned(m)
  BY <1>1, <1>6 DEF markProvisioned, Set, Request
<1>7. CASE setEdgeHost(m)
  BY <1>1, <1>7 DEF setEdgeHost, Set, Request
<1>8. CASE startDirect(m)
  BY <1>1, <1>8 DEF startDirect, Set, Request
<1>9. CASE failedWithoutHost(m)
  BY <1>1, <1>9 DEF failedWithoutHost, Set, Request
<1>10. CASE enterOnce(m)
  BY <1>1, <1>10 DEF enterOnce, Set, Request
<1>11. CASE createTaskWithRequest(m)
  BY <1>1, <1>11 DEF createTaskWithRequest, Set, Request
<1>12. CASE retainHolder(m)
  BY <1>1, <1>12 DEF retainHolder, Set, Request
<1>13. CASE p_createTaskWithParams(m)
  BY <1>1, <1>13 DEF p_createTaskWithParams, Set, Request
<1>14. CASE TaskEvent(m)
  <2>1. PICK call, task : Event(m, call, task)
    BY <1>14 DEF TaskEvent
  <2> QED BY <1>1, <2>1 DEF Event, Set, Request
<1> QED BY <1>2, <1>3, <1>4, <1>5, <1>6, <1>7, <1>8, <1>9, <1>10, <1>11, <1>12, <1>13, <1>14

\* A direct load that RSOriginSession is about to look at is left alone until it does.
LEMMA CheckStep ==
    ASSUME TypeOK, LoadInv, CheckInv, [Next]_vars
    PROVE  CheckInv'
<1> DEFINE Kept == /\ checking' = checking
                   /\ \A k \in Requests : checking = k =>
                         req'[k].session = req[k].session /\ req'[k].story = req[k].story
<1>1. checking # None => checking \in Requests
  BY DEF TypeOK
<1>2. Kept => CheckInv'
  BY <1>1 DEF CheckInv
<1>3. req \in [Requests -> Request] /\ \A k \in Requests : req[k] \in Request
  BY DEF TypeOK
<1>4. ASSUME NEW k \in Requests, checking = k
      PROVE  /\ req[k].session = "origin" /\ req[k].step \in {"created", "started"}
             /\ syncing # k
  <2>1. req[k].session = "origin" /\ \E n \in Nat : Loaded(req[k].story, n)
    BY <1>4, UrlLoadingAssumption DEF CheckInv
  <2>2. req[k].story # <<>> /\ req[k].story # <<"fail">>
    BY <2>1 DEF Loaded
  <2>3. Started(req[k], syncing = k, gone)
    BY <2>2 DEF LoadInv, LoadOf, NotStarted
  <2> QED BY <2>1, <2>3 DEF Started, HolderOf
<1>5. ASSUME NEW m \in Requests, NEW new, Set(m, new), checking' = checking,
             checking = m => new.session = req[m].session /\ new.story = req[m].story
      PROVE  Kept
  <2>1. req'[m] = new /\ \A k \in Requests \ {m} : req'[k] = req[k]
    BY <1>5, SetOthers
  <2> QED BY <1>5, <2>1
<1>6. ASSUME NEW m \in Requests,
             \/ (\E d \in Domains : canInitWithRequest(m, d)) \/ canTransport(m)
             \/ shouldTransportDomainName(m) \/ (\E p \in {"quic", "standard"} : currentProtocol(m, p))
             \/ markProvisioned(m) \/ setEdgeHost(m) \/ startDirect(m) \/ failWithoutHost(m)
             \/ failedWithoutHost(m) \/ enterOnce(m) \/ createTaskWithRequest(m)
      PROVE  Kept
  <2>1. checking' = checking /\ \E new : Set(m, new)
    BY <1>6 DEF canInitWithRequest, canTransport, shouldTransportDomainName, currentProtocol,
                markProvisioned, setEdgeHost, startDirect, failWithoutHost, failedWithoutHost,
                enterOnce, createTaskWithRequest, shared
  <2>2. checking # m
    BY <1>4, <1>6 DEF canInitWithRequest, canTransport, shouldTransportDomainName, currentProtocol,
                markProvisioned, setEdgeHost, startDirect, failWithoutHost, failedWithoutHost,
                enterOnce, createTaskWithRequest
  <2> QED BY <1>5, <2>1, <2>2
<1>7. ASSUME NEW m \in Requests, retainHolder(m) \/ p_createTaskWithParams(m) \/ TaskEvent(m)
      PROVE  Kept
  <2>1. \A k \in Requests : req'[k].story = req[k].story
    BY <1>7, QuietStory
  <2>2. checking' = checking
    BY <1>7 DEF retainHolder, p_createTaskWithParams, TaskEvent, Event, shared
  <2>3. ASSUME NEW k \in Requests PROVE req'[k].session = req[k].session
    <3>1. CASE retainHolder(m)
      BY <1>3, <3>1 DEF retainHolder, Set, Request
    <3>2. CASE p_createTaskWithParams(m)
      BY <1>3, <3>2 DEF p_createTaskWithParams, Set, Request
    <3>3. CASE TaskEvent(m)
      <4>1. PICK call, task : Event(m, call, task)
        BY <3>3 DEF TaskEvent
      <4> QED BY <1>3, <4>1 DEF Event, Set, Request
    <3> QED BY <1>7, <3>1, <3>2, <3>3
  <2> QED BY <2>1, <2>2, <2>3
<1>8. ASSUME NEW m \in Requests, standardProgress(m) \/ standardFinish(m) \/ standardFail(m)
                                \/ standardFailed(m) \/ originComplete(m)
      PROVE  Kept
  <2>1. checking' = checking /\ \E new : Set(m, new)
    BY <1>8 DEF standardProgress, standardFinish, standardFail, standardFailed, Released,
                originComplete, shared
  <2>2. checking # m
    BY <1>4, <1>8, UrlLoadingAssumption
       DEF standardProgress, standardFinish, standardFail, standardFailed, originComplete, Called
  <2> QED BY <1>5, <2>1, <2>2
<1>9. ASSUME NEW m \in Requests, originProgress(m) PROVE CheckInv'
  <2> DEFINE q == req[m]
             h == Head(q.queue)
  <2>1. CASE ~(q.mapped /\ Pending(m) # "redirect")
    BY <1>9, <2>1 DEF originProgress, CheckInv
  <2>2. CASE q.mapped /\ Pending(m) # "redirect"
    <3>1. checking' = m /\ req'[m] = Passed(m, Pending(m)) /\ Called(m) /\ q.session = "origin"
      BY <1>9, <2>2, SetOthers DEF originProgress
    <3>2. /\ q \in Request /\ Pends(q) /\ Pending(m) = h /\ Started(q, FALSE, gone)
      BY <3>1, CalledFacts
    <3>3. Started(q, FALSE, FALSE) /\ h \in {"response", "data"}
      BY <1>9, <2>2, <3>1, <3>2 DEF Started, HolderOf, originProgress
    <3>4. Underway(q)
      BY <2>2, <3>1, <3>2, <3>3, MappedFacts
    <3>5. Loaded(Append(q.story, h), Len(q.story)) /\ Len(q.story) \in Nat
      BY <3>2, <3>3, <3>4, LateCallIsLoad, RequestFacts
    <3>6. req'[m].story = Append(q.story, h) /\ req'[m].session = "origin"
      BY <3>1, <3>2, PassedFields
    <3> QED BY <3>1, <3>5, <3>6 DEF CheckInv
  <2> QED BY <2>1, <2>2
<1>10. ASSUME NEW m \in Requests, originCheck(m) PROVE CheckInv'
  BY <1>10 DEF originCheck, CheckInv
<1>11. ASSUME NEW c \in Configurations, Activate(c) PROVE Kept
  <2>1. checking' = checking
    BY <1>11 DEF Activate
  <2>2. ASSUME NEW k \in Requests
        PROVE  req'[k].session = req[k].session /\ req'[k].story = req[k].story
    <3>1. req'[k] = req[k] \/ req'[k] = [req[k] EXCEPT !.since = @ \cup {c}]
      BY <1>11 DEF Activate
    <3> QED BY <1>3, <3>1 DEF Request
  <2> QED BY <2>1, <2>2
<1>12. CASE registerClass \/ startWithSDKKey \/ StaleChanges \/ UNCHANGED vars
  <2>1. checking' = checking /\ req' = req
    BY <1>12 DEF registerClass, startWithSDKKey, StaleChanges, vars
  <2> QED BY <1>2, <2>1
<1> HIDE DEF Kept
<1> QED BY <1>2, <1>6, <1>7, <1>8, <1>9, <1>10, <1>11, <1>12
        DEF Next, Alive, Gone, Loading, Delegate

LEMMA InitLoad == Init => LoadInv /\ CheckInv /\ GoneInv
<1> SUFFICES ASSUME Init PROVE LoadInv /\ CheckInv /\ GoneInv
  OBVIOUS
<1>1. NotStarted(Unused)
  BY DEF Unused, NotStarted, Early
<1>2. ASSUME NEW r \in Requests PROVE req[r] = Unused /\ syncing # r
  BY UrlLoadingAssumption DEF Init
<1> QED BY <1>1, <1>2 DEF Init, LoadInv, LoadOf, CheckInv, GoneInv

\* The inductive step.
LEMMA LoadStep == TypeOK /\ LoadInv /\ CheckInv /\ [Next]_vars => LoadInv'
<1> SUFFICES ASSUME TypeOK, LoadInv, CheckInv, [Next]_vars PROVE LoadInv'
  OBVIOUS
<1>1. ASSUME NEW r \in Requests, NEW d \in Domains, Alive(canInitWithRequest(r, d)) PROVE LoadInv'
  BY <1>1, RoutingLoad DEF Alive
<1>2. ASSUME NEW r \in Requests, Alive(Loading(r)) PROVE LoadInv'
  BY <1>2, RoutingLoad, StartingLoad DEF Alive, Loading
<1>3. ASSUME NEW r \in Requests, Alive(p_createTaskWithParams(r)) PROVE LoadInv'
  BY <1>3, StartingLoad DEF Alive
<1>4. ASSUME NEW r \in Requests, Alive(TaskEvent(r)) PROVE LoadInv'
  BY <1>4, EventLoad DEF Alive
<1>5. ASSUME NEW r \in Requests, Alive(Delegate(r)) PROVE LoadInv'
  BY <1>5, StandardLoad, FailedLoad, OriginLoad, OriginCheckLoad DEF Alive, Delegate
<1>6. CASE Alive(registerClass) \/ Alive(startWithSDKKey) \/ Alive(StaleChanges) \/ Gone \/ UNCHANGED vars
  <2>1. conf \in Configurations
    BY DEF TypeOK
  <2> QED BY <1>6, <2>1, SurroundingsLoad DEF Alive, Gone
<1>7. ASSUME NEW c \in Configurations, Alive(Activate(c)) PROVE LoadInv'
  BY <1>7, SurroundingsLoad DEF Alive
<1> QED BY <1>1, <1>2, <1>3, <1>4, <1>5, <1>6, <1>7 DEF Next

\* Only a task that completes before startWithRequest has come to its Holder ends the
\* process, and the request stays where it is.
LEMMA GoneStep == TypeOK /\ LoadInv /\ GoneInv /\ [Next]_vars => GoneInv'
<1> SUFFICES ASSUME TypeOK, LoadInv, GoneInv, [Next]_vars PROVE GoneInv'
  OBVIOUS
<1>1. CASE gone
  <2>1. UNCHANGED vars
    BY <1>1 DEF Next, Alive, Gone
  <2> QED BY <2>1 DEF vars, GoneInv
<1>2. ASSUME ~gone, NEW r \in Requests, standardFinish(r) \/ standardFailed(r) PROVE GoneInv'
  <2> DEFINE q == req[r]
  <2>1. q \in Request /\ LoadOf(q, syncing = r, gone)
    BY DEF TypeOK, LoadInv
  <2>2. gone' => q.holder = "unset"
    BY <1>2, <2>1, PassedFields DEF standardFinish, standardFailed, Released
  <2>3. req'[r].step = q.step
    <3>1. Passed(r, "finish") \in Request \/ ~Called(r)
      BY PassedType, CallFacts DEF Called
    <3>2. CASE standardFinish(r)
      <4> DEFINE u == Passed(r, "finish")
                 p == [u EXCEPT !.story = @ \o Collected, !.holder = "released", !.mapped = FALSE]
      <4>1. req'[r] = p /\ u \in Request
        BY <3>1, <3>2, SetOthers DEF standardFinish, Released
      <4>2. u.step = q.step
        BY <2>1, PassedFields
      <4> HIDE DEF u, q
      <4>3. p.step = u.step
        BY <4>1 DEF Request
      <4> QED BY <4>1, <4>2, <4>3
    <3>3. CASE standardFailed(r)
      <4> DEFINE p == [q EXCEPT !.story = @ \o Collected, !.holder = "released", !.mapped = FALSE]
      <4>1. req'[r] = p
        BY <3>3, SetOthers DEF standardFailed, Released
      <4> HIDE DEF q
      <4>2. p.step = q.step
        BY <2>1 DEF Request
      <4> QED BY <4>1, <4>2
    <3> QED BY <1>2, <3>2, <3>3
  <2>4. Started(q, syncing = r, gone) /\ q.session = "standard"
    <3>1. CASE standardFinish(r)
      BY <2>1, <3>1, CalledFacts DEF standardFinish, LoadOf, NotStarted, Pends
    <3>2. CASE standardFailed(r)
      <4>1. syncing = r
        BY <3>2 DEF standardFailed
      <4>2. Started(q, syncing = r, gone)
        BY <2>1, <4>1 DEF LoadOf
      <4> QED BY <4>1, <4>2 DEF Started, HolderOf, Sessions
    <3> QED BY <1>2, <3>1, <3>2
  <2>5. gone' => q.step = "created"
    BY <2>2, <2>4 DEF Started, HolderOf
  <2> QED BY <2>3, <2>5 DEF GoneInv
<1>3. CASE gone' = gone
  BY <1>1, <1>3 DEF GoneInv
<1>4. \/ gone
      \/ gone' = gone
      \/ ~gone /\ \E r \in Requests : standardFinish(r) \/ standardFailed(r)
  BY DEF Next, Alive, Gone, vars, shared, Loading, Delegate, canInitWithRequest, canTransport,
         shouldTransportDomainName, currentProtocol, markProvisioned, setEdgeHost, startDirect,
         failWithoutHost, failedWithoutHost, enterOnce, createTaskWithRequest, retainHolder,
         p_createTaskWithParams, TaskEvent, Event, standardProgress, standardFail,
         originProgress, originCheck, originComplete, registerClass, startWithSDKKey, Activate, StaleChanges
<1> QED BY <1>1, <1>2, <1>3, <1>4

-----------------------------------------------------------------------------
(* What the clients hear. *)

\* What ClientStory says of one story.
GoodStory(story, edge) ==
    \A i \in DOMAIN story :
       /\ story[i] \in {"response", "redirect"} => i = 1
       /\ story[i] \in {"data", "finish"} => story[1] = "response"
       /\ story[i] \in {"finish", "fail"} =>
             i = Len(story) \/ (edge /\ i + 1 = Len(story) /\ story[i + 1] = "record")
       /\ story[i] = "record" =>
             IF edge THEN i > 1 /\ i = Len(story) /\ story[i - 1] \in {"finish", "fail"}
                     ELSE i + 1 = Len(story) /\ story[i + 1] = "finish"

\* Progress is a good story.
LEMMA ProgressStory ==
    ASSUME NEW s \in Seq(Calls), Progress(s), NEW edge
    PROVE  GoodStory(s, edge)
<1>1. DOMAIN s = 1 .. Len(s)
  BY LenProperties
<1>2. ASSUME NEW i \in DOMAIN s
      PROVE  /\ s[i] \in {"response", "redirect", "data"}
             /\ s[i] \in {"response", "redirect"} => i = 1
             /\ s[i] = "data" => s[1] = "response"
  BY <1>1, ProgressFacts
<1> QED BY <1>2 DEF GoodStory

\* So is the part of a task's calls that a load in progress has passed on.
LEMMA UnderwayStory ==
    ASSUME NEW q \in Request, Underway(q), NEW edge
    PROVE  GoodStory(q.story, edge)
<1> DEFINE st == q.story
           t == Trace(q)
           n == Len(q.queue)
           end == IF q.failed THEN "fail" ELSE "finish"
<1>1. /\ st \in Seq(Calls) /\ t \in Seq(Calls) /\ n \in Nat /\ Len(st) \in Nat
      /\ DOMAIN st = 1 .. Len(st)
      /\ Len(t) = Len(st) + n
      /\ \A i \in 1 .. Len(st) : t[i] = st[i]
      /\ q.sent \in Nat /\ q.task \in TaskStates /\ q.failed \in BOOLEAN
  BY RequestFacts, TraceFacts
<1>2. \A i \in 1 .. Len(st) : st[i] \notin Ends
  BY <1>1 DEF Underway, EndTold
<1>3. PICK s \in Seq(Calls) : Progress(s) /\ (t = s \/ (t = Append(s, end) /\ end \in Calls))
  <2>0. TraceOfTask(q, t)
    BY DEF Underway
  <2>1. CASE q.task = "completed"
    <3>1. end \in Calls
      BY CallFacts
    <3>2. PICK s \in Seq(Calls) : t = Append(s, end) /\ (Progress(s) \/ Loaded(s, q.sent))
      BY <2>0, <2>1 DEF TraceOfTask
    <3> QED BY <1>1, <3>1, <3>2 DEF Progress
  <2>2. CASE q.task # "completed"
    <3>1. t = <<"response">> => Loaded(t, 0)
      BY DEF Loaded
    <3>2. 0 \in Nat
      OBVIOUS
    <3>3. Progress(t)
      BY <1>1, <2>0, <2>2, <3>1, <3>2 DEF Progress, TraceOfTask, TaskStates
    <3> QED BY <1>1, <3>3
  <2> QED BY <2>1, <2>2
<1> HIDE DEF st, t, n, end
<1>4. /\ Len(s) \in Nat /\ (Len(t) = Len(s) \/ Len(t) = Len(s) + 1)
      /\ \A i \in 1 .. Len(s) : t[i] = s[i]
      /\ t # s => t = Append(s, end) /\ t[Len(s) + 1] = end /\ Len(t) = Len(s) + 1
  BY <1>3, AppendProperties, LenProperties
<1>5. end \in Ends
  BY DEF end, Ends
<1>6. Len(st) <= Len(s)
  <2> SUFFICES ASSUME Len(st) > Len(s) PROVE FALSE
    BY <1>1, <1>4
  <2>1. Len(t) = Len(s) + 1 /\ Len(st) = Len(s) + 1
    <3>1. /\ n \in Nat /\ Len(st) \in Nat /\ Len(s) \in Nat /\ Len(st) > Len(s)
          /\ Len(t) = Len(st) + n /\ (Len(t) = Len(s) \/ Len(t) = Len(s) + 1)
      BY <1>1, <1>4
    <3> QED BY ONLY <3>1
  <2>2. t # s
    BY <1>4, <2>1
  <2>3. t[Len(s) + 1] = end /\ Len(s) + 1 \in 1 .. Len(st)
    BY <1>4, <2>1, <2>2
  <2> QED BY <1>1, <1>2, <1>5, <2>3
<1>7. ASSUME NEW i \in DOMAIN st
      PROVE  /\ st[i] \in {"response", "redirect", "data"}
             /\ st[i] \in {"response", "redirect"} => i = 1
             /\ st[i] = "data" => st[1] = "response"
  <2>1. i \in 1 .. Len(s) /\ st[i] = s[i] /\ 1 \in 1 .. Len(s) /\ st[1] = s[1]
    BY <1>1, <1>4, <1>6
  <2> QED BY <1>3, <2>1, ProgressFacts
<1>8. GoodStory(st, edge)
  BY <1>7 DEF GoodStory
<1> QED BY <1>8 DEF st

\* What Told says of one story.
Tells(story, call) == \E i \in DOMAIN story : story[i] = call

\* The endings: one end, and a record next to it.
Ended(s, e, st, edge) ==
    \/ st = Append(s, e)
    \/ edge /\ st = Append(Append(s, e), "record")
    \/ ~edge /\ e = "finish" /\ st = Append(Append(s, "record"), e)

LEMMA EndedShape ==
    ASSUME NEW s \in Seq(Calls), NEW e \in Calls, NEW st, NEW edge \in BOOLEAN, Ended(s, e, st, edge)
    PROVE  /\ \A i \in 1 .. Len(s) : st[i] = s[i]
           /\ DOMAIN st = 1 .. Len(st) /\ Len(st) \in Nat /\ Len(s) \in Nat
           /\ \/ Len(st) = Len(s) + 1 /\ st[Len(s) + 1] = e
              \/ edge /\ Len(st) = Len(s) + 2 /\ st[Len(s) + 1] = e /\ st[Len(s) + 2] = "record"
              \/ /\ ~edge /\ e = "finish" /\ Len(st) = Len(s) + 2
                 /\ st[Len(s) + 1] = "record" /\ st[Len(s) + 2] = e
<1>1. Len(s) \in Nat /\ "record" \in Calls
  BY LenProperties, CallFacts
<1>2. ASSUME NEW x \in Calls, NEW y \in Calls
      PROVE  LET a == Append(s, x)
                 b == Append(Append(s, x), y)
             IN  /\ Len(a) = Len(s) + 1 /\ DOMAIN a = 1 .. Len(s) + 1
                 /\ a[Len(s) + 1] = x /\ \A i \in 1 .. Len(s) : a[i] = s[i]
                 /\ Len(b) = Len(s) + 2 /\ DOMAIN b = 1 .. Len(s) + 2
                 /\ b[Len(s) + 1] = x /\ b[Len(s) + 2] = y /\ \A i \in 1 .. Len(s) : b[i] = s[i]
  BY <1>1
<1>3. CASE st = Append(s, e)
  BY <1>1, <1>2, <1>3
<1>4. CASE edge /\ st = Append(Append(s, e), "record")
  BY <1>1, <1>2, <1>4
<1>5. CASE ~edge /\ e = "finish" /\ st = Append(Append(s, "record"), e)
  BY <1>1, <1>2, <1>5
<1> QED BY <1>3, <1>4, <1>5 DEF Ended

LEMMA EndingFacts ==
    ASSUME NEW s \in Seq(Calls), Progress(s), NEW e \in Ends, NEW st, NEW edge \in BOOLEAN,
           e = "finish" => Len(s) > 0 /\ s[1] = "response",
           Ended(s, e, st, edge)
    PROVE  /\ GoodStory(st, edge)
           /\ Tells(st, "finish") => e = "finish"
           /\ Tells(st, "fail") => e = "fail"
           /\ {i \in DOMAIN st : st[i] = "data"} = {i \in DOMAIN s : s[i] = "data"}
<1>1. e \in Calls /\ "record" \in Calls /\ DOMAIN s = 1 .. Len(s) /\ Len(s) \in Nat
  BY LenProperties DEF Ends, Calls
<1>2. \A i \in 1 .. Len(s) :
        /\ s[i] \in {"response", "redirect", "data"}
        /\ s[i] \in {"response", "redirect"} => i = 1
        /\ s[i] = "data" => s[1] = "response"
  BY ProgressFacts
<1>3. (\A i \in 1 .. Len(s) : st[i] = s[i]) /\ DOMAIN st = 1 .. Len(st) /\ Len(st) \in Nat
  BY <1>1, EndedShape
<1>4. \/ Len(st) = Len(s) + 1 /\ st[Len(s) + 1] = e
      \/ edge /\ Len(st) = Len(s) + 2 /\ st[Len(s) + 1] = e /\ st[Len(s) + 2] = "record"
      \/ ~edge /\ e = "finish" /\ Len(st) = Len(s) + 2 /\ st[Len(s) + 1] = "record" /\ st[Len(s) + 2] = e
  BY <1>1, EndedShape
<1>5. e = "finish" => Len(s) > 0 /\ st[1] = "response"
  <2>1. Len(s) > 0 => 1 \in 1 .. Len(s)
    BY <1>1
  <2> QED BY <1>3, <2>1
<1> HIDE DEF Ends
<1>6. e \in {"finish", "fail"}
  BY DEF Ends
<1>7. \A i \in DOMAIN st : i \in 1 .. Len(s) \/ i = Len(s) + 1 \/ (i = Len(s) + 2 /\ Len(st) = Len(s) + 2)
  <2>1. /\ Len(s) \in Nat /\ Len(st) \in Nat /\ DOMAIN st = 1 .. Len(st)
        /\ Len(st) = Len(s) + 1 \/ Len(st) = Len(s) + 2
    <3>1. Len(s) \in Nat
      BY ONLY <1>1
    <3>2. Len(st) \in Nat /\ DOMAIN st = 1 .. Len(st)
      BY ONLY <1>3
    <3>3. Len(st) = Len(s) + 1 \/ Len(st) = Len(s) + 2
      BY ONLY <1>4
    <3> QED BY ONLY <3>1, <3>2, <3>3
  <2> DEFINE m == Len(s)
             n == Len(st)
  <2>2. m \in Nat /\ n \in Nat /\ (n = m + 1 \/ n = m + 2) /\ DOMAIN st = 1 .. n
    BY ONLY <2>1
  <2> HIDE DEF m, n
  <2>3. \A i \in 1 .. n : i \in 1 .. m \/ i = m + 1 \/ (i = m + 2 /\ n = m + 2)
    BY ONLY <2>2
  <2>4. \A i \in DOMAIN st : i \in 1 .. m \/ i = m + 1 \/ (i = m + 2 /\ n = m + 2)
    <3> TAKE i \in DOMAIN st
    <3>1. i \in 1 .. n
      BY <2>2
    <3> QED BY ONLY <2>3, <3>1
  <2> QED BY ONLY <2>4 DEF m, n
<1>8. ASSUME NEW i \in DOMAIN st
      PROVE  /\ st[i] \in {"response", "redirect"} => i = 1
             /\ st[i] \in {"data", "finish"} => st[1] = "response"
             /\ st[i] \in {"finish", "fail"} =>
                   i = Len(st) \/ (edge /\ i + 1 = Len(st) /\ st[i + 1] = "record")
             /\ st[i] = "record" =>
                   IF edge THEN i > 1 /\ i = Len(st) /\ st[i - 1] \in {"finish", "fail"}
                           ELSE i + 1 = Len(st) /\ st[i + 1] = "finish"
             /\ st[i] = "finish" => e = "finish"
             /\ st[i] = "fail" => e = "fail"
             /\ st[i] = "data" => i \in 1 .. Len(s)
  <2>1. CASE i \in 1 .. Len(s)
    <3>1. st[i] = s[i] /\ st[1] = s[1]
      BY <1>1, <1>3, <2>1
    <3> QED BY <1>2, <2>1, <3>1
  <2>2. CASE i = Len(s) + 1
    <3>1. CASE Len(st) = Len(s) + 1 /\ st[Len(s) + 1] = e
      BY <1>1, <1>5, <1>6, <2>2, <3>1
    <3>2. CASE edge /\ Len(st) = Len(s) + 2 /\ st[Len(s) + 1] = e /\ st[Len(s) + 2] = "record"
      BY <1>1, <1>5, <1>6, <2>2, <3>2
    <3>3. CASE ~edge /\ e = "finish" /\ Len(st) = Len(s) + 2 /\ st[Len(s) + 1] = "record" /\ st[Len(s) + 2] = e
      BY <1>1, <1>5, <1>6, <2>2, <3>3
    <3> QED BY <1>4, <3>1, <3>2, <3>3
  <2>3. CASE i = Len(s) + 2 /\ Len(st) = Len(s) + 2
    <3>1. CASE edge /\ Len(st) = Len(s) + 2 /\ st[Len(s) + 1] = e /\ st[Len(s) + 2] = "record"
      <4>1. i - 1 = Len(s) + 1 /\ i > 1 /\ i = Len(st)
        BY <1>1, <2>3
      <4> QED BY <1>6, <2>3, <3>1, <4>1
    <3>2. CASE ~edge /\ e = "finish" /\ Len(st) = Len(s) + 2 /\ st[Len(s) + 1] = "record" /\ st[Len(s) + 2] = e
      BY <1>1, <1>5, <1>6, <2>3, <3>2
    <3>3. Len(st) # Len(s) + 1
      BY <1>1, <2>3
    <3> QED BY <1>4, <3>1, <3>2, <3>3
  <2> QED BY <1>7, <2>1, <2>2, <2>3
<1>9. GoodStory(st, edge)
  BY <1>8 DEF GoodStory
<1>10. (Tells(st, "finish") => e = "finish") /\ (Tells(st, "fail") => e = "fail")
  BY <1>8 DEF Tells
<1>11. {i \in DOMAIN st : st[i] = "data"} = {i \in DOMAIN s : s[i] = "data"}
  <2>1. \A i \in DOMAIN s : i \in DOMAIN st
    <3>1. /\ Len(s) \in Nat /\ Len(st) \in Nat /\ DOMAIN st = 1 .. Len(st)
          /\ DOMAIN s = 1 .. Len(s) /\ (Len(st) = Len(s) + 1 \/ Len(st) = Len(s) + 2)
      BY <1>1, <1>3, <1>4
    <3> DEFINE m == Len(s)
               n == Len(st)
    <3>2. m \in Nat /\ n \in Nat /\ (n = m + 1 \/ n = m + 2) /\ DOMAIN st = 1 .. n /\ DOMAIN s = 1 .. m
      BY <3>1, Zenon
    <3> HIDE DEF m, n
    <3>3. \A i \in 1 .. m : i \in 1 .. n
      BY ONLY <3>2
    <3> QED BY <3>2, <3>3, Zenon
  <2> QED BY <1>1, <1>3, <1>8, <2>1
<1> QED BY <1>9, <1>10, <1>11

\* The data of a whole load.
LEMMA LoadedData ==
    ASSUME NEW s \in Seq(Calls), NEW n \in Nat, Loaded(s, n)
    PROVE  /\ Progress(s) /\ Len(s) > 0 /\ s[1] = "response"
           /\ {i \in DOMAIN s : s[i] = "data"} = 2 .. n + 1
<1>1. Progress(s) /\ Len(s) = n + 1 /\ s[1] = "response" /\ DOMAIN s = 1 .. n + 1
  BY LenProperties DEF Loaded, Progress
<1>2. \A i \in 2 .. n + 1 : s[i] = "data"
  BY <1>1 DEF Loaded
<1>3. \A i \in 1 .. n + 1 : i = 1 \/ i \in 2 .. n + 1
  OBVIOUS
<1>4. \A i \in 2 .. n + 1 : i \in 1 .. n + 1
  OBVIOUS
<1>5. {i \in DOMAIN s : s[i] = "data"} = 2 .. n + 1
  <2>1. ASSUME NEW i \in DOMAIN s, s[i] = "data" PROVE i \in 2 .. n + 1
    <3>1. i # 1
      BY <1>1, <2>1
    <3> QED BY <1>1, <1>3, <3>1
  <2>2. ASSUME NEW i \in 2 .. n + 1 PROVE i \in DOMAIN s /\ s[i] = "data"
    BY <1>1, <1>2, <1>4
  <2> QED BY <2>1, <2>2
<1>6. Len(s) > 0
  BY <1>1
<1> QED BY <1>1, <1>5, <1>6

\* The story of a load that is over.
LEMMA OverStory ==
    ASSUME NEW q \in Request, Over(q), q.session \in Sessions
    PROVE  /\ GoodStory(q.story, q.session = "standard")
           /\ Tells(q.story, "fail") => q.failed
           /\ Tells(q.story, "finish") =>
                 \/ ~q.failed /\ {i \in DOMAIN q.story : q.story[i] = "data"} = 2 .. q.sent + 1
                 \/ q.session = "origin" /\ q.synthetic
<1> DEFINE st == q.story
           edge == q.session = "standard"
<1>1. PICK s \in Seq(Calls) : Ending(q, s)
  BY DEF Over
<1>2. q.sent \in Nat /\ edge \in BOOLEAN /\ "fail" \in Ends /\ "finish" \in Ends
  BY RequestFacts DEF Ends
<1>3. CASE q.failed /\ Progress(s) /\ Ended(s, "fail", st, edge)
  <2> HIDE DEF st, edge
  <2>1. GoodStory(st, edge) /\ ~Tells(st, "finish")
    BY <1>2, <1>3, EndingFacts
  <2> QED BY <1>3, <2>1 DEF st, edge
<1>4. CASE Whole(q, s) /\ Ended(s, "finish", st, edge)
  <2> HIDE DEF st, edge
  <2>1. PICK n \in Nat : /\ Loaded(s, n)
                         /\ (~q.failed /\ n = q.sent) \/ (q.session = "origin" /\ q.synthetic)
    BY <1>2, <1>4 DEF Whole
  <2>2. /\ Progress(s) /\ Len(s) > 0 /\ s[1] = "response"
        /\ {i \in DOMAIN s : s[i] = "data"} = 2 .. n + 1
    BY <2>1, LoadedData
  <2>3. /\ GoodStory(st, edge) /\ ~Tells(st, "fail")
        /\ {i \in DOMAIN st : st[i] = "data"} = {i \in DOMAIN s : s[i] = "data"}
    BY <1>2, <1>4, <2>2, EndingFacts
  <2>4. {i \in DOMAIN st : st[i] = "data"} = 2 .. n + 1
    BY <2>2, <2>3
  <2> QED BY <2>1, <2>3, <2>4 DEF st, edge
<1>5. \/ q.failed /\ Progress(s) /\ Ended(s, "fail", st, edge)
      \/ Whole(q, s) /\ Ended(s, "finish", st, edge)
  BY <1>1 DEF Ending, Ended
<1> QED BY <1>3, <1>4, <1>5

\* What LoadInv says of the story of a request.
LEMMA StoryOfLoad ==
    ASSUME TypeOK, LoadInv, NEW r \in Requests
    PROVE  LET q == req[r] IN
           /\ GoodStory(q.story, q.session = "standard")
           /\ Tells(q.story, "fail") => q.failed \/ ~q.hasHost
           /\ Tells(q.story, "finish") =>
                 \/ /\ q.task = "completed" /\ ~q.failed
                    /\ {i \in DOMAIN q.story : q.story[i] = "data"} = 2 .. q.sent + 1
                 \/ q.session = "origin" /\ q.synthetic
<1> DEFINE q == req[r]
<1>1. q \in Request /\ LoadOf(q, syncing = r, gone)
  BY DEF TypeOK, LoadInv
<1> HIDE DEF q
<1>2. CASE NotStarted(q)
  <2>1. CASE q.story = <<>>
    <3>1. DOMAIN q.story = {}
      BY <2>1
    <3>2. GoodStory(q.story, q.session = "standard")
      BY <3>1 DEF GoodStory
    <3>3. ~Tells(q.story, "finish") /\ ~Tells(q.story, "fail")
      BY <3>1 DEF Tells
    <3> QED BY <3>2, <3>3 DEF q
  <2>2. CASE q.story = <<"fail">> /\ ~q.hasHost
    <3>1. DOMAIN q.story = {1} /\ Len(q.story) = 1 /\ q.story[1] = "fail"
      BY <2>2
    <3>2. GoodStory(q.story, q.session = "standard") /\ ~Tells(q.story, "finish")
      BY <3>1 DEF GoodStory, Tells
    <3> QED BY <2>2, <3>2 DEF q
  <2> QED BY <1>2, <2>1, <2>2 DEF NotStarted, q
<1>3. CASE Started(q, syncing = r, gone) /\ Underway(q)
  <2>1. GoodStory(q.story, q.session = "standard")
    BY <1>1, <1>3, UnderwayStory
  <2>2. ~Tells(q.story, "fail") /\ ~Tells(q.story, "finish")
    BY <1>3 DEF Underway, EndTold, Tells, Ends
  <2> QED BY <2>1, <2>2 DEF q
<1>4. CASE Started(q, syncing = r, gone) /\ Over(q)
  <2>1. q.session \in Sessions /\ q.task = "completed"
    BY <1>4 DEF Started, Over
  <2> QED BY <1>1, <1>4, <2>1, OverStory DEF q
<1> QED BY <1>1, <1>2, <1>3, <1>4 DEF LoadOf, Started

\* The course of every load is one of those LoadInv allows.
THEOREM LoadCorrect == Spec => [](LoadInv /\ CheckInv /\ GoneInv)
<1>1. Init => TypeOK /\ LoadInv /\ CheckInv /\ GoneInv
  BY InitType, InitLoad
<1>2. TypeOK /\ LoadInv /\ CheckInv /\ GoneInv /\ [Next]_vars
         => TypeOK' /\ LoadInv' /\ CheckInv' /\ GoneInv'
  BY TypeStep, LoadStep, CheckStep, GoneStep
<1> QED BY <1>1, <1>2, PTL DEF Spec

\* The client of a request hears a redirect, or a response and then its data, and one
\* end and nothing after it, whichever of task, session and connection ends it.
THEOREM ClientStoryCorrect == Spec => []ClientStory
<1>1. TypeOK /\ LoadInv => ClientStory
  BY StoryOfLoad DEF ClientStory, GoodStory
<1> QED BY <1>1, TypeCorrect, LoadCorrect, PTL

\* A load is reported as finished only when all its data has been passed on, as failed
\* only when it did, but for a load that RSOriginSession ended by itself.
THEOREM EndIsTrueCorrect == Spec => []EndIsTrue
<1>1. TypeOK /\ LoadInv => EndIsTrue
  BY StoryOfLoad DEF EndIsTrue, Told, Tells
<1> QED BY <1>1, TypeCorrect, LoadCorrect, PTL

\* The Holder keeps a connection until its last callback and no longer, and is
\* released before it exists only by a task that overtook startWithRequest.
THEOREM HolderAccountedCorrect == Spec => []HolderAccounted
<1>1. TypeOK /\ LoadInv /\ GoneInv => HolderAccounted
  <2> SUFFICES ASSUME TypeOK, LoadInv, GoneInv, NEW r \in Requests
               PROVE  /\ req[r].holder = "released" => req[r].queue = <<>> /\ req[r].task = "completed"
                      /\ req[r].holder = "retained" /\ syncing # r => ~Told(r, "finish") /\ ~Told(r, "fail")
    BY DEF HolderAccounted, GoneInv
  <2> DEFINE q == req[r]
  <2>1. q \in Request /\ LoadOf(q, syncing = r, gone)
    BY DEF TypeOK, LoadInv
  <2>2. ~EndTold(q) => ~Told(r, "finish") /\ ~Told(r, "fail")
    BY DEF EndTold, Told, Ends
  <2> HIDE DEF q
  <2>3. CASE NotStarted(q)
    BY <2>3 DEF NotStarted, q
  <2>4. CASE Started(q, syncing = r, gone)
    <3>1. q.holder # "unset" => q.session = "standard"
      BY <2>4 DEF Started, HolderOf, Sessions
    <3>2. q.holder = "released" => Over(q) /\ q.session = "standard"
      BY <2>4, <3>1 DEF Started, HolderOf, Underway
    <3>3. q.holder = "retained" /\ syncing # r => ~EndTold(q)
      BY <2>4, <3>1 DEF Started, HolderOf
    <3> QED BY <2>2, <3>2, <3>3 DEF Over, q
  <2> QED BY <2>1, <2>3, <2>4 DEF LoadOf
<1> QED BY <1>1, TypeCorrect, LoadCorrect, PTL

-----------------------------------------------------------------------------
(* Where requests go. *)

Routing == {"listed", "edge", "chosen"}

\* While a request is routed, since has the active configuration, and the one that
\* canTransport was read from.
RouteInv ==
    \A r \in Requests :
       /\ req[r].step \in Routing => conf \in req[r].since
       /\ req[r].step = "listed" => \E c \in req[r].since : Transports(c)

\* Nothing but the reads of Model routes a request.
LEMMA WhoRoutes ==
    ASSUME TypeOK, Next, NEW m \in Requests
    PROVE  \/ /\ req'[m].step = req[m].step \/ {req[m].step, req'[m].step} \cap Routing = {}
              /\ req'[m].since = req[m].since /\ conf' = conf
           \/ \E c \in Configurations : Activate(c)
           \/ canTransport(m) \/ shouldTransportDomainName(m) \/ markProvisioned(m)
           \/ \E p \in {"quic", "standard"} : currentProtocol(m, p)
<1> DEFINE Same == /\ req'[m].step = req[m].step \/ {req[m].step, req'[m].step} \cap Routing = {}
                   /\ req'[m].since = req[m].since /\ conf' = conf
           Local(q, p) == /\ p.step = q.step \/ {q.step, p.step} \cap Routing = {}
                          /\ p.since = q.since
<1>1. ASSUME NEW r \in Requests, NEW new, Set(r, new), conf' = conf, Local(req[r], new) PROVE Same
  <2>1. req'[r] = new /\ \A k \in Requests \ {r} : req'[k] = req[k]
    BY <1>1, SetOthers
  <2> QED BY <1>1, <2>1
<1>2. ASSUME NEW r \in Requests, r # m, NEW new, Set(r, new), conf' = conf PROVE Same
  BY <1>2, SetOthers
<1>3. \A r \in Requests : req[r] \in Request
  BY DEF TypeOK
<1>4. ASSUME NEW r \in Requests, NEW d \in Domains, canInitWithRequest(r, d) PROVE Same
  <2> DEFINE q == req[r]
             new == [q EXCEPT !.step = "offered", !.domain = d]
  <2>1. Set(r, new) /\ conf' = conf /\ q.step = "idle" /\ q \in Request
    BY <1>3, <1>4 DEF canInitWithRequest, shared
  <2> HIDE DEF q
  <2>2. Local(q, new)
    BY <2>1 DEF Request, Routing
  <2> QED BY <1>1, <2>1, <2>2 DEF q
<1>5. ASSUME NEW r \in Requests,
             \/ setEdgeHost(r) \/ startDirect(r) \/ failWithoutHost(r) \/ failedWithoutHost(r)
             \/ enterOnce(r) \/ createTaskWithRequest(r) \/ retainHolder(r)
             \/ p_createTaskWithParams(r) \/ standardFailed(r) \/ originComplete(r)
      PROVE  Same
  <2> DEFINE q == req[r]
  <2>0. q \in Request
    BY <1>3
  <2>1. CASE setEdgeHost(r)
    <3>0. PICK host \in BOOLEAN :
             Set(r, [q EXCEPT !.step = "ready", !.hasHost = host, !.marked = FALSE])
      BY <2>1 DEF setEdgeHost
    <3> DEFINE new == [q EXCEPT !.step = "ready", !.hasHost = host, !.marked = FALSE]
    <3>1. Set(r, new) /\ conf' = conf /\ q.step = "marked"
      BY <2>1, <3>0 DEF setEdgeHost, shared
    <3> HIDE DEF q
    <3>2. Local(q, new)
      BY <2>0, <3>1 DEF Request, Routing
    <3> QED BY <1>1, <3>1, <3>2 DEF q
  <2>2. CASE startDirect(r)
    <3> DEFINE new == [q EXCEPT !.step = "ready", !.session = "origin"]
    <3>1. Set(r, new) /\ conf' = conf /\ q.step = "direct"
      BY <2>2 DEF startDirect, shared
    <3> HIDE DEF q
    <3>2. Local(q, new)
      BY <2>0, <3>1 DEF Request, Routing
    <3> QED BY <1>1, <3>1, <3>2 DEF q
  <2>3. CASE failWithoutHost(r)
    <3> DEFINE new == [q EXCEPT !.step = "failing", !.story = Append(@, "fail")]
    <3>1. Set(r, new) /\ conf' = conf /\ q.step = "ready"
      BY <2>3 DEF failWithoutHost, shared
    <3> HIDE DEF q
    <3>2. Local(q, new)
      BY <2>0, <3>1 DEF Request, Routing
    <3> QED BY <1>1, <3>1, <3>2 DEF q
  <2>4. CASE failedWithoutHost(r)
    <3> DEFINE new == [q EXCEPT !.step = "over"]
    <3>1. Set(r, new) /\ conf' = conf /\ q.step = "failing"
      BY <2>4 DEF failedWithoutHost, shared
    <3> HIDE DEF q
    <3>2. Local(q, new)
      BY <2>0, <3>1 DEF Request, Routing
    <3> QED BY <1>1, <3>1, <3>2 DEF q
  <2>5. CASE enterOnce(r)
    <3> DEFINE new == [q EXCEPT !.step = "waiting"]
    <3>1. Set(r, new) /\ conf' = conf /\ q.step = "ready"
      BY <2>5 DEF enterOnce
    <3> HIDE DEF q
    <3>2. Local(q, new)
      BY <2>0, <3>1 DEF Request, Routing
    <3> QED BY <1>1, <3>1, <3>2 DEF q
  <2>6. CASE createTaskWithRequest(r)
    <3> DEFINE new == [q EXCEPT !.step = IF q.session = "standard" THEN "created" ELSE "started",
                             !.mapped = (q.session = "standard"), !.task = "queued"]
    <3>1. Set(r, new) /\ conf' = conf /\ q.step \in {"ready", "waiting"}
      BY <2>6 DEF createTaskWithRequest
    <3> HIDE DEF q
    <3>2. Local(q, new)
      BY <2>0, <3>1 DEF Request, Routing
    <3> QED BY <1>1, <3>1, <3>2 DEF q
  <2>7. CASE retainHolder(r)
    <3> DEFINE new == [q EXCEPT !.step = "started", !.holder = "retained"]
    <3>1. Set(r, new) /\ conf' = conf /\ q.step = "created"
      BY <2>7 DEF retainHolder, shared
    <3> HIDE DEF q
    <3>2. Local(q, new)
      BY <2>0, <3>1 DEF Request, Routing
    <3> QED BY <1>1, <3>1, <3>2 DEF q
  <2>8. CASE p_createTaskWithParams(r)
    <3> DEFINE new == [q EXCEPT !.task = "running", !.mapped = TRUE]
    <3>1. Set(r, new) /\ conf' = conf
      BY <2>8 DEF p_createTaskWithParams, shared
    <3> HIDE DEF q
    <3>2. Local(q, new)
      BY <2>0, <3>1 DEF Request, Routing
    <3> QED BY <1>1, <3>1, <3>2 DEF q
  <2>9. CASE standardFailed(r)
    <3> DEFINE new == [q EXCEPT !.story = @ \o Collected, !.holder = "released", !.mapped = FALSE]
    <3>1. Set(r, new) /\ conf' = conf
      BY <2>9 DEF standardFailed, Released
    <3> HIDE DEF q
    <3>2. Local(q, new)
      BY <2>0, <3>1 DEF Request, Routing
    <3> QED BY <1>1, <3>1, <3>2 DEF q
  <2>10. CASE originComplete(r)
    <3> DEFINE new == [q EXCEPT !.queue = Tail(@), !.mapped = FALSE,
                     !.story = IF ~q.mapped THEN @
                               ELSE IF Pending(r) = "fail" THEN Append(@, "fail")
                                    ELSE @ \o Collected \o <<"finish">>]
    <3>1. Set(r, new) /\ conf' = conf
      BY <2>10 DEF originComplete, shared
    <3> HIDE DEF q
    <3>2. Local(q, new)
      BY <2>0, <3>1 DEF Request, Routing
    <3> QED BY <1>1, <3>1, <3>2 DEF q
  <2> QED BY <1>5, <2>1, <2>2, <2>3, <2>4, <2>5, <2>6, <2>7, <2>8, <2>9, <2>10
<1>6. ASSUME NEW r \in Requests, TaskEvent(r) PROVE Same
  <2>1. PICK call, task : Event(r, call, task)
    BY <1>6 DEF TaskEvent
  <2> DEFINE q == req[r]
             new == [q EXCEPT !.task = task, !.queue = Append(@, call),
                              !.sent = @ + (IF call = "data" THEN 1 ELSE 0),
                              !.failed = (call = "fail")]
  <2>2. Set(r, new) /\ conf' = conf /\ q \in Request
    BY <1>3, <2>1 DEF Event, shared
  <2> HIDE DEF q
  <2>3. Local(q, new)
    BY <2>2 DEF Request
  <2> QED BY <1>1, <2>2, <2>3 DEF q
<1>7. ASSUME NEW r \in Requests, Delegate(r) PROVE Same
  <2> DEFINE q == req[r]
  <2>0. q \in Request
    BY <1>3
  <2>1. ASSUME NEW c PROVE Local(q, Passed(r, c))
    BY <2>0 DEF Passed, Request
  <2>2. CASE standardProgress(r)
    BY <1>1, <2>1, <2>2 DEF standardProgress, shared
  <2>3. CASE standardFail(r)
    BY <1>1, <2>1, <2>3 DEF standardFail
  <2>4. CASE standardFinish(r)
    <3> DEFINE u == Passed(r, "finish")
               new == [u EXCEPT !.story = @ \o Collected, !.holder = "released", !.mapped = FALSE]
    <3>1. Set(r, new) /\ conf' = conf /\ u \in Request /\ Local(q, u)
      BY <2>1, <2>4, PassedType, CallFacts DEF standardFinish, Released, Called
    <3> HIDE DEF u, q
    <3>2. Local(q, new)
      BY <3>1 DEF Request
    <3> QED BY <1>1, <3>1, <3>2 DEF q
  <2>5. CASE originProgress(r)
    <3> DEFINE u == Passed(r, Pending(r))
               drop == [q EXCEPT !.queue = Tail(@)]
    <3>1. conf' = conf /\ (Set(r, drop) \/ Set(r, u))
      BY <2>5 DEF originProgress
    <3>2. Local(q, u)
      BY <2>1
    <3> HIDE DEF u, q
    <3>3. Local(q, drop)
      BY <2>0 DEF Request
    <3> QED BY <1>1, <3>1, <3>2, <3>3 DEF q
  <2>6. CASE originCheck(r)
    <3>1. conf' = conf /\ (Set(r, originEnd(q)) \/ Set(r, q))
      BY <2>6 DEF originCheck
    <3> HIDE DEF q
    <3>2. Local(q, originEnd(q))
      BY <2>0 DEF originEnd, Request
    <3> QED BY <1>1, <3>1, <3>2 DEF q
  <2> QED BY <1>5, <1>7, <2>2, <2>3, <2>4, <2>5, <2>6 DEF Delegate
<1>8. ASSUME Alive(registerClass) \/ Alive(startWithSDKKey) \/ Alive(StaleChanges) \/ Gone
      PROVE  Same
  BY <1>8 DEF Alive, registerClass, startWithSDKKey, StaleChanges, Gone, vars
<1>9. ASSUME NEW r \in Requests, NEW new, r # m, Set(r, new), UNCHANGED shared PROVE Same
  BY <1>2, <1>9 DEF shared
<1>10. ASSUME NEW r \in Requests, Loading(r)
       PROVE  \/ Same \/ canTransport(m) \/ shouldTransportDomainName(m) \/ markProvisioned(m)
              \/ \E p \in {"quic", "standard"} : currentProtocol(m, p)
  <2>1. CASE r # m /\ (canTransport(r) \/ shouldTransportDomainName(r) \/ markProvisioned(r)
                       \/ \E p \in {"quic", "standard"} : currentProtocol(r, p))
    BY <1>9, <2>1 DEF canTransport, shouldTransportDomainName, markProvisioned, currentProtocol
  <2> QED BY <1>5, <1>10, <2>1 DEF Loading
<1> HIDE DEF Same, Local
<1> DEFINE Goal ==
       \/ Same \/ \E c \in Configurations : Activate(c)
       \/ canTransport(m) \/ shouldTransportDomainName(m) \/ markProvisioned(m)
       \/ \E p \in {"quic", "standard"} : currentProtocol(m, p)
<1>11. Goal
  <2>1. ASSUME NEW r \in Requests, NEW d \in Domains, Alive(canInitWithRequest(r, d)) PROVE Same
    BY <1>4, <2>1 DEF Alive
  <2>2. ASSUME NEW r \in Requests,
               Alive(p_createTaskWithParams(r)) \/ Alive(TaskEvent(r)) \/ Alive(Delegate(r))
        PROVE  Same
    BY <1>5, <1>6, <1>7, <2>2 DEF Alive
  <2>3. ASSUME NEW r \in Requests, Alive(Loading(r)) PROVE Goal
    BY <1>10, <2>3 DEF Alive
  <2>4. ASSUME NEW c \in Configurations, Alive(Activate(c)) PROVE Goal
    BY <2>4 DEF Alive
  <2> QED BY <1>8, <2>1, <2>2, <2>3, <2>4 DEF Next
<1> QED BY <1>11 DEF Same

LEMMA RouteStep ==
    ASSUME TypeOK, RouteInv, [Next]_vars
    PROVE  RouteInv'
<1> SUFFICES ASSUME NEW m \in Requests
             PROVE  /\ req'[m].step \in Routing => conf' \in req'[m].since
                    /\ req'[m].step = "listed" => \E c \in req'[m].since : Transports(c)
  BY DEF RouteInv
<1> DEFINE q == req[m]
           p == req'[m]
<1>1. /\ q \in Request
      /\ q.step \in Routing => conf \in q.since
      /\ q.step = "listed" => \E c \in q.since : Transports(c)
  BY DEF TypeOK, RouteInv
<1>2. CASE UNCHANGED vars
  BY <1>1, <1>2 DEF vars
<1>3. CASE /\ p.step = q.step \/ {q.step, p.step} \cap Routing = {}
           /\ p.since = q.since /\ conf' = conf
  <2> HIDE DEF p, q
  <2>1. p.step \in Routing => p.step = q.step
    BY <1>3
  <2>2. p.step = "listed" => p.step \in Routing
    BY DEF Routing
  <2> QED BY <1>1, <1>3, <2>1, <2>2 DEF p
<1>4. ASSUME NEW c \in Configurations, Activate(c)
      PROVE  /\ p.step \in Routing => conf' \in p.since
             /\ p.step = "listed" => \E x \in p.since : Transports(x)
  <2>1. /\ conf' = c
        /\ p = IF q.since = {} THEN q ELSE [q EXCEPT !.since = @ \cup {c}]
    BY <1>4 DEF Activate
  <2> HIDE DEF p, q
  <2>2. CASE q.since = {}
    BY <1>1, <2>1, <2>2 DEF Routing
  <2>3. CASE q.since # {}
    <3>1. p.step = q.step /\ p.since = q.since \cup {c}
      BY <1>1, <2>1, <2>3 DEF Request
    <3> QED BY <1>1, <2>1, <3>1
  <2> QED BY <2>2, <2>3
<1>5. CASE canTransport(m)
  <2>1. /\ conf' = conf
        /\ p = IF Transports(getActive) THEN [q EXCEPT !.step = "listed", !.since = {conf}]
               ELSE [q EXCEPT !.step = "direct", !.domain = None]
    BY <1>5, SetOthers DEF canTransport, shared
  <2> HIDE DEF p, q
  <2>2. CASE Transports(getActive)
    <3>1. p.since = {conf}
      BY <1>1, <2>1, <2>2 DEF Request
    <3>2. Transports(conf)
      BY <2>2 DEF getActive, StaleConfiguration, Transports
    <3> QED BY <2>1, <3>1, <3>2 DEF p
  <2>3. CASE ~Transports(getActive)
    <3>1. p.step = "direct"
      BY <1>1, <2>1, <2>3 DEF Request
    <3> QED BY <3>1 DEF Routing, p
  <2> QED BY <2>2, <2>3
<1>6. CASE shouldTransportDomainName(m)
  <2>1. /\ conf' = conf /\ q.step = "listed"
        /\ \/ p = [q EXCEPT !.step = "edge"]
           \/ p = [q EXCEPT !.step = "direct", !.domain = None, !.since = {}]
    BY <1>6, SetOthers DEF shouldTransportDomainName, shared
  <2> HIDE DEF p, q
  <2>2. (p.step = "edge" /\ p.since = q.since) \/ p.step = "direct"
    BY <1>1, <2>1 DEF Request
  <2> QED BY <1>1, <2>1, <2>2 DEF Routing, p
<1>7. ASSUME NEW s \in {"quic", "standard"}, currentProtocol(m, s)
      PROVE  /\ p.step \in Routing => conf' \in p.since
             /\ p.step # "listed"
  <2>1. conf' = conf /\ q.step = "edge" /\ p = [q EXCEPT !.step = "chosen", !.session = s]
    BY <1>7, SetOthers DEF currentProtocol, shared
  <2> HIDE DEF p, q
  <2>2. p.step = "chosen" /\ p.since = q.since
    BY <1>1, <2>1 DEF Request
  <2> QED BY <1>1, <2>1, <2>2 DEF Routing
<1>8. CASE markProvisioned(m)
  <2>1. p = [q EXCEPT !.step = IF q.session = "quic" THEN "quic" ELSE "marked",
                      !.marked = isDomainNameProvisioned(getActive, q.domain),
                      !.domain = None, !.since = {}]
    BY <1>8, SetOthers DEF markProvisioned
  <2> HIDE DEF p, q
  <2>2. p.step \in {"quic", "marked"}
    BY <1>1, <2>1 DEF Request
  <2> QED BY <2>2 DEF Routing, p
<1> QED BY <1>2, <1>3, <1>4, <1>5, <1>6, <1>7, <1>8, WhoRoutes

\* What RoutedAsConfigured says of a step.
LEMMA RoutedStep ==
    ASSUME TypeOK, RouteInv, Next, NEW r \in Requests
    PROVE  LET d == req[r].domain
               c == req[r].since
           IN
           /\ req[r].step = "listed" /\ req'[r].step = "edge" =>
                 stale \/ \E m, l \in c : m.mode \in {"transport", "transport and report"}
                                         /\ ListsSend(l, d)
           /\ req[r].step = "chosen" /\ req'[r].step # "chosen" /\ ~req'[r].marked =>
                 stale \/ \E l \in c : \A e \in l.provisioned : e.host = d => e.url
<1> DEFINE q == req[r]
           p == req'[r]
           d == q.domain
<1>1. /\ q \in Request
      /\ q.step \in Routing => conf \in q.since
      /\ q.step = "listed" => \E c \in q.since : Transports(c)
  BY DEF TypeOK, RouteInv
<1>2. ASSUME q.step = "listed", p.step = "edge", ~stale
      PROVE  \E m, l \in q.since : m.mode \in {"transport", "transport and report"} /\ ListsSend(l, d)
  <2>1. shouldTransportDomainName(r)
    <3>1. ~(p.step = q.step \/ {q.step, p.step} \cap Routing = {})
      BY <1>2 DEF Routing
    <3>2. ASSUME NEW c \in Configurations, Activate(c) PROVE FALSE
      <4>1. p = q \/ p = [q EXCEPT !.since = @ \cup {c}]
        BY <3>2 DEF Activate
      <4> HIDE DEF p, q
      <4>2. p.step = q.step
        BY <1>1, <4>1 DEF Request
      <4> QED BY <1>2, <4>2
    <3>3. ~canTransport(r) /\ ~markProvisioned(r) /\ \A s \in {"quic", "standard"} : ~currentProtocol(r, s)
      BY <1>2 DEF canTransport, markProvisioned, currentProtocol
    <3> QED BY <3>1, <3>2, <3>3, WhoRoutes
  <2>2. ListsAllow(conf, d)
    <3>1. \/ ListsAllow(getActive, d)
          \/ p = [q EXCEPT !.step = "direct", !.domain = None, !.since = {}]
      BY <2>1, SetOthers DEF shouldTransportDomainName
    <3> HIDE DEF p, q
    <3>2. p # [q EXCEPT !.step = "direct", !.domain = None, !.since = {}]
      BY <1>1, <1>2 DEF Request
    <3> QED BY <1>2, <3>1, <3>2 DEF getActive
  <2>3. ListsSend(conf, d)
    BY <2>2 DEF ListsSend, ListsAllow, domainsContainDomainName
  <2>4. conf \in q.since /\ \E m \in q.since : Transports(m)
    BY <1>1, <1>2 DEF Routing
  <2> QED BY <2>3, <2>4 DEF Transports
<1>3. ASSUME q.step = "chosen", p.step # "chosen", ~p.marked, ~stale
      PROVE  \E c \in q.since : \A e \in c.provisioned : e.host = d => e.url
  <2>1. markProvisioned(r)
    <3>1. ~(p.step = q.step \/ {q.step, p.step} \cap Routing = {})
      BY <1>3 DEF Routing
    <3>2. ASSUME NEW c \in Configurations, Activate(c) PROVE FALSE
      <4>1. p = q \/ p = [q EXCEPT !.since = @ \cup {c}]
        BY <3>2 DEF Activate
      <4> HIDE DEF p, q
      <4>2. p.step = q.step
        BY <1>1, <4>1 DEF Request
      <4> QED BY <1>3, <4>2
    <3>3. ~canTransport(r) /\ ~shouldTransportDomainName(r) /\ \A s \in {"quic", "standard"} : ~currentProtocol(r, s)
      BY <1>3 DEF canTransport, shouldTransportDomainName, currentProtocol
    <3> QED BY <3>1, <3>2, <3>3, WhoRoutes
  <2>2. p = [q EXCEPT !.step = IF q.session = "quic" THEN "quic" ELSE "marked",
                      !.marked = isDomainNameProvisioned(getActive, q.domain),
                      !.domain = None, !.since = {}]
    BY <2>1, SetOthers DEF markProvisioned
  <2>3. conf \in q.since /\ conf \in Configurations
    BY <1>1, <1>3 DEF Routing, TypeOK
  <2> HIDE DEF q, p
  <2>4. p.marked = isDomainNameProvisioned(getActive, q.domain)
    BY <1>1, <2>2 DEF Request
  <2>5. [host |-> d, url |-> FALSE] \notin conf.provisioned
    BY <1>3, <2>4 DEF isDomainNameProvisioned, getActive
  <2> HIDE DEF d
  <2>6. ASSUME NEW e \in conf.provisioned, e.host = d PROVE e.url
    <3>1. e \in Entries
      BY <2>3, UrlLoadingAssumption
    <3>2. PICK h \in Domains, u \in BOOLEAN : e = [host |-> h, url |-> u]
      BY <3>1 DEF Entries
    <3>3. h = d /\ (u => e.url)
      BY <2>6, <3>2
    <3>4. u
      BY <2>5, <3>2, <3>3
    <3> QED BY <3>3, <3>4
  <2> QED BY <2>3, <2>6
<1> QED BY <1>2, <1>3

\* A domain goes to the edge only if a configuration that was active while it was routed
\* sends it there, and a provisioned one keeps its Host header, with the exceptions
\* that RoutedAsConfigured names.
THEOREM RoutedAsConfiguredCorrect == Spec => RoutedAsConfigured
<1>1. Init => RouteInv
  BY DEF Init, Unused, RouteInv, Routing
<1>2. TypeOK /\ RouteInv /\ [Next]_vars => RouteInv'
  BY RouteStep
<1>3. TypeOK /\ RouteInv /\ [Next]_vars =>
        [\A r \in Requests :
           LET d == req[r].domain
               c == req[r].since
           IN
           /\ req[r].step = "listed" /\ req'[r].step = "edge" =>
                 stale \/ \E m, l \in c : m.mode \in {"transport", "transport and report"}
                                         /\ ListsSend(l, d)
           /\ req[r].step = "chosen" /\ req'[r].step # "chosen" /\ ~req'[r].marked =>
                 stale \/ \E l \in c : \A e \in l.provisioned : e.host = d => e.url]_vars
  BY RoutedStep
<1> QED BY <1>1, <1>2, <1>3, TypeCorrect, PTL DEF Spec, RoutedAsConfigured

-----------------------------------------------------------------------------
(* Both sessions implement the contract of a load. *)

\* A handler changes one request and adds to its story.
LEMMA SetGrows ==
    ASSUME TypeOK, NEW r \in Requests, NEW m \in Requests, NEW new, Set(m, new),
           Extends(req[m].story, new.story)
    PROVE  Extends(req[r].story, req'[r].story)
<1>1. r = m => req'[r] = new
  BY DEF TypeOK, Set
<1>2. r # m => req'[r] = req[r]
  BY DEF TypeOK, Set
<1> QED BY <1>1, <1>2, ExtendsOrder

\* What is added at an end.
LEMMA EndGrows ==
    ASSUME NEW story \in Seq(Calls)
    PROVE  /\ Extends(story, story)
           /\ \A c \in Calls : /\ Extends(story, Append(story, c))
                               /\ Extends(story, Append(story, c) \o Collected)
           /\ Extends(story, story \o Collected)
           /\ Extends(story, story \o Collected \o <<"finish">>)
<1>1. Collected \in Seq(Calls) /\ <<"finish">> \in Seq(Calls)
  BY CollectedFacts DEF Calls
<1>2. ASSUME NEW u \in Seq(Calls)
      PROVE  /\ Extends(u, u \o Collected)
             /\ Extends(u, u \o Collected \o <<"finish">>)
  <2>1. u \o Collected \in Seq(Calls) /\ Extends(u, u \o Collected)
    BY <1>1, ExtendsFacts
  <2>2. Extends(u \o Collected, u \o Collected \o <<"finish">>)
    BY <1>1, <2>1, ExtendsFacts
  <2> QED BY <2>1, <2>2, ExtendsOrder
<1>3. ASSUME NEW c \in Calls
      PROVE  /\ Extends(story, Append(story, c))
             /\ Extends(story, Append(story, c) \o Collected)
  <2>1. Append(story, c) \in Seq(Calls) /\ Extends(story, Append(story, c))
    BY ExtendsFacts
  <2> QED BY <1>2, <2>1, ExtendsOrder
<1> QED BY <1>2, <1>3, ExtendsOrder

\* A delegate adds to the story of the request it is called for.
LEMMA DelegateGrows ==
    ASSUME TypeOK, NEW m \in Requests, Delegate(m)
    PROVE  \E new : Set(m, new) /\ Extends(req[m].story, new.story)
<1> DEFINE story == req[m].story
<1>1. req[m] \in Request /\ story \in Seq(Calls)
  BY DEF TypeOK, Request
<1>2. "finish" \in Calls /\ "fail" \in Calls
  BY DEF Calls
<1>3. \A c : Passed(m, c).story = Append(story, c)
  BY <1>1 DEF Passed, Request
<1>4. req[m].queue # <<>> => Pending(m) \in Calls
  BY PassedType
<1>5. \A c \in Calls : req[m].queue # <<>> => Passed(m, c) \in Request
  BY PassedType
<1>6. ASSUME NEW q \in Request
      PROVE  /\ [q EXCEPT !.story = @ \o Collected, !.holder = "released", !.mapped = FALSE].story
                  = q.story \o Collected
             /\ originEnd(q).story = q.story \o Collected \o <<"finish">>
  BY DEF Request, originEnd
<1>7. CASE standardProgress(m)
  <2>1. Pending(m) \in Calls /\ Set(m, Passed(m, Pending(m)))
    BY <1>4, <1>7 DEF standardProgress, Called
  <2>2. Passed(m, Pending(m)).story = Append(story, Pending(m))
    BY <1>3
  <2>3. Extends(story, Append(story, Pending(m)))
    BY <1>1, <2>1, EndGrows
  <2> QED BY <2>1, <2>2, <2>3
<1>8. CASE standardFinish(m)
  <2> DEFINE q == Passed(m, "finish")
             new == [q EXCEPT !.story = @ \o Collected, !.holder = "released", !.mapped = FALSE]
  <2>1. Set(m, new)
    BY <1>8 DEF standardFinish, Released
  <2>2. q \in Request
    BY <1>2, <1>5, <1>8 DEF standardFinish, Called
  <2>3. new.story = Append(story, "finish") \o Collected
    BY <1>3, <1>6, <2>2
  <2> HIDE DEF new
  <2> QED BY <1>1, <1>2, <2>1, <2>3, EndGrows
<1>9. CASE standardFail(m)
  <2>1. Set(m, Passed(m, "fail"))
    BY <1>9 DEF standardFail
  <2>2. Passed(m, "fail").story = Append(story, "fail")
    BY <1>3
  <2>3. Extends(story, Append(story, "fail"))
    BY <1>1, <1>2, EndGrows
  <2> QED BY <2>1, <2>2, <2>3
<1>10. CASE standardFailed(m)
  <2> DEFINE new == [req[m] EXCEPT !.story = @ \o Collected, !.holder = "released", !.mapped = FALSE]
  <2>1. Set(m, new)
    BY <1>10 DEF standardFailed, Released
  <2>2. new.story = story \o Collected
    BY <1>1, <1>6
  <2> HIDE DEF new
  <2> QED BY <1>1, <2>1, <2>2, EndGrows
<1>11. CASE originProgress(m)
  <2> DEFINE q == Passed(m, Pending(m))
  <2>1. Pending(m) \in Calls /\ q \in Request /\ q.story = Append(story, Pending(m))
    BY <1>3, <1>4, <1>5, <1>11 DEF originProgress, Called
  <2>2. \/ Set(m, [req[m] EXCEPT !.queue = Tail(@)])
        \/ Set(m, q)
    BY <1>11 DEF originProgress
  <2>3. [req[m] EXCEPT !.queue = Tail(@)].story = story
    BY <1>1 DEF Request
  <2> HIDE DEF q
  <2>4. Extends(story, story) /\ Extends(story, q.story)
    BY <1>1, <2>1, EndGrows
  <2> QED BY <2>2, <2>3, <2>4
<1>13. CASE originCheck(m)
  <2>1. Set(m, originEnd(req[m])) \/ Set(m, req[m])
    BY <1>13 DEF originCheck
  <2>2. originEnd(req[m]).story = story \o Collected \o <<"finish">>
    BY <1>1, <1>6
  <2>3. Extends(story, story) /\ Extends(story, originEnd(req[m]).story)
    BY <1>1, <2>2, EndGrows
  <2> QED BY <2>1, <2>3
<1>12. CASE originComplete(m)
  <2> DEFINE told == IF ~req[m].mapped THEN story
                     ELSE IF Pending(m) = "fail" THEN Append(story, "fail")
                          ELSE story \o Collected \o <<"finish">>
             new == [req[m] EXCEPT !.queue = Tail(@), !.mapped = FALSE, !.story = told]
  <2>1. Set(m, new)
    BY <1>12 DEF originComplete
  <2>2. Extends(story, told)
    BY <1>1, <1>2, EndGrows
  <2> HIDE DEF told
  <2>3. new.story = told
    BY <1>1 DEF Request
  <2> HIDE DEF new
  <2> QED BY <2>1, <2>2, <2>3
<1> QED BY <1>7, <1>8, <1>9, <1>10, <1>11, <1>12, <1>13 DEF Delegate

\* No step takes back what a client has heard.
LEMMA StoryGrows ==
    ASSUME TypeOK, [Next]_vars, NEW r \in Requests
    PROVE  Extends(req[r].story, req'[r].story)
<1>1. req'[r].story = req[r].story => Extends(req[r].story, req'[r].story)
  BY ExtendsOrder
<1>2. ASSUME NEW m \in Requests, NEW d \in Domains, Alive(canInitWithRequest(m, d))
      PROVE  Extends(req[r].story, req'[r].story)
  BY <1>1, <1>2, QuietStory DEF Alive
<1>3. ASSUME NEW m \in Requests, Alive(Loading(m)) PROVE Extends(req[r].story, req'[r].story)
  <2>1. CASE failWithoutHost(m)
    <3> DEFINE new == [req[m] EXCEPT !.step = "failing", !.story = Append(@, "fail")]
    <3>1. Set(m, new)
      BY <2>1 DEF failWithoutHost
    <3>2. req[m] \in Request
      BY DEF TypeOK
    <3>3. req[m].story \in Seq(Calls) /\ new.story = Append(req[m].story, "fail")
      BY <3>2 DEF Request
    <3>4. "fail" \in Calls
      BY DEF Calls
    <3> HIDE DEF new
    <3>5. Extends(req[m].story, new.story)
      BY <3>3, <3>4, EndGrows
    <3> QED BY <3>1, <3>5, SetGrows
  <2>2. CASE ~failWithoutHost(m)
    BY <1>1, <1>3, <2>2, QuietStory DEF Alive, Loading
  <2> QED BY <2>1, <2>2
<1>4. ASSUME NEW m \in Requests, Alive(p_createTaskWithParams(m)) \/ Alive(TaskEvent(m))
      PROVE  Extends(req[r].story, req'[r].story)
  BY <1>1, <1>4, QuietStory DEF Alive
<1>5. ASSUME NEW m \in Requests, Alive(Delegate(m)) PROVE Extends(req[r].story, req'[r].story)
  <2>1. PICK new : Set(m, new) /\ Extends(req[m].story, new.story)
    BY <1>5, DelegateGrows DEF Alive
  <2> QED BY <2>1, SetGrows
<1>6. ASSUME NEW c \in Configurations, Alive(Activate(c)) PROVE Extends(req[r].story, req'[r].story)
  <2>1. req[r] \in Request
    BY DEF TypeOK
  <2>2. req'[r] = IF req[r].since = {} THEN req[r] ELSE [req[r] EXCEPT !.since = @ \cup {c}]
    BY <1>6 DEF Alive, Activate
  <2>3. req'[r].story = req[r].story
    BY <2>1, <2>2 DEF Request
  <2> QED BY <2>3, ExtendsOrder
<1>7. CASE Alive(registerClass) \/ Alive(startWithSDKKey) \/ Alive(StaleChanges) \/ Gone \/ UNCHANGED vars
  <2>1. req' = req
    BY <1>7 DEF Alive, registerClass, startWithSDKKey, StaleChanges, Gone, vars
  <2> QED BY <2>1, ExtendsOrder
<1> QED BY <1>2, <1>3, <1>4, <1>5, <1>6, <1>7 DEF Next

\* A well-formed story makes a client of the contract.
LEMMA HeardFacts ==
    ASSUME NEW story \in Seq(Calls),
           \A i \in DOMAIN story :
              /\ story[i] \in {"response", "redirect"} => i = 1
              /\ story[i] \in {"data", "finish"} => story[1] = "response"
              /\ story[i] \in {"finish", "fail"} =>
                    i = Len(story) \/ (i + 1 = Len(story) /\ story[i + 1] = "record")
    PROVE  [heard |-> {story[i] : i \in DOMAIN story} \ {"record"},
            pieces |-> Cardinality({i \in DOMAIN story : story[i] = "data"})]
              \in Contract!Clients
<1> DEFINE heard == {story[i] : i \in DOMAIN story} \ {"record"}
           data == {i \in DOMAIN story : story[i] = "data"}
           n == Cardinality(data)
<1>1. /\ \A i \in DOMAIN story : 1 \in DOMAIN story /\ i \in Nat
      /\ \A i \in DOMAIN story : story[i] \in Calls
      /\ Len(story) \in Nat
  BY LenProperties
<1>2. n \in Nat /\ (n = 0 <=> data = {})
  BY PositionsGrow
<1>3. n = 0 <=> "data" \notin heard
  BY <1>2
<1> HIDE DEF n
<1>4. heard \subseteq {"response", "data", "redirect", "finish", "fail"}
  BY <1>1 DEF Calls
<1>5. heard \cap {"data", "finish"} # {} => "response" \in heard
  BY <1>1
<1>6. "redirect" \in heard => heard \subseteq {"redirect", "fail"}
  <2> SUFFICES ASSUME "redirect" \in heard, NEW x \in heard, x \notin {"redirect", "fail"}
               PROVE  FALSE
    OBVIOUS
  <2>1. story[1] = "redirect"
    OBVIOUS
  <2>2. PICK j \in DOMAIN story : story[j] = x
    OBVIOUS
  <2>3. x = "response"
    BY <1>4, <2>1, <2>2
  <2> QED BY <2>1, <2>2, <2>3
<1>7. ~({"finish", "fail"} \subseteq heard)
  <2> SUFFICES ASSUME NEW i \in DOMAIN story, NEW j \in DOMAIN story,
                      story[i] = "finish", story[j] = "fail"
               PROVE  FALSE
    OBVIOUS
  <2>1. i = Len(story) \/ (i + 1 = Len(story) /\ story[i + 1] = "record")
    OBVIOUS
  <2>2. j = Len(story) \/ (j + 1 = Len(story) /\ story[j + 1] = "record")
    OBVIOUS
  <2> DEFINE m == Len(story)
  <2>3. i \in Nat /\ j \in Nat /\ m \in Nat
    BY <1>1
  <2>4. story[i] # "record" /\ story[j] # "record" /\ i # j
    OBVIOUS
  <2>5. \/ i = m /\ j = m
        \/ i = m /\ j + 1 = m /\ story[j + 1] = story[i]
        \/ j = m /\ i + 1 = m /\ story[i + 1] = story[j]
        \/ i + 1 = m /\ j + 1 = m
    BY <2>1, <2>2
  <2>6. (i = m /\ j = m) \/ (i + 1 = m /\ j + 1 = m)
    BY <2>1, <2>2, <2>4, <2>5
  <2> HIDE DEF m
  <2>7. i = j
    BY ONLY <2>3, <2>6
  <2> QED BY <2>4, <2>7
<1> DEFINE c == [heard |-> heard, pieces |-> n]
<1> HIDE DEF heard
<1>8. c.heard = heard /\ c.pieces = n
  OBVIOUS
<1>9. c \in [heard : SUBSET Contract!Kinds, pieces : Nat]
  BY <1>2, <1>4 DEF Contract!Kinds, Contract!Ends
<1> HIDE DEF c
<1>10. c \in Contract!Clients
  BY <1>3, <1>5, <1>6, <1>7, <1>8, <1>9 DEF Contract!Clients, Contract!Ends
<1> QED BY <1>10 DEF c, heard, n

\* What is heard before and after a step: only a record comes after an end.
LEMMA ToldMoreFacts ==
    ASSUME TypeOK, TypeOK', ClientStory', [Next]_vars, NEW r \in Requests
    PROVE  Contract!ToldMore(Heard(r), Heard(r)')
<1> DEFINE story == req[r].story
           more == req'[r].story
           data == {i \in DOMAIN story : story[i] = "data"}
           pieces == {i \in DOMAIN more : more[i] = "data"}
           heard == {story[i] : i \in DOMAIN story} \ {"record"}
           after == {more[i] : i \in DOMAIN more} \ {"record"}
<1>1. /\ Heard(r) = [heard |-> heard, pieces |-> Cardinality(data)]
      /\ Heard(r)' = [heard |-> after, pieces |-> Cardinality(pieces)]
  BY DEF Heard
<1>2. Extends(story, more)
  BY StoryGrows
<1>3. story \in Seq(Calls) /\ more \in Seq(Calls)
  BY DEF TypeOK, Request
<1>4. \A i \in DOMAIN more : more[i] \in {"finish", "fail"} =>
         i = Len(more) \/ (i + 1 = Len(more) /\ more[i + 1] = "record")
  BY DEF ClientStory
<1> HIDE DEF story, more
<1>5. data \subseteq pieces /\ heard \subseteq after
  BY <1>2 DEF Extends
<1>6. Cardinality(data) <= Cardinality(pieces)
  BY <1>3, <1>5, PositionsGrow
<1>7. ASSUME heard \cap {"finish", "fail"} # {} PROVE after = heard /\ pieces = data
  <2>1. PICK i \in DOMAIN story : story[i] \in {"finish", "fail"}
    BY <1>7
  <2>2. /\ i \in DOMAIN more
        /\ i = Len(more) \/ (i + 1 = Len(more) /\ more[i + 1] = "record")
    BY <1>2, <1>4, <2>1 DEF Extends
  <2>3. /\ DOMAIN story = 1 .. Len(story) /\ DOMAIN more = 1 .. Len(more)
        /\ Len(story) \in Nat /\ Len(more) \in Nat
    BY <1>3, LenProperties
  <2>4. ASSUME NEW k \in DOMAIN more, k \notin DOMAIN story PROVE more[k] = "record"
    BY <2>1, <2>2, <2>3, <2>4
  <2>5. \A k \in DOMAIN story : k \in DOMAIN more /\ more[k] = story[k]
    BY <1>2 DEF Extends
  <2> QED BY <2>4, <2>5
<1> HIDE DEF heard, after, data, pieces
<1> QED BY <1>1, <1>5, <1>6, <1>7 DEF Contract!ToldMore, Contract!Ended, Contract!Ends

\* Although the delegate of a task, the session and the connection can each end a load,
\* its client hears a redirect, or a response, data and one end, and nothing after it.
THEOREM ContractCorrect == Spec => ImplementsContract
<1> DEFINE told == [r \in Requests |-> Heard(r)]
<1>1. ASSUME Init PROVE Contract!Init
  <2>1. ASSUME NEW r \in Requests PROVE Heard(r) = [heard |-> {}, pieces |-> 0]
    <3>1. req[r].story = <<>>
      BY <1>1 DEF Init, Unused
    <3>2. /\ {req[r].story[i] : i \in DOMAIN req[r].story} \ {"record"} = {}
          /\ {i \in DOMAIN req[r].story : req[r].story[i] = "data"} = {}
      <4>1. DOMAIN req[r].story = {}
        BY <3>1
      <4> QED BY <4>1
    <3>3. Cardinality({}) = 0
      BY FS_EmptySet
    <3> QED BY <3>2, <3>3, Zenon DEF Heard
  <2> QED BY <2>1 DEF Contract!Init
<1>2. ASSUME TypeOK, TypeOK', ClientStory', [Next]_vars PROVE Contract!Next
  <2>1. ASSUME NEW r \in Requests PROVE Heard(r)' \in Contract!Clients
    <3> DEFINE more == req'[r].story
    <3>1. more \in Seq(Calls)
      BY <1>2 DEF TypeOK, Request
    <3>2. \A i \in DOMAIN more :
             /\ more[i] \in {"response", "redirect"} => i = 1
             /\ more[i] \in {"data", "finish"} => more[1] = "response"
             /\ more[i] \in {"finish", "fail"} =>
                   i = Len(more) \/ (i + 1 = Len(more) /\ more[i + 1] = "record")
      BY <1>2 DEF ClientStory
    <3>3. Heard(r)' = [heard |-> {more[i] : i \in DOMAIN more} \ {"record"},
                       pieces |-> Cardinality({i \in DOMAIN more : more[i] = "data"})]
      BY DEF Heard
    <3> HIDE DEF more
    <3> QED BY <3>1, <3>2, <3>3, HeardFacts
  <2>2. told' \in [Requests -> Contract!Clients]
    BY <2>1
  <2>3. \A r \in Requests : Contract!ToldMore(told[r], told'[r])
    BY <1>2, ToldMoreFacts
  <2> QED BY <2>2, <2>3 DEF Contract!Next
<1> QED BY <1>1, <1>2, TypeCorrect, ClientStoryCorrect, PTL
        DEF Spec, ImplementsContract, Contract!Spec
=============================================================================
