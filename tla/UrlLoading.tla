----------------------------- MODULE UrlLoading -----------------------------
(***************************************************************************)
(* What happens to an intercepted request: RSURLProtocol decides where it  *)
(* goes, RSURLRequestProcessor rewrites it, and it is loaded either by a   *)
(* StandardConnection over the edge host (RSStandardSession) or directly   *)
(* (RSURLConnectionNative over RSOriginSession).                           *)
(*                                                                         *)
(* Every question RSURLProtocol and the processor ask Model is a read of   *)
(* the active configuration of its own, and so a step of its own: the      *)
(* configuration may be replaced or go stale in between.  NSURLSession is  *)
(* external: its events are queued for the delegate in the order they      *)
(* happen, while the state of a task changes at once.  A request chosen    *)
(* for QUIC leaves this module for QuicSession.                            *)
(***************************************************************************)
EXTENDS Integers, Sequences, FiniteSets

CONSTANTS
    Requests,
    Domains,         \* hosts of requests
    Configurations,  \* [mode, black, internalBlack, provisioned, white]
    MaxFrames,       \* bound on the data callbacks of a task
    None

\* An entry of a domain list: a host, bare or written as a URL.
Entries == [host : Domains, url : BOOLEAN]
Modes == {"off", "transport", "report", "transport and report"}

ASSUME UrlLoadingAssumption ==
    /\ \A c \in Configurations :
          /\ c.mode \in Modes
          /\ c.black \cup c.internalBlack \cup c.provisioned \cup c.white \subseteq Entries
    /\ MaxFrames \in Nat
    /\ None \notin Requests

Sessions == {"standard", "origin"}

VARIABLES
    conf,     \* the active configuration
    stale,    \* isStale
    main,     \* where startWithSDKKey is on the main thread; "idle" when it has returned
    once,     \* for each session class: its dispatch_once
    syncing,  \* the request whose failure keeps the standard delegate queue waiting
    checking, \* the request whose task RSOriginSession looks at next, on its delegate queue
    gone,     \* an uninitialised mHolder was released: the process ended
    req       \* what is known of each request

vars == <<conf, stale, main, once, syncing, checking, gone, req>>

StaleConfiguration ==
    [mode |-> "off", black |-> {}, internalBlack |-> {}, provisioned |-> {}, white |-> {}]

\* getActive
getActive == IF stale THEN StaleConfiguration ELSE conf

Steps == {"idle", "offered", "listed", "edge", "chosen", "marked", "direct", "ready", "waiting",
          "created", "started", "failing", "quic", "over"}
TaskStates == {"none", "queued", "running", "responded", "receiving", "redirecting", "completed"}
Calls == {"response", "data", "finish", "fail", "redirect", "record"}

Unused_Garbage ==
    [step |-> "idle", domain |-> None, session |-> None, since |-> {}, marked |-> FALSE,
     hasHost |-> TRUE, task |-> "none", failed |-> FALSE, sent |-> 0, queue |-> <<>>,
     mapped |-> FALSE, holder |-> "garbage", story |-> <<>>, synthetic |-> FALSE]

\* A request before it is offered to RSURLProtocol.  domain is kept while it is
\* routed.  since is history: the configurations active since routing began;
\* synthetic too: it was ended by RSOriginSession, not by its task.  story is what
\* its client heard, and its record.
Unused ==
    [step |-> "idle", domain |-> None, session |-> None, since |-> {}, marked |-> FALSE,
     hasHost |-> TRUE, task |-> "none", failed |-> FALSE, sent |-> 0, queue |-> <<>>,
     mapped |-> FALSE, holder |-> "unset", story |-> <<>>, synthetic |-> FALSE]

Request ==
    [step : Steps, domain : Domains \cup {None}, session : Sessions \cup {"quic", None},
     since : SUBSET Configurations, marked : BOOLEAN, hasHost : BOOLEAN, task : TaskStates,
     failed : BOOLEAN, sent : 0 .. MaxFrames, queue : Seq(Calls), mapped : BOOLEAN,
     holder : {"unset", "retained", "released"}, story : Seq(Calls), synthetic : BOOLEAN]

TypeOK ==
    /\ conf \in Configurations
    /\ stale \in BOOLEAN
    /\ main \in {"register", "standard", "origin", "idle"}
    /\ once \in [Sessions -> {"unset", "entered", "done"}]
    /\ syncing \in Requests \cup {None}
    /\ checking \in Requests \cup {None}
    /\ gone \in BOOLEAN
    /\ req \in [Requests -> Request]

Init ==
    /\ conf \in Configurations
    /\ stale \in BOOLEAN
    /\ main = "register"
    /\ once = [s \in Sessions |-> "unset"]
    /\ syncing = None
    /\ checking = None
    /\ gone = FALSE
    /\ req = [r \in Requests |-> Unused]

shared == <<conf, stale, main, once, syncing, checking, gone>>

Set(r, new) == req' = [req EXCEPT ![r] = new]

-----------------------------------------------------------------------------
(* Where a request goes. *)

Transports(c) == c.mode \in {"transport", "transport and report"}

\* domainsContainDomainName: entries are compared as URLs, by their hosts.
domainsContainDomainName(list, d) == \E e \in list : e.host = d

ListsAllow_WhiteFirst(c, d) ==
    \/ domainsContainDomainName(c.provisioned \cup c.white, d)
    \/ ~domainsContainDomainName(c.black \cup c.internalBlack, d) /\ c.white = {}

\* shouldTransportDomainName after canTransport.
ListsAllow(c, d) ==
    /\ ~domainsContainDomainName(c.black, d)
    /\ ~domainsContainDomainName(c.internalBlack, d)
    /\ \/ domainsContainDomainName(c.provisioned, d)
       \/ domainsContainDomainName(c.white, d)
       \/ c.white = {}

isDomainNameProvisioned_White(c, d) == [host |-> d, url |-> FALSE] \in c.white

\* isDomainNameProvisioned: std::find, which compares the spelling.
isDomainNameProvisioned(c, d) == [host |-> d, url |-> FALSE] \in c.provisioned

\* RSURLProtocol canInitWithRequest, once the class is registered.
canInitWithRequest(r, d) ==
    /\ main # "register"
    /\ req[r].step = "idle"
    /\ getActive.mode # "off"
    /\ Set(r, [req[r] EXCEPT !.step = "offered", !.domain = d])
    /\ UNCHANGED shared

\* startLoading, the read of canTransport.
canTransport(r) ==
    /\ req[r].step = "offered"
    /\ Set(r, IF Transports(getActive)
              THEN [req[r] EXCEPT !.step = "listed", !.since = {conf}]
              ELSE [req[r] EXCEPT !.step = "direct", !.domain = None])
    /\ UNCHANGED shared

\* startLoading, the read of the lists.
shouldTransportDomainName(r) ==
    /\ req[r].step = "listed"
    /\ Set(r, IF ListsAllow(getActive, req[r].domain)
              THEN [req[r] EXCEPT !.step = "edge"]
              ELSE [req[r] EXCEPT !.step = "direct", !.domain = None, !.since = {}])
    /\ UNCHANGED shared

\* RSURLConnection initWithRequest asks the selector for the protocol.
currentProtocol(r, p) ==
    /\ req[r].step = "edge"
    /\ Set(r, [req[r] EXCEPT !.step = "chosen", !.session = p])
    /\ UNCHANGED shared

\* proccessRequest: a provisioned domain keeps its host in the Host header.
markProvisioned(r) ==
    /\ req[r].step = "chosen"
    /\ Set(r, [req[r] EXCEPT !.step = IF req[r].session = "quic" THEN "quic" ELSE "marked",
                             !.marked = isDomainNameProvisioned(getActive, req[r].domain),
                             !.domain = None, !.since = {}])
    /\ UNCHANGED shared

\* proccessRequest: the edge host replaces the host; a stale configuration has none,
\* and there is no request at all when its URL has no host or another scheme, spelled
\* in another case included.
setEdgeHost(r) ==
    /\ req[r].step = "marked"
    /\ \E hasHost \in {~stale, FALSE} :
          Set(r, [req[r] EXCEPT !.step = "ready", !.hasHost = hasHost, !.marked = FALSE])
    /\ UNCHANGED shared

-----------------------------------------------------------------------------
(* Starting it. *)

\* RSURLConnectionNative start.
startDirect(r) ==
    /\ req[r].step = "direct"
    /\ Set(r, [req[r] EXCEPT !.step = "ready", !.session = "origin"])
    /\ UNCHANGED shared

\* StandardConnection::startWithRequest without a host: the delegate is told before
\* the call returns, and RSURLProtocol then waits for the main thread.
failWithoutHost(r) ==
    /\ req[r].step = "ready"
    /\ ~req[r].hasHost
    /\ Set(r, [req[r] EXCEPT !.step = "failing", !.story = Append(@, "fail")])
    /\ UNCHANGED shared

failedWithoutHost(r) ==
    /\ req[r].step = "failing"
    /\ main = "idle"
    /\ Set(r, [req[r] EXCEPT !.step = "over"])
    /\ UNCHANGED shared

\* instance on a background thread, first of all callers: its block waits for the
\* main thread inside dispatch_once.
enterOnce(r) ==
    /\ req[r].step = "ready"
    /\ req[r].hasHost
    /\ once[req[r].session] = "unset"
    /\ once' = [once EXCEPT ![req[r].session] = "entered"]
    /\ Set(r, [req[r] EXCEPT !.step = "waiting"])
    /\ UNCHANGED <<conf, stale, main, syncing, checking, gone>>

\* createTaskWithRequest of either session, when instance has returned.
createTaskWithRequest(r) ==
    LET s == req[r].session IN
    /\ \/ req[r].step = "ready" /\ req[r].hasHost /\ once[s] = "done"
       \/ req[r].step = "waiting" /\ main = "idle"
    /\ once' = [once EXCEPT ![s] = "done"]
    /\ Set(r, [req[r] EXCEPT !.step = IF s = "standard" THEN "created" ELSE "started",
                             !.mapped = (s = "standard"), !.task = "queued"])
    /\ UNCHANGED <<conf, stale, main, syncing, checking, gone>>

\* The rest of StandardConnection::startWithRequest: onStart and the retained Holder.
retainHolder(r) ==
    /\ req[r].step = "created"
    /\ Set(r, [req[r] EXCEPT !.step = "started", !.holder = "retained"])
    /\ UNCHANGED shared

p_createTaskWithParams_NotMapped(r) ==
    /\ req[r].task = "queued"
    /\ Set(r, [req[r] EXCEPT !.task = "running"])
    /\ UNCHANGED shared

\* p_createTaskWithParams, on the thread of the session.
p_createTaskWithParams(r) ==
    /\ req[r].task = "queued"
    /\ Set(r, [req[r] EXCEPT !.task = "running", !.mapped = TRUE])
    /\ UNCHANGED shared

-----------------------------------------------------------------------------
(* NSURLSession: an event changes the task and is queued for the delegate. *)

Event(r, call, task) ==
    /\ Set(r, [req[r] EXCEPT !.task = task, !.queue = Append(@, call),
                             !.sent = @ + (IF call = "data" THEN 1 ELSE 0),
                             !.failed = (call = "fail")])
    /\ UNCHANGED shared

TaskEvent(r) ==
    \/ req[r].task = "running" /\ Event(r, "response", "responded")
    \/ req[r].task = "running" /\ Event(r, "redirect", "redirecting")
    \/ req[r].task = "receiving" /\ req[r].sent < MaxFrames /\ Event(r, "data", "receiving")
    \/ req[r].task = "receiving" /\ Event(r, "finish", "completed")
    \/ req[r].task \in {"running", "responded", "receiving", "redirecting"} /\ Event(r, "fail", "completed")

-----------------------------------------------------------------------------
(* The delegates. *)

\* The delegate queue of a session is serial.
Called(r) ==
    /\ req[r].queue # <<>>
    /\ IF req[r].session = "standard" THEN syncing = None ELSE checking = None

Pending(r) == Head(req[r].queue)

\* What the request is once the call c has been passed to the client.
Passed(r, c) == [req[r] EXCEPT !.queue = Tail(@), !.story = Append(@, c),
                               !.task = IF c = "response" /\ @ = "responded" THEN "receiving" ELSE @]

\* shouldCollectRequestsData
Collected == IF getActive.mode \in {"report", "transport and report"} THEN <<"record">> ELSE <<>>

\* StandardConnection::didReceiveResponse, didReceiveData, wasRedirected.  The
\* completion handler of a redirect is not called, so the task goes no further.
standardProgress(r) ==
    /\ Called(r)
    /\ req[r].session = "standard"
    /\ Pending(r) \in {"response", "data", "redirect"}
    /\ Set(r, Passed(r, Pending(r)))
    /\ UNCHANGED shared

\* The end of StandardConnection::didCompleteWithError: the record, and the release
\* of the Holder, which is not there when startWithRequest has not come to it.
Released(r, q) ==
    /\ gone' = (q.holder = "unset")
    /\ Set(r, [q EXCEPT !.story = @ \o Collected, !.holder = "released", !.mapped = FALSE])

standardFinish(r) ==
    /\ Called(r)
    /\ req[r].session = "standard"
    /\ Pending(r) = "finish"
    /\ Released(r, Passed(r, "finish"))
    /\ UNCHANGED <<conf, stale, main, once, syncing, checking>>

\* A failure: RSURLProtocol waits for the main thread after it has told the client.
standardFail(r) ==
    /\ Called(r)
    /\ req[r].session = "standard"
    /\ Pending(r) = "fail"
    /\ Set(r, Passed(r, "fail"))
    /\ syncing' = r
    /\ UNCHANGED <<conf, stale, main, once, checking, gone>>

standardFailed_KeepsHolder(r) ==
    /\ syncing = r
    /\ main = "idle"
    /\ Set(r, [req[r] EXCEPT !.story = @ \o Collected, !.mapped = FALSE])
    /\ syncing' = None
    /\ UNCHANGED <<conf, stale, main, once, checking, gone>>

\* The rest of that handler.
standardFailed(r) ==
    /\ syncing = r
    /\ main = "idle"
    /\ Released(r, req[r])
    /\ syncing' = None
    /\ UNCHANGED <<conf, stale, main, once, checking>>

originEnd_StaysMapped(q) == [q EXCEPT !.story = @ \o Collected \o <<"finish">>, !.synthetic = TRUE]

\* RSOriginSession ends a load by itself when its task is in the completed state once a
\* response or data has been passed on, and forgets it.
originEnd(q) == [q EXCEPT !.story = @ \o Collected \o <<"finish">>, !.synthetic = TRUE, !.mapped = FALSE]

\* RSOriginSession: nobody is told of a request that is not in the map.  A response
\* is allowed before the call returns, so the task goes on while it is on its way to
\* the check of its state.
originProgress(r) ==
    /\ Called(r)
    /\ req[r].session = "origin"
    /\ Pending(r) \in {"response", "data", "redirect"}
    /\ Set(r, IF req[r].mapped THEN Passed(r, Pending(r)) ELSE [req[r] EXCEPT !.queue = Tail(@)])
    /\ checking' = IF req[r].mapped /\ Pending(r) # "redirect" THEN r ELSE None
    /\ UNCHANGED <<conf, stale, main, once, syncing, gone>>

\* The rest of didReceiveResponse and didReceiveData.
originCheck(r) ==
    /\ checking = r
    /\ Set(r, IF req[r].task = "completed" THEN originEnd(req[r]) ELSE req[r])
    /\ checking' = None
    /\ UNCHANGED <<conf, stale, main, once, syncing, gone>>

originComplete_IgnoresError(r) ==
    /\ Called(r)
    /\ req[r].session = "origin"
    /\ Pending(r) \in {"finish", "fail"}
    /\ Set(r, [req[r] EXCEPT !.queue = Tail(@), !.mapped = FALSE,
                 !.story = IF ~req[r].mapped THEN @ ELSE @ \o Collected \o <<"finish">>])
    /\ UNCHANGED shared

\* didCompleteWithError: a finished load is recorded, a failed one is not.
originComplete(r) ==
    /\ Called(r)
    /\ req[r].session = "origin"
    /\ Pending(r) \in {"finish", "fail"}
    /\ Set(r, [req[r] EXCEPT !.queue = Tail(@), !.mapped = FALSE,
                 !.story = IF ~req[r].mapped THEN @
                           ELSE IF Pending(r) = "fail" THEN Append(@, "fail")
                                ELSE @ \o Collected \o <<"finish">>])
    /\ UNCHANGED shared

-----------------------------------------------------------------------------
(* The surroundings. *)

\* startWithSDKKey: the class is registered, Model initialised, and the sessions made;
\* a dispatch_once that another thread is in keeps the main thread waiting.
registerClass ==
    /\ main = "register"
    /\ main' = "standard"
    /\ UNCHANGED <<conf, stale, once, syncing, checking, gone, req>>

startWithSDKKey ==
    /\ main \in Sessions
    /\ once[main] # "entered"
    /\ once' = [once EXCEPT ![main] = "done"]
    /\ main' = IF main = "standard" THEN "origin" ELSE "idle"
    /\ UNCHANGED <<conf, stale, syncing, checking, gone, req>>

\* A configuration is activated; requests being routed see it from their next read on.
Activate(c) ==
    /\ conf' = c
    /\ req' = [r \in Requests |-> IF req[r].since = {} THEN req[r]
                                  ELSE [req[r] EXCEPT !.since = @ \cup {c}]]
    /\ UNCHANGED <<stale, main, once, syncing, checking, gone>>

\* The configuration times out or is refreshed, protocols are lost or found.
StaleChanges ==
    /\ stale' = ~stale
    /\ UNCHANGED <<conf, main, once, syncing, checking, gone, req>>

Gone == gone /\ UNCHANGED vars

Alive(A) == ~gone /\ A

Loading(r) ==
    \/ canTransport(r) \/ shouldTransportDomainName(r) \/ markProvisioned(r) \/ setEdgeHost(r)
    \/ \E p \in {"quic", "standard"} : currentProtocol(r, p)
    \/ startDirect(r) \/ failWithoutHost(r) \/ failedWithoutHost(r)
    \/ enterOnce(r) \/ createTaskWithRequest(r) \/ retainHolder(r)

Delegate(r) ==
    \/ standardProgress(r) \/ standardFinish(r) \/ standardFail(r) \/ standardFailed(r)
    \/ originProgress(r) \/ originCheck(r) \/ originComplete(r)

Next ==
    \/ \E r \in Requests, d \in Domains : Alive(canInitWithRequest(r, d))
    \/ \E r \in Requests : Alive(Loading(r))
    \/ \E r \in Requests : Alive(p_createTaskWithParams(r))
    \/ \E r \in Requests : Alive(TaskEvent(r))
    \/ \E r \in Requests : Alive(Delegate(r))
    \/ Alive(registerClass)
    \/ Alive(startWithSDKKey)
    \/ \E c \in Configurations : Alive(Activate(c))
    \/ Alive(StaleChanges)
    \/ Gone

Spec == Init /\ [][Next]_vars

(***************************************************************************)
(* Fairness: threads and queues progress, and NSURLSession ends a task by  *)
(* its time-outs.  Nothing is assumed of a task that waits for the answer  *)
(* to a redirect.                                                          *)
(***************************************************************************)
Fairness ==
    /\ \A r \in Requests :
          /\ WF_vars(Alive(Loading(r)))
          /\ WF_vars(Alive(p_createTaskWithParams(r)))
          /\ WF_vars(Alive(req[r].task # "redirecting" /\ TaskEvent(r)))
          /\ WF_vars(Alive(Delegate(r)))
    /\ WF_vars(Alive(startWithSDKKey))

FairSpec == Spec /\ Fairness

-----------------------------------------------------------------------------
(* Properties. *)

Told(r, call) == \E i \in DOMAIN req[r].story : req[r].story[i] = call

\* The client of a request hears a redirect, or a response and then its data, and
\* one end and nothing after it, whichever of task, session and connection ends
\* it; and there is at most one record, next to the end: after it over the edge,
\* before it and only for a finished load when it is direct.
ClientStory ==
    \A r \in Requests :
        LET story == req[r].story
            edge  == req[r].session = "standard"
        IN  \A i \in DOMAIN story :
               /\ story[i] \in {"response", "redirect"} => i = 1
               /\ story[i] \in {"data", "finish"} => story[1] = "response"
               /\ story[i] \in {"finish", "fail"} =>
                     i = Len(story) \/ (edge /\ i + 1 = Len(story) /\ story[i + 1] = "record")
               /\ story[i] = "record" =>
                     IF edge THEN i > 1 /\ i = Len(story) /\ story[i - 1] \in {"finish", "fail"}
                             ELSE i + 1 = Len(story) /\ story[i + 1] = "finish"

\* What the client of a request has heard; the record is for the statistics.
Heard(r) ==
    LET story == req[r].story
    IN  [heard |-> {story[i] : i \in DOMAIN story} \ {"record"},
         pieces |-> Cardinality({i \in DOMAIN story : story[i] = "data"})]

Contract == INSTANCE LoadContract WITH told <- [r \in Requests |-> Heard(r)]

\* Both sessions implement LoadContract: although the delegate of a task, the session
\* and the connection can each end a load, its client hears nothing after the end.
ImplementsContract == Contract!Spec

\* A load is reported as finished when all its data has been passed on, and as failed
\* when its task failed or RSURLRequestProcessor left it without a host.  The one
\* exception is a load that RSOriginSession ended by itself because its task was in
\* the completed state: data still queued is dropped, a failure becomes a success.
EndIsTrue ==
    \A r \in Requests :
        LET story == req[r].story IN
        /\ Told(r, "finish") =>
              \/ /\ req[r].task = "completed" /\ ~req[r].failed
                 /\ {i \in DOMAIN story : story[i] = "data"} = 2 .. req[r].sent + 1
              \/ req[r].session = "origin" /\ req[r].synthetic
        /\ Told(r, "fail") => req[r].failed \/ ~req[r].hasHost

\* The Holder keeps a connection until its last callback, and no longer, unless the
\* load was redirected (StandardConnection::didCompleteWithError releases it).  It
\* is released before it exists only when the task completes before startWithRequest
\* has returned.
HolderAccounted ==
    /\ \A r \in Requests :
          /\ req[r].holder = "released" => req[r].queue = <<>> /\ req[r].task = "completed"
          /\ req[r].holder = "retained" /\ syncing # r => ~Told(r, "finish") /\ ~Told(r, "fail")
    /\ gone => \E r \in Requests : req[r].step = "created"

ListsSend(c, d) ==
    /\ \A e \in c.black \cup c.internalBlack : e.host # d
    /\ c.white # {} => \E e \in c.white \cup c.provisioned : e.host = d

\* A domain goes to the edge only if the mode of one and the lists of one of the
\* configurations that were active while it was routed send it there (shouldTransport
\* is two reads of Model), and a provisioned one keeps its Host header unless one of
\* them does not provision it, or only with an entry written as a URL, which the read
\* of the lists matches and isDomainNameProvisioned does not; or all goes stale.
RoutedAsConfigured ==
    [][\A r \in Requests :
         LET d == req[r].domain
             c == req[r].since
         IN
         /\ req[r].step = "listed" /\ req'[r].step = "edge" =>
               stale \/ \E m, l \in c : m.mode \in {"transport", "transport and report"}
                                       /\ ListsSend(l, d)
         /\ req[r].step = "chosen" /\ req'[r].step # "chosen" /\ ~req'[r].marked =>
               stale \/ \E l \in c : \A e \in l.provisioned : e.host = d => e.url]_vars

\* The main thread waits in a dispatch_once whose block waits for the main thread.
Stuck == main \in Sessions /\ once[main] = "entered"

\* Every request that is taken over comes to an end: its client hears of one or of a
\* redirect, or QUIC has it; unless a request has come to a session before
\* startWithSDKKey made it, which stops the main thread for good, or a task that
\* overtook its start ends the process.
LoadsEnd ==
    \A r \in Requests :
        req[r].step = "offered" ~>
            \/ \E call \in {"finish", "fail", "redirect"} : Told(r, call)
            \/ req[r].step = "quic"
            \/ Stuck
            \/ gone
=============================================================================
