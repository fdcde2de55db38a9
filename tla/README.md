# Verification of the RevSDK core

RevSDK for iOS intercepts the HTTP requests of an application, sends them over
one of two transports (plain HTTPS through an edge host, or QUIC), refreshes a
configuration from a server, switches transports when one stops working, and
uploads statistics about every request. This directory models the parts of it
that keep state across threads, callbacks, time-outs and process kills. The
models are written from the code under `src/RevSDK/RevSDK` (paths below are
relative to it); vendored code (the QUIC library, boost headers, Pods) and the
demo applications are outside.

## The system

| Component | State | Operations | What makes it hard |
|---|---|---|---|
| Request statistics: `Stats/RequestStatsHandler.cpp`, `Model/Model.cpp` | vector of collected records, list of transactions in flight, report loop | collect, pack a transaction, complete or restore it, debug purge | completions on any thread in any order, kills, lost answers, an unlocked debug call |
| Request data file: `DataStorage/DataStorage.mm` | one property list per kind of data | append, rewrite, delete, load | the file is removed before it is written |
| Availability tester: `Protocol/ProtocolAvailabilityTester.mm` | `mRunning`, stack of protocols, results | start a round, record an answer, finish | calls from any thread, answers that never come or come twice |
| Protocol selector: `Protocol/ProtocolSelector.cpp` | best protocol, available protocols, stored list | configuration applied, network changed, protocol failed, results | two locks, a read before the lock, feedback with staleness |
| Configuration service: `Model/ConfigurationService.cpp` | active configuration, time of last update, stale flag | load, validate, apply, save, refresh timer | asynchronous loads, kills between two saves |
| Failure monitor: `Protocol/ProtocolFailureMonitor.cpp` | time stamps of requests and failures per protocol | log, prune, compare, notify | order of start and log, pruning of empty vectors, unlocked clear |
| QUIC session: `Connection/QUICSession.mm`, `QUICDataStream.cpp`, `QUICThread.mm` | one session, map of streams to delegates, per-stream timer and cache | connect, send, disconnect, packets, timer, socket error | three parties can end a request, raw pointers in the map |
| QUIC connection: `Connection/QUICConnection.mm` | request, redirect, anchor | start, response, data, finish, fail | redirects, object life time |
| Domain routing and modes: `Model/Model.cpp` | operation mode, domain lists | decide whether a host is transported or reported | the configuration is read anew for each question, and may be stale for one and not for the other |
| Interception: `Interception/RSURLProtocol.mm`, `RSURLConnection.mm`, `RSURLConnectionNative.mm`, `Utils/RSURLRequestProcessor.mm` | one connection per request | take over, route, rewrite, pass callbacks to the client | it waits for the main thread |
| Standard connection and sessions: `Connection/StandardConnection.mm`, `RSStandardSession.mm`, `Interception/RSOriginSession.mm` | map of connections, `Holder`, tasks | create a task, response, data, redirect, completion | tasks run ahead of their callbacks and of the code that started them |
| Events: `Model::addEvent`, `Stats/NativeStatsHandler.mm` | the event file | record, hand over to a report | they are off the disk before they are delivered |
| Device statistics, debug tools | Cocoa objects | | I/O |

They interact as follows. The configuration service applies a configuration to
`Model`, which sets the reporting level, passes it to the selector and
schedules the statistics timer. The selector runs the tester, whose test
connections are ordinary connections; its results choose the best protocol,
and without one the configuration is stale. Connections report starts and
failures to the failure monitor, which makes the selector test again, and give
a record of each request to the statistics handler. Events recorded by the
other parts travel in the same reports as those records. A configuration that
changes the edge host makes the QUIC session reconnect.

## Modules

- `StatsLedger` is the promise of the statistics pipeline: a collected record
  is owed until the server has it, only a kill cancels a debt, and a debt that
  is gone does not come back.
- `RequestStats` is the pipeline. `pending` is `mRequestsDataVector`, `sent` is
  `mSentData`, `uploads` the PUT requests, `file` the request data file,
  `lock` and `saving` where the holder of `Model::mLock` is, `scheduled` the
  statistics timer, `reporting` the do-while of `reportStats`. Actions:
  `scheduleStatsReporting` (a configuration starts the timer or disables it), `addRequestData`, `FinishSave` (the
  write half of `saveObject`), `reportStats`, `requestsData` and
  `createSendTransaction` (one iteration of the loop), `ServerReceives`,
  `deleteTransaction`, `restoreTransaction` (completions), `Restart` (kill and
  relaunch) and, in `DebugSpec`, the three steps of the unlocked purge. History
  variables record what was collected, delivered, and what lost its copy on
  disk (`exposed`).
- `StatsEvents` extends `RequestStats` with the events. `addEvent` and
  `addEventWrites` are the two halves of its save; `reportWithRecords` and
  `reportWithoutRecords` are the steps of the report loop together with
  `logDataArray`, which empties the event file; `reportEnds`, `bareReportEnds`
  and `EventRestart` say what becomes of the events. The event file is only
  touched on the main thread, so an event is not recorded while `reporting`.
  Every step is a step of `RequestStats` or leaves its variables alone.
- `ProtocolTester` is the availability tester with the main queue. `probes`
  counts the test connections of each protocol that have not reported;
  `MockDelegate` cannot tell connections apart, so one that fails after its
  response (`ProbeBreaks`, `ProbeFailsLate`) pops a second protocol, perhaps of
  a later round, or calls `top()` on an empty stack (`undefined`).
  `ProtocolSelection` extends it with the selector and the staleness of the
  configuration. `ReadAllowed` and `handleTestResults` are the two halves of
  `handleTestResults`, before and under the lock. Several loads can complete at
  once and nothing orders them: `completions` counts them by where they are, after
  the activation (`ApplyConfiguration`), after `mActiveConfiguration` was read
  again for the argument of `applyConfiguration` (`PassActive`), or inside the
  first initialisation (`ExchangeFirstInit`, `FirstInit`); the others sort by the
  list they were passed (`Reconfigure`), which another activation may have
  replaced. `available` is a set: the code searches `mAvailableProtocols` and asks
  whether it is empty, and its order or a name that is in it twice makes no
  difference. What is saved of it is read only when the process starts, where it is
  any set of names, since a server's `initialTransportProtocol` is saved with what
  the last round found.
- `QuicSession` is the QUIC session with its streams and connections. Every
  handler of the session thread is one action; the record `conn[r]` holds the
  stream, its map entry and the calls its delegate received. Data frames are
  numbered, so order and gaps can be told apart. The library is external:
  handshake steps, stream refusal, headers, data and closes happen at any
  time. `SendConnectionClose` closes all streams synchronously and destroying
  a session does not, as the vendored sources do. Simulated errors
  (`mIsFake`) and the contents of headers are left out.
- `FailureMonitor` is the failure monitor with the requests that feed it. A
  request is started and logged by one thread and ends on another;
  `Reported` is the critical section of `validate`, `validate` and
  `validateUndefined` what follows it. `reports` and `connections` are
  `mReportMap` and `mLoggedConnections`; `saw` and `decided` record what was
  true when the copies were made. The race of `clear`, which takes no lock,
  with the push and the copy leaves any of the three values the vector can
  have. `Interval` is fixed, although the code reads it again in each turn of
  its loops. Ratios are compared as integers: the threshold of a server and
  the quotient are both rounded to float, so they compare as the exact values
  do (the built-in 0.6 of the stale configuration is a double, and differs at
  exactly 60 %).
- `ConfigurationService` is the configuration service with what it sets in
  `Model`. A load is sent and answered (or `LoadFailed`), and its completion runs
  on a thread of its own, because each load has an `NSURLSession` of its own. No
  lock covers it, so it is cut wherever another thread or a kill can tell:
  `ReadRatio`, `DrawAndStamp` (the old group, the lottery and the time stamp),
  `Activate`, `PassActive` (`mActiveConfiguration` is read again),
  `ApplyConfiguration` (the monitoring), `ScheduleStats` (with the removal of the old
  file) and `WriteFile` (with the refresh timer). `getActive` has a side effect and
  is called in each step as often as the code calls it there. The two reads of
  the lottery are two steps. Reading the old group, drawing and stamping are one:
  what that leaves out is another completion that activates after the group was read
  and before the stamp, where here it activates after the stamp; which group each of
  them ends up with is the same. `Relaunch` is a kill, at any
  point and any number of times, followed by the constructor and `init`.
  `version`, `at` and `torn` are history.
  Whether there is a best protocol is left open here; `ProtocolSelection` says
  when it changes. `mActiveConfiguration` is a `shared_ptr` that is replaced and
  read without a lock, which is a data race: each read and each write is taken to
  be atomic, and a torn pointer is left out.
- `UrlLoading` follows an intercepted request. `req[r].step` is where the thread
  that started it is: each question to `Model` (`canTransport`,
  `shouldTransportDomainName`, `currentProtocol`, `isDomainNameProvisioned` in
  `markProvisioned`, the edge host in `setEdgeHost`) is a step, because each
  takes and releases the lock. `setEdgeHost` leaves a request without a host when the
  configuration is stale, or when its URL is one the processor refuses. A task
  changes state at once and its callbacks
  are queued, which is what lets `RSOriginSession` find a task completed whose
  data is still queued: it passes a response or data on (`originProgress`), and looks
  at the state of the task only then (`originCheck`, after which `originEnd`). `story` is what the client heard, with
  the record for the statistics at the place where it was made. `main` and
  `once` are `startWithSDKKey` and the two `dispatch_once`; `syncing` is the
  failure whose `dispatch_sync` holds the delegate queue of the standard
  session. A `Holder` that is released before it is there ends the process
  (`gone`). A request for QUIC continues in `QuicSession`.
- `LoadContract` is what the client of a load is promised, whichever transport
  serves it: per load, the kinds of calls it has heard and how many pieces of
  data. A load only hears more, and nothing after its end. `QuicSession` and
  `UrlLoading` implement it: `Heard(r)` maps `conn[r].calls` and `req[r].story`
  (without the record, which is for the statistics) to `told`. After a redirect
  only a failure may follow: a standard task whose redirect is left unanswered
  may still time out, over QUIC the redirect is the last call.
- `RequestStatsProofs`, `StatsEventsProofs`, `ProtocolSelectionProofs`,
  `QuicSessionProofs`, `FailureMonitorProofs`, `ConfigurationServiceProofs` and
  `UrlLoadingProofs` hold the theorems about the modules they are named after
  (`ProtocolSelectionProofs` those about `ProtocolTester` too), `SequenceFacts`
  the lemmas about sequences that several of them use.
- `MC...` modules only give values to constants.

Operators named `X_Something` next to `X` are broken variants of `X` used to
see that a property notices the difference; no specification uses them.

## Runs

| Run | Question | Bounds |
|---|---|---|
| `stats_crash` | Is any record held twice or silently lost, its debt cancelled without a kill, or one that is gone brought back (`ImplementsLedger`)? What can happen to the events? | 3 records, 2 events, 2 uploads, 1 kill, batch 1 or 2 |
| `stats_delivery` | Does every record reach the server when requests keep being lost, does any twice, and does the loop on the main thread end? | 3 records, 3 uploads, no kill, no lost answers, any number of configurations that start or stop the timer |
| `stats_purge` (violation) | Does the assertion in `createTransaction` hold with the debug purge? | 2 records |
| `selection_rounds` | Do rounds stay apart and end, are results attributed, is the pick the configured one, does the SDK recover from having no protocol? | 2 protocols, 2 configurations, 2 completions at a time, any probe may stay silent, one reports twice |
| `selection_unavailable` (violation) | Is the best protocol an available one? | 2 configurations, 1 completion at a time, every probe answers |
| `quic_session` | Is each delegate told one well-formed story, are map entries alive, is anybody forgotten, is `LoadContract` implemented, does every stream end? | 2 requests, 2 data frames, 3 queued blocks |
| `monitor_safety` | When is pruning out of bounds, and is a decision what really happened? | 3 requests of one protocol, interval 1, clock 2, 1 clear, threshold 60 % |
| `monitor_early_return` (violation) | Does the early return mean that requests succeeded? | as above |
| `config_safety` | What does a process trust, when does the SDK stop asking, do overlapping loads end with the server's last configuration, does the A/B group settle? | 2 loads, 2 versions, clock 0 and 2, any number of kills |
| `config_ab_group` (violation) | Does the A/B group report only? | as `config_safety` |
| `config_stale_monitoring` (violation) | Does a stale configuration stop the monitoring? | as `config_safety` |
| `url_loading` | Where is a request sent, does its client hear one well-formed story with a true end, is its connection released once, is `LoadContract` implemented, does it end? | 2 requests, 2 domains, 3 configurations, 2 data callbacks |

Three records with batches of one and two give a transaction of several
records, two transactions at once and a record left in the vector, which is
every shape `createTransaction`, `restoreTransaction` and `deleteTransaction`
tell apart; one kill suffices since a relaunch resets everything but the file,
and any file content can be reached before it. Two events give a save that
puts an earlier one at risk. Two protocols are all there are; one double report
is enough to run a round ahead by one answer, and two only do so twice. The two
configurations of `selection_rounds` are one that names both protocols and one
that names a protocol that does not exist; with two completions at a time each can
be the one that is overtaken. Two QUIC requests give one that is
affected by what the other causes (a refused stream, a reconnect), and two
frames give one cached and one direct.
Protocols share nothing in the failure monitor but `clear`, so one is enough;
three requests give shares on both sides of the threshold (1/2, 2/3, 3/3), and
an interval of one with a clock of two lets a request leave the window before
its failure. Two loads overlap, two versions can be applied in the wrong order,
and time-outs of one and two seconds under a clock that moves two at once cover a
configuration that is fresh, just fresh and stale. Requests share the two
`dispatch_once`, the standard delegate queue and the main thread, so two show
what one does to the other; two data callbacks give one that is delivered and
one that is still queued. Of the three configurations of `url_loading` two
transport: in one a domain is both black and white and the other provisioned as a
URL, in the other a domain is on the internal black list and the other provisioned by
its bare name, so that each can be the only one a routing sees. The third only
reports. The deadlock check is off
for `monitor_safety`, where all requests may be over.

`PackingSomething` fails because `Model::deleteRequestsData` does not take
`mLock`. `EarlyReturnMeansSuccess` fails because a failure can be counted before its
request, or after its request has left the window. `ABReportsOnly` fails at the
second load with the same ratio. `StaleStopsMonitoring` fails because a load
resets `mStaleOnFlag` and then calls getters that set it again.
`BestIsAvailable` fails because `std::remove_if` is not followed by `erase`.

### Fairness

- `RequestStats`: a timer that keeps running fires, the mutex is handed over (strong
  fairness, because other threads take it in between), NSURLSession calls each
  completion handler once, and the network does not fail the same record for ever.
  Nothing starts the timer or keeps it running: a configuration whose mode does not
  report, or that is stale when it is applied, disables it, so
  `EventuallyDelivered` has the premise that it is on from some point on. What is
  said of the network is an assumption about the environment, used for
  `EventuallyDelivered` and `ReportEnds`: uploads that fail at once, without end,
  keep the loop on the main thread running. A lost answer is left out of this run,
  since it makes the server count a record twice (`stats_crash` has it).
- `ProtocolSelection`: the main queue and the threads of completions progress, the
  refresh timer keeps loading configurations, and the network keeps changing (only then
  does the code start a round). A test connection ends with an answer or, if it
  is one of `SilentProbes`, without one; no time-out guards a round, so then
  `mRunning` stays set for ever. `RoundsEnd` names that state (`GoneSilent`) and
  the end of the process by an answer too many (`undefined`) as the only other
  outcomes, and `Recovers` assumes both away. It also says that a list an overtaken
  completion sorted by does not stay in force once the server has settled.
- `UrlLoading`: threads and queues progress, and `NSURLSession` ends every task,
  by its time-outs if by nothing else. Nothing is assumed of a task whose
  redirect waits for an answer, since the code gives none: its client has heard
  of the redirect. `LoadsEnd` names the two other outcomes: the deadlock of
  `startWithSDKKey` with a request that is first in `dispatch_once` (`Stuck`),
  and the end of the process (`gone`).
- `QuicSession`: the run loop serves its queue and its 100 ms timer, and time
  passes. Nothing is assumed of the peer.
- `ConfigurationService`: the refresh timer repeats, requests end, callback
  threads progress, and not every request fails (strong fairness of an answer).
  `Converges` and `LotterySettles` have the premise that the process is not killed
  again and again (`KeepsRunning`), and say nothing of one that has no refresh timer:
  `StrandedOnlyUnconfigured` says which that is. `LotterySettles` also assumes that
  the configuration stays trusted and that completions stop overlapping. The first
  because a stale configuration is compared with as if its ratio were -1, the second
  because two completions that both read the old ratio both draw; the code excludes
  neither.

## Proofs

Every safety property of the passing runs is also a theorem, for all values of
the constants that meet the assumptions; only liveness is left to TLC. The proofs
have one plan: an inductive invariant, checked on an instance before it was proved,
one lemma per action that the action keeps it, `Init` and the step from those
lemmas, and the properties as consequences of it.

The assumptions are those stated in the modules: counts and bounds are numbers,
`kRequestsCountMax` is positive, the stale timeouts of published configurations
are positive and their lists of allowed protocols are not empty (both are
validated), any positive number of completions may overlap and the clock may move by
any positive amounts, the requests of the failure monitor are finitely many, and the
value `None` is none of the values it stands beside. The threshold and the interval
of the failure monitor are any integers, since neither is validated:
with a threshold of 100 or more, as `QuietMeansSomeSurvived` itself says, a quiet
`validate` means nothing about survivors.

| Module | Theorems | Inductive invariant |
|---|---|---|
| `RequestStatsProofs` | `TypeCorrect`, `PipelineCorrect`, `HeldOnceCorrect`, `NoEmptyTransactionCorrect`, `DurableCorrect`, `NothingResurrectedCorrect`, `LedgerCorrect`, `AtMostOnceCorrect`, `DebugMemoryCorrect`, `DebugAtMostOnceCorrect` | `PipelineInv`, `UnlockedInv` |
| `StatsEventsProofs` | `EventsRefinePipeline`, `PipelineCorrectWithEvents`, `LedgerCorrectWithEvents`, `EventsAccountedCorrect` | `EventInv` |
| `ProtocolSelectionProofs` | `SelectionCorrect`, `TypeCorrect`, `QuietBetweenRoundsCorrect`, `ResultsAttributedCorrect`, `PicksFirstAvailableCorrect`, `PickIsConfiguredCorrect`, `OffUntilConfiguredCorrect` | `SelectionInv` |
| `QuicSessionProofs` | `QuicCorrect`, `TypeCorrect`, `CallsWellFormedCorrect`, `NothingHeldBackCorrect`, `DelegatesAliveCorrect`, `NeverForgottenCorrect`, `ContractCorrect` | `QuicInv` |
| `FailureMonitorProofs` | `MonitorCorrect`, `TypeCorrect`, `UndefinedOnlyWhenLateCorrect`, `NotifyJustifiedCorrect`, `QuietMeansSomeSurvivedCorrect` | `MonitorInv` |
| `ConfigurationServiceProofs` | `TypeCorrect`, `StampBelongsCorrect`, `TrustedIsFreshCorrect`, `StrandedOnlyUnconfiguredCorrect` | `StampBelongs`, `TimerComes` |
| `UrlLoadingProofs` | `TypeCorrect`, `LoadCorrect`, `ClientStoryCorrect`, `EndIsTrueCorrect`, `HolderAccountedCorrect`, `RoutedAsConfiguredCorrect`, `ContractCorrect` | `LoadInv`, `GoneInv`, `RouteInv` |

Why the properties are not inductive alone, and what makes them so:

- *Statistics.* After a kill the file becomes the vector, so `HeldOnce` needs
  `SavedOnce` of the file and of the array about to be written; a new record
  must not be in the file already, which needs `OnlyCollected`; `Durable` needs
  `SaveInProgress`, which says that the file and the array never both matter;
  the ledger needs `NothingResurrected` for a kill and `ReceivedDelivered` for
  the end of an upload. `LedgerCorrect` is the refinement: every step is a
  ledger step or leaves the ledger alone. `AtMostOnceCorrect` has the hypotheses
  that there are no kills and no lost answers. Half of `PipelineInv` speaks of
  memory only (`MemoryInv`) and survives even the unlocked purge of the debug
  build: `DebugMemoryCorrect` says that the records of the purge and the failed
  assertion are all the damage until a kill, `DebugAtMostOnceCorrect` that the
  server still counts nothing twice. The other half, which compares memory with
  the file, does not survive it (the run `stats_purge` shows one consequence).
- *Events.* That an event is in one place only needs that the event file is
  empty while a save is under way (`WriteAhead`), and that a transaction
  carries events only while its upload is in flight (`CarriedByUploads`).
  `EventsRefinePipeline` says that each step of `StatsEvents` is a step of
  `RequestStats` or a stutter, so that the theorems about records hold there.
- *Selection.* `QuietBetweenRounds` holds when a round ends because a round in
  progress has at most one answer more to come than there were double reports,
  and one that is queued at most as many: `RoundInv` counts test connections,
  queued results and connections about to fail in every phase of a round.
  Without a double report the count leaves one answer, and `AnswerInv` says
  that it is from the protocol on top of the stack, which is what
  `ResultsAttributed` needs. `SelectorInv` ties the list that
  `handleTestResults` read to there being no best protocol at that moment.
- *QUIC.* A request is fresh, waiting, served or over (`PhaseInv`), and its
  phase fixes the calls its delegate has had, what its stream has cached and
  whether it is in the map. `StreamInv` says which streams a session has,
  `QueueInv` that a request waits exactly while its block is in the queue, once.
  `ContractCorrect` is the refinement of `LoadContract`: the calls only grow
  (`CallsGrow`, one lemma per place that calls a delegate), and `CallsWellFormed`
  after the step leaves nothing to add after an end.
- *Failure monitor.* `validate` counts entries of vectors and the properties
  speak of requests: `MonitorInv` keeps a bijection between the entries of each
  vector, and of each copy, and the requests that made them; of the failures,
  after a `clear`, only some of those requests are left. A decision is then
  about sets of requests, and what later steps do to the vectors does not matter.
- *Configuration.* `TrustedIsFresh` follows from `StampBelongs`: unless a save
  was cut short or overlapped by another, one completion at most is between its time
  stamp and its save, what it holds was received at the time stamp, and so was the
  active configuration once it is activated, and the stored one once it is saved. `TimerComes` says that the
  timer is running, or some load is going to start it, or nothing was ever
  configured.
- *Loading.* `LoadInv` says of each request that it has no task yet, or that
  what its client heard followed by what is queued for its delegate is what its
  task did (`Underway`), or that it is over with one of the endings `Ending`
  lists. `GoneInv` keeps the step that ended the process in view. `RouteInv`
  says that the active configuration is among those a routing has seen, and
  that one of these sends to the edge what is about to be sent there.
  `ContractCorrect` is the same refinement as for QUIC, from `StoryGrows` and
  `ClientStory`: what is added after an end can only be the record.

Lemmas cited throughout: `SequenceFacts` (the values of a sequence and the
absence of repetitions under append, concatenation and splitting, what a
sequence that grows keeps), `ListsCount`
(entries in a window are as many as their requests), `AnswersAppend` and
`AnswersTail` (results in a queue), `FirstFacts` (the least index of a set).

Only model-checked, because liveness under fairness is outside the proof
system's reach: `EventuallyDelivered`, `ReportEnds`, `RoundsEnd`, `Recovers`,
`StreamsEnd`, `Converges`, `LotterySettles` and `LoadsEnd`.

## Not modelled, and why

Contents of records, headers and configurations are data. Device statistics,
location, logging and the view controllers are I/O without a protocol.
The QUIC library and `NSURLSession` are taken at what their callbacks do.

Left out of `UrlLoading`: errors simulated for testers (`mIsFake`), the filter
`shouldPassHost` of the test application, byte counters, and the new session
that a screen lock makes on another thread (the property `session` is not
atomic; tasks of the old session keep its delegate, so only the race on the
property itself is lost). The text of URLs and headers is data; that a stale
configuration has an empty edge host, and so the rewritten URL no host, is kept.

Listed as hazards without a property: two threads that both create the QUIC
session, and an answer of the configuration server with several entries, of
which the last is validated and the first parsed. Torn reads in the unlocked
`sortProtocols` are not modelled, nor is the growth of the failure monitor's log
(no bound is promised). The debug modes replace the
configuration service by another class and are not part of the product.

## Plan

Done: the statistics pipeline and its events, tester and selector with silent and
double reports, QUIC session, failure monitor, configuration service,
interception and the standard connection, with the safety properties of all of
them proved, the contract of a load that both transports implement, and what the
unlocked debug purge leaves intact. What is left, in this order:

1. An answer of the configuration server with several entries, so that the one
   that is validated and the one that is parsed can differ.
2. Two threads that both create the QUIC session.

Compositions that would replace an input by a component (the failure monitor
for `ProtocolFailed`, the configuration service for `ApplyConfiguration`) are
possible but multiply state spaces that are near their limit. Both inputs may come
at any time in the modules that have them, up to `MaxCompletions` overlapping
completions, which the theorems leave open, so that what is proved there holds for
the composition.
