-------------------------- MODULE ProtocolSelection --------------------------
(***************************************************************************)
(* ProtocolSelector composed with its tester and with the part of the      *)
(* configuration service it depends on: the active configuration and       *)
(* staleness.  An SDK without a best protocol has a stale configuration    *)
(* (the external stale condition), and a stale configuration allows no     *)
(* protocol, so the two components feed back into each other.              *)
(*                                                                         *)
(* Threads: every load of a configuration completes on a network callback  *)
(* thread of its own, and nothing orders the completions; tests run on the *)
(* main queue, failures are reported from connection threads.  completions *)
(* and completing say which of them are inside a handler.  A completion    *)
(* applies what the active configuration is when it passes it on; a round  *)
(* reads the list of allowed protocols before mLock is taken.              *)
(***************************************************************************)
EXTENDS ProtocolTester, Functions

CONSTANTS
    Configurations,  \* the configurations the server can send
    MaxCompletions   \* bound on the loads that complete at the same time

\* Names in allowedProtocols and initialTransportProtocol: "rev" passes validation
\* although no transport of that name exists.
Named == Protocols \cup {"rev"}

ASSUME ConfigurationsAssumption ==
    \A c \in Configurations :
        /\ c.allowed \in Seq(Named)
        /\ c.allowed # <<>>
        /\ c.initial \in Named

ASSUME MaxCompletionsAssumption == MaxCompletions \in Nat \ {0}

VARIABLES
    best,        \* mBestProtocol, None when null
    available,   \* the names in mAvailableProtocols, which is only searched
    monitoring,  \* mMonitoringURL is not empty
    firstInit,   \* the static _firstInit
    active,      \* mActiveConfiguration, None before the first one
    timedOut,    \* ConfigurationService::isTimedOut
    completions, \* how many completions are where, with what they have passed on
    confProtos,  \* the list handleTestResults read, None when it has not yet
    readWhileOff \* history: there was no best protocol when it was read

selectorVars == <<best, available, monitoring, firstInit>>
confVars == <<active, timedOut, completions, confProtos, readWhileOff>>
vars == <<testerVars, selectorVars, confVars>>

\* A completion has made its configuration the active one; it has passed c on to the
\* selector; it has found _firstInit set.
Activated == [step |-> "activated", conf |-> None]
Passed(c) == [step |-> "passed", conf |-> c]
First(c) == [step |-> "first", conf |-> c]

Completion == {Activated} \cup [step : {"passed", "first"}, conf : Configurations]

\* What runTests leaves alone.
roundVars == <<toTest, results, completing, probes, breaking, doubles, undefined>>

isStale == timedOut \/ best = None

getAllowedProtocolIDs_Active == IF active = None THEN <<>> ELSE active.allowed

\* getAllowedProtocolIDs: a stale configuration allows nothing.
getAllowedProtocolIDs == IF isStale \/ active = None THEN <<>> ELSE active.allowed

TypeOK ==
    /\ TesterTypeOK
    /\ best \in Protocols \cup {None}
    /\ available \subseteq Named
    /\ monitoring \in BOOLEAN
    /\ firstInit \in BOOLEAN
    /\ active \in Configurations \cup {None}
    /\ timedOut \in BOOLEAN
    /\ completions \in [Completion -> Nat]
    /\ confProtos = None \/ confProtos \in Seq(Named)
    /\ readWhileOff \in BOOLEAN

\* What saveAvailable writes is read only when the process starts: any list may have
\* been left by the last one.
Init ==
    /\ TesterInit
    /\ best = None
    /\ available \in SUBSET Named
    /\ monitoring = FALSE
    /\ firstInit = TRUE
    /\ active = None
    /\ timedOut = TRUE
    /\ completions = [k \in Completion |-> 0]
    /\ confProtos = None
    /\ readWhileOff = FALSE

-----------------------------------------------------------------------------
Least(I) == CHOOSE i \in I : \A j \in I : i <= j

\* Where list names an available protocol: what remove_if moves to the front.
Kept(list, avail) == {i \in DOMAIN list : list[i] \in avail}

FrontAfterRemoveIf_First(list, avail) == Head(list)

\* The first element once std::remove_if has run without an erase: the vector
\* keeps its size, so with nothing kept the first element is still in place.
FrontAfterRemoveIf(list, avail) ==
    IF Kept(list, avail) = {} THEN Head(list) ELSE list[Least(Kept(list, avail))]

convertIDToPropocol_Any(id) == id

\* Only "quic" and "standard" have a protocol object.
convertIDToPropocol(id) == IF id \in Protocols THEN id ELSE None

sortProtocols_Available(list, avail) ==
    best' = IF avail = {} THEN best ELSE convertIDToPropocol(CHOOSE p \in avail : TRUE)

\* sortProtocols on a given list and the given value of mAvailableProtocols.
sortProtocols(list, avail) ==
    best' = IF list = <<>> THEN None
            ELSE IF avail = {} THEN best
            ELSE convertIDToPropocol(FrontAfterRemoveIf(list, avail))

-----------------------------------------------------------------------------
\* One completion moves on, or ends.
Move(k, k2) == completions' = [completions EXCEPT ![k] = @ - 1, ![k2] = @ + 1]
End(k) == completions' = [completions EXCEPT ![k] = @ - 1]

\* A configuration has been loaded: it becomes the active one and is no longer timed
\* out, whatever other completions are doing.
ApplyConfiguration(c) ==
    /\ FoldFunction(+, 0, completions) < MaxCompletions
    /\ active' = c
    /\ timedOut' = FALSE
    /\ completions' = [completions EXCEPT ![Activated] = @ + 1]
    /\ UNCHANGED <<testerVars, selectorVars, confProtos, readWhileOff>>

\* The argument of applyConfiguration: mActiveConfiguration is read again, and may be
\* what another load has made active.
PassActive ==
    /\ completions[Activated] > 0
    /\ Move(Activated, Passed(active))
    /\ UNCHANGED <<testerVars, selectorVars, active, timedOut, confProtos, readWhileOff>>

\* onConfigurationApplied: the monitoring URL is set, and the exchange on _firstInit
\* lets one completion through.
ExchangeFirstInit(c) ==
    /\ completions[Passed(c)] > 0
    /\ firstInit
    /\ monitoring' = TRUE
    /\ firstInit' = FALSE
    /\ Move(Passed(c), First(c))
    /\ UNCHANGED <<testerVars, best, available, active, timedOut, confProtos, readWhileOff>>

\* That one takes the initial protocol and tests.
FirstInit(c) ==
    /\ completions[First(c)] > 0
    /\ best' = convertIDToPropocol(c.initial)
    /\ available' = available \cup {c.initial}
    /\ runTests(None)
    /\ End(First(c))
    /\ UNCHANGED <<roundVars, monitoring, firstInit, active, timedOut, confProtos, readWhileOff>>

Reconfigure_NoSort(c) ==
    /\ completions[Passed(c)] > 0
    /\ ~firstInit
    /\ End(Passed(c))
    /\ UNCHANGED <<testerVars, selectorVars, active, timedOut, confProtos, readWhileOff>>

\* The others sort again, without mLock, by the configuration that was passed on.  The
\* exchange gives them nothing that could change before they sort: one step.
Reconfigure(c) ==
    /\ completions[Passed(c)] > 0
    /\ ~firstInit
    /\ sortProtocols(c.allowed, available)
    /\ monitoring' = TRUE
    /\ End(Passed(c))
    /\ UNCHANGED <<testerVars, available, firstInit, active, timedOut, confProtos, readWhileOff>>

\* No configuration has been loaded for staleTimeout seconds.
TimeOut ==
    /\ active # None
    /\ ~timedOut
    /\ timedOut' = TRUE
    /\ UNCHANGED <<testerVars, selectorVars, active, completions, confProtos, readWhileOff>>

\* onNetworkTechnologyChanged, onCelluarStandardChanged, onSSIDChanged.
NetworkChanged ==
    /\ monitoring
    /\ runTests(None)
    /\ UNCHANGED <<roundVars, selectorVars, confVars>>

\* The failure monitor reports a protocol: test the others.
ProtocolFailed(p) ==
    /\ monitoring
    /\ runTests(p)
    /\ UNCHANGED <<roundVars, selectorVars, confVars>>

\* handleTestResults up to the lock: read what the configuration allows.
ReadAllowed ==
    /\ completing
    /\ confProtos = None
    /\ confProtos' = getAllowedProtocolIDs
    /\ readWhileOff' = (best = None)
    /\ UNCHANGED <<testerVars, selectorVars, active, timedOut, completions>>

Succeeded(rs) == {rs[i].id : i \in {k \in DOMAIN rs : rs[k].ok}}

\* handleTestResults under mLock, and the end of the tester's block.
handleTestResults ==
    /\ confProtos # None
    /\ available' = Succeeded(results)
    /\ sortProtocols(confProtos, available')
    /\ confProtos' = None
    /\ readWhileOff' = FALSE
    /\ FinishRound
    /\ UNCHANGED <<monitoring, firstInit, active, timedOut, completions>>

\* What a completion that has passed c on does.
Applying(c) == ExchangeFirstInit(c) \/ FirstInit(c) \/ Reconfigure(c)

Alive(A) == ~undefined /\ A

OnlyTester(A) == Alive(A /\ UNCHANGED <<selectorVars, confVars>>)

\* The process was ended by undefined behaviour.
Gone == undefined /\ UNCHANGED vars

Next ==
    \/ \E c \in Configurations : Alive(ApplyConfiguration(c)) \/ Alive(Applying(c))
    \/ Alive(PassActive)
    \/ Alive(TimeOut)
    \/ Alive(NetworkChanged)
    \/ \E p \in Protocols : Alive(ProtocolFailed(p))
    \/ OnlyTester(TesterSteps)
    \/ Alive(ReadAllowed)
    \/ Alive(handleTestResults)
    \/ Gone

Spec == Init /\ [][Next]_vars

(***************************************************************************)
(* Fairness: the main queue and the network callback threads make          *)
(* progress, test connections end, the configuration refresh timer         *)
(* keeps loading configurations and the network keeps changing.            *)
(***************************************************************************)
Fairness ==
    /\ WF_vars(OnlyTester(TesterSteps))
    /\ WF_vars(Alive(ReadAllowed))
    /\ WF_vars(Alive(handleTestResults))
    /\ WF_vars(Alive(PassActive))
    /\ \A c \in Configurations : WF_vars(Alive(Applying(c)))
    /\ WF_vars(\E c \in Configurations : Alive(ApplyConfiguration(c)))
    /\ WF_vars(Alive(NetworkChanged))

FairSpec == Spec /\ Fairness

-----------------------------------------------------------------------------
(* Properties. *)

\* A finished round picks the first allowed protocol that was found available,
\* whenever there is one (sortProtocols called from handleTestResults).
PicksFirstAvailable ==
    [][confProtos # None /\ confProtos' = None =>
         LET usable == {i \in DOMAIN confProtos :
                            \E k \in DOMAIN results : results[k].id = confProtos[i] /\ results[k].ok}
         IN  usable # {} =>
               \E i \in usable : best' = confProtos[i] /\ \A j \in usable : i <= j]_vars

\* A completion that has passed c on leaves where it was, as it does when it ends.
Leaves(c) == \E k \in {Passed(c), First(c)} : completions'[k] < completions[k]

\* A protocol that is picked is one the active configuration names, except by who
\* holds what it has read of a configuration that has been replaced since: a round,
\* between reading the allowed list and mLock, or a completion that was overtaken by
\* that of another load.
PickIsConfigured ==
    [][best' # best /\ best' # None =>
         \/ best' \in Range(active.allowed) \cup {active.initial}
         \/ confProtos # None /\ confProtos # active.allowed
         \/ \E c \in Configurations : Leaves(c) /\ c # active]_vars

\* Once there is no best protocol the SDK is off until a configuration is applied:
\* a test round cannot bring it back, whatever it finds, unless it had read the
\* allowed protocols before the best one was lost.
OffUntilConfigured ==
    [][best = None /\ best' # None => (\E c \in Configurations : Leaves(c)) \/ ~readWhileOff]_vars

\* What the log of sortProtocols says ("None of allowed protocols are available",
\* with mBestProtocol set to null): the best protocol is an available one.
BestIsAvailable ==
    best # None /\ available # {} => best \in available

\* The test connection of the protocol on top of the stack ended without an answer:
\* nothing is left to run, and mRunning stays set.
GoneSilent == toTest # <<>> /\ Outstanding = 0

\* Every test round ends, so that later network changes are tested again, unless
\* a test connection of its own ends without telling MockDelegate anything, or an
\* answer too many ends the process.
RoundsEnd == running ~> (~running \/ GoneSilent \/ undefined)

\* The SDK keeps coming back from having no protocol once configurations stop timing
\* out and name protocols that exist, and probes answer and stop failing, as long
\* as configurations are refreshed and the network keeps changing.  Once the server
\* has settled on one it keeps coming back to a protocol which that one allows, so
\* that a list that was overtaken does not stay in force.
Recovers ==
    /\ <>[]~timedOut
    /\ <>[](active # None /\ Range(active.allowed) \subseteq Protocols)
    /\ <>[](~GoneSilent /\ ~undefined /\ \A i \in DOMAIN results : results[i].ok)
    => /\ []<>(best # None)
       /\ \A c \in Configurations : <>[](active = c) => []<>(best \in Range(c.allowed))
=============================================================================
