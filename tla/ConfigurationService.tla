------------------------ MODULE ConfigurationService ------------------------
(***************************************************************************)
(* ConfigurationService with the parts of Model it drives: monitoring of   *)
(* statistics, the statistics timer, and what is kept on disk.             *)
(*                                                                         *)
(* Every load has a session, and so a callback thread, of its own: the     *)
(* completions of two loads interleave, and nothing locks the fields they  *)
(* share.  A completion is cut where a kill or another thread can tell: it *)
(* reads the old ratio, draws and stamps, activates, passes the active     *)
(* configuration on, applies it to the monitoring, schedules the uploads,  *)
(* removes the old file, and writes the new one.  Whether there is a best  *)
(* protocol is decided by the selector (ProtocolSelection) and changes     *)
(* here at any time.                                                       *)
(***************************************************************************)
EXTENDS Integers, FiniteSets

CONSTANTS
    Loads,      \* requests for a configuration that can be in progress
    Published,  \* what the server can publish: [mode, ratio, staleTimeout]
    MaxVersion, \* bound on the configurations published
    MaxTime,    \* bound on the clock, in seconds
    Ticks,      \* how far the clock may move between two events
    None

Modes == {"off", "transport", "report", "transport and report"}

ASSUME ConfigurationServiceAssumption ==
    /\ \A p \in Published : p.mode \in Modes /\ p.ratio \in Int /\ p.staleTimeout \in Nat \ {0}
    /\ MaxVersion \in Nat \ {0} /\ MaxTime \in Nat
    /\ Ticks \subseteq Nat \ {0}
    /\ Loads # {}

VARIABLES
    active,       \* mActiveConfiguration
    lastUpdated,  \* mLastUpdated
    staleOnFlag,  \* mStaleOnFlag
    refreshTimer, \* mConfigurationRefreshTimer is scheduled
    statsTimer,   \* mStatsReportingTimer is scheduled
    monitoring,   \* the statistics handler is monitoring
    haveProtocols,\* the selector has a best protocol
    load,         \* where each load is
    file,         \* the configuration on disk, None when there is no file
    stamp,        \* kTimestampKey on disk
    now,          \* the clock
    server,       \* the configuration the server publishes
    torn          \* history: a save was interrupted, by a kill or another save

memory == <<active, lastUpdated, staleOnFlag, refreshTimer, statsTimer, monitoring, haveProtocols>>
disk == <<file, stamp>>
env == <<now, server>>
vars == <<memory, load, disk, env, torn>>

\* The time stamp of an installation that never loaded a configuration.
Epoch == -(10 * (MaxTime + 1))

Empty_NoTimeout == [version |-> 0, mode |-> "off", ratio |-> 0, staleTimeout |-> -1,
                    abMode |-> FALSE, at |-> Epoch]

\* configurationFromNSDictionary of an empty dictionary.  version and at are
\* history: which configuration of the server it is and when it was received.
Empty == [version |-> 0, mode |-> "off", ratio |-> 0, staleTimeout |-> 0,
          abMode |-> FALSE, at |-> Epoch]

\* mStaleConfiguration: made by the constructor of Configuration.
StaleConfiguration == [Empty EXCEPT !.ratio = -1]

Ratios == {-1, 0} \cup {p.ratio : p \in Published}

Configurations ==
    [version : 0..MaxVersion, mode : Modes, ratio : Ratios,
     staleTimeout : {0} \cup {p.staleTimeout : p \in Published},
     abMode : BOOLEAN, at : {Epoch} \cup 0..MaxTime]

ASSUME NoneAssumption == None \notin Configurations

Parsed(p, n) == [Empty EXCEPT !.version = n, !.mode = p.mode, !.ratio = p.ratio,
                              !.staleTimeout = p.staleTimeout]

\* The steps of a completion: what it holds is the configuration it was given, the old
\* ratio it has read, and whether the configuration it has passed on reports.
UnsavedSteps == {"stamped", "activated", "passed", "applied", "saving"}

LoadStates ==
    [step : {"idle", "sent"}]
        \cup [step : ({"answered"} \cup UnsavedSteps) \ {"passed"}, conf : Configurations]
        \cup [step : {"read"}, conf : Configurations, ratio : Ratios]
        \cup [step : {"passed"}, conf : Configurations, reports : BOOLEAN]

TypeOK ==
    /\ active \in Configurations
    /\ lastUpdated \in {Epoch} \cup 0..MaxTime
    /\ {staleOnFlag, refreshTimer, statsTimer, monitoring, haveProtocols, torn} \subseteq BOOLEAN
    /\ load \in [Loads -> LoadStates]
    /\ file \in Configurations \cup {None}
    /\ stamp \in {Epoch} \cup 0..MaxTime
    /\ now \in 0..MaxTime
    /\ server \in Configurations

Idle == [step |-> "idle"]
Sent == [step |-> "sent"]

\* The completion of a load that has stamped but not written its configuration yet.
Unsaved(l) == load[l].step \in UnsavedSteps

Reporting(mode) == mode \in {"report", "transport and report"}

isTimedOut_Late(conf, last) == conf.staleTimeout < now - last - 1

isTimedOut(conf, last) == conf.staleTimeout < now - last

isStale == isTimedOut(active, lastUpdated) \/ ~haveProtocols

-----------------------------------------------------------------------------
\* First launch: nothing on disk, and Model::initialize asks for a configuration.
Init ==
    /\ active = Empty
    /\ lastUpdated = Epoch
    /\ staleOnFlag = FALSE
    /\ refreshTimer = FALSE
    /\ statsTimer = FALSE
    /\ monitoring = FALSE
    /\ haveProtocols = FALSE
    /\ \E first \in Loads : load = [l \in Loads |-> IF l = first THEN Sent ELSE Idle]
    /\ file = None
    /\ stamp = Epoch
    /\ now = 0
    /\ server \in {Parsed(p, 1) : p \in Published}
    /\ torn = FALSE

\* getActive: the first read of a stale configuration stops the monitoring.
getActive ==
    /\ staleOnFlag' = (staleOnFlag \/ isStale)
    /\ monitoring' = (monitoring /\ ~(isStale /\ ~staleOnFlag))

\* Any of the getters of Model.
Read ==
    /\ getActive
    /\ UNCHANGED <<active, lastUpdated, refreshTimer, statsTimer, haveProtocols, load, disk, env, torn>>

\* The refresh timer fires.
loadConfiguration(l) ==
    /\ refreshTimer
    /\ load[l] = Idle
    /\ load' = [load EXCEPT ![l] = Sent]
    /\ UNCHANGED <<memory, disk, env, torn>>

\* The server answers with what it publishes now.
ServerAnswers(l) ==
    /\ load[l] = Sent
    /\ load' = [load EXCEPT ![l] = [step |-> "answered", conf |-> server]]
    /\ UNCHANGED <<memory, disk, env, torn>>

\* The request fails, or its data does not validate: nothing changes but for the read
\* of the edge host on the way.
LoadFailed(l) ==
    /\ load[l] = Sent
    /\ getActive
    /\ load' = [load EXCEPT ![l] = Idle]
    /\ UNCHANGED <<active, lastUpdated, refreshTimer, statsTimer, haveProtocols, disk, env, torn>>

-----------------------------------------------------------------------------
\* What drawing can give: ratio > rand() % 100, and always for 100.
Draws(conf) ==
    {c \in {[conf EXCEPT !.abMode = TRUE, !.mode = "report"], [conf EXCEPT !.abMode = FALSE]} :
        IF c.abMode THEN conf.ratio > 0 ELSE conf.ratio < 100}

Lottery_Redraws(ratio, mode, conf) == Draws(conf)

\* The A/B lottery: drawn when the ratio differs from the one that was read.
Lottery(ratio, mode, conf) ==
    IF ratio # conf.ratio THEN Draws(conf) ELSE {[conf EXCEPT !.abMode = mode]}

scheduleStatsReporting_KeepsTimer(mode) == statsTimer \/ Reporting(mode)

\* scheduleStatsReporting for the mode that getActive returns.
scheduleStatsReporting(mode) == Reporting(mode)

\* What getActive returns.
Active == IF isStale THEN StaleConfiguration ELSE active

At(l, step, conf) == load' = [load EXCEPT ![l] = [step |-> step, conf |-> conf]]

\* The completion of a valid load resets mStaleOnFlag and reads the old ratio, by a
\* getter that sets the flag again if the old configuration is stale.
ReadRatio(l) ==
    /\ load[l].step = "answered"
    /\ load' = [load EXCEPT ![l] = [step |-> "read", conf |-> @.conf, ratio |-> Active.ratio]]
    /\ staleOnFlag' = isStale
    /\ monitoring' = (monitoring /\ ~isStale)
    /\ UNCHANGED <<active, lastUpdated, refreshTimer, statsTimer, haveProtocols, disk, env, torn>>

\* The old A/B mode is read, by another call of getActive; the lottery, which is local,
\* and the time stamp, in memory and on disk.
DrawAndStamp(l) ==
    /\ load[l].step = "read"
    /\ \E conf \in Lottery(load[l].ratio, Active.abMode, load[l].conf) :
          At(l, "stamped", [conf EXCEPT !.at = now])
    /\ lastUpdated' = now
    /\ stamp' = now
    /\ torn' = (torn \/ \E m \in Loads : Unsaved(m))
    /\ getActive
    /\ UNCHANGED <<active, refreshTimer, statsTimer, haveProtocols, file, env>>

\* The new configuration is active.
Activate(l) ==
    /\ load[l].step = "stamped"
    /\ active' = load[l].conf
    /\ At(l, "activated", load[l].conf)
    /\ UNCHANGED <<lastUpdated, staleOnFlag, refreshTimer, statsTimer, monitoring, haveProtocols,
                   disk, env, torn>>

\* The argument of applyConfiguration: mActiveConfiguration is read again, and may be
\* what another completion has made active.
PassActive(l) ==
    /\ load[l].step = "activated"
    /\ load' = [load EXCEPT ![l] = [step |-> "passed", conf |-> @.conf,
                                    reports |-> Reporting(active.mode)]]
    /\ UNCHANGED <<memory, disk, env, torn>>

\* applyConfiguration: the monitoring follows what was passed.
ApplyConfiguration(l) ==
    /\ load[l].step = "passed"
    /\ monitoring' = load[l].reports
    /\ At(l, "applied", load[l].conf)
    /\ UNCHANGED <<active, lastUpdated, staleOnFlag, refreshTimer, statsTimer, haveProtocols,
                   disk, env, torn>>

\* scheduleStatsReporting, which calls getActive; and saveConfiguration, which removes
\* the old file first (canWriteToPath): a kill in between leaves what a kill before both
\* leaves, so they are one step.
ScheduleStats(l) ==
    /\ load[l].step = "applied"
    /\ statsTimer' = scheduleStatsReporting(Active.mode)
    /\ getActive
    /\ file' = None
    /\ At(l, "saving", load[l].conf)
    /\ UNCHANGED <<active, lastUpdated, refreshTimer, haveProtocols, stamp, env, torn>>

WriteFile_NoTimer(l) ==
    /\ load[l].step = "saving"
    /\ file' = load[l].conf
    /\ load' = [load EXCEPT ![l] = Idle]
    /\ UNCHANGED <<memory, stamp, env, torn>>

\* The write, and the refresh timer scheduled again.
WriteFile(l) ==
    /\ load[l].step = "saving"
    /\ file' = load[l].conf
    /\ refreshTimer' = TRUE
    /\ load' = [load EXCEPT ![l] = Idle]
    /\ UNCHANGED <<active, lastUpdated, staleOnFlag, statsTimer, monitoring, haveProtocols, stamp, env, torn>>

-----------------------------------------------------------------------------
\* data_storage::configuration
Restored == IF file = None THEN Empty ELSE file

\* The process is killed and started again: the constructor restores configuration
\* and time stamp and applies them unless they are too old; then Model::initialize
\* asks for a configuration.
Relaunch ==
    /\ active' = Restored
    /\ lastUpdated' = stamp
    /\ staleOnFlag' = FALSE
    /\ statsTimer' = FALSE
    /\ refreshTimer' = (file # None)
    /\ IF isTimedOut(Restored, stamp)
       THEN monitoring' = FALSE /\ haveProtocols' = FALSE
       ELSE monitoring' = Reporting(Restored.mode) /\ haveProtocols' \in BOOLEAN
    /\ \E first \in Loads : load' = [l \in Loads |-> IF l = first THEN Sent ELSE Idle]
    /\ torn' = (torn \/ \E l \in Loads : Unsaved(l))
    /\ UNCHANGED <<disk, now, server>>

\* The selector finds or loses its best protocol.
ProtocolsChange ==
    /\ haveProtocols' = ~haveProtocols
    /\ UNCHANGED <<active, lastUpdated, staleOnFlag, refreshTimer, statsTimer, monitoring,
                   load, disk, env, torn>>

Tick ==
    /\ \E d \in Ticks : now' = now + d
    /\ now' <= MaxTime
    /\ UNCHANGED <<memory, load, disk, server, torn>>

\* The server publishes another configuration.
ServerPublishes(p) ==
    /\ server.version < MaxVersion
    /\ server # Parsed(p, server.version)
    /\ server' = Parsed(p, server.version + 1)
    /\ UNCHANGED <<memory, load, disk, now, torn>>

\* The completion of a valid load.
Completion(l) ==
    \/ ReadRatio(l) \/ DrawAndStamp(l) \/ Activate(l) \/ PassActive(l) \/ ApplyConfiguration(l)
    \/ ScheduleStats(l) \/ WriteFile(l)

Next ==
    \/ Read
    \/ \E l \in Loads : loadConfiguration(l) \/ ServerAnswers(l) \/ LoadFailed(l) \/ Completion(l)
    \/ Relaunch
    \/ ProtocolsChange
    \/ Tick
    \/ \E p \in Published : ServerPublishes(p)

Spec == Init /\ [][Next]_vars

(***************************************************************************)
(* Fairness: the timer fires again and again, every request ends, the      *)
(* callback threads progress, and not every request fails.                 *)
(***************************************************************************)
Fairness ==
    \A l \in Loads :
        /\ WF_vars(loadConfiguration(l))
        /\ SF_vars(ServerAnswers(l))
        /\ WF_vars(Completion(l))

FairSpec == Spec /\ Fairness

-----------------------------------------------------------------------------
(* Properties. *)

\* What the comment on the lottery says ("set mode ""report only"""): a device that
\* is in the A/B group reports only.
ABReportsOnly == active.abMode => active.mode = "report"

\* What the log of getActive says ("stale or no protocols available, OFF MODE"): a
\* read that falls back to the stale configuration leaves nothing monitored.  It
\* stops the monitoring itself, unless mStaleOnFlag says that this was done.
StaleStopsMonitoring == isStale /\ staleOnFlag => ~monitoring

\* A configuration that does not count as timed out was received at most its
\* staleTimeout ago, also after relaunches, but for two windows: a completion has
\* written the time stamp and not made its configuration active, or a save was
\* interrupted, the time stamp being on disk before the configuration it belongs to.
TrustedIsFresh ==
    \/ isTimedOut(active, lastUpdated)
    \/ \E l \in Loads : load[l].step = "stamped"
    \/ torn
    \/ now - active.at <= active.staleTimeout

\* The reason: unless a save was interrupted, the active configuration was received
\* at the time stamp, and so was the one completion still to save, or else the file.
StampBelongs ==
    /\ lastUpdated = stamp
    /\ ~torn =>
          /\ (\A l \in Loads : load[l].step # "stamped") => active.at = stamp
          /\ \A l, m \in Loads : Unsaved(l) /\ Unsaved(m) => l = m
          /\ \A l \in Loads : Unsaved(l) => load[l].conf.at = stamp
          /\ (\A l \in Loads : ~Unsaved(l)) => Restored.at = stamp

\* A process that waits for no answer and has no refresh timer, so that it will
\* never ask again, is one that has no configuration: its first request failed and
\* nothing was on disk.
StrandedOnlyUnconfigured ==
    ~refreshTimer /\ (\A l \in Loads : load[l] = Idle) => active = Empty

\* The process is not killed again and again.
KeepsRunning == <>[][~Relaunch]_vars

\* Answers applied out of order, failures and periods without protocols heal: once
\* the timer runs and the server stops changing, its last configuration stays
\* active, and with a protocol at hand the upload timer follows its mode.
Converges ==
    KeepsRunning /\ <>[]refreshTimer /\ <>[]haveProtocols =>
        <>[](active.version = server.version /\ statsTimer = Reporting(active.mode))

\* The completion of a valid load, from its first read on.
Completing(l) == load[l].step \in {"read"} \cup UnsavedSteps

\* The A/B group of a device settles: once the timer runs, the configuration stays
\* trusted and completions no longer overlap, refreshes do not move the device
\* between the groups, although they read its group and draw without a lock.
LotterySettles ==
    /\ KeepsRunning
    /\ <>[]refreshTimer
    /\ <>[]~isStale
    /\ <>[](\A l, m \in Loads : Completing(l) /\ Completing(m) => l = m)
    => <>[]active.abMode \/ <>[]~active.abMode
=============================================================================
