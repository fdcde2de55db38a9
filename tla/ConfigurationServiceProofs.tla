--------------------- MODULE ConfigurationServiceProofs ---------------------
(***************************************************************************)
(* Proofs about ConfigurationService, for any number of loads in progress, *)
(* any configurations, and any number of refreshes and relaunches.         *)
(***************************************************************************)
EXTENDS ConfigurationService, TLAPS

-----------------------------------------------------------------------------
(* Type correctness. *)

\* Epoch is before every time of the clock.
LEMMA TimeFacts ==
    /\ Epoch \in Int /\ Epoch < 0
    /\ 0 \in 0..MaxTime
    /\ \A n \in 0..MaxTime : n \in Int /\ n >= 0
BY ConfigurationServiceAssumption DEF Epoch

\* The configuration of a new installation.
LEMMA EmptyFacts ==
    /\ Empty \in Configurations
    /\ Empty.at = Epoch /\ Empty.ratio = 0 /\ Empty.abMode = FALSE
<1>1. 0 \in 0..MaxVersion
  BY ConfigurationServiceAssumption
<1>2. "off" \in Modes
  BY DEF Modes
<1> QED BY <1>1, <1>2 DEF Empty, Configurations, Ratios

\* What configurationFromNSDictionary makes of a published configuration.
LEMMA ParsedFacts ==
    ASSUME NEW p \in Published, NEW n \in 0..MaxVersion
    PROVE  Parsed(p, n) \in Configurations /\ Parsed(p, n).version = n
<1>1. p.mode \in Modes /\ 0 \in 0..MaxVersion
  BY ConfigurationServiceAssumption
<1> QED BY <1>1 DEF Parsed, Empty, Configurations, Ratios

\* The lottery changes the group, and the mode of those it puts into the A/B group.
LEMMA LotteryFacts ==
    ASSUME NEW ratio, NEW mode \in BOOLEAN, NEW conf \in Configurations,
           NEW c \in Lottery(ratio, mode, conf)
    PROVE  c \in Configurations
<1>1. conf \in [version : 0..MaxVersion, mode : Modes, ratio : Ratios,
                staleTimeout : {0} \cup {p.staleTimeout : p \in Published},
                abMode : BOOLEAN, at : {Epoch} \cup 0..MaxTime]
  BY DEF Configurations
<1>2. \/ c = [conf EXCEPT !.abMode = TRUE, !.mode = "report"]
      \/ c = [conf EXCEPT !.abMode = FALSE]
      \/ c = [conf EXCEPT !.abMode = mode]
  BY DEF Lottery, Draws
<1>3. "report" \in Modes
  BY DEF Modes
<1> HIDE DEF Modes
<1> QED BY <1>1, <1>2, <1>3 DEF Configurations

\* What getActive returns.
LEMMA ActiveFacts ==
    ASSUME TypeOK
    PROVE  Active.ratio \in Ratios /\ Active.abMode \in BOOLEAN
<1>1. active.ratio \in Ratios /\ active.abMode \in BOOLEAN
  BY DEF TypeOK, Configurations
<1>2. StaleConfiguration.ratio = -1 /\ StaleConfiguration.abMode = FALSE
  BY DEF StaleConfiguration, Empty
<1> QED BY <1>1, <1>2 DEF Active, Ratios

\* Whether a mode reports is a Boolean.
LEMMA ReportingFacts ==
    ASSUME NEW mode
    PROVE  Reporting(mode) \in BOOLEAN
BY DEF Reporting

\* The first launch.
LEMMA InitTypeOK == Init => TypeOK
<1> SUFFICES ASSUME Init PROVE TypeOK
  OBVIOUS
<1>1. server \in Configurations
  <2>1. 1 \in 0..MaxVersion
    BY ConfigurationServiceAssumption
  <2> QED BY <2>1, ParsedFacts DEF Init
<1>2. load \in [Loads -> LoadStates]
  BY DEF Init, LoadStates, Sent, Idle
<1> QED BY <1>1, <1>2, EmptyFacts, TimeFacts DEF Init, TypeOK

\* What is known of a load by its step.
LEMMA LoadFacts ==
    ASSUME TypeOK, NEW l \in Loads
    PROVE  /\ load[l].step \in {"answered", "read"} \cup UnsavedSteps => load[l].conf \in Configurations
           /\ load[l].step = "passed" => load[l].reports \in BOOLEAN
           /\ load[l].step = "read" => load[l].ratio \in Ratios
<1>1. load[l] \in LoadStates
  BY DEF TypeOK
<1> QED BY <1>1 DEF LoadStates, UnsavedSteps

\* A completion that goes on to another step with a configuration.
LEMMA AtFacts ==
    ASSUME TypeOK, NEW l \in Loads, NEW conf \in Configurations,
           NEW step \in {"stamped", "activated", "applied", "saving"}, At(l, step, conf)
    PROVE  /\ load' \in [Loads -> LoadStates]
           /\ load'[l].step = step /\ load'[l].conf = conf
           /\ \A m \in Loads \ {l} : load'[m] = load[m]
<1>1. [step |-> step, conf |-> conf] \in LoadStates
  BY DEF LoadStates, UnsavedSteps
<1>2. load \in [Loads -> LoadStates] /\ load' = [load EXCEPT ![l] = [step |-> step, conf |-> conf]]
  BY DEF TypeOK, At
<1> QED BY <1>1, <1>2

\* The lottery and the time stamp: the configuration it goes on with was received now.
LEMMA DrawFacts ==
    ASSUME TypeOK, NEW l \in Loads, DrawAndStamp(l)
    PROVE  /\ load' \in [Loads -> LoadStates]
           /\ load'[l].step = "stamped" /\ load'[l].conf.at = now
           /\ \A m \in Loads \ {l} : load'[m] = load[m]
<1>1. PICK c \in Lottery(load[l].ratio, Active.abMode, load[l].conf) :
         At(l, "stamped", [c EXCEPT !.at = now])
  BY DEF DrawAndStamp
<1>2. c \in Configurations
  BY <1>1, LoadFacts, LotteryFacts, ActiveFacts DEF DrawAndStamp
<1>3. [c EXCEPT !.at = now] \in Configurations /\ [c EXCEPT !.at = now].at = now
  BY <1>2 DEF TypeOK, Configurations
<1> QED BY <1>1, <1>3, AtFacts

\* The steps between the time stamp and the save keep the configuration.
LEMMA KeepFacts ==
    ASSUME TypeOK, NEW l \in Loads,
           Activate(l) \/ PassActive(l) \/ ApplyConfiguration(l) \/ ScheduleStats(l)
    PROVE  /\ load' \in [Loads -> LoadStates]
           /\ Unsaved(l) /\ Unsaved(l)' /\ load'[l].step # "stamped"
           /\ load'[l].conf = load[l].conf
           /\ \A m \in Loads \ {l} : load'[m] = load[m]
<1>1. Unsaved(l) /\ load[l].conf \in Configurations
  BY LoadFacts DEF Activate, PassActive, ApplyConfiguration, ScheduleStats, Unsaved, UnsavedSteps
<1>2. CASE Activate(l)
  BY <1>1, <1>2, AtFacts DEF Activate, Unsaved, UnsavedSteps
<1>3. CASE PassActive(l)
  <2> DEFINE reports == Reporting(active.mode)
             next == [step |-> "passed", conf |-> load[l].conf, reports |-> reports]
  <2>1. reports \in BOOLEAN
    BY ReportingFacts
  <2>2. load' = [load EXCEPT ![l] = next]
    BY <1>3 DEF PassActive
  <2> HIDE DEF reports
  <2>3. next \in LoadStates /\ next.step = "passed" /\ next.conf = load[l].conf
    BY <1>1, <2>1 DEF LoadStates
  <2> HIDE DEF next
  <2> QED BY <1>1, <2>2, <2>3 DEF TypeOK, Unsaved, UnsavedSteps
<1>4. CASE ApplyConfiguration(l)
  BY <1>1, <1>4, AtFacts DEF ApplyConfiguration, Unsaved, UnsavedSteps
<1>5. CASE ScheduleStats(l)
  BY <1>1, <1>5, AtFacts DEF ScheduleStats, Unsaved, UnsavedSteps
<1> QED BY <1>2, <1>3, <1>4, <1>5

\* Every step keeps the types.
LEMMA TypeStep ==
    ASSUME TypeOK, [Next]_vars
    PROVE  TypeOK'
<1> USE DEF TypeOK
<1>1. CASE Read
  BY <1>1 DEF Read, getActive, disk, env
<1>2. ASSUME NEW l \in Loads, loadConfiguration(l) PROVE TypeOK'
  BY <1>2 DEF loadConfiguration, memory, disk, env, Sent, LoadStates
<1>3. ASSUME NEW l \in Loads, ServerAnswers(l) PROVE TypeOK'
  BY <1>3 DEF ServerAnswers, memory, disk, env, LoadStates
<1>4. ASSUME NEW l \in Loads, LoadFailed(l) PROVE TypeOK'
  BY <1>4 DEF LoadFailed, getActive, disk, env, LoadStates, Idle
<1>5. ASSUME NEW l \in Loads, ReadRatio(l) PROVE TypeOK'
  <2>1. load' \in [Loads -> LoadStates]
    BY <1>5, LoadFacts, ActiveFacts DEF ReadRatio, LoadStates
  <2>2. staleOnFlag' = isStale /\ monitoring' = (monitoring /\ ~isStale)
    BY <1>5 DEF ReadRatio
  <2>3. staleOnFlag' \in BOOLEAN
    BY <2>2 DEF isStale
  <2>4. monitoring' \in BOOLEAN
    BY <2>2
  <2> QED BY <1>5, <2>1, <2>3, <2>4 DEF ReadRatio, disk, env
<1>6. ASSUME NEW l \in Loads, DrawAndStamp(l) PROVE TypeOK'
  BY <1>6, DrawFacts DEF DrawAndStamp, getActive, env
<1>7. ASSUME NEW l \in Loads, Activate(l) PROVE TypeOK'
  BY <1>7, KeepFacts, LoadFacts DEF Activate, disk, env, UnsavedSteps
<1>8. ASSUME NEW l \in Loads,
             PassActive(l) \/ ApplyConfiguration(l) \/ ScheduleStats(l) \/ WriteFile(l)
      PROVE  TypeOK'
  <2>1. CASE PassActive(l)
    BY <2>1, KeepFacts DEF PassActive, memory, disk, env
  <2>2. CASE ApplyConfiguration(l)
    BY <2>2, KeepFacts, LoadFacts DEF ApplyConfiguration, disk, env
  <2>3. CASE ScheduleStats(l)
    <3>1. statsTimer' \in BOOLEAN
      BY <2>3, ReportingFacts DEF ScheduleStats, scheduleStatsReporting
    <3> QED BY <2>3, <3>1, KeepFacts DEF ScheduleStats, getActive, env
  <2>4. CASE WriteFile(l)
    BY <2>4, LoadFacts DEF WriteFile, env, LoadStates, Idle, UnsavedSteps
  <2> QED BY <1>8, <2>1, <2>2, <2>3, <2>4
<1>9. CASE Relaunch
  <2>1. active' \in Configurations /\ lastUpdated' \in {Epoch} \cup 0..MaxTime
    BY <1>9, EmptyFacts DEF Relaunch, Restored
  <2>2. load' \in [Loads -> LoadStates]
    BY <1>9 DEF Relaunch, LoadStates, Sent, Idle
  <2>3. /\ staleOnFlag' \in BOOLEAN /\ monitoring' \in BOOLEAN /\ haveProtocols' \in BOOLEAN
        /\ statsTimer' \in BOOLEAN /\ refreshTimer' \in BOOLEAN /\ torn' \in BOOLEAN
    <3>1. /\ staleOnFlag' = FALSE /\ statsTimer' = FALSE /\ refreshTimer' = (file # None)
          /\ monitoring' = FALSE \/ monitoring' = Reporting(Restored.mode)
          /\ haveProtocols' \in BOOLEAN
          /\ torn' = (torn \/ \E l \in Loads : Unsaved(l))
      BY <1>9 DEF Relaunch
    <3>2. monitoring' \in BOOLEAN
      BY <3>1, ReportingFacts
    <3>3. refreshTimer' \in BOOLEAN
      BY <3>1
    <3>4. torn' \in BOOLEAN
      BY <3>1
    <3> QED BY <3>1, <3>2, <3>3, <3>4
  <2> QED BY <1>9, <2>1, <2>2, <2>3 DEF Relaunch, disk
<1>10. CASE ProtocolsChange
  BY <1>10 DEF ProtocolsChange, disk, env
<1>11. CASE Tick
  <2>1. now' \in 0..MaxTime
    BY <1>11, ConfigurationServiceAssumption DEF Tick
  <2> QED BY <1>11, <2>1 DEF Tick, memory, disk
<1>12. ASSUME NEW p \in Published, ServerPublishes(p) PROVE TypeOK'
  <2>1. server.version + 1 \in 0..MaxVersion
    BY <1>12, ConfigurationServiceAssumption DEF ServerPublishes, Configurations
  <2>2. server' \in Configurations
    BY <1>12, <2>1, ParsedFacts DEF ServerPublishes
  <2> QED BY <1>12, <2>2 DEF ServerPublishes, memory, disk
<1>13. CASE UNCHANGED vars
  BY <1>13 DEF vars, memory, disk, env
<1> QED BY <1>1, <1>2, <1>3, <1>4, <1>5, <1>6, <1>7, <1>8, <1>9, <1>10, <1>11, <1>12, <1>13
        DEF Next, Completion

\* The state of ConfigurationService and of what it saves keeps its type, whatever is
\* loaded, drawn, saved or restored.
THEOREM TypeCorrect == Spec => []TypeOK
BY InitTypeOK, TypeStep, PTL DEF Spec
-----------------------------------------------------------------------------
(* What a time stamp on disk says of the configuration. *)

\* A new installation has neither configuration nor time stamp.
LEMMA StampInit == Init => StampBelongs
<1> SUFFICES ASSUME Init PROVE StampBelongs
  OBVIOUS
<1>1. \A l \in Loads : ~Unsaved(l)
  BY DEF Init, Unsaved, UnsavedSteps, Sent, Idle
<1> QED BY <1>1, EmptyFacts DEF Init, StampBelongs, Restored

\* StampBelongs is inductive.
LEMMA StampStep ==
    ASSUME TypeOK, StampBelongs, [Next]_vars
    PROVE  StampBelongs'
<1> DEFINE Stamped(l) == load[l].step = "stamped"
           Same == /\ UNCHANGED <<active, lastUpdated, stamp, file, torn>>
                   /\ \A l \in Loads : /\ Unsaved(l)' = Unsaved(l)
                                       /\ Stamped(l)' = Stamped(l)
                                       /\ (Unsaved(l) => load'[l].conf = load[l].conf)
<1>1. Same => StampBelongs'
  BY DEF StampBelongs, Restored
<1>2. CASE Read \/ ProtocolsChange \/ Tick \/ UNCHANGED vars
  BY <1>1, <1>2 DEF Read, ProtocolsChange, Tick, vars, memory, disk, env, Unsaved
<1>3. ASSUME NEW p \in Published, ServerPublishes(p) PROVE StampBelongs'
  BY <1>1, <1>3 DEF ServerPublishes, memory, disk, Unsaved
<1>4. ASSUME NEW l \in Loads,
             loadConfiguration(l) \/ ServerAnswers(l) \/ LoadFailed(l) \/ ReadRatio(l)
      PROVE  StampBelongs'
  <2>1. /\ UNCHANGED <<active, lastUpdated, stamp, file, torn>>
        /\ ~Unsaved(l) /\ ~Unsaved(l)'
        /\ \A m \in Loads \ {l} : load'[m] = load[m]
    BY <1>4 DEF loadConfiguration, ServerAnswers, LoadFailed, ReadRatio, memory, disk,
                Unsaved, UnsavedSteps, Idle, Sent, TypeOK
  <2>2. Same
    BY <2>1 DEF Unsaved, UnsavedSteps
  <2> QED BY <1>1, <2>2
<1>5. ASSUME NEW l \in Loads, DrawAndStamp(l) PROVE StampBelongs'
  <2>1. /\ lastUpdated' = now /\ stamp' = now
        /\ torn' = (torn \/ \E m \in Loads : Unsaved(m))
    BY <1>5 DEF DrawAndStamp
  <2>2. /\ load'[l].step = "stamped" /\ load'[l].conf.at = now
        /\ \A m \in Loads \ {l} : load'[m] = load[m]
    BY <1>5, DrawFacts
  <2>3. Unsaved(l)' /\ \A m \in Loads \ {l} : Unsaved(m)' => torn'
    BY <2>1, <2>2 DEF Unsaved, UnsavedSteps
  <2> QED BY <2>1, <2>2, <2>3 DEF StampBelongs
<1>6. ASSUME NEW l \in Loads,
             Activate(l) \/ PassActive(l) \/ ApplyConfiguration(l) \/ ScheduleStats(l)
      PROVE  StampBelongs'
  <2>1. /\ Unsaved(l) /\ Unsaved(l)' /\ ~Stamped(l)'
        /\ load'[l].conf = load[l].conf
        /\ \A m \in Loads \ {l} : load'[m] = load[m]
    BY <1>6, KeepFacts
  <2>2. UNCHANGED <<lastUpdated, stamp, torn>>
    BY <1>6 DEF Activate, PassActive, ApplyConfiguration, ScheduleStats, memory, disk
  <2>3. \A m \in Loads : Unsaved(m)' = Unsaved(m) /\ load'[m].conf = load[m].conf
    BY <2>1 DEF Unsaved
  <2>4. ASSUME ~torn, \A m \in Loads : ~Stamped(m)' PROVE active'.at = stamp
    <3>1. CASE Activate(l)
      BY <2>1, <2>4, <3>1 DEF Activate, StampBelongs
    <3>2. CASE ~Activate(l)
      <4>1. active' = active /\ ~Stamped(l)
        BY <1>6, <3>2 DEF PassActive, ApplyConfiguration, ScheduleStats, memory
      <4>2. \A m \in Loads : ~Stamped(m)
        BY <2>1, <2>4, <4>1
      <4> QED BY <2>4, <4>1, <4>2 DEF StampBelongs
    <3> QED BY <3>1, <3>2
  <2> QED BY <2>1, <2>2, <2>3, <2>4 DEF StampBelongs
<1>7. ASSUME NEW l \in Loads, WriteFile(l) PROVE StampBelongs'
  <2>1. /\ Unsaved(l) /\ load[l].conf \in Configurations /\ file' = load[l].conf
        /\ ~Stamped(l)
        /\ UNCHANGED <<active, lastUpdated, stamp, torn>>
    BY <1>7, LoadFacts DEF WriteFile, Unsaved, UnsavedSteps
  <2>2. /\ ~Unsaved(l)'
        /\ \A m \in Loads \ {l} : load'[m] = load[m] /\ Unsaved(m)' = Unsaved(m)
    BY <1>7 DEF WriteFile, TypeOK, Unsaved, UnsavedSteps, Idle
  <2>3. Restored' = load[l].conf
    BY <2>1, NoneAssumption DEF Restored
  <2>4. (\A m \in Loads : ~Stamped(m)') => \A m \in Loads : ~Stamped(m)
    BY <2>1, <2>2
  <2> QED BY <2>1, <2>2, <2>3, <2>4 DEF StampBelongs
<1>8. CASE Relaunch
  <2>1. /\ active' = Restored /\ lastUpdated' = stamp /\ UNCHANGED <<file, stamp>>
        /\ torn' = (torn \/ \E l \in Loads : Unsaved(l))
    BY <1>8 DEF Relaunch, disk
  <2>2. \A l \in Loads : ~Unsaved(l)'
    BY <1>8 DEF Relaunch, Unsaved, UnsavedSteps, Sent, Idle
  <2> QED BY <2>1, <2>2 DEF StampBelongs, Restored
<1> QED BY <1>2, <1>3, <1>4, <1>5, <1>6, <1>7, <1>8 DEF Next, Completion

\* Unless a save was interrupted, the time stamp on disk is that of the configuration
\* that is active, or of the one completion that is to activate or save its own, and of
\* the one that a relaunch will find.
THEOREM StampBelongsCorrect == Spec => []StampBelongs
BY StampInit, StampStep, TypeCorrect, PTL DEF Spec

\* A configuration is trusted at most its staleTimeout after it was received, also by
\* processes that restore it (ConfigurationService::isTimedOut), unless a save of it
\* was interrupted or its time stamp was written before it became active.
THEOREM TrustedIsFreshCorrect == Spec => []TrustedIsFresh
<1>1. TypeOK /\ StampBelongs => TrustedIsFresh
  <2> SUFFICES ASSUME TypeOK, StampBelongs, ~isTimedOut(active, lastUpdated), ~torn,
                      \A l \in Loads : load[l].step # "stamped"
               PROVE  now - active.at <= active.staleTimeout
    BY DEF TrustedIsFresh
  <2>1. active.at = lastUpdated
    BY DEF StampBelongs
  <2>2. active.staleTimeout \in Int /\ lastUpdated \in Int /\ now \in Int
    BY ConfigurationServiceAssumption, TimeFacts DEF TypeOK, Configurations
  <2> QED BY <2>1, <2>2 DEF isTimedOut
<1> QED BY <1>1, TypeCorrect, StampBelongsCorrect, PTL

-----------------------------------------------------------------------------
(* When nobody will ask again. *)

\* Without a refresh timer there is no configuration, or its save will start the timer.
TimerComes == refreshTimer \/ active = Empty \/ \E l \in Loads : Unsaved(l)

\* TimerComes is inductive.
LEMMA TimerStep ==
    ASSUME TypeOK, TimerComes, [Next]_vars
    PROVE  TimerComes'
<1>1. CASE Read \/ ProtocolsChange \/ Tick \/ UNCHANGED vars
  BY <1>1 DEF Read, ProtocolsChange, Tick, vars, memory, Unsaved, TimerComes
<1>2. ASSUME NEW p \in Published, ServerPublishes(p) PROVE TimerComes'
  BY <1>2 DEF ServerPublishes, memory, Unsaved, TimerComes
<1>3. ASSUME NEW l \in Loads,
             loadConfiguration(l) \/ ServerAnswers(l) \/ LoadFailed(l) \/ ReadRatio(l)
      PROVE  TimerComes'
  <2>1. /\ UNCHANGED <<active, refreshTimer>> /\ ~Unsaved(l)
        /\ \A m \in Loads \ {l} : load'[m] = load[m]
    BY <1>3 DEF loadConfiguration, ServerAnswers, LoadFailed, ReadRatio, memory,
                Unsaved, UnsavedSteps, Idle, Sent, TypeOK
  <2> QED BY <2>1 DEF TimerComes, Unsaved
<1>4. ASSUME NEW l \in Loads, DrawAndStamp(l) PROVE TimerComes'
  <2>1. load'[l].step = "stamped"
    BY <1>4, DrawFacts
  <2> QED BY <2>1 DEF TimerComes, Unsaved, UnsavedSteps
<1>5. ASSUME NEW l \in Loads,
             Activate(l) \/ PassActive(l) \/ ApplyConfiguration(l) \/ ScheduleStats(l)
      PROVE  TimerComes'
  BY <1>5, KeepFacts DEF TimerComes
<1>6. ASSUME NEW l \in Loads, WriteFile(l) PROVE TimerComes'
  BY <1>6 DEF WriteFile, TimerComes
<1>7. CASE Relaunch
  BY <1>7 DEF Relaunch, Restored, TimerComes
<1> QED BY <1>1, <1>2, <1>3, <1>4, <1>5, <1>6, <1>7 DEF Next, Completion

\* The SDK stops asking for configurations only where it has none: the refresh timer
\* is missing only before the first save (ConfigurationService::init and
\* loadConfiguration).
THEOREM StrandedOnlyUnconfiguredCorrect == Spec => []StrandedOnlyUnconfigured
<1>1. Init => TimerComes
  BY DEF Init, TimerComes
<1>2. TimerComes => StrandedOnlyUnconfigured
  BY DEF TimerComes, StrandedOnlyUnconfigured, Unsaved, UnsavedSteps, Idle
<1> QED BY <1>1, <1>2, TimerStep, TypeCorrect, PTL DEF Spec
=============================================================================
