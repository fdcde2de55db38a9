----------------------------- MODULE StatsEvents -----------------------------
(***************************************************************************)
(* The events of the SDK (Model::addEvent, data_storage::addEvent), which  *)
(* travel in the same reports as the records of RequestStats.  They live   *)
(* in the event file only: packing a report takes them out of it, whether  *)
(* or not there are records to report, and no completion puts them back.   *)
(*                                                                         *)
(* Events are recorded on the main thread, which also runs the report      *)
(* loop, so neither is in the middle of the other; mLock has no part in    *)
(* this.                                                                   *)
(***************************************************************************)
EXTENDS RequestStats

CONSTANT Events  \* each recorded at most once

VARIABLES
    eventFile,  \* the event file, <<>> when it does not exist
    adding,     \* what addEvent is about to write to it, <<>> outside addEvent
    carried,    \* the events in the report of each transaction
    bare,       \* the events of each report in flight that has no transaction
    recorded,   \* history: every event given to addEvent
    arrived,    \* history: every event the stats server has received
    forfeited   \* history: events in an upload that failed, or that a kill caught off the disk

eventVars == <<eventFile, adding, carried, bare, recorded, arrived, forfeited>>
allVars == <<vars, eventVars>>

EventInit ==
    /\ Init
    /\ eventFile = <<>>
    /\ adding = <<>>
    /\ carried = [t \in Transactions |-> <<>>]
    /\ bare = {}
    /\ recorded = {}
    /\ arrived = {}
    /\ forfeited = {}

-----------------------------------------------------------------------------
\* data_storage::addEvent up to the removal of the old file.
addEvent(e) ==
    /\ ~reporting
    /\ adding = <<>>
    /\ e \notin recorded
    /\ adding' = Append(eventFile, e)
    /\ eventFile' = <<>>
    /\ recorded' = recorded \cup {e}
    /\ UNCHANGED <<vars, carried, bare, arrived, forfeited>>

\* The write.
addEventWrites ==
    /\ adding # <<>>
    /\ eventFile' = adding
    /\ adding' = <<>>
    /\ UNCHANGED <<vars, carried, bare, recorded, arrived, forfeited>>

logDataArray_NotDeleted == eventFile' = eventFile

\* logDataArray: the report gets the events of the file, which is deleted.
logDataArray == eventFile' = <<>>

\* The report of a transaction: the first one of a loop takes all events.
reportWithRecords(t, configured) ==
    /\ createSendTransaction(t, configured)
    /\ carried' = [carried EXCEPT ![t] = eventFile]
    /\ logDataArray
    /\ UNCHANGED <<adding, bare, recorded, arrived, forfeited>>

\* The report of an empty vector is sent as well, and its completion has no callbacks.
reportWithoutRecords ==
    /\ requestsData
    /\ pending = <<>>
    /\ bare' = IF eventFile = <<>> THEN bare ELSE bare \cup {eventFile}
    /\ logDataArray
    /\ UNCHANGED <<adding, carried, recorded, arrived, forfeited>>

\* The server gets the report of a transaction.
eventsArrive(t) ==
    /\ ServerReceives(t)
    /\ arrived' = arrived \cup Range(carried[t])
    /\ UNCHANGED <<eventFile, adding, carried, bare, recorded, forfeited>>

\* Either completion forgets the report; restoreTransaction keeps its records only.
reportEnds(t) ==
    /\ deleteTransaction(t) \/ restoreTransaction(t)
    /\ carried' = [carried EXCEPT ![t] = <<>>]
    /\ forfeited' = IF uploads[t] = "sent" THEN forfeited \cup Range(carried[t]) ELSE forfeited
    /\ UNCHANGED <<eventFile, adding, bare, recorded, arrived>>

\* A report without transaction succeeds or fails.
bareReportEnds(es) ==
    /\ es \in bare
    /\ bare' = bare \ {es}
    /\ \/ arrived' = arrived \cup Range(es) /\ UNCHANGED forfeited
       \/ forfeited' = forfeited \cup Range(es) /\ UNCHANGED arrived
    /\ UNCHANGED <<vars, eventFile, adding, carried, recorded>>

\* Events on their way to the server.
Aboard == (UNION {Range(carried[t]) : t \in Transactions}) \cup (UNION {Range(es) : es \in bare})

EventRestart ==
    /\ Restart
    /\ adding' = <<>>
    /\ carried' = [t \in Transactions |-> <<>>]
    /\ bare' = {}
    /\ forfeited' = forfeited \cup ((Aboard \cup Range(adding)) \ arrived)
    /\ UNCHANGED <<eventFile, recorded, arrived>>

\* Steps of the pipeline that have nothing to do with events.
PipelineOnly ==
    /\ \/ Collecting
       \/ FinishSave
       \/ scheduleStatsReporting
       \/ reportStats /\ adding = <<>>
       \/ requestsData /\ pending # <<>>
    /\ UNCHANGED eventVars

EventNext ==
    \/ \E e \in Events : addEvent(e)
    \/ addEventWrites
    \/ \E t \in Transactions, c \in ConfiguredCounts : reportWithRecords(t, c)
    \/ reportWithoutRecords
    \/ \E t \in Transactions : eventsArrive(t) \/ reportEnds(t)
    \/ \E es \in bare : bareReportEnds(es)
    \/ EventRestart
    \/ PipelineOnly

EventSpec == EventInit /\ [][EventNext]_allVars

-----------------------------------------------------------------------------
\* An event is in one report at most and arrives at most once, even when the answer to
\* its report is lost and the records next to it are sent again; and it is lost only
\* with a report that failed, or to a kill while addEvent is between removing and
\* writing the file or the report is on its way: no event on disk is ever dropped.
EventsAccounted ==
    /\ recorded = Range(eventFile) \cup Range(adding) \cup Aboard \cup arrived \cup forfeited
    /\ IsInjective(eventFile \o adding)
    /\ (Range(eventFile) \cup Range(adding)) \cap (Aboard \cup arrived \cup forfeited) = {}
    /\ \A t, u \in Transactions : t # u => Range(carried[t]) \cap Range(carried[u]) = {}
    /\ \A es, fs \in bare : es # fs => Range(es) \cap Range(fs) = {}
    /\ \A t \in Transactions, es \in bare : Range(carried[t]) \cap Range(es) = {}
    /\ \A t \in Transactions : uploads[t] # "received" => Range(carried[t]) \cap (arrived \cup forfeited) = {}
    /\ \A es \in bare : Range(es) \cap (arrived \cup forfeited) = {}

-----------------------------------------------------------------------------
(* The inductive invariant behind EventsAccounted. *)

EventTypeOK ==
    /\ eventFile \in Seq(Events)
    /\ adding \in Seq(Events)
    /\ carried \in [Transactions -> Seq(Events)]
    /\ bare \subseteq Seq(Events)

\* addEvent has removed the file it is going to write again.
WriteAhead == adding # <<>> => eventFile = <<>>

\* Events are aboard a transaction only while its upload is in flight, and those of
\* an upload the server has received have arrived.
CarriedByUploads ==
    \A t \in Transactions :
        /\ uploads[t] = "none" => carried[t] = <<>>
        /\ uploads[t] = "received" => Range(carried[t]) \subseteq arrived

EventInv == EventTypeOK /\ EventsAccounted /\ WriteAhead /\ CarriedByUploads
=============================================================================
