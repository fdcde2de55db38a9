---------------------------- MODULE RequestStats ----------------------------
(***************************************************************************)
(* The request statistics pipeline of the SDK: RequestStatsHandler (the    *)
(* in-memory vector of collected records and the transactions being        *)
(* uploaded), the report loop of Model::reportStats with its asynchronous  *)
(* completions, and the request data file of data_storage, across kills    *)
(* and restarts of the application.                                        *)
(*                                                                         *)
(* Model::mLock is held by addRequestData, by the locked half of one       *)
(* iteration of reportStats and by an upload completion.  It is modelled   *)
(* by lock: a critical section that a kill, or a caller that does not take *)
(* the mutex, can split is split into steps, and lock says which step the  *)
(* holder is at.  The ++gID of a transaction is modelled as the choice of  *)
(* an identifier no live transaction has: the code only compares them.     *)
(***************************************************************************)
EXTENDS Integers, Sequences, Functions

CONSTANTS
    Records,           \* request records, each collected at most once
    Transactions,      \* transaction identifiers (bounds uploads in flight)
    ConfiguredCounts,  \* values statsReportingMaxRequests can have
    kRequestsCountMax, \* batch size used when the configured one is not positive
    FailureStates,     \* uploads that can fail: "sent" (request lost), "received" (answer lost)
    MaxRestarts        \* bound on how often the application is killed

ASSUME RequestStatsAssumption ==
    /\ ConfiguredCounts \subseteq Int
    /\ kRequestsCountMax \in Nat \ {0}
    /\ FailureStates \subseteq {"sent", "received"}
    /\ MaxRestarts \in Nat

VARIABLES
    pending,    \* mRequestsDataVector
    sent,       \* mSentData: PendingData by transaction, <<>> for no such transaction
    uploads,    \* the PUT of each transaction: "none", "sent" or "received" by the server
    file,       \* the request data file, <<>> when it does not exist
    lock,       \* Model::mLock: "free", or where its holder is
    saving,     \* the array the lock holder is about to write to the file
    scheduled,  \* mStatsReportingTimer runs
    reporting,  \* the report loop runs (hasDataToSend)
    purging,    \* where a debug call of Model::deleteRequestsData is
    collected,  \* history: every record ever given to addRequestData
    delivered,  \* history: every record the stats server has received
    exposed,    \* history: records dropped from the file while in flight
    restarts    \* history: how often the application was killed

vars == <<pending, sent, uploads, file, lock, saving, scheduled, reporting, purging,
          collected, delivered, exposed, restarts>>

memory == <<pending, sent, uploads>>
disk == <<file, lock, saving>>
history == <<collected, delivered, exposed, restarts>>

InFlight == UNION {Range(sent[t]) : t \in Transactions}

\* Records the running process still has in memory.
Held == Range(pending) \cup InFlight

\* Records collected, still in memory and unknown to the server.
Owed == Held \ delivered

TypeOK ==
    /\ pending \in Seq(Records)
    /\ sent \in [Transactions -> Seq(Records)]
    /\ uploads \in [Transactions -> {"none", "sent", "received"}]
    /\ file \in Seq(Records)
    /\ lock \in {"free", "saving", "packing"}
    /\ saving \in Seq(Records)
    /\ scheduled \in BOOLEAN
    /\ reporting \in BOOLEAN
    /\ purging \in {"idle", "deleting", "checking"}
    /\ collected \subseteq Records
    /\ delivered \subseteq Records
    /\ exposed \subseteq Records
    /\ restarts \in 0..MaxRestarts

Init ==
    /\ pending = <<>>
    /\ sent = [t \in Transactions |-> <<>>]
    /\ uploads = [t \in Transactions |-> "none"]
    /\ file = <<>>
    /\ lock = "free"
    /\ saving = <<>>
    /\ scheduled = FALSE
    /\ reporting = FALSE
    /\ purging = "idle"
    /\ collected = {}
    /\ delivered = {}
    /\ exposed = {}
    /\ restarts = 0

-----------------------------------------------------------------------------
(* The file.  Every save removes the old file and then writes the new one. *)

\* saveObject up to the removal of the old file: content is written by FinishSave.
StartSave(content) ==
    /\ file' = <<>>
    /\ saving' = content
    /\ lock' = "saving"

FinishSave ==
    /\ lock = "saving"
    /\ file' = saving
    /\ saving' = <<>>
    /\ lock' = "free"
    /\ UNCHANGED <<memory, scheduled, reporting, purging, history>>

-----------------------------------------------------------------------------
(* Collecting a record. *)

SaveAppended_MemoryOnly(r) == file

\* saveRequestData re-reads the file and adds the record to what it holds.
SaveAppended(r) == Append(file, r)

addRequestData(r) ==
    /\ lock = "free"
    /\ r \notin collected
    /\ pending' = Append(pending, r)
    /\ collected' = collected \cup {r}
    /\ StartSave(SaveAppended(r))
    /\ UNCHANGED <<sent, uploads, scheduled, reporting, purging, delivered, exposed, restarts>>

-----------------------------------------------------------------------------
(* The report loop. *)

\* After every load of a configuration: its mode starts the stats timer or disables
\* it.  Which configurations come, and which are stale, is ConfigurationService's.
scheduleStatsReporting ==
    /\ scheduled' \in BOOLEAN
    /\ UNCHANGED <<memory, disk, reporting, purging, history>>

\* The stats timer fires on the main run loop.
reportStats ==
    /\ scheduled
    /\ ~reporting
    /\ reporting' = TRUE
    /\ UNCHANGED <<memory, disk, scheduled, purging, history>>

\* One iteration takes mLock; with nothing collected the report carries no
\* transaction (its completion has no callbacks) and the loop ends.  The last
\* conjunct is the bound on uploads in flight, which the code does not have.
requestsData ==
    /\ reporting
    /\ lock = "free"
    /\ \E t \in Transactions : sent[t] = <<>>
    /\ IF pending = <<>>
       THEN /\ reporting' = FALSE
            /\ UNCHANGED lock
       ELSE /\ lock' = "packing"
            /\ UNCHANGED reporting
    /\ UNCHANGED <<memory, file, saving, scheduled, purging, history>>

BatchSize_Unchecked(configured) ==
    IF configured > Len(pending) THEN Len(pending) ELSE configured

\* How many records the next transaction takes.
BatchSize(configured) ==
    LET count == IF configured <= 0 THEN kRequestsCountMax ELSE configured
    IN  IF count > Len(pending) THEN Len(pending) ELSE count

Remaining_KeepsLast(n) == SubSeq(pending, IF n > 1 THEN n ELSE n + 1, Len(pending))

Remaining_NotErased(n) == pending

\* What mRequestsDataVector.erase leaves.
Remaining(n) == SubSeq(pending, n + 1, Len(pending))

\* createTransaction, hasRequestsData and, once mLock is released, sendStats.
createSendTransaction(t, configured) ==
    LET n == BatchSize(configured) IN
    /\ lock = "packing"
    /\ pending # <<>>
    /\ sent[t] = <<>>
    /\ sent' = [sent EXCEPT ![t] = SubSeq(pending, 1, n)]
    /\ pending' = Remaining(n)
    /\ uploads' = [uploads EXCEPT ![t] = "sent"]
    /\ reporting' = (pending' # <<>>)
    /\ lock' = "free"
    /\ UNCHANGED <<file, saving, scheduled, purging, history>>

-----------------------------------------------------------------------------
(* The upload and its completion, on any thread and in any order. *)

\* The stats server gets the body of the PUT.
ServerReceives(t) ==
    /\ uploads[t] = "sent"
    /\ uploads' = [uploads EXCEPT ![t] = "received"]
    /\ delivered' = delivered \cup Range(sent[t])
    /\ UNCHANGED <<pending, sent, disk, scheduled, reporting, purging, collected, exposed, restarts>>

Ended_Erased(t) ==
    /\ sent' = [u \in Transactions \ {t} |-> sent[u]]
    /\ uploads' = [uploads EXCEPT ![t] = "none"]

\* The transaction leaves mSentData.
Ended(t) ==
    /\ sent' = [sent EXCEPT ![t] = <<>>]
    /\ uploads' = [uploads EXCEPT ![t] = "none"]

Restored_Dropped(t) == pending

\* restoreTransaction appends the records to the end of the vector.
Restored(t) == pending \o sent[t]

\* The array deleteTransaction leaves on disk: only what is still in the vector.
Resaved == pending

\* Ghost: records in flight in other transactions lose their copy on disk.
Exposed(t) ==
    (exposed \cup UNION {Range(sent[u]) : u \in Transactions \ {t}}) \ Range(pending)

deleteTransaction(t) ==
    /\ lock = "free"
    /\ uploads[t] = "received"
    /\ Ended(t)
    /\ IF pending = <<>>
       THEN /\ file' = <<>>
            /\ UNCHANGED <<lock, saving>>
       ELSE StartSave(Resaved)
    /\ exposed' = Exposed(t)
    /\ UNCHANGED <<pending, scheduled, reporting, purging, collected, delivered, restarts>>

\* The upload fails, possibly after the server received it.
restoreTransaction(t) ==
    /\ lock = "free"
    /\ uploads[t] \in FailureStates
    /\ pending' = Restored(t)
    /\ Ended(t)
    /\ UNCHANGED <<disk, scheduled, reporting, purging, history>>

-----------------------------------------------------------------------------
(* The application is killed at any point and started again. *)

\* The constructor of RequestStatsHandler: the vector is what the file holds.
loadRequestsData ==
    /\ pending' = file
    /\ sent' = [t \in Transactions |-> <<>>]
    /\ uploads' = [t \in Transactions |-> "none"]

Restart ==
    /\ restarts < MaxRestarts
    /\ restarts' = restarts + 1
    /\ loadRequestsData
    /\ lock' = "free"
    /\ saving' = <<>>
    /\ scheduled' = FALSE
    /\ reporting' = FALSE
    /\ purging' = "idle"
    /\ exposed' = {}
    /\ UNCHANGED <<file, collected, delivered>>

-----------------------------------------------------------------------------
(* The debug call Model::deleteRequestsData, which does not take mLock: its *)
(* steps interleave with those of the lock holder.  Transactions in flight *)
(* are left alone.                                                         *)

deleteAllData ==
    /\ purging = "idle"
    /\ pending' = <<>>
    /\ purging' = "deleting"
    /\ UNCHANGED <<sent, uploads, disk, scheduled, reporting, history>>

purgeFile ==
    /\ purging = "deleting"
    /\ file' = <<>>
    /\ purging' = "checking"
    /\ UNCHANGED <<memory, lock, saving, scheduled, reporting, history>>

\* The vector is saved again if records came in meanwhile.
purgeResave ==
    /\ purging = "checking"
    /\ purging' = "idle"
    /\ file' = IF pending # <<>> THEN file \o pending ELSE file
    /\ UNCHANGED <<memory, lock, saving, scheduled, reporting, history>>

-----------------------------------------------------------------------------
Collecting == \E r \in Records : addRequestData(r)

Reporting ==
    \/ scheduleStatsReporting
    \/ reportStats
    \/ requestsData
    \/ \E t \in Transactions, c \in ConfiguredCounts : createSendTransaction(t, c)

Uploading ==
    \E t \in Transactions : ServerReceives(t) \/ deleteTransaction(t) \/ restoreTransaction(t)

\* What a process does that is not killed.
Running == Collecting \/ FinishSave \/ Reporting \/ Uploading

Next == Running \/ Restart

Spec == Init /\ [][Next]_vars

Purge == deleteAllData \/ purgeFile \/ purgeResave

\* The specification with debug_enableStatsUploadTestMode called at any time.
DebugSpec == Init /\ [][Next \/ Purge]_vars

(***************************************************************************)
(* Fairness.  A timer that keeps running fires, but nothing starts it or   *)
(* keeps it running: that is up to the configurations.  The main thread    *)
(* and the mutex make progress (strong fairness, because other threads     *)
(* take the mutex in between), and                                         *)
(* NSURLSession calls every completion handler.  The network may fail any  *)
(* number of times but does not fail a given record for ever.              *)
(***************************************************************************)
Fairness ==
    /\ WF_vars(FinishSave)
    /\ WF_vars(reportStats)
    /\ SF_vars(requestsData)
    /\ SF_vars(\E t \in Transactions, c \in ConfiguredCounts : createSendTransaction(t, c))
    /\ \A t \in Transactions :
          /\ WF_vars(ServerReceives(t))
          /\ SF_vars(deleteTransaction(t) \/ restoreTransaction(t))
    /\ \A r \in Records :
          SF_vars(\E t \in Transactions : r \in Range(sent[t]) /\ ServerReceives(t))

\* A process that is left alone.
FairSpec == Init /\ [][Running]_vars /\ Fairness

-----------------------------------------------------------------------------
(* Properties. *)

\* A record is in memory at most once: createTransaction moves records out of
\* mRequestsDataVector into exactly one transaction, restoreTransaction moves
\* them back, and a file reloaded after a kill has no record twice.
HeldOnce ==
    /\ IsInjective(pending)
    /\ \A t \in Transactions :
          /\ IsInjective(sent[t])
          /\ Range(sent[t]) \cap Range(pending) = {}
          /\ \A u \in Transactions \ {t} : Range(sent[t]) \cap Range(sent[u]) = {}

\* The assertion of ~Transaction (PendingData.size()): an upload that has
\* callbacks carries at least one record, whatever count the configuration gives.
NoEmptyTransaction ==
    \A t \in Transactions : (uploads[t] = "none") <=> (sent[t] = <<>>)

\* A record the server does not have survives a kill: it is in the request data
\* file, except while saveObject is between removing and writing the file, or
\* after deleteTransaction of another transaction rewrote the file without it.
Durable ==
    \A r \in Owed : r \in Range(file) \cup Range(saving) \cup exposed

\* A kill never brings back a record that is gone: whatever the file holds, or is
\* about to hold, is still in memory or already at the server.
NothingResurrected ==
    Range(file) \cup Range(saving) \subseteq Held \cup delivered

Ledger == INSTANCE StatsLedger
            WITH owed <- Owed, done <- delivered, seen <- collected, kills <- restarts

\* The queue, the transactions, the file and the completions implement StatsLedger:
\* a collected record is owed until the server has it, only a kill cancels the debt,
\* and neither a restore nor a reload brings back a record that is gone.
ImplementsLedger == Ledger!Spec

\* While no answer is lost and the application is not killed, the server gets
\* a record at most once, failed uploads included.
AtMostOnce ==
    [][\A t \in Transactions :
         uploads'[t] = "received" /\ uploads[t] = "sent"
            => Range(sent[t]) \cap delivered = {}]_vars

\* Every collected record reaches the server although uploads fail again and
\* again, once configurations keep reporting on (their mode reports and none goes
\* stale, so that the stats timer runs for good) and if the application is not killed.
EventuallyDelivered ==
    <>[]scheduled => \A r \in Records : (r \in collected) ~> (r \in delivered)

\* The do-while of reportStats, which runs on the main thread, ends although failed
\* uploads put records back behind its back: each record can fail again and again,
\* but not for ever.
ReportEnds == reporting ~> ~reporting

\* The assertion at the top of createTransaction: requestsData found the vector
\* not empty, so it has something to pack.
PackingSomething == lock = "packing" => pending # <<>>

-----------------------------------------------------------------------------
(* The inductive invariant behind HeldOnce, Durable and ImplementsLedger.  *)

\* saveObject: between the removal and the write of the file it does not exist,
\* and nobody but the lock holder has an array to write.
SaveInProgress ==
    /\ lock = "saving" => file = <<>>
    /\ lock # "saving" => saving = <<>>

\* Neither the file nor the array about to be written has a record twice.
SavedOnce == IsInjective(file) /\ IsInjective(saving)

\* Records come from addRequestData only.
OnlyCollected ==
    Held \cup Range(file) \cup Range(saving) \cup delivered \subseteq collected

\* An upload the server has received carries only records the server has.
ReceivedDelivered ==
    \A t \in Transactions : uploads[t] = "received" => Range(sent[t]) \subseteq delivered

\* Together: every copy of a record, in memory, in flight, on disk or on its way to
\* disk, is unique, comes from addRequestData and accounts for the same debt.
PipelineInv ==
    /\ TypeOK
    /\ NoEmptyTransaction
    /\ HeldOnce
    /\ SaveInProgress
    /\ SavedOnce
    /\ OnlyCollected
    /\ ReceivedDelivered
    /\ NothingResurrected
    /\ Durable
=============================================================================
