------------------------- MODULE RequestStatsProofs -------------------------
(***************************************************************************)
(* Proofs about RequestStats, for any sets of records and transactions,    *)
(* any batch size and any number of kills.                                 *)
(*                                                                         *)
(* The safety invariants of RequestStats are not inductive one by one: the *)
(* file becomes the vector after a kill, so what holds of the vector must  *)
(* be known of the file, and of the array that is about to be written to   *)
(* it.  PipelineInv is the conjunction that is inductive.                  *)
(***************************************************************************)
EXTENDS RequestStats, SequenceFacts

-----------------------------------------------------------------------------
(* Type correctness. *)

\* createTransaction takes at least one record and no more than there are.
LEMMA BatchSizeFacts ==
    ASSUME TypeOK, pending # <<>>, NEW c \in ConfiguredCounts
    PROVE  BatchSize(c) \in 1 .. Len(pending)
<1>1. Len(pending) \in Nat \ {0}
  BY EmptySeq DEF TypeOK
<1>2. c \in Int /\ kRequestsCountMax \in Nat \ {0}
  BY RequestStatsAssumption
<1> QED BY <1>1, <1>2 DEF BatchSize

\* The batch createTransaction moves into a transaction is a non-empty sequence of
\* records; it and what erase leaves make up the vector.
LEMMA BatchFacts ==
    ASSUME TypeOK, pending # <<>>, NEW c \in ConfiguredCounts
    PROVE  LET n == BatchSize(c)
               a == SubSeq(pending, 1, n)
               b == Remaining(n)
           IN  /\ a \in Seq(Records) /\ b \in Seq(Records)
               /\ a # <<>>
               /\ Range(pending) = Range(a) \cup Range(b)
               /\ IsInjective(pending) =>
                    IsInjective(a) /\ IsInjective(b) /\ Range(a) \cap Range(b) = {}
<1> DEFINE n == BatchSize(c)
<1>1. n \in 1 .. Len(pending) /\ n \in 0 .. Len(pending) /\ n # 0
  BY BatchSizeFacts, LenProperties DEF TypeOK
<1> HIDE DEF n
<1>2. pending \in Seq(Records)
  BY DEF TypeOK
<1>3. Len(<<>>) = 0
  OBVIOUS
<1> QED BY <1>1, <1>2, <1>3, SplitFacts DEF Remaining, n

\* Every step of the pipeline keeps the type of its state.
LEMMA TypeStep ==
    ASSUME TypeOK, [Next]_vars
    PROVE  TypeOK'
<1> USE DEF TypeOK
<1>1. ASSUME NEW r \in Records, addRequestData(r) PROVE TypeOK'
  BY <1>1, AppendFacts DEF addRequestData, StartSave, SaveAppended
<1>2. CASE FinishSave
  BY <1>2 DEF FinishSave, memory, history
<1>3. CASE scheduleStatsReporting \/ reportStats
  BY <1>3 DEF scheduleStatsReporting, reportStats, memory, disk, history
<1>4. CASE requestsData
  BY <1>4 DEF requestsData, memory, history
<1>5. ASSUME NEW t \in Transactions, NEW c \in ConfiguredCounts, createSendTransaction(t, c)
      PROVE TypeOK'
  <2>1. pending' \in Seq(Records)
    BY <1>5, BatchFacts DEF createSendTransaction
  <2>2. sent' \in [Transactions -> Seq(Records)]
    BY <1>5, BatchFacts DEF createSendTransaction
  <2>3. uploads' \in [Transactions -> {"none", "sent", "received"}]
    BY <1>5 DEF createSendTransaction
  <2>4. reporting' \in BOOLEAN
    BY <1>5 DEF createSendTransaction
  <2> QED BY <1>5, <2>1, <2>2, <2>3, <2>4 DEF createSendTransaction, history
<1>6. ASSUME NEW t \in Transactions, ServerReceives(t) PROVE TypeOK'
  <2>1. Range(sent[t]) \subseteq Records
    BY RangeOfSeqOver
  <2> QED BY <1>6, <2>1 DEF ServerReceives, disk
<1>7. ASSUME NEW t \in Transactions, deleteTransaction(t) PROVE TypeOK'
  <2>1. exposed' \subseteq Records
    BY <1>7, RangeOfSeqOver DEF deleteTransaction, Exposed
  <2>2. /\ sent' \in [Transactions -> Seq(Records)]
        /\ uploads' \in [Transactions -> {"none", "sent", "received"}]
    BY <1>7 DEF deleteTransaction, Ended
  <2>3. file' \in Seq(Records) /\ saving' \in Seq(Records) /\ lock' \in {"free", "saving", "packing"}
    BY <1>7, EmptySeq DEF deleteTransaction, StartSave, Resaved
  <2> QED BY <1>7, <2>1, <2>2, <2>3 DEF deleteTransaction
<1>8. ASSUME NEW t \in Transactions, restoreTransaction(t) PROVE TypeOK'
  BY <1>8, ConcatFacts DEF restoreTransaction, Restored, Ended, disk, history
<1>9. CASE Restart
  <2>1. restarts' \in 0 .. MaxRestarts
    BY <1>9, RequestStatsAssumption DEF Restart
  <2>2. /\ sent' \in [Transactions -> Seq(Records)]
        /\ uploads' \in [Transactions -> {"none", "sent", "received"}]
        /\ saving' \in Seq(Records)
    BY <1>9, EmptySeq DEF Restart, loadRequestsData
  <2> QED BY <1>9, <2>1, <2>2 DEF Restart, loadRequestsData
<1>10. CASE UNCHANGED vars
  BY <1>10 DEF vars
<1> QED BY <1>1, <1>2, <1>3, <1>4, <1>5, <1>6, <1>7, <1>8, <1>9, <1>10
        DEF Next, Running, Collecting, Reporting, Uploading

\* The first launch, with no file.
LEMMA InitTypeOK == Init => TypeOK
<1>1. 0 \in 0 .. MaxRestarts
  BY RequestStatsAssumption
<1>2. <<>> \in Seq(Records)
  BY EmptySeq
<1> QED BY <1>1, <1>2 DEF Init, TypeOK

\* The state of the pipeline keeps its type, whatever is collected, reported,
\* restored or reloaded (RequestStatsHandler and Model::reportStats).
THEOREM TypeCorrect == Spec => []TypeOK
BY InitTypeOK, TypeStep, PTL DEF Spec

-----------------------------------------------------------------------------
(* The records in memory.  This part of the invariant is inductive without  *)
(* anything said of the copies on disk, for as long as no file is reloaded. *)

\* Records in memory are there once and were collected, uploads carry some of them,
\* and an upload the server has received is one it has recorded.
MemoryInv == HeldOnce /\ NoEmptyTransaction /\ OnlyCollected /\ ReceivedDelivered

\* A record is in flight when some transaction has it.
LEMMA InFlightDef ==
    ASSUME NEW x
    PROVE  x \in InFlight <=> \E t \in Transactions : x \in Range(sent[t])
BY DEF InFlight

\* Collecting a record and saving the file keep MemoryInv, whatever the file holds.
LEMMA MemorySave ==
    ASSUME TypeOK, MemoryInv,
           FinishSave \/ \E r \in Records : addRequestData(r)
    PROVE  MemoryInv'
<1> USE DEF MemoryInv
<1>1. ASSUME NEW r \in Records, addRequestData(r) PROVE MemoryInv'
  <2>1. /\ pending' = Append(pending, r) /\ UNCHANGED <<sent, uploads, delivered>>
        /\ saving' = Append(file, r) /\ file' = <<>>
        /\ r \notin collected /\ collected' = collected \cup {r}
    BY <1>1 DEF addRequestData, StartSave, SaveAppended
  <2>2. /\ Range(pending') = Range(pending) \cup {r}
        /\ Range(saving') = Range(file) \cup {r}
        /\ Range(file') = {}
    BY <2>1, AppendFacts, EmptyFacts DEF TypeOK
  <2>3. r \notin Held
    BY <2>1 DEF OnlyCollected
  <2>4. Held' = Held \cup {r}
    BY <2>1, <2>2 DEF Held, InFlight
  <2>5. IsInjective(pending')
    BY <2>1, <2>3, AppendFacts DEF HeldOnce, TypeOK, Held
  <2>6. \A t \in Transactions : r \notin Range(sent[t])
    BY <2>3, InFlightDef DEF Held
  <2>7. HeldOnce'
    BY <2>1, <2>2, <2>5, <2>6 DEF HeldOnce
  <2>8. NoEmptyTransaction' /\ ReceivedDelivered' /\ OnlyCollected'
    BY <2>1, <2>2, <2>4 DEF NoEmptyTransaction, ReceivedDelivered, OnlyCollected
  <2> QED BY <2>7, <2>8
<1>2. CASE FinishSave
  <2>1. /\ file' = saving /\ saving' = <<>> /\ Range(saving') = {}
        /\ UNCHANGED <<pending, sent, uploads, collected, delivered>>
    BY <1>2, EmptyFacts DEF FinishSave, memory, history
  <2>2. Held' = Held
    BY <2>1 DEF Held, InFlight
  <2> QED BY <2>1, <2>2 DEF HeldOnce, NoEmptyTransaction, OnlyCollected, ReceivedDelivered
<1> QED BY <1>1, <1>2

\* createTransaction moves records from the vector to a new transaction: it loses none
\* and adds none.
LEMMA MemoryCreate ==
    ASSUME TypeOK, MemoryInv, NEW t \in Transactions, NEW c \in ConfiguredCounts,
           createSendTransaction(t, c)
    PROVE  MemoryInv' /\ Held' = Held
<1> USE DEF MemoryInv
<1> DEFINE n == BatchSize(c)
           a == SubSeq(pending, 1, n)
           b == Remaining(n)
<1>1. /\ sent[t] = <<>> /\ uploads' = [uploads EXCEPT ![t] = "sent"]
      /\ sent' = [sent EXCEPT ![t] = a] /\ pending' = b
      /\ pending # <<>>
      /\ lock = "packing" /\ lock' = "free"
      /\ UNCHANGED <<file, saving, collected, delivered, exposed>>
  BY DEF createSendTransaction, history
<1>2. /\ a # <<>>
      /\ Range(pending) = Range(a) \cup Range(b)
      /\ IsInjective(a) /\ IsInjective(b) /\ Range(a) \cap Range(b) = {}
  BY <1>1, BatchFacts DEF HeldOnce
<1> HIDE DEF n, a, b
<1>3. /\ sent'[t] = a /\ uploads'[t] = "sent"
      /\ \A u \in Transactions \ {t} : sent'[u] = sent[u] /\ uploads'[u] = uploads[u]
      /\ Range(sent[t]) = {}
  BY <1>1, EmptyFacts DEF TypeOK
<1>4. ASSUME NEW x \in Held PROVE x \in Held'
  <2>1. CASE x \in Range(pending)
    BY <1>1, <1>2, <1>3, <2>1, InFlightDef DEF Held, InFlight
  <2>2. CASE x \in InFlight
    <3>1. PICK u \in Transactions : x \in Range(sent[u])
      BY <2>2, InFlightDef
    <3>2. u # t /\ x \in Range(sent'[u])
      BY <1>3, <3>1
    <3> QED BY <3>2 DEF Held, InFlight
  <2> QED BY <2>1, <2>2 DEF Held
<1>5. ASSUME NEW x \in Held' PROVE x \in Held
  <2>1. CASE x \in Range(pending')
    BY <1>1, <1>2, <2>1 DEF Held
  <2>2. CASE x \in InFlight'
    <3>1. PICK u \in Transactions : x \in Range(sent'[u])
      BY <2>2 DEF InFlight
    <3>2. CASE u = t
      BY <1>2, <1>3, <3>1, <3>2 DEF Held
    <3>3. CASE u # t
      BY <1>3, <3>1, <3>3, InFlightDef DEF Held
    <3> QED BY <3>2, <3>3
  <2> QED BY <2>1, <2>2 DEF Held
<1>6. Held' = Held
  BY <1>4, <1>5
<1>7. NoEmptyTransaction' /\ ReceivedDelivered'
  BY <1>1, <1>2, <1>3 DEF NoEmptyTransaction, ReceivedDelivered, TypeOK
<1>8. HeldOnce'
  BY <1>1, <1>2, <1>3 DEF HeldOnce
<1>9. OnlyCollected'
  BY <1>1, <1>6 DEF OnlyCollected
<1> QED BY <1>6, <1>7, <1>8, <1>9

\* The stats server gets the body of a PUT.
LEMMA MemoryReceive ==
    ASSUME TypeOK, MemoryInv, NEW t \in Transactions, ServerReceives(t)
    PROVE  MemoryInv' /\ Held' = Held /\ Range(sent[t]) \subseteq Held
<1> USE DEF MemoryInv
<1>1. /\ uploads[t] = "sent" /\ uploads' = [uploads EXCEPT ![t] = "received"]
      /\ delivered' = delivered \cup Range(sent[t])
      /\ UNCHANGED <<pending, sent, file, saving, collected>>
  BY DEF ServerReceives, disk
<1>2. Held' = Held /\ Range(sent[t]) \subseteq Held
  BY <1>1, InFlightDef DEF Held, InFlight
<1>3. NoEmptyTransaction' /\ ReceivedDelivered'
  BY <1>1 DEF NoEmptyTransaction, ReceivedDelivered, TypeOK
<1>4. HeldOnce'
  BY <1>1 DEF HeldOnce
<1>5. OnlyCollected'
  BY <1>1, <1>2 DEF OnlyCollected
<1> QED BY <1>2, <1>3, <1>4, <1>5

\* What leaving mSentData means for one transaction and the others.
LEMMA EndedFacts ==
    ASSUME TypeOK, NEW t \in Transactions, Ended(t)
    PROVE  /\ sent'[t] = <<>> /\ uploads'[t] = "none" /\ Range(sent'[t]) = {}
           /\ \A u \in Transactions \ {t} : sent'[u] = sent[u] /\ uploads'[u] = uploads[u]
           /\ InFlight = InFlight' \cup Range(sent[t])
<1>1. /\ sent'[t] = <<>> /\ uploads'[t] = "none" /\ Range(sent'[t]) = {}
      /\ \A u \in Transactions \ {t} : sent'[u] = sent[u] /\ uploads'[u] = uploads[u]
  BY EmptyFacts DEF Ended, TypeOK
<1>2. ASSUME NEW x \in InFlight PROVE x \in InFlight' \cup Range(sent[t])
  <2>1. PICK u \in Transactions : x \in Range(sent[u])
    BY InFlightDef
  <2>2. CASE u = t
    BY <2>1, <2>2
  <2>3. CASE u # t
    <3>1. x \in Range(sent'[u])
      BY <1>1, <2>1, <2>3
    <3> QED BY <3>1 DEF InFlight
  <2> QED BY <2>2, <2>3
<1>3. ASSUME NEW x \in InFlight' PROVE x \in InFlight
  <2>1. PICK u \in Transactions : x \in Range(sent'[u])
    BY DEF InFlight
  <2>2. u # t /\ x \in Range(sent[u])
    BY <1>1, <2>1
  <2> QED BY <2>2, InFlightDef
<1>4. Range(sent[t]) \subseteq InFlight
  BY InFlightDef
<1> QED BY <1>1, <1>2, <1>3, <1>4

\* deleteTransaction: the transaction leaves mSentData and the file is written again
\* from the vector.
LEMMA MemoryDelete ==
    ASSUME TypeOK, MemoryInv, NEW t \in Transactions, deleteTransaction(t)
    PROVE  MemoryInv'
<1> USE DEF MemoryInv
<1>1. /\ Ended(t) /\ UNCHANGED <<pending, collected, delivered>>
      /\ \/ file' = <<>> /\ saving' = saving
         \/ file' = <<>> /\ saving' = pending
  BY DEF deleteTransaction, StartSave, Resaved
<1>2. /\ sent'[t] = <<>> /\ uploads'[t] = "none" /\ Range(sent'[t]) = {}
      /\ \A u \in Transactions \ {t} : sent'[u] = sent[u] /\ uploads'[u] = uploads[u]
      /\ InFlight = InFlight' \cup Range(sent[t])
  BY <1>1, EndedFacts
<1>3. Range(file') = {} /\ Range(saving') \subseteq Range(saving) \cup Range(pending)
  BY <1>1, EmptyFacts
<1>4. NoEmptyTransaction' /\ ReceivedDelivered'
  BY <1>1, <1>2 DEF NoEmptyTransaction, ReceivedDelivered
<1>5. HeldOnce'
  BY <1>1, <1>2, EmptyFacts DEF HeldOnce
<1>6. OnlyCollected'
  BY <1>1, <1>2, <1>3 DEF OnlyCollected, Held
<1> QED BY <1>4, <1>5, <1>6

\* restoreTransaction puts the records back behind those collected meanwhile.
LEMMA MemoryRestore ==
    ASSUME TypeOK, MemoryInv, NEW t \in Transactions, restoreTransaction(t)
    PROVE  MemoryInv' /\ Held' = Held
<1> USE DEF MemoryInv
<1>1. /\ Ended(t) /\ pending' = pending \o sent[t]
      /\ UNCHANGED <<file, saving, collected, delivered>>
  BY DEF restoreTransaction, Restored, disk, history
<1>2. /\ sent'[t] = <<>> /\ uploads'[t] = "none" /\ Range(sent'[t]) = {}
      /\ \A u \in Transactions \ {t} : sent'[u] = sent[u] /\ uploads'[u] = uploads[u]
      /\ InFlight = InFlight' \cup Range(sent[t])
  BY <1>1, EndedFacts
<1>3. pending \in Seq(Records) /\ sent[t] \in Seq(Records)
  BY DEF TypeOK
<1>4. Range(pending') = Range(pending) \cup Range(sent[t]) /\ IsInjective(pending')
  BY <1>1, <1>3, ConcatFacts DEF HeldOnce
<1>5. Held' = Held
  BY <1>2, <1>4 DEF Held
<1>6. NoEmptyTransaction' /\ ReceivedDelivered'
  BY <1>1, <1>2 DEF NoEmptyTransaction, ReceivedDelivered
<1>7. HeldOnce'
  BY <1>2, <1>4, EmptyFacts DEF HeldOnce
<1>8. OnlyCollected'
  BY <1>1, <1>5 DEF OnlyCollected
<1> QED BY <1>5, <1>6, <1>7, <1>8

\* A step that touches neither the records nor the file.
LEMMA MemoryQuiet ==
    ASSUME MemoryInv, UNCHANGED <<pending, sent, uploads, file, saving, collected, delivered>>
    PROVE  MemoryInv'
<1> USE DEF MemoryInv
<1>1. Held' = Held
  BY DEF Held, InFlight
<1> QED BY <1>1 DEF HeldOnce, NoEmptyTransaction, OnlyCollected, ReceivedDelivered

\* Every step of a process that is not killed keeps MemoryInv.
LEMMA MemoryStep ==
    ASSUME TypeOK, MemoryInv, Running \/ UNCHANGED vars
    PROVE  MemoryInv'
<1>1. CASE Collecting \/ FinishSave
  BY <1>1, MemorySave DEF Collecting
<1>2. CASE scheduleStatsReporting \/ reportStats \/ requestsData
  BY <1>2, MemoryQuiet DEF scheduleStatsReporting, reportStats, requestsData, memory, disk, history
<1>3. ASSUME NEW t \in Transactions, NEW c \in ConfiguredCounts, createSendTransaction(t, c)
      PROVE  MemoryInv'
  BY <1>3, MemoryCreate
<1>4. ASSUME NEW t \in Transactions, ServerReceives(t) PROVE MemoryInv'
  BY <1>4, MemoryReceive
<1>5. ASSUME NEW t \in Transactions, deleteTransaction(t) PROVE MemoryInv'
  BY <1>5, MemoryDelete
<1>6. ASSUME NEW t \in Transactions, restoreTransaction(t) PROVE MemoryInv'
  BY <1>6, MemoryRestore
<1>7. CASE UNCHANGED vars
  BY <1>7, MemoryQuiet DEF vars
<1> QED BY <1>1, <1>2, <1>3, <1>4, <1>5, <1>6, <1>7 DEF Running, Reporting, Uploading

-----------------------------------------------------------------------------
(* The inductive invariant. *)

\* The invariant holds before anything is collected.
LEMMA PipelineInit == Init => PipelineInv
<1> SUFFICES ASSUME Init PROVE PipelineInv
  OBVIOUS
<1>1. TypeOK
  BY InitTypeOK
<1>2. Held = {} /\ Range(file) = {} /\ Range(saving) = {}
  BY EmptyFacts DEF Init, Held, InFlight
<1>3. HeldOnce /\ SavedOnce
  BY EmptyFacts DEF Init, HeldOnce, SavedOnce
<1>4. NoEmptyTransaction /\ SaveInProgress
  BY DEF Init, NoEmptyTransaction, SaveInProgress
<1>5. OnlyCollected /\ NothingResurrected /\ ReceivedDelivered /\ Durable
  BY <1>2 DEF Init, OnlyCollected, NothingResurrected, ReceivedDelivered, Durable, Owed
<1> QED BY <1>1, <1>3, <1>4, <1>5 DEF PipelineInv

\* saveRequestData after addNewRequestData: the new record gets its copy on disk.
LEMMA PipelineAdd ==
    ASSUME PipelineInv, TypeOK', MemoryInv', NEW r \in Records, addRequestData(r)
    PROVE  PipelineInv'
<1> USE DEF PipelineInv, MemoryInv
<1>1. /\ pending' = Append(pending, r)
      /\ saving' = Append(file, r)
      /\ file' = <<>> /\ saving = <<>>
      /\ lock = "free" /\ lock' = "saving"
      /\ UNCHANGED <<sent, uploads, delivered, exposed>>
      /\ r \notin collected
  BY DEF addRequestData, StartSave, SaveAppended, SaveInProgress
<1>2. /\ Range(pending') = Range(pending) \cup {r}
      /\ Range(saving') = Range(file) \cup {r}
      /\ Range(file') = {} /\ Range(saving) = {}
  BY <1>1, AppendFacts, EmptyFacts DEF TypeOK
<1>3. r \notin Range(file)
  BY <1>1 DEF OnlyCollected
<1>4. Held' = Held \cup {r}
  BY <1>1, <1>2 DEF InFlight, Held
<1>5. SaveInProgress' /\ SavedOnce'
  BY <1>1, <1>3, AppendFacts, EmptyFacts DEF SaveInProgress, SavedOnce, TypeOK
<1>6. NothingResurrected' /\ Durable'
  BY <1>1, <1>2, <1>4 DEF NothingResurrected, Durable, Owed
<1> QED BY <1>5, <1>6

\* The write at the end of saveObject.
LEMMA PipelineFinishSave ==
    ASSUME PipelineInv, TypeOK', MemoryInv', FinishSave
    PROVE  PipelineInv'
<1> USE DEF PipelineInv, MemoryInv
<1>1. /\ file' = saving /\ saving' = <<>> /\ file = <<>>
      /\ lock' = "free"
      /\ UNCHANGED <<pending, sent, delivered, exposed>>
  BY DEF FinishSave, SaveInProgress, memory, history
<1>2. Range(file') = Range(saving) /\ Range(saving') = {} /\ Range(file) = {}
  BY <1>1, EmptyFacts
<1>3. Held' = Held
  BY <1>1 DEF Held, InFlight
<1>4. SaveInProgress' /\ SavedOnce'
  BY <1>1, EmptyFacts DEF SaveInProgress, SavedOnce
<1>5. NothingResurrected' /\ Durable'
  BY <1>1, <1>2, <1>3 DEF NothingResurrected, Durable, Owed
<1> QED BY <1>4, <1>5

\* deleteTransaction: the records of t have arrived; the file is rewritten from the
\* vector, and only the transactions still in flight lose their copy.
LEMMA PipelineDelete ==
    ASSUME PipelineInv, TypeOK', MemoryInv', NEW t \in Transactions, deleteTransaction(t)
    PROVE  PipelineInv'
<1> USE DEF PipelineInv, MemoryInv
<1>1. /\ lock = "free" /\ uploads[t] = "received" /\ Ended(t)
      /\ exposed' = Exposed(t)
      /\ UNCHANGED <<pending, delivered>>
      /\ saving = <<>>
  BY DEF deleteTransaction, SaveInProgress
<1>2. /\ Range(sent'[t]) = {}
      /\ \A u \in Transactions \ {t} : sent'[u] = sent[u]
      /\ InFlight = InFlight' \cup Range(sent[t])
  BY <1>1, EndedFacts
<1>3. \/ /\ pending = <<>> /\ file' = <<>> /\ saving' = <<>> /\ lock' = "free"
      \/ /\ pending # <<>> /\ file' = <<>> /\ saving' = pending /\ lock' = "saving"
  BY <1>1 DEF deleteTransaction, StartSave, Resaved
<1>4. Range(file') = {} /\ Range(saving') = Range(pending)
  BY <1>3, EmptyFacts
<1>5. SaveInProgress' /\ SavedOnce'
  BY <1>3, EmptyFacts DEF SaveInProgress, SavedOnce, HeldOnce
<1>6. NothingResurrected'
  BY <1>1, <1>4 DEF NothingResurrected, Held
<1>7. Durable'
  <2> SUFFICES ASSUME NEW x \in Owed', x \notin Range(pending)
               PROVE  x \in exposed'
    BY <1>4 DEF Durable
  <2>1. x \in InFlight'
    BY <1>1 DEF Owed, Held
  <2>2. PICK u \in Transactions : x \in Range(sent'[u])
    BY <2>1 DEF InFlight
  <2>3. u \in Transactions \ {t} /\ x \in Range(sent[u])
    BY <1>2, <2>2
  <2> QED BY <1>1, <2>3 DEF Exposed
<1> QED BY <1>5, <1>6, <1>7

\* A kill: the vector is what the file holds.
LEMMA PipelineRestart ==
    ASSUME PipelineInv, TypeOK', Restart
    PROVE  PipelineInv'
<1> USE DEF PipelineInv
<1>1. /\ pending' = file /\ saving' = <<>> /\ lock' = "free"
      /\ sent' = [t \in Transactions |-> <<>>]
      /\ uploads' = [t \in Transactions |-> "none"]
      /\ UNCHANGED <<file, collected, delivered>>
  BY DEF Restart, loadRequestsData
<1>2. /\ Range(pending') = Range(file) /\ Range(saving') = {}
      /\ \A t \in Transactions : sent'[t] = <<>> /\ uploads'[t] = "none" /\ Range(sent'[t]) = {}
  BY <1>1, EmptyFacts
<1>3. Held' = Range(file)
  BY <1>2 DEF Held, InFlight
<1>4. NoEmptyTransaction' /\ SaveInProgress' /\ ReceivedDelivered'
  BY <1>1, <1>2 DEF NoEmptyTransaction, SaveInProgress, ReceivedDelivered
<1>5. HeldOnce' /\ SavedOnce'
  BY <1>1, <1>2, EmptyFacts DEF HeldOnce, SavedOnce
<1>6. OnlyCollected' /\ NothingResurrected' /\ Durable'
  BY <1>1, <1>2, <1>3 DEF OnlyCollected, NothingResurrected, Durable, Owed
<1> QED BY <1>4, <1>5, <1>6

\* A step that keeps what is in memory, in any order, and the disk: createTransaction,
\* restoreTransaction, the server receiving a body, and the steps of the report loop.
LEMMA PipelineMove ==
    ASSUME PipelineInv, TypeOK', MemoryInv', Held' = Held, delivered \subseteq delivered',
           UNCHANGED <<file, saving, exposed>>, lock' = "saving" <=> lock = "saving"
    PROVE  PipelineInv'
<1> USE DEF PipelineInv, MemoryInv
<1>1. SaveInProgress' /\ SavedOnce'
  BY DEF SaveInProgress, SavedOnce
<1>2. NothingResurrected' /\ Durable'
  BY DEF NothingResurrected, Durable, Owed
<1> QED BY <1>1, <1>2

\* Every step keeps the invariant, one action at a time.
LEMMA PipelineStep ==
    ASSUME PipelineInv, [Next]_vars
    PROVE  PipelineInv'
<1>1. TypeOK /\ TypeOK' /\ MemoryInv
  BY TypeStep DEF PipelineInv, MemoryInv
<1>2. CASE Restart
  BY <1>1, <1>2, PipelineRestart
<1>3. CASE Running \/ UNCHANGED vars
  <2>1. MemoryInv'
    BY <1>1, <1>3, MemoryStep
  <2>2. ASSUME NEW r \in Records, addRequestData(r) PROVE PipelineInv'
    BY <1>1, <2>1, <2>2, PipelineAdd
  <2>3. CASE FinishSave
    BY <1>1, <2>1, <2>3, PipelineFinishSave
  <2>4. CASE scheduleStatsReporting \/ reportStats \/ requestsData \/ UNCHANGED vars
    BY <1>1, <2>1, <2>4, PipelineMove
       DEF scheduleStatsReporting, reportStats, requestsData, vars, memory, disk, history, Held, InFlight
  <2>5. ASSUME NEW t \in Transactions, NEW c \in ConfiguredCounts, createSendTransaction(t, c)
        PROVE  PipelineInv'
    BY <1>1, <2>1, <2>5, MemoryCreate, PipelineMove DEF createSendTransaction, history
  <2>6. ASSUME NEW t \in Transactions, ServerReceives(t) PROVE PipelineInv'
    BY <1>1, <2>1, <2>6, MemoryReceive, PipelineMove DEF ServerReceives, disk
  <2>7. ASSUME NEW t \in Transactions, deleteTransaction(t) PROVE PipelineInv'
    BY <1>1, <2>1, <2>7, PipelineDelete
  <2>8. ASSUME NEW t \in Transactions, restoreTransaction(t) PROVE PipelineInv'
    BY <1>1, <2>1, <2>8, MemoryRestore, PipelineMove DEF restoreTransaction, disk, history
  <2> QED BY <1>3, <2>2, <2>3, <2>4, <2>5, <2>6, <2>7, <2>8
          DEF Running, Collecting, Reporting, Uploading
<1> QED BY <1>2, <1>3 DEF Next

\* The accounting of the pipeline is an invariant: see PipelineInv.
THEOREM PipelineCorrect == Spec => []PipelineInv
BY PipelineInit, PipelineStep, PTL DEF Spec

\* No record is in memory twice: two uploads never carry the same record, nor one
\* that is still waiting in mRequestsDataVector, restarts and restores included.
THEOREM HeldOnceCorrect == Spec => []HeldOnce
<1>1. PipelineInv => HeldOnce
  BY DEF PipelineInv
<1> QED BY <1>1, PipelineCorrect, PTL

\* The assertion of ~Transaction never fails, whatever count is configured.
THEOREM NoEmptyTransactionCorrect == Spec => []NoEmptyTransaction
<1>1. PipelineInv => NoEmptyTransaction
  BY DEF PipelineInv
<1> QED BY <1>1, PipelineCorrect, PTL

\* A record the server does not have is lost by a kill only in the two windows
\* Durable names.
THEOREM DurableCorrect == Spec => []Durable
<1>1. PipelineInv => Durable
  BY DEF PipelineInv
<1> QED BY <1>1, PipelineCorrect, PTL

\* What a relaunch reads back (loadRequestsData) is still in memory or already at the
\* server: no save or completion leaves a record in the file that is gone elsewhere.
THEOREM NothingResurrectedCorrect == Spec => []NothingResurrected
<1>1. PipelineInv => NothingResurrected
  BY DEF PipelineInv
<1> QED BY <1>1, PipelineCorrect, PTL

-----------------------------------------------------------------------------
(* The pipeline implements the ledger.  Owed and delivered are the ledger's *)
(* variables: collecting a record accepts a debt, the server receiving a    *)
(* body settles one, a kill may forget some, and nothing else changes them. *)

\* A step that keeps what is in memory, in any order, and what is delivered keeps
\* the ledger: moving records between the vector and the transactions is a stutter.
LEMMA LedgerStutter ==
    ASSUME Held' = Held, UNCHANGED <<delivered, collected, restarts>>
    PROVE  [Ledger!Next]_(Ledger!ledger)
BY DEF Ledger!ledger, Owed

\* Every step is a step of the ledger or changes nothing it sees.
LEMMA LedgerStep ==
    ASSUME PipelineInv, [Next]_vars
    PROVE  [Ledger!Next]_(Ledger!ledger)
<1> USE DEF PipelineInv
<1>0. TypeOK'
  BY TypeStep
<1>1. ASSUME NEW r \in Records, addRequestData(r) PROVE Ledger!Accept(r)
  <2>1. /\ pending' = Append(pending, r) /\ UNCHANGED <<sent, delivered, restarts>>
        /\ r \notin collected /\ collected' = collected \cup {r}
    BY <1>1 DEF addRequestData
  <2>2. Range(pending') = Range(pending) \cup {r}
    BY <2>1, AppendFacts DEF TypeOK
  <2>3. r \notin Held /\ r \notin delivered
    BY <2>1 DEF OnlyCollected
  <2>4. Held' = Held \cup {r}
    BY <2>1, <2>2 DEF Held, InFlight
  <2> QED BY <2>1, <2>3, <2>4 DEF Ledger!Accept, Owed
<1>2. CASE FinishSave
  BY <1>2, LedgerStutter DEF FinishSave, memory, history, Held, InFlight
<1>3. CASE scheduleStatsReporting \/ reportStats
  BY <1>3, LedgerStutter DEF scheduleStatsReporting, reportStats, memory, history, Held, InFlight
<1>4. CASE requestsData
  BY <1>4, LedgerStutter DEF requestsData, memory, history, Held, InFlight
<1>5. ASSUME NEW t \in Transactions, NEW c \in ConfiguredCounts, createSendTransaction(t, c)
      PROVE [Ledger!Next]_(Ledger!ledger)
  BY <1>5, MemoryCreate, LedgerStutter DEF createSendTransaction, history, MemoryInv
<1>6. ASSUME NEW t \in Transactions, ServerReceives(t)
      PROVE [Ledger!Next]_(Ledger!ledger)
  <2> DEFINE S == Range(sent[t]) \ delivered
  <2>1. /\ Held' = Held /\ Range(sent[t]) \subseteq Held
        /\ delivered' = delivered \cup Range(sent[t])
        /\ UNCHANGED <<collected, restarts>>
    BY <1>6, MemoryReceive DEF ServerReceives, MemoryInv
  <2>2. S \subseteq Owed /\ Owed' = Owed \ S /\ delivered' = delivered \cup S
    BY <2>1 DEF Owed
  <2>3. Ledger!Deliver(S) /\ S \in SUBSET Owed
    BY <2>1, <2>2 DEF Ledger!Deliver
  <2> QED BY <2>3 DEF Ledger!Next
<1>7. ASSUME NEW t \in Transactions, deleteTransaction(t)
      PROVE [Ledger!Next]_(Ledger!ledger)
  <2>1. /\ Ended(t) /\ uploads[t] = "received"
        /\ UNCHANGED <<pending, delivered, collected, restarts>>
    BY <1>7 DEF deleteTransaction
  <2>2. InFlight = InFlight' \cup Range(sent[t])
    BY <2>1, EndedFacts
  <2>3. Range(sent[t]) \subseteq delivered
    BY <2>1 DEF ReceivedDelivered
  <2>4. Owed' = Owed
    BY <2>1, <2>2, <2>3 DEF Owed, Held
  <2> QED BY <2>1, <2>4 DEF Ledger!ledger
<1>8. ASSUME NEW t \in Transactions, restoreTransaction(t)
      PROVE [Ledger!Next]_(Ledger!ledger)
  BY <1>8, MemoryRestore, LedgerStutter DEF restoreTransaction, history, MemoryInv
<1>9. CASE Restart
  <2> DEFINE S == Owed \ Range(file)
  <2>1. restarts' = restarts + 1 /\ UNCHANGED <<delivered, collected>>
    BY <1>9 DEF Restart
  <2>2. Held' = Range(file)
    BY <1>9, EmptyFacts DEF Restart, loadRequestsData, Held, InFlight
  <2>3. Owed' = Owed \ S /\ S \subseteq Owed
    BY <2>1, <2>2 DEF Owed, NothingResurrected
  <2>4. Ledger!Kill(S) /\ S \in SUBSET Owed
    BY <2>1, <2>3 DEF Ledger!Kill
  <2> QED BY <2>4 DEF Ledger!Next
<1>10. CASE UNCHANGED vars
  BY <1>10, LedgerStutter DEF vars, Held, InFlight
<1>11. ASSUME NEW r \in Records, addRequestData(r) PROVE [Ledger!Next]_(Ledger!ledger)
  BY <1>1, <1>11 DEF Ledger!Next
<1> QED BY <1>2, <1>3, <1>4, <1>5, <1>6, <1>7, <1>8, <1>9, <1>10, <1>11
        DEF Next, Running, Collecting, Reporting, Uploading

\* The queue, the transactions, the file and the completions implement StatsLedger:
\* a record that was collected is owed until the server has it, and only a kill can
\* cancel the debt.
THEOREM LedgerCorrect == Spec => ImplementsLedger
<1>1. Init => Ledger!Init
  BY EmptyFacts DEF Init, Ledger!Init, Owed, Held, InFlight
<1> QED BY <1>1, PipelineCorrect, LedgerStep, PTL DEF Spec, ImplementsLedger, Ledger!Spec

-----------------------------------------------------------------------------
(* Without kills and lost answers the server sees a record once. *)

\* What has not been sent, or is on its way, has not been received.
Undelivered ==
    /\ Range(pending) \cap delivered = {}
    /\ \A t \in Transactions : uploads[t] = "sent" => Range(sent[t]) \cap delivered = {}

\* Undelivered is kept: only an upload that never arrived is put back.
LEMMA UndeliveredStep ==
    ASSUME MaxRestarts = 0, FailureStates \subseteq {"sent"},
           TypeOK, HeldOnce, OnlyCollected, Undelivered, [Next]_vars
    PROVE  Undelivered'
<1>1. ASSUME NEW r \in Records, addRequestData(r) PROVE Undelivered'
  <2>1. /\ pending' = Append(pending, r) /\ UNCHANGED <<sent, uploads, delivered>>
        /\ r \notin delivered
    BY <1>1 DEF addRequestData, OnlyCollected
  <2>2. Range(pending') = Range(pending) \cup {r}
    BY <2>1, AppendFacts DEF TypeOK
  <2> QED BY <2>1, <2>2 DEF Undelivered
<1>2. CASE FinishSave
  BY <1>2 DEF FinishSave, memory, history, Undelivered
<1>3. CASE scheduleStatsReporting \/ reportStats
  BY <1>3 DEF scheduleStatsReporting, reportStats, memory, history, Undelivered
<1>4. CASE requestsData
  BY <1>4 DEF requestsData, memory, history, Undelivered
<1>5. ASSUME NEW t \in Transactions, NEW c \in ConfiguredCounts, createSendTransaction(t, c)
      PROVE Undelivered'
  <2>1. /\ Range(sent'[t]) \subseteq Range(pending) /\ Range(pending') \subseteq Range(pending)
        /\ \A u \in Transactions \ {t} : sent'[u] = sent[u] /\ uploads'[u] = uploads[u]
    BY <1>5, BatchFacts DEF createSendTransaction, TypeOK
  <2> QED BY <1>5, <2>1 DEF createSendTransaction, history, Undelivered
<1>6. ASSUME NEW t \in Transactions, ServerReceives(t) PROVE Undelivered'
  <2>1. /\ uploads'[t] = "received" /\ \A u \in Transactions \ {t} : uploads'[u] = uploads[u]
        /\ delivered' = delivered \cup Range(sent[t]) /\ UNCHANGED <<pending, sent>>
    BY <1>6 DEF ServerReceives, TypeOK
  <2>2. /\ Range(sent[t]) \cap Range(pending) = {}
        /\ \A u \in Transactions \ {t} : Range(sent[t]) \cap Range(sent[u]) = {}
    BY DEF HeldOnce
  <2> QED BY <2>1, <2>2 DEF Undelivered
<1>7. ASSUME NEW t \in Transactions, deleteTransaction(t) PROVE Undelivered'
  BY <1>7, EndedFacts DEF deleteTransaction, Undelivered
<1>8. ASSUME NEW t \in Transactions, restoreTransaction(t) PROVE Undelivered'
  <2>1. /\ Ended(t) /\ pending' = pending \o sent[t] /\ delivered' = delivered
        /\ uploads[t] = "sent"
    BY <1>8 DEF restoreTransaction, Restored, history
  <2>2. pending \in Seq(Records) /\ sent[t] \in Seq(Records)
    BY DEF TypeOK
  <2>3. Range(pending') = Range(pending) \cup Range(sent[t])
    BY <2>1, <2>2, ConcatFacts
  <2> QED BY <2>1, <2>3, EndedFacts DEF Undelivered
<1>9. ~Restart
  BY RequestStatsAssumption DEF Restart, TypeOK
<1>10. CASE UNCHANGED vars
  BY <1>10 DEF vars, Undelivered
<1> QED BY <1>1, <1>2, <1>3, <1>4, <1>5, <1>6, <1>7, <1>8, <1>9, <1>10
        DEF Next, Running, Collecting, Reporting, Uploading

\* Failed uploads alone never make the server count a request twice: that takes a
\* lost answer or a kill.
THEOREM AtMostOnceCorrect ==
    ASSUME MaxRestarts = 0, FailureStates \subseteq {"sent"}
    PROVE  Spec => AtMostOnce
<1>1. Init => Undelivered
  BY EmptyFacts DEF Init, Undelivered
<1>2. PipelineInv /\ Undelivered /\ [Next]_vars => Undelivered'
  BY UndeliveredStep DEF PipelineInv
<1>3. Undelivered =>
        [\A t \in Transactions :
           uploads'[t] = "received" /\ uploads[t] = "sent"
              => Range(sent[t]) \cap delivered = {}]_vars
  BY DEF Undelivered
<1> QED BY <1>1, <1>2, <1>3, PipelineCorrect, PTL DEF Spec, AtMostOnce

-----------------------------------------------------------------------------
(* The debug call that empties the vector and the file without mLock.  It   *)
(* breaks the assertion of createTransaction and it loses records; until    *)
(* the application is killed that is all it does.  (A kill may find a file  *)
(* in which purgeResave has written a record a second time.)                *)

\* The debug call keeps the type of the state, and the file gets records of the vector.
LEMMA TypePurge ==
    ASSUME TypeOK, Purge
    PROVE  TypeOK' /\ Range(file') \subseteq Range(file) \cup Range(pending)
<1>1. file \in Seq(Records) /\ pending \in Seq(Records)
  BY DEF TypeOK
<1>2. CASE deleteAllData
  BY <1>2, EmptySeq DEF TypeOK, deleteAllData, disk, history
<1>3. CASE purgeFile \/ purgeResave
  <2>1. file' \in Seq(Records) /\ Range(file') \subseteq Range(file) \cup Range(pending)
    <3>1. CASE file' = <<>>
      BY <3>1, EmptySeq, EmptyFacts
    <3>2. CASE file' = file \o pending
      BY <1>1, <3>2, ConcatFacts
    <3>3. CASE file' = file
      BY <1>1, <3>3
    <3> QED BY <1>3, <3>1, <3>2, <3>3 DEF purgeFile, purgeResave
  <2> QED BY <1>3, <2>1 DEF TypeOK, purgeFile, purgeResave, memory, history
<1> QED BY <1>2, <1>3 DEF Purge

\* In memory the debug call only removes records.
LEMMA MemoryPurge ==
    ASSUME TypeOK, MemoryInv, Purge
    PROVE  MemoryInv'
<1> USE DEF MemoryInv
<1>1. /\ pending' = <<>> \/ pending' = pending
      /\ UNCHANGED <<sent, uploads, saving, collected, delivered>>
  BY DEF Purge, deleteAllData, purgeFile, purgeResave, memory, disk, history
<1>2. /\ Range(pending') \subseteq Range(pending)
      /\ IsInjective(pending) => IsInjective(pending')
  BY <1>1, EmptyFacts
<1>3. Held' \subseteq Held /\ Range(file') \subseteq Range(file) \cup Held
  BY <1>1, <1>2, TypePurge DEF Held, InFlight
<1>4. HeldOnce'
  BY <1>1, <1>2 DEF HeldOnce
<1>5. NoEmptyTransaction' /\ OnlyCollected' /\ ReceivedDelivered'
  BY <1>1, <1>3 DEF NoEmptyTransaction, OnlyCollected, ReceivedDelivered
<1> QED BY <1>4, <1>5

\* What holds whenever deleteRequestsData may have run: after a kill only the type.
UnlockedInv == TypeOK /\ (restarts = 0 => MemoryInv)

\* The invariant is kept by the debug call and by every other step.
LEMMA UnlockedStep ==
    ASSUME UnlockedInv, [Next \/ Purge]_vars
    PROVE  UnlockedInv'
<1> USE DEF UnlockedInv
<1>1. CASE Purge
  <2>1. restarts' = restarts
    BY <1>1 DEF Purge, deleteAllData, purgeFile, purgeResave, history
  <2> QED BY <1>1, <2>1, TypePurge, MemoryPurge
<1>2. CASE Restart
  <2>1. TypeOK'
    BY <1>2, TypeStep DEF Next
  <2>2. restarts' # 0
    BY <1>2 DEF Restart, TypeOK
  <2> QED BY <2>1, <2>2
<1>3. CASE Running \/ UNCHANGED vars
  <2>1. TypeOK'
    BY <1>3, TypeStep DEF Next
  <2>2. restarts' = restarts
    BY <1>3 DEF Running, Collecting, Reporting, Uploading, addRequestData, FinishSave,
                scheduleStatsReporting, reportStats, requestsData, createSendTransaction, ServerReceives,
                deleteTransaction, restoreTransaction, history, vars
  <2> QED BY <1>3, <2>1, <2>2, MemoryStep
<1> QED BY <1>1, <1>2, <1>3 DEF Next

\* The invariant holds at the first launch.
LEMMA UnlockedInit == Init => UnlockedInv
BY InitTypeOK, PipelineInit DEF UnlockedInv, PipelineInv, MemoryInv

\* Model::deleteRequestsData without mLock, at any point of any other call, puts no
\* record in memory twice, makes no upload empty and invents no record: in a process
\* that is not killed the lost records and the assertion of createTransaction are all
\* the damage there is.
THEOREM DebugMemoryCorrect ==
    DebugSpec => [](TypeOK /\ (restarts = 0 => HeldOnce /\ NoEmptyTransaction /\ OnlyCollected))
<1>1. UnlockedInv =>
        TypeOK /\ (restarts = 0 => HeldOnce /\ NoEmptyTransaction /\ OnlyCollected)
  BY DEF UnlockedInv, MemoryInv
<1>2. UnlockedInv /\ [Next \/ Purge]_vars => UnlockedInv'
  BY UnlockedStep
<1> QED BY <1>1, <1>2, UnlockedInit, PTL DEF DebugSpec

\* Nor does the debug call make the server count a request twice.
THEOREM DebugAtMostOnceCorrect ==
    ASSUME MaxRestarts = 0, FailureStates \subseteq {"sent"}
    PROVE  DebugSpec => AtMostOnce
<1>1. Init => Undelivered
  BY EmptyFacts DEF Init, Undelivered
<1>2. UnlockedInv => TypeOK /\ MemoryInv
  BY RequestStatsAssumption DEF UnlockedInv, TypeOK
<1>3. ASSUME UnlockedInv, Undelivered, [Next \/ Purge]_vars PROVE Undelivered'
  <2>1. CASE [Next]_vars
    BY <1>2, <1>3, <2>1, UndeliveredStep DEF MemoryInv
  <2>2. CASE Purge
    <3>1. UNCHANGED <<sent, uploads, delivered>>
      BY <2>2 DEF Purge, deleteAllData, purgeFile, purgeResave, memory, history
    <3>2. pending' = <<>> \/ pending' = pending
      BY <2>2 DEF Purge, deleteAllData, purgeFile, purgeResave, memory
    <3>3. Range(pending') \subseteq Range(pending)
      BY <3>2, EmptyFacts
    <3> QED BY <1>3, <3>1, <3>3 DEF Undelivered
  <2> QED BY <1>3, <2>1, <2>2
<1>4. Undelivered =>
        [\A t \in Transactions :
           uploads'[t] = "received" /\ uploads[t] = "sent"
              => Range(sent[t]) \cap delivered = {}]_vars
  BY DEF Undelivered
<1>5. UnlockedInv /\ [Next \/ Purge]_vars => UnlockedInv'
  BY UnlockedStep
<1> QED BY <1>1, <1>3, <1>4, <1>5, UnlockedInit, PTL DEF DebugSpec, AtMostOnce
=============================================================================
