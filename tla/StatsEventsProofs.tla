-------------------------- MODULE StatsEventsProofs --------------------------
(***************************************************************************)
(* Proofs about StatsEvents, for any events, records and transactions and  *)
(* any number of kills: the pipeline with events is still the pipeline of  *)
(* RequestStats, so that what RequestStatsProofs shows holds of it too,    *)
(* and every event is accounted for.                                       *)
(***************************************************************************)
EXTENDS StatsEvents, RequestStatsProofs

-----------------------------------------------------------------------------
(* Events do not disturb the records. *)

\* Every step with events is a step of the pipeline, or leaves it alone.
LEMMA EventStepIsStep == [EventNext]_allVars => [Next]_vars
<1> SUFFICES ASSUME [EventNext]_allVars PROVE [Next]_vars
  OBVIOUS
<1>1. ASSUME NEW e \in Events, addEvent(e) PROVE [Next]_vars
  BY <1>1 DEF addEvent
<1>2. CASE addEventWrites
  BY <1>2 DEF addEventWrites
<1>3. ASSUME NEW t \in Transactions, NEW c \in ConfiguredCounts, reportWithRecords(t, c)
      PROVE [Next]_vars
  BY <1>3 DEF reportWithRecords, Next, Running, Reporting
<1>4. CASE reportWithoutRecords
  BY <1>4 DEF reportWithoutRecords, Next, Running, Reporting
<1>5. ASSUME NEW t \in Transactions, eventsArrive(t) PROVE [Next]_vars
  BY <1>5 DEF eventsArrive, Next, Running, Uploading
<1>6. ASSUME NEW t \in Transactions, reportEnds(t) PROVE [Next]_vars
  BY <1>6 DEF reportEnds, Next, Running, Uploading
<1>7. ASSUME NEW es \in bare, bareReportEnds(es) PROVE [Next]_vars
  BY <1>7 DEF bareReportEnds
<1>8. CASE EventRestart
  BY <1>8 DEF EventRestart, Next
<1>9. CASE PipelineOnly
  BY <1>9 DEF PipelineOnly, Next, Running, Reporting
<1>10. CASE UNCHANGED allVars
  BY <1>10 DEF allVars
<1> QED BY <1>1, <1>2, <1>3, <1>4, <1>5, <1>6, <1>7, <1>8, <1>9, <1>10 DEF EventNext

\* The report loop that also carries events behaves towards the records as
\* RequestStats says (logDataArray next to createTransaction).
THEOREM EventsRefinePipeline == EventSpec => Spec
<1>1. EventInit => Init
  BY DEF EventInit
<1> QED BY <1>1, EventStepIsStep, PTL DEF EventSpec, Spec

\* So every copy of a record stays accounted for while events travel with it.
THEOREM PipelineCorrectWithEvents == EventSpec => []PipelineInv
BY EventsRefinePipeline, PipelineCorrect, PTL

\* And so the loop that carries events keeps the promise of StatsLedger: what becomes of
\* an event, or of a report that has only events, is no step for a record.
THEOREM LedgerCorrectWithEvents == EventSpec => ImplementsLedger
BY EventsRefinePipeline, LedgerCorrect, PTL

-----------------------------------------------------------------------------
(* Events. *)

\* An event is aboard when some report in flight has it.
LEMMA AboardDef ==
    ASSUME NEW x
    PROVE  x \in Aboard <=> \/ \E t \in Transactions : x \in Range(carried[t])
                            \/ \E es \in bare : x \in Range(es)
<1> DEFINE A == UNION {Range(carried[t]) : t \in Transactions}
           B == UNION {Range(es) : es \in bare}
<1>1. x \in A <=> \E t \in Transactions : x \in Range(carried[t])
  OBVIOUS
<1>2. x \in B <=> \E es \in bare : x \in Range(es)
  OBVIOUS
<1>3. Aboard = A \cup B
  BY DEF Aboard
<1> HIDE DEF A, B
<1> QED BY <1>1, <1>2, <1>3

\* The same after a step.
LEMMA AboardPrime ==
    ASSUME NEW x
    PROVE  x \in Aboard' <=> \/ \E t \in Transactions : x \in Range(carried'[t])
                             \/ \E es \in bare' : x \in Range(es)
<1> DEFINE A == UNION {Range(carried'[t]) : t \in Transactions}
           B == UNION {Range(es) : es \in bare'}
<1>1. x \in A <=> \E t \in Transactions : x \in Range(carried'[t])
  OBVIOUS
<1>2. x \in B <=> \E es \in bare' : x \in Range(es)
  OBVIOUS
<1>3. Aboard' = A \cup B
  BY DEF Aboard
<1> HIDE DEF A, B
<1> QED BY <1>1, <1>2, <1>3

\* What the event file and the array about to replace it have: when one is empty the
\* other is all there is.
LEMMA ConcatParts ==
    ASSUME NEW S, NEW s \in Seq(S), NEW u \in Seq(S), IsInjective(s \o u)
    PROVE  /\ IsInjective(s) /\ IsInjective(u) /\ IsInjective(<<>> \o u)
           /\ Range(s) \cap Range(u) = {}
<1> DEFINE c == s \o u
<1>1. /\ SubSeq(c, 1, Len(s)) = s
      /\ SubSeq(c, Len(s) + 1, Len(c)) = u
      /\ Len(s) \in 0 .. Len(c)
      /\ c \in Seq(S)
  OBVIOUS
<1>2. <<>> \o u = u
  OBVIOUS
<1> HIDE DEF c
<1>3. /\ IsInjective(SubSeq(c, 1, Len(s)))
      /\ IsInjective(SubSeq(c, Len(s) + 1, Len(c)))
      /\ Range(SubSeq(c, 1, Len(s))) \cap Range(SubSeq(c, Len(s) + 1, Len(c))) = {}
  BY <1>1, SplitFacts DEF c
<1> QED BY <1>1, <1>2, <1>3

\* Nothing is recorded at first.
LEMMA EventInvInit == EventInit => EventInv
<1> SUFFICES ASSUME EventInit PROVE EventInv
  OBVIOUS
<1> USE DEF EventInit
<1>1. EventTypeOK
  BY EmptySeq DEF EventTypeOK
<1>2. Aboard = {} /\ Range(eventFile) = {} /\ Range(adding) = {}
  BY EmptyFacts DEF Aboard
<1>3. IsInjective(eventFile \o adding)
  <2>1. <<>> \o <<>> = <<>>
    OBVIOUS
  <2> QED BY <2>1, EmptyFacts
<1>4. \A t \in Transactions : carried[t] = <<>> /\ Range(carried[t]) = {}
  BY EmptyFacts
<1>5. EventsAccounted
  BY <1>2, <1>3, <1>4 DEF EventsAccounted
<1> QED BY <1>1, <1>4, <1>5 DEF EventInv, WriteAhead, CarriedByUploads, Init

\* What the invariant says when nothing about events changes but some uploads that
\* carry none.
LEMMA EventInvKept ==
    ASSUME EventInv, UNCHANGED eventVars,
           \A t \in Transactions : uploads'[t] = uploads[t]
    PROVE  EventInv'
<1>1. Aboard' = Aboard
  BY DEF eventVars, Aboard
<1> QED BY <1>1 DEF EventInv, EventTypeOK, EventsAccounted, WriteAhead, CarriedByUploads, eventVars

\* data_storage::addEvent up to the removal of the file.
LEMMA EventInvAdd ==
    ASSUME EventInv, NEW e \in Events, addEvent(e)
    PROVE  EventInv'
<1> USE DEF EventInv
<1>1. /\ adding = <<>> /\ e \notin recorded
      /\ adding' = Append(eventFile, e) /\ eventFile' = <<>>
      /\ recorded' = recorded \cup {e}
      /\ UNCHANGED <<uploads, carried, bare, arrived, forfeited>>
  BY DEF addEvent, vars
<1>2. /\ Append(eventFile, e) \in Seq(Events)
      /\ Range(adding') = Range(eventFile) \cup {e}
      /\ Range(eventFile') = {} /\ Range(adding) = {}
  BY <1>1, AppendFacts, EmptyFacts DEF EventTypeOK
<1>3. EventTypeOK'
  BY <1>1, <1>2, EmptySeq DEF EventTypeOK
<1>4. Aboard' = Aboard
  BY <1>1 DEF Aboard
<1>5. IsInjective(eventFile' \o adding')
  <2>1. eventFile \o adding = eventFile /\ eventFile' \o adding' = adding'
    BY <1>1, <1>2 DEF EventTypeOK
  <2>2. IsInjective(eventFile) /\ e \notin Range(eventFile)
    BY <1>1, <2>1 DEF EventsAccounted
  <2> QED BY <1>1, <2>1, <2>2, AppendFacts DEF EventTypeOK
<1>6. e \notin Aboard \cup arrived \cup forfeited
  BY <1>1 DEF EventsAccounted
<1>7. EventsAccounted'
  <2>1. recorded' = (Range(eventFile) \cup Range(adding) \cup Aboard \cup arrived \cup forfeited)'
    BY <1>1, <1>2, <1>4 DEF EventsAccounted
  <2>2. (Range(eventFile') \cup Range(adding')) \cap (Aboard' \cup arrived' \cup forfeited') = {}
    BY <1>1, <1>2, <1>4, <1>6 DEF EventsAccounted
  <2> QED BY <1>1, <1>5, <2>1, <2>2 DEF EventsAccounted
<1> QED BY <1>1, <1>3, <1>7 DEF WriteAhead, CarriedByUploads

\* Its write.
LEMMA EventInvWrite ==
    ASSUME EventInv, addEventWrites
    PROVE  EventInv'
<1> USE DEF EventInv
<1>1. /\ eventFile = <<>> /\ eventFile' = adding /\ adding' = <<>>
      /\ UNCHANGED <<uploads, carried, bare, recorded, arrived, forfeited>>
  BY DEF addEventWrites, vars, WriteAhead
<1>2. EventTypeOK'
  BY <1>1, EmptySeq DEF EventTypeOK
<1>3. Aboard' = Aboard
  BY <1>1 DEF Aboard
<1>4. eventFile' \o adding' = eventFile \o adding
  BY <1>1 DEF EventTypeOK
<1>5. EventsAccounted'
  BY <1>1, <1>3, <1>4 DEF EventsAccounted
<1> QED BY <1>1, <1>2, <1>5 DEF WriteAhead, CarriedByUploads
\* The report of a transaction takes the events of the file: they were in no other.
LEMMA EventInvReport ==
    ASSUME PipelineInv, EventInv,
           NEW t \in Transactions, NEW c \in ConfiguredCounts, reportWithRecords(t, c)
    PROVE  EventInv'
<1> USE DEF EventInv
<1>1. /\ sent[t] = <<>> /\ uploads' = [uploads EXCEPT ![t] = "sent"]
      /\ carried' = [carried EXCEPT ![t] = eventFile] /\ eventFile' = <<>>
      /\ UNCHANGED <<adding, bare, recorded, arrived, forfeited>>
  BY DEF reportWithRecords, createSendTransaction, logDataArray
<1>2. uploads[t] = "none" /\ carried[t] = <<>>
  BY <1>1 DEF PipelineInv, NoEmptyTransaction, CarriedByUploads
<1>3. /\ carried'[t] = eventFile /\ uploads'[t] = "sent"
      /\ \A u \in Transactions \ {t} : carried'[u] = carried[u] /\ uploads'[u] = uploads[u]
      /\ Range(carried[t]) = {} /\ Range(eventFile') = {}
  BY <1>1, <1>2, EmptyFacts DEF EventTypeOK, PipelineInv, TypeOK
<1>4. EventTypeOK'
  BY <1>1, EmptySeq DEF EventTypeOK
<1>5. Aboard' = Aboard \cup Range(eventFile)
  <2>1. ASSUME NEW x \in Aboard' PROVE x \in Aboard \cup Range(eventFile)
    BY <1>1, <1>3, <2>1, AboardDef, AboardPrime
  <2>2. ASSUME NEW x \in Aboard PROVE x \in Aboard'
    BY <1>1, <1>3, <2>2, AboardDef, AboardPrime
  <2>3. ASSUME NEW x \in Range(eventFile) PROVE x \in Aboard'
    BY <1>3, <2>3, AboardPrime
  <2> QED BY <2>1, <2>2, <2>3
<1>6. IsInjective(eventFile' \o adding')
  BY <1>1, ConcatParts DEF EventsAccounted, EventTypeOK
<1>7. \A x \in Range(eventFile) : x \notin Aboard \cup arrived \cup forfeited
  BY DEF EventsAccounted
<1>8. EventsAccounted'
  <2>1. recorded' = (Range(eventFile) \cup Range(adding) \cup Aboard \cup arrived \cup forfeited)'
    BY <1>1, <1>3, <1>5 DEF EventsAccounted
  <2>2. (Range(eventFile') \cup Range(adding')) \cap (Aboard' \cup arrived' \cup forfeited') = {}
    BY <1>1, <1>3, <1>5, ConcatParts DEF EventsAccounted, EventTypeOK
  <2>3. \A u \in Transactions : u # t => Range(carried[u]) \cap Range(eventFile) = {}
    BY <1>7, AboardDef
  <2>4. \A es \in bare : Range(es) \cap Range(eventFile) = {}
    BY <1>7, AboardDef
  <2>5. \A u, v \in Transactions : u # v => Range(carried'[u]) \cap Range(carried'[v]) = {}
    BY <1>3, <2>3 DEF EventsAccounted
  <2>6. \A es, fs \in bare' : es # fs => Range(es) \cap Range(fs) = {}
    BY <1>1 DEF EventsAccounted
  <2>7. \A u \in Transactions, es \in bare' : Range(carried'[u]) \cap Range(es) = {}
    BY <1>1, <1>3, <2>4 DEF EventsAccounted
  <2>8. \A u \in Transactions :
           uploads'[u] # "received" => Range(carried'[u]) \cap (arrived' \cup forfeited') = {}
    BY <1>1, <1>3, <1>7 DEF EventsAccounted
  <2>9. \A es \in bare' : Range(es) \cap (arrived' \cup forfeited') = {}
    BY <1>1 DEF EventsAccounted
  <2> QED BY <1>6, <2>1, <2>2, <2>5, <2>6, <2>7, <2>8, <2>9 DEF EventsAccounted
<1> QED BY <1>1, <1>3, <1>4, <1>8 DEF WriteAhead, CarriedByUploads

\* The report of an empty vector takes them just the same.
LEMMA EventInvBare ==
    ASSUME EventInv, reportWithoutRecords
    PROVE  EventInv'
<1> USE DEF EventInv
<1>1. /\ eventFile' = <<>> /\ Range(eventFile') = {}
      /\ bare' = IF eventFile = <<>> THEN bare ELSE bare \cup {eventFile}
      /\ UNCHANGED <<uploads, adding, carried, recorded, arrived, forfeited>>
  BY EmptyFacts DEF reportWithoutRecords, requestsData, memory, logDataArray
<1>2. EventTypeOK'
  BY <1>1, EmptySeq DEF EventTypeOK
<1>3. Aboard' = Aboard \cup Range(eventFile)
  <2>1. CASE eventFile = <<>>
    BY <1>1, <2>1, EmptyFacts DEF Aboard
  <2>2. CASE eventFile # <<>>
    <3>1. ASSUME NEW x \in Aboard' PROVE x \in Aboard \cup Range(eventFile)
      BY <1>1, <2>2, <3>1, AboardDef, AboardPrime
    <3>2. ASSUME NEW x \in Aboard \cup Range(eventFile) PROVE x \in Aboard'
      BY <1>1, <2>2, <3>2, AboardDef, AboardPrime
    <3> QED BY <3>1, <3>2
  <2> QED BY <2>1, <2>2
<1>4. IsInjective(eventFile' \o adding')
  BY <1>1, ConcatParts DEF EventsAccounted, EventTypeOK
<1>5. \A x \in Range(eventFile) : x \notin Aboard \cup arrived \cup forfeited
  BY DEF EventsAccounted
<1>6. EventsAccounted'
  <2>1. recorded' = (Range(eventFile) \cup Range(adding) \cup Aboard \cup arrived \cup forfeited)'
    BY <1>1, <1>3 DEF EventsAccounted
  <2>2. (Range(eventFile') \cup Range(adding')) \cap (Aboard' \cup arrived' \cup forfeited') = {}
    BY <1>1, <1>3, ConcatParts DEF EventsAccounted, EventTypeOK
  <2>3. \A u \in Transactions : Range(carried[u]) \cap Range(eventFile) = {}
    BY <1>5, AboardDef
  <2>4. \A es \in bare : Range(es) \cap Range(eventFile) = {}
    BY <1>5, AboardDef
  <2> QED BY <1>1, <1>4, <1>5, <2>1, <2>2, <2>3, <2>4 DEF EventsAccounted
<1> QED BY <1>1, <1>2, <1>6 DEF WriteAhead, CarriedByUploads

\* The stats server gets a report: its events were with nobody else.
LEMMA EventInvArrive ==
    ASSUME PipelineInv, EventInv, NEW t \in Transactions, eventsArrive(t)
    PROVE  EventInv'
<1> USE DEF EventInv
<1>1. /\ uploads[t] = "sent" /\ uploads' = [uploads EXCEPT ![t] = "received"]
      /\ arrived' = arrived \cup Range(carried[t])
      /\ UNCHANGED <<eventFile, adding, carried, bare, recorded, forfeited>>
  BY DEF eventsArrive, ServerReceives
<1>2. /\ uploads'[t] = "received"
      /\ \A u \in Transactions \ {t} : uploads'[u] = uploads[u]
  BY <1>1 DEF PipelineInv, TypeOK
<1>3. Aboard' = Aboard
  BY <1>1 DEF Aboard
<1>4. Range(carried[t]) \subseteq Aboard
  BY AboardDef
<1>5. EventsAccounted'
  <2>1. recorded' = (Range(eventFile) \cup Range(adding) \cup Aboard \cup arrived \cup forfeited)'
    BY <1>1, <1>3, <1>4 DEF EventsAccounted
  <2>2. (Range(eventFile') \cup Range(adding')) \cap (Aboard' \cup arrived' \cup forfeited') = {}
    BY <1>1, <1>3, <1>4 DEF EventsAccounted
  <2>3. \A u \in Transactions : uploads'[u] # "received"
           => Range(carried[u]) \cap (arrived' \cup forfeited') = {}
    <3> SUFFICES ASSUME NEW u \in Transactions, uploads'[u] # "received"
                 PROVE  Range(carried[u]) \cap (arrived' \cup forfeited') = {}
      OBVIOUS
    <3>1. u # t /\ uploads[u] # "received"
      BY <1>2
    <3>2. /\ Range(carried[u]) \cap (arrived \cup forfeited) = {}
          /\ Range(carried[u]) \cap Range(carried[t]) = {}
      BY <3>1 DEF EventsAccounted
    <3> QED BY <1>1, <3>2
  <2>4. \A es \in bare : Range(es) \cap (arrived' \cup forfeited') = {}
    <3> SUFFICES ASSUME NEW es \in bare
                 PROVE  Range(es) \cap (arrived' \cup forfeited') = {}
      OBVIOUS
    <3>1. /\ Range(es) \cap (arrived \cup forfeited) = {}
          /\ Range(carried[t]) \cap Range(es) = {}
      BY DEF EventsAccounted
    <3> QED BY <1>1, <3>1
  <2> QED BY <1>1, <2>1, <2>2, <2>3, <2>4 DEF EventsAccounted
<1> QED BY <1>1, <1>2, <1>5 DEF EventTypeOK, WriteAhead, CarriedByUploads

\* A completion forgets the report of its transaction: its events have arrived, or are
\* lost with it.
LEMMA EventInvEnd ==
    ASSUME PipelineInv, EventInv, NEW t \in Transactions, reportEnds(t)
    PROVE  EventInv'
<1> USE DEF EventInv
<1>1. /\ uploads[t] \in {"sent", "received"} /\ Ended(t)
      /\ carried' = [carried EXCEPT ![t] = <<>>]
      /\ forfeited' = IF uploads[t] = "sent" THEN forfeited \cup Range(carried[t]) ELSE forfeited
      /\ UNCHANGED <<eventFile, adding, bare, recorded, arrived>>
  BY RequestStatsAssumption DEF reportEnds, deleteTransaction, restoreTransaction
<1>2. /\ carried'[t] = <<>> /\ Range(carried'[t]) = {} /\ uploads'[t] = "none"
      /\ \A u \in Transactions \ {t} : carried'[u] = carried[u] /\ uploads'[u] = uploads[u]
  BY <1>1, EmptyFacts DEF PipelineInv, TypeOK, EventTypeOK, Ended
<1>3. EventTypeOK'
  BY <1>1, EmptySeq DEF EventTypeOK
<1>4. Aboard = Aboard' \cup Range(carried[t])
  <2>1. ASSUME NEW x \in Aboard PROVE x \in Aboard' \cup Range(carried[t])
    BY <1>1, <1>2, <2>1, AboardDef, AboardPrime
  <2>2. ASSUME NEW x \in Aboard' PROVE x \in Aboard
    BY <1>1, <1>2, <2>2, AboardDef, AboardPrime
  <2>3. Range(carried[t]) \subseteq Aboard
    BY AboardDef
  <2> QED BY <2>1, <2>2, <2>3
<1>5. /\ arrived \cup forfeited' = arrived \cup forfeited \cup Range(carried[t])
  BY <1>1 DEF CarriedByUploads
<1>6. EventsAccounted'
  <2>1. recorded' = (Range(eventFile) \cup Range(adding) \cup Aboard \cup arrived \cup forfeited)'
    BY <1>1, <1>4, <1>5 DEF EventsAccounted
  <2>2. (Range(eventFile') \cup Range(adding')) \cap (Aboard' \cup arrived' \cup forfeited') = {}
    BY <1>1, <1>4, <1>5 DEF EventsAccounted
  <2>3. \A u \in Transactions : uploads'[u] # "received"
           => Range(carried'[u]) \cap (arrived' \cup forfeited') = {}
    <3> SUFFICES ASSUME NEW u \in Transactions, uploads'[u] # "received"
                 PROVE  Range(carried'[u]) \cap (arrived' \cup forfeited') = {}
      OBVIOUS
    <3>1. CASE u = t
      BY <1>2, <3>1
    <3>2. CASE u # t
      <4>1. /\ Range(carried[u]) \cap (arrived \cup forfeited) = {}
            /\ Range(carried[u]) \cap Range(carried[t]) = {}
        BY <1>2, <3>2 DEF EventsAccounted
      <4> QED BY <1>1, <1>2, <3>2, <4>1
    <3> QED BY <3>1, <3>2
  <2>4. \A es \in bare : Range(es) \cap (arrived' \cup forfeited') = {}
    <3> SUFFICES ASSUME NEW es \in bare
                 PROVE  Range(es) \cap (arrived' \cup forfeited') = {}
      OBVIOUS
    <3>1. /\ Range(es) \cap (arrived \cup forfeited) = {}
          /\ Range(carried[t]) \cap Range(es) = {}
      BY DEF EventsAccounted
    <3> QED BY <1>1, <3>1
  <2>5. /\ \A v, u \in Transactions : v # u => Range(carried'[v]) \cap Range(carried'[u]) = {}
        /\ \A u \in Transactions, es \in bare : Range(carried'[u]) \cap Range(es) = {}
    BY <1>2 DEF EventsAccounted
  <2> QED BY <1>1, <2>1, <2>2, <2>3, <2>4, <2>5 DEF EventsAccounted
<1> QED BY <1>1, <1>2, <1>3, <1>6 DEF WriteAhead, CarriedByUploads

\* So does the end of a report without transaction.
LEMMA EventInvBareEnd ==
    ASSUME EventInv, NEW es \in bare, bareReportEnds(es)
    PROVE  EventInv'
<1> USE DEF EventInv
<1>1. /\ bare' = bare \ {es}
      /\ arrived' \cup forfeited' = arrived \cup forfeited \cup Range(es)
      /\ arrived \subseteq arrived'
      /\ UNCHANGED <<uploads, eventFile, adding, carried, recorded>>
  BY DEF bareReportEnds, vars
<1>2. EventTypeOK'
  BY <1>1 DEF EventTypeOK
<1>3. Aboard = Aboard' \cup Range(es)
  <2>1. ASSUME NEW x \in Aboard PROVE x \in Aboard' \cup Range(es)
    BY <1>1, <2>1, AboardDef, AboardPrime
  <2>2. ASSUME NEW x \in Aboard' PROVE x \in Aboard
    BY <1>1, <2>2, AboardDef, AboardPrime
  <2>3. Range(es) \subseteq Aboard
    BY AboardDef
  <2> QED BY <2>1, <2>2, <2>3
<1>4. EventsAccounted'
  <2>1. recorded' = (Range(eventFile) \cup Range(adding) \cup Aboard \cup arrived \cup forfeited)'
    BY <1>1, <1>3 DEF EventsAccounted
  <2>2. (Range(eventFile') \cup Range(adding')) \cap (Aboard' \cup arrived' \cup forfeited') = {}
    BY <1>1, <1>3 DEF EventsAccounted
  <2>3. \A u \in Transactions : uploads[u] # "received"
           => Range(carried[u]) \cap (arrived' \cup forfeited') = {}
    <3> SUFFICES ASSUME NEW u \in Transactions, uploads[u] # "received"
                 PROVE  Range(carried[u]) \cap (arrived' \cup forfeited') = {}
      OBVIOUS
    <3>1. /\ Range(carried[u]) \cap (arrived \cup forfeited) = {}
          /\ Range(carried[u]) \cap Range(es) = {}
      BY DEF EventsAccounted
    <3> QED BY <1>1, <3>1
  <2>4. \A fs \in bare' : Range(fs) \cap (arrived' \cup forfeited') = {}
    <3> SUFFICES ASSUME NEW fs \in bare'
                 PROVE  Range(fs) \cap (arrived' \cup forfeited') = {}
      OBVIOUS
    <3>1. /\ Range(fs) \cap (arrived \cup forfeited) = {}
          /\ Range(fs) \cap Range(es) = {}
      BY <1>1 DEF EventsAccounted
    <3> QED BY <1>1, <3>1
  <2> QED BY <1>1, <2>1, <2>2, <2>3, <2>4 DEF EventsAccounted
<1> QED BY <1>1, <1>2, <1>4 DEF WriteAhead, CarriedByUploads

\* A kill: what was aboard or not yet written is lost, what is in the file is not.
LEMMA EventInvRestart ==
    ASSUME EventInv, EventRestart
    PROVE  EventInv'
<1> USE DEF EventInv
<1>1. /\ uploads' = [t \in Transactions |-> "none"]
      /\ adding' = <<>> /\ Range(adding') = {}
      /\ carried' = [t \in Transactions |-> <<>>] /\ bare' = {}
      /\ forfeited' = forfeited \cup ((Aboard \cup Range(adding)) \ arrived)
      /\ UNCHANGED <<eventFile, recorded, arrived>>
  BY EmptyFacts DEF EventRestart, Restart, loadRequestsData
<1>2. EventTypeOK'
  BY <1>1, EmptySeq DEF EventTypeOK
<1>3. \A t \in Transactions : carried'[t] = <<>> /\ Range(carried'[t]) = {} /\ uploads'[t] = "none"
  BY <1>1, EmptyFacts
<1>4. Aboard' = {}
  BY <1>1, <1>3, AboardPrime
<1>5. IsInjective(eventFile' \o adding') /\ Range(eventFile) \cap Range(adding) = {}
  <2>1. eventFile \o <<>> = eventFile
    BY DEF EventTypeOK
  <2> QED BY <1>1, <2>1, ConcatParts DEF EventsAccounted, EventTypeOK
<1>6. EventsAccounted'
  <2>1. recorded' = (Range(eventFile) \cup Range(adding) \cup Aboard \cup arrived \cup forfeited)'
    BY <1>1, <1>4 DEF EventsAccounted
  <2>2. (Range(eventFile') \cup Range(adding')) \cap (Aboard' \cup arrived' \cup forfeited') = {}
    BY <1>1, <1>4, <1>5 DEF EventsAccounted
  <2> QED BY <1>1, <1>3, <1>5, <2>1, <2>2 DEF EventsAccounted
<1> QED BY <1>1, <1>2, <1>3, <1>6 DEF WriteAhead, CarriedByUploads

\* Every step keeps the invariant.
LEMMA EventInvStep ==
    ASSUME PipelineInv, EventInv, [EventNext]_allVars
    PROVE  EventInv'
<1>1. CASE PipelineOnly
  <2>1. UNCHANGED eventVars
    BY <1>1 DEF PipelineOnly
  <2>2. UNCHANGED uploads
    BY <1>1 DEF PipelineOnly, Collecting, addRequestData, FinishSave,
                scheduleStatsReporting, reportStats, requestsData, memory
  <2> QED BY <2>1, <2>2, EventInvKept
<1>2. CASE UNCHANGED allVars
  BY <1>2, EventInvKept DEF allVars, vars
<1> QED BY <1>1, <1>2, EventInvAdd, EventInvWrite, EventInvReport, EventInvBare, EventInvArrive,
           EventInvEnd, EventInvBareEnd, EventInvRestart DEF EventNext

\* An event is in one report at most, arrives at most once and is lost only with a
\* failed report or to a kill that catches it off the disk (data_storage::addEvent,
\* logDataArray and the completions of Model::reportStats).
THEOREM EventsAccountedCorrect == EventSpec => []EventsAccounted
<1>1. EventInv => EventsAccounted
  BY DEF EventInv
<1> QED BY <1>1, EventInvInit, EventInvStep, PipelineCorrectWithEvents, PTL DEF EventSpec
=============================================================================
