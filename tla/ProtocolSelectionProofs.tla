----------------------- MODULE ProtocolSelectionProofs -----------------------
(***************************************************************************)
(* Proofs about ProtocolSelection and the tester it extends, for any       *)
(* configurations, any number of loads that complete at the same time, any *)
(* protocols that may fall silent and any number of connections that       *)
(* report twice.                                                           *)
(*                                                                         *)
(* QuietBetweenRounds says what is left over outside a round and is not    *)
(* inductive: that a round starts clean and that a round in progress has   *)
(* one answer more to come than there are double reports, at most, is      *)
(* what makes it true when the round ends.  RoundInv is that count, in     *)
(* every phase of a round.  AnswerInv is what the count means as long as   *)
(* nothing has reported twice: the one answer to come is from the protocol *)
(* on top of the stack.                                                    *)
(***************************************************************************)
EXTENDS ProtocolSelection, SequenceFacts, FiniteSetTheorems, WellFoundedInduction

-----------------------------------------------------------------------------
(* The inductive invariant. *)

Answers(q) == {i \in DOMAIN q : q[i].op = "result"}

NoStart == \A i \in DOMAIN mainQueue : mainQueue[i].op = "result"

OneStart ==
    \A i, j \in DOMAIN mainQueue : mainQueue[i].op = "start" /\ mainQueue[j].op = "start" => i = j

\* What is to come and may be owed to a double report.
ToCome == Outstanding + Cardinality(breaking)

\* A round that has not been started has nothing on the stack; one that has been
\* started is nowhere in the queue.
RoundInv ==
    /\ OneStart
    /\ ~running \/ toTest # <<>> \/ completing => NoStart
    /\ ~running => toTest = <<>> /\ results = <<>> /\ ~completing
    /\ completing => toTest = <<>>
    /\ ToCome <= doubles + (IF toTest = <<>> THEN 0 ELSE 1)

\* p is the protocol being tested.
Tested(p) == toTest # <<>> /\ p = Top(toTest)

AnswerInv ==
    doubles = 0 =>
        /\ breaking = {}
        /\ ~undefined
        /\ \A p \in Protocols : probes[p] > 0 => Tested(p)
        /\ \A i \in Answers(mainQueue) : Tested(mainQueue[i].from)
        /\ \A i \in DOMAIN results : results[i].id = results[i].from

TesterInv == TesterTypeOK /\ RoundInv /\ AnswerInv

\* What handleTestResults relies on when it runs.
SelectorInv == readWhileOff => confProtos = <<>>

SelectionInv == TypeOK /\ RoundInv /\ AnswerInv /\ SelectorInv

-----------------------------------------------------------------------------
(* Counting answers in the main queue. *)

\* A block is a start with the protocol to ignore, or a result.
LEMMA BlockFacts ==
    ASSUME NEW b \in Block
    PROVE  /\ b.op \in {"start", "result"}
           /\ b.op = "start" => b.ignore \in Protocols \cup {None}
           /\ b.op = "result" => b.ok \in BOOLEAN /\ b.from \in Protocols \cup {None}
BY DEF Block

\* The answers of a queue can be counted.
LEMMA AnswersFinite ==
    ASSUME NEW S, NEW q \in Seq(S)
    PROVE  IsFiniteSet(Answers(q)) /\ Cardinality(Answers(q)) \in Nat
<1>1. Len(q) \in Nat /\ DOMAIN q = 1 .. Len(q)
  OBVIOUS
<1>2. IsFiniteSet(1 .. Len(q))
  BY <1>1, FS_Interval
<1>3. Answers(q) \subseteq 1 .. Len(q)
  BY <1>1 DEF Answers
<1> QED BY <1>2, <1>3, FS_Subset, FS_CardinalityType

\* A block put into the queue is one answer more, if it is a result.
LEMMA AnswersAppend ==
    ASSUME NEW S, NEW q \in Seq(S), NEW b \in S
    PROVE  /\ Append(q, b) \in Seq(S)
           /\ \A i \in DOMAIN Append(q, b) :
                 IF i = Len(q) + 1 THEN Append(q, b)[i] = b
                                   ELSE i \in DOMAIN q /\ Append(q, b)[i] = q[i]
           /\ Cardinality(Answers(Append(q, b)))
                = Cardinality(Answers(q)) + (IF b.op = "result" THEN 1 ELSE 0)
<1> DEFINE a == Append(q, b)
           n == Len(q)
<1>1. /\ a \in Seq(S) /\ n \in Nat
      /\ DOMAIN q = 1 .. n /\ DOMAIN a = 1 .. n + 1
      /\ a[n + 1] = b
      /\ \A i \in 1 .. n : a[i] = q[i]
  OBVIOUS
<1>2. IsFiniteSet(Answers(q)) /\ Cardinality(Answers(q)) \in Nat
  BY AnswersFinite
<1> HIDE DEF a, n
<1>3. \A i \in DOMAIN a : IF i = n + 1 THEN a[i] = b ELSE i \in DOMAIN q /\ a[i] = q[i]
  BY <1>1
<1>4. Cardinality(Answers(a)) = Cardinality(Answers(q)) + (IF b.op = "result" THEN 1 ELSE 0)
  <2>1. CASE b.op = "result"
    <3>1. Answers(a) = Answers(q) \cup {n + 1}
      BY <1>1, <2>1 DEF Answers
    <3>2. n + 1 \notin Answers(q)
      BY <1>1 DEF Answers
    <3> QED BY <1>2, <2>1, <3>1, <3>2, FS_AddElement
  <2>2. CASE b.op # "result"
    <3>1. Answers(a) = Answers(q)
      BY <1>1, <2>2 DEF Answers
    <3> QED BY <1>2, <2>2, <3>1
  <2> QED BY <2>1, <2>2
<1> QED BY <1>1, <1>3, <1>4 DEF a, n

\* The block that is taken from the queue is one answer less, if it was a result.
LEMMA AnswersTail ==
    ASSUME NEW S, NEW q \in Seq(S), q # <<>>
    PROVE  /\ Head(q) \in S /\ 1 \in DOMAIN q /\ Head(q) = q[1]
           /\ Tail(q) \in Seq(S)
           /\ \A i \in DOMAIN Tail(q) : i + 1 \in DOMAIN q /\ i + 1 # 1 /\ Tail(q)[i] = q[i + 1]
           /\ Cardinality(Answers(Tail(q)))
                = Cardinality(Answers(q)) - (IF Head(q).op = "result" THEN 1 ELSE 0)
<1> DEFINE u == Tail(q)
           h == Head(q)
           n == Len(q)
           R == Answers(q) \ {1}
           f == [i \in Answers(u) |-> i + 1]
<1>1. /\ u \in Seq(S) /\ n \in Nat /\ n > 0 /\ h \in S /\ h = q[1]
      /\ DOMAIN q = 1 .. n /\ DOMAIN u = 1 .. n - 1
      /\ \A i \in 1 .. n - 1 : u[i] = q[i + 1]
  OBVIOUS
<1>2. /\ IsFiniteSet(Answers(q)) /\ Cardinality(Answers(q)) \in Nat
      /\ IsFiniteSet(Answers(u))
  BY <1>1, AnswersFinite
<1> HIDE DEF u, h, n
<1>3. \A i \in DOMAIN u : i + 1 \in DOMAIN q /\ i + 1 # 1 /\ u[i] = q[i + 1]
  BY <1>1
<1>4. \A i \in Answers(u) : i + 1 \in R
  BY <1>1 DEF Answers
<1>5. \A j \in R : j - 1 \in Answers(u) /\ (j - 1) + 1 = j
  BY <1>1 DEF Answers
<1>6. Answers(u) \subseteq Int
  BY <1>1 DEF Answers
<1> HIDE DEF R
<1>7. f \in Bijection(Answers(u), R)
  <2>1. f \in [Answers(u) -> R]
    BY <1>4
  <2>2. \A i, j \in Answers(u) : f[i] = f[j] => i = j
    BY <1>6
  <2>3. \A j \in R : \E i \in Answers(u) : f[i] = j
    BY <1>5
  <2> HIDE DEF f
  <2>4. f \in Injection(Answers(u), R)
    BY <2>1, <2>2 DEF Injection, IsInjective
  <2>5. f \in Surjection(Answers(u), R)
    BY <2>1, <2>3, Zenon DEF Surjection
  <2> QED BY <2>4, <2>5 DEF Bijection
<1>8. Cardinality(R) = Cardinality(Answers(u))
  <2>1. ExistsBijection(Answers(u), R)
    BY <1>7 DEF ExistsBijection
  <2> QED BY <1>2, <2>1, FS_Bijection
<1>9. Cardinality(R) = Cardinality(Answers(q)) - (IF h.op = "result" THEN 1 ELSE 0)
  <2>1. CASE h.op = "result"
    <3>1. 1 \in Answers(q)
      BY <1>1, <2>1 DEF Answers
    <3> QED BY <1>2, <2>1, <3>1, FS_RemoveElement DEF R
  <2>2. CASE h.op # "result"
    <3>1. R = Answers(q)
      BY <1>1, <2>2 DEF Answers, R
    <3> QED BY <1>2, <2>2, <3>1
  <2> QED BY <2>1, <2>2
<1> QED BY <1>1, <1>3, <1>8, <1>9 DEF u, h, n

-----------------------------------------------------------------------------
(* The stack of protocols. *)

LEMMA TopFacts ==
    ASSUME NEW S, NEW s \in Seq(S), s # <<>>
    PROVE  /\ Top(s) \in S
           /\ Pop(s) \in Seq(S)
           /\ Pop(s) = <<>> <=> Len(s) = 1
<1>1. /\ Len(s) \in Nat /\ Len(s) > 0
      /\ \A i \in 1 .. Len(s) : s[i] \in S
  OBVIOUS
<1>2. /\ Pop(s) \in Seq(S)
      /\ Len(Pop(s)) = Len(s) - 1
  <2> DEFINE n == Len(s) - 1
  <2>1. n \in 0 .. Len(s)
    BY <1>1
  <2> HIDE DEF n
  <2>2. SubSeq(s, 1, n) \in Seq(S) /\ Len(SubSeq(s, 1, n)) = n
    BY <2>1, SplitFacts
  <2> QED BY <2>2 DEF n, Pop
<1>3. Pop(s) = <<>> <=> Len(Pop(s)) = 0
  BY <1>2, EmptySeq
<1>4. Pop(s) = <<>> <=> Len(s) = 1
  BY <1>1, <1>2, <1>3
<1> QED BY <1>1, <1>2, <1>4 DEF Top

\* Whatever is ignored, there is a protocol to test.
LEMMA StackFacts ==
    ASSUME NEW ignore
    PROVE  Stack(ignore) \in Seq(Protocols) /\ Stack(ignore) # <<>>
<1>1. "quic" \in Protocols /\ "standard" \in Protocols /\ "quic" # "standard"
  BY DEF Protocols
<1>2. Push(<<>>, "quic", ignore) \in Seq(Protocols)
  BY <1>1 DEF Push
<1>3. Stack(ignore) \in Seq(Protocols)
  BY <1>1, <1>2 DEF Stack, Push
<1>4. Stack(ignore) # <<>>
  <2>1. CASE ignore = "standard"
    <3>1. Stack(ignore) = Append(<<>>, "quic")
      BY <1>1, <2>1 DEF Stack, Push
    <3> QED BY <3>1
  <2>2. CASE ignore # "standard"
    <3>1. Stack(ignore) = Append(Push(<<>>, "quic", ignore), "standard")
      BY <2>2 DEF Stack, Push
    <3> QED BY <1>1, <1>2, <3>1
  <2> QED BY <2>1, <2>2
<1> QED BY <1>3, <1>4

-----------------------------------------------------------------------------
(* Counting what is to come. *)

\* The counters of Outstanding are numbers.
LEMMA CountFacts ==
    ASSUME TesterTypeOK
    PROVE  /\ probes["quic"] \in Nat /\ probes["standard"] \in Nat
           /\ Cardinality(Answers(mainQueue)) \in Nat
           /\ Outstanding = probes["quic"] + probes["standard"] + Cardinality(Answers(mainQueue))
           /\ IsFiniteSet(breaking) /\ Cardinality(breaking) \in Nat
           /\ doubles \in Nat
<1>1. probes["quic"] \in Nat /\ probes["standard"] \in Nat
  BY DEF TesterTypeOK, Protocols
<1>2. IsFiniteSet(Protocols)
  <2>1. IsFiniteSet({"quic"}) /\ IsFiniteSet({"standard"})
    BY FS_Singleton
  <2>2. Protocols = {"quic"} \cup {"standard"}
    BY DEF Protocols
  <2>3. IsFiniteSet({"quic"} \cup {"standard"})
    BY <2>1, FS_Union
  <2> QED BY <2>2, <2>3
<1>3. IsFiniteSet(breaking) /\ Cardinality(breaking) \in Nat
  BY <1>2, FS_Subset, FS_CardinalityType DEF TesterTypeOK
<1>4. doubles \in Nat
  BY TesterAssumption DEF TesterTypeOK
<1> QED BY <1>1, <1>3, <1>4, AnswersFinite DEF TesterTypeOK, Outstanding, Answers

\* What ToCome counts, before and after a step.
LEMMA ToComeDef ==
    /\ ToCome = probes["quic"] + probes["standard"] + Cardinality(Answers(mainQueue))
                  + Cardinality(breaking)
    /\ ToCome' = probes'["quic"] + probes'["standard"] + Cardinality(Answers(mainQueue'))
                  + Cardinality(breaking')
BY DEF ToCome, Outstanding, Answers

\* ToCome is a number.
LEMMA ToComeNat ==
    ASSUME TesterTypeOK
    PROVE  ToCome \in Nat /\ doubles \in Nat
<1> DEFINE a == probes["quic"]
           b == probes["standard"]
           c == Cardinality(Answers(mainQueue))
           d == Cardinality(breaking)
<1>1. a \in Nat /\ b \in Nat /\ c \in Nat /\ d \in Nat /\ doubles \in Nat
  BY CountFacts, Zenon
<1>2. ToCome = a + b + c + d
  BY ToComeDef, Zenon
<1> HIDE DEF a, b, c, d
<1> QED BY ONLY <1>1, <1>2

\* A step changes ToCome by what it changes in connections, results and breaking.
LEMMA ToComeChange ==
    ASSUME TesterTypeOK, NEW x \in Int, NEW y \in Int, NEW z \in Int,
           probes' \in [Protocols -> Nat],
           probes'["quic"] + probes'["standard"] = probes["quic"] + probes["standard"] + x,
           Cardinality(Answers(mainQueue')) = Cardinality(Answers(mainQueue)) + y,
           Cardinality(breaking') = Cardinality(breaking) + z
    PROVE  ToCome' = ToCome + (x + y + z)
<1> DEFINE a == probes["quic"]
           b == probes["standard"]
           c == Cardinality(Answers(mainQueue))
           d == Cardinality(breaking)
           e == probes'["quic"]
           f == probes'["standard"]
           g == Cardinality(Answers(mainQueue'))
           h == Cardinality(breaking')
<1>1. a \in Nat /\ b \in Nat /\ c \in Nat /\ d \in Nat
  BY CountFacts, Zenon
<1>2. e \in Nat /\ f \in Nat
  BY DEF Protocols
<1>3. e + f = a + b + x /\ g = c + y /\ h = d + z
  OBVIOUS
<1>4. ToCome = a + b + c + d /\ ToCome' = e + f + g + h
  BY ToComeDef, Zenon
<1> HIDE DEF a, b, c, d, e, f, g, h
<1> QED BY ONLY <1>1, <1>2, <1>3, <1>4, x \in Int, y \in Int, z \in Int

\* One connection more or less of the protocol p.
LEMMA ProbesFacts ==
    ASSUME TesterTypeOK, NEW p \in Protocols, NEW d \in {-1, 1}, probes[p] + d \in Nat,
           probes' = [probes EXCEPT ![p] = @ + d]
    PROVE  /\ probes' \in [Protocols -> Nat]
           /\ probes'["quic"] + probes'["standard"] = probes["quic"] + probes["standard"] + d
           /\ \A r \in Protocols \ {p} : probes'[r] = probes[r]
           /\ probes'[p] = probes[p] + d
<1>1. /\ probes \in [Protocols -> Nat]
      /\ "quic" # "standard" /\ "quic" \in Protocols /\ "standard" \in Protocols
      /\ p = "quic" \/ p = "standard"
  BY DEF TesterTypeOK, Protocols
<1>2. probes' \in [Protocols -> Nat]
  BY <1>1
<1>3. /\ \A r \in Protocols \ {p} : probes'[r] = probes[r]
      /\ probes'[p] = probes[p] + d
  BY <1>1
<1> QED BY <1>1, <1>2, <1>3

\* Without a double report, and with nothing to come, nothing is anywhere.
LEMMA NothingToCome ==
    ASSUME TesterTypeOK, ToCome <= 0
    PROVE  Answers(mainQueue) = {} /\ \A p \in Protocols : probes[p] = 0
<1>1. /\ Cardinality(Answers(mainQueue)) = 0
      /\ probes["quic"] = 0 /\ probes["standard"] = 0
  BY CountFacts DEF ToCome
<1>2. IsFiniteSet(Answers(mainQueue))
  BY AnswersFinite DEF TesterTypeOK
<1> QED BY <1>1, <1>2, FS_EmptySet DEF Protocols

\* A result is put into the main queue.
LEMMA ReportFacts ==
    ASSUME TesterTypeOK, OneStart, NEW p \in Protocols, NEW ok \in BOOLEAN, Report(p, ok)
    PROVE  /\ mainQueue' \in Seq(Block)
           /\ OneStart'
           /\ NoStart => NoStart'
           /\ Cardinality(Answers(mainQueue')) = Cardinality(Answers(mainQueue)) + 1
           /\ \A i \in Answers(mainQueue') :
                 \/ mainQueue'[i].from = Origin(p)
                 \/ \E j \in Answers(mainQueue) : mainQueue'[i].from = mainQueue[j].from
<1> DEFINE b == [op |-> "result", ok |-> ok, from |-> Origin(p)]
           n == Len(mainQueue)
<1>1. b \in Block /\ b.op = "result" /\ b.from = Origin(p)
  BY DEF Block, Origin
<1>2. mainQueue \in Seq(Block) /\ mainQueue' = Append(mainQueue, b)
  BY DEF TesterTypeOK, Report
<1> HIDE DEF b, n
<1>3. /\ mainQueue' \in Seq(Block)
      /\ \A i \in DOMAIN mainQueue' :
            IF i = n + 1 THEN mainQueue'[i] = b
                         ELSE i \in DOMAIN mainQueue /\ mainQueue'[i] = mainQueue[i]
      /\ Cardinality(Answers(mainQueue')) = Cardinality(Answers(mainQueue)) + 1
  BY <1>1, <1>2, AnswersAppend DEF n
<1>4. "result" # "start"
  OBVIOUS
<1>5. OneStart'
  BY <1>1, <1>3, <1>4 DEF OneStart
<1>6. NoStart => NoStart'
  BY <1>1, <1>3 DEF NoStart
<1>7. ASSUME NEW i \in Answers(mainQueue')
      PROVE  \/ mainQueue'[i].from = Origin(p)
             \/ \E j \in Answers(mainQueue) : mainQueue'[i].from = mainQueue[j].from
  <2>1. i \in DOMAIN mainQueue' /\ mainQueue'[i].op = "result"
    BY DEF Answers
  <2>2. CASE i = n + 1
    BY <1>1, <1>3, <2>1, <2>2
  <2>3. CASE i # n + 1
    <3>1. i \in DOMAIN mainQueue /\ mainQueue'[i] = mainQueue[i]
      BY <1>3, <2>1, <2>3
    <3>2. i \in Answers(mainQueue)
      BY <2>1, <3>1 DEF Answers
    <3> QED BY <3>1, <3>2
  <2> QED BY <2>2, <2>3
<1> QED BY <1>3, <1>5, <1>6, <1>7

\* The first block is taken from the main queue.
LEMMA TakeFacts ==
    ASSUME TesterTypeOK, OneStart, mainQueue # <<>>, mainQueue' = Tail(mainQueue)
    PROVE  /\ mainQueue' \in Seq(Block)
           /\ Head(mainQueue) \in Block
           /\ 1 \in DOMAIN mainQueue /\ Head(mainQueue) = mainQueue[1]
           /\ OneStart'
           /\ NoStart \/ Head(mainQueue).op = "start" => NoStart'
           /\ Cardinality(Answers(mainQueue'))
                = Cardinality(Answers(mainQueue)) - (IF Head(mainQueue).op = "result" THEN 1 ELSE 0)
           /\ \A i \in Answers(mainQueue') :
                 \E j \in Answers(mainQueue) : mainQueue'[i].from = mainQueue[j].from
<1>1. mainQueue \in Seq(Block)
  BY DEF TesterTypeOK
<1>2. /\ mainQueue' \in Seq(Block)
      /\ Head(mainQueue) \in Block
      /\ 1 \in DOMAIN mainQueue /\ Head(mainQueue) = mainQueue[1]
      /\ \A i \in DOMAIN mainQueue' :
            i + 1 \in DOMAIN mainQueue /\ i + 1 # 1 /\ mainQueue'[i] = mainQueue[i + 1]
      /\ Cardinality(Answers(mainQueue'))
           = Cardinality(Answers(mainQueue)) - (IF Head(mainQueue).op = "result" THEN 1 ELSE 0)
  BY <1>1, AnswersTail
<1>3. DOMAIN mainQueue' \subseteq Int
  BY <1>2
<1>4. OneStart'
  BY <1>2, <1>3 DEF OneStart
<1>5. NoStart => NoStart'
  BY <1>2 DEF NoStart
<1>6. ASSUME Head(mainQueue).op = "start" PROVE NoStart'
  <2>1. \A i \in DOMAIN mainQueue' : mainQueue'[i].op # "start"
    BY <1>2, <1>6 DEF OneStart
  <2>2. \A i \in DOMAIN mainQueue' : mainQueue'[i] \in Block
    BY <1>2
  <2> QED BY <2>1, <2>2, BlockFacts DEF NoStart
<1>7. \A i \in Answers(mainQueue') :
         \E j \in Answers(mainQueue) : mainQueue'[i].from = mainQueue[j].from
  BY <1>2 DEF Answers
<1> QED BY <1>2, <1>4, <1>5, <1>6, <1>7

-----------------------------------------------------------------------------
(* The actions of the tester keep its invariant. *)

\* Nothing of the tester changes.
LEMMA TesterStutter == TesterInv /\ UNCHANGED testerVars => TesterInv'
<1> SUFFICES ASSUME TesterInv, UNCHANGED testerVars PROVE TesterInv'
  OBVIOUS
<1>1. /\ running' = running /\ mainQueue' = mainQueue /\ toTest' = toTest
      /\ results' = results /\ completing' = completing /\ probes' = probes
      /\ breaking' = breaking /\ doubles' = doubles /\ undefined' = undefined
  BY DEF testerVars
<1>2. TesterTypeOK'
  BY <1>1 DEF TesterInv, TesterTypeOK
<1>3. RoundInv'
  BY <1>1 DEF TesterInv, RoundInv, OneStart, NoStart, ToCome, Outstanding
<1>4. AnswerInv'
  BY <1>1 DEF TesterInv, AnswerInv, Tested, Answers
<1> QED BY <1>2, <1>3, <1>4 DEF TesterInv

\* runTests queues the block of a round, if none is running.
LEMMA runTestsInv ==
    ASSUME TesterInv, NEW ignore \in Protocols \cup {None}, runTests(ignore), UNCHANGED roundVars
    PROVE  TesterInv'
<1>1. CASE running
  BY <1>1, TesterStutter DEF runTests, roundVars, testerVars
<1>2. CASE ~running
  <2> DEFINE b == [op |-> "start", ignore |-> ignore]
             n == Len(mainQueue)
  <2>1. b \in Block /\ b.op = "start" /\ b.op # "result"
    BY DEF Block
  <2>2. /\ running' = TRUE /\ mainQueue' = Append(mainQueue, b)
        /\ toTest' = toTest /\ results' = results /\ completing' = completing
        /\ probes' = probes /\ breaking' = breaking /\ doubles' = doubles
        /\ undefined' = undefined
    BY <1>2 DEF runTests, roundVars
  <2>3. /\ NoStart /\ OneStart /\ toTest = <<>> /\ results = <<>> /\ ~completing
        /\ ToCome <= doubles + (IF toTest = <<>> THEN 0 ELSE 1)
    BY <1>2 DEF TesterInv, RoundInv
  <2>4. TesterTypeOK /\ mainQueue \in Seq(Block)
    BY DEF TesterInv, TesterTypeOK
  <2> HIDE DEF b, n
  <2>5. /\ mainQueue' \in Seq(Block)
        /\ \A i \in DOMAIN mainQueue' :
              IF i = n + 1 THEN mainQueue'[i] = b
                           ELSE i \in DOMAIN mainQueue /\ mainQueue'[i] = mainQueue[i]
        /\ Cardinality(Answers(mainQueue')) = Cardinality(Answers(mainQueue))
    BY <2>1, <2>2, <2>4, AnswersAppend, CountFacts DEF n
  <2>6. TesterTypeOK'
    BY <2>2, <2>4, <2>5 DEF TesterTypeOK
  <2>7. ToCome' = ToCome
    BY <2>2, <2>5 DEF ToCome, Outstanding, Answers
  <2>8. OneStart'
    BY <2>3, <2>5 DEF OneStart, NoStart
  <2>9. RoundInv'
    BY <2>2, <2>3, <2>7, <2>8 DEF RoundInv
  <2>10. ASSUME NEW i \in Answers(mainQueue')
         PROVE  i \in Answers(mainQueue) /\ mainQueue'[i] = mainQueue[i]
    BY <2>1, <2>5 DEF Answers
  <2>11. AnswerInv'
    BY <2>2, <2>10 DEF TesterInv, AnswerInv, Tested
  <2> QED BY <2>6, <2>9, <2>11 DEF TesterInv
<1> QED BY <1>1, <1>2

\* The block of a round: QUIC and Standard are stacked, the top one is probed.
LEMMA StartRoundInv == TesterInv /\ StartRound => TesterInv'
<1> SUFFICES ASSUME TesterInv, StartRound PROVE TesterInv'
  OBVIOUS
<1> DEFINE p == Top(toTest')
<1>1. /\ mainQueue # <<>> /\ ~completing /\ Head(mainQueue).op = "start"
      /\ mainQueue' = Tail(mainQueue) /\ results' = <<>>
      /\ toTest' = Stack(Head(mainQueue).ignore)
      /\ probes' = [probes EXCEPT ![p] = @ + 1]
      /\ running' = running /\ completing' = completing /\ breaking' = breaking
      /\ doubles' = doubles /\ undefined' = undefined
  BY DEF StartRound, MainIdle, Launch
<1>2. TesterTypeOK /\ RoundInv /\ OneStart
  BY DEF TesterInv, RoundInv
<1>3. /\ mainQueue' \in Seq(Block)
      /\ 1 \in DOMAIN mainQueue /\ Head(mainQueue) = mainQueue[1]
      /\ OneStart' /\ NoStart'
      /\ Cardinality(Answers(mainQueue')) = Cardinality(Answers(mainQueue))
      /\ \A i \in Answers(mainQueue') :
            \E j \in Answers(mainQueue) : mainQueue'[i].from = mainQueue[j].from
  <2>1. /\ mainQueue' \in Seq(Block)
        /\ 1 \in DOMAIN mainQueue /\ Head(mainQueue) = mainQueue[1]
        /\ OneStart' /\ NoStart'
        /\ Cardinality(Answers(mainQueue'))
             = Cardinality(Answers(mainQueue)) - (IF Head(mainQueue).op = "result" THEN 1 ELSE 0)
        /\ \A i \in Answers(mainQueue') :
              \E j \in Answers(mainQueue) : mainQueue'[i].from = mainQueue[j].from
    BY <1>1, <1>2, TakeFacts
  <2>2. Head(mainQueue).op # "result" /\ Cardinality(Answers(mainQueue)) \in Nat
    BY <1>1, <1>2, CountFacts
  <2> QED BY <2>1, <2>2
<1>4. ~NoStart
  BY <1>1, <1>3 DEF NoStart
<1>5. running /\ toTest = <<>> /\ ToCome <= doubles
  BY <1>2, <1>4, CountFacts DEF RoundInv
<1>6. toTest' \in Seq(Protocols) /\ toTest' # <<>> /\ p \in Protocols
  BY <1>1, StackFacts, TopFacts
<1> HIDE DEF p
<1>7. /\ probes[p] \in Nat /\ probes' = [probes EXCEPT ![p] = @ + 1]
  BY <1>1, <1>2, <1>6 DEF TesterTypeOK
<1>8. /\ probes' \in [Protocols -> Nat]
      /\ probes'["quic"] + probes'["standard"] = probes["quic"] + probes["standard"] + 1
      /\ \A r \in Protocols \ {p} : probes'[r] = probes[r]
  <2>1. 1 \in {-1, 1} /\ probes[p] + 1 \in Nat
    BY <1>7
  <2> QED BY <1>2, <1>6, <1>7, <2>1, ProbesFacts
<1>9. TesterTypeOK'
  <2>1. results' \in Seq(Result)
    BY <1>1, EmptySeq
  <2>2. /\ running' \in BOOLEAN /\ completing' \in BOOLEAN /\ breaking' \subseteq Protocols
        /\ doubles' \in 0 .. MaxDoubles /\ undefined' \in BOOLEAN
    BY <1>1, <1>2 DEF TesterTypeOK
  <2> QED BY <1>3, <1>6, <1>8, <2>1, <2>2 DEF TesterTypeOK
<1>10. ToCome' = ToCome + (1 + 0 + 0)
  <2>1. Cardinality(Answers(mainQueue)) \in Nat /\ Cardinality(breaking) \in Nat
    BY <1>2, CountFacts
  <2>2. Cardinality(Answers(mainQueue')) = Cardinality(Answers(mainQueue)) + 0
    BY <1>1, <1>3, <2>1
  <2>3. Cardinality(breaking') = Cardinality(breaking) + 0
    BY <1>1, <2>1
  <2> QED BY <1>2, <1>8, <2>2, <2>3, ToComeChange, 0 \in Int, 1 \in Int
<1>11. RoundInv'
  <2>1. ToCome' <= doubles' + 1
    BY <1>1, <1>2, <1>5, <1>10, CountFacts DEF ToCome
  <2> QED BY <1>1, <1>3, <1>5, <1>6, <2>1 DEF RoundInv
<1>12. ASSUME doubles = 0
       PROVE  /\ Answers(mainQueue') = {}
              /\ \A r \in Protocols : probes'[r] > 0 => r = p
  BY <1>2, <1>3, <1>5, <1>8, <1>12, NothingToCome
<1>13. AnswerInv'
  BY <1>1, <1>6, <1>12 DEF TesterInv, AnswerInv, Tested, p
<1> QED BY <1>9, <1>11, <1>13 DEF TesterInv

\* One connection of p has reported: there is an answer in the queue for it.
LEMMA ProbeReports ==
    ASSUME TesterTypeOK, RoundInv, NEW p \in Protocols, NEW ok \in BOOLEAN,
           probes[p] > 0, Report(p, ok), probes' = [probes EXCEPT ![p] = @ - 1]
    PROVE  /\ mainQueue' \in Seq(Block) /\ OneStart'
           /\ NoStart => NoStart'
           /\ \A i \in Answers(mainQueue') :
                 \/ mainQueue'[i].from = Origin(p)
                 \/ \E j \in Answers(mainQueue) : mainQueue'[i].from = mainQueue[j].from
           /\ probes' \in [Protocols -> Nat]
           /\ \A r \in Protocols : probes'[r] > 0 => probes[r] > 0
           /\ breaking' = breaking => ToCome' = ToCome
           /\ breaking' = breaking \cup {p} /\ p \notin breaking => ToCome' = ToCome + 1
<1>1. /\ mainQueue' \in Seq(Block) /\ OneStart'
      /\ NoStart => NoStart'
      /\ Cardinality(Answers(mainQueue')) = Cardinality(Answers(mainQueue)) + 1
      /\ \A i \in Answers(mainQueue') :
            \/ mainQueue'[i].from = Origin(p)
            \/ \E j \in Answers(mainQueue) : mainQueue'[i].from = mainQueue[j].from
  BY ReportFacts DEF RoundInv
<1>2. /\ probes' \in [Protocols -> Nat]
      /\ probes'["quic"] + probes'["standard"] = probes["quic"] + probes["standard"] - 1
      /\ \A r \in Protocols \ {p} : probes'[r] = probes[r]
      /\ probes'[p] = probes[p] - 1
  <2>1. probes \in [Protocols -> Nat] /\ probes[p] \in Nat
    BY DEF TesterTypeOK
  <2>2. -1 \in {-1, 1} /\ probes[p] + (-1) \in Nat
    BY <2>1
  <2>3. probes' = [probes EXCEPT ![p] = @ + (-1)]
    BY <2>1
  <2>4. /\ probes' \in [Protocols -> Nat]
        /\ probes'["quic"] + probes'["standard"] = probes["quic"] + probes["standard"] + (-1)
        /\ \A r \in Protocols \ {p} : probes'[r] = probes[r]
        /\ probes'[p] = probes[p] + (-1)
    BY <2>2, <2>3, ProbesFacts
  <2>5. probes["quic"] \in Nat /\ probes["standard"] \in Nat
    BY CountFacts
  <2> QED BY <2>1, <2>4, <2>5
<1>3. /\ probes'["quic"] \in Nat /\ probes'["standard"] \in Nat
      /\ \A r \in Protocols : probes[r] \in Nat /\ probes'[r] \in Nat
  BY <1>2 DEF TesterTypeOK, Protocols
<1>4. \A r \in Protocols : probes'[r] > 0 => probes[r] > 0
  BY <1>2, <1>3
<1>5. /\ probes'["quic"] + probes'["standard"] + Cardinality(Answers(mainQueue'))
           = probes["quic"] + probes["standard"] + Cardinality(Answers(mainQueue))
      /\ probes["quic"] + probes["standard"] + Cardinality(Answers(mainQueue)) \in Nat
  <2>1. /\ Cardinality(Answers(mainQueue)) \in Nat
        /\ probes["quic"] \in Nat /\ probes["standard"] \in Nat
    BY CountFacts
  <2>2. /\ Cardinality(Answers(mainQueue')) = Cardinality(Answers(mainQueue)) + 1
        /\ probes'["quic"] + probes'["standard"] = probes["quic"] + probes["standard"] - 1
        /\ probes'["quic"] \in Nat /\ probes'["standard"] \in Nat
    BY <1>1, <1>2, <1>3
  <2> QED BY ONLY <2>1, <2>2
<1>6. breaking' = breaking => ToCome' = ToCome
  BY <1>5, ToComeDef
<1>7. ASSUME breaking' = breaking \cup {p}, p \notin breaking PROVE ToCome' = ToCome + 1
  <2>1. Cardinality(breaking') = Cardinality(breaking) + 1
    BY <1>7, CountFacts, FS_AddElement
  <2>2. Cardinality(breaking) \in Nat
    BY CountFacts
  <2> QED BY <1>5, <2>1, <2>2, ToComeDef
<1> QED BY <1>1, <1>2, <1>4, <1>6, <1>7

\* A test connection reports, for the only time or for the first one.
LEMMA ProbeAnswersInv ==
    ASSUME TesterInv, NEW p \in Protocols, NEW ok \in BOOLEAN,
           ProbeAnswers(p, ok) \/ ProbeBreaks(p, ok)
    PROVE  TesterInv'
<1>1. /\ probes[p] > 0 /\ Report(p, ok) /\ probes' = [probes EXCEPT ![p] = @ - 1]
      /\ running' = running /\ toTest' = toTest /\ results' = results
      /\ completing' = completing /\ undefined' = undefined
      /\ \/ doubles' = doubles /\ breaking' = breaking
         \/ /\ doubles' = doubles + 1 /\ doubles < MaxDoubles
            /\ breaking' = breaking \cup {p} /\ p \notin breaking
  BY DEF ProbeAnswers, ProbeBreaks
<1>2. TesterTypeOK /\ RoundInv
  BY DEF TesterInv
<1>3. /\ mainQueue' \in Seq(Block) /\ OneStart'
      /\ NoStart => NoStart'
      /\ \A i \in Answers(mainQueue') :
            \/ mainQueue'[i].from = Origin(p)
            \/ \E j \in Answers(mainQueue) : mainQueue'[i].from = mainQueue[j].from
      /\ probes' \in [Protocols -> Nat]
      /\ \A r \in Protocols : probes'[r] > 0 => probes[r] > 0
      /\ breaking' = breaking => ToCome' = ToCome
      /\ breaking' = breaking \cup {p} /\ p \notin breaking => ToCome' = ToCome + 1
  BY <1>1, <1>2, ProbeReports
<1>4. doubles \in Nat /\ ToCome \in Nat
  BY <1>2, ToComeNat
<1>5. TesterTypeOK'
  <2>1. doubles' \in 0 .. MaxDoubles /\ breaking' \subseteq Protocols
    BY <1>1, <1>2, <1>4, TesterAssumption DEF TesterTypeOK
  <2> QED BY <1>1, <1>2, <1>3, <2>1 DEF TesterTypeOK
<1>6. RoundInv'
  <2>1. ToCome' <= doubles' + (IF toTest' = <<>> THEN 0 ELSE 1)
    BY <1>1, <1>2, <1>3, <1>4 DEF RoundInv
  <2>2. (~running' \/ toTest' # <<>> \/ completing') => NoStart'
    BY <1>1, <1>2, <1>3 DEF RoundInv
  <2> QED BY <1>1, <1>2, <1>3, <2>1, <2>2 DEF RoundInv
<1>7. AnswerInv'
  <2>1. CASE doubles' = doubles /\ breaking' = breaking
    <3>1. doubles = 0 => /\ breaking = {} /\ ~undefined
                         /\ \A r \in Protocols : probes[r] > 0 => Tested(r)
                         /\ \A i \in Answers(mainQueue) : Tested(mainQueue[i].from)
                         /\ \A i \in DOMAIN results : results[i].id = results[i].from
      BY DEF TesterInv, AnswerInv
    <3>2. ASSUME doubles' = 0
          PROVE  /\ \A r \in Protocols : probes'[r] > 0 => Tested(r)
                 /\ \A i \in Answers(mainQueue') : Tested(mainQueue'[i].from)
      <4>1. Tested(p) /\ Origin(p) = p
        BY <1>1, <2>1, <3>1, <3>2 DEF Origin
      <4> QED BY <1>3, <2>1, <3>1, <3>2, <4>1
    <3> QED BY <1>1, <2>1, <3>1, <3>2 DEF AnswerInv, Tested
  <2>2. CASE doubles' = doubles + 1
    BY <1>4, <2>2 DEF AnswerInv
  <2> QED BY <1>1, <2>1, <2>2
<1> QED BY <1>5, <1>6, <1>7 DEF TesterInv

\* A connection that has reported fails, and reports again.
LEMMA ProbeFailsLateInv ==
    ASSUME TesterInv, NEW p \in Protocols, ProbeFailsLate(p)
    PROVE  TesterInv'
<1>1. /\ p \in breaking /\ Report(p, FALSE) /\ breaking' = breaking \ {p}
      /\ running' = running /\ toTest' = toTest /\ results' = results
      /\ completing' = completing /\ probes' = probes /\ doubles' = doubles
      /\ undefined' = undefined
  BY DEF ProbeFailsLate
<1>2. TesterTypeOK /\ RoundInv /\ OneStart /\ FALSE \in BOOLEAN
  BY DEF TesterInv, RoundInv
<1>3. /\ mainQueue' \in Seq(Block) /\ OneStart'
      /\ NoStart => NoStart'
      /\ Cardinality(Answers(mainQueue')) = Cardinality(Answers(mainQueue)) + 1
  BY <1>1, <1>2, ReportFacts
<1>4. Cardinality(breaking') = Cardinality(breaking) - 1
  BY <1>1, <1>2, CountFacts, FS_RemoveElement
<1>5. ToCome' = ToCome
  <2>1. /\ Cardinality(Answers(mainQueue)) \in Nat /\ Cardinality(breaking) \in Nat
        /\ probes["quic"] \in Nat /\ probes["standard"] \in Nat
    BY <1>2, CountFacts
  <2>2. probes' \in [Protocols -> Nat]
    BY <1>1, <1>2 DEF TesterTypeOK
  <2>3. probes'["quic"] + probes'["standard"] = probes["quic"] + probes["standard"] + 0
    BY <1>1, <2>1
  <2>4. Cardinality(breaking') = Cardinality(breaking) + (-1)
    BY <1>4, <2>1
  <2>5. ToCome' = ToCome + (0 + 1 + (-1))
    BY <1>2, <1>3, <2>2, <2>3, <2>4, ToComeChange, 0 \in Int, 1 \in Int, -1 \in Int
  <2> QED BY <1>2, <2>5, ToComeNat
<1>6. TesterTypeOK'
  BY <1>1, <1>2, <1>3 DEF TesterTypeOK
<1>7. RoundInv'
  <2>1. (~running' \/ toTest' # <<>> \/ completing') => NoStart'
    BY <1>1, <1>2, <1>3 DEF RoundInv
  <2> QED BY <1>1, <1>2, <1>3, <1>5, <2>1 DEF RoundInv
<1>8. AnswerInv'
  <2>1. doubles # 0
    BY <1>1 DEF TesterInv, AnswerInv
  <2> QED BY <1>1, <2>1 DEF AnswerInv
<1> QED BY <1>6, <1>7, <1>8 DEF TesterInv

\* A test connection ends and reports nothing.
LEMMA ProbeSilentInv ==
    ASSUME TesterInv, NEW p \in Protocols, ProbeSilent(p)
    PROVE  TesterInv'
<1>1. /\ probes[p] > 0 /\ probes' = [probes EXCEPT ![p] = @ - 1]
      /\ running' = running /\ mainQueue' = mainQueue /\ toTest' = toTest
      /\ results' = results /\ completing' = completing /\ breaking' = breaking
      /\ doubles' = doubles /\ undefined' = undefined
  BY DEF ProbeSilent
<1>2. TesterTypeOK /\ RoundInv /\ probes \in [Protocols -> Nat] /\ probes[p] \in Nat
  BY DEF TesterInv, TesterTypeOK
<1>3. /\ probes' \in [Protocols -> Nat]
      /\ probes'["quic"] + probes'["standard"] = probes["quic"] + probes["standard"] + (-1)
      /\ \A r \in Protocols \ {p} : probes'[r] = probes[r]
  <2>1. probes[p] > 0 /\ probes[p] \in Nat
    BY <1>1, <1>2
  <2>2. -1 \in {-1, 1} /\ probes[p] + (-1) \in Nat
    BY ONLY <2>1
  <2>3. probes' = [probes EXCEPT ![p] = @ + (-1)]
    BY <1>1, <1>2
  <2> QED BY <1>2, <2>2, <2>3, ProbesFacts
<1>4. TesterTypeOK'
  BY <1>1, <1>2, <1>3 DEF TesterTypeOK
<1>5. ToCome' = ToCome - 1 /\ ToCome \in Nat /\ doubles \in Nat
  <2>1. Cardinality(Answers(mainQueue)) \in Nat /\ Cardinality(breaking) \in Nat
    BY <1>2, CountFacts
  <2>2. Cardinality(Answers(mainQueue')) = Cardinality(Answers(mainQueue)) + 0
    BY <1>1, <2>1
  <2>3. Cardinality(breaking') = Cardinality(breaking) + 0
    BY <1>1, <2>1
  <2>4. ToCome' = ToCome + ((-1) + 0 + 0)
    BY <1>2, <1>3, <2>2, <2>3, ToComeChange, 0 \in Int, -1 \in Int
  <2> QED BY <1>2, <2>4, ToComeNat
<1>6. RoundInv'
  <2>1. ToCome' <= doubles' + (IF toTest' = <<>> THEN 0 ELSE 1)
    BY <1>1, <1>2, <1>5 DEF RoundInv
  <2> QED BY <1>1, <1>2, <2>1 DEF RoundInv, OneStart, NoStart
<1>7. AnswerInv'
  <2>1. \A r \in Protocols : probes'[r] > 0 => probes[r] > 0
    BY <1>1, <1>3
  <2> QED BY <1>1, <2>1 DEF TesterInv, AnswerInv, Tested, Answers
<1> QED BY <1>4, <1>6, <1>7 DEF TesterInv

\* The block of a result is taken while a protocol is being tested: the result is
\* recorded, and no answer is to come that is not owed to a double report.
LEMMA ResultTaken ==
    ASSUME TesterInv, MainIdle, Head(mainQueue).op = "result", toTest # <<>>,
           results' = Recorded, toTest' = Pop(toTest), mainQueue' = Tail(mainQueue),
           running' = running, breaking' = breaking, doubles' = doubles, undefined' = undefined
    PROVE  /\ running /\ NoStart'
           /\ mainQueue' \in Seq(Block) /\ OneStart'
           /\ toTest' \in Seq(Protocols) /\ results' \in Seq(Result)
           /\ ToCome \in Nat /\ ToCome <= doubles + 1
           /\ Cardinality(Answers(mainQueue')) = Cardinality(Answers(mainQueue)) - 1
           /\ doubles = 0 =>
                 /\ \A i \in DOMAIN results' : results'[i].id = results'[i].from
                 /\ Answers(mainQueue') = {}
                 /\ \A r \in Protocols : probes[r] = 0
<1> DEFINE b == Head(mainQueue)
           r == [id |-> Top(toTest), ok |-> b.ok, from |-> Origin(b.from)]
<1>1. TesterTypeOK /\ RoundInv /\ OneStart /\ mainQueue # <<>>
  BY DEF TesterInv, RoundInv, MainIdle
<1>2. /\ mainQueue' \in Seq(Block) /\ b \in Block
      /\ 1 \in DOMAIN mainQueue /\ b = mainQueue[1]
      /\ OneStart'
      /\ NoStart => NoStart'
      /\ Cardinality(Answers(mainQueue'))
           = Cardinality(Answers(mainQueue)) - (IF b.op = "result" THEN 1 ELSE 0)
  BY <1>1, TakeFacts
<1>3. running /\ NoStart
  BY <1>1 DEF RoundInv
<1>4. /\ Top(toTest) \in Protocols /\ toTest' \in Seq(Protocols)
  BY <1>1, TopFacts DEF TesterTypeOK
<1>5. results' = Append(results, r)
  BY DEF Recorded
<1>6. b.ok \in BOOLEAN /\ Origin(b.from) \in Protocols \cup {None}
  BY <1>2, BlockFacts DEF Origin
<1>7. r \in Result /\ r.id = Top(toTest) /\ r.from = Origin(b.from)
  BY <1>4, <1>6 DEF Result
<1>8. 1 \in Answers(mainQueue)
  BY <1>2 DEF Answers
<1> HIDE DEF b, r
<1>9. results \in Seq(Result)
  BY <1>1 DEF TesterTypeOK
<1>10. /\ results' \in Seq(Result)
       /\ \A i \in DOMAIN results' :
             IF i = Len(results) + 1 THEN results'[i] = r
                                     ELSE i \in DOMAIN results /\ results'[i] = results[i]
  BY <1>5, <1>7, <1>9, AnswersAppend
<1>11. ToCome \in Nat /\ doubles \in Nat
  BY <1>1, ToComeNat
<1>12. ToCome <= doubles + 1
  BY <1>1 DEF RoundInv
<1>13. Cardinality(Answers(mainQueue')) = Cardinality(Answers(mainQueue)) - 1
  BY <1>2 DEF b
<1>14. ASSUME doubles = 0
       PROVE  /\ \A i \in DOMAIN results' : results'[i].id = results'[i].from
              /\ Answers(mainQueue') = {}
              /\ \A p \in Protocols : probes[p] = 0
  <2>1. /\ \A i \in DOMAIN results : results[i].id = results[i].from
        /\ \A i \in Answers(mainQueue) : mainQueue[i].from = Top(toTest)
        /\ breaking = {}
    BY <1>14 DEF TesterInv, AnswerInv, Tested
  <2>2. r.id = r.from
    BY <1>2, <1>7, <1>8, <1>14, <2>1 DEF Origin
  <2>3. \A i \in DOMAIN results' : results'[i].id = results'[i].from
    BY <1>10, <2>1, <2>2
  <2>4. /\ Cardinality(Answers(mainQueue)) \in Nat /\ Cardinality(breaking) \in Nat
        /\ probes["quic"] \in Nat /\ probes["standard"] \in Nat
        /\ Cardinality(Answers(mainQueue')) \in Nat /\ IsFiniteSet(Answers(mainQueue'))
    BY <1>1, <1>2, CountFacts, AnswersFinite
  <2>5. /\ Cardinality(Answers(mainQueue')) = 0
        /\ probes["quic"] = 0 /\ probes["standard"] = 0
    <3> DEFINE a == probes["quic"]
               e == probes["standard"]
               c == Cardinality(Answers(mainQueue))
               d == Cardinality(breaking)
               n == Cardinality(Answers(mainQueue'))
    <3>1. /\ a \in Nat /\ e \in Nat /\ c \in Nat /\ d \in Nat /\ n \in Nat /\ n = c - 1
          /\ ToCome <= doubles + 1 /\ doubles = 0
      BY <1>12, <1>13, <1>14, <2>4, Zenon
    <3>2. ToCome = a + e + c + d
      BY ToComeDef, Zenon
    <3> HIDE DEF a, e, c, d, n
    <3>3. n = 0 /\ a = 0 /\ e = 0
      BY ONLY <3>1, <3>2
    <3> QED BY <3>3 DEF a, e, n
  <2>6. Answers(mainQueue') = {}
    BY <2>4, <2>5, FS_EmptySet
  <2> QED BY <2>3, <2>5, <2>6 DEF Protocols
<1> QED BY <1>2, <1>3, <1>4, <1>10, <1>11, <1>12, <1>13, <1>14

\* A protocol is left: it is on top now, and it is probed.
LEMMA NextResultInv == TesterInv /\ NextResult => TesterInv'
<1> SUFFICES ASSUME TesterInv, NextResult PROVE TesterInv'
  OBVIOUS
<1> DEFINE p == Top(toTest')
<1>1. /\ MainIdle /\ Head(mainQueue).op = "result" /\ Len(toTest) > 1
      /\ results' = Recorded /\ toTest' = Pop(toTest) /\ mainQueue' = Tail(mainQueue)
      /\ probes' = [probes EXCEPT ![p] = @ + 1]
      /\ running' = running /\ completing' = completing /\ breaking' = breaking
      /\ doubles' = doubles /\ undefined' = undefined /\ ~completing
  BY DEF NextResult, Launch, MainIdle
<1>2. TesterTypeOK /\ toTest \in Seq(Protocols) /\ toTest # <<>>
  <2>1. TesterTypeOK /\ toTest \in Seq(Protocols)
    BY DEF TesterInv, TesterTypeOK
  <2>2. toTest # <<>>
    BY <1>1, <2>1
  <2> QED BY <2>1, <2>2
<1>3. /\ running /\ NoStart'
      /\ mainQueue' \in Seq(Block) /\ OneStart'
      /\ toTest' \in Seq(Protocols) /\ results' \in Seq(Result)
      /\ ToCome \in Nat /\ ToCome <= doubles + 1
      /\ Cardinality(Answers(mainQueue')) = Cardinality(Answers(mainQueue)) - 1
      /\ doubles = 0 =>
            /\ \A i \in DOMAIN results' : results'[i].id = results'[i].from
            /\ Answers(mainQueue') = {}
            /\ \A r \in Protocols : probes[r] = 0
  BY <1>1, <1>2, ResultTaken
<1>4. toTest' # <<>>
  <2>1. Pop(toTest) = <<>> <=> Len(toTest) = 1
    BY <1>2, TopFacts
  <2> DEFINE n == Len(toTest)
  <2>2. n > 1 /\ n \in Nat
    BY <1>1, <1>2
  <2> HIDE DEF n
  <2>3. n # 1
    BY <2>2
  <2> QED BY <1>1, <2>1, <2>3 DEF n
<1>5. p \in Protocols
  BY <1>3, <1>4, TopFacts
<1> HIDE DEF p
<1>6. /\ probes' \in [Protocols -> Nat]
      /\ probes'["quic"] + probes'["standard"] = probes["quic"] + probes["standard"] + 1
      /\ \A r \in Protocols \ {p} : probes'[r] = probes[r]
  <2>1. probes[p] \in Nat
    BY <1>2, <1>5 DEF TesterTypeOK
  <2>2. 1 \in {-1, 1} /\ probes[p] + 1 \in Nat
    BY <2>1
  <2> QED BY <1>1, <1>2, <1>5, <2>2, ProbesFacts
<1>7. TesterTypeOK'
  BY <1>1, <1>2, <1>3, <1>6 DEF TesterTypeOK
<1>8. ToCome' = ToCome
  <2>1. Cardinality(Answers(mainQueue)) \in Nat /\ Cardinality(breaking) \in Nat
    BY <1>2, CountFacts
  <2>2. Cardinality(Answers(mainQueue')) = Cardinality(Answers(mainQueue)) + (-1)
    BY <1>3, <2>1
  <2>3. Cardinality(breaking') = Cardinality(breaking) + 0
    BY <1>1, <2>1
  <2>4. ToCome' = ToCome + (1 + (-1) + 0)
    BY <1>2, <1>6, <2>2, <2>3, ToComeChange, 0 \in Int, 1 \in Int, -1 \in Int
  <2> QED BY <1>2, <2>4, ToComeNat
<1>9. RoundInv'
  BY <1>1, <1>3, <1>4, <1>8 DEF RoundInv
<1>10. AnswerInv'
  <2>1. ASSUME doubles = 0
        PROVE  \A r \in Protocols : probes'[r] > 0 => r = p
    BY <1>3, <1>6, <2>1
  <2> QED BY <1>1, <1>3, <1>4, <2>1 DEF TesterInv, AnswerInv, Tested, p
<1> QED BY <1>7, <1>9, <1>10 DEF TesterInv

\* The last protocol has answered: the round is over but for its callback.
LEMMA LastResultInv == TesterInv /\ LastResult => TesterInv'
<1> SUFFICES ASSUME TesterInv, LastResult PROVE TesterInv'
  OBVIOUS
<1>1. /\ MainIdle /\ Head(mainQueue).op = "result" /\ Len(toTest) = 1
      /\ results' = Recorded /\ toTest' = Pop(toTest) /\ mainQueue' = Tail(mainQueue)
      /\ running' = running /\ completing' = TRUE /\ probes' = probes
      /\ breaking' = breaking /\ doubles' = doubles /\ undefined' = undefined
  BY DEF LastResult
<1>2. TesterTypeOK /\ toTest \in Seq(Protocols) /\ toTest # <<>>
  <2>1. TesterTypeOK /\ toTest \in Seq(Protocols)
    BY DEF TesterInv, TesterTypeOK
  <2>2. toTest # <<>>
    BY <1>1, <2>1
  <2> QED BY <2>1, <2>2
<1>3. /\ running /\ NoStart'
      /\ mainQueue' \in Seq(Block) /\ OneStart'
      /\ toTest' \in Seq(Protocols) /\ results' \in Seq(Result)
      /\ ToCome \in Nat /\ ToCome <= doubles + 1
      /\ Cardinality(Answers(mainQueue')) = Cardinality(Answers(mainQueue)) - 1
      /\ doubles = 0 =>
            /\ \A i \in DOMAIN results' : results'[i].id = results'[i].from
            /\ Answers(mainQueue') = {}
            /\ \A r \in Protocols : probes[r] = 0
  BY <1>1, <1>2, ResultTaken
<1>4. toTest' = <<>>
  BY <1>1, <1>2, TopFacts
<1>5. TesterTypeOK'
  BY <1>1, <1>2, <1>3 DEF TesterTypeOK
<1>6. ToCome' = ToCome - 1 /\ doubles \in Nat
  <2>1. /\ Cardinality(Answers(mainQueue)) \in Nat /\ Cardinality(breaking) \in Nat
        /\ probes["quic"] \in Nat /\ probes["standard"] \in Nat
    BY <1>2, CountFacts
  <2>2. probes' \in [Protocols -> Nat]
    BY <1>1, <1>2 DEF TesterTypeOK
  <2>3. probes'["quic"] + probes'["standard"] = probes["quic"] + probes["standard"] + 0
    BY <1>1, <2>1
  <2>4. Cardinality(Answers(mainQueue')) = Cardinality(Answers(mainQueue)) + (-1)
    BY <1>3, <2>1
  <2>5. Cardinality(breaking') = Cardinality(breaking) + 0
    BY <1>1, <2>1
  <2>6. ToCome' = ToCome + (0 + (-1) + 0)
    BY <1>2, <2>2, <2>3, <2>4, <2>5, ToComeChange, 0 \in Int, -1 \in Int
  <2> QED BY <1>2, <2>6, ToComeNat
<1>7. RoundInv'
  <2>1. ToCome' <= doubles'
    BY <1>1, <1>3, <1>6
  <2> QED BY <1>1, <1>3, <1>4, <1>6, <2>1 DEF RoundInv
<1>8. AnswerInv'
  BY <1>1, <1>3 DEF TesterInv, AnswerInv
<1> QED BY <1>5, <1>7, <1>8 DEF TesterInv

\* A result arrives when nothing is being tested: one had reported twice.
LEMMA ResultForNothingInv == TesterInv /\ ResultForNothing => TesterInv'
<1> SUFFICES ASSUME TesterInv, ResultForNothing PROVE TesterInv'
  OBVIOUS
<1>1. /\ mainQueue # <<>> /\ Head(mainQueue).op = "result" /\ toTest = <<>>
      /\ undefined' = TRUE
      /\ running' = running /\ mainQueue' = mainQueue /\ toTest' = toTest
      /\ results' = results /\ completing' = completing /\ probes' = probes
      /\ breaking' = breaking /\ doubles' = doubles
  BY DEF ResultForNothing, MainIdle
<1>2. TesterTypeOK'
  BY <1>1 DEF TesterInv, TesterTypeOK
<1>3. RoundInv'
  BY <1>1 DEF TesterInv, RoundInv, OneStart, NoStart, ToCome, Outstanding
<1>4. 1 \in Answers(mainQueue)
  <2>1. mainQueue \in Seq(Block)
    BY DEF TesterInv, TesterTypeOK
  <2> QED BY <1>1, <2>1, AnswersTail DEF Answers
<1>5. doubles # 0
  BY <1>1, <1>4 DEF TesterInv, AnswerInv, Tested
<1> QED BY <1>1, <1>2, <1>3, <1>5 DEF TesterInv, AnswerInv

\* The callback has returned.
LEMMA FinishRoundInv == TesterInv /\ FinishRound => TesterInv'
<1> SUFFICES ASSUME TesterInv, FinishRound PROVE TesterInv'
  OBVIOUS
<1>1. /\ completing /\ completing' = FALSE /\ results' = <<>> /\ running' = FALSE
      /\ mainQueue' = mainQueue /\ toTest' = toTest /\ probes' = probes
      /\ breaking' = breaking /\ doubles' = doubles /\ undefined' = undefined
  BY DEF FinishRound
<1>2. toTest = <<>> /\ NoStart
  BY <1>1 DEF TesterInv, RoundInv
<1>3. TesterTypeOK'
  <2>1. TesterTypeOK /\ results' \in Seq(Result)
    BY <1>1 DEF TesterInv
  <2>2. running' \in BOOLEAN /\ completing' \in BOOLEAN
    BY <1>1
  <2> QED BY <1>1, <2>1, <2>2 DEF TesterTypeOK
<1>4. RoundInv'
  BY <1>1, <1>2 DEF TesterInv, RoundInv, OneStart, NoStart, ToCome, Outstanding
<1>5. AnswerInv'
  BY <1>1 DEF TesterInv, AnswerInv, Tested, Answers
<1> QED BY <1>3, <1>4, <1>5 DEF TesterInv

\* Whatever the main queue or the network does.
LEMMA TesterStepsInv == TesterInv /\ TesterSteps => TesterInv'
<1> SUFFICES ASSUME TesterInv, TesterSteps PROVE TesterInv'
  OBVIOUS
<1>1. CASE StartRound
  BY <1>1, StartRoundInv
<1>2. ASSUME NEW p \in Protocols, NEW ok \in BOOLEAN, ProbeAnswers(p, ok) \/ ProbeBreaks(p, ok)
      PROVE  TesterInv'
  BY <1>2, ProbeAnswersInv
<1>3. ASSUME NEW p \in Protocols, ProbeFailsLate(p) PROVE TesterInv'
  BY <1>3, ProbeFailsLateInv
<1>4. ASSUME NEW p \in Protocols, ProbeSilent(p) PROVE TesterInv'
  BY <1>4, ProbeSilentInv
<1>5. CASE NextResult
  BY <1>5, NextResultInv
<1>6. CASE LastResult
  BY <1>6, LastResultInv
<1>7. CASE ResultForNothing
  BY <1>7, ResultForNothingInv
<1> QED BY <1>1, <1>2, <1>3, <1>4, <1>5, <1>6, <1>7 DEF TesterSteps

-----------------------------------------------------------------------------
(* What the selector picks. *)

\* Least is the least of a set of indices.
LEMMA LeastFacts ==
    ASSUME NEW I, I \subseteq Nat, I # {}
    PROVE  Least(I) \in I /\ \A j \in I : Least(I) <= j
<1> DEFINE R == {ss \in Nat \X Nat : ss[1] < ss[2]}
<1>1. IsWellFoundedOn(R, Nat)
  <2>1. R = OpToRel(<, Nat)
    BY Zenon DEF OpToRel
  <2> QED BY <2>1, NatLessThanWellFounded, Zenon
<1>2. \A i, j \in Nat : <<j, i>> \in R <=> j < i
  OBVIOUS
<1> HIDE DEF R
<1>3. PICK i \in I : \A j \in I : ~(<<j, i>> \in R)
  BY <1>1, WFMin
<1>4. ASSUME NEW j \in I PROVE i <= j
  <2>1. i \in Nat /\ j \in Nat
    OBVIOUS
  <2>2. ~(j < i)
    BY <1>2, <1>3, <2>1
  <2> QED BY <2>1, <2>2
<1> QED BY <1>4 DEF Least

\* The pick is a name of the list, the first available one if there is one.
LEMMA PickFacts ==
    ASSUME NEW S, NEW list \in Seq(S), list # <<>>, NEW avail
    PROVE  /\ FrontAfterRemoveIf(list, avail) \in Range(list)
           /\ Kept(list, avail) # {} =>
                /\ Least(Kept(list, avail)) \in Kept(list, avail)
                /\ FrontAfterRemoveIf(list, avail) = list[Least(Kept(list, avail))]
                /\ \A j \in Kept(list, avail) : Least(Kept(list, avail)) <= j
<1> DEFINE K == Kept(list, avail)
<1>1. /\ K \subseteq DOMAIN list /\ K \subseteq Nat
      /\ 1 \in DOMAIN list /\ Head(list) = list[1]
  BY DEF Kept
<1>2. K = {} => FrontAfterRemoveIf(list, avail) = Head(list)
  BY DEF FrontAfterRemoveIf
<1>3. K # {} => FrontAfterRemoveIf(list, avail) = list[Least(K)]
  BY DEF FrontAfterRemoveIf
<1> HIDE DEF K
<1>4. K # {} => Least(K) \in K /\ \A j \in K : Least(K) <= j
  BY <1>1, LeastFacts
<1>5. FrontAfterRemoveIf(list, avail) \in Range(list)
  BY <1>1, <1>2, <1>3, <1>4, RangeDef
<1> QED BY <1>3, <1>4, <1>5 DEF K

\* A pick is a protocol or nothing, and a protocol is picked by its name.
LEMMA convertFacts ==
    ASSUME NEW id
    PROVE  /\ convertIDToPropocol(id) \in Protocols \cup {None}
           /\ convertIDToPropocol(id) # None => convertIDToPropocol(id) = id
           /\ id \in Protocols => convertIDToPropocol(id) = id
BY DEF convertIDToPropocol

\* sortProtocols keeps the types.
LEMMA sortType ==
    ASSUME NEW list, NEW avail, sortProtocols(list, avail), avail \subseteq Named,
           best \in Protocols \cup {None}
    PROVE  best' \in Protocols \cup {None}
BY convertFacts DEF sortProtocols

\* What handleTestResults finds available are names of protocols.
LEMMA SucceededFacts ==
    ASSUME NEW rs \in Seq(Result)
    PROVE  /\ Succeeded(rs) \subseteq Named
           /\ \A x : x \in Succeeded(rs) <=> \E k \in DOMAIN rs : rs[k].id = x /\ rs[k].ok
<1>1. \A k \in DOMAIN rs : rs[k].id \in Protocols
  <2>1. \A k \in DOMAIN rs : rs[k] \in Result
    OBVIOUS
  <2>2. \A r \in Result : r.id \in Protocols
    BY DEF Result
  <2> QED BY <2>1, <2>2
<1> QED BY <1>1 DEF Succeeded, Named

-----------------------------------------------------------------------------
(* The actions of the selector keep the invariant. *)

\* What TypeOK says of the selector and of the configuration.
SelectorTypeOK ==
    /\ best \in Protocols \cup {None}
    /\ available \subseteq Named
    /\ monitoring \in BOOLEAN
    /\ firstInit \in BOOLEAN
    /\ active \in Configurations \cup {None}
    /\ timedOut \in BOOLEAN
    /\ completions \in [Completion -> Nat]
    /\ confProtos = None \/ confProtos \in Seq(Named)
    /\ readWhileOff \in BOOLEAN

LEMMA SelectionParts == SelectionInv <=> TesterInv /\ SelectorTypeOK /\ SelectorInv
BY DEF SelectionInv, TypeOK, TesterInv, SelectorTypeOK

LEMMA SelectorStutter ==
    ASSUME SelectorTypeOK, SelectorInv, UNCHANGED <<selectorVars, confVars>>
    PROVE  SelectorTypeOK' /\ SelectorInv'
BY DEF SelectorTypeOK, SelectorInv, selectorVars, confVars

\* A completion moves on, or ends: there is one fewer where it was.
LEMMA CompletionFacts ==
    ASSUME completions \in [Completion -> Nat], NEW k \in Completion, completions[k] > 0,
           NEW k2, k2 # k
    PROVE  Move(k, k2) \/ End(k) =>
               completions' \in [Completion -> Nat] /\ completions'[k] < completions[k]
BY DEF Move, End

\* The places of a completion are different ones.
LEMMA PlaceFacts ==
    /\ Activated \in Completion
    /\ \A c : Passed(c) # Activated /\ Passed(c) # First(c)
    /\ \A c \in Configurations : Passed(c) \in Completion /\ First(c) \in Completion
BY DEF Completion, Activated, Passed, First

\* A configuration has been loaded.
LEMMA ApplyConfigurationInv ==
    ASSUME SelectionInv, NEW c \in Configurations, ApplyConfiguration(c)
    PROVE  SelectionInv'
<1>1. TesterInv'
  BY SelectionParts, TesterStutter DEF ApplyConfiguration
<1>2. completions' \in [Completion -> Nat]
  <2>1. completions \in [Completion -> Nat]
    BY SelectionParts DEF SelectorTypeOK
  <2>2. completions' = [completions EXCEPT ![Activated] = @ + 1]
    BY DEF ApplyConfiguration
  <2>3. Activated \in Completion => completions[Activated] + 1 \in Nat
    BY <2>1
  <2> QED BY <2>1, <2>2, <2>3
<1>3. SelectorTypeOK' /\ SelectorInv'
  BY <1>2, SelectionParts DEF ApplyConfiguration, SelectorTypeOK, SelectorInv, selectorVars
<1> QED BY <1>1, <1>3 DEF SelectionInv, TypeOK, TesterInv, SelectorTypeOK

\* A completion passes on what the active configuration is.
LEMMA PassActiveInv ==
    ASSUME SelectionInv, PassActive
    PROVE  SelectionInv'
<1>1. TesterInv'
  BY SelectionParts, TesterStutter DEF PassActive
<1>2. SelectorTypeOK /\ SelectorInv
  BY SelectionParts
<1>3. completions' \in [Completion -> Nat]
  BY <1>2, PlaceFacts, CompletionFacts DEF PassActive, SelectorTypeOK
<1>4. SelectorTypeOK' /\ SelectorInv'
  BY <1>2, <1>3 DEF PassActive, SelectorTypeOK, SelectorInv, selectorVars
<1> QED BY <1>1, <1>4 DEF SelectionInv, TypeOK, TesterInv, SelectorTypeOK

\* One completion goes through the exchange on _firstInit.
LEMMA ExchangeFirstInitInv ==
    ASSUME SelectionInv, NEW c \in Configurations, ExchangeFirstInit(c)
    PROVE  SelectionInv'
<1>1. TesterInv'
  BY SelectionParts, TesterStutter DEF ExchangeFirstInit
<1>2. SelectorTypeOK /\ SelectorInv
  BY SelectionParts
<1>3. completions' \in [Completion -> Nat]
  BY <1>2, PlaceFacts, CompletionFacts DEF ExchangeFirstInit, SelectorTypeOK
<1>4. SelectorTypeOK' /\ SelectorInv'
  BY <1>2, <1>3 DEF ExchangeFirstInit, SelectorTypeOK, SelectorInv
<1> QED BY <1>1, <1>4 DEF SelectionInv, TypeOK, TesterInv, SelectorTypeOK

\* That one picks the initial protocol and starts a round.
LEMMA FirstInitInv ==
    ASSUME SelectionInv, NEW c \in Configurations, FirstInit(c)
    PROVE  SelectionInv'
<1>1. TesterInv'
  BY SelectionParts, runTestsInv DEF FirstInit
<1>2. c.initial \in Named
  BY ConfigurationsAssumption
<1>3. SelectorTypeOK /\ SelectorInv
  BY SelectionParts
<1>4. completions' \in [Completion -> Nat]
  BY <1>3, PlaceFacts, CompletionFacts DEF FirstInit, SelectorTypeOK
<1>5. best' \in Protocols \cup {None}
  BY convertFacts DEF FirstInit
<1>6. SelectorTypeOK' /\ SelectorInv'
  BY <1>2, <1>3, <1>4, <1>5 DEF FirstInit, SelectorTypeOK, SelectorInv
<1> QED BY <1>1, <1>6 DEF SelectionInv, TypeOK, TesterInv, SelectorTypeOK

\* A later configuration sorts what it allows.
LEMMA ReconfigureInv ==
    ASSUME SelectionInv, NEW c \in Configurations, Reconfigure(c)
    PROVE  SelectionInv'
<1>1. TesterInv'
  BY SelectionParts, TesterStutter DEF Reconfigure
<1>2. SelectorTypeOK /\ SelectorInv
  BY SelectionParts
<1>3. best' \in Protocols \cup {None}
  BY <1>2, sortType DEF Reconfigure, SelectorTypeOK
<1>4. completions' \in [Completion -> Nat]
  BY <1>2, PlaceFacts, CompletionFacts DEF Reconfigure, SelectorTypeOK
<1>5. SelectorTypeOK' /\ SelectorInv'
  BY <1>2, <1>3, <1>4 DEF Reconfigure, SelectorTypeOK, SelectorInv
<1> QED BY <1>1, <1>5 DEF SelectionInv, TypeOK, TesterInv, SelectorTypeOK

\* The active configuration times out.
LEMMA TimeOutInv ==
    ASSUME SelectionInv, TimeOut
    PROVE  SelectionInv'
<1>1. TesterInv'
  BY SelectionParts, TesterStutter DEF TimeOut
<1>2. SelectorTypeOK' /\ SelectorInv'
  BY SelectionParts DEF TimeOut, SelectorTypeOK, SelectorInv, selectorVars
<1> QED BY <1>1, <1>2 DEF SelectionInv, TypeOK, TesterInv, SelectorTypeOK

\* A change of the network, or a failing protocol, asks for a round.
LEMMA RoundAskedInv ==
    ASSUME SelectionInv, NEW ignore \in Protocols \cup {None}, runTests(ignore),
           UNCHANGED <<roundVars, selectorVars, confVars>>
    PROVE  SelectionInv'
<1>1. TesterInv'
  BY SelectionParts, runTestsInv
<1>2. SelectorTypeOK' /\ SelectorInv'
  BY SelectionParts, SelectorStutter
<1> QED BY <1>1, <1>2 DEF SelectionInv, TypeOK, TesterInv, SelectorTypeOK

\* handleTestResults reads what is allowed: nothing while there is no best protocol.
LEMMA ReadAllowedInv ==
    ASSUME SelectionInv, ReadAllowed
    PROVE  SelectionInv'
<1>1. TesterInv'
  BY SelectionParts, TesterStutter DEF ReadAllowed
<1>2. SelectorTypeOK /\ SelectorInv
  BY SelectionParts
<1>3. getAllowedProtocolIDs \in Seq(Named)
  BY <1>2, ConfigurationsAssumption DEF getAllowedProtocolIDs, SelectorTypeOK
<1>4. best = None => getAllowedProtocolIDs = <<>>
  BY DEF getAllowedProtocolIDs, isStale
<1>5. /\ confProtos' = getAllowedProtocolIDs /\ readWhileOff' = (best = None)
      /\ best' = best /\ available' = available
      /\ monitoring' = monitoring /\ firstInit' = firstInit /\ active' = active
      /\ timedOut' = timedOut /\ completions' = completions
  BY DEF ReadAllowed, selectorVars
<1>6. SelectorTypeOK'
  <2>1. readWhileOff' \in BOOLEAN
    BY <1>5
  <2>2. confProtos' \in Seq(Named)
    BY <1>3, <1>5
  <2> QED BY <1>2, <1>5, <2>1, <2>2 DEF SelectorTypeOK
<1>7. SelectorInv'
  BY <1>2, <1>4, <1>5 DEF SelectorInv
<1> QED BY <1>1, <1>6, <1>7 DEF SelectionInv, TypeOK, TesterInv, SelectorTypeOK

\* handleTestResults picks among what it has read, and the round is over.
LEMMA handleTestResultsInv ==
    ASSUME SelectionInv, handleTestResults
    PROVE  SelectionInv'
<1>1. TesterInv'
  BY SelectionParts, FinishRoundInv DEF handleTestResults
<1>2. SelectorTypeOK /\ SelectorInv /\ results \in Seq(Result)
  BY SelectionParts DEF TesterInv, TesterTypeOK
<1>3. available' \subseteq Named
  BY <1>2, SucceededFacts DEF handleTestResults
<1>4. best' \in Protocols \cup {None}
  BY <1>2, <1>3, sortType DEF handleTestResults, SelectorTypeOK
<1>5. /\ confProtos' = None /\ readWhileOff' = FALSE /\ monitoring' = monitoring
      /\ firstInit' = firstInit /\ active' = active /\ timedOut' = timedOut
      /\ completions' = completions
  BY DEF handleTestResults
<1>6. SelectorTypeOK'
  BY <1>2, <1>3, <1>4, <1>5 DEF SelectorTypeOK
<1>7. SelectorInv'
  BY <1>2, <1>5 DEF SelectorInv
<1> QED BY <1>1, <1>6, <1>7 DEF SelectionInv, TypeOK, TesterInv, SelectorTypeOK

-----------------------------------------------------------------------------
(* The invariant holds. *)

\* Nothing changes.
LEMMA SelectionStutter == SelectionInv /\ UNCHANGED vars => SelectionInv'
<1> SUFFICES ASSUME SelectionInv, UNCHANGED vars PROVE SelectionInv'
  OBVIOUS
<1>1. UNCHANGED testerVars /\ UNCHANGED <<selectorVars, confVars>>
  BY DEF vars
<1>2. TesterInv'
  BY <1>1, SelectionParts, TesterStutter
<1>3. SelectorTypeOK' /\ SelectorInv'
  BY <1>1, SelectionParts, SelectorStutter
<1> QED BY <1>2, <1>3 DEF SelectionInv, TypeOK, TesterInv, SelectorTypeOK

LEMMA SelectionStep == SelectionInv /\ [Next]_vars => SelectionInv'
<1> SUFFICES ASSUME SelectionInv, [Next]_vars PROVE SelectionInv'
  OBVIOUS
<1>1. ASSUME NEW c \in Configurations, Alive(ApplyConfiguration(c)) PROVE SelectionInv'
  BY <1>1, ApplyConfigurationInv DEF Alive
<1>2. CASE Alive(PassActive)
  BY <1>2, PassActiveInv DEF Alive
<1>3. ASSUME NEW c \in Configurations, Alive(Applying(c)) PROVE SelectionInv'
  BY <1>3, ExchangeFirstInitInv, FirstInitInv, ReconfigureInv DEF Alive, Applying
<1>4. CASE Alive(TimeOut)
  BY <1>4, TimeOutInv DEF Alive
<1>5. CASE Alive(NetworkChanged)
  BY <1>5, RoundAskedInv DEF Alive, NetworkChanged
<1>6. ASSUME NEW p \in Protocols, Alive(ProtocolFailed(p)) PROVE SelectionInv'
  BY <1>6, RoundAskedInv DEF Alive, ProtocolFailed
<1>7. CASE OnlyTester(TesterSteps)
  <2>1. TesterSteps /\ UNCHANGED <<selectorVars, confVars>>
    BY <1>7 DEF OnlyTester, Alive
  <2>2. TesterInv'
    BY <2>1, SelectionParts, TesterStepsInv
  <2>3. SelectorTypeOK' /\ SelectorInv'
    BY <2>1, SelectionParts, SelectorStutter
  <2> QED BY <2>2, <2>3 DEF SelectionInv, TypeOK, TesterInv, SelectorTypeOK
<1>8. CASE Alive(ReadAllowed)
  BY <1>8, ReadAllowedInv DEF Alive
<1>9. CASE Alive(handleTestResults)
  BY <1>9, handleTestResultsInv DEF Alive
<1>10. CASE Gone \/ UNCHANGED vars
  BY <1>10, SelectionStutter DEF Gone
<1> QED BY <1>1, <1>2, <1>3, <1>4, <1>5, <1>6, <1>7, <1>8, <1>9, <1>10 DEF Next

LEMMA SelectionInit == Init => SelectionInv
<1> SUFFICES ASSUME Init PROVE SelectionInv
  OBVIOUS
<1>1. /\ running = FALSE /\ mainQueue = <<>> /\ toTest = <<>> /\ results = <<>>
      /\ completing = FALSE /\ probes = [p \in Protocols |-> 0] /\ breaking = {}
      /\ doubles = 0 /\ undefined = FALSE
  BY DEF Init, TesterInit
<1>2. 0 \in 0 .. MaxDoubles
  BY TesterAssumption
<1>3. TesterTypeOK
  <2>1. probes \in [Protocols -> Nat]
    BY <1>1
  <2>2. mainQueue \in Seq(Block) /\ toTest \in Seq(Protocols) /\ results \in Seq(Result)
    BY <1>1
  <2>3. running \in BOOLEAN /\ completing \in BOOLEAN /\ undefined \in BOOLEAN
    BY <1>1
  <2> QED BY <1>1, <1>2, <2>1, <2>2, <2>3 DEF TesterTypeOK
<1>4. Answers(mainQueue) = {}
  BY <1>1 DEF Answers
<1>5. ToCome = 0
  <2>1. Cardinality(Answers(mainQueue)) = 0 /\ Cardinality(breaking) = 0
    BY <1>1, <1>4, FS_EmptySet
  <2>2. probes["quic"] = 0 /\ probes["standard"] = 0
    BY <1>1 DEF Protocols
  <2> QED BY <2>1, <2>2, ToComeDef
<1>6. RoundInv
  <2>1. OneStart /\ NoStart
    BY <1>1 DEF OneStart, NoStart
  <2> QED BY <1>1, <1>5, <2>1 DEF RoundInv
<1>7. AnswerInv
  <2>1. \A p \in Protocols : ~(probes[p] > 0)
    BY <1>1
  <2>2. DOMAIN results = {}
    BY <1>1
  <2> QED BY <1>1, <1>4, <2>1, <2>2 DEF AnswerInv
<1>8. SelectorTypeOK
  BY DEF Init, SelectorTypeOK
<1>9. SelectorInv
  BY DEF Init, SelectorInv
<1> QED BY <1>3, <1>6, <1>7, <1>8, <1>9, SelectionParts DEF TesterInv

\* Types, the course of a round, whose answers are to come, and what the handlers of
\* the selector rely on.
THEOREM SelectionCorrect == Spec => []SelectionInv
BY SelectionInit, SelectionStep, PTL DEF Spec

\* The tester and the selector keep their types; in particular the best protocol is
\* one that exists, whatever names a configuration lists (convertIDToPropocol).
THEOREM TypeCorrect == Spec => []TypeOK
<1>1. SelectionInv => TypeOK
  BY DEF SelectionInv
<1> QED BY <1>1, SelectionCorrect, PTL

\* Rounds do not overlap, and what is left over between two of them is owed to double
\* reports (the exchange on mRunning).
THEOREM QuietBetweenRoundsCorrect == Spec => []QuietBetweenRounds
<1>1. SelectionInv => QuietBetweenRounds
  <2> SUFFICES ASSUME SelectionInv, ~running PROVE QuietBetweenRounds
    BY DEF QuietBetweenRounds
  <2>1. /\ NoStart /\ toTest = <<>> /\ results = <<>> /\ ~completing
        /\ ToCome <= doubles + 0
    BY DEF SelectionInv, RoundInv
  <2>2. ToCome \in Nat /\ doubles \in Nat
    BY ToComeNat DEF SelectionInv, TypeOK
  <2> QED BY <2>1, <2>2 DEF NoStart, ToCome, QuietBetweenRounds
<1> QED BY <1>1, SelectionCorrect, PTL

\* A result is recorded for the protocol whose connection produced it, until a
\* connection has reported twice (the stack top read by onTestResult).
THEOREM ResultsAttributedCorrect == Spec => []ResultsAttributed
<1>1. SelectionInv => ResultsAttributed
  BY DEF SelectionInv, AnswerInv, ResultsAttributed
<1> QED BY <1>1, SelectionCorrect, PTL

-----------------------------------------------------------------------------
(* What a step may never do to the best protocol. *)

\* Only three handlers touch it, each by sorting or by taking the initial protocol.
LEMMA WhoPicks ==
    ASSUME [Next]_vars
    PROVE  \/ \E c \in Configurations : FirstInit(c) \/ Reconfigure(c)
           \/ handleTestResults
           \/ best' = best /\ (confProtos # None => confProtos' = confProtos)
<1>1. ASSUME NEW c \in Configurations, Alive(ApplyConfiguration(c))
      PROVE  best' = best /\ confProtos' = confProtos
  BY <1>1 DEF Alive, ApplyConfiguration, selectorVars
<1>2. ASSUME NEW c \in Configurations, Alive(Applying(c))
      PROVE  FirstInit(c) \/ Reconfigure(c) \/ (best' = best /\ confProtos' = confProtos)
  BY <1>2 DEF Alive, Applying, ExchangeFirstInit
<1>9. CASE Alive(PassActive)
  BY <1>9 DEF Alive, PassActive, selectorVars
<1>10. CASE Alive(handleTestResults)
  BY <1>10 DEF Alive
<1>3. CASE Alive(TimeOut)
  BY <1>3 DEF Alive, TimeOut, selectorVars
<1>4. CASE Alive(NetworkChanged)
  BY <1>4 DEF Alive, NetworkChanged, selectorVars, confVars
<1>5. ASSUME NEW p \in Protocols, Alive(ProtocolFailed(p))
      PROVE  best' = best /\ confProtos' = confProtos
  BY <1>5 DEF Alive, ProtocolFailed, selectorVars, confVars
<1>6. CASE OnlyTester(TesterSteps)
  BY <1>6 DEF OnlyTester, Alive, selectorVars, confVars
<1>7. CASE Alive(ReadAllowed)
  BY <1>7 DEF Alive, ReadAllowed, selectorVars
<1>8. CASE Gone \/ UNCHANGED vars
  BY <1>8 DEF Gone, vars, selectorVars, confVars
<1> QED BY <1>1, <1>2, <1>3, <1>4, <1>5, <1>6, <1>7, <1>8, <1>9, <1>10 DEF Next

\* A finished round picks the first allowed protocol that was found available
\* (remove_if and front in sortProtocols), whatever the lists are.
THEOREM PicksFirstAvailableCorrect == Spec => PicksFirstAvailable
<1> DEFINE usable == {i \in DOMAIN confProtos :
                        \E k \in DOMAIN results : results[k].id = confProtos[i] /\ results[k].ok}
           Picked == usable # {} => \E i \in usable : best' = confProtos[i] /\ \A j \in usable : i <= j
<1>1. ASSUME SelectionInv, [Next]_vars, confProtos # None, confProtos' = None PROVE Picked
  <2>1. handleTestResults
    BY <1>1, WhoPicks DEF FirstInit, Reconfigure
  <2>2. results \in Seq(Result) /\ confProtos \in Seq(Named)
    BY <1>1 DEF SelectionInv, TypeOK, TesterTypeOK
  <2> DEFINE avail == Succeeded(results)
             K == Kept(confProtos, avail)
  <2>3. \A x : x \in avail <=> \E k \in DOMAIN results : results[k].id = x /\ results[k].ok
    BY <2>2, SucceededFacts
  <2>4. usable = K
    BY <2>3 DEF Kept
  <2>5. ASSUME usable # {}
        PROVE  \E i \in usable : best' = confProtos[i] /\ \A j \in usable : i <= j
    <3>1. confProtos # <<>> /\ avail # {}
      BY <2>4, <2>5 DEF Kept
    <3>2. /\ Least(K) \in K /\ \A j \in K : Least(K) <= j
          /\ FrontAfterRemoveIf(confProtos, avail) = confProtos[Least(K)]
      BY <2>2, <2>4, <2>5, <3>1, PickFacts
    <3>3. best' = convertIDToPropocol(FrontAfterRemoveIf(confProtos, avail))
      BY <2>1, <3>1 DEF handleTestResults, sortProtocols
    <3>4. confProtos[Least(K)] \in Protocols
      <4>1. confProtos[Least(K)] \in avail
        BY <3>2 DEF Kept
      <4>2. \A r \in Result : r.id \in Protocols
        BY DEF Result
      <4>3. \A k \in DOMAIN results : results[k] \in Result
        BY <2>2
      <4> QED BY <2>3, <4>1, <4>2, <4>3
    <3>5. best' = confProtos[Least(K)]
      BY <3>2, <3>3, <3>4, convertFacts
    <3> QED BY <2>4, <3>2, <3>5
  <2> QED BY <2>5
<1>2. SelectionInv /\ [Next]_vars
        => [confProtos # None /\ confProtos' = None => Picked]_vars
  BY <1>1
<1> QED BY <1>2, SelectionCorrect, PTL DEF Spec, PicksFirstAvailable

\* The step that ends a completion shows that it does.
LEMMA LeavesFacts ==
    ASSUME SelectionInv, NEW c \in Configurations, FirstInit(c) \/ Reconfigure(c)
    PROVE  Leaves(c)
<1>1. completions \in [Completion -> Nat]
  BY SelectionParts DEF SelectorTypeOK
<1>2. CASE FirstInit(c)
  BY <1>1, <1>2, PlaceFacts, CompletionFacts DEF FirstInit, Leaves
<1>3. CASE Reconfigure(c)
  BY <1>1, <1>3, PlaceFacts, CompletionFacts DEF Reconfigure, Leaves
<1> QED BY <1>2, <1>3

\* A picked protocol is one the active configuration names, unless the list that
\* handleTestResults read before it took mLock is no longer the active one, or the
\* completion that picks it was overtaken and sorts by what it had passed on.
THEOREM PickIsConfiguredCorrect == Spec => PickIsConfigured
<1> DEFINE Justified == \/ best' \in Range(active.allowed) \cup {active.initial}
                        \/ confProtos # None /\ confProtos # active.allowed
                        \/ \E c \in Configurations : Leaves(c) /\ c # active
<1>1. ASSUME NEW list \in Seq(Named), NEW avail, sortProtocols(list, avail), best' # best, best' # None
      PROVE  best' \in Range(list)
  <2>1. list # <<>> /\ best' = convertIDToPropocol(FrontAfterRemoveIf(list, avail))
    BY <1>1 DEF sortProtocols
  <2>2. best' = FrontAfterRemoveIf(list, avail)
    BY <1>1, <2>1, convertFacts
  <2> QED BY <2>1, <2>2, PickFacts
<1>2. ASSUME SelectionInv, [Next]_vars, best' # best, best' # None PROVE Justified
  <2>1. ASSUME NEW c \in Configurations, FirstInit(c) PROVE Justified
    <3>1. best' = c.initial
      BY <1>2, <2>1, convertFacts DEF FirstInit
    <3>2. Leaves(c)
      BY <1>2, <2>1, LeavesFacts
    <3> QED BY <3>1, <3>2
  <2>2. ASSUME NEW c \in Configurations, Reconfigure(c) PROVE Justified
    <3>1. c.allowed \in Seq(Named)
      BY ConfigurationsAssumption
    <3>2. best' \in Range(c.allowed)
      BY <1>1, <1>2, <2>2, <3>1 DEF Reconfigure
    <3>3. Leaves(c)
      BY <1>2, <2>2, LeavesFacts
    <3> QED BY <3>2, <3>3
  <2>3. CASE handleTestResults
    <3>1. confProtos # None /\ sortProtocols(confProtos, available')
      BY <2>3 DEF handleTestResults
    <3>2. confProtos \in Seq(Named)
      BY <1>2, <3>1 DEF SelectionInv, TypeOK
    <3>3. best' \in Range(confProtos)
      BY <1>1, <1>2, <3>1, <3>2
    <3> QED BY <3>1, <3>3
  <2> QED BY <1>2, <2>1, <2>2, <2>3, WhoPicks
<1>3. SelectionInv /\ [Next]_vars => [best' # best /\ best' # None => Justified]_vars
  BY <1>2
<1> QED BY <1>3, SelectionCorrect, PTL DEF Spec, PickIsConfigured

\* No round brings an SDK without a best protocol back, whatever it finds: a list that
\* was read then is empty (getActive and isStale).
THEOREM OffUntilConfiguredCorrect == Spec => OffUntilConfigured
<1> DEFINE Configured == \E c \in Configurations : Leaves(c)
<1>1. ASSUME SelectionInv, [Next]_vars, best = None, best' # None
      PROVE  Configured \/ ~readWhileOff
  <2>1. ASSUME NEW c \in Configurations, FirstInit(c) \/ Reconfigure(c) PROVE Configured
    BY <1>1, <2>1, LeavesFacts
  <2>2. CASE handleTestResults
    <3>1. readWhileOff => confProtos = <<>>
      BY <1>1 DEF SelectionInv, SelectorInv
    <3>2. confProtos # <<>>
      BY <1>1, <2>2 DEF handleTestResults, sortProtocols
    <3> QED BY <3>1, <3>2
  <2> QED BY <1>1, <2>1, <2>2, WhoPicks
<1>2. SelectionInv /\ [Next]_vars
        => [best = None /\ best' # None => Configured \/ ~readWhileOff]_vars
  BY <1>1
<1> QED BY <1>2, SelectionCorrect, PTL DEF Spec, OffUntilConfigured
=============================================================================
