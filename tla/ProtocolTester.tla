--------------------------- MODULE ProtocolTester ---------------------------
(***************************************************************************)
(* ProtocolAvailabilityTester: one round at a time, started from any       *)
(* thread, probes the transport protocols one after the other.  Everything *)
(* but the mRunning exchange happens in blocks of the serial main queue.   *)
(* The completion callback (the selector's handleTestResults) runs inside  *)
(* the block of the last result, so that block is a phase of its own here: *)
(* LastResult enters it, FinishRound leaves it.                            *)
(*                                                                         *)
(* MockDelegate tells neither connections nor rounds apart: a connection   *)
(* that fails after its response reports a second time, and that result    *)
(* is taken for the answer of whatever protocol is on top of the stack.    *)
(***************************************************************************)
EXTENDS Integers, Sequences, FiniteSets

CONSTANTS
    None,          \* no protocol (a null shared_ptr, an absent "ignore" argument)
    SilentProbes,  \* protocols whose test connection may never call its delegate
    MaxDoubles     \* bound on the connections that report twice

Protocols == {"quic", "standard"}

ASSUME TesterAssumption ==
    /\ None \notin Protocols
    /\ SilentProbes \subseteq Protocols
    /\ MaxDoubles \in Nat

VARIABLES
    running,     \* mRunning
    mainQueue,   \* blocks dispatched to the main queue
    toTest,      \* mProtocolsToTest, the top of the stack last
    results,     \* mCurrentResults
    completing,  \* the main thread is inside mCompletitionCallback
    probes,      \* for each protocol, its test connections that have not reported
    breaking,    \* protocols of connections that have reported and are going to fail
    doubles,     \* history: how many connections report twice
    undefined    \* top() was called on the empty stack

testerVars == <<running, mainQueue, toTest, results, completing, probes, breaking, doubles, undefined>>

Block == [op : {"start"}, ignore : Protocols \cup {None}]
           \cup [op : {"result"}, ok : BOOLEAN, from : Protocols \cup {None}]

Result == [id : Protocols, ok : BOOLEAN, from : Protocols \cup {None}]

TesterTypeOK ==
    /\ running \in BOOLEAN
    /\ mainQueue \in Seq(Block)
    /\ toTest \in Seq(Protocols)
    /\ results \in Seq(Result)
    /\ completing \in BOOLEAN
    /\ probes \in [Protocols -> Nat]
    /\ breaking \subseteq Protocols
    /\ doubles \in 0 .. MaxDoubles
    /\ undefined \in BOOLEAN

TesterInit ==
    /\ running = FALSE
    /\ mainQueue = <<>>
    /\ toTest = <<>>
    /\ results = <<>>
    /\ completing = FALSE
    /\ probes = [p \in Protocols |-> 0]
    /\ breaking = {}
    /\ doubles = 0
    /\ undefined = FALSE

Top(s) == s[Len(s)]
Pop(s) == SubSeq(s, 1, Len(s) - 1)
Push(s, p, ignore) == IF p = ignore THEN s ELSE Append(s, p)

\* QUIC is pushed and then Standard, which is on top unless it is the ignored one.
Stack(ignore) == Push(Push(<<>>, "quic", ignore), "standard", ignore)

-----------------------------------------------------------------------------
runTests_NoExchange(ignore) ==
    /\ running' = TRUE
    /\ mainQueue' = Append(mainQueue, [op |-> "start", ignore |-> ignore])

\* Both overloads of runTests: a call during a round is dropped.
runTests(ignore) ==
    IF running
    THEN UNCHANGED <<running, mainQueue>>
    ELSE /\ running' = TRUE
         /\ mainQueue' = Append(mainQueue, [op |-> "start", ignore |-> ignore])

MainIdle == ~completing /\ mainQueue # <<>>

\* Network::performReques with a clone of the protocol p.
Launch(p) == probes' = [probes EXCEPT ![p] = @ + 1]

\* Answers still to come: connections that have not reported, results queued.
Outstanding ==
    probes["quic"] + probes["standard"]
      + Cardinality({i \in DOMAIN mainQueue : mainQueue[i].op = "result"})

\* The block runTests dispatched: build the stack, probe its top.
StartRound ==
    /\ MainIdle
    /\ Head(mainQueue).op = "start"
    /\ results' = <<>>
    /\ toTest' = Stack(Head(mainQueue).ignore)
    /\ Launch(Top(toTest'))
    /\ mainQueue' = Tail(mainQueue)
    /\ UNCHANGED <<running, completing, breaking, doubles, undefined>>

\* History: the protocol whose connection reported, kept until one reports twice.
Origin(p) == IF doubles = 0 THEN p ELSE None

Report(p, ok) == mainQueue' = Append(mainQueue, [op |-> "result", ok |-> ok, from |-> Origin(p)])

\* A test connection receives a response, ok when its status is 200, or fails;
\* the result is dispatched to the main queue.
ProbeAnswers(p, ok) ==
    /\ probes[p] > 0
    /\ Report(p, ok)
    /\ probes' = [probes EXCEPT ![p] = @ - 1]
    /\ UNCHANGED <<running, toTest, results, completing, breaking, doubles, undefined>>

\* The same for a response whose body will not be loaded to its end.
ProbeBreaks(p, ok) ==
    /\ probes[p] > 0
    /\ p \notin breaking
    /\ doubles < MaxDoubles
    /\ doubles' = doubles + 1
    /\ Report(p, ok)
    /\ probes' = [probes EXCEPT ![p] = @ - 1]
    /\ breaking' = breaking \cup {p}
    /\ UNCHANGED <<running, toTest, results, completing, undefined>>

\* That connection fails, at any later time: the delegate is the same object, and
\* reports again.
ProbeFailsLate(p) ==
    /\ p \in breaking
    /\ Report(p, FALSE)
    /\ breaking' = breaking \ {p}
    /\ UNCHANGED <<running, toTest, results, completing, probes, doubles, undefined>>

\* A test connection ends without a response or an error: a redirect is not
\* reported to MockDelegate, a QUIC request without a session is dropped.
ProbeSilent(p) ==
    /\ p \in SilentProbes
    /\ probes[p] > 0
    /\ probes' = [probes EXCEPT ![p] = @ - 1]
    /\ UNCHANGED <<running, mainQueue, toTest, results, completing, breaking, doubles, undefined>>

Recorded_Bottom ==
    LET block == Head(mainQueue)
    IN  Append(results, [id |-> Head(toTest), ok |-> block.ok, from |-> Origin(block.from)])

\* The result is recorded for the protocol on top of the stack.
Recorded ==
    LET block == Head(mainQueue)
    IN  Append(results, [id |-> Top(toTest), ok |-> block.ok, from |-> Origin(block.from)])

\* onTestResult while protocols are left: probe the next one.
NextResult ==
    /\ MainIdle
    /\ Head(mainQueue).op = "result"
    /\ Len(toTest) > 1
    /\ results' = Recorded
    /\ toTest' = Pop(toTest)
    /\ Launch(Top(toTest'))
    /\ mainQueue' = Tail(mainQueue)
    /\ UNCHANGED <<running, completing, breaking, doubles, undefined>>

\* onTestResult of the last protocol, up to the completion callback.
LastResult ==
    /\ MainIdle
    /\ Head(mainQueue).op = "result"
    /\ Len(toTest) = 1
    /\ results' = Recorded
    /\ toTest' = Pop(toTest)
    /\ completing' = TRUE
    /\ mainQueue' = Tail(mainQueue)
    /\ UNCHANGED <<running, probes, breaking, doubles, undefined>>

\* onTestResult with nothing on the stack, which ends the process.
ResultForNothing ==
    /\ MainIdle
    /\ Head(mainQueue).op = "result"
    /\ toTest = <<>>
    /\ undefined' = TRUE
    /\ UNCHANGED <<running, mainQueue, toTest, results, completing, probes, breaking, doubles>>

FinishRound_StaysRunning ==
    /\ completing
    /\ completing' = FALSE
    /\ results' = <<>>
    /\ UNCHANGED <<running, mainQueue, toTest, probes, breaking, doubles, undefined>>

\* The rest of that block, once the callback returns.
FinishRound ==
    /\ completing
    /\ completing' = FALSE
    /\ results' = <<>>
    /\ running' = FALSE
    /\ UNCHANGED <<mainQueue, toTest, probes, breaking, doubles, undefined>>

\* What the main queue and the network do sooner or later.
TesterSteps ==
    \/ StartRound
    \/ \E p \in Protocols :
          \/ \E ok \in BOOLEAN : ProbeAnswers(p, ok) \/ ProbeBreaks(p, ok)
          \/ ProbeFailsLate(p)
          \/ ProbeSilent(p)
    \/ NextResult
    \/ LastResult
    \/ ResultForNothing
-----------------------------------------------------------------------------
\* Rounds do not overlap (the exchange on mRunning): outside a round nothing is
\* half tested and no round is about to start, and no more answers are to come
\* than connections report twice: a double report is never made good again.
QuietBetweenRounds ==
    ~running => /\ \A i \in DOMAIN mainQueue : mainQueue[i].op = "result"
                /\ toTest = <<>>
                /\ results = <<>>
                /\ ~completing
                /\ Outstanding + Cardinality(breaking) <= doubles

\* Although onTestResult takes the protocol from the top of the stack when its
\* block runs, a result is recorded for the protocol whose connection produced
\* it, and there is a protocol to record it for, as long as no connection has
\* reported twice.
ResultsAttributed ==
    doubles = 0 => /\ \A i \in DOMAIN results : results[i].id = results[i].from
                   /\ ~undefined
=============================================================================
