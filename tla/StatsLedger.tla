----------------------------- MODULE StatsLedger -----------------------------
(***************************************************************************)
(* What the statistics pipeline of the SDK promises, with no queue, file   *)
(* or transaction in sight: a collected request record is owed to the      *)
(* stats server until the server has it.  Only a kill of the application   *)
(* can cancel a debt, and a debt that is gone never comes back.            *)
(***************************************************************************)
EXTENDS Naturals

CONSTANT Records   \* the request records the application can produce

VARIABLES owed,    \* collected records the server does not have yet
          done,    \* records the server has
          seen,    \* records ever collected
          kills    \* how often the application was killed

ledger == <<owed, done, seen, kills>>

Init ==
    /\ owed = {}
    /\ done = {}
    /\ seen = {}
    /\ kills = 0

\* A request finishes and its record is collected.
Accept(r) ==
    /\ r \notin seen
    /\ owed' = owed \cup {r}
    /\ seen' = seen \cup {r}
    /\ UNCHANGED <<done, kills>>

\* One report reaches the server.
Deliver(S) ==
    /\ S \subseteq owed
    /\ owed' = owed \ S
    /\ done' = done \cup S
    /\ UNCHANGED <<seen, kills>>

\* The application is killed; the records of S had no durable copy.
Kill(S) ==
    /\ S \subseteq owed
    /\ owed' = owed \ S
    /\ kills' = kills + 1
    /\ UNCHANGED <<done, seen>>

Next ==
    \/ \E r \in Records : Accept(r)
    \/ \E S \in SUBSET owed : Deliver(S) \/ Kill(S)

Spec == Init /\ [][Next]_ledger
=============================================================================
