---------------------------- MODULE LoadContract ----------------------------
(***************************************************************************)
(* What the client of a load is promised, whichever transport serves it:   *)
(* it hears a redirect, or a response, pieces of data and then the end;    *)
(* what it has heard is never taken back, and after the end it hears       *)
(* nothing more.  Over QUIC a redirect is the last call; over the other    *)
(* transports the load may still fail afterwards, which is allowed here.   *)
(* Several loads may move in one step, and one by several calls.           *)
(***************************************************************************)
EXTENDS Naturals

CONSTANT Requests   \* the loads

VARIABLE told       \* per load: the kinds of calls its client has heard, and
                    \* how many pieces of data

Ends == {"finish", "fail"}

Kinds == {"response", "data", "redirect"} \cup Ends

\* A client hears data and a finish only of a load that was answered, a redirect
\* only of one that was not, and one end.
Clients ==
    {c \in [heard : SUBSET Kinds, pieces : Nat] :
        /\ c.heard \cap {"data", "finish"} # {} => "response" \in c.heard
        /\ "redirect" \in c.heard => c.heard \subseteq {"redirect", "fail"}
        /\ ~(Ends \subseteq c.heard)
        /\ c.pieces = 0 <=> "data" \notin c.heard}

Init == told = [r \in Requests |-> [heard |-> {}, pieces |-> 0]]

Ended(c) == c.heard \cap Ends # {}

\* What the client c may have become after it was told more.
ToldMore(c, d) ==
    /\ c.heard \subseteq d.heard
    /\ c.pieces <= d.pieces
    /\ Ended(c) => d = c

Next ==
    /\ told' \in [Requests -> Clients]
    /\ \A r \in Requests : ToldMore(told[r], told'[r])

Spec == Init /\ [][Next]_told
=============================================================================
