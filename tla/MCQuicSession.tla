--------------------------- MODULE MCQuicSession ---------------------------
(* Instances of QuicSession for TLC. *)
EXTENDS QuicSession

CONSTANTS q1, q2

TwoRequests == {q1, q2}
OneRequest == {q1}
=============================================================================
