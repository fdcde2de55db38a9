--------------------------- MODULE MCRequestStats ---------------------------
(* Instances of RequestStats for TLC. *)
EXTENDS RequestStats

CONSTANTS r1, r2, r3, t1, t2, t3

ThreeRecords == {r1, r2, r3}
TwoRecords == {r1, r2}
TwoTransactions == {t1, t2}
ThreeTransactions == {t1, t2, t3}

\* Not configured (the batch is kRequestsCountMax) or one record per report.
Counts == {0, 1}
=============================================================================
