--------------------------- MODULE MCReportCredits ---------------------------
(* Small instances of ReportCredits: constants for TLC.                     *)
EXTENDS ReportCredits

CONSTANTS b1, b2, t1, t2, r1, r2, r3, r4, r5, r6, r7

\* The newer bundle, charged first, grants a single credit.
TwoCredits == [b \in {b1, b2} |-> IF b = b2 THEN 1 ELSE 2]
TwoAges    == [b \in {b1, b2} |-> IF b = b2 THEN 2 ELSE 1]
OneCredit  == [b \in {b1} |-> 1]
OneAge     == [b \in {b1} |-> 1]
=============================================================================
