---------------------------- MODULE MCBrowserTab ----------------------------
(* A small instance of BrowserTab: constants for TLC.                        *)
EXTENDS BrowserTab

CONSTANTS f1, f2, l1, l2, l3, s1, a1, a2, A, B, c1, e1, e2, h1, h2, n0, n1, n2

MCTotalPages == [f \in Filters |-> IF f = f1 THEN 2 ELSE 1]
MCAgencyOf   == [c \in Clients |-> A]

\* What comes in twos is interchangeable, agencies and filters aside; only one page
\* holds any of it at a time, so one exchange of all of them is as good as many.
Pairs    == {<<l1, l2>>, <<a1, a2>>, <<e1, e2>>, <<h1, h2>>, <<n1, n2>>}
Members  == UNION {{p[1], p[2]} : p \in Pairs}
Other(x) == CHOOSE y \in Members : <<x, y>> \in Pairs \/ <<y, x>> \in Pairs
Exchange == {[x \in Members |-> IF swap THEN Other(x) ELSE x] : swap \in BOOLEAN}
=============================================================================
