--------------------------- MODULE MCReportOrders ---------------------------
(* Small instances of ReportOrders: constants for TLC.                      *)
EXTENDS ReportOrders

CONSTANTS o1, p1, t1, r1, r2, r3, r4, r5

Note(event, order, action, priced, ref) ==
    [event |-> event, order |-> order, action |-> action, priced |-> priced, ref |-> ref]

PaidA     == Note("paid-a", o1, "paid", TRUE, "own")
PaidB     == Note("paid-b", o1, "paid", TRUE, "none")
Failed    == Note("failed", o1, "failed", TRUE, "own")
Refund    == Note("refund", o1, "refunded", TRUE, "own")
Mispriced == Note("mispriced", o1, "paid", FALSE, "own")
Foreign   == Note("foreign", o1, "paid", TRUE, "foreign")
Pending   == Note("pending", o1, "ignored", TRUE, "own")
Stray     == Note("stray", None, "paid", TRUE, "none")

\* One process whose thread pool races its event loop.
SingleProcessOf == [h \in {p1, t1} |-> p1]

\* Two payments of one order, a failure and a refund of it, a wrong amount, an
\* event without effect and one of no order.
AllNotes == {PaidA, PaidB, Failed, Refund, Mispriced, Pending, Stray}

\* What the finding about refunds needs: a payment, its refund, and a second paid event.
RefundNotes == {PaidA, PaidB, Refund}

\* The shortest histories in which a refund, or a payment with another
\* checkout's reference, meets a payment.
LiveNotes == {PaidA, Refund, Foreign}
=============================================================================
