---------------------------- MODULE PaidDelivery ----------------------------
(***************************************************************************)
(* What the paid-report service promises, without requests, stores or      *)
(* webhooks: an order's report is delivered only after a payment that      *)
(* matches it, delivery is never taken back, and the books on a payment    *)
(* are closed only once its report has been delivered.                     *)
(***************************************************************************)

CONSTANT Orders

VARIABLES
    settled,    \* orders a matching payment has been made for
    delivered,  \* orders that have their report
    closed      \* orders a payment of which is recorded as dealt with

vars == <<settled, delivered, closed>>

Init == settled = {} /\ delivered = {} /\ closed = {}

Settle(o) ==
    /\ o \notin settled
    /\ settled' = settled \cup {o}
    /\ UNCHANGED <<delivered, closed>>

Deliver(o) ==
    /\ o \in settled \ delivered
    /\ delivered' = delivered \cup {o}
    /\ UNCHANGED <<settled, closed>>

Close(o) ==
    /\ o \in delivered \ closed
    /\ closed' = closed \cup {o}
    /\ UNCHANGED <<settled, delivered>>

Next == \E o \in Orders : Settle(o) \/ Deliver(o) \/ Close(o)

Spec == Init /\ [][Next]_vars
=============================================================================
