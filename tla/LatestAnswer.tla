---------------------------- MODULE LatestAnswer ----------------------------
(* What a panel promises that asks the server again whenever its input       *)
(* changes: answers may take any time, yet once nothing is awaited and       *)
(* nothing failed, the panel shows the answer to what it asked last.         *)
(* ListingSearch (its map), ComparePage (the comparison) implement it.       *)
CONSTANTS
    Questions,    \* what may be asked
    NoQuestion    \* nothing is asked

VARIABLES
    question,     \* what was asked last
    waiting,      \* its answer is awaited
    shown,        \* the question whose answer is shown
    failed        \* the last question failed

vars == <<question, waiting, shown, failed>>

Init ==
    /\ question = NoQuestion /\ shown = NoQuestion
    /\ waiting = FALSE /\ failed = FALSE

\* A new question; an answer may be shown on the way, the last one's at the latest.
Ask(q) ==
    /\ waiting' = TRUE /\ failed' = FALSE
    /\ question' = q
    /\ shown' \in {shown, NoQuestion} \cup (IF waiting THEN {question} ELSE {})

Answer ==
    /\ waiting
    /\ shown' = question
    /\ waiting' = FALSE /\ failed' = FALSE
    /\ UNCHANGED question

Fail ==
    /\ waiting
    /\ waiting' = FALSE /\ failed' = TRUE
    /\ shown' \in {shown, NoQuestion}
    /\ UNCHANGED question

Forget ==
    /\ question' = NoQuestion /\ shown' = NoQuestion
    /\ waiting' = FALSE /\ failed' = FALSE

Next == Forget \/ Answer \/ Fail \/ \E q \in Questions : Ask(q)

Spec == Init /\ [][Next]_vars

=============================================================================
