----------------------------- MODULE MCBuyerTab ------------------------------
(* A small instance of BuyerTab: constants for TLC.                          *)
EXTENDS BuyerTab

CONSTANTS f1, f2, a, d1, saved0

MCAgencyOf == <<>>    \* no clients

\* Nothing is found with f2.
MCTotalPages == [f \in Filters |-> IF f = f1 THEN 1 ELSE 0]
=============================================================================
