-------------------------- MODULE MCAgencyMembership --------------------------
(* Small instances of AgencyMembership: constants for TLC.                  *)
EXTENDS AgencyMembership, TLC

CONSTANTS u1, u2, t1, t2

\* Promote (or invite as an owner), demote, disable; <<"keep", "keep">> is the
\* empty body of DELETE.
SomeBodies == {<<"keep", "keep">>, <<"owner", "active">>, <<"admin", "keep">>,
               <<"keep", "disabled">>}

\* Slots are interchangeable.
Slots == Permutations(Threads)
=============================================================================
