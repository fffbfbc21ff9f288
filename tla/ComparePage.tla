----------------------------- MODULE ComparePage ----------------------------
(* The comparison page.                                                      *)
(*                                                                           *)
(* The selection and the purpose come from the page's link, and every change *)
(* the user makes is written back to it.  Two effects run at once: the       *)
(* initial load, started again by a change of language, fetches the listings *)
(* on offer and then sets the selection it read from the link when it was    *)
(* started; the comparison's effect asks again whenever the selection, the   *)
(* purpose or the language change, and cancels the request before.  The      *)
(* assistant's verdict and the client shortlist are asked for by a button    *)
(* and nothing cancels them.                                                 *)
EXTENDS PageParameters

VARIABLES
    mounted,      \* the page is on screen
    link,         \* the listings and the purpose the page's link names
    available,    \* the listings on offer have been loaded
    selected, purpose,
    loads,        \* the initial loads in flight
    comparison,   \* the question whose answer is shown
    compareCalls, \* the comparison awaited, cancelled ones aside
    answers,      \* the selection the verdict and the shortlist shown are about
    asking,       \* the selection they are being asked for
    error,
    unsynced      \* history: an initial load set a selection the link does not name

followVars == <<answers, asking>>
vars == <<mounted, link, available, selected, purpose, loads, comparison, compareCalls,
          followVars, error, unsynced>>

MAX_COMPARE_ITEMS == MaxCompare

Selections == {s \in SUBSET Listings : Cardinality(s) <= MAX_COMPARE_ITEMS}
Questions  == [ids: {s \in Selections : Cardinality(s) >= 2}, purpose: Purposes]
Links      == [ids: SUBSET Listings, purpose: Purposes \cup {None}]

\* An initial load has read the selection from the link, and whether it has a purpose;
\* n tells two of them apart.
InitialLoads == [n: 1..MaxInitialLoads, ids: Selections, hasPurpose: BOOLEAN]

\* The ids of a link are cut to the ones that may be compared.
initialIds(ids) ==
    IF ids \in Selections THEN {ids} ELSE {s \in SUBSET ids : Cardinality(s) = MAX_COMPARE_ITEMS}

\* What the selection asks for, if there is something to compare.
Question(s, p) == IF Cardinality(s) >= 2 THEN [ids |-> s, purpose |-> p] ELSE None

NoAnswers == [op \in FollowUps |-> None]

Init ==
    /\ mounted = FALSE
    /\ link = [ids |-> {}, purpose |-> None]
    /\ available = FALSE
    /\ selected = {} /\ purpose = "self"
    /\ loads = {}
    /\ comparison = None /\ compareCalls = {}
    /\ answers = NoAnswers /\ asking = NoAnswers
    /\ error = FALSE /\ unsynced = FALSE

-----------------------------------------------------------------------------
(* The comparison's effect, run by every change of what it depends on. *)

\* Mutant of loadCompare: the request before is not cancelled.
MutantLoadCompare(s, p) ==
    /\ compareCalls' = compareCalls \cup ({Question(s, p)} \ {None})
    /\ comparison' = IF Cardinality(s) < 2 THEN None ELSE comparison
    /\ error' = FALSE

loadCompare(s, p) ==
    IF Cardinality(s) < 2
    THEN /\ comparison' = None
         /\ compareCalls' = {}
         /\ UNCHANGED error
    ELSE /\ compareCalls' = {[ids |-> s, purpose |-> p]}
         /\ error' = FALSE
         /\ UNCHANGED comparison

\* Mutant of syncCompareUrl: the selection before the change is written.
MutantSyncCompareUrl(s, p) == link' = [ids |-> selected, purpose |-> p]

syncCompareUrl(s, p) == link' = [ids |-> s, purpose |-> p]

\* loadInitial, for one of the selections the link may be cut to.
loadInitial(ids) ==
    /\ Cardinality(loads) < MaxInitialLoads
    /\ loads' = loads \cup {[n |-> CHOOSE n \in 1..MaxInitialLoads : \A l \in loads : l.n # n,
                             ids |-> ids, hasPurpose |-> link'.purpose # None]}

-----------------------------------------------------------------------------
(* The page is opened with a link, its language changes, it is left. *)

Mount(ln) ==
    /\ ~mounted
    /\ mounted' = TRUE
    /\ link' = ln
    /\ purpose' = IF ln.purpose = None THEN purpose ELSE ln.purpose
    /\ \E ids \in initialIds(ln.ids) : loadInitial(ids)
    /\ UNCHANGED <<available, selected, comparison, compareCalls, followVars, error, unsynced>>

\* Both effects run again; the initial load does not cancel the one before.
ChangeLocale ==
    /\ mounted
    /\ UNCHANGED link
    /\ purpose' = IF link.purpose = None THEN purpose ELSE link.purpose
    /\ \E ids \in initialIds(link.ids) : loadInitial(ids)
    /\ compareCalls' = {Question(selected, purpose')} \ {None}
    /\ comparison' = IF Cardinality(selected) < 2 THEN None ELSE comparison
    /\ error' = FALSE
    /\ UNCHANGED <<mounted, available, selected, followVars, unsynced>>

Unmount ==
    /\ mounted
    /\ mounted' = FALSE
    /\ link' = [ids |-> {}, purpose |-> None]
    /\ available' = FALSE
    /\ selected' = {} /\ purpose' = "self"
    /\ loads' = {}
    /\ comparison' = None /\ compareCalls' = {}
    /\ answers' = NoAnswers /\ asking' = NoAnswers
    /\ error' = FALSE /\ unsynced' = FALSE

\* The profile's purpose, "self" without a profile, fills in one the link did not have
\* when the load was started; the selection read from the link then is set.
InitialLoaded(l) ==
    /\ loads' = loads \ {l}
    /\ available' = TRUE
    /\ purpose' \in IF l.hasPurpose THEN {purpose} ELSE Purposes
    /\ selected' = l.ids
    /\ loadCompare(l.ids, purpose')
    /\ unsynced' = \/ unsynced
                   \/ link.ids # l.ids
                   \/ link.purpose \notin {None, purpose'}
    /\ UNCHANGED <<mounted, link, followVars>>

InitialFails(l) ==
    /\ loads' = loads \ {l}
    /\ error' = TRUE
    /\ UNCHANGED <<mounted, link, available, selected, purpose, comparison, compareCalls,
                   followVars, unsynced>>

-----------------------------------------------------------------------------
(* The selection and the purpose. *)

\* Only what is on offer can be taken in or out.
toggleListing(l) ==
    /\ mounted /\ available
    /\ l \notin Gone
    /\ \/ l \in selected /\ selected' = selected \ {l}
       \/ /\ l \notin selected /\ Cardinality(selected) < MAX_COMPARE_ITEMS
          /\ selected' = selected \cup {l}
    /\ syncCompareUrl(selected', purpose)
    /\ loadCompare(selected', purpose)
    /\ unsynced' = FALSE
    /\ UNCHANGED <<mounted, available, purpose, loads, followVars>>

choosePurpose(p) ==
    /\ mounted /\ p # purpose
    /\ purpose' = p
    /\ syncCompareUrl(selected, p)
    /\ loadCompare(selected, p)
    /\ unsynced' = FALSE
    /\ UNCHANGED <<mounted, available, selected, loads, followVars>>

refresh ==
    /\ mounted /\ Cardinality(selected) >= 2
    /\ loadCompare(selected, purpose)
    /\ UNCHANGED <<mounted, link, available, selected, purpose, loads, followVars, unsynced>>

-----------------------------------------------------------------------------
(* The answers to a comparison. *)

\* Mutant of Compared: the answers about the former comparison stay.
MutantCompared(q) ==
    /\ q \in compareCalls
    /\ Cardinality(q.ids) >= 2 /\ q.ids \cap Gone = {}
    /\ comparison' = q
    /\ compareCalls' = compareCalls \ {q}
    /\ UNCHANGED <<mounted, link, available, selected, purpose, loads, followVars, error,
                   unsynced>>

\* The server compares what is still available, of which there must be two; the page
\* then drops the rest and asks once more.
Compared(q) ==
    /\ q \in compareCalls
    /\ Cardinality(q.ids \ Gone) >= 2
    /\ comparison' = q
    /\ answers' = NoAnswers
    /\ IF q.ids \cap Gone = {}
       THEN /\ compareCalls' = compareCalls \ {q}
            /\ UNCHANGED <<link, selected, error, unsynced>>
       ELSE /\ selected' = q.ids \ Gone
            /\ syncCompareUrl(q.ids \ Gone, q.purpose)
            /\ compareCalls' = {[q EXCEPT !.ids = q.ids \ Gone]}
            /\ error' = FALSE /\ unsynced' = FALSE
    /\ UNCHANGED <<mounted, available, purpose, loads, asking>>

CompareFails(q) ==
    /\ q \in compareCalls
    /\ compareCalls' = compareCalls \ {q}
    /\ comparison' = None
    /\ answers' = NoAnswers
    /\ error' = TRUE
    /\ UNCHANGED <<mounted, link, available, selected, purpose, loads, asking, unsynced>>

-----------------------------------------------------------------------------
(* generateAIVerdict and generateClientShortlist. *)

askFollowUp(op) ==
    /\ ~error /\ comparison # None /\ Cardinality(selected) >= 2
    /\ asking[op] = None
    /\ asking' = [asking EXCEPT ![op] = selected]
    /\ UNCHANGED <<mounted, link, available, selected, purpose, loads, comparison,
                   compareCalls, answers, error, unsynced>>

\* The answer, or none when the request failed.
FollowUpAnswered(op) ==
    /\ asking[op] # None
    /\ answers' \in {[answers EXCEPT ![op] = a] : a \in {asking[op], None}}
    /\ asking' = [asking EXCEPT ![op] = None]
    /\ UNCHANGED <<mounted, link, available, selected, purpose, loads, comparison,
                   compareCalls, error, unsynced>>

Next ==
    \/ \E ln \in Links : Mount(ln)
    \/ ChangeLocale
    \/ Unmount
    \/ \E l \in loads : InitialLoaded(l) \/ InitialFails(l)
    \/ \E l \in Listings : toggleListing(l)
    \/ \E p \in Purposes : choosePurpose(p)
    \/ refresh
    \/ \E q \in compareCalls : Compared(q) \/ CompareFails(q)
    \/ \E op \in FollowUps : askFollowUp(op) \/ FollowUpAnswered(op)

Spec == Init /\ [][Next]_vars

-----------------------------------------------------------------------------
(* Types of the variables. *)
TypeOK ==
    /\ mounted \in BOOLEAN /\ available \in BOOLEAN
    /\ link \in Links
    /\ selected \in Selections /\ purpose \in Purposes
    /\ loads \subseteq InitialLoads
    /\ comparison \in Questions \cup {None}
    /\ compareCalls \subseteq Questions
    /\ answers \in [FollowUps -> Selections \cup {None}]
    /\ asking \in [FollowUps -> Selections \cup {None}]
    /\ error \in BOOLEAN /\ unsynced \in BOOLEAN

(* "Only the selected IDs are compared and kept in the page link": once the  *)
(* listings are on offer, the link names the selection and the purpose, in   *)
(* every interleaving of toggles, comparisons that drop unavailable listings *)
(* and language changes - except between an initial load whose selection the *)
(* link does not name, because the user chose while it was under way or the  *)
(* link has too many ids, and the next change of selection or purpose.       *)
LinkKeepsSelection ==
    mounted /\ available /\ ~unsynced =>
        /\ link.ids = selected
        /\ link.purpose \in {None, purpose}

(* The comparison shown is the selection's, whatever order the answers come  *)
(* in: the effect implements LatestAnswer.                                   *)
ComparisonPanel ==
    INSTANCE LatestAnswer WITH
        NoQuestion <- None,
        question   <- Question(selected, purpose),
        waiting    <- compareCalls # {},
        shown      <- comparison,
        failed     <- /\ Question(selected, purpose) # None
                      /\ compareCalls = {} /\ comparison = None
ComparisonIsLatest == ComparisonPanel!Spec

(* Nothing is asked of the assistant, and no shortlist is shown, for another *)
(* selection than the one compared ...                                       *)
AnswersOfComparison ==
    comparison # None => \A op \in FollowUps : answers[op] \in {None, comparison.ids}

(* ... except by an answer that comes after the selection has changed.       *)
OnlyLateAnswersMix ==
    [][AnswersOfComparison /\ ~AnswersOfComparison' =>
          \E op \in FollowUps : /\ asking[op] # asking'[op]
                                /\ asking[op] # comparison.ids]_vars
=============================================================================
