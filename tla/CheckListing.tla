---------------------------- MODULE CheckListing ----------------------------
(* The apartment check page: one mounted CheckListingExperience component.   *)
(*                                                                           *)
(* The user fills a form (by hand, or by importing a listing's address), has *)
(* it analysed, and asks follow-up questions about the analysis.  Every      *)
(* request is asynchronous, so its answer is a step of its own and meets     *)
(* whatever the page has become meanwhile.  Three separate guards exist:     *)
(*   activeOperation  disables the buttons,                                  *)
(*   mutationBusy     refuses a second check, import or report,              *)
(*   requestEpoch     makes the answer of an outdated one ignored.           *)
(* Loading a saved draft (?draft=...) uses the first guard only; asking the  *)
(* assistant and recalculating after a viewing use none of them.             *)
EXTENDS PageParameters

VARIABLES
    form,             \* the entry form
    confirmed,        \* the user has confirmed the form
    awaiting,         \* imported fields await confirmation
    importFailed,     \* the notice of a failed import offers another try
    result,           \* the analysis shown
    report,           \* the draft whose report is shown
    saved,            \* the draft whose report is linked as saved
    viewing,          \* the draft whose verdict after a viewing is shown
    aiAnswer,         \* the draft the assistant's answer is about
    activeOperation,
    mutationBusy,
    retry,            \* what the error block's button repeats
    error,            \* an error is shown
    authRequired,     \* the sign-in form is shown
    profile,          \* the request for the buyer profile
    draftInUrl,       \* the address names PageDraft
    draftLoad,        \* a load of PageDraft is in flight and not cancelled
    calls,            \* the other requests in flight
    overlapped,       \* history: a draft load ran beside a blocking request
    lateProfile       \* history: the profile changed a form already confirmed

entryVars   == <<form, confirmed, awaiting, importFailed>>
shownVars   == <<result, report, saved, viewing, aiAnswer>>
controlVars == <<activeOperation, mutationBusy, retry, error, authRequired>>
loadVars    == <<draftInUrl, draftLoad>>
vars == <<entryVars, shownVars, controlVars, profile, loadVars, calls,
          overlapped, lateProfile>>

Mutations == {"check", "import", "report"}     \* guarded by mutationBusy and the epoch
Blocking  == Mutations \cup {"save", "track"}   \* set activeOperation
Enquiries == {"ai", "viewing"}                 \* run beside everything else

Intents == {"unsure", "stated"}
Forms   == [details: Details \cup {None}, intent: Intents, consent: BOOLEAN]
DEFAULT_FORM == [details |-> None, intent |-> "unsure", consent |-> FALSE]

\* A new listing address keeps the purpose and the consent, nothing else.
clearObjectFieldsForNewUrl(f) ==
    [DEFAULT_FORM EXCEPT !.intent = f.intent, !.consent = f.consent]

\* Whether the required fields are filled in.
Complete(f) == f.details # None

\* What is analysed of a form.
Payload(f) == [details |-> f.details, intent |-> f.intent]
Payloads   == [details: Details, intent: Intents]

\* The form of a saved draft: the consent is not restored.
PageForm == [details |-> PageDetails, intent |-> PageIntent, consent |-> FALSE]

AllDrafts == Drafts \cup {PageDraft}
Results   == [draft: AllDrafts, payload: Payloads]
Shown     == result # None

Calls ==
    [op: Mutations, form: Forms, draft: {None}, current: BOOLEAN]
        \cup [op: (Blocking \ Mutations) \cup Enquiries, form: {DEFAULT_FORM},
              draft: AllDrafts, current: BOOLEAN]
Retries == [op: Blocking \cup {"draft"}, form: Forms]

\* None is none of the values it stands beside.
ASSUME NoneAssumption == None \notin Blocking \cup {"draft"} \cup Results \cup Retries

-----------------------------------------------------------------------------
\* requestEpoch.current += 1: the answers of older requests will be ignored, and what
\* they were sent with is not read again.
Outdated(cs) ==
    {IF c.op \in Mutations THEN [c EXCEPT !.current = FALSE, !.form = DEFAULT_FORM] ELSE c
        : c \in cs}

\* The after-viewing panel is unmounted with the analysis, and its busy flag with it.
Unmounted(cs) == {IF c.op = "viewing" THEN [c EXCEPT !.current = FALSE] ELSE c : c \in cs}

Idle         == activeOperation = None
Retrying(op) == error /\ retry # None /\ retry.op = op

\* Mutant of ClearShown: the report stays on display.
MutantClearShown == /\ result' = None
                    /\ saved' = None
                    /\ viewing' = None
                    /\ UNCHANGED report

\* setResult(null) and what every handler clears with it.
ClearShown == /\ result' = None
              /\ report' = None
              /\ saved' = None
              /\ viewing' = None

Init ==
    /\ form = DEFAULT_FORM
    /\ confirmed = FALSE /\ awaiting = FALSE /\ importFailed = FALSE
    /\ result = None /\ report = None /\ saved = None /\ viewing = None /\ aiAnswer = None
    /\ mutationBusy = FALSE /\ retry = None /\ error = FALSE /\ authRequired = FALSE
    /\ draftInUrl \in BOOLEAN
    /\ draftLoad = draftInUrl
    /\ activeOperation = IF draftInUrl THEN "draft" ELSE None
    /\ profile = IF draftInUrl THEN "done" ELSE "asked"
    /\ calls = {}
    /\ overlapped = FALSE /\ lateProfile = FALSE

-----------------------------------------------------------------------------
(* The entry form. *)

\* Mutant of ChangeUrl: the guard is released with the epoch.
MutantChangeUrl ==
    /\ Idle
    /\ form' = clearObjectFieldsForNewUrl(form)
    /\ confirmed' = FALSE /\ awaiting' = FALSE /\ importFailed' = FALSE
    /\ ClearShown
    /\ aiAnswer' = None
    /\ error' = FALSE /\ retry' = None /\ mutationBusy' = FALSE
    /\ calls' = Unmounted(Outdated(calls))
    /\ UNCHANGED <<activeOperation, authRequired, profile, loadVars, overlapped, lateProfile>>

ChangeUrl ==
    /\ Idle
    /\ form' = clearObjectFieldsForNewUrl(form)
    /\ confirmed' = FALSE /\ awaiting' = FALSE /\ importFailed' = FALSE
    /\ ClearShown
    /\ aiAnswer' = None
    /\ error' = FALSE /\ retry' = None
    /\ calls' = Unmounted(Outdated(calls))
    /\ UNCHANGED <<activeOperation, mutationBusy, authRequired,
                   profile, loadVars, overlapped, lateProfile>>

\* Mutant of updateField: an edit leaves the confirmation.
MutantUpdateField ==
    /\ Idle
    /\ form' \in {[form EXCEPT !.details = d] : d \in Details \cup {None}}
                  \cup {[form EXCEPT !.intent = "stated"]}
                  \cup {[form EXCEPT !.consent = TRUE]}
    /\ UNCHANGED <<confirmed, awaiting, importFailed, shownVars, controlVars,
                   profile, loadVars, calls, overlapped, lateProfile>>

\* A field, the purpose or the consent: every edit withdraws the confirmation.  Taking the
\* consent back, which only disables buttons, is left out.
updateField ==
    /\ Idle
    /\ form' \in {[form EXCEPT !.details = d] : d \in Details \cup {None}}
                  \cup {[form EXCEPT !.intent = "stated"]}
                  \cup {[form EXCEPT !.consent = TRUE]}
    /\ confirmed' = FALSE
    /\ UNCHANGED <<awaiting, importFailed, shownVars, controlVars,
                   profile, loadVars, calls, overlapped, lateProfile>>

\* The address loses ?draft, so the draft effect will not run again.
NewCheck ==
    /\ Idle /\ Shown
    /\ form' = DEFAULT_FORM
    /\ confirmed' = FALSE /\ awaiting' = FALSE /\ importFailed' = FALSE
    /\ ClearShown
    /\ error' = FALSE /\ retry' = None
    /\ calls' = Unmounted(Outdated(calls))
    /\ draftInUrl' = FALSE
    /\ UNCHANGED <<aiAnswer, activeOperation, mutationBusy, authRequired,
                   profile, draftLoad, overlapped, lateProfile>>

\* The profile's purpose fills in an undecided one and leaves `confirmed` alone.
ProfileArrives ==
    /\ profile = "asked"
    /\ profile' = "done"
    /\ form' \in {form, [form EXCEPT !.intent = "stated"]}
    /\ lateProfile' = \/ lateProfile
                      \/ /\ form' # form
                         /\ confirmed \/ \E c \in calls : c.op \in Mutations
    /\ UNCHANGED <<confirmed, awaiting, importFailed, shownVars,
                   controlVars, loadVars, calls, overlapped>>

-----------------------------------------------------------------------------
(* Checks, imports and reports. *)

\* mutationBusy.current = true; epoch = ++requestEpoch.current; setActiveOperation(op)
Begin(op, f, cs) ==
    /\ Cardinality(calls) < MaxCalls
    /\ calls' = Outdated(cs) \cup {[op |-> op, form |-> f, draft |-> None, current |-> TRUE]}
    /\ mutationBusy' = TRUE
    /\ activeOperation' = op
    /\ error' = FALSE /\ retry' = None
    /\ overlapped' = (overlapped \/ draftLoad)

analyze ==
    /\ Idle \/ Retrying("check")
    /\ ~mutationBusy /\ form.consent
    /\ Complete(form)
    /\ Begin("check", form, Unmounted(calls))
    /\ confirmed' = TRUE
    /\ authRequired' = FALSE
    /\ ClearShown
    /\ UNCHANGED <<form, awaiting, importFailed, aiAnswer, profile,
                   loadVars, lateProfile>>

\* A form with required fields missing is refused before anything starts.
analyzeRefused ==
    /\ Idle \/ Retrying("check")
    /\ ~mutationBusy /\ form.consent
    /\ ~Complete(form)
    /\ error' = TRUE
    /\ UNCHANGED <<entryVars, shownVars, activeOperation, mutationBusy, retry,
                   authRequired, profile, loadVars, calls, overlapped, lateProfile>>

\* The import button (an address is filled in), the notice of a failed import and the error block.
importFromUrl ==
    /\ \/ Idle
       \/ importFailed /\ ~Shown
       \/ Retrying("import")
    /\ ~mutationBusy /\ form.consent
    /\ Begin("import", form, Unmounted(calls))
    /\ confirmed' = FALSE /\ awaiting' = FALSE /\ importFailed' = FALSE
    /\ authRequired' = FALSE
    /\ ClearShown
    /\ aiAnswer' = None
    /\ UNCHANGED <<form, profile, loadVars, lateProfile>>

\* A confirmed form is complete, so that the refusal of an incomplete one is not reached.
createReportFromForm(f) ==
    /\ ~mutationBusy /\ confirmed /\ ~awaiting
    /\ Complete(f)
    /\ Begin("report", f, calls)
    /\ report' = None /\ saved' = None /\ viewing' = None
    /\ UNCHANGED <<entryVars, result, aiAnswer, authRequired, profile, loadVars,
                   lateProfile>>

\* The report button and the error block, which repeats lastReportForm.
createReport ==
    \/ Idle /\ Shown /\ form.consent /\ createReportFromForm(form)
    \/ Retrying("report") /\ createReportFromForm(retry.form)

\* Ids the page still holds; the server gives a new analysis any other one.
Held == (IF Shown THEN {result.draft} ELSE {})
            \cup {report, saved, viewing, aiAnswer} \cup {c.draft : c \in calls}

\* Mutant of Release: only the buttons are enabled again.
MutantRelease(c) ==
    /\ calls' = calls \ {c}
    /\ activeOperation' = None
    /\ UNCHANGED <<mutationBusy, overlapped>>

\* The finally block of a request whose epoch is current.
Release(c) ==
    /\ calls' = calls \ {c}
    /\ activeOperation' = None
    /\ mutationBusy' = FALSE
    /\ UNCHANGED overlapped

\* Mutant of Analysed: the assistant's answer stays.
MutantAnalysed(c) ==
    /\ c.current /\ c.op \in {"check", "report"}
    /\ Drafts \ Held # {}
    /\ LET d == CHOOSE x \in Drafts \ Held : TRUE
       IN /\ result' = [draft |-> d, payload |-> Payload(c.form)]
          /\ report' = IF c.op = "report" THEN d ELSE None
    /\ saved' = None /\ viewing' = None
    /\ awaiting' = IF c.op = "check" THEN FALSE ELSE awaiting
    /\ retry' = None
    /\ Release(c)
    /\ UNCHANGED <<form, confirmed, importFailed, aiAnswer, error, authRequired, profile,
                   loadVars, lateProfile>>

Analysed(c) ==
    /\ c.current
    /\ c.op \in {"check", "report"}
    /\ Drafts \ Held # {}
    /\ LET d == CHOOSE x \in Drafts \ Held : TRUE
       IN /\ result' = [draft |-> d, payload |-> Payload(c.form)]
          /\ report' = IF c.op = "report" THEN d ELSE None
    /\ saved' = None /\ viewing' = None /\ aiAnswer' = None
    /\ awaiting' = IF c.op = "check" THEN FALSE ELSE awaiting
    /\ retry' = None
    /\ Release(c)
    /\ UNCHANGED <<form, confirmed, importFailed, error, authRequired, profile,
                   loadVars, lateProfile>>

\* The imported fields replace the form the request was made with.
Imported(c) ==
    /\ c.current
    /\ c.op = "import"
    /\ \E d \in Details \cup {None} :
          /\ form' = [clearObjectFieldsForNewUrl(c.form) EXCEPT !.details = d]
          /\ importFailed' = (d = None)
    /\ awaiting' = TRUE
    /\ retry' = None
    /\ Release(c)
    /\ UNCHANGED <<confirmed, shownVars, error, authRequired, profile,
                   loadVars, lateProfile>>

MutationFails(c) ==
    /\ c.current
    /\ c.op \in Mutations
    /\ error' = TRUE
    /\ retry' = [op |-> c.op, form |-> IF c.op = "report" THEN c.form ELSE DEFAULT_FORM]
    /\ authRequired' \in {authRequired, TRUE}
    /\ Release(c)
    /\ UNCHANGED <<entryVars, shownVars, profile, loadVars, lateProfile>>

\* if (epoch !== requestEpoch.current) return: the finally block is skipped as well.
AnswerIgnored(c) ==
    /\ c.op \in Mutations /\ ~c.current
    /\ calls' = calls \ {c}
    /\ UNCHANGED <<entryVars, shownVars, controlVars, profile, loadVars, overlapped,
                   lateProfile>>

-----------------------------------------------------------------------------
(* Requests about the analysis shown; those about its documents are left out. *)

Ask(op) ==
    /\ Cardinality(calls) < MaxCalls
    /\ calls' = calls \cup {[op |-> op, form |-> DEFAULT_FORM, draft |-> result.draft,
                                 current |-> TRUE]}

saveReportToHistory(op) ==
    /\ op \in {"save", "track"}
    /\ Shown
    /\ Idle \/ Retrying(op)
    /\ Ask(op)
    /\ activeOperation' = op
    /\ error' = FALSE /\ retry' = None
    /\ overlapped' = (overlapped \/ draftLoad)
    /\ UNCHANGED <<entryVars, shownVars, mutationBusy, authRequired, profile,
                   loadVars, lateProfile>>

SideAnswered(c) ==
    /\ c.op \in Blocking \ Mutations
    /\ saved' = IF c.op = "save" THEN c.draft ELSE saved
    /\ retry' = None
    /\ calls' = calls \ {c}
    /\ activeOperation' = None
    /\ UNCHANGED <<entryVars, result, report, viewing, aiAnswer, mutationBusy, error,
                   authRequired, profile, loadVars, overlapped, lateProfile>>

SideFails(c) ==
    /\ c.op \in Blocking \ Mutations
    /\ error' = TRUE
    /\ retry' = [op |-> c.op, form |-> DEFAULT_FORM]
    /\ calls' = calls \ {c}
    /\ activeOperation' = None
    /\ UNCHANGED <<entryVars, shownVars, mutationBusy, authRequired, profile,
                   loadVars, overlapped, lateProfile>>

\* aiLoading refuses a second question, and the panel's busy flag a second calculation.
askFollowUp(op) ==
    /\ op \in Enquiries
    /\ Shown /\ Idle
    /\ \A c \in calls : c.op = op => op = "viewing" /\ ~c.current
    /\ Ask(op)
    /\ UNCHANGED <<entryVars, shownVars, controlVars, profile, loadVars, overlapped,
                   lateProfile>>

generateAIAnswer(c) ==
    /\ c.op = "ai"
    /\ aiAnswer' \in {c.draft, None}        \* None: the request failed
    /\ calls' = calls \ {c}
    /\ UNCHANGED <<entryVars, result, report, saved, viewing, controlVars, profile,
                   loadVars, overlapped, lateProfile>>

recalculatePostViewing(c) ==
    /\ c.op = "viewing"
    /\ viewing' \in {c.draft, viewing}      \* unchanged: the request failed
    /\ calls' = calls \ {c}
    /\ UNCHANGED <<entryVars, result, report, saved, aiAnswer, controlVars, profile, loadVars,
                   overlapped, lateProfile>>

-----------------------------------------------------------------------------
(* The saved draft named in the address. *)

\* The effect runs again when the language changes or the load is repeated.
loadDraft ==
    /\ draftLoad' = TRUE
    /\ activeOperation' = "draft"
    /\ error' = FALSE /\ retry' = None
    /\ overlapped' = (overlapped \/ \E c \in calls : c.op \in Blocking)

ChangeLocale ==
    /\ draftInUrl
    /\ loadDraft
    /\ UNCHANGED <<entryVars, shownVars, mutationBusy, authRequired, profile,
                   draftInUrl, calls, lateProfile>>

\* Once the address has lost ?draft, the language change only cancels the load.
ChangeLocaleCancels ==
    /\ ~draftInUrl /\ draftLoad
    /\ draftLoad' = FALSE
    /\ UNCHANGED <<entryVars, shownVars, controlVars, profile, draftInUrl, calls,
                   overlapped, lateProfile>>

\* Once the address has lost ?draft, another try does nothing.
repeatDraft ==
    IF draftInUrl
    THEN loadDraft
    ELSE /\ draftLoad' = FALSE
         /\ error' = FALSE
         /\ UNCHANGED <<activeOperation, retry, overlapped>>

retryDraft ==
    /\ Retrying("draft")
    /\ repeatDraft
    /\ UNCHANGED <<entryVars, shownVars, mutationBusy, authRequired, profile,
                   draftInUrl, calls, lateProfile>>

\* Signing in on the page itself: the entry stays, a failed draft load is repeated.
onAuthenticated ==
    /\ authRequired
    /\ authRequired' = FALSE
    /\ IF retry # None /\ retry.op = "draft"
       THEN repeatDraft
       ELSE /\ error' = FALSE
            /\ UNCHANGED <<draftLoad, activeOperation, retry, overlapped>>
    /\ UNCHANGED <<entryVars, shownVars, mutationBusy, profile, draftInUrl, calls,
                   lateProfile>>

\* A verdict that localStorage may hold for the draft is restored when the panel meets
\* the draft anew.
DraftLoaded ==
    /\ draftLoad
    /\ draftLoad' = FALSE
    /\ result' = [draft |-> PageDraft, payload |-> Payload(PageForm)]
    /\ report' = None /\ saved' = None /\ aiAnswer' = None
    /\ viewing' \in IF Shown /\ result.draft = PageDraft THEN {None} ELSE {None, PageDraft}
    /\ form' = PageForm
    /\ confirmed' = TRUE /\ awaiting' = FALSE /\ importFailed' = FALSE
    /\ activeOperation' = None
    /\ retry' = None
    /\ UNCHANGED <<mutationBusy, error, authRequired, profile, draftInUrl,
                   calls, overlapped, lateProfile>>

DraftFails ==
    /\ draftLoad
    /\ draftLoad' = FALSE
    /\ error' = TRUE
    /\ retry' = [op |-> "draft", form |-> DEFAULT_FORM]
    /\ authRequired' \in {authRequired, TRUE}
    /\ activeOperation' = None
    /\ UNCHANGED <<entryVars, shownVars, mutationBusy, profile, draftInUrl, calls,
                   overlapped, lateProfile>>

\* The tab is reloaded: requests in flight are forgotten.  The entry comes back from
\* sessionStorage unless it is older than 30 minutes or the address names a draft.
Refresh ==
    /\ \/ UNCHANGED <<form, confirmed, awaiting, importFailed>> /\ ~draftInUrl
       \/ /\ form' = DEFAULT_FORM
          /\ confirmed' = FALSE /\ awaiting' = FALSE /\ importFailed' = FALSE
    /\ ClearShown
    /\ aiAnswer' = None
    /\ mutationBusy' = FALSE /\ retry' = None /\ error' = FALSE /\ authRequired' = FALSE
    /\ draftLoad' = draftInUrl
    /\ activeOperation' = IF draftInUrl THEN "draft" ELSE None
    /\ profile' = IF draftInUrl THEN "done" ELSE "asked"
    /\ calls' = {}
    /\ overlapped' = FALSE /\ lateProfile' = FALSE
    /\ UNCHANGED draftInUrl

Answer(c) ==
    \/ Analysed(c)
    \/ Imported(c)
    \/ MutationFails(c)
    \/ AnswerIgnored(c)
    \/ SideAnswered(c)
    \/ SideFails(c)
    \/ generateAIAnswer(c)
    \/ recalculatePostViewing(c)

Next ==
    \/ ChangeUrl
    \/ updateField
    \/ NewCheck
    \/ ProfileArrives
    \/ analyze
    \/ analyzeRefused
    \/ importFromUrl
    \/ createReport
    \/ \E op \in {"save", "track"} : saveReportToHistory(op)
    \/ \E op \in Enquiries : askFollowUp(op)
    \/ \E c \in calls : Answer(c)
    \/ ChangeLocale
    \/ ChangeLocaleCancels
    \/ retryDraft
    \/ onAuthenticated
    \/ DraftLoaded
    \/ DraftFails
    \/ Refresh

Spec == Init /\ [][Next]_vars

-----------------------------------------------------------------------------
(* Types of the variables. *)
TypeOK ==
    /\ form \in Forms
    /\ confirmed \in BOOLEAN /\ awaiting \in BOOLEAN
    /\ importFailed \in BOOLEAN
    /\ result \in Results \cup {None}
    /\ report \in AllDrafts \cup {None}
    /\ saved \in AllDrafts \cup {None}
    /\ viewing \in AllDrafts \cup {None}
    /\ aiAnswer \in AllDrafts \cup {None}
    /\ activeOperation \in Blocking \cup {"draft", None}
    /\ mutationBusy \in BOOLEAN
    /\ retry \in Retries \cup {None}
    /\ error \in BOOLEAN /\ authRequired \in BOOLEAN
    /\ profile \in {"asked", "done"}
    /\ draftInUrl \in BOOLEAN /\ draftLoad \in BOOLEAN
    /\ calls \subseteq Calls
    /\ overlapped \in BOOLEAN /\ lateProfile \in BOOLEAN

(* Whatever the locale, the draft load and the retry buttons do, at most one  *)
(* check, import or report is in flight, and mutationBusy is set during it:   *)
(* an outdated request still holds the flag.                                  *)
OneMutation ==
    \A c, d \in calls : c.op \in Mutations /\ d.op \in Mutations => c = d /\ mutationBusy

(* mutationBusy left set by no request refuses every later check, import and  *)
(* report until the tab is reloaded.  That, and a set of buttons enabled      *)
(* during a request, needs a saved draft's load to have run beside a request. *)
GuardsOwned ==
    ~overlapped => /\ mutationBusy => \E c \in calls : c.op \in Mutations /\ c.current
                   /\ Idle <=> ~draftLoad /\ \A c \in calls : c.op \notin Blocking

(* The report on display is the one of the analysis on display, in every      *)
(* interleaving of checks, reports, draft loads and address changes.          *)
ReportOfShown == report # None => Shown /\ result.draft = report

\* The same apartment as in the form, and for the same purpose unless the buyer profile
\* changed that after the confirmation.
SameAsForm(p) == p.details = form.details /\ (lateProfile \/ p.intent = form.intent)

(* What the page calls confirmed is what was analysed or is being analysed,   *)
(* and what a repeated report would send, unless a draft load overwrote the   *)
(* form during a request.  A buyer profile that arrives after the             *)
(* confirmation may change the purpose, and nothing else.                     *)
ConfirmedIsAnalysed ==
    confirmed /\ ~awaiting /\ ~overlapped =>
        /\ Shown => SameAsForm(result.payload)
        /\ \A c \in calls : c.op \in Mutations => SameAsForm(c.form)
        /\ Retrying("report") => SameAsForm(retry.form)

(* Nothing said about one apartment stays on display under the analysis of    *)
(* another: the follow-ups shown are about the draft shown...                 *)
FollowUpsOfShown ==
    Shown => \A d \in {saved, viewing, aiAnswer} : d \in {None, result.draft}

(* ... and only the late answer to a question about the former draft breaks   *)
(* it: the handlers that replace the analysis clear the follow-ups.           *)
OnlyLateAnswersMix ==
    [][FollowUpsOfShown /\ ~FollowUpsOfShown' =>
          \E c \in calls \ calls' : /\ c.op \in {"save"} \cup Enquiries
                                   /\ c.draft # result.draft]_vars
=============================================================================
