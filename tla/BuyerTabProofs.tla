--------------------------- MODULE BuyerTabProofs ---------------------------
(* Proofs about CheckListing, and about the tab that has it and the search   *)
(* page, for any entries, drafts, filters and requests in flight.            *)
EXTENDS BuyerTab, TLAPS

-----------------------------------------------------------------------------
(* Types. *)

\* Outdated and Unmounted change only what they may.
LEMMA OutdatedType ==
    ASSUME NEW cs \in SUBSET Calls
    PROVE  Outdated(cs) \subseteq Calls /\ Unmounted(cs) \subseteq Calls
<1>0. DEFAULT_FORM \in Forms
  BY DEF DEFAULT_FORM, Forms, Intents
<1>1. ASSUME NEW c \in cs, c.op \in Mutations
      PROVE  [c EXCEPT !.current = FALSE, !.form = DEFAULT_FORM] \in Calls
  BY <1>0, <1>1 DEF Calls, Mutations, Blocking, Enquiries
<1>2. ASSUME NEW c \in cs, c.op = "viewing" PROVE [c EXCEPT !.current = FALSE] \in Calls
  BY <1>2 DEF Calls
<1> QED
  BY <1>1, <1>2 DEF Outdated, Unmounted

\* A request that starts is of the right type.
LEMMA BeginType ==
    ASSUME TypeOK, NEW op \in Mutations, NEW f \in Forms, NEW cs \in SUBSET Calls,
           Begin(op, f, cs)
    PROVE  /\ calls' \subseteq Calls /\ mutationBusy' \in BOOLEAN
           /\ activeOperation' \in Blocking \cup {"draft", None}
           /\ error' \in BOOLEAN /\ retry' \in Retries \cup {None}
           /\ overlapped' \in BOOLEAN
<1>1. [op |-> op, form |-> f, draft |-> None, current |-> TRUE] \in Calls
  BY DEF Calls
<1>2. Outdated(cs) \subseteq Calls
  BY OutdatedType
<1> QED
  BY <1>1, <1>2 DEF Begin, TypeOK, Blocking

\* The empty form is a form.
LEMMA DefaultForm == DEFAULT_FORM \in Forms /\ PageForm \in Forms
BY CheckAssumption DEF DEFAULT_FORM, PageForm, Forms, Intents

\* What the forms become.
LEMMA FormTypes ==
    ASSUME NEW f \in Forms
    PROVE  /\ clearObjectFieldsForNewUrl(f) \in Forms
           /\ \A d \in Details \cup {None} :
                 /\ [f EXCEPT !.details = d] \in Forms
                 /\ [clearObjectFieldsForNewUrl(f) EXCEPT !.details = d] \in Forms
           /\ [f EXCEPT !.intent = "stated"] \in Forms
           /\ [f EXCEPT !.consent = TRUE] \in Forms
           /\ Payload(PageForm) \in Payloads
           /\ Complete(f) => Payload(f) \in Payloads
BY CheckAssumption
   DEF DEFAULT_FORM, PageForm, clearObjectFieldsForNewUrl, Forms, Intents, Payload, Payloads,
       Complete

\* A call's form is a form.
LEMMA CallTypes ==
    ASSUME TypeOK, NEW c \in calls
    PROVE  /\ c.form \in Forms /\ c.op \in Blocking \cup Enquiries
           /\ c.op \in Mutations => c.draft = None
           /\ c.op \notin Mutations => c.draft \in AllDrafts
           /\ c.op \notin Mutations => c.form = DEFAULT_FORM
<1>1. c \in Calls
  BY DEF TypeOK
<1>2. DEFAULT_FORM \in Forms
  BY DEF DEFAULT_FORM, Forms, Intents
<1> QED
  BY <1>1, <1>2 DEF Calls, Mutations, Blocking, Enquiries

-----------------------------------------------------------------------------
(* The inductive invariant. *)

\* What is analysed was complete when it was sent.
CallsComplete == \A c \in calls : c.op \in {"check", "report"} /\ c.current => Complete(c.form)

\* Without an overlap exactly one request owns the buttons, a repetition is offered only
\* while they are enabled, an analysis that is saved or tracked stays on display, and a
\* draft is loaded only while the address names it.
SoleOwner ==
    ~overlapped =>
        /\ activeOperation = "draft" <=> draftLoad
        /\ \A c \in calls : c.op \in Blocking => activeOperation = c.op
        /\ \A c \in calls : c.op \in Mutations => c.current
        /\ \A c, d \in calls : c.op \in Blocking /\ d.op \in Blocking => c = d
        /\ activeOperation \in Blocking => \E c \in calls : c.op = activeOperation
        /\ mutationBusy => activeOperation \in Mutations
        /\ retry # None => Idle
        /\ activeOperation \in {"save", "track"} => Shown
        /\ draftLoad \/ (retry # None /\ retry.op = "draft") => draftInUrl

\* ConfirmedIsAnalysed, also while imported fields await confirmation.
ConfirmedForm ==
    confirmed /\ ~overlapped =>
        /\ Shown => SameAsForm(result.payload)
        /\ \A c \in calls : c.op \in Mutations => SameAsForm(c.form)
        /\ \A c \in calls : c.op # "import"
        /\ retry # None /\ retry.op = "report" => SameAsForm(retry.form)

IInv == TypeOK /\ CallsComplete /\ OneMutation /\ ReportOfShown /\ SoleOwner /\ ConfirmedForm

\* Initially nothing is in flight but the load of the draft.
LEMMA InvariantInit == Init => IInv
<1> SUFFICES ASSUME Init PROVE IInv
  OBVIOUS
<1>1. TypeOK
  BY DefaultForm DEF Init, TypeOK
<1>2. CallsComplete /\ OneMutation /\ ReportOfShown /\ SoleOwner /\ ConfirmedForm
  BY NoneAssumption
  DEF Init, CallsComplete, OneMutation, ReportOfShown, SoleOwner, ConfirmedForm, Idle,
      Blocking, Mutations
<1> QED
  BY <1>1, <1>2 DEF IInv

-----------------------------------------------------------------------------
(* Types are kept. *)

\* TypeOK, in the parts most actions leave alone as a whole.
EntryOK   == /\ form \in Forms /\ confirmed \in BOOLEAN
             /\ awaiting \in BOOLEAN /\ importFailed \in BOOLEAN
ShownOK   == /\ result \in Results \cup {None} /\ report \in AllDrafts \cup {None}
             /\ saved \in AllDrafts \cup {None} /\ viewing \in AllDrafts \cup {None}
             /\ aiAnswer \in AllDrafts \cup {None}
ControlOK == /\ activeOperation \in Blocking \cup {"draft", None}
             /\ mutationBusy \in BOOLEAN /\ retry \in Retries \cup {None}
             /\ error \in BOOLEAN /\ authRequired \in BOOLEAN
LoadOK    == /\ profile \in {"asked", "done"}
             /\ draftInUrl \in BOOLEAN /\ draftLoad \in BOOLEAN
             /\ overlapped \in BOOLEAN /\ lateProfile \in BOOLEAN
CallsOK   == calls \subseteq Calls

LEMMA TypeParts ==
    /\ TypeOK <=> EntryOK /\ ShownOK /\ ControlOK /\ LoadOK /\ CallsOK
    /\ TypeOK' <=> EntryOK' /\ ShownOK' /\ ControlOK' /\ LoadOK' /\ CallsOK'
BY DEF TypeOK, EntryOK, ShownOK, ControlOK, LoadOK, CallsOK

\* A part that is left alone keeps its type.
LEMMA PartsKept ==
    ASSUME TypeOK
    PROVE  /\ UNCHANGED entryVars => EntryOK'
           /\ UNCHANGED shownVars => ShownOK'
           /\ UNCHANGED controlVars => ControlOK'
           /\ UNCHANGED calls => CallsOK'
<1>1. UNCHANGED entryVars => EntryOK'
  BY DEF TypeOK, EntryOK, entryVars
<1>2. UNCHANGED shownVars => ShownOK'
  BY DEF TypeOK, ShownOK, shownVars
<1>3. UNCHANGED controlVars => ControlOK'
  BY DEF TypeOK, ControlOK, controlVars
<1>4. UNCHANGED calls => CallsOK'
  BY DEF TypeOK, CallsOK
<1> QED
  BY <1>1, <1>2, <1>3, <1>4

\* Entry and page: the actions that send nothing.
LEMMA TypeEntry ==
    ASSUME TypeOK, ChangeUrl \/ updateField \/ NewCheck \/ ProfileArrives \/ analyzeRefused
    PROVE  TypeOK'
<1>1. calls \in SUBSET Calls /\ form \in Forms
  BY DEF TypeOK
<1>2. Outdated(calls) \in SUBSET Calls
  BY <1>1, OutdatedType
<1>3. Unmounted(Outdated(calls)) \subseteq Calls
  BY <1>2, OutdatedType
<1>4. CASE ChangeUrl
  <2>1. EntryOK' /\ ShownOK' /\ CallsOK'
    BY <1>1, <1>3, <1>4, FormTypes DEF ChangeUrl, ClearShown, EntryOK, ShownOK, CallsOK
  <2>2. ControlOK' /\ LoadOK'
    BY <1>4 DEF ChangeUrl, TypeOK, ControlOK, LoadOK, loadVars
  <2> QED
    BY <2>1, <2>2, TypeParts
<1>5. CASE updateField
  <2>1. EntryOK'
    BY <1>1, <1>5, FormTypes DEF updateField, EntryOK, TypeOK
  <2>2. LoadOK'
    BY <1>5 DEF updateField, TypeOK, LoadOK, loadVars
  <2> QED
    BY <1>5, <2>1, <2>2, TypeParts, PartsKept DEF updateField
<1>6. CASE NewCheck
  <2>1. EntryOK' /\ ShownOK' /\ CallsOK'
    BY <1>3, <1>6, DefaultForm DEF NewCheck, ClearShown, EntryOK, ShownOK, CallsOK, TypeOK
  <2>2. ControlOK' /\ LoadOK'
    BY <1>6 DEF NewCheck, TypeOK, ControlOK, LoadOK
  <2> QED
    BY <2>1, <2>2, TypeParts
<1>7. CASE ProfileArrives
  <2>1. EntryOK'
    BY <1>1, <1>7, FormTypes DEF ProfileArrives, EntryOK, TypeOK
  <2>2. LoadOK'
    BY <1>7 DEF ProfileArrives, TypeOK, LoadOK, loadVars
  <2> QED
    BY <1>7, <2>1, <2>2, TypeParts, PartsKept DEF ProfileArrives
<1>8. CASE analyzeRefused
  <2>1. ControlOK' /\ LoadOK'
    BY <1>8 DEF analyzeRefused, TypeOK, ControlOK, LoadOK, loadVars
  <2> QED
    BY <1>8, <2>1, TypeParts, PartsKept DEF analyzeRefused
<1> QED
  BY <1>4, <1>5, <1>6, <1>7, <1>8

\* Checks, imports and reports start.
LEMMA TypeBegin ==
    ASSUME TypeOK, analyze \/ importFromUrl \/ createReport
    PROVE  TypeOK'
<1>1. calls \in SUBSET Calls /\ form \in Forms
  BY DEF TypeOK
<1>2. Unmounted(calls) \in SUBSET Calls
  BY <1>1, OutdatedType
<1>3. ASSUME NEW op \in Mutations, NEW f \in Forms, NEW cs \in SUBSET Calls, Begin(op, f, cs),
             EntryOK', ShownOK', authRequired' \in BOOLEAN,
             UNCHANGED <<profile, loadVars, lateProfile>>
      PROVE  TypeOK'
  <2>1. ControlOK' /\ CallsOK' /\ overlapped' \in BOOLEAN
    BY <1>3, BeginType DEF ControlOK, CallsOK
  <2>2. LoadOK'
    BY <1>3, <2>1 DEF TypeOK, LoadOK, loadVars
  <2> QED
    BY <1>3, <2>1, <2>2, TypeParts
<1>4. CASE analyze
  <2>1. EntryOK' /\ ShownOK' /\ authRequired' \in BOOLEAN
    BY <1>4 DEF analyze, ClearShown, TypeOK, EntryOK, ShownOK
  <2> QED
    BY <1>1, <1>2, <1>3, <1>4, <2>1 DEF analyze, Mutations
<1>5. CASE importFromUrl
  <2>1. EntryOK' /\ ShownOK' /\ authRequired' \in BOOLEAN
    BY <1>5 DEF importFromUrl, ClearShown, TypeOK, EntryOK, ShownOK
  <2> QED
    BY <1>1, <1>2, <1>3, <1>5, <2>1 DEF importFromUrl, Mutations
<1>6. CASE createReport
  <2>1. PICK f \in Forms : createReportFromForm(f)
    <3>1. retry # None => retry.form \in Forms
      BY DEF TypeOK, Retries
    <3> QED
      BY <1>1, <1>6, <3>1 DEF createReport, Retrying
  <2>2. ShownOK' /\ authRequired' \in BOOLEAN
    BY <2>1 DEF createReportFromForm, TypeOK, ShownOK
  <2> QED
    BY <1>1, <1>3, <2>1, <2>2, PartsKept DEF createReportFromForm, Mutations
<1> QED
  BY <1>4, <1>5, <1>6

\* Answers arrive.
LEMMA TypeAnswer ==
    ASSUME TypeOK, CallsComplete, NEW c \in calls, Answer(c)
    PROVE  TypeOK'
<1>1. /\ c.form \in Forms /\ c.op \in Blocking \cup Enquiries
      /\ c.op \notin Mutations => c.draft \in AllDrafts
  BY CallTypes
<1>2. calls' = calls \ {c} => CallsOK'
  BY DEF TypeOK, CallsOK
<1>3. UNCHANGED <<profile, loadVars, overlapped, lateProfile>> => LoadOK'
  BY DEF TypeOK, LoadOK, loadVars
<1>4. CASE Analysed(c)
  <2>1. Payload(c.form) \in Payloads
    BY <1>1, <1>4, FormTypes DEF Analysed, CallsComplete
  <2>2. PICK d \in Drafts : /\ result' = [draft |-> d, payload |-> Payload(c.form)]
                            /\ report' = IF c.op = "report" THEN d ELSE None
    BY <1>4 DEF Analysed
  <2>3. result' \in Results /\ report' \in AllDrafts \cup {None}
    BY <2>1, <2>2 DEF Results, AllDrafts
  <2>4. EntryOK' /\ ShownOK' /\ ControlOK'
    BY <1>4, <2>3 DEF Analysed, Release, TypeOK, EntryOK, ShownOK, ControlOK
  <2> QED
    BY <1>2, <1>3, <1>4, <2>4, TypeParts DEF Analysed, Release
<1>5. CASE Imported(c)
  <2>1. EntryOK'
    BY <1>1, <1>5, FormTypes DEF Imported, TypeOK, EntryOK
  <2>2. ControlOK'
    BY <1>5 DEF Imported, Release, TypeOK, ControlOK
  <2> QED
    BY <1>2, <1>3, <1>5, <2>1, <2>2, TypeParts, PartsKept DEF Imported, Release
<1>6. CASE MutationFails(c)
  <2>1. retry' \in Retries
    BY <1>1, <1>6, DefaultForm DEF MutationFails, Retries, Blocking
  <2>2. ControlOK'
    BY <1>6, <2>1 DEF MutationFails, Release, TypeOK, ControlOK
  <2> QED
    BY <1>2, <1>3, <1>6, <2>2, TypeParts, PartsKept DEF MutationFails, Release
<1>7. CASE AnswerIgnored(c)
  BY <1>2, <1>3, <1>7, TypeParts, PartsKept DEF AnswerIgnored
<1>8. CASE SideAnswered(c)
  <2>1. c.draft \in AllDrafts
    BY <1>1, <1>8 DEF SideAnswered
  <2>2. ShownOK' /\ ControlOK'
    BY <1>8, <2>1 DEF SideAnswered, TypeOK, ShownOK, ControlOK
  <2> QED
    BY <1>2, <1>3, <1>8, <2>2, TypeParts, PartsKept DEF SideAnswered
<1>9. CASE SideFails(c)
  <2>1. retry' \in Retries
    BY <1>1, <1>9, DefaultForm DEF SideFails, Retries, Blocking
  <2>2. ControlOK'
    BY <1>9, <2>1 DEF SideFails, TypeOK, ControlOK
  <2> QED
    BY <1>2, <1>3, <1>9, <2>2, TypeParts, PartsKept DEF SideFails
<1>10. CASE generateAIAnswer(c) \/ recalculatePostViewing(c)
  <2>1. c.draft \in AllDrafts
    BY <1>1, <1>10 DEF generateAIAnswer, recalculatePostViewing, Mutations
  <2>2. ShownOK'
    BY <1>10, <2>1 DEF generateAIAnswer, recalculatePostViewing, TypeOK, ShownOK
  <2> QED
    BY <1>2, <1>3, <1>10, <2>2, TypeParts, PartsKept
    DEF generateAIAnswer, recalculatePostViewing
<1> QED
  BY <1>4, <1>5, <1>6, <1>7, <1>8, <1>9, <1>10 DEF Answer

\* Requests about the analysis, the saved draft and the tab.
LEMMA TypeRest ==
    ASSUME TypeOK,
           \/ \E op \in {"save", "track"} : saveReportToHistory(op)
           \/ \E op \in Enquiries : askFollowUp(op)
           \/ ChangeLocale \/ ChangeLocaleCancels \/ retryDraft \/ onAuthenticated
           \/ DraftLoaded \/ DraftFails \/ Refresh
    PROVE  TypeOK'
<1>1. ASSUME NEW op \in (Blocking \ Mutations) \cup Enquiries, Shown, Ask(op)
      PROVE  CallsOK'
  <2>1. result.draft \in AllDrafts
    BY <1>1 DEF Shown, TypeOK, Results
  <2>2. [op |-> op, form |-> DEFAULT_FORM, draft |-> result.draft, current |-> TRUE] \in Calls
    BY <2>1 DEF Calls
  <2> QED
    BY <1>1, <2>2 DEF Ask, CallsOK, TypeOK
<1>2. ASSUME NEW op \in {"save", "track"}, saveReportToHistory(op) PROVE TypeOK'
  <2>1. op \in Blocking \ Mutations
    BY <1>2 DEF Blocking, Mutations
  <2>2. CallsOK'
    BY <1>1, <1>2, <2>1 DEF saveReportToHistory
  <2>3. ControlOK' /\ LoadOK'
    BY <1>2, <2>1 DEF saveReportToHistory, TypeOK, ControlOK, LoadOK, loadVars
  <2> QED
    BY <1>2, <2>2, <2>3, TypeParts, PartsKept DEF saveReportToHistory
<1>3. ASSUME NEW op \in Enquiries, askFollowUp(op) PROVE TypeOK'
  <2>1. CallsOK'
    BY <1>1, <1>3 DEF askFollowUp
  <2>2. LoadOK'
    BY <1>3 DEF askFollowUp, TypeOK, LoadOK, loadVars
  <2> QED
    BY <1>3, <2>1, <2>2, TypeParts, PartsKept DEF askFollowUp
<1>4. CASE ChangeLocale \/ retryDraft
  <2>1. ControlOK' /\ LoadOK'
    BY <1>4 DEF ChangeLocale, retryDraft, repeatDraft, loadDraft, TypeOK, ControlOK, LoadOK
  <2> QED
    BY <1>4, <2>1, TypeParts, PartsKept DEF ChangeLocale, retryDraft
<1>5. CASE ChangeLocaleCancels
  <2>1. LoadOK'
    BY <1>5 DEF ChangeLocaleCancels, TypeOK, LoadOK
  <2> QED
    BY <1>5, <2>1, TypeParts, PartsKept DEF ChangeLocaleCancels
<1>6. CASE onAuthenticated
  <2>1. ControlOK' /\ LoadOK'
    BY <1>6 DEF onAuthenticated, repeatDraft, loadDraft, TypeOK, ControlOK, LoadOK
  <2> QED
    BY <1>6, <2>1, TypeParts, PartsKept DEF onAuthenticated
<1>7. CASE DraftLoaded
  <2>1. result' \in Results /\ form' \in Forms
    BY <1>7, FormTypes, DefaultForm DEF DraftLoaded, TypeOK, Results, AllDrafts
  <2>2. EntryOK' /\ ShownOK'
    BY <1>7, <2>1 DEF DraftLoaded, AllDrafts, EntryOK, ShownOK
  <2>3. ControlOK' /\ LoadOK'
    BY <1>7 DEF DraftLoaded, TypeOK, ControlOK, LoadOK
  <2> QED
    BY <1>7, <2>2, <2>3, TypeParts, PartsKept DEF DraftLoaded
<1>8. CASE DraftFails
  <2>1. retry' \in Retries
    BY <1>8, DefaultForm DEF DraftFails, Retries, TypeOK
  <2>2. ControlOK' /\ LoadOK'
    BY <1>8, <2>1 DEF DraftFails, TypeOK, ControlOK, LoadOK
  <2> QED
    BY <1>8, <2>2, TypeParts, PartsKept DEF DraftFails
<1>9. CASE Refresh
  <2>1. EntryOK' /\ ShownOK' /\ CallsOK'
    BY <1>9, DefaultForm DEF Refresh, ClearShown, TypeOK, EntryOK, ShownOK, CallsOK
  <2>2. ControlOK' /\ LoadOK'
    BY <1>9 DEF Refresh, TypeOK, ControlOK, LoadOK
  <2> QED
    BY <2>1, <2>2, TypeParts
<1> QED
  BY <1>2, <1>3, <1>4, <1>5, <1>6, <1>7, <1>8, <1>9

LEMMA TypeStep == TypeOK /\ CallsComplete /\ [Next]_vars => TypeOK'
<1> SUFFICES ASSUME TypeOK, CallsComplete, [Next]_vars PROVE TypeOK'
  OBVIOUS
<1>1. CASE UNCHANGED vars
  <2>1. LoadOK'
    BY <1>1 DEF vars, TypeOK, LoadOK, loadVars
  <2> QED
    BY <1>1, <2>1, TypeParts, PartsKept DEF vars
<1> QED
  BY <1>1, TypeEntry, TypeBegin, TypeAnswer, TypeRest DEF Next

-----------------------------------------------------------------------------
(* Requests in flight. *)

\* An outdated check, import or report.
Old(d) == [d EXCEPT !.current = FALSE, !.form = DEFAULT_FORM]

\* Where the requests come from once they are outdated ...
LEMMA OutdatedFrom ==
    ASSUME NEW cs \in SUBSET Calls, NEW c \in Outdated(cs)
    PROVE  \E d \in cs : /\ c.op = d.op
                         /\ c.op \in Mutations => c = Old(d) /\ ~c.current
<1>1. PICK d \in cs : c = IF d.op \in Mutations THEN Old(d) ELSE d
  BY DEF Outdated, Old
<1>2. d \in Calls
  OBVIOUS
<1>3. Old(d).op = d.op /\ ~Old(d).current
  BY <1>2 DEF Calls, Old
<1> QED
  BY <1>1, <1>3

\* ... or their panel unmounted.
LEMMA UnmountedFrom ==
    ASSUME NEW cs \in SUBSET Calls, NEW c \in Unmounted(cs)
    PROVE  /\ \E d \in cs : c.op = d.op
           /\ c.op # "viewing" => c \in cs
<1>1. PICK d \in cs : c = IF d.op = "viewing" THEN [d EXCEPT !.current = FALSE] ELSE d
  BY DEF Unmounted
<1>2. [d EXCEPT !.current = FALSE].op = d.op
  BY DEF Calls
<1> QED
  BY <1>1, <1>2

\* Outdated and Unmounted do not multiply checks, imports and reports.
LEMMA OutdatedMutations ==
    ASSUME TypeOK, OneMutation,
           NEW c \in Unmounted(Outdated(calls)), NEW d \in Unmounted(Outdated(calls)),
           c.op \in Mutations, d.op \in Mutations
    PROVE  c = d /\ mutationBusy /\ ~c.current
<1>1. calls \in SUBSET Calls
  BY DEF TypeOK
<1>2. Outdated(calls) \in SUBSET Calls
  BY <1>1, OutdatedType
<1>3. c \in Outdated(calls) /\ d \in Outdated(calls)
  BY <1>2, UnmountedFrom DEF Mutations
<1>4. PICK x \in calls : c.op = x.op /\ ~c.current /\ c = Old(x)
  BY <1>1, <1>3, OutdatedFrom
<1>5. PICK y \in calls : d.op = y.op /\ d = Old(y)
  BY <1>1, <1>3, OutdatedFrom
<1>6. x = y /\ mutationBusy
  BY <1>4, <1>5 DEF OneMutation
<1> QED
  BY <1>4, <1>5, <1>6

\* When nothing holds the flag, a request that starts is the only one of its kind.
LEMMA BeginAlone ==
    ASSUME TypeOK, OneMutation, ~mutationBusy, NEW op \in Mutations, NEW f,
           NEW cs \in {calls, Unmounted(calls)}, Begin(op, f, cs)
    PROVE  /\ \A c \in cs : c.op \notin Mutations
           /\ \A c \in calls : c.op \notin Mutations
           /\ \A c \in calls' : c.op \in Mutations =>
                 c = [op |-> op, form |-> f, draft |-> None, current |-> TRUE]
           /\ \A c \in calls' : c.op \notin Mutations => \E d \in calls : c.op = d.op
           /\ [op |-> op, form |-> f, draft |-> None, current |-> TRUE] \in calls'
           /\ mutationBusy'
<1>1. calls \in SUBSET Calls /\ cs \in SUBSET Calls
  BY OutdatedType DEF TypeOK
<1>2. \A c \in cs : \E d \in calls : c.op = d.op
  BY <1>1, UnmountedFrom
<1>3. \A c \in calls : c.op \notin Mutations
  BY DEF OneMutation
<1>4. \A c \in Outdated(cs) : \E d \in cs : c.op = d.op
  BY <1>1, OutdatedFrom
<1>5. /\ calls' = Outdated(cs) \cup {[op |-> op, form |-> f, draft |-> None, current |-> TRUE]}
      /\ mutationBusy'
  BY DEF Begin
<1> QED
  BY <1>2, <1>3, <1>4, <1>5

\* The three ways to begin, in one form.
LEMMA Begins ==
    ASSUME TypeOK, analyze \/ importFromUrl \/ createReport
    PROVE  \E op \in Mutations, f \in Forms, cs \in {calls, Unmounted(calls)} :
              /\ Begin(op, f, cs) /\ ~mutationBusy
              /\ op \in {"check", "report"} => Complete(f)
<1>1. form \in Forms /\ (retry # None => retry.form \in Forms)
  BY DEF TypeOK, Retries
<1>2. CASE analyze
  BY <1>1, <1>2 DEF analyze, Mutations
<1>3. CASE importFromUrl
  BY <1>1, <1>3 DEF importFromUrl, Mutations
<1>4. CASE createReport
  BY <1>1, <1>4 DEF createReport, createReportFromForm, Mutations, Retrying
<1> QED
  BY <1>2, <1>3, <1>4

\* The actions that send nothing and wait for nothing, up to outdated requests.
Quiet == \/ updateField \/ ProfileArrives \/ analyzeRefused
         \/ ChangeLocale \/ ChangeLocaleCancels \/ retryDraft \/ onAuthenticated
         \/ DraftLoaded \/ DraftFails

\* The steps, by what they do to the requests in flight.
LEMMA StepKinds ==
    ASSUME TypeOK, Next
    PROVE  \/ ChangeUrl \/ NewCheck
           \/ analyze \/ importFromUrl \/ createReport
           \/ \E op \in {"save", "track"} : saveReportToHistory(op)
           \/ \E op \in Enquiries : askFollowUp(op)
           \/ \E c \in calls : Answer(c)
           \/ Quiet /\ UNCHANGED <<calls, mutationBusy>>
           \/ Refresh
BY DEF Next, Quiet, updateField, ProfileArrives, analyzeRefused, ChangeLocale, controlVars,
       ChangeLocaleCancels, retryDraft, onAuthenticated, DraftLoaded, DraftFails

LEMMA CallsStep ==
    ASSUME TypeOK, CallsComplete, OneMutation, Next
    PROVE  OneMutation' /\ CallsComplete'
<1>1. CASE ChangeUrl \/ NewCheck
  <2>1. calls' = Unmounted(Outdated(calls)) /\ UNCHANGED mutationBusy
    BY <1>1 DEF ChangeUrl, NewCheck
  <2>2. "check" \in Mutations /\ "report" \in Mutations
    BY DEF Mutations
  <2> QED
    BY <2>1, <2>2, OutdatedMutations DEF OneMutation, CallsComplete
<1>2. CASE analyze \/ importFromUrl \/ createReport
  <2>1. PICK op \in Mutations, f \in Forms, cs \in {calls, Unmounted(calls)} :
              /\ Begin(op, f, cs) /\ ~mutationBusy
              /\ op \in {"check", "report"} => Complete(f)
    BY <1>2, Begins
  <2>2. /\ \A c \in calls' : c.op \in Mutations =>
                 c = [op |-> op, form |-> f, draft |-> None, current |-> TRUE]
        /\ mutationBusy'
    BY <2>1, BeginAlone
  <2>3. OneMutation'
    BY <2>2 DEF OneMutation
  <2>4. ASSUME NEW c \in calls', c.op \in {"check", "report"} PROVE Complete(c.form)
    <3>1. c.op \in Mutations
      BY <2>4 DEF Mutations
    <3>2. c.op = op /\ c.form = f
      BY <2>2, <3>1
    <3> QED
      BY <2>1, <2>4, <3>2
  <2> QED
    BY <2>3, <2>4 DEF CallsComplete
<1>3. ASSUME NEW op \in {"save", "track"} \cup Enquiries, Ask(op), UNCHANGED mutationBusy
      PROVE  OneMutation' /\ CallsComplete'
  <2>1. op \notin Mutations
    BY DEF Mutations, Enquiries
  <2>2. \A c \in calls' : c.op \in Mutations => c \in calls
    BY <1>3, <2>1 DEF Ask
  <2> QED
    BY <1>3, <2>2 DEF OneMutation, CallsComplete, Mutations
<1>4. CASE \E op \in {"save", "track"} : saveReportToHistory(op)
  BY <1>3, <1>4 DEF saveReportToHistory
<1>5. CASE \E op \in Enquiries : askFollowUp(op)
  BY <1>3, <1>5 DEF askFollowUp, controlVars
<1>6. ASSUME NEW c \in calls, Answer(c) PROVE OneMutation' /\ CallsComplete'
  <2>1. calls' = calls \ {c} /\ (c.op \notin Mutations => UNCHANGED mutationBusy)
    BY <1>6 DEF Answer, Analysed, Imported, MutationFails, AnswerIgnored, SideAnswered, SideFails,
                generateAIAnswer, recalculatePostViewing, Release, controlVars, Mutations
  <2>2. c.op \in Mutations => \A d \in calls' : d.op \notin Mutations
    BY <2>1 DEF OneMutation
  <2> QED
    BY <2>1, <2>2 DEF OneMutation, CallsComplete, Mutations
<1>7. CASE UNCHANGED <<calls, mutationBusy>>
  BY <1>7 DEF OneMutation, CallsComplete
<1>8. CASE Refresh
  BY <1>8 DEF Refresh, OneMutation, CallsComplete
<1> QED
  BY <1>1, <1>2, <1>4, <1>5, <1>6, <1>7, <1>8, StepKinds

-----------------------------------------------------------------------------
(* The report shown. *)

LEMMA ReportStep ==
    ASSUME TypeOK, CallsComplete, ReportOfShown, Next
    PROVE  ReportOfShown'
<1>1. CASE result' = None /\ report' = None
  BY <1>1 DEF ReportOfShown
<1>2. CASE UNCHANGED <<result, report>>
  BY <1>2 DEF ReportOfShown, Shown
<1>3. CASE report' = None
  BY <1>3 DEF ReportOfShown
<1>4. ASSUME NEW c \in calls, Analysed(c) PROVE ReportOfShown'
  <2>1. PICK d \in Drafts : /\ result' = [draft |-> d, payload |-> Payload(c.form)]
                            /\ report' = IF c.op = "report" THEN d ELSE None
    BY <1>4 DEF Analysed
  <2>2. c.form \in Forms /\ Complete(c.form)
    BY <1>4, CallTypes DEF CallsComplete, Analysed
  <2>3. result' \in Results
    BY <2>1, <2>2, FormTypes DEF Results, AllDrafts
  <2> QED
    BY <2>1, <2>3, NoneAssumption DEF ReportOfShown, Shown
<1> QED
  BY <1>1, <1>2, <1>3, <1>4
  DEF Next, Answer, ChangeUrl, updateField, NewCheck, ProfileArrives, analyze, analyzeRefused,
      importFromUrl, createReport, createReportFromForm, saveReportToHistory, askFollowUp, Imported,
      MutationFails, AnswerIgnored, SideAnswered, SideFails, generateAIAnswer,
      recalculatePostViewing, ChangeLocale, ChangeLocaleCancels, retryDraft, onAuthenticated,
      DraftLoaded, DraftFails, Refresh, ClearShown, shownVars

-----------------------------------------------------------------------------
(* The owner of the buttons. *)

\* While the buttons are enabled nothing that disables them is in flight.
LEMMA IdleFacts ==
    ASSUME TypeOK, SoleOwner, ~overlapped, Idle
    PROVE  /\ \A c \in calls : c.op \notin Blocking
           /\ ~mutationBusy /\ ~draftLoad
BY NoneAssumption DEF SoleOwner, Idle, Blocking

\* Nor is anything while a draft is loaded.
LEMMA DraftFacts ==
    ASSUME TypeOK, SoleOwner, ~overlapped, draftLoad
    PROVE  /\ \A c \in calls : c.op \notin Blocking
           /\ ~mutationBusy /\ draftInUrl
BY DEF SoleOwner, Blocking, Mutations

\* A check, an import or a report begins when the buttons are enabled or beside the load
\* of a draft.
LEMMA BeginIdle ==
    ASSUME TypeOK, OneMutation, SoleOwner, ~overlapped, ~draftLoad,
           analyze \/ importFromUrl \/ createReport
    PROVE  Idle
<1>1. ASSUME NEW op, Retrying(op) PROVE Idle
  BY <1>1 DEF Retrying, SoleOwner
<1>2. ASSUME ~Shown, ~mutationBusy PROVE Idle
  <2>1. activeOperation \notin Mutations
    BY <1>2 DEF SoleOwner, OneMutation, Blocking
  <2>2. activeOperation \notin {"save", "track", "draft"}
    BY <1>2 DEF SoleOwner
  <2> QED
    BY <2>1, <2>2 DEF TypeOK, Blocking, Idle
<1> QED
  BY <1>1, <1>2 DEF analyze, importFromUrl, createReport

\* A request that sets activeOperation becomes the only one.
LEMMA OwnerBegins ==
    ASSUME TypeOK, OneMutation, SoleOwner,
           \/ analyze \/ importFromUrl \/ createReport
           \/ \E op \in {"save", "track"} : saveReportToHistory(op)
    PROVE  SoleOwner'
<1> SUFFICES ASSUME ~overlapped' PROVE SoleOwner'
  BY DEF SoleOwner
<1>1. CASE analyze \/ importFromUrl \/ createReport
  <2>1. PICK op \in Mutations, f \in Forms, cs \in {calls, Unmounted(calls)} :
              Begin(op, f, cs) /\ ~mutationBusy
    BY <1>1, Begins
  <2>2. ~overlapped /\ ~draftLoad /\ activeOperation' = op /\ retry' = None
    BY <2>1 DEF Begin, TypeOK
  <2>3. \A c \in calls : c.op \notin Blocking
    BY <1>1, <2>2, BeginIdle, IdleFacts
  <2> DEFINE new == [op |-> op, form |-> f, draft |-> None, current |-> TRUE]
  <2>4. /\ \A c \in calls' : c.op \in Mutations => c = new
        /\ \A c \in calls' : c.op \notin Mutations => \E d \in calls : c.op = d.op
        /\ new \in calls'
    BY <2>1, BeginAlone
  <2>5. \A c \in calls' : c.op \in Blocking => c = new
    BY <2>3, <2>4
  <2>6. UNCHANGED loadVars
    BY <1>1 DEF analyze, importFromUrl, createReport, createReportFromForm
  <2>7. op \in Blocking /\ op \notin {"draft", "save", "track"}
    BY DEF Mutations, Blocking
  <2>8. new.op = op /\ new.current
    OBVIOUS
  <2> HIDE DEF new
  <2>9. ~draftLoad' /\ activeOperation' # "draft"
    BY <2>2, <2>6, <2>7 DEF loadVars
  <2>10. /\ \A c \in calls' : c.op \in Blocking => activeOperation' = c.op
         /\ \A c \in calls' : c.op \in Mutations => c.current
         /\ \A c, d \in calls' : c.op \in Blocking /\ d.op \in Blocking => c = d
         /\ \E c \in calls' : c.op = activeOperation'
    BY <2>2, <2>4, <2>5, <2>8
  <2> QED
    BY <2>2, <2>7, <2>9, <2>10 DEF SoleOwner
<1>2. ASSUME NEW op \in {"save", "track"}, saveReportToHistory(op) PROVE SoleOwner'
  <2>1. ~overlapped /\ ~draftLoad /\ Shown /\ activeOperation' = op /\ retry' = None
    BY <1>2 DEF saveReportToHistory, TypeOK
  <2>2. Idle
    BY <1>2, <2>1 DEF saveReportToHistory, SoleOwner, Retrying
  <2>3. (\A c \in calls : c.op \notin Blocking) /\ ~mutationBusy
    BY <2>1, <2>2, IdleFacts
  <2> DEFINE new == [op |-> op, form |-> DEFAULT_FORM, draft |-> result.draft, current |-> TRUE]
  <2>4. calls' = calls \cup {new} /\ UNCHANGED <<mutationBusy, draftLoad, result>>
    BY <1>2 DEF saveReportToHistory, Ask, shownVars, loadVars
  <2>5. op \in Blocking /\ op \notin Mutations /\ op # "draft" /\ new.op = op
    BY DEF Mutations, Blocking
  <2> HIDE DEF new
  <2>6. \A c \in calls' : c.op \in Blocking => c = new
    BY <2>3, <2>4
  <2>7. \A c \in calls' : c.op \notin Mutations
    BY <2>3, <2>4, <2>5 DEF Blocking
  <2> QED
    BY <2>1, <2>3, <2>4, <2>5, <2>6, <2>7 DEF SoleOwner, Shown
<1> QED
  BY <1>1, <1>2

\* An answer ends the ownership of its own request only.
LEMMA OwnerAnswers ==
    ASSUME TypeOK, SoleOwner, NEW c \in calls, Answer(c)
    PROVE  SoleOwner'
<1> SUFFICES ASSUME ~overlapped' PROVE SoleOwner'
  BY DEF SoleOwner
<1>1. ~overlapped /\ UNCHANGED <<draftLoad, draftInUrl>> /\ calls' = calls \ {c}
  <2>1. UNCHANGED <<loadVars, overlapped>> /\ calls' = calls \ {c}
    BY DEF Answer, Analysed, Imported, MutationFails, AnswerIgnored, SideAnswered, SideFails,
           generateAIAnswer, recalculatePostViewing, Release
  <2> QED
    BY <2>1 DEF loadVars
<1>2. CASE c.op \in Blocking
  <2>1. activeOperation = c.op /\ \A d \in calls' : d.op \notin Blocking
    BY <1>1, <1>2 DEF SoleOwner
  <2>2. ~draftLoad /\ ~AnswerIgnored(c)
    BY <1>1, <1>2, <2>1 DEF SoleOwner, Blocking, Mutations, AnswerIgnored
  <2>3. c.op \notin Enquiries
    BY <1>2 DEF Blocking, Mutations, Enquiries
  <2>4. /\ activeOperation' = None
        /\ retry' # None => retry'.op = c.op
        /\ ~mutationBusy' \/ (c.op \notin Mutations /\ UNCHANGED mutationBusy)
    <3>1. CASE Analysed(c) \/ Imported(c)
      BY <3>1 DEF Analysed, Imported, Release
    <3>2. CASE MutationFails(c)
      BY <3>2 DEF MutationFails, Release
    <3>3. CASE SideAnswered(c) \/ SideFails(c)
      BY <3>3 DEF SideAnswered, SideFails
    <3>4. CASE generateAIAnswer(c) \/ recalculatePostViewing(c)
      BY <2>3, <3>4 DEF generateAIAnswer, recalculatePostViewing, Enquiries
    <3> QED
      BY <2>2, <3>1, <3>2, <3>3, <3>4 DEF Answer
  <2>5. ~mutationBusy'
    BY <1>1, <2>1, <2>4 DEF SoleOwner
  <2>6. c.op # "draft" /\ None \notin Blocking \cup {"draft"}
    BY <1>2, NoneAssumption DEF Blocking, Mutations
  <2>7. \A d \in calls' : d.op \notin Mutations
    BY <2>1 DEF Blocking
  <2> QED
    BY <1>1, <2>1, <2>2, <2>4, <2>5, <2>6, <2>7 DEF SoleOwner, Idle, Blocking
<1>3. CASE c.op \notin Blocking
  <2>1. generateAIAnswer(c) \/ recalculatePostViewing(c)
    BY <1>3 DEF Answer, Analysed, Imported, MutationFails, AnswerIgnored, SideAnswered,
                SideFails, Blocking, Mutations
  <2>2. UNCHANGED <<activeOperation, mutationBusy, retry, result>>
    BY <2>1 DEF generateAIAnswer, recalculatePostViewing, controlVars
  <2> QED
    BY <1>1, <1>3, <2>2 DEF SoleOwner, Idle, Shown
<1> QED
  BY <1>2, <1>3

\* The load of the draft owns the buttons, unless it overlaps.
LEMMA OwnerLoads ==
    ASSUME TypeOK, SoleOwner, loadDraft, UNCHANGED <<calls, mutationBusy, draftInUrl>>,
           draftInUrl \/ (retry # None /\ retry.op = "draft")
    PROVE  SoleOwner'
<1> SUFFICES ASSUME ~overlapped' PROVE SoleOwner'
  BY DEF SoleOwner
<1>1. ~overlapped /\ \A c \in calls : c.op \notin Blocking
  BY DEF loadDraft, TypeOK
<1>2. draftInUrl /\ ~mutationBusy
  BY <1>1 DEF SoleOwner, Blocking
<1>3. \A c \in calls : c.op \notin Mutations
  BY <1>1 DEF Blocking
<1>4. "draft" \notin Blocking \cup {"save", "track"}
  BY DEF Blocking, Mutations
<1> QED
  BY <1>1, <1>2, <1>3, <1>4 DEF SoleOwner, loadDraft

LEMMA OwnerStep ==
    ASSUME TypeOK, OneMutation, SoleOwner, Next
    PROVE  SoleOwner'
<1>1. CASE ChangeUrl \/ NewCheck
  <2> SUFFICES ASSUME ~overlapped' PROVE SoleOwner'
    BY DEF SoleOwner
  <2>1. /\ Idle /\ ~overlapped /\ Idle' /\ retry' = None
        /\ UNCHANGED <<mutationBusy, draftLoad>> /\ calls' = Unmounted(Outdated(calls))
    BY <1>1 DEF ChangeUrl, NewCheck, Idle, loadVars
  <2>2. (\A c \in calls : c.op \notin Blocking) /\ ~mutationBusy /\ ~draftLoad
    BY <2>1, IdleFacts
  <2>3. calls \in SUBSET Calls /\ Outdated(calls) \in SUBSET Calls
    BY OutdatedType DEF TypeOK
  <2>4. \A c \in Outdated(calls) : c.op \notin Blocking
    BY <2>2, <2>3, OutdatedFrom
  <2>5. \A c \in calls' : c.op \notin Blocking
    BY <2>1, <2>3, <2>4, UnmountedFrom
  <2>6. \A c \in calls' : c.op \notin Mutations
    BY <2>5 DEF Blocking
  <2> QED
    BY <2>1, <2>2, <2>5, <2>6, NoneAssumption DEF SoleOwner, Idle, Blocking
<1>2. CASE UNCHANGED <<activeOperation, draftLoad, calls, mutationBusy, retry, result,
                        draftInUrl, overlapped>>
  BY <1>2 DEF SoleOwner, Idle, Shown
<1>3. ASSUME NEW op \in Enquiries, askFollowUp(op) PROVE SoleOwner'
  <2>1. /\ calls' = calls \cup {[op |-> op, form |-> DEFAULT_FORM, draft |-> result.draft,
                                 current |-> TRUE]}
        /\ UNCHANGED <<activeOperation, draftLoad, mutationBusy, retry, result, draftInUrl,
                       overlapped>>
    BY <1>3 DEF askFollowUp, Ask, controlVars, loadVars, shownVars
  <2>2. op \notin Blocking /\ op \notin Mutations
    BY DEF Enquiries, Blocking, Mutations
  <2>3. \A c \in calls' : c.op \in Blocking \/ c.op \in Mutations => c \in calls
    BY <2>1, <2>2
  <2> QED
    BY <2>1, <2>3 DEF SoleOwner, Idle, Shown
<1>4. CASE /\ repeatDraft /\ retry # None /\ retry.op = "draft"
            /\ UNCHANGED <<draftInUrl, calls, mutationBusy, result>>
  <2>1. CASE draftInUrl
    BY <1>4, <2>1, OwnerLoads DEF repeatDraft
  <2>2. CASE ~draftInUrl
    <3>1. overlapped /\ UNCHANGED overlapped
      BY <1>4, <2>2 DEF SoleOwner, repeatDraft
    <3> QED
      BY <3>1 DEF SoleOwner
  <2> QED
    BY <2>1, <2>2
<1>b. CASE ChangeLocale
  BY <1>b, OwnerLoads DEF ChangeLocale, shownVars
<1>c. CASE retryDraft
  BY <1>4, <1>c DEF retryDraft, Retrying, shownVars
<1>5. CASE onAuthenticated
  <2>1. CASE retry # None /\ retry.op = "draft"
    BY <1>4, <1>5, <2>1 DEF onAuthenticated, shownVars
  <2>2. CASE ~(retry # None /\ retry.op = "draft")
    BY <1>2, <1>5, <2>2 DEF onAuthenticated, shownVars
  <2> QED
    BY <2>1, <2>2
<1>6. CASE ChangeLocaleCancels
  <2>1. overlapped
    BY <1>6, DraftFacts DEF ChangeLocaleCancels
  <2>2. overlapped'
    BY <1>6, <2>1 DEF ChangeLocaleCancels
  <2> QED
    BY <2>2 DEF SoleOwner
<1>7. CASE DraftLoaded \/ DraftFails
  <2> SUFFICES ASSUME ~overlapped' PROVE SoleOwner'
    BY DEF SoleOwner
  <2>1. /\ ~overlapped /\ draftLoad /\ Idle' /\ ~draftLoad'
        /\ UNCHANGED <<calls, mutationBusy, draftInUrl>>
    <3>1. /\ draftLoad /\ draftLoad' = FALSE /\ activeOperation' = None
          /\ UNCHANGED <<calls, mutationBusy, draftInUrl, overlapped>>
      BY <1>7 DEF DraftLoaded, DraftFails
    <3> QED
      BY <3>1 DEF Idle
  <2>2. (\A c \in calls : c.op \notin Blocking) /\ ~mutationBusy /\ draftInUrl
    BY <2>1, DraftFacts
  <2>3. \A c \in calls : c.op \notin Mutations
    BY <2>2 DEF Blocking
  <2> QED
    BY <2>1, <2>2, <2>3, NoneAssumption DEF SoleOwner, Idle, Blocking
<1>8. CASE Refresh
  BY <1>8, NoneAssumption DEF Refresh, ClearShown, SoleOwner, Idle, Blocking, Mutations
<1>9. CASE updateField \/ ProfileArrives \/ analyzeRefused
  BY <1>2, <1>9 DEF updateField, ProfileArrives, analyzeRefused, shownVars, controlVars, loadVars
<1> QED
  BY <1>1, <1>3, <1>b, <1>c, <1>5, <1>6, <1>7, <1>8, <1>9, OwnerBegins, OwnerAnswers DEF Next

-----------------------------------------------------------------------------
(* What has been confirmed. *)

LEMMA ConfirmedStep ==
    ASSUME TypeOK, OneMutation, SoleOwner, ConfirmedForm, Next
    PROVE  ConfirmedForm'
<1> SUFFICES ASSUME confirmed', ~overlapped' PROVE ConfirmedForm'
  BY DEF ConfirmedForm
<1>b. overlapped \in BOOLEAN /\ draftLoad \in BOOLEAN /\ lateProfile \in BOOLEAN
  BY DEF TypeOK
\* What is in flight and offered for repetition may only become less.
<1>a. ASSUME confirmed, ~overlapped, UNCHANGED <<form, lateProfile>>, calls' \subseteq calls,
             UNCHANGED result \/ result' = None,
             UNCHANGED retry \/ retry' = None \/ retry'.op # "report"
      PROVE  ConfirmedForm'
  BY <1>a DEF ConfirmedForm, SameAsForm, Shown
<1>1. CASE ChangeUrl \/ updateField \/ NewCheck \/ importFromUrl
  BY <1>1 DEF ChangeUrl, updateField, NewCheck, importFromUrl
<1>2. CASE ProfileArrives
  <2>1. /\ lateProfile' = (lateProfile \/ (form' # form /\ (confirmed \/ \E c \in calls : c.op \in Mutations)))
        /\ form' \in {form, [form EXCEPT !.intent = "stated"]}
        /\ UNCHANGED <<confirmed, overlapped, calls, result, retry>>
    BY <1>2 DEF ProfileArrives, shownVars, controlVars
  <2>2. confirmed /\ ~overlapped
    BY <2>1
  <2>3. CASE UNCHANGED form
    BY <1>a, <1>b, <2>1, <2>2, <2>3
  <2>4. CASE form' # form
    <3>1. lateProfile' /\ form'.details = form.details
      BY <2>1, <2>2, <2>4 DEF TypeOK, Forms
    <3> QED
      BY <2>1, <2>2, <3>1 DEF ConfirmedForm, SameAsForm, Shown
  <2> QED
    BY <2>3, <2>4
<1>3. ASSUME NEW op \in Mutations, NEW f \in Forms, NEW cs \in {calls, Unmounted(calls)},
             Begin(op, f, cs), ~mutationBusy, op # "import",
             SameAsForm(f), UNCHANGED <<form, lateProfile>>,
             Shown' => SameAsForm(result'.payload)
      PROVE  ConfirmedForm'
  <2>1. /\ \A c \in calls' : c.op \in Mutations =>
              c = [op |-> op, form |-> f, draft |-> None, current |-> TRUE]
        /\ retry' = None
    BY <1>3, BeginAlone DEF Begin
  <2>2. "import" \in Mutations
    BY DEF Mutations
  <2>3. \A c \in calls' : c.op \in Mutations => c.op # "import" /\ c.form = f
    BY <1>3, <2>1
  <2> QED
    BY <1>3, <2>1, <2>2, <2>3 DEF ConfirmedForm, SameAsForm
<1>4. CASE analyze
  <2>1. Begin("check", form, Unmounted(calls)) /\ ~mutationBusy /\ result' = None
        /\ UNCHANGED <<form, lateProfile>>
    BY <1>4 DEF analyze, ClearShown
  <2>2. form \in Forms /\ "check" \in Mutations /\ SameAsForm(form)
    BY DEF TypeOK, Mutations, SameAsForm
  <2> QED
    BY <1>3, <2>1, <2>2 DEF Shown
<1>r. ASSUME NEW f, createReportFromForm(f), f = form \/ (Retrying("report") /\ f = retry.form)
      PROVE  ConfirmedForm'
  <2>1. /\ Begin("report", f, calls) /\ ~mutationBusy /\ confirmed
        /\ UNCHANGED <<form, result, lateProfile>>
    BY <1>r DEF createReportFromForm, entryVars
  <2>2. ~overlapped
    BY <1>b, <2>1 DEF Begin
  <2>3. f \in Forms /\ "report" \in Mutations
    BY <1>r DEF TypeOK, Retries, Retrying, Mutations
  <2>4. SameAsForm(f) /\ (Shown => SameAsForm(result.payload))
    BY <1>r, <2>1, <2>2 DEF ConfirmedForm, Retrying, SameAsForm
  <2> QED
    BY <1>3, <2>1, <2>3, <2>4 DEF Shown
<1>5. CASE createReport
  BY <1>5, <1>r DEF createReport
<1>6. ASSUME NEW c \in calls, Analysed(c) PROVE ConfirmedForm'
  <2>1. /\ UNCHANGED <<form, confirmed, overlapped, lateProfile>> /\ retry' = None
        /\ calls' = calls \ {c}
        /\ result'.payload.details = c.form.details /\ result'.payload.intent = c.form.intent
        /\ c.op \in Mutations
    BY <1>6 DEF Analysed, Release, Mutations, Payload
  <2>2. SameAsForm(c.form) /\ \A d \in calls' : d \in calls
    BY <2>1 DEF ConfirmedForm
  <2>3. /\ confirmed /\ ~overlapped
    BY <2>1
  <2> QED
    BY <2>1, <2>2, <2>3 DEF ConfirmedForm, SameAsForm
<1>7. ASSUME NEW c \in calls, Answer(c), ~Analysed(c) PROVE ConfirmedForm'
  <2>1. /\ UNCHANGED <<confirmed, result, overlapped, lateProfile>> /\ calls' = calls \ {c}
        /\ c.op = "import" \/ UNCHANGED form
    BY <1>7 DEF Answer, Imported, MutationFails, AnswerIgnored, SideAnswered, SideFails,
                generateAIAnswer, recalculatePostViewing, Release, entryVars, shownVars
  <2>2. confirmed /\ ~overlapped
    BY <2>1
  <2>3. UNCHANGED form
    BY <2>1, <2>2 DEF ConfirmedForm
  <2>4. CASE MutationFails(c)
    <3>1. retry' = [op |-> c.op, form |-> IF c.op = "report" THEN c.form ELSE DEFAULT_FORM]
          /\ c.op \in Mutations
      BY <2>4 DEF MutationFails
    <3>2. retry'.op = "report" => retry'.form = c.form
      BY <3>1
    <3>3. SameAsForm(c.form)
      BY <2>2, <3>1 DEF ConfirmedForm
    <3>4. retry'.op = "report" => SameAsForm(retry.form)'
      BY <2>1, <2>3, <3>2, <3>3 DEF SameAsForm
    <3>5. /\ Shown' => SameAsForm(result.payload)'
          /\ \A d \in calls' : d.op \in Mutations => SameAsForm(d.form)'
          /\ \A d \in calls' : d.op # "import"
      BY <2>1, <2>2, <2>3 DEF ConfirmedForm, Shown, SameAsForm
    <3> QED
      BY <3>4, <3>5 DEF ConfirmedForm
  <2>5. CASE ~MutationFails(c)
    <3>1. UNCHANGED retry \/ retry' = None \/ retry'.op # "report"
      <4>1. CASE Imported(c) \/ SideAnswered(c)
        BY <4>1 DEF Imported, SideAnswered
      <4>2. CASE AnswerIgnored(c) \/ generateAIAnswer(c) \/ recalculatePostViewing(c)
        BY <4>2 DEF AnswerIgnored, generateAIAnswer, recalculatePostViewing, controlVars
      <4>3. CASE SideFails(c)
        BY <4>3 DEF SideFails, Mutations
      <4> QED
        BY <1>7, <2>5, <4>1, <4>2, <4>3 DEF Answer
    <3> QED
      BY <1>a, <2>1, <2>2, <2>3, <3>1
  <2> QED
    BY <2>4, <2>5
<1>8. ASSUME NEW op \in {"save", "track"} \cup Enquiries,
             saveReportToHistory(op) \/ askFollowUp(op)
      PROVE  ConfirmedForm'
  <2>1. /\ UNCHANGED <<form, confirmed, result, lateProfile>>
        /\ \A c \in calls' : c \in calls \/ c.op = op
        /\ UNCHANGED retry \/ retry' = None
        /\ overlapped => overlapped'
    <3>1. Ask(op)
      BY <1>8 DEF saveReportToHistory, askFollowUp
    <3>2. \A c \in calls' : c \in calls \/ c.op = op
      BY <3>1 DEF Ask
    <3>3. /\ UNCHANGED <<form, confirmed, result, lateProfile>>
          /\ UNCHANGED retry \/ retry' = None
      BY <1>8 DEF saveReportToHistory, askFollowUp, entryVars, shownVars, controlVars
    <3>4. overlapped' = (overlapped \/ draftLoad) \/ UNCHANGED overlapped
      BY <1>8 DEF saveReportToHistory, askFollowUp
    <3>5. overlapped => overlapped'
      BY <1>b, <3>4
    <3> QED
      BY <3>2, <3>3, <3>5
  <2>2. op \notin Mutations /\ op # "import"
    BY DEF Mutations, Enquiries
  <2>3. confirmed /\ ~overlapped
    BY <2>1
  <2> QED
    BY <2>1, <2>2, <2>3 DEF ConfirmedForm, SameAsForm, Shown
<1>9. CASE loadDraft /\ UNCHANGED <<entryVars, result, calls, lateProfile>>
  <2>1. confirmed /\ ~overlapped /\ UNCHANGED form /\ retry' = None
    BY <1>9 DEF loadDraft, entryVars
  <2> QED
    BY <1>9, <1>a, <2>1
<1>11. CASE UNCHANGED <<form, confirmed, result, calls, overlapped, lateProfile, retry>>
  BY <1>11 DEF ConfirmedForm, SameAsForm, Shown
<1>10. CASE ChangeLocale \/ retryDraft
  <2>1. loadDraft \/ UNCHANGED <<retry, overlapped>>
    BY <1>10 DEF ChangeLocale, retryDraft, repeatDraft
  <2>2. UNCHANGED <<entryVars, result, calls, lateProfile>>
    BY <1>10 DEF ChangeLocale, retryDraft, shownVars
  <2> QED
    BY <1>9, <1>11, <2>1, <2>2 DEF entryVars
<1>12. CASE onAuthenticated
  <2>1. loadDraft \/ UNCHANGED <<retry, overlapped>>
    BY <1>12 DEF onAuthenticated, repeatDraft
  <2>2. UNCHANGED <<entryVars, result, calls, lateProfile>>
    BY <1>12 DEF onAuthenticated, shownVars
  <2> QED
    BY <1>9, <1>11, <2>1, <2>2 DEF entryVars
<1>13. CASE ChangeLocaleCancels \/ analyzeRefused
  BY <1>11, <1>13 DEF ChangeLocaleCancels, analyzeRefused, entryVars, shownVars, controlVars
<1>14. CASE DraftLoaded
  <2>1. /\ draftLoad /\ form' = PageForm /\ result'.payload = Payload(PageForm)
        /\ retry' = None /\ UNCHANGED <<calls, overlapped>>
    BY <1>14 DEF DraftLoaded
  <2>2. \A c \in calls : c.op \notin Mutations /\ c.op # "import"
    BY <2>1, DraftFacts DEF Blocking, Mutations
  <2> QED
    BY <2>1, <2>2 DEF ConfirmedForm, SameAsForm, Payload
<1>15. CASE DraftFails
  <2>1. /\ retry'.op = "draft"
        /\ UNCHANGED <<form, confirmed, result, calls, overlapped, lateProfile>>
    BY <1>15 DEF DraftFails, entryVars, shownVars
  <2> QED
    BY <1>a, <2>1
<1>16. CASE Refresh
  BY <1>16 DEF Refresh, ClearShown, ConfirmedForm, Shown
<1> QED
  BY <1>1, <1>2, <1>4, <1>5, <1>6, <1>7, <1>8, <1>10, <1>12, <1>13, <1>14, <1>15, <1>16
  DEF Next

-----------------------------------------------------------------------------
(* The theorems. *)

LEMMA InvariantStep == IInv /\ [Next]_vars => IInv'
<1> SUFFICES ASSUME IInv, [Next]_vars PROVE IInv'
  OBVIOUS
<1>1. CASE Next
  BY <1>1, TypeStep, CallsStep, ReportStep, OwnerStep, ConfirmedStep DEF IInv
<1>2. CASE UNCHANGED vars
  <2>1. TypeOK'
    BY <1>2, TypeStep DEF IInv
  <2>2. UNCHANGED <<form, confirmed, result, report, activeOperation, mutationBusy, retry,
                    draftInUrl, draftLoad, calls, overlapped, lateProfile>>
    BY <1>2 DEF vars, entryVars, shownVars, controlVars, loadVars
  <2>3. CallsComplete' /\ OneMutation' /\ ReportOfShown'
    BY <2>2 DEF IInv, CallsComplete, OneMutation, ReportOfShown, Shown
  <2>4. SoleOwner'
    BY <2>2 DEF IInv, SoleOwner, Idle, Shown
  <2>5. ConfirmedForm'
    BY <2>2 DEF IInv, ConfirmedForm, SameAsForm, Shown
  <2> QED
    BY <2>1, <2>3, <2>4, <2>5 DEF IInv
<1> QED
  BY <1>1, <1>2

THEOREM Invariance == Spec => []IInv
BY InvariantInit, InvariantStep, PTL DEF Spec

\* The variables keep their types, whatever the answers and their order.
THEOREM TypeCorrect == Spec => []TypeOK
<1>1. IInv => TypeOK
  BY DEF IInv
<1> QED
  BY <1>1, Invariance, PTL

\* At most one check, import or report is in flight, and mutationBusy is set during it.
THEOREM Exclusive == Spec => []OneMutation
<1>1. IInv => OneMutation
  BY DEF IInv
<1> QED
  BY <1>1, Invariance, PTL

\* Neither guard is left set, or cleared early, unless a draft load overlapped a request.
THEOREM GuardsReleased == Spec => []GuardsOwned
<1>1. IInv => GuardsOwned
  <2> SUFFICES ASSUME IInv, ~overlapped
               PROVE  /\ mutationBusy => \E c \in calls : c.op \in Mutations /\ c.current
                      /\ Idle <=> ~draftLoad /\ \A c \in calls : c.op \notin Blocking
    BY DEF GuardsOwned
  <2>1. mutationBusy => \E c \in calls : c.op \in Mutations /\ c.current
    <3>1. mutationBusy => activeOperation \in Mutations /\ activeOperation \in Blocking
      BY DEF IInv, SoleOwner, Blocking
    <3> QED
      BY <3>1 DEF IInv, SoleOwner
  <2>2. Idle => ~draftLoad /\ \A c \in calls : c.op \notin Blocking
    BY IdleFacts DEF IInv
  <2>3. ~draftLoad /\ (\A c \in calls : c.op \notin Blocking) => Idle
    <3>1. activeOperation \in Blocking \cup {"draft", None}
      BY DEF IInv, TypeOK
    <3> QED
      BY <3>1 DEF IInv, SoleOwner, Idle
  <2> QED
    BY <2>1, <2>2, <2>3
<1> QED
  BY <1>1, Invariance, PTL

\* The report on display is that of the analysis on display.
THEOREM ReportMatches == Spec => []ReportOfShown
<1>1. IInv => ReportOfShown
  BY DEF IInv
<1> QED
  BY <1>1, Invariance, PTL

\* What is called confirmed is what was, is being or would again be analysed.
THEOREM ConfirmedMatches == Spec => []ConfirmedIsAnalysed
<1>1. IInv => ConfirmedIsAnalysed
  BY DEF IInv, ConfirmedForm, ConfirmedIsAnalysed, Retrying
<1> QED
  BY <1>1, Invariance, PTL

\* The follow-ups of two apartments are mixed by nothing but a late answer.
THEOREM MixedByLateAnswers == Spec => OnlyLateAnswersMix
<1>1. TypeOK /\ [Next]_vars =>
        [FollowUpsOfShown /\ ~FollowUpsOfShown' =>
           \E c \in calls \ calls' : /\ c.op \in {"save"} \cup Enquiries
                                    /\ c.draft # result.draft]_vars
  <2> SUFFICES ASSUME TypeOK, Next, FollowUpsOfShown, ~FollowUpsOfShown'
               PROVE  \E c \in calls \ calls' : /\ c.op \in {"save"} \cup Enquiries
                                               /\ c.draft # result.draft
    OBVIOUS
  <2>1. Shown' /\ ~UNCHANGED <<result, saved, viewing, aiAnswer>>
    BY DEF FollowUpsOfShown, Shown
  <2>2. ASSUME UNCHANGED result, saved' \in {None, saved}, viewing' \in {None, viewing},
               aiAnswer' \in {None, aiAnswer}
        PROVE  FALSE
    BY <2>1, <2>2 DEF FollowUpsOfShown, Shown
  <2>3. ASSUME NEW c \in calls, Analysed(c) PROVE FALSE
    <3>1. saved' = None /\ viewing' = None /\ aiAnswer' = None
      BY <2>3 DEF Analysed
    <3> QED
      BY <3>1 DEF FollowUpsOfShown
  <2>4. ~DraftLoaded
    <3> SUFFICES ASSUME DraftLoaded PROVE FALSE
      OBVIOUS
    <3>1. /\ saved' = None /\ aiAnswer' = None /\ viewing' \in {None, PageDraft}
          /\ result' = [draft |-> PageDraft, payload |-> Payload(PageForm)]
      BY DEF DraftLoaded
    <3> QED
      BY <3>1 DEF FollowUpsOfShown
  <2>5. PICK c \in calls : \/ SideAnswered(c) /\ c.op = "save"
                           \/ generateAIAnswer(c) \/ recalculatePostViewing(c)
    BY <2>1, <2>2, <2>3, <2>4
    DEF Next, Answer, ChangeUrl, updateField, NewCheck, ProfileArrives, analyze, analyzeRefused,
        importFromUrl, createReport, createReportFromForm, saveReportToHistory, askFollowUp,
        Imported, MutationFails, AnswerIgnored, SideAnswered, SideFails, ChangeLocale,
        ChangeLocaleCancels, retryDraft, onAuthenticated, DraftFails, Refresh, ClearShown,
        shownVars, Shown
  <2>6. /\ UNCHANGED result /\ calls' = calls \ {c} /\ c.op \in {"save"} \cup Enquiries
        /\ saved' \in {saved, c.draft} /\ viewing' \in {viewing, c.draft}
        /\ aiAnswer' \in {None, aiAnswer, c.draft}
    BY <2>5 DEF SideAnswered, generateAIAnswer, recalculatePostViewing, Enquiries
  <2>7. c.draft # result.draft
    BY <2>1, <2>6 DEF FollowUpsOfShown, Shown
  <2> QED
    BY <2>6, <2>7
<1> QED
  BY <1>1, TypeCorrect, PTL DEF Spec, OnlyLateAnswersMix

-----------------------------------------------------------------------------
(* The tab.  What is proved of the search page and its map by themselves is  *)
(* carried over by instantiating their proofs.                               *)

SearchPr == INSTANCE SearchPageProofs WITH
    mounted <- at = "search", isLoading <- searchLoading, error <- searchError

\* Each page counts with its own copy of FiniteSets.
LEMMA Counting ==
    ASSUME NEW S
    PROVE  Search!Cardinality(S) = SearchPr!Cardinality(S)
BY DEF Search!Cardinality, SearchPr!Cardinality

\* The search page of the tab is the one its proofs are about...
LEMMA SearchSame ==
    /\ Search!ListShown <=> SearchPr!ListShown
    /\ Search!Init <=> SearchPr!Init
    /\ Search!NewFeatures <=> SearchPr!NewFeatures
    /\ Search!SameFeatures <=> SearchPr!SameFeatures
    /\ Search!TypeOK <=> SearchPr!TypeOK
    /\ Search!vars = SearchPr!vars
<1>1. Search!Pages = SearchPr!Pages
  BY DEF Search!Pages, SearchPr!Pages
<1>2. Search!Questions = SearchPr!Questions
  BY <1>1 DEF Search!Questions, SearchPr!Questions
<1>3. Search!Current = SearchPr!Current
  BY DEF Search!Current, SearchPr!Current
<1>4. Search!NoLoads = SearchPr!NoLoads
  BY <1>2 DEF Search!NoLoads, SearchPr!NoLoads
<1>5. \A ls, q : Search!Started(ls, q) = SearchPr!Started(ls, q)
  BY DEF Search!Started, SearchPr!Started
<1>6. \A ls, q : Search!Finished(ls, q) = SearchPr!Finished(ls, q)
  BY DEF Search!Finished, SearchPr!Finished
<1>7. \A ls : Search!InFlight(ls) = SearchPr!InFlight(ls)
  BY <1>2 DEF Search!InFlight, SearchPr!InFlight
<1>8. Search!Empty <=> SearchPr!Empty
  BY DEF Search!Empty, SearchPr!Empty
<1>9. Search!ListShown <=> SearchPr!ListShown
  BY <1>8 DEF Search!ListShown, SearchPr!ListShown
<1>10. \A ls, q : Search!load(ls, q) <=> SearchPr!load(ls, q)
  BY <1>5, <1>7 DEF Search!load, SearchPr!load
<1>11. \A f : Search!loadMap(f) <=> SearchPr!loadMap(f)
  BY DEF Search!loadMap, SearchPr!loadMap
<1>12. \A f, p, switched : Search!Mount(f, p, switched) <=> SearchPr!Mount(f, p, switched)
  BY <1>4, <1>5 DEF Search!Mount, SearchPr!Mount
<1>13. Search!Unmount <=> SearchPr!Unmount
  BY <1>4 DEF Search!Unmount, SearchPr!Unmount
<1>14. \A f : Search!updateFilters(f) <=> SearchPr!updateFilters(f)
  BY <1>10, <1>11 DEF Search!updateFilters, SearchPr!updateFilters
<1>15. Search!resetFilters <=> SearchPr!resetFilters
  BY <1>10, <1>11
     DEF Search!resetFilters, SearchPr!resetFilters, Search!mapVars, SearchPr!mapVars
<1>16. \A p : Search!TurnPage(p) <=> SearchPr!TurnPage(p)
  BY <1>9, <1>10 DEF Search!TurnPage, SearchPr!TurnPage, Search!mapVars, SearchPr!mapVars
<1>17. Search!ChangeLocale <=> SearchPr!ChangeLocale
  BY <1>3, <1>10, <1>11 DEF Search!ChangeLocale, SearchPr!ChangeLocale
<1>18. \A l : Search!toggleCompare(l) <=> SearchPr!toggleCompare(l)
  BY <1>8, <1>9, Counting DEF Search!toggleCompare, SearchPr!toggleCompare, Search!listVars,
     SearchPr!listVars, Search!mapVars, SearchPr!mapVars
<1>19. \A q : Search!Loaded(q) <=> SearchPr!Loaded(q)
  BY <1>6, <1>7, <1>10 DEF Search!Loaded, SearchPr!Loaded, Search!mapVars, SearchPr!mapVars
<1>20. \A q : Search!LoadFails(q) <=> SearchPr!LoadFails(q)
  BY <1>6, <1>7 DEF Search!LoadFails, SearchPr!LoadFails, Search!mapVars, SearchPr!mapVars
<1>21. \A f : Search!MapLoaded(f) <=> SearchPr!MapLoaded(f)
  BY DEF Search!MapLoaded, SearchPr!MapLoaded, Search!listVars, SearchPr!listVars
<1>22. \A f : Search!MapFails(f) <=> SearchPr!MapFails(f)
  BY DEF Search!MapFails, SearchPr!MapFails, Search!listVars, SearchPr!listVars
<1>23. Search!Init <=> SearchPr!Init
  BY <1>4 DEF Search!Init, SearchPr!Init
<1>24. Search!NewFeatures <=> SearchPr!NewFeatures
  BY <1>17, <1>21 DEF Search!NewFeatures, SearchPr!NewFeatures
<1>25. Search!SameFeatures <=> SearchPr!SameFeatures
  BY <1>1, <1>2, <1>12, <1>13, <1>14, <1>22, <1>15, <1>16, <1>18, <1>19, <1>20 DEF
     Search!SameFeatures, SearchPr!SameFeatures
<1>26. Search!TypeOK <=> SearchPr!TypeOK
  BY <1>1, <1>2, Counting DEF Search!TypeOK, SearchPr!TypeOK
<1>27. Search!vars = SearchPr!vars
  BY DEF Search!vars, SearchPr!vars, Search!listVars, SearchPr!listVars, Search!mapVars,
     SearchPr!mapVars
<1> QED
  BY <1>9, <1>23, <1>24, <1>25, <1>26, <1>27

\* ... and so are the layers of its map...
LEMMA MapTables ==
    /\ Search!Map!DEFAULT_VISIBLE_LAYERS = SearchPr!Map!DEFAULT_VISIBLE_LAYERS
    /\ Search!Map!LayerKeys = SearchPr!Map!LayerKeys
    /\ \A k : Search!Map!Enabled(k) <=> SearchPr!Map!Enabled(k)
    /\ Search!Map!FramedIsDrawn <=> SearchPr!Map!FramedIsDrawn
<1>1. Search!Map!Administrative = SearchPr!Map!Administrative
  BY DEF Search!Map!Administrative, SearchPr!Map!Administrative
<1>2. Search!Map!Planning = SearchPr!Map!Planning
  BY DEF Search!Map!Planning, SearchPr!Map!Planning
<1>3. Search!Map!FutureTransport = SearchPr!Map!FutureTransport
  BY DEF Search!Map!FutureTransport, SearchPr!Map!FutureTransport
<1>4. Search!Map!Risk = SearchPr!Map!Risk
  BY DEF Search!Map!Risk, SearchPr!Map!Risk
<1>5. Search!Map!Infrastructure = SearchPr!Map!Infrastructure
  BY DEF Search!Map!Infrastructure, SearchPr!Map!Infrastructure
<1>6. Search!Map!Amenities = SearchPr!Map!Amenities
  BY DEF Search!Map!Amenities, SearchPr!Map!Amenities
<1>7. \A own : Search!Map!Switches(own) = SearchPr!Map!Switches(own)
  BY DEF Search!Map!Switches, SearchPr!Map!Switches
<1>8. Search!Map!DEFAULT_VISIBLE_LAYERS = SearchPr!Map!DEFAULT_VISIBLE_LAYERS
  BY <1>1, <1>2, <1>3, <1>4, <1>5, <1>6, <1>7 DEF Search!Map!DEFAULT_VISIBLE_LAYERS,
     SearchPr!Map!DEFAULT_VISIBLE_LAYERS
<1>9. Search!Map!LayerKeys = SearchPr!Map!LayerKeys
  BY <1>8 DEF Search!Map!LayerKeys, SearchPr!Map!LayerKeys
<1>10. \A ts, gs, ks : Search!Map!Feature(ts, gs, ks) = SearchPr!Map!Feature(ts, gs, ks)
  BY DEF Search!Map!Feature, SearchPr!Map!Feature
<1>11. Search!Map!Features = SearchPr!Map!Features
  BY <1>1, <1>2, <1>3, <1>4, <1>5, <1>6, <1>10 DEF Search!Map!Features,
     SearchPr!Map!Features
<1>12. \A f, group, own, V : Search!Map!Shown(f, group, own, V) <=> SearchPr!Map!Shown(f, group, own, V)
  BY DEF Search!Map!Shown, SearchPr!Map!Shown
<1>13. \A f, V : Search!Map!isAdministrativeFeatureVisible(f, V) <=> SearchPr!Map!isAdministrativeFeatureVisible(f, V)
  BY <1>12, <1>1 DEF Search!Map!isAdministrativeFeatureVisible,
     SearchPr!Map!isAdministrativeFeatureVisible
<1>14. \A f, V : Search!Map!isPlanningFeatureVisible(f, V) <=> SearchPr!Map!isPlanningFeatureVisible(f, V)
  BY <1>12, <1>2 DEF Search!Map!isPlanningFeatureVisible,
     SearchPr!Map!isPlanningFeatureVisible
<1>15. \A f, V : Search!Map!isFutureTransportFeatureVisible(f, V) <=> SearchPr!Map!isFutureTransportFeatureVisible(f, V)
  BY <1>12, <1>3 DEF Search!Map!isFutureTransportFeatureVisible,
     SearchPr!Map!isFutureTransportFeatureVisible
<1>16. \A f, V : Search!Map!isRiskFeatureVisible(f, V) <=> SearchPr!Map!isRiskFeatureVisible(f, V)
  BY <1>12, <1>4 DEF Search!Map!isRiskFeatureVisible, SearchPr!Map!isRiskFeatureVisible
<1>17. \A f, V : Search!Map!isAmenityFeatureVisible(f, V) <=> SearchPr!Map!isAmenityFeatureVisible(f, V)
  BY <1>6 DEF Search!Map!isAmenityFeatureVisible, SearchPr!Map!isAmenityFeatureVisible
<1>18. \A f, V : Search!Map!isInfrastructureFeatureVisible(f, V) <=> SearchPr!Map!isInfrastructureFeatureVisible(f, V)
  BY <1>12, <1>5, <1>17 DEF Search!Map!isInfrastructureFeatureVisible,
     SearchPr!Map!isInfrastructureFeatureVisible
<1>19. \A f, V : Search!Map!isFeatureVisible(f, V) <=> SearchPr!Map!isFeatureVisible(f, V)
  BY <1>13, <1>14, <1>15, <1>16, <1>18 DEF Search!Map!isFeatureVisible,
     SearchPr!Map!isFeatureVisible
<1>20. \A f, V : Search!Map!isMarkerFeatureVisible(f, V) <=> SearchPr!Map!isMarkerFeatureVisible(f, V)
  BY <1>18 DEF Search!Map!isMarkerFeatureVisible, SearchPr!Map!isMarkerFeatureVisible
<1>21. \A f, V : Search!Map!InSources(f, V) <=> SearchPr!Map!InSources(f, V)
  BY <1>13, <1>14, <1>15, <1>16 DEF Search!Map!InSources, SearchPr!Map!InSources
<1>22. Search!Map!FramedIsDrawn <=> SearchPr!Map!FramedIsDrawn
  BY <1>11, <1>19, <1>20, <1>21 DEF Search!Map!FramedIsDrawn, SearchPr!Map!FramedIsDrawn
<1>23. \A k : Search!Map!Enabled(k) <=> SearchPr!Map!Enabled(k)
  BY <1>1, <1>2, <1>3, <1>4, <1>5, <1>6, <1>7 DEF Search!Map!Enabled, SearchPr!Map!Enabled
<1> QED
  BY <1>8, <1>9, <1>23, <1>22

\* ... and the map.
LEMMA MapSame ==
    /\ Search!Map!ownVars = SearchPr!Map!ownVars
    /\ Search!Map!Init <=> SearchPr!Map!Init
    /\ \A shown, again :
          Search!Map!Follow(shown, again) <=> SearchPr!Map!Follow(shown, again)
    /\ Search!Map!Own <=> SearchPr!Map!Own
    /\ Search!Map!TypeOK <=> SearchPr!Map!TypeOK
<1>1. \A c, V : Search!Map!Drawn(c, V) = SearchPr!Map!Drawn(c, V)
  BY DEF Search!Map!Drawn, SearchPr!Map!Drawn
<1>2. Search!Map!Current = SearchPr!Map!Current
  BY <1>1 DEF Search!Map!Current, SearchPr!Map!Current
<1>3. Search!Map!ownVars = SearchPr!Map!ownVars
  BY DEF Search!Map!ownVars, SearchPr!Map!ownVars
<1>4. Search!Map!Init <=> SearchPr!Map!Init
  BY DEF Search!Map!Init, SearchPr!Map!Init
<1>5. \A c, V : Search!Map!syncMapData(c, V) <=> SearchPr!Map!syncMapData(c, V)
  BY <1>1 DEF Search!Map!syncMapData, SearchPr!Map!syncMapData
<1>6. \A c, V : Search!Map!Effect(c, V) <=> SearchPr!Map!Effect(c, V)
  BY <1>5 DEF Search!Map!Effect, SearchPr!Map!Effect
<1>7. Search!Map!Appear <=> SearchPr!Map!Appear
  BY MapTables DEF Search!Map!Appear, SearchPr!Map!Appear
<1>8. Search!Map!Disappear <=> SearchPr!Map!Disappear
  BY DEF Search!Map!Disappear, SearchPr!Map!Disappear
<1>9. Search!Map!Rerender <=> SearchPr!Map!Rerender
  BY <1>6 DEF Search!Map!Rerender, SearchPr!Map!Rerender
<1>10. \A shown, again : Search!Map!Follow(shown, again) <=> SearchPr!Map!Follow(shown, again)
  BY <1>7, <1>8, <1>9 DEF Search!Map!Follow, SearchPr!Map!Follow, Search!Map!ownVars,
     SearchPr!Map!ownVars
<1>11. \A k : Search!Map!updateVisibleLayer(k) <=> SearchPr!Map!updateVisibleLayer(k)
  BY MapTables, <1>6 DEF Search!Map!updateVisibleLayer, SearchPr!Map!updateVisibleLayer
<1>12. Search!Map!initializeMap <=> SearchPr!Map!initializeMap
  BY DEF Search!Map!initializeMap, SearchPr!Map!initializeMap
<1>13. Search!Map!LoadEvent <=> SearchPr!Map!LoadEvent
  BY <1>5 DEF Search!Map!LoadEvent, SearchPr!Map!LoadEvent
<1>14. Search!Map!syncVisibleMarkers <=> SearchPr!Map!syncVisibleMarkers
  BY <1>2 DEF Search!Map!syncVisibleMarkers, SearchPr!Map!syncVisibleMarkers
<1>15. Search!Map!Own <=> SearchPr!Map!Own
  BY <1>11, <1>12, <1>13, <1>14 DEF Search!Map!Own, SearchPr!Map!Own
<1>16. Search!Map!TypeOK <=> SearchPr!Map!TypeOK
  BY MapTables DEF Search!Map!TypeOK, SearchPr!Map!TypeOK
<1> QED
  BY <1>3, <1>4, <1>10, <1>15, <1>16

LEMMA Finite == SearchPr!IsFiniteSet(Listings)
BY SearchAssumption DEF IsFiniteSet, SearchPr!IsFiniteSet

(* The tab implements the check page, so that what is proved of it holds.    *)
THEOREM TabChecks == TabSpec => Spec
<1>1. TabInit => Init
  BY DEF TabInit
<1>2. [TabNext]_tabVars => [Next]_vars
  BY DEF TabNext, OpenCheck, SearchStep, CheckStep, tabVars
<1> QED
  BY <1>1, <1>2, PTL DEF TabSpec, Spec

(* The tab implements the search page with its map.                          *)
THEOREM TabSearches == TabSpec => SearchPr!PageSpec
<1>1. TabInit => SearchPr!PageInit
  BY SearchSame, MapSame DEF TabInit, Search!PageInit, SearchPr!PageInit
<1>2. [TabNext]_tabVars => [SearchPr!PageNext]_(SearchPr!pageVars)
  <2> SUFFICES ASSUME [TabNext]_tabVars PROVE [SearchPr!PageNext]_(SearchPr!pageVars)
    OBVIOUS
  <2> USE DEF SearchPr!pageVars, SearchPr!vars, SearchPr!listVars, SearchPr!mapVars,
              SearchPr!Map!ownVars
  <2>1. Search!ListShown' <=> SearchPr!ListShown'
    BY DEF Search!ListShown, SearchPr!ListShown, Search!Empty, SearchPr!Empty
  <2>2. CASE SearchStep
    <3>1. UNCHANGED Search!vars => UNCHANGED SearchPr!vars
      BY DEF Search!vars, Search!listVars, Search!mapVars
    <3> QED
      BY <2>1, <2>2, <3>1, SearchSame, MapSame
         DEF SearchStep, Search!PageNext, SearchPr!PageNext
  <2>3. CASE OpenCheck
    BY <2>3 DEF OpenCheck, searchVars
  <2>4. CASE CheckStep \/ UNCHANGED tabVars
    BY <2>4 DEF CheckStep, tabVars, searchVars
  <2> QED
    BY <2>2, <2>3, <2>4 DEF TabNext
<1> QED
  BY <1>1, <1>2, PTL DEF TabSpec, SearchPr!PageSpec

\* A map that is not there has left nothing behind, and neither has a page.
Blank == mapPhase = "off" => /\ visibleLayers = {} /\ sources = None /\ markers = None
                             /\ skipped = FALSE
Rests ==
    /\ at \in {"none", "search", "check"}
    /\ at # "search" => Search!PageInit
    /\ at # "check" => Init
    /\ Blank

LEMMA BlankKept == ASSUME Blank, Search!PageNext PROVE Blank'
<1>1. CASE \E again \in BOOLEAN : Search!Map!Follow(Search!ListShown', again)
  BY <1>1 DEF Blank, Search!Map!Follow, Search!Map!Appear, Search!Map!Disappear,
              Search!Map!Rerender, Search!Map!ownVars
<1>2. CASE Search!Map!Own
  BY <1>2 DEF Blank, Search!Map!Own, Search!Map!updateVisibleLayer, Search!Map!initializeMap,
              Search!Map!LoadEvent, Search!Map!syncVisibleMarkers
<1> QED
  BY <1>1, <1>2 DEF Search!PageNext

\* Leaving the search page, which no other step does, forgets its state.
LEMMA LeftBlank ==
    ASSUME Blank, Search!PageNext, at = "search", at' # "search"
    PROVE  Search!PageInit'
<1>1. ~(UNCHANGED at)
  OBVIOUS
<1>2. Search!Unmount /\ Search!Map!Follow(Search!ListShown', FALSE)
  <2>1. CASE Search!NewFeatures
    BY <1>1, <2>1 DEF Search!NewFeatures, Search!ChangeLocale, Search!MapLoaded
  <2>2. CASE UNCHANGED Search!vars
    BY <1>1, <2>2 DEF Search!vars
  <2>3. CASE Search!SameFeatures /\ Search!Map!Follow(Search!ListShown', FALSE)
    BY <1>1, <2>3
       DEF Search!SameFeatures, Search!Mount, Search!updateFilters, Search!MapFails,
           Search!resetFilters, Search!TurnPage, Search!toggleCompare, Search!Loaded,
           Search!LoadFails
  <2> QED
    BY <2>1, <2>2, <2>3 DEF Search!PageNext
<1>3. ~Search!ListShown'
  BY DEF Search!ListShown
<1>4. /\ mapPhase' = "off" /\ visibleLayers' = {} /\ sources' = None /\ markers' = None
      /\ skipped' = FALSE
  BY <1>2, <1>3
     DEF Blank, Search!Map!Follow, Search!Map!Appear, Search!Map!Disappear,
         Search!Map!Rerender, Search!Map!ownVars
<1>5. Search!Init' /\ mapData' = None
  BY <1>2 DEF Search!Unmount, Search!Init, Search!NoLoads, Search!Questions, Search!Pages
<1> QED
  BY <1>4, <1>5 DEF Search!PageInit, Search!Map!Init

LEMMA Resting == TabSpec => []Rests
<1>1. TabInit => Rests
  BY DEF TabInit, Rests, Blank, Search!PageInit, Search!Map!Init
<1>2. Rests /\ [TabNext]_tabVars => Rests'
  <2> SUFFICES ASSUME Rests, [TabNext]_tabVars PROVE Rests'
    OBVIOUS
  <2>1. ASSUME UNCHANGED searchVars, at # "search", at' # "search" PROVE Search!PageInit'
    BY <2>1 DEF Rests, searchVars, Search!PageInit, Search!Init, Search!Map!Init,
                Search!NoLoads, Search!Questions, Search!Pages
  <2>2. ASSUME UNCHANGED searchVars PROVE Blank'
    BY <2>2 DEF Rests, searchVars, Blank
  <2>3. ASSUME UNCHANGED vars, at # "check" PROVE Init'
    BY <2>3 DEF Rests, Init, vars, entryVars, shownVars, controlVars, loadVars
  <2>4. CASE OpenCheck
    BY <2>1, <2>2, <2>3, <2>4 DEF OpenCheck, Rests
  <2>5. CASE SearchStep
    <3>1. at' # "search" => Search!PageInit'
      BY <2>5, LeftBlank DEF SearchStep, Rests
    <3> QED
      BY <2>3, <2>5, <3>1, BlankKept DEF SearchStep, Rests
  <2>6. CASE CheckStep
    BY <2>1, <2>2, <2>6 DEF CheckStep, Rests
  <2>7. CASE UNCHANGED tabVars
    BY <2>1, <2>2, <2>3, <2>7 DEF tabVars, Rests
  <2> QED
    BY <2>4, <2>5, <2>6, <2>7 DEF TabNext
<1> QED
  BY <1>1, <1>2, PTL DEF TabSpec

(* The variables of both pages keep their types, the map is there exactly    *)
(* while the list is, and a page that is not shown is as it was before.      *)
THEOREM TabTypeCorrect == TabSpec => []TabTypeOK
<1>1. SearchPr!PageSpec => []SearchPr!PageTypeOK
  BY Finite, SearchAssumption, CompareAssumption, SavedAssumption, ConsoleAssumption,
     EditorAssumption, DeletionAssumption, CheckAssumption, SearchPr!PageTypeCorrect
<1>2. Rests /\ TypeOK /\ SearchPr!PageTypeOK => TabTypeOK
  BY SearchSame, MapSame DEF Rests, TabTypeOK, Search!PageTypeOK, SearchPr!PageTypeOK
<1> QED
  BY <1>1, <1>2, Resting, TabSearches, TabChecks, TypeCorrect, PTL

(* Whatever is done before the map is made, while it loads and on the way to *)
(* a check, a map that has loaded draws the filters' features and the        *)
(* switches' layers, unless its style was found not loaded.                  *)
THEOREM MapDraws == TabSpec => []MapDrawsFilters
<1>1. SearchPr!PageSpec => []SearchPr!MapDrawsFilters
  BY Finite, SearchAssumption, CompareAssumption, SavedAssumption, ConsoleAssumption,
     EditorAssumption, DeletionAssumption, CheckAssumption, SearchPr!MapDraws
<1>2. SearchPr!MapDrawsFilters => MapDrawsFilters
  BY DEF MapDrawsFilters, Search!MapDrawsFilters, SearchPr!MapDrawsFilters
<1> QED
  BY <1>1, <1>2, TabSearches, PTL

(* Whatever the switches, the map is moved to what it draws: two renderings  *)
(* of the visible features agree.                                            *)
THEOREM FramesWhatItDraws == TabSpec => []FramedIsDrawn
<1>1. SearchPr!PageSpec => []SearchPr!FramedIsDrawn
  BY Finite, SearchAssumption, CompareAssumption, SavedAssumption, ConsoleAssumption,
     EditorAssumption, DeletionAssumption, CheckAssumption, SearchPr!FramesWhatItDraws
<1>2. SearchPr!FramedIsDrawn => FramedIsDrawn
  BY MapTables DEF FramedIsDrawn, Search!FramedIsDrawn, SearchPr!FramedIsDrawn
<1> QED
  BY <1>1, <1>2, TabSearches, PTL
=============================================================================
