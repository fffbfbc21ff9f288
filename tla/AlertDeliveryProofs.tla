------------------------- MODULE AlertDeliveryProofs -------------------------
(* Proofs about AlertDelivery, for any number of alerts and runners.          *)
EXTENDS AlertDelivery, FiniteSetTheorems, TLAPS

\* What a run has read from the list was stored at that time, and rows do not
\* become "absent" again; it may have been deleted since.
ListsKnown == \A r \in Runners : \A a \in run[r].todo : alert[a] # "absent"

IInv == TypeOK /\ ListsKnown /\ JobsHaveAlerts

\* A run that moves on keeps its type, and its list only shrinks or is read anew.
LEMMA RunUpdate ==
    ASSUME TypeOK, ListsKnown, NEW r \in Runners, NEW q \in Run, UNCHANGED alert,
           \A a \in q.todo : alert[a] # "absent",
           run' = [run EXCEPT ![r] = q]
    PROVE  run' \in [Runners -> Run] /\ ListsKnown'
BY DEF TypeOK, ListsKnown

\* A runner that has nothing to do is of the right type.
LEMMA IdleIsRun == Idle \in Run /\ Idle.todo = {}
BY ConstantsAssumption DEF Idle, Run, Kinds, Times, JobStatuses

\* Going on to the next alert, or to the end of the run.
LEMMA AdvanceKeeps ==
    ASSUME TypeOK, ListsKnown, NEW r \in Runners, NEW a, UNCHANGED alert, Advance(r, a)
    PROVE  run' \in [Runners -> Run] /\ ListsKnown'
<1> DEFINE rest == run[r].todo \ {a}
           q == IF rest = {} THEN Idle ELSE [run[r] EXCEPT !.pc = "check", !.todo = rest]
<1>1. run[r] \in Run /\ \A b \in rest : alert[b] # "absent"
  BY DEF TypeOK, ListsKnown
<1>2. q \in Run /\ \A b \in q.todo : alert[b] # "absent"
  BY <1>1, IdleIsRun DEF Run
<1>3. run' = [run EXCEPT ![r] = q]
  BY DEF Advance
<1> HIDE DEF q
<1> QED
  BY <1>2, <1>3, RunUpdate

\* What a runner sends is a mail.
LEMMA MailType ==
    ASSUME TypeOK, NEW r \in Runners, NEW a \in Alerts
    PROVE  Mail(r, a) \in Mails
<1> DEFINE S == {m \in mails : m.alert = a /\ m.at = clock /\ m.by = r}
<1>1. Cardinality(S) \in Nat
  BY FS_Subset, FS_CardinalityType DEF TypeOK
<1> QED
  BY <1>1 DEF TypeOK, Mail, Mails, Senders

\* A mail once its runner r has died as the k-th, before it stored a job.
After(r, k, m) == IF run[r].pc = "save" /\ m.by = r THEN [m EXCEPT !.by = k] ELSE m

\* The mails stay as many, or fewer, when a run dies.
LEMMA Relabelled ==
    ASSUME TypeOK, NEW r \in Runners, RunFails(r)
    PROVE  /\ mails' = {After(r, failures', m) : m \in mails}
           /\ mails' \subseteq Mails /\ IsFiniteSet(mails')
<1> DEFINE f == [m \in mails |-> After(r, failures', m)]
<1>1. failures' = failures + 1 /\ failures' \in 1..MaxFailures
  BY ConstantsAssumption DEF RunFails, TypeOK
<1>2. mails' = {After(r, failures', m) : m \in mails}
  BY <1>1 DEF RunFails, After
<1>3. mails' \subseteq Mails
  <2> SUFFICES ASSUME NEW m \in mails PROVE After(r, failures', m) \in Mails
    BY <1>2
  <2> QED
    BY <1>1 DEF TypeOK, Mails, Senders, After
<1>4. f \in Surjection(mails, mails')
  BY <1>2 DEF Surjection
<1>5. IsFiniteSet(mails')
  BY <1>4, FS_Surjection DEF TypeOK
<1> QED
  BY <1>2, <1>3, <1>5

\* Every step keeps the invariant; one case per action.
LEMMA InvariantStep == IInv /\ [Next]_vars => IInv'
<1> SUFFICES ASSUME IInv, [Next]_vars PROVE IInv'
  OBVIOUS
<1>a. TypeOK /\ ListsKnown /\ JobsHaveAlerts
  BY DEF IInv
<1>b. Workers \subseteq Runners /\ Threads \subseteq Runners
  BY DEF Runners
\* An owner's action touches no run and no job.
<1>o. ASSUME NEW a \in Alerts, NEW s \in AlertStates \ {"absent"},
             alert' = [alert EXCEPT ![a] = s] \/ UNCHANGED alert,
             s = "deleted" => JobsOf(a) = {},
             discarded' \subseteq Alerts,
             UNCHANGED <<jobs, run, mails, clock, failures>>
      PROVE  IInv'
  <2>1. TypeOK'
    BY <1>a, <1>o DEF TypeOK
  <2>2. ListsKnown'
    <3>1. \A b \in Alerts : alert[b] # "absent" => alert'[b] # "absent"
      BY <1>a, <1>o DEF TypeOK
    <3>2. \A r \in Runners : run[r].todo \subseteq Alerts
      BY <1>a DEF TypeOK, Run
    <3> QED
      BY <1>a, <1>o, <3>1, <3>2 DEF ListsKnown
  <2>3. JobsHaveAlerts'
    <3> SUFFICES ASSUME NEW j \in jobs PROVE alert'[j.alert] \in {"active", "paused"}
      BY <1>o DEF JobsHaveAlerts
    <3>1. alert[j.alert] \in {"active", "paused"} /\ j.alert \in Alerts
      BY <1>a DEF JobsHaveAlerts, TypeOK
    <3>2. j.alert = a => s \in {"active", "paused"}
      BY <1>o DEF JobsOf, AlertStates
    <3> QED
      BY <1>a, <1>o, <3>1, <3>2 DEF TypeOK
  <2> QED
    BY <2>1, <2>2, <2>3 DEF IInv
\* A runner's step that leaves alerts and jobs alone.
<1>r. ASSUME UNCHANGED <<alert, discarded, jobs>>, run' \in [Runners -> Run], ListsKnown',
             mails' \subseteq Mails, IsFiniteSet(mails'), clock' \in Times,
             failures' \in 0..MaxFailures
      PROVE  IInv'
  BY <1>a, <1>r DEF IInv, TypeOK, JobsHaveAlerts
<1>1. ASSUME NEW a \in Alerts, CreateAlert(a) PROVE IInv'
  <2>1. /\ alert' = [alert EXCEPT ![a] = "active"]
        /\ UNCHANGED <<discarded, jobs, run, mails, clock, failures>>
    BY <1>1 DEF CreateAlert
  <2>2. "active" \in AlertStates \ {"absent"} /\ "active" # "deleted" /\ discarded' \subseteq Alerts
    BY <1>a, <2>1 DEF AlertStates, TypeOK
  <2> QED
    BY <1>o, <2>1, <2>2
<1>2. ASSUME NEW a \in Alerts, PauseOrResume(a) PROVE IInv'
  <2> DEFINE s == IF alert[a] = "active" THEN "paused" ELSE "active"
  <2>1. /\ alert' = [alert EXCEPT ![a] = s]
        /\ UNCHANGED <<discarded, jobs, run, mails, clock, failures>>
    BY <1>2 DEF PauseOrResume
  <2>2. s \in AlertStates \ {"absent", "deleted"}
    BY DEF AlertStates
  <2> HIDE DEF s
  <2> QED
    BY <1>a, <1>o, <2>1, <2>2 DEF TypeOK
<1>3. ASSUME NEW a \in Alerts, DeleteAlert(a) PROVE IInv'
  <2>1. discarded' \subseteq Alerts /\ UNCHANGED <<jobs, run, mails, clock, failures>>
    BY <1>a, <1>3 DEF DeleteAlert, TypeOK
  <2>2. CASE Deletable(a)
    BY <1>o, <1>3, <2>1, <2>2 DEF DeleteAlert, Deletable, AlertStates
  <2>3. CASE ~Deletable(a)
    BY <1>o, <1>3, <2>1, <2>3 DEF DeleteAlert, AlertStates
  <2> QED
    BY <2>2, <2>3
<1>4. ASSUME NEW r \in Runners, NEW kind \in Kinds, StartBatch(r, kind) PROVE IInv'
  <2> DEFINE q == [Idle EXCEPT !.pc = "check", !.kind = kind, !.todo = Listed, !.now = clock]
  <2>1. Listed \subseteq Alerts /\ \A a \in Listed : alert[a] # "absent"
    BY DEF Listed, Active
  <2>2. q \in Run /\ q.todo = Listed
    BY <1>a, <2>1, IdleIsRun DEF Run, Idle, TypeOK
  <2>3. run' = [run EXCEPT ![r] = q] /\ UNCHANGED <<alert, discarded, jobs, mails, clock, failures>>
    BY <1>4 DEF StartBatch
  <2> HIDE DEF q
  <2>4. run' \in [Runners -> Run] /\ ListsKnown'
    BY <1>a, <2>1, <2>2, <2>3, RunUpdate
  <2> QED
    BY <1>a, <1>r, <2>3, <2>4 DEF TypeOK
<1>5. ASSUME NEW r \in Runners, NEW a \in Alerts, CheckAlert(r, a) PROVE IInv'
  <2>1. UNCHANGED <<alert, discarded, jobs, mails, clock, failures>>
    BY <1>5 DEF CheckAlert
  <2>2. CASE Advance(r, a)
    BY <1>a, <1>r, <2>1, <2>2, AdvanceKeeps DEF TypeOK
  <2>3. CASE run' = [run EXCEPT ![r].pc = "send"]
    <3>1. /\ [run[r] EXCEPT !.pc = "send"] \in Run
          /\ \A b \in [run[r] EXCEPT !.pc = "send"].todo : alert[b] # "absent"
      BY <1>a DEF TypeOK, Run, ListsKnown
    <3>2. run' \in [Runners -> Run] /\ ListsKnown'
      BY <1>a, <2>1, <2>3, <3>1, RunUpdate
    <3> QED
      BY <1>a, <1>r, <2>1, <3>2 DEF TypeOK
  <2> QED
    BY <1>5, <2>2, <2>3 DEF CheckAlert
<1>6. ASSUME NEW r \in Runners, NEW a \in Alerts, NEW s \in JobStatuses, NEW m \in BOOLEAN,
             Deliver(r, a, s, m)
      PROVE  IInv'
  <2> DEFINE q == [run[r] EXCEPT !.pc = "save", !.status = s, !.at = clock]
  <2>1. q \in Run /\ \A b \in q.todo : alert[b] # "absent"
    BY <1>a DEF TypeOK, Run, ListsKnown
  <2>2. run' = [run EXCEPT ![r] = q] /\ UNCHANGED <<alert, discarded, jobs, clock, failures>>
    BY <1>6 DEF Deliver
  <2> HIDE DEF q
  <2>3. run' \in [Runners -> Run] /\ ListsKnown'
    BY <1>a, <2>1, <2>2, RunUpdate
  <2>4. mails' \subseteq Mails /\ IsFiniteSet(mails')
    <3>1. mails' = mails \/ mails' = mails \cup {Mail(r, a)}
      BY <1>6 DEF Deliver
    <3>2. Mail(r, a) \in Mails
      BY <1>a, MailType DEF TypeOK
    <3> QED
      BY <1>a, <3>1, <3>2, FS_AddElement DEF TypeOK
  <2> QED
    BY <1>a, <1>r, <2>2, <2>3, <2>4 DEF TypeOK
<1>7. ASSUME NEW r \in Runners, NEW a \in Alerts, SaveJob(r, a) PROVE IInv'
  <2>1. UNCHANGED <<alert, discarded, mails, clock, failures>> /\ a \in run[r].todo
    BY <1>7 DEF SaveJob, IsCurrent
  <2>2. CASE run' = [run EXCEPT ![r] = Idle] /\ UNCHANGED jobs
    <3>1. run' \in [Runners -> Run] /\ ListsKnown'
      BY <1>a, <2>1, <2>2, IdleIsRun, RunUpdate
    <3> QED
      BY <1>a, <1>r, <2>1, <2>2, <3>1 DEF TypeOK
  <2>3. CASE /\ alert[a] # "deleted" /\ Advance(r, a)
             /\ jobs' = jobs \cup {[alert |-> a, at |-> run[r].at, status |-> run[r].status]}
    <3>1. run' \in [Runners -> Run] /\ ListsKnown'
      BY <1>a, <2>1, <2>3, AdvanceKeeps
    <3>2. alert[a] \in {"active", "paused"}
      BY <1>a, <2>1, <2>3 DEF ListsKnown, TypeOK, AlertStates
    <3>3. JobsHaveAlerts'
      BY <1>a, <2>1, <2>3, <3>2 DEF JobsHaveAlerts
    <3>4. jobs' \subseteq [alert: Alerts, at: Times, status: JobStatuses]
      BY <1>a, <2>3 DEF TypeOK, Run
    <3>5. TypeOK'
      BY <1>a, <2>1, <3>1, <3>4 DEF TypeOK
    <3> QED
      BY <3>1, <3>3, <3>5 DEF IInv
  <2> QED
    BY <1>7, <2>2, <2>3 DEF SaveJob
<1>8. ASSUME NEW t \in Threads, NEW a \in Alerts, NEW kind \in Kinds, DeliverAlert(t, a, kind)
      PROVE  IInv'
  <2> DEFINE q == [Idle EXCEPT !.pc = "send", !.kind = kind, !.todo = {a},
                               !.active = (alert[a] = "active")]
  <2>1. alert[a] # "absent" /\ UNCHANGED <<alert, discarded, jobs, mails, clock, failures>>
    BY <1>8 DEF DeliverAlert
  <2>2. q \in Run /\ q.todo = {a}
    BY IdleIsRun DEF Run, Idle
  <2>3. run' = [run EXCEPT ![t] = q]
    BY <1>8 DEF DeliverAlert
  <2> HIDE DEF q
  <2>4. run' \in [Runners -> Run] /\ ListsKnown'
    BY <1>a, <1>b, <2>1, <2>2, <2>3, RunUpdate
  <2> QED
    BY <1>a, <1>r, <2>1, <2>4 DEF TypeOK
<1>9. ASSUME NEW r \in Runners, RunFails(r) PROVE IInv'
  <2>1. /\ UNCHANGED <<alert, discarded, jobs, clock>>
        /\ run' = [run EXCEPT ![r] = Idle] /\ failures' \in 0..MaxFailures
    BY <1>a, <1>9, ConstantsAssumption DEF RunFails, TypeOK
  <2>2. run' \in [Runners -> Run] /\ ListsKnown'
    BY <1>a, <2>1, IdleIsRun, RunUpdate
  <2>3. mails' \subseteq Mails /\ IsFiniteSet(mails')
    BY <1>a, <1>9, Relabelled DEF RunFails
  <2> QED
    BY <1>a, <1>r, <2>1, <2>2, <2>3 DEF TypeOK
<1>10. CASE Tick
  <2>1. clock' \in Times /\ UNCHANGED <<alert, discarded, jobs, run, mails, failures>>
    BY <1>a, <1>10, ConstantsAssumption DEF Tick, TypeOK, Times
  <2>2. ListsKnown'
    BY <1>a, <2>1 DEF ListsKnown
  <2> QED
    BY <1>a, <1>r, <2>1, <2>2 DEF TypeOK
<1>11. CASE UNCHANGED vars
  BY <1>a, <1>11 DEF vars, IInv, TypeOK, ListsKnown, JobsHaveAlerts, Times
<1>k. "batch" \in Kinds /\ "forced" \in Kinds /\ "owner" \in Kinds /\ "dry_run" \in Kinds
  BY DEF Kinds
<1> QED
  BY <1>b, <1>1, <1>2, <1>3, <1>4, <1>5, <1>6, <1>7, <1>8, <1>9, <1>10, <1>11, <1>k
  DEF Next, RunStep

\* The empty stores satisfy it.
LEMMA InvariantInit == Init => IInv
<1>1. Init => TypeOK
  BY ConstantsAssumption, IdleIsRun, FS_EmptySet DEF Init, TypeOK, AlertStates, Times
<1>2. Init => ListsKnown /\ JobsHaveAlerts
  BY IdleIsRun DEF Init, ListsKnown, JobsHaveAlerts
<1> QED
  BY <1>1, <1>2 DEF IInv

\* Types, lists and jobs are as the invariant says in every reachable state.
THEOREM AlertInvariant == Spec => []IInv
  BY InvariantInit, InvariantStep, PTL DEF Spec

\* Whatever runs, deletions and deliveries interleave, a stored delivery job
\* belongs to an alert that still exists: delete_alert and
\* save_alert_delivery_job are kept apart by the foreign key.
THEOREM JobsKeepTheirAlerts == Spec => []JobsHaveAlerts
<1>1. IInv => JobsHaveAlerts
  BY DEF IInv
<1> QED
  BY <1>1, AlertInvariant, PTL

\* The stores and the runs keep their types, for every instance.
THEOREM TypeCorrect == Spec => []TypeOK
<1>1. IInv => TypeOK
  BY DEF IInv
<1> QED
  BY <1>1, AlertInvariant, PTL

-----------------------------------------------------------------------------
(* The mails.                                                                *)

\* A mail has left a job, or its runner is about to store one, or the alert was
\* deleted and the runner, which lists it no more, could store none.
Recorded(m) ==
    \/ \E j \in JobsOf(m.alert) : j.at = m.at /\ j.status # "dry_run"
    \/ /\ run[m.by].pc = "save" /\ IsCurrent(m.by, m.alert)
       /\ run[m.by].at = m.at /\ run[m.by].status # "dry_run"
    \/ alert[m.alert] = "deleted" /\ m.alert \notin run[m.by].todo

\* The mails of runner r about the alert it is at are older than the cooldown.
Clear(r) == \A m \in mails :
    m.by = r /\ IsCurrent(r, m.alert) => m.at + Cooldown <= run[r].now

Apart(m, n) == m.at + Cooldown <= n.at \/ n.at + Cooldown <= m.at

SendersKnown == \A m \in mails : m.by \in Runners \cup 1..failures
MailsKept    == \A m \in mails : m.by \in Runners => Recorded(m)
RunsStarted  == \A r \in Runners : run[r].now <= clock
SendsClear   == \A r \in Runners : run[r].pc = "send" /\ run[r].kind = "batch" => Clear(r)
MailsApart   == \A m, n \in mails :
                    m.alert = n.alert /\ m.by = n.by /\ m # n => Apart(m, n)

MailInv == SendersKnown /\ MailsKept /\ RunsStarted /\ SendsClear /\ MailsApart

\* A run looks at one alert at a time: no two are of the same age.
LEMMA OneCurrent ==
    ASSUME TypeOK, NEW r \in Runners, NEW a, NEW b, IsCurrent(r, a), IsCurrent(r, b)
    PROVE  a = b
<1>1. run[r].todo \subseteq Alerts
  BY DEF TypeOK, Run
<1>2. a \in Alerts /\ b \in Alerts /\ CreatedAt[a] <= CreatedAt[b] /\ CreatedAt[b] <= CreatedAt[a]
  BY <1>1 DEF IsCurrent
<1>3. CreatedAt[a] \in Nat /\ CreatedAt[b] \in Nat
  BY <1>2, ConstantsAssumption
<1>4. CreatedAt[a] = CreatedAt[b]
  BY <1>2, <1>3
<1> QED
  BY <1>2, <1>4, ConstantsAssumption

\* What the invariant says of one mail and of one run.
LEMMA MailFacts ==
    ASSUME TypeOK, NEW m \in mails
    PROVE  m.alert \in Alerts /\ m.at \in Nat /\ m.by \in Senders
BY ConstantsAssumption DEF TypeOK, Mails, Times

LEMMA RunFacts ==
    ASSUME TypeOK, NEW r \in Runners
    PROVE  /\ run[r].todo \subseteq Alerts /\ run[r].now \in Nat /\ run[r].at \in Nat
           /\ run[r].kind \in Kinds /\ run[r].status \in JobStatuses
           /\ run[r] \in Run
BY ConstantsAssumption DEF TypeOK, Run, Times

\* A mail stays recorded while its runner keeps its place, or has sent another: jobs are
\* only added, and a deleted alert stays so.
LEMMA RecordedStable ==
    ASSUME NEW m, Recorded(m), jobs \subseteq jobs',
           alert[m.alert] = "deleted" => alert'[m.alert] = "deleted",
           run'[m.by] = run[m.by]
    PROVE  Recorded(m)'
BY DEF Recorded, JobsOf, IsCurrent

\* The same when the runner moves on to another run, without the alert if it is gone.
LEMMA RecordedMoves ==
    ASSUME NEW m, Recorded(m), jobs \subseteq jobs',
           alert[m.alert] = "deleted" => alert'[m.alert] = "deleted",
           run[m.by].pc # "save" \/ ~IsCurrent(m.by, m.alert),
           alert[m.alert] = "deleted" /\ m.alert \notin run[m.by].todo
               => m.alert \notin run'[m.by].todo
    PROVE  Recorded(m)'
BY DEF Recorded, JobsOf

\* A step that sends nothing, and in which no run starts, is about to send or stores a job.
LEMMA MailsUntouched ==
    ASSUME MailInv, UNCHANGED <<run, mails>>, jobs \subseteq jobs', failures' = failures,
           \A a \in Alerts : alert[a] = "deleted" => alert'[a] = "deleted",
           TypeOK, clock' \in {clock, clock + 1}
    PROVE  MailInv'
<1>1. SendersKnown' /\ SendsClear' /\ MailsApart'
  BY DEF MailInv, SendersKnown, SendsClear, MailsApart, Clear, Apart, IsCurrent
<1>2. MailsKept'
  <2> SUFFICES ASSUME NEW m \in mails, m.by \in Runners PROVE Recorded(m)'
    BY DEF MailsKept
  <2>1. Recorded(m) /\ m.alert \in Alerts
    BY MailFacts DEF MailInv, MailsKept
  <2> QED
    BY <2>1, RecordedStable
<1>3. RunsStarted'
  <2> SUFFICES ASSUME NEW r \in Runners PROVE run[r].now <= clock'
    BY DEF RunsStarted
  <2>1. run[r].now <= clock /\ run[r].now \in Nat /\ clock \in Nat
    BY RunFacts, ConstantsAssumption DEF MailInv, RunsStarted, TypeOK, Times
  <2> QED
    BY <2>1
<1> QED
  BY <1>1, <1>2, <1>3 DEF MailInv

\* A runner that moves on without sending keeps the invariant, if its mails stay recorded,
\* and those about the alert it turns to are old enough when it is going to send.
LEMMA RunnerMoves ==
    ASSUME TypeOK, MailInv, NEW r \in Runners, NEW q \in Run,
           run' = [run EXCEPT ![r] = q], jobs \subseteq jobs',
           UNCHANGED <<alert, mails, clock, failures>>,
           q.now <= clock,
           q.pc = "send" /\ q.kind = "batch" => Clear(r)',
           \A m \in mails : m.by = r => Recorded(m)'
    PROVE  MailInv'
<1>1. run'[r] = q /\ \A g \in Runners \ {r} : run'[g] = run[g]
  BY DEF TypeOK
<1>2. SendersKnown' /\ MailsApart'
  BY DEF MailInv, SendersKnown, MailsApart, Apart
<1>3. MailsKept'
  <2> SUFFICES ASSUME NEW m \in mails, m.by \in Runners PROVE Recorded(m)'
    BY DEF MailsKept
  <2>1. CASE m.by = r
    BY <2>1
  <2>2. CASE m.by # r
    BY <1>1, <2>2, RecordedStable DEF MailInv, MailsKept
  <2> QED
    BY <2>1, <2>2
<1>4. RunsStarted'
  BY <1>1 DEF MailInv, RunsStarted
<1>5. SendsClear'
  <2> SUFFICES ASSUME NEW g \in Runners, run'[g].pc = "send", run'[g].kind = "batch"
               PROVE  Clear(g)'
    BY DEF SendsClear
  <2>1. CASE g = r
    BY <1>1, <2>1
  <2>2. CASE g # r
    BY <1>1, <2>2 DEF MailInv, SendsClear, Clear, IsCurrent
  <2> QED
    BY <2>1, <2>2
<1> QED
  BY <1>2, <1>3, <1>4, <1>5 DEF MailInv

\* Going on to the next alert, or to the end of the run.
LEMMA RunAdvances ==
    ASSUME TypeOK, MailInv, NEW r \in Runners, NEW a, Advance(r, a), jobs \subseteq jobs',
           UNCHANGED <<alert, mails, clock, failures>>,
           \A m \in mails : m.by = r => Recorded(m)'
    PROVE  MailInv'
<1> DEFINE rest == run[r].todo \ {a}
           q == IF rest = {} THEN Idle ELSE [run[r] EXCEPT !.pc = "check", !.todo = rest]
<1>1. run' = [run EXCEPT ![r] = q]
  BY DEF Advance
<1>2. q \in Run /\ q.pc # "send"
  BY RunFacts, IdleIsRun DEF Run, Idle
<1>3. q.now <= clock
  <2>1. run[r].now <= clock /\ clock \in Nat
    BY ConstantsAssumption DEF MailInv, RunsStarted, TypeOK, Times
  <2>2. q.now = 0 \/ q.now = run[r].now
    BY RunFacts DEF Idle, Run
  <2> QED
    BY <2>1, <2>2
<1> HIDE DEF q
<1> QED
  BY <1>1, <1>2, <1>3, RunnerMoves

\* What a run that moves on has left to do was there before.
LEMMA RestOfList ==
    ASSUME TypeOK, NEW r \in Runners, NEW a, Advance(r, a)
    PROVE  run'[r].todo \subseteq run[r].todo \ {a}
<1> DEFINE rest == run[r].todo \ {a}
<1>1. CASE rest = {}
  BY <1>1, IdleIsRun DEF Advance, TypeOK
<1>2. CASE rest # {}
  BY <1>2, RunFacts DEF Advance, TypeOK, Run
<1> QED
  BY <1>1, <1>2

LEMMA StartBatchKeepsMails ==
    ASSUME TypeOK, MailInv, NEW r \in Runners, NEW kind \in Kinds, StartBatch(r, kind)
    PROVE  MailInv'
<1> DEFINE q == [Idle EXCEPT !.pc = "check", !.kind = kind, !.todo = Listed, !.now = clock]
<1>1. /\ run[r].pc = "idle" /\ run' = [run EXCEPT ![r] = q]
      /\ UNCHANGED <<alert, discarded, jobs, mails, clock, failures>>
  BY DEF StartBatch
<1>2. q \in Run /\ q.pc = "check" /\ q.now = clock /\ q.todo = Listed
  BY IdleIsRun DEF Run, Idle, TypeOK, Listed, Active
<1> HIDE DEF q
<1>3. clock <= clock
  BY ConstantsAssumption DEF TypeOK, Times
<1>4. ASSUME NEW m \in mails, m.by = r PROVE Recorded(m)'
  <2>1. Recorded(m) /\ run'[m.by].todo = Listed
    BY <1>1, <1>2, <1>4 DEF MailInv, MailsKept, TypeOK
  <2>2. alert[m.alert] = "deleted" => m.alert \notin Listed
    BY DEF Listed, Active
  <2> QED
    BY <1>1, <1>4, <2>1, <2>2, RecordedMoves
<1> QED
  BY <1>1, <1>2, <1>3, <1>4, RunnerMoves

LEMMA DeliverAlertKeepsMails ==
    ASSUME TypeOK, MailInv, NEW t \in Threads, NEW a \in Alerts,
           NEW kind \in {"owner", "dry_run"}, DeliverAlert(t, a, kind)
    PROVE  MailInv'
<1> DEFINE q == [Idle EXCEPT !.pc = "send", !.kind = kind, !.todo = {a},
                             !.active = (alert[a] = "active")]
<1>1. /\ run[t].pc = "idle" /\ run' = [run EXCEPT ![t] = q] /\ alert[a] # "deleted"
      /\ UNCHANGED <<alert, discarded, jobs, mails, clock, failures>>
  BY DEF DeliverAlert
<1>2. q \in Run /\ q.kind # "batch" /\ q.now = 0 /\ q.todo = {a}
  BY IdleIsRun DEF Run, Idle, Kinds
<1> HIDE DEF q
<1>3. 0 <= clock /\ t \in Runners
  BY ConstantsAssumption DEF TypeOK, Times, Runners
<1>4. ASSUME NEW m \in mails, m.by = t PROVE Recorded(m)'
  <2>1. Recorded(m) /\ run'[m.by].todo = {a}
    BY <1>1, <1>2, <1>3, <1>4 DEF MailInv, MailsKept, TypeOK
  <2> QED
    BY <1>1, <1>4, <2>1, RecordedMoves
<1> QED
  BY <1>1, <1>2, <1>3, <1>4, RunnerMoves

\* The cooldown is tested against the jobs, and every mail of the runner has left one.
LEMMA CheckAlertKeepsMails ==
    ASSUME TypeOK, MailInv, NEW r \in Runners, NEW a \in Alerts, CheckAlert(r, a)
    PROVE  MailInv'
<1>1. /\ run[r].pc = "check" /\ IsCurrent(r, a) /\ a \in run[r].todo
      /\ UNCHANGED <<alert, discarded, jobs, mails, clock, failures>>
  BY DEF CheckAlert, IsCurrent
<1>2. \A m \in mails : m.by = r => Recorded(m)
  BY DEF MailInv, MailsKept
<1>3. CASE Advance(r, a)
  <2>1. \A m \in mails : m.by = r => Recorded(m)'
    BY <1>1, <1>2, <1>3, RestOfList, RecordedMoves
  <2> QED
    BY <1>1, <1>3, <2>1, RunAdvances
<1>4. CASE /\ run' = [run EXCEPT ![r].pc = "send"]
           /\ ~(run[r].kind = "batch" /\ InsideCooldown(r, a))
  <2> DEFINE q == [run[r] EXCEPT !.pc = "send"]
  <2>1. /\ q \in Run /\ q.now = run[r].now /\ q.kind = run[r].kind
        /\ q.todo = run[r].todo /\ run' = [run EXCEPT ![r] = q]
    BY <1>4, RunFacts DEF Run
  <2> HIDE DEF q
  <2>2. run'[r] = q
    BY <2>1 DEF TypeOK
  <2>3. \A m \in mails : m.by = r => Recorded(m)'
    BY <1>1, <1>2, <2>1, <2>2, RecordedMoves
  <2>4. ASSUME run[r].kind = "batch" PROVE Clear(r)'
    <3> SUFFICES ASSUME NEW m \in mails, m.by = r, IsCurrent(r, m.alert)
                 PROVE  m.at + Cooldown <= run[r].now
      BY <1>1, <2>1, <2>2 DEF Clear, IsCurrent
    <3>1. m.alert = a
      BY <1>1, OneCurrent
    <3>2. PICK j \in JobsOf(a) : j.at = m.at /\ j.status # "dry_run"
      BY <1>1, <1>2, <3>1 DEF Recorded
    <3>3. ~(m.at + Cooldown > run[r].now)
      BY <1>4, <2>4, <3>2 DEF InsideCooldown
    <3> QED
      BY <3>3, MailFacts, RunFacts, ConstantsAssumption
  <2>5. q.now <= clock
    BY <2>1 DEF MailInv, RunsStarted
  <2> QED
    BY <1>1, <2>1, <2>3, <2>4, <2>5, RunnerMoves
<1> QED
  BY <1>3, <1>4 DEF CheckAlert

\* The job is the mail's record; without the alert there is none, and no other mail.
LEMMA SaveJobKeepsMails ==
    ASSUME TypeOK, MailInv, NEW r \in Runners, NEW a \in Alerts, SaveJob(r, a)
    PROVE  MailInv'
<1> DEFINE job == [alert |-> a, at |-> run[r].at, status |-> run[r].status]
<1>1. /\ IsCurrent(r, a) /\ UNCHANGED <<alert, discarded, mails, clock, failures>>
  BY DEF SaveJob
<1>2. \A m \in mails : m.by = r => Recorded(m)
  BY DEF MailInv, MailsKept
<1>3. CASE /\ alert[a] = "deleted" /\ run' = [run EXCEPT ![r] = Idle] /\ UNCHANGED jobs
  <2>1. run'[r] = Idle
    BY <1>3 DEF TypeOK
  <2>2. ASSUME NEW m \in mails, m.by = r PROVE Recorded(m)'
    <3>1. CASE IsCurrent(r, m.alert)
      <4>1. m.alert = a
        BY <1>1, <3>1, OneCurrent
      <4> QED
        BY <1>1, <1>3, <2>1, <2>2, <4>1, IdleIsRun DEF Recorded
    <3>2. CASE ~IsCurrent(r, m.alert)
      BY <1>1, <1>2, <1>3, <2>1, <2>2, <3>2, IdleIsRun, RecordedMoves
    <3> QED
      BY <3>1, <3>2
  <2>3. Idle.now <= clock /\ Idle.pc # "send"
    BY ConstantsAssumption DEF Idle, TypeOK, Times
  <2> QED
    BY <1>1, <1>3, <2>2, <2>3, IdleIsRun, RunnerMoves
<1>4. CASE jobs' = jobs \cup {job} /\ Advance(r, a)
  <2>1. ASSUME NEW m \in mails, m.by = r PROVE Recorded(m)'
    <3>1. CASE IsCurrent(r, m.alert) /\ run[r].at = m.at /\ run[r].status # "dry_run"
      <4>1. m.alert = a
        BY <1>1, <3>1, OneCurrent
      <4>2. job \in jobs' /\ job.alert = a /\ job.at = m.at /\ job.status # "dry_run"
        BY <1>4, <3>1
      <4>3. \E j \in JobsOf(m.alert)' : j.at = m.at /\ j.status # "dry_run"
        BY <4>1, <4>2 DEF JobsOf
      <4> QED
        BY <1>1, <4>3 DEF Recorded
    <3>2. CASE ~(IsCurrent(r, m.alert) /\ run[r].at = m.at /\ run[r].status # "dry_run")
      <4>1. CASE \E j \in JobsOf(m.alert) : j.at = m.at /\ j.status # "dry_run"
        BY <1>1, <1>4, <4>1 DEF Recorded, JobsOf
      <4>2. CASE alert[m.alert] = "deleted" /\ m.alert \notin run[r].todo
        BY <1>1, <1>4, <2>1, <4>2, RestOfList DEF Recorded
      <4> QED
        BY <1>2, <2>1, <3>2, <4>1, <4>2 DEF Recorded
    <3> QED
      BY <3>1, <3>2
  <2> QED
    BY <1>1, <1>4, <2>1, RunAdvances
<1> QED
  BY <1>3, <1>4 DEF SaveJob

\* The runner's earlier mails about the alert are a cooldown older than the new one, which
\* it is about to record.
LEMMA DeliverKeepsMails ==
    ASSUME TypeOK, MailInv, NEW r \in Runners, NEW a \in Alerts, NEW s \in JobStatuses,
           NEW mailed \in BOOLEAN, Deliver(r, a, s, mailed)
    PROVE  MailInv'
<1> DEFINE q == [run[r] EXCEPT !.pc = "save", !.status = s, !.at = clock]
<1>1. /\ run[r].pc = "send" /\ IsCurrent(r, a) /\ run' = [run EXCEPT ![r] = q]
      /\ UNCHANGED <<alert, discarded, jobs, clock, failures>>
  BY DEF Deliver
<1>2. /\ q \in Run /\ q.pc = "save" /\ q.status = s /\ q.at = clock
      /\ q.now = run[r].now /\ q.todo = run[r].todo /\ q.kind = run[r].kind
  BY RunFacts DEF Run, TypeOK
<1> HIDE DEF q
<1>3. run'[r] = q /\ \A g \in Runners \ {r} : run'[g] = run[g]
  BY <1>1 DEF TypeOK
<1>4. ASSUME NEW m \in mails, m.by \in Runners PROVE Recorded(m)'
  <2>1. Recorded(m)
    BY <1>4 DEF MailInv, MailsKept
  <2>2. CASE m.by = r
    BY <1>1, <1>2, <1>3, <2>1, <2>2, RecordedMoves
  <2>3. CASE m.by # r
    BY <1>1, <1>3, <1>4, <2>1, <2>3, RecordedStable
  <2> QED
    BY <2>2, <2>3
<1>5. RunsStarted'
  BY <1>1, <1>2, <1>3 DEF MailInv, RunsStarted
<1>6. CASE mails' = mails
  <2>1. SendersKnown' /\ MailsKept' /\ MailsApart'
    BY <1>1, <1>4, <1>6 DEF MailInv, SendersKnown, MailsKept, MailsApart, Apart
  <2>2. SendsClear'
    BY <1>2, <1>3, <1>6 DEF MailInv, SendsClear, Clear, IsCurrent
  <2> QED
    BY <1>5, <2>1, <2>2 DEF MailInv
<1>7. CASE mails' # mails
  <2>1. mails' = mails \cup {Mail(r, a)} /\ s # "dry_run" /\ run[r].kind = "batch"
    BY <1>7 DEF Deliver
  <2>2. PICK n : n = Mail(r, a)
    OBVIOUS
  <2>3. n.alert = a /\ n.at = clock /\ n.by = r /\ mails' = mails \cup {n}
    BY <2>1, <2>2 DEF Mail
  <2>4. Recorded(n)'
    BY <1>1, <1>2, <1>3, <2>1, <2>3 DEF Recorded, IsCurrent
  <2>5. ASSUME NEW m \in mails, m.alert = a, m.by = r PROVE m.at + Cooldown <= n.at
    <3>1. m.at + Cooldown <= run[r].now
      BY <1>1, <2>1, <2>5 DEF MailInv, SendsClear, Clear
    <3>2. run[r].now <= clock /\ clock \in Nat
      BY ConstantsAssumption DEF MailInv, RunsStarted, TypeOK, Times
    <3> QED
      BY <2>3, <3>1, <3>2, MailFacts, RunFacts, ConstantsAssumption
  <2>6. SendersKnown' /\ MailsKept'
    BY <1>1, <1>4, <2>3, <2>4 DEF MailInv, SendersKnown, MailsKept
  <2>7. MailsApart'
    BY <2>3, <2>5 DEF MailInv, MailsApart, Apart
  <2>8. SendsClear'
    <3> SUFFICES ASSUME NEW g \in Runners, run'[g].pc = "send", run'[g].kind = "batch"
                 PROVE  Clear(g)'
      BY DEF SendsClear
    <3>1. g # r /\ Clear(g)
      BY <1>2, <1>3 DEF MailInv, SendsClear
    <3> QED
      BY <1>3, <2>3, <3>1 DEF Clear, IsCurrent
  <2> QED
    BY <1>5, <2>6, <2>7, <2>8 DEF MailInv
<1> QED
  BY <1>6, <1>7

\* The mails a run had not recorded when it died are those of a sender of their own.
LEMMA RunFailsKeepsMails ==
    ASSUME TypeOK, MailInv, NEW r \in Runners, RunFails(r)
    PROVE  MailInv'
<1> DEFINE k == failures'
<1>1. /\ k = failures + 1 /\ failures \in Nat /\ run' = [run EXCEPT ![r] = Idle]
      /\ UNCHANGED <<alert, discarded, jobs, clock>>
  BY ConstantsAssumption DEF RunFails, TypeOK
<1>2. mails' = {After(r, k, m) : m \in mails}
  BY Relabelled
<1>3. run'[r] = Idle /\ \A g \in Runners \ {r} : run'[g] = run[g]
  BY <1>1 DEF TypeOK
<1> HIDE DEF k
<1>4. k \in 1..k /\ 1..failures \subseteq 1..k /\ k \notin 1..failures /\ k \notin Runners
  BY <1>1, ConstantsAssumption
<1>5. \A m \in mails : After(r, k, m).alert = m.alert /\ After(r, k, m).at = m.at
  BY DEF After, TypeOK, Mails
<1>6. \A m \in mails : After(r, k, m).by
                         = IF run[r].pc = "save" /\ m.by = r THEN k ELSE m.by
  BY DEF After, TypeOK, Mails
<1>7. SendersKnown'
  <2> SUFFICES ASSUME NEW m \in mails PROVE After(r, k, m).by \in Runners \cup 1..k
    BY <1>2 DEF SendersKnown, k
  <2>1. m.by \in Runners \cup 1..failures
    BY DEF MailInv, SendersKnown
  <2> QED
    BY <1>4, <1>6, <2>1
<1>8. MailsKept'
  <2> SUFFICES ASSUME NEW m \in mails', m.by \in Runners PROVE Recorded(m)'
    BY DEF MailsKept
  <2>1. PICK n \in mails : m = After(r, k, n)
    BY <1>2
  <2>2. m = n /\ ~(run[r].pc = "save" /\ m.by = r)
    BY <1>4, <1>6, <2>1 DEF After
  <2>3. Recorded(m)
    BY <2>2 DEF MailInv, MailsKept
  <2>4. CASE m.by = r
    BY <1>1, <1>3, <2>2, <2>3, <2>4, IdleIsRun, RecordedMoves
  <2>5. CASE m.by # r
    BY <1>1, <1>3, <2>3, <2>5, RecordedStable
  <2> QED
    BY <2>4, <2>5
<1>9. RunsStarted'
  <2>1. clock >= 0
    BY ConstantsAssumption DEF TypeOK, Times
  <2> QED
    BY <1>1, <1>3, <2>1 DEF MailInv, RunsStarted, Idle
<1>10. SendsClear'
  <2> SUFFICES ASSUME NEW g \in Runners, run'[g].pc = "send", run'[g].kind = "batch",
                      NEW m \in mails', m.by = g, IsCurrent(g, m.alert)'
               PROVE  m.at + Cooldown <= run'[g].now
    BY DEF SendsClear, Clear
  <2>1. g # r /\ run'[g] = run[g]
    BY <1>3 DEF Idle
  <2>2. PICK n \in mails : m = After(r, k, n)
    BY <1>2
  <2>3. m = n
    BY <1>4, <1>6, <2>1, <2>2 DEF After
  <2> QED
    BY <2>1, <2>3 DEF MailInv, SendsClear, Clear, IsCurrent
<1>11. MailsApart'
  <2> SUFFICES ASSUME NEW m \in mails, NEW n \in mails,
                      After(r, k, m).alert = After(r, k, n).alert,
                      After(r, k, m).by = After(r, k, n).by,
                      After(r, k, m) # After(r, k, n)
               PROVE  Apart(After(r, k, m), After(r, k, n))
    BY <1>2 DEF MailsApart, Apart
  <2>1. m.by \in Runners \cup 1..failures /\ n.by \in Runners \cup 1..failures
    BY DEF MailInv, SendersKnown
  <2>2. m.by = n.by /\ m.alert = n.alert /\ m # n
    BY <1>4, <1>5, <1>6, <2>1
  <2> QED
    BY <1>5, <2>2 DEF MailInv, MailsApart, Apart
<1> QED
  BY <1>7, <1>8, <1>9, <1>10, <1>11 DEF MailInv

\* Every step keeps what is known of the mails.
LEMMA MailStep == IInv /\ MailInv /\ [Next]_vars => MailInv'
<1> SUFFICES ASSUME TypeOK, MailInv, [Next]_vars PROVE MailInv'
  BY DEF IInv
<1>1. ASSUME NEW a \in Alerts, CreateAlert(a) \/ PauseOrResume(a) \/ DeleteAlert(a)
      PROVE  MailInv'
  <2>1. UNCHANGED <<jobs, run, mails, clock, failures>>
    BY <1>1 DEF CreateAlert, PauseOrResume, DeleteAlert
  <2>2. \A b \in Alerts : alert[b] = "deleted" => alert'[b] = "deleted"
    BY <1>1 DEF CreateAlert, PauseOrResume, DeleteAlert, TypeOK
  <2> QED
    BY <2>1, <2>2, MailsUntouched
<1>2. CASE Tick
  BY <1>2, MailsUntouched DEF Tick
<1>3. CASE UNCHANGED vars
  BY <1>3, MailsUntouched DEF vars
<1>4. Workers \subseteq Runners /\ Threads \subseteq Runners /\ "batch" \in Kinds /\ "forced" \in Kinds
  BY DEF Runners, Kinds
<1> QED
  BY <1>1, <1>2, <1>3, <1>4, StartBatchKeepsMails, DeliverAlertKeepsMails,
     CheckAlertKeepsMails, DeliverKeepsMails, SaveJobKeepsMails, RunFailsKeepsMails
  DEF Next, RunStep

LEMMA MailInit == Init => MailInv
BY ConstantsAssumption, IdleIsRun
DEF Init, MailInv, SendersKnown, MailsKept, RunsStarted, SendsClear, MailsApart, Idle

\* Every mail is recorded, and those of one sender about one alert are a cooldown apart.
THEOREM MailInvariant == Spec => [](IInv /\ MailInv)
<1>1. IInv /\ MailInv /\ [Next]_vars => (IInv /\ MailInv)'
  BY InvariantStep, MailStep
<1> QED
  BY <1>1, InvariantInit, MailInit, PTL DEF Spec

\* A mail whose runner went on has left a job of its time, unless the alert is gone: the
\* job that save_alert_delivery_job writes after the mail is never skipped or lost.
THEOREM MailsAreRecorded == Spec => []MailsRecorded
<1>1. MailInv => MailsRecorded
  BY DEF MailInv, MailsKept, Recorded, MailsRecorded
<1> QED
  BY <1>1, MailInvariant, PTL

\* In a cooldown's length every sender has at most one mail of an alert, and there are as
\* many senders as runners and runs that died.
LEMMA OneMailPerSender ==
    ASSUME TypeOK, MailInv, NEW a \in Alerts, NEW t \in Times
    PROVE  Cardinality(MailsIn(a, t)) <= Cardinality(Runners) + failures
<1> DEFINE S == MailsIn(a, t)
           T == Runners \cup 1..failures
           f == [m \in S |-> m.by]
<1>1. S \subseteq mails /\ IsFiniteSet(S)
  BY FS_Subset DEF MailsIn, TypeOK
<1>2. failures \in Nat /\ Cooldown \in Nat \ {0} /\ IsFiniteSet(Runners)
  BY ConstantsAssumption DEF TypeOK
<1>3. IsFiniteSet(1..failures) /\ Cardinality(1..failures) = failures
  BY <1>2, FS_Interval
<1>4. IsFiniteSet(T) /\ Cardinality(T) <= Cardinality(Runners) + failures
  <2>1. /\ IsFiniteSet(T)
        /\ Cardinality(T) = Cardinality(Runners) + failures - Cardinality(Runners \cap 1..failures)
    BY <1>2, <1>3, FS_Union
  <2>2. Cardinality(Runners \cap 1..failures) \in Nat /\ Cardinality(Runners) \in Nat
    BY <1>2, <1>3, FS_Intersection, FS_CardinalityType
  <2> QED
    BY <1>2, <2>1, <2>2
<1>5. ASSUME NEW m \in S, NEW n \in S, m.by = n.by PROVE m = n
  <2>1. /\ m.alert = n.alert /\ m.at < t + Cooldown /\ n.at < t + Cooldown
        /\ t <= m.at /\ t <= n.at
    BY DEF MailsIn, Window
  <2>2. m.at \in Nat /\ n.at \in Nat /\ t \in Nat
    BY <1>1, MailFacts, ConstantsAssumption DEF Times
  <2>3. ~Apart(m, n)
    BY <1>2, <2>1, <2>2 DEF Apart
  <2> QED
    BY <1>1, <1>5, <2>1, <2>3 DEF MailInv, MailsApart
<1>6. f \in Injection(S, T)
  BY <1>1, <1>5 DEF MailInv, SendersKnown, Injection, IsInjective
<1>7. Cardinality(S) <= Cardinality(T)
  BY <1>4, <1>6, FS_Injection
<1>8. Cardinality(S) \in Nat /\ Cardinality(T) \in Nat /\ Cardinality(Runners) \in Nat
  BY <1>1, <1>2, <1>4, FS_CardinalityType
<1> QED
  BY <1>2, <1>4, <1>7, <1>8

\* The cooldown bounds the mails of an alert, however many runners there are and whatever
\* they do at the same time.
THEOREM RepeatsAreBounded == Spec => []RepeatsBounded
<1>1. IInv /\ MailInv => RepeatsBounded
  BY OneMailPerSender DEF IInv, RepeatsBounded
<1> QED
  BY <1>1, MailInvariant, PTL
=============================================================================
