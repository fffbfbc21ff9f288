---------------------------- MODULE AlertDelivery ----------------------------
(***************************************************************************)
(* Daily email alerts: the worker's batch, the same batch started by an    *)
(* admin, and deliveries the owner asks for, over the PostgreSQL user      *)
(* store.                                                                  *)
(*                                                                         *)
(* A run lists the active alerts once.  For each of them it reads the      *)
(* latest delivery job, and unless that one is younger than the cooldown   *)
(* it sends the mail and then stores a job.  The job row is the only trace *)
(* of a mail, and it is written after the mail has left.                   *)
(***************************************************************************)
EXTENDS Naturals, FiniteSets

CONSTANTS
    Alerts,      \* alerts with channel email and frequency daily
    CreatedAt,   \* order in which they are created
    Workers,     \* `domarion worker` processes
    Threads,     \* API thread-pool slots
    Limit,       \* alerts one run looks at
    Cooldown,    \* DAILY_ALERT_COOLDOWN, in ticks of the clock
    MaxTime,     \* bound on the clock
    MaxFailures  \* bound on runs that die

Runners == Workers \cup Threads
Times   == 0..MaxTime

ASSUME ConstantsAssumption ==
    /\ IsFiniteSet(Alerts) /\ IsFiniteSet(Runners)
    /\ Workers \cap Threads = {} /\ Runners \cap Nat = {}
    /\ CreatedAt \in [Alerts -> Nat]
    /\ \A a, b \in Alerts : CreatedAt[a] = CreatedAt[b] => a = b
    /\ Limit \in Nat \ {0} /\ Cooldown \in Nat \ {0}
    /\ MaxTime \in Nat /\ MaxFailures \in Nat

VARIABLES
    alert,     \* user_alerts: what has become of each alert
    discarded, \* alerts whose owner has called DELETE
    jobs,      \* alert_delivery_jobs
    run,       \* what each runner is doing
    mails,     \* history: the mails of unforced batches
    clock,
    failures   \* runs that died so far

vars == <<alert, discarded, jobs, run, mails, clock, failures>>

AlertStates == {"absent", "active", "paused", "deleted"}
\* "unsent" stands for both "failed" and "skipped".
JobStatuses == {"sent", "unsent", "dry_run"}
Kinds       == {"batch", "forced", "owner", "dry_run"}

\* `todo` are the alerts of the list still to handle, `active` whether they
\* were active when they were read; `status` and `at` are those of the job
\* the run is about to store.
Run  == [pc: {"idle", "check", "send", "save"}, kind: Kinds, todo: SUBSET Alerts,
         active: BOOLEAN, now: Times, status: JobStatuses, at: Times]
Idle == [pc |-> "idle", kind |-> "batch", todo |-> {}, active |-> TRUE,
         now |-> 0, status |-> "unsent", at |-> 0]

\* `by` is the runner; once the runner has died between a mail and its job, the number of
\* that death, so that what it does afterwards counts as another runner's.  Equal mails
\* are told apart by `no`.
Senders == Runners \cup 1..MaxFailures
Mails   == [alert: Alerts, at: Times, by: Senders, no: Nat]

TypeOK ==
    /\ alert \in [Alerts -> AlertStates]
    /\ discarded \subseteq Alerts
    /\ jobs \subseteq [alert: Alerts, at: Times, status: JobStatuses]
    /\ run \in [Runners -> Run]
    /\ mails \subseteq Mails /\ IsFiniteSet(mails)
    /\ clock \in Times
    /\ failures \in 0..MaxFailures

Init ==
    /\ alert = [a \in Alerts |-> "absent"]
    /\ discarded = {}
    /\ jobs = {}
    /\ run = [r \in Runners |-> Idle]
    /\ mails = {}
    /\ clock = 0
    /\ failures = 0

-----------------------------------------------------------------------------
(* The alerts, as their owners manage them.                                 *)

CreateAlert(a) ==
    /\ alert[a] = "absent"
    /\ \A b \in Alerts : CreatedAt[b] < CreatedAt[a] => alert[b] # "absent"
    /\ alert' = [alert EXCEPT ![a] = "active"]
    /\ UNCHANGED <<discarded, jobs, run, mails, clock, failures>>

PauseOrResume(a) ==
    /\ alert[a] \in {"active", "paused"}
    /\ alert' = [alert EXCEPT ![a] = IF @ = "active" THEN "paused" ELSE "active"]
    /\ UNCHANGED <<discarded, jobs, run, mails, clock, failures>>

\* alert_delivery_jobs.alert_id references the row without ON DELETE: the
\* DELETE of an alert that has a job violates the foreign key and is undone.
JobsOf(a)     == {j \in jobs : j.alert = a}
\* Mutant of Deletable: the foreign key does not guard the alert.
MutantDeletable(a) == TRUE

Deletable(a)  == JobsOf(a) = {}
DeleteAlert(a) ==
    /\ alert[a] \in {"active", "paused"}
    /\ alert' = IF Deletable(a) THEN [alert EXCEPT ![a] = "deleted"] ELSE alert
    /\ discarded' = discarded \cup {a}
    /\ UNCHANGED <<jobs, run, mails, clock, failures>>

-----------------------------------------------------------------------------
(* run_daily_email_alert_delivery                                           *)

Active == {a \in Alerts : alert[a] = "active"}

\* Mutant of Listed: off by one, the limit counts the alert itself.
MutantListed == {a \in Active :
                    Cardinality({b \in Active : CreatedAt[b] >= CreatedAt[a]}) < Limit}

\* list_all_alerts: the newest `Limit` of them.
Listed == {a \in Active :
              Cardinality({b \in Active : CreatedAt[b] > CreatedAt[a]}) < Limit}

\* The alert a run is at: the list is ordered by creation, newest first.
IsCurrent(r, a) == /\ a \in run[r].todo
                   /\ \A b \in run[r].todo : CreatedAt[b] <= CreatedAt[a]

StartBatch(r, kind) ==
    /\ run[r].pc = "idle"
    /\ Listed # {}
    /\ run' = [run EXCEPT ![r] = [Idle EXCEPT !.pc = "check", !.kind = kind,
                                              !.todo = Listed, !.now = clock]]
    /\ UNCHANGED <<alert, discarded, jobs, mails, clock, failures>>

\* Done with alert a: on to the next one, or the end of the run.
Advance(r, a) ==
    LET rest == run[r].todo \ {a} IN
    run' = [run EXCEPT ![r] = IF rest = {} THEN Idle
                              ELSE [@ EXCEPT !.pc = "check", !.todo = rest]]

\* Mutant of InsideCooldown: only a job that reports success counts.
MutantInsideCooldown(r, a) ==
    \E j \in JobsOf(a) : j.status = "sent" /\ j.at + Cooldown > run[r].now

\* get_latest_alert_delivery_job without dry runs, whatever became of the mail,
\* and _is_inside_cooldown, with the time at which the run began.
InsideCooldown(r, a) ==
    \E j \in JobsOf(a) : /\ j.status # "dry_run"
                         /\ j.at + Cooldown > run[r].now

CheckAlert(r, a) ==
    /\ run[r].pc = "check" /\ IsCurrent(r, a)
    /\ IF run[r].kind = "batch" /\ InsideCooldown(r, a)
       THEN Advance(r, a)
       ELSE run' = [run EXCEPT ![r].pc = "send"]
    /\ UNCHANGED <<alert, discarded, jobs, mails, clock, failures>>

\* A mail of runner r, told apart from the ones it has sent for a at the same time.
Mail(r, a) ==
    [alert |-> a, at |-> clock, by |-> r,
     no |-> Cardinality({m \in mails : m.alert = a /\ m.at = clock /\ m.by = r})]

\* build_alert_preview and deliver.  A paused alert is skipped, and so is one
\* without a match, target or mail server.  An error is a failed delivery, also
\* when it comes after the server has taken the mail.
Deliver(r, a, status, mailed) ==
    /\ run[r].pc = "send" /\ IsCurrent(r, a)
    /\ status = "dry_run" <=> run[r].kind = "dry_run"
    /\ status = "sent" => mailed
    /\ mailed => run[r].active /\ status # "dry_run"
    /\ mails' = IF mailed /\ run[r].kind = "batch"
                THEN mails \cup {Mail(r, a)}
                ELSE mails
    /\ run' = [run EXCEPT ![r] = [@ EXCEPT !.pc = "save", !.status = status, !.at = clock]]
    /\ UNCHANGED <<alert, discarded, jobs, clock, failures>>

\* Mutant of SaveJob: only successful deliveries leave a job.
MutantSaveJob(r, a) ==
    /\ run[r].pc = "save" /\ IsCurrent(r, a)
    /\ jobs' = IF alert[a] # "deleted" /\ run[r].status = "sent"
               THEN jobs \cup {[alert |-> a, at |-> run[r].at, status |-> "sent"]}
               ELSE jobs
    /\ Advance(r, a)
    /\ UNCHANGED <<alert, discarded, mails, clock, failures>>

\* save_alert_delivery_job.  If the alert has been deleted meanwhile the insert
\* violates the foreign key and the exception ends the run for the alerts left.
SaveJob(r, a) ==
    /\ run[r].pc = "save" /\ IsCurrent(r, a)
    /\ IF alert[a] = "deleted"
       THEN /\ run' = [run EXCEPT ![r] = Idle]
            /\ UNCHANGED jobs
       ELSE /\ jobs' = jobs \cup {[alert |-> a, at |-> run[r].at, status |-> run[r].status]}
            /\ Advance(r, a)
    /\ UNCHANGED <<alert, discarded, mails, clock, failures>>

\* POST /alerts/{alert_id}/deliver: no cooldown, a dry run is stored too.
DeliverAlert(t, a, kind) ==
    /\ run[t].pc = "idle"
    /\ alert[a] \in {"active", "paused"}
    /\ run' = [run EXCEPT ![t] = [Idle EXCEPT !.pc = "send", !.kind = kind, !.todo = {a},
                                              !.active = (alert[a] = "active")]]
    /\ UNCHANGED <<alert, discarded, jobs, mails, clock, failures>>

\* A store call or a preview raises, or the process dies; the worker is started
\* again.
RunFails(r) ==
    /\ run[r].pc # "idle"
    /\ failures < MaxFailures
    /\ failures' = failures + 1
    /\ mails' = {IF run[r].pc = "save" /\ m.by = r THEN [m EXCEPT !.by = failures + 1] ELSE m :
                   m \in mails}
    /\ run' = [run EXCEPT ![r] = Idle]
    /\ UNCHANGED <<alert, discarded, jobs, clock>>

Tick ==
    /\ clock < MaxTime
    /\ clock' = clock + 1
    /\ UNCHANGED <<alert, discarded, jobs, run, mails, failures>>

RunStep(r) == \E a \in Alerts :
    \/ CheckAlert(r, a)
    \/ \E status \in JobStatuses, mailed \in BOOLEAN : Deliver(r, a, status, mailed)
    \/ SaveJob(r, a)

Next ==
    \/ \E a \in Alerts : CreateAlert(a) \/ PauseOrResume(a) \/ DeleteAlert(a)
    \/ \E w \in Workers : StartBatch(w, "batch")
    \/ \E t \in Threads, kind \in {"batch", "forced"} : StartBatch(t, kind)
    \/ \E t \in Threads, a \in Alerts, kind \in {"owner", "dry_run"} : DeliverAlert(t, a, kind)
    \/ \E r \in Runners : RunStep(r) \/ RunFails(r)
    \/ Tick

Spec == Init /\ [][Next]_vars

\* The worker loops for ever, and a run goes on until it is done.  This is a worker that
\* sends (ALERT_WORKER_SEND): as render.yaml and the compose files set it up by default,
\* its batches are dry runs, which store nothing, and no alert is ever handled.
Fairness ==
    /\ \A w \in Workers : WF_vars(StartBatch(w, "batch"))
    /\ \A r \in Runners : WF_vars(RunStep(r))

FairSpec == Spec /\ Fairness

-----------------------------------------------------------------------------
(* Properties.                                                              *)

\* Within any cooldown's length an alert is mailed by unforced batches at most
\* once per runner, plus once per run that died between mail and job.  In
\* particular one worker that does not die never repeats an alert, although the
\* comparison uses the time its run began and the job one read later.
Window(t) == {u \in Times : t <= u /\ u < t + Cooldown}
MailsIn(a, t) == {m \in mails : m.alert = a /\ m.at \in Window(t)}

RepeatsBounded ==
    \A a \in Alerts, t \in Times :
        Cardinality(MailsIn(a, t)) <= Cardinality(Runners) + failures

\* A mail leaves a job of its time once its runner goes on, unless the runner
\* died in between or the alert has been deleted: no mail is forgotten, whatever
\* other runners, and the owner, do to the alert meanwhile.
MailsRecorded ==
    \A m \in mails :
        m.by \in Runners /\ run[m.by].pc # "save" /\ alert[m.alert] # "deleted"
            => \E j \in JobsOf(m.alert) : j.at = m.at

\* An alert with delivery jobs is never lost, so the jobs an owner sees always
\* belong to an alert of hers, whatever runs and deletions interleave.
JobsHaveAlerts == \A j \in jobs : alert[j.alert] \in {"active", "paused"}

\* An alert that stays active is handled by some run, even if runs die and another alert
\* of the same list is deleted between its mail and its job, which ends the run for the
\* alerts after it - as long as no more alerts are active than a run looks at.
DueAlertsHandled ==
    \A a \in Alerts :
        (alert[a] = "active") ~>
            (alert[a] # "active" \/ \E j \in JobsOf(a) : j.status # "dry_run")

-----------------------------------------------------------------------------
(* What the documentation and the tests say and the code does not keep.     *)

\* DELETE /alerts/{alert_id} answers 204 and the alert is gone
\* (tests/test_favorites_alerts.py:121), whatever has been delivered before.
DeleteRemoves == \A a \in discarded : alert[a] = "deleted"
=============================================================================
