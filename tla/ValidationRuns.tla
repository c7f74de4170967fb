--------------------------- MODULE ValidationRuns ---------------------------
(***************************************************************************)
(* The two tables candidate_validation_runs and _checks, and the four      *)
(* programs that write them for one application: the submission and the    *)
(* workers of the data check, the sweep, the operator's backfill, and the  *)
(* candidate-validation-orchestrator (TypeScript), whose runs have other   *)
(* checks and other statuses.                                              *)
(*                                                                         *)
(* The data check of a single run is DataCheckPipeline; here a unit is     *)
(* executed in one step. The orchestrator has no transactions: each of its *)
(* statements is a step, and so is each push to its queues.                *)
(***************************************************************************)
EXTENDS DataCheckStatus, Sequences

CONSTANTS
    Link,       \* the unit whose processor commits half way
    Before,     \* the units that the backfill executes before it
    Check,      \* CheckType of the orchestrator
    Addressed,  \* checks whose result names the address to fetch again
    Asked,      \* the lists of checks a run may be asked for
    Outcome,    \* what a unit ends with
    Verdict,    \* what a check ends with
    \* Bounds of the instance:
    MaxRuns,    \* runs
    MaxContent, \* submissions
    MaxFaults,  \* crashes, errors, webhook calls and repetitions
    MaxAsked    \* runs of the orchestrator

ASSUME RunsAssumption ==
    /\ Link \in Unit
    /\ Before \subseteq Unit \ {Link}
    /\ Check \cap Unit = {}
    /\ Addressed \subseteq Check
    /\ Asked \subseteq Seq(Check)
    /\ \A checks \in Asked : \A m, n \in DOMAIN checks :
          checks[m] = checks[n] => m = n
    /\ Outcome \subseteq TerminalUnitStatus
    /\ Verdict \subseteq {"passed", "manual_review_required", "failed"}
    /\ MaxRuns \in Nat \ {0} /\ MaxContent \in Nat
    /\ MaxFaults \in Nat /\ MaxAsked \in Nat

VARIABLES
    run,        \* run[i]: overall_status; runs are numbered by created_at
    check,      \* check[i][c]: status of the row, "none" without one
    payload,    \* payload[i]: the checks whose result_payload is set
    marked,     \* runs that carry the backfill's version
    next,       \* the number of the next run
    app,        \* the application: stage, submissions, the run that moved it
    queue,      \* jobs of the data check: <<i, u>>
    backfill,   \* the backfill's session
    jobs,       \* jobs[c]: the BullMQ queue of check c
    worker,     \* worker[c]: its worker
    submitter,  \* the orchestrator's request that creates a run
    faults,     \* crashes, errors, webhook calls, repetitions so far
    asked,      \* runs the orchestrator was asked for
    disturbed   \* runs with a job that was given up, repeated or redelivered

tables == <<run, check, payload, marked, next>>
python == <<app, queue, backfill>>
orchestrator == <<jobs, worker, submitter, asked>>
vars == <<tables, python, orchestrator, faults, disturbed>>

RunId == 1..MaxRuns
CheckType == Unit \cup Check

OverallStatus == {"passed", "failed", "manual_review_required",
                  "partially_processed", "processing"}
CheckStatus == {"pending", "processing", "passed", "failed",
                "manual_review_required"}

\* _ACTIVE_RUN_STATUSES
Active(i) == run[i] \in ActiveRunStatus \cup {"processing"}

IdleBackfill == [at |-> "idle", run |-> 1, advance |-> FALSE]
IdleWorker == [at |-> "idle", run |-> 1, saw |-> "processing"]
IdleSubmitter == [at |-> "idle", run |-> 1, insert |-> <<>>, push |-> <<>>]

TypeOK ==
    /\ run \in [RunId -> RunStatus \cup OverallStatus \cup {"none"}]
    /\ check \in [RunId -> [CheckType ->
                     UnitStatus \cup CheckStatus \cup {"none"}]]
    /\ payload \in [RunId -> SUBSET Check]
    /\ marked \subseteq RunId
    /\ next \in 1..(MaxRuns + 1)
    /\ app \in [stage : {"application", "initial_screening",
                         "application_review"},
                content : 0..MaxContent, moved : {0} \cup RunId]
    /\ queue \subseteq RunId \X Unit
    /\ backfill \in [at : {"idle", "started", "published"}, run : RunId,
                     advance : BOOLEAN]
    /\ jobs \in [Check -> SUBSET RunId]
    /\ worker \in [Check -> [at : {"idle", "fetching", "settled", "read"},
                             run : RunId, saw : OverallStatus]]
    /\ submitter \in [at : {"idle", "insert", "push", "mark"}, run : RunId,
                      insert : Seq(Check), push : Seq(Check)]
    /\ faults \in 0..MaxFaults
    /\ asked \in 0..MaxAsked
    /\ disturbed \subseteq RunId

Init ==
    /\ run = [i \in RunId |-> "none"]
    /\ check = [i \in RunId |-> [c \in CheckType |-> "none"]]
    /\ payload = [i \in RunId |-> {}]
    /\ marked = {}
    /\ next = 1
    /\ app = [stage |-> "application", content |-> 0, moved |-> 0]
    /\ queue = {}
    /\ backfill = IdleBackfill
    /\ jobs = [c \in Check |-> {}]
    /\ worker = [c \in Check |-> IdleWorker]
    /\ submitter = IdleSubmitter
    /\ faults = 0
    /\ asked = 0
    /\ disturbed = {}

Fault == faults < MaxFaults /\ faults' = faults + 1

\* Bound: a run of the orchestrator takes the place of two.
Room == next + asked <= MaxRuns

----------------------------------------------------------------------------
(* Runs.                                                                   *)

Rows(i) == {c \in CheckType : check[i][c] # "none"}
Canonical(i) == run[i] # "none" /\ Rows(i) = Unit
Known(i) == run[i] # "none" /\ Rows(i) \subseteq Unit

\* resolve_canonical_run_for_application, active_only.
ActiveCanonical == {i \in RunId : Canonical(i) /\ Active(i)}

Newest(runs) == CHOOSE i \in runs : \A j \in runs : j <= i

\* compute_run_status over the policy's units; one without a row is pending.
Computed(rows) ==
    RunStatusOf([u \in Unit |-> IF rows[u] = "none" THEN "pending"
                               ELSE rows[u]])

\* (mutated: whatever has not failed)
AdvanceUnlessFailed(i, rows) ==
    app' = IF Computed(rows) # "failed" /\ app.stage = "initial_screening"
           THEN [app EXCEPT !.stage = "application_review", !.moved = i]
           ELSE app

\* _try_auto_advance with the run's aggregate.
Advance(i, rows) ==
    app' = IF Computed(rows) = "ready" /\ app.stage = "initial_screening"
           THEN [app EXCEPT !.stage = "application_review", !.moved = i]
           ELSE app

----------------------------------------------------------------------------
(* The data check.                                                         *)

\* submit_application: an active canonical run is taken for this submission.
Submit ==
    /\ app.stage = "application"
    /\ app.content < MaxContent
    /\ app' = [app EXCEPT !.stage = "initial_screening",
                          !.content = @ + 1]
    /\ \/ /\ ActiveCanonical # {}
          /\ UNCHANGED <<run, check, next, queue>>
       \/ /\ ActiveCanonical = {}
          /\ Room
          /\ next' = next + 1
          /\ run' = [run EXCEPT ![next] = "pending"]
          /\ check' = [check EXCEPT ![next] =
                         [c \in CheckType |->
                            CASE c \in FirstWave -> "queued"
                              [] c \in Unit \ FirstWave -> "pending"
                              [] OTHER -> "none"]]
          /\ queue' = queue \cup ({next} \X FirstWave)
    /\ UNCHANGED <<payload, marked, backfill, orchestrator,
                   faults, disturbed>>

\* revision_required.
SendBack ==
    /\ app.stage = "initial_screening"
    /\ app.content < MaxContent
    /\ app' = [app EXCEPT !.stage = "application"]
    /\ UNCHANGED <<tables, queue, backfill, orchestrator, faults, disturbed>>

\* run_unit's early returns.
Skipped(i, u) ==
    \/ ~Canonical(i)
    \/ Computed(check[i]) \notin ActiveRunStatus
    \/ check[i][u] \in TerminalUnitStatus

\* run_unit: the unit, the aggregate, the follow-ups, the advance.
Execute(i, u) ==
    /\ <<i, u>> \in queue
    /\ \/ /\ Skipped(i, u)
          /\ queue' = queue \ {<<i, u>>}
          /\ UNCHANGED <<run, check, app>>
       \/ \E outcome \in Outcome :
             LET done == [check[i] EXCEPT ![u] = outcome]
                 ready == ReadyFollowups([v \in Unit |-> done[v]])
             IN  /\ ~Skipped(i, u)
                 /\ check' = [check EXCEPT ![i] =
                       [c \in CheckType |-> IF c \in ready THEN "queued"
                                        ELSE done[c]]]
                 /\ run' = [run EXCEPT ![i] = Computed(done)]
                 /\ queue' = (queue \ {<<i, u>>}) \cup ({i} \X ready)
                 /\ Advance(i, done)
    /\ UNCHANGED <<payload, marked, next, backfill, orchestrator,
                   faults, disturbed>>

\* A worker dies with the job it has popped.
LoseJob(i, u) ==
    /\ <<i, u>> \in queue
    /\ Fault
    /\ queue' = queue \ {<<i, u>>}
    /\ UNCHANGED <<tables, app, backfill, orchestrator, disturbed>>

\* ingest_external_unit_result: for the newest canonical run only.
Ingest(i, u, status) ==
    LET done == [check[i] EXCEPT ![u] = status]
    IN  /\ Canonical(i)
        /\ \A j \in RunId : Canonical(j) => j <= i
        /\ Fault
        /\ check' = [check EXCEPT ![i] = done]
        /\ run' = [run EXCEPT ![i] = Computed(done)]
        /\ Advance(i, done)
        /\ UNCHANGED <<payload, marked, next, queue, backfill,
                       orchestrator, disturbed>>

----------------------------------------------------------------------------
(* The sweep (sweep_stuck_runs), a run at a time. There is no clock: it may *)
(* find an active run stale, or past the SLA, at any time.                  *)

\* Ten minutes do not pass between two statements of the orchestrator.
BetweenStatements(i) ==
    \/ submitter.run = i /\ submitter.at \in {"insert", "mark"}
    \/ \E c \in Check :
          worker[c].run = i /\ worker[c].at \in {"settled", "read"}

Listed(i) == Active(i) /\ ~BetweenStatements(i)

\* repair_missing_policy_checks_for_run.
Repaired(i) ==
    [c \in CheckType |->
       IF Known(i) /\ c \in Unit /\ check[i][c] = "none"
       THEN "pending" ELSE check[i][c]]

RepairedCanonical(i) ==
    \A c \in CheckType : (c \in Unit) <=> (Repaired(i)[c] # "none")

\* (mutated: the run's own status is left alone)
RetireChecks(i) ==
    /\ Listed(i)
    /\ ~RepairedCanonical(i)
    /\ check' = [check EXCEPT ![i] =
                   [c \in CheckType |->
                      IF @[c] \in TerminalUnitStatus \cup {"none"}
                      THEN @[c] ELSE "failed"]]
    /\ UNCHANGED <<run, payload, marked, next, python, orchestrator,
                   faults, disturbed>>

\* _retire_noncanonical_run.
Retire(i) ==
    /\ Listed(i)
    /\ ~RepairedCanonical(i)
    /\ check' = [check EXCEPT ![i] =
                   [c \in CheckType |->
                      IF @[c] \in TerminalUnitStatus \cup {"none"}
                      THEN @[c] ELSE "failed"]]
    /\ run' = [run EXCEPT ![i] = "failed"]
    /\ UNCHANGED <<payload, marked, next, python, orchestrator,
                   faults, disturbed>>

\* _terminalize_run_on_sla_timeout.
Terminalize(i) ==
    LET ended == [c \in CheckType |->
                    IF Repaired(i)[c] \in TerminalUnitStatus \cup {"none"}
                    THEN Repaired(i)[c] ELSE "failed"]
    IN  /\ Listed(i)
        /\ RepairedCanonical(i)
        /\ Repaired(i) # ended
        /\ check' = [check EXCEPT ![i] = ended]
        /\ run' = [run EXCEPT ![i] = Computed(ended)]
        /\ Advance(i, ended)
        /\ UNCHANGED <<payload, marked, next, queue, backfill,
                       orchestrator, faults, disturbed>>

\* Stuck units, the first wave and the ready follow-ups are queued again.
Requeue(i) ==
    LET stuck == {u \in Unit :
                    Repaired(i)[u] \in UnitStatus \ TerminalUnitStatus}
        requeued == [c \in CheckType |->
                       IF c \in stuck THEN "queued" ELSE Repaired(i)[c]]
    IN  /\ Listed(i)
        /\ RepairedCanonical(i)
        /\ check' = [check EXCEPT ![i] = requeued]
        /\ queue' = queue \cup ({i} \X stuck)
        /\ run' = [run EXCEPT ![i] = Computed(requeued)]
        /\ Advance(i, requeued)
        /\ UNCHANGED <<payload, marked, next, backfill,
                       orchestrator, faults, disturbed>>

Sweep(i) == Retire(i) \/ Terminalize(i) \/ Requeue(i)

----------------------------------------------------------------------------
(* The backfill (reprocess_application, mode "full", one version).         *)

\* (mutated: only a run that has found everything in order counts)
BackfilledReady == {i \in marked : run[i] = "ready"}

\* _already_backfilled_for_version
Backfilled == marked

StartBackfill(advance) ==
    /\ backfill.at = "idle"
    /\ app.content > 0
    /\ Backfilled = {}
    /\ ActiveCanonical = {}
    /\ Room
    /\ next' = next + 1
    /\ backfill' = [at |-> "started", run |-> next, advance |-> advance]
    /\ UNCHANGED <<run, check, payload, marked, app, queue,
                   orchestrator, faults, disturbed>>

\* The processor of the links commits the session: the run is there, with the
\* units executed so far.
PublishBackfill ==
    LET i == backfill.run
    IN  /\ backfill.at = "started"
        /\ \E outcome \in [Before -> Outcome] :
              check' = [check EXCEPT ![i] =
                          [c \in CheckType |->
                             CASE c \in Before -> outcome[c]
                               [] c = Link -> "running"
                               [] c \in Unit \ (Before \cup {Link})
                                    -> "pending"
                               [] OTHER -> "none"]]
        /\ run' = [run EXCEPT ![i] = "pending"]
        /\ marked' = marked \cup {i}
        /\ backfill' = [backfill EXCEPT !.at = "published"]
        /\ UNCHANGED <<payload, next, app, queue, orchestrator,
                       faults, disturbed>>

\* The rest of the units, the aggregate, the advance if it is asked for.
FinishBackfill ==
    LET i == backfill.run
        left == IF backfill.at = "published" THEN Unit \ Before ELSE Unit
    IN  /\ backfill.at # "idle"
        /\ \E outcome \in [left -> Outcome] :
              LET done == [c \in CheckType |->
                             IF c \in left THEN outcome[c] ELSE check[i][c]]
              IN  /\ check' = [check EXCEPT ![i] = done]
                  /\ run' = [run EXCEPT ![i] = Computed(done)]
                  /\ IF backfill.advance THEN Advance(i, done)
                     ELSE UNCHANGED app
        /\ marked' = marked \cup {i}
        /\ backfill' = IdleBackfill
        /\ UNCHANGED <<payload, next, queue, orchestrator, faults,
                       disturbed>>

\* A failure later on, or a crash: what was not committed is rolled back.
FailBackfill ==
    /\ backfill.at # "idle"
    /\ Fault
    /\ backfill' = IdleBackfill
    /\ UNCHANGED <<tables, app, queue, orchestrator, disturbed>>

----------------------------------------------------------------------------
(* The orchestrator.                                                       *)

\* submitValidationRun: createRun's first INSERT. Nothing comes after it if no
\* check is asked for.
CreateRun(checks) ==
    /\ submitter.at = "idle"
    /\ asked < MaxAsked
    /\ asked' = asked + 1
    /\ next < MaxRuns
    /\ next' = next + 1
    /\ run' = [run EXCEPT ![next] = "processing"]
    /\ submitter' = IF checks = <<>> THEN IdleSubmitter
                    ELSE [at |-> "insert", run |-> next, insert |-> checks,
                          push |-> checks]
    /\ UNCHANGED <<check, payload, marked, python, jobs, worker,
                   faults, disturbed>>

InsertCheck ==
    /\ submitter.at = "insert"
    /\ submitter.insert # <<>>
    /\ check' = [check EXCEPT
                   ![submitter.run][Head(submitter.insert)] = "pending"]
    /\ submitter' = [submitter EXCEPT
                       !.insert = Tail(@),
                       !.at = IF Len(submitter.insert) = 1 THEN "push" ELSE @]
    /\ UNCHANGED <<run, payload, marked, next, python, jobs, worker,
                   asked, faults, disturbed>>

\* The submitter goes on to the next check, or replies.
Pushed == IF Len(submitter.push) = 1 THEN IdleSubmitter
          ELSE [submitter EXCEPT !.at = "push", !.push = Tail(@)]

Push ==
    /\ submitter.at = "push"
    /\ jobs' = [jobs EXCEPT ![Head(submitter.push)] = @ \cup {submitter.run}]
    /\ submitter' = Pushed
    /\ UNCHANGED <<tables, python, worker, asked, faults, disturbed>>

\* enqueueCheck's two seconds are over; the job may have arrived.
PushTimesOut ==
    /\ submitter.at = "push"
    /\ Fault
    /\ \/ jobs' = [jobs EXCEPT ![Head(submitter.push)] = @ \cup {submitter.run}]
       \/ jobs' = jobs
    /\ submitter' = [submitter EXCEPT !.at = "mark"]
    /\ disturbed' = disturbed \cup {submitter.run}
    /\ UNCHANGED <<tables, python, worker, asked>>

MarkFailed ==
    /\ submitter.at = "mark"
    /\ check' = [check EXCEPT
                   ![submitter.run][Head(submitter.push)] = "failed"]
    /\ submitter' = Pushed
    /\ UNCHANGED <<run, payload, marked, next, python, jobs, worker,
                   asked, faults, disturbed>>

\* reprocessRun: only a result that names its address is fetched again.
Reprocess(i, c) ==
    /\ c \in payload[i] \cap Addressed
    /\ Fault
    /\ jobs' = [jobs EXCEPT ![c] = @ \cup {i}]
    /\ disturbed' = disturbed \cup {i}
    /\ UNCHANGED <<tables, python, worker, submitter, asked>>

\* A worker's first UPDATE.
Begin(i, c) ==
    /\ worker[c].at = "idle"
    /\ i \in jobs[c]
    /\ jobs' = [jobs EXCEPT ![c] = @ \ {i}]
    /\ check' = [check EXCEPT ![i][c] = "processing"]
    /\ worker' = [worker EXCEPT ![c] = [IdleWorker EXCEPT !.at = "fetching",
                                                          !.run = i]]
    /\ UNCHANGED <<run, payload, marked, next, python, submitter,
                   asked, faults, disturbed>>

\* The answer of the service, or its failure, which leaves the payload.
Settle(c, status) ==
    LET i == worker[c].run
    IN  /\ worker[c].at = "fetching"
        /\ check' = [check EXCEPT ![i][c] = status]
        /\ payload' = [payload EXCEPT ![i] =
                         IF status = "failed" THEN @ ELSE @ \cup {c}]
        /\ worker' = [worker EXCEPT ![c].at = "settled"]
        /\ UNCHANGED <<run, marked, next, python, jobs, submitter,
                       asked, faults, disturbed>>

\* (mutated: a check that waits is passed over)
AggregateOfStarted(statuses) ==
    CASE "processing" \in statuses -> "processing"
      [] "processing" \notin statuses /\ "manual_review_required" \in statuses
           -> "manual_review_required"
      [] statuses \cap {"processing", "manual_review_required"} = {}
           /\ "failed" \in statuses -> "failed"
      [] OTHER -> "passed"

\* recomputeOverallStatus: what it makes of the statuses it has read.
Aggregate(statuses) ==
    CASE "processing" \in statuses -> "processing"
      [] "processing" \notin statuses /\ "manual_review_required" \in statuses
           -> "manual_review_required"
      [] statuses \cap {"processing", "manual_review_required"} = {}
           /\ "failed" \in statuses -> "failed"
      [] statuses \cap {"processing", "manual_review_required", "failed"} = {}
           /\ "pending" \in statuses -> "partially_processed"
      [] OTHER -> "passed"

Read(c) ==
    LET i == worker[c].run
    IN  /\ worker[c].at = "settled"
        /\ worker' = [worker EXCEPT
                        ![c].at = "read",
                        ![c].saw = Aggregate({check[i][d] : d \in Rows(i)})]
        /\ UNCHANGED <<tables, python, jobs, submitter, asked, faults,
                       disturbed>>

Write(c) ==
    /\ worker[c].at = "read"
    /\ run' = [run EXCEPT ![worker[c].run] = worker[c].saw]
    /\ worker' = [worker EXCEPT ![c] = IdleWorker]
    /\ UNCHANGED <<check, payload, marked, next, python, jobs,
                   submitter, asked, faults, disturbed>>

\* A database error in a worker: BullMQ repeats the job (attempts: 3).
Retry(c) ==
    /\ worker[c].at # "idle"
    /\ Fault
    /\ jobs' = [jobs EXCEPT ![c] = @ \cup {worker[c].run}]
    /\ disturbed' = disturbed \cup {worker[c].run}
    /\ worker' = [worker EXCEPT ![c] = IdleWorker]
    /\ UNCHANGED <<tables, python, submitter, asked>>

\* The process ends: BullMQ finds its jobs stalled and delivers them again;
\* nobody goes on with the request.
Crash ==
    LET busy == {c \in Check : worker[c].at # "idle"}
    IN  /\ submitter.at # "idle" \/ busy # {}
        /\ Fault
        /\ jobs' = [c \in Check |->
                      IF c \in busy THEN jobs[c] \cup {worker[c].run}
                      ELSE jobs[c]]
        /\ worker' = [c \in Check |-> IdleWorker]
        /\ submitter' = IdleSubmitter
        /\ disturbed' = disturbed \cup {worker[c].run : c \in busy}
                          \cup (IF submitter.at = "idle" THEN {}
                                ELSE {submitter.run})
        /\ UNCHANGED <<tables, python, asked>>

----------------------------------------------------------------------------
DataCheck ==
    \/ Submit \/ SendBack
    \/ \E i \in RunId, u \in Unit :
          \/ Execute(i, u) \/ LoseJob(i, u)
          \/ \E status \in Outcome : Ingest(i, u, status)

Backfill ==
    \/ \E advance \in BOOLEAN : StartBackfill(advance)
    \/ PublishBackfill \/ FinishBackfill \/ FailBackfill

SubmitterStep == InsertCheck \/ Push \/ MarkFailed

WorkerStep(c) ==
    \/ \E i \in RunId : Begin(i, c)
    \/ \E status \in Verdict : Settle(c, status)
    \/ Read(c) \/ Write(c)

Orchestrator ==
    \/ \E checks \in Asked : CreateRun(checks)
    \/ SubmitterStep \/ PushTimesOut \/ Crash
    \/ \E c \in Check :
          WorkerStep(c) \/ Retry(c) \/ \E i \in RunId : Reprocess(i, c)

Next ==
    \/ DataCheck
    \/ \E i \in RunId : Sweep(i)
    \/ Backfill
    \/ Orchestrator

\* The SLA passes, the sweep comes round, and the orchestrator's process goes
\* on with what it has begun. Nothing makes a candidate, the commission or an
\* operator act, the backfill go on, or a worker of the data check take a job.
Fairness ==
    /\ \A i \in RunId : WF_vars(Retire(i) \/ Terminalize(i))
    /\ WF_vars(SubmitterStep \/ \E c \in Check : WorkerStep(c))

Spec == Init /\ [][Next]_vars /\ Fairness

----------------------------------------------------------------------------
(* A run whose overall status is passed has no check that is not: the two   *)
(* statements of recomputeOverallStatus may interleave with those of the    *)
(* other workers and leave an older status, but never an undeserved pass.   *)
(* Not so for a run with a push that was given up, a job that was repeated, *)
(* or a crash.                                                              *)
PassedIsDeserved ==
    \A i \in RunId \ disturbed :
        run[i] = "passed" =>
            \A c \in Check : check[i][c] \in {"passed", "none"}

(* A check of the orchestrator that waits or is being processed has a job,  *)
(* a worker or a request that will push it, also after database errors and  *)
(* crashes of a worker; only a request that dies leaves it behind           *)
(* (submitValidationRun, BullMQ's attempts).                                *)
Carried(i, c) ==
    \/ i \in jobs[c]
    \/ worker[c].at # "idle" /\ worker[c].run = i
    \/ submitter.at # "idle" /\ submitter.run = i

ChecksAreCarried ==
    \A i \in RunId \ disturbed, c \in Check :
        check[i][c] \in {"pending", "processing"} => Carried(i, c)

(* One version is backfilled by one run, however the earlier attempt ended  *)
(* (_already_backfilled_for_version).                                       *)
BackfillOnce == Cardinality(marked) <= 1

(* What moves an application by itself is a run with all the policy's units *)
(* and no others, each completed: never a run of the orchestrator, nor one  *)
(* that the sweep has repaired or ended early (_try_auto_advance).          *)
AdvancedByCompleteRun ==
    [][app'.moved # app.moved =>
         /\ {c \in CheckType : check'[app'.moved][c] # "none"} = Unit
         /\ \A u \in Unit : check'[app'.moved][u] = "completed"]_vars

(* Every run leaves pending, running and processing in the end: those of    *)
(* the data check by their units or the SLA, a backfill that died half way  *)
(* and the orchestrator's by the sweep (sweep_stuck_runs).                  *)
RunsEnd == \A i \in RunId : []<>~Active(i)

(* What the runs of the two systems have in common tables stands: statuses  *)
(* are of their types, no pass is undeserved, and what waits is carried.    *)
ChecksStand == TypeOK /\ PassedIsDeserved /\ ChecksAreCarried

=============================================================================
