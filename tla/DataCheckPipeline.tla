-------------------------- MODULE DataCheckPipeline --------------------------
(***************************************************************************)
(* One data-check run of one application: the submit transaction that      *)
(* creates it, the Redis list that carries its unit jobs, the worker       *)
(* processes that execute them, the sweep thread that recovers it, the     *)
(* webhook that ingests external results, and the commission's actions on  *)
(* the application.                                                        *)
(*                                                                         *)
(* Every actor works in database transactions (READ COMMITTED). The        *)
(* variables run, check, result, attempts, stage, app, movedBy and card    *)
(* hold the COMMITTED rows; what a transaction has written and not yet     *)
(* committed is in its actor's own state, and "lock" holds the row locks   *)
(* its UPDATEs took. Redis is not transactional: a push is visible at      *)
(* once, and a popped job is gone whatever becomes of the transaction.     *)
(*                                                                         *)
(* Left out as data that nothing here reads back: result payloads,         *)
(* warnings and messages, the AnalysisJob and audit rows.                  *)
(***************************************************************************)
EXTENDS DataCheckStatus, Sequences

CONSTANTS
    Worker,       \* worker processes (scripts/job_worker.py)
    MidCommit,    \* units whose processor commits the session half way
    External,     \* units the ingestion webhook accepts results for
    MaxAttempts,  \* policy.max_attempts
    Rank,         \* the order of the units in the policy table
    BypassDataCheck, \* allow_screening_passed_bypass_data_check
    \* Bounds of the instance, not of the program:
    MaxQueue,     \* jobs waiting in Redis when a sweep begins
    MaxFaults,    \* crashes, rollbacks and failed pushes
    MaxIngests,   \* webhook calls
    MaxMoves,     \* actions of the commission
    Clock         \* which waits elapse: "stale" (10 min), "sla" (30 min)

VARIABLES
    submit,    \* the submit request: pushing, then committed or aborted
    pushed,    \* first-wave units it has pushed so far
    queue,     \* the Redis list, oldest job first
    run,       \* CandidateValidationRun.overall_status
    check,     \* CandidateValidationCheck.status
    attempts,  \* CandidateValidationCheck.attempts
    result,    \* DataCheckUnitResult.status
    stage,     \* ApplicationStageState of initial_screening
    app,       \* Application.current_stage
    movedBy,   \* actor_type of the last stage transition
    card,      \* ApplicationCommissionProjection
    lock,      \* lock[r]: who holds the row lock of r
    pc, job, seen, tx,  \* a worker's control, unit, run as loaded, writes
    sweep,     \* the sweep thread's transaction
    stale,     \* rows whose updated_at is more than 10 minutes old
    slaPast,   \* the run's created_at is past the SLA
    faults, ingests, moves

db == <<run, check, attempts, result, stage, app, movedBy, card>>
worker == <<pc, job, seen, tx>>
counters == <<faults, ingests, moves>>
vars == <<submit, pushed, queue, db, lock, worker, sweep, stale, slaPast,
          counters>>

Nobody == "nobody"
Sweeper == "sweep"
NoUnit == "none"
Row == Unit \cup {"run", "stage", "application"}

ASSUME PipelineAssumption ==
    /\ MidCommit \subseteq Unit
    /\ External \subseteq Unit
    /\ MaxAttempts \in Nat
    /\ Rank \in [Unit -> Nat]
    /\ \A u, v \in Unit : Rank[u] = Rank[v] => u = v
    /\ \A u \in Unit : \A v \in Deps[u] : Rank[v] < Rank[u]
    /\ MaxQueue \in Nat
    /\ MaxFaults \in Nat
    /\ MaxIngests \in Nat
    /\ MaxMoves \in Nat
    /\ BypassDataCheck \in BOOLEAN
    /\ {Nobody, Sweeper} \cap Worker = {}
    /\ {NoUnit, "run", "stage", "application"} \cap Unit = {}

AppStage == {"application", "initial_screening", "application_review"}

NoTx == [app |-> "application", out |-> "failed", agg |-> "failed",
         follow |-> {}, advance |-> FALSE, attempts |-> 0]

\* todo: units still to look at; hit: units it writes; wait: the unit whose
\* row it waits for; stuck, exhausted: loaded units to requeue, to fail.
SweepIdle == [pc |-> "idle", seen |-> "running", todo |-> {}, hit |-> {},
              wait |-> NoUnit, stuck |-> {}, exhausted |-> {}]

StageRow == [status: StageStatus, attention: BOOLEAN]

Card == [stage: AppStage, status: StageStatus, attention: BOOLEAN]

\* What a worker's transaction writes at its commit: the application's stage
\* as it was loaded, the unit's outcome, the aggregate, the followups queued,
\* whether it advances, and the attempts of the unit.
UnitTx == [app: AppStage, out: TerminalUnitStatus, agg: RunStatus,
           follow: SUBSET Unit, advance: BOOLEAN, attempts: Nat]

SweepTx == [pc: {"idle", "sla", "wait", "stuck", "recompute", "advance"},
            seen: RunStatus, todo: SUBSET Unit, hit: SUBSET Unit,
            wait: Unit \cup {NoUnit}, stuck: SUBSET Unit,
            exhausted: SUBSET Unit]

SubmitOK ==
    /\ submit \in {"open", "committed", "aborted"}
    /\ pushed \subseteq FirstWave
    /\ queue \in Seq(Unit)

RowsOK ==
    /\ run \in RunStatus \cup {"absent"}
    /\ check \in [Unit -> UnitStatus]
    /\ attempts \in [Unit -> Nat]
    /\ result \in [Unit -> UnitStatus]
    /\ stage \in StageRow
    /\ app \in AppStage
    /\ movedBy \in {"none", "user", "system", "committee"}
    /\ card \in Card

LocksOK == lock \in [Row -> Worker \cup {Nobody, Sweeper}]

WorkersOK ==
    /\ pc \in [Worker -> {"idle", "claiming", "starting", "running",
                          "detached", "finishing"}]
    /\ job \in [Worker -> Unit \cup {NoUnit}]
    /\ \A w \in Worker : pc[w] # "idle" => job[w] \in Unit
    /\ seen \in [Worker -> RunStatus \cup {"absent", "dirty"}]
    /\ tx \in [Worker -> UnitTx]

SweepOK ==
    /\ sweep \in SweepTx
    /\ sweep.pc = "wait" => sweep.wait \in Unit

ClockOK ==
    /\ stale \subseteq Unit \cup {"run"}
    /\ slaPast \in BOOLEAN
    /\ faults \in Nat /\ ingests \in Nat /\ moves \in Nat

\* Every variable has its type.
TypeOK == SubmitOK /\ RowsOK /\ LocksOK /\ WorkersOK /\ SweepOK /\ ClockOK

Init ==
    /\ submit = "open" /\ pushed = {}
    /\ queue = <<>>
    /\ run = "absent"
    /\ check = [u \in Unit |-> "pending"]
    /\ attempts = [u \in Unit |-> 0]
    /\ result = [u \in Unit |-> "pending"]
    /\ stage = [status |-> "none", attention |-> FALSE]
    /\ app = "application" /\ movedBy = "none"
    /\ card = [stage |-> "application", status |-> "none", attention |-> FALSE]
    /\ lock = [r \in Row |-> Nobody]
    /\ pc = [w \in Worker |-> "idle"]
    /\ job = [w \in Worker |-> NoUnit]
    /\ seen = [w \in Worker |-> "absent"]
    /\ tx = [w \in Worker |-> NoTx]
    /\ sweep = SweepIdle
    /\ stale = {} /\ slaPast = FALSE
    /\ faults = 0 /\ ingests = 0 /\ moves = 0

-----------------------------------------------------------------------------
(* Row locks and the queue.                                                *)

Free(rows, h) == \A r \in rows : lock[r] \in {Nobody, h}
Acquired(rows, h) == [r \in Row |-> IF r \in rows THEN h ELSE lock[r]]
Released(h) == [r \in Row |-> IF lock[r] = h THEN Nobody ELSE lock[r]]

\* The jobs that reach Redis when one is pushed for each unit of S, in the
\* order of the policy table. Without strict a failed push is swallowed, and
\* the unit stays queued without a job.
Sent(S) ==
    UNION {{s \in [1 .. Cardinality(T) -> T] :
               \A i, j \in DOMAIN s : i < j => Rank[s[i]] < Rank[s[j]]} :
           T \in SUBSET S}

\* (mutated: the push is forgotten)
EnqueueNothing(s, n, q) == faults' = faults /\ queue' = q

\* LPUSH of the sequence s, of the n jobs that were to be pushed, behind q.
Enqueue(s, n, q) ==
    /\ Len(s) < n => faults < MaxFaults
    /\ faults' = IF Len(s) < n THEN faults + 1 ELSE faults
    /\ queue' = q \o s

\* upsert_projection_for_application: the row of the stage the application
\* is in. Only initial_screening has a stage row here.
CardOf(appStage, screening) ==
    [stage |-> appStage,
     status |-> IF appStage = "initial_screening" THEN screening.status
                ELSE "none",
     attention |-> appStage = "initial_screening" /\ screening.attention]

StageAfter(agg) ==
    [status |-> StageStatusOf(agg), attention |-> NeedsManualReview(agg)]

\* (mutated: a partial run advances too)
AutoAdvancesPartial(agg) ==
    agg \in {"ready", "partial"} /\ app = "initial_screening"

\* _try_auto_advance: only a ready run moves the application, and only from
\* initial_screening as re-read at that moment.
AutoAdvances(agg) == agg = "ready" /\ app = "initial_screening"

-----------------------------------------------------------------------------
(* The submit request: one transaction, whose jobs are in Redis before it  *)
(* commits.                                                                *)

\* enqueue_first_wave_jobs, strict, for a run only this transaction sees.
SubmitPush(u) ==
    /\ submit = "open"
    /\ u \in FirstWave \ pushed
    /\ \A v \in FirstWave \ pushed : Rank[u] <= Rank[v]
    /\ pushed' = pushed \cup {u}
    /\ queue' = Append(queue, u)
    /\ UNCHANGED <<submit, db, lock, worker, sweep, stale, slaPast, counters>>

SubmitCommit ==
    /\ submit = "open"
    /\ pushed = FirstWave
    /\ submit' = "committed"
    /\ run' = "pending"
    /\ check' = [u \in Unit |-> IF u \in FirstWave THEN "queued"
                                ELSE "pending"]
    /\ stage' = [stage EXCEPT !.status = "new"]
    /\ app' = "initial_screening"
    /\ movedBy' = "user"
    /\ card' = CardOf(app', stage')
    /\ UNCHANGED <<pushed, queue, attempts, result, lock, worker, sweep, stale,
                   slaPast, counters>>

\* A strict push raises: 503, everything is rolled back but the jobs pushed.
SubmitAbort ==
    /\ submit = "open"
    /\ faults < MaxFaults
    /\ submit' = "aborted"
    /\ faults' = faults + 1
    /\ UNCHANGED <<pushed, queue, db, lock, worker, sweep, stale, slaPast,
                   ingests, moves>>

-----------------------------------------------------------------------------
(* A worker: BRPOP, then run_unit in one transaction.                      *)

Popped(w) ==
    /\ pc[w] = "idle"
    /\ queue # <<>>

\* run_not_found: the job was popped before the submit committed, or after
\* it rolled back.
TakeRunNotFound(w) ==
    /\ Popped(w)
    /\ run = "absent"
    /\ queue' = Tail(queue)
    /\ UNCHANGED <<submit, pushed, db, lock, worker, sweep, stale, slaPast,
                   counters>>

\* The batch is complete: the job is dropped.
TakeBatchComplete(w) ==
    /\ Popped(w)
    /\ run # "absent"
    /\ RunStatusOf(check) \notin ActiveRunStatus
    /\ queue' = Tail(queue)
    /\ UNCHANGED <<submit, pushed, db, lock, worker, sweep, stale, slaPast,
                   counters>>

\* The unit is already terminal: only its follow-ups are looked after.
TakeTerminalCheck(w) ==
    LET F == ReadyFollowups(check)
        touched == {f \in F : check[f] = "pending"}
    IN  /\ Popped(w)
        /\ run # "absent"
        /\ RunStatusOf(check) \in ActiveRunStatus
        /\ check[Head(queue)] \in TerminalUnitStatus
        /\ Free(touched, w)
        /\ check' = [u \in Unit |-> IF u \in touched THEN "queued" ELSE check[u]]
        /\ \E s \in Sent(F) : Enqueue(s, Cardinality(F), Tail(queue))
        /\ stale' = stale \ touched
        /\ UNCHANGED <<submit, pushed, run, attempts, result, stage, app, movedBy,
                       card, lock, worker, sweep, slaPast, ingests, moves>>

TakeUnit(w) ==
    /\ Popped(w)
    /\ run # "absent"
    /\ RunStatusOf(check) \in ActiveRunStatus
    /\ check[Head(queue)] \notin TerminalUnitStatus
    /\ queue' = Tail(queue)
    /\ pc' = [pc EXCEPT ![w] = "claiming"]
    /\ job' = [job EXCEPT ![w] = Head(queue)]
    /\ seen' = [seen EXCEPT ![w] = run]
    /\ tx' = [tx EXCEPT ![w].app = app]
    /\ UNCHANGED <<submit, pushed, db, lock, sweep, stale, slaPast, counters>>

\* (mutated: read and written without the row lock)
ClaimUnlocked(w) ==
    /\ pc[w] = "claiming"
    /\ check[job[w]] \in {"pending", "queued"}
    /\ pc' = [pc EXCEPT ![w] = "starting"]
    /\ UNCHANGED <<submit, pushed, queue, db, lock, job, seen, tx, sweep, stale,
                   slaPast, counters>>

\* (mutated: the UPDATE is not conditional on the status)
ClaimUnconditional(w) ==
    /\ pc[w] = "claiming"
    /\ Free({job[w]}, w)
    /\ lock' = Acquired({job[w]}, w)
    /\ pc' = [pc EXCEPT ![w] = "starting"]
    /\ UNCHANGED <<submit, pushed, queue, db, job, seen, tx, sweep, stale,
                   slaPast, counters>>

\* try_claim_unit_check_for_execution: the conditional UPDATE waits for the
\* row lock and then looks at the committed status.
Claim(w) ==
    /\ pc[w] = "claiming"
    /\ Free({job[w]}, w)
    /\ check[job[w]] \in {"pending", "queued"}
    /\ lock' = Acquired({job[w]}, w)
    /\ pc' = [pc EXCEPT ![w] = "starting"]
    /\ UNCHANGED <<submit, pushed, queue, db, job, seen, tx, sweep, stale,
                   slaPast, counters>>

ClaimLost(w) ==
    /\ pc[w] = "claiming"
    /\ Free({job[w]}, w)
    /\ check[job[w]] \notin {"pending", "queued"}
    /\ pc' = [pc EXCEPT ![w] = "idle"]
    /\ job' = [job EXCEPT ![w] = NoUnit]
    /\ seen' = [seen EXCEPT ![w] = "absent"]
    /\ tx' = [tx EXCEPT ![w] = NoTx]
    /\ UNCHANGED <<submit, pushed, queue, db, lock, sweep, stale, slaPast,
                   counters>>

\* (mutated: the stage row is written at the commit only)
StartRowsWithoutStage(w) == IF seen[w] = "pending" THEN {"run"} ELSE {}

StartRows(w) == {"stage"} \cup IF seen[w] = "pending" THEN {"run"} ELSE {}

\* The claimed unit, a run still pending and the stage row are written and
\* flushed; their locks are held while the processor runs.
Start(w) ==
    /\ pc[w] = "starting"
    /\ Free(StartRows(w), w)
    /\ lock' = Acquired(StartRows(w), w)
    /\ pc' = [pc EXCEPT ![w] = "running"]
    /\ seen' = [seen EXCEPT ![w] = IF @ = "pending" THEN "dirty" ELSE @]
    /\ UNCHANGED <<submit, pushed, queue, db, job, tx, sweep, stale, slaPast,
                   counters>>

\* validate_candidate_link commits the worker's session: the claim becomes
\* visible and every lock is released while the processor goes on.
CommitClaim(w) ==
    LET u == job[w]
    IN  /\ pc[w] = "running"
        /\ u \in MidCommit
        /\ check' = [check EXCEPT ![u] = "running"]
        /\ attempts' = [attempts EXCEPT ![u] = @ + 1]
        /\ result' = [result EXCEPT ![u] = "running"]
        /\ run' = IF seen[w] = "dirty" THEN "running" ELSE run
        /\ stage' = [stage EXCEPT !.status = "in_review"]
        /\ lock' = Released(w)
        /\ pc' = [pc EXCEPT ![w] = "detached"]
        /\ seen' = [seen EXCEPT ![w] = "dirty"]
        /\ stale' = stale \ ({u} \cup IF seen[w] = "dirty" THEN {"run"} ELSE {})
        /\ UNCHANGED <<submit, pushed, queue, app, movedBy, card, job, tx, sweep,
                       slaPast, counters>>

\* The checks as the worker's session sees them once its unit has ended.
Settled(w, out) == [check EXCEPT ![job[w]] = out]

\* The pending followups that this outcome queues.
Touched(w, out) ==
    {f \in ReadyFollowups(Settled(w, out)) : check[f] = "pending"}

\* The run is written if its status changes. The stage row is flushed here if
\* a follow-up's job is, else at the commit.
FinishRows(w, out) ==
    LET agg == RunStatusOf(Settled(w, out))
    IN  {job[w]} \cup Touched(w, out)
        \cup (IF seen[w] # agg THEN {"run"} ELSE {})
        \cup (IF ReadyFollowups(Settled(w, out)) # {} THEN {"stage"} ELSE {})

\* The processor returned or raised: the unit's outcome and the aggregate over
\* the committed statuses of the others are written, the auto-advance is
\* decided, and the follow-up jobs are in Redis before the commit. An advance
\* is in memory only while apply_transition drafts the interview questions.
Finish(w, out) ==
    LET agg == RunStatusOf(Settled(w, out))
        F == ReadyFollowups(Settled(w, out))
        started == IF pc[w] = "running" THEN 1 ELSE 0
    IN  /\ pc[w] \in {"running", "detached"}
        /\ Free(FinishRows(w, out), w)
        /\ lock' = Acquired(FinishRows(w, out), w)
        /\ \E s \in Sent(F) : Enqueue(s, Cardinality(F), queue)
        /\ tx' = [tx EXCEPT ![w] =
                    [app |-> IF pc[w] = "running" THEN tx[w].app ELSE app,
                     out |-> out, agg |-> agg, follow |-> Touched(w, out),
                     advance |-> AutoAdvances(agg),
                     attempts |-> attempts[job[w]] + started]]
        /\ pc' = [pc EXCEPT ![w] = "finishing"]
        /\ UNCHANGED <<submit, pushed, db, job, seen, sweep, stale, slaPast,
                       ingests, moves>>

CommitRows(w) == {"stage"} \cup IF tx[w].advance THEN {"application"} ELSE {}

\* The projection, from the session's application: as it was loaded before
\* the unit ran, or as it is advanced.
WorkerCard(t) ==
    CardOf(IF t.advance THEN "application_review" ELSE t.app, StageAfter(t.agg))

\* process_payload's commit. Only changed columns are written: a run loaded
\* with the status it is given again keeps what others committed. The UPDATE
\* of the application does not look at the stage it overwrites.
Commit(w) ==
    LET u == job[w]
        t == tx[w]
        runWritten == seen[w] # t.agg
    IN  /\ pc[w] = "finishing"
        /\ Free(CommitRows(w), w)
        /\ check' = [v \in Unit |-> IF v = u THEN t.out
                                    ELSE IF v \in t.follow THEN "queued"
                                    ELSE check[v]]
        /\ attempts' = [attempts EXCEPT ![u] = t.attempts]
        /\ result' = [result EXCEPT ![u] = t.out]
        /\ run' = IF runWritten THEN t.agg ELSE run
        /\ stage' = StageAfter(t.agg)
        /\ app' = IF t.advance THEN "application_review" ELSE app
        /\ movedBy' = IF t.advance THEN "system" ELSE movedBy
        /\ card' = WorkerCard(t)
        /\ stale' = stale \ ({u} \cup t.follow
                              \cup IF runWritten THEN {"run"} ELSE {})
        /\ lock' = Released(w)
        /\ pc' = [pc EXCEPT ![w] = "idle"]
        /\ job' = [job EXCEPT ![w] = NoUnit]
        /\ seen' = [seen EXCEPT ![w] = "absent"]
        /\ tx' = [tx EXCEPT ![w] = NoTx]
        /\ UNCHANGED <<submit, pushed, queue, sweep, slaPast, counters>>

WorkerRollback(w) ==
    /\ lock' = Released(w)
    /\ pc' = [pc EXCEPT ![w] = "idle"]
    /\ job' = [job EXCEPT ![w] = NoUnit]
    /\ seen' = [seen EXCEPT ![w] = "absent"]
    /\ tx' = [tx EXCEPT ![w] = NoTx]
    /\ UNCHANGED <<submit, pushed, queue, db, sweep, stale, slaPast, ingests,
                   moves>>

\* The process dies or the transaction fails: rolled back, the job is lost.
Crash(w) ==
    /\ pc[w] # "idle"
    /\ faults < MaxFaults
    /\ faults' = faults + 1
    /\ WorkerRollback(w)

-----------------------------------------------------------------------------
(* The sweep thread: sweep_stuck_runs in one transaction.                  *)

\* (mutated: the SLA is not looked at)
SweepDueWhenStale == run \in ActiveRunStatus /\ "run" \in stale

\* list_stuck_runs, list_runs_past_processing_sla.
SweepDue == run \in ActiveRunStatus /\ (slaPast \/ "run" \in stale)

\* list_stuck_checks
StuckUnits == {u \in stale \cap Unit : check[u] \in {"pending", "queued", "running"}}

SweepBegin ==
    LET exhausted == {u \in StuckUnits : attempts[u] >= MaxAttempts}
        requeued == StuckUnits \ exhausted
    IN  /\ sweep = SweepIdle
        /\ SweepDue
        /\ Len(queue) <= MaxQueue
        /\ sweep' = IF slaPast
                    THEN [sweep EXCEPT !.pc = "sla", !.seen = run, !.todo = Unit]
                    ELSE [sweep EXCEPT !.pc = "stuck", !.seen = run,
                              !.stuck = requeued, !.exhausted = exhausted,
                              !.hit = exhausted \cup
                                      {u \in requeued : check[u] # "queued"}]
        /\ UNCHANGED <<submit, pushed, queue, db, lock, worker, stale, slaPast,
                       counters>>

\* _terminalize_run_on_sla_timeout visits the units in the policy's order, in
\* which a unit comes after its dependencies.
SlaVisits(u) ==
    /\ sweep.pc = "sla"
    /\ u \in sweep.todo
    /\ \A v \in sweep.todo : Rank[u] <= Rank[v]

SlaSkip(u) ==
    /\ SlaVisits(u)
    /\ check[u] \in TerminalUnitStatus
    /\ sweep' = [sweep EXCEPT !.todo = @ \ {u}]
    /\ UNCHANGED <<submit, pushed, queue, db, lock, worker, stale, slaPast,
                   counters>>

\* Loaded as not terminal: the unit is going to fail, whatever the row says
\* when its lock is granted.
SlaDecide(u) ==
    /\ SlaVisits(u)
    /\ check[u] \notin TerminalUnitStatus
    /\ sweep' = [sweep EXCEPT !.pc = "wait", !.wait = u]
    /\ UNCHANGED <<submit, pushed, queue, db, lock, worker, stale, slaPast,
                   counters>>

SlaWrite ==
    LET u == sweep.wait
    IN  /\ sweep.pc = "wait"
        /\ Free({u}, Sweeper)
        /\ lock' = Acquired({u}, Sweeper)
        /\ sweep' = [sweep EXCEPT !.pc = "sla", !.wait = NoUnit,
                                  !.todo = @ \ {u}, !.hit = @ \cup {u}]
        /\ UNCHANGED <<submit, pushed, queue, db, worker, stale, slaPast,
                       counters>>

\* Check and result are both failed, for every unit that it has decided on.
SlaFailed(rows) == [u \in Unit |-> IF u \in sweep.hit THEN "failed" ELSE rows[u]]

\* (mutated: the results are not written)
SlaResultsForgotten == result

SlaResults == SlaFailed(result)

\* The aggregate has a failed unit: nothing advances, and the stage row is
\* not looked at.
SlaCommit ==
    LET touched == sweep.hit # {}
        written == IF touched THEN sweep.hit \cup {"run"} ELSE {}
    IN  /\ sweep.pc = "sla" /\ sweep.todo = {}
        /\ Free(written, Sweeper)
        /\ check' = SlaFailed(check)
        /\ result' = SlaResults
        /\ run' = IF touched THEN RunStatusOf(check') ELSE run
        /\ card' = IF touched THEN CardOf(app, stage) ELSE card
        /\ stale' = stale \ written
        /\ lock' = Released(Sweeper)
        /\ sweep' = SweepIdle
        /\ UNCHANGED <<submit, pushed, queue, attempts, stage, app, movedBy,
                       worker, slaPast, counters>>

\* The statuses as the sweep's session holds them once hit is flushed.
SweepView(hit) ==
    [u \in Unit |-> IF u \in sweep.exhausted THEN "failed"
                    ELSE IF u \in sweep.stuck \cup hit THEN "queued"
                    ELSE check[u]]

\* Stuck units are failed or queued again, then the first wave is, then the
\* followups. Only a changed status is an UPDATE; the jobs are in Redis now.
StuckRequeue ==
    LET S == sweep.stuck
        loaded == SweepView(sweep.hit)
        W == {u \in FirstWave : loaded[u] \in {"pending", "queued"}}
        firstDone == [u \in Unit |-> IF u \in W THEN "queued" ELSE loaded[u]]
        F == ReadyFollowups(firstDone)
        hit == sweep.hit \cup {u \in W \cup F : loaded[u] = "pending"}
    IN  /\ sweep.pc = "stuck"
        /\ Free(hit, Sweeper)
        /\ \E s \in Sent(S), t \in Sent(W), f \in Sent(F) :
              Enqueue(s \o t \o f,
                      Cardinality(S) + Cardinality(W) + Cardinality(F), queue)
        /\ lock' = Acquired(hit, Sweeper)
        /\ sweep' = [sweep EXCEPT !.pc = "recompute", !.hit = hit]
        /\ UNCHANGED <<submit, pushed, db, worker, stale, slaPast, ingests,
                       moves>>

\* (mutated: the run is not recomputed)
SweepAggregateAsSeen == sweep.seen

\* The aggregate of what the session holds. A ready run has nothing to write
\* but itself, and advances.
SweepAggregate == RunStatusOf(SweepView(sweep.hit))

RunRow(agg) == IF agg # sweep.seen THEN {"run"} ELSE {}

\* The run is recomputed and the card rebuilt. The unit results and the stage
\* row are not written.
StuckCommit ==
    LET agg == SweepAggregate
        written == sweep.hit \cup RunRow(agg)
    IN  /\ sweep.pc = "recompute"
        /\ ~AutoAdvances(agg)
        /\ Free(RunRow(agg), Sweeper)
        /\ check' = [u \in Unit |-> IF u \in sweep.hit THEN SweepView(sweep.hit)[u]
                                    ELSE check[u]]
        /\ run' = IF "run" \in written THEN agg ELSE run
        /\ card' = CardOf(app, stage)
        /\ stale' = stale \ written
        /\ lock' = Released(Sweeper)
        /\ sweep' = SweepIdle
        /\ UNCHANGED <<submit, pushed, queue, attempts, result, stage, app,
                       movedBy, worker, slaPast, counters>>

StuckDecideAdvance ==
    /\ sweep.pc = "recompute"
    /\ AutoAdvances(SweepAggregate)
    /\ Free({"run"}, Sweeper)
    /\ lock' = Acquired({"run"}, Sweeper)
    /\ sweep' = [sweep EXCEPT !.pc = "advance"]
    /\ UNCHANGED <<submit, pushed, queue, db, worker, stale, slaPast, counters>>

\* The questions are drafted: what was decided is written.
StuckAdvance ==
    /\ sweep.pc = "advance"
    /\ Free({"application"}, Sweeper)
    /\ run' = "ready"
    /\ app' = "application_review"
    /\ movedBy' = "system"
    /\ card' = CardOf(app', stage)
    /\ stale' = stale \ {"run"}
    /\ lock' = Released(Sweeper)
    /\ sweep' = SweepIdle
    /\ UNCHANGED <<submit, pushed, queue, check, attempts, result, stage, worker,
                   slaPast, counters>>

SweepRollback ==
    /\ lock' = Released(Sweeper)
    /\ sweep' = SweepIdle
    /\ UNCHANGED <<submit, pushed, queue, db, worker, stale, slaPast, ingests,
                   moves>>

SweepAbort ==
    /\ sweep # SweepIdle
    /\ faults < MaxFaults
    /\ faults' = faults + 1
    /\ SweepRollback

-----------------------------------------------------------------------------
(* Deadlock: a ring of transactions of which each waits for a row that the *)
(* next one holds. The database rolls one of them back.                    *)

WorkerNeeds(w) ==
    CASE pc[w] = "starting" -> StartRows(w)
      [] pc[w] \in {"running", "detached"} ->
             UNION {FinishRows(w, out) : out \in TerminalUnitStatus}
      [] pc[w] = "finishing" -> CommitRows(w)
      [] OTHER -> {}

SweepWaits ==
    CASE sweep.pc = "wait" -> {sweep.wait}
      [] sweep.pc = "sla" /\ sweep.todo = {} /\ sweep.hit # {} -> {"run"}
      [] sweep.pc = "advance" -> {"application"}
      [] sweep.pc = "recompute" -> RunRow(SweepAggregate)
      [] OTHER -> {}

\* Whom each transaction waits for: those that hold the rows it needs.
Waits ==
    [g \in Worker \cup {Sweeper} |->
        LET needs == IF g = Sweeper THEN SweepWaits ELSE WorkerNeeds(g)
        IN  {lock[r] : r \in needs} \ {Nobody, g}]

Deadlocked(h) ==
    LET waits == Waits
    IN  /\ waits[h] # {}
        /\ \E ring \in SUBSET {g \in DOMAIN waits : waits[g] # {}} :
              /\ h \in ring
              /\ \A g \in ring : /\ waits[g] \cap ring # {}
                                 /\ \E y \in ring : g \in waits[y]

SweepVictim == Deadlocked(Sweeper) /\ SweepRollback /\ UNCHANGED faults

WorkerVictim(w) == Deadlocked(w) /\ WorkerRollback(w) /\ UNCHANGED faults

-----------------------------------------------------------------------------
(* Time, the webhook and the commission.                                   *)

TenMinutes ==
    /\ "stale" \in Clock
    /\ run # "absent"
    /\ stale # Unit \cup {"run"}
    /\ stale' = Unit \cup {"run"}
    /\ UNCHANGED <<submit, pushed, queue, db, lock, worker, sweep, slaPast,
                   counters>>

SlaPasses ==
    /\ "sla" \in Clock
    /\ run # "absent"
    /\ ~slaPast
    /\ slaPast' = TRUE
    /\ UNCHANGED <<submit, pushed, queue, db, lock, worker, sweep, stale,
                   counters>>

\* ingest_external_unit_result: a status of any kind, from anyone who holds
\* the key, at any time, over whatever the unit is.
Ingest(u, s) ==
    LET mem == [check EXCEPT ![u] = s]
        agg == RunStatusOf(mem)
        F == ReadyFollowups(mem)
        touched == {f \in F : mem[f] = "pending"}
    IN  /\ u \in External
        /\ run # "absent"
        /\ ingests < MaxIngests
        /\ Free({u, "run", "stage"} \cup touched \cup
                IF AutoAdvances(agg) THEN {"application"} ELSE {}, Nobody)
        /\ check' = [v \in Unit |-> IF v \in touched THEN "queued" ELSE mem[v]]
        /\ result' = [result EXCEPT ![u] = s]
        /\ run' = agg
        /\ stage' = StageAfter(agg)
        /\ app' = IF AutoAdvances(agg) THEN "application_review" ELSE app
        /\ movedBy' = IF AutoAdvances(agg) THEN "system" ELSE movedBy
        /\ card' = CardOf(app', stage')
        /\ \E j \in Sent(F) : Enqueue(j, Cardinality(F), queue)
        /\ stale' = stale \ ({u, "run"} \cup touched)
        /\ ingests' = ingests + 1
        /\ UNCHANGED <<submit, pushed, attempts, lock, worker, sweep, slaPast,
                       moves>>

Moves(target) ==
    /\ app = "initial_screening"
    /\ Free({"application"}, Nobody)
    /\ moves < MaxMoves
    /\ moves' = moves + 1
    /\ app' = target
    /\ movedBy' = "committee"
    /\ UNCHANGED <<submit, pushed, queue, run, check, attempts, result, stage,
                   lock, worker, sweep, stale, slaPast, faults, ingests>>

\* The kanban: allowed once the data check has ended with problems.
KanbanAdvance ==
    /\ RunStatusOf(check) \in {"partial", "failed"}
    /\ Moves("application_review")
    /\ card' = CardOf(app', stage)

\* POST screening/transition: these two leave the card as it is. An
\* administrator may be allowed past the check of the run.
ManualScreeningPassed ==
    /\ BypassDataCheck \/ RunStatusOf(check) = "ready"
    /\ Moves("application_review")
    /\ UNCHANGED card

RevisionRequired ==
    /\ Moves("application")
    /\ UNCHANGED card

-----------------------------------------------------------------------------
WorkerStep(w) ==
    \/ TakeRunNotFound(w) \/ TakeBatchComplete(w) \/ TakeTerminalCheck(w)
    \/ TakeUnit(w) \/ Claim(w) \/ ClaimLost(w) \/ Start(w)
    \/ \E out \in TerminalUnitStatus : Finish(w, out)
    \/ Commit(w)

SweepStep ==
    \/ SweepBegin
    \/ \E u \in Unit : SlaSkip(u) \/ SlaDecide(u)
    \/ SlaWrite \/ SlaCommit \/ StuckRequeue \/ StuckCommit
    \/ StuckDecideAdvance \/ StuckAdvance

Submit == (\E u \in Unit : SubmitPush(u)) \/ SubmitCommit

BreakDeadlock == SweepVictim \/ \E w \in Worker : WorkerVictim(w)

Commission == KanbanAdvance \/ ManualScreeningPassed \/ RevisionRequired

Next ==
    \/ Submit \/ SubmitAbort
    \/ \E w \in Worker : WorkerStep(w) \/ CommitClaim(w) \/ Crash(w)
    \/ SweepStep \/ SweepAbort
    \/ BreakDeadlock
    \/ TenMinutes \/ SlaPasses
    \/ \E u \in Unit, s \in UnitStatus : Ingest(u, s)
    \/ Commission

Spec == Init /\ [][Next]_vars

\* The workers' loop, the sweep's timer, the lock manager and the clock do not
\* stop, and a processor returns (it has its own time limits). A row lock is
\* granted in the order of the requests, hence the strong fairness of whoever
\* waits for one. Faults, the webhook and the commission owe nothing.
Fairness ==
    /\ WF_vars(Submit)
    /\ \A w \in Worker : SF_vars(WorkerStep(w))
    /\ SF_vars(SweepStep)
    /\ WF_vars(BreakDeadlock)
    /\ WF_vars(TenMinutes)
    /\ WF_vars(SlaPasses)

FairSpec == Spec /\ Fairness

-----------------------------------------------------------------------------
(* Properties. Those that speak of "the workers alone" hold while neither  *)
(* the sweep nor the webhook writes; the runs say which.                   *)

Executing(w) == pc[w] \in {"starting", "running", "detached", "finishing"}

\* Two workers never execute the same unit at once, however many jobs of it
\* are in Redis (try_claim_unit_check_for_execution), unless its processor
\* gives the claim's lock away half way.
ClaimExclusive ==
    \A v, w \in Worker :
        (v # w /\ Executing(v) /\ Executing(w) /\ job[v] = job[w])
            => job[v] \in MidCommit

\* A unit that has ended is not executed again: of duplicate jobs (pushed by
\* the sweep, by the webhook, or again by a worker that looks after followups)
\* all but the first end at the terminal check or at the conditional claim,
\* whatever was committed between the two.
NeverRedone ==
    [][\A u \in Unit :
        attempts'[u] > attempts[u] => check[u] \notin TerminalUnitStatus]_vars

\* Why these two hold: the invariant of their proofs.
\* Nobody works before the run is committed.
NoRunNoWork ==
    /\ submit = "open" => run = "absent"
    /\ run = "absent" => sweep = SweepIdle /\ \A w \in Worker : pc[w] = "idle"

\* Whoever is going to write a check without looking at it again holds its row
\* lock, or has committed in the middle.
WorkerLocks(w) ==
    /\ pc[w] \in {"starting", "running", "finishing"} => lock[job[w]] = w
    /\ pc[w] = "finishing" => \A f \in tx[w].follow : lock[f] = w
    /\ pc[w] = "detached" => job[w] \in MidCommit

SweepLocks == sweep.pc = "recompute" => \A u \in sweep.hit : lock[u] = Sweeper

LockDiscipline == SweepLocks /\ \A w \in Worker : WorkerLocks(w)

\* A claim that is not committed yet.
Claims(w) ==
    \/ pc[w] \in {"starting", "running"}
    \/ pc[w] = "finishing" /\ tx[w].attempts > attempts[job[w]]

\* What the claim has seen stays so until its worker commits.
ClaimStands ==
    \A w \in Worker : Claims(w) => check[job[w]] \in {"pending", "queued"}

Ownership == NoRunNoWork /\ LockDiscipline /\ ClaimStands

\* Workers, the webhook or the SLA: the committed run status is the aggregate
\* of the committed checks as soon as the last one is terminal. Whoever ends
\* the last units at the same time must not each miss the other's. (Webhook and
\* SLA together may: a unit reopened behind the sweep is ended by a worker
\* that has not seen what the sweep is failing.)
RunAgreesWithChecks ==
    (/\ AllTerminal(check) \/ run \in TerminalRunStatus
     /\ ingests = 0 \/ ~slaPast)
        => run = RunStatusOf(check)

\* The workers alone: whoever commits the last dependency of a unit queues it
\* (enqueue_ready_followup_jobs), so none is left pending behind terminal
\* dependencies.
NoStrandedFollowup ==
    \A u \in Unit \ FirstWave :
        (run # "absent" /\ DependenciesMet(u, check)) => check[u] # "pending"

\* Without faults a queued follow-up has a job in Redis or in a worker's hands,
\* although its job is pushed before the commit that queues it. (The same is
\* not so for the first wave: see SubmitPush and TakeRunNotFound.)
QueuedFollowupHasJob ==
    \A u \in Unit \ FirstWave :
        (check[u] = "queued" /\ faults = 0) =>
            \/ \E i \in DOMAIN queue : queue[i] = u
            \/ \E w \in Worker : job[w] = u

\* The follow-ups of a unit are carried on: at the commit of whoever ends the
\* last dependency they are queued, and what is queued has a job
\* (enqueue_ready_followup_jobs, enqueue_data_check_unit).
FollowupsCarried == NoStrandedFollowup /\ QueuedFollowupHasJob

\* _try_auto_advance at the last worker's commit: a ready run does not wait on
\* initial_screening for anybody.
ReadyNeverWaits == run = "ready" => app # "initial_screening"

\* What a run has come to stands, whoever ends it: its status is that of its
\* checks, and a ready one has moved the application on.
RunStands == RunAgreesWithChecks /\ ReadyNeverWaits

\* _try_auto_advance: the system moves an application only in a step after
\* which every unit of the run has been completed.
AdvanceOnlyWhenReady ==
    [][(app = "initial_screening" /\ app' = "application_review"
            /\ movedBy' = "system")
        => \A u \in Unit : check'[u] = "completed"]_vars

\* The unit result the reviewers read ends as its check has ended.
ResultFollowsCheck ==
    \A u \in Unit : check[u] \in TerminalUnitStatus => result[u] = check[u]

\* apply_transition: the system's screening_passed leaves initial_screening
\* and no other stage; what the commission decided meanwhile stands.
ScreeningPassedFromScreening ==
    [][(app' = "application_review" /\ app # app' /\ movedBy' = "system")
        => app = "initial_screening"]_vars

\* The workers alone: row locks, conditional claims and commits implement the
\* sequential pipeline of DataCheckPromise. A commit is the end of its unit, and
\* carries the verdict, the card and the advance; every other step is hidden.
Promise == INSTANCE DataCheckPromise WITH
    at <- app,
    outcome <- [u \in Unit |-> IF check[u] \in TerminalUnitStatus
                               THEN check[u] ELSE "open"],
    verdict <- IF AllTerminal(check) THEN run ELSE "open",
    shown <- card

KeepsThePromise == Promise!Spec

\* Every submitted run ends.
RunTerminates == submit = "committed" ~> run \in TerminalRunStatus

=============================================================================
