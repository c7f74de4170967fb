# inVision U: a formal model of the admissions platform

This directory holds TLA+ specifications of the admissions platform in this
repository, the TLC configurations that check them on small instances, and
proofs that the TLA+ proof system (TLAPS) checks for all instances. The
modules follow an application from the form the candidate fills in to the
final decision: the form and its documents, the **data check** that analyses a
submitted application in a job queue, what two of its analyses compute, the
runs in their tables, the **AI interview** and its **preference window**, the
stages and the kanban card, the engagement and the review scores that the
commission reads.

Paths below are relative to `apps/api/src/invision_api/` unless they start with
another directory of the repository.

## 1. Inventory

| Component | State it keeps | Operations | What is hard | What makes it correct |
|---|---|---|---|---|
| Data-check rules (`services/data_check/status_service.py`, `job_registry.py`) | none | `compute_run_status`, `dependencies_met`, the policy table | – | a run ends only when every unit has; `ready` means all completed |
| Data-check pipeline (`submit_bootstrap_service.py`, `job_runner_service.py`, `reconcile_service.py`, `workers/job_worker.py`) | run, checks, unit results, the stage row of `initial_screening`, the kanban card | bootstrap, `run_unit`, follow-ups, auto-advance | several workers, duplicate and lost jobs, pushes before commits, a commit in the middle of a unit | no unit executed twice, none stranded, the run status is the aggregate, the application moves only when ready |
| Sweep (`orchestrator_service.py`, `scripts/job_worker.py`) | none of its own | `sweep_stuck_runs`, SLA terminalization, repair, retirement | a concurrent thread that writes rows it read earlier | every run ends; what has ended stays so |
| External ingestion (`external_ingestion_service.py`) | writes the same rows | `ingest_external_unit_result` | any status at any time, also over ended units | the aggregate follows |
| Validation orchestrator (`apps/candidate-validation-orchestrator`), backfill (`services/backfill`) | runs and checks in the same two tables | submit, three workers, reprocess; a recomputation with a version marker | autocommitted statements, a push that times out, repeated jobs; a commit half way | a pass is deserved, a check has someone who carries it, a version is computed once |
| Certificate unit and service (`processors/certificate_validation_processor.py`, `apps/certificate-validation`) | rows of answers, scratch files | classify, extract, judge; one call per document | calls that go on after their timeout, misread figures, an insert that fails | a verdict is of its own document and earned |
| Video unit (`services/video_processing`, `services/link_validation`) | a row of results, temporary files | validate the link, fetch subtitles, load, look, listen, sum up | every step is another program or site | completed means watched, unavailable means certain |
| Form (`services/application_service.py`, `internal_test_service.py`, `document_service.py`) | sections and their flags, answers, documents, files | save, answer, finalize, upload, reset, submit | flags of other rows' state, requests that overlap, a file before its row | what is submitted is complete and stays so |
| Stages (`stage_transition_policy.py`, `stage_transition_guard.py`, `services/stages/*`, `commission/application/service.py`) | stage, state, lock, history, stage rows, decision, projection | eight transitions, marks, archive, reopen, decide | two requests that both decide on what they loaded; routes that do not rebuild the card | the history is a path, lock and state follow the stage, one decision, one active application |
| AI interview (`services/ai_interview/service.py`) | question set, revision, answers | generate, patch, approve, answer, complete | an LLM call between read and write, revisions | the stage moves with an approved set, the answers settle |
| Preference window, scheduling, reminders | window status and expiry, session, reminder marks | open, expire, submit, schedule, remind | the clock, a sweep, a mail sent before its commit | one window that ends |
| Engagement (`engagement_scoring_service.py`, `candidate_activity_service.py`) | timestamps of many rows, activity events | every act of the candidate, the insight | rows written over or erased, clients' clocks, two tables of thresholds | silence is noticed, acts never hurt, levels agree |
| Review scores (`section_score_service.py`, `motivation_heuristics.py`, `kanban_border_hints.py`) | scores of each reviewer | recommend, save, the board's total | overlapping saves, floors against penalties | a save stands, the board shows the latest review, better is never less |
| The commission's desk (`commission/application/service.py`, `ai_pipeline_service.py`, `history_service.py`) | tags, rubric scores, internal recommendations, comments, AI summaries, the card's recommendation, audit events | set tags, vote, comment, summarise, rebuild, list the history | a deletion that does not see later rows, a loaded column that is not written again, a cached hash | what was said last stands and is in the history, a summary is not paid for twice |
| LLM content, personality profile, link lists, text extraction | results | – | texts and I/O | – |
| Auth, sidebar, exports, web | their rows | – | little concurrency | – |

How they interact: the API process writes rows in one transaction per request
and pushes jobs on the Redis list `invision:admission_jobs`; a worker process
pops a job and executes it in one transaction; a **thread** of the worker
process sweeps every 30 seconds in a transaction of its own
(`scripts/job_worker.py:210-215`; the document says "on idle", which is how the
other two sweeps run); the commission's requests and the webhook write the same
rows. The certificate service is called over HTTP by the worker and by the
TypeScript orchestrator, which has its own queues (BullMQ) and shares the
tables of runs and checks. `PROJECT.json` lists every component with what is
modelled of it, and every hazard with the properties that are about it.

## 2. Plan

| # | Module | Models | State |
|---|---|---|---|
| 1 | `DataCheckStatus` | the pure rules of the aggregate | done |
| 2 | `DataCheckPipeline` (`MCDataCheckPipeline`) | one run of one application, all of its actors | done |
| 2a | `DataCheckPromise` | what 2 promises, implemented by it | done |
| 2p | `DataCheckPipeline_proofs` | types and exclusive execution, with all actors; what a run comes to, without the stuck sweep; the workers alone, and that they implement 2a | done |
| 3 | `AIInterview` | drafts, revisions, approval, answers, completion | done |
| 4 | `InterviewWindow`, `InterviewWindow_proofs` (`MCInterviewWindow`) | composes 3 with the window, scheduling and the sweep | done, but for the outcome |
| 5 | `Lifecycle`, `Lifecycle_proofs` (`MCLifecycle`) | all stages, history, decision, card, archive, reopening | done |
| 6 | `ValidationRuns`, `ValidationRuns_proofs` (`MCValidationRuns`) | several runs: data check, sweep, backfill, orchestrator | done |
| 7 | `ApplicationForm`, `Candidate_proofs` (`MCApplicationForm`) | sections, test, documents, submission | done |
| 8 | `CertificateRules`, `CertificateCheck`, `CertificateCheck_proofs` (`MCCertificateCheck`) | the certificate unit and its service | done |
| 9 | `VideoRules`, `VideoCheck`, `VideoCheck_proofs` (`MCVideoCheck`) | the video unit | done |
| 10 | `Engagement`, `Candidate_proofs` (`MCEngagement`) | activity and the two levels | done |
| 11 | `ScoreRules`, `SectionScores`, `CommissionDesk`, `CommissionDesk_proofs` (`MCSectionScores`) | recommendations, saves, the board; tags, votes, comments, summaries, history | done |
| 12 | smaller parts | verification codes, outcome of an interview, the link unit | open |

Every invariant and every action property that a run checks is a theorem. What
is left is about what must happen eventually: the five liveness properties, and
`AnswersSettle` of 4, where the answers come to rest only because finitely many
late saves are open.

## 3. The modules

What they have in common: the variables hold **committed** rows. A handler is a
request that *loads* (and decides) and *commits* later, with no lock in
between, unless the code takes one; the database is PostgreSQL at READ
COMMITTED, SQLAlchemy's session neither flushes by itself (`db/session.py`) nor
reads again what it has loaded, and an UPDATE names only the columns that
differ from what was loaded. Requests that are refused change nothing and are
no steps; `Drop` is a request that dies. Properties that hold only when no two
requests overlap say so with a history variable (`raced`, `overlapped`,
`disturbed`), so that everything else is checked under overlap.

**`DataCheckStatus`** has the policy table as parameters (`Unit`, `Required`,
`Deps`) and the rules as operators: `RunStatusOf` is `compute_run_status`,
`DependenciesMet`, `ReadyFollowups` the selection in
`enqueue_ready_followup_jobs`, `StageStatusOf` the commission's stage status. A
unit without a row counts as pending in the code; `statuses` is total here.

**`DataCheckPipeline`** is one run. How its state corresponds to the code:

- `run`, `check`, `attempts`, `result`, `stage`, `app`, `movedBy`, `card` are the
  committed rows (run, checks, unit results, the `initial_screening` stage
  state, the application's stage, the actor of its last transition, the kanban
  projection).
- `lock` holds the row locks of the UPDATEs that a transaction has flushed. A
  row is locked when the code flushes, not when it assigns; a run that was
  loaded with the status it is assigned is not written (`seen`).
- `queue` is the Redis list. A push is visible at once, a pop is final.
- `submit`, `pushed`: the submit transaction, whose jobs are out before it
  commits. A strict push that fails aborts it (503) and leaves the jobs pushed.
- `pc`, `job`, `seen`, `tx`: a worker and its transaction: *claiming* (after the
  checks at the head of `run_unit`), *starting* (claimed), *running* (stage row
  and run flushed, the processor at work), *detached* (the processor has
  committed the session half way, as `validate_candidate_link` does), and
  *finishing* (all is decided and the follow-ups' jobs are pushed, but not
  committed). What `finishing` will write is in `tx`.
- `sweep`: the sweep thread's transaction, in the order of the code: for the SLA
  unit by unit (load, wait for the row, write), else the stuck units, first wave
  and follow-ups, then the recomputation, then the auto-advance.
- `stale`, `slaPast`: the clock, as what the sweep's queries see of it.
- `faults`, `ingests`, `moves` count the environment's actions, to bound them.

| Actions | Code |
|---|---|
| `SubmitPush`, `SubmitCommit`, `SubmitAbort` | `submit_application_with_outcome`, `bootstrap_data_check_pipeline`, `enqueue_first_wave_jobs` |
| `TakeRunNotFound`, `TakeBatchComplete`, `TakeTerminalCheck`, `TakeUnit` | the head of `run_unit`, with its early returns |
| `Claim`, `ClaimLost` | `try_claim_unit_check_for_execution` |
| `Start`, `CommitClaim`, `Finish`, `Commit` | the rest of `run_unit`, the commit of `process_payload`, the commit of `validate_candidate_link` |
| `Crash`, `WorkerVictim` | the rollback of `process_payload`, or the end of the process |
| `SweepBegin`, `Sla*`, `Stuck*`, `SweepAbort`, `SweepVictim` | `sweep_stuck_runs`, `_terminalize_run_on_sla_timeout`, `_run_sweep` |
| `Ingest` | `ingest_external_unit_result` |
| `KanbanAdvance`, `ManualScreeningPassed`, `RevisionRequired` | `advance_stage` with its guard, `screening/transition` |
| `TenMinutes`, `SlaPasses` | the clock |

Row locks, lock waits and deadlock detection stand for PostgreSQL, and the list
for Redis; they are marked external in the map. A worker waits by its action
being disabled; a ring of waiting transactions is broken by `BreakDeadlock`,
which rolls one of them back, and whose job is then lost. Abstractions: an
outcome of a processor is any of the three terminal statuses (an exception is
`failed`; an unsupported status becomes `failed` too); payloads, warnings,
messages, audit and `AnalysisJob` rows are left out, as nothing here reads them
back; webhook calls and the commission's requests are single steps that wait
for every lock they need; the legacy status `processing` is not written by this
code any more. The window in which an advance is decided but not yet written is
kept, because it is as long as an LLM call. `BypassDataCheck` lets an administrator
pass the screening without the run's being ready, as the guard's
`allow_screening_passed_bypass_data_check` does.

**`DataCheckPromise`** is the same run without queue, workers, locks or
transactions: units end one at a time, each once and after all it depends on;
in the step in which the last one ends there is a verdict, the card shows it,
and an application without problems has left the screening stage.
`KeepsThePromise` in `DataCheckPipeline` is its specification under the
refinement mapping (the committed rows, with `open` for what has not ended).

**`AIInterview`** is the interview of one application, from the first draft to the
completion. `app`, `row` (the question set), `answers` and `sessions` are the
committed rows; `edit` and `visit` are the requests of the commission's members
and of the candidate's tabs. `upsert_draft`, which queries the set after the LLM
call, sees a set that the request had *not* found before as it is now, and one
that it had found as it was then (`UpsertDraft`). A flush takes the row's lock
until the commit; in all requests but one the commit follows at once, and both
are one step. The completion holds its rows while the LLM sums the interview
up: `finisher` is the tab that holds the set, `Busy` says who holds the
application.

| Actions | Code |
|---|---|
| `StartGenerate`, `FinishGenerate` | `generate_ai_interview_draft` around its LLM call |
| `StartPatch`, `FinishPatch` | `patch_draft_questions`, before and after its checks |
| `StartApprove`, `FinishApprove` | `approve_ai_interview`, before and after the row lock it waits for |
| `StartSave`, `FinishSave` | `save_candidate_answers_stub` |
| `StartComplete`, `FlushCompletion`, `WriteWindow`, `FinishComplete` | `complete_candidate_ai_interview`: checks, first flush, the window's flush, commit |
| `DropEdit`, `DropVisit`, `DropPlan` | a request that dies |

A list of questions is one value; `Asks` says which questions of it have a text.
A drafting on entry to the stage, or by a script, is a `StartGenerate` without
`force`.

**`InterviewWindow`** EXTENDS it by what follows the completion: `bookings` are
the slots of the submissions that stand, `plan` the scheduling requests, `sweep`
the transaction of the worker's idle sweep. `StartSubmit`/`FinishSubmit` are
`submit_interview_preferences`, `StartSchedule`/`FinishSchedule` are
`schedule_commission_interview`, `StartSweep`/`FinishSweep` are
`sweep_expired_preference_windows`; `Opened`, `Ensured` and `Closed` are the three
functions that decide on the window's status. `deadline` is the clock as those
functions see it.

**`Lifecycle`** has the applications of one candidate (`app[a]`: stage, state,
lock, submitted, archived), their `history`, `stageRow`s, `decision`, `card` and
the decisions `told`. `Ask*` are the guards of the routes (candidate,
commission, internal, the worker's auto-advance, the approval of a question
set), `Commit*` the handlers: `After` is `apply_transition`, `Record` its two
history helpers, `Rebuild` the projection's rebuild, `LeaveCard` the routes
that do not rebuild it. Whether the data check, the questions, the interview or
the scores allow a transition is left open: it may be so at any time.

**`ValidationRuns`** has the two tables `run` and `check` for several runs of one
application, numbered in the order of their creation, and who writes them: the
data check with a unit in one step (`Submit`, `Execute`, `Ingest`, `LoseJob`),
the sweep (`Repaired`, `Retire`, `Terminalize`, `Requeue`), the backfill
(`StartBackfill`, `PublishBackfill`, which is the commit half way,
`FinishBackfill`, `FailBackfill`), and the orchestrator, each of whose statements
is a step (`CreateRun`, `InsertCheck`, `Push`, `PushTimesOut`, `MarkFailed`,
`Begin`, `Settle`, `Read`, `Write`, `Retry`, `Reprocess`, `Crash`). `ActiveCanonical` and
`Newest` choose a run as the repository's functions do. A run that is asked for no
checks (`CreateRun(<<>>)`) is answered at once and stays open; the sweep, to which
it looks like a data check without its units, gives it those and it goes on as
one. A list of checks names each once, as `submitValidationRun` builds it.

**`ApplicationForm`** has the sections with their stored flags, the answers, the
documents and the files. A payload is the set of the facts that the rules ask
of it (`Fact`), and one that passes the schema has those of `MustHave`; `IsComplete` is `compute_section_complete`, `Missing` is
`completion_percentage`, `Refreshed` the recomputation after an upload,
`Acceptable`-guards the checks of a named document. An upload stores its file
(`StoreFile`) before it commits (`CommitUpload`). `GiveBack` is the revision that
unlocks the form, `SeedQuestions` the script that replaces questions.

**`CertificateRules`** are the service's pure rules over a page that is the set of
its marks (words that anchor a type) and the sequence of its figures with what
stands near them: `Classify`, `Declared` and `Resolved`, `Extract` for the score,
`Threshold`, `Unlike`, `Authenticity`, and together `Verdict`.
**`CertificateCheck`** runs them: `unit[a]` sends one document after the other
(`Send`, `Receive`, `GiveUp`, `Finish`), `call[c]` is what the service does for
each caller (`Write` the upload, `Draw` the preprocessed image, `Read` or
`ReadLayer`, `Judge`, `Leave`), `scratch` its files by directory, `saved` its
table, `check[f]` the orchestrator's check of a file (`Ask`, `Hear`, `Lose`).
`Crash` kills the service. `force` is `CERTIFICATE_TEMP_FORCE_SUCCESS`.

**`VideoRules`** are the rules of the video unit: `Classify` and `DriveFile` read a link,
`Access` what a page says, `First` the track that is tried first of those that
are left, `Captions` the distinct lines of a track's text, `Outcome` the row. **`VideoCheck`** runs them: `run.pc`
goes from the link's validation (`Begin`, `Probe`, `HeadFile`) to the subtitles
(`Metadata`, `Subtitles`, `Track`) or the file (`Resolve`, `Scratch`, `Load`, `Read`,
`Frame`, `Listen`) to the summary (`Sum`); `disk` has the temporary files and
`left` those of a worker that was killed (`Kill`).

**`Engagement`** counts minutes. Each nullable timestamp is a set with at most
one element, so that a row written over is a set replaced; `events` are the
activity events, which a client may stamp (`Skew`). `Activity` are the timestamps
`_compute_engagement_insight` collects, `RiskScore` and `EngagementScore` its two sums,
`RiskLevel` and `EngagementLevel` what the commission is shown. `acted` is when
the candidate last did anything, which no column says.

**`ScoreRules`** is `compute_recommended_scores` for the five sections over a sheet of
what was counted in the candidate's material, in units of a percent (`Clamp`,
`StrongNegative`, `PathScore`, `CombinedChoice` …). **`SectionScores`** has the
reviewers' rows; `BeginSave` reads, `Flush` writes the columns that differ
(`Changed`), `Refused` is a save that loses to the unique key, `OnBoard` the
reviewer whose total the card carries. `audited` is what the audit events say.

**`CommissionDesk`** EXTENDS it by the rest of the commission's desk; both share the
clock and the bound on what is under way. `BeginTags`/`EndTags`/`RefuseTags` are
`set_tags`, `BeginVote`/`EndVote`/`RefuseVote` the rubric scores and the internal
recommendation, `Comment` is `create_comment`; `BeginSummary`, `SkipSummary`,
`FailSummary` and `EndSummary` are `run_commission_ai_pipeline` around its LLM call
(`Skips` is `_should_skip`, `InputHash` what it hashes), `RebuildCard` is
`rebuild_projection`, `StartCheck`/`EndCheck` the run of a data check and the summary
that its last unit writes, `Feed` is `list_application_history_events`. A column
that is set to what was loaded is not written (`Kept`), whatever it is by then; a
deletion of tags does not see what was linked after it began. Simplified: no tag
is named twice in one request; "reviewer" stands in the events for whoever asked
for tags or a summary; three sections of the sheet stand for the text that is
summarised.

The **MC modules** give the parameters values; section 4 says which and why.

## 4. The runs

Every property of a passing run has a mutant in `PROJECT.json`: a plausible
mistake in the code (the operators commented "mutated:"), with which TLC finds
the property violated in the same instance.

| Run (cfg) | Instance | Question | Properties |
|---|---|---|---|
| `workers` (`DC_workers`) | `Table` of five units, 3 workers, nothing disturbs | does the follow-up protocol work under every interleaving, and does it implement `DataCheckPromise`? | `FollowupsCarried`, `KeepsThePromise` |
| `sla` (`DC_sla`) | `Pair` with `a` optional, 2 workers, one ingestion of `d`, one fault, one move of the commission, an administrator who may bypass the data check, the SLA passes | does an SLA that ends a run at work leave it consistent, and does every run end because of it? | `RunStands`, `ClaimExclusive`, `ResultFollowsCheck`, `AdvanceOnlyWhenReady`, `RunTerminates` |
| `sweep` (`DC_sweep`) | `Join`, 2 workers, `a` commits half way, 1 attempt | does every run end because of the stuck sweep alone, and is nothing done twice? | `TypeOK`, `NeverRedone`, `RunTerminates` |
| `iw_window` (`IW_window`) | 2 reviewers, 2 tabs, 1 scheduler, two lists of questions | does the stage move with an approved set, do the answers settle, does the window open once and end, whatever races with it? | `AdvanceOnApprovedSet`, `AnswersSettle`, `WindowOpensOnce`, `WindowEnds` |
| `life` (`LC_life`) | 2 requests, 3 applications, 6 rows, 1 mark, 2 decisions | do stage, history, lock, state, decision and card stay in step? | `StagesAgree`, `OneActive`, `CardFollows`, `NeverBackAfterReview` |
| `runs` (`VR_runs`) | 3 runs, two units, two checks of the orchestrator (or none), 2 versions of the content, 1 fault | who carries, retires, ends and advances by which run? | `ChecksStand`, `BackfillOnce`, `AdvancedByCompleteRun`, `RunsEnd` |
| `form` (`AF_form`) | 2 requests, 3 sections, 2 questions, 1 document, given back once | is what is submitted complete, and does it stay so? | `FormOK`, `SubmitsComplete`, `SubmittedStands` |
| `certificate` (`CC_certificate`) | 1 application with 7 forms of attachments, 1 file of the orchestrator, 1 crash | is every verdict of its own document, and earned? | `ServiceOK`, `OwnDocument`, `VerdictsEarned`, `UnitsEnd` |
| `insight` (`EN_insight`) | 6 ticks, a day is one; 2 events; clocks 2 behind or 1 ahead | do the two levels agree, and do silence and acts move them the right way? | `SilenceIsHighRisk`, `LevelsAgree`, `SilenceNeverHelps`, `ActionNeverHurts` |
| `video` (`VC_video`) | 13 kinds of links, 1 kill of the worker | is what a completed unit says so, and does every unit end? | `UnitOK`, `ValidIsLoadable`, `UnavailableIsCertain`, `UnitEnds` |
| `scores` (`SS_scores`) | 2 reviewers, a review of two sections, 3 requests, 2 of them at a time: saves, tags, votes, summaries, a check | does what a reviewer enters stand, in the rows, on the card and in the history, and is better material never worth less? | `ReviewStands`, `DeskStands`, `BetterNeverScoresLower` |
| `sent_back` (`DC_sent_back`) | `Chain`, 2 workers, one move | see section 6 | `ScreeningPassedFromScreening`, violated |

A property that is a conjunction says what belongs together of one invariant:
`RunStands` that a run's status is the aggregate of its checks and that a ready
one has moved the application on; `StagesAgree` is made of
`HistoryIsPath`, `LockFollowsStage`, `StateOfStage` and `ToldTheDecision`;
`ChecksStand`, `FormOK`, `ServiceOK`, `UnitOK` and `ReviewStands` hold the type
invariant of their module and what of its rows has to fit together; `DeskStands`
is made of `TagsStand`, `OpinionsStand`, `HistoryTells`, `NoSummaryTwice` and
`CardTellsSummary`.

**Deadlock** is checked in `iw_window` and `scores`. The others say
`CHECK_DEADLOCK FALSE`, because the system really stops there: a run has ended
and the queue is empty, no application is left to be created, a bound on the
environment's calls is used up.

**Bounds, and why they are enough.** The policy table: the rules distinguish a
unit without dependencies, one that needs several, and one that needs a
dependent. `Table` has them all (the real one is seven units, then
`signals_aggregation`, which needs all of them, then `candidate_ai_summary`),
`Chain` is one of each, `Pair` a unit and its dependent, `Join` two units that can be
processed at the same time and one behind both. Two workers are enough
for a race on a row, three for the last unit of a wave to end while two others
commit. `MaxFaults` (crashes, rollbacks, failed or partial pushes, an aborted
submit) is 1: a single loss is what a run has to survive, and every action is a
place where it can happen; in `sweep` it is 0, because there the deadlocks roll
transactions back and lose their jobs. One attempt in `sweep` means that a unit
whose claim was committed is given up when it is found stuck, and one whose
claim was rolled back is executed again; `sla` has two. `MaxQueue` is how many jobs may wait when a sweep
begins; without it the sweep, which pushes again all that is queued, fills the
list without end. What it excludes is more duplicates of jobs, which the
theorems of section 5 cover without any bound. `Clock` says which of the two
waits elapse: with `stale` alone the SLA does not come to the sweep's rescue.
`MaxRevision` 2 lets one edit be made on what another has replaced. In `life` a
third application is there because an archive creates one: two archives can
race, and a fourth adds nothing to the pair; six rows are enough for an
application to come to a decision, or to be reopened or sent back and come
half the way again. In `runs` three runs are the least with one that is replaced, one
that replaces it and one of the backfill or the orchestrator. In `form` the
sections are one of each kind: with a document, with an upload that others
delete, and the test; the other sections differ in the facts that
`IsComplete` asks for, which the data of this model does not tell apart; of those
whose stored flag is trusted the test is in the instance, and the theorems hold
for any selection. In `insight` the
thresholds that are days keep their order and distances, those that are hours
fall below or above a tick (`Fast`, `Slow`). `Many` is beyond the two events, so
that a second minute of activity does not make up for what it worsens; the
theorems hold for all thresholds and any number of events. In
`video` the durations are at, below and beyond each of the two limits, and the
answers of the tools one of each kind the code distinguishes. In `scores` the
sheets differ from a plain one in one section at a time, as
`compute_recommended_scores` computes each section from its own material; only
two of them get to the reviewers, of whom two requests at a time are enough for
one to write over what the other has read.
Workers, requests, reviewers and the values of answers are interchangeable; the
runs `workers`, `life`, `form` and `scores`, which check no liveness, use that symmetry.

**Fairness.** In `DataCheckPipeline` the submit request, the clock and the
deadlock detector are weakly fair. A worker and the sweep are strongly fair:
both are loops that do not stop (`while True` and a timer), a processor returns
(it has time limits of its own), and a transaction that waits for a row lock is
served in the order of requests, so one that can proceed again and again does.
Crashes, lost pushes, the webhook, the commission and the commit half way are
under no fairness. In `InterviewWindow` the hour passes; a request of the
candidate that has begun ends or dies; the worker's loop is idle again and
again, so that a window that stays over is swept (`WF` of `StartSweep`; the code
relies on the queue emptying now and then, too). `FinishSweep` is strongly fair, as
the row lock it waits for is granted in turn. Nothing is assumed of the
reviewers, of those who schedule, nor of the candidate's beginning anything. In
`ValidationRuns` the sweep comes back to each run (`WF` of `Retire` or
`Terminalize`), and the orchestrator's submitter and workers go on; nothing is
assumed of the data check's workers or the backfill. In `CertificateCheck` a
unit goes on, because every call it waits for has a timeout; the service is
under no fairness at all. In `VideoCheck` the unit goes on, because every tool
has a timeout; that it is killed is a fault.

## 5. What is proved

Eight modules hold the proofs. Their assumptions are the named `ASSUME`s of the
modules they are about: finite tables whose order is compatible with the
dependencies, naturals as bounds, ordered thresholds; that a run can be made
(`MaxRuns` at least 1), that a list of checks names each once, that a form's
payload has what its schema requires and nothing that no rule asks for, that
"none" is no answer and 0 no document's id, that a duration may be unknown, and
that a sheet is one that the analyses can leave (`Sheet`: five questions of the
path, no more links reachable than checked). Nothing else limits the number of
units, workers, requests, reviewers, tabs, applications, faults or calls. A
theorem that needs more says so in its statement.

`DataCheckPipeline_proofs`, for all actors: **`TypeCorrect`**, `Spec => []TypeOK`, by
actor: one lemma for the steps of the submit request, the workers, the sweep,
and the environment. **`ExclusiveClaims`**, `Spec => []ClaimExclusive`, and
**`NothingRedone`**, `Spec => NeverRedone`, from `TypeOK` and the inductive
invariant `Ownership` (**`OwnershipHolds`**). `ClaimExclusive` is not inductive:
that two workers do not execute one unit rests on the row lock that each of
them holds (`LockDiscipline`), and that a unit is not executed again rests on
what an uncommitted claim saw being still true (`ClaimStands`), which in turn
needs every other writer of a check (another worker's follow-ups, the sweep's
requeue, the SLA, the webhook) to hold the row when it writes, or to have
looked. `NoRunNoWork` excludes the webhook and the sweep before the submit
commits. `ExclusiveClaims` says nothing of `MidCommit` units, whose claim's lock
is given away half way; `NothingRedone` covers them too.

The second half of the module is about what a run comes to. **`ReadyMovesOn`**,
`Spec => []ReadyNeverWaits`, has no hypothesis: whoever makes a run ready moves the
application in the same transaction (`Ready`). The others assume
`"stale" \notin Clock`, that the sweep finds no run stuck: with it the properties
are false (section 6). `RunInv` (**`RunInvHolds`**) says who holds the run's and the
stage's rows while a worker decides (`Holding`), and that whoever is about to
advance has seen every other unit completed (`Advancing`); from it
**`ResultsFollow`**, `Spec => []ResultFollowsCheck`, and **`AdvancesWhenReady`**,
`Spec => AdvanceOnlyWhenReady`. Without half-way commits (`MidCommit = {}`)
`Agreement` and `Queueing` (**`AgreementHolds`**) say that what a worker *will* write
agrees with the checks as its commit leaves them, because the row of the stage
is the token that orders the workers' commits; from it **`RunsStand`**,
`Spec => []RunStands`, with the SLA, the webhook and the commission at work, and
**`NoneStranded`**, that no dependent stays pending behind what has ended. That
`RunsStand` must except runs that both the SLA and the webhook have been at was
found by this proof.

The last part is about the workers alone (`Clock`, `External` and
`MidCommit` empty), with crashes, failed pushes and the commission's moves:
`WorkersAlone` (**`WorkersAloneHolds`**) says which rows a worker locks when (`Tidy`)
and that a job is of a unit whose dependencies have ended or are ending in a
commit under way, and that a queued unit has a job (`InOrder`). From it
**`FollowupsAreCarried`**, `Spec => []FollowupsCarried`, and, where nothing fails and
the commission waits (`MaxFaults = 0`, `MaxMoves = 0`), **`ThePromiseIsKept`**,
`Spec => KeepsThePromise`: with any table of units and any number of workers, locks,
claims and commits implement the sequential pipeline of `DataCheckPromise`. A
commit is the step in which its unit ends; every other step changes nothing
that the refinement mapping sees.

`ValidationRuns_proofs`: **`ChecksHold`**, `Spec => []ChecksStand`, **`BackfilledOnce`**,
`Spec => []BackfillOnce`, and **`CompleteRunsAdvance`**,
`Spec => AdvancedByCompleteRun`, from `RunsInv` (**`RunsInvHolds`**). It says of every
writer which runs are its own (`OwnRuns`, `Kinds`: what the sweep repairs, the
backfill and the orchestrator create cannot be told apart by all readers),
what a submitter under way has inserted and still has to (`SubmitterOK`), and
of each run that no crash or timeout has disturbed that a check has exactly one
who carries it: one job, or a debt of the pass that has read it (`Undisturbed`).
`OneVersion` ties the backfill's marker to its run.

`InterviewWindow_proofs`: **`InterviewTypeCorrect`**, `Spec => []TypeOK`, and
**`AdvancesOnApprovedSet`**, `Spec => AdvanceOnApprovedSet`, are about `AIInterview`.
`TypeOK` says that a set exists exactly if it has a revision. It is not
inductive, because a stale session writes the revision it has loaded plus one:
the invariant is strengthened by `EditInv`, which says what an edit under way has
loaded. The second theorem is about the stage and the set in one commit: it
holds because the approval decides on the set under its lock.
**`WindowTypeCorrect`**, `WindowSpec => []WindowTypeOK`, and **`HourIsGivenOnce`**,
`WindowSpec => WindowOpensOnce`, are about the window. That it opens once is
a matter of what each open session has loaded and will write. The invariant
(`WInv`) says that whatever was committed since a session loaded is no step back
(`Forward`), that what it writes keeps the window and its time (`Opens`), that an
interview which is completed, has preferences or is scheduled has had its window
opened (`OpenWhenDue`), and what visits, schedules and the sweep have loaded
(`VisitInv`, `PlanInv`, `SweepInv`): only a completion of an interview that nobody
has completed may set the time.

`Lifecycle_proofs`: **`LifecycleAgrees`**, `Spec => []StagesAgree`,
**`AlwaysOneActive`**, `Spec => []OneActive`, **`NeverSentBack`**,
`Spec => NeverBackAfterReview`, and **`CardShowsApplication`**, `Spec => []CardFollows`.
None of the four is inductive, as a commit decides on what was loaded. The
invariant (`LInv`) adds what a request's guards have found in the row it has
loaded (`Loadings`), and that an application that does not exist yet has the
columns of a new one (`Fresh`). `StoreEffect` is the hinge: a commit either finds
what it has loaded, and then writes exactly what its guards allow, or marks the
application as raced. Its columns are written one by one (`Written`), which is why
one active application remains even of applications that requests have raced
for. For the card each handler needs that it either rebuilds it from what it
writes, or writes no column that the card shows, or is one of the routes that
`behind` names.

`Candidate_proofs`, of `ApplicationForm`: **`FormStands`**, `Spec => []FormOK`,
**`SubmissionsAreComplete`**, `Spec => SubmitsComplete`, and
**`SubmittedFormStands`**, `Spec => SubmittedStands`, from `FormInv` (**`FormHolds`**):
what each request has loaded and decided on (`Loaded`), that no two uploads are
of one document (`OneUpload`), and that a section without a row has nothing
(`Blank`). Whether the test is answered is counted by a cardinality in the code
and here; `Missing` and the flags follow for any sections, those whose stored
flag is trusted at submission included, which the instance has one of.

`CertificateCheck_proofs`: **`OwnDocumentHolds`**, `Spec => []OwnDocument`,
**`VerdictsHold`**, `Spec => []VerdictsEarned`, and **`ServiceHolds`**,
`Spec => []ServiceOK`, from `IInv` (**`ServiceInvariant`**), for every text that the
recognition may find. `OwnDocument` speaks of rows only; the invariant follows the
document from the call through the directory, the image and the text to the
answer (`UploadOK`), which needs that nobody else writes in an upload's directory
(`OwnDirectory`), and says of a row by what code it came (`RowRight`). `FileOK` is
the order of `Save` and `Hear`. That a verdict is earned rests on the rules:
`Classified` (a text is of one exam or of none), `ExtractStands` (a score that is
found is a figure of the text; the three sorts have a first element by
`Foremost`, an induction that the library's `WFMin` provides), and
`VerdictSupported`, what each field of a verdict says of the text it was made from.

`Candidate_proofs`, of `Engagement`: **`EngagementTypeCorrect`**, **`LevelsNeverContradict`**
(`LevelsAgree`), **`TimeAloneNeverHelps`** (`SilenceNeverHelps`),
**`SilenceIsNoticed`** (`SilenceIsHighRisk`) and **`ActsNeverHurt`**
(`ActionNeverHurts`), for all thresholds that `EngagementAssumption` orders.
Silence is noticed because of `StampsFollowActs`: no stamp is later than the
candidate's last act by more than a client's clock is ahead. That acts never
hurt is shown bucket by bucket from `ActEffects`: the stamps only grow, as every
row's stamp is that of an event, too, and a stage that the candidate enters is
entered with an act. The proof needed the exception for an answer that a
client stamps ahead of the server's clock.

`VideoCheck_proofs`: **`UnitTellsTheTruth`**, `Spec => []UnitOK`, **`ValidIsLoaded`**,
`Spec => []ValidIsLoadable`, and **`UnavailableIsSo`**, `Spec => UnavailableIsCertain`,
from `VideoInv` (**`UnitInvariant`**), for any links, tracks, texts, durations,
limits and any number of attempts and kills. What the row says is decided at its
end from what was found on the way, so the invariant says at each place of the
run what has been found (`HasVideo`, `Search`), that no track that is left is
better than the one whose text was kept (`Best`), and which files there are
(`Files`). The tracks
have a first one by `Least`, the same use of `WFMin`. `ValidIsLoaded` is about the
hosts that two tables of the code have in common.

`CommissionDesk_proofs`: **`ScoresStandOnTheDesk`**, `DeskSpec => []ReviewStands`,
**`DeskIsKept`**, `DeskSpec => []DeskStands`, and **`BetterMaterialNeverLoses`**,
`DeskSpec => BetterNeverScoresLower`, from `DeskInv` (**`DeskInvariant`**), for any
reviewers, requests and sheets. A request writes by what it has read, so the
invariant says of each one under way how that compares with what is in the
tables. Of a reviewer whose saves do not overlap, the save has read what is
there, which is what was saved last (`Calm`); that a time belongs to one save keeps
the reviewers apart (`ScoresInv`). `TagsInv` and `VotesInv` say the same of tags and
opinions, and `HistoryInv` that each row that stands was logged when it was
written. A run of the summary pipeline is in time, and then the card shows what
it had loaded or what it would have found, or has been overtaken by a check's
own summary (`InTime`, `Overtaken`); nothing else can happen to one that is alone.
`BetterMaterialNeverLoses` goes through the rules of `ScoreRules` key by key. Most
are sums and quotients that grow (`ShareGrows`, `RatioGrows`, `DensityGrows`: a share
of points and a rounded ratio grow in what counts and fall in the rest) under
ladders that keep the order (`LadderIs`). Two do not grow: the ratio of motives
that stands in for a missing one (500 thousandths) is more than a first motive
earns, and a long letter loses the allowance of a short one. `LevelGrows` and
`ChoiceGrows` show why no class is lost: the densities come in quarters, each of
which is in one class with every ratio up to the one that stands in, and ninety
words with the reasons that the allowance asks for are in its class by
themselves. The theorem needs
that no more links are reachable than were checked, as the code counts the
former among the latter.

**Only model-checked.** Liveness (`RunTerminates`, `WindowEnds`, `RunsEnd`,
`UnitsEnd`, `UnitEnds`) cannot be proved with the provers used here, which have no
`ENABLED`. `AnswersSettle` says that the answers come to rest after a completion. A
session that loaded them before may still write, and that only finitely many
can is an induction over the open sessions that temporal steps do not give; TLC
checks it. `DeskInv` itself was not run through TLC, where it takes too long; its
three conclusions were. No module contains a recursive operator, so nothing is
out of reach for that reason.

## 6. Where the code does not do what it says

One has a run whose one property states what the code says of itself, and which
TLC finds violated.

**`sent_back`.** The auto-advance re-reads the stage, changes it in memory, and
drafts interview questions with an LLM before anything is written. A
`revision_required` committed in that window is overwritten, and the application
goes from `application` to `application_review`, although `apply_transition` says
"screening_passed only from initial_screening"
(`services/stage_transition_policy.py:86`).

The following were met while the modules were written. Where a property above is
stated more weakly than one would wish, it is because of one of them; none has a
run of its own.

*Data check.*
- `sweep_stuck_runs` writes `queued` over checks as it loaded them. If another
  writer ends a unit in between, the unit is active again in a run that has
  ended, and nothing sweeps that run again; `RunStands` does not survive this
  sweep beside a second writer, nor a unit that commits half way.
- The webhook can reopen a unit that the SLA's sweep has passed over, and a worker
  then ends that unit without having seen which others the sweep is failing: the
  run's status is not that of its checks. `RunAgreesWithChecks` is therefore not
  about runs at which the SLA and the webhook have both been. The instance of
  `sla` is too small to show it; the proof of `RunsStand` came to it.
- It queues *every* stuck check, and a dependent that waits is stuck after ten
  minutes, too; `run_unit` does not look at dependencies. So a dependent can be
  executed early, though the docstring says the sweep "avoids re-enqueueing
  dependency-wave units too early".
- The SLA decides to fail a unit, waits for the worker that holds its row, and
  fails it after that worker has completed the run and advanced the
  application: a failed run, but `application_review`. It writes no stage row.
- `exceeded_max_attempts` fails the check and leaves the unit's result at
  `running`.
- With two workers, a table of only two units (`Pair`) and only the stuck sweep, the
  sweep and the two workers can roll each other back again and again, and the
  run does not end. The deployment has one worker and nine units, and the SLA
  ends the run; `sweep` has a third unit.

*Interview.*
- Only the approval locks the question set. An edit or a regeneration that read
  the draft before the approval writes its questions after it, into the set
  that the candidate answers; the locked read is meant for "approve / concurrent
  edit safety". A drafting request that found no set can even make an approved
  one a draft while the application is in the interview stage, in which the
  candidate can neither answer nor complete.
- A regenerated draft keeps its revision number, so the edit of a page that
  shows the old questions passes the revision check.
- A save that passed its checks before a completion commits its answers after
  it, changed or blank. `AnswersSettle` says how long that can last.
- The sweep loads an expired window, a submission or a schedule commits, and the
  sweep writes "expired" over it; a completion that has decided to open the
  window does the same to a schedule. A submission after the hour is accepted.
- The slots of two tabs that submit at once both stand (up to six); two members
  who schedule for the first time create two sessions.

*Stages and form.*
- Production sessions do not flush by themselves (`db/session.py:17`), those of
  the tests do (`tests/conftest.py:56`). So the board does not show the first
  mark of a stage until the next rebuild, and the test's stored flag does not
  count the answers of its own request; the same key twice in one request
  violates a unique key; the audit of a comment names it "None"; an export job
  is inserted without its required column.
- `commission/application/mapping.py:44` says "Pre-submit drafts should not appear
  on commission board.", but a saved draft gets a card; a reset leaves card and
  files behind, and erases final answers.
- The routes of `internal_admissions` do not rebuild the card.
  `screening_blocked` leaves the history row of the blocked stage open. The
  personal page still writes to archived applications.
- A tab can save after another has submitted, and a final answer is overwritten
  when two requests overlap (`SubmittedStands` says what holds nevertheless).
- Completeness ignores consents, counts answers to deactivated questions, pads
  the growth path, and never asks whether the ids of education documents exist.
  A resubmission while a run is open makes no new run, and its snapshot keeps
  the old `submitted_at`.

*Runs.*
- `services/backfill/application_backfill_service.py:469` says "Backfill defaults to
  no stage transitions.", but the commit half way in `validate_candidate_link`
  publishes its run, which the sweep then ends and, if it is ready, advances by.
- `trigger_validation_run` has no caller.
- A run that the orchestrator is asked for without checks is never ended by it;
  the sweep repairs it into a data check (it looks for units without
  a row, not at who created the run).

*Certificates and video.*
- The confidence of the OCR is the constant 0.7. A completed document need not
  reach its threshold. `CERTIFICATE_TEMP_FORCE_SUCCESS` is on by default: the
  model has it as a choice, and `VerdictsEarned` is about verdicts it has not
  forced. A document that is attached twice gets its first role both times.
  The preprocessed image of a document that is named by its path lies next to
  it under one name, which documents in one folder share; the instance has one
  such file, and its uploads have directories of their own.
- A link without a scheme can be saved but not checked; a missing ffmpeg is
  reported as a missing yt-dlp; any warning gives a completed unit the code
  `video_processing_error`; a caption fetch that times out ends the search for
  tracks; a video too long for YouTube counts as completed, and a longer file
  is cut at 60 minutes, of which 20 are heard. A killed worker leaves its
  temporary files. The download may take longer than the sweep's waiting time.

*Engagement and scores.*
- An application sent back is "severe" at once, since old stamps count. Sending a
  reminder replaces the time it was asked for, and rescheduling keeps sent and
  requested stamps. A client's clock that is ahead keeps the candidate
  "online", and makes an answer to a reminder that is almost a day old count as
  late (`engagement_scoring_service.py:386`); a first event in the past replaces the registration. The text says
  that engagement is reduced when it is high at a medium risk.
- Overlapping saves of one reviewer leave a mixture of both (`ReviewStands` is
  about those that do not overlap); their `updated_at` is
  the start of the transaction; the first saves of two tabs violate the unique
  key.
- `review_readiness` can drop from 4 to 3 as material grows; two spam phrases in
  one answer keep a floor of 3; an intrinsic ratio of 0 counts as a half; the
  motivation levels 2 and 3 cannot be reached, and an empty letter scores 3.
  `BetterNeverScoresLower` says of which material more is never worth less.
  `recommended_score` is written and never read.
- `approve_ai_interview` moves the application without asking for the scores,
  though `stage_transition_guard.py:1` calls itself the "single source of truth
  for guards".

## 7. Not modelled, and why

- The outcome of an interview, and that a reminder is sent once: the mail goes
  out before its mark is committed, by two actors, and nothing in the repository
  promises more (section 6).
- Verification codes, sessions, refresh tokens: rows with an expiry and one actor each. Exports, the sidebar and the personal page: rows of their own, and
  read models computed from the rows above.
- The contents of the analyses: LLM prompts, texts, the personality profile, the
  resolution summary. The other link units validate a list of links with the
  steps that `VideoRules` has for one. The extraction of texts from documents is
  a job whose result is only shown.
- The video microservice probes one URL behind one request; in `ValidationRuns`
  its answer is free. Of the orchestrator the reports are left out, which are
  read only.
- The commission's view of a video and its manual reprocessing, scripts that
  read or fill a database, the web client.
- `AnalysisJob` and audit rows, which nothing here reads back.

## 8. Running

    tlc -config DC_workers.cfg MCDataCheckPipeline.tla      # also DC_sla, DC_sweep, DC_sent_back
    tlc -config IW_window.cfg MCInterviewWindow.tla
    tlc -config LC_life.cfg MCLifecycle.tla
    tlc -config VR_runs.cfg MCValidationRuns.tla
    tlc -config AF_form.cfg MCApplicationForm.tla
    tlc -config CC_certificate.cfg MCCertificateCheck.tla
    tlc -config EN_insight.cfg MCEngagement.tla
    tlc -config VC_video.cfg MCVideoCheck.tla
    tlc -config SS_scores.cfg MCSectionScores.tla

    tlapm DataCheckPipeline_proofs.tla
    tlapm VideoCheck_proofs.tla
    tlapm InterviewWindow_proofs.tla
    tlapm Lifecycle_proofs.tla
    tlapm Candidate_proofs.tla
    tlapm ValidationRuns_proofs.tla
    tlapm CertificateCheck_proofs.tla
    tlapm CommissionDesk_proofs.tla

`PROJECT.json` names every run, the mutation of the code that each property
detects, and the source lines behind every definition.
