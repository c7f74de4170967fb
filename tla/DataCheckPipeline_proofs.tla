----------------------- MODULE DataCheckPipeline_proofs -----------------------
(* Theorems about the data-check pipeline, for every policy table, any       *)
(* number of workers and any bounds: first the whole pipeline, then the      *)
(* workers alone, who implement DataCheckPromise.                            *)
EXTENDS DataCheckPipeline, FiniteSetTheorems, SequenceTheorems, TLAPS

-----------------------------------------------------------------------------
(* The operators the actions are built from.                               *)

\* compute_run_status returns a run status, whatever it is given.
LEMMA RunStatusOfType == \A statuses : RunStatusOf(statuses) \in RunStatus
BY DEF RunStatusOf, RunStatus, ActiveRunStatus, TerminalRunStatus

\* The stage row and the card that follow from it.
LEMMA StageAfterType ==
    \A agg : StageAfter(agg) \in StageRow
<1> TAKE agg
<1>1. StageStatusOf(agg) \in StageStatus
  BY DEF StageStatusOf, StageStatus
<1>2. NeedsManualReview(agg) \in BOOLEAN
  BY DEF NeedsManualReview
<1> QED BY <1>1, <1>2 DEF StageAfter, StageRow

LEMMA CardOfType ==
    ASSUME NEW appStage \in AppStage,
           NEW screening \in StageRow
    PROVE  CardOf(appStage, screening)
               \in Card
<1>1. (IF appStage = "initial_screening" THEN screening.status ELSE "none")
          \in StageStatus
  BY DEF StageStatus, StageRow
<1>2. (appStage = "initial_screening" /\ screening.attention) \in BOOLEAN
  BY DEF StageRow
<1> QED BY <1>1, <1>2 DEF CardOf, Card

\* What reaches Redis is a sequence of units.
LEMMA SentType ==
    ASSUME NEW S \in SUBSET Unit, NEW s \in Sent(S)
    PROVE  s \in Seq(Unit)
<1>1. PICK T \in SUBSET S : s \in [1 .. Cardinality(T) -> T]
  BY DEF Sent
<1>2. Cardinality(T) \in Nat
  BY PolicyAssumption, FS_Subset, FS_CardinalityType
<1>3. s \in [1 .. Cardinality(T) -> Unit]
  BY <1>1
<1> QED BY <1>2, <1>3

LEMMA EnqueueType ==
    ASSUME NEW s \in Seq(Unit), NEW n, NEW q \in Seq(Unit), faults \in Nat,
           Enqueue(s, n, q)
    PROVE  queue' \in Seq(Unit) /\ faults' \in Nat
BY ConcatProperties DEF Enqueue

LEMMA LockType ==
    ASSUME NEW h \in Worker \cup {Nobody, Sweeper},
           lock \in [Row -> Worker \cup {Nobody, Sweeper}]
    PROVE  /\ Released(h) \in [Row -> Worker \cup {Nobody, Sweeper}]
           /\ \A rows : Acquired(rows, h) \in [Row -> Worker \cup {Nobody, Sweeper}]
BY DEF Released, Acquired

\* Only units are followups.
LEMMA FollowupsAreUnits ==
    \A statuses : ReadyFollowups(statuses) \subseteq Unit
BY DEF ReadyFollowups

-----------------------------------------------------------------------------
(* Type correctness.                                                       *)

\* A sweep and a worker that have nothing in hand.
LEMMA IdleType == SweepIdle \in SweepTx /\ NoTx \in UnitTx
BY DEF SweepIdle, SweepTx, NoTx, UnitTx, AppStage, TerminalUnitStatus,
       RunStatus, ActiveRunStatus, TerminalRunStatus

LEMMA InitType == Init => TypeOK
<1> SUFFICES ASSUME Init PROVE TypeOK
  OBVIOUS
<1>1. SubmitOK
  BY EmptySeq DEF Init, SubmitOK
<1>2. RowsOK
  BY DEF Init, RowsOK, AppStage, UnitStatus, RunStatus, StageStatus, StageRow,
         Card
<1>3. LocksOK
  BY DEF Init, LocksOK
<1>4. WorkersOK
  BY IdleType DEF Init, WorkersOK
<1>5. SweepOK
  BY IdleType DEF Init, SweepOK, SweepIdle
<1>6. ClockOK
  BY DEF Init, ClockOK
<1> QED BY <1>1, <1>2, <1>3, <1>4, <1>5, <1>6 DEF TypeOK

LEMMA SubmitType ==
    ASSUME TypeOK, Submit \/ SubmitAbort
    PROVE  TypeOK'
<1> USE DEF TypeOK, db, worker, counters, SubmitOK, RowsOK, LocksOK, WorkersOK,
            SweepOK, ClockOK
<1>1. ASSUME NEW u \in Unit, SubmitPush(u) PROVE TypeOK'
  BY <1>1, AppendProperties DEF SubmitPush, FirstWave
<1>2. CASE SubmitCommit
  <2>1. stage' \in StageRow
    BY <1>2 DEF SubmitCommit, StageStatus, StageRow
  <2>2. app' \in AppStage
    BY <1>2 DEF SubmitCommit, AppStage
  <2>3. card' \in Card
    BY <1>2, <2>1, <2>2, CardOfType DEF SubmitCommit
  <2> QED
    BY <1>2, <2>1, <2>2, <2>3
       DEF SubmitCommit, UnitStatus, RunStatus, ActiveRunStatus
<1>3. CASE SubmitAbort
  BY <1>3 DEF SubmitAbort
<1> QED BY <1>1, <1>2, <1>3 DEF Submit

\* A worker's steps up to the end of its processor.
LEMMA TakeType ==
    ASSUME TypeOK, NEW w \in Worker,
           \/ TakeRunNotFound(w) \/ TakeBatchComplete(w)
           \/ TakeTerminalCheck(w) \/ TakeUnit(w) \/ Claim(w) \/ ClaimLost(w)
           \/ Start(w)
    PROVE  TypeOK'
<1> USE DEF TypeOK, db, worker, counters, SubmitOK, RowsOK, LocksOK, WorkersOK,
            SweepOK, ClockOK
<1>1. CASE TakeRunNotFound(w) \/ TakeBatchComplete(w)
  <2>1. queue # <<>> /\ queue' = Tail(queue)
    BY <1>1 DEF TakeRunNotFound, TakeBatchComplete, Popped
  <2>2. queue' \in Seq(Unit)
    BY <2>1, HeadTailProperties
  <2> QED
    BY <1>1, <2>2 DEF TakeRunNotFound, TakeBatchComplete
<1>2. CASE TakeTerminalCheck(w)
  <2>1. queue' \in Seq(Unit) /\ faults' \in Nat
    <3>1. PICK s \in Sent(ReadyFollowups(check)) :
              Enqueue(s, Cardinality(ReadyFollowups(check)), Tail(queue))
      BY <1>2 DEF TakeTerminalCheck
    <3>2. s \in Seq(Unit)
      BY FollowupsAreUnits, SentType
    <3>3. Tail(queue) \in Seq(Unit)
      BY <1>2, HeadTailProperties DEF TakeTerminalCheck, Popped
    <3> QED BY <3>1, <3>2, <3>3, EnqueueType
  <2> QED
    BY <1>2, <2>1 DEF TakeTerminalCheck, UnitStatus
<1>3. CASE TakeUnit(w)
  <2>1. Head(queue) \in Unit /\ Tail(queue) \in Seq(Unit)
    BY <1>3, HeadTailProperties DEF TakeUnit, Popped
  <2>2. pc' \in [Worker -> {"idle", "claiming", "starting", "running",
                            "detached", "finishing"}]
    BY <1>3 DEF TakeUnit
  <2>3. job' \in [Worker -> Unit \cup {NoUnit}]
    BY <1>3, <2>1 DEF TakeUnit
  <2>4. seen' \in [Worker -> RunStatus \cup {"absent", "dirty"}]
    BY <1>3 DEF TakeUnit
  <2>5. tx' \in [Worker -> UnitTx]
    <3>1. [tx[w] EXCEPT !.app = app] \in UnitTx
      BY DEF UnitTx
    <3>2. tx' = [tx EXCEPT ![w] = [tx[w] EXCEPT !.app = app]]
      BY <1>3 DEF TakeUnit
    <3> QED BY <3>1, <3>2
  <2> QED
    BY <1>3, <2>1, <2>2, <2>3, <2>4, <2>5 DEF TakeUnit
<1>4. CASE Claim(w)
  <2>1. LocksOK'
    BY <1>4, LockType DEF Claim
  <2>2. WorkersOK'
    BY <1>4 DEF Claim
  <2> QED
    BY <1>4, <2>1, <2>2 DEF Claim
<1>5. CASE ClaimLost(w)
  BY <1>5, IdleType DEF ClaimLost
<1>6. CASE Start(w)
  <2>1. LocksOK'
    BY <1>6, LockType DEF Start
  <2> QED
    BY <1>6, <2>1 DEF Start
<1> QED BY <1>1, <1>2, <1>3, <1>4, <1>5, <1>6

\* A worker's commits and rollbacks.
LEMMA CommitType ==
    ASSUME TypeOK, NEW w \in Worker,
           \/ CommitClaim(w) \/ Commit(w) \/ Crash(w) \/ WorkerVictim(w)
           \/ \E out \in TerminalUnitStatus : Finish(w, out)
    PROVE  TypeOK'
<1> USE DEF TypeOK, db, worker, counters, SubmitOK, RowsOK, LocksOK, WorkersOK,
            SweepOK, ClockOK
<1>0. Released(w) \in [Row -> Worker \cup {Nobody, Sweeper}]
  BY LockType
<1>1. CASE CommitClaim(w)
  <2>1. job[w] \in Unit
    BY <1>1, PipelineAssumption DEF CommitClaim
  <2>2. RowsOK'
    <3>1. stage' \in StageRow
      BY <1>1 DEF CommitClaim, StageRow, StageStatus
    <3> QED
      BY <1>1, <2>1, <3>1
         DEF CommitClaim, UnitStatus, RunStatus, ActiveRunStatus
  <2>3. WorkersOK'
    BY <1>1 DEF CommitClaim
  <2> QED
    BY <1>0, <1>1, <2>1, <2>2, <2>3 DEF CommitClaim
<1>2. ASSUME NEW out \in TerminalUnitStatus, Finish(w, out) PROVE TypeOK'
  <2> DEFINE F == ReadyFollowups(Settled(w, out))
  <2>1. queue' \in Seq(Unit) /\ faults' \in Nat
    <3>1. PICK s \in Sent(F) : Enqueue(s, Cardinality(F), queue)
      BY <1>2 DEF Finish
    <3>2. s \in Seq(Unit)
      BY FollowupsAreUnits, SentType
    <3> QED BY <3>1, <3>2, EnqueueType
  <2>2. LocksOK'
    BY <1>2, LockType DEF Finish
  <2>3. WorkersOK'
    <3>1. RunStatusOf(Settled(w, out)) \in RunStatus
      BY RunStatusOfType
    <3>2. Touched(w, out) \in SUBSET Unit
      BY FollowupsAreUnits DEF Touched
    <3>3. AutoAdvances(RunStatusOf(Settled(w, out))) \in BOOLEAN
      BY DEF AutoAdvances
    <3>4. tx' \in [Worker -> UnitTx]
      <4>1. attempts[job[w]] + (IF pc[w] = "running" THEN 1 ELSE 0) \in Nat
        BY <1>2 DEF Finish
      <4>2. (IF pc[w] = "running" THEN tx[w].app ELSE app) \in AppStage
        BY DEF UnitTx
      <4> QED
        BY <1>2, <3>1, <3>2, <3>3, <4>1, <4>2 DEF Finish, UnitTx
    <3> QED BY <1>2, <3>4 DEF Finish
  <2> QED
    BY <1>2, <2>1, <2>2, <2>3 DEF Finish
<1>3. CASE Commit(w)
  <2>1. stage' \in StageRow
    BY <1>3, StageAfterType DEF Commit
  <2>2. card' \in Card
    BY <1>3, StageAfterType, CardOfType
       DEF Commit, WorkerCard, AppStage, UnitTx
  <2>3. check' \in [Unit -> UnitStatus] /\ result' \in [Unit -> UnitStatus]
    BY <1>3 DEF Commit, UnitStatus, UnitTx
  <2> QED
    BY <1>0, <1>3, <2>1, <2>2, <2>3, IdleType
       DEF Commit, AppStage, UnitTx
<1>4. CASE Crash(w) \/ WorkerVictim(w)
  <2>1. WorkerRollback(w) /\ faults' \in Nat
    BY <1>4 DEF Crash, WorkerVictim
  <2>2. WorkersOK'
    BY <2>1, IdleType DEF WorkerRollback
  <2> QED BY <1>0, <2>1, <2>2 DEF WorkerRollback
<1> QED BY <1>1, <1>2, <1>3, <1>4

\* The sweep, on a run past its SLA.
LEMMA SlaType ==
    ASSUME TypeOK,
           \/ SweepBegin
           \/ \E u \in Unit : SlaSkip(u) \/ SlaDecide(u)
           \/ SlaWrite \/ SlaCommit
    PROVE  TypeOK'
<1> USE DEF TypeOK, db, worker, counters, SubmitOK, RowsOK, LocksOK, WorkersOK,
            SweepOK, ClockOK
<1>1. CASE SweepBegin
  <2>1. SweepOK'
    <3>1. run \in RunStatus
      BY <1>1 DEF SweepBegin, SweepDue, RunStatus
    <3>2. StuckUnits \subseteq Unit
      BY DEF StuckUnits
    <3>3. CASE slaPast
      BY <1>1, <3>1, <3>3 DEF SweepBegin, SweepTx
    <3>4. CASE ~slaPast
      BY <1>1, <3>1, <3>2, <3>4 DEF SweepBegin, SweepTx
    <3> QED BY <3>3, <3>4
  <2> QED BY <1>1, <2>1 DEF SweepBegin
<1>2. ASSUME NEW u \in Unit, SlaSkip(u) \/ SlaDecide(u) PROVE TypeOK'
  <2>1. CASE SlaSkip(u)
    <3>1. SweepOK'
      BY <2>1 DEF SlaSkip, SlaVisits, SweepTx
    <3> QED BY <2>1, <3>1 DEF SlaSkip
  <2>2. CASE SlaDecide(u)
    <3>1. SweepOK'
      BY <2>2 DEF SlaDecide, SweepTx
    <3> QED BY <2>2, <3>1 DEF SlaDecide
  <2> QED BY <1>2, <2>1, <2>2
<1>3. CASE SlaWrite
  <2>1. SweepOK'
    <3>1. sweep.wait \in Unit
      BY <1>3 DEF SlaWrite
    <3> QED BY <1>3, <3>1 DEF SlaWrite, SweepTx
  <2>2. LocksOK'
    BY <1>3, LockType DEF SlaWrite
  <2> QED BY <1>3, <2>1, <2>2 DEF SlaWrite
<1>4. CASE SlaCommit
  <2>1. check' \in [Unit -> UnitStatus] /\ result' \in [Unit -> UnitStatus]
    BY <1>4 DEF SlaCommit, SlaResults, SlaFailed, UnitStatus,
                TerminalUnitStatus
  <2>2. run' \in RunStatus \cup {"absent"}
    BY <1>4, RunStatusOfType DEF SlaCommit
  <2>3. card' \in Card
    BY <1>4, CardOfType DEF SlaCommit
  <2>4. LocksOK' /\ SweepOK'
    BY <1>4, LockType, IdleType DEF SlaCommit, SweepIdle
  <2> QED BY <1>4, <2>1, <2>2, <2>3, <2>4 DEF SlaCommit
<1> QED BY <1>1, <1>2, <1>3, <1>4

\* The sweep, on a stale run, and its rollbacks.
LEMMA StuckType ==
    ASSUME TypeOK,
           \/ StuckRequeue \/ StuckCommit \/ StuckDecideAdvance \/ StuckAdvance
           \/ SweepAbort \/ SweepVictim
    PROVE  TypeOK'
<1> USE DEF TypeOK, db, worker, counters, SubmitOK, RowsOK, LocksOK, WorkersOK,
            SweepOK, ClockOK
<1>0. Released(Sweeper) \in [Row -> Worker \cup {Nobody, Sweeper}]
  BY LockType
<1>1. CASE StuckRequeue
  <2> DEFINE loaded == SweepView(sweep.hit)
             W == {u \in FirstWave : loaded[u] \in {"pending", "queued"}}
             firstDone == [u \in Unit |-> IF u \in W THEN "queued"
                                          ELSE loaded[u]]
             F == ReadyFollowups(firstDone)
             hit == sweep.hit \cup {u \in W \cup F : loaded[u] = "pending"}
             n == Cardinality(sweep.stuck) + Cardinality(W) + Cardinality(F)
  <2>1. sweep.stuck \in SUBSET Unit /\ sweep.hit \in SUBSET Unit
    BY DEF SweepTx
  <2>2. W \in SUBSET Unit
    BY DEF FirstWave
  <2>3. F \in SUBSET Unit
    BY FollowupsAreUnits
  <2>4. queue' \in Seq(Unit) /\ faults' \in Nat
    <3>1. PICK s \in Sent(sweep.stuck), t \in Sent(W), f \in Sent(F) :
              Enqueue(s \o t \o f, n, queue)
      BY <1>1 DEF StuckRequeue
    <3>2. s \in Seq(Unit) /\ t \in Seq(Unit) /\ f \in Seq(Unit)
      BY <2>1, <2>2, <2>3, SentType
    <3>3. s \o t \o f \in Seq(Unit)
      BY <3>2, ConcatProperties
    <3> QED BY <3>1, <3>3, EnqueueType
  <2>5. sweep' = [sweep EXCEPT !.pc = "recompute", !.hit = hit]
    BY <1>1 DEF StuckRequeue
  <2>6. hit \in SUBSET Unit
    BY <2>1, <2>2, <2>3
  <2>7. SweepOK'
    BY <2>5, <2>6 DEF SweepTx
  <2>8. LocksOK'
    BY <1>1, LockType DEF StuckRequeue
  <2> QED BY <1>1, <2>4, <2>7, <2>8 DEF StuckRequeue
<1>2. CASE StuckCommit
  <2>1. check' \in [Unit -> UnitStatus]
    BY <1>2 DEF StuckCommit, SweepView, UnitStatus, TerminalUnitStatus
  <2>2. run' \in RunStatus \cup {"absent"}
    BY <1>2, RunStatusOfType DEF StuckCommit, SweepAggregate
  <2>3. card' \in Card
    BY <1>2, CardOfType DEF StuckCommit
  <2>4. SweepOK'
    BY <1>2, IdleType DEF StuckCommit, SweepIdle
  <2> QED BY <1>0, <1>2, <2>1, <2>2, <2>3, <2>4 DEF StuckCommit
<1>3. CASE StuckDecideAdvance
  <2>1. LocksOK'
    BY <1>3, LockType DEF StuckDecideAdvance
  <2>2. SweepOK'
    BY <1>3 DEF StuckDecideAdvance, SweepTx
  <2> QED BY <1>3, <2>1, <2>2 DEF StuckDecideAdvance
<1>4. CASE StuckAdvance
  <2>1. app' \in AppStage
    BY <1>4 DEF StuckAdvance, AppStage
  <2>2. card' \in Card
    BY <1>4, <2>1, CardOfType DEF StuckAdvance
  <2>3. SweepOK'
    BY <1>4, IdleType DEF StuckAdvance, SweepIdle
  <2>4. run' \in RunStatus
    BY <1>4 DEF StuckAdvance, RunStatus, TerminalRunStatus
  <2> QED BY <1>0, <1>4, <2>1, <2>2, <2>3, <2>4 DEF StuckAdvance
<1>5. CASE SweepAbort \/ SweepVictim
  <2>1. SweepRollback /\ faults' \in Nat
    BY <1>5 DEF SweepAbort, SweepVictim
  <2>2. SweepOK'
    BY <2>1, IdleType DEF SweepRollback, SweepIdle
  <2> QED BY <1>0, <2>1, <2>2 DEF SweepRollback
<1> QED BY <1>1, <1>2, <1>3, <1>4, <1>5

\* The clock, the webhook and the commission.
LEMMA EnvironmentType ==
    ASSUME TypeOK,
           \/ TenMinutes \/ SlaPasses
           \/ \E u \in Unit, s \in UnitStatus : Ingest(u, s)
           \/ Commission
    PROVE  TypeOK'
<1> USE DEF TypeOK, db, worker, counters, SubmitOK, RowsOK, LocksOK, WorkersOK,
            SweepOK, ClockOK
<1>1. CASE TenMinutes \/ SlaPasses
  BY <1>1 DEF TenMinutes, SlaPasses
<1>2. ASSUME NEW u \in Unit, NEW s \in UnitStatus, Ingest(u, s) PROVE TypeOK'
  <2> DEFINE F == ReadyFollowups([check EXCEPT ![u] = s])
             agg == RunStatusOf([check EXCEPT ![u] = s])
  <2>1. queue' \in Seq(Unit) /\ faults' \in Nat
    <3>1. PICK j \in Sent(F) : Enqueue(j, Cardinality(F), queue)
      BY <1>2 DEF Ingest
    <3>2. j \in Seq(Unit)
      BY FollowupsAreUnits, SentType
    <3> QED BY <3>1, <3>2, EnqueueType
  <2>2. check' \in [Unit -> UnitStatus] /\ result' \in [Unit -> UnitStatus]
    BY <1>2 DEF Ingest, UnitStatus
  <2>3. run' = agg /\ stage' = StageAfter(agg)
    BY <1>2 DEF Ingest
  <2>4. run' \in RunStatus /\ stage' \in StageRow
    BY <2>3, RunStatusOfType, StageAfterType
  <2>5. app' \in AppStage
    BY <1>2 DEF Ingest, AppStage
  <2>6. card' \in Card
    BY <1>2, <2>4, <2>5, CardOfType DEF Ingest
  <2>7. movedBy' \in {"none", "user", "system", "committee"}
    BY <1>2 DEF Ingest
  <2>8. ingests' \in Nat /\ stale' \subseteq Unit \cup {"run"}
    BY <1>2 DEF Ingest
  <2> QED
    BY <1>2, <2>1, <2>2, <2>4, <2>5, <2>6, <2>7, <2>8 DEF Ingest
<1>3. ASSUME NEW target \in AppStage, Moves(target), card' \in Card PROVE TypeOK'
  BY <1>3 DEF Moves
<1>4. "application_review" \in AppStage /\ "application" \in AppStage
  BY DEF AppStage
<1>5. CASE KanbanAdvance
  <2>1. card' \in Card
    BY <1>4, <1>5, CardOfType DEF KanbanAdvance, Moves
  <2> QED BY <1>3, <1>4, <1>5, <2>1 DEF KanbanAdvance
<1>6. CASE ManualScreeningPassed \/ RevisionRequired
  BY <1>3, <1>4, <1>6 DEF ManualScreeningPassed, RevisionRequired
<1> QED BY <1>1, <1>2, <1>5, <1>6 DEF Commission

LEMMA NextType ==
    ASSUME TypeOK, [Next]_vars
    PROVE  TypeOK'
<1>1. CASE UNCHANGED vars
  BY <1>1 DEF vars, db, worker, counters, TypeOK, SubmitOK, RowsOK, LocksOK,
              WorkersOK, SweepOK, ClockOK
<1>2. CASE Submit \/ SubmitAbort
  BY <1>2, SubmitType
<1>3. ASSUME NEW w \in Worker, WorkerStep(w) \/ CommitClaim(w) \/ Crash(w)
      PROVE  TypeOK'
  BY <1>3, TakeType, CommitType DEF WorkerStep
<1>4. CASE SweepStep \/ SweepAbort \/ BreakDeadlock
  BY <1>4, SlaType, StuckType, CommitType DEF SweepStep, BreakDeadlock
<1>5. CASE \/ TenMinutes \/ SlaPasses
           \/ \E u \in Unit, s \in UnitStatus : Ingest(u, s)
           \/ Commission
  BY <1>5, EnvironmentType
<1> QED BY <1>1, <1>2, <1>3, <1>4, <1>5 DEF Next

\* Every reachable state is well typed: among the rest, the queue holds units
\* only, a busy worker has a unit, and the run's status is one of the
\* aggregates.
THEOREM TypeCorrect == Spec => []TypeOK
<1>1. Init => TypeOK
  BY InitType
<1>2. TypeOK /\ [Next]_vars => TypeOK'
  BY NextType
<1> QED BY <1>1, <1>2, PTL DEF Spec

-----------------------------------------------------------------------------
(* Who may write a unit's check: the row lock of the claim is held until    *)
(* the commit, so two workers never execute a unit at once, and a unit that *)
(* has ended is not executed again.                                         *)


-----------------------------------------------------------------------------
(* Row locks: taking and releasing them disturbs nobody else's.            *)

LEMMA AcquiredKeeps ==
    ASSUME LocksOK, NEW rows, NEW h, Free(rows, h),
           NEW r \in Row, NEW g \in Worker \cup {Sweeper}, lock[r] = g
    PROVE  Acquired(rows, h)[r] = g
<1>1. g # Nobody
  BY PipelineAssumption DEF Nobody, Sweeper
<1> QED BY <1>1 DEF Free, Acquired, LocksOK

LEMMA AcquiredTakes ==
    ASSUME NEW rows, NEW h, NEW r \in Row \cap rows
    PROVE  Acquired(rows, h)[r] = h
BY DEF Acquired

LEMMA ReleasedKeeps ==
    ASSUME NEW h, NEW r \in Row, lock[r] # h
    PROVE  Released(h)[r] = lock[r]
BY DEF Released

LEMMA UnitsAreRows == Unit \subseteq Row
BY DEF Row

-----------------------------------------------------------------------------
(* Nobody works before the run is committed.                               *)

LEMMA RunStays ==
    ASSUME TypeOK, NoRunNoWork, [Next]_vars, run # "absent"
    PROVE  run' # "absent"
<1> USE DEF db, worker, counters
<1>1. \A agg \in RunStatus : agg # "absent"
  BY DEF RunStatus, ActiveRunStatus, TerminalRunStatus
<1>2. CASE UNCHANGED vars
  BY <1>2 DEF vars
<1>3. CASE Submit \/ SubmitAbort
  BY <1>3 DEF Submit, SubmitPush, SubmitCommit, SubmitAbort
<1>4. ASSUME NEW w \in Worker, WorkerStep(w) \/ CommitClaim(w) \/ Crash(w)
      PROVE  run' # "absent"
  <2>1. CASE Commit(w)
    <3>1. tx[w].agg \in RunStatus
      BY DEF TypeOK, WorkersOK, UnitTx
    <3> QED BY <1>1, <2>1, <3>1 DEF Commit
  <2>2. CASE CommitClaim(w)
    BY <2>2 DEF CommitClaim
  <2>3. CASE ~Commit(w) /\ ~CommitClaim(w)
    BY <1>4, <2>3 DEF WorkerStep, TakeRunNotFound, TakeBatchComplete,
       TakeTerminalCheck, TakeUnit, Claim, ClaimLost, Start, Finish, Crash,
       WorkerRollback
  <2> QED BY <2>1, <2>2, <2>3
<1>5. CASE SweepStep \/ SweepAbort \/ BreakDeadlock
  <2>1. CASE SlaCommit
    BY <1>1, <2>1, RunStatusOfType DEF SlaCommit
  <2>2. CASE StuckCommit
    BY <1>1, <2>2, RunStatusOfType DEF StuckCommit, SweepAggregate
  <2>3. CASE StuckAdvance
    BY <2>3 DEF StuckAdvance
  <2>4. CASE ~SlaCommit /\ ~StuckCommit /\ ~StuckAdvance
    BY <1>5, <2>4 DEF SweepStep, SweepAbort, BreakDeadlock, SweepBegin, SlaSkip,
       SlaDecide, SlaWrite, StuckRequeue, StuckDecideAdvance, SweepRollback,
       SweepVictim, WorkerVictim, WorkerRollback
  <2> QED BY <2>1, <2>2, <2>3, <2>4
<1>6. CASE TenMinutes \/ SlaPasses \/ Commission
  BY <1>6 DEF TenMinutes, SlaPasses, Commission, KanbanAdvance,
     ManualScreeningPassed, RevisionRequired, Moves
<1>7. ASSUME NEW u \in Unit, NEW s \in UnitStatus, Ingest(u, s)
      PROVE  run' # "absent"
  BY <1>1, <1>7, RunStatusOfType DEF Ingest
<1> QED BY <1>2, <1>3, <1>4, <1>5, <1>6, <1>7 DEF Next

LEMMA NoRunNoWorkStep ==
    ASSUME TypeOK, NoRunNoWork, [Next]_vars
    PROVE  NoRunNoWork'
<1> USE DEF db, worker, counters
<1>1. CASE run # "absent"
  <2>1. run' # "absent"
    BY <1>1, RunStays
  <2>2. submit # "open"
    BY <1>1 DEF NoRunNoWork
  <2>3. submit' # "open"
    <3>1. CASE submit' = submit
      BY <2>2, <3>1
    <3>2. CASE Submit \/ SubmitAbort
      BY <2>2, <3>2 DEF Submit, SubmitPush, SubmitCommit, SubmitAbort
    <3>3. ASSUME ~(Submit \/ SubmitAbort) PROVE submit' = submit
      BY <3>3 DEF Next, vars, WorkerStep, SweepStep, BreakDeadlock, Commission,
         TakeRunNotFound, TakeBatchComplete, TakeTerminalCheck, TakeUnit, Claim,
         ClaimLost, Start, Finish, Commit, CommitClaim, Crash, WorkerRollback,
         SweepBegin, SlaSkip, SlaDecide, SlaWrite, SlaCommit, StuckRequeue,
         StuckCommit, StuckDecideAdvance, StuckAdvance, SweepAbort,
         SweepRollback, SweepVictim, WorkerVictim, TenMinutes, SlaPasses, Ingest,
         KanbanAdvance, ManualScreeningPassed, RevisionRequired, Moves
    <3> QED BY <3>1, <3>2, <3>3
  <2> QED BY <2>1, <2>3 DEF NoRunNoWork
<1>2. CASE run = "absent"
  <2>1. sweep = SweepIdle /\ \A w \in Worker : pc[w] = "idle"
    BY <1>2 DEF NoRunNoWork
  <2>2. ~SweepDue
    BY <1>2 DEF SweepDue, ActiveRunStatus
  <2>3. CASE UNCHANGED vars
    BY <2>3 DEF vars, NoRunNoWork, SweepIdle
  <2>4. CASE Submit \/ SubmitAbort
    BY <1>2, <2>1, <2>4
       DEF Submit, SubmitPush, SubmitCommit, SubmitAbort, NoRunNoWork, SweepIdle
  <2>5. ASSUME NEW w \in Worker, WorkerStep(w) \/ CommitClaim(w) \/ Crash(w)
        PROVE  NoRunNoWork'
    <3>1. TakeRunNotFound(w)
      BY <1>2, <2>1, <2>5 DEF WorkerStep, TakeBatchComplete,
         TakeTerminalCheck, TakeUnit, Claim, ClaimLost, Start, Finish, Commit,
         CommitClaim, Crash
    <3> QED BY <1>2, <2>1, <3>1 DEF TakeRunNotFound, NoRunNoWork, SweepIdle
  <2>6. CASE SweepStep \/ SweepAbort \/ BreakDeadlock
    <3>1. ~SweepStep /\ ~SweepAbort
      BY <2>1, <2>2 DEF SweepStep, SweepAbort, SweepBegin, SlaSkip, SlaDecide,
         SlaVisits, SlaWrite, SlaCommit, StuckRequeue, StuckCommit,
         StuckDecideAdvance, StuckAdvance, SweepIdle
    <3>2. BreakDeadlock
      BY <2>6, <3>1
    <3>3. sweep' = SweepIdle /\ (\A w \in Worker : pc'[w] = "idle")
      BY <2>1, <3>2 DEF BreakDeadlock, SweepVictim, SweepRollback, WorkerVictim,
         WorkerRollback, TypeOK, WorkersOK
    <3>4. run' = run /\ submit' = submit
      BY <3>2 DEF BreakDeadlock, SweepVictim, SweepRollback, WorkerVictim,
         WorkerRollback
    <3> QED BY <1>2, <3>3, <3>4 DEF NoRunNoWork, SweepIdle
  <2>7. CASE \/ TenMinutes \/ SlaPasses \/ Commission
             \/ \E u \in Unit, s \in UnitStatus : Ingest(u, s)
    <3>1. UNCHANGED <<submit, run, sweep, pc>>
      BY <1>2, <2>7 DEF TenMinutes, SlaPasses, Commission, KanbanAdvance,
         ManualScreeningPassed, RevisionRequired, Moves, Ingest
    <3> QED BY <1>2, <2>1, <3>1 DEF NoRunNoWork, SweepIdle
  <2> QED BY <2>3, <2>4, <2>5, <2>6, <2>7 DEF Next
<1> QED BY <1>1, <1>2

-----------------------------------------------------------------------------
(* Whoever is going to write a check holds its row.                        *)

\* A step that leaves a worker's transaction and its locks alone.
LEMMA WorkerFrame ==
    ASSUME TypeOK, NEW v \in Worker, WorkerLocks(v),
           pc'[v] = pc[v], job'[v] = job[v], tx'[v] = tx[v],
           \A r \in Row : lock[r] = v => lock'[r] = v
    PROVE  WorkerLocks(v)'
<1>1. pc[v] # "idle" => job[v] \in Row
  BY UnitsAreRows DEF TypeOK, WorkersOK
<1>2. tx[v].follow \subseteq Row
  BY UnitsAreRows DEF TypeOK, WorkersOK, UnitTx
<1> QED BY <1>1, <1>2 DEF WorkerLocks

LEMMA SweepFrame ==
    ASSUME TypeOK, SweepLocks, sweep' = sweep,
           \A r \in Row : lock[r] = Sweeper => lock'[r] = Sweeper
    PROVE  SweepLocks'
<1>1. sweep.hit \subseteq Row
  BY UnitsAreRows DEF TypeOK, SweepOK, SweepTx
<1> QED BY <1>1 DEF SweepLocks

\* A worker's step takes free rows or releases its own: the others keep theirs.
LEMMA WorkerStepLocks ==
    ASSUME TypeOK, NEW w \in Worker,
           \/ WorkerStep(w) \/ CommitClaim(w) \/ Crash(w) \/ WorkerVictim(w),
           NEW g \in Worker \cup {Sweeper}, g # w,
           NEW r \in Row, lock[r] = g
    PROVE  lock'[r] = g
<1>1. LocksOK
  BY DEF TypeOK
<1>2. CASE lock' = lock
  BY <1>2
<1>3. CASE lock' = Released(w)
  BY <1>3, ReleasedKeeps
<1>4. ASSUME NEW rows, Free(rows, w), lock' = Acquired(rows, w)
      PROVE  lock'[r] = g
  BY <1>1, <1>4, AcquiredKeeps
<1>5. CASE WorkerStep(w)
  BY <1>2, <1>3, <1>4, <1>5 DEF WorkerStep, TakeRunNotFound,
     TakeBatchComplete, TakeTerminalCheck, TakeUnit, Claim, ClaimLost, Start,
     Finish, Commit
<1>6. CASE CommitClaim(w) \/ Crash(w) \/ WorkerVictim(w)
  BY <1>3, <1>6 DEF CommitClaim, Crash, WorkerVictim, WorkerRollback
<1> QED BY <1>5, <1>6

LEMMA WorkerStepFrame ==
    ASSUME TypeOK, NEW w \in Worker,
           \/ WorkerStep(w) \/ CommitClaim(w) \/ Crash(w) \/ WorkerVictim(w)
    PROVE  /\ sweep' = sweep
           /\ \A v \in Worker \ {w} :
                  pc'[v] = pc[v] /\ job'[v] = job[v] /\ tx'[v] = tx[v]
BY DEF TypeOK, WorkersOK, db, worker, counters, WorkerStep, TakeRunNotFound,
   TakeBatchComplete, TakeTerminalCheck, TakeUnit, Claim, ClaimLost, Start,
   Finish, Commit, CommitClaim, Crash, WorkerVictim, WorkerRollback

\* A worker's own locks after its step.
LEMMA OwnLocks ==
    ASSUME TypeOK, NEW w \in Worker, WorkerLocks(w),
           \/ WorkerStep(w) \/ CommitClaim(w) \/ Crash(w) \/ WorkerVictim(w)
    PROVE  WorkerLocks(w)'
<1> USE DEF db, worker, counters
<1>1. LocksOK /\ WorkersOK
  BY DEF TypeOK
<1>2. CASE \/ TakeRunNotFound(w) \/ TakeBatchComplete(w)
           \/ TakeTerminalCheck(w) \/ TakeUnit(w) \/ ClaimLost(w)
           \/ Commit(w) \/ Crash(w) \/ WorkerVictim(w)
  <2>1. pc'[w] \in {"idle", "claiming"}
    BY <1>1, <1>2 DEF WorkersOK, TakeRunNotFound, TakeBatchComplete,
       TakeTerminalCheck, TakeUnit, ClaimLost, Commit, Crash, WorkerVictim,
       WorkerRollback, Popped
  <2> QED BY <2>1 DEF WorkerLocks
<1>3. CASE Claim(w)
  <2>1. job[w] \in Row /\ job'[w] = job[w] /\ pc'[w] = "starting"
    BY <1>1, <1>3, UnitsAreRows DEF Claim, WorkersOK
  <2>2. job[w] \in Row \cap {job[w]} /\ lock' = Acquired({job[w]}, w)
    BY <1>3, <2>1 DEF Claim
  <2>3. lock'[job[w]] = w
    BY <2>2, AcquiredTakes
  <2> QED BY <2>1, <2>3 DEF WorkerLocks
<1>4. CASE Start(w)
  <2>1. /\ job[w] \in Row /\ job'[w] = job[w] /\ pc'[w] = "running"
        /\ lock[job[w]] = w
    BY <1>1, <1>4, UnitsAreRows DEF Start, WorkersOK, WorkerLocks
  <2>2. lock'[job[w]] = w
    BY <1>1, <1>4, <2>1, AcquiredKeeps DEF Start
  <2> QED BY <2>1, <2>2 DEF WorkerLocks
<1>5. CASE CommitClaim(w)
  <2>1. pc'[w] = "detached" /\ job'[w] = job[w] /\ job[w] \in MidCommit
    BY <1>1, <1>5 DEF CommitClaim, WorkersOK
  <2> QED BY <2>1 DEF WorkerLocks
<1>6. ASSUME NEW out \in TerminalUnitStatus, Finish(w, out)
      PROVE  WorkerLocks(w)'
  <2>1. /\ job[w] \in Unit /\ job'[w] = job[w] /\ pc'[w] = "finishing"
        /\ tx'[w].follow = Touched(w, out)
        /\ lock' = Acquired(FinishRows(w, out), w)
    <3>1. /\ job[w] \in Unit /\ job'[w] = job[w] /\ pc'[w] = "finishing"
          /\ lock' = Acquired(FinishRows(w, out), w)
      BY <1>1, <1>6 DEF Finish, WorkersOK
    <3>2. tx'[w].follow = Touched(w, out)
      BY <1>1, <1>6, Zenon DEF Finish, WorkersOK
    <3> QED BY <3>1, <3>2
  <2>2. {job[w]} \cup Touched(w, out) \subseteq Row \cap FinishRows(w, out)
    BY <2>1, UnitsAreRows, FollowupsAreUnits DEF FinishRows, Touched
  <2>3. \A u \in {job[w]} \cup Touched(w, out) : lock'[u] = w
    BY <2>1, <2>2, AcquiredTakes
  <2> QED BY <2>1, <2>3 DEF WorkerLocks
<1> QED BY <1>2, <1>3, <1>4, <1>5, <1>6 DEF WorkerStep
\* What the sweep has written and not committed stays locked.
LEMMA SweepStepLocks ==
    ASSUME TypeOK, SweepLocks, SweepStep \/ SweepAbort \/ SweepVictim
    PROVE  /\ SweepLocks'
           /\ UNCHANGED <<pc, job, tx>>
           /\ \A w \in Worker, r \in Row : lock[r] = w => lock'[r] = w
<1> USE DEF db, worker, counters
<1>0. Sweeper \notin Worker
  BY PipelineAssumption
<1>1. SweepOK /\ LocksOK
  BY DEF TypeOK
<1>2. \A w \in Worker, r \in Row : lock[r] = w => lock'[r] = w
  <2>1. CASE lock' = lock
    BY <2>1
  <2>2. CASE lock' = Released(Sweeper)
    BY <1>0, <2>2, ReleasedKeeps
  <2>3. ASSUME NEW rows, Free(rows, Sweeper), lock' = Acquired(rows, Sweeper)
        PROVE  \A w \in Worker, r \in Row : lock[r] = w => lock'[r] = w
    BY <1>1, <2>3, AcquiredKeeps
  <2> QED
    BY <2>1, <2>2, <2>3 DEF SweepStep, SweepAbort, SweepVictim, SweepRollback,
       SweepBegin, SlaSkip, SlaDecide, SlaWrite, SlaCommit, StuckRequeue,
       StuckCommit, StuckDecideAdvance, StuckAdvance
<1>3. UNCHANGED <<pc, job, tx>>
  BY DEF SweepStep, SweepAbort, SweepVictim, SweepRollback, SweepBegin, SlaSkip,
     SlaDecide, SlaWrite, SlaCommit, StuckRequeue, StuckCommit,
     StuckDecideAdvance, StuckAdvance
<1>4. SweepLocks'
  <2>1. CASE StuckRequeue
    <3>1. PICK hit : Free(hit, Sweeper) /\ lock' = Acquired(hit, Sweeper)
                     /\ sweep' = [sweep EXCEPT !.pc = "recompute", !.hit = hit]
      BY <2>1 DEF StuckRequeue
    <3>2. sweep'.hit = hit
      BY <1>1, <3>1 DEF SweepOK, SweepTx
    <3>3. sweep'.hit \subseteq Row
      BY <2>1, StuckType, UnitsAreRows DEF TypeOK, SweepOK, SweepTx
    <3> QED BY <3>1, <3>2, <3>3, AcquiredTakes DEF SweepLocks
  <2>2. CASE ~StuckRequeue
    <3>1. ASSUME SweepBegin
          PROVE  sweep'.pc # "recompute"
      BY <1>1, <3>1 DEF SweepBegin, SweepOK, SweepTx
    <3>2. ASSUME \E u \in Unit : SlaSkip(u) \/ SlaDecide(u)
          PROVE  sweep'.pc # "recompute"
      BY <1>1, <3>2 DEF SlaSkip, SlaDecide, SlaVisits, SweepOK, SweepTx
    <3>3. ASSUME SlaWrite \/ StuckDecideAdvance
          PROVE  sweep'.pc # "recompute"
      BY <1>1, <3>3 DEF SlaWrite, StuckDecideAdvance, SweepOK, SweepTx
    <3>4. ASSUME SlaCommit \/ StuckCommit \/ StuckAdvance \/ SweepAbort \/ SweepVictim
          PROVE  sweep'.pc # "recompute"
      BY <3>4 DEF SlaCommit, StuckCommit, StuckAdvance, SweepAbort, SweepVictim,
         SweepRollback, SweepIdle
    <3>5. sweep'.pc # "recompute"
      BY <2>2, <3>1, <3>2, <3>3, <3>4 DEF SweepStep
    <3> QED BY <3>5 DEF SweepLocks
  <2> QED BY <2>1, <2>2
<1> QED BY <1>2, <1>3, <1>4

LEMMA LockDisciplineStep ==
    ASSUME TypeOK, LockDiscipline, [Next]_vars
    PROVE  LockDiscipline'
<1>1. SweepLocks /\ \A w \in Worker : WorkerLocks(w)
  BY DEF LockDiscipline
<1>2. ASSUME UNCHANGED <<pc, job, tx, sweep, lock>>
      PROVE  LockDiscipline'
  <2>1. SweepLocks'
    BY <1>1, <1>2 DEF SweepLocks
  <2>2. ASSUME NEW w \in Worker PROVE WorkerLocks(w)'
    BY <1>1, <1>2 DEF WorkerLocks
  <2> QED BY <2>1, <2>2 DEF LockDiscipline
<1>3. ASSUME NEW w \in Worker,
             WorkerStep(w) \/ CommitClaim(w) \/ Crash(w) \/ WorkerVictim(w)
      PROVE  LockDiscipline'
  <2>1. Sweeper # w
    BY PipelineAssumption
  <2>2. SweepLocks'
    BY <1>1, <1>3, <2>1, WorkerStepLocks, WorkerStepFrame, SweepFrame
  <2>3. ASSUME NEW v \in Worker PROVE WorkerLocks(v)'
    <3>1. CASE v = w
      BY <1>1, <1>3, <3>1, OwnLocks
    <3>2. CASE v # w
      BY <1>1, <1>3, <3>2, WorkerStepLocks, WorkerStepFrame, WorkerFrame
    <3> QED BY <3>1, <3>2
  <2> QED BY <2>2, <2>3 DEF LockDiscipline
<1>4. CASE SweepStep \/ SweepAbort \/ SweepVictim
  <2>1. /\ SweepLocks'
        /\ UNCHANGED <<pc, job, tx>>
        /\ \A w \in Worker, r \in Row : lock[r] = w => lock'[r] = w
    BY <1>1, <1>4, SweepStepLocks
  <2>2. ASSUME NEW v \in Worker PROVE WorkerLocks(v)'
    BY <1>1, <2>1, WorkerFrame
  <2> QED BY <2>1, <2>2 DEF LockDiscipline
<1>5. CASE UNCHANGED vars
  BY <1>2, <1>5 DEF vars, worker
<1>6. CASE Submit \/ SubmitAbort
  BY <1>2, <1>6 DEF Submit, SubmitPush, SubmitCommit, SubmitAbort, worker
<1>7. CASE TenMinutes \/ SlaPasses \/ Commission
  BY <1>2, <1>7 DEF TenMinutes, SlaPasses, Commission, KanbanAdvance,
     ManualScreeningPassed, RevisionRequired, Moves, worker
<1>8. ASSUME NEW u \in Unit, NEW s \in UnitStatus, Ingest(u, s)
      PROVE  LockDiscipline'
  BY <1>2, <1>8 DEF Ingest, worker
<1> QED
  BY <1>3, <1>4, <1>5, <1>6, <1>7, <1>8 DEF Next, BreakDeadlock
-----------------------------------------------------------------------------
(* What a claim has seen stands until its worker commits.                  *)

\* A row that a worker holds is written by that worker only.
LEMMA HeldRowsStay ==
    ASSUME TypeOK, Ownership,
           NEW v \in Worker, NEW u \in Unit, lock[u] = v,
           \/ \E w \in Worker \ {v} :
                 WorkerStep(w) \/ CommitClaim(w) \/ Crash(w) \/ WorkerVictim(w)
           \/ SweepStep \/ SweepAbort \/ SweepVictim
           \/ TenMinutes \/ SlaPasses \/ Commission
           \/ \E x \in Unit, s \in UnitStatus : Ingest(x, s)
    PROVE  check'[u] = check[u] /\ attempts'[u] = attempts[u]
<1> USE DEF db, worker, counters
<1>0. v # Nobody /\ v # Sweeper
  BY PipelineAssumption
<1>a. /\ check \in [Unit -> UnitStatus] /\ attempts \in [Unit -> Nat]
      /\ WorkersOK /\ LocksOK
  BY DEF TypeOK, RowsOK
<1>b. SweepLocks /\ \A w \in Worker : WorkerLocks(w)
  BY DEF Ownership, LockDiscipline
<1>1. CASE UNCHANGED <<check, attempts>>
  BY <1>1
<1>2. ASSUME NEW w \in Worker \ {v},
             WorkerStep(w) \/ CommitClaim(w) \/ Crash(w) \/ WorkerVictim(w)
      PROVE  check'[u] = check[u] /\ attempts'[u] = attempts[u]
  <2>1. CASE TakeTerminalCheck(w)
    BY <1>0, <1>2, <1>a, <2>1 DEF TakeTerminalCheck, Free
  <2>2. CASE CommitClaim(w)
    <3>1. u # job[w]
      BY <1>2, <1>b, <2>2 DEF CommitClaim, WorkerLocks
    <3> QED BY <1>a, <2>2, <3>1 DEF CommitClaim
  <2>3. CASE Commit(w)
    <3>1. u # job[w] /\ u \notin tx[w].follow
      BY <1>2, <1>b, <2>3 DEF Commit, WorkerLocks
    <3> QED BY <1>a, <2>3, <3>1 DEF Commit
  <2>4. ASSUME ~TakeTerminalCheck(w), ~CommitClaim(w), ~Commit(w)
        PROVE  UNCHANGED <<check, attempts>>
    BY <1>2, <2>4 DEF WorkerStep, TakeRunNotFound, TakeBatchComplete, TakeUnit,
       Claim, ClaimLost, Start, Finish, Crash, WorkerVictim, WorkerRollback
  <2> QED BY <1>1, <2>1, <2>2, <2>3, <2>4
<1>3. CASE SlaCommit
  <2>1. u \notin sweep.hit
    BY <1>0, <1>3 DEF SlaCommit, Free
  <2> QED BY <1>a, <1>3, <2>1 DEF SlaCommit, SlaFailed
<1>4. CASE StuckCommit
  <2>1. u \notin sweep.hit
    BY <1>0, <1>b, <1>4 DEF StuckCommit, SweepLocks
  <2> QED BY <1>a, <1>4, <2>1 DEF StuckCommit
<1>5. ASSUME NEW x \in Unit, NEW s \in UnitStatus, Ingest(x, s)
      PROVE  check'[u] = check[u] /\ attempts'[u] = attempts[u]
  <2> DEFINE mem == [check EXCEPT ![x] = s]
             touched == {f \in ReadyFollowups(mem) : mem[f] = "pending"}
  <2>1. u # x /\ u \notin touched
    BY <1>0, <1>5 DEF Ingest, Free
  <2>2. check'[u] = IF u \in touched THEN "queued" ELSE mem[u]
    BY <1>5 DEF Ingest
  <2> QED BY <1>a, <1>5, <2>1, <2>2 DEF Ingest
<1>6. ASSUME ~SlaCommit, ~StuckCommit,
             \/ SweepStep \/ SweepAbort \/ SweepVictim
             \/ TenMinutes \/ SlaPasses \/ Commission
      PROVE  UNCHANGED <<check, attempts>>
  BY <1>6 DEF SweepStep, SweepAbort, SweepVictim, SweepRollback, SweepBegin,
     SlaSkip, SlaDecide, SlaWrite, StuckRequeue, StuckDecideAdvance,
     StuckAdvance, TenMinutes, SlaPasses, Commission, KanbanAdvance,
     ManualScreeningPassed, RevisionRequired, Moves
<1> QED BY <1>1, <1>2, <1>3, <1>4, <1>5, <1>6

\* A worker's own claim: seen at the claim, kept until the commit.
LEMMA OwnClaim ==
    ASSUME TypeOK, Ownership, NEW w \in Worker,
           \/ WorkerStep(w) \/ CommitClaim(w) \/ Crash(w) \/ WorkerVictim(w),
           Claims(w)'
    PROVE  check'[job'[w]] \in {"pending", "queued"}
<1> USE DEF db, worker, counters
<1>a. /\ check \in [Unit -> UnitStatus] /\ attempts \in [Unit -> Nat]
      /\ WorkersOK
  BY DEF TypeOK, RowsOK
<1>b. Claims(w) => check[job[w]] \in {"pending", "queued"}
  BY DEF Ownership, ClaimStands
<1>1. CASE Claim(w)
  BY <1>1 DEF Claim
<1>2. CASE Start(w)
  BY <1>2, <1>b DEF Start, Claims
<1>3. ASSUME NEW out \in TerminalUnitStatus, Finish(w, out)
      PROVE  check'[job'[w]] \in {"pending", "queued"}
  <2>1. CASE pc[w] = "running"
    BY <1>3, <1>b, <2>1 DEF Finish, Claims
  <2>2. CASE pc[w] = "detached"
    <3>1. tx'[w].attempts = attempts[job[w]] + 0
      BY <1>a, <1>3, <2>2, Zenon DEF Finish, WorkersOK
    <3>2. attempts'[job'[w]] = attempts[job[w]] /\ attempts[job[w]] \in Nat
      BY <1>a, <1>3, <2>2 DEF Finish, WorkersOK
    <3>3. pc'[w] = "finishing"
      BY <1>a, <1>3 DEF Finish, WorkersOK
    <3> QED BY <3>1, <3>2, <3>3 DEF Claims
  <2> QED BY <1>3, <2>1, <2>2 DEF Finish
<1>4. CASE TakeTerminalCheck(w) \/ TakeRunNotFound(w) \/ TakeBatchComplete(w)
           \/ TakeUnit(w) \/ ClaimLost(w) \/ CommitClaim(w) \/ Commit(w)
           \/ Crash(w) \/ WorkerVictim(w)
  <2>1. pc'[w] \in {"idle", "claiming", "detached"}
    BY <1>a, <1>4 DEF WorkersOK, TakeRunNotFound, TakeBatchComplete,
       TakeTerminalCheck, TakeUnit, ClaimLost, CommitClaim, Commit, Crash,
       WorkerVictim, WorkerRollback, Popped
  <2> QED BY <2>1 DEF Claims
<1> QED BY <1>1, <1>2, <1>3, <1>4 DEF WorkerStep

LEMMA ClaimStandsStep ==
    ASSUME TypeOK, Ownership, [Next]_vars
    PROVE  ClaimStands'
<1> USE DEF db, worker, counters
<1> SUFFICES ASSUME NEW v \in Worker, Claims(v)'
             PROVE  check'[job'[v]] \in {"pending", "queued"}
  BY DEF ClaimStands
<1>1. ASSUME pc'[v] = pc[v], job'[v] = job[v], tx'[v] = tx[v],
             lock[job[v]] = v =>
                /\ check'[job[v]] = check[job[v]]
                /\ attempts'[job[v]] = attempts[job[v]]
      PROVE  check'[job'[v]] \in {"pending", "queued"}
  <2>1. lock[job[v]] = v
    BY <1>1 DEF Claims, Ownership, LockDiscipline, WorkerLocks
  <2>2. Claims(v)
    BY <1>1, <2>1 DEF Claims
  <2> QED BY <1>1, <2>1, <2>2 DEF Ownership, ClaimStands
<1>2. job[v] \in Unit \/ pc[v] = "idle"
  BY DEF TypeOK, WorkersOK
<1>3. CASE UNCHANGED vars
  BY <1>1, <1>3 DEF vars
<1>4. CASE Submit \/ SubmitAbort
  <2>1. pc[v] = "idle" /\ pc' = pc
    BY <1>4 DEF Submit, SubmitPush, SubmitCommit, SubmitAbort, Ownership,
       NoRunNoWork
  <2> QED BY <2>1 DEF Claims
<1>5. ASSUME NEW w \in Worker,
             WorkerStep(w) \/ CommitClaim(w) \/ Crash(w) \/ WorkerVictim(w)
      PROVE  check'[job'[v]] \in {"pending", "queued"}
  <2>1. CASE w = v
    BY <1>5, <2>1, OwnClaim
  <2>2. CASE w # v
    <3>1. pc'[v] = pc[v] /\ job'[v] = job[v] /\ tx'[v] = tx[v]
      BY <1>5, <2>2, WorkerStepFrame
    <3>2. pc[v] # "idle"
      BY <3>1 DEF Claims
    <3> QED BY <1>1, <1>2, <1>5, <2>2, <3>1, <3>2, HeldRowsStay
  <2> QED BY <2>1, <2>2
<1>6. CASE \/ SweepStep \/ SweepAbort \/ SweepVictim
           \/ TenMinutes \/ SlaPasses \/ Commission
           \/ \E x \in Unit, s \in UnitStatus : Ingest(x, s)
  <2>1. UNCHANGED <<pc, job, tx>>
    <3>1. CASE SweepStep \/ SweepAbort \/ SweepVictim
      BY <3>1, SweepStepLocks DEF Ownership, LockDiscipline
    <3>2. CASE TenMinutes \/ SlaPasses \/ Commission
      BY <3>2 DEF TenMinutes, SlaPasses, Commission, KanbanAdvance,
         ManualScreeningPassed, RevisionRequired, Moves
    <3>3. CASE \E x \in Unit, s \in UnitStatus : Ingest(x, s)
      BY <3>3 DEF Ingest
    <3> QED BY <1>6, <3>1, <3>2, <3>3
  <2>2. pc[v] # "idle"
    BY <2>1 DEF Claims
  <2> QED BY <1>1, <1>2, <1>6, <2>1, <2>2, HeldRowsStay
<1> QED BY <1>3, <1>4, <1>5, <1>6 DEF Next, BreakDeadlock
-----------------------------------------------------------------------------
(* The theorems.                                                           *)

\* The inductive invariant: whoever is going to write a check holds its row,
\* and what its claim has seen stands until the commit.
THEOREM OwnershipHolds == Spec => [](TypeOK /\ Ownership)
<1>1. Init => TypeOK /\ Ownership
  <2> SUFFICES ASSUME Init PROVE TypeOK /\ Ownership
    OBVIOUS
  <2>1. \A w \in Worker : pc[w] = "idle"
    BY DEF Init
  <2>2. LockDiscipline
    BY <2>1 DEF Init, LockDiscipline, SweepLocks, WorkerLocks, SweepIdle
  <2>3. ClaimStands
    BY <2>1 DEF ClaimStands, Claims
  <2>4. NoRunNoWork
    BY <2>1 DEF Init, NoRunNoWork
  <2> QED BY <2>2, <2>3, <2>4, InitType DEF Ownership
<1>2. TypeOK /\ Ownership /\ [Next]_vars => (TypeOK /\ Ownership)'
  BY NextType, NoRunNoWorkStep, LockDisciplineStep, ClaimStandsStep
     DEF Ownership
<1> QED BY <1>1, <1>2, PTL DEF Spec

\* Two workers never execute the same unit at once, whatever jobs Redis holds
\* and whatever the sweep, the webhook and the commission do, unless its
\* processor commits half way.
THEOREM ExclusiveClaims == Spec => []ClaimExclusive
<1>1. Ownership => ClaimExclusive
  <2> SUFFICES ASSUME Ownership, NEW v \in Worker, NEW w \in Worker, v # w,
                      Executing(v), Executing(w), job[v] = job[w]
               PROVE  job[v] \in MidCommit
    BY DEF ClaimExclusive
  <2>1. WorkerLocks(v) /\ WorkerLocks(w)
    BY DEF Ownership, LockDiscipline
  <2>2. CASE pc[v] = "detached" \/ pc[w] = "detached"
    BY <2>1, <2>2 DEF WorkerLocks
  <2>3. CASE pc[v] # "detached" /\ pc[w] # "detached"
    BY <2>1, <2>3 DEF WorkerLocks, Executing
  <2> QED BY <2>2, <2>3
<1> QED BY <1>1, OwnershipHolds, PTL

\* No step executes a unit that has ended, unless something has reopened it
\* first.
THEOREM NothingRedone == Spec => NeverRedone
<1>1. ASSUME TypeOK, Ownership, [Next]_vars,
             NEW u \in Unit, attempts'[u] > attempts[u]
      PROVE  check[u] \notin TerminalUnitStatus
  <2> USE DEF db, worker, counters
  <2>a. attempts \in [Unit -> Nat] /\ WorkersOK
    BY <1>1 DEF TypeOK, RowsOK
  <2>b. \A w \in Worker : Claims(w) => check[job[w]] \in {"pending", "queued"}
    BY <1>1 DEF Ownership, ClaimStands
  <2>1. ASSUME attempts' = attempts PROVE FALSE
    BY <1>1, <2>a, <2>1
  <2>2. ASSUME NEW w \in Worker, CommitClaim(w)
        PROVE  check[u] \notin TerminalUnitStatus
    <3>1. u = job[w] /\ Claims(w)
      BY <1>1, <2>a, <2>2 DEF CommitClaim, Claims
    <3> QED BY <2>b, <3>1 DEF TerminalUnitStatus
  <2>3. ASSUME NEW w \in Worker, Commit(w)
        PROVE  check[u] \notin TerminalUnitStatus
    <3>0. /\ pc[w] = "finishing"
          /\ attempts' = [attempts EXCEPT ![job[w]] = tx[w].attempts]
      BY <2>3 DEF Commit
    <3>1. u = job[w]
      <4>1. CASE u # job[w]
        <5>1. attempts'[u] = attempts[u] /\ attempts[u] \in Nat
          BY <2>a, <3>0, <4>1
        <5> QED BY <1>1, <5>1
      <4> QED BY <4>1
    <3>2. attempts'[u] = tx[w].attempts
      BY <2>a, <3>0, <3>1
    <3>3. Claims(w)
      BY <1>1, <3>0, <3>1, <3>2 DEF Claims
    <3> QED BY <2>b, <3>1, <3>3 DEF TerminalUnitStatus
  <2>4. CASE UNCHANGED vars
    BY <2>1, <2>4 DEF vars
  <2>5. CASE Submit \/ SubmitAbort
    BY <2>1, <2>5 DEF Submit, SubmitPush, SubmitCommit, SubmitAbort
  <2>6. ASSUME NEW w \in Worker,
               \/ WorkerStep(w) \/ Crash(w) \/ WorkerVictim(w),
               ~Commit(w)
        PROVE  attempts' = attempts
    BY <2>6 DEF WorkerStep, TakeRunNotFound, TakeBatchComplete,
       TakeTerminalCheck, TakeUnit, Claim, ClaimLost, Start, Finish, Crash,
       WorkerVictim, WorkerRollback
  <2>7. CASE SweepStep \/ SweepAbort \/ SweepVictim
    BY <2>1, <2>7 DEF SweepStep, SweepAbort, SweepVictim, SweepRollback,
       SweepBegin, SlaSkip, SlaDecide, SlaWrite, SlaCommit, StuckRequeue,
       StuckCommit, StuckDecideAdvance, StuckAdvance
  <2>8. CASE \/ TenMinutes \/ SlaPasses \/ Commission
             \/ \E x \in Unit, s \in UnitStatus : Ingest(x, s)
    BY <2>1, <2>8 DEF TenMinutes, SlaPasses, Commission, KanbanAdvance,
       ManualScreeningPassed, RevisionRequired, Moves, Ingest
  <2> QED
    BY <1>1, <2>1, <2>2, <2>3, <2>4, <2>5, <2>6, <2>7, <2>8
       DEF Next, BreakDeadlock
<1>2. TypeOK /\ Ownership /\ [Next]_vars
          => [\A u \in Unit : attempts'[u] > attempts[u]
                                  => check[u] \notin TerminalUnitStatus]_vars
  BY <1>1
<1> QED BY <1>2, OwnershipHolds, PTL DEF Spec, NeverRedone

-----------------------------------------------------------------------------
(* What a run comes to: that its status is that of its checks, that a ready *)
(* run moves the application on and no other does, and that the results say *)
(* what the checks say. Whoever works on the run serialises on its rows: a  *)
(* worker holds the stage row while it executes, and the row of the run     *)
(* from when it has decided to write it.                                    *)

\* No run has been found stuck: the sweep only comes for the SLA.
Quiet ==
    /\ stale = {}
    /\ sweep.pc \in {"idle", "sla", "wait"}
    /\ sweep # SweepIdle => sweep.pc # "idle" /\ slaPast

\* A ready run advances: by the worker that will commit it, or it has been
\* moved already. What has left the screening does not come back.
Ready ==
    /\ ReadyNeverWaits
    /\ \A w \in Worker :
          /\ pc[w] # "idle" /\ seen[w] = "ready" => app # "initial_screening"
          /\ pc[w] = "finishing" =>
                /\ tx[w].advance => tx[w].agg = "ready"
                /\ tx[w].agg = "ready" =>
                      tx[w].advance \/ app # "initial_screening"

\* Who has seen what the run is to become, and who holds the rows it writes.
Holding ==
    \A w \in Worker :
       /\ pc[w] = "running" => lock["stage"] = w
       /\ pc[w] = "detached" => seen[w] = "dirty"
       /\ pc[w] = "finishing" =>
             /\ Claims(w) \/ seen[w] = "dirty"
             /\ seen[w] # tx[w].agg => lock["run"] = w
             /\ \A f \in tx[w].follow : check[f] = "pending"
             /\ MidCommit = {} => Claims(w) /\ lock["stage"] = w

\* A worker that is about to advance has seen every other unit completed.
Advancing ==
    \A w \in Worker : (pc[w] = "finishing" /\ tx[w].advance) =>
        /\ tx[w].out = "completed"
        /\ tx[w].follow = {}
        /\ seen[w] # "ready"
        /\ \A u \in Unit \ {job[w]} : check[u] = "completed"

\* The checks as the commit of w leaves them.
Ended(w) ==
    [u \in Unit |-> IF u = job[w] THEN tx[w].out
                    ELSE IF u \in tx[w].follow THEN "queued" ELSE check[u]]

Agrees(status, statuses) ==
    (AllTerminal(statuses) \/ status \in TerminalRunStatus)
        => status = RunStatusOf(statuses)

\* The webhook and the SLA have not both been at the run.
Calm == ingests = 0 \/ ~slaPast

\* What the SLA has passed over has ended.
PassedOver ==
    sweep.pc \in {"sla", "wait"} =>
        \A u \in Unit \ sweep.todo :
            \/ check[u] \in TerminalUnitStatus
            \/ u \in sweep.hit /\ lock[u] = Sweeper

\* What a worker goes by: what it has seen of the run, and what it will write.
GoesBy(w) ==
    /\ pc[w] # "idle" => seen[w] \notin TerminalRunStatus
    /\ pc[w] = "finishing" => Agrees(tx[w].agg, Ended(w))

Agreement ==
    Calm => Agrees(run, check) /\ PassedOver /\ \A w \in Worker : GoesBy(w)

\* Dependents that have nothing left to wait for have been queued ...
Carried(s) ==
    \A u \in Unit \ FirstWave : DependenciesMet(u, s) => s[u] # "pending"

\* ... by whoever has ended the last of what they wait for, or is about to.
Queueing ==
    Calm => /\ run # "absent" => Carried(check)
            /\ \A w \in Worker : pc[w] = "finishing" => Carried(Ended(w))

-----------------------------------------------------------------------------
(* The aggregation rule.                                                   *)

\* It depends on the statuses of the units only.
LEMMA RunStatusSame ==
    ASSUME NEW s, NEW t, \A u \in Unit : s[u] = t[u]
    PROVE  /\ RunStatusOf(s) = RunStatusOf(t)
           /\ AllTerminal(s) <=> AllTerminal(t)
<1>1. AllTerminal(s) <=> AllTerminal(t)
  BY DEF AllTerminal
<1>2. {s[u] : u \in Unit} = {t[u] : u \in Unit}
  OBVIOUS
<1>3. (\E u \in Required : s[u] = "failed") <=> (\E u \in Required : t[u] = "failed")
  BY PolicyAssumption
<1> QED BY <1>1, <1>2, <1>3 DEF RunStatusOf

\* A run has ended when all its units have.
LEMMA RunStatusEnds ==
    ASSUME NEW s
    PROVE  /\ AllTerminal(s) <=> RunStatusOf(s) \in TerminalRunStatus
           /\ AllTerminal(s) <=> RunStatusOf(s) \notin ActiveRunStatus
BY DEF RunStatusOf, ActiveRunStatus, TerminalRunStatus

\* It is ready only if every unit is completed.
LEMMA RunStatusReady ==
    ASSUME NEW s, RunStatusOf(s) = "ready"
    PROVE  \A u \in Unit : s[u] = "completed"
<1>1. {s[u] : u \in Unit} \subseteq {"completed"}
  BY DEF RunStatusOf
<1> QED BY <1>1

\* A failed unit is terminal, and completed is.
LEMMA Terminals ==
    /\ TerminalUnitStatus \subseteq UnitStatus
    /\ "completed" \in TerminalUnitStatus
    /\ {"pending", "queued", "running"} \cap TerminalUnitStatus = {}
    /\ "dirty" \notin TerminalRunStatus /\ "absent" \notin TerminalRunStatus
BY DEF UnitStatus, TerminalUnitStatus, TerminalRunStatus

\* A verdict stands while no unit ends, and none that has ended changes.
LEMMA SameVerdict ==
    ASSUME NEW status, NEW s, NEW t, Agrees(status, s),
           \A u \in Unit : \/ t[u] = s[u]
                           \/ /\ s[u] \notin TerminalUnitStatus
                              /\ t[u] \notin TerminalUnitStatus
    PROVE  Agrees(status, t)
<1>1. AllTerminal(s) <=> AllTerminal(t)
  BY DEF AllTerminal
<1>2. CASE AllTerminal(s)
  <2>1. \A u \in Unit : s[u] = t[u]
    BY <1>2 DEF AllTerminal
  <2> QED BY <2>1, RunStatusSame DEF Agrees
<1>3. CASE ~AllTerminal(s)
  <2>1. status \notin TerminalRunStatus
    BY <1>3, RunStatusEnds DEF Agrees
  <2> QED BY <1>1, <1>3, <2>1 DEF Agrees
<1> QED BY <1>2, <1>3

-----------------------------------------------------------------------------
(* The sweep, when no run is found stuck.                                  *)

LEMMA QuietStep ==
    ASSUME "stale" \notin Clock, TypeOK, Quiet, [Next]_vars
    PROVE  Quiet'
<1> USE DEF db, worker, counters
<1>1. /\ stale = {} /\ sweep.pc \in {"idle", "sla", "wait"}
      /\ sweep # SweepIdle => sweep.pc # "idle" /\ slaPast
      /\ sweep \in SweepTx
  BY DEF Quiet, TypeOK, SweepOK
<1>2. stale' = {}
  BY <1>1 DEF Next, vars, Submit, SubmitPush, SubmitCommit, SubmitAbort,
     WorkerStep, SweepStep, BreakDeadlock, Commission, TakeRunNotFound,
     TakeBatchComplete, TakeTerminalCheck, TakeUnit, Claim, ClaimLost, Start,
     Finish, Commit, CommitClaim, Crash, WorkerRollback, SweepBegin, SlaSkip,
     SlaDecide, SlaWrite, SlaCommit, StuckRequeue, StuckCommit,
     StuckDecideAdvance, StuckAdvance, SweepAbort, SweepRollback, SweepVictim,
     WorkerVictim, TenMinutes, SlaPasses, Ingest, KanbanAdvance,
     ManualScreeningPassed, RevisionRequired, Moves
<1>3. slaPast => slaPast'
  BY DEF Next, vars, Submit, SubmitPush, SubmitCommit, SubmitAbort,
     WorkerStep, SweepStep, BreakDeadlock, Commission, TakeRunNotFound,
     TakeBatchComplete, TakeTerminalCheck, TakeUnit, Claim, ClaimLost, Start,
     Finish, Commit, CommitClaim, Crash, WorkerRollback, SweepBegin, SlaSkip,
     SlaDecide, SlaWrite, SlaCommit, StuckRequeue, StuckCommit,
     StuckDecideAdvance, StuckAdvance, SweepAbort, SweepRollback, SweepVictim,
     WorkerVictim, TenMinutes, SlaPasses, Ingest, KanbanAdvance,
     ManualScreeningPassed, RevisionRequired, Moves
<1>4. CASE sweep' = sweep
  BY <1>1, <1>2, <1>3, <1>4 DEF Quiet
<1>5. CASE sweep' = SweepIdle
  BY <1>2, <1>5 DEF Quiet, SweepIdle
<1>6. CASE SweepBegin
  <2>1. slaPast
    BY <1>1, <1>6 DEF SweepBegin, SweepDue
  <2>2. sweep'.pc = "sla"
    BY <1>1, <1>6, <2>1 DEF SweepBegin, SweepTx
  <2> QED BY <1>2, <1>3, <2>1, <2>2 DEF Quiet
<1>7. CASE (\E u \in Unit : SlaSkip(u) \/ SlaDecide(u)) \/ SlaWrite
  <2>1. sweep'.pc \in {"sla", "wait"}
    BY <1>1, <1>7 DEF SlaSkip, SlaDecide, SlaVisits, SlaWrite, SweepTx
  <2>2. sweep.pc \in {"sla", "wait"}
    BY <1>7 DEF SlaSkip, SlaDecide, SlaVisits, SlaWrite
  <2>3. slaPast
    BY <1>1, <2>2 DEF SweepIdle
  <2> QED BY <1>2, <1>3, <2>1, <2>3 DEF Quiet, SweepIdle
<1>8. ~(StuckRequeue \/ StuckCommit \/ StuckDecideAdvance \/ StuckAdvance)
  BY <1>1 DEF StuckRequeue, StuckCommit, StuckDecideAdvance, StuckAdvance
<1>9. CASE SlaCommit \/ SweepAbort \/ SweepVictim
  BY <1>5, <1>9 DEF SlaCommit, SweepAbort, SweepVictim, SweepRollback
<1>10. CASE ~SweepStep /\ ~SweepAbort /\ ~SweepVictim
  BY <1>4, <1>10 DEF Next, vars, Submit, SubmitPush, SubmitCommit, SubmitAbort,
     WorkerStep, BreakDeadlock, Commission, TakeRunNotFound,
     TakeBatchComplete, TakeTerminalCheck, TakeUnit, Claim, ClaimLost, Start,
     Finish, Commit, CommitClaim, Crash, WorkerRollback, WorkerVictim,
     TenMinutes, SlaPasses, Ingest, KanbanAdvance,
     ManualScreeningPassed, RevisionRequired, Moves
<1> QED BY <1>6, <1>7, <1>8, <1>9, <1>10 DEF SweepStep

-----------------------------------------------------------------------------
(* The results that are read, beside the checks.                           *)

LEMMA ResultStep ==
    ASSUME TypeOK, Quiet, ResultFollowsCheck, [Next]_vars
    PROVE  ResultFollowsCheck'
<1> USE DEF db, worker, counters
<1>1. /\ check \in [Unit -> UnitStatus] /\ result \in [Unit -> UnitStatus]
      /\ \A w \in Worker : pc[w] # "idle" => job[w] \in Unit
  BY DEF TypeOK, RowsOK, WorkersOK
<1>2. \A u \in Unit : check[u] \in TerminalUnitStatus => result[u] = check[u]
  BY DEF ResultFollowsCheck
<1>3. CASE UNCHANGED <<check, result>>
  BY <1>3 DEF ResultFollowsCheck
<1>4. CASE Submit \/ SubmitAbort
  <2>1. CASE SubmitCommit
    BY <2>1, Terminals DEF SubmitCommit, ResultFollowsCheck
  <2> QED BY <1>3, <1>4, <2>1 DEF Submit, SubmitPush, SubmitAbort
<1>5. ASSUME NEW w \in Worker,
             WorkerStep(w) \/ CommitClaim(w) \/ Crash(w) \/ WorkerVictim(w)
      PROVE  ResultFollowsCheck'
  <2>1. CASE TakeTerminalCheck(w)
    BY <1>1, <1>2, <2>1, Terminals DEF TakeTerminalCheck, ResultFollowsCheck
  <2>2. CASE CommitClaim(w)
    BY <1>1, <1>2, <2>2, Terminals DEF CommitClaim, ResultFollowsCheck
  <2>3. CASE Commit(w)
    BY <1>1, <1>2, <2>3, Terminals DEF Commit, ResultFollowsCheck
  <2>4. CASE ~TakeTerminalCheck(w) /\ ~CommitClaim(w) /\ ~Commit(w)
    BY <1>3, <1>5, <2>4 DEF WorkerStep, TakeRunNotFound, TakeBatchComplete,
       TakeUnit, Claim, ClaimLost, Start, Finish, Crash, WorkerVictim,
       WorkerRollback
  <2> QED BY <2>1, <2>2, <2>3, <2>4
<1>6. CASE SweepStep \/ SweepAbort \/ SweepVictim
  <2>1. CASE SlaCommit
    BY <1>1, <1>2, <2>1 DEF SlaCommit, SlaResults, SlaFailed, ResultFollowsCheck
  <2>2. ~StuckCommit
    BY DEF Quiet, StuckCommit
  <2> QED BY <1>3, <1>6, <2>1, <2>2 DEF SweepStep, SweepBegin, SlaSkip,
       SlaDecide, SlaWrite, StuckRequeue, StuckDecideAdvance, StuckAdvance,
       SweepAbort, SweepVictim, SweepRollback
<1>7. ASSUME NEW u \in Unit, NEW s \in UnitStatus, Ingest(u, s)
      PROVE  ResultFollowsCheck'
  BY <1>1, <1>2, <1>7, Terminals DEF Ingest, ResultFollowsCheck
<1>8. CASE TenMinutes \/ SlaPasses \/ Commission \/ UNCHANGED vars
  BY <1>3, <1>8 DEF TenMinutes, SlaPasses, Commission, KanbanAdvance,
     ManualScreeningPassed, RevisionRequired, Moves, vars
<1> QED BY <1>4, <1>5, <1>6, <1>7, <1>8 DEF Next, BreakDeadlock

-----------------------------------------------------------------------------
(* A ready run moves the application on.                                   *)

\* What has left the screening stays away from it.
LEMMA LeftForGood ==
    ASSUME TypeOK, NoRunNoWork, [Next]_vars, run # "absent",
           app # "initial_screening"
    PROVE  app' # "initial_screening"
<1> USE DEF db, worker, counters
<1>1. ~SubmitCommit
  BY DEF NoRunNoWork, SubmitCommit
<1> QED
  BY <1>1 DEF Next, vars, Submit, SubmitPush, SubmitAbort,
     WorkerStep, SweepStep, BreakDeadlock, Commission, TakeRunNotFound,
     TakeBatchComplete, TakeTerminalCheck, TakeUnit, Claim, ClaimLost, Start,
     Finish, Commit, CommitClaim, Crash, WorkerRollback, SweepBegin, SlaSkip,
     SlaDecide, SlaWrite, SlaCommit, StuckRequeue, StuckCommit,
     StuckDecideAdvance, StuckAdvance, SweepAbort, SweepRollback, SweepVictim,
     WorkerVictim, TenMinutes, SlaPasses, Ingest, KanbanAdvance,
     ManualScreeningPassed, RevisionRequired, Moves

\* What Ready says of one worker.
ReadyFor(w) ==
    /\ pc[w] # "idle" /\ seen[w] = "ready" => app # "initial_screening"
    /\ pc[w] = "finishing" =>
          /\ tx[w].advance => tx[w].agg = "ready"
          /\ tx[w].agg = "ready" => tx[w].advance \/ app # "initial_screening"

\* A step that is not this worker's.
LEMMA ReadyFrame ==
    ASSUME NEW v \in Worker, ReadyFor(v),
           pc'[v] = pc[v], seen'[v] = seen[v], tx'[v] = tx[v],
           \/ pc[v] = "idle"
           \/ app # "initial_screening" => app' # "initial_screening"
    PROVE  ReadyFor(v)'
BY DEF ReadyFor

\* A step of its own.
LEMMA ReadyOwn ==
    ASSUME TypeOK, Ready, NEW w \in Worker,
           app # "initial_screening" => app' # "initial_screening",
           WorkerStep(w) \/ CommitClaim(w) \/ Crash(w) \/ WorkerVictim(w)
    PROVE  ReadyFor(w)'
<1> USE DEF db, worker, counters
<1>1. WorkersOK
  BY DEF TypeOK
<1>2. ReadyFor(w) /\ ReadyNeverWaits
  BY DEF Ready, ReadyFor
<1>3. CASE ClaimLost(w) \/ Commit(w) \/ Crash(w) \/ WorkerVictim(w)
  <2>1. pc'[w] = "idle"
    BY <1>1, <1>3 DEF WorkersOK, ClaimLost, Commit, Crash, WorkerVictim,
       WorkerRollback
  <2> QED BY <2>1 DEF ReadyFor
<1>4. CASE TakeRunNotFound(w) \/ TakeBatchComplete(w) \/ TakeTerminalCheck(w)
  BY <1>2, <1>4, ReadyFrame DEF TakeRunNotFound, TakeBatchComplete,
     TakeTerminalCheck
<1>5. CASE TakeUnit(w)
  <2>1. /\ pc'[w] = "claiming" /\ seen'[w] = run /\ app' = app
    BY <1>1, <1>5 DEF TakeUnit, WorkersOK
  <2> QED BY <1>2, <2>1 DEF ReadyFor, ReadyNeverWaits
<1>6. CASE Claim(w) \/ Start(w)
  <2>1. /\ pc[w] # "idle" /\ pc'[w] \in {"starting", "running"}
        /\ seen'[w] \in {seen[w], "dirty"} /\ app' = app
    BY <1>1, <1>6 DEF Claim, Start, WorkersOK
  <2> QED BY <1>2, <2>1 DEF ReadyFor
<1>7. CASE CommitClaim(w)
  <2>1. pc'[w] = "detached" /\ seen'[w] = "dirty"
    BY <1>1, <1>7 DEF CommitClaim, WorkersOK
  <2> QED BY <2>1 DEF ReadyFor
<1>8. ASSUME NEW out \in TerminalUnitStatus, Finish(w, out)
      PROVE  ReadyFor(w)'
  <2> DEFINE agg == RunStatusOf(Settled(w, out))
  <2>1. /\ pc[w] # "idle" /\ pc'[w] = "finishing" /\ seen'[w] = seen[w]
        /\ app' = app
    BY <1>1, <1>8 DEF Finish, WorkersOK
  <2>2. tx'[w].agg = agg /\ tx'[w].advance = AutoAdvances(agg)
    BY <1>1, <1>8, Zenon DEF Finish, WorkersOK
  <2> HIDE DEF agg
  <2> QED BY <1>2, <2>1, <2>2 DEF ReadyFor, AutoAdvances
<1> QED BY <1>3, <1>4, <1>5, <1>6, <1>7, <1>8
     DEF WorkerStep

LEMMA NeverWaitsStep ==
    ASSUME TypeOK, NoRunNoWork, Ready, [Next]_vars
    PROVE  ReadyNeverWaits'
<1> USE DEF db, worker, counters
<1>1. /\ run = "ready" => app # "initial_screening"
      /\ run # "absent" /\ app # "initial_screening"
            => app' # "initial_screening"
  BY LeftForGood DEF Ready, ReadyNeverWaits
<1>2. CASE run' = run
  BY <1>1, <1>2 DEF ReadyNeverWaits
<1>3. CASE run' # "ready"
  BY <1>3 DEF ReadyNeverWaits
<1>4. CASE Submit \/ SubmitAbort
  BY <1>2, <1>3, <1>4 DEF Submit, SubmitPush, SubmitCommit, SubmitAbort
<1>5. ASSUME NEW w \in Worker,
             WorkerStep(w) \/ CommitClaim(w) \/ Crash(w) \/ WorkerVictim(w)
      PROVE  ReadyNeverWaits'
  <2>1. CASE Commit(w)
    <3>1. /\ tx[w].agg = "ready" => tx[w].advance \/ app # "initial_screening"
          /\ app' = IF tx[w].advance THEN "application_review" ELSE app
          /\ run' = run \/ run' = tx[w].agg
      BY <2>1 DEF Commit, Ready
    <3> QED BY <1>2, <1>3, <3>1 DEF ReadyNeverWaits
  <2>2. CASE CommitClaim(w)
    BY <1>2, <1>3, <2>2 DEF CommitClaim
  <2>3. CASE ~Commit(w) /\ ~CommitClaim(w)
    BY <1>2, <1>5, <2>3 DEF WorkerStep, TakeRunNotFound, TakeBatchComplete,
       TakeTerminalCheck, TakeUnit, Claim, ClaimLost, Start, Finish, Crash,
       WorkerVictim, WorkerRollback
  <2> QED BY <2>1, <2>2, <2>3
<1>6. CASE SlaCommit
  <2>1. CASE sweep.hit = {}
    BY <1>2, <1>6, <2>1 DEF SlaCommit
  <2>2. CASE sweep.hit # {}
    <3>1. PICK u \in Unit : u \in sweep.hit
      BY <2>2 DEF TypeOK, SweepOK, SweepTx
    <3>2. check'[u] = "failed" /\ run' = RunStatusOf(check')
      BY <1>6, <2>2, <3>1 DEF SlaCommit, SlaFailed
    <3>3. run' # "ready"
      BY <3>2, RunStatusReady
    <3> QED BY <1>3, <3>3
  <2> QED BY <2>1, <2>2
<1>7. CASE StuckCommit
  BY <1>2, <1>3, <1>7 DEF StuckCommit, AutoAdvances, ReadyNeverWaits
<1>8. CASE StuckAdvance
  BY <1>8 DEF StuckAdvance, ReadyNeverWaits
<1>9. CASE \/ SweepStep \/ SweepAbort \/ SweepVictim
           \/ TenMinutes \/ SlaPasses \/ Commission \/ UNCHANGED vars
  BY <1>2, <1>6, <1>7, <1>8, <1>9 DEF SweepStep, SweepAbort, SweepVictim,
     SweepRollback, SweepBegin, SlaSkip, SlaDecide, SlaWrite, StuckRequeue,
     StuckDecideAdvance, TenMinutes, SlaPasses, Commission, KanbanAdvance,
     ManualScreeningPassed, RevisionRequired, Moves, vars
<1>10. ASSUME NEW u \in Unit, NEW s \in UnitStatus, Ingest(u, s)
       PROVE  ReadyNeverWaits'
  <2>1. PICK agg : /\ run' = agg
                   /\ app' = IF AutoAdvances(agg) THEN "application_review"
                             ELSE app
    BY <1>10 DEF Ingest
  <2> QED BY <2>1 DEF AutoAdvances, ReadyNeverWaits
<1> QED BY <1>4, <1>5, <1>9, <1>10 DEF Next, BreakDeadlock

LEMMA ReadyStep ==
    ASSUME TypeOK, Ownership, Ready, [Next]_vars
    PROVE  Ready'
<1> USE DEF db, worker, counters
<1>0. NoRunNoWork
  BY DEF Ownership
<1>1. ReadyNeverWaits'
  BY <1>0, NeverWaitsStep
<1>2. \A w \in Worker : ReadyFor(w)
  BY DEF Ready, ReadyFor
<1>3. ASSUME NEW w \in Worker PROVE ReadyFor(w)'
  <2>1. CASE run = "absent"
    <3>1. pc'[w] = "idle"
      <4>1. pc[w] = "idle"
        BY <1>0, <2>1 DEF NoRunNoWork
      <4>2. NoRunNoWork'
        BY <1>0, NoRunNoWorkStep
      <4>3. CASE run' = "absent"
        BY <4>2, <4>3 DEF NoRunNoWork
      <4>4. CASE run' # "absent"
        <5>1. pc' = pc
          BY <2>1, <4>4, <1>0 DEF Next, vars, Submit, SubmitPush, SubmitCommit,
             SubmitAbort, WorkerStep, SweepStep, BreakDeadlock, Commission,
             TakeRunNotFound, TakeBatchComplete, TakeTerminalCheck, TakeUnit,
             Claim, ClaimLost, Start, Finish, Commit, CommitClaim, Crash,
             WorkerRollback, SweepBegin, SlaSkip, SlaDecide, SlaWrite,
             SlaCommit, StuckRequeue, StuckCommit, StuckDecideAdvance,
             StuckAdvance, SweepAbort, SweepRollback, SweepVictim, WorkerVictim,
             TenMinutes, SlaPasses, Ingest, KanbanAdvance,
             ManualScreeningPassed, RevisionRequired, Moves, NoRunNoWork,
             SweepIdle, Popped
        <5> QED BY <4>1, <5>1
      <4> QED BY <4>1, <4>3, <4>4
    <3> QED BY <3>1 DEF ReadyFor
  <2>2. CASE run # "absent"
    <3>1. app # "initial_screening" => app' # "initial_screening"
      BY <1>0, <2>2, LeftForGood
    <3>2. CASE pc'[w] = pc[w] /\ seen'[w] = seen[w] /\ tx'[w] = tx[w]
      BY <1>2, <3>1, <3>2, ReadyFrame
    <3>3. ASSUME NEW v \in Worker,
                 WorkerStep(v) \/ CommitClaim(v) \/ Crash(v) \/ WorkerVictim(v)
          PROVE  ReadyFor(w)'
      <4>1. CASE v = w
        BY <3>1, <3>3, <4>1, ReadyOwn
      <4>2. CASE v # w
        <5>1. pc'[w] = pc[w] /\ tx'[w] = tx[w]
          BY <3>3, <4>2, WorkerStepFrame
        <5>2. seen'[w] = seen[w]
          BY <3>3, <4>2 DEF TypeOK, WorkersOK, WorkerStep, TakeRunNotFound,
             TakeBatchComplete, TakeTerminalCheck, TakeUnit, Claim, ClaimLost,
             Start, Finish, Commit, CommitClaim, Crash, WorkerVictim,
             WorkerRollback
        <5> QED BY <3>2, <5>1, <5>2
      <4> QED BY <4>1, <4>2
    <3>4. CASE ~\E v \in Worker : \/ WorkerStep(v) \/ CommitClaim(v)
                                 \/ Crash(v) \/ WorkerVictim(v)
      <4>1. UNCHANGED <<pc, seen, tx>>
        BY <3>4 DEF Next, vars, Submit, SubmitPush, SubmitCommit, SubmitAbort,
           SweepStep, BreakDeadlock, Commission, SweepBegin, SlaSkip, SlaDecide,
           SlaWrite, SlaCommit, StuckRequeue, StuckCommit, StuckDecideAdvance,
           StuckAdvance, SweepAbort, SweepRollback, SweepVictim, TenMinutes,
           SlaPasses, Ingest, KanbanAdvance, ManualScreeningPassed,
           RevisionRequired, Moves
      <4> QED BY <3>2, <4>1
    <3> QED BY <3>3, <3>4
  <2> QED BY <2>1, <2>2
<1> QED BY <1>1, <1>3 DEF Ready, ReadyFor

-----------------------------------------------------------------------------
(* The rows of the stage and the run.                                      *)

\* What Holding says of one worker.
HoldingFor(w) ==
    /\ pc[w] = "running" => lock["stage"] = w
    /\ pc[w] = "detached" => seen[w] = "dirty"
    /\ pc[w] = "finishing" =>
          /\ Claims(w) \/ seen[w] = "dirty"
          /\ seen[w] # tx[w].agg => lock["run"] = w
          /\ \A f \in tx[w].follow : check[f] = "pending"
          /\ MidCommit = {} => Claims(w) /\ lock["stage"] = w

\* What others may do meanwhile.
LEMMA HoldingFrame ==
    ASSUME TypeOK, NEW v \in Worker, WorkerLocks(v), HoldingFor(v),
           pc'[v] = pc[v], job'[v] = job[v], seen'[v] = seen[v],
           tx'[v] = tx[v],
           \A r \in Row : lock[r] = v => lock'[r] = v,
           \A u \in Unit : lock[u] = v => /\ check'[u] = check[u]
                                          /\ attempts'[u] = attempts[u]
    PROVE  HoldingFor(v)'
<1>1. {"stage", "run"} \subseteq Row
  BY DEF Row
<1>2. tx[v].follow \subseteq Unit /\ (pc[v] # "idle" => job[v] \in Unit)
  BY DEF TypeOK, WorkersOK, UnitTx
<1>3. pc[v] = "finishing" =>
         /\ attempts'[job[v]] = attempts[job[v]]
         /\ \A f \in tx[v].follow : check'[f] = check[f]
  BY <1>2 DEF WorkerLocks
<1>4. pc[v] = "finishing" => (Claims(v)' <=> Claims(v))
  BY <1>3 DEF Claims
<1> QED BY <1>1, <1>3, <1>4 DEF HoldingFor

LEMMA HoldingOwn ==
    ASSUME TypeOK, Ownership, NEW w \in Worker, HoldingFor(w),
           WorkerStep(w) \/ CommitClaim(w) \/ Crash(w) \/ WorkerVictim(w)
    PROVE  HoldingFor(w)'
<1> USE DEF db, worker, counters
<1>1. /\ WorkersOK /\ LocksOK /\ check \in [Unit -> UnitStatus]
      /\ attempts \in [Unit -> Nat]
  BY DEF TypeOK, RowsOK
<1>2. {"stage", "run"} \subseteq Row
  BY DEF Row
<1>3. CASE \/ TakeRunNotFound(w) \/ TakeBatchComplete(w)
           \/ TakeTerminalCheck(w) \/ TakeUnit(w) \/ Claim(w) \/ ClaimLost(w)
           \/ Commit(w) \/ Crash(w) \/ WorkerVictim(w)
  <2>1. pc'[w] \in {"idle", "claiming", "starting"}
    BY <1>1, <1>3 DEF WorkersOK, TakeRunNotFound, TakeBatchComplete,
       TakeTerminalCheck, TakeUnit, Claim, ClaimLost, Commit, Crash,
       WorkerVictim, WorkerRollback, Popped
  <2> QED BY <2>1 DEF HoldingFor
<1>4. CASE Start(w)
  <2>1. pc'[w] = "running" /\ lock' = Acquired(StartRows(w), w)
    BY <1>1, <1>4 DEF Start, WorkersOK
  <2>2. lock'["stage"] = w
    BY <1>2, <2>1, AcquiredTakes DEF StartRows
  <2> QED BY <2>1, <2>2 DEF HoldingFor
<1>5. CASE CommitClaim(w)
  <2>1. pc'[w] = "detached" /\ seen'[w] = "dirty"
    BY <1>1, <1>5 DEF CommitClaim, WorkersOK
  <2> QED BY <2>1 DEF HoldingFor
<1>6. ASSUME NEW out \in TerminalUnitStatus, Finish(w, out)
      PROVE  HoldingFor(w)'
  <2> DEFINE agg == RunStatusOf(Settled(w, out))
             started == IF pc[w] = "running" THEN 1 ELSE 0
  <2>1. /\ pc[w] \in {"running", "detached"} /\ pc'[w] = "finishing"
        /\ seen'[w] = seen[w] /\ job'[w] = job[w] /\ job[w] \in Unit
        /\ lock' = Acquired(FinishRows(w, out), w)
        /\ Free(FinishRows(w, out), w)
        /\ UNCHANGED <<check, attempts>>
    BY <1>1, <1>6 DEF Finish, WorkersOK
  <2>2. /\ tx'[w].agg = agg /\ tx'[w].follow = Touched(w, out)
        /\ tx'[w].attempts = attempts[job[w]] + started
    BY <1>1, <1>6, Zenon DEF Finish, WorkersOK
  <2>3. \A f \in tx'[w].follow : check'[f] = "pending"
    BY <2>1, <2>2 DEF Touched
  <2>4. seen'[w] # tx'[w].agg => lock'["run"] = w
    <3>1. ASSUME seen[w] # agg PROVE "run" \in FinishRows(w, out)
      BY <3>1 DEF FinishRows
    <3> QED BY <1>2, <2>1, <2>2, <3>1, AcquiredTakes
  <2>5. CASE pc[w] = "running"
    <3>1. tx'[w].attempts > attempts'[job'[w]]
      <4>1. started = 1 /\ attempts[job[w]] \in Nat
        BY <1>1, <2>1, <2>5
      <4> QED BY <2>1, <2>2, <4>1
    <3>2. Claims(w)'
      BY <2>1, <3>1 DEF Claims
    <3>3. lock'["stage"] = w
      <4>1. lock["stage"] = w
        BY <2>5 DEF HoldingFor
      <4> QED BY <1>1, <1>2, <2>1, <4>1, AcquiredKeeps
    <3> QED BY <2>1, <2>3, <2>4, <3>2, <3>3 DEF HoldingFor
  <2>6. CASE pc[w] = "detached"
    <3>1. seen[w] = "dirty" /\ MidCommit # {}
      BY <2>6 DEF HoldingFor, Ownership, LockDiscipline, WorkerLocks
    <3> QED BY <2>1, <2>3, <2>4, <3>1 DEF HoldingFor
  <2> QED BY <2>1, <2>5, <2>6
<1> QED BY <1>3, <1>4, <1>5, <1>6 DEF WorkerStep

\* Whatever step is not this worker's own leaves it what it has.
LEMMA OthersLeave ==
    ASSUME TypeOK, Ownership, [Next]_vars, NEW v \in Worker, pc[v] # "idle",
           ~(WorkerStep(v) \/ CommitClaim(v) \/ Crash(v) \/ WorkerVictim(v))
    PROVE  /\ pc'[v] = pc[v] /\ job'[v] = job[v] /\ seen'[v] = seen[v]
           /\ tx'[v] = tx[v]
           /\ \A r \in Row : lock[r] = v => lock'[r] = v
           /\ \A u \in Unit : lock[u] = v => /\ check'[u] = check[u]
                                             /\ attempts'[u] = attempts[u]
<1> USE DEF db, worker, counters
<1>1. CASE UNCHANGED vars
  BY <1>1 DEF vars
<1>2. CASE Submit \/ SubmitAbort
  <2>1. run # "absent" /\ submit # "open"
    BY DEF Ownership, NoRunNoWork
  <2> QED BY <1>2, <2>1 DEF Submit, SubmitPush, SubmitCommit, SubmitAbort
<1>3. ASSUME NEW w \in Worker \ {v},
             WorkerStep(w) \/ CommitClaim(w) \/ Crash(w) \/ WorkerVictim(w)
      PROVE  /\ pc'[v] = pc[v] /\ job'[v] = job[v] /\ seen'[v] = seen[v]
             /\ tx'[v] = tx[v]
             /\ \A r \in Row : lock[r] = v => lock'[r] = v
             /\ \A u \in Unit : lock[u] = v => /\ check'[u] = check[u]
                                               /\ attempts'[u] = attempts[u]
  <2>1. pc'[v] = pc[v] /\ job'[v] = job[v] /\ tx'[v] = tx[v]
    BY <1>3, WorkerStepFrame
  <2>2. seen'[v] = seen[v]
    BY <1>3 DEF TypeOK, WorkersOK, WorkerStep, TakeRunNotFound,
       TakeBatchComplete, TakeTerminalCheck, TakeUnit, Claim, ClaimLost, Start,
       Finish, Commit, CommitClaim, Crash, WorkerVictim, WorkerRollback
  <2>3. \A r \in Row : lock[r] = v => lock'[r] = v
    BY <1>3, WorkerStepLocks
  <2>4. \A u \in Unit : lock[u] = v => /\ check'[u] = check[u]
                                       /\ attempts'[u] = attempts[u]
    BY <1>3, HeldRowsStay
  <2> QED BY <2>1, <2>2, <2>3, <2>4
<1>4. CASE SweepStep \/ SweepAbort \/ SweepVictim
  <2>1. /\ UNCHANGED <<pc, job, tx>>
        /\ \A r \in Row : lock[r] = v => lock'[r] = v
    BY <1>4, SweepStepLocks DEF Ownership, LockDiscipline
  <2>2. seen' = seen
    BY <1>4 DEF SweepStep, SweepAbort, SweepVictim, SweepRollback, SweepBegin,
       SlaSkip, SlaDecide, SlaWrite, SlaCommit, StuckRequeue, StuckCommit,
       StuckDecideAdvance, StuckAdvance
  <2>3. \A u \in Unit : lock[u] = v => /\ check'[u] = check[u]
                                       /\ attempts'[u] = attempts[u]
    BY <1>4, HeldRowsStay
  <2> QED BY <2>1, <2>2, <2>3
<1>5. CASE \/ TenMinutes \/ SlaPasses \/ Commission
           \/ \E x \in Unit, s \in UnitStatus : Ingest(x, s)
  <2>1. UNCHANGED <<pc, job, seen, tx, lock>>
    BY <1>5 DEF TenMinutes, SlaPasses, Commission, KanbanAdvance,
       ManualScreeningPassed, RevisionRequired, Moves, Ingest
  <2>2. \A u \in Unit : lock[u] = v => /\ check'[u] = check[u]
                                       /\ attempts'[u] = attempts[u]
    BY <1>5, HeldRowsStay
  <2> QED BY <2>1, <2>2
<1> QED BY <1>1, <1>2, <1>3, <1>4, <1>5 DEF Next, BreakDeadlock

\* A worker with nothing in hand begins with a claim, if at all.
LEMMA IdleBegins ==
    ASSUME TypeOK, Ownership, [Next]_vars, NEW v \in Worker, pc[v] = "idle"
    PROVE  /\ pc'[v] \in {"idle", "claiming"}
           /\ pc'[v] = "claiming" => TakeUnit(v)
<1> USE DEF db, worker, counters
<1>1. CASE pc'[v] = pc[v]
  BY <1>1
<1>2. CASE Submit \/ SubmitAbort \/ UNCHANGED vars
  BY <1>1, <1>2 DEF Submit, SubmitPush, SubmitCommit, SubmitAbort, vars
<1>3. ASSUME NEW w \in Worker \ {v},
             WorkerStep(w) \/ CommitClaim(w) \/ Crash(w) \/ WorkerVictim(w)
      PROVE  pc'[v] = pc[v]
  BY <1>3, WorkerStepFrame
<1>4. CASE SweepStep \/ SweepAbort \/ SweepVictim
  BY <1>1, <1>4, SweepStepLocks DEF Ownership, LockDiscipline
<1>5. CASE \/ TenMinutes \/ SlaPasses \/ Commission
           \/ \E x \in Unit, s \in UnitStatus : Ingest(x, s)
  BY <1>1, <1>5 DEF TenMinutes, SlaPasses, Commission, KanbanAdvance,
     ManualScreeningPassed, RevisionRequired, Moves, Ingest
<1>6. CASE WorkerStep(v) \/ CommitClaim(v) \/ Crash(v) \/ WorkerVictim(v)
  <2>1. CASE TakeUnit(v)
    BY <2>1 DEF TakeUnit, TypeOK, WorkersOK
  <2>2. CASE WorkerVictim(v)
    BY <2>2 DEF WorkerVictim, WorkerRollback, TypeOK, WorkersOK
  <2>3. CASE ~TakeUnit(v) /\ ~WorkerVictim(v)
    BY <1>1, <1>6, <2>3 DEF WorkerStep, TakeRunNotFound, TakeBatchComplete,
       TakeTerminalCheck, Claim, ClaimLost, Start, Finish, Commit, CommitClaim,
       Crash
  <2> QED BY <2>1, <2>2, <2>3
<1> QED BY <1>1, <1>2, <1>3, <1>4, <1>5, <1>6 DEF Next, BreakDeadlock

LEMMA HoldingStep ==
    ASSUME TypeOK, Ownership, Holding, [Next]_vars
    PROVE  Holding'
<1>1. \A w \in Worker : HoldingFor(w)
  BY DEF Holding, HoldingFor
<1>2. ASSUME NEW v \in Worker PROVE HoldingFor(v)'
  <2>1. CASE pc[v] = "idle"
    <3>1. pc'[v] \in {"idle", "claiming"}
      BY <2>1, IdleBegins
    <3> QED BY <3>1 DEF HoldingFor
  <2>2. CASE WorkerStep(v) \/ CommitClaim(v) \/ Crash(v) \/ WorkerVictim(v)
    BY <1>1, <2>2, HoldingOwn
  <2>3. CASE /\ pc[v] # "idle"
             /\ ~(WorkerStep(v) \/ CommitClaim(v) \/ Crash(v) \/ WorkerVictim(v))
    BY <1>1, <2>3, OthersLeave, HoldingFrame DEF Ownership, LockDiscipline
  <2> QED BY <2>1, <2>2, <2>3
<1> QED BY <1>2 DEF Holding, HoldingFor

-----------------------------------------------------------------------------
(* Who advances has seen all units completed.                              *)

AdvancingFor(w) ==
    (pc[w] = "finishing" /\ tx[w].advance) =>
        /\ tx[w].out = "completed"
        /\ tx[w].follow = {}
        /\ seen[w] # "ready"
        /\ \A u \in Unit \ {job[w]} : check[u] = "completed"

LEMMA AdvancingOwn ==
    ASSUME TypeOK, Ready, NEW w \in Worker, AdvancingFor(w),
           WorkerStep(w) \/ CommitClaim(w) \/ Crash(w) \/ WorkerVictim(w)
    PROVE  AdvancingFor(w)'
<1> USE DEF db, worker, counters
<1>1. WorkersOK /\ check \in [Unit -> UnitStatus]
  BY DEF TypeOK, RowsOK
<1>2. ASSUME NEW out \in TerminalUnitStatus, Finish(w, out)
      PROVE  AdvancingFor(w)'
  <2> DEFINE agg == RunStatusOf(Settled(w, out))
  <2>1. /\ pc[w] # "idle" /\ job[w] \in Unit
        /\ UNCHANGED <<job, seen, check>>
    BY <1>1, <1>2 DEF Finish, WorkersOK
  <2>2. /\ tx'[w].advance = AutoAdvances(agg) /\ tx'[w].out = out
        /\ tx'[w].follow = Touched(w, out)
    BY <1>1, <1>2, Zenon DEF Finish, WorkersOK
  <2>3. ASSUME tx'[w].advance
        PROVE  /\ out = "completed" /\ Touched(w, out) = {}
               /\ seen[w] # "ready"
               /\ \A u \in Unit \ {job[w]} : check[u] = "completed"
    <3>1. agg = "ready" /\ app = "initial_screening"
      BY <2>2, <2>3 DEF AutoAdvances
    <3>2. \A u \in Unit : Settled(w, out)[u] = "completed"
      BY <3>1, RunStatusReady
    <3>3. out = "completed" /\ \A u \in Unit \ {job[w]} : check[u] = "completed"
      BY <1>1, <2>1, <3>2 DEF Settled
    <3>4. ReadyFollowups(Settled(w, out)) = {}
      BY <3>2 DEF ReadyFollowups
    <3>5. Touched(w, out) = {}
      BY <3>4 DEF Touched
    <3>6. seen[w] # "ready"
      BY <2>1, <3>1 DEF Ready
    <3> QED BY <3>3, <3>5, <3>6
  <2> HIDE DEF agg
  <2> QED BY <2>1, <2>2, <2>3 DEF AdvancingFor
<1>3. CASE ~\E out \in TerminalUnitStatus : Finish(w, out)
  <2>1. CASE \/ TakeRunNotFound(w) \/ TakeBatchComplete(w)
             \/ TakeTerminalCheck(w)
    <3>1. pc[w] = "idle" /\ pc' = pc
      BY <2>1 DEF TakeRunNotFound, TakeBatchComplete, TakeTerminalCheck, Popped
    <3> QED BY <3>1 DEF AdvancingFor
  <2>2. CASE ~(\/ TakeRunNotFound(w) \/ TakeBatchComplete(w)
               \/ TakeTerminalCheck(w))
    <3>1. pc'[w] \in {"idle", "claiming", "starting", "running", "detached"}
      BY <1>1, <1>3, <2>2 DEF WorkersOK, WorkerStep, TakeUnit, Claim, ClaimLost,
         Start, Commit, CommitClaim, Crash, WorkerVictim, WorkerRollback
    <3> QED BY <3>1 DEF AdvancingFor
  <2> QED BY <2>1, <2>2
<1> QED BY <1>2, <1>3

\* Another step finds the row of the run locked, or changes no completed unit.
LEMMA CompletedStay ==
    ASSUME TypeOK, Ownership, Quiet, Holding,
           NEW v \in Worker, AdvancingFor(v),
           pc[v] = "finishing", tx[v].advance,
           tx[v].agg = "ready", NEW u \in Unit \ {job[v]},
           \/ \E w \in Worker \ {v} :
                 WorkerStep(w) \/ CommitClaim(w) \/ Crash(w) \/ WorkerVictim(w)
           \/ SweepStep \/ SweepAbort \/ SweepVictim
           \/ TenMinutes \/ SlaPasses \/ Commission \/ UNCHANGED vars
           \/ \E x \in Unit, s \in UnitStatus : Ingest(x, s)
    PROVE  check'[u] = "completed"
<1> USE DEF db, worker, counters
<1>1. /\ check \in [Unit -> UnitStatus] /\ WorkersOK
      /\ v # Nobody /\ v # Sweeper
  BY PipelineAssumption DEF TypeOK, RowsOK
<1>2. check[u] = "completed"
  BY DEF AdvancingFor
<1>3. lock["run"] = v
  BY DEF AdvancingFor, Holding
<1>4. CASE UNCHANGED check
  BY <1>2, <1>4
<1>5. ASSUME NEW w \in Worker \ {v},
             WorkerStep(w) \/ CommitClaim(w) \/ Crash(w) \/ WorkerVictim(w)
      PROVE  check'[u] = "completed"
  <2>1. CASE TakeTerminalCheck(w)
    BY <1>1, <1>2, <2>1 DEF TakeTerminalCheck
  <2>2. CASE CommitClaim(w)
    <3>1. Claims(w) /\ check' = [check EXCEPT ![job[w]] = "running"]
      BY <2>2 DEF CommitClaim, Claims
    <3>2. u # job[w]
      BY <1>2, <3>1 DEF Ownership, ClaimStands
    <3> QED BY <1>1, <1>2, <3>1, <3>2
  <2>3. CASE Commit(w)
    <3>1. pc[w] = "finishing"
      BY <2>3 DEF Commit
    <3>2. u \notin tx[w].follow
      BY <1>2, <3>1 DEF Holding
    <3>3. u # job[w]
      <4>1. CASE Claims(w)
        BY <1>2, <4>1 DEF Ownership, ClaimStands
      <4>2. CASE seen[w] = "dirty"
        <5>1. tx[w].agg \in RunStatus /\ "dirty" \notin RunStatus
          BY DEF TypeOK, WorkersOK, UnitTx, RunStatus, ActiveRunStatus,
             TerminalRunStatus
        <5>2. lock["run"] = w
          BY <3>1, <4>2, <5>1 DEF Holding
        <5> QED BY <1>3, <1>5, <5>2
      <4> QED BY <3>1, <4>1, <4>2 DEF Holding
    <3> QED BY <1>1, <1>2, <2>3, <3>2, <3>3 DEF Commit
  <2>4. CASE ~TakeTerminalCheck(w) /\ ~CommitClaim(w) /\ ~Commit(w)
    BY <1>4, <1>5, <2>4 DEF WorkerStep, TakeRunNotFound, TakeBatchComplete,
       TakeUnit, Claim, ClaimLost, Start, Finish, Crash, WorkerVictim,
       WorkerRollback
  <2> QED BY <2>1, <2>2, <2>3, <2>4
<1>6. CASE SlaCommit
  <2>1. sweep.hit = {}
    BY <1>1, <1>3, <1>6 DEF SlaCommit, Free
  <2> QED BY <1>1, <1>2, <1>6, <2>1 DEF SlaCommit, SlaFailed
<1>7. CASE SweepStep \/ SweepAbort \/ SweepVictim
  <2>1. ~StuckCommit
    BY DEF Quiet, StuckCommit
  <2> QED BY <1>4, <1>6, <1>7, <2>1 DEF SweepStep, SweepBegin, SlaSkip,
       SlaDecide, SlaWrite, StuckRequeue, StuckDecideAdvance, StuckAdvance,
       SweepAbort, SweepVictim, SweepRollback
<1>8. ASSUME NEW x \in Unit, NEW s \in UnitStatus PROVE ~Ingest(x, s)
  BY <1>1, <1>3 DEF Ingest, Free
<1>9. CASE TenMinutes \/ SlaPasses \/ Commission \/ UNCHANGED vars
  BY <1>4, <1>9 DEF TenMinutes, SlaPasses, Commission, KanbanAdvance,
     ManualScreeningPassed, RevisionRequired, Moves, vars
<1> QED BY <1>5, <1>7, <1>8, <1>9

LEMMA AdvancingStep ==
    ASSUME TypeOK, Ownership, Quiet, Ready, Holding, Advancing, [Next]_vars
    PROVE  Advancing'
<1>1. \A w \in Worker : AdvancingFor(w)
  BY DEF Advancing, AdvancingFor
<1>2. ASSUME NEW v \in Worker PROVE AdvancingFor(v)'
  <2>1. CASE pc[v] = "idle"
    <3>1. pc'[v] \in {"idle", "claiming"}
      BY <2>1, IdleBegins
    <3> QED BY <3>1 DEF AdvancingFor
  <2>2. CASE WorkerStep(v) \/ CommitClaim(v) \/ Crash(v) \/ WorkerVictim(v)
    BY <1>1, <2>2, AdvancingOwn
  <2>3. CASE /\ pc[v] # "idle"
             /\ ~(WorkerStep(v) \/ CommitClaim(v) \/ Crash(v) \/ WorkerVictim(v))
    <3>1. /\ pc'[v] = pc[v] /\ job'[v] = job[v] /\ seen'[v] = seen[v]
          /\ tx'[v] = tx[v]
      BY <2>3, OthersLeave
    <3>2. CASE ~(pc[v] = "finishing" /\ tx[v].advance)
      BY <3>1, <3>2 DEF AdvancingFor
    <3>3. CASE pc[v] = "finishing" /\ tx[v].advance
      <4>1. tx[v].agg = "ready"
        BY <3>3 DEF Ready
      <4>2. \/ \E w \in Worker \ {v} :
                  WorkerStep(w) \/ CommitClaim(w) \/ Crash(w) \/ WorkerVictim(w)
            \/ SweepStep \/ SweepAbort \/ SweepVictim
            \/ TenMinutes \/ SlaPasses \/ Commission \/ UNCHANGED vars
            \/ \E x \in Unit, s \in UnitStatus : Ingest(x, s)
        <5>1. ~(Submit \/ SubmitAbort)
          <6>1. submit # "open"
            BY <3>3 DEF Ownership, NoRunNoWork
          <6> QED BY <6>1 DEF Submit, SubmitPush, SubmitCommit, SubmitAbort
        <5> QED BY <2>3, <5>1 DEF Next, BreakDeadlock
      <4>3. \A u \in Unit \ {job[v]} : check'[u] = "completed"
        BY <1>1, <3>3, <4>1, <4>2, CompletedStay
      <4> QED BY <1>1, <3>1, <4>3 DEF AdvancingFor
    <3> QED BY <3>2, <3>3
  <2> QED BY <2>1, <2>2, <2>3
<1> QED BY <1>2 DEF Advancing, AdvancingFor

LEMMA AdvanceStep ==
    ASSUME TypeOK, Quiet, Ready, Advancing, [Next]_vars,
           app = "initial_screening", app' = "application_review",
           movedBy' = "system", NEW u \in Unit
    PROVE  check'[u] = "completed"
<1> USE DEF db, worker, counters
<1>1. check \in [Unit -> UnitStatus] /\ WorkersOK
  BY DEF TypeOK, RowsOK
<1>2. CASE app' = app
  BY <1>2
<1>3. CASE Submit \/ SubmitAbort \/ UNCHANGED vars
  BY <1>2, <1>3 DEF Submit, SubmitPush, SubmitCommit, SubmitAbort, vars
<1>4. ASSUME NEW w \in Worker,
             WorkerStep(w) \/ CommitClaim(w) \/ Crash(w) \/ WorkerVictim(w)
      PROVE  check'[u] = "completed"
  <2>1. CASE Commit(w)
    <3>1. pc[w] = "finishing" /\ tx[w].advance
      BY <1>2, <2>1 DEF Commit
    <3>2. /\ tx[w].out = "completed" /\ tx[w].follow = {}
          /\ \A x \in Unit \ {job[w]} : check[x] = "completed"
      BY <3>1 DEF Advancing
    <3> QED BY <2>1, <3>2 DEF Commit
  <2>2. CASE ~Commit(w)
    BY <1>2, <1>4, <2>2 DEF WorkerStep, TakeRunNotFound, TakeBatchComplete,
       TakeTerminalCheck, TakeUnit, Claim, ClaimLost, Start, Finish,
       CommitClaim, Crash, WorkerVictim, WorkerRollback
  <2> QED BY <2>1, <2>2
<1>5. CASE SweepStep \/ SweepAbort \/ SweepVictim
  <2>1. ~StuckAdvance
    BY DEF Quiet, StuckAdvance
  <2> QED BY <1>2, <1>5, <2>1 DEF SweepStep, SweepAbort, SweepVictim,
       SweepRollback, SweepBegin, SlaSkip, SlaDecide, SlaWrite, SlaCommit,
       StuckRequeue, StuckCommit, StuckDecideAdvance
<1>6. CASE TenMinutes \/ SlaPasses \/ Commission
  BY <1>2, <1>6 DEF TenMinutes, SlaPasses, Commission, KanbanAdvance,
     ManualScreeningPassed, RevisionRequired, Moves
<1>7. ASSUME NEW x \in Unit, NEW s \in UnitStatus, Ingest(x, s)
      PROVE  check'[u] = "completed"
  <2> DEFINE mem == [check EXCEPT ![x] = s]
             touched == {f \in ReadyFollowups(mem) : mem[f] = "pending"}
  <2>1. /\ check' = [y \in Unit |-> IF y \in touched THEN "queued" ELSE mem[y]]
        /\ app' = IF AutoAdvances(RunStatusOf(mem)) THEN "application_review"
                  ELSE app
    BY <1>7 DEF Ingest
  <2> HIDE DEF mem
  <2>2. RunStatusOf(mem) = "ready"
    BY <1>2, <2>1 DEF AutoAdvances
  <2>3. \A y \in Unit : mem[y] = "completed"
    BY <2>2, RunStatusReady
  <2>4. u \notin touched
    BY <2>3
  <2> QED BY <2>1, <2>3, <2>4
<1> QED BY <1>3, <1>4, <1>5, <1>6, <1>7 DEF Next, BreakDeadlock

-----------------------------------------------------------------------------
(* The run's status is that of its checks.                                 *)

LEMMA AgreesIfComputed == \A s : Agrees(RunStatusOf(s), s)
BY DEF Agrees

\* While no processor commits half way, one worker at a time executes.
LEMMA OneExecutes ==
    ASSUME Ownership, Holding, MidCommit = {},
           NEW v \in Worker, NEW w \in Worker,
           pc[v] = "finishing", pc[w] = "finishing"
    PROVE  v = w
BY DEF Holding

\* Others only queue some of what is pending.
EndedKept(v) ==
    \A u \in Unit : \/ Ended(v)'[u] = Ended(v)[u]
                    \/ Ended(v)[u] = "pending" /\ Ended(v)'[u] = "queued"

\* What a worker is about to commit, over a step that is not its own.
LEMMA FinishFrame ==
    ASSUME TypeOK, Ownership, Quiet, Holding, PassedOver, MidCommit = {},
           NEW v \in Worker, pc[v] = "finishing",
           [Next]_vars,
           pc'[v] = pc[v], tx'[v] = tx[v], job'[v] = job[v],
           ~(WorkerStep(v) \/ CommitClaim(v) \/ Crash(v) \/ WorkerVictim(v))
    PROVE  EndedKept(v)
<1> USE DEF db, worker, counters
<1>1. /\ check \in [Unit -> UnitStatus] /\ WorkersOK /\ LocksOK
      /\ v # Nobody /\ v # Sweeper /\ job[v] \in Unit
      /\ tx[v].follow \subseteq Unit
  BY PipelineAssumption DEF TypeOK, RowsOK, WorkersOK, UnitTx
<1>2. Claims(v) /\ lock["stage"] = v /\ lock[job[v]] = v
  BY DEF Holding, Ownership, LockDiscipline, WorkerLocks
<1>3. \A f \in tx[v].follow : lock[f] = v
  BY DEF Ownership, LockDiscipline, WorkerLocks
<1>4. ASSUME \A u \in Unit : \/ check'[u] = check[u] \/ lock[u] = v
                             \/ check[u] = "pending" /\ check'[u] = "queued"
      PROVE  EndedKept(v)
  <2>1. \A u \in Unit : lock[u] = v => check'[u] = check[u]
    BY OthersLeave
  <2> QED BY <1>4, <2>1 DEF Ended, EndedKept
<1>5. CASE UNCHANGED check
  BY <1>4, <1>5
<1>6. CASE Submit \/ SubmitAbort
  <2>1. submit # "open"
    BY DEF Ownership, NoRunNoWork
  <2> QED BY <1>6, <2>1 DEF Submit, SubmitPush, SubmitCommit, SubmitAbort
<1>7. ASSUME NEW w \in Worker \ {v},
             WorkerStep(w) \/ CommitClaim(w) \/ Crash(w) \/ WorkerVictim(w)
      PROVE  EndedKept(v)
  <2>1. CASE TakeTerminalCheck(w)
    <3>1. \A u \in Unit : \/ check'[u] = check[u]
                          \/ check[u] = "pending" /\ check'[u] = "queued"
      BY <1>1, <2>1 DEF TakeTerminalCheck
    <3> QED BY <1>4, <3>1
  <2>2. ~CommitClaim(w)
    BY DEF CommitClaim
  <2>3. ~Commit(w)
    <3>1. pc[w] # "finishing"
      BY <1>7, OneExecutes
    <3> QED BY <3>1 DEF Commit
  <2>4. CASE ~TakeTerminalCheck(w)
    BY <1>5, <1>7, <2>2, <2>3, <2>4 DEF WorkerStep, TakeRunNotFound,
       TakeBatchComplete, TakeUnit, Claim, ClaimLost, Start, Finish, Crash,
       WorkerVictim, WorkerRollback
  <2> QED BY <2>1, <2>4
<1>8. CASE SlaCommit
  <2>1. sweep.pc = "sla" /\ sweep.todo = {}
    BY <1>8 DEF SlaCommit
  <2>2. \/ check[job[v]] \in TerminalUnitStatus
        \/ lock[job[v]] = Sweeper
    BY <1>1, <2>1 DEF PassedOver
  <2>3. check[job[v]] \in {"pending", "queued"}
    BY <1>2 DEF Ownership, ClaimStands
  <2> QED BY <1>1, <1>2, <2>2, <2>3, Terminals
<1>9. CASE SweepStep \/ SweepAbort \/ SweepVictim
  <2>1. ~StuckCommit
    BY DEF Quiet, StuckCommit
  <2> QED BY <1>5, <1>8, <1>9, <2>1 DEF SweepStep, SweepBegin, SlaSkip,
       SlaDecide, SlaWrite, StuckRequeue, StuckDecideAdvance, StuckAdvance,
       SweepAbort, SweepVictim, SweepRollback
<1>10. ASSUME NEW x \in Unit, NEW s \in UnitStatus PROVE ~Ingest(x, s)
  BY <1>1, <1>2 DEF Ingest, Free
<1>11. CASE TenMinutes \/ SlaPasses \/ Commission \/ UNCHANGED vars
  BY <1>5, <1>11 DEF TenMinutes, SlaPasses, Commission, KanbanAdvance,
     ManualScreeningPassed, RevisionRequired, Moves, vars
<1> QED BY <1>6, <1>7, <1>9, <1>10, <1>11 DEF Next, BreakDeadlock

\* Its verdict stands.
LEMMA FinishStands ==
    ASSUME TypeOK, Ownership, Quiet, Holding, PassedOver, MidCommit = {},
           NEW v \in Worker, pc[v] = "finishing",
           Agrees(tx[v].agg, Ended(v)), [Next]_vars,
           pc'[v] = pc[v], tx'[v] = tx[v], job'[v] = job[v],
           ~(WorkerStep(v) \/ CommitClaim(v) \/ Crash(v) \/ WorkerVictim(v))
    PROVE  Agrees(tx[v].agg, Ended(v)')
<1>1. EndedKept(v)
  BY FinishFrame
<1> QED BY <1>1, SameVerdict, Terminals DEF EndedKept

\* A worker's own step: what it has computed is what it writes.
LEMMA GoesByOwn ==
    ASSUME TypeOK, Ownership, Holding, Agrees(run, check), MidCommit = {},
           NEW w \in Worker, GoesBy(w),
           WorkerStep(w) \/ CommitClaim(w) \/ Crash(w) \/ WorkerVictim(w)
    PROVE  GoesBy(w)'
<1> USE DEF db, worker, counters
<1>1. WorkersOK /\ check \in [Unit -> UnitStatus]
  BY DEF TypeOK, RowsOK
<1>2. CASE ClaimLost(w) \/ Commit(w) \/ Crash(w) \/ WorkerVictim(w)
  <2>1. pc'[w] = "idle"
    BY <1>1, <1>2 DEF WorkersOK, ClaimLost, Commit, Crash, WorkerVictim,
       WorkerRollback
  <2> QED BY <2>1 DEF GoesBy
<1>3. CASE TakeRunNotFound(w) \/ TakeBatchComplete(w) \/ TakeTerminalCheck(w)
  <2>1. pc[w] = "idle" /\ pc' = pc
    BY <1>3 DEF TakeRunNotFound, TakeBatchComplete, TakeTerminalCheck, Popped
  <2> QED BY <2>1 DEF GoesBy
<1>4. CASE TakeUnit(w)
  <2>1. pc'[w] = "claiming" /\ seen'[w] = run
    BY <1>1, <1>4 DEF TakeUnit, WorkersOK
  <2>2. ~AllTerminal(check)
    BY <1>4, RunStatusEnds DEF TakeUnit
  <2>3. run \notin TerminalRunStatus
    BY <2>2, RunStatusEnds DEF Agrees
  <2> QED BY <2>1, <2>3 DEF GoesBy
<1>5. CASE Claim(w) \/ Start(w)
  <2>1. /\ pc[w] # "idle" /\ pc'[w] \in {"starting", "running"}
        /\ seen'[w] \in {seen[w], "dirty"}
    BY <1>1, <1>5 DEF Claim, Start, WorkersOK
  <2> QED BY <2>1, Terminals DEF GoesBy
<1>6. ~CommitClaim(w)
  BY DEF CommitClaim
<1>7. ASSUME NEW out \in TerminalUnitStatus, Finish(w, out)
      PROVE  GoesBy(w)'
  <2> DEFINE s == Settled(w, out)
             agg == RunStatusOf(s)
  <2>1. /\ pc[w] # "idle" /\ job[w] \in Unit
        /\ UNCHANGED <<job, seen, check>>
    BY <1>1, <1>7 DEF Finish, WorkersOK
  <2>2. /\ tx'[w].agg = agg /\ tx'[w].out = out
        /\ tx'[w].follow = Touched(w, out)
    BY <1>1, <1>7, Zenon DEF Finish, WorkersOK
  <2>3. \A u \in Unit : s[u] = IF u = job[w] THEN out ELSE check[u]
    BY <1>1, <2>1 DEF Settled
  <2>4. \A f \in Touched(w, out) : check[f] = "pending"
    BY DEF Touched
  <2>5. Ended(w)' = [u \in Unit |-> IF u = job[w] THEN out
                      ELSE IF u \in Touched(w, out) THEN "queued" ELSE check[u]]
    BY <2>1, <2>2 DEF Ended
  <2> HIDE DEF s
  <2>6. \A u \in Unit : \/ Ended(w)'[u] = s[u]
                        \/ /\ s[u] \notin TerminalUnitStatus
                           /\ Ended(w)'[u] \notin TerminalUnitStatus
    BY <2>3, <2>4, <2>5, Terminals
  <2>7. Agrees(agg, Ended(w)')
    BY <2>6, SameVerdict, AgreesIfComputed
  <2> HIDE DEF agg
  <2>8. seen'[w] \notin TerminalRunStatus
    BY <2>1 DEF GoesBy
  <2> QED BY <2>2, <2>7, <2>8 DEF GoesBy
<1> QED BY <1>2, <1>3, <1>4, <1>5, <1>6, <1>7 DEF WorkerStep

\* The commit of a worker.
LEMMA CommitAgrees ==
    ASSUME TypeOK, Ownership, Holding, Agrees(run, check), MidCommit = {},
           NEW w \in Worker, GoesBy(w), Commit(w)
    PROVE  Agrees(run', check')
<1>1. /\ check \in [Unit -> UnitStatus] /\ pc[w] = "finishing"
      /\ job[w] \in Unit
  BY DEF TypeOK, RowsOK, WorkersOK, Commit
<1>2. check' = Ended(w)
  BY DEF Commit, Ended
<1>3. Agrees(tx[w].agg, Ended(w)) /\ seen[w] \notin TerminalRunStatus
  BY <1>1 DEF GoesBy
<1>4. CASE seen[w] # tx[w].agg
  BY <1>2, <1>3, <1>4 DEF Commit
<1>5. CASE seen[w] = tx[w].agg
  <2>1. run' = run
    BY <1>5 DEF Commit
  <2>2. ~AllTerminal(Ended(w))
    BY <1>3, <1>5, RunStatusEnds DEF Agrees
  <2>3. ~AllTerminal(check)
    <3>1. check[job[w]] \in {"pending", "queued"}
      BY <1>1 DEF Holding, Ownership, ClaimStands
    <3> QED BY <1>1, <3>1, Terminals DEF AllTerminal
  <2>4. run \notin TerminalRunStatus
    BY <2>3, RunStatusEnds DEF Agrees
  <2> QED BY <1>2, <2>1, <2>2, <2>4 DEF Agrees
<1> QED BY <1>4, <1>5

\* What the SLA has passed over stays ended, or locked.
LEMMA PassedOverStep ==
    ASSUME TypeOK, Ownership, Quiet, Holding, PassedOver, Calm', [Next]_vars
    PROVE  PassedOver'
<1> USE DEF db, worker, counters
<1>1. /\ check \in [Unit -> UnitStatus] /\ WorkersOK /\ LocksOK
      /\ sweep \in SweepTx /\ ingests \in Nat
  BY DEF TypeOK, RowsOK, SweepOK, ClockOK
<1>2. ASSUME sweep' = sweep,
             \A u \in Unit : lock[u] = Sweeper => lock'[u] = Sweeper,
             \A u \in Unit : check[u] \in TerminalUnitStatus
                                => check'[u] \in TerminalUnitStatus
      PROVE  PassedOver'
  BY <1>2 DEF PassedOver
<1>3. CASE UNCHANGED <<sweep, check, lock>>
  BY <1>2, <1>3
<1>4. CASE Submit \/ SubmitAbort
  <2>1. CASE SubmitCommit
    <3>1. sweep = SweepIdle /\ sweep' = sweep
      BY <2>1 DEF SubmitCommit, Ownership, NoRunNoWork
    <3> QED BY <3>1 DEF SweepIdle, PassedOver
  <2> QED BY <1>3, <1>4, <2>1 DEF Submit, SubmitPush, SubmitAbort
<1>5. ASSUME NEW w \in Worker,
             WorkerStep(w) \/ CommitClaim(w) \/ Crash(w) \/ WorkerVictim(w)
      PROVE  PassedOver'
  <2>1. sweep' = sweep
    BY <1>5, WorkerStepFrame
  <2>2. \A u \in Unit : lock[u] = Sweeper => lock'[u] = Sweeper
    BY <1>5, UnitsAreRows, WorkerStepLocks, PipelineAssumption
  <2>3. \A u \in Unit : check[u] \in TerminalUnitStatus
                            => check'[u] \in TerminalUnitStatus
    <3>1. CASE TakeTerminalCheck(w)
      BY <1>1, <3>1, Terminals DEF TakeTerminalCheck
    <3>2. CASE CommitClaim(w)
      <4>1. Claims(w) /\ check' = [check EXCEPT ![job[w]] = "running"]
        BY <3>2 DEF CommitClaim, Claims
      <4>2. check[job[w]] \in {"pending", "queued"}
        BY <4>1 DEF Ownership, ClaimStands
      <4> QED BY <1>1, <4>1, <4>2, Terminals
    <3>3. CASE Commit(w)
      <4>1. /\ pc[w] = "finishing" /\ tx[w].out \in TerminalUnitStatus
        BY <1>1, <3>3 DEF Commit, WorkersOK, UnitTx
      <4>2. \A f \in tx[w].follow : check[f] = "pending"
        BY <4>1 DEF Holding
      <4> QED BY <1>1, <3>3, <4>1, <4>2, Terminals DEF Commit
    <3>4. CASE ~TakeTerminalCheck(w) /\ ~CommitClaim(w) /\ ~Commit(w)
      BY <1>5, <3>4 DEF WorkerStep, TakeRunNotFound, TakeBatchComplete,
         TakeUnit, Claim, ClaimLost, Start, Finish, Crash, WorkerVictim,
         WorkerRollback
    <3> QED BY <3>1, <3>2, <3>3, <3>4
  <2> QED BY <1>2, <2>1, <2>2, <2>3
<1>6. CASE SweepBegin
  <2>1. sweep'.todo = Unit \/ sweep'.pc \notin {"sla", "wait"}
    BY <1>1, <1>6 DEF SweepBegin, SweepTx
  <2> QED BY <2>1 DEF PassedOver
<1>7. ASSUME NEW u \in Unit, SlaSkip(u)
      PROVE  PassedOver'
  <2>1. /\ sweep'.todo = sweep.todo \ {u} /\ sweep'.hit = sweep.hit
        /\ sweep.pc = "sla" /\ check[u] \in TerminalUnitStatus
        /\ UNCHANGED <<check, lock>>
    BY <1>1, <1>7 DEF SlaSkip, SlaVisits, SweepTx
  <2> QED BY <2>1 DEF PassedOver
<1>8. ASSUME NEW u \in Unit, SlaDecide(u)
      PROVE  PassedOver'
  <2>1. /\ sweep'.todo = sweep.todo /\ sweep'.hit = sweep.hit
        /\ sweep.pc = "sla" /\ UNCHANGED <<check, lock>>
    BY <1>1, <1>8 DEF SlaDecide, SlaVisits, SweepTx
  <2> QED BY <2>1 DEF PassedOver
<1>9. CASE SlaWrite
  <2> DEFINE u == sweep.wait
  <2>1. /\ sweep'.todo = sweep.todo \ {u} /\ sweep'.hit = sweep.hit \cup {u}
        /\ sweep.pc = "wait" /\ check' = check
        /\ lock' = Acquired({u}, Sweeper)
    BY <1>1, <1>9 DEF SlaWrite, SweepTx
  <2>2. \A x \in Unit : lock'[x] = IF x = u THEN Sweeper ELSE lock[x]
    BY <2>1, UnitsAreRows DEF Acquired
  <2> HIDE DEF u
  <2> QED BY <2>1, <2>2 DEF PassedOver
<1>10. CASE SlaCommit \/ SweepAbort \/ SweepVictim
  <2>1. sweep' = SweepIdle
    BY <1>10 DEF SlaCommit, SweepAbort, SweepVictim, SweepRollback
  <2> QED BY <2>1 DEF SweepIdle, PassedOver
<1>11. ~(StuckRequeue \/ StuckCommit \/ StuckDecideAdvance \/ StuckAdvance)
  BY DEF Quiet, StuckRequeue, StuckCommit, StuckDecideAdvance, StuckAdvance
<1>12. ASSUME NEW x \in Unit, NEW s \in UnitStatus, Ingest(x, s)
       PROVE  PassedOver'
  <2>1. ingests' = ingests + 1 /\ slaPast' = slaPast /\ sweep' = sweep
    BY <1>12 DEF Ingest
  <2>2. ~slaPast
    BY <1>1, <2>1 DEF Calm
  <2>3. sweep.pc \notin {"sla", "wait"}
    BY <2>2 DEF Quiet, SweepIdle
  <2> QED BY <2>1, <2>3 DEF PassedOver
<1>13. CASE TenMinutes \/ SlaPasses \/ Commission \/ UNCHANGED vars
  BY <1>3, <1>13 DEF TenMinutes, SlaPasses, Commission, KanbanAdvance,
     ManualScreeningPassed, RevisionRequired, Moves, vars
<1> QED BY <1>4, <1>5, <1>6, <1>7, <1>8, <1>9, <1>10, <1>11, <1>12, <1>13
     DEF Next, BreakDeadlock, SweepStep

\* Whoever writes the run or a check.
LEMMA VerdictStep ==
    ASSUME TypeOK, Ownership, Quiet, Holding, MidCommit = {},
           Agrees(run, check), \A w \in Worker : GoesBy(w), [Next]_vars
    PROVE  Agrees(run', check')
<1> USE DEF db, worker, counters
<1>1. check \in [Unit -> UnitStatus]
  BY DEF TypeOK, RowsOK
<1>2. CASE UNCHANGED <<run, check>>
  BY <1>2
<1>3. CASE Submit \/ SubmitAbort
  <2>1. CASE SubmitCommit
    <3>1. /\ run' = "pending"
          /\ \A u \in Unit : check'[u] \in {"pending", "queued"}
      BY <2>1 DEF SubmitCommit
    <3>2. ~AllTerminal(check')
      BY <3>1, Terminals, PolicyAssumption DEF AllTerminal
    <3> QED BY <3>1, <3>2 DEF Agrees, TerminalRunStatus
  <2> QED BY <1>2, <1>3, <2>1 DEF Submit, SubmitPush, SubmitAbort
<1>4. ASSUME NEW w \in Worker,
             WorkerStep(w) \/ CommitClaim(w) \/ Crash(w) \/ WorkerVictim(w)
      PROVE  Agrees(run', check')
  <2>1. CASE TakeTerminalCheck(w)
    <3>1. /\ run' = run
          /\ \A u \in Unit : \/ check'[u] = check[u]
                             \/ check[u] = "pending" /\ check'[u] = "queued"
      BY <1>1, <2>1 DEF TakeTerminalCheck
    <3> QED BY <3>1, SameVerdict, Terminals
  <2>2. CASE Commit(w)
    BY <2>2, CommitAgrees
  <2>3. CASE ~TakeTerminalCheck(w) /\ ~Commit(w)
    BY <1>2, <1>4, <2>3 DEF WorkerStep, TakeRunNotFound, TakeBatchComplete,
       TakeUnit, Claim, ClaimLost, Start, Finish, CommitClaim, Crash,
       WorkerVictim, WorkerRollback
  <2> QED BY <2>1, <2>2, <2>3
<1>5. CASE SlaCommit
  <2>1. CASE sweep.hit = {}
    <3>1. run' = run /\ \A u \in Unit : check'[u] = check[u]
      BY <1>5, <2>1 DEF SlaCommit, SlaFailed
    <3> QED BY <3>1, SameVerdict
  <2>2. CASE sweep.hit # {}
    BY <1>5, <2>2, AgreesIfComputed DEF SlaCommit
  <2> QED BY <2>1, <2>2
<1>6. CASE SweepStep \/ SweepAbort \/ SweepVictim
  <2>1. ~StuckCommit /\ ~StuckAdvance
    BY DEF Quiet, StuckCommit, StuckAdvance
  <2> QED BY <1>2, <1>5, <1>6, <2>1 DEF SweepStep, SweepBegin, SlaSkip,
       SlaDecide, SlaWrite, StuckRequeue, StuckDecideAdvance, SweepAbort,
       SweepVictim, SweepRollback
<1>7. ASSUME NEW x \in Unit, NEW s \in UnitStatus, Ingest(x, s)
      PROVE  Agrees(run', check')
  <2> DEFINE mem == [check EXCEPT ![x] = s]
             touched == {f \in ReadyFollowups(mem) : mem[f] = "pending"}
  <2>1. /\ run' = RunStatusOf(mem)
        /\ check' = [y \in Unit |-> IF y \in touched THEN "queued" ELSE mem[y]]
    BY <1>7 DEF Ingest
  <2> HIDE DEF mem
  <2>2. \A u \in Unit : \/ check'[u] = mem[u]
                        \/ mem[u] = "pending" /\ check'[u] = "queued"
    BY <2>1
  <2> QED BY <2>1, <2>2, AgreesIfComputed, SameVerdict, Terminals
<1>8. CASE TenMinutes \/ SlaPasses \/ Commission \/ UNCHANGED vars
  BY <1>2, <1>8 DEF TenMinutes, SlaPasses, Commission, KanbanAdvance,
     ManualScreeningPassed, RevisionRequired, Moves, vars
<1> QED BY <1>3, <1>4, <1>6, <1>7, <1>8 DEF Next, BreakDeadlock

LEMMA GoesByStep ==
    ASSUME TypeOK, Ownership, Quiet, Holding, PassedOver, MidCommit = {},
           Agrees(run, check), NEW v \in Worker, GoesBy(v), [Next]_vars
    PROVE  GoesBy(v)'
<1>1. CASE WorkerStep(v) \/ CommitClaim(v) \/ Crash(v) \/ WorkerVictim(v)
  BY <1>1, GoesByOwn
<1>2. CASE /\ pc[v] = "idle"
           /\ ~(WorkerStep(v) \/ CommitClaim(v) \/ Crash(v) \/ WorkerVictim(v))
  <2>1. pc'[v] = "idle"
    BY <1>2, IdleBegins DEF WorkerStep
  <2> QED BY <2>1 DEF GoesBy
<1>3. CASE /\ pc[v] # "idle"
           /\ ~(WorkerStep(v) \/ CommitClaim(v) \/ Crash(v) \/ WorkerVictim(v))
  <2>1. /\ pc'[v] = pc[v] /\ job'[v] = job[v] /\ seen'[v] = seen[v]
        /\ tx'[v] = tx[v]
    BY <1>3, OthersLeave
  <2>2. seen'[v] \notin TerminalRunStatus
    BY <1>3, <2>1 DEF GoesBy
  <2>3. ASSUME pc'[v] = "finishing"
        PROVE  Agrees(tx'[v].agg, Ended(v)')
    <3>1. Agrees(tx[v].agg, Ended(v))
      BY <2>1, <2>3 DEF GoesBy
    <3>2. Agrees(tx[v].agg, Ended(v)')
      BY <1>3, <2>1, <2>3, <3>1, FinishStands
    <3> QED BY <2>1, <3>2
  <2> QED BY <2>2, <2>3 DEF GoesBy
<1> QED BY <1>1, <1>2, <1>3

\* A calm run was calm before.
LEMMA CalmBefore ==
    ASSUME TypeOK, [Next]_vars, Calm'
    PROVE  Calm
<1>1. ingests \in Nat /\ (ingests' = ingests \/ ingests' = ingests + 1)
  BY DEF TypeOK, ClockOK, counters, Next, vars, Submit, SubmitPush,
     SubmitCommit, SubmitAbort, WorkerStep, SweepStep, BreakDeadlock,
     Commission, TakeRunNotFound, TakeBatchComplete, TakeTerminalCheck,
     TakeUnit, Claim, ClaimLost, Start, Finish, Commit, CommitClaim, Crash,
     WorkerRollback, SweepBegin, SlaSkip, SlaDecide, SlaWrite, SlaCommit,
     StuckRequeue, StuckCommit, StuckDecideAdvance, StuckAdvance, SweepAbort,
     SweepRollback, SweepVictim, WorkerVictim, TenMinutes, SlaPasses, Ingest,
     KanbanAdvance, ManualScreeningPassed, RevisionRequired, Moves
<1>2. slaPast => slaPast'
  BY DEF counters, Next, vars, Submit, SubmitPush,
     SubmitCommit, SubmitAbort, WorkerStep, SweepStep, BreakDeadlock,
     Commission, TakeRunNotFound, TakeBatchComplete, TakeTerminalCheck,
     TakeUnit, Claim, ClaimLost, Start, Finish, Commit, CommitClaim, Crash,
     WorkerRollback, SweepBegin, SlaSkip, SlaDecide, SlaWrite, SlaCommit,
     StuckRequeue, StuckCommit, StuckDecideAdvance, StuckAdvance, SweepAbort,
     SweepRollback, SweepVictim, WorkerVictim, TenMinutes, SlaPasses, Ingest,
     KanbanAdvance, ManualScreeningPassed, RevisionRequired, Moves
<1> QED BY <1>1, <1>2 DEF Calm

LEMMA AgreementStep ==
    ASSUME TypeOK, Ownership, Quiet, Holding, MidCommit = {}, Agreement,
           [Next]_vars
    PROVE  Agreement'
<1> SUFFICES ASSUME Calm'
             PROVE  /\ Agrees(run', check') /\ PassedOver'
                    /\ \A w \in Worker : GoesBy(w)'
  BY DEF Agreement
<1>1. Agrees(run, check) /\ PassedOver /\ \A w \in Worker : GoesBy(w)
  BY CalmBefore DEF Agreement
<1> QED BY <1>1, VerdictStep, PassedOverStep, GoesByStep

-----------------------------------------------------------------------------
(* Dependents are queued by whoever ends the last unit they wait for.      *)

\* Queueing some of the units that are pending strands nobody.
LEMMA QueuedCarry ==
    ASSUME NEW s, NEW t, Carried(s),
           \A u \in Unit : t[u] = s[u] \/ (s[u] = "pending" /\ t[u] = "queued")
    PROVE  Carried(t)
<1> SUFFICES ASSUME NEW u \in Unit \ FirstWave, DependenciesMet(u, t),
                    t[u] = "pending"
             PROVE  FALSE
  BY DEF Carried
<1>1. \A d \in Deps[u] : d \in Unit
  BY PolicyAssumption
<1>2. DependenciesMet(u, s)
  BY <1>1, Terminals DEF DependenciesMet
<1> QED BY <1>2 DEF Carried

\* Neither does ending some when all the followups are queued.
LEMMA FollowupsCarry ==
    ASSUME NEW s, NEW t,
           \A u \in Unit :
              t[u] = IF u \in ReadyFollowups(s) /\ s[u] = "pending"
                     THEN "queued" ELSE s[u]
    PROVE  Carried(t)
<1> SUFFICES ASSUME NEW u \in Unit \ FirstWave, DependenciesMet(u, t),
                    t[u] = "pending"
             PROVE  FALSE
  BY DEF Carried
<1>1. \A d \in Deps[u] : d \in Unit
  BY PolicyAssumption
<1>2. DependenciesMet(u, s)
  BY <1>1, Terminals DEF DependenciesMet
<1>3. s[u] = "pending"
  OBVIOUS
<1> QED BY <1>2, <1>3 DEF ReadyFollowups

\* When all have ended, nobody waits.
LEMMA EndedCarry ==
    ASSUME NEW s, AllTerminal(s)
    PROVE  Carried(s)
BY Terminals DEF Carried, AllTerminal

\* The commit of a worker that ends its unit.
LEMMA FinishCarries ==
    ASSUME TypeOK, NEW w \in Worker, NEW out \in TerminalUnitStatus,
           Finish(w, out)
    PROVE  Carried(Ended(w)')
<1> USE DEF db, worker, counters
<1>1. WorkersOK /\ check \in [Unit -> UnitStatus]
  BY DEF TypeOK, RowsOK
<1> DEFINE s == Settled(w, out)
<1>2. job[w] \in Unit /\ UNCHANGED <<job, check>>
  BY <1>1 DEF Finish, WorkersOK
<1>3. tx'[w].out = out /\ tx'[w].follow = Touched(w, out)
  BY <1>1, Zenon DEF Finish, WorkersOK
<1>4. \A u \in Unit : s[u] = IF u = job[w] THEN out ELSE check[u]
  BY <1>1, <1>2 DEF Settled
<1>5. \A u \in Unit : u \in Touched(w, out) <=>
                         u \in ReadyFollowups(s) /\ check[u] = "pending"
  BY DEF Touched
<1>6. Ended(w)' = [u \in Unit |-> IF u = job[w] THEN out
                      ELSE IF u \in Touched(w, out) THEN "queued" ELSE check[u]]
  BY <1>2, <1>3 DEF Ended
<1> HIDE DEF s
<1>7. \A u \in Unit : Ended(w)'[u] =
                         IF u \in ReadyFollowups(s) /\ s[u] = "pending"
                         THEN "queued" ELSE s[u]
  BY <1>4, <1>5, <1>6, Terminals
<1> QED BY <1>7, FollowupsCarry

LEMMA CheckCarried ==
    ASSUME TypeOK, Ownership, Quiet, PassedOver, Calm, Queueing, [Next]_vars,
           run' # "absent"
    PROVE  Carried(check')
<1> USE DEF db, worker, counters
<1>1. check \in [Unit -> UnitStatus] /\ WorkersOK
  BY DEF TypeOK, RowsOK
<1>2. /\ run # "absent" => Carried(check)
      /\ \A w \in Worker : pc[w] = "finishing" => Carried(Ended(w))
  BY DEF Queueing
<1>3. CASE UNCHANGED <<run, check>>
  BY <1>2, <1>3
<1>4. CASE Submit \/ SubmitAbort
  <2>1. CASE SubmitCommit
    <3>1. \A u \in Unit : check'[u] \in {"pending", "queued"}
      BY <2>1 DEF SubmitCommit
    <3>2. ASSUME NEW u \in Unit \ FirstWave, DependenciesMet(u, check')
          PROVE  FALSE
      <4>1. PICK d \in Deps[u] : d \in Unit
        BY PolicyAssumption DEF FirstWave
      <4> QED BY <3>1, <3>2, <4>1, Terminals DEF DependenciesMet
    <3> QED BY <3>2 DEF Carried
  <2> QED BY <1>3, <1>4, <2>1 DEF Submit, SubmitPush, SubmitAbort
<1>5. ASSUME NEW w \in Worker,
             WorkerStep(w) \/ CommitClaim(w) \/ Crash(w) \/ WorkerVictim(w)
      PROVE  Carried(check')
  <2>1. CASE TakeTerminalCheck(w)
    <3>1. /\ run # "absent"
          /\ \A u \in Unit : \/ check'[u] = check[u]
                             \/ check[u] = "pending" /\ check'[u] = "queued"
      BY <1>1, <2>1 DEF TakeTerminalCheck
    <3> QED BY <1>2, <3>1, QueuedCarry
  <2>2. CASE Commit(w)
    <3>1. check' = Ended(w) /\ pc[w] = "finishing"
      BY <2>2 DEF Commit, Ended
    <3> QED BY <1>2, <3>1
  <2>3. CASE CommitClaim(w)
    <3>1. Claims(w) /\ check' = [check EXCEPT ![job[w]] = "running"]
      BY <2>3 DEF CommitClaim, Claims
    <3>2. check[job[w]] \in {"pending", "queued"} /\ job[w] \in Unit
      BY <1>1, <3>1 DEF Ownership, ClaimStands, WorkersOK, Claims
    <3>3. pc[w] # "idle"
      BY <3>1 DEF Claims
    <3>4. Carried(check)
      BY <1>2, <3>3 DEF Ownership, NoRunNoWork
    <3>5. \A u \in Unit : \/ check'[u] = check[u]
                          \/ /\ check[u] \notin TerminalUnitStatus
                             /\ check'[u] = "running"
      BY <1>1, <3>1, <3>2, Terminals
    <3>6. ASSUME NEW u \in Unit \ FirstWave, DependenciesMet(u, check'),
                 check'[u] = "pending"
          PROVE  FALSE
      <4>1. DependenciesMet(u, check)
        BY <3>5, <3>6, PolicyAssumption, Terminals DEF DependenciesMet
      <4> QED BY <3>4, <3>5, <3>6, <4>1 DEF Carried
    <3> QED BY <3>6 DEF Carried
  <2>4. CASE ~TakeTerminalCheck(w) /\ ~Commit(w) /\ ~CommitClaim(w)
    BY <1>3, <1>5, <2>4 DEF WorkerStep, TakeRunNotFound, TakeBatchComplete,
       TakeUnit, Claim, ClaimLost, Start, Finish, Crash, WorkerVictim,
       WorkerRollback
  <2> QED BY <2>1, <2>2, <2>3, <2>4
<1>6. CASE SlaCommit
  <2>1. sweep.pc = "sla" /\ sweep.todo = {} /\ check' = SlaFailed(check)
    BY <1>6 DEF SlaCommit
  <2>2. \A u \in Unit : check[u] \in TerminalUnitStatus \/ u \in sweep.hit
    BY <2>1 DEF PassedOver
  <2>3. AllTerminal(check')
    BY <1>1, <2>1, <2>2 DEF SlaFailed, AllTerminal, TerminalUnitStatus
  <2> QED BY <2>3, EndedCarry
<1>7. CASE SweepStep \/ SweepAbort \/ SweepVictim
  <2>1. ~StuckCommit /\ ~StuckAdvance
    BY DEF Quiet, StuckCommit, StuckAdvance
  <2> QED BY <1>3, <1>6, <1>7, <2>1 DEF SweepStep, SweepBegin, SlaSkip,
       SlaDecide, SlaWrite, StuckRequeue, StuckDecideAdvance, SweepAbort,
       SweepVictim, SweepRollback
<1>8. ASSUME NEW x \in Unit, NEW s \in UnitStatus, Ingest(x, s)
      PROVE  Carried(check')
  <2> DEFINE mem == [check EXCEPT ![x] = s]
             touched == {f \in ReadyFollowups(mem) : mem[f] = "pending"}
  <2>1. check' = [y \in Unit |-> IF y \in touched THEN "queued" ELSE mem[y]]
    BY <1>8 DEF Ingest
  <2>2. \A y : y \in touched <=> y \in ReadyFollowups(mem) /\ mem[y] = "pending"
    OBVIOUS
  <2> HIDE DEF mem, touched
  <2>3. \A y \in Unit : check'[y] = IF y \in ReadyFollowups(mem)
                                       /\ mem[y] = "pending"
                                    THEN "queued" ELSE mem[y]
    BY <2>1, <2>2
  <2> QED BY <2>3, FollowupsCarry
<1>9. CASE TenMinutes \/ SlaPasses \/ Commission \/ UNCHANGED vars
  BY <1>3, <1>9 DEF TenMinutes, SlaPasses, Commission, KanbanAdvance,
     ManualScreeningPassed, RevisionRequired, Moves, vars
<1> QED BY <1>4, <1>5, <1>7, <1>8, <1>9 DEF Next, BreakDeadlock

LEMMA QueueingStep ==
    ASSUME TypeOK, Ownership, Quiet, Holding, Agreement, Queueing,
           MidCommit = {}, [Next]_vars
    PROVE  Queueing'
<1> SUFFICES ASSUME Calm'
             PROVE  /\ run' # "absent" => Carried(check')
                    /\ \A w \in Worker : pc'[w] = "finishing"
                                            => Carried(Ended(w)')
  BY DEF Queueing
<1>1. Calm /\ PassedOver
  BY CalmBefore DEF Agreement
<1>2. run' # "absent" => Carried(check')
  BY <1>1, CheckCarried
<1>3. ASSUME NEW v \in Worker, pc'[v] = "finishing"
      PROVE  Carried(Ended(v)')
  <2>1. pc[v] # "idle"
    BY <1>3, IdleBegins
  <2>2. CASE WorkerStep(v) \/ CommitClaim(v) \/ Crash(v) \/ WorkerVictim(v)
    <3>1. PICK out \in TerminalUnitStatus : Finish(v, out)
      BY <1>3, <2>1, <2>2 DEF TypeOK, WorkersOK, WorkerStep, TakeRunNotFound,
         TakeBatchComplete, TakeTerminalCheck, TakeUnit, Claim, ClaimLost,
         Start, Commit, CommitClaim, Crash, WorkerVictim, WorkerRollback,
         Popped
    <3> QED BY <3>1, FinishCarries
  <2>3. CASE ~(WorkerStep(v) \/ CommitClaim(v) \/ Crash(v) \/ WorkerVictim(v))
    <3>1. pc'[v] = pc[v] /\ tx'[v] = tx[v] /\ job'[v] = job[v]
      BY <2>1, <2>3, OthersLeave
    <3>2. Carried(Ended(v))
      BY <1>1, <1>3, <3>1 DEF Queueing
    <3>3. EndedKept(v)
      BY <1>1, <1>3, <2>3, <3>1, FinishFrame
    <3> QED BY <3>2, <3>3, QueuedCarry DEF EndedKept
  <2> QED BY <2>2, <2>3
<1> QED BY <1>2, <1>3

-----------------------------------------------------------------------------
(* The theorems.                                                           *)

LEMMA InitReady == Init => Ready
<1> SUFFICES ASSUME Init PROVE Ready
  OBVIOUS
<1>1. \A w \in Worker : pc[w] = "idle"
  BY DEF Init
<1> QED BY <1>1 DEF Init, Ready, ReadyNeverWaits

\* Whoever ends a run, ready means moved on: by the last worker's commit, by
\* the webhook or by the sweep, in the transaction that makes it ready.
THEOREM ReadyMovesOn == Spec => []ReadyNeverWaits
<1>1. Ready /\ TypeOK /\ Ownership /\ [Next]_vars => Ready'
  BY ReadyStep
<1>2. Ready => ReadyNeverWaits
  BY DEF Ready
<1> QED BY <1>1, <1>2, InitReady, OwnershipHolds, PTL DEF Spec

\* The inductive invariant of what a run comes to, when no run is found stuck.
RunInv == Quiet /\ Ready /\ Holding /\ Advancing

\* Where no run is found stuck, whoever is going to write the run holds its row
\* by then, and whoever is going to advance the application has seen every
\* other unit completed (run_unit, _try_auto_advance).
THEOREM RunInvHolds ==
    ASSUME "stale" \notin Clock
    PROVE  Spec => []RunInv
<1>1. Init => RunInv
  <2> SUFFICES ASSUME Init PROVE RunInv
    OBVIOUS
  <2>1. \A w \in Worker : pc[w] = "idle"
    BY DEF Init
  <2>2. Quiet
    BY DEF Init, Quiet, SweepIdle
  <2>3. Holding /\ Advancing
    BY <2>1 DEF Holding, Advancing
  <2> QED BY <2>2, <2>3, InitReady DEF RunInv
<1>2. RunInv /\ TypeOK /\ Ownership /\ [Next]_vars => RunInv'
  BY QuietStep, ReadyStep, HoldingStep, AdvancingStep DEF RunInv
<1> QED BY <1>1, <1>2, OwnershipHolds, PTL DEF Spec

\* Where no run is found stuck, the unit result that the reviewers read is that
\* of its check, whoever has ended it (the sweep of stuck runs does not write
\* results).
THEOREM ResultsFollow ==
    ASSUME "stale" \notin Clock
    PROVE  Spec => []ResultFollowsCheck
<1>1. Init => ResultFollowsCheck
  BY DEF Init, ResultFollowsCheck
<1>2. TypeOK /\ RunInv /\ ResultFollowsCheck /\ [Next]_vars
          => ResultFollowsCheck'
  BY ResultStep DEF RunInv
<1> QED BY <1>1, <1>2, RunInvHolds, OwnershipHolds, PTL DEF Spec

\* Where no run is found stuck, the system advances an application only when
\* every unit of its run is completed, whoever else has been at it between the
\* decision and the commit.
THEOREM AdvancesWhenReady ==
    ASSUME "stale" \notin Clock
    PROVE  Spec => AdvanceOnlyWhenReady
<1>1. TypeOK /\ RunInv /\ [Next]_vars =>
          [(app = "initial_screening" /\ app' = "application_review"
               /\ movedBy' = "system")
             => \A u \in Unit : check'[u] = "completed"]_vars
  BY AdvanceStep DEF RunInv
<1> QED BY <1>1, RunInvHolds, OwnershipHolds, PTL DEF Spec, AdvanceOnlyWhenReady

LEMMA InitAgreement == Init => Agreement /\ Queueing
<1> SUFFICES ASSUME Init PROVE Agreement /\ Queueing
  OBVIOUS
<1>1. \A w \in Worker : pc[w] = "idle"
  BY DEF Init
<1>2. ~AllTerminal(check) /\ run = "absent"
  BY Terminals, PolicyAssumption DEF Init, AllTerminal
<1>3. Agrees(run, check)
  BY <1>2, Terminals DEF Agrees
<1>4. PassedOver
  BY DEF Init, PassedOver, SweepIdle
<1> QED BY <1>1, <1>2, <1>3, <1>4 DEF Agreement, GoesBy, Queueing

\* Likewise, without half-way commits, what a worker goes by and what it will
\* write agree with the checks as its commit leaves them: the stage row orders
\* the workers' commits (run_unit, _terminalize_run_on_sla_timeout).
THEOREM AgreementHolds ==
    ASSUME "stale" \notin Clock, MidCommit = {}
    PROVE  Spec => [](Agreement /\ Queueing)
<1>1. /\ TypeOK /\ Ownership /\ RunInv /\ Agreement /\ Queueing /\ [Next]_vars
      => (Agreement /\ Queueing)'
  BY AgreementStep, QueueingStep DEF RunInv
<1> QED BY <1>1, InitAgreement, RunInvHolds, OwnershipHolds, PTL DEF Spec

\* Where no run is found stuck and no processor commits half way, what a run
\* has come to stands, whoever ends it: the last two workers do not miss each
\* other's unit, and neither the SLA nor the webhook is overwritten by a worker
\* that has computed the status before.
THEOREM RunsStand ==
    ASSUME "stale" \notin Clock, MidCommit = {}
    PROVE  Spec => []RunStands
<1>1. Agreement => RunAgreesWithChecks
  BY DEF Agreement, Agrees, Calm, RunAgreesWithChecks
<1> QED BY <1>1, AgreementHolds, ReadyMovesOn, PTL DEF RunStands

\* Likewise no dependent is left pending when the last unit it waits for has
\* ended, unless the SLA and the webhook have both been at the run.
THEOREM NoneStranded ==
    ASSUME "stale" \notin Clock, MidCommit = {}
    PROVE  Spec => [](Calm => NoStrandedFollowup)
<1>1. Queueing => (Calm => NoStrandedFollowup)
  BY DEF Queueing, Carried, NoStrandedFollowup
<1> QED BY <1>1, AgreementHolds, PTL

-----------------------------------------------------------------------------
(* The workers alone. While neither the sweep nor the webhook is at work,    *)
(* followups are carried on, and the workers with their locks, claims and    *)
(* commits implement the sequential pipeline of DataCheckPromise.            *)

\* Neither the sweep nor the webhook is at work.
Alone == stale = {} /\ ~slaPast /\ sweep = SweepIdle /\ ingests = 0

\* Which rows a worker locks, and from when.
Tidy ==
    \A w \in Worker, r \in Row : lock[r] = w =>
        /\ pc[w] \in {"starting", "running", "finishing"}
        /\ r \in {"stage", "run"} => pc[w] # "starting"
        /\ r # "application"
        /\ r \in Unit => r = job[w] \/ (pc[w] = "finishing" /\ r \in tx[w].follow)

\* An idle worker has no job.
Unemployed == \A w \in Worker : pc[w] = "idle" => job[w] = NoUnit

\* A commit is going to queue u.
Follows(w, u) == pc[w] = "finishing" /\ u \in tx[w].follow

InQueue(u, q) == \E i \in DOMAIN q : q[i] = u

HasJob(u) == InQueue(u, queue) \/ \E w \in Worker : job[w] = u

\* Whoever takes a job of u will find what u depends on ended, once it may
\* claim u.
Due(u) == DependenciesMet(u, check) \/ \E w \in Worker : Follows(w, u)

\* u is queued, or about to be.
Promised(u) == check[u] = "queued" \/ \E w \in Worker : Follows(w, u)

\* Of a run that nobody sees only the first wave's jobs are there.
Untouched ==
    run = "absent" =>
        /\ \A u \in Unit : check[u] = "pending"
        /\ \A u \in Unit : InQueue(u, queue) => u \in FirstWave

\* A job is of a unit that may be executed.
JobsDue ==
    /\ \A u \in Unit : InQueue(u, queue) => Due(u)
    /\ \A w \in Worker : pc[w] = "claiming" => Due(job[w])

\* What is in progress, queued, or about to be queued, has what it depends on
\* behind it.
DueInTime ==
    /\ \A w \in Worker : pc[w] \in {"starting", "running", "finishing"}
                            => DependenciesMet(job[w], check)
    /\ \A u \in Unit : check[u] = "queued" => DependenciesMet(u, check)
    /\ \A w \in Worker, u \in Unit :
          Follows(w, u) => DependenciesMet(u, Ended(w))

JobsKept == \A u \in Unit \ FirstWave : Promised(u) => HasJob(u)

InOrder ==
    /\ Untouched
    /\ faults = 0 => JobsDue /\ DueInTime /\ JobsKept

\* Without faults and without the commission: the application is in the
\* screening from the submit until the last unit ends, and workers see it there.
Screened ==
    /\ run = "absent" =>
          /\ app = "application"
          /\ stage = [status |-> "none", attention |-> FALSE]
          /\ card = Promise!Left("application")
    /\ run # "absent" /\ ~AllTerminal(check) => app = "initial_screening"
    /\ \A w \in Worker : pc[w] # "idle" => tx[w].app = "initial_screening"

-----------------------------------------------------------------------------
(* Nobody else.                                                            *)

LEMMA SweepNeverWaits ==
    ASSUME sweep = SweepIdle
    PROVE  Waits[Sweeper] = {}
<1>1. SweepWaits = {}
  BY DEF SweepWaits, SweepIdle
<1>2. Waits[Sweeper] = {lock[r] : r \in SweepWaits} \ {Nobody, Sweeper}
  BY DEF Waits
<1> QED BY <1>1, <1>2

\* Who takes a step.
LEMMA AloneNext ==
    ASSUME Clock = {}, External = {}, MidCommit = {}, Alone, [Next]_vars
    PROVE  \/ Submit \/ SubmitAbort
           \/ \E w \in Worker : WorkerStep(w) \/ Crash(w) \/ WorkerVictim(w)
           \/ Commission \/ UNCHANGED vars
<1>1. ~SweepStep
  BY DEF Alone, SweepIdle, SweepStep, SweepBegin, SweepDue, SlaSkip, SlaDecide,
     SlaVisits, SlaWrite, SlaCommit, StuckRequeue, StuckCommit,
     StuckDecideAdvance, StuckAdvance
<1>2. ~SweepAbort /\ ~SweepVictim
  BY SweepNeverWaits DEF Alone, SweepAbort, SweepVictim, Deadlocked
<1>3. ~TenMinutes /\ ~SlaPasses
  BY DEF TenMinutes, SlaPasses
<1>4. \A u \in Unit, s \in UnitStatus : ~Ingest(u, s)
  BY DEF Ingest
<1>5. \A w \in Worker : ~CommitClaim(w)
  BY DEF CommitClaim
<1> QED BY <1>1, <1>2, <1>3, <1>4, <1>5 DEF Next, BreakDeadlock

LEMMA AloneStep ==
    ASSUME Clock = {}, External = {}, MidCommit = {}, Alone, [Next]_vars
    PROVE  Alone'
<1> USE DEF db, worker, counters
<1>1. CASE Submit \/ SubmitAbort \/ Commission \/ UNCHANGED vars
  BY <1>1 DEF Alone, Submit, SubmitPush, SubmitCommit, SubmitAbort, Commission,
     KanbanAdvance, ManualScreeningPassed, RevisionRequired, Moves, vars
<1>2. ASSUME NEW w \in Worker, WorkerStep(w) \/ Crash(w) \/ WorkerVictim(w)
      PROVE  Alone'
  BY <1>2 DEF Alone, WorkerStep, TakeRunNotFound, TakeBatchComplete,
     TakeTerminalCheck, TakeUnit, Claim, ClaimLost, Start, Finish, Commit,
     Crash, WorkerVictim, WorkerRollback
<1> QED BY <1>1, <1>2, AloneNext

-----------------------------------------------------------------------------
(* What is pushed.                                                         *)

\* Without a failed push, each unit gets its job.
LEMMA AllSent ==
    ASSUME NEW F \in SUBSET Unit, NEW s \in Sent(F), Len(s) >= Cardinality(F),
           NEW f \in F
    PROVE  \E i \in DOMAIN s : s[i] = f
<1>1. PICK T \in SUBSET F :
         /\ s \in [1 .. Cardinality(T) -> T]
         /\ \A i, j \in DOMAIN s : i < j => Rank[s[i]] < Rank[s[j]]
  BY DEF Sent
<1>2. IsFiniteSet(F) /\ IsFiniteSet(T)
  BY PolicyAssumption, FS_Subset
<1>3. Cardinality(T) \in Nat /\ Cardinality(F) \in Nat
  BY <1>2, FS_CardinalityType
<1>4. Len(s) = Cardinality(T)
  BY <1>1, <1>3
<1>5. T = F
  <2>1. Cardinality(T) <= Cardinality(F)
    BY <1>2, FS_Subset
  <2> QED BY <1>2, <1>3, <1>4, <2>1, FS_Subset
<1> DEFINE I == 1 .. Cardinality(T)
<1>6. \A i, j \in I : s[i] = s[j] => i = j
  <2> SUFFICES ASSUME NEW i \in I, NEW j \in I, s[i] = s[j], i < j
               PROVE  FALSE
    BY <1>3
  <2>1. Rank[s[i]] \in Nat /\ Rank[s[i]] < Rank[s[j]]
    BY <1>1, PipelineAssumption
  <2> QED BY <2>1
<1>7. IsFiniteSet(I) /\ Cardinality(I) = Cardinality(T) /\ DOMAIN s = I
  BY <1>1, <1>3, FS_Interval
<1> SUFFICES ASSUME \A i \in I : s[i] # f PROVE FALSE
  BY <1>7
<1>8. s \in [I -> T \ {f}]
  BY <1>1
<1>9. IsFiniteSet(T \ {f}) /\ Cardinality(T \ {f}) = Cardinality(T) - 1
  BY <1>2, <1>5, FS_RemoveElement
<1> HIDE DEF I
<1> QED BY <1>3, <1>6, <1>7, <1>8, <1>9, FS_PigeonHole

\* What is pushed is what was to be pushed, behind what was waiting.
LEMMA Pushed ==
    ASSUME NEW F \in SUBSET Unit, NEW s \in Sent(F), NEW q \in Seq(Unit),
           Enqueue(s, Cardinality(F), q), faults = 0, faults' = 0,
           NEW u
    PROVE  InQueue(u, queue') <=> InQueue(u, q) \/ u \in F
<1>1. s \in Seq(Unit) /\ Cardinality(F) \in Nat
  BY SentType, PolicyAssumption, FS_Subset, FS_CardinalityType
<1>2. queue' = q \o s /\ ~(Len(s) < Cardinality(F))
  BY DEF Enqueue
<1>3. Len(s) >= Cardinality(F)
  BY <1>1, <1>2
<1>4. u \in F <=> InQueue(u, s)
  <2>1. \A i \in DOMAIN s : s[i] \in F
    BY DEF Sent
  <2>2. u \in F => \E i \in DOMAIN s : s[i] = u
    BY <1>3, AllSent
  <2> QED BY <2>1, <2>2 DEF InQueue
<1>5. ASSUME NEW i \in DOMAIN q
      PROVE  i \in DOMAIN (q \o s) /\ (q \o s)[i] = q[i]
  BY <1>1
<1>6. ASSUME NEW i \in DOMAIN s
      PROVE  Len(q) + i \in DOMAIN (q \o s) /\ (q \o s)[Len(q) + i] = s[i]
  BY <1>1
<1>7. ASSUME NEW i \in DOMAIN (q \o s)
      PROVE  \/ i \in DOMAIN q /\ (q \o s)[i] = q[i]
             \/ i - Len(q) \in DOMAIN s /\ (q \o s)[i] = s[i - Len(q)]
  BY <1>1
<1>8. InQueue(u, q \o s) <=> InQueue(u, q) \/ InQueue(u, s)
  BY <1>5, <1>6, <1>7 DEF InQueue
<1> QED BY <1>2, <1>4, <1>8

\* The queue without its oldest job.
LEMMA Popping ==
    ASSUME NEW q \in Seq(Unit), q # <<>>
    PROVE  /\ Tail(q) \in Seq(Unit) /\ Head(q) \in Unit
           /\ InQueue(Head(q), q)
           /\ \A u : InQueue(u, Tail(q)) => InQueue(u, q)
           /\ \A u : InQueue(u, q) => u = Head(q) \/ InQueue(u, Tail(q))
<1>1. Len(q) \in Nat /\ Len(q) > 0 /\ DOMAIN q = 1 .. Len(q)
  OBVIOUS
<1>2. /\ Len(Tail(q)) = Len(q) - 1 /\ DOMAIN Tail(q) = 1 .. (Len(q) - 1)
      /\ \A j \in 1 .. (Len(q) - 1) : Tail(q)[j] = q[j + 1]
  BY <1>1
<1>3. ASSUME NEW i \in DOMAIN q
      PROVE  q[i] = Head(q) \/ InQueue(q[i], Tail(q))
  <2>1. CASE i = 1
    BY <1>1, <2>1
  <2>2. CASE i # 1
    <3>1. i - 1 \in DOMAIN Tail(q) /\ Tail(q)[i - 1] = q[i]
      BY <1>1, <1>2, <2>2
    <3> QED BY <3>1 DEF InQueue
  <2> QED BY <2>1, <2>2
<1>4. ASSUME NEW j \in DOMAIN Tail(q)
      PROVE  InQueue(Tail(q)[j], q)
  <2>1. j + 1 \in DOMAIN q /\ q[j + 1] = Tail(q)[j]
    BY <1>1, <1>2
  <2> QED BY <2>1 DEF InQueue
<1>5. 1 \in DOMAIN q /\ q[1] = Head(q)
  BY <1>1
<1>6. ASSUME NEW u, InQueue(u, q) PROVE u = Head(q) \/ InQueue(u, Tail(q))
  BY <1>3, <1>6 DEF InQueue
<1>7. ASSUME NEW u, InQueue(u, Tail(q)) PROVE InQueue(u, q)
  <2>1. PICK j \in DOMAIN Tail(q) : Tail(q)[j] = u
    BY <1>7 DEF InQueue
  <2> QED BY <1>4, <2>1
<1>8. InQueue(Head(q), q)
  BY <1>5 DEF InQueue
<1>9. Tail(q) \in Seq(Unit) /\ Head(q) \in Unit
  OBVIOUS
<1> QED BY <1>6, <1>7, <1>8, <1>9

-----------------------------------------------------------------------------
(* Locks, and why the workers do not deadlock.                             *)

LEMMA TidyStep ==
    ASSUME TypeOK, Ownership, Tidy, MidCommit = {}, External = {}, Clock = {},
           Alone, [Next]_vars
    PROVE  Tidy'
<1> USE DEF db, worker, counters
<1>1. /\ WorkersOK /\ LocksOK
      /\ \A w \in Worker : w # Nobody /\ w # Sweeper
  BY PipelineAssumption DEF TypeOK
<1>2. CASE Submit \/ SubmitAbort \/ Commission \/ UNCHANGED vars
  <2>1. UNCHANGED <<lock, pc, job, tx>>
    BY <1>2 DEF Submit, SubmitPush, SubmitCommit, SubmitAbort, Commission,
       KanbanAdvance, ManualScreeningPassed, RevisionRequired, Moves, vars
  <2> QED BY <2>1 DEF Tidy
<1>3. ASSUME NEW w \in Worker, WorkerStep(w) \/ Crash(w) \/ WorkerVictim(w)
      PROVE  Tidy'
  <2>1. ASSUME NEW v \in Worker \ {w}, NEW r \in Row, lock'[r] = v
        PROVE  lock[r] = v /\ pc'[v] = pc[v] /\ job'[v] = job[v] /\ tx'[v] = tx[v]
    <3>1. pc'[v] = pc[v] /\ job'[v] = job[v] /\ tx'[v] = tx[v]
      BY <1>3, WorkerStepFrame
    <3>2. CASE lock' = lock
      BY <2>1, <3>1, <3>2
    <3>3. CASE lock' = Released(w)
      BY <1>1, <2>1, <3>1, <3>3 DEF Released
    <3>4. ASSUME NEW rows, lock' = Acquired(rows, w)
          PROVE  lock[r] = v
      BY <2>1, <3>4 DEF Acquired
    <3> QED
      BY <1>3, <3>1, <3>2, <3>3, <3>4 DEF WorkerStep, TakeRunNotFound,
         TakeBatchComplete, TakeTerminalCheck, TakeUnit, Claim, ClaimLost,
         Start, Finish, Commit, Crash, WorkerVictim, WorkerRollback
  <2>2. ASSUME NEW r \in Row, lock'[r] = w
        PROVE  /\ pc'[w] \in {"starting", "running", "finishing"}
               /\ r \in {"stage", "run"} => pc'[w] # "starting"
               /\ r # "application"
               /\ r \in Unit => \/ r = job'[w]
                                \/ pc'[w] = "finishing" /\ r \in tx'[w].follow
    <3>1. CASE Commit(w) \/ Crash(w) \/ WorkerVictim(w)
      <4>1. lock' = Released(w)
        BY <3>1 DEF Commit, Crash, WorkerVictim, WorkerRollback
      <4> QED BY <1>1, <2>2, <4>1 DEF Released
    <3>2. CASE \/ TakeRunNotFound(w) \/ TakeBatchComplete(w)
               \/ TakeTerminalCheck(w) \/ TakeUnit(w) \/ ClaimLost(w)
      <4>1. lock' = lock /\ pc[w] \in {"idle", "claiming"}
        BY <3>2 DEF TakeRunNotFound, TakeBatchComplete, TakeTerminalCheck,
           TakeUnit, ClaimLost, Popped
      <4> QED BY <2>2, <4>1 DEF Tidy
    <3>3. CASE Claim(w)
      <4>1. /\ pc[w] = "claiming" /\ pc'[w] = "starting" /\ job'[w] = job[w]
            /\ job[w] \in Unit /\ lock' = Acquired({job[w]}, w)
        BY <1>1, <3>3 DEF Claim, WorkersOK
      <4>2. r = job[w]
        BY <2>2, <4>1 DEF Acquired, Tidy
      <4> QED BY <4>1, <4>2, PipelineAssumption
    <3>4. CASE Start(w)
      <4>1. /\ pc[w] = "starting" /\ pc'[w] = "running" /\ job'[w] = job[w]
            /\ lock' = Acquired(StartRows(w), w)
        BY <1>1, <3>4 DEF Start, WorkersOK
      <4>2. r \in {"stage", "run"} \/ lock[r] = w
        BY <2>2, <4>1 DEF Acquired, StartRows
      <4> QED BY <4>1, <4>2, PipelineAssumption DEF Tidy
    <3>5. ASSUME NEW out \in TerminalUnitStatus, Finish(w, out)
          PROVE  /\ pc'[w] = "finishing" /\ r # "application"
                 /\ r \in Unit => r = job'[w] \/ r \in tx'[w].follow
      <4>1. /\ pc[w] # "finishing" /\ pc'[w] = "finishing" /\ job'[w] = job[w]
            /\ job[w] \in Unit /\ lock' = Acquired(FinishRows(w, out), w)
        BY <1>1, <3>5 DEF Finish, WorkersOK
      <4>2. tx'[w].follow = Touched(w, out)
        BY <1>1, <3>5, Zenon DEF Finish, WorkersOK
      <4>3. \/ r \in {job[w]} \cup Touched(w, out) \cup {"run", "stage"}
            \/ lock[r] = w
        BY <2>2, <4>1 DEF Acquired, FinishRows
      <4>4. Touched(w, out) \subseteq Unit
        BY FollowupsAreUnits DEF Touched
      <4> QED BY <4>1, <4>2, <4>3, <4>4, PipelineAssumption DEF Tidy
    <3> QED BY <1>3, <3>1, <3>2, <3>3, <3>4, <3>5 DEF WorkerStep
  <2>3. ASSUME NEW v \in Worker, NEW r \in Row, lock'[r] = v
        PROVE  /\ pc'[v] \in {"starting", "running", "finishing"}
               /\ r \in {"stage", "run"} => pc'[v] # "starting"
               /\ r # "application"
               /\ r \in Unit => \/ r = job'[v]
                                \/ pc'[v] = "finishing" /\ r \in tx'[v].follow
    BY <2>1, <2>2, <2>3 DEF Tidy
  <2> QED BY <2>3 DEF Tidy
<1> QED BY <1>2, <1>3, AloneNext

LEMMA UnemployedStep ==
    ASSUME TypeOK, Unemployed, MidCommit = {}, External = {}, Clock = {},
           Alone, [Next]_vars
    PROVE  Unemployed'
<1> USE DEF db, worker, counters
<1>1. WorkersOK
  BY DEF TypeOK
<1>2. CASE Submit \/ SubmitAbort \/ Commission \/ UNCHANGED vars
  <2>1. UNCHANGED <<pc, job>>
    BY <1>2 DEF Submit, SubmitPush, SubmitCommit, SubmitAbort, Commission,
       KanbanAdvance, ManualScreeningPassed, RevisionRequired, Moves, vars
  <2> QED BY <2>1 DEF Unemployed
<1>3. ASSUME NEW w \in Worker, WorkerStep(w) \/ Crash(w) \/ WorkerVictim(w)
      PROVE  Unemployed'
  BY <1>1, <1>3 DEF Unemployed, WorkersOK, WorkerStep, TakeRunNotFound,
     TakeBatchComplete, TakeTerminalCheck, TakeUnit, Claim, ClaimLost, Start,
     Finish, Commit, CommitClaim, Crash, WorkerVictim, WorkerRollback
<1> QED BY <1>2, <1>3, AloneNext

\* Who executes, waits for no worker; who starts, waits for one that executes.
\* (With faults a premature job of a dependent may be executed.)
LEMMA NoDeadlock ==
    ASSUME TypeOK, Ownership, Holding, Alone, Tidy, MidCommit = {},
           DueInTime, run # "absent" => Carried(check), NEW h \in Worker
    PROVE  ~Deadlocked(h)
<1>1. /\ Waits[Sweeper] = {}
      /\ \A w \in Worker : w # Nobody /\ w # Sweeper
  BY SweepNeverWaits, PipelineAssumption DEF Alone
<1>2. \A w \in Worker :
         Waits[w] = {lock[r] : r \in WorkerNeeds(w)} \ {Nobody, w}
  BY <1>1 DEF Waits
<1>3. {"stage", "run", "application"} \subseteq Row /\ Unit \subseteq Row
  BY DEF Row
<1>4. ASSUME NEW w \in Worker, pc[w] \in {"running", "finishing"},
             NEW v \in Worker, v \in Waits[w]
      PROVE  FALSE
  <2>1. lock["stage"] = w
    BY <1>4 DEF Holding
  <2>2. PICK r \in WorkerNeeds(w) : lock[r] = v /\ v # w
    BY <1>2, <1>4
  <2>3. \A r1 \in {"stage", "run"} : lock[r1] = v => FALSE
    <3> SUFFICES ASSUME NEW r1 \in {"stage", "run"}, lock[r1] = v
                 PROVE  FALSE
      OBVIOUS
    <3>1. pc[v] \in {"running", "finishing"}
      BY <1>3 DEF Tidy
    <3>2. lock["stage"] = v
      BY <3>1 DEF Holding
    <3> QED BY <2>1, <2>2, <3>2
  <2>4. lock["application"] # v
    BY <1>3 DEF Tidy
  <2>5. CASE pc[w] = "finishing"
    <3>1. r \in {"stage", "application"}
      BY <2>5 DEF WorkerNeeds, CommitRows
    <3> QED BY <2>2, <2>3, <2>4, <3>1
  <2>6. CASE pc[w] = "running"
    <3>1. PICK out \in TerminalUnitStatus : r \in FinishRows(w, out)
      BY <2>6 DEF WorkerNeeds
    <3>2. lock[job[w]] = w
      BY <2>6 DEF Ownership, LockDiscipline, WorkerLocks
    <3>3. r \in Touched(w, out)
      BY <2>2, <2>3, <3>1, <3>2 DEF FinishRows
    <3>4. r \in Unit \ FirstWave /\ check[r] = "pending"
      BY <3>3 DEF Touched, ReadyFollowups
    <3>5. pc[v] = "starting" /\ job[v] = r
      <4>1. pc[v] \notin {"running", "finishing"}
        BY <2>1, <2>2 DEF Holding
      <4> QED BY <1>3, <2>2, <3>4, <4>1 DEF Tidy
    <3>6. DependenciesMet(r, check)
      BY <3>5 DEF DueInTime
    <3>7. Carried(check)
      BY <3>5 DEF Ownership, NoRunNoWork
    <3> QED BY <3>4, <3>6, <3>7 DEF Carried
  <2> QED BY <1>4, <2>5, <2>6
<1>5. ASSUME NEW w \in Worker, NEW v \in Worker, v \in Waits[w]
      PROVE  pc[w] = "starting" /\ pc[v] # "starting"
  <2>1. PICK r \in WorkerNeeds(w) : lock[r] = v
    BY <1>2, <1>5
  <2>2. pc[w] # "detached"
    BY DEF Ownership, LockDiscipline, WorkerLocks
  <2>3. pc[w] = "starting"
    BY <1>4, <1>5, <2>1, <2>2 DEF WorkerNeeds
  <2>4. r \in {"stage", "run"}
    BY <2>1, <2>3 DEF WorkerNeeds, StartRows
  <2> QED BY <1>3, <2>1, <2>3, <2>4 DEF Tidy
<1> SUFFICES ASSUME Deadlocked(h) PROVE FALSE
  OBVIOUS
<1>6. PICK ring \in SUBSET {g \in DOMAIN Waits : Waits[g] # {}} :
         /\ h \in ring
         /\ \A g \in ring : Waits[g] \cap ring # {}
  BY DEF Deadlocked
<1>7. ring \subseteq Worker
  BY <1>1, <1>6 DEF Waits
<1>8. PICK v \in ring : v \in Waits[h]
  BY <1>6
<1>9. PICK x \in ring : x \in Waits[v]
  BY <1>6
<1> QED BY <1>5, <1>7, <1>8, <1>9

-----------------------------------------------------------------------------
(* Followups are carried on.                                               *)

\* The workers alone, and what is known of them.
Steady ==
    /\ MidCommit = {} /\ External = {} /\ Clock = {}
    /\ TypeOK /\ Ownership /\ Holding /\ Alone /\ Tidy /\ Unemployed
    /\ Queueing

\* A worker that has ended its unit leaves its dependents in order.
LEMMA SteadyCarries ==
    ASSUME Steady
    PROVE  run # "absent" => Carried(check)
BY DEF Steady, Queueing, Calm, Alone

\* The first wave depends on nothing.
LEMMA FirstWaveDue ==
    ASSUME NEW u \in FirstWave, NEW s
    PROVE  DependenciesMet(u, s)
BY DEF FirstWave, DependenciesMet

\* A unit that has ended stays as it is.
LEMMA EndedStay ==
    ASSUME Steady, NEW w \in Worker,
           WorkerStep(w) \/ Crash(w) \/ WorkerVictim(w),
           NEW u \in Unit, check[u] \in TerminalUnitStatus
    PROVE  check'[u] = check[u]
<1> USE DEF db, worker, counters
<1>1. check \in [Unit -> UnitStatus]
  BY DEF Steady, TypeOK, RowsOK
<1>2. CASE TakeTerminalCheck(w)
  BY <1>1, <1>2, Terminals DEF TakeTerminalCheck
<1>3. CASE Commit(w)
  <2>1. pc[w] = "finishing"
    BY <1>3 DEF Commit
  <2>2. /\ \A f \in tx[w].follow : check[f] = "pending"
        /\ check[job[w]] \in {"pending", "queued"}
    BY <2>1 DEF Steady, Holding, Ownership, ClaimStands
  <2> QED BY <1>3, <2>2, Terminals DEF Commit
<1>4. CASE ~TakeTerminalCheck(w) /\ ~Commit(w)
  BY <1>4 DEF WorkerStep, TakeRunNotFound, TakeBatchComplete, TakeUnit, Claim,
     ClaimLost, Start, Finish, Crash, WorkerVictim, WorkerRollback
<1> QED BY <1>2, <1>3, <1>4

LEMMA MetStays ==
    ASSUME Steady, NEW w \in Worker,
           WorkerStep(w) \/ Crash(w) \/ WorkerVictim(w),
           NEW u \in Unit, DependenciesMet(u, check)
    PROVE  DependenciesMet(u, check')
BY EndedStay, PolicyAssumption DEF DependenciesMet

\* What others do while a worker finishes.
LEMMA MetAtEndStays ==
    ASSUME Steady, NEW w \in Worker, NEW v \in Worker \ {w},
           WorkerStep(w) \/ Crash(w) \/ WorkerVictim(w),
           NEW u \in Unit, pc[v] = "finishing", DependenciesMet(u, Ended(v))
    PROVE  /\ pc'[v] = "finishing" /\ tx'[v] = tx[v]
           /\ DependenciesMet(u, Ended(v)')
<1>1. pc'[v] = pc[v] /\ tx'[v] = tx[v] /\ job'[v] = job[v]
  BY WorkerStepFrame DEF Steady
<1>2. \A d \in Unit : Ended(v)[d] \in TerminalUnitStatus
                         => Ended(v)'[d] \in TerminalUnitStatus
  <2> SUFFICES ASSUME NEW d \in Unit, Ended(v)[d] \in TerminalUnitStatus
               PROVE  Ended(v)'[d] \in TerminalUnitStatus
    OBVIOUS
  <2>1. d = job[v] \/ (d \notin tx[v].follow /\ check[d] \in TerminalUnitStatus)
    BY Terminals DEF Ended
  <2>2. CASE d = job[v]
    BY <1>1, <2>2 DEF Ended
  <2>3. CASE d # job[v] /\ d \notin tx[v].follow /\ check[d] \in TerminalUnitStatus
    BY <1>1, <2>3, EndedStay DEF Ended
  <2> QED BY <2>1, <2>2, <2>3
<1> QED BY <1>1, <1>2, PolicyAssumption DEF DependenciesMet

\* In a step without a fault no transaction is rolled back.
LEMMA NoFault ==
    ASSUME Steady, DueInTime, faults = 0, faults' = 0, NEW w \in Worker
    PROVE  ~Crash(w) /\ ~WorkerVictim(w) /\ ~SubmitAbort
<1>1. ~WorkerVictim(w)
  BY NoDeadlock, SteadyCarries DEF WorkerVictim, Steady
<1> QED BY <1>1 DEF Crash, SubmitAbort

LEMMA FaultsCount ==
    ASSUME TypeOK, [Next]_vars, faults' = 0
    PROVE  faults = 0
<1>1. faults \in Nat
  BY DEF TypeOK, ClockOK
<1> DEFINE AtMostOne == faults' = faults \/ faults' = faults + 1
<1> SUFFICES AtMostOne
  BY <1>1
<1> USE DEF counters
<1>a. ASSUME NEW s, NEW n, NEW q, Enqueue(s, n, q) PROVE AtMostOne
  BY <1>a DEF Enqueue
<1>2. ASSUME NEW w \in Worker, WorkerStep(w) \/ CommitClaim(w) \/ Crash(w)
      PROVE  AtMostOne
  <2>1. CASE \/ TakeRunNotFound(w) \/ TakeBatchComplete(w) \/ TakeTerminalCheck(w)
             \/ TakeUnit(w) \/ Claim(w) \/ ClaimLost(w) \/ Start(w)
             \/ \E out \in TerminalUnitStatus : Finish(w, out)
    BY <2>1 DEF TakeRunNotFound, TakeBatchComplete, TakeTerminalCheck, TakeUnit,
                Claim, ClaimLost, Start, Finish, Enqueue
  <2>2. CASE Commit(w) \/ CommitClaim(w) \/ Crash(w)
    BY <2>2 DEF Commit, CommitClaim, Crash, WorkerRollback, Enqueue
  <2> QED BY <1>2, <2>1, <2>2 DEF WorkerStep
<1>3. CASE SweepStep \/ SweepAbort
  <2>1. CASE SweepBegin \/ \E u \in Unit : SlaSkip(u) \/ SlaDecide(u)
    BY <2>1 DEF SweepBegin, SlaSkip, SlaDecide
  <2>2. CASE SlaWrite \/ SlaCommit
    BY <2>2 DEF SlaWrite, SlaCommit
  <2>3. CASE StuckRequeue
    <3>1. \E s, n, q : Enqueue(s, n, q)
      BY <2>3 DEF StuckRequeue
    <3> QED BY <3>1, <1>a
  <2>4. CASE StuckCommit
    BY <2>4 DEF StuckCommit
  <2>5. CASE StuckDecideAdvance \/ StuckAdvance
    BY <2>5 DEF StuckDecideAdvance, StuckAdvance
  <2>6. CASE SweepAbort
    BY <2>6 DEF SweepAbort
  <2> QED BY <1>3, <2>1, <2>2, <2>3, <2>4, <2>5, <2>6 DEF SweepStep
<1>4. CASE Submit \/ SubmitAbort
  BY <1>4 DEF Submit, SubmitPush, SubmitCommit, SubmitAbort
<1>5. CASE BreakDeadlock
  <2>1. CASE SweepVictim
    BY <2>1 DEF SweepVictim, SweepRollback
  <2>2. CASE \E w \in Worker : WorkerVictim(w)
    BY <2>2 DEF WorkerVictim, WorkerRollback
  <2> QED BY <1>5, <2>1, <2>2 DEF BreakDeadlock
<1>6. CASE TenMinutes \/ SlaPasses \/ Commission \/ UNCHANGED vars
  BY <1>6 DEF TenMinutes, SlaPasses, Commission, KanbanAdvance,
              ManualScreeningPassed, RevisionRequired, Moves, vars
<1>7. CASE \E u \in Unit, s \in UnitStatus : Ingest(u, s)
  <2>1. \E s, n, q : Enqueue(s, n, q)
    BY <1>7 DEF Ingest
  <2> QED BY <2>1, <1>a
<1> QED BY <1>2, <1>3, <1>4, <1>5, <1>6, <1>7 DEF Next

\* What follows whom, after a step of w.
LEMMA FollowsAfter ==
    ASSUME Steady, NEW w \in Worker, WorkerStep(w), NEW v \in Worker, NEW u,
           Follows(v, u)'
    PROVE  \/ v # w /\ Follows(v, u)
           \/ v = w /\ \E out \in TerminalUnitStatus :
                          Finish(w, out) /\ u \in Touched(w, out)
<1> USE DEF db, worker, counters
<1>1. WorkersOK
  BY DEF Steady, TypeOK
<1>2. CASE v # w
  <2>1. pc'[v] = pc[v] /\ tx'[v] = tx[v]
    BY <1>2, WorkerStepFrame DEF Steady
  <2> QED BY <1>2, <2>1 DEF Follows
<1>3. CASE v = w
  <2>1. PICK out \in TerminalUnitStatus : Finish(w, out)
    <3>1. pc'[w] = "finishing"
      BY <1>3 DEF Follows
    <3> QED BY <1>1, <3>1 DEF WorkersOK, WorkerStep, TakeRunNotFound,
         TakeBatchComplete, TakeTerminalCheck, TakeUnit, Claim, ClaimLost,
         Start, Commit, Popped
  <2>2. tx'[w].follow = Touched(w, out)
    BY <1>1, <2>1, Zenon DEF Finish, WorkersOK
  <2> QED BY <1>3, <2>1, <2>2 DEF Follows
<1> QED BY <1>2, <1>3

\* What a finishing worker leaves behind it.
LEMMA FollowsBefore ==
    ASSUME Steady, NEW w \in Worker, WorkerStep(w), NEW v \in Worker, NEW u,
           Follows(v, u)
    PROVE  Follows(v, u)' \/ (v = w /\ Commit(w))
<1>1. WorkersOK
  BY DEF Steady, TypeOK
<1>2. CASE v # w
  <2>1. pc'[v] = pc[v] /\ tx'[v] = tx[v]
    BY <1>2, WorkerStepFrame DEF Steady
  <2> QED BY <2>1 DEF Follows
<1>3. CASE v = w
  BY <1>3 DEF Follows, WorkerStep, TakeRunNotFound, TakeBatchComplete,
     TakeTerminalCheck, TakeUnit, Claim, ClaimLost, Start, Finish, Popped
<1> QED BY <1>2, <1>3

LEMMA UntouchedStep ==
    ASSUME Steady, Untouched, [Next]_vars
    PROVE  Untouched'
<1> USE DEF db, worker, counters
<1>0. TypeOK /\ NoRunNoWork /\ queue \in Seq(Unit)
  BY DEF Steady, Ownership, TypeOK, SubmitOK
<1> SUFFICES ASSUME run' = "absent"
             PROVE  /\ \A u \in Unit : check'[u] = "pending"
                    /\ \A u \in Unit : InQueue(u, queue') => u \in FirstWave
  BY DEF Untouched
<1>1. run = "absent"
  BY <1>0, RunStays
<1>2. /\ \A u \in Unit : check[u] = "pending"
      /\ \A u \in Unit : InQueue(u, queue) => u \in FirstWave
  BY <1>1 DEF Untouched
<1>3. CASE UNCHANGED <<check, queue>>
  BY <1>2, <1>3
<1>4. CASE Submit
  <2>1. PICK x \in FirstWave : SubmitPush(x)
    BY <1>4 DEF Submit, SubmitCommit, SubmitPush
  <2>2. check' = check /\ queue' = Append(queue, x)
    BY <2>1 DEF SubmitPush
  <2>3. \A u : InQueue(u, queue') => u = x \/ InQueue(u, queue)
    BY <1>0, <2>2 DEF InQueue
  <2> QED BY <1>2, <2>2, <2>3
<1>5. ASSUME NEW w \in Worker, WorkerStep(w) \/ Crash(w) \/ WorkerVictim(w)
      PROVE  /\ \A u \in Unit : check'[u] = "pending"
             /\ \A u \in Unit : InQueue(u, queue') => u \in FirstWave
  <2>1. pc[w] = "idle"
    BY <1>0, <1>1 DEF NoRunNoWork
  <2>2. CASE TakeRunNotFound(w)
    <3>1. check' = check /\ queue' = Tail(queue) /\ queue # <<>>
      BY <2>2 DEF TakeRunNotFound, Popped
    <3> QED BY <1>0, <1>2, <3>1, Popping
  <2>3. CASE ~TakeRunNotFound(w)
    BY <1>1, <1>3, <1>5, <2>1, <2>3 DEF WorkerStep, TakeBatchComplete,
       TakeTerminalCheck, TakeUnit, Claim, ClaimLost, Start, Finish, Commit,
       Crash, WorkerVictim, WorkerRollback
  <2> QED BY <2>2, <2>3
<1>6. CASE SubmitAbort \/ Commission \/ UNCHANGED vars
  BY <1>3, <1>6 DEF SubmitAbort, Commission, KanbanAdvance,
     ManualScreeningPassed, RevisionRequired, Moves, vars
<1> QED BY <1>4, <1>5, <1>6, AloneNext DEF Steady

\* A job that is due stays due.
LEMMA DueStays ==
    ASSUME Steady, DueInTime, NEW w \in Worker, WorkerStep(w),
           NEW u \in Unit, Due(u)
    PROVE  Due(u)'
<1>1. CASE DependenciesMet(u, check)
  BY <1>1, MetStays DEF Due
<1>2. ASSUME NEW v \in Worker, Follows(v, u), ~Follows(v, u)'
      PROVE  Due(u)'
  <2>1. v = w /\ Commit(w)
    BY <1>2, FollowsBefore
  <2>2. check' = Ended(w)
    BY <2>1 DEF Commit, Ended
  <2>3. DependenciesMet(u, Ended(w))
    BY <1>2, <2>1 DEF DueInTime
  <2> QED BY <2>2, <2>3 DEF Due
<1> QED BY <1>1, <1>2 DEF Due

\* What a worker pushes is due.
LEMMA PushedDue ==
    ASSUME Steady, DueInTime, NEW w \in Worker, NEW u \in Unit,
           \/ TakeTerminalCheck(w) /\ u \in ReadyFollowups(check)
           \/ \E out \in TerminalUnitStatus :
                 Finish(w, out) /\ u \in ReadyFollowups(Settled(w, out))
    PROVE  Due(u)'
<1>1. WorkersOK /\ check \in [Unit -> UnitStatus]
  BY DEF Steady, TypeOK, RowsOK
<1>2. CASE TakeTerminalCheck(w) /\ u \in ReadyFollowups(check)
  <2>1. DependenciesMet(u, check)
    BY <1>2 DEF ReadyFollowups
  <2> QED BY <1>2, <2>1, MetStays DEF Due, WorkerStep
<1>3. ASSUME NEW out \in TerminalUnitStatus, Finish(w, out),
             u \in ReadyFollowups(Settled(w, out))
      PROVE  Due(u)'
  <2>1. /\ Settled(w, out)[u] \in {"pending", "queued"}
        /\ job[w] \in Unit
    BY <1>1, <1>3 DEF ReadyFollowups, Finish, WorkersOK
  <2>2. u # job[w] /\ check[u] \in {"pending", "queued"}
    BY <1>1, <2>1, Terminals DEF Settled
  <2>3. CASE check[u] = "queued"
    <3>1. DependenciesMet(u, check)
      BY <2>3 DEF DueInTime
    <3> QED BY <1>3, <3>1, MetStays DEF Due, WorkerStep
  <2>4. CASE check[u] = "pending"
    <3>1. u \in Touched(w, out)
      BY <1>3, <2>4 DEF Touched
    <3>2. pc'[w] = "finishing"
      BY <1>1, <1>3 DEF Finish, WorkersOK
    <3>3. tx'[w].follow = Touched(w, out)
      BY <1>1, <1>3, Zenon DEF Finish, WorkersOK
    <3> QED BY <3>1, <3>2, <3>3 DEF Due, Follows
  <2> QED BY <2>2, <2>3, <2>4
<1> QED BY <1>2, <1>3

\* Where the jobs of a queue come from that a worker leaves.
LEMMA QueueAfter ==
    ASSUME Steady, faults = 0, faults' = 0, NEW w \in Worker, WorkerStep(w)
    PROVE  \A u : InQueue(u, queue') =>
              \/ InQueue(u, queue)
              \/ TakeTerminalCheck(w) /\ u \in ReadyFollowups(check)
              \/ \E out \in TerminalUnitStatus :
                    Finish(w, out) /\ u \in ReadyFollowups(Settled(w, out))
<1> USE DEF db, worker, counters
<1>1. queue \in Seq(Unit)
  BY DEF Steady, TypeOK, SubmitOK
<1>2. CASE queue' = queue
  BY <1>2
<1>3. CASE TakeRunNotFound(w) \/ TakeBatchComplete(w) \/ TakeUnit(w)
  <2>1. queue' = Tail(queue) /\ queue # <<>>
    BY <1>3 DEF TakeRunNotFound, TakeBatchComplete, TakeUnit, Popped
  <2> QED BY <1>1, <2>1, Popping
<1>4. CASE TakeTerminalCheck(w)
  <2> DEFINE F == ReadyFollowups(check)
  <2>1. queue # <<>>
    BY <1>4 DEF TakeTerminalCheck, Popped
  <2>2. PICK s \in Sent(F) : Enqueue(s, Cardinality(F), Tail(queue))
    BY <1>4 DEF TakeTerminalCheck
  <2>3. F \in SUBSET Unit /\ Tail(queue) \in Seq(Unit)
    BY <1>1, <2>1, Popping, FollowupsAreUnits
  <2> HIDE DEF F
  <2>4. \A u : InQueue(u, queue') <=> InQueue(u, Tail(queue)) \/ u \in F
    BY <2>2, <2>3, Pushed
  <2> QED BY <1>1, <1>4, <2>1, <2>4, Popping DEF F
<1>5. ASSUME NEW out \in TerminalUnitStatus, Finish(w, out)
      PROVE  \A u : InQueue(u, queue') =>
                InQueue(u, queue) \/ u \in ReadyFollowups(Settled(w, out))
  <2> DEFINE F == ReadyFollowups(Settled(w, out))
  <2>1. PICK s \in Sent(F) : Enqueue(s, Cardinality(F), queue)
    BY <1>5 DEF Finish
  <2>2. F \in SUBSET Unit
    BY FollowupsAreUnits
  <2> HIDE DEF F
  <2>3. \A u : InQueue(u, queue') <=> InQueue(u, queue) \/ u \in F
    BY <1>1, <2>1, <2>2, Pushed
  <2> QED BY <2>3 DEF F
<1>6. CASE Claim(w) \/ ClaimLost(w) \/ Start(w) \/ Commit(w)
  BY <1>2, <1>6 DEF Claim, ClaimLost, Start, Commit
<1> QED BY <1>3, <1>4, <1>5, <1>6 DEF WorkerStep

LEMMA JobsDueStep ==
    ASSUME Steady, Untouched, JobsDue, DueInTime, faults = 0, faults' = 0,
           [Next]_vars
    PROVE  JobsDue'
<1> USE DEF db, worker, counters
<1>0. /\ queue \in Seq(Unit) /\ WorkersOK /\ NoRunNoWork
      /\ \A w \in Worker : ~Crash(w) /\ ~WorkerVictim(w)
  BY NoFault DEF Steady, TypeOK, SubmitOK, Ownership
<1>1. /\ \A u \in Unit : InQueue(u, queue) => Due(u)
      /\ \A w \in Worker : pc[w] = "claiming" => Due(job[w])
  BY DEF JobsDue
<1>2. CASE SubmitAbort \/ Commission \/ UNCHANGED vars
  <2>1. UNCHANGED <<queue, check, pc, job, tx>>
    BY <1>2 DEF SubmitAbort, Commission, KanbanAdvance, ManualScreeningPassed,
       RevisionRequired, Moves, vars
  <2>2. \A u : Due(u) => Due(u)'
    BY <2>1 DEF Due, Follows, Ended
  <2> QED BY <1>1, <2>1, <2>2 DEF JobsDue
<1>3. CASE Submit
  <2>1. run = "absent" /\ \A w \in Worker : pc[w] = "idle"
    BY <1>0, <1>3 DEF Submit, SubmitPush, SubmitCommit, NoRunNoWork
  <2>2. \A u \in Unit : InQueue(u, queue') => u \in FirstWave
    <3>1. CASE SubmitCommit
      BY <2>1, <3>1 DEF SubmitCommit, Untouched
    <3>2. ASSUME NEW x \in Unit, SubmitPush(x)
          PROVE  \A u \in Unit : InQueue(u, queue') => u \in FirstWave
      <4>1. x \in FirstWave /\ queue' = Append(queue, x)
        BY <3>2 DEF SubmitPush
      <4>2. \A u : InQueue(u, queue') => u = x \/ InQueue(u, queue)
        BY <1>0, <4>1 DEF InQueue
      <4> QED BY <2>1, <4>1, <4>2 DEF Untouched
    <3> QED BY <1>3, <3>1, <3>2 DEF Submit
  <2>3. pc' = pc
    BY <1>3 DEF Submit, SubmitPush, SubmitCommit
  <2>4. \A u \in FirstWave : Due(u)'
    BY FirstWaveDue DEF Due
  <2> QED BY <2>1, <2>2, <2>3, <2>4 DEF JobsDue
<1>4. ASSUME NEW w \in Worker, WorkerStep(w)
      PROVE  JobsDue'
  <2>1. \A u \in Unit : Due(u) => Due(u)'
    BY <1>4, DueStays
  <2>2. ASSUME NEW u \in Unit, InQueue(u, queue')
        PROVE  Due(u)'
    BY <1>1, <1>4, <2>1, <2>2, QueueAfter, PushedDue
  <2>3. ASSUME NEW v \in Worker, pc'[v] = "claiming",
               NEW u, u = job'[v]
        PROVE  Due(u)'
    <3>1. CASE v = w /\ TakeUnit(w)
      <4>1. u = Head(queue) /\ queue # <<>>
        BY <1>0, <2>3, <3>1 DEF TakeUnit, WorkersOK, Popped
      <4>2. u \in Unit /\ InQueue(u, queue)
        BY <1>0, <4>1, Popping
      <4> QED BY <1>1, <2>1, <4>2
    <3>2. CASE ~(v = w /\ TakeUnit(w))
      <4>1. pc[v] = "claiming" /\ job'[v] = job[v]
        <5>1. CASE v # w
          BY <1>4, <2>3, <5>1, WorkerStepFrame DEF Steady
        <5>2. CASE v = w
          BY <1>0, <1>4, <2>3, <3>2, <5>2 DEF WorkersOK, WorkerStep,
             TakeRunNotFound, TakeBatchComplete, TakeTerminalCheck, Claim,
             ClaimLost, Start, Finish, Commit, Popped
        <5> QED BY <5>1, <5>2
      <4>2. Due(u) /\ u \in Unit
        BY <1>0, <1>1, <2>3, <4>1 DEF WorkersOK
      <4> QED BY <2>1, <4>2
    <3> QED BY <3>1, <3>2
  <2> QED BY <2>2, <2>3 DEF JobsDue, Due, Follows
<1> QED BY <1>0, <1>2, <1>3, <1>4, AloneNext DEF Steady

\* What is claimed may be executed.
LEMMA DueExecutes ==
    ASSUME Steady, JobsDue, DueInTime, faults = 0, faults' = 0,
           NEW w \in Worker, WorkerStep(w), NEW v \in Worker,
           pc'[v] \in {"starting", "running", "finishing"}
    PROVE  DependenciesMet(job'[v], check')
<1> USE DEF db, worker, counters
<1>1. WorkersOK
  BY DEF Steady, TypeOK
<1>2. CASE v # w
  <2>1. pc'[v] = pc[v] /\ job'[v] = job[v] /\ job[v] \in Unit
    BY <1>1, <1>2, WorkerStepFrame DEF Steady, WorkersOK
  <2> QED BY <2>1, MetStays DEF DueInTime
<1>3. CASE v = w /\ Claim(w)
  <2>1. /\ job'[w] = job[w] /\ job[w] \in Unit /\ pc[w] = "claiming"
        /\ lock[job[w]] \in {Nobody, w}
    BY <1>1, <1>3 DEF Claim, WorkersOK, Free
  <2>2. ASSUME NEW x \in Worker, Follows(x, job[w]) PROVE FALSE
    <3>1. lock[job[w]] = x
      BY <2>2 DEF Follows, Steady, Ownership, LockDiscipline, WorkerLocks
    <3>2. x # Nobody /\ x # w
      BY <2>1, <2>2, PipelineAssumption DEF Follows
    <3> QED BY <2>1, <3>1, <3>2
  <2>3. DependenciesMet(job[w], check)
    BY <2>1, <2>2 DEF JobsDue, Due
  <2> QED BY <1>3, <2>1, <2>3, MetStays
<1>4. CASE v = w /\ ~Claim(w)
  <2>1. /\ pc[w] \in {"starting", "running"}
        /\ job'[w] = job[w] /\ job[w] \in Unit
    <3>1. pc[w] # "detached"
      BY DEF Steady, Ownership, LockDiscipline, WorkerLocks
    <3> QED BY <1>1, <1>4, <3>1 DEF WorkersOK, WorkerStep, TakeRunNotFound,
         TakeBatchComplete, TakeTerminalCheck, TakeUnit, ClaimLost, Start,
         Finish, Commit, Popped
  <2> QED BY <1>4, <2>1, MetStays DEF DueInTime
<1> QED BY <1>2, <1>3, <1>4

\* What is queued may be executed.
LEMMA DueQueued ==
    ASSUME Steady, DueInTime, NEW w \in Worker, WorkerStep(w),
           NEW u \in Unit, check'[u] = "queued"
    PROVE  DependenciesMet(u, check')
<1> USE DEF db, worker, counters
<1>1. check \in [Unit -> UnitStatus] /\ WorkersOK
  BY DEF Steady, TypeOK, RowsOK
<1>2. CASE check[u] = "queued"
  BY <1>2, MetStays DEF DueInTime
<1>3. CASE TakeTerminalCheck(w) /\ check[u] # "queued"
  <2>1. u \in ReadyFollowups(check)
    BY <1>1, <1>3 DEF TakeTerminalCheck
  <2>2. DependenciesMet(u, check)
    BY <2>1 DEF ReadyFollowups
  <2> QED BY <2>2, MetStays
<1>4. CASE Commit(w) /\ check[u] # "queued"
  <2>1. /\ check' = Ended(w) /\ pc[w] = "finishing"
        /\ tx[w].out \in TerminalUnitStatus
    BY <1>1, <1>4 DEF Commit, Ended, WorkersOK, UnitTx
  <2>2. Follows(w, u)
    BY <1>4, <2>1, Terminals DEF Ended, Follows
  <2>3. DependenciesMet(u, Ended(w))
    BY <2>2 DEF DueInTime
  <2> QED BY <2>1, <2>3
<1>5. CASE ~TakeTerminalCheck(w) /\ ~Commit(w) /\ check[u] # "queued"
  BY <1>5 DEF WorkerStep, TakeRunNotFound, TakeBatchComplete, TakeUnit, Claim,
     ClaimLost, Start, Finish
<1> QED BY <1>2, <1>3, <1>4, <1>5

\* What a commit is about to queue may be executed from then on.
LEMMA DueFollows ==
    ASSUME Steady, DueInTime, NEW w \in Worker, WorkerStep(w),
           NEW v \in Worker, NEW u \in Unit, Follows(v, u)'
    PROVE  DependenciesMet(u, Ended(v)')
<1>1. check \in [Unit -> UnitStatus] /\ WorkersOK
  BY DEF Steady, TypeOK, RowsOK
<1>2. CASE v # w /\ Follows(v, u)
  BY <1>2, MetAtEndStays DEF DueInTime, Follows
<1>3. ASSUME NEW out \in TerminalUnitStatus, Finish(w, out),
             u \in Touched(w, out), v = w
      PROVE  DependenciesMet(u, Ended(v)')
  <2> USE DEF db, worker, counters
  <2>1. job[w] \in Unit /\ UNCHANGED <<job, check>>
    BY <1>1, <1>3 DEF Finish, WorkersOK
  <2>2. tx'[w].out = out /\ tx'[w].follow = Touched(w, out)
    BY <1>1, <1>3, Zenon DEF Finish, WorkersOK
  <2>3. DependenciesMet(u, Settled(w, out))
    BY <1>3 DEF Touched, ReadyFollowups
  <2>4. \A d \in Unit : Settled(w, out)[d] \in TerminalUnitStatus =>
                           Ended(w)'[d] \in TerminalUnitStatus
    <3>1. \A d \in Unit : Settled(w, out)[d] = IF d = job[w] THEN out ELSE check[d]
      BY <1>1, <2>1 DEF Settled
    <3>2. \A d \in Touched(w, out) : check[d] = "pending"
      BY DEF Touched
    <3>3. Ended(w)' = [d \in Unit |-> IF d = job[w] THEN out
                      ELSE IF d \in Touched(w, out) THEN "queued" ELSE check[d]]
      BY <2>1, <2>2 DEF Ended
    <3> QED BY <3>1, <3>2, <3>3, Terminals
  <2>5. DependenciesMet(u, Ended(w)')
    BY <2>3, <2>4, PolicyAssumption DEF DependenciesMet
  <2> QED BY <1>3, <2>5
<1> QED BY <1>2, <1>3, FollowsAfter

LEMMA DueInTimeStep ==
    ASSUME Steady, JobsDue, DueInTime, faults = 0, faults' = 0, [Next]_vars
    PROVE  DueInTime'
<1> USE DEF db, worker, counters
<1>0. \A w \in Worker : ~Crash(w) /\ ~WorkerVictim(w)
  BY NoFault
<1>1. CASE SubmitAbort \/ Commission \/ UNCHANGED vars
  <2>1. UNCHANGED <<check, pc, job, tx>>
    BY <1>1 DEF SubmitAbort, Commission, KanbanAdvance, ManualScreeningPassed,
       RevisionRequired, Moves, vars
  <2> QED BY <2>1 DEF DueInTime, Follows, Ended
<1>2. CASE Submit
  <2>1. /\ \A w \in Worker : pc'[w] = "idle"
        /\ \A w \in Worker : pc[w] = "idle"
    BY <1>2 DEF Submit, SubmitPush, SubmitCommit, Steady, Ownership, NoRunNoWork
  <2>2. ASSUME NEW u \in Unit, check'[u] = "queued"
        PROVE  DependenciesMet(u, check')
    <3>1. CASE SubmitCommit
      <4>1. u \in FirstWave
        BY <2>2, <3>1 DEF SubmitCommit
      <4> QED BY <4>1, FirstWaveDue
    <3>2. CASE check' = check
      BY <2>2, <3>2 DEF DueInTime
    <3> QED BY <1>2, <3>1, <3>2 DEF Submit, SubmitPush
  <2> QED BY <2>1, <2>2 DEF DueInTime, Follows
<1>3. ASSUME NEW w \in Worker, WorkerStep(w)
      PROVE  DueInTime'
  <2>1. ASSUME NEW v \in Worker,
               pc'[v] \in {"starting", "running", "finishing"}
        PROVE  DependenciesMet(job'[v], check')
    BY <1>3, <2>1, DueExecutes
  <2>2. ASSUME NEW u \in Unit, check'[u] = "queued"
        PROVE  DependenciesMet(u, check')
    BY <1>3, <2>2, DueQueued
  <2>3. ASSUME NEW v \in Worker, NEW u \in Unit, Follows(v, u)'
        PROVE  DependenciesMet(u, Ended(v)')
    BY <1>3, <2>3, DueFollows
  <2> QED BY <2>1, <2>2, <2>3 DEF DueInTime
<1> QED BY <1>0, <1>1, <1>2, <1>3, AloneNext DEF Steady

\* What is promised keeps its job, or has just got it.
LEMMA JobsKeptStep ==
    ASSUME Steady, Untouched, JobsDue, DueInTime, JobsKept,
           faults = 0, faults' = 0, [Next]_vars
    PROVE  JobsKept'
<1> USE DEF db, worker, counters
<1>0. /\ queue \in Seq(Unit) /\ WorkersOK /\ NoRunNoWork
      /\ check \in [Unit -> UnitStatus]
      /\ \A w \in Worker : ~Crash(w) /\ ~WorkerVictim(w)
  BY NoFault DEF Steady, TypeOK, SubmitOK, Ownership, RowsOK
<1>1. CASE SubmitAbort \/ Commission \/ UNCHANGED vars
  <2>1. UNCHANGED <<queue, check, pc, job, tx>>
    BY <1>1 DEF SubmitAbort, Commission, KanbanAdvance, ManualScreeningPassed,
       RevisionRequired, Moves, vars
  <2> QED BY <2>1 DEF JobsKept, Promised, HasJob, Follows
<1>2. CASE Submit
  <2>1. /\ \A w \in Worker : pc'[w] = "idle"
        /\ \A u \in Unit : check[u] = "pending"
    BY <1>0, <1>2 DEF Submit, SubmitPush, SubmitCommit, NoRunNoWork, Untouched
  <2>2. \A u \in Unit \ FirstWave : check'[u] # "queued"
    BY <1>2, <2>1 DEF Submit, SubmitPush, SubmitCommit
  <2> QED BY <2>1, <2>2 DEF JobsKept, Promised, Follows
<1>3. ASSUME NEW w \in Worker, WorkerStep(w), NEW u \in Unit \ FirstWave,
             Promised(u)'
      PROVE  HasJob(u)'
  <2> DEFINE Others == \A v \in Worker \ {w} : job'[v] = job[v]
  <2>0. Others
    BY <1>3, WorkerStepFrame DEF Steady
  <2> HIDE DEF Others
  <2>1. CASE TakeRunNotFound(w)
    <3>1. /\ check[u] = "pending" /\ UNCHANGED <<check, pc>>
          /\ \A v \in Worker : pc[v] = "idle"
      BY <1>0, <2>1 DEF TakeRunNotFound, NoRunNoWork, Untouched
    <3> QED BY <1>3, <3>1 DEF Promised, Follows
  <2>2. CASE TakeBatchComplete(w)
    <3>1. AllTerminal(check) /\ UNCHANGED <<check, pc, tx>>
      BY <2>2, RunStatusEnds DEF TakeBatchComplete
    <3>2. ASSUME NEW v \in Worker, pc[v] = "finishing" PROVE FALSE
      <4>1. check[job[v]] \in {"pending", "queued"} /\ job[v] \in Unit
        BY <1>0, <3>2 DEF Steady, Holding, Ownership, ClaimStands, WorkersOK
      <4> QED BY <3>1, <4>1, Terminals DEF AllTerminal
    <3>3. check'[u] # "queued"
      BY <3>1, Terminals DEF AllTerminal
    <3> QED BY <1>3, <3>1, <3>2, <3>3 DEF Promised, Follows
  <2>3. CASE TakeTerminalCheck(w)
    <3> DEFINE F == ReadyFollowups(check)
    <3>1. queue # <<>> /\ UNCHANGED <<pc, tx, job>>
          /\ check[Head(queue)] \in TerminalUnitStatus
      BY <2>3 DEF TakeTerminalCheck, Popped
    <3>2. PICK s \in Sent(F) : Enqueue(s, Cardinality(F), Tail(queue))
      BY <2>3 DEF TakeTerminalCheck
    <3>3. F \in SUBSET Unit /\ Tail(queue) \in Seq(Unit)
      BY <1>0, <3>1, Popping, FollowupsAreUnits
    <3>4. check'[u] = "queued" => check[u] = "queued" \/ u \in F
      BY <1>0, <2>3 DEF TakeTerminalCheck
    <3> HIDE DEF F
    <3>5. InQueue(u, queue') <=> InQueue(u, Tail(queue)) \/ u \in F
      BY <3>2, <3>3, Pushed
    <3>6. CASE u \in F
      BY <3>5, <3>6 DEF HasJob
    <3>7. CASE Promised(u)
      <4>1. u # Head(queue)
        BY <3>1, <3>7, Terminals DEF Promised, Follows, Steady, Holding
      <4>2. HasJob(u)
        BY <3>7 DEF JobsKept
      <4> QED BY <1>0, <3>1, <3>5, <4>1, <4>2, Popping DEF HasJob
    <3> QED BY <1>3, <3>1, <3>4, <3>6, <3>7 DEF Promised, Follows
  <2>4. ASSUME NEW out \in TerminalUnitStatus, Finish(w, out)
        PROVE  HasJob(u)'
    <3> DEFINE F == ReadyFollowups(Settled(w, out))
    <3>1. check' = check /\ job' = job
      BY <2>4 DEF Finish
    <3>2. PICK s \in Sent(F) : Enqueue(s, Cardinality(F), queue)
      BY <2>4 DEF Finish
    <3>3. F \in SUBSET Unit
      BY FollowupsAreUnits
    <3>4. tx'[w].follow = Touched(w, out)
      BY <1>0, <2>4, Zenon DEF Finish, WorkersOK
    <3>5. Follows(w, u)' => u \in F
      BY <3>4 DEF Follows, Touched
    <3>6. \A v \in Worker \ {w} : Follows(v, u)' => Follows(v, u)
      BY <1>3, FollowsAfter
    <3> HIDE DEF F
    <3>7. InQueue(u, queue') <=> InQueue(u, queue) \/ u \in F
      BY <1>0, <3>2, <3>3, Pushed
    <3>8. CASE u \in F
      BY <3>7, <3>8 DEF HasJob
    <3>9. CASE Promised(u)
      BY <3>1, <3>7, <3>9 DEF HasJob, JobsKept
    <3> QED BY <1>3, <3>1, <3>5, <3>6, <3>8, <3>9 DEF Promised
  <2>5. CASE Commit(w)
    <3>1. /\ check' = Ended(w) /\ pc[w] = "finishing" /\ queue' = queue
          /\ tx[w].out \in TerminalUnitStatus
      BY <1>0, <2>5 DEF Commit, Ended, WorkersOK, UnitTx
    <3>2. \A v \in Worker : ~Follows(v, u)'
      <4> SUFFICES ASSUME NEW v \in Worker, Follows(v, u)' PROVE FALSE
        OBVIOUS
      <4>1. v # w
        BY <1>0, <2>5 DEF Follows, Commit, WorkersOK
      <4>2. Follows(v, u)
        BY <1>3, <4>1, FollowsAfter DEF Commit, Finish, Follows
      <4> QED BY <3>1, <4>1, <4>2, OneExecutes DEF Follows, Steady
    <3>3. check'[u] = "queued"
      BY <1>3, <3>2 DEF Promised
    <3>4. u # job[w] /\ (check[u] = "queued" \/ Follows(w, u))
      BY <3>1, <3>3, Terminals DEF Ended, Follows
    <3>5. HasJob(u)
      BY <3>4 DEF JobsKept, Promised
    <3> QED BY <2>0, <3>1, <3>4, <3>5 DEF HasJob, Others
  <2>6. CASE TakeUnit(w) \/ Claim(w) \/ ClaimLost(w) \/ Start(w)
    <3>1. check' = check /\ \A v \in Worker : Follows(v, u)' => Follows(v, u)
      <4>1. check' = check
        BY <2>6 DEF TakeUnit, Claim, ClaimLost, Start
      <4>2. \A out \in TerminalUnitStatus : ~Finish(w, out)
        BY <2>6 DEF TakeUnit, Claim, ClaimLost, Start, Finish, Popped
      <4> QED BY <1>3, <4>1, <4>2, FollowsAfter
    <3>2. Promised(u) /\ HasJob(u)
      BY <1>3, <3>1 DEF Promised, JobsKept
    <3>3. CASE TakeUnit(w)
      <4>1. /\ queue # <<>> /\ queue' = Tail(queue) /\ job'[w] = Head(queue)
            /\ pc[w] = "idle"
        BY <1>0, <3>3 DEF TakeUnit, Popped, WorkersOK
      <4>2. job[w] = u => FALSE
        BY <4>1, PipelineAssumption DEF Steady, Unemployed
      <4> QED BY <1>0, <2>0, <3>2, <4>1, <4>2, Popping DEF HasJob, Others
    <3>4. CASE Claim(w) \/ Start(w)
      <4>1. job' = job /\ queue' = queue
        BY <3>4 DEF Claim, Start
      <4> QED BY <3>2, <4>1 DEF HasJob
    <3>5. CASE ClaimLost(w)
      <4>1. queue' = queue /\ check[job[w]] \notin {"pending", "queued"}
        BY <3>5 DEF ClaimLost
      <4>2. job[w] # u
        BY <3>2, <4>1 DEF Promised, Follows, Steady, Holding
      <4> QED BY <2>0, <3>2, <4>1, <4>2 DEF HasJob, Others
    <3> QED BY <2>6, <3>3, <3>4, <3>5
  <2> QED BY <1>3, <2>1, <2>2, <2>3, <2>4, <2>5, <2>6 DEF WorkerStep
<1> QED BY <1>0, <1>1, <1>2, <1>3, AloneNext DEF Steady, JobsKept

LEMMA InOrderStep ==
    ASSUME Steady, InOrder, [Next]_vars
    PROVE  InOrder'
<1>1. Untouched'
  BY UntouchedStep DEF InOrder
<1>2. ASSUME faults' = 0 PROVE (JobsDue /\ DueInTime /\ JobsKept)'
  <2>1. faults = 0
    BY <1>2, FaultsCount DEF Steady
  <2>2. Untouched /\ JobsDue /\ DueInTime /\ JobsKept
    BY <2>1 DEF InOrder
  <2> QED BY <1>2, <2>1, <2>2, JobsDueStep, DueInTimeStep, JobsKeptStep
<1> QED BY <1>1, <1>2 DEF InOrder

LEMMA InitSteady == Init => Alone /\ Tidy /\ Unemployed /\ InOrder
<1> SUFFICES ASSUME Init PROVE Alone /\ Tidy /\ Unemployed /\ InOrder
  OBVIOUS
<1>1. /\ \A w \in Worker : pc[w] = "idle" /\ job[w] = NoUnit
      /\ \A u \in Unit : check[u] = "pending"
      /\ \A r \in Row : lock[r] = Nobody
      /\ \A w \in Worker : w # Nobody
  BY PipelineAssumption DEF Init
<1>2. \A u : ~InQueue(u, queue)
  BY DEF Init, InQueue
<1>3. Alone
  BY DEF Init, Alone
<1>4. Tidy /\ Unemployed
  BY <1>1 DEF Tidy, Unemployed
<1>5. InOrder
  BY <1>1, <1>2 DEF InOrder, Untouched, JobsDue, DueInTime, JobsKept, Follows,
     Promised
<1> QED BY <1>3, <1>4, <1>5

\* The inductive invariant of the workers alone.
WorkersAlone == Alone /\ Tidy /\ Unemployed /\ InOrder

\* Where only the workers are at work, they lock no more than the rows they
\* write, a job is of a unit whose dependencies have ended, and each unit that
\* is queued has a job (enqueue_ready_followup_jobs).
THEOREM WorkersAloneHolds ==
    ASSUME Clock = {}, External = {}, MidCommit = {}
    PROVE  Spec => []WorkersAlone
<1>1. "stale" \notin Clock
  OBVIOUS
<1>2. Spec => []RunInv
  BY <1>1, RunInvHolds
<1>3. Spec => [](Agreement /\ Queueing)
  BY <1>1, AgreementHolds
<1>4. /\ WorkersAlone /\ TypeOK /\ Ownership /\ RunInv /\ Agreement /\ Queueing
      /\ [Next]_vars
      => WorkersAlone'
  <2> SUFFICES ASSUME WorkersAlone, TypeOK, Ownership, RunInv, Queueing,
                      [Next]_vars
               PROVE  WorkersAlone'
    OBVIOUS
  <2>1. Steady /\ InOrder
    BY DEF Steady, WorkersAlone, RunInv
  <2>2. Alone' /\ Tidy' /\ Unemployed'
    BY AloneStep, TidyStep, UnemployedStep DEF WorkersAlone
  <2>3. InOrder'
    BY <2>1, InOrderStep
  <2> QED BY <2>2, <2>3 DEF WorkersAlone
<1>5. Init => WorkersAlone
  BY InitSteady DEF WorkersAlone
<1> QED BY <1>2, <1>3, <1>4, <1>5, OwnershipHolds, PTL DEF Spec

\* Where only the workers are at work, and their processors do not commit half
\* way, followups are carried on: whoever commits the last dependency of a unit
\* queues it, and what is queued has a job unless a crash or a failed push has
\* lost it.
THEOREM FollowupsAreCarried ==
    ASSUME Clock = {}, External = {}, MidCommit = {}
    PROVE  Spec => []FollowupsCarried
<1>1. "stale" \notin Clock
  OBVIOUS
<1>2. Spec => [](Agreement /\ Queueing)
  BY <1>1, AgreementHolds
<1>3. Spec => []WorkersAlone
  BY WorkersAloneHolds
<1>4. WorkersAlone /\ Queueing => FollowupsCarried
  <2> SUFFICES ASSUME WorkersAlone, Queueing PROVE FollowupsCarried
    OBVIOUS
  <2>1. Calm /\ InOrder
    BY DEF WorkersAlone, Alone, Calm
  <2>2. NoStrandedFollowup
    BY <2>1 DEF Queueing, Carried, NoStrandedFollowup
  <2>3. QueuedFollowupHasJob
    BY <2>1 DEF InOrder, JobsKept, Promised, HasJob, InQueue,
       QueuedFollowupHasJob
  <2> QED BY <2>2, <2>3 DEF FollowupsCarried
<1> QED BY <1>2, <1>3, <1>4, PTL

-----------------------------------------------------------------------------
(* The workers alone implement the promise.                                *)

\* What the commission and faults are forbidden here.
Untroubled == Steady /\ WorkersAlone /\ RunInv /\ Agreement
              /\ MaxFaults = 0 /\ MaxMoves = 0

LEMMA NothingElse ==
    ASSUME Untroubled, [Next]_vars, faults = 0
    PROVE  /\ Submit \/ (\E w \in Worker : WorkerStep(w)) \/ UNCHANGED vars
           /\ faults' = 0
           /\ DueInTime
<1> USE DEF db, worker, counters
<1>1. moves \in Nat /\ faults \in Nat
  BY DEF Untroubled, Steady, TypeOK, ClockOK
<1>2. ~Commission
  BY <1>1 DEF Untroubled, Commission, KanbanAdvance, ManualScreeningPassed,
     RevisionRequired, Moves
<1>3. ~SubmitAbort /\ \A w \in Worker : ~Crash(w)
  BY <1>1 DEF Untroubled, SubmitAbort, Crash
<1>4. DueInTime
  BY DEF Untroubled, WorkersAlone, InOrder
<1>5. \A w \in Worker : ~WorkerVictim(w)
  BY <1>4, NoDeadlock, SteadyCarries DEF Untroubled, Steady, WorkerVictim
<1>6. Submit \/ (\E w \in Worker : WorkerStep(w)) \/ UNCHANGED vars
  BY <1>2, <1>3, <1>5, AloneNext DEF Untroubled, Steady
<1>7. faults' = 0
  <2>1. \A s, n, q : Enqueue(s, n, q) => faults' = 0
    BY <1>1 DEF Untroubled, Enqueue
  <2>2. ASSUME NEW w \in Worker, WorkerStep(w) PROVE faults' = 0
    <3>1. CASE TakeTerminalCheck(w)
      BY <2>1, <3>1 DEF TakeTerminalCheck
    <3>2. ASSUME NEW out \in TerminalUnitStatus, Finish(w, out)
          PROVE  faults' = 0
      BY <2>1, <3>2 DEF Finish
    <3> QED BY <2>2, <3>1, <3>2 DEF WorkerStep, TakeRunNotFound,
         TakeBatchComplete, TakeUnit, Claim, ClaimLost, Start, Commit
  <2> QED BY <1>6, <2>2 DEF vars, Submit, SubmitPush, SubmitCommit
<1> QED BY <1>4, <1>6, <1>7

\* The mapped outcomes.
Outcome(s) ==
    [u \in Unit |-> IF s[u] \in TerminalUnitStatus THEN s[u] ELSE "open"]

LEMMA OpenIsNotEnded == "open" \notin TerminalUnitStatus
BY DEF TerminalUnitStatus

LEMMA OutcomeEnds ==
    ASSUME NEW s
    PROVE  /\ Promise!AllTerminal(Outcome(s)) <=> AllTerminal(s)
           /\ AllTerminal(s) => Promise!RunStatusOf(Outcome(s)) = RunStatusOf(s)
           /\ \A u \in Unit :
                 DependenciesMet(u, s) => Promise!DependenciesMet(u, Outcome(s))
<1>1. Promise!TerminalUnitStatus = TerminalUnitStatus
  BY DEF Promise!TerminalUnitStatus, TerminalUnitStatus
<1>2. Promise!AllTerminal(Outcome(s)) <=> AllTerminal(s)
  BY <1>1, OpenIsNotEnded DEF Promise!AllTerminal, AllTerminal, Outcome
<1>3. ASSUME AllTerminal(s)
      PROVE  Promise!RunStatusOf(Outcome(s)) = RunStatusOf(s)
  <2>1. \A u \in Unit : Outcome(s)[u] = s[u]
    BY <1>3 DEF AllTerminal, Outcome
  <2>2. {Outcome(s)[u] : u \in Unit} = {s[u] : u \in Unit}
    BY <2>1
  <2>3. (\E u \in Required : Outcome(s)[u] = "failed")
           <=> \E u \in Required : s[u] = "failed"
    BY <2>1, PolicyAssumption
  <2> QED BY <1>2, <1>3, <2>2, <2>3 DEF Promise!RunStatusOf, RunStatusOf
<1>4. ASSUME NEW u \in Unit, DependenciesMet(u, s)
      PROVE  Promise!DependenciesMet(u, Outcome(s))
  BY <1>1, <1>4, PolicyAssumption
     DEF Promise!DependenciesMet, DependenciesMet, Outcome
<1> QED BY <1>2, <1>3, <1>4

LEMMA ScreenedStep ==
    ASSUME Untroubled, Screened, [Next]_vars, faults = 0
    PROVE  Screened'
<1> USE DEF db, worker, counters
<1>0. /\ WorkersOK /\ NoRunNoWork /\ check \in [Unit -> UnitStatus]
      /\ \A w \in Worker : w \in Worker
  BY DEF Untroubled, Steady, TypeOK, Ownership, RowsOK
<1>1. CASE UNCHANGED vars
  BY <1>1 DEF Screened, vars
<1>2. CASE Submit
  <2>1. CASE SubmitCommit
    BY <1>0, <2>1 DEF Screened, SubmitCommit, NoRunNoWork
  <2>2. ASSUME NEW x \in Unit, SubmitPush(x) PROVE Screened'
    BY <2>2 DEF Screened, SubmitPush
  <2> QED BY <1>2, <2>1, <2>2 DEF Submit
<1>3. ASSUME NEW w \in Worker, WorkerStep(w)
      PROVE  Screened'
  <2>1. \A v \in Worker \ {w} : pc'[v] = pc[v] /\ tx'[v] = tx[v]
    BY <1>3, WorkerStepFrame DEF Untroubled, Steady
  <2>2. CASE TakeRunNotFound(w) \/ TakeBatchComplete(w) \/ Claim(w)
             \/ Start(w)
    BY <1>0, <2>2 DEF Screened, TakeRunNotFound, TakeBatchComplete, Claim,
       Start, WorkersOK
  <2>3. CASE ClaimLost(w)
    BY <1>0, <2>1, <2>3 DEF Screened, ClaimLost, WorkersOK
  <2>4. CASE TakeTerminalCheck(w)
    <3>1. ~AllTerminal(check') => ~AllTerminal(check)
      BY <1>0, <2>4, Terminals DEF TakeTerminalCheck, AllTerminal, ReadyFollowups
    <3>2. UNCHANGED <<run, app, stage, card, pc, tx>>
      BY <2>4 DEF TakeTerminalCheck
    <3> QED BY <3>1, <3>2 DEF Screened
  <2>5. CASE TakeUnit(w)
    <3>1. ~AllTerminal(check)
      BY <2>5, RunStatusEnds DEF TakeUnit
    <3>2. /\ UNCHANGED <<run, app, stage, card, check>> /\ run # "absent"
          /\ tx'[w].app = app
      BY <1>0, <2>5 DEF TakeUnit, WorkersOK, UnitTx
    <3> QED BY <2>1, <3>1, <3>2 DEF Screened
  <2>6. ASSUME NEW out \in TerminalUnitStatus, Finish(w, out)
        PROVE  Screened'
    <3>1. UNCHANGED <<run, app, stage, card, check>> /\ pc[w] = "running"
      <4>1. pc[w] # "detached"
        BY DEF Untroubled, Steady, Ownership, LockDiscipline, WorkerLocks
      <4> QED BY <2>6, <4>1 DEF Finish
    <3>2. tx'[w].app = tx[w].app
      BY <1>0, <2>6, <3>1, Zenon DEF Finish, WorkersOK
    <3> QED BY <2>1, <3>1, <3>2 DEF Screened
  <2>7. CASE Commit(w)
    <3>1. /\ run # "absent" /\ run' # "absent"
      <4>1. run # "absent"
        BY <1>0, <2>7 DEF NoRunNoWork, Commit
      <4>2. tx[w].agg # "absent"
        BY <1>0 DEF WorkersOK, UnitTx, RunStatus, ActiveRunStatus,
           TerminalRunStatus
      <4> QED BY <2>7, <4>1, <4>2 DEF Commit
    <3>2. check[job[w]] \notin TerminalUnitStatus /\ job[w] \in Unit
          /\ check' = Ended(w) /\ pc[w] = "finishing"
      BY <1>0, <2>7, Terminals DEF Untroubled, Steady, Holding, Ownership,
         ClaimStands, Commit, WorkersOK, Ended
    <3>3. app = "initial_screening"
      BY <3>1, <3>2 DEF Screened, AllTerminal
    <3>4. ASSUME ~AllTerminal(check') PROVE app' = "initial_screening"
      <4>1. tx[w].agg # "ready"
        BY <3>2, <3>4, RunStatusEnds DEF Untroubled, Agreement, Calm,
           WorkersAlone, Alone, GoesBy, Agrees, TerminalRunStatus,
           ActiveRunStatus
      <4>2. ~tx[w].advance
        BY <3>2, <4>1 DEF Untroubled, RunInv, Ready
      <4> QED BY <2>7, <3>3, <4>2 DEF Commit
    <3>5. pc'[w] = "idle"
      BY <1>0, <2>7 DEF Commit, WorkersOK
    <3> QED BY <2>1, <3>1, <3>4, <3>5 DEF Screened
  <2> QED BY <1>3, <2>2, <2>3, <2>4, <2>5, <2>6, <2>7 DEF WorkerStep
<1> QED BY <1>1, <1>2, <1>3, NothingElse

\* The card of a run that goes on, and of one that needs a look.
LEMMA OpenCard ==
    ASSUME NEW agg \in ActiveRunStatus
    PROVE  CardOf("initial_screening", StageAfter(agg))
              = Promise!Screening("in_review", FALSE)
<1>1. StageStatusOf(agg) = "in_review"
  BY DEF StageStatusOf, ActiveRunStatus
<1>2. NeedsManualReview(agg) = FALSE
  BY DEF NeedsManualReview, ActiveRunStatus
<1>3. StageAfter(agg) = [status |-> "in_review", attention |-> FALSE]
  BY <1>1, <1>2, Zenon DEF StageAfter
<1>4. /\ StageAfter(agg).status = "in_review"
      /\ ("initial_screening" = "initial_screening" /\ StageAfter(agg).attention)
            = FALSE
  BY <1>3
<1> QED BY <1>4, Zenon DEF CardOf, Promise!Screening

LEMMA EndedCard ==
    ASSUME NEW agg \in {"partial", "failed"}
    PROVE  CardOf("initial_screening", StageAfter(agg))
              = Promise!Screening("needs_attention", TRUE)
<1>1. StageStatusOf(agg) = "needs_attention"
  BY DEF StageStatusOf, ActiveRunStatus
<1>2. NeedsManualReview(agg) = TRUE
  BY DEF NeedsManualReview
<1>3. StageAfter(agg) = [status |-> "needs_attention", attention |-> TRUE]
  BY <1>1, <1>2, Zenon DEF StageAfter
<1>4. /\ StageAfter(agg).status = "needs_attention"
      /\ ("initial_screening" = "initial_screening" /\ StageAfter(agg).attention)
            = TRUE
  BY <1>3
<1> QED BY <1>4, Zenon DEF CardOf, Promise!Screening

\* A commit ends its unit.
LEMMA CommitEnds ==
    ASSUME Untroubled, Screened, [Next]_vars, Agreement', Calm', DueInTime,
           NEW w \in Worker, Commit(w),
           NEW unit, unit = job[w], NEW end, end = tx[w].out
    PROVE  Promise!End(unit, end)
<1> USE DEF db, worker, counters
<1> DEFINE u == job[w]
           t == tx[w]
<1>0. /\ WorkersOK /\ NoRunNoWork /\ check \in [Unit -> UnitStatus]
      /\ pc[w] = "finishing" /\ u \in Unit /\ t \in UnitTx
      /\ t.out \in TerminalUnitStatus /\ t.agg \in RunStatus
  BY DEF Untroubled, Steady, TypeOK, Ownership, RowsOK, WorkersOK, Commit, UnitTx
<1>1. /\ check[u] \notin TerminalUnitStatus /\ check' = Ended(w)
      /\ \A f \in t.follow : check[f] = "pending"
      /\ run # "absent"
  BY <1>0, Terminals DEF Untroubled, Steady, Holding, Ownership, ClaimStands,
     NoRunNoWork, Commit, Ended
<1>2. app = "initial_screening"
  BY <1>0, <1>1 DEF Screened, AllTerminal
<1>3. Outcome(check)[u] = "open" /\ Promise!DependenciesMet(u, Outcome(check))
  <2>1. DependenciesMet(u, check)
    BY <1>0 DEF DueInTime
  <2> QED BY <1>0, <1>1, <2>1, OutcomeEnds DEF Outcome
<1>4. Outcome(check') = [Outcome(check) EXCEPT ![u] = t.out]
  <2>1. \A v \in Unit : v # u =>
           (check'[v] \in TerminalUnitStatus <=> check[v] \in TerminalUnitStatus)
           /\ (check[v] \in TerminalUnitStatus => check'[v] = check[v])
    BY <1>1, Terminals DEF Ended
  <2>2. check'[u] = t.out
    BY <1>0, <1>1 DEF Ended
  <2> QED BY <1>0, <2>1, <2>2 DEF Outcome
<1>5. /\ Promise!AllTerminal(Outcome(check')) <=> AllTerminal(check')
      /\ AllTerminal(check') => Promise!RunStatusOf(Outcome(check')) = RunStatusOf(check')
  BY OutcomeEnds
<1>6. AllTerminal(check') => run' = RunStatusOf(check')
  BY DEF Agreement, Agrees
<1>7. /\ AllTerminal(check') => t.agg = RunStatusOf(check')
      /\ ~AllTerminal(check') => t.agg \in ActiveRunStatus
  <2>1. Agrees(t.agg, check')
    BY <1>0, <1>1 DEF Untroubled, Agreement, Calm, WorkersAlone, Alone, GoesBy
  <2> QED BY <1>0, <2>1, RunStatusEnds DEF Agrees, RunStatus
<1> DEFINE v == Promise!VerdictOf(Outcome(check'))
<1>8. /\ v = IF AllTerminal(check') THEN run' ELSE "open"
      /\ AllTerminal(check') => v = t.agg /\ t.agg \in TerminalRunStatus
      /\ ~AllTerminal(check') => v = "open" /\ t.agg \in ActiveRunStatus
  BY <1>5, <1>6, <1>7, RunStatusEnds DEF Promise!VerdictOf
<1>9. t.advance <=> v = "ready"
  <2>1. t.advance <=> t.agg = "ready"
    BY <1>0, <1>2 DEF Untroubled, RunInv, Ready
  <2> HIDE DEF v, t
  <2> QED BY <1>8, <2>1 DEF ActiveRunStatus
<1>10. /\ app' = IF t.advance THEN "application_review" ELSE app
       /\ card' = CardOf(IF t.advance THEN "application_review" ELSE t.app,
                         StageAfter(t.agg))
  BY DEF Commit, WorkerCard
<1>11. t.app = "initial_screening"
  BY <1>0 DEF Screened
<1> HIDE DEF v, t, u
<1>12. IF v = "ready"
       THEN app' = "application_review" /\ card' = Promise!Left(app')
       ELSE /\ app' = app
            /\ card' = IF v = "open" THEN Promise!Screening("in_review", FALSE)
                       ELSE Promise!Screening("needs_attention", TRUE)
  <2>1. CASE v = "ready"
    BY <1>9, <1>10, <2>1 DEF CardOf, Promise!Left
  <2>2. CASE v = "open"
    <3>1. t.agg \in ActiveRunStatus
      BY <1>8, <2>2 DEF TerminalRunStatus
    <3>2. CardOf("initial_screening", StageAfter(t.agg))
             = Promise!Screening("in_review", FALSE)
      BY <3>1, OpenCard
    <3> QED BY <1>9, <1>10, <1>11, <2>2, <3>2
  <2>3. CASE v \notin {"ready", "open"}
    <3>1. t.agg \in {"partial", "failed"}
      BY <1>8, <2>3 DEF TerminalRunStatus
    <3>2. CardOf("initial_screening", StageAfter(t.agg))
             = Promise!Screening("needs_attention", TRUE)
      BY <3>1, EndedCard
    <3> QED BY <1>9, <1>10, <1>11, <2>3, <3>2
  <2> QED BY <2>1, <2>2, <2>3
<1>13. (IF AllTerminal(check) THEN run ELSE "open")' = v
  BY <1>8
<1> QED BY <1>2, <1>3, <1>4, <1>12, <1>13 DEF Promise!End, Outcome, u, t, v

\* Every other step is hidden, but the submit.
LEMMA OtherwiseHidden ==
    ASSUME Untroubled, Screened, [Next]_vars, Agreement, Agreement', Calm,
           Calm', faults = 0, \A w \in Worker : ~Commit(w)
    PROVE  Promise!Submit \/ UNCHANGED Promise!vars
<1> USE DEF db, worker, counters
<1>0. /\ check \in [Unit -> UnitStatus] /\ NoRunNoWork
  BY DEF Untroubled, Steady, TypeOK, RowsOK, Ownership
<1>1. ASSUME NEW P, P = (Outcome(check') = Outcome(check)), P,
             AllTerminal(check') <=> AllTerminal(check),
             run' = run \/ ~AllTerminal(check), app' = app, card' = card
      PROVE  UNCHANGED Promise!vars
  BY <1>1 DEF Promise!vars, Outcome
<1>2. CASE SubmitCommit
  <2>1. run = "absent" /\ run' = "pending"
    BY <1>0, <1>2 DEF NoRunNoWork, SubmitCommit
  <2>2. /\ app = "application" /\ app' = "initial_screening"
        /\ stage = [status |-> "none", attention |-> FALSE]
        /\ card' = CardOf("initial_screening", [stage EXCEPT !.status = "new"])
    BY <1>2, <2>1 DEF SubmitCommit, Screened
  <2>3. card' = Promise!Screening("new", FALSE)
    <3>1. stage \in StageRow /\ stage.attention = FALSE
      BY <2>2 DEF Untroubled, Steady, TypeOK, RowsOK
    <3>2. /\ [stage EXCEPT !.status = "new"].status = "new"
          /\ ("initial_screening" = "initial_screening"
                /\ [stage EXCEPT !.status = "new"].attention) = FALSE
      BY <3>1 DEF StageRow
    <3> QED BY <2>2, <3>2, Zenon DEF CardOf, Promise!Screening
  <2>4. \A u \in Unit : check[u] = "pending" /\ check'[u] \in {"pending", "queued"}
    BY <1>2, <2>1 DEF Untroubled, WorkersAlone, InOrder, Untouched, SubmitCommit
  <2>5. Outcome(check') = Outcome(check)
    BY <2>4, Terminals DEF Outcome
  <2>6. ~AllTerminal(check) /\ ~AllTerminal(check')
    BY <2>4, Terminals, PolicyAssumption DEF AllTerminal
  <2> QED BY <2>2, <2>3, <2>5, <2>6 DEF Promise!Submit, Outcome
<1>3. ASSUME NEW u \in Unit, SubmitPush(u)
      PROVE  UNCHANGED Promise!vars
  BY <1>3 DEF SubmitPush, Promise!vars
<1>4. CASE UNCHANGED vars
  BY <1>4 DEF vars, Promise!vars
<1>5. ASSUME NEW w \in Worker, WorkerStep(w)
      PROVE  UNCHANGED Promise!vars
  <2>1. UNCHANGED <<run, app, card>>
    BY <1>5 DEF WorkerStep, TakeRunNotFound, TakeBatchComplete,
       TakeTerminalCheck, TakeUnit, Claim, ClaimLost, Start, Finish
  <2>2. \A u \in Unit : \/ check'[u] = check[u]
                        \/ check[u] = "pending" /\ check'[u] = "queued"
    <3>1. CASE TakeTerminalCheck(w)
      BY <1>0, <3>1 DEF TakeTerminalCheck
    <3>2. CASE ~TakeTerminalCheck(w)
      BY <1>5, <3>2 DEF WorkerStep, TakeRunNotFound, TakeBatchComplete,
         TakeUnit, Claim, ClaimLost, Start, Finish
    <3> QED BY <3>1, <3>2
  <2>3. AllTerminal(check') <=> AllTerminal(check)
    BY <2>2, Terminals DEF AllTerminal
  <2>4. Outcome(check') = Outcome(check)
    BY <2>2, Terminals DEF Outcome
  <2> QED BY <2>1, <2>3, <2>4 DEF Promise!vars, Outcome
<1> QED BY <1>2, <1>3, <1>4, <1>5, NothingElse DEF Submit

LEMMA InitPromised == Init => Promise!Init /\ Screened
<1> SUFFICES ASSUME Init PROVE Promise!Init /\ Screened
  OBVIOUS
<1>1. \A u \in Unit : check[u] = "pending"
  BY DEF Init
<1>2. ~AllTerminal(check)
  BY <1>1, Terminals, PolicyAssumption DEF AllTerminal
<1>3. Outcome(check) = [u \in Unit |-> "open"]
  BY <1>1, Terminals DEF Outcome
<1>4. Promise!Init
  BY <1>2, <1>3 DEF Init, Promise!Init, Promise!Left, Outcome
<1>5. Screened
  BY DEF Init, Screened, Promise!Left
<1> QED BY <1>4, <1>5

\* What the refinement rests on.
Promising == Screened /\ faults = 0

\* Where only the workers are at work, without faults and half-way commits,
\* and the commission waits, the pipeline keeps the promise: the units end one
\* at a time, each once and after all it depends on; with the last of them the
\* run has its verdict and the commission its card, and a run without problems
\* has left the screening.
THEOREM ThePromiseIsKept ==
    ASSUME Clock = {}, External = {}, MidCommit = {}, MaxFaults = 0,
           MaxMoves = 0
    PROVE  Spec => KeepsThePromise
<1>1. "stale" \notin Clock
  OBVIOUS
<1>2. Spec => []RunInv
  BY <1>1, RunInvHolds
<1>3. Spec => [](Agreement /\ Queueing)
  BY <1>1, AgreementHolds
<1>4. Spec => []WorkersAlone
  BY WorkersAloneHolds
<1>5. TypeOK /\ Ownership /\ RunInv /\ Agreement /\ Queueing /\ WorkersAlone
          => Untroubled /\ Calm
  BY DEF Untroubled, Steady, WorkersAlone, RunInv, Calm, Alone
<1>6. Init => Promise!Init /\ Promising
  BY InitPromised DEF Init, Promising
<1>7. Untroubled /\ Promising /\ [Next]_vars => Promising'
  BY ScreenedStep, NothingElse DEF Promising
<1>8. /\ Untroubled /\ Calm /\ Calm' /\ Agreement /\ Agreement' /\ Promising
      /\ [Next]_vars
      => [Promise!Next]_(Promise!vars)
  <2> SUFFICES ASSUME Untroubled, Calm, Calm', Agreement, Agreement', Promising,
                      [Next]_vars
               PROVE  [Promise!Next]_(Promise!vars)
    OBVIOUS
  <2>1. Screened /\ faults = 0 /\ DueInTime
    BY NothingElse DEF Promising
  <2>2. ASSUME NEW w \in Worker, Commit(w)
        PROVE  Promise!Next
    <3>1. job[w] \in Unit /\ tx[w].out \in TerminalUnitStatus
      BY <2>2 DEF Untroubled, Steady, TypeOK, WorkersOK, UnitTx, Commit
    <3>2. Promise!TerminalUnitStatus = TerminalUnitStatus
      BY DEF Promise!TerminalUnitStatus, TerminalUnitStatus
    <3>3. PICK u \in Unit, out \in Promise!TerminalUnitStatus :
             u = job[w] /\ out = tx[w].out
      BY <3>1, <3>2
    <3>4. Promise!End(u, out)
      BY <2>1, <2>2, <3>3, CommitEnds
    <3> QED BY <3>4 DEF Promise!Next
  <2>3. CASE \A w \in Worker : ~Commit(w)
    BY <2>1, <2>3, OtherwiseHidden DEF Promise!Next
  <2> QED BY <2>2, <2>3
<1> QED BY <1>2, <1>3, <1>4, <1>5, <1>6, <1>7, <1>8, OwnershipHolds, PTL
        DEF Spec, KeepsThePromise, Promise!Spec

=============================================================================
