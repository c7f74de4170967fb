------------------------ MODULE ValidationRuns_proofs ------------------------
(***************************************************************************)
(* Proofs about ValidationRuns, for any policy, any checks, and any number *)
(* of runs, submissions, faults and workers. The argument is about what is *)
(* owed to a check: the push, the job or the worker that will settle it.   *)
(* Unless a run is disturbed there is one of these at most, and as long as *)
(* there is one nothing takes the run for passed.                          *)
(***************************************************************************)
EXTENDS ValidationRuns, FiniteSetTheorems, SequenceTheorems, TLAPS

Elements(s) == {s[n] : n \in DOMAIN s}
Distinct(s) == \A m, n \in DOMAIN s : s[m] = s[n] => m = n

\* What the orchestrator does at a run, and to a check of it.
Submitting(i) == submitter.at # "idle" /\ submitter.run = i
Inserting(i) == submitter.at = "insert" /\ submitter.run = i
Working(i, c) == worker[c].at # "idle" /\ worker[c].run = i
ToPush(i, c) == Submitting(i) /\ c \in Elements(submitter.push)
ToInsert(i, c) == Inserting(i) /\ c \in Elements(submitter.insert)
ToSettle(i, c) == worker[c].at = "fetching" /\ worker[c].run = i
Owed(i, c) == ToPush(i, c) \/ i \in jobs[c] \/ ToSettle(i, c)
SaysPassed(i, c) ==
    worker[c].at = "read" /\ worker[c].run = i /\ worker[c].saw = "passed"

\* The orchestrator has been at the run.
Used(i) ==
    \/ Submitting(i) \/ payload[i] # {}
    \/ \E c \in Check : i \in jobs[c] \/ Working(i, c)

\* It is never at the run of a backfill, nor at one that is not there yet.
OwnRuns ==
    \A i \in RunId : Used(i) => i < next /\ (backfill.at # "idle" => i # backfill.run)

\* Those have none of its checks.
Bare ==
    /\ \A i \in RunId, c \in Check : i >= next => check[i][c] = "none"
    /\ backfill.at # "idle" =>
          backfill.run < next /\ \A c \in Check : check[backfill.run][c] = "none"

Kinds == \A i \in RunId, c \in Check : check[i][c] \in CheckStatus \cup {"none"}

SubmitterOK ==
    /\ (submitter.at = "insert") <=> (submitter.insert # <<>>)
    /\ submitter.at # "idle" =>
          /\ submitter.push # <<>>
          /\ Elements(submitter.insert) \subseteq Elements(submitter.push)
          /\ Distinct(submitter.push)
    /\ submitter.at = "mark" => submitter.run \in disturbed

\* A check is pushed once and has one job, and no job before all have rows.
OneJob(i) ==
    \A c \in Check :
        /\ ToPush(i, c) => i \notin jobs[c] /\ ~Working(i, c)
        /\ i \in jobs[c] => ~Working(i, c)
        /\ Inserting(i) => i \notin jobs[c] /\ ~Working(i, c)

\* What waits is owed something, and what is owed something is not settled;
\* but the SLA may have failed it.
OwedIsOpen(i) ==
    \A c \in Check :
        /\ check[i][c] \in {"pending", "processing"} => Owed(i, c)
        /\ Owed(i, c) => \/ check[i][c] \in {"pending", "processing", "failed"}
                         \/ ToInsert(i, c)

\* A run is passed, or a worker is about to say so.
Passing(i) == run[i] = "passed" \/ \E c \in Check : SaysPassed(i, c)

PassOwesNothing(i) ==
    Passing(i) => \A c \in Check : ~Owed(i, c) /\ check[i][c] \in {"passed", "none"}

Undisturbed == \A i \in RunId \ disturbed :
                   OneJob(i) /\ OwedIsOpen(i) /\ PassOwesNothing(i)

\* The version's run, if there is one, is that of the backfill under way.
OneVersion ==
    /\ backfill.at # "idle" => marked \subseteq {backfill.run}
    /\ \A i, j \in marked : i = j

RunsInv ==
    /\ TypeOK /\ OwnRuns /\ Bare /\ Kinds /\ SubmitterOK
    /\ Undisturbed /\ OneVersion

-----------------------------------------------------------------------------
(* Sequences of checks.                                                    *)

LEMMA HeadAndTail ==
    ASSUME NEW S, NEW s \in Seq(S), s # <<>>
    PROVE  /\ Head(s) \in S /\ Tail(s) \in Seq(S)
           /\ Elements(s) = {Head(s)} \cup Elements(Tail(s))
           /\ Len(s) = 1 => Elements(s) = {Head(s)} /\ Tail(s) = <<>>
           /\ Len(s) # 1 => Tail(s) # <<>>
           /\ Distinct(s) => Distinct(Tail(s)) /\ Head(s) \notin Elements(Tail(s))
<1>1. /\ Len(s) \in Nat /\ Len(s) >= 1 /\ DOMAIN s = 1..Len(s)
      /\ Head(s) = s[1] /\ Tail(s) \in Seq(S)
      /\ Len(Tail(s)) = Len(s) - 1
      /\ \A n \in 1..Len(Tail(s)) : Tail(s)[n] = s[n+1]
  BY EmptySeq, HeadTailProperties
<1>2. DOMAIN Tail(s) = 1..(Len(s) - 1)
  BY <1>1
<1>3. \A n \in 1..Len(s) : n = 1 \/ (n - 1 \in 1..(Len(s)-1) /\ s[n] = Tail(s)[n-1])
  BY <1>1
<1>4. Elements(s) = {Head(s)} \cup Elements(Tail(s))
  <2>1. ASSUME NEW x \in Elements(s) PROVE x \in {Head(s)} \cup Elements(Tail(s))
    <3>1. PICK n \in 1..Len(s) : x = s[n]
      BY <1>1, <2>1 DEF Elements
    <3>2. CASE n = 1
      BY <1>1, <3>1, <3>2
    <3>3. CASE n - 1 \in 1..(Len(s)-1) /\ s[n] = Tail(s)[n-1]
      BY <1>2, <3>1, <3>3 DEF Elements
    <3> QED BY <1>3, <3>2, <3>3
  <2>2. ASSUME NEW x \in Elements(Tail(s)) PROVE x \in Elements(s)
    <3>1. PICK n \in 1..(Len(s) - 1) : x = s[n+1]
      BY <1>1, <1>2 DEF Elements
    <3> QED BY <1>1, <3>1 DEF Elements
  <2>3. Head(s) \in Elements(s)
    BY <1>1 DEF Elements
  <2> QED BY <2>1, <2>2, <2>3
<1>5. Len(s) = 1 => Elements(Tail(s)) = {} /\ Tail(s) = <<>>
  <2>1. Len(s) = 1 => Elements(Tail(s)) = {}
    BY <1>1, <1>2 DEF Elements
  <2>2. Len(s) = 1 => Len(Tail(s)) = 0
    BY <1>1
  <2> QED BY <1>1, <2>1, <2>2, EmptySeq
<1>6. Distinct(s) => Distinct(Tail(s)) /\ Head(s) \notin Elements(Tail(s))
  <2> SUFFICES ASSUME Distinct(s)
               PROVE  Distinct(Tail(s)) /\ Head(s) \notin Elements(Tail(s))
    OBVIOUS
  <2>1. ASSUME NEW m \in 1..(Len(s) - 1), NEW n \in 1..(Len(s) - 1),
               Tail(s)[m] = Tail(s)[n]
        PROVE  m = n
    BY <1>1, <2>1 DEF Distinct
  <2>2. ASSUME NEW n \in 1..(Len(s) - 1) PROVE Tail(s)[n] # Head(s)
    BY <1>1 DEF Distinct
  <2> QED BY <1>2, <2>1, <2>2 DEF Distinct, Elements
<1>7. Len(s) # 1 => Tail(s) # <<>>
  <2>1. Len(s) # 1 => Len(Tail(s)) # 0
    BY <1>1
  <2> QED BY <2>1, EmptySeq
<1> QED BY <1>1, <1>4, <1>5, <1>6, <1>7

-----------------------------------------------------------------------------
(* Types.                                                                  *)

Status == UnitStatus \cup CheckStatus \cup {"none"}

App == [stage : {"application", "initial_screening", "application_review"},
        content : 0..MaxContent, moved : {0} \cup RunId]

LEMMA Computes == \A rows : Computed(rows) \in RunStatus
BY DEF Computed, RunStatusOf, RunStatus, ActiveRunStatus, TerminalRunStatus

LEMMA NotPassed == "passed" \notin RunStatus
BY DEF RunStatus, ActiveRunStatus, TerminalRunStatus

LEMMA Names ==
    /\ RunId \subseteq Nat /\ 1 \in RunId /\ 0 \notin RunId
    /\ Outcome \subseteq Status /\ Verdict \subseteq CheckStatus
    /\ TerminalUnitStatus \subseteq UnitStatus
    /\ UnitStatus \subseteq Status /\ CheckStatus \subseteq Status
    /\ Unit \subseteq CheckType /\ Check \subseteq CheckType
    /\ Unit \cap Check = {}
<1>1. RunId \subseteq Nat /\ 1 \in RunId /\ 0 \notin RunId
  BY RunsAssumption DEF RunId
<1>2. Verdict \subseteq CheckStatus
  BY RunsAssumption DEF CheckStatus
<1>3. TerminalUnitStatus \subseteq UnitStatus
  BY DEF UnitStatus
<1>4. Outcome \subseteq Status
  BY <1>3, RunsAssumption DEF Status
<1>5. Unit \cap Check = {}
  BY RunsAssumption
<1> QED BY <1>1, <1>2, <1>3, <1>4, <1>5 DEF Status, CheckType

LEMMA AdvanceTyped ==
    ASSUME app \in App, NEW i \in RunId, NEW rows, Advance(i, rows)
    PROVE  app' \in App
BY DEF Advance, App

LEMMA RoomForOne ==
    ASSUME TypeOK, Room \/ next < MaxRuns
    PROVE  next \in RunId /\ next + 1 \in 1..(MaxRuns + 1)
<1>1. next \in Nat /\ next >= 1 /\ asked \in Nat /\ MaxRuns \in Nat /\ next <= MaxRuns + 1
  BY RunsAssumption DEF TypeOK
<1> QED BY <1>1 DEF Room, RunId

\* What the programs that write the tables leave alone.
Tables ==
    /\ run \in [RunId -> RunStatus \cup OverallStatus \cup {"none"}]
    /\ check \in [RunId -> [CheckType -> Status]]
    /\ marked \subseteq RunId
    /\ next \in 1..(MaxRuns + 1)
    /\ app \in App
    /\ queue \subseteq RunId \X Unit
    /\ backfill \in [at : {"idle", "started", "published"}, run : RunId,
                     advance : BOOLEAN]
    /\ faults \in 0..MaxFaults

Machine ==
    /\ payload \in [RunId -> SUBSET Check]
    /\ jobs \in [Check -> SUBSET RunId]
    /\ worker \in [Check -> [at : {"idle", "fetching", "settled", "read"},
                             run : RunId, saw : OverallStatus]]
    /\ submitter \in [at : {"idle", "insert", "push", "mark"}, run : RunId,
                      insert : Seq(Check), push : Seq(Check)]
    /\ asked \in 0..MaxAsked
    /\ disturbed \subseteq RunId

LEMMA TypeParts == TypeOK <=> Tables /\ Machine
BY DEF TypeOK, Tables, Machine, Status, App

LEMMA FaultTyped == ASSUME TypeOK, Fault PROVE faults' \in 0..MaxFaults
BY RunsAssumption DEF TypeOK, Fault

LEMMA RowsTyped ==
    ASSUME TypeOK, NEW i \in RunId, NEW rows \in [CheckType -> Status],
           check' = [check EXCEPT ![i] = rows]
    PROVE  check' \in [RunId -> [CheckType -> Status]]
BY DEF TypeOK, Status

LEMMA RunTyped ==
    ASSUME TypeOK, NEW i \in RunId, NEW status \in RunStatus \cup OverallStatus,
           run' = [run EXCEPT ![i] = status]
    PROVE  run' \in [RunId -> RunStatus \cup OverallStatus \cup {"none"}]
BY DEF TypeOK

LEMMA CheckTyped == ASSUME TypeOK, NEW i \in RunId PROVE check[i] \in [CheckType -> Status]
BY DEF TypeOK, Status

LEMMA Literals ==
    /\ {"queued", "pending", "none", "failed", "running", "processing",
        "passed"} \subseteq Status
    /\ {"pending", "failed"} \subseteq RunStatus
    /\ "processing" \in OverallStatus
BY DEF Status, UnitStatus, CheckStatus, RunStatus, ActiveRunStatus,
   TerminalRunStatus, OverallStatus, TerminalUnitStatus

LEMMA SubmitTyped == ASSUME TypeOK, Submit PROVE Tables'
<1>0. Tables /\ FirstWave \subseteq Unit
  BY TypeParts DEF FirstWave
<1>1. app' \in App
  <2>1. app.content + 1 \in 0..MaxContent
    BY <1>0, RunsAssumption DEF Tables, App, Submit
  <2> QED BY <1>0, <2>1 DEF Tables, App, Submit
<1>2. CASE UNCHANGED <<run, check, next, queue>>
  BY <1>0, <1>1, <1>2 DEF Tables, Submit, orchestrator
<1>3. CASE ~UNCHANGED <<run, check, next, queue>>
  <2>1. /\ Room /\ next' = next + 1
        /\ run' = [run EXCEPT ![next] = "pending"]
        /\ check' = [check EXCEPT ![next] =
                       [c \in CheckType |->
                          CASE c \in FirstWave -> "queued"
                            [] c \in Unit \ FirstWave -> "pending"
                            [] OTHER -> "none"]]
        /\ queue' = queue \cup ({next} \X FirstWave)
    BY <1>3 DEF Submit
  <2>2. next \in RunId /\ next' \in 1..(MaxRuns + 1)
    BY <2>1, RoomForOne
  <2>3. [c \in CheckType |->
            CASE c \in FirstWave -> "queued"
              [] c \in Unit \ FirstWave -> "pending"
              [] OTHER -> "none"] \in [CheckType -> Status]
    BY Literals
  <2>4. check' \in [RunId -> [CheckType -> Status]]
    BY <2>1, <2>2, <2>3, RowsTyped
  <2>5. run' \in [RunId -> RunStatus \cup OverallStatus \cup {"none"}]
    BY <2>1, <2>2, RunTyped, Literals
  <2>6. queue' \subseteq RunId \X Unit
    BY <1>0, <2>1, <2>2 DEF Tables
  <2> QED BY <1>0, <1>1, <2>2, <2>4, <2>5, <2>6 DEF Tables, Submit
<1> QED BY <1>2, <1>3

LEMMA ExecuteTyped ==
    ASSUME TypeOK, NEW i \in RunId, NEW u \in Unit, Execute(i, u)
    PROVE  Tables'
<1>0. Tables
  BY TypeParts
<1>1. CASE UNCHANGED <<run, check, app>> /\ queue' = queue \ {<<i, u>>}
  BY <1>0, <1>1 DEF Tables, Execute
<1>2. CASE ~(UNCHANGED <<run, check, app>> /\ queue' = queue \ {<<i, u>>})
  <2>0. PICK outcome \in Outcome :
           LET done == [check[i] EXCEPT ![u] = outcome]
               ready == ReadyFollowups([v \in Unit |-> done[v]])
           IN  /\ check' = [check EXCEPT ![i] =
                     [c \in CheckType |-> IF c \in ready THEN "queued"
                                      ELSE done[c]]]
               /\ run' = [run EXCEPT ![i] = Computed(done)]
               /\ queue' = (queue \ {<<i, u>>}) \cup ({i} \X ready)
               /\ Advance(i, done)
    BY <1>2 DEF Execute
  <2> DEFINE done == [check[i] EXCEPT ![u] = outcome]
             ready == ReadyFollowups([v \in Unit |-> done[v]])
  <2>1. /\ check' = [check EXCEPT ![i] =
                 [c \in CheckType |-> IF c \in ready THEN "queued" ELSE done[c]]]
        /\ run' = [run EXCEPT ![i] = Computed(done)]
        /\ queue' = (queue \ {<<i, u>>}) \cup ({i} \X ready)
        /\ Advance(i, done)
    BY <2>0
  <2>2. ready \subseteq Unit /\ done \in [CheckType -> Status]
    <3>1. ready \subseteq Unit
      BY DEF ReadyFollowups
    <3>2. outcome \in Status /\ u \in CheckType
      BY Names
    <3> QED BY <3>1, <3>2, CheckTyped
  <2> HIDE DEF done, ready
  <2>3. [c \in CheckType |-> IF c \in ready THEN "queued" ELSE done[c]]
           \in [CheckType -> Status]
    BY <2>2, Literals
  <2>4. check' \in [RunId -> [CheckType -> Status]]
    BY <2>1, <2>3, RowsTyped
  <2>5. run' \in [RunId -> RunStatus \cup OverallStatus \cup {"none"}]
    BY <2>1, RunTyped, Computes
  <2>6. queue' \subseteq RunId \X Unit
    BY <1>0, <2>1, <2>2 DEF Tables
  <2>7. app' \in App
    BY <1>0, <2>1, AdvanceTyped DEF Tables
  <2> QED BY <1>0, <2>4, <2>5, <2>6, <2>7 DEF Tables, Execute
<1> QED BY <1>1, <1>2

LEMMA IngestTyped ==
    ASSUME TypeOK, NEW i \in RunId, NEW u \in Unit, NEW status \in Outcome,
           Ingest(i, u, status)
    PROVE  Tables'
<1> DEFINE done == [check[i] EXCEPT ![u] = status]
<1>0. Tables
  BY TypeParts
<1>1. /\ check' = [check EXCEPT ![i] = done]
      /\ run' = [run EXCEPT ![i] = Computed(done)]
      /\ Advance(i, done) /\ Fault
  BY DEF Ingest
<1>2. done \in [CheckType -> Status]
  BY Names, CheckTyped
<1> HIDE DEF done
<1>3. check' \in [RunId -> [CheckType -> Status]]
  BY <1>1, <1>2, RowsTyped
<1>4. run' \in [RunId -> RunStatus \cup OverallStatus \cup {"none"}]
  BY <1>1, RunTyped, Computes
<1>5. app' \in App
  BY <1>0, <1>1, AdvanceTyped DEF Tables
<1> QED BY <1>0, <1>1, <1>3, <1>4, <1>5, FaultTyped DEF Tables, Ingest

LEMMA RepairTyped ==
    ASSUME TypeOK, NEW i \in RunId
    PROVE  Repaired(i) \in [CheckType -> Status]
<1>1. check[i] \in [CheckType -> Status] /\ "pending" \in Status
  BY CheckTyped, Literals
<1> QED BY <1>1 DEF Repaired

LEMMA SweepTyped ==
    ASSUME TypeOK, NEW i \in RunId, Sweep(i)
    PROVE  Tables'
<1>0. Tables
  BY TypeParts
<1>1. CASE Retire(i)
  <2> DEFINE rows == [c \in CheckType |->
                        IF check[i][c] \in TerminalUnitStatus \cup {"none"}
                        THEN check[i][c] ELSE "failed"]
  <2>1. check' = [check EXCEPT ![i] = rows] /\ run' = [run EXCEPT ![i] = "failed"]
    BY <1>1 DEF Retire
  <2>2. rows \in [CheckType -> Status]
    BY CheckTyped, Literals
  <2> HIDE DEF rows
  <2>3. check' \in [RunId -> [CheckType -> Status]]
    BY <2>1, <2>2, RowsTyped
  <2>4. run' \in [RunId -> RunStatus \cup OverallStatus \cup {"none"}]
    BY <2>1, RunTyped, Literals
  <2> QED BY <1>0, <1>1, <2>3, <2>4 DEF Tables, Retire, python
<1>2. CASE Terminalize(i)
  <2> DEFINE ended == [c \in CheckType |->
                         IF Repaired(i)[c] \in TerminalUnitStatus \cup {"none"}
                         THEN Repaired(i)[c] ELSE "failed"]
  <2>1. /\ check' = [check EXCEPT ![i] = ended]
        /\ run' = [run EXCEPT ![i] = Computed(ended)]
        /\ Advance(i, ended)
    BY <1>2 DEF Terminalize
  <2>2. ended \in [CheckType -> Status]
    BY RepairTyped, Literals
  <2> HIDE DEF ended
  <2>3. check' \in [RunId -> [CheckType -> Status]]
    BY <2>1, <2>2, RowsTyped
  <2>4. run' \in [RunId -> RunStatus \cup OverallStatus \cup {"none"}]
    BY <2>1, RunTyped, Computes
  <2>5. app' \in App
    BY <1>0, <2>1, AdvanceTyped DEF Tables
  <2> QED BY <1>0, <1>2, <2>3, <2>4, <2>5 DEF Tables, Terminalize
<1>3. CASE Requeue(i)
  <2> DEFINE stuck == {u \in Unit :
                         Repaired(i)[u] \in UnitStatus \ TerminalUnitStatus}
             requeued == [c \in CheckType |->
                            IF c \in stuck THEN "queued" ELSE Repaired(i)[c]]
  <2>1. /\ check' = [check EXCEPT ![i] = requeued]
        /\ run' = [run EXCEPT ![i] = Computed(requeued)]
        /\ queue' = queue \cup ({i} \X stuck)
        /\ Advance(i, requeued)
    BY <1>3 DEF Requeue
  <2>2. requeued \in [CheckType -> Status] /\ stuck \subseteq Unit
    BY RepairTyped, Literals
  <2> HIDE DEF requeued, stuck
  <2>3. check' \in [RunId -> [CheckType -> Status]]
    BY <2>1, <2>2, RowsTyped
  <2>4. run' \in [RunId -> RunStatus \cup OverallStatus \cup {"none"}]
    BY <2>1, RunTyped, Computes
  <2>5. app' \in App
    BY <1>0, <2>1, AdvanceTyped DEF Tables
  <2>6. queue' \subseteq RunId \X Unit
    BY <1>0, <2>1, <2>2 DEF Tables
  <2> QED BY <1>0, <1>3, <2>3, <2>4, <2>5, <2>6 DEF Tables, Requeue
<1> QED BY <1>1, <1>2, <1>3 DEF Sweep

LEMMA BackfillTyped == ASSUME TypeOK, Backfill PROVE Tables'
<1> DEFINE i == backfill.run
           BackfillType == [at : {"idle", "started", "published"}, run : RunId,
                            advance : BOOLEAN]
<1>0. Tables /\ i \in RunId /\ IdleBackfill \in BackfillType
  BY TypeParts, Names DEF Tables, IdleBackfill
<1>1. ASSUME NEW advance \in BOOLEAN, StartBackfill(advance)
      PROVE  Tables'
  <2>1. next \in RunId /\ next' \in 1..(MaxRuns + 1)
    BY <1>1, RoomForOne DEF StartBackfill
  <2>2. backfill' \in BackfillType
    BY <1>1, <2>1 DEF StartBackfill
  <2> QED BY <1>0, <1>1, <2>1, <2>2 DEF Tables, StartBackfill
<1>2. CASE PublishBackfill
  <2>1. PICK outcome \in [Before -> Outcome] :
           check' = [check EXCEPT ![i] =
                       [c \in CheckType |->
                          CASE c \in Before -> outcome[c]
                            [] c = Link -> "running"
                            [] c \in Unit \ (Before \cup {Link}) -> "pending"
                            [] OTHER -> "none"]]
    BY <1>2 DEF PublishBackfill
  <2>2. [c \in CheckType |->
            CASE c \in Before -> outcome[c]
              [] c = Link -> "running"
              [] c \in Unit \ (Before \cup {Link}) -> "pending"
              [] OTHER -> "none"] \in [CheckType -> Status]
    BY Literals, Names
  <2>3. check' \in [RunId -> [CheckType -> Status]]
    BY <1>0, <2>1, <2>2, RowsTyped
  <2>4. run' = [run EXCEPT ![i] = "pending"]
    BY <1>2 DEF PublishBackfill
  <2>5. run' \in [RunId -> RunStatus \cup OverallStatus \cup {"none"}]
    BY <1>0, <2>4, RunTyped, Literals
  <2>6. backfill' \in BackfillType /\ marked' \subseteq RunId
    BY <1>0, <1>2 DEF Tables, PublishBackfill
  <2> QED BY <1>0, <1>2, <2>3, <2>5, <2>6 DEF Tables, PublishBackfill
<1>3. CASE FinishBackfill
  <2> DEFINE left == IF backfill.at = "published" THEN Unit \ Before ELSE Unit
  <2>1. PICK outcome \in [left -> Outcome] :
           LET done == [c \in CheckType |->
                          IF c \in left THEN outcome[c] ELSE check[i][c]]
           IN  /\ check' = [check EXCEPT ![i] = done]
               /\ run' = [run EXCEPT ![i] = Computed(done)]
               /\ IF backfill.advance THEN Advance(i, done) ELSE UNCHANGED app
    BY <1>3 DEF FinishBackfill
  <2> DEFINE done == [c \in CheckType |->
                          IF c \in left THEN outcome[c] ELSE check[i][c]]
  <2>2. /\ check' = [check EXCEPT ![i] = done]
        /\ run' = [run EXCEPT ![i] = Computed(done)]
        /\ Advance(i, done) \/ UNCHANGED app
    BY <2>1
  <2>3. done \in [CheckType -> Status]
    BY <1>0, CheckTyped, Names
  <2> HIDE DEF done, left, i
  <2>4. check' \in [RunId -> [CheckType -> Status]]
    BY <1>0, <2>2, <2>3, RowsTyped
  <2>5. run' \in [RunId -> RunStatus \cup OverallStatus \cup {"none"}]
    BY <1>0, <2>2, RunTyped, Computes
  <2>6. app' \in App
    BY <1>0, <2>2, AdvanceTyped DEF Tables
  <2>7. marked' \subseteq RunId
    BY <1>0, <1>3 DEF Tables, FinishBackfill, i
  <2>8. backfill' = IdleBackfill /\ UNCHANGED <<next, queue, faults>>
    BY <1>3 DEF FinishBackfill
  <2> QED BY <1>0, <2>4, <2>5, <2>6, <2>7, <2>8 DEF Tables
<1>4. CASE FailBackfill
  BY <1>0, <1>4, FaultTyped DEF Tables, FailBackfill, tables
<1> QED BY <1>1, <1>2, <1>3, <1>4 DEF Backfill

LEMMA DataCheckTyped == ASSUME TypeOK, DataCheck PROVE Tables'
<1>0. Tables
  BY TypeParts
<1>1. CASE SendBack
  BY <1>0, <1>1 DEF Tables, SendBack, App, tables
<1>2. ASSUME NEW i \in RunId, NEW u \in Unit, LoseJob(i, u)
      PROVE  Tables'
  <2>1. queue' \subseteq RunId \X Unit
    BY <1>0, <1>2 DEF Tables, LoseJob
  <2> QED BY <1>0, <1>2, <2>1, FaultTyped DEF Tables, LoseJob, tables
<1> QED BY <1>1, <1>2, SubmitTyped, ExecuteTyped, IngestTyped DEF DataCheck

\* These leave the orchestrator alone, and nothing is disturbed.
LEMMA PythonFrame ==
    ASSUME DataCheck \/ Backfill \/ \E i \in RunId : Sweep(i)
    PROVE  UNCHANGED <<payload, orchestrator, disturbed>>
<1>1. ASSUME NEW i \in RunId, Sweep(i)
      PROVE  UNCHANGED <<payload, orchestrator, disturbed>>
  BY <1>1 DEF Sweep, Retire, Terminalize, Requeue
<1>2. CASE DataCheck
  BY <1>2 DEF DataCheck, Submit, SendBack, Execute, LoseJob, Ingest, tables
<1>3. CASE Backfill
  BY <1>3 DEF Backfill, StartBackfill, PublishBackfill, FinishBackfill,
     FailBackfill, tables
<1> QED BY <1>1, <1>2, <1>3

LEMMA AggregateTyped == \A statuses : Aggregate(statuses) \in OverallStatus
BY DEF Aggregate, OverallStatus

\* The orchestrator, an action at a time.
WorkerType == [at : {"idle", "fetching", "settled", "read"}, run : RunId,
               saw : OverallStatus]

SubmitterType == [at : {"idle", "insert", "push", "mark"}, run : RunId,
                  insert : Seq(Check), push : Seq(Check)]

LEMMA IdleTyped == IdleWorker \in WorkerType /\ IdleSubmitter \in SubmitterType
<1>1. <<>> \in Seq(Check)
  BY EmptySeq
<1> QED BY <1>1, Names, Literals DEF IdleWorker, IdleSubmitter, WorkerType, SubmitterType

\* Where a push leads.
LEMMA PushedIs ==
    ASSUME TypeOK, SubmitterOK, submitter.at \in {"push", "mark"}
    PROVE  /\ Pushed \in SubmitterType
           /\ Head(submitter.push) \in Check
<1>1. /\ submitter \in SubmitterType /\ submitter.push \in Seq(Check)
      /\ submitter.push # <<>>
  BY DEF TypeOK, SubmitterType, SubmitterOK
<1>2. Head(submitter.push) \in Check /\ Tail(submitter.push) \in Seq(Check)
  BY <1>1, HeadAndTail
<1>3. [submitter EXCEPT !.at = "push", !.push = Tail(@)] \in SubmitterType
  BY <1>1, <1>2 DEF SubmitterType
<1> QED BY <1>2, <1>3, IdleTyped DEF Pushed

LEMMA CellTyped ==
    ASSUME TypeOK, NEW i \in RunId, NEW c \in CheckType, NEW status \in Status,
           check' = [check EXCEPT ![i][c] = status]
    PROVE  check' \in [RunId -> [CheckType -> Status]]
BY DEF TypeOK, Status

LEMMA SubmitterTyped ==
    ASSUME TypeOK, SubmitterOK,
           \/ \E checks \in Asked : CreateRun(checks)
           \/ SubmitterStep \/ PushTimesOut
    PROVE  Tables' /\ Machine'
<1>0. Tables /\ Machine
  BY TypeParts
<1>1. ASSUME NEW checks \in Asked, CreateRun(checks)
      PROVE  Tables' /\ Machine'
  <2>1. next \in RunId /\ next' \in 1..(MaxRuns + 1)
    BY <1>1, RoomForOne DEF CreateRun
  <2>2. checks \in Seq(Check)
    BY RunsAssumption
  <2>3. run' = [run EXCEPT ![next] = "processing"]
    BY <1>1 DEF CreateRun
  <2>4. run' \in [RunId -> RunStatus \cup OverallStatus \cup {"none"}]
    BY <2>1, <2>3, RunTyped, Literals
  <2>5. submitter' \in SubmitterType
    <3>1. [at |-> "insert", run |-> next, insert |-> checks, push |-> checks]
             \in SubmitterType
      BY <2>1, <2>2 DEF SubmitterType
    <3> QED BY <1>1, <3>1, IdleTyped DEF CreateRun
  <2>6. asked' \in 0..MaxAsked
    BY <1>0, <1>1, RunsAssumption DEF Machine, CreateRun
  <2> QED BY <1>0, <1>1, <2>1, <2>4, <2>5, <2>6
          DEF Tables, Machine, CreateRun, python, SubmitterType
<1>2. CASE InsertCheck
  <2>1. /\ submitter \in SubmitterType
        /\ submitter.insert \in Seq(Check) /\ submitter.insert # <<>>
    BY <1>0, <1>2 DEF Machine, SubmitterType, InsertCheck
  <2>2. Head(submitter.insert) \in Check /\ Tail(submitter.insert) \in Seq(Check)
    BY <2>1, HeadAndTail
  <2>3. submitter' \in SubmitterType
    BY <1>2, <2>1, <2>2 DEF InsertCheck, SubmitterType
  <2>4. check' = [check EXCEPT ![submitter.run][Head(submitter.insert)] = "pending"]
    BY <1>2 DEF InsertCheck
  <2>5. submitter.run \in RunId /\ Head(submitter.insert) \in CheckType
    BY <2>1, <2>2, Names DEF SubmitterType
  <2>6. check' \in [RunId -> [CheckType -> Status]]
    BY <2>4, <2>5, CellTyped, Literals
  <2> QED BY <1>0, <1>2, <2>3, <2>6 DEF Tables, Machine, InsertCheck, python, SubmitterType
<1>3. CASE Push
  <2>1. submitter' \in SubmitterType /\ submitter.run \in RunId
        /\ Head(submitter.push) \in Check
    BY <1>0, <1>3, PushedIs DEF Push, Machine
  <2>2. jobs' \in [Check -> SUBSET RunId]
    BY <1>0, <1>3, <2>1 DEF Push, Machine
  <2> QED BY <1>0, <1>3, <2>1, <2>2 DEF Tables, Machine, Push, python, tables, SubmitterType
<1>4. CASE PushTimesOut
  <2>1. /\ submitter' \in SubmitterType /\ submitter.run \in RunId
        /\ Head(submitter.push) \in Check
    BY <1>0, <1>4, PushedIs DEF PushTimesOut, Machine, SubmitterType
  <2>2. jobs' \in [Check -> SUBSET RunId] /\ disturbed' \subseteq RunId
    BY <1>0, <1>4, <2>1 DEF PushTimesOut, Machine
  <2> QED BY <1>0, <1>4, <2>1, <2>2, FaultTyped
          DEF Tables, Machine, PushTimesOut, python, tables, SubmitterType
<1>5. CASE MarkFailed
  <2>1. submitter' \in SubmitterType /\ submitter.run \in RunId
        /\ Head(submitter.push) \in Check
    BY <1>0, <1>5, PushedIs DEF MarkFailed, Machine
  <2>2. Head(submitter.push) \in CheckType
    BY <2>1, Names
  <2>3. check' = [check EXCEPT ![submitter.run][Head(submitter.push)] = "failed"]
    BY <1>5 DEF MarkFailed
  <2>4. check' \in [RunId -> [CheckType -> Status]]
    BY <2>1, <2>2, <2>3, CellTyped, Literals
  <2> QED BY <1>0, <1>5, <2>1, <2>4 DEF Tables, Machine, MarkFailed, python, SubmitterType
<1> QED BY <1>1, <1>2, <1>3, <1>4, <1>5 DEF SubmitterStep

LEMMA WorkerTyped ==
    ASSUME TypeOK, NEW c \in Check,
           WorkerStep(c) \/ Retry(c) \/ \E i \in RunId : Reprocess(i, c)
    PROVE  Tables' /\ Machine'
<1>0. /\ Tables /\ Machine
      /\ worker \in [Check -> WorkerType] /\ worker[c].run \in RunId
      /\ c \in CheckType
  BY TypeParts, Names DEF Machine, WorkerType
<1>1. ASSUME NEW i \in RunId, Begin(i, c)
      PROVE  Tables' /\ Machine'
  <2>1. [IdleWorker EXCEPT !.at = "fetching", !.run = i] \in WorkerType
    BY IdleTyped DEF WorkerType
  <2>2. worker' \in [Check -> WorkerType]
    BY <1>0, <1>1, <2>1 DEF Begin
  <2>3. jobs' \in [Check -> SUBSET RunId]
    BY <1>0, <1>1 DEF Begin, Machine
  <2>4. check' = [check EXCEPT ![i][c] = "processing"]
    BY <1>1 DEF Begin
  <2>5. check' \in [RunId -> [CheckType -> Status]]
    BY <1>0, <2>4, CellTyped, Literals
  <2> QED BY <1>0, <1>1, <2>2, <2>3, <2>5 DEF Tables, Machine, Begin, python, WorkerType
<1>2. ASSUME NEW status \in Verdict, Settle(c, status)
      PROVE  Tables' /\ Machine'
  <2> DEFINE i == worker[c].run
  <2>1. check' = [check EXCEPT ![i][c] = status] /\ status \in Status
    BY <1>2, Names DEF Settle
  <2>2. check' \in [RunId -> [CheckType -> Status]]
    BY <1>0, <2>1, CellTyped
  <2>3. worker' \in [Check -> WorkerType]
    BY <1>0, <1>2 DEF Settle, WorkerType
  <2>4. payload' \in [RunId -> SUBSET Check]
    BY <1>0, <1>2 DEF Settle, Machine
  <2> QED BY <1>0, <1>2, <2>2, <2>3, <2>4 DEF Tables, Machine, Settle, python, WorkerType
<1>3. CASE Read(c)
  <2>1. worker' \in [Check -> WorkerType]
    BY <1>0, <1>3, AggregateTyped DEF Read, WorkerType
  <2> QED BY <1>0, <1>3, <2>1 DEF Tables, Machine, Read, python, tables, WorkerType
<1>4. CASE Write(c)
  <2>1. run' = [run EXCEPT ![worker[c].run] = worker[c].saw]
        /\ worker[c].saw \in OverallStatus
    BY <1>0, <1>4 DEF Write, WorkerType
  <2>2. run' \in [RunId -> RunStatus \cup OverallStatus \cup {"none"}]
    BY <1>0, <2>1, RunTyped
  <2>3. worker' \in [Check -> WorkerType]
    BY <1>0, <1>4, IdleTyped DEF Write
  <2> QED BY <1>0, <1>4, <2>2, <2>3 DEF Tables, Machine, Write, python, WorkerType
<1>5. CASE Retry(c)
  <2>1. /\ worker' \in [Check -> WorkerType]
        /\ jobs' \in [Check -> SUBSET RunId]
        /\ disturbed' \subseteq RunId
    BY <1>0, <1>5, IdleTyped DEF Retry, Machine
  <2> QED BY <1>0, <1>5, <2>1, FaultTyped DEF Tables, Machine, Retry, python, tables, WorkerType
<1>6. ASSUME NEW i \in RunId, Reprocess(i, c)
      PROVE  Tables' /\ Machine'
  <2>1. jobs' \in [Check -> SUBSET RunId] /\ disturbed' \subseteq RunId
    BY <1>0, <1>6 DEF Reprocess, Machine
  <2> QED BY <1>0, <1>6, <2>1, FaultTyped DEF Tables, Machine, Reprocess, python, tables
<1> QED BY <1>1, <1>2, <1>3, <1>4, <1>5, <1>6 DEF WorkerStep

LEMMA CrashTyped == ASSUME TypeOK, Crash PROVE Tables' /\ Machine'
<1> DEFINE busy == {c \in Check : worker[c].at # "idle"}
<1>0. Tables /\ Machine
  BY TypeParts
<1>1. \A c \in Check : worker[c].run \in RunId
  BY <1>0 DEF Machine
<1>2. jobs' \in [Check -> SUBSET RunId]
  BY <1>0, <1>1 DEF Crash, Machine
<1>3. disturbed' \subseteq RunId
  BY <1>0, <1>1 DEF Crash, Machine
<1>4. worker' \in [Check -> WorkerType] /\ submitter' \in SubmitterType
  BY IdleTyped DEF Crash
<1> QED BY <1>0, <1>2, <1>3, <1>4, FaultTyped
        DEF Crash, Tables, Machine, python, tables, WorkerType, SubmitterType

LEMMA TypeStep ==
    ASSUME TypeOK, SubmitterOK, [Next]_vars
    PROVE  TypeOK'
<1>1. CASE DataCheck \/ Backfill \/ \E i \in RunId : Sweep(i)
  <2>1. Tables'
    BY <1>1, DataCheckTyped, BackfillTyped, SweepTyped
  <2>2. Machine'
    BY <1>1, PythonFrame, TypeParts DEF Machine, orchestrator
  <2> QED BY <2>1, <2>2 DEF TypeOK, Tables, Machine, Status, App
<1>2. CASE Orchestrator
  <2>1. Tables' /\ Machine'
    BY <1>2, SubmitterTyped, WorkerTyped, CrashTyped DEF Orchestrator
  <2> QED BY <2>1 DEF TypeOK, Tables, Machine, Status, App
<1>3. CASE UNCHANGED vars
  BY <1>3 DEF TypeOK, vars, tables, python, orchestrator
<1> QED BY <1>1, <1>2, <1>3 DEF Next

-----------------------------------------------------------------------------
(* What the data check, the sweep and the backfill do to the orchestrator's *)
(* runs: nothing, but for the sweep, which may fail what waits.            *)

Keeps ==
    /\ \A i \in RunId, c \in Check : check'[i][c] = check[i][c]
    /\ \A i \in RunId : run'[i] = run[i] \/ run'[i] \in RunStatus
    /\ next' \in Nat /\ next' >= next
    /\ backfill'.at # "idle" =>
          \/ backfill.at # "idle" /\ backfill'.run = backfill.run
          \/ backfill'.run = next /\ next' = next + 1

\* One run is written, and of it the policy's units.
LEMMA OneRunWritten ==
    ASSUME TypeOK, NEW i \in RunId, NEW rows \in [CheckType -> Status],
           NEW status \in RunStatus,
           check' = [check EXCEPT ![i] = rows],
           run' = [run EXCEPT ![i] = status],
           \A c \in Check : rows[c] = check[i][c]
    PROVE  /\ \A j \in RunId, c \in Check : check'[j][c] = check[j][c]
           /\ \A j \in RunId : run'[j] = run[j] \/ run'[j] \in RunStatus
<1>1. \A j \in RunId : check'[j] = IF j = i THEN rows ELSE check[j]
  BY DEF TypeOK
<1>2. \A j \in RunId : run'[j] = IF j = i THEN status ELSE run[j]
  BY DEF TypeOK
<1> QED BY <1>1, <1>2

LEMMA SubmitKeeps == ASSUME TypeOK, Bare, Submit PROVE Keeps
<1>0. next \in Nat
  BY DEF TypeOK
<1>1. CASE UNCHANGED <<run, check, next, queue>>
  BY <1>0, <1>1 DEF Submit, Keeps
<1>2. CASE ~UNCHANGED <<run, check, next, queue>>
  <2> DEFINE rows == [c \in CheckType |->
                        CASE c \in FirstWave -> "queued"
                          [] c \in Unit \ FirstWave -> "pending"
                          [] OTHER -> "none"]
  <2>1. /\ Room /\ next' = next + 1
        /\ run' = [run EXCEPT ![next] = "pending"]
        /\ check' = [check EXCEPT ![next] = rows]
        /\ UNCHANGED backfill
    BY <1>2 DEF Submit
  <2>2. next \in RunId
    BY <2>1, RoomForOne
  <2>3. rows \in [CheckType -> Status]
    BY Literals
  <2>4. \A c \in Check : c \notin Unit /\ c \in CheckType
    BY Names
  <2>5. \A c \in Check : rows[c] = "none"
    BY <2>4 DEF FirstWave
  <2>6. \A c \in Check : check[next][c] = "none"
    BY <1>0, <2>2 DEF Bare
  <2> HIDE DEF rows
  <2>7. \A c \in Check : rows[c] = check[next][c]
    BY <2>5, <2>6
  <2>8. /\ \A j \in RunId, c \in Check : check'[j][c] = check[j][c]
        /\ \A j \in RunId : run'[j] = run[j] \/ run'[j] \in RunStatus
    BY <2>1, <2>2, <2>3, <2>7, OneRunWritten, Literals
  <2> QED BY <1>0, <2>1, <2>8 DEF Keeps
<1> QED BY <1>1, <1>2

LEMMA ExecuteKeeps ==
    ASSUME TypeOK, NEW i \in RunId, NEW u \in Unit, Execute(i, u)
    PROVE  Keeps
<1>0. next \in Nat /\ UNCHANGED <<next, backfill>>
  BY DEF TypeOK, Execute
<1>1. CASE UNCHANGED <<run, check>>
  BY <1>0, <1>1 DEF Keeps
<1>2. CASE ~UNCHANGED <<run, check>>
  <2>0. PICK outcome \in Outcome :
           LET done == [check[i] EXCEPT ![u] = outcome]
               ready == ReadyFollowups([v \in Unit |-> done[v]])
           IN  /\ check' = [check EXCEPT ![i] =
                     [c \in CheckType |-> IF c \in ready THEN "queued"
                                      ELSE done[c]]]
               /\ run' = [run EXCEPT ![i] = Computed(done)]
    BY <1>2 DEF Execute
  <2> DEFINE done == [check[i] EXCEPT ![u] = outcome]
             ready == ReadyFollowups([v \in Unit |-> done[v]])
             rows == [c \in CheckType |-> IF c \in ready THEN "queued" ELSE done[c]]
  <2>1. /\ check' = [check EXCEPT ![i] = rows]
        /\ run' = [run EXCEPT ![i] = Computed(done)]
    BY <2>0
  <2>2. ready \subseteq Unit
    BY DEF ReadyFollowups
  <2>3. /\ done \in [CheckType -> Status]
        /\ \A c \in CheckType \ {u} : done[c] = check[i][c]
    BY CheckTyped, Names
  <2> HIDE DEF done, ready
  <2>4. rows \in [CheckType -> Status]
    BY <2>3, Literals
  <2>5. \A c \in Check : rows[c] = check[i][c]
    BY <2>2, <2>3, Names
  <2> HIDE DEF rows
  <2>6. /\ \A j \in RunId, c \in Check : check'[j][c] = check[j][c]
        /\ \A j \in RunId : run'[j] = run[j] \/ run'[j] \in RunStatus
    BY <2>1, <2>4, <2>5, OneRunWritten, Computes
  <2> QED BY <1>0, <2>6 DEF Keeps
<1> QED BY <1>1, <1>2

LEMMA IngestKeeps ==
    ASSUME TypeOK, NEW i \in RunId, NEW u \in Unit, NEW status \in Outcome,
           Ingest(i, u, status)
    PROVE  Keeps
<1> DEFINE done == [check[i] EXCEPT ![u] = status]
<1>1. /\ check' = [check EXCEPT ![i] = done]
      /\ run' = [run EXCEPT ![i] = Computed(done)]
      /\ next \in Nat /\ UNCHANGED <<next, backfill>>
  BY DEF Ingest, TypeOK
<1>2. /\ done \in [CheckType -> Status]
      /\ \A c \in Check : done[c] = check[i][c]
  BY Names, CheckTyped
<1> HIDE DEF done
<1>3. /\ \A j \in RunId, c \in Check : check'[j][c] = check[j][c]
      /\ \A j \in RunId : run'[j] = run[j] \/ run'[j] \in RunStatus
  BY <1>1, <1>2, OneRunWritten, Computes
<1> QED BY <1>1, <1>3 DEF Keeps

\* A repaired run that is canonical has no check of the orchestrator.
LEMMA RepairedHasNone ==
    ASSUME NEW i \in RunId, RepairedCanonical(i), NEW c \in Check
    PROVE  Repaired(i)[c] = "none" /\ check[i][c] = "none"
<1>1. c \in CheckType /\ c \notin Unit
  BY Names
<1>2. Repaired(i)[c] = check[i][c]
  BY <1>1 DEF Repaired
<1> QED BY <1>1, <1>2 DEF RepairedCanonical

LEMMA TerminalizeKeeps ==
    ASSUME TypeOK, NEW i \in RunId, Terminalize(i)
    PROVE  Keeps
<1> DEFINE ended == [c \in CheckType |->
                       IF Repaired(i)[c] \in TerminalUnitStatus \cup {"none"}
                       THEN Repaired(i)[c] ELSE "failed"]
<1>1. /\ check' = [check EXCEPT ![i] = ended]
      /\ run' = [run EXCEPT ![i] = Computed(ended)]
      /\ next \in Nat /\ UNCHANGED <<next, backfill>>
  BY DEF Terminalize, TypeOK
<1>2. ended \in [CheckType -> Status]
  BY RepairTyped, Literals
<1>3. \A c \in Check : ended[c] = check[i][c]
  BY RepairedHasNone, Names DEF Terminalize
<1> HIDE DEF ended
<1>4. /\ \A j \in RunId, c \in Check : check'[j][c] = check[j][c]
      /\ \A j \in RunId : run'[j] = run[j] \/ run'[j] \in RunStatus
  BY <1>1, <1>2, <1>3, OneRunWritten, Computes
<1> QED BY <1>1, <1>4 DEF Keeps

LEMMA RequeueKeeps ==
    ASSUME TypeOK, NEW i \in RunId, Requeue(i)
    PROVE  Keeps
<1> DEFINE stuck == {u \in Unit :
                       Repaired(i)[u] \in UnitStatus \ TerminalUnitStatus}
           requeued == [c \in CheckType |->
                          IF c \in stuck THEN "queued" ELSE Repaired(i)[c]]
<1>1. /\ check' = [check EXCEPT ![i] = requeued]
      /\ run' = [run EXCEPT ![i] = Computed(requeued)]
      /\ next \in Nat /\ UNCHANGED <<next, backfill>>
  BY DEF Requeue, TypeOK
<1>2. requeued \in [CheckType -> Status]
  BY RepairTyped, Literals
<1>3. \A c \in Check : requeued[c] = check[i][c]
  BY RepairedHasNone, Names DEF Requeue
<1> HIDE DEF requeued
<1>4. /\ \A j \in RunId, c \in Check : check'[j][c] = check[j][c]
      /\ \A j \in RunId : run'[j] = run[j] \/ run'[j] \in RunStatus
  BY <1>1, <1>2, <1>3, OneRunWritten, Computes
<1> QED BY <1>1, <1>4 DEF Keeps

LEMMA BackfillKeeps == ASSUME TypeOK, Bare, Backfill PROVE Keeps
<1> DEFINE i == backfill.run
<1>0. next \in Nat /\ i \in RunId
  BY DEF TypeOK
<1>1. backfill.at # "idle" => \A c \in Check : check[i][c] = "none"
  BY DEF Bare
<1>2. ASSUME NEW advance \in BOOLEAN, StartBackfill(advance)
      PROVE  Keeps
  BY <1>0, <1>2 DEF StartBackfill, Keeps
<1>3. CASE PublishBackfill
  <2>0. PICK outcome \in [Before -> Outcome] :
           check' = [check EXCEPT ![i] =
                       [c \in CheckType |->
                          CASE c \in Before -> outcome[c]
                            [] c = Link -> "running"
                            [] c \in Unit \ (Before \cup {Link}) -> "pending"
                            [] OTHER -> "none"]]
    BY <1>3 DEF PublishBackfill
  <2> DEFINE rows == [c \in CheckType |->
                          CASE c \in Before -> outcome[c]
                            [] c = Link -> "running"
                            [] c \in Unit \ (Before \cup {Link}) -> "pending"
                            [] OTHER -> "none"]
  <2>1. /\ check' = [check EXCEPT ![i] = rows]
        /\ run' = [run EXCEPT ![i] = "pending"]
        /\ backfill'.run = i /\ backfill.at # "idle" /\ next' = next
    <3>1. backfill' = [backfill EXCEPT !.at = "published"]
      BY <1>3 DEF PublishBackfill
    <3> QED BY <1>3, <2>0, <3>1 DEF PublishBackfill, TypeOK
  <2>2. rows \in [CheckType -> Status]
    BY Literals, Names
  <2>3. \A c \in Check : rows[c] = "none"
    BY Names, RunsAssumption
  <2> HIDE DEF rows
  <2>4. \A c \in Check : rows[c] = check[i][c]
    BY <1>1, <2>1, <2>3
  <2>5. /\ \A j \in RunId, c \in Check : check'[j][c] = check[j][c]
        /\ \A j \in RunId : run'[j] = run[j] \/ run'[j] \in RunStatus
    BY <1>0, <2>1, <2>2, <2>4, OneRunWritten, Literals
  <2> QED BY <1>0, <2>1, <2>5 DEF Keeps
<1>4. CASE FinishBackfill
  <2> DEFINE left == IF backfill.at = "published" THEN Unit \ Before ELSE Unit
  <2>0. PICK outcome \in [left -> Outcome] :
           LET done == [c \in CheckType |->
                          IF c \in left THEN outcome[c] ELSE check[i][c]]
           IN  /\ check' = [check EXCEPT ![i] = done]
               /\ run' = [run EXCEPT ![i] = Computed(done)]
    BY <1>4 DEF FinishBackfill
  <2> DEFINE done == [c \in CheckType |->
                          IF c \in left THEN outcome[c] ELSE check[i][c]]
  <2>1. /\ check' = [check EXCEPT ![i] = done]
        /\ run' = [run EXCEPT ![i] = Computed(done)]
    BY <2>0
  <2>2. backfill'.at = "idle" /\ next' = next
    BY <1>4 DEF FinishBackfill, IdleBackfill
  <2>3. done \in [CheckType -> Status]
    BY <1>0, CheckTyped, Names
  <2>4. \A c \in Check : done[c] = check[i][c]
    BY Names
  <2> HIDE DEF done, left
  <2>5. /\ \A j \in RunId, c \in Check : check'[j][c] = check[j][c]
        /\ \A j \in RunId : run'[j] = run[j] \/ run'[j] \in RunStatus
    BY <1>0, <2>1, <2>3, <2>4, OneRunWritten, Computes
  <2> QED BY <1>0, <2>2, <2>5 DEF Keeps
<1>5. CASE FailBackfill
  BY <1>0, <1>5 DEF FailBackfill, tables, IdleBackfill, Keeps
<1> QED BY <1>2, <1>3, <1>4, <1>5 DEF Backfill

LEMMA PythonKeeps ==
    ASSUME TypeOK, Bare,
           \/ DataCheck \/ Backfill
           \/ \E i \in RunId : Terminalize(i) \/ Requeue(i)
    PROVE  Keeps
<1>1. CASE SendBack
  BY <1>1 DEF SendBack, tables, Keeps, TypeOK
<1>2. ASSUME NEW i \in RunId, NEW u \in Unit, LoseJob(i, u)
      PROVE  Keeps
  BY <1>2 DEF LoseJob, tables, Keeps, TypeOK
<1> QED BY <1>1, <1>2, SubmitKeeps, ExecuteKeeps, IngestKeeps, TerminalizeKeeps,
           RequeueKeeps, BackfillKeeps DEF DataCheck

-----------------------------------------------------------------------------
(* The invariant, where the orchestrator does nothing.                     *)

\* All that the invariant says of a run is as it was.
SameRun(j) ==
    /\ run'[j] = "passed" => run[j] = "passed"
    /\ Inserting(j)' <=> Inserting(j)
    /\ \A c \in Check :
          /\ check'[j][c] = check[j][c]
          /\ (j \in jobs'[c]) <=> (j \in jobs[c])
          /\ ToPush(j, c)' <=> ToPush(j, c)
          /\ ToInsert(j, c)' <=> ToInsert(j, c)
          /\ Working(j, c)' <=> Working(j, c)
          /\ ToSettle(j, c)' <=> ToSettle(j, c)
          /\ SaysPassed(j, c)' <=> SaysPassed(j, c)

Sound(i) == OneJob(i) /\ OwedIsOpen(i) /\ PassOwesNothing(i)

LEMMA SameRunSound ==
    ASSUME NEW j \in RunId, Sound(j), SameRun(j)
    PROVE  Sound(j)'
<1>1. \A c \in Check : Owed(j, c)' <=> Owed(j, c)
  BY DEF SameRun, Owed
<1>2. Passing(j)' => Passing(j)
  BY DEF SameRun, Passing
<1>3. OneJob(j)'
  BY DEF SameRun, OneJob, Sound
<1>4. OwedIsOpen(j)'
  BY <1>1 DEF SameRun, OwedIsOpen, Sound
<1>5. PassOwesNothing(j)'
  BY <1>1, <1>2 DEF SameRun, PassOwesNothing, Sound
<1> QED BY <1>3, <1>4, <1>5 DEF Sound

LEMMA UndisturbedIsSound == Undisturbed <=> \A i \in RunId \ disturbed : Sound(i)
BY DEF Undisturbed, Sound

LEMMA SoundIsUndisturbed ==
    ASSUME \A i \in RunId \ disturbed' : Sound(i)'
    PROVE  Undisturbed'
BY DEF Undisturbed, Sound

\* What a run is used for, as long as the orchestrator does nothing.
LEMMA SameUse ==
    ASSUME UNCHANGED <<payload, orchestrator>>, NEW i
    PROVE  /\ Used(i)' <=> Used(i)
           /\ Inserting(i)' <=> Inserting(i)
           /\ \A c \in Check :
                 /\ (i \in jobs'[c]) <=> (i \in jobs[c])
                 /\ ToPush(i, c)' <=> ToPush(i, c)
                 /\ ToInsert(i, c)' <=> ToInsert(i, c)
                 /\ Working(i, c)' <=> Working(i, c)
                 /\ ToSettle(i, c)' <=> ToSettle(i, c)
                 /\ SaysPassed(i, c)' <=> SaysPassed(i, c)
<1>1. UNCHANGED <<payload, jobs, worker, submitter>>
  BY DEF orchestrator
<1> QED BY <1>1 DEF Used, Submitting, Inserting, ToPush, ToInsert, Working,
           ToSettle, SaysPassed

LEMMA KeepsInv ==
    ASSUME RunsInv, TypeOK', Keeps, UNCHANGED <<payload, orchestrator, disturbed>>
    PROVE  OwnRuns' /\ Bare' /\ Kinds' /\ SubmitterOK' /\ Undisturbed'
<1>0. /\ TypeOK /\ OwnRuns /\ Bare /\ Kinds /\ SubmitterOK /\ Undisturbed
      /\ next \in Nat /\ backfill.run \in RunId /\ RunId \subseteq Nat
  <2>1. TypeOK /\ OwnRuns /\ Bare /\ Kinds /\ SubmitterOK /\ Undisturbed
    BY DEF RunsInv
  <2>2. next \in Nat /\ backfill.run \in RunId
    BY <2>1 DEF TypeOK
  <2>3. RunId \subseteq Nat
    BY Names
  <2> QED BY <2>1, <2>2, <2>3
<1>1. next' \in Nat /\ next' >= next
  BY DEF Keeps
<1>2. OwnRuns'
  <2> SUFFICES ASSUME NEW i \in RunId, Used(i)'
               PROVE  i < next' /\ (backfill'.at # "idle" => i # backfill'.run)
    BY DEF OwnRuns
  <2>1. i < next /\ (backfill.at # "idle" => i # backfill.run)
    BY <1>0, SameUse DEF OwnRuns
  <2> QED BY <1>0, <1>1, <2>1 DEF Keeps
<1>3. Bare'
  <2>1. ASSUME NEW i \in RunId, NEW c \in Check, i >= next'
        PROVE  check'[i][c] = "none"
    BY <1>0, <1>1, <2>1 DEF Bare, Keeps
  <2>2. ASSUME backfill'.at # "idle"
        PROVE  backfill'.run < next' /\ \A c \in Check : check'[backfill'.run][c] = "none"
    <3>1. backfill'.run \in RunId
      BY DEF TypeOK
    <3>2. \/ backfill.at # "idle" /\ backfill'.run = backfill.run
          \/ backfill'.run = next /\ next' = next + 1
      BY <2>2 DEF Keeps
    <3>3. \A c \in Check : check'[backfill'.run][c] = check[backfill'.run][c]
      BY <3>1 DEF Keeps
    <3>4. CASE backfill.at # "idle" /\ backfill'.run = backfill.run
      <4>1. backfill.run < next /\ \A c \in Check : check[backfill.run][c] = "none"
        BY <1>0, <3>4 DEF Bare
      <4>2. backfill'.run < next'
        <5>1. backfill.run \in Nat
          BY <1>0
        <5> QED BY <1>0, <1>1, <3>4, <4>1, <5>1
      <4> QED BY <3>3, <3>4, <4>1, <4>2
    <3>5. CASE backfill'.run = next /\ next' = next + 1
      <4>1. next \in RunId /\ next >= next
        BY <1>0, <3>1, <3>5
      <4>2. \A c \in Check : check[next][c] = "none"
        BY <1>0, <4>1 DEF Bare
      <4> QED BY <1>0, <3>3, <3>5, <4>2
    <3> QED BY <3>2, <3>4, <3>5
  <2> QED BY <2>1, <2>2 DEF Bare
<1>4. Kinds' /\ SubmitterOK'
  BY <1>0 DEF Keeps, Kinds, SubmitterOK, orchestrator
<1>5. Undisturbed'
  <2>1. ASSUME NEW i \in RunId \ disturbed
        PROVE  Sound(i)'
    <3>1. SameRun(i)
      BY SameUse, NotPassed DEF Keeps, SameRun
    <3> QED BY <1>0, <3>1, SameRunSound, UndisturbedIsSound
  <2> QED BY <2>1, SoundIsUndisturbed
<1> QED BY <1>2, <1>3, <1>4, <1>5

\* The SLA fails what waits, unless somebody is between two statements.
LEMMA RetireInv ==
    ASSUME RunsInv, NEW i \in RunId, Retire(i)
    PROVE  OwnRuns' /\ Bare' /\ Kinds' /\ SubmitterOK' /\ Undisturbed'
<1>0. /\ TypeOK /\ OwnRuns /\ Bare /\ Kinds /\ SubmitterOK /\ Undisturbed
      /\ UNCHANGED <<payload, orchestrator, disturbed, next, backfill>>
  BY DEF RunsInv, Retire, python
<1>1. /\ \A j \in RunId : run'[j] = IF j = i THEN "failed" ELSE run[j]
      /\ \A j \in RunId \ {i} : check'[j] = check[j]
      /\ \A c \in CheckType : check'[i][c] =
            IF check[i][c] \in TerminalUnitStatus \cup {"none"}
            THEN check[i][c] ELSE "failed"
  BY <1>0 DEF Retire, TypeOK
<1>2. /\ ~Inserting(i)
      /\ \A c \in Check : ~SaysPassed(i, c)
  BY DEF Retire, Listed, BetweenStatements, Inserting, SaysPassed
<1>3. OwnRuns' /\ SubmitterOK'
  BY <1>0, SameUse DEF OwnRuns, SubmitterOK, orchestrator
<1>4. \A j \in RunId, c \in Check :
         /\ check[j][c] = "none" => check'[j][c] = "none"
         /\ check'[j][c] \in {check[j][c], "failed"}
  BY <1>1, Names
<1>5. Bare' /\ Kinds'
  <2>1. Kinds'
    BY <1>0, <1>4 DEF Kinds, CheckStatus
  <2>2. backfill.run \in RunId
    BY <1>0 DEF TypeOK
  <2> QED BY <1>0, <1>4, <2>1, <2>2 DEF Bare
<1>6. ASSUME NEW j \in RunId \ disturbed
      PROVE  Sound(j)'
  <2>0. Sound(j)
    BY <1>0, UndisturbedIsSound
  <2>1. CASE j # i
    <3>1. SameRun(j)
      BY <1>0, <1>1, <2>1, SameUse DEF SameRun
    <3> QED BY <2>0, <3>1, SameRunSound
  <2>2. CASE j = i
    <3>1. \A c \in Check : Owed(j, c)' <=> Owed(j, c)
      BY <1>0, SameUse DEF Owed
    <3>2. OneJob(j)'
      BY <1>0, <2>0, SameUse DEF OneJob, Sound
    <3>3. ~Passing(j)'
      BY <1>0, <1>1, <1>2, <2>2, SameUse DEF Passing
    <3>4. ASSUME NEW c \in Check
          PROVE  /\ check'[j][c] \in {"pending", "processing"} => Owed(j, c)'
                 /\ Owed(j, c)' => \/ check'[j][c] \in {"pending", "processing", "failed"}
                                   \/ ToInsert(j, c)'
      BY <1>2, <1>4, <2>0, <2>2, <3>1 DEF Sound, OwedIsOpen, ToInsert
    <3> QED BY <3>2, <3>3, <3>4 DEF Sound, PassOwesNothing, OwedIsOpen
  <2> QED BY <2>1, <2>2
<1>7. Undisturbed'
  BY <1>0, <1>6, SoundIsUndisturbed
<1> QED BY <1>3, <1>5, <1>7

-----------------------------------------------------------------------------
(* The orchestrator's steps.                                               *)

\* It goes on with runs that it has been at.
Stays ==
    /\ UNCHANGED <<next, backfill>>
    /\ \A i \in RunId : Used(i)' => Used(i)
    /\ \A i \in RunId, c \in Check :
          check'[i][c] # check[i][c] => Used(i) /\ check'[i][c] \in CheckStatus

LEMMA StaysInv ==
    ASSUME RunsInv, Stays
    PROVE  OwnRuns' /\ Bare' /\ Kinds'
<1>0. /\ TypeOK /\ OwnRuns /\ Bare /\ Kinds
      /\ next \in Nat /\ backfill.run \in RunId /\ RunId \subseteq Nat
      /\ UNCHANGED <<next, backfill>>
  BY Names DEF RunsInv, TypeOK, Stays
<1>1. OwnRuns'
  BY <1>0 DEF OwnRuns, Stays
<1>2. Kinds'
  BY <1>0 DEF Kinds, Stays
<1>3. ASSUME NEW i \in RunId, NEW c \in Check, i >= next
      PROVE  check'[i][c] = "none"
  <2>1. ~Used(i)
    BY <1>0, <1>3 DEF OwnRuns
  <2>2. check[i][c] = "none"
    BY <1>0, <1>3 DEF Bare
  <2> QED BY <2>1, <2>2 DEF Stays
<1>4. ASSUME NEW c \in Check, backfill.at # "idle"
      PROVE  check'[backfill.run][c] = "none"
  <2>1. ~Used(backfill.run)
    BY <1>0, <1>4 DEF OwnRuns
  <2>2. check[backfill.run][c] = "none"
    BY <1>0, <1>4 DEF Bare
  <2> QED BY <1>0, <2>1, <2>2 DEF Stays
<1>5. backfill.at # "idle" => backfill.run < next
  BY <1>0 DEF Bare
<1>6. Bare'
  BY <1>0, <1>3, <1>4, <1>5 DEF Bare
<1> QED BY <1>1, <1>2, <1>6

\* What a step of one worker, or of none, leaves as it was.
LEMMA OtherWorkers ==
    ASSUME NEW j, NEW c, worker'[c] = worker[c]
    PROVE  /\ Working(j, c)' <=> Working(j, c)
           /\ ToSettle(j, c)' <=> ToSettle(j, c)
           /\ SaysPassed(j, c)' <=> SaysPassed(j, c)
BY DEF Working, ToSettle, SaysPassed

LEMMA SameSubmitter ==
    ASSUME NEW j, UNCHANGED submitter
    PROVE  /\ Submitting(j)' <=> Submitting(j)
           /\ Inserting(j)' <=> Inserting(j)
           /\ \A c : /\ ToPush(j, c)' <=> ToPush(j, c)
                     /\ ToInsert(j, c)' <=> ToInsert(j, c)
BY DEF Submitting, Inserting, ToPush, ToInsert

\* A run that no request is at, before or after.
LEMMA NoSubmitter ==
    ASSUME NEW j, ~Submitting(j), ~Submitting(j)'
    PROVE  /\ Inserting(j)' <=> Inserting(j)
           /\ \A c : /\ ToPush(j, c)' <=> ToPush(j, c)
                     /\ ToInsert(j, c)' <=> ToInsert(j, c)
BY DEF Submitting, Inserting, ToPush, ToInsert

\* A run that a worker does not work on, before or after.
LEMMA NoWorker ==
    ASSUME NEW j, NEW c, ~Working(j, c), ~Working(j, c)'
    PROVE  /\ ToSettle(j, c)' <=> ToSettle(j, c)
           /\ SaysPassed(j, c)' <=> SaysPassed(j, c)
BY DEF Working, ToSettle, SaysPassed

LEMMA UsedIs ==
    ASSUME NEW i \in RunId, TypeOK
    PROVE  /\ Submitting(i) => Used(i)
           /\ \A c \in Check : i \in jobs[c] \/ Working(i, c) => Used(i)
BY DEF Used

\* A new run: nothing has been at it.
LEMMA CreateInv ==
    ASSUME RunsInv, NEW checks \in Asked, CreateRun(checks)
    PROVE  OwnRuns' /\ Bare' /\ Kinds' /\ SubmitterOK' /\ Undisturbed'
<1>0. /\ TypeOK /\ OwnRuns /\ Bare /\ Kinds /\ SubmitterOK /\ Undisturbed
      /\ next \in Nat /\ backfill.run \in RunId /\ RunId \subseteq Nat
  BY Names DEF RunsInv, TypeOK
<1>1. /\ next \in RunId /\ next' = next + 1
      /\ submitter.at = "idle"
      /\ UNCHANGED <<check, payload, jobs, worker, backfill, disturbed>>
      /\ run' = [run EXCEPT ![next] = "processing"]
  BY RoomForOne, <1>0 DEF CreateRun, python
<1>2. /\ checks = <<>> => submitter' = IdleSubmitter
      /\ checks # <<>> => submitter' = [at |-> "insert", run |-> next,
                                        insert |-> checks, push |-> checks]
  BY DEF CreateRun
<1>3. /\ submitter'.at # "idle" =>
            /\ submitter'.at = "insert" /\ submitter'.run = next
            /\ submitter'.insert = checks /\ submitter'.push = checks
            /\ checks # <<>>
      /\ submitter'.at = "idle" => submitter'.insert = <<>>
  BY <1>2 DEF IdleSubmitter
<1>4. /\ ~Used(next)
      /\ \A c \in Check : check[next][c] = "none"
  BY <1>0, <1>1 DEF OwnRuns, Bare
<1>5. \A i : ~Submitting(i)
  BY <1>1 DEF Submitting
<1>6. \A i : Submitting(i)' => i = next
  BY <1>3 DEF Submitting
<1>7. \A i, c : /\ Working(i, c)' <=> Working(i, c)
                /\ ToSettle(i, c)' <=> ToSettle(i, c)
                /\ SaysPassed(i, c)' <=> SaysPassed(i, c)
  BY <1>1 DEF Working, ToSettle, SaysPassed
<1>8. OwnRuns'
  <2> SUFFICES ASSUME NEW i \in RunId, Used(i)'
               PROVE  i < next' /\ (backfill'.at # "idle" => i # backfill'.run)
    BY DEF OwnRuns
  <2>1. CASE i = next
    <3>1. backfill.at # "idle" => backfill.run < next
      BY <1>0 DEF Bare
    <3> QED BY <1>0, <1>1, <2>1, <3>1
  <2>2. CASE i # next
    <3>1. Used(i)
      BY <1>1, <1>6, <1>7, <2>2 DEF Used
    <3>2. i < next /\ (backfill.at # "idle" => i # backfill.run)
      BY <1>0, <3>1 DEF OwnRuns
    <3> QED BY <1>0, <1>1, <3>2
  <2> QED BY <2>1, <2>2
<1>9. Bare'
  <2>1. \A i \in RunId : i >= next' => i >= next
    BY <1>0, <1>1
  <2>2. backfill.run < next => backfill.run < next'
    <3>1. backfill.run \in Nat
      BY <1>0
    <3> QED BY <1>0, <1>1, <3>1
  <2> QED BY <1>0, <1>1, <2>1, <2>2 DEF Bare
<1>10. Kinds'
  BY <1>0, <1>1 DEF Kinds
<1>11. SubmitterOK'
  <2>1. Distinct(checks)
    BY RunsAssumption DEF Distinct
  <2>2. submitter'.at = "insert" <=> submitter'.insert # <<>>
    BY <1>3
  <2> QED BY <1>3, <2>1, <2>2 DEF SubmitterOK
<1>12. ASSUME NEW j \in RunId \ disturbed
       PROVE  Sound(j)'
  <2>0. Sound(j)
    BY <1>0, UndisturbedIsSound
  <2>1. CASE j # next
    <3>1. ~Submitting(j) /\ ~Submitting(j)'
      BY <1>5, <1>6, <2>1
    <3>2. run'[j] = run[j]
      BY <1>0, <1>1, <2>1 DEF TypeOK
    <3>3. SameRun(j)
      BY <1>1, <1>7, <3>1, <3>2, NoSubmitter DEF SameRun
    <3> QED BY <2>0, <3>3, SameRunSound
  <2>2. CASE j = next
    <3>1. \A c \in Check : j \notin jobs'[c] /\ ~Working(j, c)' /\ check'[j][c] = "none"
      BY <1>1, <1>4, <1>7, <2>2 DEF Used
    <3>2. OneJob(j)'
      BY <3>1 DEF OneJob
    <3>3. \A c \in Check : ~ToSettle(j, c)' /\ ~SaysPassed(j, c)'
      BY <3>1 DEF Working, ToSettle, SaysPassed
    <3>4. \A c \in Check : Owed(j, c)' => ToInsert(j, c)'
      BY <1>3, <3>1, <3>3 DEF Owed, ToPush, ToInsert, Submitting, Inserting
    <3>5. OwedIsOpen(j)'
      BY <3>1, <3>4 DEF OwedIsOpen
    <3>6. run'[j] = "processing"
      BY <1>0, <1>1, <2>2 DEF TypeOK
    <3>7. ~Passing(j)'
      BY <3>3, <3>6 DEF Passing
    <3> QED BY <3>2, <3>5, <3>7 DEF Sound, PassOwesNothing
  <2> QED BY <2>1, <2>2
<1>13. Undisturbed'
  BY <1>1, <1>12, SoundIsUndisturbed
<1> QED BY <1>8, <1>9, <1>10, <1>11, <1>13

LEMMA InsertInv ==
    ASSUME RunsInv, InsertCheck
    PROVE  OwnRuns' /\ Bare' /\ Kinds' /\ SubmitterOK' /\ Undisturbed'
<1> DEFINE i == submitter.run
           new == Head(submitter.insert)
<1>0. TypeOK /\ SubmitterOK /\ Undisturbed
  BY DEF RunsInv
<1>1. /\ submitter.at = "insert" /\ submitter.insert # <<>>
      /\ submitter.insert \in Seq(Check) /\ i \in RunId
      /\ UNCHANGED <<run, payload, next, backfill, jobs, worker, disturbed>>
  BY <1>0 DEF InsertCheck, TypeOK, python
<1>2. /\ new \in Check /\ new \in CheckType
      /\ Elements(submitter.insert) = {new} \cup Elements(Tail(submitter.insert))
      /\ Len(submitter.insert) = 1 =>
            Elements(submitter.insert) = {new} /\ Tail(submitter.insert) = <<>>
      /\ Len(submitter.insert) # 1 => Tail(submitter.insert) # <<>>
  BY <1>1, HeadAndTail, Names
<1>3. /\ submitter'.run = i /\ submitter'.push = submitter.push
      /\ submitter'.insert = Tail(submitter.insert)
      /\ submitter'.at = IF Len(submitter.insert) = 1 THEN "push" ELSE "insert"
  BY <1>0, <1>1 DEF InsertCheck, TypeOK
<1>4. \A j \in RunId, c \in Check :
         check'[j][c] = IF j = i /\ c = new THEN "pending" ELSE check[j][c]
  BY <1>0, <1>1, <1>2 DEF InsertCheck, TypeOK
<1>5. Submitting(i) /\ \A j : Submitting(j)' <=> Submitting(j)
  BY <1>1, <1>3 DEF Submitting
<1>6. \A j, c : /\ ToPush(j, c)' <=> ToPush(j, c)
                /\ Working(j, c)' <=> Working(j, c)
                /\ ToSettle(j, c)' <=> ToSettle(j, c)
                /\ SaysPassed(j, c)' <=> SaysPassed(j, c)
  BY <1>1, <1>3, <1>5 DEF ToPush, Working, ToSettle, SaysPassed
<1> HIDE DEF i, new
<1>7. Stays
  <2>1. \A j \in RunId : Used(j)' => Used(j)
    BY <1>1, <1>5, <1>6 DEF Used
  <2>2. Used(i) /\ "pending" \in CheckStatus
    BY <1>5 DEF Used, CheckStatus
  <2> QED BY <1>1, <1>4, <2>1, <2>2 DEF Stays
<1>8. SubmitterOK'
  <2>1. submitter'.at = "insert" <=> submitter'.insert # <<>>
    BY <1>2, <1>3
  <2>2. Elements(submitter'.insert) \subseteq Elements(submitter'.push)
    BY <1>0, <1>1, <1>2, <1>3 DEF SubmitterOK
  <2> QED BY <1>0, <1>1, <1>3, <2>1, <2>2 DEF SubmitterOK
<1>9. ASSUME NEW j \in RunId \ disturbed
      PROVE  Sound(j)'
  <2>0. Sound(j)
    BY <1>0, UndisturbedIsSound
  <2>1. CASE j # i
    <3>1. ~Submitting(j) /\ ~Submitting(j)'
      BY <1>5, <2>1 DEF Submitting, i
    <3>2. SameRun(j)
      BY <1>1, <1>4, <1>6, <2>1, <3>1, NoSubmitter DEF SameRun
    <3> QED BY <2>0, <3>2, SameRunSound
  <2>2. CASE j = i
    <3>1. Inserting(j)
      BY <1>1, <2>2 DEF Inserting, i
    <3>2. OneJob(j)'
      BY <1>1, <1>6, <2>0, <3>1 DEF Sound, OneJob
    <3>3. \A c \in Check : Owed(j, c)' <=> Owed(j, c)
      BY <1>1, <1>6 DEF Owed
    <3>4. Owed(j, new)
      BY <1>0, <1>1, <1>2, <1>5, <2>2 DEF Owed, ToPush, SubmitterOK
    <3>5. ~Passing(j)'
      BY <1>1, <1>2, <1>6, <2>0, <3>4 DEF Sound, PassOwesNothing, Passing
    <3>6. ASSUME NEW c \in Check, c # new, ToInsert(j, c)
          PROVE  ToInsert(j, c)'
      BY <1>1, <1>2, <1>3, <2>2, <3>6 DEF ToInsert, Inserting, i
    <3>7. OwedIsOpen(j)'
      BY <1>4, <2>0, <2>2, <3>3, <3>4, <3>6 DEF Sound, OwedIsOpen
    <3> QED BY <3>2, <3>5, <3>7 DEF Sound, PassOwesNothing
  <2> QED BY <2>1, <2>2
<1>10. Undisturbed'
  BY <1>1, <1>9, SoundIsUndisturbed
<1> QED BY <1>7, <1>8, <1>10, StaysInv

\* The request goes on to the checks that are left, or ends.
LEMMA PushGoesOn ==
    ASSUME TypeOK, SubmitterOK, submitter.at \in {"push", "mark"},
           submitter' = Pushed
    PROVE  /\ Head(submitter.push) \in Check /\ Head(submitter.push) \in CheckType
           /\ ToPush(submitter.run, Head(submitter.push))
           /\ SubmitterOK'
           /\ \A j : ~Inserting(j) /\ ~Inserting(j)'
           /\ \A j : Submitting(j) => j = submitter.run
           /\ \A j : Submitting(j)' => Submitting(j)
           /\ \A j, c : ToPush(j, c)' <=> ToPush(j, c) /\ c # Head(submitter.push)
           /\ \A j, c : ~ToInsert(j, c) /\ ~ToInsert(j, c)'
<1> DEFINE push == submitter.push
<1>0. /\ submitter \in SubmitterType /\ push \in Seq(Check) /\ push # <<>>
      /\ submitter.insert = <<>> /\ Distinct(push)
  BY DEF TypeOK, SubmitterType, SubmitterOK
<1>1. /\ Head(push) \in Check /\ Head(push) \in CheckType /\ Tail(push) \in Seq(Check)
      /\ Elements(push) = {Head(push)} \cup Elements(Tail(push))
      /\ Len(push) = 1 => Elements(push) = {Head(push)}
      /\ Len(push) # 1 => Tail(push) # <<>>
      /\ Distinct(Tail(push)) /\ Head(push) \notin Elements(Tail(push))
  BY <1>0, HeadAndTail, Names
<1>2. /\ Len(push) = 1 => submitter' = IdleSubmitter
      /\ Len(push) # 1 =>
            /\ submitter'.at = "push" /\ submitter'.run = submitter.run
            /\ submitter'.push = Tail(push) /\ submitter'.insert = <<>>
  BY <1>0 DEF Pushed, SubmitterType
<1>3. Elements(<<>>) = {}
  BY DEF Elements
<1>4. SubmitterOK'
  <2>1. CASE Len(push) = 1
    BY <1>2, <2>1 DEF SubmitterOK, IdleSubmitter
  <2>2. CASE Len(push) # 1
    <3>1. /\ submitter'.at = "push" /\ submitter'.insert = <<>>
          /\ submitter'.push # <<>> /\ Distinct(submitter'.push)
          /\ Elements(submitter'.insert) = {}
      BY <1>1, <1>2, <1>3, <2>2
    <3> QED BY <3>1 DEF SubmitterOK
  <2> QED BY <2>1, <2>2
<1>5. /\ \A j : Submitting(j) <=> j = submitter.run
      /\ \A j : Submitting(j)' <=> (j = submitter.run /\ Len(push) # 1)
  BY <1>2 DEF Submitting, IdleSubmitter
<1>6. \A j : ~Inserting(j) /\ ~Inserting(j)'
  BY <1>2 DEF Inserting, IdleSubmitter
<1>7. \A j, c : ToPush(j, c)' <=> ToPush(j, c) /\ c # Head(push)
  BY <1>1, <1>2, <1>5 DEF ToPush
<1>8. ToPush(submitter.run, Head(push))
  BY <1>1, <1>5 DEF ToPush
<1> QED BY <1>1, <1>4, <1>5, <1>6, <1>7, <1>8 DEF ToInsert

LEMMA PushInv ==
    ASSUME RunsInv, Push
    PROVE  OwnRuns' /\ Bare' /\ Kinds' /\ SubmitterOK' /\ Undisturbed'
<1> DEFINE i == submitter.run
           c == Head(submitter.push)
<1>0. TypeOK /\ SubmitterOK /\ Undisturbed
  BY DEF RunsInv
<1>1. /\ submitter.at = "push" /\ submitter' = Pushed /\ i \in RunId
      /\ UNCHANGED <<run, check, payload, next, backfill, worker, disturbed>>
  BY <1>0 DEF Push, TypeOK, python, tables
<1>2. /\ c \in Check /\ ToPush(i, c) /\ SubmitterOK'
      /\ \A j : ~Inserting(j) /\ ~Inserting(j)'
      /\ \A j : Submitting(j)' => Submitting(j)
      /\ \A j, d : ToPush(j, d)' <=> ToPush(j, d) /\ d # c
      /\ \A j, d : ~ToInsert(j, d) /\ ~ToInsert(j, d)'
  BY <1>0, <1>1, PushGoesOn
<1>3. \A d \in Check : jobs'[d] = IF d = c THEN jobs[d] \cup {i} ELSE jobs[d]
  BY <1>0, <1>2 DEF Push, TypeOK
<1>4. \A j, d : /\ Working(j, d)' <=> Working(j, d)
                /\ ToSettle(j, d)' <=> ToSettle(j, d)
                /\ SaysPassed(j, d)' <=> SaysPassed(j, d)
  BY <1>1 DEF Working, ToSettle, SaysPassed
<1>5. \A j : ToPush(j, c) <=> j = i
  BY <1>2 DEF ToPush, Submitting
<1>6. Submitting(i)
  BY <1>2 DEF ToPush
<1> HIDE DEF i, c
<1>7. Stays
  <2>1. \A j \in RunId : Used(j)' => Used(j)
    BY <1>1, <1>2, <1>3, <1>4, <1>6 DEF Used
  <2> QED BY <1>1, <2>1 DEF Stays
<1>8. ASSUME NEW j \in RunId \ disturbed
      PROVE  Sound(j)'
  <2>0. Sound(j)
    BY <1>0, UndisturbedIsSound
  <2>1. \A d \in Check : Owed(j, d)' <=> Owed(j, d)
    <3> SUFFICES ASSUME NEW d \in Check PROVE Owed(j, d)' <=> Owed(j, d)
      OBVIOUS
    <3>1. CASE d # c
      BY <1>2, <1>3, <1>4, <3>1 DEF Owed
    <3>2. CASE d = c /\ j = i
      <4>1. ToPush(j, d)
        BY <1>2, <3>2
      <4>2. j \in jobs'[d]
        BY <1>3, <3>2
      <4> QED BY <4>1, <4>2 DEF Owed
    <3>3. CASE d = c /\ j # i
      <4>1. ~ToPush(j, d) /\ ~ToPush(j, d)'
        BY <1>2, <1>5, <3>3
      <4>2. j \in jobs'[d] <=> j \in jobs[d]
        BY <1>3, <3>3
      <4>3. ToSettle(j, d)' <=> ToSettle(j, d)
        BY <1>4
      <4> QED BY <4>1, <4>2, <4>3 DEF Owed
    <3> QED BY <3>1, <3>2, <3>3
  <2>2. OneJob(j)'
    BY <1>2, <1>3, <1>4, <1>5, <2>0 DEF Sound, OneJob
  <2>3. Passing(j)' <=> Passing(j)
    BY <1>1, <1>4 DEF Passing
  <2>4. OwedIsOpen(j)'
    BY <1>1, <1>2, <2>0, <2>1 DEF Sound, OwedIsOpen
  <2> QED BY <1>1, <2>0, <2>1, <2>2, <2>3, <2>4 DEF Sound, PassOwesNothing
<1>9. Undisturbed'
  BY <1>1, <1>8, SoundIsUndisturbed
<1> QED BY <1>2, <1>7, <1>9, StaysInv

LEMMA TimeoutInv ==
    ASSUME RunsInv, PushTimesOut
    PROVE  OwnRuns' /\ Bare' /\ Kinds' /\ SubmitterOK' /\ Undisturbed'
<1> DEFINE i == submitter.run
           c == Head(submitter.push)
<1>0. TypeOK /\ SubmitterOK /\ Undisturbed
  BY DEF RunsInv
<1>1. /\ submitter.at = "push" /\ i \in RunId
      /\ UNCHANGED <<run, check, payload, next, backfill, worker>>
      /\ disturbed' = disturbed \cup {i}
      /\ submitter'.at = "mark" /\ submitter'.run = i
      /\ submitter'.insert = submitter.insert /\ submitter'.push = submitter.push
  BY <1>0 DEF PushTimesOut, TypeOK, python, tables
<1>2. c \in Check
  BY <1>0, <1>1, PushedIs
<1>3. \A d \in Check : jobs'[d] \in {jobs[d], jobs[d] \cup {i}}
  <2>1. jobs' = [jobs EXCEPT ![c] = @ \cup {i}] \/ jobs' = jobs
    BY DEF PushTimesOut
  <2> QED BY <1>0, <1>2, <2>1 DEF TypeOK
<1>4. \A j, d : /\ Working(j, d)' <=> Working(j, d)
                /\ ToSettle(j, d)' <=> ToSettle(j, d)
                /\ SaysPassed(j, d)' <=> SaysPassed(j, d)
  BY <1>1 DEF Working, ToSettle, SaysPassed
<1>5. \A j : Submitting(j)' <=> Submitting(j)
  BY <1>1 DEF Submitting
<1>6. Submitting(i) /\ \A j : j # i => ~Submitting(j)
  BY <1>1 DEF Submitting
<1>7. SubmitterOK'
  BY <1>0, <1>1 DEF SubmitterOK
<1> HIDE DEF i, c
<1>8. Stays
  <2>1. \A j \in RunId : Used(j)' => Used(j)
    BY <1>1, <1>3, <1>4, <1>5, <1>6 DEF Used
  <2> QED BY <1>1, <2>1 DEF Stays
<1>9. ASSUME NEW j \in RunId \ disturbed'
      PROVE  Sound(j)'
  <2>0. Sound(j) /\ j # i
    BY <1>0, <1>1, UndisturbedIsSound
  <2>1. SameRun(j)
    BY <1>1, <1>3, <1>4, <1>5, <1>6, <2>0, NoSubmitter DEF SameRun
  <2> QED BY <2>0, <2>1, SameRunSound
<1>10. Undisturbed'
  BY <1>9, SoundIsUndisturbed
<1> QED BY <1>7, <1>8, <1>10, StaysInv

LEMMA MarkInv ==
    ASSUME RunsInv, MarkFailed
    PROVE  OwnRuns' /\ Bare' /\ Kinds' /\ SubmitterOK' /\ Undisturbed'
<1> DEFINE i == submitter.run
           c == Head(submitter.push)
<1>0. TypeOK /\ SubmitterOK /\ Undisturbed
  BY DEF RunsInv
<1>1. /\ submitter.at = "mark" /\ submitter' = Pushed
      /\ i \in RunId /\ i \in disturbed
      /\ UNCHANGED <<run, payload, next, backfill, jobs, worker, disturbed>>
  BY <1>0 DEF MarkFailed, TypeOK, python, SubmitterOK
<1>2. /\ c \in Check /\ c \in CheckType /\ ToPush(i, c) /\ SubmitterOK'
      /\ \A j : Submitting(j) => j = i
      /\ \A j : Submitting(j)' => Submitting(j)
  BY <1>0, <1>1, PushGoesOn
<1>3. \A j \in RunId, d \in Check :
         check'[j][d] = IF j = i /\ d = c THEN "failed" ELSE check[j][d]
  BY <1>0, <1>1, <1>2 DEF MarkFailed, TypeOK
<1>4. \A j, d : /\ Working(j, d)' <=> Working(j, d)
                /\ ToSettle(j, d)' <=> ToSettle(j, d)
                /\ SaysPassed(j, d)' <=> SaysPassed(j, d)
  BY <1>1 DEF Working, ToSettle, SaysPassed
<1> HIDE DEF i, c
<1>5. Stays
  <2>1. \A j \in RunId : Used(j)' => Used(j)
    BY <1>1, <1>2, <1>4 DEF Used
  <2>2. Used(i) /\ "failed" \in CheckStatus
    BY <1>2 DEF ToPush, Used, CheckStatus
  <2> QED BY <1>1, <1>3, <2>1, <2>2 DEF Stays
<1>6. ASSUME NEW j \in RunId \ disturbed
      PROVE  Sound(j)'
  <2>0. Sound(j) /\ j # i
    BY <1>0, <1>1, UndisturbedIsSound
  <2>1. ~Submitting(j) /\ ~Submitting(j)'
    BY <1>2, <2>0
  <2>2. SameRun(j)
    BY <1>1, <1>3, <1>4, <2>0, <2>1, NoSubmitter DEF SameRun
  <2> QED BY <2>0, <2>2, SameRunSound
<1>7. Undisturbed'
  BY <1>1, <1>6, SoundIsUndisturbed
<1> QED BY <1>2, <1>5, <1>7, StaysInv

-----------------------------------------------------------------------------
(* The steps of the workers.                                               *)

\* A worker that stops, or goes on with another check, leaves the others be.
LEMMA WorkerStays ==
    ASSUME RunsInv, NEW c \in Check, NEW i \in RunId,
           worker[c].run = i \/ i \in jobs[c],
           worker[c].at # "idle" \/ i \in jobs[c],
           worker'[c].at # "idle" => worker'[c].run = i,
           \A d \in Check \ {c} : worker'[d] = worker[d] /\ jobs'[d] = jobs[d],
           jobs'[c] \subseteq jobs[c] \cup {i},
           UNCHANGED <<next, backfill, submitter>>,
           \A j \in RunId \ {i} : payload'[j] = payload[j],
           NEW status \in CheckStatus,
           \A j \in RunId, d \in Check :
              check'[j][d] \in {check[j][d]} \cup (IF j = i THEN {status} ELSE {})
    PROVE  Stays /\ Used(i)
<1>1. Used(i)
  BY DEF Used, Working
<1>2. ASSUME NEW j \in RunId, Used(j)' PROVE Used(j)
  <2> SUFFICES ASSUME j # i PROVE Used(j)
    BY <1>1
  <2>1. Submitting(j)' <=> Submitting(j)
    BY DEF Submitting
  <2>2. \A d \in Check : j \in jobs'[d] => j \in jobs[d]
    OBVIOUS
  <2>3. \A d \in Check : Working(j, d)' => Working(j, d)
    BY DEF Working
  <2> QED BY <1>2, <2>1, <2>2, <2>3 DEF Used
<1> QED BY <1>1, <1>2 DEF Stays

\* The runs that a worker is not at, before or after its step.
LEMMA OtherRuns ==
    ASSUME RunsInv, NEW c \in Check, NEW i \in RunId, NEW j \in RunId \ disturbed, j # i,
           worker[c].at # "idle" => worker[c].run = i,
           worker'[c].at # "idle" => worker'[c].run = i,
           \A d \in Check \ {c} : worker'[d] = worker[d],
           \A d \in Check : (j \in jobs'[d]) <=> (j \in jobs[d]),
           UNCHANGED submitter,
           run'[j] = run[j],
           \A d \in Check : check'[j][d] = check[j][d]
    PROVE  Sound(j)'
<1>0. Sound(j)
  BY UndisturbedIsSound DEF RunsInv
<1>1. ~Working(j, c) /\ ~Working(j, c)'
  BY DEF Working
<1>2. ASSUME NEW d \in Check
      PROVE  /\ Working(j, d)' <=> Working(j, d)
             /\ ToSettle(j, d)' <=> ToSettle(j, d)
             /\ SaysPassed(j, d)' <=> SaysPassed(j, d)
  BY <1>1, NoWorker, OtherWorkers
<1>3. SameRun(j)
  BY <1>2, SameSubmitter DEF SameRun
<1> QED BY <1>0, <1>3, SameRunSound

LEMMA BeginInv ==
    ASSUME RunsInv, NEW c \in Check, NEW i \in RunId, Begin(i, c)
    PROVE  OwnRuns' /\ Bare' /\ Kinds' /\ SubmitterOK' /\ Undisturbed'
<1>0. TypeOK /\ SubmitterOK /\ Undisturbed
  BY DEF RunsInv
<1>1. /\ worker[c].at = "idle" /\ i \in jobs[c] /\ c \in CheckType
      /\ UNCHANGED <<run, payload, next, backfill, submitter, disturbed>>
  BY Names DEF Begin, python
<1>2. /\ worker'[c].at = "fetching" /\ worker'[c].run = i
      /\ \A d \in Check \ {c} : worker'[d] = worker[d] /\ jobs'[d] = jobs[d]
      /\ jobs'[c] = jobs[c] \ {i}
  BY <1>0 DEF Begin, TypeOK, IdleWorker
<1>3. \A j \in RunId, d \in Check :
         check'[j][d] = IF j = i /\ d = c THEN "processing" ELSE check[j][d]
  BY <1>0, <1>1 DEF Begin, TypeOK
<1>4. Stays
  <2>1. "processing" \in CheckStatus
    BY DEF CheckStatus
  <2> QED BY <1>1, <1>2, <1>3, <2>1, WorkerStays
<1>5. SubmitterOK'
  BY <1>0, <1>1 DEF SubmitterOK
<1>6. ASSUME NEW j \in RunId \ disturbed
      PROVE  Sound(j)'
  <2>0. Sound(j)
    BY <1>0, UndisturbedIsSound
  <2>1. CASE j # i
    BY <1>1, <1>2, <1>3, <2>1, OtherRuns
  <2>2. CASE j = i
    <3>1. /\ j \in jobs[c] /\ ~ToPush(j, c) /\ ~Inserting(j) /\ ~Working(j, c)
          /\ Owed(j, c)
      BY <1>1, <2>0, <2>2 DEF Sound, OneJob, Owed
    <3>2. /\ Inserting(j)' <=> Inserting(j)
          /\ \A d : /\ ToPush(j, d)' <=> ToPush(j, d)
                    /\ ToInsert(j, d)' <=> ToInsert(j, d)
      BY <1>1, SameSubmitter
    <3>3. \A d \in Check \ {c} : /\ Working(j, d)' <=> Working(j, d)
                                 /\ ToSettle(j, d)' <=> ToSettle(j, d)
                                 /\ SaysPassed(j, d)' <=> SaysPassed(j, d)
      BY <1>2, OtherWorkers
    <3>4. \A d \in Check \ {c} : j \in jobs'[d] <=> j \in jobs[d]
      BY <1>2
    <3>5. ~(j \in jobs'[c]) /\ ToSettle(j, c)' /\ ~SaysPassed(j, c)'
      BY <1>2, <2>2 DEF ToSettle, SaysPassed
    <3>6. OneJob(j)'
      <4>1. ASSUME NEW d \in Check \ {c}
            PROVE  /\ ToPush(j, d)' => j \notin jobs'[d] /\ ~Working(j, d)'
                   /\ j \in jobs'[d] => ~Working(j, d)'
        BY <2>0, <3>2, <3>3, <3>4 DEF Sound, OneJob
      <4>2. ~ToPush(j, c)' /\ ~Inserting(j)'
        BY <3>1, <3>2
      <4> QED BY <3>5, <4>1, <4>2 DEF OneJob
    <3>7. \A d \in Check : Owed(j, d)' <=> Owed(j, d)
      BY <3>1, <3>2, <3>3, <3>4, <3>5 DEF Owed
    <3>8. OwedIsOpen(j)'
      BY <1>3, <2>0, <2>2, <3>1, <3>2, <3>7 DEF Sound, OwedIsOpen
    <3>9. ~Passing(j)
      BY <2>0, <3>1 DEF Sound, PassOwesNothing
    <3>10. ~Passing(j)'
      BY <1>1, <3>3, <3>5, <3>9 DEF Passing
    <3> QED BY <3>6, <3>8, <3>10 DEF Sound, PassOwesNothing
  <2> QED BY <2>1, <2>2
<1>7. Undisturbed'
  BY <1>1, <1>6, SoundIsUndisturbed
<1> QED BY <1>4, <1>5, <1>7, StaysInv

LEMMA SettleInv ==
    ASSUME RunsInv, NEW c \in Check, NEW status \in Verdict, Settle(c, status)
    PROVE  OwnRuns' /\ Bare' /\ Kinds' /\ SubmitterOK' /\ Undisturbed'
<1> DEFINE i == worker[c].run
<1>0. TypeOK /\ SubmitterOK /\ Undisturbed
  BY DEF RunsInv
<1>1. /\ worker[c].at = "fetching" /\ i \in RunId /\ c \in CheckType
      /\ UNCHANGED <<run, next, backfill, jobs, submitter, disturbed>>
  BY <1>0, Names DEF Settle, python, TypeOK
<1>2. /\ worker'[c].at = "settled" /\ worker'[c].run = i
      /\ \A d \in Check \ {c} : worker'[d] = worker[d]
  BY <1>0 DEF Settle, TypeOK
<1>3. \A j \in RunId, d \in Check :
         check'[j][d] = IF j = i /\ d = c THEN status ELSE check[j][d]
  BY <1>0, <1>1 DEF Settle, TypeOK
<1>4. \A j \in RunId \ {i} : payload'[j] = payload[j]
  BY <1>0, <1>1 DEF Settle, TypeOK
<1>5. status \in CheckStatus
  BY Names
<1> HIDE DEF i
<1>6. Stays
  <2>1. worker[c].run = i
    BY DEF i
  <2> QED BY <1>1, <1>2, <1>3, <1>4, <1>5, <2>1, WorkerStays
<1>7. SubmitterOK'
  BY <1>0, <1>1 DEF SubmitterOK
<1>8. ASSUME NEW j \in RunId \ disturbed
      PROVE  Sound(j)'
  <2>0. Sound(j)
    BY <1>0, UndisturbedIsSound
  <2>1. CASE j # i
    <3>1. worker[c].run = i
      BY DEF i
    <3> QED BY <1>1, <1>2, <1>3, <2>1, <3>1, OtherRuns
  <2>2. CASE j = i
    <3>0. ToSettle(j, c) /\ Working(j, c)
      BY <1>1, <2>2 DEF ToSettle, Working, i
    <3>1. j \notin jobs[c] /\ ~ToPush(j, c) /\ Owed(j, c) /\ ~Inserting(j)
      BY <2>0, <3>0 DEF Sound, OneJob, Owed
    <3>2. /\ Inserting(j)' <=> Inserting(j)
          /\ \A d : /\ ToPush(j, d)' <=> ToPush(j, d)
                    /\ ToInsert(j, d)' <=> ToInsert(j, d)
      BY <1>1, SameSubmitter
    <3>3. \A d \in Check \ {c} : /\ Working(j, d)' <=> Working(j, d)
                                 /\ ToSettle(j, d)' <=> ToSettle(j, d)
                                 /\ SaysPassed(j, d)' <=> SaysPassed(j, d)
      BY <1>2, OtherWorkers
    <3>4. Working(j, c)' /\ ~ToSettle(j, c)' /\ ~SaysPassed(j, c)'
      BY <1>2, <2>2 DEF ToSettle, SaysPassed, Working
    <3>5. \A d \in Check : Working(j, d)' <=> Working(j, d)
      BY <3>0, <3>3, <3>4
    <3>6. OneJob(j)'
      BY <1>1, <2>0, <3>2, <3>5 DEF Sound, OneJob
    <3>7. \A d \in Check : Owed(j, d)' <=> Owed(j, d) /\ d # c
      BY <1>1, <3>1, <3>2, <3>3, <3>4 DEF Owed
    <3>8. status \notin {"pending", "processing"}
      BY RunsAssumption
    <3>9. OwedIsOpen(j)'
      <4>1. ASSUME NEW d \in Check \ {c}
            PROVE  /\ check'[j][d] \in {"pending", "processing"} => Owed(j, d)'
                   /\ Owed(j, d)' => \/ check'[j][d] \in {"pending", "processing", "failed"}
                                     \/ ToInsert(j, d)'
        BY <1>3, <2>0, <3>2, <3>7 DEF Sound, OwedIsOpen
      <4>2. check'[j][c] = status /\ ~Owed(j, c)'
        BY <1>3, <2>2, <3>7
      <4> QED BY <3>8, <4>1, <4>2 DEF OwedIsOpen
    <3>10. ~Passing(j)
      BY <2>0, <3>1 DEF Sound, PassOwesNothing
    <3>11. ~Passing(j)'
      BY <1>1, <3>3, <3>4, <3>10 DEF Passing
    <3> QED BY <3>6, <3>9, <3>11 DEF Sound, PassOwesNothing
  <2> QED BY <2>1, <2>2
<1>9. Undisturbed'
  BY <1>1, <1>8, SoundIsUndisturbed
<1> QED BY <1>6, <1>7, <1>9, StaysInv

\* A run whose statuses come to passed has nothing that waits.
LEMMA PassIsRead ==
    ASSUME NEW statuses, Aggregate(statuses) = "passed"
    PROVE  statuses \cap {"processing", "manual_review_required", "failed",
                          "pending"} = {}
BY DEF Aggregate

LEMMA ReadInv ==
    ASSUME RunsInv, NEW c \in Check, Read(c)
    PROVE  OwnRuns' /\ Bare' /\ Kinds' /\ SubmitterOK' /\ Undisturbed'
<1> DEFINE i == worker[c].run
           statuses == {check[i][d] : d \in Rows(i)}
<1>0. TypeOK /\ SubmitterOK /\ Undisturbed /\ Kinds
  BY DEF RunsInv
<1>1. /\ worker[c].at = "settled" /\ i \in RunId
      /\ UNCHANGED <<run, check, payload, next, backfill, jobs, submitter,
                     disturbed>>
  BY <1>0 DEF Read, python, tables, TypeOK
<1>2. /\ worker'[c].at = "read" /\ worker'[c].run = i
      /\ worker'[c].saw = Aggregate(statuses)
      /\ \A d \in Check \ {c} : worker'[d] = worker[d]
  BY <1>0 DEF Read, TypeOK
<1>3. worker[c].run = i
  OBVIOUS
<1>4. \A d \in Check : check[i][d] = "none" \/ check[i][d] \in statuses
  BY Names DEF Rows
<1> HIDE DEF i, statuses
<1>5. Stays
  <2>1. "failed" \in CheckStatus
    BY DEF CheckStatus
  <2> QED BY <1>1, <1>2, <1>3, <2>1, WorkerStays
<1>6. SubmitterOK'
  BY <1>0, <1>1 DEF SubmitterOK
<1>7. ASSUME NEW j \in RunId \ disturbed
      PROVE  Sound(j)'
  <2>0. Sound(j)
    BY <1>0, UndisturbedIsSound
  <2>1. CASE j # i
    BY <1>1, <1>2, <1>3, <2>1, OtherRuns
  <2>2. CASE j = i
    <3>0. Working(j, c) /\ ~ToSettle(j, c) /\ ~SaysPassed(j, c)
      BY <1>1, <1>3, <2>2 DEF ToSettle, SaysPassed, Working
    <3>1. j \notin jobs[c] /\ ~ToPush(j, c) /\ ~Inserting(j)
      BY <2>0, <3>0 DEF Sound, OneJob
    <3>2. /\ Inserting(j)' <=> Inserting(j)
          /\ \A d : /\ ToPush(j, d)' <=> ToPush(j, d)
                    /\ ToInsert(j, d)' <=> ToInsert(j, d)
      BY <1>1, SameSubmitter
    <3>3. \A d \in Check \ {c} : /\ Working(j, d)' <=> Working(j, d)
                                 /\ ToSettle(j, d)' <=> ToSettle(j, d)
                                 /\ SaysPassed(j, d)' <=> SaysPassed(j, d)
      BY <1>2, OtherWorkers
    <3>4. Working(j, c)' /\ ~ToSettle(j, c)'
      BY <1>2, <2>2 DEF ToSettle, Working
    <3>5. \A d \in Check : Working(j, d)' <=> Working(j, d)
      BY <3>0, <3>3, <3>4
    <3>6. OneJob(j)'
      BY <1>1, <2>0, <3>2, <3>5 DEF Sound, OneJob
    <3>7. \A d \in Check : Owed(j, d)' <=> Owed(j, d)
      BY <1>1, <3>0, <3>2, <3>3, <3>4 DEF Owed
    <3>8. OwedIsOpen(j)'
      BY <1>1, <2>0, <3>2, <3>7 DEF Sound, OwedIsOpen
    <3>9. CASE Passing(j)
      BY <1>1, <2>0, <3>6, <3>7, <3>8, <3>9 DEF Sound, PassOwesNothing
    <3>10. CASE ~Passing(j) /\ SaysPassed(j, c)'
      <4>1. statuses \cap {"processing", "manual_review_required", "failed",
                           "pending"} = {}
        BY <1>2, <3>10, PassIsRead DEF SaysPassed
      <4>2. \A d \in Check : check[j][d] \in {"passed", "none"}
        BY <1>0, <1>4, <2>2, <4>1 DEF Kinds, CheckStatus
      <4>3. \A d \in Check : ~Owed(j, d)
        BY <2>0, <3>1, <4>2 DEF Sound, OwedIsOpen, ToInsert
      <4> QED BY <1>1, <3>6, <3>7, <3>8, <4>2, <4>3 DEF Sound, PassOwesNothing
    <3>11. CASE ~Passing(j) /\ ~SaysPassed(j, c)'
      <4>1. ~Passing(j)'
        BY <1>1, <3>3, <3>11 DEF Passing
      <4> QED BY <3>6, <3>8, <4>1 DEF Sound, PassOwesNothing
    <3> QED BY <3>9, <3>10, <3>11
  <2> QED BY <2>1, <2>2
<1>8. Undisturbed'
  BY <1>1, <1>7, SoundIsUndisturbed
<1> QED BY <1>5, <1>6, <1>8, StaysInv

LEMMA WriteInv ==
    ASSUME RunsInv, NEW c \in Check, Write(c)
    PROVE  OwnRuns' /\ Bare' /\ Kinds' /\ SubmitterOK' /\ Undisturbed'
<1> DEFINE i == worker[c].run
<1>0. TypeOK /\ SubmitterOK /\ Undisturbed
  BY DEF RunsInv
<1>1. /\ worker[c].at = "read" /\ i \in RunId
      /\ UNCHANGED <<check, payload, next, backfill, jobs, submitter, disturbed>>
  BY <1>0 DEF Write, python, TypeOK
<1>2. /\ worker'[c].at = "idle"
      /\ \A d \in Check \ {c} : worker'[d] = worker[d]
  BY <1>0 DEF Write, TypeOK, IdleWorker
<1>3. /\ worker[c].run = i
      /\ \A j \in RunId : run'[j] = IF j = i THEN worker[c].saw ELSE run[j]
  BY <1>0 DEF Write, TypeOK
<1> HIDE DEF i
<1>5. Stays
  <2>1. "failed" \in CheckStatus
    BY DEF CheckStatus
  <2> QED BY <1>1, <1>2, <1>3, <2>1, WorkerStays
<1>6. SubmitterOK'
  BY <1>0, <1>1 DEF SubmitterOK
<1>7. ASSUME NEW j \in RunId \ disturbed
      PROVE  Sound(j)'
  <2>0. Sound(j)
    BY <1>0, UndisturbedIsSound
  <2>1. CASE j # i
    BY <1>1, <1>2, <1>3, <2>1, OtherRuns
  <2>2. CASE j = i
    <3>0. Working(j, c) /\ ~ToSettle(j, c)
      BY <1>1, <1>3, <2>2 DEF ToSettle, Working
    <3>2. /\ Inserting(j)' <=> Inserting(j)
          /\ \A d : /\ ToPush(j, d)' <=> ToPush(j, d)
                    /\ ToInsert(j, d)' <=> ToInsert(j, d)
      BY <1>1, SameSubmitter
    <3>3. \A d \in Check \ {c} : /\ Working(j, d)' <=> Working(j, d)
                                 /\ ToSettle(j, d)' <=> ToSettle(j, d)
                                 /\ SaysPassed(j, d)' <=> SaysPassed(j, d)
      BY <1>2, OtherWorkers
    <3>4. ~Working(j, c)' /\ ~ToSettle(j, c)' /\ ~SaysPassed(j, c)'
      BY <1>2 DEF ToSettle, Working, SaysPassed
    <3>6. OneJob(j)'
      <4>1. \A d \in Check : Working(j, d)' => Working(j, d)
        BY <3>3, <3>4
      <4> QED BY <1>1, <2>0, <3>2, <4>1 DEF Sound, OneJob
    <3>7. \A d \in Check : Owed(j, d)' <=> Owed(j, d)
      BY <1>1, <3>0, <3>2, <3>3, <3>4 DEF Owed
    <3>8. OwedIsOpen(j)'
      BY <1>1, <2>0, <3>2, <3>7 DEF Sound, OwedIsOpen
    <3>9. run'[j] = "passed" => SaysPassed(j, c)
      BY <1>1, <1>3, <2>2 DEF SaysPassed
    <3>10. Passing(j)' => Passing(j)
      BY <3>3, <3>4, <3>9 DEF Passing
    <3> QED BY <1>1, <2>0, <3>6, <3>7, <3>8, <3>10 DEF Sound, PassOwesNothing
  <2> QED BY <2>1, <2>2
<1>8. Undisturbed'
  BY <1>1, <1>7, SoundIsUndisturbed
<1> QED BY <1>5, <1>6, <1>8, StaysInv

\* A repeated job disturbs its run, and no other.
LEMMA RetryInv ==
    ASSUME RunsInv, NEW c \in Check, Retry(c)
    PROVE  OwnRuns' /\ Bare' /\ Kinds' /\ SubmitterOK' /\ Undisturbed'
<1> DEFINE i == worker[c].run
<1>0. TypeOK /\ SubmitterOK /\ Undisturbed
  BY DEF RunsInv
<1>1. /\ worker[c].at # "idle" /\ i \in RunId
      /\ UNCHANGED <<run, check, payload, next, backfill, submitter>>
      /\ disturbed' = disturbed \cup {i}
  BY <1>0 DEF Retry, python, tables, TypeOK
<1>2. /\ worker'[c].at = "idle"
      /\ \A d \in Check \ {c} : worker'[d] = worker[d] /\ jobs'[d] = jobs[d]
      /\ jobs'[c] = jobs[c] \cup {i}
      /\ worker[c].run = i
  BY <1>0 DEF Retry, TypeOK, IdleWorker
<1> HIDE DEF i
<1>5. Stays
  <2>1. "failed" \in CheckStatus
    BY DEF CheckStatus
  <2> QED BY <1>1, <1>2, <2>1, WorkerStays
<1>6. SubmitterOK'
  <2>1. submitter'.at = "mark" => submitter'.run \in disturbed'
    BY <1>0, <1>1 DEF SubmitterOK
  <2> QED BY <1>0, <1>1, <2>1 DEF SubmitterOK
<1>7. ASSUME NEW j \in RunId \ disturbed'
      PROVE  Sound(j)'
  <2>1. j # i /\ j \in RunId \ disturbed
    BY <1>1
  <2>2. \A d \in Check : (j \in jobs'[d]) <=> (j \in jobs[d])
    BY <1>2, <2>1
  <2> QED BY <1>1, <1>2, <2>1, <2>2, OtherRuns
<1>8. Undisturbed'
  BY <1>7, SoundIsUndisturbed
<1> QED BY <1>5, <1>6, <1>8, StaysInv

LEMMA ReprocessInv ==
    ASSUME RunsInv, NEW c \in Check, NEW i \in RunId, Reprocess(i, c)
    PROVE  OwnRuns' /\ Bare' /\ Kinds' /\ SubmitterOK' /\ Undisturbed'
<1>0. TypeOK /\ SubmitterOK /\ Undisturbed
  BY DEF RunsInv
<1>1. /\ Used(i)
      /\ UNCHANGED <<run, check, payload, next, backfill, submitter, worker>>
      /\ disturbed' = disturbed \cup {i}
  BY DEF Reprocess, python, tables, Used
<1>2. \A d \in Check : jobs'[d] = IF d = c THEN jobs[d] \cup {i} ELSE jobs[d]
  BY <1>0 DEF Reprocess, TypeOK
<1>3. \A j, d : /\ Working(j, d)' <=> Working(j, d)
                /\ ToSettle(j, d)' <=> ToSettle(j, d)
                /\ SaysPassed(j, d)' <=> SaysPassed(j, d)
  BY <1>1 DEF Working, ToSettle, SaysPassed
<1>5. Stays
  <2>1. ASSUME NEW j \in RunId, Used(j)' PROVE Used(j)
    <3> SUFFICES ASSUME j # i PROVE Used(j)
      BY <1>1
    <3>1. Submitting(j)' <=> Submitting(j)
      BY <1>1 DEF Submitting
    <3> QED BY <1>1, <1>2, <1>3, <2>1, <3>1 DEF Used
  <2> QED BY <1>1, <2>1 DEF Stays
<1>6. SubmitterOK'
  <2>1. submitter'.at = "mark" => submitter'.run \in disturbed'
    BY <1>0, <1>1 DEF SubmitterOK
  <2> QED BY <1>0, <1>1, <2>1 DEF SubmitterOK
<1>7. ASSUME NEW j \in RunId \ disturbed'
      PROVE  Sound(j)'
  <2>1. j # i /\ j \in RunId \ disturbed
    BY <1>1
  <2>2. Sound(j)
    BY <1>0, <2>1, UndisturbedIsSound
  <2>3. \A d \in Check : (j \in jobs'[d]) <=> (j \in jobs[d])
    BY <1>2, <2>1
  <2>4. SameRun(j)
    BY <1>1, <1>3, <2>3, SameSubmitter DEF SameRun
  <2> QED BY <2>2, <2>4, SameRunSound
<1>8. Undisturbed'
  BY <1>7, SoundIsUndisturbed
<1> QED BY <1>5, <1>6, <1>8, StaysInv

\* Whatever the process was at when it ended is disturbed.
LEMMA CrashInv ==
    ASSUME RunsInv, Crash
    PROVE  OwnRuns' /\ Bare' /\ Kinds' /\ SubmitterOK' /\ Undisturbed'
<1> DEFINE Busy(d) == worker[d].at # "idle"
<1>0. TypeOK /\ SubmitterOK /\ Undisturbed
  BY DEF RunsInv
<1>1. /\ UNCHANGED <<run, check, payload, next, backfill>>
      /\ submitter'.at = "idle" /\ submitter'.insert = <<>>
  BY DEF Crash, python, tables, IdleSubmitter
<1>2. \A d \in Check :
         /\ worker'[d].at = "idle"
         /\ jobs'[d] = IF Busy(d) THEN jobs[d] \cup {worker[d].run} ELSE jobs[d]
  BY DEF Crash, IdleWorker
<1>3. /\ disturbed \subseteq disturbed'
      /\ \A d \in Check : Busy(d) => worker[d].run \in disturbed'
      /\ submitter.at # "idle" => submitter.run \in disturbed'
  BY DEF Crash
<1>4. /\ \A j : ~Submitting(j)'
      /\ \A d \in Check : \A j : ~Working(j, d)'
  BY <1>1, <1>2 DEF Submitting, Working
<1>5. Stays
  <2>1. ASSUME NEW j \in RunId, Used(j)' PROVE Used(j)
    <3>1. \A d \in Check : j \in jobs'[d] => j \in jobs[d] \/ Working(j, d)
      BY <1>2 DEF Working
    <3> QED BY <1>1, <1>4, <2>1, <3>1 DEF Used
  <2> QED BY <1>1, <2>1 DEF Stays
<1>6. SubmitterOK'
  BY <1>1 DEF SubmitterOK
<1>7. ASSUME NEW j \in RunId \ disturbed'
      PROVE  Sound(j)'
  <2>1. Sound(j)
    BY <1>0, <1>3, UndisturbedIsSound
  <2>2. ~Submitting(j) /\ ~Submitting(j)'
    BY <1>3, <1>4 DEF Submitting
  <2>3. ASSUME NEW d \in Check
        PROVE  /\ ~Working(j, d) /\ ~Working(j, d)'
               /\ (j \in jobs'[d]) <=> (j \in jobs[d])
    <3>1. ~Working(j, d)
      BY <1>3 DEF Working
    <3> QED BY <1>2, <1>3, <1>4, <3>1
  <2>4. SameRun(j)
    BY <1>1, <2>2, <2>3, NoSubmitter, NoWorker DEF SameRun
  <2> QED BY <2>1, <2>4, SameRunSound
<1>8. Undisturbed'
  BY <1>7, SoundIsUndisturbed
<1> QED BY <1>5, <1>6, <1>8, StaysInv

-----------------------------------------------------------------------------
(* The invariant.                                                          *)

LEMMA PythonLeaves ==
    ASSUME \/ DataCheck \/ Orchestrator
           \/ \E i \in RunId : Sweep(i)
    PROVE  UNCHANGED <<marked, backfill>>
<1>1. CASE DataCheck
  BY <1>1 DEF DataCheck, Submit, SendBack, Execute, LoseJob, Ingest, tables
<1>2. ASSUME NEW i \in RunId, Sweep(i)
      PROVE  UNCHANGED <<marked, backfill>>
  BY <1>2 DEF Sweep, Retire, Terminalize, Requeue, python
<1>3. CASE Orchestrator
  BY <1>3 DEF Orchestrator, CreateRun, SubmitterStep, InsertCheck, Push,
     MarkFailed, PushTimesOut, Crash, WorkerStep, Begin, Settle, Read, Write,
     Retry, Reprocess, tables, python
<1> QED BY <1>1, <1>2, <1>3

LEMMA OneVersionStep ==
    ASSUME TypeOK, OneVersion, [Next]_vars
    PROVE  OneVersion'
<1>1. ASSUME NEW advance \in BOOLEAN, StartBackfill(advance)
      PROVE  OneVersion'
  BY <1>1 DEF StartBackfill, Backfilled, OneVersion
<1>2. CASE PublishBackfill
  <2>1. /\ backfill.at # "idle" /\ marked' = marked \cup {backfill.run}
        /\ backfill'.run = backfill.run
    BY <1>2 DEF PublishBackfill, TypeOK
  <2>2. marked \subseteq {backfill.run}
    BY <2>1 DEF OneVersion
  <2> QED BY <2>1, <2>2 DEF OneVersion
<1>3. CASE FinishBackfill
  <2>1. /\ backfill.at # "idle" /\ marked' = marked \cup {backfill.run}
        /\ backfill'.at = "idle"
    BY <1>3 DEF FinishBackfill, IdleBackfill
  <2>2. marked \subseteq {backfill.run}
    BY <2>1 DEF OneVersion
  <2> QED BY <2>1, <2>2 DEF OneVersion
<1>4. CASE FailBackfill
  BY <1>4 DEF FailBackfill, IdleBackfill, tables, OneVersion
<1>5. CASE UNCHANGED <<marked, backfill>>
  BY <1>5 DEF OneVersion
<1>6. CASE UNCHANGED vars
  BY <1>5, <1>6 DEF vars, tables, python
<1> QED BY <1>1, <1>2, <1>3, <1>4, <1>5, <1>6, PythonLeaves DEF Next, Backfill

LEMMA RunsInit == Init => RunsInv
<1> SUFFICES ASSUME Init PROVE RunsInv
  OBVIOUS
<1>0. /\ IdleWorker \in WorkerType /\ IdleSubmitter \in SubmitterType
      /\ 1 \in RunId /\ RunId \subseteq Nat
  BY IdleTyped, Names
<1>1. TypeOK
  <2>1. IdleBackfill \in [at : {"idle", "started", "published"}, run : RunId,
                          advance : BOOLEAN]
    BY <1>0 DEF IdleBackfill
  <2>2. 0 \in 0..MaxContent /\ 0 \in 0..MaxFaults /\ 0 \in 0..MaxAsked
        /\ 1 \in 1..(MaxRuns + 1)
    BY RunsAssumption
  <2>3. app \in App
    BY <2>2 DEF Init, App
  <2>4. Tables
    BY <2>1, <2>2, <2>3, Literals DEF Init, Tables
  <2>5. Machine
    BY <1>0, <2>2 DEF Init, Machine, WorkerType, SubmitterType
  <2> QED BY <2>4, <2>5, TypeParts
<1>2. /\ \A c \in Check : worker[c].at = "idle" /\ jobs[c] = {}
      /\ submitter.at = "idle" /\ submitter.insert = <<>>
      /\ backfill.at = "idle" /\ marked = {}
      /\ \A i \in RunId : payload[i] = {} /\ run[i] = "none"
      /\ \A i \in RunId, c \in Check : check[i][c] = "none"
  BY Names DEF Init, IdleWorker, IdleSubmitter, IdleBackfill
<1>3. \A i \in RunId : ~Used(i)
  BY <1>2 DEF Used, Submitting, Working
<1>4. OwnRuns /\ Bare /\ Kinds /\ SubmitterOK /\ OneVersion
  BY <1>2, <1>3 DEF OwnRuns, Bare, Kinds, SubmitterOK, OneVersion
<1>5. ASSUME NEW i \in RunId PROVE Sound(i)
  <2>1. \A c \in Check : /\ ~ToPush(i, c) /\ i \notin jobs[c] /\ ~Working(i, c)
                         /\ ~ToSettle(i, c) /\ ~SaysPassed(i, c)
    BY <1>2 DEF ToPush, Submitting, Working, ToSettle, SaysPassed
  <2>2. \A c \in Check : ~Owed(i, c)
    BY <2>1 DEF Owed
  <2>3. ~Passing(i)
    BY <1>2, <2>1 DEF Passing
  <2> QED BY <1>2, <2>1, <2>2, <2>3 DEF Sound, OneJob, OwedIsOpen, PassOwesNothing
<1> QED BY <1>1, <1>4, <1>5, UndisturbedIsSound DEF RunsInv

LEMMA RunsStep == RunsInv /\ [Next]_vars => RunsInv'
<1> SUFFICES ASSUME RunsInv, [Next]_vars PROVE RunsInv'
  OBVIOUS
<1>0. TypeOK /\ Bare /\ SubmitterOK /\ OneVersion
  BY DEF RunsInv
<1>1. TypeOK'
  BY <1>0, TypeStep
<1>2. OneVersion'
  BY <1>0, OneVersionStep
<1> DEFINE Rest == OwnRuns /\ Bare /\ Kinds /\ SubmitterOK /\ Undisturbed
<1>3. Rest'
  <2>1. CASE DataCheck \/ Backfill \/ \E i \in RunId : Terminalize(i) \/ Requeue(i)
    <3>1. Keeps
      BY <1>0, <2>1, PythonKeeps
    <3>2. UNCHANGED <<payload, orchestrator, disturbed>>
      BY <2>1, PythonFrame DEF Sweep
    <3> QED BY <1>1, <3>1, <3>2, KeepsInv
  <2>2. ASSUME NEW i \in RunId, Retire(i)
        PROVE  Rest'
    BY <2>2, RetireInv
  <2>3. ASSUME NEW checks \in Asked, CreateRun(checks)
        PROVE  Rest'
    BY <2>3, CreateInv
  <2>4. CASE SubmitterStep \/ PushTimesOut \/ Crash
    BY <2>4, InsertInv, PushInv, MarkInv, TimeoutInv, CrashInv DEF SubmitterStep
  <2>5. ASSUME NEW c \in Check, WorkerStep(c)
        PROVE  Rest'
    BY <2>5, BeginInv, SettleInv, ReadInv, WriteInv DEF WorkerStep
  <2>6. ASSUME NEW c \in Check, Retry(c) \/ \E i \in RunId : Reprocess(i, c)
        PROVE  Rest'
    BY <2>6, RetryInv, ReprocessInv
  <2>7. CASE UNCHANGED vars
    <3>1. /\ Keeps
      BY <1>0, <2>7 DEF vars, tables, python, Keeps, TypeOK
    <3>2. UNCHANGED <<payload, orchestrator, disturbed>>
      BY <2>7 DEF vars, tables
    <3> QED BY <1>1, <3>1, <3>2, KeepsInv
  <2> QED BY <2>1, <2>2, <2>3, <2>4, <2>5, <2>6, <2>7
          DEF Next, Sweep, Orchestrator
<1> QED BY <1>1, <1>2, <1>3 DEF RunsInv

(* RunsInv is an invariant of the two tables and their four programs.      *)
THEOREM RunsInvHolds == Spec => []RunsInv
BY RunsInit, RunsStep, PTL DEF Spec

-----------------------------------------------------------------------------
(* What follows.                                                           *)

(* The statuses of both systems are of their types, no run that was not    *)
(* disturbed is passed with a check that is not, and each of its checks    *)
(* that waits has a job, a worker or the request that will push it         *)
(* (recomputeOverallStatus, submitValidationRun, BullMQ's attempts).       *)
THEOREM ChecksHold == Spec => []ChecksStand
<1>1. RunsInv => ChecksStand
  <2> SUFFICES ASSUME RunsInv PROVE ChecksStand
    OBVIOUS
  <2>1. \A i \in RunId \ disturbed : Sound(i)
    BY UndisturbedIsSound DEF RunsInv
  <2>2. PassedIsDeserved
    BY <2>1 DEF Sound, PassOwesNothing, Passing, PassedIsDeserved
  <2>3. \A i \in RunId, c \in Check : Owed(i, c) => Carried(i, c)
    BY DEF Owed, Carried, ToPush, Submitting, ToSettle
  <2>4. ChecksAreCarried
    BY <2>1, <2>3 DEF Sound, OwedIsOpen, ChecksAreCarried
  <2> QED BY <2>2, <2>4 DEF RunsInv, ChecksStand
<1> QED BY <1>1, RunsInvHolds, PTL

(* However its attempts end, a version is backfilled by one run            *)
(* (_already_backfilled_for_version).                                      *)
THEOREM BackfilledOnce == Spec => []BackfillOnce
<1>1. RunsInv => BackfillOnce
  <2> SUFFICES ASSUME OneVersion PROVE BackfillOnce
    BY DEF RunsInv
  <2>1. CASE marked = {}
    BY <2>1, FS_EmptySet DEF BackfillOnce
  <2>2. CASE marked # {}
    <3>1. PICK i \in marked : TRUE
      BY <2>2
    <3>2. marked = {i}
      BY <3>1 DEF OneVersion
    <3>3. Cardinality({i}) = 1
      BY FS_Singleton
    <3> QED BY <3>2, <3>3 DEF BackfillOnce
  <2> QED BY <2>1, <2>2
<1> QED BY <1>1, RunsInvHolds, PTL

LEMMA ReadyIsComplete ==
    ASSUME NEW rows, Computed(rows) = "ready"
    PROVE  \A u \in Unit : rows[u] = "completed"
<1> DEFINE s == [u \in Unit |-> IF rows[u] = "none" THEN "pending" ELSE rows[u]]
<1>1. {s[u] : u \in Unit} \subseteq {"completed"}
  BY DEF Computed, RunStatusOf
<1>2. \A u \in Unit : s[u] = "completed"
  BY <1>1
<1> QED BY <1>2

MovedByCompleteRun ==
    app'.moved # app.moved =>
        /\ {c \in CheckType : check'[app'.moved][c] # "none"} = Unit
        /\ \A u \in Unit : check'[app'.moved][u] = "completed"

LEMMA MovesComplete ==
    ASSUME TypeOK, NEW i \in RunId, NEW rows, Advance(i, rows) \/ UNCHANGED app,
           Computed(rows) = "ready" => check'[i] = rows,
           \A c \in Check : rows[c] = "none"
    PROVE  MovedByCompleteRun
<1> SUFFICES ASSUME app'.moved # app.moved
             PROVE  /\ {c \in CheckType : check'[app'.moved][c] # "none"} = Unit
                    /\ \A u \in Unit : check'[app'.moved][u] = "completed"
  BY DEF MovedByCompleteRun
<1>1. Computed(rows) = "ready" /\ app'.moved = i
  BY DEF Advance, TypeOK
<1>2. \A u \in Unit : rows[u] = "completed"
  BY <1>1, ReadyIsComplete
<1>3. check'[app'.moved] = rows
  BY <1>1
<1>4. {c \in CheckType : rows[c] # "none"} = Unit
  BY <1>2 DEF CheckType
<1> QED BY <1>2, <1>3, <1>4

LEMMA CanonicalIsBare ==
    ASSUME TypeOK, NEW i \in RunId, Canonical(i)
    PROVE  \A c \in Check : check[i][c] = "none"
BY Names DEF Canonical, Rows

LEMMA MovedStep ==
    ASSUME RunsInv, Next
    PROVE  MovedByCompleteRun
<1>0. TypeOK /\ Bare /\ backfill.run \in RunId
  BY DEF RunsInv, TypeOK
<1>1. CASE UNCHANGED app
  BY <1>1 DEF MovedByCompleteRun
<1>2. CASE Submit \/ SendBack
  BY <1>0, <1>2 DEF Submit, SendBack, MovedByCompleteRun, TypeOK
<1>3. ASSUME NEW i \in RunId, NEW u \in Unit, Execute(i, u)
      PROVE  MovedByCompleteRun
  <2>1. CASE UNCHANGED app
    BY <1>1, <2>1
  <2>2. CASE ~UNCHANGED app
    <3>0. PICK outcome \in Outcome :
             LET done == [check[i] EXCEPT ![u] = outcome]
                 ready == ReadyFollowups([v \in Unit |-> done[v]])
             IN  /\ ~Skipped(i, u)
                 /\ check' = [check EXCEPT ![i] =
                       [c \in CheckType |-> IF c \in ready THEN "queued"
                                        ELSE done[c]]]
                 /\ Advance(i, done)
      BY <1>3, <2>2 DEF Execute
    <3> DEFINE done == [check[i] EXCEPT ![u] = outcome]
               ready == ReadyFollowups([v \in Unit |-> done[v]])
    <3>1. /\ Canonical(i) /\ Advance(i, done)
          /\ check' = [check EXCEPT ![i] =
                 [c \in CheckType |-> IF c \in ready THEN "queued" ELSE done[c]]]
      BY <3>0 DEF Skipped
    <3>2. \A c \in Check : done[c] = "none"
      BY <1>0, <3>1, CanonicalIsBare, CheckTyped, Names
    <3>3. done \in [CheckType -> Status]
      BY <1>0, CheckTyped, Names
    <3>4. ASSUME Computed(done) = "ready" PROVE ready = {}
      <4>1. \A v \in Unit : done[v] = "completed"
        BY <3>4, ReadyIsComplete
      <4> QED BY <4>1 DEF ReadyFollowups
    <3> HIDE DEF done, ready
    <3>5. check'[i] = [c \in CheckType |-> IF c \in ready THEN "queued" ELSE done[c]]
      BY <1>0, <3>1 DEF TypeOK
    <3>6. Computed(done) = "ready" => check'[i] = done
      BY <3>3, <3>4, <3>5
    <3> QED BY <1>0, <3>1, <3>2, <3>6, MovesComplete
  <2> QED BY <2>1, <2>2
<1>4. ASSUME NEW i \in RunId, NEW u \in Unit, NEW status \in Outcome,
             Ingest(i, u, status)
      PROVE  MovedByCompleteRun
  <2> DEFINE done == [check[i] EXCEPT ![u] = status]
  <2>1. check' = [check EXCEPT ![i] = done] /\ Advance(i, done) /\ Canonical(i)
    BY <1>4 DEF Ingest
  <2>2. \A c \in Check : done[c] = "none"
    BY <1>0, <2>1, CanonicalIsBare, CheckTyped, Names
  <2> HIDE DEF done
  <2>3. check'[i] = done
    BY <1>0, <2>1 DEF TypeOK
  <2> QED BY <1>0, <2>1, <2>2, <2>3, MovesComplete
<1>5. ASSUME NEW i \in RunId, Terminalize(i)
      PROVE  MovedByCompleteRun
  <2> DEFINE ended == [c \in CheckType |->
                         IF Repaired(i)[c] \in TerminalUnitStatus \cup {"none"}
                         THEN Repaired(i)[c] ELSE "failed"]
  <2>1. check' = [check EXCEPT ![i] = ended] /\ Advance(i, ended)
    BY <1>5 DEF Terminalize
  <2>2. \A c \in Check : ended[c] = "none"
    BY <1>5, RepairedHasNone, Names DEF Terminalize
  <2> HIDE DEF ended
  <2>3. check'[i] = ended
    BY <1>0, <2>1 DEF TypeOK
  <2> QED BY <1>0, <2>1, <2>2, <2>3, MovesComplete
<1>6. ASSUME NEW i \in RunId, Requeue(i)
      PROVE  MovedByCompleteRun
  <2> DEFINE stuck == {u \in Unit :
                         Repaired(i)[u] \in UnitStatus \ TerminalUnitStatus}
             requeued == [c \in CheckType |->
                            IF c \in stuck THEN "queued" ELSE Repaired(i)[c]]
  <2>1. check' = [check EXCEPT ![i] = requeued] /\ Advance(i, requeued)
    BY <1>6 DEF Requeue
  <2>2. \A c \in Check : requeued[c] = "none"
    BY <1>6, RepairedHasNone, Names DEF Requeue
  <2> HIDE DEF requeued
  <2>3. check'[i] = requeued
    BY <1>0, <2>1 DEF TypeOK
  <2> QED BY <1>0, <2>1, <2>2, <2>3, MovesComplete
<1>7. CASE FinishBackfill
  <2> DEFINE i == backfill.run
             left == IF backfill.at = "published" THEN Unit \ Before ELSE Unit
  <2>0. PICK outcome \in [left -> Outcome] :
           LET done == [c \in CheckType |->
                          IF c \in left THEN outcome[c] ELSE check[i][c]]
           IN  /\ check' = [check EXCEPT ![i] = done]
               /\ IF backfill.advance THEN Advance(i, done) ELSE UNCHANGED app
    BY <1>7 DEF FinishBackfill
  <2> DEFINE done == [c \in CheckType |->
                        IF c \in left THEN outcome[c] ELSE check[i][c]]
  <2>1. check' = [check EXCEPT ![i] = done] /\ (Advance(i, done) \/ UNCHANGED app)
    BY <2>0
  <2>2. \A c \in Check : done[c] = "none"
    <3>1. \A c \in Check : check[i][c] = "none"
      BY <1>0, <1>7 DEF FinishBackfill, Bare
    <3> QED BY <3>1, Names
  <2> HIDE DEF done
  <2>3. check'[i] = done
    BY <1>0, <2>1 DEF TypeOK
  <2> QED BY <1>0, <2>1, <2>2, <2>3, MovesComplete
<1>8. ASSUME ~UNCHANGED app
      PROVE  \/ Submit \/ SendBack \/ FinishBackfill
             \/ \E i \in RunId, u \in Unit :
                   Execute(i, u) \/ \E status \in Outcome : Ingest(i, u, status)
             \/ \E i \in RunId : Terminalize(i) \/ Requeue(i)
  <2>1. Orchestrator => UNCHANGED app
    BY DEF Orchestrator, CreateRun, SubmitterStep, InsertCheck, Push,
       MarkFailed, PushTimesOut, Crash, WorkerStep, Begin, Settle, Read, Write,
       Retry, Reprocess, python
  <2>2. \A i \in RunId, u \in Unit : LoseJob(i, u) => UNCHANGED app
    BY DEF LoseJob
  <2>3. \A i \in RunId : Retire(i) => UNCHANGED app
    BY DEF Retire, python
  <2>4. \A advance \in BOOLEAN : StartBackfill(advance) => UNCHANGED app
    BY DEF StartBackfill
  <2>5. PublishBackfill \/ FailBackfill => UNCHANGED app
    BY DEF PublishBackfill, FailBackfill
  <2> QED BY <1>8, <2>1, <2>2, <2>3, <2>4, <2>5 DEF Next, DataCheck, Sweep, Backfill
<1> QED BY <1>1, <1>2, <1>3, <1>4, <1>5, <1>6, <1>7, <1>8

(* Nothing but a run with all the policy's units completed, and no other   *)
(* checks, moves an application: not a run of the orchestrator, not one    *)
(* that the sweep has ended (_try_auto_advance).                           *)
THEOREM CompleteRunsAdvance == Spec => AdvancedByCompleteRun
<1>1. RunsInv /\ [Next]_vars => [MovedByCompleteRun]_vars
  BY MovedStep
<1>2. [MovedByCompleteRun]_vars =>
         [app'.moved # app.moved =>
            /\ {c \in CheckType : check'[app'.moved][c] # "none"} = Unit
            /\ \A u \in Unit : check'[app'.moved][u] = "completed"]_vars
  BY DEF MovedByCompleteRun
<1> QED BY <1>1, <1>2, RunsInvHolds, PTL DEF Spec, AdvancedByCompleteRun
=============================================================================
