----------------------- MODULE InterviewWindow_proofs -----------------------
(***************************************************************************)
(* Proofs about AIInterview and InterviewWindow, for any commission, any   *)
(* number of tabs, any questions and lists, and any bound on revisions.    *)
(*                                                                         *)
(* The second part is about the hour, which is given once: about what      *)
(* requests have loaded (was) and will write (will). What they write is    *)
(* good whatever was committed since they loaded, because the window, once *)
(* it is not closed, is never closed again.                                *)
(***************************************************************************)
EXTENDS InterviewWindow, TLAPS

-----------------------------------------------------------------------------
(* The set of questions and the interview.                                 *)

\* What a request has loaded and is going to write: an edit only goes on
\* below the bound, and a set that was there when it was loaded is there now.
EditInv ==
    \A r \in Reviewer :
        /\ edit[r].at = "patching" =>
              /\ edit[r].list \in List
              /\ edit[r].row.revision < MaxRevision
              /\ edit[r].row.status # "none"
        /\ edit[r].row.status # "none" => row.status # "none"

IInv == TypeOK /\ EditInv

LEMMA UpsertType ==
    ASSUME InterviewAssumption, row \in Row, NEW loaded \in Row,
           NEW list \in List,
           row.status = "none" <=> row.revision = 0,
           loaded.status # "none" => row.status # "none",
           UpsertDraft(loaded, list).revision <= MaxRevision
    PROVE  /\ UpsertDraft(loaded, list) \in Row
           /\ UpsertDraft(loaded, list).status # "none"
           /\ UpsertDraft(loaded, list).revision # 0
  <1> DEFINE base == IF loaded.status = "none" THEN row ELSE loaded
             set == UpsertDraft(loaded, list)
  <1>1. base \in Row /\ (base.status # "none" => row.status # "none")
    OBVIOUS
  <1>2. CASE base.status = "none"
    <2>1. set = [row EXCEPT !.status = "draft", !.revision = 1,
                            !.questions = list]
      BY <1>2 DEF UpsertDraft
    <2> HIDE DEF set
    <2>2. /\ set = [status |-> "draft", revision |-> 1,
                    questions |-> list, completed |-> row.completed]
          /\ row.completed \in BOOLEAN
      BY <2>1 DEF Row
    <2>3. 1 \in 0..MaxRevision
      BY DEF InterviewAssumption
    <2>4. set \in Row /\ set.status # "none" /\ set.revision # 0
      BY <2>2, <2>3 DEF Row
    <2> QED
      BY <2>4 DEF set
  <1>3. CASE base.status # "none"
    <2> DEFINE status == IF base.status = "draft" THEN row.status ELSE "draft"
               revision == IF base.status = "approved"
                           THEN base.revision + 1 ELSE row.revision
               questions == IF list = base.questions
                            THEN row.questions ELSE list
    <2>1. set = [row EXCEPT !.status = status, !.revision = revision,
                            !.questions = questions]
      BY <1>3 DEF UpsertDraft
    <2>2. status \in {"none", "draft", "approved"} /\ status # "none"
      BY <1>1, <1>3 DEF Row
    <2>3. revision \in Nat /\ revision # 0
      BY <1>1, <1>3 DEF Row
    <2>4. questions \in List \cup {NoList}
      BY DEF Row
    <2> HIDE DEF status, revision, questions, base
    <2>5. /\ set = [status |-> status, revision |-> revision,
                    questions |-> questions, completed |-> row.completed]
          /\ row.completed \in BOOLEAN
      BY <2>1 DEF Row
    <2>6. revision <= MaxRevision
      BY <2>5
    <2> QED
      BY <2>2, <2>3, <2>4, <2>5, <2>6 DEF Row, InterviewAssumption
  <1> QED
    BY <1>2, <1>3

LEMMA InitInv == ASSUME InterviewAssumption PROVE Init => IInv
  BY DEF Init, IInv, TypeOK, EditInv, NewApp, NoRow, NoAnswers, IdleEdit,
         IdleVisit, App, Row, Window, Answer, InterviewAssumption

(* Only the commission writes the set of questions and moves the stage.    *)
LEMMA CommissionStep ==
    ASSUME InterviewAssumption, IInv, NEW r \in Reviewer, Commission(r)
    PROVE  IInv'
  <1> USE DEF IInv, TypeOK, EditInv, interview
  <1>2. ASSUME NEW force \in BOOLEAN, StartGenerate(r, force)
        PROVE  IInv'
    BY <1>2 DEF StartGenerate, Request
  <1>3. ASSUME NEW list \in List, FinishGenerate(r, list)
        PROVE  IInv'
    <2>1. /\ row' \in Row
          /\ row'.status # "none"
          /\ row'.revision # 0
      BY <1>3, UpsertType DEF FinishGenerate
    <2> QED
      BY <1>3, <2>1
         DEF FinishGenerate, Reply, Request, IdleEdit, NoRow, Row,
             InterviewAssumption
  <1>4. ASSUME NEW list \in List, StartPatch(r, list)
        PROVE  IInv'
    BY <1>4 DEF StartPatch, Request
  <1>5. CASE FinishPatch(r)
    <2>1. /\ edit[r].row \in Row
          /\ edit[r].row.revision + 1 \in 1..MaxRevision
          /\ edit[r].list \in List
          /\ row.status # "none"
      BY <1>5 DEF FinishPatch, Row, InterviewAssumption
    <2>2. /\ row' \in Row
          /\ row'.status # "none"
          /\ row'.revision # 0
      <3> DEFINE revision == edit[r].row.revision + 1
                 questions == IF edit[r].list = edit[r].row.questions
                              THEN row.questions ELSE edit[r].list
      <3>1. row' = [row EXCEPT !.revision = revision,
                               !.questions = questions]
        BY <1>5 DEF FinishPatch
      <3>2. /\ revision \in 0..MaxRevision
            /\ revision # 0
            /\ questions \in List \cup {NoList}
        BY <2>1 DEF Row, InterviewAssumption
      <3> HIDE DEF revision, questions
      <3> QED
        BY <2>1, <3>1, <3>2 DEF Row
    <2> QED
      BY <1>5, <2>2
         DEF FinishPatch, Reply, Request, IdleEdit, NoRow, Row,
             InterviewAssumption
  <1>6. CASE StartApprove(r)
    BY <1>6 DEF StartApprove, Request
  <1>7. CASE FinishApprove(r)
    <2>1. /\ row' \in Row
          /\ row'.revision = row.revision
          /\ row'.status = "none" <=> row.status = "none"
          /\ app' \in App
      <3>1. CASE row.status = "draft" /\ Approvable(row.questions)
        <4>1. /\ row' = [row EXCEPT !.status = "approved"]
              /\ app' = [app EXCEPT !.stage = "interview"]
          BY <1>7, <3>1 DEF FinishApprove
        <4>2. row' \in Row /\ row'.revision = row.revision
          BY <4>1 DEF Row
        <4>3. row'.status = "approved"
          BY <4>1 DEF Row
        <4>4. app' \in App
          BY <4>1 DEF App
        <4> QED
          BY <3>1, <4>2, <4>3, <4>4
      <3>2. CASE ~(row.status = "draft" /\ Approvable(row.questions))
        BY <1>7, <3>2 DEF FinishApprove
      <3> QED
        BY <3>1, <3>2
    <2> QED
      BY <1>7, <2>1
         DEF FinishApprove, Reply, Request, IdleEdit, NoRow, Row,
             InterviewAssumption
  <1>8. CASE DropEdit(r)
    BY <1>8 DEF DropEdit, Reply, Request, IdleEdit, NoRow, Row,
                InterviewAssumption
  <1> QED
    BY <1>2, <1>3, <1>4, <1>5, <1>6, <1>7, <1>8 DEF Commission

LEMMA OpenedType ==
    ASSUME NEW a \in App PROVE Opened(a) \in App
  BY DEF Opened, App, Window

LEMMA WrittenType ==
    ASSUME app \in App, NEW was \in App, NEW will \in App
    PROVE  Written(was, will) \in App /\ Written(was, will).stage = app.stage
  BY DEF Written, App

(* The candidate's requests leave the set alone, but for its completion.   *)
LEMMA CandidateStep ==
    ASSUME InterviewAssumption, IInv, NEW t \in Tab, Candidate(t)
    PROVE  IInv'
  <1> USE DEF IInv, TypeOK, EditInv, interview
  <1>0. IdleVisit \in [at : {"idle", "saving", "checked", "flushed",
                             "summing", "submitting"},
                       new : [Question -> Answer], was : App, will : App]
    BY DEF IdleVisit, NoAnswers, Answer, NewApp, App, Window
  <1>1. ASSUME NEW new \in [Question -> Answer], StartSave(t, new)
        PROVE  IInv'
    BY <1>0, <1>1 DEF StartSave, Turn
  <1>2. CASE FinishSave(t)
    BY <1>0, <1>2 DEF FinishSave, Leave, Turn
  <1>3. CASE StartComplete(t)
    BY <1>0, <1>3 DEF StartComplete, Turn
  <1>4. CASE FlushCompletion(t)
    BY <1>4, OpenedType DEF FlushCompletion, Turn
  <1>5. CASE WriteWindow(t)
    BY <1>5 DEF WriteWindow, Turn
  <1>6. CASE FinishComplete(t)
    <2>1. /\ row' \in Row
          /\ row'.revision = row.revision
          /\ row'.status = row.status
      BY <1>6 DEF FinishComplete, Row
    <2>2. app' \in App
      BY <1>6, WrittenType DEF FinishComplete
    <2> QED
      BY <1>0, <1>6, <2>1, <2>2 DEF FinishComplete, Leave, Turn
  <1>7. CASE DropVisit(t)
    BY <1>0, <1>7 DEF DropVisit, Leave, Turn
  <1> QED
    BY <1>1, <1>2, <1>3, <1>4, <1>5, <1>6, <1>7 DEF Candidate

LEMMA NextInv ==
    ASSUME InterviewAssumption, IInv, [Next]_vars PROVE IInv'
  <1>1. CASE Next
    BY <1>1, CommissionStep, CandidateStep DEF Next
  <1>2. CASE UNCHANGED vars
    BY <1>2 DEF vars, interview, IInv, TypeOK, EditInv
  <1> QED
    BY <1>1, <1>2

(* Every reachable state is well typed; in particular the set has a        *)
(* revision number exactly when it is there, however requests interleave.  *)
THEOREM InterviewTypeCorrect ==
    ASSUME InterviewAssumption PROVE Spec => []TypeOK
  <1>1. Init => IInv
    BY InitInv
  <1>2. IInv /\ [Next]_vars => IInv'
    BY NextInv
  <1>3. IInv => TypeOK
    BY DEF IInv
  <1> QED
    BY <1>1, <1>2, <1>3, PTL DEF Spec

(* The stage moves only together with an approved set of an allowed size:  *)
(* the approval decides under the lock of the row, so no edit or draft     *)
(* that commits between its two reads can slip in.                         *)
THEOREM AdvancesOnApprovedSet ==
    ASSUME InterviewAssumption PROVE Spec => AdvanceOnApprovedSet
  <1> DEFINE Advance ==
        app'.stage # app.stage =>
            row'.status = "approved" /\ Approvable(row'.questions)
  <1>1. ASSUME IInv, NEW r \in Reviewer, Commission(r)
        PROVE  Advance
    <2>1. CASE FinishApprove(r)
      <3>1. CASE row.status = "draft" /\ Approvable(row.questions)
        <4>1. row' = [row EXCEPT !.status = "approved"] /\ row \in Row
          BY <1>1, <2>1, <3>1 DEF FinishApprove, IInv, TypeOK
        <4>2. row'.status = "approved" /\ row'.questions = row.questions
          BY <4>1 DEF Row
        <4> QED
          BY <3>1, <4>2
      <3>2. CASE ~(row.status = "draft" /\ Approvable(row.questions))
        BY <2>1, <3>2 DEF FinishApprove
      <3> QED
        BY <3>1, <3>2
    <2>2. CASE ~FinishApprove(r)
      BY <1>1, <2>2
         DEF Commission, StartGenerate, FinishGenerate,
             StartPatch, FinishPatch, StartApprove, DropEdit, interview
    <2> QED
      BY <2>1, <2>2
  <1>2. ASSUME IInv, NEW t \in Tab, Candidate(t)
        PROVE  Advance
    <2>1. CASE FinishComplete(t)
      BY <1>2, <2>1, WrittenType DEF FinishComplete, IInv, TypeOK
    <2>2. CASE ~FinishComplete(t)
      BY <1>2, <2>2
         DEF Candidate, StartSave, FinishSave, StartComplete,
             FlushCompletion, WriteWindow, DropVisit, interview
    <2> QED
      BY <2>1, <2>2
  <1>3. IInv /\ [Next]_vars => [Advance]_vars
    BY <1>1, <1>2 DEF Next
  <1>4. Init => IInv
    BY InitInv
  <1>5. IInv /\ [Next]_vars => IInv'
    BY NextInv
  <1> QED
    BY <1>3, <1>4, <1>5, PTL DEF Spec, AdvanceOnApprovedSet

-----------------------------------------------------------------------------
(* The hour.                                                               *)

\* An application, later: the window was not closed, nor its time taken.
Forward(was, now) ==
    /\ was.window # "closed" => now.window # "closed"
    /\ was.deadline # "unset" => now.deadline # "unset"

\* A request that will write a window and, with it or before, its time, over
\* an application that is not behind what it has loaded.
Opens(now, was, will) ==
    Forward(was, now) /\ will.window # "closed" /\ will.deadline # "unset"

\* Whatever gives a reason for a window has opened it.
OpenWhenDue ==
    row.completed \/ app.preferred \/ Scheduled => app.window # "closed"

\* The completion under way is the only one, and gives the hour only if none
\* has been committed; a submission leaves the hour as it is.
VisitInv ==
    \A t \in Tab :
        /\ visit[t].at \in {"flushed", "summing"} =>
              /\ finisher = t
              /\ Opens(app, visit[t].was, visit[t].will)
              /\ visit[t].will.deadline # visit[t].was.deadline => ~row.completed
        /\ visit[t].at = "submitting" =>
              /\ Opens(app, visit[t].was, visit[t].will)
              /\ visit[t].will.deadline = visit[t].was.deadline

PlanInv == \A s \in Scheduler : Forward(plan[s].was, app)

SweepInv ==
    sweep.at = "expiring" =>
        /\ Opens(app, sweep.was, sweep.will)
        /\ sweep.will.deadline = sweep.was.deadline

WInv ==
    /\ IInv
    /\ WindowTypeOK
    /\ OpenWhenDue
    /\ VisitInv
    /\ PlanInv
    /\ SweepInv

LEMMA ForwardAgain ==
    ASSUME NEW now, NEW new, Forward(now, new), NEW was, NEW will
    PROVE  /\ Forward(was, now) => Forward(was, new)
           /\ Opens(now, was, will) => Opens(new, was, will)
  BY DEF Forward, Opens

LEMMA Writing ==
    ASSUME app \in App, NEW was \in App, NEW will \in App,
           Opens(app, was, will)
    PROVE  LET new == Written(was, will)
           IN  /\ new \in App
               /\ Forward(app, new)
               /\ new.window # "closed"
               /\ new.deadline # "unset"
               /\ new.deadline # app.deadline =>
                     /\ new.deadline = will.deadline
                     /\ will.deadline # was.deadline
  <1> DEFINE new == Written(was, will)
             window1 == IF will.window = was.window THEN app.window
                        ELSE will.window
             deadline1 == IF will.deadline = was.deadline THEN app.deadline
                          ELSE will.deadline
             preferred1 == IF will.preferred = was.preferred THEN app.preferred
                           ELSE will.preferred
  <1>0. \A a \in App : /\ a.window \in Window
                       /\ a.deadline \in {"unset", "ahead", "past"}
                       /\ a.preferred \in BOOLEAN
    BY DEF App
  <1>1. /\ window1 \in Window /\ window1 # "closed"
        /\ deadline1 \in {"unset", "ahead", "past"} /\ deadline1 # "unset"
        /\ preferred1 \in BOOLEAN
    BY <1>0, Zenon DEF Opens, Forward
  <1>2. new = [app EXCEPT !.window = window1, !.deadline = deadline1,
                          !.preferred = preferred1]
    BY DEF Written
  <1>3. deadline1 # app.deadline =>
            deadline1 = will.deadline /\ will.deadline # was.deadline
    OBVIOUS
  <1> HIDE DEF new, window1, deadline1, preferred1
  <1>4. /\ new \in App
        /\ new.window = window1
        /\ new.deadline = deadline1
    BY <1>1, <1>2 DEF App
  <1> QED
    BY <1>1, <1>3, <1>4 DEF Forward, new

LEMMA NewIsLater == ASSUME NEW now PROVE Forward(NewApp, now)
  BY DEF Forward, NewApp

LEMMA WindowInitInv == ASSUME InterviewAssumption PROVE WindowInit => WInv
  <1> SUFFICES ASSUME WindowInit PROVE WInv
    OBVIOUS
  <1>1. IInv
    BY InitInv DEF WindowInit
  <1>2. NewApp \in App
    BY DEF NewApp, App, Window
  <1>3. WindowTypeOK
    BY <1>1, <1>2 DEF WindowTypeOK, IInv, WindowInit, Init, IdlePlan,
       IdleSweep, WindowHasDeadline, NewApp
  <1>4. OpenWhenDue /\ VisitInv /\ PlanInv /\ SweepInv
    <2>1. OpenWhenDue
      BY DEF OpenWhenDue, WindowInit, Init, NewApp, NoRow, Scheduled
    <2>2. VisitInv
      BY DEF VisitInv, WindowInit, Init, IdleVisit
    <2>3. PlanInv
      BY NewIsLater DEF PlanInv, WindowInit, IdlePlan
    <2>4. SweepInv
      BY DEF SweepInv, WindowInit, IdleSweep
    <2> QED
      BY <2>1, <2>2, <2>3, <2>4
  <1> QED
    BY <1>1, <1>3, <1>4 DEF WInv

----------------------------------------------------------------------------
(* Everything but the window's own steps.                                  *)

\* What a step of AIInterview leaves to be shown.
Rest == OpenWhenDue /\ VisitInv /\ PlanInv /\ SweepInv /\ WindowHasDeadline

LEMMA CommissionRest ==
    ASSUME InterviewAssumption, WInv, NEW r \in Reviewer, Commission(r),
           UNCHANGED window
    PROVE  Rest'
  <1> USE DEF WInv, WindowTypeOK, TypeOK
  <1>1. /\ app' \in App
        /\ app'.window = app.window /\ app'.deadline = app.deadline
        /\ app'.preferred = app.preferred
        /\ UNCHANGED <<sessions, visit, finisher>>
    <2>1. CASE FinishApprove(r)
      <3>1. CASE row.status = "draft" /\ Approvable(row.questions)
        <4>1. app' = [app EXCEPT !.stage = "interview"]
          BY <2>1, <3>1 DEF FinishApprove
        <4> QED
          BY <2>1, <4>1 DEF FinishApprove, App
      <3>2. CASE ~(row.status = "draft" /\ Approvable(row.questions))
        BY <2>1, <3>2 DEF FinishApprove
      <3> QED
        BY <3>1, <3>2
    <2>2. CASE ~FinishApprove(r)
      BY <2>2 DEF Commission, StartGenerate, FinishGenerate, StartPatch,
                  FinishPatch, StartApprove, DropEdit, interview
    <2> QED
      BY <2>1, <2>2
  <1>2. row'.completed = row.completed
    <2> DEFINE Same == row'.completed = row.completed
    <2>1. ASSUME NEW list \in List, FinishGenerate(r, list)
          PROVE  Same
      BY <2>1 DEF FinishGenerate, UpsertDraft, Row
    <2>2. CASE FinishPatch(r)
      BY <2>2 DEF FinishPatch, Row
    <2>3. CASE FinishApprove(r)
      BY <2>3 DEF FinishApprove, Row
    <2> QED
      BY <2>1, <2>2, <2>3 DEF Commission, StartGenerate, StartPatch,
         StartApprove, DropEdit, interview
  <1>3. Forward(app, app')
    BY <1>1 DEF Forward
  <1>4. VisitInv' /\ PlanInv' /\ SweepInv'
    BY <1>1, <1>2, <1>3, ForwardAgain
       DEF VisitInv, PlanInv, SweepInv, window
  <1>5. OpenWhenDue' /\ WindowHasDeadline'
    BY <1>1, <1>2 DEF OpenWhenDue, WindowHasDeadline, Scheduled
  <1> QED
    BY <1>4, <1>5 DEF Rest

LEMMA Opening ==
    ASSUME InterviewAssumption, WInv
    PROVE  /\ Opens(app, app, Opened(app))
           /\ Opened(app).deadline # app.deadline => ~row.completed
  BY DEF WInv, WindowTypeOK, TypeOK, WindowHasDeadline, OpenWhenDue, Opens,
         Forward, Opened, App, Row

LEMMA CandidateRest ==
    ASSUME InterviewAssumption, WInv, NEW t \in Tab, Candidate(t),
           UNCHANGED window
    PROVE  Rest'
  <1> USE DEF WInv, WindowTypeOK, TypeOK, window
  <1> DEFINE Still == UNCHANGED <<app, row, sessions>>
  <1>1. Still => Forward(app, app') /\ OpenWhenDue' /\ WindowHasDeadline' /\ PlanInv' /\ SweepInv'
    BY DEF Forward, OpenWhenDue, WindowHasDeadline, Scheduled, PlanInv,
           SweepInv
  <1>2. ASSUME Still, finisher' = finisher,
               visit' = [visit EXCEPT ![t] = visit'[t]],
               visit'[t].at \in {"idle", "saving", "checked"}
        PROVE  Rest'
    BY <1>1, <1>2, ForwardAgain DEF Rest, VisitInv
  <1>3. ASSUME NEW new \in [Question -> Answer], StartSave(t, new)
        PROVE  Rest'
    BY <1>2, <1>3 DEF StartSave, Turn, interview, IdleVisit
  <1>4. CASE FinishSave(t)
    BY <1>2, <1>4 DEF FinishSave, Leave, Turn, IdleVisit
  <1>5. CASE StartComplete(t)
    BY <1>2, <1>5 DEF StartComplete, Turn, interview, IdleVisit
  <1>6. CASE FlushCompletion(t)
    <2>1. Still /\ finisher = Nobody /\ finisher' = t
      BY <1>6 DEF FlushCompletion, interview
    <2>2. visit' = [visit EXCEPT ![t] = [visit[t] EXCEPT !.at = "flushed",
                       !.was = app, !.will = Opened(app)]]
      BY <1>6 DEF FlushCompletion, Turn
    <2>3. \A u \in Tab : visit[u].at \notin {"flushed", "summing"}
      BY <2>1 DEF VisitInv, InterviewAssumption
    <2>4. VisitInv'
      BY <2>1, <2>2, <2>3, <1>1, Opening, ForwardAgain DEF VisitInv
    <2> QED
      BY <1>1, <2>1, <2>4 DEF Rest
  <1>7. CASE WriteWindow(t)
    <2>1. Still /\ finisher' = finisher /\ visit[t].at = "flushed"
      BY <1>7 DEF WriteWindow, interview
    <2>2. visit' = [visit EXCEPT ![t] = [visit[t] EXCEPT !.at = "summing"]]
      BY <1>7 DEF WriteWindow, Turn
    <2>3. VisitInv'
      BY <2>1, <2>2, <1>1, ForwardAgain DEF VisitInv
    <2> QED
      BY <1>1, <2>1, <2>3 DEF Rest
  <1>8. CASE FinishComplete(t)
    <2>1. /\ visit[t].at = "summing"
          /\ Opens(app, visit[t].was, visit[t].will)
          /\ app' = Written(visit[t].was, visit[t].will)
          /\ UNCHANGED sessions
      BY <1>8 DEF FinishComplete, VisitInv
    <2>2. Forward(app, app') /\ app'.window # "closed" /\ app'.deadline # "unset"
      BY <2>1, Writing
    <2>3. /\ visit' = [visit EXCEPT ![t] = IdleVisit]
          /\ \A u \in Tab \ {t} : visit[u].at \notin {"flushed", "summing"}
      BY <1>8, <2>1 DEF FinishComplete, Leave, Turn, VisitInv
    <2>4. VisitInv'
      BY <2>2, <2>3, ForwardAgain DEF VisitInv, IdleVisit
    <2>5. PlanInv' /\ SweepInv'
      BY <2>2, ForwardAgain DEF PlanInv, SweepInv
    <2> QED
      BY <2>2, <2>4, <2>5 DEF Rest, OpenWhenDue, WindowHasDeadline
  <1>9. CASE DropVisit(t)
    <2>1. /\ Still
          /\ visit' = [visit EXCEPT ![t] = IdleVisit]
          /\ finisher' = IF finisher = t THEN Nobody ELSE finisher
      BY <1>9 DEF DropVisit, Leave, Turn, interview
    <2>2. VisitInv'
      BY <2>1, <1>1, ForwardAgain DEF VisitInv, IdleVisit
    <2> QED
      BY <1>1, <2>1, <2>2 DEF Rest
  <1> QED
    BY <1>3, <1>4, <1>5, <1>6, <1>7, <1>8, <1>9 DEF Candidate

LEMMA NextStep ==
    ASSUME InterviewAssumption, WInv, Next, UNCHANGED window
    PROVE  WInv'
  <1>1. IInv'
    BY NextInv DEF WInv
  <1>2. Rest'
    BY CommissionRest, CandidateRest DEF Next
  <1>3. WindowTypeOK'
    BY <1>1, <1>2 DEF WindowTypeOK, IInv, Rest, window, WInv
  <1> QED
    BY <1>1, <1>2, <1>3 DEF WInv, Rest

----------------------------------------------------------------------------
(* The window's own steps leave edits and the set of questions alone; what  *)
(* is left to be shown of each is the application, the visits and the rest. *)

LEMMA IdleVisitType ==
    IdleVisit \in [at : {"idle", "saving", "checked", "flushed",
                         "summing", "submitting"},
                   new : [Question -> Answer], was : App, will : App]
  BY DEF IdleVisit, NoAnswers, Answer, NewApp, App, Window

LEMMA SubmitStep ==
    ASSUME InterviewAssumption, WInv, NEW t \in Tab, Submit(t)
    PROVE  WInv'
  <1> USE DEF WInv, WindowTypeOK, TypeOK, IInv
  <1>1. CASE StartSubmit(t)
    <2> DEFINE will == [app EXCEPT !.window = "submitted", !.preferred = TRUE]
               asks == [IdleVisit EXCEPT !.at = "submitting", !.was = app,
                                         !.will = will]
    <2>1. /\ UNCHANGED <<interview, edit, finisher, bookings, plan, sweep>>
          /\ visit' = [visit EXCEPT ![t] = asks]
          /\ replaced' = [replaced EXCEPT ![t] = bookings]
          /\ row.completed
      BY <1>1 DEF StartSubmit, Turn
    <2>2. /\ will \in App
          /\ will.window = "submitted"
          /\ will.deadline = app.deadline
      BY DEF App, Window
    <2>3. Opens(app, app, will)
      BY <2>1, <2>2 DEF Opens, Forward, OpenWhenDue, WindowHasDeadline
    <2> HIDE DEF will
    <2>4. /\ asks \in [at : {"idle", "saving", "checked", "flushed",
                              "summing", "submitting"},
                        new : [Question -> Answer], was : App, will : App]
          /\ asks.at = "submitting" /\ asks.was = app /\ asks.will = will
      BY <2>2, IdleVisitType DEF IdleVisit
    <2> HIDE DEF asks
    <2>5. TypeOK' /\ WindowTypeOK'
      BY <2>1, <2>4 DEF interview, WindowHasDeadline
    <2>6. VisitInv'
      BY <2>1, <2>2, <2>3, <2>4 DEF VisitInv, interview
    <2> QED
      BY <2>1, <2>5, <2>6
         DEF interview, EditInv, OpenWhenDue, Scheduled, PlanInv, SweepInv
  <1>2. CASE FinishSubmit(t)
    <2> DEFINE was == visit[t].was
               will == visit[t].will
    <2>1. /\ app' = Written(was, will)
          /\ bookings' = (bookings \ replaced[t]) \cup {t}
          /\ replaced' = [replaced EXCEPT ![t] = {}]
          /\ visit' = [visit EXCEPT ![t] = IdleVisit]
          /\ UNCHANGED <<row, answers, sessions, edit, finisher, plan, sweep>>
          /\ Opens(app, was, will)
      BY <1>2 DEF FinishSubmit, Leave, Turn, VisitInv
    <2>2. /\ app' \in App /\ Forward(app, app')
          /\ app'.window # "closed" /\ app'.deadline # "unset"
      BY <2>1, Writing
    <2>3. TypeOK' /\ WindowTypeOK'
      BY <2>1, <2>2, IdleVisitType DEF WindowHasDeadline
    <2> HIDE DEF was, will
    <2>4. VisitInv'
      BY <2>1, <2>2, ForwardAgain DEF VisitInv, IdleVisit
    <2>5. PlanInv' /\ SweepInv'
      BY <2>1, <2>2, ForwardAgain DEF PlanInv, SweepInv
    <2> QED
      BY <2>1, <2>2, <2>3, <2>4, <2>5 DEF EditInv, OpenWhenDue
  <1> QED
    BY <1>1, <1>2 DEF Submit

LEMMA ClosedType ==
    ASSUME NEW a \in App
    PROVE  /\ Closed(a) \in App
           /\ Closed(a).window = "scheduled"
           /\ Closed(a).deadline \in {a.deadline, "past"} \ {"unset"}
  BY DEF Closed, App, Window

LEMMA ScheduleStep ==
    ASSUME InterviewAssumption, WInv, NEW s \in Scheduler, Schedule(s)
    PROVE  WInv'
  <1> USE DEF WInv, WindowTypeOK, TypeOK, IInv
  <1> DEFINE Plan == [at : {"idle", "scheduling"}, was : App, known : BOOLEAN]
  <1>0. IdlePlan \in Plan /\ IdlePlan.was = NewApp
    BY DEF IdlePlan, NewApp, App, Window
  <1>1. CASE StartSchedule(s)
    <2> DEFINE found == [at |-> "scheduling", was |-> app, known |-> Scheduled]
    <2>1. /\ plan' = [plan EXCEPT ![s] = found]
          /\ UNCHANGED <<vars, bookings, replaced, sweep>>
      BY <1>1 DEF StartSchedule
    <2>2. found \in Plan /\ found.was = app
      BY DEF Scheduled
    <2> HIDE DEF found
    <2>3. PlanInv'
      BY <2>1, <2>2 DEF PlanInv, Forward, vars, interview
    <2> QED
      BY <2>1, <2>2, <2>3
         DEF vars, interview, EditInv, OpenWhenDue, Scheduled, VisitInv,
             SweepInv, WindowHasDeadline
  <1>2. CASE FinishSchedule(s)
    <2> DEFINE was == plan[s].was
               will == Closed(plan[s].was)
    <2>1. /\ app' = Written(was, will)
          /\ plan' = [plan EXCEPT ![s] = IdlePlan]
          /\ UNCHANGED <<row, answers, edit, visit, finisher, bookings,
                         replaced, sweep>>
      BY <1>2 DEF FinishSchedule
    <2>2. sessions' \in Nat
      BY <1>2 DEF FinishSchedule
    <2>3. was \in App /\ will \in App /\ Opens(app, was, will)
      BY ClosedType DEF Opens, PlanInv
    <2> HIDE DEF was, will
    <2>4. /\ app' \in App /\ Forward(app, app')
          /\ app'.window # "closed" /\ app'.deadline # "unset"
      BY <2>1, <2>3, Writing
    <2>5. TypeOK' /\ WindowTypeOK'
      BY <2>1, <2>2, <2>4, <1>0 DEF WindowHasDeadline
    <2>6. VisitInv' /\ PlanInv' /\ SweepInv'
      BY <2>1, <2>4, <1>0, ForwardAgain, NewIsLater
         DEF VisitInv, PlanInv, SweepInv
    <2> QED
      BY <2>1, <2>4, <2>5, <2>6 DEF EditInv, OpenWhenDue
  <1>3. CASE DropPlan(s)
    <2>1. /\ plan' = [plan EXCEPT ![s] = IdlePlan]
          /\ UNCHANGED <<vars, bookings, replaced, sweep>>
      BY <1>3 DEF DropPlan
    <2>2. PlanInv'
      BY <2>1, <1>0, NewIsLater DEF PlanInv, vars, interview
    <2> QED
      BY <2>1, <2>2, <1>0
         DEF vars, interview, EditInv, OpenWhenDue, Scheduled, VisitInv,
             SweepInv, WindowHasDeadline
  <1> QED
    BY <1>1, <1>2, <1>3 DEF Schedule

LEMMA EnsuredType ==
    ASSUME NEW a \in App, a.window = "awaiting"
    PROVE  /\ Ensured(a) \in App
           /\ Ensured(a).window # "closed"
           /\ Ensured(a).deadline = a.deadline
  BY DEF Ensured, App, Window

LEMMA SweepStep ==
    ASSUME InterviewAssumption, WInv, Sweep PROVE WInv'
  <1> USE DEF WInv, WindowTypeOK, TypeOK, IInv
  <1> DEFINE Sweeps == [at : {"idle", "expiring"}, was : App, will : App]
  <1>0. IdleSweep \in Sweeps /\ IdleSweep.at = "idle"
    BY DEF IdleSweep, NewApp, App, Window
  <1>1. CASE StartSweep
    <2> DEFINE found == [at |-> "expiring", was |-> app, will |-> Ensured(app)]
    <2>1. /\ sweep' = found
          /\ UNCHANGED <<vars, bookings, replaced, plan>>
          /\ app.window = "awaiting"
      BY <1>1 DEF StartSweep
    <2>2. found \in Sweeps
      BY <2>1, EnsuredType
    <2>3. /\ found.was = app
          /\ Opens(app, app, found.will)
          /\ found.will.deadline = app.deadline
      BY <2>1, EnsuredType DEF Opens, Forward, WindowHasDeadline
    <2> HIDE DEF found
    <2>4. SweepInv'
      BY <2>1, <2>3 DEF SweepInv, vars, interview
    <2> QED
      BY <2>1, <2>2, <2>4
         DEF vars, interview, EditInv, OpenWhenDue, Scheduled, VisitInv,
             PlanInv, WindowHasDeadline
  <1>2. CASE FinishSweep
    <2>1. /\ app' = Written(sweep.was, sweep.will)
          /\ sweep' = IdleSweep
          /\ UNCHANGED <<row, answers, sessions, edit, visit, finisher,
                         bookings, replaced, plan>>
          /\ Opens(app, sweep.was, sweep.will)
      BY <1>2 DEF FinishSweep, SweepInv
    <2>2. /\ app' \in App /\ Forward(app, app')
          /\ app'.window # "closed" /\ app'.deadline # "unset"
      BY <2>1, Writing
    <2>3. TypeOK' /\ WindowTypeOK'
      BY <2>1, <2>2, <1>0 DEF WindowHasDeadline
    <2>4. VisitInv' /\ PlanInv' /\ SweepInv'
      BY <2>1, <2>2, <1>0, ForwardAgain DEF VisitInv, PlanInv, SweepInv
    <2> QED
      BY <2>1, <2>2, <2>3, <2>4 DEF EditInv, OpenWhenDue
  <1> QED
    BY <1>1, <1>2 DEF Sweep

LEMMA PassHourStep ==
    ASSUME InterviewAssumption, WInv, PassHour PROVE WInv'
  <1> USE DEF WInv, WindowTypeOK, TypeOK, IInv
  <1>1. /\ app' = [app EXCEPT !.deadline = "past"]
        /\ UNCHANGED <<row, answers, sessions, edit, visit, finisher, window>>
    BY DEF PassHour
  <1>2. /\ app' \in App
        /\ app'.window = app.window /\ app'.preferred = app.preferred
        /\ app'.deadline = "past"
    BY <1>1 DEF App
  <1>3. Forward(app, app')
    BY <1>2 DEF Forward
  <1>4. VisitInv' /\ PlanInv' /\ SweepInv'
    BY <1>1, <1>3, ForwardAgain DEF VisitInv, PlanInv, SweepInv, window
  <1> QED
    BY <1>1, <1>2, <1>4
       DEF EditInv, OpenWhenDue, Scheduled, WindowHasDeadline, window

LEMMA WindowNextInv ==
    ASSUME InterviewAssumption, WInv, [WindowNext]_allVars PROVE WInv'
  <1>1. CASE Next /\ UNCHANGED window
    BY <1>1, NextStep
  <1>2. CASE UNCHANGED allVars
    BY <1>2 DEF allVars, vars, interview, window, WInv, IInv, TypeOK, EditInv,
       WindowTypeOK, WindowHasDeadline, OpenWhenDue, Scheduled, VisitInv,
       PlanInv, SweepInv
  <1> QED
    BY <1>1, <1>2, SubmitStep, ScheduleStep, SweepStep, PassHourStep
       DEF WindowNext

----------------------------------------------------------------------------
(* Every reachable state is well typed, and a window always has its time:  *)
(* no request that wrote over the application's columns without having     *)
(* seen the latest ones leaves a window without a deadline.                *)
THEOREM WindowTypeCorrect ==
    ASSUME InterviewAssumption PROVE WindowSpec => []WindowTypeOK
  <1>1. WindowInit => WInv
    BY WindowInitInv
  <1>2. WInv /\ [WindowNext]_allVars => WInv'
    BY WindowNextInv
  <1>3. WInv => WindowTypeOK
    BY DEF WInv
  <1> QED
    BY <1>1, <1>2, <1>3, PTL DEF WindowSpec

(* The candidate gets the hour once, for any number of tabs, of members of *)
(* the commission who schedule, and of answers: the two completions, the   *)
(* submission, the schedule and the sweep write only what they changed,    *)
(* and none of them gives the time to an application that is past its      *)
(* completion.                                                             *)
THEOREM HourIsGivenOnce ==
    ASSUME InterviewAssumption PROVE WindowSpec => WindowOpensOnce
  <1> DEFINE Once == app.deadline # "ahead" /\ app'.deadline = "ahead"
                       => ~row.completed
  <1>1. ASSUME WInv, NEW r \in Reviewer, Commission(r)
        PROVE  Once
    <2>1. CASE FinishApprove(r)
      <3>1. CASE row.status = "draft" /\ Approvable(row.questions)
        <4>1. app' = [app EXCEPT !.stage = "interview"] /\ app \in App
          BY <1>1, <2>1, <3>1 DEF FinishApprove, WInv, WindowTypeOK, TypeOK
        <4> QED
          BY <4>1 DEF App
      <3>2. CASE ~(row.status = "draft" /\ Approvable(row.questions))
        BY <2>1, <3>2 DEF FinishApprove
      <3> QED
        BY <3>1, <3>2
    <2>2. CASE ~FinishApprove(r)
      BY <1>1, <2>2
         DEF Commission, StartGenerate, FinishGenerate,
             StartPatch, FinishPatch, StartApprove, DropEdit, interview
    <2> QED
      BY <2>1, <2>2
  <1>2. ASSUME WInv, NEW t \in Tab, Candidate(t)
        PROVE  Once
    <2>1. CASE FinishComplete(t)
      <3>1. /\ app' = Written(visit[t].was, visit[t].will)
            /\ Opens(app, visit[t].was, visit[t].will)
            /\ visit[t].will.deadline # visit[t].was.deadline => ~row.completed
        BY <1>2, <2>1 DEF FinishComplete, WInv, VisitInv
      <3> QED
        BY <1>2, <3>1, Writing DEF WInv, WindowTypeOK, TypeOK
    <2>2. CASE ~FinishComplete(t)
      BY <1>2, <2>2
         DEF Candidate, StartSave, FinishSave, StartComplete,
             FlushCompletion, WriteWindow, DropVisit, interview
    <2> QED
      BY <2>1, <2>2
  <1>3. ASSUME WInv, NEW t \in Tab, Submit(t)
        PROVE  Once
    <2>1. CASE StartSubmit(t)
      BY <2>1 DEF StartSubmit, interview
    <2>2. CASE FinishSubmit(t)
      <3>1. /\ app' = Written(visit[t].was, visit[t].will)
            /\ Opens(app, visit[t].was, visit[t].will)
            /\ visit[t].will.deadline = visit[t].was.deadline
        BY <1>3, <2>2 DEF FinishSubmit, WInv, VisitInv
      <3> QED
        BY <1>3, <3>1, Writing DEF WInv, WindowTypeOK, TypeOK
    <2> QED
      BY <1>3, <2>1, <2>2 DEF Submit
  <1>4. ASSUME WInv, NEW s \in Scheduler, Schedule(s)
        PROVE  Once
    <2>1. CASE FinishSchedule(s)
      <3> DEFINE was == plan[s].was
                 will == Closed(was)
      <3>1. app' = Written(was, will) /\ was \in App /\ app \in App
        BY <1>4, <2>1 DEF FinishSchedule, WInv, WindowTypeOK, TypeOK
      <3>2. /\ will \in App
            /\ Opens(app, was, will)
            /\ will.deadline \in {was.deadline, "past"}
        BY <1>4, <3>1, ClosedType DEF Opens, PlanInv, WInv
      <3> HIDE DEF was, will
      <3> QED
        BY <3>1, <3>2, Writing
    <2>2. CASE ~FinishSchedule(s)
      BY <1>4, <2>2 DEF Schedule, StartSchedule, DropPlan, vars, interview
    <2> QED
      BY <2>1, <2>2
  <1>5. ASSUME WInv, Sweep
        PROVE  Once
    <2>1. CASE StartSweep
      BY <2>1 DEF StartSweep, vars, interview
    <2>2. CASE FinishSweep
      <3>1. /\ app' = Written(sweep.was, sweep.will)
            /\ Opens(app, sweep.was, sweep.will)
            /\ sweep.will.deadline = sweep.was.deadline
            /\ app \in App /\ sweep.was \in App /\ sweep.will \in App
        BY <1>5, <2>2
           DEF FinishSweep, SweepInv, WInv, WindowTypeOK, TypeOK
      <3> QED
        BY <3>1, Writing
    <2> QED
      BY <1>5, <2>1, <2>2 DEF Sweep
  <1>6. WInv /\ PassHour => Once
    BY DEF PassHour
  <1>7. WInv /\ [WindowNext]_allVars => [Once]_allVars
    BY <1>1, <1>2, <1>3, <1>4, <1>5, <1>6 DEF WindowNext, Next
  <1>8. WindowInit => WInv
    BY WindowInitInv
  <1>9. WInv /\ [WindowNext]_allVars => WInv'
    BY WindowNextInv
  <1> QED
    BY <1>7, <1>8, <1>9, PTL DEF WindowSpec, WindowOpensOnce
=============================================================================
