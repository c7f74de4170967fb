---------------------------- MODULE AIInterview ----------------------------
(***************************************************************************)
(* The AI clarification interview of one application: the commission       *)
(* drafts, edits and approves a set of questions, the approval moves the   *)
(* application to the interview stage, the candidate answers and completes *)
(* the interview, and the completion opens the window for preferred slots. *)
(*                                                                         *)
(* app, row, answers and sessions are the COMMITTED rows. A request is a   *)
(* database session of its own: what it has loaded stays as it was in the  *)
(* session's identity map, and what it writes is the set of columns that   *)
(* differ from what it loaded. Reads take no lock (READ COMMITTED); a      *)
(* flush and the commit right after it are one step, except in the         *)
(* completion, which holds its row locks during an LLM call.               *)
(*                                                                         *)
(* A list of questions is one value; Asks says which questions of it have  *)
(* a text to show. Left out: approved_at (set exactly while the status is  *)
(* approved), the resolution summary, the audit and activity rows, the     *)
(* e-mails. The application enters in application_review without a set of  *)
(* questions: drafting on entry and drafting by a script are requests of   *)
(* the commission without force.                                           *)
(* The other transitions of the two stages are left out: the kanban advance *)
(* asks for an approved set, and so comes after the approval; the others   *)
(* leave the interview stage, or are not for production.                   *)
(***************************************************************************)
EXTENDS Integers, FiniteSets

CONSTANTS
    Reviewer,      \* members of the commission, one request at a time each
    Tab,           \* browser tabs of the candidate, one request at a time each
    Question, List, Asks,
    Text,          \* answers that are not blank
    MinQuestions, MaxQuestions,  \* 3 and 5
    MaxRevision    \* bound: revisions of the set

VARIABLES
    app,       \* Application: stage and preference-window columns
    row,       \* AIInterviewQuestionSet
    answers,   \* AIInterviewAnswer
    sessions,  \* InterviewSession rows with a date
    edit,      \* edit[r]: a reviewer's request
    visit,     \* visit[t]: a tab's request
    finisher   \* the tab whose completion holds the row lock of the set

interview == <<app, row, answers, sessions>>
vars == <<interview, edit, visit, finisher>>

Nobody == "nobody"
NoList == "no list"
NoAnswer == "no answer"
Blank == "blank"

ASSUME InterviewAssumption ==
    /\ Asks \in [List -> SUBSET Question]
    /\ MinQuestions \in Nat
    /\ MaxQuestions \in Nat
    /\ MaxRevision \in Nat \ {0}
    /\ Nobody \notin Tab
    /\ NoList \notin List
    /\ {NoAnswer, Blank} \cap Text = {}

Answer == Text \cup {Blank, NoAnswer}
Window == {"closed", "awaiting", "submitted", "expired", "scheduled"}
App == [stage : {"application_review", "interview"}, window : Window,
        deadline : {"unset", "ahead", "past"}, preferred : BOOLEAN]
Row == [status : {"none", "draft", "approved"}, revision : 0..MaxRevision,
        questions : List \cup {NoList}, completed : BOOLEAN]

NewApp == [stage |-> "application_review", window |-> "closed",
           deadline |-> "unset", preferred |-> FALSE]
NoRow == [status |-> "none", revision |-> 0, questions |-> NoList,
          completed |-> FALSE]
NoAnswers == [q \in Question |-> NoAnswer]
IdleEdit == [at |-> "idle", row |-> NoRow, list |-> NoList]
IdleVisit == [at |-> "idle", new |-> NoAnswers, was |-> NewApp,
              will |-> NewApp]

TypeOK ==
    /\ app \in App
    /\ row \in Row
    /\ row.status = "none" <=> row.revision = 0
    /\ answers \in [Question -> Answer]
    /\ sessions \in Nat
    /\ edit \in [Reviewer -> [at : {"idle", "generating", "patching",
                                    "approving"},
                              row : Row, list : List \cup {NoList}]]
    /\ visit \in [Tab -> [at : {"idle", "saving", "checked", "flushed",
                                "summing", "submitting"},
                          new : [Question -> Answer],
                          was : App, will : App]]
    /\ finisher \in Tab \cup {Nobody}

Init ==
    /\ app = NewApp
    /\ row = NoRow
    /\ answers = NoAnswers
    /\ sessions = 0
    /\ edit = [r \in Reviewer |-> IdleEdit]
    /\ visit = [t \in Tab |-> IdleVisit]
    /\ finisher = Nobody

----------------------------------------------------------------------------
(* The commission's requests.                                              *)

Approvable(list) ==
    Cardinality(Asks[list]) \in MinQuestions..MaxQuestions

Request(r, e) == edit' = [edit EXCEPT ![r] = e]
Reply(r) == Request(r, IdleEdit)

\* Drafting reads the application and the set, then waits for the LLM.
StartGenerate(r, force) ==
    /\ edit[r].at = "idle"
    /\ app.stage = "application_review"
    /\ row.status = "none" \/ force
    /\ Request(r, [at |-> "generating", row |-> row, list |-> NoList])
    /\ UNCHANGED <<interview, visit, finisher>>

\* upsert_draft queries the set again: a set the session had not loaded is
\* read as it is now, a set it had loaded is still as it was loaded.
UpsertDraft(loaded, list) ==
    LET base == IF loaded.status = "none" THEN row ELSE loaded
    IN  IF base.status = "none"
        THEN [row EXCEPT !.status = "draft", !.revision = 1,
                         !.questions = list]
        ELSE [row EXCEPT
                !.status = IF base.status = "draft" THEN @ ELSE "draft",
                !.revision = IF base.status = "approved"
                             THEN base.revision + 1 ELSE @,
                !.questions = IF list = base.questions THEN @ ELSE list]

FinishGenerate(r, list) ==
    /\ edit[r].at = "generating"
    /\ finisher = Nobody
    /\ UpsertDraft(edit[r].row, list).revision <= MaxRevision
    /\ row' = UpsertDraft(edit[r].row, list)
    /\ Reply(r)
    /\ UNCHANGED <<app, answers, sessions, visit, finisher>>

\* An edit names the revision of the page it was made on, and is refused
\* unless that is the revision of the set.
StartPatch(r, list) ==
    /\ edit[r].at = "idle"
    /\ row.status = "draft"
    /\ row.revision < MaxRevision
    /\ Request(r, [at |-> "patching", row |-> row, list |-> list])
    /\ UNCHANGED <<interview, visit, finisher>>

FinishPatch(r) ==
    LET loaded == edit[r].row
        list == edit[r].list
    IN  /\ edit[r].at = "patching"
        /\ finisher = Nobody
        /\ row' = [row EXCEPT
                     !.revision = loaded.revision + 1,
                     !.questions = IF list = loaded.questions THEN @
                                   ELSE list]
        /\ Reply(r)
        /\ UNCHANGED <<app, answers, sessions, visit, finisher>>

\* The approval reads the application, then the set under a row lock.
StartApprove(r) ==
    /\ edit[r].at = "idle"
    /\ app.stage = "application_review"
    /\ Request(r, [at |-> "approving", row |-> row, list |-> NoList])
    /\ UNCHANGED <<interview, visit, finisher>>

\* (mutated: the approval decides on the set as read without the lock)
FinishApproveUnlocked(r) ==
    /\ edit[r].at = "approving"
    /\ finisher = Nobody
    /\ IF edit[r].row.status = "draft" /\ Approvable(edit[r].row.questions)
       THEN /\ row' = [row EXCEPT !.status = "approved"]
            /\ app' = [app EXCEPT !.stage = "interview"]
       ELSE UNCHANGED <<row, app>>
    /\ Reply(r)
    /\ UNCHANGED <<answers, sessions, visit, finisher>>

FinishApprove(r) ==
    /\ edit[r].at = "approving"
    /\ finisher = Nobody
    /\ IF row.status = "draft" /\ Approvable(row.questions)
       THEN /\ row' = [row EXCEPT !.status = "approved"]
            /\ app' = [app EXCEPT !.stage = "interview"]
       ELSE UNCHANGED <<row, app>>
    /\ Reply(r)
    /\ UNCHANGED <<answers, sessions, visit, finisher>>

----------------------------------------------------------------------------
(* The candidate's requests.                                               *)

Turn(t, v) == visit' = [visit EXCEPT ![t] = v]
Leave(t) == Turn(t, IdleVisit)

Interviewing == app.stage = "interview" /\ row.status = "approved"

\* (mutated: answers are taken after the completion)
StartSaveAfterCompletion(t, new) ==
    /\ visit[t].at = "idle"
    /\ Interviewing
    /\ \A q \in Question : new[q] # NoAnswer => q \in Asks[row.questions]
    /\ Turn(t, [IdleVisit EXCEPT !.at = "saving", !.new = new])
    /\ UNCHANGED <<interview, edit, finisher>>

\* The guards of saving are checked once, before the answers are written.
StartSave(t, new) ==
    /\ visit[t].at = "idle"
    /\ Interviewing
    /\ ~row.completed
    /\ \A q \in Question : new[q] # NoAnswer => q \in Asks[row.questions]
    /\ \E q \in Question : new[q] # NoAnswer
    /\ Turn(t, [IdleVisit EXCEPT !.at = "saving", !.new = new])
    /\ UNCHANGED <<interview, edit, finisher>>

FinishSave(t) ==
    LET new == visit[t].new
    IN  /\ visit[t].at = "saving"
        /\ answers' = [q \in Question |->
                         IF new[q] = NoAnswer THEN answers[q] ELSE new[q]]
        /\ Leave(t)
        /\ UNCHANGED <<app, row, sessions, edit, finisher>>

\* The completion checks the answers, then flushes its row, opens the
\* window, and commits when the LLM has summed the interview up.
StartComplete(t) ==
    /\ visit[t].at = "idle"
    /\ Interviewing
    /\ ~row.completed
    /\ Asks[row.questions] # {}
    /\ \A q \in Asks[row.questions] : answers[q] \in Text
    /\ Turn(t, [IdleVisit EXCEPT !.at = "checked"])
    /\ UNCHANGED <<interview, edit, finisher>>

Scheduled == sessions > 0

\* (mutated: a window that has been open is opened again)
OpenedAgain(a) ==
    IF Scheduled THEN [a EXCEPT !.window = "scheduled"]
    ELSE IF a.preferred THEN [a EXCEPT !.window = "submitted"]
    ELSE [a EXCEPT !.window = "awaiting", !.deadline = "ahead"]

\* open_preference_window_on_ai_complete, on the application as it is when
\* the row is flushed. (The lazy expiry it calls first works on the
\* application as loaded before that, and finds no window awaiting.)
Opened(a) ==
    IF Scheduled THEN [a EXCEPT !.window = "scheduled"]
    ELSE IF a.window = "scheduled" THEN a
    ELSE IF a.preferred THEN [a EXCEPT !.window = "submitted"]
    ELSE IF a.window # "closed" THEN a
    ELSE [a EXCEPT !.window = "awaiting", !.deadline = "ahead"]

\* The columns of the application a request has changed, as it loaded it.
Written(was, will) ==
    [app EXCEPT
       !.window = IF will.window = was.window THEN @ ELSE will.window,
       !.deadline = IF will.deadline = was.deadline THEN @ ELSE will.deadline,
       !.preferred = IF will.preferred = was.preferred THEN @
                     ELSE will.preferred]

FlushCompletion(t) ==
    /\ visit[t].at = "checked"
    /\ finisher = Nobody
    /\ finisher' = t
    /\ Turn(t, [visit[t] EXCEPT !.at = "flushed", !.was = app,
                                !.will = Opened(app)])
    /\ UNCHANGED <<interview, edit>>

\* Requests that hold the application's row, or its projection: a completion
\* that has written the window, and a submission that has marked the window
\* as expired before it is submitted after all (InterviewWindow).
Busy(t) ==
    \/ visit[t].at = "summing"
    \/ /\ visit[t].at = "submitting"
       /\ visit[t].was.window = "awaiting"
       /\ visit[t].was.deadline = "past"

WriteWindow(t) ==
    /\ visit[t].at = "flushed"
    /\ \A u \in Tab : ~Busy(u)
    /\ Turn(t, [visit[t] EXCEPT !.at = "summing"])
    /\ UNCHANGED <<interview, edit, finisher>>

FinishComplete(t) ==
    /\ visit[t].at = "summing"
    /\ row' = [row EXCEPT !.completed = TRUE]
    /\ app' = Written(visit[t].was, visit[t].will)
    /\ finisher' = Nobody
    /\ Leave(t)
    /\ UNCHANGED <<answers, sessions, edit>>

----------------------------------------------------------------------------
\* A request that dies before its commit is rolled back.
DropEdit(r) ==
    /\ edit[r].at # "idle"
    /\ Reply(r)
    /\ UNCHANGED <<interview, visit, finisher>>

DropVisit(t) ==
    /\ visit[t].at # "idle"
    /\ Leave(t)
    /\ finisher' = IF finisher = t THEN Nobody ELSE finisher
    /\ UNCHANGED <<interview, edit>>

Commission(r) ==
    \/ \E force \in BOOLEAN : StartGenerate(r, force)
    \/ \E list \in List : FinishGenerate(r, list)
    \/ \E list \in List : StartPatch(r, list)
    \/ FinishPatch(r)
    \/ StartApprove(r)
    \/ FinishApprove(r)
    \/ DropEdit(r)

Candidate(t) ==
    \/ \E new \in [Question -> Answer] : StartSave(t, new)
    \/ FinishSave(t)
    \/ StartComplete(t)
    \/ FlushCompletion(t)
    \/ WriteWindow(t)
    \/ FinishComplete(t)
    \/ DropVisit(t)

Next ==
    \/ \E r \in Reviewer : Commission(r)
    \/ \E t \in Tab : Candidate(t)

Spec == Init /\ [][Next]_vars

----------------------------------------------------------------------------
(* Properties of the question set.                                         *)

(* The stage only ever moves with an approved set of an allowed size in the *)
(* same commit, whatever happened to the draft since the approval read it  *)
(* (approve_ai_interview).                                                 *)
AdvanceOnApprovedSet ==
    [][app'.stage # app.stage =>
         row'.status = "approved" /\ Approvable(row'.questions)]_vars
=============================================================================
