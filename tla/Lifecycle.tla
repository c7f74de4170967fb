------------------------------ MODULE Lifecycle ------------------------------
(***************************************************************************)
(* The applications of one candidate, from the first saved section to the  *)
(* final decision: the stage transitions with their history, the routes    *)
(* that lead to them, the commission's marks, the archive that gives the   *)
(* candidate a fresh application, and the kanban card.                     *)
(*                                                                         *)
(* Every handler is a request: it LOADS the application's row, checks its  *)
(* guards, and COMMITS later, with no lock in between. What it writes are  *)
(* the columns that differ from what it has loaded. The variables hold the *)
(* committed rows.                                                         *)
(*                                                                         *)
(* Left out: section payloads and whether they are complete (a submission  *)
(* is attempted when they are), audit rows, and the mails other than that  *)
(* of the decision. What the other components find out is not kept here: a *)
(* transition may be asked for when the data check (DataCheckPipeline),    *)
(* the questions and the interview (AIInterview, InterviewWindow) and the  *)
(* scores allow it, and these may do so at any time.                       *)
(***************************************************************************)
EXTENDS Integers, Sequences, FiniteSets

CONSTANTS
    Request,   \* concurrent requests
    Decision,  \* final_decision_status
    \* Bounds of the instance:
    MaxApps,   \* applications of the candidate
    MaxMarks,  \* stage statuses and attention flags set
    MaxRows    \* history rows and marks of all applications

VARIABLES
    app,       \* app[a]: Application
    history,   \* history[a]: ApplicationStageHistory, oldest first
    stageRow,  \* stageRow[a][s]: ApplicationStageState
    decision,  \* decision[a]: AdmissionDecision
    card,      \* card[a]: ApplicationCommissionProjection
    told,      \* told[a]: decisions mailed to the candidate
    req,       \* req[r]: a request
    marks,     \* stage statuses and flags set so far
    raced,     \* applications whose row has changed under a request
    behind     \* applications whose card was left behind by their last request

rows == <<app, history, stageRow, decision, card>>
vars == <<rows, told, req, marks, raced, behind>>

ASSUME LifecycleAssumption ==
    /\ MaxApps \in Nat \ {0}
    /\ MaxMarks \in Nat
    /\ MaxRows \in Nat
    /\ "none" \notin Decision

AppId == 1..MaxApps

ApplicationStage == {"application", "initial_screening",
                     "application_review", "interview", "committee_review",
                     "decision"}

\* interview_scheduled, interview_completed, submitted and waitlist are
\* never written.
ApplicationState == {"draft", "in_progress", "revision_required",
                     "under_screening", "screening_blocked", "under_review",
                     "interview_pending", "committee_review",
                     "pending_decision", "decision_made"}

Application == [stage : ApplicationStage, state : ApplicationState,
                locked : BOOLEAN, submitted : BOOLEAN, archived : BOOLEAN]

HistoryRow == [from : ApplicationStage \cup {"none"}, to : ApplicationStage,
               open : BOOLEAN]

StageRow == [status : {"none", "new", "approved"}, attention : BOOLEAN]
NoStageRow == [status |-> "none", attention |-> FALSE]

Card == [stage : ApplicationStage, status : {"none", "new", "approved"},
         attention : BOOLEAN, submitted : BOOLEAN, archived : BOOLEAN,
         decision : Decision \cup {"none"}]
NoCard == [stage |-> "none"]

NewApplication == [stage |-> "application", state |-> "draft",
                   locked |-> FALSE, submitted |-> FALSE, archived |-> FALSE]

\* The transitions of apply_transition. revision_required has no guard there.
Policy ==
    [screening_passed |->
       [from |-> {"initial_screening"}, to |-> "application_review",
        state |-> "under_review"],
     revision_required |->
       [from |-> ApplicationStage, to |-> "application",
        state |-> "revision_required"],
     screening_blocked |->
       [from |-> {"initial_screening"}, to |-> "initial_screening",
        state |-> "screening_blocked"],
     review_complete |->
       [from |-> {"application_review"}, to |-> "interview",
        state |-> "interview_pending"],
     interview_complete |->
       [from |-> {"interview"}, to |-> "committee_review",
        state |-> "committee_review"],
     human_advances_to_decision |->
       [from |-> {"committee_review"}, to |-> "decision",
        state |-> "pending_decision"]]

TransitionName == DOMAIN Policy
Operation == TransitionName \cup
    {"save", "submit", "reopen", "reset", "decide", "mark", "archive"}

\* open: the history row the request has found open; len: how many it saw.
IdleRequest == [at |-> "idle", op |-> "save", a |-> 1,
                was |-> NewApplication, len |-> 0, open |-> 0]

TypeOK ==
    /\ app \in [AppId -> Application]
    /\ history \in [AppId -> Seq(HistoryRow)]
    /\ stageRow \in [AppId -> [ApplicationStage -> StageRow]]
    /\ decision \in [AppId -> Decision \cup {"none"}]
    /\ card \in [AppId -> Card \cup {NoCard}]
    /\ told \in [AppId -> SUBSET Decision]
    /\ req \in [Request -> [at : {"idle", "loaded"}, op : Operation,
                            a : AppId, was : Application,
                            len : Nat, open : Nat]]
    /\ marks \in 0..MaxMarks
    /\ raced \subseteq AppId
    /\ behind \subseteq AppId

Created == [from |-> "none", to |-> "application", open |-> TRUE]

\* create_initial_application, at the registration.
Init ==
    /\ app = [a \in AppId |-> NewApplication]
    /\ history = [a \in AppId |-> IF a = 1 THEN <<Created>> ELSE <<>>]
    /\ stageRow = [a \in AppId |-> [s \in ApplicationStage |-> NoStageRow]]
    /\ decision = [a \in AppId |-> "none"]
    /\ card = [a \in AppId |-> NoCard]
    /\ told = [a \in AppId |-> {}]
    /\ req = [r \in Request |-> IdleRequest]
    /\ marks = 0
    /\ raced = {}
    /\ behind = {}

Exists(a) == history[a] # <<>>
Active(a) == Exists(a) /\ ~app[a].archived

----------------------------------------------------------------------------
(* Loading: the row, the guards, the open history row.                     *)

\* (mutated: the first open row)
FirstOpen(h) ==
    LET opened == {i \in DOMAIN h : h[i].open}
    IN  IF opened = {} THEN 0
        ELSE CHOOSE i \in opened : \A j \in opened : j >= i

\* The last open row by entered_at; 0 when there is none.
LastOpen(h) ==
    LET opened == {i \in DOMAIN h : h[i].open}
    IN  IF opened = {} THEN 0
        ELSE CHOOSE i \in opened : \A j \in opened : j <= i

\* Bounds: requests in flight together are about the same application (only
\* the archive writes rows of two, of which it creates the second), and no
\* request begins once two have changed an application at the same time.
Load(r, a, op) ==
    /\ req[r].at = "idle"
    /\ \A q \in Request : req[q].at = "loaded" => req[q].a = a
    /\ raced = {}
    /\ req' = [req EXCEPT ![r] =
                 [at |-> "loaded", op |-> op, a |-> a,
                  was |-> app[a], len |-> Len(history[a]),
                  open |-> LastOpen(history[a])]]
    /\ UNCHANGED <<rows, told, marks, raced, behind>>

\* _ensure_editable looks at the lock, not at the stage.
Editable(a) == ~app[a].locked

AskSave(r, a) == Active(a) /\ Editable(a) /\ Load(r, a, "save")
AskReset(r, a) == Active(a) /\ Editable(a) /\ Load(r, a, "reset")
AskSubmit(r, a) == Active(a) /\ Editable(a) /\ Load(r, a, "submit")

\* has_pipeline_enqueue_failures.
AskReopen(r, a) ==
    /\ Active(a)
    /\ app[a].stage = "initial_screening"
    /\ app[a].locked
    /\ Load(r, a, "reopen")

\* Transitions that only a route of internal_admissions asks for.
ScreeningOnly == {"revision_required", "screening_blocked"}

\* The board: resolve_kanban_advance names the transition of the stage.
AskAdvance(r, a, op) ==
    /\ Exists(a)
    /\ app[a].submitted \/ app[a].locked \/ app[a].archived
    /\ op \notin ScreeningOnly
    /\ app[a].stage \in Policy[op].from
    /\ Load(r, a, op)

\* (mutated: ensure_stage is missing in the route of the screening)
AskInternalAnywhere(r, a, op) ==
    /\ Exists(a)
    /\ app[a].stage \in Policy[op].from
    /\ Load(r, a, op)

\* The routes of internal_admissions: those of the screening ensure the stage.
AskInternal(r, a, op) ==
    /\ Exists(a)
    /\ app[a].stage \in Policy[op].from
    /\ op \in ScreeningOnly \cup {"screening_passed"}
         => app[a].stage = "initial_screening"
    /\ Load(r, a, op)

\* _try_auto_advance of a worker, a sweep or the webhook.
AskAutoAdvance(r, a) ==
    /\ Exists(a)
    /\ app[a].stage = "initial_screening"
    /\ Load(r, a, "screening_passed")

\* approve_ai_interview.
AskApprove(r, a) ==
    /\ Exists(a)
    /\ app[a].stage = "application_review"
    /\ Load(r, a, "review_complete")

\* record_final_decision, from the board or from the internal route.
AskDecide(r, a) ==
    /\ Exists(a)
    /\ app[a].stage = "decision"
    /\ decision[a] = "none"
    /\ Load(r, a, "decide")

AskMark(r, a) ==
    /\ Exists(a)
    /\ marks < MaxMarks
    /\ Load(r, a, "mark")

AskArchive(r, a) ==
    /\ Active(a)
    /\ Load(r, a, "archive")

----------------------------------------------------------------------------
(* Committing.                                                             *)

Loaded(r, ops) == req[r].at = "loaded" /\ req[r].op \in ops
Reply(r) == req' = [req EXCEPT ![r] = IdleRequest]

\* The columns a session writes are those it has changed.
Written(now, was, will) ==
    [c \in DOMAIN now |-> IF will[c] # was[c] THEN will[c] ELSE now[c]]

Store(r, will) ==
    app' = [app EXCEPT ![req[r].a] = Written(@, req[r].was, will)]

\* A request that commits over rows which are not those it has loaded.
NoteRace(r) ==
    raced' = IF /\ app[req[r].a] = req[r].was
                /\ Len(history[req[r].a]) = req[r].len
             THEN raced
             ELSE raced \cup {req[r].a}

\* _close_open_history, _append_history.
Closed(h, i) == [j \in DOMAIN h |-> IF j = i THEN [h[j] EXCEPT !.open = FALSE] ELSE h[j]]
Entered(from, to) == [from |-> from, to |-> to, open |-> TRUE]

Record(r, closing, from, to) ==
    LET a == req[r].a
        h == IF closing THEN Closed(history[a], req[r].open) ELSE history[a]
    IN  history' = [history EXCEPT
                      ![a] = Append(h, Entered(from, to))]

\* upsert_projection_for_application, from the application as the session
\* has it.
CardOf(will, staged, decided) ==
    [stage |-> will.stage,
     status |-> staged[will.stage].status,
     attention |-> staged[will.stage].attention,
     submitted |-> will.submitted,
     archived |-> will.archived,
     decision |-> decided]

\* (mutated: from the application before the change)
RebuildBefore(r, will, staged, decided) ==
    /\ card' = [card EXCEPT ![req[r].a] = CardOf(req[r].was, staged, decided)]
    /\ behind' = behind \ {req[r].a}

Rebuild(r, will, staged, decided) ==
    /\ card' = [card EXCEPT ![req[r].a] = CardOf(will, staged, decided)]
    /\ behind' = behind \ {req[r].a}

\* The routes of internal_admissions leave the card alone; those of the board
\* and the data check rebuild it.
LeaveCard(r) ==
    /\ behind' = behind \cup {req[r].a}
    /\ UNCHANGED card

\* What apply_transition makes of the application.
After(was, op) ==
    [was EXCEPT !.stage = Policy[op].to, !.state = Policy[op].state,
                !.locked = @ /\ op # "revision_required"]

RowsLeft ==
    LET Rows[n \in 0..MaxApps] ==
          IF n = 0 THEN marks ELSE Rows[n - 1] + Len(history[n])
    IN  Rows[MaxApps] < MaxRows

\* screening_blocked does not close the open history row.
CommitTransition(r) ==
    LET a == req[r].a
        will == After(req[r].was, req[r].op)
    IN  /\ Loaded(r, TransitionName)
        /\ RowsLeft
        /\ Store(r, will)
        /\ Record(r, req[r].op # "screening_blocked",
                  req[r].was.stage, will.stage)
        /\ \/ LeaveCard(r)
           \/ /\ req[r].op \notin ScreeningOnly
              /\ Rebuild(r, will, stageRow[a], decision[a])
        /\ NoteRace(r)
        /\ Reply(r)
        /\ UNCHANGED <<stageRow, decision, told, marks>>

\* submit_application: with the data-check run and its stage row.
CommitSubmit(r) ==
    LET a == req[r].a
        will == [req[r].was EXCEPT !.stage = "initial_screening",
                                   !.state = "under_screening",
                                   !.locked = TRUE, !.submitted = TRUE]
    IN  /\ Loaded(r, {"submit"})
        /\ RowsLeft
        /\ Store(r, will)
        /\ Record(r, TRUE, "application", "initial_screening")
        /\ stageRow' = [stageRow EXCEPT ![a]["initial_screening"].status = "new"]
        /\ Rebuild(r, will, stageRow'[a], decision[a])
        /\ NoteRace(r)
        /\ Reply(r)
        /\ UNCHANGED <<decision, told, marks>>

\* reopen_application_for_resubmit.
CommitReopen(r) ==
    LET a == req[r].a
        will == [req[r].was EXCEPT !.stage = "application",
                                   !.state = "in_progress",
                                   !.locked = FALSE, !.submitted = FALSE]
    IN  /\ Loaded(r, {"reopen"})
        /\ RowsLeft
        /\ Store(r, will)
        /\ Record(r, TRUE, req[r].was.stage, "application")
        /\ Rebuild(r, will, stageRow[a], decision[a])
        /\ NoteRace(r)
        /\ Reply(r)
        /\ UNCHANGED <<stageRow, decision, told, marks>>

\* reset_application_sections: the card is left as it is.
CommitReset(r) ==
    /\ Loaded(r, {"reset"})
    /\ Store(r, [req[r].was EXCEPT !.state = "draft", !.submitted = FALSE,
                                   !.locked = FALSE])
    /\ LeaveCard(r)
    /\ NoteRace(r)
    /\ Reply(r)
    /\ UNCHANGED <<history, stageRow, decision, told, marks>>

\* save_section: only the personal and the contact section show on the card.
CommitSave(r) ==
    LET a == req[r].a
        was == req[r].was
        will == IF was.state = "draft"
                THEN [was EXCEPT !.state = "in_progress"] ELSE was
    IN  /\ Loaded(r, {"save"})
        /\ Store(r, will)
        /\ \/ Rebuild(r, will, stageRow[a], decision[a])
           \/ UNCHANGED <<card, behind>>
        /\ NoteRace(r)
        /\ Reply(r)
        /\ UNCHANGED <<history, stageRow, decision, told, marks>>

\* record_final_decision; uq_admission_decisions_app refuses a second one.
\* The mail goes out after the commit, if at all.
CommitDecide(r, value) ==
    LET a == req[r].a
        will == [req[r].was EXCEPT !.state = "decision_made"]
    IN  /\ Loaded(r, {"decide"})
        /\ decision[a] = "none"
        /\ Store(r, will)
        /\ decision' = [decision EXCEPT ![a] = value]
        /\ \/ told' = [told EXCEPT ![a] = @ \cup {value}]
           \/ told' = told
        /\ \/ LeaveCard(r)
           \/ Rebuild(r, will, stageRow[a], decision'[a])
        /\ NoteRace(r)
        /\ Reply(r)
        /\ UNCHANGED <<history, stageRow, marks>>

\* A mark is set on the stage as the session has loaded it.
Marked(r) == stageRow[req[r].a][req[r].was.stage]
FirstMark(r) == Marked(r).status = "none"

\* The session does not flush by itself (SessionLocal): the projection does not
\* find a row that is new, and shows the mark only when it is rebuilt again.
ShowMark(r) ==
    LET a == req[r].a
    IN  IF FirstMark(r)
        THEN /\ card' = [card EXCEPT
                   ![a] = CardOf(req[r].was, stageRow[a], decision[a])]
             /\ behind' = behind \cup {a}
        ELSE Rebuild(r, req[r].was, stageRow'[a], decision[a])

CommitMark(r, row) ==
    LET a == req[r].a
        was == req[r].was
    IN  /\ Loaded(r, {"mark"})
        /\ marks < MaxMarks
        /\ RowsLeft
        /\ marks' = marks + 1
        /\ stageRow' = [stageRow EXCEPT ![a][was.stage] = row]
        /\ ShowMark(r)
        /\ NoteRace(r)
        /\ Reply(r)
        /\ UNCHANGED <<app, history, decision, told>>

\* set_stage_status.
CommitStatus(r) == CommitMark(r, [Marked(r) EXCEPT !.status = "approved"])

\* set_attention: a new row is "new".
CommitAttention(r) ==
    CommitMark(r, [status |-> IF FirstMark(r) THEN "new" ELSE Marked(r).status,
                   attention |-> ~Marked(r).attention])

\* (mutated: without uq_one_active_application_per_candidate)
MayCreateUnchecked(a) == TRUE

\* uq_one_active_application_per_candidate.
MayCreate(a) == \A b \in AppId \ {a} : ~Active(b)

\* archive_application_by_commission: the archived application, and a fresh
\* one for the candidate.
CommitArchive(r) ==
    LET a == req[r].a
        will == [req[r].was EXCEPT !.archived = TRUE]
        fresh == {b \in AppId : ~Exists(b)}
    IN  /\ Loaded(r, {"archive"})
        /\ RowsLeft
        /\ MayCreate(a)
        /\ fresh # {}
        /\ LET n == CHOOSE b \in fresh : \A c \in fresh : b <= c
           IN  /\ Store(r, will)
               /\ history' = [history EXCEPT ![n] = <<Created>>]
               /\ card' = [card EXCEPT
                     ![a] = CardOf(will, stageRow[a], decision[a]),
                     ![n] = CardOf(NewApplication, stageRow[n], "none")]
               /\ behind' = behind \ {a, n}
        /\ NoteRace(r)
        /\ Reply(r)
        /\ UNCHANGED <<stageRow, decision, told, marks>>

\* The request fails, in its guards or in a constraint, and is rolled back.
Drop(r) ==
    /\ req[r].at = "loaded"
    /\ Reply(r)
    /\ UNCHANGED <<rows, told, marks, raced, behind>>

----------------------------------------------------------------------------
Candidate(r, a) ==
    AskSave(r, a) \/ AskReset(r, a) \/ AskSubmit(r, a) \/ AskReopen(r, a)

Commission(r, a) ==
    \/ \E op \in TransitionName : AskAdvance(r, a, op) \/ AskInternal(r, a, op)
    \/ AskApprove(r, a)
    \/ AskDecide(r, a)
    \/ AskMark(r, a)
    \/ AskArchive(r, a)

Commit(r) ==
    \/ CommitTransition(r)
    \/ CommitSubmit(r)
    \/ CommitReopen(r)
    \/ CommitReset(r)
    \/ CommitSave(r)
    \/ \E value \in Decision : CommitDecide(r, value)
    \/ CommitStatus(r)
    \/ CommitAttention(r)
    \/ CommitArchive(r)

Next ==
    \/ \E r \in Request, a \in AppId :
          Candidate(r, a) \/ Commission(r, a) \/ AskAutoAdvance(r, a)
    \/ \E r \in Request : Commit(r) \/ Drop(r)

Spec == Init /\ [][Next]_vars

----------------------------------------------------------------------------
(* The candidate has one active application at any time, whoever archives   *)
(* how often (uq_one_active_application_per_candidate,                      *)
(* archive_application_by_commission).                                      *)
OneActive == Cardinality({a \in AppId : Active(a)}) = 1

(* The candidate is told no decision but the recorded one, however many     *)
(* members of the commission decide at once (record_final_decision).        *)
ToldTheDecision == \A a \in AppId : told[a] \subseteq {decision[a]}

\* A row is open if it is the last, or if screening_blocked came next.
OpenExplained(h) ==
    \A i \in DOMAIN h :
        h[i].open => \/ i = Len(h)
                     \/ h[i + 1].to = "initial_screening"
                        /\ h[i + 1].from = "initial_screening"

(* The history of an application that no two requests have changed at once  *)
(* is a path that ends in its stage, and what it shows as open is where it  *)
(* is, or where it was blocked (_close_open_history, _append_history).      *)
HistoryIsPath ==
    \A a \in AppId \ raced : Exists(a) =>
        LET h == history[a]
        IN  /\ h[1].from = "none"
            /\ \A i \in 1..(Len(h) - 1) : h[i + 1].from = h[i].to
            /\ h[Len(h)].to = app[a].stage
            /\ h[Len(h)].open
            /\ OpenExplained(h)

(* The candidate can edit the application exactly while it is theirs: in    *)
(* the stage application (locked_after_submit, _ensure_editable), unless    *)
(* two requests have changed it at once.                                    *)
LockFollowsStage ==
    \A a \in AppId \ raced : app[a].locked <=> app[a].stage # "application"

StatesOf ==
    [application |-> {"draft", "in_progress", "revision_required"},
     initial_screening |-> {"under_screening", "screening_blocked"},
     application_review |-> {"under_review"},
     interview |-> {"interview_pending"},
     committee_review |-> {"committee_review"},
     decision |-> {"pending_decision", "decision_made"}]

(* The state belongs to the stage, and decision_made to a recorded          *)
(* decision, unless two requests have changed the application at once.      *)
StateOfStage ==
    \A a \in AppId \ raced :
        /\ app[a].state \in StatesOf[app[a].stage]
        /\ app[a].state = "decision_made" <=> decision[a] # "none"

(* The board shows an application's stage, status, flag, decision and       *)
(* archive as they are, but after the routes that do not rebuild the card,  *)
(* after the first mark of a stage, which it does not find yet, and after   *)
(* requests that have overlapped (rebuild_projection).                      *)
CardFollows ==
    \A a \in AppId \ (raced \cup behind) :
        card[a] # NoCard => card[a] = CardOf(app[a], stageRow[a], decision[a])

Passed(s) ==
    CASE s = "application" -> 0 [] s = "initial_screening" -> 0
      [] s = "application_review" -> 1 [] s = "interview" -> 2
      [] s = "committee_review" -> 3 [] s = "decision" -> 4

(* What the commission has passed does not go back, unless two requests     *)
(* change the application at once: revision_required, which apply_transition *)
(* allows from anywhere, comes before the review only (ensure_stage).       *)
NeverBackAfterReview ==
    [][\A a \in AppId \ raced' : Passed(app'[a].stage) >= Passed(app[a].stage)]_vars

(* What an application has gone through agrees with where it is: history,   *)
(* lock, state and the decision that was mailed, whoever moves it           *)
(* (apply_transition and its callers).                                      *)
StagesAgree ==
    TypeOK /\ HistoryIsPath /\ LockFollowsStage /\ StateOfStage /\ ToldTheDecision

=============================================================================
