-------------------------- MODULE InterviewWindow --------------------------
(***************************************************************************)
(* The window of one hour for the candidate's preferred interview slots,   *)
(* on top of AIInterview, whose completion opens it: the candidate submits *)
(* preferences, the commission schedules the interview, the worker's idle  *)
(* sweep expires the window.                                               *)
(*                                                                         *)
(* Left out: the outcome and the reminder of a scheduled interview, the    *)
(* dates themselves, and the status page, which computes the expiry and    *)
(* rolls it back.                                                          *)
(***************************************************************************)
EXTENDS AIInterview

CONSTANT Scheduler  \* members of the commission who schedule

VARIABLES
    bookings,  \* the tabs whose submitted slots (InterviewSlotBooking) stand
    replaced,  \* replaced[t]: the bookings a submission has deleted
    plan,      \* plan[s]: a scheduling request
    sweep      \* the sweep's transaction

window == <<bookings, replaced, plan, sweep>>
allVars == <<vars, window>>

IdlePlan == [at |-> "idle", was |-> NewApp, known |-> FALSE]
IdleSweep == [at |-> "idle", was |-> NewApp, will |-> NewApp]

\* interview_preference_window_expires_at is set with the first status.
WindowHasDeadline == app.window # "closed" => app.deadline # "unset"

WindowTypeOK ==
    /\ TypeOK
    /\ WindowHasDeadline
    /\ bookings \subseteq Tab
    /\ replaced \in [Tab -> SUBSET Tab]
    /\ plan \in [Scheduler -> [at : {"idle", "scheduling"}, was : App,
                               known : BOOLEAN]]
    /\ sweep \in [at : {"idle", "expiring"}, was : App, will : App]

WindowInit ==
    /\ Init
    /\ bookings = {}
    /\ replaced = [t \in Tab |-> {}]
    /\ plan = [s \in Scheduler |-> IdlePlan]
    /\ sweep = IdleSweep

AppFree(t) == \A u \in Tab \ {t} : ~Busy(u)

\* (mutated: the deadline is not looked at)
EnsuredUnlessScheduled(a) ==
    IF a.window = "awaiting" /\ Scheduled
    THEN [a EXCEPT !.window = "scheduled"]
    ELSE a

\* ensure_preference_window_expired_for_application.
Ensured(a) ==
    IF a.window # "awaiting" THEN a
    ELSE IF Scheduled THEN [a EXCEPT !.window = "scheduled"]
    ELSE IF a.deadline = "past" THEN [a EXCEPT !.window = "expired"]
    ELSE a

\* The guards of a submission; it deletes the bookings it finds.
StartSubmit(t) ==
    /\ visit[t].at = "idle"
    /\ Interviewing
    /\ row.completed
    /\ ~Scheduled
    /\ ~app.preferred
    /\ Ensured(app) = app \/ AppFree(t)
    /\ Turn(t, [IdleVisit EXCEPT
                  !.at = "submitting", !.was = app,
                  !.will = [app EXCEPT !.window = "submitted",
                                       !.preferred = TRUE]])
    /\ replaced' = [replaced EXCEPT ![t] = bookings]
    /\ UNCHANGED <<interview, edit, finisher, bookings, plan, sweep>>

FinishSubmit(t) ==
    /\ visit[t].at = "submitting"
    /\ AppFree(t)
    /\ app' = Written(visit[t].was, visit[t].will)
    /\ bookings' = (bookings \ replaced[t]) \cup {t}
    /\ replaced' = [replaced EXCEPT ![t] = {}]
    /\ Leave(t)
    /\ UNCHANGED <<row, answers, sessions, edit, finisher, plan, sweep>>

\* Scheduling moves the session it has found, or creates one.
StartSchedule(s) ==
    /\ plan[s].at = "idle"
    /\ app.stage = "interview"
    /\ plan' = [plan EXCEPT ![s] = [at |-> "scheduling", was |-> app,
                                    known |-> Scheduled]]
    /\ UNCHANGED <<vars, bookings, replaced, sweep>>

\* close_window_on_commission_schedule.
Closed(a) ==
    [a EXCEPT !.window = "scheduled",
              !.deadline = IF @ = "unset" THEN "past" ELSE @]

FinishSchedule(s) ==
    /\ plan[s].at = "scheduling"
    /\ AppFree(Nobody)
    /\ sessions' = IF plan[s].known THEN sessions ELSE sessions + 1
    /\ app' = Written(plan[s].was, Closed(plan[s].was))
    /\ plan' = [plan EXCEPT ![s] = IdlePlan]
    /\ UNCHANGED <<row, answers, edit, visit, finisher, bookings,
                   replaced, sweep>>

DropPlan(s) ==
    /\ plan[s].at = "scheduling"
    /\ plan' = [plan EXCEPT ![s] = IdlePlan]
    /\ UNCHANGED <<vars, bookings, replaced, sweep>>

\* The idle worker loads the applications whose window is over.
StartSweep ==
    /\ sweep.at = "idle"
    /\ app.stage = "interview"
    /\ app.window = "awaiting"
    /\ app.deadline = "past"
    /\ sweep' = [at |-> "expiring", was |-> app, will |-> Ensured(app)]
    /\ UNCHANGED <<vars, bookings, replaced, plan>>

FinishSweep ==
    /\ sweep.at = "expiring"
    /\ AppFree(Nobody)
    /\ app' = Written(sweep.was, sweep.will)
    /\ sweep' = IdleSweep
    /\ UNCHANGED <<row, answers, sessions, edit, visit, finisher,
                   bookings, replaced, plan>>

\* An hour passes.
PassHour ==
    /\ app.deadline = "ahead"
    /\ app' = [app EXCEPT !.deadline = "past"]
    /\ UNCHANGED <<row, answers, sessions, edit, visit, finisher,
                   window>>

Schedule(s) == StartSchedule(s) \/ FinishSchedule(s) \/ DropPlan(s)
Submit(t) == StartSubmit(t) \/ FinishSubmit(t)
Sweep == StartSweep \/ FinishSweep

WindowNext ==
    \/ Next /\ UNCHANGED window
    \/ \E t \in Tab : Submit(t)
    \/ \E s \in Scheduler : Schedule(s)
    \/ Sweep
    \/ PassHour

WindowSpec == WindowInit /\ [][WindowNext]_allVars

\* The worker is idle again and again (the sweep runs when its queue is
\* empty), the hour passes, a request that has begun ends or dies, and a row
\* lock goes to those who wait for it in turn.
RequestEnds(t) ==
    \/ FinishSubmit(t)
    \/ visit[t].at # "idle" /\ Candidate(t) /\ UNCHANGED window

Fairness ==
    /\ WF_allVars(StartSweep)
    /\ SF_allVars(FinishSweep)
    /\ WF_allVars(PassHour)
    /\ \A t \in Tab : WF_allVars(RequestEnds(t))

FairWindowSpec == WindowSpec /\ Fairness

----------------------------------------------------------------------------
(* The window of an application opens once, with the completion of the     *)
(* interview: neither a second completion nor a request that looked before *)
(* the first gives the candidate another hour                              *)
(* (open_preference_window_on_ai_complete: "Idempotent").                  *)
WindowOpensOnce ==
    [][app.deadline # "ahead" /\ app'.deadline = "ahead"
         => ~row.completed]_allVars

(* A window that is over does not await preferences for ever.              *)
WindowEnds ==
    (app.window = "awaiting" /\ app.deadline = "past")
        ~> app.window # "awaiting"

(* After the completion the answers settle: at most the saves that were    *)
(* checked before it still change them (save_candidate_answers_stub).      *)
AnswersSettle == <>row.completed => <>[][FALSE]_answers

=============================================================================
