----------------------------- MODULE Engagement -----------------------------
(***************************************************************************)
(* How engaged a candidate looks to the commission: the activity stamps    *)
(* that the candidate's requests leave, the stage and the interview        *)
(* reminder they are compared with, and the two levels that                *)
(* _compute_engagement_insight derives from them whenever it is asked.     *)
(*                                                                         *)
(* A tick of the clock is a minute: what happens within one happens at     *)
(* once, and every tick with a stamp is a minute of activity. The          *)
(* candidate registers at 0. A nullable timestamp is a set with at most    *)
(* one element.                                                            *)
(*                                                                         *)
(* Left out: the wording of the signals, the sorting of the cards, the     *)
(* content of what is saved. Whether a form may be submitted, a stage      *)
(* advanced or preferences chosen is the business of ApplicationForm,      *)
(* Lifecycle and InterviewWindow: here it may be whenever the stage        *)
(* allows it.                                                              *)
(***************************************************************************)
EXTENDS Integers, FiniteSets

CONSTANTS
    Fast,       \* a submission this soon is too fast (30 minutes)
    Slow,       \* from here on it is a good one (180 minutes)
    Day,        \* 24 hours
    Some, Many, \* minutes of activity (15, 45)
    Opened,     \* the interview events that count as preparation
    Strong,     \* preparation signals that are strong (3)
    Lead,       \* REMINDER_LEAD: how long before the interview it is mailed
    Skew,       \* occurredAt of a client's event, relative to the server
    Notice,     \* how far ahead an interview is scheduled
    MaxTime,    \* bound of the instance: the clock
    MaxStamps   \* bound of the instance: activity events

ASSUME EngagementAssumption ==
    /\ Fast \in Nat /\ Slow \in Nat /\ Day \in Nat \ {0}
    /\ Fast < Slow /\ Slow =< Day
    /\ Some \in Nat /\ Many \in Nat /\ Some =< Many
    /\ Strong \in Nat \ {0}
    /\ IsFiniteSet(Opened)
    /\ Lead \in Nat
    /\ Skew \subseteq Int /\ IsFiniteSet(Skew)
    /\ Notice \subseteq Int
    /\ MaxTime \in Nat /\ MaxStamps \in Nat

VARIABLES
    now,
    stage,      \* current_stage
    entered,    \* entered_at of its open history row
    events,     \* occurred_at of the CandidateActivityEvents
    opened,     \* the kinds of Opened among them
    saved,      \* last_saved_at, saved_at or updated_at of the row saved last
    submitted,  \* submitted_at
    prefs,      \* interview_preferences_submitted_at
    scheduled,  \* scheduled_at of the commission's interview
    requested,  \* reminder_requested_at
    sent,       \* reminder_sent_at
    acted       \* when the candidate last acted (history, not a column)

clock == <<now, acted>>
work == <<saved, submitted, prefs>>
activity == <<events, opened>>
interview == <<scheduled, requested, sent>>
engagement == <<clock, stage, entered, activity, work, interview>>

----------------------------------------------------------------------------
(* The stamps and what they are compared with.                             *)

CandidateStage == {"application", "interview"}
InterviewStage == {"interview", "committee_review", "decision"}

Stamps == events \cup saved \cup submitted \cup prefs

\* last_activity_at is the latest of them; without any, the registration.
Activity == IF Stamps = {} THEN {0} ELSE Stamps

ActiveWithin(d) == \E t \in Activity : now - t =< d
QuietFor(d) == \A t \in Activity : now - t >= d

TimeToSubmit ==
    IF \E t \in submitted : t =< Fast THEN "poor"
    ELSE IF \E t \in submitted : Slow =< t /\ t =< Day THEN "good"
    ELSE "neutral"

LastOnline ==
    IF ActiveWithin(Day) THEN "good"
    ELSE IF QuietFor(5 * Day) THEN "poor"
    ELSE "medium"

ActiveTime ==
    IF Cardinality(Stamps) >= Many THEN "good"
    ELSE IF Cardinality(Stamps) >= Some THEN "medium"
    ELSE "poor"

Signals == Cardinality(opened) + Cardinality(prefs)

Preparation ==
    IF Signals >= Strong THEN "strong"
    ELSE IF Signals >= 1 THEN "some"
    ELSE IF stage \in InterviewStage THEN "none"
    ELSE "neutral"

\* reminder_sent_at or reminder_requested_at
RemindedAt == IF sent # {} THEN sent ELSE requested

Reminder ==
    IF \E r \in RemindedAt, t \in Stamps : t > r /\ t - r =< Day
    THEN "reacted_fast"
    ELSE IF \E r \in RemindedAt, t \in Stamps : t > r THEN "reacted_late"
    ELSE IF \E r \in RemindedAt : now - r > Day THEN "ignored"
    ELSE "awaiting"

MildAfter == IF stage = "application" THEN 2 * Day ELSE Day
SevereAfter == IF stage = "application" THEN 5 * Day ELSE 3 * Day

\* (mutated: the milder threshold is looked at first)
StagnationMildFirst ==
    IF stage \notin CandidateStage THEN "none"
    ELSE IF QuietFor(MildAfter) THEN "mild"
    ELSE IF QuietFor(SevereAfter) THEN "severe"
    ELSE "none"

Stagnation ==
    IF stage \notin CandidateStage THEN "none"
    ELSE IF QuietFor(SevereAfter) THEN "severe"
    ELSE IF QuietFor(MildAfter) THEN "mild"
    ELSE "none"

StageStart ==
    IF stage \notin CandidateStage THEN "neutral"
    ELSE IF \E t \in Stamps : t > entered /\ t - entered =< Day
    THEN "quick_start"
    ELSE IF (\A t \in Stamps : t =< entered) /\ now - entered > Day
    THEN "no_start"
    ELSE "neutral"

----------------------------------------------------------------------------
(* The scores and their levels.                                            *)

\* The amount that goes with the bucket, or nothing.
When(bucket, value, amount) == IF bucket = value THEN amount ELSE 0

EngagementScore ==
      When(TimeToSubmit, "good", 2) + When(TimeToSubmit, "poor", -2)
    + When(LastOnline, "good", 3) + When(LastOnline, "poor", -3)
    + When(ActiveTime, "good", 2) + When(ActiveTime, "medium", 1)
    + When(ActiveTime, "poor", -2)
    + When(Preparation, "strong", 2) + When(Preparation, "some", 1)
    + When(Preparation, "none", -1)
    + When(Reminder, "reacted_fast", 1) + When(Reminder, "ignored", -2)
    + When(Stagnation, "mild", -1) + When(Stagnation, "severe", -3)
    + When(StageStart, "quick_start", 1) + When(StageStart, "no_start", -1)

\* (mutated: the amounts of medium and poor are exchanged)
RiskScoreExchanged ==
      When(TimeToSubmit, "poor", 2)
    + When(LastOnline, "medium", 4) + When(LastOnline, "poor", 2)
    + When(ActiveTime, "medium", 1) + When(ActiveTime, "poor", 2)
    + When(Preparation, "none", 2)
    + When(Reminder, "reacted_late", 1) + When(Reminder, "ignored", 2)
    + When(Stagnation, "mild", 2) + When(Stagnation, "severe", 4)
    + When(StageStart, "no_start", 1)

RiskScore ==
      When(TimeToSubmit, "poor", 2)
    + When(LastOnline, "medium", 2) + When(LastOnline, "poor", 4)
    + When(ActiveTime, "medium", 1) + When(ActiveTime, "poor", 2)
    + When(Preparation, "none", 2)
    + When(Reminder, "reacted_late", 1) + When(Reminder, "ignored", 2)
    + When(Stagnation, "mild", 2) + When(Stagnation, "severe", 4)
    + When(StageStart, "no_start", 1)

\* (mutated: the limit itself is low)
EngagementLevelAbove ==
    IF EngagementScore > 5 THEN "High"
    ELSE IF EngagementScore > 1 THEN "Medium"
    ELSE "Low"

EngagementLevel ==
    IF EngagementScore >= 5 THEN "High"
    ELSE IF EngagementScore >= 1 THEN "Medium"
    ELSE "Low"

RiskLevel ==
    IF RiskScore >= 8 THEN "High"
    ELSE IF RiskScore >= 4 THEN "Medium"
    ELSE "Low"

----------------------------------------------------------------------------
(* The requests.                                                           *)

EngagementInit ==
    /\ now = 0 /\ acted = 0
    /\ stage = "application" /\ entered = 0
    /\ events = {} /\ opened = {}
    /\ saved = {} /\ submitted = {} /\ prefs = {}
    /\ scheduled = {} /\ requested = {} /\ sent = {}

\* record_candidate_activity_event of a request of the server itself.
Recorded ==
    /\ Cardinality(events \cup {now}) =< MaxStamps
    /\ events' = events \cup {now}
    /\ acted' = now
    /\ UNCHANGED <<now, opened>>

\* POST activity-events: pings and the interview page, stamped by the client.
ClientEvent(kinds, at) ==
    /\ Cardinality(events \cup {at}) =< MaxStamps
    /\ events' = events \cup {at}
    /\ opened' = opened \cup kinds
    /\ acted' = now
    /\ UNCHANGED <<now, stage, entered, work, interview>>

\* (mutated: there is no event)
SaveSilently ==
    /\ stage \in CandidateStage
    /\ saved' = {now}
    /\ acted' = now
    /\ UNCHANGED <<now, stage, entered, activity, submitted, prefs, interview>>

\* A section, a document, an answer of the test or of the AI interview: the
\* row is written over, the event stays.
Save ==
    /\ stage \in CandidateStage
    /\ saved' = {now}
    /\ Recorded
    /\ UNCHANGED <<stage, entered, submitted, prefs, interview>>

\* reset_application_sections leaves no event.
Reset ==
    /\ stage = "application"
    /\ saved' = {} /\ submitted' = {}
    /\ acted' = now
    /\ UNCHANGED <<now, stage, entered, activity, prefs, interview>>

Enter(s) == stage' = s /\ entered' = now

Submit ==
    /\ stage = "application"
    /\ submitted' = {now}
    /\ Enter("initial_screening")
    /\ Recorded
    /\ UNCHANGED <<saved, prefs, interview>>

Reopen ==
    /\ stage = "initial_screening"
    /\ submitted' = {}
    /\ Enter("application")
    /\ Recorded
    /\ UNCHANGED <<saved, prefs, interview>>

SubmitPreferences ==
    /\ stage = "interview"
    /\ scheduled = {} /\ prefs = {}
    /\ prefs' = {now}
    /\ Recorded
    /\ UNCHANGED <<stage, entered, saved, submitted, interview>>

\* _try_send_reminder_email: from Lead before the interview until it begins.
Due == \E t \in scheduled : t - Lead =< now /\ now < t

\* The mail may fail.
Mailed(delivered) == sent' = IF Due /\ delivered THEN {now} ELSE sent

RequestReminder(delivered) ==
    /\ scheduled # {} /\ sent = {} /\ requested = {}
    /\ requested' = {now}
    /\ Mailed(delivered)
    /\ Recorded
    /\ UNCHANGED <<stage, entered, work, scheduled>>

Candidate ==
    \/ \E k \in SUBSET Opened, d \in Skew :
         Cardinality(k) =< 1 /\ ClientEvent(k, now + d)
    \/ Save
    \/ Reset
    \/ Submit
    \/ Reopen
    \/ SubmitPreferences
    \/ \E delivered \in BOOLEAN : RequestReminder(delivered)

\* The worker's idle sweep.
SweepReminder ==
    /\ requested # {} /\ sent = {} /\ Due
    /\ sent' = {now}
    /\ UNCHANGED <<clock, stage, entered, activity, work, scheduled, requested>>

\* A reminder that was requested or sent stays so for the new time.
Schedule(at) ==
    /\ stage = "interview"
    /\ scheduled' = {at}
    /\ UNCHANGED <<clock, stage, entered, activity, work, requested, sent>>

\* apply_transition
Moves ==
    {<<"initial_screening", "application_review">>,
     <<"initial_screening", "application">>,
     <<"application_review", "interview">>,
     <<"interview", "committee_review">>,
     <<"committee_review", "decision">>}

MoveTo(s) ==
    /\ <<stage, s>> \in Moves
    /\ Enter(s)
    /\ UNCHANGED <<clock, activity, work, interview>>

Commission ==
    \/ \E d \in Notice : Schedule(now + d)
    \/ \E s \in {m[2] : m \in Moves} : MoveTo(s)

Tick ==
    /\ now < MaxTime
    /\ now' = now + 1
    /\ UNCHANGED <<acted, stage, entered, activity, work, interview>>

EngagementNext == Candidate \/ Commission \/ SweepReminder \/ Tick

EngagementSpec == EngagementInit /\ [][EngagementNext]_engagement

----------------------------------------------------------------------------
(* Properties.                                                             *)

AtMostOne(S) == \A x, y \in S : x = y

(* The types; every stamp of a row is also that of an event, so that a row  *)
(* that is written over or deleted takes no activity with it.               *)
EngagementTypeOK ==
    /\ now \in Nat /\ acted \in 0..now /\ entered \in 0..now
    /\ stage \in {"application", "initial_screening", "application_review",
                  "interview", "committee_review", "decision"}
    /\ events \subseteq Int /\ IsFiniteSet(events)
    /\ opened \subseteq Opened
    /\ saved \cup submitted \cup prefs \subseteq events
    /\ \A s \in {saved, submitted, prefs, scheduled, requested, sent} :
         s \subseteq Int /\ AtMostOne(s)
    /\ submitted \cup prefs \cup requested \cup sent \subseteq 0..now

(* Time alone never makes a candidate look better: whoever does nothing has *)
(* no lower a risk and no higher an engagement later, whichever thresholds  *)
(* are passed on the way (_compute_engagement_insight).                     *)
SilenceNeverHelps ==
    [][now' # now => /\ RiskScore' >= RiskScore
                     /\ EngagementScore' =< EngagementScore]_engagement

(* No act of the candidate raises the risk: not one that writes over a row  *)
(* that recorded an earlier act, nor a reset, nor an event stamped in the   *)
(* past. Two kinds do: a submission that is too fast, and an event stamped  *)
(* ahead of the server's clock, with which a reminder answered in time      *)
(* counts as answered late. (The first event of all can too: until there is *)
(* one the registration counts as activity.)                                *)
ActionNeverHurts ==
    [][(Candidate /\ Stamps # {}) =>
         \/ RiskScore' =< RiskScore
         \/ TimeToSubmit' = "poor"
         \/ Reminder' = "reacted_late" /\ \E t \in Stamps' : t > now]_engagement

(* Whoever is expected to act and has not for five days is at high risk,    *)
(* whatever was done before; a client's clock that is ahead postpones it.   *)
SilenceIsHighRisk ==
    (/\ stage \in CandidateStage
     /\ \A d \in Skew \cup {0} : now - acted >= 5 * Day + d)
        => RiskLevel = "High"

(* The two levels, scored by two tables, do not contradict each other: the  *)
(* commission is not told of a high engagement at a high risk, nor of a low *)
(* engagement without risk.                                                 *)
LevelsAgree ==
    /\ ~(EngagementLevel = "High" /\ RiskLevel = "High")
    /\ ~(EngagementLevel = "Low" /\ RiskLevel = "Low")

=============================================================================
