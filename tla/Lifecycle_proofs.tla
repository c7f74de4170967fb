-------------------------- MODULE Lifecycle_proofs --------------------------
(***************************************************************************)
(* Proofs about Lifecycle, for any number of requests and applications and *)
(* any decisions. A request may commit over rows that others have changed; *)
(* the argument is that it then marks the application as raced, and        *)
(* otherwise commits over exactly what its guards have seen.               *)
(***************************************************************************)
EXTENDS Lifecycle, FiniteSetTheorems, WellFoundedInduction, TLAPS

\* HistoryIsPath of one application.
PathTo(h, stage) ==
    /\ h[1].from = "none"
    /\ \A i \in 1..(Len(h) - 1) : h[i + 1].from = h[i].to
    /\ h[Len(h)].to = stage
    /\ h[Len(h)].open
    /\ OpenExplained(h)

\* LockFollowsStage and the first half of StateOfStage of one application.
Fitting(a) ==
    /\ a.locked <=> a.stage # "application"
    /\ a.state \in StatesOf[a.stage]

\* What the guards of a request have found in the row it has loaded.
Guarded(op, was) ==
    /\ op \in TransitionName => was.stage \in Policy[op].from
    /\ op \in ScreeningOnly => was.stage = "initial_screening"
    /\ op \in {"save", "reset", "submit"} => was.stage = "application"
    /\ op = "reopen" => was.stage = "initial_screening"
    /\ op = "decide" => was.stage = "decision"
    /\ op = "archive" => ~was.archived

Loadings ==
    \A r \in Request : req[r].at = "loaded" =>
        /\ Exists(req[r].a)
        /\ req[r].open = req[r].len
        /\ Fitting(req[r].was)
        /\ Guarded(req[r].op, req[r].was)

\* An application that is not there has the columns of a new one.
Fresh == \A a \in AppId : ~Exists(a) => app[a] = NewApplication

\* What commits change of the application itself.
Stages ==
    /\ \A a \in AppId \ raced :
          /\ Fitting(app[a])
          /\ app[a].state = "decision_made" <=> decision[a] # "none"
          /\ Exists(a) => PathTo(history[a], app[a].stage)
    /\ Fresh
    /\ OneActive
    /\ Loadings

LInv == TypeOK /\ ToldTheDecision /\ Stages

LEMMA StagesImply == Stages => HistoryIsPath /\ LockFollowsStage /\ StateOfStage
  BY DEF Stages, Fitting, PathTo, HistoryIsPath, LockFollowsStage, StateOfStage

----------------------------------------------------------------------------
(* Rows of the history.                                                    *)

LEMMA ClosedType ==
    ASSUME NEW h \in Seq(HistoryRow), NEW i
    PROVE  /\ Closed(h, i) \in Seq(HistoryRow)
           /\ Len(Closed(h, i)) = Len(h)
           /\ \A j \in 1..Len(h) :
                 /\ Closed(h, i)[j].from = h[j].from
                 /\ Closed(h, i)[j].to = h[j].to
                 /\ Closed(h, i)[j].open <=> h[j].open /\ j # i
  <1>1. \A j \in 1..Len(h) : h[j] \in HistoryRow
    OBVIOUS
  <1> DEFINE row(j) == IF j = i THEN [h[j] EXCEPT !.open = FALSE] ELSE h[j]
  <1>2. \A j \in 1..Len(h) :
            /\ row(j) \in HistoryRow
            /\ row(j).from = h[j].from /\ row(j).to = h[j].to
            /\ row(j).open <=> h[j].open /\ j # i
    BY <1>1 DEF HistoryRow
  <1>3. Closed(h, i) = [j \in 1..Len(h) |-> row(j)]
    BY DEF Closed
  <1> HIDE DEF row
  <1> QED
    BY <1>2, <1>3

LEMMA AppendType ==
    ASSUME NEW h \in Seq(HistoryRow), NEW e \in HistoryRow
    PROVE  /\ Append(h, e) \in Seq(HistoryRow)
           /\ Append(h, e) # <<>>
  <1>1. Append(h, e) \in Seq(HistoryRow) /\ Len(Append(h, e)) = Len(h) + 1
    OBVIOUS
  <1>2. Len(h) \in Nat /\ Len(<<>>) = 0
    OBVIOUS
  <1> QED
    BY <1>1, <1>2

(* An entered stage prolongs the path if its row says where it came from,  *)
(* and what was open has been closed, or is where the path stays blocked.  *)
LEMMA PathGrows ==
    ASSUME NEW h \in Seq(HistoryRow), h # <<>>,
           NEW from \in ApplicationStage, NEW to \in ApplicationStage,
           PathTo(h, from), NEW closing \in BOOLEAN,
           closing \/ (from = "initial_screening" /\ to = "initial_screening")
    PROVE  LET g == IF closing THEN Closed(h, Len(h)) ELSE h
           IN  PathTo(Append(g, Entered(from, to)), to)
  <1> DEFINE n == Len(h)
             g == IF closing THEN Closed(h, n) ELSE h
             e == Entered(from, to)
             w == Append(g, e)
  <1>1. n \in Nat \ {0}
    OBVIOUS
  <1>2. /\ g \in Seq(HistoryRow) /\ Len(g) = n
        /\ \A j \in 1..n : /\ g[j].from = h[j].from /\ g[j].to = h[j].to
                           /\ g[j].open => h[j].open
        /\ closing => ~g[n].open
    <2>1. CASE closing
      <3> DEFINE c == Closed(h, n)
      <3>1. g = c
        BY <2>1
      <3>2. /\ c \in Seq(HistoryRow) /\ Len(c) = n
            /\ \A j \in 1..n : /\ c[j].from = h[j].from /\ c[j].to = h[j].to
                               /\ c[j].open <=> h[j].open /\ j # n
        BY ClosedType
      <3> HIDE DEF c, g
      <3>3. /\ \A j \in 1..n : c[j].open => h[j].open
            /\ ~c[n].open
        BY <1>1, <3>2
      <3> QED
        BY <3>1, <3>2, <3>3
    <2>2. CASE ~closing
      BY <1>1, <2>2
    <2> QED
      BY <2>1, <2>2
  <1>3. /\ e \in HistoryRow /\ e.from = from /\ e.to = to /\ e.open
    BY DEF Entered, HistoryRow
  <1> HIDE DEF g, e
  <1>4. /\ Len(w) = n + 1
        /\ \A j \in 1..n : w[j] = g[j]
        /\ w[n + 1] = e
    BY <1>2, <1>3
  <1> HIDE DEF w
  <1>5. w[1].from = "none"
    BY <1>1, <1>2, <1>4 DEF PathTo
  <1>6. ASSUME NEW i \in 1..(Len(w) - 1) PROVE w[i + 1].from = w[i].to
    <2>1. CASE i = n
      BY <1>1, <1>2, <1>3, <1>4, <2>1 DEF PathTo
    <2>2. CASE i # n
      <3>1. i \in 1..(n - 1) /\ i + 1 \in 1..n
        BY <1>1, <1>4, <2>2
      <3> QED
        BY <1>2, <1>4, <3>1 DEF PathTo
    <2> QED
      BY <2>1, <2>2
  <1>7. w[Len(w)].to = to /\ w[Len(w)].open
    BY <1>3, <1>4
  <1>8. OpenExplained(w)
    <2> SUFFICES ASSUME NEW i \in DOMAIN w, w[i].open, i # Len(w)
                 PROVE  /\ w[i + 1].to = "initial_screening"
                        /\ w[i + 1].from = "initial_screening"
      BY DEF OpenExplained
    <2>1. i \in 1..n
      BY <1>1, <1>2, <1>3, <1>4 DEF w
    <2>2. CASE i = n
      BY <1>1, <1>2, <1>3, <1>4, <2>1, <2>2
    <2>3. CASE i # n
      <3>1. i \in 1..(n - 1) /\ i + 1 \in 1..n /\ h[i].open
        BY <1>1, <1>2, <1>4, <2>1, <2>3
      <3>2. h[i + 1].to = "initial_screening" /\ h[i + 1].from = "initial_screening"
        BY <2>3, <3>1 DEF PathTo, OpenExplained
      <3> QED
        BY <1>2, <1>4, <3>1, <3>2
    <2> QED
      BY <2>2, <2>3
  <1>9. PathTo(w, to)
    BY <1>5, <1>6, <1>7, <1>8 DEF PathTo
  <1> QED
    BY <1>9 DEF w, g, e

LEMMA LastOfPath ==
    ASSUME NEW h \in Seq(HistoryRow), h # <<>>, NEW stage, PathTo(h, stage)
    PROVE  LastOpen(h) = Len(h)
  <1> DEFINE opened == {i \in DOMAIN h : h[i].open}
  <1>1. Len(h) \in opened /\ opened \subseteq 1..Len(h) /\ Len(h) \in Nat
    BY DEF PathTo
  <1> HIDE DEF opened
  <1>2. \A i \in opened : (\A j \in opened : j <= i) <=> i = Len(h)
    BY <1>1
  <1>3. (CHOOSE i \in opened : \A j \in opened : j <= i) = Len(h)
    BY <1>1, <1>2
  <1> QED
    BY <1>1, <1>3 DEF LastOpen, opened

----------------------------------------------------------------------------
(* What a commit does to the row of its application.                       *)

LEMMA Columns ==
    ASSUME NEW f \in Application
    PROVE  DOMAIN f = {"stage", "state", "locked", "submitted", "archived"}
  BY DEF Application

LEMMA WrittenType ==
    ASSUME NEW now \in Application, NEW was \in Application,
           NEW will \in Application
    PROVE  /\ Written(now, was, will) \in Application
           /\ now = was => Written(now, was, will) = will
           /\ will.archived = was.archived
                => Written(now, was, will).archived = now.archived
           /\ will.archived /\ ~was.archived
                => Written(now, was, will).archived
  <1>1. Written(now, was, will) \in Application
    BY Columns DEF Written, Application
  <1>2. now = was => Written(now, was, will) = will
    BY Columns DEF Written, Application
  <1>3. Written(now, was, will).archived =
          IF will.archived # was.archived THEN will.archived ELSE now.archived
    BY Columns DEF Written
  <1>4. will.archived \in BOOLEAN /\ was.archived \in BOOLEAN
    BY DEF Application
  <1> QED
    BY <1>1, <1>2, <1>3, <1>4

(* A commit stores what it wants if it has loaded what is there; otherwise *)
(* it marks the application.                                               *)
LEMMA StoreEffect ==
    ASSUME TypeOK, NEW r \in Request, NEW will \in Application,
           Store(r, will), NoteRace(r)
    PROVE  LET a == req[r].a
               was == req[r].was
           IN  /\ app' \in [AppId -> Application]
               /\ \A b \in AppId \ {a} : app'[b] = app[b]
               /\ app'[a] = Written(app[a], was, will)
               /\ raced' \subseteq AppId
               /\ raced \subseteq raced'
               /\ a \notin raced' =>
                     /\ app[a] = was
                     /\ app'[a] = will
                     /\ Len(history[a]) = req[r].len
                     /\ raced' = raced
  <1> DEFINE a == req[r].a
             was == req[r].was
  <1>1. /\ a \in AppId /\ was \in Application /\ app[a] \in Application
        /\ app \in [AppId -> Application]
        /\ raced \subseteq AppId
    BY DEF TypeOK
  <1>2. Written(app[a], was, will) \in Application
    BY <1>1, WrittenType
  <1>3. app' = [app EXCEPT ![a] = Written(app[a], was, will)]
    BY DEF Store
  <1>4. raced' = IF app[a] = was /\ Len(history[a]) = req[r].len
                 THEN raced ELSE raced \cup {a}
    BY DEF NoteRace
  <1>5. app[a] = was => Written(app[a], was, will) = will
    BY <1>1, WrittenType
  <1> HIDE DEF a, was
  <1>6. /\ app' \in [AppId -> Application]
        /\ \A b \in AppId \ {a} : app'[b] = app[b]
        /\ app'[a] = Written(app[a], was, will)
    BY <1>1, <1>2, <1>3
  <1>7. /\ raced' \subseteq AppId /\ raced \subseteq raced'
        /\ a \notin raced' => /\ app[a] = was
                              /\ Len(history[a]) = req[r].len
                              /\ raced' = raced
    BY <1>1, <1>4
  <1> QED
    BY <1>5, <1>6, <1>7 DEF a, was

LEMMA IdleType ==
    /\ IdleRequest.at = "idle"
    /\ LifecycleAssumption =>
          IdleRequest \in [at : {"idle", "loaded"}, op : Operation, a : AppId,
                           was : Application, len : Nat, open : Nat]
  <1>1. LifecycleAssumption => 1 \in AppId
    BY DEF AppId, LifecycleAssumption
  <1>2. NewApplication \in Application
    BY DEF NewApplication, Application, ApplicationStage, ApplicationState
  <1>3. "save" \in Operation
    BY DEF Operation
  <1> QED
    BY <1>1, <1>2, <1>3 DEF IdleRequest

(* The frame of every commit but the archive: what a commit says of its own *)
(* application when nothing has come between is all there is to show.       *)
LEMMA CommitFrame ==
    ASSUME LifecycleAssumption, LInv, NEW r \in Request,
           req[r].at = "loaded",
           NEW will \in Application, will.archived = req[r].was.archived,
           Store(r, will), NoteRace(r), Reply(r),
           NEW h \in Seq(HistoryRow), h # <<>>,
           history' = [history EXCEPT ![req[r].a] = h],
           NEW d \in Decision \cup {"none"},
           decision' = [decision EXCEPT ![req[r].a] = d],
           (/\ req[r].a \notin raced
            /\ app[req[r].a] = req[r].was
            /\ Len(history[req[r].a]) = req[r].len)
              => /\ Fitting(will)
                 /\ will.state = "decision_made" <=> d # "none"
                 /\ PathTo(h, will.stage)
    PROVE  /\ Stages'
           /\ app' \in [AppId -> Application]
           /\ history' \in [AppId -> Seq(HistoryRow)]
           /\ decision' \in [AppId -> Decision \cup {"none"}]
           /\ req' \in [Request -> [at : {"idle", "loaded"}, op : Operation,
                                   a : AppId, was : Application,
                                   len : Nat, open : Nat]]
           /\ raced' \subseteq AppId
  <1> DEFINE a == req[r].a
             was == req[r].was
  <1> USE DEF LInv
  <1>1. /\ a \in AppId /\ was \in Application
        /\ app \in [AppId -> Application]
        /\ history \in [AppId -> Seq(HistoryRow)]
        /\ decision \in [AppId -> Decision \cup {"none"}]
    BY DEF TypeOK
  <1>2. Exists(a)
    BY DEF Stages, Loadings
  <1>3. /\ app' \in [AppId -> Application]
        /\ \A b \in AppId \ {a} : app'[b] = app[b]
        /\ app'[a] = Written(app[a], was, will)
        /\ raced' \subseteq AppId
        /\ raced \subseteq raced'
        /\ a \notin raced' =>
              /\ app[a] = was
              /\ app'[a] = will
              /\ Len(history[a]) = req[r].len
              /\ raced' = raced
    BY StoreEffect
  <1>4. /\ history' \in [AppId -> Seq(HistoryRow)]
        /\ history'[a] = h
        /\ \A b \in AppId \ {a} : history'[b] = history[b]
        /\ decision' \in [AppId -> Decision \cup {"none"}]
        /\ decision'[a] = d
        /\ \A b \in AppId \ {a} : decision'[b] = decision[b]
    BY <1>1
  <1>5. \A b \in AppId : app'[b].archived = app[b].archived
    <2>1. Written(app[a], was, will).archived = app[a].archived
      <3>1. app[a] \in Application
        BY <1>1
      <3> QED
        BY <1>1, <3>1, WrittenType
    <2> HIDE DEF a, was
    <2> QED
      BY <1>3, <2>1
  <1>6. /\ req' = [req EXCEPT ![r] = IdleRequest]
        /\ req' \in [Request -> [at : {"idle", "loaded"}, op : Operation,
                                a : AppId, was : Application,
                                len : Nat, open : Nat]]
        /\ req'[r].at = "idle"
    BY IdleType DEF Reply, TypeOK
  <1> HIDE DEF a, was
  <1>7. \A b \in AppId : Exists(b)' <=> Exists(b)
    BY <1>2, <1>4 DEF Exists
  <1>8. OneActive'
    <2>1. {b \in AppId : Active(b)}' = {b \in AppId : Active(b)}
      BY <1>5, <1>7 DEF Active
    <2> QED
      BY <2>1 DEF OneActive, Stages
  <1>9. Fresh'
    BY <1>2, <1>3, <1>7 DEF Fresh, Stages
  <1>10. Loadings'
    <2> SUFFICES ASSUME NEW q \in Request, req'[q].at = "loaded"
                 PROVE  /\ history'[req'[q].a] # <<>>
                        /\ req'[q].open = req'[q].len
                        /\ Fitting(req'[q].was)
                        /\ Guarded(req'[q].op, req'[q].was)
      BY DEF Loadings, Exists
    <2>1. q # r /\ req'[q] = req[q]
      BY <1>6 DEF TypeOK
    <2>2. req[q].a \in AppId
      BY DEF TypeOK
    <2>3. history'[req[q].a] # <<>>
      BY <1>7, <2>1, <2>2 DEF Stages, Loadings, Exists
    <2> QED
      BY <2>1, <2>3 DEF Stages, Loadings
  <1>11. ASSUME NEW b \in AppId \ raced'
         PROVE  /\ Fitting(app'[b])
                /\ app'[b].state = "decision_made" <=> decision'[b] # "none"
                /\ Exists(b)' => PathTo(history'[b], app'[b].stage)
    <2>1. CASE b = a
      <3>1. /\ a \notin raced' /\ a \notin raced
            /\ app[a] = was /\ app'[a] = will
            /\ Len(history[a]) = req[r].len
        BY <1>3, <2>1
      <3> QED
        BY <1>4, <2>1, <3>1 DEF a, was
    <2>2. CASE b # a
      BY <1>3, <1>4, <1>7, <2>2 DEF Stages
    <2> QED
      BY <2>1, <2>2
  <1>12. Stages'
    BY <1>8, <1>9, <1>10, <1>11 DEF Stages, Fitting
  <1> QED
    BY <1>3, <1>4, <1>6, <1>12

(* The same for a commit that enters a stage.                              *)
LEMMA EnterFrame ==
    ASSUME LifecycleAssumption, LInv, NEW r \in Request,
           req[r].at = "loaded",
           NEW will \in Application, will.archived = req[r].was.archived,
           Store(r, will), NoteRace(r), Reply(r),
           NEW closing \in BOOLEAN,
           Record(r, closing, req[r].was.stage, will.stage),
           closing \/ ( /\ req[r].was.stage = "initial_screening"
                       /\ will.stage = "initial_screening"),
           UNCHANGED decision,
           Fitting(will),
           (req[r].a \notin raced /\ app[req[r].a] = req[r].was)
              => (will.state = "decision_made" <=> decision[req[r].a] # "none")
    PROVE  /\ Stages'
           /\ app' \in [AppId -> Application]
           /\ history' \in [AppId -> Seq(HistoryRow)]
           /\ req' \in [Request -> [at : {"idle", "loaded"}, op : Operation,
                                   a : AppId, was : Application,
                                   len : Nat, open : Nat]]
           /\ raced' \subseteq AppId
  <1> DEFINE a == req[r].a
             from == req[r].was.stage
             to == will.stage
             g == IF closing THEN Closed(history[a], req[r].open) ELSE history[a]
             h == Append(g, Entered(from, to))
  <1>1. /\ a \in AppId
        /\ from \in ApplicationStage /\ to \in ApplicationStage
        /\ history[a] \in Seq(HistoryRow)
        /\ decision \in [AppId -> Decision \cup {"none"}]
    BY DEF LInv, TypeOK, Application
  <1>2. history[a] # <<>> /\ req[r].open = req[r].len
    BY DEF LInv, Stages, Loadings, Exists
  <1>3. Entered(from, to) \in HistoryRow
    BY <1>1 DEF Entered, HistoryRow
  <1>4. g \in Seq(HistoryRow)
    BY <1>1, ClosedType
  <1>5. h \in Seq(HistoryRow) /\ h # <<>>
    BY <1>3, <1>4, AppendType
  <1>6. history' = [history EXCEPT ![a] = h]
    BY DEF Record
  <1>7. decision' = [decision EXCEPT ![a] = decision[a]] /\ decision[a] \in Decision \cup {"none"}
    BY <1>1
  <1>8. ASSUME a \notin raced, app[a] = req[r].was,
               Len(history[a]) = req[r].len
        PROVE  PathTo(h, to)
    <2>1. PathTo(history[a], from)
      BY <1>1, <1>2, <1>8 DEF LInv, Stages, Exists
    <2>2. g = IF closing THEN Closed(history[a], Len(history[a])) ELSE history[a]
      BY <1>2, <1>8
    <2> HIDE DEF a, from, to, g
    <2>3. PathTo(Append(g, Entered(from, to)), to)
      BY <1>1, <1>2, <2>1, <2>2, PathGrows DEF from, to
    <2> QED
      BY <2>3
  <1> HIDE DEF g, h
  <1> QED
    BY <1>5, <1>6, <1>7, <1>8, CommitFrame

----------------------------------------------------------------------------
(* The card and the marks only have their types.                           *)

LEMMA CardType ==
    ASSUME TypeOK, NEW r \in Request, NEW will \in Application,
           NEW staged \in [ApplicationStage -> StageRow],
           NEW decided \in Decision \cup {"none"}
    PROVE  /\ CardOf(will, staged, decided) \in Card
           /\ Rebuild(r, will, staged, decided) =>
                 /\ card' \in [AppId -> Card \cup {NoCard}]
                 /\ behind' \subseteq AppId
           /\ LeaveCard(r) =>
                 /\ card' \in [AppId -> Card \cup {NoCard}]
                 /\ behind' \subseteq AppId
  <1>1. /\ will.stage \in ApplicationStage
        /\ will.submitted \in BOOLEAN /\ will.archived \in BOOLEAN
    BY DEF Application
  <1>2. staged[will.stage] \in StageRow
    BY <1>1
  <1>3. CardOf(will, staged, decided) \in Card
    BY <1>1, <1>2 DEF CardOf, Card, StageRow
  <1>4. /\ card \in [AppId -> Card \cup {NoCard}] /\ req[r].a \in AppId
        /\ behind \subseteq AppId
    BY DEF TypeOK
  <1> QED
    BY <1>3, <1>4 DEF Rebuild, LeaveCard

(* What apply_transition makes of a row that fits its guards fits, and is  *)
(* not behind it.                                                          *)
LEMMA TransitionFits ==
    ASSUME NEW op \in TransitionName, NEW was \in Application,
           Fitting(was), Guarded(op, was)
    PROVE  LET will == After(was, op)
           IN  /\ will \in Application
               /\ will.archived = was.archived
               /\ Fitting(will)
               /\ will.state # "decision_made"
               /\ was.state # "decision_made"
               /\ Passed(will.stage) >= Passed(was.stage)
               /\ \/ op # "screening_blocked"
                  \/ /\ was.stage = "initial_screening"
                     /\ will.stage = "initial_screening"
  <1> DEFINE to == Policy[op].to
             state == Policy[op].state
             locked == was.locked /\ op # "revision_required"
             will == After(was, op)
  <1>1. op \in {"screening_passed", "revision_required", "screening_blocked",
                "review_complete", "interview_complete",
                "human_advances_to_decision"}
    BY DEF TransitionName, Policy
  <1>2. /\ was.stage \in ApplicationStage /\ was.state \in ApplicationState
        /\ was.locked \in BOOLEAN /\ was.submitted \in BOOLEAN
        /\ was.archived \in BOOLEAN
    BY DEF Application
  <1>3. /\ to \in ApplicationStage
        /\ state \in ApplicationState
        /\ state \in StatesOf[to] /\ state # "decision_made"
        /\ op = "revision_required" <=> to = "application"
        /\ op = "screening_blocked" => to = "initial_screening"
    BY <1>1 DEF Policy, ApplicationStage, ApplicationState, StatesOf
  <1>4. /\ was.stage # "decision"
        /\ was.stage = "application" => FALSE
        /\ Passed(to) >= Passed(was.stage)
        /\ op = "screening_blocked" => was.stage = "initial_screening"
    BY <1>1 DEF Guarded, ScreeningOnly, Policy, TransitionName, Passed
  <1>5. was.locked
    BY <1>4 DEF Fitting
  <1>6. was.state # "decision_made"
    BY <1>2, <1>4 DEF Fitting, StatesOf, ApplicationStage
  <1>7. will = [was EXCEPT !.stage = to, !.state = state, !.locked = locked]
    BY DEF After
  <1>8. locked <=> to # "application"
    BY <1>3, <1>5
  <1>9. locked \in BOOLEAN
    OBVIOUS
  <1> HIDE DEF to, state, locked, will
  <1>10. /\ will \in Application
         /\ will.stage = to /\ will.state = state
         /\ will.locked = locked /\ will.archived = was.archived
    BY <1>2, <1>3, <1>7, <1>9 DEF Application
  <1>11. Fitting(will)
    BY <1>3, <1>8, <1>10 DEF Fitting
  <1> QED
    BY <1>3, <1>4, <1>6, <1>10, <1>11 DEF will

LEMMA CommitTransitionStep ==
    ASSUME LifecycleAssumption, LInv, NEW r \in Request, CommitTransition(r)
    PROVE  LInv'
  <1> DEFINE a == req[r].a
             was == req[r].was
             op == req[r].op
             will == After(was, op)
  <1>1. /\ req[r].at = "loaded" /\ op \in TransitionName
        /\ Store(r, will) /\ NoteRace(r) /\ Reply(r)
        /\ Record(r, op # "screening_blocked", was.stage, will.stage)
        /\ LeaveCard(r) \/ Rebuild(r, will, stageRow[a], decision[a])
        /\ UNCHANGED <<stageRow, decision, told, marks>>
    BY DEF CommitTransition, Loaded
  <1>2. a \in AppId /\ was \in Application /\ TypeOK
    BY DEF LInv, TypeOK
  <1>3. Fitting(was) /\ Guarded(op, was)
    BY <1>1 DEF LInv, Stages, Loadings
  <1> HIDE DEF will
  <1>4. /\ will \in Application /\ will.archived = was.archived
        /\ Fitting(will)
        /\ will.state # "decision_made" /\ was.state # "decision_made"
        /\ \/ op # "screening_blocked"
           \/ was.stage = "initial_screening" /\ will.stage = "initial_screening"
    BY <1>1, <1>2, <1>3, TransitionFits DEF will
  <1>5. a \notin raced /\ app[a] = was => decision[a] = "none"
    BY <1>2, <1>4 DEF LInv, Stages
  <1>6. /\ Stages'
        /\ app' \in [AppId -> Application]
        /\ history' \in [AppId -> Seq(HistoryRow)]
        /\ req' \in [Request -> [at : {"idle", "loaded"}, op : Operation,
                                a : AppId, was : Application,
                                len : Nat, open : Nat]]
        /\ raced' \subseteq AppId
    BY <1>1, <1>4, <1>5, EnterFrame
  <1>7. stageRow[a] \in [ApplicationStage -> StageRow]
        /\ decision[a] \in Decision \cup {"none"}
    BY <1>2 DEF TypeOK
  <1>8. card' \in [AppId -> Card \cup {NoCard}] /\ behind' \subseteq AppId
    BY <1>1, <1>2, <1>4, <1>7, CardType
  <1> QED
    BY <1>1, <1>2, <1>6, <1>8 DEF LInv, TypeOK, ToldTheDecision

\* The columns that a commit other than a transition changes.
Changed(was, stage, state, locked, submitted) ==
    [was EXCEPT !.stage = stage, !.state = state, !.locked = locked,
                !.submitted = submitted]

LEMMA StageStates ==
    /\ StatesOf["application"] = {"draft", "in_progress", "revision_required"}
    /\ StatesOf["initial_screening"] = {"under_screening", "screening_blocked"}
    /\ StatesOf["decision"] = {"pending_decision", "decision_made"}
    /\ {"application", "initial_screening", "decision"} \subseteq ApplicationStage
    /\ {"draft", "in_progress", "under_screening", "decision_made"}
          \subseteq ApplicationState
  BY DEF StatesOf, ApplicationStage, ApplicationState

LEMMA Submitting ==
    ASSUME NEW was \in Application
    PROVE  LET will == Changed(was, "initial_screening", "under_screening",
                               TRUE, TRUE)
           IN  /\ will \in Application /\ will.archived = was.archived
               /\ will.stage = "initial_screening"
               /\ will.state = "under_screening"
               /\ Fitting(will)
  <1> DEFINE will == Changed(was, "initial_screening", "under_screening",
                             TRUE, TRUE)
  <1>1. /\ will \in Application /\ will.archived = was.archived
        /\ will.stage = "initial_screening" /\ will.state = "under_screening"
        /\ will.locked = TRUE
    BY DEF Changed, Application, ApplicationStage, ApplicationState
  <1> HIDE DEF will
  <1>2. Fitting(will)
    BY <1>1, StageStates DEF Fitting
  <1> QED
    BY <1>1, <1>2 DEF will

LEMMA Reopening ==
    ASSUME NEW was \in Application
    PROVE  LET will == Changed(was, "application", "in_progress", FALSE, FALSE)
           IN  /\ will \in Application /\ will.archived = was.archived
               /\ will.stage = "application" /\ will.state = "in_progress"
               /\ Fitting(will)
  <1> DEFINE will == Changed(was, "application", "in_progress", FALSE, FALSE)
  <1>1. /\ will \in Application /\ will.archived = was.archived
        /\ will.stage = "application" /\ will.state = "in_progress"
        /\ will.locked = FALSE
    BY DEF Changed, Application, ApplicationStage, ApplicationState
  <1> HIDE DEF will
  <1>2. Fitting(will)
    BY <1>1, StageStates DEF Fitting
  <1> QED
    BY <1>1, <1>2 DEF will

\* What a loaded request has to start from.
LEMMA Starting ==
    ASSUME LInv, NEW r \in Request, req[r].at = "loaded"
    PROVE  /\ TypeOK
           /\ req[r].a \in AppId
           /\ req[r].was \in Application
           /\ Fitting(req[r].was)
           /\ Guarded(req[r].op, req[r].was)
           /\ Exists(req[r].a)
           /\ history[req[r].a] \in Seq(HistoryRow)
           /\ history[req[r].a] # <<>>
           /\ stageRow[req[r].a] \in [ApplicationStage -> StageRow]
           /\ decision[req[r].a] \in Decision \cup {"none"}
           /\ (req[r].a \notin raced /\ app[req[r].a] = req[r].was) =>
                 /\ req[r].was.state = "decision_made"
                       <=> decision[req[r].a] # "none"
                 /\ PathTo(history[req[r].a], req[r].was.stage)
  <1>1. /\ TypeOK /\ req[r].a \in AppId /\ req[r].was \in Application
        /\ history[req[r].a] \in Seq(HistoryRow)
        /\ stageRow[req[r].a] \in [ApplicationStage -> StageRow]
        /\ decision[req[r].a] \in Decision \cup {"none"}
    BY DEF LInv, TypeOK
  <1>2. /\ Fitting(req[r].was) /\ Guarded(req[r].op, req[r].was)
        /\ Exists(req[r].a)
    BY DEF LInv, Stages, Loadings
  <1>3. history[req[r].a] # <<>>
    BY <1>2 DEF Exists
  <1> QED
    BY <1>1, <1>2, <1>3 DEF LInv, Stages

LEMMA CommitSubmitStep ==
    ASSUME LifecycleAssumption, LInv, NEW r \in Request, CommitSubmit(r)
    PROVE  LInv'
  <1> DEFINE a == req[r].a
             was == req[r].was
             will == Changed(was, "initial_screening", "under_screening",
                             TRUE, TRUE)
  <1>1. /\ req[r].at = "loaded" /\ req[r].op = "submit"
        /\ Store(r, will) /\ NoteRace(r) /\ Reply(r)
        /\ Record(r, TRUE, "application", "initial_screening")
        /\ stageRow' = [stageRow EXCEPT ![a]["initial_screening"].status = "new"]
        /\ Rebuild(r, will, stageRow'[a], decision[a])
        /\ UNCHANGED <<decision, told, marks>>
    BY DEF CommitSubmit, Loaded, Changed
  <1>2. /\ TypeOK /\ a \in AppId /\ was \in Application
        /\ decision[a] \in Decision \cup {"none"}
        /\ Fitting(was) /\ was.stage = "application"
    BY <1>1, Starting DEF Guarded
  <1>3. /\ will \in Application /\ will.archived = was.archived
        /\ will.stage = "initial_screening" /\ will.state = "under_screening"
        /\ Fitting(will)
    BY <1>2, Submitting
  <1> HIDE DEF will
  <1>4. a \notin raced /\ app[a] = was => decision[a] = "none"
    BY <1>1, <1>2, Starting, StageStates DEF Fitting
  <1>5. Record(r, TRUE, was.stage, will.stage)
    BY <1>1, <1>2, <1>3
  <1>6. /\ Stages'
        /\ app' \in [AppId -> Application]
        /\ history' \in [AppId -> Seq(HistoryRow)]
        /\ req' \in [Request -> [at : {"idle", "loaded"}, op : Operation,
                                a : AppId, was : Application,
                                len : Nat, open : Nat]]
        /\ raced' \subseteq AppId
    BY <1>1, <1>3, <1>4, <1>5, EnterFrame
  <1>7. /\ stageRow' \in [AppId -> [ApplicationStage -> StageRow]]
        /\ stageRow'[a] \in [ApplicationStage -> StageRow]
    <2> DEFINE first == stageRow[a]["initial_screening"]
               new == [stageRow[a] EXCEPT !["initial_screening"] =
                          [first EXCEPT !.status = "new"]]
    <2>1. /\ stageRow \in [AppId -> [ApplicationStage -> StageRow]]
          /\ stageRow[a] \in [ApplicationStage -> StageRow]
          /\ first \in StageRow
      BY <1>2, StageStates DEF TypeOK
    <2>2. [first EXCEPT !.status = "new"] \in StageRow
      BY <2>1 DEF StageRow
    <2>3. new \in [ApplicationStage -> StageRow]
      BY <2>1, <2>2
    <2>4. stageRow' = [stageRow EXCEPT ![a] = new]
      BY <1>1
    <2> HIDE DEF new
    <2> QED
      BY <1>2, <2>1, <2>3, <2>4
  <1>8. card' \in [AppId -> Card \cup {NoCard}] /\ behind' \subseteq AppId
    <2> DEFINE staged == stageRow'[a]
    <2>1. staged \in [ApplicationStage -> StageRow]
      BY <1>7
    <2>2. Rebuild(r, will, staged, decision[a])
      BY <1>1
    <2>3. CardOf(will, staged, decision[a]) \in Card
      BY <1>2, <1>3, <2>1, CardType
    <2> HIDE DEF staged
    <2> QED
      BY <1>2, <2>2, <2>3 DEF Rebuild, TypeOK
  <1> QED
    BY <1>1, <1>2, <1>6, <1>7, <1>8 DEF LInv, TypeOK, ToldTheDecision

LEMMA CommitReopenStep ==
    ASSUME LifecycleAssumption, LInv, NEW r \in Request, CommitReopen(r)
    PROVE  LInv'
  <1> DEFINE a == req[r].a
             was == req[r].was
             will == Changed(was, "application", "in_progress", FALSE, FALSE)
  <1>1. /\ req[r].at = "loaded" /\ req[r].op = "reopen"
        /\ Store(r, will) /\ NoteRace(r) /\ Reply(r)
        /\ Record(r, TRUE, was.stage, "application")
        /\ Rebuild(r, will, stageRow[a], decision[a])
        /\ UNCHANGED <<stageRow, decision, told, marks>>
    BY DEF CommitReopen, Loaded, Changed
  <1>2. /\ TypeOK /\ a \in AppId /\ was \in Application
        /\ decision[a] \in Decision \cup {"none"}
        /\ stageRow[a] \in [ApplicationStage -> StageRow]
        /\ Fitting(was) /\ was.stage = "initial_screening"
    BY <1>1, Starting DEF Guarded
  <1>3. /\ will \in Application /\ will.archived = was.archived
        /\ will.stage = "application" /\ will.state = "in_progress"
        /\ Fitting(will)
    BY <1>2, Reopening
  <1> HIDE DEF will
  <1>4. a \notin raced /\ app[a] = was => decision[a] = "none"
    BY <1>1, <1>2, Starting, StageStates DEF Fitting
  <1>5. Record(r, TRUE, was.stage, will.stage)
    BY <1>1, <1>3
  <1>6. /\ Stages'
        /\ app' \in [AppId -> Application]
        /\ history' \in [AppId -> Seq(HistoryRow)]
        /\ req' \in [Request -> [at : {"idle", "loaded"}, op : Operation,
                                a : AppId, was : Application,
                                len : Nat, open : Nat]]
        /\ raced' \subseteq AppId
    BY <1>1, <1>3, <1>4, <1>5, EnterFrame
  <1>7. card' \in [AppId -> Card \cup {NoCard}] /\ behind' \subseteq AppId
    BY <1>1, <1>2, <1>3, CardType
  <1> QED
    BY <1>1, <1>2, <1>6, <1>7 DEF LInv, TypeOK, ToldTheDecision

(* A commit that enters no stage.                                          *)
LEMMA StayFrame ==
    ASSUME LifecycleAssumption, LInv, NEW r \in Request,
           req[r].at = "loaded",
           NEW will \in Application, will.archived = req[r].was.archived,
           will.stage = req[r].was.stage, Fitting(will),
           Store(r, will), NoteRace(r), Reply(r), UNCHANGED history,
           NEW d \in Decision \cup {"none"},
           decision' = [decision EXCEPT ![req[r].a] = d],
           (req[r].a \notin raced /\ app[req[r].a] = req[r].was)
              => (will.state = "decision_made" <=> d # "none")
    PROVE  /\ Stages'
           /\ app' \in [AppId -> Application]
           /\ history' \in [AppId -> Seq(HistoryRow)]
           /\ decision' \in [AppId -> Decision \cup {"none"}]
           /\ req' \in [Request -> [at : {"idle", "loaded"}, op : Operation,
                                   a : AppId, was : Application,
                                   len : Nat, open : Nat]]
           /\ raced' \subseteq AppId
  <1> DEFINE a == req[r].a
             h == history[a]
  <1>1. /\ h \in Seq(HistoryRow) /\ h # <<>>
        /\ a \notin raced /\ app[a] = req[r].was => PathTo(h, will.stage)
    BY Starting
  <1>2. history' = [history EXCEPT ![a] = h]
    BY DEF LInv, TypeOK
  <1> HIDE DEF h
  <1> QED
    BY <1>1, <1>2, CommitFrame

LEMMA CommitResetStep ==
    ASSUME LifecycleAssumption, LInv, NEW r \in Request, CommitReset(r)
    PROVE  LInv'
  <1> DEFINE a == req[r].a
             was == req[r].was
             will == [was EXCEPT !.state = "draft", !.submitted = FALSE,
                                 !.locked = FALSE]
  <1>1. /\ req[r].at = "loaded" /\ req[r].op = "reset"
        /\ Store(r, will) /\ NoteRace(r) /\ Reply(r) /\ LeaveCard(r)
        /\ UNCHANGED <<history, stageRow, decision, told, marks>>
    BY DEF CommitReset, Loaded
  <1>2. /\ TypeOK /\ a \in AppId /\ was \in Application
        /\ decision[a] \in Decision \cup {"none"}
        /\ Fitting(was) /\ was.stage = "application"
    BY <1>1, Starting DEF Guarded
  <1>3. /\ will \in Application /\ will.archived = was.archived
        /\ will.stage = was.stage /\ will.state = "draft"
        /\ will.locked = FALSE
    BY <1>2 DEF Application, ApplicationState
  <1> HIDE DEF will
  <1>4. Fitting(will)
    BY <1>2, <1>3, StageStates DEF Fitting
  <1>5. a \notin raced /\ app[a] = was => decision[a] = "none"
    BY <1>1, <1>2, Starting, StageStates DEF Fitting
  <1>6. decision' = [decision EXCEPT ![a] = decision[a]]
    BY <1>1, <1>2 DEF TypeOK
  <1>7. /\ Stages'
        /\ app' \in [AppId -> Application]
        /\ req' \in [Request -> [at : {"idle", "loaded"}, op : Operation,
                                a : AppId, was : Application,
                                len : Nat, open : Nat]]
        /\ raced' \subseteq AppId
    BY <1>1, <1>2, <1>3, <1>4, <1>5, <1>6, StayFrame
  <1>8. card' \in [AppId -> Card \cup {NoCard}] /\ behind' \subseteq AppId
    BY <1>1, <1>2 DEF LeaveCard, TypeOK
  <1> QED
    BY <1>1, <1>2, <1>7, <1>8 DEF LInv, TypeOK, ToldTheDecision

LEMMA CommitSaveStep ==
    ASSUME LifecycleAssumption, LInv, NEW r \in Request, CommitSave(r)
    PROVE  LInv'
  <1> DEFINE a == req[r].a
             was == req[r].was
             begun == [was EXCEPT !.state = "in_progress"]
             will == IF was.state = "draft" THEN begun ELSE was
  <1>1. /\ req[r].at = "loaded" /\ req[r].op = "save"
        /\ Store(r, will) /\ NoteRace(r) /\ Reply(r)
        /\ \/ Rebuild(r, will, stageRow[a], decision[a])
           \/ UNCHANGED <<card, behind>>
        /\ UNCHANGED <<history, stageRow, decision, told, marks>>
    BY DEF CommitSave, Loaded
  <1>2. /\ TypeOK /\ a \in AppId /\ was \in Application
        /\ decision[a] \in Decision \cup {"none"}
        /\ stageRow[a] \in [ApplicationStage -> StageRow]
        /\ Fitting(was) /\ was.stage = "application"
    BY <1>1, Starting DEF Guarded
  <1>3. /\ begun \in Application /\ begun.archived = was.archived
        /\ begun.stage = was.stage /\ begun.state = "in_progress"
        /\ begun.locked = was.locked
    BY <1>2 DEF Application, ApplicationState
  <1> HIDE DEF begun
  <1>4. was.state # "decision_made"
    BY <1>2, StageStates DEF Fitting
  <1>5. /\ will \in Application /\ will.archived = was.archived
        /\ will.stage = was.stage /\ will.state # "decision_made"
        /\ Fitting(will)
    <2>1. CASE was.state = "draft"
      BY <1>2, <1>3, <2>1, StageStates DEF Fitting
    <2>2. CASE was.state # "draft"
      BY <1>2, <1>4, <2>2
    <2> QED
      BY <2>1, <2>2
  <1> HIDE DEF will
  <1>6. a \notin raced /\ app[a] = was => decision[a] = "none"
    BY <1>1, <1>4, Starting
  <1>7. decision' = [decision EXCEPT ![a] = decision[a]]
    BY <1>1, <1>2 DEF TypeOK
  <1>8. /\ Stages'
        /\ app' \in [AppId -> Application]
        /\ req' \in [Request -> [at : {"idle", "loaded"}, op : Operation,
                                a : AppId, was : Application,
                                len : Nat, open : Nat]]
        /\ raced' \subseteq AppId
    BY <1>1, <1>2, <1>5, <1>6, <1>7, StayFrame
  <1>9. card' \in [AppId -> Card \cup {NoCard}] /\ behind' \subseteq AppId
    BY <1>1, <1>2, <1>5, CardType DEF TypeOK
  <1> QED
    BY <1>1, <1>2, <1>8, <1>9 DEF LInv, TypeOK, ToldTheDecision

LEMMA CommitDecideStep ==
    ASSUME LifecycleAssumption, LInv, NEW r \in Request,
           NEW value \in Decision, CommitDecide(r, value)
    PROVE  LInv'
  <1> DEFINE a == req[r].a
             was == req[r].was
             will == [was EXCEPT !.state = "decision_made"]
  <1>1. /\ req[r].at = "loaded" /\ req[r].op = "decide"
        /\ decision[a] = "none"
        /\ Store(r, will) /\ NoteRace(r) /\ Reply(r)
        /\ decision' = [decision EXCEPT ![a] = value]
        /\ \/ told' = [told EXCEPT ![a] = told[a] \cup {value}]
           \/ told' = told
        /\ LeaveCard(r) \/ Rebuild(r, will, stageRow[a], decision'[a])
        /\ UNCHANGED <<history, stageRow, marks>>
    BY DEF CommitDecide, Loaded
  <1>2. /\ TypeOK /\ a \in AppId /\ was \in Application
        /\ stageRow[a] \in [ApplicationStage -> StageRow]
        /\ Fitting(was) /\ was.stage = "decision"
    BY <1>1, Starting DEF Guarded
  <1>3. /\ will \in Application /\ will.archived = was.archived
        /\ will.stage = was.stage /\ will.state = "decision_made"
        /\ will.locked = was.locked
    BY <1>2 DEF Application, ApplicationState
  <1> HIDE DEF will
  <1>4. Fitting(will)
    BY <1>2, <1>3, StageStates DEF Fitting
  <1>5. value \in Decision \cup {"none"} /\ value # "none"
    BY DEF LifecycleAssumption
  <1>6. /\ Stages'
        /\ app' \in [AppId -> Application]
        /\ decision' \in [AppId -> Decision \cup {"none"}]
        /\ req' \in [Request -> [at : {"idle", "loaded"}, op : Operation,
                                a : AppId, was : Application,
                                len : Nat, open : Nat]]
        /\ raced' \subseteq AppId
    BY <1>1, <1>2, <1>3, <1>4, <1>5, StayFrame
  <1>7. card' \in [AppId -> Card \cup {NoCard}] /\ behind' \subseteq AppId
    <2>1. decision'[a] \in Decision \cup {"none"}
      BY <1>2, <1>6
    <2> DEFINE decided == decision'[a]
    <2>2. decided \in Decision \cup {"none"}
      BY <2>1
    <2>3. LeaveCard(r) \/ Rebuild(r, will, stageRow[a], decided)
      BY <1>1
    <2> HIDE DEF decided
    <2> QED
      BY <1>2, <1>3, <2>2, <2>3, CardType
  <1>8. /\ told \in [AppId -> SUBSET Decision]
        /\ decision \in [AppId -> Decision \cup {"none"}]
        /\ \A b \in AppId : told[b] \subseteq {decision[b]}
    BY <1>2 DEF LInv, TypeOK, ToldTheDecision
  <1>9. told[a] = {}
    BY <1>1, <1>2, <1>8 DEF LifecycleAssumption
  <1>10. /\ told' \in [AppId -> SUBSET Decision]
         /\ \A b \in AppId : told'[b] \subseteq {decision'[b]}
    BY <1>1, <1>2, <1>8, <1>9
  <1> QED
    BY <1>1, <1>2, <1>6, <1>7, <1>10 DEF LInv, TypeOK, ToldTheDecision

LEMMA CommitMarkStep ==
    ASSUME LifecycleAssumption, LInv, NEW r \in Request,
           NEW row \in StageRow, CommitMark(r, row)
    PROVE  LInv'
  <1> DEFINE a == req[r].a
             was == req[r].was
  <1>1. /\ req[r].at = "loaded" /\ marks < MaxMarks /\ marks' = marks + 1
        /\ stageRow' = [stageRow EXCEPT ![a][was.stage] = row]
        /\ ShowMark(r) /\ NoteRace(r) /\ Reply(r)
        /\ UNCHANGED <<app, history, decision, told>>
    BY DEF CommitMark, Loaded
  <1>2. /\ TypeOK /\ a \in AppId /\ was \in Application
        /\ decision[a] \in Decision \cup {"none"}
        /\ stageRow[a] \in [ApplicationStage -> StageRow]
        /\ Fitting(was)
    BY <1>1, Starting
  <1>3. Store(r, was)
    <2>1. app \in [AppId -> Application] /\ app[a] \in Application
      BY <1>2 DEF TypeOK
    <2>2. Written(app[a], was, was) = app[a]
      BY <1>2, <2>1, Columns DEF Written, Application
    <2>3. app' = [app EXCEPT ![a] = Written(app[a], was, was)]
      BY <1>1, <2>1, <2>2
    <2> QED
      BY <2>3 DEF Store
  <1>4. (a \notin raced /\ app[a] = was)
          => (was.state = "decision_made" <=> decision[a] # "none")
    BY <1>1, Starting
  <1>5. decision' = [decision EXCEPT ![a] = decision[a]]
    BY <1>1, <1>2 DEF TypeOK
  <1>6. /\ Stages'
        /\ req' \in [Request -> [at : {"idle", "loaded"}, op : Operation,
                                a : AppId, was : Application,
                                len : Nat, open : Nat]]
        /\ raced' \subseteq AppId
    BY <1>1, <1>2, <1>3, <1>4, <1>5, StayFrame
  <1>7. marks' \in 0..MaxMarks
    BY <1>1, <1>2 DEF TypeOK, LifecycleAssumption
  <1>8. /\ stageRow' \in [AppId -> [ApplicationStage -> StageRow]]
        /\ stageRow'[a] \in [ApplicationStage -> StageRow]
    <2> DEFINE new == [stageRow[a] EXCEPT ![was.stage] = row]
    <2>1. new \in [ApplicationStage -> StageRow]
      BY <1>2
    <2>2. /\ stageRow \in [AppId -> [ApplicationStage -> StageRow]]
          /\ stageRow' = [stageRow EXCEPT ![a] = new]
      BY <1>1, <1>2 DEF TypeOK
    <2> HIDE DEF new
    <2> QED
      BY <1>2, <2>1, <2>2
  <1>9. card' \in [AppId -> Card \cup {NoCard}] /\ behind' \subseteq AppId
    <2>1. CASE FirstMark(r)
      <3>1. CardOf(was, stageRow[a], decision[a]) \in Card
        BY <1>2, CardType
      <3>2. /\ card' = [card EXCEPT ![a] = CardOf(was, stageRow[a], decision[a])]
            /\ behind' = behind \cup {a}
        BY <1>1, <2>1 DEF ShowMark
      <3> QED
        BY <1>2, <3>1, <3>2 DEF TypeOK
    <2>2. CASE ~FirstMark(r)
      <3> DEFINE staged == stageRow'[a]
      <3>1. staged \in [ApplicationStage -> StageRow]
        BY <1>8
      <3>2. Rebuild(r, was, staged, decision[a])
        BY <1>1, <2>2 DEF ShowMark
      <3> HIDE DEF staged
      <3> QED
        BY <1>2, <3>1, <3>2, CardType
    <2> QED
      BY <2>1, <2>2
  <1> QED
    BY <1>1, <1>2, <1>6, <1>7, <1>8, <1>9 DEF LInv, TypeOK, ToldTheDecision

\* The marks are stage rows.
LEMMA MarkedType ==
    ASSUME LInv, NEW r \in Request, req[r].at = "loaded"
    PROVE  /\ [Marked(r) EXCEPT !.status = "approved"] \in StageRow
           /\ [status |-> IF FirstMark(r) THEN "new" ELSE Marked(r).status,
               attention |-> ~Marked(r).attention] \in StageRow
  <1>1. /\ stageRow[req[r].a] \in [ApplicationStage -> StageRow]
        /\ req[r].was.stage \in ApplicationStage
    BY Starting DEF Application
  <1>2. Marked(r) \in StageRow
    BY <1>1 DEF Marked
  <1> QED
    BY <1>2 DEF StageRow, FirstMark

LEMMA CommitMarksStep ==
    ASSUME LifecycleAssumption, LInv, NEW r \in Request,
           CommitStatus(r) \/ CommitAttention(r)
    PROVE  LInv'
  <1>1. req[r].at = "loaded"
    BY DEF CommitStatus, CommitAttention, CommitMark, Loaded
  <1> QED
    BY <1>1, MarkedType, CommitMarkStep DEF CommitStatus, CommitAttention

----------------------------------------------------------------------------
(* Requests begin and fail.                                                *)

\* A request that begins has found what its guards ask for.
LEMMA LoadStep ==
    ASSUME LInv, NEW r \in Request, NEW a \in AppId, NEW op \in Operation,
           Load(r, a, op), Exists(a), Guarded(op, app[a])
    PROVE  LInv'
  <1> DEFINE new == [at |-> "loaded", op |-> op, a |-> a, was |-> app[a],
                     len |-> Len(history[a]), open |-> LastOpen(history[a])]
  <1>1. /\ raced = {} /\ req' = [req EXCEPT ![r] = new]
        /\ UNCHANGED <<app, history, stageRow, decision, card,
                       told, marks, raced, behind>>
    BY DEF Load, rows
  <1>2. /\ TypeOK /\ app[a] \in Application
        /\ history[a] \in Seq(HistoryRow) /\ history[a] # <<>>
    BY DEF LInv, TypeOK, Exists
  <1>3. Fitting(app[a]) /\ PathTo(history[a], app[a].stage)
    BY <1>1 DEF LInv, Stages
  <1>4. LastOpen(history[a]) = Len(history[a]) /\ Len(history[a]) \in Nat
    BY <1>2, <1>3, LastOfPath
  <1>5. /\ new \in [at : {"idle", "loaded"}, op : Operation, a : AppId,
                    was : Application, len : Nat, open : Nat]
        /\ new.a = a /\ new.op = op /\ new.was = app[a]
        /\ new.open = new.len
    BY <1>2, <1>4
  <1> HIDE DEF new
  <1>6. req' \in [Request -> [at : {"idle", "loaded"}, op : Operation,
                                a : AppId, was : Application,
                                len : Nat, open : Nat]]
    BY <1>1, <1>2, <1>5 DEF TypeOK
  <1>7. Loadings'
    <2> SUFFICES ASSUME NEW q \in Request, req'[q].at = "loaded"
                 PROVE  /\ history'[req'[q].a] # <<>>
                        /\ req'[q].open = req'[q].len
                        /\ Fitting(req'[q].was)
                        /\ Guarded(req'[q].op, req'[q].was)
      BY DEF Loadings, Exists
    <2>1. CASE q = r
      <3>1. req'[q] = new
        BY <1>1, <1>2, <2>1 DEF TypeOK
      <3> QED
        BY <1>1, <1>2, <1>3, <1>5, <3>1
    <2>2. CASE q # r
      <3>1. req'[q] = req[q]
        BY <1>1, <1>2, <2>2 DEF TypeOK
      <3> QED
        BY <1>1, <3>1 DEF LInv, Stages, Loadings, Exists
    <2> QED
      BY <2>1, <2>2
  <1>8. Stages'
    BY <1>1, <1>7 DEF LInv, Stages, Fresh, OneActive, Active, Exists,
                      Fitting, PathTo, OpenExplained
  <1> QED
    BY <1>1, <1>2, <1>6, <1>8 DEF LInv, TypeOK, ToldTheDecision

LEMMA Editing ==
    ASSUME LInv, NEW a \in AppId, raced = {}, Editable(a)
    PROVE  app[a].stage = "application"
  BY DEF LInv, Stages, Fitting, Editable

LEMMA AskStep ==
    ASSUME LInv, NEW r \in Request, NEW a \in AppId,
           Candidate(r, a) \/ Commission(r, a) \/ AskAutoAdvance(r, a)
    PROVE  LInv'
  <1> DEFINE Asked(op) == /\ op \in Operation /\ Load(r, a, op)
                          /\ Exists(a) /\ Guarded(op, app[a])
  <1> SUFFICES \E op \in Operation : Asked(op)
    BY LoadStep
  <1>1. Load(r, a, "save") \/ Load(r, a, "reset") \/ Load(r, a, "submit")
          => raced = {}
    BY DEF Load
  <1>2. CASE Candidate(r, a)
    <2>1. CASE AskSave(r, a)
      BY <1>1, <2>1, Editing DEF AskSave, Active, Guarded, Operation,
           TransitionName, Policy, ScreeningOnly
    <2>2. CASE AskReset(r, a)
      BY <1>1, <2>2, Editing DEF AskReset, Active, Guarded, Operation,
           TransitionName, Policy, ScreeningOnly
    <2>3. CASE AskSubmit(r, a)
      BY <1>1, <2>3, Editing DEF AskSubmit, Active, Guarded, Operation,
           TransitionName, Policy, ScreeningOnly
    <2>4. CASE AskReopen(r, a)
      BY <2>4 DEF AskReopen, Active, Guarded, Operation,
           TransitionName, Policy, ScreeningOnly
    <2> QED
      BY <1>2, <2>1, <2>2, <2>3, <2>4 DEF Candidate
  <1>3. CASE Commission(r, a)
    <2>1. ASSUME NEW op \in TransitionName,
                 AskAdvance(r, a, op) \/ AskInternal(r, a, op)
          PROVE  Asked(op)
      BY <2>1 DEF AskAdvance, AskInternal, Guarded, Operation,
           TransitionName, Policy, ScreeningOnly
    <2>2. CASE AskApprove(r, a)
      BY <2>2 DEF AskApprove, Guarded, Operation,
           TransitionName, Policy, ScreeningOnly
    <2>3. CASE AskDecide(r, a)
      BY <2>3 DEF AskDecide, Guarded, Operation,
           TransitionName, Policy, ScreeningOnly
    <2>4. CASE AskMark(r, a)
      BY <2>4 DEF AskMark, Guarded, Operation,
           TransitionName, Policy, ScreeningOnly
    <2>5. CASE AskArchive(r, a)
      BY <2>5 DEF AskArchive, Active, Guarded, Operation,
           TransitionName, Policy, ScreeningOnly
    <2>6. TransitionName \subseteq Operation
      BY DEF Operation
    <2> QED
      BY <1>3, <2>1, <2>2, <2>3, <2>4, <2>5, <2>6 DEF Commission
  <1>4. CASE AskAutoAdvance(r, a)
    BY <1>4 DEF AskAutoAdvance, Guarded, Operation,
         TransitionName, Policy, ScreeningOnly
  <1> QED
    BY <1>2, <1>3, <1>4

LEMMA DropStep ==
    ASSUME LifecycleAssumption, LInv, NEW r \in Request, Drop(r)
    PROVE  LInv'
  <1>1. /\ req' = [req EXCEPT ![r] = IdleRequest]
        /\ UNCHANGED <<app, history, stageRow, decision, card,
                       told, marks, raced, behind>>
    BY DEF Drop, Reply, rows
  <1>2. TypeOK /\ req' \in [Request -> [at : {"idle", "loaded"}, op : Operation,
                                a : AppId, was : Application,
                                len : Nat, open : Nat]]
    BY <1>1, IdleType DEF LInv, TypeOK
  <1>3. \A q \in Request : req'[q].at = "loaded" => req'[q] = req[q]
    BY <1>1, <1>2, IdleType DEF TypeOK
  <1>4. Loadings'
    BY <1>1, <1>3 DEF LInv, Stages, Loadings, Exists
  <1>5. Stages'
    <2>1. Fresh'
      BY <1>1 DEF LInv, Stages, Fresh, Exists
    <2>2. OneActive'
      BY <1>1 DEF LInv, Stages, OneActive, Active, Exists
    <2>3. ASSUME NEW b \in AppId \ raced'
          PROVE  /\ Fitting(app'[b])
                 /\ app'[b].state = "decision_made" <=> decision'[b] # "none"
                 /\ Exists(b)' => PathTo(history'[b], app'[b].stage)
      BY <1>1 DEF LInv, Stages, Exists
    <2> QED
      BY <1>4, <2>1, <2>2, <2>3 DEF Stages, Fitting
  <1> QED
    BY <1>1, <1>2, <1>5 DEF LInv, TypeOK, ToldTheDecision

----------------------------------------------------------------------------
(* The archive.                                                            *)

LEMMA Lowest ==
    ASSUME NEW T \in SUBSET Nat, T # {}
    PROVE  \E x \in T : \A y \in T : x <= y
  <1> DEFINE R == OpToRel(<, Nat)
  <1>1. \A x, y \in Nat : <<y, x>> \in R <=> y < x
    BY DEF OpToRel
  <1>2. IsWellFoundedOn(R, Nat)
    BY NatLessThanWellFounded
  <1> HIDE DEF R
  <1>3. PICK x \in T : \A y \in T : ~ (<<y, x>> \in R)
    BY <1>2, WFMin
  <1>4. ASSUME NEW y \in T PROVE x <= y
    <2>1. x \in Nat /\ y \in Nat
      OBVIOUS
    <2>2. ~ (y < x)
      BY <1>1, <1>3, <2>1
    <2> QED
      BY <2>1, <2>2
  <1> QED
    BY <1>4

LEMMA CommitArchiveStep ==
    ASSUME LifecycleAssumption, LInv, NEW r \in Request, CommitArchive(r)
    PROVE  LInv'
  <1> DEFINE a == req[r].a
             was == req[r].was
             will == [was EXCEPT !.archived = TRUE]
             fresh == {b \in AppId : ~Exists(b)}
             n == CHOOSE b \in fresh : \A c \in fresh : b <= c
             old == CardOf(will, stageRow[a], decision[a])
             new == CardOf(NewApplication, stageRow[n], "none")
  <1>1. /\ req[r].at = "loaded" /\ req[r].op = "archive"
        /\ MayCreate(a) /\ fresh # {}
        /\ Store(r, will) /\ NoteRace(r) /\ Reply(r)
        /\ history' = [history EXCEPT ![n] = <<Created>>]
        /\ card' = [card EXCEPT ![a] = old, ![n] = new]
        /\ behind' = behind \ {a, n}
        /\ UNCHANGED <<stageRow, decision, told, marks>>
    BY DEF CommitArchive, Loaded
  <1>2. /\ TypeOK /\ a \in AppId /\ was \in Application
        /\ decision[a] \in Decision \cup {"none"}
        /\ stageRow[a] \in [ApplicationStage -> StageRow]
        /\ Fitting(was) /\ ~was.archived /\ Exists(a)
    BY <1>1, Starting DEF Guarded
  <1>3. n \in fresh
    <2>1. fresh \subseteq Nat
      BY DEF AppId
    <2> HIDE DEF fresh
    <2> QED
      BY <1>1, <2>1, Lowest
  <1>4. n \in AppId /\ ~Exists(n) /\ n # a
    BY <1>2, <1>3
  <1>5. /\ will \in Application /\ will.archived /\ will.stage = was.stage
        /\ will.state = was.state /\ will.locked = was.locked
    BY <1>2 DEF Application
  <1> HIDE DEF will, n, fresh
  <1>6. /\ app' \in [AppId -> Application]
        /\ \A b \in AppId \ {a} : app'[b] = app[b]
        /\ app'[a].archived
        /\ raced' \subseteq AppId /\ raced \subseteq raced'
        /\ a \notin raced' => app[a] = was /\ app'[a] = will
    <2>1. app[a] \in Application
      BY <1>2 DEF TypeOK
    <2>2. Written(app[a], was, will).archived
      BY <1>2, <1>5, <2>1, WrittenType
    <2> QED
      BY <1>1, <1>2, <1>5, <2>2, StoreEffect
  <1>7. /\ <<Created>> \in Seq(HistoryRow) /\ <<Created>> # <<>>
        /\ PathTo(<<Created>>, "application")
    <2>1. Created \in HistoryRow
      BY DEF Created, HistoryRow, ApplicationStage
    <2>2. /\ <<Created>> \in Seq(HistoryRow) /\ <<Created>> # <<>>
          /\ Len(<<Created>>) = 1 /\ <<Created>>[1] = Created
      BY <2>1
    <2>3. DOMAIN <<Created>> = 1..1
      OBVIOUS
    <2>4. Created.from = "none" /\ Created.to = "application" /\ Created.open
      BY DEF Created
    <2> QED
      BY <2>2, <2>3, <2>4 DEF PathTo, OpenExplained
  <1>8. /\ history' \in [AppId -> Seq(HistoryRow)]
        /\ history'[n] = <<Created>>
        /\ \A b \in AppId \ {n} : history'[b] = history[b]
    BY <1>1, <1>2, <1>4, <1>7 DEF TypeOK
  <1>9. /\ req' \in [Request -> [at : {"idle", "loaded"}, op : Operation,
                                a : AppId, was : Application,
                                len : Nat, open : Nat]]
        /\ \A q \in Request : req'[q].at = "loaded" => req'[q] = req[q]
    BY <1>1, <1>2, IdleType DEF Reply, TypeOK
  <1>10. app'[n] = NewApplication
    BY <1>4, <1>6 DEF LInv, Stages, Fresh
  <1>11. \A b \in AppId : Active(b)' <=> b = n
    <2>1. ~NewApplication.archived
      BY DEF NewApplication
    <2> QED
      BY <1>1, <1>2, <1>4, <1>6, <1>7, <1>8, <1>10, <2>1
         DEF Active, Exists, MayCreate
  <1>12. OneActive'
    <2>1. {b \in AppId : Active(b)}' = {n}
      BY <1>4, <1>11
    <2> QED
      BY <2>1, FS_Singleton DEF OneActive
  <1>13. Fresh'
    BY <1>2, <1>4, <1>6, <1>7, <1>8 DEF LInv, Stages, Fresh, Exists
  <1>14. Loadings'
    <2>1. \A q \in Request : req[q].a \in AppId
      BY <1>2 DEF TypeOK
    <2>2. \A b \in AppId : history[b] # <<>> => history'[b] # <<>>
      BY <1>7, <1>8
    <2> QED
      BY <1>9, <2>1, <2>2 DEF LInv, Stages, Loadings, Exists
  <1>15. ASSUME NEW b \in AppId \ raced'
         PROVE  /\ Fitting(app'[b])
                /\ app'[b].state = "decision_made" <=> decision'[b] # "none"
                /\ Exists(b)' => PathTo(history'[b], app'[b].stage)
    <2>1. /\ b \notin raced
          /\ Fitting(app[b])
          /\ app[b].state = "decision_made" <=> decision[b] # "none"
          /\ Exists(b) => PathTo(history[b], app[b].stage)
          /\ decision'[b] = decision[b]
      BY <1>1, <1>6 DEF LInv, Stages
    <2>2. CASE b = n
      <3>1. app'[b] = app[b] /\ app'[b].stage = "application"
        BY <1>4, <1>6, <1>10, <2>2 DEF NewApplication
      <3> QED
        BY <1>7, <1>8, <2>1, <2>2, <3>1
    <2>3. CASE b = a
      <3>1. app[b] = was /\ app'[b] = will /\ history'[b] = history[b]
        BY <1>2, <1>4, <1>6, <1>8, <2>3
      <3> QED
        BY <1>5, <2>1, <3>1 DEF Fitting, Exists
    <2>4. CASE b # n /\ b # a
      BY <1>6, <1>8, <2>1, <2>4 DEF Exists
    <2> QED
      BY <2>2, <2>3, <2>4
  <1>16. Stages'
    BY <1>12, <1>13, <1>14, <1>15 DEF Stages, Fitting
  <1>17. card' \in [AppId -> Card \cup {NoCard}] /\ behind' \subseteq AppId
    <2>1. old \in Card
      BY <1>2, <1>5, CardType
    <2>2. new \in Card
      <3>1. /\ stageRow[n] \in [ApplicationStage -> StageRow]
            /\ NewApplication \in Application
        BY <1>2, <1>4 DEF TypeOK, NewApplication, Application,
                          ApplicationStage, ApplicationState
      <3> QED
        BY <1>2, <3>1, CardType
    <2>3. card \in [AppId -> Card \cup {NoCard}] /\ behind \subseteq AppId
      BY <1>2 DEF TypeOK
    <2> HIDE DEF old, new
    <2> QED
      BY <1>1, <2>1, <2>2, <2>3
  <1> QED
    BY <1>1, <1>2, <1>6, <1>8, <1>9, <1>16, <1>17
       DEF LInv, TypeOK, ToldTheDecision

----------------------------------------------------------------------------
LEMMA InitInv ==
    ASSUME LifecycleAssumption, Init
    PROVE  LInv
  <1>1. 1 \in AppId
    BY DEF LifecycleAssumption, AppId
  <1>2. /\ NewApplication \in Application
        /\ NewApplication.stage = "application"
        /\ NewApplication.state = "draft"
        /\ NewApplication.locked = FALSE /\ NewApplication.archived = FALSE
    BY DEF NewApplication, Application, ApplicationStage, ApplicationState
  <1>3. /\ <<Created>> \in Seq(HistoryRow) /\ <<>> \in Seq(HistoryRow)
        /\ Created.from = "none" /\ Created.to = "application" /\ Created.open
    BY DEF Created, HistoryRow, ApplicationStage
  <1>4. /\ <<Created>> # <<>> /\ Len(<<Created>>) = 1
        /\ <<Created>>[1] = Created /\ DOMAIN <<Created>> = 1..1
    OBVIOUS
  <1>5. /\ \A a \in AppId : app[a] = NewApplication /\ decision[a] = "none"
        /\ \A a \in AppId : Exists(a) <=> a = 1
        /\ history[1] = <<Created>>
    BY <1>1, <1>4 DEF Init, Exists
  <1>6. TypeOK
    <2>1. NoStageRow \in StageRow
      BY DEF NoStageRow, StageRow
    <2>2. marks \in 0..MaxMarks
      BY DEF LifecycleAssumption, Init
    <2>3. \A r \in Request :
             IdleRequest \in [at : {"idle", "loaded"}, op : Operation,
                              a : AppId, was : Application,
                              len : Nat, open : Nat]
      BY IdleType
    <2>4. history \in [AppId -> Seq(HistoryRow)]
      BY <1>3 DEF Init
    <2> QED
      BY <1>2, <2>1, <2>2, <2>3, <2>4 DEF Init, TypeOK
  <1>7. ToldTheDecision
    BY DEF Init, ToldTheDecision
  <1>8. Stages
    <2>1. Fitting(NewApplication)
      BY <1>2, StageStates DEF Fitting
    <2>2. PathTo(<<Created>>, "application")
      BY <1>3, <1>4 DEF PathTo, OpenExplained
    <2>3. OneActive
      <3>1. {a \in AppId : Active(a)} = {1}
        BY <1>1, <1>2, <1>5 DEF Active
      <3> QED
        BY <3>1, FS_Singleton DEF OneActive
    <2>4. Loadings
      <3>1. \A r \in Request : req[r].at = "idle"
        BY IdleType DEF Init
      <3> QED
        BY <3>1 DEF Loadings
    <2>5. Fresh
      BY <1>5 DEF Fresh
    <2>6. ASSUME NEW a \in AppId \ raced
          PROVE  /\ Fitting(app[a])
                 /\ app[a].state = "decision_made" <=> decision[a] # "none"
                 /\ Exists(a) => PathTo(history[a], app[a].stage)
      BY <1>2, <1>5, <2>1, <2>2
    <2> QED
      BY <2>3, <2>4, <2>5, <2>6 DEF Stages
  <1> QED
    BY <1>6, <1>7, <1>8 DEF LInv

LEMMA NextInv ==
    ASSUME LifecycleAssumption, LInv, [Next]_vars
    PROVE  LInv'
  <1>1. ASSUME NEW r \in Request, NEW a \in AppId,
               Candidate(r, a) \/ Commission(r, a) \/ AskAutoAdvance(r, a)
        PROVE  LInv'
    BY <1>1, AskStep
  <1>2. ASSUME NEW r \in Request, Commit(r)
        PROVE  LInv'
    BY <1>2, CommitTransitionStep, CommitSubmitStep, CommitReopenStep,
       CommitResetStep, CommitSaveStep, CommitDecideStep, CommitMarksStep,
       CommitArchiveStep DEF Commit
  <1>3. ASSUME NEW r \in Request, Drop(r)
        PROVE  LInv'
    BY <1>3, DropStep
  <1>4. CASE UNCHANGED vars
    <2>1. UNCHANGED <<app, history, stageRow, decision, card,
                      told, req, marks, raced, behind>>
      BY <1>4 DEF vars, rows
    <2>2. TypeOK' /\ ToldTheDecision'
      BY <2>1 DEF LInv, TypeOK, ToldTheDecision
    <2>3. Fresh' /\ OneActive' /\ Loadings'
      BY <2>1 DEF LInv, Stages, Fresh, OneActive, Loadings, Active, Exists
    <2>4. ASSUME NEW b \in AppId \ raced'
          PROVE  /\ Fitting(app'[b])
                 /\ app'[b].state = "decision_made" <=> decision'[b] # "none"
                 /\ Exists(b)' => PathTo(history'[b], app'[b].stage)
      BY <2>1 DEF LInv, Stages, Exists
    <2> QED
      BY <2>2, <2>3, <2>4 DEF LInv, Stages, Fitting
  <1> QED
    BY <1>1, <1>2, <1>3, <1>4 DEF Next

LEMMA Invariant == Spec => []LInv
  <1>1. Init => LInv
    BY InitInv, LifecycleAssumption
  <1>2. LInv /\ [Next]_vars => LInv'
    BY NextInv, LifecycleAssumption
  <1> QED
    BY <1>1, <1>2, PTL DEF Spec

(* What an application has gone through agrees with where it is, for any   *)
(* number of requests: the history is a path to the stage, the lock and    *)
(* the state belong to the stage, a decision_made to a recorded decision,  *)
(* and only that was mailed (apply_transition and its callers).            *)
THEOREM LifecycleAgrees == Spec => []StagesAgree
  <1>1. LInv => StagesAgree
    BY StagesImply DEF LInv, StagesAgree
  <1> QED
    BY <1>1, Invariant, PTL

(* The candidate has one active application, even while requests overlap   *)
(* (uq_one_active_application_per_candidate).                              *)
THEOREM AlwaysOneActive == Spec => []OneActive
  <1>1. LInv => OneActive
    BY DEF LInv, Stages
  <1> QED
    BY <1>1, Invariant, PTL

----------------------------------------------------------------------------
(* Steps that do not take an application back.                             *)

\* NeverBackAfterReview of one step.
Onward == \A a \in AppId \ raced' : Passed(app'[a].stage) >= Passed(app[a].stage)

LEMMA PassedType == \A s \in ApplicationStage : Passed(s) \in Nat
  BY DEF Passed, ApplicationStage

LEMMA StayOnward ==
    ASSUME TypeOK, UNCHANGED app
    PROVE  Onward
  <1>1. \A a \in AppId : app[a].stage \in ApplicationStage
    BY DEF TypeOK, Application
  <1> QED
    BY <1>1, PassedType DEF Onward

LEMMA StoreOnward ==
    ASSUME TypeOK, NEW r \in Request, NEW will \in Application,
           Store(r, will), NoteRace(r),
           Passed(will.stage) >= Passed(req[r].was.stage)
    PROVE  Onward
  <1> DEFINE a == req[r].a
  <1>1. /\ \A b \in AppId \ {a} : app'[b] = app[b]
        /\ a \notin raced' => app[a] = req[r].was /\ app'[a] = will
    BY StoreEffect
  <1>2. \A b \in AppId : app[b].stage \in ApplicationStage
    BY DEF TypeOK, Application
  <1> HIDE DEF a
  <1>3. ASSUME NEW b \in AppId \ raced'
        PROVE  Passed(app'[b].stage) >= Passed(app[b].stage)
    <2>1. CASE b = a
      BY <1>1, <2>1
    <2>2. CASE b # a
      BY <1>1, <1>2, <2>2, PassedType
    <2> QED
      BY <2>1, <2>2
  <1> QED
    BY <1>3 DEF Onward

LEMMA CommitOnward ==
    ASSUME LInv, NEW r \in Request, Commit(r)
    PROVE  Onward
  <1> DEFINE was == req[r].was
  <1>1. req[r].at = "loaded"
    BY DEF Commit, CommitTransition, CommitSubmit, CommitReopen, CommitReset,
           CommitSave, CommitDecide, CommitStatus, CommitAttention, CommitMark,
           CommitArchive, Loaded
  <1>2. /\ TypeOK /\ was \in Application
        /\ Fitting(was) /\ Guarded(req[r].op, was)
        /\ was.stage \in ApplicationStage
    BY <1>1, Starting DEF Application
  <1>3. CASE CommitTransition(r)
    <2> DEFINE will == After(was, req[r].op)
    <2>1. req[r].op \in TransitionName /\ Store(r, will) /\ NoteRace(r)
      BY <1>3 DEF CommitTransition, Loaded
    <2> HIDE DEF will
    <2>2. will \in Application /\ Passed(will.stage) >= Passed(was.stage)
      BY <1>2, <2>1, TransitionFits DEF will
    <2> QED
      BY <1>2, <2>1, <2>2, StoreOnward
  <1>4. CASE CommitSubmit(r)
    <2> DEFINE will == Changed(was, "initial_screening", "under_screening",
                               TRUE, TRUE)
    <2>1. req[r].op = "submit" /\ Store(r, will) /\ NoteRace(r)
      BY <1>4 DEF CommitSubmit, Loaded, Changed
    <2>2. will \in Application /\ will.stage = "initial_screening"
      BY <1>2, Submitting
    <2> HIDE DEF will
    <2>3. was.stage = "application"
      BY <1>2, <2>1 DEF Guarded
    <2>4. Passed(will.stage) >= Passed(was.stage)
      BY <2>2, <2>3 DEF Passed
    <2> QED
      BY <1>2, <2>1, <2>2, <2>4, StoreOnward
  <1>5. CASE CommitReopen(r)
    <2> DEFINE will == Changed(was, "application", "in_progress", FALSE, FALSE)
    <2>1. req[r].op = "reopen" /\ Store(r, will) /\ NoteRace(r)
      BY <1>5 DEF CommitReopen, Loaded, Changed
    <2>2. will \in Application /\ will.stage = "application"
      BY <1>2, Reopening
    <2> HIDE DEF will
    <2>3. was.stage = "initial_screening"
      BY <1>2, <2>1 DEF Guarded
    <2>4. Passed(will.stage) >= Passed(was.stage)
      BY <2>2, <2>3 DEF Passed
    <2> QED
      BY <1>2, <2>1, <2>2, <2>4, StoreOnward
  <1>6. ASSUME NEW will \in Application, will.stage = was.stage,
               Store(r, will), NoteRace(r)
        PROVE  Onward
    <2>1. Passed(will.stage) >= Passed(was.stage)
      BY <1>2, <1>6, PassedType
    <2> QED
      BY <1>2, <1>6, <2>1, StoreOnward
  <1>7. CASE CommitReset(r)
    <2> DEFINE will == [was EXCEPT !.state = "draft", !.submitted = FALSE,
                                   !.locked = FALSE]
    <2>1. Store(r, will) /\ NoteRace(r)
      BY <1>7 DEF CommitReset
    <2>2. will \in Application /\ will.stage = was.stage
      BY <1>2 DEF Application, ApplicationState
    <2> HIDE DEF will
    <2> QED
      BY <1>6, <2>1, <2>2
  <1>8. CASE CommitSave(r)
    <2> DEFINE begun == [was EXCEPT !.state = "in_progress"]
               will == IF was.state = "draft" THEN begun ELSE was
    <2>1. Store(r, will) /\ NoteRace(r)
      BY <1>8 DEF CommitSave
    <2>2. begun \in Application /\ begun.stage = was.stage
      BY <1>2 DEF Application, ApplicationState
    <2>3. will \in Application /\ will.stage = was.stage
      BY <1>2, <2>2
    <2> HIDE DEF will
    <2> QED
      BY <1>6, <2>1, <2>3
  <1>9. ASSUME NEW value \in Decision, CommitDecide(r, value)
        PROVE  Onward
    <2> DEFINE will == [was EXCEPT !.state = "decision_made"]
    <2>1. Store(r, will) /\ NoteRace(r)
      BY <1>9 DEF CommitDecide
    <2>2. will \in Application /\ will.stage = was.stage
      BY <1>2 DEF Application, ApplicationState
    <2> HIDE DEF will
    <2> QED
      BY <1>6, <2>1, <2>2
  <1>10. CASE CommitStatus(r) \/ CommitAttention(r)
    BY <1>2, <1>10, StayOnward DEF CommitStatus, CommitAttention, CommitMark
  <1>11. CASE CommitArchive(r)
    <2> DEFINE will == [was EXCEPT !.archived = TRUE]
    <2>1. Store(r, will) /\ NoteRace(r)
      BY <1>11 DEF CommitArchive
    <2>2. will \in Application /\ will.stage = was.stage
      BY <1>2 DEF Application
    <2> HIDE DEF will
    <2> QED
      BY <1>6, <2>1, <2>2
  <1> QED
    BY <1>3, <1>4, <1>5, <1>7, <1>8, <1>9, <1>10, <1>11 DEF Commit

LEMMA NextOnward ==
    ASSUME LInv, [Next]_vars
    PROVE  Onward
  <1>1. TypeOK
    BY DEF LInv
  <1>2. ASSUME NEW r \in Request, NEW a \in AppId,
               Candidate(r, a) \/ Commission(r, a) \/ AskAutoAdvance(r, a)
        PROVE  UNCHANGED app
    BY <1>2 DEF Candidate, Commission, AskSave, AskReset, AskSubmit,
                AskReopen, AskAdvance, AskInternal, AskApprove, AskDecide,
                AskMark, AskArchive, AskAutoAdvance, Load, rows
  <1>3. ASSUME NEW r \in Request, Drop(r)
        PROVE  UNCHANGED app
    BY <1>3 DEF Drop, rows
  <1>4. CASE UNCHANGED vars
    BY <1>1, <1>4, StayOnward DEF vars, rows
  <1> QED
    BY <1>1, <1>2, <1>3, <1>4, StayOnward, CommitOnward DEF Next

(* Of applications that no two requests have changed at once, none goes    *)
(* back behind what the commission has passed, whoever asks for what       *)
(* (ensure_stage in the routes, the policies of apply_transition).         *)
THEOREM NeverSentBack == Spec => NeverBackAfterReview
  <1>1. LInv /\ [Next]_vars =>
           [\A a \in AppId \ raced' :
               Passed(app'[a].stage) >= Passed(app[a].stage)]_vars
    BY NextOnward DEF Onward
  <1> QED
    BY <1>1, Invariant, PTL DEF Spec, NeverBackAfterReview

----------------------------------------------------------------------------
(* What the board shows.                                                   *)

(* A step that leaves the other applications alone and the card of this one *)
(* as it is to be, or noted as left behind.                                *)
LEMMA CardFrame ==
    ASSUME CardFollows, NEW a,
           \A b \in AppId \ {a} : /\ app'[b] = app[b]
                                  /\ stageRow'[b] = stageRow[b]
                                  /\ decision'[b] = decision[b]
                                  /\ card'[b] = card[b],
           raced \subseteq raced', behind \ {a} \subseteq behind',
           a \notin raced' \cup behind' =>
              (card'[a] # NoCard =>
                 card'[a] = CardOf(app'[a], stageRow'[a], decision'[a]))
    PROVE  CardFollows'
  <1>1. ASSUME NEW b \in AppId \ {a}, b \notin raced' \cup behind',
               card'[b] # NoCard
        PROVE  card'[b] = CardOf(app'[b], stageRow'[b], decision'[b])
    <2>1. b \notin raced \cup behind /\ card[b] # NoCard
      BY <1>1
    <2>2. card[b] = CardOf(app[b], stageRow[b], decision[b])
      BY <2>1 DEF CardFollows
    <2> QED
      BY <1>1, <2>2
  <1> QED
    BY <1>1 DEF CardFollows

(* A commit that stores the application and rebuilds its card, or notes    *)
(* that it does not.                                                       *)
LEMMA CardCommit ==
    ASSUME TypeOK, CardFollows, NEW r \in Request, NEW will \in Application,
           Store(r, will), NoteRace(r),
           \A b \in AppId \ {req[r].a} : stageRow'[b] = stageRow[b],
           \A b \in AppId \ {req[r].a} : decision'[b] = decision[b],
           LeaveCard(r)
              \/ Rebuild(r, will, stageRow'[req[r].a], decision'[req[r].a])
    PROVE  CardFollows'
  <1> DEFINE a == req[r].a
             shown == CardOf(will, stageRow'[a], decision'[a])
  <1>1. /\ \A b \in AppId \ {a} : app'[b] = app[b]
        /\ raced \subseteq raced'
        /\ a \notin raced' => app'[a] = will
    BY StoreEffect
  <1>2. a \in AppId /\ card \in [AppId -> Card \cup {NoCard}]
    BY DEF TypeOK
  <1>3. CASE LeaveCard(r)
    <2>1. card' = card /\ behind' = behind \cup {a}
      BY <1>3 DEF LeaveCard
    <2> HIDE DEF a
    <2> QED
      BY <1>1, <2>1, CardFrame DEF a
  <1>4. CASE Rebuild(r, will, stageRow'[a], decision'[a])
    <2>1. card' = [card EXCEPT ![a] = shown] /\ behind' = behind \ {a}
      BY <1>4 DEF Rebuild
    <2>2. card'[a] = shown /\ \A b \in AppId \ {a} : card'[b] = card[b]
      BY <1>2, <2>1
    <2>3. a \notin raced' =>
             card'[a] = CardOf(app'[a], stageRow'[a], decision'[a])
      BY <1>1, <2>2
    <2>4. behind \ {a} \subseteq behind'
      BY <2>1
    <2> QED
      BY <1>1, <2>2, <2>3, <2>4, CardFrame
  <1> QED
    BY <1>3, <1>4

\* The card does not show the state or the lock.
LEMMA CardColumns ==
    ASSUME NEW f, NEW g, f.stage = g.stage, f.submitted = g.submitted,
           f.archived = g.archived, NEW staged, NEW decided
    PROVE  CardOf(f, staged, decided) = CardOf(g, staged, decided)
  BY DEF CardOf

LEMMA SaveShows ==
    ASSUME LInv, CardFollows, NEW r \in Request, CommitSave(r)
    PROVE  CardFollows'
  <1> DEFINE a == req[r].a
             was == req[r].was
             begun == [was EXCEPT !.state = "in_progress"]
             will == IF was.state = "draft" THEN begun ELSE was
  <1>1. /\ req[r].at = "loaded" /\ Store(r, will) /\ NoteRace(r)
        /\ UNCHANGED <<stageRow, decision>>
        /\ \/ Rebuild(r, will, stageRow[a], decision[a])
           \/ UNCHANGED <<card, behind>>
    BY DEF CommitSave, Loaded
  <1>2. TypeOK /\ a \in AppId /\ was \in Application
    BY <1>1, Starting
  <1>3. /\ begun \in Application /\ begun.stage = was.stage
        /\ begun.submitted = was.submitted /\ begun.archived = was.archived
    BY <1>2 DEF Application, ApplicationState
  <1>4. /\ will \in Application /\ will.stage = was.stage
        /\ will.submitted = was.submitted /\ will.archived = was.archived
    BY <1>2, <1>3
  <1> HIDE DEF will
  <1>5. CASE Rebuild(r, will, stageRow[a], decision[a])
    BY <1>1, <1>2, <1>4, <1>5, CardCommit
  <1>6. CASE UNCHANGED <<card, behind>>
    <2>1. /\ \A b \in AppId \ {a} : app'[b] = app[b]
          /\ raced \subseteq raced'
          /\ a \notin raced' => app[a] = was /\ app'[a] = will
      BY <1>1, <1>2, <1>4, StoreEffect
    <2>2. CardOf(will, stageRow[a], decision[a])
             = CardOf(was, stageRow[a], decision[a])
      BY <1>4, CardColumns
    <2>3. a \notin raced' \cup behind' => (card'[a] # NoCard =>
             card'[a] = CardOf(app'[a], stageRow'[a], decision'[a]))
      BY <1>1, <1>2, <1>6, <2>1, <2>2 DEF CardFollows
    <2> QED
      BY <1>1, <1>6, <2>1, <2>3, CardFrame
  <1> QED
    BY <1>1, <1>5, <1>6

LEMMA MarkShows ==
    ASSUME TypeOK, CardFollows, NEW r \in Request, NEW row,
           CommitMark(r, row)
    PROVE  CardFollows'
  <1> DEFINE a == req[r].a
             was == req[r].was
             shown == CardOf(was, stageRow'[a], decision[a])
  <1>1. /\ stageRow' = [stageRow EXCEPT ![a][was.stage] = row]
        /\ ShowMark(r) /\ NoteRace(r) /\ UNCHANGED <<app, decision>>
    BY DEF CommitMark
  <1>2. /\ a \in AppId /\ card \in [AppId -> Card \cup {NoCard}]
        /\ stageRow \in [AppId -> [ApplicationStage -> StageRow]]
    BY DEF TypeOK
  <1>3. /\ raced \subseteq raced'
        /\ a \notin raced' => app[a] = was
    <2> DEFINE met == app[a] = was /\ Len(history[a]) = req[r].len
    <2>1. raced' = IF met THEN raced ELSE raced \cup {a}
      BY <1>1 DEF NoteRace
    <2>2. met => app[a] = was
      OBVIOUS
    <2> HIDE DEF met, a, was
    <2> QED
      BY <2>1, <2>2
  <1>4. \A b \in AppId \ {a} : stageRow'[b] = stageRow[b]
    BY <1>1, <1>2
  <1>5. CASE FirstMark(r)
    <2>1. /\ card' = [card EXCEPT ![a] = CardOf(was, stageRow[a], decision[a])]
          /\ behind' = behind \cup {a}
      BY <1>1, <1>5 DEF ShowMark
    <2>2. \A b \in AppId \ {a} : card'[b] = card[b]
      BY <1>2, <2>1
    <2>3. a \in behind' /\ behind \ {a} \subseteq behind'
      BY <2>1
    <2> QED
      BY <1>1, <1>3, <1>4, <2>2, <2>3, CardFrame
  <1>6. CASE ~FirstMark(r)
    <2>1. card' = [card EXCEPT ![a] = shown] /\ behind' = behind \ {a}
      BY <1>1, <1>6 DEF ShowMark, Rebuild
    <2>2. card'[a] = shown /\ \A b \in AppId \ {a} : card'[b] = card[b]
      BY <1>2, <2>1
    <2>3. a \notin raced' =>
             card'[a] = CardOf(app'[a], stageRow'[a], decision'[a])
      BY <1>1, <1>3, <2>2
    <2>4. behind \ {a} \subseteq behind'
      BY <2>1
    <2> QED
      BY <1>1, <1>3, <1>4, <2>2, <2>3, <2>4, CardFrame
  <1> QED
    BY <1>5, <1>6

(* The archive rebuilds two cards: that of the application, and that of the *)
(* fresh one, which has no decision, as nothing has been written of it.    *)
LEMMA ArchiveShows ==
    ASSUME LifecycleAssumption, LInv, CardFollows, NEW r \in Request,
           CommitArchive(r)
    PROVE  CardFollows'
  <1> DEFINE a == req[r].a
             was == req[r].was
             will == [was EXCEPT !.archived = TRUE]
             fresh == {b \in AppId : ~Exists(b)}
             n == CHOOSE b \in fresh : \A c \in fresh : b <= c
             shown == CardOf(will, stageRow[a], decision[a])
             blank == CardOf(NewApplication, stageRow[n], "none")
  <1>1. /\ req[r].at = "loaded" /\ fresh # {}
        /\ Store(r, will) /\ NoteRace(r)
        /\ card' = [card EXCEPT ![a] = shown, ![n] = blank]
        /\ behind' = behind \ {a, n}
        /\ UNCHANGED <<stageRow, decision>>
    BY DEF CommitArchive, Loaded
  <1>2. /\ TypeOK /\ a \in AppId /\ was \in Application /\ Exists(a)
        /\ card \in [AppId -> Card \cup {NoCard}]
    BY <1>1, Starting DEF TypeOK
  <1>3. will \in Application
    BY <1>2 DEF Application
  <1>4. n \in fresh
    <2>1. fresh \subseteq Nat
      BY DEF AppId
    <2> QED
      BY <1>1, <2>1, Lowest
  <1> HIDE DEF will, n
  <1>5. n \in AppId /\ n # a /\ app[n] = NewApplication
    BY <1>2, <1>4 DEF LInv, Stages, Fresh
  <1>6. n \notin raced => decision[n] = "none"
    BY <1>5 DEF LInv, Stages, NewApplication
  <1>7. /\ \A b \in AppId \ {a} : app'[b] = app[b]
        /\ raced \subseteq raced'
        /\ a \notin raced' => app'[a] = will
    BY <1>1, <1>2, <1>3, StoreEffect
  <1>8. /\ card'[a] = shown /\ card'[n] = blank
        /\ \A b \in AppId \ {a, n} : card'[b] = card[b]
    BY <1>1, <1>2, <1>5
  <1>9. a \notin raced' =>
           card'[a] = CardOf(app'[a], stageRow'[a], decision'[a])
    BY <1>1, <1>7, <1>8
  <1>10. n \notin raced' =>
           card'[n] = CardOf(app'[n], stageRow'[n], decision'[n])
    BY <1>1, <1>5, <1>6, <1>7, <1>8
  <1>11. ASSUME NEW b \in AppId \ {a, n}, b \notin raced' \cup behind',
                card'[b] # NoCard
         PROVE  card'[b] = CardOf(app'[b], stageRow'[b], decision'[b])
    <2>1. b \notin raced \cup behind /\ card[b] # NoCard
      BY <1>1, <1>7, <1>8, <1>11
    <2>2. card[b] = CardOf(app[b], stageRow[b], decision[b])
      BY <2>1 DEF CardFollows
    <2> QED
      BY <1>1, <1>7, <1>8, <2>2
  <1> HIDE DEF a
  <1> QED
    BY <1>9, <1>10, <1>11 DEF CardFollows

LEMMA CommitShows ==
    ASSUME LifecycleAssumption, LInv, CardFollows, NEW r \in Request, Commit(r)
    PROVE  CardFollows'
  <1> DEFINE a == req[r].a
             was == req[r].was
  <1>1. req[r].at = "loaded"
    BY DEF Commit, CommitTransition, CommitSubmit, CommitReopen, CommitReset,
           CommitSave, CommitDecide, CommitStatus, CommitAttention, CommitMark,
           CommitArchive, Loaded
  <1>2. /\ TypeOK /\ a \in AppId /\ was \in Application
        /\ Fitting(was) /\ Guarded(req[r].op, was)
    BY <1>1, Starting
  <1>3. CASE CommitTransition(r)
    <2> DEFINE will == After(was, req[r].op)
    <2>1. /\ req[r].op \in TransitionName /\ Store(r, will) /\ NoteRace(r)
          /\ UNCHANGED <<stageRow, decision>>
          /\ LeaveCard(r) \/ Rebuild(r, will, stageRow[a], decision[a])
      BY <1>3 DEF CommitTransition, Loaded
    <2> HIDE DEF will
    <2>2. will \in Application
      BY <1>2, <2>1, TransitionFits DEF will
    <2> QED
      BY <1>2, <2>1, <2>2, CardCommit
  <1>4. CASE CommitSubmit(r)
    <2> DEFINE will == Changed(was, "initial_screening", "under_screening",
                               TRUE, TRUE)
    <2>1. /\ Store(r, will) /\ NoteRace(r) /\ UNCHANGED decision
          /\ stageRow' = [stageRow EXCEPT ![a]["initial_screening"].status = "new"]
          /\ Rebuild(r, will, stageRow'[a], decision[a])
      BY <1>4 DEF CommitSubmit, Changed
    <2>2. will \in Application
      BY <1>2, Submitting
    <2>3. \A b \in AppId \ {a} : stageRow'[b] = stageRow[b]
      BY <1>2, <2>1 DEF TypeOK
    <2> HIDE DEF will
    <2> QED
      BY <1>2, <2>1, <2>2, <2>3, CardCommit
  <1>5. CASE CommitReopen(r)
    <2> DEFINE will == Changed(was, "application", "in_progress", FALSE, FALSE)
    <2>1. /\ Store(r, will) /\ NoteRace(r) /\ UNCHANGED <<stageRow, decision>>
          /\ Rebuild(r, will, stageRow[a], decision[a])
      BY <1>5 DEF CommitReopen, Changed
    <2>2. will \in Application
      BY <1>2, Reopening
    <2> HIDE DEF will
    <2> QED
      BY <1>2, <2>1, <2>2, CardCommit
  <1>6. CASE CommitReset(r)
    <2> DEFINE will == [was EXCEPT !.state = "draft", !.submitted = FALSE,
                                   !.locked = FALSE]
    <2>1. /\ Store(r, will) /\ NoteRace(r) /\ LeaveCard(r)
          /\ UNCHANGED <<stageRow, decision>>
      BY <1>6 DEF CommitReset
    <2>2. will \in Application
      BY <1>2 DEF Application, ApplicationState
    <2> HIDE DEF will
    <2> QED
      BY <1>2, <2>1, <2>2, CardCommit
  <1>7. ASSUME NEW value \in Decision, CommitDecide(r, value)
        PROVE  CardFollows'
    <2> DEFINE will == [was EXCEPT !.state = "decision_made"]
    <2>1. /\ Store(r, will) /\ NoteRace(r) /\ UNCHANGED stageRow
          /\ decision' = [decision EXCEPT ![a] = value]
          /\ LeaveCard(r) \/ Rebuild(r, will, stageRow[a], decision'[a])
      BY <1>7 DEF CommitDecide
    <2>2. will \in Application
      BY <1>2 DEF Application, ApplicationState
    <2>3. \A b \in AppId \ {a} : decision'[b] = decision[b]
      BY <1>2, <2>1 DEF TypeOK
    <2> HIDE DEF will
    <2> QED
      BY <1>2, <2>1, <2>2, <2>3, CardCommit
  <1> QED
    BY <1>2, <1>3, <1>4, <1>5, <1>6, <1>7, SaveShows, MarkShows, ArchiveShows
       DEF Commit, CommitStatus, CommitAttention

LEMMA NextShows ==
    ASSUME LifecycleAssumption, LInv, CardFollows, [Next]_vars
    PROVE  CardFollows'
  <1> DEFINE Still == UNCHANGED <<rows, raced, behind>>
  <1>1. ASSUME Still PROVE CardFollows'
    BY <1>1 DEF CardFollows, rows
  <1>2. ASSUME NEW r \in Request, NEW a \in AppId,
               Candidate(r, a) \/ Commission(r, a) \/ AskAutoAdvance(r, a)
        PROVE  Still
    BY <1>2 DEF Candidate, Commission, AskSave, AskReset, AskSubmit,
                AskReopen, AskAdvance, AskInternal, AskApprove, AskDecide,
                AskMark, AskArchive, AskAutoAdvance, Load
  <1>3. ASSUME NEW r \in Request, Drop(r) PROVE Still
    BY <1>3 DEF Drop
  <1>4. CASE UNCHANGED vars
    BY <1>1, <1>4 DEF vars
  <1> HIDE DEF Still
  <1> QED
    BY <1>1, <1>2, <1>3, <1>4, CommitShows DEF Next

(* The card on the board shows the application, its marks and its decision *)
(* as they are, but after a route that leaves it alone, the first mark of  *)
(* a stage or overlapping requests (upsert_projection_for_application).    *)
THEOREM CardShowsApplication == Spec => []CardFollows
  <1>1. Init => CardFollows
    BY DEF Init, CardFollows
  <1>2. LInv /\ CardFollows /\ [Next]_vars => CardFollows'
    BY NextShows, LifecycleAssumption
  <1> QED
    BY <1>1, <1>2, Invariant, PTL DEF Spec
=============================================================================
