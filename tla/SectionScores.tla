---------------------------- MODULE SectionScores ----------------------------
(***************************************************************************)
(* The review desk: what a reviewer is shown for a section, the scores the *)
(* reviewers save over the recommendations, and the one total that the     *)
(* kanban card of the application carries.                                 *)
(*                                                                         *)
(* A save is a transaction: it reads the reviewer's rows and the sheet     *)
(* when it begins and writes when it is flushed, and only the columns that *)
(* it changes. updated_at is the start of the transaction that wrote the   *)
(* row last; `clock` counts the starts. A row is a record in the set rows  *)
(* (the unique key is application, reviewer and score_key).                *)
(*                                                                         *)
(* The sheet changes at any moment: a section saved and analysed again, a  *)
(* check that ends, a new run. Any stage may be scored. A reviewer's role, *)
(* the audit row's text and the explanation are left out.                  *)
(***************************************************************************)
EXTENDS ScoreRules, Functions

CONSTANTS
    Reviewers,
    Trio,       \* _SECTION_TRIO: the sections whose keys a review needs
    Forms,      \* the requests: a section and a score for each of some keys
    Sheets,     \* the sheets there can be
    Reviewed,   \* bound of the instance: those that get to a reviewer
    MaxSaves,   \* bound of the instance: saves that begin
    MaxOpen     \* bound of the instance: saves under way at once

ASSUME DeskAssumption ==
    /\ Trio \subseteq Sections /\ Trio # {}
    /\ \A f \in Forms : f.section \in Sections /\ Range(f.scores) \subseteq 1..5
    /\ Reviewed \subseteq Sheets /\ Sheets \subseteq Sheet
    /\ MaxSaves \in Nat /\ MaxOpen \in Nat

VARIABLES
    sheet,
    clock,
    rows,       \* section_review_scores
    saves,      \* saves that have begun and are not flushed
    audited,    \* what each reviewer's audit events say of each key (history)
    wrote,      \* the start of each one's last save that changed a required row
    overlapped  \* the reviewers who had two saves under way at once (history)

history == <<audited, wrote, overlapped>>
vars == <<sheet, clock, rows, saves, history>>

RowsOf(r) == {row \in rows : row.by = r}
RowsFor(r, keys) == {row \in RowsOf(r) : row.key \in keys}
Scored(r) == {row.key : row \in RowsOf(r)}
Score(r, key) == (CHOOSE row \in RowsOf(r) : row.key = key).score

----------------------------------------------------------------------------
(* What is shown.                                                          *)

\* get_section_scores: the reviewer's own score, else the recommendation.
Effective(r, section) ==
    LET recommended == Recommended(sheet, section)
    IN  [key \in Keys[section] |->
            IF key \in Scored(r) THEN Score(r, key) ELSE recommended[key]]

\* The mean of three, rounded.
Aggregate(section) ==
    LET recommended == Recommended(sheet, section)
        mean == (2 * MapThenSumSet(LAMBDA key : recommended[key],
                                   Keys[section]) + 3) \div 6
    IN  IF section = "path" /\ Contentful(sheet.path)
                            /\ ~StrongNegative(sheet.path)
        THEN Max({3, mean}) ELSE mean

Required == UNION {Keys[s] : s \in Trio}

Complete == {r \in Reviewers : Required \subseteq Scored(r)}

Total(r) ==
    MapThenSumSet(LAMBDA row : row.score, RowsFor(r, Required))
Latest(r) == Max({row.updated_at : row \in RowsFor(r, Required)})

\* application_review_total_score: whose total is on the card, if anyone's.
OnBoard ==
    LET complete == Complete
    IN  {r \in complete : \A q \in complete : Latest(q) =< Latest(r)}

----------------------------------------------------------------------------
(* The steps.                                                              *)

Init ==
    /\ sheet \in Sheets
    /\ clock = 0
    /\ rows = {} /\ saves = {}
    /\ audited = [r \in Reviewers |-> <<>>]
    /\ wrote = [r \in Reviewers |-> 0]
    /\ overlapped = {}

\* One section's part of the sheet.
Change(s) ==
    /\ \E section \in Sections :
         /\ s[section] # sheet[section]
         /\ \A other \in Sections \ {section} : s[other] = sheet[other]
    /\ sheet' = s
    /\ UNCHANGED <<clock, rows, saves, history>>

\* Keys of another section are passed over.
Applied(form) == Restrict(form.scores, DOMAIN form.scores \cap Keys[form.section])

\* save_section_scores up to the flush.
BeginSave(r, form) ==
    /\ clock < MaxSaves /\ Cardinality(saves) < MaxOpen
    /\ sheet \in Reviewed
    /\ clock' = clock + 1
    /\ saves' = saves \cup
         {[by |-> r, scores |-> Applied(form),
           recommended |-> Recommended(sheet, form.section),
           read |-> RowsFor(r, DOMAIN Applied(form)), at |-> clock']}
    /\ overlapped' = IF \E save \in saves : save.by = r
                     THEN overlapped \cup {r} ELSE overlapped
    /\ UNCHANGED <<sheet, rows, audited, wrote>>

\* (mutated: a row that is there is written when its recommendation changed)
ChangedAdviceOnly(save) ==
    {row \in save.read : row.recommended # save.recommended[row.key]}

Changed(save) ==
    {row \in save.read : \/ row.score # save.scores[row.key]
                         \/ row.recommended # save.recommended[row.key]}

New(save) == DOMAIN save.scores \ {row.key : row \in save.read}

\* The key is in the table by now.
Clash(save) == New(save) \cap Scored(save.by) # {}

\* A column keeps what is in the table unless the save changes what it read.
Column(read, value, kept) == IF read = value THEN kept ELSE value

Written(save) ==
    {[by |-> save.by, key |-> row.key,
      score |-> Column(row.score, save.scores[row.key],
                       Score(save.by, row.key)),
      recommended |->
        Column(row.recommended, save.recommended[row.key],
               (CHOOSE q \in RowsOf(save.by) : q.key = row.key).recommended),
      updated_at |-> save.at] : row \in Changed(save)}
    \cup
    {[by |-> save.by, key |-> key, score |-> save.scores[key],
      recommended |-> save.recommended[key], updated_at |-> save.at]
        : key \in New(save)}

Flush(save) ==
    LET written == Written(save)
        keys == {row.key : row \in written}
    IN  /\ ~Clash(save)
        /\ rows' = (rows \ RowsFor(save.by, keys)) \cup written
        /\ saves' = saves \ {save}
        /\ audited' = [audited EXCEPT ![save.by] =
                          [key \in DOMAIN @ \cup DOMAIN save.scores |->
                              IF key \in DOMAIN save.scores
                              THEN save.scores[key] ELSE @[key]]]
        /\ wrote' = IF keys \cap Required = {} THEN wrote
                    ELSE [wrote EXCEPT ![save.by] = save.at]
        /\ UNCHANGED <<sheet, clock, overlapped>>

\* uq_section_score: the whole save is rolled back.
Refused(save) ==
    /\ Clash(save)
    /\ saves' = saves \ {save}
    /\ UNCHANGED <<sheet, clock, rows, history>>

Next ==
    \/ \E s \in IF clock = 0 THEN Sheets ELSE Reviewed : Change(s)
    \/ \E r \in Reviewers, form \in Forms : BeginSave(r, form)
    \/ \E save \in saves : Flush(save)
    \/ \E save \in saves : Refused(save)

Spec == Init /\ [][Next]_vars

----------------------------------------------------------------------------
(* Properties.                                                             *)

(* The types; every recommendation, whatever the sheet, and every score     *)
(* shown is on the scale from 1 to 5.                                       *)
TypeOK ==
    /\ clock \in 0..MaxSaves
    /\ \A row \in rows : /\ row.by \in Reviewers /\ row.key \in AllKeys
                        /\ {row.score, row.recommended} \subseteq 1..5
                        /\ row.updated_at \in 1..clock
    /\ \A q, row \in rows : q.by = row.by /\ q.key = row.key => q = row
    /\ \A save \in saves : save.by \in Reviewers /\ save.at \in 1..clock
    /\ \A s \in Sections :
         /\ Range(Recommended(sheet, s)) \subseteq 1..5
         /\ Aggregate(s) \in 1..5

\* What counts for a key and what counts against it.
For ==
    [k \in AllKeys |->
        CASE k = "data_completeness" -> {"filled"}
          [] k = "review_readiness" -> {"ended"}
          [] k = "leadership_potential" -> {"initiative"}
          [] k = "team_interaction" -> {"collaboration"}
          [] k = "profile_stability" -> {"answers"}
          [] k = "motivation_level" -> {"terms", "intrinsic"}
          [] k = "choice_awareness" -> {"words", "choice", "fit"}
          [] k = "specificity" -> {"evidence", "structure", "digits"}
          [] k \in Keys.path -> {"evidence"}
          [] k = "achievement_level" -> {"impact", "words"}
          [] k = "personal_contribution" -> {"impact", "role", "year"}
          [] k = "confirmability" -> {"links", "reachable", "year"}
          [] OTHER -> {}]

Against ==
    [k \in AllKeys |->
        CASE k = "review_readiness" -> {"manual"}
          [] k = "leadership_potential" -> {"collaboration", "rest"}
          [] k = "team_interaction" -> {"initiative", "rest"}
          [] k = "profile_stability" -> {"inconsistent", "desirable"}
          [] k = "motivation_level" -> {"extrinsic"}
          [] k \in Keys.path -> {"spam", "phrases", "uniform", "repetitive"}
          [] k = "confirmability" -> {"checked"}
          [] OTHER -> {}]

\* Sheets of which the second is in nothing worse than the first: both of an
\* analysis, and without a check that ends by asking for a human.
NoWorse(section, key, a, b) ==
    /\ \A field \in For[key] : b[field] >= a[field]
    /\ \A field \in Against[key] : b[field] =< a[field]
    /\ section = "personal" =>
         /\ b.certificate \in {a.certificate, "completed"}
         /\ b.manual = 0 \/ b.ended = a.ended
    /\ section = "test" => a.analysed = b.analysed
    /\ section = "motivation" => a.words > 0 /\ b.words > 0
    /\ section = "path" =>
         /\ a.answers = b.answers
         /\ b.signal[key] >= a.signal[key] /\ b.hits[key] >= a.hits[key]

(* Better material is never recommended a lower score: the thresholds, the  *)
(* floors, the extra points and the allowance for a short letter do not     *)
(* overlap so that a candidate loses by adding something                    *)
(* (compute_recommended_scores, motivation_subscores_from_signals).         *)
BetterNeverScoresLower ==
    [][\A s \in Sections : sheet'[s] # sheet[s] =>
         LET old == Recommended(sheet, s)
             new == Recommended(sheet', s)
         IN  \A key \in Keys[s] :
               NoWorse(s, key, sheet[s], sheet'[s]) => new[key] >= old[key]
      ]_vars

(* What two spam answers deny is not given back by another rule: the path   *)
(* is then worth its signals, whatever the rest of the answers holds        *)
(* (_compute_path_scores).                                                  *)
SpamIsNotLifted ==
    sheet.path.spam >= 2 =>
        \A trait \in Keys.path :
            PathScore(sheet.path)[trait] = SignalScore(sheet.path, trait)

(* A reviewer is shown the scores that the audit says were saved last, and  *)
(* the recommendation where none was, although a save writes only what      *)
(* differs from the rows it read, others score meanwhile, and the           *)
(* recommendations change. (Two saves of one reviewer under way at once can *)
(* leave a mixture of both.)                                                *)
LastSaveStands ==
    /\ \A r \in Reviewers : Scored(r) = DOMAIN audited[r]
    /\ \A s \in Sections :
         LET recommended == Recommended(sheet, s)
         IN  \A r \in Reviewers \ overlapped :
               Effective(r, s) = [key \in Keys[s] |->
                   IF key \in DOMAIN audited[r] THEN audited[r][key]
                   ELSE recommended[key]]

(* The total on the card is that of a reviewer who has saved every required *)
(* score, and of those of the one whose last change began last; if anyone   *)
(* has saved them all there is one (application_review_total_score).        *)
BoardShowsLatest ==
    LET finished == {r \in Reviewers : Required \subseteq DOMAIN audited[r]}
    IN  /\ OnBoard \subseteq finished
        /\ finished # {} => Cardinality(OnBoard) = 1
        /\ \A r \in OnBoard \ overlapped, q \in finished \ overlapped :
             wrote[q] =< wrote[r]

(* Scores stand: for the reviewer who saved them and on the board; and spam *)
(* is not lifted, whatever is recommended beside them.                      *)
ReviewStands ==
    TypeOK /\ LastSaveStands /\ BoardShowsLatest /\ SpamIsNotLifted

=============================================================================
