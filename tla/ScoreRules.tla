----------------------------- MODULE ScoreRules -----------------------------
(***************************************************************************)
(* The scores from 1 to 5 that section_score_service recommends to a       *)
(* reviewer, computed from a sheet: what the last analyses and the current *)
(* run's checks say of the five sections.                                  *)
(*                                                                         *)
(* Decimals are scaled integers, flags are 0 or 1, and a text is the       *)
(* counts that the heuristics take of it. The explanation that goes with   *)
(* the scores is left out, and the signals stored for a motivation letter  *)
(* that has been reset since.                                              *)
(***************************************************************************)
EXTENDS Integers, FiniteSets, FiniteSetsExt

CONSTANT Units  \* how many checks a run has

ASSUME UnitsAssumption == Units \in Nat \ {0}

\* SECTION_SCORE_CONFIGS
Keys ==
    [personal |-> {"data_completeness", "document_correctness",
                   "review_readiness"},
     test |-> {"leadership_potential", "profile_stability",
               "team_interaction"},
     motivation |-> {"motivation_level", "choice_awareness", "specificity"},
     path |-> {"initiative", "resilience", "reflection_growth"},
     achievements |-> {"achievement_level", "personal_contribution",
                       "confirmability"}]

Sections == DOMAIN Keys
AllKeys == UNION {Keys[s] : s \in Sections}

\* GROWTH_QUESTION_ORDER
PathQuestions == 5

\* What a sheet holds; the rules below say what the fields are.
Sheet ==
    [personal: [filled: 0..3, ended: 0..Units, manual: 0..Units,
                certificate: {"none", "open", "completed", "failed"}],
     test: [analysed: 0..1, initiative: Nat, collaboration: Nat, rest: Nat,
            answers: Nat, inconsistent: 0..1, desirable: 0..1],
     motivation: [terms: Nat, intrinsic: Nat, extrinsic: Nat, words: Nat,
                  choice: Nat, fit: Nat, evidence: Nat, structure: Nat,
                  digits: 0..1],
     path: [answers: 0..PathQuestions, spam: 0..PathQuestions, phrases: Nat,
            uniform: 0..PathQuestions, repetitive: 0..PathQuestions,
            evidence: 0..PathQuestions, signal: [Keys.path -> Nat],
            hits: [Keys.path -> Nat]],
     achievements: {a \in [impact: Nat, words: Nat, role: 0..1, year: 0..1,
                           links: Nat, checked: Nat, reachable: Nat] :
                       a.reachable =< a.checked}]

Clamp(x) == Max({1, Min({5, x})})

\* math.ceil(a / b)
Ceiling(a, b) == (a + b - 1) \div b

\* One point, and one more for every step that is reached.
Ladder(x, steps) == 1 + Cardinality({t \in steps : x >= t})

----------------------------------------------------------------------------
(* Personal: complete sections of three, the certificate's unit, how many  *)
(* checks have ended and how many of them ask for a human.                 *)

DocumentCorrectness(certificate) ==
    CASE certificate = "none" -> 3
      [] certificate = "completed" -> 5
      [] OTHER -> 1

ReviewReadiness(p) ==
    IF p.ended = Units
    THEN IF p.manual = 0 THEN 5 ELSE 3
    ELSE Clamp(Ceiling(p.ended * 4, Units))

PersonalScore(p) ==
    [data_completeness |-> Clamp(Ceiling(p.filled * 5, 3)),
     document_correctness |-> DocumentCorrectness(p.certificate),
     review_readiness |-> ReviewReadiness(p)]

----------------------------------------------------------------------------
(* Test: whether there is an analysis, the points of two of the five traits *)
(* and of the rest, the answers of forty questions, the profile's warnings. *)

TraitShare(raw, total) ==
    Clamp(Ceiling(raw * 5 * 5, IF total = 0 THEN 1 ELSE total))

TestScore(t) ==
    LET total == t.initiative + t.collaboration + t.rest
        Share(raw) == IF t.analysed = 0 THEN 3 ELSE TraitShare(raw, total)
    IN  [leadership_potential |-> Share(t.initiative),
         team_interaction |-> Share(t.collaboration),
         profile_stability |->
             Clamp(5 - (IF t.answers < 40 THEN 1 ELSE 0)
                     - t.inconsistent - t.desirable)]

----------------------------------------------------------------------------
(* Motivation: hits of the word lists in the letter. Densities are in      *)
(* thousandths.                                                            *)

\* round(a / b, 3)
Rounded(a, b) == (a * 1000 + b \div 2) \div b

Density(hits, full) == Min({1000, Rounded(hits, full)})

\* A ratio of 0 is taken for one that is missing.
IntrinsicRatio(m) ==
    IF m.intrinsic = 0 THEN 500
    ELSE Rounded(m.intrinsic, m.intrinsic + m.extrinsic + 1)

\* The weights are 0.65 and 0.35, the unit is 1 / 100000000.
MotivationLevel(m) ==
    Ladder(Density(m.terms, 4) * (65000 + 35 * IntrinsicRatio(m)),
           {4000001, 9000001, 16000001, 22000001})

\* 0.55 and 0.45, the unit is 1 / 100000
SemanticChoice(m) == 55 * Density(m.choice, 3) + 45 * Density(m.fit, 5)

\* (mutated: a short letter that names reasons gets one class more)
CombinedChoiceGenerous(m) ==
    LET plain == (42 * 100000 * Min({m.words, 220})) \div 220
                     + 58 * SemanticChoice(m)
    IN  IF SemanticChoice(m) >= 45000 /\ m.words < 90
        THEN Max({plain, 5600000}) ELSE plain

\* 0.42 for the length, 0.58 for the reasons, and no less than 0.52 for a
\* short letter that names reasons.
CombinedChoice(m) ==
    LET plain == (42 * 100000 * Min({m.words, 220})) \div 220
                     + 58 * SemanticChoice(m)
    IN  IF SemanticChoice(m) >= 45000 /\ m.words < 90
        THEN Max({plain, 5200000}) ELSE plain

ChoiceAwareness(m) ==
    Ladder(CombinedChoice(m), {2200001, 3800001, 5500001, 7200001})

Specificity(m) ==
    Ladder(Density(m.evidence, 4) + 50 * Min({m.structure, 3}) + 80 * m.digits,
           {26, 61, 121, 181})

\* Without a letter everything is in the middle.
MotivationScore(m) ==
    IF m.words = 0 THEN [k \in Keys.motivation |-> 3] ELSE
    [motivation_level |-> MotivationLevel(m),
     choice_awareness |-> ChoiceAwareness(m),
     specificity |-> Specificity(m)]

----------------------------------------------------------------------------
(* Path: of the answers (none before there is an analysis) how many are    *)
(* spam, how many spam phrases, answers of few words and answers of        *)
(* repeated sentences the spam check found, and how many answers hold      *)
(* evidence; of every trait the signal, in hundredths, and the distinct    *)
(* texts with one of its markers.                                          *)

\* _evaluate_growth_path_quality_gate: phrases are counted, not answers.
ManualFlag(p) ==
    \/ p.phrases >= 2
    \/ p.phrases >= 1 /\ p.spam >= 2
    \/ p.spam >= 3
    \/ p.uniform >= 2 /\ p.repetitive >= 2

\* (mutated: it takes three spam answers)
StrongNegativeLater(p) ==
    p.spam >= 3 \/ (ManualFlag(p) /\ p.spam = 1 /\ p.answers >= 2)

StrongNegative(p) ==
    p.spam >= 2 \/ (ManualFlag(p) /\ p.spam >= 1 /\ p.answers >= 2)

Contentful(p) ==
    /\ p.answers > 0
    /\ 10 * (p.answers - p.spam) >= 8 * p.answers
    /\ 10 * p.evidence >= 6 * p.answers

SignalScore(p, trait) ==
    IF p.answers = 0 THEN 3 ELSE Ladder(p.signal[trait], {20, 35, 55, 75})

\* At least two points, and one more below four when two texts show it.
Raised(p, trait) ==
    LET floor == Max({2, SignalScore(p, trait)})
    IN  IF p.hits[trait] >= 2 /\ floor < 4 THEN floor + 1 ELSE floor

TraitScore(p, trait) ==
    LET score == IF StrongNegative(p) THEN SignalScore(p, trait)
                 ELSE Raised(p, trait)
    IN  IF Contentful(p) THEN Max({3, score}) ELSE score

PathScore(p) == [trait \in Keys.path |-> TraitScore(p, trait)]

----------------------------------------------------------------------------
(* Achievements: impact words, length, whether there is a role and a year, *)
(* the links given, and of those checked by the run how many answer.       *)

AchievementLevel(a) ==
    IF a.impact >= 3 /\ a.words >= 100 THEN 5
    ELSE IF a.impact >= 2 \/ a.words >= 80 THEN 4
    ELSE IF a.impact >= 1 \/ a.words >= 50 THEN 3
    ELSE IF a.words >= 20 THEN 2
    ELSE 1

Contribution(a) ==
    IF a.role = 0 /\ a.impact = 0 THEN 1 ELSE Clamp(3 + a.role + a.year)

Confirmability(a) ==
    IF a.links >= 2 /\ a.reachable = a.checked /\ a.checked > 0 THEN 5
    ELSE IF a.links >= 1 /\ a.reachable > 0 THEN 4
    ELSE IF a.links >= 1 THEN 3
    ELSE IF a.year = 1 THEN 2
    ELSE 1

AchievementsScore(a) ==
    [achievement_level |-> AchievementLevel(a),
     personal_contribution |-> Contribution(a),
     confirmability |-> Confirmability(a)]

----------------------------------------------------------------------------
\* compute_recommended_scores
Recommended(sheet, section) ==
    CASE section = "personal" -> PersonalScore(sheet.personal)
      [] section = "test" -> TestScore(sheet.test)
      [] section = "motivation" -> MotivationScore(sheet.motivation)
      [] section = "path" -> PathScore(sheet.path)
      [] section = "achievements" -> AchievementsScore(sheet.achievements)

=============================================================================
