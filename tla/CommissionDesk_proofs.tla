------------------------ MODULE CommissionDesk_proofs -------------------------
(* Theorems about the review desk, for any reviewers, requests, sheets and   *)
(* verdicts: that scores stand (SectionScores), and that what else the       *)
(* commission enters and asks for stands (CommissionDesk).                   *)
EXTENDS CommissionDesk, FiniteSetTheorems, WellFoundedInduction, TLAPS

-----------------------------------------------------------------------------
(* The rules: every score that is recommended is on the scale.             *)

LEMMA MaxOfTwo ==
    ASSUME NEW a \in Int, NEW b \in Int
    PROVE  Max({a, b}) = IF a >= b THEN a ELSE b
BY DEF Max

LEMMA MinOfTwo ==
    ASSUME NEW a \in Int, NEW b \in Int
    PROVE  Min({a, b}) = IF a =< b THEN a ELSE b
BY DEF Min

LEMMA ClampOnScale ==
    ASSUME NEW x \in Int
    PROVE  Clamp(x) \in 1..5
BY MaxOfTwo, MinOfTwo DEF Clamp

\* Adding an element adds at most one.
LEMMA OneMore ==
    ASSUME NEW S, IsFiniteSet(S), NEW x, NEW T, T = S \cup {x}
    PROVE  /\ IsFiniteSet(T)
           /\ Cardinality(T) \in Nat /\ Cardinality(S) \in Nat
           /\ Cardinality(T) =< Cardinality(S) + 1
<1>1. Cardinality(S) \in Nat
    BY FS_CardinalityType
<1>2. /\ IsFiniteSet(S \cup {x})
      /\ Cardinality(S \cup {x}) = IF x \in S THEN Cardinality(S)
                                  ELSE Cardinality(S) + 1
    BY FS_AddElement
<1>. QED  BY <1>1, <1>2

\* A ladder of four steps has five classes (_path_score_from_signal).
LEMMA LadderOnScale ==
    ASSUME NEW x, NEW a, NEW b, NEW c, NEW d
    PROVE  Ladder(x, {a, b, c, d}) \in 1..5
<1>. DEFINE one == {a}
            two == {a, b}
            three == {a, b, c}
            four == {a, b, c, d}
            T == {t \in four : x >= t}
<1>1. IsFiniteSet(one) /\ Cardinality(one) = 1
    BY FS_Singleton
<1>2. /\ two = one \cup {b} /\ three = two \cup {c} /\ four = three \cup {d}
    OBVIOUS
<1>3. Ladder(x, four) = 1 + Cardinality(T)
    BY DEF Ladder
<1>. HIDE DEF one, two, three, four
<1>4. IsFiniteSet(two) /\ Cardinality(two) \in Nat /\ Cardinality(two) =< 2
    <2>1. /\ IsFiniteSet(two) /\ Cardinality(two) \in Nat
          /\ Cardinality(two) =< Cardinality(one) + 1
        BY <1>1, <1>2, OneMore, Zenon
    <2>. QED  BY <2>1, <1>1
<1>5. IsFiniteSet(three) /\ Cardinality(three) \in Nat /\ Cardinality(three) =< 3
    <2>1. /\ IsFiniteSet(three) /\ Cardinality(three) \in Nat
          /\ Cardinality(three) =< Cardinality(two) + 1
        BY <1>4, <1>2, OneMore, Zenon
    <2>. QED  BY <2>1, <1>4
<1>6. IsFiniteSet(four) /\ Cardinality(four) \in Nat /\ Cardinality(four) =< 4
    <2>1. /\ IsFiniteSet(four) /\ Cardinality(four) \in Nat
          /\ Cardinality(four) =< Cardinality(three) + 1
        BY <1>5, <1>2, OneMore, Zenon
    <2>. QED  BY <2>1, <1>5
<1>7. IsFiniteSet(T) /\ Cardinality(T) =< Cardinality(four)
    BY <1>6, FS_Subset
<1>8. Cardinality(T) \in Nat
    BY <1>7, FS_CardinalityType
<1>9. Ladder(x, four) \in 1..5
    BY <1>3, <1>6, <1>7, <1>8
<1>. QED  BY <1>9 DEF four

LEMMA PersonalScale ==
    ASSUME NEW s \in Sheet
    PROVE  PersonalScore(s.personal) \in [Keys["personal"] -> 1..5]
<1>. DEFINE p == s.personal
<1>1. /\ p.filled \in 0..3 /\ p.ended \in 0..Units
      /\ p.certificate \in {"none", "open", "completed", "failed"}
    BY DEF Sheet
<1>. HIDE DEF p
<1>2. Clamp(Ceiling(p.filled * 5, 3)) \in 1..5
    BY <1>1, ClampOnScale DEF Ceiling
<1>3. DocumentCorrectness(p.certificate) \in 1..5
    BY <1>1 DEF DocumentCorrectness
<1>4. ReviewReadiness(p) \in 1..5
    <2>1. Ceiling(p.ended * 4, Units) \in Int
        BY <1>1, UnitsAssumption DEF Ceiling
    <2>. QED  BY <2>1, ClampOnScale DEF ReviewReadiness
<1>5. Keys["personal"] = {"data_completeness", "document_correctness",
                          "review_readiness"}
    BY DEF Keys
<1>. QED  BY <1>2, <1>3, <1>4, <1>5 DEF PersonalScore, p

LEMMA TestScale ==
    ASSUME NEW s \in Sheet
    PROVE  TestScore(s.test) \in [Keys["test"] -> 1..5]
<1>. DEFINE t == s.test
            total == t.initiative + t.collaboration + t.rest
            Share(raw) == IF t.analysed = 0 THEN 3 ELSE TraitShare(raw, total)
<1>1. /\ t.initiative \in Nat /\ t.collaboration \in Nat /\ t.rest \in Nat
      /\ t.answers \in Nat /\ t.inconsistent \in 0..1 /\ t.desirable \in 0..1
    BY DEF Sheet
<1>. HIDE DEF t
<1>2. ASSUME NEW raw \in Nat
      PROVE  Share(raw) \in 1..5
    <2>. DEFINE all == IF total = 0 THEN 1 ELSE total
    <2>1. all \in Nat \ {0}
        BY <1>1
    <2>. HIDE DEF all
    <2>2. Ceiling(raw * 5 * 5, all) \in Int
        BY <2>1 DEF Ceiling
    <2>. QED  BY <2>2, ClampOnScale DEF TraitShare, all
<1>3. Clamp(5 - (IF t.answers < 40 THEN 1 ELSE 0)
              - t.inconsistent - t.desirable) \in 1..5
    BY <1>1, ClampOnScale
<1>4. Keys["test"] = {"leadership_potential", "profile_stability",
                      "team_interaction"}
    BY DEF Keys
<1>5. /\ Share(t.initiative) \in 1..5 /\ Share(t.collaboration) \in 1..5
    BY <1>1, <1>2
<1>6. TestScore(t) =
        [leadership_potential |-> Share(t.initiative),
         team_interaction |-> Share(t.collaboration),
         profile_stability |->
             Clamp(5 - (IF t.answers < 40 THEN 1 ELSE 0)
                     - t.inconsistent - t.desirable)]
    BY DEF TestScore
<1>. HIDE DEF Share
<1>. QED  BY <1>3, <1>4, <1>5, <1>6 DEF t

LEMMA MotivationScale ==
    ASSUME NEW s \in Sheet
    PROVE  MotivationScore(s.motivation) \in [Keys["motivation"] -> 1..5]
<1>. DEFINE m == s.motivation
<1>1. /\ MotivationLevel(m) \in 1..5 /\ ChoiceAwareness(m) \in 1..5
      /\ Specificity(m) \in 1..5
    <2>. DEFINE l1 == 4000001    l2 == 9000001    l3 == 16000001   l4 == 22000001
                c1 == 2200001    c2 == 3800001    c3 == 5500001    c4 == 7200001
                level == Density(m.terms, 4) * (65000 + 35 * IntrinsicRatio(m))
                plain == Density(m.evidence, 4) + 50 * Min({m.structure, 3})
                             + 80 * m.digits
    <2>1. Ladder(level, {l1, l2, l3, l4}) \in 1..5
        <3>. HIDE DEF l1, l2, l3, l4, level
        <3>. QED  BY LadderOnScale, Zenon
    <2>2. Ladder(CombinedChoice(m), {c1, c2, c3, c4}) \in 1..5
        <3>. HIDE DEF c1, c2, c3, c4
        <3>. QED  BY LadderOnScale, Zenon
    <2>3. Ladder(plain, {26, 61, 121, 181}) \in 1..5
        <3>. HIDE DEF plain
        <3>. QED  BY LadderOnScale, Zenon
    <2>. HIDE DEF m
    <2>4. MotivationLevel(m) \in 1..5
        BY <2>1, SMT DEF MotivationLevel
    <2>5. ChoiceAwareness(m) \in 1..5
        BY <2>2, SMT DEF ChoiceAwareness
    <2>6. Specificity(m) \in 1..5
        BY <2>3, SMT DEF Specificity
    <2>. QED  BY <2>4, <2>5, <2>6
<1>2. Keys["motivation"] = {"motivation_level", "choice_awareness", "specificity"}
    BY DEF Keys
<1>. HIDE DEF m
<1>3. MotivationScore(m) =
        IF m.words = 0 THEN [k \in Keys["motivation"] |-> 3] ELSE
        [motivation_level |-> MotivationLevel(m),
         choice_awareness |-> ChoiceAwareness(m),
         specificity |-> Specificity(m)]
    BY DEF MotivationScore
<1>. QED  BY <1>1, <1>2, <1>3 DEF m

LEMMA SignalOnScale ==
    ASSUME NEW p, NEW trait
    PROVE  SignalScore(p, trait) \in 1..5
<1>1. Ladder(p.signal[trait], {20, 35, 55, 75}) \in 1..5
    BY LadderOnScale
<1>. QED  BY <1>1 DEF SignalScore

LEMMA PathScale ==
    ASSUME NEW s \in Sheet
    PROVE  PathScore(s.path) \in [Keys["path"] -> 1..5]
<1>. DEFINE p == s.path
<1>1. ASSUME NEW trait \in Keys.path
      PROVE  TraitScore(p, trait) \in 1..5
    <2>. DEFINE low == SignalScore(p, trait)
                up == Raised(p, trait)
                score == IF StrongNegative(p) THEN low ELSE up
    <2>1. low \in 1..5
        BY SignalOnScale
    <2>2. up \in 1..5
        <3>. HIDE DEF p
        <3>. QED  BY <2>1, MaxOfTwo DEF Raised
    <2>3. TraitScore(p, trait) = IF Contentful(p) THEN Max({3, score}) ELSE score
        BY DEF TraitScore
    <2>. HIDE DEF p, low, up
    <2>4. score \in 1..5
        BY <2>1, <2>2
    <2>. HIDE DEF score
    <2>5. Max({3, score}) \in 1..5
        BY <2>4, MaxOfTwo
    <2>. QED  BY <2>3, <2>4, <2>5
<1>. HIDE DEF p
<1>. QED  BY <1>1 DEF PathScore, p

LEMMA AchievementsScale ==
    ASSUME NEW s \in Sheet
    PROVE  AchievementsScore(s.achievements) \in [Keys["achievements"] -> 1..5]
<1>. DEFINE a == s.achievements
<1>1. a.role \in 0..1 /\ a.year \in 0..1
    BY DEF Sheet
<1>. HIDE DEF a
<1>2. AchievementLevel(a) \in 1..5 /\ Confirmability(a) \in 1..5
    BY DEF AchievementLevel, Confirmability
<1>3. Contribution(a) \in 1..5
    BY <1>1, ClampOnScale DEF Contribution
<1>4. Keys["achievements"] = {"achievement_level", "personal_contribution",
                              "confirmability"}
    BY DEF Keys
<1>. QED  BY <1>2, <1>3, <1>4 DEF AchievementsScore, a

\* Every recommendation is on the scale, whatever the sheet
\* (compute_recommended_scores).
LEMMA RecommendedOnScale ==
    ASSUME NEW s \in Sheet, NEW section \in Sections
    PROVE  Recommended(s, section) \in [Keys[section] -> 1..5]
<1>1. section \in {"personal", "test", "motivation", "path", "achievements"}
    BY DEF Sections, Keys
<1>2. CASE section = "personal"
    BY <1>2, PersonalScale DEF Recommended
<1>3. CASE section = "test"
    BY <1>3, TestScale DEF Recommended
<1>4. CASE section = "motivation"
    BY <1>4, MotivationScale DEF Recommended
<1>5. CASE section = "path"
    BY <1>5, PathScale DEF Recommended
<1>6. CASE section = "achievements"
    BY <1>6, AchievementsScale DEF Recommended
<1>. QED  BY <1>1, <1>2, <1>3, <1>4, <1>5, <1>6

\* A section has three keys.
LEMMA ThreeKeys ==
    ASSUME NEW section \in Sections
    PROVE  \E a, b, c : a # b /\ b # c /\ a # c /\ Keys[section] = {a, b, c}
<1>1. section \in {"personal", "test", "motivation", "path", "achievements"}
    BY DEF Sections, Keys
<1>2. CASE section = "personal"
    <2>1. Keys[section] = {"data_completeness", "document_correctness",
                           "review_readiness"}
        BY <1>2 DEF Keys
    <2>. QED  BY <2>1
<1>3. CASE section = "test"
    <2>1. Keys[section] = {"leadership_potential", "profile_stability",
                           "team_interaction"}
        BY <1>3 DEF Keys
    <2>. QED  BY <2>1
<1>4. CASE section = "motivation"
    <2>1. Keys[section] = {"motivation_level", "choice_awareness", "specificity"}
        BY <1>4 DEF Keys
    <2>. QED  BY <2>1
<1>5. CASE section = "path"
    <2>1. Keys[section] = {"initiative", "resilience", "reflection_growth"}
        BY <1>5 DEF Keys
    <2>. QED  BY <2>1
<1>6. CASE section = "achievements"
    <2>1. Keys[section] = {"achievement_level", "personal_contribution",
                           "confirmability"}
        BY <1>6 DEF Keys
    <2>. QED  BY <2>1
<1>. QED  BY <1>1, <1>2, <1>3, <1>4, <1>5, <1>6

\* The rounded mean of three recommendations is on the scale
\* (get_section_scores).
LEMMA AggregateOnScale ==
    ASSUME sheet \in Sheet, NEW section \in Sections
    PROVE  Aggregate(section) \in 1..5
<1>. DEFINE f == Recommended(sheet, section)
            mean == (2 * MapThenSumSet(LAMBDA key : f[key], Keys[section]) + 3) \div 6
<1>1. PICK a, b, c : a # b /\ b # c /\ a # c /\ Keys[section] = {a, b, c}
    BY ThreeKeys
<1>2. f[a] \in 1..5 /\ f[b] \in 1..5 /\ f[c] \in 1..5
    BY <1>1, RecommendedOnScale
<1>3. Aggregate(section) = IF section = "path" /\ Contentful(sheet.path)
                                /\ ~StrongNegative(sheet.path)
                           THEN Max({3, mean}) ELSE mean
    BY DEF Aggregate
<1>. HIDE DEF f
<1>4. MapThenSumSet(LAMBDA key : f[key], Keys[section]) = f[a] + f[b] + f[c]
    <2>0. f[a] \in Int /\ f[b] \in Int /\ f[c] \in Int
        BY <1>2
    <2>. DEFINE S == {a, b, c}
                pick(s) == CHOOSE x \in s : TRUE
                val(x, s) == IF x \in s THEN f[x] ELSE 0
                body(h) == [s \in SUBSET S |-> IF s = {} THEN 0
                              ELSE f[pick(s)] + h[s \ {pick(s)}]]
                iter == CHOOSE h : h = body(h)
                g == [s \in SUBSET S |-> val(a, s) + val(b, s) + val(c, s)]
    <2>1. MapThenSumSet(LAMBDA key : f[key], S) = iter[S]
        BY DEF MapThenSumSet, MapThenFoldSet
    <2>2. \A s : s # {} => pick(s) \in s
        OBVIOUS
    <2>3. g = body(g)
        <3>1. ASSUME NEW s \in SUBSET S
              PROVE  g[s] = IF s = {} THEN 0 ELSE f[pick(s)] + g[s \ {pick(s)}]
            <4>. DEFINE x == pick(s)
            <4>1. CASE s = {}
                BY <4>1
            <4>2. CASE s # {}
                <5>1. x \in s /\ x \in S /\ s \ {x} \in SUBSET S
                    BY <2>2, <4>2
                <5>. HIDE DEF x
                <5>2. g[s] = f[x] + g[s \ {x}]
                    BY <5>1, <2>0, <1>1
                <5>. QED  BY <5>2, <4>2 DEF x
            <4>. QED  BY <4>1, <4>2
        <3>. HIDE DEF g, pick
        <3>2. g = [s \in SUBSET S |-> g[s]]
            BY DEF g
        <3>. QED  BY <3>1, <3>2
    <2>4. iter = body(iter)
        <3>. HIDE DEF body, g
        <3>. QED  BY <2>3
    <2>. HIDE DEF iter, g, pick
    <2>5. \A s \in SUBSET S : iter[s] = IF s = {} THEN 0
                                        ELSE f[pick(s)] + iter[s \ {pick(s)}]
        BY <2>4
    <2>6. \A x \in S : iter[{x}] = f[x]
        <3>1. ASSUME NEW x \in S
              PROVE  iter[{x}] = f[x]
            <4>1. pick({x}) = x /\ {x} \ {x} = {} /\ iter[{}] = 0
                BY <2>2, <2>5
            <4>2. iter[{x}] = f[pick({x})] + iter[{x} \ {pick({x})}]
                BY <2>5
            <4>3. f[x] \in Int
                BY <2>0
            <4>4. {x} \ {pick({x})} = {}
                BY <4>1
            <4>5. iter[{x}] = f[x] + iter[{}]
                BY <4>1, <4>2, <4>4
            <4>. QED  BY <4>1, <4>3, <4>5
        <3>. QED  BY <3>1
    <2>7. \A x, y \in S : x # y => iter[{x, y}] = f[x] + f[y]
        <3>1. ASSUME NEW x \in S, NEW y \in S, x # y
              PROVE  iter[{x, y}] = f[x] + f[y]
            <4>1. pick({x, y}) \in {x, y} /\ {x, y} \ {x} = {y} /\ {x, y} \ {y} = {x}
                BY <2>2, <3>1
            <4>2. iter[{x, y}] = f[pick({x, y})] + iter[{x, y} \ {pick({x, y})}]
                BY <2>5
            <4>3. CASE pick({x, y}) = x
                <5>1. iter[{x, y}] = f[x] + iter[{y}]
                    BY <4>1, <4>2, <4>3
                <5>. QED  BY <5>1, <2>6
            <4>4. CASE pick({x, y}) = y
                <5>1. iter[{x, y}] = f[y] + iter[{x}]
                    BY <4>1, <4>2, <4>4
                <5>2. f[x] \in Int /\ f[y] \in Int
                    BY <2>0
                <5>3. iter[{x}] = f[x]
                    BY <2>6
                <5>. QED  BY <5>1, <5>2, <5>3
            <4>. QED  BY <4>1, <4>3, <4>4
        <3>. QED  BY <3>1
    <2>8. iter[S] = f[a] + f[b] + f[c]
        <3>1. pick(S) \in {a, b, c}
            BY <2>2
        <3>2. S \ {a} = {b, c} /\ S \ {b} = {a, c} /\ S \ {c} = {a, b}
            BY <1>1
        <3>3. iter[S] = f[pick(S)] + iter[S \ {pick(S)}]
            BY <2>5
        <3>4. CASE pick(S) = a
            <4>1. iter[S] = f[a] + iter[{b, c}]
                BY <3>2, <3>3, <3>4
            <4>2. iter[{b, c}] = f[b] + f[c]
                BY <2>7, <1>1
            <4>. QED  BY <4>1, <4>2, <2>0
        <3>5. CASE pick(S) = b
            <4>1. iter[S] = f[b] + iter[{a, c}]
                BY <3>2, <3>3, <3>5
            <4>2. iter[{a, c}] = f[a] + f[c]
                BY <2>7, <1>1
            <4>. QED  BY <4>1, <4>2, <2>0
        <3>6. CASE pick(S) = c
            <4>1. iter[S] = f[c] + iter[{a, b}]
                BY <3>2, <3>3, <3>6
            <4>2. iter[{a, b}] = f[a] + f[b]
                BY <2>7, <1>1
            <4>. QED  BY <4>1, <4>2, <2>0
        <3>. QED  BY <3>1, <3>4, <3>5, <3>6
    <2>. QED  BY <2>1, <2>8, <1>1
<1>5. mean \in 1..5
    BY <1>2, <1>4
<1>. HIDE DEF mean
<1>. QED  BY <1>3, <1>5, MaxOfTwo

\* Two spam answers out of five leave too little for the floor of contentful
\* answers, and no trait is raised (_compute_path_scores).
LEMMA SpamStays ==
    ASSUME NEW s \in Sheet, s.path.spam >= 2, NEW trait \in Keys.path
    PROVE  PathScore(s.path)[trait] = SignalScore(s.path, trait)
<1>. DEFINE p == s.path
<1>1. p.answers \in 0..5 /\ p.spam \in 0..5 /\ p.spam >= 2
    BY DEF Sheet, PathQuestions
<1>. HIDE DEF p
<1>2. StrongNegative(p) /\ ~Contentful(p)
    BY <1>1 DEF StrongNegative, Contentful
<1>3. TraitScore(p, trait) = SignalScore(p, trait)
    BY <1>2 DEF TraitScore
<1>. QED  BY <1>3 DEF PathScore, p

-----------------------------------------------------------------------------
(* The invariant of the scores.                                            *)

ScoreRow == [by: Reviewers, key: AllKeys, score: 1..5, recommended: 1..5,
             updated_at: Nat]

OncePerKey(some) == \A q, row \in some : q.key = row.key => q = row

\* A save has scores on the scale for keys that there are, and has read one
\* row for a key, of keys that still have one. Nothing was written at its time.
SaveOK(save) ==
    /\ save.by \in Reviewers /\ save.at \in 1..clock
    /\ save.scores \in [DOMAIN save.scores -> 1..5]
    /\ DOMAIN save.scores \subseteq AllKeys
    /\ \A key \in DOMAIN save.scores : save.recommended[key] \in 1..5
    /\ save.read \subseteq ScoreRow /\ OncePerKey(save.read)
    /\ \A row \in save.read : /\ row.by = save.by
                              /\ row.key \in DOMAIN save.scores
                              /\ row.key \in Scored(save.by)
    /\ \A row \in rows : row.updated_at # save.at

\* Of a reviewer whose saves do not overlap, the save under way knows what is
\* in the table, which is what was saved last.
Calm(r) ==
    /\ \A s, t \in saves : s.by = r /\ t.by = r => s = t
    /\ \A s \in saves : s.by = r =>
         /\ s.read = RowsFor(r, DOMAIN s.scores)
         /\ \A row \in RowsOf(r) : row.updated_at < s.at
    /\ \A row \in RowsOf(r) : row.score = audited[r][row.key]
    /\ \A row \in RowsFor(r, Required) : row.updated_at =< wrote[r]
    /\ RowsFor(r, Required) # {} =>
         \E row \in RowsFor(r, Required) : row.updated_at = wrote[r]

\* A time belongs to one save, and so to one reviewer.
ScoresInv ==
    /\ sheet \in Sheets /\ clock \in 0..MaxSaves
    /\ rows \subseteq ScoreRow
    /\ \A row \in rows : row.updated_at \in 1..clock
    /\ \A q, row \in rows : q.by = row.by /\ q.key = row.key => q = row
    /\ \A q, row \in rows : q.updated_at = row.updated_at => q.by = row.by
    /\ \A save \in saves : SaveOK(save)
    /\ \A s, t \in saves : s.at = t.at => s = t
    /\ audited = [r \in Reviewers |-> audited[r]]
    /\ \A r \in Reviewers : DOMAIN audited[r] = Scored(r)
    /\ wrote \in [Reviewers -> Nat]
    /\ \A r \in Reviewers \ overlapped : Calm(r)

LEMMA ScoresInit ==
    ASSUME Init
    PROVE  ScoresInv
<1>. USE DEF Init
<1>1. sheet \in Sheets /\ clock \in 0..MaxSaves
    BY DeskAssumption
<1>2. \A r \in Reviewers : RowsOf(r) = {} /\ Scored(r) = {} /\ audited[r] = <<>>
    BY DEF RowsOf, Scored
<1>3. \A r \in Reviewers : DOMAIN audited[r] = Scored(r)
    BY <1>2
<1>4. \A r \in Reviewers : Calm(r)
    BY <1>2 DEF Calm, RowsFor
<1>. QED  BY <1>1, <1>3, <1>4 DEF ScoresInv

\* A transaction of another kind only counts the clock on.
LEMMA ScoresOtherwise ==
    ASSUME ScoresInv, clock' \in 0..MaxSaves, clock' >= clock,
           sheet' \in Sheets, UNCHANGED <<rows, saves, history>>
    PROVE  ScoresInv'
<1>1. clock \in Nat /\ 1..clock \subseteq 1..clock'
    BY DEF ScoresInv
<1>2. \A r : RowsOf(r)' = RowsOf(r) /\ Scored(r)' = Scored(r)
    BY DEF RowsOf, Scored, history
<1>3. \A r, keys : RowsFor(r, keys)' = RowsFor(r, keys)
    BY <1>2 DEF RowsFor
<1>4. \A save \in saves' : SaveOK(save)'
    BY <1>1, <1>2 DEF ScoresInv, SaveOK
<1>5. \A r \in Reviewers \ overlapped' : Calm(r)'
    BY <1>2, <1>3 DEF ScoresInv, Calm, history
<1>6. \A row \in rows' : row.updated_at \in 1..clock'
    BY <1>1 DEF ScoresInv
<1>. QED  BY <1>2, <1>4, <1>5, <1>6 DEF ScoresInv, history

\* The row of a key is the one that is found.
LEMMA FoundRow ==
    ASSUME ScoresInv, NEW row \in rows
    PROVE  /\ (CHOOSE q \in RowsOf(row.by) : q.key = row.key) = row
           /\ Score(row.by, row.key) = row.score
<1>1. row \in RowsOf(row.by)
    BY DEF RowsOf
<1>2. \A q \in RowsOf(row.by) : q.key = row.key => q = row
    BY DEF RowsOf, ScoresInv
<1>3. (CHOOSE q \in RowsOf(row.by) : q.key = row.key) = row
    BY <1>1, <1>2
<1>. QED  BY <1>3 DEF Score

LEMMA BeginSaveHolds ==
    ASSUME ScoresInv, NEW r \in Reviewers, NEW form \in Forms, BeginSave(r, form)
    PROVE  ScoresInv'
<1>. DEFINE scores == Applied(form)
<1>0. PICK save :
        save = [by |-> r, scores |-> scores,
                recommended |-> Recommended(sheet, form.section),
                read |-> RowsFor(r, DOMAIN scores), at |-> clock + 1]
    OBVIOUS
<1>. /\ save.by = r /\ save.scores = scores /\ save.at = clock + 1
     /\ save.recommended = Recommended(sheet, form.section)
     /\ save.read = RowsFor(r, DOMAIN scores)
    BY <1>0
<1>1. /\ clock' = clock + 1 /\ clock' \in 0..MaxSaves /\ clock \in Nat
      /\ saves' = saves \cup {save}
      /\ UNCHANGED <<sheet, rows, audited, wrote>>
    BY <1>0, DeskAssumption DEF BeginSave, ScoresInv
<1>2. /\ overlapped \subseteq overlapped'
      /\ r \notin overlapped' => \A s \in saves : s.by # r
    BY DEF BeginSave
<1>3. 1..clock \subseteq 1..clock' /\ clock + 1 \in 1..clock'
    BY <1>1
<1>4. \A q : RowsOf(q)' = RowsOf(q) /\ Scored(q)' = Scored(q)
    BY <1>1 DEF RowsOf, Scored
<1>5. \A q, keys : RowsFor(q, keys)' = RowsFor(q, keys)
    BY <1>4 DEF RowsFor
<1>6. /\ form.section \in Sections
      /\ DOMAIN scores = DOMAIN form.scores \cap Keys[form.section]
      /\ scores \in [DOMAIN scores -> 1..5]
    <2>1. scores = [x \in DOMAIN form.scores \cap Keys[form.section] |->
                       form.scores[x]]
        BY DEF Applied, Restrict
    <2>2. \A x \in DOMAIN form.scores : form.scores[x] \in 1..5
        BY DeskAssumption DEF Range
    <2>3. form.section \in Sections
        BY DeskAssumption
    <2>. HIDE DEF scores
    <2>. QED  BY <2>1, <2>2, <2>3
<1>7. DOMAIN scores \subseteq AllKeys
    BY <1>6 DEF AllKeys
<1>8. \A key \in DOMAIN scores : save.recommended[key] \in 1..5
    <2>1. Recommended(sheet, form.section) \in [Keys[form.section] -> 1..5]
        BY <1>6, RecommendedOnScale, DeskAssumption DEF ScoresInv
    <2>. QED  BY <2>1, <1>6
<1>. HIDE DEF scores
<1>9. SaveOK(save)'
    <2>1. save.read \subseteq rows
        BY DEF RowsFor, RowsOf
    <2>2. \A row \in save.read : /\ row.by = r /\ row.key \in DOMAIN scores
                               /\ row.key \in Scored(r)
        BY DEF RowsFor, RowsOf, Scored
    <2>3. save.read \subseteq ScoreRow /\ OncePerKey(save.read)
        BY <2>1, <2>2 DEF ScoresInv, OncePerKey
    <2>4. \A row \in rows : row.updated_at # clock + 1
        BY <1>1 DEF ScoresInv
    <2>5. rows' = rows
        BY <1>1
    <2>6. \A row \in save.read : /\ row.by = save.by
                                 /\ row.key \in DOMAIN save.scores
                                 /\ (row.key \in Scored(save.by))'
        BY <2>2, <2>5, <1>4
    <2>7. \A row \in rows' : row.updated_at # save.at
        BY <2>4, <2>5
    <2>8. /\ save.by \in Reviewers /\ save.at \in 1..clock'
          /\ save.scores \in [DOMAIN save.scores -> 1..5]
          /\ DOMAIN save.scores \subseteq AllKeys
          /\ \A key \in DOMAIN save.scores : save.recommended[key] \in 1..5
        BY <2>5, <1>3, <1>6, <1>7, <1>8
    <2>. QED  BY <2>3, <2>6, <2>7, <2>8 DEF SaveOK
<1>10. \A s \in saves' : SaveOK(s)'
    <2>1. ASSUME NEW s \in saves
          PROVE  SaveOK(s)'
        <3>1. SaveOK(s) /\ rows' = rows /\ s.at \in 1..clock'
            BY <1>1, <1>3 DEF ScoresInv, SaveOK
        <3>. QED  BY <3>1, <1>4 DEF SaveOK
    <2>. QED  BY <2>1, <1>1, <1>9
<1>11. \A s, t \in saves' : s.at = t.at => s = t
    <2>1. \A s \in saves : s.at # clock + 1
        BY <1>1 DEF ScoresInv, SaveOK
    <2>2. save.at = clock + 1
        OBVIOUS
    <2>. QED  BY <2>1, <2>2, <1>1 DEF ScoresInv
<1>12. ASSUME NEW q \in Reviewers \ overlapped'
      PROVE  Calm(q)'
    <2>1. Calm(q)
        BY <1>2 DEF ScoresInv
    <2>2. save.by = r /\ save.at = clock + 1 /\ save.read = RowsFor(r, DOMAIN save.scores)
        OBVIOUS
    <2>3. \A row \in RowsOf(q) : row.updated_at < clock + 1
        BY <1>1 DEF RowsOf, ScoresInv
    <2>4. \A s, t \in saves' : s.by = q /\ t.by = q => s = t
        BY <1>1, <1>2, <2>1, <2>2 DEF Calm
    <2>5. \A s \in saves' : s.by = q =>
             /\ s.read = RowsFor(q, DOMAIN s.scores)
             /\ \A row \in RowsOf(q) : row.updated_at < s.at
        BY <1>1, <2>1, <2>2, <2>3 DEF Calm
    <2>. QED  BY <2>1, <2>4, <2>5, <1>1, <1>4, <1>5 DEF Calm
<1>13. \A row \in rows' : row.updated_at \in 1..clock'
    BY <1>1, <1>3 DEF ScoresInv
<1>. QED  BY <1>1, <1>4, <1>10, <1>11, <1>12, <1>13 DEF ScoresInv

LEMMA RefusedHolds ==
    ASSUME ScoresInv, NEW save \in saves, Refused(save)
    PROVE  ScoresInv'
<1>1. saves' \subseteq saves /\ UNCHANGED <<sheet, clock, rows, history>>
    BY DEF Refused
<1>2. \A r : RowsOf(r)' = RowsOf(r) /\ Scored(r)' = Scored(r)
    BY <1>1 DEF RowsOf, Scored
<1>3. \A r, keys : RowsFor(r, keys)' = RowsFor(r, keys)
    BY <1>2 DEF RowsFor
<1>4. \A s \in saves' : SaveOK(s)'
    BY <1>1, <1>2 DEF ScoresInv, SaveOK
<1>5. \A r \in Reviewers \ overlapped' : Calm(r)'
    BY <1>1, <1>2, <1>3 DEF ScoresInv, Calm, history
<1>. QED  BY <1>1, <1>2, <1>4, <1>5 DEF ScoresInv, history
\* A save that ends writes what it found changed and what was not there, each
\* under its start; of another reviewer's rows it touches none.
LEMMA FlushHolds ==
    ASSUME ScoresInv, NEW save \in saves, Flush(save)
    PROVE  ScoresInv'
<1>. DEFINE by == save.by
            ChangedRow(row) ==
              [by |-> by, key |-> row.key,
               score |-> Column(row.score, save.scores[row.key],
                                Score(by, row.key)),
               recommended |->
                 Column(row.recommended, save.recommended[row.key],
                        (CHOOSE q \in RowsOf(by) : q.key = row.key).recommended),
               updated_at |-> save.at]
            NewRow(key) ==
              [by |-> by, key |-> key, score |-> save.scores[key],
               recommended |-> save.recommended[key], updated_at |-> save.at]
            Mine(r, key) == key \in DOMAIN save.scores
<1>1. /\ by \in Reviewers /\ save.at \in 1..clock /\ save.at \in Nat
      /\ save.scores \in [DOMAIN save.scores -> 1..5]
      /\ DOMAIN save.scores \subseteq AllKeys
      /\ \A key \in DOMAIN save.scores : save.recommended[key] \in 1..5
      /\ save.read \subseteq ScoreRow /\ OncePerKey(save.read)
      /\ \A row \in save.read : /\ row.by = by /\ row.key \in DOMAIN save.scores
                                /\ row.key \in Scored(by)
      /\ \A row \in rows : row.updated_at # save.at
    BY DEF ScoresInv, SaveOK
<1>2. PICK written : written = Written(save)
    OBVIOUS
<1>3. PICK keys : keys = {row.key : row \in written}
    OBVIOUS
<1>4. /\ rows' = (rows \ RowsFor(by, keys)) \cup written
      /\ saves' = saves \ {save}
      /\ audited' = [audited EXCEPT ![by] =
                        [key \in DOMAIN @ \cup DOMAIN save.scores |->
                            IF key \in DOMAIN save.scores
                            THEN save.scores[key] ELSE @[key]]]
      /\ wrote' = IF keys \cap Required = {} THEN wrote
                  ELSE [wrote EXCEPT ![by] = save.at]
      /\ UNCHANGED <<sheet, clock, overlapped>>
      /\ New(save) \cap Scored(by) = {}
    BY <1>2, <1>3 DEF Flush, Clash
<1>5. written = {ChangedRow(row) : row \in Changed(save)}
                   \cup {NewRow(key) : key \in New(save)}
    BY <1>2 DEF Written
<1>6. ASSUME NEW row \in save.read
      PROVE  /\ ChangedRow(row) \in ScoreRow
             /\ ChangedRow(row).by = by /\ ChangedRow(row).key = row.key
             /\ ChangedRow(row).updated_at = save.at
             /\ ChangedRow(row).score = Column(row.score, save.scores[row.key],
                                               Score(by, row.key))
    <2>1. PICK q \in rows : q.by = by /\ q.key = row.key
        BY <1>1 DEF Scored, RowsOf
    <2>2. /\ (CHOOSE p \in RowsOf(by) : p.key = row.key) = q
          /\ Score(by, row.key) = q.score
        BY <2>1, FoundRow
    <2>3. q \in ScoreRow /\ row.key \in AllKeys
        BY <1>1 DEF ScoresInv
    <2>4. q.score \in 1..5 /\ q.recommended \in 1..5
        BY <2>3 DEF ScoreRow
    <2>5. /\ Column(row.score, save.scores[row.key], q.score) \in 1..5
          /\ Column(row.recommended, save.recommended[row.key], q.recommended) \in 1..5
        BY <1>1, <2>4 DEF Column
    <2>. QED  BY <2>2, <2>3, <2>5, <1>1 DEF ScoreRow
<1>7. ASSUME NEW key \in New(save)
      PROVE  /\ NewRow(key) \in ScoreRow
             /\ NewRow(key).by = by /\ NewRow(key).key = key
             /\ NewRow(key).updated_at = save.at
             /\ NewRow(key).score = save.scores[key]
             /\ key \in DOMAIN save.scores
             /\ \A row \in save.read : row.key # key
    <2>1. key \in DOMAIN save.scores /\ \A row \in save.read : row.key # key
        BY DEF New
    <2>2. save.scores[key] \in 1..5 /\ save.recommended[key] \in 1..5 /\ key \in AllKeys
        BY <2>1, <1>1
    <2>. QED  BY <2>1, <2>2, <1>1 DEF ScoreRow
<1>8. Changed(save) \subseteq save.read
    BY DEF Changed
<1>. HIDE DEF ChangedRow, NewRow
<1>9. \A w \in written : /\ w \in ScoreRow /\ w.by = by /\ w.updated_at = save.at
                         /\ w.key \in DOMAIN save.scores /\ w.key \in keys
    <2>1. ASSUME NEW w \in written
          PROVE  /\ w \in ScoreRow /\ w.by = by /\ w.updated_at = save.at
                 /\ w.key \in DOMAIN save.scores
        <3>1. CASE \E row \in Changed(save) : w = ChangedRow(row)
            BY <3>1, <1>1, <1>6, <1>8
        <3>2. CASE \E key \in New(save) : w = NewRow(key)
            BY <3>2, <1>7
        <3>. QED  BY <3>1, <3>2, <1>5
    <2>. QED  BY <2>1, <1>3
<1>10. OncePerKey(written)
    <2>1. ASSUME NEW v \in written, NEW w \in written, v.key = w.key
          PROVE  v = w
        <3>1. CASE \E row \in Changed(save) : v = ChangedRow(row)
            <4>1. PICK row \in Changed(save) : v = ChangedRow(row)
                BY <3>1
            <4>2. row \in save.read /\ v.key = row.key
                BY <4>1, <1>6, <1>8
            <4>3. \A key \in New(save) : w # NewRow(key)
                <5>1. \A key \in New(save) : NewRow(key).key = key /\ row.key # key
                    BY <4>2, <1>7
                <5>. QED  BY <5>1, <4>2, <2>1
            <4>4. PICK q \in Changed(save) : w = ChangedRow(q)
                BY <4>3, <1>5
            <4>5. q \in save.read /\ q.key = row.key
                BY <4>2, <4>4, <1>6, <1>8, <2>1
            <4>. QED  BY <4>1, <4>2, <4>4, <4>5, <1>1 DEF OncePerKey
        <3>2. CASE \E key \in New(save) : v = NewRow(key)
            <4>1. PICK key \in New(save) : v = NewRow(key)
                BY <3>2
            <4>2. v.key = key
                BY <4>1, <1>7
            <4>3. \A row \in Changed(save) : w # ChangedRow(row)
                <5>1. \A row \in Changed(save) : ChangedRow(row).key # key
                    BY <1>6, <1>7, <1>8
                <5>. QED  BY <5>1, <4>2, <2>1
            <4>4. PICK other \in New(save) : w = NewRow(other)
                BY <4>3, <1>5
            <4>. QED  BY <4>1, <4>2, <4>4, <1>7, <2>1
        <3>. QED  BY <3>1, <3>2, <1>5
    <2>. QED  BY <2>1 DEF OncePerKey
\* What is not written is in the table as it is asked for.
<1>11. ASSUME NEW key \in DOMAIN save.scores, key \notin keys
       PROVE  \E row \in save.read : row.key = key /\ row.score = save.scores[key]
    <2>1. key \notin New(save)
        BY <1>3, <1>5, <1>7, <1>11
    <2>2. PICK row \in save.read : row.key = key
        BY <2>1 DEF New
    <2>3. row \notin Changed(save)
        BY <1>3, <1>5, <1>6, <2>2, <1>11
    <2>. QED  BY <2>2, <2>3 DEF Changed
<1>12. \A row : row \in rows' <=>
            \/ row \in written
            \/ row \in rows /\ ~(row.by = by /\ row.key \in keys)
    BY <1>4 DEF RowsFor, RowsOf
<1>13. rows' \subseteq ScoreRow
    BY <1>9, <1>12 DEF ScoresInv
<1>14. \A row \in rows' : row.updated_at \in 1..clock'
    BY <1>1, <1>4, <1>9, <1>12 DEF ScoresInv
<1>15. \A q, row \in rows' : q.by = row.by /\ q.key = row.key => q = row
    BY <1>9, <1>10, <1>12 DEF ScoresInv, OncePerKey
<1>16. \A q, row \in rows' : q.updated_at = row.updated_at => q.by = row.by
    BY <1>1, <1>9, <1>12 DEF ScoresInv
<1>17. \A r : r # by => RowsOf(r)' = RowsOf(r) /\ Scored(r)' = Scored(r)
    BY <1>9, <1>12 DEF RowsOf, Scored
<1>18. \A key : key \in Scored(by)' <=> key \in Scored(by) \/ key \in DOMAIN save.scores
    <2>1. \A key : key \in Scored(by)' <=> \E row \in rows' : row.by = by /\ row.key = key
        BY DEF Scored, RowsOf
    <2>2. \A key : key \in Scored(by) <=> \E row \in rows : row.by = by /\ row.key = key
        BY DEF Scored, RowsOf
    <2>3. ASSUME NEW key \in Scored(by)'
          PROVE  key \in Scored(by) \/ key \in DOMAIN save.scores
        BY <2>1, <2>2, <2>3, <1>9, <1>12
    <2>4. \A key \in keys : key \in Scored(by)'
        BY <2>1, <1>3, <1>9, <1>12
    <2>5. \A key \in Scored(by) : key \notin keys => key \in Scored(by)'
        BY <2>1, <2>2, <1>12
    <2>6. \A key \in DOMAIN save.scores : key \notin keys => key \in Scored(by)
        BY <1>1, <1>11
    <2>. QED  BY <2>3, <2>4, <2>5, <2>6
<1>19. /\ \A r \in Reviewers \ {by} : audited'[r] = audited[r]
       /\ audited' = [r \in Reviewers |-> audited'[r]]
       /\ DOMAIN audited'[by] = DOMAIN audited[by] \cup DOMAIN save.scores
       /\ \A key \in DOMAIN audited'[by] :
            audited'[by][key] = IF key \in DOMAIN save.scores
                                THEN save.scores[key] ELSE audited[by][key]
    <2>1. audited = [r \in Reviewers |-> audited[r]]
        BY DEF ScoresInv
    <2>2. audited'[by] = [key \in DOMAIN audited[by] \cup DOMAIN save.scores |->
                            IF key \in DOMAIN save.scores
                            THEN save.scores[key] ELSE audited[by][key]]
        BY <2>1, <1>1, <1>4
    <2>3. \A r \in Reviewers \ {by} : audited'[r] = audited[r]
        BY <2>1, <1>1, <1>4
    <2>4. audited' = [r \in Reviewers |-> audited'[r]]
        BY <2>1, <1>4
    <2>. QED  BY <2>2, <2>3, <2>4
<1>20. \A r \in Reviewers : DOMAIN audited'[r] = Scored(r)'
    <2>1. \A r \in Reviewers : DOMAIN audited[r] = Scored(r)
        BY DEF ScoresInv
    <2>2. DOMAIN audited'[by] = Scored(by)'
        BY <2>1, <1>1, <1>18, <1>19
    <2>3. ASSUME NEW r \in Reviewers, r # by
          PROVE  DOMAIN audited'[r] = Scored(r)'
        BY <2>1, <2>3, <1>17, <1>19
    <2>. QED  BY <2>2, <2>3
<1>21. /\ wrote' \in [Reviewers -> Nat]
       /\ \A r \in Reviewers \ {by} : wrote'[r] = wrote[r]
       /\ wrote'[by] = IF keys \cap Required = {} THEN wrote[by] ELSE save.at
    BY <1>1, <1>4 DEF ScoresInv
<1>22. \A s \in saves' : SaveOK(s)'
    <2>1. ASSUME NEW s \in saves'
          PROVE  SaveOK(s)'
        <3>1. s \in saves /\ s # save
            BY <1>4
        <3>2. SaveOK(s) /\ s.at # save.at
            BY <3>1 DEF ScoresInv
        <3>3. \A row \in rows' : row.updated_at # s.at
            BY <3>2, <1>9, <1>12 DEF SaveOK
        <3>4. \A r, key : key \in Scored(r) => key \in Scored(r)'
            BY <1>17, <1>18
        <3>5. \A row \in s.read : /\ row.by = s.by
                                  /\ row.key \in DOMAIN s.scores
                                  /\ (row.key \in Scored(s.by))'
            BY <3>2, <3>4 DEF SaveOK
        <3>. QED  BY <3>2, <3>3, <3>5, <1>4 DEF SaveOK
    <2>. QED  BY <2>1
<1>23. ASSUME NEW r \in Reviewers \ overlapped'
       PROVE  Calm(r)'
    <2>1. Calm(r)
        BY <1>4 DEF ScoresInv
    <2>2. CASE r # by
        <3>1. \A keyset : RowsFor(r, keyset)' = RowsFor(r, keyset)
            BY <2>2, <1>17 DEF RowsFor
        <3>2. /\ RowsOf(r)' = RowsOf(r) /\ audited'[r] = audited[r]
              /\ wrote'[r] = wrote[r] /\ saves' \subseteq saves
            BY <2>2, <1>4, <1>17, <1>19, <1>21
        <3>. QED  BY <3>1, <3>2, <2>1 DEF Calm
    <2>3. CASE r = by
        <3>1. \A s \in saves' : s.by # r
            BY <2>1, <2>3, <1>4 DEF Calm
        <3>2. /\ save.read = RowsFor(by, DOMAIN save.scores)
              /\ \A row \in RowsOf(by) : /\ row.updated_at < save.at
                                         /\ row.score = audited[by][row.key]
              /\ \A row \in RowsFor(by, Required) : row.updated_at =< wrote[by]
              /\ RowsFor(by, Required) # {} =>
                   \E row \in RowsFor(by, Required) : row.updated_at = wrote[by]
            BY <2>1, <2>3 DEF Calm
        <3>3. \A w \in written : w.score = save.scores[w.key]
            <4>1. ASSUME NEW row \in save.read
                  PROVE  ChangedRow(row).score = save.scores[row.key]
                <5>1. row \in rows /\ row.by = by
                    BY <3>2 DEF RowsFor, RowsOf
                <5>2. Score(by, row.key) = row.score
                    BY <5>1, FoundRow
                <5>. QED  BY <5>2, <1>6 DEF Column
            <4>2. ASSUME NEW w \in written
                  PROVE  w.score = save.scores[w.key]
                <5>1. CASE \E row \in Changed(save) : w = ChangedRow(row)
                    BY <5>1, <4>1, <1>6, <1>8
                <5>2. CASE \E key \in New(save) : w = NewRow(key)
                    BY <5>2, <1>7
                <5>. QED  BY <5>1, <5>2, <1>5
            <4>. QED  BY <4>2
        <3>4. ASSUME NEW row \in RowsOf(by)'
              PROVE  row.score = audited'[by][row.key]
            <4>1. row \in rows' /\ row.by = by
                BY DEF RowsOf
            <4>2. row.key \in DOMAIN audited'[by]
                BY <4>1, <1>1, <1>20 DEF Scored, RowsOf
            <4>3. CASE row \in written
                BY <4>2, <4>3, <3>3, <1>9, <1>19
            <4>4. CASE row \in rows /\ row.key \notin keys
                <5>1. row \in RowsOf(by)
                    BY <4>1, <4>4 DEF RowsOf
                <5>2. CASE row.key \in DOMAIN save.scores
                    <6>1. PICK q \in save.read : q.key = row.key
                                                  /\ q.score = save.scores[row.key]
                        BY <5>2, <4>4, <1>11
                    <6>2. q \in rows /\ q.by = by
                        BY <6>1, <3>2 DEF RowsFor, RowsOf
                    <6>3. q = row
                        BY <6>1, <6>2, <4>1, <4>4 DEF ScoresInv
                    <6>. QED  BY <6>1, <6>3, <5>2, <4>2, <1>19
                <5>3. CASE row.key \notin DOMAIN save.scores
                    BY <5>1, <5>3, <4>2, <3>2, <1>19
                <5>. QED  BY <5>2, <5>3
            <4>. QED  BY <4>1, <4>3, <4>4, <1>12
        <3>5. /\ \A row \in RowsFor(by, Required)' : row.updated_at =< wrote'[by]
              /\ RowsFor(by, Required)' # {} =>
                   \E row \in RowsFor(by, Required)' : row.updated_at = wrote'[by]
            <4>0. \A row : row \in RowsFor(by, Required)' <=>
                      row \in rows' /\ row.by = by /\ row.key \in Required
                BY DEF RowsFor, RowsOf
            <4>1. \A row : row \in RowsFor(by, Required) <=>
                      row \in rows /\ row.by = by /\ row.key \in Required
                BY DEF RowsFor, RowsOf
            <4>2. CASE keys \cap Required = {}
                <5>1. \A row : row \in RowsFor(by, Required)' <=>
                                  row \in RowsFor(by, Required)
                    BY <4>0, <4>1, <4>2, <1>9, <1>12
                <5>2. wrote'[by] = wrote[by]
                    BY <4>2, <1>21
                <5>. QED  BY <5>1, <5>2, <3>2
            <4>3. CASE keys \cap Required # {}
                <5>1. wrote'[by] = save.at
                    BY <4>3, <1>21
                <5>2. PICK w \in written : w.key \in Required
                    BY <4>3, <1>3
                <5>3. w \in RowsFor(by, Required)' /\ w.updated_at = save.at
                    BY <5>2, <4>0, <1>9, <1>12
                <5>4. ASSUME NEW row \in RowsFor(by, Required)'
                      PROVE  row.updated_at =< save.at
                    <6>1. row \in rows' /\ row.by = by
                        BY <4>0
                    <6>2. CASE row \in written
                        BY <6>2, <1>1, <1>9
                    <6>3. CASE row \in rows
                        <7>1. row \in RowsOf(by)
                            BY <6>1, <6>3 DEF RowsOf
                        <7>2. row.updated_at \in 1..clock /\ row.updated_at < save.at
                            BY <7>1, <6>3, <3>2 DEF ScoresInv
                        <7>. QED  BY <7>2, <1>1
                    <6>. QED  BY <6>1, <6>2, <6>3, <1>12
                <5>. QED  BY <5>1, <5>3, <5>4
            <4>. QED  BY <4>2, <4>3
        <3>6. /\ \A s, t \in saves' : s.by = r /\ t.by = r => s = t
              /\ \A s \in saves' : s.by = r =>
                   /\ s.read = RowsFor(r, DOMAIN s.scores)'
                   /\ \A row \in RowsOf(r)' : row.updated_at < s.at
            BY <3>1
        <3>. QED  BY <2>3, <3>4, <3>5, <3>6 DEF Calm
    <2>. QED  BY <2>2, <2>3
<1>24. \A s, t \in saves' : s.at = t.at => s = t
    BY <1>4 DEF ScoresInv
<1>25. sheet' \in Sheets /\ clock' \in 0..MaxSaves
    BY <1>4 DEF ScoresInv
<1>. QED  BY <1>13, <1>14, <1>15, <1>16, <1>19, <1>20, <1>21, <1>22, <1>23,
             <1>24, <1>25 DEF ScoresInv

LEMMA ScoresNext ==
    ASSUME ScoresInv, Next
    PROVE  ScoresInv'
<1>1. ASSUME NEW s \in IF clock = 0 THEN Sheets ELSE Reviewed, Change(s)
      PROVE  ScoresInv'
    <2>1. s \in Sheets /\ clock \in 0..MaxSaves
        BY DeskAssumption DEF ScoresInv
    <2>. QED  BY <1>1, <2>1, ScoresOtherwise DEF Change
<1>. QED  BY <1>1, BeginSaveHolds, FlushHolds, RefusedHolds DEF Next

LEMMA ScoresStep ==
    ASSUME ScoresInv, [Next]_vars
    PROVE  ScoresInv'
<1>1. CASE UNCHANGED vars
    BY <1>1, ScoresOtherwise DEF vars, ScoresInv
<1>. QED  BY <1>1, ScoresNext

-----------------------------------------------------------------------------
(* What the invariant says of the desk.                                    *)

\* Times that have been counted have a last one.
LEMMA Last ==
    ASSUME NEW n \in Nat, NEW T, T \subseteq 0..n, T # {}
    PROVE  /\ Max(T) \in T
           /\ \A t \in T : Max(T) >= t
<1>. DEFINE R == {n - t : t \in T}
<1>1. R \subseteq Nat /\ R # {}
    <2>1. ASSUME NEW t \in T
          PROVE  n - t \in Nat
        <3>1. t \in 0..n
            OBVIOUS
        <3>. QED  BY <3>1
    <2>. QED  BY <2>1
<1>. HIDE DEF R
<1>2. \E x \in R : \A y \in R : ~ (<<y, x>> \in OpToRel(<, Nat))
    BY <1>1, WFMin, NatLessThanWellFounded
<1>3. \A x, y \in R : (<<y, x>> \notin OpToRel(<, Nat)) => x <= y
    BY <1>1 DEF OpToRel
<1>4. PICK x \in R : \A y \in R : x <= y
    BY <1>2, <1>3
<1>5. PICK s \in T : x = n - s
    BY <1>4 DEF R
<1>6. \A t \in T : s >= t
    <2>1. ASSUME NEW t \in T
          PROVE  s >= t
        <3>1. n - t \in R
            BY DEF R
        <3>. QED  BY <3>1, <1>4, <1>5
    <2>. QED  BY <2>1
<1>. QED  BY <1>5, <1>6 DEF Max

LEMMA DeskTypes ==
    ASSUME ScoresInv
    PROVE  TypeOK
<1>1. \A row \in rows : /\ row.by \in Reviewers /\ row.key \in AllKeys
                        /\ {row.score, row.recommended} \subseteq 1..5
                        /\ row.updated_at \in 1..clock
    <2>1. \A row \in rows : row \in ScoreRow /\ row.updated_at \in 1..clock
        BY DEF ScoresInv
    <2>. QED  BY <2>1 DEF ScoreRow
<1>2. \A s \in Sections : /\ Range(Recommended(sheet, s)) \subseteq 1..5
                          /\ Aggregate(s) \in 1..5
    <2>1. sheet \in Sheet
        BY DeskAssumption DEF ScoresInv
    <2>. QED  BY <2>1, RecommendedOnScale, AggregateOnScale DEF Range
<1>3. \A save \in saves : save.by \in Reviewers /\ save.at \in 1..clock
    BY DEF ScoresInv, SaveOK
<1>. QED  BY <1>1, <1>2, <1>3 DEF ScoresInv, TypeOK

LEMMA SavesStand ==
    ASSUME ScoresInv
    PROVE  LastSaveStands
<1>1. ASSUME NEW s \in Sections, NEW r \in Reviewers \ overlapped
      PROVE  Effective(r, s) = [key \in Keys[s] |->
                 IF key \in DOMAIN audited[r] THEN audited[r][key]
                 ELSE Recommended(sheet, s)[key]]
    <2>1. DOMAIN audited[r] = Scored(r)
        BY DEF ScoresInv
    <2>2. ASSUME NEW key \in Scored(r)
          PROVE  Score(r, key) = audited[r][key]
        <3>1. PICK row \in RowsOf(r) : row.key = key
            BY DEF Scored
        <3>2. row.score = audited[r][key]
            BY <3>1 DEF ScoresInv, Calm
        <3>3. row \in rows /\ row.by = r
            BY DEF RowsOf
        <3>. QED  BY <3>1, <3>2, <3>3, FoundRow
    <2>3. Effective(r, s) =
            [key \in Keys[s] |-> IF key \in Scored(r) THEN Score(r, key)
                                 ELSE Recommended(sheet, s)[key]]
        BY DEF Effective
    <2>. QED  BY <2>1, <2>2, <2>3
<1>2. \A r \in Reviewers : Scored(r) = DOMAIN audited[r]
    BY DEF ScoresInv
<1>. QED  BY <1>1, <1>2 DEF LastSaveStands

\* There are keys that a review needs.
LEMMA SomethingRequired == Required # {}
<1>1. PICK s \in Trio : s \in Sections
    BY DeskAssumption
<1>2. PICK key : key \in Keys[s]
    BY <1>1, ThreeKeys
<1>. QED  BY <1>1, <1>2 DEF Required

\* The last change of a required score of a reviewer who has given them all.
LEMMA LatestIs ==
    ASSUME ScoresInv, NEW r \in Complete
    PROVE  /\ \E row \in RowsFor(r, Required) : row.updated_at = Latest(r)
           /\ \A row \in RowsFor(r, Required) : row.updated_at =< Latest(r)
           /\ Latest(r) \in 1..clock
<1>. DEFINE T == {row.updated_at : row \in RowsFor(r, Required)}
<1>1. RowsFor(r, Required) # {}
    BY SomethingRequired DEF Complete, Scored, RowsFor
<1>2. T \subseteq 1..clock /\ T \subseteq 0..clock /\ clock \in Nat
    <2>1. RowsFor(r, Required) \subseteq rows /\ clock \in Nat
        BY DeskAssumption DEF RowsFor, RowsOf, ScoresInv
    <2>2. \A row \in rows : row.updated_at \in 1..clock
        BY DEF ScoresInv
    <2>. QED  BY <2>1, <2>2
<1>3. T # {}
    BY <1>1
<1>4. Latest(r) = Max(T)
    BY DEF Latest
<1>5. Max(T) \in T /\ \A t \in T : Max(T) >= t
    <2>. HIDE DEF T
    <2>. QED  BY <1>2, <1>3, Last
<1>6. \A t \in T : t \in Int
    BY <1>2
<1>7. \A row \in RowsFor(r, Required) : row.updated_at \in T
    OBVIOUS
<1>8. PICK row \in RowsFor(r, Required) : row.updated_at = Max(T)
    BY <1>5
<1>. HIDE DEF T
<1>. QED  BY <1>2, <1>4, <1>5, <1>6, <1>7, <1>8

LEMMA BoardStands ==
    ASSUME ScoresInv
    PROVE  BoardShowsLatest
<1>. DEFINE finished == {r \in Reviewers : Required \subseteq DOMAIN audited[r]}
            T == {Latest(r) : r \in Complete}
<1>1. finished = Complete
    BY DEF ScoresInv, Complete
<1>2. OnBoard = {r \in Complete : \A q \in Complete : Latest(q) =< Latest(r)}
    BY DEF OnBoard
<1>3. \A q, r \in OnBoard : q = r
    <2>1. ASSUME NEW q \in OnBoard, NEW r \in OnBoard
          PROVE  q = r
        <3>1. q \in Complete /\ r \in Complete /\ Latest(q) = Latest(r)
            BY <1>2, LatestIs
        <3>2. PICK a \in RowsFor(q, Required) : a.updated_at = Latest(q)
            BY <3>1, LatestIs
        <3>3. PICK b \in RowsFor(r, Required) : b.updated_at = Latest(r)
            BY <3>1, LatestIs
        <3>4. a \in rows /\ b \in rows /\ a.by = q /\ b.by = r
            BY DEF RowsFor, RowsOf
        <3>. QED  BY <3>1, <3>2, <3>3, <3>4 DEF ScoresInv
    <2>. QED  BY <2>1
<1>4. ASSUME finished # {}
      PROVE  Cardinality(OnBoard) = 1
    <2>1. T # {} /\ T \subseteq 0..clock /\ clock \in Nat
        BY <1>1, <1>4, LatestIs, DeskAssumption DEF ScoresInv
    <2>2. Max(T) \in T /\ \A t \in T : Max(T) >= t
        <3>. HIDE DEF T
        <3>. QED  BY <2>1, Last
    <2>3. PICK r \in Complete : Latest(r) = Max(T)
        BY <2>2
    <2>4. r \in OnBoard
        BY <1>2, <2>2, <2>3, LatestIs
    <2>5. OnBoard = {r}
        BY <2>4, <1>3
    <2>. QED  BY <2>5, FS_Singleton
<1>5. ASSUME NEW r \in OnBoard \ overlapped, NEW q \in finished \ overlapped
      PROVE  wrote[q] =< wrote[r]
    <2>1. \A c \in Complete \ overlapped : Latest(c) = wrote[c]
        <3>1. ASSUME NEW c \in Complete \ overlapped
              PROVE  Latest(c) = wrote[c]
            <4>1. /\ Calm(c) /\ wrote[c] \in Nat
                BY DEF Complete, ScoresInv
            <4>2. PICK row \in RowsFor(c, Required) : row.updated_at = Latest(c)
                BY LatestIs
            <4>3. PICK last \in RowsFor(c, Required) : last.updated_at = wrote[c]
                BY <4>1, <4>2 DEF Calm
            <4>4. Latest(c) =< wrote[c] /\ wrote[c] =< Latest(c)
                BY <4>1, <4>2, <4>3, LatestIs DEF Calm
            <4>5. Latest(c) \in Nat
                BY LatestIs
            <4>. QED  BY <4>1, <4>4, <4>5
        <3>. QED  BY <3>1
    <2>2. Latest(q) =< Latest(r)
        BY <1>1, <1>2
    <2>. QED  BY <2>1, <2>2, <1>1, <1>2
<1>. QED  BY <1>1, <1>2, <1>4, <1>5 DEF BoardShowsLatest

LEMMA ScoresStand ==
    ASSUME ScoresInv
    PROVE  ReviewStands
<1>1. SpamIsNotLifted
    <2>1. sheet \in Sheet
        BY DeskAssumption DEF ScoresInv
    <2>. QED  BY <2>1, SpamStays DEF SpamIsNotLifted
<1>. QED  BY <1>1, DeskTypes, SavesStand, BoardStands DEF ReviewStands

-----------------------------------------------------------------------------
(* The desk around the scores: an invariant of each part of it.            *)

\* While no two changes of the tags are under way at once, the one that is
\* has seen every link, and the links are those of the last.
TagsInv ==
    /\ \A q, link \in links : q.tag = link.tag => q = link
    /\ "tags" \notin crossed =>
         /\ {link.tag : link \in links} = tagged
         /\ \A e, f \in edits : e = f
         /\ \A e \in edits : e.saw = links

Opined(r) == {row.key : row \in OpinionsOf(r)}
ReadBy(vote) == {row \in OpinionsOf(vote.by) : row.key \in DOMAIN vote.says}

\* What a vote has read is still there, unless changed; and of a reviewer
\* whose votes do not overlap it is as it was read.
VotesInv ==
    /\ \A row \in opinions : row.by \in Reviewers
    /\ \A q, row \in opinions : q.by = row.by /\ q.key = row.key => q = row
    /\ \A vote \in votes :
         /\ vote.by \in Reviewers /\ OncePerKey(vote.read)
         /\ \A row \in vote.read : /\ row.key \in DOMAIN vote.says
                                   /\ row.key \in Opined(vote.by)
    /\ voted = [r \in Reviewers |-> voted[r]]
    /\ \A r \in Reviewers : Opined(r) = DOMAIN voted[r]
    /\ \A r \in Reviewers \ crossed :
         /\ \A v, w \in votes : v.by = r /\ w.by = r => v = w
         /\ \A v \in votes : v.by = r => v.read = ReadBy(v)
         /\ \A row \in OpinionsOf(r) : row.value = voted[r][row.key]

Logged(actions, by, at) ==
    \E e \in events : e.action \in actions /\ e.by = by /\ e.at = at

\* Whatever stands was logged when it was written.
HistoryInv ==
    /\ \A row \in rows : Logged({"section_scores_updated"}, row.by, row.updated_at)
    /\ \A row \in opinions :
         Logged(IF row.key = "recommendation"
                THEN {"internal_recommendation_updated"}
                ELSE {"rubric_updated", "internal_recommendation_updated"},
                row.by, row.updated_at)
    /\ \A c \in comments : /\ Logged({"comment_added"}, c.by, c.at)
                           /\ c = [by |-> c.by, at |-> c.at]

\* Of a run of the pipeline: no summary has come since, and the card is what
\* it had loaded or what it would have found; or a check's summary has come.
InTime(d) ==
    /\ Shown = d.prior /\ \A q \in summaries : q.at < d.at
    /\ card \in {d.loaded, d.prior.advice}
Overtaken(d) ==
    \E c \in summaries : /\ c.at > d.at /\ c.hash = <<>>
                         /\ \A q \in summaries : q.at =< c.at

\* What was shown to a run that began at t.
Before(t) == {q \in summaries : q.on < t}

SummaryInv ==
    /\ \A s \in summaries : s.at \in 1..clock /\ s.on \in 1..clock
    /\ \A q, s \in summaries : q.at = s.at => q = s
    /\ \A d \in drafts : /\ d.at \in 1..clock /\ d.prior = ShownIn(Before(d.at))
                         /\ \A q \in summaries : q.at # d.at
    /\ \A d, e \in drafts : d.at = e.at => d = e
    /\ NoSummaryTwice
    /\ "summary" \notin crossed =>
         /\ card = Shown.advice \/ Shown.hash = <<>>
         /\ \A d, e \in drafts : d = e
         /\ \A d \in drafts : InTime(d) \/ Overtaken(d)

DeskInv == ScoresInv /\ TagsInv /\ VotesInv /\ HistoryInv /\ SummaryInv

\* What a step leaves alone keeps its part of the invariant.
LEMMA TagsOtherwise ==
    ASSUME TagsInv, UNCHANGED tagVars, crossed \subseteq crossed'
    PROVE  TagsInv'
BY DEF TagsInv, tagVars

LEMMA VotesOtherwise ==
    ASSUME VotesInv, UNCHANGED voteVars, crossed \subseteq crossed'
    PROVE  VotesInv'
<1>1. \A r : OpinionsOf(r)' = OpinionsOf(r) /\ Opined(r)' = Opined(r)
    BY DEF OpinionsOf, Opined, voteVars
<1>2. \A v : ReadBy(v)' = ReadBy(v)
    BY <1>1 DEF ReadBy
<1>3. \A r \in Reviewers \ crossed' :
         /\ \A v, w \in votes' : v.by = r /\ w.by = r => v = w
         /\ \A v \in votes' : v.by = r => v.read = ReadBy(v)'
         /\ \A row \in OpinionsOf(r)' : row.value = voted'[r][row.key]
    BY <1>1, <1>2 DEF VotesInv, voteVars
<1>4. \A vote \in votes' : 
         /\ vote.by \in Reviewers /\ OncePerKey(vote.read)
         /\ \A row \in vote.read : /\ row.key \in DOMAIN vote.says
                                   /\ row.key \in Opined(vote.by)'
    BY <1>1 DEF VotesInv, voteVars
<1>. QED  BY <1>1, <1>3, <1>4 DEF VotesInv, voteVars

LEMMA HistoryOtherwise ==
    ASSUME HistoryInv, UNCHANGED <<rows, opinions, comments>>,
           events \subseteq events'
    PROVE  HistoryInv'
<1>1. \A actions, by, at : Logged(actions, by, at) => Logged(actions, by, at)'
    BY DEF Logged
<1>. QED  BY <1>1 DEF HistoryInv

LEMMA SummaryOtherwise ==
    ASSUME SummaryInv, UNCHANGED <<summaries, drafts, card>>,
           crossed \subseteq crossed', clock \in Nat, clock' \in Nat,
           clock' >= clock
    PROVE  SummaryInv'
<1>1. 1..clock \subseteq 1..clock'
    OBVIOUS
<1>2. Shown' = Shown /\ NoSummaryTwice' = NoSummaryTwice
    BY DEF Shown, NoSummaryTwice
<1>3. \A d : InTime(d)' = InTime(d) /\ Overtaken(d)' = Overtaken(d)
    BY <1>2 DEF InTime, Overtaken
<1>4. \A t : Before(t)' = Before(t)
    BY DEF Before
<1>. QED  BY <1>1, <1>2, <1>3, <1>4 DEF SummaryInv

-----------------------------------------------------------------------------
(* Tags.                                                                   *)

LEMMA BeginTagsHolds ==
    ASSUME TagsInv, NEW tags \in TagRequests, BeginTags(tags)
    PROVE  TagsInv'
<1>1. PICK edit : edit = [tags |-> tags, saw |-> links,
                          new |-> tags \ known, at |-> clock + 1]
    OBVIOUS
<1>2. /\ edits' = edits \cup {edit} /\ edit.saw = links
      /\ crossed' = IF edits = {} THEN crossed ELSE crossed \cup {"tags"}
      /\ UNCHANGED <<links, tagged>>
    BY <1>1 DEF BeginTags
<1>. QED  BY <1>2 DEF TagsInv

LEMMA EndTagsHolds ==
    ASSUME TagsInv, NEW edit \in edits, EndTags(edit)
    PROVE  TagsInv'
<1>1. /\ links' = (links \ edit.saw)
                    \cup {[tag |-> tag, at |-> edit.at] : tag \in edit.tags}
      /\ \A link \in links \ edit.saw : link.tag \notin edit.tags
      /\ tagged' = edit.tags /\ edits' = edits \ {edit} /\ crossed' = crossed
    BY DEF EndTags, LinksAfter, LinkedTwice
<1>2. \A q, link \in links' : q.tag = link.tag => q = link
    BY <1>1 DEF TagsInv
<1>3. ASSUME "tags" \notin crossed
      PROVE  {link.tag : link \in links'} = tagged' /\ edits' = {}
    <2>1. edit.saw = links /\ edits' = {}
        BY <1>1, <1>3 DEF TagsInv
    <2>2. links' = {[tag |-> tag, at |-> edit.at] : tag \in edit.tags}
        BY <1>1, <2>1
    <2>3. \A link \in links' : link.tag \in edit.tags
        BY <2>2
    <2>4. ASSUME NEW tag \in edit.tags
          PROVE  \E link \in links' : link.tag = tag
        <3>1. [tag |-> tag, at |-> edit.at] \in links'
            BY <2>2
        <3>. QED  BY <3>1
    <2>5. {link.tag : link \in links'} = edit.tags
        BY <2>3, <2>4
    <2>. QED  BY <1>1, <2>1, <2>5
<1>. QED  BY <1>1, <1>2, <1>3 DEF TagsInv

LEMMA RefuseTagsHolds ==
    ASSUME TagsInv, NEW edit \in edits, RefuseTags(edit)
    PROVE  TagsInv'
BY DEF RefuseTags, TagsInv

-----------------------------------------------------------------------------
(* Rubric scores and recommendations.                                      *)

LEMMA BeginVoteHolds ==
    ASSUME VotesInv, NEW r \in Reviewers, NEW verdict \in Verdicts,
           BeginVote(r, verdict)
    PROVE  VotesInv'
<1>1. PICK vote : vote =
         [by |-> r, says |-> verdict, at |-> clock + 1,
          read |-> {row \in OpinionsOf(r) : row.key \in DOMAIN verdict}]
    OBVIOUS
<1>2. /\ vote.by = r /\ vote.read = ReadBy(vote)
    BY <1>1 DEF ReadBy
<1>3. /\ votes' = votes \cup {vote}
      /\ crossed' = IF \E v \in votes : v.by = r THEN crossed \cup {r} ELSE crossed
      /\ UNCHANGED <<opinions, voted>>
    BY <1>1 DEF BeginVote
<1>4. \A q : OpinionsOf(q)' = OpinionsOf(q) /\ Opined(q)' = Opined(q)
    BY <1>3 DEF OpinionsOf, Opined
<1>5. \A v : ReadBy(v)' = ReadBy(v)
    BY <1>4 DEF ReadBy
<1>6. OncePerKey(vote.read) /\ \A row \in vote.read :
          row.key \in DOMAIN vote.says /\ row.key \in Opined(r)
    BY <1>2 DEF ReadBy, OncePerKey, OpinionsOf, Opined, VotesInv
<1>7. \A v \in votes' :
         /\ v.by \in Reviewers /\ OncePerKey(v.read)
         /\ \A row \in v.read : /\ row.key \in DOMAIN v.says
                                /\ row.key \in Opined(v.by)'
    BY <1>2, <1>3, <1>4, <1>6 DEF VotesInv
<1>8. \A q \in Reviewers \ crossed' :
         /\ \A v, w \in votes' : v.by = q /\ w.by = q => v = w
         /\ \A v \in votes' : v.by = q => v.read = ReadBy(v)'
         /\ \A row \in OpinionsOf(q)' : row.value = voted'[q][row.key]
    BY <1>2, <1>3, <1>4, <1>5 DEF VotesInv
<1>. QED  BY <1>3, <1>4, <1>7, <1>8 DEF VotesInv

LEMMA RefuseVoteHolds ==
    ASSUME VotesInv, NEW vote \in votes, RefuseVote(vote)
    PROVE  VotesInv'
<1>1. votes' \subseteq votes /\ UNCHANGED <<opinions, voted, crossed>>
    BY DEF RefuseVote
<1>2. \A q : OpinionsOf(q)' = OpinionsOf(q) /\ Opined(q)' = Opined(q)
    BY <1>1 DEF OpinionsOf, Opined
<1>3. \A v : ReadBy(v)' = ReadBy(v)
    BY <1>2 DEF ReadBy
<1>4. \A v \in votes' :
         /\ v.by \in Reviewers /\ OncePerKey(v.read)
         /\ \A row \in v.read : /\ row.key \in DOMAIN v.says
                                /\ row.key \in Opined(v.by)'
    BY <1>1, <1>2 DEF VotesInv
<1>5. \A q \in Reviewers \ crossed' :
         /\ \A v, w \in votes' : v.by = q /\ w.by = q => v = w
         /\ \A v \in votes' : v.by = q => v.read = ReadBy(v)'
         /\ \A row \in OpinionsOf(q)' : row.value = voted'[q][row.key]
    BY <1>1, <1>2, <1>3 DEF VotesInv
<1>. QED  BY <1>1, <1>2, <1>4, <1>5 DEF VotesInv

\* What a vote writes: a row for every key that it says something of, under
\* its start.
LEMMA VoteWrites ==
    ASSUME VotesInv, NEW vote \in votes, EndVote(vote)
    PROVE  \E written :
             /\ \A row : row \in opinions' <=>
                  \/ row \in written
                  \/ /\ row \in opinions
                     /\ ~(row.by = vote.by /\ row.key \in DOMAIN vote.says)
             /\ \A w \in written : w.by = vote.by /\ w.updated_at = vote.at
             /\ {w.key : w \in written} = DOMAIN vote.says
             /\ OncePerKey(written)
             /\ vote.by \notin crossed =>
                  \A w \in written : w.value = vote.says[w.key]
<1>. DEFINE by == vote.by
            OldRow(row) == [by |-> by, key |-> row.key, updated_at |-> vote.at,
                            value |-> Kept(row.value, vote.says[row.key],
                                           Standing(vote, row.key).value)]
            NewRow(key) == [by |-> by, key |-> key, updated_at |-> vote.at,
                            value |-> vote.says[key]]
<1>1. PICK written : written = {OldRow(row) : row \in vote.read}
                                  \cup {NewRow(key) : key \in Absent(vote)}
    OBVIOUS
<1>2. opinions' =
         {row \in opinions : ~(row.by = vote.by /\ row.key \in DOMAIN vote.says)}
         \cup written
    BY <1>1 DEF EndVote
<1>3. \A row \in vote.read : /\ OldRow(row).by = by /\ OldRow(row).key = row.key
                             /\ OldRow(row).updated_at = vote.at
                             /\ OldRow(row).value =
                                 Kept(row.value, vote.says[row.key],
                                      Standing(vote, row.key).value)
                            /\ row.key \in DOMAIN vote.says
    BY DEF VotesInv
<1>4. \A key \in Absent(vote) : /\ NewRow(key).by = by /\ NewRow(key).key = key
                                /\ NewRow(key).updated_at = vote.at
                                /\ NewRow(key).value = vote.says[key]
                                /\ key \in DOMAIN vote.says
                                /\ \A row \in vote.read : row.key # key
    BY DEF Absent
<1>. HIDE DEF OldRow, NewRow
<1>5. \A w \in written : w.by = by /\ w.updated_at = vote.at
                         /\ w.key \in DOMAIN vote.says
    BY <1>1, <1>3, <1>4
<1>6. ASSUME NEW key \in DOMAIN vote.says
      PROVE  \E w \in written : w.key = key
    <2>1. CASE key \in Absent(vote)
        BY <2>1, <1>1, <1>4
    <2>2. CASE key \notin Absent(vote)
        <3>1. PICK row \in vote.read : row.key = key
            BY <2>2 DEF Absent
        <3>. QED  BY <3>1, <1>1, <1>3
    <2>. QED  BY <2>1, <2>2
<1>7. OncePerKey(written)
    <2>1. OncePerKey(vote.read)
        BY DEF VotesInv
    <2>2. ASSUME NEW v \in written, NEW w \in written, v.key = w.key
          PROVE  v = w
        <3>1. CASE \E row \in vote.read : v = OldRow(row)
            <4>1. PICK row \in vote.read : v = OldRow(row)
                BY <3>1
            <4>2. v.key = row.key
                BY <4>1, <1>3
            <4>3. \A key \in Absent(vote) : w # NewRow(key)
                <5>1. \A key \in Absent(vote) : NewRow(key).key = key /\ row.key # key
                    BY <1>4
                <5>. QED  BY <5>1, <4>2, <2>2
            <4>4. PICK q \in vote.read : w = OldRow(q)
                BY <4>3, <1>1
            <4>5. q.key = row.key
                BY <4>2, <4>4, <1>3, <2>2
            <4>. QED  BY <4>1, <4>4, <4>5, <2>1 DEF OncePerKey
        <3>2. CASE \E key \in Absent(vote) : v = NewRow(key)
            <4>1. PICK key \in Absent(vote) : v = NewRow(key)
                BY <3>2
            <4>2. v.key = key
                BY <4>1, <1>4
            <4>3. \A row \in vote.read : w # OldRow(row)
                <5>1. \A row \in vote.read : OldRow(row).key = row.key /\ row.key # key
                    BY <1>3, <1>4
                <5>. QED  BY <5>1, <4>2, <2>2
            <4>4. PICK other \in Absent(vote) : w = NewRow(other)
                BY <4>3, <1>1
            <4>. QED  BY <4>1, <4>2, <4>4, <1>4, <2>2
        <3>. QED  BY <3>1, <3>2, <1>1
    <2>. QED  BY <2>2 DEF OncePerKey
<1>8. ASSUME by \notin crossed, NEW w \in written
      PROVE  w.value = vote.says[w.key]
    <2>1. vote.read = ReadBy(vote)
        BY <1>8 DEF VotesInv
    <2>2. ASSUME NEW row \in vote.read
          PROVE  OldRow(row).value = vote.says[row.key]
        <3>1. row \in OpinionsOf(by)
            BY <2>1 DEF ReadBy
        <3>2. \A q \in OpinionsOf(by) : q.key = row.key => q = row
            BY <3>1 DEF OpinionsOf, VotesInv
        <3>3. Standing(vote, row.key) = row
            BY <3>1, <3>2 DEF Standing
        <3>. QED  BY <3>3, <1>3 DEF Kept
    <2>3. CASE \E row \in vote.read : w = OldRow(row)
        BY <2>3, <2>2, <1>3
    <2>4. CASE \E key \in Absent(vote) : w = NewRow(key)
        BY <2>4, <1>4
    <2>. QED  BY <2>3, <2>4, <1>1
<1>9. \A row : row \in opinions' <=>
                  \/ row \in written
                  \/ /\ row \in opinions
                     /\ ~(row.by = by /\ row.key \in DOMAIN vote.says)
    BY <1>2
<1>10. {w.key : w \in written} = DOMAIN vote.says
    BY <1>5, <1>6
<1>. QED  BY <1>5, <1>7, <1>8, <1>9, <1>10

LEMMA EndVoteHolds ==
    ASSUME VotesInv, NEW vote \in votes, EndVote(vote)
    PROVE  VotesInv'
<1>. DEFINE by == vote.by
<1>1. PICK written :
         /\ \A row : row \in opinions' <=>
              \/ row \in written
              \/ row \in opinions /\ ~(row.by = by /\ row.key \in DOMAIN vote.says)
         /\ \A w \in written : w.by = by /\ w.updated_at = vote.at
         /\ {w.key : w \in written} = DOMAIN vote.says
         /\ OncePerKey(written)
         /\ by \notin crossed => \A w \in written : w.value = vote.says[w.key]
    BY VoteWrites, Zenon
<1>2. /\ votes' = votes \ {vote} /\ crossed' = crossed
      /\ voted' = [voted EXCEPT ![by] =
                    [key \in DOMAIN @ \cup DOMAIN vote.says |->
                        IF key \in DOMAIN vote.says THEN vote.says[key]
                        ELSE @[key]]]
    BY DEF EndVote
<1>3. by \in Reviewers /\ \A w \in written : w.key \in DOMAIN vote.says
    BY <1>1 DEF VotesInv
<1>4. \A row \in opinions' : row.by \in Reviewers
    BY <1>1, <1>3 DEF VotesInv
<1>5. \A q, row \in opinions' : q.by = row.by /\ q.key = row.key => q = row
    BY <1>1, <1>3 DEF VotesInv, OncePerKey
<1>6. \A r : r # by => OpinionsOf(r)' = OpinionsOf(r) /\ Opined(r)' = Opined(r)
    BY <1>1 DEF OpinionsOf, Opined
<1>7. \A key : key \in Opined(by)' <=> key \in Opined(by) \/ key \in DOMAIN vote.says
    <2>1. \A key : key \in Opined(by)' <=>
                      \E row \in opinions' : row.by = by /\ row.key = key
        BY DEF Opined, OpinionsOf
    <2>2. \A key : key \in Opined(by) <=>
                      \E row \in opinions : row.by = by /\ row.key = key
        BY DEF Opined, OpinionsOf
    <2>3. ASSUME NEW key \in Opined(by)'
          PROVE  key \in Opined(by) \/ key \in DOMAIN vote.says
        BY <2>1, <2>2, <2>3, <1>1, <1>3
    <2>4. ASSUME NEW key \in DOMAIN vote.says
          PROVE  key \in Opined(by)'
        <3>1. PICK w \in written : w.key = key
            BY <1>1
        <3>. QED  BY <3>1, <2>1, <1>1
    <2>5. \A key \in Opined(by) : key \notin DOMAIN vote.says => key \in Opined(by)'
        BY <2>1, <2>2, <1>1
    <2>. QED  BY <2>3, <2>4, <2>5
<1>8. /\ voted' = [r \in Reviewers |-> voted'[r]]
      /\ \A r \in Reviewers \ {by} : voted'[r] = voted[r]
      /\ voted'[by] = [key \in DOMAIN voted[by] \cup DOMAIN vote.says |->
                          IF key \in DOMAIN vote.says THEN vote.says[key]
                          ELSE voted[by][key]]
    <2>1. voted = [r \in Reviewers |-> voted[r]]
        BY DEF VotesInv
    <2>2. voted' = [r \in Reviewers |-> voted'[r]]
        BY <2>1, <1>2
    <2>3. \A r \in Reviewers \ {by} : voted'[r] = voted[r]
        BY <2>1, <1>2
    <2>4. voted'[by] = [key \in DOMAIN voted[by] \cup DOMAIN vote.says |->
                          IF key \in DOMAIN vote.says THEN vote.says[key]
                          ELSE voted[by][key]]
        BY <2>1, <1>2, <1>3
    <2>. QED  BY <2>2, <2>3, <2>4
<1>9. \A r \in Reviewers : Opined(r)' = DOMAIN voted'[r]
    <2>1. \A r \in Reviewers : Opined(r) = DOMAIN voted[r]
        BY DEF VotesInv
    <2>2. Opined(by)' = DOMAIN voted'[by]
        BY <2>1, <1>3, <1>7, <1>8
    <2>3. ASSUME NEW r \in Reviewers, r # by
          PROVE  Opined(r)' = DOMAIN voted'[r]
        BY <2>1, <2>3, <1>6, <1>8
    <2>. QED  BY <2>2, <2>3
<1>10. ASSUME NEW v \in votes'
       PROVE  /\ v.by \in Reviewers /\ OncePerKey(v.read)
              /\ \A row \in v.read : /\ row.key \in DOMAIN v.says
                                     /\ row.key \in Opined(v.by)'
    <2>1. v \in votes
        BY <1>2
    <2>2. \A r, key : key \in Opined(r) => key \in Opined(r)'
        BY <1>6, <1>7
    <2>. QED  BY <2>1, <2>2 DEF VotesInv
<1>11. ASSUME NEW r \in Reviewers \ crossed'
       PROVE  /\ \A v, w \in votes' : v.by = r /\ w.by = r => v = w
              /\ \A v \in votes' : v.by = r => v.read = ReadBy(v)'
              /\ \A row \in OpinionsOf(r)' : row.value = voted'[r][row.key]
    <2>1. /\ \A v, w \in votes : v.by = r /\ w.by = r => v = w
          /\ \A v \in votes : v.by = r => v.read = ReadBy(v)
          /\ \A row \in OpinionsOf(r) : row.value = voted[r][row.key]
        BY <1>2 DEF VotesInv
    <2>2. CASE r # by
        <3>1. \A v \in votes' : v.by = r => ReadBy(v)' = ReadBy(v)
            BY <2>2, <1>6 DEF ReadBy
        <3>2. OpinionsOf(r)' = OpinionsOf(r) /\ voted'[r] = voted[r]
              /\ votes' \subseteq votes
            BY <2>2, <1>2, <1>6, <1>8
        <3>. QED  BY <2>1, <3>1, <3>2
    <2>3. CASE r = by
        <3>1. \A v \in votes' : v.by # r
            BY <2>1, <2>3, <1>2
        <3>2. ASSUME NEW row \in OpinionsOf(r)'
              PROVE  row.value = voted'[r][row.key]
            <4>1. row \in opinions' /\ row.by = by /\ row.key \in DOMAIN voted'[by]
                BY <2>3, <1>3, <1>9 DEF OpinionsOf, Opined
            <4>2. CASE row \in written
                BY <4>1, <4>2, <2>3, <1>1, <1>2, <1>3, <1>8
            <4>3. CASE row \in opinions /\ row.key \notin DOMAIN vote.says
                <5>1. row.value = voted[by][row.key]
                    BY <4>1, <4>3, <2>1, <2>3 DEF OpinionsOf
                <5>. QED  BY <5>1, <4>1, <4>3, <2>3, <1>8
            <4>. QED  BY <4>1, <4>2, <4>3, <1>1
        <3>. QED  BY <3>1, <3>2
    <2>. QED  BY <2>2, <2>3
<1>. QED  BY <1>4, <1>5, <1>8, <1>9, <1>10, <1>11 DEF VotesInv

-----------------------------------------------------------------------------
(* The history.                                                            *)

\* What a vote writes is logged as what it is.
LEMMA VoteIsLogged ==
    ASSUME VotesInv, HistoryInv, NEW vote \in votes, EndVote(vote)
    PROVE  HistoryInv'
<1>1. PICK written :
         /\ \A row : row \in opinions' <=>
              \/ row \in written
              \/ /\ row \in opinions
                 /\ ~(row.by = vote.by /\ row.key \in DOMAIN vote.says)
         /\ \A w \in written : w.by = vote.by /\ w.updated_at = vote.at
         /\ {w.key : w \in written} = DOMAIN vote.says
    BY VoteWrites, Zenon
<1>2. PICK e : e = [action |-> IF "recommendation" \in DOMAIN vote.says
                               THEN "internal_recommendation_updated"
                               ELSE "rubric_updated",
                    by |-> vote.by, at |-> vote.at]
    OBVIOUS
<1>3. events' = events \cup {e} /\ UNCHANGED <<rows, comments>>
    BY <1>2 DEF EndVote, Log, scoring
<1>4. \A actions, by, at : Logged(actions, by, at) => Logged(actions, by, at)'
    BY <1>3 DEF Logged
<1>5. ASSUME NEW w \in written
      PROVE  Logged(IF w.key = "recommendation"
                    THEN {"internal_recommendation_updated"}
                    ELSE {"rubric_updated", "internal_recommendation_updated"},
                    w.by, w.updated_at)'
    <2>1. w.by = vote.by /\ w.updated_at = vote.at /\ w.key \in DOMAIN vote.says
        BY <1>1
    <2>. QED  BY <2>1, <1>2, <1>3 DEF Logged
<1>6. \A row \in opinions' :
         Logged(IF row.key = "recommendation"
                THEN {"internal_recommendation_updated"}
                ELSE {"rubric_updated", "internal_recommendation_updated"},
                row.by, row.updated_at)'
    BY <1>1, <1>4, <1>5 DEF HistoryInv
<1>. QED  BY <1>3, <1>4, <1>6 DEF HistoryInv

LEMMA CommentIsLogged ==
    ASSUME HistoryInv, NEW r \in Reviewers, Comment(r)
    PROVE  HistoryInv'
<1>1. PICK e : e = [action |-> "comment_added", by |-> r, at |-> clock + 1]
    OBVIOUS
<1>2. PICK c : c = [by |-> r, at |-> clock + 1]
    OBVIOUS
<1>3. /\ events' = events \cup {e} /\ comments' = comments \cup {c}
      /\ UNCHANGED <<rows, opinions>>
    BY <1>1, <1>2 DEF Comment, Log, scoring, voteVars
<1>4. \A actions, by, at : Logged(actions, by, at) => Logged(actions, by, at)'
    BY <1>3 DEF Logged
<1>5. Logged({"comment_added"}, c.by, c.at)' /\ c = [by |-> c.by, at |-> c.at]
    BY <1>1, <1>2, <1>3 DEF Logged
<1>. QED  BY <1>3, <1>4, <1>5 DEF HistoryInv

\* A save that wrote anything had scores, and so it is logged.
LEMMA SaveIsLogged ==
    ASSUME ScoresInv, HistoryInv, ScoringStep
    PROVE  HistoryInv'
<1>1. /\ events' = events \cup
           {[action |-> "section_scores_updated", by |-> s.by, at |-> s.at]
              : s \in {save \in saves \ saves' :
                          ~Clash(save) /\ save.scores # <<>>}}
      /\ UNCHANGED <<opinions, comments>> /\ Next
    BY DEF ScoringStep, voteVars
<1>2. events \subseteq events'
    BY <1>1
<1>3. CASE UNCHANGED rows
    BY <1>1, <1>2, <1>3, HistoryOtherwise
<1>4. ASSUME NEW save \in saves, Flush(save)
      PROVE  HistoryInv'
    <2>1. \A actions, by, at : Logged(actions, by, at) => Logged(actions, by, at)'
        BY <1>2 DEF Logged
    <2>2. ASSUME NEW row \in rows', row \notin rows
          PROVE  Logged({"section_scores_updated"}, row.by, row.updated_at)'
        <3>1. row \in Written(save) /\ save \in saves \ saves' /\ ~Clash(save)
            BY <1>4, <2>2 DEF Flush
        <3>2. /\ row.by = save.by /\ row.updated_at = save.at
              /\ Changed(save) # {} \/ New(save) # {}
            BY <3>1 DEF Written
        <3>3. \E key : key \in DOMAIN save.scores
            BY <3>2 DEF Changed, New, ScoresInv, SaveOK
        <3>4. save.scores # <<>>
            BY <3>3
        <3>5. [action |-> "section_scores_updated", by |-> save.by, at |-> save.at]
                 \in events'
            BY <3>1, <3>4, <1>1
        <3>. QED  BY <3>2, <3>5 DEF Logged
    <2>3. \A row \in rows' :
             Logged({"section_scores_updated"}, row.by, row.updated_at)'
        BY <2>1, <2>2 DEF HistoryInv
    <2>. QED  BY <1>1, <2>1, <2>3 DEF HistoryInv
<1>. QED  BY <1>1, <1>3, <1>4 DEF Next, Change, BeginSave, Refused

-----------------------------------------------------------------------------
(* The AI summary.                                                         *)

\* What is shown is the last, when there is one.
LEMMA ShownIsIn ==
    ASSUME NEW n \in Nat, NEW all, all # {}, \A s \in all : s.at \in 0..n
    PROVE  /\ ShownIn(all) \in all
           /\ \A s \in all : s.at =< ShownIn(all).at
<1>. DEFINE T == {s.at : s \in all}
<1>1. T \subseteq 0..n /\ T # {}
    OBVIOUS
<1>2. Max(T) \in T /\ \A t \in T : Max(T) >= t
    <2>. HIDE DEF T
    <2>. QED  BY <1>1, Last
<1>3. PICK s \in all : s.at = Max(T)
    BY <1>2
<1>4. \A other \in all : other.at =< s.at
    <2>1. ASSUME NEW other \in all
          PROVE  other.at =< s.at
        <3>1. other.at \in T
            OBVIOUS
        <3>2. Max(T) >= other.at
            BY <3>1, <1>2
        <3>3. other.at \in Int /\ Max(T) \in Int
            BY <3>1, <1>1, <1>2
        <3>. QED  BY <3>2, <3>3, <1>3
    <2>. QED  BY <2>1
<1>. QED  BY <1>4 DEF ShownIn

LEMMA ShownIsLast ==
    ASSUME NEW all, NEW c \in all, \A s \in all : s.at \in Nat,
           \A s \in all : s.at =< c.at, \A s \in all : s.at = c.at => s = c
    PROVE  ShownIn(all) = c
<1>1. \A s \in all : (\A other \in all : other.at =< s.at) => s = c
    BY SMT
<1>. QED  BY <1>1 DEF ShownIn

LEMMA BeginSummaryHolds ==
    ASSUME SummaryInv, clock \in Nat, NEW force \in BOOLEAN, BeginSummary(force)
    PROVE  SummaryInv'
<1>1. PICK draft : draft = [force |-> force, hash |-> InputHash, prior |-> Shown,
                            loaded |-> card, at |-> clock + 1]
    OBVIOUS
<1>2. /\ drafts' = drafts \cup {draft} /\ clock' = clock + 1
      /\ crossed' = IF drafts = {} THEN crossed ELSE crossed \cup {"summary"}
      /\ UNCHANGED <<summaries, card>>
      /\ draft.prior = Shown /\ draft.loaded = card /\ draft.at = clock + 1
    BY <1>1 DEF BeginSummary, Begins
<1>3. 1..clock \subseteq 1..clock' /\ clock + 1 \in 1..clock'
    BY <1>2
<1>4. Shown' = Shown /\ NoSummaryTwice' = NoSummaryTwice
    BY <1>2 DEF Shown, NoSummaryTwice
<1>5. \A q \in summaries : q.at < draft.at /\ q.on < draft.at
    BY <1>2 DEF SummaryInv
<1>6. Before(draft.at) = summaries /\ \A t : Before(t)' = Before(t)
    BY <1>2, <1>5 DEF Before
<1>7. ASSUME NEW d \in drafts'
      PROVE  /\ d.at \in 1..clock'
             /\ \A q \in summaries' : q.at # d.at
             /\ d.prior = ShownIn(Before(d.at)')
    <2>1. CASE d \in drafts
        BY <2>1, <1>2, <1>3, <1>6 DEF SummaryInv
    <2>2. CASE d = draft
        <3>1. \A q \in summaries' : q.at # d.at
            BY <2>2, <1>2 DEF SummaryInv
        <3>. QED  BY <2>2, <3>1, <1>2, <1>3, <1>6 DEF Shown
    <2>. QED  BY <2>1, <2>2, <1>2
<1>8. \A d, e \in drafts' : d.at = e.at => d = e
    <2>1. \A d \in drafts : d.at # clock + 1
        BY DEF SummaryInv
    <2>. QED  BY <2>1, <1>2 DEF SummaryInv
<1>9. ASSUME "summary" \notin crossed'
      PROVE  /\ card' = Shown'.advice \/ Shown'.hash = <<>>
             /\ \A d, e \in drafts' : d = e
             /\ \A d \in drafts' : InTime(d)' \/ Overtaken(d)'
    <2>1. drafts = {} /\ "summary" \notin crossed
        BY <1>2, <1>9
    <2>2. card = Shown.advice \/ Shown.hash = <<>>
        BY <2>1 DEF SummaryInv
    <2>3. InTime(draft)'
        BY <1>2, <1>4, <1>5 DEF InTime
    <2>. QED  BY <2>1, <2>2, <2>3, <1>2, <1>4
<1>10. \A s \in summaries' : s.at \in 1..clock' /\ s.on \in 1..clock'
    BY <1>2, <1>3 DEF SummaryInv
<1>. QED  BY <1>2, <1>4, <1>7, <1>8, <1>9, <1>10 DEF SummaryInv

\* When the one run there is ends without a summary, the card is right, unless
\* a check's summary has come.
LEMMA CollectedIsShown ==
    ASSUME SummaryInv, "summary" \notin crossed, NEW d \in drafts
    PROVE  \/ Overtaken(d)
           \/ /\ Shown = d.prior /\ \A q \in summaries : q.at < d.at
              /\ Collected(d) = d.prior.advice
<1>1. InTime(d) \/ Overtaken(d)
    BY DEF SummaryInv
<1>2. CASE InTime(d)
    BY <1>2 DEF InTime, Collected, Kept
<1>. QED  BY <1>1, <1>2

LEMMA OvertakenIsShown ==
    ASSUME SummaryInv, clock \in Nat, NEW d \in drafts, Overtaken(d)
    PROVE  Shown.hash = <<>>
<1>1. PICK c \in summaries : /\ c.at > d.at /\ c.hash = <<>>
                             /\ \A q \in summaries : q.at =< c.at
    BY DEF Overtaken
<1>2. /\ \A s \in summaries : s.at \in Nat
      /\ \A s \in summaries : s.at = c.at => s = c
    BY DEF SummaryInv
<1>3. ShownIn(summaries) = c
    BY <1>1, <1>2, ShownIsLast
<1>. QED  BY <1>1, <1>3 DEF Shown

LEMMA NoSummaryHolds ==
    ASSUME SummaryInv, clock \in Nat, NEW d \in drafts,
           card' = Collected(d), drafts' = drafts \ {d},
           UNCHANGED <<clock, summaries, crossed>>
    PROVE  SummaryInv'
<1>1. Shown' = Shown /\ NoSummaryTwice' = NoSummaryTwice
    BY DEF Shown, NoSummaryTwice
<1>2. ASSUME "summary" \notin crossed
      PROVE  /\ drafts' = {}
             /\ card' = Shown.advice \/ Shown.hash = <<>>
    <2>1. drafts' = {}
        BY <1>2 DEF SummaryInv
    <2>. QED  BY <2>1, <1>2, CollectedIsShown, OvertakenIsShown
<1>3. \A t : Before(t)' = Before(t)
    BY DEF Before
<1>. QED  BY <1>1, <1>2, <1>3 DEF SummaryInv

\* A summary that comes in is of this moment, so that what any run found when
\* it began stands.
LEMMA BeforeStands ==
    ASSUME NEW new, NEW t, summaries' = summaries \cup {new}, ~(new.on < t)
    PROVE  Before(t)' = Before(t)
BY DEF Before

LEMMA NoneTwiceHolds ==
    ASSUME SummaryInv, clock \in Nat, NEW new, summaries' = summaries \cup {new},
           new.at \in Nat, new.on \in Nat, new.on >= clock, new.on >= new.at,
           new.hash # <<>> /\ ~new.forced =>
               ShownIn(Before(new.at)).hash # new.hash
    PROVE  NoSummaryTwice'
<1>1. ASSUME NEW s \in summaries', s.hash # <<>>, ~s.forced
      PROVE  LET before == {q \in summaries' : q.on < s.at}
             IN  before = {} \/ ShownIn(before).hash # s.hash
    <2>1. CASE s = new
        <3>1. Before(new.at)' = Before(new.at)
            <4>1. ~(new.on < new.at)
                OBVIOUS
            <4>. QED  BY <4>1, BeforeStands
        <3>. QED  BY <2>1, <3>1, <1>1 DEF Before
    <2>2. CASE s \in summaries
        <3>1. s.at \in 1..clock
            BY <2>2 DEF SummaryInv
        <3>2. ~(new.on < s.at)
            BY <3>1
        <3>3. Before(s.at)' = Before(s.at)
            BY <3>2, BeforeStands
        <3>4. Before(s.at) = {} \/ ShownIn(Before(s.at)).hash # s.hash
            BY <2>2, <1>1 DEF SummaryInv, NoSummaryTwice, Before
        <3>. QED  BY <3>3, <3>4 DEF Before
    <2>. QED  BY <2>1, <2>2
<1>. QED  BY <1>1 DEF NoSummaryTwice

LEMMA EndSummaryHolds ==
    ASSUME SummaryInv, clock \in Nat, NEW draft \in drafts, NEW advice \in Advice,
           EndSummary(draft, advice)
    PROVE  SummaryInv'
<1>1. PICK new : new = [at |-> draft.at, hash |-> draft.hash, advice |-> advice,
                        forced |-> draft.force, on |-> clock]
    OBVIOUS
<1>2. /\ summaries' = summaries \cup {new} /\ drafts' = drafts \ {draft}
      /\ card' = CardAfter(draft, Shown') /\ UNCHANGED <<clock, crossed>>
      /\ draft.force \/ draft.prior.hash # draft.hash
      /\ new.at = draft.at /\ new.on = clock /\ new.hash = draft.hash
      /\ new.forced = draft.force /\ new.advice = advice
    BY <1>1 DEF EndSummary, Skips, Shown
<1>3. /\ draft.at \in 1..clock /\ \A q \in summaries : q.at # draft.at
      /\ draft.prior = ShownIn(Before(draft.at))
    BY DEF SummaryInv
<1>4. NoSummaryTwice'
    <2>1. new.at \in Nat /\ new.on \in Nat /\ new.on >= clock /\ new.on >= new.at
        BY <1>2, <1>3
    <2>2. ~new.forced => ShownIn(Before(new.at)).hash # new.hash
        BY <1>2, <1>3
    <2>. QED  BY <2>1, <2>2, <1>2, NoneTwiceHolds
<1>5. \A s \in summaries' : s.at \in 1..clock' /\ s.on \in 1..clock'
    BY <1>2, <1>3 DEF SummaryInv
<1>6. \A q, s \in summaries' : q.at = s.at => q = s
    BY <1>2, <1>3 DEF SummaryInv
<1>7. ASSUME NEW d \in drafts'
      PROVE  /\ d.at \in 1..clock'
             /\ \A q \in summaries' : q.at # d.at
             /\ d.prior = ShownIn(Before(d.at)')
    <2>1. /\ d \in drafts /\ d # draft /\ d.at \in 1..clock
          /\ d.prior = ShownIn(Before(d.at))
          /\ \A q \in summaries : q.at # d.at
        BY <1>2 DEF SummaryInv
    <2>2. d.at # new.at
        BY <2>1, <1>2 DEF SummaryInv
    <2>3. Before(d.at)' = Before(d.at)
        <3>1. ~(new.on < d.at)
            BY <2>1, <1>2
        <3>. QED  BY <3>1, <1>2, BeforeStands
    <2>. QED  BY <2>1, <2>2, <2>3, <1>2
<1>8. ASSUME "summary" \notin crossed'
      PROVE  drafts' = {} /\ (card' = Shown'.advice \/ Shown'.hash = <<>>)
    <2>1. drafts' = {} /\ "summary" \notin crossed
        BY <1>2, <1>8 DEF SummaryInv
    <2>2. CASE Overtaken(draft)
        <3>1. PICK c \in summaries : /\ c.at > draft.at /\ c.hash = <<>>
                                     /\ \A q \in summaries : q.at =< c.at
            BY <2>2 DEF Overtaken
        <3>2. /\ \A s \in summaries' : s.at \in Nat
              /\ \A s \in summaries' : s.at =< c.at
              /\ \A s \in summaries' : s.at = c.at => s = c
              /\ c \in summaries'
            <4>1. c.at \in 1..clock /\ draft.at =< c.at
                BY <3>1, <1>3 DEF SummaryInv
            <4>2. \A s \in summaries' : s.at \in Nat
                BY <1>2, <1>5
            <4>3. \A s \in summaries' : s.at =< c.at
                BY <4>1, <3>1, <1>2
            <4>. QED  BY <4>2, <4>3, <3>1, <1>2, <1>6
        <3>3. ShownIn(summaries') = c
            BY <3>2, ShownIsLast
        <3>. QED  BY <2>1, <3>1, <3>3 DEF Shown
    <2>3. CASE ~Overtaken(draft)
        <3>1. /\ Shown = draft.prior /\ \A q \in summaries : q.at < draft.at
              /\ Collected(draft) = draft.prior.advice
            BY <2>1, <2>3, CollectedIsShown
        <3>2. /\ \A s \in summaries' : s.at \in Nat
              /\ \A s \in summaries' : s.at =< new.at
              /\ \A s \in summaries' : s.at = new.at => s = new
              /\ new \in summaries'
            <4>1. \A s \in summaries' : s.at \in Nat
                BY <1>2, <1>5
            <4>2. \A s \in summaries' : s.at =< new.at
                BY <4>1, <3>1, <1>2, <1>3
            <4>. QED  BY <4>1, <4>2, <1>2, <1>6
        <3>3. Shown' = new
            <4>1. ShownIn(summaries') = new
                BY <3>2, ShownIsLast
            <4>. QED  BY <4>1 DEF Shown
        <3>4. card' = advice
            BY <3>1, <3>3, <1>2 DEF CardAfter, Kept
        <3>. QED  BY <2>1, <3>3, <3>4, <1>2
    <2>. QED  BY <2>2, <2>3
<1>9. \A d, e \in drafts' : d.at = e.at => d = e
    BY <1>2 DEF SummaryInv
<1>. QED  BY <1>4, <1>5, <1>6, <1>7, <1>8, <1>9 DEF SummaryInv

LEMMA RebuildHolds ==
    ASSUME SummaryInv, clock \in Nat, RebuildCard
    PROVE  SummaryInv'
<1>1. /\ card' = Shown.advice
      /\ UNCHANGED <<clock, summaries, drafts, crossed>>
    BY DEF RebuildCard
<1>2. Shown' = Shown /\ NoSummaryTwice' = NoSummaryTwice
    BY <1>1 DEF Shown, NoSummaryTwice
<1>3. \A d : /\ InTime(d) => InTime(d)'
             /\ Overtaken(d) => Overtaken(d)'
    BY <1>1, <1>2 DEF InTime, Overtaken
<1>4. \A t : Before(t)' = Before(t)
    BY <1>1 DEF Before
<1>. QED  BY <1>1, <1>2, <1>3, <1>4 DEF SummaryInv

LEMMA EndCheckHolds ==
    ASSUME SummaryInv, clock \in Nat, NEW check \in checks, EndCheck(check)
    PROVE  SummaryInv'
<1>1. PICK new : new = [NoSummary EXCEPT !.at = clock + 1, !.on = clock + 1]
    OBVIOUS
<1>2. /\ summaries' = summaries \cup {new} /\ clock' = clock + 1
      /\ UNCHANGED <<drafts, card, crossed>>
      /\ new.at = clock + 1 /\ new.on = clock + 1 /\ new.hash = <<>>
    BY <1>1 DEF EndCheck, Begins, NoSummary
<1>3. 1..clock \subseteq 1..clock' /\ clock + 1 \in 1..clock'
    BY <1>2
<1>4. \A s \in summaries' : s.at \in 1..clock' /\ s.on \in 1..clock'
    BY <1>2, <1>3 DEF SummaryInv
<1>5. \A s \in summaries : s.at < new.at
    BY <1>2 DEF SummaryInv
<1>6. \A q, s \in summaries' : q.at = s.at => q = s
    <2>1. \A s \in summaries : s.at # new.at
        BY <1>2 DEF SummaryInv
    <2>. QED  BY <2>1, <1>2 DEF SummaryInv
<1>7. NoSummaryTwice'
    <2>1. new.at \in Nat /\ new.on \in Nat /\ new.on >= clock /\ new.on >= new.at
        BY <1>2
    <2>. QED  BY <2>1, <1>2, NoneTwiceHolds
<1>8. ASSUME NEW d \in drafts'
      PROVE  /\ d.at \in 1..clock'
             /\ \A q \in summaries' : q.at # d.at
             /\ d.prior = ShownIn(Before(d.at)')
    <2>1. /\ d.at \in 1..clock /\ d.at # new.at
          /\ d.prior = ShownIn(Before(d.at))
          /\ \A q \in summaries : q.at # d.at
        BY <1>2 DEF SummaryInv
    <2>2. Before(d.at)' = Before(d.at)
        <3>1. ~(new.on < d.at)
            BY <2>1, <1>2
        <3>. QED  BY <3>1, <1>2, BeforeStands
    <2>. QED  BY <2>1, <2>2, <1>2, <1>3
<1>9. /\ \A s \in summaries' : s.at \in Nat
      /\ \A s \in summaries' : s.at =< new.at
      /\ new \in summaries'
    <2>1. \A s \in summaries' : s.at \in Nat
        BY <1>2, <1>4
    <2>. QED  BY <2>1, <1>2, <1>5
<1>10. Shown'.hash = <<>>
    <2>1. ShownIn(summaries') = new
        BY <1>6, <1>9, ShownIsLast
    <2>. QED  BY <2>1, <1>2 DEF Shown
<1>11. ASSUME NEW d \in drafts'
       PROVE  Overtaken(d)'
    <2>1. new.at > d.at
        BY <1>2 DEF SummaryInv
    <2>. QED  BY <2>1, <1>2, <1>9 DEF Overtaken
<1>12. /\ \A d, e \in drafts' : d.at = e.at => d = e
       /\ "summary" \notin crossed' => \A d, e \in drafts' : d = e
    BY <1>2 DEF SummaryInv
<1>. QED  BY <1>4, <1>6, <1>7, <1>8, <1>10, <1>11, <1>12 DEF SummaryInv

-----------------------------------------------------------------------------
(* Every step of the desk.                                                 *)

LEMMA DeskInitHolds ==
    ASSUME DeskInit
    PROVE  DeskInv
<1>1. ScoresInv
    BY ScoresInit DEF DeskInit
<1>2. TagsInv
    BY DEF DeskInit, TagsInv
<1>3. VotesInv
    <2>1. \A r : OpinionsOf(r) = {} /\ Opined(r) = {}
        BY DEF DeskInit, OpinionsOf, Opined
    <2>2. voted = [r \in Reviewers |-> <<>>]
        BY DEF DeskInit
    <2>3. \A r \in Reviewers : voted[r] = <<>> /\ DOMAIN voted[r] = {}
        BY <2>2
    <2>. QED  BY <2>1, <2>2, <2>3 DEF DeskInit, VotesInv
<1>4. HistoryInv
    BY DEF DeskInit, Init, HistoryInv
<1>5. SummaryInv
    <2>1. summaries = {} /\ drafts = {} /\ card = "none"
        BY DEF DeskInit
    <2>2. Shown = NoSummary /\ NoSummaryTwice
        BY <2>1 DEF Shown, ShownIn, NoSummaryTwice
    <2>. QED  BY <2>1, <2>2 DEF SummaryInv, NoSummary
<1>. QED  BY <1>1, <1>2, <1>3, <1>4, <1>5 DEF DeskInv

\* The clock and the scores, whatever else begins or ends.
LEMMA BesideScores ==
    ASSUME ScoresInv, Begins \/ UNCHANGED clock, UNCHANGED scoring
    PROVE  /\ ScoresInv'
           /\ clock \in Nat /\ clock' \in Nat /\ clock' >= clock
<1>1. clock \in 0..MaxSaves /\ MaxSaves \in Nat /\ sheet \in Sheets
    BY DeskAssumption DEF ScoresInv
<1>2. clock' \in 0..MaxSaves /\ clock' >= clock
    BY <1>1 DEF Begins
<1>. QED  BY <1>1, <1>2, ScoresOtherwise DEF scoring

LEMMA DeskNextHolds ==
    ASSUME DeskInv, DeskNext
    PROVE  DeskInv'
<1>. USE DEF DeskInv
<1>0. clock \in Nat
    BY DeskAssumption DEF ScoresInv
<1>1. CASE ScoringStep
    <2>1. ScoresInv' /\ Next
        BY <1>1, ScoresNext DEF ScoringStep
    <2>2. clock' \in Nat /\ clock' >= clock
        <3>1. \A s : Change(s) => clock' = clock
            BY DEF Change
        <3>2. \A r, form : BeginSave(r, form) => clock' = clock + 1
            BY DEF BeginSave
        <3>3. \A save : Flush(save) \/ Refused(save) => clock' = clock
            BY DEF Flush, Refused
        <3>. QED  BY <2>1, <3>1, <3>2, <3>3, <1>0 DEF Next
    <2>3. UNCHANGED <<tagVars, voteVars, summaries, drafts, card, crossed>>
        BY <1>1 DEF ScoringStep, summaryVars
    <2>. QED  BY <1>0, <1>1, <2>1, <2>2, <2>3, TagsOtherwise, VotesOtherwise,
              SummaryOtherwise, SaveIsLogged
<1>2. ASSUME UNCHANGED <<scoring, voteVars, summaryVars, comments>>,
             events \subseteq events', crossed \subseteq crossed',
             Begins \/ UNCHANGED clock, TagsInv'
      PROVE  DeskInv'
    <2>1. ScoresInv' /\ clock' \in Nat /\ clock' >= clock
        BY <1>2, BesideScores
    <2>2. UNCHANGED <<summaries, drafts, card>> /\ UNCHANGED <<rows, opinions, comments>>
        BY <1>2 DEF summaryVars, voteVars, scoring
    <2>. QED  BY <1>0, <1>2, <2>1, <2>2, VotesOtherwise, HistoryOtherwise,
              SummaryOtherwise
<1>3. ASSUME UNCHANGED <<scoring, tagVars, summaryVars>>,
             crossed \subseteq crossed', Begins \/ UNCHANGED clock,
             VotesInv', HistoryInv'
      PROVE  DeskInv'
    <2>1. ScoresInv' /\ clock' \in Nat /\ clock' >= clock
        BY <1>3, BesideScores
    <2>2. UNCHANGED <<summaries, drafts, card>>
        BY <1>3 DEF summaryVars
    <2>. QED  BY <1>0, <1>3, <2>1, <2>2, TagsOtherwise, SummaryOtherwise
<1>4. ASSUME UNCHANGED <<scoring, tagVars, voteVars, comments>>,
             events \subseteq events', crossed \subseteq crossed',
             Begins \/ UNCHANGED clock, SummaryInv'
      PROVE  DeskInv'
    <2>1. ScoresInv'
        BY <1>4, BesideScores
    <2>2. UNCHANGED <<rows, opinions, comments>>
        BY <1>4 DEF voteVars, scoring
    <2>. QED  BY <1>4, <2>1, <2>2, TagsOtherwise, VotesOtherwise, HistoryOtherwise
<1>5. ASSUME NEW tags \in TagRequests, BeginTags(tags)
      PROVE  DeskInv'
    BY <1>2, <1>5, BeginTagsHolds DEF BeginTags
<1>6. ASSUME NEW edit \in edits, EndTags(edit)
      PROVE  DeskInv'
    BY <1>2, <1>6, EndTagsHolds DEF EndTags, Log
<1>7. ASSUME NEW edit \in edits, RefuseTags(edit)
      PROVE  DeskInv'
    BY <1>2, <1>7, RefuseTagsHolds DEF RefuseTags, tagVars
<1>8. ASSUME NEW r \in Reviewers, NEW verdict \in Verdicts, BeginVote(r, verdict)
      PROVE  DeskInv'
    <2>1. HistoryInv'
        BY <1>8, HistoryOtherwise DEF BeginVote, scoring
    <2>. QED  BY <1>3, <1>8, <2>1, BeginVoteHolds DEF BeginVote
<1>9. ASSUME NEW vote \in votes, EndVote(vote)
      PROVE  DeskInv'
    BY <1>3, <1>9, EndVoteHolds, VoteIsLogged DEF EndVote
<1>10. ASSUME NEW vote \in votes, RefuseVote(vote)
       PROVE  DeskInv'
    <2>1. HistoryInv'
        BY <1>10, HistoryOtherwise DEF RefuseVote, scoring
    <2>. QED  BY <1>3, <1>10, <2>1, RefuseVoteHolds DEF RefuseVote
<1>11. ASSUME NEW r \in Reviewers, Comment(r)
       PROVE  DeskInv'
    <2>1. VotesInv'
        BY <1>11, VotesOtherwise DEF Comment
    <2>. QED  BY <1>3, <1>11, <2>1, CommentIsLogged DEF Comment
<1>12. ASSUME NEW force \in BOOLEAN, BeginSummary(force)
       PROVE  DeskInv'
    BY <1>0, <1>4, <1>12, BeginSummaryHolds DEF BeginSummary
<1>13. ASSUME NEW draft \in drafts, SkipSummary(draft) \/ FailSummary(draft)
       PROVE  DeskInv'
    <2>1. /\ card' = Collected(draft) /\ drafts' = drafts \ {draft}
          /\ UNCHANGED <<clock, summaries, crossed, scoring, tagVars, voteVars,
                         comments>>
          /\ events \subseteq events'
        BY <1>13 DEF SkipSummary, FailSummary, Log
    <2>. QED  BY <1>0, <1>4, <2>1, NoSummaryHolds
<1>14. ASSUME NEW draft \in drafts, NEW advice \in Advice, EndSummary(draft, advice)
       PROVE  DeskInv'
    BY <1>0, <1>4, <1>14, EndSummaryHolds DEF EndSummary, Log
<1>15. CASE RebuildCard
    BY <1>0, <1>4, <1>15, RebuildHolds DEF RebuildCard
<1>16. CASE StartCheck
    <2>1. /\ UNCHANGED <<scoring, summaries, drafts, card, tagVars, voteVars,
                         comments, events, crossed>>
          /\ Begins
        BY <1>16 DEF StartCheck
    <2>2. SummaryInv'
        BY <1>0, <2>1, BesideScores, SummaryOtherwise
    <2>. QED  BY <1>4, <2>1, <2>2
<1>17. ASSUME NEW check \in checks, EndCheck(check)
       PROVE  DeskInv'
    BY <1>0, <1>4, <1>17, EndCheckHolds DEF EndCheck
<1>. QED  BY <1>1, <1>5, <1>6, <1>7, <1>8, <1>9, <1>10, <1>11, <1>12, <1>13,
             <1>14, <1>15, <1>16, <1>17 DEF DeskNext

LEMMA DeskStepHolds ==
    ASSUME DeskInv, [DeskNext]_<<vars, desk>>
    PROVE  DeskInv'
<1>1. CASE UNCHANGED <<vars, desk>>
    <2>1. UNCHANGED <<scoring, clock, tagVars, voteVars, summaryVars, comments,
                      events, crossed>>
        BY <1>1 DEF vars, desk, scoring, history
    <2>2. UNCHANGED <<summaries, drafts, card>> /\ UNCHANGED <<rows, opinions, comments>>
        BY <2>1 DEF summaryVars, voteVars, scoring
    <2>. QED  BY <2>1, <2>2, BesideScores, TagsOtherwise, VotesOtherwise,
              HistoryOtherwise, SummaryOtherwise DEF DeskInv
<1>. QED  BY <1>1, DeskNextHolds

LEMMA DeskIsRight ==
    ASSUME DeskInv
    PROVE  DeskStands
<1>1. TagsStand
    BY DEF DeskInv, TagsInv, TagsStand
<1>2. OpinionsStand
    <2>1. \A row \in opinions : row.by \in crossed \/ row.value = voted[row.by][row.key]
        BY DEF DeskInv, VotesInv, OpinionsOf
    <2>2. \A r \in Reviewers : {row.key : row \in OpinionsOf(r)} = DOMAIN voted[r]
        BY DEF DeskInv, VotesInv, Opined
    <2>. QED  BY <2>1, <2>2 DEF DeskInv, VotesInv, OpinionsStand
<1>3. HistoryTells
    <2>1. ASSUME NEW actions, NEW filter, NEW by, NEW at, Logged(actions, by, at),
                 actions \subseteq DOMAIN EventTags,
                 \A a \in actions : filter \in EventTags[a]
          PROVE  [by |-> by, at |-> at] \in Feed(filter)
        <3>1. PICK e \in events : e.action \in actions /\ e.by = by /\ e.at = at
            BY <2>1 DEF Logged
        <3>2. PICK line : line = [by |-> e.by, at |-> e.at, tags |-> EventTags[e.action]]
            OBVIOUS
        <3>3. line \in AuditLines /\ line.by = by /\ line.at = at /\ filter \in line.tags
            BY <2>1, <3>1, <3>2 DEF AuditLines
        <3>. QED  BY <3>3 DEF Feed, Matches
    <2>2. /\ {"section_scores_updated", "rubric_updated", "comment_added",
              "internal_recommendation_updated"} \subseteq DOMAIN EventTags
          /\ \A a \in {"section_scores_updated", "rubric_updated", "comment_added",
                       "internal_recommendation_updated"} :
               "commission" \in EventTags[a]
          /\ "decision" \in EventTags["internal_recommendation_updated"]
        BY DEF EventTags
    <2>3. \A row \in rows : [by |-> row.by, at |-> row.updated_at] \in Feed("commission")
        BY <2>1, <2>2 DEF DeskInv, HistoryInv
    <2>4. ASSUME NEW row \in opinions
          PROVE  /\ [by |-> row.by, at |-> row.updated_at] \in Feed("commission")
                 /\ row.key = "recommendation" =>
                      [by |-> row.by, at |-> row.updated_at] \in Feed("decision")
        <3>1. CASE row.key = "recommendation"
            <4>1. Logged({"internal_recommendation_updated"}, row.by, row.updated_at)
                BY <3>1 DEF DeskInv, HistoryInv
            <4>. QED  BY <4>1, <2>1, <2>2
        <3>2. CASE row.key # "recommendation"
            <4>1. Logged({"rubric_updated", "internal_recommendation_updated"},
                         row.by, row.updated_at)
                BY <3>2 DEF DeskInv, HistoryInv
            <4>. QED  BY <4>1, <3>2, <2>1, <2>2
        <3>. QED  BY <3>1, <3>2
    <2>5. \A c \in comments : c \in Feed("commission")
        <3>1. ASSUME NEW c \in comments
              PROVE  c \in Feed("commission")
            <4>1. /\ Logged({"comment_added"}, c.by, c.at)
                  /\ c = [by |-> c.by, at |-> c.at]
                BY DEF DeskInv, HistoryInv
            <4>2. [by |-> c.by, at |-> c.at] \in Feed("commission")
                BY <4>1, <2>1, <2>2
            <4>. QED  BY <4>1, <4>2
        <3>. QED  BY <3>1
    <2>. QED  BY <2>3, <2>4, <2>5 DEF HistoryTells
<1>4. NoSummaryTwice /\ CardTellsSummary
    BY DEF DeskInv, SummaryInv, CardTellsSummary
<1>. QED  BY <1>1, <1>2, <1>3, <1>4 DEF DeskStands

-----------------------------------------------------------------------------

(* The inductive invariant of the desk: what every save, vote, change of    *)
(* tags and summary under way has read, against what has been written since *)
(* (save_section_scores, set_rubric_scores, run_commission_ai_pipeline).    *)
THEOREM DeskInvariant == DeskSpec => []DeskInv
<1>1. DeskInit => DeskInv
    BY DeskInitHolds
<1>2. DeskInv /\ [DeskNext]_<<vars, desk>> => DeskInv'
    BY DeskStepHolds
<1>. QED  BY <1>1, <1>2, PTL DEF DeskSpec

(* Scores stand: every recommendation and mean is on the scale, a reviewer  *)
(* is shown what was saved last, the board has the total of the reviewer    *)
(* who finished last, and spam is not lifted; for any reviewers, requests   *)
(* and sheets, and however many saves are under way at once.                *)
THEOREM ScoresStandOnTheDesk == DeskSpec => []ReviewStands
<1>1. DeskInv => ReviewStands
    BY ScoresStand DEF DeskInv
<1>. QED  BY <1>1, DeskInvariant, PTL

(* What the commission has entered and asked for stands: its tags, rubric   *)
(* scores, recommendations and comments, the history that shows them, the   *)
(* summaries and the card; for any reviewers, tags, verdicts and advice.    *)
THEOREM DeskIsKept == DeskSpec => []DeskStands
<1>1. DeskInv => DeskStands
    BY DeskIsRight
<1>. QED  BY <1>1, DeskInvariant, PTL

-----------------------------------------------------------------------------
(* The recommended scores are monotone: what a section's heuristics do to   *)
(* better material. First, what their ladders, quotients and shares do.     *)

\* A ladder of four steps, step by step.
LEMMA LadderIs ==
    ASSUME NEW x \in Int, NEW a \in Int, NEW b \in Int, NEW c \in Int, NEW d \in Int,
           a < b, b < c, c < d
    PROVE  Ladder(x, {a, b, c, d}) =
             IF x < a THEN 1 ELSE IF x < b THEN 2 ELSE IF x < c THEN 3
             ELSE IF x < d THEN 4 ELSE 5
<1>. DEFINE T == {t \in {a, b, c, d} : x >= t}
<1>1. Ladder(x, {a, b, c, d}) = 1 + Cardinality(T)
    BY DEF Ladder
<1>2. IsFiniteSet({}) /\ Cardinality({}) = 0
    BY FS_EmptySet
<1>3. IsFiniteSet({a}) /\ Cardinality({a}) = 1
    BY FS_Singleton
<1>4. ASSUME NEW S, IsFiniteSet(S), NEW y, y \notin S, NEW R, R = S \cup {y}
      PROVE  IsFiniteSet(R) /\ Cardinality(R) = Cardinality(S) + 1
    BY <1>4, FS_AddElement
<1>5. IsFiniteSet({a, b}) /\ Cardinality({a, b}) = 2
    <2>1. b \notin {a} /\ {a, b} = {a} \cup {b}
        OBVIOUS
    <2>2. IsFiniteSet({a, b}) /\ Cardinality({a, b}) = Cardinality({a}) + 1
        BY <2>1, <1>3, <1>4, Zenon
    <2>. QED  BY <2>2, <1>3
<1>6. IsFiniteSet({a, b, c}) /\ Cardinality({a, b, c}) = 3
    <2>1. c \notin {a, b} /\ {a, b, c} = {a, b} \cup {c}
        OBVIOUS
    <2>2. IsFiniteSet({a, b, c}) /\ Cardinality({a, b, c}) = Cardinality({a, b}) + 1
        BY <2>1, <1>5, <1>4, Zenon
    <2>. QED  BY <2>2, <1>5
<1>7. IsFiniteSet({a, b, c, d}) /\ Cardinality({a, b, c, d}) = 4
    <2>1. d \notin {a, b, c} /\ {a, b, c, d} = {a, b, c} \cup {d}
        OBVIOUS
    <2>2. /\ IsFiniteSet({a, b, c, d})
          /\ Cardinality({a, b, c, d}) = Cardinality({a, b, c}) + 1
        BY <2>1, <1>6, <1>4, Zenon
    <2>. QED  BY <2>2, <1>6
<1>8. CASE x < a
    <2>1. T = {}
        BY <1>8
    <2>. QED  BY <2>1, <1>1, <1>2, <1>8
<1>9. CASE a <= x /\ x < b
    <2>1. T = {a}
        BY <1>9
    <2>. QED  BY <2>1, <1>1, <1>3, <1>9
<1>10. CASE b <= x /\ x < c
    <2>1. T = {a, b}
        BY <1>10
    <2>. QED  BY <2>1, <1>1, <1>5, <1>10
<1>11. CASE c <= x /\ x < d
    <2>1. T = {a, b, c}
        BY <1>11
    <2>. QED  BY <2>1, <1>1, <1>6, <1>11
<1>12. CASE d <= x
    <2>1. T = {a, b, c, d}
        BY <1>12
    <2>. QED  BY <2>1, <1>1, <1>7, <1>12
<1>. QED  BY <1>8, <1>9, <1>10, <1>11, <1>12

LEMMA ClampGrows ==
    ASSUME NEW x \in Int, NEW y \in Int, x =< y
    PROVE  Clamp(x) =< Clamp(y)
BY MaxOfTwo, MinOfTwo DEF Clamp

\* What a quotient is.
LEMMA Quotient ==
    ASSUME NEW x \in Nat, NEW n \in Nat \ {0}
    PROVE  /\ x \div n \in Nat
           /\ \A k \in Int : k =< x \div n <=> k * n =< x
<1>1. PICK q \in Int : q = x \div n
    OBVIOUS
<1>2. q * n =< x /\ x < q * n + n
    BY <1>1
<1>3. q >= 0
    <2>1. CASE q =< -1
        <3>1. q * n =< (-1) * n
            BY <2>1
        <3>. QED  BY <3>1, <1>2
    <2>. QED  BY <2>1
<1>4. ASSUME NEW k \in Int
      PROVE  k =< q <=> k * n =< x
    <2>1. CASE k =< q
        <3>1. k * n =< q * n
            BY <2>1
        <3>. QED  BY <3>1, <2>1, <1>2
    <2>2. CASE k >= q + 1
        <3>1. k * n >= (q + 1) * n
            BY <2>2
        <3>2. (q + 1) * n = q * n + n
            OBVIOUS
        <3>. QED  BY <3>1, <3>2, <2>2, <1>2
    <2>. QED  BY <2>1, <2>2
<1>. QED  BY <1>1, <1>3, <1>4

\* A share of five traits: more of its points and fewer of the others'.
LEMMA ShareGrows ==
    ASSUME NEW x \in Nat, NEW y \in Nat, NEW u \in Nat, NEW v \in Nat,
           x =< u, v =< y
    PROVE  TraitShare(x, x + y) =< TraitShare(u, u + v)
<1>. DEFINE All(t) == IF t = 0 THEN 1 ELSE t
            S == All(x + y)
            T == All(u + v)
            p == Ceiling(x * 5 * 5, S)
            q == Ceiling(u * 5 * 5, T)
<1>1. S \in Nat \ {0} /\ T \in Nat \ {0}
    OBVIOUS
<1>2. 25 * x \in Nat /\ 25 * u \in Nat
      /\ x * 5 * 5 = 25 * x /\ u * 5 * 5 = 25 * u
    OBVIOUS
<1>3. /\ p = (25 * x + S - 1) \div S /\ q = (25 * u + T - 1) \div T
      /\ 25 * x + S - 1 \in Nat /\ 25 * u + T - 1 \in Nat
    <2>. HIDE DEF S, T
    <2>. QED  BY <1>1, <1>2 DEF Ceiling
<1>4. /\ p \in Nat /\ \A k \in Int : k =< p <=> k * S =< 25 * x + S - 1
      /\ q \in Nat /\ \A k \in Int : k =< q <=> k * T =< 25 * u + T - 1
    <2>. HIDE DEF S, T, p, q
    <2>. QED  BY <1>1, <1>3, Quotient
<1>. HIDE DEF p, q
<1>5. p =< q
    <2>1. CASE x = 0
        <3>1. ~ (1 * S =< 25 * x + S - 1)
            BY <2>1, <1>1
        <3>2. ~ (1 =< p)
            BY <3>1, <1>4
        <3>. QED  BY <3>2, <1>4
    <2>2. CASE x > 0
        <3>1. S = x + y /\ T = u + v
            BY <2>2
        <3>. HIDE DEF S, T
        <3>2. ~ (q + 1 =< q)
            BY <1>4
        <3>3. (q + 1) * T > 25 * u + T - 1
            BY <3>2, <1>1, <1>4
        <3>4. (q + 1) * T = q * T + T
            BY <1>1, <1>4
        <3>5. q * T >= 25 * u
            BY <3>3, <3>4, <1>1, <1>4
        <3>6. q * S >= 25 * x
            <4>1. CASE q >= 25
                <5>1. q * S >= 25 * S
                    BY <4>1, <1>1, <1>4
                <5>2. 25 * S >= 25 * x /\ q * S \in Int /\ S \in Int
                    BY <3>1, <1>1, <1>4
                <5>. QED  BY <5>1, <5>2
            <4>2. CASE q < 25
                <5>1. q * u + q * v >= 25 * u
                    BY <3>1, <3>5, <1>4
                <5>2. q * v >= (25 - q) * u
                    BY <5>1, <1>4
                <5>3. q * y >= q * v
                    BY <1>4
                <5>4. (25 - q) * u >= (25 - q) * x
                    BY <4>2, <1>4
                <5>5. q * y >= (25 - q) * x
                    BY <5>2, <5>3, <5>4, <1>4
                <5>6. q * x + q * y >= 25 * x
                    BY <5>5, <1>4
                <5>. QED  BY <5>6, <3>1, <1>4
            <4>. QED  BY <4>1, <4>2, <1>4
        <3>7. (q + 1) * S = q * S + S
            BY <1>1, <1>4
        <3>8. ~ ((q + 1) * S =< 25 * x + S - 1)
            BY <3>6, <3>7, <1>1, <1>4
        <3>9. ~ (q + 1 =< p)
            BY <3>8, <1>4
        <3>. QED  BY <3>9, <1>4
    <2>. QED  BY <2>1, <2>2
<1>6. TraitShare(x, x + y) = Clamp(p) /\ TraitShare(u, u + v) = Clamp(q)
    BY DEF TraitShare, p, q
<1>. QED  BY <1>4, <1>5, <1>6, ClampGrows

\* A rounded ratio of intrinsic words among the others.
LEMMA RatioGrows ==
    ASSUME NEW i \in Nat, NEW e \in Nat, NEW j \in Nat, NEW f \in Nat,
           i =< j, f =< e
    PROVE  /\ Rounded(i, i + e + 1) \in Nat
           /\ Rounded(i, i + e + 1) =< Rounded(j, j + f + 1)
<1>. DEFINE S == i + e + 1
            T == j + f + 1
            p == Rounded(i, S)
            q == Rounded(j, T)
<1>1. /\ S \in Nat \ {0} /\ T \in Nat \ {0}
      /\ i * 1000 + S \div 2 \in Nat /\ j * 1000 + T \div 2 \in Nat
    OBVIOUS
<1>2. /\ p \in Nat /\ \A k \in Int : k =< p <=> k * S =< i * 1000 + S \div 2
      /\ q \in Nat /\ \A k \in Int : k =< q <=> k * T =< j * 1000 + T \div 2
    <2>. HIDE DEF S, T
    <2>. QED  BY <1>1, Quotient DEF Rounded
<1>. HIDE DEF p, q
<1>3. p * T =< j * 1000 + T \div 2
    <2>1. CASE p = 0
        <3>. HIDE DEF T
        <3>1. p * T = 0
            BY <2>1, <1>1
        <3>. QED  BY <3>1, <1>1
    <2>2. CASE p >= 1
        <3>1. p * S =< i * 1000 + S \div 2
            BY <1>2
        <3>2. 2 * (p * S) =< 2000 * i + S
            <4>. HIDE DEF S, T
            <4>0. p * S \in Int
                BY <1>1, <1>2
            <4>. QED  BY <4>0, <3>1, <1>1
        <3>3. 2 * (p * S) = 2 * (p * i) + 2 * (p * e) + 2 * p
            BY <1>2
        <3>4. (2 * p - 1) * (e + 1) =< (2001 - 2 * p) * i
            BY <3>2, <3>3, <1>2
        <3>5. (2 * p - 1) * (f + 1) =< (2 * p - 1) * (e + 1)
            BY <2>2, <1>2
        <3>6. CASE 2001 - 2 * p >= 0
            <4>1. (2001 - 2 * p) * i =< (2001 - 2 * p) * j
                BY <3>6, <1>2
            <4>2. (2 * p - 1) * (f + 1) =< (2001 - 2 * p) * j
                BY <4>1, <3>4, <3>5, <1>2
            <4>3. 2 * (p * j) + 2 * (p * f) + 2 * p =< 2000 * j + (j + f + 1)
                BY <4>2, <1>2
            <4>4. 2 * (p * T) = 2 * (p * j) + 2 * (p * f) + 2 * p
                BY <1>2
            <4>5. 2 * (p * T) =< 2000 * j + T
                BY <4>3, <4>4
            <4>. HIDE DEF S, T
            <4>6. p * T \in Int
                BY <1>1, <1>2
            <4>. QED  BY <4>5, <4>6, <1>1
        <3>7. CASE 2001 - 2 * p < 0
            <4>1. (2001 - 2 * p) * i =< 0
                BY <3>7, <1>2
            <4>2. (2 * p - 1) * (e + 1) > 0
                BY <2>2, <1>2
            <4>3. FALSE
                BY <4>1, <4>2, <3>4, <1>2
            <4>. QED  BY <4>3
        <3>. QED  BY <3>6, <3>7, <1>2
    <2>. QED  BY <2>1, <2>2, <1>2
<1>4. p =< q
    BY <1>2, <1>3
<1>. QED  BY <1>2, <1>4 DEF p, q

-----------------------------------------------------------------------------
(* Better material, section by section. The fields of a section are read   *)
(* of two sheets; what makes the second no worse is NoWorse.               *)

\* The fields that count, key by key.
LEMMA Fields ==
    ASSUME NEW key \in AllKeys
    PROVE  /\ key = "data_completeness" => For[key] = {"filled"}
           /\ key = "review_readiness" =>
                For[key] = {"ended"} /\ Against[key] = {"manual"}
           /\ key = "leadership_potential" =>
                For[key] = {"initiative"} /\ Against[key] = {"collaboration", "rest"}
           /\ key = "team_interaction" =>
                For[key] = {"collaboration"} /\ Against[key] = {"initiative", "rest"}
           /\ key = "profile_stability" =>
                For[key] = {"answers"} /\ Against[key] = {"inconsistent", "desirable"}
           /\ key = "motivation_level" =>
                For[key] = {"terms", "intrinsic"} /\ Against[key] = {"extrinsic"}
           /\ key = "choice_awareness" => For[key] = {"words", "choice", "fit"}
           /\ key = "specificity" => For[key] = {"evidence", "structure", "digits"}
<1>1. Keys.path = {"initiative", "resilience", "reflection_growth"}
    BY DEF Keys
<1>. QED  BY <1>1 DEF For, Against

LEMMA PersonalGrows ==
    ASSUME NEW s \in Sheet, NEW t \in Sheet, NEW key \in Keys["personal"],
           NoWorse("personal", key, s.personal, t.personal)
    PROVE  PersonalScore(t.personal)[key] >= PersonalScore(s.personal)[key]
<1>. DEFINE a == s.personal
            b == t.personal
<1>1. /\ a.filled \in 0..3 /\ a.ended \in 0..Units /\ a.manual \in 0..Units
      /\ b.filled \in 0..3 /\ b.ended \in 0..Units /\ b.manual \in 0..Units
      /\ a.certificate \in {"none", "open", "completed", "failed"}
      /\ b.certificate \in {"none", "open", "completed", "failed"}
    BY DEF Sheet
<1>2. Keys["personal"] = {"data_completeness", "document_correctness",
                          "review_readiness"}
    BY DEF Keys
<1>3. {"data_completeness", "review_readiness"} \subseteq AllKeys
    BY DEF AllKeys, Sections, Keys
<1>4. /\ \A field \in For[key] : b[field] >= a[field]
      /\ \A field \in Against[key] : b[field] =< a[field]
      /\ b.certificate \in {a.certificate, "completed"}
      /\ b.manual = 0 \/ b.ended = a.ended
    BY DEF NoWorse
<1>. HIDE DEF a, b
<1>5. CASE key = "data_completeness"
    <2>1. For[key] = {"filled"}
        BY <1>3, <1>5, Fields
    <2>2. b.filled >= a.filled
        BY <1>4, <2>1
    <2>3. /\ Ceiling(b.filled * 5, 3) \in Int /\ Ceiling(a.filled * 5, 3) \in Int
          /\ Ceiling(b.filled * 5, 3) >= Ceiling(a.filled * 5, 3)
        BY <1>1, <2>2 DEF Ceiling
    <2>4. /\ Clamp(Ceiling(b.filled * 5, 3)) >= Clamp(Ceiling(a.filled * 5, 3))
        BY <2>3, ClampGrows, ClampOnScale
    <2>. QED  BY <2>4, <1>5 DEF PersonalScore, a, b
<1>6. CASE key = "document_correctness"
    <2>1. DocumentCorrectness(b.certificate) >= DocumentCorrectness(a.certificate)
        BY <1>1, <1>4 DEF DocumentCorrectness
    <2>. QED  BY <2>1, <1>6 DEF PersonalScore, a, b
<1>7. CASE key = "review_readiness"
    <2>1. For[key] = {"ended"} /\ Against[key] = {"manual"}
        BY <1>3, <1>7, Fields
    <2>2. b.ended >= a.ended /\ b.manual =< a.manual
        BY <1>4, <2>1
    <2>3. Units \in Nat \ {0}
        BY UnitsAssumption
    <2>. DEFINE Part(n) == Ceiling(n * 4, Units)
    <2>4. ASSUME NEW n \in 0..Units
          PROVE  /\ Part(n) \in Nat
                 /\ \A k \in Int : k =< Part(n) <=> k * Units =< n * 4 + Units - 1
        <3>1. n * 4 + Units - 1 \in Nat
            BY <2>3
        <3>. QED  BY <2>3, <3>1, Quotient DEF Ceiling
    <2>5. \A n \in 0..Units : Part(n) =< 4
        <3>1. ASSUME NEW n \in 0..Units
              PROVE  Part(n) =< 4
            <4>1. ~ (5 * Units =< n * 4 + Units - 1)
                BY <2>3
            <4>. QED  BY <4>1, <2>4
        <3>. QED  BY <3>1
    <2>6. Part(b.ended) >= Part(a.ended)
        <3>1. Part(a.ended) * Units =< a.ended * 4 + Units - 1
            BY <2>4, <1>1
        <3>2. Part(a.ended) * Units =< b.ended * 4 + Units - 1
            <4>1. Part(a.ended) * Units \in Int
                BY <2>3, <2>4, <1>1
            <4>. HIDE DEF Part
            <4>. QED  BY <4>1, <3>1, <2>2, <2>3, <1>1
        <3>. QED  BY <3>2, <2>4, <1>1
    <2>. HIDE DEF Part
    <2>7. /\ ReviewReadiness(a) = IF a.ended = Units
                                  THEN IF a.manual = 0 THEN 5 ELSE 3
                                  ELSE Clamp(Part(a.ended))
          /\ ReviewReadiness(b) = IF b.ended = Units
                                  THEN IF b.manual = 0 THEN 5 ELSE 3
                                  ELSE Clamp(Part(b.ended))
        BY DEF ReviewReadiness, Part
    <2>8. /\ Clamp(Part(a.ended)) \in 1..5 /\ Clamp(Part(b.ended)) \in 1..5
          /\ Clamp(Part(a.ended)) =< Clamp(Part(b.ended))
        BY <2>4, <2>6, <1>1, ClampOnScale, ClampGrows
    <2>9. ReviewReadiness(b) >= ReviewReadiness(a)
        BY <2>2, <2>7, <2>8, <1>1, <1>4
    <2>. QED  BY <2>9, <1>7 DEF PersonalScore, a, b
<1>. QED  BY <1>2, <1>5, <1>6, <1>7

LEMMA TestGrows ==
    ASSUME NEW s \in Sheet, NEW t \in Sheet, NEW key \in Keys["test"],
           NoWorse("test", key, s.test, t.test)
    PROVE  TestScore(t.test)[key] >= TestScore(s.test)[key]
<1>. DEFINE a == s.test
            b == t.test
            Points(x) == x.initiative + x.collaboration + x.rest
            Share(x, raw) == IF x.analysed = 0 THEN 3 ELSE TraitShare(raw, Points(x))
            Profile(x) == Clamp(5 - (IF x.answers < 40 THEN 1 ELSE 0)
                                  - x.inconsistent - x.desirable)
<1>1. \A x \in {a, b} : /\ x.initiative \in Nat /\ x.collaboration \in Nat
                        /\ x.rest \in Nat /\ x.answers \in Nat
                        /\ x.inconsistent \in 0..1 /\ x.desirable \in 0..1
                        /\ x.analysed \in 0..1
    BY DEF Sheet
<1>2. Keys["test"] = {"leadership_potential", "profile_stability",
                      "team_interaction"}
    BY DEF Keys
<1>3. Keys["test"] \subseteq AllKeys
    BY DEF AllKeys, Sections, Keys
<1>4. /\ \A field \in For[key] : b[field] >= a[field]
      /\ \A field \in Against[key] : b[field] =< a[field]
      /\ a.analysed = b.analysed
    BY DEF NoWorse
<1>5. \A x \in {a, b} : TestScore(x) = [leadership_potential |-> Share(x, x.initiative),
                                        team_interaction |-> Share(x, x.collaboration),
                                        profile_stability |-> Profile(x)]
    BY DEF TestScore
<1>. HIDE DEF a, b
<1>6. CASE key = "leadership_potential"
    <2>1. For[key] = {"initiative"} /\ Against[key] = {"collaboration", "rest"}
        BY <1>3, <1>6, Fields
    <2>2. /\ b.initiative >= a.initiative /\ b.collaboration =< a.collaboration
          /\ b.rest =< a.rest
        BY <1>4, <2>1
    <2>3. TraitShare(a.initiative, a.initiative + (a.collaboration + a.rest))
             =< TraitShare(b.initiative, b.initiative + (b.collaboration + b.rest))
        <3>1. /\ a.initiative \in Nat /\ a.collaboration + a.rest \in Nat
              /\ b.initiative \in Nat /\ b.collaboration + b.rest \in Nat
              /\ b.collaboration + b.rest =< a.collaboration + a.rest
            BY <1>1, <2>2
        <3>. QED  BY <3>1, <2>2, ShareGrows
    <2>4. \A x \in {a, b} : Points(x) = x.initiative + (x.collaboration + x.rest)
        BY <1>1
    <2>. HIDE DEF Points
    <2>5. Share(b, b.initiative) >= Share(a, a.initiative)
        BY <2>3, <2>4, <1>4
    <2>. QED  BY <2>5, <1>5, <1>6 DEF a, b
<1>7. CASE key = "team_interaction"
    <2>1. For[key] = {"collaboration"} /\ Against[key] = {"initiative", "rest"}
        BY <1>3, <1>7, Fields
    <2>2. /\ b.initiative =< a.initiative /\ b.collaboration >= a.collaboration
          /\ b.rest =< a.rest
        BY <1>4, <2>1
    <2>3. TraitShare(a.collaboration, a.collaboration + (a.initiative + a.rest))
             =< TraitShare(b.collaboration, b.collaboration + (b.initiative + b.rest))
        <3>1. /\ a.collaboration \in Nat /\ a.initiative + a.rest \in Nat
              /\ b.collaboration \in Nat /\ b.initiative + b.rest \in Nat
              /\ b.initiative + b.rest =< a.initiative + a.rest
            BY <1>1, <2>2
        <3>. QED  BY <3>1, <2>2, ShareGrows
    <2>4. \A x \in {a, b} : Points(x) = x.collaboration + (x.initiative + x.rest)
        BY <1>1
    <2>. HIDE DEF Points
    <2>5. Share(b, b.collaboration) >= Share(a, a.collaboration)
        BY <2>3, <2>4, <1>4
    <2>. QED  BY <2>5, <1>5, <1>7 DEF a, b
<1>8. CASE key = "profile_stability"
    <2>1. For[key] = {"answers"} /\ Against[key] = {"inconsistent", "desirable"}
        BY <1>3, <1>8, Fields
    <2>2. /\ b.answers >= a.answers /\ b.inconsistent =< a.inconsistent
          /\ b.desirable =< a.desirable
        BY <1>4, <2>1
    <2>3. Profile(b) >= Profile(a)
        BY <2>2, <1>1, ClampGrows, ClampOnScale
    <2>. QED  BY <2>3, <1>5, <1>8 DEF a, b
<1>. QED  BY <1>2, <1>6, <1>7, <1>8

LEMMA AchievementsGrow ==
    ASSUME NEW s \in Sheet, NEW t \in Sheet, NEW key \in Keys["achievements"],
           NoWorse("achievements", key, s.achievements, t.achievements)
    PROVE  AchievementsScore(t.achievements)[key]
             >= AchievementsScore(s.achievements)[key]
<1>. DEFINE a == s.achievements
            b == t.achievements
<1>1. \A x \in {a, b} : /\ x.impact \in Nat /\ x.words \in Nat
                        /\ x.role \in 0..1 /\ x.year \in 0..1
                        /\ x.links \in Nat /\ x.checked \in Nat
                        /\ x.reachable \in Nat /\ x.reachable =< x.checked
    BY DEF Sheet
<1>2. Keys["achievements"] = {"achievement_level", "personal_contribution",
                              "confirmability"}
    BY DEF Keys
<1>3. Keys["achievements"] \subseteq AllKeys
    BY DEF AllKeys, Sections, Keys
<1>4. /\ \A field \in For[key] : b[field] >= a[field]
      /\ \A field \in Against[key] : b[field] =< a[field]
    BY DEF NoWorse
<1>. HIDE DEF a, b
<1>5. CASE key = "achievement_level"
    <2>1. For[key] = {"impact", "words"}
        BY <1>3, <1>5 DEF For
    <2>2. b.impact >= a.impact /\ b.words >= a.words
        BY <1>4, <2>1
    <2>3. AchievementLevel(b) >= AchievementLevel(a)
        BY <1>1, <2>2 DEF AchievementLevel
    <2>. QED  BY <2>3, <1>5 DEF AchievementsScore, a, b
<1>6. CASE key = "personal_contribution"
    <2>1. For[key] = {"impact", "role", "year"}
        BY <1>3, <1>6 DEF For
    <2>2. b.impact >= a.impact /\ b.role >= a.role /\ b.year >= a.year
        BY <1>4, <2>1
    <2>3. /\ Clamp(3 + b.role + b.year) >= Clamp(3 + a.role + a.year)
          /\ Clamp(3 + b.role + b.year) \in 1..5 /\ Clamp(3 + a.role + a.year) \in 1..5
        BY <1>1, <2>2, ClampGrows, ClampOnScale
    <2>4. Contribution(b) >= Contribution(a)
        BY <1>1, <2>2, <2>3 DEF Contribution
    <2>. QED  BY <2>4, <1>6 DEF AchievementsScore, a, b
<1>7. CASE key = "confirmability"
    <2>1. For[key] = {"links", "reachable", "year"} /\ Against[key] = {"checked"}
        BY <1>3, <1>7 DEF For, Against
    <2>2. /\ b.links >= a.links /\ b.reachable >= a.reachable /\ b.year >= a.year
          /\ b.checked =< a.checked
        BY <1>4, <2>1
    <2>3. Confirmability(b) >= Confirmability(a)
        BY <1>1, <2>2 DEF Confirmability
    <2>. QED  BY <2>3, <1>7 DEF AchievementsScore, a, b
<1>. QED  BY <1>2, <1>5, <1>6, <1>7

LEMMA PathGrows ==
    ASSUME NEW s \in Sheet, NEW t \in Sheet, NEW key \in Keys["path"],
           NoWorse("path", key, s.path, t.path)
    PROVE  PathScore(t.path)[key] >= PathScore(s.path)[key]
<1>. DEFINE a == s.path
            b == t.path
<1>1. \A x \in {a, b} : /\ x.answers \in 0..5 /\ x.spam \in 0..5 /\ x.phrases \in Nat
                        /\ x.uniform \in 0..5 /\ x.repetitive \in 0..5
                        /\ x.evidence \in 0..5
                        /\ x.signal[key] \in Nat /\ x.hits[key] \in Nat
    BY DEF Sheet, PathQuestions
<1>2. key \in AllKeys /\ key \in Keys.path
    BY DEF AllKeys, Sections, Keys
<1>3. /\ For[key] = {"evidence"}
      /\ Against[key] = {"spam", "phrases", "uniform", "repetitive"}
    <2>1. key \in {"initiative", "resilience", "reflection_growth"}
        BY DEF Keys
    <2>. QED  BY <2>1, <1>2 DEF For, Against
<1>4. /\ \A field \in For[key] : b[field] >= a[field]
      /\ \A field \in Against[key] : b[field] =< a[field]
      /\ a.answers = b.answers
      /\ b.signal[key] >= a.signal[key] /\ b.hits[key] >= a.hits[key]
    BY DEF NoWorse
<1>. HIDE DEF a, b
<1>5. /\ b.evidence >= a.evidence /\ b.spam =< a.spam /\ b.phrases =< a.phrases
      /\ b.uniform =< a.uniform /\ b.repetitive =< a.repetitive
    BY <1>3, <1>4
<1>6. StrongNegative(b) => StrongNegative(a)
    BY <1>1, <1>4, <1>5 DEF StrongNegative, ManualFlag
<1>7. Contentful(a) => Contentful(b)
    BY <1>1, <1>4, <1>5 DEF Contentful
<1>8. /\ SignalScore(a, key) \in 1..5 /\ SignalScore(b, key) \in 1..5
      /\ SignalScore(a, key) =< SignalScore(b, key)
    <2>1. \A x \in {a, b} : Ladder(x.signal[key], {20, 35, 55, 75}) =
             IF x.signal[key] < 20 THEN 1 ELSE IF x.signal[key] < 35 THEN 2
             ELSE IF x.signal[key] < 55 THEN 3 ELSE IF x.signal[key] < 75 THEN 4 ELSE 5
        BY <1>1, LadderIs
    <2>2. Ladder(a.signal[key], {20, 35, 55, 75})
             =< Ladder(b.signal[key], {20, 35, 55, 75})
        BY <1>1, <1>4, <2>1
    <2>3. SignalScore(a, key) =< SignalScore(b, key)
        BY <1>4, <2>2 DEF SignalScore
    <2>. QED  BY <2>3, SignalOnScale
<1>9. \A x \in {a, b} : Raised(x, key) =
         LET floor == IF SignalScore(x, key) < 2 THEN 2 ELSE SignalScore(x, key)
         IN  IF x.hits[key] >= 2 /\ floor < 4 THEN floor + 1 ELSE floor
    BY <1>8, MaxOfTwo DEF Raised
<1>10. /\ Raised(a, key) \in 1..5 /\ Raised(b, key) \in 1..5
       /\ Raised(a, key) =< Raised(b, key) /\ SignalScore(b, key) =< Raised(b, key)
       /\ SignalScore(a, key) =< Raised(b, key)
    BY <1>1, <1>4, <1>8, <1>9
<1>11. \A x \in {a, b} : TraitScore(x, key) =
          LET score == IF StrongNegative(x) THEN SignalScore(x, key)
                       ELSE Raised(x, key)
          IN  IF Contentful(x) /\ score < 3 THEN 3 ELSE score
    <2>1. \A n \in 1..5 : Max({3, n}) = IF n < 3 THEN 3 ELSE n
        BY MaxOfTwo
    <2>. QED  BY <2>1, <1>8, <1>10 DEF TraitScore
<1>12. TraitScore(b, key) >= TraitScore(a, key)
    BY <1>6, <1>7, <1>8, <1>10, <1>11
<1>. QED  BY <1>2, <1>12 DEF PathScore, a, b

\* The higher of two ladders over the same steps.
LEMMA LadderGrows ==
    ASSUME NEW x \in Int, NEW y \in Int, x =< y,
           NEW a \in Int, NEW b \in Int, NEW c \in Int, NEW d \in Int,
           a < b, b < c, c < d
    PROVE  Ladder(x, {a, b, c, d}) =< Ladder(y, {a, b, c, d})
<1>1. /\ Ladder(x, {a, b, c, d}) =
             IF x < a THEN 1 ELSE IF x < b THEN 2 ELSE IF x < c THEN 3
             ELSE IF x < d THEN 4 ELSE 5
      /\ Ladder(y, {a, b, c, d}) =
             IF y < a THEN 1 ELSE IF y < b THEN 2 ELSE IF y < c THEN 3
             ELSE IF y < d THEN 4 ELSE 5
    BY LadderIs
<1>. HIDE DEF Ladder
<1>. QED  BY <1>1

\* A density of one hit more.
LEMMA DensityGrows ==
    ASSUME NEW h \in Nat, NEW k \in Nat, h =< k, NEW full \in {3, 4, 5}
    PROVE  /\ Density(h, full) \in Nat /\ Density(k, full) \in Nat
           /\ Density(h, full) =< Density(k, full)
<1>. DEFINE x == Rounded(h, full)
            y == Rounded(k, full)
<1>1. x \in Nat /\ y \in Nat /\ x =< y
    BY DEF Rounded
<1>2. ASSUME NEW n \in Nat
      PROVE  Min({1000, n}) = IF n < 1000 THEN n ELSE 1000
    BY MinOfTwo
<1>. HIDE DEF x, y
<1>3. /\ Min({1000, x}) \in Nat /\ Min({1000, y}) \in Nat
      /\ Min({1000, x}) =< Min({1000, y})
    BY <1>1, <1>2
<1>. QED  BY <1>3 DEF Density, x, y

\* A density of four is in quarters.
LEMMA Quarters ==
    ASSUME NEW h \in Nat
    PROVE  Density(h, 4) \in {0, 250, 500, 750, 1000}
<1>1. Rounded(h, 4) = 250 * h
    BY DEF Rounded
<1>2. Min({1000, 250 * h}) = IF 250 * h < 1000 THEN 250 * h ELSE 1000
    BY MinOfTwo
<1>. QED  BY <1>1, <1>2 DEF Density

\* More terms and a better ratio of motives. The ratio that is taken for a
\* missing one costs no class to the letter that earns its own.
LEMMA LevelGrows ==
    ASSUME NEW s \in Sheet, NEW t \in Sheet,
           t.motivation.terms >= s.motivation.terms,
           t.motivation.intrinsic >= s.motivation.intrinsic,
           t.motivation.extrinsic =< s.motivation.extrinsic
    PROVE  /\ MotivationLevel(s.motivation) \in Int
           /\ MotivationLevel(t.motivation) \in Int
           /\ MotivationLevel(t.motivation) >= MotivationLevel(s.motivation)
<1>. DEFINE a == s.motivation
            b == t.motivation
            d == Density(a.terms, 4)
            f == Density(b.terms, 4)
            r == IntrinsicRatio(a)
            q == IntrinsicRatio(b)
            x == d * (65000 + 35 * r)
            y == f * (65000 + 35 * q)
            L(n) == Ladder(n, {4000001, 9000001, 16000001, 22000001})
<1>1. /\ a.terms \in Nat /\ a.intrinsic \in Nat /\ a.extrinsic \in Nat
      /\ b.terms \in Nat /\ b.intrinsic \in Nat /\ b.extrinsic \in Nat
    BY DEF Sheet
<1>2. /\ d \in {0, 250, 500, 750, 1000} /\ f \in {0, 250, 500, 750, 1000}
      /\ d =< f
    <2>1. d \in {0, 250, 500, 750, 1000} /\ f \in {0, 250, 500, 750, 1000}
        BY <1>1, Quarters
    <2>2. a.terms =< b.terms
        OBVIOUS
    <2>3. d =< f
        BY <1>1, <2>2, DensityGrows
    <2>. HIDE DEF d, f
    <2>. QED  BY <2>1, <2>3
<1>3. /\ r \in Nat /\ q \in Nat
      /\ a.intrinsic = 0 => r = 500
      /\ a.intrinsic = 0 /\ b.intrinsic = 0 => q = 500
      /\ a.intrinsic # 0 => r =< q
    <2>1. /\ r = IF a.intrinsic = 0 THEN 500
                 ELSE Rounded(a.intrinsic, a.intrinsic + a.extrinsic + 1)
          /\ q = IF b.intrinsic = 0 THEN 500
                 ELSE Rounded(b.intrinsic, b.intrinsic + b.extrinsic + 1)
        BY DEF IntrinsicRatio
    <2>2. /\ Rounded(a.intrinsic, a.intrinsic + a.extrinsic + 1) \in Nat
          /\ Rounded(b.intrinsic, b.intrinsic + b.extrinsic + 1) \in Nat
          /\ Rounded(a.intrinsic, a.intrinsic + a.extrinsic + 1)
               =< Rounded(b.intrinsic, b.intrinsic + b.extrinsic + 1)
        <3>1. b.intrinsic >= a.intrinsic /\ b.extrinsic =< a.extrinsic
            OBVIOUS
        <3>. HIDE DEF a, b
        <3>2. /\ Rounded(a.intrinsic, a.intrinsic + a.extrinsic + 1) \in Nat
              /\ Rounded(a.intrinsic, a.intrinsic + a.extrinsic + 1)
                   =< Rounded(b.intrinsic, b.intrinsic + b.extrinsic + 1)
            BY <3>1, <1>1, RatioGrows
        <3>3. Rounded(b.intrinsic, b.intrinsic + b.extrinsic + 1) \in Nat
            <4>. DEFINE S == b.intrinsic + b.extrinsic + 1
            <4>1. S \in Nat \ {0} /\ b.intrinsic * 1000 + S \div 2 \in Nat
                BY <1>1
            <4>. HIDE DEF S
            <4>2. Rounded(b.intrinsic, S) \in Nat
                BY <4>1, Quotient DEF Rounded
            <4>. QED  BY <4>2 DEF S
        <3>. QED  BY <3>2, <3>3
    <2>3. a.intrinsic # 0 => b.intrinsic # 0
        BY <1>1
    <2>. HIDE DEF a, b, r, q
    <2>. QED  BY <2>1, <2>2, <2>3
<1>4. MotivationLevel(a) = L(x) /\ MotivationLevel(b) = L(y)
    BY DEF MotivationLevel
<1>. HIDE DEF a, b, d, f, r, q
<1>5. x \in Int /\ y \in Int
    BY <1>2, <1>3, SMT
<1>6. \A n \in {x, y} : L(n) =
         IF n < 4000001 THEN 1 ELSE IF n < 9000001 THEN 2
         ELSE IF n < 16000001 THEN 3 ELSE IF n < 22000001 THEN 4 ELSE 5
    BY <1>5, LadderIs, SMT
<1>7. CASE x =< y
    BY <1>5, <1>6, <1>7, <1>4, SMT DEF a, b
<1>8. CASE a.intrinsic # 0 \/ b.intrinsic = 0
    <2>1. r =< q
        BY <1>1, <1>3, <1>8
    <2>2. x =< y
        BY <2>1, <1>2, <1>3, SMT
    <2>. QED  BY <2>2, <1>7
<1>9. CASE a.intrinsic = 0 /\ b.intrinsic # 0
    <2>1. x = d * 82500 /\ y >= f * 65000
        BY <1>2, <1>3, <1>9, SMT
    <2>. HIDE DEF x, y, L
    <2>2. \/ d = 0 /\ x = 0
          \/ d = 250 /\ x < 22000001 /\ y >= 16000001
          \/ d >= 500 /\ y >= 22000001
        BY <2>1, <1>2, <1>5, SMT
    <2>3. y >= 0
        BY <2>1, <1>2, <1>5, SMT
    <2>4. L(x) \in Int /\ L(y) \in Int /\ L(x) =< L(y)
        BY <2>2, <2>3, <1>5, <1>6, SMT
    <2>. QED  BY <2>4, <1>4 DEF a, b
<1>. QED  BY <1>8, <1>9

\* A longer letter and more reasons. A short letter that names reasons is in
\* the third class; when it grows out of the allowance it is there by itself.
LEMMA ChoiceGrows ==
    ASSUME NEW s \in Sheet, NEW t \in Sheet,
           t.motivation.words >= s.motivation.words,
           t.motivation.choice >= s.motivation.choice,
           t.motivation.fit >= s.motivation.fit
    PROVE  /\ ChoiceAwareness(s.motivation) \in Int
           /\ ChoiceAwareness(t.motivation) \in Int
           /\ ChoiceAwareness(t.motivation) >= ChoiceAwareness(s.motivation)
<1>. DEFINE a == s.motivation
            b == t.motivation
            u == SemanticChoice(a)
            v == SemanticChoice(b)
            Words(m) == IF m.words < 220 THEN m.words ELSE 220
            Length(m) == (4200000 * Words(m)) \div 220
            x == CombinedChoice(a)
            y == CombinedChoice(b)
            L(n) == Ladder(n, {2200001, 3800001, 5500001, 7200001})
<1>1. /\ a.words \in Nat /\ a.choice \in Nat /\ a.fit \in Nat
      /\ b.words \in Nat /\ b.choice \in Nat /\ b.fit \in Nat
      /\ b.words >= a.words /\ b.choice >= a.choice /\ b.fit >= a.fit
    BY DEF Sheet
<1>. HIDE DEF a, b
<1>2. u \in Nat /\ v \in Nat /\ u =< v
    <2>. DEFINE c == Density(a.choice, 3)
                d == Density(b.choice, 3)
                e == Density(a.fit, 5)
                f == Density(b.fit, 5)
    <2>1. /\ c \in Nat /\ d \in Nat /\ c =< d
          /\ e \in Nat /\ f \in Nat /\ e =< f
        <3>1. c \in Nat /\ d \in Nat /\ c =< d
            BY <1>1, DensityGrows
        <3>2. e \in Nat /\ f \in Nat /\ e =< f
            BY <1>1, DensityGrows
        <3>. HIDE DEF c, d, e, f
        <3>. QED  BY <3>1, <3>2
    <2>2. u = 55 * c + 45 * e /\ v = 55 * d + 45 * f
        BY DEF SemanticChoice
    <2>. HIDE DEF c, d, e, f, u, v
    <2>. QED  BY <2>1, <2>2
<1>3. /\ Words(a) \in 0..220 /\ Words(b) \in 0..220 /\ Words(a) =< Words(b)
      /\ a.words >= 90 => Words(a) >= 90
      /\ b.words >= 90 => Words(b) >= 90
    BY <1>1
<1>4. /\ Length(a) \in Nat /\ Length(b) \in Nat /\ Length(a) =< Length(b)
      /\ b.words >= 90 => Length(b) >= 1718181
    <2>. HIDE DEF Words
    <2>1. ASSUME NEW n \in 0..220
          PROVE  /\ (4200000 * n) \div 220 \in Nat
                 /\ \A k \in Int : k =< (4200000 * n) \div 220
                                       <=> k * 220 =< 4200000 * n
        BY Quotient, SMT
    <2>2. /\ Length(a) \in Nat /\ Length(b) \in Nat
          /\ Length(a) * 220 =< 4200000 * Words(a)
          /\ \A k \in Int : k =< Length(b) <=> k * 220 =< 4200000 * Words(b)
        BY <1>3, <2>1, SMT
    <2>. HIDE DEF Length
    <2>3. Length(a) * 220 =< 4200000 * Words(b)
        <3>. HIDE DEF Words
        <3>1. 4200000 * Words(a) =< 4200000 * Words(b)
            <4>1. \A m, n \in Nat : m =< n => 4200000 * m =< 4200000 * n
                BY SMT
            <4>2. Words(a) \in Nat /\ Words(b) \in Nat /\ Words(a) =< Words(b)
                BY <1>3, SMT
            <4>. QED  BY <4>1, <4>2, SMT
        <3>2. Length(a) * 220 \in Int /\ 4200000 * Words(a) \in Int
              /\ 4200000 * Words(b) \in Int
            BY <1>3, <2>2, SMT
        <3>. QED  BY <3>1, <3>2, <2>2, SMT
    <2>4. Length(a) =< Length(b)
        BY <2>2, <2>3, SMT
    <2>5. b.words >= 90 => 1718181 * 220 =< 4200000 * Words(b)
        BY <1>3, SMT
    <2>. QED  BY <2>2, <2>4, <2>5, SMT
<1>. HIDE DEF Words
<1>5. /\ (42 * 100000 * Min({a.words, 220})) \div 220 = Length(a)
      /\ (42 * 100000 * Min({b.words, 220})) \div 220 = Length(b)
    <2>1. ASSUME NEW n \in Nat
          PROVE  Min({n, 220}) = IF n < 220 THEN n ELSE 220
        BY MinOfTwo
    <2>2. Min({a.words, 220}) = Words(a) /\ Min({b.words, 220}) = Words(b)
        BY <1>1, <2>1 DEF Words
    <2>. QED  BY <2>2, SMT
<1>. HIDE DEF Length
<1>6. /\ x = IF u >= 45000 /\ a.words < 90 /\ Length(a) + 58 * u < 5200000
             THEN 5200000 ELSE Length(a) + 58 * u
      /\ y = IF v >= 45000 /\ b.words < 90 /\ Length(b) + 58 * v < 5200000
             THEN 5200000 ELSE Length(b) + 58 * v
    <2>1. ASSUME NEW p \in Int
          PROVE  Max({p, 5200000}) = IF p < 5200000 THEN 5200000 ELSE p
        BY MaxOfTwo, SMT
    <2>2. /\ x = IF u >= 45000 /\ a.words < 90
                 THEN Max({Length(a) + 58 * u, 5200000}) ELSE Length(a) + 58 * u
          /\ y = IF v >= 45000 /\ b.words < 90
                 THEN Max({Length(b) + 58 * v, 5200000}) ELSE Length(b) + 58 * v
        <3>. DEFINE P(m) == (42 * 100000 * Min({m.words, 220})) \div 220
                               + 58 * SemanticChoice(m)
        <3>1. ASSUME NEW m
              PROVE  CombinedChoice(m) = IF SemanticChoice(m) >= 45000 /\ m.words < 90
                                         THEN Max({P(m), 5200000}) ELSE P(m)
            BY SMT DEF CombinedChoice
        <3>2. P(a) = Length(a) + 58 * u /\ P(b) = Length(b) + 58 * v
            BY <1>5, SMT
        <3>. HIDE DEF P
        <3>. QED  BY <3>1, <3>2, SMT
    <2>3. Length(a) + 58 * u \in Int /\ Length(b) + 58 * v \in Int
        <3>. HIDE DEF u, v
        <3>. QED  BY <1>2, <1>4
    <2>. HIDE DEF x, y, u, v
    <2>. QED  BY <2>1, <2>2, <2>3, SMT
<1>7. ChoiceAwareness(a) = L(x) /\ ChoiceAwareness(b) = L(y)
    BY DEF ChoiceAwareness
<1>. HIDE DEF x, y, u, v
<1>8. x \in Int /\ y \in Int
    BY <1>2, <1>4, <1>6, SMT
<1>9. \A n \in {x, y} : L(n) =
         IF n < 2200001 THEN 1 ELSE IF n < 3800001 THEN 2
         ELSE IF n < 5500001 THEN 3 ELSE IF n < 7200001 THEN 4 ELSE 5
    BY <1>8, LadderIs, SMT
<1>. HIDE DEF L
<1>10. x =< y \/ (x = 5200000 /\ y >= 3800001)
    <2>1. Length(a) + 58 * u =< Length(b) + 58 * v
        BY <1>2, <1>4, SMT
    <2>2. CASE u >= 45000 /\ a.words < 90 /\ Length(a) + 58 * u < 5200000
        <3>1. x = 5200000
            BY <1>6, <2>2, SMT
        <3>2. CASE b.words < 90
            BY <3>1, <3>2, <2>2, <1>2, <1>4, <1>6, SMT
        <3>3. CASE ~ (b.words < 90)
            <4>1. y = Length(b) + 58 * v
                BY <3>3, <1>6, SMT
            <4>2. Length(b) >= 1718181 /\ v >= 45000
                BY <3>3, <2>2, <1>1, <1>2, <1>4, SMT
            <4>. QED  BY <3>1, <4>1, <4>2, <1>2, <1>4, SMT
        <3>. QED  BY <3>2, <3>3
    <2>3. CASE ~ (u >= 45000 /\ a.words < 90 /\ Length(a) + 58 * u < 5200000)
        <3>1. x = Length(a) + 58 * u
            BY <1>6, <2>3, SMT
        <3>2. y >= Length(b) + 58 * v
            BY <1>2, <1>4, <1>6, SMT
        <3>3. Length(a) + 58 * u \in Int /\ Length(b) + 58 * v \in Int
            BY <1>2, <1>4, SMT
        <3>. DEFINE l == Length(a) + 58 * u
                    m == Length(b) + 58 * v
        <3>4. x = l /\ y >= m /\ l =< m /\ l \in Int /\ m \in Int
            BY <3>1, <3>2, <3>3, <2>1, SMT
        <3>. HIDE DEF l, m
        <3>. QED  BY <3>4, <1>8, SMT
    <2>. QED  BY <2>2, <2>3
<1>11. L(x) \in Int /\ L(y) \in Int /\ L(x) =< L(y)
    BY <1>8, <1>9, <1>10, SMT
<1>. QED  BY <1>7, <1>11 DEF a, b

\* More evidence, a better structure and a number.
LEMMA SpecificityGrows ==
    ASSUME NEW s \in Sheet, NEW t \in Sheet,
           t.motivation.evidence >= s.motivation.evidence,
           t.motivation.structure >= s.motivation.structure,
           t.motivation.digits >= s.motivation.digits
    PROVE  Specificity(t.motivation) >= Specificity(s.motivation)
<1>. DEFINE a == s.motivation
            b == t.motivation
            Parts(m) == Density(m.evidence, 4) + 50 * Min({m.structure, 3})
                          + 80 * m.digits
<1>1. /\ a.evidence \in Nat /\ a.structure \in Nat /\ a.digits \in 0..1
      /\ b.evidence \in Nat /\ b.structure \in Nat /\ b.digits \in 0..1
    BY DEF Sheet
<1>2. /\ Density(a.evidence, 4) \in Nat /\ Density(b.evidence, 4) \in Nat
      /\ Density(a.evidence, 4) =< Density(b.evidence, 4)
    BY <1>1, DensityGrows
<1>3. /\ Min({a.structure, 3}) \in Nat /\ Min({b.structure, 3}) \in Nat
      /\ Min({a.structure, 3}) =< Min({b.structure, 3})
    BY <1>1, MinOfTwo
<1>4. Parts(a) \in Int /\ Parts(b) \in Int /\ Parts(a) =< Parts(b)
    BY <1>1, <1>2, <1>3
<1>. HIDE DEF a, b
<1>5. Specificity(a) =< Specificity(b)
    <2>1. /\ Specificity(a) = Ladder(Parts(a), {26, 61, 121, 181})
          /\ Specificity(b) = Ladder(Parts(b), {26, 61, 121, 181})
        BY DEF Specificity
    <2>. HIDE DEF Parts
    <2>2. Ladder(Parts(a), {26, 61, 121, 181}) =< Ladder(Parts(b), {26, 61, 121, 181})
        BY <1>4, LadderGrows
    <2>. QED  BY <2>1, <2>2
<1>6. Specificity(a) \in Int /\ Specificity(b) \in Int
    <2>1. ASSUME NEW n \in Int
          PROVE  Ladder(n, {26, 61, 121, 181}) \in Int
        <3>1. Ladder(n, {26, 61, 121, 181}) \in 1..5
            BY LadderOnScale
        <3>. QED  BY <3>1
    <2>. QED  BY <2>1, <1>4 DEF Specificity
<1>. QED  BY <1>5, <1>6 DEF a, b

LEMMA MotivationGrows ==
    ASSUME NEW s \in Sheet, NEW t \in Sheet, NEW key \in Keys["motivation"],
           NoWorse("motivation", key, s.motivation, t.motivation)
    PROVE  MotivationScore(t.motivation)[key] >= MotivationScore(s.motivation)[key]
<1>. DEFINE a == s.motivation
            b == t.motivation
<1>1. key \in {"motivation_level", "choice_awareness", "specificity"}
    BY DEF Keys
<1>2. key \in AllKeys
    BY DEF AllKeys, Sections, Keys
<1>3. /\ \A field \in For[key] : b[field] >= a[field]
      /\ \A field \in Against[key] : b[field] =< a[field]
      /\ a.words > 0 /\ b.words > 0
    BY DEF NoWorse
<1>4. /\ a.words \in Nat /\ b.words \in Nat
    BY DEF Sheet
<1>5. \A m \in {a, b} : MotivationScore(m) =
          [motivation_level |-> MotivationLevel(m),
           choice_awareness |-> ChoiceAwareness(m),
           specificity |-> Specificity(m)]
    BY <1>3, <1>4 DEF MotivationScore
<1>. HIDE DEF a, b
<1>6. CASE key = "motivation_level"
    <2>1. For[key] = {"terms", "intrinsic"} /\ Against[key] = {"extrinsic"}
        BY <1>2, <1>6, Fields
    <2>2. /\ b.terms >= a.terms /\ b.intrinsic >= a.intrinsic
          /\ b.extrinsic =< a.extrinsic
        BY <1>3, <2>1
    <2>3. MotivationLevel(b) >= MotivationLevel(a)
        BY <2>2, LevelGrows DEF a, b
    <2>. QED  BY <2>3, <1>5, <1>6 DEF a, b
<1>7. CASE key = "choice_awareness"
    <2>1. For[key] = {"words", "choice", "fit"}
        BY <1>2, <1>7, Fields
    <2>2. b.words >= a.words /\ b.choice >= a.choice /\ b.fit >= a.fit
        BY <1>3, <2>1
    <2>3. ChoiceAwareness(b) >= ChoiceAwareness(a)
        BY <2>2, ChoiceGrows DEF a, b
    <2>. QED  BY <2>3, <1>5, <1>7 DEF a, b
<1>8. CASE key = "specificity"
    <2>1. For[key] = {"evidence", "structure", "digits"}
        BY <1>2, <1>8, Fields
    <2>2. /\ b.evidence >= a.evidence /\ b.structure >= a.structure
          /\ b.digits >= a.digits
        BY <1>3, <2>1
    <2>3. Specificity(b) >= Specificity(a)
        BY <2>2, SpecificityGrows DEF a, b
    <2>. QED  BY <2>3, <1>5, <1>8 DEF a, b
<1>. QED  BY <1>1, <1>6, <1>7, <1>8

LEMMA BetterIsNoLower ==
    ASSUME NEW s \in Sheet, NEW t \in Sheet, NEW section \in Sections,
           NEW key \in Keys[section],
           NoWorse(section, key, s[section], t[section])
    PROVE  Recommended(t, section)[key] >= Recommended(s, section)[key]
<1>1. CASE section = "personal"
    BY <1>1, PersonalGrows DEF Recommended
<1>2. CASE section = "test"
    BY <1>2, TestGrows DEF Recommended
<1>3. CASE section = "motivation"
    BY <1>3, MotivationGrows DEF Recommended
<1>4. CASE section = "path"
    BY <1>4, PathGrows DEF Recommended
<1>5. CASE section = "achievements"
    BY <1>5, AchievementsGrow DEF Recommended
<1>. QED  BY <1>1, <1>2, <1>3, <1>4, <1>5 DEF Sections, Keys

(* Better material is never recommended a lower score, key by key, whatever *)
(* sheets a run of checks and the analyses leave one after the other: the   *)
(* thresholds, floors, extra points and the allowance for a short letter do *)
(* not overlap so that a candidate loses by adding something                *)
(* (compute_recommended_scores).                                            *)
THEOREM BetterMaterialNeverLoses == DeskSpec => BetterNeverScoresLower
<1>1. ASSUME DeskInv, DeskInv'
      PROVE  \A s \in Sections : sheet'[s] # sheet[s] =>
                LET old == Recommended(sheet, s)
                    new == Recommended(sheet', s)
                IN  \A key \in Keys[s] :
                      NoWorse(s, key, sheet[s], sheet'[s]) => new[key] >= old[key]
    <2>1. sheet \in Sheet /\ sheet' \in Sheet
        BY <1>1, DeskAssumption DEF DeskInv, ScoresInv
    <2>. QED  BY <2>1, BetterIsNoLower
<1>. QED  BY <1>1, DeskInvariant, PTL DEF BetterNeverScoresLower

=============================================================================
