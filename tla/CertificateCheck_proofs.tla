------------------------ MODULE CertificateCheck_proofs ------------------------
(***************************************************************************)
(* Proofs about CertificateCheck, for every set of applications, documents *)
(* and files, every text recognition may find, and any number of crashes.  *)
(***************************************************************************)
EXTENDS CertificateCheck, WellFoundedInduction, TLAPS

-----------------------------------------------------------------------------
(* Sorting and taking the first: there is a first.                         *)

\* A set of numbers has a least one (the sorts of the extraction).
LEMMA Least ==
    ASSUME NEW T, T \subseteq Nat, T # {}
    PROVE  \E x \in T : \A y \in T : x <= y
<1>1. \E x \in T : \A y \in T : ~ (<<y, x>> \in OpToRel(<, Nat))
    BY WFMin, NatLessThanWellFounded
<1>2. \A x, y \in T : (<<y, x>> \notin OpToRel(<, Nat)) => x <= y
    BY DEF OpToRel
<1>. QED  BY <1>1, <1>2

\* Sorting by a first key and then by a second has a first element
\* (extractIeltsDetailed, extractToeflDetailed, extractKazakhDetailed).
LEMMA Foremost ==
    ASSUME NEW S, S # {}, NEW f \in [S -> Nat], NEW g \in [S -> Nat]
    PROVE  \E x \in S : \A y \in S :
               f[x] < f[y] \/ (f[x] = f[y] /\ g[x] <= g[y])
<1>1. PICK k \in {f[x] : x \in S} : \A m \in {f[x] : x \in S} : k <= m
    <2>1. {f[x] : x \in S} \subseteq Nat /\ {f[x] : x \in S} # {}
        OBVIOUS
    <2>. QED  BY <2>1, Least
<1>. DEFINE R == {x \in S : f[x] = k}
<1>2. PICK n \in {g[x] : x \in R} : \A m \in {g[x] : x \in R} : n <= m
    <2>1. {g[x] : x \in R} \subseteq Nat /\ {g[x] : x \in R} # {}
        BY <1>1
    <2>. QED  BY <2>1, Least
<1>3. PICK x \in R : g[x] = n
    BY <1>2
<1>4. ASSUME NEW y \in S
      PROVE  f[x] < f[y] \/ (f[x] = f[y] /\ g[x] <= g[y])
    <2>1. CASE y \in R
        BY <2>1, <1>2, <1>3
    <2>2. CASE y \notin R
        <3>1. f[x] <= f[y] /\ f[x] # f[y]
            BY <2>2, <1>1, <1>3, <1>4
        <3>. QED  BY <3>1, <1>3, <1>4
    <2>. QED  BY <2>1, <2>2
<1>. QED  BY <1>3, <1>4

-----------------------------------------------------------------------------
(* The classification.                                                     *)

LEMMA PointsAreNumbers ==
    ASSUME NEW marks, NEW exam
    PROVE  Points(marks, exam) \in Int
<1>. DEFINE add(mark, weight) == IF mark \in marks THEN weight ELSE 0
<1>1. ASSUME NEW mark, NEW weight \in Int
      PROVE  add(mark, weight) \in Int
    OBVIOUS
<1>. HIDE DEF add
<1>2. CASE exam = "ielts"
    <2>1. Points(marks, exam) =
              add("ielts", 4) + add("trf", 3) + add("overall_band", 3)
              + add("council", 1) + add("band_number", 2)
        BY <1>2 DEF Points, add
    <2>. QED  BY <2>1, <1>1
<1>3. CASE exam = "toefl"
    <2>1. Points(marks, exam) =
              add("toefl", 4) + add("ets", 2) + add("ibt", 2) + add("total_score", 2)
        BY <1>3 DEF Points, add
    <2>. QED  BY <2>1, <1>1
<1>4. CASE exam = "ent"
    <2>1. Points(marks, exam) =
              add("national", 4) + add("serial", 2) + add("kt", 2)
              + add("among", 1) + add("final_points", 1) + add("ent_word", 2)
        BY <1>4 DEF Points, add
    <2>. QED  BY <2>1, <1>1
<1>5. CASE exam \notin {"ielts", "toefl", "ent"}
    <2>1. Points(marks, exam) =
              add("school", 5) + add("grade_12", 1) + add("final_points", 1)
        BY <1>5 DEF Points, add
    <2>. QED  BY <2>1, <1>1
<1>. QED  BY <1>2, <1>3, <1>4, <1>5

\* Of four scores one is the highest.
LEMMA TopOfFour ==
    ASSUME NEW a \in Int, NEW b \in Int, NEW c \in Int, NEW d \in Int
    PROVE  \E x \in {a, b, c, d} : \A y \in {a, b, c, d} : x >= y
<1>1. CASE a >= b /\ a >= c /\ a >= d
    BY <1>1
<1>2. CASE b >= a /\ b >= c /\ b >= d
    BY <1>2
<1>3. CASE c >= a /\ c >= b /\ c >= d
    BY <1>3
<1>4. CASE d >= a /\ d >= b /\ d >= c
    BY <1>4
<1>. QED  BY <1>1, <1>2, <1>3, <1>4

\* A text is of one of the exams or of none (classifyDocumentType).
LEMMA Classified ==
    ASSUME NEW marks
    PROVE  Classify(marks) \in Type
<1>. DEFINE p == [e \in Exam |-> Points(marks, e)]
            top == Max({p[e] : e \in Exam})
            tops == {i \in DOMAIN Precedence : p[Precedence[i]] = top}
            torn == \/ p["ielts"] = p["toefl"] /\ p["ielts"] >= 3
                    \/ p["ent"] = p["nis_12"] /\ p["ent"] >= 3
<1>1. p \in [Exam -> Int]
    BY PointsAreNumbers
<1>2. top \in {p[e] : e \in Exam}
    <2>1. {p[e] : e \in Exam} = {p["ielts"], p["toefl"], p["ent"], p["nis_12"]}
        BY DEF Exam
    <2>2. \E x \in {p[e] : e \in Exam} : \A y \in {p[e] : e \in Exam} : x >= y
        <3>1. /\ p["ielts"] \in Int /\ p["toefl"] \in Int
              /\ p["ent"] \in Int /\ p["nis_12"] \in Int
            BY <1>1 DEF Exam
        <3>. HIDE DEF p
        <3>2. LET S == {p["ielts"], p["toefl"], p["ent"], p["nis_12"]}
              IN  \E x \in S : \A y \in S : x >= y
            BY <3>1, TopOfFour
        <3>. QED  BY <2>1, <3>2
    <2>. HIDE DEF p
    <2>. QED  BY <2>2 DEF Max
<1>3. DOMAIN Precedence = 1..4 /\ \A i \in 1..4 : Precedence[i] \in Exam
    BY DEF Precedence, Exam
<1>4. tops # {} /\ tops \subseteq 1..4
    <2>1. \E i \in 1..4 : p[Precedence[i]] = top
        <3>1. \A e \in Exam : \E i \in 1..4 : Precedence[i] = e
            <4>1. /\ Precedence[1] = "ielts" /\ Precedence[2] = "toefl"
                  /\ Precedence[3] = "ent" /\ Precedence[4] = "nis_12"
                BY DEF Precedence
            <4>. QED  BY <4>1 DEF Exam
        <3>. HIDE DEF p, top
        <3>. QED  BY <3>1, <1>2
    <2>. HIDE DEF p, top
    <2>. QED  BY <2>1, <1>3
<1>5. Min(tops) \in 1..4
    <2>. HIDE DEF tops
    <2>1. \E x \in tops : \A y \in tops : x <= y
        <3>1. tops # {} /\ tops \subseteq Nat
            BY <1>4
        <3>. QED  BY <3>1, Least
    <2>2. Min(tops) \in tops
        BY <2>1 DEF Min
    <2>. QED  BY <2>2, <1>4
<1>6. Classify(marks) = IF top < 3 \/ (Cardinality(tops) > 1 /\ torn) THEN "unknown"
                        ELSE Precedence[Min(tops)]
    BY DEF Classify
<1>. HIDE DEF top, tops, torn
<1>. QED  BY <1>3, <1>5, <1>6 DEF Type

-----------------------------------------------------------------------------
(* The score: it is a figure of the text.                                  *)

Figure == [value : Nat, line : STRING, near : SUBSET STRING]

\* A score is missing, or it stands in the text.
Stands(text, found) ==
    /\ found.tier \in Tier
    /\ found.score = NoScore
          \/ \E i \in DOMAIN text.figures : text.figures[i].value = found.score

LEMMA FiguresHaveValues ==
    ASSUME NEW text \in Text
    PROVE  /\ text.figures \in Seq(Figure)
           /\ \A i \in DOMAIN text.figures :
                 i \in Nat /\ text.figures[i].value \in Nat
<1>1. text.figures \in Seq(Figure)
    BY DEF Text, Figure
<1>2. \A i \in DOMAIN text.figures : i \in Nat /\ text.figures[i] \in Figure
    BY <1>1
<1>. QED  BY <1>1, <1>2 DEF Figure

LEMMA FoundStands ==
    ASSUME NEW text, NEW i \in DOMAIN text.figures, NEW tier \in Tier
    PROVE  Stands(text, Found(text.figures[i].value, tier))
BY DEF Stands, Found

LEMMA MissingStands ==
    ASSUME NEW text
    PROVE  Stands(text, Missing)
BY DEF Stands, Missing, Tier

\* extractIeltsDetailed returns a number of the text.
LEMMA IeltsStands ==
    ASSUME NEW text \in Text
    PROVE  Stands(text, IeltsScore(text))
<1>. DEFINE hits == {h \in (DOMAIN IeltsLines) \X (DOMAIN text.figures) :
                        /\ text.figures[h[2]].line = IeltsLines[h[1]]
                        /\ text.figures[h[2]].value \in 8..18}
            Leads(h) == \A g \in hits : h[1] < g[1] \/ (h[1] = g[1] /\ h[2] <= g[2])
            first == CHOOSE h \in hits : Leads(h)
            tier == IF first[1] <= 2 THEN "high" ELSE "medium"
<1>1. CASE hits = {}
    <2>1. IeltsScore(text) = Missing
        BY <1>1 DEF IeltsScore
    <2>. QED  BY <2>1, MissingStands
<1>2. CASE hits # {}
    <2>1. \A h \in hits : h[1] \in Nat /\ h[2] \in Nat /\ h[2] \in DOMAIN text.figures
        BY FiguresHaveValues DEF IeltsLines
    <2>2. \E h \in hits : Leads(h)
        <3>. DEFINE f == [h \in hits |-> h[1]]
                    g == [h \in hits |-> h[2]]
        <3>1. f \in [hits -> Nat] /\ g \in [hits -> Nat]
            BY <2>1
        <3>2. \E x \in hits : \A y \in hits :
                  f[x] < f[y] \/ (f[x] = f[y] /\ g[x] <= g[y])
            <4>. HIDE DEF hits, f, g
            <4>. QED  BY <1>2, <3>1, Foremost
        <3>. HIDE DEF hits
        <3>. QED  BY <3>2
    <2>3. first \in hits
        <3>. HIDE DEF hits, Leads
        <3>. QED  BY <2>2
    <2>4. IeltsScore(text) = Found(text.figures[first[2]].value, tier)
        BY <1>2 DEF IeltsScore
    <2>5. first[2] \in DOMAIN text.figures /\ tier \in Tier
        <3>. HIDE DEF first
        <3>. QED  BY <2>1, <2>3 DEF Tier
    <2>. HIDE DEF first, tier
    <2>. QED  BY <2>4, <2>5, FoundStands
<1>. QED  BY <1>1, <1>2

\* extractToeflDetailed returns a number of the text.
LEMMA ToeflStands ==
    ASSUME NEW text \in Text
    PROVE  Stands(text, ToeflScore(text))
<1>. DEFINE at(lines) == {i \in DOMAIN text.figures : text.figures[i].line \in lines}
            totals == {h \in (DOMAIN ToeflLines) \X (DOMAIN text.figures) :
                          /\ text.figures[h[2]].line = ToeflLines[h[1]]
                          /\ text.figures[h[2]].value <= 120}
            Leads(h) == \A g \in totals :
                           LET v == text.figures[h[2]].value
                               w == text.figures[g[2]].value
                           IN  v > w \/ (v = w /\ h[1] <= g[1])
            best == CHOOSE h \in totals : Leads(h)
            sections == \A s \in {"reading", "listening"} :
                           \E i \in at({s}) : text.figures[i].value <= 30
            loose == {i \in DOMAIN text.figures : text.figures[i].value \in 80..120}
            named == text.marks \cap {"toefl", "ets"} # {}
            tier == IF best[1] = 1 THEN "high" ELSE "medium"
<1>1. ToeflScore(text) =
          IF totals # {} THEN Found(text.figures[best[2]].value, tier)
          ELSE IF sections /\ named /\ loose # {}
          THEN Found(text.figures[Min(loose)].value, "low") ELSE Missing
    BY DEF ToeflScore
<1>2. CASE totals # {}
    <2>1. \A h \in totals : /\ h[1] \in Nat /\ h[2] \in DOMAIN text.figures
                            /\ text.figures[h[2]].value \in 0..120
        <3>. SUFFICES ASSUME NEW h \in totals
                      PROVE  /\ h[1] \in Nat /\ h[2] \in DOMAIN text.figures
                             /\ text.figures[h[2]].value \in 0..120
            OBVIOUS
        <3>1. /\ h[1] \in DOMAIN ToeflLines /\ h[2] \in DOMAIN text.figures
              /\ text.figures[h[2]].value <= 120
            OBVIOUS
        <3>2. h[1] \in Nat
            BY <3>1 DEF ToeflLines
        <3>3. text.figures[h[2]].value \in Nat
            BY <3>1, FiguresHaveValues
        <3>. HIDE DEF totals
        <3>. QED  BY <3>1, <3>2, <3>3
    <2>2. \E h \in totals : Leads(h)
        <3>. DEFINE f == [h \in totals |-> 120 - text.figures[h[2]].value]
                    g == [h \in totals |-> h[1]]
        <3>1. f \in [totals -> Nat] /\ g \in [totals -> Nat]
            <4>. HIDE DEF totals
            <4>1. \A v \in 0..120 : 120 - v \in Nat
                OBVIOUS
            <4>2. ASSUME NEW h \in totals
                  PROVE  120 - text.figures[h[2]].value \in Nat /\ h[1] \in Nat
                <5>1. text.figures[h[2]].value \in 0..120 /\ h[1] \in Nat
                    BY <2>1
                <5>. QED  BY <4>1, <5>1
            <4>3. f \in [totals -> Nat]
                BY <4>2
            <4>4. g \in [totals -> Nat]
                BY <4>2
            <4>. QED  BY <4>3, <4>4
        <3>2. PICK x \in totals : \A y \in totals :
                  f[x] < f[y] \/ (f[x] = f[y] /\ g[x] <= g[y])
            <4>. HIDE DEF totals, f, g
            <4>. QED  BY <1>2, <3>1, Foremost
        <3>3. ASSUME NEW y \in totals
              PROVE  \/ text.figures[x[2]].value > text.figures[y[2]].value
                     \/ /\ text.figures[x[2]].value = text.figures[y[2]].value
                        /\ x[1] <= y[1]
            <4>. HIDE DEF totals
            <4>1. /\ f[x] = 120 - text.figures[x[2]].value /\ g[x] = x[1]
                  /\ f[y] = 120 - text.figures[y[2]].value /\ g[y] = y[1]
                BY <3>3
            <4>2. f[x] < f[y] \/ (f[x] = f[y] /\ g[x] <= g[y])
                BY <3>2, <3>3
            <4>3. /\ text.figures[x[2]].value \in 0..120
                  /\ text.figures[y[2]].value \in 0..120
                BY <2>1, <3>3
            <4>4. x[1] \in Nat /\ y[1] \in Nat
                BY <2>1, <3>3
            <4>5. ASSUME NEW v \in 0..120, NEW w \in 0..120, NEW k \in Nat, NEW m \in Nat,
                         \/ 120 - v < 120 - w
                         \/ 120 - v = 120 - w /\ k <= m
                  PROVE  v > w \/ (v = w /\ k <= m)
                BY <4>5
            <4>6. \/ 120 - text.figures[x[2]].value < 120 - text.figures[y[2]].value
                  \/ /\ 120 - text.figures[x[2]].value = 120 - text.figures[y[2]].value
                     /\ x[1] <= y[1]
                <5>. HIDE DEF f, g
                <5>. QED  BY <4>1, <4>2
            <4>. QED  BY <4>3, <4>4, <4>5, <4>6
        <3>4. Leads(x)
            <4>. HIDE DEF totals
            <4>. QED  BY <3>3
        <3>. HIDE DEF totals, Leads
        <3>. QED  BY <3>4
    <2>3. best \in totals
        <3>. HIDE DEF totals, Leads
        <3>. QED  BY <2>2
    <2>4. best[2] \in DOMAIN text.figures /\ tier \in Tier
        <3>. HIDE DEF best, totals
        <3>. QED  BY <2>1, <2>3 DEF Tier
    <2>. HIDE DEF best, tier, totals, sections, loose, named
    <2>. QED  BY <1>1, <1>2, <2>4, FoundStands
<1>3. CASE totals = {} /\ sections /\ named /\ loose # {}
    <2>1. loose # {} /\ loose \subseteq Nat /\ loose \subseteq DOMAIN text.figures
        BY <1>3, FiguresHaveValues
    <2>2. \E x \in loose : \A y \in loose : x <= y
        <3>. HIDE DEF loose
        <3>. QED  BY <2>1, Least
    <2>3. Min(loose) \in DOMAIN text.figures
        <3>. HIDE DEF loose
        <3>. QED  BY <2>1, <2>2 DEF Min
    <2>4. "low" \in Tier
        BY DEF Tier
    <2>. HIDE DEF best, tier, totals, sections, loose, named
    <2>. QED  BY <1>1, <1>3, <2>3, <2>4, FoundStands
<1>4. CASE totals = {} /\ ~(sections /\ named /\ loose # {})
    <2>. HIDE DEF best, tier, totals, sections, loose, named
    <2>. QED  BY <1>1, <1>4, MissingStands
<1>. HIDE DEF totals, sections, loose, named
<1>. QED  BY <1>2, <1>3, <1>4

\* The rank of a candidate is a number of limited size (rankEntCandidate).
LEMMA RankBounded ==
    ASSUME NEW f \in Figure
    PROVE  Rank(f) \in Int /\ Rank(f) <= 40
<1>. DEFINE add(cond, n) == IF cond THEN n ELSE 0
<1>1. ASSUME NEW cond, NEW n \in Nat
      PROVE  add(cond, n) \in Int /\ 0 <= add(cond, n) /\ add(cond, n) <= n
    OBVIOUS
<1>. HIDE DEF add
<1>2. Rank(f) =
        add("final_header" \in f.near, 9) + add("result" \in f.near, 7)
        + add("score" \in f.near, 5)
        + add("result" \in f.near /\ "score" \in f.near, 6)
        + add("exam" \in f.near, 3) + add("of_200" \in f.near, 2)
        + add(f.value \in 90..130, 1) + add(f.value = 100, 3)
        + add("kt" \in f.near, 1)
        - add("number_or_date" \in f.near, 8) - add("section" \in f.near, 7)
        - add("section" \in f.near /\ ~("final_header" \in f.near), 3)
        - add("number_or_date" \in f.near /\ ~("final_header" \in f.near), 3)
    BY DEF Rank, add
<1>. QED  BY <1>1, <1>2

LEMMA BoostedBounded ==
    ASSUME NEW f \in Figure, NEW exam, NEW school
    PROVE  Boosted(f, exam, school) \in Int /\ Boosted(f, exam, school) <= 60
<1>1. Rank(f) \in Int /\ Rank(f) <= 40
    BY RankBounded
<1>2. Max({10, Rank(f)}) \in Int /\ Max({10, Rank(f)}) <= 40
    <2>1. \E x \in {10, Rank(f)} : \A y \in {10, Rank(f)} : x >= y
        BY <1>1
    <2>2. Max({10, Rank(f)}) \in {10, Rank(f)}
        BY <2>1 DEF Max
    <2>. QED  BY <1>1, <2>2
<1>. QED  BY <1>1, <1>2 DEF Boosted

\* extractKazakhDetailed returns a number of the text.
LEMMA KazakhStands ==
    ASSUME NEW text \in Text, NEW exam
    PROVE  Stands(text, KazakhScore(text, exam))
<1>. DEFINE rank(i) == Boosted(text.figures[i], exam, "school" \in text.marks)
            fits == Candidates(text, exam)
            Leads(i) == \A j \in fits :
                           \/ rank(i) > rank(j)
                           \/ /\ rank(i) = rank(j)
                              /\ text.figures[i].value >= text.figures[j].value
            best == CHOOSE i \in fits : Leads(i)
            weak == rank(best) < (IF exam = "ent" THEN 8 ELSE 6)
            tier == IF rank(best) >= 14 THEN "high"
                    ELSE IF rank(best) >= 10 THEN "medium" ELSE "low"
<1>1. KazakhScore(text, exam) =
          IF fits = {} \/ weak THEN Missing
          ELSE Found(text.figures[best].value, tier)
    BY DEF KazakhScore
<1>2. CASE fits = {} \/ weak
    <2>. HIDE DEF fits, weak, best, tier
    <2>. QED  BY <1>1, <1>2, MissingStands
<1>3. CASE fits # {} /\ ~weak
    <2>1. \A i \in fits : /\ i \in DOMAIN text.figures
                          /\ text.figures[i].value \in Nat
                          /\ text.figures[i].value <= 140
        BY FiguresHaveValues DEF Candidates
    <2>2. \A i \in fits : rank(i) \in Int /\ rank(i) <= 60
        <3>1. \A i \in fits : text.figures[i] \in Figure
            BY <2>1, FiguresHaveValues
        <3>. HIDE DEF fits
        <3>. QED  BY <3>1, BoostedBounded
    <2>3. \E i \in fits : Leads(i)
        <3>. DEFINE f == [i \in fits |-> 60 - rank(i)]
                    g == [i \in fits |-> 140 - text.figures[i].value]
        <3>. HIDE DEF rank, fits
        <3>1. f \in [fits -> Nat] /\ g \in [fits -> Nat]
            BY <2>1, <2>2
        <3>2. PICK x \in fits : \A y \in fits :
                  f[x] < f[y] \/ (f[x] = f[y] /\ g[x] <= g[y])
            <4>. HIDE DEF f, g
            <4>. QED  BY <1>3, <3>1, Foremost
        <3>3. Leads(x)
            BY <2>1, <2>2, <3>2
        <3>. HIDE DEF Leads
        <3>. QED  BY <3>3
    <2>4. best \in fits
        <3>. HIDE DEF fits, Leads
        <3>. QED  BY <2>3
    <2>5. best \in DOMAIN text.figures /\ tier \in Tier
        <3>. HIDE DEF best, fits, rank
        <3>. QED  BY <2>1, <2>4 DEF Tier
    <2>. HIDE DEF best, tier, fits, weak
    <2>. QED  BY <1>1, <1>3, <2>5, FoundStands
<1>. HIDE DEF fits, weak
<1>. QED  BY <1>2, <1>3

\* Whatever the exam, a score is a figure of the text.
LEMMA ExtractStands ==
    ASSUME NEW text \in Text, NEW type
    PROVE  Stands(text, Extract(text, type))
BY IeltsStands, ToeflStands, KazakhStands, MissingStands DEF Extract

-----------------------------------------------------------------------------
(* The verdict.                                                            *)

Need(type) == IF type = "ielts" THEN 12 ELSE ToeflThreshold
Stating(text, score) == \E i \in DOMAIN text.figures : text.figures[i].value = score

\* What a verdict says of the text it was made from: a good one names the exam
\* that was read and declared, a score stands in the text, and a threshold is
\* passed by a score of that exam (validateCertificateImage).
Supported(v, first, text, declared) ==
    /\ v \in Answers
    /\ ~v.forced
    /\ v.score # NoScore => Stating(text, v.score)
    /\ v.authenticity = "likely_authentic" =>
          /\ Classify(first.marks) \in {"unknown", v.type}
          /\ declared \in {"unknown", v.type}
          /\ v.score # NoScore
    /\ v.passed = "passed" =>
          /\ Classify(first.marks) \in {"unknown", v.type}
          /\ v.score # NoScore /\ v.score >= Need(v.type)

LEMMA VerdictSupported ==
    ASSUME NEW first, NEW text \in Text, NEW declared \in Type
    PROVE  Supported(Verdict(first, text, declared), first, text, declared)
<1>. DEFINE v == Verdict(first, text, declared)
            read == Classify(first.marks)
            type == Resolved(read, declared)
            found == Extract(text, type)
            wild == type # "unknown" /\ found.score # NoScore
                        /\ ~Plausible(type, found.score)
            score == IF wild THEN NoScore ELSE found.score
            mismatch == Mismatch(read, declared)
            doubts == {d \in {"mismatch", "implausible"} :
                          (d = "mismatch" /\ mismatch) \/ (d = "implausible" /\ wild)}
            status == IF type = "unknown" THEN "unsupported" ELSE "processed"
            passed == Threshold(type, score, mismatch)
            authentic == Authenticity(text.marks, type, score, doubts)
<1>1. v = Answer(status, type, score, found.tier, passed, authentic, FALSE)
    BY DEF Verdict
<1>2. read \in Type /\ type \in Type
    BY Classified DEF Resolved
<1>3. Stands(text, found)
    BY ExtractStands
<1>4. ~mismatch => read \in {"unknown", type} /\ declared \in {"unknown", type}
    BY DEF Mismatch, Resolved
<1>5. score \in {NoScore} \cup (0..140) /\ (score # NoScore => Stating(text, score))
    <2>1. CASE type = "unknown"
        <3>1. found = Missing
            BY <2>1 DEF Extract
        <3>2. score = NoScore
            BY <3>1, <2>1 DEF Missing
        <3>. QED  BY <3>2
    <2>2. CASE type # "unknown"
        <3>1. CASE found.score = NoScore
            BY <3>1
        <3>2. CASE found.score # NoScore
            <4>1. Stating(text, found.score)
                BY <1>3, <3>2 DEF Stands, Stating
            <4>2. Plausible(type, found.score) => found.score \in 0..140
                <5>. HIDE DEF found, type
                <5>. QED  BY DEF Plausible
            <4>. HIDE DEF found, type
            <4>. QED  BY <4>1, <4>2, <2>2
        <3>. QED  BY <3>1, <3>2
    <2>. QED  BY <2>1, <2>2
<1>6. passed \in {"open", "passed", "missed"}
    BY DEF Threshold
<1>7. passed = "passed" => ~mismatch /\ score # NoScore /\ score >= Need(type)
    <2>. HIDE DEF type, score, mismatch
    <2>. QED  BY DEF Threshold, Need
<1>8. /\ authentic \in {"likely_authentic", "suspicious", "manual_review_required"}
      /\ authentic = "likely_authentic" => doubts = {} /\ score # NoScore
    <2>. HIDE DEF type, score, doubts
    <2>. QED  BY DEF Authenticity
<1>9. doubts = {} => ~mismatch
    <2>1. mismatch => "mismatch" \in doubts
        OBVIOUS
    <2>. QED  BY <2>1
<1>10. found.tier \in Tier
    BY <1>3 DEF Stands
<1>11. status \in {"processed", "unsupported"}
    OBVIOUS
<1>12. /\ v.status = status /\ v.type = type /\ v.score = score
       /\ v.tier = found.tier /\ v.passed = passed /\ v.authenticity = authentic
       /\ v.error = FALSE /\ v.forced = FALSE
    <2>. HIDE DEF v, status, type, score, found, passed, authentic
    <2>. QED  BY <1>1 DEF Answer
<1>13. v \in Answers
    <2>. HIDE DEF v, status, type, score, found, passed, authentic
    <2>. QED  BY <1>1, <1>2, <1>5, <1>6, <1>8, <1>10, <1>11 DEF Answer, Answers
<1>. HIDE DEF v, read, type, found, score, mismatch, doubts, status, passed, authentic
<1>14. Supported(v, first, text, declared)
    BY <1>4, <1>5, <1>7, <1>8, <1>9, <1>12, <1>13 DEF Supported, read
<1>. QED  BY <1>14 DEF v

\* A failure is an answer of the service as well.
LEMMA FailuresAnswer ==
    /\ OcrFailed \in Answers /\ ~OcrFailed.forced /\ OcrFailed.error
    /\ ProcessingFailed \in Answers /\ ~ProcessingFailed.forced /\ ProcessingFailed.error
    /\ OcrFailed.authenticity = "insufficient_quality"
    /\ ProcessingFailed.authenticity = "manual_review_required"
    /\ OcrFailed.passed = "open" /\ ProcessingFailed.passed = "open"
BY DEF OcrFailed, ProcessingFailed, Answer, Answers, Type, Tier

\* The text of the supplementary passes is appended to what was read.
LEMMA JoinedText ==
    ASSUME NEW text \in Text, NEW more \in Text
    PROVE  /\ Joined(text, more) \in Text
           /\ Joined(text, NoText) = text
           /\ NoText \in Text
<1>1. /\ text.marks \in SUBSET STRING /\ text.figures \in Seq(Figure)
      /\ more.marks \in SUBSET STRING /\ more.figures \in Seq(Figure)
    BY DEF Text, Figure
<1>2. text.figures \o more.figures \in Seq(Figure)
    BY <1>1
<1>3. text.figures \o <<>> = text.figures
    BY <1>1
<1>4. text.marks \cup {} = text.marks
    OBVIOUS
<1>5. text = [marks |-> text.marks, figures |-> text.figures]
    BY DEF Text
<1>6. Joined(text, more) \in Text
    BY <1>1, <1>2 DEF Joined, Text, Figure
<1>7. Joined(text, NoText) = text
    BY <1>3, <1>4, <1>5 DEF Joined, NoText
<1>8. NoText \in Text
    <2>1. <<>> \in Seq(Figure) /\ {} \in SUBSET STRING
        OBVIOUS
    <2>. QED  BY <2>1 DEF NoText, Text, Figure
<1>. QED  BY <1>6, <1>7, <1>8

-----------------------------------------------------------------------------
(* The inductive invariant.                                                *)

Upload == Candidate \X Slot
Directories == {Directory(c) : c \in Call}
Asked == {"sent", "written", "drawn", "read", "typed"}

DocFor(c) == form[c[1]][c[2]]
Says(c) == Declared(RoleOf(c[1], DocFor(c)), form[c[1]].kinds)

\* The answers there are about a document that was sent with a declaration.
AnswersOn(doc, declared) ==
    {OcrFailed, ProcessingFailed} \cup
    {Verdict(Page[doc], text, declared) : text \in {Page[doc], Whole(doc)}}

RowRec == [slot : Slot, role : Slot \cup {"none"},
           code : {"none", "document_not_found", "unreadable",
                   "validation_http_failed"},
           answer : Answers]
UnitRec == [pc : {"ready", "waits", "ended"}, rows : Seq(RowRec),
            status : {"none", "completed", "manual_review_required"}]
CallRec == [pc : Asked \cup {"idle", "leaves", "answered"},
            doc : Document \cup {NoDoc}, declared : Type, first : Text,
            answer : Answers]
ScratchRec == [source : Document \cup {NoDoc}, image : Document \cup {NoDoc}]

FormsOK ==
    /\ force \in BOOLEAN
    /\ \A c \in Upload : DocFor(c) \in Document \cup {NoDoc}

StateOK ==
    /\ unit \in [Candidate -> UnitRec]
    /\ call \in [Call -> CallRec]
    /\ scratch \in [Directories -> ScratchRec]
    /\ check \in [File -> {"queued", "processing", "passed",
                           "manual_review_required", "failed"}]
    /\ saved \subseteq File /\ left \subseteq Upload /\ crashes \in 0..Crashes

\* A row speaks of the document of its slot: a forced answer where scores are
\* forced, the answer to its own call, or a failure of its own.
RowRight(a, row) ==
    /\ DocFor(<<a, row.slot>>) \in Document
    /\ row.role = "none" <=> row.code = "document_not_found"
    /\ row.answer.forced =>
          /\ force /\ row.role \in {"english", "certificate"}
          /\ row.code \in {"none", "validation_http_failed"}
    /\ ~row.answer.forced =>
          row.answer \in IF row.code = "none"
                         THEN AnswersOn(DocFor(<<a, row.slot>>), Says(<<a, row.slot>>))
                         ELSE {ProcessingFailed}

UnitOK(a) ==
    /\ unit[a].pc = "waits" => More(a)
    /\ Len(unit[a].rows) <= Len(Attached(a))
    /\ \A i \in DOMAIN unit[a].rows :
          unit[a].rows[i].slot = Attached(a)[i] /\ RowRight(a, unit[a].rows[i])
    /\ unit[a].status = "completed" =>
          unit[a].pc = "ended" /\ Outcome(unit[a].rows) = "completed"

\* What the service does for an upload it does with that document alone.
UploadOK(c) ==
    /\ call[c].pc \in Asked =>
          /\ DocFor(c) \in Document
          /\ call[c].doc = DocFor(c) /\ call[c].declared = Says(c)
    /\ call[c].pc \in {"read", "typed"} => call[c].first = Page[DocFor(c)]
    /\ call[c].pc \in {"leaves", "answered"} =>
          call[c].answer \in AnswersOn(DocFor(c), Says(c))
    /\ scratch[c].source \in {NoDoc, DocFor(c)}
    /\ scratch[c].image \in {NoDoc, DocFor(c)}
    /\ scratch[c] # Empty => c \in InService \cup left

\* A good answer about a file is in the table before anyone hears it.
FileOK(f) ==
    /\ call[f].pc \in Asked => call[f].doc \in Document
    /\ call[f].pc \in {"leaves", "answered"}
          /\ call[f].answer.authenticity = "likely_authentic" => f \in saved
    /\ check[f] = "passed" => f \in saved

IInv ==
    /\ FormsOK /\ StateOK
    /\ \A a \in Candidate : UnitOK(a)
    /\ \A c \in Upload : UploadOK(c)
    /\ \A f \in File : FileOK(f)

-----------------------------------------------------------------------------
(* Facts about the constants and what is fixed.                            *)

LEMMA Calls ==
    /\ Call = Upload \cup File
    /\ \A c \in Upload : c \in Call /\ c \notin File
    /\ \A f \in File : f \in Call /\ f \notin Upload
    /\ \A a \in Candidate, s \in Slot : <<a, s>> \in Upload
    /\ \A c \in Upload : c[1] \in Candidate /\ c[2] \in Slot /\ c = <<c[1], c[2]>>
BY FileAssumption DEF Call, Upload

\* An upload has a directory that is no one else's (mkdtemp).
LEMMA OwnDirectory ==
    /\ \A c \in Upload : Directory(c) = c /\ c \in Directories
    /\ \A c \in Call : Directory(c) \in Directories
    /\ \A c \in Upload : \A d \in Call : Directory(d) = c => d = c
<1>1. \A c \in Upload : Directory(c) = c
    BY Calls DEF Directory
<1>2. \A c \in Call : Directory(c) \in Directories
    BY DEF Directories
<1>3. \A f \in File : Directory(f) \notin Upload
    BY FileAssumption DEF Directory, Upload
<1>. QED  BY <1>1, <1>2, <1>3, Calls

LEMMA RolesAndDeclarations ==
    /\ \A a, doc : RoleOf(a, doc) \in Slot
    /\ \A role, kinds : Declared(role, kinds) \in Type
<1>1. ASSUME NEW a, NEW doc PROVE RoleOf(a, doc) \in Slot
    BY DEF RoleOf, Slot
<1>2. ASSUME NEW role, NEW kinds PROVE Declared(role, kinds) \in Type
    BY DEF Declared, Type, Exam
<1>. QED  BY <1>1, <1>2

\* What is sent is attached (doc_ids).
LEMMA AttachedSlots ==
    ASSUME NEW a \in Candidate, FormsOK
    PROVE  /\ Attached(a) \in Seq(Slot)
           /\ \A i \in DOMAIN Attached(a) :
                 Attached(a)[i] \in Slot /\ DocFor(<<a, Attached(a)[i]>>) \in Document
<1>. DEFINE S == {s \in Slot : form[a][s] # NoDoc}
<1>1. ASSUME NEW s \in Slot PROVE Given(a, s) \in Seq(S)
    <2>1. CASE form[a][s] = NoDoc
        BY <2>1 DEF Given
    <2>2. CASE form[a][s] # NoDoc
        <3>1. s \in S
            BY <2>2
        <3>. HIDE DEF S
        <3>2. <<s>> \in Seq(S)
            BY <3>1
        <3>. QED  BY <2>2, <3>2 DEF Given
    <2>. QED  BY <2>1, <2>2
<1>2. Attached(a) \in Seq(S)
    <2>1. /\ Given(a, "english") \in Seq(S) /\ Given(a, "certificate") \in Seq(S)
          /\ Given(a, "additional") \in Seq(S)
        BY <1>1 DEF Slot
    <2>. HIDE DEF S
    <2>. QED  BY <2>1 DEF Attached
<1>3. \A i \in DOMAIN Attached(a) : Attached(a)[i] \in S
    <2>. HIDE DEF S
    <2>. QED  BY <1>2
<1>4. \A s \in S : s \in Slot /\ DocFor(<<a, s>>) \in Document
    BY Calls DEF FormsOK, DocFor
<1>5. Attached(a) \in Seq(Slot)
    BY <1>2, <1>3
<1>. QED  BY <1>3, <1>4, <1>5

\* What is being sent next is one of them.
LEMMA NowIsAttached ==
    ASSUME NEW a \in Candidate, FormsOK, StateOK, More(a)
    PROVE  /\ Len(unit[a].rows) \in Nat /\ Len(Attached(a)) \in Nat
           /\ Len(unit[a].rows) + 1 \in 1..Len(Attached(a))
           /\ Now(a) \in Slot /\ NowDoc(a) \in Document
           /\ <<a, Now(a)>> \in Upload
           /\ DocFor(<<a, Now(a)>>) = NowDoc(a)
<1>1. Attached(a) \in Seq(Slot) /\ unit[a].rows \in Seq(RowRec)
    BY AttachedSlots DEF StateOK, UnitRec
<1>2. /\ Len(unit[a].rows) \in Nat /\ Len(Attached(a)) \in Nat
      /\ DOMAIN Attached(a) = 1..Len(Attached(a))
    BY <1>1
<1>3. Len(unit[a].rows) + 1 \in 1..Len(Attached(a))
    BY <1>2 DEF More
<1>4. Now(a) \in Slot /\ DocFor(<<a, Now(a)>>) \in Document
    BY <1>2, <1>3, AttachedSlots DEF Now
<1>5. DocFor(<<a, Now(a)>>) = NowDoc(a)
    BY DEF DocFor, NowDoc
<1>. QED  BY <1>2, <1>3, <1>4, <1>5, Calls

\* The forms do not change while they are checked.
LEMMA FormsStay ==
    ASSUME UNCHANGED <<force, form>>
    PROVE  /\ FormsOK' <=> FormsOK
           /\ \A a : Attached(a)' = Attached(a)
           /\ \A c : DocFor(c)' = DocFor(c) /\ Says(c)' = Says(c)
           /\ \A a, row : RowRight(a, row)' <=> RowRight(a, row)
           /\ \A rows : Outcome(rows)' = Outcome(rows)
<1>1. \A c : DocFor(c)' = DocFor(c)
    BY DEF DocFor
<1>2. \A c : Says(c)' = Says(c)
    BY <1>1 DEF Says, RoleOf
<1>3. FormsOK' <=> FormsOK
    BY <1>1 DEF FormsOK
<1>4. ASSUME NEW a PROVE Attached(a)' = Attached(a)
    BY DEF Attached, Given
<1>5. ASSUME NEW a, NEW row PROVE RowRight(a, row)' <=> RowRight(a, row)
    BY <1>1, <1>2 DEF RowRight
<1>6. ASSUME NEW rows PROVE Outcome(rows)' = Outcome(rows)
    BY DEF Outcome
<1>. QED  BY <1>1, <1>2, <1>3, <1>4, <1>5, <1>6

-----------------------------------------------------------------------------
(* The steps of a unit.                                                    *)

\* A row that is right may be added.
LEMMA RowAdded ==
    ASSUME IInv, UNCHANGED <<force, form>>, NEW a \in Candidate,
           unit[a].pc \in {"ready", "waits"}, More(a),
           NEW row \in RowRec, row.slot = Now(a), RowRight(a, row), Add(a, row)
    PROVE  /\ unit' \in [Candidate -> UnitRec]
           /\ \A b \in Candidate : UnitOK(b)'
<1>. DEFINE rows == unit[a].rows
            more == Append(rows, row)
<1>1. unit \in [Candidate -> UnitRec] /\ rows \in Seq(RowRec)
    BY DEF IInv, StateOK, UnitRec
<1>2. more \in Seq(RowRec) /\ Len(more) = Len(rows) + 1
    BY <1>1
<1>3. /\ unit'[a] = [unit[a] EXCEPT !.pc = "ready", !.rows = more]
      /\ \A b \in Candidate : b # a => unit'[b] = unit[b]
    BY <1>1 DEF Add
<1>4. unit'[a].pc = "ready" /\ unit'[a].rows = more /\ unit'[a].status = unit[a].status
    BY <1>1, <1>3 DEF UnitRec
<1>5. unit' \in [Candidate -> UnitRec]
    <2>1. [unit[a] EXCEPT !.pc = "ready", !.rows = more] \in UnitRec
        <3>. HIDE DEF more
        <3>. QED  BY <1>1, <1>2 DEF UnitRec
    <2>. QED  BY <1>1, <2>1 DEF Add
<1>6. Len(rows) + 1 \in 1..Len(Attached(a)) /\ Len(rows) \in Nat /\ Len(Attached(a)) \in Nat
    BY NowIsAttached DEF IInv
<1>7. unit[a].status # "completed"
    BY DEF IInv, UnitOK
<1>8. \A i \in 1..Len(rows) : rows[i].slot = Attached(a)[i] /\ RowRight(a, rows[i])
    BY <1>1 DEF IInv, UnitOK
<1>9. \A i \in DOMAIN more : more[i].slot = Attached(a)[i] /\ RowRight(a, more[i])
    <2>. SUFFICES ASSUME NEW i \in DOMAIN more
                  PROVE  more[i].slot = Attached(a)[i] /\ RowRight(a, more[i])
        OBVIOUS
    <2>1. i \in 1..(Len(rows) + 1) /\ Len(rows) \in Nat
        BY <1>1, <1>2
    <2>2. CASE i = Len(rows) + 1
        <3>1. more[i] = row /\ Attached(a)[i] = row.slot
            BY <2>2, <1>1 DEF Now
        <3>. QED  BY <3>1
    <2>3. CASE i # Len(rows) + 1
        <3>1. i \in 1..Len(rows)
            BY <2>1, <2>3
        <3>2. more[i] = rows[i]
            BY <3>1, <1>1
        <3>. QED  BY <3>1, <3>2, <1>8
    <2>. QED  BY <2>2, <2>3
<1>10. UnitOK(a)'
    <2>1. Attached(a)' = Attached(a) /\ \A r : RowRight(a, r)' <=> RowRight(a, r)
        BY FormsStay
    <2>. HIDE DEF more, rows
    <2>. QED  BY <2>1, <1>2, <1>4, <1>6, <1>7, <1>9 DEF UnitOK
<1>11. ASSUME NEW b \in Candidate, b # a PROVE UnitOK(b)'
    <2>1. UnitOK(b) /\ unit'[b] = unit[b]
        BY <1>3, <1>11 DEF IInv
    <2>2. /\ Attached(b)' = Attached(b) /\ \A r : RowRight(b, r)' <=> RowRight(b, r)
          /\ \A rs : Outcome(rs)' = Outcome(rs)
        BY FormsStay
    <2>3. More(b)' <=> More(b)
        BY <2>1, <2>2 DEF More
    <2>. QED  BY <2>1, <2>2, <2>3 DEF UnitOK
<1>. QED  BY <1>5, <1>10, <1>11

\* What no step of the service or of a worker touches.
LEMMA UnitsStay ==
    ASSUME IInv, UNCHANGED <<force, form, unit>>
    PROVE  \A a \in Candidate : UnitOK(a)'
<1>. SUFFICES ASSUME NEW a \in Candidate PROVE UnitOK(a)'
    OBVIOUS
<1>1. /\ Attached(a)' = Attached(a) /\ \A r : RowRight(a, r)' <=> RowRight(a, r)
      /\ \A rs : Outcome(rs)' = Outcome(rs)
    BY FormsStay
<1>2. UnitOK(a)
    BY DEF IInv
<1>3. More(a)' <=> More(a)
    BY <1>1 DEF More
<1>. QED  BY <1>1, <1>2, <1>3 DEF UnitOK

\* A call that does not move stays right, and so does its directory.
LEMMA UploadStays ==
    ASSUME IInv, UNCHANGED <<force, form>>, NEW c \in Upload,
           call'[c] = call[c], scratch'[c] = scratch[c], left \subseteq left'
    PROVE  UploadOK(c)'
<1>1. UploadOK(c)
    BY DEF IInv
<1>2. DocFor(c)' = DocFor(c) /\ Says(c)' = Says(c)
    BY FormsStay
<1>3. c \in InService => c \in InService'
    BY Calls DEF InService
<1>. QED  BY <1>1, <1>2, <1>3 DEF UploadOK

LEMMA FileStays ==
    ASSUME IInv, NEW f \in File, call'[f] = call[f],
           check'[f] = check[f], saved \subseteq saved'
    PROVE  FileOK(f)'
<1>1. FileOK(f)
    BY DEF IInv
<1>. QED  BY <1>1 DEF FileOK

\* A call that is at rest is right, whatever it was.
LEMMA Rested ==
    /\ Idle \in CallRec /\ Idle.pc = "idle" /\ Idle.answer = ProcessingFailed
    /\ ScratchRec = [source : Document \cup {NoDoc}, image : Document \cup {NoDoc}]
<1>1. NoText \in Text
    <2>1. <<>> \in Seq([value : Nat, line : STRING, near : SUBSET STRING])
        OBVIOUS
    <2>. QED  BY <2>1 DEF NoText, Text
<1>. QED  BY <1>1, FailuresAnswer DEF Idle, CallRec, ScratchRec, Type

LEMMA UploadRests ==
    ASSUME IInv, UNCHANGED <<force, form, scratch, left>>, NEW c \in Upload,
           call[c].pc \in {"idle", "answered"}, call'[c] = Idle
    PROVE  UploadOK(c)'
<1>1. UploadOK(c) /\ c \notin InService
    BY DEF IInv, InService
<1>2. DocFor(c)' = DocFor(c) /\ Says(c)' = Says(c)
    BY FormsStay
<1>. QED  BY <1>1, <1>2, Rested DEF UploadOK, Asked

\* A forced score is forced for an attachment that has a role of its own.
LEMMA ForcedRoles ==
    ASSUME NEW role, NEW kinds
    PROVE  /\ Forced(role, kinds) \in Answers
           /\ Forced(role, kinds).forced => role \in {"english", "certificate"}
<1>. DEFINE good(type, n) == [Answer("processed", type, n, "high", "passed",
                                     "likely_authentic", FALSE) EXCEPT !.forced = TRUE]
<1>1. good("ielts", 12) \in Answers /\ good("ent", 100) \in Answers
    <2>1. "ielts" \in Type /\ "ent" \in Type /\ "high" \in Tier
        BY DEF Type, Exam, Tier
    <2>2. ASSUME NEW type \in Type, NEW n \in 0..140 PROVE good(type, n) \in Answers
        <3>1. Answer("processed", type, n, "high", "passed", "likely_authentic", FALSE)
                  \in Answers
            BY <2>1 DEF Answer, Answers
        <3>. QED  BY <3>1 DEF Answers
    <2>. HIDE DEF good
    <2>. QED  BY <2>1, <2>2
<1>2. \/ role = "english" /\ Forced(role, kinds) = good("ielts", 12)
      \/ role = "certificate" /\ Forced(role, kinds) = good("ent", 100)
      \/ Forced(role, kinds) = ProcessingFailed
    BY DEF Forced
<1>. HIDE DEF good
<1>. QED  BY <1>1, <1>2, FailuresAnswer

\* The row of a call that was made is right, if the answer is.
LEMMA KeptRight ==
    ASSUME FormsOK, StateOK, NEW a \in Candidate, More(a), NEW answer \in Answers,
           ~answer.forced,
           NEW code \in {"none", "validation_http_failed"},
           code = "none" => answer \in AnswersOn(NowDoc(a), Says(<<a, Now(a)>>)),
           code # "none" => answer = ProcessingFailed
    PROVE  LET row == Row(a, RoleOf(a, NowDoc(a)), code, Kept(a, answer))
           IN  row \in RowRec /\ row.slot = Now(a) /\ RowRight(a, row)
<1>. DEFINE role == RoleOf(a, NowDoc(a))
            kept == Kept(a, answer)
            row == Row(a, role, code, kept)
<1>1. /\ Now(a) \in Slot /\ NowDoc(a) \in Document
      /\ DocFor(<<a, Now(a)>>) = NowDoc(a)
    BY NowIsAttached
<1>2. role \in Slot
    BY RolesAndDeclarations
<1>3. /\ kept \in Answers
      /\ kept.forced => force /\ role \in {"english", "certificate"}
      /\ ~kept.forced => kept = answer
    <2>1. kept = IF force /\ Forced(role, form[a].kinds).forced
                 THEN Forced(role, form[a].kinds) ELSE answer
        BY DEF Kept
    <2>2. \/ /\ kept = Forced(role, form[a].kinds) /\ force
             /\ Forced(role, form[a].kinds).forced
          \/ kept = answer
        <3>. HIDE DEF kept, role
        <3>. QED  BY <2>1
    <2>. HIDE DEF kept, role
    <2>. QED  BY <2>2, ForcedRoles
<1>4. row = [slot |-> Now(a), role |-> role, code |-> code, answer |-> kept]
    BY DEF Row
<1>. HIDE DEF role, kept, row
<1>5. row.slot = Now(a) /\ row.role = role /\ row.code = code /\ row.answer = kept
    BY <1>4
<1>6. row \in RowRec
    BY <1>1, <1>2, <1>3, <1>4 DEF RowRec
<1>7. role # "none" /\ code # "document_not_found"
    BY <1>2 DEF Slot
<1>8. RowRight(a, row)
    BY <1>1, <1>3, <1>5, <1>7 DEF RowRight
<1>. QED  BY <1>5, <1>6, <1>8 DEF row, kept, role

\* An answer on a document is an answer, and the service forces none.
LEMMA AnswersOnAre ==
    ASSUME NEW doc \in Document, NEW declared \in Type,
           NEW answer \in AnswersOn(doc, declared)
    PROVE  /\ answer \in Answers /\ ~answer.forced
           /\ \/ answer \in {OcrFailed, ProcessingFailed}
              \/ \E text \in {Page[doc], Whole(doc)} :
                    Supported(answer, Page[doc], text, declared)
           /\ Page[doc] \in Text /\ Whole(doc) \in Text
<1>1. Page[doc] \in Text /\ Faint[doc] \in Text /\ Whole(doc) \in Text
    BY FileAssumption, JoinedText DEF Whole
<1>2. CASE answer \in {OcrFailed, ProcessingFailed}
    BY <1>1, <1>2, FailuresAnswer
<1>3. CASE answer \notin {OcrFailed, ProcessingFailed}
    <2>1. PICK text \in {Page[doc], Whole(doc)} :
              answer = Verdict(Page[doc], text, declared)
        BY <1>3 DEF AnswersOn
    <2>2. Supported(answer, Page[doc], text, declared)
        BY <1>1, <2>1, VerdictSupported
    <2>3. answer \in Answers /\ ~answer.forced
        BY <2>2 DEF Supported
    <2>. QED  BY <1>1, <2>2, <2>3
<1>. QED  BY <1>2, <1>3

LEMMA SaysType ==
    \A c : Says(c) \in Type
BY RolesAndDeclarations DEF Says

LEMMA UnreadableStep ==
    ASSUME IInv, NEW a \in Candidate, Unreadable(a)
    PROVE  IInv'
<1>1. /\ unit[a].pc = "ready" /\ More(a)
      /\ UNCHANGED <<force, form, call, scratch, check, saved, left, crashes>>
    BY DEF Unreadable
<1>2. PICK code \in {"document_not_found", "unreadable"} :
          Add(a, Row(a, IF code = "document_not_found" THEN "none"
                        ELSE RoleOf(a, NowDoc(a)), code, ProcessingFailed))
    BY DEF Unreadable
<1>. DEFINE role == IF code = "document_not_found" THEN "none"
                    ELSE RoleOf(a, NowDoc(a))
            row == Row(a, role, code, ProcessingFailed)
<1>3. /\ Now(a) \in Slot /\ NowDoc(a) \in Document
      /\ DocFor(<<a, Now(a)>>) = NowDoc(a)
    BY <1>1, NowIsAttached DEF IInv
<1>4. row = [slot |-> Now(a), role |-> role, code |-> code, answer |-> ProcessingFailed]
    BY DEF Row
<1>5. role \in Slot \cup {"none"} /\ (role = "none" <=> code = "document_not_found")
    <2>1. RoleOf(a, NowDoc(a)) \in Slot
        BY RolesAndDeclarations
    <2>. QED  BY <2>1 DEF Slot
<1>. HIDE DEF role
<1>6. row \in RowRec /\ row.slot = Now(a)
    BY <1>3, <1>4, <1>5, FailuresAnswer DEF RowRec
<1>7. RowRight(a, row)
    BY <1>3, <1>4, <1>5, FailuresAnswer DEF RowRight
<1>8. Add(a, row)
    BY <1>2 DEF role
<1>. HIDE DEF row
<1>9. unit' \in [Candidate -> UnitRec] /\ \A b \in Candidate : UnitOK(b)'
    BY <1>1, <1>6, <1>7, <1>8, RowAdded
<1>10. FormsOK'
    BY <1>1, FormsStay DEF IInv
<1>11. StateOK'
    BY <1>1, <1>9 DEF IInv, StateOK
<1>12. \A c \in Upload : UploadOK(c)'
    BY <1>1, UploadStays
<1>13. \A f \in File : FileOK(f)'
    BY <1>1, FileStays
<1>. QED  BY <1>9, <1>10, <1>11, <1>12, <1>13 DEF IInv

LEMMA SendStep ==
    ASSUME IInv, NEW a \in Candidate, Send(a)
    PROVE  IInv'
<1>0. PICK c : c = <<a, Now(a)>>
    OBVIOUS
<1>. DEFINE sent == Sent(NowDoc(a), Declared(RoleOf(a, NowDoc(a)), form[a].kinds))
<1>1. /\ unit[a].pc = "ready" /\ More(a)
      /\ unit' = [unit EXCEPT ![a].pc = "waits"]
      /\ call' = [call EXCEPT ![c] = sent]
      /\ UNCHANGED <<force, form, scratch, check, saved, left, crashes>>
    BY <1>0 DEF Send
<1>2. /\ c \in Upload /\ NowDoc(a) \in Document /\ DocFor(c) = NowDoc(a)
    BY <1>0, <1>1, NowIsAttached DEF IInv
<1>3. c[1] = a /\ c[2] = Now(a)
    BY <1>0
<1>4. sent = Sent(DocFor(c), Says(c))
    BY <1>2, <1>3 DEF Says
<1>. HIDE DEF sent
<1>5. /\ sent \in CallRec /\ sent.pc = "sent" /\ sent.doc = DocFor(c)
      /\ sent.declared = Says(c)
    BY <1>2, <1>4, Rested, SaysType DEF Sent, CallRec, Asked
<1>6. /\ call \in [Call -> CallRec] /\ unit \in [Candidate -> UnitRec]
      /\ scratch \in [Directories -> ScratchRec]
    BY DEF IInv, StateOK
<1>7. call' \in [Call -> CallRec] /\ call'[c] = sent
    BY <1>1, <1>2, <1>5, <1>6, Calls
<1>8. unit' \in [Candidate -> UnitRec]
    BY <1>1, <1>6 DEF UnitRec
<1>9. FormsOK'
    BY <1>1, FormsStay DEF IInv
<1>10. StateOK'
    BY <1>1, <1>7, <1>8 DEF IInv, StateOK
<1>11. ASSUME NEW b \in Candidate PROVE UnitOK(b)'
    <2>1. /\ Attached(b)' = Attached(b) /\ \A r : RowRight(b, r)' <=> RowRight(b, r)
          /\ \A rs : Outcome(rs)' = Outcome(rs)
        BY <1>1, FormsStay
    <2>2. UnitOK(b)
        BY DEF IInv
    <2>3. unit'[b].rows = unit[b].rows /\ unit'[b].status = unit[b].status
        BY <1>1, <1>6 DEF UnitRec
    <2>4. More(b)' <=> More(b)
        BY <2>1, <2>3 DEF More
    <2>5. CASE b = a
        <3>1. unit'[a].pc = "waits"
            BY <1>1, <1>6 DEF UnitRec
        <3>. QED  BY <1>1, <2>1, <2>2, <2>3, <2>4, <2>5, <3>1 DEF UnitOK
    <2>6. CASE b # a
        <3>1. unit'[b] = unit[b]
            BY <1>1, <1>6, <2>6
        <3>. QED  BY <2>1, <2>2, <2>4, <3>1 DEF UnitOK
    <2>. QED  BY <2>5, <2>6
<1>12. UploadOK(c)'
    <2>1. DocFor(c)' = DocFor(c) /\ Says(c)' = Says(c)
        BY <1>1, FormsStay
    <2>2. c \in InService'
        BY <1>2, <1>5, <1>7, Calls DEF InService
    <2>3. UploadOK(c)
        BY <1>2 DEF IInv
    <2>. QED  BY <1>1, <1>2, <1>5, <1>7, <2>1, <2>2, <2>3 DEF UploadOK
<1>13. ASSUME NEW d \in Upload, d # c PROVE UploadOK(d)'
    <2>1. call'[d] = call[d]
        BY <1>1, <1>6, <1>13, Calls
    <2>. QED  BY <1>1, <2>1, UploadStays
<1>14. ASSUME NEW f \in File PROVE FileOK(f)'
    <2>1. call'[f] = call[f]
        BY <1>1, <1>2, <1>6, Calls
    <2>. QED  BY <1>1, <2>1, FileStays
<1>. QED  BY <1>9, <1>10, <1>11, <1>12, <1>13, <1>14 DEF IInv

LEMMA ReceiveStep ==
    ASSUME IInv, NEW a \in Candidate, Receive(a)
    PROVE  IInv'
<1>0. PICK c : c = <<a, Now(a)>>
    OBVIOUS
<1>. DEFINE answer == call[c].answer
            row == Row(a, RoleOf(a, NowDoc(a)), "none", Kept(a, answer))
<1>1. /\ unit[a].pc = "waits" /\ call[c].pc = "answered"
      /\ Add(a, row) /\ call' = [call EXCEPT ![c] = Idle]
      /\ UNCHANGED <<force, form, scratch, check, saved, left, crashes>>
    BY <1>0 DEF Receive
<1>2. More(a)
    BY <1>1 DEF IInv, UnitOK
<1>3. c \in Upload /\ NowDoc(a) \in Document /\ DocFor(c) = NowDoc(a)
    BY <1>0, <1>2, NowIsAttached DEF IInv
<1>4. answer \in AnswersOn(NowDoc(a), Says(c))
    BY <1>1, <1>3 DEF IInv, UploadOK
<1>5. answer \in Answers /\ ~answer.forced
    <2>. HIDE DEF answer
    <2>. QED  BY <1>3, <1>4, SaysType, AnswersOnAre
<1>6. row \in RowRec /\ row.slot = Now(a) /\ RowRight(a, row)
    <2>. HIDE DEF answer
    <2>. QED  BY <1>0, <1>2, <1>4, <1>5, KeptRight DEF IInv
<1>. HIDE DEF row
<1>7. unit' \in [Candidate -> UnitRec] /\ \A b \in Candidate : UnitOK(b)'
    BY <1>1, <1>2, <1>6, RowAdded
<1>8. call \in [Call -> CallRec]
    BY DEF IInv, StateOK
<1>9. call' \in [Call -> CallRec] /\ call'[c] = Idle
    BY <1>1, <1>3, <1>8, Calls, Rested
<1>10. FormsOK'
    BY <1>1, FormsStay DEF IInv
<1>11. StateOK'
    BY <1>1, <1>7, <1>9 DEF IInv, StateOK
<1>12. UploadOK(c)'
    BY <1>1, <1>3, <1>9, UploadRests
<1>13. ASSUME NEW d \in Upload, d # c PROVE UploadOK(d)'
    <2>1. call'[d] = call[d]
        BY <1>1, <1>8, <1>13, Calls
    <2>. QED  BY <1>1, <2>1, UploadStays
<1>14. ASSUME NEW f \in File PROVE FileOK(f)'
    <2>1. call'[f] = call[f]
        BY <1>1, <1>3, <1>8, Calls
    <2>. QED  BY <1>1, <2>1, FileStays
<1>. QED  BY <1>7, <1>10, <1>11, <1>12, <1>13, <1>14 DEF IInv

\* A unit that gives up leaves the call as it is, or at rest.
LEMMA GiveUpStep ==
    ASSUME IInv, NEW a \in Candidate, GiveUp(a)
    PROVE  IInv'
<1>0. PICK c : c = <<a, Now(a)>>
    OBVIOUS
<1>. DEFINE row == Row(a, RoleOf(a, NowDoc(a)), "validation_http_failed",
                       Kept(a, ProcessingFailed))
<1>1. /\ unit[a].pc = "waits" /\ Add(a, row) /\ Unheard(c)
      /\ UNCHANGED <<force, form, scratch, check, saved, left, crashes>>
    BY <1>0 DEF GiveUp
<1>2. More(a)
    BY <1>1 DEF IInv, UnitOK
<1>3. c \in Upload
    BY <1>0, <1>2, NowIsAttached DEF IInv
<1>4. row \in RowRec /\ row.slot = Now(a) /\ RowRight(a, row)
    BY <1>2, FailuresAnswer, KeptRight DEF IInv
<1>. HIDE DEF row
<1>5. unit' \in [Candidate -> UnitRec] /\ \A b \in Candidate : UnitOK(b)'
    BY <1>1, <1>2, <1>4, RowAdded
<1>6. call \in [Call -> CallRec]
    BY DEF IInv, StateOK
<1>7. /\ call' = [call EXCEPT ![c] = IF @.pc = "answered" THEN Idle ELSE @]
      /\ call'[c] = IF call[c].pc = "answered" THEN Idle ELSE call[c]
    BY <1>1, <1>3, <1>6, Calls DEF Unheard
<1>8. call' \in [Call -> CallRec]
    BY <1>3, <1>6, <1>7, Calls, Rested
<1>9. FormsOK'
    BY <1>1, FormsStay DEF IInv
<1>10. StateOK'
    BY <1>1, <1>5, <1>8 DEF IInv, StateOK
<1>11. UploadOK(c)'
    BY <1>1, <1>3, <1>7, UploadRests, UploadStays
<1>12. ASSUME NEW d \in Upload, d # c PROVE UploadOK(d)'
    <2>1. call'[d] = call[d]
        BY <1>6, <1>7, <1>12, Calls
    <2>. QED  BY <1>1, <2>1, UploadStays
<1>13. ASSUME NEW f \in File PROVE FileOK(f)'
    <2>1. call'[f] = call[f]
        BY <1>3, <1>6, <1>7, Calls
    <2>. QED  BY <1>1, <2>1, FileStays
<1>. QED  BY <1>5, <1>9, <1>10, <1>11, <1>12, <1>13 DEF IInv

LEMMA FinishStep ==
    ASSUME IInv, NEW a \in Candidate, Finish(a)
    PROVE  IInv'
<1>1. /\ unit[a].pc = "ready"
      /\ unit' = [unit EXCEPT ![a].pc = "ended", ![a].status = Outcome(unit[a].rows)]
      /\ UNCHANGED <<force, form, call, scratch, check, saved, left, crashes>>
    BY DEF Finish
<1>2. unit \in [Candidate -> UnitRec]
    BY DEF IInv, StateOK
<1>3. Outcome(unit[a].rows) \in {"completed", "manual_review_required"}
    BY DEF Outcome
<1>4. /\ unit'[a] = [unit[a] EXCEPT !.pc = "ended", !.status = Outcome(unit[a].rows)]
      /\ \A b \in Candidate : b # a => unit'[b] = unit[b]
    BY <1>1, <1>2
<1>5. /\ unit'[a].pc = "ended" /\ unit'[a].rows = unit[a].rows
      /\ unit'[a].status = Outcome(unit[a].rows)
    BY <1>2, <1>4 DEF UnitRec
<1>6. unit' \in [Candidate -> UnitRec]
    <2>1. unit'[a] \in UnitRec
        BY <1>2, <1>3, <1>4 DEF UnitRec
    <2>. QED  BY <1>1, <1>2, <1>4, <2>1
<1>7. FormsOK'
    BY <1>1, FormsStay DEF IInv
<1>8. StateOK'
    BY <1>1, <1>6 DEF IInv, StateOK
<1>9. ASSUME NEW b \in Candidate PROVE UnitOK(b)'
    <2>1. /\ Attached(b)' = Attached(b) /\ \A r : RowRight(b, r)' <=> RowRight(b, r)
          /\ \A rs : Outcome(rs)' = Outcome(rs)
        BY <1>1, FormsStay
    <2>2. UnitOK(b)
        BY DEF IInv
    <2>3. CASE b = a
        BY <1>5, <2>1, <2>2, <2>3 DEF UnitOK
    <2>4. CASE b # a
        <3>1. unit'[b] = unit[b]
            BY <1>4, <2>4
        <3>2. More(b)' <=> More(b)
            BY <2>1, <3>1 DEF More
        <3>. QED  BY <2>1, <2>2, <3>1, <3>2 DEF UnitOK
    <2>. QED  BY <2>3, <2>4
<1>10. \A c \in Upload : UploadOK(c)'
    BY <1>1, UploadStays
<1>11. \A f \in File : FileOK(f)'
    BY <1>1, FileStays
<1>. QED  BY <1>7, <1>8, <1>9, <1>10, <1>11 DEF IInv

-----------------------------------------------------------------------------
(* The steps of the service and of the orchestrator's worker.              *)

\* A step about one call leaves everything about the others alone.
LEMMA OneCallMoves ==
    ASSUME IInv, UNCHANGED <<force, form, unit>>, NEW c \in Call,
           call' \in [Call -> CallRec], scratch' \in [Directories -> ScratchRec],
           check' \in [File -> {"queued", "processing", "passed",
                                "manual_review_required", "failed"}],
           saved' \subseteq File, saved \subseteq saved',
           left' \subseteq Upload, left \subseteq left', crashes' = crashes,
           \A d \in Call : d # c => call'[d] = call[d],
           \A d \in Upload : d # c => scratch'[d] = scratch[d],
           \A f \in File : f # c => check'[f] = check[f],
           c \in Upload => UploadOK(c)', c \in File => FileOK(c)'
    PROVE  IInv'
<1>1. FormsOK'
    BY FormsStay DEF IInv
<1>2. StateOK'
    BY DEF IInv, StateOK
<1>3. \A a \in Candidate : UnitOK(a)'
    BY UnitsStay
<1>4. \A d \in Upload : UploadOK(d)'
    BY Calls, UploadStays
<1>5. \A f \in File : FileOK(f)'
    BY Calls, FileStays
<1>. QED  BY <1>1, <1>2, <1>3, <1>4, <1>5 DEF IInv

\* What one call finds.
LEMMA CallFacts ==
    ASSUME IInv, NEW c \in Call
    PROVE  /\ call \in [Call -> CallRec] /\ call[c] \in CallRec
           /\ scratch \in [Directories -> ScratchRec]
           /\ scratch[Directory(c)] \in ScratchRec /\ Directory(c) \in Directories
           /\ check \in [File -> {"queued", "processing", "passed",
                                  "manual_review_required", "failed"}]
           /\ saved \subseteq File /\ left \subseteq Upload
           /\ c \in Upload <=> c \notin File
           /\ c \in Upload => UploadOK(c) /\ Directory(c) = c
           /\ c \in File => FileOK(c)
           /\ call[c].pc \in Asked => call[c].doc \in Document
<1>1. \/ c \in Upload /\ c \notin File /\ UploadOK(c) /\ Directory(c) = c
      \/ c \in File /\ c \notin Upload /\ FileOK(c)
    BY Calls, OwnDirectory DEF IInv
<1>2. call[c].pc \in Asked => call[c].doc \in Document
    BY <1>1 DEF UploadOK, FileOK
<1>. QED  BY <1>1, <1>2, OwnDirectory DEF IInv, StateOK

\* Its directory is the only one it writes in.
LEMMA OtherDirectories ==
    ASSUME NEW c \in Call, NEW d \in Upload, d # c
    PROVE  d # Directory(c)
BY OwnDirectory

LEMMA WriteStep ==
    ASSUME IInv, NEW c \in Call, Write(c)
    PROVE  IInv'
<1>1. /\ call[c].pc = "sent" /\ call' = [call EXCEPT ![c].pc = "written"]
      /\ UNCHANGED <<force, form, unit, check, saved, left, crashes>>
      /\ IF c \in File THEN UNCHANGED scratch
         ELSE scratch' = [scratch EXCEPT ![Directory(c)].source = call[c].doc]
    BY DEF Write, Moves
<1>2. /\ call \in [Call -> CallRec] /\ call[c] \in CallRec
      /\ scratch \in [Directories -> ScratchRec]
      /\ scratch[Directory(c)] \in ScratchRec /\ Directory(c) \in Directories
      /\ c \in Upload <=> c \notin File
      /\ c \in Upload => UploadOK(c) /\ Directory(c) = c
      /\ c \in File => FileOK(c)
    BY CallFacts
<1>3. /\ call' \in [Call -> CallRec]
      /\ call'[c] = [call[c] EXCEPT !.pc = "written"]
      /\ \A d \in Call : d # c => call'[d] = call[d]
    BY <1>1, <1>2 DEF CallRec, Asked
<1>4. /\ call'[c].pc = "written" /\ call'[c].doc = call[c].doc
      /\ call'[c].declared = call[c].declared
    BY <1>2, <1>3 DEF CallRec
<1>5. call[c].doc \in Document
    BY <1>1, CallFacts DEF Asked
<1>6. /\ scratch' \in [Directories -> ScratchRec]
      /\ c \in Upload => /\ scratch'[c].source = call[c].doc
                         /\ scratch'[c].image = scratch[c].image
    BY <1>1, <1>2, <1>5 DEF ScratchRec
<1>7. \A d \in Upload : d # c => scratch'[d] = scratch[d]
    BY <1>1, <1>2, OwnDirectory, OtherDirectories
<1>8. ASSUME c \in Upload PROVE UploadOK(c)'
    <2>1. DocFor(c)' = DocFor(c) /\ Says(c)' = Says(c)
        BY <1>1, FormsStay
    <2>2. UploadOK(c) /\ call[c].doc = DocFor(c)
        BY <1>1, <1>2, <1>8 DEF UploadOK, Asked
    <2>3. c \in InService'
        BY <1>4 DEF InService
    <2>. QED  BY <1>1, <1>4, <1>6, <1>8, <2>1, <2>2, <2>3 DEF UploadOK, Asked
<1>9. c \in File => FileOK(c)'
    BY <1>1, <1>2, <1>4, <1>5 DEF FileOK, Asked
<1>10. /\ check' \in [File -> {"queued", "processing", "passed",
                              "manual_review_required", "failed"}]
       /\ saved' \subseteq File /\ left' \subseteq Upload
    BY <1>1, CallFacts
<1>. QED  BY <1>1, <1>3, <1>6, <1>7, <1>8, <1>9, <1>10, OneCallMoves

\* Whatever a call came to, it leaves the service with a failure in order.
LEMMA FailureLeaves ==
    ASSUME IInv, NEW c \in Call, call[c].pc \in Asked, NEW leaving \in CallRec,
           leaving.pc = "leaves", leaving.answer \in {OcrFailed, ProcessingFailed},
           call' = [call EXCEPT ![c] = leaving],
           UNCHANGED <<force, form, unit, scratch, check, saved, left, crashes>>
    PROVE  IInv'
<1>1. /\ call \in [Call -> CallRec]
      /\ scratch \in [Directories -> ScratchRec]
      /\ check \in [File -> {"queued", "processing", "passed",
                             "manual_review_required", "failed"}]
      /\ saved \subseteq File /\ left \subseteq Upload
    BY CallFacts
<1>2. /\ call' \in [Call -> CallRec] /\ call'[c] = leaving
      /\ \A d \in Call : d # c => call'[d] = call[d]
    BY <1>1
<1>3. ASSUME c \in Upload PROVE UploadOK(c)'
    <2>1. DocFor(c)' = DocFor(c) /\ Says(c)' = Says(c)
        BY FormsStay
    <2>2. UploadOK(c) /\ c \in InService'
        BY <1>2, CallFacts, <1>3 DEF InService
    <2>. QED  BY <1>2, <2>1, <2>2 DEF UploadOK, Asked, AnswersOn
<1>4. c \in File => FileOK(c)'
    <2>1. leaving.answer.authenticity # "likely_authentic"
        BY FailuresAnswer
    <2>. QED  BY <1>2, <2>1, CallFacts DEF FileOK, Asked
<1>. QED  BY <1>1, <1>2, <1>3, <1>4, OneCallMoves

LEMMA FailsLeaves ==
    ASSUME IInv, NEW c \in Call, call[c].pc \in Asked, Fails(c),
           UNCHANGED <<force, form, unit, scratch, check, saved, left, crashes>>
    PROVE  IInv'
<1>. DEFINE leaving == [Idle EXCEPT !.pc = "leaves"]
<1>1. /\ leaving \in CallRec /\ leaving.pc = "leaves"
      /\ leaving.answer = ProcessingFailed
    BY Rested DEF CallRec
<1>2. call' = [call EXCEPT ![c] = leaving]
    BY DEF Fails
<1>. HIDE DEF leaving
<1>. QED  BY <1>1, <1>2, FailureLeaves

LEMMA DrawStep ==
    ASSUME IInv, NEW c \in Call, Draw(c)
    PROVE  IInv'
<1>. DEFINE source == IF c \in File THEN call[c].doc ELSE scratch[Directory(c)].source
<1>1. /\ call[c].pc = "written"
      /\ UNCHANGED <<force, form, unit, check, saved, left, crashes>>
    BY DEF Draw
<1>2. CASE Fails(c) /\ UNCHANGED scratch
    BY <1>1, <1>2, FailsLeaves DEF Asked
<1>3. CASE /\ source # NoDoc
           /\ scratch' = [scratch EXCEPT ![Directory(c)].image = source]
           /\ call' = [call EXCEPT ![c].pc = "drawn"]
    <2>1. /\ call \in [Call -> CallRec] /\ call[c] \in CallRec
          /\ scratch \in [Directories -> ScratchRec]
          /\ scratch[Directory(c)] \in ScratchRec /\ Directory(c) \in Directories
          /\ c \in Upload <=> c \notin File
          /\ c \in Upload => UploadOK(c) /\ Directory(c) = c
          /\ c \in File => FileOK(c)
          /\ check \in [File -> {"queued", "processing", "passed",
                                 "manual_review_required", "failed"}]
          /\ saved \subseteq File /\ left \subseteq Upload
        BY CallFacts
    <2>2. /\ call' \in [Call -> CallRec]
          /\ call'[c] = [call[c] EXCEPT !.pc = "drawn"]
          /\ \A d \in Call : d # c => call'[d] = call[d]
        BY <1>3, <2>1 DEF CallRec, Asked
    <2>3. /\ call'[c].pc = "drawn" /\ call'[c].doc = call[c].doc
          /\ call'[c].declared = call[c].declared
        BY <2>1, <2>2 DEF CallRec
    <2>4. call[c].doc \in Document
        BY <1>1, CallFacts DEF Asked
    <2>5. source \in Document \cup {NoDoc}
        BY <2>1, <2>4 DEF ScratchRec
    <2>6. c \in Upload => source \in {NoDoc, DocFor(c)}
        BY <2>1 DEF UploadOK
    <2>. HIDE DEF source
    <2>7. /\ scratch' \in [Directories -> ScratchRec]
          /\ c \in Upload => /\ scratch'[c].source = scratch[c].source
                             /\ scratch'[c].image = source
        BY <1>3, <2>1, <2>5 DEF ScratchRec
    <2>8. \A d \in Upload : d # c => scratch'[d] = scratch[d]
        BY <1>3, <2>1, OwnDirectory, OtherDirectories
    <2>9. ASSUME c \in Upload PROVE UploadOK(c)'
        <3>1. DocFor(c)' = DocFor(c) /\ Says(c)' = Says(c)
            BY <1>1, FormsStay
        <3>2. UploadOK(c) /\ source \in {NoDoc, DocFor(c)}
            BY <2>1, <2>6, <2>9
        <3>3. c \in InService'
            BY <2>3 DEF InService
        <3>. QED  BY <1>1, <2>3, <2>7, <2>9, <3>1, <3>2, <3>3 DEF UploadOK, Asked
    <2>10. c \in File => FileOK(c)'
        BY <1>1, <2>1, <2>3, <2>4 DEF FileOK, Asked
    <2>. QED  BY <1>1, <2>1, <2>2, <2>7, <2>8, <2>9, <2>10, OneCallMoves
<1>. QED  BY <1>2, <1>3 DEF Draw, Moves

\* The text that a pass reads is that of the image it is given.
LEMMA TextRead ==
    ASSUME IInv, NEW c \in Call, call[c].pc \in {"sent", "drawn"},
           NEW doc \in Document, NEW pc \in {"read", "typed"},
           c \in Upload => doc = DocFor(c),
           call' = [call EXCEPT ![c].pc = pc, ![c].first = Page[doc]],
           UNCHANGED <<force, form, unit, scratch, check, saved, left, crashes>>
    PROVE  IInv'
<1>1. /\ call \in [Call -> CallRec] /\ call[c] \in CallRec
      /\ scratch \in [Directories -> ScratchRec]
      /\ c \in Upload => UploadOK(c)
      /\ c \in File => FileOK(c)
      /\ check \in [File -> {"queued", "processing", "passed",
                             "manual_review_required", "failed"}]
      /\ saved \subseteq File /\ left \subseteq Upload
    BY CallFacts
<1>2. Page[doc] \in Text
    BY FileAssumption
<1>3. /\ call'[c] = [call[c] EXCEPT !.pc = pc, !.first = Page[doc]]
      /\ \A d \in Call : d # c => call'[d] = call[d]
    BY <1>1
<1>4. /\ call'[c].pc = pc /\ call'[c].doc = call[c].doc
      /\ call'[c].declared = call[c].declared /\ call'[c].first = Page[doc]
      /\ call'[c] \in CallRec
    BY <1>1, <1>2, <1>3 DEF CallRec, Asked
<1>5. call' \in [Call -> CallRec]
    BY <1>1, <1>3, <1>4
<1>6. call[c].doc \in Document
    BY CallFacts DEF Asked
<1>7. ASSUME c \in Upload PROVE UploadOK(c)'
    <2>1. DocFor(c)' = DocFor(c) /\ Says(c)' = Says(c)
        BY FormsStay
    <2>2. UploadOK(c) /\ doc = DocFor(c)
        BY <1>1, <1>7
    <2>3. c \in InService'
        BY <1>4 DEF InService
    <2>. QED  BY <1>4, <1>7, <2>1, <2>2, <2>3 DEF UploadOK, Asked
<1>8. c \in File => FileOK(c)'
    BY <1>1, <1>4, <1>6 DEF FileOK, Asked
<1>. QED  BY <1>1, <1>3, <1>5, <1>7, <1>8, OneCallMoves

LEMMA ReadStep ==
    ASSUME IInv, NEW c \in Call, Read(c)
    PROVE  IInv'
<1>. DEFINE image == scratch[Directory(c)].image
<1>1. /\ call[c].pc = "drawn"
      /\ UNCHANGED <<force, form, unit, scratch, check, saved, left, crashes>>
    BY DEF Read
<1>2. CASE Fails(c)
    BY <1>1, <1>2, FailsLeaves DEF Asked
<1>3. CASE call' = [call EXCEPT ![c] =
                        [Idle EXCEPT !.pc = "leaves", !.answer = OcrFailed]]
    <2>. DEFINE leaving == [Idle EXCEPT !.pc = "leaves", !.answer = OcrFailed]
    <2>1. leaving \in CallRec /\ leaving.pc = "leaves" /\ leaving.answer = OcrFailed
        BY Rested, FailuresAnswer DEF CallRec
    <2>2. call[c].pc \in Asked
        BY <1>1 DEF Asked
    <2>3. call' = [call EXCEPT ![c] = leaving]
        BY <1>3
    <2>. HIDE DEF leaving
    <2>. QED  BY <1>1, <2>1, <2>2, <2>3, FailureLeaves
<1>4. CASE /\ image # NoDoc
           /\ call' = [call EXCEPT ![c].pc = "read", ![c].first = Page[image]]
    <2>1. scratch[Directory(c)] \in ScratchRec
        BY CallFacts
    <2>2. image \in Document
        BY <1>4, <2>1 DEF ScratchRec
    <2>3. c \in Upload => image = DocFor(c)
        BY <1>4, CallFacts DEF UploadOK
    <2>. HIDE DEF image
    <2>. QED  BY <1>1, <1>4, <2>2, <2>3, TextRead
<1>. QED  BY <1>2, <1>3, <1>4 DEF Read

LEMMA ReadLayerStep ==
    ASSUME IInv, NEW c \in Call, ReadLayer(c)
    PROVE  IInv'
<1>1. /\ call[c].pc = "sent" /\ c \notin File
      /\ call' = [call EXCEPT ![c].pc = "typed", ![c].first = Page[call[c].doc]]
      /\ UNCHANGED <<force, form, unit, scratch, check, saved, left, crashes>>
    BY DEF ReadLayer
<1>2. call[c].doc \in Document
    BY <1>1, CallFacts DEF Asked
<1>3. c \in Upload => call[c].doc = DocFor(c)
    BY <1>1, CallFacts DEF UploadOK, Asked
<1>. QED  BY <1>1, <1>2, <1>3, TextRead

\* The verdict is about what was read, and the answer about a file is kept
\* when it is not a failure.
LEMMA JudgeStep ==
    ASSUME IInv, NEW c \in Call, Judge(c)
    PROVE  IInv'
<1>1. /\ call[c].pc \in {"read", "typed"}
      /\ UNCHANGED <<force, form, unit, scratch, check, left, crashes>>
    BY DEF Judge
<1>2. PICK more \in Enriched(c) :
          LET verdict == Verdict(call[c].first, Joined(call[c].first, more),
                                 call[c].declared)
          IN  \E answer \in {verdict, ProcessingFailed} :
                 /\ IF c \in File THEN Save(c, verdict, answer)
                    ELSE answer = verdict /\ UNCHANGED saved
                 /\ call' = [call EXCEPT ![c] =
                                [Idle EXCEPT !.pc = "leaves", !.answer = answer]]
    BY DEF Judge
<1>. DEFINE verdict == Verdict(call[c].first, Joined(call[c].first, more),
                               call[c].declared)
<1>3. PICK answer \in {verdict, ProcessingFailed} :
          /\ IF c \in File THEN Save(c, verdict, answer)
             ELSE answer = verdict /\ UNCHANGED saved
          /\ call' = [call EXCEPT ![c] =
                         [Idle EXCEPT !.pc = "leaves", !.answer = answer]]
    BY <1>2
<1>4. /\ call \in [Call -> CallRec] /\ call[c] \in CallRec
      /\ scratch \in [Directories -> ScratchRec]
      /\ scratch[Directory(c)] \in ScratchRec
      /\ c \in Upload <=> c \notin File
      /\ c \in Upload => UploadOK(c) /\ Directory(c) = c
      /\ c \in File => FileOK(c)
      /\ check \in [File -> {"queued", "processing", "passed",
                             "manual_review_required", "failed"}]
      /\ saved \subseteq File /\ left \subseteq Upload
    BY CallFacts
<1>5. /\ call[c].first \in Text /\ call[c].declared \in Type
      /\ scratch[Directory(c)].image \in Document \cup {NoDoc}
    BY <1>4 DEF CallRec, ScratchRec
<1>. DEFINE image == scratch[Directory(c)].image
<1>6. more = NoText \/ (image # NoDoc /\ more = Faint[image])
    BY <1>2 DEF Enriched
<1>7. more \in Text
    <2>1. CASE more = NoText
        BY <2>1, <1>5, JoinedText
    <2>2. CASE image # NoDoc /\ more = Faint[image]
        BY <2>2, <1>5, FileAssumption
    <2>. QED  BY <1>6, <2>1, <2>2
<1>8. Joined(call[c].first, more) \in Text
    BY <1>5, <1>7, JoinedText
<1>9. verdict \in Answers
    BY <1>5, <1>8, VerdictSupported DEF Supported
<1>10. c \in Upload => verdict \in AnswersOn(DocFor(c), Says(c))
    <2>. SUFFICES ASSUME c \in Upload
                  PROVE  verdict \in AnswersOn(DocFor(c), Says(c))
        OBVIOUS
    <2>1. /\ DocFor(c) \in Document /\ call[c].first = Page[DocFor(c)]
          /\ call[c].declared = Says(c) /\ image \in {NoDoc, DocFor(c)}
        BY <1>1, <1>4 DEF UploadOK, Asked
    <2>2. Joined(call[c].first, more) \in {Page[DocFor(c)], Whole(DocFor(c))}
        <3>1. CASE more = NoText
            BY <3>1, <2>1, <1>5, JoinedText
        <3>2. CASE image # NoDoc /\ more = Faint[image]
            BY <3>2, <2>1 DEF Whole
        <3>. QED  BY <1>6, <3>1, <3>2
    <2>. QED  BY <2>1, <2>2 DEF AnswersOn
<1>. HIDE DEF verdict
<1>. DEFINE leaving == [Idle EXCEPT !.pc = "leaves", !.answer = answer]
<1>11. answer \in Answers
    BY <1>9, FailuresAnswer
<1>12. leaving \in CallRec /\ leaving.pc = "leaves" /\ leaving.answer = answer
    BY <1>11, Rested DEF CallRec
<1>. HIDE DEF leaving
<1>13. /\ call' \in [Call -> CallRec] /\ call'[c] = leaving
       /\ \A d \in Call : d # c => call'[d] = call[d]
    BY <1>3, <1>4, <1>12 DEF leaving
<1>14. ASSUME c \in Upload PROVE UploadOK(c)'
    <2>1. DocFor(c)' = DocFor(c) /\ Says(c)' = Says(c)
        BY <1>1, FormsStay
    <2>2. UploadOK(c) /\ c \in InService'
        BY <1>4, <1>12, <1>13, <1>14 DEF InService
    <2>3. answer \in AnswersOn(DocFor(c), Says(c))
        BY <1>3, <1>4, <1>10, <1>14
    <2>. QED  BY <1>1, <1>12, <1>13, <2>1, <2>2, <2>3 DEF UploadOK, Asked
<1>15. saved \subseteq saved' /\ saved' \subseteq File
    BY <1>3, <1>4 DEF Save
<1>16. ASSUME c \in File PROVE FileOK(c)'
    <2>1. \/ c \in saved'
          \/ answer = ProcessingFailed
        BY <1>3, <1>16 DEF Save
    <2>2. answer.authenticity = "likely_authentic" => c \in saved'
        BY <2>1, FailuresAnswer
    <2>. QED  BY <1>1, <1>4, <1>12, <1>13, <1>15, <1>16, <2>2 DEF FileOK, Asked
<1>. QED  BY <1>1, <1>4, <1>13, <1>14, <1>15, <1>16, OneCallMoves

LEMMA LeaveStep ==
    ASSUME IInv, NEW c \in Call, Leave(c)
    PROVE  IInv'
<1>1. /\ call[c].pc = "leaves"
      /\ call' = [call EXCEPT ![c] =
                     IF Awaited(c) THEN [@ EXCEPT !.pc = "answered"] ELSE Idle]
      /\ UNCHANGED <<force, form, unit, check, saved, crashes>>
      /\ \/ /\ CleansUp(c)
            /\ scratch' = [scratch EXCEPT ![Directory(c)] = Empty]
            /\ UNCHANGED left
         \/ /\ c \notin File /\ scratch[Directory(c)] # Empty
            /\ left' = left \cup {c} /\ UNCHANGED scratch
         \/ ~CleansUp(c) /\ UNCHANGED <<scratch, left>>
    BY DEF Leave
<1>2. /\ call \in [Call -> CallRec] /\ call[c] \in CallRec
      /\ scratch \in [Directories -> ScratchRec] /\ Directory(c) \in Directories
      /\ c \in Upload <=> c \notin File
      /\ c \in Upload => UploadOK(c) /\ Directory(c) = c
      /\ c \in File => FileOK(c)
      /\ check \in [File -> {"queued", "processing", "passed",
                             "manual_review_required", "failed"}]
      /\ saved \subseteq File /\ left \subseteq Upload
    BY CallFacts
<1>3. \/ /\ call'[c] = [call[c] EXCEPT !.pc = "answered"]
         /\ call' = [call EXCEPT ![c] = [call[c] EXCEPT !.pc = "answered"]]
      \/ call'[c] = Idle /\ call' = [call EXCEPT ![c] = Idle]
    BY <1>1, <1>2
<1>4. /\ call' \in [Call -> CallRec]
      /\ \A d \in Call : d # c => call'[d] = call[d]
    <2>1. [call[c] EXCEPT !.pc = "answered"] \in CallRec
        BY <1>2 DEF CallRec
    <2>. QED  BY <1>2, <1>3, <2>1, Rested
<1>5. \/ call'[c].pc = "answered" /\ call'[c].answer = call[c].answer
      \/ call'[c].pc = "idle"
    BY <1>2, <1>3, Rested DEF CallRec
<1>6. Empty \in ScratchRec /\ Empty.source = NoDoc /\ Empty.image = NoDoc
    BY DEF Empty, ScratchRec
<1>7. /\ scratch' \in [Directories -> ScratchRec]
      /\ left' \subseteq Upload /\ left \subseteq left'
    BY <1>1, <1>2, <1>6
<1>8. \A d \in Upload : d # c => scratch'[d] = scratch[d]
    BY <1>1, <1>2, OwnDirectory, OtherDirectories
<1>9. ASSUME c \in Upload PROVE UploadOK(c)'
    <2>1. DocFor(c)' = DocFor(c) /\ Says(c)' = Says(c)
        BY <1>1, FormsStay
    <2>2. UploadOK(c)
        BY <1>2, <1>9
    <2>3. \/ scratch'[c] = Empty
          \/ scratch'[c] = scratch[c] /\ c \in left'
        BY <1>1, <1>2, <1>9 DEF CleansUp
    <2>4. /\ scratch'[c].source \in {NoDoc, DocFor(c)}
          /\ scratch'[c].image \in {NoDoc, DocFor(c)}
        BY <2>2, <2>3, <1>6 DEF UploadOK
    <2>5. (scratch'[c] # Empty) => c \in left'
        BY <2>3
    <2>. QED  BY <1>1, <1>5, <2>1, <2>2, <2>4, <2>5 DEF UploadOK, Asked, Empty
<1>10. c \in File => FileOK(c)'
    BY <1>1, <1>2, <1>5 DEF FileOK, Asked
<1>. QED  BY <1>1, <1>2, <1>4, <1>7, <1>8, <1>9, <1>10, OneCallMoves

LEMMA CrashStep ==
    ASSUME IInv, Crash
    PROVE  IInv'
<1>1. /\ crashes < Crashes /\ crashes' = crashes + 1
      /\ call' = [c \in Call |-> IF c \in InService THEN Idle ELSE call[c]]
      /\ left' = left \cup {c \in InService \ File : scratch[Directory(c)] # Empty}
      /\ UNCHANGED <<force, form, unit, scratch, check, saved>>
    BY DEF Crash
<1>2. /\ call \in [Call -> CallRec] /\ scratch \in [Directories -> ScratchRec]
      /\ left \subseteq Upload /\ crashes \in 0..Crashes
    BY DEF IInv, StateOK
<1>3. \A c \in Call : call'[c] = IF c \in InService THEN Idle ELSE call[c]
    BY <1>1
<1>4. call' \in [Call -> CallRec]
    BY <1>1, <1>2, Rested
<1>5. left' \subseteq Upload /\ left \subseteq left'
    BY <1>1, <1>2, Calls DEF InService
<1>6. crashes' \in 0..Crashes
    BY <1>1, <1>2, FileAssumption
<1>7. FormsOK'
    BY <1>1, FormsStay DEF IInv
<1>8. StateOK'
    BY <1>1, <1>4, <1>5, <1>6 DEF IInv, StateOK
<1>9. \A a \in Candidate : UnitOK(a)'
    BY <1>1, UnitsStay
<1>10. ASSUME NEW c \in Upload PROVE UploadOK(c)'
    <2>1. CASE c \notin InService
        <3>1. call'[c] = call[c]
            BY <1>3, <2>1, Calls
        <3>. QED  BY <1>1, <1>5, <3>1, UploadStays
    <2>2. CASE c \in InService
        <3>1. call'[c] = Idle
            BY <1>3, <2>2, Calls
        <3>2. UploadOK(c) /\ DocFor(c)' = DocFor(c) /\ Says(c)' = Says(c)
            BY <1>1, FormsStay DEF IInv
        <3>3. (scratch'[c] # Empty) => c \in left'
            BY <1>1, <2>2, Calls, OwnDirectory
        <3>. QED  BY <1>1, <3>1, <3>2, <3>3, Rested DEF UploadOK, Asked, Empty
    <2>. QED  BY <2>1, <2>2
<1>11. ASSUME NEW f \in File PROVE FileOK(f)'
    <2>1. FileOK(f) /\ (call'[f] = call[f] \/ call'[f] = Idle)
        BY <1>3, Calls DEF IInv
    <2>. QED  BY <1>1, <2>1, Rested DEF FileOK, Asked
<1>. QED  BY <1>7, <1>8, <1>9, <1>10, <1>11 DEF IInv

LEMMA AskStep ==
    ASSUME IInv, NEW f \in File, Ask(f)
    PROVE  IInv'
<1>. DEFINE sent == Sent(Copy[f], "unknown")
<1>1. /\ check[f] = "queued" /\ check' = [check EXCEPT ![f] = "processing"]
      /\ call' = [call EXCEPT ![f] = sent]
      /\ UNCHANGED <<force, form, unit, scratch, saved, left, crashes>>
    BY DEF Ask
<1>2. /\ f \in Call /\ f \notin Upload
    BY Calls
<1>3. /\ call \in [Call -> CallRec] /\ scratch \in [Directories -> ScratchRec]
      /\ FileOK(f) /\ check \in [File -> {"queued", "processing", "passed",
                                          "manual_review_required", "failed"}]
      /\ saved \subseteq File /\ left \subseteq Upload
    BY <1>2, CallFacts
<1>4. Copy[f] \in Document /\ "unknown" \in Type
    BY FileAssumption DEF Type
<1>5. sent \in CallRec /\ sent.pc = "sent" /\ sent.doc = Copy[f]
    BY <1>4, Rested DEF Sent, CallRec, Asked
<1>. HIDE DEF sent
<1>6. /\ call' \in [Call -> CallRec] /\ call'[f] = sent
      /\ \A d \in Call : d # f => call'[d] = call[d]
    BY <1>1, <1>2, <1>3, <1>5
<1>7. /\ check' \in [File -> {"queued", "processing", "passed",
                              "manual_review_required", "failed"}]
      /\ check'[f] = "processing"
      /\ \A g \in File : g # f => check'[g] = check[g]
    BY <1>1, <1>3
<1>8. FileOK(f)'
    BY <1>4, <1>5, <1>6, <1>7 DEF FileOK
<1>. QED  BY <1>1, <1>2, <1>3, <1>6, <1>7, <1>8, OneCallMoves

\* The worker hears of a good answer only after it was kept.
LEMMA HearStep ==
    ASSUME IInv, NEW f \in File, Hear(f)
    PROVE  IInv'
<1>1. /\ check[f] = "processing" /\ call[f].pc = "answered"
      /\ check' = [check EXCEPT ![f] =
                      IF call[f].answer.authenticity = "likely_authentic"
                      THEN "passed" ELSE "manual_review_required"]
      /\ call' = [call EXCEPT ![f] = Idle]
      /\ UNCHANGED <<force, form, unit, scratch, saved, left, crashes>>
    BY DEF Hear
<1>2. /\ f \in Call /\ f \notin Upload
    BY Calls
<1>3. /\ call \in [Call -> CallRec] /\ scratch \in [Directories -> ScratchRec]
      /\ FileOK(f) /\ check \in [File -> {"queued", "processing", "passed",
                                          "manual_review_required", "failed"}]
      /\ saved \subseteq File /\ left \subseteq Upload
    BY <1>2, CallFacts
<1>4. /\ call' \in [Call -> CallRec] /\ call'[f] = Idle
      /\ \A d \in Call : d # f => call'[d] = call[d]
    BY <1>1, <1>2, <1>3, Rested
<1>5. /\ check' \in [File -> {"queued", "processing", "passed",
                              "manual_review_required", "failed"}]
      /\ check'[f] = "passed" => call[f].answer.authenticity = "likely_authentic"
      /\ \A g \in File : g # f => check'[g] = check[g]
    BY <1>1, <1>3
<1>6. FileOK(f)'
    BY <1>1, <1>3, <1>4, <1>5, Rested DEF FileOK, Asked
<1>. QED  BY <1>1, <1>2, <1>3, <1>4, <1>5, <1>6, OneCallMoves

LEMMA LoseStep ==
    ASSUME IInv, NEW f \in File, Lose(f)
    PROVE  IInv'
<1>1. /\ check[f] = "processing" /\ check' = [check EXCEPT ![f] = "failed"]
      /\ call' = [call EXCEPT ![f] = IF @.pc = "answered" THEN Idle ELSE @]
      /\ UNCHANGED <<force, form, unit, scratch, saved, left, crashes>>
    BY DEF Lose, Unheard
<1>2. /\ f \in Call /\ f \notin Upload
    BY Calls
<1>3. /\ call \in [Call -> CallRec] /\ scratch \in [Directories -> ScratchRec]
      /\ FileOK(f) /\ check \in [File -> {"queued", "processing", "passed",
                                          "manual_review_required", "failed"}]
      /\ saved \subseteq File /\ left \subseteq Upload
    BY <1>2, CallFacts
<1>4. /\ call' \in [Call -> CallRec] /\ (call'[f] = call[f] \/ call'[f] = Idle)
      /\ \A d \in Call : d # f => call'[d] = call[d]
    BY <1>1, <1>2, <1>3, Rested
<1>5. /\ check' \in [File -> {"queued", "processing", "passed",
                              "manual_review_required", "failed"}]
      /\ check'[f] = "failed"
      /\ \A g \in File : g # f => check'[g] = check[g]
    BY <1>1, <1>3
<1>6. FileOK(f)'
    BY <1>1, <1>3, <1>4, <1>5, Rested DEF FileOK, Asked
<1>. QED  BY <1>1, <1>2, <1>3, <1>4, <1>5, <1>6, OneCallMoves

-----------------------------------------------------------------------------

LEMMA StartsRight ==
    ASSUME Init
    PROVE  IInv
<1>1. FormsOK
    <2>1. \A a \in Candidate : form[a] \in Forms[a]
        BY DEF Init
    <2>2. \A c \in Upload : DocFor(c) \in Document \cup {NoDoc}
        BY <2>1, Calls, FileAssumption DEF DocFor
    <2>. QED  BY <2>2 DEF Init, FormsOK
<1>2. Empty \in ScratchRec /\ Empty.source = NoDoc /\ Empty.image = NoDoc
    BY DEF Empty, ScratchRec
<1>3. Unstarted \in UnitRec /\ Unstarted.pc = "ready" /\ Unstarted.rows = <<>>
         /\ Unstarted.status = "none"
    BY DEF Unstarted, UnitRec
<1>4. StateOK
    <2>1. unit \in [Candidate -> UnitRec]
        BY <1>3 DEF Init
    <2>2. call \in [Call -> CallRec]
        BY Rested DEF Init
    <2>3. scratch \in [Directories -> ScratchRec]
        BY <1>2 DEF Init, Directories
    <2>4. crashes \in 0..Crashes
        BY FileAssumption DEF Init
    <2>. QED  BY <2>1, <2>2, <2>3, <2>4 DEF Init, StateOK
<1>5. ASSUME NEW a \in Candidate PROVE UnitOK(a)
    <2>1. unit[a] = Unstarted
        BY DEF Init
    <2>2. Len(Attached(a)) \in Nat
        BY <1>1, AttachedSlots
    <2>. QED  BY <1>3, <2>1, <2>2 DEF UnitOK
<1>6. ASSUME NEW c \in Upload PROVE UploadOK(c)
    <2>1. call[c] = Idle
        BY Calls DEF Init
    <2>2. scratch[c] = Empty
        BY OwnDirectory DEF Init, Directories
    <2>. QED  BY <1>2, <2>1, <2>2, Rested DEF UploadOK, Asked
<1>7. ASSUME NEW f \in File PROVE FileOK(f)
    <2>1. call[f] = Idle /\ check[f] = "queued"
        BY Calls DEF Init
    <2>. QED  BY <2>1, Rested DEF FileOK, Asked
<1>. QED  BY <1>1, <1>4, <1>5, <1>6, <1>7 DEF IInv

LEMMA StutterRight ==
    ASSUME IInv, UNCHANGED vars
    PROVE  IInv'
<1>1. UNCHANGED <<force, form, unit, call, scratch, check, saved, left, crashes>>
    BY DEF vars
<1>2. FormsOK' /\ StateOK'
    BY <1>1, FormsStay DEF IInv, StateOK
<1>3. \A a \in Candidate : UnitOK(a)'
    BY <1>1, UnitsStay
<1>4. \A c \in Upload : UploadOK(c)'
    BY <1>1, UploadStays
<1>5. \A f \in File : FileOK(f)'
    BY <1>1, FileStays
<1>. QED  BY <1>2, <1>3, <1>4, <1>5 DEF IInv

\* The inductive invariant holds: what a unit, the service and a worker know of
\* a document is of that document.
THEOREM ServiceInvariant == Spec => []IInv
<1>1. ASSUME IInv, [Next]_vars PROVE IInv'
    <2>1. ASSUME NEW a \in Candidate, UnitStep(a) PROVE IInv'
        BY <1>1, <2>1, UnreadableStep, SendStep, ReceiveStep, GiveUpStep, FinishStep
        DEF UnitStep
    <2>2. ASSUME NEW c \in Call, ServiceStep(c) PROVE IInv'
        BY <1>1, <2>2, WriteStep, DrawStep, ReadStep, ReadLayerStep, JudgeStep, LeaveStep
        DEF ServiceStep
    <2>3. ASSUME NEW f \in File, WorkerStep(f) PROVE IInv'
        BY <1>1, <2>3, AskStep, HearStep, LoseStep DEF WorkerStep
    <2>4. CASE Crash
        BY <1>1, <2>4, CrashStep
    <2>5. CASE UNCHANGED vars
        BY <1>1, <2>5, StutterRight
    <2>. QED  BY <1>1, <2>1, <2>2, <2>3, <2>4, <2>5 DEF Next
<1>. QED  BY StartsRight, <1>1, PTL DEF Spec

\* What a row of a unit says.
LEMMA RowFacts ==
    ASSUME IInv, NEW a \in Candidate, NEW row \in Rows(a)
    PROVE  /\ row \in RowRec /\ RowRight(a, row)
           /\ DocOf(a, row) = DocFor(<<a, row.slot>>) /\ DocOf(a, row) \in Document
           /\ DeclaredFor(a, row) = Says(<<a, row.slot>>) /\ DeclaredFor(a, row) \in Type
<1>1. PICK i \in DOMAIN unit[a].rows : row = unit[a].rows[i]
    BY DEF Rows
<1>2. unit[a].rows \in Seq(RowRec)
    BY DEF IInv, StateOK, UnitRec
<1>3. row \in RowRec /\ RowRight(a, row)
    BY <1>1, <1>2 DEF IInv, UnitOK
<1>4. DocOf(a, row) = DocFor(<<a, row.slot>>)
    BY DEF DocOf, DocFor
<1>5. DeclaredFor(a, row) = Says(<<a, row.slot>>)
    BY <1>4 DEF DeclaredFor, Says
<1>. QED  BY <1>3, <1>4, <1>5, SaysType DEF RowRight

\* An answer that is neither forced nor a failure stands in the document of its row.
LEMMA RowReads ==
    ASSUME IInv, NEW a \in Candidate, NEW row \in Rows(a), ~row.answer.forced
    PROVE  \/ row.answer \in {OcrFailed, ProcessingFailed}
           \/ /\ row.code = "none"
              /\ \E text \in {Page[DocOf(a, row)], Whole(DocOf(a, row))} :
                    Supported(row.answer, Page[DocOf(a, row)], text, DeclaredFor(a, row))
<1>1. /\ row \in RowRec /\ RowRight(a, row)
      /\ DocOf(a, row) = DocFor(<<a, row.slot>>) /\ DocOf(a, row) \in Document
      /\ DeclaredFor(a, row) = Says(<<a, row.slot>>) /\ DeclaredFor(a, row) \in Type
    BY RowFacts
<1>2. CASE row.code = "none"
    <2>1. row.answer \in AnswersOn(DocOf(a, row), DeclaredFor(a, row))
        BY <1>1, <1>2 DEF RowRight
    <2>. QED  BY <1>1, <1>2, <2>1, AnswersOnAre
<1>3. CASE row.code # "none"
    BY <1>1, <1>3 DEF RowRight
<1>. QED  BY <1>2, <1>3

\* What stands in the first text stands in the whole one.
LEMMA WholeStates ==
    ASSUME NEW doc \in Document, NEW text \in {Page[doc], Whole(doc)}, NEW score,
           Stating(text, score)
    PROVE  Stating(Whole(doc), score)
<1>1. Page[doc] \in Text /\ Faint[doc] \in Text
    BY FileAssumption
<1>2. Page[doc].figures \in Seq(Figure) /\ Faint[doc].figures \in Seq(Figure)
    BY <1>1, FiguresHaveValues
<1>3. Whole(doc).figures = Page[doc].figures \o Faint[doc].figures
    BY DEF Whole, Joined
<1>4. CASE text = Page[doc]
    <2>1. PICK i \in DOMAIN Page[doc].figures : Page[doc].figures[i].value = score
        BY <1>4 DEF Stating
    <2>2. i \in DOMAIN Whole(doc).figures /\ Whole(doc).figures[i] = Page[doc].figures[i]
        <3>1. ASSUME NEW s \in Seq(Figure), NEW u \in Seq(Figure), NEW j \in DOMAIN s
              PROVE  j \in DOMAIN (s \o u) /\ (s \o u)[j] = s[j]
            OBVIOUS
        <3>. QED  BY <1>2, <1>3, <2>1, <3>1
    <2>. QED  BY <2>1, <2>2 DEF Stating
<1>. QED  BY <1>4

\* An answer the unit keeps was read from the document it was asked about, however
\* many uploads the service reads at a time (OwnDocument).
THEOREM OwnDocumentHolds == Spec => []OwnDocument
<1>1. ASSUME IInv PROVE OwnDocument
    <2>. SUFFICES ASSUME NEW a \in Candidate, NEW row \in Rows(a), Genuine(row)
                  PROVE  row.answer \in AnswersOn(DocOf(a, row), DeclaredFor(a, row))
        BY DEF OwnDocument, AnswersOn
    <2>1. ~row.answer.forced /\ row.code = "none"
        BY DEF Genuine
    <2>. QED  BY <1>1, <2>1, RowFacts DEF RowRight
<1>. QED  BY <1>1, ServiceInvariant, PTL

LEMMA CompletedProven ==
    ASSUME IInv
    PROVE  CompletedIsProven
<1>. SUFFICES ASSUME NEW a \in Candidate, unit[a].status = "completed", ~force
              PROVE  /\ Rows(a) # {}
                     /\ \A row \in Rows(a) :
                           /\ Classify(Page[DocOf(a, row)].marks)
                                 \in {"unknown", row.answer.type}
                           /\ DeclaredFor(a, row) \in {"unknown", row.answer.type}
                           /\ Stating(Whole(DocOf(a, row)), row.answer.score)
    BY DEF CompletedIsProven, Stating
<1>1. Outcome(unit[a].rows) = "completed" /\ unit[a].rows \in Seq(RowRec)
    BY DEF IInv, UnitOK, StateOK, UnitRec
<1>2. /\ unit[a].rows # <<>>
      /\ \A i \in DOMAIN unit[a].rows : ~Doubtful(unit[a].rows[i])
    BY <1>1 DEF Outcome
<1>3. Rows(a) # {}
    <2>1. 1 \in DOMAIN unit[a].rows
        BY <1>1, <1>2
    <2>. QED  BY <2>1 DEF Rows
<1>4. ASSUME NEW row \in Rows(a)
      PROVE  /\ Classify(Page[DocOf(a, row)].marks) \in {"unknown", row.answer.type}
             /\ DeclaredFor(a, row) \in {"unknown", row.answer.type}
             /\ Stating(Whole(DocOf(a, row)), row.answer.score)
    <2>1. ~Doubtful(row)
        BY <1>2 DEF Rows
    <2>2. row.answer.authenticity = "likely_authentic"
        BY <2>1 DEF Doubtful
    <2>3. /\ RowRight(a, row) /\ DocOf(a, row) \in Document
        BY RowFacts
    <2>4. ~row.answer.forced
        BY <2>3 DEF RowRight
    <2>5. PICK text \in {Page[DocOf(a, row)], Whole(DocOf(a, row))} :
              Supported(row.answer, Page[DocOf(a, row)], text, DeclaredFor(a, row))
        BY <2>2, <2>4, RowReads, FailuresAnswer
    <2>6. /\ Classify(Page[DocOf(a, row)].marks) \in {"unknown", row.answer.type}
          /\ DeclaredFor(a, row) \in {"unknown", row.answer.type}
          /\ Stating(text, row.answer.score)
        BY <2>2, <2>5 DEF Supported
    <2>. QED  BY <2>3, <2>6, WholeStates
<1>. QED  BY <1>3, <1>4

LEMMA PassedEarned ==
    ASSUME IInv
    PROVE  PassedIsEarned
<1>. SUFFICES ASSUME NEW a \in Candidate, NEW row \in Rows(a),
                     row.answer.passed = "passed"
              PROVE  IF row.answer.forced
                     THEN force /\ row.role \in {"english", "certificate"}
                                /\ row.code \in {"none", "validation_http_failed"}
                     ELSE /\ Classify(Page[DocOf(a, row)].marks)
                                \in {"unknown", row.answer.type}
                          /\ \E i \in DOMAIN Whole(DocOf(a, row)).figures :
                                Whole(DocOf(a, row)).figures[i].value
                                    >= Need(row.answer.type)
    BY DEF PassedIsEarned, Need
<1>1. RowRight(a, row) /\ DocOf(a, row) \in Document
    BY RowFacts
<1>2. CASE row.answer.forced
    BY <1>1, <1>2 DEF RowRight
<1>3. CASE ~row.answer.forced
    <2>1. PICK text \in {Page[DocOf(a, row)], Whole(DocOf(a, row))} :
              Supported(row.answer, Page[DocOf(a, row)], text, DeclaredFor(a, row))
        BY <1>3, RowReads, FailuresAnswer
    <2>2. /\ Classify(Page[DocOf(a, row)].marks) \in {"unknown", row.answer.type}
          /\ Stating(text, row.answer.score)
          /\ row.answer.score >= Need(row.answer.type)
        BY <2>1 DEF Supported
    <2>3. Stating(Whole(DocOf(a, row)), row.answer.score)
        BY <1>1, <2>2, WholeStates
    <2>. QED  BY <1>3, <2>2, <2>3 DEF Stating
<1>. QED  BY <1>2, <1>3

\* A good verdict is earned: a unit that completes is proven by the texts of all
\* its documents, a passed threshold by a figure of the exam that was read, and a
\* check passes only with an answer that is kept (VerdictsEarned).
THEOREM VerdictsHold == Spec => []VerdictsEarned
<1>1. ASSUME IInv PROVE PassedIsKept
    BY <1>1 DEF IInv, FileOK, PassedIsKept
<1>2. IInv => VerdictsEarned
    BY <1>1, CompletedProven, PassedEarned DEF VerdictsEarned
<1>. QED  BY <1>2, ServiceInvariant, PTL

\* The service is in order, and an upload is on its disk no longer than its call
\* unless the service was killed or the directory could not be removed (ServiceOK).
THEOREM ServiceHolds == Spec => []ServiceOK
<1>1. ASSUME IInv PROVE TypeOK
    <2>1. ASSUME NEW a \in Candidate
          PROVE  /\ unit[a].pc \in {"ready", "waits", "ended"}
                 /\ unit[a].status \in {"none", "completed", "manual_review_required"}
                 /\ Len(unit[a].rows) <= Len(Attached(a))
                 /\ \A i \in DOMAIN unit[a].rows :
                       LET row == unit[a].rows[i]
                       IN  /\ row.slot = Attached(a)[i] /\ row.answer \in Answers
                           /\ row.role \in Slot \cup {"none"}
                           /\ row.role = "none" <=> row.code = "document_not_found"
        <3>1. unit[a] \in UnitRec /\ UnitOK(a)
            BY <1>1 DEF IInv, StateOK
        <3>2. unit[a].rows \in Seq(RowRec)
            BY <3>1 DEF UnitRec
        <3>3. ASSUME NEW i \in DOMAIN unit[a].rows
              PROVE  /\ unit[a].rows[i].slot = Attached(a)[i]
                     /\ unit[a].rows[i].answer \in Answers
                     /\ unit[a].rows[i].role \in Slot \cup {"none"}
                     /\ unit[a].rows[i].role = "none"
                            <=> unit[a].rows[i].code = "document_not_found"
            <4>1. unit[a].rows[i] \in RowRec
                BY <3>2
            <4>2. unit[a].rows[i].slot = Attached(a)[i] /\ RowRight(a, unit[a].rows[i])
                BY <3>1 DEF UnitOK
            <4>. QED  BY <4>1, <4>2 DEF RowRec, RowRight
        <3>. QED  BY <3>1, <3>3 DEF UnitRec, UnitOK
    <2>2. ASSUME NEW c \in Call
          PROVE  /\ call[c].pc \in {"idle", "sent", "written", "drawn", "read", "typed",
                                   "leaves", "answered"}
                 /\ call[c].doc \in Document \cup {NoDoc} /\ call[c].answer \in Answers
                 /\ scratch[Directory(c)] \in [source : Document \cup {NoDoc},
                                              image : Document \cup {NoDoc}]
        <3>1. call[c] \in CallRec /\ scratch[Directory(c)] \in ScratchRec
            BY <1>1, CallFacts
        <3>. QED  BY <3>1 DEF CallRec, ScratchRec, Asked
    <2>3. left \subseteq Call \ File
        BY <1>1, Calls DEF IInv, StateOK
    <2>. QED  BY <1>1, <2>1, <2>2, <2>3 DEF TypeOK, IInv, FormsOK, StateOK
<1>2. ASSUME IInv PROVE ScratchFollows
    <2>. SUFFICES ASSUME NEW c \in Call \ File, scratch[Directory(c)] # Empty
                  PROVE  c \in InService \cup left
        BY DEF ScratchFollows
    <2>1. UploadOK(c) /\ Directory(c) = c
        BY <1>2, CallFacts
    <2>. QED  BY <2>1 DEF UploadOK
<1>3. IInv => ServiceOK
    BY <1>1, <1>2 DEF ServiceOK
<1>. QED  BY <1>3, ServiceInvariant, PTL
=============================================================================
