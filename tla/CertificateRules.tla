--------------------------- MODULE CertificateRules ---------------------------
(***************************************************************************)
(* How the certificate service reads an examination certificate            *)
(* (apps/certificate-validation): which exam a text is of, which of its    *)
(* numbers is the score, whether the score is plausible and enough, and    *)
(* whether the document looks authentic.                                   *)
(*                                                                         *)
(* A text is what the regular expressions of the service find in it: the   *)
(* marks, and the figures in the order of the text, each with the line it  *)
(* stands in and the words near it.  IELTS bands are counted in halves;    *)
(* the word "nis" and the names of the school are one mark.                *)
(***************************************************************************)
EXTENDS Integers, Sequences, FiniteSets, FiniteSetsExt

CONSTANT ToeflThreshold   \* TOEFL_THRESHOLD of the service's environment

ASSUME ThresholdAssumption == ToeflThreshold \in Nat

Exam == {"ielts", "toefl", "ent", "nis_12"}
Type == Exam \cup {"unknown"}
Tier == {"high", "medium", "low", "none"}
NoScore == -1

\* What the marks say for an exam, each with its weight.
Points(marks, exam) ==
    LET add(mark, weight) == IF mark \in marks THEN weight ELSE 0
    IN  CASE exam = "ielts" ->
                 add("ielts", 4) + add("trf", 3) + add("overall_band", 3)
                 + add("council", 1) + add("band_number", 2)
          [] exam = "toefl" ->
                 add("toefl", 4) + add("ets", 2) + add("ibt", 2)
                 + add("total_score", 2)
          [] exam = "ent" ->
                 add("national", 4) + add("serial", 2) + add("kt", 2)
                 + add("among", 1) + add("final_points", 1) + add("ent_word", 2)
          [] OTHER ->
                 add("school", 5) + add("grade_12", 1) + add("final_points", 1)

\* The order in which equal scores stay sorted.
Precedence == <<"ielts", "toefl", "ent", "nis_12">>

\* classifyDocumentType
Classify(marks) ==
    LET p == [e \in Exam |-> Points(marks, e)]
        top == Max({p[e] : e \in Exam})
        tops == {i \in DOMAIN Precedence : p[Precedence[i]] = top}
        torn == \/ p["ielts"] = p["toefl"] /\ p["ielts"] >= 3
                \/ p["ent"] = p["nis_12"] /\ p["ent"] >= 3
    IN  IF top < 3 \/ (Cardinality(tops) > 1 /\ torn) THEN "unknown"
        ELSE Precedence[Min(tops)]

\* mapDeclarationToDocumentType, for what the API sends: the kind of proof of
\* the attachment's own role, and none for an additional one.
Declared(role, kinds) ==
    CASE role = "english" /\ kinds.english = "ielts_6" -> "ielts"
      [] role = "english" /\ kinds.english = "toefl_60_78" -> "toefl"
      [] role = "certificate" /\ kinds.certificate \in {"ent", "nis_12"} ->
             kinds.certificate
      [] OTHER -> "unknown"

\* mergeDocumentType: the declaration decides what is looked for.
Resolved(read, declared) == IF declared = "unknown" THEN read ELSE declared

Mismatch(read, declared) ==
    declared # "unknown" /\ read # "unknown" /\ read # declared

-----------------------------------------------------------------------------
(* The score: detailedScoreExtraction.ts.                                  *)

Text == [marks : SUBSET STRING,
         figures : Seq([value : Nat, line : STRING, near : SUBSET STRING])]
NoText == [marks |-> {}, figures |-> <<>>]

\* What the supplementary passes found is appended.
Joined(text, more) == [marks |-> text.marks \cup more.marks,
                       figures |-> text.figures \o more.figures]

Found(value, tier) == [score |-> value, tier |-> tier]
Missing == [score |-> NoScore, tier |-> "none"]

IeltsLines == <<"overall_band_score", "overall_band", "overall_near_band",
                "number_before_band", "test_results", "line_end">>

\* The first number that is a band, of the first kind of line that has one.
IeltsScore(text) ==
    LET hits == {h \in (DOMAIN IeltsLines) \X (DOMAIN text.figures) :
                    /\ text.figures[h[2]].line = IeltsLines[h[1]]
                    /\ text.figures[h[2]].value \in 8..18}
        first == CHOOSE h \in hits : \A g \in hits :
                    h[1] < g[1] \/ (h[1] = g[1] /\ h[2] <= g[2])
    IN  IF hits = {} THEN Missing
        ELSE Found(text.figures[first[2]].value,
                   IF first[1] <= 2 THEN "high" ELSE "medium")

ToeflLines == <<"total_score", "my_total_score", "total_colon">>

\* The largest total; or any number of a total's size where both section
\* scores stand in a text that names the exam.
ToeflScore(text) ==
    LET at(lines) == {i \in DOMAIN text.figures : text.figures[i].line \in lines}
        totals == {h \in (DOMAIN ToeflLines) \X (DOMAIN text.figures) :
                      /\ text.figures[h[2]].line = ToeflLines[h[1]]
                      /\ text.figures[h[2]].value <= 120}
        best == CHOOSE h \in totals : \A g \in totals :
                   LET v == text.figures[h[2]].value
                       w == text.figures[g[2]].value
                   IN  v > w \/ (v = w /\ h[1] <= g[1])
        sections == \A s \in {"reading", "listening"} :
                       \E i \in at({s}) : text.figures[i].value <= 30
        loose == {i \in DOMAIN text.figures : text.figures[i].value \in 80..120}
    IN  IF totals # {}
        THEN Found(text.figures[best[2]].value,
                   IF best[1] = 1 THEN "high" ELSE "medium")
        ELSE IF sections /\ text.marks \cap {"toefl", "ets"} # {} /\ loose # {}
        THEN Found(text.figures[Min(loose)].value, "low")
        ELSE Missing

\* rankEntCandidate: what stands near the number.
Rank(f) ==
    LET has(w) == w \in f.near
        add(cond, n) == IF cond THEN n ELSE 0
    IN  add(has("final_header"), 9) + add(has("result"), 7) + add(has("score"), 5)
        + add(has("result") /\ has("score"), 6) + add(has("exam"), 3)
        + add(has("of_200"), 2) + add(f.value \in 90..130, 1)
        + add(f.value = 100, 3) + add(has("kt"), 1)
        - add(has("number_or_date"), 8) - add(has("section"), 7)
        - add(has("section") /\ ~has("final_header"), 3)
        - add(has("number_or_date") /\ ~has("final_header"), 3)

\* What the kind of line adds to it; a number after the school's name has a
\* rank of its own.
Boosted(f, exam, school) ==
    CASE f.line = "target_anchor" -> Rank(f) + 9
      [] f.line \in {"score_anchor", "total_score", "spaced"} -> Rank(f) + 4
      [] f.line = "ent_marker" -> Rank(f) + 3
      [] f.line = "spaced_100" -> Rank(f) + (IF exam = "ent" THEN 8 ELSE 4)
      [] f.line = "before_points" /\ exam = "nis_12" /\ school -> Max({10, Rank(f)})
      [] OTHER -> Rank(f)

\* The numbers that may be the score: a band is not a number of two digits.
Candidates(text, exam) ==
    {i \in DOMAIN text.figures :
        /\ text.figures[i].value \in (IF exam = "ent" THEN 50 ELSE 0)..140
        /\ \A k \in DOMAIN IeltsLines : text.figures[i].line # IeltsLines[k]}

\* The best of them, if enough speaks for it.
KazakhScore(text, exam) ==
    LET rank(i) == Boosted(text.figures[i], exam, "school" \in text.marks)
        fits == Candidates(text, exam)
        best == CHOOSE i \in fits : \A j \in fits :
                   \/ rank(i) > rank(j)
                   \/ /\ rank(i) = rank(j)
                      /\ text.figures[i].value >= text.figures[j].value
    IN  IF fits = {} \/ rank(best) < (IF exam = "ent" THEN 8 ELSE 6)
        THEN Missing
        ELSE Found(text.figures[best].value,
                   IF rank(best) >= 14 THEN "high"
                   ELSE IF rank(best) >= 10 THEN "medium" ELSE "low")

Extract(text, type) ==
    CASE type = "ielts" -> IeltsScore(text)
      [] type = "toefl" -> ToeflScore(text)
      [] type \in {"ent", "nis_12"} -> KazakhScore(text, type)
      [] OTHER -> Missing

\* validatePlausibleScore
Plausible(type, score) ==
    CASE type = "ielts" -> score \in 8..18
      [] type = "toefl" -> score \in 0..120
      [] OTHER -> score \in 0..140

-----------------------------------------------------------------------------
(* The verdict.                                                            *)

\* (mutated: a mismatch does not hold the threshold back)
ThresholdOfScore(type, score, mismatch) ==
    IF type \notin {"ielts", "toefl"} \/ score = NoScore THEN "open"
    ELSE IF score >= (IF type = "ielts" THEN 12 ELSE ToeflThreshold)
    THEN "passed" ELSE "missed"

\* computePassedThreshold, evaluateThresholds
Threshold(type, score, mismatch) ==
    IF type \notin {"ielts", "toefl"} \/ mismatch \/ score = NoScore THEN "open"
    ELSE IF score >= (IF type = "ielts" THEN 12 ELSE ToeflThreshold)
    THEN "passed" ELSE "missed"

\* REQUIRED_ANCHORS
Anchors(type) ==
    CASE type = "ielts" -> {"ielts", "overall", "band"}
      [] type = "toefl" -> {"toefl", "score"}
      [] type = "ent" -> {"points", "ent_letters"}
      [] type = "nis_12" -> {"points", "nis_letters"}
      [] OTHER -> {}

\* matchTemplate: less than two fifths of the anchors are there.
Unlike(marks, type) ==
    5 * Cardinality(Anchors(type) \cap marks) < 2 * Cardinality(Anchors(type))
        \/ Anchors(type) = {}

\* evaluateAuthenticity. The recognizer reports 0.7 for every text it has, a
\* text layer counts as 1.0: the signals of low confidence never come up.
Authenticity(marks, type, score, doubts) ==
    LET few == Cardinality(Anchors(type) \ marks) > 1
    IN  IF Unlike(marks, type) /\ few THEN "manual_review_required"
        ELSE IF doubts = {} /\ ~Unlike(marks, type) /\ ~few /\ score # NoScore
        THEN "likely_authentic" ELSE "suspicious"

Answer(status, type, score, tier, passed, authenticity, error) ==
    [status |-> status, type |-> type, score |-> score, tier |-> tier,
     passed |-> passed, authenticity |-> authenticity, error |-> error,
     forced |-> FALSE]

OcrFailed == Answer("ocr_failed", "unknown", NoScore, "none", "open",
                    "insufficient_quality", TRUE)
ProcessingFailed == Answer("processing_failed", "unknown", NoScore, "none",
                           "open", "manual_review_required", TRUE)

\* Whether the supplementary passes are made (enrichOcrTextDetailed).
NeedsMore(text, declared) ==
    LET type == Resolved(Classify(text.marks), declared)
    IN  type \in {"ielts", "ent"} /\ Extract(text, type).score = NoScore

\* What validateCertificateImage makes of the text: it is classified by what
\* the first pass read, the score is looked for in everything that was read.
Verdict(first, text, declared) ==
    LET read == Classify(first.marks)
        type == Resolved(read, declared)
        found == Extract(text, type)
        wild == type # "unknown" /\ found.score # NoScore
                    /\ ~Plausible(type, found.score)
        score == IF wild THEN NoScore ELSE found.score
        mismatch == Mismatch(read, declared)
        doubts == {d \in {"mismatch", "implausible"} :
                      (d = "mismatch" /\ mismatch) \/ (d = "implausible" /\ wild)}
    IN  Answer(IF type = "unknown" THEN "unsupported" ELSE "processed", type,
               score, found.tier, Threshold(type, score, mismatch),
               Authenticity(text.marks, type, score, doubts), FALSE)
=============================================================================
