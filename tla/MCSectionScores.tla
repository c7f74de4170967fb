--------------------------- MODULE MCSectionScores ---------------------------
(* Instances of SectionScores for TLC. The sheets are a plain one with one *)
(* section replaced by any other; two that differ in the path, one of them *)
(* with spam, get to the reviewers. A review takes two sections: both have *)
(* to be scored before it is complete.                                     *)
EXTENDS CommissionDesk, TLC

CONSTANTS r1, r2

Symmetry == Permutations(Reviewers)

Both(x, y) == [initiative |-> x, resilience |-> y, reflection_growth |-> y]

Personal ==
    {p \in [filled: 0..3, certificate: {"none", "open", "completed", "failed"},
            ended: 0..Units, manual: 0..Units] :
        p.manual =< p.ended /\ (p.filled = 3 \/ p.ended = Units)}

Test ==
    {t \in [analysed: 0..1, initiative: {0, 4, 24, 40}, collaboration: {0, 24},
            rest: {0, 72}, answers: {0, 39, 40}, inconsistent: 0..1,
            desirable: 0..1] :
        t.inconsistent = 1 \/ t.desirable = 0}

Letter == [terms |-> 1, intrinsic |-> 1, extrinsic |-> 1, words |-> 100,
           choice |-> 1, fit |-> 1, evidence |-> 0, structure |-> 1,
           digits |-> 0]

Motivation ==
    {[Letter EXCEPT !.terms = t, !.intrinsic = i, !.extrinsic = e]
        : t \in 0..2, i \in {0, 1, 2, 5}, e \in {0, 2, 5}}
    \cup {[Letter EXCEPT !.words = w, !.choice = c, !.fit = f]
        : w \in {0, 40, 89, 90, 150, 220}, c \in 0..3, f \in {0, 1, 3, 5}}
    \cup {[Letter EXCEPT !.evidence = e, !.structure = s, !.digits = d]
        : e \in 0..1, s \in 0..4, d \in 0..1}

\* Every spam answer has a reason.
Path ==
    {[answers |-> 5, spam |-> q[1], phrases |-> q[2], uniform |-> q[3],
      repetitive |-> q[4], evidence |-> e, signal |-> Both(s, 40),
      hits |-> Both(h, 0)]
        : q \in {<<0, 0, 0, 0>>, <<1, 0, 1, 0>>, <<1, 0, 1, 1>>, <<1, 1, 0, 0>>,
                 <<1, 2, 0, 0>>, <<2, 0, 2, 2>>, <<2, 1, 1, 0>>, <<4, 4, 0, 0>>},
          e \in {0, 2, 3, 5}, s \in {0, 20, 35, 55, 75}, h \in 0..2}
    \cup {[answers |-> 0, spam |-> 0, phrases |-> 0, uniform |-> 0,
           repetitive |-> 0, evidence |-> 0, signal |-> Both(0, 0),
           hits |-> Both(h, 0)] : h \in 0..2}

Achievements ==
    {[impact |-> i, words |-> w, role |-> r, year |-> y,
      links |-> 1, checked |-> 1, reachable |-> 1]
        : i \in 0..3, w \in {0, 20, 50, 80, 100}, r \in 0..1, y \in 0..1}
    \cup {[impact |-> 0, words |-> 50, role |-> 0, year |-> y,
           links |-> n, checked |-> c[1], reachable |-> c[2]]
        : y \in 0..1, n \in 0..2,
          c \in {<<0, 0>>, <<1, 0>>, <<1, 1>>, <<2, 0>>, <<2, 1>>, <<2, 2>>}}

PathSheet(spam, signal) ==
    [answers |-> 5, spam |-> spam, phrases |-> spam, uniform |-> 0,
     repetitive |-> 0, evidence |-> 3, signal |-> Both(signal, 40),
     hits |-> Both(0, 0)]

Plain ==
    [personal |-> [filled |-> 3, certificate |-> "completed", ended |-> Units,
                   manual |-> 0],
     test |-> [analysed |-> 1, initiative |-> 24, collaboration |-> 24,
               rest |-> 72, answers |-> 40, inconsistent |-> 0,
               desirable |-> 0],
     motivation |-> Letter,
     path |-> PathSheet(0, 35),
     achievements |-> [impact |-> 1, words |-> 50, role |-> 1, year |-> 0,
                       links |-> 1, checked |-> 1, reachable |-> 1]]

MCReviewed == {Plain, [Plain EXCEPT !.path = PathSheet(4, 0)]}

MCSheets ==
    MCReviewed
    \cup {[Plain EXCEPT !.personal = x] : x \in Personal}
    \cup {[Plain EXCEPT !.test = x] : x \in Test}
    \cup {[Plain EXCEPT !.motivation = x] : x \in Motivation}
    \cup {[Plain EXCEPT !.path = x] : x \in Path}
    \cup {[Plain EXCEPT !.achievements = x] : x \in Achievements}

TwoSections == {"path", "motivation"}

\* The page gives every key of a section one score; the last two are others'.
MCForms ==
    {[section |-> "path", scores |-> [k \in Keys.path |-> n]] : n \in {2, 5}}
    \cup {[section |-> "motivation", scores |-> [k \in Keys.motivation |-> 3]],
          [section |-> "path",
           scores |-> [k \in {"initiative", "specificity"} |-> 4]]}

MCTagRequests == {{"olympiad"}, {"late"}}

MCVerdicts ==
    [{"motivation"} -> {"strong"}]
    \cup [{"recommendation"} -> {"reject", "needs_discussion"}]

MCAdvice == {"none", "recommend"}
=============================================================================
