------------------------- MODULE MCInterviewWindow -------------------------
(* The instance of InterviewWindow for TLC. The bounds 3..5 on the number   *)
(* of questions become 1..1: "short" asks none, and cannot be approved.     *)
EXTENDS InterviewWindow, TLC

CONSTANTS r1, r2, t1, t2, s1, q1, short, full, yes

TwoAsks == short :> {} @@ full :> {q1}
=============================================================================
