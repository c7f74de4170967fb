---------------------------- MODULE MCEngagement ----------------------------
(* Instances of Engagement for TLC: a day is one tick, and the five days of *)
(* silence fit before MaxTime.                                           *)
EXTENDS Engagement

CONSTANT info

Skews == {-2,1}
Notices == {0,2}
=============================================================================
