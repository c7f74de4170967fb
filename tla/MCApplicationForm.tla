--------------------------- MODULE MCApplicationForm ---------------------------
(* An instance of ApplicationForm for TLC: a section with a document, the    *)
(* test, and a section whose completeness depends on an upload; two          *)
(* questions, one of them seeded later.                                       *)
EXTENDS ApplicationForm, TLC

CONSTANTS r1, r2, v1, v2

MCPayload ==
    [personal |-> {Complete["personal"]},
     internal_test |-> {Complete["internal_test"]},
     social_status_cert |-> {{"attestation"}}]

\* Requests, and the values of answers, are interchangeable.
Symmetry == Permutations(Request) \cup Permutations(Value)
=============================================================================
