SPECIFICATION Spec
CONSTANTS
    r1 = r1  r2 = r2  v1 = v1  v2 = v2
    Request = {r1, r2}
    Section = {"personal", "internal_test", "social_status_cert"}
    Payload <- MCPayload
    Question = {"q1", "q2"}
    Old = {"q1"}
    New = {"q1", "q2"}
    Value = {v1, v2}
    DocId = {1}
    Type = {"supporting_documents", "certificate_of_social_status"}
    MaxGiven = 1
SYMMETRY Symmetry
INVARIANT FormOK
PROPERTIES SubmitsComplete SubmittedStands
CHECK_DEADLOCK FALSE
