--------------------------- MODULE ApplicationForm ---------------------------
(***************************************************************************)
(* The candidate's form: sections, internal test, documents, and what a    *)
(* submission asks of them.                                                *)
(*                                                                         *)
(* A payload is the set of the facts that the rules ask of it. A handler   *)
(* is a request that LOADS the rows, checks its guards, and COMMITS later, *)
(* with no lock in between; an upload writes its file before it commits.   *)
(* The stage and the state of the application are those of Lifecycle; what *)
(* a submission starts is DataCheckPipeline.                               *)
(***************************************************************************)
EXTENDS Integers, FiniteSets

CONSTANTS
    Section,   \* the keys of the form that are filled in
    Payload,   \* Payload[k]: the payloads sent for section k
    Question,  \* internal_test_questions
    Old,       \* those active before the questions are seeded again
    New,       \* those active afterwards
    Value,     \* answers
    DocId,     \* uploads
    Type,      \* their document_type
    Request,   \* concurrent requests
    MaxGiven   \* bound: times the form is given back

VARIABLES
    locked,    \* Application.locked_after_submit
    section,   \* ApplicationSectionState rows
    answer,    \* InternalTestAnswer rows
    document,  \* Document rows: the type of each
    active,    \* questions with is_active
    file,      \* files in the storage
    req,       \* requests
    given,     \* times the form was given back
    raced      \* rows or questions have changed under a request

form == <<locked, section, answer, document>>
vars == <<form, active, file, req, given, raced>>

----------------------------------------------------------------------------
(* The rules of the sections.                                              *)

SectionKey == {"personal", "contact", "education", "achievements_activities",
               "leadership_evidence", "motivation_goals", "growth_journey",
               "internal_test", "social_status_cert", "documents_manifest",
               "consent_agreement"}

\* What parse_and_validate_section refuses a payload without.
MustHave ==
    [k \in SectionKey |->
       CASE k = "personal" -> {"first_name", "last_name"}
         [] k = "contact" -> {"phone_of_11_digits", "address", "city",
                              "country"}
         [] k = "achievements_activities" -> {"text"}
         [] k = "leadership_evidence" -> {"item"}
         [] k = "motivation_goals" -> {"narrative_of_350"}
         [] k = "growth_journey" -> {"no_short_answer"}
         [] k = "social_status_cert" -> {"attestation"}
         [] k = "consent_agreement" -> {"policy_version"}
         [] OTHER -> {}]

\* What compute_section_complete asks of the payload alone.
Complete ==
    [k \in SectionKey |->
       MustHave[k] \cup
       CASE k = "personal" ->
              {"date_of_birth", "document_type", "citizenship_or_nationality",
               "iin", "document_number", "issue_date", "issued_by",
               "parent_or_guardian", "consent_privacy", "consent_age",
               "document"}
         [] k = "contact" ->
              {"region", "street", "house", "apartment", "consent_privacy",
               "consent_parent", "second_channel"}
         [] k = "education" ->
              {"video_url", "english_proof", "certificate_proof"}
         [] k = "achievements_activities" -> {"text_of_250"}
         [] k \in {"growth_journey", "internal_test"} ->
              {"consent_privacy", "consent_parent"}
         [] k = "documents_manifest" -> {"acknowledged"}
         [] k = "consent_agreement" -> {"accepted_terms", "accepted_privacy"}
         [] OTHER -> {}]

RequiredSection == {"personal", "contact", "education", "internal_test",
                    "motivation_goals", "growth_journey",
                    "achievements_activities"} \cap Section

ManifestTypes == {"transcript", "portfolio", "essay",
                  "certificate_of_social_status"}

\* The type a section's document has to have; no other section is looked at.
DocumentType ==
    [personal |-> "supporting_documents",
     motivation_goals |-> "motivation_upload",
     growth_journey |-> "growth_journey_upload"]

\* What can be said of a payload.
Fact == UNION {Complete[k] : k \in SectionKey}

ASSUME FormAssumption ==
    /\ Section \subseteq SectionKey /\ "internal_test" \in Section
    /\ \A k \in Section : \A p \in Payload[k] :
          MustHave[k] \subseteq p /\ p \subseteq Fact
    /\ IsFiniteSet(Question)
    /\ Old \subseteq Question /\ New \subseteq Question
    /\ "none" \notin Value
    /\ 0 \notin DocId
    /\ MaxGiven \in Nat

\* doc: the document the payload names, 0 for none.
NoRow == [saved |-> FALSE, has |-> {}, doc |-> 0, complete |-> FALSE]
NoAnswer == [value |-> "none", final |-> FALSE]

Types(docs) == {docs[d] : d \in DocId} \ {"none"}

\* _internal_test_complete: answers are counted, whatever their question.
TestAnswered(answers) ==
    /\ active # {}
    /\ Cardinality({q \in Question : answers[q].value # "none"})
         >= Cardinality(active)

\* compute_section_complete.
IsComplete(k, has, answers, docs) ==
    /\ Complete[k] \subseteq has
    /\ k = "internal_test" => TestAnswered(answers)
    /\ k = "social_status_cert"
         => "certificate_of_social_status" \in Types(docs)
    /\ k = "documents_manifest" => ManifestTypes \subseteq Types(docs)

\* Sections whose flag the submission computes again; it trusts the others'.
Recomputed == {"personal", "contact", "internal_test"}

\* (mutated: the flag of the test is trusted)
MissingByFlag(rows) ==
    {k \in RequiredSection :
       \/ ~rows.section[k].saved
       \/ ~rows.section[k].complete}

\* completion_percentage.
Missing(rows) ==
    {k \in RequiredSection :
       \/ ~rows.section[k].saved
       \/ /\ k \in Recomputed
          /\ ~IsComplete(k, rows.section[k].has, rows.answer, rows.document)
       \/ /\ k \notin Recomputed
          /\ ~rows.section[k].complete}
----------------------------------------------------------------------------
Rows == [locked |-> locked, section |-> section, answer |-> answer,
         document |-> document]

NoInput == [k |-> "personal", has |-> {}, doc |-> 0, type |-> "none",
            q |-> {}, value |-> "none"]

SectionRow == [saved : BOOLEAN, has : SUBSET Fact,
               doc : DocId \cup {0}, complete : BOOLEAN]

TypeOK ==
    /\ locked \in BOOLEAN
    /\ \A k \in Section : section[k] \in SectionRow
    /\ answer \in [Question -> [value : Value \cup {"none"}, final : BOOLEAN]]
    /\ document \in [DocId -> Type \cup {"none"}]
    /\ active \subseteq Question
    /\ file \subseteq DocId
    /\ \A r \in Request :
         req[r].op \in {"idle", "save", "answer", "finalize", "upload",
                        "stored", "reset", "submit"}
    /\ given \in 0..MaxGiven
    /\ raced \in BOOLEAN

IdleRequest ==
    [op |-> "idle", input |-> NoInput,
     was |-> [locked |-> FALSE,
              section |-> [k \in Section |-> NoRow],
              answer |-> [q \in Question |-> NoAnswer],
              document |-> [d \in DocId |-> "none"]]]

Init ==
    /\ locked = FALSE
    /\ section = [k \in Section |-> NoRow]
    /\ answer = [q \in Question |-> NoAnswer]
    /\ document = [d \in DocId |-> "none"]
    /\ active = Old
    /\ file = {}
    /\ req = [r \in Request |-> IdleRequest]
    /\ given = 0
    /\ raced = FALSE

\* _ensure_editable.
Editable == ~locked

\* Bound: no request begins once two have overlapped.
Load(r, op, input) ==
    /\ req[r].op = "idle"
    /\ ~raced
    /\ Editable
    /\ req' = [req EXCEPT ![r] = [op |-> op, was |-> Rows, input |-> input]]
    /\ UNCHANGED <<form, active, file, given, raced>>

\* _validate_optional_motivation_growth_doc; the documents of the other
\* sections are taken as they are.
Acceptable(k, d) ==
    d # 0 => k \in DOMAIN DocumentType /\ document[d] = DocumentType[k]

AskSave(r, k, has, d) ==
    /\ has \in Payload[k]
    /\ Acceptable(k, d)
    /\ (d # 0) <=> ("document" \in has)
    /\ Load(r, "save", [NoInput EXCEPT !.k = k, !.has = has, !.doc = d])

\* (mutated: final answers are written over)
AskAnswerAgain(r, qs, value, has) ==
    /\ qs \subseteq active
    /\ Load(r, "answer", [NoInput EXCEPT !.k = "internal_test", !.q = qs,
                                         !.value = value, !.has = has])

\* save_draft_answers: active questions that are not final.
AskAnswer(r, qs, value, has) ==
    /\ qs \subseteq {q \in active : ~answer[q].final}
    /\ Load(r, "answer", [NoInput EXCEPT !.k = "internal_test", !.q = qs,
                                         !.value = value, !.has = has])

\* submit_internal_test.
AskFinalize(r) ==
    /\ active # {}
    /\ \A q \in active : answer[q].value # "none"
    /\ Load(r, "finalize", [NoInput EXCEPT !.k = "internal_test",
                                           !.q = active])

AskUpload(r, d, type) ==
    /\ d \notin file
    /\ \A s \in Request : req[s].op = "upload" => req[s].input.doc # d
    /\ Load(r, "upload", [NoInput EXCEPT !.doc = d, !.type = type])

AskReset(r) == Load(r, "reset", NoInput)

AskSubmit(r) == Missing(Rows) = {} /\ Load(r, "submit", NoInput)
----------------------------------------------------------------------------
Reply(r) == req' = [req EXCEPT ![r] = IdleRequest]
NoteRace(r) == raced' = (raced \/ Rows # req[r].was)

\* uq_app_section: a first row cannot be inserted twice, a row that is gone
\* cannot be updated.
SameRows(r, k) == section[k].saved = req[r].was.section[k].saved

\* upsert_section_state.
Saved(has, d, complete) ==
    [saved |-> TRUE, has |-> has, doc |-> d, complete |-> complete]

CommitSave(r) ==
    LET in == req[r].input
        was == req[r].was
    IN  /\ req[r].op = "save"
        /\ SameRows(r, in.k)
        /\ section' = [section EXCEPT ![in.k] =
              Saved(in.has, in.doc,
                    IsComplete(in.k, in.has, was.answer, was.document))]
        /\ UNCHANGED <<locked, answer, document, active, file, given>>
        /\ NoteRace(r) /\ Reply(r)

\* The answers' text and the flag of the section; is_finalized stays. The
\* session does not flush by itself (SessionLocal): answers that are new are
\* not counted for the flag.
CommitAnswer(r) ==
    LET in == req[r].input
        was == req[r].was
        Put(answers) == [q \in Question |->
                           IF q \in in.q THEN [answers[q] EXCEPT !.value = in.value]
                           ELSE answers[q]]
    IN  /\ req[r].op = "answer"
        /\ SameRows(r, "internal_test")
        /\ \A q \in in.q :
             (answer[q].value = "none") <=> (was.answer[q].value = "none")
        /\ answer' = Put(answer)
        /\ section' = [section EXCEPT !["internal_test"] =
              Saved(in.has, 0, IsComplete("internal_test", in.has,
                                          was.answer, was.document))]
        /\ UNCHANGED <<locked, document, active, file, given>>
        /\ NoteRace(r) /\ Reply(r)

CommitFinalize(r) ==
    LET in == req[r].input
        was == req[r].was
    IN  /\ req[r].op = "finalize"
        /\ SameRows(r, "internal_test")
        /\ \A q \in in.q : answer[q].value # "none"
        /\ answer' = [q \in Question |->
                        IF q \in in.q THEN [answer[q] EXCEPT !.final = TRUE]
                        ELSE answer[q]]
        /\ section' = [section EXCEPT !["internal_test"] =
              Saved(was.section["internal_test"].has, 0,
                    IsComplete("internal_test",
                               was.section["internal_test"].has,
                               was.answer, was.document))]
        /\ UNCHANGED <<locked, document, active, file, given>>
        /\ NoteRace(r) /\ Reply(r)

\* storage.put comes before the row.
StoreFile(r) ==
    /\ req[r].op = "upload"
    /\ file' = file \cup {req[r].input.doc}
    /\ req' = [req EXCEPT ![r].op = "stored"]
    /\ UNCHANGED <<form, active, given, raced>>

\* (mutated: the flag of the manifest only)
RefreshedManifest(rows, docs) ==
    [k \in Section |->
       IF k = "documents_manifest" /\ rows.section[k].saved
       THEN [rows.section[k] EXCEPT !.complete =
               IsComplete(k, rows.section[k].has, rows.answer, docs)]
       ELSE section[k]]

\* recompute_social_section, recompute_documents_manifest_section.
Refreshed(rows, docs) ==
    [k \in Section |->
       IF /\ k \in {"social_status_cert", "documents_manifest"}
          /\ rows.section[k].saved
       THEN [rows.section[k] EXCEPT !.complete =
               IsComplete(k, rows.section[k].has, rows.answer, docs)]
       ELSE section[k]]

StoredType(in) == in.type

CommitUpload(r) ==
    LET in == req[r].input
        was == req[r].was
    IN  /\ req[r].op = "stored"
        /\ document' = [document EXCEPT ![in.doc] = StoredType(in)]
        /\ \A k \in Section : k \in {"social_status_cert", "documents_manifest"}
             => SameRows(r, k)
        /\ section' = Refreshed(was, [was.document EXCEPT ![in.doc] = in.type])
        /\ UNCHANGED <<locked, answer, active, file, given>>
        /\ NoteRace(r) /\ Reply(r)

\* reset_application_sections deletes the rows it has loaded, not the files.
Erased(r) ==
    LET was == req[r].was
    IN  /\ section' = [k \in Section |->
              IF was.section[k].saved THEN NoRow ELSE section[k]]
        /\ answer' = [q \in Question |->
              IF was.answer[q].value # "none" THEN NoAnswer ELSE answer[q]]
        /\ document' = [d \in DocId |->
              IF was.document[d] # "none" THEN "none" ELSE document[d]]

CommitReset(r) ==
    /\ req[r].op = "reset"
    /\ Erased(r)
    /\ UNCHANGED <<locked, active, file, given>>
    /\ NoteRace(r) /\ Reply(r)

\* submit_application, which writes the flags it has computed.
CommitSubmit(r) ==
    LET was == req[r].was
    IN  /\ req[r].op = "submit"
        /\ \A k \in RequiredSection \cap Recomputed : SameRows(r, k)
        /\ locked' = TRUE
        /\ section' = [k \in Section |->
              IF k \in RequiredSection \cap Recomputed
              THEN [section[k] EXCEPT !.complete =
                      IF was.section[k].complete THEN @ ELSE TRUE]
              ELSE section[k]]
        /\ UNCHANGED <<answer, document, active, file, given>>
        /\ NoteRace(r) /\ Reply(r)

\* The request fails or dies, and is rolled back; its file stays.
Drop(r) ==
    /\ req[r].op # "idle"
    /\ UNCHANGED <<form, active, file, given, raced>>
    /\ Reply(r)

\* revision_required, or reopen_application_for_resubmit.
GiveBack ==
    /\ locked
    /\ given < MaxGiven
    /\ given' = given + 1
    /\ locked' = FALSE
    /\ UNCHANGED <<section, answer, document, active, file, req, raced>>

\* seed_questions: other questions are active from now on.
SeedQuestions ==
    /\ active # New
    /\ active' = New
    /\ raced' = (raced \/ \E r \in Request : req[r].op # "idle")
    /\ UNCHANGED <<form, file, req, given>>

Ask(r) ==
    \/ \E k \in Section : \E has \in Payload[k], d \in DocId \cup {0} :
          AskSave(r, k, has, d)
    \/ \E qs \in SUBSET Question \ {{}}, value \in Value,
          has \in Payload["internal_test"] : AskAnswer(r, qs, value, has)
    \/ AskFinalize(r)
    \/ \E d \in DocId, type \in Type : AskUpload(r, d, type)
    \/ AskReset(r)
    \/ AskSubmit(r)

Commit(r) ==
    \/ CommitSave(r) \/ CommitAnswer(r) \/ CommitFinalize(r)
    \/ StoreFile(r) \/ CommitUpload(r) \/ CommitReset(r) \/ CommitSubmit(r)

Next ==
    \/ \E r \in Request : Ask(r) \/ Commit(r) \/ Drop(r)
    \/ GiveBack
    \/ SeedQuestions

Spec == Init /\ [][Next]_vars

----------------------------------------------------------------------------
(* Who submits has every required section complete by its rules, whatever   *)
(* the stored flags say, and has answered every question that is asked by   *)
(* then, but for as many as there are answers to questions no longer asked, *)
(* which are counted too (completion_percentage, _internal_test_complete).  *)
(* Not so if another request commits while the submission is under way.     *)
SubmitsComplete ==
    [][locked' /\ ~locked /\ ~raced' =>
         /\ \A k \in RequiredSection :
               section[k].saved /\ Complete[k] \subseteq section[k].has
         /\ Cardinality({q \in active : answer[q].value = "none"})
              <= Cardinality({q \in Question \ active :
                                answer[q].value # "none"})]_vars

(* After the submission nothing of the form changes, but by a request that  *)
(* began before it (_ensure_editable, in every handler); and at any time an *)
(* answer that was submitted for good is not changed, only erased by a      *)
(* reset of the form, unless two requests overlap (save_draft_answers).     *)
LateWrite(r) ==
    req[r].op # "idle" /\ ~req[r].was.locked /\ req'[r].op = "idle"

SubmittedStands ==
    [][/\ locked => \/ UNCHANGED <<section, answer, document>>
                    \/ \E r \in Request : LateWrite(r)
       /\ \A q \in Question :
             answer[q].final /\ ~raced' => answer'[q] \in {answer[q], NoAnswer}]_vars

(* The document that a section names is there, with the type the section    *)
(* needs, also after resets, unless two requests overlap                    *)
(* (_validate_optional_motivation_growth_doc, reset_application_sections).  *)
ReferencesExist ==
    ~raced => \A k \in Section \cap DOMAIN DocumentType :
        section[k].doc # 0 => document[section[k].doc] = DocumentType[k]

(* Every document has its file, whenever the upload dies, whatever overlaps *)
(* (upload_document). The converse is not so: a rollback and a reset leave  *)
(* files without a document.                                                *)
DocumentsHaveFiles == \A d \in DocId : document[d] # "none" => d \in file

(* The flag of a section says what its rules say now: also when a document  *)
(* arrives after the section was saved (recompute_social_section), unless   *)
(* two requests overlap. The test's is behind new answers and questions.    *)
FlagsFollow ==
    ~raced => \A k \in Section \ {"internal_test"} :
        section[k].saved =>
            section[k].complete = IsComplete(k, section[k].has, answer, document)

(* What the form stores holds together: documents have their files,         *)
(* sections name documents that are there, and flags say what their rules   *)
(* say (upload_document, validate_*, recompute_social_section).             *)
FormOK == TypeOK /\ ReferencesExist /\ DocumentsHaveFiles /\ FlagsFollow

=============================================================================
