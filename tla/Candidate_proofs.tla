--------------------------- MODULE Candidate_proofs ---------------------------
(***************************************************************************)
(* Proofs about the candidate's side: the form that is filled in           *)
(* (ApplicationForm) and the activity that shows in it (Engagement). The   *)
(* two share no state and no argument.                                     *)
(***************************************************************************)
EXTENDS ApplicationForm, Engagement, FiniteSetTheorems, TLAPS

-----------------------------------------------------------------------------
(* The form, for any sections, payloads, questions and documents, and any  *)
(* number of requests. The argument is about what a request has loaded:    *)
(* what it writes is good if the rows are still what they were, and        *)
(* "raced" records that they are not.                                      *)

Answer == [value : Value \cup {"none"}, final : BOOLEAN]

RowsType == [locked : BOOLEAN, section : [Section -> SectionRow],
             answer : [Question -> Answer],
             document : [DocId -> Type \cup {"none"}]]

Input == [k : SectionKey, has : SUBSET Fact, doc : DocId \cup {0},
          type : Type \cup {"none"}, q : SUBSET Question,
          value : Value \cup {"none"}]

Op == {"idle", "save", "answer", "finalize", "upload", "stored", "reset",
       "submit"}

FormType ==
    /\ Rows \in RowsType
    /\ active \subseteq Question
    /\ file \subseteq DocId
    /\ req \in [Request -> [op : Op, input : Input, was : RowsType]]
    /\ given \in 0..MaxGiven
    /\ raced \in BOOLEAN

Uploads(r) == req[r].op \in {"upload", "stored"}

\* What a request goes by, until it commits.
Loaded(r) ==
    LET op == req[r].op
        in == req[r].input
        was == req[r].was
    IN  /\ op # "idle" => ~was.locked
        /\ op = "save" =>
              /\ in.k \in Section
              /\ in.doc # 0 => /\ in.k \in DOMAIN DocumentType
                               /\ was.document[in.doc] = DocumentType[in.k]
        /\ op = "answer" => \A q \in in.q : ~was.answer[q].final
        /\ Uploads(r) => in.doc \in DocId /\ document[in.doc] = "none"
        /\ op = "stored" => in.doc \in file
        /\ op = "submit" =>
              \A k \in RequiredSection :
                 /\ was.section[k].saved
                 /\ k \in Recomputed => Complete[k] \subseteq was.section[k].has
                 /\ k \notin Recomputed => was.section[k].complete
        /\ op = "submit" /\ ~raced => TestAnswered(was.answer)

\* No two uploads are of the same document.
OneUpload ==
    \A r, s \in Request :
        r # s /\ Uploads(r) /\ Uploads(s) => req[r].input.doc # req[s].input.doc

\* A section without a row has nothing.
Blank == \A k \in Section : section[k].saved \/ section[k] = NoRow

FormInv ==
    /\ FormType
    /\ \A r \in Request : Loaded(r)
    /\ OneUpload
    /\ Blank
    /\ ReferencesExist
    /\ DocumentsHaveFiles
    /\ FlagsFollow

-----------------------------------------------------------------------------
(* Types.                                                                  *)

LEMMA RowsTyped ==
    Rows \in RowsType <=>
        /\ locked \in BOOLEAN
        /\ section \in [Section -> SectionRow]
        /\ answer \in [Question -> Answer]
        /\ document \in [DocId -> Type \cup {"none"}]
BY DEF Rows, RowsType

LEMMA CompleteIsBoolean ==
    \A k, has, answers, docs : IsComplete(k, has, answers, docs) \in BOOLEAN
BY DEF IsComplete

LEMMA BlankTypes == NoRow \in SectionRow /\ NoAnswer \in Answer /\ NoInput \in Input
BY FormAssumption DEF NoRow, NoAnswer, NoInput, SectionRow, Answer, Input,
   SectionKey

LEMMA IdleTyped == IdleRequest \in [op : Op, input : Input, was : RowsType]
BY BlankTypes DEF IdleRequest, Op, RowsType

LEMMA SavedTyped ==
    ASSUME NEW has \in SUBSET Fact, NEW d \in DocId \cup {0}, NEW c \in BOOLEAN
    PROVE  Saved(has, d, c) \in SectionRow
BY DEF Saved, SectionRow

\* A request that begins.
LEMMA LoadTyped ==
    ASSUME FormType, NEW r \in Request, NEW op \in Op, NEW input \in Input,
           Load(r, op, input)
    PROVE  FormType'
<1>1. [op |-> op, was |-> Rows, input |-> input]
         \in [op : Op, input : Input, was : RowsType]
  BY DEF FormType
<1>2. req' \in [Request -> [op : Op, input : Input, was : RowsType]]
  BY <1>1 DEF FormType, Load
<1>3. Rows' = Rows
  BY DEF Load, form, Rows
<1> QED BY <1>2, <1>3 DEF FormType, Load

LEMMA PayloadTyped ==
    ASSUME NEW k \in Section, NEW has \in Payload[k]
    PROVE  k \in SectionKey /\ has \in SUBSET Fact
BY FormAssumption

\* What each request asks for.
LEMMA AskLoads ==
    ASSUME FormType, NEW r \in Request, Ask(r)
    PROVE  \E op \in Op, input \in Input :
              /\ Load(r, op, input)
              /\ op \notin {"idle", "stored"}
              /\ op = "save" => input.k \in Section /\ Acceptable(input.k, input.doc)
              /\ op = "answer" => \A q \in input.q : ~answer[q].final
              /\ op = "upload" =>
                    /\ input.doc \in DocId \ file
                    /\ \A s \in Request :
                          req[s].op = "upload" => req[s].input.doc # input.doc
              /\ op = "submit" => Missing(Rows) = {}
<1>0. "internal_test" \in SectionKey /\ NoInput \in Input
  BY BlankTypes DEF SectionKey
<1>1. ASSUME NEW k \in Section, NEW has \in Payload[k], NEW d \in DocId \cup {0},
             AskSave(r, k, has, d)
      PROVE  [NoInput EXCEPT !.k = k, !.has = has, !.doc = d] \in Input
  BY <1>0, PayloadTyped DEF Input
<1>2. ASSUME NEW qs \in SUBSET Question, NEW value \in Value,
             NEW has \in Payload["internal_test"]
      PROVE  [NoInput EXCEPT !.k = "internal_test", !.q = qs, !.value = value,
                             !.has = has] \in Input
  BY <1>0, PayloadTyped, FormAssumption DEF Input
<1>3. [NoInput EXCEPT !.k = "internal_test", !.q = active] \in Input
  BY <1>0 DEF Input, FormType
<1>4. ASSUME NEW d \in DocId, NEW type \in Type
      PROVE  [NoInput EXCEPT !.doc = d, !.type = type] \in Input
  BY <1>0 DEF Input
<1>5. ASSUME NEW k \in Section, NEW has \in Payload[k], NEW d \in DocId \cup {0},
             AskSave(r, k, has, d)
      PROVE  \E input \in Input : /\ Load(r, "save", input)
                                  /\ input.k \in Section
                                  /\ Acceptable(input.k, input.doc)
  <2> DEFINE input == [NoInput EXCEPT !.k = k, !.has = has, !.doc = d]
  <2>1. input.k = k /\ input.doc = d
    BY <1>0 DEF Input
  <2>2. Load(r, "save", input) /\ Acceptable(k, d)
    BY <1>5 DEF AskSave
  <2>3. input \in Input
    BY <1>1, <1>5
  <2> HIDE DEF input
  <2> QED BY <2>1, <2>2, <2>3
<1>6. ASSUME NEW qs \in SUBSET Question, NEW value \in Value,
             NEW has \in Payload["internal_test"], AskAnswer(r, qs, value, has)
      PROVE  \E input \in Input : /\ Load(r, "answer", input)
                                  /\ \A q \in input.q : ~answer[q].final
  <2> DEFINE input == [NoInput EXCEPT !.k = "internal_test", !.q = qs,
                                      !.value = value, !.has = has]
  <2>1. input.q = qs
    BY <1>0 DEF Input
  <2>2. Load(r, "answer", input) /\ \A q \in qs : ~answer[q].final
    BY <1>6 DEF AskAnswer
  <2>3. input \in Input
    BY <1>2
  <2> HIDE DEF input
  <2> QED BY <2>1, <2>2, <2>3
<1>7. ASSUME NEW d \in DocId, NEW type \in Type, AskUpload(r, d, type)
      PROVE  \E input \in Input :
                /\ Load(r, "upload", input)
                /\ input.doc \in DocId \ file
                /\ \A s \in Request :
                      req[s].op = "upload" => req[s].input.doc # input.doc
  <2> DEFINE input == [NoInput EXCEPT !.doc = d, !.type = type]
  <2>1. input.doc = d
    BY <1>0 DEF Input
  <2>2. /\ Load(r, "upload", input) /\ d \notin file
        /\ \A s \in Request : req[s].op = "upload" => req[s].input.doc # d
    BY <1>7 DEF AskUpload
  <2>3. input \in Input
    BY <1>4
  <2> HIDE DEF input
  <2> QED BY <2>1, <2>2, <2>3
<1>8. {"save", "answer", "finalize", "upload", "reset", "submit"} \subseteq Op
  BY DEF Op
<1>9. CASE AskFinalize(r)
  BY <1>3, <1>8, <1>9 DEF AskFinalize
<1>10. CASE AskReset(r) \/ AskSubmit(r)
  BY <1>0, <1>8, <1>10 DEF AskReset, AskSubmit
<1>11. CASE \E k \in Section : \E has \in Payload[k], d \in DocId \cup {0} :
               AskSave(r, k, has, d)
  BY <1>5, <1>8, <1>11
<1>12. CASE \E qs \in SUBSET Question \ {{}}, value \in Value,
              has \in Payload["internal_test"] : AskAnswer(r, qs, value, has)
  BY <1>6, <1>8, <1>12
<1>13. CASE \E d \in DocId, type \in Type : AskUpload(r, d, type)
  BY <1>7, <1>8, <1>13
<1> QED BY <1>9, <1>10, <1>11, <1>12, <1>13 DEF Ask

-----------------------------------------------------------------------------
(* The steps, and what they have in common.                                *)

\* The commits that end a request.
Ends(r) == CommitSave(r) \/ CommitAnswer(r) \/ CommitFinalize(r)
           \/ CommitUpload(r) \/ CommitReset(r) \/ CommitSubmit(r)

LEMMA StepCases ==
    ASSUME [Next]_vars
    PROVE  \/ \E r \in Request : \/ Ask(r) \/ StoreFile(r) \/ Ends(r) \/ Drop(r)
           \/ GiveBack \/ SeedQuestions \/ UNCHANGED vars
BY DEF Next, Commit, Ends

\* A request that ends leaves the others and the files as they are.
LEMMA EndFrame ==
    ASSUME FormType, NEW r \in Request, Ends(r)
    PROVE  /\ req[r].op # "idle"
           /\ req' = [req EXCEPT ![r] = IdleRequest]
           /\ UNCHANGED <<active, file, given>>
           /\ raced' = (raced \/ Rows # req[r].was)
BY DEF Ends, CommitSave, CommitAnswer, CommitFinalize, CommitUpload,
   CommitReset, CommitSubmit, Reply, NoteRace

\* As long as no two have overlapped, what it loaded is what is there.
LEMMA NoRaceYet ==
    ASSUME FormType, NEW r \in Request, Ends(r), ~raced'
    PROVE  /\ ~raced
           /\ locked = req[r].was.locked
           /\ section = req[r].was.section
           /\ answer = req[r].was.answer
           /\ document = req[r].was.document
<1>1. ~raced /\ Rows = req[r].was
  BY EndFrame DEF FormType
<1> QED BY <1>1 DEF Rows

LEMMA RequestTyped ==
    ASSUME FormType, NEW r \in Request
    PROVE  /\ req[r].op \in Op
           /\ req[r].input \in Input
           /\ req[r].was \in RowsType
BY DEF FormType

\* The rows, one table at a time.
LEMMA SectionTyped ==
    ASSUME FormInv, NEW r \in Request, Ends(r)
    PROVE  section' \in [Section -> SectionRow]
<1> DEFINE in == req[r].input
           was == req[r].was
<1>0. /\ section \in [Section -> SectionRow]
      /\ in \in Input /\ was \in RowsType
      /\ "internal_test" \in Section
  BY RowsTyped, RequestTyped, FormAssumption DEF FormInv, FormType
<1>1. /\ in.has \in SUBSET Fact /\ in.doc \in DocId \cup {0} /\ 0 \in DocId \cup {0}
      /\ was.section \in [Section -> SectionRow]
  BY <1>0 DEF Input, RowsType
<1>2. \A row \in SectionRow, c \in BOOLEAN : [row EXCEPT !.complete = c] \in SectionRow
  BY DEF SectionRow
<1>3. was.section["internal_test"].has \in SUBSET Fact
  BY <1>0, <1>1 DEF SectionRow
<1> HIDE DEF in, was
<1>4. CASE CommitSave(r)
  BY <1>0, <1>1, <1>4, SavedTyped, CompleteIsBoolean DEF CommitSave, in, was
<1>5. CASE CommitAnswer(r)
  <2>1. section' = [section EXCEPT !["internal_test"] =
              Saved(in.has, 0, IsComplete("internal_test", in.has,
                                          was.answer, was.document))]
    BY <1>5 DEF CommitAnswer, in, was
  <2> QED BY <1>0, <1>1, <2>1, SavedTyped, CompleteIsBoolean
<1>6. CASE CommitFinalize(r)
  <2>1. section' = [section EXCEPT !["internal_test"] =
              Saved(was.section["internal_test"].has, 0,
                    IsComplete("internal_test",
                               was.section["internal_test"].has,
                               was.answer, was.document))]
    BY <1>6 DEF CommitFinalize, was
  <2> QED BY <1>0, <1>1, <1>3, <2>1, SavedTyped, CompleteIsBoolean
<1>7. CASE CommitUpload(r)
  <2>1. section' = Refreshed(was, [was.document EXCEPT ![in.doc] = in.type])
    BY <1>7 DEF CommitUpload, in, was
  <2> QED BY <1>0, <1>1, <1>2, <2>1, CompleteIsBoolean DEF Refreshed
<1>8. CASE CommitReset(r)
  BY <1>0, <1>8, BlankTypes DEF CommitReset, Erased
<1>9. CASE CommitSubmit(r)
  <2>1. \A k \in Section : section[k].complete \in BOOLEAN
    BY <1>0 DEF SectionRow
  <2> QED BY <1>0, <1>2, <1>9, <2>1 DEF CommitSubmit
<1> QED BY <1>4, <1>5, <1>6, <1>7, <1>8, <1>9 DEF Ends

LEMMA AnswerTyped ==
    ASSUME FormInv, NEW r \in Request, Ends(r)
    PROVE  answer' \in [Question -> Answer]
<1> DEFINE in == req[r].input
           was == req[r].was
<1>0. /\ answer \in [Question -> Answer]
      /\ in.value \in Value \cup {"none"}
  BY RowsTyped, RequestTyped DEF FormInv, FormType, Input
<1>1. \A row \in Answer, v \in Value \cup {"none"} :
         /\ [row EXCEPT !.value = v] \in Answer
         /\ [row EXCEPT !.final = TRUE] \in Answer
  BY DEF Answer
<1> HIDE DEF in, was
<1>2. CASE CommitAnswer(r)
  <2>1. answer' = [q \in Question |->
                      IF q \in in.q THEN [answer[q] EXCEPT !.value = in.value]
                      ELSE answer[q]]
    BY <1>2 DEF CommitAnswer, in
  <2> QED BY <1>0, <1>1, <2>1
<1>3. CASE CommitFinalize(r)
  <2>1. answer' = [q \in Question |->
                      IF q \in in.q THEN [answer[q] EXCEPT !.final = TRUE]
                      ELSE answer[q]]
    BY <1>3 DEF CommitFinalize, in
  <2> QED BY <1>0, <1>1, <2>1
<1>4. CASE CommitReset(r)
  BY <1>0, <1>4, BlankTypes DEF CommitReset, Erased
<1>5. CASE CommitSave(r) \/ CommitUpload(r) \/ CommitSubmit(r)
  BY <1>0, <1>5 DEF CommitSave, CommitUpload, CommitSubmit
<1> QED BY <1>2, <1>3, <1>4, <1>5 DEF Ends

LEMMA DocumentTyped ==
    ASSUME FormInv, NEW r \in Request, Ends(r)
    PROVE  document' \in [DocId -> Type \cup {"none"}]
<1>0. /\ document \in [DocId -> Type \cup {"none"}]
      /\ req[r].input.type \in Type \cup {"none"}
  BY RowsTyped, RequestTyped DEF FormInv, FormType, Input
<1>1. CASE CommitUpload(r)
  BY <1>0, <1>1 DEF CommitUpload, StoredType
<1>2. CASE CommitReset(r)
  BY <1>0, <1>2 DEF CommitReset, Erased
<1>3. CASE CommitSave(r) \/ CommitAnswer(r) \/ CommitFinalize(r) \/ CommitSubmit(r)
  BY <1>0, <1>3 DEF CommitSave, CommitAnswer, CommitFinalize, CommitSubmit
<1> QED BY <1>1, <1>2, <1>3 DEF Ends

LEMMA TypeStep ==
    ASSUME FormInv, [Next]_vars
    PROVE  FormType'
<1>0. FormType
  BY DEF FormInv
<1>1. ASSUME NEW r \in Request, Ask(r)
      PROVE  FormType'
  <2>1. PICK op \in Op, input \in Input : Load(r, op, input)
    BY <1>0, <1>1, AskLoads
  <2> QED BY <1>0, <2>1, LoadTyped
<1>2. ASSUME NEW r \in Request, Ends(r)
      PROVE  FormType'
  <2>1. locked' \in BOOLEAN
    BY <1>0, <1>2, RowsTyped DEF FormType, Ends, CommitSave, CommitAnswer,
       CommitFinalize, CommitUpload, CommitReset, CommitSubmit
  <2>2. Rows' \in RowsType
    BY <1>2, <2>1, SectionTyped, AnswerTyped, DocumentTyped DEF Rows, RowsType
  <2>3. req' \in [Request -> [op : Op, input : Input, was : RowsType]]
    BY <1>0, <1>2, EndFrame, IdleTyped DEF FormType
  <2> QED BY <1>0, <1>2, <2>2, <2>3, EndFrame DEF FormType
<1>3. ASSUME NEW r \in Request, StoreFile(r) \/ Drop(r)
      PROVE  FormType'
  <2>1. Rows' = Rows /\ UNCHANGED <<active, given, raced>>
    BY <1>3 DEF StoreFile, Drop, Rows, form
  <2>2. CASE Drop(r)
    <3>1. req' \in [Request -> [op : Op, input : Input, was : RowsType]]
      BY <1>0, <2>2, IdleTyped DEF FormType, Drop, Reply
    <3> QED BY <1>0, <2>1, <2>2, <3>1 DEF FormType, Drop
  <2>3. CASE StoreFile(r)
    <3>1. [req[r] EXCEPT !.op = "stored"]
             \in [op : Op, input : Input, was : RowsType]
      BY <1>0 DEF FormType, Op
    <3>2. req' \in [Request -> [op : Op, input : Input, was : RowsType]]
      BY <1>0, <2>3, <3>1 DEF FormType, StoreFile
    <3>3. req[r].input.doc \in DocId
      BY <2>3 DEF FormInv, Loaded, StoreFile, Uploads
    <3> QED BY <1>0, <2>1, <2>3, <3>2, <3>3 DEF FormType, StoreFile
  <2> QED BY <1>3, <2>2, <2>3
<1>4. CASE GiveBack
  <2>1. Rows' \in RowsType
    BY <1>0, <1>4, RowsTyped DEF FormType, GiveBack, Rows, RowsType
  <2>2. given' \in 0..MaxGiven
    BY <1>0, <1>4, FormAssumption DEF FormType, GiveBack
  <2> QED BY <1>0, <1>4, <2>1, <2>2 DEF FormType, GiveBack
<1>5. CASE SeedQuestions
  <2>1. Rows' = Rows
    BY <1>5 DEF SeedQuestions, Rows, form
  <2> QED BY <1>0, <1>5, <2>1, FormAssumption DEF FormType, SeedQuestions
<1>6. CASE UNCHANGED vars
  <2>1. Rows' = Rows
    BY <1>6 DEF vars, Rows, form
  <2> QED BY <1>0, <1>6, <2>1 DEF FormType, vars
<1> QED BY <1>1, <1>2, <1>3, <1>4, <1>5, <1>6, StepCases

-----------------------------------------------------------------------------
(* What requests have loaded.                                              *)

LEMMA LoadedKept ==
    ASSUME NEW s \in Request, Loaded(s), req'[s] = req[s], file \subseteq file',
           Uploads(s) => document'[req[s].input.doc] = "none",
           req[s].op = "submit" /\ ~raced' => ~raced /\ active' = active
    PROVE  Loaded(s)'
<1> DEFINE op == req[s].op
           in == req[s].input
           was == req[s].was
<1>1. /\ op # "idle" => ~was.locked
      /\ op = "save" =>
            /\ in.k \in Section
            /\ in.doc # 0 => /\ in.k \in DOMAIN DocumentType
                             /\ was.document[in.doc] = DocumentType[in.k]
      /\ op = "answer" => \A q \in in.q : ~was.answer[q].final
      /\ Uploads(s) => in.doc \in DocId /\ document'[in.doc] = "none"
      /\ op = "stored" => in.doc \in file'
      /\ op = "submit" =>
            \A k \in RequiredSection :
               /\ was.section[k].saved
               /\ k \in Recomputed => Complete[k] \subseteq was.section[k].has
               /\ k \notin Recomputed => was.section[k].complete
  BY DEF Loaded
<1>2. op = "submit" /\ ~raced' => TestAnswered(was.answer)'
  BY DEF Loaded, TestAnswered
<1>3. Uploads(s)' <=> Uploads(s)
  BY DEF Uploads
<1> QED BY <1>1, <1>2, <1>3 DEF Loaded

\* A submission goes on only if every required section is complete.
LEMMA NothingMissing ==
    ASSUME FormType, Missing(Rows) = {}
    PROVE  /\ \A k \in RequiredSection :
                 /\ section[k].saved
                 /\ k \in Recomputed => Complete[k] \subseteq section[k].has
                 /\ k \notin Recomputed => section[k].complete
           /\ TestAnswered(answer)
<1>0. /\ Rows.section = section /\ Rows.answer = answer
      /\ Rows.document = document
      /\ "internal_test" \in RequiredSection \cap Recomputed
  BY FormAssumption DEF Rows, RequiredSection, Recomputed
<1>1. \A k \in RequiredSection :
         /\ section[k].saved
         /\ k \in Recomputed => IsComplete(k, section[k].has, answer, document)
         /\ k \notin Recomputed => section[k].complete
  BY <1>0 DEF Missing
<1>2. ASSUME NEW k \in RequiredSection \cap Recomputed
      PROVE  Complete[k] \subseteq section[k].has
  BY <1>1 DEF IsComplete
<1>3. TestAnswered(answer)
  BY <1>0, <1>1 DEF IsComplete
<1> QED BY <1>1, <1>2, <1>3

LEMMA LoadedBegun ==
    ASSUME FormInv, NEW r \in Request, Ask(r)
    PROVE  Loaded(r)'
<1>0. FormType
  BY DEF FormInv
<1>1. PICK op \in Op, input \in Input :
         /\ Load(r, op, input)
         /\ op \notin {"idle", "stored"}
         /\ op = "save" => input.k \in Section /\ Acceptable(input.k, input.doc)
         /\ op = "answer" => \A q \in input.q : ~answer[q].final
         /\ op = "upload" => input.doc \in DocId \ file
         /\ op = "submit" => Missing(Rows) = {}
  BY <1>0, AskLoads
<1>2. /\ req'[r] = [op |-> op, was |-> Rows, input |-> input]
      /\ UNCHANGED <<document, file, raced, active>> /\ ~locked
  BY <1>0, <1>1 DEF Load, FormType, form, Editable
<1>3. /\ req'[r].op = op /\ req'[r].input = input /\ req'[r].was = Rows
  BY <1>2
<1>4. /\ Rows.locked = locked /\ Rows.section = section
      /\ Rows.answer = answer /\ Rows.document = document
  BY DEF Rows
<1>5. Uploads(r)' => input.doc \in DocId /\ document'[input.doc] = "none"
  BY <1>1, <1>2, <1>3 DEF Uploads, FormInv, DocumentsHaveFiles
<1>7. op = "submit" => /\ \A k \in RequiredSection :
                            /\ section[k].saved
                            /\ k \in Recomputed => Complete[k] \subseteq section[k].has
                            /\ k \notin Recomputed => section[k].complete
                       /\ TestAnswered(answer)
  BY <1>0, <1>1, NothingMissing
<1>8. op = "save" /\ input.doc # 0 =>
         /\ input.k \in DOMAIN DocumentType
         /\ document[input.doc] = DocumentType[input.k]
  BY <1>1 DEF Acceptable
<1>9. (req'[r].op = "submit") => TestAnswered(req[r].was.answer)'
  <2>1. req'[r].was.answer = answer
    BY <1>3, <1>4
  <2> QED BY <1>2, <1>3, <1>7, <2>1 DEF TestAnswered
<1> QED BY <1>1, <1>2, <1>3, <1>4, <1>5, <1>7, <1>8, <1>9 DEF Loaded

\* No commit gives a document to an upload that is under way.
LEMMA UploadWaits ==
    ASSUME FormInv, NEW r \in Request, Ends(r), NEW s \in Request \ {r},
           Uploads(s)
    PROVE  document'[req[s].input.doc] = "none"
<1> DEFINE d == req[s].input.doc
<1>0. /\ document \in [DocId -> Type \cup {"none"}]
      /\ d \in DocId /\ document[d] = "none"
  BY RowsTyped DEF FormInv, FormType, Loaded
<1>1. CASE CommitUpload(r)
  <2>1. req[r].input.doc # d
    BY <1>1 DEF FormInv, OneUpload, Uploads, CommitUpload
  <2> QED BY <1>0, <1>1, <2>1 DEF CommitUpload
<1>2. CASE CommitReset(r)
  BY <1>0, <1>2 DEF CommitReset, Erased
<1>3. CASE ~CommitUpload(r) /\ ~CommitReset(r)
  BY <1>0, <1>3 DEF Ends, CommitSave, CommitAnswer, CommitFinalize, CommitSubmit
<1> QED BY <1>1, <1>2, <1>3

LEMMA IdleLoaded ==
    ASSUME NEW s \in Request, req'[s] = IdleRequest
    PROVE  Loaded(s)'
<1>1. req'[s].op = "idle"
  BY DEF IdleRequest
<1> QED BY <1>1 DEF Loaded, Uploads

LEMMA LoadedStep ==
    ASSUME FormInv, [Next]_vars
    PROVE  \A s \in Request : Loaded(s)'
<1>0. FormType /\ \A s \in Request : Loaded(s)
  BY DEF FormInv
<1> SUFFICES ASSUME NEW s \in Request PROVE Loaded(s)'
  OBVIOUS
<1>1. Uploads(s) => document[req[s].input.doc] = "none"
  BY <1>0 DEF Loaded
<1>2. ASSUME NEW r \in Request, Ask(r)
      PROVE  Loaded(s)'
  <2>1. PICK op \in Op, input \in Input : Load(r, op, input)
    BY <1>0, <1>2, AskLoads
  <2>2. s # r => req'[s] = req[s]
    BY <1>0, <2>1 DEF Load, FormType
  <2>3. UNCHANGED <<document, file, raced, active>>
    BY <2>1 DEF Load, form
  <2> QED BY <1>0, <1>1, <1>2, <2>2, <2>3, LoadedBegun, LoadedKept
<1>3. ASSUME NEW r \in Request, Ends(r)
      PROVE  Loaded(s)'
  <2>1. req' = [req EXCEPT ![r] = IdleRequest] /\ UNCHANGED <<active, file>>
    BY <1>0, <1>3, EndFrame
  <2>2. CASE s = r
    BY <1>0, <2>1, <2>2, IdleLoaded DEF FormType
  <2>3. CASE s # r
    <3>1. req'[s] = req[s]
      BY <1>0, <2>1, <2>3 DEF FormType
    <3>2. ~raced' => ~raced
      BY <1>0, <1>3, NoRaceYet
    <3>3. Uploads(s) => document'[req[s].input.doc] = "none"
      BY <1>3, <2>3, UploadWaits
    <3> QED BY <1>0, <2>1, <3>1, <3>2, <3>3, LoadedKept
  <2> QED BY <2>2, <2>3
<1>4. ASSUME NEW r \in Request, Drop(r)
      PROVE  Loaded(s)'
  <2>1. /\ req' = [req EXCEPT ![r] = IdleRequest]
        /\ UNCHANGED <<document, file, raced, active>>
    BY <1>4 DEF Drop, Reply, form
  <2>2. CASE s = r
    BY <1>0, <2>1, <2>2, IdleLoaded DEF FormType
  <2>3. CASE s # r
    <3>1. req'[s] = req[s]
      BY <1>0, <2>1, <2>3 DEF FormType
    <3> QED BY <1>0, <1>1, <2>1, <3>1, LoadedKept
  <2> QED BY <2>2, <2>3
<1>5. ASSUME NEW r \in Request, StoreFile(r)
      PROVE  Loaded(s)'
  <2>1. /\ req' = [req EXCEPT ![r].op = "stored"] /\ req[r].op = "upload"
        /\ file' = file \cup {req[r].input.doc}
        /\ UNCHANGED <<document, raced, active>>
    BY <1>5 DEF StoreFile, form
  <2>2. CASE s = r
    <3>1. req'[r].op = "stored" /\ req'[r].input = req[r].input
          /\ req'[r].was = req[r].was
      BY <1>0, <2>1 DEF FormType
    <3>2. /\ ~req[r].was.locked /\ req[r].input.doc \in DocId
          /\ document[req[r].input.doc] = "none"
      BY <1>0, <2>1 DEF Loaded, Uploads
    <3> QED BY <2>1, <2>2, <3>1, <3>2 DEF Loaded
  <2>3. CASE s # r
    <3>1. req'[s] = req[s]
      BY <1>0, <2>1, <2>3 DEF FormType
    <3> QED BY <1>0, <1>1, <2>1, <3>1, LoadedKept
  <2> QED BY <2>2, <2>3
<1>6. CASE GiveBack \/ UNCHANGED vars
  <2>1. UNCHANGED <<req, document, file, raced, active>>
    BY <1>6 DEF GiveBack, vars, form
  <2> QED BY <1>0, <1>1, <2>1, LoadedKept
<1>7. CASE SeedQuestions
  <2>1. /\ UNCHANGED <<req, document, file>>
        /\ req[s].op # "idle" => raced'
    BY <1>7 DEF SeedQuestions, form
  <2> QED BY <1>0, <1>1, <2>1, LoadedKept
<1> QED BY <1>2, <1>3, <1>4, <1>5, <1>6, <1>7, StepCases

-----------------------------------------------------------------------------
(* What the tables hold.                                                   *)

LEMMA UploadStep ==
    ASSUME FormInv, [Next]_vars
    PROVE  OneUpload'
<1>0. FormType /\ OneUpload /\ \A s \in Request : Loaded(s)
  BY DEF FormInv
<1>1. ASSUME NEW r \in Request, Ask(r)
      PROVE  OneUpload'
  <2>1. PICK op \in Op, input \in Input :
           /\ Load(r, op, input)
           /\ op # "stored"
           /\ op = "upload" =>
                 /\ input.doc \in DocId \ file
                 /\ \A s \in Request :
                       req[s].op = "upload" => req[s].input.doc # input.doc
    BY <1>0, <1>1, AskLoads
  <2>2. /\ req'[r].op = op /\ req'[r].input = input
        /\ \A s \in Request \ {r} : req'[s] = req[s]
    BY <1>0, <2>1 DEF Load, FormType
  <2>3. ASSUME NEW s \in Request \ {r}, Uploads(s), op = "upload"
        PROVE  req[s].input.doc # input.doc
    <3>1. CASE req[s].op = "upload"
      BY <2>1, <2>3, <3>1
    <3>2. CASE req[s].op = "stored"
      BY <1>0, <2>1, <2>3, <3>2 DEF Loaded
    <3> QED BY <2>3, <3>1, <3>2 DEF Uploads
  <2> QED BY <1>0, <2>1, <2>2, <2>3 DEF OneUpload, Uploads
<1>2. ASSUME NEW r \in Request, StoreFile(r)
      PROVE  OneUpload'
  <2>1. /\ \A s \in Request : req'[s].input = req[s].input
        /\ \A s \in Request : Uploads(s)' => Uploads(s)
    BY <1>0, <1>2 DEF StoreFile, FormType, Uploads
  <2> QED BY <1>0, <2>1 DEF OneUpload
<1>3. ASSUME NEW r \in Request, req' = [req EXCEPT ![r] = IdleRequest]
      PROVE  OneUpload'
  <2>1. /\ req'[r].op = "idle"
        /\ \A s \in Request \ {r} : req'[s] = req[s]
    BY <1>0, <1>3 DEF FormType, IdleRequest
  <2> QED BY <1>0, <2>1 DEF OneUpload, Uploads
<1>4. CASE req' = req
  BY <1>0, <1>4 DEF OneUpload, Uploads
<1> QED BY <1>0, <1>1, <1>2, <1>3, <1>4, StepCases, EndFrame
        DEF Drop, Reply, GiveBack, SeedQuestions, vars

LEMMA FilesStep ==
    ASSUME FormInv, [Next]_vars
    PROVE  DocumentsHaveFiles'
<1>0. /\ FormType /\ DocumentsHaveFiles /\ \A s \in Request : Loaded(s)
      /\ document \in [DocId -> Type \cup {"none"}]
  BY RowsTyped DEF FormInv, FormType
<1>1. CASE document' = document /\ file \subseteq file'
  BY <1>0, <1>1 DEF DocumentsHaveFiles
<1>2. ASSUME NEW r \in Request, Ends(r)
      PROVE  DocumentsHaveFiles'
  <2>1. file' = file
    BY <1>0, <1>2, EndFrame
  <2>2. CASE CommitUpload(r)
    <3>1. req[r].input.doc \in file
      BY <1>0, <2>2 DEF Loaded, CommitUpload
    <3> QED BY <1>0, <2>1, <2>2, <3>1 DEF CommitUpload, DocumentsHaveFiles
  <2>3. CASE CommitReset(r)
    BY <1>0, <2>1, <2>3 DEF CommitReset, Erased, DocumentsHaveFiles
  <2>4. CASE ~CommitUpload(r) /\ ~CommitReset(r)
    BY <1>1, <1>2, <2>1, <2>4 DEF Ends, CommitSave, CommitAnswer,
       CommitFinalize, CommitSubmit
  <2> QED BY <2>2, <2>3, <2>4
<1>3. ASSUME NEW r \in Request, Ask(r)
      PROVE  DocumentsHaveFiles'
  BY <1>0, <1>1, <1>3, AskLoads DEF Load, form
<1> QED BY <1>1, <1>2, <1>3, StepCases
        DEF StoreFile, Drop, GiveBack, SeedQuestions, vars, form

\* The sections that a submission looks at again have rows.
LEMMA SubmittedRows ==
    ASSUME FormInv, NEW r \in Request, CommitSubmit(r),
           NEW k \in RequiredSection \cap Recomputed
    PROVE  section[k].saved
<1>1. req[r].op = "submit" /\ SameRows(r, k)
  BY DEF CommitSubmit
<1>2. req[r].was.section[k].saved
  BY <1>1 DEF FormInv, Loaded
<1> QED BY <1>1, <1>2 DEF SameRows

LEMMA BlankStep ==
    ASSUME FormInv, [Next]_vars
    PROVE  Blank'
<1>0. /\ FormType /\ Blank
      /\ section \in [Section -> SectionRow]
      /\ "internal_test" \in Section
  BY RowsTyped, FormAssumption DEF FormInv, FormType
<1>1. CASE section' = section
  BY <1>0, <1>1 DEF Blank
<1>2. ASSUME NEW r \in Request, Ends(r)
      PROVE  Blank'
  <2>1. \A has, d, c : Saved(has, d, c).saved
    BY DEF Saved
  <2>2. CASE CommitSave(r)
    BY <1>0, <2>1, <2>2 DEF CommitSave, Blank
  <2>3. CASE CommitAnswer(r)
    <3>1. \E row : row.saved /\ section' = [section EXCEPT !["internal_test"] = row]
      BY <2>1, <2>3 DEF CommitAnswer
    <3> QED BY <1>0, <3>1 DEF Blank
  <2>4. CASE CommitFinalize(r)
    <3>1. \E row : row.saved /\ section' = [section EXCEPT !["internal_test"] = row]
      BY <2>1, <2>4 DEF CommitFinalize
    <3> QED BY <1>0, <3>1 DEF Blank
  <2>5. CASE CommitUpload(r)
    <3>1. \A c : \A row \in SectionRow : [row EXCEPT !.complete = c].saved = row.saved
      BY DEF SectionRow
    <3>2. req[r].was.section \in [Section -> SectionRow]
      BY <1>0, RequestTyped DEF RowsType
    <3> QED BY <1>0, <2>5, <3>1, <3>2 DEF CommitUpload, Refreshed, Blank
  <2>6. CASE CommitReset(r)
    BY <1>0, <2>6 DEF CommitReset, Erased, Blank
  <2>7. CASE CommitSubmit(r)
    <3>1. \A c : \A row \in SectionRow : [row EXCEPT !.complete = c].saved = row.saved
      BY DEF SectionRow
    <3>2. \A k \in Section : section'[k].saved = section[k].saved
      BY <1>0, <2>7, <3>1 DEF CommitSubmit
    <3>3. \A k \in Section : k \notin RequiredSection \cap Recomputed
                                => section'[k] = section[k]
      BY <1>0, <2>7 DEF CommitSubmit
    <3> QED BY <1>0, <2>7, <3>2, <3>3, SubmittedRows DEF Blank
  <2> QED BY <1>2, <2>2, <2>3, <2>4, <2>5, <2>6, <2>7 DEF Ends
<1>3. ASSUME NEW r \in Request, Ask(r)
      PROVE  Blank'
  BY <1>0, <1>1, <1>3, AskLoads DEF Load, form
<1> QED BY <1>1, <1>2, <1>3, StepCases
        DEF StoreFile, Drop, GiveBack, SeedQuestions, vars, form

\* What a section names is there.
Names(k) == section[k].doc # 0 => document[section[k].doc] = DocumentType[k]

LEMMA ReferencesStep ==
    ASSUME FormInv, [Next]_vars
    PROVE  ReferencesExist'
<1>0. /\ FormType /\ Blank /\ \A s \in Request : Loaded(s)
      /\ section \in [Section -> SectionRow]
      /\ document \in [DocId -> Type \cup {"none"}]
      /\ "internal_test" \in Section
      /\ "internal_test" \notin DOMAIN DocumentType
  BY RowsTyped, FormAssumption DEF FormInv, FormType, DocumentType
<1> SUFFICES ASSUME ~raced', NEW k \in Section \cap DOMAIN DocumentType
             PROVE  Names(k)'
  BY DEF ReferencesExist, Names
<1>1. ~raced => Names(k)
  BY DEF FormInv, ReferencesExist, Names
<1>2. CASE UNCHANGED <<section, document>> /\ (raced => raced')
  BY <1>1, <1>2 DEF Names
<1>3. ASSUME NEW r \in Request, Ends(r)
      PROVE  Names(k)'
  <2> DEFINE in == req[r].input
             was == req[r].was
  <2>1. /\ ~raced /\ section = was.section /\ document = was.document
    BY <1>0, <1>3, NoRaceYet
  <2>2. section[k].doc \in DocId \cup {0} /\ was \in RowsType
        /\ in.doc \in DocId \cup {0}
    BY <1>0, RequestTyped DEF SectionRow, Input
  <2>3. CASE CommitSave(r)
    <3>1. /\ in.doc # 0 /\ in.k = k => document[in.doc] = DocumentType[k]
      BY <1>0, <2>1, <2>3 DEF CommitSave, Loaded
    <3>2. document' = document /\ section'[k].doc =
             IF k = in.k THEN in.doc ELSE section[k].doc
      BY <1>0, <2>3 DEF CommitSave, Saved
    <3> QED BY <1>1, <2>1, <3>1, <3>2 DEF Names
  <2>4. CASE CommitAnswer(r) \/ CommitFinalize(r)
    <3>1. document' = document /\ section'[k] = section[k]
      BY <1>0, <2>4 DEF CommitAnswer, CommitFinalize
    <3> QED BY <1>1, <2>1, <3>1 DEF Names
  <2>5. CASE CommitUpload(r)
    <3>1. document[in.doc] = "none" /\ in.doc \in DocId
      BY <1>0, <2>5 DEF Loaded, Uploads, CommitUpload
    <3>2. \A c : \A row \in SectionRow : [row EXCEPT !.complete = c].doc = row.doc
      BY DEF SectionRow
    <3>3. section'[k].doc = section[k].doc
      BY <1>0, <2>1, <2>5, <3>2 DEF CommitUpload, Refreshed
    <3>4. DocumentType[k] # "none"
      BY DEF DocumentType
    <3>5. \A d \in DocId \ {in.doc} : document'[d] = document[d]
      BY <1>0, <2>5 DEF CommitUpload
    <3> HIDE DEF in, was
    <3> QED BY <1>0, <1>1, <2>1, <2>2, <3>1, <3>3, <3>4, <3>5 DEF Names
  <2>6. CASE CommitReset(r)
    <3>1. section'[k] = NoRow
      BY <1>0, <2>1, <2>6 DEF CommitReset, Erased, Blank
    <3> QED BY <3>1 DEF Names, NoRow
  <2>7. CASE CommitSubmit(r)
    <3>1. \A c : \A row \in SectionRow : [row EXCEPT !.complete = c].doc = row.doc
      BY DEF SectionRow
    <3>2. document' = document /\ section'[k].doc = section[k].doc
      BY <1>0, <2>7, <3>1 DEF CommitSubmit
    <3> QED BY <1>1, <2>1, <3>2 DEF Names
  <2> QED BY <1>3, <2>3, <2>4, <2>5, <2>6, <2>7 DEF Ends
<1>4. ASSUME NEW r \in Request, Ask(r)
      PROVE  Names(k)'
  BY <1>0, <1>2, <1>4, AskLoads DEF Load, form
<1>5. CASE SeedQuestions
  BY <1>0, <1>2, <1>5 DEF SeedQuestions, form, FormType
<1>6. ASSUME NEW r \in Request, StoreFile(r) \/ Drop(r)
      PROVE  Names(k)'
  BY <1>0, <1>2, <1>6 DEF StoreFile, Drop, form
<1>7. CASE GiveBack \/ UNCHANGED vars
  BY <1>2, <1>7 DEF GiveBack, vars, form
<1> QED BY <1>3, <1>4, <1>5, <1>6, <1>7, StepCases

-----------------------------------------------------------------------------
(* The flags of the sections.                                              *)

\* What the rules ask of a section other than the test.
Fits(k, has, docs) ==
    /\ Complete[k] \subseteq has
    /\ k = "social_status_cert" => "certificate_of_social_status" \in Types(docs)
    /\ k = "documents_manifest" => ManifestTypes \subseteq Types(docs)

Flagged(k) == section[k].saved => section[k].complete = Fits(k, section[k].has, document)

LEMMA CompleteFits ==
    ASSUME NEW k, k # "internal_test", NEW has, NEW answers, NEW docs
    PROVE  IsComplete(k, has, answers, docs) = Fits(k, has, docs)
BY DEF IsComplete, Fits

LEMMA FlagsFit == FlagsFollow <=>
    (~raced => \A k \in Section \ {"internal_test"} : Flagged(k))
BY CompleteFits DEF FlagsFollow, Flagged

LEMMA FlagsFitNext == FlagsFollow' <=>
    (~raced' => \A k \in Section \ {"internal_test"} : Flagged(k)')
<1>1. \A k \in Section \ {"internal_test"} :
         IsComplete(k, section[k].has, answer, document)'
            = Fits(k, section[k].has, document)'
  BY DEF IsComplete, Fits
<1> QED BY <1>1 DEF FlagsFollow, Flagged

\* Documents matter to two sections only.
LEMMA NeedsNoDocument ==
    ASSUME NEW k, k \notin {"social_status_cert", "documents_manifest"},
           NEW has, NEW docs
    PROVE  Fits(k, has, docs) <=> Complete[k] \subseteq has
BY DEF Fits

LEMMA FlagsStep ==
    ASSUME FormInv, [Next]_vars
    PROVE  FlagsFollow'
<1>0. /\ FormType /\ \A s \in Request : Loaded(s)
      /\ section \in [Section -> SectionRow]
      /\ document \in [DocId -> Type \cup {"none"}]
      /\ "internal_test" \in Section
  BY RowsTyped, FormAssumption DEF FormInv, FormType
<1> SUFFICES ASSUME ~raced', NEW k \in Section \ {"internal_test"}
             PROVE  Flagged(k)'
  BY FlagsFitNext
<1>1. ~raced => Flagged(k)
  BY FlagsFit DEF FormInv
<1>2. CASE UNCHANGED <<section, document>> /\ (raced => raced')
  BY <1>1, <1>2 DEF Flagged
<1>3. ASSUME NEW r \in Request, Ends(r)
      PROVE  Flagged(k)'
  <2> DEFINE in == req[r].input
             was == req[r].was
  <2>1. /\ ~raced /\ section = was.section /\ document = was.document
        /\ answer = was.answer
    BY <1>0, <1>3, NoRaceYet
  <2>2. Flagged(k)
    BY <1>1, <2>1
  <2>3. CASE section'[k] = section[k] /\ document' = document
    BY <2>2, <2>3 DEF Flagged
  <2>4. CASE CommitSave(r)
    <3>1. document' = document /\ (k # in.k => section'[k] = section[k])
      BY <1>0, <2>4 DEF CommitSave
    <3>2. k = in.k => section'[k] = Saved(in.has, in.doc,
                         IsComplete(k, in.has, was.answer, was.document))
      BY <1>0, <2>4 DEF CommitSave
    <3>3. k = in.k => section'[k] = Saved(in.has, in.doc,
                                          Fits(k, in.has, document'))
      BY <2>1, <3>1, <3>2, CompleteFits
    <3>4. ASSUME NEW has, NEW d, NEW c
          PROVE  Saved(has, d, c).has = has /\ Saved(has, d, c).complete = c
      BY DEF Saved
    <3> HIDE DEF in, was
    <3> QED BY <2>3, <3>1, <3>3, <3>4 DEF Flagged
  <2>5. CASE CommitAnswer(r) \/ CommitFinalize(r)
    <3>1. document' = document /\ section'[k] = section[k]
      BY <1>0, <2>5 DEF CommitAnswer, CommitFinalize
    <3> QED BY <2>3, <3>1
  <2>6. CASE CommitUpload(r)
    <3>1. section' = Refreshed(was, [was.document EXCEPT ![in.doc] = in.type])
          /\ document' = [document EXCEPT ![in.doc] = in.type]
      BY <2>6 DEF CommitUpload, StoredType
    <3>2. section' = Refreshed(was, document')
      BY <2>1, <3>1
    <3> HIDE DEF in
    <3>3. ASSUME section[k].saved,
                 k \in {"social_status_cert", "documents_manifest"}
          PROVE  Flagged(k)'
      <4>1. section'[k] = [section[k] EXCEPT !.complete =
                              IsComplete(k, section[k].has, was.answer, document')]
        BY <2>1, <3>2, <3>3 DEF Refreshed
      <4>2. section'[k] = [section[k] EXCEPT !.complete =
                              Fits(k, section[k].has, document')]
        BY <4>1, CompleteFits
      <4>3. \A c : \A row \in SectionRow :
               /\ [row EXCEPT !.complete = c].has = row.has
               /\ [row EXCEPT !.complete = c].complete = c
        BY DEF SectionRow
      <4>4. /\ section'[k].has = section[k].has
            /\ section'[k].complete = Fits(k, section[k].has, document')
        BY <1>0, <4>2, <4>3
      <4> QED BY <4>4 DEF Flagged
    <3>4. ASSUME ~(section[k].saved /\ k \in {"social_status_cert", "documents_manifest"})
          PROVE  Flagged(k)'
      <4>1. section'[k] = section[k]
        BY <2>1, <3>2, <3>4 DEF Refreshed
      <4>2. CASE ~section[k].saved
        BY <4>1, <4>2 DEF Flagged
      <4>3. CASE k \notin {"social_status_cert", "documents_manifest"}
        <5>1. Fits(k, section[k].has, document') = Fits(k, section[k].has, document)
          BY <4>3 DEF Fits
        <5> QED BY <2>2, <4>1, <5>1 DEF Flagged
      <4> QED BY <3>4, <4>2, <4>3
    <3> QED BY <3>3, <3>4
  <2>7. CASE CommitReset(r)
    <3>1. ~section'[k].saved
      BY <1>0, <2>1, <2>7 DEF CommitReset, Erased, NoRow
    <3> QED BY <3>1 DEF Flagged
  <2>8. CASE CommitSubmit(r)
    <3>1. document' = document
      BY <2>8 DEF CommitSubmit
    <3>2. CASE k \notin RequiredSection \cap Recomputed
      <4>1. section'[k] = section[k]
        BY <1>0, <2>8, <3>2 DEF CommitSubmit
      <4> QED BY <2>3, <3>1, <4>1
    <3>3. CASE k \in RequiredSection \cap Recomputed
      <4>1. Complete[k] \subseteq section[k].has
        BY <1>0, <2>1, <2>8, <3>3 DEF Loaded, CommitSubmit
      <4>2. k \notin {"social_status_cert", "documents_manifest"}
        BY <3>3 DEF Recomputed
      <4>3. section'[k] = [section[k] EXCEPT !.complete =
                             IF section[k].complete THEN section[k].complete ELSE TRUE]
        BY <1>0, <2>1, <2>8, <3>3 DEF CommitSubmit
      <4>4. section[k] \in SectionRow
        BY <1>0
      <4>5. section'[k].has = section[k].has /\ section'[k].complete = TRUE
        BY <4>3, <4>4 DEF SectionRow
      <4>6. Fits(k, section'[k].has, document') = TRUE
        BY <4>1, <4>2, <4>5, NeedsNoDocument DEF Fits
      <4> QED BY <4>5, <4>6 DEF Flagged
    <3> QED BY <3>2, <3>3
  <2> QED BY <1>3, <2>4, <2>5, <2>6, <2>7, <2>8 DEF Ends
<1>4. ASSUME NEW r \in Request, Ask(r)
      PROVE  Flagged(k)'
  BY <1>0, <1>2, <1>4, AskLoads DEF Load, form
<1>5. CASE SeedQuestions
  BY <1>0, <1>2, <1>5 DEF SeedQuestions, form, FormType
<1>6. ASSUME NEW r \in Request, StoreFile(r) \/ Drop(r)
      PROVE  Flagged(k)'
  BY <1>0, <1>2, <1>6 DEF StoreFile, Drop, form
<1>7. CASE GiveBack \/ UNCHANGED vars
  BY <1>2, <1>7 DEF GiveBack, vars, form
<1> QED BY <1>3, <1>4, <1>5, <1>6, <1>7, StepCases

-----------------------------------------------------------------------------
(* The theorems.                                                           *)

LEMMA FormStart ==
    ASSUME Init
    PROVE  FormInv
<1>1. FormType
  <2>1. Rows \in RowsType
    BY BlankTypes DEF Init, Rows, RowsType
  <2>2. req \in [Request -> [op : Op, input : Input, was : RowsType]]
    BY IdleTyped DEF Init
  <2>3. given \in 0..MaxGiven
    <3>1. given = 0 /\ MaxGiven \in Nat
      BY FormAssumption DEF Init
    <3> QED BY <3>1
  <2>4. active \subseteq Question /\ file \subseteq DocId /\ raced \in BOOLEAN
    <3>1. active = Old /\ Old \subseteq Question /\ file = {} /\ raced = FALSE
      BY FormAssumption DEF Init
    <3> QED BY <3>1
  <2> QED BY <2>1, <2>2, <2>3, <2>4 DEF FormType
<1>2. \A r \in Request : req[r].op = "idle"
  BY DEF Init, IdleRequest
<1>3. \A r \in Request : Loaded(r)
  BY <1>2 DEF Loaded, Uploads
<1>4. OneUpload
  BY <1>2 DEF OneUpload, Uploads
<1>5. \A k \in Section : section[k] = NoRow
  BY DEF Init
<1>6. Blank
  BY <1>5 DEF Blank
<1>7. /\ \A k \in Section : section[k].doc = 0 /\ ~section[k].saved
  BY <1>5 DEF NoRow
<1>8. ReferencesExist /\ FlagsFollow
  BY <1>7 DEF ReferencesExist, FlagsFollow
<1>9. DocumentsHaveFiles
  BY DEF Init, DocumentsHaveFiles
<1> QED BY <1>1, <1>3, <1>4, <1>6, <1>8, <1>9 DEF FormInv

LEMMA FormStep ==
    ASSUME FormInv, [Next]_vars
    PROVE  FormInv'
BY TypeStep, LoadedStep, UploadStep, BlankStep, ReferencesStep, FilesStep,
   FlagsStep DEF FormInv

(* What requests have loaded, the files and the flags stay in step at every *)
(* commit (application_service, document_service, internal_test_service).   *)
THEOREM FormHolds == Spec => []FormInv
<1>1. Init => FormInv
  BY FormStart
<1>2. FormInv /\ [Next]_vars => FormInv'
  BY FormStep
<1> QED BY <1>1, <1>2, PTL DEF Spec

(* Every document has its file; as long as no two requests overlap, what a  *)
(* section names is there and every flag but the test's says what the rules *)
(* say (upload_document, _validate_optional_motivation_growth_doc,          *)
(* recompute_social_section, recompute_documents_manifest_section).         *)
THEOREM FormStands == Spec => []FormOK
<1>1. FormInv => FormOK
  <2> SUFFICES ASSUME FormInv PROVE TypeOK
    BY DEF FormOK, FormInv
  <2>1. /\ locked \in BOOLEAN
        /\ section \in [Section -> SectionRow]
        /\ answer \in [Question -> Answer]
        /\ document \in [DocId -> Type \cup {"none"}]
    BY RowsTyped DEF FormInv, FormType
  <2>2. \A r \in Request : req[r].op \in Op
    BY DEF FormInv, FormType
  <2> QED BY <2>1, <2>2 DEF FormInv, FormType, TypeOK, Answer, Op
<1> QED BY <1>1, FormHolds, PTL

\* The answers that a submission counts.
LEMMA CountedAnswers ==
    ASSUME NEW A \in SUBSET Question, NEW B \in SUBSET Question,
           Cardinality(A) >= Cardinality(B)
    PROVE  Cardinality(B \ A) <= Cardinality(A \ B)
<1>1. IsFiniteSet(A) /\ IsFiniteSet(B)
  BY FormAssumption, FS_Subset
<1>2. /\ Cardinality(B \ A) = Cardinality(B) - Cardinality(B \cap A)
      /\ Cardinality(A \ B) = Cardinality(A) - Cardinality(A \cap B)
  BY <1>1, FS_Difference
<1>3. A \cap B = B \cap A
  OBVIOUS
<1>4. /\ Cardinality(A) \in Nat /\ Cardinality(B) \in Nat
      /\ Cardinality(A \cap B) \in Nat
  BY <1>1, FS_CardinalityType, FS_Intersection
<1> QED BY <1>2, <1>3, <1>4

\* Only a submission locks the form.
LEMMA LockedBySubmission ==
    ASSUME [Next]_vars, locked', ~locked
    PROVE  \E r \in Request : CommitSubmit(r)
<1>1. ASSUME NEW r \in Request, Ask(r)
      PROVE  locked' = locked
  BY <1>1 DEF Ask, AskSave, AskAnswer, AskFinalize, AskUpload, AskReset,
     AskSubmit, Load, form
<1> QED BY <1>1, StepCases DEF Ends, CommitSave, CommitAnswer, CommitFinalize,
           CommitUpload, CommitReset, StoreFile, Drop, GiveBack, SeedQuestions,
           vars, form

(* The submission goes by flags that sections have stored, which nothing    *)
(* computes again (completion_percentage); they still say what the rules    *)
(* say, and of the questions asked by then no more are left out than there  *)
(* are answers to others (_internal_test_complete).                         *)
THEOREM SubmissionsAreComplete == Spec => SubmitsComplete
<1> DEFINE Whole == /\ \A k \in RequiredSection :
                          section[k].saved /\ Complete[k] \subseteq section[k].has
                    /\ Cardinality({q \in active : answer[q].value = "none"})
                         <= Cardinality({q \in Question \ active :
                                           answer[q].value # "none"})
<1>1. FormInv /\ [Next]_vars =>
        [locked' /\ ~locked /\ ~raced' => Whole]_vars
  <2> SUFFICES ASSUME FormInv, [Next]_vars, locked', ~locked, ~raced'
               PROVE  Whole
    OBVIOUS
  <2>1. PICK r \in Request : CommitSubmit(r)
    BY LockedBySubmission
  <2>2. FormType /\ Ends(r) /\ req[r].op = "submit" /\ Loaded(r)
    BY <2>1 DEF FormInv, Ends, CommitSubmit
  <2>3. /\ ~raced /\ section = req[r].was.section /\ answer = req[r].was.answer
    BY <2>2, NoRaceYet
  <2>4. /\ \A k \in RequiredSection :
              /\ section[k].saved
              /\ k \in Recomputed => Complete[k] \subseteq section[k].has
              /\ k \notin Recomputed => section[k].complete
        /\ TestAnswered(answer)
    BY <2>2, <2>3 DEF Loaded
  <2>5. ASSUME NEW k \in RequiredSection
        PROVE  Complete[k] \subseteq section[k].has
    <3>1. CASE k \in Recomputed
      BY <2>4, <3>1
    <3>2. CASE k \notin Recomputed
      <4>1. k \in Section \ {"internal_test"} /\ section[k].saved
        BY <2>4, <3>2 DEF RequiredSection, Recomputed
      <4>2. section[k].complete = Fits(k, section[k].has, document)
        BY <2>3, <4>1, FlagsFit DEF FormInv, Flagged
      <4>3. Fits(k, section[k].has, document)
        BY <2>4, <3>2, <4>2
      <4> QED BY <4>3 DEF Fits
    <3> QED BY <3>1, <3>2
  <2>6. /\ Cardinality({q \in active : answer[q].value = "none"})
             <= Cardinality({q \in Question \ active : answer[q].value # "none"})
    <3> DEFINE A == {q \in Question : answer[q].value # "none"}
    <3>1. Cardinality(A) >= Cardinality(active) /\ active \in SUBSET Question
      BY <2>2, <2>4 DEF TestAnswered, FormType
    <3>2. /\ {q \in active : answer[q].value = "none"} = active \ A
          /\ {q \in Question \ active : answer[q].value # "none"} = A \ active
      BY <3>1
    <3>3. A \in SUBSET Question
      OBVIOUS
    <3> HIDE DEF A
    <3> QED BY <3>1, <3>2, <3>3, CountedAnswers
  <2> QED BY <2>4, <2>5, <2>6
<1> QED BY <1>1, FormHolds, PTL DEF Spec, SubmitsComplete

(* Once submitted, the form is changed only by a request that began before; *)
(* an answer given for good stays until a reset erases it, unless two       *)
(* requests overlap (_ensure_editable, save_draft_answers).                 *)
THEOREM SubmittedFormStands == Spec => SubmittedStands
<1> DEFINE Kept == locked => \/ UNCHANGED <<section, answer, document>>
                             \/ \E r \in Request : LateWrite(r)
           Final == \A q \in Question :
                       answer[q].final /\ ~raced' => answer'[q] \in {answer[q], NoAnswer}
<1>1. ASSUME FormInv, [Next]_vars
      PROVE  Kept
  <2>1. ASSUME NEW r \in Request, Ends(r)
        PROVE  LateWrite(r)
    <3>1. req[r].op # "idle" /\ req' = [req EXCEPT ![r] = IdleRequest]
      BY <1>1, <2>1, EndFrame DEF FormInv
    <3>2. req'[r].op = "idle"
      BY <1>1, <3>1 DEF FormInv, FormType, IdleRequest
    <3>3. ~req[r].was.locked
      BY <1>1, <3>1 DEF FormInv, Loaded
    <3> QED BY <3>1, <3>2, <3>3 DEF LateWrite
  <2>2. ASSUME NEW r \in Request, Ask(r)
        PROVE  UNCHANGED <<section, answer, document>>
    BY <1>1, <2>2, AskLoads DEF FormInv, Load, form
  <2> QED BY <1>1, <2>1, <2>2, StepCases
          DEF StoreFile, Drop, GiveBack, SeedQuestions, vars, form
<1>2. ASSUME FormInv, [Next]_vars
      PROVE  Final
  <2>0. /\ FormType /\ \A r \in Request : Loaded(r)
        /\ answer \in [Question -> Answer]
    BY <1>2, RowsTyped DEF FormInv, FormType
  <2>1. ASSUME NEW r \in Request, Ask(r)
        PROVE  answer' = answer
    BY <2>0, <2>1, AskLoads DEF Load, form
  <2>2. ASSUME NEW r \in Request, Ends(r), ~raced',
               NEW q \in Question, answer[q].final
        PROVE  answer'[q] \in {answer[q], NoAnswer}
    <3>1. answer = req[r].was.answer
      BY <2>0, <2>2, NoRaceYet
    <3>2. CASE CommitAnswer(r)
      <4>1. q \notin req[r].input.q
        BY <2>0, <2>2, <3>1, <3>2 DEF Loaded, CommitAnswer
      <4> QED BY <3>2, <4>1 DEF CommitAnswer
    <3>3. CASE CommitFinalize(r)
      <4>1. answer[q] \in Answer /\ answer[q].final = TRUE
        BY <2>0, <2>2 DEF Answer
      <4>2. [answer[q] EXCEPT !.final = TRUE] = answer[q]
        BY <4>1 DEF Answer
      <4> QED BY <3>3, <4>2 DEF CommitFinalize
    <3>4. CASE CommitReset(r)
      BY <3>4 DEF CommitReset, Erased
    <3>5. CASE CommitSave(r) \/ CommitUpload(r) \/ CommitSubmit(r)
      BY <3>5 DEF CommitSave, CommitUpload, CommitSubmit
    <3> QED BY <2>2, <3>2, <3>3, <3>4, <3>5 DEF Ends
  <2>3. ASSUME NEW r \in Request, Ends(r)
        PROVE  Final
    BY <2>2, <2>3
  <2>4. CASE answer' = answer
    BY <2>4
  <2> HIDE DEF Final
  <2> QED BY <1>2, <2>1, <2>3, <2>4, StepCases
          DEF StoreFile, Drop, GiveBack, SeedQuestions, vars, form
<1>3. FormInv /\ [Next]_vars => [Kept /\ Final]_vars
  BY <1>1, <1>2
<1> QED BY <1>3, FormHolds, PTL DEF Spec, SubmittedStands

-----------------------------------------------------------------------------
(* The engagement, for every threshold, skew and notice.                   *)

LEMMA InitTypeOK == EngagementInit => EngagementTypeOK
<1> SUFFICES ASSUME EngagementInit PROVE EngagementTypeOK
    OBVIOUS
<1>1. IsFiniteSet(events)
    BY FS_EmptySet DEF EngagementInit
<1> QED
    BY <1>1 DEF EngagementInit, EngagementTypeOK, AtMostOne

\* What a request of the server adds to the events.
LEMMA RecordedEvents ==
    ASSUME EngagementTypeOK, Recorded
    PROVE  /\ events' \subseteq Int /\ IsFiniteSet(events')
           /\ events \subseteq events' /\ now \in events'
           /\ acted' = now /\ now' = now /\ opened' = opened
<1>1. IsFiniteSet(events \cup {now})
    BY FS_AddElement DEF EngagementTypeOK
<1> QED
    BY <1>1 DEF EngagementTypeOK, Recorded

LEMMA ClientEventTypeOK ==
    ASSUME EngagementAssumption, EngagementTypeOK,
           NEW k \in SUBSET Opened, NEW d \in Skew, ClientEvent(k, now + d)
    PROVE  EngagementTypeOK'
<1>1. d \in Int
    BY DEF EngagementAssumption
<1>2. IsFiniteSet(events \cup {now + d})
    BY FS_AddElement DEF EngagementTypeOK
<1> QED
    BY <1>1, <1>2
    DEF EngagementTypeOK, ClientEvent, work, interview, AtMostOne

LEMMA RequestTypeOK ==
    ASSUME EngagementTypeOK,
           \/ Save \/ Submit \/ Reopen \/ SubmitPreferences
           \/ \E delivered \in BOOLEAN : RequestReminder(delivered)
    PROVE  EngagementTypeOK'
<1>1. Recorded
    BY DEF Save, Submit, Reopen, SubmitPreferences, RequestReminder
<1>2. /\ events' \subseteq Int /\ IsFiniteSet(events')
      /\ events \subseteq events' /\ now \in events'
      /\ acted' = now /\ now' = now /\ opened' = opened
    BY <1>1, RecordedEvents
<1>3. CASE Save
    BY <1>2, <1>3 DEF EngagementTypeOK, Save, interview, AtMostOne, CandidateStage
<1>4. CASE Submit
    BY <1>2, <1>4 DEF EngagementTypeOK, Submit, Enter, interview, AtMostOne
<1>5. CASE Reopen
    BY <1>2, <1>5 DEF EngagementTypeOK, Reopen, Enter, interview, AtMostOne
<1>6. CASE SubmitPreferences
    BY <1>2, <1>6 DEF EngagementTypeOK, SubmitPreferences, interview, AtMostOne
<1>7. CASE \E delivered \in BOOLEAN : RequestReminder(delivered)
    BY <1>2, <1>7 DEF EngagementTypeOK, RequestReminder, Mailed, work, AtMostOne
<1> QED
    BY <1>3, <1>4, <1>5, <1>6, <1>7

LEMMA NextTypeOK ==
    ASSUME EngagementAssumption, EngagementTypeOK, [EngagementNext]_engagement
    PROVE  EngagementTypeOK'
<1>1. CASE Candidate
    <2>1. CASE Reset
        BY <2>1 DEF EngagementTypeOK, Reset, activity, interview, AtMostOne
    <2> QED
        BY <1>1, <2>1, ClientEventTypeOK, RequestTypeOK DEF Candidate
<1>2. CASE SweepReminder
    BY <1>2 DEF EngagementTypeOK, SweepReminder, clock, activity, work, AtMostOne
<1>3. CASE Commission
    <2>1. CASE \E d \in Notice : Schedule(now + d)
        BY <2>1 DEF EngagementTypeOK, EngagementAssumption, Schedule, clock, activity,
                    work, AtMostOne
    <2>2. CASE \E s \in {m[2] : m \in Moves} : MoveTo(s)
        BY <2>2 DEF EngagementTypeOK, MoveTo, Moves, Enter, clock, activity, work,
                    interview, AtMostOne
    <2> QED
        BY <1>3, <2>1, <2>2 DEF Commission
<1>4. CASE Tick
    BY <1>4 DEF EngagementTypeOK, Tick, activity, work, interview, AtMostOne
<1>5. CASE UNCHANGED engagement
    BY <1>5 DEF EngagementTypeOK, engagement, clock, activity, work, interview, AtMostOne
<1> QED
    BY <1>1, <1>2, <1>3, <1>4, <1>5 DEF EngagementNext

(* Every reachable state is well typed, and no row holds a stamp that is   *)
(* not also that of an event: what a save writes over or a reset deletes   *)
(* stays in candidate_activity_events.                                     *)
THEOREM EngagementTypeCorrect == EngagementSpec => []EngagementTypeOK
<1>1. EngagementTypeOK /\ [EngagementNext]_engagement => EngagementTypeOK'
    BY NextTypeOK, EngagementAssumption
<1> QED
    BY InitTypeOK, <1>1, PTL DEF EngagementSpec

----------------------------------------------------------------------------
(* The levels.                                                             *)

BucketTypes ==
    /\ TimeToSubmit \in {"poor", "good", "neutral"}
    /\ LastOnline \in {"good", "medium", "poor"}
    /\ ActiveTime \in {"good", "medium", "poor"}
    /\ Preparation \in {"strong", "some", "none", "neutral"}
    /\ Reminder \in {"reacted_fast", "reacted_late", "ignored", "awaiting"}
    /\ Stagnation \in {"none", "mild", "severe"}
    /\ StageStart \in {"quick_start", "no_start", "neutral"}

LEMMA Buckets == BucketTypes
<1>1. TimeToSubmit \in {"poor", "good", "neutral"}
    BY DEF TimeToSubmit
<1>2. LastOnline \in {"good", "medium", "poor"}
    BY DEF LastOnline
<1>3. ActiveTime \in {"good", "medium", "poor"}
    BY DEF ActiveTime
<1>4. Preparation \in {"strong", "some", "none", "neutral"}
    BY DEF Preparation
<1>5. Reminder \in {"reacted_fast", "reacted_late", "ignored", "awaiting"}
    BY DEF Reminder
<1>6. Stagnation \in {"none", "mild", "severe"}
    BY DEF Stagnation
<1>7. StageStart \in {"quick_start", "no_start", "neutral"}
    BY DEF StageStart
<1> QED
    BY <1>1, <1>2, <1>3, <1>4, <1>5, <1>6, <1>7 DEF BucketTypes

LEMMA BucketsNext == BucketTypes'
<1>1. BucketTypes
    BY Buckets
<1> QED
    BY <1>1, PTL

LEMMA StampsAreInt ==
    ASSUME EngagementTypeOK
    PROVE  Stamps \subseteq Int /\ Activity \subseteq Int
<1>1. Stamps \subseteq Int
    BY DEF EngagementTypeOK, Stamps
<1>2. CASE Stamps = {}
    <2>1. Activity = {0}
        BY <1>2 DEF Activity
    <2> QED
        BY <1>1, <2>1
<1>3. CASE Stamps # {}
    BY <1>1, <1>3 DEF Activity
<1> QED
    BY <1>2, <1>3

\* Whoever was active within a day has acted since a stage entered more than
\* a day ago.
LEMMA ActiveHasStarted ==
    ASSUME EngagementAssumption, EngagementTypeOK, LastOnline = "good"
    PROVE  StageStart # "no_start"
<1>1. PICK t \in Activity : now - t =< Day
    BY DEF LastOnline, ActiveWithin
<1>2. now \in Int /\ entered \in Nat /\ Day \in Nat /\ t \in Int
    BY StampsAreInt DEF EngagementTypeOK, EngagementAssumption
<1>3. CASE t \in Stamps
    <2> SUFFICES ASSUME t =< entered, now - entered > Day PROVE FALSE
        BY <1>3 DEF StageStart
    <2> QED
        BY <1>1, <1>2
<1>4. CASE t \notin Stamps
    <2>1. t = 0
        BY <1>4 DEF Activity
    <2> QED
        BY <1>1, <1>2, <2>1 DEF StageStart
<1> QED
    BY <1>3, <1>4

(* The two levels never contradict each other, for every threshold.        *)
LEMMA LevelsOfBuckets ==
    ASSUME EngagementAssumption, EngagementTypeOK
    PROVE  LevelsAgree
<1>1. LastOnline = "good" => StageStart # "no_start"
    BY ActiveHasStarted
<1> QED
    BY <1>1, Buckets, SMTT(60)
    DEF BucketTypes, LevelsAgree, EngagementLevel, RiskLevel, EngagementScore, RiskScore,
        When

(* The commission is never shown two levels that contradict each other, for *)
(* every threshold (_compute_engagement_insight).                           *)
THEOREM LevelsNeverContradict == EngagementSpec => []LevelsAgree
<1>1. EngagementTypeOK => LevelsAgree
    BY LevelsOfBuckets, EngagementAssumption
<1> QED
    BY EngagementTypeCorrect, <1>1, PTL

----------------------------------------------------------------------------
(* Time alone.                                                             *)

\* A tick leaves the stamps, and moves each bucket one way only.
LEMMA TickBuckets ==
    ASSUME EngagementAssumption, EngagementTypeOK, EngagementTypeOK', Tick
    PROVE  /\ TimeToSubmit' = TimeToSubmit
           /\ LastOnline' = "good" => LastOnline = "good"
           /\ LastOnline = "poor" => LastOnline' = "poor"
           /\ ActiveTime' = ActiveTime
           /\ Preparation' = Preparation
           /\ Reminder' # Reminder =>
                Reminder = "awaiting" /\ Reminder' = "ignored"
           /\ Stagnation' = "none" => Stagnation = "none"
           /\ Stagnation = "severe" => Stagnation' = "severe"
           /\ StageStart' # StageStart =>
                StageStart = "neutral" /\ StageStart' = "no_start"
<1>1. /\ Stamps' = Stamps /\ Activity' = Activity
      /\ stage' = stage /\ entered' = entered
      /\ opened' = opened /\ prefs' = prefs /\ submitted' = submitted
      /\ RemindedAt' = RemindedAt
    BY DEF Tick, activity, work, interview, Stamps, Activity, RemindedAt
<1>2. /\ now \in Int /\ now' = now + 1 /\ entered \in Int
      /\ Day \in Nat /\ Activity \subseteq Int /\ RemindedAt \subseteq Int
    BY StampsAreInt DEF Tick, EngagementTypeOK, EngagementAssumption, RemindedAt
<1>3. \A d \in Int : /\ ActiveWithin(d)' => ActiveWithin(d)
                     /\ QuietFor(d) => QuietFor(d)'
    BY <1>1, <1>2 DEF ActiveWithin, QuietFor
<1>4. TimeToSubmit' = TimeToSubmit
    BY <1>1 DEF TimeToSubmit
<1>5. /\ LastOnline' = "good" => LastOnline = "good"
      /\ LastOnline = "poor" => LastOnline' = "poor"
    <2>1. Day \in Int /\ 5 * Day \in Int
        BY <1>2
    <2>2. /\ ActiveWithin(Day)' => ActiveWithin(Day)
          /\ QuietFor(5 * Day) => QuietFor(5 * Day)'
        BY <1>3, <2>1
    <2>3. ASSUME QuietFor(5 * Day)', ActiveWithin(Day)' PROVE FALSE
        <3>1. PICK t \in Activity' : now' - t =< Day
            BY <2>3 DEF ActiveWithin
        <3>2. now' - t >= 5 * Day
            <4>1. \A u \in Activity' : now' - u >= 5 * Day
                BY <2>3 DEF QuietFor
            <4> QED
                BY <4>1
        <3>3. t \in Int /\ now' \in Int /\ Day \in Int /\ Day > 0
            BY <1>1, <1>2, <3>1 DEF EngagementAssumption
        <3>4. now' - t \in Int
            BY <3>3
        <3>5. \A x \in Int : ~(x =< Day /\ x >= 5 * Day)
            BY <3>3
        <3> QED
            BY <3>1, <3>2, <3>4, <3>5
    <2> QED
        BY <2>2, <2>3 DEF LastOnline
<1>6. ActiveTime' = ActiveTime
    BY <1>1 DEF ActiveTime
<1>7. Preparation' = Preparation
    BY <1>1 DEF Preparation, Signals
<1>8. Reminder' # Reminder => Reminder = "awaiting" /\ Reminder' = "ignored"
    BY <1>1, <1>2 DEF Reminder
<1>9. /\ Stagnation' = "none" => Stagnation = "none"
      /\ Stagnation = "severe" => Stagnation' = "severe"
    <2>1. /\ MildAfter' = MildAfter /\ MildAfter \in Int
          /\ SevereAfter' = SevereAfter /\ SevereAfter \in Int
        BY <1>1, <1>2 DEF MildAfter, SevereAfter
    <2> QED
        BY <1>1, <1>3, <2>1 DEF Stagnation, QuietFor
<1>10. StageStart' # StageStart =>
         StageStart = "neutral" /\ StageStart' = "no_start"
    BY <1>1, <1>2 DEF StageStart
<1> QED
    BY <1>4, <1>5, <1>6, <1>7, <1>8, <1>9, <1>10

LEMMA TickScores ==
    ASSUME EngagementAssumption, EngagementTypeOK, EngagementTypeOK', Tick
    PROVE  RiskScore' >= RiskScore /\ EngagementScore' =< EngagementScore
BY Buckets, BucketsNext, TickBuckets, SMTT(60)
DEF BucketTypes, RiskScore, EngagementScore, When

(* For every threshold, waiting alone neither lowers the risk nor raises    *)
(* the engagement.                                                          *)
THEOREM TimeAloneNeverHelps == EngagementSpec => SilenceNeverHelps
<1>1. EngagementTypeOK /\ EngagementTypeOK' /\ [EngagementNext]_engagement =>
        [now' # now => /\ RiskScore' >= RiskScore
                       /\ EngagementScore' =< EngagementScore]_engagement
    <2> SUFFICES ASSUME EngagementTypeOK, EngagementTypeOK', EngagementNext, now' # now
                 PROVE  RiskScore' >= RiskScore
                        /\ EngagementScore' =< EngagementScore
        BY DEF engagement, clock
    <2>1. Tick
        BY DEF EngagementNext, Candidate, ClientEvent, Save, Reset, Submit, Reopen,
               SubmitPreferences, RequestReminder, Recorded, SweepReminder,
               Commission, Schedule, MoveTo, clock
    <2> QED
        BY <2>1, TickScores, EngagementAssumption
<1> QED
    BY EngagementTypeCorrect, <1>1, PTL DEF EngagementSpec, SilenceNeverHelps

----------------------------------------------------------------------------
(* Silence.                                                                *)

\* Why silence is noticed: a client's stamp is at most its skew ahead of the
\* act that left it.
StampsFollowActs ==
    \A t \in events : \E d \in Skew \cup {0} : t =< acted + d

LEMMA NextStampsFollowActs ==
    ASSUME EngagementAssumption, EngagementTypeOK, StampsFollowActs, [EngagementNext]_engagement
    PROVE  StampsFollowActs'
<1> /\ now \in Int /\ acted \in Int /\ acted =< now
    /\ events \subseteq Int /\ Skew \subseteq Int
    BY DEF EngagementTypeOK, EngagementAssumption
<1>1. ASSUME Recorded PROVE StampsFollowActs'
    BY <1>1 DEF StampsFollowActs, Recorded
<1>2. CASE Candidate
    <2>1. ASSUME NEW k \in SUBSET Opened, NEW d \in Skew,
                 ClientEvent(k, now + d)
          PROVE  StampsFollowActs'
        BY <2>1 DEF StampsFollowActs, ClientEvent
    <2>2. CASE Reset
        BY <2>2 DEF StampsFollowActs, Reset, activity
    <2>3. CASE \/ Save \/ Submit \/ Reopen \/ SubmitPreferences
               \/ \E delivered \in BOOLEAN : RequestReminder(delivered)
        BY <1>1, <2>3
        DEF Save, Submit, Reopen, SubmitPreferences, RequestReminder
    <2> QED
        BY <1>2, <2>1, <2>2, <2>3 DEF Candidate
<1>3. CASE SweepReminder \/ Commission \/ Tick \/ UNCHANGED engagement
    <2>1. events' = events /\ acted' = acted
        BY <1>3 DEF SweepReminder, Commission, Schedule, MoveTo, Tick, engagement,
                    clock, activity
    <2> QED
        BY <2>1 DEF StampsFollowActs
<1> QED
    BY <1>2, <1>3 DEF EngagementNext

LEMMA SilenceScores ==
    ASSUME EngagementAssumption, EngagementTypeOK, StampsFollowActs
    PROVE  SilenceIsHighRisk
<1> SUFFICES ASSUME stage \in CandidateStage,
                    \A d \in Skew \cup {0} : now - acted >= 5 * Day + d
             PROVE  RiskLevel = "High"
    BY DEF SilenceIsHighRisk
<1> /\ now \in Int /\ acted \in Int /\ 0 =< acted /\ Day \in Int /\ Day > 0
    /\ events \subseteq Int /\ Skew \subseteq Int
    BY DEF EngagementTypeOK, EngagementAssumption
<1>1. \A t \in events : now - t >= 5 * Day
    <2> SUFFICES ASSUME NEW t \in events PROVE now - t >= 5 * Day
        OBVIOUS
    <2>1. PICK d \in Skew \cup {0} : t =< acted + d
        BY DEF StampsFollowActs
    <2>2. now - acted >= 5 * Day + d
        BY <2>1
    <2> QED
        BY <2>1, <2>2
<1>2. now - 0 >= 5 * Day
    <2>1. now - acted >= 5 * Day + 0
        OBVIOUS
    <2> QED
        BY <2>1
<1>3. \A t \in Activity : now - t >= 5 * Day
    <2>1. Stamps \subseteq events
        BY DEF Stamps, EngagementTypeOK
    <2>2. CASE Stamps = {}
        <3>1. Activity = {0}
            BY <2>2 DEF Activity
        <3> QED
            BY <1>2, <3>1
    <2>3. CASE Stamps # {}
        BY <1>1, <2>1, <2>3 DEF Activity
    <2> QED
        BY <2>2, <2>3
<1>4. Activity \subseteq Int
    BY StampsAreInt
<1>5. LastOnline = "poor"
    <2>1. \A t \in Activity : ~(now - t =< Day)
        BY <1>3, <1>4
    <2> QED
        BY <1>3, <2>1 DEF LastOnline, ActiveWithin, QuietFor
<1>6. Stagnation = "severe"
    <2>1. SevereAfter \in Int /\ SevereAfter =< 5 * Day
        BY DEF SevereAfter
    <2>2. QuietFor(SevereAfter)
        BY <1>3, <1>4, <2>1 DEF QuietFor
    <2> QED
        BY <2>2 DEF Stagnation
<1>7. RiskScore >= 8
    BY <1>5, <1>6, Buckets, SMTT(60) DEF BucketTypes, RiskScore, When
<1> QED
    BY <1>7 DEF RiskLevel

(* Silence of five days is a high risk, for every threshold and whatever    *)
(* the candidate did before.                                                *)
THEOREM SilenceIsNoticed == EngagementSpec => []SilenceIsHighRisk
<1>1. EngagementInit => StampsFollowActs
    BY DEF EngagementInit, StampsFollowActs
<1>2. EngagementTypeOK /\ StampsFollowActs /\ [EngagementNext]_engagement => StampsFollowActs'
    BY NextStampsFollowActs, EngagementAssumption
<1>3. EngagementTypeOK /\ StampsFollowActs => SilenceIsHighRisk
    BY SilenceScores, EngagementAssumption
<1> QED
    BY EngagementTypeCorrect, <1>1, <1>2, <1>3, PTL DEF EngagementSpec
----------------------------------------------------------------------------
(* Acts.                                                                   *)

LEMMA StampsAreEvents ==
    ASSUME EngagementTypeOK
    PROVE  Stamps = events /\ IsFiniteSet(Stamps) /\ Stamps \subseteq Int
BY DEF EngagementTypeOK, Stamps

LEMMA ActivityOfStamps ==
    ASSUME Stamps # {}
    PROVE  Activity = Stamps
BY DEF Activity

\* A row that is written over or deleted takes no stamp with it, a signal is
\* never unlearnt, and only submitting and reopening change the stage.
ActEffects ==
    /\ now' = now /\ now \in Int /\ entered \in Int
    /\ Stamps' \subseteq Int /\ Stamps \subseteq Stamps'
    /\ IsFiniteSet(Stamps) /\ IsFiniteSet(Stamps')
    /\ opened \subseteq opened' /\ IsFiniteSet(opened')
    /\ Cardinality(prefs) =< Cardinality(prefs')
    /\ Cardinality(prefs) \in Nat /\ Cardinality(prefs') \in Nat
    /\ \/ stage' = stage /\ entered' = entered
       \/ /\ stage' \in {"application", "initial_screening"}
          /\ entered' = now /\ now \in Stamps'
    /\ \/ RemindedAt' = RemindedAt /\ RemindedAt \subseteq Int
       \/ RemindedAt = {} /\ RemindedAt' = {now}

LEMMA ActStamps ==
    ASSUME EngagementTypeOK, EngagementTypeOK', Candidate
    PROVE  events \subseteq events' /\ now' = now
<1>1. ASSUME NEW k, NEW d, ClientEvent(k, now + d)
      PROVE  events \subseteq events' /\ now' = now
    BY <1>1 DEF ClientEvent
<1>2. CASE Reset
    BY <1>2 DEF Reset, activity
<1>3. CASE \/ Save \/ Submit \/ Reopen \/ SubmitPreferences
           \/ \E delivered \in BOOLEAN : RequestReminder(delivered)
    BY <1>3 DEF Save, Submit, Reopen, SubmitPreferences, RequestReminder,
                Recorded
<1> QED
    BY <1>1, <1>2, <1>3 DEF Candidate

LEMMA ActOpened ==
    ASSUME EngagementAssumption, EngagementTypeOK, EngagementTypeOK', Candidate
    PROVE  opened \subseteq opened' /\ IsFiniteSet(opened')
<1>1. ASSUME NEW k, NEW d, ClientEvent(k, now + d)
      PROVE  opened \subseteq opened'
    BY <1>1 DEF ClientEvent
<1>2. ASSUME Reset
      PROVE  opened \subseteq opened'
    BY <1>2 DEF Reset, activity
<1>3. ASSUME \/ Save \/ Submit \/ Reopen \/ SubmitPreferences
             \/ \E delivered \in BOOLEAN : RequestReminder(delivered)
      PROVE  opened \subseteq opened'
    BY <1>3 DEF Save, Submit, Reopen, SubmitPreferences, RequestReminder,
                Recorded
<1>4. opened \subseteq opened'
    BY <1>1, <1>2, <1>3 DEF Candidate
<1>5. opened' \subseteq Opened /\ IsFiniteSet(Opened)
    BY DEF EngagementTypeOK, EngagementAssumption
<1> QED
    BY <1>4, <1>5, FS_Subset

LEMMA ActPrefs ==
    ASSUME EngagementTypeOK, Candidate
    PROVE  /\ Cardinality(prefs) =< Cardinality(prefs')
           /\ Cardinality(prefs) \in Nat /\ Cardinality(prefs') \in Nat
<1>1. CASE SubmitPreferences
    <2>1. prefs = {} /\ prefs' = {now}
        BY <1>1 DEF SubmitPreferences
    <2>2. Cardinality(prefs) = 0
        BY <2>1, FS_EmptySet
    <2>3. Cardinality(prefs') = 1
        BY <2>1, FS_Singleton
    <2> QED
        BY <2>2, <2>3
<1>2. CASE prefs' = prefs
    <2>1. IsFiniteSet(prefs)
        BY FS_Subset DEF EngagementTypeOK
    <2> QED
        BY <1>2, <2>1, FS_CardinalityType
<1>3. \/ SubmitPreferences
      \/ prefs' = prefs
    BY DEF Candidate, ClientEvent, Save, Reset, Submit, Reopen,
           RequestReminder, work
<1> QED
    BY <1>1, <1>2, <1>3

LEMMA ActStage ==
    ASSUME EngagementTypeOK, EngagementTypeOK', Candidate
    PROVE  \/ stage' = stage /\ entered' = entered
           \/ /\ stage' \in {"application", "initial_screening"}
              /\ entered' = now /\ now \in Stamps'
<1>1. CASE Submit \/ Reopen
    BY <1>1 DEF Submit, Reopen, Enter, Recorded, Stamps
<1>2. CASE stage' = stage /\ entered' = entered
    BY <1>2
<1>3. \/ Submit \/ Reopen
      \/ stage' = stage /\ entered' = entered
    BY DEF Candidate, ClientEvent, Save, Reset, SubmitPreferences,
           RequestReminder
<1> QED
    BY <1>1, <1>2, <1>3

LEMMA ActReminded ==
    ASSUME EngagementTypeOK, Candidate
    PROVE  \/ RemindedAt' = RemindedAt /\ RemindedAt \subseteq Int
           \/ RemindedAt = {} /\ RemindedAt' = {now}
<1>1. CASE \E delivered \in BOOLEAN : RequestReminder(delivered)
    BY <1>1 DEF RequestReminder, Mailed, RemindedAt
<1>2. CASE requested' = requested /\ sent' = sent
    BY <1>2 DEF RemindedAt, EngagementTypeOK
<1>3. \/ \E delivered \in BOOLEAN : RequestReminder(delivered)
      \/ requested' = requested /\ sent' = sent
    BY DEF Candidate, ClientEvent, Save, Reset, Submit, Reopen,
           SubmitPreferences, interview
<1> QED
    BY <1>1, <1>2, <1>3

LEMMA ActsTogether ==
    ASSUME EngagementAssumption, EngagementTypeOK, EngagementTypeOK', Candidate
    PROVE  ActEffects
<1>1. Stamps = events /\ IsFiniteSet(Stamps) /\ Stamps \subseteq Int
    BY StampsAreEvents
<1>2. Stamps' = events' /\ IsFiniteSet(Stamps') /\ Stamps' \subseteq Int
    BY DEF EngagementTypeOK, Stamps
<1>3. now \in Int /\ entered \in Int
    BY DEF EngagementTypeOK
<1> QED
    BY <1>1, <1>2, <1>3, ActStamps, ActOpened, ActPrefs, ActStage, ActReminded
    DEF ActEffects

LEMMA ActLastOnline ==
    ASSUME EngagementAssumption, ActEffects, Stamps # {}
    PROVE  /\ LastOnline = "good" => LastOnline' = "good"
           /\ LastOnline' = "poor" => LastOnline = "poor"
<1>1. Activity \subseteq Activity'
    BY DEF ActEffects, Activity
<1>2. now' = now
    BY DEF ActEffects
<1>3. ActiveWithin(Day) => ActiveWithin(Day)'
    BY <1>1, <1>2 DEF ActiveWithin
<1>4. QuietFor(5 * Day)' => QuietFor(5 * Day)
    BY <1>1, <1>2 DEF QuietFor
<1> QED
    BY <1>3, <1>4 DEF LastOnline

LEMMA ActActiveTime ==
    ASSUME EngagementAssumption, ActEffects
    PROVE  /\ ActiveTime = "good" => ActiveTime' = "good"
           /\ ActiveTime' = "poor" => ActiveTime = "poor"
<1>1. /\ Cardinality(Stamps) =< Cardinality(Stamps')
      /\ Cardinality(Stamps) \in Nat /\ Cardinality(Stamps') \in Nat
    BY FS_Subset, FS_CardinalityType DEF ActEffects
<1> QED
    BY <1>1 DEF ActiveTime, EngagementAssumption

LEMMA ActPreparation ==
    ASSUME EngagementAssumption, ActEffects, Preparation' = "none"
    PROVE  Preparation = "none"
<1>1. IsFiniteSet(opened) /\ Cardinality(opened) =< Cardinality(opened')
    BY FS_Subset DEF ActEffects
<1>2. Cardinality(opened) \in Nat /\ Cardinality(opened') \in Nat
    BY <1>1, FS_CardinalityType DEF ActEffects
<1>3. Signals =< Signals' /\ Signals \in Nat /\ Signals' \in Nat
    BY <1>1, <1>2 DEF Signals, ActEffects
<1>4. Signals' < Strong /\ Signals' < 1 /\ stage' \in InterviewStage
    BY <1>3 DEF Preparation, EngagementAssumption
<1>5. stage' = stage
    BY <1>4 DEF ActEffects, InterviewStage
<1> QED
    BY <1>3, <1>4, <1>5 DEF Preparation, EngagementAssumption

\* A reminder that waits for an answer is at most a day old, so that an
\* answer to it that is late is stamped after now.
LEMMA ActReminder ==
    ASSUME EngagementAssumption, ActEffects
    PROVE  /\ Reminder' = "ignored" => Reminder = "ignored"
           /\ Reminder' = "reacted_late" =>
                \/ Reminder \in {"ignored", "reacted_late"}
                \/ \E t \in Stamps' : t > now
<1> /\ now \in Int /\ now' = now /\ Day \in Int /\ Day > 0
    /\ Stamps' \subseteq Int /\ Stamps \subseteq Stamps'
    BY DEF ActEffects, EngagementAssumption
<1>1. CASE RemindedAt' = RemindedAt /\ RemindedAt \subseteq Int
    <2>1. ASSUME Reminder' = "ignored" PROVE Reminder = "ignored"
        BY <1>1, <2>1 DEF Reminder
    <2>2. ASSUME Reminder' = "reacted_late",
                 Reminder \notin {"ignored", "reacted_late"}
          PROVE  \E t \in Stamps' : t > now
        <3>1. /\ ~ \E r \in RemindedAt, t \in Stamps' : t > r /\ t - r =< Day
              /\ \E r \in RemindedAt, t \in Stamps' : t > r
            BY <1>1, <2>2 DEF Reminder
        <3>2. PICK r \in RemindedAt, t \in Stamps' : t > r /\ ~(t - r =< Day)
            BY <3>1
        <3>3. ~(now - r > Day)
            BY <3>1, <2>2 DEF Reminder
        <3>4. r \in Int /\ t \in Int
            BY <1>1
        <3> QED
            BY <3>2, <3>3, <3>4
    <2> QED
        BY <2>1, <2>2
<1>2. CASE RemindedAt = {} /\ RemindedAt' = {now}
    <2>1. ASSUME Reminder' = "ignored" PROVE FALSE
        BY <1>2, <2>1 DEF Reminder
    <2>2. ASSUME Reminder' = "reacted_late" PROVE \E t \in Stamps' : t > now
        BY <1>2, <2>2 DEF Reminder
    <2> QED
        BY <2>1, <2>2
<1> QED
    BY <1>1, <1>2 DEF ActEffects

LEMMA ActStagnation ==
    ASSUME EngagementAssumption, ActEffects, Stamps # {}
    PROVE  /\ Stagnation = "none" => Stagnation' = "none"
           /\ Stagnation' = "severe" => Stagnation = "severe"
<1>1. Activity \subseteq Activity'
    BY DEF ActEffects, Activity
<1>2. now' = now /\ now \in Int /\ Day \in Int /\ Day > 0
    BY DEF ActEffects, EngagementAssumption
<1>3. CASE stage' = stage
    <2>1. MildAfter' = MildAfter /\ SevereAfter' = SevereAfter
        BY <1>3 DEF MildAfter, SevereAfter
    <2>2. /\ QuietFor(MildAfter)' => QuietFor(MildAfter)
          /\ QuietFor(SevereAfter)' => QuietFor(SevereAfter)
        BY <1>1, <1>2, <2>1 DEF QuietFor
    <2> QED
        BY <1>3, <2>2 DEF Stagnation
<1>4. CASE now \in Stamps'
    <2>1. now \in Activity'
        BY <1>4 DEF Activity
    <2>2. ~(now - now >= MildAfter') /\ ~(now - now >= SevereAfter')
        BY <1>2 DEF MildAfter, SevereAfter
    <2>3. ~QuietFor(MildAfter)' /\ ~QuietFor(SevereAfter)'
        BY <1>2, <2>1, <2>2 DEF QuietFor
    <2> QED
        BY <2>3 DEF Stagnation
<1> QED
    BY <1>3, <1>4 DEF ActEffects

LEMMA ActStageStart ==
    ASSUME EngagementAssumption, ActEffects, StageStart' = "no_start"
    PROVE  StageStart = "no_start"
<1>1. /\ now' = now /\ now \in Int /\ entered \in Int
      /\ Day \in Int /\ Day > 0
      /\ Stamps' \subseteq Int /\ Stamps \subseteq Stamps'
    BY DEF ActEffects, EngagementAssumption
<1>2. /\ stage' \in CandidateStage
      /\ \A t \in Stamps' : t =< entered'
      /\ now - entered' > Day
    BY <1>1 DEF StageStart
<1>3. stage' = stage /\ entered' = entered
    BY <1>1, <1>2 DEF ActEffects
<1> QED
    BY <1>1, <1>2, <1>3 DEF StageStart

LEMMA ActScores ==
    ASSUME EngagementAssumption, EngagementTypeOK, EngagementTypeOK', Candidate, Stamps # {}
    PROVE  \/ RiskScore' =< RiskScore
           \/ TimeToSubmit' = "poor"
           \/ Reminder' = "reacted_late" /\ \E t \in Stamps' : t > now
<1>1. ActEffects
    BY ActsTogether
<1>2. /\ LastOnline = "good" => LastOnline' = "good"
      /\ LastOnline' = "poor" => LastOnline = "poor"
    BY <1>1, ActLastOnline
<1>3. /\ ActiveTime = "good" => ActiveTime' = "good"
      /\ ActiveTime' = "poor" => ActiveTime = "poor"
    BY <1>1, ActActiveTime
<1>4. Preparation' = "none" => Preparation = "none"
    BY <1>1, ActPreparation
<1>5. /\ Reminder' = "ignored" => Reminder = "ignored"
      /\ Reminder' = "reacted_late" =>
           \/ Reminder \in {"ignored", "reacted_late"}
           \/ \E t \in Stamps' : t > now
    BY <1>1, ActReminder
<1>6. /\ Stagnation = "none" => Stagnation' = "none"
      /\ Stagnation' = "severe" => Stagnation = "severe"
    BY <1>1, ActStagnation
<1>7. StageStart' = "no_start" => StageStart = "no_start"
    BY <1>1, ActStageStart
<1> SUFFICES ASSUME TimeToSubmit' # "poor",
                    ~(Reminder' = "reacted_late" /\ \E t \in Stamps' : t > now)
             PROVE  RiskScore' =< RiskScore
    OBVIOUS
<1>8. Reminder' = "reacted_late" => Reminder \in {"ignored", "reacted_late"}
    BY <1>5
<1>9. Reminder' = "ignored" => Reminder = "ignored"
    BY <1>5
<1> QED
    BY <1>2, <1>3, <1>4, <1>6, <1>7, <1>8, <1>9, Buckets, BucketsNext,
       SMTT(60)
    DEF BucketTypes, RiskScore, When

(* For every threshold, nothing the candidate does raises the risk, but a   *)
(* submission that is too fast and a late answer stamped ahead of the       *)
(* server's clock.                                                          *)
THEOREM ActsNeverHurt == EngagementSpec => ActionNeverHurts
<1>1. EngagementTypeOK /\ EngagementTypeOK' /\ [EngagementNext]_engagement =>
        [(Candidate /\ Stamps # {}) =>
           \/ RiskScore' =< RiskScore
           \/ TimeToSubmit' = "poor"
           \/ Reminder' = "reacted_late" /\ \E t \in Stamps' : t > now]_engagement
    BY ActScores, EngagementAssumption
<1> QED
    BY EngagementTypeCorrect, <1>1, PTL DEF EngagementSpec, ActionNeverHurts
=============================================================================
