--------------------------- MODULE CertificateCheck ---------------------------
(***************************************************************************)
(* The check of the certificates an application carries: the unit of the   *)
(* data check that sends them one by one to the certificate service, the   *)
(* service that answers several callers at a time with the help of files   *)
(* in its own scratch directories, and the worker of the validation        *)
(* orchestrator that asks the same service about a file on its disk.       *)
(*                                                                         *)
(* The units and the service run as processes of their own: a unit gives   *)
(* up a call after a timeout or when the connection breaks, while the      *)
(* service goes on with what it has accepted.  The service may be killed   *)
(* and started again.                                                      *)
(***************************************************************************)
EXTENDS CertificateRules

CONSTANTS
    Candidate,     \* the applications whose unit runs
    Document,      \* what can be attached
    NoDoc,         \* no attachment, no file
    Forms,         \* the education sections each may have
    Page,          \* the text that recognition finds on each document
    Faint,         \* what only the supplementary passes find
    Typed,         \* the documents with a text layer
    File,          \* the files the orchestrator's worker asks about
    Copy,          \* the document each of them is a copy of
    Folder,        \* the directory each of them stands in
    Crashes        \* how often the service may be killed

Slot == {"english", "certificate", "additional"}
Call == (Candidate \X Slot) \cup File

ASSUME FileAssumption ==
    /\ NoDoc \notin Document /\ Crashes \in Nat
    /\ File \cap (Candidate \X Slot) = {}
    /\ Copy \in [File -> Document]
    /\ \A d \in Document : Page[d] \in Text /\ Faint[d] \in Text
    /\ \A a \in Candidate : \A g \in Forms[a], s \in Slot : g[s] \in Document \cup {NoDoc}
    /\ \A f \in File : Folder[f] \notin Candidate \X Slot

VARIABLES
    force,      \* CERTIFICATE_TEMP_FORCE_SUCCESS of the units
    form,       \* the education section each unit reads
    unit,       \* the run of each unit
    call,       \* what the service does for each caller
    scratch,    \* its files: the source and the preprocessed image of a directory
    check,      \* the orchestrator's check of each file
    saved,      \* the answers the service keeps in its table
    left,       \* the calls whose directory was not removed
    crashes

vars == <<force, form, unit, call, scratch, check, saved, left, crashes>>

-----------------------------------------------------------------------------
(* The unit: certificate_validation_processor.py.                          *)

\* What is attached, in the order in which it is sent.
Given(a, s) == IF form[a][s] = NoDoc THEN <<>> ELSE <<s>>
Attached(a) == Given(a, "english") \o Given(a, "certificate") \o Given(a, "additional")

\* The first role the document has: one file may be attached twice.
RoleOf(a, doc) ==
    CASE doc = form[a].english -> "english"
      [] doc = form[a].certificate -> "certificate"
      [] OTHER -> "additional"

Now(a) == Attached(a)[Len(unit[a].rows) + 1]
NowDoc(a) == form[a][Now(a)]
More(a) == Len(unit[a].rows) < Len(Attached(a))

Forced(role, kinds) ==
    CASE role = "english" /\ kinds.english = "ielts_6" ->
             [Answer("processed", "ielts", 12, "high", "passed",
                     "likely_authentic", FALSE) EXCEPT !.forced = TRUE]
      [] role = "certificate" /\ kinds.certificate = "ent" ->
             [Answer("processed", "ent", 100, "high", "passed",
                     "likely_authentic", FALSE) EXCEPT !.forced = TRUE]
      [] OTHER -> ProcessingFailed

\* What is kept of a call that was made: the forced score replaces it.
Kept(a, answer) ==
    LET forced == Forced(RoleOf(a, NowDoc(a)), form[a].kinds)
    IN  IF force /\ forced.forced THEN forced ELSE answer

Row(a, role, code, answer) ==
    [slot |-> Now(a), role |-> role, code |-> code, answer |-> answer]

Add(a, row) ==
    unit' = [unit EXCEPT ![a].pc = "ready", ![a].rows = Append(@, row)]

\* Whether a row sends the application to manual review.
Doubtful(row) ==
    \/ row.answer.authenticity # "likely_authentic"
    \/ row.answer.status \in {"ocr_failed", "unsupported", "processing_failed"}
    \/ row.answer.error
    \/ /\ row.role \in {"english", "certificate"}
       /\ row.answer.score = NoScore \/ row.answer.tier \in {"none", "low"}

Outcome(rows) ==
    IF rows = <<>> THEN "manual_review_required"
    ELSE IF ~force /\ \E i \in DOMAIN rows : Doubtful(rows[i])
    THEN "manual_review_required" ELSE "completed"

\* (mutated: the unit waits for the answer however long it takes)
GivesUpNever(c) == FALSE

\* A timeout, a broken connection, or a status that says no.
GivesUp(c) == TRUE

\* The document is not there, or it cannot be read or its text taken out: nothing
\* is sent and no score is forced.
Unreadable(a) ==
    /\ unit[a].pc = "ready" /\ More(a)
    /\ \E code \in {"document_not_found", "unreadable"} :
          Add(a, Row(a, IF code = "document_not_found" THEN "none"
                        ELSE RoleOf(a, NowDoc(a)), code, ProcessingFailed))
    /\ UNCHANGED <<force, form, call, scratch, check, saved, left, crashes>>

Idle == [pc |-> "idle", doc |-> NoDoc, declared |-> "unknown",
         first |-> NoText, answer |-> ProcessingFailed]

Sent(doc, declared) == [Idle EXCEPT !.pc = "sent", !.doc = doc, !.declared = declared]

Send(a) ==
    /\ unit[a].pc = "ready" /\ More(a)
    /\ unit' = [unit EXCEPT ![a].pc = "waits"]
    /\ call' = [call EXCEPT ![<<a, Now(a)>>] =
                   Sent(NowDoc(a), Declared(RoleOf(a, NowDoc(a)), form[a].kinds))]
    /\ UNCHANGED <<force, form, scratch, check, saved, left, crashes>>

Receive(a) ==
    /\ unit[a].pc = "waits" /\ call[<<a, Now(a)>>].pc = "answered"
    /\ Add(a, Row(a, RoleOf(a, NowDoc(a)), "none", Kept(a, call[<<a, Now(a)>>].answer)))
    /\ call' = [call EXCEPT ![<<a, Now(a)>>] = Idle]
    /\ UNCHANGED <<force, form, scratch, check, saved, left, crashes>>

\* An answer that is there already is dropped.
Unheard(c) ==
    call' = [call EXCEPT ![c] = IF @.pc = "answered" THEN Idle ELSE @]

GiveUp(a) ==
    /\ unit[a].pc = "waits" /\ GivesUp(<<a, Now(a)>>)
    /\ Add(a, Row(a, RoleOf(a, NowDoc(a)), "validation_http_failed",
                  Kept(a, ProcessingFailed)))
    /\ Unheard(<<a, Now(a)>>)
    /\ UNCHANGED <<force, form, scratch, check, saved, left, crashes>>

Finish(a) ==
    /\ unit[a].pc = "ready" /\ ~More(a)
    /\ unit' = [unit EXCEPT ![a].pc = "ended", ![a].status = Outcome(unit[a].rows)]
    /\ UNCHANGED <<force, form, call, scratch, check, saved, left, crashes>>

-----------------------------------------------------------------------------
(* The service: certificateValidationOrchestrator.ts.                      *)

\* (mutated: one directory for all the uploads)
DirectoryShared(c) == IF c \in File THEN Folder[c] ELSE <<"uploads", "all">>

\* An upload has a directory of its own; a file is worked on where it stands.
Directory(c) == IF c \in File THEN Folder[c] ELSE c

Empty == [source |-> NoDoc, image |-> NoDoc]
Moves(c, pc) == call' = [call EXCEPT ![c].pc = pc]
Fails(c) == call' = [call EXCEPT ![c] = [Idle EXCEPT !.pc = "leaves"]]

\* The upload is written down; a file of the disk is where it is.
Write(c) ==
    /\ call[c].pc = "sent" /\ (c \in File \/ call[c].doc \notin Typed)
    /\ IF c \in File THEN UNCHANGED scratch
       ELSE scratch' = [scratch EXCEPT ![Directory(c)].source = call[c].doc]
    /\ Moves(c, "written")
    /\ UNCHANGED <<force, form, unit, check, saved, left, crashes>>

\* preprocessImage
Draw(c) ==
    /\ call[c].pc = "written"
    /\ LET source == IF c \in File THEN call[c].doc ELSE scratch[Directory(c)].source
       IN  \/ /\ source # NoDoc
              /\ scratch' = [scratch EXCEPT ![Directory(c)].image = source]
              /\ Moves(c, "drawn")
           \/ Fails(c) /\ UNCHANGED scratch
    /\ UNCHANGED <<force, form, unit, check, saved, left, crashes>>

\* The first pass; it may find nothing, and it may fail.
Read(c) ==
    /\ call[c].pc = "drawn"
    /\ LET image == scratch[Directory(c)].image
       IN  \/ /\ image # NoDoc
              /\ call' = [call EXCEPT ![c].pc = "read", ![c].first = Page[image]]
           \/ call' = [call EXCEPT ![c] =
                           [Idle EXCEPT !.pc = "leaves", !.answer = OcrFailed]]
           \/ Fails(c)
    /\ UNCHANGED <<force, form, unit, scratch, check, saved, left, crashes>>

\* A text layer is the text.
ReadLayer(c) ==
    /\ call[c].pc = "sent" /\ c \notin File /\ call[c].doc \in Typed
    /\ call' = [call EXCEPT ![c].pc = "typed", ![c].first = Page[call[c].doc]]
    /\ UNCHANGED <<force, form, unit, scratch, check, saved, left, crashes>>

\* An answer about a file is kept in the table, or it is a failure.
Save(c, verdict, answer) ==
    \/ answer = verdict /\ saved' = saved \cup {c}
    \/ answer = ProcessingFailed /\ UNCHANGED saved

\* What the supplementary passes may add where the score is missing: what they
\* do not find, or fail to, is left out.
Enriched(c) ==
    LET image == scratch[Directory(c)].image
    IN  {NoText} \cup
        IF call[c].pc = "read" /\ image # NoDoc
               /\ NeedsMore(call[c].first, call[c].declared)
        THEN {Faint[image]} ELSE {}

Judge(c) ==
    /\ call[c].pc \in {"read", "typed"}
    /\ \E more \in Enriched(c) :
          LET verdict == Verdict(call[c].first, Joined(call[c].first, more),
                                 call[c].declared)
          IN  \E answer \in {verdict, ProcessingFailed} :
                 /\ IF c \in File THEN Save(c, verdict, answer)
                    ELSE answer = verdict /\ UNCHANGED saved
                 /\ call' = [call EXCEPT ![c] =
                                [Idle EXCEPT !.pc = "leaves", !.answer = answer]]
    /\ UNCHANGED <<force, form, unit, scratch, check, left, crashes>>

\* (mutated: the directory goes only with an answer that is no failure)
CleansUpAfterAnswer(c) == c \notin File /\ ~call[c].answer.error

CleansUp(c) == c \notin File

Awaited(c) ==
    IF c \in File THEN check[c] = "processing"
    ELSE unit[c[1]].pc = "waits" /\ Now(c[1]) = c[2]

\* The directory is removed before the answer goes out; that it cannot be is
\* not noticed.
Leave(c) ==
    /\ call[c].pc = "leaves"
    /\ \/ /\ CleansUp(c)
          /\ scratch' = [scratch EXCEPT ![Directory(c)] = Empty]
          /\ UNCHANGED left
       \/ /\ c \notin File /\ scratch[Directory(c)] # Empty
          /\ left' = left \cup {c} /\ UNCHANGED scratch
       \/ ~CleansUp(c) /\ UNCHANGED <<scratch, left>>
    /\ call' = [call EXCEPT ![c] =
                   IF Awaited(c) THEN [@ EXCEPT !.pc = "answered"] ELSE Idle]
    /\ UNCHANGED <<force, form, unit, check, saved, crashes>>

InService == {c \in Call : call[c].pc \notin {"idle", "answered"}}

\* What was under way is lost, and its files stay behind.
Crash ==
    /\ crashes < Crashes
    /\ crashes' = crashes + 1
    /\ call' = [c \in Call |-> IF c \in InService THEN Idle ELSE call[c]]
    /\ left' = left \cup {c \in InService \ File : scratch[Directory(c)] # Empty}
    /\ UNCHANGED <<force, form, unit, scratch, check, saved>>

-----------------------------------------------------------------------------
(* The orchestrator's worker: certificateWorker.ts.                        *)

Ask(f) ==
    /\ check[f] = "queued"
    /\ check' = [check EXCEPT ![f] = "processing"]
    /\ call' = [call EXCEPT ![f] = Sent(Copy[f], "unknown")]
    /\ UNCHANGED <<force, form, unit, scratch, saved, left, crashes>>

Hear(f) ==
    /\ check[f] = "processing" /\ call[f].pc = "answered"
    /\ check' = [check EXCEPT ![f] =
                    IF call[f].answer.authenticity = "likely_authentic"
                    THEN "passed" ELSE "manual_review_required"]
    /\ call' = [call EXCEPT ![f] = Idle]
    /\ UNCHANGED <<force, form, unit, scratch, saved, left, crashes>>

Lose(f) ==
    /\ check[f] = "processing"
    /\ check' = [check EXCEPT ![f] = "failed"] /\ Unheard(f)
    /\ UNCHANGED <<force, form, unit, scratch, saved, left, crashes>>

-----------------------------------------------------------------------------

Unstarted == [pc |-> "ready", rows |-> <<>>, status |-> "none"]

Init ==
    /\ force \in BOOLEAN
    /\ form \in {g \in [Candidate -> UNION {Forms[a] : a \in Candidate}] :
                  \A a \in Candidate : g[a] \in Forms[a]}
    /\ unit = [a \in Candidate |-> Unstarted]
    /\ call = [c \in Call |-> Idle]
    /\ scratch = [d \in {Directory(c) : c \in Call} |-> Empty]
    /\ check = [f \in File |-> "queued"]
    /\ saved = {} /\ left = {} /\ crashes = 0

UnitStep(a) == Unreadable(a) \/ Send(a) \/ Receive(a) \/ GiveUp(a) \/ Finish(a)
ServiceStep(c) ==
    \/ Write(c) \/ Draw(c) \/ Read(c) \/ ReadLayer(c)
    \/ Judge(c) \/ Leave(c)
WorkerStep(f) == Ask(f) \/ Hear(f) \/ Lose(f)

Next ==
    \/ \E a \in Candidate : UnitStep(a)
    \/ \E c \in Call : ServiceStep(c)
    \/ \E f \in File : WorkerStep(f)
    \/ Crash

\* A unit goes on by itself, with or without the service.
Fairness == \A a \in Candidate : WF_vars(UnitStep(a))

Spec == Init /\ [][Next]_vars /\ Fairness

-----------------------------------------------------------------------------

Answers == [status : {"processed", "unsupported", "ocr_failed", "processing_failed"},
            type : Type, score : {NoScore} \cup (0..140), tier : Tier,
            passed : {"open", "passed", "missed"},
            authenticity : {"likely_authentic", "suspicious",
                            "insufficient_quality", "manual_review_required"},
            error : BOOLEAN, forced : BOOLEAN]

\* The variables have their types; a row has no role exactly when its document
\* was not there.
TypeOK ==
    /\ force \in BOOLEAN
    /\ \A a \in Candidate :
          /\ unit[a].pc \in {"ready", "waits", "ended"}
          /\ unit[a].status \in {"none", "completed", "manual_review_required"}
          /\ Len(unit[a].rows) <= Len(Attached(a))
          /\ \A i \in DOMAIN unit[a].rows :
                LET row == unit[a].rows[i]
                IN  /\ row.slot = Attached(a)[i] /\ row.answer \in Answers
                    /\ row.role \in Slot \cup {"none"}
                    /\ row.role = "none" <=> row.code = "document_not_found"
    /\ \A c \in Call :
          /\ call[c].pc \in {"idle", "sent", "written", "drawn", "read", "typed",
                            "leaves", "answered"}
          /\ call[c].doc \in Document \cup {NoDoc} /\ call[c].answer \in Answers
          /\ scratch[Directory(c)] \in [source : Document \cup {NoDoc},
                                       image : Document \cup {NoDoc}]
    /\ check \in [File -> {"queued", "processing", "passed",
                           "manual_review_required", "failed"}]
    /\ saved \subseteq File /\ left \subseteq Call \ File /\ crashes \in 0..Crashes

Rows(a) == {unit[a].rows[i] : i \in DOMAIN unit[a].rows}
DocOf(a, row) == form[a][row.slot]
DeclaredFor(a, row) == Declared(RoleOf(a, DocOf(a, row)), form[a].kinds)
Genuine(row) == row.code = "none" /\ ~row.answer.forced

\* The text of the document, at best.
Whole(doc) == Joined(Page[doc], Faint[doc])

\* An answer the unit keeps was read from the very document it was asked about:
\* neither another upload that is being read at the same time nor the late
\* answer to an earlier call of the unit gets into it.
OwnDocument ==
    \A a \in Candidate : \A row \in Rows(a) :
        Genuine(row) =>
            LET doc == DocOf(a, row)
            IN  row.answer \in {OcrFailed, ProcessingFailed} \cup
                   {Verdict(Page[doc], text, DeclaredFor(a, row)) :
                       text \in {Page[doc], Whole(doc)}}

\* A unit ends as completed only when every certificate is what it was declared
\* to be, as far as its text tells, and its score stands in it; unless scores
\* are forced.
CompletedIsProven ==
    \A a \in Candidate :
        unit[a].status = "completed" /\ ~force =>
            /\ Rows(a) # {}
            /\ \A row \in Rows(a) :
                  LET doc == DocOf(a, row)
                      type == row.answer.type
                  IN  /\ Classify(Page[doc].marks) \in {"unknown", type}
                      /\ DeclaredFor(a, row) \in {"unknown", type}
                      /\ \E i \in DOMAIN Whole(doc).figures :
                            Whole(doc).figures[i].value = row.answer.score

\* A threshold counts as passed for the exam the document shows, by a figure
\* that reaches it, unless the score was forced; and only an attachment with a
\* role of its own is ever forced.
PassedIsEarned ==
    \A a \in Candidate : \A row \in Rows(a) :
        row.answer.passed = "passed" =>
            LET doc == DocOf(a, row)
                need == IF row.answer.type = "ielts" THEN 12 ELSE ToeflThreshold
            IN  IF row.answer.forced
                THEN force /\ row.role \in {"english", "certificate"}
                           /\ row.code \in {"none", "validation_http_failed"}
                ELSE /\ Classify(Page[doc].marks) \in {"unknown", row.answer.type}
                     /\ \E i \in DOMAIN Whole(doc).figures :
                           Whole(doc).figures[i].value >= need

\* An upload stays on the service's disk no longer than its call, except where
\* the service was killed or the directory could not be removed.
ScratchFollows ==
    \A c \in Call \ File :
        scratch[Directory(c)] # Empty => c \in InService \cup left

\* A check of the orchestrator passes only with an answer that is kept.
PassedIsKept == \A f \in File : check[f] = "passed" => f \in saved

\* Whatever becomes of the service, every unit ends.
UnitsEnd == \A a \in Candidate : <>(unit[a].pc = "ended")

\* A good verdict is earned, for a candidate and for the platform alike:
\* completed units are proven, thresholds are reached, and what passes is kept
\* (CertificateValidationProcessor, CertificateValidationOrchestrator).
VerdictsEarned == CompletedIsProven /\ PassedIsEarned /\ PassedIsKept

\* The service is in order, and so is its disk (validate's finally).
ServiceOK == TypeOK /\ ScratchFollows

=============================================================================
