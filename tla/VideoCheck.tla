------------------------------ MODULE VideoCheck ------------------------------
(***************************************************************************)
(* The check of the video presentation: the worker of the unit looks at    *)
(* the link that the education section holds, asks YouTube for subtitles   *)
(* or loads the file and looks at frames and listens to the sound, has the *)
(* text summed up and writes a row of results (services/video_processing,  *)
(* data_check/processors/video_validation_processor.py).                   *)
(*                                                                         *)
(* Every call of another program or service may fail or run into its       *)
(* timeout; the worker may be killed at any point and the unit is then     *)
(* begun again.  What a page says may differ from one request to another.  *)
(***************************************************************************)
EXTENDS VideoRules

CONSTANTS
    Link,          \* the links that may be given
    NoLink,
    Target,        \* the links each of them may lead to
    Status,        \* the codes with which pages and files answer
    Mime, Mark,    \* what they are, what their text shows
    Tracks,        \* the sets of subtitles a video may have
    Text,          \* the texts that subtitles or the recognition may give
    Duration,      \* how long a video may be, in minutes
    RetryAttempts, \* retry_attempts of a request
    SampleFrames, MinFrames,   \* SAMPLE_FRAME_COUNT, MIN_FRAMES_FOR_VISIBILITY_UI
    LongestYouTube,            \* MAX_YOUTUBE_SUMMARY_DURATION_SEC
    LongestInput,              \* MAX_INPUT_DURATION_SEC
    Kills          \* how often the worker may be killed

ASSUME VideoAssumption ==
    /\ NoLink \notin Link
    /\ Tracks \subseteq SUBSET Caption
    /\ \A text \in Text : text \in Seq(ToSet(text))
    /\ Duration \subseteq Nat /\ 0 \in Duration   \* or it is not known
    /\ RetryAttempts \in Nat \ {0}
    /\ {SampleFrames, MinFrames, LongestYouTube, LongestInput, Kills} \subseteq Nat

VARIABLES
    link,       \* presentation_video_url of the validated section
    run,        \* what the worker does for the unit
    disk,       \* the temporary files of the run
    left,       \* those of killed runs
    row,        \* the row of results that was written
    kills

vars == <<link, run, disk, left, row, kills>>

-----------------------------------------------------------------------------

Pages(l) ==
    {Unanswered(g, l) : g \in {"timeout", "broken"}} \cup
    {Answered(c, m, s, f) : c \in Status, m \in Mime,
                            s \in {{}} \cup {{x} : x \in Mark}, f \in Target[l]}
Heads == {Unanswered(g, "none") : g \in {"timeout", "broken"}} \cup
         {Answered(c, m, {}, "none") : c \in Status, m \in Mime}

\* A link is saved only if it passed then (validate_education_presentation_
\* video_url); a missing scheme is added for that check, not to what is saved.
Saved == {l \in Link : \E p \in Pages(l), h \in {NoHead} \cup Heads : Valid(l, p, h)}

Idle == [pc |-> "idle", tries |-> 0, page |-> NoHead, provider |-> "none", said |-> {},
         code |-> "none", video |-> FALSE, audio |-> FALSE, duration |-> 0, frame |-> 0, frames |-> 0,
         face |-> FALSE, todo |-> {}, asked |-> {}, fault |-> "none", text |-> <<>>]

\* run_video_validation_processing: ok, partial, else failed.
UnitStatus(media, errors) ==
    CASE media = "ready" /\ ~errors -> "completed"
      [] media = "partial" -> "manual_review_required"
      [] OTHER -> "failed"

\* A video_validation_results row, and the status the unit ends with.
Row(media, errors, code, summary, r) ==
    [status |-> UnitStatus(media, errors), code |-> code, summary |-> summary,
     youtube |-> r.provider = "youtube", video |-> r.video, duration |-> r.duration,
     frames |-> r.frames, face |-> r.face, text |-> r.text]

NoRow == [Row("none", FALSE, "none", "none", Idle) EXCEPT !.status = "none"]

\* The temporary files are removed, however the run ends (finally).
CleanUp == disk' = {}

Writes(result) ==
    /\ row' = result
    /\ run' = [Idle EXCEPT !.pc = "ended"]
    /\ CleanUp
    /\ UNCHANGED <<link, left, kills>>

Ends(media, errors, summary, r) ==
    Writes(Row(media, errors, IF r.code # "none" THEN r.code ELSE CodeOf(r.said),
               summary, r))

\* _failed_outcome_with_context: nothing of what was found is kept.
Fails(said, code) ==
    Ends("failed", TRUE, "no_text",
         [Idle EXCEPT !.provider = run.provider, !.said = run.said \cup said, !.code = code])

Goes(r) == run' = r /\ UNCHANGED <<link, left, row, kills>>
GoesOn(r) == Goes(r) /\ UNCHANGED disk

-----------------------------------------------------------------------------
(* The link.                                                               *)

\* No link: a person decides, and there is no row.
Skip ==
    /\ run.pc = "idle" /\ link = NoLink
    /\ Writes([NoRow EXCEPT !.status = "manual_review_required"])

Begin ==
    /\ run.pc = "idle" /\ link # NoLink
    /\ IF link.scheme
       THEN GoesOn([Idle EXCEPT !.pc = "probing", !.tries = 1])
       ELSE Fails({"other"}, "none")

\* What was read of the link decides how, and whether, the run goes on.
Judged(page, head) ==
    IF ~Valid(link, page, head) THEN Fails({"other"}, "none")
    ELSE GoesOn([Idle EXCEPT
                    !.pc = IF Branch(link, page) = "youtube" THEN "metadata" ELSE "valid",
                    !.provider = Branch(link, page),
                    !.said = IF head.mime = "octet" THEN {"other"} ELSE {}])

\* A request is repeated when nothing answers (HttpProbeClient.probe).
Probe ==
    /\ run.pc = "probing"
    /\ \E page \in Pages(link) :
          IF page.got # "answer" /\ run.tries < RetryAttempts
          THEN GoesOn([run EXCEPT !.tries = @ + 1])
          ELSE IF NeedsHead(link, page)
          THEN GoesOn([run EXCEPT !.pc = "heading", !.page = page, !.tries = 1])
          ELSE Judged(page, NoHead)

\* The second request for a file on Drive (HttpProbeClient.head).
HeadFile ==
    /\ run.pc = "heading"
    /\ \E head \in Heads :
          IF head.got # "answer" /\ run.tries < RetryAttempts
          THEN GoesOn([run EXCEPT !.tries = @ + 1])
          ELSE Judged(run.page, head)

-----------------------------------------------------------------------------
(* YouTube: metadata and subtitles, nothing is loaded.                     *)

\* fetch_youtube_metadata
Metadata ==
    /\ run.pc = "metadata"
    /\ \/ \E code \in {"missing_ytdlp", "metadata_rate_limited", "metadata_fetch_failed"} :
             Fails({"metadata"}, code)
       \/ \E video \in BOOLEAN, d \in Duration :
             LET r == [run EXCEPT !.pc = "subtitles", !.video = video, !.duration = d]
             IN  CASE ~video -> Fails({"other"}, "metadata_video_track_missing")
                   [] video /\ d = 0 -> Fails({"other"}, "metadata_duration_missing")
                   [] video /\ d > LongestYouTube -> Ends("ready", FALSE, "too_long", r)
                   [] OTHER -> GoesOn(r)

\* No subtitles: the video is left to a person.
NoCaptions(r, code) ==
    Ends("partial", FALSE, "no_text",
         [r EXCEPT !.said = @ \cup {"captions"}, !.code = code, !.text = <<>>])

\* fetch_youtube_captions_text, up to the list of tracks.
Subtitles ==
    /\ run.pc = "subtitles"
    /\ \/ \E code \in {"missing_ytdlp", "captions_rate_limited", "captions_fetch_failed"} :
             NoCaptions(run, code)
       \/ \E tracks \in Tracks :
             IF tracks = {} THEN NoCaptions(run, "captions_unavailable")
             ELSE /\ Goes([run EXCEPT !.pc = "track", !.todo = tracks])
                  /\ disk' = {"subtitles"}

\* (mutated: a track that could not be fetched is asked for again)
AfterUntilFetched(got) ==
    IF got \in {"nothing", "text"} THEN run.todo \ {First(run.todo)} ELSE run.todo

\* The tracks that are still to be tried.
After(got) == run.todo \ {First(run.todo)}

Asked(got) ==
    [run EXCEPT !.todo = After(got),
                !.asked = @ \cup {[track |-> First(run.todo), got |-> got]}]

\* One track after the other, up to the first that has a text.
Track ==
    /\ run.pc = "track" /\ run.todo # {}
    /\ \/ \E fault \in {"captions_rate_limited", "captions_fetch_failed"} :
             GoesOn([Asked(fault) EXCEPT !.fault = fault])
       \/ \E text \in Text :
             LET said == Captions(text)
             IN  CASE said = <<>> -> GoesOn(Asked("nothing"))
                   [] said # <<>> /\ ~HasSpeech(said) ->
                          Ends("partial", FALSE, "no_text",
                               [Asked("text") EXCEPT !.code = "captions_text_too_short",
                                                     !.text = said])
                   [] OTHER ->
                          /\ Goes([Asked("text") EXCEPT !.pc = "summary", !.text = said])
                          /\ CleanUp

\* A call that runs into its timeout ends the search.
TrackTimesOut ==
    run.pc = "track" /\ run.todo # {} /\ NoCaptions(run, "captions_fetch_failed")

\* (mutated: the last fault is forgotten)
LastWordUnavailable(fault) == "captions_unavailable"

\* What is said when no track had a text: the last fault, if there was one.
LastWord(fault) == IF fault = "none" THEN "captions_unavailable" ELSE fault

NoTrackLeft ==
    /\ run.pc = "track" /\ run.todo = {}
    /\ NoCaptions(run, LastWord(run.fault))

-----------------------------------------------------------------------------
(* Other sites: the file is loaded, looked at and listened to.             *)

\* _resolve_ingestion_source
Resolve ==
    /\ run.pc = "valid"
    /\ IF Ingestible(run.provider, link) THEN GoesOn([run EXCEPT !.pc = "scratch"])
       ELSE Fails({"other"}, "none")

\* The processor's own handler: the run could not even make its files.
Breaks == Writes(Row("failed", TRUE, "video_pipeline_exception", "none", Idle))

\* mkdtemp, make_temp_video_path: there may be no room.
Scratch ==
    /\ run.pc = "scratch"
    /\ \/ Breaks
       \/ Goes([run EXCEPT !.pc = "loading"]) /\ disk' = {"directory", "video"}

\* download_media_url_to_file
Load ==
    /\ run.pc = "loading"
    /\ \/ \E why \in {"download", "timeout", "tool"} : Fails({why}, "none")
       \/ GoesOn([run EXCEPT !.pc = "reading"])

\* What is loaded of a video: no more than its longest.
Loaded(d) == IF d > LongestInput THEN LongestInput ELSE d

\* probe_media_metadata
Measured == [video : BOOLEAN, audio : BOOLEAN, length : {Loaded(d) : d \in Duration}]

\* What was loaded is measured; it must be a video of some length.
Read ==
    /\ run.pc = "reading"
    /\ \/ \E why \in {"probe", "timeout", "tool", "other"} : Fails({why}, "none")
       \/ \E file \in Measured :
             IF ~file.video \/ file.length = 0 THEN Fails({"other"}, "none")
             ELSE GoesOn([run EXCEPT !.pc = "frames", !.video = TRUE, !.audio = file.audio,
                            !.duration = file.length])

\* frame_has_face: a picture that cannot be analysed has none.
Faces == {TRUE, FALSE}

\* The frame at the middle of each part is taken (extract_frame_png) and
\* looked at.
Frame ==
    /\ run.pc = "frames" /\ run.frame < SampleFrames
    /\ \/ GoesOn([run EXCEPT !.frame = @ + 1, !.said = @ \cup {"other"}])
       \/ \E face \in Faces :
             GoesOn([run EXCEPT !.frame = @ + 1, !.frames = @ + 1, !.face = @ \/ face])

\* transcribe_audio_wav
Transcriptions == {[done |-> FALSE, text |-> <<>>]} \cup [done : {TRUE}, text : Text]

Heard(text, code, said) ==
    GoesOn([run EXCEPT !.pc = "summary", !.text = Cleaned(text), !.code = code,
                       !.said = @ \cup said])

\* extract_audio_wav_16k_mono and transcribe_audio_wav.
Listen ==
    /\ run.pc = "frames" /\ run.frame = SampleFrames
    /\ IF ~run.audio THEN Heard(<<>>, "audio_track_missing", {"other"})
       ELSE \/ Heard(<<>>, "audio_extract_failed", {"other"})
            \/ \E tr \in Transcriptions :
                  Heard(tr.text, IF tr.done THEN "none" ELSE "asr_unavailable",
                        IF tr.done THEN {} ELSE {"asr"})

\* Whether the frames say nothing of whether the candidate is to be seen.
TooFewFrames(frames) == frames < MinFrames

\* summarize_transcript_ru: what the model wrote may be no summary, or the text
\* itself; it is not asked about a short one.
ModelAnswers(text) ==
    IF ~HasSpeech(text) THEN {"nothing"}
    ELSE IF Len(text) < MinSummed THEN {"nothing", "fault"}
    ELSE {"summary", "dump", "nothing", "fault"}

\* The summary, and the verdict on the whole.
Sum ==
    /\ run.pc = "summary"
    /\ \E model \in ModelAnswers(run.text) :
          LET warned == CASE model = "fault" -> {"summary"}
                          [] model = "dump" -> {"other"}
                          [] OTHER -> {}
              errors == run.provider # "youtube" /\ TooFewFrames(run.frames)
              deaf == run.code = "asr_unavailable" /\ ~HasSpeech(run.text)
          IN  Ends(IF errors \/ deaf THEN "partial" ELSE "ready", errors,
                   SummaryOf(run.text, model), [run EXCEPT !.said = @ \cup warned])

-----------------------------------------------------------------------------

\* The worker is killed; what it wrote to the disk stays there.
Kill ==
    /\ run.pc \notin {"idle", "ended"} /\ kills < Kills
    /\ run' = Idle /\ kills' = kills + 1
    /\ left' = left \cup disk /\ disk' = {}
    /\ UNCHANGED <<link, row>>

Init ==
    /\ link \in Saved \cup {NoLink}
    /\ run = Idle /\ disk = {} /\ left = {}
    /\ row = NoRow
    /\ kills = 0

Step ==
    \/ Skip \/ Begin \/ Probe \/ HeadFile
    \/ Metadata \/ Subtitles \/ Track \/ TrackTimesOut \/ NoTrackLeft
    \/ Resolve \/ Scratch \/ Load \/ Read \/ Frame \/ Listen \/ Sum

Next == Step \/ Kill

\* Every call has a timeout, and a unit whose worker died is begun again.
Fairness == WF_vars(Step)

Spec == Init /\ [][Next]_vars /\ Fairness

-----------------------------------------------------------------------------

\* The variables have their types; no more of a file is measured than is loaded.
TypeOK ==
    /\ link \in Link \cup {NoLink}
    /\ run.tries \in 0..RetryAttempts /\ run.frames <= run.frame
    /\ run.frame \in 0..SampleFrames /\ run.duration \in Duration \cup {LongestInput}
    /\ row.status \in {"none", "completed", "manual_review_required", "failed"}
    /\ row.summary \in {"none", "no_text", "too_long", "summary", "extract"}
    /\ row.youtube \/ row.duration <= LongestInput
    /\ row.frames \in 0..SampleFrames /\ kills \in 0..Kills

\* What the validation of a link lets pass, the ingestion can load: the two
\* read the file and the folder out of the link each in its own way.
ValidIsLoadable == run.pc = "valid" => Ingestible(run.provider, link)

\* The text of a YouTube video is of a track to which none of those that were
\* not tried is to be preferred.
BestTrackWins ==
    run.pc = "summary" /\ run.provider = "youtube" =>
        \A t \in {a.track : a \in {b \in run.asked : b.got = "text"}},
           u \in run.todo :
              /\ u.lang = "ru" => t.lang = "ru"
              /\ u.lang = "en" => t.lang \in {"ru", "en"}
              /\ t.lang = u.lang => t.source = "manual"

\* Only when every track was fetched and none had a text are the subtitles
\* called unavailable: a fault on the way is reported as the fault.
UnavailableIsCertain ==
    [][run.pc = "track" /\ row'.code = "captions_unavailable" =>
          run.todo = {} /\ \A a \in run.asked : a.got = "nothing"]_vars

\* A presentation that counts as checked was a video of some length and, where
\* the file was loaded, enough of its frames could be looked at; a failed
\* recognition is never taken for silence.
CompletedIsWatchable ==
    row.status = "completed" =>
        /\ row.video /\ row.duration > 0
        /\ row.youtube \/ row.frames >= MinFrames
        /\ row.code = "asr_unavailable" => Len(row.text) >= MinSpoken

\* The commission gets a summary only of a text that says enough; subtitles
\* that repeat a line while it rolls have said it once.
SummaryHasSpeech ==
    row.summary \in {"summary", "extract"} =>
        IF row.youtube THEN Cardinality(ToSet(row.text)) >= MinSpoken
        ELSE Len(row.text) >= MinSpoken

\* The temporary files are those of the step at hand, and none stay behind but
\* those of a worker that was killed.
FilesFollow ==
    /\ disk = CASE run.pc = "track" -> {"subtitles"}
                [] run.pc \in {"loading", "reading", "frames"} -> {"directory", "video"}
                [] run.pc = "summary" /\ run.provider # "youtube" ->
                       {"directory", "video"}
                [] OTHER -> {}
    /\ left # {} => kills > 0

\* Every unit ends, whatever the sites and the tools do.
UnitEnds == <>(run.pc = "ended")

\* What a unit says of the presentation is so: the best track, a video that
\* can be watched, a summary of something said, and no file left behind
\* (run_presentation_pipeline, VideoValidationProcessor).
UnitOK ==
    TypeOK /\ BestTrackWins /\ CompletedIsWatchable /\ SummaryHasSpeech /\ FilesFollow

=============================================================================
