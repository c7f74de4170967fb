------------------------------ MODULE VideoRules ------------------------------
(***************************************************************************)
(* What the API decides about a candidate's video presentation:            *)
(* which links can be one (services/link_validation), in what order the    *)
(* subtitles of a YouTube video are tried, what of a text counts as        *)
(* speech, and what the commission gets as its summary                     *)
(* (services/video_processing).                                            *)
(*                                                                         *)
(* A link is the site it names and the kind of its path; a page is what a  *)
(* request for it brought.  A text is the sequence of its lines; lengths   *)
(* the code counts in characters are counted in lines.                     *)
(***************************************************************************)
EXTENDS Integers, Sequences, FiniteSets, SequencesExt

CONSTANTS
    MinSpoken,     \* MIN_TRANSCRIPT_CHARS: less is no speech
    MinSummed,     \* less is not sent to the language model
    MinPoints      \* the sentences a summary must have

ASSUME LengthAssumption == {MinSpoken, MinSummed, MinPoints} \subseteq Nat

-----------------------------------------------------------------------------
(* Links.                                                                  *)

ProviderOf(link) ==
    CASE link.host \in {"youtube", "youtu_be"} -> "youtube"
      [] link.host = "drive" -> "google_drive"
      [] link.host = "docs" -> "google_docs"
      [] link.host \in {"dropbox", "onedrive", "vimeo"} -> link.host
      [] OTHER -> "generic"

\* parse_youtube_video_id: does the link name one video?
IsYouTubeVideo(link) ==
    \/ link.host = "youtube" /\ link.path \in {"watch", "embed"}
    \/ link.host = "youtu_be" /\ link.path = "id"

\* extract_google_drive_file_id, of the validation and of the ingestion.
NamesFile(link) == link.path \in {"file_d", "id_query"}

Cloud == {"drive", "docs", "dropbox", "onedrive"}

\* What a request may bring; nothing is known of a page that did not answer.
Answered(code, mime, marks, final) ==
    [got |-> "answer", code |-> code, mime |-> mime, marks |-> marks, final |-> final]
Unanswered(got, link) ==
    [got |-> got, code |-> 0, mime |-> "none", marks |-> {}, final |-> link]

\* The text of a page is read only when the link itself is of a cloud.
Snippet(link, page) ==
    IF link.host \in Cloud /\ page.mime = "html" THEN page.marks ELSE {}

\* cloud_access_hints
CloudErrors(link, page) ==
    IF ProviderOf(page.final) \notin {"google_drive", "google_docs", "dropbox", "onedrive"}
    THEN {}
    ELSE {e \in {"denied", "missing", "restricted"} :
             \/ e = "denied" /\ page.code = 403
             \/ e = "missing" /\ page.code = 404
             \/ e = "restricted" /\ page.code = 200 /\ "denied" \in Snippet(link, page)}

\* determine_availability
Reachable(link, page) ==
    page.got = "answer" /\ CloudErrors(link, page) = {} /\ page.code \in 200..399

AvailabilityErrors(link, page) ==
    IF page.got = "timeout" THEN {}
    ELSE IF page.got = "broken" THEN {"network"}
    ELSE IF CloudErrors(link, page) # {} THEN CloudErrors(link, page)
    ELSE {e \in {"forbidden", "not_found", "server"} :
             \/ e = "forbidden" /\ page.code = 403
             \/ e = "not_found" /\ page.code = 404
             \/ e = "server" /\ page.code \in 500..599}

\* Which site's rules apply: the page the link led to decides, or the link.
Branch(link, page) ==
    LET class == ProviderOf(page.final)
    IN  CASE link.host = "docs" \/ class = "google_docs" -> "docs"
          [] link.host # "docs" /\ class # "google_docs"
               /\ "youtube" \in {class, ProviderOf(link)} -> "youtube"
          [] class \notin {"google_docs", "youtube"}
               /\ ProviderOf(link) \notin {"google_docs", "youtube"}
               /\ "google_drive" \in {class, ProviderOf(link)} -> "google_drive"
          [] OTHER ->
               IF class \in {"dropbox", "onedrive", "vimeo"} THEN class ELSE "direct"

\* (mutated: the file named by the page the link led to)
DriveFileOfPage(link, page) == page.final.path # "folder" /\ NamesFile(page.final)

\* The file the rules for Drive look at.
DriveFile(link, page) == link.path # "folder" /\ NamesFile(link)

\* Whether a second request tells what kind of file it is.
NeedsHead(link, page) ==
    /\ Branch(link, page) = "google_drive" /\ DriveFile(link, page)
    /\ Snippet(link, page) \cap {"apps", "video"} = {}
    /\ page.mime = "html"

NoHead == Unanswered("none", "none")

\* The extension of the page, else of the link.
Extension(link, page) ==
    IF page.final.ext = "none" THEN link.ext ELSE page.final.ext

\* evaluate_presentation_video: does the link lead to a video?
Processable(link, page, head) ==
    LET marks == Snippet(link, page)
    IN  CASE Branch(link, page) = "youtube" ->
                 IsYouTubeVideo(page.final) \/ IsYouTubeVideo(link)
          [] Branch(link, page) = "google_drive" ->
                 /\ DriveFile(link, page) /\ "apps" \notin marks
                 /\ \/ page.mime = "video" \/ "video" \in marks
                    \/ head.mime = "video"
                    \/ head.mime = "octet" /\ head.code \in 200..399
          [] Branch(link, page) = "dropbox" ->
                 /\ "folder" \notin {link.path, page.final.path}
                 /\ page.mime = "video" \/ "video" \in {link.ext, page.final.ext}
          [] Branch(link, page) = "direct" ->
                 \/ page.mime = "video"
                 \/ Extension(link, page) = "video" /\ page.mime # "html"
          [] OTHER -> FALSE

\* The link passes: a video, reachable, and nothing against it.
Valid(link, page, head) ==
    /\ Processable(link, page, head)
    /\ Reachable(link, page) /\ AvailabilityErrors(link, page) = {}

\* _resolve_ingestion_source: is there something to load from the link?
Ingestible(provider, link) ==
    CASE provider = "google_drive" -> NamesFile(link)
      [] provider = "dropbox" -> link.host # "dropbox" \/ link.path # "folder"
      [] OTHER -> TRUE

-----------------------------------------------------------------------------
(* Subtitles and speech.                                                   *)

Languages == <<"ru", "en", "kk", "tr">>
Caption == [lang : ToSet(Languages), source : {"manual", "auto"}]

\* The track that is tried first: Russian, English, any; then what a person
\* wrote before what a machine did; then by the name of the language.
Before(t, u) ==
    LET name(l) == CHOOSE i \in DOMAIN Languages : Languages[i] = l
        class(l) == IF name(l) > 3 THEN 3 ELSE name(l)
        auto(x) == IF x.source = "manual" THEN 0 ELSE 1
    IN  \/ class(t.lang) < class(u.lang)
        \/ /\ class(t.lang) = class(u.lang)
           /\ \/ auto(t) < auto(u)
              \/ auto(t) = auto(u) /\ name(t.lang) < name(u.lang)

\* (mutated: what a person wrote goes before the language)
FirstBySource(tracks) ==
    CHOOSE t \in tracks : \A u \in tracks \ {t} :
        \/ t.source = "manual" /\ u.source = "auto"
        \/ t.source = u.source /\ Before(t, u)

\* The one of the tracks that are left that is tried next
\* (_iter_caption_candidates, which sorts them once).
First(tracks) == CHOOSE t \in tracks : \A u \in tracks \ {t} : Before(t, u)

Technical == {"header", "time"}

\* _clean_transcript_for_summary
Cleaned(text) == SelectSeq(text, LAMBDA l : l \notin Technical)

\* _normalize_caption_text: subtitles repeat a line while it rolls, and each
\* counts once; in what order they stand makes no difference below.
Captions(text) == SetToSeq(ToSet(text) \ Technical)

HasSpeech(text) == Len(text) >= MinSpoken

\* _extractive_summary_from_transcript
Extractive(text) == IF Len(text) >= MinPoints THEN "extract" ELSE "no_text"

\* _build_commission_summary: what the model wrote is used if it is a summary.
SummaryOf(text, model) ==
    IF ~HasSpeech(text) THEN "no_text"
    ELSE IF model = "summary" /\ Len(text) >= MinSummed THEN "summary"
    ELSE Extractive(text)

-----------------------------------------------------------------------------
(* _detect_video_error_code: the first kind of message that was left; the  *)
(* message about a missing tool always names yt-dlp.                       *)

Codes == <<"asr", "captions", "metadata", "summary", "tool", "timeout", "probe",
           "download", "other">>

CodeOf(said) ==
    LET named == [asr |-> "asr_unavailable", captions |-> "captions_unavailable",
                  metadata |-> "metadata_fetch_failed", summary |-> "summary_unavailable",
                  tool |-> "missing_ytdlp", timeout |-> "media_tool_timeout",
                  probe |-> "probe_failed", download |-> "ingestion_failed",
                  other |-> "video_processing_error"]
        first == CHOOSE i \in DOMAIN Codes :
                    /\ Codes[i] \in said
                    /\ \A j \in DOMAIN Codes : j < i => Codes[j] \notin said
    IN  IF said = {} THEN "none" ELSE named[Codes[first]]
=============================================================================
