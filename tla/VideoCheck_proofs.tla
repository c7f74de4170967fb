--------------------------- MODULE VideoCheck_proofs ---------------------------
(***************************************************************************)
(* Proofs about VideoCheck, for every link and where it leads, every set   *)
(* of subtitles, every text, duration, limit and number of kills.          *)
(***************************************************************************)
EXTENDS VideoCheck, FiniteSetTheorems, WellFoundedInduction, TLAPS

-----------------------------------------------------------------------------
(* The operators of VideoRules.                                            *)

\* A set of numbers has a least one (the sort of _iter_caption_candidates).
LEMMA Least ==
    ASSUME NEW T, T \subseteq Nat, T # {}
    PROVE  \E x \in T : \A y \in T : x <= y
<1>1. \E x \in T : \A y \in T : ~ (<<y, x>> \in OpToRel(<, Nat))
    BY WFMin, NatLessThanWellFounded
<1>2. \A x, y \in T : (<<y, x>> \notin OpToRel(<, Nat)) => x <= y
    BY DEF OpToRel
<1>. QED  BY <1>1, <1>2

\* Where a language stands in the order of the tracks.
Place(l) == CASE l = "ru" -> 1 [] l = "en" -> 2 [] l = "kk" -> 3 [] OTHER -> 4

LEMMA LanguagesAre == ToSet(Languages) = {"ru", "en", "kk", "tr"}
<1>1. /\ DOMAIN Languages = 1..4
      /\ Languages[1] = "ru" /\ Languages[2] = "en"
      /\ Languages[3] = "kk" /\ Languages[4] = "tr"
    BY DEF Languages
<1>2. DOMAIN Languages = {1, 2, 3, 4}
    BY <1>1
<1>. HIDE DEF Languages
<1>. QED  BY <1>1, <1>2 DEF ToSet

LEMMA PlaceOf ==
    ASSUME NEW l \in {"ru", "en", "kk", "tr"}
    PROVE  (CHOOSE i \in DOMAIN Languages : Languages[i] = l) = Place(l)
<1>1. /\ DOMAIN Languages = 1..4
      /\ Languages[1] = "ru" /\ Languages[2] = "en"
      /\ Languages[3] = "kk" /\ Languages[4] = "tr"
    BY DEF Languages
<1>2. Place(l) \in 1..4
    BY DEF Place
<1>3. \A i \in 1..4 : Languages[i] = l <=> i = Place(l)
    <2>1. \A i \in 1..4 : i = 1 \/ i = 2 \/ i = 3 \/ i = 4
        OBVIOUS
    <2>. QED  BY <1>1, <2>1 DEF Place
<1>. QED  BY <1>1, <1>2, <1>3

Group(l) == IF Place(l) > 3 THEN 3 ELSE Place(l)
ByMachine(t) == IF t.source = "manual" THEN 0 ELSE 1

\* What Before says of two tracks.
LEMMA BeforeIs ==
    ASSUME NEW t \in Caption, NEW u \in Caption
    PROVE  Before(t, u) <=>
               \/ Group(t.lang) < Group(u.lang)
               \/ /\ Group(t.lang) = Group(u.lang)
                  /\ \/ ByMachine(t) < ByMachine(u)
                     \/ ByMachine(t) = ByMachine(u) /\ Place(t.lang) < Place(u.lang)
<1>1. t.lang \in {"ru", "en", "kk", "tr"} /\ u.lang \in {"ru", "en", "kk", "tr"}
    BY LanguagesAre DEF Caption
<1>2. /\ (CHOOSE i \in DOMAIN Languages : Languages[i] = t.lang) = Place(t.lang)
      /\ (CHOOSE i \in DOMAIN Languages : Languages[i] = u.lang) = Place(u.lang)
    BY <1>1, PlaceOf
<1>. QED  BY <1>2 DEF Before, Group, ByMachine

Rank(t) == 10 * Group(t.lang) + 5 * ByMachine(t) + Place(t.lang)

LEMMA RankDecides ==
    ASSUME NEW t \in Caption, NEW u \in Caption, t # u, Rank(t) <= Rank(u)
    PROVE  Before(t, u)
<1>1. /\ t.lang \in {"ru", "en", "kk", "tr"} /\ u.lang \in {"ru", "en", "kk", "tr"}
      /\ t.source \in {"manual", "auto"} /\ u.source \in {"manual", "auto"}
    BY LanguagesAre DEF Caption
<1>2. t.lang # u.lang \/ t.source # u.source
    BY DEF Caption
<1>3. /\ ByMachine(t) \in {0, 1} /\ ByMachine(u) \in {0, 1}
      /\ t.source # u.source => ByMachine(t) # ByMachine(u)
    BY <1>1 DEF ByMachine
<1>4. /\ Place(t.lang) \in 1..4 /\ Place(u.lang) \in 1..4
      /\ t.lang # u.lang => Place(t.lang) # Place(u.lang)
    BY <1>1 DEF Place
<1>5. \A i, j \in 1..4, a, b \in {0, 1} :
         LET g == IF i > 3 THEN 3 ELSE i
             h == IF j > 3 THEN 3 ELSE j
         IN  /\ i # j \/ a # b
             /\ 10 * g + 5 * a + i <= 10 * h + 5 * b + j
             => g < h \/ (g = h /\ (a < b \/ (a = b /\ i < j)))
    OBVIOUS
<1>6. \/ Group(t.lang) < Group(u.lang)
      \/ /\ Group(t.lang) = Group(u.lang)
         /\ \/ ByMachine(t) < ByMachine(u)
            \/ ByMachine(t) = ByMachine(u) /\ Place(t.lang) < Place(u.lang)
    <2>1. Place(t.lang) # Place(u.lang) \/ ByMachine(t) # ByMachine(u)
        BY <1>2, <1>3, <1>4
    <2>2. 10 * Group(t.lang) + 5 * ByMachine(t) + Place(t.lang)
             <= 10 * Group(u.lang) + 5 * ByMachine(u) + Place(u.lang)
        BY DEF Rank
    <2>. QED  BY <1>3, <1>4, <1>5, <2>1, <2>2 DEF Group
<1>. QED  BY <1>6, BeforeIs

\* Of some tracks one goes before all others.
LEMMA FirstIsBefore ==
    ASSUME NEW S, S \subseteq Caption, S # {}
    PROVE  First(S) \in S /\ \A u \in S \ {First(S)} : Before(First(S), u)
<1>1. \A t \in S : Rank(t) \in Nat
    <2>. SUFFICES ASSUME NEW t \in S PROVE Rank(t) \in Nat
        OBVIOUS
    <2>1. Place(t.lang) \in Nat
        BY DEF Place
    <2>2. Group(t.lang) \in Nat
        BY <2>1 DEF Group
    <2>3. ByMachine(t) \in Nat
        BY DEF ByMachine
    <2>. QED  BY <2>1, <2>2, <2>3 DEF Rank
<1>2. PICK n \in {Rank(t) : t \in S} : \A m \in {Rank(t) : t \in S} : n <= m
    <2>1. {Rank(t) : t \in S} \subseteq Nat /\ {Rank(t) : t \in S} # {}
        BY <1>1
    <2>. QED  BY <2>1, Least
<1>3. PICK t \in S : n = Rank(t)
    BY <1>2
<1>4. \A u \in S \ {t} : Before(t, u)
    BY <1>2, <1>3, RankDecides
<1>. QED  BY <1>3, <1>4 DEF First

\* What BestTrackWins asks for follows from that.
LEMMA BeforeIsBetter ==
    ASSUME NEW t \in Caption, NEW u \in Caption, Before(t, u)
    PROVE  /\ u.lang = "ru" => t.lang = "ru"
           /\ u.lang = "en" => t.lang \in {"ru", "en"}
           /\ t.lang = u.lang => t.source = "manual"
<1>1. t.lang \in {"ru", "en", "kk", "tr"} /\ u.lang \in {"ru", "en", "kk", "tr"}
    BY LanguagesAre DEF Caption
<1>2. \/ Group(t.lang) < Group(u.lang)
      \/ /\ Group(t.lang) = Group(u.lang)
         /\ \/ ByMachine(t) < ByMachine(u)
            \/ ByMachine(t) = ByMachine(u) /\ Place(t.lang) < Place(u.lang)
    BY BeforeIs
<1>. QED  BY <1>1, <1>2 DEF Group, ByMachine, Place

\* No line of subtitles counts twice.
LEMMA CaptionsSayOnce ==
    ASSUME NEW text, text \in Seq(ToSet(text))
    PROVE  Cardinality(ToSet(Captions(text))) = Len(Captions(text))
<1>. DEFINE S == ToSet(text) \ Technical
            said == Captions(text)
<1>1. IsFiniteSet(S)
    <2>1. ToSet(text) = {text[i] : i \in 1..Len(text)} /\ Len(text) \in Nat
        BY DEF ToSet
    <2>2. IsFiniteSet(1..Len(text))
        BY <2>1, FS_Interval
    <2>3. IsFiniteSet({text[i] : i \in 1..Len(text)})
        <3>. DEFINE T == {text[i] : i \in 1..Len(text)}
                    f == [i \in 1..Len(text) |-> text[i]]
        <3>1. f \in Surjection(1..Len(text), T)
            BY DEF Surjection
        <3>. HIDE DEF f, T
        <3>2. IsFiniteSet(T)
            BY <2>2, <3>1, FS_Surjection
        <3>. QED  BY <3>2 DEF T
    <2>. QED  BY <2>1, <2>3, FS_Subset
<1>2. Cardinality(S) \in Nat /\ ExistsBijection(1..Cardinality(S), S)
    BY <1>1, FS_CardinalityType
<1>3. said \in [1..Cardinality(S) -> S] /\ IsInjective(said)
    <2>1. \E f \in [1..Cardinality(S) -> S] : IsInjective(f)
        BY <1>2 DEF ExistsBijection, Bijection, Injection
    <2>. HIDE DEF S
    <2>2. said = CHOOSE f \in [1..Cardinality(S) -> S] : IsInjective(f)
        BY DEF Captions, SetToSeq, S
    <2>. HIDE DEF said
    <2>. QED  BY <2>1, <2>2
<1>. HIDE DEF S, said
<1>4. Len(said) = Cardinality(S)
    BY <1>2, <1>3
<1>5. ToSet(said) = {said[i] : i \in 1..Cardinality(S)} /\ DOMAIN said = 1..Cardinality(S)
    BY <1>3 DEF ToSet
<1>6. said \in Bijection(1..Cardinality(S), ToSet(said))
    BY <1>3, <1>5 DEF Bijection, Injection, Surjection, IsInjective
<1>7. IsFiniteSet(1..Cardinality(S)) /\ Cardinality(1..Cardinality(S)) = Cardinality(S)
    BY <1>2, FS_Interval
<1>8. Cardinality(ToSet(said)) = Cardinality(1..Cardinality(S))
    BY <1>6, <1>7, FS_Bijection DEF ExistsBijection
<1>. QED  BY <1>4, <1>7, <1>8 DEF said

LEMMA CodesAre ==
    /\ DOMAIN Codes = 1..9
    /\ ToSet(Codes) = {"asr", "captions", "metadata", "summary", "tool", "timeout",
                       "probe", "download", "other"}
<1>1. /\ DOMAIN Codes = 1..9
      /\ Codes[1] = "asr" /\ Codes[2] = "captions" /\ Codes[3] = "metadata"
      /\ Codes[4] = "summary" /\ Codes[5] = "tool" /\ Codes[6] = "timeout"
      /\ Codes[7] = "probe" /\ Codes[8] = "download" /\ Codes[9] = "other"
    BY DEF Codes
<1>2. 1..9 = {1, 2, 3, 4, 5, 6, 7, 8, 9}
    OBVIOUS
<1>3. ToSet(Codes) = {Codes[1], Codes[2], Codes[3], Codes[4], Codes[5], Codes[6],
                      Codes[7], Codes[8], Codes[9]}
    <2>. HIDE DEF Codes
    <2>. QED  BY <1>1, <1>2 DEF ToSet
<1>. QED  BY <1>1, <1>3

\* The recognition is only blamed when it failed (_detect_video_error_code).
LEMMA AsrIsSaid ==
    ASSUME NEW said, said \subseteq ToSet(Codes), CodeOf(said) = "asr_unavailable"
    PROVE  "asr" \in said
<1>. DEFINE first == CHOOSE i \in DOMAIN Codes :
                        /\ Codes[i] \in said
                        /\ \A j \in DOMAIN Codes : j < i => Codes[j] \notin said
            named == [asr |-> "asr_unavailable", captions |-> "captions_unavailable",
                      metadata |-> "metadata_fetch_failed",
                      summary |-> "summary_unavailable",
                      tool |-> "missing_ytdlp", timeout |-> "media_tool_timeout",
                      probe |-> "probe_failed", download |-> "ingestion_failed",
                      other |-> "video_processing_error"]
<1>1. CodeOf(said) = IF said = {} THEN "none" ELSE named[Codes[first]]
    BY DEF CodeOf
<1>2. said # {}
    BY <1>1
<1>3. Codes[first] \in said
    <2>. DEFINE T == {i \in DOMAIN Codes : Codes[i] \in said}
    <2>1. T \subseteq Nat
        BY CodesAre
    <2>2. T # {}
        BY <1>2 DEF ToSet
    <2>3. PICK i \in T : \A j \in T : i <= j
        <3>. HIDE DEF T
        <3>. QED  BY <2>1, <2>2, Least
    <2>4. \A j \in DOMAIN Codes : j < i => Codes[j] \notin said
        <3>. SUFFICES ASSUME NEW j \in DOMAIN Codes, j < i, Codes[j] \in said
                      PROVE  FALSE
            OBVIOUS
        <3>1. j \in T /\ j \in Nat /\ i \in Nat
            BY <2>1
        <3>2. i <= j
            BY <2>3, <3>1
        <3>. QED  BY <3>1, <3>2
    <2>. HIDE DEF Codes
    <2>. QED  BY <2>3, <2>4
<1>4. named[Codes[first]] = "asr_unavailable"
    BY <1>1, <1>2
<1>5. Codes[first] \in {"asr", "captions", "metadata", "summary", "tool", "timeout",
                        "probe", "download", "other"}
    BY <1>3, CodesAre
<1>6. \A k \in {"asr", "captions", "metadata", "summary", "tool", "timeout",
                "probe", "download", "other"} :
         named[k] = "asr_unavailable" => k = "asr"
    OBVIOUS
<1>. HIDE DEF first, named
<1>. QED  BY <1>3, <1>4, <1>5, <1>6

\* What the rules for a link let pass can be loaded.
LEMMA ValidCanBeLoaded ==
    ASSUME NEW l, NEW page, NEW head, Valid(l, page, head)
    PROVE  Ingestible(Branch(l, page), l)
<1>1. Processable(l, page, head)
    BY DEF Valid
<1>2. CASE Branch(l, page) = "google_drive"
    BY <1>1, <1>2 DEF Processable, DriveFile, Ingestible
<1>3. CASE Branch(l, page) = "dropbox"
    BY <1>1, <1>3 DEF Processable, Ingestible
<1>4. CASE Branch(l, page) \notin {"google_drive", "dropbox"}
    BY <1>4 DEF Ingestible
<1>. QED  BY <1>2, <1>3, <1>4

-----------------------------------------------------------------------------
(* The invariant.                                                          *)

Places == {"idle", "probing", "heading", "metadata", "subtitles", "track", "valid",
           "scratch", "loading", "reading", "frames", "summary", "ended"}
OfYouTube == {"metadata", "subtitles", "track"}
OfFile == {"valid", "scratch", "loading", "reading", "frames"}
Faults == {"captions_rate_limited", "captions_fetch_failed"}
Got == {"nothing", "text"} \cup Faults

\* The fields of a run.
Fields(r) ==
    r \in [pc : Places, tries : 0..RetryAttempts, page : {r.page},
           provider : {r.provider}, said : SUBSET ToSet(Codes), code : {r.code},
           video : BOOLEAN, audio : {r.audio}, duration : Duration \cup {LongestInput},
           frame : 0..SampleFrames, frames : 0..SampleFrames, face : {r.face},
           todo : SUBSET Caption, asked : SUBSET [track : Caption, got : Got],
           fault : {"none"} \cup Faults, text : {r.text}]

\* Which sites are at which place, and that nothing was heard of them so far.
AtItsPlace(r) ==
    /\ r.pc \in OfYouTube => r.provider = "youtube"
    /\ r.pc \in OfFile => r.provider # "youtube"
    /\ r.pc \in OfYouTube \cup OfFile => r.code = "none" /\ "asr" \notin r.said
    /\ r.pc = "summary" /\ "asr" \in r.said => r.code = "asr_unavailable"

\* A run that has come so far has a video of some length.
HasVideo(r) ==
    /\ r.pc \in {"subtitles", "track", "frames", "summary"} => r.video /\ r.duration > 0
    /\ r.pc \in {"frames", "summary"} /\ r.provider # "youtube" =>
          r.duration <= LongestInput

\* The tracks that were asked for have no text, or the last one has.
Search(r) ==
    /\ r.pc \in {"metadata", "subtitles"} => r.asked = {} /\ r.fault = "none"
    /\ r.pc = "track" => \A a \in r.asked : a.got # "text"
    /\ r.pc = "track" /\ r.fault = "none" => \A a \in r.asked : a.got = "nothing"

Best(r) ==
    \A t \in {a.track : a \in {b \in r.asked : b.got = "text"}}, u \in r.todo :
       /\ u.lang = "ru" => t.lang = "ru"
       /\ u.lang = "en" => t.lang \in {"ru", "en"}
       /\ t.lang = u.lang => t.source = "manual"

Told(r) ==
    r.pc = "summary" /\ r.provider = "youtube" =>
        Best(r) /\ Cardinality(ToSet(r.text)) >= MinSpoken

RunOK(r, l) ==
    /\ Fields(r) /\ r.frames <= r.frame
    /\ AtItsPlace(r) /\ HasVideo(r) /\ Search(r) /\ Told(r)
    /\ r.pc = "valid" => Ingestible(r.provider, l)

\* The temporary files of a run.
Files(r) ==
    CASE r.pc = "track" -> {"subtitles"}
      [] r.pc \in {"loading", "reading", "frames"} -> {"directory", "video"}
      [] r.pc = "summary" /\ r.provider # "youtube" -> {"directory", "video"}
      [] OTHER -> {}

RowOK(w) ==
    /\ w.status \in {"none", "completed", "manual_review_required", "failed"}
    /\ w.summary \in {"none", "no_text", "too_long", "summary", "extract"}
    /\ w.youtube \/ w.duration <= LongestInput
    /\ w.frames \in 0..SampleFrames
    /\ w.status = "completed" =>
          /\ w.video /\ w.duration > 0
          /\ w.youtube \/ w.frames >= MinFrames
          /\ w.code = "asr_unavailable" => Len(w.text) >= MinSpoken
    /\ w.summary \in {"summary", "extract"} =>
          IF w.youtube THEN Cardinality(ToSet(w.text)) >= MinSpoken
          ELSE Len(w.text) >= MinSpoken

\* There is no row before the run has ended.
VideoInv ==
    /\ link \in Link \cup {NoLink}
    /\ RunOK(run, link)
    /\ RowOK(row)
    /\ run.pc # "ended" => row = NoRow
    /\ disk = Files(run)
    /\ kills \in 0..Kills /\ (left # {} => kills > 0)

-----------------------------------------------------------------------------
(* How a step ends.                                                        *)

LEMMA Bounds ==
    ASSUME VideoAssumption
    PROVE  /\ NoLink \notin Link
           /\ Tracks \subseteq SUBSET Caption
           /\ Duration \subseteq Nat /\ 0 \in Duration
           /\ RetryAttempts \in Nat \ {0}
           /\ SampleFrames \in Nat /\ MinFrames \in Nat /\ Kills \in Nat
           /\ LongestYouTube \in Nat /\ LongestInput \in Nat
BY DEF VideoAssumption

\* Nothing is under way.
LEMMA IdleOK ==
    ASSUME VideoAssumption, NEW l, NEW pc \in {"idle", "ended", "probing"},
           NEW tries \in 0..RetryAttempts, NEW r,
           r = [pc |-> pc, tries |-> tries, page |-> NoHead, provider |-> "none",
                said |-> {}, code |-> "none", video |-> FALSE, audio |-> FALSE,
                duration |-> 0, frame |-> 0, frames |-> 0, face |-> FALSE,
                todo |-> {}, asked |-> {}, fault |-> "none", text |-> <<>>]
    PROVE  RunOK(r, l)
<1>1. 0 \in 0..SampleFrames /\ 0 \in Duration \cup {LongestInput}
    BY Bounds
<1>2. Fields(r)
    BY <1>1 DEF Fields, Places
<1>3. AtItsPlace(r) /\ HasVideo(r) /\ Search(r) /\ Told(r)
    BY DEF AtItsPlace, HasVideo, Search, Told, OfYouTube, OfFile
<1>. QED  BY <1>2, <1>3 DEF RunOK

LEMMA NoRowOK ==
    ASSUME VideoAssumption
    PROVE  RowOK(NoRow)
BY DEF RowOK, NoRow, Row, Idle, VideoAssumption

\* The run goes on.
LEMMA GoesHolds ==
    ASSUME VideoInv, run.pc # "ended",
           NEW r, Goes(r), RunOK(r, link), r.pc # "ended", disk' = Files(r)
    PROVE  VideoInv'
BY DEF VideoInv, Goes

\* The run ends, and its row is written.
LEMMA WritesHolds ==
    ASSUME VideoAssumption, VideoInv, NEW w, Writes(w), RowOK(w)
    PROVE  VideoInv'
<1>1. 0 \in 0..RetryAttempts
    BY Bounds
<1>2. run' = [Idle EXCEPT !.pc = "ended"]
    BY DEF Writes
<1>3. RunOK(run', link)
    BY <1>1, <1>2, IdleOK DEF Idle
<1>4. run'.pc = "ended"
    BY <1>2 DEF Idle
<1>5. disk' = Files(run')
    BY <1>4 DEF Writes, CleanUp, Files
<1>. QED  BY <1>3, <1>4, <1>5 DEF Writes, VideoInv

\* What ends without an error has failed or is a person's, or is as RowOK says.
LEMMA EndsHolds ==
    ASSUME VideoAssumption, VideoInv, NEW media, NEW errors \in BOOLEAN, NEW summary,
           NEW r, Ends(media, errors, summary, r),
           RowOK(Row(media, errors, IF r.code # "none" THEN r.code ELSE CodeOf(r.said),
                     summary, r))
    PROVE  VideoInv'
BY WritesHolds DEF Ends

\* A run that does not count as checked and sums up nothing: only how much was
\* loaded remains to be shown.
LEMMA PartialHolds ==
    ASSUME VideoAssumption, VideoInv, NEW media \in {"partial", "failed"},
           NEW errors \in BOOLEAN, NEW r, Ends(media, errors, "no_text", r),
           r.provider = "youtube" \/ r.duration <= LongestInput,
           r.frames \in 0..SampleFrames
    PROVE  VideoInv'
<1>. DEFINE code == IF r.code # "none" THEN r.code ELSE CodeOf(r.said)
            w == Row(media, errors, code, "no_text", r)
<1>1. RowOK(w)
    <2>. HIDE DEF code
    <2>. QED  BY DEF RowOK, Row, UnitStatus
<1>. QED  BY <1>1, EndsHolds

LEMMA FailsHolds ==
    ASSUME VideoAssumption, VideoInv, NEW said, NEW code, Fails(said, code)
    PROVE  VideoInv'
<1>. DEFINE r == [Idle EXCEPT !.provider = run.provider, !.said = run.said \cup said,
                             !.code = code]
<1>1. Ends("failed", TRUE, "no_text", r)
    BY DEF Fails
<1>2. r.duration = 0 /\ r.frames = 0
    BY DEF Idle
<1>3. r.duration <= LongestInput /\ r.frames \in 0..SampleFrames
    BY <1>2 DEF VideoAssumption
<1>. HIDE DEF r
<1>. QED  BY <1>1, <1>3, PartialHolds

-----------------------------------------------------------------------------
(* The link.                                                               *)

LEMMA SkipHolds ==
    ASSUME VideoAssumption, VideoInv, Skip
    PROVE  VideoInv'
<1>. DEFINE w == [NoRow EXCEPT !.status = "manual_review_required"]
<1>1. RowOK(w)
    BY Bounds DEF RowOK, NoRow, Row, Idle
<1>2. Writes(w)
    BY DEF Skip
<1>. HIDE DEF w
<1>. QED  BY <1>1, <1>2, WritesHolds

LEMMA BeginHolds ==
    ASSUME VideoAssumption, VideoInv, Begin
    PROVE  VideoInv'
<1>1. CASE link.scheme
    <2>. DEFINE r == [Idle EXCEPT !.pc = "probing", !.tries = 1]
    <2>1. GoesOn(r) /\ run.pc = "idle"
        BY <1>1 DEF Begin
    <2>2. 1 \in 0..RetryAttempts
        BY Bounds
    <2>3. RunOK(r, link)
        <3>1. 0 \in 0..SampleFrames /\ 0 \in Duration \cup {LongestInput}
            BY Bounds
        <3>2. /\ Fields(r) /\ r.pc = "probing" /\ r.said = {}
              /\ r.frames = 0 /\ r.frame = 0
            BY <2>2, <3>1 DEF Idle, Fields, Places
        <3>. HIDE DEF r
        <3>. QED  BY <3>2 DEF RunOK, AtItsPlace, HasVideo, Search, Told, OfYouTube, OfFile
    <2>4. r.pc = "probing"
        BY DEF Idle
    <2>5. disk' = Files(r)
        BY <2>1, <2>4 DEF VideoInv, GoesOn, Files
    <2>. HIDE DEF r
    <2>. QED  BY <2>1, <2>3, <2>4, <2>5, GoesHolds DEF GoesOn
<1>2. CASE ~link.scheme
    BY <1>2, FailsHolds DEF Begin
<1>. QED  BY <1>1, <1>2

\* The same request again.
LEMMA AgainHolds ==
    ASSUME VideoAssumption, VideoInv, run.pc \in {"probing", "heading"},
           run.tries < RetryAttempts, GoesOn([run EXCEPT !.tries = @ + 1])
    PROVE  VideoInv'
<1>. DEFINE r == [run EXCEPT !.tries = @ + 1]
<1>1. RunOK(run, link) /\ disk = Files(run)
    BY DEF VideoInv
<1>2. run.tries + 1 \in 0..RetryAttempts
    BY <1>1, Bounds DEF RunOK, Fields
<1>3. Fields(r) /\ r.pc = run.pc /\ r.said = run.said /\ r.code = run.code
      /\ r.frames = run.frames /\ r.frame = run.frame
    BY <1>1, <1>2 DEF RunOK, Fields
<1>4. RunOK(r, link)
    <2>. HIDE DEF r
    <2>1. AtItsPlace(r) /\ HasVideo(r) /\ Search(r) /\ Told(r)
        BY <1>3 DEF AtItsPlace, HasVideo, Search, Told, OfYouTube, OfFile
    <2>. QED  BY <1>1, <1>3, <2>1 DEF RunOK
<1>5. disk' = Files(r)
    <2>. HIDE DEF r
    <2>. QED  BY <1>1, <1>3 DEF Files, GoesOn
<1>6. GoesOn(r)
    OBVIOUS
<1>. HIDE DEF r
<1>. QED  BY <1>3, <1>4, <1>5, <1>6, GoesHolds DEF GoesOn

\* What was read of the link is judged.
LEMMA JudgedHolds ==
    ASSUME VideoAssumption, VideoInv, run.pc \in {"probing", "heading"},
           NEW page, NEW head, Judged(page, head)
    PROVE  VideoInv'
<1>1. CASE ~Valid(link, page, head)
    BY <1>1, FailsHolds DEF Judged
<1>2. CASE Valid(link, page, head)
    <2>. DEFINE branch == Branch(link, page)
                pc == IF branch = "youtube" THEN "metadata" ELSE "valid"
                said == IF head.mime = "octet" THEN {"other"} ELSE {}
                r == [Idle EXCEPT !.pc = pc, !.provider = branch, !.said = said]
    <2>1. GoesOn(r)
        BY <1>2 DEF Judged
    <2>3. /\ \/ pc = "metadata" /\ branch = "youtube"
             \/ pc = "valid" /\ branch # "youtube"
          /\ said \subseteq {"other"}
        <3>. HIDE DEF branch
        <3>. QED  OBVIOUS
    <2>4. Ingestible(branch, link)
        BY <1>2, ValidCanBeLoaded
    <2>. HIDE DEF branch, pc, said, r
    <2>5. /\ Fields(r) /\ r.pc = pc /\ r.provider = branch /\ r.said = said
          /\ r.code = "none" /\ r.frames = 0 /\ r.frame = 0
          /\ r.asked = {} /\ r.fault = "none"
        <3>1. 0 \in 0..SampleFrames /\ 0 \in Duration \cup {LongestInput}
              /\ 0 \in 0..RetryAttempts
            BY Bounds
        <3>2. said \in SUBSET ToSet(Codes)
            BY <2>3, CodesAre
        <3>. QED  BY <2>3, <3>1, <3>2 DEF Idle, Fields, Places, r
    <2>6. RunOK(r, link)
        BY <2>3, <2>4, <2>5
        DEF RunOK, AtItsPlace, HasVideo, Search, Told, OfYouTube, OfFile
    <2>7. disk = {}
        BY DEF VideoInv, Files
    <2>8. disk' = Files(r)
        BY <2>1, <2>3, <2>5, <2>7 DEF GoesOn, Files
    <2>. QED  BY <2>1, <2>3, <2>5, <2>6, <2>8, GoesHolds DEF GoesOn
<1>. QED  BY <1>1, <1>2

LEMMA ProbeHolds ==
    ASSUME VideoAssumption, VideoInv, Probe
    PROVE  VideoInv'
<1>1. PICK page \in Pages(link) :
          IF page.got # "answer" /\ run.tries < RetryAttempts
          THEN GoesOn([run EXCEPT !.tries = @ + 1])
          ELSE IF NeedsHead(link, page)
          THEN GoesOn([run EXCEPT !.pc = "heading", !.page = page, !.tries = 1])
          ELSE Judged(page, NoHead)
    BY DEF Probe
<1>2. run.pc = "probing"
    BY DEF Probe
<1>3. CASE page.got # "answer" /\ run.tries < RetryAttempts
    BY <1>1, <1>2, <1>3, AgainHolds
<1>4. CASE ~(page.got # "answer" /\ run.tries < RetryAttempts) /\ NeedsHead(link, page)
    <2>. DEFINE r == [run EXCEPT !.pc = "heading", !.page = page, !.tries = 1]
    <2>1. GoesOn(r)
        BY <1>1, <1>4
    <2>2. RunOK(run, link) /\ disk = {}
        BY <1>2 DEF VideoInv, Files
    <2>3. Fields(r) /\ r.pc = "heading" /\ r.frames = run.frames /\ r.frame = run.frame
        <3>1. 1 \in 0..RetryAttempts
            BY Bounds
        <3>. QED  BY <2>2, <3>1 DEF RunOK, Fields, Places
    <2>. HIDE DEF r
    <2>4. RunOK(r, link)
        BY <2>2, <2>3
        DEF RunOK, AtItsPlace, HasVideo, Search, Told, OfYouTube, OfFile
    <2>5. disk' = Files(r)
        BY <2>1, <2>2, <2>3 DEF GoesOn, Files
    <2>. QED  BY <1>2, <2>1, <2>3, <2>4, <2>5, GoesHolds DEF GoesOn
<1>5. CASE ~(page.got # "answer" /\ run.tries < RetryAttempts) /\ ~NeedsHead(link, page)
    BY <1>1, <1>2, <1>5, JudgedHolds
<1>. QED  BY <1>3, <1>4, <1>5

LEMMA HeadFileHolds ==
    ASSUME VideoAssumption, VideoInv, HeadFile
    PROVE  VideoInv'
<1>1. PICK head \in Heads :
          IF head.got # "answer" /\ run.tries < RetryAttempts
          THEN GoesOn([run EXCEPT !.tries = @ + 1])
          ELSE Judged(run.page, head)
    BY DEF HeadFile
<1>2. run.pc = "heading"
    BY DEF HeadFile
<1>. QED  BY <1>1, <1>2, AgainHolds, JudgedHolds

-----------------------------------------------------------------------------
(* YouTube.                                                                *)

LEMMA MetadataHolds ==
    ASSUME VideoAssumption, VideoInv, Metadata
    PROVE  VideoInv'
<1>1. /\ run.pc = "metadata" /\ RunOK(run, link) /\ run.provider = "youtube"
      /\ run.code = "none" /\ "asr" \notin run.said /\ disk = {}
      /\ run.asked = {} /\ run.fault = "none"
    BY DEF Metadata, VideoInv, Files, RunOK, AtItsPlace, OfYouTube, Search
<1>2. CASE \E code \in {"missing_ytdlp", "metadata_rate_limited",
                        "metadata_fetch_failed"} : Fails({"metadata"}, code)
    BY <1>2, FailsHolds
<1>3. ASSUME NEW video \in BOOLEAN, NEW d \in Duration,
             LET r == [run EXCEPT !.pc = "subtitles", !.video = video, !.duration = d]
             IN  CASE ~video -> Fails({"other"}, "metadata_video_track_missing")
                   [] video /\ d = 0 -> Fails({"other"}, "metadata_duration_missing")
                   [] video /\ d > LongestYouTube -> Ends("ready", FALSE, "too_long", r)
                   [] OTHER -> GoesOn(r)
      PROVE  VideoInv'
    <2>. DEFINE r == [run EXCEPT !.pc = "subtitles", !.video = video, !.duration = d]
    <2>1. /\ Fields(r) /\ r.pc = "subtitles" /\ r.video = video /\ r.duration = d
          /\ r.provider = "youtube" /\ r.code = "none" /\ r.said = run.said
          /\ r.frames = run.frames /\ r.frame = run.frame
          /\ r.asked = {} /\ r.fault = "none"
        BY <1>1 DEF RunOK, Fields, Places
    <2>2. d \in Nat
        BY Bounds
    <2>. HIDE DEF r
    <2>3. CASE ~video
        <3>1. Fails({"other"}, "metadata_video_track_missing")
            BY <1>3, <2>3
        <3>. QED  BY <3>1, FailsHolds
    <2>4. CASE video /\ d = 0
        <3>1. Fails({"other"}, "metadata_duration_missing")
            <4>1. ~(d > LongestYouTube)
                BY <2>4, Bounds
            <4>. QED  BY <1>3, <2>4, <4>1
        <3>. QED  BY <3>1, FailsHolds
    <2>5. CASE video /\ d # 0 /\ d > LongestYouTube
        <3>1. Ends("ready", FALSE, "too_long", r)
            BY <1>3, <2>5 DEF r
        <3>2. CodeOf(r.said) # "asr_unavailable"
            BY <1>1, <2>1, AsrIsSaid DEF Fields
        <3>. DEFINE code == IF r.code # "none" THEN r.code ELSE CodeOf(r.said)
        <3>3. RowOK(Row("ready", FALSE, code, "too_long", r))
            <4>1. code # "asr_unavailable" /\ d > 0
                BY <2>1, <2>2, <2>5, <3>2
            <4>2. r.frames \in 0..SampleFrames
                BY <2>1 DEF Fields
            <4>. HIDE DEF code
            <4>. QED  BY <2>1, <2>5, <4>1, <4>2 DEF RowOK, Row, UnitStatus
        <3>. QED  BY <3>1, <3>3, EndsHolds
    <2>6. CASE video /\ d # 0 /\ ~(d > LongestYouTube)
        <3>1. GoesOn(r)
            BY <1>3, <2>6 DEF r
        <3>2. RunOK(r, link)
            BY <1>1, <2>1, <2>2, <2>6
            DEF RunOK, AtItsPlace, HasVideo, Search, Told, OfYouTube, OfFile
        <3>3. disk' = Files(r)
            BY <1>1, <2>1, <3>1 DEF GoesOn, Files
        <3>. QED  BY <1>1, <2>1, <3>1, <3>2, <3>3, GoesHolds DEF GoesOn
    <2>. QED  BY <2>3, <2>4, <2>5, <2>6
<1>. QED  BY <1>2, <1>3 DEF Metadata

LEMMA NoCaptionsHolds ==
    ASSUME VideoAssumption, VideoInv, run.pc \in {"subtitles", "track"},
           NEW code, NoCaptions(run, code)
    PROVE  VideoInv'
<1>. DEFINE r == [run EXCEPT !.said = @ \cup {"captions"}, !.code = code, !.text = <<>>]
<1>1. Ends("partial", FALSE, "no_text", r)
    BY DEF NoCaptions
<1>2. RunOK(run, link) /\ run.provider = "youtube"
    BY DEF VideoInv, RunOK, AtItsPlace, OfYouTube
<1>3. r.provider = "youtube" /\ r.frames = run.frames /\ run.frames \in 0..SampleFrames
    BY <1>2 DEF RunOK, Fields
<1>. HIDE DEF r
<1>. QED  BY <1>1, <1>3, PartialHolds

LEMMA SubtitlesHolds ==
    ASSUME VideoAssumption, VideoInv, Subtitles
    PROVE  VideoInv'
<1>1. run.pc = "subtitles" /\ RunOK(run, link)
    BY DEF Subtitles, VideoInv
<1>2. CASE \/ \E code \in {"missing_ytdlp", "captions_rate_limited",
                           "captions_fetch_failed"} : NoCaptions(run, code)
           \/ NoCaptions(run, "captions_unavailable")
    BY <1>1, <1>2, NoCaptionsHolds
<1>3. ASSUME NEW tracks \in Tracks, Goes([run EXCEPT !.pc = "track", !.todo = tracks]),
             disk' = {"subtitles"}
      PROVE  VideoInv'
    <2>. DEFINE r == [run EXCEPT !.pc = "track", !.todo = tracks]
    <2>1. tracks \in SUBSET Caption
        BY Bounds
    <2>2. /\ Fields(r) /\ r.pc = "track" /\ r.asked = run.asked /\ r.fault = run.fault
          /\ r.provider = run.provider /\ r.code = run.code /\ r.said = run.said
          /\ r.video = run.video /\ r.duration = run.duration
          /\ r.frames = run.frames /\ r.frame = run.frame
        BY <1>1, <2>1 DEF RunOK, Fields, Places
    <2>3. Goes(r)
        BY <1>3
    <2>. HIDE DEF r
    <2>4. RunOK(r, link)
        BY <1>1, <2>2
        DEF RunOK, AtItsPlace, HasVideo, Search, Told, OfYouTube, OfFile
    <2>5. disk' = Files(r)
        BY <1>3, <2>2 DEF Files
    <2>. QED  BY <1>1, <2>2, <2>3, <2>4, <2>5, GoesHolds
<1>. QED  BY <1>2, <1>3 DEF Subtitles

\* What Asked leaves of a run whose search goes on or has found a text.
LEMMA AskedIs ==
    ASSUME VideoAssumption, VideoInv, run.pc = "track", run.todo # {}, NEW got \in Got,
           NEW r, r = Asked(got)
    PROVE  /\ Fields(r) /\ r.pc = "track" /\ r.provider = "youtube"
           /\ r.code = "none" /\ r.said = run.said /\ r.fault = run.fault
           /\ r.video /\ r.duration > 0
           /\ r.frames = run.frames /\ r.frame = run.frame /\ run.frames <= run.frame
           /\ First(run.todo) \in Caption
           /\ r.asked = run.asked \cup {[track |-> First(run.todo), got |-> got]}
           /\ r.todo = run.todo \ {First(run.todo)}
<1>1. /\ RunOK(run, link) /\ run.provider = "youtube" /\ run.code = "none"
      /\ run.video /\ run.duration > 0
    BY DEF VideoInv, RunOK, AtItsPlace, OfYouTube, HasVideo
<1>2. run.todo \in SUBSET Caption
    BY <1>1 DEF RunOK, Fields
<1>3. First(run.todo) \in Caption
    BY <1>2, FirstIsBefore
<1>4. [track |-> First(run.todo), got |-> got] \in [track : Caption, got : Got]
    BY <1>3
<1>. QED  BY <1>1, <1>2, <1>3, <1>4 DEF RunOK, Fields, Asked, After

\* A track without a text, or that could not be fetched.
LEMMA NextTrackHolds ==
    ASSUME VideoAssumption, VideoInv, run.pc = "track", run.todo # {},
           NEW got \in {"nothing"} \cup Faults, NEW r,
           Fields(r), r.pc = "track", r.provider = "youtube", r.code = "none",
           r.said = run.said, r.video, r.duration > 0, r.frames <= r.frame,
           r.asked = run.asked \cup {[track |-> First(run.todo), got |-> got]},
           r.fault = (IF got = "nothing" THEN run.fault ELSE got),
           GoesOn(r)
    PROVE  VideoInv'
<1>1. RunOK(run, link) /\ "asr" \notin run.said /\ Search(run) /\ disk = Files(run)
    BY DEF VideoInv, RunOK, AtItsPlace, OfYouTube
<1>2. Search(r)
    BY <1>1 DEF Search, Faults
<1>3. RunOK(r, link)
    BY <1>1, <1>2 DEF RunOK, AtItsPlace, HasVideo, Told, OfYouTube, OfFile
<1>4. disk' = Files(r)
    BY <1>1 DEF GoesOn, Files
<1>. QED  BY <1>3, <1>4, GoesHolds DEF GoesOn

LEMMA TrackHolds ==
    ASSUME VideoAssumption, VideoInv, Track
    PROVE  VideoInv'
<1>1. run.pc = "track" /\ run.todo # {} /\ RunOK(run, link)
    BY DEF Track, VideoInv
<1>2. ASSUME NEW fault \in Faults, GoesOn([Asked(fault) EXCEPT !.fault = fault])
      PROVE  VideoInv'
    <2>. DEFINE q == Asked(fault)
                r == [q EXCEPT !.fault = fault]
    <2>1. fault \in Got /\ fault # "nothing"
        BY DEF Got, Faults
    <2>2. /\ Fields(q) /\ q.pc = "track" /\ q.provider = "youtube"
          /\ q.code = "none" /\ q.said = run.said
          /\ q.video /\ q.duration > 0 /\ q.frames <= q.frame
          /\ q.asked = run.asked \cup {[track |-> First(run.todo), got |-> fault]}
        BY <1>1, <2>1, AskedIs
    <2>3. GoesOn(r)
        BY <1>2
    <2>. HIDE DEF q
    <2>4. /\ Fields(r) /\ r.pc = "track" /\ r.provider = "youtube"
          /\ r.code = "none" /\ r.said = run.said
          /\ r.video /\ r.duration > 0 /\ r.frames <= r.frame
          /\ r.asked = run.asked \cup {[track |-> First(run.todo), got |-> fault]}
          /\ r.fault = fault
        BY <2>2 DEF Fields
    <2>. HIDE DEF r
    <2>. QED  BY <1>1, <2>1, <2>3, <2>4, NextTrackHolds
<1>3. ASSUME NEW text \in Text,
             LET said == Captions(text)
             IN  CASE said = <<>> -> GoesOn(Asked("nothing"))
                   [] said # <<>> /\ ~HasSpeech(said) ->
                          Ends("partial", FALSE, "no_text",
                               [Asked("text") EXCEPT !.code = "captions_text_too_short",
                                                     !.text = said])
                   [] OTHER ->
                          /\ Goes([Asked("text") EXCEPT !.pc = "summary", !.text = said])
                          /\ CleanUp
      PROVE  VideoInv'
    <2>. DEFINE said == Captions(text)
                q == Asked("text")
    <2>1. CASE said = <<>>
        <3>. DEFINE r == Asked("nothing")
        <3>1. GoesOn(r)
            BY <1>3, <2>1
        <3>2. "nothing" \in Got
            BY DEF Got
        <3>3. /\ Fields(r) /\ r.pc = "track" /\ r.provider = "youtube"
              /\ r.code = "none" /\ r.said = run.said /\ r.fault = run.fault
              /\ r.video /\ r.duration > 0 /\ r.frames <= r.frame
              /\ r.asked = run.asked \cup {[track |-> First(run.todo), got |-> "nothing"]}
            BY <1>1, <3>2, AskedIs
        <3>. HIDE DEF r
        <3>. QED  BY <1>1, <3>1, <3>3, NextTrackHolds
    <2>2. "text" \in Got
        BY DEF Got
    <2>3. /\ Fields(q) /\ q.pc = "track" /\ q.provider = "youtube"
          /\ q.code = "none" /\ q.said = run.said
          /\ q.video /\ q.duration > 0 /\ q.frames <= q.frame
          /\ First(run.todo) \in Caption
          /\ q.asked = run.asked \cup {[track |-> First(run.todo), got |-> "text"]}
          /\ q.todo = run.todo \ {First(run.todo)}
        BY <1>1, <2>2, AskedIs
    <2>4. CASE said # <<>> /\ ~HasSpeech(said)
        <3>. DEFINE r == [q EXCEPT !.code = "captions_text_too_short", !.text = said]
        <3>1. Ends("partial", FALSE, "no_text", r)
            BY <1>3, <2>4
        <3>. HIDE DEF q, said
        <3>2. r.provider = "youtube" /\ r.frames \in 0..SampleFrames
            BY <2>3 DEF Fields
        <3>. HIDE DEF r
        <3>. QED  BY <3>1, <3>2, PartialHolds
    <2>5. CASE said # <<>> /\ HasSpeech(said)
        <3>. DEFINE r == [q EXCEPT !.pc = "summary", !.text = said]
        <3>1. Goes(r) /\ CleanUp
            BY <1>3, <2>5
        <3>2. Cardinality(ToSet(said)) >= MinSpoken
            <4>1. Cardinality(ToSet(said)) = Len(said)
                BY CaptionsSayOnce DEF VideoAssumption
            <4>. QED  BY <2>5, <4>1 DEF HasSpeech
        <3>. HIDE DEF q, said
        <3>3. /\ Fields(r) /\ r.pc = "summary" /\ r.provider = "youtube"
              /\ r.code = "none" /\ r.said = run.said
              /\ r.video /\ r.duration > 0 /\ r.frames <= r.frame
              /\ r.asked = run.asked \cup {[track |-> First(run.todo), got |-> "text"]}
              /\ r.todo = run.todo \ {First(run.todo)} /\ r.text = said
            BY <2>3 DEF Fields, Places
        <3>. HIDE DEF r
        <3>4. Best(r)
            <4>1. \A a \in run.asked : a.got # "text"
                BY <1>1 DEF RunOK, Search
            <4>2. ASSUME NEW a \in r.asked, a.got = "text"
                  PROVE  a.track = First(run.todo)
                <5>1. a \in run.asked \/ a = [track |-> First(run.todo), got |-> "text"]
                    BY <3>3
                <5>. QED  BY <4>1, <4>2, <5>1
            <4>3. \A u \in r.todo : u \in Caption /\ Before(First(run.todo), u)
                <5>1. run.todo \subseteq Caption
                    BY <1>1 DEF RunOK, Fields
                <5>. QED  BY <1>1, <3>3, <5>1, FirstIsBefore
            <4>4. ASSUME NEW u \in r.todo
                  PROVE  LET t == First(run.todo)
                         IN  /\ u.lang = "ru" => t.lang = "ru"
                             /\ u.lang = "en" => t.lang \in {"ru", "en"}
                             /\ t.lang = u.lang => t.source = "manual"
                BY <2>3, <4>3, BeforeIsBetter
            <4>. QED  BY <4>2, <4>4 DEF Best
        <3>5. "asr" \notin r.said
            BY <1>1, <3>3 DEF RunOK, AtItsPlace, OfYouTube
        <3>6. RunOK(r, link)
            BY <3>2, <3>3, <3>4, <3>5
            DEF RunOK, AtItsPlace, HasVideo, Search, Told, OfYouTube, OfFile
        <3>7. disk' = Files(r)
            BY <3>1, <3>3 DEF CleanUp, Files
        <3>. QED  BY <1>1, <3>1, <3>3, <3>6, <3>7, GoesHolds
    <2>. QED  BY <2>1, <2>4, <2>5
<1>. QED  BY <1>2, <1>3 DEF Track, Faults

LEMMA SearchEndHolds ==
    ASSUME VideoAssumption, VideoInv, TrackTimesOut \/ NoTrackLeft
    PROVE  VideoInv'
BY NoCaptionsHolds DEF TrackTimesOut, NoTrackLeft

-----------------------------------------------------------------------------
(* Other sites.                                                            *)

LEMMA BreaksHolds ==
    ASSUME VideoAssumption, VideoInv, Breaks
    PROVE  VideoInv'
<1>. DEFINE w == Row("failed", TRUE, "video_pipeline_exception", "none", Idle)
<1>1. RowOK(w)
    BY Bounds DEF RowOK, Row, UnitStatus, Idle
<1>2. Writes(w)
    BY DEF Breaks
<1>. HIDE DEF w
<1>. QED  BY <1>1, <1>2, WritesHolds

\* From one place of a file to the next, with nothing else.
LEMMA MovesOn ==
    ASSUME VideoAssumption, VideoInv,
           \/ run.pc = "valid" /\ Goes([run EXCEPT !.pc = "scratch"]) /\ UNCHANGED disk
           \/ /\ run.pc = "scratch" /\ Goes([run EXCEPT !.pc = "loading"])
              /\ disk' = {"directory", "video"}
           \/ run.pc = "loading" /\ Goes([run EXCEPT !.pc = "reading"]) /\ UNCHANGED disk
    PROVE  VideoInv'
<1>1. PICK pc \in {"scratch", "loading", "reading"} :
          /\ Goes([run EXCEPT !.pc = pc])
          /\ disk' = IF pc = "scratch" THEN {} ELSE {"directory", "video"}
    BY DEF VideoInv, Files
<1>. DEFINE r == [run EXCEPT !.pc = pc]
<1>2. /\ RunOK(run, link) /\ run.provider # "youtube" /\ run.code = "none"
      /\ "asr" \notin run.said /\ run.pc # "ended"
    BY DEF VideoInv, RunOK, AtItsPlace, OfFile
<1>3. /\ Fields(r) /\ r.pc = pc /\ r.provider = run.provider /\ r.code = "none"
      /\ r.said = run.said /\ r.frames = run.frames /\ r.frame = run.frame
    BY <1>2 DEF RunOK, Fields, Places
<1>4. Goes(r)
    BY <1>1
<1>. HIDE DEF r
<1>5. RunOK(r, link)
    BY <1>2, <1>3 DEF RunOK, AtItsPlace, HasVideo, Search, Told, OfYouTube, OfFile
<1>6. disk' = Files(r)
    BY <1>1, <1>3 DEF Files
<1>. QED  BY <1>2, <1>3, <1>4, <1>5, <1>6, GoesHolds

LEMMA LoadingHolds ==
    ASSUME VideoAssumption, VideoInv, Resolve \/ Scratch \/ Load
    PROVE  VideoInv'
<1>1. CASE Resolve
    BY <1>1, FailsHolds, MovesOn DEF Resolve, GoesOn
<1>2. CASE Scratch
    BY <1>2, BreaksHolds, MovesOn DEF Scratch
<1>3. CASE Load
    BY <1>3, FailsHolds, MovesOn DEF Load, GoesOn
<1>. QED  BY <1>1, <1>2, <1>3

LEMMA ReadHolds ==
    ASSUME VideoAssumption, VideoInv, Read
    PROVE  VideoInv'
<1>1. /\ RunOK(run, link) /\ run.pc = "reading" /\ run.provider # "youtube"
      /\ run.code = "none" /\ "asr" \notin run.said /\ disk = {"directory", "video"}
    BY DEF Read, VideoInv, RunOK, AtItsPlace, OfFile, Files
<1>2. CASE \E why \in {"probe", "timeout", "tool", "other"} : Fails({why}, "none")
    BY <1>2, FailsHolds
<1>3. ASSUME NEW file \in Measured,
             IF ~file.video \/ file.length = 0 THEN Fails({"other"}, "none")
             ELSE GoesOn([run EXCEPT !.pc = "frames", !.video = TRUE, !.audio = file.audio,
                            !.duration = file.length])
      PROVE  VideoInv'
    <2>1. CASE ~file.video \/ file.length = 0
        BY <1>3, <2>1, FailsHolds
    <2>2. CASE ~(~file.video \/ file.length = 0)
        <3>. DEFINE r == [run EXCEPT !.pc = "frames", !.video = TRUE, !.audio = file.audio,
                            !.duration = file.length]
        <3>1. GoesOn(r)
            BY <1>3, <2>2
        <3>2. /\ file.length \in Duration \cup {LongestInput}
              /\ file.length <= LongestInput /\ file.length > 0
            <4>1. PICK d \in Duration : file.length = Loaded(d)
                BY DEF Measured
            <4>2. d \in Nat /\ LongestInput \in Nat
                BY Bounds
            <4>. QED  BY <2>2, <4>1, <4>2 DEF Loaded
        <3>3. /\ Fields(r) /\ r.pc = "frames" /\ r.provider = run.provider
              /\ r.code = "none" /\ r.said = run.said /\ r.video
              /\ r.duration = file.length /\ r.frames = run.frames /\ r.frame = run.frame
            BY <1>1, <3>2 DEF RunOK, Fields, Places
        <3>. HIDE DEF r
        <3>4. RunOK(r, link)
            BY <1>1, <3>2, <3>3
            DEF RunOK, AtItsPlace, HasVideo, Search, Told, OfYouTube, OfFile
        <3>5. disk' = Files(r)
            BY <1>1, <3>1, <3>3 DEF GoesOn, Files
        <3>. QED  BY <1>1, <3>1, <3>3, <3>4, <3>5, GoesHolds DEF GoesOn
    <2>. QED  BY <2>1, <2>2
<1>. QED  BY <1>2, <1>3 DEF Read

\* No more frames can be looked at than were tried.
LEMMA FrameHolds ==
    ASSUME VideoAssumption, VideoInv, Frame
    PROVE  VideoInv'
<1>1. /\ RunOK(run, link) /\ run.pc = "frames" /\ run.frame < SampleFrames
      /\ run.provider # "youtube" /\ run.code = "none" /\ "asr" \notin run.said
      /\ run.video /\ run.duration > 0 /\ run.duration <= LongestInput
      /\ disk = {"directory", "video"}
    BY DEF Frame, VideoInv, RunOK, AtItsPlace, HasVideo, OfFile, Files
<1>2. /\ run.frame + 1 \in 0..SampleFrames
      /\ run.frames + 1 \in 0..SampleFrames /\ run.frames \in Nat /\ run.frame \in Nat
      /\ run.frames <= run.frame
    BY <1>1, Bounds DEF RunOK, Fields
<1>3. ASSUME NEW r, GoesOn(r), Fields(r), r.pc = "frames", r.provider = run.provider,
             r.code = "none", "asr" \notin r.said, r.video, r.duration = run.duration,
             r.frames <= r.frame
      PROVE  VideoInv'
    <2>1. RunOK(r, link)
        BY <1>1, <1>3
        DEF RunOK, AtItsPlace, HasVideo, Search, Told, OfYouTube, OfFile
    <2>2. disk' = Files(r)
        BY <1>1, <1>3 DEF GoesOn, Files
    <2>. QED  BY <1>1, <1>3, <2>1, <2>2, GoesHolds DEF GoesOn
<1>4. CASE GoesOn([run EXCEPT !.frame = @ + 1, !.said = @ \cup {"other"}])
    <2>. DEFINE r == [run EXCEPT !.frame = @ + 1, !.said = @ \cup {"other"}]
    <2>1. run.said \cup {"other"} \in SUBSET ToSet(Codes)
        BY <1>1, CodesAre DEF RunOK, Fields
    <2>2. /\ Fields(r) /\ r.pc = "frames" /\ r.provider = run.provider
          /\ r.code = "none" /\ r.said = run.said \cup {"other"} /\ r.video
          /\ r.duration = run.duration
          /\ r.frames = run.frames /\ r.frame = run.frame + 1
        BY <1>1, <1>2, <2>1 DEF RunOK, Fields
    <2>3. "asr" \notin r.said /\ r.frames <= r.frame
        BY <1>1, <1>2, <2>2
    <2>4. GoesOn(r)
        BY <1>4
    <2>. HIDE DEF r
    <2>. QED  BY <1>3, <2>2, <2>3, <2>4
<1>5. ASSUME NEW face \in Faces,
             GoesOn([run EXCEPT !.frame = @ + 1, !.frames = @ + 1, !.face = @ \/ face])
      PROVE  VideoInv'
    <2>. DEFINE r == [run EXCEPT !.frame = @ + 1, !.frames = @ + 1, !.face = @ \/ face]
    <2>1. /\ Fields(r) /\ r.pc = "frames" /\ r.provider = run.provider
          /\ r.code = "none" /\ r.said = run.said /\ r.video
          /\ r.duration = run.duration
          /\ r.frames = run.frames + 1 /\ r.frame = run.frame + 1
        BY <1>1, <1>2 DEF RunOK, Fields
    <2>2. "asr" \notin r.said /\ r.frames <= r.frame
        BY <1>1, <1>2, <2>1
    <2>3. GoesOn(r)
        BY <1>5
    <2>. HIDE DEF r
    <2>. QED  BY <1>3, <2>1, <2>2, <2>3
<1>. QED  BY <1>4, <1>5 DEF Frame

LEMMA HeardHolds ==
    ASSUME VideoAssumption, VideoInv, run.pc = "frames", NEW text, NEW code, NEW said,
           said \subseteq {"other", "asr"}, "asr" \in said => code = "asr_unavailable",
           Heard(text, code, said)
    PROVE  VideoInv'
<1>1. /\ RunOK(run, link)
      /\ run.provider # "youtube" /\ "asr" \notin run.said
      /\ run.video /\ run.duration > 0 /\ run.duration <= LongestInput
      /\ disk = {"directory", "video"}
    BY DEF VideoInv, RunOK, AtItsPlace, HasVideo, OfFile, Files
<1>. DEFINE cleaned == Cleaned(text)
            r == [run EXCEPT !.pc = "summary", !.text = cleaned, !.code = code,
                             !.said = @ \cup said]
<1>2. GoesOn(r)
    BY DEF Heard
<1>3. run.said \cup said \in SUBSET ToSet(Codes)
    BY <1>1, CodesAre DEF RunOK, Fields
<1>. HIDE DEF cleaned
<1>4. /\ Fields(r) /\ r.pc = "summary" /\ r.provider = run.provider
      /\ r.code = code /\ r.said = run.said \cup said /\ r.video
      /\ r.duration = run.duration /\ r.frames = run.frames /\ r.frame = run.frame
    BY <1>1, <1>3 DEF RunOK, Fields, Places
<1>. HIDE DEF r
<1>5. RunOK(r, link)
    BY <1>1, <1>4 DEF RunOK, AtItsPlace, HasVideo, Search, Told, OfYouTube, OfFile
<1>6. disk' = Files(r)
    BY <1>1, <1>2, <1>4 DEF GoesOn, Files
<1>. QED  BY <1>2, <1>4, <1>5, <1>6, GoesHolds DEF GoesOn

LEMMA ListenHolds ==
    ASSUME VideoAssumption, VideoInv, Listen
    PROVE  VideoInv'
<1>1. run.pc = "frames"
    BY DEF Listen
<1>2. CASE \/ Heard(<<>>, "audio_track_missing", {"other"})
           \/ Heard(<<>>, "audio_extract_failed", {"other"})
    BY <1>1, <1>2, HeardHolds
<1>3. ASSUME NEW tr, Heard(tr.text, IF tr.done THEN "none" ELSE "asr_unavailable",
                           IF tr.done THEN {} ELSE {"asr"})
      PROVE  VideoInv'
    <2>1. CASE tr.done
        BY <1>1, <1>3, <2>1, HeardHolds
    <2>2. CASE ~tr.done
        BY <1>1, <1>3, <2>2, HeardHolds
    <2>. QED  BY <2>1, <2>2
<1>. QED  BY <1>2, <1>3 DEF Listen

-----------------------------------------------------------------------------
(* The verdict.                                                            *)

\* A summary is of a text that says something (_build_commission_summary).
LEMMA SummaryOfSpeech ==
    ASSUME NEW text, NEW model
    PROVE  /\ SummaryOf(text, model) \in {"no_text", "summary", "extract"}
           /\ SummaryOf(text, model) # "no_text" => Len(text) >= MinSpoken
BY DEF SummaryOf, Extractive, HasSpeech

LEMMA SumHolds ==
    ASSUME VideoAssumption, VideoInv, Sum
    PROVE  VideoInv'
<1>1. /\ run.pc = "summary" /\ RunOK(run, link)
      /\ run.video /\ run.duration > 0
      /\ run.provider # "youtube" => run.duration <= LongestInput
      /\ run.frames \in 0..SampleFrames /\ run.said \subseteq ToSet(Codes)
      /\ "asr" \in run.said => run.code = "asr_unavailable"
      /\ run.provider = "youtube" => Cardinality(ToSet(run.text)) >= MinSpoken
    BY DEF Sum, VideoInv, RunOK, AtItsPlace, HasVideo, Fields, Told
<1>2. PICK model \in ModelAnswers(run.text) :
          LET warned == CASE model = "fault" -> {"summary"}
                          [] model = "dump" -> {"other"}
                          [] OTHER -> {}
              errors == run.provider # "youtube" /\ TooFewFrames(run.frames)
              deaf == run.code = "asr_unavailable" /\ ~HasSpeech(run.text)
          IN  Ends(IF errors \/ deaf THEN "partial" ELSE "ready", errors,
                   SummaryOf(run.text, model), [run EXCEPT !.said = @ \cup warned])
    BY DEF Sum
<1>. DEFINE warned == CASE model = "fault" -> {"summary"}
                        [] model = "dump" -> {"other"}
                        [] OTHER -> {}
            errors == run.provider # "youtube" /\ TooFewFrames(run.frames)
            deaf == run.code = "asr_unavailable" /\ ~HasSpeech(run.text)
            media == IF errors \/ deaf THEN "partial" ELSE "ready"
            summary == SummaryOf(run.text, model)
            r == [run EXCEPT !.said = @ \cup warned]
            code == IF r.code # "none" THEN r.code ELSE CodeOf(r.said)
<1>3. Ends(media, errors, summary, r) /\ errors \in BOOLEAN
    BY <1>2
<1>4. warned \subseteq {"summary", "other"}
    OBVIOUS
<1>5. /\ summary \in {"no_text", "summary", "extract"}
      /\ summary # "no_text" => Len(run.text) >= MinSpoken
    BY SummaryOfSpeech
<1>. HIDE DEF warned, summary
<1>6. /\ r.provider = run.provider /\ r.code = run.code /\ r.video
      /\ r.duration = run.duration /\ r.frames = run.frames /\ r.text = run.text
      /\ r.said = run.said \cup warned
    BY <1>1 DEF RunOK, Fields
<1>. HIDE DEF r
<1>7. media = "ready" /\ ~errors =>
          /\ run.provider = "youtube" \/ run.frames >= MinFrames
          /\ run.code = "asr_unavailable" => Len(run.text) >= MinSpoken
    BY <1>1, Bounds DEF TooFewFrames, HasSpeech
<1>8. code = "asr_unavailable" => run.code = "asr_unavailable"
    <2>1. r.said \subseteq ToSet(Codes)
        BY <1>1, <1>4, <1>6, CodesAre
    <2>2. CodeOf(r.said) = "asr_unavailable" => "asr" \in run.said
        BY <1>4, <1>6, <2>1, AsrIsSaid
    <2>. QED  BY <1>1, <1>6, <2>2
<1>9. media \in {"partial", "ready"}
    OBVIOUS
<1>10. RowOK(Row(media, errors, code, summary, r))
    <2>. HIDE DEF media, errors, deaf, code
    <2>. QED  BY <1>1, <1>5, <1>6, <1>7, <1>8, <1>9 DEF RowOK, Row, UnitStatus
<1>. HIDE DEF media, errors, summary
<1>. QED  BY <1>3, <1>10, EndsHolds

LEMMA KillHolds ==
    ASSUME VideoAssumption, VideoInv, Kill
    PROVE  VideoInv'
<1>1. 0 \in 0..RetryAttempts
    BY Bounds
<1>2. RunOK(run', link)
    BY <1>1, IdleOK DEF Kill, Idle
<1>3. run'.pc = "idle"
    BY DEF Kill, Idle
<1>4. disk' = Files(run')
    BY <1>3 DEF Kill, Files
<1>5. kills' \in 0..Kills /\ kills' > 0
    BY Bounds DEF Kill, VideoInv
<1>. QED  BY <1>2, <1>4, <1>5 DEF Kill, VideoInv

LEMMA InitHolds ==
    ASSUME VideoAssumption, Init
    PROVE  VideoInv
<1>1. link \in Link \cup {NoLink}
    BY DEF Init, Saved
<1>2. 0 \in 0..RetryAttempts /\ 0 \in 0..Kills
    BY Bounds
<1>3. RunOK(run, link)
    BY <1>2, IdleOK DEF Init, Idle
<1>4. disk = Files(run)
    BY DEF Init, Idle, Files
<1>. QED  BY <1>1, <1>2, <1>3, <1>4, NoRowOK DEF Init, VideoInv

LEMMA NextHolds ==
    ASSUME VideoAssumption, VideoInv, [Next]_vars
    PROVE  VideoInv'
<1>1. CASE Skip \/ Begin \/ Probe \/ HeadFile
    BY <1>1, SkipHolds, BeginHolds, ProbeHolds, HeadFileHolds
<1>2. CASE Metadata \/ Subtitles \/ Track \/ TrackTimesOut \/ NoTrackLeft
    BY <1>2, MetadataHolds, SubtitlesHolds, TrackHolds, SearchEndHolds
<1>3. CASE Resolve \/ Scratch \/ Load \/ Read \/ Frame \/ Listen
    BY <1>3, LoadingHolds, ReadHolds, FrameHolds, ListenHolds
<1>4. CASE Sum \/ Kill
    BY <1>4, SumHolds, KillHolds
<1>5. CASE UNCHANGED vars
    BY <1>5 DEF vars, VideoInv
<1>. QED  BY <1>1, <1>2, <1>3, <1>4, <1>5 DEF Next, Step

(* The inductive invariant of the video unit: at every place of the run,    *)
(* what it has found, how far it has searched, which files it has made, and *)
(* what the row that it writes may say (run_presentation_pipeline).         *)
THEOREM UnitInvariant == Spec => []VideoInv
<1>1. VideoInv /\ [Next]_vars => VideoInv'
    BY NextHolds, VideoAssumption
<1>2. Init => VideoInv
    BY InitHolds, VideoAssumption
<1>. QED  BY <1>1, <1>2, PTL DEF Spec

(* What a unit says of the presentation is so, for every link, video and    *)
(* limit: the best track was read, what counts as checked can be watched, a *)
(* summary is of a text that says something, and no file is left behind.    *)
THEOREM UnitTellsTheTruth == Spec => []UnitOK
<1>1. ASSUME VideoInv
      PROVE  UnitOK
    <2>1. Fields(run) /\ run.frames <= run.frame /\ RunOK(run, link)
        BY <1>1 DEF VideoInv, RunOK
    <2>2. TypeOK
        BY <1>1, <2>1 DEF VideoInv, Fields, RowOK, TypeOK
    <2>3. BestTrackWins
        BY <2>1 DEF RunOK, Told, Best, BestTrackWins
    <2>4. CompletedIsWatchable /\ SummaryHasSpeech
        BY <1>1 DEF VideoInv, RowOK, CompletedIsWatchable, SummaryHasSpeech
    <2>5. FilesFollow
        BY <1>1 DEF VideoInv, Files, FilesFollow
    <2>. QED  BY <2>2, <2>3, <2>4, <2>5 DEF UnitOK
<1>. QED  BY <1>1, UnitInvariant, PTL

(* What the validation of a link lets pass is never refused by the          *)
(* ingestion, whatever the page says and wherever the link leads            *)
(* (evaluate_presentation_video, _resolve_ingestion_source).                *)
THEOREM ValidIsLoaded == Spec => []ValidIsLoadable
<1>1. VideoInv => ValidIsLoadable
    BY DEF VideoInv, RunOK, ValidIsLoadable
<1>. QED  BY <1>1, UnitInvariant, PTL

\* What a row says is what ended the run.
LEMMA CodeIsGiven ==
    ASSUME NEW media, NEW errors, NEW summary, NEW r, Ends(media, errors, summary, r),
           r.code # "none"
    PROVE  row'.code = r.code
BY DEF Ends, Writes, Row

LEMMA NoCaptionsCode ==
    ASSUME VideoInv, NEW code, code # "none", NoCaptions(run, code)
    PROVE  row'.code = code
<1>. DEFINE r == [run EXCEPT !.said = @ \cup {"captions"}, !.code = code, !.text = <<>>]
<1>1. Ends("partial", FALSE, "no_text", r)
    BY DEF NoCaptions
<1>2. r.code = code
    BY DEF VideoInv, RunOK, Fields
<1>. HIDE DEF r
<1>. QED  BY <1>1, <1>2, CodeIsGiven

LEMMA TrackCode ==
    ASSUME VideoAssumption, VideoInv, Track
    PROVE  row' = row \/ row'.code = "captions_text_too_short"
<1>1. run.pc = "track" /\ run.todo # {}
    BY DEF Track
<1>2. CASE \E fault \in Faults : GoesOn([Asked(fault) EXCEPT !.fault = fault])
    BY <1>2 DEF GoesOn, Goes
<1>3. ASSUME NEW text \in Text,
             LET said == Captions(text)
             IN  CASE said = <<>> -> GoesOn(Asked("nothing"))
                   [] said # <<>> /\ ~HasSpeech(said) ->
                          Ends("partial", FALSE, "no_text",
                               [Asked("text") EXCEPT !.code = "captions_text_too_short",
                                                     !.text = said])
                   [] OTHER ->
                          /\ Goes([Asked("text") EXCEPT !.pc = "summary", !.text = said])
                          /\ CleanUp
      PROVE  row' = row \/ row'.code = "captions_text_too_short"
    <2>. DEFINE said == Captions(text)
                q == Asked("text")
                r == [q EXCEPT !.code = "captions_text_too_short", !.text = said]
    <2>1. CASE said = <<>>
        BY <1>3, <2>1 DEF GoesOn, Goes
    <2>2. CASE said # <<>> /\ HasSpeech(said)
        BY <1>3, <2>2 DEF Goes
    <2>3. CASE said # <<>> /\ ~HasSpeech(said)
        <3>1. Ends("partial", FALSE, "no_text", r)
            BY <1>3, <2>3
        <3>2. Fields(q)
            BY <1>1, AskedIs DEF Got
        <3>. HIDE DEF q, said
        <3>3. r.code = "captions_text_too_short"
            BY <3>2 DEF Fields
        <3>. HIDE DEF r
        <3>. QED  BY <3>1, <3>3, CodeIsGiven
    <2>. QED  BY <2>1, <2>2, <2>3
<1>. QED  BY <1>2, <1>3 DEF Track, Faults

(* Subtitles are called unavailable only after every track was fetched and  *)
(* had no text, however many tracks there are (fetch_youtube_captions_text).*)
THEOREM UnavailableIsSo == Spec => UnavailableIsCertain
<1>1. ASSUME VideoInv, Next, run.pc = "track", row'.code = "captions_unavailable"
      PROVE  run.todo = {} /\ \A a \in run.asked : a.got = "nothing"
    <2>1. row.code = "none"
        BY <1>1 DEF VideoInv, NoRow, Row
    <2>2. row' # row
        BY <1>1, <2>1
    <2>3. ~Kill
        BY <2>2 DEF Kill
    <2>4. ~TrackTimesOut
        BY <1>1, NoCaptionsCode DEF TrackTimesOut
    <2>5. ~Track
        BY <1>1, <2>2, TrackCode, VideoAssumption
    <2>6. NoTrackLeft
        BY <1>1, <2>3, <2>4, <2>5
        DEF Next, Step, Skip, Begin, Probe, HeadFile, Metadata, Subtitles, Resolve,
            Scratch, Load, Read, Frame, Listen, Sum
    <2>7. row'.code = LastWord(run.fault)
        <3>1. LastWord(run.fault) # "none"
            BY DEF LastWord
        <3>. QED  BY <1>1, <2>6, <3>1, NoCaptionsCode DEF NoTrackLeft
    <2>8. run.fault = "none"
        BY <1>1, <2>7 DEF VideoInv, RunOK, Fields, Faults, LastWord
    <2>. QED  BY <1>1, <2>6, <2>8 DEF NoTrackLeft, VideoInv, RunOK, Search
<1>2. VideoInv /\ [Next]_vars =>
          [run.pc = "track" /\ row'.code = "captions_unavailable" =>
              run.todo = {} /\ \A a \in run.asked : a.got = "nothing"]_vars
    BY <1>1
<1>. QED  BY <1>2, UnitInvariant, PTL DEF Spec, UnavailableIsCertain
================================================================================
