---------------------------- MODULE CommissionDesk ----------------------------
(***************************************************************************)
(* The desk of the commission around one application: tags, rubric scores  *)
(* and internal recommendations, comments, the AI summary that a reviewer  *)
(* asks for, and the history that shows who did what; beside the section   *)
(* scores of SectionScores, with which it shares the clock and the bounds. *)
(*                                                                         *)
(* Every request is one transaction, committed by the route; sessions do   *)
(* not flush before a query (autoflush=False) and READ COMMITTED lets what *)
(* others commit meanwhile through. A transaction begins, reads, and       *)
(* writes when it ends; created_at and updated_at are its start, and a row *)
(* that it has loaded is written in the columns that it changes.           *)
(*                                                                         *)
(* A section of the sheet stands for the text that is summarised.          *)
(***************************************************************************)
EXTENDS SectionScores

CONSTANTS
    TagRequests,    \* the sets of tags that are asked for
    Verdicts,       \* requests: a value for each of some rubrics, or for
                    \* "recommendation" alone
    Advice          \* the recommendations of the language model

VARIABLES
    links,      \* application_application_tags
    known,      \* application_tags: the keys there are
    edits,      \* changes of the tags under way
    opinions,   \* review_rubric_scores and internal_recommendations
    votes,      \* changes of the opinions under way
    comments,
    summaries,  \* ai_review_metadata
    drafts,     \* runs of the summary pipeline under way
    card,       \* ai_recommendation of the kanban card
    checks,     \* candidate_validation_runs
    events,     \* audit_logs
    tagged,     \* the tags of the request that ended last (history)
    voted,      \* what each reviewer's last request says of a key (history)
    crossed     \* what two requests were under way for at once (history)

tagVars == <<links, known, edits, tagged>>
voteVars == <<opinions, votes, voted>>
summaryVars == <<summaries, drafts, card, checks>>
desk == <<tagVars, voteVars, summaryVars, comments, events, crossed>>
scoring == <<sheet, rows, saves, history>>

DeskInit ==
    /\ Init
    /\ links = {} /\ known = {} /\ edits = {} /\ tagged = {}
    /\ opinions = {} /\ votes = {} /\ voted = [r \in Reviewers |-> <<>>]
    /\ comments = {} /\ summaries = {} /\ drafts = {} /\ checks = {}
    /\ card = "none" /\ events = {} /\ crossed = {}

\* A transaction begins while there are others.
Begins ==
    /\ clock < MaxSaves /\ sheet \in Reviewed
    /\ Cardinality(saves) + Cardinality(edits) + Cardinality(votes)
         + Cardinality(drafts) < MaxOpen
    /\ clock' = clock + 1

Log(action, r, at) ==
    events' = events \cup {[action |-> action, by |-> r, at |-> at]}

\* What a loaded column holds after the row is written.
Kept(loaded, value, column) == IF value = loaded THEN column ELSE value

----------------------------------------------------------------------------
(* Tags: the links that are there are deleted, and written anew.           *)

\* set_tags up to the deletion. The tags that are not there are to be made.
BeginTags(tags) ==
    /\ Begins
    /\ edits' = edits \cup {[tags |-> tags, saw |-> links,
                             new |-> tags \ known, at |-> clock + 1]}
    /\ crossed' = IF edits = {} THEN crossed ELSE crossed \cup {"tags"}
    /\ UNCHANGED <<scoring, links, known, tagged, voteVars, summaryVars,
                   comments, events>>

\* The deletion waits for an earlier one of the same rows to end.
Waiting(edit) ==
    \E other \in edits : other.at < edit.at /\ other.saw \cap edit.saw # {}

\* What is linked by others since is not deleted.
LinksAfter(edit) ==
    (links \ edit.saw) \cup {[tag |-> tag, at |-> edit.at] : tag \in edit.tags}

\* uq_app_tag_link
LinkedTwice(edit) ==
    \E link \in links \ edit.saw : link.tag \in edit.tags

EndTags(edit) ==
    /\ ~Waiting(edit) /\ ~LinkedTwice(edit)
    /\ links' = LinksAfter(edit)
    /\ known' = known \cup edit.tags
    /\ tagged' = edit.tags
    /\ edits' = edits \ {edit}
    /\ Log("tags_updated", "reviewer", edit.at)
    /\ UNCHANGED <<clock, scoring, voteVars, summaryVars, comments, crossed>>

\* A link or (uq_application_tag_key) a tag that another has made meanwhile.
RefuseTags(edit) ==
    /\ ~Waiting(edit)
    /\ LinkedTwice(edit) \/ edit.new \cap known # {}
    /\ edits' = edits \ {edit}
    /\ UNCHANGED <<clock, scoring, links, known, tagged, voteVars, summaryVars,
                   comments, events, crossed>>

----------------------------------------------------------------------------
(* Rubric scores and internal recommendations: one row of a reviewer for   *)
(* each rubric, and one for the recommendation.                            *)

OpinionsOf(r) == {row \in opinions : row.by = r}

BeginVote(r, verdict) ==
    /\ Begins
    /\ votes' = votes \cup
         {[by |-> r, says |-> verdict, at |-> clock + 1,
           read |-> {row \in OpinionsOf(r) : row.key \in DOMAIN verdict}]}
    /\ crossed' = IF \E vote \in votes : vote.by = r
                  THEN crossed \cup {r} ELSE crossed
    /\ UNCHANGED <<scoring, opinions, voted, tagVars, summaryVars, comments,
                   events>>

Absent(vote) == DOMAIN vote.says \ {row.key : row \in vote.read}
Standing(vote, key) ==
    CHOOSE row \in OpinionsOf(vote.by) : row.key = key

\* uq_rubric_per_reviewer, uq_internal_rec_per_reviewer
VotedTwice(vote) ==
    Absent(vote) \cap {row.key : row \in OpinionsOf(vote.by)} # {}

\* A row that is there is always written: its revision counts on.
EndVote(vote) ==
    /\ ~VotedTwice(vote)
    /\ opinions' =
         {row \in opinions : ~(row.by = vote.by /\ row.key \in DOMAIN vote.says)}
         \cup {[by |-> vote.by, key |-> row.key, updated_at |-> vote.at,
                value |-> Kept(row.value, vote.says[row.key],
                               Standing(vote, row.key).value)]
                : row \in vote.read}
         \cup {[by |-> vote.by, key |-> key, updated_at |-> vote.at,
                value |-> vote.says[key]] : key \in Absent(vote)}
    /\ votes' = votes \ {vote}
    /\ voted' = [voted EXCEPT ![vote.by] =
                    [key \in DOMAIN @ \cup DOMAIN vote.says |->
                        IF key \in DOMAIN vote.says THEN vote.says[key]
                        ELSE @[key]]]
    /\ Log(IF "recommendation" \in DOMAIN vote.says
           THEN "internal_recommendation_updated" ELSE "rubric_updated",
           vote.by, vote.at)
    /\ UNCHANGED <<clock, scoring, tagVars, summaryVars, comments, crossed>>

RefuseVote(vote) ==
    /\ VotedTwice(vote)
    /\ votes' = votes \ {vote}
    /\ UNCHANGED <<clock, scoring, opinions, voted, tagVars, summaryVars,
                   comments, events, crossed>>

\* create_comment: begins and ends, as nothing it reads is changed here.
Comment(r) ==
    /\ Begins
    /\ comments' = comments \cup {[by |-> r, at |-> clock + 1]}
    /\ Log("comment_added", r, clock + 1)
    /\ UNCHANGED <<scoring, tagVars, voteVars, summaryVars, crossed>>

----------------------------------------------------------------------------
(* The AI summary.                                                         *)

NoSummary == [at |-> 0, hash |-> <<>>, advice |-> "none", forced |-> FALSE,
              on |-> 0]

\* The row of the transaction that began last.
ShownIn(all) ==
    IF all = {} THEN NoSummary
    ELSE CHOOSE s \in all : \A other \in all : other.at =< s.at

\* get_ai_summary
Shown == ShownIn(summaries)

\* reviewer_context: the opinions in the order of their last change, those on
\* the rubrics and the recommendations apart, without their authors.
SameTable(q, row) == (q.key = "recommendation") = (row.key = "recommendation")
Context ==
    {<<row.key, row.value,
       Cardinality({q \in opinions : SameTable(q, row)
                                     /\ q.updated_at > row.updated_at})>>
        : row \in opinions}

\* input_hash: the same for the same material only.
InputHash == <<sheet.motivation, sheet.path, sheet.test, Context>>

\* run_commission_ai_pipeline up to the call of the model.
BeginSummary(force) ==
    /\ Begins
    /\ drafts' = drafts \cup {[force |-> force, hash |-> InputHash,
                               prior |-> Shown, loaded |-> card,
                               at |-> clock + 1]}
    /\ crossed' = IF drafts = {} THEN crossed ELSE crossed \cup {"summary"}
    /\ UNCHANGED <<scoring, summaries, card, checks, tagVars, voteVars,
                   comments, events>>

\* _should_skip
Skips(draft) == ~draft.force /\ draft.prior.hash = draft.hash

\* The card is set when the material is collected.
Collected(draft) == Kept(draft.loaded, draft.prior.advice, card)

SkipSummary(draft) ==
    /\ Skips(draft)
    /\ card' = Collected(draft)
    /\ drafts' = drafts \ {draft}
    /\ UNCHANGED <<clock, scoring, summaries, checks, tagVars, voteVars,
                   comments, events, crossed>>

FailSummary(draft) ==
    /\ ~Skips(draft)
    /\ card' = Collected(draft)
    /\ drafts' = drafts \ {draft}
    /\ Log("ai_summary_failed", "reviewer", draft.at)
    /\ UNCHANGED <<clock, scoring, summaries, checks, tagVars, voteVars,
                   comments, crossed>>

\* (mutated: the card is not set again when the summary is written)
CollectedOnly(draft, shown) == Collected(draft)

\* Once more, to what is shown when the summary is written.
CardAfter(draft, shown) ==
    Kept(draft.prior.advice, shown.advice, Collected(draft))

EndSummary(draft, advice) ==
    /\ ~Skips(draft)
    /\ summaries' = summaries \cup
         {[at |-> draft.at, hash |-> draft.hash, advice |-> advice,
           forced |-> draft.force, on |-> clock]}
    /\ card' = CardAfter(draft, ShownIn(summaries'))
    /\ drafts' = drafts \ {draft}
    /\ Log("ai_summary_generated", "reviewer", draft.at)
    /\ UNCHANGED <<clock, scoring, checks, tagVars, voteVars, comments, crossed>>

\* rebuild_projection, wherever it is called.
RebuildCard ==
    /\ card # Shown.advice
    /\ card' = Shown.advice
    /\ UNCHANGED <<clock, scoring, summaries, drafts, checks, tagVars, voteVars,
                   comments, events, crossed>>

StartCheck ==
    /\ Begins
    /\ checks' = checks \cup {[began |-> clock + 1, ended |-> 0]}
    /\ UNCHANGED <<scoring, summaries, drafts, card, tagVars, voteVars,
                   comments, events, crossed>>

\* The last unit of a data check writes a summary of its own, without a hash
\* and without a recommendation (run_candidate_ai_summary_processing).
EndCheck(check) ==
    /\ Begins
    /\ check.ended = 0
    /\ checks' = (checks \ {check}) \cup {[check EXCEPT !.ended = clock + 1]}
    /\ summaries' = summaries \cup
         {[NoSummary EXCEPT !.at = clock + 1, !.on = clock + 1]}
    /\ UNCHANGED <<scoring, drafts, card, tagVars, voteVars, comments, events,
                   crossed>>

----------------------------------------------------------------------------
(* The history that is shown.                                              *)

\* _AUDIT_EVENT_TAGS: actions that are not here are not shown.
EventTags ==
    [comment_added |-> {"commission"},
     rubric_updated |-> {"commission"},
     section_scores_updated |-> {"commission"},
     internal_recommendation_updated |-> {"commission", "decision"}]

Matches(line, filter) == filter = "all" \/ filter \in line.tags

AuditLines ==
    {[by |-> event.by, at |-> event.at, tags |-> EventTags[event.action]]
        : event \in {e \in events : e.action \in DOMAIN EventTags}}

\* A run has a line for its start, and one for its end when it has ended.
CheckLines ==
    {[by |-> "system", at |-> at, tags |-> {"system", "stage"}]
        : at \in {check.began : check \in checks}
                 \cup ({check.ended : check \in checks} \ {0})}

\* list_application_history_events, for eventType `filter`.
Feed(filter) ==
    {[by |-> line.by, at |-> line.at]
        : line \in {l \in AuditLines \cup CheckLines : Matches(l, filter)}}

----------------------------------------------------------------------------

\* A step of SectionScores; a save that changed anything is logged.
ScoringStep ==
    /\ Next
    /\ Cardinality(saves') + Cardinality(edits) + Cardinality(votes)
         + Cardinality(drafts) =< MaxOpen
    /\ events' = events \cup
         {[action |-> "section_scores_updated", by |-> s.by, at |-> s.at]
            : s \in {save \in saves \ saves' :
                        ~Clash(save) /\ save.scores # <<>>}}
    /\ UNCHANGED <<tagVars, voteVars, summaryVars, comments, crossed>>

DeskNext ==
    \/ ScoringStep
    \/ \E tags \in TagRequests : BeginTags(tags)
    \/ \E edit \in edits : EndTags(edit)
    \/ \E edit \in edits : RefuseTags(edit)
    \/ \E r \in Reviewers, verdict \in Verdicts : BeginVote(r, verdict)
    \/ \E vote \in votes : EndVote(vote)
    \/ \E vote \in votes : RefuseVote(vote)
    \/ \E r \in Reviewers : Comment(r)
    \/ \E force \in BOOLEAN : BeginSummary(force)
    \/ \E draft \in drafts : SkipSummary(draft)
    \/ \E draft \in drafts : FailSummary(draft)
    \/ \E draft \in drafts, advice \in Advice : EndSummary(draft, advice)
    \/ RebuildCard
    \/ StartCheck
    \/ \E check \in checks : EndCheck(check)

DeskSpec == DeskInit /\ [][DeskNext]_<<vars, desk>>

----------------------------------------------------------------------------
(* Properties.                                                             *)

(* The tags are those of one request, the last, and each is there once, as  *)
(* long as no two requests were under way at once (those can leave the tags *)
(* of both: a deletion does not see what is linked after it began).         *)
TagsStand ==
    /\ \A q, link \in links : q.tag = link.tag => q = link
    /\ "tags" \notin crossed => {link.tag : link \in links} = tagged

(* A reviewer has one opinion of a kind, the one that was given last, unless *)
(* two requests of that reviewer were under way at once.                     *)
OpinionsStand ==
    /\ \A q, row \in opinions : q.by = row.by /\ q.key = row.key => q = row
    /\ \A r \in Reviewers : {row.key : row \in OpinionsOf(r)} = DOMAIN voted[r]
    /\ \A row \in opinions : row.by \in crossed \/ row.value = voted[row.by][row.key]

(* Whatever a reviewer is the last to have changed (a section's score, a    *)
(* rubric, a recommendation, a comment) the history shows under that        *)
(* reviewer's name, a recommendation among the decisions too.               *)
HistoryTells ==
    /\ \A row \in rows \cup opinions :
         [by |-> row.by, at |-> row.updated_at] \in Feed("commission")
    /\ comments \subseteq Feed("commission")
    /\ \A row \in opinions : row.key = "recommendation" =>
         [by |-> row.by, at |-> row.updated_at] \in Feed("decision")

(* No summary is paid for that is there already: when a run that is not     *)
(* forced began, the one that was shown was of other material.              *)
NoSummaryTwice ==
    \A s \in summaries :
        s.hash # <<>> /\ ~s.forced =>
            LET before == {q \in summaries : q.on < s.at}
            IN  before = {} \/ ShownIn(before).hash # s.hash

(* The card recommends what the summary that is shown recommends. A check's *)
(* summary reaches the card when it is next rebuilt; and of two runs under  *)
(* way at once the second to end can leave the first one's recommendation,  *)
(* as it does not write a column that is what it had loaded.                *)
CardTellsSummary ==
    \/ card = Shown.advice
    \/ Shown.hash = <<>>
    \/ "summary" \in crossed

(* What the commission's members have entered and asked for stands.         *)
DeskStands ==
    /\ TagsStand /\ OpinionsStand /\ HistoryTells
    /\ NoSummaryTwice /\ CardTellsSummary

=============================================================================
