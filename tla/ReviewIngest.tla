---------------------------- MODULE ReviewIngest ----------------------------
(***************************************************************************)
(* Finding review videos and fetching their transcripts.                   *)
(*                                                                         *)
(* Code: app/reviews/service.py, jobs.py, transcript.py, discovery.py,     *)
(* matcher.py, link_service.py and the endpoints of router.py.             *)
(*                                                                         *)
(* An ingest decides what to do with a video, fetches its transcript (a    *)
(* network call behind a delay) and then writes every column of the row it *)
(* decided about.  The bulk ingest and the transcript retry are background *)
(* jobs that refuse each other; the ingest of one laptop is a request and  *)
(* refuses nobody, and humans decide about reviews at any time.            *)
(***************************************************************************)
EXTENDS ReviewViews

CONSTANTS
    Video, Family,
    NoVideo,            \* "nothing"
    About,              \* About[v]: the family the matcher assigns v to, or "nobody"
    Ungrouped,          \* videos whose matched laptop has no family
    Captioned,          \* videos that have captions; the others' answer is terminal
    Finds,              \* Finds[f]: the videos a search for f can return
    Walk,               \* the families in the order of ingest_bulk's sort
    Limit,              \* families of one bulk run
    MaxBlocks,          \* max_consecutive_blocks
    MaxEdits,           \* bound: human decisions
    MaxEvents           \* bound: ingests of one laptop, cancelled jobs and dead processes

ASSUME IngestAssumption ==
    /\ IsFiniteSet(Video) /\ NoVideo \notin Video
    /\ About \in [Video -> Family \cup {"nobody"}]
    /\ Ungrouped \subseteq Video /\ Captioned \subseteq Video
    /\ Finds \in [Family -> SUBSET Video]
    /\ Walk \in Seq(Family)
    /\ Limit \in Nat \ {0} /\ MaxBlocks \in Nat \ {0}
    /\ {MaxEdits, MaxEvents} \subseteq Nat

VARIABLES
    row,                \* row[v]: the raw_youtube_reviews row and its links
    job,                \* the transcript job at work: "none", "bulk" or "retry"
    todo,               \* the families the bulk run still has
    queue,              \* the candidates the retry run still has
    ing,                \* ing[a]: the ingest of one family or laptop by a
    blocks,             \* blocks[a]: the guard's consecutive_blocks
    rematch,            \* the pending reviews a rematch has read
    edits, events,
    streak,             \* history: fetches a's run saw blocked in a row, whatever its guard says
    raced               \* history: rows written while another's decision about them was in flight

counters == <<edits, events>>
vars == <<row, job, todo, queue, ing, blocks, rematch, counters, streak, raced>>

\* Who fetches: a job or a request; one guard each.
Fetcher == {"job", "request"}

\* tried: a fetch was made; auto, human: the links of the matcher and of a human.
NoRow == [status |-> "absent", text |-> FALSE, reason |-> "none", tried |-> FALSE,
          auto |-> FALSE, human |-> "none"]

\* at: "idle", "videos" between two videos, "fetch" while the transcript is fetched.
NoIngest == [at |-> "idle", left |-> {}, cur |-> NoVideo, existed |-> FALSE, fetch |-> TRUE]

Init ==
    /\ row = [v \in Video |-> NoRow]
    /\ job = "none" /\ todo = <<>> /\ queue = {} /\ rematch = {}
    /\ ing = [a \in Fetcher |-> NoIngest]
    /\ blocks = [a \in Fetcher |-> 0] /\ streak = [a \in Fetcher |-> 0]
    /\ edits = 0 /\ events = 0
    /\ raced = {}

-----------------------------------------------------------------------------
(* Rows, links and the matcher.                                            *)

Exists(v) == row[v].status # "absent"
Linked(v) == Exists(v) /\ (row[v].auto \/ row[v].human # "none")

\* The row as the views of ReviewViews see it; nothing is processed here.
Seen(v) ==
    [status |-> row[v].status, text |-> row[v].text, reason |-> row[v].reason,
     tried |-> row[v].tried, linked |-> Linked(v), work |-> "none", marked |-> FALSE,
     shown |-> FALSE]

\* match_laptop finds a laptop, whatever its family.
Matches(v) == About[v] # "nobody" \/ v \in Ungrouped

\* write_auto_link succeeds: the matched laptop has a family.
Linkable(v) == About[v] # "nobody"

\* Who has decided something about v and not written it yet.
Held(v) ==
    {a \in Fetcher : ing[a].cur = v}
        \cup (IF v \in queue THEN {"retry"} ELSE {})
        \cup (IF v \in rematch THEN {"rematch"} ELSE {})

\* A write of row v by `who`: it races with everybody else's decision.
Write(who, v, new) ==
    /\ row' = [row EXCEPT ![v] = new]
    /\ raced' = IF new # row[v] /\ Held(v) \ {who} # {} THEN raced \cup {v} ELSE raced

\* Mutant of SkipExisting: a dismissal does not make a row skipped.
SkipExistingMatched(v, fetch) ==
    /\ Exists(v)
    /\ \/ row[v].human # "none" \/ ~fetch
       \/ row[v].status \in {"matched", "pending"}
       \/ row[v].reason = "terminal"

\* should_skip_existing: only a rejected row whose failure was operational is done again,
\* and not one a human has linked.
SkipExisting(v, fetch) ==
    /\ Exists(v)
    /\ \/ row[v].human # "none"
       \/ ~fetch
       \/ row[v].status # "rejected"
       \/ row[v].reason = "terminal"

-----------------------------------------------------------------------------
(* Fetching.                                                               *)

\* fetch_transcript: what YouTube has, unless it blocks us or the network fails.
Answers(v) ==
    {IF v \in Captioned THEN "ok" ELSE "terminal", "blocked", "operational"}

\* TranscriptFetchGuard.fetch: consecutive blocks; any other outcome resets.
Guarded(a, outcome) == [blocks EXCEPT ![a] = IF outcome = "blocked" THEN @ + 1 ELSE 0]

Tripped(a) == blocks[a] >= MaxBlocks

Fetch(a, outcome) ==
    /\ blocks' = Guarded(a, outcome)
    /\ streak' = [streak EXCEPT ![a] = IF outcome = "blocked" THEN @ + 1 ELSE 0]

ReasonOf(outcome) ==
    CASE outcome = "ok" -> "none"
      [] outcome = "terminal" -> "terminal"
      [] OTHER -> "operational"

\* A new run has a new guard.
NewGuard(a) ==
    /\ blocks' = [blocks EXCEPT ![a] = 0]
    /\ streak' = [streak EXCEPT ![a] = 0]

-----------------------------------------------------------------------------
(* The ingest of one family (a job's) or one laptop (a request's).         *)

\* ingest_for_laptop up to discover_videos: a channel whose search fails is skipped, so any
\* part of what YouTube holds may be returned.
Discover(a, f, fetch) ==
    /\ ing[a].at = "idle"
    /\ \E found \in SUBSET Finds[f] :
          ing' = [ing EXCEPT ![a] = [NoIngest EXCEPT !.at = "videos", !.left = found,
                                                     !.fetch = fetch]]

\* The lookups for one video of a fetching run, up to the commit before the fetch.
LookUp(a, v) ==
    /\ ing[a].at = "videos" /\ ing[a].fetch
    /\ v \in ing[a].left
    /\ ing' = IF SkipExisting(v, TRUE)
              THEN [ing EXCEPT ![a].left = @ \ {v}]
              ELSE [ing EXCEPT ![a].at = "fetch", ![a].cur = v, ![a].existed = Exists(v)]
    /\ UNCHANGED <<row, job, todo, queue, blocks, rematch, counters, streak, raced>>

\* What the fetch leaves in the row: all columns are overwritten, whatever they hold by now.
Ingested(v, outcome, old) ==
    [status |-> IF outcome # "ok" THEN "rejected"
                ELSE IF Linkable(v) THEN "matched" ELSE "pending",
     text   |-> outcome = "ok",
     reason |-> ReasonOf(outcome),
     tried  |-> TRUE,
     auto   |-> Linkable(v) \/ (Matches(v) /\ old.auto),
     human  |-> old.human]

\* The fetch and the write.  A row somebody inserted meanwhile violates the unique video_id:
\* the family's run ends.  A tripped guard ends it too.
FetchAndSave(a, v) ==
    /\ ing[a].at = "fetch" /\ ing[a].cur = v
    /\ \E outcome \in Answers(v) :
          /\ Fetch(a, outcome)
          /\ IF ing[a].existed \/ ~Exists(v)
             THEN Write(a, v, Ingested(v, outcome, row[v]))
             ELSE UNCHANGED <<row, raced>>
          /\ ing' = [ing EXCEPT ![a].at = "videos", ![a].cur = NoVideo,
                                ![a].left = IF (~ing[a].existed /\ Exists(v)) \/ Tripped(a)'
                                            THEN {} ELSE @ \ {v}]
    /\ UNCHANGED <<job, todo, queue, rematch, counters>>

\* A discovery-only run: every new video is recorded in one transaction, no fetch made.
Deferred(v) ==
    [status |-> "pending", text |-> FALSE, reason |-> "none", tried |-> FALSE,
     auto |-> Linkable(v), human |-> "none"]

RecordAll(a) ==
    /\ ing[a].at = "videos" /\ ~ing[a].fetch /\ ing[a].left # {}
    /\ row' = [v \in Video |->
                 IF v \in ing[a].left /\ ~SkipExisting(v, FALSE) THEN Deferred(v) ELSE row[v]]
    /\ raced' = raced \cup {v \in Video : row'[v] # row[v] /\ Held(v) \ {a} # {}}
    /\ ing' = [ing EXCEPT ![a].left = {}]
    /\ UNCHANGED <<job, todo, queue, blocks, rematch, counters, streak>>

\* POST /reviews/ingest/{laptop_id}: no lock.
IngestLaptop(f, fetch) ==
    /\ events < MaxEvents
    /\ Discover("request", f, fetch)
    /\ NewGuard("request")
    /\ events' = events + 1
    /\ UNCHANGED <<row, job, todo, queue, rematch, edits, raced>>

\* Its final commit and response.
LaptopDone ==
    /\ ing["request"].at = "videos" /\ ing["request"].left = {}
    /\ ing' = [ing EXCEPT !["request"] = NoIngest]
    /\ UNCHANGED <<row, job, todo, queue, blocks, rematch, counters, streak, raced>>

-----------------------------------------------------------------------------
(* The bulk ingest.                                                        *)

\* family_worklist: families with a link to one of their laptops are covered.
Covered(f) ==
    \E v \in Video : About[v] = f /\ Exists(v) /\ (row[v].auto \/ row[v].human = "config")

Worklist == SelectSeq(Walk, LAMBDA f : ~Covered(f))

\* ingest_bulk_endpoint and the start of ingest_bulk.
IngestBulk(fetch) ==
    /\ job = "none" /\ Worklist # <<>>
    /\ job' = "bulk"
    /\ todo' = SubSeq(Worklist, 1, Min({Limit, Len(Worklist)}))
    /\ ing' = [ing EXCEPT !["job"].fetch = fetch]
    /\ NewGuard("job")
    /\ UNCHANGED <<row, queue, rematch, counters, raced>>

\* Mutant of SearchFamily: a guard per family.
SearchFamilyAnew ==
    /\ job = "bulk" /\ todo # <<>>
    /\ Discover("job", Head(todo), ing["job"].fetch)
    /\ todo' = Tail(todo)
    /\ blocks' = [blocks EXCEPT !["job"] = 0]
    /\ UNCHANGED <<row, job, queue, rematch, counters, streak, raced>>

\* The next family; one guard spans them all.
SearchFamily ==
    /\ job = "bulk" /\ todo # <<>> /\ ~Tripped("job")
    /\ Discover("job", Head(todo), ing["job"].fetch)
    /\ todo' = Tail(todo)
    /\ UNCHANGED <<row, job, queue, blocks, rematch, counters, streak, raced>>

\* A family is finished; the mode of the run goes on to the next.
FamilyDone ==
    /\ job = "bulk" /\ ing["job"].at = "videos" /\ ing["job"].left = {}
    /\ ing' = [ing EXCEPT !["job"] = [NoIngest EXCEPT !.fetch = ing["job"].fetch]]
    /\ UNCHANGED <<row, job, todo, queue, blocks, rematch, counters, streak, raced>>

BulkDone ==
    /\ job = "bulk" /\ ing["job"].at = "idle"
    /\ todo = <<>> \/ Tripped("job")
    /\ job' = "none" /\ todo' = <<>>
    /\ ing' = [ing EXCEPT !["job"] = NoIngest]
    /\ UNCHANGED <<row, queue, blocks, rematch, counters, streak, raced>>

-----------------------------------------------------------------------------
(* The transcript retry.                                                   *)

Candidates == {v \in Video : Exists(v) /\ RetryCandidate(Seen(v))}

\* retry_transcripts and the worker's one read of its candidates.
RetryTranscripts ==
    /\ job = "none" /\ Candidates # {}
    /\ job' = "retry" /\ queue' = Candidates
    /\ NewGuard("job")
    /\ UNCHANGED <<row, todo, ing, rematch, counters, raced>>

\* Mutant of Retried: a failed retry records no reason.
RetriedUnrecorded(outcome, old) ==
    IF outcome = "ok"
    THEN [old EXCEPT !.text = TRUE, !.reason = "none", !.tried = TRUE, !.status = "pending"]
    ELSE [old EXCEPT !.tried = TRUE]

\* What one retry leaves in the row, whatever its status is by now.
Retried(outcome, old) ==
    IF outcome = "ok"
    THEN [old EXCEPT !.text = TRUE, !.reason = "none", !.tried = TRUE, !.status = "pending"]
    ELSE [old EXCEPT !.reason = ReasonOf(outcome), !.tried = TRUE]

\* One row: the fetch, a read of the row and the commit.
RetryOne(v, outcome) ==
    /\ job = "retry" /\ v \in queue /\ ~Tripped("job")
    /\ Fetch("job", outcome)
    /\ Write("retry", v, Retried(outcome, row[v]))
    /\ queue' = queue \ {v}
    /\ UNCHANGED <<job, todo, ing, rematch, counters>>

RetryDone ==
    /\ job = "retry"
    /\ queue = {} \/ Tripped("job")
    /\ job' = "none" /\ queue' = {}
    /\ UNCHANGED <<row, todo, ing, blocks, rematch, counters, streak, raced>>

\* The flag is read between two rows or families.
Cancelled ==
    /\ events < MaxEvents
    /\ job = "retry" \/ (job = "bulk" /\ ing["job"].at = "idle")
    /\ events' = events + 1
    /\ job' = "none" /\ queue' = {} /\ todo' = <<>>
    /\ ing' = [ing EXCEPT !["job"] = NoIngest]
    /\ UNCHANGED <<row, blocks, rematch, edits, streak, raced>>

\* The process dies; reset_stale_jobs ends the job's row at the start.
Crash ==
    /\ events < MaxEvents
    /\ events' = events + 1
    /\ job' = "none" /\ queue' = {} /\ todo' = <<>> /\ rematch' = {}
    /\ ing' = [a \in Fetcher |-> NoIngest]
    /\ UNCHANGED <<row, blocks, edits, streak, raced>>

-----------------------------------------------------------------------------
(* Humans, and the rematch they start.                                     *)

Edit(v, new) ==
    /\ Exists(v) /\ edits < MaxEdits
    /\ new # row[v]
    /\ edits' = edits + 1
    /\ Write("human", v, new)
    /\ UNCHANGED <<job, todo, queue, ing, blocks, rematch, events, streak>>

\* set_review_irrelevant, both ways.
SetIrrelevant(v) ==
    /\ Exists(v) /\ row[v].status \in {"pending", "irrelevant"}
    /\ Edit(v, [row[v] EXCEPT !.status = IF @ = "pending" THEN "irrelevant" ELSE "pending"])

\* create_review_link: only a pending review becomes matched.
CreateLink(v, level) ==
    /\ Exists(v) /\ row[v].human = "none"
    /\ Edit(v, [row[v] EXCEPT !.human = level,
                              !.status = IF @ = "pending" THEN "matched" ELSE @])

\* manual_match: a configuration makes any review matched.
ManualMatch(v, level) ==
    /\ Exists(v) /\ row[v].human = "none"
    /\ Edit(v, [row[v] EXCEPT !.human = level,
                              !.status = IF @ = "pending" \/ level = "config"
                                         THEN "matched" ELSE @])

\* delete_review_link.
DeleteLink(v) ==
    /\ Linked(v)
    /\ \/ row[v].auto /\ Edit(v, [row[v] EXCEPT !.auto = FALSE])
       \/ row[v].human # "none" /\ Edit(v, [row[v] EXCEPT !.human = "none"])

\* rematch_worker reads the pending reviews and the human links first.
RematchRead ==
    /\ rematch = {}
    /\ rematch' = {v \in Video : Exists(v) /\ row[v].status = "pending"
                                   /\ row[v].human = "none" /\ Linkable(v)}
    /\ rematch' # {}
    /\ UNCHANGED <<row, job, todo, queue, ing, blocks, counters, streak, raced>>

\* Its commit.
Rematch ==
    /\ rematch # {}
    /\ row' = [v \in Video |-> IF v \in rematch
                               THEN [row[v] EXCEPT !.status = "matched", !.auto = TRUE]
                               ELSE row[v]]
    /\ raced' = raced \cup {v \in rematch : row'[v] # row[v] /\ Held(v) \ {"rematch"} # {}}
    /\ rematch' = {}
    /\ UNCHANGED <<job, todo, queue, ing, blocks, counters, streak>>

-----------------------------------------------------------------------------
Ingesting(a) ==
    \/ \E v \in Video : LookUp(a, v) \/ FetchAndSave(a, v)
    \/ RecordAll(a)

Human ==
    \E v \in Video :
        \/ SetIrrelevant(v) \/ DeleteLink(v)
        \/ \E level \in {"family", "config"} : CreateLink(v, level) \/ ManualMatch(v, level)

Working ==
    \/ Ingesting("job") \/ SearchFamily \/ FamilyDone \/ BulkDone
    \/ RetryDone
    \/ \E v \in Video : \E outcome \in Answers(v) : RetryOne(v, outcome)

Next ==
    \/ \E fetch \in BOOLEAN : IngestBulk(fetch) \/ \E f \in Family : IngestLaptop(f, fetch)
    \/ Working
    \/ Ingesting("request") \/ LaptopDone
    \/ RetryTranscripts \/ RematchRead \/ Rematch
    \/ Human \/ Cancelled \/ Crash

Spec == Init /\ [][Next]_vars

\* Jobs and requests go on; the operator starts retries and fetching runs again and again;
\* YouTube does not block us for ever.
FairSpec ==
    /\ Spec
    /\ WF_vars(Working) /\ WF_vars(Ingesting("request") \/ LaptopDone) /\ WF_vars(Rematch)
    /\ SF_vars(RetryTranscripts)
    /\ \A v \in Video : SF_vars(RetryOne(v, IF v \in Captioned THEN "ok" ELSE "terminal"))

-----------------------------------------------------------------------------
(* Properties.                                                             *)

\* A run stops when its MaxBlocks-th fetch in a row is blocked and not before: across
\* families, and whatever it skipped in between (service.py: "a per-family guard would
\* forget that and keep hammering").
StopsOnBlocks ==
    \A a \in Fetcher : streak[a] <= MaxBlocks /\ (Tripped(a) <=> streak[a] = MaxBlocks)

\* Unless its row was written while another decision about it was in flight, no machine step
\* changes what a review was dismissed or matched as, and none ever removes a human's link.
HumansDecide ==
    [][\A v \in Video : Exists(v) /\ edits' = edits =>
          /\ row'[v].human = row[v].human
          /\ v \notin raced' /\ row[v].status \in {"irrelevant", "matched"} =>
                row'[v].status = row[v].status]_vars

\* The reviews the screens read.
Reviews == [v \in {u \in Video : Exists(u)} |-> Seen(v)]

\* funnel_counts: "count(previous step) = count(step) + sum(stuck)"; with the dismissed ones
\* the first step is everything.
FunnelAddsUp(status) ==
    /\ status.reviews_total = status.irrelevant_total + status.funnel["found"].count
    /\ \A i \in 2..Len(STEPS) :
          LET step == status.funnel[STEPS[i]] IN
              status.funnel[STEPS[i - 1]].count =
                  step.count + MapThenSumSet(LAMBDA k : step.stuck[k], STUCK[STEPS[i]])

\* "The reviews behind one funnel number" are as many as the number says.
ListsBehind(funnel) ==
    \A step \in ToSet(STEPS) :
        /\ Cardinality(ListRaw(Reviews, "any", step, "any")) = funnel[step].count
        /\ \A k \in STUCK[step] :
              Cardinality(ListRaw(Reviews, "any", "any", k)) = funnel[step].stuck[k]

\* The pipeline screen's numbers add up, list the reviews they count, and leave nothing out:
\* a review with a transcript is a candidate of the next processing run, dismissed, or in
\* the human queue, where every review stuck as unlinked is.
NothingUnlisted ==
    LET status == PipelineStatus(Reviews) IN
        /\ FunnelAddsUp(status) /\ ListsBehind(status.funnel)
        /\ ListRaw(Reviews, "any", "any", "unlinked") \subseteq ListPending(Reviews)
        /\ \A v \in DOMAIN Reviews \ ListPending(Reviews) :
              row[v].text => Processable(Seen(v)) \/ row[v].status = "irrelevant"

\* What a retry can fetch is not a candidate for ever.
EventuallyFetched == \A v \in Video : (v \in Candidates) ~> (v \notin Candidates)

\* "POST /reviews/retry-transcripts picks up never-attempted rows precisely so this mode
\* cannot strand them" (service.py:398-400): a retry can still fetch a review no human has
\* decided about that has neither a transcript nor a terminal verdict.
DeferredNotStranded ==
    \A v \in Video :
        Exists(v) /\ row[v].status # "irrelevant" /\ row[v].human = "none" /\ ~row[v].text
            => RetryCandidate(Seen(v)) \/ row[v].reason = "terminal"

=============================================================================
