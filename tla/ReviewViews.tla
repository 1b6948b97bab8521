----------------------------- MODULE ReviewViews -----------------------------
(***************************************************************************)
(* Which reviews the admin screens and the jobs consider: the human queue, *)
(* the transcript retries, the funnel and the lists behind its numbers.    *)
(*                                                                         *)
(* Code: app/reviews/funnel.py, the read endpoints of router.py, and       *)
(* retry_candidates_query of jobs.py.                                      *)
(*                                                                         *)
(* A review is seen as a record: its status, whether it has transcript     *)
(* segments (text), the recorded failure (reason: "none", "terminal" for   *)
(* TERMINAL_FAILURES, "operational" for a block or the network), whether a *)
(* fetch was tried (transcript_attempts > 0), whether it has any link, how *)
(* many of its windows have a claim (work: "none", "part", "all"), whether *)
(* it is marked for reprocessing, and whether one of its claims is shown.  *)
(***************************************************************************)
EXTENDS Naturals, FiniteSets, FiniteSetsExt, Sequences, SequencesExt

\* retry_candidates_query: an operational or unrecorded failure, or a fetch never tried.
RetryCandidate(r) ==
    \/ r.status = "rejected" /\ r.reason # "terminal"
    \/ r.status = "pending" /\ ~r.tried /\ ~r.text

\* Mutant of NeedsLink: a matched review is never looked at again.
PendingOnly(r) == r.status = "pending"

\* _needs_link, the rows of GET /reviews/pending.
NeedsLink(r) == r.status = "pending" \/ (r.status = "matched" /\ ~r.linked)

\* processing_candidates.
Processable(r) ==
    /\ r.status = "matched" /\ r.linked /\ r.text
    /\ r.marked \/ r.work # "all"

STEPS == <<"found", "transcript", "linked", "processed", "shown">>

STUCK == [transcript |-> {"transcript_terminal", "transcript_retryable",
                          "transcript_deferred", "transcript_unknown"},
          linked     |-> {"unlinked"},
          processed  |-> {"never_processed", "partial", "reprocess_requested"},
          shown      |-> {"no_shown_claims"},
          found      |-> {}]

TranscriptStuck(r) ==
    IF r.reason = "terminal" THEN "transcript_terminal"
    ELSE IF r.reason # "none" THEN "transcript_retryable"
    ELSE IF ~r.tried /\ r.status = "pending" THEN "transcript_deferred"
    ELSE "transcript_unknown"

\* classify: the furthest step r reached and what it is stuck on.
Classify(r) ==
    IF ~r.text THEN <<"found", TranscriptStuck(r)>>
    ELSE IF ~(r.linked /\ r.status = "matched") THEN <<"transcript", "unlinked">>
    ELSE IF Processable(r) THEN
        <<"linked", IF r.marked THEN "reprocess_requested"
                    ELSE IF r.work = "none" THEN "never_processed" ELSE "partial">>
    ELSE IF ~r.shown THEN <<"processed", "no_shown_claims">>
    ELSE <<"shown", "none">>

Rank(step) == CHOOSE i \in DOMAIN STEPS : STEPS[i] = step

\* The reviews the funnel counts.
Counted(reviews) == {i \in DOMAIN reviews : reviews[i].status # "irrelevant"}

\* review_ids: the reviews that reached a step and are stuck for a reason ("any": no filter).
ReviewIds(reviews, step, stuck) ==
    {i \in Counted(reviews) :
        LET c == Classify(reviews[i]) IN
            /\ Rank(c[1]) >= (IF step = "any" THEN 1 ELSE Rank(step))
            /\ stuck \in {"any", c[2]}}

\* funnel_counts.
FunnelCounts(reviews) ==
    [step \in ToSet(STEPS) |->
        [count |-> Cardinality({i \in Counted(reviews) :
                        Rank(step) <= Rank(Classify(reviews[i])[1])}),
         stuck |-> [k \in STUCK[step] |->
                        Cardinality({i \in Counted(reviews) : Classify(reviews[i])[2] = k})]]]

\* list_raw_reviews: total, and the page that skip and limit cut out of the ordered rows.
ListRaw(reviews, status, step, stuck) ==
    {i \in DOMAIN reviews : status \in {"any", reviews[i].status}}
        \cap (IF step = "any" /\ stuck = "any" THEN DOMAIN reviews
              ELSE ReviewIds(reviews, step, stuck))

\* list_pending_reviews.
ListPending(reviews) == {i \in DOMAIN reviews : NeedsLink(reviews[i])}

\* pipeline_status: the numbers of the link and processing stages.
PipelineStatus(reviews) ==
    LET queue == ListPending(reviews) IN
        [pending_total    |-> Cardinality(queue),
         pending_linked   |-> Cardinality({i \in queue : reviews[i].linked}),
         irrelevant_total |-> Cardinality(ListRaw(reviews, "irrelevant", "any", "any")),
         reviews_total    |-> Cardinality(DOMAIN reviews),
         candidates       |-> Cardinality({i \in DOMAIN reviews : Processable(reviews[i])}),
         funnel           |-> FunnelCounts(reviews)]

=============================================================================
