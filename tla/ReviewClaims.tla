---------------------------- MODULE ReviewClaims ----------------------------
(***************************************************************************)
(* The claims one review video contributes to the site: the live tables,   *)
(* the staging table, the human edits of the review's links, and the run   *)
(* that analyses its transcript window by window.                          *)
(*                                                                         *)
(* Code: app/reviews/processor.py (process_raw_review, swap_claims,        *)
(* on_links_changed, processing_candidates), app/reviews/router.py (link   *)
(* endpoints), app/reviews/link_service.py, app/scripts/reprocess_reviews. *)
(*                                                                         *)
(* A run reads the links and the saved windows once and then commits one   *)
(* window at a time, minutes of LLM calls apart.  Nothing makes the link   *)
(* endpoints wait for it.  One run at a time: the job lock (JobService) and*)
(* the script's instruction not to overlap with a processing job.          *)
(*                                                                         *)
(* A claim is abstracted to the links it was written for: the candidates   *)
(* the prompt offered, on which its family and configuration depend.       *)
(***************************************************************************)
EXTENDS Naturals, FiniteSets

CONSTANTS
    Window,             \* start seconds of the transcript's windows
    Family,             \* what a link can name
    NoClaim,            \* no row for the window
    MaxEdits,           \* bound: link edits
    MaxFailures,        \* bound: windows that fail (429, invalid answer)
    MaxCrashes,         \* bound: runs the process dies under
    MaxScripts          \* bound: uses of reprocess_reviews besides the jobs

ASSUME ReviewAssumption ==
    /\ Window \subseteq Nat /\ Window # {}
    /\ \A F \in SUBSET Family : NoClaim # F
    /\ MaxEdits \in Nat /\ MaxFailures \in Nat
    /\ MaxCrashes \in Nat /\ MaxScripts \in Nat

VARIABLES
    human, auto,        \* families linked by a human, by the matcher
    status,             \* the review's ReviewStatus
    rematching,         \* a rematch job read the review as PENDING with no human link
    live,               \* live[w]: window w's public claim
    staged,             \* staged[w]: window w's row in review_claims_staging
    marked,             \* reprocess_requested_at is set
    pc,                 \* the run: "idle", "windows", "swap"
    staging,            \* its windows go to staging
    autoSwap,           \* it swaps staging in when complete
    todo,               \* windows it has not reached
    cands,              \* the links it read when it began
    missed,             \* a window of it failed
    raced,              \* history: some link edit has hit a run
    edits, failures, crashes, scripts

links == <<human, auto, status, rematching>>
claims == <<live, staged, marked>>
run == <<pc, staging, autoSwap, todo, cands, missed>>
bounds == <<raced, edits, failures, crashes, scripts>>
vars == <<links, claims, run, bounds>>

Claims == [Window -> (SUBSET Family) \cup {NoClaim}]
NoClaims == [w \in Window |-> NoClaim]
Saved(table) == {w \in Window : table[w] # NoClaim}

\* effective_links: human links, if any, replace the auto ones.
Effective == IF human # {} THEN human ELSE auto

Processable == status = "matched" /\ Effective # {}

\* Mutant of Candidate: process-bulk lists only reviews with windows left.
CandidateUnprocessed == Processable /\ Saved(live) # Window

\* processing_candidates.
Candidate ==
    /\ Processable
    /\ marked \/ Saved(live) # Window

TypeOK ==
    /\ human \in SUBSET Family /\ auto \in SUBSET Family
    /\ status \in {"pending", "matched", "irrelevant"} /\ rematching \in BOOLEAN
    /\ live \in Claims /\ staged \in Claims
    /\ marked \in BOOLEAN
    /\ pc \in {"idle", "windows", "swap"}
    /\ staging \in BOOLEAN /\ autoSwap \in BOOLEAN /\ missed \in BOOLEAN
    /\ todo \in SUBSET Window
    /\ cands \in SUBSET Family
    /\ raced \in BOOLEAN
    /\ edits \in 0..MaxEdits /\ failures \in 0..MaxFailures
    /\ crashes \in 0..MaxCrashes /\ scripts \in 0..MaxScripts

\* The ingest stored the review, MATCHED with one auto link or PENDING with none.
Init ==
    /\ human = {}
    /\ auto \in {{}} \cup {{f} : f \in Family}
    /\ status = IF auto = {} THEN "pending" ELSE "matched"
    /\ rematching = FALSE
    /\ live = NoClaims /\ staged = NoClaims
    /\ marked = FALSE
    /\ pc = "idle"
    /\ staging = FALSE /\ autoSwap = FALSE /\ missed = FALSE
    /\ todo = {}
    /\ cands = {}
    /\ raced = FALSE
    /\ edits = 0 /\ failures = 0 /\ crashes = 0 /\ scripts = 0

-----------------------------------------------------------------------------
(* Link edits: one transaction each.                                       *)

\* Mutant of OnLinksChanged: staging is not cleared.
MarkOnly == marked' = (marked \/ Saved(live) # {}) /\ UNCHANGED <<live, staged>>

\* on_links_changed: staged claims are dropped, a review with live ones marked.
OnLinksChanged ==
    /\ staged' = NoClaims
    /\ marked' = (marked \/ Saved(live) # {})
    /\ UNCHANGED live

\* Nothing makes an edit wait for a run.
CountEdit ==
    /\ edits < MaxEdits
    /\ edits' = edits + 1
    /\ raced' = (raced \/ pc # "idle")
    /\ UNCHANGED <<failures, crashes, scripts>>

\* create_review_link / manual_match: a duplicate link is a 409.  A PENDING review
\* becomes MATCHED, a dismissed one by a match that names a configuration.
AddLink(f) ==
    /\ CountEdit
    /\ f \notin human
    /\ human' = human \cup {f}
    /\ status' \in IF status = "irrelevant" THEN {status, "matched"} ELSE {"matched"}
    /\ OnLinksChanged
    /\ UNCHANGED <<auto, rematching, run>>

\* delete_review_link: any link, auto or human; the status stays.
DeleteLink(f) ==
    /\ CountEdit
    /\ \/ f \in human /\ human' = human \ {f} /\ UNCHANGED auto
       \/ f \in auto /\ auto' = auto \ {f} /\ UNCHANGED human
    /\ OnLinksChanged
    /\ UNCHANGED <<status, rematching, run>>

\* set_review_irrelevant: dismiss a PENDING review, or undo it.
SetIrrelevant ==
    /\ \/ status = "pending" /\ status' = "irrelevant"
       \/ status = "irrelevant" /\ status' = "pending"
    /\ UNCHANGED <<human, auto, rematching, claims, run, bounds>>

\* rematch_worker reads the pending reviews and the human links ...
RematchRead ==
    /\ status = "pending" /\ human = {}
    /\ rematching' = TRUE
    /\ UNCHANGED <<human, auto, status, claims, run, bounds>>

\* ... and commits its matches later: an auto link in place of any earlier one,
\* and MATCHED whatever the status has become.
Rematched(f) ==
    /\ rematching
    /\ auto' = {f}
    /\ status' = "matched"
    /\ rematching' = FALSE
    /\ UNCHANGED <<human, claims, run, bounds>>

\* No match, or the job failed.
NotRematched ==
    /\ rematching
    /\ rematching' = FALSE
    /\ UNCHANGED <<human, auto, status, claims, run, bounds>>

-----------------------------------------------------------------------------
(* process_raw_review.                                                     *)

\* The reads before the loop: destination, windows to do, candidates.  With no
\* window left, a marked review goes straight to the swap; otherwise the call
\* raises AlreadyProcessed and nothing happens.
BeginRun(stageOnly) ==
    /\ pc = "idle"
    /\ Processable
    /\ autoSwap' = (~stageOnly /\ marked)
    /\ staging' = (stageOnly \/ marked)
    /\ todo' = Window \ Saved(IF staging' THEN staged ELSE live)
    /\ todo' = {} => autoSwap'
    /\ cands' = Effective
    /\ missed' = FALSE
    /\ pc' = IF todo' = {} THEN "swap" ELSE "windows"
    /\ UNCHANGED <<links, claims>>

BeginJob == Candidate /\ BeginRun(FALSE) /\ UNCHANGED bounds

CountScript ==
    /\ scripts < MaxScripts
    /\ scripts' = scripts + 1
    /\ UNCHANGED <<raced, edits, failures, crashes>>

BeginScript == BeginRun(TRUE) /\ CountScript

Next1(w) == w \in todo /\ \A x \in todo : w <= x

\* Mutant of SaveWindow: a re-processing run writes straight to the live table.
SaveWindowLive(w) ==
    /\ pc = "windows" /\ Next1(w)
    /\ live' = [live EXCEPT ![w] = cands]
    /\ todo' = todo \ {w}
    /\ UNCHANGED <<links, staged, marked, pc, staging, autoSwap, cands, missed, bounds>>

\* One window analysed, embedded, inserted and committed.
SaveWindow(w) ==
    /\ pc = "windows" /\ Next1(w)
    /\ IF staging THEN staged' = [staged EXCEPT ![w] = cands] /\ UNCHANGED live
                  ELSE live' = [live EXCEPT ![w] = cands] /\ UNCHANGED staged
    /\ todo' = todo \ {w}
    /\ UNCHANGED <<links, marked, pc, staging, autoSwap, cands, missed, bounds>>

\* One window failed: rolled back, reported, and the loop goes on.
FailWindow(w) ==
    /\ pc = "windows" /\ Next1(w)
    /\ failures < MaxFailures
    /\ failures' = failures + 1
    /\ todo' = todo \ {w}
    /\ missed' = TRUE
    /\ UNCHANGED <<links, claims, pc, staging, autoSwap, cands, raced, edits, crashes, scripts>>

\* `complete` counts: already_saved + saved = all windows, i.e. none was missed.
EndWindows ==
    /\ pc = "windows" /\ todo = {}
    /\ pc' = IF ~missed /\ autoSwap THEN "swap" ELSE "idle"
    /\ UNCHANGED <<links, claims, staging, autoSwap, todo, cands, missed, bounds>>

\* swap_claims(keep_previous=False).
Swap ==
    /\ pc = "swap"
    /\ live' = staged
    /\ staged' = NoClaims
    /\ marked' = FALSE
    /\ pc' = "idle"
    /\ UNCHANGED <<links, staging, autoSwap, todo, cands, missed, bounds>>

\* Mutant of SwapScript: an incomplete staged set is swapped in.
SwapScriptPartial ==
    /\ CountScript /\ pc = "idle" /\ Processable
    /\ live' = staged /\ staged' = live
    /\ marked' = FALSE
    /\ UNCHANGED <<links, run>>

\* reprocess_reviews `swap --apply`: only a complete staged set of a processable
\* review; the previous claims stay in staging, to be swapped back.
SwapScript ==
    /\ CountScript
    /\ pc = "idle"
    /\ Processable
    /\ Saved(staged) = Window
    /\ live' = staged
    /\ staged' = live
    /\ marked' = FALSE
    /\ UNCHANGED <<links, run>>

\* The process dies under the run; what it committed stays.
Crash ==
    /\ pc # "idle"
    /\ crashes < MaxCrashes
    /\ crashes' = crashes + 1
    /\ pc' = "idle"
    /\ UNCHANGED <<links, claims, staging, autoSwap, todo, cands, missed, raced, edits, failures, scripts>>

-----------------------------------------------------------------------------
Edit == \E f \in Family : AddLink(f) \/ DeleteLink(f)
Rematch == RematchRead \/ NotRematched \/ \E f \in Family : Rematched(f)
Loop == EndWindows \/ Swap \/ \E w \in Window : SaveWindow(w) \/ FailWindow(w)
Script == BeginScript \/ SwapScript
Next == Edit \/ SetIrrelevant \/ Rematch \/ BeginJob \/ Loop \/ Script \/ Crash

Spec == Init /\ [][Next]_vars

\* A run goes on to its end, and the operator presses process-bulk while the
\* page still lists the review as a candidate.
FairSpec == Spec /\ WF_vars(Loop) /\ WF_vars(BeginJob)

-----------------------------------------------------------------------------
(* Properties.  `raced` and `scripts` say what they are broken by: an edit    *)
(* that hits a run, and the script.                                         *)

\* Without these, a review that is not marked shows no claim written for other
\* links than it has: a link edit of a processed review is always followed by a
\* new set (delete_review_link: "its claims are redone for the remaining links").
UnmarkedIsFresh ==
    ~raced /\ scripts = 0 /\ ~marked => \A w \in Window : live[w] \in {NoClaim, Effective}

\* Nor is a staged claim: a resumed run never completes a set that a run before
\* a link edit began.
StagedIsFresh ==
    ~raced /\ scripts = 0 => \A w \in Window : staged[w] \in {NoClaim, Effective}

\* Together: what a review says is always written for the links it has, or for
\* the links it had and waits to be redone.
ClaimsFollowLinks == UnmarkedIsFresh /\ StagedIsFresh

\* A public window keeps having a claim: re-processing never empties or halves a
\* page (on_links_changed: "live claims stay public until the new set is complete").
PageNeverShrinks == [][~raced' => Saved(live) \subseteq Saved(live')]_vars

\* A public claim is replaced by a job only together with the whole staged set
\* of a marked review, edits at any time: no run overwrites one in place.
ReplacedOnlyBySwap ==
    [][\A w \in Window : scripts' = 0 /\ live[w] # NoClaim /\ live'[w] # live[w]
            => marked /\ ~marked' /\ live' = staged]_vars

\* Staged claims are never forgotten: the review they belong to is still marked,
\* so that a later run completes and swaps them.
StagedIsMarked == scripts = 0 /\ Saved(staged) # {} => marked

\* When link edits, failures, crashes and the script are over, a processable
\* review ends with every window public and no mark, however runs were cut short.
EventuallyComplete == <>[](Processable => Saved(live) = Window /\ ~marked)

=============================================================================
