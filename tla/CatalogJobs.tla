---------------------------- MODULE CatalogJobs ----------------------------
(* Four jobs over the whole catalogue: embeddings and category tags, which   *)
(* commit laptop by laptop; scores and benchmark marks, which write all or   *)
(* nothing. They run beside each other and beside edits and deletions. A     *)
(* worker has one session, and none rolls back after a failed flush: every   *)
(* later statement of that session then fails.                               *)
EXTENDS Naturals, FiniteSets, Sequences, SequencesExt

CONSTANTS Laptops, Tags,
          Slots,                \* threads that run a job
          None,
          TagLimit,             \* process so many at most (the request's limit)
          MaxRev, MaxStarts     \* bounds: edits of a laptop, jobs started

CatalogAssumption ==
    /\ IsFiniteSet(Laptops) /\ IsFiniteSet(Tags)
    /\ {TagLimit, MaxRev, MaxStarts} \subseteq Nat
    /\ None \notin Nat \cup {"embed", "single", "tag", "score", "refresh", "completed"}

VARIABLES laptop,      \* [live, rev]: rev 0 before it is added
          vector,      \* the revision a laptop's embedding was made of, or None
          tagged,      \* the tags linked to a laptop
          categories,  \* the tags that have a row
          marks,       \* the revision of the benchmark table
          score,       \* the revision of the marks a laptop's scores are of, or None
          job,         \* the job of each slot
          refreshed,   \* the last refresh that wrote: [rev, scores]
          started      \* jobs started so far

catalogJobs == <<laptop, vector, tagged, categories, marks, score, job, refreshed, started>>

\* after: the refresh that queued a recalculation. at: "free", "read", then "items"/"write", "ask", "compute", "upsert" or "queue".
Idle == [kind |-> None, at |-> "free", work |-> <<>>, saw |-> FALSE, broken |-> FALSE,
         known |-> {}, marks |-> 0, counted |-> {}, after |-> 0]

CatalogInit ==
    /\ laptop \in [Laptops -> [live : {TRUE}, rev : {1}] \cup [live : {FALSE}, rev : {0}]]
    /\ vector = [l \in Laptops |-> None]
    /\ tagged = [l \in Laptops |-> {}]
    /\ categories = {}
    /\ marks = 0
    /\ score = [l \in Laptops |-> None]
    /\ job = [s \in Slots |-> Idle]
    /\ refreshed = [rev |-> 0, scores |-> None]
    /\ started = 0

Alive == {l \in Laptops : laptop[l].live}
Running(kind) == {s \in Slots : job[s].kind = kind}
Busy(s, kind, at) == job[s].kind = kind /\ job[s].at = at
Become(s, j) == job' = [job EXCEPT ![s] = j]

-----------------------------------------------------------------------------
(* Requests                                                                   *)

StartAnyScore(kind) == TRUE          \* mutant: recalculations are not refused

(* Only a recalculation and a refresh are refused while one is active.        *)
MayStart(kind) == kind \in {"score", "refresh"} => Running(kind) = {}

StartJob(s, kind) ==
    /\ job[s] = Idle /\ started < MaxStarts /\ MayStart(kind)
    /\ started' = started + 1
    /\ Become(s, [Idle EXCEPT !.kind = kind, !.at = "read"])
    /\ UNCHANGED <<laptop, vector, tagged, categories, marks, score, refreshed>>

StartEmbedding(s) == StartJob(s, "embed")

StartTagging(s) == StartJob(s, "tag")

StartScoring(s) == StartJob(s, "score")

StartRefresh(s) == StartJob(s, "refresh")

Save(l) ==        \* a laptop is added or edited
    /\ laptop[l].live \/ laptop[l].rev = 0
    /\ laptop[l].rev < MaxRev
    /\ laptop' = [laptop EXCEPT ![l] = [live |-> TRUE, rev |-> @.rev + 1]]
    /\ UNCHANGED <<vector, tagged, categories, marks, score, job, refreshed, started>>

Delete(l) ==      \* takes the embedding, the links and the scores along
    /\ laptop[l].live
    /\ laptop' = [laptop EXCEPT ![l].live = FALSE]
    /\ vector' = [vector EXCEPT ![l] = None]
    /\ tagged' = [tagged EXCEPT ![l] = {}]
    /\ score' = [score EXCEPT ![l] = None]
    /\ UNCHANGED <<categories, marks, job, refreshed, started>>

AddCategory(t) ==
    /\ t \notin categories
    /\ categories' = categories \cup {t}
    /\ UNCHANGED <<laptop, vector, tagged, marks, score, job, refreshed, started>>

-----------------------------------------------------------------------------
(* Embeddings: every text is built before the first call; the request for one *)
(* laptop takes the same steps in its own session                             *)

ReadForEmbedding(s) ==
    /\ Busy(s, "embed", "read")
    /\ Become(s, [job[s] EXCEPT !.at = "items",
                  !.work = SetToSeq({<<l, laptop[l].rev>> : l \in Alive})])
    /\ UNCHANGED <<laptop, vector, tagged, categories, marks, score, refreshed, started>>

(* generate_single_laptop_embedding, up to the commit before the call.        *)
GenerateSingle(s, l) ==
    /\ job[s] = Idle /\ started < MaxStarts
    /\ l \in Alive
    /\ started' = started + 1
    /\ Become(s, [Idle EXCEPT !.kind = "single", !.at = "items", !.work = <<<<l, laptop[l].rev>>>>])
    /\ UNCHANGED <<laptop, vector, tagged, categories, marks, score, refreshed>>

Embeds(s, at) == Busy(s, "embed", at) \/ Busy(s, "single", at)

(* The next item, or the end: after each a cancel request is looked for.      *)
After(j) ==
    {Idle} \cup (IF Len(j.work) > 1 THEN {[j EXCEPT !.at = "items", !.work = Tail(@)]} ELSE {})
Ended(s) == job[s].work = <<>> /\ Become(s, Idle)

FailedAsDone(j) ==           \* mutant: a failed item advances the count of the done
    [j EXCEPT !.counted = @ \cup {Head(j.work)[1]}]
Failed(j) == j

(* The call answers, then the stored row is looked for.                       *)
LookUpVector(s) ==
    /\ Embeds(s, "items")
    /\ \/ Ended(s)
       \/ \E answered \in BOOLEAN :
             /\ job[s].work # <<>>
             /\ IF answered /\ ~job[s].broken
                THEN Become(s, [job[s] EXCEPT !.at = "write", !.saw = vector[Head(job[s].work)[1]] # None])
                ELSE \E j \in After(Failed(job[s])) : Become(s, j)
    /\ UNCHANGED <<laptop, vector, tagged, categories, marks, score, refreshed, started>>

(* The commit: it fails if the laptop is gone, or a row is there that was not *)
(* or the other way round.                                                    *)
WriteVector(s) ==
    LET l == Head(job[s].work)[1]
        ok == laptop[l].live /\ job[s].saw = (vector[l] # None)
    IN  /\ Embeds(s, "write")
        /\ vector' = [vector EXCEPT ![l] = IF ok THEN Head(job[s].work)[2] ELSE @]
        /\ \E j \in After(IF ok THEN [job[s] EXCEPT !.counted = @ \cup {l}]
                          ELSE Failed([job[s] EXCEPT !.broken = TRUE])) : Become(s, j)
        /\ UNCHANGED <<laptop, tagged, categories, marks, score, refreshed, started>>

-----------------------------------------------------------------------------
(* Tags: the categories are read once, the specs before each call             *)

ReadUntagged(s) ==
    /\ Busy(s, "tag", "read")
    /\ \E U \in SUBSET {l \in Alive : tagged[l] = {}} :
          /\ Cardinality(U) <= TagLimit
          /\ Cardinality(U) < TagLimit => U = {l \in Alive : tagged[l] = {}}
          /\ Become(s, [job[s] EXCEPT !.at = "items", !.known = categories,
                        !.work = SetToSeq({<<l, laptop[l].rev>> : l \in U})])
    /\ UNCHANGED <<laptop, vector, tagged, categories, marks, score, refreshed, started>>

(* A laptop deleted meanwhile ends the run: naming it in the error fails too. *)
DescribeLaptop(s) ==
    /\ Busy(s, "tag", "items")
    /\ \/ Ended(s)
       \/ /\ job[s].work # <<>>
          /\ Become(s, IF laptop[Head(job[s].work)[1]].live THEN [job[s] EXCEPT !.at = "ask"] ELSE Idle)
    /\ UNCHANGED <<laptop, vector, tagged, categories, marks, score, refreshed, started>>

TagCallFails(s) ==
    /\ Busy(s, "tag", "ask")
    /\ \E j \in After(job[s]) : Become(s, IF laptop[Head(job[s].work)[1]].live THEN j ELSE Idle)
    /\ UNCHANGED <<laptop, vector, tagged, categories, marks, score, refreshed, started>>

(* _sync_laptop_categories: a tag that the run does not know of gets a row,   *)
(* committed at once; a row of that name added meanwhile ends the run and     *)
(* drops the links of this laptop.                                            *)
SyncTags(s, chosen) ==
    LET l == Head(job[s].work)[1]
        Clash(i) == chosen[i] \in categories \ job[s].known
        clashes == {i \in DOMAIN chosen : Clash(i)}
        created == {chosen[i] : i \in {i \in DOMAIN chosen : \A k \in 1..i : ~Clash(k)}}
    IN  /\ Busy(s, "tag", "ask")
        /\ IF ~laptop[l].live
           THEN Become(s, Idle) /\ UNCHANGED <<categories, tagged>>
           ELSE /\ categories' = categories \cup created
                /\ IF clashes # {}
                   THEN Become(s, Idle) /\ UNCHANGED tagged
                   ELSE /\ tagged' = [tagged EXCEPT ![l] = @ \cup created]
                        /\ \E j \in After([job[s] EXCEPT !.known = @ \cup created]) : Become(s, j)
        /\ UNCHANGED <<laptop, vector, marks, score, refreshed, started>>

-----------------------------------------------------------------------------
(* Scores: everything is computed, then written in one transaction            *)

ReadForScoring(s) ==
    /\ Busy(s, "score", "read")
    /\ Become(s, [job[s] EXCEPT !.at = "compute", !.marks = marks,
                  !.work = SetToSeq({<<l, laptop[l].rev>> : l \in Alive})])
    /\ UNCHANGED <<laptop, vector, tagged, categories, marks, score, refreshed, started>>

Read(j) == {j.work[i][1] : i \in DOMAIN j.work}

StopScoring(s) ==           \* cancelled before the write
    /\ Busy(s, "score", "compute")
    /\ Become(s, Idle)
    /\ UNCHANGED <<laptop, vector, tagged, categories, marks, score, refreshed, started>>

(* A row of a laptop that is gone fails the commit, and every row with it.    *)
Written(j) ==
    [l \in Laptops |-> IF l \in Read(j) /\ Read(j) \subseteq Alive THEN j.marks ELSE score[l]]

WriteScores(s) ==
    /\ Busy(s, "score", "compute")
    /\ score' = Written(job[s])
    /\ refreshed' = [refreshed EXCEPT !.scores =
           IF job[s].after # refreshed.rev \/ refreshed.rev = 0 THEN @
           ELSE IF Read(job[s]) \subseteq Alive THEN "completed" ELSE "failed"]
    /\ Become(s, Idle)
    /\ UNCHANGED <<laptop, vector, tagged, categories, marks, started>>

-----------------------------------------------------------------------------
(* Marks: one transaction, then a recalculation unless one is active          *)

FetchMarks(s) ==
    /\ Busy(s, "refresh", "read")
    /\ \E enough \in BOOLEAN :       \* fewer rows than the floor: nothing is written
          Become(s, IF enough THEN [job[s] EXCEPT !.at = "upsert"] ELSE Idle)
    /\ UNCHANGED <<laptop, vector, tagged, categories, marks, score, refreshed, started>>

StopRefresh(s) ==
    /\ Busy(s, "refresh", "upsert")
    /\ Become(s, Idle)
    /\ UNCHANGED <<laptop, vector, tagged, categories, marks, score, refreshed, started>>

CommitMarks(s) ==
    /\ Busy(s, "refresh", "upsert")
    /\ marks' = marks + 1
    /\ refreshed' = [rev |-> marks + 1, scores |-> "unqueued"]
    /\ Become(s, [job[s] EXCEPT !.at = "queue"])
    /\ UNCHANGED <<laptop, vector, tagged, categories, score, started>>

(* The queued job runs in the thread of the refresh.                          *)
QueueScores(s) ==
    /\ Busy(s, "refresh", "queue")
    /\ refreshed' = [refreshed EXCEPT !.scores = IF MayStart("score") THEN "queued" ELSE "refused"]
    /\ Become(s, IF MayStart("score") THEN [Idle EXCEPT !.kind = "score", !.at = "read",
                             !.after = refreshed.rev]
                 ELSE Idle)
    /\ UNCHANGED <<laptop, vector, tagged, categories, marks, score, started>>

CatalogNext ==
    \/ \E s \in Slots : StartEmbedding(s) \/ StartTagging(s) \/ StartScoring(s) \/ StartRefresh(s)
    \/ \E l \in Laptops : Save(l) \/ Delete(l) \/ \E s \in Slots : GenerateSingle(s, l)
    \/ \E t \in Tags : AddCategory(t)
    \/ \E s \in Slots :
          \/ ReadForEmbedding(s) \/ LookUpVector(s) \/ WriteVector(s)
          \/ ReadUntagged(s) \/ DescribeLaptop(s) \/ TagCallFails(s)
          \/ ReadForScoring(s) \/ StopScoring(s) \/ WriteScores(s)
          \/ FetchMarks(s) \/ StopRefresh(s) \/ CommitMarks(s) \/ QueueScores(s)
    \/ \E s \in Slots, chosen \in BoundedSeq(Tags, 2) :
          IsInjective(chosen) /\ SyncTags(s, chosen)

-----------------------------------------------------------------------------
(* Properties                                                                 *)

(* A laptop that a running embedding job has counted as done, and that still  *)
(* exists, has an embedding, whatever ran beside it.                          *)
CountedIsStored ==
    \A s \in Running("embed") : \A l \in job[s].counted : laptop[l].live => vector[l] # None

(* Once the recalculation that a refresh queued has completed, no score is of *)
(* marks older than the refresh, not even if another run was under way.       *)
ScoresFollowMarks ==
    refreshed.scores = "completed" =>
        \A l \in Laptops : score[l] # None => score[l] >= refreshed.rev
=============================================================================
