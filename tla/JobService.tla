----------------------------- MODULE JobService -----------------------------
(***************************************************************************)
(* Background jobs: the `background_jobs` row, the request handlers that   *)
(* start and cancel a job, and the runner thread that executes it.         *)
(*                                                                         *)
(* Code: app/common/job_service.py, job_router.py, job_model.py, and the   *)
(* startup hook in app/main.py.                                            *)
(*                                                                         *)
(* Every handler opens its own database session, so what is atomic is one  *)
(* SELECT or one COMMIT.  A handler that reads the row and writes `status` *)
(* only if what it read allows it is therefore two actions: the read (with *)
(* the value kept in `seen`, `asked` or `cancelling`) and the commit.  A   *)
(* handler that writes `status` whatever it read is one action.            *)
(***************************************************************************)
EXTENDS Naturals, FiniteSets

CONSTANTS
    Job,            \* the ids of the rows that can ever be inserted
    Type,           \* the job types (JobType)
    TypeOf,         \* the type of each job
    Refuses,        \* Refuses[t]: the types whose active job makes a start of t a 409
    AsyncTypes,     \* types started by an `async def` endpoint, whose check and
                    \* insert run on the event loop without an await in between
    Polls,          \* types whose worker reads cancel_requested after an item
    Starter,        \* admins' in-flight start requests
    Canceller,      \* admins' in-flight cancel requests
    NoJob, NoType,  \* "nothing"
    MaxItems,       \* bound: items one worker processes
    MaxFaults,      \* bound: database statements that fail
    MaxCrashes      \* bound: times the process dies

ASSUME JobAssumption ==
    /\ TypeOf \in [Job -> Type]
    /\ Refuses \in [Type -> SUBSET Type]
    /\ AsyncTypes \subseteq Type /\ Polls \subseteq Type
    /\ NoJob \notin Job /\ NoType \notin Type
    /\ MaxItems \in Nat /\ MaxFaults \in Nat /\ MaxCrashes \in Nat

VARIABLES
    status,         \* status[j]: the row's status; "none" before the INSERT
    seen,           \* seen[j]: JobProgress._status of j's runner
    processed,      \* processed[j]: the row's processed_count
    pc,             \* pc[j]: where j's runner thread is
    asked,          \* asked[s]: the type whose 409 check start request s has passed
    cancelling,     \* cancelling[c]: the job that cancel request c read as live
    under,          \* under[j]: items j's worker began while the row said CANCELLING
    up,             \* the process is running
    faults, crashes \* how many of each have happened

vars == <<status, seen, processed, pc, asked, cancelling, under, up, faults, crashes>>

Active   == {"queued", "processing", "cancelling"}
Terminal == {"completed", "failed", "cancelled"}

\* Runner positions.  "begin" .. "finish": up to the write of the outcome.
\* "log", "fail", "final", "backstop": what run_job still does after it.
\* "orphan": no task was ever queued for the row.
\* "over": run_job has returned or raised; "dead": the process died under it.
WorkPC   == {"begin", "stamp", "refuse", "work", "item", "finish"}
RunnerPC == WorkPC \cup {"log", "fail", "final", "backstop"}

Working(j) == pc[j] \in WorkPC

TypeOK ==
    /\ status \in [Job -> {"none"} \cup Active \cup Terminal]
    /\ seen \in [Job -> {"none"} \cup Active \cup Terminal]
    /\ processed \in [Job -> Nat]
    /\ pc \in [Job -> {"none", "orphan", "over", "dead"} \cup RunnerPC]
    /\ asked \in [Starter -> Type \cup {NoType}]
    /\ cancelling \in [Canceller -> Job \cup {NoJob}]
    /\ under \in [Job -> Nat]
    /\ up \in BOOLEAN
    /\ faults \in 0..MaxFaults
    /\ crashes \in 0..MaxCrashes

Init ==
    /\ status = [j \in Job |-> "none"]
    /\ seen = [j \in Job |-> "none"]
    /\ processed = [j \in Job |-> 0]
    /\ pc = [j \in Job |-> "none"]
    /\ asked = [s \in Starter |-> NoType]
    /\ cancelling = [c \in Canceller |-> NoJob]
    /\ under = [j \in Job |-> 0]
    /\ up = TRUE
    /\ faults = 0
    /\ crashes = 0

-----------------------------------------------------------------------------
(* Starting a job: a start endpoint calls refuse_if_running, then          *)
(* create_job, then hands run_job to BackgroundTasks.                      *)

\* Mutant of NotRefused: only a job already processing refuses a start.
NotRefusedOnceQueued(t) ==
    \A k \in Job : TypeOf[k] \in Refuses[t] => status[k] \notin {"processing", "cancelling"}

\* refuse_if_running lets a start of type t through.
NotRefused(t) == \A k \in Job : TypeOf[k] \in Refuses[t] => status[k] \notin Active

\* create_job committed the row and run_job was queued behind the response.
Inserted(j) ==
    /\ status[j] = "none"
    /\ status' = [status EXCEPT ![j] = "queued"]
    /\ pc' = [pc EXCEPT ![j] = "begin"]

\* A sync endpoint (a pool thread) passes the check; the INSERT comes later.
PassCheck(s, t) ==
    /\ up
    /\ asked[s] = NoType
    /\ t \notin AsyncTypes
    /\ \E j \in Job : TypeOf[j] = t /\ status[j] = "none"
    /\ NotRefused(t)
    /\ asked' = [asked EXCEPT ![s] = t]
    /\ UNCHANGED <<status, seen, processed, pc, cancelling, under, up, faults, crashes>>

CreateJob(s, j) ==
    /\ up
    /\ asked[s] = TypeOf[j]
    /\ Inserted(j)
    /\ asked' = [asked EXCEPT ![s] = NoType]
    /\ UNCHANGED <<seen, processed, cancelling, under, up, faults, crashes>>

\* The INSERT committed and the refresh after it failed: the request ends in a
\* 500 and no task was queued for the row.
CreateJobUnstarted(s, j) ==
    /\ up
    /\ faults < MaxFaults
    /\ asked[s] = TypeOf[j]
    /\ status[j] = "none"
    /\ status' = [status EXCEPT ![j] = "queued"]
    /\ pc' = [pc EXCEPT ![j] = "orphan"]
    /\ asked' = [asked EXCEPT ![s] = NoType]
    /\ faults' = faults + 1
    /\ UNCHANGED <<seen, processed, cancelling, under, up, crashes>>

\* Mutant of CheckAndCreate: the endpoint forgets refuse_if_running.
CreateUnchecked(s, j) ==
    /\ up /\ asked[s] = NoType /\ TypeOf[j] \in AsyncTypes
    /\ Inserted(j)
    /\ UNCHANGED <<seen, processed, asked, cancelling, under, up, faults, crashes>>

\* An async endpoint: check and insert in one go of the event loop.
CheckAndCreate(s, j) ==
    /\ up
    /\ asked[s] = NoType
    /\ TypeOf[j] \in AsyncTypes
    /\ NotRefused(TypeOf[j])
    /\ Inserted(j)
    /\ UNCHANGED <<seen, processed, asked, cancelling, under, up, faults, crashes>>

-----------------------------------------------------------------------------
(* cancel_job: the row is read; a terminal one is a 409, a cancelling one   *)
(* is left alone, any other is set to CANCELLING by a later commit.         *)

CancelRead(c, j) ==
    /\ up
    /\ cancelling[c] = NoJob
    /\ status[j] \in Active \ {"cancelling"}
    /\ cancelling' = [cancelling EXCEPT ![c] = j]
    /\ UNCHANGED <<status, seen, processed, pc, asked, under, up, faults, crashes>>

CancelWrite(c) ==
    /\ up
    /\ cancelling[c] # NoJob
    /\ status' = [status EXCEPT ![cancelling[c]] = "cancelling"]
    /\ cancelling' = [cancelling EXCEPT ![c] = NoJob]
    /\ UNCHANGED <<seen, processed, pc, asked, under, up, faults, crashes>>

-----------------------------------------------------------------------------
(* run_job and the JobProgress calls it and the worker make.               *)

\* Runner j moves from one position to another.
Goto(j, from, to) == up /\ pc[j] = from /\ pc' = [pc EXCEPT ![j] = to]

RunnerOnly == UNCHANGED <<asked, cancelling, up, faults, crashes>>

\* mark_processing: `_update` loads the row and keeps its status in `_status`.
Begin(j) ==
    /\ Goto(j, "begin", "stamp")
    /\ seen' = [seen EXCEPT ![j] = status[j]]
    /\ UNCHANGED <<status, processed, under>> /\ RunnerOnly

\* mark_processing's commit; then run_job's first look at cancel_requested.
Stamp(j) ==
    /\ Goto(j, "stamp", IF seen[j] = "cancelling" THEN "refuse" ELSE "work")
    /\ status' = IF seen[j] = "cancelling" THEN status
                 ELSE [status EXCEPT ![j] = "processing"]
    /\ UNCHANGED <<seen, processed, under>> /\ RunnerOnly

\* Mutant of CancelEarly: run_job returns without mark_cancelled.
CancelEarlyUnmarked(j) ==
    Goto(j, "refuse", "over") /\ UNCHANGED <<status, seen, processed, under>> /\ RunnerOnly

\* Cancelled before it started: mark_cancelled(None) and return, before the try.
CancelEarly(j) ==
    /\ Goto(j, "refuse", "over")
    /\ status' = [status EXCEPT ![j] = "cancelled"]
    /\ UNCHANGED <<seen, processed, under>> /\ RunnerOnly

\* The worker takes its next item.
BeginItem(j) ==
    /\ Goto(j, "work", "item")
    /\ processed[j] < MaxItems
    /\ under' = [under EXCEPT ![j] = IF status[j] = "cancelling" THEN @ + 1 ELSE 0]
    /\ UNCHANGED <<status, seen, processed>> /\ RunnerOnly

\* Mutant of Advance: the worker does not look at cancel_requested.
AdvanceUnpolled(j) ==
    /\ Goto(j, "item", "work")
    /\ processed' = [processed EXCEPT ![j] = @ + 1]
    /\ seen' = [seen EXCEPT ![j] = status[j]]
    /\ UNCHANGED <<status, under>> /\ RunnerOnly

\* advance(): counts the item and refreshes cancel_requested, which a polling
\* worker reads straight after and returns on.
Advance(j) ==
    /\ Goto(j, "item", IF status[j] = "cancelling" /\ TypeOf[j] \in Polls
                       THEN "finish" ELSE "work")
    /\ processed' = [processed EXCEPT ![j] = @ + 1]
    /\ seen' = [seen EXCEPT ![j] = status[j]]
    /\ UNCHANGED <<status, under>> /\ RunnerOnly

\* The worker has no item left and returns.
WorkerReturns(j) ==
    /\ Goto(j, "work", "finish")
    /\ UNCHANGED <<status, seen, processed, under>> /\ RunnerOnly

\* The worker raises: run_job's except branch.
WorkerRaises(j) ==
    /\ \E from \in {"work", "item"} : Goto(j, from, "fail")
    /\ UNCHANGED <<status, seen, processed, under>> /\ RunnerOnly

\* mark_cancelled(payload) or mark_completed(payload).
Finish(j) ==
    /\ Goto(j, "finish", "log")
    /\ status' = [status EXCEPT ![j] =
                    IF seen[j] = "cancelling" THEN "cancelled" ELSE "completed"]
    /\ UNCHANGED <<seen, processed, under>> /\ RunnerOnly

\* The log line of the outcome reads the row again (_job_type), inside the try.
LogOutcome(j) ==
    /\ Goto(j, "log", "final")
    /\ UNCHANGED <<status, seen, processed, under>> /\ RunnerOnly

\* except: mark_failed.
Fail(j) ==
    /\ Goto(j, "fail", "final")
    /\ status' = [status EXCEPT ![j] = "failed"]
    /\ UNCHANGED <<seen, processed, under>> /\ RunnerOnly

\* finally: the backstop reads the row ...
Final(j) ==
    /\ Goto(j, "final", IF status[j] \in Terminal THEN "over" ELSE "backstop")
    /\ UNCHANGED <<status, seen, processed, under>> /\ RunnerOnly

\* ... and fails it when it was not terminal.
Backstop(j) ==
    /\ Goto(j, "backstop", "over")
    /\ status' = [status EXCEPT ![j] = "failed"]
    /\ UNCHANGED <<seen, processed, under>> /\ RunnerOnly

\* Where run_job goes on when the statement at a position raises (no free
\* connection within the pool timeout, a dropped connection).  mark_processing
\* and the early mark_cancelled are outside the try: their exception leaves run_job.
Handler ==
    [begin |-> "over", stamp |-> "over", refuse |-> "over",
     item |-> "fail", finish |-> "fail", log |-> "fail",
     fail |-> "final", final |-> "over", backstop |-> "over"]

DbFault(j) ==
    /\ up
    /\ faults < MaxFaults
    /\ pc[j] \in DOMAIN Handler
    /\ pc' = [pc EXCEPT ![j] = Handler[pc[j]]]
    /\ faults' = faults + 1
    /\ UNCHANGED <<status, seen, processed, asked, cancelling, under, up, crashes>>

-----------------------------------------------------------------------------
(* The process dies; every request and runner in it is gone.               *)
Crash ==
    /\ up
    /\ crashes < MaxCrashes
    /\ up' = FALSE
    /\ crashes' = crashes + 1
    /\ pc' = [j \in Job |-> IF pc[j] \in RunnerPC THEN "dead" ELSE pc[j]]
    /\ asked' = [s \in Starter |-> NoType]
    /\ cancelling' = [c \in Canceller |-> NoJob]
    /\ UNCHANGED <<status, seen, processed, under, faults>>

\* Mutant of Restart: only the jobs that were processing are failed.
RestartProcessing ==
    /\ ~up
    /\ up' = TRUE
    /\ status' = [j \in Job |-> IF status[j] = "processing" THEN "failed" ELSE status[j]]
    /\ UNCHANGED <<seen, processed, pc, asked, cancelling, under, faults, crashes>>

\* Startup: reset_stale_jobs fails every active row before requests are served.
Restart ==
    /\ ~up
    /\ up' = TRUE
    /\ status' = [j \in Job |-> IF status[j] \in Active THEN "failed" ELSE status[j]]
    /\ UNCHANGED <<seen, processed, pc, asked, cancelling, under, faults, crashes>>

\* reset_stale_jobs swallows its own failure: the app starts with the stale rows.
RestartUnreset ==
    /\ ~up
    /\ faults < MaxFaults
    /\ up' = TRUE
    /\ faults' = faults + 1
    /\ UNCHANGED <<status, seen, processed, pc, asked, cancelling, under, crashes>>

-----------------------------------------------------------------------------
Start(s) ==
    \/ \E t \in Type : PassCheck(s, t)
    \/ \E j \in Job : CreateJob(s, j) \/ CreateJobUnstarted(s, j) \/ CheckAndCreate(s, j)

Cancel(c) == CancelWrite(c) \/ \E j \in Job : CancelRead(c, j)

Runner(j) ==
    \/ Begin(j) \/ Stamp(j) \/ CancelEarly(j)
    \/ BeginItem(j) \/ Advance(j) \/ WorkerReturns(j) \/ WorkerRaises(j)
    \/ Finish(j) \/ LogOutcome(j) \/ Fail(j) \/ Final(j) \/ Backstop(j)

Boot == Restart \/ RestartUnreset

Next ==
    \/ \E s \in Starter : Start(s)
    \/ \E c \in Canceller : Cancel(c)
    \/ \E j \in Job : Runner(j) \/ DbFault(j)
    \/ Crash
    \/ Boot

Spec == Init /\ [][Next]_vars

\* A queued background task runs to its end on its thread, and a dead process
\* is started again; nothing obliges an admin to click.
FairSpec == Spec /\ (\A j \in Job : WF_vars(Runner(j))) /\ WF_vars(Boot)

-----------------------------------------------------------------------------
(* Properties.                                                             *)

\* The 409 check of t and the insert behind it cannot interleave with those of
\* u: there is one start request at a time, or both endpoints are async.
OneStarter == \A s1, s2 \in Starter : s1 = s2
Serialised(t, u) == OneStarter \/ {t, u} \subseteq AsyncTypes

\* Two jobs whose endpoints refuse each other, behind serialised starts.
Clashing(j, k) ==
    /\ j # k
    /\ TypeOf[k] \in Refuses[TypeOf[j]]
    /\ TypeOf[j] \in Refuses[TypeOf[k]]
    /\ Serialised(TypeOf[j], TypeOf[k])

\* While a worker may still act, its row is active: nobody marks a running job
\* finished, so the 409 check never looks through one (refuse_if_running).
WorkingIsActive == \A j \in Job : Working(j) => status[j] \in Active

\* Two jobs of one lock group never work at the same time, whatever cancel
\* requests, failed statements and restarts do (refuse_if_running).
ExclusiveWorkers == \A j, k \in Job : Clashing(j, k) => ~(Working(j) /\ Working(k))

\* After a cancel is in the row, a polling worker begins at most one more item:
\* it reads the row once per advance and stops on it (cancel_job's promise that
\* the worker notices between items, after the one it is on).
CancelStopsWorker ==
    \A j \in Job : TypeOf[j] \in Polls => under[j] <= 1

\* Without a failed statement, no row is queued or processing once its runner is
\* gone, by return or by a restart; the only active row without a runner is one
\* that a late cancel wrote (run_job's finally, reset_stale_jobs).
EndedNotRunning ==
    up /\ faults = 0 => \A j \in Job :
        /\ pc[j] = "over" => status[j] \in Terminal \cup {"cancelling"}
        /\ pc[j] = "dead" => status[j] \in Terminal

\* Every job that is started ends: its row reaches a terminal status, across
\* cancels and restarts (run_job's finally, reset_stale_jobs).
EveryJobEnds == \A j \in Job : status[j] = "queued" ~> status[j] \in Terminal

\* The jobs lock implements WorkLock: a job holds the lock from its INSERT until
\* run_job has written its outcome.
Lock == INSTANCE WorkLock WITH
            held <- {j \in Job : Working(j)},
            Clash <- {p \in Job \X Job : Clashing(p[1], p[2])}
LockSpec == Lock!Spec

=============================================================================
