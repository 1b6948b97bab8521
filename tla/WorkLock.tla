------------------------------ MODULE WorkLock ------------------------------
(***************************************************************************)
(* What the job lock promises (app/common/job_service.py, refuse_if_running*)
(* and the groups the routers pass to it): of two jobs that would collide, *)
(* at most one is doing its work at any time.  Nothing here says how; the  *)
(* 409 check, the status column and the runner are JobService's business.  *)
(***************************************************************************)
CONSTANTS
    Job,        \* jobs that can ever be started
    Clash       \* the pairs <<j, k>> of jobs that must not work together

VARIABLE held   \* the jobs that are working

Init == held = {}

\* A job starts to work when no working job clashes with it.
Acquire(j) ==
    /\ j \notin held
    /\ \A k \in held : <<j, k>> \notin Clash /\ <<k, j>> \notin Clash
    /\ held' = held \cup {j}

\* A job stops working: completed, failed or cancelled.
Release(j) ==
    /\ j \in held
    /\ held' = held \ {j}

\* The process dies and every job in it with it.
ReleaseAll == held' = {}

Next == ReleaseAll \/ \E j \in Job : Acquire(j) \/ Release(j)

Spec == Init /\ [][Next]_held

=============================================================================
