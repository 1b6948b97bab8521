-------------------------- MODULE JobServiceProofs --------------------------
(***************************************************************************)
(* Proofs about JobService for every set of jobs, types and requests, and  *)
(* every number of cancels, failed statements and restarts.                *)
(***************************************************************************)
EXTENDS JobService, TLAPS

\* A start request that has passed its check still has a free lock group.
CheckedIsClear ==
    \A s \in Starter : asked[s] # NoType =>
        /\ asked[s] \in Type \ AsyncTypes
        /\ OneStarter => \A k \in Job : TypeOf[k] \in Refuses[asked[s]] => ~Working(k)

\* A dead process works on nothing.
DownIsIdle == ~up => \A j \in Job : ~Working(j)

IInv == TypeOK /\ DownIsIdle /\ WorkingIsActive /\ ExclusiveWorkers /\ CheckedIsClear

-----------------------------------------------------------------------------
\* No step leaves the types: one case per handler and per step of run_job.
LEMMA TypeStep == TypeOK /\ [Next]_vars => TypeOK'
<1> USE JobAssumption
<1> SUFFICES ASSUME TypeOK, [Next]_vars PROVE TypeOK'
  OBVIOUS
<1> USE DEF TypeOK, Active, Terminal, RunnerPC, WorkPC
<1>1. ASSUME NEW s \in Starter, Start(s) PROVE TypeOK'
  <2>1. ASSUME NEW t \in Type, PassCheck(s, t) PROVE TypeOK'
    BY <2>1 DEF PassCheck
  <2>2. ASSUME NEW j \in Job, CreateJob(s, j) PROVE TypeOK'
    BY <2>2 DEF CreateJob, Inserted
  <2>3. ASSUME NEW j \in Job, CreateJobUnstarted(s, j) PROVE TypeOK'
    BY <2>3 DEF CreateJobUnstarted
  <2>4. ASSUME NEW j \in Job, CheckAndCreate(s, j) PROVE TypeOK'
    BY <2>4 DEF CheckAndCreate, Inserted
  <2> QED BY <1>1, <2>1, <2>2, <2>3, <2>4 DEF Start
<1>2. ASSUME NEW c \in Canceller, Cancel(c) PROVE TypeOK'
  BY <1>2 DEF Cancel, CancelRead, CancelWrite
<1>3. ASSUME NEW j \in Job, Runner(j) PROVE TypeOK'
  <2> USE DEF Goto, RunnerOnly
  <2>1. CASE Begin(j)
    BY <2>1 DEF Begin
  <2>2. CASE Stamp(j)
    BY <2>2 DEF Stamp
  <2>3. CASE CancelEarly(j)
    BY <2>3 DEF CancelEarly
  <2>4. CASE BeginItem(j)
    <3>1. under' \in [Job -> Nat]
      BY <2>4 DEF BeginItem
    <3> QED BY <3>1, <2>4 DEF BeginItem
  <2>5. CASE Advance(j)
    <3>1. processed' \in [Job -> Nat]
      BY <2>5 DEF Advance
    <3> QED BY <3>1, <2>5 DEF Advance
  <2>6. CASE WorkerReturns(j) \/ WorkerRaises(j) \/ LogOutcome(j)
    BY <2>6 DEF WorkerReturns, WorkerRaises, LogOutcome
  <2>7. CASE Finish(j) \/ Fail(j)
    BY <2>7 DEF Finish, Fail
  <2>8. CASE Final(j) \/ Backstop(j)
    BY <2>8 DEF Final, Backstop
  <2> QED BY <1>3, <2>1, <2>2, <2>3, <2>4, <2>5, <2>6, <2>7, <2>8 DEF Runner
<1>4. ASSUME NEW j \in Job, DbFault(j) PROVE TypeOK'
  BY <1>4 DEF DbFault, Handler
<1>5. CASE Crash
  <2>1. pc' \in [Job -> {"none", "orphan", "over", "dead"} \cup RunnerPC]
    BY <1>5 DEF Crash
  <2>2. asked' \in [Starter -> Type \cup {NoType}]
    BY <1>5 DEF Crash
  <2>3. cancelling' \in [Canceller -> Job \cup {NoJob}]
    BY <1>5 DEF Crash
  <2>4. crashes' \in 0..MaxCrashes
    BY <1>5 DEF Crash
  <2>5. up' \in BOOLEAN
    BY <1>5, Zenon DEF Crash
  <2> QED BY <1>5, <2>1, <2>2, <2>3, <2>4, <2>5 DEF Crash
<1>6. CASE Boot
  <2>1. up' \in BOOLEAN
    BY <1>6, Zenon DEF Boot, Restart, RestartUnreset
  <2>2. status' \in [Job -> {"none"} \cup Active \cup Terminal]
    BY <1>6 DEF Boot, Restart, RestartUnreset
  <2>3. faults' \in 0..MaxFaults
    BY <1>6 DEF Boot, Restart, RestartUnreset
  <2> QED BY <1>6, <2>1, <2>2, <2>3 DEF Boot, Restart, RestartUnreset
<1>7. CASE UNCHANGED vars
  BY <1>7 DEF vars
<1> QED BY <1>1, <1>2, <1>3, <1>4, <1>5, <1>6, <1>7 DEF Next

\* Every column, thread position and request of the job system keeps its type
\* (job_model.py's JobStatus, run_job's control flow).
THEOREM TypeCorrect == Spec => []TypeOK
<1>1. Init => TypeOK
  BY JobAssumption DEF Init, TypeOK, Active, Terminal
<1> QED BY <1>1, TypeStep, PTL DEF Spec

-----------------------------------------------------------------------------
\* A step of a runner changes only its own row and position, and moves it into
\* or through the work positions only while the row stays active.
LEMMA RunnerStep ==
    ASSUME TypeOK, NEW j \in Job, Runner(j) \/ DbFault(j)
    PROVE  /\ \A k \in Job \ {j} : pc'[k] = pc[k] /\ status'[k] = status[k]
           /\ Working(j)' => Working(j) /\ status'[j] \in {status[j], "processing"}
           /\ UNCHANGED asked
<1> USE DEF TypeOK, Goto, RunnerOnly, Working, WorkPC
<1>1. CASE Begin(j) \/ Stamp(j) \/ CancelEarly(j)
  BY <1>1 DEF Begin, Stamp, CancelEarly
<1>2. CASE BeginItem(j) \/ Advance(j) \/ WorkerReturns(j) \/ WorkerRaises(j)
  BY <1>2 DEF BeginItem, Advance, WorkerReturns, WorkerRaises
<1>3. CASE Finish(j) \/ LogOutcome(j) \/ Fail(j) \/ Final(j) \/ Backstop(j)
  BY <1>3 DEF Finish, LogOutcome, Fail, Final, Backstop
<1>4. CASE DbFault(j)
  BY <1>4 DEF DbFault, Handler
<1> QED BY <1>1, <1>2, <1>3, <1>4 DEF Runner

\* The row of a working job stays active: only its own runner writes a terminal
\* status while the process is up, and leaves the work positions as it does.
LEMMA ActiveStep == TypeOK /\ DownIsIdle /\ WorkingIsActive /\ [Next]_vars => WorkingIsActive'
<1> SUFFICES ASSUME TypeOK, DownIsIdle, WorkingIsActive, [Next]_vars, NEW k \in Job, Working(k)'
             PROVE  status'[k] \in Active
  BY DEF WorkingIsActive
<1> USE DEF WorkingIsActive, Working, Active
<1>1. ASSUME NEW s \in Starter, Start(s) PROVE status'[k] \in Active
  BY <1>1 DEF Start, PassCheck, CreateJob, CreateJobUnstarted, CheckAndCreate,
              Inserted, TypeOK, WorkPC
<1>2. ASSUME NEW c \in Canceller, Cancel(c) PROVE status'[k] \in Active
  BY <1>2 DEF Cancel, CancelRead, CancelWrite, TypeOK
<1>3. ASSUME NEW j \in Job, Runner(j) \/ DbFault(j) PROVE status'[k] \in Active
  BY <1>3, RunnerStep
<1>4. CASE Crash
  BY <1>4 DEF Crash, TypeOK, RunnerPC, WorkPC
<1>5. CASE Boot
  BY <1>5 DEF Boot, Restart, RestartUnreset, DownIsIdle
<1>6. CASE UNCHANGED vars
  BY <1>6 DEF vars
<1> QED BY <1>1, <1>2, <1>3, <1>4, <1>5, <1>6 DEF Next

LEMMA DownStep == TypeOK /\ DownIsIdle /\ [Next]_vars => DownIsIdle'
<1> SUFFICES ASSUME TypeOK, DownIsIdle, [Next]_vars, ~up', NEW k \in Job
             PROVE  ~Working(k)'
  BY DEF DownIsIdle
<1> USE DEF TypeOK, DownIsIdle, Working
<1>1. ASSUME NEW s \in Starter, Start(s) PROVE ~Working(k)'
  BY <1>1 DEF Start, PassCheck, CreateJob, CreateJobUnstarted, CheckAndCreate
<1>2. ASSUME NEW c \in Canceller, Cancel(c) PROVE ~Working(k)'
  BY <1>2 DEF Cancel, CancelRead, CancelWrite
<1>3. ASSUME NEW j \in Job, Runner(j) PROVE ~Working(k)'
  BY <1>3 DEF Runner, Goto, RunnerOnly, Begin, Stamp, CancelEarly, BeginItem,
              Advance, WorkerReturns, WorkerRaises, Finish, LogOutcome, Fail, Final, Backstop
<1>4. ASSUME NEW j \in Job, DbFault(j) PROVE ~Working(k)'
  BY <1>4 DEF DbFault
<1>5. CASE Crash
  BY <1>5 DEF Crash, RunnerPC, WorkPC
<1>6. CASE Boot
  BY <1>6 DEF Boot, Restart, RestartUnreset
<1>7. CASE UNCHANGED vars
  BY <1>7 DEF vars
<1> QED BY <1>1, <1>2, <1>3, <1>4, <1>5, <1>6, <1>7 DEF Next

\* A job that a step puts to work clashes with no working job: its INSERT came
\* behind a check that nothing could invalidate.
LEMMA StartIsClear ==
    ASSUME IInv, [Next]_vars, NEW j \in Job, Working(j)', ~Working(j),
           NEW k \in Job, Clashing(j, k)
    PROVE  ~Working(k) /\ ~Working(k)'
<1> USE DEF IInv, TypeOK
<1>1. ASSUME NEW s \in Starter, CreateJob(s, j) PROVE ~Working(k) /\ pc'[k] = pc[k]
  <2>1. pc'[k] = pc[k]
    BY <1>1 DEF CreateJob, Inserted, Clashing
  <2>2. asked[s] = TypeOf[j] /\ asked[s] # NoType
    BY <1>1, JobAssumption DEF CreateJob
  <2>3. OneStarter
    BY <2>2 DEF CheckedIsClear, Clashing, Serialised
  <2> QED BY <2>1, <2>2, <2>3 DEF CheckedIsClear, Clashing
<1>2. ASSUME NEW s \in Starter, CheckAndCreate(s, j) PROVE ~Working(k) /\ pc'[k] = pc[k]
  BY <1>2 DEF CheckAndCreate, Inserted, NotRefused, Clashing, WorkingIsActive
<1>3. \E s \in Starter : CreateJob(s, j) \/ CheckAndCreate(s, j)
  <2>1. ASSUME NEW s \in Starter, Start(s)
        PROVE  CreateJob(s, j) \/ CheckAndCreate(s, j)
    <3>1. PICK i \in Job : CreateJob(s, i) \/ CheckAndCreate(s, i)
      BY <2>1 DEF Start, PassCheck, CreateJobUnstarted, Working, WorkPC
    <3>2. i = j
      BY <3>1 DEF CreateJob, CheckAndCreate, Inserted, Working
    <3> QED BY <3>1, <3>2
  <2>2. ASSUME NEW c \in Canceller, Cancel(c) PROVE FALSE
    BY <2>2 DEF Cancel, CancelRead, CancelWrite, Working
  <2>3. ASSUME NEW i \in Job, Runner(i) \/ DbFault(i) PROVE FALSE
    BY <2>3, RunnerStep DEF Working
  <2>4. CASE Crash
    BY <2>4 DEF Crash, RunnerPC, WorkPC, Working
  <2>5. CASE Boot
    BY <2>5 DEF Boot, Restart, RestartUnreset, Working
  <2>6. CASE UNCHANGED vars
    BY <2>6 DEF vars, Working
  <2> QED BY <2>1, <2>2, <2>3, <2>4, <2>5, <2>6 DEF Next
<1> QED BY <1>1, <1>2, <1>3 DEF Working

\* A checked request keeps its lock group clear until its own INSERT.
LEMMA CheckedStep == IInv /\ [Next]_vars => CheckedIsClear'
<1> SUFFICES ASSUME IInv, [Next]_vars, NEW s \in Starter, asked'[s] # NoType
             PROVE  /\ asked'[s] \in Type \ AsyncTypes
                    /\ OneStarter => \A k \in Job :
                          TypeOf[k] \in Refuses[asked'[s]] => ~Working(k)'
  BY DEF CheckedIsClear
<1> USE DEF IInv, TypeOK, CheckedIsClear, Working
<1>1. ASSUME NEW r \in Starter, NEW t \in Type, PassCheck(r, t), r = s
      PROVE  /\ asked'[s] \in Type \ AsyncTypes
             /\ \A k \in Job : TypeOf[k] \in Refuses[asked'[s]] => ~Working(k)'
  BY <1>1 DEF PassCheck, NotRefused, WorkingIsActive
<1>2. ASSUME NEW r \in Starter, NEW t \in Type, PassCheck(r, t), r # s
      PROVE  asked'[s] = asked[s] /\ pc' = pc
  BY <1>2 DEF PassCheck
<1>3. ASSUME NEW r \in Starter, NEW j \in Job,
             CreateJob(r, j) \/ CreateJobUnstarted(r, j) \/ CheckAndCreate(r, j)
      PROVE  asked'[s] = asked[s] /\ ~OneStarter
  BY <1>3 DEF CreateJob, CreateJobUnstarted, CheckAndCreate, OneStarter
<1>4. ASSUME NEW c \in Canceller, Cancel(c) PROVE asked'[s] = asked[s] /\ pc' = pc
  BY <1>4 DEF Cancel, CancelRead, CancelWrite
<1>5. ASSUME NEW j \in Job, Runner(j) \/ DbFault(j)
      PROVE  asked'[s] = asked[s] /\ \A k \in Job : Working(k)' => Working(k)
  BY <1>5, RunnerStep
<1>6. CASE Crash
  BY <1>6 DEF Crash
<1>7. CASE Boot \/ UNCHANGED vars
  BY <1>7 DEF Boot, Restart, RestartUnreset, vars
<1> QED BY <1>1, <1>2, <1>3, <1>4, <1>5, <1>6, <1>7 DEF Next, Start

\* Nothing works at the start, and every step keeps the invariant.
LEMMA IInvHolds == Spec => []IInv
<1>1. Init => IInv
  <2>1. Init => TypeOK
    BY JobAssumption DEF Init, TypeOK, Active, Terminal
  <2> QED BY <2>1 DEF Init, IInv, DownIsIdle, WorkingIsActive, ExclusiveWorkers,
                      CheckedIsClear, Working, WorkPC
<1>2. IInv /\ [Next]_vars => IInv'
  <2> SUFFICES ASSUME IInv, [Next]_vars PROVE IInv'
    OBVIOUS
  <2>1. TypeOK' /\ DownIsIdle' /\ WorkingIsActive' /\ CheckedIsClear'
    BY TypeStep, DownStep, ActiveStep, CheckedStep DEF IInv
  <2>2. ExclusiveWorkers'
    <3> SUFFICES ASSUME NEW j \in Job, NEW k \in Job, Clashing(j, k), Working(j)', Working(k)'
                 PROVE  FALSE
      BY DEF ExclusiveWorkers, Clashing, Serialised, OneStarter
    <3>1. Clashing(k, j)
      BY DEF Clashing, Serialised
    <3>2. Working(j) /\ Working(k)
      BY <3>1, StartIsClear
    <3> QED BY <3>2 DEF IInv, ExclusiveWorkers
  <2> QED BY <2>1, <2>2 DEF IInv
<1> QED BY <1>1, <1>2, PTL DEF Spec

-----------------------------------------------------------------------------
\* Two jobs of one lock group never work at the same time, for any number of
\* jobs, cancels, failed statements and restarts (refuse_if_running), provided
\* their start requests cannot interleave.
THEOREM LockExcludes == Spec => []ExclusiveWorkers
<1>1. IInv => ExclusiveWorkers
  BY DEF IInv
<1> QED BY <1>1, IInvHolds, PTL

\* The row of a job at work is active, so the 409 check of refuse_if_running and
\* the "something is running" list never look through one.
THEOREM WorkingJobsAreActive == Spec => []WorkingIsActive
<1>1. IInv => WorkingIsActive
  BY DEF IInv
<1> QED BY <1>1, IInvHolds, PTL

\* The job system implements WorkLock: an INSERT acquires, the write of the
\* outcome (or the failure of run_job) releases, a crash releases all.
THEOREM ImplementsLock == Spec => LockSpec
<1> DEFINE Held == {j \in Job : Working(j)}
<1>1. Init => Lock!Init
  BY DEF Init, Lock!Init, Working, WorkPC
<1>2. IInv /\ [Next]_vars => [Lock!Next]_Held
  <2> SUFFICES ASSUME IInv, [Next]_vars PROVE Lock!Next \/ Held' = Held
    OBVIOUS
  <2>1. ASSUME NEW j \in Job, Working(j)', ~Working(j),
               \A k \in Job \ {j} : Working(k)' <=> Working(k)
        PROVE  Lock!Next
    <3>1. \A k \in Held : ~Clashing(j, k) /\ ~Clashing(k, j)
      BY <2>1, StartIsClear DEF Clashing, Serialised
    <3>2. Lock!Acquire(j)
      BY <2>1, <3>1 DEF Lock!Acquire
    <3> QED BY <3>2 DEF Lock!Next
  <2>2. ASSUME NEW j \in Job, ~Working(j)' \/ Working(j),
               \A k \in Job \ {j} : Working(k)' <=> Working(k)
        PROVE  Lock!Next \/ Held' = Held
    <3>1. CASE Working(j) /\ ~Working(j)'
      <4>1. Lock!Release(j)
        BY <2>2, <3>1 DEF Lock!Release
      <4> QED BY <4>1 DEF Lock!Next
    <3>2. CASE Working(j)' <=> Working(j)
      BY <2>2, <3>2
    <3> QED BY <2>2, <3>1, <3>2
  <2>3. ASSUME NEW s \in Starter, Start(s) PROVE Lock!Next \/ Held' = Held
    <3>1. ASSUME NEW t \in Type, PassCheck(s, t) PROVE Held' = Held
      BY <3>1 DEF PassCheck, Working
    <3>2. ASSUME NEW j \in Job,
                 CreateJob(s, j) \/ CreateJobUnstarted(s, j) \/ CheckAndCreate(s, j)
          PROVE  \A k \in Job \ {j} : Working(k)' <=> Working(k)
      BY <3>2 DEF CreateJob, CreateJobUnstarted, CheckAndCreate, Inserted, Working, IInv, TypeOK
    <3> QED BY <2>1, <2>2, <2>3, <3>1, <3>2 DEF Start
  <2>4. ASSUME NEW c \in Canceller, Cancel(c) PROVE Held' = Held
    BY <2>4 DEF Cancel, CancelRead, CancelWrite, Working
  <2>5. ASSUME NEW j \in Job, Runner(j) \/ DbFault(j) PROVE Lock!Next \/ Held' = Held
    <3>1. \A k \in Job \ {j} : Working(k)' <=> Working(k)
      BY <2>5, RunnerStep DEF Working, IInv
    <3> QED BY <2>1, <2>2, <3>1
  <2>6. CASE Crash
    <3>1. Held' = {}
      BY <2>6 DEF Crash, Working, RunnerPC, WorkPC
    <3> QED BY <3>1 DEF Lock!Next, Lock!ReleaseAll
  <2>7. CASE Boot \/ UNCHANGED vars
    BY <2>7 DEF Boot, Restart, RestartUnreset, vars, Working
  <2> QED BY <2>3, <2>4, <2>5, <2>6, <2>7 DEF Next
<1> QED BY <1>1, <1>2, IInvHolds, PTL DEF Spec, LockSpec, Lock!Spec

-----------------------------------------------------------------------------
\* A row is there once its runner has a position, and a cancel is of a row.
RowsExist ==
    /\ \A j \in Job : pc[j] = "none" <=> status[j] = "none"
    /\ \A c \in Canceller : cancelling[c] # NoJob => pc[cancelling[c]] # "none"

\* No step writes a row that was not inserted, or removes one.
LEMMA RowStep == TypeOK /\ RowsExist /\ [Next]_vars => RowsExist'
<1> SUFFICES ASSUME TypeOK, RowsExist, [Next]_vars PROVE RowsExist'
  OBVIOUS
<1> USE JobAssumption DEF TypeOK, RowsExist
<1>1. ASSUME NEW s \in Starter, Start(s) PROVE RowsExist'
  BY <1>1 DEF Start, PassCheck, CreateJob, CreateJobUnstarted, CheckAndCreate, Inserted
<1>2. ASSUME NEW c \in Canceller, Cancel(c) PROVE RowsExist'
  BY <1>2 DEF Cancel, CancelRead, CancelWrite, Active
<1>3. ASSUME NEW j \in Job, Runner(j) PROVE RowsExist'
  <2> USE DEF Goto, RunnerOnly
  <2>1. CASE Begin(j) \/ Stamp(j) \/ CancelEarly(j)
    BY <2>1 DEF Begin, Stamp, CancelEarly
  <2>2. CASE BeginItem(j) \/ Advance(j) \/ WorkerReturns(j) \/ WorkerRaises(j)
    BY <2>2 DEF BeginItem, Advance, WorkerReturns, WorkerRaises
  <2>3. CASE Finish(j) \/ LogOutcome(j) \/ Fail(j) \/ Final(j) \/ Backstop(j)
    BY <2>3 DEF Finish, LogOutcome, Fail, Final, Backstop
  <2> QED BY <1>3, <2>1, <2>2, <2>3 DEF Runner
<1>4. ASSUME NEW j \in Job, DbFault(j) PROVE RowsExist'
  BY <1>4 DEF DbFault, Handler
<1>5. CASE Crash
  BY <1>5 DEF Crash, RunnerPC, WorkPC
<1>6. CASE Boot
  BY <1>6 DEF Boot, Restart, RestartUnreset, Active
<1>7. CASE UNCHANGED vars
  BY <1>7 DEF vars
<1> QED BY <1>1, <1>2, <1>3, <1>4, <1>5, <1>6, <1>7 DEF Next

-----------------------------------------------------------------------------
\* A polling worker begins an item with nothing begun under a cancel, and one
\* it began under a cancel is still under it.
PollsInTime ==
    \A j \in Job : TypeOf[j] \in Polls =>
        /\ under[j] <= 1
        /\ pc[j] \in {"none", "begin", "stamp", "work"} => under[j] = 0
        /\ pc[j] = "item" /\ under[j] = 1 => status[j] = "cancelling"

\* Counting one item begun under a cancel, from none.
LEMMA OneMore == \A n : n = 0 => n + 1 <= 1 /\ (n + 1 = 1)
  OBVIOUS

\* The runner of j keeps it: only Advance leads back to the next item, and it
\* does so only when the row is not cancelling.
LEMMA PollRunnerStep ==
    ASSUME TypeOK, PollsInTime, NEW j \in Job, Runner(j), TypeOf[j] \in Polls
    PROVE  /\ under'[j] <= 1
           /\ pc'[j] \in {"none", "begin", "stamp", "work"} => under'[j] = 0
           /\ pc'[j] = "item" /\ under'[j] = 1 => status'[j] = "cancelling"
<1> USE DEF TypeOK, PollsInTime, Goto, RunnerOnly
<1>1. CASE Begin(j) \/ Stamp(j) \/ CancelEarly(j)
  BY <1>1 DEF Begin, Stamp, CancelEarly
<1>2. CASE BeginItem(j)
  <2>1. under[j] = 0 /\ pc'[j] = "item" /\ status' = status
    BY <1>2 DEF BeginItem
  <2>2. under'[j] = IF status[j] = "cancelling" THEN 1 ELSE 0
    BY <1>2, <2>1, OneMore DEF BeginItem
  <2> QED BY <2>1, <2>2
<1>3. CASE Advance(j)
  BY <1>3 DEF Advance
<1>4. CASE WorkerReturns(j) \/ WorkerRaises(j) \/ LogOutcome(j)
  BY <1>4 DEF WorkerReturns, WorkerRaises, LogOutcome
<1>5. CASE Finish(j) \/ Fail(j) \/ Final(j) \/ Backstop(j)
  BY <1>5 DEF Finish, Fail, Final, Backstop
<1> QED BY <1>1, <1>2, <1>3, <1>4, <1>5 DEF Runner

\* The other runners, requests and the process itself keep it too.
LEMMA PollStep ==
    TypeOK /\ DownIsIdle /\ RowsExist /\ PollsInTime /\ [Next]_vars => PollsInTime'
<1> SUFFICES ASSUME TypeOK, DownIsIdle, RowsExist, PollsInTime, [Next]_vars,
                    NEW k \in Job, TypeOf[k] \in Polls
             PROVE  /\ under'[k] <= 1
                    /\ pc'[k] \in {"none", "begin", "stamp", "work"} => under'[k] = 0
                    /\ pc'[k] = "item" /\ under'[k] = 1 => status'[k] = "cancelling"
  BY DEF PollsInTime
<1> DEFINE Kept == /\ under'[k] = under[k]
                   /\ pc'[k] \in {"none", "begin", "stamp", "work"} =>
                         pc[k] \in {"none", "begin", "stamp", "work"}
                   /\ pc'[k] = "item" =>
                         pc[k] = "item" /\ status'[k] \in {status[k], "cancelling"}
<1>1. ASSUME NEW s \in Starter, Start(s) PROVE Kept
  <2>1. ASSUME NEW t \in Type, PassCheck(s, t) PROVE Kept
    BY <2>1 DEF PassCheck
  <2>2. ASSUME NEW j \in Job, CreateJob(s, j) \/ CheckAndCreate(s, j) PROVE Kept
    BY <2>2 DEF CreateJob, CheckAndCreate, Inserted, TypeOK, RowsExist
  <2>3. ASSUME NEW j \in Job, CreateJobUnstarted(s, j) PROVE Kept
    BY <2>3 DEF CreateJobUnstarted, TypeOK
  <2> QED BY <1>1, <2>1, <2>2, <2>3 DEF Start
<1>2. ASSUME NEW c \in Canceller, Cancel(c) PROVE Kept
  BY <1>2 DEF Cancel, CancelRead, CancelWrite, TypeOK
<1>3. ASSUME NEW j \in Job, j # k, Runner(j) \/ DbFault(j) PROVE Kept
  <2>1. pc'[k] = pc[k] /\ status'[k] = status[k]
    BY <1>3, RunnerStep
  <2>2. under'[k] = under[k]
    BY <1>3 DEF Runner, RunnerOnly, Begin, Stamp, CancelEarly, BeginItem, Advance,
                WorkerReturns, WorkerRaises, Finish, LogOutcome, Fail, Final, Backstop,
                DbFault, TypeOK
  <2> QED BY <2>1, <2>2
<1>4. ASSUME DbFault(k) PROVE Kept
  BY <1>4 DEF DbFault, Handler, TypeOK
<1>5. ASSUME Crash PROVE Kept
  BY <1>5 DEF Crash, TypeOK, RunnerPC, WorkPC
<1>6. ASSUME Boot PROVE Kept
  BY <1>6 DEF Boot, Restart, RestartUnreset, DownIsIdle, Working, WorkPC
<1>7. ASSUME UNCHANGED vars PROVE Kept
  BY <1>7 DEF vars
<1>8. CASE Runner(k)
  BY <1>8, PollRunnerStep
<1>9. Kept => /\ under'[k] <= 1
              /\ pc'[k] \in {"none", "begin", "stamp", "work"} => under'[k] = 0
              /\ pc'[k] = "item" /\ under'[k] = 1 => status'[k] = "cancelling"
  BY DEF PollsInTime
<1> QED BY <1>1, <1>2, <1>3, <1>4, <1>5, <1>6, <1>7, <1>8, <1>9 DEF Next

\* After a cancel is in the row, a polling worker begins at most one more item,
\* for any number of jobs, cancel requests, failed statements and restarts
\* (cancel_job, JobProgress.advance).
THEOREM CancelStops == Spec => []CancelStopsWorker
<1>1. Init => TypeOK /\ DownIsIdle /\ RowsExist /\ PollsInTime
  BY JobAssumption DEF Init, TypeOK, Active, Terminal, DownIsIdle, RowsExist, PollsInTime
<1>2. TypeOK /\ DownIsIdle /\ RowsExist /\ PollsInTime /\ [Next]_vars
        => (TypeOK /\ DownIsIdle /\ RowsExist /\ PollsInTime)'
  BY TypeStep, DownStep, RowStep, PollStep
<1>3. PollsInTime => CancelStopsWorker
  BY DEF PollsInTime, CancelStopsWorker
<1> QED BY <1>1, <1>2, <1>3, PTL DEF Spec

-----------------------------------------------------------------------------
\* Without a failed statement: no row lacks a task, a row whose run_job is gone
\* has ended or was cancelled late, one whose process died is failed by the next
\* start, and no cancel request holds a row from before a restart.
Accounted ==
    faults = 0 =>
        /\ \A j \in Job :
              /\ pc[j] # "orphan"
              /\ pc[j] = "over" => status[j] \in Terminal \cup {"cancelling"}
              /\ up /\ pc[j] = "dead" => status[j] \in Terminal
        /\ \A c \in Canceller : cancelling[c] # NoJob => pc[cancelling[c]] # "dead"

\* Every step keeps it: run_job leaves only through a terminal write or the
\* backstop, and a start of the process fails every active row.
LEMMA AccountStep == TypeOK /\ RowsExist /\ Accounted /\ [Next]_vars => Accounted'
<1> SUFFICES ASSUME TypeOK, RowsExist, Accounted, [Next]_vars PROVE Accounted'
  OBVIOUS
<1> USE JobAssumption DEF TypeOK, RowsExist, Accounted
<1>1. ASSUME NEW s \in Starter, Start(s) PROVE Accounted'
  <2>1. ASSUME NEW t \in Type, PassCheck(s, t) PROVE Accounted'
    BY <2>1 DEF PassCheck
  <2>2. ASSUME NEW j \in Job, CreateJob(s, j) \/ CheckAndCreate(s, j) PROVE Accounted'
    BY <2>2 DEF CreateJob, CheckAndCreate, Inserted
  <2>3. ASSUME NEW j \in Job, CreateJobUnstarted(s, j) PROVE Accounted'
    BY <2>3 DEF CreateJobUnstarted
  <2> QED BY <1>1, <2>1, <2>2, <2>3 DEF Start
<1>2. ASSUME NEW c \in Canceller, Cancel(c) PROVE Accounted'
  <2>1. ASSUME NEW j \in Job, CancelRead(c, j) PROVE Accounted'
    BY <2>1 DEF CancelRead, Active, Terminal
  <2>2. CASE CancelWrite(c)
    BY <2>2 DEF CancelWrite
  <2> QED BY <1>2, <2>1, <2>2 DEF Cancel
<1>3. ASSUME NEW j \in Job, Runner(j) PROVE Accounted'
  <2> USE DEF Goto, RunnerOnly
  <2>1. CASE Begin(j) \/ Stamp(j) \/ CancelEarly(j)
    BY <2>1 DEF Begin, Stamp, CancelEarly, Terminal
  <2>2. CASE BeginItem(j) \/ Advance(j) \/ WorkerReturns(j) \/ WorkerRaises(j)
    BY <2>2 DEF BeginItem, Advance, WorkerReturns, WorkerRaises
  <2>3. CASE Finish(j) \/ LogOutcome(j) \/ Fail(j)
    BY <2>3 DEF Finish, LogOutcome, Fail
  <2>4. CASE Final(j) \/ Backstop(j)
    BY <2>4 DEF Final, Backstop, Terminal
  <2> QED BY <1>3, <2>1, <2>2, <2>3, <2>4 DEF Runner
<1>4. ASSUME NEW j \in Job, DbFault(j) PROVE Accounted'
  BY <1>4 DEF DbFault
<1>5. CASE Crash
  BY <1>5 DEF Crash, RunnerPC, WorkPC
<1>6. CASE Boot
  <2>1. CASE Restart
    BY <2>1 DEF Restart, Active, Terminal
  <2>2. CASE RestartUnreset
    BY <2>2 DEF RestartUnreset
  <2> QED BY <1>6, <2>1, <2>2 DEF Boot
<1>7. CASE UNCHANGED vars
  BY <1>7 DEF vars
<1> QED BY <1>1, <1>2, <1>3, <1>4, <1>5, <1>6, <1>7 DEF Next

\* Without a failed statement no row stays queued or processing once its runner
\* is gone, for any number of jobs, cancel requests and restarts (run_job's
\* finally, reset_stale_jobs).
THEOREM EndedRowsEnd == Spec => []EndedNotRunning
<1>1. Init => TypeOK /\ RowsExist /\ Accounted
  BY JobAssumption DEF Init, TypeOK, Active, Terminal, RowsExist, Accounted
<1>2. TypeOK /\ RowsExist /\ Accounted /\ [Next]_vars => (TypeOK /\ RowsExist /\ Accounted)'
  BY TypeStep, RowStep, AccountStep
<1>3. Accounted => EndedNotRunning
  BY DEF Accounted, EndedNotRunning
<1> QED BY <1>1, <1>2, <1>3, PTL DEF Spec

=============================================================================
