-------------------------- MODULE ScrapeQueueProofs --------------------------
(* Proofs about ScrapeQueue, for any pages with any numbers of variants, any  *)
(* runs and requests, and any number of uploads, failures and aborts.         *)
EXTENDS ScrapeQueue, TLAPS

Place == {"idle", "next", "skip", "fetch", "save", "stamp"}
State == {"absent", "pending", "html_uploaded", "skipped", "failed", "parsed", "completed"}

TypeOK ==
    /\ status \in [Page -> State]
    /\ stamped \in [Page -> BOOLEAN]
    /\ content \in [Page -> Version]
    /\ rows = [p \in Page |-> rows[p]]
    /\ \A p \in Page : rows[p] \in [Variants(p) -> Version]
    /\ pc \in [Actor -> Place]
    /\ queue \in [Actor -> SUBSET Page]
    /\ cur \in [Actor -> Page \cup {NoPage}]
    /\ got \in [Actor -> Version]
    /\ next \in [Actor -> Nat]
    /\ faults \in 0..MaxFaults /\ aborts \in 0..MaxAborts
    /\ lost \subseteq Page

\* The rows of page p so far come from the fetch that stored its first variant.
FromFirst(p) == \A v \in Variants(p) : rows[p][v] \in {0, rows[p][1]}

\* What holds of one run or request.  While it saves a page of several variants nobody
\* else stores one: the rows before the next are its own.
Holds(a) ==
    /\ pc[a] \in {"skip", "fetch", "save", "stamp"} => cur[a] \in Page
    /\ a \in Request => pc[a] \notin {"next", "skip"}
    /\ pc[a] = "skip" => Stored(cur[a])
    /\ pc[a] = "stamp" /\ a \in Run /\ got[a] # 0 => Stored(cur[a])
    /\ pc[a] = "stamp" /\ a \in Request => next[a] = 1
    /\ pc[a] = "save" => /\ got[a] # 0
                         /\ next[a] \in Variants(cur[a])
                         /\ \A w \in 1..(next[a] - 1) : rows[cur[a]][w] = got[a]

\* A target that was stamped is in the table; so is every target a run listed.
Known(p) ==
    /\ stamped[p] => status[p] # "absent"
    /\ \A a \in Actor : p \in queue[a] => status[p] # "absent"

\* The body of NeverStranded.
Found(p) ==
    \/ Selectable(p)
    \/ Stored(p)
    \/ \E q \in Request : cur[q] = p /\ pc[q] = "save"
    \/ p \in lost

\* The inductive invariant.
QueueInv ==
    /\ TypeOK
    /\ NeverStranded
    /\ \A p \in Page : FromFirst(p) /\ Known(p)
    /\ \A a \in Actor : Holds(a)

-----------------------------------------------------------------------------
(* The step of one actor.                                                     *)

\* A stored row stays stored, and keeps its version on a page of several variants.
RowsGrow ==
    \A p \in Page : \A v \in Variants(p) : rows[p][v] # 0 =>
        rows'[p][v] # 0 /\ (NumVariants[p] # 1 => rows'[p][v] = rows[p][v])

\* Everything a actor's step must leave or establish.
Turn(a) ==
    /\ TypeOK'
    /\ \A b \in Actor \ {a} :
          /\ pc'[b] = pc[b] /\ queue'[b] = queue[b]
          /\ cur'[b] = cur[b] /\ got'[b] = got[b] /\ next'[b] = next[b]
    /\ RowsGrow
    /\ \A p \in Page : FromFirst(p)'
    /\ \A p \in Page : \/ status'[p] = status[p] /\ stamped'[p] = stamped[p]
                       \/ status'[p] # "absent" /\ Found(p)'
    /\ lost \subseteq lost'
    /\ \A p \in queue'[a] : status[p] # "absent"
    /\ \A p \in Page : a \in Request /\ pc[a] = "save" /\ cur[a] = p =>
          (pc'[a] = "save" /\ cur'[a] = p) \/ Stored(p)' \/ p \in lost'
    /\ Holds(a)'

\* NumVariants is typed, and the pages that are not live have one variant.
LEMMA Numbers ==
    /\ \A p \in Page : NumVariants[p] \in Nat /\ NumVariants[p] > 0 /\ 1 \in Variants(p)
    /\ \A p \in Respecs : p \in Page /\ NumVariants[p] = 1
<1>1. NumVariants \in [Page -> Nat \ {0}] /\ Respecs \subseteq Page
      /\ \A p \in Uploads \cup Respecs : NumVariants[p] = 1
  BY ScrapeAssumption DEF ScrapeAssumption
<1>2. ASSUME NEW p \in Page
      PROVE  NumVariants[p] \in Nat /\ NumVariants[p] > 0 /\ 1 \in Variants(p)
  <2>1. NumVariants[p] \in Nat \ {0}
    BY <1>1
  <2> QED BY <2>1 DEF Variants
<1> QED BY <1>1, <1>2

\* Runs and requests are different actors, and 0 is a version.
LEMMA Kinds ==
    /\ 0 \in Version /\ Version \subseteq Nat
    /\ \A a \in Run : a \in Actor /\ a \notin Request
    /\ \A a \in Request : a \in Actor /\ a \notin Run
<1>1. MaxVersion \in Nat /\ Run \cap Request = {}
  BY ScrapeAssumption DEF ScrapeAssumption
<1>2. 0 \in Version /\ Version \subseteq Nat
  BY <1>1 DEF Version
<1> QED BY <1>1, <1>2 DEF Actor

\* Steps that store no row.
LEMMA RowsSame ==
    ASSUME QueueInv, rows' = rows
    PROVE  /\ RowsGrow
           /\ \A p \in Page : FromFirst(p)' /\ (Stored(p)' <=> Stored(p))
  BY DEF QueueInv, RowsGrow, FromFirst, Stored

\* What is stored stays stored.
LEMMA StoredStays ==
    ASSUME RowsGrow, NEW p \in Page, Stored(p)
    PROVE  Stored(p)'
  BY DEF RowsGrow, Stored

\* The others' rows are theirs still.
LEMMA OthersHold ==
    ASSUME QueueInv, NEW a \in Actor, Turn(a), NEW b \in Actor, b # a
    PROVE  Holds(b)'
<1>1. /\ pc'[b] = pc[b] /\ cur'[b] = cur[b] /\ got'[b] = got[b] /\ next'[b] = next[b]
      /\ Holds(b) /\ RowsGrow
  BY DEF Turn, QueueInv
<1>2. pc[b] \in {"skip", "stamp"} /\ cur[b] \in Page /\ Stored(cur[b]) => Stored(cur[b])'
  BY <1>1, StoredStays
<1>3. ASSUME pc[b] = "save", NEW w \in 1..(next[b] - 1)
      PROVE  rows'[cur[b]][w] = got[b]
  <2>1. cur[b] \in Page /\ next[b] \in Variants(cur[b]) /\ got[b] # 0
        /\ rows[cur[b]][w] = got[b]
    BY <1>1, <1>3 DEF Holds
  <2>2. NumVariants[cur[b]] \in Nat
    BY <2>1, Numbers
  <2>3. w \in Variants(cur[b]) /\ NumVariants[cur[b]] # 1
    BY <1>3, <2>1, <2>2 DEF Variants
  <2> QED BY <1>1, <2>1, <2>3 DEF RowsGrow
<1>4. /\ pc[b] = "skip" => Stored(cur[b])'
      /\ pc[b] = "stamp" /\ b \in Run /\ got[b] # 0 => Stored(cur[b])'
  BY <1>1, <1>2 DEF Holds
<1> QED BY <1>1, <1>3, <1>4 DEF Holds, Stored, Variants

\* No step of an actor strands a target.
LEMMA TurnKeeps ==
    ASSUME QueueInv, NEW a \in Actor, Turn(a)
    PROVE  QueueInv'
<1>1. \A b \in Actor : Holds(b)'
  BY OthersHold DEF Turn
<1>2. ASSUME NEW p \in Page PROVE Known(p)'
  <2>1. status[p] # "absent" => status'[p] # "absent"
    BY DEF Turn
  <2>2. stamped'[p] => status'[p] # "absent"
    BY DEF Turn, QueueInv, Known
  <2>3. ASSUME NEW b \in Actor, p \in queue'[b] PROVE status'[p] # "absent"
    BY <2>1, <2>3 DEF Turn, QueueInv, Known
  <2> QED BY <2>2, <2>3 DEF Known
<1>3. ASSUME NEW p \in Page, status'[p] # "absent" PROVE Found(p)'
  <2>1. CASE status'[p] = status[p] /\ stamped'[p] = stamped[p]
    <3>1. Found(p)
      BY <1>3, <2>1 DEF QueueInv, NeverStranded, Found
    <3>2. Selectable(p) => Found(p)'
      BY <2>1 DEF Selectable, Found
    <3>3. Stored(p) => Found(p)'
      BY StoredStays DEF Turn, Found
    <3>4. p \in lost => Found(p)'
      BY DEF Turn, Found
    <3>5. ASSUME NEW q \in Request, cur[q] = p, pc[q] = "save" PROVE Found(p)'
      <4>1. CASE q = a
        BY <3>5, <4>1 DEF Turn, Found
      <4>2. CASE q # a
        BY <3>5, <4>2, Kinds DEF Turn, Found
      <4> QED BY <4>1, <4>2
    <3> QED BY <3>1, <3>2, <3>3, <3>4, <3>5 DEF Found
  <2> QED BY <1>3, <2>1 DEF Turn
<1>4. NeverStranded'
  BY <1>3 DEF NeverStranded, Found
<1> QED BY <1>1, <1>2, <1>4 DEF Turn, QueueInv

-----------------------------------------------------------------------------
(* Every step of an actor is such a turn.                                     *)

\* A step that changes no table only has to leave its actor in order.
LEMMA QuietTurn ==
    ASSUME QueueInv, NEW a \in Actor, UNCHANGED table, TypeOK', Holds(a)',
           \A b \in Actor \ {a} :
              /\ pc'[b] = pc[b] /\ queue'[b] = queue[b]
              /\ cur'[b] = cur[b] /\ got'[b] = got[b] /\ next'[b] = next[b],
           lost \subseteq lost',
           \A p \in queue'[a] : status[p] # "absent",
           \A p \in Page : a \in Request /\ pc[a] = "save" /\ cur[a] = p =>
              Stored(p) \/ p \in lost'
    PROVE  Turn(a)
  BY RowsSame DEF Turn, table

\* A run lists targets, takes the next one, fetches it, and ends.
LEMMA RunTurns ==
    ASSUME QueueInv, NEW r \in Run,
           \/ SelectBulk(r) \/ SelectTargets(r) \/ EndRun(r) \/ CancelRun(r)
           \/ \E p \in Page : Take(r, p)
    PROVE  Turn(r)
<1>1. r \in Actor /\ r \notin Request /\ Holds(r)
  BY Kinds DEF QueueInv
<1>2. CASE SelectBulk(r) \/ SelectTargets(r)
  <2>1. PICK P \in SUBSET Page : Start(r, P) /\ \A p \in P : status[p] # "absent"
    BY <1>2 DEF SelectBulk, SelectTargets, Selectable
  <2>2. TypeOK'
    BY <1>1, <2>1 DEF QueueInv, TypeOK, Start, table, bounds, Place, Stored
  <2>3. pc'[r] = "next" /\ queue'[r] = P
    BY <1>1, <2>1 DEF QueueInv, TypeOK, Start
  <2>4. Holds(r)'
    BY <1>1, <2>3 DEF Holds
  <2>5. UNCHANGED <<table, lost>>
    BY <2>1 DEF Start, bounds
  <2>6. \A b \in Actor \ {r} :
              /\ pc'[b] = pc[b] /\ queue'[b] = queue[b]
              /\ cur'[b] = cur[b] /\ got'[b] = got[b] /\ next'[b] = next[b]
    BY <2>1 DEF QueueInv, TypeOK, Start
  <2> QED BY <1>1, <2>1, <2>2, <2>3, <2>4, <2>5, <2>6, QuietTurn
<1>3. CASE EndRun(r) \/ CancelRun(r)
  <2>1. UNCHANGED <<table, content, cur, got, next, lost, faults>>
        /\ pc' = [pc EXCEPT ![r] = "idle"]
        /\ (queue' = queue \/ queue' = [queue EXCEPT ![r] = {}])
        /\ (aborts' = aborts \/ (aborts < MaxAborts /\ aborts' = aborts + 1))
    BY <1>3 DEF EndRun, CancelRun, bounds
  <2>2. aborts' \in 0..MaxAborts
    BY <2>1, ScrapeAssumption DEF ScrapeAssumption, QueueInv, TypeOK
  <2>3. TypeOK'
    BY <1>1, <2>1, <2>2 DEF QueueInv, TypeOK, table, Place
  <2>4. pc'[r] = "idle" /\ queue'[r] \subseteq queue[r]
    BY <1>1, <2>1 DEF QueueInv, TypeOK
  <2>5. Holds(r)'
    BY <1>1, <2>4 DEF Holds
  <2>6. \A b \in Actor \ {r} :
              /\ pc'[b] = pc[b] /\ queue'[b] = queue[b]
              /\ cur'[b] = cur[b] /\ got'[b] = got[b] /\ next'[b] = next[b]
    BY <2>1 DEF QueueInv, TypeOK
  <2>7. \A p \in queue'[r] : status[p] # "absent"
    BY <1>1, <2>4 DEF QueueInv, TypeOK, Known
  <2> QED BY <1>1, <2>1, <2>3, <2>5, <2>6, <2>7, QuietTurn
<1>4. ASSUME NEW p \in Page, Take(r, p)
      PROVE  Turn(r)
  <2>1. TypeOK'
    BY <1>1, <1>4 DEF QueueInv, TypeOK, Take, table, bounds, Place
  <2>2. cur'[r] = p /\ queue'[r] \subseteq queue[r]
        /\ pc'[r] = IF Stored(p) /\ p \notin Respecs THEN "skip" ELSE "fetch"
    BY <1>1, <1>4 DEF QueueInv, TypeOK, Take
  <2>3. Stored(p)' <=> Stored(p)
    BY <1>4, RowsSame DEF Take, table
  <2>4. Holds(r)'
    BY <1>1, <2>2, <2>3 DEF Holds
  <2>5. UNCHANGED <<table, lost>>
    BY <1>4 DEF Take, bounds
  <2>6. \A b \in Actor \ {r} :
              /\ pc'[b] = pc[b] /\ queue'[b] = queue[b]
              /\ cur'[b] = cur[b] /\ got'[b] = got[b] /\ next'[b] = next[b]
    BY <1>4 DEF QueueInv, TypeOK, Take
  <2>7. \A s \in queue'[r] : status[s] # "absent"
    BY <1>1, <2>2 DEF QueueInv, TypeOK, Known
  <2> QED BY <1>1, <2>1, <2>4, <2>5, <2>6, <2>7, QuietTurn
<1> QED BY <1>2, <1>3, <1>4

\* A request begins; a run or a request fetches its page.
LEMMA FetchTurns ==
    ASSUME QueueInv, NEW a \in Actor,
           \/ a \in Request /\ \E p \in Page : BeginRequest(a, p)
           \/ \E v \in Version : Fetch(a, v) \/ FetchRequest(a, v)
    PROVE  Turn(a)
<1>1. Holds(a) /\ (a \in Request <=> a \notin Run)
  BY Kinds DEF QueueInv, Actor
<1>2. ASSUME NEW p \in Page, a \in Request, BeginRequest(a, p)
      PROVE  Turn(a)
  <2>1. TypeOK'
    BY <1>2 DEF QueueInv, TypeOK, BeginRequest, table, bounds, Place
  <2>2. cur'[a] = p /\ pc'[a] = "fetch" /\ queue' = queue /\ UNCHANGED <<table, lost>>
        /\ pc[a] = "idle"
    BY <1>2 DEF QueueInv, TypeOK, BeginRequest, bounds
  <2>3. Holds(a)'
    BY <2>2 DEF Holds
  <2>4. \A b \in Actor \ {a} :
              /\ pc'[b] = pc[b] /\ queue'[b] = queue[b]
              /\ cur'[b] = cur[b] /\ got'[b] = got[b] /\ next'[b] = next[b]
    BY <1>2 DEF QueueInv, TypeOK, BeginRequest
  <2>5. \A s \in queue'[a] : status[s] # "absent"
    BY <2>2 DEF QueueInv, TypeOK, Known
  <2> QED BY <2>1, <2>2, <2>3, <2>4, <2>5, QuietTurn
<1>3. ASSUME NEW v \in Version, Fetch(a, v) \/ FetchRequest(a, v)
      PROVE  Turn(a)
  <2>1. /\ Fetched(a, v) /\ pc[a] = "fetch"
        /\ UNCHANGED <<table, content, queue, cur, lost, aborts>>
        /\ got' = [got EXCEPT ![a] = v] /\ next' = [next EXCEPT ![a] = 1]
        /\ faults' = faults \/ (faults < MaxFaults /\ faults' = faults + 1)
        /\ \/ a \in Run /\ pc' = [pc EXCEPT ![a] = IF v = 0 THEN "stamp" ELSE "save"]
           \/ a \in Request /\ pc' = [pc EXCEPT ![a] = "stamp"]
    BY <1>3 DEF Fetch, FetchRequest, Fetched
  <2>2. faults' \in 0..MaxFaults
    BY <2>1, ScrapeAssumption DEF ScrapeAssumption, QueueInv, TypeOK
  <2>3. TypeOK'
    BY <2>1, <2>2 DEF QueueInv, TypeOK, table, Place
  <2>4. /\ cur'[a] = cur[a] /\ cur[a] \in Page /\ got'[a] = v /\ next'[a] = 1
        /\ \/ a \in Run /\ pc'[a] = IF v = 0 THEN "stamp" ELSE "save"
           \/ a \in Request /\ pc'[a] = "stamp"
    BY <1>1, <2>1 DEF QueueInv, TypeOK, Holds
  <2>5. 1 \in Variants(cur[a])
    BY <2>4, Numbers
  <2>6. 1..(1 - 1) = {}
    OBVIOUS
  <2>7. Holds(a)'
    BY <1>1, <2>4, <2>5, <2>6 DEF Holds, Variants
  <2>8. \A b \in Actor \ {a} :
              /\ pc'[b] = pc[b] /\ queue'[b] = queue[b]
              /\ cur'[b] = cur[b] /\ got'[b] = got[b] /\ next'[b] = next[b]
    BY <2>1 DEF QueueInv, TypeOK
  <2>9. \A s \in queue'[a] : status[s] # "absent"
    BY <2>1 DEF QueueInv, TypeOK, Known
  <2> QED BY <2>1, <2>3, <2>7, <2>8, <2>9, QuietTurn
<1> QED BY <1>2, <1>3

\* What a cut short or refused actor leaves behind: a request's page has a row, or is lost.
LEMMA GoneTurns ==
    ASSUME QueueInv, NEW a \in Actor, Collide(a) \/ Abort(a)
    PROVE  Turn(a)
<1>1. /\ UNCHANGED <<table, content, faults>>
      /\ pc' = [pc EXCEPT ![a] = "idle"] /\ queue' = [queue EXCEPT ![a] = {}]
      /\ cur' = [cur EXCEPT ![a] = NoPage]
      /\ got' = [got EXCEPT ![a] = 0] /\ next' = [next EXCEPT ![a] = 0]
      /\ (aborts' = aborts \/ (aborts < MaxAborts /\ aborts' = aborts + 1))
  BY DEF Collide, Abort, Gone, Leave, bounds
<1>2. Holds(a) /\ (pc[a] = "save" => cur[a] \in Page)
  BY DEF QueueInv, Holds
<1>3. lost \subseteq lost' /\ lost' \subseteq Page
  BY <1>2 DEF QueueInv, TypeOK, Collide, Abort, bounds
<1>4. aborts' \in 0..MaxAborts
  BY <1>1, ScrapeAssumption DEF ScrapeAssumption, QueueInv, TypeOK
<1>5. TypeOK'
  BY <1>1, <1>3, <1>4, Kinds DEF QueueInv, TypeOK, table, Place
<1>6. pc'[a] = "idle" /\ queue'[a] = {}
  BY <1>1 DEF QueueInv, TypeOK
<1>7. Holds(a)'
  BY <1>6 DEF Holds
<1>8. \A b \in Actor \ {a} :
              /\ pc'[b] = pc[b] /\ queue'[b] = queue[b]
              /\ cur'[b] = cur[b] /\ got'[b] = got[b] /\ next'[b] = next[b]
  BY <1>1 DEF QueueInv, TypeOK
<1>9. ASSUME a \in Request, pc[a] = "save"
      PROVE  Stored(cur[a]) \/ cur[a] \in lost'
  <2>1. CASE Collide(a)
    <3>1. rows[cur[a]][next[a]] # 0 /\ next[a] \in Variants(cur[a])
      BY <1>2, <1>9, <2>1 DEF Collide, Collides, Holds
    <3> QED BY <3>1 DEF Stored
  <2>2. CASE Abort(a)
    BY <1>9, <2>2 DEF Abort
  <2> QED BY <2>1, <2>2
<1>10. \A p \in Page : a \in Request /\ pc[a] = "save" /\ cur[a] = p => Stored(p) \/ p \in lost'
  BY <1>9
<1> QED BY <1>1, <1>3, <1>5, <1>6, <1>7, <1>8, <1>10, QuietTurn

\* Whoever stamps a target stored it, finds it stored, failed, or goes on to store it.
LEMMA StampTurns ==
    ASSUME QueueInv, NEW a \in Actor,
           \/ a \in Run /\ (Skip(a) \/ Stamp(a))
           \/ StampRequest(a)
    PROVE  Turn(a)
<1>1. Holds(a) /\ (a \in Request <=> a \notin Run)
  BY Kinds DEF QueueInv, Actor
<1>2. PICK s \in State \ {"absent"} : UpdateTarget(a, s)
  <2>1. "skipped" \in State \ {"absent"} /\ Outcome(a) \in State \ {"absent"}
    BY DEF State, Outcome, SuccessStatus
  <2> QED BY <2>1 DEF Skip, Stamp, StampRequest
<1>3. PICK p \in Page : p = cur[a]
  BY <1>1 DEF Holds, Skip, Stamp, StampRequest
<1>4. /\ UNCHANGED <<rows, content, queue, bounds>>
      /\ status' = [status EXCEPT ![p] = s] /\ stamped' = [stamped EXCEPT ![p] = TRUE]
  BY <1>2, <1>3 DEF Skip, Stamp, StampRequest, UpdateTarget
<1>5. \/ Leave(a, "next") /\ a \in Run
      \/ Leave(a, "idle") /\ a \in Request
      \/ /\ StampRequest(a) /\ a \in Request /\ got[a] # 0
         /\ pc' = [pc EXCEPT ![a] = "save"] /\ UNCHANGED <<cur, got, next>>
  BY DEF Skip, Stamp, StampRequest, RequestOver
<1>6. TypeOK'
  <2>1. pc' \in [Actor -> Place] /\ cur' \in [Actor -> Page \cup {NoPage}]
    BY <1>5 DEF QueueInv, TypeOK, Leave, Place
  <2>2. got' \in [Actor -> Version] /\ next' \in [Actor -> Nat]
    BY SMTT(20), <1>5, Kinds DEF QueueInv, TypeOK, Leave
  <2> QED BY <1>2, <1>4, <2>1, <2>2 DEF QueueInv, TypeOK, bounds
<1>7. \A b \in Actor \ {a} :
              /\ pc'[b] = pc[b] /\ queue'[b] = queue[b]
              /\ cur'[b] = cur[b] /\ got'[b] = got[b] /\ next'[b] = next[b]
  BY <1>4, <1>5 DEF QueueInv, TypeOK, Leave
<1>8. pc'[a] = "save" => /\ StampRequest(a) /\ a \in Request
                         /\ cur'[a] = p /\ got'[a] # 0 /\ next'[a] = 1
  BY <1>1, <1>3, <1>5 DEF QueueInv, TypeOK, Leave, Holds, StampRequest
<1>9. Holds(a)'
  <2>1. pc'[a] \in {"next", "idle", "save"} /\ (pc'[a] = "next" => a \in Run)
    BY <1>5 DEF QueueInv, TypeOK, Leave
  <2>2. 1 \in Variants(p) /\ 1..(1 - 1) = {}
    BY <1>3, Numbers
  <2> QED BY <1>1, <1>3, <1>8, <2>1, <2>2 DEF Holds, Variants
<1>10. Found(p)'
  <2>1. status'[p] = s /\ stamped'[p] = TRUE
    BY <1>3, <1>4 DEF QueueInv, TypeOK
  <2>2. CASE Stored(p)
    BY <1>4, <2>2, RowsSame DEF Found
  <2>3. CASE pc[a] = "stamp" /\ got[a] = 0
    <3>1. status' = [status EXCEPT ![p] = "failed"]
      BY <1>3, <2>3 DEF Skip, Stamp, StampRequest, UpdateTarget, Outcome
    <3> QED BY <3>1 DEF QueueInv, TypeOK, Found, Selectable
  <2>4. CASE StampRequest(a) /\ got[a] # 0
    <3>1. a \in Request /\ pc'[a] = "save" /\ cur'[a] = p
      BY <1>3, <2>4 DEF StampRequest, RequestOver, QueueInv, TypeOK
    <3> QED BY <3>1 DEF Found
  <2> QED BY <1>1, <1>3, <2>2, <2>3, <2>4 DEF Holds, Skip, Stamp, StampRequest
<1>11. \A t \in Page : \/ status'[t] = status[t] /\ stamped'[t] = stamped[t]
                       \/ status'[t] # "absent" /\ Found(t)'
  <2>1. status'[p] # "absent"
    BY <1>2, <1>3, <1>4 DEF QueueInv, TypeOK
  <2>2. \A t \in Page \ {p} : status'[t] = status[t] /\ stamped'[t] = stamped[t]
    BY <1>4 DEF QueueInv, TypeOK
  <2> QED BY <1>10, <2>1, <2>2
<1>12. pc[a] # "save"
  BY DEF Skip, Stamp, StampRequest
<1>13. lost' = lost /\ \A t \in queue'[a] : status[t] # "absent"
  BY <1>4 DEF QueueInv, TypeOK, Known, bounds
<1> QED BY <1>4, <1>6, <1>7, <1>9, <1>11, <1>12, <1>13, RowsSame DEF Turn

\* A variant goes where nothing is stored, or replaces the only row of its page.
LEMMA SaveTurns ==
    ASSUME QueueInv, NEW a \in Actor, SaveVariant(a)
    PROVE  Turn(a)
<1>1. Holds(a) /\ (a \in Request <=> a \notin Run) /\ pc[a] = "save"
  BY Kinds DEF QueueInv, Actor, SaveVariant
<1>2. PICK p \in Page : p = cur[a]
  BY <1>1 DEF Holds
<1>3. PICK k \in Variants(p) : k = next[a]
  BY <1>1, <1>2 DEF Holds
<1>4. PICK g \in Version \ {0} : g = got[a]
  BY <1>1 DEF Holds, QueueInv, TypeOK
<1>5. rows' = [rows EXCEPT ![p] = [rows[p] EXCEPT ![k] = g]]
  BY <1>2, <1>3, <1>4 DEF SaveVariant
<1>6. NumVariants[p] \in Nat /\ k \in 1..NumVariants[p] /\ rows[p] \in [Variants(p) -> Version]
  BY <1>3, Numbers DEF Variants, QueueInv, TypeOK
<1>7. /\ rows'[p] = [rows[p] EXCEPT ![k] = g]
      /\ \A t \in Page \ {p} : rows'[t] = rows[t]
      /\ rows' = [t \in Page |-> rows'[t]]
  BY <1>5 DEF QueueInv, TypeOK
<1>8. rows'[p][k] = g /\ \A v \in Variants(p) \ {k} : rows'[p][v] = rows[p][v]
  BY <1>6, <1>7 DEF Variants
<1>9. rows[p][k] = 0 \/ NumVariants[p] = 1
  BY <1>2, <1>3, Numbers DEF SaveVariant, Insertable
<1>10. RowsGrow
  <2>1. ASSUME NEW v \in Variants(p), rows[p][v] # 0
        PROVE  rows'[p][v] # 0 /\ (NumVariants[p] # 1 => rows'[p][v] = rows[p][v])
    BY <1>4, <1>8, <1>9, <2>1
  <2> QED BY <1>7, <2>1 DEF RowsGrow
<1>11. \A w \in 1..(k - 1) : rows[p][w] = g
  BY <1>1, <1>2, <1>3, <1>4 DEF Holds
<1>12. \A w \in 1..k : rows'[p][w] = g
  <2>1. \A w \in 1..k : w = k \/ (w \in 1..(k - 1) /\ w \in Variants(p) \ {k})
    BY <1>6 DEF Variants
  <2> QED BY <1>8, <1>11, <2>1
<1>13. FromFirst(p)'
  <2>1. rows'[p][1] = g
    BY <1>6, <1>12
  <2>2. \A v \in Variants(p) \ {k} : rows[p][v] \in {0, g}
    <3>1. CASE k = 1
      <4>1. NumVariants[p] = 1 => Variants(p) \ {k} = {}
        BY <3>1 DEF Variants
      <4>2. rows[p][1] = 0 => \A v \in Variants(p) : rows[p][v] = 0
        BY DEF QueueInv, FromFirst
      <4> QED BY <1>9, <3>1, <4>1, <4>2
    <3>2. CASE k # 1
      <4>1. 1 \in 1..(k - 1)
        BY <1>6, <3>2
      <4>2. rows[p][1] = g
        BY <1>11, <4>1
      <4> QED BY <4>2 DEF QueueInv, FromFirst
    <3> QED BY <3>1, <3>2
  <2>3. \A v \in Variants(p) : rows'[p][v] \in {0, g}
    BY <1>8, <2>2
  <2> QED BY <2>1, <2>3 DEF FromFirst, Variants
<1>14. \A t \in Page : FromFirst(t)'
  <2>1. \A t \in Page \ {p} : FromFirst(t)'
    BY <1>7 DEF QueueInv, FromFirst
  <2> QED BY <1>13, <2>1
<1>15. Stored(p)'
  BY <1>3, <1>4, <1>8 DEF Stored
<1>16. \/ Leave(a, "idle") /\ a \in Request
       \/ /\ pc' = [pc EXCEPT ![a] = IF LastVariant(a) THEN "stamp" ELSE "save"]
          /\ next' = [next EXCEPT ![a] = @ + 1]
          /\ UNCHANGED <<cur, got>> /\ (LastVariant(a) => a \in Run)
  BY <1>1 DEF SaveVariant
<1>17. UNCHANGED <<status, stamped, content, queue, bounds>>
  BY DEF SaveVariant
<1>18. TypeOK'
  <2>1. pc' \in [Actor -> Place] /\ cur' \in [Actor -> Page \cup {NoPage}]
    BY <1>16 DEF QueueInv, TypeOK, Leave, Place
  <2>2. got' \in [Actor -> Version]
    BY <1>16, Kinds DEF QueueInv, TypeOK, Leave
  <2>3. next \in [Actor -> Nat] /\ next[a] + 1 \in Nat
    BY <1>3, <1>6 DEF QueueInv, TypeOK
  <2>4. next' \in [Actor -> Nat]
    BY <1>16, <2>3 DEF Leave
  <2>5. \A t \in Page : rows'[t] \in [Variants(t) -> Version]
    <3>1. rows'[p] \in [Variants(p) -> Version]
      BY <1>6, <1>7
    <3> QED BY <1>7, <3>1 DEF QueueInv, TypeOK
  <2> QED BY <1>7, <1>17, <2>1, <2>2, <2>4, <2>5 DEF QueueInv, TypeOK, bounds
<1>19. \A b \in Actor \ {a} :
              /\ pc'[b] = pc[b] /\ queue'[b] = queue[b]
              /\ cur'[b] = cur[b] /\ got'[b] = got[b] /\ next'[b] = next[b]
  BY <1>16, <1>17 DEF QueueInv, TypeOK, Leave
<1>20. Holds(a)'
  <2>1. CASE Leave(a, "idle") /\ a \in Request
    <3>1. pc'[a] = "idle"
      BY <2>1 DEF QueueInv, TypeOK, Leave
    <3> QED BY <3>1 DEF Holds
  <2>2. CASE /\ pc' = [pc EXCEPT ![a] = IF LastVariant(a) THEN "stamp" ELSE "save"]
             /\ next' = [next EXCEPT ![a] = @ + 1]
             /\ UNCHANGED <<cur, got>> /\ (LastVariant(a) => a \in Run)
    <3>1. /\ pc'[a] = IF k = NumVariants[p] THEN "stamp" ELSE "save"
          /\ next'[a] = k + 1 /\ cur'[a] = p /\ got'[a] = g
      BY <1>2, <1>3, <1>4, <2>2 DEF QueueInv, TypeOK, LastVariant
    <3>2. k # NumVariants[p] => k + 1 \in Variants(p)
      BY <1>6 DEF Variants
    <3>4. k = NumVariants[p] => a \in Run
      BY <1>2, <1>3, <2>2 DEF LastVariant
    <3>5. pc'[a] = "save" => /\ got'[a] # 0
                             /\ next'[a] \in Variants(p)
                             /\ \A w \in 1..(next'[a] - 1) : rows'[p][w] = got'[a]
      <4>1. pc'[a] = "save" => k # NumVariants[p]
        BY <3>1
      <4>2. next'[a] = k + 1 /\ got'[a] = g
        BY <3>1
      <4>3. next'[a] - 1 = k
        BY <1>6, <4>2
      <4>4. \A w \in 1..(next'[a] - 1) : rows'[p][w] = got'[a]
        BY <1>12, <4>2, <4>3
      <4> QED BY <1>4, <3>1, <3>2, <4>1, <4>4
    <3> QED BY <1>1, <1>15, <3>1, <3>4, <3>5 DEF Holds, Stored, Variants
  <2> QED BY <1>16, <2>1, <2>2
<1>21. \A t \in queue'[a] : status[t] # "absent"
  BY <1>17 DEF QueueInv, TypeOK, Known
<1> QED BY <1>2, <1>10, <1>14, <1>15, <1>17, <1>18, <1>19, <1>20, <1>21 DEF Turn, bounds

-----------------------------------------------------------------------------
(* The invariant.                                                             *)

\* Nothing is in the table, and nobody at work.
LEMMA QueueInit ==
    ASSUME Init
    PROVE  QueueInv
<1>1. Uploads \subseteq Page /\ MaxVersion \in Nat \ {0} /\ MaxFaults \in Nat /\ MaxAborts \in Nat
  BY ScrapeAssumption DEF ScrapeAssumption
<1>2. 0 \in Version /\ 1 \in Version
  BY <1>1 DEF Version
<1>3. \A p \in Page : rows[p] = [v \in Variants(p) |-> 0]
  BY DEF Init
<1>4. TypeOK
  <2>1. /\ status \in [Page -> State] /\ stamped \in [Page -> BOOLEAN]
        /\ content \in [Page -> Version]
    BY <1>2 DEF Init, State
  <2>2. rows = [p \in Page |-> rows[p]] /\ \A p \in Page : rows[p] \in [Variants(p) -> Version]
    BY <1>2, <1>3 DEF Init
  <2>3. /\ pc \in [Actor -> Place] /\ queue \in [Actor -> SUBSET Page]
        /\ cur \in [Actor -> Page \cup {NoPage}]
        /\ got \in [Actor -> Version] /\ next \in [Actor -> Nat]
    BY <1>2 DEF Init, Place
  <2>4. faults \in 0..MaxFaults /\ aborts \in 0..MaxAborts /\ lost \subseteq Page
    BY <1>1 DEF Init
  <2> QED BY <2>1, <2>2, <2>3, <2>4 DEF TypeOK
<1>5. NeverStranded
  BY DEF Init, NeverStranded
<1>6. \A p \in Page : FromFirst(p) /\ Known(p)
  BY <1>3 DEF Init, FromFirst, Known
<1>7. \A a \in Actor : Holds(a)
  BY DEF Init, Holds
<1> QED BY <1>4, <1>5, <1>6, <1>7 DEF QueueInv

\* A crawl, an upload or the vendor touches no actor and no row, and a target it sets is
\* on the next run's list.
LEMMA OutsideKeeps ==
    ASSUME QueueInv,
           \/ \E P \in SUBSET Page : Crawl(P)
           \/ \E p \in Page : Upload(p) \/ VendorEdit(p)
    PROVE  QueueInv'
<1>1. UNCHANGED <<stamped, rows, pc, queue, cur, got, next, faults, aborts, lost>>
  BY DEF Crawl, Upload, VendorEdit, actors, bounds, table
<1>2. /\ status' \in [Page -> State]
      /\ \A p \in Page : status'[p] = status[p] \/ status'[p] = "html_uploaded"
                         \/ (status'[p] = "pending" /\ status[p] = "absent")
  BY DEF Crawl, Upload, VendorEdit, table, QueueInv, TypeOK, State
<1>3. content' \in [Page -> Version]
  <2>1. ASSUME NEW p \in Page, content[p] < MaxVersion, content' = [content EXCEPT ![p] = @ + 1]
        PROVE  content' \in [Page -> Version]
    <3>1. content \in [Page -> Version] /\ content[p] \in 0..MaxVersion /\ MaxVersion \in Nat
      BY ScrapeAssumption DEF ScrapeAssumption, QueueInv, TypeOK, Version
    <3>2. content[p] + 1 \in Version
      BY <2>1, <3>1 DEF Version
    <3> QED BY <2>1, <3>1, <3>2
  <2> QED BY <2>1 DEF Crawl, Upload, VendorEdit, QueueInv, TypeOK
<1>4. TypeOK'
  BY <1>1, <1>2, <1>3 DEF QueueInv, TypeOK
<1>5. \A p \in Page : FromFirst(p)' /\ Known(p)'
  BY <1>1, <1>2 DEF QueueInv, FromFirst, Known
<1>6. \A a \in Actor : Holds(a)'
  BY <1>1 DEF QueueInv, Holds, Stored
<1>7. ASSUME NEW p \in Page, status'[p] # "absent"
      PROVE  Found(p)'
  <2>1. CASE status'[p] = "html_uploaded"
    BY <1>7, <2>1 DEF Found, Selectable
  <2>2. CASE status'[p] = "pending" /\ status[p] = "absent"
    BY <1>1, <2>2 DEF QueueInv, Known, Found, Selectable
  <2>3. CASE status'[p] = status[p]
    <3>1. Found(p)
      BY <1>7, <2>3 DEF QueueInv, NeverStranded, Found
    <3> QED BY <1>1, <2>3, <3>1 DEF Found, Selectable, Stored
  <2> QED BY <1>2, <2>1, <2>2, <2>3
<1>8. NeverStranded'
  BY <1>7 DEF NeverStranded, Found
<1> QED BY <1>4, <1>5, <1>6, <1>8 DEF QueueInv

\* Every step keeps the invariant, and what is stored.
LEMMA QueueStep ==
    ASSUME QueueInv, [Next]_vars
    PROVE  QueueInv' /\ RowsGrow
<1>1. ASSUME NEW r \in Run, SelectBulk(r) \/ SelectTargets(r) \/ Work(r) \/ CancelRun(r)
      PROVE  QueueInv' /\ RowsGrow
  <2>1. r \in Actor
    BY Kinds
  <2>2. Turn(r)
    BY <1>1, <2>1, RunTurns, FetchTurns, StampTurns, SaveTurns, GoneTurns DEF Work
  <2> QED BY <2>1, <2>2, TurnKeeps DEF Turn
<1>2. ASSUME NEW q \in Request, (\E p \in Page : BeginRequest(q, p)) \/ Serve(q)
      PROVE  QueueInv' /\ RowsGrow
  <2>1. q \in Actor
    BY Kinds
  <2>2. Turn(q)
    BY <1>2, <2>1, FetchTurns, StampTurns, SaveTurns, GoneTurns DEF Serve
  <2> QED BY <2>1, <2>2, TurnKeeps DEF Turn
<1>3. ASSUME NEW a \in Actor, Abort(a) PROVE QueueInv' /\ RowsGrow
  BY <1>3, GoneTurns, TurnKeeps DEF Turn
<1>4. CASE UNCHANGED vars
  <2>1. UNCHANGED <<status, stamped, rows, content, pc, queue, cur, got, next, faults,
                    aborts, lost>>
    BY <1>4 DEF vars, table, actors, bounds
  <2>2. TypeOK' /\ NeverStranded'
    BY <2>1 DEF QueueInv, TypeOK, NeverStranded, Selectable, Stored
  <2>3. \A p \in Page : FromFirst(p)' /\ Known(p)'
    BY <2>1 DEF QueueInv, FromFirst, Known
  <2>4. \A a \in Actor : Holds(a)'
    BY <2>1 DEF QueueInv, Holds, Stored
  <2> QED BY <2>1, <2>2, <2>3, <2>4, RowsSame DEF QueueInv
<1>5. ASSUME (\E P \in SUBSET Page : Crawl(P)) \/ (\E p \in Page : Upload(p) \/ VendorEdit(p))
      PROVE  QueueInv' /\ RowsGrow
  <2>1. rows' = rows
    BY <1>5 DEF Crawl, Upload, VendorEdit, table
  <2> QED BY <1>5, <2>1, OutsideKeeps, RowsSame
<1> QED BY <1>1, <1>2, <1>3, <1>4, <1>5 DEF Next

-----------------------------------------------------------------------------
(* The theorems.                                                              *)

\* The tables and what every run and request holds are typed.
THEOREM TypeCorrect == Spec => []TypeOK
<1>1. QueueInv => TypeOK
  BY DEF QueueInv
<1> QED BY <1>1, QueueInit, QueueStep, PTL DEF Spec

\* A crawled target without a row is always on the list of the next bulk run, or a request
\* is storing it now, unless a request was cut short between its stamp and its first row.
THEOREM NoneStranded == Spec => []NeverStranded
<1>1. QueueInv => NeverStranded
  BY DEF QueueInv
<1> QED BY <1>1, QueueInit, QueueStep, PTL DEF Spec

\* However many runs and requests are on a page, its rows come from one fetch of it.
THEOREM OneFetchPerPage == Spec => []RowsOfOneFetch
<1>1. QueueInv => RowsOfOneFetch
  BY DEF QueueInv, FromFirst, RowsOfOneFetch
<1> QED BY <1>1, QueueInit, QueueStep, PTL DEF Spec

\* A page that is stored stays stored, through Apple's delete-and-insert too: no step of a
\* run, a request or a crash leaves it without its rows.
THEOREM StoredForGood == Spec => [][\A p \in Page : Stored(p) => Stored(p)']_vars
<1>1. ASSUME QueueInv, [Next]_vars PROVE \A p \in Page : Stored(p) => Stored(p)'
  BY <1>1, QueueStep, StoredStays
<1> QED BY <1>1, QueueInit, QueueStep, PTL DEF Spec
=============================================================================
