-------------------------- MODULE ReviewIngestProofs -------------------------
(* Proofs about ReviewIngest, for any videos, families and matcher, any walk  *)
(* of the families and any number of human decisions, cancels and crashes.    *)
EXTENDS ReviewIngest, FiniteSetTheorems, TLAPS

Row == [status : {"absent", "pending", "matched", "rejected", "irrelevant"}, text : BOOLEAN,
        reason : {"none", "terminal", "operational"}, tried : BOOLEAN, auto : BOOLEAN,
        human : {"none", "family", "config"}]

\* One ingest; what a search found for it is left open.
Shaped(i) ==
    /\ i = [at |-> i.at, left |-> i.left, cur |-> i.cur, existed |-> i.existed, fetch |-> i.fetch]
    /\ i.at \in {"idle", "videos", "fetch"} /\ i.cur \in Video \cup {NoVideo}
    /\ i.existed \in BOOLEAN /\ i.fetch \in BOOLEAN

\* Every variable but the families a bulk run has still to do.
TypeOK ==
    /\ row \in [Video -> Row]
    /\ job \in {"none", "bulk", "retry"}
    /\ queue \subseteq Video /\ rematch \subseteq Video /\ raced \subseteq Video
    /\ ing = [a \in Fetcher |-> ing[a]] /\ \A a \in Fetcher : Shaped(ing[a])
    /\ blocks \in [Fetcher -> Nat] /\ streak \in [Fetcher -> Nat]
    /\ edits \in 0..MaxEdits /\ events \in 0..MaxEvents

\* The guard counts what it saw, and whoever has a fetch before it has not been stopped.
Guarding(a) ==
    /\ streak[a] = blocks[a] /\ blocks[a] <= MaxBlocks
    /\ ing[a].at = "fetch" \/ ing[a].left # {} => blocks[a] < MaxBlocks
    /\ ing[a].at = "idle" => ing[a].left = {}
    /\ ing[a].at # "fetch" => ing[a].cur = NoVideo

GuardInv ==
    /\ \A a \in Fetcher : Guarding(a)
    /\ job # "bulk" => ing["job"].at = "idle"

\* While a decision about a review is in flight and nobody else has written its row, the
\* row is still one that such a decision is for.
Unchanged(v) ==
    v \notin raced =>
        /\ \A a \in Fetcher : ing[a].cur = v => row[v].status \in {"absent", "rejected"}
        /\ v \in queue => row[v].status \in {"pending", "rejected"}
        /\ v \in rematch => row[v].status = "pending"

\* A rejected review has no transcript.
Silent(v) == row[v].status = "rejected" => ~row[v].text

IngestInv ==
    /\ TypeOK /\ GuardInv
    /\ \A v \in Video : Unchanged(v) /\ Silent(v)

-----------------------------------------------------------------------------
(* Ingests, guards and rows.                                                  *)

\* The constants a step compares with.
LEMMA Bounds ==
    /\ MaxBlocks \in Nat /\ MaxBlocks > 0 /\ MaxEdits \in Nat /\ MaxEvents \in Nat
    /\ NoVideo \notin Video
  BY IngestAssumption DEF IngestAssumption

\* An ingest takes a step; the other one does not.
LEMMA OneIngest ==
    ASSUME TypeOK, NEW a \in Fetcher, NEW i, Shaped(i), ing' = [ing EXCEPT ![a] = i]
    PROVE  /\ ing' = [b \in Fetcher |-> ing'[b]] /\ \A b \in Fetcher : Shaped(ing[b])'
           /\ ing'[a] = i
           /\ \A b \in Fetcher \ {a} : ing'[b] = ing[b]
<1>1. ing = [b \in Fetcher |-> ing[b]] /\ \A b \in Fetcher : Shaped(ing[b])
  BY DEF TypeOK
<1>2. ing'[a] = i /\ \A b \in Fetcher \ {a} : ing'[b] = ing[b]
  BY <1>1
<1>3. ing' = [b \in Fetcher |-> ing'[b]]
  BY <1>1
<1>4. ASSUME NEW b \in Fetcher PROVE Shaped(ing'[b])
  <2>1. ing'[b] = ing[b] \/ ing'[b] = i
    BY <1>2
  <2> QED BY <1>1, <2>1
<1>5. \A b \in Fetcher : Shaped(ing[b])'
  BY <1>4 DEF Shaped
<1> QED BY <1>2, <1>3, <1>5

\* An ingest with one field changed.
LEMMA OneField ==
    ASSUME NEW i, i = [at |-> i.at, left |-> i.left, cur |-> i.cur, existed |-> i.existed,
                       fetch |-> i.fetch],
           NEW x
    PROVE  /\ [i EXCEPT !.at = x] = [at |-> x, left |-> i.left, cur |-> i.cur,
                                     existed |-> i.existed, fetch |-> i.fetch]
           /\ [i EXCEPT !.left = x] = [at |-> i.at, left |-> x, cur |-> i.cur,
                                       existed |-> i.existed, fetch |-> i.fetch]
           /\ [i EXCEPT !.cur = x] = [at |-> i.at, left |-> i.left, cur |-> x,
                                      existed |-> i.existed, fetch |-> i.fetch]
           /\ [i EXCEPT !.existed = x] = [at |-> i.at, left |-> i.left, cur |-> i.cur,
                                          existed |-> x, fetch |-> i.fetch]
           /\ [i EXCEPT !.fetch = x] = [at |-> i.at, left |-> i.left, cur |-> i.cur,
                                        existed |-> i.existed, fetch |-> x]
  OBVIOUS

\* A search that begins.
LEMMA SearchFields ==
    ASSUME NEW i, Shaped(i), NEW x, NEW y, NEW z
    PROVE  [i EXCEPT !.at = x, !.left = y, !.fetch = z] =
              [at |-> x, left |-> y, cur |-> i.cur, existed |-> i.existed, fetch |-> z]
<1>1. i = [at |-> i.at, left |-> i.left, cur |-> i.cur, existed |-> i.existed, fetch |-> i.fetch]
  BY DEF Shaped
<1>2. PICK g : g = [i EXCEPT !.at = x]
  OBVIOUS
<1>3. g = [at |-> x, left |-> i.left, cur |-> i.cur, existed |-> i.existed, fetch |-> i.fetch]
  BY <1>1, <1>2, OneField
<1>4. PICK h : h = [g EXCEPT !.left = y]
  OBVIOUS
<1>5. h = [at |-> x, left |-> y, cur |-> i.cur, existed |-> i.existed, fetch |-> i.fetch]
  BY <1>3, <1>4, OneField
<1>6. [h EXCEPT !.fetch = z] =
         [at |-> x, left |-> y, cur |-> i.cur, existed |-> i.existed, fetch |-> z]
  BY <1>5, OneField
<1> QED BY <1>2, <1>4, <1>6

\* A video whose fetch begins.
LEMMA ClaimFields ==
    ASSUME NEW i, Shaped(i), NEW x, NEW y, NEW z
    PROVE  [i EXCEPT !.at = x, !.cur = y, !.existed = z] =
              [at |-> x, left |-> i.left, cur |-> y, existed |-> z, fetch |-> i.fetch]
<1>1. i = [at |-> i.at, left |-> i.left, cur |-> i.cur, existed |-> i.existed, fetch |-> i.fetch]
  BY DEF Shaped
<1>2. PICK g : g = [i EXCEPT !.at = x]
  OBVIOUS
<1>3. g = [at |-> x, left |-> i.left, cur |-> i.cur, existed |-> i.existed, fetch |-> i.fetch]
  BY <1>1, <1>2, OneField
<1>4. PICK h : h = [g EXCEPT !.cur = y]
  OBVIOUS
<1>5. h = [at |-> x, left |-> i.left, cur |-> y, existed |-> i.existed, fetch |-> i.fetch]
  BY <1>3, <1>4, OneField
<1>6. [h EXCEPT !.existed = z] =
         [at |-> x, left |-> i.left, cur |-> y, existed |-> z, fetch |-> i.fetch]
  BY <1>5, OneField
<1> QED BY <1>2, <1>4, <1>6

\* A video that is saved.
LEMMA SaveFields ==
    ASSUME NEW i, Shaped(i), NEW x, NEW y, NEW z
    PROVE  [i EXCEPT !.at = x, !.cur = y, !.left = z] =
              [at |-> x, left |-> z, cur |-> y, existed |-> i.existed, fetch |-> i.fetch]
<1>1. i = [at |-> i.at, left |-> i.left, cur |-> i.cur, existed |-> i.existed, fetch |-> i.fetch]
  BY DEF Shaped
<1>2. PICK g : g = [i EXCEPT !.at = x]
  OBVIOUS
<1>3. g = [at |-> x, left |-> i.left, cur |-> i.cur, existed |-> i.existed, fetch |-> i.fetch]
  BY <1>1, <1>2, OneField
<1>4. PICK h : h = [g EXCEPT !.cur = y]
  OBVIOUS
<1>5. h = [at |-> x, left |-> i.left, cur |-> y, existed |-> i.existed, fetch |-> i.fetch]
  BY <1>3, <1>4, OneField
<1>6. [h EXCEPT !.left = z] =
         [at |-> x, left |-> z, cur |-> y, existed |-> i.existed, fetch |-> i.fetch]
  BY <1>5, OneField
<1> QED BY <1>2, <1>4, <1>6

\* The idle ingest is one.
LEMMA IdleShape ==
    /\ Shaped(NoIngest) /\ NoIngest.at = "idle" /\ NoIngest.left = {}
    /\ NoIngest.cur = NoVideo /\ NoIngest.existed = FALSE /\ NoIngest.fetch = TRUE
  BY DEF Shaped, NoIngest

\* A fetch that was not stopped leaves a guard that says how many were blocked in a row.
LEMMA FetchCounts ==
    ASSUME IngestInv, NEW a \in Fetcher, NEW outcome, Fetch(a, outcome), blocks[a] < MaxBlocks
    PROVE  /\ blocks' \in [Fetcher -> Nat] /\ streak' \in [Fetcher -> Nat]
           /\ streak'[a] = blocks'[a] /\ blocks'[a] <= MaxBlocks
           /\ Tripped(a)' <=> ~(blocks'[a] < MaxBlocks)
           /\ \A b \in Fetcher \ {a} : blocks'[b] = blocks[b] /\ streak'[b] = streak[b]
<1>1. blocks \in [Fetcher -> Nat] /\ streak \in [Fetcher -> Nat] /\ streak[a] = blocks[a]
  BY DEF IngestInv, TypeOK, GuardInv, Guarding
<1>2. blocks[a] \in Nat /\ blocks[a] + 1 \in Nat
  BY <1>1
<1>3. /\ blocks' = [blocks EXCEPT ![a] = IF outcome = "blocked" THEN blocks[a] + 1 ELSE 0]
      /\ streak' = [streak EXCEPT ![a] = IF outcome = "blocked" THEN blocks[a] + 1 ELSE 0]
  BY <1>1 DEF Fetch, Guarded
<1>4. blocks' \in [Fetcher -> Nat] /\ streak' \in [Fetcher -> Nat]
  BY <1>1, <1>2, <1>3
<1>5. /\ blocks'[a] = IF outcome = "blocked" THEN blocks[a] + 1 ELSE 0
      /\ streak'[a] = blocks'[a]
      /\ \A b \in Fetcher \ {a} : blocks'[b] = blocks[b] /\ streak'[b] = streak[b]
  BY <1>1, <1>3
<1>6. blocks'[a] <= MaxBlocks
  BY <1>2, <1>5, Bounds
<1>7. blocks'[a] \in Nat
  BY <1>4
<1>8. Tripped(a)' <=> ~(blocks'[a] < MaxBlocks)
  BY <1>7, Bounds DEF Tripped
<1> QED BY <1>4, <1>5, <1>6, <1>8

\* A run that begins has met no block.
LEMMA GuardIsNew ==
    ASSUME TypeOK, NEW a \in Fetcher, NewGuard(a)
    PROVE  /\ blocks' \in [Fetcher -> Nat] /\ streak' \in [Fetcher -> Nat]
           /\ streak'[a] = 0 /\ blocks'[a] = 0
           /\ \A b \in Fetcher \ {a} : blocks'[b] = blocks[b] /\ streak'[b] = streak[b]
  BY DEF TypeOK, NewGuard

\* A row that is written while nobody else decides about it leaves no decision outdated.
LEMMA HandsKept ==
    ASSUME IngestInv, raced \subseteq raced',
           \A u \in Video :
              /\ \A a \in Fetcher : ing'[a].cur = u => ing[a].cur = u
              /\ u \in queue' => u \in queue
              /\ u \in rematch' => u \in rematch,
           \A u \in Video :
              \/ row'[u] = row[u] \/ u \in raced'
              \/ (\A a \in Fetcher : ing'[a].cur # u) /\ u \notin queue' /\ u \notin rematch'
    PROVE  \A u \in Video : Unchanged(u)'
  BY DEF IngestInv, Unchanged

\* The write of one row by `who`, who has then done with it.
LEMMA WriteKeeps ==
    ASSUME IngestInv, NEW v \in Video, NEW who, NEW new, Write(who, v, new), new \in Row,
           new.status = "rejected" => ~new.text,
           \A u \in Video :
              /\ \A a \in Fetcher : ing'[a].cur = u => ing[a].cur = u
              /\ u \in queue' => u \in queue
              /\ u \in rematch' => u \in rematch,
           who \in Fetcher => ing'[who].cur # v,
           who = "retry" => v \notin queue',
           who = "rematch" => v \notin rematch'
    PROVE  /\ row' \in [Video -> Row] /\ raced' \subseteq Video
           /\ \A u \in Video : Unchanged(u)' /\ Silent(u)'
<1>1. row \in [Video -> Row] /\ row' = [row EXCEPT ![v] = new] /\ raced \subseteq Video
      /\ raced' = IF new # row[v] /\ Held(v) \ {who} # {} THEN raced \cup {v} ELSE raced
  BY DEF IngestInv, TypeOK, Write
<1>2. row'[v] = new /\ \A u \in Video \ {v} : row'[u] = row[u]
  BY <1>1
<1>3. \/ row'[v] = row[v] \/ v \in raced'
      \/ (\A a \in Fetcher : ing'[a].cur # v) /\ v \notin queue' /\ v \notin rematch'
  <2>1. CASE new = row[v]
    BY <1>2, <2>1
  <2>2. CASE new # row[v] /\ Held(v) \ {who} # {}
    <3>1. raced' = raced \cup {v}
      BY <1>1, <2>2
    <3> QED BY <3>1
  <2>3. CASE Held(v) \ {who} = {}
    <3>1. \A a \in Fetcher : ing[a].cur = v => a = who
      BY <2>3 DEF Held
    <3>2. (v \in queue => who = "retry") /\ (v \in rematch => who = "rematch")
      BY <2>3 DEF Held
    <3> QED BY <3>1, <3>2
  <2> QED BY <2>1, <2>2, <2>3
<1>4. \A u \in Video :
         \/ row'[u] = row[u] \/ u \in raced'
         \/ (\A a \in Fetcher : ing'[a].cur # u) /\ u \notin queue' /\ u \notin rematch'
  BY <1>2, <1>3
<1>5. \A u \in Video : Unchanged(u)'
  BY <1>1, <1>4, HandsKept
<1>6. \A u \in Video : Silent(u)'
  BY <1>2 DEF IngestInv, Silent
<1> QED BY <1>1, <1>5, <1>6

-----------------------------------------------------------------------------
(* The steps of an ingest.                                                    *)

\* Steps that touch no row and claim none.
LEMMA RowsKept ==
    ASSUME IngestInv, UNCHANGED <<row, raced>>,
           \A u \in Video :
              /\ \A a \in Fetcher : ing'[a].cur = u => ing[a].cur = u
              /\ u \in queue' => u \in queue
              /\ u \in rematch' => u \in rematch
    PROVE  \A u \in Video : Unchanged(u)' /\ Silent(u)'
  BY DEF IngestInv, Unchanged, Silent

\* A search begins an ingest, with a guard that has not tripped.
LEMMA DiscoverKeeps ==
    ASSUME IngestInv, NEW a \in Fetcher, NEW f, NEW fetch \in BOOLEAN, Discover(a, f, fetch),
           UNCHANGED <<row, job, queue, rematch, edits, raced>>,
           a = "job" => job = "bulk",
           events' \in 0..MaxEvents,
           blocks' \in [Fetcher -> Nat], streak' \in [Fetcher -> Nat],
           streak'[a] = blocks'[a], blocks'[a] < MaxBlocks,
           \A b \in Fetcher \ {a} : blocks'[b] = blocks[b] /\ streak'[b] = streak[b]
    PROVE  IngestInv'
<1>1. PICK found : ing' = [ing EXCEPT ![a] = [NoIngest EXCEPT !.at = "videos", !.left = found,
                                                              !.fetch = fetch]]
  BY DEF Discover
<1> DEFINE i == [at |-> "videos", left |-> found, cur |-> NoVideo, existed |-> FALSE,
                 fetch |-> fetch]
<1>2. [NoIngest EXCEPT !.at = "videos", !.left = found, !.fetch = fetch] = i
  <2>1. [NoIngest EXCEPT !.at = "videos", !.left = found, !.fetch = fetch] =
           [at |-> "videos", left |-> found, cur |-> NoIngest.cur,
            existed |-> NoIngest.existed, fetch |-> fetch]
    <3>1. \A x, y, z : [NoIngest EXCEPT !.at = x, !.left = y, !.fetch = z] =
             [at |-> x, left |-> y, cur |-> NoIngest.cur,
              existed |-> NoIngest.existed, fetch |-> z]
      BY IdleShape, SearchFields
    <3> QED BY <3>1
  <2> QED BY <2>1, IdleShape
<1>3. ing' = [ing EXCEPT ![a] = i] /\ Shaped(i)
  BY <1>1, <1>2 DEF Shaped
<1>4. /\ ing' = [b \in Fetcher |-> ing'[b]] /\ \A b \in Fetcher : Shaped(ing[b])'
      /\ ing'[a] = i
      /\ \A b \in Fetcher \ {a} : ing'[b] = ing[b]
  BY <1>3, OneIngest DEF IngestInv
<1>5. \A u \in Video : Unchanged(u)' /\ Silent(u)'
  <2>1. \A u \in Video : \A b \in Fetcher : ing'[b].cur = u => ing[b].cur = u
    BY <1>4, Bounds
  <2> QED BY <2>1, RowsKept
<1>6. TypeOK'
  BY <1>4 DEF IngestInv, TypeOK
<1>7. GuardInv'
  <2>1. Guarding(a)'
    <3>1. blocks'[a] <= MaxBlocks
      BY Bounds
    <3> QED BY <1>4, <3>1 DEF Guarding
  <2>2. \A b \in Fetcher \ {a} : Guarding(b)'
    BY <1>4 DEF IngestInv, GuardInv, Guarding
  <2>3. job' # "bulk" => ing'["job"].at = "idle"
    BY <1>4 DEF IngestInv, GuardInv, Fetcher
  <2> QED BY <2>1, <2>2, <2>3 DEF GuardInv
<1> QED BY <1>5, <1>6, <1>7 DEF IngestInv

\* A family's search and a request's.
LEMMA SearchKeeps ==
    ASSUME IngestInv, SearchFamily \/ \E f \in Family, fetch \in BOOLEAN : IngestLaptop(f, fetch)
    PROVE  IngestInv'
<1>1. CASE SearchFamily
  <2>1. "job" \in Fetcher /\ ing["job"].fetch \in BOOLEAN
    BY DEF IngestInv, TypeOK, Shaped, Fetcher
  <2>2. /\ blocks \in [Fetcher -> Nat] /\ streak \in [Fetcher -> Nat] /\ events \in 0..MaxEvents
        /\ streak["job"] = blocks["job"]
    BY <2>1 DEF IngestInv, TypeOK, GuardInv, Guarding
  <2>3. blocks["job"] < MaxBlocks
    <3>1. ~(blocks["job"] >= MaxBlocks) /\ blocks["job"] \in Nat
      BY <1>1, <2>1, <2>2 DEF SearchFamily, Tripped
    <3> QED BY <3>1, Bounds
  <2>4. /\ Discover("job", Head(todo), ing["job"].fetch) /\ job = "bulk"
        /\ UNCHANGED <<row, job, queue, blocks, rematch, edits, events, streak, raced>>
    BY <1>1 DEF SearchFamily, counters
  <2> QED BY <2>1, <2>2, <2>3, <2>4, DiscoverKeeps
<1>2. ASSUME NEW f \in Family, NEW fetch \in BOOLEAN, IngestLaptop(f, fetch)
      PROVE  IngestInv'
  <2>1. "request" \in Fetcher /\ NewGuard("request") /\ Discover("request", f, fetch)
        /\ UNCHANGED <<row, job, queue, rematch, edits, raced>>
    BY <1>2 DEF IngestLaptop, Fetcher
  <2>2. events' \in 0..MaxEvents
    BY <1>2, Bounds DEF IngestLaptop, IngestInv, TypeOK
  <2>3. 0 < MaxBlocks
    BY Bounds
  <2>4. /\ blocks' \in [Fetcher -> Nat] /\ streak' \in [Fetcher -> Nat]
        /\ streak'["request"] = 0 /\ blocks'["request"] = 0
        /\ \A b \in Fetcher \ {"request"} : blocks'[b] = blocks[b] /\ streak'[b] = streak[b]
    BY <2>1, GuardIsNew DEF IngestInv
  <2> QED BY <2>1, <2>2, <2>3, <2>4, DiscoverKeeps
<1> QED BY <1>1, <1>2

\* What a look-up leaves of the ingest.
Looks(a, v, i) ==
    /\ Shaped(i) /\ ing' = [ing EXCEPT ![a] = i] /\ i.at \in {"videos", "fetch"}
    /\ i.cur = ing[a].cur \/ (i.cur = v /\ ~SkipExisting(v, TRUE))
    /\ i.at = "videos" => i.cur = ing[a].cur

\* A look-up skips the video, or claims one that is new or was rejected.
LEMMA LookUpKeeps ==
    ASSUME IngestInv, NEW a \in Fetcher, NEW v \in Video, LookUp(a, v)
    PROVE  IngestInv'
<1>1. /\ ing[a].at = "videos" /\ ing[a].left # {} /\ Shaped(ing[a])
      /\ UNCHANGED <<row, job, queue, blocks, rematch, edits, events, streak, raced>>
  BY DEF LookUp, IngestInv, TypeOK, counters
<1>2. \E i : Looks(a, v, i)
  <2>1. CASE SkipExisting(v, TRUE)
    <3> DEFINE i == [at |-> "videos", left |-> ing[a].left \ {v}, cur |-> ing[a].cur,
                     existed |-> ing[a].existed, fetch |-> ing[a].fetch]
    <3>1. [ing[a] EXCEPT !.left = ing[a].left \ {v}] = i
      BY <1>1 DEF Shaped
    <3>2. ing' = [ing EXCEPT ![a] = [ing[a] EXCEPT !.left = ing[a].left \ {v}]]
      BY <2>1 DEF LookUp
    <3>3. Shaped(i)
      BY <1>1 DEF Shaped
    <3>4. Looks(a, v, i)
      BY <3>1, <3>2, <3>3 DEF Looks
    <3> QED BY <3>4
  <2>2. CASE ~SkipExisting(v, TRUE)
    <3> DEFINE i == [at |-> "fetch", left |-> ing[a].left, cur |-> v,
                     existed |-> Exists(v), fetch |-> ing[a].fetch]
    <3>1. [ing[a] EXCEPT !.at = "fetch", !.cur = v, !.existed = Exists(v)] = i
      <4>1. PICK e : e = Exists(v)
        OBVIOUS
      <4>2. \A x, y, z : [ing[a] EXCEPT !.at = x, !.cur = y, !.existed = z] =
               [at |-> x, left |-> ing[a].left, cur |-> y, existed |-> z,
                fetch |-> ing[a].fetch]
        BY <1>1, ClaimFields
      <4>3. [ing[a] EXCEPT !.at = "fetch", !.cur = v, !.existed = e] =
               [at |-> "fetch", left |-> ing[a].left, cur |-> v, existed |-> e,
                fetch |-> ing[a].fetch]
        BY <4>2
      <4> QED BY <4>1, <4>3
    <3>2. ing' = [ing EXCEPT ![a] = [ing[a] EXCEPT !.at = "fetch", !.cur = v,
                                                   !.existed = Exists(v)]]
      BY <2>2 DEF LookUp, IngestInv, TypeOK
    <3>3. Shaped(i)
      BY <1>1 DEF Shaped, Exists
    <3>4. Looks(a, v, i)
      BY <2>2, <3>1, <3>2, <3>3 DEF Looks
    <3> QED BY <3>4
  <2> QED BY <2>1, <2>2
<1>8. PICK i : Looks(a, v, i)
  BY <1>2
<1>3. /\ ing' = [b \in Fetcher |-> ing'[b]] /\ \A b \in Fetcher : Shaped(ing[b])'
      /\ ing'[a] = i
      /\ \A b \in Fetcher \ {a} : ing'[b] = ing[b]
  BY <1>8, OneIngest DEF IngestInv, Looks
<1>4. TypeOK'
  BY <1>1, <1>3 DEF IngestInv, TypeOK
<1>5. GuardInv'
  <2>1. Guarding(a)'
    BY <1>1, <1>8, <1>3 DEF IngestInv, GuardInv, Guarding, Looks
  <2>2. \A b \in Fetcher \ {a} : Guarding(b)'
    BY <1>1, <1>3 DEF IngestInv, GuardInv, Guarding
  <2>3. job' # "bulk" => ing'["job"].at = "idle"
    BY <1>1, <1>3 DEF IngestInv, GuardInv, Fetcher
  <2> QED BY <2>1, <2>2, <2>3 DEF GuardInv
<1>6. ~SkipExisting(v, TRUE) => row[v].status \in {"absent", "rejected"}
  BY DEF SkipExisting, Exists
<1>7. \A u \in Video : Unchanged(u)' /\ Silent(u)'
  <2>1. ASSUME NEW u \in Video, u \notin raced, NEW b \in Fetcher, ing'[b].cur = u
        PROVE  row[u].status \in {"absent", "rejected"}
    <3>1. ing[b].cur = u \/ (u = v /\ ~SkipExisting(v, TRUE))
      BY <1>8, <1>3, <2>1 DEF Looks
    <3> QED BY <1>6, <2>1, <3>1 DEF IngestInv, Unchanged
  <2> QED BY <1>1, <2>1 DEF IngestInv, Unchanged, Silent
<1> QED BY <1>4, <1>5, <1>7 DEF IngestInv

\* The fetch and its write: the guard has counted it, and the claim is over.
LEMMA SaveKeeps ==
    ASSUME IngestInv, NEW a \in Fetcher, NEW v \in Video, FetchAndSave(a, v)
    PROVE  IngestInv'
<1>1. /\ ing[a].at = "fetch" /\ ing[a].cur = v /\ Shaped(ing[a]) /\ blocks[a] < MaxBlocks
      /\ UNCHANGED <<job, queue, rematch, edits, events>>
  BY DEF FetchAndSave, IngestInv, TypeOK, GuardInv, Guarding, counters
<1>2. PICK outcome \in Answers(v) :
          /\ Fetch(a, outcome)
          /\ IF ing[a].existed \/ ~Exists(v)
             THEN Write(a, v, Ingested(v, outcome, row[v]))
             ELSE UNCHANGED <<row, raced>>
          /\ ing' = [ing EXCEPT ![a].at = "videos", ![a].cur = NoVideo,
                                ![a].left = IF (~ing[a].existed /\ Exists(v)) \/ Tripped(a)'
                                            THEN {} ELSE @ \ {v}]
  BY DEF FetchAndSave
<1>3. PICK l : l = IF (~ing[a].existed /\ Exists(v)) \/ Tripped(a)' THEN {}
                   ELSE ing[a].left \ {v}
  OBVIOUS
<1> DEFINE i == [at |-> "videos", left |-> l, cur |-> NoVideo, existed |-> ing[a].existed,
                 fetch |-> ing[a].fetch]
<1>4. Shaped(i)
  BY <1>1 DEF Shaped
<1>5. ing' = [ing EXCEPT ![a] = i]
  <2>1. ing' = [ing EXCEPT ![a] = [ing[a] EXCEPT !.at = "videos", !.cur = NoVideo, !.left = l]]
    BY <1>2, <1>3 DEF IngestInv, TypeOK
  <2>2. \A x, y, z : [ing[a] EXCEPT !.at = x, !.cur = y, !.left = z] =
           [at |-> x, left |-> z, cur |-> y, existed |-> ing[a].existed, fetch |-> ing[a].fetch]
    BY <1>1, SaveFields
  <2>3. [ing[a] EXCEPT !.at = "videos", !.cur = NoVideo, !.left = l] = i
    BY <2>2
  <2> QED BY <2>1, <2>3
<1>6. /\ ing' = [b \in Fetcher |-> ing'[b]] /\ \A b \in Fetcher : Shaped(ing[b])'
      /\ ing'[a] = i
      /\ \A b \in Fetcher \ {a} : ing'[b] = ing[b]
  BY <1>4, <1>5, OneIngest DEF IngestInv
<1>7. /\ blocks' \in [Fetcher -> Nat] /\ streak' \in [Fetcher -> Nat]
      /\ streak'[a] = blocks'[a] /\ blocks'[a] <= MaxBlocks
      /\ Tripped(a)' <=> ~(blocks'[a] < MaxBlocks)
      /\ \A b \in Fetcher \ {a} : blocks'[b] = blocks[b] /\ streak'[b] = streak[b]
  BY <1>1, <1>2, FetchCounts
<1>8. GuardInv'
  <2>1. l # {} => blocks'[a] < MaxBlocks
    BY <1>3, <1>7
  <2>2. Guarding(a)'
    BY <1>6, <1>7, <2>1 DEF Guarding
  <2>3. \A b \in Fetcher \ {a} : Guarding(b)'
    BY <1>6, <1>7 DEF IngestInv, GuardInv, Guarding
  <2>4. job' # "bulk" => ing'["job"].at = "idle"
    BY <1>1, <1>6 DEF IngestInv, GuardInv, Fetcher
  <2> QED BY <2>2, <2>3, <2>4 DEF GuardInv
<1>9. \A u \in Video :
         /\ \A b \in Fetcher : ing'[b].cur = u => ing[b].cur = u
         /\ u \in queue' => u \in queue
         /\ u \in rematch' => u \in rematch
  BY <1>1, <1>6, Bounds
<1>10. /\ row' \in [Video -> Row] /\ raced' \subseteq Video
       /\ \A u \in Video : Unchanged(u)' /\ Silent(u)'
  <2>1. CASE Write(a, v, Ingested(v, outcome, row[v]))
    <3>1. /\ Ingested(v, outcome, row[v]) \in Row
          /\ Ingested(v, outcome, row[v]).status = "rejected" =>
                ~Ingested(v, outcome, row[v]).text
      <4>1. row[v] \in Row /\ Linkable(v) \in BOOLEAN /\ Matches(v) \in BOOLEAN
        BY DEF IngestInv, TypeOK, Linkable, Matches
      <4>2. ReasonOf(outcome) \in {"none", "terminal", "operational"}
        BY DEF ReasonOf
      <4>3. row[v].auto \in BOOLEAN /\ row[v].human \in {"none", "family", "config"}
        BY <4>1 DEF Row
      <4> QED BY <4>1, <4>2, <4>3 DEF Ingested, Row
    <3>2. ing'[a].cur # v /\ a # "retry" /\ a # "rematch"
      BY <1>6, Bounds DEF Fetcher
    <3> QED BY <1>9, <2>1, <3>1, <3>2, WriteKeeps
  <2>2. CASE UNCHANGED <<row, raced>>
    BY <1>9, <2>2, RowsKept DEF IngestInv, TypeOK
  <2> QED BY <1>2, <2>1, <2>2
<1>11. TypeOK'
  BY <1>1, <1>6, <1>7, <1>10 DEF IngestInv, TypeOK
<1> QED BY <1>8, <1>10, <1>11 DEF IngestInv

\* A discovery-only run touches no row that exists.
LEMMA RecordKeeps ==
    ASSUME IngestInv, NEW a \in Fetcher, RecordAll(a)
    PROVE  IngestInv'
<1>1. /\ ing[a].at = "videos" /\ ing[a].left # {} /\ Shaped(ing[a]) /\ ing[a].cur = NoVideo
      /\ UNCHANGED <<job, queue, blocks, rematch, edits, events, streak>>
      /\ ing' = [ing EXCEPT ![a].left = {}]
      /\ row' = [v \in Video |->
                   IF v \in ing[a].left /\ ~SkipExisting(v, FALSE) THEN Deferred(v) ELSE row[v]]
      /\ raced' = raced \cup {v \in Video : row'[v] # row[v] /\ Held(v) \ {a} # {}}
  BY DEF RecordAll, IngestInv, TypeOK, GuardInv, Guarding, counters
<1> DEFINE i == [at |-> "videos", left |-> {}, cur |-> NoVideo, existed |-> ing[a].existed,
                 fetch |-> ing[a].fetch]
<1>2. Shaped(i)
  BY <1>1 DEF Shaped
<1>3. ing' = [ing EXCEPT ![a] = i]
  <2>1. [ing[a] EXCEPT !.left = {}] = i
    BY <1>1 DEF Shaped
  <2>2. ing' = [ing EXCEPT ![a] = [ing[a] EXCEPT !.left = {}]]
    BY <1>1
  <2> QED BY <2>1, <2>2
<1>4. /\ ing' = [b \in Fetcher |-> ing'[b]] /\ \A b \in Fetcher : Shaped(ing[b])'
      /\ ing'[a] = i
      /\ \A b \in Fetcher \ {a} : ing'[b] = ing[b]
  BY <1>2, <1>3, OneIngest DEF IngestInv
<1>5. ASSUME NEW v \in Video
      PROVE  /\ Deferred(v) \in Row /\ Deferred(v).status = "pending"
             /\ row'[v] = row[v] \/ row'[v] = Deferred(v)
  <2>1. Linkable(v) \in BOOLEAN
    BY DEF Linkable
  <2> QED BY <1>1, <2>1 DEF Deferred, Row
<1>6. row' \in [Video -> Row] /\ raced' \subseteq Video /\ raced \subseteq raced'
  <2>1. \A v \in Video : row'[v] \in Row
    BY <1>5 DEF IngestInv, TypeOK
  <2>2. row' = [v \in Video |-> row'[v]]
    BY <1>1
  <2> QED BY <1>1, <2>1, <2>2 DEF IngestInv, TypeOK
<1>7. \A u \in Video :
         /\ \A b \in Fetcher : ing'[b].cur = u => ing[b].cur = u
         /\ u \in queue' => u \in queue
         /\ u \in rematch' => u \in rematch
  BY <1>1, <1>4
<1>8. ASSUME NEW u \in Video
      PROVE  \/ row'[u] = row[u] \/ u \in raced'
             \/ (\A b \in Fetcher : ing'[b].cur # u) /\ u \notin queue' /\ u \notin rematch'
  <2>1. CASE Held(u) \ {a} # {}
    BY <1>1, <2>1
  <2>2. CASE Held(u) \ {a} = {}
    <3>1. (\A b \in Fetcher : ing[b].cur = u => b = a) /\ u \notin queue /\ u \notin rematch
      BY <2>2 DEF Held, Fetcher
    <3>2. ing'[a].cur # u
      BY <1>4, Bounds
    <3>3. \A b \in Fetcher : ing'[b].cur # u
      BY <1>4, <3>1, <3>2
    <3>4. u \notin queue' /\ u \notin rematch'
      BY <1>1, <3>1
    <3> QED BY <3>3, <3>4
  <2> QED BY <2>1, <2>2
<1>9. \A u \in Video : Unchanged(u)'
  BY <1>6, <1>7, <1>8, HandsKept
<1>10. \A u \in Video : Silent(u)'
  BY <1>5 DEF IngestInv, Silent
<1>11. TypeOK'
  BY <1>1, <1>4, <1>6 DEF IngestInv, TypeOK
<1>12. GuardInv'
  BY <1>1, <1>4 DEF IngestInv, GuardInv, Guarding, Fetcher
<1> QED BY <1>9, <1>10, <1>11, <1>12 DEF IngestInv

\* Who stops: an ingest, a family, a job, the process.
LEMMA StopsKeep ==
    ASSUME IngestInv,
           LaptopDone \/ FamilyDone \/ BulkDone \/ RetryDone \/ Cancelled \/ Crash
    PROVE  IngestInv'
<1>1. UNCHANGED <<row, blocks, streak, edits, raced>>
  BY DEF LaptopDone, FamilyDone, BulkDone, RetryDone, Cancelled, Crash, counters
<1>2. /\ job' \in {"none", "bulk", "retry"}
      /\ queue' \subseteq queue /\ rematch' \subseteq rematch
  BY DEF LaptopDone, FamilyDone, BulkDone, RetryDone, Cancelled, Crash, IngestInv, TypeOK
<1>3. events' \in 0..MaxEvents
  BY Bounds DEF LaptopDone, FamilyDone, BulkDone, RetryDone, Cancelled, Crash, counters,
                IngestInv, TypeOK
<1>4. \E a \in Fetcher, fetch \in BOOLEAN :
         \/ ing' = ing
         \/ ing' = [ing EXCEPT ![a] = [NoIngest EXCEPT !.fetch = fetch]]
         \/ ing' = [b \in Fetcher |-> NoIngest]
  <2>1. ASSUME NEW a \in Fetcher
        PROVE  [ing EXCEPT ![a] = NoIngest] = [ing EXCEPT ![a] = [NoIngest EXCEPT !.fetch = TRUE]]
    BY OneField, IdleShape DEF Shaped
  <2>2. ing["job"].fetch \in BOOLEAN
    BY DEF IngestInv, TypeOK, Shaped, Fetcher
  <2>3. CASE ing' = ing \/ ing' = [b \in Fetcher |-> NoIngest]
    BY <2>3 DEF Fetcher
  <2>4. CASE FamilyDone
    BY <2>2, <2>4 DEF FamilyDone, Fetcher
  <2>5. ASSUME NEW a \in Fetcher, ing' = [ing EXCEPT ![a] = NoIngest]
        PROVE  ing' = [ing EXCEPT ![a] = [NoIngest EXCEPT !.fetch = TRUE]]
    BY <2>1, <2>5
  <2>6. CASE LaptopDone \/ BulkDone \/ Cancelled
    BY <2>5, <2>6 DEF LaptopDone, BulkDone, Cancelled, Fetcher
  <2> QED BY <2>3, <2>4, <2>6 DEF RetryDone, Crash
<1>5. ASSUME NEW b \in Fetcher
      PROVE  \/ ing'[b] = ing[b]
             \/ Shaped(ing'[b]) /\ ing'[b].at = "idle" /\ ing'[b].left = {} /\ ing'[b].cur = NoVideo
  <2>1. ASSUME NEW fetch \in BOOLEAN, NEW i, i = [NoIngest EXCEPT !.fetch = fetch]
        PROVE  Shaped(i) /\ i.at = "idle" /\ i.left = {} /\ i.cur = NoVideo
    <3>1. i = [at |-> NoIngest.at, left |-> NoIngest.left, cur |-> NoIngest.cur,
               existed |-> NoIngest.existed, fetch |-> fetch]
      BY <2>1, IdleShape, OneField DEF Shaped
    <3> QED BY <3>1, IdleShape DEF Shaped
  <2> QED BY <1>4, <2>1, IdleShape DEF IngestInv, TypeOK
<1>6. ing' = [b \in Fetcher |-> ing'[b]]
  BY <1>4 DEF IngestInv, TypeOK
<1>7. \A b \in Fetcher : Shaped(ing[b])'
  BY <1>5 DEF IngestInv, TypeOK, Shaped
<1>8. \A u \in Video : Unchanged(u)' /\ Silent(u)'
  <2>1. \A u \in Video : \A b \in Fetcher : ing'[b].cur = u => ing[b].cur = u
    BY <1>5, Bounds
  <2> QED BY <1>1, <1>2, <2>1, RowsKept
<1>9. \A b \in Fetcher : Guarding(b)'
  BY <1>1, <1>5 DEF IngestInv, GuardInv, Guarding
<1>10. job' # "bulk" => ing'["job"].at = "idle"
  <2>1. "job" \in Fetcher
    BY DEF Fetcher
  <2>2. CASE job' = job
    BY <1>5, <2>1, <2>2 DEF IngestInv, GuardInv
  <2>3. CASE job = "retry"
    BY <1>5, <2>1, <2>3 DEF IngestInv, GuardInv
  <2>4. CASE BulkDone \/ Cancelled \/ Crash
    BY <2>1, <2>4, IdleShape DEF BulkDone, Cancelled, Crash, IngestInv, TypeOK
  <2> QED BY <2>2, <2>3, <2>4 DEF LaptopDone, FamilyDone, RetryDone
<1>11. TypeOK'
  BY <1>1, <1>2, <1>3, <1>6, <1>7 DEF IngestInv, TypeOK
<1> QED BY <1>8, <1>9, <1>10, <1>11 DEF IngestInv, GuardInv

\* Jobs begin with nothing at work under them; what they and a rematch read is as they need.
LEMMA BeginKeeps ==
    ASSUME IngestInv,
           RetryTranscripts \/ RematchRead \/ \E fetch \in BOOLEAN : IngestBulk(fetch)
    PROVE  IngestInv'
<1>1. CASE RetryTranscripts
  <2>1. /\ job = "none" /\ job' = "retry" /\ queue' = Candidates /\ NewGuard("job")
        /\ UNCHANGED <<row, ing, rematch, edits, events, raced>>
    BY <1>1 DEF RetryTranscripts, counters
  <2>2. \A v \in Candidates : v \in Video /\ row[v].status \in {"pending", "rejected"}
    BY DEF Candidates, RetryCandidate, Seen
  <2>3. "job" \in Fetcher /\ 0 <= MaxBlocks /\ 0 < MaxBlocks
    BY Bounds DEF Fetcher
  <2>4. /\ blocks' \in [Fetcher -> Nat] /\ streak' \in [Fetcher -> Nat]
        /\ streak'["job"] = 0 /\ blocks'["job"] = 0
        /\ \A b \in Fetcher \ {"job"} : blocks'[b] = blocks[b] /\ streak'[b] = streak[b]
    BY <2>1, <2>3, GuardIsNew DEF IngestInv
  <2>5. TypeOK'
    <3>1. ing' = [a \in Fetcher |-> ing'[a]] /\ \A a \in Fetcher : Shaped(ing[a])'
      BY <2>1 DEF IngestInv, TypeOK, Shaped
    <3> QED BY <2>1, <2>2, <2>4, <3>1 DEF IngestInv, TypeOK
  <2>6. \A b \in Fetcher : Guarding(b)'
    BY <2>1, <2>3, <2>4 DEF IngestInv, GuardInv, Guarding
  <2>7. \A u \in Video : Unchanged(u)' /\ Silent(u)'
    BY <2>1, <2>2 DEF IngestInv, Unchanged, Silent
  <2> QED BY <2>1, <2>5, <2>6, <2>7 DEF IngestInv, GuardInv
<1>2. CASE RematchRead
  <2>1. UNCHANGED <<row, job, queue, ing, blocks, edits, events, streak, raced>>
    BY <1>2 DEF RematchRead, counters
  <2>2. rematch' \subseteq Video /\ \A v \in rematch' : row[v].status = "pending"
    BY <1>2 DEF RematchRead
  <2>3. TypeOK'
    <3>1. ing' = [a \in Fetcher |-> ing'[a]] /\ \A a \in Fetcher : Shaped(ing[a])'
      BY <2>1 DEF IngestInv, TypeOK, Shaped
    <3> QED BY <2>1, <2>2, <3>1 DEF IngestInv, TypeOK
  <2>4. GuardInv'
    BY <2>1 DEF IngestInv, GuardInv, Guarding
  <2>5. \A u \in Video : Unchanged(u)' /\ Silent(u)'
    BY <2>1, <2>2 DEF IngestInv, Unchanged, Silent
  <2> QED BY <2>3, <2>4, <2>5 DEF IngestInv
<1>3. ASSUME NEW fetch \in BOOLEAN, IngestBulk(fetch) PROVE IngestInv'
  <2>1. /\ job = "none" /\ job' = "bulk" /\ NewGuard("job")
        /\ ing' = [ing EXCEPT !["job"].fetch = fetch]
        /\ UNCHANGED <<row, queue, rematch, edits, events, raced>>
    BY <1>3 DEF IngestBulk, counters
  <2>2. "job" \in Fetcher /\ Shaped(ing["job"]) /\ 0 <= MaxBlocks
    BY Bounds DEF Fetcher, IngestInv, TypeOK
  <2>3. ing["job"].at = "idle" /\ ing["job"].left = {} /\ ing["job"].cur = NoVideo
    BY <2>1, <2>2 DEF IngestInv, GuardInv, Guarding
  <2> DEFINE i == [at |-> ing["job"].at, left |-> ing["job"].left, cur |-> ing["job"].cur,
                   existed |-> ing["job"].existed, fetch |-> fetch]
  <2>4. ing' = [ing EXCEPT !["job"] = i]
    <3>1. [ing["job"] EXCEPT !.fetch = fetch] = i
      BY <2>2, OneField DEF Shaped
    <3>2. ing' = [ing EXCEPT !["job"] = [ing["job"] EXCEPT !.fetch = fetch]]
      BY <2>1
    <3> QED BY <3>1, <3>2
  <2>5. Shaped(i)
    BY <2>2 DEF Shaped
  <2>6. /\ ing' = [b \in Fetcher |-> ing'[b]] /\ \A b \in Fetcher : Shaped(ing[b])'
        /\ ing'["job"] = i
        /\ \A b \in Fetcher \ {"job"} : ing'[b] = ing[b]
    BY <2>2, <2>4, <2>5, OneIngest DEF IngestInv
  <2>7. /\ blocks' \in [Fetcher -> Nat] /\ streak' \in [Fetcher -> Nat]
        /\ streak'["job"] = 0 /\ blocks'["job"] = 0
        /\ \A b \in Fetcher \ {"job"} : blocks'[b] = blocks[b] /\ streak'[b] = streak[b]
    BY <2>1, <2>2, GuardIsNew DEF IngestInv
  <2>8. TypeOK'
    BY <2>1, <2>6, <2>7 DEF IngestInv, TypeOK
  <2>9. Guarding("job")'
    BY <2>2, <2>3, <2>6, <2>7 DEF Guarding
  <2>10. \A b \in Fetcher \ {"job"} : Guarding(b)'
    BY <2>6, <2>7 DEF IngestInv, GuardInv, Guarding
  <2>11. \A u \in Video : Unchanged(u)' /\ Silent(u)'
    <3>1. \A u \in Video : \A b \in Fetcher : ing'[b].cur = u => ing[b].cur = u
      BY <2>3, <2>6
    <3> QED BY <2>1, <3>1, RowsKept
  <2> QED BY <2>1, <2>8, <2>9, <2>10, <2>11 DEF IngestInv, GuardInv
<1> QED BY <1>1, <1>2, <1>3

-----------------------------------------------------------------------------
(* Retries, rematches and humans.                                             *)

\* One retried row: it was pending or rejected, whatever it is by now.
LEMMA RetryKeeps ==
    ASSUME IngestInv, NEW v \in Video, NEW outcome \in Answers(v), RetryOne(v, outcome)
    PROVE  IngestInv'
<1>1. /\ job = "retry" /\ v \in queue /\ "job" \in Fetcher /\ Fetch("job", outcome)
      /\ Write("retry", v, Retried(outcome, row[v])) /\ queue' = queue \ {v}
      /\ UNCHANGED <<job, ing, rematch, edits, events>>
  BY DEF RetryOne, counters, Fetcher
<1>2. blocks["job"] < MaxBlocks
  <2>1. ~(blocks["job"] >= MaxBlocks) /\ blocks["job"] \in Nat
    BY <1>1 DEF RetryOne, Tripped, IngestInv, TypeOK
  <2> QED BY <2>1, Bounds
<1>3. /\ blocks' \in [Fetcher -> Nat] /\ streak' \in [Fetcher -> Nat]
      /\ streak'["job"] = blocks'["job"] /\ blocks'["job"] <= MaxBlocks
      /\ \A b \in Fetcher \ {"job"} : blocks'[b] = blocks[b] /\ streak'[b] = streak[b]
  BY <1>1, <1>2, FetchCounts
<1>4. /\ Retried(outcome, row[v]) \in Row
      /\ Retried(outcome, row[v]).status = "rejected" => ~Retried(outcome, row[v]).text
  <2>1. row[v] \in Row /\ (row[v].status = "rejected" => ~row[v].text)
    BY DEF IngestInv, TypeOK, Silent
  <2>2. ReasonOf(outcome) \in {"none", "terminal", "operational"}
    BY DEF ReasonOf
  <2> QED BY <2>1, <2>2 DEF Retried, Row
<1>5. \A u \in Video :
         /\ \A b \in Fetcher : ing'[b].cur = u => ing[b].cur = u
         /\ u \in queue' => u \in queue
         /\ u \in rematch' => u \in rematch
  BY <1>1
<1>6. row' \in [Video -> Row] /\ raced' \subseteq Video
      /\ \A u \in Video : Unchanged(u)' /\ Silent(u)'
  BY <1>1, <1>4, <1>5, WriteKeeps DEF Fetcher
<1>7. ing' = [b \in Fetcher |-> ing'[b]] /\ \A b \in Fetcher : Shaped(ing[b])'
  BY <1>1 DEF IngestInv, TypeOK, Shaped
<1>8. TypeOK'
  BY <1>1, <1>3, <1>6, <1>7 DEF IngestInv, TypeOK
<1>9. Guarding("job")' /\ \A b \in Fetcher \ {"job"} : Guarding(b)'
  BY <1>1, <1>3 DEF IngestInv, GuardInv, Guarding
<1> QED BY <1>1, <1>6, <1>8, <1>9 DEF IngestInv, GuardInv

\* A rematch commits what it read.
LEMMA RematchKeeps ==
    ASSUME IngestInv, Rematch
    PROVE  IngestInv'
<1>1. /\ UNCHANGED <<job, queue, ing, blocks, edits, events, streak>> /\ rematch' = {}
      /\ row' = [v \in Video |-> IF v \in rematch
                                 THEN [row[v] EXCEPT !.status = "matched", !.auto = TRUE]
                                 ELSE row[v]]
      /\ raced' = raced \cup {v \in rematch : row'[v] # row[v] /\ Held(v) \ {"rematch"} # {}}
  BY DEF Rematch, counters
<1>2. ASSUME NEW v \in Video
      PROVE  row'[v] \in Row /\ (row'[v].status = "rejected" => ~row'[v].text)
  <2>1. row[v] \in Row /\ (row[v].status = "rejected" => ~row[v].text)
    BY DEF IngestInv, TypeOK, Silent
  <2> QED BY <1>1, <2>1 DEF Row
<1>3. row' \in [Video -> Row] /\ raced' \subseteq Video /\ raced \subseteq raced'
  BY <1>1, <1>2 DEF IngestInv, TypeOK
<1>4. ASSUME NEW u \in Video
      PROVE  \/ row'[u] = row[u] \/ u \in raced'
             \/ (\A b \in Fetcher : ing'[b].cur # u) /\ u \notin queue' /\ u \notin rematch'
  <2>1. CASE u \in rematch /\ Held(u) \ {"rematch"} = {}
    <3>1. (\A b \in Fetcher : ing[b].cur # u) /\ u \notin queue
      BY <2>1 DEF Held, Fetcher
    <3> QED BY <1>1, <3>1
  <2>2. CASE u \notin rematch \/ Held(u) \ {"rematch"} # {}
    BY <1>1, <2>2
  <2> QED BY <2>1, <2>2
<1>5. \A u \in Video : Unchanged(u)'
  BY <1>1, <1>3, <1>4, HandsKept
<1>6. \A u \in Video : Silent(u)'
  BY <1>2 DEF Silent
<1>7. ing' = [b \in Fetcher |-> ing'[b]] /\ \A b \in Fetcher : Shaped(ing[b])'
  BY <1>1 DEF IngestInv, TypeOK, Shaped
<1>8. TypeOK'
  BY <1>1, <1>3, <1>7 DEF IngestInv, TypeOK
<1>9. GuardInv'
  BY <1>1 DEF IngestInv, GuardInv, Guarding
<1> QED BY <1>5, <1>6, <1>8, <1>9 DEF IngestInv

\* A human's decision writes one existing row, and only a status a human may set.
LEMMA EditIsTyped ==
    ASSUME TypeOK, Human
    PROVE  \E v \in Video : \E new \in Row :
              Edit(v, new)
                 /\ (new.status = "rejected" => row[v].status = "rejected" /\ new.text = row[v].text)
<1>1. PICK v \in Video : \/ SetIrrelevant(v) \/ DeleteLink(v)
                         \/ \E level \in {"family", "config"} : CreateLink(v, level)
                                                                 \/ ManualMatch(v, level)
  BY DEF Human
<1>2. row[v] \in Row
  BY DEF TypeOK
<1>3. CASE SetIrrelevant(v)
  <2> DEFINE new == [row[v] EXCEPT !.status = IF @ = "pending" THEN "irrelevant" ELSE "pending"]
  <2>1. new \in Row /\ new.status # "rejected"
    BY <1>2 DEF Row
  <2>2. Edit(v, new)
    BY <1>3 DEF SetIrrelevant
  <2> QED BY <2>1, <2>2
<1>4. CASE DeleteLink(v)
  <2>1. CASE Edit(v, [row[v] EXCEPT !.auto = FALSE])
    <3>1. [row[v] EXCEPT !.auto = FALSE] \in Row
      BY <1>2 DEF Row
    <3>2. [row[v] EXCEPT !.auto = FALSE].status = row[v].status
          /\ [row[v] EXCEPT !.auto = FALSE].text = row[v].text
      BY <1>2 DEF Row
    <3> QED BY <2>1, <3>1, <3>2
  <2>2. CASE Edit(v, [row[v] EXCEPT !.human = "none"])
    <3>1. [row[v] EXCEPT !.human = "none"] \in Row
      BY <1>2 DEF Row
    <3>2. [row[v] EXCEPT !.human = "none"].status = row[v].status
          /\ [row[v] EXCEPT !.human = "none"].text = row[v].text
      BY <1>2 DEF Row
    <3> QED BY <2>2, <3>1, <3>2
  <2> QED BY <1>4, <2>1, <2>2 DEF DeleteLink
<1>5. ASSUME NEW level \in {"family", "config"}, CreateLink(v, level)
      PROVE  \E new \in Row : Edit(v, new) /\ (new.status = "rejected" =>
                 row[v].status = "rejected" /\ new.text = row[v].text)
  <2> DEFINE new == [row[v] EXCEPT !.human = level,
                              !.status = IF @ = "pending" THEN "matched" ELSE @]
  <2>1. new \in Row /\ new.text = row[v].text
        /\ (new.status = "rejected" => row[v].status = "rejected")
    BY <1>2 DEF Row
  <2>2. Edit(v, new)
    BY <1>5 DEF CreateLink
  <2> QED BY <2>1, <2>2
<1>6. ASSUME NEW level \in {"family", "config"}, ManualMatch(v, level)
      PROVE  \E new \in Row : Edit(v, new) /\ (new.status = "rejected" =>
                 row[v].status = "rejected" /\ new.text = row[v].text)
  <2> DEFINE new == [row[v] EXCEPT !.human = level,
                              !.status = IF @ = "pending" \/ level = "config"
                                         THEN "matched" ELSE @]
  <2>1. new \in Row /\ new.text = row[v].text
        /\ (new.status = "rejected" => row[v].status = "rejected")
    BY <1>2 DEF Row
  <2>2. Edit(v, new)
    BY <1>6 DEF ManualMatch
  <2> QED BY <2>1, <2>2
<1> QED BY <1>1, <1>3, <1>4, <1>5, <1>6

\* A human's decision outdates the decisions in flight, and is counted.
LEMMA HumanKeeps ==
    ASSUME IngestInv, Human
    PROVE  IngestInv' /\ edits' # edits
<1>1. PICK v \in Video, new \in Row :
         Edit(v, new)
            /\ (new.status = "rejected" => row[v].status = "rejected" /\ new.text = row[v].text)
  BY EditIsTyped DEF IngestInv
<1>2. /\ Write("human", v, new) /\ edits < MaxEdits /\ edits' = edits + 1
      /\ UNCHANGED <<job, queue, ing, blocks, rematch, events, streak>>
  BY <1>1 DEF Edit
<1>3. edits' \in 0..MaxEdits /\ edits' # edits
  BY <1>2, Bounds DEF IngestInv, TypeOK
<1>4. new.status = "rejected" => ~new.text
  BY <1>1 DEF IngestInv, Silent
<1>5. row' \in [Video -> Row] /\ raced' \subseteq Video
      /\ \A u \in Video : Unchanged(u)' /\ Silent(u)'
  BY <1>2, <1>4, WriteKeeps DEF Fetcher
<1>6. ing' = [b \in Fetcher |-> ing'[b]] /\ \A b \in Fetcher : Shaped(ing[b])'
  BY <1>2 DEF IngestInv, TypeOK, Shaped
<1>7. TypeOK'
  BY <1>2, <1>3, <1>5, <1>6 DEF IngestInv, TypeOK
<1>8. GuardInv'
  BY <1>2 DEF IngestInv, GuardInv, Guarding
<1> QED BY <1>3, <1>5, <1>7, <1>8 DEF IngestInv

-----------------------------------------------------------------------------
(* The invariant.                                                             *)

\* Nothing is found yet, and nothing at work.
LEMMA IngestInit ==
    ASSUME Init
    PROVE  IngestInv
<1>1. NoRow \in Row /\ NoRow.status = "absent"
  BY DEF NoRow, Row
<1>2. \A a \in Fetcher : ing[a] = NoIngest /\ blocks[a] = 0 /\ streak[a] = 0
  BY DEF Init
<1>3. TypeOK
  BY <1>1, IdleShape, Bounds DEF Init, TypeOK
<1>4. GuardInv
  BY <1>2, IdleShape, Bounds DEF Init, GuardInv, Guarding, Fetcher
<1>5. \A v \in Video : row[v] = NoRow
  BY DEF Init
<1>6. \A v \in Video : Unchanged(v) /\ Silent(v)
  BY <1>1, <1>2, <1>5, IdleShape DEF Init, Unchanged, Silent
<1> QED BY <1>3, <1>4, <1>6 DEF IngestInv

\* Every step keeps it.
LEMMA IngestStep ==
    ASSUME IngestInv, [Next]_vars
    PROVE  IngestInv'
<1>1. "job" \in Fetcher /\ "request" \in Fetcher
  BY DEF Fetcher
<1>2. ASSUME NEW a \in Fetcher, Ingesting(a) PROVE IngestInv'
  BY <1>2, LookUpKeeps, SaveKeeps, RecordKeeps DEF Ingesting
<1>3. CASE Working
  BY <1>1, <1>2, <1>3, SearchKeeps, StopsKeep, RetryKeeps DEF Working
<1>4. CASE UNCHANGED vars
  <2>1. UNCHANGED <<row, job, queue, ing, blocks, rematch, edits, events, streak, raced>>
    BY <1>4 DEF vars, counters
  <2>2. ing' = [b \in Fetcher |-> ing'[b]] /\ \A b \in Fetcher : Shaped(ing[b])'
    BY <2>1 DEF IngestInv, TypeOK, Shaped
  <2>3. TypeOK'
    BY <2>1, <2>2 DEF IngestInv, TypeOK
  <2>4. GuardInv' /\ \A u \in Video : Unchanged(u)' /\ Silent(u)'
    BY <2>1 DEF IngestInv, GuardInv, Guarding, Unchanged, Silent
  <2> QED BY <2>3, <2>4 DEF IngestInv
<1>5. CASE \/ RetryTranscripts \/ RematchRead \/ Rematch \/ Human \/ LaptopDone
           \/ Cancelled \/ Crash
  BY <1>5, BeginKeeps, RematchKeeps, HumanKeeps, StopsKeep
<1>6. CASE \E fetch \in BOOLEAN : IngestBulk(fetch) \/ \E f \in Family : IngestLaptop(f, fetch)
  BY <1>6, BeginKeeps, SearchKeeps
<1> QED BY <1>1, <1>2, <1>3, <1>4, <1>5, <1>6 DEF Next

\* What HumansDecide says of one review in one step.
Respected(v) ==
    /\ row'[v].human = row[v].human
    /\ v \notin raced' /\ row[v].status \in {"irrelevant", "matched"} =>
          row'[v].status = row[v].status

\* No machine step undoes a decision: an ingest writes rows that were absent or rejected,
\* a retry those that were pending or rejected, a rematch the pending ones.
LEMMA MachinesRespect ==
    ASSUME IngestInv, [Next]_vars, edits' = edits, NEW v \in Video, Exists(v)
    PROVE  Respected(v)
<1>1. row[v] \in Row /\ Unchanged(v)
  BY DEF IngestInv, TypeOK
<1>2. CASE row'[v] = row[v]
  BY <1>2 DEF Respected
<1>3. ASSUME NEW a \in Fetcher, NEW u \in Video, FetchAndSave(a, u) PROVE Respected(v)
  <2>1. PICK outcome \in Answers(u) :
            \/ Write(a, u, Ingested(u, outcome, row[u]))
            \/ UNCHANGED <<row, raced>>
    BY <1>3 DEF FetchAndSave
  <2>2. CASE u = v /\ Write(a, u, Ingested(u, outcome, row[u]))
    <3>1. row'[v] = Ingested(v, outcome, row[v]) /\ raced \subseteq raced'
      BY <2>2 DEF Write, IngestInv, TypeOK
    <3>2. row'[v].human = row[v].human
      BY <3>1 DEF Ingested
    <3>3. v \notin raced => row[v].status \in {"absent", "rejected"}
      BY <1>1, <1>3, <2>2 DEF FetchAndSave, Unchanged
    <3> QED BY <3>1, <3>2, <3>3 DEF Respected
  <2>3. CASE u # v \/ UNCHANGED <<row, raced>>
    BY <1>2, <2>1, <2>3 DEF Write, IngestInv, TypeOK
  <2> QED BY <2>1, <2>2, <2>3
<1>4. ASSUME NEW a \in Fetcher, RecordAll(a) PROVE Respected(v)
  BY <1>2, <1>4 DEF RecordAll, SkipExisting
<1>5. ASSUME NEW u \in Video, NEW outcome \in Answers(u), RetryOne(u, outcome) PROVE Respected(v)
  <2>1. CASE u = v
    <3>1. row'[v] = Retried(outcome, row[v]) /\ raced \subseteq raced' /\ v \in queue
      BY <1>5, <2>1 DEF RetryOne, Write, IngestInv, TypeOK
    <3>2. row'[v].human = row[v].human
      BY <1>1, <3>1 DEF Retried, Row
    <3>3. v \notin raced => row[v].status \in {"pending", "rejected"}
      BY <1>1, <3>1 DEF Unchanged
    <3> QED BY <3>1, <3>2, <3>3 DEF Respected
  <2>2. CASE u # v
    BY <1>2, <1>5, <2>2 DEF RetryOne, Write, IngestInv, TypeOK
  <2> QED BY <2>1, <2>2
<1>6. CASE Rematch
  <2>1. CASE v \in rematch
    <3>1. row'[v] = [row[v] EXCEPT !.status = "matched", !.auto = TRUE] /\ raced \subseteq raced'
      BY <1>6, <2>1 DEF Rematch
    <3>2. row'[v].human = row[v].human
      BY <1>1, <3>1 DEF Row
    <3>3. v \notin raced => row[v].status = "pending"
      BY <1>1, <2>1 DEF Unchanged
    <3> QED BY <3>1, <3>2, <3>3 DEF Respected
  <2>2. CASE v \notin rematch
    BY <1>2, <1>6, <2>2 DEF Rematch
  <2> QED BY <2>1, <2>2
<1>7. ASSUME NEW a \in Fetcher, Ingesting(a) PROVE Respected(v)
  BY <1>2, <1>3, <1>4, <1>7 DEF Ingesting, LookUp
<1>8. "job" \in Fetcher /\ "request" \in Fetcher
  BY DEF Fetcher
<1>9. CASE Working
  BY <1>2, <1>5, <1>7, <1>8, <1>9
     DEF Working, SearchFamily, FamilyDone, BulkDone, RetryDone
<1>10. CASE \/ RetryTranscripts \/ RematchRead \/ LaptopDone \/ Cancelled \/ Crash
            \/ \E fetch \in BOOLEAN : IngestBulk(fetch) \/ \E f \in Family : IngestLaptop(f, fetch)
            \/ UNCHANGED vars
  BY <1>2, <1>10 DEF RetryTranscripts, RematchRead, LaptopDone, Cancelled, Crash, IngestBulk,
                     IngestLaptop, vars
<1> QED BY <1>6, <1>7, <1>8, <1>9, <1>10, HumanKeeps DEF Next

-----------------------------------------------------------------------------
(* Sums over small sets.                                                      *)

\* The fold behind a sum over a set.
Pick(s) == CHOOSE x \in s : TRUE
Iter(g, S) ==
    CHOOSE iter : iter = [s \in SUBSET S |->
                             IF s = {} THEN 0 ELSE g[Pick(s)] + iter[s \ {Pick(s)}]]
Sum(g, S) == MapThenSumSet(LAMBDA k : g[k], S)

\* Its first steps.
Sum1(g, s) == IF s = {} THEN 0 ELSE g[Pick(s)]
Sum2(g, s) == IF s = {} THEN 0 ELSE g[Pick(s)] + Sum1(g, s \ {Pick(s)})
Sum3(g, s) == IF s = {} THEN 0 ELSE g[Pick(s)] + Sum2(g, s \ {Pick(s)})
Sum4(g, s) == IF s = {} THEN 0 ELSE g[Pick(s)] + Sum3(g, s \ {Pick(s)})

\* The steps of one fold, whatever it picks.
FoldOf(f, g, S) ==
    \A s \in SUBSET S : f[s] = IF s = {} THEN 0 ELSE g[Pick(s)] + f[s \ {Pick(s)}]

\* An element is picked from a set that has one.
LEMMA Picked == ASSUME NEW s, s # {} PROVE Pick(s) \in s
  BY DEF Pick

\* A sum is the value of its fold.
LEMMA SumIsIter == ASSUME NEW g, NEW S PROVE Sum(g, S) = Iter(g, S)[S]
  BY Zenon DEF Sum, MapThenSumSet, MapThenFoldSet, Iter, Pick

\* Over at most four elements the fold is a function.
LEMMA FourSteps ==
    ASSUME NEW g, NEW a, NEW b, NEW c, NEW d, NEW S, S \subseteq {a, b, c, d},
           \A x \in S : g[x] \in Nat
    PROVE  FoldOf(Iter(g, S), g, S)
<1> DEFINE f == [s \in SUBSET S |-> Sum4(g, s)]
<1>1. ASSUME NEW s \in SUBSET S, NEW x, s \subseteq {x} PROVE Sum1(g, s) = Sum2(g, s)
  <2>1. s # {} => s \ {Pick(s)} = {} /\ g[Pick(s)] \in Nat
    BY <1>1, Picked
  <2> QED BY <2>1 DEF Sum1, Sum2
<1>2. ASSUME NEW s \in SUBSET S, NEW x, NEW y, s \subseteq {x, y}
      PROVE  Sum2(g, s) = Sum3(g, s)
  <2>1. s # {} => \E z : s \ {Pick(s)} \subseteq {z}
    BY <1>2, Picked
  <2> QED BY <1>1, <2>1 DEF Sum2, Sum3
<1>3. ASSUME NEW s \in SUBSET S, NEW x, NEW y, NEW z, s \subseteq {x, y, z}
      PROVE  Sum3(g, s) = Sum4(g, s)
  <2>1. s # {} => \E u, v : s \ {Pick(s)} \subseteq {u, v}
    BY <1>3, Picked
  <2> QED BY <1>2, <2>1 DEF Sum3, Sum4
<1>4. ASSUME NEW s \in SUBSET S
      PROVE  f[s] = IF s = {} THEN 0 ELSE g[Pick(s)] + f[s \ {Pick(s)}]
  <2>1. s # {} => \E x, y, z : s \ {Pick(s)} \subseteq {x, y, z}
    <3> SUFFICES ASSUME s # {} PROVE \E x, y, z : s \ {Pick(s)} \subseteq {x, y, z}
      OBVIOUS
    <3>1. Pick(s) \in {a, b, c, d}
      BY Picked
    <3> QED BY <3>1
  <2>2. s # {} => Sum3(g, s \ {Pick(s)}) = Sum4(g, s \ {Pick(s)})
    BY <1>3, <2>1
  <2> QED BY <2>2 DEF Sum4
<1>5. f = [s \in SUBSET S |-> IF s = {} THEN 0 ELSE g[Pick(s)] + f[s \ {Pick(s)}]]
  BY <1>4
<1>6. Iter(g, S) = [s \in SUBSET S |->
                       IF s = {} THEN 0 ELSE g[Pick(s)] + Iter(g, S)[s \ {Pick(s)}]]
  BY <1>5 DEF Iter
<1> QED BY <1>6 DEF FoldOf

\* Whatever is picked, one, two, three or four elements add up.
LEMMA FoldOne ==
    ASSUME NEW f, NEW g, NEW S, FoldOf(f, g, S), NEW x \in S, g[x] \in Nat
    PROVE  f[{x}] = g[x]
<1>1. Pick({x}) = x /\ {x} \ {x} = {}
  BY Picked
<1>2. f[{}] = 0
  BY DEF FoldOf
<1> QED BY <1>1, <1>2 DEF FoldOf

\* The same of two.
LEMMA FoldTwo ==
    ASSUME NEW f, NEW g, NEW S, FoldOf(f, g, S), \A u \in S : g[u] \in Nat,
           NEW x \in S, NEW y \in S, x # y
    PROVE  f[{x, y}] = g[x] + g[y]
<1>1. f[{x}] = g[x] /\ f[{y}] = g[y]
  BY FoldOne
<1>2. {x, y} \ {x} = {y} /\ {x, y} \ {y} = {x}
  OBVIOUS
<1>3. f[{x, y}] = g[Pick({x, y})] + f[{x, y} \ {Pick({x, y})}]
  BY DEF FoldOf
<1>4. Pick({x, y}) \in {x, y}
  BY Picked
<1>5. g[x] \in Nat /\ g[y] \in Nat
  OBVIOUS
<1>6. CASE Pick({x, y}) = x
  <2>1. f[{x, y}] = g[x] + f[{y}]
    BY <1>2, <1>3, <1>6
  <2> QED BY <1>1, <1>5, <2>1
<1>7. CASE Pick({x, y}) = y
  <2>1. f[{x, y}] = g[y] + f[{x}]
    BY <1>2, <1>3, <1>7
  <2> QED BY <1>1, <1>5, <2>1
<1> QED BY <1>4, <1>6, <1>7

\* The same of three.
LEMMA FoldThree ==
    ASSUME NEW f, NEW g, NEW S, FoldOf(f, g, S), \A u \in S : g[u] \in Nat,
           NEW x \in S, NEW y \in S, NEW z \in S, x # y, x # z, y # z
    PROVE  f[{x, y, z}] = g[x] + g[y] + g[z]
<1>1. f[{x, y}] = g[x] + g[y] /\ f[{x, z}] = g[x] + g[z] /\ f[{y, z}] = g[y] + g[z]
  BY FoldTwo
<1>2. {x, y, z} \ {x} = {y, z} /\ {x, y, z} \ {y} = {x, z} /\ {x, y, z} \ {z} = {x, y}
  OBVIOUS
<1>3. f[{x, y, z}] = g[Pick({x, y, z})] + f[{x, y, z} \ {Pick({x, y, z})}]
  BY DEF FoldOf
<1>4. Pick({x, y, z}) \in {x, y, z}
  BY Picked
<1>5. g[x] \in Nat /\ g[y] \in Nat /\ g[z] \in Nat
  OBVIOUS
<1>6. CASE Pick({x, y, z}) = x
  <2>1. f[{x, y, z}] = g[x] + f[{y, z}]
    BY <1>2, <1>3, <1>6
  <2> QED BY <1>1, <1>5, <2>1
<1>7. CASE Pick({x, y, z}) = y
  <2>1. f[{x, y, z}] = g[y] + f[{x, z}]
    BY <1>2, <1>3, <1>7
  <2> QED BY <1>1, <1>5, <2>1
<1>8. CASE Pick({x, y, z}) = z
  <2>1. f[{x, y, z}] = g[z] + f[{x, y}]
    BY <1>2, <1>3, <1>8
  <2> QED BY <1>1, <1>5, <2>1
<1> QED BY <1>4, <1>6, <1>7, <1>8

\* The same of four.
LEMMA FoldFour ==
    ASSUME NEW f, NEW g, NEW S, FoldOf(f, g, S), \A v \in S : g[v] \in Nat,
           NEW x \in S, NEW y \in S, NEW z \in S, NEW u \in S,
           x # y, x # z, x # u, y # z, y # u, z # u
    PROVE  f[{x, y, z, u}] = g[x] + g[y] + g[z] + g[u]
<1>1. /\ f[{x, y, z}] = g[x] + g[y] + g[z] /\ f[{x, y, u}] = g[x] + g[y] + g[u]
      /\ f[{x, z, u}] = g[x] + g[z] + g[u] /\ f[{y, z, u}] = g[y] + g[z] + g[u]
  BY FoldThree
<1>2. /\ {x, y, z, u} \ {x} = {y, z, u} /\ {x, y, z, u} \ {y} = {x, z, u}
      /\ {x, y, z, u} \ {z} = {x, y, u} /\ {x, y, z, u} \ {u} = {x, y, z}
  OBVIOUS
<1>3. f[{x, y, z, u}] = g[Pick({x, y, z, u})] + f[{x, y, z, u} \ {Pick({x, y, z, u})}]
  BY DEF FoldOf
<1>4. Pick({x, y, z, u}) \in {x, y, z, u}
  BY Picked
<1>5. g[x] \in Nat /\ g[y] \in Nat /\ g[z] \in Nat /\ g[u] \in Nat
  OBVIOUS
<1>6. CASE Pick({x, y, z, u}) = x
  <2>1. f[{x, y, z, u}] = g[x] + f[{y, z, u}]
    BY <1>2, <1>3, <1>6
  <2> QED BY <1>1, <1>5, <2>1
<1>7. CASE Pick({x, y, z, u}) = y
  <2>1. f[{x, y, z, u}] = g[y] + f[{x, z, u}]
    BY <1>2, <1>3, <1>7
  <2> QED BY <1>1, <1>5, <2>1
<1>8. CASE Pick({x, y, z, u}) = z
  <2>1. f[{x, y, z, u}] = g[z] + f[{x, y, u}]
    BY <1>2, <1>3, <1>8
  <2> QED BY <1>1, <1>5, <2>1
<1>9. CASE Pick({x, y, z, u}) = u
  <2>1. f[{x, y, z, u}] = g[u] + f[{x, y, z}]
    BY <1>2, <1>3, <1>9
  <2> QED BY <1>1, <1>5, <2>1
<1> QED BY <1>4, <1>6, <1>7, <1>8, <1>9

\* Three or four different elements and their values.
Three(g, a, b, c) ==
    /\ a # b /\ a # c /\ b # c
    /\ g[a] \in Nat /\ g[b] \in Nat /\ g[c] \in Nat
Four(g, a, b, c, d) ==
    /\ Three(g, a, b, c)
    /\ a # d /\ b # d /\ c # d /\ g[d] \in Nat

\* The sum over four elements, three or one.
LEMMA SumFour ==
    ASSUME NEW g, NEW a, NEW b, NEW c, NEW d, Four(g, a, b, c, d)
    PROVE  Sum(g, {a, b, c, d}) = g[a] + g[b] + g[c] + g[d]
<1>1. PICK S : S = {a, b, c, d}
  OBVIOUS
<1>2. \A x \in S : g[x] \in Nat
  BY <1>1 DEF Four, Three
<1>3. FoldOf(Iter(g, S), g, S)
  BY <1>1, <1>2, FourSteps
<1>4. Iter(g, S)[{a, b, c, d}] = g[a] + g[b] + g[c] + g[d]
  BY <1>1, <1>2, <1>3, FoldFour DEF Four, Three
<1> QED BY <1>1, <1>4, SumIsIter

\* The same of three.
LEMMA SumThree ==
    ASSUME NEW g, NEW a, NEW b, NEW c, Three(g, a, b, c)
    PROVE  Sum(g, {a, b, c}) = g[a] + g[b] + g[c]
<1>1. PICK S : S = {a, b, c}
  OBVIOUS
<1>2. S \subseteq {a, b, c, c} /\ \A x \in S : g[x] \in Nat
  BY <1>1 DEF Three
<1>3. FoldOf(Iter(g, S), g, S)
  BY <1>2, FourSteps
<1>4. Iter(g, S)[{a, b, c}] = g[a] + g[b] + g[c]
  BY <1>1, <1>2, <1>3, FoldThree DEF Three
<1> QED BY <1>1, <1>4, SumIsIter

\* And of one.
LEMMA SumOne ==
    ASSUME NEW g, NEW a, g[a] \in Nat
    PROVE  Sum(g, {a}) = g[a]
<1>1. {a} \subseteq {a, a, a, a} /\ \A x \in {a} : g[x] \in Nat
  OBVIOUS
<1>2. FoldOf(Iter(g, {a}), g, {a})
  BY <1>1, FourSteps
<1>3. Iter(g, {a})[{a}] = g[a]
  BY <1>2, FoldOne
<1> QED BY <1>3, SumIsIter

-----------------------------------------------------------------------------
(* The funnel.                                                                *)

\* Where a review stands: the steps in their order, and what it can be stuck on there.
LEMMA Ranks ==
    /\ Rank("found") = 1 /\ Rank("transcript") = 2 /\ Rank("linked") = 3
    /\ Rank("processed") = 4 /\ Rank("shown") = 5
    /\ Len(STEPS) = 5 /\ DOMAIN STEPS = 1..5
    /\ STEPS[1] = "found" /\ STEPS[2] = "transcript" /\ STEPS[3] = "linked"
    /\ STEPS[4] = "processed" /\ STEPS[5] = "shown"
<1>1. DOMAIN STEPS = 1..5 /\ Len(STEPS) = 5
  BY DEF STEPS
<1>2. /\ STEPS[1] = "found" /\ STEPS[2] = "transcript" /\ STEPS[3] = "linked"
      /\ STEPS[4] = "processed" /\ STEPS[5] = "shown"
  BY DEF STEPS
<1>3. \A i \in 1..5 : i = 1 \/ i = 2 \/ i = 3 \/ i = 4 \/ i = 5
  OBVIOUS
<1>4. Rank("found") = 1
  BY <1>1, <1>2, <1>3 DEF Rank
<1>5. Rank("transcript") = 2
  BY <1>1, <1>2, <1>3 DEF Rank
<1>6. Rank("linked") = 3
  BY <1>1, <1>2, <1>3 DEF Rank
<1>7. Rank("processed") = 4
  BY <1>1, <1>2, <1>3 DEF Rank
<1>8. Rank("shown") = 5
  BY <1>1, <1>2, <1>3 DEF Rank
<1> QED BY <1>1, <1>2, <1>4, <1>5, <1>6, <1>7, <1>8

\* A review is stuck on a reason of the step after the last it reached.
LEMMA Standing ==
    ASSUME NEW r
    PROVE  LET c == Classify(r) IN
              \/ c[1] = "found" /\ c[2] \in STUCK["transcript"]
              \/ c[1] = "transcript" /\ c[2] = "unlinked"
              \/ c[1] = "linked" /\ c[2] \in STUCK["processed"]
              \/ c[1] = "processed" /\ c[2] = "no_shown_claims"
              \/ c[1] = "shown" /\ c[2] = "none"
<1>1. TranscriptStuck(r) \in STUCK["transcript"]
  BY DEF TranscriptStuck, STUCK
<1>2. CASE ~r.text
  BY <1>1, <1>2 DEF Classify
<1>3. CASE r.text /\ ~(r.linked /\ r.status = "matched")
  BY <1>3 DEF Classify
<1>4. CASE r.text /\ r.linked /\ r.status = "matched" /\ Processable(r)
  <2>1. /\ Classify(r)[1] = "linked"
        /\ Classify(r)[2] \in {"never_processed", "partial", "reprocess_requested"}
    BY <1>4 DEF Classify
  <2> QED BY <2>1 DEF STUCK
<1>5. CASE r.text /\ r.linked /\ r.status = "matched" /\ ~Processable(r)
  BY <1>5 DEF Classify
<1> QED BY <1>2, <1>3, <1>4, <1>5

\* The reviews that reached the n-th step, and those stuck on k.
Reached(reviews, n) == {i \in Counted(reviews) : n <= Rank(Classify(reviews[i])[1])}
StuckOn(reviews, k) == {i \in Counted(reviews) : Classify(reviews[i])[2] = k}

\* The reviews of one step are those of the next one and those stuck before it.
LEMMA StepSplits ==
    ASSUME NEW reviews
    PROVE  /\ Reached(reviews, 1) = Counted(reviews)
           /\ Reached(reviews, 1) = Reached(reviews, 2)
                \cup StuckOn(reviews, "transcript_terminal")
                \cup StuckOn(reviews, "transcript_retryable")
                \cup StuckOn(reviews, "transcript_deferred")
                \cup StuckOn(reviews, "transcript_unknown")
           /\ Reached(reviews, 2) = Reached(reviews, 3) \cup StuckOn(reviews, "unlinked")
           /\ Reached(reviews, 3) = Reached(reviews, 4)
                \cup StuckOn(reviews, "never_processed")
                \cup StuckOn(reviews, "partial")
                \cup StuckOn(reviews, "reprocess_requested")
           /\ Reached(reviews, 4) = Reached(reviews, 5)
                \cup StuckOn(reviews, "no_shown_claims")
           /\ \A k \in STUCK["transcript"] : Reached(reviews, 2) \cap StuckOn(reviews, k) = {}
           /\ Reached(reviews, 3) \cap StuckOn(reviews, "unlinked") = {}
           /\ \A k \in STUCK["processed"] : Reached(reviews, 4) \cap StuckOn(reviews, k) = {}
           /\ Reached(reviews, 5) \cap StuckOn(reviews, "no_shown_claims") = {}
<1> DEFINE C(i) == Classify(reviews[i])
           R(i) == Rank(C(i)[1])
<1>1. ASSUME NEW i
      PROVE  /\ R(i) \in 1..5
             /\ R(i) = 1 <=> C(i)[2] \in STUCK["transcript"]
             /\ R(i) = 2 <=> C(i)[2] = "unlinked"
             /\ R(i) = 3 <=> C(i)[2] \in STUCK["processed"]
             /\ R(i) = 4 <=> C(i)[2] = "no_shown_claims"
  BY Standing, Ranks DEF STUCK
<1> HIDE DEF C, R
<1>2. /\ STUCK["transcript"] = {"transcript_terminal", "transcript_retryable",
                                "transcript_deferred", "transcript_unknown"}
      /\ STUCK["processed"] = {"never_processed", "partial", "reprocess_requested"}
  BY DEF STUCK
<1>3. \A n : Reached(reviews, n) = {i \in Counted(reviews) : n <= R(i)}
  BY DEF Reached, R, C
<1>4. \A k : StuckOn(reviews, k) = {i \in Counted(reviews) : C(i)[2] = k}
  BY DEF StuckOn, C
<1>5. Reached(reviews, 1) = Counted(reviews)
  BY <1>1, <1>3
<1>6. /\ Reached(reviews, 1) = Reached(reviews, 2)
            \cup StuckOn(reviews, "transcript_terminal")
            \cup StuckOn(reviews, "transcript_retryable")
            \cup StuckOn(reviews, "transcript_deferred")
            \cup StuckOn(reviews, "transcript_unknown")
      /\ \A k \in STUCK["transcript"] : Reached(reviews, 2) \cap StuckOn(reviews, k) = {}
  BY <1>1, <1>2, <1>3, <1>4
<1>7. /\ Reached(reviews, 2) = Reached(reviews, 3) \cup StuckOn(reviews, "unlinked")
      /\ Reached(reviews, 3) \cap StuckOn(reviews, "unlinked") = {}
  BY <1>1, <1>3, <1>4
<1>8. /\ Reached(reviews, 3) = Reached(reviews, 4)
            \cup StuckOn(reviews, "never_processed")
            \cup StuckOn(reviews, "partial")
            \cup StuckOn(reviews, "reprocess_requested")
      /\ \A k \in STUCK["processed"] : Reached(reviews, 4) \cap StuckOn(reviews, k) = {}
  BY <1>1, <1>2, <1>3, <1>4
<1>9. /\ Reached(reviews, 4) = Reached(reviews, 5) \cup StuckOn(reviews, "no_shown_claims")
      /\ Reached(reviews, 5) \cap StuckOn(reviews, "no_shown_claims") = {}
  BY <1>1, <1>3, <1>4
<1> QED BY <1>5, <1>6, <1>7, <1>8, <1>9

\* Counting sets that do not meet.
LEMMA Disjoint ==
    ASSUME NEW S, IsFiniteSet(S), NEW T, IsFiniteSet(T), S \cap T = {}
    PROVE  /\ IsFiniteSet(S \cup T)
           /\ Cardinality(S \cup T) = Cardinality(S) + Cardinality(T)
           /\ Cardinality(S) \in Nat /\ Cardinality(T) \in Nat
  BY FS_Union, FS_EmptySet, FS_CardinalityType

\* The parts of the funnel are finite, and no review is stuck on two things.
LEMMA Countable ==
    ASSUME NEW reviews, IsFiniteSet(DOMAIN reviews)
    PROVE  /\ \A n : /\ IsFiniteSet(Reached(reviews, n))
                     /\ Cardinality(Reached(reviews, n)) \in Nat
           /\ \A k : /\ IsFiniteSet(StuckOn(reviews, k))
                     /\ Cardinality(StuckOn(reviews, k)) \in Nat
           /\ \A k, m : k # m => StuckOn(reviews, k) \cap StuckOn(reviews, m) = {}
<1>1. ASSUME NEW S, S \subseteq Counted(reviews)
      PROVE  IsFiniteSet(S) /\ Cardinality(S) \in Nat
  BY <1>1, FS_Subset, FS_CardinalityType DEF Counted
<1>2. \A n : Reached(reviews, n) \subseteq Counted(reviews)
  BY DEF Reached
<1>3. \A k : StuckOn(reviews, k) \subseteq Counted(reviews)
  BY DEF StuckOn
<1>4. \A k, m : k # m => StuckOn(reviews, k) \cap StuckOn(reviews, m) = {}
  BY DEF StuckOn
<1> QED BY <1>1, <1>2, <1>3, <1>4

\* A step's count is that of the next one and of everything stuck before it.
LEMMA CountsAdd ==
    ASSUME NEW reviews, IsFiniteSet(DOMAIN reviews)
    PROVE  /\ Cardinality(Reached(reviews, 1)) = Cardinality(Reached(reviews, 2))
                + (Cardinality(StuckOn(reviews, "transcript_terminal"))
                    + Cardinality(StuckOn(reviews, "transcript_retryable"))
                    + Cardinality(StuckOn(reviews, "transcript_deferred"))
                    + Cardinality(StuckOn(reviews, "transcript_unknown")))
           /\ Cardinality(Reached(reviews, 2)) =
                Cardinality(Reached(reviews, 3)) + Cardinality(StuckOn(reviews, "unlinked"))
           /\ Cardinality(Reached(reviews, 3)) = Cardinality(Reached(reviews, 4))
                + (Cardinality(StuckOn(reviews, "never_processed"))
                    + Cardinality(StuckOn(reviews, "partial"))
                    + Cardinality(StuckOn(reviews, "reprocess_requested")))
           /\ Cardinality(Reached(reviews, 4)) = Cardinality(Reached(reviews, 5))
                + Cardinality(StuckOn(reviews, "no_shown_claims"))
<1>1. ASSUME NEW A, NEW B, NEW C, NEW D, NEW E, IsFiniteSet(A), IsFiniteSet(B),
             IsFiniteSet(C), IsFiniteSet(D), IsFiniteSet(E),
             A \cap B = {}, A \cap C = {}, A \cap D = {}, A \cap E = {}, B \cap C = {},
             B \cap D = {}, B \cap E = {}, C \cap D = {}, C \cap E = {}, D \cap E = {}
      PROVE  Cardinality(A \cup B \cup C \cup D \cup E) = Cardinality(A) + (Cardinality(B)
                + Cardinality(C) + Cardinality(D) + Cardinality(E))
  <2>1. IsFiniteSet(A \cup B) /\ Cardinality(A \cup B) = Cardinality(A) + Cardinality(B)
    BY <1>1, Disjoint
  <2>2. /\ (A \cup B) \cap C = {} /\ (A \cup B \cup C) \cap D = {}
        /\ (A \cup B \cup C \cup D) \cap E = {}
    BY <1>1
  <2>3. /\ IsFiniteSet(A \cup B \cup C)
        /\ Cardinality(A \cup B \cup C) = Cardinality(A \cup B) + Cardinality(C)
    BY <1>1, <2>1, <2>2, Disjoint
  <2>4. /\ IsFiniteSet(A \cup B \cup C \cup D)
        /\ Cardinality(A \cup B \cup C \cup D) = Cardinality(A \cup B \cup C) + Cardinality(D)
    BY <1>1, <2>2, <2>3, Disjoint
  <2>5. Cardinality(A \cup B \cup C \cup D \cup E) =
            Cardinality(A \cup B \cup C \cup D) + Cardinality(E)
    BY <1>1, <2>2, <2>4, Disjoint
  <2>6. /\ Cardinality(A) \in Nat /\ Cardinality(B) \in Nat /\ Cardinality(C) \in Nat
        /\ Cardinality(D) \in Nat /\ Cardinality(E) \in Nat
    BY <1>1, FS_CardinalityType
  <2> QED BY <2>1, <2>3, <2>4, <2>5, <2>6
<1>2. Cardinality(Reached(reviews, 1)) = Cardinality(Reached(reviews, 2))
                + (Cardinality(StuckOn(reviews, "transcript_terminal"))
                    + Cardinality(StuckOn(reviews, "transcript_retryable"))
                    + Cardinality(StuckOn(reviews, "transcript_deferred"))
                    + Cardinality(StuckOn(reviews, "transcript_unknown")))
  <2>1. \A k \in STUCK["transcript"] : Reached(reviews, 2) \cap StuckOn(reviews, k) = {}
    BY StepSplits
  <2>2. STUCK["transcript"] = {"transcript_terminal", "transcript_retryable",
                               "transcript_deferred", "transcript_unknown"}
    BY DEF STUCK
  <2>3. Reached(reviews, 1) = Reached(reviews, 2)
                \cup StuckOn(reviews, "transcript_terminal")
                \cup StuckOn(reviews, "transcript_retryable")
                \cup StuckOn(reviews, "transcript_deferred")
                \cup StuckOn(reviews, "transcript_unknown")
    BY StepSplits
  <2> DEFINE R == Reached(reviews, 2)
             A == StuckOn(reviews, "transcript_terminal")
             B == StuckOn(reviews, "transcript_retryable")
             C == StuckOn(reviews, "transcript_deferred")
             D == StuckOn(reviews, "transcript_unknown")
  <2>4. /\ IsFiniteSet(R) /\ IsFiniteSet(A) /\ IsFiniteSet(B) /\ IsFiniteSet(C)
        /\ IsFiniteSet(D)
    BY Countable
  <2>5. R \cap A = {} /\ R \cap B = {} /\ R \cap C = {} /\ R \cap D = {}
    BY <2>1, <2>2
  <2>6. /\ A \cap B = {} /\ A \cap C = {} /\ A \cap D = {} /\ B \cap C = {}
        /\ B \cap D = {} /\ C \cap D = {}
    BY Countable
  <2> HIDE DEF R, A, B, C, D
  <2>7. Cardinality(R \cup A \cup B \cup C \cup D) = Cardinality(R) + (Cardinality(A)
            + Cardinality(B) + Cardinality(C) + Cardinality(D))
    BY <1>1, <2>4, <2>5, <2>6
  <2> QED BY <2>3, <2>7 DEF R, A, B, C, D
<1>3. Cardinality(Reached(reviews, 2)) =
                Cardinality(Reached(reviews, 3)) + Cardinality(StuckOn(reviews, "unlinked"))
  BY StepSplits, Countable, Disjoint
<1>4. Cardinality(Reached(reviews, 3)) = Cardinality(Reached(reviews, 4))
                + (Cardinality(StuckOn(reviews, "never_processed"))
                    + Cardinality(StuckOn(reviews, "partial"))
                    + Cardinality(StuckOn(reviews, "reprocess_requested")))
  <2>1. \A k \in STUCK["processed"] : Reached(reviews, 4) \cap StuckOn(reviews, k) = {}
    BY StepSplits
  <2>2. STUCK["processed"] = {"never_processed", "partial", "reprocess_requested"}
    BY DEF STUCK
  <2>3. Reached(reviews, 3) = Reached(reviews, 4)
            \cup StuckOn(reviews, "never_processed")
            \cup StuckOn(reviews, "partial")
            \cup StuckOn(reviews, "reprocess_requested")
    BY StepSplits
  <2> DEFINE R == Reached(reviews, 4)
             A == StuckOn(reviews, "never_processed")
             B == StuckOn(reviews, "partial")
             C == StuckOn(reviews, "reprocess_requested")
  <2>4. IsFiniteSet(R) /\ IsFiniteSet(A) /\ IsFiniteSet(B) /\ IsFiniteSet(C)
    BY Countable
  <2>5. R \cap A = {} /\ R \cap B = {} /\ R \cap C = {}
    BY <2>1, <2>2
  <2>6. A \cap B = {} /\ A \cap C = {} /\ B \cap C = {}
    BY Countable
  <2>7. Cardinality(C) \in Nat /\ Cardinality(A) \in Nat /\ Cardinality(B) \in Nat
    BY Countable
  <2> HIDE DEF R, A, B, C
  <2>8. IsFiniteSet({}) /\ Cardinality({}) = 0
    BY FS_EmptySet
  <2>9. Cardinality(R \cup A \cup B \cup C \cup {}) = Cardinality(R) + (Cardinality(A)
            + Cardinality(B) + Cardinality(C) + Cardinality({}))
    BY <1>1, <2>4, <2>5, <2>6, <2>8
  <2>10. R \cup A \cup B \cup C \cup {} = R \cup A \cup B \cup C
    OBVIOUS
  <2>11. Cardinality(R \cup A \cup B \cup C) = Cardinality(R) + (Cardinality(A)
            + Cardinality(B) + Cardinality(C))
    BY <2>7, <2>8, <2>9, <2>10
  <2> QED BY <2>3, <2>11 DEF R, A, B, C
<1>5. Cardinality(Reached(reviews, 4)) = Cardinality(Reached(reviews, 5))
                + Cardinality(StuckOn(reviews, "no_shown_claims"))
  <2> DEFINE R == Reached(reviews, 5)
             A == StuckOn(reviews, "no_shown_claims")
  <2>1. Reached(reviews, 4) = R \cup A /\ R \cap A = {}
    BY StepSplits
  <2>2. IsFiniteSet(R) /\ IsFiniteSet(A)
    BY Countable
  <2> HIDE DEF R, A
  <2>3. Cardinality(R \cup A) = Cardinality(R) + Cardinality(A)
    BY <2>1, <2>2, Disjoint
  <2> QED BY <2>1, <2>3 DEF R, A
<1> QED BY <1>2, <1>3, <1>4, <1>5

\* The numbers of the funnel are these.
LEMMA FunnelNumbers ==
    ASSUME NEW reviews
    PROVE  LET F == FunnelCounts(reviews) IN
              /\ F["found"].count = Cardinality(Reached(reviews, 1))
              /\ F["transcript"].count = Cardinality(Reached(reviews, 2))
              /\ F["linked"].count = Cardinality(Reached(reviews, 3))
              /\ F["processed"].count = Cardinality(Reached(reviews, 4))
              /\ F["shown"].count = Cardinality(Reached(reviews, 5))
              /\ \A step \in ToSet(STEPS) :
                    F[step].stuck = [k \in STUCK[step] |-> Cardinality(StuckOn(reviews, k))]
<1>1. ToSet(STEPS) = {"found", "transcript", "linked", "processed", "shown"}
  <2>1. \A i \in 1..5 : i = 1 \/ i = 2 \/ i = 3 \/ i = 4 \/ i = 5
    OBVIOUS
  <2> QED BY <2>1, Ranks DEF ToSet
<1>2. ASSUME NEW step \in ToSet(STEPS)
      PROVE  /\ FunnelCounts(reviews)[step].count = Cardinality(Reached(reviews, Rank(step)))
             /\ FunnelCounts(reviews)[step].stuck =
                   [k \in STUCK[step] |-> Cardinality(StuckOn(reviews, k))]
  BY DEF FunnelCounts, Reached, StuckOn
<1> QED BY <1>1, <1>2, Ranks

\* The funnel adds up, whatever reviews it counts.
LEMMA FunnelSums ==
    ASSUME NEW reviews, IsFiniteSet(DOMAIN reviews)
    PROVE  FunnelAddsUp(PipelineStatus(reviews))
<1> DEFINE status == PipelineStatus(reviews)
           F == status.funnel
<1>1. F = FunnelCounts(reviews)
  BY DEF PipelineStatus
<1>2. status.reviews_total = status.irrelevant_total + F["found"].count
  <2> DEFINE I == {i \in DOMAIN reviews : reviews[i].status = "irrelevant"}
  <2>1. ListRaw(reviews, "irrelevant", "any", "any") = I
    BY DEF ListRaw
  <2>2. DOMAIN reviews = I \cup Counted(reviews) /\ I \cap Counted(reviews) = {}
    BY DEF Counted
  <2>3. IsFiniteSet(I) /\ IsFiniteSet(Counted(reviews))
    BY <2>2, FS_Subset
  <2> HIDE DEF I
  <2>4. Cardinality(DOMAIN reviews) = Cardinality(I) + Cardinality(Counted(reviews))
    BY <2>2, <2>3, Disjoint
  <2>5. /\ status.reviews_total = Cardinality(DOMAIN reviews)
        /\ status.irrelevant_total = Cardinality(I)
    BY <2>1 DEF PipelineStatus
  <2>6. F["found"].count = Cardinality(Counted(reviews))
    BY <1>1, FunnelNumbers, StepSplits
  <2> QED BY <2>4, <2>5, <2>6
<1>3. ASSUME NEW step \in ToSet(STEPS)
      PROVE  MapThenSumSet(LAMBDA k : F[step].stuck[k], STUCK[step]) =
                Sum([k \in STUCK[step] |-> Cardinality(StuckOn(reviews, k))], STUCK[step])
  <2>1. MapThenSumSet(LAMBDA k : F[step].stuck[k], STUCK[step]) = Sum(F[step].stuck, STUCK[step])
    BY DEF Sum
  <2> QED BY <1>1, <2>1, FunnelNumbers
<1> DEFINE g(step) == [k \in STUCK[step] |-> Cardinality(StuckOn(reviews, k))]
<1>4. \A k : Cardinality(StuckOn(reviews, k)) \in Nat
  BY Countable
<1>5. /\ STUCK["transcript"] = {"transcript_terminal", "transcript_retryable",
                                "transcript_deferred", "transcript_unknown"}
      /\ STUCK["linked"] = {"unlinked"} /\ STUCK["shown"] = {"no_shown_claims"}
      /\ STUCK["processed"] = {"never_processed", "partial", "reprocess_requested"}
  BY DEF STUCK
<1>6. ASSUME NEW step \in {"transcript", "linked", "processed", "shown"}, NEW k \in STUCK[step]
      PROVE  g(step)[k] = Cardinality(StuckOn(reviews, k)) /\ g(step)[k] \in Nat
  BY <1>4
<1> HIDE DEF g
<1>7. Sum(g("transcript"), STUCK["transcript"]) =
          Cardinality(StuckOn(reviews, "transcript_terminal"))
              + Cardinality(StuckOn(reviews, "transcript_retryable"))
              + Cardinality(StuckOn(reviews, "transcript_deferred"))
              + Cardinality(StuckOn(reviews, "transcript_unknown"))
  <2> DEFINE h == g("transcript")
  <2>1. \A k \in STUCK["transcript"] : h[k] = Cardinality(StuckOn(reviews, k)) /\ h[k] \in Nat
    BY <1>6
  <2> HIDE DEF h
  <2>2. PICK a, b, c, d : /\ a = "transcript_terminal"
            /\ b = "transcript_retryable"
            /\ c = "transcript_deferred"
            /\ d = "transcript_unknown"
    OBVIOUS
  <2>3. a # b /\ a # c /\ a # d /\ b # c /\ b # d /\ c # d
    BY <2>2
  <2>4. STUCK["transcript"] = {a, b, c, d}
    BY <1>5, <2>2
  <2>5. h[a] \in Nat /\ h[b] \in Nat /\ h[c] \in Nat /\ h[d] \in Nat
    BY <2>1, <2>4
  <2>6. Four(h, a, b, c, d)
    BY <2>3, <2>5 DEF Four, Three
  <2>7. Sum(h, {a, b, c, d}) = h[a] + h[b] + h[c] + h[d]
    BY <2>6, SumFour
  <2>8. /\ h[a] = Cardinality(StuckOn(reviews, a))
        /\ h[b] = Cardinality(StuckOn(reviews, b))
        /\ h[c] = Cardinality(StuckOn(reviews, c))
        /\ h[d] = Cardinality(StuckOn(reviews, d))
    BY <2>1, <2>4
  <2> QED BY <2>2, <2>4, <2>7, <2>8 DEF h
<1>8. Sum(g("processed"), STUCK["processed"]) =
          Cardinality(StuckOn(reviews, "never_processed"))
              + Cardinality(StuckOn(reviews, "partial"))
              + Cardinality(StuckOn(reviews, "reprocess_requested"))
  <2> DEFINE h == g("processed")
  <2>1. \A k \in STUCK["processed"] : h[k] = Cardinality(StuckOn(reviews, k)) /\ h[k] \in Nat
    BY <1>6
  <2> HIDE DEF h
  <2>2. PICK a, b, c : /\ a = "never_processed"
            /\ b = "partial"
            /\ c = "reprocess_requested"
    OBVIOUS
  <2>3. a # b /\ a # c /\ b # c
    BY <2>2
  <2>4. STUCK["processed"] = {a, b, c}
    BY <1>5, <2>2
  <2>5. h[a] \in Nat /\ h[b] \in Nat /\ h[c] \in Nat
    BY <2>1, <2>4
  <2>6. Three(h, a, b, c)
    BY <2>3, <2>5 DEF Three
  <2>7. Sum(h, {a, b, c}) = h[a] + h[b] + h[c]
    BY <2>6, SumThree
  <2>8. /\ h[a] = Cardinality(StuckOn(reviews, a))
        /\ h[b] = Cardinality(StuckOn(reviews, b))
        /\ h[c] = Cardinality(StuckOn(reviews, c))
    BY <2>1, <2>4
  <2> QED BY <2>2, <2>4, <2>7, <2>8 DEF h
<1>9. /\ Sum(g("linked"), STUCK["linked"]) = Cardinality(StuckOn(reviews, "unlinked"))
      /\ Sum(g("shown"), STUCK["shown"]) = Cardinality(StuckOn(reviews, "no_shown_claims"))
  <2> DEFINE h == g("linked")
             e == g("shown")
  <2>1. /\ h["unlinked"] = Cardinality(StuckOn(reviews, "unlinked")) /\ h["unlinked"] \in Nat
        /\ e["no_shown_claims"] = Cardinality(StuckOn(reviews, "no_shown_claims"))
        /\ e["no_shown_claims"] \in Nat
    BY <1>5, <1>6
  <2> HIDE DEF h, e
  <2>2. Sum(h, {"unlinked"}) = h["unlinked"] /\ Sum(e, {"no_shown_claims"}) = e["no_shown_claims"]
    BY <2>1, SumOne
  <2> QED BY <1>5, <2>1, <2>2 DEF h, e
<1>10. ASSUME NEW i \in 2..Len(STEPS)
       PROVE  F[STEPS[i - 1]].count = F[STEPS[i]].count
                + MapThenSumSet(LAMBDA k : F[STEPS[i]].stuck[k], STUCK[STEPS[i]])
  <2>1. i = 2 \/ i = 3 \/ i = 4 \/ i = 5
    BY Ranks
  <2>2. STEPS[i] \in ToSet(STEPS)
    BY Ranks DEF ToSet
  <2>3. MapThenSumSet(LAMBDA k : F[STEPS[i]].stuck[k], STUCK[STEPS[i]]) =
            Sum(g(STEPS[i]), STUCK[STEPS[i]])
    BY <1>3, <2>2 DEF g
  <2>4. F[STEPS[i - 1]].count = F[STEPS[i]].count + Sum(g(STEPS[i]), STUCK[STEPS[i]])
    <3> HIDE DEF F
    <3>1. /\ F["found"].count = Cardinality(Reached(reviews, 1))
          /\ F["transcript"].count = Cardinality(Reached(reviews, 2))
          /\ F["linked"].count = Cardinality(Reached(reviews, 3))
          /\ F["processed"].count = Cardinality(Reached(reviews, 4))
          /\ F["shown"].count = Cardinality(Reached(reviews, 5))
      BY <1>1, FunnelNumbers DEF F
    <3>2. CASE i = 2
      BY <1>7, <3>1, <3>2, CountsAdd, Ranks
    <3>3. CASE i = 3
      BY <1>9, <3>1, <3>3, CountsAdd, Ranks
    <3>4. CASE i = 4
      BY <1>8, <3>1, <3>4, CountsAdd, Ranks
    <3>5. CASE i = 5
      BY <1>9, <3>1, <3>5, CountsAdd, Ranks
    <3> QED BY <2>1, <3>2, <3>3, <3>4, <3>5
  <2> QED BY <2>3, <2>4
<1> QED BY <1>1, <1>2, <1>10 DEF FunnelAddsUp

\* The list behind a number of the funnel is the set it counts.
LEMMA ListsCount == ListsBehind(FunnelCounts(Reviews))
<1> SUFFICES ASSUME NEW step \in ToSet(STEPS)
             PROVE  /\ Cardinality(ListRaw(Reviews, "any", step, "any")) =
                          FunnelCounts(Reviews)[step].count
                    /\ \A k \in STUCK[step] :
                          Cardinality(ListRaw(Reviews, "any", "any", k)) =
                              FunnelCounts(Reviews)[step].stuck[k]
  BY DEF ListsBehind
<1>1. step \in {"found", "transcript", "linked", "processed", "shown"} /\ "any" \notin STUCK[step]
  <2>1. \A i \in 1..5 : i = 1 \/ i = 2 \/ i = 3 \/ i = 4 \/ i = 5
    OBVIOUS
  <2>2. step \in {"found", "transcript", "linked", "processed", "shown"}
    BY <2>1, Ranks DEF ToSet
  <2> QED BY <2>2 DEF STUCK
<1>2. Counted(Reviews) \subseteq DOMAIN Reviews
  BY DEF Counted
<1>3. ListRaw(Reviews, "any", step, "any") = Reached(Reviews, Rank(step))
  <2>1. ReviewIds(Reviews, step, "any") = Reached(Reviews, Rank(step))
    <3>1. \A i \in Counted(Reviews) : Rank(Classify(Reviews[i])[1]) \in Int
      BY Standing, Ranks
    <3>2. Rank(step) \in Int /\ step # "any"
      BY <1>1, Ranks
    <3> QED BY <3>1, <3>2 DEF ReviewIds, Reached
  <2>2. Reached(Reviews, Rank(step)) \subseteq DOMAIN Reviews
    BY <1>2 DEF Reached
  <2> QED BY <1>1, <2>1, <2>2 DEF ListRaw
<1>4. ASSUME NEW k \in STUCK[step]
      PROVE  ListRaw(Reviews, "any", "any", k) = StuckOn(Reviews, k)
  <2>1. ReviewIds(Reviews, "any", k) = StuckOn(Reviews, k)
    <3>1. \A i \in Counted(Reviews) : Rank(Classify(Reviews[i])[1]) >= 1
      BY Standing, Ranks
    <3> QED BY <1>1, <3>1 DEF ReviewIds, StuckOn
  <2>2. StuckOn(Reviews, k) \subseteq DOMAIN Reviews
    BY <1>2 DEF StuckOn
  <2> QED BY <1>1, <2>1, <2>2 DEF ListRaw
<1>5. FunnelCounts(Reviews)[step].count = Cardinality(Reached(Reviews, Rank(step)))
  BY <1>1, FunnelNumbers, Ranks
<1>6. FunnelCounts(Reviews)[step].stuck = [k \in STUCK[step] |-> Cardinality(StuckOn(Reviews, k))]
  BY FunnelNumbers
<1> QED BY <1>3, <1>4, <1>5, <1>6

-----------------------------------------------------------------------------
(* The theorems.                                                              *)

\* Rows, claims, guards and counters are typed.
THEOREM TypeCorrect == Spec => []TypeOK
<1>1. IngestInv => TypeOK
  BY DEF IngestInv
<1> QED BY <1>1, IngestInit, IngestStep, PTL DEF Spec

\* A run, over all its families, stops exactly when MaxBlocks fetches in a row were blocked,
\* whatever it skipped, searched or failed to write in between.
THEOREM RunsStopOnBlocks == Spec => []StopsOnBlocks
<1>1. IngestInv => StopsOnBlocks
  <2> SUFFICES ASSUME IngestInv, NEW a \in Fetcher
               PROVE  streak[a] <= MaxBlocks /\ (Tripped(a) <=> streak[a] = MaxBlocks)
    BY DEF StopsOnBlocks
  <2>1. streak[a] = blocks[a] /\ blocks[a] <= MaxBlocks /\ blocks[a] \in Nat
    BY DEF IngestInv, GuardInv, Guarding, TypeOK
  <2> QED BY <2>1, Bounds DEF Tripped
<1> QED BY <1>1, IngestInit, IngestStep, PTL DEF Spec

\* Whoever else is at work on a review, a human's link and, unless rows were written under
\* a decision in flight, a human's dismissal or match survive every machine step.
THEOREM HumansHaveTheLastWord == Spec => HumansDecide
<1>1. ASSUME IngestInv, [Next]_vars
      PROVE  \A v \in Video : Exists(v) /\ edits' = edits =>
                /\ row'[v].human = row[v].human
                /\ v \notin raced' /\ row[v].status \in {"irrelevant", "matched"} =>
                      row'[v].status = row[v].status
  BY <1>1, MachinesRespect DEF Respected
<1> QED BY <1>1, IngestInit, IngestStep, PTL DEF Spec, HumansDecide

\* Whatever reviews there are, the screens' numbers add up and are those of the lists behind
\* them, and every review with a transcript is to be processed, dismissed or in the queue.
THEOREM NothingIsUnlisted == Spec => []NothingUnlisted
<1>1. ASSUME IngestInv PROVE NothingUnlisted
  <2>1. DOMAIN Reviews = {u \in Video : Exists(u)} /\ \A v \in DOMAIN Reviews : Reviews[v] = Seen(v)
    BY DEF Reviews
  <2>2. IsFiniteSet(DOMAIN Reviews)
    BY <2>1, IngestAssumption, FS_Subset DEF IngestAssumption
  <2>3. FunnelAddsUp(PipelineStatus(Reviews)) /\ ListsBehind(PipelineStatus(Reviews).funnel)
    BY <2>2, FunnelSums, ListsCount DEF PipelineStatus
  <2>4. ASSUME NEW v \in DOMAIN Reviews
        PROVE  /\ row[v] \in Row /\ row[v].status # "absent" /\ v \in Video
               /\ row[v].status = "rejected" => ~row[v].text
               /\ Reviews[v].status = row[v].status /\ Reviews[v].text = row[v].text
               /\ Reviews[v].linked = Linked(v) /\ Reviews[v].work = "none"
               /\ Reviews[v].marked = FALSE
    <3>1. v \in Video /\ row[v].status # "absent"
      BY <2>1 DEF Exists
    <3>2. row[v] \in Row /\ (row[v].status = "rejected" => ~row[v].text)
      BY <1>1, <3>1 DEF IngestInv, TypeOK, Silent
    <3>3. Reviews[v] = Seen(v)
      BY <2>1
    <3> QED BY <3>1, <3>2, <3>3 DEF Seen
  <2>5. ListRaw(Reviews, "any", "any", "unlinked") \subseteq ListPending(Reviews)
    <3> SUFFICES ASSUME NEW v \in ListRaw(Reviews, "any", "any", "unlinked")
                 PROVE  v \in DOMAIN Reviews /\ NeedsLink(Reviews[v])
      BY DEF ListPending
    <3>1. v \in DOMAIN Reviews /\ Reviews[v].status # "irrelevant"
      BY DEF ListRaw, ReviewIds, Counted
    <3>2. Classify(Reviews[v])[2] = "unlinked"
      BY DEF ListRaw, ReviewIds
    <3>3. Reviews[v].text /\ ~(Reviews[v].linked /\ Reviews[v].status = "matched")
      BY <3>2 DEF Classify, TranscriptStuck
    <3> QED BY <2>4, <3>1, <3>3 DEF NeedsLink, Row
  <2>6. ASSUME NEW v \in DOMAIN Reviews \ ListPending(Reviews), row[v].text
        PROVE  Processable(Seen(v)) \/ row[v].status = "irrelevant"
    <3>1. ~NeedsLink(Reviews[v])
      BY DEF ListPending
    <3>2. row[v].status \in {"irrelevant", "matched"}
      BY <2>4, <2>6, <3>1 DEF NeedsLink, Row
    <3>3. row[v].status = "matched" => Linked(v)
      BY <2>4, <3>1 DEF NeedsLink
    <3> QED BY <2>6, <3>2, <3>3 DEF Processable, Seen
  <2> QED BY <2>3, <2>5, <2>6 DEF NothingUnlisted
<1> QED BY <1>1, IngestInit, IngestStep, PTL DEF Spec


=============================================================================
