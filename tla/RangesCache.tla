----------------------------- MODULE RangesCache -----------------------------
(***************************************************************************)
(* The cache of the PickScore scoring data: one copy of the laptop ranges  *)
(* and both benchmark lists, a generation counter that committed writes    *)
(* advance, one background rebuild, and requests that build it themselves. *)
(*                                                                         *)
(* Code: app/pickscore/ranges_cache.py, app/laptops/pickscore_adapter.py.  *)
(*                                                                         *)
(* A build reads the generation first, then the source tables one by one,  *)
(* and stores its copy minutes of fuzzy matching later.  A write commits   *)
(* first and advances the generation after.  Nothing orders builds and     *)
(* writes; only `_lock` makes one look at the cache, or one change of it,  *)
(* atomic.                                                                 *)
(*                                                                         *)
(* A copy is abstracted to the version of each table it was built from.    *)
(***************************************************************************)
EXTENDS Integers

CONSTANTS
    Tables,             \* the source tables are 1..Tables, in the order _read reads them
    Request,            \* requests that may build inline
    Thread,             \* the background rebuild
    Writer,             \* sessions of this process that write source tables
    NoCopy,             \* _data is None
    MaxWrites,          \* bound: commits, by this process or from outside
    MaxFaults           \* bound: builds that raise, and restarts of the process

ASSUME CacheAssumption ==
    /\ Tables \in Nat
    /\ Thread \notin Request
    /\ NoCopy \notin [1..Tables -> Nat]
    /\ MaxWrites \in Nat /\ MaxFaults \in Nat

Table == 1..Tables
Builder == Request \cup {Thread}
Vector == [Table -> Nat]

VARIABLES
    db,                 \* db[t]: version of table t, every commit a new one
    generation,         \* _generation
    copy, built,        \* _data and _built_generation
    expired,            \* _built_at is more than CACHE_TTL ago
    pc,                 \* pc[b]: "idle", "cold" (get gave None), "read", "build"; the
                        \* thread is not idle iff _refreshing
    at,                 \* at[b]: the generation b read before the tables
    got,                \* got[b]: the versions it read
    next,               \* next[b]: the table it reads next
    wrote,              \* wrote[w]: versions w has committed and not announced (0: none)
    committed,          \* committed[w]: w is between its commit and invalidate()
    announced,          \* history: announced[t]: newest version of t that was announced
    promise,            \* history: promise[b]: announced when b read the generation
    sure,               \* history: the promise of the build that made the copy
    writes, faults

cache == <<generation, copy, built, expired, sure>>
builders == <<pc, at, got, next, promise>>
writers == <<wrote, committed>>
bounds == <<writes, faults>>
vars == <<db, announced, cache, builders, writers, bounds>>

Zero == [t \in Table |-> 0]

TypeOK ==
    /\ db \in Vector /\ announced \in Vector /\ sure \in Vector
    /\ generation \in Nat
    /\ built \in Nat \cup {-1}
    /\ copy \in Vector \cup {NoCopy}
    /\ copy = NoCopy <=> built = -1
    /\ expired \in BOOLEAN
    /\ pc \in [Builder -> {"idle", "cold", "read", "build"}]
    /\ at \in [Builder -> Nat]
    /\ got \in [Builder -> Vector] /\ promise \in [Builder -> Vector]
    /\ next \in [Builder -> 1..(Tables + 1)]
    /\ wrote \in [Writer -> Vector] /\ committed \in [Writer -> BOOLEAN]
    /\ writes \in 0..MaxWrites /\ faults \in 0..MaxFaults

\* The process starts: an empty cache, and the warm-up thread already running.
Init ==
    /\ db = Zero /\ announced = Zero /\ sure = Zero
    /\ generation = 0
    /\ copy = NoCopy /\ built = -1
    /\ expired = FALSE
    /\ pc = [b \in Builder |-> IF b = Thread THEN "read" ELSE "idle"]
    /\ at = [b \in Builder |-> 0]
    /\ got = [b \in Builder |-> Zero] /\ promise = [b \in Builder |-> Zero]
    /\ next = [b \in Builder |-> 1]
    /\ wrote = [w \in Writer |-> Zero] /\ committed = [w \in Writer |-> FALSE]
    /\ writes = 0 /\ faults = 0

-----------------------------------------------------------------------------
(* Writes.                                                                 *)

\* A transaction that noted writes to the tables of T commits.  T is empty when
\* the noted writes were rolled back: the note on the session outlives them.
Commit(w, T) ==
    /\ ~committed[w]
    /\ writes < MaxWrites
    /\ writes' = writes + 1
    /\ db' = [t \in Table |-> IF t \in T THEN db[t] + 1 ELSE db[t]]
    /\ wrote' = [wrote EXCEPT ![w] = [t \in Table |-> IF t \in T THEN db[t] + 1 ELSE 0]]
    /\ committed' = [committed EXCEPT ![w] = TRUE]
    /\ UNCHANGED <<announced, cache, builders, faults>>

Newer(x, y) == IF x > y THEN x ELSE y

\* _invalidate_after_commit.
Invalidate(w) ==
    /\ committed[w]
    /\ generation' = generation + 1
    /\ announced' = [t \in Table |-> Newer(announced[t], wrote[w][t])]
    /\ wrote' = [wrote EXCEPT ![w] = Zero]
    /\ committed' = [committed EXCEPT ![w] = FALSE]
    /\ UNCHANGED <<db, copy, built, expired, sure, builders, bounds>>

\* A write this process cannot see: a script, another instance.
WriteOutside(t) ==
    /\ writes < MaxWrites
    /\ writes' = writes + 1
    /\ db' = [db EXCEPT ![t] = @ + 1]
    /\ UNCHANGED <<announced, cache, builders, writers, faults>>

Expire ==
    /\ copy # NoCopy
    /\ ~expired
    /\ expired' = TRUE
    /\ UNCHANGED <<db, announced, generation, copy, built, sure, builders, writers, bounds>>

-----------------------------------------------------------------------------
(* Builds.                                                                 *)

\* b notes the generation and goes on to read the tables.
BeginBuild(b) ==
    /\ pc' = [pc EXCEPT ![b] = "read"]
    /\ at' = [at EXCEPT ![b] = generation]
    /\ next' = [next EXCEPT ![b] = 1]
    /\ got' = [got EXCEPT ![b] = Zero]
    /\ promise' = [promise EXCEPT ![b] = announced]

Stale == built # generation \/ expired

\* get with a copy: it is served; a stale one starts the one background rebuild.
GetStale ==
    /\ copy # NoCopy
    /\ Stale
    /\ pc[Thread] = "idle"
    /\ BeginBuild(Thread)
    /\ UNCHANGED <<db, announced, cache, writers, bounds>>

\* get_scoring_data with force_refresh (the job that scores every laptop).
ForceRefresh(q) ==
    /\ pc[q] = "idle"
    /\ pc' = [pc EXCEPT ![q] = "cold"]
    /\ UNCHANGED <<db, announced, cache, at, got, next, promise, writers, bounds>>

\* get_scoring_data without a copy: the request builds it itself.
GetCold(q) == copy = NoCopy /\ ForceRefresh(q)

BuildInline(q) ==
    /\ pc[q] = "cold"
    /\ BeginBuild(q)
    /\ UNCHANGED <<db, announced, cache, writers, bounds>>

\* One SELECT of _read.
Read(b) ==
    /\ pc[b] = "read"
    /\ next[b] <= Tables
    /\ got' = [got EXCEPT ![b][next[b]] = db[next[b]]]
    /\ next' = [next EXCEPT ![b] = @ + 1]
    /\ UNCHANGED <<db, announced, cache, pc, at, promise, writers, bounds>>

\* All is read; _build begins.
Build(b) ==
    /\ pc[b] = "read"
    /\ next[b] > Tables
    /\ pc' = [pc EXCEPT ![b] = "build"]
    /\ UNCHANGED <<db, announced, cache, at, got, next, promise, writers, bounds>>

\* The build's local variables are gone with it.
Done(b) ==
    /\ pc' = [pc EXCEPT ![b] = "idle"]
    /\ at' = [at EXCEPT ![b] = 0]
    /\ got' = [got EXCEPT ![b] = Zero]
    /\ next' = [next EXCEPT ![b] = 1]
    /\ promise' = [promise EXCEPT ![b] = Zero]

Keep(b, g) ==
    /\ copy' = got[b]
    /\ built' = g
    /\ expired' = FALSE
    /\ sure' = promise[b]
    /\ UNCHANGED generation

\* Mutants of Store: the copy is filed under today's generation; an older build
\* overwrites a newer copy.
StoreAsCurrent(b) ==
    /\ pc[b] = "build"
    /\ Keep(b, generation)
    /\ Done(b)
    /\ UNCHANGED <<db, announced, writers, bounds>>
StoreAlways(b) ==
    /\ pc[b] = "build"
    /\ Keep(b, at[b])
    /\ Done(b)
    /\ UNCHANGED <<db, announced, writers, bounds>>

\* store, and for the thread the end of _rebuild.
Store(b) ==
    /\ pc[b] = "build"
    /\ IF at[b] >= built THEN Keep(b, at[b]) ELSE UNCHANGED cache
    /\ Done(b)
    /\ UNCHANGED <<db, announced, writers, bounds>>

\* Mutant of Fail: the rebuild's flag is not reset when it raises.
FailStuck(b) ==
    /\ pc[b] \in {"read", "build"}
    /\ faults < MaxFaults
    /\ faults' = faults + 1
    /\ IF b = Thread
       THEN pc' = [pc EXCEPT ![b] = "cold"] /\ UNCHANGED <<at, got, next, promise>>
       ELSE Done(b)
    /\ UNCHANGED <<db, announced, cache, writers, writes>>

\* The build raises: the request fails, or the rebuild is logged and over.
Fail(b) ==
    /\ pc[b] \in {"read", "build"}
    /\ faults < MaxFaults
    /\ faults' = faults + 1
    /\ Done(b)
    /\ UNCHANGED <<db, announced, cache, writers, writes>>

-----------------------------------------------------------------------------
\* The process dies and starts again; only the tables survive.
Restart ==
    /\ faults < MaxFaults
    /\ faults' = faults + 1
    /\ generation' = 0 /\ copy' = NoCopy /\ built' = -1 /\ expired' = FALSE /\ sure' = Zero
    /\ pc' = [b \in Builder |-> IF b = Thread THEN "read" ELSE "idle"]
    /\ at' = [b \in Builder |-> 0]
    /\ got' = [b \in Builder |-> Zero]
    /\ next' = [b \in Builder |-> 1]
    /\ promise' = [b \in Builder |-> IF b = Thread THEN announced ELSE Zero]
    /\ wrote' = [w \in Writer |-> Zero] /\ committed' = [w \in Writer |-> FALSE]
    /\ UNCHANGED <<db, announced, writes>>

Work(b) == Read(b) \/ Build(b) \/ Store(b)

Next ==
    \/ \E w \in Writer : Invalidate(w) \/ \E T \in SUBSET Table : Commit(w, T)
    \/ \E t \in Table : WriteOutside(t)
    \/ Expire \/ GetStale \/ Restart
    \/ \E q \in Request : GetCold(q) \/ ForceRefresh(q) \/ BuildInline(q)
    \/ \E b \in Builder : Work(b) \/ Fail(b)

Spec == Init /\ [][Next]_vars

\* Builds run to their end, the hook follows its commit, time passes, and requests
\* keep coming.
FairSpec ==
    /\ Spec
    /\ \A b \in Builder : WF_vars(Work(b))
    /\ \A q \in Request : WF_vars(BuildInline(q)) /\ WF_vars(GetCold(q))
    /\ \A w \in Writer : WF_vars(Invalidate(w))
    /\ WF_vars(Expire) /\ WF_vars(GetStale)

-----------------------------------------------------------------------------
(* Properties.                                                             *)

\* A copy that counts as current holds every write that was announced, whatever
\* builds and writes overlapped ("keeps a rebuild that started before a write
\* from being filed as current", ranges_cache.py).
FreshIsCurrent ==
    built = generation => \A t \in Table : copy[t] >= announced[t]

\* A slow build that ends late never takes back a write the copy was sure to hold
\* (store's comparison of generations).
NoStepBack ==
    [][copy # NoCopy /\ copy' # NoCopy => \A t \in Table : copy'[t] >= sure[t]]_vars

\* When writes and failures are over the copy becomes the tables' content, with
\* the writes this process could not see (CACHE_TTL).
EventuallyCurrent == <>[](copy = db)

=============================================================================
