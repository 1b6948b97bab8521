----------------------------- MODULE PickScore -----------------------------
(* The PickScore: benchmark resolution, the eight factor scores, the weights, *)
(* the stored scores per use case and the ranking made of them. A factor is   *)
(* scored in thirtieths of a point, so that percentiles of up to six laptops  *)
(* and the 60/40 split of ram and storage stay whole; weights are hundredths. *)
EXTENDS Integers, FiniteSets, Sequences, SequencesExt, FiniteSetsExt, Sorting

CONSTANTS Models,        \* laptop ids: numbers, since the id closes the order
          Machines,      \* [price, cpu, gpu, ram, storage, hdd, weight, battery, size, brand, line]
          Unknown,       \* no value; no preference; no family; no row
          CpuTable, GpuTable,    \* benchmark tables: row name -> mark
          Confidence,    \* the fuzzy scorer: a name -> a row name -> percent
          PartNumber,    \* a name or a row -> the Qualcomm part number in it, or Unknown
          Placeholders,  \* strings that are not a part's name
          Anchored,      \* GPU strings with a model number in them
          Canonical,     \* a name or a row -> what is left without vendor words and laptop suffix
          Suffixed,      \* the names and rows that end in the laptop suffix
          Overrides,     \* canonical names whose laptop row is given by hand
          AppleRow,      \* Apple's core-count names -> the row they are compared to
          IntegratedRow, \* a CPU string -> its integrated GPU
          CpuThreshold, GpuThreshold,
          Profiles,      \* USE_CASE_PRIORITIES: use case -> factor -> weight
          Boosts,        \* PURPOSE_MODIFIERS: purpose -> factor -> tenths
          Wishes         \* stored preferences: [budget, size, brands, purposes, carry, priorities]

Factors == {"price", "cpu", "gpu", "ram_storage", "portability", "battery", "screen_size", "brand"}
Full == 3000
Neutral == 1500

(* Columns: only a weight and a battery may be missing, and a price of 0 is   *)
(* none. The fuzzy scorer knows every name that is looked up. Priorities are  *)
(* meant to be 1 to 10; that not all of them are 0 is enough to divide by.    *)
ASSUME PickScoreAssumption ==
    /\ Models \subseteq Nat /\ IsFiniteSet(Models) /\ Cardinality(Models) <= 6
    /\ {CpuThreshold, GpuThreshold} \subseteq 0..100
    /\ \A u \in DOMAIN Profiles : Profiles[u] \in [Factors -> Nat \ {0}]
    /\ Unknown \notin Nat \cup Wishes \cup DOMAIN CpuTable \cup DOMAIN GpuTable
    /\ \A x \in Machines : /\ {x.price, x.ram, x.storage, x.size} \subseteq Nat
                          /\ {x.weight, x.battery} \subseteq Nat \cup {Unknown}
                          /\ {x.cpu, x.gpu} \subseteq DOMAIN Confidence
    /\ \A table \in {CpuTable, GpuTable} :
          /\ IsFiniteSet(DOMAIN table) /\ DOMAIN table \subseteq DOMAIN Confidence
          /\ \A r \in DOMAIN table : table[r] \in Nat
                                    /\ \A name \in DOMAIN Confidence : Confidence[name][r] \in Nat
    /\ \A map \in {Overrides, AppleRow, IntegratedRow} :
          \A name \in DOMAIN map : map[name] \in DOMAIN Confidence
    /\ \A p \in DOMAIN Boosts : \A f \in DOMAIN Boosts[p] : Boosts[p][f] \in Nat
    /\ \A w \in Wishes :
          /\ {w.budget, w.size} \subseteq Nat \cup {Unknown} /\ IsFiniteSet(w.purposes)
          /\ \A f \in DOMAIN w.priorities : w.priorities[f] \in Nat
          /\ \E f \in Factors : f \in DOMAIN w.priorities => w.priorities[f] # 0

VARIABLES machine,   \* the catalogue: id -> machine
          onSale,    \* the active laptops
          scoreRows, \* laptop_pick_scores: id -> use case -> row, or Unknown
          served     \* the last page served: [useCase, ids, summary], a ranking or a summary

pickscore == <<machine, onSale, scoreRows, served>>
Unserved == [useCase |-> Unknown, ids |-> <<>>, summary |-> Unknown]

ScoreInit ==
    /\ machine \in [Models -> Machines]
    /\ onSale = Models
    /\ scoreRows = [m \in Models |-> Unknown]
    /\ served = Unserved

-----------------------------------------------------------------------------
(* Benchmark resolution                                                       *)

Nearest(name, rows) ==
    CHOOSE r \in rows : \A q \in rows : Confidence[name][q] <= Confidence[name][r]
SamePart(name, rows) ==
    {r \in rows : PartNumber[name] # Unknown /\ PartNumber[r] = PartNumber[name]}

(* resolve_benchmark: the row a name stands for, or Unknown. A part number is *)
(* matched exactly; another name by its nearest row, from the threshold up.   *)
ResolveBenchmark(name, table, threshold) ==
    LET rows == DOMAIN table IN
    CASE name \in Placeholders \/ rows = {} -> Unknown
      [] name \notin Placeholders /\ SamePart(name, rows) # {} -> Nearest(name, SamePart(name, rows))
      [] OTHER -> IF Confidence[name][Nearest(name, rows)] >= threshold
                  THEN Nearest(name, rows) ELSE Unknown

(* The rows a diagnosis shows, in the order of their nearness.                *)
ClosestBenchmarks(name, table) ==
    LET rows == IF SamePart(name, DOMAIN table) # {} THEN SamePart(name, DOMAIN table) ELSE DOMAIN table
        order == SetToSortSeq(rows, LAMBDA r, q : Confidence[name][r] > Confidence[name][q])
    IN  IF name \in Placeholders THEN <<>> ELSE First(order, 3)

(* _laptop_variant: the laptop row of the same part, exactly; the name itself *)
(* if there is none or if it is one.                                          *)
AsLaptop(gpu) ==
    LET rows == {r \in DOMAIN GpuTable \cap Suffixed : Canonical[r] = Canonical[gpu]} IN
    CASE gpu \in Suffixed -> gpu
      [] gpu \notin Suffixed /\ Canonical[gpu] \in DOMAIN Overrides -> Overrides[Canonical[gpu]]
      [] OTHER -> IF rows = {} THEN gpu ELSE CHOOSE r \in rows : TRUE

(* resolve_gpu_benchmark: a name with a model number stands for itself or for *)
(* its laptop row; any other goes by Apple's map, then by the CPU.            *)
GpuRow(name) == ResolveBenchmark(name, GpuTable, GpuThreshold)
ResolveGpu(gpu, cpu) ==
    LET apple == IF gpu \in DOMAIN AppleRow THEN GpuRow(AppleRow[gpu]) ELSE Unknown
        fused == IF cpu \in DOMAIN IntegratedRow THEN GpuRow(IntegratedRow[cpu]) ELSE Unknown
    IN  CASE gpu \in Anchored -> [row |-> GpuRow(AsLaptop(gpu)), proxy |-> FALSE]
          [] gpu \notin Anchored /\ apple # Unknown -> [row |-> apple, proxy |-> TRUE]
          [] OTHER -> [row |-> fused, proxy |-> TRUE]

(* gpu_diagnosis: the same path, but one that stops at Apple's map.           *)
GpuDiagnosis(gpu, cpu) ==
    CASE gpu \in Anchored -> ClosestBenchmarks(AsLaptop(gpu), GpuTable)
      [] gpu \notin Anchored /\ gpu \in DOMAIN AppleRow -> ClosestBenchmarks(AppleRow[gpu], GpuTable)
      [] gpu \notin Anchored \cup DOMAIN AppleRow /\ cpu \in DOMAIN IntegratedRow ->
             ClosestBenchmarks(IntegratedRow[cpu], GpuTable)
      [] OTHER -> <<>>

(* The memos of _build: one resolution a string, or pair of strings.          *)
CpuMarks ==
    [cpu \in {x.cpu : x \in Machines} |->
        LET row == ResolveBenchmark(cpu, CpuTable, CpuThreshold) IN
        IF row = Unknown THEN Unknown ELSE CpuTable[row]]
GpuMarks ==
    [pair \in {<<x.gpu, x.cpu>> : x \in Machines} |->
        LET gpu == ResolveGpu(pair[1], pair[2]) IN
        [mark |-> IF gpu.row = Unknown THEN Unknown ELSE GpuTable[gpu.row], proxy |-> gpu.proxy]]
CpuMark(m) == CpuMarks[machine[m].cpu]
GpuMark(m) == GpuMarks[<<machine[m].gpu, machine[m].cpu>>].mark
OfStandIn(m) == GpuMarks[<<machine[m].gpu, machine[m].cpu>>].proxy

-----------------------------------------------------------------------------
(* Factor scores                                                              *)

(* The value of a laptop that a factor ranks by.                              *)
Value(m, f) ==
    CASE f = "cpu" -> CpuMark(m) [] f = "gpu" -> GpuMark(m)
      [] f = "price" -> IF machine[m].price = 0 THEN Unknown ELSE machine[m].price
      [] OTHER -> machine[m][f]

(* _build: per value the active laptops for which it is known.                *)
Ranked == {"price", "cpu", "gpu", "ram", "storage", "weight", "battery"}
Build == [f \in Ranked |-> [m \in {m \in onSale : Value(m, f) # Unknown} |-> Value(m, f)]]

(* A mark that no laptop has is ranked between the bounds of its table.       *)
Table(f) == IF f = "cpu" THEN CpuTable ELSE GpuTable
Bounds(f) == LET marks == {Table(f)[r] : r \in DOMAIN Table(f)}
             IN  IF f \in {"cpu", "gpu"} /\ marks # {} THEN <<Min(marks), Max(marks)>> ELSE <<0, 0>>

(* _normalize: the middle of the block of equals among the known.             *)
Percentile(v, known) ==
    LET below == Cardinality({m \in DOMAIN known : known[m] < v})
        equal == Cardinality({m \in DOMAIN known : known[m] = v})
    IN  ((2 * below + equal) * (Full \div 2)) \div Cardinality(DOMAIN known)
MinMax(v, b) ==
    IF b[2] <= b[1] THEN Neutral ELSE Max({0, Min({Full, ((v - b[1]) * Full) \div (b[2] - b[1])})})
Normalize(v, f, build, inverse) ==
    LET unranked == DOMAIN build[f] = {}
        score == IF unranked THEN MinMax(v, Bounds(f)) ELSE Percentile(v, build[f])
    IN  IF v = Unknown \/ (unranked /\ Bounds(f)[2] <= Bounds(f)[1]) THEN Neutral
        ELSE IF inverse THEN Full - score ELSE score

(* Nothing of the score is left at half as much again as a stated budget.     *)
ScorePrice(m, w, build) ==
    LET price == machine[m].price
        base == Normalize(IF price = 0 THEN Unknown ELSE price, "price", build, TRUE)
    IN  IF price = 0 \/ w = Unknown \/ w.budget \in {Unknown, 0} \/ price <= w.budget THEN base
        ELSE (base * Max({0, 3 * w.budget - 2 * price})) \div w.budget
ScoreRamStorage(m, build) ==
    LET storage == Normalize(machine[m].storage, "storage", build, FALSE) IN
    (3 * Normalize(machine[m].ram, "ram", build, FALSE)
       + 2 * (IF machine[m].hdd THEN Max({0, storage - 450}) ELSE storage)) \div 5
ScoreScreen(m, w) ==        \* sizes are the three buckets
    IF w = Unknown \/ w.size = Unknown THEN Neutral
    ELSE Full - 1200 * (IF w.size > machine[m].size THEN w.size - machine[m].size
                        ELSE machine[m].size - w.size)
ScoreBrand(m, w) == IF w # Unknown /\ machine[m].brand \in w.brands THEN Full ELSE Neutral

HeavierIsBetter(m, f, w, build) ==     \* mutant: the weight is ranked like the other values
    CASE f = "price" -> ScorePrice(m, w, build)
      [] f \in {"cpu", "gpu", "battery"} -> Normalize(Value(m, f), f, build, FALSE)
      [] f = "portability" -> Normalize(machine[m].weight, "weight", build, FALSE)
      [] f = "ram_storage" -> ScoreRamStorage(m, build)
      [] f = "screen_size" -> ScoreScreen(m, w)
      [] f = "brand" -> ScoreBrand(m, w)

FactorScore(m, f, w, build) ==
    CASE f = "price" -> ScorePrice(m, w, build)
      [] f \in {"cpu", "gpu", "battery"} -> Normalize(Value(m, f), f, build, FALSE)
      [] f = "portability" -> Normalize(machine[m].weight, "weight", build, TRUE)
      [] f = "ram_storage" -> ScoreRamStorage(m, build)
      [] f = "screen_size" -> ScoreScreen(m, w)
      [] f = "brand" -> ScoreBrand(m, w)

(* _compute_weights: a wish boosts by the most of its purposes, 1.3 at most;  *)
(* a use case only has its profile.                                           *)
Boost(w, f) == Min({13, Max({10} \cup {Boosts[p][f] : p \in {p \in w.purposes \cap DOMAIN Boosts : f \in DOMAIN Boosts[p]}})})
Weight(w, profile, f) ==
    IF w = Unknown THEN 100 * profile[f]
    ELSE (IF f \in DOMAIN w.priorities THEN w.priorities[f] ELSE 1) * Boost(w, f)
         * (IF f # "portability" THEN 10 ELSE CASE w.carry = "Yes" -> 14 [] w.carry = "No" -> 5 [] OTHER -> 10)

Rounded(n, d) ==            \* to the nearest, a half to the even one
    LET q == n \div d  r == 2 * (n % d) IN
    IF r > d \/ (r = d /\ q % 2 = 1) THEN q + 1 ELSE q

ProxyAsResolved(m) ==       \* mutant: the flag of a GPU without a mark is the resolver's
    [proxy |-> OfStandIn(m), missing |-> GpuMark(m) = Unknown]

(* A GPU that has no mark is flagged like one that has another part's.        *)
GpuFlags(m) ==
    [proxy |-> GpuMark(m) = Unknown \/ OfStandIn(m), missing |-> GpuMark(m) = Unknown]

SumOf(t) == t["price"] + t["cpu"] + t["gpu"] + t["ram_storage"] + t["portability"]
            + t["battery"] + t["screen_size"] + t["brand"]

(* calculate_pick_score: withheld when neither processor was identified.      *)
PickScore(m, w, profile, build) ==
    LET weights == [f \in Factors |-> Weight(w, profile, f)]
        parts   == [f \in Factors |-> weights[f] * FactorScore(m, f, w, build)]
    IN  [score      |-> IF CpuMark(m) = Unknown /\ GpuMark(m) = Unknown THEN Unknown
                        ELSE Rounded(SumOf(parts), 30 * SumOf(weights)),
         proxy      |-> GpuFlags(m).proxy,
         gpuMissing |-> GpuFlags(m).missing,
         cpuMissing |-> CpuMark(m) = Unknown]

-----------------------------------------------------------------------------
(* The stored scores                                                          *)

(* generate_all_pick_scores, as one step: it writes in one transaction.       *)
Recalculate ==
    /\ LET build == Build IN
       scoreRows' = [m \in Models |->
           IF m \in onSale THEN [u \in DOMAIN Profiles |-> PickScore(m, Unknown, Profiles[u], build)]
           ELSE scoreRows[m]]
    /\ UNCHANGED <<machine, onSale, served>>

(* An edit of the status; rows are kept.                                      *)
ChangeStatus(m) ==
    /\ onSale' = IF m \in onSale THEN onSale \ {m} ELSE onSale \cup {m}
    /\ UNCHANGED <<machine, scoreRows, served>>

(* The order of a ranking: by score, then price, then id; in the gaming one   *)
(* after every laptop with a mark of its own.                                 *)
Precedes(m, n, u) ==
    LET a == scoreRows[m][u]  b == scoreRows[n][u]
        SortKey(i, r) == <<IF u = "gaming" /\ r.proxy THEN 1 ELSE 0, -r.score, machine[i].price, i>>
        j == CHOOSE j \in 1..4 : /\ SortKey(m, a)[j] # SortKey(n, b)[j]
                                 /\ \A k \in 1..(j - 1) : SortKey(m, a)[k] = SortKey(n, b)[k]
    IN  SortKey(m, a)[j] < SortKey(n, b)[j]

(* get_ranking_for_use_case: one laptop of a line, cut to size afterwards.    *)
LineLeader(m, S, u) ==
    machine[m].line = Unknown \/ \A n \in S \ {m} : machine[n].line = machine[m].line => Precedes(m, n, u)
Ranking(u) ==
    LET rows == {m \in onSale : scoreRows[m] # Unknown /\ scoreRows[m][u].score # Unknown}
    IN  InOrder({m \in rows : LineLeader(m, rows, u)},
                LAMBDA m, n : m # n /\ Precedes(m, n, u))

Rank(u, limit) ==
    /\ served' = [Unserved EXCEPT !.useCase = u, !.ids = First(Ranking(u), limit)]
    /\ UNCHANGED <<machine, onSale, scoreRows>>

(* The counts of the stored rows of the active laptops, and of each one that  *)
(* was flagged the benchmark rows nearest to what was not identified: by the  *)
(* flags as scored, by the tables as they are.                                *)
Problem(m) ==
    LET Flagged(flag) == \E u \in DOMAIN Profiles : scoreRows[m][u][flag] IN
    [id  |-> m,
     cpu |-> IF Flagged("cpuMissing") THEN ClosestBenchmarks(machine[m].cpu, CpuTable) ELSE <<>>,
     gpu |-> IF Flagged("gpuMissing") THEN GpuDiagnosis(machine[m].gpu, machine[m].cpu) ELSE <<>>]

Counts ==
    LET generated == {m \in onSale : scoreRows[m] # Unknown}
        scored == {m \in generated : \E u \in DOMAIN Profiles : scoreRows[m][u].score # Unknown}
    IN  [scored |-> Cardinality(scored), withheld |-> Cardinality(generated) - Cardinality(scored),
         missing |-> Cardinality(onSale) - Cardinality(generated)]

Summarise ==
    LET generated == {m \in onSale : scoreRows[m] # Unknown}
    IN  /\ served' = [Unserved EXCEPT !.summary =
               [counts   |-> Counts,
                problems |-> {Problem(m) : m \in {m \in generated : \E u \in DOMAIN Profiles :
                                 scoreRows[m][u].cpuMissing \/ scoreRows[m][u].gpuMissing}}]]
        /\ UNCHANGED <<machine, onSale, scoreRows>>

ScoreNext ==
    \/ Summarise
    \/ Recalculate
    \/ \E m \in Models : ChangeStatus(m)
    \/ \E u \in DOMAIN Profiles, limit \in 1..2 : Rank(u, limit)

-----------------------------------------------------------------------------
(* Properties                                                                 *)

(* A laptop that is at least as good in every respect, all of it known, never *)
(* scores lower: not by the profile of any use case, not for any wish.        *)
NoWorse(m, n) ==
    /\ \A f \in {"price", "cpu", "gpu", "weight", "battery"} : Unknown \notin {Value(m, f), Value(n, f)}
    /\ \A f \in {"price", "weight"} : Value(m, f) <= Value(n, f)
    /\ \A f \in {"cpu", "gpu", "battery", "ram", "storage"} : Value(m, f) >= Value(n, f)
    /\ machine[m].hdd => machine[n].hdd
    /\ machine[m].size = machine[n].size /\ machine[m].brand = machine[n].brand
Dominance ==
    LET build == Build
        Score(m, w, profile) == PickScore(m, w, profile, build).score
    IN  \A m, n \in onSale : NoWorse(m, n) =>
            /\ \A u \in DOMAIN Profiles : Score(m, Unknown, Profiles[u]) >= Score(n, Unknown, Profiles[u])
            /\ \A w \in Wishes : Score(m, w, Unknown) >= Score(n, w, Unknown)

Measured(m) == GpuMark(m) # Unknown /\ ~OfStandIn(m)

(* In the gaming ranking no laptop whose own GPU has no mark - unknown, or    *)
(* scored by another part - stands before one whose GPU has.                  *)
MeasuredFirst ==
    served.useCase = "gaming" =>
        \A i, j \in DOMAIN served.ids : i < j /\ Measured(served.ids[j]) => Measured(served.ids[i])
=============================================================================
