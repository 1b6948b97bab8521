--------------------------- MODULE SearchPipeline ---------------------------
(* The catalogue search of the agent: retrieve, rerank, relax, gate, one     *)
(* laptop per family, the shortlist. Scores are in thousandths, prices and   *)
(* weights in the units the relaxation steps by.                             *)
EXTENDS Integers, FiniteSets, Sequences, SequencesExt, Sorting

CONSTANTS Ids,          \* laptop ids: numbers, since they break ties
          Specs,        \* [price, weight, similarity, family, named, apt]: the laptops a
                        \* catalogue may hold; named: of the asked brand; apt: the CPU fits
          Requests,     \* [budget, weight, brand, apt, topK]
          None,         \* no constraint; an unknown weight; no family
          RecallSize, MaxResults,
          Viable, Relevant,         \* _MIN_VIABLE_SCORE, RELEVANCE_THRESHOLD
          FallbackSimilarity,
          MaxWeightSteps, MaxBudgetSteps

SearchAssumption ==
    /\ Ids \subseteq Nat /\ IsFiniteSet(Ids)
    /\ {RecallSize, MaxResults, MaxWeightSteps, MaxBudgetSteps} \subseteq Nat \ {0}
    /\ {Viable, Relevant, FallbackSimilarity} \subseteq 0..1000 /\ Viable <= Relevant
    /\ None \notin Nat
    /\ \A s \in Specs : {s.price, s.similarity} \subseteq Nat /\ s.weight \in Nat \cup {None}
    /\ Requests \subseteq [budget : Nat \cup {None}, weight : Nat \cup {None},
                           brand : BOOLEAN, apt : BOOLEAN, topK : Nat]

VARIABLES catalogue,   \* the active laptops: id -> spec
          request,     \* the search asked for
          answer       \* what the tool returns

search == <<catalogue, request, answer>>
NoAnswer == [results |-> <<>>, ranked |-> <<>>, relaxed |-> None, by |-> 0, bottleneck |-> None]

SearchInit ==
    /\ catalogue \in UNION {[C -> Specs] : C \in SUBSET Ids}
    /\ request = None
    /\ answer = NoAnswer

Min2(a, b) == IF a < b THEN a ELSE b
Max2(a, b) == IF a > b THEN a ELSE b

-----------------------------------------------------------------------------
(* Retrieval                                                                 *)

WithinBudget(q) == {l \in DOMAIN catalogue : q.budget = None \/ catalogue[l].price <= q.budget}
WithinWeight(S, limit) ==
    {l \in S : limit = None \/ (catalogue[l].weight # None /\ catalogue[l].weight <= limit)}

(* By similarity; without an embedding, by price, all with the same           *)
(* placeholder, and filtered by weight if `limit` is passed.                  *)
Retrieve(q, embedded, limit) ==
    IF embedded
    THEN First(InOrder(WithinBudget(q), LAMBDA l, m :
                   \/ catalogue[l].similarity > catalogue[m].similarity
                   \/ catalogue[l].similarity = catalogue[m].similarity /\ l < m), RecallSize)
    ELSE First(InOrder(WithinWeight(WithinBudget(q), limit), LAMBDA l, m :
                   \/ catalogue[l].price < catalogue[m].price
                   \/ catalogue[l].price = catalogue[m].price /\ l < m), RecallSize)

-----------------------------------------------------------------------------
(* Reranking                                                                 *)

(* Percent: a decaying factor up to 10 % over, a lower one up to 30 %.        *)
BudgetPenalty(price, budget) ==
    IF budget = None \/ price <= budget THEN 100
    ELSE LET over == ((price - budget) * 100) \div budget IN
         CASE over <= 10 -> Max2(50, 100 - 2 * over)
           [] over > 10 /\ over <= 30 -> Max2(30, 100 - (3 * over) \div 2)
           [] OTHER -> 10

WeightPenalty(weight, limit) ==
    CASE limit = None \/ weight = None -> 100
      [] limit # None /\ weight # None /\ weight <= limit -> 100
      [] limit # None /\ weight # None /\ weight > limit /\ 5 * (weight - limit) <= limit -> 70
      [] OTHER -> 20

Bonus(spec, q) ==
    (IF q.apt /\ spec.apt THEN 40 ELSE 0)
    + (IF ~q.brand THEN 0 ELSE IF spec.named THEN 50 ELSE -250)

Score(l, q, embedded) ==
    LET spec == catalogue[l]
        similarity == IF embedded THEN spec.similarity ELSE FallbackSimilarity
    IN  (similarity * BudgetPenalty(spec.price, q.budget) * WeightPenalty(spec.weight, q.weight))
            \div 10000 + Bonus(spec, q)

(* A limit drops the laptops of unknown weight.                               *)
Rerank(candidates, q, embedded) ==
    LET kept == {l \in ToSet(candidates) : q.weight = None \/ catalogue[l].weight # None} IN
    InOrder(kept, LAMBDA l, m :
        \/ Score(l, q, embedded) > Score(m, q, embedded)
        \/ Score(l, q, embedded) = Score(m, q, embedded) /\ l < m)

AnyViable(ranked, q, embedded) == \E i \in DOMAIN ranked : Score(ranked[i], q, embedded) >= Viable

-----------------------------------------------------------------------------
(* Relaxation: one constraint at a time, each from the value asked for; the   *)
(* weight first.                                                              *)

Relaxed(q, field, n) ==
    IF field = "weight" THEN [q EXCEPT !.weight = @ + n] ELSE [q EXCEPT !.budget = @ + n]
Tries(q) ==
    (IF q.weight = None THEN <<>> ELSE [n \in 1..MaxWeightSteps |-> <<"weight", n>>])
    \o (IF q.budget = None THEN <<>> ELSE [n \in 1..MaxBudgetSteps |-> <<"budget", n>>])
Retried(q, try, embedded) ==
    LET r == Relaxed(q, try[1], try[2]) IN Rerank(Retrieve(r, embedded, None), r, embedded)

Helps(q, i, embedded) ==
    LET try == Tries(q)[i]
    IN  AnyViable(Retried(q, try, embedded), Relaxed(q, try[1], try[2]), embedded)

RelaxAnyway(q, ranked, embedded) ==      \* mutant: a viable list is relaxed as well
    {i \in DOMAIN Tries(q) : Helps(q, i, embedded)}

(* The tries that help; the first of them is made.                            *)
Helpful(q, ranked, embedded) ==
    IF AnyViable(ranked, q, embedded) THEN {}
    ELSE {i \in DOMAIN Tries(q) : Helps(q, i, embedded)}

-----------------------------------------------------------------------------
(* The gate and the shortlist                                                *)

(* relevance_gate: only the best is looked at.                                *)
Gated(ranked, q, embedded) == ranked = <<>> \/ Score(ranked[1], q, embedded) < Relevant

(* Which constraint the penalties of the first ten blame.                     *)
Bottleneck(ranked, q) ==
    LET top == ToSet(First(ranked, 10))
        budget == Cardinality({l \in top : BudgetPenalty(catalogue[l].price, q.budget) < 100})
        weight == Cardinality({l \in top : WeightPenalty(catalogue[l].weight, q.weight) < 100})
    IN  CASE budget = 0 /\ weight = 0 -> "general"
          [] budget >= weight /\ budget > 0 -> "budget"
          [] OTHER -> "weight_limit"

Distance(l, budget) == IF catalogue[l].price > budget THEN catalogue[l].price - budget
                       ELSE budget - catalogue[l].price

(* A family stands where its best placed member stood; with a budget it is    *)
(* shown as its member nearest to it.                                         *)
OnePerFamily(ranked, budget) ==
    LET Family(i) == catalogue[ranked[i]].family
        Leads(i) == Family(i) = None \/ \A j \in 1..(i - 1) : Family(j) # Family(i)
        Members(i) == IF Family(i) = None THEN {i}
                      ELSE {j \in DOMAIN ranked : Family(j) = Family(i)}
        Nearest(i) == CHOOSE j \in Members(i) : \A k \in Members(i) :
                          \/ Distance(ranked[j], budget) < Distance(ranked[k], budget)
                          \/ Distance(ranked[j], budget) = Distance(ranked[k], budget) /\ j <= k
        leaders == InOrder({i \in DOMAIN ranked : Leads(i)}, LAMBDA i, j : i < j)
    IN  [n \in DOMAIN leaders |-> ranked[IF budget = None THEN leaders[n] ELSE Nearest(leaders[n])]]

Shortlist(ranked, budget, topK) ==
    First(OnePerFamily(ranked, budget), Min2(topK, MaxResults))

(* _run_search. The stated weight filters the first retrieval only.           *)
Answer(q, embedded) ==
    LET first   == Rerank(Retrieve(q, embedded, q.weight), q, embedded)
        helpful == Helpful(q, first, embedded)
        try     == IF helpful = {} THEN <<None, 0>> ELSE Tries(q)[Min(helpful)]
        inForce == IF helpful = {} THEN q ELSE Relaxed(q, try[1], try[2])
        ranked  == CASE helpful # {} -> Retried(q, try, embedded)
                     [] helpful = {} /\ AnyViable(first, q, embedded) -> first
                     [] OTHER -> <<>>
        gated   == Gated(ranked, inForce, embedded)
    IN  [results    |-> IF gated THEN <<>> ELSE Shortlist(ranked, inForce.budget, q.topK),
         ranked     |-> ranked,
         relaxed    |-> IF gated THEN None ELSE try[1],
         by         |-> IF gated THEN 0 ELSE try[2],
         bottleneck |-> IF gated THEN Bottleneck(ranked, inForce) ELSE None]

Search(q, embedded) ==
    /\ request = None
    /\ request' = q
    /\ answer' = Answer(q, embedded)
    /\ UNCHANGED catalogue

SearchNext == \E q \in Requests, embedded \in BOOLEAN : Search(q, embedded)

-----------------------------------------------------------------------------
(* Properties                                                                *)

Shown == ToSet(answer.results)

(* No result is over the budget unless the answer says that it was raised,    *)
(* and by how much; and the budget is only raised when no laptop within it    *)
(* reaches the floor of viability, whichever way it was retrieved.            *)
BudgetHonoured ==
    request # None /\ request.budget # None =>
        /\ \A l \in Shown : catalogue[l].price <= request.budget + answer.by
        /\ \A l \in Shown : catalogue[l].price > request.budget => answer.relaxed = "budget"
        /\ answer.relaxed # None =>
              ~\E l \in WithinWeight(WithinBudget(request), request.weight) :
                  Min2(catalogue[l].similarity, FallbackSimilarity) + Bonus(catalogue[l], request) >= Viable
=============================================================================
