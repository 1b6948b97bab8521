------------------------------ MODULE Sorting ------------------------------
(* Sorted lists, defined so that a proof can use them.                        *)
EXTENDS Naturals, FiniteSets, Sequences

(* A set in a strict total order: sorted(), ORDER BY. The place of an element *)
(* is the number of those before it.                                          *)
InOrder(S, Before(_, _)) ==
    [i \in 1..Cardinality(S) |-> CHOOSE x \in S : Cardinality({y \in S : Before(y, x)}) = i - 1]

(* s[:n], LIMIT n.                                                            *)
First(s, n) == SubSeq(s, 1, IF Len(s) < n THEN Len(s) ELSE n)
=============================================================================
