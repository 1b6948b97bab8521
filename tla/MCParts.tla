------------------------------ MODULE MCParts -------------------------------
(* Instances of components that share no state, checked in one run: every     *)
(* behaviour is about one of them. part says which, and the variables of the  *)
(* others are Off.                                                            *)
EXTENDS TLC

CONSTANTS Off, None,
          theOne, theOther,  \* two that act at the same time: requests, turns, processes, jobs
          fam                \* a family

VARIABLE part

Symmetry == Permutations({theOne, theOther})
=============================================================================
