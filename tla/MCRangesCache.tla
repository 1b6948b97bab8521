---------------------------- MODULE MCRangesCache ----------------------------
(* RangesCache on two source tables, two writing sessions and one request.  *)
EXTENDS RangesCache

CONSTANTS q1, thread, w1, w2

=============================================================================
