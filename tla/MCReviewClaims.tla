--------------------------- MODULE MCReviewClaims ---------------------------
(* ReviewClaims on a video of two or three windows and two product lines.  *)
EXTENDS ReviewClaims

MCWindow == {0, 60}

=============================================================================
