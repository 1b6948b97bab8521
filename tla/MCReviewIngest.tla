--------------------------- MODULE MCReviewIngest ---------------------------
(* ReviewIngest with two product lines and two videos: v1 has captions and is about f1;  *)
(* v2 has none, and the matcher assigns it to nobody or to a laptop without a family.    *)
EXTENDS ReviewIngest

CONSTANTS v1, v2, f1, f2

MCAbout == (v1 :> f1) @@ (v2 :> "nobody")
MCFinds == (f1 :> {v1}) @@ (f2 :> {v2})
MCWalk == <<f1, f2>>

=============================================================================
