---------------------------- MODULE MCScrapeQueue ----------------------------
(* ScrapeQueue on one live page of two variants (ASUS), one uploaded page   *)
(* (Acer) and one Apple specs page, or a selection of these.                *)
EXTENDS ScrapeQueue

CONSTANTS asus, acer, apple

MCVariants == [p \in Page |-> IF p = asus THEN 2 ELSE 1]

=============================================================================
