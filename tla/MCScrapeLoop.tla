---------------------------- MODULE MCScrapeLoop ----------------------------
(* Instances of ScrapeLoop for TLC. *)
EXTENDS ScrapeLoop, TLC

CONSTANTS l1, l2, l3, b1, b2, b3

\* Slices are interchangeable; so are loops.
MCSymmetry == Permutations({b1, b2, b3}) \cup Permutations({l1, l2, l3})

=============================================================================
