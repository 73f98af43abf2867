--------------------------- MODULE MCScrapeTargets ---------------------------
(* An instance of ScrapeTargets for TLC. *)
EXTENDS ScrapeTargets

=============================================================================
