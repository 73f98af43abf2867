---------------------------- MODULE MCScrapePool ----------------------------
(* Instances of ScrapePool for TLC: one pool, as pools share no state. *)
EXTENDS ScrapePool, TLC

CONSTANTS p1, t1, c1, c2

MCPools == {p1}
MCTargets == {t1}
MCConfigs == {c1, c2}

\* c1 keeps every target, the relabelling rules of c2 drop t1.
MCKept == c1 :> MCTargets @@ c2 :> {}

=============================================================================
