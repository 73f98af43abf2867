-------------------------- MODULE MCScrapeManager --------------------------
(* Instances of ScrapeManager for TLC: one job, whose pool may be deleted and *)
(* created again, and one target.                                           *)
EXTENDS ScrapeManager, TLC

CONSTANTS p1, p2, t1, c1, c2, j1

MCPools == {p1, p2}
MCTargets == {t1}
MCConfigs == {c1, c2}
MCKept == c1 :> MCTargets @@ c2 :> MCTargets
MCJobs == {j1}
MCJobOf == [p \in Pools |-> j1]


=============================================================================
