--------------------------- MODULE ScrapeHandover ---------------------------
(***************************************************************************)
(* What a scrape pool promises about a target, without maps, goroutines or *)
(* contexts: its scrapes are handed from loop to loop.  The loops of a     *)
(* target are numbered in the order they are created.  A loop may work for *)
(* the target when every earlier one has retired for good, and it retires  *)
(* when it is not working.                                                 *)
(***************************************************************************)
EXTENDS Naturals

CONSTANTS Pools, Targets, MaxLoops

VARIABLES
    busy,       \* the loops that are fetching or writing a profile
    retired     \* the loops that will not do so again

vars == <<busy, retired>>

Loops == Pools \X Targets \X (1..MaxLoops)

Earlier(l) == {m \in Loops : m[1] = l[1] /\ m[2] = l[2] /\ m[3] < l[3]}

Begin(l) ==
    /\ l \notin busy \cup retired
    /\ Earlier(l) \subseteq retired
    /\ busy' = busy \cup {l}
    /\ UNCHANGED retired

End(l) ==
    /\ l \in busy
    /\ busy' = busy \ {l}
    /\ UNCHANGED retired

Retire(l) ==
    /\ l \notin busy
    /\ retired' = retired \cup {l}
    /\ UNCHANGED busy

Init == busy = {} /\ retired = {}

Next == \E l \in Loops : Begin(l) \/ End(l) \/ Retire(l)

Spec == Init /\ [][Next]_vars
=============================================================================
