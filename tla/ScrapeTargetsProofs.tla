------------------------- MODULE ScrapeTargetsProofs -------------------------
(***************************************************************************)
(* Proofs about ScrapeTargets, for every set of profile types, values of   *)
(* seconds and number of syncs: a job whose configuration has no params.   *)
(* Each target then has a map of its own, so what is added for one profile *)
(* type reaches no other target and no later call, whatever the order in   *)
(* which Go visits the types.  With params (Shared) neither holds: the run *)
(* scrape_targets_params shows it of the first.                            *)
(***************************************************************************)
EXTENDS ScrapeTargets, TLAPS

\* The target of a profile type, and what hash() is computed from.
TargetOf(pt) == [typ |-> pt, label |-> 0, params |-> Added(pt)]
IdentityOf(pt) == [typ |-> pt, label |-> 0, url |-> Added(pt)]

AllIdentities == {IdentityOf(pt) : pt \in ProfTypes}

\* What a call has built are the targets of the types it has visited; the loops that
\* run are those of all types, once a call is over.
OwnInd ==
    /\ params = <<>>
    /\ pc \in {"idle", "build"} /\ syncs \in Nat
    /\ pc = "build" =>
        /\ syncs > 0 /\ todo \subseteq ProfTypes
        /\ built = {TargetOf(pt) : pt \in ProfTypes \ todo}
    /\ active = {} \/ active = AllIdentities
    /\ syncs > (IF pc = "build" THEN 1 ELSE 0) => active = AllIdentities

\* A Sync with an unchanged configuration starts no loop and stops none: a loop keeps its
\* identity although its URL is computed again.
RepeatedSyncKeepsLoops ==
    [][Sync /\ syncs > 1 => active' = active /\ started' = {}]_vars

-----------------------------------------------------------------------------
\* The identity of a target does not depend on the call that built it.
LEMMA OwnHash ==
    ASSUME ~Shared, NEW pt
    PROVE  hash(TargetOf(pt)) = IdentityOf(pt)
BY DEF hash, URL, TargetOf, IdentityOf

\* When all types have been visited, the identities are those of all types.
LEMMA OwnIdentities ==
    ASSUME ~Shared, OwnInd, pc = "build", todo = {}
    PROVE  {hash(t) : t \in built} = AllIdentities
<1>1. built = {TargetOf(pt) : pt \in ProfTypes}
  BY DEF OwnInd
<1>2. {hash(t) : t \in built} = {hash(TargetOf(pt)) : pt \in ProfTypes}
  BY <1>1
<1>3. QED
  BY <1>2, OwnHash DEF AllIdentities

\* The steps of Sync.
LEMMA OwnStep ==
    ASSUME ~Shared, OwnInd, [Next]_vars
    PROVE  OwnInd'
<1>0. UNCHANGED pprof
  BY DEF Next, SyncBegin, NewTarget, Sync, vars
<1>1. AllIdentities' = AllIdentities /\ \A pt : TargetOf(pt)' = TargetOf(pt)
  BY <1>0 DEF AllIdentities, IdentityOf, TargetOf, Added, seconds
<1>2. CASE SyncBegin
  <2>1. {TargetOf(pt) : pt \in ProfTypes \ ProfTypes} = {}
    OBVIOUS
  <2>2. QED
    BY <1>1, <1>2, <2>1 DEF OwnInd, SyncBegin
<1>3. ASSUME NEW pt \in ProfTypes, NewTarget(pt)
      PROVE  OwnInd'
  <2>1. /\ pt \in todo /\ todo' = todo \ {pt} /\ todo \subseteq ProfTypes
        /\ built' = built \cup {TargetOf(pt)} /\ params' = <<>>
        /\ UNCHANGED <<active, pc, syncs>>
    BY <1>3 DEF OwnInd, NewTarget, ParamLabel, TargetOf
  <2>2. built' = {TargetOf(q) : q \in ProfTypes \ todo'}
    BY <1>3, <2>1 DEF OwnInd, NewTarget
  <2>3. built' = {TargetOf(q)' : q \in ProfTypes \ todo'}
    BY <1>1, <2>2
  <2>4. QED
    BY <1>1, <2>1, <2>3 DEF OwnInd
<1>4. CASE Sync
  <2>1. active' = AllIdentities /\ pc' = "idle" /\ UNCHANGED <<params, syncs>>
    BY <1>4, OwnIdentities DEF Sync
  <2>2. QED
    BY <1>1, <2>1 DEF OwnInd
<1>5. CASE UNCHANGED vars
  BY <1>1, <1>5 DEF OwnInd, vars
<1>6. QED
  BY <1>2, <1>3, <1>4, <1>5 DEF Next

\* The invariant of a job without params.
LEMMA OwnInvariance == ~Shared => (Spec => []OwnInd)
<1>1. Init => OwnInd
  BY DEF Init, OwnInd
<1>2. ~Shared /\ OwnInd /\ [Next]_vars => OwnInd'
  BY OwnStep
<1>3. CASE ~Shared
  BY <1>1, <1>2, <1>3, PTL DEF Spec
<1>4. QED
  BY <1>3

\* A delta profile without seconds is scraped for scrape_interval, as the comment in
\* targetsFromGroup says, when the job has no params.
THEOREM OwnParamsDefault == ~Shared => (Spec => []DefaultsToScrapeInterval)
<1>1. OwnInd => DefaultsToScrapeInterval
  <2>1. SUFFICES ASSUME OwnInd, NEW a \in active,
                        pprof[a.typ].delta, pprof[a.typ].seconds = 0
                 PROVE  Head(a.url) = Interval
    BY DEF DefaultsToScrapeInterval
  <2>2. PICK pt \in ProfTypes : a = IdentityOf(pt)
    BY <2>1 DEF OwnInd, AllIdentities
  <2>3. a.typ = pt /\ a.url = Added(pt)
    BY <2>2 DEF IdentityOf
  <2>4. Added(pt) = <<Interval>>
    BY <2>1, <2>3 DEF Added, seconds
  <2>5. QED
    BY <2>3, <2>4
<1>2. QED
  BY <1>1, OwnInvariance, PTL

\* A Sync that is called again keeps the loops of a job without params, whatever order
\* the profile types are visited in.
THEOREM OwnParamsKeepLoops == ~Shared => (Spec => RepeatedSyncKeepsLoops)
<1>1. ~Shared /\ OwnInd => (Sync /\ syncs > 1 => active' = active /\ started' = {})
  <2>1. SUFFICES ASSUME ~Shared, OwnInd, Sync, syncs > 1
                 PROVE  active' = active /\ started' = {}
    OBVIOUS
  <2>2. active' = AllIdentities /\ active = AllIdentities /\ started' = AllIdentities \ active
    BY <2>1, OwnIdentities DEF Sync, OwnInd
  <2>3. QED
    BY <2>2
<1>2. CASE ~Shared
  BY <1>1, <1>2, OwnInvariance, PTL DEF RepeatedSyncKeepsLoops
<1>3. QED
  BY <1>2

=============================================================================
