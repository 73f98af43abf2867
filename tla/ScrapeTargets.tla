---------------------------- MODULE ScrapeTargets ----------------------------
(***************************************************************************)
(* How Sync turns a target group into targets (pkg/scrape/target.go,       *)
(* targetsFromGroup): one target for every enabled profile type of the     *)
(* job, in the random order of a Go map.  The target of a delta profile    *)
(* gets a query parameter "seconds".  The targets carry the parameters of  *)
(* the scrape configuration: the map itself, not a copy, when there is     *)
(* one, and the "seconds" that are added stay in it.                       *)
(*                                                                         *)
(* One endpoint is enough, and of the parameters only the list of values   *)
(* of "seconds" ever changes.  An identity of a target is what hash() is   *)
(* computed from: its labels and its URL.                                  *)
(***************************************************************************)
EXTENDS Naturals, Sequences

CONSTANTS
    ProfTypes,      \* profile types
    SecondsSet,     \* the values of seconds in use, 0 if it is not set
    Interval,       \* scrape_interval in seconds
    Shared,         \* the job has params: the targets share one map
    MaxSyncs        \* bound: calls of Sync

VARIABLES
    pprof,      \* ProfilingConfig.PprofConfig of the enabled types
    params,     \* the values of "seconds" in the params of the job
    todo,       \* profile types still to be visited; the call is over when empty
    built,      \* the targets built by this call
    active,     \* the identities of the targets that have a loop
    started,    \* loops started by the last Sync
    pc, syncs

vars == <<pprof, params, todo, built, active, started, pc, syncs>>

Init ==
    /\ pprof \in [ProfTypes -> [delta : BOOLEAN, seconds : SecondsSet]]
    /\ params = <<>>
    /\ todo = {}
    /\ built = {}
    /\ active = {}
    /\ started = {}
    /\ pc = "idle"
    /\ syncs = 0

\* populateLabels: the first value becomes the label __param_seconds.
ParamLabel == IF params = <<>> THEN 0 ELSE Head(params)

seconds(pt) == IF pprof[pt].seconds > 0 THEN pprof[pt].seconds ELSE Interval

Added(pt) == IF pprof[pt].delta THEN <<seconds(pt)>> ELSE <<>>

\* The values of "seconds" in the URL of target t: those of its map, of which the
\* label replaces the first.
URL(t) ==
    LET q == IF Shared THEN params ELSE t.params
    IN  IF t.label = 0 THEN q ELSE <<t.label>> \o (IF q = <<>> THEN q ELSE Tail(q))

hash(t) == [typ |-> t.typ, label |-> t.label, url |-> URL(t)]

SyncBegin ==
    /\ pc = "idle"
    /\ syncs < MaxSyncs
    /\ syncs' = syncs + 1
    /\ todo' = ProfTypes
    /\ built' = {}
    /\ pc' = "build"
    /\ UNCHANGED <<pprof, params, active, started>>

\* One iteration of targetsFromGroup over the label sets.
NewTarget(pt) ==
    /\ pc = "build"
    /\ pt \in todo
    /\ todo' = todo \ {pt}
    /\ params' = IF Shared THEN params \o Added(pt) ELSE params
    /\ built' = built \cup {[typ |-> pt, label |-> ParamLabel,
                             params |-> IF Shared THEN <<>> ELSE Added(pt)]}
    /\ UNCHANGED <<pprof, active, started, pc, syncs>>

\* sync: loops are started for the identities that are new, and the others are
\* stopped.
Sync ==
    /\ pc = "build"
    /\ todo = {}
    /\ LET now == {hash(t) : t \in built} IN
        /\ active' = now
        /\ started' = now \ active
    /\ pc' = "idle"
    /\ UNCHANGED <<pprof, params, todo, built, syncs>>

Next == SyncBegin \/ (\E pt \in ProfTypes : NewTarget(pt)) \/ Sync

Spec == Init /\ [][Next]_vars

-----------------------------------------------------------------------------
(* Properties. *)

\* "If Seconds is NOT set on the pprof configuration explicitly, we default to
\* ScrapeInterval" (targetsFromGroup).
DefaultsToScrapeInterval ==
    pc = "idle" => \A a \in active :
        pprof[a.typ].delta /\ pprof[a.typ].seconds = 0 => Head(a.url) = Interval

=============================================================================
