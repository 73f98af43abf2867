----------------------------- MODULE ScrapePool -----------------------------
(***************************************************************************)
(* The scrape pools of pkg/scrape/scrape.go: for every target of a job a   *)
(* pool keeps one scrape loop, a goroutine that fetches a profile and      *)
(* writes it to the profile store once per interval.                       *)
(*                                                                         *)
(* A pool is driven from outside by two goroutines that this module treats *)
(* as its environment: the manager's reloader, which calls Sync, and the   *)
(* holder of the manager's mtxScrape, which calls reload or stop.  The     *)
(* contract is that there is one caller of each kind at a time             *)
(* (ScrapeManager shows that the manager keeps it); the two kinds          *)
(* interleave freely, and so do the loops and the goroutines that sync,    *)
(* reload and stop spawn to wait for loops.                                *)
(*                                                                         *)
(* A critical section under sp.mtx is one action.  A target is identified  *)
(* with the hash of its labels and URL; the i-th loop that pool p creates  *)
(* for target t is <<p, t, i>>.                                            *)
(***************************************************************************)
EXTENDS Naturals

CONSTANTS
    Pools,          \* pool objects
    Targets,        \* target hashes
    Configs,        \* scrape configurations
    NoConfig,       \* config of a pool object that was not created yet
    Kept,           \* Kept[c]: the targets the relabelling rules of c keep
    MaxLoops        \* bound: loops created per pool and target; a reload leaves
                    \* one for a Sync that is already under way

ASSUME PoolAssumption ==
    /\ NoConfig \notin Configs
    /\ Kept \in [Configs -> SUBSET Targets]
    /\ MaxLoops \in Nat

LoopIds == Pools \X Targets \X (1..MaxLoops)

VARIABLES
    config,         \* sp.config
    cancelled,      \* the context of the pool was cancelled
    activeTargets,  \* keys of sp.activeTargets
    droppedTargets, \* sp.droppedTargets
    loops,          \* sp.loops: number of the target's loop, 0 if it has none
    gen,            \* loops created so far
    pc,             \* where the goroutine of each loop is
    stopReq,        \* stop() was called on the loop: its scrapeCtx is cancelled
    loopOpts,       \* the configuration that a loop's interval, timeout and HTTP client
                    \* come from; not its normalized addresses, see newLoops
    syncPc, syncAll, syncWait,  \* the goroutine in Sync and its local variables
    ctl, ctlWait,   \* the goroutine in reload or stop and the loops it waits for
    launch          \* loops a goroutine of reload is about to run

loopVars == <<pc, stopReq>>
syncVars == <<syncPc, syncAll, syncWait>>
ctlVars  == <<ctl, ctlWait, launch>>
poolVars == <<config, activeTargets, droppedTargets, loops, gen, loopOpts>>
vars == <<poolVars, cancelled, loopVars, syncVars, ctlVars>>

LoopPc == {"none", "created", "offset", "check", "scraping", "writing",
           "waiting", "stopped"}

\* The loop is at work for its target: fetching a profile or writing it.
Busy(l) == pc[l] \in {"scraping", "writing"}

-----------------------------------------------------------------------------
(* The pool. *)

Init ==
    /\ config = [p \in Pools |-> NoConfig]
    /\ cancelled = [p \in Pools |-> FALSE]
    /\ activeTargets = [p \in Pools |-> {}]
    /\ droppedTargets = [p \in Pools |-> {}]
    /\ loops = [p \in Pools |-> [t \in Targets |-> 0]]
    /\ gen = [p \in Pools |-> [t \in Targets |-> 0]]
    /\ pc = [l \in LoopIds |-> "none"]
    /\ stopReq = [l \in LoopIds |-> FALSE]
    /\ loopOpts = [l \in LoopIds |-> NoConfig]
    /\ syncPc = [p \in Pools |-> "idle"]
    /\ syncAll = [p \in Pools |-> {}]
    /\ syncWait = [p \in Pools |-> {}]
    /\ ctl = [p \in Pools |-> "idle"]
    /\ ctlWait = [p \in Pools |-> {}]
    /\ launch = {}

newScrapePool(p, cfg) ==
    /\ config[p] = NoConfig
    /\ config' = [config EXCEPT ![p] = cfg]
    /\ UNCHANGED <<cancelled, activeTargets, droppedTargets, loops, gen, loopOpts,
                   loopVars, syncVars, ctlVars>>

\* The loop that pool p creates next for target t.
NextLoop(p, t) == <<p, t, gen[p][t] + 1>>

\* Mutant of newLoops: the client and intervals are those the pool had before.
newLoopsOldClient(p, ts, start, cfg) ==
    LET made == {NextLoop(p, t) : t \in ts}
    IN  /\ gen' = [gen EXCEPT ![p] = [t \in Targets |->
                        IF t \in ts THEN gen[p][t] + 1 ELSE gen[p][t]]]
        /\ pc' = [l \in LoopIds |-> IF l \in made THEN start ELSE pc[l]]
        /\ loopOpts' = [l \in LoopIds |-> IF l \in made THEN config[p] ELSE loopOpts[l]]

\* sp.newLoop for each of the targets ts: the loops start out in state start.  Their
\* interval, timeout and client are those of cfg.  A fourth option is left out: the
\* closure newLoop holds the NormalizedAddresses of the configuration that the pool
\* was created with, whatever cfg is.
newLoops(p, ts, start, cfg) ==
    LET made == {NextLoop(p, t) : t \in ts}
    IN  /\ gen' = [gen EXCEPT ![p] = [t \in Targets |->
                        IF t \in ts THEN gen[p][t] + 1 ELSE gen[p][t]]]
        /\ pc' = [l \in LoopIds |-> IF l \in made THEN start ELSE pc[l]]
        /\ loopOpts' = [l \in LoopIds |-> IF l \in made THEN cfg ELSE loopOpts[l]]

\* Mutant of InMap: targets without a loop are not left out.
InMapOrNil(p) == {<<p, t, loops[p][t]>> : t \in Targets}

\* The loops in sp.loops.
InMap(p) == {<<p, t, loops[p][t]>> : t \in {u \in Targets : loops[p][u] # 0}}

\* Mutants of Stopped: stop is only called, or not even that.
StopCalled(ls) == \A l \in ls : stopReq[l]
NotWaited(ls) == TRUE

\* stop() has returned for the loops ls: it waits for run to close sl.stopped.
Stopped(ls) == \A l \in ls : stopReq[l] /\ pc[l] = "stopped"

\* Sync, first critical section: relabel the discovered targets.
SyncBuild(p, tgs) ==
    /\ config[p] # NoConfig
    /\ syncPc[p] = "idle"
    /\ \A t \in tgs : gen[p][t] < MaxLoops
    /\ droppedTargets' = [droppedTargets EXCEPT ![p] = tgs \ Kept[config[p]]]
    /\ syncAll' = [syncAll EXCEPT ![p] = tgs \cap Kept[config[p]]]
    /\ syncPc' = [syncPc EXCEPT ![p] = "built"]
    /\ UNCHANGED <<config, cancelled, activeTargets, loops, gen, loopOpts,
                   loopVars, syncWait, ctlVars>>

\* sync: start a loop for every new target, take the loops of the targets that
\* disappeared out of the maps, and release the lock before waiting for them.
SyncApply(p) ==
    LET new  == syncAll[p] \ activeTargets[p]
        gone == activeTargets[p] \ syncAll[p]
    IN  /\ syncPc[p] = "built"
        /\ activeTargets' = [activeTargets EXCEPT ![p] = syncAll[p]]
        /\ loops' = [loops EXCEPT ![p] = [t \in Targets |->
                        IF t \in new THEN gen[p][t] + 1
                        ELSE IF t \in gone THEN 0 ELSE loops[p][t]]]
        /\ newLoops(p, new, "offset", config[p])
        /\ syncWait' = [syncWait EXCEPT ![p] = {<<p, t, loops[p][t]>> : t \in gone}]
        /\ syncPc' = [syncPc EXCEPT ![p] = "waiting"]
        /\ UNCHANGED <<config, cancelled, droppedTargets, stopReq, syncAll, ctlVars>>

\* wg.Wait() at the end of sync: every loop it stopped has terminated.
SyncReturn(p) ==
    /\ syncPc[p] = "waiting"
    /\ Stopped(syncWait[p])
    /\ syncPc' = [syncPc EXCEPT ![p] = "idle"]
    /\ syncAll' = [syncAll EXCEPT ![p] = {}]
    /\ syncWait' = [syncWait EXCEPT ![p] = {}]
    /\ UNCHANGED <<poolVars, cancelled, loopVars, ctlVars>>

\* reload, under the lock: put a new loop in the place of each old one.
Reload(p, cfg) ==
    /\ config[p] # NoConfig
    /\ ctl[p] = "idle"
    /\ \A t \in activeTargets[p] : gen[p][t] + 1 < MaxLoops
    /\ config' = [config EXCEPT ![p] = cfg]
    /\ loops' = [loops EXCEPT ![p] = [t \in Targets |->
                    IF loops[p][t] # 0 THEN gen[p][t] + 1 ELSE 0]]
    /\ newLoops(p, {t \in Targets : loops[p][t] # 0}, "created", cfg)
    /\ ctl' = [ctl EXCEPT ![p] = "reload"]
    /\ ctlWait' = [ctlWait EXCEPT ![p] = InMap(p)]
    /\ UNCHANGED <<cancelled, activeTargets, droppedTargets, stopReq, syncVars, launch>>

\* Mutant of Replacement: the old loop itself.
ReplacementSame(l) == l

\* The loop that reload put in the place of l.
Replacement(l) == <<l[1], l[2], l[3] + 1>>

\* The goroutine of one swap: oldLoop.stop() returned, wg.Done().
ReloadOldStopped(p, l) ==
    /\ ctl[p] = "reload"
    /\ l \in ctlWait[p]
    /\ Stopped({l})
    /\ ctlWait' = [ctlWait EXCEPT ![p] = @ \ {l}]
    /\ launch' = launch \cup {Replacement(l)}
    /\ UNCHANGED <<poolVars, cancelled, loopVars, syncVars, ctl>>

\* ... and then, possibly after reload returned, go newLoop.run().
ReloadLaunch(l) ==
    /\ l \in launch
    /\ launch' = launch \ {l}
    /\ pc' = [pc EXCEPT ![l] = "offset"]
    /\ UNCHANGED <<poolVars, cancelled, stopReq, syncVars, ctl, ctlWait>>

ReloadReturn(p) ==
    /\ ctl[p] = "reload"
    /\ ctlWait[p] = {}
    /\ ctl' = [ctl EXCEPT ![p] = "idle"]
    /\ UNCHANGED <<poolVars, cancelled, loopVars, syncVars, ctlWait, launch>>

\* stop: cancel the context first, without the lock ...
StopCancel(p) ==
    /\ config[p] # NoConfig
    /\ ctl[p] = "idle"
    /\ cancelled' = [cancelled EXCEPT ![p] = TRUE]
    /\ ctl' = [ctl EXCEPT ![p] = "cancelling"]
    /\ UNCHANGED <<poolVars, loopVars, syncVars, ctlWait, launch>>

\* Mutant of StopSnapshot: only one of the maps is emptied.
StopSnapshotLoopsOnly(p) ==
    /\ ctl[p] = "cancelling"
    /\ ctlWait' = [ctlWait EXCEPT ![p] = InMap(p)]
    /\ loops' = [loops EXCEPT ![p] = [t \in Targets |-> 0]]
    /\ ctl' = [ctl EXCEPT ![p] = "stop"]
    /\ UNCHANGED <<config, cancelled, activeTargets, droppedTargets, gen, loopOpts, loopVars,
                   syncVars, launch>>

\* ... then empty the maps under the lock ...
StopSnapshot(p) ==
    /\ ctl[p] = "cancelling"
    /\ ctlWait' = [ctlWait EXCEPT ![p] = InMap(p)]
    /\ activeTargets' = [activeTargets EXCEPT ![p] =
                            @ \ {t \in Targets : loops[p][t] # 0}]
    /\ loops' = [loops EXCEPT ![p] = [t \in Targets |-> 0]]
    /\ ctl' = [ctl EXCEPT ![p] = "stop"]
    /\ UNCHANGED <<config, cancelled, droppedTargets, gen, loopOpts,
                   loopVars, syncVars, launch>>

\* ... and wait for the loops that were in them.
StopReturn(p) ==
    /\ ctl[p] = "stop"
    /\ Stopped(ctlWait[p])
    /\ ctl' = [ctl EXCEPT ![p] = "idle"]
    /\ ctlWait' = [ctlWait EXCEPT ![p] = {}]
    /\ UNCHANGED <<poolVars, cancelled, loopVars, syncVars, launch>>

\* loop.stop(), first half: one of the goroutines that sync, reload and stop
\* spawn cancels the context of its loop.
LoopStop(l) ==
    /\ l \in syncWait[l[1]] \cup ctlWait[l[1]]
    /\ ~stopReq[l]
    /\ stopReq' = [stopReq EXCEPT ![l] = TRUE]
    /\ UNCHANGED <<poolVars, cancelled, pc, syncVars, ctlVars>>

-----------------------------------------------------------------------------
(* scrapeLoop.run. *)

\* Mutant of Done: only the context of the pool is looked at.
DoneIgnoresStop(l) == cancelled[l[1]]

\* sl.scrapeCtx is done; it is a child of the context of the pool.
Done(l) == stopReq[l] \/ cancelled[l[1]]

Goto(l, from, to) ==
    /\ pc[l] = from
    /\ pc' = [pc EXCEPT ![l] = to]
    /\ UNCHANGED <<poolVars, cancelled, stopReq, syncVars, ctlVars>>

RunOffset(l) == Goto(l, "offset", "check")

RunOffsetDone(l) == Done(l) /\ Goto(l, "offset", "stopped")

RunCheck(l) == ~Done(l) /\ Goto(l, "check", "scraping")

RunCheckDone(l) == Done(l) /\ Goto(l, "check", "stopped")

\* A scrape fails, or its profile is written; both are bounded by a timeout.
RunScrapeFailed(l) == Goto(l, "scraping", "waiting")

RunScrapeOk(l) == Goto(l, "scraping", "writing")

RunWritten(l) == Goto(l, "writing", "waiting")

RunTick(l) == Goto(l, "waiting", "check")

RunWaitDone(l) == Done(l) /\ Goto(l, "waiting", "stopped")

RunLoop(l) ==
    \/ RunOffset(l)       \/ RunOffsetDone(l)
    \/ RunCheck(l)        \/ RunCheckDone(l)
    \/ RunScrapeFailed(l) \/ RunScrapeOk(l)
    \/ RunWritten(l)
    \/ RunTick(l)         \/ RunWaitDone(l)

-----------------------------------------------------------------------------
\* The steps that the goroutines inside a pool take by themselves.
Internal ==
    \/ \E p \in Pools : \/ SyncApply(p)
                        \/ SyncReturn(p)
                        \/ \E l \in ctlWait[p] : ReloadOldStopped(p, l)
                        \/ ReloadReturn(p)
                        \/ StopSnapshot(p)
                        \/ StopReturn(p)
    \/ \E l \in launch : ReloadLaunch(l)
    \/ \E l \in LoopIds : LoopStop(l) \/ RunLoop(l)

\* The calls of the environment.
Calls ==
    \E p \in Pools :
        \/ \E cfg \in Configs : newScrapePool(p, cfg) \/ Reload(p, cfg)
        \/ \E tgs \in SUBSET Targets : SyncBuild(p, tgs)
        \/ StopCancel(p)

Next == Calls \/ Internal

Spec == Init /\ [][Next]_vars

\* Go schedules every runnable goroutine, and a scrape and a write end by their
\* timeout.  A select whose context is done for good does not wait for its timer
\* forever, and once both cases are ready for ever the done case is chosen.
LoopFairness(l) ==
    /\ WF_vars(LoopStop(l))
    /\ WF_vars(RunOffset(l) \/ RunOffsetDone(l))
    /\ WF_vars(RunCheck(l) \/ RunCheckDone(l))
    /\ WF_vars(RunScrapeFailed(l) \/ RunScrapeOk(l))
    /\ WF_vars(RunWritten(l))
    /\ WF_vars(RunTick(l) \/ RunWaitDone(l))

Fairness ==
    /\ \A p \in Pools :
        /\ WF_vars(SyncApply(p))
        /\ WF_vars(SyncReturn(p))
        /\ WF_vars(\E l \in ctlWait[p] : ReloadOldStopped(p, l))
        /\ WF_vars(ReloadReturn(p))
        /\ WF_vars(StopSnapshot(p))
        /\ WF_vars(StopReturn(p))
    /\ \A l \in LoopIds : WF_vars(ReloadLaunch(l)) /\ LoopFairness(l)

FairSpec == Spec /\ Fairness

-----------------------------------------------------------------------------
(* Properties. *)

TypeOK ==
    /\ config \in [Pools -> Configs \cup {NoConfig}]
    /\ cancelled \in [Pools -> BOOLEAN]
    /\ activeTargets \in [Pools -> SUBSET Targets]
    /\ droppedTargets \in [Pools -> SUBSET Targets]
    /\ loops \in [Pools -> [Targets -> 0..MaxLoops]]
    /\ gen \in [Pools -> [Targets -> 0..MaxLoops]]
    /\ pc \in [LoopIds -> LoopPc]
    /\ stopReq \in [LoopIds -> BOOLEAN]
    /\ loopOpts \in [LoopIds -> Configs \cup {NoConfig}]
    /\ syncPc \in [Pools -> {"idle", "built", "waiting"}]
    /\ syncAll \in [Pools -> SUBSET Targets]
    /\ syncWait \in [Pools -> SUBSET LoopIds]
    /\ ctl \in [Pools -> {"idle", "reload", "cancelling", "stop"}]
    /\ ctlWait \in [Pools -> SUBSET LoopIds]
    /\ launch \in SUBSET LoopIds

\* "Targets and loops must always be synchronized to have the same set of
\* hashes" (scrapePool): sync, reload and stop update the two maps separately.
TargetsAndLoopsInSync ==
    \A p \in Pools : activeTargets[p] = {t \in Targets : loops[p][t] # 0}

\* A target is never scraped, or its profile written, by two loops at once,
\* however sync, reload and stop interleave: a new loop does its first scrape
\* only after every earlier loop of the target has terminated (the flapping
\* targets that sync's comment is about, and the swap of reload).
AtMostOneScrape ==
    \A p \in Pools, t \in Targets : \A i, j \in 1..MaxLoops :
        Busy(<<p, t, i>>) /\ Busy(<<p, t, j>>) => i = j

\* No loop is leaked: one that is no longer in sp.loops has terminated, or the
\* goroutine in Sync or the one in reload or stop still waits for it.
NoLoopLeaked ==
    \A p \in Pools, t \in Targets : \A i \in 1..gen[p][t] :
        \/ i = loops[p][t]
        \/ pc[<<p, t, i>>] = "stopped"
        \/ <<p, t, i>> \in syncWait[p] \cup ctlWait[p]

\* The loop of an active target was created with the interval, timeout and HTTP
\* client of the current configuration, although Sync starts loops between
\* two critical sections that a reload may separate.  It says nothing of the other
\* options: the normalized addresses stay those of the pool's creation.
LoopOptionsAreCurrent ==
    \A p \in Pools, t \in Targets :
        loops[p][t] # 0 => loopOpts[<<p, t, loops[p][t]>>] = config[p]

\* "A loop can run and be stopped again.  It must not be reused after it was
\* stopped" (interface loop): run would close sl.stopped a second time.
StoppedLoopNeverRunsAgain ==
    [][\A l \in LoopIds : pc[l] = "stopped" => pc'[l] = "stopped"]_vars

\* "It returns after all stopped scrape loops terminated" (sync): the wait ends,
\* also when the loop it waits for was swapped in by a reload and has not been
\* run yet.  reload and stop return too, so the mtxScrape of their caller is
\* released.
CallsReturn ==
    \A p \in Pools : /\ syncPc[p] # "idle" ~> syncPc[p] = "idle"
                     /\ ctl[p] # "idle" ~> ctl[p] = "idle"

\* The loops of a target at work, and those that terminated, are what the
\* abstract handover of ScrapeHandover is about.
H == INSTANCE ScrapeHandover WITH
        busy <- {l \in LoopIds : Busy(l)},
        retired <- {l \in LoopIds : pc[l] = "stopped"}

\* A pool implements the handover: a loop begins its first scrape only after all
\* earlier loops of the target closed sl.stopped, and none of them ever works
\* again, however Sync, reload and stop create, swap and stop loops.
HandsOverTargets == H!Spec

-----------------------------------------------------------------------------
(* The inductive invariant behind AtMostOneScrape and NoLoopLeaked. *)

\* A loop in sp.loops is the latest of its target, exactly the loops up to gen
\* exist, and only in a pool that was created.
LoopNumbering ==
    \A p \in Pools, t \in Targets :
        /\ loops[p][t] \in {0, gen[p][t]}
        /\ config[p] = NoConfig => loops[p][t] = 0
        /\ \A i \in 1..MaxLoops : pc[<<p, t, i>>] = "none" <=> i > gen[p][t]

\* A goroutine waits for loops of its own pool, in its waiting phase only, and
\* the context of the pool is cancelled before stop looks at the loops.
Waiting ==
    \A p \in Pools :
        /\ \A l \in syncWait[p] \cup ctlWait[p] : l[1] = p
        /\ syncPc[p] # "waiting" => syncWait[p] = {}
        /\ ctl[p] \notin {"reload", "stop"} => ctlWait[p] = {}
        /\ ctl[p] \in {"cancelling", "stop"} => cancelled[p]
        /\ syncPc[p] = "built" => /\ config[p] # NoConfig
                                  /\ \A t \in syncAll[p] : gen[p][t] < MaxLoops

\* While reload waits for an old loop, the loop it swapped in is the target's
\* latest and has not been run.
Reloading ==
    \A p \in Pools, t \in Targets : \A i \in 1..MaxLoops :
        ctl[p] = "reload" /\ <<p, t, i>> \in ctlWait[p]
            => /\ gen[p][t] = i + 1
               /\ pc[<<p, t, i + 1>>] = "created"
               /\ <<p, t, i + 1>> \notin launch

\* Every loop of the target before the i-th has terminated.
PredecessorsStopped(p, t, i) ==
    \A j \in 1..MaxLoops : j < i => pc[<<p, t, j>>] = "stopped"

\* A loop that reload is about to run is the only one left of its target, unless
\* the pool was stopped.
Launching ==
    \A p \in Pools, t \in Targets : \A i \in 1..MaxLoops :
        <<p, t, i>> \in launch
            => /\ pc[<<p, t, i>>] = "created"
               /\ ~cancelled[p] => PredecessorsStopped(p, t, i)

\* So is a loop whose run was called; in a pool that was stopped, run may start
\* early, but only a loop without live predecessors is ever busy.
Handover ==
    \A p \in Pools, t \in Targets : \A i \in 1..MaxLoops :
        /\ Busy(<<p, t, i>>) => PredecessorsStopped(p, t, i)
        /\ ~cancelled[p] /\ pc[<<p, t, i>>] \notin {"none", "created"}
                => PredecessorsStopped(p, t, i)

IndInv ==
    /\ TypeOK
    /\ TargetsAndLoopsInSync
    /\ LoopNumbering
    /\ Waiting
    /\ NoLoopLeaked
    /\ Reloading
    /\ Launching
    /\ Handover
    /\ LoopOptionsAreCurrent

=============================================================================
