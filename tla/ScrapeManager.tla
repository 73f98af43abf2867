--------------------------- MODULE ScrapeManager ---------------------------
(***************************************************************************)
(* The scrape manager of pkg/scrape/manager.go on top of the pools of      *)
(* ScrapePool.  Goroutines:                                                *)
(*                                                                         *)
(*   - Run receives target sets from service discovery, stores them and    *)
(*     leaves a token in the channel triggerReload (capacity one);         *)
(*   - reloader takes the token at a tick, visits the target sets under    *)
(*     mtxScrape, creating the pools that are missing, and synchronises    *)
(*     the pools in parallel after it released the lock;                   *)
(*   - the configuration reloader applies a new configuration: first to    *)
(*     discovery (pkg/parca/parca.go, "scrape_sd"), then to the manager,   *)
(*     which stops or reloads pools while it holds mtxScrape;              *)
(*   - the interrupt of the run group calls Stop, which stops the pools    *)
(*     while it holds mtxScrape and then closes graceShut.                 *)
(*                                                                         *)
(* Service discovery is external: it sends the target groups of the jobs   *)
(* it is configured with whenever something about them is new.             *)
(***************************************************************************)
EXTENDS ScrapePool

CONSTANTS
    Jobs,           \* job names
    JobOf,          \* JobOf[p]: the job that pool object p is created for
    StartConfigs,   \* the configurations Parca may be started with
    NoPool,         \* no entry in scrapePools
    NoTarget,       \* not a target
    MaxEvents       \* bound: changes of what discovery finds, configuration reloads, Stop

ASSUME ManagerAssumption ==
    /\ JobOf \in [Pools -> Jobs]
    /\ StartConfigs \subseteq Configs
    /\ NoPool \notin Pools
    /\ NoTarget \notin Targets
    /\ MaxEvents \in Nat

\* The value of targetSets for a job that has no entry there.
NoSet == {NoTarget}

VARIABLES
    scrapeConfigs,  \* m.scrapeConfigs
    scrapePools,    \* m.scrapePools
    targetSets,     \* m.targetSets
    triggerReload,  \* the channel holds a token
    graceShut,      \* the channel was closed
    mtxScrape,      \* who holds the mutex across steps: "free" if nobody does
    todo,           \* jobs its holder still has to visit
    cur,            \* the pool its holder is reloading or stopping
    runPc, runTs,   \* Run and the target sets it received
    reloaderPc,     \* reloader
    work, syncing,  \* pools reload() has to sync, and those being synced
    groups,         \* the groups each of them is synced with
    applyPc, newConfigs,    \* the configuration reloader and the file it read
    stopPc,         \* Stop
    sdJobs, sdGroups, sdNew,    \* discovery: its jobs, what it finds, unsent news
    updates, applies

sharedVars == <<scrapeConfigs, scrapePools, targetSets, triggerReload, graceShut>>
lockVars  == <<mtxScrape, todo, cur>>
runVars   == <<runPc, runTs>>
reloadVars == <<reloaderPc, work, syncing, groups>>
applyVars == <<applyPc, newConfigs, applies>>
sdVars    == <<sdJobs, sdGroups, sdNew, updates>>
mgrVars   == <<scrapeConfigs, scrapePools, targetSets, triggerReload, graceShut, lockVars,
               runVars, reloadVars, applyVars, stopPc, sdVars>>
allVars   == <<vars, mgrVars>>

\* What the steps of Run and of the reloader outside mtxScrape leave alone.
notRun    == <<vars, lockVars, reloadVars, applyVars, stopPc, sdVars>>
notReloader == <<vars, lockVars, runVars, work, syncing, groups, applyVars, stopPc, sdVars>>

ManagerInit ==
    /\ Init
    /\ scrapeConfigs \in [Jobs -> StartConfigs]
    /\ scrapePools = [j \in Jobs |-> NoPool]
    /\ targetSets = [j \in Jobs |-> NoSet]
    /\ triggerReload = FALSE
    /\ graceShut = FALSE
    /\ mtxScrape = "free"
    /\ todo = {}
    /\ cur = NoPool
    /\ runPc = "receive"
    /\ runTs = [j \in Jobs |-> NoSet]
    /\ reloaderPc = "tick"
    /\ work = {}
    /\ syncing = {}
    /\ groups = [p \in Pools |-> {}]
    /\ applyPc = "idle"
    /\ newConfigs = [j \in Jobs |-> NoConfig]
    /\ stopPc = "idle"
    /\ sdJobs = Jobs
    /\ sdGroups \in [Jobs -> SUBSET Targets]
    /\ sdNew = TRUE
    /\ updates = 0
    /\ applies = 0

-----------------------------------------------------------------------------
\* The outside world does something more.
MoreEvents == updates + applies + (IF stopPc = "idle" THEN 0 ELSE 1) < MaxEvents

(* Service discovery. *)

\* What discovery finds for a job changes.
Discover(j, tgs) ==
    /\ MoreEvents
    /\ updates' = updates + 1
    /\ sdGroups' = [sdGroups EXCEPT ![j] = tgs]
    /\ sdNew' = TRUE
    /\ UNCHANGED <<vars, sharedVars, lockVars, runVars, reloadVars, applyVars,
                   stopPc, sdJobs>>

\* Run: case ts := <-tsets.
RunReceive ==
    /\ runPc = "receive"
    /\ sdNew
    /\ runTs' = [j \in Jobs |-> IF j \in sdJobs THEN sdGroups[j] ELSE NoSet]
    /\ sdNew' = FALSE
    /\ runPc' = "update"
    /\ UNCHANGED <<vars, sharedVars, lockVars, reloadVars, applyVars, stopPc, sdJobs,
                   sdGroups, updates>>

updateTsets ==
    /\ runPc = "update"
    /\ mtxScrape = "free"
    /\ targetSets' = runTs
    /\ runPc' = "trigger"
    /\ UNCHANGED <<notRun, scrapeConfigs, scrapePools, triggerReload, graceShut, runTs>>

\* Mutant of RunTrigger: without a buffer, the send needs a reloader that waits for it.
RunTriggerUnbuffered ==
    /\ runPc = "trigger"
    /\ triggerReload' = (triggerReload \/ reloaderPc = "select")
    /\ runPc' = "receive"
    /\ UNCHANGED <<notRun, scrapeConfigs, scrapePools, targetSets, graceShut, runTs>>

\* The send does not block: a token that is already there is enough.
RunTrigger ==
    /\ runPc = "trigger"
    /\ triggerReload' = TRUE
    /\ runPc' = "receive"
    /\ UNCHANGED <<notRun, scrapeConfigs, scrapePools, targetSets, graceShut, runTs>>

RunExit ==
    /\ runPc = "receive"
    /\ graceShut
    /\ runPc' = "done"
    /\ UNCHANGED <<notRun, sharedVars, runTs>>

-----------------------------------------------------------------------------
(* reloader and reload. *)

ReloaderTick ==
    /\ reloaderPc = "tick"
    /\ reloaderPc' = "select"
    /\ UNCHANGED <<notReloader, sharedVars>>

ReloaderExit ==
    /\ reloaderPc \in {"tick", "select"}
    /\ graceShut
    /\ reloaderPc' = "done"
    /\ UNCHANGED <<notReloader, sharedVars>>

\* The select may choose this case although graceShut is closed as well.
ReloaderTrigger ==
    /\ reloaderPc = "select"
    /\ triggerReload
    /\ triggerReload' = FALSE
    /\ reloaderPc' = "lock"
    /\ UNCHANGED <<notReloader, scrapeConfigs, scrapePools, targetSets, graceShut>>

\* Mutant of WithTargets: every job.
WithTargetsAll == Jobs

\* The keys of m.targetSets.
WithTargets == {j \in Jobs : targetSets[j] # NoSet}

ReloadLock ==
    /\ reloaderPc = "lock"
    /\ mtxScrape = "free"
    /\ mtxScrape' = "reloader"
    /\ todo' = WithTargets
    /\ reloaderPc' = "visit"
    /\ UNCHANGED <<vars, sharedVars, cur, runVars, work, syncing, groups, applyVars,
                   stopPc, sdVars>>

\* The job has a pool.
ReloadVisit(j) ==
    /\ reloaderPc = "visit"
    /\ j \in todo
    /\ scrapePools[j] # NoPool
    /\ work' = work \cup {scrapePools[j]}
    /\ groups' = [groups EXCEPT ![scrapePools[j]] = targetSets[j]]
    /\ todo' = todo \ {j}
    /\ UNCHANGED <<vars, sharedVars, mtxScrape, cur, runVars, reloaderPc, syncing,
                   applyVars, stopPc, sdVars>>

\* It has none: make one, p being a pool object that was not used yet.
ReloadVisitCreate(j, p) ==
    /\ reloaderPc = "visit"
    /\ j \in todo
    /\ scrapePools[j] = NoPool
    /\ scrapeConfigs[j] # NoConfig
    /\ JobOf[p] = j
    /\ newScrapePool(p, scrapeConfigs[j])
    /\ scrapePools' = [scrapePools EXCEPT ![j] = p]
    /\ work' = work \cup {p}
    /\ groups' = [groups EXCEPT ![p] = targetSets[j]]
    /\ todo' = todo \ {j}
    /\ UNCHANGED <<scrapeConfigs, targetSets, triggerReload, graceShut, mtxScrape,
                   cur, runVars, reloaderPc, syncing, applyVars, stopPc, sdVars>>

\* Neither a pool nor a configuration: the set is skipped.
ReloadVisitInvalid(j) ==
    /\ reloaderPc = "visit"
    /\ j \in todo
    /\ scrapePools[j] = NoPool
    /\ scrapeConfigs[j] = NoConfig
    /\ todo' = todo \ {j}
    /\ UNCHANGED <<vars, sharedVars, mtxScrape, cur, runVars, reloadVars, applyVars,
                   stopPc, sdVars>>

ReloadUnlock ==
    /\ reloaderPc = "visit"
    /\ todo = {}
    /\ mtxScrape' = "free"
    /\ reloaderPc' = "sync"
    /\ UNCHANGED <<vars, sharedVars, todo, cur, runVars, work, syncing, groups,
                   applyVars, stopPc, sdVars>>

\* go sp.Sync(groups)
ReloadSync(p) ==
    /\ reloaderPc = "sync"
    /\ p \in work
    /\ SyncBuild(p, groups[p])
    /\ work' = work \ {p}
    /\ syncing' = syncing \cup {p}
    /\ UNCHANGED <<sharedVars, lockVars, runVars, reloaderPc, groups, applyVars,
                   stopPc, sdVars>>

\* Mutant of Synced: reload does not wait.
SyncedAtOnce == TRUE

\* Every Sync that reload called has returned.
Synced == \A p \in syncing : syncPc[p] = "idle"

\* wg.Wait() at the end of reload.
ReloadDone ==
    /\ reloaderPc = "sync"
    /\ work = {}
    /\ Synced
    /\ syncing' = {}
    /\ groups' = [p \in Pools |-> {}]
    /\ reloaderPc' = "tick"
    /\ UNCHANGED <<vars, sharedVars, lockVars, runVars, work, applyVars, stopPc,
                   sdVars>>

-----------------------------------------------------------------------------
(* A configuration reload: discovery first, then ApplyConfig. *)

ApplyDiscovery(cfgs) ==
    /\ applyPc = "idle"
    /\ MoreEvents
    /\ applies' = applies + 1
    /\ newConfigs' = cfgs
    /\ sdJobs' = {j \in Jobs : cfgs[j] # NoConfig}
    /\ sdNew' = TRUE
    /\ applyPc' = "lock"
    /\ UNCHANGED <<vars, sharedVars, lockVars, runVars, reloadVars, stopPc, sdGroups,
                   updates>>

ApplyConfig ==
    /\ applyPc = "lock"
    /\ mtxScrape = "free"
    /\ mtxScrape' = "apply"
    /\ scrapeConfigs' = newConfigs
    /\ todo' = {j \in Jobs : scrapePools[j] # NoPool}
    /\ applyPc' = "visit"
    /\ UNCHANGED <<vars, scrapePools, targetSets, triggerReload, graceShut, cur,
                   runVars, reloadVars, newConfigs, applies, stopPc, sdVars>>

\* The job is gone: sp.stop() ...
ApplyStopPool(j) ==
    /\ applyPc = "visit"
    /\ j \in todo
    /\ cur = NoPool
    /\ scrapeConfigs[j] = NoConfig
    /\ StopCancel(scrapePools[j])
    /\ cur' = scrapePools[j]
    /\ UNCHANGED <<sharedVars, mtxScrape, todo, runVars, reloadVars, applyVars,
                   stopPc, sdVars>>

\* ... or its configuration is not the same: sp.reload(cfg).  For a job with params that
\* includes one that did not change in the file: building targets adds parameters to
\* the params of sp.config itself, and reflect.DeepEqual sees them.
ApplyReloadPool(j) ==
    /\ applyPc = "visit"
    /\ j \in todo
    /\ cur = NoPool
    /\ scrapeConfigs[j] # NoConfig
    /\ Reload(scrapePools[j], scrapeConfigs[j])
    /\ cur' = scrapePools[j]
    /\ UNCHANGED <<sharedVars, mtxScrape, todo, runVars, reloadVars, applyVars,
                   stopPc, sdVars>>

\* ... or it is the same, and nothing was added to its params.
ApplyKeepPool(j) ==
    /\ applyPc = "visit"
    /\ j \in todo
    /\ cur = NoPool
    /\ scrapeConfigs[j] = config[scrapePools[j]]
    /\ todo' = todo \ {j}
    /\ UNCHANGED <<vars, sharedVars, mtxScrape, cur, runVars, reloadVars, applyVars,
                   stopPc, sdVars>>

\* Mutants of Returned and PoolsAfter: nobody waits; a stopped pool stays in the map.
ReturnedAtOnce(p) == TRUE
PoolsAfterKeep(j) == scrapePools

\* The reload or stop of pool p has returned.
Returned(p) == ctl[p] = "idle"

\* scrapePools once ApplyConfig is done with job j: a stopped pool is deleted.
PoolsAfter(j) ==
    IF scrapeConfigs[j] = NoConfig THEN [scrapePools EXCEPT ![j] = NoPool] ELSE scrapePools

\* The call on the pool returned.
ApplyPoolDone(j) ==
    /\ applyPc = "visit"
    /\ j \in todo
    /\ cur = scrapePools[j]
    /\ Returned(cur)
    /\ scrapePools' = PoolsAfter(j)
    /\ cur' = NoPool
    /\ todo' = todo \ {j}
    /\ UNCHANGED <<vars, scrapeConfigs, targetSets, triggerReload, graceShut,
                   mtxScrape, runVars, reloadVars, applyVars, stopPc, sdVars>>

ApplyReturn ==
    /\ applyPc = "visit"
    /\ todo = {}
    /\ mtxScrape' = "free"
    /\ applyPc' = "idle"
    /\ UNCHANGED <<vars, sharedVars, todo, cur, runVars, reloadVars, newConfigs,
                   applies, stopPc, sdVars>>

-----------------------------------------------------------------------------
(* Stop. *)

Stop ==
    /\ MoreEvents
    /\ stopPc = "idle"
    /\ mtxScrape = "free"
    /\ mtxScrape' = "stop"
    /\ todo' = {j \in Jobs : scrapePools[j] # NoPool}
    /\ stopPc' = "visit"
    /\ UNCHANGED <<vars, sharedVars, cur, runVars, reloadVars, applyVars, sdVars>>

StopPool(j) ==
    /\ stopPc = "visit"
    /\ j \in todo
    /\ cur = NoPool
    /\ StopCancel(scrapePools[j])
    /\ cur' = scrapePools[j]
    /\ UNCHANGED <<sharedVars, mtxScrape, todo, runVars, reloadVars, applyVars,
                   stopPc, sdVars>>

StopPoolDone(j) ==
    /\ stopPc = "visit"
    /\ j \in todo
    /\ cur = scrapePools[j]
    /\ Returned(cur)
    /\ cur' = NoPool
    /\ todo' = todo \ {j}
    /\ UNCHANGED <<vars, sharedVars, mtxScrape, runVars, reloadVars, applyVars,
                   stopPc, sdVars>>

StopClose ==
    /\ stopPc = "visit"
    /\ todo = {}
    /\ graceShut' = TRUE
    /\ mtxScrape' = "free"
    /\ stopPc' = "done"
    /\ UNCHANGED <<vars, scrapeConfigs, scrapePools, targetSets, triggerReload, todo,
                   cur, runVars, reloadVars, applyVars, sdVars>>

-----------------------------------------------------------------------------
RunStep == RunReceive \/ updateTsets \/ RunTrigger \/ RunExit

ReloaderStep ==
    \/ ReloaderTick \/ ReloaderExit \/ ReloaderTrigger \/ ReloadLock
    \/ \E j \in Jobs : \/ ReloadVisit(j) \/ ReloadVisitInvalid(j)
                       \/ \E p \in Pools : ReloadVisitCreate(j, p)
    \/ ReloadUnlock
    \/ \E p \in Pools : ReloadSync(p)
    \/ ReloadDone

ApplyStep ==
    \/ ApplyConfig
    \/ \E j \in Jobs : ApplyStopPool(j) \/ ApplyReloadPool(j) \/ ApplyKeepPool(j) \/ ApplyPoolDone(j)
    \/ ApplyReturn

StopStep == \/ \E j \in Jobs : StopPool(j) \/ StopPoolDone(j)
            \/ StopClose

PoolStep == Internal /\ UNCHANGED mgrVars

ManagerNext ==
    \/ \E j \in Jobs, tgs \in SUBSET Targets : Discover(j, tgs)
    \/ \E cfgs \in [Jobs -> Configs \cup {NoConfig}] : ApplyDiscovery(cfgs)
    \/ RunStep \/ ReloaderStep \/ ApplyStep
    \/ Stop \/ StopStep
    \/ PoolStep

ManagerSpec == ManagerInit /\ [][ManagerNext]_allVars

\* Every goroutine is scheduled; the bounds keep the contention for mtxScrape
\* finite, so weak fairness is enough for its waiters.
ManagerFairness ==
    /\ Fairness
    /\ WF_allVars(RunStep)
    /\ WF_allVars(ReloaderStep)
    /\ WF_allVars(ApplyStep)
    /\ WF_allVars(StopStep)

FairManagerSpec == ManagerSpec /\ ManagerFairness

-----------------------------------------------------------------------------
(* Properties. *)

ManagerTypeOK ==
    /\ TypeOK
    /\ scrapeConfigs \in [Jobs -> Configs \cup {NoConfig}]
    /\ scrapePools \in [Jobs -> Pools \cup {NoPool}]
    /\ targetSets \in [Jobs -> (SUBSET Targets) \cup {NoSet}]
    /\ triggerReload \in BOOLEAN /\ graceShut \in BOOLEAN
    /\ mtxScrape \in {"free", "reloader", "apply", "stop"}
    /\ todo \subseteq Jobs
    /\ cur \in Pools \cup {NoPool}
    /\ runPc \in {"receive", "update", "trigger", "done"}
    /\ runTs \in [Jobs -> (SUBSET Targets) \cup {NoSet}]
    /\ reloaderPc \in {"tick", "select", "lock", "visit", "sync", "done"}
    /\ work \subseteq Pools /\ syncing \subseteq Pools
    /\ groups \in [Pools -> SUBSET Targets]
    /\ applyPc \in {"idle", "lock", "visit"}
    /\ newConfigs \in [Jobs -> Configs \cup {NoConfig}]
    /\ stopPc \in {"idle", "visit", "done"}
    /\ sdJobs \subseteq Jobs
    /\ sdGroups \in [Jobs -> SUBSET Targets]
    /\ sdNew \in BOOLEAN
    /\ updates \in 0..MaxEvents /\ applies \in 0..MaxEvents

\* The manager keeps the contract of the pools: when reload calls Sync no other
\* Sync of the pool is running, also if the pool was stopped and deleted
\* meanwhile, and when ApplyConfig or Stop calls reload or stop no other such
\* call is, although each of them releases locks before it waits.
CallersNeverOverlap ==
    /\ reloaderPc = "sync" => \A p \in work : config[p] # NoConfig /\ syncPc[p] = "idle"
    /\ (applyPc = "visit" \/ stopPc = "visit") /\ cur = NoPool
            => \A j \in todo : config[scrapePools[j]] # NoConfig /\ ctl[scrapePools[j]] = "idle"

\* A target of a job is scraped by at most one loop, even when the job is removed
\* from the configuration and added again, so that a second pool serves it
\* while loops of the first one may still be terminating.
OneScrapePerJobTarget ==
    \A l, m \in LoopIds :
        Busy(l) /\ Busy(m) /\ JobOf[l[1]] = JobOf[m[1]] /\ l[2] = m[2] => l = m

\* A pool that is no longer in scrapePools scrapes only through loops that the
\* reloader, still inside reload, waits for; this is what keeps a second pool
\* for the job from being filled too early.
DeletedPoolIsDraining ==
    \A l \in LoopIds :
        Busy(l) /\ scrapePools[JobOf[l[1]]] # l[1]
            => l[1] \in syncing /\ l \in syncWait[l[1]]

\* A pool in scrapePools is alive unless it is being stopped: no interleaving
\* leaves a job with a pool that silently scrapes nothing.
PoolsInUseAreAlive ==
    \A j \in Jobs :
        scrapePools[j] # NoPool /\ cancelled[scrapePools[j]]
            => cur = scrapePools[j] \/ stopPc # "idle"

\* Target sets reach the pools: whatever the order of updates, ticks and
\* configuration reloads, a pool in use catches up with the latest target set
\* of its job (the configurations of this run keep every target).
TargetSetsReachPools ==
    []<>(stopPc # "idle" \/
         \A j \in Jobs : scrapePools[j] # NoPool /\ targetSets[j] # NoSet
             => activeTargets[scrapePools[j]] = targetSets[j])

\* mtxScrape is always released again, so Run can drain target sets: ApplyConfig
\* and Stop wait for loops while they hold it.  Once Stop has closed graceShut,
\* Run and the reloader return.
MtxScrapeIsReleased ==
    /\ []<>(mtxScrape = "free")
    /\ graceShut ~> (runPc = "done" /\ reloaderPc = "done")

\* "Stop cancels all running scrape pools and blocks until all have exited."
NothingScrapesAfterStop ==
    stopPc = "done" => \A l \in LoopIds : ~Busy(l)

=============================================================================
