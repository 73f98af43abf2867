------------------------ MODULE ScrapeManagerProofs ------------------------
(* Proofs about ScrapeManager, for every set of jobs, pools, targets and     *)
(* configurations.  What they need of the pools is IndInv of ScrapePool.     *)
EXTENDS ScrapeManager, ScrapePoolProofs

-----------------------------------------------------------------------------
(* The inductive invariant. *)

\* mtxScrape is held across steps by the goroutine that visits jobs.
LockHolders ==
    /\ mtxScrape = "reloader" <=> reloaderPc = "visit"
    /\ mtxScrape = "apply" <=> applyPc = "visit"
    /\ mtxScrape = "stop" <=> stopPc = "visit"

\* A pool is entered for its own job, after it was created; a pool object that
\* was not created yet was not stopped.
PoolMap ==
    /\ \A j \in Jobs : scrapePools[j] # NoPool
            => JobOf[scrapePools[j]] = j /\ config[scrapePools[j]] # NoConfig
    /\ \A p \in Pools : config[p] = NoConfig => ~cancelled[p]

\* A goroutine is inside Sync only for a pool that reload() is syncing, and
\* inside the pool's reload or stop only for the pool its caller is at.
CallersInside ==
    /\ \A p \in Pools : syncPc[p] # "idle" => p \in syncing
    /\ \A p \in Pools : ctl[p] # "idle" => p = cur

\* What the holder of mtxScrape still has to visit.
Visiting ==
    /\ mtxScrape = "reloader" => \A j \in todo : targetSets[j] # NoSet
    /\ mtxScrape \in {"apply", "stop"} => \A j \in todo : scrapePools[j] # NoPool
    /\ cur # NoPool => /\ mtxScrape \in {"apply", "stop"}
                       /\ JobOf[cur] \in todo
                       /\ scrapePools[JobOf[cur]] = cur

\* The pools of one reload(): at most one per job, which stays the pool of its
\* job until it is deleted, since no other pool is created meanwhile.
ReloadedPools ==
    /\ reloaderPc # "sync" => syncing = {}
    /\ reloaderPc \notin {"visit", "sync"} => work = {}
    /\ work \cap syncing = {}
    /\ \A p \in work \cup syncing : /\ config[p] # NoConfig
                                    /\ scrapePools[JobOf[p]] \in {p, NoPool}
    /\ reloaderPc = "visit" => \A p \in work : scrapePools[JobOf[p]] = p
    /\ \A p, q \in work \cup syncing : JobOf[p] = JobOf[q] => p = q

\* ApplyConfig stops the pools of the jobs that are gone and no others; a pool
\* that left the map was stopped.
StoppedPools ==
    /\ applyPc = "visit" /\ cur # NoPool
            => /\ scrapeConfigs[JobOf[cur]] = NoConfig => cancelled[cur]
               /\ cancelled[cur] => scrapeConfigs[JobOf[cur]] = NoConfig \/ stopPc # "idle"
    /\ PoolsInUseAreAlive
    /\ \A p \in Pools : config[p] # NoConfig /\ scrapePools[JobOf[p]] # p => cancelled[p]

\* Once stop has emptied the maps of a pool, the loop of a target that Sync or
\* reload enters there afterwards never scrapes: its context is done.
CancelledLoopsIdle ==
    \A p \in Pools, t \in Targets : \A i \in 1..MaxLoops :
        cancelled[p] /\ ctl[p] # "cancelling" /\ Busy(<<p, t, i>>) => i # loops[p][t]

MgrInd ==
    /\ ManagerTypeOK
    /\ IndInv
    /\ CancelledLoopsIdle
    /\ LockHolders
    /\ PoolMap
    /\ CallersInside
    /\ Visiting
    /\ ReloadedPools
    /\ StoppedPools

-----------------------------------------------------------------------------
(* The pools under the manager. *)

\* What the goroutines inside the pools leave alone, and what they can only end.
LEMMA InternalKeeps ==
    ASSUME TypeOK, Internal
    PROVE  /\ config' = config
           /\ cancelled' = cancelled
           /\ \A p \in Pools : syncPc'[p] # "idle" => syncPc[p] # "idle"
           /\ \A p \in Pools : ctl'[p] # "idle" => ctl[p] # "idle"
  <1>. USE DEF TypeOK, poolVars, loopVars, syncVars, ctlVars
  <1>1. ASSUME NEW p \in Pools, SyncApply(p) \/ SyncReturn(p)
        PROVE  /\ config' = config /\ cancelled' = cancelled /\ ctl' = ctl
               /\ \A q \in Pools : syncPc'[q] # "idle" => syncPc[q] # "idle"
    BY <1>1 DEF SyncApply, SyncReturn
  <1>2. ASSUME NEW p \in Pools,
               (\E l \in ctlWait[p] : ReloadOldStopped(p, l)) \/ ReloadReturn(p)
                    \/ StopSnapshot(p) \/ StopReturn(p)
        PROVE  /\ config' = config /\ cancelled' = cancelled /\ syncPc' = syncPc
               /\ \A q \in Pools : ctl'[q] # "idle" => ctl[q] # "idle"
    BY <1>2 DEF ReloadOldStopped, ReloadReturn, StopSnapshot, StopReturn
  <1>3. ASSUME NEW l \in LoopIds, LoopStop(l) \/ RunLoop(l) \/ ReloadLaunch(l)
        PROVE  config' = config /\ cancelled' = cancelled /\ syncPc' = syncPc /\ ctl' = ctl
    BY <1>3 DEF LoopStop, RunLoop, ReloadLaunch, RunOffset, RunOffsetDone, RunCheck,
            RunCheckDone, RunScrapeFailed, RunScrapeOk, RunWritten, RunTick, RunWaitDone, Goto
  <1>. QED  BY <1>1, <1>2, <1>3 DEF Internal

\* A loop becomes busy only by a check that finds its context alive, and a loop
\* that enters the map is a new one.
LEMMA BusyOrEntered ==
    ASSUME IndInv, Next, NEW p \in Pools, NEW t \in Targets, NEW i \in 1..MaxLoops,
           Busy(<<p, t, i>>)'
    PROVE  /\ Busy(<<p, t, i>>) \/ ~cancelled[p]
           /\ i = loops'[p][t] => i = loops[p][t]
  <1>. USE DEF poolVars, loopVars, syncVars, ctlVars
  <1>. DEFINE l == <<p, t, i>>
  <1>0. l \in LoopIds /\ l[1] = p /\ pc \in [LoopIds -> LoopPc] /\ TypeOK
    BY DEF LoopIds, IndInv, TypeOK
  <1>1. ASSUME NEW q \in Pools, NEW ts, NEW start \in {"created", "offset"}, NEW cfg,
               newLoops(q, ts, start, cfg),
               \A u \in Targets : \/ loops'[q][u] \in {0, loops[q][u]}
                                  \/ u \in ts /\ loops'[q][u] = gen[q][u] + 1,
               \A r \in Pools : r # q => loops'[r] = loops[r]
        PROVE  Busy(l) /\ (i = loops'[p][t] => i = loops[p][t])
    <2>1. pc'[l] = IF l \in {NextLoop(q, u) : u \in ts} THEN start ELSE pc[l]
      BY <1>0, <1>1 DEF newLoops
    <2>2. l \notin {NextLoop(q, u) : u \in ts} /\ Busy(l)
      BY <2>1 DEF Busy
    <2>3. ~(p = q /\ t \in ts /\ i = gen[q][t] + 1)
      BY <2>2 DEF NextLoop
    <2>. QED  BY <1>1, <2>2, <2>3
  <1>2. ASSUME NEW q \in Pools, NEW cfg \in Configs, Reload(q, cfg)
        PROVE  Busy(l) /\ (i = loops'[p][t] => i = loops[p][t])
    <2>0. PICK ts : ts = {u \in Targets : loops[q][u] # 0}
      OBVIOUS
    <2>1. \A u \in Targets : loops'[q][u] = IF loops[q][u] # 0 THEN gen[q][u] + 1 ELSE 0
      BY <1>0, <1>2 DEF Reload, TypeOK
    <2>2. \A r \in Pools : r # q => loops'[r] = loops[r]
      BY <1>0, <1>2 DEF Reload, TypeOK
    <2>3. newLoops(q, ts, "created", cfg)
      BY <1>2, <2>0 DEF Reload
    <2>4. \A u \in Targets : \/ loops'[q][u] \in {0, loops[q][u]}
                             \/ u \in ts /\ loops'[q][u] = gen[q][u] + 1
      BY <2>0, <2>1
    <2>. QED  BY <1>1, <2>2, <2>3, <2>4
  <1>3. ASSUME NEW q \in Pools, SyncApply(q)
        PROVE  Busy(l) /\ (i = loops'[p][t] => i = loops[p][t])
    <2>0. PICK ts : ts = syncAll[q] \ activeTargets[q]
      OBVIOUS
    <2>1. \A u \in Targets :
              loops'[q][u] = IF u \in syncAll[q] \ activeTargets[q] THEN gen[q][u] + 1
                             ELSE IF u \in activeTargets[q] \ syncAll[q] THEN 0
                             ELSE loops[q][u]
      BY <1>0, <1>3 DEF SyncApply, TypeOK
    <2>2. \A r \in Pools : r # q => loops'[r] = loops[r]
      BY <1>0, <1>3 DEF SyncApply, TypeOK
    <2>3. newLoops(q, ts, "offset", config[q])
      BY <1>3, <2>0 DEF SyncApply
    <2>4. \A u \in Targets : \/ loops'[q][u] \in {0, loops[q][u]}
                             \/ u \in ts /\ loops'[q][u] = gen[q][u] + 1
      BY <2>0, <2>1
    <2>. QED  BY <1>1, <2>2, <2>3, <2>4
  <1>4. ASSUME NEW q \in Pools, StopSnapshot(q)
        PROVE  Busy(l) /\ (i = loops'[p][t] => i = loops[p][t])
    BY <1>0, <1>4, PoolAssumption DEF StopSnapshot, TypeOK, Busy
  <1>5. ASSUME NEW m \in LoopIds, RunLoop(m)
        PROVE  (Busy(l) \/ ~cancelled[p]) /\ loops' = loops
    BY <1>0, <1>5 DEF RunLoop, RunOffset, RunOffsetDone, RunCheck, RunCheckDone, Busy, Done,
        RunScrapeFailed, RunScrapeOk, RunWritten, RunTick, RunWaitDone, Goto
  <1>6. ASSUME NEW m \in launch, ReloadLaunch(m)
        PROVE  Busy(l) /\ loops' = loops
    BY <1>0, <1>6 DEF ReloadLaunch, TypeOK, Busy
  <1>7. CASE pc' = pc /\ loops' = loops
    BY <1>7 DEF Busy
  <1>8. CASE Calls
    BY <1>2, <1>7, <1>8 DEF Calls, newScrapePool, SyncBuild, StopCancel
  <1>9. CASE Internal
    BY <1>3, <1>4, <1>5, <1>6, <1>7, <1>9 DEF Internal, SyncReturn, ReloadOldStopped,
        ReloadReturn, StopReturn, LoopStop
  <1>. QED  BY <1>8, <1>9 DEF Next

\* A pool is cancelled, and its maps emptied, by stop alone.
LEMMA CancelledBy ==
    ASSUME TypeOK, Next, NEW p \in Pools, cancelled'[p], ctl'[p] # "cancelling"
    PROVE  cancelled[p] /\ (ctl[p] = "cancelling" => \A t \in Targets : loops'[p][t] = 0)
  <1>. USE DEF TypeOK, poolVars, loopVars, syncVars, ctlVars
  <1>1. CASE cancelled' = cancelled /\ ctl' = ctl
    BY <1>1
  <1>2. ASSUME NEW q \in Pools, StopCancel(q)
        PROVE  cancelled[p] /\ ctl[p] # "cancelling"
    BY <1>2 DEF StopCancel
  <1>3. ASSUME NEW q \in Pools, StopSnapshot(q)
        PROVE  cancelled[p] /\ (ctl[p] = "cancelling" => \A t \in Targets : loops'[p][t] = 0)
    BY <1>3 DEF StopSnapshot
  <1>4. ASSUME NEW q \in Pools, ReloadReturn(q) \/ StopReturn(q)
        PROVE  cancelled[p] /\ ctl[p] # "cancelling"
    BY <1>4 DEF ReloadReturn, StopReturn
  <1>5. ASSUME NEW q \in Pools, NEW cfg \in Configs, Reload(q, cfg)
        PROVE  cancelled[p] /\ ctl[p] # "cancelling"
    BY <1>5 DEF Reload
  <1>6. CASE Calls
    BY <1>1, <1>2, <1>5, <1>6 DEF Calls, newScrapePool, SyncBuild
  <1>7. ASSUME NEW l \in LoopIds, RunLoop(l)
        PROVE  cancelled' = cancelled /\ ctl' = ctl
    BY <1>7 DEF RunLoop, RunOffset, RunOffsetDone, RunCheck, RunCheckDone,
        RunScrapeFailed, RunScrapeOk, RunWritten, RunTick, RunWaitDone, Goto
  <1>8. CASE Internal
    BY <1>1, <1>3, <1>4, <1>7, <1>8 DEF Internal, SyncApply, SyncReturn, ReloadOldStopped,
        ReloadLaunch, LoopStop
  <1>. QED  BY <1>6, <1>8 DEF Next

\* In a pool that was stopped, only loops that left the map still scrape.
LEMMA CancelledInd ==
    ASSUME IndInv, CancelledLoopsIdle, Next
    PROVE  CancelledLoopsIdle'
  <1>. SUFFICES ASSUME NEW p \in Pools, NEW t \in Targets, NEW i \in 1..MaxLoops,
                       cancelled'[p], ctl'[p] # "cancelling", Busy(<<p, t, i>>)'
                PROVE  i # loops'[p][t]
    BY DEF CancelledLoopsIdle
  <1>1. cancelled[p] /\ (ctl[p] = "cancelling" => loops'[p][t] = 0)
    BY CancelledBy DEF IndInv
  <1>2. Busy(<<p, t, i>>) /\ (i = loops'[p][t] => i = loops[p][t])
    BY <1>1, BusyOrEntered
  <1>. QED  BY <1>1, <1>2 DEF CancelledLoopsIdle

\* Nothing of this changes while the pools stand still.
LEMMA PoolsStill ==
    ASSUME IndInv, CancelledLoopsIdle, UNCHANGED vars
    PROVE  IndInv' /\ CancelledLoopsIdle'
  <1>1. IndInv'
    BY NextInd
  <1>. QED
    BY <1>1 DEF CancelledLoopsIdle, vars, poolVars, loopVars, ctlVars, Busy

-----------------------------------------------------------------------------
(* The steps of the manager. *)

\* The manager starts without pools.
LEMMA ManagerInitInd == ManagerInit => MgrInd
  <1>. SUFFICES ASSUME ManagerInit PROVE MgrInd
    OBVIOUS
  <1>1. IndInv
    BY InitInd DEF ManagerInit
  <1>2. ManagerTypeOK
    <2>1. /\ scrapeConfigs \in [Jobs -> Configs \cup {NoConfig}]
          /\ scrapePools \in [Jobs -> Pools \cup {NoPool}]
          /\ newConfigs \in [Jobs -> Configs \cup {NoConfig}]
      BY ManagerAssumption DEF ManagerInit
    <2>2. /\ targetSets \in [Jobs -> (SUBSET Targets) \cup {NoSet}]
          /\ runTs \in [Jobs -> (SUBSET Targets) \cup {NoSet}]
      BY DEF ManagerInit
    <2>3. groups \in [Pools -> SUBSET Targets]
      BY DEF ManagerInit
    <2>4. updates \in 0..MaxEvents /\ applies \in 0..MaxEvents
      BY ManagerAssumption DEF ManagerInit
    <2>. QED
      BY <1>1, <2>1, <2>2, <2>3, <2>4, Zenon DEF ManagerInit, ManagerTypeOK, IndInv
  <1>. QED
    BY <1>1, <1>2, ManagerAssumption
      DEF MgrInd, ManagerInit, Init, CancelledLoopsIdle, LockHolders, PoolMap, CallersInside,
          Visiting, ReloadedPools, StoppedPools, PoolsInUseAreAlive

\* The step changes nothing that pools, locks and visits depend on.
Aside ==
    /\ UNCHANGED <<vars, scrapeConfigs, scrapePools, lockVars, work, syncing, groups, stopPc>>
    /\ reloaderPc' = reloaderPc \/ {reloaderPc, reloaderPc'} \cap {"visit", "sync"} = {}
    /\ applyPc' = applyPc \/ {applyPc, applyPc'} \cap {"visit"} = {}
    /\ targetSets' = targetSets \/ mtxScrape = "free"

\* Such a step keeps the invariant if it keeps the types.
LEMMA AsideInd ==
    ASSUME MgrInd, Aside, ManagerTypeOK'
    PROVE  MgrInd'
  <1>. USE DEF Aside, vars, lockVars, poolVars, loopVars, syncVars, ctlVars
  <1>1. IndInv' /\ CancelledLoopsIdle'
    BY PoolsStill DEF MgrInd
  <1>2. LockHolders'
    BY DEF MgrInd, LockHolders
  <1>3. PoolMap' /\ CallersInside' /\ Visiting'
    BY DEF MgrInd, PoolMap, CallersInside, Visiting
  <1>4. ReloadedPools'
    BY DEF MgrInd, ReloadedPools
  <1>5. StoppedPools'
    BY DEF MgrInd, StoppedPools, PoolsInUseAreAlive
  <1>. QED  BY <1>1, <1>2, <1>3, <1>4, <1>5 DEF MgrInd

\* TypeOK of the pools survives while they stand still.
LEMMA StillTypeOK ==
    ASSUME TypeOK, UNCHANGED vars
    PROVE  TypeOK'
  BY DEF TypeOK, vars, poolVars, loopVars, syncVars, ctlVars

\* Service discovery finds something else.
LEMMA DiscoverInd ==
    ASSUME MgrInd, NEW j \in Jobs, NEW tgs \in SUBSET Targets, Discover(j, tgs)
    PROVE  MgrInd'
  <1>. USE DEF sharedVars, lockVars, runVars, reloadVars, applyVars
  <1>1. updates' \in 0..MaxEvents
    BY ManagerAssumption DEF MgrInd, ManagerTypeOK, Discover, MoreEvents
  <1>2. sdGroups' \in [Jobs -> SUBSET Targets] /\ sdNew' \in BOOLEAN
    BY DEF MgrInd, ManagerTypeOK, Discover
  <1>3. TypeOK'
    BY StillTypeOK DEF MgrInd, ManagerTypeOK, Discover
  <1>4. ManagerTypeOK'
    BY <1>1, <1>2, <1>3 DEF MgrInd, ManagerTypeOK, Discover
  <1>5. Aside
    BY DEF Discover, Aside
  <1>. QED  BY <1>4, <1>5, AsideInd

\* The steps of Run.
LEMMA RunStepInd ==
    ASSUME MgrInd, RunStep
    PROVE  MgrInd'
  <1>. USE DEF notRun, sharedVars, lockVars, runVars, reloadVars, applyVars, sdVars
  <1>. USE DEF RunStep, RunReceive, updateTsets, RunTrigger, RunExit
  <1>1. runTs' \in [Jobs -> (SUBSET Targets) \cup {NoSet}]
    <2>1. CASE runTs' = [j \in Jobs |-> IF j \in sdJobs THEN sdGroups[j] ELSE NoSet]
      <3>1. \A j \in Jobs : sdGroups[j] \in SUBSET Targets
        BY DEF MgrInd, ManagerTypeOK
      <3>. QED  BY <2>1, <3>1
    <2>2. CASE runTs' = runTs
      BY <2>2 DEF MgrInd, ManagerTypeOK
    <2>. QED  BY <2>1, <2>2
  <1>2. /\ targetSets' \in [Jobs -> (SUBSET Targets) \cup {NoSet}]
        /\ runPc' \in {"receive", "update", "trigger", "done"}
    BY DEF MgrInd, ManagerTypeOK
  <1>3. TypeOK'
    BY StillTypeOK DEF MgrInd, ManagerTypeOK
  <1>4. triggerReload' \in BOOLEAN /\ sdNew' \in BOOLEAN
    BY DEF MgrInd, ManagerTypeOK
  <1>5. UNCHANGED <<scrapeConfigs, scrapePools, graceShut, lockVars, reloadVars, applyVars,
                    stopPc, sdJobs, sdGroups, updates>>
    OBVIOUS
  <1>6. ManagerTypeOK'
    BY <1>1, <1>2, <1>3, <1>4, <1>5 DEF MgrInd, ManagerTypeOK
  <1>7. Aside
    BY DEF Aside
  <1>. QED  BY <1>6, <1>7, AsideInd

\* The reloader between two reloads, and its channel.
LEMMA ReloaderAsideInd ==
    ASSUME MgrInd, ReloaderTick \/ ReloaderExit \/ ReloaderTrigger
    PROVE  MgrInd'
  <1>. USE DEF notReloader, sharedVars, lockVars, runVars, applyVars, sdVars
  <1>. USE DEF ReloaderTick, ReloaderExit, ReloaderTrigger
  <1>1. TypeOK'
    BY StillTypeOK DEF MgrInd, ManagerTypeOK
  <1>2. reloaderPc' \in {"select", "lock", "done"} /\ triggerReload' \in BOOLEAN
    BY DEF MgrInd, ManagerTypeOK
  <1>3. ManagerTypeOK'
    BY <1>1, <1>2 DEF MgrInd, ManagerTypeOK
  <1>4. Aside
    BY <1>2 DEF Aside
  <1>. QED  BY <1>3, <1>4, AsideInd

\* Discovery is given the new configuration.
LEMMA ApplyDiscoveryInd ==
    ASSUME MgrInd, NEW cfgs \in [Jobs -> Configs \cup {NoConfig}], ApplyDiscovery(cfgs)
    PROVE  MgrInd'
  <1>. USE DEF sharedVars, lockVars, runVars, reloadVars, ApplyDiscovery
  <1>1. applies' \in 0..MaxEvents
    BY ManagerAssumption DEF MgrInd, ManagerTypeOK, MoreEvents
  <1>2. TypeOK'
    BY StillTypeOK DEF MgrInd, ManagerTypeOK
  <1>3. sdJobs' \subseteq Jobs /\ sdNew' \in BOOLEAN
    OBVIOUS
  <1>4. ManagerTypeOK'
    BY <1>1, <1>2, <1>3 DEF MgrInd, ManagerTypeOK
  <1>5. Aside
    BY DEF Aside
  <1>. QED  BY <1>4, <1>5, AsideInd

\* What a step of a goroutine that leaves the pools and their map alone has to
\* show: that the locks, visits and pools of a reload still fit.
LEMMA StillInd ==
    ASSUME MgrInd, UNCHANGED <<vars, scrapePools>>, ManagerTypeOK', LockHolders',
           syncing' = syncing, cur' = cur,
           Visiting', ReloadedPools',
           applyPc' = "visit" /\ cur # NoPool => applyPc = "visit" /\ scrapeConfigs' = scrapeConfigs,
           stopPc' = "idle" => stopPc = "idle"
    PROVE  MgrInd'
  <1>. USE DEF vars, poolVars, loopVars, syncVars, ctlVars
  <1>1. IndInv' /\ CancelledLoopsIdle'
    BY PoolsStill DEF MgrInd
  <1>2. PoolMap' /\ CallersInside'
    BY DEF MgrInd, PoolMap, CallersInside
  <1>3. StoppedPools'
    BY DEF MgrInd, StoppedPools, PoolsInUseAreAlive
  <1>. QED  BY <1>1, <1>2, <1>3 DEF MgrInd

\* reload() takes mtxScrape.
LEMMA ReloadLockInd ==
    ASSUME MgrInd, ReloadLock
    PROVE  MgrInd'
  <1>. USE DEF ReloadLock, sharedVars, runVars, applyVars, sdVars
  <1>1. TypeOK'
    BY StillTypeOK DEF MgrInd, ManagerTypeOK
  <1>2. ManagerTypeOK'
    BY <1>1 DEF MgrInd, ManagerTypeOK, WithTargets
  <1>3. LockHolders'
    BY DEF MgrInd, LockHolders
  <1>4. Visiting'
    BY DEF MgrInd, Visiting, WithTargets
  <1>5. ReloadedPools'
    BY DEF MgrInd, ReloadedPools, vars, poolVars
  <1>. QED  BY <1>2, <1>3, <1>4, <1>5, StillInd DEF MgrInd

\* It comes to a job that has a pool.
LEMMA ReloadVisitInd ==
    ASSUME MgrInd, NEW j \in Jobs, ReloadVisit(j)
    PROVE  MgrInd'
  <1>. USE DEF ReloadVisit, sharedVars, runVars, applyVars, sdVars
  <1>0. PICK p \in Pools : p = scrapePools[j] /\ JobOf[p] = j /\ config[p] # NoConfig
    BY DEF MgrInd, ManagerTypeOK, PoolMap
  <1>1. TypeOK'
    BY StillTypeOK DEF MgrInd, ManagerTypeOK
  <1>2. targetSets[j] \in SUBSET Targets
    BY DEF MgrInd, ManagerTypeOK, Visiting, LockHolders
  <1>3. groups' \in [Pools -> SUBSET Targets] /\ work' \subseteq Pools /\ todo' \subseteq Jobs
    BY <1>0, <1>2 DEF MgrInd, ManagerTypeOK
  <1>4. ManagerTypeOK'
    BY <1>1, <1>3 DEF MgrInd, ManagerTypeOK
  <1>5. LockHolders'
    BY DEF MgrInd, LockHolders
  <1>6. Visiting'
    BY DEF MgrInd, Visiting, LockHolders
  <1>7. ReloadedPools'
    <2>1. syncing = {} /\ config' = config
      BY DEF MgrInd, ReloadedPools, vars, poolVars
    <2>2. \A q \in work : JobOf[q] = j => q = p
      BY <1>0 DEF MgrInd, ReloadedPools
    <2>. QED  BY <1>0, <2>1, <2>2 DEF MgrInd, ReloadedPools
  <1>. QED  BY <1>4, <1>5, <1>6, <1>7, StillInd DEF MgrInd

\* It has neither a pool nor a configuration.
LEMMA ReloadVisitInvalidInd ==
    ASSUME MgrInd, NEW j \in Jobs, ReloadVisitInvalid(j)
    PROVE  MgrInd'
  <1>. USE DEF ReloadVisitInvalid, sharedVars, runVars, reloadVars, applyVars, sdVars
  <1>1. TypeOK'
    BY StillTypeOK DEF MgrInd, ManagerTypeOK
  <1>2. ManagerTypeOK'
    BY <1>1 DEF MgrInd, ManagerTypeOK
  <1>3. LockHolders'
    BY DEF MgrInd, LockHolders
  <1>4. Visiting'
    BY DEF MgrInd, Visiting, LockHolders
  <1>5. ReloadedPools'
    BY DEF MgrInd, ReloadedPools, vars, poolVars
  <1>. QED  BY <1>2, <1>3, <1>4, <1>5, StillInd DEF MgrInd

\* The reloader gives mtxScrape back before it calls Sync.
LEMMA ReloadUnlockInd ==
    ASSUME MgrInd, ReloadUnlock
    PROVE  MgrInd'
  <1>. USE DEF ReloadUnlock, sharedVars, runVars, applyVars, sdVars
  <1>1. TypeOK'
    BY StillTypeOK DEF MgrInd, ManagerTypeOK
  <1>2. ManagerTypeOK'
    BY <1>1 DEF MgrInd, ManagerTypeOK
  <1>3. LockHolders'
    BY DEF MgrInd, LockHolders
  <1>4. Visiting'
    BY DEF MgrInd, Visiting, LockHolders
  <1>5. ReloadedPools'
    BY DEF MgrInd, ReloadedPools, vars, poolVars
  <1>. QED  BY <1>2, <1>3, <1>4, <1>5, StillInd DEF MgrInd

\* Every Sync has returned.
LEMMA ReloadDoneInd ==
    ASSUME MgrInd, ReloadDone
    PROVE  MgrInd'
  <1>. USE DEF ReloadDone, sharedVars, lockVars, runVars, applyVars, sdVars
  <1>1. IndInv' /\ CancelledLoopsIdle'
    BY PoolsStill DEF MgrInd
  <1>2. ManagerTypeOK'
    BY <1>1 DEF MgrInd, ManagerTypeOK, IndInv
  <1>3. LockHolders' /\ Visiting'
    BY DEF MgrInd, LockHolders, Visiting
  <1>4. PoolMap' /\ CallersInside'
    BY DEF MgrInd, PoolMap, CallersInside, Synced, vars, poolVars, syncVars, ctlVars
  <1>5. ReloadedPools'
    BY DEF MgrInd, ReloadedPools, vars, poolVars
  <1>6. StoppedPools'
    BY DEF MgrInd, StoppedPools, PoolsInUseAreAlive, vars, poolVars
  <1>. QED  BY <1>1, <1>2, <1>3, <1>4, <1>5, <1>6 DEF MgrInd

\* ApplyConfig and Stop take mtxScrape.
LEMMA TakeLockInd ==
    ASSUME MgrInd, ApplyConfig \/ Stop
    PROVE  MgrInd'
  <1>. USE DEF ApplyConfig, Stop, sharedVars, runVars, reloadVars, applyVars, sdVars
  <1>1. TypeOK'
    BY StillTypeOK DEF MgrInd, ManagerTypeOK
  <1>2. ManagerTypeOK'
    BY <1>1 DEF MgrInd, ManagerTypeOK
  <1>3. LockHolders'
    BY DEF MgrInd, LockHolders
  <1>4. Visiting' /\ cur = NoPool
    BY DEF MgrInd, Visiting
  <1>5. ReloadedPools'
    BY DEF MgrInd, ReloadedPools, vars, poolVars
  <1>. QED  BY <1>2, <1>3, <1>4, <1>5, StillInd DEF MgrInd

\* ApplyConfig leaves a pool whose configuration did not change alone.
LEMMA ApplyKeepPoolInd ==
    ASSUME MgrInd, NEW j \in Jobs, ApplyKeepPool(j)
    PROVE  MgrInd'
  <1>. USE DEF ApplyKeepPool, sharedVars, runVars, reloadVars, applyVars, sdVars
  <1>1. TypeOK'
    BY StillTypeOK DEF MgrInd, ManagerTypeOK
  <1>2. ManagerTypeOK'
    BY <1>1 DEF MgrInd, ManagerTypeOK
  <1>3. LockHolders'
    BY DEF MgrInd, LockHolders
  <1>4. Visiting'
    BY DEF MgrInd, Visiting, LockHolders
  <1>5. ReloadedPools'
    BY DEF MgrInd, ReloadedPools, vars, poolVars
  <1>. QED  BY <1>2, <1>3, <1>4, <1>5, StillInd DEF MgrInd

\* ApplyConfig returns, Stop closes graceShut: both have visited every pool.
LEMMA ReleaseLockInd ==
    ASSUME MgrInd, ApplyReturn \/ StopClose
    PROVE  MgrInd'
  <1>. USE DEF ApplyReturn, StopClose, sharedVars, runVars, reloadVars, applyVars, sdVars
  <1>1. TypeOK'
    BY StillTypeOK DEF MgrInd, ManagerTypeOK
  <1>2. ManagerTypeOK'
    <2>1. CASE ApplyReturn
      BY <1>1, <2>1 DEF MgrInd, ManagerTypeOK
    <2>2. CASE StopClose
      BY <1>1, <2>2 DEF MgrInd, ManagerTypeOK
    <2>. QED  BY <2>1, <2>2
  <1>3. LockHolders'
    BY DEF MgrInd, LockHolders
  <1>4. Visiting' /\ cur = NoPool
    BY DEF MgrInd, Visiting, LockHolders
  <1>5. ReloadedPools'
    BY DEF MgrInd, ReloadedPools, vars, poolVars
  <1>. QED  BY <1>2, <1>3, <1>4, <1>5, StillInd DEF MgrInd

\* The call on the pool returned: ApplyConfig deletes a pool it stopped, and Stop
\* leaves it in the map.
LEMMA PoolDoneInd ==
    ASSUME MgrInd, NEW j \in Jobs, ApplyPoolDone(j) \/ StopPoolDone(j)
    PROVE  MgrInd'
  <1>. USE DEF ApplyPoolDone, StopPoolDone, sharedVars, runVars, reloadVars, applyVars, sdVars
  <1>0. /\ cur \in Pools /\ cur = scrapePools[j] /\ JobOf[cur] = j /\ ctl[cur] = "idle"
        /\ mtxScrape \in {"apply", "stop"}
    BY DEF MgrInd, ManagerTypeOK, Visiting, LockHolders, PoolMap, Returned
  <1>1. IndInv' /\ CancelledLoopsIdle' /\ config' = config /\ cancelled' = cancelled
            /\ syncPc' = syncPc /\ ctl' = ctl
    BY PoolsStill DEF MgrInd, vars, poolVars, syncVars, ctlVars
  <1>2. /\ scrapePools' \in [Jobs -> Pools \cup {NoPool}]
        /\ \A k \in Jobs : k # j => scrapePools'[k] = scrapePools[k]
        /\ scrapePools'[j] \in {cur, NoPool}
        /\ scrapePools'[j] = NoPool => applyPc = "visit" /\ scrapeConfigs[j] = NoConfig
        /\ applyPc = "visit" /\ scrapeConfigs[j] = NoConfig => scrapePools'[j] = NoPool
    BY <1>0, ManagerAssumption DEF MgrInd, ManagerTypeOK, PoolsAfter, LockHolders
  <1>3. ManagerTypeOK'
    BY <1>1, <1>2 DEF MgrInd, ManagerTypeOK, IndInv
  <1>4. LockHolders'
    BY DEF MgrInd, LockHolders
  <1>5. PoolMap'
    BY <1>1, <1>2 DEF MgrInd, PoolMap
  <1>6. CallersInside'
    BY <1>0, <1>1 DEF MgrInd, CallersInside
  <1>7. Visiting'
    BY <1>0, <1>2 DEF MgrInd, Visiting, ManagerTypeOK
  <1>8. ReloadedPools'
    BY <1>0, <1>1, <1>2, ManagerAssumption DEF MgrInd, ReloadedPools, LockHolders, ManagerTypeOK
  <1>9. StoppedPools'
    <2>1. \A k \in Jobs : scrapePools'[k] # NoPool /\ cancelled'[scrapePools'[k]]
            => stopPc' # "idle"
      <3>. SUFFICES ASSUME NEW k \in Jobs, scrapePools'[k] # NoPool,
                           cancelled[scrapePools[k]], stopPc = "idle"
                    PROVE  FALSE
        BY <1>0, <1>1, <1>2 DEF LockHolders
      <3>1. scrapePools[k] = cur /\ k = j
        BY <1>0, <1>2, <1>1 DEF MgrInd, StoppedPools, PoolsInUseAreAlive, PoolMap
      <3>. QED  BY <1>0, <1>2, <3>1 DEF MgrInd, StoppedPools, LockHolders
    <2>2. \A p \in Pools : config[p] # NoConfig /\ scrapePools'[JobOf[p]] # p => cancelled[p]
      BY <1>0, <1>2, ManagerAssumption DEF MgrInd, StoppedPools
    <2>. QED  BY <1>0, <1>1, <2>1, <2>2 DEF StoppedPools, PoolsInUseAreAlive
  <1>. QED  BY <1>1, <1>3, <1>4, <1>5, <1>6, <1>7, <1>8, <1>9 DEF MgrInd

\* The reloader creates the pool that a job lacks.
LEMMA ReloadVisitCreateInd ==
    ASSUME MgrInd, NEW j \in Jobs, NEW p \in Pools, ReloadVisitCreate(j, p)
    PROVE  MgrInd'
  <1>. USE DEF ReloadVisitCreate, runVars, applyVars, sdVars
  <1>0. /\ scrapeConfigs[j] \in Configs /\ scrapePools[j] = NoPool /\ JobOf[p] = j
        /\ config[p] = NoConfig /\ ~cancelled[p] /\ mtxScrape = "reloader" /\ cur = NoPool
        /\ syncing = {} /\ targetSets[j] \in SUBSET Targets /\ p \notin work
    BY DEF MgrInd, ManagerTypeOK, newScrapePool, PoolMap, LockHolders, Visiting, ReloadedPools
  <1>1. newScrapePool(p, scrapeConfigs[j])
    OBVIOUS
  <1>2. IndInv' /\ CancelledLoopsIdle'
    <2>1. Next
      BY <1>0, <1>1 DEF Next, Calls
    <2>. QED  BY <2>1, NextInd, CancelledInd DEF MgrInd
  <1>3. /\ config' = [config EXCEPT ![p] = scrapeConfigs[j]]
        /\ UNCHANGED <<cancelled, syncPc, ctl>>
    BY <1>1 DEF newScrapePool, syncVars, ctlVars
  <1>4. \A q \in Pools : config'[q] = IF q = p THEN scrapeConfigs[j] ELSE config[q]
    BY <1>3 DEF MgrInd, ManagerTypeOK, TypeOK
  <1>5. \A k \in Jobs : scrapePools'[k] = IF k = j THEN p ELSE scrapePools[k]
    BY DEF MgrInd, ManagerTypeOK
  <1>6. ManagerTypeOK'
    <2>1. /\ scrapePools' \in [Jobs -> Pools \cup {NoPool}]
          /\ groups' \in [Pools -> SUBSET Targets] /\ work' \subseteq Pools /\ todo' \subseteq Jobs
      BY <1>0 DEF MgrInd, ManagerTypeOK
    <2>. QED  BY <1>2, <2>1 DEF MgrInd, ManagerTypeOK, IndInv
  <1>7. LockHolders'
    BY DEF MgrInd, LockHolders
  <1>8. PoolMap'
    BY <1>0, <1>3, <1>4, <1>5, PoolAssumption DEF MgrInd, PoolMap, ManagerTypeOK
  <1>9. CallersInside' /\ Visiting'
    BY <1>0, <1>3, <1>5 DEF MgrInd, CallersInside, Visiting
  <1>10. ReloadedPools'
    <2>1. \A q \in work : JobOf[q] # j
      BY <1>0, ManagerAssumption DEF MgrInd, ReloadedPools, ManagerTypeOK, LockHolders
    <2>2. \A q \in work : JobOf[q] \in Jobs /\ q \in Pools
      BY ManagerAssumption DEF MgrInd, ManagerTypeOK
    <2>. QED  BY <1>0, <1>4, <1>5, <2>1, <2>2, PoolAssumption DEF MgrInd, ReloadedPools
  <1>11. StoppedPools'
    <2>1. PoolsInUseAreAlive'
      BY <1>0, <1>3, <1>5 DEF MgrInd, StoppedPools, PoolsInUseAreAlive
    <2>2. \A q \in Pools : config'[q] # NoConfig /\ scrapePools'[JobOf[q]] # q => cancelled'[q]
      <3>. SUFFICES ASSUME NEW q \in Pools, config'[q] # NoConfig, scrapePools'[JobOf[q]] # q
                    PROVE  cancelled[q]
        BY <1>3
      <3>1. q # p /\ config[q] # NoConfig
        BY <1>0, <1>4, <1>5
      <3>2. scrapePools[JobOf[q]] # q
        BY <1>0, <1>5, ManagerAssumption DEF MgrInd, ManagerTypeOK
      <3>. QED  BY <3>1, <3>2 DEF MgrInd, StoppedPools
    <2>. QED  BY <1>0, <2>1, <2>2 DEF StoppedPools
  <1>. QED  BY <1>2, <1>6, <1>7, <1>8, <1>9, <1>10, <1>11 DEF MgrInd

\* reload() calls Sync of one of its pools.
LEMMA ReloadSyncInd ==
    ASSUME MgrInd, NEW p \in Pools, ReloadSync(p)
    PROVE  MgrInd'
  <1>. USE DEF ReloadSync, sharedVars, lockVars, runVars, applyVars, sdVars
  <1>1. IndInv' /\ CancelledLoopsIdle'
    <2>1. groups[p] \in SUBSET Targets
      BY DEF MgrInd, ManagerTypeOK
    <2>2. Next
      BY <2>1 DEF Next, Calls
    <2>. QED  BY <2>2, NextInd, CancelledInd DEF MgrInd
  <1>2. /\ UNCHANGED <<config, cancelled, ctl>>
        /\ syncPc' = [syncPc EXCEPT ![p] = "built"]
    BY DEF SyncBuild, ctlVars
  <1>3. ManagerTypeOK'
    BY <1>1 DEF MgrInd, ManagerTypeOK, IndInv
  <1>4. LockHolders' /\ PoolMap' /\ Visiting'
    BY <1>2 DEF MgrInd, LockHolders, PoolMap, Visiting
  <1>5. CallersInside'
    BY <1>2 DEF MgrInd, CallersInside, ManagerTypeOK, TypeOK
  <1>6. ReloadedPools'
    BY <1>2 DEF MgrInd, ReloadedPools
  <1>7. StoppedPools'
    BY <1>2 DEF MgrInd, StoppedPools, PoolsInUseAreAlive
  <1>. QED  BY <1>1, <1>3, <1>4, <1>5, <1>6, <1>7 DEF MgrInd

\* ApplyConfig and Stop stop a pool.
LEMMA StopPoolInd ==
    ASSUME MgrInd, NEW j \in Jobs, ApplyStopPool(j) \/ StopPool(j)
    PROVE  MgrInd'
  <1>. USE DEF ApplyStopPool, StopPool, sharedVars, runVars, reloadVars, applyVars, sdVars
  <1>0. PICK p \in Pools : /\ p = scrapePools[j] /\ JobOf[p] = j
                           /\ mtxScrape \in {"apply", "stop"} /\ config[p] # NoConfig
    BY DEF MgrInd, ManagerTypeOK, Visiting, LockHolders, PoolMap
  <1>1. StopCancel(p) /\ cur' = p /\ cur = NoPool
    BY <1>0
  <1>2. IndInv' /\ CancelledLoopsIdle'
    <2>1. Next
      BY <1>1 DEF Next, Calls
    <2>. QED  BY <2>1, NextInd, CancelledInd DEF MgrInd
  <1>3. /\ config' = config /\ syncPc' = syncPc
        /\ \A q \in Pools : cancelled'[q] <=> q = p \/ cancelled[q]
        /\ \A q \in Pools : ctl'[q] = IF q = p THEN "cancelling" ELSE ctl[q]
    BY <1>1 DEF StopCancel, poolVars, syncVars, MgrInd, ManagerTypeOK, TypeOK
  <1>4. ManagerTypeOK'
    BY <1>1, <1>2 DEF MgrInd, ManagerTypeOK, IndInv
  <1>5. LockHolders' /\ ReloadedPools'
    BY <1>3 DEF MgrInd, LockHolders, ReloadedPools
  <1>6. PoolMap'
    BY <1>0, <1>3 DEF MgrInd, PoolMap
  <1>7. CallersInside'
    BY <1>1, <1>3, ManagerAssumption DEF MgrInd, CallersInside
  <1>8. Visiting'
    BY <1>0, <1>1 DEF MgrInd, Visiting
  <1>9. StoppedPools'
    <2>1. PoolsInUseAreAlive'
      BY <1>0, <1>1, <1>3 DEF MgrInd, StoppedPools, PoolsInUseAreAlive, ManagerTypeOK
    <2>2. applyPc' = "visit" => scrapeConfigs'[j] = NoConfig
      BY <1>0 DEF MgrInd, LockHolders
    <2>3. \A q \in Pools : config[q] # NoConfig /\ scrapePools[JobOf[q]] # q => cancelled'[q]
      BY <1>3 DEF MgrInd, StoppedPools
    <2>. QED  BY <1>0, <1>1, <1>3, <2>1, <2>2, <2>3 DEF StoppedPools
  <1>. QED  BY <1>2, <1>4, <1>5, <1>6, <1>7, <1>8, <1>9 DEF MgrInd

\* ApplyConfig reloads a pool whose configuration changed, or whose params did.
LEMMA ApplyReloadPoolInd ==
    ASSUME MgrInd, NEW j \in Jobs, ApplyReloadPool(j)
    PROVE  MgrInd'
  <1>. USE DEF ApplyReloadPool, sharedVars, runVars, reloadVars, applyVars, sdVars
  <1>0. PICK p \in Pools : /\ p = scrapePools[j] /\ JobOf[p] = j
                           /\ mtxScrape = "apply" /\ config[p] # NoConfig
    BY DEF MgrInd, ManagerTypeOK, Visiting, LockHolders, PoolMap
  <1>1. PICK cfg \in Configs : cfg = scrapeConfigs[j]
    BY DEF MgrInd, ManagerTypeOK
  <1>2. Reload(p, cfg) /\ cur' = p /\ cur = NoPool
    BY <1>0, <1>1
  <1>3. IndInv' /\ CancelledLoopsIdle'
    <2>1. Next
      BY <1>2 DEF Next, Calls
    <2>. QED  BY <2>1, NextInd, CancelledInd DEF MgrInd
  <1>4. /\ cancelled' = cancelled /\ syncPc' = syncPc
        /\ \A q \in Pools : config'[q] = IF q = p THEN cfg ELSE config[q]
        /\ \A q \in Pools : ctl'[q] = IF q = p THEN "reload" ELSE ctl[q]
    BY <1>2 DEF Reload, syncVars, MgrInd, ManagerTypeOK, TypeOK
  <1>a. \A q \in Pools : config'[q] = NoConfig <=> config[q] = NoConfig
    BY <1>0, <1>4, PoolAssumption
  <1>5. ManagerTypeOK'
    BY <1>2, <1>3 DEF MgrInd, ManagerTypeOK, IndInv
  <1>6. LockHolders'
    BY DEF MgrInd, LockHolders
  <1>7. PoolMap'
    BY <1>a, <1>4 DEF MgrInd, PoolMap, ManagerTypeOK
  <1>8. CallersInside'
    BY <1>2, <1>4, ManagerAssumption DEF MgrInd, CallersInside
  <1>9. Visiting'
    BY <1>0, <1>2 DEF MgrInd, Visiting
  <1>10. ReloadedPools'
    BY <1>a DEF MgrInd, ReloadedPools, ManagerTypeOK
  <1>11. StoppedPools'
    <2>1. ~cancelled[p] \/ stopPc # "idle"
      BY <1>0, <1>2, ManagerAssumption DEF MgrInd, StoppedPools, PoolsInUseAreAlive
    <2>2. PoolsInUseAreAlive'
      BY <1>2, <1>4, ManagerAssumption DEF MgrInd, StoppedPools, PoolsInUseAreAlive
    <2>. QED  BY <1>0, <1>a, <1>1, <1>2, <1>4, <2>1, <2>2, PoolAssumption
            DEF MgrInd, StoppedPools
  <1>. QED  BY <1>3, <1>5, <1>6, <1>7, <1>8, <1>9, <1>10, <1>11 DEF MgrInd

\* The goroutines inside the pools.
LEMMA PoolStepInd ==
    ASSUME MgrInd, PoolStep
    PROVE  MgrInd'
  <1>. USE DEF PoolStep, mgrVars, lockVars, runVars, reloadVars, applyVars, sdVars
  <1>1. IndInv' /\ CancelledLoopsIdle'
    BY NextInd, CancelledInd DEF MgrInd, Next
  <1>2. /\ config' = config /\ cancelled' = cancelled
        /\ \A p \in Pools : syncPc'[p] # "idle" => syncPc[p] # "idle"
        /\ \A p \in Pools : ctl'[p] # "idle" => ctl[p] # "idle"
    BY InternalKeeps DEF MgrInd, ManagerTypeOK
  <1>3. ManagerTypeOK'
    BY <1>1 DEF MgrInd, ManagerTypeOK, IndInv
  <1>4. LockHolders' /\ PoolMap' /\ CallersInside' /\ Visiting'
    BY <1>2 DEF MgrInd, LockHolders, PoolMap, CallersInside, Visiting
  <1>5. ReloadedPools' /\ StoppedPools'
    BY <1>2 DEF MgrInd, ReloadedPools, StoppedPools, PoolsInUseAreAlive
  <1>. QED  BY <1>1, <1>3, <1>4, <1>5 DEF MgrInd

\* Every step of the manager and its pools keeps the invariant.
LEMMA ManagerNextInd ==
    ASSUME MgrInd, [ManagerNext]_allVars
    PROVE  MgrInd'
  <1>1. CASE \E j \in Jobs, tgs \in SUBSET Targets : Discover(j, tgs)
    BY <1>1, DiscoverInd
  <1>2. CASE \E cfgs \in [Jobs -> Configs \cup {NoConfig}] : ApplyDiscovery(cfgs)
    BY <1>2, ApplyDiscoveryInd
  <1>3. CASE RunStep
    BY <1>3, RunStepInd
  <1>4. CASE ReloaderStep
    BY <1>4, ReloaderAsideInd, ReloadLockInd, ReloadVisitInd, ReloadVisitCreateInd,
       ReloadVisitInvalidInd, ReloadUnlockInd, ReloadSyncInd, ReloadDoneInd DEF ReloaderStep
  <1>5. CASE ApplyStep
    BY <1>5, TakeLockInd, StopPoolInd, ApplyReloadPoolInd, ApplyKeepPoolInd, PoolDoneInd,
       ReleaseLockInd DEF ApplyStep
  <1>6. CASE Stop \/ StopStep
    BY <1>6, TakeLockInd, StopPoolInd, PoolDoneInd, ReleaseLockInd DEF StopStep
  <1>7. CASE PoolStep
    BY <1>7, PoolStepInd
  <1>8. CASE UNCHANGED allVars
    <2>. USE DEF allVars, mgrVars, lockVars, runVars, reloadVars, applyVars, sdVars
    <2>1. ManagerTypeOK'
      BY <1>8, StillTypeOK DEF MgrInd, ManagerTypeOK
    <2>2. Aside
      BY <1>8 DEF Aside
    <2>. QED  BY <2>1, <2>2, AsideInd
  <1>. QED  BY <1>1, <1>2, <1>3, <1>4, <1>5, <1>6, <1>7, <1>8 DEF ManagerNext

-----------------------------------------------------------------------------
\* The inductive invariant holds in every reachable state of the manager.
THEOREM ManagerInvariance == ManagerSpec => []MgrInd
  <1>1. ManagerInit => MgrInd
    BY ManagerInitInd
  <1>2. MgrInd /\ [ManagerNext]_allVars => MgrInd'
    BY ManagerNextInd
  <1>. QED  BY <1>1, <1>2, PTL DEF ManagerSpec

\* The variables of the manager keep their types: in particular Sync is only ever
\* called with the groups of a job that has an entry in targetSets.
THEOREM ManagerTypeCorrect == ManagerSpec => []ManagerTypeOK
  <1>1. MgrInd => ManagerTypeOK
    BY DEF MgrInd
  <1>. QED  BY <1>1, ManagerInvariance, PTL

\* reload() calls Sync of a pool, and ApplyConfig and Stop its reload or stop,
\* only when no earlier call of that kind is still inside the pool.
THEOREM ManagerCallsOneAtATime == ManagerSpec => []CallersNeverOverlap
  <1>1. MgrInd => CallersNeverOverlap
    <2>. SUFFICES ASSUME MgrInd PROVE CallersNeverOverlap
      OBVIOUS
    <2>1. reloaderPc = "sync" => \A p \in work : config[p] # NoConfig /\ syncPc[p] = "idle"
      BY DEF MgrInd, ReloadedPools, CallersInside, ManagerTypeOK
    <2>2. ASSUME applyPc = "visit" \/ stopPc = "visit", cur = NoPool, NEW j \in todo
          PROVE  config[scrapePools[j]] # NoConfig /\ ctl[scrapePools[j]] = "idle"
      <3>1. j \in Jobs /\ scrapePools[j] # NoPool /\ scrapePools[j] \in Pools
        BY <2>2 DEF MgrInd, Visiting, LockHolders, ManagerTypeOK
      <3>. QED  BY <2>2, <3>1 DEF MgrInd, PoolMap, CallersInside
    <2>. QED  BY <2>1, <2>2 DEF CallersNeverOverlap
  <1>. QED  BY <1>1, ManagerInvariance, PTL

\* Under the manager the pools behave as ScrapePool says: Run, the reloader, the
\* configuration reloader and Stop keep its contract, so what is proved of the
\* pools holds of them.
THEOREM ManagerDrivesPools == ManagerSpec => Spec
  <1>1. ManagerInit => Init
    BY DEF ManagerInit
  <1>2. MgrInd /\ [ManagerNext]_allVars => [Next]_vars
    <2>. SUFFICES ASSUME MgrInd, [ManagerNext]_allVars, ~UNCHANGED vars
                  PROVE  Next
      OBVIOUS
    <2>1. ASSUME NEW j \in Jobs, NEW p \in Pools, ReloadVisitCreate(j, p)
          PROVE  Next
      BY <2>1 DEF ReloadVisitCreate, MgrInd, ManagerTypeOK, Next, Calls
    <2>2. ASSUME NEW p \in Pools, ReloadSync(p)
          PROVE  Next
      BY <2>2 DEF ReloadSync, MgrInd, ManagerTypeOK, Next, Calls
    <2>3. ASSUME NEW j \in Jobs, ApplyStopPool(j) \/ StopPool(j)
          PROVE  Next
      <3>1. scrapePools[j] \in Pools
        BY <2>3 DEF ApplyStopPool, StopPool, MgrInd, ManagerTypeOK, Visiting, LockHolders
      <3>. QED  BY <2>3, <3>1 DEF ApplyStopPool, StopPool, Next, Calls
    <2>4. ASSUME NEW j \in Jobs, ApplyReloadPool(j)
          PROVE  Next
      <3>1. scrapePools[j] \in Pools /\ scrapeConfigs[j] \in Configs
        BY <2>4 DEF ApplyReloadPool, MgrInd, ManagerTypeOK, Visiting, LockHolders
      <3>. QED  BY <2>4, <3>1 DEF ApplyReloadPool, Next, Calls
    <2>5. CASE PoolStep
      BY <2>5 DEF PoolStep, Next
    <2>6. CASE ReloaderStep
      BY <2>1, <2>2, <2>6 DEF ReloaderStep, ReloaderTick, ReloaderExit, ReloaderTrigger,
          ReloadLock, ReloadVisit, ReloadVisitInvalid, ReloadUnlock, ReloadDone, notReloader
    <2>7. CASE ApplyStep
      BY <2>3, <2>4, <2>7 DEF ApplyStep, ApplyConfig, ApplyKeepPool, ApplyPoolDone, ApplyReturn
    <2>8. CASE Stop \/ StopStep
      BY <2>3, <2>8 DEF Stop, StopStep, StopPoolDone, StopClose
    <2>9. CASE RunStep
      BY <2>9 DEF RunStep, RunReceive, updateTsets, RunTrigger, RunExit, notRun
    <2>. QED  BY <2>5, <2>6, <2>7, <2>8, <2>9 DEF ManagerNext, Discover, ApplyDiscovery, allVars
  <1>. QED  BY <1>1, <1>2, ManagerInvariance, PTL DEF ManagerSpec, Spec

\* A pool that is not in scrapePools scrapes only through loops that Sync of the
\* running reload() waits for.
LEMMA Draining ==
    ASSUME MgrInd
    PROVE  DeletedPoolIsDraining
  <1>. SUFFICES ASSUME NEW l \in LoopIds, Busy(l), scrapePools[JobOf[l[1]]] # l[1]
                PROVE  l[1] \in syncing /\ l \in syncWait[l[1]]
    BY DEF DeletedPoolIsDraining
  <1>0. PICK p \in Pools, t \in Targets, i \in 1..MaxLoops : l = <<p, t, i>>
    BY DEF LoopIds
  <1>1. i \in 1..gen[p][t]
    BY <1>0, PoolAssumption DEF MgrInd, IndInv, TypeOK, LoopNumbering, Busy
  <1>2. i = loops[p][t] \/ l \in syncWait[p] \cup ctlWait[p]
    BY <1>0, <1>1 DEF MgrInd, IndInv, NoLoopLeaked, Busy
  <1>3. cur # p
    BY <1>0, ManagerAssumption DEF MgrInd, Visiting
  <1>4. ctl[p] = "idle" /\ ctlWait[p] = {}
    BY <1>3 DEF MgrInd, CallersInside, IndInv, Waiting
  <1>5. config[p] # NoConfig
    <2>. SUFFICES ASSUME config[p] = NoConfig PROVE FALSE
      OBVIOUS
    <2>1. p \notin syncing
      BY DEF MgrInd, ReloadedPools
    <2>2. syncWait[p] = {}
      BY <2>1 DEF MgrInd, CallersInside, IndInv, Waiting
    <2>3. loops[p][t] = 0
      BY DEF MgrInd, IndInv, LoopNumbering
    <2>. QED  BY <1>2, <1>4, <2>2, <2>3
  <1>6. i # loops[p][t]
    BY <1>0, <1>4, <1>5 DEF MgrInd, StoppedPools, CancelledLoopsIdle
  <1>7. l \in syncWait[p]
    BY <1>2, <1>4, <1>6
  <1>8. syncPc[p] # "idle"
    BY <1>7 DEF MgrInd, IndInv, Waiting
  <1>. QED  BY <1>0, <1>7, <1>8 DEF MgrInd, CallersInside

\* A deleted pool scrapes nothing that the reloader does not wait for.
THEOREM DeletedPoolsDrain == ManagerSpec => []DeletedPoolIsDraining
  <1>1. MgrInd => DeletedPoolIsDraining
    BY Draining
  <1>. QED  BY <1>1, ManagerInvariance, PTL

\* A pool stays in scrapePools only while it can scrape, until Stop.
THEOREM PoolsAreAlive == ManagerSpec => []PoolsInUseAreAlive
  <1>1. MgrInd => PoolsInUseAreAlive
    BY DEF MgrInd, StoppedPools
  <1>. QED  BY <1>1, ManagerInvariance, PTL

\* However a job is removed and added again, two loops never scrape one of its
\* targets at the same time: not of one pool, and not of an old and a new one.
THEOREM JobTargetsExclude == ManagerSpec => []OneScrapePerJobTarget
  <1>1. MgrInd => OneScrapePerJobTarget
    <2>. SUFFICES ASSUME MgrInd, NEW l \in LoopIds, NEW m \in LoopIds, Busy(l), Busy(m),
                         JobOf[l[1]] = JobOf[m[1]], l[2] = m[2]
                  PROVE  l = m
      BY DEF OneScrapePerJobTarget
    <2>0. /\ l[1] \in Pools /\ l[2] \in Targets /\ l[3] \in 1..MaxLoops /\ l = <<l[1], l[2], l[3]>>
          /\ m[1] \in Pools /\ m[3] \in 1..MaxLoops /\ m = <<m[1], m[2], m[3]>>
      BY LoopParts
    <2>1. CASE l[1] = m[1]
      <3>1. ~(l[3] < m[3]) /\ ~(m[3] < l[3])
        BY <2>0, <2>1 DEF MgrInd, IndInv, Handover, PredecessorsStopped, Busy
      <3>2. l[3] = m[3]
        BY <2>0, <3>1, PoolAssumption
      <3>. QED  BY <2>0, <2>1, <3>2
    <2>2. CASE l[1] # m[1]
      <3>1. ASSUME NEW x \in LoopIds, NEW y \in LoopIds, Busy(x), Busy(y), x[1] # y[1],
                   JobOf[x[1]] = JobOf[y[1]], scrapePools[JobOf[x[1]]] # x[1]
            PROVE  FALSE
        <4>1. x[1] \in syncing /\ x[1] \in Pools /\ y[1] \in Pools
          BY <3>1, Draining, LoopParts DEF DeletedPoolIsDraining
        <4>2. scrapePools[JobOf[x[1]]] = NoPool
          BY <3>1, <4>1 DEF MgrInd, ReloadedPools
        <4>3. scrapePools[JobOf[y[1]]] # y[1]
          BY <3>1, <4>1, <4>2, ManagerAssumption
        <4>4. y[1] \in syncing
          BY <3>1, <4>3, Draining DEF DeletedPoolIsDraining
        <4>. QED  BY <3>1, <4>1, <4>4 DEF MgrInd, ReloadedPools
      <3>. QED  BY <2>2, <3>1
    <2>. QED  BY <2>1, <2>2
  <1>. QED  BY <1>1, ManagerInvariance, PTL

-----------------------------------------------------------------------------
(* Where the manager comes to rest. *)

\* Nobody has anything left to do: discovery has no news, no token is in the
\* channel, and no goroutine is in reload(), ApplyConfig or Stop.
AtRest ==
    /\ runPc = "receive" /\ ~sdNew
    /\ ~triggerReload /\ reloaderPc \in {"tick", "select"}
    /\ applyPc = "idle" /\ stopPc = "idle"

\* A manager at rest is up to date, whatever the order in which news, ticks and
\* configuration reloads met: a pool in use belongs to a configured job, has its
\* current configuration, and divides exactly the targets that discovery last
\* found for the job into active and dropped ones.
SettledPools ==
    AtRest => \A j \in Jobs : scrapePools[j] # NoPool
        => /\ j \in sdJobs
           /\ config[scrapePools[j]] = scrapeConfigs[j]
           /\ activeTargets[scrapePools[j]] \cup droppedTargets[scrapePools[j]] = sdGroups[j]

\* The target sets that discovery would send now.
SdView == [j \in Jobs |-> IF j \in sdJobs THEN sdGroups[j] ELSE NoSet]

\* What discovery has sent is on its way through Run or in targetSets.
NewsTaken ==
    ~sdNew => IF runPc = "update" THEN runTs = SdView ELSE targetSets = SdView

\* Discovery has the jobs of the configuration that the manager has or gets next.
DiscoveryConfigured ==
    sdJobs = {j \in Jobs : (IF applyPc = "lock" THEN newConfigs ELSE scrapeConfigs)[j] # NoConfig}

\* Pools have the configuration of their jobs, except those that ApplyConfig has
\* not finished; the one it reloads has it already.
PoolsConfigured ==
    /\ \A j \in Jobs : scrapePools[j] # NoPool
            => \/ config[scrapePools[j]] = scrapeConfigs[j]
               \/ applyPc = "visit" /\ j \in todo
    /\ applyPc = "visit" /\ cur # NoPool
            => scrapeConfigs[JobOf[cur]] \in {NoConfig, config[cur]}

\* The targets that pool p was given last: those reload() is about to sync it
\* with, those a Sync has relabelled, or those it has.
Given(p) ==
    IF p \in work THEN groups[p]
    ELSE IF syncPc[p] = "built" THEN syncAll[p] \cup droppedTargets[p]
    ELSE activeTargets[p] \cup droppedTargets[p]

\* A job's target set was given to its pool, or a token that makes reload() do
\* it is on its way.
Told(j) ==
    \/ runPc = "trigger"
    \/ triggerReload
    \/ reloaderPc = "lock"
    \/ reloaderPc = "visit" /\ j \in todo
    \/ Given(scrapePools[j]) = targetSets[j]

\* No update is lost on its way to a living pool.
TargetsNotified ==
    stopPc = "idle" => \A j \in Jobs :
        scrapePools[j] # NoPool /\ ~cancelled[scrapePools[j]] /\ targetSets[j] # NoSet => Told(j)

NewsInd == NewsTaken /\ DiscoveryConfigured /\ PoolsConfigured /\ TargetsNotified

\* At rest nothing is on its way any more, so the pools have it.
LEMMA NewsSettled == MgrInd /\ NewsInd => SettledPools
  <1>. SUFFICES ASSUME MgrInd, NewsInd, AtRest, NEW j \in Jobs, scrapePools[j] # NoPool
                PROVE  /\ j \in sdJobs
                       /\ config[scrapePools[j]] = scrapeConfigs[j]
                       /\ activeTargets[scrapePools[j]] \cup droppedTargets[scrapePools[j]]
                            = sdGroups[j]
    BY DEF SettledPools
  <1>. DEFINE p == scrapePools[j]
  <1>1. p \in Pools /\ config[p] # NoConfig
    BY DEF MgrInd, ManagerTypeOK, PoolMap
  <1>2. config[p] = scrapeConfigs[j]
    BY DEF NewsInd, PoolsConfigured, AtRest
  <1>3. j \in sdJobs
    BY <1>1, <1>2 DEF NewsInd, DiscoveryConfigured, AtRest
  <1>4. targetSets[j] = sdGroups[j]
    BY <1>3 DEF NewsInd, NewsTaken, AtRest, SdView
  <1>5. targetSets[j] # NoSet
    BY <1>4, ManagerAssumption DEF MgrInd, ManagerTypeOK, NoSet
  <1>6. cur = NoPool
    BY DEF MgrInd, Visiting, LockHolders, AtRest
  <1>7. ~cancelled[p]
    BY <1>1, <1>6, ManagerAssumption DEF MgrInd, StoppedPools, PoolsInUseAreAlive, AtRest
  <1>8. Given(p) = targetSets[j]
    BY <1>5, <1>7 DEF NewsInd, TargetsNotified, Told, AtRest
  <1>9. p \notin work /\ syncPc[p] = "idle"
    BY <1>1 DEF MgrInd, ReloadedPools, CallersInside, AtRest
  <1>. QED  BY <1>2, <1>3, <1>4, <1>8, <1>9 DEF Given

\* Steps that create no pool and take no new target set, and at most pass the
\* token on.
LEMMA NotifiedFrame ==
    ASSUME TargetsNotified, targetSets' = targetSets, stopPc' = "idle" => stopPc = "idle",
           \A j \in Jobs : scrapePools'[j] # NoPool
                => /\ scrapePools'[j] = scrapePools[j]
                   /\ ~cancelled'[scrapePools[j]]
                        => ~cancelled[scrapePools[j]] /\ Given(scrapePools[j])' = Given(scrapePools[j]),
           runPc = "trigger" => runPc' = "trigger" \/ triggerReload',
           triggerReload => triggerReload' \/ reloaderPc' = "lock",
           reloaderPc = "lock" => \/ reloaderPc' = "lock"
                                  \/ reloaderPc' = "visit" /\ todo' = WithTargets,
           reloaderPc = "visit" => \/ reloaderPc' = "visit" /\ todo' = todo
                                   \/ todo = {}
    PROVE  TargetsNotified'
  <1>. SUFFICES ASSUME NEW j \in Jobs, stopPc' = "idle", scrapePools'[j] # NoPool,
                       ~cancelled'[scrapePools'[j]], targetSets[j] # NoSet
                PROVE  Told(j)'
    BY DEF TargetsNotified
  <1>1. /\ scrapePools'[j] = scrapePools[j]
        /\ ~cancelled[scrapePools[j]] /\ Given(scrapePools[j])' = Given(scrapePools[j])
    OBVIOUS
  <1>2. Told(j)
    BY <1>1 DEF TargetsNotified
  <1>3. CASE Given(scrapePools[j]) = targetSets[j]
    <2>1. Given(scrapePools[j])' = targetSets'[j]
      BY <1>1, <1>3
    <2>. QED  BY <1>1, <2>1 DEF Told
  <1>4. CASE reloaderPc = "visit" /\ j \in todo
    BY <1>4 DEF Told
  <1>5. CASE runPc = "trigger" \/ triggerReload \/ reloaderPc = "lock"
    BY <1>5 DEF Told, WithTargets
  <1>. QED  BY <1>2, <1>3, <1>4, <1>5 DEF Told

\* Only Run takes news and writes targetSets, and only discovery has them.
LEMMA NewsElsewhere ==
    ASSUME ReloaderStep \/ ApplyStep \/ Stop \/ StopStep \/ PoolStep \/ UNCHANGED allVars
    PROVE  UNCHANGED <<targetSets, runVars, sdVars>>
  <1>. USE DEF sharedVars, runVars, sdVars, notReloader, mgrVars, allVars
  <1>1. CASE ReloaderStep
    BY <1>1 DEF ReloaderStep, ReloaderTick, ReloaderExit, ReloaderTrigger, ReloadLock,
        ReloadVisit, ReloadVisitCreate, ReloadVisitInvalid, ReloadUnlock, ReloadSync, ReloadDone
  <1>2. CASE ApplyStep
    BY <1>2 DEF ApplyStep, ApplyConfig, ApplyStopPool, ApplyReloadPool, ApplyKeepPool,
        ApplyPoolDone, ApplyReturn
  <1>3. CASE Stop \/ StopStep
    BY <1>3 DEF Stop, StopStep, StopPool, StopPoolDone, StopClose
  <1>4. CASE PoolStep \/ UNCHANGED allVars
    BY <1>4 DEF PoolStep
  <1>. QED  BY <1>1, <1>2, <1>3, <1>4

\* News go from discovery to Run to targetSets.
LEMMA NewsTakenStep ==
    ASSUME NewsTaken, [ManagerNext]_allVars
    PROVE  NewsTaken'
  <1>. USE DEF sharedVars, runVars, sdVars
  <1>1. CASE \E j \in Jobs, tgs \in SUBSET Targets : Discover(j, tgs)
    BY <1>1 DEF Discover, NewsTaken
  <1>2. CASE \E cfgs \in [Jobs -> Configs \cup {NoConfig}] : ApplyDiscovery(cfgs)
    BY <1>2 DEF ApplyDiscovery, NewsTaken
  <1>3. CASE RunStep
    <2>1. CASE RunReceive
      BY <2>1 DEF RunReceive, NewsTaken, SdView
    <2>2. CASE updateTsets \/ RunTrigger \/ RunExit
      BY <2>2 DEF updateTsets, RunTrigger, RunExit, notRun, NewsTaken, SdView
    <2>. QED  BY <1>3, <2>1, <2>2 DEF RunStep
  <1>4. CASE UNCHANGED <<targetSets, runVars, sdVars>>
    BY <1>4 DEF NewsTaken, SdView
  <1>. QED  BY <1>1, <1>2, <1>3, <1>4, NewsElsewhere DEF ManagerNext

\* Only a configuration reload writes configurations, in two steps; the second
\* one finds nobody in a visit.
LEMMA ConfigElsewhere ==
    ASSUME [ManagerNext]_allVars
    PROVE  \/ \E cfgs \in [Jobs -> Configs \cup {NoConfig}] : ApplyDiscovery(cfgs)
           \/ ApplyConfig
           \/ UNCHANGED <<sdJobs, scrapeConfigs, newConfigs, applyPc>>
           \/ ApplyReturn /\ UNCHANGED <<sdJobs, scrapeConfigs, newConfigs>>
  <1>. USE DEF sharedVars, applyVars, sdVars, notReloader, notRun, mgrVars, allVars
  <1>1. CASE ReloaderStep
    BY <1>1 DEF ReloaderStep, ReloaderTick, ReloaderExit, ReloaderTrigger, ReloadLock,
        ReloadVisit, ReloadVisitCreate, ReloadVisitInvalid, ReloadUnlock, ReloadSync, ReloadDone
  <1>2. CASE ApplyStep
    BY <1>2 DEF ApplyStep, ApplyStopPool, ApplyReloadPool, ApplyKeepPool,
        ApplyPoolDone, ApplyReturn
  <1>3. CASE Stop \/ StopStep
    BY <1>3 DEF Stop, StopStep, StopPool, StopPoolDone, StopClose
  <1>4. CASE PoolStep \/ UNCHANGED allVars
    BY <1>4 DEF PoolStep
  <1>5. CASE RunStep
    BY <1>5 DEF RunStep, RunReceive, updateTsets, RunTrigger, RunExit
  <1>6. CASE \E j \in Jobs, tgs \in SUBSET Targets : Discover(j, tgs)
    BY <1>6 DEF Discover
  <1>. QED  BY <1>1, <1>2, <1>3, <1>4, <1>5, <1>6 DEF ManagerNext

\* Discovery and the manager are given the same configuration.
LEMMA DiscoveryConfiguredStep ==
    ASSUME DiscoveryConfigured, [ManagerNext]_allVars
    PROVE  DiscoveryConfigured'
  <1>1. CASE \E cfgs \in [Jobs -> Configs \cup {NoConfig}] : ApplyDiscovery(cfgs)
    BY <1>1 DEF ApplyDiscovery, DiscoveryConfigured
  <1>2. CASE ApplyConfig
    BY <1>2 DEF ApplyConfig, DiscoveryConfigured, sdVars
  <1>3. CASE \/ UNCHANGED <<sdJobs, scrapeConfigs, newConfigs, applyPc>>
             \/ ApplyReturn /\ UNCHANGED <<sdJobs, scrapeConfigs, newConfigs>>
    BY <1>3 DEF DiscoveryConfigured, ApplyReturn
  <1>. QED  BY <1>1, <1>2, <1>3, ConfigElsewhere

\* A pool that is entered has the configuration of its job, and ApplyConfig leaves
\* a pool only when it has.
LEMMA PoolsConfiguredStep ==
    ASSUME MgrInd, PoolsConfigured, [ManagerNext]_allVars
    PROVE  PoolsConfigured'
  <1>. USE DEF sharedVars, lockVars, runVars, reloadVars, applyVars, sdVars
  <1>. USE DEF vars, poolVars
  <1>0. /\ config \in [Pools -> Configs \cup {NoConfig}]
        /\ scrapePools \in [Jobs -> Pools \cup {NoPool}] /\ NoPool \notin Pools
        /\ cur \in Pools \cup {NoPool} /\ todo \subseteq Jobs
        /\ JobOf \in [Pools -> Jobs]
        /\ \A j \in Jobs : scrapePools[j] # NoPool
                => JobOf[scrapePools[j]] = j /\ config[scrapePools[j]] # NoConfig
    BY ManagerAssumption DEF MgrInd, ManagerTypeOK, TypeOK, PoolMap
  <1>1. CASE /\ UNCHANGED <<config, scrapePools, scrapeConfigs, cur, applyPc>>
             /\ applyPc = "visit" => todo' = todo
    BY <1>1 DEF PoolsConfigured
  <1>2. ASSUME NEW j \in Jobs, NEW p \in Pools, ReloadVisitCreate(j, p)
        PROVE  PoolsConfigured'
    <2>1. applyPc' # "visit"
      BY <1>2 DEF ReloadVisitCreate, MgrInd, LockHolders
    <2>2. scrapePools' = [scrapePools EXCEPT ![j] = p] /\ scrapeConfigs' = scrapeConfigs
      BY <1>2 DEF ReloadVisitCreate
    <2>3. config[p] = NoConfig /\ config' = [config EXCEPT ![p] = scrapeConfigs[j]]
      BY <1>2 DEF ReloadVisitCreate, newScrapePool
    <2>4. \A k \in Jobs : scrapePools[k] # NoPool => config[scrapePools[k]] = scrapeConfigs[k]
      BY <2>1, <1>2 DEF PoolsConfigured, ReloadVisitCreate
    <2>5. \A k \in Jobs : scrapePools'[k] # NoPool => config'[scrapePools'[k]] = scrapeConfigs'[k]
      BY <1>0, <2>2, <2>3, <2>4
    <2>. QED  BY <2>1, <2>5 DEF PoolsConfigured
  <1>3. CASE ApplyConfig
    <2>1. cur = NoPool
      BY <1>3 DEF ApplyConfig, MgrInd, Visiting
    <2>. QED  BY <1>3, <2>1 DEF ApplyConfig, PoolsConfigured
  <1>4. ASSUME NEW j \in Jobs, ApplyStopPool(j)
        PROVE  PoolsConfigured'
    <2>1. UNCHANGED <<config, scrapePools, scrapeConfigs, applyPc, todo>>
      BY <1>4 DEF ApplyStopPool, StopCancel
    <2>2. cur' = scrapePools[j] /\ scrapePools[j] # NoPool /\ scrapeConfigs[j] = NoConfig
      BY <1>4 DEF ApplyStopPool, MgrInd, Visiting, LockHolders
    <2>. QED  BY <1>0, <2>1, <2>2 DEF PoolsConfigured
  <1>5. ASSUME NEW j \in Jobs, ApplyReloadPool(j)
        PROVE  PoolsConfigured'
    <2>1. UNCHANGED <<scrapePools, scrapeConfigs, applyPc, todo>> /\ j \in todo /\ applyPc = "visit"
      BY <1>5 DEF ApplyReloadPool
    <2>2. cur' = scrapePools[j] /\ scrapePools[j] # NoPool
      BY <1>5 DEF ApplyReloadPool, MgrInd, Visiting, LockHolders
    <2>3. config' = [config EXCEPT ![scrapePools[j]] = scrapeConfigs[j]]
      BY <1>5 DEF ApplyReloadPool, Reload
    <2>4. config'[cur'] = scrapeConfigs'[JobOf[cur']]
      BY <1>0, <2>1, <2>2, <2>3
    <2>5. \A k \in Jobs : scrapePools[k] # NoPool /\ k \notin todo
                => config'[scrapePools[k]] = scrapeConfigs[k]
      BY <1>0, <2>1, <2>3 DEF PoolsConfigured
    <2>. QED  BY <2>1, <2>4, <2>5 DEF PoolsConfigured
  <1>6. ASSUME NEW j \in Jobs, ApplyKeepPool(j)
        PROVE  PoolsConfigured'
    BY <1>6 DEF ApplyKeepPool, PoolsConfigured
  <1>7. ASSUME NEW j \in Jobs, ApplyPoolDone(j)
        PROVE  PoolsConfigured'
    <2>1. /\ UNCHANGED <<config, scrapeConfigs, applyPc>> /\ applyPc = "visit"
          /\ cur' = NoPool /\ todo' = todo \ {j} /\ cur = scrapePools[j]
      BY <1>7 DEF ApplyPoolDone
    <2>2. scrapePools[j] # NoPool
      BY <1>7 DEF ApplyPoolDone, MgrInd, Visiting, LockHolders
    <2>3. scrapeConfigs[j] \in {NoConfig, config[scrapePools[j]]}
      BY <1>0, <2>1, <2>2 DEF PoolsConfigured
    <2>4. CASE scrapeConfigs[j] = NoConfig
      <3>1. scrapePools' = [scrapePools EXCEPT ![j] = NoPool]
        BY <1>7, <2>4 DEF ApplyPoolDone, PoolsAfter
      <3>. QED  BY <1>0, <2>1, <3>1 DEF PoolsConfigured
    <2>5. CASE scrapeConfigs[j] # NoConfig
      <3>1. scrapePools' = scrapePools
        BY <1>7, <2>5 DEF ApplyPoolDone, PoolsAfter
      <3>. QED  BY <1>0, <2>1, <2>3, <2>5, <3>1 DEF PoolsConfigured
    <2>. QED  BY <2>4, <2>5
  <1>8. CASE ApplyReturn
    BY <1>8 DEF ApplyReturn, PoolsConfigured
  <1>9. CASE ReloaderStep
    <2>1. applyPc = "visit" => reloaderPc # "visit" /\ mtxScrape # "free"
      BY DEF MgrInd, LockHolders
    <2>. QED
      BY <1>1, <1>2, <1>9, <2>1 DEF ReloaderStep, ReloaderTick, ReloaderExit, ReloaderTrigger,
        ReloadLock, ReloadVisit, ReloadVisitInvalid, ReloadUnlock, ReloadSync, ReloadDone,
        SyncBuild, notReloader
  <1>10. CASE Stop \/ StopStep
    <2>1. applyPc # "visit" /\ applyPc' = applyPc
      BY <1>10 DEF MgrInd, LockHolders, Stop, StopStep, StopPool, StopPoolDone, StopClose
    <2>2. UNCHANGED <<config, scrapePools, scrapeConfigs>>
      BY <1>10 DEF Stop, StopStep, StopPool, StopPoolDone, StopClose, StopCancel
    <2>. QED  BY <2>1, <2>2 DEF PoolsConfigured
  <1>11. CASE PoolStep
    BY <1>1, <1>11, InternalKeeps DEF PoolStep, mgrVars, MgrInd, ManagerTypeOK
  <1>12. CASE RunStep
    BY <1>1, <1>12 DEF RunStep, RunReceive, updateTsets, RunTrigger, RunExit, notRun
  <1>13. CASE \E j \in Jobs, tgs \in SUBSET Targets : Discover(j, tgs)
    BY <1>1, <1>13 DEF Discover
  <1>14. CASE \E cfgs \in [Jobs -> Configs \cup {NoConfig}] : ApplyDiscovery(cfgs)
    BY <1>14 DEF ApplyDiscovery, PoolsConfigured
  <1>15. CASE UNCHANGED allVars
    BY <1>1, <1>15 DEF allVars, mgrVars
  <1>16. CASE ApplyStep
    BY <1>16, <1>3, <1>4, <1>5, <1>6, <1>7, <1>8 DEF ApplyStep
  <1>. QED  BY <1>9, <1>10, <1>11, <1>12, <1>13, <1>14, <1>15, <1>16 DEF ManagerNext

\* Inside a living pool targets only move from Sync's variables into the maps.
LEMMA GivenInside ==
    ASSUME IndInv, Internal, NEW p \in Pools, ~cancelled[p], UNCHANGED <<work, groups>>
    PROVE  Given(p)' = Given(p)
  <1>. USE DEF loopVars, syncVars, ctlVars, poolVars
  <1>0. TypeOK /\ (ctl[p] = "cancelling" => cancelled[p])
    BY DEF IndInv, Waiting
  <1>1. CASE UNCHANGED <<activeTargets, droppedTargets, syncPc, syncAll>>
    BY <1>1 DEF Given
  <1>2. ASSUME NEW q \in Pools, SyncApply(q)
        PROVE  Given(p)' = Given(p)
    BY <1>0, <1>2 DEF SyncApply, TypeOK, Given
  <1>3. ASSUME NEW q \in Pools, SyncReturn(q)
        PROVE  Given(p)' = Given(p)
    BY <1>0, <1>3 DEF SyncReturn, TypeOK, Given
  <1>4. ASSUME NEW q \in Pools, StopSnapshot(q)
        PROVE  Given(p)' = Given(p)
    <2>1. q # p
      BY <1>0, <1>4 DEF StopSnapshot
    <2>. QED  BY <1>0, <1>4, <2>1 DEF StopSnapshot, TypeOK, Given
  <1>5. ASSUME NEW l \in LoopIds, LoopStop(l) \/ RunLoop(l)
        PROVE  UNCHANGED <<activeTargets, droppedTargets, syncPc, syncAll>>
    BY <1>5 DEF LoopStop, RunLoop, RunOffset, RunOffsetDone, RunCheck,
            RunCheckDone, RunScrapeFailed, RunScrapeOk, RunWritten, RunTick, RunWaitDone, Goto
  <1>. QED
    BY <1>1, <1>2, <1>3, <1>4, <1>5
      DEF Internal, ReloadOldStopped, ReloadReturn, StopReturn, ReloadLaunch

\* reload() passes each target set on to the pool of its job.
LEMMA NotifiedReloader ==
    ASSUME MgrInd, TargetsNotified, ReloaderStep
    PROVE  TargetsNotified'
  <1>. USE DEF sharedVars, lockVars, runVars, reloadVars, applyVars, sdVars, notReloader
  <1>. USE DEF vars, poolVars, syncVars
  <1>0. /\ scrapePools \in [Jobs -> Pools \cup {NoPool}] /\ NoPool \notin Pools
        /\ groups \in [Pools -> SUBSET Targets] /\ TypeOK
        /\ cancelled \in [Pools -> BOOLEAN] /\ config \in [Pools -> Configs \cup {NoConfig}]
        /\ \A j \in Jobs : scrapePools[j] # NoPool
                => JobOf[scrapePools[j]] = j /\ config[scrapePools[j]] # NoConfig
    BY ManagerAssumption DEF MgrInd, ManagerTypeOK, TypeOK, PoolMap
  <1>1. CASE ReloaderTick \/ ReloaderExit \/ ReloaderTrigger
    BY <1>1, NotifiedFrame DEF ReloaderTick, ReloaderExit, ReloaderTrigger, Given
  <1>2. CASE ReloadLock
    BY <1>2, NotifiedFrame DEF ReloadLock, Given
  <1>3. CASE ReloadUnlock
    BY <1>3, NotifiedFrame DEF ReloadUnlock, Given
  <1>4. CASE ReloadDone
    BY <1>4, NotifiedFrame DEF ReloadDone, Given
  <1>5. ASSUME NEW j \in Jobs, ReloadVisitInvalid(j)
        PROVE  TargetsNotified'
    BY <1>5 DEF ReloadVisitInvalid, TargetsNotified, Told, Given
  <1>6. ASSUME NEW j \in Jobs, NEW p \in Pools, JobOf[p] = j, scrapePools'[j] = p,
               work' = work \cup {p}, groups' = [groups EXCEPT ![p] = targetSets[j]],
               todo' = todo \ {j}, UNCHANGED <<targetSets, stopPc, runPc, triggerReload, reloaderPc>>,
               UNCHANGED <<cancelled, activeTargets, droppedTargets, syncPc, syncAll>>,
               \A k \in Jobs : k # j => scrapePools'[k] = scrapePools[k]
        PROVE  TargetsNotified'
    <2>. SUFFICES ASSUME NEW k \in Jobs, stopPc = "idle", scrapePools'[k] # NoPool,
                         ~cancelled[scrapePools'[k]], targetSets[k] # NoSet
                  PROVE  Told(k)'
      BY <1>6 DEF TargetsNotified
    <2>1. CASE k = j
      <3>1. Given(scrapePools[j])' = targetSets'[j]
        BY <1>0, <1>6 DEF Given
      <3>. QED  BY <2>1, <3>1 DEF Told
    <2>2. CASE k # j
      <3>1. scrapePools'[k] = scrapePools[k] /\ scrapePools[k] # p /\ scrapePools[k] # NoPool
        BY <1>0, <1>6, <2>2
      <3>2. Given(scrapePools[k])' = Given(scrapePools[k])
        BY <1>0, <1>6, <3>1 DEF Given
      <3>3. Told(k)
        BY <1>6, <3>1 DEF TargetsNotified
      <3>. QED  BY <1>6, <2>2, <3>1, <3>2, <3>3 DEF Told
    <2>. QED  BY <2>1, <2>2
  <1>7. ASSUME NEW j \in Jobs, ReloadVisit(j)
        PROVE  TargetsNotified'
    <2>0. PICK p \in Pools : p = scrapePools[j]
      BY <1>0, <1>7 DEF ReloadVisit
    <2>. QED  BY <1>0, <1>6, <1>7, <2>0 DEF ReloadVisit
  <1>8. ASSUME NEW j \in Jobs, NEW p \in Pools, ReloadVisitCreate(j, p)
        PROVE  TargetsNotified'
    BY <1>0, <1>6, <1>8 DEF ReloadVisitCreate, newScrapePool
  <1>9. ASSUME NEW p \in Pools, ReloadSync(p)
        PROVE  TargetsNotified'
    <2>1. /\ p \in work /\ work' = work \ {p} /\ groups' = groups /\ activeTargets' = activeTargets
          /\ droppedTargets' = [droppedTargets EXCEPT ![p] = groups[p] \ Kept[config[p]]]
          /\ syncAll' = [syncAll EXCEPT ![p] = groups[p] \cap Kept[config[p]]]
          /\ syncPc' = [syncPc EXCEPT ![p] = "built"]
      BY <1>9 DEF ReloadSync, SyncBuild
    <2>2. Given(p)' = Given(p)
      BY <1>0, <2>1 DEF Given, TypeOK
    <2>3. ASSUME NEW q \in Pools, q # p
          PROVE  Given(q)' = Given(q)
      BY <1>0, <2>1, <2>3 DEF Given, TypeOK
    <2>4. /\ UNCHANGED <<targetSets, stopPc, scrapePools, cancelled, runPc, triggerReload, todo>>
          /\ reloaderPc = "sync" /\ reloaderPc' = reloaderPc
      BY <1>9 DEF ReloadSync, SyncBuild
    <2>5. \A j \in Jobs : scrapePools[j] # NoPool
                => Given(scrapePools[j])' = Given(scrapePools[j])
      <3>. SUFFICES ASSUME NEW j \in Jobs, scrapePools[j] # NoPool
                    PROVE  Given(scrapePools[j])' = Given(scrapePools[j])
        OBVIOUS
      <3>1. PICK q \in Pools : q = scrapePools[j]
        BY <1>0
      <3>2. Given(q)' = Given(q)
        BY <2>2, <2>3
      <3>. QED  BY <2>4, <3>1, <3>2 DEF Given
    <2>. QED  BY <2>4, <2>5, NotifiedFrame
  <1>. QED  BY <1>1, <1>2, <1>3, <1>4, <1>5, <1>7, <1>8, <1>9 DEF ReloaderStep

\* No other step loses a token or a target of a living pool.
LEMMA TargetsNotifiedStep ==
    ASSUME MgrInd, TargetsNotified, [ManagerNext]_allVars
    PROVE  TargetsNotified'
  <1>. USE DEF sharedVars, lockVars, runVars, reloadVars, applyVars, sdVars
  <1>. USE DEF vars, poolVars, syncVars
  <1>0. /\ scrapePools \in [Jobs -> Pools \cup {NoPool}] /\ NoPool \notin Pools
        /\ cancelled \in [Pools -> BOOLEAN] /\ IndInv
    BY ManagerAssumption DEF MgrInd, ManagerTypeOK, TypeOK
  <1>1. CASE \E j \in Jobs, tgs \in SUBSET Targets : Discover(j, tgs)
    BY <1>1, NotifiedFrame DEF Discover, Given
  <1>2. CASE \E cfgs \in [Jobs -> Configs \cup {NoConfig}] : ApplyDiscovery(cfgs)
    BY <1>2, NotifiedFrame DEF ApplyDiscovery, Given
  <1>3. CASE RunStep
    <2>1. CASE updateTsets
      BY <2>1 DEF updateTsets, TargetsNotified, Told
    <2>2. CASE RunReceive \/ RunTrigger \/ RunExit
      BY <2>2, NotifiedFrame DEF RunReceive, RunTrigger, RunExit, notRun, Given
    <2>. QED  BY <1>3, <2>1, <2>2 DEF RunStep
  <1>4. CASE ReloaderStep
    BY <1>4, NotifiedReloader
  <1>5. CASE ApplyStep
    <2>0. applyPc = "visit" \/ mtxScrape = "free" => reloaderPc # "visit"
      BY DEF MgrInd, LockHolders
    <2>1. CASE ApplyConfig \/ ApplyReturn
      BY <2>0, <2>1, NotifiedFrame DEF ApplyConfig, ApplyReturn, Given
    <2>2. ASSUME NEW j \in Jobs, ApplyKeepPool(j)
          PROVE  TargetsNotified'
      BY <2>0, <2>2, NotifiedFrame DEF ApplyKeepPool, Given
    <2>3. ASSUME NEW j \in Jobs, ApplyPoolDone(j)
          PROVE  TargetsNotified'
      <3>1. \A k \in Jobs : scrapePools'[k] # NoPool => scrapePools'[k] = scrapePools[k]
        BY <1>0, <2>3 DEF ApplyPoolDone, PoolsAfter
      <3>. QED  BY <2>0, <2>3, <3>1, NotifiedFrame DEF ApplyPoolDone, Given
    <2>4. ASSUME NEW j \in Jobs, ApplyReloadPool(j)
          PROVE  TargetsNotified'
      BY <2>0, <2>4, NotifiedFrame DEF ApplyReloadPool, Reload, Given
    <2>5. ASSUME NEW j \in Jobs, ApplyStopPool(j)
          PROVE  TargetsNotified'
      <3>1. \A k \in Jobs : scrapePools[k] # NoPool /\ ~cancelled'[scrapePools[k]]
                => ~cancelled[scrapePools[k]]
        BY <1>0, <2>5 DEF ApplyStopPool, StopCancel
      <3>. QED  BY <2>0, <2>5, <3>1, NotifiedFrame DEF ApplyStopPool, StopCancel, Given
    <2>. QED  BY <1>5, <2>1, <2>2, <2>3, <2>4, <2>5 DEF ApplyStep
  <1>6. CASE Stop \/ StopStep
    BY <1>6 DEF Stop, StopStep, StopPool, StopPoolDone, StopClose, TargetsNotified
  <1>7. CASE PoolStep
    <2>1. UNCHANGED mgrVars /\ Internal /\ cancelled' = cancelled
      BY <1>7, InternalKeeps DEF PoolStep, MgrInd, ManagerTypeOK
    <2>2. ASSUME NEW j \in Jobs, scrapePools[j] # NoPool, ~cancelled[scrapePools[j]]
          PROVE  Given(scrapePools[j])' = Given(scrapePools[j])
      <3>1. PICK p \in Pools : p = scrapePools[j]
        BY <1>0, <2>2
      <3>2. Given(p)' = Given(p)
        BY <1>0, <2>1, <2>2, <3>1, GivenInside DEF mgrVars
      <3>. QED  BY <2>1, <3>1, <3>2 DEF Given, mgrVars
    <2>. QED  BY <2>1, <2>2, NotifiedFrame DEF mgrVars
  <1>8. CASE UNCHANGED allVars
    BY <1>8, NotifiedFrame DEF allVars, mgrVars, Given
  <1>. QED  BY <1>1, <1>2, <1>3, <1>4, <1>5, <1>6, <1>7, <1>8 DEF ManagerNext

\* The safety half of TargetSetsReachPools: the goroutines never all come to rest
\* while a pool in use has other targets or another configuration than its job.
\* Lost tokens, a tick between two updates, and reloads that overtake a Sync all
\* leave something to do.
THEOREM ManagerSettles == ManagerSpec => []SettledPools
  <1>1. ManagerInit => NewsInd
    BY ManagerAssumption, PoolAssumption DEF ManagerInit, NewsInd, NewsTaken,
        DiscoveryConfigured, PoolsConfigured, TargetsNotified
  <1>2. MgrInd /\ NewsInd /\ [ManagerNext]_allVars => NewsInd'
    BY NewsTakenStep, DiscoveryConfiguredStep, PoolsConfiguredStep, TargetsNotifiedStep
      DEF NewsInd
  <1>3. MgrInd /\ NewsInd => SettledPools
    BY NewsSettled
  <1>. QED  BY <1>1, <1>2, <1>3, ManagerInvariance, PTL DEF ManagerSpec

\* Under the manager nobody who holds mtxScrape, and no reload(), waits for a loop
\* that is never run: the safety half of MtxScrapeIsReleased.
THEOREM ManagerWaitsEnd == ManagerSpec => []WaitsEnd
  BY ManagerDrivesPools, WaitedLoopsAreRun, PTL

\* Each pool of the manager hands its targets over from loop to loop.
THEOREM ManagerHandsOverTargets == ManagerSpec => HandsOverTargets
  BY ManagerDrivesPools, PoolHandsOverTargets, PTL

=============================================================================
