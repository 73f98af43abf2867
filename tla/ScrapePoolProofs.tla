-------------------------- MODULE ScrapePoolProofs --------------------------
(* Proofs about ScrapePool, for every set of pools, targets and configurations. *)
EXTENDS ScrapePool, TLAPS

\* The parts of a loop's identity.
LEMMA LoopParts ==
    \A l \in LoopIds : /\ l = <<l[1], l[2], l[3]>>
                       /\ l[1] \in Pools /\ l[2] \in Targets /\ l[3] \in 1..MaxLoops
  BY DEF LoopIds

\* Before any pool is created there is nothing to account for.
LEMMA InitInd == Init => IndInv
  BY PoolAssumption, LoopParts
     DEF Init, IndInv, TypeOK, LoopPc, TargetsAndLoopsInSync, LoopNumbering, Waiting,
         NoLoopLeaked, Reloading, Launching, Handover, LoopOptionsAreCurrent, Busy, LoopIds

\* Handover survives a step that moves no loop.
LEMMA HandoverFrame ==
    ASSUME Handover, pc' = pc, \A p \in Pools : cancelled[p] => cancelled'[p]
    PROVE  Handover'
  BY DEF Handover, PredecessorsStopped, Busy

\* A pool that was not created yet has no loop.
LEMMA NewPoolInd ==
    ASSUME IndInv, NEW p \in Pools, NEW cfg \in Configs, newScrapePool(p, cfg)
    PROVE  IndInv'
  <1>. USE DEF loopVars, syncVars, ctlVars, poolVars
  <1>1. TypeOK'
    BY PoolAssumption DEF IndInv, newScrapePool, TypeOK, LoopPc, LoopIds
  <1>2. TargetsAndLoopsInSync'
    BY PoolAssumption DEF IndInv, newScrapePool, TypeOK, TargetsAndLoopsInSync, LoopIds
  <1>3. LoopNumbering'
    BY PoolAssumption DEF IndInv, newScrapePool, TypeOK, LoopNumbering, LoopIds
  <1>4. Waiting'
    BY PoolAssumption DEF IndInv, newScrapePool, TypeOK, Waiting, LoopIds
  <1>5. NoLoopLeaked'
    BY PoolAssumption DEF IndInv, newScrapePool, TypeOK, NoLoopLeaked, LoopIds
  <1>6. Reloading'
    BY PoolAssumption DEF IndInv, newScrapePool, TypeOK, Reloading, LoopIds
  <1>7. Launching'
    BY PoolAssumption
      DEF IndInv, newScrapePool, TypeOK, Launching, LoopIds, PredecessorsStopped
  <1>8. Handover'
    BY HandoverFrame DEF IndInv, newScrapePool
  <1>9. LoopOptionsAreCurrent'
    BY PoolAssumption
      DEF IndInv, newScrapePool, TypeOK, LoopOptionsAreCurrent, LoopIds, LoopNumbering
  <1>. QED  BY <1>1, <1>2, <1>3, <1>4, <1>5, <1>6, <1>7, <1>8, <1>9 DEF IndInv

\* The first critical section of Sync leaves the loops alone.
LEMMA SyncBuildInd ==
    ASSUME IndInv, NEW p \in Pools, NEW tgs \in SUBSET Targets, SyncBuild(p, tgs)
    PROVE  IndInv'
  <1>. USE DEF loopVars, syncVars, ctlVars, poolVars
  <1>1. TypeOK'
    BY PoolAssumption DEF IndInv, SyncBuild, TypeOK, LoopPc, LoopIds
  <1>2. TargetsAndLoopsInSync'
    BY PoolAssumption DEF IndInv, SyncBuild, TypeOK, TargetsAndLoopsInSync, LoopIds
  <1>3. LoopNumbering'
    BY PoolAssumption DEF IndInv, SyncBuild, TypeOK, LoopNumbering, LoopIds
  <1>4. Waiting'
    BY PoolAssumption DEF IndInv, SyncBuild, TypeOK, Waiting, LoopIds
  <1>5. NoLoopLeaked'
    BY PoolAssumption DEF IndInv, SyncBuild, TypeOK, NoLoopLeaked, LoopIds
  <1>6. Reloading'
    BY PoolAssumption DEF IndInv, SyncBuild, TypeOK, Reloading, LoopIds
  <1>7. Launching'
    BY PoolAssumption
      DEF IndInv, SyncBuild, TypeOK, Launching, LoopIds, PredecessorsStopped
  <1>8. Handover'
    BY HandoverFrame DEF IndInv, SyncBuild
  <1>9. LoopOptionsAreCurrent'
    BY PoolAssumption DEF IndInv, SyncBuild, TypeOK, LoopOptionsAreCurrent, LoopIds
  <1>. QED  BY <1>1, <1>2, <1>3, <1>4, <1>5, <1>6, <1>7, <1>8, <1>9 DEF IndInv

\* SyncReturn: the loops that Sync no longer waits for have terminated.
LEMMA SyncReturnInd ==
    ASSUME IndInv, NEW p \in Pools, SyncReturn(p)
    PROVE  IndInv'
  <1>. USE DEF loopVars, syncVars, ctlVars, poolVars
  <1>1. TypeOK'
    BY PoolAssumption DEF IndInv, SyncReturn, TypeOK, LoopPc, LoopIds
  <1>2. TargetsAndLoopsInSync'
    BY PoolAssumption DEF IndInv, SyncReturn, TypeOK, TargetsAndLoopsInSync, LoopIds
  <1>3. LoopNumbering'
    BY PoolAssumption DEF IndInv, SyncReturn, TypeOK, LoopNumbering, LoopIds
  <1>4. Waiting'
    BY PoolAssumption DEF IndInv, SyncReturn, TypeOK, Waiting, LoopIds
  <1>5. NoLoopLeaked'
    BY PoolAssumption DEF IndInv, SyncReturn, Stopped, TypeOK, NoLoopLeaked, LoopIds
  <1>6. Reloading'
    BY PoolAssumption DEF IndInv, SyncReturn, TypeOK, Reloading, LoopIds
  <1>7. Launching'
    BY PoolAssumption
      DEF IndInv, SyncReturn, TypeOK, Launching, LoopIds, PredecessorsStopped
  <1>8. Handover'
    BY HandoverFrame DEF IndInv, SyncReturn
  <1>9. LoopOptionsAreCurrent'
    BY PoolAssumption DEF IndInv, SyncReturn, TypeOK, LoopOptionsAreCurrent, LoopIds
  <1>. QED  BY <1>1, <1>2, <1>3, <1>4, <1>5, <1>6, <1>7, <1>8, <1>9 DEF IndInv

\* ReloadReturn.
LEMMA ReloadReturnInd ==
    ASSUME IndInv, NEW p \in Pools, ReloadReturn(p)
    PROVE  IndInv'
  <1>. USE DEF loopVars, syncVars, ctlVars, poolVars
  <1>1. TypeOK'
    BY PoolAssumption DEF IndInv, ReloadReturn, TypeOK, LoopPc, LoopIds
  <1>2. TargetsAndLoopsInSync'
    BY PoolAssumption DEF IndInv, ReloadReturn, TypeOK, TargetsAndLoopsInSync, LoopIds
  <1>3. LoopNumbering'
    BY PoolAssumption DEF IndInv, ReloadReturn, TypeOK, LoopNumbering, LoopIds
  <1>4. Waiting'
    BY PoolAssumption DEF IndInv, ReloadReturn, TypeOK, Waiting, LoopIds
  <1>5. NoLoopLeaked'
    BY PoolAssumption DEF IndInv, ReloadReturn, TypeOK, NoLoopLeaked, LoopIds
  <1>6. Reloading'
    BY PoolAssumption DEF IndInv, ReloadReturn, TypeOK, Reloading, LoopIds
  <1>7. Launching'
    BY PoolAssumption
      DEF IndInv, ReloadReturn, TypeOK, Launching, LoopIds, PredecessorsStopped
  <1>8. Handover'
    BY HandoverFrame DEF IndInv, ReloadReturn
  <1>9. LoopOptionsAreCurrent'
    BY PoolAssumption DEF IndInv, ReloadReturn, TypeOK, LoopOptionsAreCurrent, LoopIds
  <1>. QED  BY <1>1, <1>2, <1>3, <1>4, <1>5, <1>6, <1>7, <1>8, <1>9 DEF IndInv

\* StopCancel: a cancelled pool needs less.
LEMMA StopCancelInd ==
    ASSUME IndInv, NEW p \in Pools, StopCancel(p)
    PROVE  IndInv'
  <1>. USE DEF loopVars, syncVars, ctlVars, poolVars
  <1>1. TypeOK'
    BY PoolAssumption DEF IndInv, StopCancel, TypeOK, LoopPc, LoopIds
  <1>2. TargetsAndLoopsInSync'
    BY PoolAssumption DEF IndInv, StopCancel, TypeOK, TargetsAndLoopsInSync, LoopIds
  <1>3. LoopNumbering'
    BY PoolAssumption DEF IndInv, StopCancel, TypeOK, LoopNumbering, LoopIds
  <1>4. Waiting'
    BY PoolAssumption DEF IndInv, StopCancel, TypeOK, Waiting, LoopIds
  <1>5. NoLoopLeaked'
    BY PoolAssumption DEF IndInv, StopCancel, TypeOK, NoLoopLeaked, LoopIds
  <1>6. Reloading'
    BY PoolAssumption DEF IndInv, StopCancel, TypeOK, Reloading, LoopIds
  <1>7. Launching'
    BY PoolAssumption
      DEF IndInv, StopCancel, TypeOK, Launching, LoopIds, PredecessorsStopped
  <1>8. Handover'
    BY HandoverFrame DEF IndInv, StopCancel, TypeOK
  <1>9. LoopOptionsAreCurrent'
    BY PoolAssumption DEF IndInv, StopCancel, TypeOK, LoopOptionsAreCurrent, LoopIds
  <1>. QED  BY <1>1, <1>2, <1>3, <1>4, <1>5, <1>6, <1>7, <1>8, <1>9 DEF IndInv

\* StopSnapshot: the loops leave the map and are waited for.
LEMMA StopSnapshotInd ==
    ASSUME IndInv, NEW p \in Pools, StopSnapshot(p)
    PROVE  IndInv'
  <1>. USE DEF loopVars, syncVars, ctlVars, poolVars
  <1>1. TypeOK'
    BY PoolAssumption DEF IndInv, StopSnapshot, InMap, TypeOK, LoopPc, LoopIds
  <1>2. TargetsAndLoopsInSync'
    BY PoolAssumption DEF IndInv, StopSnapshot, TypeOK, TargetsAndLoopsInSync, LoopIds
  <1>3. LoopNumbering'
    BY PoolAssumption DEF IndInv, StopSnapshot, TypeOK, LoopNumbering, LoopIds
  <1>4. Waiting'
    BY PoolAssumption DEF IndInv, StopSnapshot, InMap, TypeOK, Waiting, LoopIds
  <1>5. NoLoopLeaked'
    <2>. SUFFICES ASSUME NEW q \in Pools, NEW t \in Targets, NEW i \in 1..gen[q][t],
                         pc[<<q, t, i>>] # "stopped"
                  PROVE  \/ i = loops'[q][t]
                         \/ <<q, t, i>> \in syncWait[q] \cup ctlWait'[q]
      BY DEF StopSnapshot, NoLoopLeaked
    <2>1. i = loops[q][t] \/ <<q, t, i>> \in syncWait[q] \cup ctlWait[q]
      BY DEF IndInv, NoLoopLeaked
    <2>2. CASE q = p /\ i = loops[p][t]
      BY <2>2 DEF IndInv, TypeOK, StopSnapshot, InMap
    <2>3. CASE q = p /\ i # loops[p][t]
      <3>1. ctlWait[p] = {}
        BY DEF IndInv, Waiting, StopSnapshot
      <3>. QED  BY <2>1, <2>3, <3>1
    <2>4. CASE q # p
      BY <2>1, <2>4 DEF IndInv, TypeOK, StopSnapshot
    <2>. QED  BY <2>2, <2>3, <2>4
  <1>6. Reloading'
    BY PoolAssumption DEF IndInv, StopSnapshot, TypeOK, Reloading, LoopIds
  <1>7. Launching'
    BY PoolAssumption
      DEF IndInv, StopSnapshot, TypeOK, Launching, LoopIds, PredecessorsStopped
  <1>8. Handover'
    BY HandoverFrame DEF IndInv, StopSnapshot
  <1>9. LoopOptionsAreCurrent'
    BY PoolAssumption DEF IndInv, StopSnapshot, TypeOK, LoopOptionsAreCurrent, LoopIds
  <1>. QED  BY <1>1, <1>2, <1>3, <1>4, <1>5, <1>6, <1>7, <1>8, <1>9 DEF IndInv

\* StopReturn.
LEMMA StopReturnInd ==
    ASSUME IndInv, NEW p \in Pools, StopReturn(p)
    PROVE  IndInv'
  <1>. USE DEF loopVars, syncVars, ctlVars, poolVars
  <1>1. TypeOK'
    BY PoolAssumption DEF IndInv, StopReturn, TypeOK, LoopPc, LoopIds
  <1>2. TargetsAndLoopsInSync'
    BY PoolAssumption DEF IndInv, StopReturn, TypeOK, TargetsAndLoopsInSync, LoopIds
  <1>3. LoopNumbering'
    BY PoolAssumption DEF IndInv, StopReturn, TypeOK, LoopNumbering, LoopIds
  <1>4. Waiting'
    BY PoolAssumption DEF IndInv, StopReturn, TypeOK, Waiting, LoopIds
  <1>5. NoLoopLeaked'
    BY PoolAssumption DEF IndInv, StopReturn, Stopped, TypeOK, NoLoopLeaked, LoopIds
  <1>6. Reloading'
    BY PoolAssumption DEF IndInv, StopReturn, TypeOK, Reloading, LoopIds
  <1>7. Launching'
    BY PoolAssumption
      DEF IndInv, StopReturn, TypeOK, Launching, LoopIds, PredecessorsStopped
  <1>8. Handover'
    BY HandoverFrame DEF IndInv, StopReturn
  <1>9. LoopOptionsAreCurrent'
    BY PoolAssumption DEF IndInv, StopReturn, TypeOK, LoopOptionsAreCurrent, LoopIds
  <1>. QED  BY <1>1, <1>2, <1>3, <1>4, <1>5, <1>6, <1>7, <1>8, <1>9 DEF IndInv

\* LoopStop only marks a loop.
LEMMA LoopStopInd ==
    ASSUME IndInv, NEW l \in LoopIds, LoopStop(l)
    PROVE  IndInv'
  <1>. USE DEF loopVars, syncVars, ctlVars, poolVars
  <1>1. TypeOK'
    BY PoolAssumption DEF IndInv, LoopStop, TypeOK, LoopPc, LoopIds
  <1>2. TargetsAndLoopsInSync'
    BY PoolAssumption DEF IndInv, LoopStop, TypeOK, TargetsAndLoopsInSync, LoopIds
  <1>3. LoopNumbering'
    BY PoolAssumption DEF IndInv, LoopStop, TypeOK, LoopNumbering, LoopIds
  <1>4. Waiting'
    BY PoolAssumption DEF IndInv, LoopStop, TypeOK, Waiting, LoopIds
  <1>5. NoLoopLeaked'
    BY PoolAssumption DEF IndInv, LoopStop, TypeOK, NoLoopLeaked, LoopIds
  <1>6. Reloading'
    BY PoolAssumption DEF IndInv, LoopStop, TypeOK, Reloading, LoopIds
  <1>7. Launching'
    BY PoolAssumption
      DEF IndInv, LoopStop, TypeOK, Launching, LoopIds, PredecessorsStopped
  <1>8. Handover'
    BY HandoverFrame DEF IndInv, LoopStop
  <1>9. LoopOptionsAreCurrent'
    BY PoolAssumption DEF IndInv, LoopStop, TypeOK, LoopOptionsAreCurrent, LoopIds
  <1>. QED  BY <1>1, <1>2, <1>3, <1>4, <1>5, <1>6, <1>7, <1>8, <1>9 DEF IndInv

\* What holds of a loop that a step lets run or moves on.
LEMMA MoveInd ==
    ASSUME IndInv, NEW l \in LoopIds,
           NEW to \in {"offset", "check", "scraping", "writing", "waiting", "stopped"},
           pc[l] \notin {"none", "stopped"},
           pc[l] = "created" => l \in launch /\ to = "offset",
           to \in {"scraping", "writing"} =>
                Busy(l) \/ (pc[l] # "created" /\ ~cancelled[l[1]]),
           pc' = [pc EXCEPT ![l] = to],
           launch' = launch \ {l},
           UNCHANGED <<poolVars, cancelled, stopReq, syncVars, ctl, ctlWait>>
    PROVE  IndInv'
  <1>. USE DEF syncVars, poolVars
  <1>0. PICK lp \in Pools, lt \in Targets, li \in 1..MaxLoops : l = <<lp, lt, li>>
    BY DEF LoopIds
  <1>a. \A q \in Pools, t \in Targets : \A i \in 1..MaxLoops :
            pc'[<<q, t, i>>] = IF q = lp /\ t = lt /\ i = li THEN to ELSE pc[<<q, t, i>>]
    BY <1>0 DEF IndInv, TypeOK, LoopIds
  <1>1. TypeOK'
    BY DEF IndInv, TypeOK, LoopPc
  <1>2. TargetsAndLoopsInSync'
    BY DEF IndInv, TargetsAndLoopsInSync
  <1>3. LoopNumbering'
    BY <1>0, <1>a DEF IndInv, LoopNumbering
  <1>4. Waiting'
    BY DEF IndInv, Waiting
  <1>5. NoLoopLeaked'
    <2>. SUFFICES ASSUME NEW q \in Pools, NEW t \in Targets, NEW i \in 1..gen[q][t]
                  PROVE  \/ i = loops[q][t]
                         \/ pc'[<<q, t, i>>] = "stopped"
                         \/ <<q, t, i>> \in syncWait[q] \cup ctlWait[q]
      BY DEF NoLoopLeaked
    <2>1. i \in 1..MaxLoops
      BY PoolAssumption DEF IndInv, TypeOK
    <2>. QED  BY <1>0, <1>a, <2>1 DEF IndInv, NoLoopLeaked
  <1>6. Reloading'
    BY <1>0, <1>a, PoolAssumption DEF IndInv, Reloading, TypeOK
  <1>b. ASSUME NEW q \in Pools, NEW t \in Targets, NEW i \in 1..MaxLoops,
               PredecessorsStopped(q, t, i)
        PROVE  PredecessorsStopped(q, t, i)'
    BY <1>0, <1>a, <1>b DEF PredecessorsStopped
  <1>7. Launching'
    BY <1>0, <1>a, <1>b DEF IndInv, Launching
  <1>8. Handover'
    <2>. SUFFICES ASSUME NEW q \in Pools, NEW t \in Targets, NEW i \in 1..MaxLoops,
                         \/ Busy(<<q, t, i>>)'
                         \/ ~cancelled[q] /\ pc'[<<q, t, i>>] \notin {"none", "created"}
                  PROVE  PredecessorsStopped(q, t, i)
      BY <1>b DEF Handover
    <2>1. CASE q = lp /\ t = lt /\ i = li
      <3>1. CASE pc[l] = "created"
        BY <1>0, <1>a, <2>1, <3>1 DEF IndInv, Launching, Busy
      <3>2. CASE pc[l] # "created"
        BY <1>0, <1>a, <2>1, <3>2 DEF IndInv, Handover, Busy
      <3>. QED  BY <3>1, <3>2
    <2>2. CASE ~(q = lp /\ t = lt /\ i = li)
      BY <1>a, <2>2 DEF IndInv, Handover, Busy
    <2>. QED  BY <2>1, <2>2
  <1>9. LoopOptionsAreCurrent'
    BY DEF IndInv, LoopOptionsAreCurrent
  <1>. QED  BY <1>1, <1>2, <1>3, <1>4, <1>5, <1>6, <1>7, <1>8, <1>9 DEF IndInv

\* The steps of scrapeLoop.run.
LEMMA RunLoopInd ==
    ASSUME IndInv, NEW l \in LoopIds, RunLoop(l)
    PROVE  IndInv'
  <1>1. PICK from \in {"offset", "check", "scraping", "writing", "waiting"},
             to \in {"offset", "check", "scraping", "writing", "waiting", "stopped"} :
             /\ Goto(l, from, to)
             /\ to \in {"scraping", "writing"} => from = "scraping" \/ ~cancelled[l[1]]
    BY DEF RunLoop, RunOffset, RunOffsetDone, RunCheck, RunCheckDone, RunScrapeFailed,
           RunScrapeOk, RunWritten, RunTick, RunWaitDone, Done
  <1>2. l \notin launch
    BY <1>1, LoopParts DEF Goto, IndInv, Launching
  <1>3. launch' = launch \ {l}
    BY <1>1, <1>2 DEF Goto, ctlVars
  <1>. QED
    BY <1>1, <1>3, MoveInd DEF Goto, ctlVars, Busy

\* reload runs the loop it swapped in.
LEMMA ReloadLaunchInd ==
    ASSUME IndInv, NEW l \in launch, ReloadLaunch(l)
    PROVE  IndInv'
  <1>1. l \in LoopIds /\ pc[l] = "created"
    BY LoopParts DEF IndInv, TypeOK, Launching
  <1>. QED
    BY <1>1, MoveInd DEF ReloadLaunch

\* The goroutine of a swap hands over to the new loop.
LEMMA ReloadOldStoppedInd ==
    ASSUME IndInv, NEW p \in Pools, NEW l \in ctlWait[p], ReloadOldStopped(p, l)
    PROVE  IndInv'
  <1>. USE DEF loopVars, syncVars, poolVars
  <1>0. PICK t \in Targets, i \in 1..MaxLoops : l = <<p, t, i>>
    BY DEF IndInv, TypeOK, Waiting, LoopIds
  <1>a. /\ i + 1 = gen[p][t] /\ i + 1 \in 1..MaxLoops
        /\ pc[<<p, t, i + 1>>] = "created"
        /\ launch' = launch \cup {<<p, t, i + 1>>}
    BY <1>0, PoolAssumption DEF IndInv, Reloading, ReloadOldStopped, Replacement, TypeOK
  <1>1. TypeOK'
    BY <1>a DEF IndInv, ReloadOldStopped, TypeOK, LoopIds
  <1>2. TargetsAndLoopsInSync'
    BY DEF IndInv, ReloadOldStopped, TargetsAndLoopsInSync
  <1>3. LoopNumbering'
    BY DEF IndInv, ReloadOldStopped, LoopNumbering
  <1>4. Waiting'
    BY DEF IndInv, ReloadOldStopped, TypeOK, Waiting
  <1>5. NoLoopLeaked'
    BY DEF IndInv, ReloadOldStopped, Stopped, TypeOK, NoLoopLeaked
  <1>6. Reloading'
    BY <1>0, <1>a DEF IndInv, ReloadOldStopped, Replacement, TypeOK, Reloading
  <1>7. Launching'
    <2>1. ~cancelled[p] => PredecessorsStopped(p, t, i + 1)
      BY <1>0, <1>a DEF IndInv, Handover, ReloadOldStopped, Stopped, PredecessorsStopped
    <2>. QED
      BY <1>a, <2>1 DEF IndInv, ReloadOldStopped, Launching, PredecessorsStopped
  <1>8. Handover'
    BY HandoverFrame DEF IndInv, ReloadOldStopped
  <1>9. LoopOptionsAreCurrent'
    BY DEF IndInv, ReloadOldStopped, LoopOptionsAreCurrent
  <1>. QED  BY <1>1, <1>2, <1>3, <1>4, <1>5, <1>6, <1>7, <1>8, <1>9 DEF IndInv

\* When Sync is about to start a loop for a target, no reload waits for a loop
\* of that target: the loop that reload swapped in would not be accounted for.
LEMMA NewTargetNotReloading ==
    ASSUME IndInv, NEW p \in Pools, syncPc[p] = "built", ctl[p] = "reload",
           NEW t \in Targets, t \notin activeTargets[p], NEW i \in 1..MaxLoops
    PROVE  <<p, t, i>> \notin ctlWait[p]
  <1>. SUFFICES ASSUME <<p, t, i>> \in ctlWait[p]
                PROVE  FALSE
    OBVIOUS
  <1>1. /\ gen[p][t] = i + 1 /\ i + 1 \in 1..gen[p][t] /\ i + 1 \in 1..MaxLoops
        /\ pc[<<p, t, i + 1>>] = "created"
    BY PoolAssumption DEF IndInv, Reloading, TypeOK
  <1>2. loops[p][t] = 0 /\ syncWait[p] = {}
    BY DEF IndInv, TargetsAndLoopsInSync, Waiting
  <1>3. <<p, t, i + 1>> \in ctlWait[p]
    BY <1>1, <1>2 DEF IndInv, NoLoopLeaked
  <1>4. gen[p][t] = (i + 1) + 1
    BY <1>1, <1>3 DEF IndInv, Reloading
  <1>. QED  BY <1>1, <1>4

\* All loops that a target had before sync starts one for it have terminated,
\* unless the pool was stopped.
LEMMA NewTargetIsFree ==
    ASSUME IndInv, NEW p \in Pools, syncPc[p] = "built", ~cancelled[p],
           NEW t \in Targets, t \notin activeTargets[p], NEW i \in 1..gen[p][t]
    PROVE  pc[<<p, t, i>>] = "stopped"
  <1>1. i \in 1..MaxLoops
    BY PoolAssumption DEF IndInv, TypeOK
  <1>2. loops[p][t] = 0 /\ syncWait[p] = {}
    BY DEF IndInv, TargetsAndLoopsInSync, Waiting
  <1>3. <<p, t, i>> \in ctlWait[p] => ctl[p] = "reload"
    BY DEF IndInv, Waiting
  <1>. QED  BY <1>1, <1>2, <1>3, NewTargetNotReloading DEF IndInv, NoLoopLeaked

\* The second critical section of Sync.
LEMMA SyncApplyInd ==
    ASSUME IndInv, NEW p \in Pools, SyncApply(p)
    PROVE  IndInv'
  <1>. USE DEF ctlVars
  <1>. DEFINE new == syncAll[p] \ activeTargets[p]
              gone == activeTargets[p] \ syncAll[p]
  <1>a. \A t \in new : /\ t \in Targets /\ loops[p][t] = 0
                        /\ gen[p][t] + 1 \in 1..MaxLoops
                        /\ NextLoop(p, t) \in LoopIds
    BY PoolAssumption
       DEF IndInv, SyncApply, TypeOK, TargetsAndLoopsInSync, Waiting, NextLoop, LoopIds
  <1>b. \A q \in Pools, t \in Targets : \A i \in 1..MaxLoops :
            /\ pc'[<<q, t, i>>] = IF q = p /\ t \in new /\ i = gen[p][t] + 1
                                  THEN "offset" ELSE pc[<<q, t, i>>]
            /\ loopOpts'[<<q, t, i>>] = IF q = p /\ t \in new /\ i = gen[p][t] + 1
                                       THEN config[p] ELSE loopOpts[<<q, t, i>>]
    BY DEF SyncApply, newLoops, NextLoop, LoopIds
  <1>c. \A q \in Pools, t \in Targets :
            /\ gen'[q][t] = IF q = p /\ t \in new THEN gen[p][t] + 1 ELSE gen[q][t]
            /\ loops'[q][t] = IF q = p /\ t \in new THEN gen[p][t] + 1
                              ELSE IF q = p /\ t \in gone THEN 0 ELSE loops[q][t]
    BY DEF IndInv, SyncApply, newLoops, TypeOK
  <1>d. \A t \in gone : /\ t \in Targets /\ loops[p][t] \in 1..MaxLoops
                         /\ <<p, t, loops[p][t]>> \in LoopIds
    BY PoolAssumption DEF IndInv, TypeOK, TargetsAndLoopsInSync, LoopIds
  <1>f. \A q \in Pools, t \in Targets : /\ gen[q][t] \in 0..MaxLoops /\ loops[q][t] \in 0..MaxLoops
                                        /\ gen[q][t] \in Nat
    BY PoolAssumption DEF IndInv, TypeOK
  <1>1. TypeOK'
    <2>1. pc' \in [LoopIds -> LoopPc] /\ loopOpts' \in [LoopIds -> Configs \cup {NoConfig}]
      BY DEF IndInv, SyncApply, newLoops, TypeOK, LoopPc
    <2>2. gen' \in [Pools -> [Targets -> 0..MaxLoops]]
      BY <1>a, PoolAssumption DEF IndInv, SyncApply, newLoops, TypeOK
    <2>3. loops' \in [Pools -> [Targets -> 0..MaxLoops]]
      BY <1>a, PoolAssumption DEF IndInv, SyncApply, TypeOK
    <2>4. syncWait' \in [Pools -> SUBSET LoopIds]
      BY <1>d DEF IndInv, SyncApply, TypeOK
    <2>. QED  BY <2>1, <2>2, <2>3, <2>4 DEF IndInv, SyncApply, TypeOK
  <1>2. TargetsAndLoopsInSync'
    BY <1>a, <1>c, PoolAssumption DEF IndInv, SyncApply, TypeOK, TargetsAndLoopsInSync
  <1>3. LoopNumbering'
    <2>. SUFFICES ASSUME NEW q \in Pools, NEW t \in Targets
                  PROVE  /\ loops'[q][t] \in {0, gen'[q][t]}
                         /\ config[q] = NoConfig => loops'[q][t] = 0
                         /\ \A i \in 1..MaxLoops : pc'[<<q, t, i>>] = "none" <=> i > gen'[q][t]
      BY DEF LoopNumbering, SyncApply
    <2>1. /\ loops[q][t] \in {0, gen[q][t]}
          /\ config[q] = NoConfig => loops[q][t] = 0
          /\ \A i \in 1..MaxLoops : pc[<<q, t, i>>] = "none" <=> i > gen[q][t]
      BY DEF IndInv, LoopNumbering
    <2>2. config[p] # NoConfig
      BY DEF IndInv, Waiting, SyncApply
    <2>3. CASE q = p /\ t \in new
      BY <1>b, <1>c, <1>f, <2>1, <2>2, <2>3
    <2>4. CASE ~(q = p /\ t \in new)
      BY <1>b, <1>c, <2>1, <2>4
    <2>. QED  BY <2>3, <2>4
  <1>4. Waiting'
    BY <1>c, <1>d DEF IndInv, SyncApply, TypeOK, Waiting
  <1>5. NoLoopLeaked'
    <2>. SUFFICES ASSUME NEW q \in Pools, NEW t \in Targets, NEW i \in 1..gen'[q][t],
                         pc'[<<q, t, i>>] # "stopped", i # loops'[q][t]
                  PROVE  <<q, t, i>> \in syncWait'[q] \cup ctlWait[q]
      BY DEF NoLoopLeaked, SyncApply
    <2>1. i \in 1..gen[q][t] /\ i \in 1..MaxLoops
      BY <1>c, <1>f, PoolAssumption
    <2>2. pc[<<q, t, i>>] # "stopped"
      BY <1>b, <1>f, <2>1
    <2>3. i = loops[q][t] \/ <<q, t, i>> \in syncWait[q] \cup ctlWait[q]
      BY <2>1, <2>2 DEF IndInv, NoLoopLeaked
    <2>4. CASE q = p
      <3>1. syncWait[p] = {}
        BY DEF IndInv, Waiting, SyncApply
      <3>2. i = loops[p][t] => t \in gone
        BY <1>a, <1>c, <2>1, <2>4 DEF IndInv, TargetsAndLoopsInSync
      <3>3. syncWait'[p] = {<<p, u, loops[p][u]>> : u \in gone}
        BY DEF IndInv, TypeOK, SyncApply
      <3>. QED  BY <2>3, <2>4, <3>1, <3>2, <3>3
    <2>5. CASE q # p
      BY <1>c, <2>3, <2>5 DEF IndInv, TypeOK, SyncApply
    <2>. QED  BY <2>4, <2>5
  <1>6. Reloading'
    <2>. SUFFICES ASSUME NEW q \in Pools, NEW t \in Targets, NEW i \in 1..MaxLoops,
                         ctl[q] = "reload", <<q, t, i>> \in ctlWait[q]
                  PROVE  /\ gen'[q][t] = i + 1
                         /\ pc'[<<q, t, i + 1>>] = "created"
                         /\ <<q, t, i + 1>> \notin launch
      BY DEF Reloading, SyncApply
    <2>1. /\ gen[q][t] = i + 1 /\ i + 1 \in 1..MaxLoops
          /\ pc[<<q, t, i + 1>>] = "created" /\ <<q, t, i + 1>> \notin launch
      BY PoolAssumption DEF IndInv, Reloading, TypeOK
    <2>2. ~(q = p /\ t \in new)
      BY NewTargetNotReloading DEF SyncApply
    <2>. QED  BY <1>b, <1>c, <2>1, <2>2
  <1>e. ASSUME NEW q \in Pools, NEW t \in Targets, NEW i \in 1..MaxLoops,
               PredecessorsStopped(q, t, i), i \in 1..gen[q][t]
        PROVE  PredecessorsStopped(q, t, i)'
    BY <1>b, <1>e, <1>f DEF PredecessorsStopped
  <1>7. Launching'
    <2>. SUFFICES ASSUME NEW q \in Pools, NEW t \in Targets, NEW i \in 1..MaxLoops,
                         <<q, t, i>> \in launch
                  PROVE  /\ pc'[<<q, t, i>>] = "created"
                         /\ ~cancelled[q] => PredecessorsStopped(q, t, i)'
      BY DEF Launching, SyncApply
    <2>1. pc[<<q, t, i>>] = "created" /\ (~cancelled[q] => PredecessorsStopped(q, t, i))
      BY DEF IndInv, Launching
    <2>2. i \in 1..gen[q][t]
      BY <2>1, PoolAssumption DEF IndInv, TypeOK, LoopNumbering
    <2>. QED  BY <1>b, <1>e, <1>f, <2>1, <2>2
  <1>8. Handover'
    <2>. SUFFICES ASSUME NEW q \in Pools, NEW t \in Targets, NEW i \in 1..MaxLoops,
                         \/ Busy(<<q, t, i>>)'
                         \/ ~cancelled[q] /\ pc'[<<q, t, i>>] \notin {"none", "created"}
                  PROVE  PredecessorsStopped(q, t, i)'
      BY DEF Handover, SyncApply
    <2>1. CASE q = p /\ t \in new /\ i = gen[p][t] + 1
      <3>1. ~cancelled[p]
        BY <1>b, <2>1 DEF Busy
      <3>2. \A j \in 1..MaxLoops : j < i => pc[<<p, t, j>>] = "stopped"
        BY <2>1, <3>1, NewTargetIsFree, PoolAssumption DEF IndInv, TypeOK, SyncApply
      <3>. QED  BY <1>b, <1>f, <2>1, <3>2 DEF PredecessorsStopped
    <2>2. CASE ~(q = p /\ t \in new /\ i = gen[p][t] + 1)
      <3>1. pc'[<<q, t, i>>] = pc[<<q, t, i>>]
        BY <1>b, <2>2
      <3>2. PredecessorsStopped(q, t, i)
        BY <3>1 DEF IndInv, Handover, Busy
      <3>3. pc[<<q, t, i>>] # "none"
        BY <3>1 DEF Busy
      <3>4. i \in 1..gen[q][t]
        BY <3>3, PoolAssumption DEF IndInv, LoopNumbering, TypeOK
      <3>. QED  BY <1>e, <3>2, <3>4
    <2>. QED  BY <2>1, <2>2
  <1>9. LoopOptionsAreCurrent'
    <2>. SUFFICES ASSUME NEW q \in Pools, NEW t \in Targets, loops'[q][t] # 0
                  PROVE  loopOpts'[<<q, t, loops'[q][t]>>] = config[q]
      BY DEF LoopOptionsAreCurrent, SyncApply
    <2>1. CASE q = p /\ t \in new
      BY <1>a, <1>b, <1>c, <2>1
    <2>2. CASE ~(q = p /\ t \in new)
      <3>1. loops'[q][t] = loops[q][t] /\ loops[q][t] \in 1..MaxLoops
        BY <1>c, <2>2, PoolAssumption DEF IndInv, TypeOK
      <3>. QED  BY <1>b, <2>2, <3>1 DEF IndInv, LoopOptionsAreCurrent
    <2>. QED  BY <2>1, <2>2
  <1>. QED  BY <1>1, <1>2, <1>3, <1>4, <1>5, <1>6, <1>7, <1>8, <1>9 DEF IndInv

\* reload swaps a loop that is not run yet in for every loop of the pool.
LEMMA ReloadInd ==
    ASSUME IndInv, NEW p \in Pools, NEW cfg \in Configs, Reload(p, cfg)
    PROVE  IndInv'
  <1>. USE DEF syncVars
  <1>. DEFINE act == activeTargets[p]
  <1>0. act = {t \in Targets : loops[p][t] # 0}
    BY DEF IndInv, TargetsAndLoopsInSync
  <1>a. \A t \in act : /\ t \in Targets /\ loops[p][t] = gen[p][t]
                        /\ gen[p][t] \in 1..MaxLoops /\ gen[p][t] + 1 \in 1..MaxLoops
    BY PoolAssumption DEF IndInv, Reload, TypeOK, TargetsAndLoopsInSync, LoopNumbering
  <1>b. \A q \in Pools, t \in Targets : \A i \in 1..MaxLoops :
            /\ pc'[<<q, t, i>>] = IF q = p /\ t \in act /\ i = gen[p][t] + 1
                                  THEN "created" ELSE pc[<<q, t, i>>]
            /\ loopOpts'[<<q, t, i>>] = IF q = p /\ t \in act /\ i = gen[p][t] + 1
                                       THEN cfg ELSE loopOpts[<<q, t, i>>]
    BY <1>0 DEF Reload, newLoops, NextLoop, LoopIds
  <1>c. \A q \in Pools, t \in Targets :
            /\ gen'[q][t] = IF q = p /\ t \in act THEN gen[p][t] + 1 ELSE gen[q][t]
            /\ loops'[q][t] = IF q = p /\ t \in act THEN gen[p][t] + 1 ELSE loops[q][t]
    BY <1>0 DEF IndInv, Reload, newLoops, TypeOK
  <1>d. /\ ctlWait[p] = {} /\ ctlWait'[p] = {<<p, t, gen[p][t]>> : t \in act}
        /\ \A q \in Pools : q # p => ctlWait'[q] = ctlWait[q] /\ ctl'[q] = ctl[q]
        /\ ctl'[p] = "reload"
    <2>1. ctlWait[p] = {}
      BY DEF IndInv, Waiting, Reload
    <2>2. ctlWait'[p] = {<<p, t, loops[p][t]>> : t \in act}
      BY <1>0 DEF IndInv, TypeOK, Reload, InMap
    <2>3. {<<p, t, loops[p][t]>> : t \in act} = {<<p, t, gen[p][t]>> : t \in act}
      BY <1>a
    <2>. QED  BY <2>1, <2>2, <2>3 DEF IndInv, TypeOK, Reload
  <1>f. \A q \in Pools, t \in Targets : /\ gen[q][t] \in 0..MaxLoops /\ loops[q][t] \in 0..MaxLoops
                                        /\ gen[q][t] \in Nat
    BY PoolAssumption DEF IndInv, TypeOK
  <1>1. TypeOK'
    <2>1. pc' \in [LoopIds -> LoopPc] /\ loopOpts' \in [LoopIds -> Configs \cup {NoConfig}]
      BY DEF IndInv, Reload, newLoops, TypeOK, LoopPc
    <2>2. gen' \in [Pools -> [Targets -> 0..MaxLoops]]
      BY <1>0, <1>a, PoolAssumption DEF IndInv, Reload, newLoops, TypeOK
    <2>3. loops' \in [Pools -> [Targets -> 0..MaxLoops]]
      BY <1>0, <1>a, PoolAssumption DEF IndInv, Reload, newLoops, TypeOK
    <2>4. ctlWait' \in [Pools -> SUBSET LoopIds]
      BY <1>0, <1>a DEF IndInv, Reload, InMap, TypeOK, LoopIds
    <2>. QED  BY <2>1, <2>2, <2>3, <2>4 DEF IndInv, Reload, TypeOK
  <1>2. TargetsAndLoopsInSync'
    BY <1>a, <1>c, <1>f DEF IndInv, Reload, TargetsAndLoopsInSync
  <1>3. LoopNumbering'
    <2>. SUFFICES ASSUME NEW q \in Pools, NEW t \in Targets
                  PROVE  /\ loops'[q][t] \in {0, gen'[q][t]}
                         /\ config'[q] = NoConfig => loops'[q][t] = 0
                         /\ \A i \in 1..MaxLoops : pc'[<<q, t, i>>] = "none" <=> i > gen'[q][t]
      BY DEF LoopNumbering
    <2>1. /\ loops[q][t] \in {0, gen[q][t]}
          /\ config'[q] = NoConfig => loops[q][t] = 0 /\ q # p
          /\ \A i \in 1..MaxLoops : pc[<<q, t, i>>] = "none" <=> i > gen[q][t]
      BY PoolAssumption DEF IndInv, LoopNumbering, TypeOK, Reload
    <2>2. CASE q = p /\ t \in act
      BY <1>b, <1>c, <1>f, <2>1, <2>2
    <2>3. CASE ~(q = p /\ t \in act)
      BY <1>b, <1>c, <2>1, <2>3
    <2>. QED  BY <2>2, <2>3
  <1>4. Waiting'
    <2>1. \A t \in Targets : t \in act => gen[p][t] + 1 < MaxLoops
      BY DEF Reload
    <2>. QED  BY <1>c, <1>d, <2>1, PoolAssumption DEF IndInv, Reload, TypeOK, Waiting
  <1>5. NoLoopLeaked'
    <2>. SUFFICES ASSUME NEW q \in Pools, NEW t \in Targets, NEW i \in 1..gen'[q][t],
                         pc'[<<q, t, i>>] # "stopped", i # loops'[q][t]
                  PROVE  <<q, t, i>> \in syncWait[q] \cup ctlWait'[q]
      BY DEF NoLoopLeaked, Reload
    <2>1. i \in 1..gen[q][t] /\ i \in 1..MaxLoops
      BY <1>c, <1>f, PoolAssumption
    <2>2. pc[<<q, t, i>>] # "stopped"
      BY <1>b, <1>f, <2>1
    <2>3. i = loops[q][t] \/ <<q, t, i>> \in syncWait[q] \cup ctlWait[q]
      BY <2>1, <2>2 DEF IndInv, NoLoopLeaked
    <2>4. q = p /\ i = loops[p][t] => t \in act /\ i = gen[p][t]
      BY <1>a, <2>1, PoolAssumption DEF IndInv, TargetsAndLoopsInSync
    <2>. QED  BY <1>c, <1>d, <2>3, <2>4
  <1>6. Reloading'
    <2>. SUFFICES ASSUME NEW q \in Pools, NEW t \in Targets, NEW i \in 1..MaxLoops,
                         ctl'[q] = "reload", <<q, t, i>> \in ctlWait'[q]
                  PROVE  /\ gen'[q][t] = i + 1
                         /\ pc'[<<q, t, i + 1>>] = "created"
                         /\ <<q, t, i + 1>> \notin launch
      BY DEF Reloading, Reload
    <2>1. CASE q = p
      <3>1. t \in act /\ i = gen[p][t] /\ i + 1 \in 1..MaxLoops
        BY <1>a, <1>d, <2>1
      <3>2. <<p, t, i + 1>> \notin launch
        BY <1>f, <3>1 DEF IndInv, LoopNumbering, Launching
      <3>. QED  BY <1>b, <1>c, <2>1, <3>1, <3>2
    <2>2. CASE q # p
      <3>1. /\ gen[q][t] = i + 1
            /\ pc[<<q, t, i + 1>>] = "created" /\ <<q, t, i + 1>> \notin launch
        BY <1>d, <2>2 DEF IndInv, Reloading
      <3>. QED  BY <1>b, <1>c, <1>f, <2>2, <3>1, PoolAssumption
    <2>. QED  BY <2>1, <2>2
  <1>e. ASSUME NEW q \in Pools, NEW t \in Targets, NEW i \in 1..MaxLoops,
               PredecessorsStopped(q, t, i), pc[<<q, t, i>>] # "none"
        PROVE  PredecessorsStopped(q, t, i)' /\ pc'[<<q, t, i>>] = pc[<<q, t, i>>]
    <2>1. i \in 1..gen[q][t]
      BY <1>e, <1>f DEF IndInv, LoopNumbering
    <2>. QED  BY <1>b, <1>e, <1>f, <2>1 DEF PredecessorsStopped
  <1>7. Launching'
    <2>. SUFFICES ASSUME NEW q \in Pools, NEW t \in Targets, NEW i \in 1..MaxLoops,
                         <<q, t, i>> \in launch
                  PROVE  /\ pc'[<<q, t, i>>] = "created"
                         /\ ~cancelled[q] => PredecessorsStopped(q, t, i)'
      BY DEF Launching, Reload
    <2>1. pc[<<q, t, i>>] = "created" /\ (~cancelled[q] => PredecessorsStopped(q, t, i))
      BY DEF IndInv, Launching
    <2>. QED  BY <1>b, <1>e, <2>1
  <1>8. Handover'
    <2>. SUFFICES ASSUME NEW q \in Pools, NEW t \in Targets, NEW i \in 1..MaxLoops,
                         \/ Busy(<<q, t, i>>)'
                         \/ ~cancelled[q] /\ pc'[<<q, t, i>>] \notin {"none", "created"}
                  PROVE  PredecessorsStopped(q, t, i)'
      BY DEF Handover, Reload
    <2>1. pc'[<<q, t, i>>] = pc[<<q, t, i>>] /\ pc[<<q, t, i>>] # "none"
      BY <1>b DEF Busy
    <2>2. PredecessorsStopped(q, t, i)
      BY <2>1 DEF IndInv, Handover, Busy
    <2>. QED  BY <1>e, <2>1, <2>2
  <1>9. LoopOptionsAreCurrent'
    <2>. SUFFICES ASSUME NEW q \in Pools, NEW t \in Targets, loops'[q][t] # 0
                  PROVE  loopOpts'[<<q, t, loops'[q][t]>>] = config'[q]
      BY DEF LoopOptionsAreCurrent
    <2>1. CASE q = p
      <3>1. t \in act
        BY <1>c, <2>1 DEF IndInv, TargetsAndLoopsInSync
      <3>2. config'[p] = cfg
        BY DEF IndInv, TypeOK, Reload
      <3>. QED  BY <1>a, <1>b, <1>c, <2>1, <3>1, <3>2
    <2>2. CASE q # p
      <3>1. loops'[q][t] = loops[q][t] /\ loops[q][t] \in 1..MaxLoops /\ config'[q] = config[q]
        BY <1>c, <1>f, <2>2 DEF IndInv, TypeOK, Reload
      <3>. QED  BY <1>b, <2>2, <3>1 DEF IndInv, LoopOptionsAreCurrent
    <2>. QED  BY <2>1, <2>2
  <1>. QED  BY <1>1, <1>2, <1>3, <1>4, <1>5, <1>6, <1>7, <1>8, <1>9 DEF IndInv

-----------------------------------------------------------------------------
\* Every step of the pools, their loops and their callers keeps the invariant.
LEMMA NextInd ==
    ASSUME IndInv, [Next]_vars
    PROVE  IndInv'
  <1>1. CASE Calls
    BY <1>1, NewPoolInd, ReloadInd, SyncBuildInd, StopCancelInd DEF Calls
  <1>2. CASE Internal
    BY <1>2, SyncApplyInd, SyncReturnInd, ReloadOldStoppedInd, ReloadReturnInd,
       StopSnapshotInd, StopReturnInd, ReloadLaunchInd, LoopStopInd, RunLoopInd DEF Internal
  <1>3. CASE UNCHANGED vars
    BY <1>3 DEF vars, poolVars, loopVars, syncVars, ctlVars, IndInv, TypeOK,
        TargetsAndLoopsInSync, LoopNumbering, Waiting, NoLoopLeaked, Reloading, Launching,
        Handover, PredecessorsStopped, Busy, LoopOptionsAreCurrent
  <1>. QED  BY <1>1, <1>2, <1>3 DEF Next

\* The inductive invariant holds in every reachable state.
THEOREM Invariance == Spec => []IndInv
  <1>1. Init => IndInv
    BY InitInd
  <1>2. IndInv /\ [Next]_vars => IndInv'
    BY NextInd
  <1>. QED  BY <1>1, <1>2, PTL DEF Spec

\* The variables keep their types: in particular no loop beyond the bound is
\* ever created, and a goroutine waits for loops that exist.
THEOREM TypeCorrect == Spec => []TypeOK
  <1>1. IndInv => TypeOK
    BY DEF IndInv
  <1>. QED  BY <1>1, Invariance, PTL

\* sync, reload and stop keep activeTargets and loops on the same set of hashes.
THEOREM TargetsMatchLoops == Spec => []TargetsAndLoopsInSync
  <1>1. IndInv => TargetsAndLoopsInSync
    BY DEF IndInv
  <1>. QED  BY <1>1, Invariance, PTL

\* No interleaving of Sync, reload and stop lets two loops of a target scrape
\* or write at the same time.
THEOREM ScrapesExclude == Spec => []AtMostOneScrape
  <1>1. IndInv => AtMostOneScrape
    <2>. SUFFICES ASSUME IndInv, NEW p \in Pools, NEW t \in Targets,
                         NEW i \in 1..MaxLoops, NEW j \in 1..MaxLoops,
                         Busy(<<p, t, i>>), Busy(<<p, t, j>>)
                  PROVE  i = j
      BY DEF AtMostOneScrape
    <2>1. ~(i < j) /\ ~(j < i)
      BY DEF IndInv, Handover, PredecessorsStopped, Busy
    <2>. QED  BY <2>1, PoolAssumption
  <1>. QED  BY <1>1, Invariance, PTL

\* A loop that left sp.loops has terminated or somebody waits for it.
THEOREM LoopsAccountedFor == Spec => []NoLoopLeaked
  <1>1. IndInv => NoLoopLeaked
    BY DEF IndInv
  <1>. QED  BY <1>1, Invariance, PTL

\* The interval, timeout and HTTP client of the loop of an active target are those of the
\* configuration that the pool has now (not its normalized addresses: see newLoops).
THEOREM LoopsConfigured == Spec => []LoopOptionsAreCurrent
  <1>1. IndInv => LoopOptionsAreCurrent
    BY DEF IndInv
  <1>. QED  BY <1>1, Invariance, PTL

\* A loop that terminated is not run again: new loops are fresh, and reload runs
\* only loops that were never run.
THEOREM LoopsRunOnce == Spec => StoppedLoopNeverRunsAgain
  <1>. DEFINE A == \A l \in LoopIds : pc[l] = "stopped" => pc'[l] = "stopped"
  <1>1. IndInv /\ [Next]_vars => [A]_vars
    <2>. SUFFICES ASSUME IndInv, Next, NEW l \in LoopIds, pc[l] = "stopped"
                  PROVE  pc'[l] = "stopped"
      OBVIOUS
    <2>0. l[1] \in Pools /\ l[2] \in Targets /\ l[3] \in 1..MaxLoops /\ l = <<l[1], l[2], l[3]>>
      BY LoopParts
    <2>1. ~(l[3] = gen[l[1]][l[2]] + 1)
      BY <2>0, PoolAssumption DEF IndInv, TypeOK, LoopNumbering
    <2>2. \A p \in Pools, t \in Targets : l # NextLoop(p, t)
      BY <2>0, <2>1 DEF NextLoop
    <2>3. l \notin launch
      BY <2>0 DEF IndInv, Launching
    <2>4. CASE Calls
      BY <2>2, <2>4 DEF Calls, newScrapePool, Reload, newLoops, SyncBuild, StopCancel, loopVars,
            IndInv, TypeOK
    <2>5. CASE Internal
      <3>1. CASE \E p \in Pools : SyncApply(p)
        BY <2>2, <3>1 DEF SyncApply, newLoops, IndInv, TypeOK
      <3>2. CASE \E m \in launch : ReloadLaunch(m)
        BY <2>3, <3>2 DEF ReloadLaunch, IndInv, TypeOK
      <3>3. CASE \E m \in LoopIds : RunLoop(m)
        BY <3>3 DEF RunLoop, RunOffset, RunOffsetDone, RunCheck, RunCheckDone, RunScrapeFailed,
              RunScrapeOk, RunWritten, RunTick, RunWaitDone, Goto, IndInv, TypeOK
      <3>4. CASE pc' = pc
        BY <3>4
      <3>. QED  BY <2>5, <3>1, <3>2, <3>3, <3>4 DEF Internal, SyncReturn, ReloadOldStopped,
              ReloadReturn, StopSnapshot, StopReturn, LoopStop, loopVars
    <2>. QED  BY <2>4, <2>5 DEF Next
  <1>. QED  BY <1>1, Invariance, PTL DEF Spec, StoppedLoopNeverRunsAgain

-----------------------------------------------------------------------------
\* A step that only creates loops or runs a new one changes neither the loops at
\* work nor those that terminated.
LEMMA OtherStepsStutter ==
    ASSUME IndInv, Next, ~ \E l \in LoopIds : RunLoop(l)
    PROVE  \A m \in LoopIds : /\ Busy(m)' <=> Busy(m)
                              /\ pc'[m] = "stopped" <=> pc[m] = "stopped"
  <1>. SUFFICES ASSUME NEW m \in LoopIds
                PROVE  /\ Busy(m)' <=> Busy(m)
                       /\ pc'[m] = "stopped" <=> pc[m] = "stopped"
    OBVIOUS
  <1>0. m[1] \in Pools /\ m[2] \in Targets /\ m[3] \in 1..MaxLoops /\ m = <<m[1], m[2], m[3]>>
    BY LoopParts
  <1>1. ASSUME NEW p \in Pools, NEW t \in Targets, m = NextLoop(p, t)
        PROVE  pc[m] = "none"
    <2>1. p = m[1] /\ t = m[2] /\ m[3] = gen[p][t] + 1
      BY <1>1, <1>0 DEF NextLoop
    <2>2. m[3] > gen[m[1]][m[2]]
      BY <2>1, <1>0, PoolAssumption DEF IndInv, TypeOK
    <2>. QED  BY <2>2, <1>0 DEF IndInv, LoopNumbering
  <1>2. CASE Calls
    <2>1. ASSUME NEW p \in Pools, NEW cfg \in Configs, Reload(p, cfg)
          PROVE  pc'[m] = pc[m] \/ (pc[m] = "none" /\ pc'[m] = "created")
      <3>. DEFINE made == {NextLoop(p, t) : t \in {u \in Targets : loops[p][u] # 0}}
      <3>1. pc'[m] = IF m \in made THEN "created" ELSE pc[m]
        BY <2>1 DEF Reload, newLoops
      <3>2. m \in made => pc[m] = "none"
        BY <1>1
      <3>. QED  BY <3>1, <3>2
    <2>2. CASE \E p \in Pools, cfg \in Configs : Reload(p, cfg)
      BY <2>1, <2>2 DEF Busy
    <2>3. CASE pc' = pc
      BY <2>3 DEF Busy
    <2>. QED  BY <1>2, <2>2, <2>3 DEF Calls, newScrapePool, SyncBuild, StopCancel, loopVars
  <1>3. CASE Internal
    <2>1. CASE \E p \in Pools : SyncApply(p)
      BY <1>1, <2>1 DEF SyncApply, newLoops, IndInv, TypeOK, Busy
    <2>2. CASE \E l \in launch : ReloadLaunch(l)
      <3>1. PICK l \in launch : ReloadLaunch(l)
        BY <2>2
      <3>2. m = l => pc[m] = "created"
        BY <1>0, <3>1 DEF IndInv, Launching
      <3>. QED  BY <3>1, <3>2 DEF ReloadLaunch, IndInv, TypeOK, Busy
    <2>3. CASE pc' = pc
      BY <2>3 DEF Busy
    <2>. QED  BY <1>3, <2>1, <2>2, <2>3 DEF Internal, SyncReturn, ReloadOldStopped,
            ReloadReturn, StopSnapshot, StopReturn, LoopStop, loopVars
  <1>. QED  BY <1>2, <1>3 DEF Next

\* A step of run begins, ends or retires the work of its loop, or none of them.
LEMMA RunLoopHandsOver ==
    ASSUME IndInv, IndInv', NEW l \in LoopIds, RunLoop(l)
    PROVE  [H!Next]_(H!vars)
  <1>. DEFINE busy == {m \in LoopIds : Busy(m)}
              retired == {m \in LoopIds : pc[m] = "stopped"}
  <1>0. /\ l[1] \in Pools /\ l[2] \in Targets /\ l[3] \in 1..MaxLoops
        /\ l = <<l[1], l[2], l[3]>> /\ LoopIds = H!Loops
    BY LoopParts DEF H!Loops, LoopIds
  <1>1. PICK from \in {"offset", "check", "scraping", "writing", "waiting"},
             to \in {"check", "scraping", "writing", "waiting", "stopped"} :
             /\ Goto(l, from, to)
             /\ from = "writing" => to = "waiting"
             /\ from = "scraping" => to \in {"waiting", "writing"}
    BY DEF RunLoop, RunOffset, RunOffsetDone, RunCheck, RunCheckDone, RunScrapeFailed,
           RunScrapeOk, RunWritten, RunTick, RunWaitDone
  <1>2. pc[l] = from /\ pc' = [pc EXCEPT ![l] = to]
    BY <1>1 DEF Goto
  <1>3. pc \in [LoopIds -> LoopPc]
    BY DEF IndInv, TypeOK
  <1>4. CASE from \notin {"scraping", "writing"} /\ to \in {"scraping", "writing"}
    <2>1. l \notin busy /\ l \notin retired
      BY <1>1, <1>2, <1>4 DEF Busy
    <2>2. busy' = busy \cup {l} /\ retired' = retired
      BY <1>2, <1>3, <1>4, <2>1 DEF Busy
    <2>3. \A j \in 1..MaxLoops : j < l[3] => pc'[<<l[1], l[2], j>>] = "stopped"
      <3>1. Busy(<<l[1], l[2], l[3]>>)'
        BY <1>0, <1>2, <1>3, <1>4 DEF Busy
      <3>. QED  BY <1>0, <3>1 DEF IndInv, Handover, PredecessorsStopped
    <2>4. H!Earlier(l) \subseteq retired
      <3>. SUFFICES ASSUME NEW m \in H!Earlier(l)
                    PROVE  m \in retired
        OBVIOUS
      <3>1. m \in LoopIds /\ m[1] = l[1] /\ m[2] = l[2] /\ m[3] < l[3]
        BY <1>0 DEF H!Earlier
      <3>2. m[3] \in 1..MaxLoops /\ m = <<l[1], l[2], m[3]>>
        BY <3>1, LoopParts
      <3>3. pc'[m] = "stopped"
        BY <2>3, <3>1, <3>2
      <3>. QED  BY <2>2, <3>1, <3>3
    <2>5. H!Begin(l)
      BY <2>1, <2>2, <2>4 DEF H!Begin
    <2>. QED  BY <1>0, <2>5 DEF H!Next
  <1>5. CASE from \in {"scraping", "writing"} /\ to \notin {"scraping", "writing"}
    <2>1. l \in busy /\ busy' = busy \ {l} /\ retired' = retired
      BY <1>1, <1>2, <1>3, <1>5 DEF Busy
    <2>2. H!End(l)
      BY <2>1 DEF H!End
    <2>. QED  BY <1>0, <2>2 DEF H!Next
  <1>6. CASE to = "stopped"
    <2>1. l \notin busy /\ busy' = busy /\ retired' = retired \cup {l}
      BY <1>1, <1>2, <1>3, <1>6 DEF Busy
    <2>2. H!Retire(l)
      BY <2>1 DEF H!Retire
    <2>. QED  BY <1>0, <2>2 DEF H!Next
  <1>7. CASE /\ to # "stopped"
             /\ from \in {"scraping", "writing"} <=> to \in {"scraping", "writing"}
    <2>1. busy' = busy /\ retired' = retired
      BY <1>1, <1>2, <1>3, <1>7 DEF Busy
    <2>. QED  BY <2>1 DEF H!vars
  <1>. QED  BY <1>1, <1>4, <1>5, <1>6, <1>7

\* Every step of a pool is a step of the abstract handover or leaves it alone: a
\* target's scrapes pass from loop to loop, and a loop that terminated has passed
\* them on for good.
THEOREM PoolHandsOverTargets == Spec => HandsOverTargets
  <1>1. Init => H!Init
    BY DEF Init, H!Init, Busy
  <1>2. IndInv /\ IndInv' /\ [Next]_vars => [H!Next]_(H!vars)
    <2>. SUFFICES ASSUME IndInv, IndInv', [Next]_vars
                  PROVE  [H!Next]_(H!vars)
      OBVIOUS
    <2>1. CASE \E l \in LoopIds : RunLoop(l)
      BY <2>1, RunLoopHandsOver
    <2>2. CASE Next /\ ~ \E l \in LoopIds : RunLoop(l)
      BY <2>2, OtherStepsStutter DEF H!vars
    <2>3. CASE UNCHANGED vars
      BY <2>3 DEF vars, loopVars, H!vars, Busy
    <2>. QED  BY <2>1, <2>2, <2>3
  <1>. QED  BY <1>1, <1>2, Invariance, PTL DEF Spec, HandsOverTargets, H!Spec

-----------------------------------------------------------------------------
(* The waits of Sync, reload and stop. *)

\* run was called on the loop, or a goroutine of reload is about to call it.
IsRun(l) == pc[l] \notin {"none", "created"} \/ l \in launch

\* Nobody waits for a loop for ever because it was never run: a loop that Sync,
\* reload or stop waits for is run, or it was swapped in by a reload that still
\* waits for the loop in front of it, and that one is run.  This is what a
\* deadlock of sp.mtx's callers would break: stop() blocks until run closes
\* sl.stopped.
WaitsEnd ==
    \A p \in Pools : \A l \in syncWait[p] \cup ctlWait[p] :
        \/ IsRun(l)
        \/ /\ ctl[p] = "reload"
           /\ \E k \in ctlWait[p] : Replacement(k) = l /\ IsRun(k)

\* A loop that was created and not run belongs to a swap that is still under way.
Swapped ==
    \A p \in Pools, t \in Targets : \A i \in 1..MaxLoops :
        pc[<<p, t, i>>] = "created"
            => \/ <<p, t, i>> \in launch
               \/ ctl[p] = "reload" /\ <<p, t, i - 1>> \in ctlWait[p]

\* A loop that somebody waits for exists.
WaitedExist == \A p \in Pools : \A l \in syncWait[p] \cup ctlWait[p] : pc[l] # "none"

SwapInd == Swapped /\ WaitedExist

\* A loop that is not run leaves its predecessor to the reload that swapped it in.
LEMMA SwapWaitsEnd == IndInv /\ SwapInd => WaitsEnd
  <1>. SUFFICES ASSUME IndInv, SwapInd, NEW p \in Pools, NEW l \in syncWait[p] \cup ctlWait[p],
                       ~IsRun(l)
                PROVE  /\ ctl[p] = "reload"
                       /\ \E k \in ctlWait[p] : Replacement(k) = l /\ IsRun(k)
    BY DEF WaitsEnd
  <1>1. PICK t \in Targets, i \in 1..MaxLoops : l = <<p, t, i>>
    BY DEF IndInv, TypeOK, Waiting, LoopIds
  <1>2. pc[l] = "created" /\ l \notin launch
    BY DEF IsRun, SwapInd, WaitedExist
  <1>3. ctl[p] = "reload" /\ <<p, t, i - 1>> \in ctlWait[p]
    BY <1>1, <1>2 DEF SwapInd, Swapped
  <1>4. i - 1 \in 1..MaxLoops
    BY <1>3 DEF IndInv, TypeOK, LoopIds
  <1>5. gen[p][t] = i - 1 + 1
    BY <1>3, <1>4 DEF IndInv, Reloading
  <1>6. <<p, t, i - 1 - 1>> \notin ctlWait[p]
    <2>. SUFFICES ASSUME <<p, t, i - 1 - 1>> \in ctlWait[p]  PROVE FALSE
      OBVIOUS
    <2>1. i - 1 - 1 \in 1..MaxLoops
      BY DEF IndInv, TypeOK, LoopIds
    <2>2. gen[p][t] = i - 1 - 1 + 1
      BY <1>3, <2>1 DEF IndInv, Reloading
    <2>. QED  BY <1>5, <2>2
  <1>7. IsRun(<<p, t, i - 1>>)
    BY <1>3, <1>4, <1>6 DEF IsRun, SwapInd, Swapped, WaitedExist
  <1>8. Replacement(<<p, t, i - 1>>) = l
    BY <1>1, PoolAssumption DEF Replacement
  <1>. QED  BY <1>3, <1>7, <1>8

\* Steps that create no loop, end no wait of reload and take no loop out of launch.
LEMMA SwapFrame ==
    ASSUME SwapInd, IndInv, pc' = pc, launch' = launch,
           \A p \in Pools : /\ ctl[p] = "reload" => ctl'[p] = "reload" /\ ctlWait'[p] = ctlWait[p]
                            /\ \A l \in syncWait'[p] \cup ctlWait'[p] :
                                    \/ l \in syncWait[p] \cup ctlWait[p]
                                    \/ \E t \in Targets : /\ loops[p][t] # 0
                                                          /\ l = <<p, t, loops[p][t]>>
    PROVE  SwapInd'
  <1>1. Swapped'
    BY DEF SwapInd, Swapped
  <1>2. ASSUME NEW p \in Pools, NEW t \in Targets, loops[p][t] # 0
        PROVE  pc[<<p, t, loops[p][t]>>] # "none"
    <2>1. loops[p][t] \in 1..MaxLoops /\ loops[p][t] = gen[p][t]
      BY <1>2, PoolAssumption DEF IndInv, TypeOK, LoopNumbering
    <2>. QED  BY <2>1, PoolAssumption DEF IndInv, LoopNumbering
  <1>3. WaitedExist'
    BY <1>2 DEF SwapInd, WaitedExist
  <1>. QED  BY <1>1, <1>3 DEF SwapInd

\* What Sync and stop take out of the map is a loop of the pool that exists.
LEMMA QuietSwap ==
    ASSUME IndInv, SwapInd, NEW p \in Pools,
           \/ \E cfg \in Configs : newScrapePool(p, cfg)
           \/ \E tgs \in SUBSET Targets : SyncBuild(p, tgs)
           \/ SyncReturn(p) \/ StopCancel(p) \/ StopSnapshot(p) \/ StopReturn(p)
           \/ \E l \in LoopIds : LoopStop(l)
    PROVE  SwapInd'
  <1>. USE DEF loopVars, syncVars, ctlVars, poolVars
  <1>1. TypeOK
    BY DEF IndInv
  <1>2. CASE \E cfg \in Configs : newScrapePool(p, cfg)
    BY <1>1, <1>2, SwapFrame DEF newScrapePool
  <1>3. CASE \E tgs \in SUBSET Targets : SyncBuild(p, tgs)
    BY <1>1, <1>3, SwapFrame DEF SyncBuild
  <1>4. CASE SyncReturn(p)
    BY <1>1, <1>4, SwapFrame DEF SyncReturn, TypeOK
  <1>5. CASE StopCancel(p)
    BY <1>1, <1>5, SwapFrame DEF StopCancel, TypeOK
  <1>6. CASE StopSnapshot(p)
    BY <1>1, <1>6, SwapFrame DEF StopSnapshot, TypeOK, InMap
  <1>7. CASE StopReturn(p)
    BY <1>1, <1>7, SwapFrame DEF StopReturn, TypeOK
  <1>8. CASE \E l \in LoopIds : LoopStop(l)
    BY <1>1, <1>8, SwapFrame DEF LoopStop
  <1>. QED  BY <1>2, <1>3, <1>4, <1>5, <1>6, <1>7, <1>8

\* A loop whose run is called, or that moves on, is none that waits for its swap.
LEMMA MoveSwap ==
    ASSUME IndInv, SwapInd, NEW l \in LoopIds, NEW to \in LoopPc \ {"none", "created"},
           pc' = [pc EXCEPT ![l] = to], launch \ {l} \subseteq launch',
           UNCHANGED <<ctl, ctlWait, syncWait>>
    PROVE  SwapInd'
  <1>1. pc \in [LoopIds -> LoopPc]
    BY DEF IndInv, TypeOK
  <1>2. \A m \in LoopIds : pc'[m] = IF m = l THEN to ELSE pc[m]
    BY <1>1
  <1>3. Swapped'
    BY <1>2 DEF SwapInd, Swapped, LoopIds
  <1>4. WaitedExist'
    BY <1>2 DEF SwapInd, WaitedExist, IndInv, TypeOK
  <1>. QED  BY <1>3, <1>4 DEF SwapInd

\* The steps of the loops themselves, and go newLoop.run().
LEMMA RunSwap ==
    ASSUME IndInv, SwapInd, NEW l \in LoopIds, RunLoop(l) \/ ReloadLaunch(l)
    PROVE  SwapInd'
  <1>. USE DEF loopVars, syncVars, ctlVars, poolVars
  <1>1. PICK to \in LoopPc \ {"none", "created"} : pc' = [pc EXCEPT ![l] = to]
    BY DEF RunLoop, RunOffset, RunOffsetDone, RunCheck, RunCheckDone, RunScrapeFailed,
        RunScrapeOk, RunWritten, RunTick, RunWaitDone, Goto, ReloadLaunch, LoopPc
  <1>2. launch \ {l} \subseteq launch' /\ UNCHANGED <<ctl, ctlWait, syncWait>>
    BY DEF RunLoop, RunOffset, RunOffsetDone, RunCheck, RunCheckDone, RunScrapeFailed,
        RunScrapeOk, RunWritten, RunTick, RunWaitDone, Goto, ReloadLaunch
  <1>. QED  BY <1>1, <1>2, MoveSwap

\* The goroutine of a swap goes on from the old loop to the one in its place.
LEMMA OldStoppedSwap ==
    ASSUME IndInv, SwapInd, NEW p \in Pools, NEW l \in ctlWait[p], ReloadOldStopped(p, l)
    PROVE  SwapInd'
  <1>. USE DEF loopVars, syncVars, ctlVars, poolVars
  <1>1. PICK t \in Targets, i \in 1..MaxLoops : l = <<p, t, i>>
    BY DEF IndInv, TypeOK, Waiting, LoopIds
  <1>2. launch' = launch \cup {<<p, t, i + 1>>}
    BY <1>1 DEF ReloadOldStopped, Replacement
  <1>3. ASSUME NEW q \in Pools
        PROVE  ctlWait'[q] = IF q = p THEN ctlWait[p] \ {l} ELSE ctlWait[q]
    BY DEF ReloadOldStopped, IndInv, TypeOK
  <1>4. Swapped'
    <2>. SUFFICES ASSUME NEW q \in Pools, NEW u \in Targets, NEW k \in 1..MaxLoops,
                         pc[<<q, u, k>>] = "created", <<q, u, k>> \notin launch'
                  PROVE  ctl[q] = "reload" /\ <<q, u, k - 1>> \in ctlWait'[q]
      BY DEF Swapped, ReloadOldStopped
    <2>1. ctl[q] = "reload" /\ <<q, u, k - 1>> \in ctlWait[q]
      BY <1>2 DEF SwapInd, Swapped
    <2>2. <<q, u, k>> # <<p, t, i + 1>>
      BY <1>2
    <2>3. k - 1 = i => k = i + 1
      BY PoolAssumption
    <2>4. <<q, u, k - 1>> # l
      BY <1>1, <2>2, <2>3
    <2>. QED  BY <1>3, <2>1, <2>4
  <1>5. WaitedExist'
    BY <1>3 DEF SwapInd, WaitedExist, ReloadOldStopped
  <1>. QED  BY <1>4, <1>5 DEF SwapInd

\* reload returns when no swap of the pool waits for an old loop any more.
LEMMA ReloadReturnSwap ==
    ASSUME IndInv, SwapInd, NEW p \in Pools, ReloadReturn(p)
    PROVE  SwapInd'
  <1>. USE DEF loopVars, syncVars, ctlVars, poolVars
  <1>1. Swapped'
    BY DEF SwapInd, Swapped, ReloadReturn, IndInv, TypeOK
  <1>2. WaitedExist'
    BY DEF SwapInd, WaitedExist, ReloadReturn
  <1>. QED  BY <1>1, <1>2 DEF SwapInd

\* sync runs the loops it creates at once, and waits for loops of the map.
LEMMA SyncApplySwap ==
    ASSUME IndInv, SwapInd, NEW p \in Pools, SyncApply(p)
    PROVE  SwapInd'
  <1>. USE DEF loopVars, syncVars, ctlVars, poolVars
  <1>0. UNCHANGED <<ctl, ctlWait, launch>>
    BY DEF SyncApply
  <1>1. ASSUME NEW l \in LoopIds
        PROVE  pc'[l] = "offset" \/ pc'[l] = pc[l]
    BY DEF SyncApply, newLoops
  <1>2. Swapped'
    BY <1>0, <1>1 DEF SwapInd, Swapped, LoopIds
  <1>3. ASSUME NEW t \in activeTargets[p]
        PROVE  /\ <<p, t, loops[p][t]>> \in LoopIds
               /\ pc[<<p, t, loops[p][t]>>] # "none"
    <2>1. t \in Targets /\ loops[p][t] # 0
      BY DEF IndInv, TargetsAndLoopsInSync
    <2>2. loops[p][t] \in 1..MaxLoops /\ loops[p][t] = gen[p][t]
      BY <2>1, PoolAssumption DEF IndInv, TypeOK, LoopNumbering
    <2>. QED  BY <2>1, <2>2, PoolAssumption DEF IndInv, LoopNumbering, LoopIds
  <1>4. ASSUME NEW q \in Pools
        PROVE  syncWait'[q] = IF q = p THEN {<<p, t, loops[p][t]>> : t \in activeTargets[p] \ syncAll[p]}
                              ELSE syncWait[q]
    BY DEF SyncApply, IndInv, TypeOK
  <1>5. ASSUME NEW q \in Pools, NEW l \in syncWait'[q] \cup ctlWait'[q]
        PROVE  l \in LoopIds /\ pc[l] # "none"
    <2>1. CASE l \in syncWait[q] \cup ctlWait[q]
      BY <2>1 DEF SwapInd, WaitedExist, IndInv, TypeOK
    <2>2. CASE q = p /\ l \in {<<p, t, loops[p][t]>> : t \in activeTargets[p] \ syncAll[p]}
      BY <2>2, <1>3
    <2>. QED  BY <1>0, <1>4, <1>5, <2>1, <2>2
  <1>6. WaitedExist'
    BY <1>1, <1>5 DEF WaitedExist
  <1>. QED  BY <1>2, <1>6 DEF SwapInd

\* reload waits for the loop in front of each one it creates.
LEMMA ReloadSwap ==
    ASSUME IndInv, SwapInd, NEW p \in Pools, NEW cfg \in Configs, Reload(p, cfg)
    PROVE  SwapInd'
  <1>. USE DEF loopVars, syncVars, ctlVars, poolVars
  <1>0. UNCHANGED <<syncWait, launch>> /\ TypeOK
    BY DEF Reload, IndInv
  <1>1. \A q \in Pools : /\ ctlWait'[q] = IF q = p THEN InMap(p) ELSE ctlWait[q]
                         /\ ctl'[q] = IF q = p THEN "reload" ELSE ctl[q]
    BY <1>0 DEF Reload, TypeOK
  <1>2. ASSUME NEW l \in LoopIds
        PROVE  pc'[l] = IF l \in {NextLoop(p, t) : t \in {u \in Targets : loops[p][u] # 0}}
                        THEN "created" ELSE pc[l]
    BY DEF Reload, newLoops
  <1>3. ASSUME NEW t \in Targets, loops[p][t] # 0
        PROVE  /\ loops[p][t] \in 1..MaxLoops /\ loops[p][t] = gen[p][t]
               /\ <<p, t, loops[p][t]>> \in LoopIds
               /\ pc[<<p, t, loops[p][t]>>] # "none"
    <2>1. loops[p][t] \in 1..MaxLoops /\ loops[p][t] = gen[p][t]
      BY <1>3, PoolAssumption DEF IndInv, TypeOK, LoopNumbering
    <2>. QED  BY <2>1, PoolAssumption DEF IndInv, LoopNumbering, LoopIds
  <1>4. Swapped'
    <2>. SUFFICES ASSUME NEW q \in Pools, NEW u \in Targets, NEW k \in 1..MaxLoops,
                         pc'[<<q, u, k>>] = "created", <<q, u, k>> \notin launch
                  PROVE  ctl'[q] = "reload" /\ <<q, u, k - 1>> \in ctlWait'[q]
      BY <1>0 DEF Swapped
    <2>0. <<q, u, k>> \in LoopIds
      BY DEF LoopIds
    <2>1. CASE <<q, u, k>> \in {NextLoop(p, t) : t \in {v \in Targets : loops[p][v] # 0}}
      <3>1. PICK t \in Targets : loops[p][t] # 0 /\ <<q, u, k>> = <<p, t, gen[p][t] + 1>>
        BY <2>1 DEF NextLoop
      <3>2. loops[p][t] \in 1..MaxLoops /\ k = loops[p][t] + 1
        BY <1>3, <3>1
      <3>3. k - 1 = loops[p][t]
        BY <3>2, PoolAssumption
      <3>4. <<q, u, k - 1>> \in InMap(p)
        BY <3>1, <3>3 DEF InMap
      <3>. QED  BY <1>1, <3>1, <3>4
    <2>2. CASE pc[<<q, u, k>>] = "created"
      <3>1. ctl[q] = "reload" /\ <<q, u, k - 1>> \in ctlWait[q]
        BY <2>2 DEF SwapInd, Swapped
      <3>2. q # p
        BY <3>1 DEF Reload
      <3>. QED  BY <1>1, <3>1, <3>2
    <2>. QED  BY <1>2, <2>0, <2>1, <2>2
  <1>5. ASSUME NEW q \in Pools, NEW l \in syncWait'[q] \cup ctlWait'[q]
        PROVE  l \in LoopIds /\ pc[l] # "none"
    <2>1. CASE l \in syncWait[q] \cup ctlWait[q]
      BY <2>1 DEF SwapInd, WaitedExist, IndInv, TypeOK
    <2>2. CASE l \in InMap(p)
      BY <2>2, <1>3 DEF InMap
    <2>. QED  BY <1>0, <1>1, <1>5, <2>1, <2>2
  <1>6. WaitedExist'
    BY <1>2, <1>5 DEF WaitedExist
  <1>. QED  BY <1>4, <1>6 DEF SwapInd

\* Every step keeps the account of the swaps.
LEMMA NextSwap ==
    ASSUME IndInv, SwapInd, [Next]_vars
    PROVE  SwapInd'
  <1>1. CASE Calls
    BY <1>1, QuietSwap, ReloadSwap DEF Calls
  <1>2. CASE Internal
    <2>1. ASSUME NEW l \in launch  PROVE l \in LoopIds
      BY DEF IndInv, TypeOK
    <2>2. ASSUME NEW p \in Pools,
                 \/ SyncApply(p) \/ SyncReturn(p) \/ ReloadReturn(p) \/ StopSnapshot(p) \/ StopReturn(p)
                 \/ \E l \in ctlWait[p] : ReloadOldStopped(p, l)
          PROVE  SwapInd'
      BY <2>2, QuietSwap, SyncApplySwap, OldStoppedSwap, ReloadReturnSwap
    <2>3. ASSUME NEW l \in LoopIds, LoopStop(l)
          PROVE  SwapInd'
      BY <2>3, LoopParts, QuietSwap
    <2>. QED  BY <1>2, <2>1, <2>2, <2>3, RunSwap DEF Internal
  <1>3. CASE UNCHANGED vars
    BY <1>3 DEF vars, poolVars, loopVars, syncVars, ctlVars, SwapInd, Swapped, WaitedExist
  <1>. QED  BY <1>1, <1>2, <1>3 DEF Next

\* The safety half of CallsReturn: no interleaving of Sync, reload, stop and the
\* loops reaches a state in which a caller waits for a loop that nobody runs.
THEOREM WaitedLoopsAreRun == Spec => []WaitsEnd
  <1>1. Init => SwapInd
    BY DEF Init, SwapInd, Swapped, WaitedExist, LoopIds
  <1>2. IndInv /\ SwapInd /\ [Next]_vars => SwapInd'
    BY NextSwap
  <1>3. IndInv /\ SwapInd => WaitsEnd
    BY SwapWaitsEnd
  <1>. QED  BY <1>1, <1>2, <1>3, Invariance, PTL DEF Spec

=============================================================================
