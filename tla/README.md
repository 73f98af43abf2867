# A TLA+ verification project for Parca

Parca is a continuous-profiling server: it scrapes pprof profiles from targets (or receives
them from agents), stores them in a columnar database, keeps debug information for the binaries
the profiles came from, symbolizes addresses with it, and answers queries. This directory holds
TLA+ modules for the parts of the server whose correctness depends on the order in which
goroutines, RPCs and configuration changes happen, and for the two parts of the web UI that are
hard to test, the generated protocol client and the state of the query page; TLC configurations that check them on small
instances, and proofs that TLAPS checks for every instance. `PROJECT.json` ties definitions to
source lines, runs to properties, properties to mutants, and hazards to the properties that cover
them. Paths below are relative to the repository's root.

Run a check with `tlc -config MCScrapePool.cfg MCScrapePool`, the proofs with
`tlapm ScrapePoolProofs.tla` and `tlapm DebuginfoStoreProofs.tla`.

## Inventory

| Component | State it keeps | Operations | What is hard | Correct means |
|---|---|---|---|---|
| Scrape pools, `pkg/scrape/scrape.go` | `activeTargets`, `droppedTargets`, `loops`, `config`, `client`; the contexts of the pool and of each loop | `newScrapePool`, `Sync`/`sync`, `reload`, `stop`, `scrapeLoop.run`, `scrapeLoop.stop` | `sp.mtx` is released while loops are waited for; `reload` counts a swap as done before it has run the new loop; targets flap | one scrape per target at a time, no loop lost, both maps agree, every call returns |
| Scrape loops, the same file | a shared pool of buffers; `health`, `lastError`, `lastScrape` of the target | an iteration of `run`, `processScrapeResp` | a buffer is owned by whoever took it last; `Put` is deferred and also explicit | a buffer has one user; a profile is stored under its own labels |
| Scrape targets, `pkg/scrape/target.go` | `Params` of the job, shared by its targets | `targetsFromGroup`, `populateLabels`, `URL`, `hash`, `offset` | maps are shared between targets and successive calls; map order is random | unchanged groups give unchanged identities; every target asks for its own seconds |
| Scrape manager, `pkg/scrape/manager.go` | `scrapeConfigs`, `scrapePools`, `targetSets`, `triggerReload`, `graceShut` | `Run`, `reloader`, `reload`, `ApplyConfig`, `Stop` | pools are synced after the lock is released; a pool may be deleted, and another made for its job, meanwhile | the contract of the pools is kept, target sets are not lost, the mutex is released |
| Service discovery (Prometheus library), used in `pkg/parca/parca.go` | target groups per job | `ApplyConfig`, `SyncCh` | it is reconfigured before the manager is | - |
| Debuginfo store, `pkg/debuginfo/store.go`, `metadata.go`, `client.go` | per build ID and type a metadata object and a file, in an object store without transactions | `ShouldInitiateUpload`, `InitiateUpload`, `Upload`, `MarkUploadFinished`; `SetQuality`, `MarkAs...` | every operation is read, decide, write; clients disappear; uploads get stale | a record never mixes uploads; "uploaded" means stored; no build ID is blocked for ever |
| Debuginfod clients, `pkg/debuginfo/debuginfod.go` | caches over HTTP clients, tried in parallel | `Exists`, `Get` | cancellation of the clients that lost, negative answers | an answer is that of some upstream |
| Symbolizer, `pkg/symbolizer/symbolizer.go`, `cache.go` | files in `tmpDir`, a cache of lines | `Symbolize`, `getDebuginfo` | queries overlap with each other and with uploads | the quality recorded is that of a file that was there |
| Configuration reloader, `pkg/config/reloader.go` | `triggerReload`, the file watch, two gauges | `watchFile`, `reloadFile`, `Run` | the file is replaced while a reload is in progress; a component fails half way | no change is lost; success means agreement |
| Start and shutdown, `pkg/parca/parca.go` | the run group | interrupts, `server.Shutdown`, closing the column store | which context is cancelled already when another actor is interrupted | writers are gone before the store is closed |
| Caches, `pkg/cache` | LRU list, expiry, calls in flight | `Add`, `Get`, `Remove`, `Load` | `Get` changes the LRU list under a read lock | list and index agree; a value is loaded once |
| Profile store and ingester, `pkg/profilestore`, `pkg/ingester` | agents, stream state of `Write` | `WriteRaw`, `Write`, `WriteArrow`, `Agents` | `Write` asks the client for stacktraces half way | samples refer to stacktraces that were sent |
| Normalizer, query, flame graphs, encoding | none | conversions | data structures, not order | see the plan |
| UI: client messages, `ui/packages/shared/client/src` | none | `create`, `internalBinaryRead`, `internalBinaryWrite` of 186 messages | three descriptions of each message (interface, reader, writer) that must agree; other encoders, other versions, messages in parts | a reader gets what was written, and a value of the interface |
| UI: query page, `ui/packages/shared/profile/src` | the URL with its history; drafts of expression, time range and sumBy in `useQueryState`/`useSumBy`; the expression in `ProfileSelector`; `autoQuery` in the store; timers | edits, Search, clicks into the metrics graph and the flame graph, filters, back/forward, reload | several components follow the URL independently, effects write to it, closures hold old values, answers arrive late | what is shown is what Search commits; history is not rewritten; the zoom belongs to the flame graph; the page comes to rest |
| UI: parser, rendering | text, none | parsing, drawing | - | not modelled |
| ClickHouse backend, server, prober, ELF/DWARF, demangling, signed URLs, generated Go code | - | I/O, wiring, parsing, rendering | - | not modelled |

Components interact like this. Discovery sends target sets to `Manager.Run`; `reloader` turns them
into `Sync` calls on pools; pools own loops; loops write to the profile store. The configuration
reloader calls discovery's `ApplyConfig` and then the manager's. Agents upload debuginfo to the
store; the symbolizer, on behalf of queries, reads the same metadata and files and writes a verdict
about them into the same records. The UI talks to the query and other services with the generated
client; its query page keeps everything that can be shared in the URL.

## Modules

| Module | Models | Extends |
|---|---|---|
| `ScrapePool` | pools and the life of their loops | - |
| `ScrapeHandover` | abstract: what a pool promises about a target | - |
| `ScrapePoolProofs` | theorems about `ScrapePool`, refinement of `ScrapeHandover` | `ScrapePool` |
| `ScrapeManager` | the manager's four goroutines over the pools | `ScrapePool` |
| `ScrapeManagerProofs` | theorems about `ScrapeManager` | `ScrapeManager`, `ScrapePoolProofs` |
| `ScrapeLoop` | one iteration of `run` and the buffers | - |
| `ScrapeLoopProofs` | theorems about `ScrapeLoop` | `ScrapeLoop` |
| `ScrapeTargets` | `targetsFromGroup` and the identity of targets | - |
| `ScrapeTargetsProofs` | theorems about `ScrapeTargets` | `ScrapeTargets` |
| `DebuginfoStore` | store and metadata of one build ID, its clients | - |
| `DebuginfoStoreProofs` | theorems about `DebuginfoStore` | `DebuginfoStore` |
| `Symbolizer` | `getDebuginfo` on top of the store | `DebuginfoStore` |
| `SymbolizerProofs` | theorems about `Symbolizer` | `Symbolizer`, `DebuginfoStoreProofs` |
| `ConfigReloader` | watcher, trigger channel and `Run` | - |
| `ConfigReloaderProofs` | theorems about `ConfigReloader` | `ConfigReloader` |
| `WireFormat` | what generated readers and writers do with a list of fields | - |
| `TimeMessages`, `QueryMessages`, `MetastoreMessages`, `ProfilestoreMessages`, `DebuginfoMessages`, `ScrapeMessages`, `ShareMessages`, `TelemetryMessages`, `OtelMessages`, `PprofMessages`, `HttpMessages`, `HealthMessages`, `DescriptorMessages` | interface and fields of each generated message | `WireFormat` |
| `ClientMessages` | the tables of all of them | the above |
| `ClientWire` | messages written, passed on and read | `ClientMessages` |
| `Explorer` | the query page with one profile | - |
| `ExplorerProofs` | theorems about `Explorer` | `Explorer` |
| `MC...` | instances for TLC | the module named |

### ScrapePool

A critical section under `sp.mtx` is one action; between two of them anything may happen. `Sync` is
`SyncBuild` (relabelling, lines 226-254), `SyncApply` (the second critical section, which starts
loops for new targets and takes gone ones out of both maps) and `SyncReturn` (the wait). `reload` is
`Reload` (swap a new loop in for every loop), per target `ReloadOldStopped` (the old one has
terminated, `wg.Done()`) and `ReloadLaunch` (`go newLoop.run`, which comes after `wg.Done()`), and
`ReloadReturn`. `stop` is `StopCancel`, `StopSnapshot`, `StopReturn`. `LoopStop` is the `l.stop()` of
a waiting goroutine; the `Run...` actions are the control points of `scrapeLoop.run`. The i-th loop
a pool makes for a target is `<<p, t, i>>`; `loops` holds the current number, `gen` how many there
were. A target stands for its hash; relabelling is the constant `Kept`. `loopOpts` is the configuration that
the interval, timeout and HTTP client of a loop come from; its `NormalizedAddresses` are not modelled, since
the closure `newLoop` keeps those of the pool's creation (`scrape.go` 120). The callers of `Sync` and of
`reload`/`stop` are the environment: one of each kind at a time, which is what the manager
guarantees (`CallersNeverOverlap`).

`ScrapeHandover` is the promise without maps, goroutines and contexts: the loops of a target are
numbered, a loop may `Begin` to work only when all earlier ones have retired for good, and a loop
retires when it is not working. The refinement mapping takes a loop that fetches or writes for busy and
one that has closed `sl.stopped` for retired; the property `HandsOverTargets` is this specification. In a
pool that was stopped, a loop can be started while an earlier one is still ending: it never works, so the
promise holds all the same.

### ScrapeManager

`Run`, `reloader`, the caller of `ApplyConfig` and the caller of `Stop` have a program counter each.
`mtxScrape` is a variable because three of them hold it across steps. `triggerReload` is a channel
with room for one token. `ApplyDiscovery` is the `scrape_sd` reloader that runs before the manager's
(`parca.go` 577-590). A pool object is one of `Pools`; a deleted pool is never used again for a new
`newScrapePool`, so a job that comes back gets another object, and loops of both can exist.
`ApplyReloadPool` may also reload a job that did not change in the file: for a job with `params`, building targets
has added to the params of `sp.config`, and `reflect.DeepEqual` (`manager.go` 318) finds a difference.

### ScrapeLoop

The pool of buffers is external (Prometheus's `util/pool`, over `sync.Pool`): `Get` returns any
slice that was put or makes one, `Put` believes its caller. A profile is the target it came from.
`FilterPut` is the `Put` of line 642, `ProcessOk` and `ProcessFailed` include the deferred one of
line 577.

### ScrapeTargets

One endpoint and a set of profile types, visited in any order. `params` is the list of values of the
query parameter `seconds`; with `Shared` it is the map in the scrape configuration itself, to which
`params.Add` (line 396) appends, and whose first value `populateLabels` turns into a label.

### DebuginfoStore

An access to the object store is a step. `pending[g]` is the record that goroutine `g` has read or
prepared and not yet written. `Reason` is the whole decision of `ShouldInitiateUpload`; the build ID
is asked for at debuginfod the first time only. `age` counts ticks since an upload began; it is stale
after `StaleAfter`. `GiveUp` is a client, connection or object store that fails at any point. A file
stands for its hash. `signed` says which of the two ways of sending a file the server is configured
for; it does not change.

### Symbolizer

The store's `Setters` are the symbolizer's goroutines. `tmp` is the file at `tmpDir/buildID`: once
renamed there it is used by every later call. `Kind` is the verdict of the ELF reader about a file;
the liners work on an open file and are one step.

### ConfigReloader

The file and fsnotify are external. A watch belongs to the file that was there when it was added, links
followed, and reports what happens to that file: a write or a change of its mode, and as the last event that it was
deleted (`ReplaceFile`, with or without a successor) or moved away (`MoveFile`). When the name is linked to another
file (`RelinkFile`) it reports nothing and stays on the old one, until that one is written, deleted or moved
(`OldFile`); the test of the reloader relies on its deletion (`reloader_test.go` 203-217). `watch` says which of
these the watch is on. `watchFile` acts on `remove` and `write` and ignores the rest (`WatchEvent`), and it returns
when it cannot add the watch again (`WatchError`), always if there is no file. Links go to a new file each
time; a link that is changed back is not modelled. `Reloader` calls the components one after
the other; an error of one does not stop the others.

### WireFormat, the message modules and ClientWire

protobuf-ts generates three things from a message: an interface, a `create`/`internalBinaryRead` and
an `internalBinaryWrite`. A message module has two definitions for each message: `M`, the properties
of the interface, and `M_Type`, the fields as the class `M$Type` reads and writes them, with number,
wire type and presence rule (`Implicit`: left out when default; `Explicit`; `Submessage`; `Repeated`,
`Packed`, `Unpacked`; `Map`; `Oneof`). `WireFormat` has the code that all classes share: what a
writer puts on the wire for such a field and how a reader takes it off, written once after the
classes of `query.ts` and `metastore.ts` that show each rule. A number or string is a small number with
0 as its default; bytes are not modelled. Of `Timestamp` and `Duration` the conversions to JSON and
`Date` are left out.

`ClientWire` sends one or two parts (protobuf allows a message to arrive in parts that are merged), by
this client or by an encoder that uses the other freedoms of the format, lets a program that lacks
some fields pass a message on, and reads it. The reference is `Merged`, which never looks at an
encoding.

### Explorer

`url` is the current entry of `hist`, as nuqs keeps it; updates in quick succession form one entry, a
new one if any of them pushes. `draft` is the draft state of the selector's `useQueryState`; the
explorer's own instance of the hook is never edited, so its drafts are what it last saw in the URL
(`OuterDraft`). `shown` is `queryExpressionString` of `ProfileSelector`. React runs the effects of a
render before the next event: `Render` is one step that computes everything the render and its effects
compute, from the values of that render (`seen` is the URL of the one before), and it is repeated until
nothing changes. `resets` counts the timers of `resetFlameGraphState`. A zoom path records which
flame graph it was made in, so that a stale one can be told. An expression is a type and the content
of its braces. The server answers each label query at some time, or the query fails.

Assumed: the user is slower than a timer of zero delay and than the queue of nuqs; so is the server
than such a timer; the request for profile types does not fail for good; nothing is injected by an
embedding application (`externalProfilerComponent`). Compare mode is not modelled.

Building the model showed four cases in which the page does not keep its promises. `met` records that
a behaviour has run into one, and the properties are stated for the others:

- `"label"`: a click on a label in the metrics graph whose query is the one in the URL already commits
  it, but nothing makes `ProfileSelector` show it (`MetricsGraphSection.tsx` 117-121).
- `"blank"`: going back to an entry without a query, the automatic selection sets the type on the
  draft of the query that was left (`useQueryState.ts` 461-472, `useAutoQuerySelector.ts` 150-205).
- `"sum"`: going to an entry of another type with the same `sum_by` keeps a pending choice of a label
  of the old type, because the draft follows `sum_by` only (`useQueryState.ts` 239-241). Likewise the
  automatic query commits the drafts of its render, with a `sumBy` that the URL has lost in the
  meantime. Both end up in a URL, so unlike the others this one is not undone by loading the page again.
- `"auto"`: going back while the automatic query waits for label names leaves `autoQuery` set, and a
  page without a query stays as it is (`useAutoQuerySelector.ts` 158-161).

## Runs

| Run | Checks | Shows |
|---|---|---|
| `scrape_pool` | 5 invariants, 1 action property, 1 liveness property, 1 refinement | Two concurrent callers in any order: scrapes of a target exclude each other and are handed over, no loop is lost, the calls return |
| `scrape_manager` | 5 invariants, 2 liveness properties | Updates, reloads (so a job can go and come back) and Stop against unlocked syncs: the contract of the pools is kept, target sets arrive, the mutex is released |
| `scrape_loop` | 3 invariants | Ownership of buffers and of series |
| `debuginfo_store` | 4 invariants | Overlapping read-modify-write cycles of two clients and a setter, gRPC and signed URLs |
| `symbolizer` | 3 invariants, 2 liveness properties | Queries against uploads, failures, staleness |
| `config_reloader` | 2 invariants, 1 liveness property | Changes during reloads; files replaced, linked elsewhere, moved and removed; failing components |
| `ui_wire` | 3 invariants | Every message of the client, in every encoding, in parts, and through an older program |
| `ui_explorer` | 6 invariants, 1 liveness property | Any three events of the user with late and failing answers |

Four runs expect a violation; each states what a comment of the code says:

- `scrape_manager_after_stop`: "Stop ... blocks until all have exited" (`manager.go` 249). A
  `reloader` that has taken its token before `Stop` takes the mutex goes on after `Stop` has returned: `Stop`
  found no pool, `reload()` creates one without looking at `graceShut`, and its loop begins to scrape.
- `scrape_loop_keep`: the labels "identify the corresponding profile". With `keep_sample_type` a
  buffer is put back twice, and two loops of the job may come to share it.
- `scrape_targets_params`: "we default to ScrapeInterval" (`target.go` 391). In a job with `params`
  the seconds of one profile type leak into the targets of others.
- `symbolizer_reupload`: "it would result in the same invalid debuginfos" (`store.go` 127). A valid
  file uploaded in place of an invalid one is judged by the old copy in `tmpDir`, and then refused.

Hazards that no run covers are in `PROJECT.json` with the reason. Among them: `reload` does not
replace the closure `sp.newLoop`, so `normalized_addresses` stays as it was (`scrape.go` 120); a
first target set that overtakes `ApplyConfig` is dropped (`manager.go` 211); source maps share the
metadata object of debuginfo (`metadata.go` 171); `watchFile` returns for good if the file is
missing at the moment it is watched again (`reloader.go` 110). `NewestConfigIsApplied` is about the time during
which it runs, and excepts the two changes it does not notice: a link changed while the old target exists, and a
file moved away, after which nothing is watched.

### Bounds, and why they are enough

- `MaxLoops = 4` (5 in `scrape_manager`): loops per pool and target. Three are the most that exist together without one
  having terminated (one that `sync` waits for, one that `reload` waits for, one swapped in), and a
  `reload` leaves one for a `Sync` under way. One target: loops of different targets share nothing but
  the goroutines that wait for them. The proofs have no such restriction.
- `scrape_manager`: two pool objects, and two events in all among updates of the target set,
  `ApplyConfig`s and `Stop`: the least that lets a job be removed and added again, or an update, a
  reload or `Stop` fall into a sync that is under way. The loops of both pools of a job can then
  exist together. `StartConfigs` saves the mirror image. The goroutines end after `Stop`, so deadlock is not
  checked. Liveness is what keeps the bound small: the five invariants alone, with `MaxEvents = 3` and no
  `PROPERTIES`, were checked over 2.0 million states.
- `scrape_loop`: three loops and three slices, so that a third loop can take what two others share.
  Slices that failed scrapes drop are not made again; the bound on them ends a behaviour, which is
  why deadlock is not checked.
- `scrape_targets_params`: every assignment of delta and seconds to two types, three `Sync`s. Jobs
  without `params`, whose targets share no map, are covered by `ScrapeTargetsProofs`.
- `debuginfo_store`: two clients and a setter, two upload IDs, one failure: a replaced upload needs
  two, and three-way overlaps are between the setter and both clients. `symbolizer`: one client, two
  queries (so that they overwrite each other's verdict), two uploads, one failure. In both, clients
  run out of IDs, so deadlock is not checked.
- `config_reloader`: four changes, so that two can fall into one reload, or a link be changed, its old target
  deleted and the new file written; a reloader without changes
  waits, so deadlock is not checked.
- `ui_wire`: for every message the empty value, every field set in each way it can be set (default
  and other elements, lists of two, maps with the default key), all fields at once, nested three deep;
  two parts, since merging is associative; programs that lack one field or all.
- `ui_explorer`: two delta types with different labels and one that is no delta, an empty page and a
  link without `sum_by`, two time ranges, one filter. Three events, on top of what the page does by
  itself, reach each of the four cases above (edit, commit, go back); with nine events, 29 million
  states of random behaviours showed nothing else. The user may stop, so deadlock is not checked.

### Fairness

Go schedules every runnable goroutine, so the steps of loops, of `sync`, `reload` and `stop`, of the
manager's goroutines and of the two goroutines of the configuration reloader are weakly fair. A scrape
and a write have a timeout (`run` 526 and 534), so a busy loop ends. `sync.Mutex` does not starve a
waiter, and the bounds make contention finite, so weak fairness is enough for `mtxScrape`. In the
symbolizer run, queries keep coming, clients keep trying without `Force`, and time passes. Nothing
that comes from outside is fair: calls of `Sync`, `reload` and `stop`, changes of files, failures,
forced uploads. In the UI, renders, the queue of nuqs and timers are fair because the browser runs them,
answers because gRPC-web calls end and failed ones are given up after some retries; the user is not.

## Proofs

### The pools

`ScrapePoolProofs` proves, for every set of pools, targets and configurations, every `Kept` and every
`MaxLoops`, from `PoolAssumption` only:

- `TypeCorrect`, `TargetsMatchLoops`, `ScrapesExclude`, `LoopsAccountedFor`, `LoopsConfigured`: the
  five invariants of `scrape_pool`. `LoopsConfigured` is about interval, timeout and client, no other option;
- `LoopsRunOnce`: the action property that a stopped loop is never run again;
- `PoolHandsOverTargets`: the pool implements `ScrapeHandover`. Initial states map to the initial state;
  every step maps to `Begin`, `End` or `Retire` of one loop or changes neither set. The step with
  substance is a loop that begins to scrape: `Handover` gives that all earlier ones have terminated.

They follow from `Invariance: Spec => []IndInv`. `AtMostOneScrape` is not inductive: whether a new
loop may start depends on what is known of the old ones. `IndInv` therefore adds

- `LoopNumbering`: the loop in the map is the latest; exactly the loops up to `gen` exist;
- `Waiting`: who waits for loops of which pool, in which phase;
- `Reloading`: while `reload` waits for a loop, its successor is created, is the latest and is not
  run; so `sync`, which may take the successor out of the map in the meantime, cannot start a third;
- `Launching`: a loop that is about to be run has no live predecessor unless the pool was stopped;
- `Handover`: neither has a loop that was run. In a pool that was stopped a loop can be started while
  an older one is still ending; it never gets to scrape, since its context is cancelled. This is why
  `Busy` and "was run" are separate, and why `stop` cancels first.

Each action has its lemma. The one with substance is `SyncApplyInd`: `NewTargetNotReloading` and
`NewTargetIsFree` show that a target without a loop in the map has no live loop but those that
`reload` or `stop` waits for, and that there are none of these either unless the pool is cancelled.

`WaitedLoopsAreRun` is the safety half of `CallsReturn`. `stop()` of a loop blocks until `run` closes
`stopped`, so waiting for a loop that nobody runs would block for ever, and under the manager keep
`mtxScrape`. A loop that was swapped in by `reload` is not run until its predecessor has ended, and `Sync`
or `stop` may wait for it in the meantime. `WaitsEnd` says that then the predecessor is run and `reload` still
waits for it. `SwapInd` is what has to be added to `IndInv`: a loop that is created and not run is about to
be run or is the successor of one that `reload` waits for (`Swapped`), and nobody waits for a loop that
does not exist (`WaitedExist`).

### The debuginfo store

`DebuginfoStoreProofs` proves `TypeCorrect`, `RecordsOfOneUpload` (`RecordsAreWhole`), `UploadedIsStored`
(`UploadedMeansStored`) and `NoInconsistency` (`MetadataIsConsistent`) for every set of clients, setters,
files and types, from `StoreAssumption` and `NoMetaAssumption`. The run has one type; the theorems
include types that share a metadata object, as debuginfo and source maps do.

None of the three is inductive. A goroutine writes what it read some time ago, so `IndInv` speaks of the
records that are held (`PendingGood`) as well as of those that are stored (`MetaGood`), and `GoodRecord`
says only what stays true while a record is held (`GoodForever`): the upload it names was issued for its
type and hash, and if it says uploaded the file of that upload was stored. `ClientsGood` adds that a
client has the ID that was issued for its file, holds a record when it is about to write, and has stored
its file when it is finishing; `StoredGood` that a file once stored may be overwritten but is there.
`UploadedMeansStored` then follows for the current type through the request of the upload.

`BuildIdIsNotBlocked` is the safety half of `DebuginfosBecomeAvailable`. A client may vanish at any point and may
overwrite the record of another; whatever is left says that the debuginfos are there, is accepted from any
client without `Force`, or is an upload that was issued and is not stale yet. It rests on `GoodRecord`: a record
of an upload has an ID whose time is counted. `QueriesBlockNobody` carries it over to the symbolizer.

### The manager

`ScrapeManagerProofs` proves the five invariants of `scrape_manager` for every set of jobs, pools, targets and
configurations, any assignment of pools to jobs and any number of events, from `PoolAssumption` and
`ManagerAssumption`. It builds on the pools twice. `ManagerDrivesPools: ManagerSpec => Spec` says that the
manager keeps the contract `ScrapePool` assumes of its callers, so all theorems about the pools hold
under the manager. And the pools' `IndInv` is a conjunct of the manager's invariant `MgrInd`, because
`OneScrapePerJobTarget` needs more than the pools promise: with two pool objects of one job, one must be
empty when the other begins. That is not inductive, and not even true of the maps alone: loops of a
deleted pool may be running. `MgrInd` adds

- `LockHolders`, `Visiting`: who holds `mtxScrape` and what it still has to visit;
- `PoolMap`, `StoppedPools`: a pool that left the map was stopped, and only `ApplyConfig` and `Stop` do so;
- `ReloadedPools`: the pools that a running `reload()` took are of different jobs, and each stays the pool of
  its job until it is deleted. `reload()` syncs without the mutex, but it is the only one that creates
  pools, and it waits for its syncs; so no second pool of a job is created while one is being synced;
- `CallersInside`: a goroutine is inside a pool only for its caller;
- `CancelledLoopsIdle`: a loop that `Sync` or `reload` enters into the map of a pool after `stop` has emptied it
  never scrapes. This is what `DeletedPoolIsDraining` rests on.

`ManagerTypeOK` contains more than types: `Sync` is called with the groups of a job that has some.

`ManagerHandsOverTargets` and `ManagerWaitsEnd` carry the refinement and the waits of the pools over with
`ManagerDrivesPools`. `ManagerSettles` is about the manager itself, the safety half of
`TargetSetsReachPools`: when `Run`, the reloader, `ApplyConfig` and `Stop` have nothing to do, no token is in
the channel and discovery has no news (`AtRest`), every pool in use is that of a configured job, has the job's
configuration, and has exactly the targets that discovery found last. The channel holds one token and a
tick may consume it at any time, so an update could be lost in many places. The invariant `NewsInd` says
where it is instead:

- `NewsTaken`: what discovery has sent is in `Run`'s hands or in `targetSets`;
- `TargetsNotified`: a set in `targetSets` was given to the pool of its job, or `Run` is about to put a token,
  the token is there, or `reload()` has yet to visit the job. "Given" includes a `Sync` that has not applied it yet;
- `DiscoveryConfigured`, `PoolsConfigured`: jobs and pools have the newest configuration except those that
  `ApplyConfig`, which discovery is ahead of, has not visited.

`SettledPools` says nothing of a configured job without a pool: a job that comes back before discovery
reports on it can be left without one (`manager.go` 211, listed as a hazard). It speaks of the union of active
and dropped targets, since news of the new configuration may be synced before `ApplyConfig` gets the mutex,
and `reload` of the pool does not relabel. `NewsInd` was checked by TLC with two and with three events
before it was proved.

### The scrape targets

`ScrapeTargetsProofs` is about the jobs that `scrape_targets_params` leaves out, those without `params`, for every
set of profile types, values of seconds and number of syncs. `OwnParamsDefault` proves
`DefaultsToScrapeInterval`, which the run violates for jobs with `params`, so the shared map is the only cause.
`OwnParamsKeepLoops` proves that a repeated `Sync` starts and stops no loop; with `params` this fails as well.
`OwnInd` needs that `params` stays empty, that what was built are the targets of the types visited so far,
and that after each call the identities are those of all types.

### The scrape loops

`ScrapeLoopProofs` proves `TypeOK`, `BuffersAreNotShared` and, under `KeepAlone`, `SeriesMatchLabels` for any number
of loops and slices, from `LoopAssumption` only. `KeepAlone` is the constant of the runs: without it
`scrape_loop_keep` violates the property, so the hypothesis cannot be dropped. A slice has one owner,
the loop that took it or the pool, which has it once (`Owned`); what a loop has read is of its own target
(`Right`). Both depend on `Shape`, what a loop has at each point of `run`. `BuffersAreNotShared` is about targets
that keep all sample types, and `Right` is proved in two ways: from `Owned`, and for a loop that is alone.

### The symbolizer

`SymbolizerProofs` proves `SymTypeOK`, `QualityWasObserved` and `OpensAnUploadedFile` for any number of clients,
queries, files and uploads, on top of the invariant of `DebuginfoStoreProofs`, from `SymbolizerAssumption` and
the assumptions of the store. The symbolizer's steps are steps of the store's setters or touch only `sym` and
`tmp`. The argument is monotone: a file that was there to be fetched stays one (`AvailableGrows`), although its
object may be overwritten. So what the object store, `tmpDir` (`TmpGood`) or a goroutine (`GoodSym`) has is one
of them, and a quality that is written was the verdict about one. That it is *the current* file is false, as
`symbolizer_reupload` shows.

`QueriesAreNotStuck` is the safety half of `UploadsAreAssessed`: a query that has begun finds a file when it
fetches, one in `tmpDir` when it opens, and a record when it sets the quality, so only a failure keeps it
from a verdict. The file follows from `SymInd`: the record that was read names a stored upload, and a stored
object is overwritten but not removed. For the record `SymHeld` is added: metadata that was there stays there
(every write stores a record, which for clients is `ClientGood`), and a goroutine holds a record exactly
between the two halves of `SetQuality`.

### The configuration reloader

`ConfigReloaderProofs` proves `TypeOK`, `SuccessMeansAgreement` and `NoChangeIsLost` for any number of components and
changes, and any set of components that may fail, from `ReloaderAssumption`. `QuietMeansNewest`, which
`NoChangeIsLost` states, is the safety half of `NewestConfigIsApplied`: whenever watcher and `Run` are both waiting
with nothing to wait for, a deleted file is watched again, and if the watch is on the file of that name, the
components that cannot fail run with what is in it. A watch left behind by a link, or ended by a move, is excepted:
the code does not notice those changes. It needs
`ChangesNotified` (while the loaded configuration is not the one in the file, an event on which `watchFile` acts,
the goroutine between event and token, the token, or a load that has not begun is there), which needs `Rewatched`
(after a deletion the event that adds the watch again is queued or being handled), and `AppliedGood`
for the components before `next`. That such a state is reached is liveness and left to TLC.

### The query page

`ExplorerProofs` proves all six invariants of `ui_explorer` for every set of types, labels, matchers, time
ranges and binaries, every set of links that a page wrote, and any number of events, from
`ExplorerAssumption`. The invariant `PageInd` was checked by TLC with three events and along random
behaviours with nine before it was proved. It adds to the properties

- `HistoryFits`: all entries have what the current one is to have, since the user can go to any of them. Only the
  zoom path of the current one may wait for its timer;
- `AtRest`: once a render changes nothing, the URL is the one of the last render and neither automatic effect
  is due. Events start from there;
- `ZoomIsPending`: a stale zoom path has a timer; and on an entry that nuqs has written, no automatic query is
  due before it fires. Otherwise that query would push a new entry and leave the stale path in the history;
- `SelectorFollows`: while the URL's expression is the one of the last render, selector and drafts hold the same
  type, and the same query unless `"blank"` or `"label"` was met. When it has changed, both are about to follow;
- `VisitIsComplete`: an entry the user went to has a type and its `sum_by` is not computed any more, so no effect
  has anything to add. This is where `HistoryIsNotRewritten` comes from;
- `SumByFollows`: the draft's `sumBy` is of the draft's type or is what the URL had.

The proof attempt corrected the model. `SumByIsOfTheType` was stated with `met` emptied by `Reload`, and
with `"sum"` raised only for a pending choice. It held for three events, but is not inductive for a good
reason: a wrong label stays in the URL and in the history across a reload, and the automatic query may
commit a draft that the URL has moved away from. Neither shows with the three events of the run.

`PageRestsWithQuery` is the safety half of `PageComesToRest`: a page that has nothing to render or write, no
timer, and all answers (`Settled`) has a query in its URL unless `"auto"` was met. It needs `AutoFollows`:
the flag of the automatic query is set exactly while the selector has chosen a type that the URL lacks.
Then a page at rest without a query would have to select a type or commit one, and `AtRest` says it does neither.

### What is only model-checked

- Liveness (`PageComesToRest`, `NewestConfigIsApplied`, and those of the pools, the manager and the
  symbolizer): it rests on fairness, which TLAPS does not handle here. What is proved is that a state in
  which nothing moves is a good one (`NoChangeIsLost`, `ManagerSettles`, `PageRestsWithQuery`), and that what is waited
  for is on its way (`WaitedLoopsAreRun`, `ManagerWaitsEnd`, `QueriesAreNotStuck`, `BuildIdIsNotBlocked`); that the
  state is reached is TLC's.
- The wire format (`ReadConformsToInterface`, `PartsAreMerged`, `OlderProgramKeepsFields`): readers and writers are
  recursive operators over nested messages, and what they compute for every message is an induction
  over data.
- The four runs that expect a violation show behaviours, not invariants. `ScrapeTargets` has no passing run;
  what holds of it is proved. The invariants of the proofs (`IndInv`, `MgrInd`, `SwapInd`, `NewsInd`, `AutoFollows`,
  `SymHeld`, `OwnInd`) were checked by TLC on the instances of the runs before they were proved.

## Not modelled

- Compare mode of the UI, the sandwich, table and source views, dashboards, and defaults injected by an
  embedding application. The compare mode duplicates the hooks of the query page; both selectors set up
  the parameters of side B (`useAutoQuerySelector.ts` 86-137), which is listed as a hazard.
- The parser of the query language, the text form of filters, drawing and formatting: text and pixels.
- The protobuf runtime (JSON, reflection, transport) and generated Go code.
- Start and shutdown, the caches, the profile store, normalizer, queries, flame graphs, encoders, ClickHouse,
  ELF/DWARF: see the plan for those that would be worth it.

## Plan

1. *Shutdown* (`parca.go` 598-748): run group, order of interrupts, the context passed to
   `server.Shutdown`, closing of the store; composed with `Stop`.
2. *Caches* (`pkg/cache`): LRU list and index with concurrent `Get`, expiry, single flight against a
   reference map; then the debuginfod client stack on top of them.
3. *Compare mode*: a second selector in `Explorer`, with the set-up effects of both.
4. *Profile store*: the two-phase `Write` stream.
5. *Proofs*: the liveness properties themselves, and the wire format by induction over messages; both need
   a prover with more than the backends used here. Every liveness property has its safety half proved.
6. *Algorithms*: `Target.offset`, validation of raw profiles, varint encoding, trimming of flame graphs, each
   against a reference definition.
