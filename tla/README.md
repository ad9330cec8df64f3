# Verification of pydocs-mcp: the refresh loop, its caches and its bundle

pydocs-mcp indexes a Python project and its dependencies into one SQLite bundle
with a vector sidecar, and serves searches over it to coding agents. The parts
that rank and render are functions of the bundle. The parts that keep the bundle
true while people save, commit, check out, push and fetch, and while requests
come and go, are concurrent or can stop half-way, and are what this project
models.

Paths below are relative to `src/python/pydocs_mcp/` in the repository tree.

## 1. Inventory

| part | state it keeps | operations | what makes it correct |
|---|---|---|---|
| index job queue, `serve/index_jobs.py` | pending and parked jobs by key, the running job, lock, two events | submit, drain, wait_idle, cancellation | a request leads to one pass told all that was asked; passes never overlap; no lost wake-up |
| file watcher, `serve/watcher.py` | event queue, burst, trigger tasks, lock, deferred paths | dispatch, debounce, trigger, drain | every edit is covered by a call that starts after it; calls never overlap |
| ref watcher, `serve/ref_watcher.py` | previous snapshot | snapshot, diff, deliver, start report | every move that lasts is reported |
| refresh loop and runner, `serve/refresh_loop.py`, `refresh_jobs.py`, `index_job_runner.py` | none of its own | events to jobs, routing, skip of a served head | at rest the index is what HEAD and the tree are |
| working-tree pass, `application/project_indexer.py`, `branch_manifest.py` | a draft | extract, resolve identity, cache test, write, stamp | a row describes one state of the repository |
| branch rows, `application/branch_membership.py`, `branch_pass.py`, `extraction_cache.py`, `extra_branch_passes.py` | branch rows, membership, chunk rows shared by branches, a cache of extracted files | stamp, working-tree pass, git-objects pass, cache hits, garbage collection | one served checkout; a branch holds its own tree's chunks; no rowid is freed while something names it |
| retirement and merge detection, `application/branch_retirement.py`, `branch_maintenance.py`, `merge_detection.py` | row status and dates | retire, pin, re-activate, purge, recheck | the served row is not purged; a pinned one by hand only, or once its checkout is left; nothing stays behind a purge |
| remote lane, `serve/remote_sync.py` | known heads, offline state and wait, statuses, board, a flag, a lock | check, fetch, fast-forward, requests, signal | a push is indexed unless its pass fails; no commit lost; no checked-out branch moved; the signal is current |
| query embedding cache, `retrieval/_query_cache_core.py`, `query_concurrency.py` | LRU entries, in-flight futures, permits | hit, join, lead, settle, evict, expire | one computation per key; nobody left waiting; fresh answers |
| unit of work, `storage/composite_uow.py`, `turboquant_uow.py`, `fast_plaid_uow.py` | an SQLite transaction and a vector file | begin, merge, commit, rollback, integrity check, `--force` | rows and vectors agree; a package hash stands for its reading |
| schema and migrations, `db.py`, `db_migration_lock.py` | schema stamp, tables | open, upgrade, repair or rebuild under a lock | an open bundle is whole; no open loses rows |
| freshness probe, `application/freshness.py` | a cached answer | probe | stale is said when it is |
| extraction, retrieval, MCP tools, git plumbing, CLI, harness, traces | little or none | pure functions, I/O, rendering | results, not interleavings |

Interaction: both watchers and the remote lane submit `IndexJob`s to one queue.
Its drain loop runs `IndexJobRunner`, which routes a job to a working-tree pass
(the branch HEAD names), a git-objects pass (another branch or a tracked remote
ref) or a maintenance job, or skips it. Everything is one asyncio loop, except
that git, extraction and embedding run on worker threads: between two awaits
other tasks, and in a thread everybody, may move.

Hard behaviour: the repository moves between two reads of one pass or snapshot;
events come in bursts, twice, late or never; jobs merge while their pass runs;
cancellation falls at any await but does not reach a worker thread; the network
fails; a restart forgets the queue; two files commit one after the other; SQLite
gives a freed rowid to another chunk; processes open one bundle at once. Each
place is a hazard in `PROJECT.json`, with the properties that watch it or the
reason none does.

## 2. Modules

| module | models | composes or promises |
|---|---|---|
| `PassRequests` | what the queue promises: the set of outstanding requests of a key, and a pass told what the set asks for | abstract specification |
| `IndexJobQueue` | `IndexJobQueue`: dictionaries, events, lock, drain loops | implements `PassRequests` |
| `ChangeSignal` | what the file watcher promises: unseen changes, calls that cover them | abstract specification |
| `FileWatcher` | `_Handler`, `_consume`, `_run_trigger` | implements `ChangeSignal` |
| `RefreshLoop` | repository, both watchers, routing, passes, branch rows | the queue as `PassRequests` (by the same rules), the file watcher as `ChangeSignal` with one event |
| `RemoteLane` | layers 2 to 4 of the remote lane, the watcher's own job for a remote ref, its pass, a restart | the queue as a set of refs |
| `UpstreamSignal` | layer 1: the behind-upstream signal and its board | the lane's checks as success or failure |
| `QueryCache` | `SingleFlightLRU` under `BoundedQueryEmbedder`, with worker threads | |
| `BundleWrite` | a pass over the dependencies: workers, the chunk merge, the two files and their commits, the integrity check | the pass the queue starts, seen from the disk |
| `BranchStore` | the project's rows: both passes' transactions, membership, the extraction cache, garbage collection, the life cycle of a branch | what `RefreshLoop`'s and `RemoteLane`'s passes write |
| `BundleOpen` | `open_index_database` in several processes | what comes before any pass |
| `IndexJobQueueProofs`, `QueryCacheProofs`, `RemoteLaneProofs`, `UpstreamSignalProofs`, `BundleWriteProofs`, `BranchStoreProofs`, `BundleOpenProofs`, and `RefreshLoopProofs` for the loop and the file watcher | theorems of the nine components | |
| `MC...` | values of the constants for TLC | |

Each module that has them states its mutants, small wrong versions of an action
named for the mistake, next to the action; they are not part of `Next`.
`FileWatcher` names its specification `WatchInit`, `WatchNext`, `WatchSpec` and
`WatchTypeOK`, so that `RefreshLoopProofs` can extend it together with
`RefreshLoop`.

### How state and actions correspond to code

* **IndexJobQueue.** `pending`, `parked`, `running`, `sequence` are the fields of
  the same name, `lock` the holder of `_lock`, `idle` and the workers' `waiting`
  state the two events. `Submit` is `submit` whole: merge into the pending or
  parked job, or a new one with the next number, then both events. `RunNext` is
  `_run_next` up to the pass, `EndPass` its `finally`, `Cancel` a cancellation at
  any await. `asked` is history: the requests a key's next pass owes.
* **FileWatcher.** An event is a number. `queue`, `burst`, `triggers`, `deferred`
  are where its path is; `covered` is history. `RunTrigger` is the lock test, and
  both its outcomes; `OnChangeReturns` is the loop that looks at the deferred
  list again before it lets the lock go. A raised `on_change` is caught by
  `_drain_guarded` and counts as returned.
* **RefreshLoop.** A commit is a number, a content a member of a small set that
  `contentOf` gives each commit. A snapshot is two reads (`ReadHead`,
  `ReadRefs`), a delivery reads the tracked branches and then submits one job per
  step, a checkout writes the files (`Checkout`) and then HEAD (`CheckoutEnds`).
  `setup` says which command runs, what may move before its watchers do, and how
  often the user acts.
  A working-tree pass goes `Begin`, `Route`, `Check`, `Extract`, `ReadName`,
  `ReadSha` (or `ReadFails`: a git command fails), `Write`, `StampMetadata`; a
  git-objects pass `Begin`, `Route`, `ReadBranch`, `WriteBranch`; `Fail` ends one
  anywhere. `lost` names the branches whose pass failed: nothing retries it.
* **RemoteLane.** A commit is how many upstream commits it holds and how many
  local ones on top. `at` is the lane's next step; each git call is a step. The
  compare-and-swap of `UpdateRef` compares the tip with the one the check read.
  `PassReads` is `remote_ref_pass_target`, which spends the job also when the row
  is at that commit already or git fails; `PassEnds` is `run_remote_ref_pass`, whose
  pass writes the row or fails. `missed` is what the failed passes since the last
  restart read: nothing retries them. `missed`, `streak` and `refused` are history.
* **UpstreamSignal.** `refs[b]` is the version of all a branch's status is made
  of. A refresh takes the lock, reads each branch, keeps the statuses, then
  evaluates what to publish and stores it: two steps, because the loop publishes
  without the lock. While the loop publishes, tasks of the loop do not move;
  worker threads do.
* **QueryCache.** `leader`, `future` and `inflight` are the shared future and its
  reservation, `used` the order of the `OrderedDict`, `threads` the worker
  threads, which outlive a cancelled task. `began` and `stampedAt` are
  history.
* **BundleWrite.** A chunk's text stands for its content hash and for its vector;
  `rows` and `file` map rowids to texts. `StartPass` is the integrity check and
  the clearing of the hashes; `Extract` takes a package, `Open` loads the whole
  vector file, `Read` takes the snapshot, `Write` is the merge and every write up
  to the commit, `CommitRows`, `Dump` and `Replace` the two commits, `ClearRows`
  and `ClearFile` those of `--force`. `unit[w].behind` records that the snapshot
  or the loaded file was replaced meanwhile: SQLite then refuses the write, the
  file does not. `torn` and `repaired` are history.
* **BranchStore.** A tree gives each path a blob and a module. `WorkingTreePass`
  is `reindex_package` of the project, one transaction; a git-objects pass is two,
  `ReadHits` (the cache) and `GitObjectsPass` (the swap of membership), because
  git and extraction run between them. `Assignments` is the merge: every pairing
  of chunks and rows it may make. `Collect` is what each transaction that lets
  rows go ends with. The life cycle's actions are the operator's verbs and the
  steps of the maintenance job; `due` is the purge date against now.
* **BundleOpen.** `at[p]` is where the call of process `p` is. The tables are the
  three the paths differ in: a core table the sweeps need, another one, and one
  the sweeps create. `Upgrade` is one transaction; `Wipe`, `Create` and `Stamp`
  are a rebuild, whose script commits before each of its statements; `Exists` is
  the error handler that takes "already exists" for drift.

## 3. Runs

`PROJECT.json` lists each run with the question it answers. What they show:

* **IndexJobQueue.** Two drain loops (the code starts one; its lock exists for a
  second) and four submits from ten kinds of request over two keys: one that
  runs, two that merge while parked, one for the other key. Safety, the
  refinement of `PassRequests` and liveness.
* **FileWatcher.** Five events: a burst, a burst during the call, one more during
  the follow-up. Safety, the refinement of `ChangeSignal` and liveness.
* **Refresh.** Two branches, and the nine situations of `SmallSetups`: under
  `--watch` every three of the user's actions, or two with a failing pass; under
  plain `serve` a failing git command as well, and a tree that moves inside the
  startup pass. Every pair of a move and a step of the watchers, the queue and the
  passes is met with one action of each kind. One checkout and tips that only
  advance, because of the limit below. Safety, and that the index is served when
  the user stops.
* **QueryCache.** Three calls of two keys and one permit: a leader with a
  follower, and a second key that wants the permit. The cache has one entry, so
  the second key evicts the first; time runs to twice the age. Which entry is
  evicted is not checked.
* **RemoteLane.** One tracked branch whose remote-tracking ref begins behind or
  level, so that the one push is the first or the second move. Two failures, of a
  check, of a fast-forward's git calls or of a pass, reach a ceiling that is not a
  doubling of the interval, fail a pass and the fetch after it, or the pass before
  a restart and the one after. One commit, one checkout, one
  fetch of the user's and one restart, at any step of a check.
* **UpstreamSignal.** Two moves over two branches let one fall before, during and
  after a refresh while the other task refreshes too; one unreadable upstream and
  one failed check.
* **BundleWrite.** Two packages and two workers, readings with no, one and two
  equal chunks and one without a vector; edits, two passes and one failure, crash,
  damaged file or forced pass. Two passes are what it takes for a rowid to be
  freed and given again, and for a repair. `StoresAgree` is stated while every
  unit of work got to replace the file by its own version of it.
* **BranchStore.** Two branches, five rowids and three situations: a file with one
  chunk, with two equal ones or in another module; two files of one module; two
  extraction keys. Five rowids let both branches hold the two-chunk file and one
  pass replace one of them, so rows are shared, freed and their ids given again.
* **BundleOpen.** Three processes, one error of the environment and two crashes on
  a bundle of every age: current, each kind of upgrade, new, unknown, damaged, and
  two that lost a core table. Three, so that one waits for the lock while another
  indexes and a third fails.

Bounds are constants: `MaxSubmits`, `MaxEvents`, `MaxTime`, `MaxRowid`, `Bounds`
(a budget per outside event; part of `Setups` in `RefreshLoop`), `Failures`,
`Crashes` and the sizes of the sets. A call of the query cache is made
once.

`CHECK_DEADLOCK FALSE` is set where the modelled system may stop: after shutdown
(queue, file watcher), when every call has ended (query cache), when the user
neither edits nor indexes any more (`BundleWrite`). The other runs check deadlock:
a watcher that polls, a lane that sleeps and checks, a bundle that is opened and
closed go round for ever.

### Fairness

Weak fairness of each task: the event loop runs every runnable task, a timer
fires, a pass, an embedding or a git call returns, and a checkout that wrote its
files moves HEAD. `UpstreamSignal` asks strong fairness of taking the lock and
the flag: `asyncio.Lock` is first come, first served, and the loop's own
publishing ends. Its checks are not fair, because `auto_fetch` is off by
default: only publishing that has begun goes on. Outside events are never fair,
and only finitely many fail. `BundleWrite`, `BranchStore` and `BundleOpen` state
safety only and assume no fairness.

### What the code does otherwise than it says

Three runs are expected to be violated: each contradicts a comment, docstring or
design statement that the finding in `PROJECT.json` quotes.

| run | what happens |
|---|---|
| CheckoutDuringPass | files read before a checkout, HEAD after it: the old content is served under the new head, and the checkout's job is skipped as already served |
| RepairAfterCrash | a crash between the two commits loses vectors; the integrity check sees it and re-extracts every package on every pass, but a row that is there gets no vector again, until `--force` |
| TwoFirstOpens | the rebuild's script commits the transaction that holds the lock; a second process gets in, and its error handler drops what the first has indexed |

More behaviours show up in the same modules when the constants below replace
those of the passing runs; they are not runs of their own.

| case | module, constants, property violated | what happens |
|---|---|---|
| CheckoutAndBack | `RefreshLoop`, plain `serve`, two checkouts and a commit in `Setups`: `HeadIsServed` | HEAD leaves and returns between two snapshots; a probe that finds the index stale enqueues nothing (`application/freshness.py:68`) |
| EditDuringStartup | `RefreshLoop`, a setup with `watch`, `moves` = `{"tree"}` and one save: `EditsAreServed` | a save during the startup pass of `serve --watch` has no event (`serve/refresh_loop.py:138`) |
| BranchMoveDuringStartup | `RefreshLoop`, a setup with `moves` = `{"branches"}` and one advance: `BranchRowsAreCurrent` without its condition on `setup` | a tracked branch that moves before the baseline is in no report (`serve/ref_watcher.py:370`) |
| SameTreeCheckout | `RefreshLoop`, a setup with `watch`, one save, two commits, one advance, one checkout: `EditsAreServed` | a branch fast-forwarded to the saved and committed tree is checked out, changing no file, between a pass's reading of the files and of HEAD: the old content is served under the new head, as in `CheckoutDuringPass`, and the save's own request goes to the branch left behind |
| GitHiccup | `RefreshLoop`, `Setups <- CommitAndHiccup`: `BranchKeepsItsRow` | one failing git command retires the branch's own row |
| CancelledFollower | `QueryCache` as it is run: `ErrorsComeFromTheLeader` | cancelling one follower cancels the future the others share (`retrieval/_query_cache_core.py:75`) |
| AbandonedThread | `QueryCache`, two calls of two keys: `EmbeddingsAreBounded` | cancelling a leader frees its permit while its thread embeds (`retrieval/query_concurrency.py:42`) |
| CheckoutDuringFastForward | `RemoteLane`, `CheckoutsAnyTime = TRUE`: `WorktreeFollowsItsBranch` | a branch checked out after the worktrees were read is moved (`serve/remote_sync.py:337`) |
| OfflineDuringRefresh | `UpstreamSignal` as it is run: `OfflineIsQuiet` | a worker's publish overtakes the offline one, or a return online stores statuses from before a refresh (`serve/remote_sync.py:257`) |
| MoveAtStart | `UpstreamSignal`, `MovesBeforeBaseline = TRUE`: `BoardIsCurrent` | an upstream that moves between the refresh at start and the baseline raises no event (`serve/remote_sync.py:77`) |
| WrongHit | `BranchStore`, `Situations <- MovedAndSharing`: `HitsAreRight`, `BranchesHoldTheirTrees` | a file that shares its module writes no tree into its cache row, and the COALESCE of the upsert (`storage/sqlite/file_extraction_repository.py:39`) leaves the one that was there: the row names this write's chunks and that write's module, and is a hit where the docstring of `file_artifacts` says "a miss rather than a wrong hit" |
| PurgeDuringPass | `BranchStore`, a situation with `between` = `TRUE`: `HitsAreRight`, `BranchesHoldTheirTrees` | another process purges between a pass's two transactions (`application/branch_indexer.py:118`): a cached row it found may be freed, and its id another chunk's |
| OverlappingWorkers | `BundleWrite`, two workers: `StoresAgree` without `torn` | each loads the whole vector file before it waits for the other's transaction, and writes it back whole (`storage/turboquant_uow.py:211`): the vectors of the one that was first are gone |
| PinnedCheckout | `BranchStore`: `PinnedSurvives` without its last disjunct | the checkout's previous branch is removed by the next working-tree pass also when it is pinned, where `set_pinned` says "exempt from every automatic removal" (`application/branch_retirement.py:294`) |

The passing runs exclude exactly these cases, by a named constant, a bound or a
condition of the property: `Setups`, `CheckoutsAnyTime`, `MovesBeforeBaseline`,
`between`, which trees a situation of `BranchStore` joins, `torn`, `raced`, one
checkout, no hiccup where the row is at stake. `BoardIsCurrent` shows the board,
and `EveryMoveIsShown` is stated, while no check has failed.

## 4. Proofs

TLAPS checks, for all values of the constants that the named assumptions allow:

* **IndexJobQueueProofs**, from the assumptions of `IndexJobQueue`. The invariant
  says that the pending or parked job of a key is the summary of the requests
  that arrived since its last pass started (`asked`), that a parked job exists
  only for the running key, and how lock, running job, workers and events hang
  together. Without the first part no property about merging is inductive. From
  it: `TypeOK`, `PassesNeverOverlap`, `IdleIsTruthful`, `NoLostWakeup`,
  `NothingForgotten`, and the refinement `ImplementsPassRequests`, whose lemmas
  say that merging one request into the summary of a set is the summary of the
  set with it.
* **RefreshLoopProofs**, about the loop from `RefreshAssumption`, in layers.
  `TypeInv` says what the running pass has read at each of its steps. `IndexInv`:
  the served row is this checkout's one stamp and has the package's content, and a
  git-objects pass that writes is not the served branch's. From these two `TypeOK`,
  `OneServedCheckout`, `PassServesWhatItRead`, for any situation.
  `BaseInv`: the events of one snapshot are on their way at a time and name its
  tips, and HEAD leaves the first branch at most once. On it stand the properties
  of a loop at rest, each as "what is not yet right has a request on its way
  (`Coming`, `FileAsked`) or a pass that runs and will not be dropped":
  * `BranchRowsAreCurrent` (`StaleInv`), for every situation if those without moves
    before the first snapshot are `Quiet`: one checkout at most and no failing git
    command. Otherwise the startup pass stamps a branch that moves on, before the
    baseline, without an event.
  * `HeadIsServed` (`HeadInv`), if HEAD leaves the first branch at most once
    (`CheckoutAndBack` is the case with two). It needs what the requests of the
    checked-out branch ask (`AskedInv`: its tip, or to run whatever is served),
    since a request with another head could be dropped as served; that the
    freshness stamp is the tip's when the served row is (`StampInv`); and that a
    pass that read a HEAD or tip that moved since has a request behind it
    (`ReadInv`). That the newest request decides is a fact about the greatest
    number of a finite set (`GreatestIs`).
  * `EditsAreServed` (`EditInv`), if under `--watch` the `FilesTell`: nothing moves
    before the observer starts (`EditDuringStartup`), one checkout at most, and no
    situation with saves, commits, advances and a checkout together
    (`SameTreeCheckout`). A checkout then changes a file, or nothing has changed a
    file since the start (`Untouched`). All situations of the run `refresh` are of
    this kind.

  About the file watcher, from `MaxEventsAssumption`: the lock is held exactly
  while one batch drains, deferred paths imply the lock, an event is in one place,
  bursts are not empty. From it: `WatchTypeOK`, `CallsNeverOverlap`,
  `NothingStranded`, `NoEventLost`, `ImplementsChangeSignal`.
* **QueryCacheProofs**, from the assumption of `QueryCache`. The invariant ties
  leaders, reservations, futures and history. From it: `TypeOK`,
  `OneComputation`, `FollowersAreHeard`, `AnswersAreFresh`.

* **RemoteLaneProofs**, from `LaneAssumption`. The invariant orders what is known:
  a head that is known was fetched, and what was fetched was pushed; a tracked ref
  that is not indexed where the last fetch left it, and whose pass of that commit has
  not failed, is asked for, in the queue or from the watcher, or being read by a
  pass that will be told again. From it:
  `TypeOK`, `KnownHeadsWereFetched`, `TrackedRefsAreIndexed`, `NoCommitIsLost`;
  the last one because the tip a fast-forward replaces is the one it compared.
  `BackoffFollowsTheOutage` has the laws of powers of two as its hypothesis
  (`PowersOfTwo`): they hold, but the provers do not know the exponent.
* **UpstreamSignalProofs**, from the assumption of `UpstreamSignal`. The invariant:
  one task holds the lock and refreshes; a status that is stale, or a board that
  does not show the statuses, has a refresh promised that has not read that branch
  yet. From it: `TypeOK`, `SignalNeverGoesBack`, and, if nothing moves before the
  watcher's baseline, `BoardIsCurrent`.
* **BundleWriteProofs**, from `BundleAssumption`. The invariant: one unit of work
  writes at a time, and its transaction holds the merge of its reading with the
  rows as they are (`WriterInv`); a unit of work whose file no other has replaced
  holds the file's vectors, then those of the rows it will commit, then those of
  the rows (`LoadedInv`). Without the second part the file is not known to be the
  rows' when it is replaced. From it: `TypeOK`, `StoresAgree`,
  `RowsAreOneReading`, `WritesAreNotRefused`. What a merge makes of the rows is
  `MergeIsTheReading`, for any finite table and any order of the inserts: it
  counts, by induction over finite sets. The induction is stated without an
  operator as parameter: any set of counterexamples has one with no smaller one in
  it (`SmallestOne`), because strict inclusion of finite sets is well-founded.
* **BranchStoreProofs**, from `BranchAssumption`. The invariant has three parts.
  The chunk rows are exactly the ones some branch holds, and every rowid a vector,
  a cache row or a running pass's hits name is one of them
  (`NoNameOutlivesItsRow`), unless another process purges between a pass's two
  transactions: that is what makes a rowid given again harmless, and no run states
  it alone. A pass that has read its hits still fits the rowids when it writes
  (`TypeInv`). And the rows of a file are paired with its chunks (`Holds`): those a
  branch has for each path of its tree, those of a cache row with a tree for a file
  of that path, blob and module, those of a hit for the file it was found for, and
  each row has its vector (`FilesInv`). Without the part about the cache, which no
  run states, what a later pass takes from it is unknown. The third part is claimed
  if `Apart`: no purge during a pass, and a file that shares its module in one tree
  has that module in the others with its blob. These are the two cases of section 3
  in which the code goes wrong, `PurgeDuringPass` and `WrongHit`; all situations of
  the run `branch_store` are `Apart`. From it: `TypeOK`, `BranchesHoldTheirTrees`,
  `NothingLeaks`, `HitsAreRight`; and `PinnedSurvives`, which excepts the operator's
  own unpinning, retirement and purge and the checkout that is left, and says
  nothing of branches that are not pinned. The numbers come from the
  pairing: a bijection for each file gives one for the tree (`FilesAreTree`), so no
  count is ever added up.
* **BundleOpenProofs**, from `OpenAssumption`. The invariant: the current stamp
  means whole tables or a rebuild at work; one process rebuilds at a time, or
  `raced`; the processes between the lock and the commit are the lock's holder.
  From it: `TypeOK`, `OpenBundlesAreWhole`, `RowsSurviveOpens`.

Each proof has a lemma per action and combines them in one temporal step. The
invariants were model-checked before they were proved.

Proved and in no run, because a run's other properties or the theorem itself cover
them: `PassesNeverOverlap`, `NoLostWakeup`, `NothingForgotten`,
`CallsNeverOverlap`, `NothingStranded`, `FollowersAreHeard`,
`KnownHeadsWereFetched`, `NoNameOutlivesItsRow`, `HitsAreRight`.

Only model-checked: every liveness property (`EveryRequestGetsAPass`,
`WaitIdleIsReleased`, `EveryChangeIsCovered`, `EventuallyServed`,
`EveryCallEnds`, `EveryPushIsIndexed`, `EveryMoveIsShown`), since the prover has
no fairness. The properties of the three runs that fail are the ones the code
does not keep. Every invariant and every other action property of the passing runs
is a theorem.

## 5. Abstractions and limits

* **RefreshLoop.** A diff compares two snapshots, so a HEAD or tip that leaves and
  returns in between is not seen (`CheckoutAndBack`); the passing runs keep one
  checkout and tips that only advance. The quiet period is taken to outlast the
  gap between a checkout's files and its HEAD. Jobs of one delivery are submitted
  one per step, a superset of what the loop does. Extraction reads the tree's
  content at once. The package hash hits exactly when the content is equal. A
  failing or hiccuping pass is not retried, hence `lost`. Left out: tags, deleted
  refs, detached HEAD, a failing delivery, a failing startup pass; the maintenance
  jobs and what they do to the rows are in `BranchStore`.
* **IndexJobQueue.** `WaitIdleReturns` is the state in which a waiter is let go;
  the waiter may resume after a later submit.
* **QueryCache.** A permit goes to any waiter, a superset of the semaphore's
  order. Statistics, the empty query and the late-interaction cache, which has no
  gate, are left out.
* **RemoteLane.** Remote heads only advance. The user's fetch comes after the
  watcher's baseline, as `MoveAtStart` shows the case before. The reads of a
  branch and its upstream are one step. In the run the
  fast-forwards meet no checkout, as `CheckoutDuringFastForward` shows that case. `TrackedRefsAreIndexed`
  speaks of the states where what the lane knows is what is fetched: a push
  between `ls-remote` and a fetch before the baseline is the next check's. A pass
  that cannot read its ref, or fails (`application/extra_branch_passes.py:231`,
  `:341`), has spent its request, and nothing makes it again before the ref moves or
  the server starts: that commit stays out of the index, which
  `TrackedRefsAreIndexed` and `EveryPushIsIndexed` except, for that commit alone.
  A pass that raises otherwise ends the same way. Jitter, logging, pruned refs,
  hand-retired rows and an exception of the lane's own other than a git failure are
  left out.
* **UpstreamSignal.** Fetch and coming online are one step. A failing read of the
  worktrees, which loses one refresh, is left out.
* **BundleWrite.** The dependencies only: the project's rows, which branches
  share, are `BranchStore`. A chunk that changes its package counts as another
  chunk. The drift check compares counts, so lost and leaked vectors that balance
  go unnoticed, as in the code; after a removal the file lost, an id given again
  makes the add fail on every pass until `--force`, which `WritesAreNotRefused`
  excepts. The embed stage's own look at the persisted rows is taken to agree with
  the diff: a second process that writes in between is not modelled. Nor is the
  late-interaction sidecar, the third child, which commits the same way.
* **BranchStore.** Only the tables garbage collection ties together: chunk rows,
  vectors, membership, manifests, cache rows. Trees, members, references and
  decisions hang on a package or a branch and have no shared ids. Every blob has a
  chunk and every chunk a vector. `git` decides which branch is merged or deleted,
  here any. Landing units, detached and non-git rows, dates (but for due or not)
  and a failing maintenance step, which rolls back, are left out. Both files'
  commits are taken to succeed: `BundleWrite` has that failure.
* **BundleOpen.** Deleting a damaged file and creating the new one is one step.
  Rows are who wrote them. Nothing is claimed once `raced`, because of
  `TwoFirstOpens`. Write transactions of a pass are one step under the lock.

## 6. Plan

1. Proofs: weaker conditions on the situations of `RefreshLoop`. `HeadIsServed` and
   `EditsAreServed` need one checkout at most; `BranchRowsAreCurrent` would bear
   more of them after the first snapshot.
2. `RefreshLoop`: deleted refs, detached HEAD, a failing delivery.
3. The late-interaction sidecar in `BundleWrite`, and a second process that writes
   between the budget's read and the merge.
4. `MergeDetection`: the merge classes of `application/merge_detection.py` as a
   function, against a reference definition over small histories; landing units
   and their purge in `BranchStore`.
5. The connection of a query, whose worker must outlive its cancelled caller
   (`retrieval/pipeline/connection.py:56`).

### Not modelled

The freshness probe is a cached read of a stamp `RefreshLoop` has; it drives
nothing. Extraction, ranking and rendering are functions of what they are given,
with no order of steps to get wrong; git plumbing and the traces are I/O; the
command line parses and calls what is modelled; the harness, benchmarks,
notebooks, examples and the Rust accelerator are outside the program's core or do
in another language what Python does. `PROJECT.json` says so part by part.
