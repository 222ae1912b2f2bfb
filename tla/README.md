# Dragomand in TLA+

A verification development of Dragomand, the translation service of this
repository: TLA+ modules translated from its Rust sources, TLC configurations
that check them on small instances, and theorems checked by TLAPS. Line numbers
are those of the sources beside this directory; `PROJECT.json` maps every
definition that stands for code to the lines it stands for.

## The system

`dragomand` is a D-Bus-activated per-user daemon. A slow call (`Translate`,
`TranslateFd`, `PreparePair`, `InstallPair`) creates a *request object*, runs as
a task and ends in a `Response` signal. A translation needs a *route*: one model
for the language pair, or two that pivot through English. Routes are loaded on
demand, each with an engine thread and a queue of its own, and are evicted when
they are idle, when memory is short and when they exceed a budget. Models are
files in per-user and system-wide stores, installed from Mozilla's Remote
Settings. The daemon exits when it has been idle long enough.

### Inventory

| Component | State | Operations | What makes it correct |
|---|---|---|---|
| **Route scheduler** (`workers.rs`: `PairEntry`, `run_scheduler`; `worker.rs`) | two deques, `closed`, `active`, a `Notify` permit, the popped job, the engine thread | `submit`, the scheduler loop, `Drop for PairEntry`, `Worker::translate`, `Drop for Worker` | no job lost, each answered once, in order of its class; an interactive job waits for one batch chunk at most; the pin count is exact; models unload only after the last job |
| **Route registry** (`workers.rs`: `PairWorkers`) | map of routes behind an async mutex, `last_used`, `cost_mb` | `plan_route`, `ensure_loaded`, `evict_over_budget`, `sweep`, `evict_unpinned`, `enforce_budget`, `unload_pair` | a held route stays open; one load per route; the lock is always given back; what idles is unloaded |
| **Requests** (`requests.rs`) | table of live requests per client, exported objects, cancel handles | `spawn_request` and its task, `Cancel`, `cancel_client`, `release` | one answer per call on a path of its own; the cap holds; no slot is lost to another request; cancelled work is reported as cancelled |
| **D-Bus service** (`service.rs`) | `DaemonState`: configuration, stores, registry, requests, activity | the methods of `Translator1` | limits are checked before work; documents keep their lines; configuration and files agree with what is reported |
| **Lifecycle** (`lifecycle.rs`, `lib.rs`, `main.rs`) | activity stamp, bus name | sweeper, pressure watcher, idle exit, start-up | exits only when nothing is loaded or in flight, and then does |
| **Configuration** (`config.rs`) | the file, the copy in memory | load, check, apply, save | the file and memory agree after concurrent changes; a crash leaves a whole file |
| **Model store** (`store.rs`, `manifest.rs`) | directories `<pair>/<version>` with manifests; a lock file | `scan`, `resolve`, `verify`, `remove`, `lock_user` | `resolve` returns the newest complete model; a crash leaves every model whole or invisible |
| **Provider** (`remote_settings.rs`) | staging directories | `install_pair`, `check_for_updates` | nothing unverified is installed; an upgrade never removes what it cannot replace |
| **HTTP cache** (`http.rs`) | body file, etag file | conditional GET | the etag belongs to the body |
| **Records, versions, registry file** (`records.rs`, `version.rs`, `registry.rs`) | none | filters, selection, order of versions | the order is total; selection and update check agree |
| **Engine** (`dragoman-engine`, `engine/adapter`) | native models, used by one thread | load, translate | what it computes is out of scope; that it fails or dies is not |
| **Client library** (`dragoman-client`) | one subscription per call | subscribe, call, wait | no answer is missed, also when the daemon goes away |
| **dragomanctl, KRunner, GNOME search** | none that lasts | one request per command or query | they inherit the client library's |
| **Language detection** (`detect.rs`) | none | a score over text | out of scope |

How they interact: a method handler (a task of its own) checks its arguments and
calls `spawn_request`; the request's task asks the registry for a route, which
locks its map, plans, loads and inserts, and hands out an `Arc` of the entry; the
task submits a job to the entry's queue and waits on a oneshot channel; the
entry's scheduler (another task) feeds the engine thread and answers. Evictions
take an entry out of the map; the last `Arc` to go closes its queue, and the
scheduler then ends and drops the worker. Cancellation and disconnection drop the
request's task at whatever `await` it stands. `RemovePair`, `InstallPair` and
`SetConfig` change stores and configuration under the feet of all of these.

What is hard: tasks that are dropped in the middle (of a load that holds the map's
lock, of a wait for an answer); a pin count and a time stamp that change outside
the lock of the evictions that read them; wake-ups (`Notify`) against checks;
`NameOwnerChanged` against handlers that have not run yet; paths computed from
tokens that clients choose; files that change between two steps. `PROJECT.json`
lists each such place at its line under "hazards", with the properties that cover
it or the reason why none does.

## The modules

| Module | Stands for |
|---|---|
| `JobService` | abstract: what a route promises its callers (each accepted job is answered, in the order of its class) |
| `RouteLife` | abstract: the contract between a route and the registry (when work is accepted, when the models may go) |
| `RouteScheduler` | one loaded route in detail; implements `JobService` and `RouteLife` |
| `PairWorkers` | the registry with its callers; each of its entries implements `RouteLife` |
| `Requests` | request objects, the table of live requests, cancellation |
| `Documents` | `TranslateFd`: the request that reads, translates and writes a document |
| `ConfigFile` | configuration file, memory and `SetConfig` |
| `ModelStore` | the user store: lock, installation, removal, crashes |
| `Versions`, `Catalog` | pure: the order of versions; from records to offers, updates and listings |
| `Provider` | the Remote Settings calls over the ETag cache |
| `Session` | clients, the bus and the daemons it starts: subscribe, call, answer, idle exit |
| `RouteScheduler_proofs`, `PairWorkers_proofs`, `Requests_proofs`, `Documents_proofs`, `ConfigFile_proofs`, `ModelStore_proofs`, `Session_proofs`, `Provider_proofs` | theorems about the module of that name and their proofs (`Provider_proofs`: also about `Versions` and `Catalog`) |
| `MC...` | the instances TLC checks |

`RouteLife` is how the two concurrent halves fit together: `PairWorkers` models a
route by `jobs`, `life` and the holders of its `Arc` only, and each of its
entries is checked to follow `RouteLife`; `RouteScheduler`, which models queue,
scheduler and engine but of the registry only "the entry is taken out of the
map", is checked to follow the same contract, liveness included.

### RouteScheduler

An action is one critical section of the queue's mutex or one step between two of
them that another thread can observe. `Submit`/`Notify` are the two halves of
`submit` (the push under the lock, `notify_one` after it); `CloseQueue`/`DropNotify`
the two halves of `Drop for PairEntry`; `Pop`, `AwaitNotify`, `StartJob`,
`Collect`, `Unpin`, `Reply`, `Drain`, `Shutdown` are `run_scheduler` in order;
`EngineReply` is the engine thread, which may translate, fail or die;
`DropWorker` is `Drop for Worker` on the blocking pool. A job is one call of
`run_translation`: `Acquire`, `Submit`, `Receive`, and `Abandon` when the waiting
task is dropped. `permit` is the one permit of tokio's `Notify` (a
`notify_one` with nobody waiting leaves one; two leave one). Texts are left out; a
job has a number of segments. `overtaken` is a history variable.

### PairWorkers

`lock` is the map's async mutex, `phase` what its owner is doing. `EnsureLoaded`,
`LoadDone`, `LoadFails` are `ensure_loaded` up to, at and after the await of the
load; `CheckBudget`/`Evict` are the loop of `evict_over_budget`, `Sweep`,
`Evict`, `SweepExcess`, `Evict` are `sweep`: looking at pins and removing are two
steps because jobs start and end between them. `entries` is the set of what is
in the map, `older` its order by `last_used` (`Stamped` is a new `last_used`,
`Keep` what a removal leaves), and an entry is named by the task that loaded it.
`Age` lets
`keep_warm_seconds` pass. `Start`, `InstallLeg`, `InstallFails`, `Prepared` are
`PreparePair` (and the fail-fast check of `Translate`), `Submit` and `Return` are
`run_translation`, `Abandon` drops a task at any of its awaits. `UnloadPair` and
`DeleteFiles` are the halves of `RemovePair`.

### Requests

`Register`, `AddObject`, `AddFails`, `RejectDuplicate` are `spawn_request`
(`AddFails` is the early return when the object cannot be exported, which leaves
the slot behind); `CheckFlag` and
`Arm` are the two halves of `cancelled()`; `WorkDone`/`WorkDropped` the two
outcomes of `select!`; `Respond`, `RemoveObject`, `Release` the end of the task,
each an await away from the next; `Cancel`/`NotifyWaiters` the halves of
`CancelHandle::cancel`; `CancelClient`/`CancelDoomed` those of `cancel_client`.
An object path is a client and a token (`request_path`), and two calls of a client
with one token share it.

### ModelStore

A version's directory is the set of files in it (an empty one is the same as a
missing one, to a scan and to `rename`), and `Usable` is what `scan_model_dir`
accepts. A caller is a handler in the daemon or a run of `dragomanctl store`;
`lock_user` is `flock`, which keeps the thread until it gets the lock.
`ReturnExisting`, `LookForLeftover`, `CleanLeftover`, `CreateStaging`,
`Downloaded`, `DownloadFails`, `StoreManifest`, `Rename`, `RenameFails` and
`ReturnInstalled` are `install` in order, `Cancelled` is the future dropped at the
only await it has under the lock; `ScanUserCopies`, `NotInstalled` and `RemoveFile`
are both removals, `remove_dir_all` one file at a time in any order. `Kill` ends a
process between any two steps: the lock is freed, files stay. A download needs no
thread while it waits and a free one to go on (`ThreadFree`). A process keeps its
number over a `Kill`, so that a later install may find staging files of its own
`.tmp-<version>-<pid>` and must empty it; those of other numbers are never read.

### Documents

The task of one request (`Read`, `ChooseChunk`, `Translate`, `StartWriting`,
`Finish`, and their failures) and the blocking thread of `write_document`
(`WriteSome`, `WriteRest`, `WriteFails`), which goes on when the task is dropped.
A document is the lengths of its wanted lines; a chunk is the loop of
`service.rs:599-608`, lines as long as they fit and the first in any case. `Cancel` may fall at
any point and `Stop` drops the task at its awaits, that of the progress signal after each
chunk among them; `Reroute` changes between two
chunks what `plan_route` would answer.

### ConfigFile

A text is a function from names to values, one unknown name included. `SetConfig`
is `Reject`, `ReadFile`, `OpenTemporary`, `WriteTemporary`, `Rename`, `Apply`,
`SetFlag`, `Announce` in that order, each with its failure; `fs::write` is two
steps, the truncation and the contents. `handle` follows an open descriptor
through renames and removals of the name it was opened by, which matters when two
calls share `.config.toml.<pid>`. `Start` loads the file and refuses a bad one;
`Stop` is the death of the process at any step (not of the machine: the code syncs
nothing, `config.rs:243-244`); `UserEdit` an editor, between calls.

### Versions, Catalog and Provider

`Versions` is `version.rs`: a version is a sequence of parts, a part is compared
by number, finality, letters and the number after them. `Catalog` is `records.rs`
(`FilterMatches` with the early return of `?`, completeness of a set, the newest
set per pair and variant) and what the daemon makes of the sets: `Updates`
(`check_for_updates`), `Offers` (`install_pair`), `Available`
(`list_language_pairs`). `Provider` is `cached_get` read by read and write by
write, and the calls that go through it: the records, the server's description,
the registry, each a document with a cache of its own. The server publishes one
more record at a time; its n-th version of a document has ETag n. Cache writes
may fail, the switch for pre-releases may be turned, and the process or the
request may die at any step. Several callers, in the daemon and in `dragomanctl`, work on
one cache. `doubtful` is a history variable: the documents whose present version the
cache may hold wrongly, because that version's body could not be written (`BodyFails`)
or because it was received or read beside another refresh of the document (`Fetched`,
`ReadBody`); a version published later, or a body written by a refresh on its own,
ends it. What an installation does in the store is one step
here and `ModelStore`'s business.

### Session

`Subscribe`, `Send`/`Activate`, `TakePath`, `TakeResponse` are
`call_with_request`; `TakeError` with `CallNext` is `dragomanctl translate`
(PreparePair, and once more); a search front end's Translate (`"search"`) is not
repeated, and `GiveUp` is its 15 seconds.
The bus starts a daemon when nobody owns the name. In the daemon a call is
handled (`Handle`, `Refuse`), its request works and responds, and its method
returns, in any order that the tasks allow. `NoRequests`, `IdleLongEnough`,
`ReleaseName` and `Exit` are `wait_until_idle` and the end of `main`: three reads
one after the other (the registry's lock is awaited before the second), then the
name, then the process. A `Kill` is SIGTERM or a crash. The inside of requests and
registry is abstracted to `request`, `loaded` and `Pinned`.

## What the runs check

| Run | Shows |
|---|---|
| `route` | Under every interleaving of submitters, scheduler, engine thread and eviction: the pin count is exact, no job is lost, an "ok" answer is complete, an interactive job sees at most `BATCH_CHUNK` batch segments started before it; the route implements `JobService` and `RouteLife`; every accepted job is answered. |
| `registry` | Loads that succeed, fail or are abandoned, evictions by budget, age, capacity and pressure, removals and installations, all interleaved: the entry a task holds is never closed under it (so `run_translation`'s retry is unreachable), a route is loaded once, the budget loop and the sweeper evict in the order of last use and a sweep leaves at most `keep_warm` idle entries, every request ends, everything is unloaded in the end, and every entry keeps the contract. |
| `requests` | Overlapping calls, cancellations and a client that leaves: paths are exclusive, dropped work is reported as CANCELLED, no request loses its slot to another, a slot outlives its call only if the export of the object failed, the cap holds for what runs and not only for the table, every call is refused, fails at its export, or is answered and cleaned up. |
| `documents` | A document is written when all its lines are translated and not before, a success means that all is written, nothing writes after a success or an error, every document is answered. |
| `config` | One `SetConfig` at a time, with a failure or a kill at every step: the file is replaced in one step or not at all, an error changes nothing, success changes file, memory, provider and `ConfigChanged` alike, and they stay in step. |
| `store` | Two handlers and a `dragomanctl` install and remove two versions of a pair over a store in any whole state, with failures, cancellations and a kill: the lock has one holder and is never left behind, what an installation answers is what `resolve` finds or older, an answered removal leaves nothing, an installation is atomic, a leftover blocks only without its manifest, every operation ends. |
| `provider` | What a refresh that reached the server returns is what the server has, whichever steps earlier refreshes were cut off at, unless that very version's cached body could not be written or another refresh of the document overlapped; an update that is announced can be installed and is then no update any more; what is listed from the cache can be installed. |
| `session` | No Response slips by its client, every command ends unless its daemon vanished after it gave the path, every daemon that was started leaves. |
| `requests_disconnect`, `store_busy`, `config_clients`, `session_exit` | Fail, by the findings below. |

Every property of a passing run has a mutant in `PROJECT.json`: a variant of one
definition with a plausible slip (the operators `SubmitUncounted`,
`EnsureUnlocked`, `ReleaseNothing`, ... in the modules) with which TLC refutes it.
No run checks a `TypeOK`: each is proved (`TypeCorrect`).

### Findings

Each is a run whose single property is what a comment, test or document says.

1. *A request can outlive its client's disconnection* (`requests_disconnect`): a
   handler that registers after the watcher has handled `NameOwnerChanged`.
2. *Waiting for the store can stop the daemon* (`store_busy`): `flock` blocks
   threads of the runtime; when all of them wait, the download of the lock's
   holder is never taken up. The comment at `tests/store.rs:132-133` expects a
   second `flock` of a process to succeed, but `lock_user` opens the file anew.
3. *Two `SetConfig` calls at once* (`config_clients`): nothing orders them, and
   their saves share one temporary file. An acknowledged change may be lost, or
   the file left empty or torn, which the next start refuses.
4. *A call to a leaving daemon* (`session_exit`): a call that is handled between
   the last idle check and the end of the process gets a path but no Response,
   and `call_with_request` has no timeout.

Further differences between the code and its texts that were met while modelling
and are the reason for how a property is stated. The models contain them; no run
is kept for them:

- Jobs of a vanished client are translated anyway: the flag the scheduler reads is
  created per call and kept by nobody (`service.rs:517`), while `tests/dbus.rs:411-412`
  says "the orphaned jobs were cancelled rather than translated".
- A duplicate token that is rejected, or a token used again too early, unregisters
  the live request of that path: `release` goes by path (`requests.rs:113`). Hence
  `FreshHoldsSlot` and `CapHolds` speak of tokens used once.
- A Cancel between the two halves of `cancelled()` wakes nobody
  (`requests.rs:52`): work that never ends would not be stopped. Work that ends is
  reported as cancelled all the same, since the flag is read again.
- The budget can evict the route it was enforced for, when the others are pinned
  (`workers.rs:258`; the comment above it says that LRU spares it). Its request
  still runs (`HeldIsOpen`).
- `allow_pivot = false` is ignored for a route that is loaded
  (`workers.rs:199`; `doc/models.md:71-72` says it fails).
- A removal killed after `manifest.json` went leaves a directory that `install`
  does not look at (`remote_settings.rs:227`) and over which its rename fails; hence
  `OnlyHeadlessBlocks`.
- A request whose object cannot be exported leaves its slot in the table: the `?` of
  `requests.rs:171-175` returns after `register` and before any `release`. The slot counts
  against the cap, and against the idle exit, until the client leaves. Hence
  `OnlyFailedExportLeaks`, which says that this is the only way. (`Session` has no failing
  export.)
- The results of the cache writes are thrown away (`http.rs:119-123`): a body that could
  not be written, followed by an ETag that could, makes every later 304 return the old or
  torn body until the server publishes the next version; nothing writes before that.
- Two refreshes of one document at once: one caller may read a body that another has
  only truncated, then the new ETag, and be told 304; it returns the torn body
  (`http.rs:107-108`). Or two write different versions, and the older body stays beside
  the newer ETag. In both cases too the state lasts until the next version.
  `AnswerCurrent` excepts exactly the versions to which one of these happened
  (`doubtful`); each exception is necessary, TLC refutes the property without it.
- An update of a set with a variant is announced but cannot be installed
  (`remote_settings.rs:346` takes sets without one), hence `Plain` in
  `UpdatesSettle`.

### Bounds, and why they are enough

- `route`: one interactive and two batch jobs, chunks of 2, the batch job of 3
  segments going back to its deque once. Two batch jobs are what a swap of their
  order needs, one interactive job what an overtaking needs; a submission may fall
  between any two steps of the scheduler. The theorems below do without bounds.
- `registry`: three requests, two for a pivot route (a translation and a
  `PreparePair`) and one for the first leg, a budget that fits the pivot route (2
  models) but not both routes, `KEEP_WARM = 1`, one removable pair. So there are up
  to three entries, two of them possible victims, and the routes share a pair.
- `requests`: three calls in four assignments of clients and tokens (own tokens
  against a cap of 2; a client that may leave; two clients; one token used twice,
  and an invalid token).
- `documents`: up to four wanted lines of 0 to 3 bytes, chunks of two lines or two
  bytes: chunks that end for either reason, exactly at the bound and beyond it, a
  line that alone exceeds it, empty documents. No limit on cancellations or routes.
- `config`: one caller, any number of calls in sequence; a number at both ends of
  its range and below it, a switch, both in one change, an unknown key, a value of
  the wrong type; edits by the user that load and that do not. `config_clients` has
  two callers and two changes of different keys.
- `store`: two handlers on two runtime threads, one `dragomanctl`; two supported
  versions in the user store, one of them and an unsupported one packaged; models
  of two files and a manifest; three operations and one kill, so that an
  interrupted operation is followed by two more. `store_busy` has three handlers
  on two threads and no kill.
- `provider`: one pair, any number of calls. On one catalog of three records two callers
  work at once, a check and a listing (`Purposes`): three versions are what it takes for
  one caller to be two behind another. One caller works on five more scripts, by which the
  catalog grows to four records (a nightly build after a release, a candidate after
  its release, one version in two spellings, split vocabularies with a filter that
  cannot be read, versions outside of the window); the caches of the other two
  documents are warm, that of the records is empty.
- `session`: a `dragomanctl translate` (up to three calls) or the translation of a search
  front end that may give up, beside an update check; two daemons, one SIGUSR2. A third launch is left out: the bus
  answers it with an error, which `LaunchFails` covers. With two daemons there is a
  death, a reactivation and a second death.
- Time appears as the order of `last_used`, as the age of an entry, and as `quiet`
  (no activity for the idle window, which is long beside the reads of one idle
  check); RSS measurements are drawn from `Measured`, so the cost of a route is its
  estimate or more. A task tries `submit` twice, as the code does.
- The environment: users edit the configuration between saves, not during one;
  the server only ever adds records, and its documents have ETags; the daemon has
  a configuration file (`config_path` is `None` only in tests).

### Fairness, and why the code justifies it

- A task that can run runs, and so do threads: weak fairness of the steps of
  request tasks, schedulers, evictions and drops (tokio's executor, the OS).
- The map's tokio mutex is first come first served: `EnsureLoaded` and `Sweep`,
  enabled only while it is free, are strongly fair.
- The engine returns from every call, loads end (`EngineReply`,
  `LoadDone \/ LoadFails`): native code that computes. Installations end in
  `registry`, work ends in `requests`, chunks in `documents`.
- The sweeper's timer fires for ever, and an entry that is not used grows stale.
- `documents`: the task runs, and the writing thread ends, with an error or without
  (`WriteRest \/ WriteFails`).
- `session`: clients and handlers run, `wait_until_idle` comes round, the sweeper
  unloads. `Elapse` is strongly fair: activity and rounds of the idle check switch
  it off again and again, but the commands are finitely many, and after the last
  one the idle window goes by.
- Downloads end, by an answer or an error (the client sets no timeout, so this is
  the network's doing), and a handler whose download ended runs when a thread is
  free. `flock` is weakly fair: it returns when the lock stays free; operations
  are finitely many in a run.
- Never assumed: that anyone calls, cancels, leaves, that memory gets short, that a
  configuration changes, or that a route is unmapped by anything but the sweeper.
- `AcceptedAnswered` holds because the jobs are finitely many: with interactive
  jobs that never stop coming, batch jobs starve (`workers.rs:388` has no ageing).

## What is proved

`RouteScheduler_proofs` proves for every set of jobs, every number of segments and
every chunk size (`RouteAssumption`: a finite set of jobs, at least one segment
each, `BATCH_CHUNK` positive):

| Theorem | Statement |
|---|---|
| `NoJobIsLost` | `Spec => []NoJobLost` |
| `ClosedQueueIsFinal` | `Spec => []ClosedIsFinal` |
| `PinCountIsExact` | `Spec => []ActiveCounts` |
| `TypeCorrect` | `Spec => []TypeOK` |
| `InteractiveDelayBounded` | `Spec => []InteractiveDelay` |
| `OkAnswersAreComplete` | `Spec => []OkIsComplete` |

None of these is inductive by itself. The invariant has two layers:

- `Inv1` says where every job is. `Handed`: the scheduler has a job exactly from
  its pop to its reply. `Placed`: the deques have no repetitions, hold the jobs of
  their class, and never the job in hand; without it a pop could leave a copy of
  the job behind. `AnsweredAccepted` and `NoJobLost` tie answers to places.
  `Shut`: a closed queue means an entry out of the map with no holder left, which
  is why nobody submits to it. `Layer1` proves `Spec => []Inv1` from one lemma per
  part and, in each, one step per action.
- On top of it, `CountStep` shows that `active` and the set `Unfinished` change
  together (its `Drain` case needs `ClosedIsFinal`: the leftovers are none),
  `WholeStep` that the segments done, sent and left of a job add up (`Whole`) until
  it ends in an error, and
  `OvertakeStep` shows `Inv2`: interactive jobs that wait while a batch job is
  picked have not been overtaken yet (`Turn`), because the pop found no
  interactive job.

That `active` is never negative follows from the exact count, so `TypeCorrect`
comes last.

The same module proves, for the same constants, the safety half of the two
refinements that the run `route` checks whole:

| Theorem | Statement |
|---|---|
| `SchedulerKeepsContract` | `Spec => Life!Init /\ [][Life!Next]_(Life!vars)` |
| `SchedulerServesInOrder` | `Spec => Service!Init /\ [][Service!Next]_(Service!vars)` |

Both rest on `Inv1` (a closed queue has no holder, a job is in one place) and on
one lemma per group of actions that says which abstract step it is: a requeue and
a pop are stutters of `JobService`, whose `waiting` is the job in hand followed by
the deque of its class (`Waiting`); `Unpin` finishes a job of `RouteLife` and
`Reply` answers it in `JobService`.

`PairWorkers_proofs` proves, for any finite set of requests, any routes, pairs,
budgets, costs and `KEEP_WARM` (`PairWorkersAssumption`):

| Theorem | Statement |
|---|---|
| `TypeCorrect` | `Spec => []TypeOK` |
| `LockFollowsLoads` | `Spec => [](\A t \in Tasks : lock = t <=> pc[t] = "loading")` |
| `HeldStaysOpen` | `Spec => []HeldIsOpen` |
| `LoadsAreSingle` | `Spec => LoadsOnce` |
| `LeastRecentExists` | `Spec => [](Unpinned # {} => \E i \in Unpinned : LeastRecent(i))` |
| `EvictionsFollowUse` | `Spec => EvictsLeastRecent` |
| `EntriesKeepContract` | `Spec => EntriesImplementLife` |

`HeldIsOpen` alone is not inductive: that nobody holds a closed entry depends on
who can hold one at all. `Inv` adds that a task owns the lock exactly while it
loads, and that the loading phase is over when its entry is in the map (`Locked`);
that a task has an `Arc` exactly in the steps that use the route (`Arcs`); that the
map has open entries only and that a job belongs to a task that waits for it or
was dropped (`Entries`); that the map has no entry of a route that is being loaded
(`LoadsAlone`); and that `older` is a strict total order of the map (`Ranked`).
One lemma per group of actions shows what it does to the types, another what it
does to the rest. `LoadsAreSingle` follows from `LoadsAlone` at the insertion.
`LeastExists` (some of the map's entries always have one that was used before the
others: none has fewer that were used before it, by the library's `WFMin`) gives
the budget loop its victim; for a sweep, the first of the entries that it leaves
has all the others among the fewer than `KEEP_WARM` used after it, which is why no
more than `KEEP_WARM` are left. `EntriesKeepContract` says for each action which
step of `RouteLife` it is for which entry; with `SchedulerKeepsContract` the two
halves of a route are proved to fit for every number of requests and jobs.

`ModelStore_proofs` proves, for all finite sets of callers, versions and files and
any processes, threads and numbers of operations and kills
(`ModelStoreAssumption`):

| Theorem | Statement |
|---|---|
| `WriterIsExclusive` | `Spec => []OneWriter` |
| `InstallationIsAtomic` | `Spec => InstallIsAtomic` |
| `RemovalIsComplete` | `Spec => RemovedIsGone` |
| `InstalledIsResolved` | `Spec => OkIsResolved` |
| `OnlyHeadless` | `Spec => OnlyHeadlessBlocks` |
| `TypeCorrect` | `Spec => []TypeOK` |

`Inv` adds to types and lock that a caller is in the half of the code its
operation belongs to (`CallFits`), and what the one caller past the lock knows
(`Working`): that the directory it is about to replace is not usable and has no
manifest, that its staging directory is complete before the rename, that its
answer is usable, that no usable copy escapes its list of removals. `StepInside`
and `OwnClaims` reduce a step to the claims of the caller that takes it: the
others are not past the lock. The action properties follow from `Inv` by
`WhoChangesFiles` and `WhoAnswers`. `InstalledIsResolved` also needs that a finite
set of numbers has a largest one (`HasLargest`, from the library's `WFMin`).

`Requests_proofs` proves, for any finite set of calls, any clients, tokens and cap,
`TypeCorrect`, `PathsAreExclusive`, `DroppedWorkIsCancelled`, `FreshKeepsItsSlot`,
`CapIsKept` and `SlotsLeakByFailureOnly`, that is every invariant of the run `requests`. The
inductive invariant adds that a request is live exactly while its object is
exported (`Exported`), that whoever drops work has set its flag, which is never
cleared (`Flagged`), and that no client has more slots than the cap
(`TableBounded`). The code compares the cap with the table, the property compares
it with what runs: `CapIsKept` needs `FreshHoldsSlot` to say that the table has all
of it.

`Documents_proofs` proves, for any document, chunk size and byte bound,
`OutputWritten`, `OutputSettles` and `TypeCorrect`. `IInv` says that
the lines up to `done` are translated (`Passed`), that nobody writes before `done`
is all of them, and that a success is answered only by a writer that has ended.

`ConfigFile_proofs` proves, for any changes and edits, `SettingIsAllOrNothing`,
`ConfigurationInStep` and `FileIsReplaced` under the assumption `OneClient` (calls come one at a time),
without which `config_clients` refutes them, and `TypeCorrect` without it. `IInv`
follows the one call: nothing has changed before the rename, the file is ahead of
memory after it, memory ahead of provider and `ConfigChanged` after that.

`Session_proofs` proves, for any clients, commands and daemons, `TypeCorrect`
(with it: who runs has the name) and `NoResponseMissed`, from the invariant that a
client listens from before its call to its end (`Listens`).

`Provider_proofs` is about `Versions`, `Catalog` and `Provider`, for versions and
filters of any length, any scripts of records, any finite store of the system and any
number of callers (`ProviderAssumption`):

| Theorem | Statement |
|---|---|
| `OlderIrreflexive`, `OlderTransitive`, `OlderTotal` | `Older` is the strict part of a total order, but for trailing zeros |
| `OneSetPerVariant` | two sets of `AcceptedSets` with one pair and variant are equal |
| `TypeCorrect` | `Spec => []TypeOK` |
| `UpdatesCanBeHad` | `Spec => []UpdatesSettle` |
| `ListingIsHonest` | `Spec => []ListedIsInstallable` |
| `RefreshIsCurrent` | `Spec => []AnswerCurrent` |

`UpdatesSettle` and `ListedIsInstallable` speak of what three functions of the code
each take for the newest. They agree because there is a newest at all: `HasLast`
(a finite set has a last element in any strict order) gives `NewestIsAccepted`, that
what takes a set's place among the accepted is no older, and `BestIsNewest`, that
`installed_by_pair` has a first. Both need the order of versions, and `OlderOrTie`
for versions of which neither is older ("3" and "3.0"). That the list grows with
the catalog (`SetsGrow`) makes the cached listing installable from the current one.
The invariant under them is `InHand`: nothing in the cache or in a call's hands is
newer than the server's. For `RefreshIsCurrent`, `CacheInv` says of every document that
is not in doubt: an ETag that is the server's has the server's body beside it
(`EtagFits`); while a caller writes the present version, nobody else has read or
received anything of the document (`Overlaps`); a caller that has read the server's ETag
has read its body, too (`Reading`); and the ETag stays an older one until the body is
written (`Filling`). There is one lemma per kind of step (`ReadsKeep`, `WritesKeep`,
`ProvideKeeps`, `AroundKeeps`), and `OthersKeep` is about the callers that do not take it.

What is only model-checked: liveness (`AcceptedAnswered`, `EveryTaskEnds`,
`IdleUnloads`, `EveryCallEnds`, `EveryOperationEnds`, `Answered`, `CommandsEnd`,
`DaemonsLeave`) and with it the fairness of the refinements (`ImplementsService`,
`ImplementsLife`), which are out of the prover's reach. Every invariant and every
action property of a passing run is proved.

## What is not modelled, and the plan

Not modelled at all: the engine's arithmetic, language detection, registry quality
data (pure data without state), the command line's parsing and printing, the
wording and ranking of the desktop front ends, the wording of errors, packaging.
The Qt library, Krakoman, the Plasma widget, and the editor and office plugins that
`doc/` describes are projects of their own and not in this repository.

Within what is modelled: a job's texts and options, `emit_progress`, `status`,
`GetStatus` and `DetectLanguage` (they change nothing), the argument limits of the
methods, the set-up of the memory-pressure watcher (its eviction is modelled). In
`PairWorkers` the stores are a set of installed pairs; versions, crashes and
half-removed directories are `ModelStore`'s. There, I/O errors other than
`ENOTEMPTY`, the content of files (a damaged one has the wrong size and counts as
missing) and a machine that loses power are left out. In `Documents` the lines
without a letter or digit are left out, which are written as they were read.
In `Catalog` a filter has no parentheses: `filter_matches` splits at `||` and `&&`
wherever they stand, and versions are what their texts parse to: `records.rs:192-198`
groups by the text, for which "3.0" and "3.00" are two sets. In `PairWorkers` an eviction
reads the pins and stamps of the map in one step; the code reads them entry by entry
(`workers.rs:268-272`, `303-310`) while tasks may submit, so that an entry that was skipped
as pinned may be idle again when another is chosen. In `Session` the branch for a path
other than the expected one (`client lib.rs:196-203`), which this daemon never takes, is
left out, and in `Documents` and `RouteScheduler` the engine returns a translation for
each segment or an error (`service.rs:617` checks it). The budget's sum does not overflow 64 bits.

What would come next, in this order:

1. `RemovePair`'s hand-over from the registry to the store (a route loaded again in
   between, the version that `PreparePair` reports): a composition of `PairWorkers`
   and `ModelStore` over several pairs.
2. A refinement of `Requests` and `PairWorkers` to what `Session` assumes of them.
3. `verify` and losing power in `ModelStore`.
