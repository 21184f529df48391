# FermiViewer: a verification project in TLA+

FermiViewer is a viewer and analysis bench for electron-microscopy files: a FastAPI backend in Python
(`src/src/fermiviewer`), a React frontend (`src/frontend`) and a Tauri desktop shell (`src/src-tauri`). The
backend is one process per launch. FastAPI runs each synchronous route on a thread of a pool, so any two requests
interleave; the background jobs, the folder watch and the grace check run beside them; and several servers may
share one config directory. In the page, one store takes the user's actions and the server's late
answers in whatever order they come. That is where this program can go wrong in ways a unit test hardly reaches, and it is
what these modules model. Paths below are relative to `src/src/fermiviewer/` unless they say otherwise.

Contents: [inventory](#inventory), [modules](#the-modules-and-the-code), [runs](#the-runs), [fairness](#fairness),
[proofs](#what-is-proved), [divergences](#where-the-code-and-its-docs-disagree),
[not modelled](#what-is-not-modelled), [plan](#plan).

## Inventory

| component (source) | state | operations | what is hard | what makes it correct |
|---|---|---|---|---|
| Background jobs (`jobs.py`, `routes/jobs_api.py`) | registry (dict in insertion order), each job's status, cancelled flag and future, the thread pool | submit, run, report, cancel, shutdown, evict | `cancel()` acts twice with no lock in between, `shutdown()` marks jobs outside its lock, `submit()` reopens a pool that was shut down | an end is final, no result of a cancelled job, no job queued for ever, bounded registry, shutdown ends |
| Desktop lifecycle (`server.py:243-300`) | open sockets, `_ever_connected`, sleeping grace checks, exit request | connect, disconnect, grace check | checks of earlier disconnects are never cancelled; a check that finds a watch postpones itself | an abandoned server exits, one in use does not |
| Folder watch (`watch.py`, `routes/watch.py`) | candidates with fingerprints, processed paths, counters, stop event, the active watcher, its job ids | start, poll, stop, exit of the server | poll thread against a writer, a stop and a second start; the join has a timeout | a file is processed once, complete, and accounted for |
| Store lock (`storelock.py`) | RLock and depth per process, the OS lock on `<store>.lock` | enter, nested enter, exit | timeouts, a filesystem without locks, a dying process, nesting | mutual exclusion; a waiter gives everything back when it fails |
| JSON stores (`io/{calibration,profiles,factors,standards}_db.py`) | one file each, replaced whole by rename | create, new version, delete, region, legacy import, read | two servers, failing writes, crashes, transactions that call transactions | every change is one request applied whole to the current file |
| Session and project (`session.py`, `project_session.py`, `routes/_project_adapter.py`, `routes/project_io.py`) | images with pixels; placeholders, results and path of the open project; the project files | open, close, save, load (replace or append), relocate | two objects under two locks, visited in steps | a save holds all the session answers for; nothing leaves unasked |
| AFM families, force maps (`routes/afm.py`, `routes/afm_force.py`, `session_force.py`) | `_families`, `_member_of`, a lock per family, a generation; force files with theirs | list and open channels, stash of an upload, forget, reset, register maps | a slow read between the look and the registration, while images close and projects replace the session | a channel once, reachable from its siblings; nothing of an old session in a new one |
| 4D-STEM datasets (`session_fourd.py`, `routes/fourd.py`) | handles, rasters, the navigation image of each dataset; an upload directory with a lock file per upload | open by path, upload, reshape, navigate, close, sweep at a start | a reshape and a close swap handles that requests still use; another server sweeps the temp folder | a listed dataset can be read; the navigation image belongs to the raster shown; a directory outlives its handle and no crash leaks one |
| Named workspaces (`workspaces.py`, `routes/session_io.py`) | an index under the store lock, one project file (or an older `.json` pair) per slug | save, load, delete, list with pruning | files are written, looked at and deleted outside the index transaction, by requests that overlap | an answered save stays, an answered delete leaves nothing, a load finds the last save |
| Frontend viewer store (`src/frontend/src/store/viewer*.ts`, `lib/groups.ts`) | the library; groups nested in groups and the panes bound to them; annotations with holes, undo and redo stacks, the drag under way | open, derive, close, load a project, locate data; create, nest, delete groups, fill panes; draw, reshape, drag, punch and fill holes, undo, redo | inverse operations that apply to a document others changed; closes answered late; damaged project files | undo gives back whole documents; groups are trees and keep what they were given |
| Project container and manifest (`io/project_file.py`, `project_manifest.py`, `project_sections.py`, ...) | none in memory | write staged and renamed, read, migrate | a failure half way; a format of two versions | the old file stays whole; what is written reads back |
| Region sets and label maps (`project_session.py:388-443`, `calc/region_convert.py`) | sets by id with their origin | merge on append, conversion both ways | rename on collision, repeated appends | no set lost or doubled; a label map survives the round trip |
| Launcher and shells (`launch.py`, `server_launch.py`, `server.py`, `netprobe.py`, `src-tauri`) | the port, `/api/health` | probe, reuse, bind, float | two launches at once | one server per port, every launch finds one |
| Results (`result_capture.py`, `io/results_model.py`), usermeta sidecars, stateless routes and batch | none beyond the session | capture, write a sidecar, run a recipe | little: each request is a sequence of single steps | |
| Numerics (`calc/`, `ops/`), parsers (`io/`), other frontend stores (`fourd.ts`, `workshop.ts`, `species.ts`) | arrays, vendor files, UI state | | answers that arrive late in the frontend | |

How they interact. A watch submits jobs (`on_file` calls `jobs.submit`), and an active watch keeps the grace check
from exiting; the lifespan of the server stops the watch and then the jobs. A project load that replaces the session
calls, in this order, `ForceStore.clear`, `SessionStore.clear` and `afm.reset`, registers its images one by one, and
adopts the project last (`_project_adapter.py`). Closing an image removes it from the session store first and from its
family second. All four JSON stores, and the workspace index, are transactions under `StoreLock`; two transactions
call others inside. A server that starts sweeps the upload directories of all servers before it serves. In the page
every action on the library carries its consequences for groups, panes, annotations and history in the same step.

`PROJECT.json` lists every component, and under `hazards` each place where such an interaction bites, with the
properties that cover it.

## The modules and the code

| module | models |
|---|---|
| `JobLifecycle` | abstract: the life of a job as a client polling `GET /jobs/{id}` is promised it |
| `JobStore`, `MCJobStore`, `JobStoreProofs` | `jobs.py` |
| `Lifecycle` | the presence socket and the grace check of `server.py` |
| `FolderWatch`, `MCFolderWatch` | `watch.py`, `routes/watch.py` and the exit of the lifespan |
| `ServerProofs` | theorems about `FolderWatch` and `Lifecycle`, which run in one server |
| `StoreLock` | `storelock.py`, the lock alone |
| `AtomicStore` | abstract: a JSON store as its callers are promised it |
| `JsonStore` (on `StoreLock`), `MCJsonStore`, `JsonStoreProofs` | the transactions of the `io/*_db.py` stores |
| `ProjectSession`, `MCProjectSession`, `ProjectSessionProofs` | the open project and the requests that save, load and relocate it |
| `ScanImages`, `MCScanImages`, `ScanImagesProofs` | AFM channel families and force maps, against closes and project loads |
| `UploadDirs` | the upload directories of `session_fourd.py` and the sweep of a server that starts |
| `FourD` (on `UploadDirs`), `MCFourD`, `FourDProofs` | `FourDStore` and the requests of `routes/fourd.py` |
| `Workspaces`, `MCWorkspaces`, `WorkspacesProofs` | `workspaces.py` |
| `Library`, `ImageGroups`, `Annotations` | parts of the page's store: images, groups and panes, annotations and history |
| `SnapshotHistory` | abstract: an undo history that keeps every document whole |
| `Viewer` (composes the three parts), `MCViewer`, `ViewerProofs` | the page's store as a whole |

One rule for the grain of the steps: what the code does under one lock, without waiting for anything else, is one
action; what it does in two critical sections is two actions with a program counter between them. A request in
progress is a record of its place and its locals. File contents, pixels and payloads are left out or are members of a
small set; a variant such as `Publish_Always` or `TakeFile_NoExclusion` is a plausible slip of the operator it is
named after, kept beside it and used by no specification: put in its place, it breaks the property `PROJECT.json`
pairs it with. A variable commented as a *note* is history: no step of the code depends on it. (`closed` of `Library`
is one that also stands for the server: it says which ids the server no longer has.)

**`JobStore`**: `Submit` is `submit()` with the admission bound, the restart of a closed pool and the eviction of
the oldest finished jobs. `Pick`, `Begin`, `Compute`, `Publish` are a worker: the executor's loop, then `run()` up
to the start, the computation (with `report()`, which raises once the job is cancelled), and its end.
`CancelFuture` and `CancelJob` are the two halves of `cancel()`. `ShutdownTake`, `ShutdownDrain`, `ShutdownMark`
and `ShutdownReturn` are `shutdown()`. The pool of `concurrent.futures` is external and modelled from its use: a
FIFO queue, at most `MaxWorkers` threads, `cancel_futures` removing queued items one at a time. Progress is not
kept. A job whose function raises a `BaseException` other than `Exception` is left out: `run()` catches only
`Exception` (`jobs.py:111`), and no submitted function is written to raise another. The bound `MaxPools` limits restarts.

**`Lifecycle`**: all of it runs on the asyncio loop, so each handler is one step. A sleeping check is the number
of ticks it still sleeps, and a due timer runs before time moves on. `quietFor` and `emptyFor` are history.

**`FolderWatch`**: the poll thread goes through `Scan`, `Skip`, `Remember`, `Fire`, `SubmitJob` or `QueueFull`,
`AppendId`, `Count`, `EndScan`. `shutdown_watch()` is `StopTake`, `StopSignal`, `Join`; `Join` may return with the
thread alive, as its timeout allows. A fingerprint is a version number. The assumption of the debounce is stated
in `Stat`: a file that is being copied has changed since the last poll looked at it. The queue may be full at any
time, because other jobs fill it. Left out: a directory that cannot be listed (`watch.py:119`), a poll that does nothing.

**`StoreLock` and `JsonStore`**: `EnterThread`, `TakeFile`, `Degrade`, `TimeOut`, `ExitFile`, `ExitThread` are the
steps of `__enter__` and `__exit__`; the deadline may pass at any moment a peer holds the file. A transaction
goes `want`, `open`, `load`, (`batch`), `decide`, `replace`, `exit`, `unlock`. One store stands for the four,
which are the same code: `import` is `profiles_db.import_legacy_calibrations` and `region` is
`standards_db.add_reference_region`, the two transactions that run others under the lock they hold (the `get_standard`
of the second is one step with the load of its update). An entry is the sequence of its versions and a version a set of
labels, of which any request may bring legacy keys. `Crash` kills a server anywhere. `MaxVersions` bounds
how often an entry changes.

**`ProjectSession`**: a save is `Save`, `SaveIds`, `SaveGet`, `SaveState`, `SaveWrite`, `SaveNote`; a load is
`Load`, (`ClearStore`), `Restore` per image, `Restored`, `Adopt`; a relocation is `Relocate`, `RelocateSet`,
`Restore`. Which sources a load or a relocation finds is a choice. `owed` is history: what the save in progress
has to write. `Alone` names the operations that run only while no other request is in progress.

**`ScanImages`**: an image is its number; a family is an object on a heap, reached through the tables of the code.
`FindFamily`, `TakeOpening`, `ReadChannels`, `Check`, `Register` are `open_other_channels`; `Check` and `Register`
hold `afm._lock` throughout (`LockFree`). `ClearForce`, `ClearStore`, `Reset`, `Restore` are a replacing load in
the order of `_project_adapter.py`. `Commit` compares the generation of the force store and keeps its lock while
the maps are registered. Left out: an open with an empty list of labels, which the picker never sends; a restored
image that is just then being uploaded or closed (`Saved`); a second close of an image, which finds nothing; an image
that closes between the two looks `_family` takes at it (`FindFamily`).

**`UploadDirs` and `FourD`**: `UploadMake`, `UploadOpen`, `UploadLock` are the constructor of `UploadDir` (mkdtemp,
open, lock), `UploadLoad` moves and opens the file, `UploadAdd` lists the dataset. A move that fails, for whatever
reason, leaves the directory and lets go of the lock. `Close` pops the entry under the
lock of the store; `CloseHandle`, `ReleaseLock`, `ReleaseDir` are what it releases afterwards. `Reshape`,
`ReshapeLoad`, `ReshapeReplace`, `ReshapeClose` and `Nav`, `NavLook`, `NavCompute`, `NavRegister`, `NavAssociate`
are the two requests that keep a handle across steps. `StopClose` is the exit of the lifespan. The sweep of a
server that starts judges one directory at a time (`SweepLook`), lets the lock go (`SweepLetGo`) and deletes
(`SweepRemove`); `Abandoned` is its rule. One server uploads and every server sweeps. Two windows that the code
leaves open are noted, not closed: `raced` has the directories a sweep judged between mkdtemp and the lock, `late`
the navigation images associated after their handle was replaced. Frames, virtual detectors and the streaming of a
raster only read a handle and are left out.

**`Workspaces`**: a save is `SaveWrite`, `Register`; a delete `DeletePop`, `DeleteProject`, `DeleteLegacy`; a
listing `ListRead`, `ListStat` per entry, `ListDone`, all under the index lock; a load `LoadLook`, then `LoadOld` or
`LoadRead`, then a listing for the name. What a project file holds is the number of the save that wrote it.
`RemoveByHand` is the user deleting files, `Crash` ends a request anywhere; the two unlinks of an older pair are one
step, in which either may refuse. The exclusion of the index lock is
`StoreLock`'s and taken as given. `kept`, `gone` and `forgot` are history: which save, which delete was answered with
no request of the other kind about, and which entries a failed read of the index lost.

**`Viewer`**: the page is one thread, so each action of the store is one step, and a request that awaits the server
(`closeImage`) is two, `Ask` and `CloseImage`. Each action conjoins a part of `Library`, one of `ImageGroups` and
one of `Annotations`. In `ImageGroups`, `Up` and `Ring` say with sets what the code computes by walking up parents:
the least set closed under parents, and a set in which everybody has a parent. A file may hold any groups at all,
cycles and dangling parents included, as a damaged project does. `assigned`, `nested` and `dropped` are history: the
memberships and nestings given and not taken back, and those of images not open that a close has pruned since
(`setGroupMembers`, which only tests call, gives a group a new list). In `Annotations`, an outline is an array
`[at, ref]`, what it holds and which array it is, because the code finds a hole again by identity and compares a
drag by content. An entry of the history is a sequence of steps; `Redrawn` is what one step makes of the annotations
of its image, or takes back, and `Apply` is `applyUndoEntry`, a recursive function along the entry. `Walk` and
`Unwound` follow a whole stack and say which documents it leads through. `Abrupt` says whether the user also undoes,
edits or loads a project in the middle of a drag, and drops an outline where it was picked up; the runs have it FALSE
(see [below](#where-the-code-and-its-docs-disagree)). Left out: the order of cards,
members and annotations, selection, stage, display settings, saved regions and views, styles and texts.

## The runs

| run | instance | properties |
|---|---|---|
| `JobStoreSafety` | 4 jobs, 1 client, 1 worker, 1 pending, registry of 2, 2 pools; 550 000 states | `NoPhantom`, `EndedMeansStopped`, `UnfinishedRegistered`, `RegistryBounded` |
| `JobStoreLive` | 2 jobs, 2 clients, 2 pending, registry of 0; 73 000 | `PollerSees` (refines `JobLifecycle`), `PollersTerminate`, `ShutdownEnds` |
| `LifecycleSafe` | 2 tabs, a grace of 4 ticks; 1 840 | `CheckPending`, `AbandonedServerExits` |
| `FolderWatch` | 2 files of 2 versions, 2 watches; 129 000 states | `AllAccountedFor`, `OneJobPerFile`, `NeverHalfWritten`, `PickedUp`, `ThreadEnds` |
| `JsonStoreTwo` | 2 servers, 3 threads, 2 ids, 2 versions; one server may hang; 56 500 | `MutualExclusion`, `SaveKeepsOthers`, `ImportedOnce`, `AtomicSpec` (refines `AtomicStore`), `Answered` |
| `JsonStoreOne` | 1 server, 2 threads, no file locks, reads may fail, all requests | `MutualExclusion`, `Answered` |
| `ProjectSessionSafe` | 2 images, 1 result, 1 file, 2 requests; 892 000 | `TypeOK`, `SaveComplete`, `NothingDropped` |
| `ScanImagesSafe` | 2 requests, 1 scan of 2 channels, 1 map, 1 replacing load; 1 390 000 | `TypeOK`, `OneImagePerChannel`, `LeadsToFamily`, `FamiliesNotLeaked`, `MapsOfThisSession` |
| `FourDSafe` | 2 servers, 1 directory, 2 requests, 2 handles, 2 navigation images; 1 200 000 | `OwnedStays`, `SweepReclaims`, `ListedIsUsable`, `NavDescribesRaster`, `NothingLeaks` |
| `Workspaces` | 2 slugs, 3 requests, 2 saves, the index may fail to be read; 1 230 000 | `SavedStaysListed`, `DeletedStaysGone`, `LoadIsCurrent` |
| `Viewer` | 2 images, one derived from the other, 3 groups, 2 panes, 1 undo, 4 arrays, 3 project files; 80 500 | `NothingDangles`, `MembershipKept`, `HistoryKeepsDocuments` (refines `SnapshotHistory`) |
| `ProjectSessionRelocate` | 3 images; relocation overlaps a save | `SaveComplete`, violated, see [below](#where-the-code-and-its-docs-disagree) |

The type invariants of `ProjectSession` and `ScanImages` are checked and proved; those of the other modules with
theorems are proved and in no run.

Why these bounds are enough for the cases that matter.

- *Jobs*. The races are between one job's worker, one `cancel()` of it and one `shutdown()`. Two clients
  (`JobStoreLive`) add two cancels of one job; two pools add a submit after a shutdown while the old pool is still
  drained. Four jobs and a registry of two make eviction happen with queued, running and ended jobs in it.
- *Lifecycle*. Two tabs give every pattern of a last tab closing while an earlier check sleeps. Four ticks are
  enough for the checks of three earlier disconnects to be asleep at different times. `CheckPending` is proved for
  every grace period.
- *Folder watch*. A file comes, changes while it is copied, is deleted and comes again. Two files are needed for
  the counters to diverge; two watches are a stop that overlaps the next start. `BurstOrRestart` keeps to one of
  the two at a time: the second file stays away once a second watch has begun, since what a watch remembers it keeps
  per file.
- *Stores*. Two threads of one server contend for the RLock while a third, of another server, contends for the
  file. Two ids are an entry that is changed and one that must not be. A legacy key imported by several threads
  is the race of `ImportedOnce`.
- *Project*. One image may be open while the other is a placeholder. Two requests interleave freely, except that
  relocation and replacement run alone in the passing run, because a save that overlaps a relocation really
  loses images (`ProjectSessionRelocate`).
- *Scans*. Two requests over two channels decide at once what is missing; one replacing load changes both
  generations; three images let an image close and its id be restored while its siblings stay.
- *4D*. A peer that sweeps while the server uploads, and the server itself after a crash of an earlier day, are the
  two servers. Two handles are one dataset reshaped, or two datasets; two images are two requests that both found
  none. One directory is judged independently of the others. All five properties are proved for any number of servers,
  directories, threads, handles and images.
- *Workspaces*. Three requests are a save and a delete of one slug with a listing that prunes; the second slug is
  the one that must not be touched. Two saves let a load find an older state than the last one.
- *Viewer*. `Focus` splits the product of the parts, which hardly meet: trees of up to three groups without drawings;
  a grid of two panes over at most two flat groups; drawings without groups, either few of them on a library that
  changes or the two of a file on one that stays. Three groups are a parent, a child and the one adopted by the other.
  A history of one entry still has a capped push, an undo, a redo and a cleared redo; the entry may hold two steps, as
  `clearMeasures` makes. The properties of groups are proved for all values, without `Focus`.

In the instances the clients and jobs, files, ids or request threads that `Symmetry` permutes are interchangeable;
no run that checks a liveness property uses symmetry. `CHECK_DEADLOCK FALSE` stands where the system may stop: all
jobs submitted and ended, the server gone, all versions and ids used.

## Fairness

- `JobStore`: each worker step, the second half of `cancel()` and the steps of `shutdown()` are weakly fair:
  threads that can run do run, and the function of a job returns. No client has to submit or cancel.
- `Lifecycle`: time passes and due timers run. Nobody has to connect or to close.
- `FolderWatch`: the poll threads run (`ThreadStep`) and a copy ends (`Finish`). `PickedUp` supposes that file and
  watch stay as they are.
- `JsonStore`: the steps of a thread that holds the RLock are weakly fair, and getting the RLock is strongly fair,
  since CPython hands a free lock to one of its waiters. Neither holds for a process in `Stuck`, which may stop
  for ever inside a transaction; `Answered` says the others still get their answer, at worst a 503.
- `ProjectSession`: a request in progress goes on; no request has to be made. `ScanImages`, `FourD`,
  `Workspaces` and `Viewer` state safety only: what they promise is about states and steps, and whether a request
  ends there depends on the disk and on the user.

## What is proved

TLAPS checks the theorems of eight modules, for every value of the constants that satisfies the named assumptions.
`PROJECT.json` lists the main results. Every safety invariant and every action property that a passing run checks is
the subject of a theorem, and so is each of the three refinements. Each proof has the same shape: an inductive
invariant, one lemma per action, and lemmas about the operators they share. Where a property is not inductive by
itself, the invariant that carries it is named here, with what it adds.

**`JobStoreProofs`**, from `JobsAssumption` (finitely many jobs), `NoJobAssumption` and `BoundsAssumption`:
`TypeCorrect`, `NoPhantomJobs`, `EndedJobsStopped`, `UnfinishedKept`, and `RefinesLifecycle`, that the registry
implements `JobLifecycle`. None of the properties is inductive by itself: that nobody is left queued depends on
where the job is. `IInv` says it: `FutureInv` ties status, future, worker and cancelled flag of a job together;
`PendingInv` says that a job with a pending future is in the queue of the pool in use or of the one being closed,
and then still owed a mark; `QueueInv` that a job is only ever in the queue of its own pool; `OwedInv` that a queued
job whose future was cancelled is owed its end by `shutdown()` or by a `cancel()` under way; `CancellerInv` that a
client between the halves of `cancel()` is on a job that was submitted.

`RegistryStaysBounded` (`RegistryBounded`) supposes `RoomForUnfinished`: the jobs that may wait and those that the
threads of all pools may be busy with fit the registry, as in the run. In `jobs.py` that is 31 and two for each pool
against 100, so it allows 34 pools, made by one shutdown after the other. Without it the registry may fill with
unfinished jobs, which `submit()` never drops. The argument: `WorkersInv`, that no pool has more busy threads than it may,
bounds all busy jobs by `MaxPools * MaxWorkers` (`BusyBound`, which seats every busy job as a thread of its pool); so
a registry past its bound holds an ended job (`SomeFinished`), and the eviction drops one before it adds one.

**`ServerProofs`**, from `FilesAssumption` (finitely many files) and `BoundsAssumption`: `TypeCorrect`,
`FilesAccounted` (`AllAccountedFor`), `JobsOncePerFile` (`OneJobPerFile`) and `NeverFiredHalfWritten`
(`NeverHalfWritten`), for any files, openable or not, and any number of changes and watches, so also for a thread that
winds down beside the next watch. `Accounted` says for one watch that paths, counters, jobs and the place of the thread
agree: the file in flight is processed already, and has its job from "append" on. `Outdated` is why the debounce works: as
long as a watch has not looked at a path since its last change, what it remembers of it is older than what is there. A
watch that was not started has no thread (its counters are then zero).

`ServerNotForgotten` is the invariant `CheckPending` of `Lifecycle`, for any tabs and any positive grace period. It is
inductive together with `TypeOK`: a tick takes one from what a check still sleeps and adds at most one to the quiet
time, and every event that could leave the server without a check resets it.

**`JsonStoreProofs`**, from the assumptions of the two modules: `TypeCorrect`; `TransactionsExclude`, that the lock
excludes within one server always and across servers where it can lock; and for a directory that locks and a store
that can be read (`CanLock`, `~ReadMayFail`), whatever requests carry, `SavesKeepOthers`, `LegacyImportedOnce` and
`StoreIsAtomic`, that locks, loads, stages and renames implement `AtomicStore`. `LegacyImportedOnce` is about what an
import adds: no entry it is about to write carries a key that a profile of the file has, also when a create or an
update brought that key after the import was asked for. (Those two may carry any key, one a profile has included.) The
inductive invariant is `TypeOK` with `LockInv` (which thread owns which lock at which depth at each place of a
transaction) and, on top of it, `DataInv`: what a thread inside a transaction knows of the file is still true, because
only it could have changed it. Without file locks, or when a failed read counts as an empty store, those three do not
hold. The code announces the first; the second is a [divergence](#where-the-code-and-its-docs-disagree).
`JsonStoreOne` checks what remains.

**`ProjectSessionProofs`**: `TypeCorrect`, for any requests at once; and, while relocations and replacing loads run
alone (`{"relocate", "replace"} \subseteq Alone`, the instance of the run), `SavesAreComplete` (`SaveComplete`) and
`ImagesAreKept` (`NothingDropped`). The hypothesis cannot go: `ProjectSessionRelocate` is the counterexample. The
invariant adds the stage of each request (`Stage`); that an operation that runs alone has nobody beside it
(`Exclusive`); that what a save owes it has read already or will find where it looks next (`Collected`, by the place
of the save); and that the placeholders a relocation read are still those of the session (`Relocating`).

**`ScanImagesProofs`**, from the assumptions of the module, for any scans, labels, maps, requests and loads:
`TypeCorrect`, `ChannelsOnce` (`OneImagePerChannel`), `ChannelsLeadToFamily` (`LeadsToFamily`), `FamiliesCleaned`
(`FamiliesNotLeaked`) and `MapsBelong` (`MapsOfThisSession`). The tables and the heap of families are tied together by
`ImagesInv` (what an image's entries say, by whether it is open and has a file), `MembersInv` (a family knows its open
images by channel), `LinksInv` (an open image of the session is found through its root), and `Tidy`: every member of a
family in use is open or about to be forgotten, and the forgetting will find the family. `Tidy` may fail while a
replacing load is between its steps (`Resetting`). `Tracked` is "in use": attached to its root, or held by a request
that may attach it again. `Kept` and `NotLeakedInv` say what keeps a family in the tables, `Registers` what the
request that registers knows of the images it must not show twice, `Apart` that an upload is in no family before its
channels are stashed, `Request` what each place of a request implies. Steps that change no image, family or generation
are treated at once.

**`FourDProofs`**, from `ServerAssumption`, `NoDirAssumption` and `BoundsAssumption`: `StoreKeepsDirectories`, that every
step of the store is a step of `UploadDirs` or leaves the directories alone, and from it, for the whole of `FourD`,
`DirectoriesTyped`, `LockedDirectoryStays` (`OwnedStays`) and `CrashLeftoversReclaimed` (`SweepReclaims`). The
inductive invariant `DirInv` adds to the two properties: what `making` and `owned` say of a directory's files
(`Made`); that a directory a sweep is about to delete is neither being made nor locked, or else raced (`Judged`);
and that nothing of a server that has ended is made or locked, and a sweep that began then still has every lock file
in sight (`After`).

About the datasets: `TypeCorrect`, `ListedDatasetsUsable` (`ListedIsUsable`, with `OwnedStays` from above),
`NavigationMatches` (`NavDescribesRaster`) and `NothingLeft` (`NothingLeaks`). Their invariant, `StoreInv`, is about
ownership: an open handle belongs to one dataset or to one request, and those have no other handle (`Handled`); the
same of a locked directory (`Copied`); a request works on ids and handles that exist, and the image in its hands was
computed from its handle (`Working`); no request runs when the server is not up (`Served`). A close, a reshape and a
failed upload each hand an owned thing over, and the lemmas say so once for handles and once for directories.

**`WorkspacesProofs`**, from the assumptions of the module, for any slugs, requests and saves: `TypeCorrect`,
`SavedWorkspacesStay` (`SavedStaysListed`), `DeletedWorkspacesGone` (`DeletedStaysGone`) and `LoadsAreCurrent`
(`LoadIsCurrent`). An answered save stays stored; it stays listed unless a failed read of the index has lost its name,
which the code does not prevent, and always where reads do not fail (`SavedAndListed`, from `NothingForgotten`). The
invariant adds what each kind of request may rely on while no request of the other kind overlapped it (`alone`): what a
save wrote is still there (`Saver`), what a delete has passed is gone (`Deleter`), the file a load is about to read is as
new as it is owed (`Loader`); that a listing under the lock has the index as it is, or nothing to prune (`Lister`); and
that the number of the last save is the highest (`Rising`).

**`ViewerProofs`**, from `ImagesAssumption` and `GroupsAssumption`: `GroupsFormTrees` (`NothingDangles`) and
`GroupsKeepMembers` (`MembershipKept`), for any images, groups, panes and project files, cyclic ones included. A
membership stays until it is taken back or its image is closed; one of an image that is not open goes with the next
close of any image, which is what the code does and not what it says ([below](#where-the-code-and-its-docs-disagree)). The
lemmas are about trees without recursion: `Up` is the least set with a group that is closed under parents
(`UpLeast`, `UpNext`); in a forest nesting a group where it is closes no cycle (`ForestNoCycle`); what `pruneGroups`
makes of any parents at all is a forest (`NestingForest`), and of a forest it keeps every nesting (`PrunedFacts`);
deleting a group and giving it a new parent keep a forest (`DeleteForest`, `SetParentForest`). `GroupsInv`, the two
properties with the shape of the groups' state, is inductive.

`HistoryIsExact` is the refinement `HistoryKeepsDocuments`, for any images, any depth of the history, any bounds and
any project files, as long as no drag is broken into (`~Abrupt`). It rests on `UndoAssumption` and on `FilesAssumption`
of `Viewer`: there are finitely many images, and what a project brings are drawings as a page makes them, an id of one
annotation and each ring an array of its own. The code does not check this when it loads. A file with one id twice would
break it, because the inverse operations find annotations by id; groups may be damaged in any way. `Abrupt` cannot be
dropped: see [below](#where-the-code-and-its-docs-disagree).

- *Why it is true.* An entry holds what one image had before and after; closes, loads and drags have changed the
  state since. So the invariant is not about the entries but about where they lead. `Steady` says of both stacks:
  every state on the way (`Walk`) is sound, and an entry applied there and taken back gives the same state
  (`Retraces`, `Returns`), on every image that is not closed (`Alike`). `Sound` is why the inverses are exact: in a
  drawing each id is of one annotation and each array one ring of one annotation, and the counter is past them all,
  so that a new outline, a reshaped one and the rings of a dragged body are like none there was. One lemma
  per kind of entry says that it leads back (`AddExact`, `HoleAddExact`, `HoleRemoveExact`, `MoveExact`,
  `DeletionsUndone` with `DeletionsRedone`, `DerivedApplied`).
- *What goes on beside it.* An image that comes or goes does so in every document of both stacks (`GrowInv`,
  `CloseImageInv`): the entries are about images the page has shown (`Placed`), so no entry lists a fresh one. During
  a drag the document is the one from before it (`Now`, `Settled`); `Pointed` says what the drag holds is still drawn,
  as it was or elsewhere, which makes a drop without an entry a drop where nothing moved.
- *The step.* `HistoryInv` joins these. Its lemmas say that an edit is `Edit` of `SnapshotHistory`, an undo
  `Undo`, a redo `Redo`, a loaded project `Replace`, an image that comes or goes `Outside`, and everything else leaves
  all documents as they are.
- *Induction.* A stack is walked by a recursive function, so some lemmas are inductions over numbers. The induction
  theorems of the library take an operator and cannot be used; `NatSteps` takes a set instead, and follows from the least
  element of a nonempty set of naturals (`WFMin`). `WalkFacts` and `ApplyRelated` are the inductions the others cite.

Only model-checked: the liveness properties (`PollersTerminate`, `ShutdownEnds`, `AbandonedServerExits`,
`PickedUp`, `ThreadEnds`, `Answered`), since fairness and ENABLED are beyond the prover.

## Where the code and its docs disagree

One run ends in a counterexample that refutes a sentence of the repository.

- `ProjectSessionRelocate`, `SaveComplete`: `relocate()` drops the placeholders it resolved, and the route
  registers the images only afterwards. A save in between writes a project with neither
  (`project_session.py:374`, against `_project_adapter.py:9`).

For six more the modules state the promise, as a property that no run checks and no theorem claims. Added to the
`INVARIANTS` of the run named, TLC finds the counterexample.

- `server.py:286`, `FullGrace` (`LifecycleSafe`): a grace check asks only whether a tab is open when it wakes, and a
  reconnect cancels none. A tab that closes, reconnects and is refreshed just before the first check is due finds the
  server exiting within the refresh, against `server.py:251` and `:280`. `CheckPending` promises an exit in time, not a
  full grace.
- `routes/watch.py:170`, `JobsAreItsOwn` (`FolderWatch`): the old thread's `on_file` appends its job id to the list of
  the next watch, which `routes/watch.py:12-13` describes as that watch's own.
- `watch.py:102`, `ThreadsJoined` (`FolderWatch`): the join gives up after ten seconds, though `watch.py:98` says the
  stop "never leaves a thread dangling" and `server.py:143` "always joined cleanly". A job the thread submits after
  `jobs.shutdown()` opens a new pool.
- `session_fourd.py:210`, `OwnedNeverSwept` (`FourDSafe`): `:203` says a live directory is never touched. The lock file
  exists before it is locked (`:67`), and a sweep that judges the directory in between deletes it when it is owned.
- `routes/fourd.py:183`, `NavAlwaysDescribes` (`FourDSafe`): a navigation image computed before a reshape is associated
  after it, though `session_fourd.py:129` drops the association because "it no longer describes this dataset".
- `src/frontend/src/store/viewerCloseImage.ts:45`, `PlaceholdersKept` (`Viewer`): closing any image prunes every group
  against the open images, so it takes the placeholders out of their groups, which `viewerSession.ts:328-333` of the
  same directory calls "exactly the data destruction ADR 0002 §4 forbids"; `viewerProjectActions.test.ts:140` and
  `:254` expect an unavailable image to keep its membership up to the save. Groups that are empty, made to be filled
  later, go with it.

A seventh needs one constant changed: with `ReadMayFail = TRUE` in `JsonStoreTwo`, `SaveKeepsOthers` and `AtomicSpec` fail.
`profiles_db.py:110`: `_load` treats an `OSError` like a corrupt file and renames it away. If the rename fails too, the
next save overwrites every entry, though `standards_db.py:5` says a corrupt file is "preserved as `.corrupt-<epoch>`
rather than overwritten" (also `calibration_db.py:75`).

Met while modelling, seen by reading. In the backend:

- `project_session.py:186`: `adopt(merge=True)` merges only if a project is open already, so an append into a
  session that was never saved drops its results and regions, against `:160`.
- `project_session.py:335`: `relocate` resolves placeholders it read before the lock and then overwrites the list, so
  references an append added meanwhile are gone. In the passing run it runs alone.
- `project_session.py:217`: the same project appended again after its drive came back makes an id both open and a
  placeholder, and every later save is refused for the duplicate.
- `routes/_open_paths.py:123`: a move that fails leaves the upload's directory on the disk until the sweep of a later
  start, though `session_fourd.py:185` says that "no upload copy outlives the session". `UploadLoad` models it.
- `workspaces.py`: two saves of one slug that overlap may leave an entry that describes the older one.
- `storelock.py:64` says of a timed-out lock "proceed thread-locked only", where line 212 raises.
- `_project_adapter.py:74-81` empties the session before it resets the families, so channels registered in between
  stay as images of the new session that no family knows, though `afm.py:215` says that such an open "sees the new
  generation and aborts". `ClearStore` and `Reset` model it, and `LeadsToFamily` speaks of the current generation.

In the frontend (paths below `src/frontend/src/`):

- `store/viewerUndo.ts:111`: redoing a derivation whose image was closed meanwhile puts the image back into the
  library, where it cannot be closed, although the server has it no more. Undoing one leaves the image on the server,
  which saves it. `HistoryLeaves` and the note `closed` model both.
- `store/viewerUndo.ts` re-creates the annotations of a closed image when it undoes their deletion, though
  `store/viewerCloseImage.ts:5-7` says that none leaks. `AnnotsClosed` keeps the history, and the refinement counts a
  closed image as no part of the document.
- `store/viewerHoleUndo.ts:47` finds a hole again as the very array. A body drag that is dropped where it was picked up
  makes new arrays and no entry, so undoing "mark as hole" after it leaves the ring both a hole and an outline, against
  `store/viewerMeasureActions.ts:110`. With `Abrupt = TRUE` it breaks `HistoryKeepsDocuments`.
- `hooks/useAppHotkeys.ts:50`: undo, edits and project loads are not held back during a drag; the drop then
  records a state from before them. Also under `Abrupt`.
- An undone and redone annotation comes back without the text and style it was given meanwhile, and one that an undo
  brings back goes to the end of the list. Neither is modelled.
- A close that waits for its answer while a project load restores the same id removes the restored image.
  `Library` models it: `LibraryLoaded` keeps `closing`.

## What is not modelled

- Numerics, parsers, the manifest format and its migration: pure functions of large inputs, mostly floating point,
  with no state or interleaving. The repository's tests cover them.
- Results, usermeta sidecars, stateless routes and batch: each is a sequence of single steps that `ProjectSession`
  and `ScanImages` already have.
- Region sets and label maps, the launcher and the shells, the other frontend stores: planned, below.
- Of the modelled parts: rename and recalibration of an image, search roots, region sets (in `ProjectSession`);
  the calibration upsert without history, the removal of a reference region, validation (in `JsonStore`); argument
  parsing (in `Lifecycle`); the readers of a handle (in `FourD`); display settings, views, tilts, saved regions,
  the order of lists, text and style of annotations (in `Viewer`).
- The map covers a small share of the repository's lines. Most of them are numerics, parsers and the components that
  draw, which have no state to interleave.

## Plan

The order was and is by how much a wrong interleaving would cost the user: jobs, lifecycle, watch, stores, project,
scans, then 4D datasets, workspaces and the page's store, done here; then

1. `RegionMerge`, with `ProjectSession` extended by region sets: appends of one file again and again, renames on
   collision. `RegionLabels`: the conversion of a label map to regions and back, as functions, against a reference
   definition over all small maps.
2. `Launcher`: two launches that probe, bind, reuse or float, composed with `Lifecycle` for the exit of the first.
3. The frontend's 4D store: answers that arrive after the selection moved on.
