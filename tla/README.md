# ECOS Studio in TLA+

ECOS Studio is a desktop workbench for chip design: an Electron application
(`src/ecos/gui`) whose renderer shows workspaces, flows, logs and layouts, whose
main process runs the `ecc` tool, downloads tools and PDKs, tails logs and talks
to agent providers; a Python server (`src/ecos/server`) that offers flows and
resources over HTTP and server-sent events; and a native layout viewer in Rust
(`src/ecos/layout-viewer`).

This directory models the parts of it whose correctness depends on the order of
events: several Electron processes on one file system, operations that give up
control at every `await`, child processes that die, files that change while
they are read. It also models the layout viewer from the export of a design to what
is drawn and picked: the packer, the package on disk, its reader, the layout
database, the render planner, the painting of plans, and the viewer's frames and loader
thread.
`PROJECT.json` lists components, runs, mutants, hazards and
theorems, and maps each definition to the lines it models. Paths below
are relative to `src/ecos/gui/apps/desktop-electron/electron/` unless they begin
with `src/`.

## 1. The system

| Part | State | Operations | Talks to | What is hard | Correct when |
|---|---|---|---|---|---|
| Runtime locks `services/runtime/runtimeLocks.ts` | directories `<scope>.lock` and `.reclaim.lock` with `owner.json`; pids; mtimes | acquire, release, is-active, reclaim of stale locks | other processes, through the file system only | any interleaving of file-system calls, death at any of them, the grace period | one holder per scope, no scope blocked for good, every attempt ends |
| `SharedRuntimeManager` `services/runtime/` | map scope -> active job | `execute`, `isScopeActive` | locks, adapter, event listeners | awaits between check and use, everything may throw | no overlap, no leak, events agree with results |
| `DesktopRuntimeManager`, `EccCliAdapter` | active workspace | eleven commands | `SharedRuntimeManager`, ecc child process | scope and directory are computed at different times from different data | long-running commands on one directory do not overlap |
| `EccDbRuntimeManager` | none of its own | database commands | `SharedRuntimeManager` | as above | as above |
| `ResourceManagerService` | `manifest.json`, installed trees, map of active jobs, registry cache | install, update, cancel, uninstall, activate, validate, import, remove reference, list, runtime environment | network, file system, other processes | read-modify-write of one file over many awaits; cancel; crash | one active PDK, nothing corrupt installed, jobs never stuck |
| `LogTailService`, `WorkspaceService`, preload, `useHomeData` | offset, timers, flags; watcher; text shown | subscribe, sync, retry, close; apply event | chokidar, file system, IPC | timers, reads in flight and file changes in any order | shows each byte once, catches up, silent once closed |
| `AgentProviderProcessRuntime` | pending requests, child, line buffer | send request, handlers of data, error, close | child process | late output and late failures of a replaced child | each request is settled once, by its own child |
| Settings, remote content, shell, project scope and design file services | small maps and files | read, write, open, spawn | file system, child processes | shared temporary files, handlers before registration | last write stands, no stale session |
| Renderer: workspace lifecycle, flow runner, live logs, stores | sessions, cleanups, set of running flows | open, close, switch, run, bind and unbind | main process, server | results that arrive after the session they belong to is over | nothing of one session is applied to another |
| Server: event manager, notifications, ECC service | queues, buffers, current workspace and flow | publish, subscribe, run step, run flow, load | threads of the pool, event loop, SSE clients | threads share one service; buffer without subscribers; full queues | events reach the right workspace in order |
| Server: resources | locked inventory file, job tracker, registry cache | install, uninstall, import, activate | network, file system | awaits between locked sections | as for `ResourceManagerService` |
| `LayoutViewerService` `services/layoutViewerService.ts` | none | open | packer, viewer (spawned) | the source is exported again, the packer dies | a package that is reused is current |
| Packer `src/ecos/layout-viewer/crates/layoutpkg-packer` (with `layoutpkg-format`) | the files of `.layoutpkg` | pack, fingerprint | View JSON source, package | tiles, quadrants and large objects; written file by file | nothing lost or doubled; old manifest never names new files |
| Reader `crates/layoutpkg-reader` | index, tile cache, pyramid | open, load viewport, query point, overview level | package, while it may be rewritten | cache order, clicks on edges | answers are what the source has |
| Database and session `crates/layoutdb` | cells, shapes, instances; loaded detail; overview | merge a viewport, queries of views and hierarchies, tree rows | reader, planner | nested turns and mirrors, arrays, objects in several tiles | queries equal the flattened layout |
| Display and planner `crates/layout-display`, `crates/layout-render` | layers shown; level of detail | plan, pick | database | thresholds, budgets, levels with hysteresis | draws what is there and visible, picks the nearest |
| Native viewer `apps/layout-viewer-native` | requests pending and in flight, plan, revisions, planes, texture, names | frame, move, toggle, select | loader thread, session thread | results out of order, dropped or failed; caches | detail arrives, nothing stale on the screen |

How they interact: the renderer calls the main process over IPC channels
(preload). The main process runs a command through `DesktopRuntimeManager`,
which hands it to `SharedRuntimeManager`, which takes the on-disk lock of the
scope and lets `EccCliAdapter` spawn ecc. ecc writes logs that `LogTailService`
follows and sends to the renderer. ecc runs in the environment that
`ResourceManagerService` computes from its manifest. Several Electron processes
share locks and manifest on disk and nothing else. For a layout the main process
compares the package's manifest with the fingerprint of its source, runs the packer
if they differ, and spawns the viewer, which opens the package twice: for its session
and in its loader thread. The two share nothing but channels: a frame sends a
box and later merges the batch that comes back.

## 2. Modules

| Module | Models | Variables and what they stand for |
|---|---|---|
| `ScopeMutex` | what a lock of a scope promises (abstract) | `working`: jobs at work |
| `RuntimeLocks` | `runtimeLocks.ts`, one scope | `made`, `creator`, `written`, `fresh`: the two lock directories; `call`, `step`: the call each process is in and the file-system call it is at; `retries`; `alive` |
| `MCRuntimeLocks` | adds the history variable `alone` | |
| `RuntimeLocks_proofs` | theorems | |
| `SharedRuntimeManager` | `sharedRuntimeManager.ts`, `runtimeEvents.ts`, for several managers | `phase` of each call, `active` (the map), `holders` (locks on disk whose process lives), `emitted`, `outcome`; constants say on which jobs a listener may throw (`FaultyListeners`), the lock's files may fail (`FaultyDisk`) and the adapter passes events on (`ReportingJobs`, `Reports`, at most `MaxReports`) |
| `DesktopRuntime` | extends it by `desktopRuntimeManager.ts` and `eccCliAdapter.ts` | `activeWorkspace` of each adapter, `target`: the directory a command works on |
| `MCDesktopRuntime` | up to five jobs of two processes | |
| `DesktopRuntime_proofs` | theorems about the managers and the desktop | |
| `ResourceManager` | `resourceManagerService.ts` | `manifest`, `tree` on disk; per operation `request`, `step`, `snapshot` (its copy of the manifest), `archive`, `aborted`, `result`; `activeJobs`. `Checksummed` and `WithAssets` say what the registry has a checksum for and what downloads release assets that nobody verifies |
| `MCResourceManager` | adds history variables `clean`, `last`, `inTime` | |
| `ResourceManager_proofs` | theorems | |
| `LogTail` | `logTailService.ts`, the read in `workspaceService.ts`, preload, `applyLiveTailEvent` | `log` (the file), `watching`, `notice` (chokidar), `sub` (subscription state), `sync`, `handle`, `update` (performSync), `channel` (IPC), `listening`, `view` |
| `MCLogTail` | adds the history variable `torn` | |
| `LogTail_proofs` | theorems | |
| `AgentProvider` | `agentProviderProcessRuntime.ts` | `child`, `status`, `owner`, `settledBy`, `buffer`; `condition`, `stdinOpen`, `killed`, `stdout` of the processes |
| `AgentProvider_proofs` | theorems | |
| `LayoutGeometry` | boxes, turns and mirrors, as the crates compute them | |
| `PackageFormat` | `layoutpkg-format`: records, codes, encoding | |
| `PackageSource` | the packer's reading of a source: the rectangles of every object, layers, the hierarchy | |
| `PackageTiles` | the packer's tiles, quadrants, large objects, overview, pyramid | |
| `PackageReader` | `layoutpkg-reader`: decoding, viewport, click, tile cache, levels | |
| `LayoutPackage` | launcher, packer and reader on one package | `version` (the export the source holds), `packer` (where it is, and which exports it read), `disk` (a record of the files that are there), `reader`, `answer`, `raced`, `torn`, `rewritten` (the files changed since the viewer opened them), `crashes` |
| `MCLayoutPackage` | two exports of a small design; properties | |
| `PackageReader_proofs` | theorems about the encoding, the tiles and the cache, for every input | |
| `LayoutPackage_proofs` | theorems about the launcher's check, the open package and its overview | |
| `LayoutDb` | `layoutdb`: cells, arrays, views, queries, tree rows | |
| `LayoutSession` | `layoutdb`: a database filled from a package, batch by batch | |
| `LayoutDisplay` | `layout-display`: layers and what they show | |
| `LevelOfDetail` | the levels of the zoom and their hysteresis | |
| `RenderPlan` | `layout-render`: plans of each kind, and picking | |
| `RenderSurface` | the native viewer's `render_surface.rs` and `raster_plane.rs`: which pixels a plan paints, and from a pixel back to a click | |
| `SelectionNames` | the viewer's names of objects and nets | |
| `LayoutView` | a session that is looked at | `disk`, `session`, `model` (display), `view`, `policy` (depths), `window`, `level`, `answer` |
| `MCLayoutView` | a flat and a nested package; the flattened layout; properties | |
| `DetailLoader` | `AsyncLoadState` and `BackgroundLoadHandle` of the viewer | `load`, `loadGeneration`, the channels `requests` and `results`, `worker`, `merged`, `failures` |
| `Viewer` | extends it by the frames of the viewer | `design`, `session`, `view`, `shown`, `moving`, `inputs`, `overview`, `revisions`, `level`, `plan`, `planes`, `texture` |
| `MCViewer` | four views of one design | |
| `Viewer_proofs` | theorems about the loader and the viewer | |

**Grain of atomicity.** JavaScript runs to the next `await`, so an action is one
such segment. In `RuntimeLocks` every file-system call is an action, because the
other party is another process; `rm -r` is two (unlink, rmdir) and writing
`owner.json` is two (create, fill). In `ResourceManager` writing the manifest is one
action: the code writes a temporary file and renames it. `OpenLog` and `ReadLog`
are separate since the code takes the size first and the bytes later. In `LayoutPackage`
a step of the packer writes the files of one directory, in the order of the code; the
reader's calls are atomic, since it reads in one thread. In `Viewer` a frame is one
action (the whole `update` and `draw_canvas`), and the loader thread takes its
requests, loads and answers in steps of its own.

**Composition.** `DesktopRuntime` extends `SharedRuntimeManager`. The latter does
not contain the lock protocol: it assumes of the scopes in `SoundScopes` that
two handles never coexist, and of the others nothing, which is what `RuntimeLocks`
delivers in its good and its bad case. Both modules are shown to implement the
same abstract `ScopeMutex` (`LockImplementsMutex` for two contending processes,
`ImplementsScopeMutex` for the managers over sound scopes).

The layout modules are stacked as the crates are. `PackageSource`, `PackageTiles`
and `PackageReader` are operators; `LayoutPackage` runs them against a changing disk,
and `LayoutView` builds its sessions from what they make of a source. `Viewer`
extends `DetailLoader` and abstracts the session to the tiles it has merged and a
plan to what it shows of them, which `LayoutView` has in full: the first is about
order, the second about contents.

**Log text.** A byte is a pair of the log's generation and its position, so that a
property can say which byte is shown where; a character is one byte.

**The first event of a subscription** cannot precede the listener that preload
registers after the IPC reply: the reply is sent before the first timer fires and
IPC keeps the order. `LogTail` therefore starts with the listener registered.

## 3. Runs

Bounds are named constants or operators of the MC modules.

| Run | Question | Instance |
|---|---|---|
| `locks_contention` | Who excludes whom, does a lone caller get the lock, is anything left on disk? | 3 acquiring processes, `RetryAttempts` 1, crashes anywhere |
| `locks_pair` | Is it a mutex for two contenders, and does every attempt end? | 2 processes and one query, weak fairness |
| `locks_three` (violation) | Is it a mutex for three? | as `locks_contention` |
| `desktop_runtime` | Overlap, leaks, what subscribers are told, refinement | 2 processes, 5 jobs (one not long-running), 2 directories of which one has a sound lock; one long-running job whose listener may throw, whose lock the disk may fail at any call and whose adapter may pass on one end that ecc announces; crash |
| `desktop_runtime_fallback` (violation) | the same when a flow names no directory | 5 jobs, `FlowDirectory = NoDirectory`, one throwing listener |
| `resource_manager` | manifest, trees and jobs under concurrency | 3 operations in 2 processes, 1 tool, 2 PDKs, 2 versions, a manifest left by an earlier session, a tool without checksum, a PDK with release assets, crash, cancel, failures |
| `log_tail` | order, completeness and silence of a live log | logs up to 3 bytes, begun twice, one fault, two events in flight |
| `agent_provider` | ownership and settlement of requests | 3 requests, 2 processes, one line of junk |
| `package_pipeline` | Is what a reader returns what the source has, and a package that is reused current? | 2 exports on an 8 x 8 die with every kind of geometry, 2 x 3 tiles (the rows do not divide the die), objects in up to two tiles, quadrants to depth 2, caches of 1 and 2, one death of the packer |
| `layout_view` | Do queries, plans, painted pixels, clicks and names agree with the layout? | a flat and a nested package, 4 windows, 2 policies, 2 settings, 3 clicks and 5 clicked pixels, one layer and the instances switched |
| `viewer` | Does detail arrive, and is anything stale drawn? | 3 kinds of design, 4 views, 2 tiles, 3 inputs, one failure, 2 planes |
| `viewer_stuck` (violation) | the same for a view that is drawn in detail only at rest | as `viewer` |

Why the bounds are enough. *Locks:* the known races take one process that holds or
releases, one that reclaims and one that comes in between: three. A second
retry repeats the first; `RetryAttempts` (in the code a constant) only
multiplies it, and the theorem is for any value. The grace period may elapse at any time that no
live process is between two of its file-system calls on the same directory
(`SlowDisk = FALSE`: no process pauses for five seconds there). *Managers:* overlap needs two
jobs of a scope, in one process and in two; a stale active workspace needs a load
and a command without directory. Events are an account of each job by itself, which
another job touches only through the map and the lock: one job that meets every fault
shows it. One passed-on end is enough to repeat or to contradict the manager's own, and
the proof is for any number of them, of any kind. *Resources:* the races are between two
operations on one manifest; the third makes another one stale. *Log:* three bytes
exceed the first chunk (2 characters) and the later ones (1), so that truncated
and plain reads both occur; a second generation makes stale offsets.
*Provider:* two processes are one replacement, three requests leave one on
either side and one in flight. *Package:* the grid has two columns that divide the
die and three rows that do not, so that tile edges are rounded and strips are lost; the
design has objects that fit a tile, that are cut by the edges of tiles, that exceed the
tile limit (two tiles) and that touch edges; three primitives per tile force quadrants; pyramid bins of 2, 3 and 8 units cover sparse,
large and whole-die bins; two exports make every stale combination of manifest,
files and open reader; a cache of one tile has to throw out, one of two need not always.
*View:* the nested package puts a mirrored cell into a turned one
and a two-way array with a negative step beside it, so that each orientation is composed
with another; the windows take part of an array; the budgets of the screen are smaller
than what the densest window holds. The fourth window has 3 x 2 pixels and cuts the lines of
the hierarchy at both ends; a pattern's tile (4 pixels here) and the spacings of
its dots are smaller than the planes, so that a rectangle covers a whole tile and a part of
one. *Viewer:* the four views are one on each side of
every threshold and one inside the hysteresis; three inputs are what it takes to ask,
replace and give up a request (four were run once, half a million states, with the same
result); two planes make eviction occur.

What the passing runs establish:

- `FirstComerExcludes`: without a death, a finish or a failure, however many
  contend, one runs. `LoneCallSucceeds`: whatever the dead have left, a process
  that comes alone is served. `NoLeak`, `AttemptsEnd`: contention ends and cleans up.
- `ManagerExclusion` needs no lock. `SystemExclusion` needs a sound one; it follows from
  `ImplementsScopeMutex` and is proved, without a run of its own.
  `WorkIsGuarded` holds through every throw. `NothingLeaks`: the map loses its entry in every
  case; a lock stays on disk after its call only if the file system failed that call (a
  release that cannot read or remove it, an acquisition that cannot read its owner back),
  and then until the process ends. `EventsTellOutcome`: the last event is the outcome,
  completed, failed or cancelled; unless a listener threw, the manager announces one end.
  The adapter may have passed on ends that ecc announced before, which lie between
  the start and the manager's. `WorkspaceExclusion`, the promise to the user, holds when long-running commands
  name their directory.
- `OneActivePdk` holds in spite of stale copies, `JobsMatchInstalls` throughout.
  `NothingCorruptPlaced` is about what has a checksum and no release assets (`Vouched`).
  `CancelledInTime` is about cancels up to the last `throwIfAborted`, which comes before the
  scan of the directory and the edit of the manifest. `ListedIsReady` (of what is
  not vouched for: that it is there) and `LastSuccessStands` hold while operations do not collide (`clean`): the code has
  no lock around its read-modify-write, so a collision can lose an update, and
  nothing in the repository promises otherwise.
- `ViewIsConsecutive`, `BannerTells`, `CatchesUp`, `ClosedStaysQuiet` as stated in
  `MCLogTail`, with their limits: a log truncated between the stat and the read
  (`torn`), and one that is begun anew and has outgrown the old offset, are not
  recognised by the code.
- `PendingIsAnswerable`, `SettledByOwner`, `BufferIsCurrent`, `GivenUpIsKilled`,
  `NoHopelessWait`: a replaced provider neither blocks nor disturbs its successor.
- `ViewportTruthful`, `QueryTruthful`, `DensityIsConserved` compare what comes
  out of the package with the source, unit square by unit square, object by object,
  bin by bin. On no grid is anything shown or found that is not there, or shown twice; what
  is lost is lost only in the strips between an edge of a tile as it is rounded and as
  coordinates are put into tiles (outside `Settled`).
- `CacheCheckIsSound` follows exports and deaths through the launcher's
  check; an export during the pack (`raced`: the fingerprint is taken last,
  packer `lib.rs:366`) and a forced rebuild that dies (`torn`) defeat it in the code and
  are excluded by name. Each export differs from those before (`ExportAssumption`); see
  below for one that does not.
- `CacheHoldsItsTiles` is the tile cache's own consistency and its agreement with the
  source. This and `DensityIsConserved` are not promised of a package that was rewritten
  under the open viewer, whose cache and pyramid are of the old one (`rewritten`).
- `ViewQueryIsFlattening` compares the hierarchical queries with a recursive
  flattening written for the purpose; `PlanDrawsWhatIsThere`, `PickFindsTheNearest`
  and `SelectionTellsTheSource` build on the same flattening and on the source.
- `PlaneShowsThePlan` takes a plan to its pixels and back: nothing is painted further
  than a pixel from an item, an outline, a marker or a line that is in the window leaves
  pixels where it is, and a click on a painted pixel of a near plan finds an object.
- `WaitingIsKnown`: what is on its way is known to be. `PlanIsCurrent`: a reused plan is
  the one that would be made. `TextureShowsPlan`: at rest the texture is the plan's.
  `NearDetailArrives`: the detail of a near view comes, or the user leaves.

**Fairness.** `locks_pair`: every process inside the protocol takes its next step
(its event loop runs); starting, crashing and ending the locked command are not
fair. `log_tail`: timers fire, chokidar reports a change once its scan is over,
file-system calls answer, IPC delivers, and a renderer that stopped listening has
its unsubscribe handled. The writer, errors and the end of the initial scan are not
fair. `agent_provider`: Node delivers the data, errors and close of a child that have occurred, and a
spawned process starts or fails to; the provider need not answer or exit.
`viewer`: the thread that opens the session ends, the loader thread runs, and a frame
is drawn while the session loads or work is pending, for which the code asks for a repaint
(`main.rs:2265-2285`, `992-994`); it asks for one while the view moves too, but reads at the
end of the frame whether it still does, so that this is not relied on. Input is not fair, and a frame
nobody asks for need not come.

`CHECK_DEADLOCK FALSE` in the runs of bounded jobs, operations and requests: each is
issued a bounded number of times and the system may stop when they are over. The
launcher, the session and the viewer always can go on, and deadlock is checked there.

### Disagreements found

- `locks_three`: two commands may hold one scope. j2's `mkdir` fails while j1 is
  releasing; j1 finishes; j2 finds nothing active, takes the reclaim lock and
  probes again; j3 acquires the main lock; j2 removes it
  (`runtimeLocks.ts:127-130`) and acquires it too. The tests promise
  exclusion across manager instances (`desktopRuntimeManager.test.ts:320`) and
  one winner of concurrent reclaimers (`runtimeLocks.test.ts:114`).
- `desktop_runtime_fallback`: a long-running command without directory is locked
  under the global scope (`desktopRuntimeManager.ts:78-93`) and works on the
  active workspace (`eccCliAdapter.ts:156-162`), beside a command that names it,
  which `desktopRuntimeManager.test.ts:260` says is blocked.
- `viewer_stuck`: between 32 and 96 units per pixel detail is drawn only at rest. A
  request is in flight; the user zooms in and a newer one is pending; the first result
  arrives and is dropped for the newer one (`main.rs:941`) without ending `in_flight`;
  the user zooms out, and the pending one is given up. At rest `needs_request`
  (`main.rs:922`) finds its box covered by the request in flight, which nobody will
  answer: the detail, which `src/ecos/layout-viewer/README.md:121` says is loaded as the
  view pans and zooms, does not come, and the viewer repaints for ever.

Noted while modelling, without a run, since nothing in the repository promises
otherwise or the model leaves the numbers out:

- A release of a lock that fails (`runtimeLocks.ts:201-206`) is not tried again: the scope is
  refused until the process ends, and the caller gets an exception after the terminal event.
- `completed`, `failed` and `cancelled` events of ecc reach subscribers as they are
  (`eccCliAdapter.ts:588-623`), before the manager's own; the renderer takes each for an end
  (`src/ecos/gui/apps/renderer/src/api/runtimeEvents.ts:153`).
- A listener that throws on the first text after ecc was spawned (`eccCliAdapter.ts:586`)
  ends the job and releases its lock while the child works on.
- `cancelResource` answers `cancelled` as long as the job is in the map
  (`resourceManagerService.ts:362`). An install that is past its last check (706, 904), while it
  scans its directory or edits the manifest, goes on and reports done.
- An archive for which the registry has no checksum passes the verification
  (`resourceManagerService.ts:2037`), and release assets are never verified (1040).
- A tile's box is rounded and a coordinate's tile is floored (packer `lib.rs:502`,
  `:526`): where the grid does not divide the world, a unit strip at a tile's edge is lost.
  The run of the package reaches such strips and tolerates them by name (`Settled`).
- A package says which source it is of by a fingerprint only. If an export is replaced,
  the packer that reads the new one dies over the files, and the old export comes back,
  the old manifest matches again and the half-written files are taken for current.
- A failed load does not end `in_flight`: the same box is not asked for again. A thread
  that cannot open the package answers once, and later requests are lost.
- While a near hierarchy is moved the viewer expects a `HierarchyNear` plan and the
  planner makes a `HierarchyMid` one, so that no plan is reused.
- A detailed plan made where density was expected is cached under the overview's
  revision, and detail that comes later does not replace its texture.
- A wire's via is looked up among the pins first (`main.rs:201`), and a pin's via among
  the nets of wires: an id that occurs in both files gives the other's name.
- A box without area that lies on a pixel's border is planned, and the raster paints
  nothing of it. In a gap of a sparse array a click on the painted outline may find nothing.
- The layout viewer's README says that large objects hold die and core outlines; the
  packer drops both from tiles and large objects (packer `lib.rs:551`).

## 4. Proofs

All proofs hold for every value of the constants that satisfies the named assumptions:
any number of processes, jobs, operations, requests, boxes and views, logs of any length,
any number of exports and crashes. A theorem about a property that needs a history
variable is about the specification of the MC module that adds the variable (`MCSpec`),
which constrains nothing else. Few of the properties are inductive; the
invariants below are what makes them so.

- **`RuntimeLocks_proofs`** (`JobsAssumption`, `RetryAssumption`). `TypeCorrect`, with `WaitersMayRetry` to
  keep the counter from passing zero.
  - `FirstComersExclude`, assuming `~SlowDisk`: `Early` says that at most one process sets
    the main lock up, that a directory without owner text is fresh and being set up, and
    that whoever found it taken still finds it so; it is inductive as long as the state is
    `Undisturbed`, which once false stays false. Only jobs count there: queries may come,
    probe and die.
  - `TwoJobsExclude`, `TwoJobsImplementMutex`: of two jobs, both can only run when
    neither was disturbed, so exclusion needs no further argument, however a lock was
    reclaimed; with it each step is one of `ScopeMutex`. The hypothesis that there
    are two is needed: the run `locks_three` refutes it of three.
  - `LocksNeverLeak`. Nobody keeps an account of the directories, and with three
    contenders one process may remove another's lock; so the invariant is about the
    directories: as long as nobody died, each is *tended* (`Tended`). Whoever created
    `owner.json` holds the lock or is about to verify it (`OwnerHolds`), and an empty
    directory has a process that stands before its `create` or `rmdir` (`EmptyIsTended`).
    When no call is under way nothing can be tended, so nothing is there. It holds with
    `SlowDisk` too.
  - `LoneCallsSucceed`. `Lone` tells what a process that is alone finds at each of its
    calls: what others left (`LeftOver`: stale, or of a dead owner), what it is making
    itself (`Trying`), and what it owns, for either directory (`MainIsInOrder`,
    `ReclaimIsInOrder`). No step then ends in a refusal or a throw.
- **`DesktopRuntime_proofs`** (`RuntimeAssumption`, `DesktopAssumption`). First the
  managers (`Spec`), then the desktop (`DesktopSpec`).
  - `AlwaysConsistent`: exclusion needs to know that a working job has its map entry and
    its handle. `Consistent` adds just that: `MapConsistent` (every entry is a live
    long-running call of its manager and scope, and every such call has its entry) and
    `HandlesConsistent` (whose locks are on disk, that those of calls that are over were
    failed by the disk, and that a sound scope has one at a time). `LeaveMap` is the
    one argument behind all ways a call ends. `ManagersExclude`, `SystemExcludes`,
    `NothingEverLeaks`, `WorkIsAlwaysGuarded` follow and, step by step, the refinement
    `ManagersImplementMutex`.
  - `EventsAlwaysTell`: `Told` gives, for each phase and outcome of a job, the shape of what
    was emitted for it so far: started and then reports while the adapter works
    (`IsStarted`), and the whole story of a call that is over (`Story`). Throughout, each
    report has the start before it and no end (`Orderly`).
  - `DesktopRunsManagers`: a step of the desktop is one of the managers, so that all of the
    above holds of it (`DesktopKeepsPromises`).
  - `NamedCommandsExclude`: a command that names its directory works on it
    (`TargetIsNamed`), and that directory is the scope it is locked under. `WorkspacesExclude`
    is the promise to the user, under the hypothesis that each long-running command names
    its directory. The run `desktop_runtime_fallback` shows that it is needed.
- **`ResourceManager_proofs`** (`ResourceAssumption`, `InheritedAssumption`). `TypeCorrect`, with `Requested` and
  `StatsEntry`.
  - `OnePdkStaysActive`: every edit maps a manifest with at most one active PDK to
    such a manifest (`EditKeepsOne`), and every copy was on disk once, so that stale
    copies do no harm.
  - `JobsAlwaysMatch`, `NeverCorrupt`: `Orderly` ties an operation's kind, step, archive and
    result together, so that what is unpacked was verified if it has a checksum
    (`GoodUnpacked`).
  - `CancelIsHonoured`: an install that was cancelled in time is aborted and stands at
    a step that still ends in a `throwIfAborted` (`Stopping`, `OnTheWay`).
  - `SuccessStands`: while operations do not collide, one at a time is between its read and its
    write, and its copy is what the file says (`Serial`). What it writes then differs from
    the file in its own resource, and for the others at most in which PDK is active and in
    their health (`WriteKeeps`), and a success on those still stands.
  - `ListedStaysReady`, for requests that the list of resources offers (`OfferedOnly`; the run
    `resource_manager` has it too): `Tidy` adds that an
    operation has its resource for itself, that an install is of a version not listed, and
    that what was placed is complete (`PlacedIsReady`), which a corrupt tree is where nothing
    vouches for it.
- **`LogTail_proofs`** (`TailAssumption`).
  - `StateInvariant` is about the service: the size and generation that the stat saw bound
    what is read and what is going to be applied (`Opened`, `Fetched`), and a closed
    subscription has no timers (`ClosedIsOff`). `NothingAfterClose` follows.
  - `ViewsAreConsecutive`, `BannerAlwaysTells`: the events on their way are looked at as the
    views that the renderer is going to show one after the other (`Ahead`). `Screen` says that
    each of them is in order, and that the last one ends where the subscription
    stands (`Latest`): what is read next continues it, however many messages are in between.
- **`AgentProvider_proofs`** (`ProviderAssumption`). One invariant `Inv`: chunks name their
  process (`OutputIsOwn`), processes are numbered in order, a new request is untouched and
  a process that was given up was killed while starting or running; with them
  `PendingIsAnswerable`, `SettledByOwner` and `BufferIsCurrent` are inductive
  together.
- **`Viewer_proofs`**: first the loader by itself, then the viewer (`LoaderAssumption`,
  `ViewerAssumption`).
  - `WaitingIsAlwaysKnown`, for any boxes and any number of failures. `WaitingIsKnown` is
    not inductive: a frame takes the newest of several results and forgets the rest.
    `LoaderInv` adds that generations ascend and what is pending is newer than all that was
    sent (`PendingIsNewest`), and that results, the thread and its requests are in that order
    (`AnswersInOrder`), so that what is taken is older than what is still underway. So does
    `DetailNeverGoesBack`: each batch merged is newer than all before. The lemmas follow
    the code: the frame (`ServeSafe`) and the thread (`WorkerSafe`).
  - `ViewerRunsLoader`: whatever a frame does to requests and results is what the loader's
    specification allows, so that the theorems of `DetailLoader` hold of the viewer
    (`ViewerKnowsItsWork`).
  - `PlanIsAlwaysCurrent`, `TextureAlwaysShowsPlan`: a plan and every plane in the
    cache is `Honest`: it has a revision not above the one in force and, if it is that one,
    shows what is loaded. Whatever changes what is loaded raises the revision. The two
    revisions (of the overview and of the detail) are told apart by what the viewer expects
    at that zoom (`ExpectsDensity`), and so the exceptions noted above, a plan of detail
    where density was expected and a hierarchy that is moved, turn out harmless: such a plan
    is never taken for what is expected.
- **`PackageReader_proofs`** (`GridAssumption`): what holds of the format and the tiles for
  any input. What is defined by recursion over data (offsets, the flattened words of a
  file, the split of a tile into quadrants) is reasoned about with least counterexamples,
  after the function has been shown to exist.
  - `TileRoundTrip`, `PyramidRoundTrip`: what the reader decodes is what the packer encoded,
    for any records, and for a pyramid of any number of levels and bins. The argument of the
    second is where in the file each level begins (`LevelAt`): the offset that the reader
    moves on, level by level, has to agree with it.
  - `ShardHoldsTiles`: the words that the index names for a tile are that tile's.
    `TileIdsDiffer`: no two tiles of a package have one id, however deep quadrants are split.
- **`LayoutPackage_proofs`** (`ExportAssumption`, `SourceAssumption`,
  `BoxAssumption`, `CapacityAssumption`, `ViewportAssumption`). The second says that boxes, layers and ids are made of integers and that
  every record has one of the format's kinds, which are the types of the code's fields; the third
  that no record has an empty box, the fourth
  that the callers of the cache, which are finitely many, have a largest capacity, and the last
  that viewports and clicks are given in integers.
  - `CacheCheckStaysSound`, about the launcher and the order in which the packer writes. A new
    export makes the manifest on disk stale, for it was written for an earlier one
    (`KnownExport`); a rebuild that nobody forced begins with a stale manifest, which stays
    stale until the packer writes another (`BegunStale`); and by then the files are there,
    all and no others (`Building`, `Written`). A death at any point leaves a stale manifest.
  - `CacheAlwaysHoldsItsTiles`: each step of the cache (a hit, a tile read and put in, the
    eviction that follows) keeps it in order (`OrderlyCache`) and, as long as nobody
    rewrites the files, coherent with them (`CoherentCache`); that what it holds is what
    the source has there needs `ShardHoldsTiles`, `TileIdsDiffer` and `TileRoundTrip`.
  - `DensityIsAlwaysConserved`: the bins that a rectangle touches share it out so that
    nothing is lost and nothing counted twice (`SharesOfRect`: along each axis the borders
    of the bins telescope; one that touches too many goes to a single bin whole); collecting
    the shares of all rectangles into the bins of a level keeps the sums
    (`BinsKeepAreas`, `LevelKeepsAreas`); the level is written and read
    back (`PyramidRoundTrip`), and the reader has the pyramid of the package that is there
    until it is rewritten (`Viewed`). It is proved for whatever grid and bin sizes.
  - `ViewportAlwaysTruthful`. What a load returns is counted: how many records of a given
    object hold a given unit square (`Count`). A record that is clipped to the tiles of its
    range holds the square in at most one of them, in the tile of the square if that is
    settled and the record is not large (`RangeHolds`); a tile that is split hands each
    square to exactly one quadrant, level by level, so that the leaves of a tile count what
    the tile did (`Covers`); a large object is kept whole and is in no tile. The invariant
    `LoadInv` says that the last load was served from tiles of this package (`Loaded`), on
    top of what `CacheAlwaysHoldsItsTiles` knows.
  - `QueryAlwaysTruthful` (`QueryInv`). Each record of each tile is a piece of a record of
    the source, through all levels of quadrants (`TellsSource`); the fold over the
    candidates in the tiles and the large objects has a hit exactly when one of them meets
    the box around the click, and that hit is one of them (`FoldIsBest`).
  - `ViewportFaithfulOnExactGrids`, `QueryFaithfulOnExactGrids`: if the number of columns
    divides the width of every world and the number of rows its height (`GridDivides`; for
    clicks also that each world has an area, `WorldsAreThere`), every square is settled
    (`ExactGridSettles`), so that `ViewportFaithful` and `QueryFaithful` hold: each object is
    shown exactly as often as the source has it, and a click finds something if and only if
    something is there. The theorems are implications for grids that divide; that others lose
    strips is a disagreement noted above.
  - These theorems, like that of the overview, exclude a package that was rewritten under
    the open viewer (`rewritten`): the reader compares nothing but the index, which may
    be equal for two packages, and its cache may hold tiles of the earlier one. The two
    designs of the run differ in their index, so that there the two properties hold without
    the exclusion.

Every safety invariant and action property of the runs of locks, managers, resources,
log tail, provider, package and viewer is proved, some under the hypothesis its entry above names. Proved and not run: the types
(`TypeCorrect` three times, `StateInvariant`, `AlwaysConsistent`), `SystemExcludes` and
`NamedCommandsExclude`, `DetailNeverGoesBack`, the steps `DesktopRunsManagers` and
`ViewerRunsLoader`, the theorems of `PackageReader_proofs` and those for exact grids.

Only model-checked:

- the liveness properties (`AttemptsEnd`, `CatchesUp`, `NoHopelessWait`,
  `NearDetailArrives`), since liveness and ENABLED are beyond this prover;
- the five properties of `layout_view`: `LayoutDb`, `RenderSurface` and
  `MCLayoutView` declare RECURSIVE operators, and no theorem reaches them.

## 5. What is not modelled

Each component that is left out is listed in `PROJECT.json` with its reason, and
each known hazard there that no property covers has a note. In the desktop
application: spawning ecc and reading its JSON lines (which end as events passed on and a
result), and its texts; the registry's cache; pids that are
used again; I/O errors that look like an empty manifest; UTF-8 sequences split between
chunks; the stores and small services of the main process; the renderer beyond the
live log's text; the server.

In the layout viewer: numbers are integers of any size, so that overflow of `i32`, `as`
truncation and rounding of `f32` and `f64` are outside (a quotient of a coordinate by
the size of a tile is exact here and a double in the code); a field of a binary record is a number and not its bytes; a file is
written whole or not at all; a directory of the package is cleared in one step with the
others (a death between them would leave old files under a manifest that is stale in any
case); two launches of one layout at a time; tracks and gcell
grids; `load_overview_coverage`; the classification of layer names; spatial indexes
(modelled by what they answer); colours and the blending of planes (of a plane the set of
its painted pixels is kept); the direct drawing of small plans of detail; resizing of the
window; when the thread that reads names ends (they are either not read or read).
Names come from the source as it is when something is first selected and geometry from
the package; the model's source does not change under an open view.

Known hazards of the parts that are not modelled, beside those in `PROJECT.json`: events
of the server's event manager may overtake each other or be dropped when a queue is full
(`sse/manager.py:45`, `:77`); a notification goes to the workspace that is current when it
is sent (`notify_service.py:80`); routes run in a pool of threads that
share one service, and a load replaces the workspace and flow a run iterates over
(`ecc.py:512`); a job of the server is started before an await outside
any try (`resource/router.py:1008`); the active PDK is read and written under
separate locks (`resource/pdks.py:294`); a cleanup may be registered for a session that is
closed (`useWorkspaceLifecycle.ts:207`), a run entered after a switch
(`useFlowRunner.ts:159`), a watch left behind (`useHomeData.ts:1201`,
`workspaceService.ts:336`); a shell's exit may precede its entry in the map
(`registerIpc.ts:834`). Of the parts that are: a log that is rewritten and outgrows its
old size is taken for an extension, and one truncated between stat and read is torn
(`workspaceService.ts:273-275`); importing the active PDK makes it inactive
(`resourceManagerService.ts:471`); a request to a silent provider waits for ever.

## 6. Plan

1. *Done:* locks, managers, adapter, resources, log tail, agent provider; the
   layout package, database, planner and viewer; the proofs above.
2. *Next, proofs:* what an
   open reader and a package that was rewritten under it have to do with each other (action
   properties of `LayoutPackage`); the lemmas on geometry (turns and mirrors compose and
   invert) that `LayoutDb` rests on, and recursive functions in place of its RECURSIVE
   operators, so that the flattening can be reasoned about.
3. *Then:* `EventManager` (server: `sse/manager.py`, `notify_service.py`), whose
   properties are order per publisher, delivery of what was buffered, and separation of
   workspaces; `ServerResources`; `WorkspaceSession` of the renderer.
