# UNAV Pro: TLA+ specification

UNAV Pro is a Cinema 4D plug-in in Python that shows astronomical catalogs as
point clouds, with an optional native (C++) viewer. This directory models the
parts of it whose state outlives one function call, checks them with TLC on
small instances, and proves the most important properties with TLAPS for every
value of the constants. Paths below are relative to the repository, file names
without a directory to `unav_pro/`.

## 1. Inventory

### 1.1 Components

| Component | State it keeps | Operations | Model |
|---|---|---|---|
| Visible-sector sync and scene actions: `core/scene_sync.py`, `core/mock_actions.py`, `c4d_objects/point_cloud_builder.py`, `navigation_null.py` | marked nodes of the document, the instance template and cone under UNAV_Debug, the navigator, the default metadata lookup | Sync Visible Sector, Sync at Epoch, Generate, Regenerate, Clear, cone toggle, Create Navigation Null | `SceneSync` |
| Render backends: `c4d_objects/render_backend.py`, `instance_builder.py`, `native_viewer_backend.py` | the uid-to-object map of a pass, the pegs, the exported file | `update_visible_sector`, `clear` | `SceneSync`, `NativeBridge` |
| Native bridge, Python side: `core/native_bridge.py`, `data/binary_export.py` | request, status, binary and sidecar files | export, reload, clear, status line | `NativeBridge` |
| Native point viewer: `native/src`, `native/include` | process-wide point buffer, its vertex shadow, its cap | reload command, draw, free, plug-in end | `NativeBridge` |
| Task queue: `core/task_queue.py` | tasks, statuses, cancel flags, counters | enqueue, cancel, prune, run one, run all, runner steps | `TaskQueue` |
| Mission library: `voyage/mission_manager.py` | missions and their order in memory, one file each, an index | create, update, delete, move, sort, duplicate, import, reload | `MissionManager` |
| Mission playback: `voyage/playback.py`, `camera_path.py`, the dialog's Missions tab | the engine's step, flags and counters, the active mission, the Pick # field | transports, seeks, speed, advance, waypoint edits, pick | `VoyagePlayback` |
| Filter, streaming, safety gates: `core/spatial_filter.py`, `sector_streaming.py`, `safety.py` | none | test, rank, cap, merge, gate | `SectorStream`, `SceneSync` |
| Spatial index: `core/spatial_index.py` | chunk files and a manifest beside a catalog | build, query | `SectorStream` |
| Catalog database: `db/db_manager.py`, `db/spatial_query.py`, `tools/import_catalog_to_db.py`, `tools/fetch_jpl_solar_system.py` | SQLite tables, the schema version, a connection's view | open, apply schema, import, fetch, delete, box query | `CatalogDB`, `SectorStream` |
| Per-user stores: `core/dataset_registry.py`, `bookmarks.py`, `project_state.py`, `ui/dataset_manager.py`, `ui/tools_panel.py` | `datasets.json`, `bookmarks.json`, project sidecars, the scene's container, the copies panels keep | load, save, bootstrap, register, align | `UserStores` |
| External tools: `tools/tool_runner.py`, `python_env.py` | one child process, its pipe, the panel's last result | run, probe, time out, kill | `ToolRunner` |
| Presentation and exhibition: `presentation/`, `ui/exhibition_panel.py` | the document, the show's cursor and cards, lock, view, notes, highlight, chapter | start, walk, pause, edit, exhibit, toggle, lock | `PresentationRuntime` |
| Query cache and pager: `db/streaming.py` | an LRU of chunks | lookup, invalidate, page | none: no production caller (7) |
| Dialog widgets, exporters, query, knowledge, astro, cinematic, procedural and animation libraries, connectors, projects, diagnostics | none that outlives a call, or widgets | | none (7) |

### 1.2 How they interact

* The dialog runs on the host's main thread and calls one handler per click.
  A handler reads the navigator, streams and filters rows, and calls the backend
  of the chosen render mode. It is atomic towards other handlers. The artist edits the
  same document between two clicks, without telling the plug-in.
* Backends are built afresh for each pass and rediscover their objects by walking
  the children of UNAV_VisibleSector. **The document is the only memory.**
* Python and the native plug-in share four files and nothing else. The native side
  reads them when the artist runs its reload command and never polls.
* Missions, registry, bookmarks and project states are files that outlive the host.
  Memory is changed first, the files one by one after it. The registry is shared by
  three surfaces (Dataset Manager, tools panel, Load UNAV State); the first keeps a copy.
* Catalogs are written by tools in processes of their own, beside the host: an index
  and a database may be half-way through a rebuild, an import or a crash whenever the
  navigator's query reads them.
* A tool runs on the main thread: while it does, nothing else of the plug-in does.
* The presentation runtime holds a reference to the document its editor changes in place;
  cards are resolved once, when the show starts. The Missions tab holds an engine built
  from a mission that its own handlers change and delete.
* The queue calls runners, and runners may call the queue back.

### 1.3 What is hard

* *Order of clicks and edits.* Modes can be switched, nodes copied or moved, missions
  changed under a loaded engine, documents edited under a running show, in any order.
* *Partial failure.* Rows that cannot be built, batches that cannot be inserted, files that
  cannot be written, unlinked or parsed. Most functions swallow the error and go on.
* *Crashes.* Files are written in several steps, some of them in place; an import commits
  once; an index is several files and a manifest.
* *Staleness.* Request, status, lookup, vertex shadow, the buffer's cap, the manager's copy,
  an index beside a newer catalog and resolved cards all outlive the event that set them.
* *Re-entrancy and cancellation* in the task queue; *bounded pipes and timeouts* in the
  tool runner.
* *Edges of numbers.* A cap of 0 means "no cap" to the filters, "nothing" to the diff and "the
  default" to the native side's documentation; waypoints round to one step; cells, boxes
  and row limits have to err on the safe side.

`PROJECT.json` lists each hazard at its line with the properties that watch it.

## 2. Modules

| Module | Contents |
|---|---|
| `SceneSync` | the document, the lookup and the exported file under every scene handler and the artist's edits |
| `PointViewer` | what the native viewer promises the artist (abstract) |
| `NativeBridge` | the files and buffers of the bridge (detailed); implements `PointViewer` |
| `TaskQueue` | the queue, re-entrant runners, `run_all` |
| `MissionManager` | the mission directory under handlers, failures, crashes and other writers |
| `VoyagePlayback` | camera path, engine and the Missions tab around them |
| `CatalogReaders` | what the catalog promises its readers (abstract) |
| `CatalogDB` | the SQLite catalog under importers, crashes and removals (detailed); implements `CatalogReaders` |
| `SectorStream` | catalog file, index, database rows, and what a query of the cone returns |
| `UserStores` | the shared JSON files and the surfaces that read and write them |
| `PresentationRuntime` | document, show, exhibition and tour |
| `ToolRunner` | runner, child process and pipe |
| `MC*` | small instances for TLC |
| `*_proofs` | the theorems about each module; `Panels_proofs` has those of `PresentationRuntime`, `VoyagePlayback` and `ToolRunner` |

### 2.1 SceneSync

Each handler runs to completion, so it is one action. What the navigator sees is an
input (`View`: is any dataset enabled, the ranked stream, the ranked sample), because
the artist moves the navigator freely and the cone test is floating-point geometry.

| Variable | Code |
|---|---|
| `sector`, `strays` | uid-marked nodes under UNAV_VisibleSector and elsewhere (`marker_for_object`, `_current_visible_objects`) |
| `pegs` | placeholder nulls of the point-cloud and native modes |
| `debug` | template of the instances, cone |
| `navigator`, `hierarchy`, `guest` | UNAV_Navigator, the roots, an object of the artist's own |
| `lookup`, `exported` | `_publish_streamed_lookup`; the uids in the native binary |

`Sync` is `sync_visible_sector` with one disjunct per backend: `SyncPerObject`
(debug objects, instances), `SyncPointCloud`, `SyncNative`, and `SyncNativeFails` when its
export fails. `Wanted`, `Added` and `Removed` are `compute_diff`. `Victims` leaves open which
of an original and the artist's copy a removal takes: the walk keeps one node per
uid. `Generate`, `Regenerate`, `ClearScene`, `CreateNavigator`, `ShowCone` and
`HideCone` are the other handlers; the `Artist` actions are external.

### 2.2 NativeBridge and PointViewer

A Python handler is a *job* whose files are steps: `WriteBinary`, `WriteSidecar`,
`WriteRequest`, `DropBinary`, `DropSidecar`, `WriteClear`. Each may fail (`Fail`), leave its file
cut short (`Damage`), or be the last thing the host does (`Crash`). `ServeLoad`,
`ServeClear` and `RejectRequest` are the native reload command; its status file may stay as it was or
be cut short when it cannot be written, which the command ignores (`Answer`), or when the host dies
(`CrashAnswering`). `answered` is auxiliary: the latest pick-up wrote the status, and that answers the
request on disk. `CutShort` says what a half-written request
parses as: the native parser searches the text for keys, so a prefix of a request can be
a load of a wrong path or with a smaller cap. `cpu`, `gpu` and `maxPoints` are the
two global buffers. Sectors are names with a size; the byte layout is not modelled.

`PointViewer` has two variables, the complete export on disk and the picture, and
three actions: an export, a pick-up and the end of the host. The refinement mapping takes
the binary, or "lost" when it is missing or damaged, and what `UnavRenderer::draw` shows.

### 2.3 TaskQueue

`Start` is the first half of `_execute`, `Settle` and `RunnerRaises` the second. Between them
the runner is on `stack` and in control: `InControl` lets the dialog call
only outside `run_all`, and otherwise only the innermost runner. The list of tasks is a set,
as ids are given out in order and the list is only appended to and filtered.

### 2.4 MissionManager

| Variable | Code |
|---|---|
| `missions`, `order`, `open` | `_missions`, `_order`, and whether a manager exists |
| `file`, `index` | the .json files by name, index.json |
| `job` | the next file the running handler writes |
| `tmp` | what `<job.id>.json.tmp` holds between its writing and its renaming |
| `clean` | auxiliary: since the load nothing failed and nobody else wrote |
| `used`, `clock` | ids a fresh uuid differs from; seconds |

A mission is its id and its `modified_iso`. A handler (`New`, `Duplicate`, `Import`, `Update`,
`Delete`, `Rearrange`) changes memory, then `StageMission` and `ReplaceMission` are
`safe_write_json`, `Unlink` is the end of `delete`, `TruncateIndex` and `WriteIndex` are
`_save_index`. `SaveFails`, `UnlinkFails`, `IndexFails` and `HandlerRaises` are the error
paths: the first three are logged and the handler goes on, the last leaves it.
`Reload` computes what `reload` does: the directory is authoritative, the newest of
several files with one id counts, the index gives the order. `Others` puts, breaks
and removes files and changes the index; `ShareTmp` is another session that saves the same mission in
between, as the temporary file has one name for all of them.

Simplifications: clocks agree, so no file is dated in the future; two edits are at
least a second apart, so a date names a version; a file named after an id holds that
mission; every file has an id (a file without one would be given a new one at each load);
`import_package` is a series of imports, `move` one of the rearrangements; no reload looks at a
temporary file; the index, when it is JSON, is an object.

### 2.5 CatalogDB

| Variable | Code |
|---|---|
| `disk`, `schema` | the committed tables and `unav_meta.schema_version` |
| `conn` | the writer's connection: its uncommitted view, and whether foreign keys are on |
| `job` | the import under way: its options, its batch, the rows read |
| `acked` | uids whose import returned to its caller |

A row is the version of the source row it was written from, a batch a set of rows with
distinct uids (`seen_in_batch`). `Open` leaves foreign keys off and `ApplySchema` turns them
on, as `open()` and the DDL script do. `ReadRow` flushes a full batch: `FlushObjects` (ignore or
replace, where a replacement deletes and cascades), then `FlushMetadata`, in the order of
`import_catalog_objects`. `EndRows` is the last flush and the commit, `InsertStates` the JPL
tool's second phase, `ImportFails` a source that raises, and `Crash` the loss of everything
uncommitted. `DeleteUid` cascades only on a connection that has applied the schema.

`CatalogReaders` has three variables, the tables a reader sees, the import under way (whether it
replaces, the uids it has read) and the uids reported. `Begin` and `Read` show nothing. `Publish` changes
only uids that were read, takes no object away, takes metadata and ephemerides away only when the import
replaces, and leaves no new row of a missing object. `Abandon` is the end of the process, `Remove` the removal of one
uid, with what hangs on it or without. The mapping takes the committed tables, three fields of `job` and `acked`.

### 2.6 SectorStream

`Fetch`, `Reregister`, `StartBuild`, `WriteCell`, `OpenManifest`, `FinishBuild` and `StopBuild` are the steps
that change files; a build overwrites the chunks in place and the manifest last. A query changes
nothing, so it is an operator: `Path` chooses index, whole file or refusal as
`stream_sector_for_dataset` does, `CellsAhead` and `Intersects` are `query_index` with
`aabb_intersects_cone`, `BoxCandidates` is the SQL box with its row limit, `Filtered` is the exact filter with
the cap, `Merged` the merge of the datasets. `Filtered` and `Merged` are sets of possible results, because
which of two objects at one distance survives a cap is the sort's affair. Space is one axis
of integers: enough for the origin's padding, the cell of a boundary, the shell against near and far
points of a box, and the corner test; a cone is then a half-line.

### 2.7 VoyagePlayback

A waypoint is its duration, which `MissionWaypoint.__post_init__` makes positive, or `Unresolved`; a
camera path drops the unresolved ones (`ResolvedLegs`) and `Elapsed` sums the rest, both as recursive functions. `TotalSteps`
and `Anchors` are `build_camera_path` and `cumulative_normalised` in integers with Python's
rounding of halves to even (`Rounded`). The engine is a record, its methods operators
(`SeekTo`, `JumpToWaypoint`, `NextWaypoint`, `PreviousWaypoint`, `MoveBy`, `SyncDue`), `Driven` the dialog's
dispatch. `Transport` and `Scrub` build an engine when there is none, `Advance` is the timer.
`NewMission`, `ImportMission`, `DuplicateMission`, `DeleteMission`, `AddWaypoint`, `RemoveLastWaypoint`
and `Pick` are the tab's other handlers, each with the refresh of the list that remembers the active mission.
`synced` is auxiliary: the step of the last tick that asked for a sync, `None` as long as none did.

### 2.8 PresentationRuntime

`doc` is the document, by reference; `show` is `PresentationState`, whose `cards` are the copy resolved
at `Start`; `exh` and `cursor` are the exhibition. The eight inherited fields of a step go through
the same code and are one value, its *look*; for the camera, a comment says otherwise (section 6).
`AddStep`, `RemoveStep` and `MoveStep` are the editor's;
`Start`, `End`, `Pause`, `Resume`, `NextStep`, `PreviousStep`, `JumpTo` and `HoldPose` the presenter's;
`StartExhibition` to `PreviousChapter` the panel's.

### 2.9 UserStores

A handler computes what it writes and owes it in `todo`. `OpenFile` starts the first write, and for an
in-place file leaves it torn; `FinishWrite` ends it; `FailWrite` is an `OSError`, which is logged and
after which the handler goes on; `Restart` may fall anywhere and loses what is
owed. Every write carries `base`, the copy it was computed from, and `about`, the dataset the click
named, for the properties only. `Loaded` turns a missing or damaged file into the defaults;
`Opened` is the registry's bootstrap; `RegisteredWrites` and `Aligned` are `register_tool_output`
and `apply_project_state`.

### 2.10 ToolRunner

The runner is a phase (idle, reading, waiting, expired, killing) and the child a
record. `Write` blocks when the pipe is full, `CloseOutput`, `Exit`, `Hang`, `BrokenPipe`, `EndedOutside` and
`Die` are what a process may do, `ReadLine`, `ReadRaises`, `SeeEnd`, `SeeExit`, `WaitReturns`, `Expire`,
`Kill` and `Reap` what `_default_subprocess_runner` and the probe do. `Refuse` is a run that
does not start. An exit code is `Unset` until the process has one.

## 3. Runs

| Run | Instance | Shows |
|---|---|---|
| `SceneSync` | 3 uids, one unbuildable; caps 0, 1, 3; both per-object modes; tag, copy, move, delete; 11,468 states | the diff converges, spares what stays, settles, honours the cap; no instance loses its template |
| `SceneRebuild` | the same uids, three modes, Generate between Syncs, three views; 4,980 states | the lookup covers the sector; clear-and-rebuild agrees with diff-and-update |
| `NativeBridge` | sectors of 0, 1 and 4 points; caps 2 and 3; 306,612 states | buffer, shadow, status, files; refinement of `PointViewer` |
| `TaskQueue` | 3 tasks, 2 units, capacity 2, 2 iterations; 439,108 states | order, stack, trim, cancel, counters, and that every task settles |
| `Missions` | 2 ids, 1 foreign name, 3 seconds, every outside change, the shared temporary file among them; 474,086 states | list, storage, recovery |
| `Catalog` | 2 uids, 2 versions, batches of 2, 3 rows; deletes with and without the schema applied; uids symmetric; 247,751 states | what leaves orphans, an ignoring import changes nothing; refinement of `CatalogReaders` |
| `Voyage` | 2 missions, files with durations 3, 1, 4 and 1, 8, 4 and 4, unresolved, 2, up to 3 waypoints, speeds 1 and 2, syncs every 2 steps, throttled above 3 steps a second; missions symmetric; 940,214 states | cadence of syncs, freshness at the ends once the cursor has moved, which waypoint is reached, Next, life of the engine |
| `Presentation` | 4 steps, two with looks and two blank, shows of up to 3, 2 chapters, 1 object; blank steps symmetric; 3,676,148 states | inheritance, pause, nothing left of a show |
| `Stores` | 2 datasets, one the bundled sample; 1 bookmark; failing reads and writes; 5,905,636 states | whole replacement of the registry, saves change what they name |
| `StoresStale` | the same without any failure | expected violation of `RegisteredStays` (section 6) |
| `Sector` | 5 catalogs of 0 to 4 objects, 3 database rows; navigators at 0, 2 and 5, three directions, near 0 or 2, far 3 or 6; caps 0, 1, 3; 14,470 states | through the whole file or an intact index: nothing but the sector, and all of it but two named gaps |
| `ToolRun` | a pipe of 2 lines, up to 4 printed; 6,903 states | outcomes, no mutual waiting, timeouts |

The type invariants are not repeated in the runs. `TypeCorrect` proves those of `SceneSync`, `NativeBridge`,
`TaskQueue`, `MissionManager` and `CatalogDB`; in the other modules the inductive invariants of section 5
contain the types their proofs need.

### 3.1 Why the bounds are enough

* `SceneSync`: the diff treats uids independently except for the cap. Three uids give one kept, one
  added and one removed in a single pass; the caps cut nothing, something and everything,
  and with 0 meet both readings; one row that raises stands for any. One copy per node
  gives every duplicate the walk can meet, because a copy is like any other copy.
* `NativeBridge`: sizes lie below, between and above the two caps; three sectors let an old
  binary, a newer one and a third request coexist.
* `TaskQueue`: three tasks are an outer runner, an inner one and one waiting; capacity 2 is
  exceeded with live tasks in front of and behind settled ones; two iterations end
  `run_all` with work left.
* `Missions`: two missions interfere through files, ids and order; three seconds allow an
  older, a current and a newer version; the foreign name sorts between the ids.
* `Catalog`: three rows over batches of two give a full batch, a partial one and a uid read
  again in the second; two versions tell an old row from its replacement.
* `Voyage`: one file has legs that round unevenly, one a long middle leg whose anchor lies past the end of a
  faster path unless it is scaled, one a waypoint that is dropped, so paths of two and three points and
  empty ones occur; one speed is below and one above the throttle.
* `Presentation`: a look is inherited through two blank steps or overridden by a second look, and the
  steps may be removed or moved during the show; two chapters have a first and a last.
* `Stores`: the sample and one other dataset are the two kinds of row the bootstrap
  distinguishes; a second bookmark or scene would be handled alike.
* `Sector`: a catalog may be empty, a single object, objects on and off cell boundaries, two objects
  at one place, or larger than the whole-file ceiling; navigators stand at an end, on an object (one of
  them on a grid line) and between objects; the row limit is reached and not reached.
* `ToolRun`: four lines through a pipe of two block a writer more than once.

The theorems of section 5 do not depend on these bounds.

### 3.2 Deadlock

All runs check for deadlock. There is none: a Sync, a pick-up, a call of
the queue, a reload, a fetch or a click is possible in every state in which nothing else is.

## 4. Fairness

Two modules have liveness properties.

* `TaskQueue`. `docs/SAFE_TASK_QUEUE_MODEL.md` describes
  a dispatcher that calls the queue from the dialog's timer; production wiring is still to come,
  so `FairSpec` states what the queue needs of it: a tick comes back while tasks are
  pending (`RunNext` or `run_all`), the loop of `run_all` ends, and the innermost
  runner goes on with its units and returns at the end or when it is cancelled. Nothing
  is assumed of enqueueing, cancelling, pruning, raising or returning early.
* `ToolRunner`. `WF(Runner)`: a thread that can go on does, and time passes, so a timeout that
  is running expires. `WF(Child)`: a process that neither hangs nor waits for the pipe goes on
  to its end, and one that was killed dies. Nothing is assumed of the artist, of hanging, of
  closing the output early or of being ended from outside.

Other modules have no fairness: their actions are the artist's, or a tool's that may
stop at any time.

## 5. Proofs

All theorems hold for any sets of uids, sectors, ids and names, any caps, capacities and clocks
that meet the assumptions of the module, each of which the code justifies (e.g.
`ModeCap <= DefaultCap` from the constants of `native_bridge.py` and `unav_point_buffer.h`).

| Module | Theorem | Property |
|---|---|---|
| `SceneSync_proofs` | `TypeCorrect`, `TemplateSafe` | `TypeOK`, `InstancesHaveTemplate` |
| | `KeptNodesSurvive`, `SettledSyncIsNoOp` | `SyncSparesKept`, `SyncIdempotent` |
| | `PassesConverge`, `CapRespected` | `SyncConverges`, `SyncHonoursCap` |
| | `LookupComplete`, `RegenerateIsSync` | `LookupCoversSector`, `RegenerateAgreesWithSync` |
| `NativeBridge_proofs` | `TypeCorrect`, `ShadowSafe`, `AnswersAreTrue`, `ExportsAreWhole` | `TypeOK`, `GpuShadowsCpu`, `AnswerDescribesView`, `PublishedIsWhole` |
| | `BridgeImplementsViewer` | `DrawsCompleteExports` (refinement) |
| `TaskQueue_proofs` | `TypeCorrect`, `StackSafe`, `FirstInFirstStarted`, `NoTaskDropped`, `CancelRespected` | `TypeOK`, `RunningIsStack`, `StartOrder`, `LiveTasksKept`, `CancelledNeverDone` |
| | `SettledForGood`, `CountersAccount`, `HistoryKeepsNewest` | `SettledIsFinal`, `StatsAccount`, `TrimDropsOldest` |
| | `WorkRunsOut` | `WorkNeverReturns` |
| `MissionManager_proofs` | `TypeCorrect`, `ListShowsAll` | `TypeOK`, `ListedOnce` |
| | `HandlersStoreSafely`, `RestartLosesNothing`, `RestartRecovers` | `OneVersionAtATime`, `RestartIsNoOp`, `Recoverable` |
| `CatalogDB_proofs` | `TypeCorrect`, `OrphansExplained` | `TypeOK`, `NoNewOrphans` |
| | `ReportedStaysDurable`, `IgnoringImportKeepsRows` | `ReportedIsDurable`, `IgnoreKeepsObjects` |
| | `DatabaseServesReaders` | `ReadersAreServed` (refinement) |
| `Panels_proofs` | `ExhibitionLeavesNothing`, `PauseKeepsPicture`, `CardsInherit` | `NothingLeftOfTheShow`, `PausedPictureHolds`, `CardIsNearest` |
| | `EndsSynced`, `SyncsInTime`, `LastReached` | `EndsAreSynced`, `SyncOnTime`, `WaypointIsLastReached` |
| | `NextIsForward`, `EngineIsListed` | `NextGoesForward`, `EngineOfListedMission` |
| | `OutcomesAreTrue`, `NoMutualWait`, `RunsAreFinite` | `OutcomeIsTheChilds`, `NobodyWaitsForNobody`, `WorkGoesDown` |
| `UserStores_proofs` | `RegistryAtomic`, `SavesAreHonest` | `RegistryReplacedWhole`, `SaveChangesWhatItNames` |
| `SectorStream_proofs` | `StreamIsTheSector` | `StreamShowsTheSector` |

* **SceneSync.** `TypeOK /\ InstancesHaveTemplate` is inductive: only an instances pass
  makes instances and it makes the template first, and only Clear removes the template, with
  all nodes. What a pass leaves is counted with `Originals`: the sector is finite and only an artist's
  copy repeats a uid. It is inductive because a pass adds only uids the sector lacks; with it
  a pass removes exactly one node per unwanted uid, and the nodes left without copies are
  in one-to-one correspondence with wanted uids, of which there are at most the cap.
* **NativeBridge.** The invariant `IInv` adds `HalfWritten`, which says what each step of a job
  has put on disk so far, to `TypeOK` and the three invariants. Without it `PublishedIsWhole` is
  not inductive: the request step must know that the two files before it succeeded. The
  refinement follows: each step of Python, the native side and the host is an export, a
  pick-up, the end of the host or a stutter.
* **TaskQueue.** `IInv` adds `Numbered`: ids beyond the counter are unused and the tasks in
  the queue have been given out. The order of starts needs the stack: an inner runner has a
  larger id than the ones below it, because it was pending when they started. For the
  counters, each step moves one task, or all waiting ones, from one status to another, and the tallies follow by
  the theorems on cardinalities. For the trim, the rank of the youngest dropped task bounds how many
  go and that of the oldest kept one how many stay. `WorkRunsOut` gives every task what is `Ahead` of it: to be
  enqueued, started, taken through its units and settled. `Left`, the pairs of a task and such a step, is a finite
  set; no action puts a pair back, and one that leaves the set alone leaves every task alone. So a behaviour has
  only finitely many steps of work, whatever order runners and the dialog take them in.
* **MissionManager.** `KnownIds` (an id that memory, a file or a handler uses was given out)
  makes `ListedOnce` inductive, as a fresh id is then new. `OwnNames` (a file named
  after an id holds that mission or nothing) and `Doomed` (what is being unlinked is
  forgotten) give `OneVersionAtATime`, with `OwnTmp`: the temporary file is of the mission that is being saved,
  and holds memory's version as long as nobody else wrote. `Kept` says disk and memory agree except for the
  mission a handler is about; with `InOrder` it yields both recovery theorems. The loaded
  version is a CHOOSE; `Latest` characterises it, so that a step is shown to keep it.
* **CatalogDB.** `Tracks` relates a connection's view to the disk: equal between jobs; during a job every committed
  object is there, only uids that were read differ, and all there was is spared unless the job replaces.
  `NoOrphanOfItsOwn`: the view has no orphan the disk does not have. `JobRows`: every uid read is in the batch or
  in the view; without it a commit could report a uid the batch had lost. The refinement of `CatalogReaders` reads off
  these: every commit of a writer's view, at the end of an import or where a connection is closed, a failed import's
  included, is a publication; `DeleteUid` is a removal; a crash abandons; rows read leave the readers' tables alone.
* **Presentation.** `ShowShape` (the show is a record of its five fields, with a known status and a
  natural index) makes the pause theorem a case split on the step taken; the exhibition's type and
  `NothingLeftOfTheShow` are inductive together. The cards are a recursive function over the steps
  (`NearestIsInherited`): a card has the look of the nearest earlier step that sets one. Only a start resolves
  cards, so every state of a show has them.
* **Voyage.** `VoyageInv` says that the engine belongs to a listed mission and has `EngineShape`: its step is on the path,
  its pose is no farther from the last synced one than the counter `since` says, it is synced at both ends unless
  nothing has moved it yet,
  and its anchors are on the path and in order. Anchors in order and on the path follow from the running sums,
  which grow, and from the rounding, which is monotone and off by at most a half (`RoundedInOrder`,
  `RoundedBound`). One lemma per engine method keeps the shape, one per handler keeps the invariant.
  `EndsSynced` and `EngineIsListed` are parts of it; `SyncsInTime` adds that a moved cursor is within the cadence;
  `NextIsForward` and `LastReached` use the order of the anchors. That order is why the waypoint the scan reports is the
  last one reached.
* **ToolRunner.** `LinesAccounted` keeps the books of the pipe: every written line is captured or still in the pipe,
  the runner waits only when both ends are through, and a process that exits with 0 has printed all it
  had. So an outcome of success has the whole output. `RunShape` adds what a kill and a closed output say of the
  process. From both, `NoMutualWait` shows that one of runner and child can go on unless the process
  hangs outside every timeout; `RunnerMayMove` and `ChildMayMove` spell out the guards, in place of ENABLED.
  `RunsAreFinite` measures what is left of a run (`Work`: phases, states of the process, an open output,
  lines twice until written and once until read), a natural number that every step of a run lowers.

Facts about recursive functions in `Panels_proofs` are shown by the least counterexample: `UpTo` says a set of
naturals that holds 0 and the successor of each member below n holds all up to n, `RecursionExists` that a
recursive definition over an interval has a function, `SameRecursion` that it has one only.
* **UserStores.** `Pending`: every owed write of the registry is *honest*, that is, differs from the base it was
  computed from only in the row it is about, or only in flags when it is about all of them. The
  two action properties are then read off the steps of the write at the head of `todo`.
* **SectorStream.** `Described`: a manifest that is whole is `ManifestOf` the objects it was built from. The proof then follows a
  visible object through each stage: its cell holds it (`CellHolds`), the box of that cell is ahead unless the
  navigator stands on the object at the box's low side (`BoxAhead`), so the index loses nothing but what
  `OnGridLine` names (`IndexLosesLittle`); the box holds the cone (`BoxHoldsCone`), so the database loses nothing but
  the rows over its limit; tagging objects with their dataset keeps their number (`NamesCount`).

### 5.1 Model-checked only

`EveryTaskSettles`, `OnlyAHangHolds` and `TimeoutEndsWhatItCovers` are liveness under fairness, out of the
prover's reach. Their safety halves are proved: work runs out (`WorkRunsOut`), a run has finitely many
steps (`RunsAreFinite`) and neither side of it waits for the other (`NoMutualWait`). What TLC adds is that
the fairness of section 4 makes the remaining steps happen.

## 6. Where code and documentation disagree

Shown by a run:

* `StoresStale`: a dataset the tools panel registered disappears with the next button of a
  Dataset Manager that was already open, because each button saves the copy read when it was opened.

Met while modelling, with no run of their own. In the scene and the viewer:

* Regenerate removes the navigator that the documented iterate-and-tweak
  workflow needs for its next click.
* Sync at Epoch does not move objects that stay visible.
* After a per-object mode, the native export holds only the newly visible.
* An error status may stand beside a picture.
* The native command ignores that its status could not be written. Serving one request twice, with another
  binary the second time, then leaves a status that echoes the request and describes the earlier picture.
* `max_points` 0 keeps the cap of an earlier request.
* `noop` requests clear the native buffer; no Python code sends one.
* `last_request_id` is never compared, so a status line may be the answer to an older request.
* Clear removes an artist's object parented under a UNAV node ("Other objects untouched").
* Switching modes leaves the nodes and pegs of the other mode in place.
* The hard cap gates Generate only, not Sync and Regenerate; no update enforces its mode's own cap.
* The "single undo step" of a Sync does not cover the backend's update.
* A copy the artist makes of a node breaks "Sync twice is a no-op" until one of the two is gone.

In missions and playback:

* A mission whose file bears another name comes back after deletion.
* Two sessions that save one mission at a time share its temporary file: either may publish what the other
  has written so far, a cut file or an older version, although no crash or failure is reported.
* An import takes an id that only the disk knows for new and writes over its file, which may be newer.
* A crash can cut the index, which the documentation says is written atomically.
* `import_mission` of a file that is not JSON registers a blank mission instead of returning `None`.
* The Pick # field is ignored once a mission is remembered: Delete removes that one.
* Transports do not read the Interp dropdown and drive the engine of an earlier mission.
* Waypoints without a cached position are never resolved, only dropped from the path.
* `play()` asks for no sync although every transport should: the sector of the start is not shown until the cursor
  moves (`EndsAreSynced` excepts it). The status stays PLAYING at the end.
* Previous is stuck where two waypoints round to one step.
* `cumulative_normalised` leaves the first duration out, so the last segment takes its time as well.

In presentations:

* A step without a camera takes the camera of the nearest earlier step, as `docs/PRESENTATION_SEQUENCES.md` says
  in sections 1 and 3; the comment at the field promises the mission's camera path at the step's waypoint.
* The card comes from the copy made at the start, the step and its notes from the live document.
* `guard_action` is not wired into the dialog: Reset, Delete Mission and Clear run in an exhibition.
* A highlight or chapter outlives its exhibition and is active outside one.

In files, databases and tools:

* Bookmarks, project state and exported missions are written in place, against the documentation.
* The `_untitled` sidecar is saved under one name and looked up under another.
* A positions-only import with replacement deletes the metadata it is said to keep.
* A JPL fetch commits its bodies without their states first; a crash there leaves them so.
* `delete_uid` on a connection that did not apply the schema cascades nothing.
* A fetch over a registered catalog leaves the old index in use.
* A rebuild overwrites the index in place: between two files, and after a failure, visible objects are
  missed; so is one on a grid line with the navigator standing on it and looking down the axis.
* The row limit is taken over the whole box in uid order, so it can drop nearer objects for farther ones.
* A tool's timeout starts when its output has ended; one that hangs with its output open holds the
  main thread for good.

In the queue: the comment of `_trim_history` says the loop stops at a live task; it does not, and
its result is right.

## 7. Not modelled

* *Cone geometry in three dimensions, colours, sizes, positions at an epoch*: floating-point. `SceneSync` takes the
  result of the filter as an input; `SectorStream` has the geometry on one axis.
* *The query cache and pager* (`db/streaming.py`): no production caller; the streamed path goes
  through `db/spatial_query.py`.
* *The undo stack and UNAV state inside the document*: the host's; `UserStores` has the container as a whole.
* *Timeline bakes and markers, route planner and spline, target lock, overlays, camera rigs*: builders of
  other parts of the document, each a function of its input.
* *Projects, workspaces and notes*: written by the tmp-and-replace helper that `UserStores` and
  `MissionManager` model.
* *Picking, shading and the acceleration grid of the native viewer*: pure functions of the buffer. The
  selection file it writes has no Python reader in production.
* *Dialog widgets, exporters, query, knowledge, astro, cinematic, procedural and animation libraries*:
  no state between calls beyond widgets.
* *Connectors*: parse and normalise remote answers in processes of their own. *Diagnostics*: read-only.
* *`UserStores`* leaves out `config.json` and the reset tools, and everything of a row but its flag.
* *`SectorStream`* leaves out the splitting of a crowded cell into several chunks. Its property excepts the grid-line
  and row-limit losses of section 6 by name (`OnGridLine`, `OverRowLimit`) and says nothing of an index that is
  half-built or older than the catalog.
* *`ToolRunner`* leaves out forms, command lines and the texts a failure is classified by; a child that an
  undecodable line left behind is forgotten by the next run.
* *Task runners that leave by KeyboardInterrupt or SystemExit*: depends on the host's Python.
* *The artist deleting the template itself*: the code does not claim to survive it.
* `GLOBAL_TASK_QUEUE`, `make_chunked_task` and `NativeViewerBackend.clear` have no production
  caller yet; they are modelled as the API they are.

The definitions stand for about a tenth of the implementation's lines. Most of the rest is the
libraries above: functions from rows or records to text, numbers or host objects, where nothing is kept
between two calls and no order of events matters.

## 8. Plan

Done: `SceneSync`, `NativeBridge` over `PointViewer`, `TaskQueue`, `MissionManager`, `VoyagePlayback`,
`CatalogDB` over `CatalogReaders`, `SectorStream`, `UserStores`, `PresentationRuntime` and `ToolRunner`, with
runs and proofs for each. What is left, in this order:

1. **An abstract mission library** that `MissionManager` implements: a set of missions with their versions, which
   handlers change and a restart, a failure or a crash shows whole.
2. **`SceneSync` extended** with the undo policy and legacy roots (`c4d_objects/undo_policy.py`,
   `lifecycle.py`).
3. **A scene-authoring module**: timeline markers, the route spline and the overlays, each of which
   rebuilds its own root; property: a rebuild leaves nothing of an earlier one.
4. **Project workspaces** (`project/workspace.py`): the manifest and notes of several projects.
5. **Composition** of `UserStores` with `SectorStream`: the registry's index path against a fetch and a
   rebuild.
