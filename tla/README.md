# A specification of the astrocatalog job queue, live watch, indexer and panels

TLA+ modules that model the parts of the program where order, failure and
concurrency decide whether the catalogue is right: the job queue with its worker
threads, the live-watch manager that feeds it, the scans and hash passes that
bring the files rows up to date with a disk that changes under them, the ids the
rows are stamped with, the header parsers that read files still being written,
and the panels of the window that show all this. TLC checks them on small
instances; TLAPS proves the safety properties of the queue, the live watch, the
indexer, the ids, the reading of files and the panels for every value of their
constants.

Source paths below are relative to `src/packages/`.

## The system

The application is an Electron program. One main process owns the SQLite
database and runs every handler to its end on one event loop; worker threads do
the file work and talk to it by messages; the window calls it over IPC and hears
pushed events.

| Component | State | Operations | Talks to |
|---|---|---|---|
| Job table, `db/src/repositories/scan-jobs.ts` | rows with status, priority, progress, `cancel_requested`, `started_at` | enqueue, claimNext, updateProgress, requestCancel, complete / fail / markCancelled, requeueOrphaned | the orchestrator only |
| Orchestrator, `desktop/src/main/jobs/orchestrator.ts` | listeners | start, enqueue*, cancel, pump, the pool's callbacks | table, pool, files and frames rows, listeners |
| Worker pool, `jobs/pool.ts` | per slot: worker, busy, jobId | dispatch, cancel, message and crash handlers | worker threads by message; orchestrator by callback |
| Worker thread, `jobs/worker-entry.ts`, runners `demo-job.ts`, `scan-job.ts`, `hash-job.ts` | `cancelled` flag, the runner's position | run, cancel, report, final message | pool by message; the disk |
| Watch manager, `desktop/src/main/watch/watch-manager.ts` | per folder: mode, debounce, fallback interval, in-flight job, pending rescan | start, setEnabled, registerFolder, stop, file event, watcher error, timers, job event | orchestrator (enqueueScan, onEvent), chokidar |
| Wiring, `desktop/src/main/index.ts` | watch-folder rows | IPC handlers, boot order, before-quit | all of the above |
| Files and frames rows, `db/src/repositories/files.ts`, `frames.ts` | per file: status, sha256, duplicateOf, lastSeenAt, parse error | upsertDiscovered, markMissingNotSeenSince, recordHash, reparentMoved, ... | orchestrator only |
| Ids, `db/src/ids/uuidv7.ts`, `repositories/shared.ts` | last millisecond, counter | uuidv7, insertStamp | every insert |
| Parsers, `core/src/fits`, `xisf`, `raw`, `parsing` | the FITS scanner's block and pending string | openers, blocks, metadata | scan runner; the disk |
| Classification and capture profiles, `core/` | none | pure functions | scan runner |
| Panels, `desktop/renderer/src` | active job, rows, labels, pending mutations | mount, click, reply, event | main process by IPC |
| Search, migrations, plain CRUD, tooling | none that interacts | | |

What makes each of them correct, and what is hard about it:

- **Queue, pool and threads.** A job runs on at most one worker; a row says
  `running` exactly while somebody is at work; a job ends once, as its worker or
  the user ended it; a cancel reaches its job and no other; no slot is lost.
  Hard: messages in both directions of every worker, crashes of a thread, the
  death of the process between two statements, and a cancel at any moment.
- **Watch manager.** At most one scan of its own per folder and process, no
  reported change dropped unless the user cancels its scan, no timer or watcher
  behind a folder that is off or gone. Hard: five
  triggers of one function, an event that comes back from the queue in a nested
  call, limit errors, restarts.
- **Catalogue rows.** After a completed scan the rows have the sizes and times of
  the disk, and no row is present for a file that is gone; hashes and frames are of
  the bytes there, as far as sizes and times tell; a duplicate group has one canonical row; a
  moved file keeps its row and frame. Hard: snapshots read at dispatch and used
  much later, two scans of one folder, late hash results.
- **Ids.** Every id of a process is above those before it, and jobs are claimed
  in the order they were inserted. Hard: two readings of the clock per row, a
  clock that is set back, a counter that runs out.
- **Parsers.** What is reported is what the file's header says; nothing is read
  past the header; every read ends with the handle closed. Hard: blocks that cut
  strings apart, files still being written, reads that fail half way.
- **Panels.** What the window shows once it has heard everything is what the
  main process does. Hard: events before the reply that names their job, a
  snapshot older than events that overtake it, a page loaded again meanwhile, a
  reply that waits for a watcher.

`PROJECT.json` lists every component with its status, and under "hazards" each
place in the code where this bites, with the properties that cover it.

## The modules

| Module | What it is |
|---|---|
| `JobLifecycle` | Abstract specification: what the queue promises its callers. Jobs are created, claimed in priority order, ended once, requeued by a restart only. |
| `JobQueue` | The detailed specification: table, orchestrator, pool, threads and both message channels of every worker. Implements `JobLifecycle`. |
| `JobQueueProofs` | Types and inductive invariant of the queue; what follows: refinement, ownership, cancels, ends, sweeps. |
| `WatchManager` | The live-watch state machine with the calls of the wiring and the folder rows; the queue appears as `JobLifecycle` promises it. |
| `WatchManagerProofs` | Its inductive invariant and theorems. |
| `Catalog` | The files rows and their frames: each query and update of the repositories as an operator on a table. |
| `Indexer`, `MCIndexer` | Scan and hash workers, their batches, and the handlers that write them to the table, over a disk that changes; the queue appears as `JobLifecycle` promises it. |
| `IndexerProofs` | What each query and update of `Catalog` keeps of a sound table; the indexer's inductive invariant, its types and the soundness of the table. |
| `CalmScanProofs` | That a scan nothing interfered with leaves rows with the sizes and times of the disk, and that the hashes and frames of its folder are then of the bytes there. |
| `IncreasingIds` | Abstract specification: ids that only grow within a process. |
| `Uuid` | `uuidv7()` and `insertStamp()` over a clock. Implements `IncreasingIds`. |
| `UuidProofs` | Types, that refinement, the claim order, and how far a burst runs ahead. |
| `FitsHeader`, `XisfHeader`, `RawHeader` | The three header parsers as operators, each with the definition of what a header of that format says. |
| `FrameData` | Keywords to metadata, capture profiles, classification. |
| `ParseFile`, `MCParseFile` | One file read by a scan worker, step by step, while the capture program still writes it; composes the four modules above. |
| `FitsHeaderProofs` | What the FITS scanner makes of a list of cards, one card after the other, is what the whole list says. |
| `ParseFileProofs` | The same of XISF and RAW headers, the inductive invariants of the reading, and its properties. |
| `Panels` | The global progress indicator and the watch-folder rows, with the calls, replies and events between window and main process. |
| `PanelsProofs` | That whatever is shown and not true is replaced by what is on its way. |

### JobQueue: state and actions

| Model | Code |
|---|---|
| `status`, `jobType`, `cancelRequested`, `progressCurrent` | columns of `scan_jobs`; jobs are numbered in the order of `(created_at, id)` |
| `todo`, `claimed` | the rest of the handler the main thread is in, innermost call first; the local variable of `pump` |
| `slotJob` | `Slot.jobId` (and `busy`, which changes with it) |
| `inbox`, `outbox` | the two directions of a worker's port, first in first out |
| `threadJob`, `threadStep`, `threadCancelled` | `runJob` in progress, the runner's loop variable, the `cancelled` flag |
| `alive` | has the thread of the slot thrown |
| `swept` | history: jobs whose completion ran `markMissingNotSeenSince` |

A handler is one action up to its first nested call and one action per database
statement after it. `todo` carries the tail: `HandleDone` leaves
`<<emit, sweep, backlog, pump>>` for a scan, and `EmitRescan` puts a `pump` in
front of it when a listener enqueues. No other message or call is taken before
`todo` is empty, as on the event loop, but threads run and the process may die
between any two steps. `HandleCrash` leaves `<<emit, pump, respawn>>`, in the
order of `pool.ts`.

`Boot` is `requeueOrphaned` and the first `pump`; `ProcessDies` is a crash, or a
quit, at any point: it forgets everything but the rows. Batches of scan and hash
runners are progress messages here; their contents are the subject of `Indexer`.

### WatchManager: state and actions

`mode`, `debounce`, `fallbackTimer`, `inFlightJobId` and `pendingRescan` are the
fields of `FolderState`; `row`, `liveWatchEnabled` and `referenced` are the
`watch_folders` row, its flag, and whether a job row refers to it, which a
foreign key then forbids to delete. `event` is the scan whose terminal event is
being delivered: nothing else runs until the listener has returned.
`cancelRequested` holds the running scans whose row has the flag: after a restart
such a scan is requeued and dropped when it is claimed.

Three history variables say what the code does not remember. `requestedBy` names
for each scan the process whose manager asked for it, or the user: it outlives the
process, as the row of the scan does. `owed` is raised by a reported change (and by
attaching, which owes the folder a catch-up walk) and cleared when a walk of the
folder begins, and by nothing else. `withdrawn` is raised when the user cancels a
queued scan and nothing else stands for what is owed, and cleared by the next
report or walk. Closing the watcher removes its listeners at once, so `mode` tells
also whether a watcher is attached.

Actions are the IPC handlers (`AddFolder`, `RemoveFolder`, `EnableLiveWatch`,
`DisableLiveWatch`, `ManualScan`), the watcher and the timers (`FsEvent`,
`WatcherLimit`, `DebounceFires`, `FallbackTick`), the queue's side (`ScanClaimed`,
`DropCancelled`, `ScanEnds`, `CancelQueuedScan`, `CancelRunningScan`, then
`OnJobEvent`) and the process (`Boot`,
`AttachAtBoot`, `ProcessDies`).

### Catalog and Indexer: state and actions

A place is a watch folder with a path in it, the unique index of `files`. A
content is what a file holds together with its size and modification time:
`Stat` is the two of them as far as the code compares them, which two contents may
share; `Size` and `Digest` say which contents have one size or the same bytes,
`Unreadable` and `Malformed` which cannot be read or parsed. Rows, snapshots and
items carry the content a stat was taken of as a name for the stat: every
comparison is of `Stat`, `Size` or `Digest`.

| Model | Code |
|---|---|
| `rows` | the `files` rows in the order of their ids, with `stat` for size and mtime, and in `frame` the content the `frames` row was read from |
| `disk` | the file system, changed by `WriteFile`, `DeleteFile`, `MoveFile` at any time |
| `scan[s]` | the job row (status, folder, `startedAt`) and, in `work`, the variables of `runScanJob`: the snapshot `known`, the `candidates`, the places `left`, the file between its stat and its read, the batch |
| `hash[h]`, `backlog` | the hash pass in each slot, the hash jobs that wait |
| `outbox` | the batches and the final message a worker has posted |
| `applying`, `txScan`, `savedRows` | the open transaction: items still to be written, whose they are, what a rollback restores |
| `sweeping` | the scan whose completion is being emitted |
| `calm`, `racy` | history: scans with no change of the disk and no other scan of their folder since they started; places that were edited and kept the size and time of their row, that changed while a job was at work or while their row waited for a hash, and those a row of such a place moves to |

`ClaimScan`, `ClaimRequeued` and `ClaimHash` are `claimNext` and the payloads
`dispatchScanJob` and `dispatchHashJob` read from the rows. `Visit` is the stat
of a file and the incremental skip, `ReadFile` the read that follows an `await`
later: move detection, else the parse. `TakeBatch` opens the transaction of a
batch and one step per item writes it: `WriteDiscovered`, `WriteMoved`,
`WriteHash`; `AbortBatch` is the unique index refusing a move, which throws and
rolls back. `ScanDone` completes the scan and emits, `Sweep` is the
missing-detection and the hash job that follow. `JobStopped` handles a job that
failed or was cancelled, `ProcessDies` a crash or quit with the requeue at the
next start.

Abstractions. Directories are not modelled: the walk meets the places of its
folder in any order, each once. Skip rules and extensions decide which places
exist. A job is queued when a requeued job waits or a user may start one:
`ClaimScan` stands for enqueue and claim together, since the payload is read at
the claim. A requeued scan that the user cancelled runs again, one behaviour
more than the code has. `detectMove` and the parse behind it read the file at
one moment (`ParseFile` takes that moment apart). A throw in a message handler
reaches no handler of the program; Electron reports it and goes on, and the model
goes on with the next message.

### Uuid: state and actions

`clock` is `Date.now()`; `lastMs` and `counter` are the module variables of
`uuidv7.ts`, whose three branches are `NewMillisecond`, `SameMillisecond` and
`BorrowMillisecond`. `ReadCreatedAt` and `StampRow` are the two halves of
`insertStamp`, which reads the clock for `createdAt` and again, within the id;
`Tick`, `SetBack` and `Restart` may come between. An id is its millisecond and its
counter; the random tail only tells ids of different processes apart.

### The parsers and ParseFile

A file is a sequence of units: FITS cards, XISF items (tags, skipped regions), or
the boxes of a RAW file. Text is a sequence of words, so that a quote, an
ampersand or a separator is a word of its own and number syntax and entity syntax
are left out. `FitsHeader` takes a block of cards at a time and keeps the pending
CONTINUE string between blocks, `XisfHeader` keeps the stack of open elements,
`RawHeader` looks for Canon's metadata blocks in the top of the box tree and asks
the external EXIF library of each: its answer (tags, nothing, an out-of-range
date, a throw) is a field of the box. `FrameData` maps the keywords of the three
formats to the shared fields, detects the capture program and classifies.

`ParseFile` is one call of `parseDiscoveredFile`: `Open`, the reads of the
format's parser (`ReadFits` per block, `ReadPrologue` then `ReadXisf`, `ReadRaw`),
`Close` in the `finally`. `Grow` appends a unit between any two steps, `ReadFails`
and `FailToOpen` make any of them throw.

### Panels: state and actions

| Model | Code |
|---|---|
| `jobs`, `kept`, `flag`, `mode`, `ready`, `waiting` | what the window can see of the main process: jobs, rows and flags of folders, the watch manager's modes, and the `setLiveWatch` calls that await `ready()` |
| `calls`, `wire` | calls to the main process; replies and pushed events to the page, in the order of one channel |
| `life`, `page` | which load of the page, or opening of the tools, a call belongs to |
| `header` | `activeJob` of `GlobalScanProgress` |
| `listed` | the cached answer of `watchFolders.list` |
| `folderByJob`, `scanEvents`, `watchStatus`, `toggling`, `removing` | the state of `WatchFolders` and its pending mutations |

`Handle` is the main process taking a call: the events of the jobs it starts
leave before its reply. `HearAny` is the window taking a message. A message for a
page that is gone is dropped; a reply for a panel that is gone changes nothing
but the cache. A mutation that succeeded asks for the list again and stays pending
until that answer is heard (`Refetch`, `HearFolders`); one that failed is over at
once. A list asked for while another is on its way cancels that one in the query
library; here both answers are heard, one after the other.

## What TLC checks

| Run | Instance | Question |
|---|---|---|
| `queue_crash` | 2 jobs, 2 workers, 1 thread crash, 1 restart, 2 waiting cancels | Do rows, slots, channels and threads always agree? Are cancels neither lost nor misdirected? Does an ended job stay ended, and is a sweep always of a completed scan? |
| `queue_live` | 2 jobs of 2 steps, 1 worker, 2 restarts, fair | Does every queued job end while no thread crashes? Does a demo job resume without skipping a step? Does the queue implement `JobLifecycle`? |
| `lost_dispatch` | 2 jobs, 1 worker, 1 crash | Violated: see Findings. |
| `watch` | 1 folder, 3 scans, 2 restarts, fair | One scan per folder and process, nobody waits for a scan that is gone, timers follow the mode, a change is dropped only when the user cancels the last scan that stands for it, and each other is followed by a walk. |
| `index_scans` | 1 folder, 2 places, 3 scans, 1 worker, 3 contents, two of them of one size and time and one malformed, 2 changes, or 1 with 1 stop or restart | Do the rows have the sizes and times of the disk after a calm scan, and are hashes and frames of the bytes where nothing raced? Is committed work kept? |
| `index_overlap` | 2 folders of 1 place, 4 scans, 2 workers, 1 move or deletion, symmetric | Do stale move candidates ever put two rows at one path? Do links of duplicates lead to older rows? |
| `index_live` | 3 places, an unreadable content, 2 scans, 1 worker, 1 deletion, fair | Is every indexed file hashed in the end? |
| `index_copies`, `index_spin` | the smallest that show it | Violated: see Findings. |
| `uuid_ids` | 5 rows, 4 milliseconds, a counter of 4 with seeds 0 and 1, 1 set-back, 1 restart | Do ids increase (`IncreasingIds`), is borrowed time bounded, is the claim order the insert order? |
| `parse_file` | FITS blocks of 2 cards, at most 3 of them; up to 3 units written meanwhile, of 15 kinds of cards, 13 of items, and boxes with 5 kinds of tags | Does an accepted header say what the file says, and is a refused one faulty? Do the reads stay in the header and end? Has each type its evidence? |
| `panels` | 1 folder, 2 jobs, 3 lives, 1 call and 2 messages on their way, fair | Does what the window shows come true once it has heard everything? Do the buttons come back? |

**Bounds.** Two jobs are the fewest that compete for a slot and for a cancel,
two workers the fewest that can run one job twice; after a restart both wait in
a queue in which priority and age disagree. One crash meets every phase of every
job, and so does one restart; `queue_live` takes two so that a resumed job is
resumed again. `MaxInbox` limits how many cancels the user may pile up in front
of a thread: with two, a cancel can be left over from the job before. The folders
of the watch manager do not share anything but the pool of identities, and the
proofs cover any number; three scans are one requeued from the former process, or
one of the user's, beside the one in flight and the next. `Spare` keeps enough
identities for the manager itself, so that no trigger is ever disabled by the bound.

For the indexer, two places are the fewest with a pair of duplicates, a move and
a batch in which one item disturbs another. Three scans in a row index a file,
mark it missing and restore or move it; four, two of them at once, make a move
candidate stale both ways: its row restored, or its new path taken. With two changes
a file goes away and comes back elsewhere, or is edited twice, each time noticed or
not; `TwoUpsets` of `MCIndexer` leaves out a stop or restart beside a second change.
A third change, an edit before the file goes away, may leave a row with the frame of
one content and the hash of another (see Other divergences); it is beyond these
bounds and within the proofs. Pools and
batches hold two where the code has up to four workers and 200 or 50 files;
`MaxChanges` bounds the disk, `MaxBreaks` the jobs that end early and the
restarts together: one of them hits every phase of every job. `MaxBacklog` is 1: a second waiting hash
job would find what the first leaves, and is not enqueued. Every claim gets a
`startedAt` of its own, the clock being finer than two claims of one folder.

A counter of four values runs out within five rows, with and without headroom.
Two cards to a block put every rule of a continued string on both sides of a
block's end. Three lives are a load, an opening of the tools, and a load or
opening that meets the answers of the one before; `MaxWire` holds back only what
the main process sends unasked, never a reply.

**Fairness.** The event loop runs a handler to its end and comes back to every
port whatever the user does (strong fairness of `TakeMessage` and of `Handles`,
since any other handler makes it wait); threads read their port and their runners
return, because each loops over a finite list. Handlers end in `pump`, which
claims what waits (`ClaimQueued`). For the watch manager: due timers fire when
the handlers before them are done, changes pause for longer than the debounce now
and then, the queue claims a scan unless the user cancels every one before it is
claimed (strong fairness of `ScanClaimed`, whose scan may be cancelled and another
enqueued), and it ends what it claimed, which is `EveryJobEnds` of `JobQueue`. A parser's promise settles (weak fairness of `Work`); both ends of the
IPC channel take what arrives, and chokidar reports ready unless it reports an
error (`WatcherReady`). Nothing is assumed of users, disks, crashes, file events,
limit errors or capture programs. `EveryJobEnds` is checked without thread
crashes: with one it is false, which is what `lost_dispatch` shows.
`EveryFileIsHashed` is checked without jobs that stop and without restarts:
neither is followed by a new hash pass.

`CHECK_DEADLOCK FALSE` stands where the bounds let the system come to rest: all
scans done, all rows stamped, the file closed, nothing left to click.

Every property of a passing run has a mutant in `PROJECT.json`: a plausible bug
in a definition, present in the module next to it, that makes TLC report the
property violated.

## What is proved

For every value of the constants, from the named assumptions of each module alone
(`ConstantsAssumption`: counts are natural numbers; `WatchAssumption`: folders and
scans are finite sets and null is no scan; `IndexerAssumption`: each place has a
folder, each content a stat, a size and a digest, contents of one stat have one size,
pools and batches are not empty, and null is no place, content or digest; `CounterAssumption`: seeds end at or below the last
value of the counter; `BoundsAssumption`; `PanelsAssumption`: folders are a finite
set and the bounds are numbers; those of the parsers say what a file is made of, see
below):

| Module | Theorem | Says |
|---|---|---|
| `JobQueueProofs` | `TypeCorrect`, `QueueIsSafe` | the type invariant; the inductive invariant `QueueInvariant`, which TLC checked before and no run repeats |
| | `RunningJobsAreOwned`, `WorkersApart`, `CancelsAreAsked`, `CancelsAreNotLost`, `EndsAreFinal`, `SweepsAreOfCompletedScans`, `DemosRunEveryStep` | all safety and action properties of the runs but `BusySlotIsServed` |
| | `QueueImplementsLifecycle` | `JobQueue` implements `JobLifecycle` |
| `WatchManagerProofs` | `TypeCorrect`, `OneScanEach`, `WaitsForALiveScan`, `TimersBelong`, `WatchedIsKept`, `NoChangeIsDropped` | all safety properties of the live watch, for any number of folders, scans and restarts |
| `IndexerProofs` | lemmas | every update of the repositories keeps a sound table sound, and no row is lost |
| | `IndexInvariantHolds`, `TypeCorrect`, `PlacesStayDistinct`, `LinksLeadBack`, `CommittedRowsAreKept` | one row per place, links of duplicates lead to older rows, committed rows keep their age and frame |
| `CalmScanProofs` | `ScanInvariantHolds`, `CalmScansMirrorTheDisk` | when a scan completes undisturbed, every file of its folder has a row with its size and time that is not missing, and the row of a file that is gone is missing or the duplicate it was |
| | `BytesInvariantHolds`, `CalmScansKnowTheBytes` | and a hash, if there is one, and a frame, unless the header could not be read, are of the bytes there, but for racy places |
| `UuidProofs` | `TypeCorrect`, `UuidsIncrease`, `ClaimsFollowInserts`, `BurstsStayNear` | the counter's bounds; `Uuid` implements `IncreasingIds`; claims follow inserts; the stamp runs ahead of the clock by what the ids have earned |
| `PanelsProofs` | `PanelInvariantHolds`, `HeaderTellsTheTruth`, `WorkIsShown`, `RowsTellTheEnd`, `RowsTellTheMode` | all safety properties of the panels, for any number of folders, jobs, loads, calls and messages |
| `ParseFileProofs` | `FitsHeadersAreRead`, `XisfHeadersAreRead`, `RawHeadersAreRead`, `ReadsEndWithTheHeader`, `TypesHaveEvidence`, `ProfilesFillGaps` | all safety properties of the reading of a file, for any files, any growth, any blocks and bounds |

**The queue.** That a job is never with two workers cannot be shown from the
slots alone: a final message still in a channel, a run message not yet read and a
runner could each act for the same slot. `QueueInvariant` says they exclude each
other (`OneStage`): a slot's job is in exactly one of the inbox as a run message,
in the thread, or in the outbox as a final message. This survives a crash because a
crash event is the last thing a thread sends and its inbox is then empty
(`CrashIsLast`), and survives the next dispatch because a freed slot has an
empty stage. `CancelsInOrder` adds where a cancel may stand: behind the run
message of its own job, or left over with no run message before it, so that
`ReceiveRun` resets the flag before a runner starts. `Ownership` ties slots and
the pump to rows that say `running`, `DeadMeansEmpty` says that only rows
survive the process. Both invariants are proved by one lemma per action.

The refinement uses `EndRow` on the job of the slot: by `OneStage` the final message
names that job, by `Ownership` its row is running, so it is `End` of
`JobLifecycle`; `cancelled` needs `cancelRequested`, which `CancelsInOrder`
gives. `NextIsBest` shows that the row `claimNext` selects is the abstract
`BestQueued`. `RunningIsOwned`, `SweepOnlyCompleted` and the two below need a
strengthening of their own (`Owned`, `SweepInvariant`), proved inductive on top of
the first.

That no cancel is lost needs to know where one may be instead of in the thread's
inbox (`CancelReaches`): behind its job's run message, read and remembered by the
runner, overtaken by a final message, or moot because the thread is dead. The respawn is the
last call of the crash handler, and the pump before it may have given the slot its
next job: that is one nobody has asked to cancel yet (`RespawnsInOrder`). A demo job
completes with its last step persisted because its progress messages form an unbroken
run from where it started, and it started where the row stood (`DemoReports`): a crash loses what was
not read, and the next run starts there again.

**The live watch.** The properties are not inductive together: a folder that
waits for a scan must be the only one that does (`FlightIsOwn`), or the deferred
rescan of one would free another, and two scans that one process asked for cannot be
there for one folder; the folder must still have its row
(`ScansHaveRows`, which is the foreign key seen from here), or a rescan would
enqueue for a folder that was deleted; an event being delivered is of a scan
nobody owns any more, and boot does not attach folders meanwhile
(`ThreadIsSane`); and the memory of a dead process is empty (`DownIsEmpty`).
`ChangesWait` is `ChangeIsNotDropped` inside the handlers too. The heart is
`OwnScanStep`: a folder that waits for nothing, or for the scan whose end is being
delivered, gets a new scan. `RequestStep` adds the branch that defers,
`AttachStep` the attaching, and there is one lemma per kind of action.

**The indexer.** Rows are safe for two reasons, and `IndexInvariant` is both. The
table is sound as it is and as a rollback would leave it (`SoundTable` of `rows`
and of `savedRows`), and the transaction in progress has lost no row that was saved.
And all that is under way, the snapshots taken at dispatch, the batches, the
messages and the open transaction, names committed rows only and is of the kind its
job sends (`FlowIn`), so that a late result finds its row. Each update of
`Catalog` is shown to keep a sound table by a lemma of its own; the rest is one
lemma for each action.

**The calm scan.** Until its item is written a place of the folder is open: to be
visited, being read, or an item in the batch, in a message or in the transaction,
in exactly one of these (`Truthful`). Then it is settled: its row has what is on the
disk and the time of the scan, which keeps it from the sweep, while the row of a file
that is gone is older (`Covered`, `OldWhereGone`). Moves are the hard part. A place a
moved file is to go to was free when the scan looked and is free when the item is
written, because only a scan of the folder puts rows there (`FreeForMoves`, `Alone`); so the transaction of a calm scan never rolls back. Other folders' moves,
hash results and their rollbacks go on meanwhile: `Gentle` says what all of them
leave alone. `ScanInvariant` was checked by TLC on the bounds of `index_scans`
before it was proved.

**The bytes.** A row's stat, hash and frame are written by different jobs at different
times, so what the sweep of a calm scan finds is owed to jobs long gone.
`BytesInvariant` says it of every moment and of everything that may end in a row.
Call a place clean unless it is racy. Then what is known of a clean place is true
(`Known`): of the rows and of those a rollback would restore, of the items in
batches, messages and the transaction, of the tasks of hash passes, and of what a
walker takes a place to hold between its stat and its read. The hash and the frame
of a row are said to be of its own stat, which a change of the disk does not disturb;
only a present row that waits for its hash is said to have the stat of the disk. The
calm scan then ties every stat to the disk (`ScanInvariant`). Nor can a change at a
clean place disturb what is under way: nothing is, since a change that meets a job, or
a row that waits for its hash, makes its place racy. A row that moves brings its frame along, and the hash by
which it was recognised says that the frame is of the bytes found, unless the row
was not clean itself; then its new place is not either (`Doubtful`). A step adds items,
tasks or walks (`BytesGrow`) or writes a row (`WriteIsTrue`), and each action is one
lemma.

**Ids.** `IdsIncrease` goes through the three branches. The claim order needs to
know that the id of the next row is above those of the process's earlier rows and
that its `createdAt` is not below theirs; `BelowTheNext` keeps both while the clock
stands, ticks and the millisecond is borrowed. A borrowed millisecond was paid for
with the headroom above the largest seed; `AheadIsEarned` counts that, and what the
counter has used since, so that nothing is counted twice. The model takes seeds
from 0 to `SeedMax`, as `reseedCounter` clears the top bit of the counter.

**The panels.** A window that is behind cannot be told wrong by looking at it. So
`PanelInvariant` speaks of the wire too: what is shown (the indicator, a row, a mode,
a list) and each message not yet heard is true of the main process now, or a later
message replaces it, or the call that brings one has been made. Two of its parts are
worth a remark. An event reaches a row only from the reply on that names its job, so
`Told` depends on the position on the wire. A stale answer to `watchFolders.list` is
harmless once a status event is heard or on its way, and before that a list asked for
later must follow (`ListComesTrue`). The steps of the main process go through one
lemma (`MainKeeps`): it is enough that what changed is told by the messages sent
(`NewsOfJobs`, `NewsOfFolders`) and that these are true themselves. The steps of the
window go through another (`HearKeeps`): what is shown now is what was first on the
wire. The properties are the case of an empty wire.

**The parsers.** What a fold over a list computes is induction over data, and the
library's induction theorems cannot be used. The proofs go by the least number
instead: a non-empty set of natural numbers has a least one (`LeastNumber`), hence
what holds of 0 and of each successor holds of all (`StepByStep`). With it the
folds are unfolded into the states between the items (`FeedBlockUnfolds`,
`ScanXmlUnfolds`, `ParseBlocksUnfolds`), and what is left is one lemma about one item
more: what the first n + 1 cards say, given what the first n say and what the scanner
held (`FeedCardSays`). A file that grows keeps what its first n units say
(`SaysAgree`, `PrefixStays`), so that what a block was found to say is still true
when the file is closed; these are the inductive invariants `FitsOK`, `XisfOK` and
`RawReadOK`. In FITS the hard part is a long string: it waits in the scanner, over
commentary and blocks, and is the last setter of its keyword until another card sets
it (`PendingIsLast`). For XISF a scanner with a stack is compared with a grammar that
has none. The grammar is defined by recursion over spans, from the inside; its
solution is shown to exist as the least set of spans closed under the rules
(`BalancedFollows`). Nested items bring the stack back to where it was
(`NestingKeepsStack`), and items over which it comes back are nested
(`LevelIsNested`). The type of a frame and the profile follow from what the three
metadata tables give for the two fields concerned.

The assumptions say what the environment may hand to the parsers. `FilesAssumption`: a
file is a record of its parts, its path a list of segments. `FitsAssumption`: its
units are cards, where a keyword outside the charset is not `SIMPLE` (`KEYWORD_RE`
matches that). `XisfAssumption`: the declared length is a number, the units are XML
items, of which only start tags have attributes. `RawAssumption`: boxes are lists of
boxes as deep as the walk goes, and exifr throws, finds nothing or returns tags.
`AttributesAssumption`: an attribute that is missing is no bad reference.
`BlocksAssumption`: a block has cards, and some are read.

**Only model-checked.** Liveness (`EveryJobEnds`, `ChangeIsWalked`,
`EveryFileIsHashed`, `EveryReadEnds`, `TogglesComeBack`), which rests on fairness
and so on ENABLED, out of the prover's reach. `BusySlotIsServed` holds without
thread crashes only and is refuted with one.

## Findings

1. **A dispatch is lost when a worker crashes** (`lost_dispatch`,
   `jobs/pool.ts:108`). The crash handler frees the slot and reports the error;
   the orchestrator pumps and dispatches the next queued job to that slot, whose
   thread is dead; only then is the thread replaced. The job stays `running` and
   the slot busy until the next boot, and for a scan the watch manager waits for
   it as long.
2. **A copy of a moved file is never read** (`index_copies`,
   `jobs/orchestrator.ts:402`). Two new files match one missing row. The first
   takes it; the second falls through to be inserted "as a brand-new file", but
   the worker has skipped its parse. The row has neither frame nor error, and the
   next scans find it unchanged.
3. **Hash passes spin** (`index_spin`, `jobs/orchestrator.ts:521`). A present
   file that cannot be read is backlog for ever; each pass that completes
   enqueues the next.

### What the properties leave out

Where the code does not keep what a comment or the guide promises, the property
next to it says what the code does keep, and its comment names the exception.

| Property | Says | Not promised, though |
|---|---|---|
| `OneScanPerFolder` | one watch-triggered scan of a folder for each process | `watch/watch-manager.ts:139-144` says at most one: after a restart the requeued scan stands beside the one of the attach (line 337) |
| `ChangeIsNotDropped`, `ChangeIsWalked` | a change is walked while nobody cancels | cancelling a queued scan of the folder, manual ones too, drops the change if nothing else stands for it (lines 298-313) |
| `CalmScanMirrorsDisk` | a row whose file is gone is missing or a duplicate | `docs/user-guide.md:64` has all files of a drive that is gone marked missing; `files.ts:235` passes duplicates over |
| `CalmScanKnowsTheBytes` | hash and frame are of the bytes, at places that are not racy | an edit that keeps size and time (in milliseconds) is never noticed (`scan-job.ts:217`, `files.ts:175`); a file that no longer parses keeps its old frame, although `jobs/orchestrator.ts:343` says that no frames row is left |
| `XisfHeaderIsTheFiles` | keywords and properties are the last of each key, wherever they stand | `core/src/xisf/parse.ts:9` speaks of elements within `<Image>`; line 14 says that the module never throws on file content, but a reference beyond Unicode makes it |
| `RawHeaderIsTheFiles` | a file with a block that throws is refused | the comment at `core/src/raw/parse.ts:329` has the next source tried |

### Other divergences

Read in the code while modelling it, and not the subject of a run.

Queue, watch and catalogue:

- `jobs/orchestrator.ts:265`: a move within a folder is not followed, although
  `docs/user-guide.md:65` says so: the scan that walks the new path marks the old
  row missing only after the walk, and no later scan looks for a move at a known
  path.
- `watch/watch-manager.ts:306`: a rescan deferred before the watch was switched
  off is requested after it (the listener does not look at the mode).
  `watch-manager.ts:298`: a watch-triggered scan that fails or is cancelled is not
  retried, nor is a hash job.
- `main/index.ts:253`: removing a folder that was scanned stops its watcher and
  then fails, because `scan_jobs` refers to the row.
- `files.ts:190`: a duplicate whose content changes keeps its status and link
  and loses its hash; no pass selects it again.
- `files.ts:212`: a missing file that comes back keeps its hash and is not
  compared with copies hashed meanwhile. `files.ts:283`: a late hash result makes
  a missing row present until the next sweep. `jobs/hash-job.ts:61`: a hash read
  before a change may be recorded after it and then stays.
- `jobs/scan-job.ts:184`: a moved file may keep the frame of other bytes. Its header is
  not read, for its "content is unchanged by definition (same size+hash as before the
  move)" (`jobs/protocol.ts:98`). But the header of a row is read by one job and its hash
  computed by a later one: a file of the same size that is edited in between, before
  a scan sees the edit, has a frame of the old bytes and a hash of the new. When it
  moves, the hash matches, and its new size and time are stored as seen, so no later
  scan reads it. TLC showed this of `CalmScanKnowsTheBytes` once the disk could
  change three times; the property now leaves out the places such rows move to.
- `jobs/orchestrator.ts:381`: a move reported to a path that got a row meanwhile
  throws, and the whole batch is lost while the scan completes.
- `jobs/orchestrator.ts:512`: of two overlapping scans of a folder, the newer
  marks files missing whose `lastSeenAt` the older has set back.
- `jobs/orchestrator.ts:497`: a death between `complete` and the hash job leaves
  the files unhashed until another scan.
- chokidar's ignore predicate takes a name with a dot for a file, so a directory
  like `M31.2024`, which the walker enters, is not watched.
- A clock set back makes the order of `created_at` differ from the order of ids.

Parsers and profiles:

- `core/src/xisf/parse.ts`: an empty value reads as the number 0.
- The property `Instrument:ExposureTime` of a XISF file wins over its EXPOSURE
  keyword.
- SGPro's ANGLE correction never applies to XISF files, whose keywords are all
  strings, although `capture-profiles/types.ts:4` calls the keywords uniform.
- A FITS string that ends in `&` and blanks is not continued.

Panels:

- The header forgets a running job when another one ends, until its next progress
  event.
- A removal that is refused leaves the folder unwatched while its row goes on
  saying that it is watched: `stop()` reports no mode.
- A folder that is removed or switched off while `setLiveWatch(true)` awaits the
  watcher: closing before `ready` leaves the promise pending, and the buttons
  disabled until the tools are opened again.
- A row that has heard no event shows "watching" from the flag although the folder
  is in fallback.
- `JobDemo` without a job id shows the events of any job, and `DebugPanel` loses
  what happens while it is closed (neither is modelled).

## Assumptions

- Messages of one port are read in the order they were sent, and the crash event
  of a thread comes after its messages (Node delivers both from one queue).
- Job ids follow creation order within a millisecond: `ClaimOrderIsInsertOrder`
  of `Uuid`, for a clock that is not set back.
- Node's `postMessage` to a thread that has thrown does nothing.
- chokidar delivers nothing after `close()`.
- Electron keeps the order of the messages to one page and drops those to a page
  that is gone.
- A restart of the process takes more than a millisecond.

## Not modelled

- Search: read-only queries. Database bootstrap and migrations: run once, before
  anything else. Plain CRUD repositories (projects, targets, ...): one statement
  per method, no caller yet. The manual frame-type override that `upsertByFileId`
  preserves has no caller either.
- IPC validation and the white list of channels: pure checks of one input.
- `DebugPanel` and `JobDemo` (developer tools), presentation and theme.
- Drive labels, native smoke test, benchmarks, fixtures, scripts: tooling and
  input and output of the operating system.
- In the parsers: the syntax of numbers, entities, quotes within a token and
  attributes; the inside of the EXIF library.
- Two claims in one millisecond are outside `Indexer`. What becomes of a change
  between the catch-up walk and chokidar's `ready` event depends on chokidar and
  is left open.

## Plan

1. `JobLifecycle`, `JobQueue` and their proofs: done.
2. `WatchManager` and its proofs: done.
3. `Catalog`, `Indexer` and their proofs: done. Worth stating next: an abstract specification, a table that only grows, each row
   being seen, missed, hashed or moved.
4. `Uuid` and its proofs: done.
5. Parsers and their proofs: done.
6. `Panels` and its proofs: done.
