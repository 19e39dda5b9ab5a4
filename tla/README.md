# A verification of the Sia storage app

TLA+ modules, TLC configurations and TLAPS proofs about the core of the Sia
storage app: the sync engine, the uploader, imports, downloads, share links, the
library and the file provider's feed in `packages/core`, the databases the mobile app and
the daemon run it on (`apps/mobile/src/db`, `packages/node-adapters`), and the
scheduling and suspension around them. Source paths below are relative to
`src/`; short file names are in `packages/core/src` unless a path is given.

## The system

A device keeps a SQLite database of files and directories, uploads the files'
bytes to the Sia network, and shares one library with the account's other
devices through an *indexer*: a service that keeps an encrypted metadata record
per pinned object and publishes changes as an ordered stream of events.

| Component | State it keeps | Operations | Talks to | What makes it correct |
|---|---|---|---|---|
| Metadata sync (`services/syncDownEvents.ts`, `services/syncUpMetadata.ts`, `db/operations/localObjects.ts`) | stored cursor; a dirty flag per object row | a sync-down tick per schedule, a sync-up pass over the dirty rows | the indexer; file and object rows | no event skipped, no edit's push forgotten, devices converge, a delete is final |
| File records (`db/operations/files.ts`, `tags.ts`, `trash.ts`) | `files` rows with the edit clock `updatedAt`, `name`, `trashedAt`, `deletedAt`; tags | rename, move, tag, favorite, trash, restore, tombstone | flags the file's objects; the feed's triggers | an edit is stamped above what it replaces; a name has one current version |
| Uploader (`services/uploader.ts`, `app/namespaces/uploads.ts`) | two queues, the packing batch, in-flight uploads, the uploads store | poll, pack, flush, pin, record, suspend, shut down, restart | SDK, indexer, object rows | a file is in one place, pinned once and as itself, uploaded in the end |
| Imports (`db/operations/imports.ts`, `services/importScanner.ts`) | `import_files` rows with a state and a claim token | claim, copy, hash, add, fail, cancel, retry | files, local copies | one claim at a time; a crash or a cancel loses no file |
| Local copies (`services/localCopyLock.ts`, `cacheEviction.ts`, `orphanScanner.ts`, `retypeFile.ts`, `db/operations/fs.ts`) | `fs` rows, files on disk, a lock per file | download, evict, remove orphans, retype | imports, uploader | the last copy of a file is never removed; what is uploaded is what was hashed |
| Downloads (`app/namespaces/downloads.ts`, `lib/slotPool.ts`) | runs by id, promised space, slots and a queue | request, join, cancel, promote, transfer | local copies | a run is reachable by its id, promises fit the disk, no slot idles, the user goes first |
| Directories and library (`db/operations/directories.ts`, `files.ts`, `trash.ts`) | folder rows, version stacks, the journal of the feed | create, rename, move, delete, restore | the feed | stacks and folders say the same thing twice and agree |
| Provider change feed (`db/operations/providerChanges.ts`, `app/namespaces/provider.ts`) | sequence numbers, departures, anchors | list, ask for changes | the platform's file provider | a shell at the end of the feed shows what the library has |
| Mobile database (`apps/mobile/src/db/index.ts`) | gate, writer lock, read pool, in-flight count | statement, transaction, read, suspend, interrupt, resume, reset | every flow in the process; expo-sqlite | calls are atomic and exclusive; nothing runs behind a closed gate |
| Suspension (`services/suspension.ts`, `apps/mobile/src/managers/suspension.ts`) | active, suspending, suspended; app state; background tasks | app state changes, register and release of a task, service stop, drain | scheduler, uploader, mobile database, queue | the process freezes with a quiet database; the app comes back |
| Database access on Node (`packages/node-adapters/src/transactionGate.ts`, `database.ts`) | the open transaction, the mutex | statement, transaction, retire, close | the daemon, the desktop app | a statement outside a transaction never joins it; shutdown takes no call's work back |
| Service scheduler (`lib/serviceInterval.ts`) | a token, timers, deferred ticks, running workers | init, trigger, pause, resume, shut down | every background service; suspension | one chain of ticks, never none |
| Queue and lock (`lib/coalescingQueue.ts`, `lib/mutex.ts`) | running and latest pending operation; claims | enqueue; acquire, release | suspension; databases | the latest intent wins; first come, first served |
| Share links (`app/namespaces/shareLinks.ts`, `db/operations/shareLinks.ts`) | links, the files each is of, the objects last seen attached | create, add, remove, revoke, a pass that lists, adopts, attaches and detaches | the indexer's sharing keys; file rows, the trash | the link shows what every device lists for it, a trashed file never, and no gap in between |
| Thumbnails, application service, daemon, platform shells | rows, caches, a lock file | see `PROJECT.json` | files, platforms | |

`PROJECT.json` lists every component, the ones outside the model too, and the
hazards at their lines. What is hard here is concurrency on one thread: every
`await` is a place where the other flows run, so a decision can be stale when it
is applied; rows and bytes are written by different calls and a kill falls
between them; ticks are aborted, fail and die halfway; two devices' clocks
differ; and iOS freezes a process with an SQLite lock in its hand.

## Modules

| Module | Models | Runs |
|---|---|---|
| `MetadataSync` | devices, their ticks and uploads, the user's edits, the indexer | `one`, `two`, `objects` |
| `MetadataSyncProofs` | theorems about it: types, cursor, tombstones, and what it comes to: agreement, deletes, pushes | proved |
| `MobileDb` | the mobile database adapter | through `Suspension` |
| `Suspension` | the suspension manager and its queue, over `MobileDb` (EXTENDS) | `suspension_ios`, `suspension_android` |
| `SuspensionProofs` | theorems about both, the refinement among them | proved |
| `TransactionGate` | the database adapter of the daemon, with its shutdown | `gate` |
| `TransactionGateProofs` | theorems about it, the refinement among them | proved |
| `AtomicStore` | what a database adapter promises its callers | refined by `Suspension` and by `TransactionGate` |
| `ServiceInterval` | the scheduler of one background service | `service` |
| `ServiceIntervalProofs` | theorems about it | proved |
| `LocalCopies` | bytes on disk, `fs` rows, locks, eviction, orphan scan, deletes, type changes | through `Imports` |
| `Imports` | the import scanner, folder deletes, over `LocalCopies` (EXTENDS) | `imports` |
| `ImportsProofs` | about both: types, and the invariants on who owns a row, the lock and an eviction | proved |
| `ImportsBytesProofs` | the invariants on where each file's bytes are, and each safety property of the run | proved |
| `Uploader` | the upload manager and the uploads store | `uploader` |
| `UploaderProofs` | theorems about it: types, one place, one pin, its own object | proved |
| `SlotPool` | the slot pool, as operators on its state | through `Downloads` |
| `Downloads` | the downloads namespace, over `SlotPool` (EXTENDS) | `downloads` |
| `DownloadsProofs` | theorems about it | proved |
| `Library` | file rows, version stacks, folders, trash, and the triggers that number changes | through `ProviderFeed` |
| `ProviderFeed` | an OS shell that lists a scope and follows its changes, over `Library` (EXTENDS) | `feed` |
| `ShareLinks` | a share link, two devices' passes over it, and the edits of their libraries it follows | `links` |
| `MC...` | the instances of these that TLC checks | |

Operators named `...Blind`, `...Lost` and the like, each under a comment that
begins with "Mutant", are broken variants of the operator below them. No
specification uses them; each shows that the property `PROJECT.json` pairs it
with would notice such a bug.

In all modules the code runs on one JavaScript thread, and a step goes from one
`await` to the next. Where the code does not handle an interleaving, the model
takes it all the same and adds the interleaving's name to `hazard` (`race` in
`Library` and `ShareLinks`), and a property says what holds of behaviours free of the names it
lists. Each name is set by the action that makes the mistake, never by a wish to
excuse a state, and each is explained below.

### MetadataSync

| Variable | In the code |
|---|---|
| `row` | the `files` row: `updatedAt` (`clock`), what renames, moves, trash and restore change (`name`), tags, `deletedAt` |
| `obj` | the `objects` row and `needsSyncUp` |
| `cursor` | the stored sync-down cursor |
| `remote`, `stream`, `head` | the indexer: metadata, position of an object's one event, last position |
| `down` | a tick of `syncDownEventsBatch`: the page, then the rows it read, then applied |
| `up` | a task of `syncUpMetadataBatch` for one object, from await to await |
| `upl` | `saveBatchObjects` for one object: metadata read, pinned, recorded |
| `applied`, `hazard` | history |

A step is one database call or one request. The page's transaction
(`processBatch` :556-746) is one step, `DownApply`, on the reads of an earlier
one, `DownClassify`: everything in between is another flow's chance. Edits are
one transaction each: `Rename` stands for all that stamp above the row's own
clock, `EditTags` and `Tombstone` for those that stamp the wall clock. The value
an edit writes is its number, so two edits never write the same.

Abstractions. Directories, thumbnails and the tag and directory names an event
carries are one value (`name`, `tags`). The indexer publishes a change at once
and gives it a position of its own; the real one positions events with a delay,
by the second, which the code meets with a cursor of time and id. A metadata
record has every field the code compares. A file trashed after the uploader picked it
up is read and pinned like any other, for its row is still there; fairness asks only
that live files are picked up. A tick reads one page at a time.

| Race | What happens |
|---|---|
| `editDuringApply` | an edit commits between sync-down's reads and its transaction, and is overwritten or loses its flag |
| `pushCrossed` | a push overwrites metadata newer than what it compared with |
| `adoptedClean` | an object met for a newer row or a tombstone is recorded clean |
| `staleStamp`, `sameMs` | a tag edit or a delete is stamped below, or equal to, the clock the row has |
| `lateSave` | an upload is recorded after its object's delete was read |

### MobileDb and Suspension

| Variable | In the code |
|---|---|
| `gate`, `cutOff` | `state` and `cutOff` of `db/index.ts` |
| `claims` | `writerLock`: the holder and the waiters, in order |
| `call` | each call of the adapter: at the gate (`parked`, `woken`), at the lock (`locking`), in `readQueue` (`queued`), or what it has sent to native; `hit` is an interrupt that reached its statement |
| `conn`, `durable` | the writer's open transaction with its statements; the statements committed |
| `pool`, `reset` | the readers; `replaceDatabase` from await to await |
| `mgr`, `app`, `tasks` | `state`, `appState`, `runningTasks` of the manager |
| `op`, `pending` | the `CoalescingQueue` |
| `entered`, `saw`, `drained` | the drain: whether it began in the background, what of `waitForIdle` has settled in this tick, how it ended |
| `screen`, `events`, `services` | the platform; the scheduler and the uploader |

Answers of the native side, timers, presses and lifecycle events come one per
turn of the event loop, and a turn begins only when every promise that settled
has been acted on (`Turn`, `Quiet`). Without that, a lifecycle event could land
between the end of a drain and the pending resume, which cannot happen. A call
may be made at any time, a background task may register or end at any time,
since that is code of the app.

An interrupted statement may fail or still succeed; an interrupted write takes
its transaction with it or leaves it, an interrupted ROLLBACK may leave it open;
the driver's ROLLBACK and the one `runTransaction` sends after it are two steps.
The count of work in flight passes through zero when an interrupted read is
retried in the same turn, and a replacement that waits for zero goes on
(`ReadEnd`). Interrupts reach native code on iOS only (`Ios`).

| Race | What happens |
|---|---|
| `resumedReset` | a suspension that landed in a reset resumes before the reset has taken the readers away, and opens the gate under it |
| `strayTransaction` | both ROLLBACKs of a transaction are interrupted, the drain runs out of time, and the calls parked until resume run inside the transaction left open |

Left out: the connection lost to a native handle error and its recovery, the
retry of `initializeDB`, hooks that throw (one that throws in `doResume` leaves
the manager resuming, `services/suspension.ts:315`), the blocker that declines a
suspend while the app initializes (so the resets that show the splash first,
which no suspend can meet), a process launched in the background on Android.
A service stop that replaces a registered task's pending resume (:354) is
modelled, and is why `RestsRight` asks nothing of a task registered in a drain.

### TransactionGate and AtomicStore

| Variable | In the code |
|---|---|
| `open` | the promise outer statements wait for, as the transaction whose end it is |
| `claims` | the mutex: its holder and the waiters, and `Retire`, `finalize()` as one of them |
| `call` | each call: waiting for `open`, waiting for the mutex, in its body, failed, done, and what its caller was told |
| `conn`, `kept` | SQLite's open transaction with its statements; the statements committed |
| `phase` | the shutdown: `up`, `retiring`, `retired` (the mutex taken for good), `exited` |

The driver is synchronous, so a statement is one step; a transaction is one
step per await of its body. Any statement, BEGIN and COMMIT may fail; a body may
throw between statements; a body may call the outer adapter, which throws at
once (`Misuse`). Which of the promises that settled is acted on first is left
open, since `outerGate`'s own comment leaves it open and its loop looks again
(`Wake`). Left out: a body that catches the failure of one of its statements,
transactions nested through the handle (they join), work a body starts and does
not await, the Bun driver, a ROLLBACK that throws (SQLite's leaves no
transaction open). Shutdown is modelled from `finalize()` to the exit.

`AtomicStore` says what callers rely on: a call takes effect whole in the step
that tells its caller so, and a refused one left nothing. `StoreSpec` is that
specification, in `Suspension` with `kept <- durable` and `answer <-
call.answer` (the file a reset deletes is nobody's concern any more, so
`durable` keeps it), in `TransactionGate` with `answer <- call.answer`.

### ServiceInterval

`sched` holds every pending tick of one service: the timer its map entry names
(`mine`), the timers no entry names (`strays`, counted by the token of the
`init` that made them), the ticks deferred by a pause, and the workers under
way. `init`, `triggerNow`, `Pause`, `resume`, `shutdown` are the code's own
calls; `Fire` and `WorkerEnd` are turns of the event loop. `init` is called while
the app is not paused, its database calls having passed the gate, and `Pause` not
while the app initializes or resets, which the suspension's blocker refuses.

Left out: how long an interval is, several services (they share nothing but the
pause), `waitForIdle`, which nothing calls.

| Race | What happens |
|---|---|
| `twoChains` | a trigger in a pause defers a second tick beside the one deferred already; both make timers at the resume, the entry names one, and the service has two chains |
| `reinitialized` | `init` runs beside a worker (a new start in the simulator or a test); the worker's end resets flags of the new one |

### LocalCopies and Imports

| Variable | In the code |
|---|---|
| `imp` | `import_files`: state, claim token, type, hash, attempts, whether its source is known to be gone |
| `file`, `fs`, `obj`, `indexer` | rows of `files`, `fs`, `objects`; the indexer of the settings |
| `disk`, `temp` | the bytes at each slot (id and type make the path), the temps of finished copies |
| `holder` | `localCopyLock` |
| `dl`, `evict`, `scan`, `owed` | a download, `runCacheEviction` and `runOrphanScanner` from await to await; removals and moves of bytes due after a commit |
| `staged`, `src` | imports whose source is the app's own copy, which is moved; the bytes at each source |
| `job`, `tick`, `reclaimAll` | `processRow` under each claim; `runScan`; the flag of the first tick |
| `folder`, `drop` | the folder imported into; `deleteAndTrashFiles` from await to await |
| `mobile` | which adapters are in use: mobile copies to a temp and renames, Node writes to the slot |
| `sent` | history: the bytes of the last upload |

A claim carries a token and a row is written only under it, but a copy the tick
stopped waiting for goes on, so the job of a lost claim may still put bytes in
place. Kills end every flow and clear memory; bytes, rows and temps stay.
Abstractions: contents are values equal to their hashes; the type of a file's
bytes is a constant (`Classify`) that its row may not agree with; eviction's
budget and order are a free choice; a type change of a file does not overlap
another of the same file; an unlink followed by a move is one step, and so are a
removal outside eviction and `getFsFileUri`. Left out: the expansion of folders
into rows, pacing by disk space, grants and bookmarks, the tally of an import.

| Race | What happens |
|---|---|
| `judgedEarly` | the orphan scan judges a batch once and removes or renames its files later, one of which was added, retried or retyped meanwhile |
| `partRecorded` | a Node download cut off leaves a short file on disk, and it comes under an `fs` row: `getFsFileUri` or a download records it, or a type change finds it or moves it to the slot of a row |
| `switched` | the indexer changes between eviction's count and its removal |
| `movedUnrecorded` | a staged import's bytes moved to the slot and the process died or the tick ended before its `fs` row |
| `failedAdded` | a folder delete fails rows it read in flight, one of which was added meanwhile, and removes its bytes |
| `latePublish` | the copy of a lost claim publishes after the row was settled or claimed again |
| `retried` | a staged import that failed is retried, and the orphan scan may have taken its bytes |
| `rewritten` | on Node a second download rewrites a slot that has an `fs` row |
| `leftHalfway` | a kill falls between a row and the bytes it owes, or between eviction's bytes and its row |
| `retyped` | a type changes while bytes are on their way |

### Uploader

| Variable | In the code |
|---|---|
| `explicit`, `polled`, `draining` | `explicitQueue`, `polledFiles`, and the entries a drain has taken |
| `current`, `uploading`, `flushing` | the open batch and packer, those being uploaded, the flush in progress |
| `batch` | each batch: files, adds that succeeded, phase (`open`, `finalize`, `pin`, `remove`), cancelled |
| `loop` | `runLoop` of each generation, with its window of adds in flight |
| `active`, `suspended`, `generation`, `shut` | the flags, and `shutdown()` waiting for a flush |
| `uploads` | the uploads store |
| `file`, `objects`, `pins`, `swapped` | rows (`live`, `trashed`, `deleted`, or `gone` with the row) and which have an object; history of pins |

A pin is made of a file whose row is there, a tombstone too. It may fail before the
indexer has the object, or after: the answer is lost three times, or the object cannot
be sealed. One statement records a batch; an object needs its file's row, so when an
unavailable file is removed with its row (`deleteWithThumbnails`) between its pin and
the record, the database refuses the whole batch (`Refused`).

Sizes are abstracted: whether a batch is flushed before or after an add, and how
long a window is, are free choices. Left out: the estimates behind these choices,
progress, diagnostics.

`Pipeline` lines up the places a file can be in, as the code passes it along: what is
left to pin of the batch under `flush()`, the open batch, the entries of the drain not
yet added, `explicitQueue`, `polledFiles`; `Done` has the files of that flush whose pin
is over. `HeldOnce` is that no file is in `Pipeline` twice, nor in both, and that every
active entry of the store has a file there, so a trash, a poll or a restart neither
packs a file again nor strands it.

| Race | What happens |
|---|---|
| `dropped` | a trash removes a held file's store entry, and the file is queued a second time once restored |
| `cleared` | the store is cleared after a shutdown that kept a file in the queue |
| `requeued` | the failure of a whole batch marks or removes the store entries of files queued anew meanwhile |
| `unrecorded` | a pin is stored and no object records it, because its answer is lost or its batch fails or is refused; the poll finds the file again |
| `suspended` | a flush starts after `suspend()` |

### SlotPool and Downloads

`pool` is the state of `slotPool.ts` (`max`, `capacity`, `holders`, `queue`), and
`SlotPool`'s operators are its methods. `controllers`, `inFlight`, `priorities`,
`inFlightSizes`, `dropped`, `downloads` are the maps of the namespace, by id, a
controller and a promise being the number of the run that made them; `run` is an
`execute` or `executeShareUrl` from await to await; `probe` is the shared reading
of the free space; `lock` the local copy lock by id; `written` the bytes on disk.

Abstractions: bytes arrive at the end of a transfer and a cancelled one leaves
none; the two `finally` blocks of a share link are one step; a turn of the event
loop begins when no continuation is due (`Quiet`). Left out: the reservation in
`transferMemoryBudget`, `restoreMaxSlots`, `wasDropped`, ranged reads.

| Race | What happens |
|---|---|
| `crossed` | the end of a cancelled share download clears the entries of the run that followed it |
| `staleProbe` | a check uses a reading of the free space older than a download that ended since |
| `unread` | the reading fails, and every check passes |

### Library and ProviderFeed

`db` is the database of one device: `file` rows (state, name, folder, clock,
`stack` identity, current flag, what the trash remembers, indexers, feed number),
`dir` rows, the departures ledger and the feed's counter. Every operation is one
transaction, written row by row as an operator from a database to a database,
since the triggers number each row write. A shell has a `scope`, a `cursor`, a
`view`, and one `call` in flight, whose reads are separated by awaits; the three
reads of one `Promise.all` see one database. A folder is asked for by its id, and
every call turns that into the path it has (`FolderPath`) and the path into the id
that has it (`DirIdFor`), each an await of its own, a listing noting the feed's
number between the two (`Began`); what it reads is of the id it found, and the items
say they are in the folder that was asked for. A page of a folder that is not full of
subfolders is filled up with the first files (`ListChildren`, `ListFolderFiles`).

Abstractions. The device's wall clock stands still and others stamp below and
above it. Triggers fire latest created first, as SQLite does. A scope is the
working set, the top or one folder. The OS drops an item under a parent it has not met, applies items
before deletions, and a deleted folder takes its descendants (the Swift
enumerator, `apps/desktop/native/macos/Ext/Enumerator.swift`). `Fold`, what LIKE
ignores, is the identity in the run, so no two folders differ by case only: where
they do, three operations take a sibling's tree with theirs (findings). Left out:
thumbnails of trashed files, tags, imports that keep folders alive, batches,
hashes and the "unchanged" answer, the downloaded flag, the thumbnail nudge, the
expiry and epoch of anchors, pruning of departures (nothing calls it), the items
returned by the extension's own writes.

| Race | What happens |
|---|---|
| `unstamped` | the process dies between storing a new indexer and stamping the rows, so badges stay stale |
| `repathed` | between a call's path and its id the folder is renamed and another takes its path: the call reads the other one, and its anchor passes what the shell was never shown |
| `putBack` | the stamp fails and the setting goes back, after a shell has read rows under the new one |

### ShareLinks

| Variable | In the code |
|---|---|
| `lib`, `has` | each device's `files` rows (name, `updatedAt`, `trashedAt`) and the rows whose object it knows |
| `key`, `shared` | the indexer: the sharing key, and the objects attached to it with the `updatedAt` of their metadata |
| `known`, `files`, `att` | a device's `share_links`, `share_link_files` and `share_link_objects` |
| `op` | the device's link operation (`exclusive` runs one at a time), from await to await: what it read (`list`, `on`), what it is to keep and to detach |
| `left` | the mode, the devices in use, what is left of the bounds |
| `away`, `off`, `calm`, `race` | history |

A step is one request to the indexer with the write that records its answer, one
batch of reads, or one transaction. `AttachCut` is the attach whose answer is lost
or whose device dies before, or after, it is recorded; `CutShort` is any other
request that fails, a pass that is abandoned, a process that dies. `SyncLink` is
the reads and the bookkeeping at the start of `syncLink`; `Onward` ends its loops
when nothing is left of them.

Abstractions. Every file of the model is at the top of the library, which a trashed
row reads as too, so a name is a stack; a move is a rename. Metadata and object rows
go from device to device in one step (`MetadataSync` has the steps of that), the
clocks of the devices agree, and a file is uploaded as soon as its stack shows it. A request to detach and the
removal of its row are one step in `Unshare`: a death between the two leaves a row that
the next listing of the link drops.
Left out: several links, paged listings, expiry, folders, files deleted for good,
what `links()` shows, the shared waiting pass of `syncLinks` (it only saves passes).

| Race | What happens |
|---|---|
| `renamed` | a file is renamed between the pass's read of the link and its look for the current version: what is attached of it comes off |
| `crossed` | a device detaches, or attaches again, by what it last listed an object the other device has attached since |
| `listedTrash` | a file read as live is put on the list after it was trashed |
| `behind` | a device detaches as an older version the one listed with newer metadata than its own row has |
| `unread` | a device attaches, over newer metadata it lists, an object whose row came while its pass was under way |
| `unmarked` | a file a device lists on the link is first heard of in the trash, before its object is known |

`away` is the history behind `StaysOff`: what a device had in the trash, less what it
added, newly heard of on the link, or put there for a listed file's stack since.

## Runs

| Run | What it checks | Instance | Result |
|---|---|---|---|
| `one` | `TypeOK`, `NoSkippedEvent`, `CleanMeansPushed` | one device, one object; ticks abort, fail, die; the cursor may be reset; 2 edits, 5 stream positions | holds |
| `two` | `Converges`, `DeleteWins`, `Settles` (fair) | two devices, one 1 ms ahead, one object; 2 edits, 4 positions | holds |
| `objects` | `StaysDeleted`, `ReadIsKept` | two devices, two objects of a file, pages of 2, one device faulty; 1 edit | holds |
| `suspension_ios` | `FrozenIsQuiet`, `RestsRight`, `WriterIsExclusive`, `StoreSpec` | a write, a transaction of 2 statements, 2 reads on 1 reader, a reset, 1 task, 3 events; 1.8 million states | holds |
| `suspension_android` | `ForegroundResumes`, `CallsEnd` (fair) | a write that fails fast, a transaction, a read, a reset, 1 task, 4 events | holds |
| `gate` | `Exclusive`, `StoreSpec`, `CallsEnd` (fair) | 2 outer statements, 2 transactions of 2 statements, a shutdown; 6,346 states | holds |
| `service` | `OneChain`, `KeepsTicking` (fair) | 3 starts, 2 pauses, 3 triggers; 25,436 states | holds |
| `imports` | `TypeOK`, `LastCopyKept`, `SentIsWhole`, `StagedKept`, `OnDeviceHasBytes`, `AddedMeansFile`, `EvictsOnlyBackedUp` | an import and a file already here, 2 types, 2 indexers, 2 claims, 3 acts, 2 attempts; 2.2 million states | holds |
| `uploader` | `HeldOnce`, `PinnedOnce`, `PinnedAsItself`, `UploadsEventually` (fair) | 2 files, 2 loops, 2 batches, 2 acts, 1 failure; 604,355 states | holds |
| `downloads` | `Reachable`, `PromisedFits`, `RoomIsUsed`, `UserFirst` | 2 files and a share link, 3 runs, space for 3 units, 1 or 2 slots, queue depth 1, 1 act; 1.5 million states | holds |
| `feed` | `LibraryAgrees`, `CaughtUp` | 3 rows (one in the trash whose name another took), folders 1, 1/2, 2, 2/2; the working set, the top or folder 1 as scope; pages of 2, 2 writes; 532,437 states | holds |
| `links` | `Agrees`, `StaysOff`, `NoGap`, `NeverBack` | 2 rows, 2 names, either mode; two devices with 2 edits, 1 edit and 1 change, 1 edit and 1 failure, or 2 changes and 1 failure; one device with 2 edits, 1 change and 1 failure; 989,296 states | holds |

Why the bounds are enough to meet the cases. *Sync*: two edits suffice for one
edit to overtake another, on one device or on two; with one millisecond of skew
and one of time, stamps of two devices are below, equal to and above each other;
four positions hold an upload, two pushes and a delete. *Suspension*: two reads on
one reader make one wait; two statements make a transaction that can be cut in the
middle; three events are a suspend, a resume and a suspend again, and with a fourth
a service stop falls into a drain with a task registered. *Gate*: a statement that
wakes between two transactions needs two transactions, and a half-written one two
statements. *Service*: the third start meets timers of the first with its token,
and two triggers in one pause make the second chain, a third one follows it.
*Imports*: two claims let a late job cross the row's next owner; three acts are a
kill, a retry and a scan; two attempts stand for the code's eight, since only "some
left" and "none left" differ; a file already here starts with one act spent.
*Uploader*: two loops are a restart; a third batch cannot exist, since a flush
waits for the one before. *Downloads*: three runs are a cancelled one, its
successor and one that competes with them; the space holds two of three. *Feed*:
a page of two cuts the entries of one rename, and two writes can fall before,
between and after the reads of a call. *Links*: a save and an upload replace the
version the link shows, a rename makes its metadata old, a rename of one of two files
merges their stacks, each under the other device's passes; one failure leaves an
attach unrecorded.

Larger instances of the last two, too long to run each time, were run once. *Links*:
two devices with 3 edits, or 2 edits and a change (27 million states), or 2 edits and a
failure; three devices, one of which only edits and syncs, with nothing trashed. They
led to the races `behind`, `unread` and `unmarked`, beside which the four properties hold
there; the first needs three edits, the second a third device. *Feed*: random behaviours
with up to five writes, 16 million states, without a violation.

Bounds on ids that keep an operation inside
the model (`Room`, `Fits`, `Spare`) are guards of the model, not of the code.

The state constraint `NoRace` of some runs only prunes: the properties themselves
say `hazard = {} => ...`. Deadlock is not checked because the system may rest:
nothing left to sync, every call ended, every act spent.

### Fairness

- `packages/core`'s service intervals run both sync ticks for ever
  (`apps/cli/src/daemon/scheduler.ts` :20-110 and `lib/serviceInterval.ts`), and
  every await inside a tick ends, so each device's steps are weakly fair; edits,
  crashes, faults and the clock are not.
- `Suspension`: promises, the drain's deadline and native statements end; platform
  events, new calls, the 30 s give-up and the drain's early return are not assumed.
  `CallsEnd` asks only of calls for which the gate is open again and again.
- `TransactionGate`: a woken statement, a transaction's own steps, `retire()` and
  the close are weakly fair; calls and the shutdown are not. A body awaits
  statements and native work, which end.
- `ServiceInterval`: timers fire and workers end; nothing else.
- `Uploader`: the loop's and the batch's awaits come back (weak); the turn of the
  loop that takes the queues, and the poll's query, are strongly fair because the
  sync gate, the account and the connection, which may send the loop to sleep
  instead, are not in its way for ever. `UploadsEventually` asks it only of a file
  that stays live while the uploader stays on.

## Findings

Listed in `PROJECT.json` "findings" with the lines and the words they contradict.
They are the named races above, or were met while translating.

1. An edit between sync-down's reads and its transaction loses its pending push
   (`services/syncDownEvents.ts:587`, race `editDuringApply`).
2. A push built before a newer rename overwrites it, for good
   (`services/syncUpMetadata.ts:230`, race `pushCrossed`).
3. An object adopted for a tombstoned file is never deleted
   (`services/syncDownEvents.ts:574`, `adoptedClean`).
4. Resume during a reset reopens the gate, and the reset closes a reader under the
   read that was retried on it (`apps/mobile/src/db/index.ts:171`, `resumedReset`).
5. A service stop replaces a registered task's pending resume and then skips
   itself, so the task runs against a closed gate (`services/suspension.ts:354`).
6. Two triggers in a pause give a service two chains of ticks
   (`lib/serviceInterval.ts:139`, `twoChains`), and the token starts from 1 again
   after a shutdown (:167).
7. Sync-up begins beside a sync-down, which the mobile manager's comment rules out
   (`apps/mobile/src/managers/syncUpMetadata.ts:31`).
8. A staged import whose bytes moved but were not recorded is settled as
   unavailable (`services/importScanner.ts:323`, `movedUnrecorded`); one that failed
   loses its bytes to the orphan scan before a retry (`db/operations/fs.ts:204`,
   `retried`); a folder delete fails a file added meanwhile
   (`db/operations/imports.ts:937`, `failedAdded`).
9. A superseded version evicted against another indexer can become current again
   (`services/cacheEviction.ts:209`).
10. The uploader: a trashed and restored file is packed twice
    (`app/namespaces/db.ts:606`, `dropped`), a file queued in a shutdown loses its
    entry (`apps/mobile/src/managers/app.ts:167`, `cleared`), a flush starts after
    `suspend()` (`services/uploader.ts:848`, `suspended`), a pin whose answer is lost is
    made again, as are those of a batch one of whose files was removed (:1346,
    `unrecorded`).
11. Downloads: a share link's end clears its successor's entries
    (`app/namespaces/downloads.ts:378`, `crossed`); a space check uses an old reading
    (:113, `staleProbe`).
12. Three folder operations match a subtree ignoring case
    (`db/operations/directories.ts:697`).
13. Share links: a rename in the middle of a pass takes the file's objects off the
    link, and the next listing may drop the file for good
    (`app/namespaces/shareLinks.ts:461`, `renamed`); a trashed file restored before
    a device heard of its attachment goes back on (:281), and so does one first heard
    of in the trash (`app/namespaces/db.ts:522`, `unmarked`); two devices' passes may
    detach the version both show (:509, `crossed`, `behind`), and one may put an old
    name back (:482, `unread`).
14. A folder renamed between a call's two look-ups, its path taken by another, is listed
    as the other one, and the anchor passes what it holds
    (`app/namespaces/provider.ts:1027`, `repathed`).

## Proofs

Each theorem is for every value of the constants that satisfies the module's named
assumptions.

A leaf that names no prover is given to Z3, then to Zenon, then to Z3 for twice as
long (the `USE` at the head of each module); a leaf that only Zenon proves names it.
A leaf takes a small part of the time it has, so that a slow machine does not change
the outcome.

`MetadataSyncProofs`, for any devices, files, objects, owners, skews, page limits and
bounds that satisfy `SetsAssumption` and `NumbersAssumption`:

- `TypeCorrect`: `Spec => []TypeOK`.
- `CursorPassesNothing`: `Spec => []NoSkippedEvent`.
- `TombstonesArePermanent`: `Spec => DeleteWins`.

`NoSkippedEvent` is not inductive: that a saved cursor passes nothing depends on
what the tick holds in memory. `SyncInv` adds to `TypeOK` and `NoSkippedEvent`
that no position lies beyond `head` (`StreamBounded`), so that a new event lands
after every cursor, and `PageCovers`: the page a tick holds has every event up
to its `last` that still stands there, and once applied the history says so.
The order is `Init => SyncInv`, one lemma per group of actions that
`SyncInv /\ [Next]_vars => SyncInv'`, and PTL. `DeleteWins` follows from the same
case split, with type correctness: only `DownApply` writes rows that are not the
edit's own, and `Merged` never clears `deleted`.

And what metadata sync comes to, where it is the finiteness of `Object` that makes a
newest event exist. Each is about behaviours up to the first named
race, as the property itself says:

- `ReadsAreKept`: `Spec => []ReadIsKept`.
- `FlagsGoWhenPushed`: `Spec => []CleanMeansPushed`.
- `DeletesAreFinished`: `Spec => []StaysDeleted`.
- `DevicesAgree`: `Spec => []Converges`.

None of the four is inductive, and three invariants are stacked to reach them, each
built on the one before, with one lemma per action.
*`SoundInv`* has what the two ticks carry in memory: an event of a page is the object's
last one or lies behind a later one beyond the page (`Paged`); what a sync-up task read
is no newer than what is there now (`Tasked`); what sync-down decided from still holds
where it matters (`Classified`, which the race `editDuringApply` breaks). With that the
outcome is inductive: a device has at least what it read (`Kept`), a delete it read
leaves no clean object behind (`Gone`), and a file none of whose objects is flagged has
a `Witness`, an object whose metadata on the indexer is the row's, or which the device
is still to read at that clock or above (`Pushed`). The witness is why a flag may go: a
push, a skip and a page each leave one.
*`DeleteInv`* adds `Graves`: for a deleted file some device, not always the one asked
about, has every object the indexer still has either flagged, or unknown and its event
unread, and no task of it can clear a flag, since what the task read is older than the
tombstone. At rest nothing is flagged or unread, so nothing is left.
*`AgreeInv`* adds `Topped`, for files with several objects. Two objects may carry one
clock and different metadata, so agreeing on the clock is not agreeing on the row. Of
the objects that tie with a device's row among those it is past, the one latest in the
stream has the row's metadata, or will be read again. At rest every device is past
everything, the latest is the same object for all, and so is the row. The transaction
of a page is the hard step: it takes the newest clock and among equals the later event,
and an event it passes over cannot be later than the one it takes (`Ordered`).

`TransactionGateProofs`, for any outer calls, transactions and number of statements
that satisfy `CallAssumption` and `SizeAssumption`:

- `GateTypeCorrect`: `Spec => []TypeOK`.
- `TransactionsExclude`: `Spec => []Exclusive`.
- `Implements`: `Spec => StoreSpec`, the refinement of `AtomicStore`.

`Exclusive` is not inductive alone. `Inv` adds `Locked` (once retired, the mutex is
at `Retire`, so no transaction begins after the close), `Answered` (a call has an
answer exactly when it is done, so a step that answers is `AtomicStore`'s first and
only one for it), and `Written` (SQLite's transaction holds exactly the statements
its body has run, so that a COMMIT keeps all of the call's writes and no other's).
The proof has one lemma per group of actions; `Implements` maps each action to
`Store!Commit`, `Store!Refuse` or a stutter under `Inv`.

`SuspensionProofs`, for any calls, readers, statements per transaction, tasks and
number of platform events that satisfy the assumptions of `MobileDb` and `Suspension`:

- `SuspensionTypeCorrect`: `Spec => []TypeOK`.
- `OneWriter`: `Spec => []WriterIsExclusive`.
- `CleanDrainIsQuiet`: `Spec => []FrozenIsQuiet`.
- `QueueRestsRight`: `Ios => (Spec => []RestsRight)`. Android's event for a background
  means a file picker too and is not acted on, so a device may stay active in it: what
  the property says of where the manager rests is a claim about iOS.
- `ImplementsStore`: `Spec /\ [](hazard = {}) => StoreSpec`. The hypothesis is the one
  the run's `StoreSpec` has in its constraint: with a stray transaction, calls parked
  until resume do run inside it, so the refinement is false there.

`Inv` ties three things together. `LockOrder` says that the lock's queue has each claim
once, of exactly the calls and the reset that took one, and that whoever is past the
wait is at its head; exclusion of writers is then an order of one queue. `Work` says
that what is open on the connection is what its owner's count of statements says, and,
with the gate open, that its owner will end it; a commit keeps a call's writes whole
because of it. `Gates`, `Drained` and `Replaced` keep what a drain, or a replacement,
has seen settle: it stays settled behind the closed gate, so a drain that ended clean
left a quiet connection. `Rests` says that the queue remembers, whenever the manager is
not where the app's state wants it, an operation that will take it there.

`ServiceIntervalProofs`, for any number of starts, pauses and triggers:

- `SchedulerTypeCorrect`: `Spec => []TypeOK`.
- `ServiceHasOneChain`: `Spec => []OneChain`.

`OneChain` counts a chain without saying what it is made of. `Calm` says that without a
race no timer outlives the entry that set it and every worker is of the latest `init`,
`Deferring` that ticks are put off only in a pause, `Awaiting` that the reset under way
waits for every worker there is, and `Told` that a pause or a stop has told them all.

`UploaderProofs`, for any files, bounds on loops, batches, acts and failures that satisfy
`UploaderAssumption` (which makes `File` finite, for the poll queues a set in some order):

- `UploaderTypeCorrect`: `Spec => []TypeOK`.
- `FilesHeldOnce`: `Spec => []HeldOnce`.
- `FilesPinnedOnce`: `Spec => []PinnedOnce`, in runs without the races above other than
  `suspended`: a pin whose answer is lost, say, is made again.
- `FilesPinnedAsThemselves`: `Spec => []PinnedAsItself`.

`IInv` has three parts, each proved over all actions from the ones before it. `Sound` is
about who may touch what and has no files in it: `Handles` (the batches that exist are
the open one and the one under `flush()`, never both), `Flags` (what an uploader that is
not active still has, and that it uploads only for a shutdown that waits), `LoopSound`
(the indices of a drain, whose window of adds may be cut off by a flush or a restart at
every await) and `Drains` (the one loop that is not stale owns the drain and the open
batch; a stale one wakes up to a world in which nothing of it is left). `Batches` says
where a batch's files and its objects match: an add in flight has its file at the end of
`batch.files`, so the removal of a failed one removes that file, and at `flush()` the
two lists are equal, which is `PinnedAsItself`. `Held` is `HeldOnce` with what makes it
inductive: everything in a place is active, so what the poll or an enqueue adds is in no
place yet, and no file of the batch under `flush()` is still in the drain, so the failure
of that batch unmarks nothing that waits. `Pinned` says that nothing that waits has an
object and that a pinned file has one, has lost its row, or is about to be recorded (`Recorded`,
`Won`). It needs `Held`: a file
about to be pinned was in a place, so not among the pinned ones. It also needs that a poll
under way found no file with an object, which lasts because nothing uploads beside it.

`ImportsProofs` and `ImportsBytesProofs`, for any files, imports, types, contents, indexers, claims, attempts and
bounds that satisfy `CopiesAssumption` and `ImportsAssumption`:

- `ImportsTypeCorrect`: `Spec => []TypeOK`.
- `ImportsAddedMeansFile`: `Spec => []AddedMeansFile`.
- `LastCopyIsKept`: `Spec => []LastCopyKept`.
- `WholeFilesAreSent`: `Spec => []SentIsWhole`.
- `FsRowsHaveBytes`: `Spec => []OnDeviceHasBytes`.
- `StagedBytesAreKept`: `Spec => []StagedKept`.
- `EvictionIsBackedUp`: `Spec => EvictsOnlyBackedUp`.

A model of 49 actions on 22 variables is proved about in two stages. `Steps` shows that
each action does what its `...Does` says, field by field of the records it touches, and
keeps the types; the invariants then reason about `Effect`, the disjunction of these.
`Invariants` is the conjunction of seventeen parts, in four layers. `Unmade`, `Locks`,
`Backed`, `Moves` say what a download, an eviction and the moves owed to a type change may
be in the middle of: the lock is held by whoever is between its two steps, and what is
evicted is on some indexer. `Claims`, `Rows`, `Dropped` say who owns an import row: a
claimed row has one job, the file of a claim is not there yet, and a job nobody waits for
is a copy that goes on by itself. `Hashed`, `Hashes`, `InPlace` follow a job's bytes: what
was hashed under the claim is what sits where the job has put it, until `Finalize` makes
that the file's slot. On these rest what the bytes of a file are: `Sound` (its own, or
part of them, and only whole under an `fs` row), `Last` (an only copy sits in one slot,
and a scanner that lists another place for it knows the file's type), `Quiet` (without a
race, everything under way names the file's slot) and `Staged` (a staged source that is
gone has its bytes recorded, or in the hands of the one job that can still copy them).
Each part holds up to the races that break it, which are fewer than those the property
excuses: that is checked for every part, and it is where the model was wrong. Two
behaviours beyond the bounds of the run, which the attempt to prove `SentIsWhole` and
`LastCopyKept` led to, are now in the model under the races they belong to: a part file
that a type change brings under an `fs` row (`partRecorded`), and a type that changes
while the orphan scanner has the file on its list (`judgedEarly`).

`DownloadsProofs`, for any ids, sizes, slots, runs and acts that satisfy
`DownloadsAssumption`:

- `DownloadsAreReachable`: `Spec => []Reachable`.
- `PromisesAreKept`: `Spec => []PromisedFits`.
- `RoomIsAlwaysUsed`: `Spec => []RoomIsUsed`.
- `UserComesFirst`: `Spec => []UserFirst`.

A new run takes the entries of its id only when none is in flight, so it takes them from
no live run; a run that ends clears them only if they are its own, or the race `crossed`
is named. The induction needs besides that runs are numbered as they start (`Numbered`),
which makes the number of a new run new.

`PromisedFits` rests on it. Its invariant, `Promises`, adds that a live run has its size
counted from before it asks for space until it ends: an id's size is taken back by the run
its entries lead to, or by a cancel that aborts that run, and by another only in the race
`crossed`. So the check of a new run counts all that passed before. The sums are folds
over sets of ids. That a set has its sum whatever the order, and that sums add and grow,
is induction over data, and is shown here without an induction theorem: the sets of which
it fails have a least one (`Least`, from the library's well-foundedness of the subset
order), and its smaller subsets say it does not fail.

`RoomIsUsed` and `UserFirst` share an invariant, `Rests`, in two layers:

- Of the pool alone (`Good`): no waiter fits beside what is held back for the first
  (`Settled`), a run waits once (`Once`), and who waits holds no slot (`Apart`). Each
  operation of `SlotPool` keeps it and takes away only whom it means to (`Spares`).
  `Settled` is `RoomIsUsed` read waiter by waiter (`DrainRests`). A drain whose grants are finished has no waiter
  that fits, because grants only lessen the room and what is held back is the first
  survivor's weight throughout (`Served`). An eviction by depth is not followed by a
  drain in the code, and need not be: the first waiter is the newest of its priority,
  never beyond a depth of one or more, and only it holds anything back (`EvictDoes`).
- Of the runs beside it: a file's entries lead to its live run and to no other (`Led`),
  what the user asked for has the user's priority when its run calls for a slot
  (`Ranked`), a waiter in the background is a file's that the user did not ask for
  (`Queued`), who holds has been let in (`Held`), and who was asked for and waits is in the
  pool (`Awaited`). `UserFirst` says nothing of a run before it reaches the pool;
  `Led` and `Ranked` carry what the user asked for through the awaits before it.

Serving and filtering are folds over sequences (`serve`, `stay`), so that a function with
the fold's values exists (`FoldExists`) and is compared with the queue position by
position (`Upward`, the same least-set argument as for the sums).

Each of these inductive invariants was also checked by TLC as an invariant of the runs'
instances; the parts with infinite sets in them (sequences over entries, say) with the
sets bounded.

Only model-checked: everything temporal, since liveness under fairness is out of the
prover's reach (`Settles`, `ForegroundResumes`, `CallsEnd`, `KeepsTicking`,
`UploadsEventually`); of `ProviderFeed`, `LibraryAgrees` and `CaughtUp` (folds
over sets of rows); of `ShareLinks`, `Agrees`, `StaysOff`, `NoGap` and `NeverBack`
(selections from the list of metadata rows).

## Not modelled

- Platform shells, user interfaces, the SDK bindings, file types and formatting,
  logs, and the test infrastructure: glue, tables or wording. They are most of the
  lines of the repository.
- Thumbnails, the application service and its stores: one pass at a time over rows,
  caches over the operations modelled here.
- The weighted pool, the coalescer, singleflight, retry and timeout of `lib/`.
- The daemon's lock file and IPC server.
- Queries, sorting, counts and search of the library.
- Crashes of the operating system under `synchronous=NORMAL`, after which committed
  rows may be gone while the cursor kept outside the database is not, and the cursor
  that `resetData` clears only after the database is gone
  (`app/namespaces/settings.ts:58`): the model's crash keeps both.
