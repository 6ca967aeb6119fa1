# Local Cloud: verification project

Local Cloud lets paired devices on one network share a catalog of files.  Every
device keeps a whole catalog, holds the bytes of some items, and copies move only
when a person moves them.  This directory holds TLA+ modules that model the
engine, TLC configurations that check them on small instances, and proofs checked
by TLAPS.

Source paths are relative to the repository; `db.rs` and its neighbours are in
`engine/src/`.

## Inventory

### Parts, their state and their operations

| part | code | state | operations |
|---|---|---|---|
| Catalog | `db.rs` | SQLite tables `files`, `file_holders`, `delete_requests`, `tombstones`, `blocks`, `file_blocks`, `paired_devices`, behind one mutex per device | the `Database` methods |
| Indexer | `watcher.rs` | none of its own | `index`, `delete_local_copy`, `purge`, `sweep_trash`, `apply_tombstone`, `apply_pending_delete_requests`, `forget`, `scan` |
| Folder watcher | `watcher.rs`, `ignore.rs` | debounce map, ignore set | `handle_fs_event` |
| Catalog sync | `discovery.rs`, `lib.rs` | one task per device | `spawn_catalog_sync`, `sync_with_peer` |
| Peer server | `server.rs` | none; handlers run concurrently | `get_catalog`, `get_block`, `push_metadata`, `push_block`, `finalize_file`, `request_delete`, `pair_request`, `pair_confirm` |
| Transfers | `discovery.rs`, `lib.rs` | blocks in flight | `share_to`, `pull_copy`, `transfer_all` |
| Block store | `storage.rs` | block files | `chunk_and_store_file`, `write_block`, `remove_block`, `assemble_file_from_blocks` |
| Names | `db.rs`, `collision.rs`, `watcher.rs` | live paths, collision queue (in memory) | `merge_catalog_file`, `free_path`, `resolve_collision`, `restore_file` |
| Pairing, trust | `pairing.rs`, `tls.rs`, `server.rs` | code, attempts, offers; pinned certificates | `start_pairing`, `confirm_pairing`, `verify`, `unpair`, `reload` |
| Engine | `lib.rs` | handles to its tasks, nudge channel, known peers | `start`, `stop`, `spawn_catalog_sync`, `start_discovery` |
| Events | `lib.rs` | channel, backlog, listener | `spawn_event_dispatch`, `set_event_listener` |
| Web front end | `web/src` | the engine in use, settings, broadcast channel, pages | `choose`, `switch`, `App::open`, `broadcast_changes`, `stream` |
| Other front ends | `cli/`, `android/`, `macos/` | views of the engine | calls into the engine |

### How they interact

Inside a device everything meets at the database mutex.  The sync task, the
request handlers, the watcher and the engine's own calls each take it for one
section of code, let it go, and often take it again later with something they read
before.  Nothing larger than a section is atomic, and few sections are SQL
transactions.  Block files and the sync folder are written with and without it.

Between devices there are three kinds of exchange.  A device reads a peer's whole
catalog and merges it; catalogs carry items, holder rows, delete requests and
tombstones, and nothing orders two of them.  `share_to` pushes a description, then
the blocks asked for, then `finalize_file`.  `delete_copy` calls `request_delete`,
once.  Every call may be lost.

### What is hard, and what makes each part correct

- **Mesh** (catalog, sync, deletes): stale catalogs merged after newer facts;
  deletes that race each other; calls lost and repeated; a task interrupted between
  two sections.  Right when rows describe real copies, destroyed items stay
  destroyed, nothing is deleted that nobody asked for, and everybody learns of
  what happened.
- **Store** (blocks): the same block under several items, three records of one
  block written at different times, removal racing transfer, the process ending
  between file and row.  Right when no item loses a block to another's removal, and
  a transfer that is carried through delivers.
- **Names**: a name looked up in one section and taken in another; each device
  settling a clash alone; the folder following the catalog.  Right when devices
  agree, no file is lost, and a row is not taken away for its name.
- **Pairing**: half a pairing when a reply is lost; codes, offers and attempts that
  end by three clocks; pinning as a file, a row and a reload that overlap with another's.
  Right when trust rests on a typed code, codes are guessed at a bounded number of
  times, and only a fault leaves two devices in disagreement.
- **Engine**: `start` failing half-way and called again; channels of earlier starts
  that are still in somebody's hands; connections and tasks that outlive a stop.  Right
  when one task syncs, a stop reaches whatever has a handle, and paired devices come in
  step.
- **Events**: a listener set late, replaced or never; a bounded backlog.  Right when a
  listener hears what happened in order, once, and is told of what it missed.
- **Folder**: two writers told apart by time alone; debounce; scans and stops in
  between.  Right when what a person does is catalogued and what the engine does is not
  taken for it.
- **Web**: one engine replaced by another while requests use it, by requests that may be
  abandoned half-way; pages that hear only of differences.  Right when one engine runs
  over the folder that has the files, and a page comes to show what is.

`PROJECT.json` lists each hazard at its line with the properties that answer it.

## Modules

### `Mesh`: who holds what

One variable per table, as a function over devices; one action per section under the
mutex.  The locals a task carries from one section to the next are state: `sync[d]` is
`sync_with_peer`'s catalog and place in it, `work[d][w]` a run of
`apply_pending_delete_requests` (in the sync task or in one of the `request_delete`
handlers, constant `Handler`, which all run at the same time), `purging[d]` the items a
sweep or `delete_permanently` has looked up.  `pushes` and `rpcs` are calls under way:
any order, delivered or not.

| code | actions |
|---|---|
| the last section of `index`, of a new item | `Import` |
| `share_to`, `push_metadata`, `finalize_file` | `Share`, `PushMetadata`, `FinalizeFile` |
| `delete_local_copy`, `forget` | `DeleteLocal` |
| `delete_copy`, `request_delete` | `DeleteCopy`, `RequestDelete` |
| `apply_pending_delete_requests` | `BeginRequests` (a handler), `StartPending` (the sync task), `CheckRequest`, `ApplyRequest`, `ClearRequest` |
| `restore_file` | `Restore` |
| `sweep_trash`, `delete_permanently`, `purge` | `SweepTrash`, `DeletePermanently`, `Purge` |
| `sync_with_peer` | `FetchCatalog`, `CheckTombstone`, `PurgeTombstoned`, `InsertTombstone`, `MergeCatalog`, `PruneRequests` |
| the process ends and starts | `Restart` |

`everHeld`, `asked` and `spent` are history: nothing reads them but properties and
the guard that an id is created once.  Items here never share a name and never
share a block.  Of `index` only the section that lists the new item with its holder is
an action, since what comes before is in no other device's sight: `Store`, `Names` and
`Folder` have its other sections.

### `Store`: the blocks of one device

`flag` is table `blocks`, `manifest` is `file_blocks`, `disk` the block files;
`lock` says which section of several steps has the mutex, so that steps without it
(`PutBytes`, `Assemble`) fall between its own.  `idx`, `rem` and `xfer` are the
locals of an indexing, a removal and each transfer.

| code | actions |
|---|---|
| `index` | `StartIndex`, `LookAgain`, `Insert`, `Chunk`, `ChunkFails`, `Sweep`, `EndChunking`, `ClaimIndexed` |
| `delete_local_copy`, `purge`, `purge_exclusive_blocks` | `StartRemoval`, `RemoveBytes`, `Unflag`, `EndRemoval` |
| a catalog merge | `Learn` |
| `push_metadata`, `push_block`, `finalize_file` | `Announce`, `PutBytes`, `FlagBytes`, `Finalize` |
| `pull_copy` | `StartPull`, `PutBytes`, `FlagBytes`, `Assemble`, `ClaimPulled` |
| the other side goes away; the process ends | `Abandon`, `Crash` |

Contents are a set of blocks: order and repeats within a file change nothing that
is stated here.  One indexing and one removal run at a time, with any number of
transfers.  `Sweep` takes `forget_block_if_unreferenced` and `remove_block` of one
block together.  Trashing a last copy touches no block and is no action.  An item
that is being created is nobody else's to push, pull or delete (`BeingCreated`):
its id has not left the device.  `LookAgain` is the second lookup, which may find what
came after the first, or miss what went.

### `Names`: one name, one live item

`state`, `name` and `order` are table `files`, `order` because catalogs list items
by rowid and `INSERT OR REPLACE` moves an item to the end.  A name is the sequence
of numbers put behind what a person chose.  A merge goes item by item
(`MergeNext`) with the mutex held; `Lookup`, `PickFreePath`, `KeepBoth`,
`InsertIndexed` and `ClaimIndexed` are the sections of `index`; `folder[d]` is the
sync folder, which `Drop`, `KeepBoth`, `MergeNext`, `FinalizeFile`,
`DeleteLocalCopy` and `Override` change.  `InsertFile` and `CanInsert` give
`INSERT OR REPLACE` its effect: the unique index on live paths makes it take away
another item of that name, and the foreign key of `file_blocks` makes that fail
when the other has blocks.  A document that cannot be cut into blocks (`Fail`) leaves its
item without any; `finalize_file` finds every block of such an item and writes an empty
file.  Whether a deleted copy was the last is left open.  The
renaming that follows an override is taken with it.

### `Copies`: what `Mesh` promises

An abstract specification of who has a copy of what, without catalogs, tasks or
calls: copies are made by importing or by receiving what was offered, and go by hand,
on request or because the item was destroyed; what is destroyed was condemned, and a
device that destroyed it never has it again.  `Mesh!Promise` maps it onto tables and
calls: a device's own holder rows are its copies, the calls of a share under way are
offers, `purging` is what is condemned, an item listed nowhere behind its tombstone is
gone.  `Mesh!CopiesAreKept` is that `Mesh` implements it.

### `Pairing`: how devices come to trust each other

`outgoing` and `offers` are `PairingState` on the two sides; `certs`, `rows` and
`trust` are the certificate files, `paired_devices` and the set the TLS server has in
memory, written in separate steps.  A `task` is one call from a person or a peer:
asking, pinning on the initiator, answering, pinning in return, or unpairing.

| code | actions |
|---|---|
| `start_pairing`, `begin`, `cancel_pairing` | `StartPairing`, `CancelPairing` |
| `pair_request`, `record_offer` | `PairRequest` |
| `confirm_pairing` | `ConfirmPairing`, `ReplyArrives`, `AfterPinning` |
| `pair_confirm`, `verify` | `PairConfirm` |
| `pin_paired_device`, `reload` | `SaveCert`, `SaveRow`, `ReadCerts`, `ReplaceTrusted` |
| `unpair` | `Unpair`, `RemoveCert` and the reload |
| calls lost, late; a step failing; the process ends; time | `CallLost`, `GiveUp`, `StepFails`, `Restart`, `Tick` |

A device has one certificate for good, so the device stands for it; a proof stands
for the code and the two devices it binds, which is all `verify` tells apart.
`confirm_pairing` refuses when the initiator is not in `known_peers`; the model does not
look, and has more behaviours for it.

### `Engine`: starting, stopping and syncing

`call` is the next step of the `start` or `stop` in progress, `handle` what the
engine keeps of each part, and `servers`, `threads`, `syncs`, `sweeps` what really
runs, by number of the start it is of; the two differ after a start that failed and
was not stopped.  `channel[r]` is the nudge channel of start `r`.

What a stop tells to end is not what is left afterwards.  `start_server` hands every
connection it accepts to a task nobody has a handle to (`conns`), and aborting the
server ends the accepting only.  An aborted task runs to its next await: an accept in
progress (`late`) or a section of a sync (`due` of a start not in `syncs`).  A new sync
task runs before the one it replaces is aborted (`Sync`, then `Replace`).

| code | actions |
|---|---|
| `start` | `Serve`, `Discover`, `Sync`, `Replace`, `Watch`, `Sweep`, `StartFails` |
| `stop` | `Unwatch`, `Undiscover`, `Unserve`, `Unsweep`, `Unsync`, `Unnudge` |
| `start_server`: a connection accepted, over; the loop ending | `Connect`, `Disconnect`, `ServerFails` |
| aborted tasks, the mDNS thread | `LateServerEnds`, `LateSync`, `LateSyncEnds`, `ThreadEnds` |
| `start_discovery`, `pair_confirm`, `confirm_pairing` | `Resolve`, `Paired` |
| `spawn_catalog_sync` | `TakeNudge`, `Interval`, `SyncWith` |
| peers | `PeerMoves`, `PeerChanges` |

### `Events` and `EventFeed`

`Events` is the dispatch thread of `spawn_event_dispatch`, step by step: it takes from
the channel (`Receive`), waits (`Timeout`, `Disconnected`), looks for a listener
(`Look`), reports what it threw away (`ReportDropped`) and hands over (`Deliver`).
`EventFeed` is the promise: in order, once, nothing discarded under a listener, no
loss unreported.  `Events!Feed` maps the promise's one queue to backlog and channel.

### `Folder`: one path and its two writers

`disk` is the file, `row` the catalog's view of the path, `ignored` and `timers` the
ignore set, `since` the debounce map, `jobs` the runs of `index` (the watcher's, and a
scan's or import's), `own` a write of the engine's.  Time moves in ticks no longer than
`Wait`.  A person's act may be reported at any later time.  The engine's own are
reported within `Late` (below the grace time; `age` counts it): without that no grace
time could be long enough, and `ignore.rs` rests on it.  Every index but one that
sleeps is through before time passes.

Each section of `index` may fail: the file has gone or cannot be looked at, moved
aside, read or recorded.  It then gives up where it is, with what it has written, and
`import_file` takes its file away again (`Undo`).  A file that goes is reported as
removed or, when it was moved out of the folder, as renamed: `handle_fs_event` gets
`Modify(Name)` for that on Linux and macOS and skips it as no file.  `Learn`, a merge,
comes between any two sections.  The lookups of `index` are taken not to fail by
themselves (an error there is read as "no such row"), and a file of the same content
that another device lists between the two lookups is not distinguished from a new one.

| code | actions |
|---|---|
| a person | `Save`, `Delete` |
| `handle_fs_event` | `HearWrite`, `HearRemove` |
| `index` | `IndexLook`, `IndexLookAgain`, `MakeWay`, `IndexRead`, `IndexClaim` |
| `index` giving up, `import_file` after that | `IndexLookFails`, `MakeWayFails`, `IndexReadFails`, `IndexClaimFails`, `Undo` |
| a merge lists another device's item | `Learn` |
| `pull_copy`, `finalize_file`, `import_file` | `OwnBegin`, `OwnGrow`, `OwnEnd`, `OwnClaim`, `OwnFail` |
| `delete_local_copy` with `remove_from_disk` | `OwnRemove` |
| `schedule_unmark_ignored` | `Unmark` |
| `scan`, `start_watcher`, `stop`, the process | `Scan`, `Start`, `Stop`, `Crash` |

### `Web`: one engine behind an API

`folder` and `up` are the engine in use and those that run, `saved` is settings.json,
`calls` are imports that cloned the engine before a change of folder, `switches` the
requests for one, `turn` the mutex `switching`, `loop` the broadcasting task and `tabs`
the pages with their part of the broadcast channel.

| code | actions |
|---|---|
| `import` (and any request that clones the engine) | `ImportBegin`, `ImportEnd` |
| `choose`, its caller going away | `Choose`, `Hangup` |
| `switch`, `move_contents`, `App::open` | `BeginSwitch`, `MoveOne`, `MoveDone`, `MoveFails`, `OpenNew`, `Publish`, `Reopen`, `Republish`, `ScanNew`, `Save` |
| `main` | `Relaunch` |
| `broadcast_changes`, `on_event` | `LoopRead`, `LoopSend`, `LoopEnds`, `SendNotice` |
| `stream` | `Subscribe`, `ReadOpening`, `OpenPage`, `Receive` |

`App::open` starts an engine and then makes it the current one, with an instant between
(`OpenNew`, `Publish`); going back to the old folder does the same.  The broadcasting
task ends for good when its read panics (`LoopEnds`).

### `MC*` modules and proofs

The `MC*` modules add symmetry where it is sound: liveness and refinements are checked
without it.  Each component has its theorems in a module of its own, `MeshProofs` to
`WebProofs`; that `Mesh` implements `Copies` is in `MeshProofs`, that `Events`
implements `EventFeed` in `EventsProofs`.

## Runs

| run | question | bounds |
|---|---|---|
| `live` | Do rows keep to items and to real copies, are deletes asked for, do destroyed items stay away, does `Mesh` implement `Copies`?  And do destructions, deletes and holder rows reach everybody? | 2 devices, 1 item, 1 request handler, 3 user acts, both syncing at once, fair |
| `lastcopy` | Can deleting copies lose an item?  Yes. | the same, 2 handlers, 4 user acts |
| `all` | Does an item that is here whole keep its blocks? | 2 items, 2 blocks, 2 transfers, 4 acts of every kind |
| `push` | Is a push that is carried through delivered? | the same, pushes only, fair |
| `names` | Are the names merges settle on free, do items with blocks stay listed? | 2 devices, 2 documents, 2 ids, 3 acts of every kind, 1 document that cannot be cut |
| `converge` | Do two devices settle on names? | the same, adding and editing only, fair |
| `lost` | Can a file in the folder be lost to a rename?  Yes. | 3 documents, 3 acts |
| `pairing` | Is trust proven, are guesses bounded, do offers outlive codes, do file, row and memory agree, and two devices with each other? | 3 devices, 2 codes, 2 calls at a time, 3 acts, 1 fault, one wrong proof ends a code |
| `engine` | One sync task, does a stop reach everything, are nudges heard, peers synced? | 1 peer, 2 starts, 3 changes, fair |
| `folder` | Do folder and catalog agree, and does the engine not hear itself? | 1 path, times 1, 2 and 3 ticks, 1 tick of delay, 3 acts, 2 of the engine's, fair |
| `events` | Does the thread implement `EventFeed`, and is everything heard? | 2 listeners, backlog 2, 5 events, fair |
| `web` | One engine, files and catalog together, an engine in the end, pages true? | 1 file, 2 folders, 2 requests, 1 page, channel of 1, 3 acts, 1 notice, fair |

Two devices are enough for every exchange between a reader and an author of a
catalog; a third matters where rows are relayed, which the theorems cover for any
number and `RowsSettle` does not (below).  One item is enough in `Mesh` because no
handler there looks at two; `Store` needs two items to share a block and two blocks
to share in part.  Four acts allow create, share, delete and destroy with one act of
the other device between; loss, delay, reordering and every step of a task cost no
act.  In `push` and `converge` the acts are those whose outcome is promised.
`CHECK_DEADLOCK FALSE` stands where a system at rest, its acts spent, is no error.

`names` explores no more than two ids and `JustTwo` says so in `NamesConverge`: with
three items of one name it fails, see below.

In `pairing` two calls at a time give every overlap of two, and three devices a
bystander that a code was not shown for; with one wrong proof allowed the limit is met
within the acts there are, and `GuessesAreBounded` is proved for any.  `live` has one
request handler besides the sync task; the theorems hold for any number.  In `engine` a
second start covers what the first leaves behind.  In `events` five events overfill a
backlog of two and leave one for each side of a replaced listener.  `folder` keeps the
order of the real times (200 ms, 500 ms and 3 s); an event of the engine's own may be
one tick late, which puts it after the debounce of another.  Three acts and two of the
engine are a file written, written over and moved or scanned, with a transfer and a
merge or removal in between.  In `web` a channel of one message is lagged by two, and a
notice is enough to push a snapshot out.

### Fairness

Only steps the program takes by itself are fair.  In `Mesh` and `Names`, a task
that has begun goes on (weak), because each of its steps is a bounded computation
and no handler waits for another; and a device fetches each peer's catalog again
and again (strong, since it is not always idle), because every round of
`spawn_catalog_sync` visits every visible peer.  `live` and `converge` therefore
speak of devices that stay in reach of each other.  No call is fair: `DeletesArrive`
holds though `request_delete` may never arrive.  In `Store`, begun jobs go on, and
a sender that has not gone away (`Abandon`) sends.  People, clocks and crashes are
never fair.

In `Engine`, calls of `start` and `stop` return and calls to peers are answered or
fail, so the steps of a task are fair; nothing has to be started, and mDNS may stay
silent.  In `Events` the thread runs and listeners return from their calls.  In `Folder`
events reach their handlers, begun indexing and writing end, timers fire and time
passes.  In `Web` blocking calls return, the broadcasting task's sleep is a runtime
timer, and an open page takes what it is sent.  `Pairing` states no liveness: every
step of it waits for a person or a network.

## What the violations show

- `lastcopy`: `delete_local_copy` frees a copy because a row says there is another.
  Two holders that do so before they sync leave an item without bytes.
- `lost`: the free name of a merge is free in the catalog only, and `fs::rename`
  replaces.

### Known weaknesses without a run

TLC found these with the same modules while they were written, or a property excuses
them by name; a run for each would repeat the shape of the ones above.

- Of three devices, two go on giving each other a holder row of the third that has
  long been untrue: only the device itself withdraws its row, and only from those who
  sync with it (`discovery.rs` 567 and 581).  `RowsSettle` is about two.
- `push_block` writes bytes and flag apart, without and with the mutex; a removal in
  between leaves the flag alone (`server.rs` 484).
- A carried-out delete request returns in a catalog read before it was cleared, or
  is found by a second worker, and takes a copy received since.  It stays on record
  meanwhile, so `DeletesWereAsked` holds of it.
- `apply_tombstone` looks and inserts in two sections: an item pushed in between
  stays listed behind its own tombstone.
- `sweep_trash` and `delete_permanently` destroy what they looked up as trash, though
  it was restored meanwhile.
- Trash has no order: a catalog read before an item was trashed un-trashes it, and
  two devices can go on swapping.
- A file deleted here and put back is held whole with its blocks flagged missing
  (`INSERT OR IGNORE`), so it cannot be shared.
- An item destroyed between two sections of its own indexing is listed again; one
  destroyed while it is pulled gets a holder row.
- The blocks of a revision that a push replaces are released by nothing.
- With three items of one name, numbers go behind numbers, and two devices that
  always read each other at the same time can swap names for ever.
- An edit that loses its file to a rename under way clears the manifest of a held
  item, and a later `INSERT OR REPLACE` may then take its row.
- A push that takes a name from an item held here renames nothing in the folder, and
  `finalize_file` writes over that item's file.
- `restore_file` writes no file, and an item without blocks can be neither shared nor
  pulled; but it can be finalized, as an empty file, after a push that maps nothing.
- An override trashes the owner of the name even when the item that was to have it has
  been trashed or moved since (`lib.rs` 951).
- Pairing: of two reloads that overlap, the one that read first may write last and
  bring a revoked certificate back (`tls.rs` 31; `torn` in `OneTruthUnlessTorn`).  A lost
  reply leaves one side paired (`troubled` in `MutualUnlessTroubled`).  `clear_offer`
  takes a newer request along (`prompted` in `OffersOutliveCodes`).
- Engine: a start that fails half-way leaves the server and discovery running, and
  `is_running` says so although its comment (`lib.rs` 720) says stopped; a second start
  without a stop leaves the first server and sweep to nobody (`again`).  A failed accept
  ends the server while `is_running` stays true.  Connections accepted before a stop are
  served on after it (`server.rs` 238): their requests push, finalize, delete and pair
  while `is_running` ("currently serving", `lib.rs` 720) says no; only who is unpaired is
  refused, since that is asked for each request.  The sync loop visits one peer after
  the other through a client without a timeout (`discovery.rs` 119), so a peer that
  hangs holds up the others: `PeersAreSynced` assumes calls end.
- Events: a backlog being handed over goes to the listener found first, though another
  has been set meanwhile (`lib.rs` 741); `EventFeed` promises nothing else.
- Folder: a file moved out of the folder is not heard of: `handle_fs_event` skips the
  rename as no file (`watcher.rs` 671), although its comment (731) says that dragging a
  file out deletes this device's copy.  An index that gives up is not tried again until
  the file is touched or scanned (335, 370, 379, 418), and a transfer meanwhile writes
  over the file.  When it gives up on an edit after the first insert, the row has the new
  time and this device holds it, so a scan takes the file for current; when it does on a
  new file, the placeholder row, held by nobody, makes the next save a second item.
- Folder (`missed`, `crossed`, `failed`): the debounce drops the last write of a burst;
  timers of two acts on one path share one entry; `handle_fs_event` asks the ignore set
  before it sleeps; a copy that cannot be assembled is ignored for ever, since
  `pull_copy` and `finalize_file` return before the unmark; a file not yet indexed is
  truncated by `assemble_file_from_blocks`; a scan asks no ignore set and takes the part
  a crash left; the placeholder row of `index` makes `already_current` true after a crash
  in between; two runs of `index` make a second item of one file.
- Web (`left`, `torn`, `stranded`, `doubt`): when the page that asked for another folder
  goes away, `switching` is let go while the change goes on, so two overlap
  (`folders.rs` 148 says one at a time).  A move that fails leaves the engine stopped; an
  engine that does not open is replaced by one over the old folder, whose files have
  moved.  A folder that cannot be remembered is lost at the next start.  A call that
  cloned the engine before writes into the old folder.  A page may stay on an earlier
  state that has come back while it was opening, or was pushed out of its channel.
  `snapshot.rs` 113 reads in several lock sections what its comment wants to agree;
  `Web` reads it at once.

## Proofs

TLAPS checks every theorem for any devices, items, blocks and bounds; the only
assumptions are the modules' own (`BoundsAssumption`, `StoreAssumption` and so on), on
the types and order of bounds and that there is a device.

- `MeshProofs!TypeCorrect`: `TypeOK` is inductive by itself.
- `PhantomFree`: `NoPhantomHolders` speaks of tables and of catalogs under merge at
  once, and so is inductive over `TypeOK`: a merge takes only rows a catalog has,
  and a catalog only rows a table had.
- `RowsHaveItems`: likewise for `NoOrphanRows`; the argument is that a merge adds an
  item before its rows and refuses the rows of destroyed items it refuses.
- `OnlyAskedDeletes`: a delete may also be on its way as a call, so the invariant
  `AskInv` adds `CallsWereAsked`.
- `DestructionIsFinal`: no step un-records a tombstone, and every step that brings an
  item asks for one.  `Import` asks for none: `UnseenInv` says an id nobody ever held
  is in no table, catalog or call, so a new id has no tombstone.
- `MeshKeepsCopies`: `Mesh` implements `Copies`, step by step.  It rests
  on all invariants above and two more: a merge leaves a device's own row alone only
  because the catalog is another's (`PeerIsOther`), and a tombstone under way is some
  device's (`ToldOfDead`).  `KeptClaimed`, `KeptDropped`, `GoneBuried` say what the writes
  of `Mesh` do to the mapped variables; then every action is one of `Copies` or changes
  none of them.
- `StoreProofs!TypeCorrect`, `StoredIsSafe`: `StoreInv` adds to `StoredIsKept` that a
  mutex section is marked as such (`Locked`), that jobs are on items (`Working`), that
  a manifest being filled has its blocks (`Filling`), and that a block about to be
  removed is in no other item's manifest (`Alone`).  `Alone` survives because
  manifests change only under the mutex, which the removal has: that is why the
  property holds although block files are written without it.
- `PairingProofs!NobodyElseIsTrusted`: `TrustInv` follows trust along its way: a pairing
  waits only for devices its code was shown for (`Offering`), a call carries a code that
  was typed, an accepted one is between devices that met, and a reload holds certificates
  of such devices only (`Carrying`).
- `GuessesAreBounded`: while there is a pairing its counter is the number of wrong proofs
  so far and below the limit, so the last one ends it (`Counted`).
- `OneTruth`: on a device that is not torn at most one pinning or unpairing has begun, and
  how far it is says exactly how file, row and memory differ (`Half`, `Sound`); the last
  step makes them agree.
- `OffersLast`: a prompt is no older than the code it is for, and no call under way will
  clear it while the code waits for that device (`Standing`).
- `PinnedBothWays`: `MutualInv` gives, for two devices between which nothing was lost or
  cut short, what each call under way still owes (`Along`): once an answer is accepted
  the one side pins and the other is about to.  So whoever is pinned pins in return, or a
  call is left that will see to it (`Returned`).  Trouble between two is the same seen
  from either side, or a call of one could break what is said of the other.
- `EngineProofs`: the step a start or stop has come to says which handles are of this
  start and which are gone (`Progress`); with no start on top of another the handles
  know every server and sweep there is (`Owned`).  `OneTask`, `StopIsHeard` and
  `NudgesAreHeard` follow.  `StopIsHeard` says what a stop reaches, not that nothing is
  left: of `conns`, `threads` and `late` it says nothing, and the model lets them
  outlast a stop.  `TypeCorrect` adds the types of what they leave out (`Typed`).
- `NamesProofs!UniqueNames`, `MappedStayListed`, `TypeCorrect`: one invariant, `IInv`.
  `NextIsAvailable` is why a free name is found at all: of as many numbered variants as
  names are taken, one is not (the numbers are told apart by their last element, so they
  inject into the others).  `MergeIsUpsert` reduces the three outcomes of
  `merge_catalog_file` to one shape, a row written and at most one moved, each to a name
  no third has.  `InsertIsSafe` says what `REPLACE` takes away: the one live item of that
  name, and `CanInsert` that this one has no blocks.  `Rows` is an invariant of the order
  of rows: none is there twice, so taking one away takes it away.
- `EventsProofs!TypeCorrect`, `EventsImplementFeed`: the events not yet handed over are
  backlog and channel in one sequence; `Waiting` adds that the thread takes the next event
  with a backlog under a listener only when all that happened under that listener is
  still in the channel.  So what the bound throws away is older, and each step of the
  thread is one of `EventFeed` or none.
- `WebProofs!OneEngine`: `OneSwitch` says that as long as no caller went away, whoever is
  in the middle of a change has the mutex `switching`, that no engine runs while files
  move, and that between the start of an engine and its publication it alone runs.
  `FilesFollowTheFolder`: `FilesFollow` adds where the files are at each step of a change.
- `FolderProofs!NoEchoUnlessCrossed`: `Apart` follows an act of the engine from before it
  begins until the watcher has heard of it: all that time the path is ignored, because a
  timer set since (`Grace` above `Late`) has not run out.
  `CatalogFollowsFolder`: `Follows` says that while nothing was missed only one is at work,
  and each step leaves what the next relies on (`Unheard`, `OneIndex`, `OneWrite`,
  `Settled`).  The excuses are part of the invariant: it is proved that no step makes it
  false without setting one of them; a section of `index` that fails sets `missed` exactly
  when it leaves a person's file behind.  `UnreadKept` is an action property.

Every invariant, action property and refinement that a passing run checks is proved.
Only model-checked are the properties under fairness, which TLAPS does not reach:
`TombstonesSpread`, `DeletesArrive`, `RowsSettle`, `PushIsDelivered`, `NamesConverge`,
`PeersAreSynced`, `IgnoringEnds`, `HeardInTheEnd`, `EngineComesBack` and `PageIsTrue`; and
the two violations, which are single behaviours.

What a theorem says it says of the model, for any values of its constants.
`NextAvailable` has no last number, where `next_available_path` gives up at the ten
thousandth; `Folder` has one path, `Store` one indexing and one removal at a time; and
what the properties excuse by name is listed above.

## Not modelled, and why

- mDNS, TLS, key generation and the proof of a code are libraries with no protocol
  state of the engine's; what they promise is assumed where it is used (a thread hears
  what is new, a proof binds a code and two devices).
- The command line, the Android and the macOS application call the engine and show what
  it tells them; `Events` models what they are told, `Web` the front end that keeps
  state of its own.
- Within a pull, `Store` takes blocks from any source in any order, which covers every
  schedule of `transfer_all` but not its bound of blocks in flight; what the sender
  shows of its progress changes nothing.
- Settings are written and read whole.  Schema migrations run once, before anything
  else.

## Left for later

1. **Half-way results**: `NamesConverge` and `PageIsTrue` rest on safety facts of their own
   (an item never leaves a name it was settled on; a page's snapshot is one the loop has
   read) that could be stated and proved apart from the fairness.
2. **Deletes**: a delete request carried out twice takes a copy received since; the
   condition under which it does not is worth a property with that excuse named.
3. **Store**: the section of `index` cut short by a crash leaves part of a manifest;
   what a later run of `index` repairs could be said exactly.
4. **Transfers**: several senders of one item, and the bound of blocks in flight.
