# A verification of cyanfs

cyanfs keeps raw disk images as files on a block device.  All metadata is in
memory; every change appends an entry to a journal on the device; forks share
extents with their parent until they are written.  This directory holds TLA+
models of the parts where an interleaving, a crash or an error could lose data,
the TLC runs that check them on small instances, and TLAPS proofs for the life
cycle of extents, the backend and the registry of the Linux driver, the offline
editor and the UEFI driver.

## The system

| Part | Code | State | Hard behaviours | Module |
|---|---|---|---|---|
| Extent life cycle | `core/readwrite.c`, `core/flusher.c`, `core/super.c` | the extent trees of the super and of each file, `writers[2]`, flusher objects, task queue | write against discard, truncate, delete; overlapping flushers; reclamation after a FLUSH; copy on write; device errors | `CyanfsExtents` |
| Metadata and replay | `core/super.c` | files by id and name, parents, sizes, open counts, extent maps, journal entries | crash anywhere, fork chains of different sizes, copies in progress | `CyanfsSuper` |
| Journal on disk | `core/journal.c`, `core/journal.h` | records in chained extents, two super headers, cursor | power failure with a volatile cache, torn writes, stale records in reused extents | `CyanfsJournal`, `CyanfsDurable` |
| Compaction | `core/compact.c` | second super, loader, writer | runs between flushers of the live super; old chain released; crash between its steps | `CyanfsJournal` (steps), `CyanfsSuper` (entries) |
| Linux backend | `linux/main.c` | work item, sync waiters, delayed flush, reference count | lost wakeups, fsync against flushers of others, last reference dropped anywhere | `CyanfsBackend` |
| ctl device, virtual disks, configfs | `linux/ctl.c`, `linux/vdisk.c`, `linux/configfs.c` | two trees, minor numbers, reference counts, open descriptors and disks | steps outside `cyanfs_ctl_lock` during an ioctl; deferred free; failures half way through a map | `CyanfsRegistry`; as callers of the executor in `CyanfsBackend` |
| Offline editor | `utils/edit.c` | two threads, a condition variable, batches | lost wakeups, a task that points into a stack frame, errors found after the command has returned | `CyanfsEdit` |
| UEFI driver | `uefi/CyanfsDxe` | child disks, what the handle database says of them | every boot service may fail half way; children are written while they are stopped | `CyanfsUefi` |
| mkfs, blkid | `utils/` | none | | `NewDisk`, `SuperParse` of `CyanfsJournal` |
| Demos | `linux/demo`, `uefi/Demo` | none | the listing loop of `linux/demo` goes on while disks come and go | `ListStart`, `DeviceList` of `CyanfsRegistry` |
| Platform layer, list and tree macros | `core/platform`, `core/misc` | | | lock sections are taken as atomic, trees as sets; `NFind` of `CyanfsRegistry` |

How they interact.  Callers change the metadata under `files_lock` and append
entries to `journal_head`.  `cyanfs_super_flusher_start` takes the entries and
the unused extents into a flusher object and queues its tasks; one serial
executor takes tasks from the queue, does their I/O and calls their `done`
functions, which queue more tasks at the head or the tail.  The platform
supplies the executor: a work item in the Linux driver, a thread in the editor,
and the caller itself in UEFI, where tasks are run as they are made.

What has to be right, by part:

* extents: each is in exactly one tree; none is reused under a running write,
  nor before the record that unbinds it is durable; a copy is durable before it
  is bound; every extent given up is reclaimed;
* metadata: replay rebuilds what the operations left; compaction rebuilds what
  replay would; a parent never changes under its forks;
* journal: a mount succeeds and gives a state no older than the last flush;
* backend: a flush that returns success made everything before it durable; the
  super is quiet when it is closed; every call returns;
* registry: one super per device; what somebody holds stays alive, unless a
  reference is put through freed memory; a device that nobody holds is given back;
* editor: tasks run one at a time, the program ends, and status 0 means durable;
* UEFI: no call leaves a child half made, or the handle database with an
  interface that was freed.

## Modules

Actions carry the names of the functions they model, and `PROJECT.json` maps
every definition to its lines.

**CyanfsExtents** models one extent-sized slot of each file.  `cyanfs_write`
is split where the code drops `files_lock`: `WriteMapped`/`WriteUnmapped` under
the read lock, `WriteAlloc`/`WriteRaced`/`WriteNoSpace` under the write lock,
`WriteDone`/`WriteRequeue` for the handler and the decrement of the writer
counter.  A flusher has an address from `Flusher` (malloc may return any free
one, or none); its tasks are `writer`, `write`, `before`, `before_flush`,
`after`, `after_flush`, `free`.  The device is what it has not made durable
yet: `dirty_unbinds`, `dirty_copies`, `volatile`.  `bug` is a `CYANFS_BUG_ON`
that fired.  The entries of one record, and whether it ends its extent, are
chosen freely, which covers every layout.

**CyanfsSuper** holds the metadata in one record `m` and the journal as a
sequence.  `Valid` and `Apply` are `__cyanfs_super_journal_replay`; the same
helper operators serve the live operations and replay, as in the code.  `Image`
is what a compaction writes for a prefix.  Recursion through ancestors and over
entries is written as recursive functions.

**CyanfsJournal** keeps the device as durable contents plus a cache of writes.
`Load` is a run of the loader, used at mount (up to the end of the journal) and
by compaction (up to the last durable extent).  The metadata is the extent map
of one file.  `hist` is a history variable: the metadata since the last FLUSH.

**CyanfsDurable** is the abstract specification: a state that changes, a flush
that forgets older states, a crash that goes back to one of the states since.
`CyanfsJournal` implements it (`DurableMetadata`) with the refinement mapping
`state <- map, hist <- hist`.

**CyanfsBackend** has one actor per descriptor, disk, ioctl thread and timer.
A call is a program counter that goes through the steps between which others
may run: the look of `flusher_start` under the read lock, its section under the
write lock, the wakeup after the lock is released, `cyanfs_flush`,
`cyanfs_requeue`, the device flush, the wait.  The journal is four counters.

**CyanfsRegistry** is about who may use what in the Linux driver.  A `kref` is
the set of its holders, and reaches zero when the set is empty; the readers of a
file are the set of handles that count as one.  `lock` says what the ioctl that
holds `cyanfs_ctl_lock` is at work on, so that `BackendMount` and `DeviceMap`
are followed by the steps that wait (`BackendStep`, `AllocStep`) while
descriptors are released, disks opened and freed, and directories of configfs
made.  `FreeWork` is the work item that deletes a disk after its last put.
`cursor` and `due` follow a client that lists the mapped disks one call at a
time; `due` is what it has still to be told.

A disk can be opened after its last put and before `del_gendisk`.  `kref_get`
then holds nothing (the kernel's reference counts saturate, and a put on a
saturated one does nothing), the work item frees the disk under that opener
(`late`, then `stale`), and `AllocDisk` may use the memory again.  The opener's
`Release` is a put on whatever is there by then: `DiskPut` of one who holds no
reference drops one of the others, any of them, since a count does not say whose
it is.  `stolen` records it.  A program that has a disk open may have a bio that
waits in `cyanfs_requeue` (`io`), and does not release the disk before it is
through.

**CyanfsEdit** has the command thread (`pc`, with `ret` where it goes on after
`do_new_task`) and the executor thread (`thr`), which meet in `new_task`,
`terminated` and the condition variable.  `do_loop` is run by either of them.
The commands are classes: `metadata` for whatever only appends entries, `write`,
`cow` for what has to wait for a copy, `compact`, `mkfs`, `mount`, `umount`.

**CyanfsUefi** makes every boot service call an action, since each of them may
fail, and lets other drivers write and flush a child between two of them while
its BlockIo is installed.  `installed` and `by_child` are what the handle
database says, `seen` and `opened` what the driver remembers of it.

The `MC` modules give the constants of the runs.  Three components are checked
in several set-ups by one run: `Instances` is a set of records (device, bounds,
handles in use), and `Init` chooses one of them, which `inst` keeps.

## Runs

| Run | What it shows | States |
|---|---|---|
| `extents_race` | write against discard, two flushers, DISCARD enabled: partition, no reclamation under a writer, durability before reuse, one discard task | 557 k |
| `extents_cow` | two writers of one slot above parent data, and delete, with device errors and a `cyanfs_requeue` that may run out of memory: a copy is durable before its BIND, nothing is reused before its unbinding is durable | 565 k |
| `extents_live` | two writers, truncate and sync without failures: every extent given up is freed, a requeued write resumes, and the BUG_ON on a pending extent is out of reach | 42 k |
| `super` | replay rebuilds memory at every crash point, compaction is exact, nothing durable is reused; fork chains of different sizes are isolated, and `cyanfs_seek_data` agrees with the lookup | 179 k |
| `journal` | mount after a power failure at any step of writer and compaction; refinement of `CyanfsDurable` | 302 k |
| `backend` | fsync, flush bio, sync, umount, release, unmap and the periodic flush in every order, with failures: what returned 0 is durable, the super is closed quiet, every call returns, the periodic flush writes every entry | 171 k |
| `registry` | mount, umount, map, unmap, bind, configfs, openers, deferred free and listings in every order, until a reference is stolen: the trees hold nothing that was freed, openers keep their disks, and a device nobody uses is given back | 652 k |
| `edit` | every batch of four commands: serial execution, no lost wakeup, durable on success, the program ends | 314 k |
| `uefi` | two children mapped, written, stopped and repaired with any failure: each call returns with every child managed or degraded and nothing dangling | 14 k |

Three runs expect a violation; each shows a disagreement between the code and
what the repository says of it:

* `journal_stale`: with a write cache that reorders, a record that outlived a
  first power failure beyond a hole continues the journal written after it, and
  a second power failure gives a mount that fails or metadata that never was.
  The loader tells records apart by CRC and sequence number only
  (`core/journal.c:258`).
* `journal_recompact`: a compaction may store its chain in an extent that the
  metadata it writes still binds (a later record, which it does not cover,
  unbinds it).  A second compaction before the journal reaches another extent
  replays the same prefix, finds the overlap (`core/journal.c:72`) and puts the
  super in error.  A mount is not affected: it replays the later record too.
* `registry_late`: a program opens a disk after its last put
  (`linux/vdisk.c:185`), the disk is freed and its memory used for the next one,
  and the program's release (`linux/vdisk.c:195-196`) drops a reference of that
  disk.  In the trace it is that of a second program; the next unmap is then the
  last put, and `cyanfs_close` is called while a bio of the second program waits
  for its callback, which `core/core.h:166` rules out
  (`CallbacksEndBeforeClose`).

### Bounds

* `CyanfsExtents`: two or three extents, one slot, two threads.  Two flusher
  addresses in `extents_race` let flushers overlap, which is what the writer
  epochs are about; there the flushers are those of the periodic flush, and a
  third extent lets a slot be written again while its old extent is on its way.
  In the other two runs `MaxInflight` 0 and `InflightDivisor` 2 make the
  thresholds of 10000 entries and 1/1024 of the free extents reachable.
  `MaxJournal` (entries malloc may return) bounds `journal_head`, not what
  flushers hold.
* `CyanfsSuper`: three ids; two names, three where there are three files, one of
  which is also the first marker a compaction tries; one extent per file, two
  where sizes matter.  Behaviours start on a new device, on one that already
  holds a fork, and on two with a file and a fork of it, of the same size and
  shrunk.
* `CyanfsJournal`: one entry per record, one to three records per extent, so
  that links, the last block of an extent and reuse of extents all happen.  With
  a cache that keeps the order (the last write may be torn), one crash, plus the
  crash that `MountRecovers` considers in every state: one compaction with
  extents of one record, two with extents of three.  With a cache that keeps any
  subset of the writes, one compaction and only the latter crash; a second one
  is the finding `journal_stale`.
* `CyanfsBackend`: with the periodic flush, a descriptor and one failure, and a
  disk with two entries or a flush; without it, a disk with a flush, one failure
  and one more round asked for by the FLUSH flag, a descriptor and a disk
  together, and a descriptor with two calls that overlap.
* `CyanfsRegistry`: one device with two files; memory for two backends and two
  disks, so that a mount meets the close of the one before, and two disks of one
  file or of two; one descriptor and one opener.  The constraint `NotStolen` ends
  a behaviour of `registry` where a reference has been stolen: its properties say
  nothing of what comes after, and no fair action gets there.  `registry_late`
  has no constraint, two openers, and memory for one backend and one disk, so
  that a new disk is where the old one was.
* `CyanfsEdit`: four commands and one journal entry in flight.  Four are enough
  for a mount, a copy whose journal entry fails in the background, another
  command and an umount.
* `CyanfsUefi`: two children, and two files of which one shares blocks with its
  parent.

For what is proved (see below) none of these bounds matters.

Deadlock is checked in both registry runs and in `edit`.  It is not in the others: a super
in error refuses every call, a file system whose users ask for nothing more is
idle, the bounds end every run; and the UEFI machine stops for good in a
`CYANFS_BUG_ON`, or when the driver is gone with the parent still open
BY_DRIVER.

### Fairness

The executor (`GetTask`, `TaskDone`, `Execute`) is weakly fair because a queued
work item runs and the device answers; a caller that has begun goes on because
it only waits for locks and for the executor; `FlushWork`/`PeriodicFlush` is
weakly fair because the delayed work queues itself every 60 seconds.  In the
registry the steps of an ioctl, of a release and of the free work that have
begun are weakly fair.  The editor's two threads are scheduled by the operating
system; nothing promises a spurious wakeup.  A UEFI call that has begun goes on
(`CallStep`).  Nobody is obliged to begin a call, to unmap or to close.  A super
in ERROR makes no promise.

## Proofs

Each of the following holds for every value of the constants, from the `ASSUME`
of its module alone.  None of the properties is inductive as it stands; each
proof defines an inductive invariant `IInv`, shows that `Init` establishes it
and that every action keeps it (one lemma per action, one step per part of the
invariant the action can disturb), and derives the properties.

**Extents** (`CyanfsExtents_ind` has the invariants, `_inv` and `_durable` the
steps, `_proofs` the theorems), for any number of extents, files, threads and
flushers.  No bound on the threads is assumed, not even that they are finitely
many.

`TypeOK`, `ExtentsPartitioned`, `NoWriterOnReclaimedExtent` and
`DiscardTaskUnique` follow from `IInv`:

* `LocalsInv`: which locals a caller holds at which point of its call;
* `RequeueInv`: a thread has at most one REQUEUE task, and waits while it has one;
* `DiscardInv`: one discard task while `DISCARD_WORKING` is set, by position in
  the queue, and no extents to discard otherwise;
* `EpochInv`: each writer counter is the number of threads that hold it (there
  is a list of that length that names each of them once: `Counts`), and the old
  epoch has holders only while there are flush extents;
* `HandlerInv`: the extent a handler writes to is mapped by its file, or unused,
  held by a flusher, or among the flush extents; and in the last case the writer
  is counted in the epoch that the flusher left.  This is the reason for the two
  counters: `AfterFlushReclaim` needs the counter of the old epoch to be zero,
  and by `EpochInv` and `HandlerInv` no handler then targets a flush extent;
* `DeadInv`: a flusher whose address is free holds no extents.

`DurableBeforeReuse`, `CopyDurableBeforeBind` and `NoBug` follow from a second
invariant above it, `DInv`, and from `PendingInv`:

* `QueueOrder`: the tasks of one flusher in the queue, among those of others and
  of callers.  A WRITE is at the head, behind its own FLUSH at most
  (`WriteFirst`, `BeforeNext`); the NOP that starts the writer is ahead of what
  it starts and of the FLUSH after it (`WriterAhead`); the task that frees the
  flusher is the last one (`FreeLast`);
* `WriterState`: entries that are left have a task that will write them;
* `UnbindInv`: as long as the super has not failed, an extent whose unbinding is
  not on the device yet is unused with its entry in `journal_head`, or both are
  with one flusher; it waits among the flush extents only while that flusher is
  still writing.  So the FLUSH that reclaims extents comes behind the record;
* `CopyInv`: the entry of a copy asks for a FLUSH, and from that FLUSH to the
  last WRITE of the flusher no copied data is in the cache of the device.  The
  executor is serial and a WRITE is put at the head, so that no COPY task gets
  in between: this is why one flush per flusher is enough;
* `PendingInv`: a pending copy is queued, and the write that started it, which
  keeps its file open, is on its way to the queue or waits behind the copy.
  `NeverBug` needs `~RequeueMayFail`: after a failed `cyanfs_requeue` nobody
  waits, and the BUG_ON can be reached (see the last section).

**Backend** (`CyanfsBackend_ind` has the invariant, `_inv` the steps of the
executor and of the callers that add no task, `_proofs` the other steps and the
theorems): `FlushedIsDurable` and `ClosedQuiet`, for any number of descriptors, disks, entries, calls,
failures and limits of entries in flight.  In `IInv`

* `OrderInv` is about the one queue that every flusher and every requeue shares:
  writers are in the order in which their flushers took the entries, and none of
  what they are to write is written yet.  It gives `Covered`: an entry is on the
  device, or a writer ahead of a given place in the queue will write it;
* `TakenInv`: what was taken is covered, unless the super failed;
* `RequeueInv`: the requeue of an fsync is behind the writers of all entries the
  call is about, whoever took them, since it is put at the tail after
  `flusher_start` has found them taken;
* `CallOk`: what a call knows at each of its steps.  A flush bio looks at the
  ERROR flag again before it sends the device flush, an fsync afterwards, and
  the two conjuncts on `comp` say that each of these is enough;
* `SyncOk`: the FLUSH that a sync or a close waits for is behind the writers,
  and once the work item has gone through the queue, every waiter it completes
  has its entries durable.  A waiter that joins while the work item is
  completing others is left to the next round;
* `HolderInv` and `CloseInv`: every call on the super comes from somebody who
  holds a reference, so the closer, who dropped the last one, is alone but for
  the periodic flush, which it cancels, and the work item, which it waits for.

**Registry** (`CyanfsRegistry_proofs`): `OneSuperPerDevice`,
`FilesCountHandles`, `TreesAlive`, `OnlyReadersLost`, `OpenersKeepTheirDisk` and
`ListingComplete`, for any number of devices, files, backends, disks,
descriptors and openers, in time and late, with memory used again while an
opener still points to it.  All of them hold until a reference is stolen
(`Sound` is `~stolen => IInv`).  They cannot hold beyond that, as
`registry_late` shows, and `OnlyLateSteal` says that nothing but the release of a
late opener brings it about: the puts of the ctl, of a directory and of an opener
in time are of references they have.  `ClaimInv` is why no device has two supers: the
exclusive open of the device lasts as long as the backend.  `DiskInv`, `CtlInv`
and `RefInv` say who holds what in each part of a life; the case that matters is
a map that waits for the device while others run: its disk holds the backend and
the ioctl the lock, so the backend is still in its tree when the disk is
inserted.  `FileInv` makes the open type and the reader count of a file a
function of the handles open on it (`Counted`), which is why two disks that can
be written never meet under one key, and so `FoundInv`.  `ListInv` uses that
`NFind` returns the least key after the cursor, whose existence is the one place
where well-founded induction is cited.

**Editor** (`CyanfsEdit_proofs`): `SerialExecution`, `NoLostWakeup`,
`ContextAlive` and `SuccessIsDurable`, for a batch of any length and any limit
of entries in flight.  `PhaseInv` says what openfs and closefs have set up at
each label; `WakeInv` adds to `NoLostWakeup` the executor that has found the
queue empty and not yet taken `disk->lock`; `RequeueInv` and `CopyInv` order a
copy before the requeue that waits for it; `JournalInv` and `DurableInv` follow
the last journal task and the flush behind it through the queue while closefs
drains it, as long as nothing failed.

**UEFI** (`CyanfsUefi_proofs`): `ChildrenSettled`, `NothingDangling` and
`DriverStopsClean`, for any number of children and files.  `Working` says how
far the call under way has come with its child, `Settled` what holds of every
other one, and `Mirrored` that the driver's flags agree with the handle
database, which is what the decisions of `CyanfsRecoverDisk` rest on.

Only model-checked: everything about `CyanfsSuper` and `CyanfsJournal` (with the
refinement of `CyanfsDurable`), and all liveness, which is out of the prover's
reach (`EveryExtentReclaimed`, `RequeuedWriteResumes`, `EveryCallReturns`,
`EntriesWritten`, `DeviceGivenBack`, `Terminates`, `CallsReturn`).  What the
recursive functions of `CyanfsSuper` and `CyanfsJournal` compute for every input
(a replay of a journal of any length, a lookup through any chain of forks) needs
induction over data, for which the provers have no usable theorem here.

## What is not modelled

* Data of extents, bios and their splitting, CRC arithmetic, names and their
  normalisation, and the hash that chooses an extent (any free one is allowed).
* Reads: `cyanfs_read` changes no state and is not counted as a writer.  A read
  that races a discard may see the next owner's data; the models say
  nothing of what it returns.
* A data bio after its handler returned.  The Linux handler submits the bio and
  returns, and the writer counter is dropped then, so
  `NoWriterOnReclaimedExtent` is about handlers and not about completions; the
  order in which the block layer serves submitted bios is outside the models.
* What happens after a put through freed memory beyond the counts: that the put
  may come while the next disk is still being made and its work item is not yet
  set up, that the memory may hold something else than a disk, and what a
  comparison reads from a freed disk in a tree.
* Of a data bio the registry has only that it may wait for its file.
* Running out of memory inside `cyanfs_super_compact`, and the exhaustion of the
  version of the super header.
* The platform layer, the balancing of `rb_tree.h`, sysfs and configfs text
  attributes, parsing and printing in the utilities and demos, and loading and
  unloading of the module.
* `CyanfsUefi` assumes that the media is writable, that a boot service that
  reports success did its work, and that nobody calls `EFI_CYANFS_PROTOCOL`
  while the driver stops.  BlockIo entered again at a higher TPL while the
  executor runs is left out, the repair of a child is one action, and
  `CyanfsDriverSupported` leaves no state behind.  A failing
  `AppendDevicePathNode` destroys the child as an installation that installed
  nothing does, and is that case of `MapInstall`.
* A composition of all modules: the interfaces between them are the journal
  counters of `CyanfsBackend` and `CyanfsEdit`, the free choice of records in
  `CyanfsExtents` and the prefix that a crash keeps in `CyanfsSuper`, which
  `CyanfsJournal` justifies.  A product of two of them is out of TLC's reach at
  bounds where anything happens.

## What the models follow in the code

Behaviours a reader of the code may not expect, which the models have as they
are:

* When `cyanfs_requeue` runs out of memory after the COPY task was queued, the
  extent stays pending; if the file is then truncated or deleted,
  `CYANFS_BUG_ON(n->v.pending)` (`core/super.c:61`) fires.  `NoBug` is checked
  without that failure.
* A fork that is shrunk and grown again shows its parent's data in the slots
  that it gave up: the lookup stops at a shorter file, and the size is all there
  is to stop it.
* The super header of a compaction is written without another look at the ERROR
  flag.
* `cyanfs_backend_close` ignores the result of `cyanfs_super_flush`
  (`linux/main.c:491`): if the flusher cannot be allocated, the entries in memory
  are dropped.  `EntriesWritten` excuses that case; an allocation that fails
  before the close is made up for by the next periodic flush.
* `cyanfs_ctl_device_map` ignores the result of its insertion
  (`linux/ctl.c:125`).  A second read-only disk of a file is in no tree, cannot
  be unmapped, and keeps its device; `OnlyReadersLost` shows that no disk that
  can be written is lost, and `DeviceGivenBack` counts such a disk as a user.
* A disk can be opened between its last put and `del_gendisk` in the free work
  (`linux/vdisk.c:185`).  Such an opener (`late`) holds nothing, is left with a
  pointer to freed memory, and puts a reference through it (`registry_late`).
* The editor registers its callback after the executor thread was created,
  although `core.h:161-164` asks for a quiescent executor; nothing is queued in
  between.  mkfs in a batch is not refused while the file system is mounted.
  When `wait_requeue` fails, the entry that the copy appends while closefs
  drains the queue is not written, and the exit status is an error already.
* After an I/O error the super in the UEFI driver stays in error, so that
  `CyanfsDriverStop` does not succeed any more.  A write to a block that a fork
  shares with its parent queues a COPY, which the UEFI executor does not know:
  it stops in `CYANFS_BUG_ON(1)` (`CyanfsDxe.c:73-74`).
