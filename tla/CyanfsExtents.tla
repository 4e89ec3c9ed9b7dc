--------------------------- MODULE CyanfsExtents ---------------------------
(***************************************************************************)
(* The life of a backend extent in a mounted super: cyanfs_write and       *)
(* cyanfs_discard with their two lock sections, truncate and delete, the   *)
(* journal flusher with its before/after FLUSH tasks, the two-epoch writer *)
(* counter that delays reclamation, the discard task, and the serial       *)
(* executor that runs the task queue.                                      *)
(*                                                                         *)
(* A file stands for one extent-sized slot of one file: every loop of the  *)
(* code handles its extents one at a time.  The super is opened with       *)
(* compact = 0, so cyanfs_super_compact returns at once.                   *)
(***************************************************************************)
EXTENDS Integers, Sequences, FiniteSets

CONSTANTS
  TotalExtents,      \* number of extents of the backend
  File,              \* the extent-sized slots of files open for writing
  Cow,               \* those whose parent file holds data under the slot
  Thread,            \* threads that use the super
  Calls,             \* the operations each of them calls
  Timer,             \* the delayed work that flushes every 60 seconds
  Exec,              \* the executor thread
  Flusher,           \* addresses malloc may return for a flusher
  None,
  Reserved,          \* meta.reserved_extents
  MaxInflight,       \* CYANFS_MAX_INFLIGHT_JOURNAL
  InflightDivisor,   \* 1 << 10 in cyanfs_super_flusher_write_finish
  MaxJournal,        \* bound of the model: entries malloc may return
  MaxJournalExtents, \* bound of the model: extents the journal may fill
  DiscardEnabled,    \* the discard argument of cyanfs_super_open
  IoMayFail,         \* may the device report an error?
  RequeueMayFail     \* may malloc fail in cyanfs_requeue?

Extent == 0 .. TotalExtents - 1
NoExtent == -1
NoWriter == -1
Caller == Thread \cup {Timer, Exec}

ASSUME ExtentsAssumption ==
  /\ TotalExtents \in Nat \ {0}
  /\ Cow \subseteq File
  /\ Calls \in [Thread -> SUBSET {"write", "discard", "truncate", "delete",
                                 "sync"}]
  /\ Timer # Exec /\ Timer \notin Thread /\ Exec \notin Thread
  /\ None \notin File
  /\ Reserved \in Nat /\ MaxInflight \in Nat /\ MaxJournal \in Nat
  /\ MaxJournalExtents \in Nat
  /\ InflightDivisor \in Nat \ {0}
  /\ DiscardEnabled \in BOOLEAN
  /\ IoMayFail \in BOOLEAN /\ RequeueMayFail \in BOOLEAN

VARIABLES
  \* struct cyanfs_super: the extent trees
  free_extents, unused_extents, flush_extents,
  wait_discard_extents, discard_extents, journal_extents,
  \* the extent tree of each file, and v.pending, v.error of its node
  extents, pending, error,
  flags, writers, writer_current_id,
  journal_head,      \* entries appended and not yet given to a flusher
  extent_id, extent_id_flush, extent_id_ondisk, \* journal_cursor
  task_head, active, \* the task queue and the task the executor runs
  \* struct cyanfs_task_super_flusher, by address: is it allocated, its unused
  \* extents, its writer's list, the record being written and whether that
  \* WRITE became a NOP, ondisk and flush_before_write
  t_live, t_unused, t_head, t_record, t_nop, t_ondisk, t_flush_before_write,
  \* the locals of each caller
  pc, file, writer, extent,
  \* what the device has not made durable yet
  dirty_unbinds,     \* extents whose unbinding record is in the write cache
  dirty_copies,      \* extents whose copied data is in the write cache
  volatile,          \* extents whose unbinding is not durable
  bug                \* a CYANFS_BUG_ON fired

pools == <<free_extents, unused_extents, flush_extents, wait_discard_extents,
           discard_extents, journal_extents>>
nodes == <<extents, pending, error>>
epochs == <<writers, writer_current_id>>
cursor == <<extent_id, extent_id_flush, extent_id_ondisk>>
tasks == <<task_head, active>>
writing == <<t_head, t_record, t_nop, t_flush_before_write>>
flusher == <<t_live, t_unused, writing, t_ondisk>>
locals == <<pc, file, writer, extent>>
device == <<dirty_unbinds, dirty_copies, volatile>>
vars == <<pools, nodes, flags, epochs, journal_head, cursor, tasks, flusher,
          locals, device, bug>>

-----------------------------------------------------------------------------
(* Journal entries, tasks and flushers.                                    *)

\* An entry: its flush flag, the extents it unbinds and, for a copy on
\* write, the extents it binds.
Entry == [flush : BOOLEAN, unbinds : SUBSET Extent, copies : SUBSET Extent]

FlusherOp == {"writer", "write", "before", "before_flush", "after",
              "after_flush", "free"}
DiscardTask == [op : {"discard_begin", "discard_io"}, of : {None}]
Task == [op : FlusherOp, of : Flusher]
          \cup [op : {"copy"}, of : File, node : Extent]
          \cup [op : {"requeue"}, of : Thread]
          \cup DiscardTask
NoTask == [op |-> "none", of |-> None]

Flag == {"FLUSH", "ERROR", "DISCARD_WORKING"}
PC == {"idle", "write_start", "write_alloc", "submit", "submit_new",
       "requeue", "io_error", "wait", "discard_upgrade", "flush_check",
       "flush_start", "flush_start_ondisk"}
\* In the handler of a write, between the atomic_inc and the atomic_dec.
InHandler(t) == pc[t] \in {"submit", "submit_new"}

UnbindsOf(entries) == UNION {entries[i].unbinds : i \in DOMAIN entries}
CopiesOf(entries) == UNION {entries[i].copies : i \in DOMAIN entries}
AnyFlushUnbind(entries) ==
  \E i \in DOMAIN entries : entries[i].flush /\ entries[i].unbinds # {}
AnyFlush(entries) == \E i \in DOMAIN entries : entries[i].flush

Failed == "ERROR" \in flags

-----------------------------------------------------------------------------
Init ==
  /\ free_extents = Extent \ {0}
  /\ unused_extents = {} /\ flush_extents = {}
  /\ wait_discard_extents = {} /\ discard_extents = {}
  /\ journal_extents = {0}
  /\ extents = [f \in File |-> NoExtent]
  /\ pending = {} /\ error = {}
  /\ flags = {}
  /\ writers = [k \in {0, 1} |-> 0] /\ writer_current_id = 0
  /\ journal_head = <<>>
  /\ extent_id = 0 /\ extent_id_flush = 0 /\ extent_id_ondisk = 0
  /\ task_head = <<>> /\ active = NoTask
  /\ t_live = [i \in Flusher |-> FALSE]
  /\ t_unused = [i \in Flusher |-> {}]
  /\ t_head = [i \in Flusher |-> <<>>]
  /\ t_record = [i \in Flusher |-> <<>>]
  /\ t_nop = [i \in Flusher |-> FALSE]
  /\ t_ondisk = [i \in Flusher |-> FALSE]
  /\ t_flush_before_write = [i \in Flusher |-> FALSE]
  /\ pc = [t \in Caller |-> "idle"]
  /\ file = [t \in Caller |-> None]
  /\ writer = [t \in Caller |-> NoWriter]
  /\ extent = [t \in Caller |-> NoExtent]
  /\ dirty_unbinds = {} /\ dirty_copies = {} /\ volatile = {}
  /\ bug = FALSE

-----------------------------------------------------------------------------
(* cyanfs_super_flusher_start(min_journal_count, ondisk), called by         *)
(* super_flush with min = 0 and by flush_new_journal with MaxInflight, 0.  *)

\* The caller's operation is over, up to "to"; its locals are gone.
ReturnTo(t, to) ==
  /\ pc' = [pc EXCEPT ![t] = to]
  /\ file' = [file EXCEPT ![t] = None]
  /\ writer' = [writer EXCEPT ![t] = NoWriter]
  /\ extent' = [extent EXCEPT ![t] = NoExtent]
Return(t) == ReturnTo(t, "idle")
\* cyanfs_super_flush_new_journal is still to come.
FlushNewJournal(t) == ReturnTo(t, "flush_check")

\* The section under the read lock: is there work, and is a FLUSH part of it?
FlusherWork(min_journal_count, ondisk) ==
  /\ ~Failed
  /\ ondisk \/ "FLUSH" \in flags \/ Len(journal_head) > min_journal_count
FlusherAtAsked(ondisk) ==
  IF ondisk THEN "flush_start_ondisk" ELSE "flush_start"
FlusherAt(ondisk) ==
  IF ondisk \/ "FLUSH" \in flags THEN "flush_start_ondisk" ELSE "flush_start"

\* backend_sync passes ondisk = 1; the periodic flush_work passes 0.
SuperFlush(t, ondisk) ==
  /\ pc[t] = "idle"
  /\ FlusherWork(0, ondisk)
  /\ pc' = [pc EXCEPT ![t] = FlusherAt(ondisk)]
  /\ UNCHANGED <<pools, nodes, flags, epochs, journal_head, cursor, tasks,
                 flusher, file, writer, extent, device, bug>>

FlusherCheck(t) ==
  /\ pc[t] = "flush_check"
  /\ pc' = [pc EXCEPT ![t] =
       IF FlusherWork(MaxInflight, FALSE) THEN FlusherAt(FALSE) ELSE "idle"]
  /\ UNCHANGED <<pools, nodes, flags, epochs, journal_head, cursor, tasks,
                 flusher, file, writer, extent, device, bug>>

\* The malloc fails, every address being taken, or the section under the write
\* lock finds that another flusher left nothing to do.
FlusherNothing(t) ==
  /\ \/ pc[t] = "flush_start" /\ journal_head = <<>>
     \/ /\ pc[t] \in {"flush_start", "flush_start_ondisk"}
        /\ \A i \in Flusher : t_live[i]
  /\ Return(t)
  /\ UNCHANGED <<pools, nodes, flags, epochs, journal_head, cursor, tasks,
                 flusher, device, bug>>

\* The tasks of a flusher: its writer, the FLUSH after it, its end.
FlusherTasksSwapped(i, no_journal, ondisk) ==
  (IF ondisk THEN <<[op |-> "after", of |-> i]>> ELSE <<>>)
    \o (IF no_journal THEN <<>> ELSE <<[op |-> "writer", of |-> i]>>)
    \o <<[op |-> "free", of |-> i]>>
FlusherTasks(i, no_journal, ondisk) ==
  (IF no_journal THEN <<>> ELSE <<[op |-> "writer", of |-> i]>>)
    \o (IF ondisk THEN <<[op |-> "after", of |-> i]>> ELSE <<>>)
    \o <<[op |-> "free", of |-> i]>>

\* The flusher takes every unused extent and every entry, and its tasks go to
\* the tail of the queue.
FlusherStart(t, i) ==
  LET no_journal == journal_head = <<>>
      ondisk == pc[t] = "flush_start_ondisk"
      work == FlusherTasks(i, no_journal, ondisk)
  IN /\ \/ pc[t] = "flush_start" /\ ~no_journal
        \/ pc[t] = "flush_start_ondisk"
     /\ ~t_live[i]
     /\ Return(t)
     /\ t_live' = [t_live EXCEPT ![i] = TRUE]
     /\ t_unused' = [t_unused EXCEPT ![i] = unused_extents]
     /\ unused_extents' = {}
     /\ t_head' = [t_head EXCEPT ![i] = journal_head]
     /\ journal_head' = <<>>
     /\ t_ondisk' = [t_ondisk EXCEPT ![i] = ondisk]
     /\ flags' = IF ondisk THEN flags \ {"FLUSH"} ELSE flags
     /\ task_head' = task_head \o work
     /\ UNCHANGED <<free_extents, flush_extents, wait_discard_extents,
                    discard_extents, journal_extents, nodes, epochs, cursor,
                    active, t_record, t_nop, t_flush_before_write, device, bug>>

-----------------------------------------------------------------------------
(* cyanfs_write, one extent of it.                                         *)

\* The label mapped: under the lock, count the writer in the current epoch and
\* copy the extent node.
Mapped(t, f, e, to) ==
  /\ writers' = [writers EXCEPT ![writer_current_id] = @ + 1]
  /\ writer' = [writer EXCEPT ![t] = writer_current_id]
  /\ extent' = [extent EXCEPT ![t] = e]
  /\ file' = [file EXCEPT ![t] = f]
  /\ pc' = [pc EXCEPT ![t] = to]
  /\ UNCHANGED writer_current_id

\* What the handler is told about a mapped extent.
HandlerOf(f) == CASE f \in error   -> "io_error"
                  [] f \in pending -> "requeue"
                  [] OTHER         -> "submit"

\* A call of cyanfs_write, or its retry after a requeue.
MayCall(t, op) == t \in Thread /\ pc[t] = "idle" /\ op \in Calls[t]
MayWrite(t, f) == \/ MayCall(t, "write")
                  \/ pc[t] = "write_start" /\ file[t] = f

\* The section under the read lock, when the slot is mapped.
WriteMapped(t, f) ==
  /\ MayWrite(t, f) /\ ~Failed
  /\ extents[f] # NoExtent
  /\ Mapped(t, f, extents[f], HandlerOf(f))
  /\ UNCHANGED <<pools, nodes, flags, journal_head, cursor, tasks, flusher,
                 device, bug>>

\* The same when it is not: the lock is dropped to allocate.  The extent of
\* the parent can be pending only after a copy whose requeue failed; then the
\* handler requeues and no writer is counted.
WriteUnmapped(t, f) ==
  /\ MayWrite(t, f) /\ ~Failed
  /\ extents[f] = NoExtent
  /\ \/ pc' = [pc EXCEPT ![t] = "write_alloc"]
     \/ f \in Cow /\ RequeueMayFail /\ pc' = [pc EXCEPT ![t] = "requeue"]
  /\ file' = [file EXCEPT ![t] = f]
  /\ UNCHANGED <<pools, nodes, flags, epochs, journal_head, cursor, tasks,
                 flusher, writer, extent, device, bug>>

\* A retried write meets a super in error.
WriteFails(t) ==
  /\ pc[t] = "write_start" /\ Failed
  /\ Return(t)
  /\ UNCHANGED <<pools, nodes, flags, epochs, journal_head, cursor, tasks,
                 flusher, device, bug>>

\* No memory for the entry; or, in the section under the write lock, the super
\* failed meanwhile or __cyanfs_file_alloc_extent finds no extent beyond the
\* reserve.
WriteNoSpace(t) ==
  /\ pc[t] = "write_alloc"
  /\ \/ Len(journal_head) >= MaxJournal
     \/ Failed
     \/ /\ extents[file[t]] = NoExtent
        /\ Cardinality(free_extents) <= Reserved
  /\ Return(t)
  /\ UNCHANGED <<pools, nodes, flags, epochs, journal_head, cursor, tasks,
                 flusher, device, bug>>

\* Another write mapped the slot between the two sections.
WriteRaced(t) ==
  /\ pc[t] = "write_alloc" /\ ~Failed
  /\ extents[file[t]] # NoExtent
  /\ Mapped(t, file[t], extents[file[t]], HandlerOf(file[t]))
  /\ UNCHANGED <<pools, nodes, flags, journal_head, cursor, tasks, flusher,
                 device, bug>>

\* An extent is allocated and bound.  Data of a parent is copied first: the
\* extent is pending and its BIND waits for the COPY task.
WriteAlloc(t) ==
  /\ pc[t] = "write_alloc" /\ ~Failed
  /\ extents[file[t]] = NoExtent
  /\ Cardinality(free_extents) > Reserved
  /\ Len(journal_head) < MaxJournal
  /\ LET f == file[t]
     IN \E e \in free_extents :
          /\ free_extents' = free_extents \ {e}
          /\ extents' = [extents EXCEPT ![f] = e]
          /\ IF f \in Cow
             THEN /\ pending' = pending \cup {f}
                  /\ task_head' = Append(task_head,
                       [op |-> "copy", of |-> f, node |-> e])
                  /\ Mapped(t, f, e, "requeue")
                  /\ UNCHANGED journal_head
             ELSE /\ journal_head' = Append(journal_head,
                       [flush |-> FALSE, unbinds |-> {}, copies |-> {}])
                  /\ Mapped(t, f, e, "submit_new")
                  /\ UNCHANGED <<pending, task_head>>
  /\ UNCHANGED <<unused_extents, flush_extents, wait_discard_extents,
                 discard_extents, journal_extents, error, flags, cursor,
                 active, flusher, device, bug>>

\* handler(CYANFS_MAP_SUBMIT) or the error of the extent returns, and the
\* writer is no longer counted; flush_new_journal follows a new BIND.
WriteDoneCurrent(t) ==
  /\ pc[t] \in {"submit", "submit_new", "io_error"}
  /\ writers' = [writers EXCEPT ![writer_current_id] = @ - 1]
  /\ IF pc[t] = "submit_new" THEN FlushNewJournal(t) ELSE Return(t)
  /\ UNCHANGED <<pools, nodes, flags, writer_current_id, journal_head, cursor,
                 tasks, flusher, device, bug>>
WriteDone(t) ==
  /\ pc[t] \in {"submit", "submit_new", "io_error"}
  /\ writers' = [writers EXCEPT ![writer[t]] = @ - 1]
  /\ IF pc[t] = "submit_new" THEN FlushNewJournal(t) ELSE Return(t)
  /\ UNCHANGED <<pools, nodes, flags, writer_current_id, journal_head, cursor,
                 tasks, flusher, device, bug>>

\* handler(CYANFS_MAP_REQUEUE) queues a task that will retry the write, or
\* fails for want of memory and the write returns an error.
WriteRequeue(t) ==
  /\ pc[t] = "requeue"
  /\ writers' = IF writer[t] = NoWriter THEN writers
                ELSE [writers EXCEPT ![writer[t]] = @ - 1]
  /\ \/ /\ task_head' = Append(task_head, [op |-> "requeue", of |-> t])
        /\ pc' = [pc EXCEPT ![t] = "wait"]
        /\ writer' = [writer EXCEPT ![t] = NoWriter]
        /\ extent' = [extent EXCEPT ![t] = NoExtent]
        /\ UNCHANGED file
     \/ RequeueMayFail /\ Return(t) /\ UNCHANGED task_head
  /\ UNCHANGED <<pools, nodes, flags, writer_current_id, journal_head, cursor,
                 active, flusher, device, bug>>

-----------------------------------------------------------------------------
(* cyanfs_discard of a whole extent, cyanfs_truncate and cyanfs_delete.    *)

\* __cyanfs_file_unmap_extent of the extent of f, if it has one, with the
\* entry that records it; the extent of a pending copy hits a BUG_ON.
Unmap(f, flush) ==
  LET gone == {extents[f]} \ {NoExtent}
  IN /\ extents' = [extents EXCEPT ![f] = NoExtent]
     /\ error' = error \ {f}
     /\ unused_extents' = unused_extents \cup gone
     /\ volatile' = volatile \cup gone
     /\ journal_head' = Append(journal_head,
          [flush |-> flush, unbinds |-> gone, copies |-> {}])
     /\ bug' = (f \in pending)
     /\ UNCHANGED pending

\* The section under the read lock.  Nothing is discarded above data of a
\* parent, so a pending or failed copy never gets past this point.
DiscardCheck(t, f) ==
  /\ MayCall(t, "discard") /\ ~Failed
  /\ f \notin Cow /\ extents[f] # NoExtent
  /\ pc' = [pc EXCEPT ![t] = "discard_upgrade"]
  /\ file' = [file EXCEPT ![t] = f]
  /\ UNCHANGED <<pools, nodes, flags, epochs, journal_head, cursor, tasks,
                 flusher, writer, extent, device, bug>>

\* The entry is allocated, or there is no memory for it; then the section
\* under the write lock, after the same tests once more.  The trailing
\* flush_new_journal runs whatever they gave.
DiscardUnmap(t) ==
  /\ pc[t] = "discard_upgrade"
  /\ IF Len(journal_head) >= MaxJournal THEN Return(t) ELSE FlushNewJournal(t)
  /\ IF \/ Len(journal_head) >= MaxJournal
        \/ Failed
        \/ extents[file[t]] = NoExtent
     THEN UNCHANGED <<nodes, unused_extents, volatile, journal_head, bug>>
     ELSE Unmap(file[t], TRUE)
  /\ UNCHANGED <<free_extents, flush_extents, wait_discard_extents,
                 discard_extents, journal_extents, flags, epochs, cursor,
                 tasks, flusher, dirty_unbinds, dirty_copies>>

\* A file is CLOSED once every handler and requeue callback on it has returned.
ClosedWhileQueued(f) == \A u \in Caller : file[u] = f => pc[u] = "wait"
Closed(f) == \A u \in Caller : file[u] # f

\* Truncate to zero and delete want the file CLOSED.  Only the entry of a
\* truncate carries the flush flag.
TruncateOrDelete(t, f, flush) ==
  /\ ~Failed
  /\ Closed(f)
  /\ Len(journal_head) < MaxJournal
  /\ Unmap(f, flush)
  /\ FlushNewJournal(t)
  /\ UNCHANGED <<free_extents, flush_extents, wait_discard_extents,
                 discard_extents, journal_extents, flags, epochs, cursor,
                 tasks, flusher, dirty_unbinds, dirty_copies>>
Truncate(t, f) == MayCall(t, "truncate") /\ TruncateOrDelete(t, f, TRUE)
Delete(t, f) == MayCall(t, "delete") /\ TruncateOrDelete(t, f, FALSE)

-----------------------------------------------------------------------------
(* The executor: cyanfs_super_get_task, the I/O of the task, and           *)
(* cyanfs_super_task_done, which runs the task's done function.            *)

GetTask ==
  /\ active = NoTask /\ pc[Exec] = "idle"
  /\ task_head # <<>>
  /\ active' = Head(task_head)
  /\ task_head' = Tail(task_head)
  /\ UNCHANGED <<pools, nodes, flags, epochs, journal_head, cursor, flusher,
                 locals, device, bug>>

\* The executor is done with this task.
Done(task) == active = task /\ active' = NoTask
DoneFor(op, i) == Done([op |-> op, of |-> i])

\* The device reports success or an error.
Outcome == IF IoMayFail THEN BOOLEAN ELSE {FALSE}

\* A FLUSH that succeeds makes the write cache durable.
FlushDevice(err) ==
  IF err THEN UNCHANGED device
  ELSE /\ volatile' = volatile \ dirty_unbinds
       /\ dirty_unbinds' = {}
       /\ dirty_copies' = {}

\* The common part of before_flush and before_write_flush: the flusher's unused
\* extents become the flush extents and the writers' epoch changes.
MoveToFlushSameEpoch(i) ==
  /\ UNCHANGED writer_current_id
  /\ IF flush_extents = {} /\ t_unused[i] # {}
     THEN /\ flush_extents' = t_unused[i]
          /\ t_unused' = [t_unused EXCEPT ![i] = {}]
     ELSE UNCHANGED <<flush_extents, t_unused>>
MoveToFlushOver(i) ==
  IF t_unused[i] # {}
  THEN /\ flush_extents' = t_unused[i]
       /\ t_unused' = [t_unused EXCEPT ![i] = {}]
       /\ writer_current_id' = 1 - writer_current_id
  ELSE UNCHANGED <<flush_extents, t_unused, writer_current_id>>
MoveToFlush(i) ==
  IF flush_extents = {} /\ t_unused[i] # {}
  THEN /\ flush_extents' = t_unused[i]
       /\ t_unused' = [t_unused EXCEPT ![i] = {}]
       /\ writer_current_id' = 1 - writer_current_id
  ELSE UNCHANGED <<flush_extents, t_unused, writer_current_id>>

\* The done function of the NOP that starts a writer, and of each WRITE, is
\* cyanfs_journal_writer_encode; it has one of three outcomes.
Written(op, i, err) ==
  /\ DoneFor(op, i)
  /\ err => op = "write" /\ ~t_nop[i]
  /\ dirty_unbinds' = IF op = "writer" \/ err \/ t_nop[i]
                      THEN dirty_unbinds
                      ELSE dirty_unbinds \cup UnbindsOf(t_record[i])
  /\ UNCHANGED <<unused_extents, flush_extents, wait_discard_extents,
                 discard_extents, nodes, epochs, journal_head, extent_id_flush,
                 extent_id_ondisk, t_live, t_unused, t_ondisk, locals,
                 dirty_copies, volatile, bug>>

\* May a record end its extent and link to another one?
MayLink == Cardinality(journal_extents) < MaxJournalExtents

\* After an error, or for want of an extent to link to,
\* cyanfs_super_flusher_write_error drops the entries.
WriterFails(op, i, err) ==
  /\ Written(op, i, err)
  /\ err \/ Failed \/ (t_head[i] # <<>> /\ MayLink /\ free_extents = {})
  /\ flags' = flags \cup {"ERROR"}
  /\ t_head' = [t_head EXCEPT ![i] = <<>>]
  /\ t_record' = [t_record EXCEPT ![i] = <<>>]
  /\ UNCHANGED <<t_nop, t_flush_before_write, free_extents, journal_extents,
                 extent_id, task_head>>

\* cyanfs_super_flusher_write_finish asks for another FLUSH if the journal has
\* moved on, if extents wait for one, or if too many are neither in use nor
\* free.  (The limit is also capped, at a number beyond a small backend.)
WriterFinishes(op, i) ==
  LET limbo == unused_extents \cup flush_extents \cup wait_discard_extents
                 \cup discard_extents \cup UNION {t_unused[j] : j \in Flusher}
  IN /\ Written(op, i, FALSE)
     /\ ~Failed /\ t_head[i] = <<>>
     /\ flags' = IF \/ extent_id # extent_id_ondisk
                    \/ t_flush_before_write[i] /\ ~t_ondisk[i]
                    \/ Cardinality(limbo) > Cardinality(free_extents) \div InflightDivisor
                 THEN flags \cup {"FLUSH"} ELSE flags
     /\ t_record' = [t_record EXCEPT ![i] = <<>>]
     /\ UNCHANGED <<t_head, t_nop, t_flush_before_write, free_extents,
                    journal_extents, extent_id, task_head>>

\* A record is made of the first n entries; if it ends its extent it links to
\* the smallest free one.  The WRITE goes to the head of the queue, behind the
\* NOP of flush_before_write if an entry wants a FLUSH and none was made.
WriterEncodes(op, i, n, next) ==
  LET record == SubSeq(t_head[i], 1, n)
      first == AnyFlush(record) /\ ~t_flush_before_write[i]
      Of(task) == <<[op |-> task, of |-> i]>>
  IN /\ Written(op, i, FALSE)
     /\ ~Failed
     /\ t_record' = [t_record EXCEPT ![i] = record]
     /\ t_head' = [t_head EXCEPT ![i] = SubSeq(@, n + 1, Len(@))]
     /\ t_nop' = [t_nop EXCEPT ![i] = FALSE]
     /\ t_flush_before_write' = [t_flush_before_write EXCEPT ![i] = @ \/ first]
     /\ task_head' = (IF first THEN Of("before") ELSE <<>>) \o Of("write") \o task_head
     /\ IF next
        THEN /\ MayLink
             /\ extent_id' \in free_extents
             /\ \A e \in free_extents : extent_id' <= e
             /\ free_extents' = free_extents \ {extent_id'}
             /\ journal_extents' = journal_extents \cup {extent_id'}
        ELSE UNCHANGED <<free_extents, journal_extents, extent_id>>
     /\ UNCHANGED flags

\* cyanfs_super_flusher_before_write_flush, the NOP ahead of the first WRITE
\* that carries a flushed entry.
BeforeWriteFlush(i) ==
  /\ DoneFor("before", i)
  /\ IF Failed
     THEN /\ t_nop' = [t_nop EXCEPT ![i] = TRUE]
          /\ UNCHANGED <<t_unused, flush_extents, writer_current_id, task_head>>
     ELSE /\ MoveToFlush(i)
          /\ UNCHANGED t_nop
          /\ task_head' = <<[op |-> "before_flush", of |-> i]>> \o task_head
  /\ UNCHANGED <<free_extents, unused_extents, wait_discard_extents,
                 discard_extents, journal_extents, nodes, flags, writers,
                 journal_head, cursor, t_live, t_head, t_record, t_ondisk,
                 t_flush_before_write, locals, device, bug>>

\* Its FLUSH: before_write_flush_done.
BeforeWriteFlushDone(i, err) ==
  /\ DoneFor("before_flush", i)
  /\ FlushDevice(err)
  /\ flags' = IF err THEN flags \cup {"ERROR"} ELSE flags
  /\ t_nop' = [t_nop EXCEPT ![i] = err \/ Failed]
  /\ UNCHANGED <<pools, nodes, epochs, journal_head, cursor, task_head, t_live,
                 t_unused, t_head, t_record, t_ondisk, t_flush_before_write,
                 locals, bug>>

\* cyanfs_super_flusher_before_flush, the NOP after the writer.
BeforeFlush(i) ==
  /\ DoneFor("after", i)
  /\ IF Failed
     THEN UNCHANGED <<t_unused, flush_extents, writer_current_id,
                      extent_id_flush, task_head>>
     ELSE /\ MoveToFlush(i)
          /\ extent_id_flush' = extent_id
          /\ task_head' = <<[op |-> "after_flush", of |-> i]>> \o task_head
  /\ UNCHANGED <<free_extents, unused_extents, wait_discard_extents,
                 discard_extents, journal_extents, nodes, flags, writers,
                 journal_head, extent_id, extent_id_ondisk, t_live, writing,
                 t_ondisk, locals, device, bug>>

\* Its FLUSH: cyanfs_super_flusher_after_flush.  Writers of the previous epoch
\* make it ask for another FLUSH.
AfterFlush(i, err) ==
  /\ DoneFor("after_flush", i)
  /\ FlushDevice(err)
  /\ IF err \/ Failed
     THEN flags' = flags \cup {"ERROR"} /\ UNCHANGED extent_id_ondisk
     ELSE /\ flush_extents # {} => writers[1 - writer_current_id] # 0
          /\ flags' = IF flush_extents = {} THEN flags ELSE flags \cup {"FLUSH"}
          /\ extent_id_ondisk' = extent_id_flush
  /\ UNCHANGED <<pools, nodes, epochs, journal_head, extent_id, extent_id_flush,
                 task_head, flusher, locals, bug>>

\* __cyanfs_super_discard_extent gives an extent to the discard task, which it
\* starts if there is none, or straight to the free tree.
DiscardExtentsAgain(es) ==
  IF DiscardEnabled
  THEN /\ wait_discard_extents' = wait_discard_extents \cup es
       /\ flags' = flags \cup {"DISCARD_WORKING"}
       /\ task_head' = Append(task_head, [op |-> "discard_begin", of |-> None])
       /\ UNCHANGED free_extents
  ELSE /\ free_extents' = free_extents \cup es
       /\ UNCHANGED <<wait_discard_extents, flags, task_head>>
DiscardExtents(es) ==
  IF DiscardEnabled
  THEN /\ wait_discard_extents' = wait_discard_extents \cup es
       /\ flags' = flags \cup {"DISCARD_WORKING"}
       /\ task_head' = IF "DISCARD_WORKING" \in flags THEN task_head
            ELSE Append(task_head, [op |-> "discard_begin", of |-> None])
       /\ UNCHANGED free_extents
  ELSE /\ free_extents' = free_extents \cup es
       /\ UNCHANGED <<wait_discard_extents, flags, task_head>>

\* With no writer left the flush extents are reclaimed.
AfterFlushReclaim(i) ==
  /\ DoneFor("after_flush", i)
  /\ FlushDevice(FALSE)
  /\ ~Failed
  /\ flush_extents # {} /\ writers[1 - writer_current_id] = 0
  /\ flush_extents' = {}
  /\ extent_id_ondisk' = extent_id_flush
  /\ DiscardExtents(flush_extents)
  /\ UNCHANGED <<unused_extents, discard_extents, journal_extents, nodes,
                 epochs, journal_head, extent_id, extent_id_flush, flusher,
                 locals, bug>>

\* cyanfs_super_flusher_free: extents that could not move yet go back.  The
\* fields of freed memory take their initial values.
FlusherFree(i) ==
  /\ DoneFor("free", i)
  /\ unused_extents' = unused_extents \cup t_unused[i]
  /\ flags' = IF t_unused[i] = {} THEN flags ELSE flags \cup {"FLUSH"}
  /\ t_live' = [t_live EXCEPT ![i] = FALSE]
  /\ t_unused' = [t_unused EXCEPT ![i] = {}]
  /\ t_nop' = [t_nop EXCEPT ![i] = FALSE]
  /\ t_ondisk' = [t_ondisk EXCEPT ![i] = FALSE]
  /\ t_flush_before_write' = [t_flush_before_write EXCEPT ![i] = FALSE]
  /\ UNCHANGED <<free_extents, flush_extents, wait_discard_extents,
                 discard_extents, journal_extents, nodes, epochs, journal_head,
                 cursor, task_head, t_head, t_record, locals, device, bug>>

\* cyanfs_super_discard_extents_begin takes the first contiguous run of the
\* waiting extents, or ends the discard work.
FirstRun(waiting) ==
  {e \in waiting : \A x \in Extent :
     (x < e /\ \E y \in waiting : y <= x) => x \in waiting}
DiscardNext ==
  /\ discard_extents' = FirstRun(wait_discard_extents)
  /\ wait_discard_extents' = wait_discard_extents \ FirstRun(wait_discard_extents)
  /\ IF wait_discard_extents = {}
     THEN /\ flags' = flags \ {"DISCARD_WORKING"}
          /\ UNCHANGED task_head
     ELSE /\ task_head' = Append(task_head, [op |-> "discard_io", of |-> None])
          /\ UNCHANGED flags

DiscardBegin ==
  /\ DoneFor("discard_begin", None)
  /\ DiscardNext
  /\ UNCHANGED <<free_extents, unused_extents, flush_extents, journal_extents,
                 nodes, epochs, journal_head, cursor, flusher, locals, device,
                 bug>>

\* cyanfs_super_discard_extents_done; the error of a DISCARD is ignored.
DiscardDone ==
  /\ DoneFor("discard_io", None)
  /\ free_extents' = free_extents \cup discard_extents
  /\ DiscardNext
  /\ UNCHANGED <<unused_extents, flush_extents, journal_extents, nodes, epochs,
                 journal_head, cursor, flusher, locals, device, bug>>

\* cyanfs_task_copy_on_write_done, with the executor's own flush_new_journal.
CopyDone(f, e, err) ==
  /\ Done([op |-> "copy", of |-> f, node |-> e])
  /\ pending' = pending \ {f}
  /\ IF err
     THEN /\ error' = error \cup {f}
          /\ UNCHANGED <<journal_head, locals, dirty_copies>>
     ELSE /\ journal_head' = Append(journal_head,
               [flush |-> TRUE, unbinds |-> {}, copies |-> {e}])
          /\ dirty_copies' = dirty_copies \cup {e}
          /\ FlushNewJournal(Exec)
          /\ UNCHANGED error
  /\ UNCHANGED <<pools, extents, flags, epochs, cursor, task_head, flusher,
                 dirty_unbinds, volatile, bug>>

\* The callback of a requeued write submits it again.
RequeueForgotten(t) ==
  /\ DoneFor("requeue", t)
  /\ UNCHANGED <<pools, nodes, flags, epochs, journal_head, cursor, task_head,
                 flusher, locals, device, bug>>
RequeueDone(t) ==
  /\ DoneFor("requeue", t)
  /\ pc' = [pc EXCEPT ![t] = "write_start"]
  /\ UNCHANGED <<pools, nodes, flags, epochs, journal_head, cursor, task_head,
                 flusher, file, writer, extent, device, bug>>

-----------------------------------------------------------------------------
TaskDone ==
  \/ \E i \in Flusher :
       \/ \E op \in {"writer", "write"} :
            \/ \E err \in Outcome : WriterFails(op, i, err)
            \/ WriterFinishes(op, i)
            \/ \E n \in 1 .. Len(t_head[i]), next \in BOOLEAN :
                 WriterEncodes(op, i, n, next)
       \/ BeforeWriteFlush(i)
       \/ \E err \in Outcome : BeforeWriteFlushDone(i, err)
       \/ BeforeFlush(i)
       \/ \E err \in Outcome : AfterFlush(i, err)
       \/ AfterFlushReclaim(i)
       \/ FlusherFree(i)
  \/ DiscardBegin
  \/ DiscardDone
  \/ \E f \in File, e \in Extent, err \in Outcome : CopyDone(f, e, err)
  \/ \E t \in Thread : RequeueDone(t)

\* The steps of a caller; a thread may call nothing more, the executor and
\* everything already begun go on.
Step(t) ==
  \/ FlusherCheck(t)
  \/ FlusherNothing(t)
  \/ \E i \in Flusher : FlusherStart(t, i)
  \/ \E f \in File : WriteMapped(t, f) \/ WriteUnmapped(t, f)
  \/ WriteFails(t)
  \/ WriteNoSpace(t)
  \/ WriteRaced(t)
  \/ WriteAlloc(t)
  \/ WriteDone(t)
  \/ WriteRequeue(t)
  \/ \E f \in File : DiscardCheck(t, f) \/ Truncate(t, f) \/ Delete(t, f)
  \/ DiscardUnmap(t)
  \/ MayCall(t, "sync") /\ SuperFlush(t, TRUE)

\* The periodic flush_work of the Linux backend.
FlushWork == SuperFlush(Timer, FALSE)

Next ==
  /\ ~bug
  /\ \/ GetTask
     \/ TaskDone
     \/ \E t \in Caller : Step(t)
     \/ FlushWork

Spec == Init /\ [][Next]_vars

\* The executor thread, the delayed work and every handler and lock section
\* that has begun make progress; nobody is obliged to call anything.
FairSpec ==
  /\ Spec
  /\ WF_vars(GetTask) /\ WF_vars(TaskDone)
  /\ WF_vars(FlushWork)
  /\ \A t \in Caller : WF_vars(pc[t] # "idle" /\ Step(t))

-----------------------------------------------------------------------------
(* Properties.                                                             *)

PoolsType ==
  /\ free_extents \subseteq Extent /\ unused_extents \subseteq Extent
  /\ flush_extents \subseteq Extent /\ wait_discard_extents \subseteq Extent
  /\ discard_extents \subseteq Extent /\ journal_extents \subseteq Extent
NodesType ==
  /\ extents \in [File -> Extent \cup {NoExtent}]
  /\ pending \subseteq File /\ error \subseteq File
EpochsType == writers \in [{0, 1} -> Nat] /\ writer_current_id \in {0, 1}
CursorType == {extent_id, extent_id_flush, extent_id_ondisk} \subseteq Extent
QueueType ==
  /\ journal_head \in Seq(Entry)
  /\ task_head \in Seq(Task) /\ active \in Task \cup {NoTask}
FlusherType ==
  /\ t_live \in [Flusher -> BOOLEAN] /\ t_unused \in [Flusher -> SUBSET Extent]
  /\ t_head \in [Flusher -> Seq(Entry)] /\ t_record \in [Flusher -> Seq(Entry)]
  /\ t_nop \in [Flusher -> BOOLEAN] /\ t_ondisk \in [Flusher -> BOOLEAN]
  /\ t_flush_before_write \in [Flusher -> BOOLEAN]
LocalsType ==
  /\ pc \in [Caller -> PC] /\ file \in [Caller -> File \cup {None}]
  /\ writer \in [Caller -> {0, 1, NoWriter}]
  /\ extent \in [Caller -> Extent \cup {NoExtent}]
DeviceType ==
  /\ dirty_unbinds \subseteq Extent /\ dirty_copies \subseteq Extent
  /\ volatile \subseteq Extent
FlagsType == flags \subseteq Flag /\ bug \in BOOLEAN
TypeOK ==
  /\ PoolsType /\ NodesType /\ EpochsType /\ CursorType /\ QueueType
  /\ FlusherType /\ LocalsType /\ DeviceType /\ FlagsType

\* The task at a place of the queue; the running one is at 0.
TaskAt(k) == IF k = 0 THEN active ELSE task_head[k]
MappedExtents == {extents[f] : f \in File} \ {NoExtent}
HeldUnused == UNION {t_unused[i] : i \in Flusher}

\* However the trees are spliced by flushers that start, move, give back and
\* overlap, every extent is in exactly one of them: none is leaked and none
\* is handed out twice.
ExtentsPartitioned ==
  /\ Extent = free_extents \cup unused_extents \cup flush_extents
               \cup wait_discard_extents \cup discard_extents
               \cup journal_extents \cup HeldUnused \cup MappedExtents
  /\ free_extents \cap (unused_extents \cup flush_extents \cup wait_discard_extents
       \cup discard_extents \cup journal_extents \cup HeldUnused \cup MappedExtents) = {}
  /\ unused_extents \cap (flush_extents \cup wait_discard_extents
       \cup discard_extents \cup journal_extents \cup HeldUnused \cup MappedExtents) = {}
  /\ flush_extents \cap (wait_discard_extents \cup discard_extents
       \cup journal_extents \cup HeldUnused \cup MappedExtents) = {}
  /\ wait_discard_extents \cap (discard_extents
       \cup journal_extents \cup HeldUnused \cup MappedExtents) = {}
  /\ discard_extents \cap (journal_extents \cup HeldUnused \cup MappedExtents) = {}
  /\ journal_extents \cap (HeldUnused \cup MappedExtents) = {}
  /\ HeldUnused \cap MappedExtents = {}
  /\ \A i, j \in Flusher : i # j => t_unused[i] \cap t_unused[j] = {}
  /\ \A f, g \in File : f # g /\ extents[f] # NoExtent => extents[f] # extents[g]

\* While a write is in its handler, the extent it targets may be unmapped by a
\* racing discard, but it is not discarded, freed, linked into the journal or
\* given to another file before the handler returns: the point of the two
\* writer counters.
NoWriterOnReclaimedExtent ==
  \A t \in Thread : InHandler(t) =>
    /\ extent[t] \notin free_extents \cup wait_discard_extents
                        \cup discard_extents \cup journal_extents
    /\ \A f \in File \ {file[t]} : extents[f] # extent[t]

\* An extent is reused, and the device told to discard it, only when the
\* record that unbinds it is durable: after a crash no file can still map an
\* extent whose content is gone.
DurableBeforeReuse ==
  volatile \subseteq unused_extents \cup HeldUnused \cup flush_extents

\* The record with the BIND of a copy on write is sent to the device only
\* after a FLUSH made the copied data durable, even when the copy ended while
\* other flushers were queued: after a crash a bound copy is a whole copy.
CopyDurableBeforeBind ==
  \A i \in Flusher :
    active = [op |-> "write", of |-> i] /\ ~t_nop[i] =>
      CopiesOf(t_record[i]) \cap dirty_copies = {}

\* CYANFS_BUG_ON(n->v.pending) of __cyanfs_file_unmap_extent never fires: no
\* file is truncated or deleted while a copy into it is queued.
NoBug == ~bug

\* The executor always has a discard task queued or running while
\* DISCARD_WORKING is set, and never two, so no waiting extent is forgotten and
\* no DISCARD is sent for extents that another one has freed.
DiscardTaskUnique ==
  LET At == {k \in 0 .. Len(task_head) : TaskAt(k) \in DiscardTask}
  IN /\ IF "DISCARD_WORKING" \in flags THEN \E k \in At : At = {k} ELSE At = {}
     /\ wait_discard_extents \cup discard_extents # {} => "DISCARD_WORKING" \in flags

\* Every extent that a file gives up is free again some day, unless the super
\* fails: the FLUSH flag is never lost between a flusher that could not move or
\* reclaim its extents and the next one.
EveryExtentReclaimed ==
  \A e \in Extent :
    e \in unused_extents \cup HeldUnused \cup flush_extents
            \cup wait_discard_extents \cup discard_extents
      ~> e \in free_extents \/ Failed

\* A write that was requeued behind a copy is submitted again.
RequeuedWriteResumes == \A t \in Thread : pc[t] = "wait" ~> pc[t] # "wait"

=============================================================================
