------------------------- MODULE CyanfsExtents_ind --------------------------
(***************************************************************************)
(* The inductive invariants of the life of an extent.                      *)
(***************************************************************************)
EXTENDS CyanfsExtents

-----------------------------------------------------------------------------
(* Type correctness, apart from the writer counters: that they are natural *)
(* numbers follows from what they count.                                   *)

Types ==
  /\ PoolsType /\ NodesType /\ CursorType /\ QueueType /\ FlusherType
  /\ LocalsType /\ DeviceType /\ FlagsType

\* The locals agree with the place of the caller in its operation.
LocalsInv ==
  \A t \in Caller :
    /\ pc[t] \in {"submit", "submit_new", "io_error"} => writer[t] # NoWriter
    /\ writer[t] # NoWriter =>
         /\ pc[t] \in {"submit", "submit_new", "io_error", "requeue"}
         /\ extent[t] \in Extent
    /\ pc[t] \in {"write_start", "write_alloc", "submit", "submit_new",
                  "io_error", "requeue", "wait", "discard_upgrade"} =>
         t \in Thread /\ file[t] \in File

\* A thread has at most one requeue task, and waits while it has one.
Queued(x) == \E k \in 0 .. Len(task_head) : TaskAt(k) = x
AtMostOnce(S) ==
  \A k, l \in 0 .. Len(task_head) : TaskAt(k) \in S /\ TaskAt(l) \in S => k = l
RequeueOf(t) == [op |-> "requeue", of |-> t]
RequeueInv ==
  \A t \in Thread :
    /\ AtMostOnce({RequeueOf(t)})
    /\ Queued(RequeueOf(t)) => pc[t] = "wait"

\* There is one discard task exactly when the flag is set, and the one that
\* begins finds no extents being discarded.
DiscardInv ==
  /\ AtMostOnce(DiscardTask)
  /\ \A x \in DiscardTask : Queued(x) => "DISCARD_WORKING" \in flags
  /\ "DISCARD_WORKING" \in flags => \E x \in DiscardTask : Queued(x)
  /\ "DISCARD_WORKING" \notin flags => wait_discard_extents \cup discard_extents = {}
  /\ Queued([op |-> "discard_begin", of |-> None]) => discard_extents = {}

\* The counters count the threads that hold them; only extents that wait for
\* the writers of the previous epoch let that epoch have any.
Holders(k) == {t \in Thread : writer[t] = k}
Counts(n, S) ==
  \E list \in [1 .. n -> S] :
    /\ \A x \in S : \E m \in 1 .. n : list[m] = x
    /\ \A m, l \in 1 .. n : list[m] = list[l] => m = l
EpochInv ==
  /\ writer_current_id \in {0, 1} /\ writers \in [{0, 1} -> Nat]
  /\ \A k \in {0, 1} : Counts(writers[k], Holders(k))
  /\ flush_extents = {} => Holders(1 - writer_current_id) = {}

\* Where the extent of a counted writer can be.
HandlerInv ==
  \A t \in Thread : writer[t] # NoWriter =>
    \/ extents[file[t]] = extent[t]
    \/ extent[t] \in unused_extents \cup HeldUnused
    \/ extent[t] \in flush_extents /\ writer[t] = 1 - writer_current_id

DeadInv == \A i \in Flusher : ~t_live[i] => t_unused[i] = {}

IInv ==
  /\ Types /\ LocalsInv /\ RequeueInv /\ DiscardInv /\ EpochInv /\ HandlerInv
  /\ DeadInv /\ ExtentsPartitioned

Working == "DISCARD_WORKING" \in flags

\* The tasks that are neither a requeue nor a discard.
Ordinary == {x \in Task : x.op # "requeue" /\ x \notin DiscardTask}

-----------------------------------------------------------------------------
(* The order of the tasks of a flusher.                                    *)

Of(op, i) == [op |-> op, of |-> i]
Place == 0 .. Len(task_head)

\* A WRITE is at the head of the queue: only its own FLUSH may be before it.
WriteFirst ==
  \A i \in Flusher : \A k \in Place : TaskAt(k) = Of("write", i) =>
    \A l \in 0 .. k - 1 : TaskAt(l) \in {NoTask, Of("before", i), Of("before_flush", i)}

\* The FLUSH of flush_before_write is followed by the WRITE it is for.
BeforeNext ==
  \A i \in Flusher : \A k \in Place :
    TaskAt(k) \in {Of("before", i), Of("before_flush", i)} =>
      k + 1 \in Place /\ TaskAt(k + 1) = Of("write", i)

\* The one NOP that starts the writer is ahead of its WRITEs and of the FLUSH
\* after them.
WriterAhead ==
  \A i \in Flusher : \A k, l \in Place :
    /\ TaskAt(k) = Of("writer", i)
    /\ TaskAt(l) \in {Of("writer", i), Of("write", i), Of("after", i), Of("after_flush", i)}
    => k <= l

\* A flusher is freed by its last task.
FreeLast ==
  \A i \in Flusher : \A op \in FlusherOp : \A k, l \in Place :
    TaskAt(k) = Of("free", i) /\ TaskAt(l) = Of(op, i) => l <= k

\* Only a flusher that is allocated has tasks.
TasksLive ==
  \A i \in Flusher : \A op \in FlusherOp : Queued(Of(op, i)) => t_live[i]

QueueOrder == WriteFirst /\ BeforeNext /\ WriterAhead /\ FreeLast /\ TasksLive

-----------------------------------------------------------------------------
(* The invariants about durability.                                        *)

\* What a flusher has left to write has a task that will write it.  A WRITE
\* becomes a NOP only in a super that failed.
WriterState ==
  \A i \in Flusher :
    /\ t_head[i] # <<>> => Queued(Of("writer", i)) \/ Queued(Of("write", i))
    /\ t_record[i] # <<>> => Queued(Of("write", i))
    /\ t_nop[i] => Failed
    /\ Queued(Of("writer", i)) \/ ~t_live[i] => ~t_flush_before_write[i]

\* The entry of a copy asks for a FLUSH.
CopiesFlush(entries) == \A k \in DOMAIN entries : entries[k].copies # {} => entries[k].flush

\* Entries of copies ask for a FLUSH, and from the FLUSH of a flusher to its
\* last WRITE no copied data is in the write cache.
FlushedForWrite(i) ==
  /\ t_flush_before_write[i] /\ Queued(Of("write", i)) /\ ~t_nop[i]
  /\ ~Queued(Of("before", i)) /\ ~Queued(Of("before_flush", i))
CopyInv ==
  /\ CopiesFlush(journal_head)
  /\ \A i \in Flusher :
       /\ CopiesFlush(t_head[i]) /\ CopiesFlush(t_record[i])
       /\ AnyFlush(t_record[i]) => t_flush_before_write[i]
       /\ FlushedForWrite(i) => dirty_copies = {}

\* Unless the super failed, an extent whose unbinding has not reached the device
\* is unused and its entry still in the journal's list, or both are with a
\* flusher; its extents may be waiting for a FLUSH only while it writes.
Pending(i) == UnbindsOf(t_head[i]) \cup UnbindsOf(t_record[i])
UnbindInv ==
  ~Failed => \A e \in volatile \ dirty_unbinds :
    \/ e \in unused_extents \cap UnbindsOf(journal_head)
    \/ \E i \in Flusher :
         /\ e \in Pending(i)
         /\ e \in t_unused[i] \/ (e \in flush_extents /\ Queued(Of("write", i)))

\* A pending copy is queued, and the write that started it is on its way to the
\* queue or waits behind it, unless its requeue failed.
CopyAt(k, f) == \E e \in Extent : TaskAt(k) = [op |-> "copy", of |-> f, node |-> e]
HasWriter(f) ==
  \E t \in Thread, k \in Place :
    /\ file[t] = f /\ CopyAt(k, f)
    /\ \/ pc[t] = "requeue"
       \/ \E l \in k + 1 .. Len(task_head) : TaskAt(l) = RequeueOf(t)
PendingInv ==
  /\ pending \subseteq Cow
  /\ \A t \in Caller : pc[t] = "discard_upgrade" => file[t] \notin Cow
  /\ RequeueMayFail \/ (~bug /\ \A f \in pending : HasWriter(f))

DInv == QueueOrder /\ WriterState /\ CopyInv /\ UnbindInv /\ DurableBeforeReuse

=============================================================================
