------------------------- MODULE CyanfsExtents_inv --------------------------
(***************************************************************************)
(* Type correctness of the life of an extent, and every step of the        *)
(* callers and of the executor preserves the inductive invariant.          *)
(***************************************************************************)
EXTENDS CyanfsExtents_ind, TLAPS

\* The leaves are for Zenon; those that need arithmetic cite SMTT.
USE ZenonT(60)

-----------------------------------------------------------------------------
(* Arithmetic, flags and sequences, with nothing else in sight.            *)

\* The two epochs of cyanfs_writer_get: each is the other's other, neither is
\* NoWriter.
LEMMA TwoEpochs ==
  \A k \in {0, 1} : /\ 1 - k \in {0, 1} /\ 1 - k # k /\ 1 - (1 - k) = k
                    /\ k # NoWriter /\ \A l \in {0, 1} : l # 1 - k => l = k
BY SMT DEF NoWriter

\* NoExtent is not the number of an extent, and 0 is one.
LEMMA ExtentFacts == NoExtent \notin Extent /\ 0 \in Extent
BY SMT, ExtentsAssumption DEF Extent, NoExtent

\* The other flags of the super say nothing of the discard work.
LEMMA OtherFlags ==
  ASSUME NEW S, NEW T \in {S, S \cup {"ERROR"}, S \cup {"FLUSH"}, S \ {"FLUSH"}}
  PROVE  ("DISCARD_WORKING" \in T) = ("DISCARD_WORKING" \in S)
BY SMT

\* The empty sequence, and sequences of one element.
LEMMA ShortSeqs ==
  ASSUME NEW S
  PROVE  /\ <<>> \in Seq(S) /\ Len(<<>>) = 0 /\ 0 .. Len(<<>>) = {0}
         /\ \A k \in 1 .. Len(<<>>) : FALSE
         /\ \A x \in S : <<x>> \in Seq(S) /\ \A k \in 1 .. Len(<<x>>) : <<x>>[k] = x
BY SMT

\* The empty sequence is neutral.
LEMMA ConcatEmpty ==
  ASSUME NEW S, NEW q \in Seq(S)
  PROVE  q \o <<>> = q /\ <<>> \o q = q /\ (<<>> \o q) \o <<>> = q
BY SMT

\* The places of the queue behind the running task.
LEMMA QueuePlaces ==
  ASSUME NEW S, NEW q \in Seq(S)
  PROVE  /\ Len(q) \in Nat /\ 0 \in 0 .. Len(q)
         /\ \A k \in 1 .. Len(q) : k \in 0 .. Len(q) /\ k # 0 /\ q[k] \in S
BY SMT

-----------------------------------------------------------------------------
(* Type correctness.                                                       *)

\* A group of variables that an action leaves alone keeps its type.
LEMMA Frame ==
  /\ PoolsType /\ UNCHANGED pools => PoolsType'
  /\ NodesType /\ UNCHANGED nodes => NodesType'
  /\ CursorType /\ UNCHANGED cursor => CursorType'
  /\ QueueType /\ UNCHANGED <<journal_head, tasks>> => QueueType'
  /\ FlusherType /\ UNCHANGED flusher => FlusherType'
  /\ LocalsType /\ UNCHANGED locals => LocalsType'
  /\ DeviceType /\ UNCHANGED device => DeviceType'
  /\ FlagsType /\ UNCHANGED <<flags, bug>> => FlagsType'
<1>1. PoolsType /\ UNCHANGED pools => PoolsType'
  BY DEF PoolsType, pools
<1>2. NodesType /\ UNCHANGED nodes => NodesType'
  BY DEF NodesType, nodes
<1>3. CursorType /\ UNCHANGED cursor => CursorType'
  BY DEF CursorType, cursor
<1>4. QueueType /\ UNCHANGED <<journal_head, tasks>> => QueueType'
  BY DEF QueueType, tasks
<1>5. FlusherType /\ UNCHANGED flusher => FlusherType'
  BY DEF FlusherType, flusher, writing
<1>6. LocalsType /\ UNCHANGED locals => LocalsType'
  BY DEF LocalsType, locals
<1>7. DeviceType /\ UNCHANGED device => DeviceType'
  BY DEF DeviceType, device
<1>8. FlagsType /\ UNCHANGED <<flags, bug>> => FlagsType'
  BY DEF FlagsType
<1> QED BY <1>1, <1>2, <1>3, <1>4, <1>5, <1>6, <1>7, <1>8

\* The state after cyanfs_super_init and the load of the tree is well typed.
LEMMA TypesInit == Init => Types
<1> SUFFICES ASSUME Init PROVE Types
  OBVIOUS
<1> USE ExtentsAssumption DEF Init
<1>1. PoolsType /\ NodesType /\ CursorType /\ DeviceType
  BY SMTT(60) DEF PoolsType, NodesType, CursorType, DeviceType, Extent
<1>2. QueueType
  BY SMTT(60) DEF QueueType
<1>5. FlagsType
  BY DEF FlagsType
<1>3. FlusherType
  BY SMTT(60) DEF FlusherType
<1>4. LocalsType
  BY DEF LocalsType, PC
<1> QED BY <1>1, <1>2, <1>3, <1>4, <1>5 DEF Types

\* The tasks that a flusher, a write or the discard work put in the queue.
LEMMA TaskTypes ==
  /\ \A op \in FlusherOp, i \in Flusher : [op |-> op, of |-> i] \in Task
  /\ \A f \in File, e \in Extent : [op |-> "copy", of |-> f, node |-> e] \in Task
  /\ \A t \in Thread : [op |-> "requeue", of |-> t] \in Task
  /\ [op |-> "discard_begin", of |-> None] \in Task
  /\ [op |-> "discard_io", of |-> None] \in Task
BY DEF Task, DiscardTask

\* The end of an operation keeps the types of the locals.
LEMMA ReturnTypes ==
  ASSUME LocalsType, NEW t \in Caller, NEW to \in PC, ReturnTo(t, to)
  PROVE  LocalsType'
BY DEF LocalsType, ReturnTo

\* A write that found its extent enters the current epoch (cyanfs_writer_get).
LEMMA MappedTypes ==
  ASSUME LocalsType, EpochsType, NEW t \in Caller, NEW f \in File,
         NEW e \in Extent \cup {NoExtent}, NEW to \in PC, Mapped(t, f, e, to)
  PROVE  LocalsType'
BY DEF LocalsType, EpochsType, Mapped

\* Sequences made by adding at either end.
LEMMA SeqFacts ==
  ASSUME NEW S, NEW q \in Seq(S)
  PROVE  /\ <<>> \in Seq(S)
         /\ \A x \in S : <<x>> \in Seq(S) /\ Append(q, x) \in Seq(S)
         /\ \A p \in Seq(S) : p \o q \in Seq(S) /\ q \o p \in Seq(S)
BY SMTT(60)

\* cyanfs_super_flusher_start.
LEMMA TypesFlusher ==
  ASSUME Types, NEW t \in Caller,
         \/ FlusherCheck(t) \/ FlusherNothing(t)
         \/ SuperFlush(t, TRUE) \/ SuperFlush(t, FALSE)
  PROVE  Types'
<1>1. LocalsType'
  <2>1. CASE FlusherCheck(t) \/ SuperFlush(t, TRUE) \/ SuperFlush(t, FALSE)
    BY <2>1 DEF LocalsType, FlusherCheck, SuperFlush, FlusherAt, PC, Types
  <2>2. CASE FlusherNothing(t)
    BY <2>2, ReturnTypes DEF FlusherNothing, Return, PC, Types
  <2> QED BY <2>1, <2>2
<1>2. UNCHANGED <<pools, nodes, flags, journal_head, cursor, tasks, flusher,
                  device, bug>>
  BY DEF FlusherCheck, SuperFlush, FlusherNothing
<1> QED BY <1>1, <1>2, Frame DEF Types

\* cyanfs_super_flusher_start detaches the lists and queues the tasks.
LEMMA TypesFlusherStart ==
  ASSUME Types, NEW t \in Caller, NEW i \in Flusher, FlusherStart(t, i)
  PROVE  Types'
<1> USE DEF FlusherStart, FlusherTasks
<1>1. LocalsType'
  BY ReturnTypes DEF Return, PC, Types
<1>2. PoolsType'
  BY DEF Types, PoolsType
<1>3. FlusherType'
  <2>1. t_live' \in [Flusher -> BOOLEAN] /\ t_ondisk' \in [Flusher -> BOOLEAN]
    BY DEF Types, FlusherType
  <2>2. t_unused' \in [Flusher -> SUBSET Extent] /\ t_head' \in [Flusher -> Seq(Entry)]
    BY DEF Types, FlusherType, PoolsType, QueueType
  <2> QED BY <2>1, <2>2 DEF Types, FlusherType
<1>4. FlagsType'
  BY DEF Types, FlagsType
<1>5. QueueType'
  <2> DEFINE a == IF journal_head = <<>> THEN <<>> ELSE <<[op |-> "writer", of |-> i]>>
             b == IF pc[t] = "flush_start_ondisk" THEN <<[op |-> "after", of |-> i]>>
                  ELSE <<>>
             c == <<[op |-> "free", of |-> i]>>
  <2>1. /\ [op |-> "writer", of |-> i] \in Task
        /\ [op |-> "after", of |-> i] \in Task
        /\ [op |-> "free", of |-> i] \in Task
    BY TaskTypes DEF FlusherOp
  <2>2. a \in Seq(Task) /\ b \in Seq(Task) /\ c \in Seq(Task)
    BY <2>1, ShortSeqs
  <2>3. task_head' = task_head \o (a \o b \o c)
    OBVIOUS
  <2> HIDE DEF a, b, c
  <2>4. task_head' \in Seq(Task)
    BY <2>2, <2>3, SeqFacts DEF Types, QueueType
  <2> QED BY <2>4, SeqFacts DEF Types, QueueType
<1>6. UNCHANGED <<nodes, cursor, device>>
  OBVIOUS
<1> QED BY <1>1, <1>2, <1>3, <1>4, <1>5, <1>6, Frame DEF Types

\* cyanfs_write up to the handler.
LEMMA TypesWrite ==
  ASSUME Types, EpochsType, NEW t \in Caller, NEW f \in File,
         \/ WriteMapped(t, f) \/ WriteUnmapped(t, f) \/ WriteFails(t)
         \/ WriteNoSpace(t) \/ (file[t] \in File /\ WriteRaced(t))
         \/ WriteDone(t) \/ DiscardCheck(t, f)
  PROVE  Types'
<1> USE DEF Types
<1>1. LocalsType'
  <2>1. CASE WriteMapped(t, f) \/ (file[t] \in File /\ WriteRaced(t))
    <3>1. \A g \in File : HandlerOf(g) \in PC /\ extents[g] \in Extent \cup {NoExtent}
      BY DEF HandlerOf, PC, NodesType
    <3> QED BY <2>1, <3>1, MappedTypes DEF WriteMapped, WriteRaced
  <2>2. CASE WriteUnmapped(t, f) \/ DiscardCheck(t, f)
    BY <2>2 DEF WriteUnmapped, DiscardCheck, LocalsType, PC
  <2>3. CASE WriteFails(t) \/ WriteNoSpace(t) \/ WriteDone(t)
    BY <2>3, ReturnTypes DEF WriteFails, WriteNoSpace, WriteDone, Return, FlushNewJournal, PC
  <2> QED BY <2>1, <2>2, <2>3
<1>2. UNCHANGED <<pools, nodes, flags, journal_head, cursor, tasks, flusher,
                  device, bug>>
  BY DEF WriteMapped, WriteUnmapped, WriteFails, WriteNoSpace, WriteRaced,
         WriteDone, DiscardCheck
<1> QED BY <1>1, <1>2, Frame

\* A write allocates an extent for an unmapped block.
LEMMA TypesWriteAlloc ==
  ASSUME Types, EpochsType, NEW t \in Caller, file[t] \in File, WriteAlloc(t)
  PROVE  Types'
<1>1. PICK e \in free_extents :
        /\ free_extents' = free_extents \ {e}
        /\ extents' = [extents EXCEPT ![file[t]] = e]
        /\ IF file[t] \in Cow
           THEN /\ pending' = pending \cup {file[t]}
                /\ task_head' = Append(task_head, [op |-> "copy", of |-> file[t], node |-> e])
                /\ Mapped(t, file[t], e, "requeue")
                /\ UNCHANGED journal_head
           ELSE /\ journal_head' = Append(journal_head,
                     [flush |-> FALSE, unbinds |-> {}, copies |-> {}])
                /\ Mapped(t, file[t], e, "submit_new")
                /\ UNCHANGED <<pending, task_head>>
  BY DEF WriteAlloc
<1> USE <1>1
<1>2. e \in Extent
  BY DEF Types, PoolsType
<1>3. LocalsType'
  BY <1>2, MappedTypes DEF PC, Types
<1>4. PoolsType'
  BY DEF WriteAlloc, Types, PoolsType
<1>5. NodesType'
  BY <1>2 DEF WriteAlloc, Types, NodesType
<1>6. QueueType'
  <2>1. [op |-> "copy", of |-> file[t], node |-> e] \in Task
    BY <1>2, TaskTypes
  <2>2. [flush |-> FALSE, unbinds |-> {}, copies |-> {}] \in Entry
    BY DEF Entry
  <2>3. journal_head \in Seq(Entry) /\ task_head \in Seq(Task)
    BY DEF Types, QueueType
  <2>4. journal_head' \in Seq(Entry)
    BY <2>2, <2>3, SeqFacts
  <2>5. task_head' \in Seq(Task)
    BY <2>1, <2>3, SeqFacts
  <2> QED BY <2>4, <2>5 DEF WriteAlloc, Types, QueueType
<1>7. UNCHANGED <<flags, cursor, flusher, device, bug>>
  BY DEF WriteAlloc
<1> QED BY <1>3, <1>4, <1>5, <1>6, <1>7, Frame DEF Types

\* A write waits for its requeue.
LEMMA TypesRequeue ==
  ASSUME Types, NEW t \in Thread, WriteRequeue(t)
  PROVE  Types'
<1>1. t \in Caller
  BY DEF Caller
<1>2. LocalsType'
  <2>1. CASE Return(t)
    BY <1>1, <2>1, ReturnTypes DEF Return, PC, Types
  <2>2. CASE ~Return(t)
    BY <1>1, <2>2 DEF WriteRequeue, LocalsType, PC, Types
  <2> QED BY <2>1, <2>2
<1>3. QueueType'
  <2>1. task_head \in Seq(Task) /\ [op |-> "requeue", of |-> t] \in Task
    BY TaskTypes DEF Types, QueueType
  <2>2. task_head' \in Seq(Task)
    BY SMTT(60), <2>1, SeqFacts DEF WriteRequeue
  <2> QED BY <2>2 DEF WriteRequeue, Types, QueueType
<1>4. UNCHANGED <<pools, nodes, flags, cursor, flusher, device, bug>>
  BY DEF WriteRequeue
<1> QED BY <1>2, <1>3, <1>4, Frame DEF Types

\* Discard, truncate and delete.
LEMMA TypesUnmap ==
  ASSUME Types, NEW f \in File, NEW flush \in BOOLEAN, Unmap(f, flush),
         UNCHANGED <<free_extents, flush_extents, wait_discard_extents,
                     discard_extents, journal_extents, tasks, dirty_unbinds,
                     dirty_copies, flags>>
  PROVE  PoolsType' /\ NodesType' /\ QueueType' /\ DeviceType' /\ FlagsType'
<1>1. {extents[f]} \ {NoExtent} \subseteq Extent
  BY DEF Types, NodesType
<1> USE <1>1
<1>2. PoolsType'
  BY DEF Unmap, Types, PoolsType
<1>3. NodesType'
  BY DEF Unmap, Types, NodesType
<1>4. DeviceType'
  BY DEF Unmap, Types, DeviceType
<1>5. QueueType'
  <2>1. [flush |-> flush, unbinds |-> {extents[f]} \ {NoExtent}, copies |-> {}] \in Entry
    BY DEF Entry
  <2>2. /\ journal_head' = Append(journal_head,
             [flush |-> flush, unbinds |-> {extents[f]} \ {NoExtent}, copies |-> {}])
        /\ UNCHANGED <<task_head, active>>
    BY DEF Unmap, tasks
  <2>3. journal_head' \in Seq(Entry)
    BY <2>1, <2>2, SeqFacts DEF Types, QueueType
  <2> QED BY <2>2, <2>3 DEF Types, QueueType
<1>6. FlagsType'
  BY SMTT(60) DEF Unmap, Types, FlagsType
<1> QED BY <1>2, <1>3, <1>4, <1>5, <1>6

\* A discard, a truncation or a deletion unmaps the block of a file.
LEMMA TypesDiscard ==
  ASSUME Types, NEW t \in Caller, NEW f \in File,
         \/ file[t] \in File /\ DiscardUnmap(t)
         \/ Truncate(t, f) \/ Delete(t, f)
  PROVE  Types'
<1>1. LocalsType'
  BY ReturnTypes DEF DiscardUnmap, Truncate, Delete, TruncateOrDelete, Return,
                     FlushNewJournal, PC, Types
<1>2. PoolsType' /\ NodesType' /\ QueueType' /\ DeviceType' /\ FlagsType'
  <2>1. CASE file[t] \in File /\ DiscardUnmap(t)
    <3>1. CASE UNCHANGED <<nodes, unused_extents, volatile, journal_head, bug>>
      <4>1. UNCHANGED <<pools, nodes, journal_head, tasks, device, flags, bug>>
        BY <2>1, <3>1 DEF DiscardUnmap, pools, device
      <4> QED BY <4>1, Frame DEF Types
    <3>2. CASE Unmap(file[t], TRUE)
      BY <2>1, <3>2, TypesUnmap DEF DiscardUnmap
    <3> QED BY <2>1, <3>1, <3>2 DEF DiscardUnmap
  <2>2. CASE Truncate(t, f)
    BY <2>2, TypesUnmap DEF Truncate, TruncateOrDelete
  <2>3. CASE Delete(t, f)
    BY <2>3, TypesUnmap DEF Delete, TruncateOrDelete
  <2> QED BY <2>1, <2>2, <2>3
<1>3. UNCHANGED <<cursor, flusher>>
  BY DEF DiscardUnmap, Truncate, Delete, TruncateOrDelete
<1> QED BY <1>1, <1>2, <1>3, Frame DEF Types

\* Both halves of a cut sequence are sequences over the same set.
LEMMA SubSeqFacts ==
  ASSUME NEW S, NEW q \in Seq(S), NEW n \in 1 .. Len(q)
  PROVE  SubSeq(q, 1, n) \in Seq(S) /\ SubSeq(q, n + 1, Len(q)) \in Seq(S)
BY SMTT(60)

\* The extents unbound by journal entries are extents.
LEMMA UnbindsTypes ==
  ASSUME NEW q \in Seq(Entry)
  PROVE  UnbindsOf(q) \subseteq Extent
<1>1. \A k \in DOMAIN q : q[k] \in Entry
  BY SMTT(60)
<1>2. \A x \in Entry : x.unbinds \subseteq Extent
  BY DEF Entry
<1> QED BY <1>1, <1>2 DEF UnbindsOf

\* The executor takes a task.
LEMMA TypesGetTask ==
  ASSUME Types, GetTask
  PROVE  Types'
<1>1. task_head \in Seq(Task) /\ task_head # <<>>
  BY DEF GetTask, Types, QueueType
<1>2. Head(task_head) \in Task /\ Tail(task_head) \in Seq(Task)
  BY SMTT(60), <1>1
<1>3. QueueType'
  BY <1>2 DEF GetTask, Types, QueueType
<1>4. UNCHANGED <<pools, nodes, flags, cursor, flusher, locals, device, bug>>
  BY DEF GetTask
<1> QED BY <1>3, <1>4, Frame DEF Types

\* cyanfs_journal_writer_encode.
LEMMA TypesWritten ==
  ASSUME Types, NEW i \in Flusher, NEW op, NEW err, Written(op, i, err)
  PROVE  /\ NodesType' /\ LocalsType' /\ DeviceType'
         /\ active' \in Task \cup {NoTask} /\ journal_head' \in Seq(Entry)
         /\ bug' \in BOOLEAN
<1>1. DeviceType'
  <2>1. UnbindsOf(t_record[i]) \subseteq Extent
    BY UnbindsTypes DEF Types, FlusherType
  <2> QED BY <2>1 DEF Written, Types, DeviceType
<1>2. UNCHANGED <<nodes, locals>>
  BY DEF Written
<1>3. NodesType' /\ LocalsType'
  BY <1>2, Frame DEF Types
<1>4. active' \in Task \cup {NoTask} /\ journal_head' \in Seq(Entry)
  BY DEF Written, DoneFor, Done, Types, QueueType
<1>5. bug' \in BOOLEAN
  BY DEF Written, Types, FlagsType
<1> QED BY <1>1, <1>3, <1>4, <1>5

\* The journal writer of a flusher fails or finishes.
LEMMA TypesWriterEnds ==
  ASSUME Types, NEW i \in Flusher, NEW op, NEW err,
         WriterFails(op, i, err) \/ WriterFinishes(op, i)
  PROVE  Types'
<1>1. PICK e : Written(op, i, e)
  BY DEF WriterFails, WriterFinishes
<1>2. /\ NodesType' /\ LocalsType' /\ DeviceType'
      /\ active' \in Task \cup {NoTask} /\ journal_head' \in Seq(Entry)
      /\ bug' \in BOOLEAN
  BY <1>1, TypesWritten
<1>3. UNCHANGED <<pools, cursor, task_head>>
  BY <1>1 DEF WriterFails, WriterFinishes, Written, pools, cursor
<1>4. QueueType'
  BY <1>2, <1>3 DEF Types, QueueType
<1>5. FlagsType'
  <2>1. flags' \subseteq Flag
    BY ZenonT(40) DEF WriterFails, WriterFinishes, Types, FlagsType, Flag
  <2> QED BY <2>1, <1>2 DEF FlagsType
<1>6. FlusherType'
  <2>0. <<>> \in Seq(Entry)
    BY SMTT(60)
  <2>1. /\ t_head' \in [Flusher -> Seq(Entry)]
        /\ t_record' \in [Flusher -> Seq(Entry)]
    <3>1. CASE WriterFails(op, i, err)
      BY <2>0, <3>1 DEF WriterFails, Types, FlusherType
    <3>2. CASE WriterFinishes(op, i)
      BY <2>0, <3>2 DEF WriterFinishes, Types, FlusherType
    <3> QED BY <3>1, <3>2
  <2>2. UNCHANGED <<t_live, t_unused, t_ondisk, t_nop, t_flush_before_write>>
    BY <1>1 DEF WriterFails, WriterFinishes, Written
  <2> QED BY <2>1, <2>2 DEF Types, FlusherType
<1> QED BY <1>2, <1>3, <1>4, <1>5, <1>6, Frame DEF Types

\* The journal writer of a flusher encodes entries into a page.
LEMMA TypesWriterEncodes ==
  ASSUME Types, NEW i \in Flusher, NEW op, NEW n \in 1 .. Len(t_head[i]),
         NEW next \in BOOLEAN, WriterEncodes(op, i, n, next)
  PROVE  Types'
<1>1. Written(op, i, FALSE)
  BY DEF WriterEncodes
<1> USE <1>1
<1>2. /\ NodesType' /\ LocalsType' /\ DeviceType'
      /\ active' \in Task \cup {NoTask} /\ journal_head' \in Seq(Entry)
      /\ bug' \in BOOLEAN
  BY TypesWritten
<1>3. PoolsType' /\ CursorType'
  <2>1. CASE next
    BY ZenonT(40), <2>1 DEF WriterEncodes, Written, Types, PoolsType, CursorType
  <2>2. CASE ~next
    BY <2>2 DEF WriterEncodes, Written, Types, PoolsType, CursorType
  <2> QED BY <2>1, <2>2
<1>4. FlagsType'
  BY <1>2 DEF WriterEncodes, Types, FlagsType
<1>5. FlusherType'
  <2>1. t_head[i] \in Seq(Entry)
    BY DEF Types, FlusherType
  <2>2. /\ SubSeq(t_head[i], 1, n) \in Seq(Entry)
        /\ SubSeq(t_head[i], n + 1, Len(t_head[i])) \in Seq(Entry)
    BY <2>1, SubSeqFacts
  <2>3. t_head' \in [Flusher -> Seq(Entry)] /\ t_record' \in [Flusher -> Seq(Entry)]
    BY <2>2 DEF WriterEncodes, Types, FlusherType
  <2>4. /\ t_nop' \in [Flusher -> BOOLEAN]
        /\ t_flush_before_write' \in [Flusher -> BOOLEAN]
    BY DEF WriterEncodes, Types, FlusherType
  <2>5. UNCHANGED <<t_live, t_unused, t_ondisk>>
    BY DEF Written
  <2> QED BY <2>3, <2>4, <2>5 DEF Types, FlusherType
<1>6. QueueType'
  <2> DEFINE first == AnyFlush(SubSeq(t_head[i], 1, n)) /\ ~t_flush_before_write[i]
             a == IF first THEN <<[op |-> "before", of |-> i]>> ELSE <<>>
             b == <<[op |-> "write", of |-> i]>>
  <2>1. task_head' = a \o b \o task_head
    BY DEF WriterEncodes
  <2>2. [op |-> "before", of |-> i] \in Task /\ [op |-> "write", of |-> i] \in Task
    BY TaskTypes DEF FlusherOp
  <2>3. a \in Seq(Task) /\ b \in Seq(Task) /\ task_head \in Seq(Task)
    BY SMTT(60), <2>2 DEF Types, QueueType
  <2> HIDE DEF a, b
  <2>4. task_head' \in Seq(Task)
    BY SMTT(60), <2>1, <2>3
  <2> QED BY <2>4, <1>2 DEF QueueType
<1> QED BY <1>2, <1>3, <1>4, <1>5, <1>6 DEF Types

\* The FLUSH tasks around the writer, and the end of the flusher.
LEMMA TypesDone ==
  ASSUME Types, NEW task, Done(task)
  PROVE  active' \in Task \cup {NoTask}
BY DEF Done

\* A flush makes the written pages durable, or fails.
LEMMA TypesFlushDevice ==
  ASSUME Types, NEW err, FlushDevice(err)
  PROVE  DeviceType'
<1>1. CASE err
  BY <1>1, Frame DEF FlushDevice, Types
<1>2. CASE ~err
  BY <1>2 DEF FlushDevice, Types, DeviceType
<1> QED BY <1>1, <1>2

\* A flusher's unused extents move to the list awaiting the flush.
LEMMA TypesMoveToFlush ==
  ASSUME Types, NEW i \in Flusher, MoveToFlush(i)
  PROVE  flush_extents' \subseteq Extent /\ t_unused' \in [Flusher -> SUBSET Extent]
BY SMTT(60) DEF MoveToFlush, Types, PoolsType, FlusherType

\* The flush before the journal write starts, or is skipped.
LEMMA TypesBefore ==
  ASSUME Types, NEW i \in Flusher,
         BeforeWriteFlush(i) \/ BeforeFlush(i)
  PROVE  Types'
<1>1. active' \in Task \cup {NoTask}
  BY TypesDone DEF BeforeWriteFlush, BeforeFlush, DoneFor
<1>2. flush_extents' \subseteq Extent /\ t_unused' \in [Flusher -> SUBSET Extent]
  <2>1. CASE MoveToFlush(i)
    BY <2>1, TypesMoveToFlush
  <2>2. CASE UNCHANGED <<t_unused, flush_extents>>
    BY <2>2 DEF Types, PoolsType, FlusherType
  <2> QED BY <2>1, <2>2 DEF BeforeWriteFlush, BeforeFlush
<1>3. PoolsType'
  BY <1>2 DEF BeforeWriteFlush, BeforeFlush, Types, PoolsType
<1>4. FlusherType'
  <2>1. t_nop' \in [Flusher -> BOOLEAN]
    BY DEF BeforeWriteFlush, BeforeFlush, writing, Types, FlusherType
  <2>2. UNCHANGED <<t_live, t_head, t_record, t_ondisk, t_flush_before_write>>
    BY DEF BeforeWriteFlush, BeforeFlush, writing
  <2> QED BY <1>2, <2>1, <2>2 DEF Types, FlusherType
<1>5. CursorType'
  BY DEF BeforeWriteFlush, BeforeFlush, cursor, Types, CursorType
<1>6. QueueType'
  <2>1. task_head \in Seq(Task) /\ UNCHANGED journal_head
    BY DEF BeforeWriteFlush, BeforeFlush, Types, QueueType
  <2>2. /\ [op |-> "before_flush", of |-> i] \in Task
        /\ [op |-> "after_flush", of |-> i] \in Task
    BY TaskTypes DEF FlusherOp
  <2>3. \A x \in Task : <<x>> \o task_head \in Seq(Task)
    BY SMTT(60), <2>1
  <2>4. task_head' \in Seq(Task)
    BY ZenonT(40), <2>1, <2>2, <2>3 DEF BeforeWriteFlush, BeforeFlush
  <2> QED BY <1>1, <2>1, <2>4 DEF Types, QueueType
<1>7. UNCHANGED <<nodes, locals, device, flags, bug>>
  BY DEF BeforeWriteFlush, BeforeFlush
<1> QED BY <1>3, <1>4, <1>5, <1>6, <1>7, Frame DEF Types

\* The device flush before and after the journal write completes.
LEMMA TypesFlushDone ==
  ASSUME Types, NEW i \in Flusher, NEW err \in BOOLEAN,
         BeforeWriteFlushDone(i, err) \/ AfterFlush(i, err)
  PROVE  Types'
<1>1. active' \in Task \cup {NoTask}
  BY TypesDone DEF BeforeWriteFlushDone, AfterFlush, DoneFor
<1>2. DeviceType'
  BY TypesFlushDevice DEF BeforeWriteFlushDone, AfterFlush
<1>3. FlagsType'
  <2>1. flags' \subseteq Flag
    BY DEF BeforeWriteFlushDone, AfterFlush, Types, FlagsType, Flag
  <2>2. UNCHANGED bug
    BY DEF BeforeWriteFlushDone, AfterFlush
  <2> QED BY <2>1, <2>2 DEF Types, FlagsType
<1>4. CursorType'
  BY DEF BeforeWriteFlushDone, AfterFlush, cursor, Types, CursorType
<1>5. FlusherType'
  <2>1. CASE BeforeWriteFlushDone(i, err)
    <3>1. (err \/ Failed) \in BOOLEAN
      BY DEF Failed
    <3> QED BY <2>1, <3>1 DEF BeforeWriteFlushDone, Types, FlusherType
  <2>2. CASE AfterFlush(i, err)
    BY <2>2, Frame DEF AfterFlush, Types
  <2> QED BY <2>1, <2>2
<1>6. QueueType'
  BY <1>1 DEF BeforeWriteFlushDone, AfterFlush, Types, QueueType
<1>7. UNCHANGED <<pools, nodes, locals>>
  BY DEF BeforeWriteFlushDone, AfterFlush
<1> QED BY <1>2, <1>3, <1>4, <1>5, <1>6, <1>7, Frame DEF Types

\* The flusher turns the epoch and reclaims what nobody holds.
LEMMA TypesReclaim ==
  ASSUME Types, NEW i \in Flusher, AfterFlushReclaim(i)
  PROVE  Types'
<1>1. active' \in Task \cup {NoTask}
  BY TypesDone DEF AfterFlushReclaim, DiscardExtents, DoneFor
<1>2. DeviceType'
  BY TypesFlushDevice DEF AfterFlushReclaim, DiscardExtents
<1>3. FlagsType'
  BY DEF AfterFlushReclaim, DiscardExtents, Types, FlagsType, Flag
<1>4. CursorType'
  BY DEF AfterFlushReclaim, DiscardExtents, Types, CursorType
<1>5. PoolsType'
  BY DEF AfterFlushReclaim, DiscardExtents, Types, PoolsType
<1>6. QueueType'
  <2>1. task_head \in Seq(Task) /\ [op |-> "discard_begin", of |-> None] \in Task
    BY TaskTypes DEF Types, QueueType
  <2>2. task_head' \in Seq(Task)
    BY SMTT(60), <2>1 DEF AfterFlushReclaim, DiscardExtents
  <2> QED BY <1>1, <2>2 DEF AfterFlushReclaim, DiscardExtents, Types, QueueType
<1>7. UNCHANGED <<nodes, flusher, locals>>
  BY DEF AfterFlushReclaim, DiscardExtents
<1> QED BY <1>2, <1>3, <1>4, <1>5, <1>6, <1>7, Frame DEF Types

\* The flusher ends and hands its extents on.
LEMMA TypesFlusherFree ==
  ASSUME Types, NEW i \in Flusher, FlusherFree(i)
  PROVE  Types'
<1>1. active' \in Task \cup {NoTask}
  BY TypesDone DEF FlusherFree, DoneFor
<1>2. PoolsType'
  BY DEF FlusherFree, Types, PoolsType, FlusherType
<1>3. FlagsType'
  <2>1. flags' \subseteq Flag
    BY DEF FlusherFree, Types, FlagsType, Flag
  <2> QED BY <2>1 DEF FlusherFree, Types, FlagsType
<1>4. FlusherType'
  <2>1. t_unused' \in [Flusher -> SUBSET Extent]
    BY DEF FlusherFree, Types, FlusherType
  <2>2. /\ t_live' \in [Flusher -> BOOLEAN] /\ t_nop' \in [Flusher -> BOOLEAN]
        /\ t_ondisk' \in [Flusher -> BOOLEAN]
        /\ t_flush_before_write' \in [Flusher -> BOOLEAN]
    BY DEF FlusherFree, Types, FlusherType
  <2> QED BY <2>1, <2>2 DEF FlusherFree, Types, FlusherType
<1>5. QueueType'
  BY <1>1 DEF FlusherFree, Types, QueueType
<1>6. UNCHANGED <<nodes, cursor, locals, device>>
  BY DEF FlusherFree
<1> QED BY <1>2, <1>3, <1>4, <1>5, <1>6, Frame DEF Types

\* The discard task.
LEMMA TypesDiscardTask ==
  ASSUME Types, DiscardBegin \/ DiscardDone
  PROVE  Types'
<1>1. active' \in Task \cup {NoTask}
  BY TypesDone DEF DiscardBegin, DiscardDone, DoneFor
<1>2. DiscardNext
  BY DEF DiscardBegin, DiscardDone
<1>3. FirstRun(wait_discard_extents) \subseteq Extent
  BY DEF FirstRun, Types, PoolsType
<1>4. PoolsType'
  BY <1>2, <1>3 DEF DiscardNext, DiscardBegin, DiscardDone, Types, PoolsType
<1>5. FlagsType'
  <2>1. flags' \subseteq Flag
    BY <1>2 DEF DiscardNext, Types, FlagsType
  <2> QED BY <2>1 DEF DiscardBegin, DiscardDone, Types, FlagsType
<1>6. QueueType'
  <2>1. task_head \in Seq(Task) /\ [op |-> "discard_io", of |-> None] \in Task
    BY TaskTypes DEF Types, QueueType
  <2>2. task_head' \in Seq(Task)
    BY SMTT(60), <1>2, <2>1 DEF DiscardNext
  <2> QED BY <1>1, <2>2 DEF DiscardBegin, DiscardDone, Types, QueueType
<1>7. UNCHANGED <<nodes, cursor, flusher, locals, device>>
  BY DEF DiscardBegin, DiscardDone
<1> QED BY <1>4, <1>5, <1>6, <1>7, Frame DEF Types

\* The copy and requeue tasks.
LEMMA TypesCopy ==
  ASSUME Types, NEW f \in File, NEW e \in Extent, NEW err \in BOOLEAN, CopyDone(f, e, err)
  PROVE  Types'
<1>1. active' \in Task \cup {NoTask}
  BY TypesDone DEF CopyDone
<1>2. LocalsType'
  <2>1. CASE UNCHANGED locals
    BY <2>1, Frame DEF Types
  <2>2. CASE FlushNewJournal(Exec)
    BY <2>2, ReturnTypes DEF FlushNewJournal, Caller, PC, Types
  <2> QED BY <2>1, <2>2 DEF CopyDone
<1>3. NodesType'
  BY DEF CopyDone, Types, NodesType
<1>4. DeviceType'
  BY DEF CopyDone, Types, DeviceType
<1>5. QueueType'
  <2>1. /\ journal_head \in Seq(Entry)
        /\ [flush |-> TRUE, unbinds |-> {}, copies |-> {e}] \in Entry
    BY ZenonT(40) DEF Types, QueueType, Entry
  <2>2. journal_head' \in Seq(Entry)
    BY <2>1, SeqFacts DEF CopyDone
  <2>3. UNCHANGED task_head
    BY DEF CopyDone
  <2> QED BY <1>1, <2>2, <2>3 DEF Types, QueueType
<1>6. UNCHANGED <<pools, cursor, flusher, flags, bug>>
  BY DEF CopyDone
<1> QED BY <1>2, <1>3, <1>4, <1>5, <1>6, Frame DEF Types

\* The requeue runs and wakes the writer.
LEMMA TypesRequeueDone ==
  ASSUME Types, NEW t \in Thread, RequeueDone(t)
  PROVE  Types'
<1>1. active' \in Task \cup {NoTask}
  BY TypesDone DEF RequeueDone, DoneFor
<1>2. LocalsType'
  BY DEF RequeueDone, Types, LocalsType, PC, Caller
<1>3. QueueType'
  BY <1>1 DEF RequeueDone, Types, QueueType
<1>4. UNCHANGED <<pools, nodes, cursor, flusher, device, flags, bug>>
  BY DEF RequeueDone
<1> QED BY <1>2, <1>3, <1>4, Frame DEF Types

-----------------------------------------------------------------------------
(* What the changes of the task queue do to the tasks of a set S.          *)

\* Taking the first task (cyanfs_executor_get_task) duplicates none and loses none.
LEMMA QueueGet ==
  ASSUME Types, GetTask, NEW S, NoTask \notin S
  PROVE  /\ AtMostOnce(S) => AtMostOnce(S)'
         /\ \A x \in S : Queued(x)' <=> Queued(x)
<1>1. /\ task_head \in Seq(Task) /\ task_head # <<>>
      /\ task_head' = Tail(task_head) /\ active' = Head(task_head)
      /\ active = NoTask
  BY DEF GetTask, Types, QueueType
<1>2. /\ Len(task_head) \in Nat \ {0} /\ Len(task_head') = Len(task_head) - 1
      /\ \A k \in 0 .. Len(task_head') : TaskAt(k)' = task_head[k + 1]
  BY SMTT(60), <1>1 DEF TaskAt
<1> USE <1>2
<1>3. \A k \in 0 .. Len(task_head) : TaskAt(k) \in S => k # 0 /\ task_head[k] \in S
  BY <1>1 DEF TaskAt
<1>4. \A k \in 0 .. Len(task_head') : TaskAt(k)' = TaskAt(k + 1) /\ k + 1 \in 0 .. Len(task_head)
  BY SMTT(60) DEF TaskAt
<1>5. AtMostOnce(S) => AtMostOnce(S)'
  <2> SUFFICES ASSUME AtMostOnce(S), NEW k \in 0 .. Len(task_head'),
                      NEW l \in 0 .. Len(task_head'), TaskAt(k)' \in S, TaskAt(l)' \in S
               PROVE  k = l
    BY DEF AtMostOnce
  <2>1. k + 1 = l + 1
    BY <1>4 DEF AtMostOnce
  <2> QED BY SMTT(60), <2>1
<1>6. ASSUME NEW x \in S PROVE Queued(x)' <=> Queued(x)
  <2>1. Queued(x)' => Queued(x)
    BY <1>4 DEF Queued
  <2>2. ASSUME NEW k \in 0 .. Len(task_head), TaskAt(k) = x PROVE Queued(x)'
    <3>1. k # 0 /\ k - 1 \in 0 .. Len(task_head')
      BY SMTT(60), <1>3, <2>2
    <3>2. TaskAt(k - 1)' = x
      BY SMTT(60), <2>2, <3>1 DEF TaskAt
    <3> QED BY <3>1, <3>2 DEF Queued
  <2> QED BY <2>1, <2>2 DEF Queued
<1> QED BY <1>5, <1>6

\* A place behind p others.
LEMMA PlaceBehind ==
  \A p, q \in Nat : \A k \in p + 1 .. p + q : k - p \in 1 .. q /\ p + (k - p) = k
BY SMTT(60)

\* Tasks outside S are added at either end, and the running task may end.
LEMMA QueueAdd ==
  ASSUME Types, NEW S, NoTask \notin S,
         NEW a \in Seq(Task), NEW b \in Seq(Task),
         \A k \in 1 .. Len(a) : a[k] \notin S,
         \A k \in 1 .. Len(b) : b[k] \notin S,
         task_head' = (a \o task_head) \o b,
         active' \in {active, NoTask}
  PROVE  /\ AtMostOnce(S) => AtMostOnce(S)'
         /\ \A x \in S : Queued(x)' => Queued(x)
         /\ \A x \in S : Queued(x) /\ (active' = active \/ active # x) => Queued(x)'
         /\ AtMostOnce(S) /\ active \in S /\ active' = NoTask => \A x \in S : ~Queued(x)'
<1> DEFINE na == Len(a)
           n == Len(task_head)
<1>1. task_head \in Seq(Task) /\ na \in Nat /\ n \in Nat /\ Len(b) \in Nat
  BY SMTT(60) DEF Types, QueueType
<1>2. /\ Len(task_head') = na + n + Len(b)
      /\ \A k \in 1 .. na : task_head'[k] = a[k]
      /\ \A k \in 1 .. n : task_head'[na + k] = task_head[k]
      /\ \A k \in 1 .. Len(b) : task_head'[na + n + k] = b[k]
  BY SMTT(60), <1>1
<1>3. ASSUME NEW k \in 0 .. Len(task_head'), TaskAt(k)' \in S
      PROVE  \/ k = 0 /\ active' = active /\ TaskAt(k)' = TaskAt(0)
             \/ k - na \in 1 .. n /\ TaskAt(k)' = TaskAt(k - na)
  <2>1. CASE k = 0
    BY <2>1, <1>3 DEF TaskAt
  <2>2. CASE k \in 1 .. na
    BY <2>2, <1>1, <1>2, <1>3 DEF TaskAt
  <2>3. CASE k \in na + 1 .. na + n
    <3>1. k - na \in 1 .. n /\ na + (k - na) = k
      BY <2>3, <1>1, PlaceBehind
    <3>2. task_head'[k] = task_head[k - na]
      BY <3>1, <1>2
    <3> QED BY SMTT(60), <3>1, <3>2, <2>3, <1>1 DEF TaskAt
  <2>4. CASE k \in na + n + 1 .. na + n + Len(b)
    <3>1. k - (na + n) \in 1 .. Len(b) /\ (na + n) + (k - (na + n)) = k
      BY SMTT(60), <2>4, <1>1
    <3>2. task_head'[k] = b[k - (na + n)]
      BY <3>1, <1>2
    <3> QED BY <3>1, <3>2, <2>4, <1>1, <1>3 DEF TaskAt
  <2> QED BY SMTT(60), <2>1, <2>2, <2>3, <2>4, <1>1, <1>2
<1> HIDE DEF na, n
<1>4. n = Len(task_head)
  BY DEF n
<1>5. AtMostOnce(S) => AtMostOnce(S)'
  <2> SUFFICES ASSUME AtMostOnce(S), NEW k \in 0 .. Len(task_head'),
                      NEW l \in 0 .. Len(task_head'), TaskAt(k)' \in S, TaskAt(l)' \in S
               PROVE  k = l
    BY DEF AtMostOnce
  <2>1. \A i, j \in 0 .. n : TaskAt(i) \in S /\ TaskAt(j) \in S => i = j
    BY <1>4 DEF AtMostOnce
  <2> QED BY SMTT(60), <2>1, <1>1, <1>3
<1>6. ASSUME NEW x \in S PROVE Queued(x)' => Queued(x)
  BY SMTT(60), <1>1, <1>3, <1>4 DEF Queued
<1>7. ASSUME NEW x \in S, Queued(x), active' = active \/ active # x
      PROVE  Queued(x)'
  <2>1. PICK k \in 0 .. n : TaskAt(k) = x
    BY <1>4, <1>7 DEF Queued
  <2>2. CASE k = 0
    BY SMTT(60), <2>1, <2>2, <1>7, <1>1, <1>2 DEF Queued, TaskAt
  <2>3. CASE k \in 1 .. n
    <3>1. task_head[k] = x
      BY SMTT(60), <2>1, <2>3, <1>1 DEF TaskAt
    <3>2. task_head'[na + k] = x
      BY <2>3, <3>1, <1>2
    <3>3. na + k \in 0 .. Len(task_head') /\ na + k # 0
      BY SMTT(60), <2>3, <1>1, <1>2
    <3> QED BY <3>2, <3>3 DEF Queued, TaskAt
  <2> QED BY SMTT(60), <2>2, <2>3, <1>1
<1>8. ASSUME AtMostOnce(S), active \in S, active' = NoTask, NEW x \in S, Queued(x)'
      PROVE  FALSE
  <2>1. PICK k \in 0 .. Len(task_head') : TaskAt(k)' = x
    BY <1>8 DEF Queued
  <2>2. k - na \in 1 .. n /\ TaskAt(k - na) = x
    BY <2>1, <1>3, <1>8
  <2>3. 0 \in 0 .. n /\ k - na \in 0 .. n /\ TaskAt(0) \in S
    BY SMTT(60), <2>2, <1>1, <1>8 DEF TaskAt
  <2>4. k - na = 0
    BY <1>4, <1>8, <2>2, <2>3 DEF AtMostOnce
  <2> QED BY SMTT(60), <2>2, <2>4
<1> QED BY <1>5, <1>6, <1>7, <1>8

\* A task of S is added to a queue that holds none.
LEMMA QueueNew ==
  ASSUME Types, NEW S, NEW y \in S, active' \notin S,
         \A k \in 1 .. Len(task_head) : task_head[k] \notin S,
         task_head' = Append(task_head, y)
  PROVE  /\ AtMostOnce(S)'
         /\ \A x \in S : Queued(x)' <=> x = y
<1>1. task_head \in Seq(Task)
  BY DEF Types, QueueType
<1>2. /\ Len(task_head) \in Nat /\ Len(task_head') = Len(task_head) + 1
      /\ \A k \in 1 .. Len(task_head) : task_head'[k] = task_head[k]
      /\ task_head'[Len(task_head) + 1] = y
  BY SMTT(60), <1>1
<1> USE <1>2
<1>3. PICK n \in Nat : n = Len(task_head) + 1
  BY SMTT(60)
<1>4. \A k \in 0 .. Len(task_head') : TaskAt(k)' \in S => k = n
  <2> SUFFICES ASSUME NEW k \in 0 .. Len(task_head'), TaskAt(k)' \in S PROVE k = n
    OBVIOUS
  <2>1. k # 0
    BY DEF TaskAt
  <2>2. k \notin 1 .. Len(task_head)
    BY <2>1 DEF TaskAt
  <2> QED BY SMTT(60), <1>3, <2>1, <2>2
<1>5. n \in 0 .. Len(task_head') /\ TaskAt(n)' = y
  BY SMTT(60), <1>3 DEF TaskAt
<1>6. AtMostOnce(S)'
  BY <1>4 DEF AtMostOnce
<1>7. ASSUME NEW x \in S PROVE Queued(x)' <=> x = y
  BY <1>4, <1>5 DEF Queued
<1> QED BY <1>6, <1>7

-----------------------------------------------------------------------------
(* The parts of the invariant, and the actions that disturb each of them.  *)

\* Each part of the invariant holds on when what it reads is left alone.
LEMMA InvFrame ==
  /\ LocalsInv /\ UNCHANGED locals => LocalsInv'
  /\ RequeueInv /\ UNCHANGED <<tasks, pc>> => RequeueInv'
  /\ DiscardInv /\ UNCHANGED <<tasks, Working, wait_discard_extents, discard_extents>>
       => DiscardInv'
  /\ EpochInv /\ UNCHANGED <<epochs, writer, flush_extents>> => EpochInv'
  /\ HandlerInv /\ UNCHANGED <<extents, unused_extents, t_unused, flush_extents,
                               writer_current_id, file, writer, extent>> => HandlerInv'
  /\ DeadInv /\ UNCHANGED <<t_live, t_unused>> => DeadInv'
  /\ ExtentsPartitioned /\ UNCHANGED <<pools, extents, t_unused>> => ExtentsPartitioned'
<1>1. LocalsInv /\ UNCHANGED locals => LocalsInv'
  BY DEF LocalsInv, locals
<1>2. RequeueInv /\ UNCHANGED <<tasks, pc>> => RequeueInv'
  BY DEF RequeueInv, tasks, Queued, AtMostOnce, TaskAt
<1>3. DiscardInv /\ UNCHANGED <<tasks, Working, wait_discard_extents, discard_extents>>
       => DiscardInv'
  BY DEF DiscardInv, tasks, Queued, AtMostOnce, TaskAt, Working
<1>4. EpochInv /\ UNCHANGED <<epochs, writer, flush_extents>> => EpochInv'
  BY DEF EpochInv, epochs, Holders
<1>5. HandlerInv /\ UNCHANGED <<extents, unused_extents, t_unused, flush_extents,
                                writer_current_id, file, writer, extent>> => HandlerInv'
  BY DEF HandlerInv, HeldUnused
<1>6. DeadInv /\ UNCHANGED <<t_live, t_unused>> => DeadInv'
  BY DEF DeadInv
<1>7. ExtentsPartitioned /\ UNCHANGED <<pools, extents, t_unused>> => ExtentsPartitioned'
  <2> SUFFICES ASSUME ExtentsPartitioned, UNCHANGED <<pools, extents, t_unused>>
               PROVE  ExtentsPartitioned'
    OBVIOUS
  <2>1. UNCHANGED <<HeldUnused, MappedExtents>>
    BY DEF HeldUnused, MappedExtents
  <2> QED BY <2>1 DEF ExtentsPartitioned, pools
<1> QED BY <1>1, <1>2, <1>3, <1>4, <1>5, <1>6, <1>7

\* No task or flag changes: what the queue invariants say is kept if no
\* waiting thread moves.
LEMMA QueueFrame ==
  ASSUME Types, RequeueInv, UNCHANGED tasks, NEW t \in Caller, NEW to \in PC,
         pc[t] # "wait", pc' = [pc EXCEPT ![t] = to]
  PROVE  RequeueInv'
<1>1. \A u \in Thread : pc[u] = "wait" => pc'[u] = "wait"
  BY SMTT(60) DEF Types, LocalsType
<1> QED BY <1>1 DEF RequeueInv, tasks, Queued, AtMostOnce, TaskAt

\* A change of the tasks that adds no requeue task.
LEMMA RequeueKept ==
  ASSUME Types, RequeueInv,
         \A u \in Thread : pc[u] = "wait" => pc'[u] = "wait",
         NEW a \in Seq(Task), NEW b \in Seq(Task),
         \A k \in 1 .. Len(a) : a[k].op # "requeue",
         \A k \in 1 .. Len(b) : b[k].op # "requeue",
         task_head' = (a \o task_head) \o b, active' \in {active, NoTask}
  PROVE  RequeueInv'
<1> SUFFICES ASSUME NEW u \in Thread
             PROVE  /\ AtMostOnce({RequeueOf(u)})'
                    /\ Queued(RequeueOf(u))' => pc'[u] = "wait"
  BY DEF RequeueInv
<1>1. NoTask \notin {RequeueOf(u)} /\ RequeueOf(u).op = "requeue"
  BY DEF NoTask, RequeueOf
<1>2. /\ \A k \in 1 .. Len(a) : a[k] \notin {RequeueOf(u)}
      /\ \A k \in 1 .. Len(b) : b[k] \notin {RequeueOf(u)}
  BY <1>1
<1>3. /\ AtMostOnce({RequeueOf(u)}) => AtMostOnce({RequeueOf(u)})'
      /\ \A x \in {RequeueOf(u)} : Queued(x)' => Queued(x)
  BY <1>1, <1>2, QueueAdd
<1> QED BY <1>3 DEF RequeueInv

\* One that adds no discard task and ends none.
LEMMA DiscardKept ==
  ASSUME Types, DiscardInv,
         NEW a \in Seq(Task), NEW b \in Seq(Task),
         \A k \in 1 .. Len(a) : a[k] \notin DiscardTask,
         \A k \in 1 .. Len(b) : b[k] \notin DiscardTask,
         task_head' = (a \o task_head) \o b, active' \in {active, NoTask},
         active' = active \/ active \notin DiscardTask,
         UNCHANGED <<Working, wait_discard_extents, discard_extents>>
  PROVE  DiscardInv'
<1>1. NoTask \notin DiscardTask
  BY DEF NoTask, DiscardTask
<1>2. /\ AtMostOnce(DiscardTask) => AtMostOnce(DiscardTask)'
      /\ \A x \in DiscardTask : Queued(x)' => Queued(x)
      /\ \A x \in DiscardTask : Queued(x) /\ (active' = active \/ active # x) => Queued(x)'
  BY <1>1, QueueAdd
<1>3. \A x \in DiscardTask : Queued(x)' <=> Queued(x)
  BY <1>2
<1>4. [op |-> "discard_begin", of |-> None] \in DiscardTask
  BY DEF DiscardTask
<1> QED BY <1>2, <1>3, <1>4 DEF DiscardInv, Working

\* Nobody is counted by zero, and only nobody.
LEMMA CountsNone == \A S : Counts(0, S) <=> S = {}
<1> TAKE S
<1>1. ASSUME Counts(0, S) PROVE S = {}
  BY SMTT(60), <1>1 DEF Counts
<1>2. ASSUME S = {} PROVE Counts(0, S)
  <2>1. [m \in 1 .. 0 |-> m] \in [1 .. 0 -> S]
    BY SMTT(60)
  <2> QED BY <1>2, <2>1 DEF Counts
<1> QED BY SMTT(60), <1>1, <1>2

\* The atomic_inc counts one more.
LEMMA CountsAdd ==
  ASSUME NEW n \in Nat, NEW S, NEW x, x \notin S, Counts(n, S)
  PROVE  Counts(n + 1, S \cup {x})
<1>1. PICK list \in [1 .. n -> S] :
        /\ \A y \in S : \E m \in 1 .. n : list[m] = y
        /\ \A m, l \in 1 .. n : list[m] = list[l] => m = l
  BY SMTT(60) DEF Counts
<1> DEFINE more == [m \in 1 .. n + 1 |-> IF m = n + 1 THEN x ELSE list[m]]
<1>2. \A m \in 1 .. n + 1 : m = n + 1 \/ m \in 1 .. n
  BY SMTT(60)
<1>3. /\ n + 1 \in 1 .. n + 1 /\ more[n + 1] = x
      /\ \A m \in 1 .. n : m \in 1 .. n + 1 /\ m # n + 1 /\ more[m] = list[m] /\ list[m] \in S
  BY SMTT(60)
<1>4. more \in [1 .. n + 1 -> S \cup {x}]
  BY SMTT(60), <1>2, <1>3
<1> HIDE DEF more
<1>5. \A y \in S \cup {x} : \E m \in 1 .. n + 1 : more[m] = y
  BY SMTT(60), <1>1, <1>3
<1>6. \A m, l \in 1 .. n + 1 : more[m] = more[l] => m = l
  BY SMTT(60), <1>1, <1>2, <1>3
<1> QED BY <1>4, <1>5, <1>6 DEF Counts

\* The atomic_dec counts one less.
LEMMA CountsRemove ==
  ASSUME NEW n \in Nat, NEW S, NEW x \in S, Counts(n, S)
  PROVE  n - 1 \in Nat /\ Counts(n - 1, S \ {x})
<1>1. PICK list \in [1 .. n -> S] :
        /\ \A y \in S : \E m \in 1 .. n : list[m] = y
        /\ \A m, l \in 1 .. n : list[m] = list[l] => m = l
  BY SMTT(60) DEF Counts
<1> USE <1>1
<1>2. PICK p \in 1 .. n : list[p] = x
  BY SMTT(60)
<1> DEFINE less == [m \in 1 .. n - 1 |-> IF m = p THEN list[n] ELSE list[m]]
<1>3. /\ n - 1 \in Nat /\ n \in 1 .. n
      /\ \A m \in 1 .. n - 1 : m \in 1 .. n /\ m # n
      /\ \A m \in 1 .. n : m = n \/ m \in 1 .. n - 1
  BY SMTT(60)
<1> USE <1>3
<1>4. \A m \in 1 .. n - 1 : /\ m = p => less[m] = list[n]
                            /\ m # p => less[m] = list[m]
  OBVIOUS
<1>5. less \in [1 .. n - 1 -> S \ {x}]
  <2> SUFFICES ASSUME NEW m \in 1 .. n - 1 PROVE less[m] \in S \ {x}
    OBVIOUS
  <2> QED BY SMTT(60), <1>2, <1>4
<1> HIDE DEF less
<1>6. \A y \in S \ {x} : \E m \in 1 .. n - 1 : less[m] = y
  <2> SUFFICES ASSUME NEW y \in S \ {x} PROVE \E m \in 1 .. n - 1 : less[m] = y
    BY SMTT(60)
  <2>1. PICK m \in 1 .. n : list[m] = y
    BY SMTT(60)
  <2> QED BY SMTT(60), <1>2, <1>4, <2>1
<1>7. \A m, l \in 1 .. n - 1 : less[m] = less[l] => m = l
  BY SMTT(60), <1>4
<1> QED BY <1>5, <1>6, <1>7 DEF Counts

\* The counters are numbers.
LEMMA EpochTypes == EpochInv => EpochsType
BY SMTT(60) DEF EpochInv, EpochsType

\* An operation that holds no writer ends.
LEMMA IdleReturn ==
  ASSUME Types, LocalsInv, EpochInv, NEW t \in Caller,
         NEW to \in {"idle", "flush_check"}, ReturnTo(t, to),
         pc[t] \notin {"submit", "submit_new", "io_error", "requeue"},
         UNCHANGED <<epochs, flush_extents>>
  PROVE  /\ LocalsInv' /\ EpochInv'
         /\ \A u \in Thread : writer'[u] # NoWriter =>
              writer'[u] = writer[u] /\ file'[u] = file[u] /\ extent'[u] = extent[u]
<1>1. writer[t] = NoWriter
  BY DEF LocalsInv
<1>2. writer' = writer
  BY <1>1 DEF ReturnTo, Types, LocalsType
<1> USE <1>2
<1>3. \A u \in Caller : u # t => /\ pc'[u] = pc[u] /\ file'[u] = file[u]
                                 /\ extent'[u] = extent[u]
  BY DEF ReturnTo, Types, LocalsType
<1>4. pc'[t] = to
  BY DEF ReturnTo, Types, LocalsType
<1>5. LocalsInv'
  <2> SUFFICES ASSUME NEW u \in Caller
               PROVE  LocalsInv!(u)'
    BY DEF LocalsInv
  <2>1. CASE u = t
    BY <1>1, <1>4, <2>1
  <2>2. CASE u # t
    BY <1>3, <2>2 DEF LocalsInv
  <2> QED BY <2>1, <2>2
<1>6. EpochInv'
  BY InvFrame
<1>7. Thread \subseteq Caller
  BY DEF Caller
<1> QED BY <1>1, <1>3, <1>5, <1>6, <1>7

\* A caller that holds no writer moves to a place where it holds none.
LEMMA IdleMove ==
  ASSUME Types, LocalsInv, EpochInv, NEW t \in Caller,
         NEW to \in PC, pc' = [pc EXCEPT ![t] = to],
         UNCHANGED <<epochs, flush_extents, writer, extent>>,
         pc[t] \notin {"submit", "submit_new", "io_error", "requeue"},
         to \notin {"submit", "submit_new", "io_error"},
         to \in {"write_start", "write_alloc", "requeue", "wait", "discard_upgrade"}
           => t \in Thread /\ file'[t] \in File,
         file' \in [Caller -> File \cup {None}],
         \A u \in Caller : u # t => file'[u] = file[u]
  PROVE  /\ LocalsInv' /\ EpochInv'
         /\ \A u \in Thread : writer'[u] # NoWriter =>
              writer'[u] = writer[u] /\ file'[u] = file[u] /\ extent'[u] = extent[u]
<1>1. writer[t] = NoWriter
  BY DEF LocalsInv
<1>2. pc'[t] = to /\ \A u \in Caller : u # t => pc'[u] = pc[u]
  BY DEF Types, LocalsType
<1>3. LocalsInv'
  <2> SUFFICES ASSUME NEW u \in Caller
               PROVE  LocalsInv!(u)'
    BY DEF LocalsInv
  <2>1. CASE u = t
    BY <1>1, <1>2, <2>1
  <2>2. CASE u # t
    BY <1>2, <2>2 DEF LocalsInv
  <2> QED BY <2>1, <2>2
<1>4. EpochInv'
  BY InvFrame
<1>5. Thread \subseteq Caller
  BY DEF Caller
<1> QED BY <1>1, <1>3, <1>4, <1>5

\* The atomic_inc of a write that reached the label mapped.
LEMMA MappedHolds ==
  ASSUME Types, LocalsInv, EpochInv, NEW t \in Thread, NEW f \in File,
         NEW e \in Extent, NEW to \in {"submit", "submit_new", "io_error", "requeue"},
         pc[t] \notin {"submit", "submit_new", "io_error", "requeue"},
         Mapped(t, f, e, to), UNCHANGED flush_extents
  PROVE  /\ LocalsInv' /\ EpochInv'
         /\ file'[t] = f /\ extent'[t] = e
         /\ \A u \in Thread : u # t =>
              writer'[u] = writer[u] /\ file'[u] = file[u] /\ extent'[u] = extent[u]
<1>1. t \in Caller /\ Thread \subseteq Caller
  BY DEF Caller
<1> USE <1>1
<1>2. writer[t] = NoWriter
  BY DEF LocalsInv
<1>3. /\ pc'[t] = to /\ file'[t] = f /\ extent'[t] = e
      /\ writer'[t] = writer_current_id
      /\ \A u \in Caller : u # t =>
           /\ pc'[u] = pc[u] /\ file'[u] = file[u]
           /\ writer'[u] = writer[u] /\ extent'[u] = extent[u]
  BY DEF Mapped, Types, LocalsType
<1> USE <1>3
<1>4. writer_current_id \in {0, 1} /\ writer_current_id # NoWriter
  BY TwoEpochs DEF EpochInv
<1> USE <1>4
<1>5. LocalsInv'
  <2> SUFFICES ASSUME NEW u \in Caller
               PROVE  LocalsInv!(u)'
    BY DEF LocalsInv
  <2>1. CASE u = t
    BY <2>1
  <2>2. CASE u # t
    BY <2>2 DEF LocalsInv
  <2> QED BY <2>1, <2>2
<1>6. EpochInv'
  <2>1. Holders(writer_current_id)' = Holders(writer_current_id) \cup {t}
    BY DEF Holders, Mapped
  <2>2. t \notin Holders(writer_current_id)
    BY <1>2 DEF Holders
  <2>3. \A k \in {0, 1} : k # writer_current_id => Holders(k)' = Holders(k)
    BY <1>2, TwoEpochs DEF Holders
  <2>4. Counts(writers[writer_current_id] + 1, Holders(writer_current_id) \cup {t})
    BY <2>2, CountsAdd DEF EpochInv
  <2>5. UNCHANGED writer_current_id
    BY DEF Mapped
  <2>6. ASSUME NEW k \in {0, 1} PROVE Counts(writers'[k], Holders(k)')
    <3>1. CASE k = writer_current_id
      BY <2>1, <2>4, <2>5, <3>1 DEF Mapped, EpochInv
    <3>2. CASE k # writer_current_id
      BY <2>3, <3>2 DEF Mapped, EpochInv
    <3> QED BY <3>1, <3>2
  <2>7. writers' \in [{0, 1} -> Nat]
    BY SMTT(60) DEF Mapped, EpochInv
  <2>8. 1 - writer_current_id \in {0, 1} /\ 1 - writer_current_id # writer_current_id
    BY TwoEpochs
  <2>9. flush_extents' = {} => Holders(1 - writer_current_id)' = {}
    BY <2>3, <2>5, <2>8 DEF EpochInv
  <2> QED BY <2>5, <2>6, <2>7, <2>9 DEF EpochInv
<1> QED BY <1>5, <1>6

\* The atomic_dec after the handler.
LEMMA Released ==
  ASSUME Types, LocalsInv, EpochInv, NEW t \in Thread,
         writer[t] # NoWriter, writer' = [writer EXCEPT ![t] = NoWriter],
         writers' = [writers EXCEPT ![writer[t]] = @ - 1],
         UNCHANGED <<writer_current_id, flush_extents>>
  PROVE  EpochInv'
<1>1. t \in Caller /\ Thread \subseteq Caller
  BY DEF Caller
<1>2. /\ writer'[t] = NoWriter
      /\ \A u \in Thread : u # t => writer'[u] = writer[u]
  BY <1>1 DEF Types, LocalsType
<1>3. writer[t] \in {0, 1}
  BY <1>1 DEF Types, LocalsType
<1>4. PICK w \in {0, 1} : w = writer[t]
  BY <1>3
<1> USE <1>4
<1>5. Holders(w)' = Holders(w) \ {t} /\ t \in Holders(w)
  BY <1>2 DEF Holders, NoWriter
<1>6. \A k \in {0, 1} : k # w => Holders(k)' = Holders(k)
  BY <1>2, TwoEpochs DEF Holders
<1>7. writers[w] - 1 \in Nat /\ Counts(writers[w] - 1, Holders(w) \ {t})
  BY <1>5, CountsRemove DEF EpochInv
<1>8. ASSUME NEW k \in {0, 1} PROVE writers'[k] \in Nat /\ Counts(writers'[k], Holders(k)')
  <2>1. CASE k = w
    BY <1>5, <1>7, <2>1 DEF EpochInv
  <2>2. CASE k # w
    BY <1>6, <2>2 DEF EpochInv
  <2> QED BY <2>1, <2>2
<1>9. writers' \in [{0, 1} -> Nat]
  BY <1>8 DEF EpochInv
<1>10. Holders(1 - writer_current_id) = {} => Holders(1 - writer_current_id)' = {}
  BY SMTT(60), <1>2 DEF Holders, NoWriter, EpochInv
<1> QED BY <1>8, <1>9, <1>10 DEF EpochInv

\* Steps that keep the extents of counted writers where HandlerInv wants them.
LEMMA HandlerStep ==
  ASSUME Types, LocalsInv, HandlerInv,
         \A u \in Thread : writer'[u] # NoWriter =>
           writer'[u] = writer[u] /\ file'[u] = file[u] /\ extent'[u] = extent[u],
         UNCHANGED writer_current_id,
         unused_extents \cup HeldUnused \subseteq (unused_extents \cup HeldUnused)',
         flush_extents \subseteq flush_extents',
         \A f \in File : extents[f] \in Extent =>
           extents'[f] = extents[f] \/ extents[f] \in (unused_extents \cup HeldUnused)'
  PROVE  HandlerInv'
<1> SUFFICES ASSUME NEW u \in Thread, writer'[u] # NoWriter PROVE HandlerInv!(u)'
  BY DEF HandlerInv
<1>1. writer'[u] = writer[u] /\ file'[u] = file[u] /\ extent'[u] = extent[u]
  OBVIOUS
<1> USE <1>1
<1>2. u \in Caller /\ file[u] \in File /\ extent[u] \in Extent
  BY DEF LocalsInv, Caller
<1>3. CASE extents[file[u]] = extent[u]
  BY <1>2, <1>3
<1>4. CASE extent[u] \in unused_extents \cup HeldUnused
  BY <1>4
<1>5. CASE extent[u] \in flush_extents /\ writer[u] = 1 - writer_current_id
  BY <1>5
<1> QED BY <1>3, <1>4, <1>5 DEF HandlerInv

-----------------------------------------------------------------------------
(* Extents that move from one tree to another stay partitioned.            *)

\* Replacing one flusher's detached unused list changes the held extents by that list.
LEMMA HeldUpdate ==
  ASSUME FlusherType, ExtentsPartitioned, NEW i \in Flusher, NEW X,
         t_unused' = [t_unused EXCEPT ![i] = X]
  PROVE  /\ HeldUnused' = (HeldUnused \ t_unused[i]) \cup X
         /\ t_unused[i] \subseteq HeldUnused
         /\ \A j \in Flusher : t_unused'[j] = IF j = i THEN X ELSE t_unused[j]
<1>1. \A j \in Flusher : t_unused'[j] = IF j = i THEN X ELSE t_unused[j]
  BY DEF FlusherType
<1>2. \A j \in Flusher : j # i => t_unused[j] \cap t_unused[i] = {}
  BY DEF ExtentsPartitioned
<1>3. HeldUnused' = (HeldUnused \ t_unused[i]) \cup X
  BY <1>1, <1>2 DEF HeldUnused
<1> QED BY <1>1, <1>3 DEF HeldUnused

\* Rebinding one file's block changes the mapped extents by that block.
LEMMA MappedUpdate ==
  ASSUME NodesType, ExtentsPartitioned, NEW f \in File, NEW e,
         extents' = [extents EXCEPT ![f] = e]
  PROVE  /\ MappedExtents' = (MappedExtents \ {extents[f]}) \cup ({e} \ {NoExtent})
         /\ {extents[f]} \ {NoExtent} \subseteq MappedExtents
         /\ \A g \in File : extents'[g] = IF g = f THEN e ELSE extents[g]
<1>1. \A g \in File : extents'[g] = IF g = f THEN e ELSE extents[g]
  BY DEF NodesType
<1>2. \A g \in File : g # f /\ extents[g] # NoExtent => extents[g] # extents[f]
  BY DEF ExtentsPartitioned
<1>3. MappedExtents' = (MappedExtents \ {extents[f]}) \cup ({e} \ {NoExtent})
  BY <1>1, <1>2 DEF MappedExtents
<1> QED BY <1>1, <1>3 DEF MappedExtents

\* cyanfs_super_flusher_start takes the unused extents.
LEMMA PartitionStart ==
  ASSUME Types, ExtentsPartitioned, NEW i \in Flusher, t_unused[i] = {},
         t_unused' = [t_unused EXCEPT ![i] = unused_extents],
         unused_extents' = {},
         UNCHANGED <<free_extents, flush_extents, wait_discard_extents,
                     discard_extents, journal_extents, extents>>
  PROVE  ExtentsPartitioned'
<1>1. /\ HeldUnused' = (HeldUnused \ t_unused[i]) \cup unused_extents
      /\ \A j \in Flusher : t_unused'[j] = IF j = i THEN unused_extents ELSE t_unused[j]
  BY ZenonT(40), HeldUpdate DEF Types
<1>2. MappedExtents' = MappedExtents
  BY DEF MappedExtents
<1>3. HeldUnused' = HeldUnused \cup unused_extents
  BY <1>1
<1>4. \A j \in Flusher : unused_extents \cap t_unused[j] = {}
  <2>1. unused_extents \cap HeldUnused = {}
    BY DEF ExtentsPartitioned
  <2> QED BY <2>1 DEF HeldUnused
<1>5. ASSUME NEW j \in Flusher, NEW k \in Flusher, j # k
      PROVE  t_unused'[j] \cap t_unused'[k] = {}
  <2>1. t_unused[j] \cap t_unused[k] = {}
    BY <1>5 DEF ExtentsPartitioned
  <2> QED BY <1>1, <1>4, <1>5, <2>1
<1> QED BY <1>2, <1>3, <1>5 DEF ExtentsPartitioned

\* __cyanfs_file_alloc_extent takes a free one.
LEMMA PartitionAlloc ==
  ASSUME Types, ExtentsPartitioned, NEW f \in File, NEW e \in free_extents,
         extents[f] = NoExtent, extents' = [extents EXCEPT ![f] = e],
         free_extents' = free_extents \ {e},
         UNCHANGED <<unused_extents, flush_extents, wait_discard_extents,
                     discard_extents, journal_extents, t_unused>>
  PROVE  ExtentsPartitioned'
<1>1. /\ MappedExtents' = (MappedExtents \ {extents[f]}) \cup ({e} \ {NoExtent})
      /\ \A g \in File : extents'[g] = IF g = f THEN e ELSE extents[g]
  BY ZenonT(40), MappedUpdate DEF Types
<1>2. e \in Extent /\ NoExtent \notin Extent
  BY ExtentFacts DEF Types, PoolsType
<1>3. MappedExtents' = MappedExtents \cup {e} /\ HeldUnused' = HeldUnused
  BY <1>1, <1>2 DEF MappedExtents, HeldUnused
<1>4. \A g \in File : extents[g] # e
  <2>1. e \notin MappedExtents
    BY DEF ExtentsPartitioned
  <2> QED BY <1>2, <2>1 DEF MappedExtents
<1>5. \A g, h \in File : g # h /\ extents'[g] # NoExtent => extents'[g] # extents'[h]
  BY <1>1, <1>2, <1>4 DEF ExtentsPartitioned
<1> DEFINE taken == {e}
<1>6. /\ free_extents' = free_extents \ taken /\ taken \subseteq free_extents
      /\ MappedExtents' = MappedExtents \cup taken
  BY <1>3
<1> HIDE DEF taken
<1> QED BY <1>3, <1>5, <1>6 DEF ExtentsPartitioned

\* __cyanfs_file_unmap_extent gives one up.
LEMMA PartitionUnmap ==
  ASSUME Types, ExtentsPartitioned, NEW f \in File,
         extents' = [extents EXCEPT ![f] = NoExtent],
         unused_extents' = unused_extents \cup ({extents[f]} \ {NoExtent}),
         UNCHANGED <<free_extents, flush_extents, wait_discard_extents,
                     discard_extents, journal_extents, t_unused>>
  PROVE  ExtentsPartitioned'
<1>1. /\ MappedExtents' = (MappedExtents \ {extents[f]}) \cup ({NoExtent} \ {NoExtent})
      /\ {extents[f]} \ {NoExtent} \subseteq MappedExtents
      /\ \A g \in File : extents'[g] = IF g = f THEN NoExtent ELSE extents[g]
  BY ZenonT(40), MappedUpdate DEF Types
<1>2. NoExtent \notin MappedExtents
  BY DEF MappedExtents
<1> DEFINE gone == {extents[f]} \ {NoExtent}
<1>3. MappedExtents' = MappedExtents \ gone /\ HeldUnused' = HeldUnused
  BY <1>1, <1>2 DEF HeldUnused
<1>4. \A g, h \in File : g # h /\ extents'[g] # NoExtent => extents'[g] # extents'[h]
  BY <1>1 DEF ExtentsPartitioned
<1>5. unused_extents' = unused_extents \cup gone /\ gone \subseteq MappedExtents
  BY <1>1
<1> HIDE DEF gone
<1> QED BY <1>3, <1>4, <1>5 DEF ExtentsPartitioned

\* A journal record links to a free one.
LEMMA PartitionLink ==
  ASSUME Types, ExtentsPartitioned, NEW e \in free_extents,
         free_extents' = free_extents \ {e},
         journal_extents' = journal_extents \cup {e},
         UNCHANGED <<unused_extents, flush_extents, wait_discard_extents,
                     discard_extents, extents, t_unused>>
  PROVE  ExtentsPartitioned'
<1>1. MappedExtents' = MappedExtents /\ HeldUnused' = HeldUnused
  BY ZenonT(40) DEF MappedExtents, HeldUnused
<1> DEFINE taken == {e}
<1>2. /\ free_extents' = free_extents \ taken /\ taken \subseteq free_extents
      /\ journal_extents' = journal_extents \cup taken
  OBVIOUS
<1> HIDE DEF taken
<1> QED BY <1>1, <1>2 DEF ExtentsPartitioned

\* The extents of a flusher become the flush extents.
LEMMA PartitionMove ==
  ASSUME Types, ExtentsPartitioned, NEW i \in Flusher, flush_extents = {},
         flush_extents' = t_unused[i],
         t_unused' = [t_unused EXCEPT ![i] = {}],
         UNCHANGED <<free_extents, unused_extents, wait_discard_extents,
                     discard_extents, journal_extents, extents>>
  PROVE  ExtentsPartitioned'
<1>1. /\ HeldUnused' = (HeldUnused \ t_unused[i]) \cup {}
      /\ t_unused[i] \subseteq HeldUnused
      /\ \A j \in Flusher : t_unused'[j] = IF j = i THEN {} ELSE t_unused[j]
  BY ZenonT(40), HeldUpdate DEF Types
<1>2. MappedExtents' = MappedExtents
  BY DEF MappedExtents
<1>3. ASSUME NEW j \in Flusher, NEW k \in Flusher, j # k
      PROVE  t_unused'[j] \cap t_unused'[k] = {}
  <2>1. t_unused[j] \cap t_unused[k] = {}
    BY <1>3 DEF ExtentsPartitioned
  <2> QED BY <1>1, <2>1
<1> QED BY <1>1, <1>2, <1>3 DEF ExtentsPartitioned

\* cyanfs_super_flusher_free gives them back.
LEMMA PartitionFree ==
  ASSUME Types, ExtentsPartitioned, NEW i \in Flusher,
         unused_extents' = unused_extents \cup t_unused[i],
         t_unused' = [t_unused EXCEPT ![i] = {}],
         UNCHANGED <<free_extents, flush_extents, wait_discard_extents,
                     discard_extents, journal_extents, extents>>
  PROVE  ExtentsPartitioned'
<1>1. /\ HeldUnused' = (HeldUnused \ t_unused[i]) \cup {}
      /\ t_unused[i] \subseteq HeldUnused
      /\ \A j \in Flusher : t_unused'[j] = IF j = i THEN {} ELSE t_unused[j]
  BY HeldUpdate DEF Types
<1>2. MappedExtents' = MappedExtents
  BY DEF MappedExtents
<1>3. ASSUME NEW j \in Flusher, NEW k \in Flusher, j # k
      PROVE  t_unused'[j] \cap t_unused'[k] = {}
  <2>1. t_unused[j] \cap t_unused[k] = {}
    BY <1>3 DEF ExtentsPartitioned
  <2> QED BY <1>1, <2>1
<1> QED BY <1>1, <1>2, <1>3 DEF ExtentsPartitioned

\* Extents move between the trees of the super alone.
LEMMA PartitionPools ==
  ASSUME Types, ExtentsPartitioned,
         UNCHANGED <<unused_extents, journal_extents, extents, t_unused>>,
         \/ /\ flush_extents' = {}
            /\ wait_discard_extents' = wait_discard_extents \cup flush_extents
            /\ UNCHANGED <<free_extents, discard_extents>>
         \/ /\ flush_extents' = {}
            /\ free_extents' = free_extents \cup flush_extents
            /\ UNCHANGED <<wait_discard_extents, discard_extents>>
         \/ /\ \E run \in SUBSET wait_discard_extents :
                 /\ discard_extents' = run
                 /\ wait_discard_extents' = wait_discard_extents \ run
            /\ free_extents' = free_extents \cup discard_extents
            /\ UNCHANGED flush_extents
  PROVE  ExtentsPartitioned'
<1>1. MappedExtents' = MappedExtents /\ HeldUnused' = HeldUnused
  BY DEF MappedExtents, HeldUnused
<1>2. CASE /\ flush_extents' = {}
           /\ wait_discard_extents' = wait_discard_extents \cup flush_extents
           /\ UNCHANGED <<free_extents, discard_extents>>
  BY <1>1, <1>2 DEF ExtentsPartitioned
<1>3. CASE /\ flush_extents' = {}
           /\ free_extents' = free_extents \cup flush_extents
           /\ UNCHANGED <<wait_discard_extents, discard_extents>>
  BY <1>1, <1>3 DEF ExtentsPartitioned
<1>4. CASE /\ \E run \in SUBSET wait_discard_extents :
                /\ discard_extents' = run
                /\ wait_discard_extents' = wait_discard_extents \ run
           /\ free_extents' = free_extents \cup discard_extents
           /\ UNCHANGED flush_extents
  <2>1. PICK run \in SUBSET wait_discard_extents :
          /\ discard_extents' = run
          /\ wait_discard_extents' = wait_discard_extents \ run
    BY <1>4
  <2> QED BY <1>1, <1>4, <2>1 DEF ExtentsPartitioned
<1> QED BY <1>2, <1>3, <1>4

\* Two sequences concatenated.
LEMMA ConcatType ==
  ASSUME NEW S, NEW p \in Seq(S), NEW q \in Seq(S)
  PROVE  /\ p \o q \in Seq(S)
         /\ Len(p \o q) = Len(p) + Len(q)
         /\ \A i \in 1 .. Len(p) + Len(q) :
              (p \o q)[i] = IF i <= Len(p) THEN p[i] ELSE q[i - Len(p)]
BY SMTT(60)

\* Appending is concatenating one element.
LEMMA AppendConcat ==
  ASSUME NEW S, NEW q \in Seq(S), NEW x \in S
  PROVE  Append(q, x) = q \o <<x>>
BY SMTT(60)

\* A sequence over a set is one over any larger set.
LEMMA SeqWithin ==
  ASSUME NEW S, NEW T, \A x \in S : x \in T, NEW q \in Seq(S)
  PROVE  /\ q \in Seq(T) /\ <<>> \in Seq(T)
         /\ \A k \in 1 .. Len(q) : q[k] \in S
         /\ \A k \in 1 .. Len(<<>>) : FALSE
BY SMTT(60)

\* Adding ordinary tasks keeps what is known of the requeue and discard tasks.
LEMMA TasksAdded ==
  ASSUME IInv, NEW a \in Seq(Ordinary),
         task_head' \in {task_head, a \o task_head, task_head \o a},
         active' \in {active, NoTask}, active' = active \/ active \notin DiscardTask,
         \A u \in Thread : pc[u] = "wait" => pc'[u] = "wait",
         UNCHANGED <<Working, wait_discard_extents, discard_extents>>
  PROVE  RequeueInv' /\ DiscardInv'
<1>0. \A x \in Ordinary : x \in Task
  BY DEF Ordinary
<1>1. task_head \in Seq(Task) /\ a \in Seq(Task) /\ <<>> \in Seq(Task)
  BY <1>0, SeqWithin DEF IInv, Types, QueueType
<1>2. /\ \A k \in 1 .. Len(a) : a[k].op # "requeue" /\ a[k] \notin DiscardTask
      /\ \A k \in 1 .. Len(<<>>) : FALSE
  <2>1. /\ \A k \in 1 .. Len(a) : a[k] \in Ordinary
        /\ \A k \in 1 .. Len(<<>>) : FALSE
    BY <1>0, SeqWithin
  <2> QED BY <2>1 DEF Ordinary
<1>3. /\ <<>> \o task_head = task_head /\ task_head \o <<>> = task_head
      /\ (a \o task_head) \o <<>> = a \o task_head
  BY <1>1, ConcatEmpty, ConcatType
<1>4. \/ task_head' = (<<>> \o task_head) \o <<>>
      \/ task_head' = (a \o task_head) \o <<>>
      \/ task_head' = (<<>> \o task_head) \o a
  BY <1>3
<1>5. RequeueInv'
  BY <1>1, <1>2, <1>4, RequeueKept DEF IInv
<1>6. DiscardInv'
  BY ZenonT(40), <1>1, <1>2, <1>4, DiscardKept DEF IInv
<1> QED BY <1>5, <1>6

\* A flusher's tasks and a copy are ordinary.
LEMMA OrdinaryTasks ==
  /\ \A op \in FlusherOp, i \in Flusher : [op |-> op, of |-> i] \in Ordinary
  /\ \A f \in File, e \in Extent : [op |-> "copy", of |-> f, node |-> e] \in Ordinary
BY TaskTypes DEF Ordinary, FlusherOp, DiscardTask


-----------------------------------------------------------------------------
(* The initial state and the steps of the callers.                         *)

\* The invariant holds after cyanfs_super_init and the load of the tree.
LEMMA InvInit ==
  ASSUME Init
  PROVE  IInv
<1>1. Types
  BY TypesInit
<1>2. /\ \A t \in Caller : pc[t] = "idle" /\ writer[t] = NoWriter
      /\ \A i \in Flusher : t_unused[i] = {}
      /\ \A f \in File : extents[f] = NoExtent
  BY DEF Init
<1> USE <1>2
<1>3. LocalsInv /\ HandlerInv /\ DeadInv
  BY DEF LocalsInv, HandlerInv, DeadInv, Caller
<1>4. task_head = <<>> /\ active = NoTask
  BY DEF Init
<1>5. \A k \in 0 .. Len(task_head) : k = 0 /\ TaskAt(k) = NoTask
  BY <1>4, ShortSeqs DEF TaskAt
<1>6. RequeueInv
  <2>1. \A t \in Thread : NoTask # RequeueOf(t)
    BY DEF RequeueOf, NoTask
  <2> QED BY <1>5, <2>1 DEF RequeueInv, AtMostOnce, Queued
<1>7. DiscardInv
  <2>1. NoTask \notin DiscardTask
    BY DEF DiscardTask, NoTask
  <2>2. flags = {} /\ wait_discard_extents = {} /\ discard_extents = {}
    BY DEF Init
  <2> QED BY <1>5, <2>1, <2>2 DEF DiscardInv, AtMostOnce, Queued
<1>8. EpochInv
  <2>1. \A k \in {0, 1} : Holders(k) = {}
    BY TwoEpochs DEF Holders, Caller
  <2>2. writer_current_id = 0 /\ writers = [k \in {0, 1} |-> 0]
    BY DEF Init
  <2>3. writers \in [{0, 1} -> Nat] /\ \A k \in {0, 1} : writers[k] = 0
    BY SMTT(60), <2>2
  <2> QED BY <2>1, <2>2, <2>3, CountsNone, TwoEpochs DEF EpochInv
<1>9. ExtentsPartitioned
  <2>1. HeldUnused = {} /\ MappedExtents = {}
    BY DEF HeldUnused, MappedExtents
  <2>2. 0 \in Extent
    BY ExtentFacts
  <2> QED BY <2>1, <2>2 DEF ExtentsPartitioned, Init
<1> QED BY <1>1, <1>3, <1>6, <1>7, <1>8, <1>9 DEF IInv

\* Steps that only change where a caller without a writer is.
LEMMA InvCallerMoves ==
  ASSUME IInv, Types', NEW t \in Caller, NEW to \in PC,
         pc' = [pc EXCEPT ![t] = to], pc[t] # "wait",
         LocalsInv', EpochInv',
         \A u \in Thread : writer'[u] # NoWriter =>
           writer'[u] = writer[u] /\ file'[u] = file[u] /\ extent'[u] = extent[u],
         UNCHANGED <<pools, nodes, flags, epochs, tasks, flusher>>
  PROVE  IInv'
<1>1. RequeueInv'
  BY QueueFrame DEF IInv
<1>2. DiscardInv'
  <2>1. UNCHANGED <<tasks, Working, wait_discard_extents, discard_extents>>
    BY DEF pools, Working
  <2> QED BY ZenonT(40), <2>1, InvFrame DEF IInv
<1>3. HandlerInv'
  <2>1. UNCHANGED <<unused_extents, flush_extents, extents, t_unused, writer_current_id>>
    BY DEF pools, nodes, flusher, epochs
  <2>2. UNCHANGED HeldUnused
    BY ZenonT(40), <2>1 DEF HeldUnused
  <2> QED BY <2>1, <2>2, HandlerStep DEF IInv
<1>4. DeadInv' /\ ExtentsPartitioned'
  BY InvFrame DEF IInv, flusher, nodes
<1> QED BY <1>1, <1>2, <1>3, <1>4 DEF IInv

\* A flusher with nothing to do, and a write refused or out of space, return.
LEMMA InvReturns ==
  ASSUME IInv, NEW t \in Caller,
         FlusherNothing(t) \/ WriteFails(t) \/ WriteNoSpace(t)
  PROVE  IInv'
<1>1. EpochsType
  BY SMTT(60), EpochTypes DEF IInv
<1>2. Types'
  <2>1. CASE FlusherNothing(t)
    BY <2>1, TypesFlusher DEF IInv
  <2>2. CASE WriteFails(t) \/ WriteNoSpace(t)
    <3>1. file[t] \in File
      BY <2>2 DEF WriteFails, WriteNoSpace, IInv, LocalsInv
    <3> QED BY <1>1, <2>2, <3>1, TypesWrite DEF IInv
  <2> QED BY <2>1, <2>2
<1>3. /\ Return(t) /\ UNCHANGED <<pools, nodes, flags, epochs, tasks, flusher>>
      /\ pc[t] \in {"flush_start", "flush_start_ondisk", "write_start", "write_alloc"}
  BY DEF FlusherNothing, WriteFails, WriteNoSpace
<1> USE <1>3
<1>4. ReturnTo(t, "idle") /\ pc' = [pc EXCEPT ![t] = "idle"] /\ "idle" \in PC
  BY DEF Return, ReturnTo, PC
<1>5. UNCHANGED <<epochs, flush_extents>>
  BY DEF pools
<1>6. /\ LocalsInv' /\ EpochInv'
      /\ \A u \in Thread : writer'[u] # NoWriter =>
           writer'[u] = writer[u] /\ file'[u] = file[u] /\ extent'[u] = extent[u]
  BY <1>4, <1>5, IdleReturn DEF IInv
<1> QED BY <1>2, <1>4, <1>6, InvCallerMoves

\* Steps of a caller that only read the shared state and move on.
LEMMA InvMoves ==
  ASSUME IInv, NEW t \in Caller, NEW f,
         \/ FlusherCheck(t) \/ SuperFlush(t, TRUE) \/ SuperFlush(t, FALSE)
         \/ f \in File /\ (WriteUnmapped(t, f) \/ DiscardCheck(t, f))
  PROVE  IInv'
<1>1. EpochsType
  BY SMTT(60), EpochTypes DEF IInv
<1>2. Types'
  BY ZenonT(40), <1>1, TypesFlusher, TypesWrite DEF IInv
<1>3. /\ UNCHANGED <<pools, nodes, flags, epochs, tasks, flusher, writer, extent>>
      /\ pc[t] \in {"idle", "flush_check", "write_start"}
  BY DEF FlusherCheck, SuperFlush, WriteUnmapped, DiscardCheck, MayWrite, MayCall
<1>4. PICK to \in {"idle", "flush_start", "flush_start_ondisk", "write_alloc",
                   "requeue", "discard_upgrade"} :
        /\ pc' = [pc EXCEPT ![t] = to]
        /\ to \in {"write_alloc", "requeue", "discard_upgrade"}
             => t \in Thread /\ f \in File /\ file' = [file EXCEPT ![t] = f]
        /\ to \notin {"write_alloc", "requeue", "discard_upgrade"} => UNCHANGED file
  <2>1. CASE FlusherCheck(t) \/ SuperFlush(t, TRUE) \/ SuperFlush(t, FALSE)
    BY <2>1 DEF FlusherCheck, SuperFlush, FlusherAt
  <2>2. CASE f \in File /\ WriteUnmapped(t, f)
    <3>1. t \in Thread
      BY <2>2 DEF WriteUnmapped, MayWrite, MayCall, IInv, LocalsInv
    <3> QED BY <2>2, <3>1 DEF WriteUnmapped
  <2>3. CASE f \in File /\ DiscardCheck(t, f)
    BY <2>3 DEF DiscardCheck, MayCall
  <2> QED BY <2>1, <2>2, <2>3
<1>5. /\ file' \in [Caller -> File \cup {None}]
      /\ \A u \in Caller : u # t => file'[u] = file[u]
      /\ to \in {"write_start", "write_alloc", "requeue", "wait", "discard_upgrade"}
           => t \in Thread /\ file'[t] \in File
  BY <1>4 DEF IInv, Types, LocalsType
<1>6. UNCHANGED <<epochs, flush_extents, writer, extent>> /\ to \in PC
  BY <1>3 DEF pools, PC
<1>7. /\ LocalsInv' /\ EpochInv'
      /\ \A u \in Thread : writer'[u] # NoWriter =>
           writer'[u] = writer[u] /\ file'[u] = file[u] /\ extent'[u] = extent[u]
  BY <1>3, <1>4, <1>5, <1>6, IdleMove DEF IInv
<1> QED BY <1>2, <1>3, <1>4, <1>6, <1>7, InvCallerMoves

\* cyanfs_super_flusher_start.
LEMMA InvFlusherStart ==
  ASSUME IInv, NEW t \in Caller, NEW i \in Flusher, FlusherStart(t, i)
  PROVE  IInv'
<1>1. Types'
  BY TypesFlusherStart DEF IInv
<1>2. /\ ReturnTo(t, "idle") /\ pc' = [pc EXCEPT ![t] = "idle"] /\ "idle" \in PC
      /\ pc[t] \in {"flush_start", "flush_start_ondisk"}
  BY DEF FlusherStart, FlusherTasks, Return, ReturnTo, PC
<1>3. UNCHANGED <<epochs, flush_extents>>
  BY DEF FlusherStart, FlusherTasks
<1>4. /\ LocalsInv' /\ EpochInv'
      /\ \A u \in Thread : writer'[u] # NoWriter =>
           writer'[u] = writer[u] /\ file'[u] = file[u] /\ extent'[u] = extent[u]
  BY ZenonT(40), <1>2, <1>3, IdleReturn DEF IInv
<1>5. t_unused[i] = {} /\ t_unused' = [t_unused EXCEPT ![i] = unused_extents]
  BY DEF FlusherStart, FlusherTasks, IInv, DeadInv
<1>6. ExtentsPartitioned'
  <2>1. /\ unused_extents' = {}
        /\ UNCHANGED <<free_extents, flush_extents, wait_discard_extents,
                       discard_extents, journal_extents, extents>>
    BY DEF FlusherStart, FlusherTasks, nodes
  <2> QED BY ZenonT(40), <1>5, <2>1, PartitionStart DEF IInv
<1>7. HandlerInv'
  <2>1. HeldUnused' = (HeldUnused \ t_unused[i]) \cup unused_extents
    BY ZenonT(40), <1>5, HeldUpdate DEF IInv, Types
  <2>2. unused_extents \cup HeldUnused \subseteq (unused_extents \cup HeldUnused)'
    BY <1>5, <2>1
  <2>3. UNCHANGED <<extents, writer_current_id, flush_extents>>
    BY DEF FlusherStart, FlusherTasks, nodes, epochs
  <2> QED BY <1>4, <2>2, <2>3, HandlerStep DEF IInv
<1>8. DeadInv'
  BY DEF FlusherStart, FlusherTasks, DeadInv, IInv, Types, FlusherType
<1>9. RequeueInv' /\ DiscardInv'
  <2> DEFINE a == IF journal_head = <<>> THEN <<>> ELSE <<[op |-> "writer", of |-> i]>>
             b == IF pc[t] = "flush_start_ondisk" THEN <<[op |-> "after", of |-> i]>>
                  ELSE <<>>
             c == <<[op |-> "free", of |-> i]>>
  <2>1. \A op \in {"writer", "after", "free"} : [op |-> op, of |-> i] \in Ordinary
    BY OrdinaryTasks DEF FlusherOp
  <2>2. a \in Seq(Ordinary) /\ b \in Seq(Ordinary) /\ c \in Seq(Ordinary)
    BY SMTT(60), <2>1
  <2>3. task_head' = task_head \o (a \o b \o c)
    BY DEF FlusherStart, FlusherTasks
  <2> HIDE DEF a, b, c
  <2>4. a \o b \o c \in Seq(Ordinary)
    BY SMTT(60), <2>2
  <2>5. UNCHANGED active /\ UNCHANGED <<Working, wait_discard_extents, discard_extents>>
    <3>1. /\ UNCHANGED <<active, wait_discard_extents, discard_extents>>
          /\ flags' \in {flags, flags \cup {"ERROR"}, flags \cup {"FLUSH"}, flags \ {"FLUSH"}}
      BY DEF FlusherStart, FlusherTasks
    <3> QED BY <3>1, OtherFlags DEF Working
  <2>6. \A u \in Thread : pc[u] = "wait" => pc'[u] = "wait"
    BY <1>2 DEF IInv, Types, LocalsType, Caller
  <2> QED BY <2>3, <2>4, <2>5, <2>6, TasksAdded
<1> QED BY <1>1, <1>4, <1>6, <1>7, <1>8, <1>9 DEF IInv

\* cyanfs_write at the label mapped.
LEMMA InvMapped ==
  ASSUME IInv, NEW t \in Caller, NEW f \in File,
         \/ WriteMapped(t, f)
         \/ f = file[t] /\ (WriteRaced(t) \/ WriteAlloc(t))
  PROVE  IInv'
<1>1. EpochsType
  BY EpochTypes DEF IInv
<1>2. Types'
  BY <1>1, TypesWrite, TypesWriteAlloc DEF IInv
<1>3. /\ t \in Thread /\ pc[t] \in {"idle", "write_start", "write_alloc"}
      /\ UNCHANGED <<unused_extents, flush_extents, wait_discard_extents,
                     discard_extents, journal_extents, flags, flusher, active>>
  BY ZenonT(40) DEF WriteMapped, WriteRaced, WriteAlloc, MayWrite, MayCall, IInv, LocalsInv,
         pools, tasks
<1>4. PICK to \in {"submit", "submit_new", "io_error", "requeue"}, e \in Extent :
        /\ Mapped(t, f, e, to) /\ extents'[f] = e
        /\ \/ UNCHANGED <<extents, free_extents, task_head>>
           \/ /\ e \in free_extents /\ free_extents' = free_extents \ {e}
              /\ extents[f] = NoExtent /\ extents' = [extents EXCEPT ![f] = e]
              /\ \/ UNCHANGED task_head
                 \/ task_head' = Append(task_head, [op |-> "copy", of |-> f, node |-> e])
  <2>1. CASE WriteMapped(t, f) \/ (f = file[t] /\ WriteRaced(t))
    <3>1. HandlerOf(f) \in {"submit", "submit_new", "io_error", "requeue"}
      BY DEF HandlerOf
    <3>2. extents[f] \in Extent
      BY <2>1 DEF WriteMapped, WriteRaced, IInv, Types, NodesType
    <3>3. /\ Mapped(t, f, extents[f], HandlerOf(f)) /\ UNCHANGED <<extents, free_extents, task_head>>
      BY ZenonT(40), <2>1 DEF WriteMapped, WriteRaced, nodes, pools, tasks
    <3> QED BY <3>1, <3>2, <3>3
  <2>2. CASE f = file[t] /\ WriteAlloc(t)
    <3>1. PICK e \in free_extents :
            /\ free_extents' = free_extents \ {e}
            /\ extents' = [extents EXCEPT ![f] = e]
            /\ \/ /\ Mapped(t, f, e, "requeue")
                  /\ task_head' = Append(task_head, [op |-> "copy", of |-> f, node |-> e])
               \/ Mapped(t, f, e, "submit_new") /\ UNCHANGED task_head
      BY <2>2 DEF WriteAlloc
    <3>2. e \in Extent /\ extents'[f] = e
      BY <3>1 DEF IInv, Types, PoolsType, NodesType
    <3>3. extents[f] = NoExtent
      BY <2>2 DEF WriteAlloc
    <3> QED BY ZenonT(40), <3>1, <3>2, <3>3
  <2> QED BY <2>1, <2>2
<1>5. /\ LocalsInv' /\ EpochInv'
      /\ file'[t] = f /\ extent'[t] = e
      /\ \A u \in Thread : u # t =>
           writer'[u] = writer[u] /\ file'[u] = file[u] /\ extent'[u] = extent[u]
  <2>1. /\ t \in Thread /\ pc[t] \notin {"submit", "submit_new", "io_error", "requeue"}
        /\ UNCHANGED flush_extents
    BY <1>3
  <2>2. Types /\ LocalsInv /\ EpochInv
    BY DEF IInv
  <2>3. Mapped(t, f, e, to)
    BY <1>4
  <2> QED BY <2>1, <2>2, <2>3, MappedHolds
<1>6. UNCHANGED <<t_unused, t_live, HeldUnused, writer_current_id>>
  <2>1. UNCHANGED <<t_unused, t_live, writer_current_id>>
    BY <1>3, <1>4 DEF flusher, Mapped
  <2> QED BY <2>1 DEF HeldUnused
<1>7. ExtentsPartitioned'
  <2>1. CASE UNCHANGED <<extents, free_extents>>
    BY <1>3, <1>6, <2>1, InvFrame DEF IInv, pools
  <2>2. CASE /\ e \in free_extents /\ free_extents' = free_extents \ {e}
             /\ extents[f] = NoExtent /\ extents' = [extents EXCEPT ![f] = e]
    BY <1>3, <1>6, <2>2, PartitionAlloc DEF IInv
  <2> QED BY <1>4, <2>1, <2>2
<1>8. HandlerInv'
  <2> SUFFICES ASSUME NEW u \in Thread, writer'[u] # NoWriter PROVE HandlerInv!(u)'
    BY DEF HandlerInv
  <2>1. CASE u = t
    BY <1>4, <1>5, <2>1
  <2>2. CASE u # t
    <3>1. writer'[u] = writer[u] /\ file'[u] = file[u] /\ extent'[u] = extent[u]
      BY ZenonT(40), <1>5, <2>2
    <3>2. u \in Caller /\ file[u] \in File /\ extent[u] \in Extent
      BY <3>1 DEF IInv, LocalsInv, Caller
    <3>3. extents[file[u]] = extent[u] => extents'[file[u]] = extents[file[u]]
      <4>1. NoExtent \notin Extent
        BY ExtentFacts
      <4> QED BY <1>4, <3>2, <4>1 DEF IInv, Types, NodesType
    <3> QED BY <1>3, <1>6, <3>1, <3>3 DEF IInv, HandlerInv
  <2> QED BY ZenonT(40), <2>1, <2>2
<1>9. RequeueInv' /\ DiscardInv'
  <2>1. [op |-> "copy", of |-> f, node |-> e] \in Ordinary
    BY OrdinaryTasks
  <2> DEFINE a == <<[op |-> "copy", of |-> f, node |-> e]>>
  <2>2. a \in Seq(Ordinary)
    BY SMTT(60), <2>1
  <2>3. task_head' \in {task_head, task_head \o a}
    <3>1. Append(task_head, [op |-> "copy", of |-> f, node |-> e]) = task_head \o a
      BY <2>1, AppendConcat DEF IInv, Types, QueueType, Ordinary
    <3> QED BY <1>4, <3>1
  <2> HIDE DEF a
  <2>4. UNCHANGED <<Working, wait_discard_extents, discard_extents>>
    BY <1>3 DEF Working
  <2>5. \A u \in Thread : pc[u] = "wait" => pc'[u] = "wait"
    BY <1>3, <1>4 DEF Mapped, IInv, Types, LocalsType, Caller
  <2> QED BY <1>3, <2>2, <2>3, <2>4, <2>5, TasksAdded
<1>10. DeadInv'
  BY <1>6, InvFrame DEF IInv
<1> QED BY <1>2, <1>5, <1>7, <1>8, <1>9, <1>10 DEF IInv

\* The end of a handler.
LEMMA InvWriteDone ==
  ASSUME IInv, NEW t \in Caller, WriteDone(t)
  PROVE  IInv'
<1>1. t \in Thread /\ file[t] \in File /\ writer[t] # NoWriter
  BY DEF WriteDone, IInv, LocalsInv
<1>2. EpochsType /\ Types'
  BY <1>1, EpochTypes, TypesWrite DEF IInv
<1>3. UNCHANGED <<pools, nodes, flags, tasks, flusher, writer_current_id>>
  BY ZenonT(40) DEF WriteDone
<1> USE <1>3
<1>4. PICK to \in {"idle", "flush_check"} : ReturnTo(t, to)
  BY DEF WriteDone, Return, FlushNewJournal
<1>5. EpochInv'
  BY <1>1, <1>4, Released DEF IInv, WriteDone, ReturnTo, pools
<1>6. /\ pc'[t] = to /\ writer'[t] = NoWriter
      /\ \A u \in Caller : u # t => /\ pc'[u] = pc[u] /\ file'[u] = file[u]
                                    /\ writer'[u] = writer[u] /\ extent'[u] = extent[u]
  BY <1>4 DEF ReturnTo, IInv, Types, LocalsType
<1>7. LocalsInv'
  <2> SUFFICES ASSUME NEW u \in Caller PROVE LocalsInv!(u)'
    BY DEF LocalsInv
  <2>1. CASE u = t
    BY <1>6, <2>1
  <2>2. CASE u # t
    BY <1>6, <2>2 DEF IInv, LocalsInv
  <2> QED BY <2>1, <2>2
<1>8. RequeueInv'
  <2>1. pc' = [pc EXCEPT ![t] = to] /\ to \in PC /\ pc[t] # "wait"
    BY <1>4 DEF WriteDone, ReturnTo, PC
  <2> QED BY <2>1, QueueFrame DEF IInv
<1>9. DiscardInv' /\ DeadInv' /\ ExtentsPartitioned'
  <2>1. UNCHANGED <<tasks, Working, wait_discard_extents, discard_extents>>
    BY DEF pools, Working
  <2>2. UNCHANGED <<t_live, t_unused, extents>>
    BY DEF flusher, nodes
  <2> QED BY <2>1, <2>2, InvFrame DEF IInv
<1>10. HandlerInv'
  <2>1. UNCHANGED <<unused_extents, flush_extents, extents, t_unused>>
    BY DEF pools, nodes, flusher
  <2>2. UNCHANGED HeldUnused
    BY <2>1 DEF HeldUnused
  <2>3. \A u \in Thread : writer'[u] # NoWriter =>
          writer'[u] = writer[u] /\ file'[u] = file[u] /\ extent'[u] = extent[u]
    BY <1>6 DEF Caller
  <2> QED BY <2>1, <2>2, <2>3, HandlerStep DEF IInv
<1> QED BY <1>2, <1>5, <1>7, <1>8, <1>9, <1>10 DEF IInv

\* A copy that lost its epoch queues a requeue and waits for it.
LEMMA InvWriteRequeue ==
  ASSUME IInv, NEW t \in Caller, WriteRequeue(t)
  PROVE  IInv'
<1>1. t \in Thread /\ file[t] \in File /\ pc[t] = "requeue"
  BY DEF WriteRequeue, IInv, LocalsInv
<1>2. Types'
  BY <1>1, TypesRequeue DEF IInv
<1>3. /\ UNCHANGED <<pools, nodes, flags, active, flusher, writer_current_id>>
      /\ writer' = [writer EXCEPT ![t] = NoWriter]
      /\ extent' = [extent EXCEPT ![t] = NoExtent]
  BY DEF WriteRequeue, Return, ReturnTo
<1>4. EpochInv'
  <2>1. CASE writer[t] = NoWriter
    <3>1. UNCHANGED <<epochs, writer, flush_extents>>
      BY <1>3, <2>1 DEF WriteRequeue, epochs, pools, IInv, Types, LocalsType
    <3> QED BY <3>1, InvFrame DEF IInv
  <2>2. CASE writer[t] # NoWriter
    BY <1>1, <1>3, <2>2, Released DEF IInv, WriteRequeue, pools
  <2> QED BY <2>1, <2>2
<1>5. PICK to \in {"idle", "wait"} :
        /\ pc' = [pc EXCEPT ![t] = to]
        /\ to = "wait" => /\ file' = file
                          /\ task_head' = Append(task_head, RequeueOf(t))
        /\ to = "idle" => /\ file' = [file EXCEPT ![t] = None]
                          /\ task_head' = task_head
  BY DEF WriteRequeue, Return, ReturnTo, RequeueOf
<1>6. /\ pc'[t] = to /\ writer'[t] = NoWriter /\ (to = "wait" => file'[t] \in File)
      /\ \A u \in Caller : u # t => /\ pc'[u] = pc[u] /\ file'[u] = file[u]
                                    /\ writer'[u] = writer[u] /\ extent'[u] = extent[u]
  BY <1>1, <1>3, <1>5 DEF IInv, Types, LocalsType
<1>7. LocalsInv'
  <2> SUFFICES ASSUME NEW u \in Caller PROVE LocalsInv!(u)'
    BY DEF LocalsInv
  <2>1. CASE u = t
    BY <1>1, <1>6, <2>1
  <2>2. CASE u # t
    BY <1>6, <2>2 DEF IInv, LocalsInv
  <2> QED BY <2>1, <2>2
<1>8. DeadInv' /\ ExtentsPartitioned'
  <2>1. UNCHANGED <<t_live, t_unused, extents>>
    BY <1>3 DEF flusher, nodes
  <2> QED BY <1>3, <2>1, InvFrame DEF IInv
<1>9. HandlerInv'
  <2>1. UNCHANGED <<unused_extents, flush_extents, extents, t_unused>>
    BY <1>3 DEF pools, nodes, flusher
  <2>2. UNCHANGED HeldUnused
    BY <2>1 DEF HeldUnused
  <2>3. \A u \in Thread : writer'[u] # NoWriter =>
          writer'[u] = writer[u] /\ file'[u] = file[u] /\ extent'[u] = extent[u]
    BY <1>6 DEF Caller
  <2> QED BY <1>3, <2>1, <2>2, <2>3, HandlerStep DEF IInv
<1>10. UNCHANGED <<Working, wait_discard_extents, discard_extents>>
  BY <1>3 DEF Working, pools
<1>11. RequeueInv' /\ DiscardInv'
  <2>1. CASE to = "idle"
    <3>1. UNCHANGED tasks /\ to \in PC /\ pc[t] # "wait"
      BY <1>1, <1>3, <1>5, <2>1 DEF tasks, PC
    <3> QED BY <1>5, <1>10, <3>1, QueueFrame, InvFrame DEF IInv
  <2>2. CASE to = "wait"
    <3> DEFINE b == <<RequeueOf(t)>>
    <3>1. RequeueOf(t) \in Task /\ RequeueOf(t) \notin DiscardTask
      BY <1>1, TaskTypes DEF RequeueOf, DiscardTask
    <3>2. task_head \in Seq(Task) /\ <<>> \in Seq(Task) /\ b \in Seq(Task)
      BY SMTT(60), <3>1 DEF IInv, Types, QueueType
    <3>3. task_head' = (<<>> \o task_head) \o b
      BY <1>5, <2>2, <3>1, <3>2, AppendConcat, ConcatEmpty
    <3>4. /\ \A k \in 1 .. Len(<<>>) : FALSE
          /\ \A k \in 1 .. Len(b) : b[k] = RequeueOf(t)
      BY SMTT(60)
    <3> HIDE DEF b
    <3>5. DiscardInv'
      BY <1>3, <1>10, <3>1, <3>2, <3>3, <3>4, DiscardKept DEF IInv
    <3>6. ASSUME NEW u \in Thread, u # t
          PROVE  AtMostOnce({RequeueOf(u)})' /\ (Queued(RequeueOf(u))' => pc'[u] = "wait")
      <4>1. NoTask \notin {RequeueOf(u)} /\ RequeueOf(t) \notin {RequeueOf(u)}
        BY <3>6 DEF NoTask, RequeueOf
      <4>2. /\ AtMostOnce({RequeueOf(u)}) => AtMostOnce({RequeueOf(u)})'
            /\ \A x \in {RequeueOf(u)} : Queued(x)' => Queued(x)
        BY <1>3, <3>2, <3>3, <3>4, <4>1, QueueAdd DEF IInv
      <4>3. u \in Caller
        BY DEF Caller
      <4> QED BY <1>6, <3>6, <4>2, <4>3 DEF IInv, RequeueInv
    <3>7. AtMostOnce({RequeueOf(t)})'
      <4>1. ~Queued(RequeueOf(t))
        BY <1>1 DEF IInv, RequeueInv
      <4>2. /\ active \notin {RequeueOf(t)}
            /\ \A k \in 1 .. Len(task_head) : task_head[k] \notin {RequeueOf(t)}
        BY SMTT(60), <3>2, <4>1 DEF Queued, TaskAt
      <4> QED BY <1>3, <1>5, <2>2, <4>2, QueueNew DEF IInv
    <3>8. RequeueInv'
      BY <1>6, <2>2, <3>6, <3>7 DEF RequeueInv
    <3> QED BY <3>5, <3>8
  <2> QED BY <2>1, <2>2
<1> QED BY <1>2, <1>4, <1>7, <1>8, <1>9, <1>11 DEF IInv

\* Discard, truncate and delete.
LEMMA InvUnmap ==
  ASSUME IInv, NEW t \in Caller, NEW f \in File,
         (f = file[t] /\ DiscardUnmap(t)) \/ Truncate(t, f) \/ Delete(t, f)
  PROVE  IInv'
<1>1. Types'
  BY TypesDiscard DEF IInv
<1>2. /\ pc[t] \in {"discard_upgrade", "idle"}
      /\ UNCHANGED <<free_extents, flush_extents, wait_discard_extents,
                     discard_extents, journal_extents, flags, epochs, tasks, flusher>>
  BY DEF DiscardUnmap, Truncate, Delete, TruncateOrDelete, MayCall
<1> USE <1>2
<1>3. PICK to \in {"idle", "flush_check"} : ReturnTo(t, to)
  BY DEF DiscardUnmap, Truncate, Delete, TruncateOrDelete, Return, FlushNewJournal
<1>4. \/ UNCHANGED <<extents, unused_extents>>
      \/ /\ extents' = [extents EXCEPT ![f] = NoExtent]
         /\ unused_extents' = unused_extents \cup ({extents[f]} \ {NoExtent})
  BY DEF DiscardUnmap, Truncate, Delete, TruncateOrDelete, Unmap, nodes
<1>5. /\ LocalsInv' /\ EpochInv'
      /\ \A u \in Thread : writer'[u] # NoWriter =>
           writer'[u] = writer[u] /\ file'[u] = file[u] /\ extent'[u] = extent[u]
  BY <1>3, IdleReturn DEF IInv
<1>6. UNCHANGED <<t_live, t_unused, HeldUnused, writer_current_id>>
  BY DEF flusher, HeldUnused, epochs
<1> USE <1>6
<1>7. ExtentsPartitioned'
  <2>1. CASE UNCHANGED <<extents, unused_extents>>
    BY <2>1, InvFrame DEF IInv, pools
  <2>2. CASE /\ extents' = [extents EXCEPT ![f] = NoExtent]
             /\ unused_extents' = unused_extents \cup ({extents[f]} \ {NoExtent})
    BY <2>2, PartitionUnmap DEF IInv
  <2> QED BY <1>4, <2>1, <2>2
<1>8. HandlerInv'
  <2>1. NoExtent \notin Extent
    BY ExtentFacts
  <2>2. unused_extents \cup HeldUnused \subseteq (unused_extents \cup HeldUnused)'
    BY <1>4
  <2>3. \A g \in File : extents[g] \in Extent =>
          extents'[g] = extents[g] \/ extents[g] \in (unused_extents \cup HeldUnused)'
    BY <1>4, <2>1 DEF IInv, Types, NodesType
  <2> QED BY <1>5, <2>2, <2>3, HandlerStep DEF IInv
<1>9. RequeueInv'
  <2>1. pc' = [pc EXCEPT ![t] = to] /\ to \in PC /\ pc[t] # "wait"
    BY <1>3 DEF ReturnTo, PC
  <2> QED BY <2>1, QueueFrame DEF IInv
<1>10. DiscardInv' /\ DeadInv'
  <2>1. UNCHANGED Working
    BY DEF Working
  <2> QED BY <2>1, InvFrame DEF IInv
<1> QED BY <1>1, <1>5, <1>7, <1>8, <1>9, <1>10 DEF IInv

\* Every step of a caller preserves the invariant.
LEMMA InvStep ==
  ASSUME IInv, NEW t \in Caller, Step(t)
  PROVE  IInv'
<1>1. CASE FlusherCheck(t) \/ SuperFlush(t, TRUE)
  BY <1>1, InvMoves
<1>2. CASE FlusherNothing(t) \/ WriteFails(t) \/ WriteNoSpace(t)
  BY <1>2, InvReturns
<1>3. CASE \E i \in Flusher : FlusherStart(t, i)
  BY <1>3, InvFlusherStart
<1>4. CASE \E f \in File : WriteUnmapped(t, f) \/ DiscardCheck(t, f)
  BY <1>4, InvMoves
<1>5. CASE \E f \in File : WriteMapped(t, f)
  BY <1>5, InvMapped
<1>6. CASE WriteRaced(t) \/ WriteAlloc(t)
  <2>1. file[t] \in File
    BY <1>6 DEF WriteRaced, WriteAlloc, IInv, LocalsInv
  <2> QED BY <1>6, <2>1, InvMapped
<1>7. CASE WriteDone(t)
  BY <1>7, InvWriteDone
<1>8. CASE WriteRequeue(t)
  BY <1>8, InvWriteRequeue
<1>9. CASE \E f \in File : Truncate(t, f) \/ Delete(t, f)
  BY <1>9, InvUnmap
<1>10. CASE DiscardUnmap(t)
  <2>1. file[t] \in File
    BY <1>10 DEF DiscardUnmap, IInv, LocalsInv
  <2> QED BY <1>10, <2>1, InvUnmap
<1> QED BY <1>1, <1>2, <1>3, <1>4, <1>5, <1>6, <1>7, <1>8, <1>9, <1>10 DEF Step

-----------------------------------------------------------------------------
(* The steps of the executor.                                              *)

\* The executor takes the next task (cyanfs_executor_get_task).
LEMMA InvGetTask ==
  ASSUME IInv, GetTask
  PROVE  IInv'
<1>1. Types'
  BY TypesGetTask DEF IInv
<1>2. UNCHANGED <<pools, nodes, flags, epochs, flusher, locals>>
  BY DEF GetTask
<1>3. UNCHANGED <<pc, writer, file, extent, flush_extents, unused_extents, extents,
                  t_live, t_unused, writer_current_id, Working,
                  wait_discard_extents, discard_extents>>
  BY <1>2 DEF pools, nodes, epochs, flusher, locals, Working
<1>4. LocalsInv' /\ EpochInv' /\ HandlerInv' /\ DeadInv' /\ ExtentsPartitioned'
  BY <1>2, <1>3, InvFrame DEF IInv
<1>5. RequeueInv'
  <2> SUFFICES ASSUME NEW u \in Thread
               PROVE  AtMostOnce({RequeueOf(u)})' /\ (Queued(RequeueOf(u))' => pc'[u] = "wait")
    BY DEF RequeueInv
  <2>1. NoTask \notin {RequeueOf(u)}
    BY DEF NoTask, RequeueOf
  <2>2. /\ AtMostOnce({RequeueOf(u)}) => AtMostOnce({RequeueOf(u)})'
        /\ \A x \in {RequeueOf(u)} : Queued(x)' <=> Queued(x)
    BY <2>1, QueueGet DEF IInv
  <2> QED BY <1>3, <2>2 DEF IInv, RequeueInv
<1>6. DiscardInv'
  <2>1. NoTask \notin DiscardTask /\ [op |-> "discard_begin", of |-> None] \in DiscardTask
    BY DEF NoTask, DiscardTask
  <2>2. /\ AtMostOnce(DiscardTask) => AtMostOnce(DiscardTask)'
        /\ \A x \in DiscardTask : Queued(x)' <=> Queued(x)
    BY <2>1, QueueGet DEF IInv
  <2> QED BY <1>2, <1>3, <2>1, <2>2 DEF IInv, DiscardInv
<1> QED BY <1>1, <1>4, <1>5, <1>6 DEF IInv

\* A flusher task ends and leaves the extents in the trees alone.
LEMMA InvExecutor ==
  ASSUME IInv, Types', NEW a \in Seq(Ordinary),
         task_head' \in {task_head, a \o task_head}, active' = NoTask,
         active \notin DiscardTask,
         UNCHANGED <<locals, epochs, unused_extents, flush_extents, t_live, t_unused,
                     extents, wait_discard_extents, discard_extents, Working>>,
         ExtentsPartitioned'
  PROVE  IInv'
<1>1. UNCHANGED <<pc, writer, file, extent, writer_current_id>>
  BY DEF locals, epochs
<1>2. LocalsInv' /\ EpochInv' /\ HandlerInv' /\ DeadInv'
  BY <1>1, InvFrame DEF IInv
<1>3. \A u \in Thread : pc[u] = "wait" => pc'[u] = "wait"
  BY <1>1
<1>4. RequeueInv' /\ DiscardInv'
  BY <1>3, TasksAdded
<1> QED BY <1>2, <1>4 DEF IInv

\* The task of a flusher is no discard task.
LEMMA FlusherTask ==
  ASSUME NEW op \in FlusherOp, NEW i \in Flusher, DoneFor(op, i)
  PROVE  active' = NoTask /\ active \notin DiscardTask
BY ZenonT(40) DEF DoneFor, Done, FlusherOp, DiscardTask

\* The journal writer of a flusher encodes entries, finishes or fails.
LEMMA InvWriter ==
  ASSUME IInv, NEW i \in Flusher, NEW op \in {"writer", "write"},
         \/ \E err : WriterFails(op, i, err)
         \/ WriterFinishes(op, i)
         \/ \E n \in 1 .. Len(t_head[i]), next \in BOOLEAN : WriterEncodes(op, i, n, next)
  PROVE  IInv'
<1>1. Types'
  BY TypesWriterEnds, TypesWriterEncodes DEF IInv
<1>2. PICK err : Written(op, i, err)
  BY DEF WriterFails, WriterFinishes, WriterEncodes
<1>3. active' = NoTask /\ active \notin DiscardTask
  BY <1>2, FlusherTask DEF Written, FlusherOp
<1>4. UNCHANGED <<locals, epochs, unused_extents, flush_extents, t_live, t_unused,
                  extents, wait_discard_extents, discard_extents>>
  BY <1>2 DEF Written, nodes
<1>5. UNCHANGED Working
  <2>1. flags' \in {flags, flags \cup {"ERROR"}, flags \cup {"FLUSH"}}
    <3>1. CASE \E e : WriterFails(op, i, e)
      BY <3>1 DEF WriterFails
    <3>2. CASE WriterFinishes(op, i)
      BY <3>2 DEF WriterFinishes
    <3>3. CASE \E n \in 1 .. Len(t_head[i]), next \in BOOLEAN : WriterEncodes(op, i, n, next)
      BY ZenonT(40), <3>3 DEF WriterEncodes
    <3> QED BY <3>1, <3>2, <3>3
  <2> QED BY <2>1, OtherFlags DEF Working
<1>6. ExtentsPartitioned'
  <2>1. CASE UNCHANGED <<free_extents, journal_extents>>
    <3>1. UNCHANGED <<pools, extents, t_unused>>
      BY <1>4, <2>1 DEF pools
    <3> QED BY <3>1, InvFrame DEF IInv
  <2>2. CASE \E e \in free_extents : /\ free_extents' = free_extents \ {e}
                                     /\ journal_extents' = journal_extents \cup {e}
    BY <1>4, <2>2, PartitionLink DEF IInv
  <2>3. \/ UNCHANGED <<free_extents, journal_extents>>
        \/ \E e \in free_extents : /\ free_extents' = free_extents \ {e}
                                   /\ journal_extents' = journal_extents \cup {e}
    <3>1. CASE (\E e : WriterFails(op, i, e)) \/ WriterFinishes(op, i)
      BY <3>1 DEF WriterFails, WriterFinishes
    <3>2. CASE \E n \in 1 .. Len(t_head[i]), next \in BOOLEAN : WriterEncodes(op, i, n, next)
      BY <3>2 DEF WriterEncodes
    <3> QED BY <3>1, <3>2
  <2> QED BY <2>1, <2>2, <2>3
<1>7. \E a \in Seq(Ordinary) : task_head' \in {task_head, a \o task_head}
  <2>1. CASE UNCHANGED task_head
    <3>1. <<>> \in Seq(Ordinary)
      BY SMTT(60)
    <3> QED BY <2>1, <3>1
  <2>2. CASE \E n \in 1 .. Len(t_head[i]), next \in BOOLEAN : WriterEncodes(op, i, n, next)
    <3>1. PICK n \in 1 .. Len(t_head[i]), next \in BOOLEAN : WriterEncodes(op, i, n, next)
      BY <2>2
    <3> DEFINE first == AnyFlush(SubSeq(t_head[i], 1, n)) /\ ~t_flush_before_write[i]
               a == IF first THEN <<[op |-> "before", of |-> i]>> ELSE <<>>
               b == <<[op |-> "write", of |-> i]>>
    <3>2. task_head' = (a \o b) \o task_head
      BY <3>1 DEF WriterEncodes
    <3>3. [op |-> "before", of |-> i] \in Ordinary /\ [op |-> "write", of |-> i] \in Ordinary
      BY ZenonT(40), OrdinaryTasks DEF FlusherOp
    <3>4. a \in Seq(Ordinary) /\ b \in Seq(Ordinary)
      BY SMTT(60), <3>3
    <3> HIDE DEF a, b
    <3>5. a \o b \in Seq(Ordinary)
      BY SMTT(60), <3>4
    <3> QED BY <3>2, <3>5
  <2> QED BY <2>1, <2>2 DEF WriterFails, WriterFinishes
<1> QED BY ZenonT(40), <1>1, <1>3, <1>4, <1>5, <1>6, <1>7, InvExecutor

\* The device flush before and after the journal write completes.
LEMMA InvFlushDone ==
  ASSUME IInv, NEW i \in Flusher, NEW err \in BOOLEAN,
         BeforeWriteFlushDone(i, err) \/ AfterFlush(i, err)
  PROVE  IInv'
<1>1. Types'
  BY TypesFlushDone DEF IInv
<1>2. active' = NoTask /\ active \notin DiscardTask
  BY ZenonT(40), FlusherTask DEF BeforeWriteFlushDone, AfterFlush, FlusherOp
<1>3. UNCHANGED <<locals, epochs, unused_extents, flush_extents, t_live, t_unused,
                  extents, wait_discard_extents, discard_extents, task_head>>
  BY DEF BeforeWriteFlushDone, AfterFlush, nodes, pools, flusher
<1>4. UNCHANGED Working
  <2>1. flags' \in {flags, flags \cup {"ERROR"}, flags \cup {"FLUSH"}, flags \ {"FLUSH"}}
    BY DEF BeforeWriteFlushDone, AfterFlush
  <2> QED BY <2>1, OtherFlags DEF Working
<1>5. ExtentsPartitioned'
  BY <1>3, InvFrame DEF IInv, BeforeWriteFlushDone, AfterFlush
<1>6. <<>> \in Seq(Ordinary)
  BY ShortSeqs
<1> QED BY <1>1, <1>2, <1>3, <1>4, <1>5, <1>6, InvExecutor

\* The flusher's extents move and the epoch changes: before_write_flush and
\* before_flush.
LEMMA InvBefore ==
  ASSUME IInv, NEW i \in Flusher, BeforeWriteFlush(i) \/ BeforeFlush(i)
  PROVE  IInv'
<1>1. Types'
  BY TypesBefore DEF IInv
<1>2. active' = NoTask /\ active \notin DiscardTask
  BY FlusherTask DEF BeforeWriteFlush, BeforeFlush, FlusherOp
<1>3. UNCHANGED <<locals, writers, free_extents, unused_extents, wait_discard_extents,
                  discard_extents, journal_extents, t_live, extents, flags>>
  BY ZenonT(40) DEF BeforeWriteFlush, BeforeFlush, nodes
<1> USE <1>3
<1>4. UNCHANGED <<Working, pc, file, writer, extent>>
  BY DEF Working, locals
<1> USE <1>4
<1>5. PICK a \in Seq(Ordinary) : task_head' \in {task_head, a \o task_head}
  <2>1. \A x \in {"before_flush", "after_flush"} : [op |-> x, of |-> i] \in Ordinary
    BY OrdinaryTasks DEF FlusherOp
  <2>2. /\ <<[op |-> "before_flush", of |-> i]>> \in Seq(Ordinary)
        /\ <<[op |-> "after_flush", of |-> i]>> \in Seq(Ordinary)
        /\ <<>> \in Seq(Ordinary)
    BY <2>1, ShortSeqs
  <2>3. \/ task_head' = task_head
        \/ task_head' = <<[op |-> "before_flush", of |-> i]>> \o task_head
        \/ task_head' = <<[op |-> "after_flush", of |-> i]>> \o task_head
    BY ZenonT(40) DEF BeforeWriteFlush, BeforeFlush
  <2> QED BY <2>2, <2>3
<1>6. RequeueInv' /\ DiscardInv'
  BY <1>2, <1>5, TasksAdded
<1>7. LocalsInv'
  BY InvFrame DEF IInv
<1>8. \/ UNCHANGED <<t_unused, flush_extents, writer_current_id>>
      \/ /\ flush_extents = {} /\ t_unused[i] # {}
         /\ flush_extents' = t_unused[i]
         /\ t_unused' = [t_unused EXCEPT ![i] = {}]
         /\ writer_current_id' = 1 - writer_current_id
  BY DEF BeforeWriteFlush, BeforeFlush, MoveToFlush
<1>9. CASE UNCHANGED <<t_unused, flush_extents, writer_current_id>>
  <2>1. UNCHANGED <<pools, epochs>>
    BY <1>9 DEF pools, epochs
  <2> QED BY <1>1, <1>6, <1>7, <1>9, <2>1, InvFrame DEF IInv
<1>10. CASE /\ flush_extents = {} /\ t_unused[i] # {}
            /\ flush_extents' = t_unused[i]
            /\ t_unused' = [t_unused EXCEPT ![i] = {}]
            /\ writer_current_id' = 1 - writer_current_id
  <2>1. ExtentsPartitioned'
    BY ZenonT(40), <1>10, PartitionMove DEF IInv
  <2>2. DeadInv'
    BY <1>10 DEF IInv, DeadInv, Types, FlusherType
  <2>3. EpochInv'
    <3>1. EpochInv /\ 1 - writer_current_id \in {0, 1}
      BY TwoEpochs DEF IInv, EpochInv
    <3>2. UNCHANGED writers /\ \A k \in {0, 1} : Holders(k)' = Holders(k)
      BY DEF BeforeWriteFlush, BeforeFlush, MoveToFlush, Holders
    <3>3. flush_extents' # {}
      BY <1>10
    <3> QED BY <1>10, <3>1, <3>2, <3>3 DEF EpochInv
  <2>4. HeldUnused' = (HeldUnused \ t_unused[i]) \cup {}
    BY <1>10, HeldUpdate DEF IInv, Types
  <2>5. HandlerInv'
    <3> SUFFICES ASSUME NEW u \in Thread, writer'[u] # NoWriter PROVE HandlerInv!(u)'
      BY DEF HandlerInv
    <3>1. writer[u] \in {0, 1} /\ writer[u] # 1 - writer_current_id
      BY <1>10 DEF IInv, EpochInv, Holders, Types, LocalsType, Caller
    <3>2. writer[u] = 1 - writer_current_id'
      <4>1. writer_current_id \in {0, 1}
        BY DEF IInv, EpochInv
      <4> QED BY <1>10, <3>1, <4>1, TwoEpochs
    <3>3. extents[file[u]] = extent[u] \/ extent[u] \in unused_extents \cup HeldUnused
      BY <1>10 DEF IInv, HandlerInv
    <3> QED BY <1>10, <2>4, <3>2, <3>3
  <2> QED BY <1>1, <1>6, <1>7, <2>1, <2>2, <2>3, <2>5 DEF IInv
<1> QED BY <1>8, <1>9, <1>10

\* The requeue tasks when another task ends and none is added.
LEMMA RequeueEnds ==
  ASSUME IInv, active' = NoTask, UNCHANGED pc,
         \/ UNCHANGED task_head
         \/ \E x \in DiscardTask : task_head' = Append(task_head, x)
  PROVE  RequeueInv'
<1>1. task_head \in Seq(Task) /\ <<>> \in Seq(Task)
  BY ShortSeqs DEF IInv, Types, QueueType
<1> USE <1>1
<1>2. PICK b \in Seq(Task) : /\ task_head' = (<<>> \o task_head) \o b
                             /\ \A k \in 1 .. Len(b) : b[k].op # "requeue"
  <2>1. CASE UNCHANGED task_head
    <3>1. task_head' = (<<>> \o task_head) \o <<>> /\ \A k \in 1 .. Len(<<>>) : FALSE
      BY <2>1, ConcatEmpty, ShortSeqs
    <3> QED BY <3>1
  <2>2. CASE \E x \in DiscardTask : task_head' = Append(task_head, x)
    <3>1. PICK x \in DiscardTask : task_head' = Append(task_head, x)
      BY <2>2
    <3>2. x \in Task /\ x.op # "requeue"
      BY DEF Task, DiscardTask
    <3>3. <<x>> \in Seq(Task) /\ \A k \in 1 .. Len(<<x>>) : <<x>>[k] = x
      BY <3>2, ShortSeqs
    <3>4. task_head' = (<<>> \o task_head) \o <<x>>
      BY <3>1, <3>2, AppendConcat, ConcatEmpty
    <3> QED BY <3>2, <3>3, <3>4
  <2> QED BY <2>1, <2>2
<1>3. \A k \in 1 .. Len(<<>>) : FALSE
  BY ShortSeqs
<1> QED BY <1>2, <1>3, RequeueKept DEF IInv

\* cyanfs_super_flusher_after_flush reclaims.
LEMMA InvReclaim ==
  ASSUME IInv, NEW i \in Flusher, AfterFlushReclaim(i)
  PROVE  IInv'
<1>1. Types'
  BY TypesReclaim DEF IInv
<1>2. active' = NoTask /\ active \notin DiscardTask
  BY FlusherTask DEF AfterFlushReclaim, DiscardExtents, FlusherOp
<1> USE <1>2
<1>3. UNCHANGED <<unused_extents, discard_extents, journal_extents, nodes, epochs,
                  flusher, locals>>
  BY DEF AfterFlushReclaim, DiscardExtents
<1> USE <1>3
<1>4. UNCHANGED <<extents, t_live, t_unused, HeldUnused, writer_current_id, writers,
                  pc, file, writer, extent>>
  BY DEF nodes, flusher, HeldUnused, epochs, locals
<1> USE <1>4
<1>5. LocalsInv' /\ DeadInv'
  BY InvFrame DEF IInv
<1>6. Holders(1 - writer_current_id) = {}
  <2>1. 1 - writer_current_id \in {0, 1} /\ writers[1 - writer_current_id] = 0
    BY TwoEpochs DEF AfterFlushReclaim, DiscardExtents, IInv, EpochInv
  <2> QED BY <2>1, CountsNone DEF IInv, EpochInv
<1>7. EpochInv'
  BY <1>6 DEF IInv, EpochInv, Holders
<1>8. HandlerInv'
  BY <1>6 DEF IInv, HandlerInv, Holders
<1>9. ExtentsPartitioned'
  BY PartitionPools DEF IInv, AfterFlushReclaim, DiscardExtents
<1> DEFINE begin == [op |-> "discard_begin", of |-> None]
<1>10. begin \in DiscardTask /\ NoTask \notin DiscardTask
  BY DEF DiscardTask, NoTask
<1> USE <1>10
<1>11. task_head \in Seq(Task)
  BY DEF IInv, Types, QueueType
<1>12. \/ task_head' = task_head /\ UNCHANGED <<Working, wait_discard_extents>>
       \/ task_head' = task_head /\ Working /\ Working'
       \/ task_head' = Append(task_head, begin) /\ ~Working /\ Working'
  BY DEF AfterFlushReclaim, DiscardExtents, Working
<1>13. RequeueInv'
  BY <1>12, RequeueEnds
<1>14. DiscardInv'
  <2>1. ASSUME task_head' = task_head, Working' <=> Working,
               ~Working => UNCHANGED wait_discard_extents
        PROVE  DiscardInv'
    <3>1. task_head' = (<<>> \o task_head) \o <<>> /\ <<>> \in Seq(Task)
          /\ \A k \in 1 .. Len(<<>>) : FALSE
      BY <1>11, <2>1, ConcatEmpty, ShortSeqs
    <3>2. /\ AtMostOnce(DiscardTask) => AtMostOnce(DiscardTask)'
          /\ \A x \in DiscardTask : Queued(x)' => Queued(x)
          /\ \A x \in DiscardTask : Queued(x) /\ (active' = active \/ active # x) => Queued(x)'
      BY <3>1, QueueAdd DEF IInv
    <3>3. \A x \in DiscardTask : Queued(x)' <=> Queued(x)
      BY <3>2
    <3> QED BY <2>1, <3>2, <3>3 DEF IInv, DiscardInv, Working
  <2>2. CASE task_head' = Append(task_head, begin) /\ ~Working /\ Working'
    <3>1. \A x \in DiscardTask : ~Queued(x)
      BY <2>2 DEF IInv, DiscardInv, Working
    <3>2. \A k \in 1 .. Len(task_head) : task_head[k] \notin DiscardTask
      BY <1>11, <3>1, QueuePlaces DEF Queued, TaskAt
    <3>3. /\ AtMostOnce(DiscardTask)'
          /\ \A x \in DiscardTask : Queued(x)' <=> x = begin
      BY <2>2, <3>2, QueueNew DEF IInv
    <3>4. discard_extents' = {}
      BY <2>2 DEF IInv, DiscardInv, Working
    <3> QED BY <2>2, <3>3, <3>4 DEF DiscardInv, Working
  <2>3. CASE task_head' = task_head /\ UNCHANGED <<Working, wait_discard_extents>>
    BY <2>1, <2>3 DEF Working
  <2>4. CASE task_head' = task_head /\ Working /\ Working'
    BY <2>1, <2>4
  <2> QED BY <1>12, <2>2, <2>3, <2>4
<1> QED BY <1>1, <1>5, <1>7, <1>8, <1>9, <1>13, <1>14 DEF IInv

\* cyanfs_super_flusher_free.
LEMMA InvFlusherFree ==
  ASSUME IInv, NEW i \in Flusher, FlusherFree(i)
  PROVE  IInv'
<1>1. Types'
  BY TypesFlusherFree DEF IInv
<1>2. active' = NoTask /\ active \notin DiscardTask
  BY FlusherTask DEF FlusherFree, FlusherOp
<1>3. /\ UNCHANGED <<free_extents, flush_extents, wait_discard_extents, discard_extents,
                     journal_extents, nodes, epochs, locals, task_head>>
      /\ unused_extents' = unused_extents \cup t_unused[i]
      /\ t_unused' = [t_unused EXCEPT ![i] = {}]
      /\ t_live' = [t_live EXCEPT ![i] = FALSE]
  BY DEF FlusherFree
<1> USE <1>3
<1>4. UNCHANGED <<extents, writer_current_id, pc, file, writer, extent>>
  BY DEF nodes, epochs, locals
<1> USE <1>4
<1>5. UNCHANGED Working
  <2>1. flags' \in {flags, flags \cup {"ERROR"}, flags \cup {"FLUSH"}, flags \ {"FLUSH"}}
    BY DEF FlusherFree
  <2> QED BY <2>1, OtherFlags DEF Working
<1>6. LocalsInv' /\ EpochInv'
  BY InvFrame DEF IInv
<1>7. ExtentsPartitioned'
  BY PartitionFree DEF IInv
<1>8. DeadInv'
  BY DEF IInv, DeadInv, Types, FlusherType
<1>9. HandlerInv'
  <2>1. HeldUnused' = (HeldUnused \ t_unused[i]) \cup {}
    BY ZenonT(40), HeldUpdate DEF IInv, Types
  <2>2. unused_extents \cup HeldUnused \subseteq (unused_extents \cup HeldUnused)'
    BY <2>1
  <2> QED BY <2>2, HandlerStep DEF IInv
<1>10. RequeueInv' /\ DiscardInv'
  <2>1. <<>> \in Seq(Ordinary)
    BY ShortSeqs
  <2> QED BY <1>2, <1>5, <2>1, TasksAdded
<1> QED BY <1>1, <1>6, <1>7, <1>8, <1>9, <1>10 DEF IInv

\* The discard task.
LEMMA InvDiscardTask ==
  ASSUME IInv, DiscardBegin \/ DiscardDone
  PROVE  IInv'
<1>1. Types'
  BY TypesDiscardTask DEF IInv
<1>2. /\ active' = NoTask /\ active \in DiscardTask /\ DiscardNext
      /\ UNCHANGED <<unused_extents, flush_extents, journal_extents, nodes, epochs,
                     flusher, locals>>
  <2>1. /\ [op |-> "discard_begin", of |-> None] \in DiscardTask
        /\ [op |-> "discard_io", of |-> None] \in DiscardTask
    BY DEF DiscardTask
  <2> QED BY <2>1 DEF DiscardBegin, DiscardDone, DoneFor, Done
<1> USE <1>2
<1>3. UNCHANGED <<extents, t_live, t_unused, writer_current_id, pc, file, writer, extent>>
  BY DEF nodes, flusher, epochs, locals
<1>4. LocalsInv' /\ EpochInv' /\ HandlerInv' /\ DeadInv'
  BY <1>3, InvFrame DEF IInv
<1>5. task_head \in Seq(Task) /\ Len(task_head) \in Nat
  BY QueuePlaces DEF IInv, Types, QueueType
<1>6. Queued(active) /\ Working
  <2>1. Queued(active)
    BY <1>5, QueuePlaces DEF Queued, TaskAt
  <2> QED BY <2>1 DEF IInv, DiscardInv, Working
<1>7. \A k \in 1 .. Len(task_head) : task_head[k] \notin DiscardTask
  <2> SUFFICES ASSUME NEW k \in 1 .. Len(task_head), task_head[k] \in DiscardTask
               PROVE  FALSE
    OBVIOUS
  <2>1. /\ k \in 0 .. Len(task_head) /\ 0 \in 0 .. Len(task_head)
        /\ TaskAt(k) \in DiscardTask /\ TaskAt(0) \in DiscardTask
    BY <1>5, QueuePlaces DEF TaskAt
  <2>2. k = 0
    BY <2>1 DEF IInv, DiscardInv, AtMostOnce
  <2> QED BY <1>5, <2>2, QueuePlaces
<1>8. ExtentsPartitioned'
  <2>1. FirstRun(wait_discard_extents) \subseteq wait_discard_extents
    BY DEF FirstRun
  <2>2. free_extents' = free_extents \cup discard_extents
    <3>1. CASE DiscardBegin
      <4>1. active = [op |-> "discard_begin", of |-> None] /\ UNCHANGED free_extents
        BY <3>1 DEF DiscardBegin, DoneFor, Done
      <4>2. discard_extents = {}
        BY ZenonT(40), <1>6, <4>1 DEF IInv, DiscardInv
      <4> QED BY <4>1, <4>2
    <3>2. CASE DiscardDone
      BY <3>2 DEF DiscardDone
    <3> QED BY <3>1, <3>2
  <2> QED BY <1>3, <2>1, <2>2, PartitionPools DEF IInv, DiscardNext
<1> DEFINE io == [op |-> "discard_io", of |-> None]
<1>9. /\ io \in DiscardTask /\ NoTask \notin DiscardTask
      /\ io # [op |-> "discard_begin", of |-> None]
      /\ [op |-> "discard_begin", of |-> None] \in DiscardTask
  BY DEF DiscardTask, NoTask
<1> USE <1>9
<1>10. RequeueInv'
  BY <1>3, RequeueEnds DEF DiscardNext
<1>11. DiscardInv'
  <2>1. CASE wait_discard_extents = {}
    <3>1. /\ UNCHANGED task_head /\ ~Working'
          /\ wait_discard_extents' = {} /\ discard_extents' = {}
      BY <2>1 DEF DiscardNext, FirstRun, Working
    <3>2. \A k \in 0 .. Len(task_head') : TaskAt(k)' \notin DiscardTask
      <4> SUFFICES ASSUME NEW k \in 0 .. Len(task_head) PROVE TaskAt(k)' \notin DiscardTask
        BY <3>1
      <4>1. CASE k = 0
        BY <4>1 DEF TaskAt
      <4>2. CASE k # 0
        <5>1. k \in 1 .. Len(task_head)
          BY SMTT(60), <1>5, <4>2
        <5> QED BY <1>7, <3>1, <4>2, <5>1 DEF TaskAt
      <4> QED BY <4>1, <4>2
    <3>3. AtMostOnce(DiscardTask)' /\ \A x \in DiscardTask : ~Queued(x)'
      BY <3>2 DEF AtMostOnce, Queued
    <3> QED BY <3>1, <3>3 DEF DiscardInv, Working
  <2>2. CASE wait_discard_extents # {}
    <3>1. task_head' = Append(task_head, io) /\ Working'
      BY <1>6, <2>2 DEF DiscardNext, Working
    <3>2. /\ AtMostOnce(DiscardTask)'
          /\ \A x \in DiscardTask : Queued(x)' <=> x = io
      BY <1>7, <3>1, QueueNew DEF IInv
    <3> QED BY <3>1, <3>2 DEF DiscardInv, Working
  <2> QED BY <2>1, <2>2
<1> QED BY <1>1, <1>4, <1>8, <1>10, <1>11 DEF IInv

\* The copy task.
LEMMA InvCopyDone ==
  ASSUME IInv, NEW f \in File, NEW e \in Extent, NEW err \in BOOLEAN, CopyDone(f, e, err)
  PROVE  IInv'
<1>1. Types'
  BY TypesCopy DEF IInv
<1>2. /\ active' = NoTask /\ active \notin DiscardTask
      /\ UNCHANGED <<pools, extents, flags, epochs, task_head, flusher>>
  BY DEF CopyDone, Done, DiscardTask
<1> USE <1>2
<1>3. UNCHANGED <<wait_discard_extents, discard_extents, flush_extents, unused_extents,
                  t_live, t_unused, writer_current_id, Working>>
  BY DEF pools, flusher, epochs, Working
<1> USE <1>3
<1>4. DeadInv' /\ ExtentsPartitioned'
  BY InvFrame DEF IInv
<1>5. /\ LocalsInv' /\ EpochInv' /\ HandlerInv'
      /\ \A u \in Thread : pc[u] = "wait" => pc'[u] = "wait"
  <2>1. CASE UNCHANGED locals
    <3>1. UNCHANGED <<pc, file, writer, extent>>
      BY <2>1 DEF locals
    <3> QED BY <2>1, <3>1, InvFrame DEF IInv
  <2>2. CASE ReturnTo(Exec, "flush_check")
    <3>1. Exec \in Caller /\ Exec \notin Thread
      BY ExtentsAssumption DEF Caller
    <3>2. pc[Exec] \notin {"submit", "submit_new", "io_error", "requeue"}
      BY <3>1 DEF IInv, LocalsInv
    <3>3. /\ LocalsInv' /\ EpochInv'
          /\ \A u \in Thread : writer'[u] # NoWriter =>
               writer'[u] = writer[u] /\ file'[u] = file[u] /\ extent'[u] = extent[u]
      BY <2>2, <3>1, <3>2, IdleReturn DEF IInv
    <3>4. UNCHANGED HeldUnused
      BY DEF HeldUnused
    <3>5. HandlerInv'
      BY <3>3, <3>4, HandlerStep DEF IInv
    <3>6. \A u \in Thread : pc'[u] = pc[u]
      BY <2>2, <3>1 DEF ReturnTo, IInv, Types, LocalsType, Caller
    <3> QED BY <3>3, <3>5, <3>6
  <2> QED BY <2>1, <2>2 DEF CopyDone, FlushNewJournal
<1>6. RequeueInv' /\ DiscardInv'
  <2>1. <<>> \in Seq(Ordinary)
    BY ShortSeqs
  <2> QED BY <1>5, <2>1, TasksAdded
<1> QED BY <1>1, <1>4, <1>5, <1>6 DEF IInv

\* The callback of a requeue.
LEMMA InvRequeueDone ==
  ASSUME IInv, NEW t \in Thread, RequeueDone(t)
  PROVE  IInv'
<1>1. Types'
  BY TypesRequeueDone DEF IInv
<1>2. /\ active = RequeueOf(t) /\ active' = NoTask /\ active \notin DiscardTask
      /\ pc' = [pc EXCEPT ![t] = "write_start"]
      /\ UNCHANGED <<pools, nodes, flags, epochs, task_head, flusher, file, writer, extent>>
  BY DEF RequeueDone, DoneFor, Done, DiscardTask, RequeueOf
<1> USE <1>2
<1>3. t \in Caller /\ pc[t] = "wait" /\ file[t] \in File
  <2>1. task_head \in Seq(Task) /\ Len(task_head) \in Nat
    BY SMTT(60) DEF IInv, Types, QueueType
  <2>2. Queued(RequeueOf(t))
    BY <2>1, QueuePlaces DEF Queued, TaskAt
  <2>3. pc[t] = "wait" /\ t \in Caller
    BY <2>2 DEF IInv, RequeueInv, Caller
  <2> QED BY <2>3 DEF IInv, LocalsInv
<1>4. UNCHANGED <<wait_discard_extents, discard_extents, flush_extents, unused_extents,
                  extents, t_live, t_unused, HeldUnused, writer_current_id, Working>>
  BY DEF pools, nodes, flusher, epochs, Working, HeldUnused
<1> USE <1>4
<1>5. DeadInv' /\ ExtentsPartitioned'
  BY InvFrame DEF IInv
<1>6. /\ LocalsInv' /\ EpochInv'
      /\ \A u \in Thread : writer'[u] # NoWriter =>
           writer'[u] = writer[u] /\ file'[u] = file[u] /\ extent'[u] = extent[u]
  BY <1>3, IdleMove DEF IInv, PC, Types, LocalsType
<1>7. HandlerInv'
  BY ZenonT(40), <1>6, HandlerStep DEF IInv
<1>8. /\ task_head' = (<<>> \o task_head) \o <<>> /\ <<>> \in Seq(Task)
      /\ \A k \in 1 .. Len(<<>>) : FALSE
  BY ConcatEmpty, ShortSeqs DEF IInv, Types, QueueType
<1>9. DiscardInv'
  BY <1>8, DiscardKept DEF IInv
<1>10. RequeueInv'
  <2> SUFFICES ASSUME NEW u \in Thread
               PROVE  AtMostOnce({RequeueOf(u)})' /\ (Queued(RequeueOf(u))' => pc'[u] = "wait")
    BY DEF RequeueInv
  <2>1. NoTask \notin {RequeueOf(u)}
    BY DEF NoTask, RequeueOf
  <2>2. /\ AtMostOnce({RequeueOf(u)}) => AtMostOnce({RequeueOf(u)})'
        /\ \A x \in {RequeueOf(u)} : Queued(x)' => Queued(x)
        /\ AtMostOnce({RequeueOf(u)}) /\ active \in {RequeueOf(u)} /\ active' = NoTask
             => \A x \in {RequeueOf(u)} : ~Queued(x)'
    BY <1>8, <2>1, QueueAdd DEF IInv
  <2>3. CASE u = t
    BY <2>2, <2>3 DEF IInv, RequeueInv
  <2>4. CASE u # t
    BY <2>2, <2>4 DEF IInv, RequeueInv, Types, LocalsType, Caller
  <2> QED BY <2>3, <2>4
<1> QED BY <1>1, <1>5, <1>6, <1>7, <1>9, <1>10 DEF IInv

\* The end of the running task, whichever it is, preserves the invariant.
LEMMA InvTaskDone ==
  ASSUME IInv, TaskDone
  PROVE  IInv'
<1>1. Outcome \subseteq BOOLEAN
  BY DEF Outcome
<1>2. CASE \E i \in Flusher, op \in {"writer", "write"} :
             \/ \E err \in Outcome : WriterFails(op, i, err)
             \/ WriterFinishes(op, i)
             \/ \E n \in 1 .. Len(t_head[i]), next \in BOOLEAN :
                  WriterEncodes(op, i, n, next)
  BY <1>2, InvWriter
<1>3. CASE \E i \in Flusher : BeforeWriteFlush(i) \/ BeforeFlush(i)
  BY <1>3, InvBefore
<1>4. CASE \E i \in Flusher, err \in Outcome :
             BeforeWriteFlushDone(i, err) \/ AfterFlush(i, err)
  BY <1>1, <1>4, InvFlushDone
<1>5. CASE \E i \in Flusher : AfterFlushReclaim(i)
  BY <1>5, InvReclaim
<1>6. CASE \E i \in Flusher : FlusherFree(i)
  BY <1>6, InvFlusherFree
<1>7. CASE DiscardBegin \/ DiscardDone
  BY <1>7, InvDiscardTask
<1>8. CASE \E f \in File, e \in Extent, err \in Outcome : CopyDone(f, e, err)
  BY <1>1, <1>8, InvCopyDone
<1>9. CASE \E t \in Thread : RequeueDone(t)
  BY <1>9, InvRequeueDone
<1> QED BY <1>2, <1>3, <1>4, <1>5, <1>6, <1>7, <1>8, <1>9 DEF TaskDone

\* A step that changes nothing preserves the invariant.
LEMMA InvStutter == IInv /\ UNCHANGED vars => IInv'
<1> SUFFICES ASSUME IInv, UNCHANGED vars PROVE IInv'
  OBVIOUS
<1>1. UNCHANGED <<pools, nodes, flags, epochs, journal_head, cursor, tasks, flusher,
                  locals, device, bug>>
  BY DEF vars
<1>2. UNCHANGED <<pc, file, writer, extent, extents, unused_extents, flush_extents,
                  wait_discard_extents, discard_extents, t_live, t_unused,
                  writer_current_id, Working>>
  BY <1>1 DEF pools, nodes, epochs, flusher, locals, Working
<1>3. Types'
  BY <1>1, Frame DEF IInv, Types
<1> QED BY <1>1, <1>2, <1>3, InvFrame DEF IInv

=============================================================================
