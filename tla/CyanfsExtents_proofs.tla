------------------------ MODULE CyanfsExtents_proofs ------------------------
(***************************************************************************)
(* Theorems about the life of an extent (CyanfsExtents), for any number of *)
(* extents, files, threads and overlapping flushers.                       *)
(***************************************************************************)
EXTENDS CyanfsExtents_inv, CyanfsExtents_durable

\* The invariant is inductive: every step of a caller or of the executor, in
\* any order, preserves it.
THEOREM Invariance == Spec => []IInv
<1>1. Init => IInv
  BY InvInit
<1>2. IInv /\ [Next]_vars => IInv'
  <2> SUFFICES ASSUME IInv, [Next]_vars PROVE IInv'
    OBVIOUS
  <2>1. CASE GetTask
    BY <2>1, InvGetTask
  <2>2. CASE TaskDone
    BY <2>2, InvTaskDone
  <2>3. CASE \E t \in Caller : Step(t)
    BY <2>3, InvStep
  <2>4. CASE FlushWork
    <3>1. Timer \in Caller
      BY DEF Caller
    <3> QED BY Zenon, <2>4, <3>1, InvMoves DEF FlushWork
  <2>5. CASE UNCHANGED vars
    BY <2>5, InvStutter
  <2> QED BY <2>1, <2>2, <2>3, <2>4, <2>5 DEF Next
<1> QED BY <1>1, <1>2, PTL DEF Spec

\* Every variable keeps its type; in particular the writer counters never
\* go below zero.
THEOREM TypeCorrect == Spec => []TypeOK
<1>1. IInv => TypeOK
  BY EpochTypes DEF IInv, Types, TypeOK
<1> QED BY <1>1, Invariance, PTL

\* No extent is leaked or handed out twice, for any number of extents, files,
\* threads and overlapping flushers.
THEOREM Partitioned == Spec => []ExtentsPartitioned
<1>1. IInv => ExtentsPartitioned
  BY DEF IInv
<1> QED BY <1>1, Invariance, PTL

\* The two-epoch writer counter does what it is for: no extent is reused while
\* a handler may still submit I/O to it.
THEOREM WritersProtected == Spec => []NoWriterOnReclaimedExtent
<1>1. IInv => NoWriterOnReclaimedExtent
  <2> SUFFICES ASSUME IInv, NEW t \in Thread, InHandler(t)
               PROVE  NoWriterOnReclaimedExtent!(t)!2
    BY ZenonT(40) DEF NoWriterOnReclaimedExtent
  <2>1. /\ t \in Caller /\ writer[t] # NoWriter /\ file[t] \in File
        /\ extent[t] \in Extent
    BY Zenon DEF InHandler, IInv, LocalsInv, Caller
  <2>2. NoExtent \notin Extent
    BY ExtentsAssumption DEF Extent, NoExtent
  <2>3. CASE extents[file[t]] = extent[t]
    <3>1. extent[t] \in MappedExtents
      BY <2>1, <2>2, <2>3 DEF MappedExtents
    <3> QED BY Zenon, <2>1, <2>2, <2>3, <3>1 DEF IInv, ExtentsPartitioned
  <2>4. CASE extent[t] \in unused_extents \cup HeldUnused \cup flush_extents
    <3>1. extent[t] \notin MappedExtents
      BY ZenonT(40), <2>4 DEF IInv, ExtentsPartitioned
    <3>2. \A f \in File : extents[f] # extent[t]
      BY <2>1, <2>2, <3>1 DEF MappedExtents
    <3> QED BY Zenon, <2>4, <3>2 DEF IInv, ExtentsPartitioned
  <2> QED BY Zenon, <2>1, <2>3, <2>4 DEF IInv, HandlerInv
<1> QED BY <1>1, Invariance, PTL

\* DISCARD_WORKING is set exactly while one discard task is queued or running.
THEOREM DiscardUnique == Spec => []DiscardTaskUnique
<1>1. IInv => DiscardTaskUnique
  <2> SUFFICES ASSUME IInv PROVE DiscardTaskUnique
    OBVIOUS
  <2> DEFINE At == {k \in 0 .. Len(task_head) : TaskAt(k) \in DiscardTask}
  <2>1. \A k, l \in At : k = l
    BY ZenonT(40) DEF IInv, DiscardInv, AtMostOnce
  <2>2. "DISCARD_WORKING" \in flags => \E k \in At : TRUE
    BY SMTT(60) DEF IInv, DiscardInv, Queued
  <2>3. "DISCARD_WORKING" \notin flags => At = {}
    BY SMTT(60) DEF IInv, DiscardInv, Queued
  <2>4. IF "DISCARD_WORKING" \in flags THEN \E k \in At : At = {k} ELSE At = {}
    BY SMTT(60), <2>1, <2>2, <2>3
  <2>5. wait_discard_extents \cup discard_extents # {} => "DISCARD_WORKING" \in flags
    BY DEF IInv, DiscardInv
  <2> QED BY <2>4, <2>5 DEF DiscardTaskUnique
<1> QED BY <1>1, Invariance, PTL

-----------------------------------------------------------------------------
(* Durability.                                                             *)

\* The order of a flusher's tasks, what its FLUSHes have made durable and what
\* it has left to write: every interleaving of callers with the done functions
\* of any number of overlapping flushers keeps them in step.
THEOREM DurableInvariance == Spec => [](IInv /\ DInv)
<1>1. Init => IInv /\ DInv
  BY Zenon, InvInit, DurInit DEF IInv
<1>2. IInv /\ IInv' /\ DInv /\ [Next]_vars => DInv'
  BY Zenon, DurNext DEF IInv
<1> QED BY <1>1, <1>2, Invariance, PTL DEF Spec

\* No extent is free, and none is bound to a second slot, before the record that
\* unbinds it is on the device: cyanfs_super_flusher_after_flush reclaims only
\* what a FLUSH behind that record covers.
THEOREM ReuseAfterDurable == Spec => []DurableBeforeReuse
<1>1. DInv => DurableBeforeReuse
  BY Zenon DEF DInv
<1> QED BY <1>1, DurableInvariance, PTL

\* No record that binds a copied extent is written before the copied data is on
\* the device: one flush_before_write per flusher is enough for all its records.
THEOREM BindAfterCopy == Spec => []CopyDurableBeforeBind
<1>1. IInv /\ DInv => CopyDurableBeforeBind
  BY Zenon, BoundAfterFlush DEF IInv
<1> QED BY <1>1, DurableInvariance, PTL

\* The BUG_ON of __cyanfs_file_unmap_extent is out of reach as long as
\* cyanfs_requeue gets its memory: the extent of a pending copy belongs to a file
\* that a waiting write keeps open, and a discard never touches such a file.
\* After a failed requeue nothing keeps it open.
THEOREM NeverBug == ~RequeueMayFail => (Spec => []NoBug)
<1> SUFFICES ASSUME ~RequeueMayFail PROVE Spec => []NoBug
  OBVIOUS
<1>1. Init => IInv /\ PendingInv
  BY Zenon, InvInit, PendInit
<1>2. IInv /\ IInv' /\ PendingInv /\ [Next]_vars => PendingInv'
  BY Zenon, PendNext DEF IInv
<1>3. PendingInv => NoBug
  BY Zenon DEF PendingInv, NoBug
<1> QED BY <1>1, <1>2, <1>3, Invariance, PTL DEF Spec

=============================================================================
