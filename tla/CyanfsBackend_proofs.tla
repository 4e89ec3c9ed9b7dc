------------------------ MODULE CyanfsBackend_proofs ------------------------
(***************************************************************************)
(* Theorems about the Linux backend (CyanfsBackend), for any number of     *)
(* descriptors, disks, entries, calls and failures.                        *)
(***************************************************************************)
EXTENDS CyanfsBackend_inv

\* The leaves are for Zenon; those that need arithmetic cite SMTT.
USE ZenonT(60)

-----------------------------------------------------------------------------
(* cyanfs_backend_wait_tasks and cyanfs_backend_close.                     *)

\* The waiter is added; its FLUSH is in the queue or has run.
LEMMA InvAddWaiter ==
  ASSUME IInv, UNCHANGED inst, NEW a \in Actors, AddWaiter(a)
  PROVE  IInv'
<1>1. CallOk(a) /\ SyncOk(a) /\ CallType /\ JournalType /\ ExecType /\ OwnerType
  BY DEF IInv, CallInv, SyncInv, Types
<1> USE <1>1
<1>2. pc[a] = "waiter" /\ op[a] = "sync" /\ goal[a] \in Nat /\ goal[a] <= appended
  <2>1. pc[a] = "waiter"
    BY DEF AddWaiter
  <2> QED BY <2>1, PlacesFacts DEF CallType, CallOk
<1> USE <1>2
<1>3. promised' = promised /\ Sets(a, "sync", "queue", goal[a])
  BY GotoSets DEF AddWaiter
<1>4. /\ UNCHANGED <<inst, still, durable, flag, took, work, comp, cover>>
      /\ UNCHANGED <<life, refs, armed, closed, barrier>> /\ appended' = appended
      /\ pending' = pending /\ waiters' = waiters \cup {a}
  BY DEF AddWaiter, journal, owner, still
<1> USE <1>4
<1>5. op'[a] = op[a] /\ \A b \in Actors : b # a => SameCall(b)
  BY <1>3, SetsFacts
<1>6. HolderInv' /\ CloseInv'
  <2>1. op[a] \notin {"idle", "close"}
    OBVIOUS
  <2> QED BY <1>5, <2>1, OwnerBusy
<1>7. /\ appended' \in Nat /\ appended <= appended' /\ appended' <= MaxAppends /\ promised' \in Nat
      /\ promised' <= durable /\ goal[a] <= appended'
  BY SMTT(60), <1>3 DEF JournalType, IInv, FlushedIsDurable
<1>8. /\ pending' \in BOOLEAN /\ barrier' \in {"none", "pending", "running", "done"}
      /\ (Drained' => Drained) /\ OwnerType'
  BY DEF ExecType, Drained, OwnerType
<1>9. /\ "sync" \in Ops /\ "queue" \in PlacesOf("sync") /\ pc[a] \notin {"requeue_wake", "wait"}
      /\ "sync" \notin {"idle", "append", "periodic"} /\ "sync" \notin Flushes /\ "queue" # "submit"
      /\ "sync" # "close" /\ a \in waiters'
  BY PlacesHold DEF Flushes
<1>10. Synced(goal[a]) \/ HasAfter(goal[a])
  BY DEF SyncOk, Syncing
<1>11. a \in took /\ work = "complete" => Synced(goal[a])
  BY DEF SyncOk
<1>12. a \in waiters' \cup took
  OBVIOUS
<1> QED BY <1>3, <1>6, <1>7, <1>8, <1>9, <1>10, <1>11, <1>12, ControlStep

\* The work item is queued by a waiter or by the closer.
LEMMA InvQueueWork ==
  ASSUME IInv, UNCHANGED inst, NEW a \in Actors, QueueWork(a)
  PROVE  IInv'
<1>1. CallOk(a) /\ SyncOk(a) /\ CallType /\ JournalType /\ ExecType /\ OwnerType
      /\ HolderInv /\ CloseInv /\ CallInv
  BY DEF IInv, CallInv, SyncInv, Types
<1> USE <1>1
<1>2. pc[a] = "queue" /\ op[a] \in {"sync", "close"} /\ goal[a] \in Nat /\ goal[a] <= appended
  <2>1. pc[a] = "queue"
    BY DEF QueueWork
  <2> QED BY <2>1, PlacesFacts DEF CallType, CallOk
<1> USE <1>2
<1>3. /\ UNCHANGED <<inst, still, durable, flag, took, work, comp, cover>>
      /\ UNCHANGED <<life, refs, armed, closed>> /\ appended' = appended
      /\ pending' /\ pending' \in BOOLEAN /\ waiters' = waiters /\ OwnerType'
  BY DEF QueueWork, journal, owner, still, OwnerType
<1> USE <1>3
<1>4. Synced(goal[a]) \/ HasAfter(goal[a])
  BY DEF SyncOk, Syncing
<1>5. pc[a] \notin {"requeue_wake", "wait"} /\ {"sync", "close"} \cap Flushes = {}
  BY DEF Flushes
<1> USE <1>5
<1>6. /\ appended' \in Nat /\ appended <= appended' /\ appended' <= MaxAppends
      /\ promised \in Nat /\ promised <= durable /\ goal[a] <= appended'
  <2>1. FlushedIsDurable
    BY DEF IInv
  <2> QED BY <2>1, SMTT(60) DEF JournalType, FlushedIsDurable
<1>7. CASE op[a] = "sync"
  <2>1. "sync" # "close" /\ "sync" \notin Flushes /\ "sync" \notin {"idle", "append", "periodic"}
        /\ "served" # "submit" /\ "sync" \in Ops /\ "served" \in PlacesOf("sync")
    BY PlacesHold
  <2>2. barrier' = barrier /\ Goto(a, "served")
    BY <1>7, <2>1 DEF QueueWork
  <2>3. promised' = promised /\ Sets(a, "sync", "served", goal[a])
    BY <1>7, <2>2, GotoSets
  <2>4. op'[a] = op[a] /\ \A b \in Actors : b # a => SameCall(b)
    BY <1>7, <2>3, SetsFacts
  <2>5. HolderInv' /\ CloseInv'
    <3>1. op[a] \notin {"idle", "close"}
      BY <1>7
    <3> QED BY <2>2, <2>4, <3>1, OwnerBusy
  <2>6. barrier' \in {"none", "pending", "running", "done"} /\ (Drained' => Drained)
    BY <2>2 DEF ExecType, Drained
  <2>7. /\ a \notin waiters' \cup took => Synced(goal[a])
        /\ a \in took /\ work = "complete" => Synced(goal[a])
    BY <1>7 DEF SyncOk
  <2> QED BY <1>4, <1>6, <2>1, <2>3, <2>5, <2>6, <2>7, ControlStep
<1>8. CASE op[a] = "close"
  <2>1. "close" \notin Flushes /\ "close" \notin {"idle", "append", "periodic"}
        /\ "flush_work" # "submit" /\ "close" \in Ops /\ "flush_work" \in PlacesOf("close")
        /\ "close" # "sync"
    BY PlacesHold
  <2>2. barrier' = "pending" /\ Goto(a, "flush_work")
    BY <1>8 DEF QueueWork
  <2> USE <2>2
  <2>3. promised' = promised /\ Sets(a, "close", "flush_work", goal[a])
    BY <1>8, GotoSets
  <2>4. op'[a] = op[a] /\ pc'[a] = "flush_work" /\ \A b \in Actors : b # a => SameCall(b)
    BY <1>8, <2>3, SetsFacts
  <2>5. \A b \in Actors : op'[b] = op[b]
    BY <2>4 DEF SameCall
  <2>6. HolderInv'
    BY <2>5 DEF HolderInv, Mounted, Actors
  <2>7. ~Drained'
    BY DEF Drained
  <2>8. /\ refs = {} /\ ~closed /\ ~armed /\ op["timer"] = "idle"
        /\ \A b \in Actors : op[b] = "close" => b = a
    <3>1. pc[a] \notin {"cancel", "cancelled"} /\ pc[a] # "cancel"
      OBVIOUS
    <3> QED BY <1>8, <3>1 DEF CloseInv
  <2>9. "timer" \in Actors
    BY DEF Actors
  <2>10. CloseInv'
    <3>1. ASSUME NEW b \in Actors, op'[b] = "close"
          PROVE  /\ refs' = {} /\ ~closed'
                 /\ \A c \in Actors : op'[c] = "close" => c = b
                 /\ ~armed' /\ op'["timer"] = "idle" /\ pc'[b] = "flush_work"
      BY <2>4, <2>5, <2>8, <2>9, <3>1
    <3>2. "flush_work" # "super_close" /\ barrier' \notin {"running", "done"}
          /\ barrier' # "running" /\ barrier' # "done"
      OBVIOUS
    <3>3. \E b \in Actors : pc'[b] \in {"flush_work", "super_close"}
      BY <2>4
    <3> QED BY <2>7, <2>8, <3>1, <3>2, <3>3 DEF CloseInv
  <2>11. a \notin waiters' \cup took /\ a \notin took
    BY <1>8, <2>1 DEF SyncOk
  <2>12. barrier' \in {"none", "pending", "running", "done"}
    OBVIOUS
  <2> QED BY <1>4, <1>6, <2>1, <2>3, <2>6, <2>7, <2>10, <2>11, <2>12, ControlStep
<1> QED BY <1>7, <1>8

\* A sync returns: its waiter is completed, so its FLUSH has run.
LEMMA InvSyncReturns ==
  ASSUME IInv, UNCHANGED inst, NEW a \in Actors, SyncReturns(a)
  PROVE  IInv'
<1>1. CallOk(a) /\ SyncOk(a) /\ CallType /\ JournalType /\ ExecType /\ OwnerType
  BY DEF IInv, CallInv, SyncInv, Types
<1> USE <1>1
<1>2. pc[a] = "served" /\ op[a] = "sync" /\ goal[a] \in Nat /\ a \notin waiters \cup took
  <2>1. pc[a] = "served" /\ a \notin waiters \cup took
    BY DEF SyncReturns
  <2> QED BY <2>1, PlacesFacts DEF CallType
<1> USE <1>2
<1>3. Sets(a, "idle", "idle", 0) /\ (promised' = promised \/ (~error /\ promised' = goal[a]))
  BY ReturnSets DEF SyncReturns
<1>4. /\ UNCHANGED <<inst, still, durable, flag, took, work, comp, cover>>
      /\ UNCHANGED <<life, refs, armed, closed, barrier>> /\ appended' = appended
      /\ pending' = pending /\ waiters' = waiters
  BY DEF SyncReturns, exec, journal, owner, still
<1> USE <1>4
<1>5. op'[a] = "idle" /\ \A b \in Actors : b # a => SameCall(b)
  BY <1>3, SetsFacts
<1>6. HolderInv' /\ CloseInv'
  <2>1. op[a] \notin {"idle", "close"}
    OBVIOUS
  <2> QED BY <1>5, <2>1, OwnerBusy
<1>7. Synced(goal[a])
  BY DEF SyncOk
<1>8. /\ appended' \in Nat /\ appended <= appended' /\ appended' <= MaxAppends /\ promised' \in Nat
      /\ promised' <= durable /\ 0 <= appended' /\ 0 \in Nat
  BY SMTT(60), <1>3, <1>7 DEF JournalType, IInv, FlushedIsDurable, Synced
<1>9. /\ pending' \in BOOLEAN /\ barrier' \in {"none", "pending", "running", "done"}
      /\ (Drained' => Drained) /\ OwnerType'
  BY DEF ExecType, Drained, OwnerType
<1>10. /\ "idle" \in Ops /\ "idle" \in PlacesOf("idle") /\ pc[a] \notin {"requeue_wake", "wait"}
       /\ "idle" \notin Flushes /\ "idle" # "submit" /\ "idle" # "sync" /\ "idle" # "close"
  BY PlacesHold DEF Flushes
<1>11. a \notin waiters' \cup took /\ a \notin took
  OBVIOUS
<1> QED BY <1>3, <1>6, <1>8, <1>9, <1>10, <1>11, ControlStep

\* A call begins, or the closer goes on to its flusher, or the call is over.
LEMMA PlainStep ==
  ASSUME IInv, UNCHANGED <<inst, taken, written, durable, flag, error, promised, exec, comp, cover>>,
         appended' \in {appended, appended + 1}, appended' <= MaxAppends,
         OwnerType', HolderInv', CloseInv',
         NEW a \in Actors, NEW o \in Ops, NEW p \in PlacesOf(o), NEW g \in Nat, Sets(a, o, p, g),
         op[a] # "sync", pc[a] \notin {"requeue_wake", "wait"}, g <= appended,
         o \in {"idle", "append", "periodic"} => g = 0,
         p \in {"idle", "check", "cancel", "cancelled"},
         o = "close" => barrier = "none"
  PROVE  IInv'
<1>1. SyncOk(a) /\ JournalType /\ ExecType
  BY DEF IInv, SyncInv, Types
<1>2. /\ UNCHANGED <<inst, still, durable, flag, took, work, comp, cover>> /\ waiters' = waiters
      /\ barrier' = barrier /\ pending' = pending
  BY DEF exec, still
<1> USE <1>2
<1>3. /\ appended' \in Nat /\ appended <= appended' /\ g <= appended' /\ promised' \in Nat
      /\ promised' <= durable
  BY SMTT(60), <1>1 DEF JournalType, IInv, FlushedIsDurable
<1>4. /\ pending' \in BOOLEAN /\ barrier' \in {"none", "pending", "running", "done"}
      /\ (Drained' => Drained)
  BY <1>1 DEF ExecType, Drained
<1>5. a \notin waiters' \cup took /\ a \notin took
  BY <1>1 DEF SyncOk
<1>6. /\ p \notin Flushing \cup {"wake"} /\ p # "submit"
      /\ p \notin {"wake", "waiter", "queue", "served"} /\ p \notin {"queue", "served"}
      /\ p \notin {"wake", "queue", "flush_work", "super_close"}
  BY DEF Flushing
<1>7. ~(o = "close" /\ Drained')
  BY DEF Drained
<1> QED BY <1>3, <1>4, <1>5, <1>6, <1>7, ControlStep

\* cancel_delayed_work_sync.
LEMMA InvCancelFlushWork ==
  ASSUME IInv, UNCHANGED inst, NEW a \in Actors, CancelFlushWork(a)
  PROVE  IInv'
<1>1. CallOk(a) /\ CallType /\ JournalType /\ OwnerType /\ CloseInv
  BY DEF IInv, CallInv, Types
<1> USE <1>1
<1>2. UNCHANGED <<inst, taken, written, durable, flag, error, exec, comp, cover, appended, life,
                  refs, closed, barrier>>
  BY DEF CancelFlushWork, journal, exec
<1> USE <1>2
<1>3. PICK p \in {"cancelled", "check"} :
        /\ Goto(a, p) /\ pc[a] \in {"cancel", "cancelled"}
        /\ p = "cancelled" => armed' = FALSE
        /\ p = "check" => pc[a] = "cancelled" /\ op["timer"] = "idle" /\ armed' = armed
  BY DEF CancelFlushWork
<1> USE <1>3
<1>4. op[a] = "close" /\ goal[a] \in Nat /\ goal[a] <= appended
  BY PlacesFacts DEF CallType, CallOk
<1> USE <1>4
<1>5. promised' = promised /\ Sets(a, "close", p, goal[a])
  BY GotoSets
<1>6. op'[a] = "close" /\ pc'[a] = p /\ \A b \in Actors : b # a => SameCall(b)
  BY <1>5, SetsFacts
<1>7. ~armed' /\ armed' \in BOOLEAN
  <2>1. CASE p = "cancelled"
    BY <2>1
  <2>2. CASE p = "check"
    <3>1. pc[a] # "cancel"
      BY <2>2
    <3>2. ~armed /\ armed \in BOOLEAN
      BY <3>1 DEF CloseInv, OwnerType
    <3>3. armed' = armed
      BY <2>2
    <3> QED BY <3>2, <3>3
  <2> QED BY <2>1, <2>2
<1>8. /\ pc[a] \notin {"flush_work", "super_close"} /\ pc'[a] \notin {"flush_work", "super_close"}
      /\ (pc'[a] \notin {"cancel", "cancelled"} => op["timer"] = "idle")
  BY <1>6
<1>9. HolderInv' /\ CloseInv' /\ barrier = "none"
  BY <1>6, <1>7, <1>8, OwnerCloses
<1>10. OwnerType'
  BY <1>7 DEF OwnerType
<1>11. /\ appended' \in {appended, appended + 1} /\ appended' <= MaxAppends /\ op[a] # "sync"
       /\ pc[a] \notin {"requeue_wake", "wait"} /\ "close" \notin {"idle", "append", "periodic"}
       /\ "close" \in Ops /\ p \in PlacesOf("close") /\ p \in {"idle", "check", "cancel", "cancelled"}
  BY PlacesHold DEF JournalType
<1> QED BY <1>5, <1>9, <1>10, <1>11, PlainStep

\* flush_work returns.
LEMMA InvWaitWork ==
  ASSUME IInv, UNCHANGED inst, NEW a \in Actors, WaitWork(a)
  PROVE  IInv'
<1>1. CallOk(a) /\ SyncOk(a) /\ CallType /\ JournalType /\ ExecType /\ OwnerType
      /\ HolderInv /\ CloseInv
  BY DEF IInv, CallInv, SyncInv, Types
<1> USE <1>1
<1>2. /\ UNCHANGED <<inst, still, durable, flag, took, work, comp, cover>> /\ waiters' = waiters
      /\ UNCHANGED <<life, refs, armed, closed, barrier, pending, queue>> /\ appended' = appended
      /\ barrier = "done"
  BY DEF WaitWork, exec, journal, owner, still
<1> USE <1>2
<1>3. pc[a] = "flush_work" /\ op[a] = "close" /\ goal[a] \in Nat /\ goal[a] <= appended
  <2>1. pc[a] = "flush_work"
    BY DEF WaitWork
  <2> QED BY <2>1, PlacesFacts DEF CallType, CallOk
<1> USE <1>3
<1>4. promised' = promised /\ Sets(a, "close", "super_close", goal[a])
  BY GotoSets DEF WaitWork
<1>5. op'[a] = op[a] /\ pc'[a] = "super_close" /\ \A b \in Actors : b # a => SameCall(b)
  BY <1>4, SetsFacts
<1>6. \A b \in Actors : op'[b] = op[b]
  BY <1>5 DEF SameCall
<1>7. HolderInv'
  BY <1>6 DEF HolderInv, Mounted, Actors
<1>8. CloseInv'
  <2>1. /\ refs = {} /\ ~closed /\ ~armed /\ op["timer"] = "idle"
        /\ \A b \in Actors : op[b] = "close" => b = a
    <3>1. pc[a] \notin {"cancel", "cancelled"} /\ pc[a] # "cancel"
      OBVIOUS
    <3> QED BY <3>1 DEF CloseInv
  <2>2. "timer" \in Actors
    BY DEF Actors
  <2>3. ASSUME NEW b \in Actors, op'[b] = "close"
        PROVE  /\ refs' = {} /\ ~closed'
               /\ \A c \in Actors : op'[c] = "close" => c = b
               /\ ~armed' /\ op'["timer"] = "idle" /\ barrier' = "done"
    BY <1>6, <2>1, <2>2, <2>3
  <2>4. Drained' => Drained
    BY DEF Drained
  <2>5. \E b \in Actors : pc'[b] \in {"flush_work", "super_close"}
    BY <1>5
  <2> QED BY <2>1, <2>3, <2>4, <2>5 DEF CloseInv
<1>9. Synced(goal[a])
  BY DEF SyncOk, Drained
<1>10. /\ appended' \in Nat /\ appended <= appended' /\ appended' <= MaxAppends /\ promised' \in Nat
       /\ promised' <= durable /\ goal[a] <= appended'
  BY SMTT(60), <1>4 DEF JournalType, IInv, FlushedIsDurable
<1>11. /\ pending' \in BOOLEAN /\ barrier' \in {"none", "pending", "running", "done"}
       /\ (Drained' => Drained) /\ OwnerType'
  BY DEF ExecType, Drained, OwnerType
<1>12. /\ "close" \in Ops /\ "super_close" \in PlacesOf("close") /\ op[a] # "sync"
       /\ pc[a] \notin {"requeue_wake", "wait"} /\ "close" \notin {"idle", "append", "periodic"}
       /\ "close" \notin Flushes /\ "super_close" # "submit" /\ "close" # "sync"
  BY PlacesHold DEF Flushes
<1>13. a \notin waiters' \cup took /\ a \notin took
  BY <1>12 DEF SyncOk
<1> QED BY <1>4, <1>7, <1>8, <1>9, <1>10, <1>11, <1>12, <1>13, ControlStep

\* The closer is alone.
LEMMA CloserAlone ==
  ASSUME IInv, NEW a \in Actors, op[a] = "close", pc[a] \notin {"cancel", "cancelled"}
  PROVE  \A b \in Actors : b # a => op[b] = "idle"
<1>1. CloseInv /\ HolderInv
  BY DEF IInv
<1>2. refs = {} /\ op["timer"] = "idle" /\ \A b \in Actors : op[b] = "close" => b = a
  BY <1>1 DEF CloseInv
<1>3. \A b \in Actors : op[b] \in {"idle", "close"}
  BY <1>1, <1>2 DEF HolderInv, Mounted, Actors
<1> QED BY <1>2, <1>3

\* cyanfs_super_close.
LEMMA InvSuperClose ==
  ASSUME IInv, UNCHANGED inst, NEW a \in Actors, SuperClose(a)
  PROVE  IInv'
<1>1. CallOk(a) /\ SyncOk(a) /\ CallType /\ JournalType /\ ExecType /\ OwnerType
      /\ HolderInv /\ CloseInv
  BY DEF IInv, CallInv, SyncInv, Types
<1> USE <1>1
<1>2. /\ UNCHANGED <<inst, still, durable, flag, took, work, comp, cover>> /\ waiters' = waiters
      /\ UNCHANGED <<life, refs, armed, barrier, pending, queue>> /\ appended' = appended
      /\ closed' = TRUE
  BY DEF SuperClose, exec, journal, still
<1> USE <1>2
<1>3. pc[a] = "super_close" /\ op[a] = "close" /\ goal[a] \in Nat
  <2>1. pc[a] = "super_close"
    BY DEF SuperClose
  <2> QED BY <2>1, PlacesFacts DEF CallType
<1> USE <1>3
<1>4. Sets(a, "idle", "idle", 0) /\ (promised' = promised \/ (~error /\ promised' = goal[a]))
  BY ReturnSets DEF SuperClose
<1>5. pc[a] \notin {"cancel", "cancelled"} /\ pc[a] # "cancel" /\ op[a] # "sync"
      /\ pc[a] \notin {"requeue_wake", "wait"}
  OBVIOUS
<1> USE <1>5
<1>6. \A b \in Actors : op'[b] = "idle"
  <2>1. op'[a] = "idle" /\ \A b \in Actors : b # a => SameCall(b)
    BY <1>4, SetsFacts
  <2> QED BY <2>1, CloserAlone DEF SameCall
<1>7. "idle" # "close" /\ "idle" # "sync" /\ "idle" \notin Flushes /\ "idle" # "submit"
      /\ "idle" \in Ops /\ "idle" \in PlacesOf("idle")
  BY PlacesHold DEF Flushes
<1>8. HolderInv'
  BY <1>6 DEF HolderInv, Actors
<1>9. refs = {} /\ ~armed /\ barrier = "done"
  BY DEF CloseInv
<1>10. (Drained' => Drained) /\ Drained
  BY <1>9 DEF Drained
<1>11. CloseInv'
  BY <1>6, <1>7, <1>9, <1>10 DEF CloseInv
<1>12. Synced(goal[a]) /\ a \notin waiters' \cup took /\ a \notin took
  BY <1>10 DEF SyncOk
<1>13. /\ appended' \in Nat /\ appended <= appended' /\ appended' <= MaxAppends /\ promised' \in Nat
       /\ promised' <= durable /\ 0 <= appended' /\ 0 \in Nat
  BY SMTT(60), <1>4, <1>12 DEF JournalType, IInv, FlushedIsDurable, Synced
<1>14. /\ pending' \in BOOLEAN /\ barrier' \in {"none", "pending", "running", "done"} /\ OwnerType'
  BY DEF ExecType, OwnerType
<1> QED BY <1>4, <1>7, <1>8, <1>10, <1>11, <1>12, <1>13, <1>14, ControlStep

-----------------------------------------------------------------------------
(* The calls begin, and the references go.                                 *)

\* A call begins.
LEMMA CallBegins ==
  ASSUME IInv, UNCHANGED <<inst, taken, written, durable, flag, error, exec, comp, cover, life, refs,
                           armed, closed>>,
         appended' \in {appended, appended + 1}, appended' <= MaxAppends,
         NEW a \in Actors, NEW o \in Ops, NEW g \in Nat, Begin(a, o, "check", g), g <= appended,
         o # "close", o # "idle", o \in {"append", "periodic"} => g = 0,
         \/ a \in Handles /\ life[a] \in {"open", "unmapped"}
         \/ a = "ioctl" /\ Mounted /\ o \in {"append", "sync"}
         \/ a = "timer" /\ armed /\ o = "periodic"
  PROVE  IInv'
<1>1. CallOk(a) /\ CallType /\ OwnerType
  BY DEF IInv, CallInv, Types
<1>2. op[a] = "idle" /\ Sets(a, o, "check", g) /\ promised' = promised /\ barrier' = barrier
  BY BeginSets DEF exec
<1> USE <1>2
<1>3. op'[a] = o /\ \A b \in Actors : b # a => SameCall(b)
  BY <1>1, SetsFacts
<1>4. HolderInv' /\ CloseInv'
  BY <1>3, OwnerBegins
<1>5. OwnerType'
  BY <1>1 DEF OwnerType
<1>6. pc[a] = "idle"
  BY <1>1, PlacesFacts
<1>7. /\ op[a] # "sync" /\ pc[a] \notin {"requeue_wake", "wait"} /\ "check" \in PlacesOf(o)
      /\ "check" \in {"idle", "check", "cancel", "cancelled"}
  BY <1>6, PlacesHold DEF Ops, Started, Flushes
<1> QED BY <1>4, <1>5, <1>7, PlainStep

\* A file operation appends an entry.
LEMMA InvAppendEntry ==
  ASSUME IInv, UNCHANGED inst, NEW a \in Actors, AppendEntry(a)
  PROVE  IInv'
<1>1. JournalType
  BY DEF IInv, Types
<1>2. inst.appends \in 0 .. MaxAppends /\ MaxAppends \in Nat
  BY <1>1, BackendAssumption DEF JournalType
<1>3. /\ UNCHANGED <<inst, taken, written, durable, flag, error, exec, comp, cover, life, refs,
                     armed, closed>>
      /\ Begin(a, "append", "check", 0) /\ appended' = appended + 1 /\ appended < inst.appends
      /\ \/ a \in Handles /\ life[a] \in {"open", "unmapped"}
         \/ a = "ioctl" /\ Mounted
  BY DEF AppendEntry, owner
<1>4. /\ appended' \in {appended, appended + 1} /\ appended' <= MaxAppends /\ 0 \in Nat
      /\ 0 <= appended
  BY SMTT(60), <1>1, <1>2, <1>3 DEF JournalType
<1>5. "append" \in Ops /\ "append" # "close" /\ "append" # "idle"
  BY DEF Ops
<1> QED BY <1>3, <1>4, <1>5, CallBegins

\* An fsync, a flush bio or a sync begins.
LEMMA InvFlush ==
  ASSUME IInv, UNCHANGED inst, NEW a \in Actors, Flush(a)
  PROVE  IInv'
<1>1. JournalType
  BY DEF IInv, Types
<1>2. UNCHANGED <<inst, taken, written, durable, flag, error, exec, comp, cover, life, refs,
                  armed, closed, appended>>
  BY DEF Flush, journal
<1>3. PICK o \in {"fsync", "flush_bio", "sync"} :
        /\ Begin(a, o, "check", appended)
        /\ \/ a \in Handles /\ life[a] \in {"open", "unmapped"}
           \/ a = "ioctl" /\ Mounted /\ o \in {"append", "sync"}
  BY DEF Flush, Handles
<1>4. /\ appended' \in {appended, appended + 1} /\ appended' <= MaxAppends /\ appended \in Nat
      /\ appended <= appended
  BY SMTT(60), <1>1, <1>2 DEF JournalType
<1>5. o \in Ops /\ o # "close" /\ o # "idle" /\ o \notin {"append", "periodic"}
  BY DEF Ops
<1> QED BY <1>2, <1>3, <1>4, <1>5, CallBegins

\* The release of a descriptor begins.
LEMMA InvRelease ==
  ASSUME IInv, UNCHANGED inst, NEW c \in Ctl, Release(c)
  PROVE  IInv'
<1>1. JournalType
  BY DEF IInv, Types
<1>2. UNCHANGED <<inst, taken, written, durable, flag, error, exec, comp, cover, life, refs,
                  armed, closed, appended>>
  BY DEF Release, journal, owner
<1>3. /\ Begin(c, "release", "check", appended) /\ c \in Actors
      /\ c \in Handles /\ life[c] \in {"open", "unmapped"}
  BY DEF Release, Handles, Actors
<1>4. /\ appended' \in {appended, appended + 1} /\ appended' <= MaxAppends /\ appended \in Nat
      /\ appended <= appended
  BY SMTT(60), <1>1, <1>2 DEF JournalType
<1>5. "release" \in Ops /\ "release" # "close" /\ "release" # "idle"
      /\ "release" \notin {"append", "periodic"}
  BY DEF Ops
<1> QED BY <1>2, <1>3, <1>4, <1>5, CallBegins

\* The periodic flush begins.
LEMMA InvPeriodicFlush ==
  ASSUME IInv, UNCHANGED inst, PeriodicFlush
  PROVE  IInv'
<1>1. JournalType
  BY DEF IInv, Types
<1>2. UNCHANGED <<inst, taken, written, durable, flag, error, exec, comp, cover, life, refs,
                  armed, closed, appended>>
  BY DEF PeriodicFlush, journal, owner
<1>3. Begin("timer", "periodic", "check", 0) /\ "timer" \in Actors /\ armed
  BY DEF PeriodicFlush, Actors
<1>4. /\ appended' \in {appended, appended + 1} /\ appended' <= MaxAppends /\ 0 \in Nat
      /\ 0 <= appended
  BY SMTT(60), <1>1, <1>2 DEF JournalType
<1>5. "periodic" \in Ops /\ "periodic" # "close" /\ "periodic" # "idle"
  BY DEF Ops
<1> QED BY <1>2, <1>3, <1>4, <1>5, CallBegins

\* A reference is dropped, and with the last one the close begins.
LEMMA PutStep ==
  ASSUME IInv, UNCHANGED <<inst, journal, exec, comp, cover, armed, closed>>,
         NEW a \in Actors, a # "timer", pc[a] \in {"idle", "put"},
         NEW holder \in refs, Put(a, holder),
         life' \in [Handles -> {"new", "open", "unmapped", "gone"}],
         \A h \in Handles : h # holder => life'[h] = life[h],
         holder \in Handles => holder = a /\ life'[holder] = "gone",
         holder = "tree" => a = "ioctl"
  PROVE  IInv'
<1>1. CallOk(a) /\ CallType /\ OwnerType /\ JournalType
  BY DEF IInv, CallInv, Types
<1>2. /\ UNCHANGED <<inst, taken, written, durable, flag, error, exec, comp, cover, appended, barrier>>
      /\ refs' = refs \ {holder} /\ holder \in Handles \cup {"tree"} /\ refs' \subseteq Handles \cup {"tree"}
  BY <1>1 DEF journal, exec, Put, OwnerType
<1>3. PICK o \in {"idle", "close"}, p \in {"idle", "cancel"}, g \in Nat :
        /\ Sets(a, o, p, g) /\ promised' = promised /\ g <= appended
        /\ o = "idle" => g = 0 /\ p = "idle" /\ refs' # {}
        /\ o = "close" => p = "cancel" /\ refs' = {}
  <2>1. CASE refs' = {}
    <3>1. Sets(a, "close", "cancel", appended) /\ promised' = promised
      BY <2>1 DEF Put, Sets
    <3>2. appended \in Nat /\ appended <= appended /\ "close" # "idle"
      BY SMTT(60), <1>1 DEF JournalType
    <3> QED BY <2>1, <3>1, <3>2
  <2>2. CASE refs' # {}
    <3>1. Return(a, FALSE)
      BY <2>2 DEF Put
    <3>2. Sets(a, "idle", "idle", 0) /\ promised' = promised
      BY <3>1, ReturnSets
    <3>3. 0 \in Nat /\ 0 <= appended /\ "close" # "idle"
      BY SMTT(60), <1>1 DEF JournalType
    <3> QED BY <2>2, <3>2, <3>3
  <2> QED BY <2>1, <2>2
<1>4. op'[a] = o /\ pc'[a] = p /\ \A b \in Actors : b # a => SameCall(b)
  BY <1>1, <1>3, SetsFacts
<1>5. IF refs' = {} THEN op'[a] = "close" /\ pc'[a] = "cancel" ELSE op'[a] = "idle"
  BY <1>3, <1>4
<1>6. holder = "tree" \/ holder \in Handles
  BY <1>2
<1>7. HolderInv' /\ CloseInv'
  BY <1>2, <1>4, <1>5, <1>6, OwnerPut
<1>8. barrier = "none"
  BY HeldOpen
<1>9. OwnerType'
  BY <1>1, <1>2 DEF OwnerType
<1>10. op[a] # "sync"
  BY <1>1 DEF CallOk, PlacesOf
<1>11. /\ o \in Ops /\ p \in PlacesOf(o) /\ p \in {"idle", "check", "cancel", "cancelled"}
       /\ pc[a] \notin {"requeue_wake", "wait"} /\ o \notin {"append", "periodic"}
  BY <1>3 DEF Ops, PlacesOf
<1>12. appended' \in {appended, appended + 1} /\ appended' <= MaxAppends
  BY <1>1, <1>2 DEF JournalType
<1>13. o \in {"idle", "append", "periodic"} => g = 0
  BY <1>3, <1>11
<1> QED BY <1>2, <1>3, <1>7, <1>8, <1>9, <1>10, <1>11, <1>12, <1>13, PlainStep

\* The descriptor is released.
LEMMA InvReleasePut ==
  ASSUME IInv, UNCHANGED inst, NEW a \in Actors, ReleasePut(a)
  PROVE  IInv'
<1>1. CallOk(a) /\ CallType /\ OwnerType /\ HolderInv /\ JournalType
  BY DEF IInv, CallInv, Types
<1> USE <1>1
<1>2. /\ UNCHANGED <<inst, journal, exec, comp, cover, armed, closed>> /\ pc[a] = "put"
      /\ life' = [life EXCEPT ![a] = "gone"] /\ Put(a, a)
  BY DEF ReleasePut
<1> USE <1>2
<1>3. op[a] = "release"
  BY PlacesFacts
<1>4. op[a] \notin {"idle", "close"} /\ op[a] \notin {"idle", "periodic"}
      /\ op[a] \notin {"idle", "append", "sync", "close"}
  BY <1>3
<1>5. a \in Handles /\ a # "timer"
  BY <1>4 DEF HolderInv, Actors
<1> USE <1>5
<1>6. a \in refs
  BY <1>4 DEF HolderInv
<1>7. /\ life' \in [Handles -> {"new", "open", "unmapped", "gone"}] /\ life'[a] = "gone"
      /\ \A h \in Handles : h # a => life'[h] = life[h]
  BY DEF OwnerType
<1>8. a # "tree" /\ pc[a] \in {"idle", "put"}
  BY BackendAssumption DEF Handles
<1> QED BY <1>6, <1>7, <1>8, PutStep

\* The last opener of an unmapped disk is gone.
LEMMA InvFreeWork ==
  ASSUME IInv, UNCHANGED inst, NEW v \in Vdisk, FreeWork(v)
  PROVE  IInv'
<1>1. v \in Actors /\ v \in Handles /\ v # "timer" /\ v # "tree"
  BY BackendAssumption DEF Actors, Handles
<1> USE <1>1
<1>2. CallOk(v) /\ CallType /\ OwnerType /\ HolderInv
  BY DEF IInv, CallInv, Types
<1>3. /\ UNCHANGED <<inst, journal, exec, comp, cover, armed, closed>> /\ op[v] = "idle"
      /\ life' = [life EXCEPT ![v] = "gone"] /\ Put(v, v) /\ life[v] = "unmapped"
  BY DEF FreeWork
<1> USE <1>3
<1>4. v \in refs
  BY <1>2 DEF HolderInv
<1>5. pc[v] \in {"idle", "put"}
  BY <1>2, PlacesFacts
<1>6. /\ life' \in [Handles -> {"new", "open", "unmapped", "gone"}] /\ life'[v] = "gone"
      /\ \A h \in Handles : h # v => life'[h] = life[h]
  BY <1>2 DEF OwnerType
<1> QED BY <1>4, <1>5, <1>6, PutStep

\* The backend is unmounted.
LEMMA InvUmount ==
  ASSUME IInv, UNCHANGED inst, Umount
  PROVE  IInv'
<1>1. "ioctl" \in Actors /\ "ioctl" # "timer" /\ "tree" \notin Handles
  BY BackendAssumption DEF Actors, Handles
<1>2. CallOk("ioctl") /\ CallType /\ OwnerType
  BY <1>1 DEF IInv, CallInv, Types
<1>3. /\ UNCHANGED <<inst, journal, exec, comp, cover, armed, closed>> /\ op["ioctl"] = "idle"
      /\ life' = life /\ Put("ioctl", "tree") /\ "tree" \in refs
  BY DEF Umount, Locked, Mounted
<1>4. pc["ioctl"] \in {"idle", "put"}
  BY <1>1, <1>2, <1>3, PlacesFacts
<1>5. life' \in [Handles -> {"new", "open", "unmapped", "gone"}]
  BY <1>2, <1>3 DEF OwnerType
<1> QED BY <1>1, <1>3, <1>4, <1>5, PutStep

\* Nothing but the handles changes.
LEMMA HandleStep ==
  ASSUME IInv, UNCHANGED <<inst, journal, exec, call, armed, closed>>, OwnerType', HolderInv', CloseInv'
  PROVE  IInv'
<1>1. Types'
  BY DEF IInv, Types, JournalType, ExecType, CallType, journal, exec, call
<1>2. OrderInv' /\ TakenInv'
  <2>1. UNCHANGED still /\ durable' = durable
    BY DEF still, journal, exec
  <2>2. durable <= durable'
    BY SMTT(60), <2>1 DEF IInv, Types, JournalType
  <2> QED BY <1>1, <2>1, <2>2, CalmQueue DEF IInv
<1>3. /\ Place' = Place /\ (\A k : At(k)' = At(k))
      /\ (\A n, k : Covered(n, k)' = Covered(n, k))
  BY DEF Place, At, Covered, journal, exec
<1>4. RequeueInv'
  BY <1>3 DEF IInv, RequeueInv, journal, call
<1>5. CallInv'
  BY DEF IInv, CallInv, CallOk, journal, call
<1>6. SyncInv'
  BY <1>3 DEF IInv, SyncInv, SyncOk, Syncing, Synced, HasAfter, Drained, journal, call, exec
<1>7. WorkInv' /\ FlushedIsDurable'
  BY DEF IInv, WorkInv, FlushedIsDurable, journal, exec, call
<1> QED BY <1>1, <1>2, <1>4, <1>5, <1>6, <1>7 DEF IInv

\* A file is bound or mapped.
LEMMA InvOpen ==
  ASSUME IInv, UNCHANGED inst, NEW a \in Handles, Open(a)
  PROVE  IInv'
<1>1. OwnerType /\ HolderInv /\ CloseInv
  BY DEF IInv, Types
<1>2. /\ UNCHANGED <<inst, journal, exec, call, armed, closed>> /\ UNCHANGED <<op, pc, barrier>>
      /\ life[a] = "new" /\ life' = [life EXCEPT ![a] = "open"] /\ refs' = refs \cup {a}
      /\ "tree" \in refs
  BY DEF Open, Mounted, call, exec
<1> USE <1>2
<1>3. /\ life' \in [Handles -> {"new", "open", "unmapped", "gone"}]
      /\ \A h \in Handles : h # a => life'[h] = life[h]
      /\ life'[a] = "open" /\ life[a] \notin {"open", "unmapped"}
  BY <1>1 DEF OwnerType
<1>4. OwnerType'
  BY SMTT(60), <1>1, <1>3 DEF OwnerType
<1>5. HolderInv'
  BY <1>1, <1>3 DEF HolderInv, Mounted, call
<1>6. barrier = "none" /\ ~closed /\ \A b \in Actors : op[b] # "close"
  BY HeldOpen
<1>7. "none" \notin {"running", "done"} /\ "none" # "running" /\ "none" # "done"
  OBVIOUS
<1>8. ~Drained'
  BY <1>6, <1>7 DEF Drained
<1>9. CloseInv'
  BY <1>6, <1>7, <1>8 DEF CloseInv
<1> QED BY <1>4, <1>5, <1>9, HandleStep

\* A disk leaves the tree.
LEMMA InvUnmap ==
  ASSUME IInv, UNCHANGED inst, NEW v \in Vdisk, Unmap(v)
  PROVE  IInv'
<1>1. OwnerType /\ HolderInv /\ CloseInv /\ v \in Handles
  BY DEF IInv, Types, Handles
<1> USE <1>1
<1>2. /\ UNCHANGED <<inst, journal, exec, call, armed, closed>> /\ UNCHANGED refs
      /\ life[v] = "open" /\ life' = [life EXCEPT ![v] = "unmapped"]
  BY DEF Unmap
<1> USE <1>2
<1>3. /\ life' \in [Handles -> {"new", "open", "unmapped", "gone"}]
      /\ \A h \in Handles : h # v => life'[h] = life[h]
      /\ life'[v] = "unmapped"
  BY DEF OwnerType
<1>4. OwnerType'
  BY <1>3 DEF OwnerType
<1>5. HolderInv'
  BY <1>3 DEF HolderInv, Mounted, call
<1>6. CloseInv'
  BY DEF CloseInv, Drained, call, exec
<1> QED BY <1>4, <1>5, <1>6, HandleStep

-----------------------------------------------------------------------------
(* Tasks are added at the tail: cyanfs_super_flusher_start and             *)
(* cyanfs_requeue.                                                         *)

\* New tasks keep the order of the writers.
LEMMA TailOrder ==
  ASSUME Types, Types', OrderInv, NEW w \in Seq(Tasks), queue' = queue \o w,
         UNCHANGED <<active, done, written, error>>, taken <= taken',
         \A j \in 1 .. Len(w) :
           /\ Plain(w[j])
           /\ IsWriter(w[j]) => j = 1 /\ taken <= w[j].upto /\ w[j].upto <= taken'
  PROVE  OrderInv'
<1>1. ExecType /\ ExecType' /\ Len(queue) \in Nat /\ Len(w) \in Nat
  BY SMTT(60), PlaceFacts DEF Types
<1> USE <1>1
<1>2. /\ taken \in Nat /\ taken' \in Nat /\ written \in Nat /\ written <= taken
  BY DEF Types, JournalType
<1>3. PICK n \in Nat : n = Len(queue)
  OBVIOUS
<1>4. /\ \A k \in Place : k \in Place' /\ At(k)' = At(k)
      /\ \A k \in Place' : k \in Place \/ \E j \in 1 .. Len(w) : k = n + j /\ At(k)' = w[j]
  <2>1. /\ \A k \in Place : k \in Place' /\ At(k)' = At(k)
        /\ \A k \in Place' : k \in Place \/ \E j \in 1 .. Len(w) : k = n + j
        /\ \A j \in 1 .. Len(w) : At(n + j)' = w[j]
    BY ZenonT(60), <1>3, MovesAppend
  <2>2. ASSUME NEW k \in Place', NEW j \in 1 .. Len(w), k = n + j PROVE At(k)' = w[j]
    BY <2>1, <2>2
  <2> QED BY <2>1, <2>2
<1> USE <1>4
<1>5. \A k \in Place : k \in Nat /\ k <= n
  BY <1>3, PlaceFacts
<1>6. ASSUME NEW i \in Nat, PlainFrom(i) PROVE PlainFrom(i)'
  <2> SUFFICES ASSUME NEW k \in Place', k >= i PROVE Plain(At(k)')
    BY DEF PlainFrom, Plain
  <2> QED BY <1>6 DEF PlainFrom
<1>7. 0 \in Place /\ 1 \in Nat /\ 2 \in Nat /\ 3 \in Nat
  BY PlaceFacts
<1> USE <1>7
<1>8. Shape'
  <2>1. At(0)' = At(0)
    OBVIOUS
  <2> USE <2>1
  <2>2. CASE At(0).type \notin {"before", "before_flush"} /\ PlainFrom(1)
    BY <1>6, <2>2 DEF Shape
  <2>3. CASE /\ At(0) = NoTask /\ 1 \in Place
             /\ At(1).type \in {"write", "nop", "after_flush"} /\ PlainFrom(2)
    BY <1>6, <2>3 DEF Shape
  <2>4. CASE /\ At(0).type \in {"before", "before_flush"} /\ 1 \in Place
             /\ At(1).type = "write" /\ PlainFrom(2)
    BY <1>6, <2>4 DEF Shape
  <2>5. CASE /\ At(0) = NoTask /\ 2 \in Place
             /\ At(1).type \in {"before", "before_flush"} /\ At(2).type = "write" /\ PlainFrom(3)
    <3>1. 1 \in Place
      BY SMTT(60), <2>5 DEF Place
    <3> QED BY <1>6, <2>5, <3>1 DEF Shape
  <2> QED BY <2>2, <2>3, <2>4, <2>5 DEF OrderInv, Shape
<1>9. \A k \in Place : IsWriter(At(k)) => At(k).upto \in Nat /\ At(k).upto <= taken
  BY PlaceFacts, WriterFacts DEF OrderInv, Bounds
<1>10. \A j \in 1 .. Len(w) : IsWriter(w[j]) => w[j].upto \in Nat
  <2>1. \A j \in 1 .. Len(w) : w[j] \in Tasks
    BY SMTT(60)
  <2> QED BY <2>1, WriterFacts
<1>11. Bounds'
  <2> SUFFICES ASSUME NEW k \in Place'
               PROVE  /\ IsWriter(At(k)') => written <= At(k)'.upto /\ At(k)'.upto <= taken'
                      /\ At(k)'.type = "write" => written <= At(k)'.to /\ At(k)'.to <= At(k)'.upto
                      /\ At(k)'.type = "nop" => error
    BY DEF Bounds, IsWriter
  <2>1. CASE k \in Place
    <3>1. IsWriter(At(k)) => At(k).upto <= taken'
      BY SMTT(60), <1>2, <1>9, <2>1
    <3> QED BY <2>1, <3>1 DEF OrderInv, Bounds
  <2>2. ASSUME NEW j \in 1 .. Len(w), k = n + j, At(k)' = w[j]
        PROVE  /\ IsWriter(At(k)') => written <= At(k)'.upto /\ At(k)'.upto <= taken'
               /\ At(k)'.type \notin {"write", "nop"}
    <3>1. IsWriter(w[j]) => written <= w[j].upto /\ w[j].upto <= taken'
      BY SMTT(60), <1>2, <1>10
    <3>2. w[j].type \notin {"write", "nop"}
      BY DEF Plain
    <3> QED BY <2>2, <3>1, <3>2
  <2> QED BY <2>1, <2>2
<1>12. Sorted'
  <2> SUFFICES ASSUME NEW k \in Place', NEW l \in Place', k < l, IsWriter(At(k)'), IsWriter(At(l)')
               PROVE  At(k)'.upto <= At(l)'.upto
    BY DEF Sorted, IsWriter
  <2>1. CASE k \in Place /\ l \in Place
    BY <2>1 DEF OrderInv, Sorted
  <2>2. ASSUME k \in Place, NEW j \in 1 .. Len(w), At(l)' = w[j] PROVE At(k)'.upto <= At(l)'.upto
    <3>1. /\ At(k)' = At(k) /\ At(k).upto \in Nat /\ At(k).upto <= taken
          /\ w[j].upto \in Nat /\ taken <= w[j].upto
      BY <1>9, <1>10, <2>2
    <3>2. At(k).upto <= w[j].upto
      BY SMTT(60), <1>2, <3>1
    <3> QED BY <2>2, <3>1, <3>2
  <2>3. ASSUME NEW j \in 1 .. Len(w), k = n + j, At(k)' = w[j] PROVE FALSE
    <3>1. j = 1
      BY <2>3
    <3>2. l \notin Place
      BY SMTT(60), <1>5, <2>3, <3>1
    <3>3. PICK i \in 1 .. Len(w) : l = n + i /\ At(l)' = w[i]
      BY <3>2
    <3>4. i = 1
      BY <3>3
    <3> QED BY SMTT(60), <2>3, <3>1, <3>3, <3>4
  <2> QED BY <2>1, <2>2, <2>3
<1> QED BY <1>8, <1>11, <1>12 DEF OrderInv

\* What is ahead of them does not move.
LEMMA TailKept ==
  ASSUME Types, Types', NEW w \in Seq(Tasks), queue' = queue \o w,
         UNCHANGED <<active, done, written, error>>, durable <= durable'
  PROVE  Keeps(0) /\ AftersKept
<1>1. ExecType /\ Len(queue) \in Nat /\ written \in Nat
  BY PlaceFacts DEF Types, JournalType
<1> USE <1>1
<1>2. \A k \in Place : k \in Place' /\ At(k)' = At(k)
  BY ZenonT(60), MovesAppend
<1>3. \A k \in Place : k + 0 = k /\ k <= k
  <2>1. \A k \in Place : k \in Int
    BY PlaceFacts
  <2> QED BY SMTT(60), <2>1
<1>4. ASSUME NEW l \in Place, IsWriter(At(l))
      PROVE  \E m \in Place' : m <= l + 0 /\ IsWriter(At(m)') /\ At(l).upto <= At(m)'.upto
  <2>1. At(l).upto \in Nat
    BY <1>4, PlaceFacts, WriterFacts
  <2>2. At(l).upto <= At(l).upto
    BY SMTT(60), <2>1
  <2> QED BY <1>2, <1>3, <1>4, <2>2
<1>5. Keeps(0)
  <2>1. written <= written'
    BY SMTT(60)
  <2> QED BY <1>4, <2>1 DEF Keeps
<1>6. 0 \in Int /\ (error => error')
  BY SMTT(60)
<1> QED BY <1>2, <1>3, <1>5, <1>6, AfterMoves

\* What the step of an actor that adds tasks has to establish.
LEMMA TailStep ==
  ASSUME IInv, Types', OrderInv', TakenInv', RequeueInv', AftersKept, Monotone, NEW a \in Actors,
         \A b \in Actors : b # a => SameCall(b) /\ SameComp(b), CallOk(a)', SyncOk(a)',
         UNCHANGED <<active, took, waiters, work, barrier>>, HolderInv', CloseInv', FlushedIsDurable'
  PROVE  IInv'
<1>1. Types /\ CallInv /\ SyncInv /\ WorkInv /\ (Drained' => Drained)
  BY DEF IInv, Drained
<1>2. CallInv'
  BY <1>1, CallKept DEF CallInv
<1>3. SyncInv'
  <2>1. ASSUME NEW b \in Actors, b # a PROVE SyncOk(b)'
    BY <1>1, <2>1, SyncKept DEF SyncInv
  <2> QED BY <2>1 DEF SyncInv
<1>4. WorkInv'
  BY <1>1 DEF WorkInv
<1> QED BY <1>2, <1>3, <1>4 DEF IInv

\* The tasks of a flusher.
LEMMA TakeTasks ==
  ASSUME Types, NEW a \in Actors, FlusherTake(a)
  PROVE  \E w \in Seq(Tasks) :
           /\ queue' = queue \o w
           /\ IF queue = << >> /\ w # << >> THEN Goto(a, "wake") ELSE AfterFlusher(a)
           /\ \A j \in 1 .. Len(w) :
                /\ w[j].type \in {"encode", "after", "free"}
                /\ IsWriter(w[j]) => j = 1 /\ w[j].upto = appended
           /\ taken # appended => 1 \in 1 .. Len(w) /\ IsWriter(w[1])
           /\ pc[a] = "take_ondisk" =>
                \E j \in 1 .. Len(w) : IsAfter(w[j]) /\ (taken # appended => j = 2)
<1> DEFINE e == Writer("encode", taken, appended, FALSE)
           writer == IF taken = appended THEN << >> ELSE <<e>>
           after == IF pc[a] = "take_ondisk" THEN <<Nop("after")>> ELSE << >>
           free == IF taken = appended /\ pc[a] # "take_ondisk" THEN << >> ELSE <<Nop("free")>>
<1>1. /\ queue' = queue \o (writer \o after \o free)
      /\ IF queue = << >> /\ writer \o after \o free # << >> THEN Goto(a, "wake") ELSE AfterFlusher(a)
  BY DEF FlusherTake
<1>2. /\ e \in Tasks /\ e.type = "encode" /\ e.upto = appended
      /\ Nop("after") \in Tasks /\ Nop("after").type = "after"
      /\ Nop("free") \in Tasks /\ Nop("free").type = "free"
  <2>1. appended \in 0 .. MaxAppends /\ taken \in 0 .. MaxAppends
    BY SMTT(60), BackendAssumption DEF Types, JournalType
  <2>2. e \in Tasks
    BY <2>1 DEF Writer, Tasks
  <2>3. e.type = "encode" /\ e.upto = appended
    BY DEF Writer
  <2> QED BY <2>2, <2>3, MadeTasks
<1>3. PICK x \in Tasks : x = e /\ x.type = "encode" /\ x.upto = appended
  BY <1>2
<1>4. PICK y \in Tasks : y = Nop("after") /\ y.type = "after"
  BY <1>2
<1>5. PICK z \in Tasks : z = Nop("free") /\ z.type = "free"
  BY <1>2
<1>6. PICK p \in Nat, f \in Seq(Tasks) :
        f = writer /\ Len(f) = p /\ p <= 1 /\ (taken # appended <=> p = 1) /\ (p = 1 => f[1] = x)
  <2>1. /\ << >> \in Seq(Tasks) /\ Len(<< >>) = 0 /\ 0 # 1 /\ {0, 1} \subseteq Nat /\ 0 <= 1 /\ 1 <= 1
        /\ <<x>> \in Seq(Tasks) /\ Len(<<x>>) = 1 /\ <<x>>[1] = x
    BY SMTT(60)
  <2> QED BY <1>3, <2>1
<1>7. PICK q \in Nat, g \in Seq(Tasks) :
        g = after /\ Len(g) = q /\ q <= 1 /\ (pc[a] = "take_ondisk" <=> q = 1) /\ (q = 1 => g[1] = y)
  <2>1. /\ << >> \in Seq(Tasks) /\ Len(<< >>) = 0 /\ 0 # 1 /\ {0, 1} \subseteq Nat /\ 0 <= 1 /\ 1 <= 1
        /\ <<y>> \in Seq(Tasks) /\ Len(<<y>>) = 1 /\ <<y>>[1] = y
    BY SMTT(60)
  <2> QED BY <1>4, <2>1
<1>8. PICK r \in Nat, h \in Seq(Tasks) : h = free /\ Len(h) = r /\ r <= 1 /\ (r = 1 => h[1] = z)
  <2>1. /\ << >> \in Seq(Tasks) /\ Len(<< >>) = 0 /\ 0 # 1 /\ {0, 1} \subseteq Nat /\ 0 <= 1 /\ 1 <= 1
        /\ <<z>> \in Seq(Tasks) /\ Len(<<z>>) = 1 /\ <<z>>[1] = z
    BY SMTT(60)
  <2> QED BY <1>5, <2>1
<1>9. PICK w \in Seq(Tasks) :
        /\ w = f \o g \o h /\ Len(w) = p + q + r
        /\ \A j \in 1 .. p + q + r : \/ p = 1 /\ j = 1 /\ w[j] = f[1]
                                     \/ q = 1 /\ j = p + 1 /\ w[j] = g[1]
                                     \/ r = 1 /\ j = p + q + 1 /\ w[j] = h[1]
  <2>1. Len(f) = p /\ Len(g) = q /\ Len(h) = r /\ p <= 1 /\ q <= 1 /\ r <= 1
    BY <1>6, <1>7, <1>8
  <2>2. PICK u \in Seq(Tasks) : /\ u = f \o g /\ Len(u) = p + q /\ \A j \in 1 .. p : u[j] = f[j]
                                /\ \A j \in 1 .. q : u[p + j] = g[j]
    <3>1. /\ f \o g \in Seq(Tasks) /\ Len(f \o g) = p + q /\ \A j \in 1 .. p : (f \o g)[j] = f[j]
          /\ \A j \in 1 .. q : (f \o g)[p + j] = g[j]
      BY SMTT(60), <2>1
    <3> QED BY <3>1
  <2>3. PICK v \in Seq(Tasks) : /\ v = u \o h /\ Len(v) = p + q + r
                                /\ \A j \in 1 .. p + q : v[j] = u[j]
                                /\ \A j \in 1 .. r : v[p + q + j] = h[j]
    <3>1. /\ u \o h \in Seq(Tasks) /\ Len(u \o h) = p + q + r
          /\ \A j \in 1 .. p + q : (u \o h)[j] = u[j]
          /\ \A j \in 1 .. r : (u \o h)[p + q + j] = h[j]
      BY SMTT(60), <2>1, <2>2
    <3> QED BY <3>1
  <2>4. v = f \o g \o h
    BY <2>2, <2>3
  <2>5. ASSUME NEW j \in 1 .. p + q + r
        PROVE  \/ p = 1 /\ j = 1 /\ v[j] = f[1]
               \/ q = 1 /\ j = p + 1 /\ v[j] = g[1]
               \/ r = 1 /\ j = p + q + 1 /\ v[j] = h[1]
    BY SMTT(60), <2>1, <2>2, <2>3
  <2> QED BY <2>3, <2>4, <2>5
<1>10. /\ queue' = queue \o w
       /\ IF queue = << >> /\ w # << >> THEN Goto(a, "wake") ELSE AfterFlusher(a)
  BY <1>1, <1>6, <1>7, <1>8, <1>9
<1>11. x.type = "encode" /\ x.upto = appended /\ y.type = "after" /\ z.type = "free"
  BY <1>3, <1>4, <1>5
<1>12. /\ (taken # appended <=> p = 1) /\ (pc[a] = "take_ondisk" <=> q = 1) /\ Len(w) = p + q + r
       /\ \A j \in 1 .. Len(w) : \/ p = 1 /\ j = 1 /\ w[j] = x
                                 \/ q = 1 /\ j = p + 1 /\ w[j] = y
                                 \/ r = 1 /\ j = p + q + 1 /\ w[j] = z
  <2>1. (p = 1 => f[1] = x) /\ (q = 1 => g[1] = y) /\ (r = 1 => h[1] = z)
    BY <1>6, <1>7, <1>8
  <2>2. /\ (taken # appended <=> p = 1) /\ (pc[a] = "take_ondisk" <=> q = 1) /\ Len(w) = p + q + r
        /\ \A j \in 1 .. Len(w) : \/ p = 1 /\ j = 1 /\ w[j] = f[1]
                                  \/ q = 1 /\ j = p + 1 /\ w[j] = g[1]
                                  \/ r = 1 /\ j = p + q + 1 /\ w[j] = h[1]
    BY <1>6, <1>7, <1>9
  <2> QED BY <2>1, <2>2
<1>13. \A j \in 1 .. Len(w) : /\ w[j].type \in {"encode", "after", "free"}
                              /\ IsWriter(w[j]) => j = 1 /\ w[j].upto = appended
  <2> SUFFICES ASSUME NEW j \in 1 .. Len(w)
               PROVE  /\ w[j].type \in {"encode", "after", "free"}
                      /\ IsWriter(w[j]) => j = 1 /\ w[j].upto = appended
    OBVIOUS
  <2>1. CASE p = 1 /\ j = 1 /\ w[j] = x
    BY <1>11, <2>1
  <2>2. CASE w[j] = y
    BY SMTT(60), <1>11, <2>2 DEF IsWriter
  <2>3. CASE w[j] = z
    BY SMTT(60), <1>11, <2>3 DEF IsWriter
  <2> QED BY <1>12, <2>1, <2>2, <2>3
<1>14. taken # appended => 1 \in 1 .. Len(w) /\ IsWriter(w[1])
  BY SMTT(60), <1>11, <1>12 DEF IsWriter
<1>15. ASSUME pc[a] = "take_ondisk"
       PROVE  \E j \in 1 .. Len(w) : IsAfter(w[j]) /\ (taken # appended => j = 2)
  <2>1. q = 1 /\ p + 1 \in 1 .. Len(w)
    BY SMTT(60), <1>12, <1>15
  <2>2. w[p + 1] = y /\ (taken # appended => p + 1 = 2)
    BY SMTT(60), <1>12, <2>1
  <2> QED BY <1>11, <2>1, <2>2 DEF IsAfter
<1> QED BY <1>10, <1>13, <1>14, <1>15

\* Behind the tail everything taken is covered.
LEMMA TailCovers ==
  ASSUME Types, Types', TakenInv, Keeps(0), ~error, NEW m \in Nat, m <= taken, NEW k \in Int,
         Len(queue) < k
  PROVE  Covered(m, k)'
<1>1. ExecType /\ taken \in Nat /\ Len(queue) \in Nat
  BY PlaceFacts DEF Types, JournalType
<1>2. Covered(taken, Len(queue) + 1)
  BY DEF TakenInv
<1>3. Len(queue) + 1 \in Int /\ Len(queue) + 1 <= k /\ k + 0 = k /\ 0 \in Int
  BY SMTT(60), <1>1
<1> USE <1>3
<1>4. Covered(m, Len(queue) + 1)
  BY <1>1, <1>2, CoverFewer
<1>5. Covered(m, k)
  BY <1>1, <1>4, CoverMore
<1>6. Covered(m, k + 0)'
  BY <1>5, CoverKept
<1> QED BY <1>6

\* The caller goes on when its flusher has taken the entries.
LEMMA TakeReturns ==
  ASSUME Types, NEW a \in Actors, CallOk(a), pc[a] \in Started, Goto(a, "wake") \/ AfterFlusher(a)
  PROVE  /\ promised' = promised
         /\ \E o \in Ops, p \in {"wake", "map", "waiter", "queue", "idle"}, g \in Nat :
              /\ Sets(a, o, p, g) /\ p \in PlacesOf(o)
              /\ \/ o = op[a] /\ g = goal[a] /\ p # "idle"
                 \/ o = "idle" /\ g = 0 /\ op[a] \in {"append", "periodic"}
              /\ o = "sync" => p \in {"wake", "waiter"}
<1>1. CallType /\ op[a] \in Ops /\ op[a] # "idle" /\ goal[a] \in Nat
  <2>1. CallType
    BY DEF Types
  <2>2. op[a] # "idle"
    BY <2>1, PlacesFacts DEF Started
  <2> QED BY <2>1, <2>2 DEF CallType
<1> USE <1>1
<1>2. CASE Goto(a, "wake")
  <2>1. promised' = promised /\ Sets(a, op[a], "wake", goal[a])
    BY <1>2, GotoSets
  <2>2. "wake" \in PlacesOf(op[a]) /\ "wake" # "idle"
    BY DEF Ops, PlacesOf, Started
  <2> QED BY <2>1, <2>2
<1>3. CASE AfterFlusher(a)
  <2>1. promised' = promised
    BY <1>3, FlusherReturns
  <2> USE <2>1
  <2>2. CASE op[a] \in Flushes /\ Sets(a, op[a], "map", goal[a])
    <3>1. "map" \in PlacesOf(op[a]) /\ "map" # "idle" /\ op[a] # "sync"
      BY <2>2 DEF PlacesOf, Flushes, Flushing
    <3> QED BY <2>2, <3>1
  <2>3. CASE op[a] = "sync" /\ Sets(a, op[a], "waiter", goal[a])
    <3>1. "waiter" \in PlacesOf(op[a]) /\ "waiter" # "idle"
      BY <2>3 DEF PlacesOf
    <3> QED BY <2>3, <3>1
  <2>4. CASE op[a] = "close" /\ Sets(a, op[a], "queue", goal[a])
    <3>1. "queue" \in PlacesOf(op[a]) /\ "queue" # "idle" /\ op[a] # "sync"
      BY <2>4 DEF PlacesOf
    <3> QED BY <2>4, <3>1
  <2>5. CASE op[a] \in {"append", "periodic"} /\ Sets(a, "idle", "idle", 0)
    <3>1. "idle" \in PlacesOf("idle") /\ "idle" \in Ops /\ "idle" # "sync" /\ 0 \in Nat
      BY PlacesHold
    <3> QED BY <2>5, <3>1
  <2> QED BY <1>3, <2>2, <2>3, <2>4, <2>5, FlusherReturns
<1> QED BY <1>2, <1>3

\* cyanfs_super_flusher_start under the write lock.
LEMMA InvFlusherTake ==
  ASSUME IInv, UNCHANGED inst, NEW a \in Actors, FlusherTake(a)
  PROVE  IInv'
<1>1. /\ CallOk(a) /\ SyncOk(a) /\ CallType /\ JournalType /\ ExecType /\ OwnerType /\ Types
      /\ OrderInv /\ TakenInv /\ RequeueInv /\ CloseInv
  BY DEF IInv, CallInv, SyncInv, Types
<1>2. pc[a] \in {"take", "take_ondisk"} /\ pc[a] \in Started
      /\ pc[a] \notin {"requeue_wake", "wait"} /\ pc[a] \notin {"queue", "served"}
      /\ pc[a] \notin {"flush_work", "super_close"} /\ pc[a] \notin {"cancel", "cancelled"}
      /\ pc[a] # "cancel"
  BY DEF FlusherTake, Started
<1>3. /\ UNCHANGED <<inst, appended, written, durable, error, active, done, work, pending, waiters,
                     took, barrier, comp, cover, life, refs, armed, closed>>
      /\ taken' = appended /\ flag' \in BOOLEAN
  BY DEF FlusherTake, owner
<1>4. PICK w \in Seq(Tasks) :
        /\ queue' = queue \o w
        /\ IF queue = << >> /\ w # << >> THEN Goto(a, "wake") ELSE AfterFlusher(a)
        /\ \A j \in 1 .. Len(w) :
             /\ w[j].type \in {"encode", "after", "free"}
             /\ IsWriter(w[j]) => j = 1 /\ w[j].upto = appended
        /\ taken # appended => 1 \in 1 .. Len(w) /\ IsWriter(w[1])
        /\ pc[a] = "take_ondisk" =>
             \E j \in 1 .. Len(w) : IsAfter(w[j]) /\ (taken # appended => j = 2)
  BY <1>1, TakeTasks
<1>5. Goto(a, "wake") \/ AfterFlusher(a)
  BY <1>4
<1>6. promised' = promised
  BY <1>1, <1>2, <1>5, TakeReturns
<1>7. PICK o \in Ops, p \in {"wake", "map", "waiter", "queue", "idle"}, g \in Nat :
        /\ Sets(a, o, p, g) /\ p \in PlacesOf(o)
        /\ \/ o = op[a] /\ g = goal[a] /\ p # "idle"
           \/ o = "idle" /\ g = 0 /\ op[a] \in {"append", "periodic"}
        /\ o = "sync" => p \in {"wake", "waiter"}
  BY <1>1, <1>2, <1>5, TakeReturns
<1>8. /\ op'[a] = o /\ pc'[a] = p /\ goal'[a] = g /\ \A b \in Actors : b # a => SameCall(b)
      /\ op' \in [Actors -> Ops] /\ goal' \in [Actors -> Nat]
      /\ pc' \in [Actors -> UNION {PlacesOf(x) : x \in Ops}]
  BY <1>1, <1>7, SetsFacts
<1>9. Types' /\ Monotone /\ durable <= durable' /\ taken <= taken' /\ appended \in Nat
  <2>1. queue' \in Seq(Tasks)
    BY SMTT(60), <1>1, <1>4 DEF ExecType
  <2>2. ExecType' /\ CallType' /\ OwnerType'
    BY <1>1, <1>3, <1>8, <2>1 DEF ExecType, CallType, OwnerType
  <2>3. /\ JournalType' /\ Monotone /\ durable <= durable' /\ taken <= taken' /\ appended \in Nat
    BY SMTT(60), <1>1, <1>3, <1>6 DEF JournalType, Monotone
  <2> QED BY <2>2, <2>3 DEF Types
<1>10. \A j \in 1 .. Len(w) : /\ Plain(w[j]) /\ w[j].type # "requeue"
                              /\ IsWriter(w[j]) => j = 1 /\ taken <= w[j].upto /\ w[j].upto <= taken'
  <2>0. \A t \in {"encode", "after", "free"} :
          t \in {"encode", "after", "free", "requeue"} /\ t # "requeue"
    OBVIOUS
  <2>1. \A j \in 1 .. Len(w) : Plain(w[j]) /\ w[j].type # "requeue"
    BY <1>4, <2>0 DEF Plain
  <2>2. taken <= appended /\ appended <= taken'
    BY SMTT(60), <1>1, <1>3 DEF JournalType
  <2> QED BY <1>4, <2>1, <2>2
<1>11. OrderInv'
  BY <1>1, <1>3, <1>4, <1>9, <1>10, TailOrder
<1>12. Keeps(0) /\ AftersKept
  BY <1>1, <1>3, <1>4, <1>9, TailKept
<1>13. PICK n \in Nat : n = Len(queue)
  BY <1>1, PlaceFacts
<1>14. /\ Len(queue') = n + Len(w) /\ Len(w) \in Nat
       /\ \A k \in Place : k \in Place' /\ At(k)' = At(k)
       /\ \A k \in Place' : k \in Place \/ \E j \in 1 .. Len(w) : k = n + j
       /\ \A j \in 1 .. Len(w) : n + j \in Place' /\ At(n + j)' = w[j]
  <2>1. Len(w) \in Nat
    BY SMTT(60)
  <2>2. queue' = queue \o w /\ UNCHANGED <<active, done>>
    BY <1>3, <1>4
  <2>3. ExecType
    BY <1>1
  <2>4. /\ Len(queue') = n + Len(w)
        /\ \A k \in Place : k \in Place' /\ At(k)' = At(k)
        /\ \A k \in Place' : k \in Place \/ \E j \in 1 .. Len(w) : k = n + j
        /\ \A j \in 1 .. Len(w) : n + j \in Place' /\ At(n + j)' = w[j]
    BY ZenonT(60), <1>13, <2>2, <2>3, MovesAppend
  <2> QED BY <2>1, <2>4
<1>15. ASSUME NEW m \in Nat, m <= appended, NEW k \in Int, n < k, taken # appended => k # n + 1
       PROVE  error \/ Covered(m, k)'
  <2>1. CASE taken # appended
    <3>1. 1 \in 1 .. Len(w) /\ IsWriter(w[1]) /\ w[1].upto = appended
      BY <1>4, <2>1
    <3>2. n + 1 \in Place' /\ IsWriter(At(n + 1))' /\ At(n + 1)'.upto = appended
      BY <1>14, <3>1 DEF IsWriter
    <3>3. n + 1 < k
      BY SMTT(60), <1>15, <2>1
    <3>4. m <= At(n + 1)'.upto
      BY <1>15, <3>2
    <3> QED BY <3>2, <3>3, <3>4 DEF Covered
  <2>2. CASE taken = appended
    BY <1>1, <1>9, <1>12, <1>13, <1>15, <2>2, TailCovers
  <2> QED BY <2>1, <2>2
<1>16. TakenInv'
  <2>1. /\ n + Len(w) + 1 \in Int /\ n < n + Len(w) + 1 /\ appended <= appended
        /\ (1 \in 1 .. Len(w) => n + Len(w) + 1 # n + 1)
    BY SMTT(60), <1>9, <1>13, <1>14
  <2>2. taken # appended => n + Len(w) + 1 # n + 1
    BY <1>4, <2>1
  <2>3. PICK m \in Nat : m = appended
    BY <1>9
  <2>4. error \/ Covered(m, n + Len(w) + 1)'
    BY <1>15, <2>1, <2>2, <2>3
  <2> QED BY <1>3, <1>14, <2>3, <2>4 DEF TakenInv
<1>17. RequeueInv'
  <2>1. Back(0, NoTask)
    <3> SUFFICES ASSUME NEW m \in Place', At(m)'.type = "requeue"
                 PROVE  m - 0 \in Place /\ At(m - 0) = At(m)' /\ At(m)' # NoTask
      BY DEF Back
    <3>1. m \in Place
      <4> SUFFICES ASSUME NEW j \in 1 .. Len(w), m = n + j PROVE FALSE
        BY <1>14
      <4> QED BY <1>10, <1>14
    <3>2. m - 0 = m
      BY SMTT(60), <3>1 DEF Place
    <3>3. "requeue" # "none"
      OBVIOUS
    <3>4. At(m)' # NoTask
      BY <3>3, MadeTasks
    <3> QED BY <1>14, <3>1, <3>2, <3>4
  <2>2. \A b \in Handles :
          pc[b] \in {"requeue_wake", "wait"} /\ comp[b] = "none" =>
            pc'[b] \in {"requeue_wake", "wait"} /\ comp'[b] = "none" /\ goal'[b] = goal[b]
    BY <1>2, <1>3, <1>8 DEF SameCall, Actors
  <2>3. 0 \in Int /\ (error => error')
    BY SMTT(60), <1>3
  <2> QED BY <1>1, <1>9, <1>12, <2>1, <2>2, <2>3, RequeueMoves
<1>18. CallOk(a)'
  <2>1. comp'[a] = "none"
    BY <1>1, <1>2, <1>3 DEF CallOk
  <2>2. "none" # "fired" /\ "none" # "flushing" /\ "none" # "ok" /\ p # "submit"
    BY <1>7
  <2>3. g <= appended
    BY <1>1, <1>7, <1>9 DEF CallOk
  <2>4. o \in {"idle", "append", "periodic"} => g = 0
    BY <1>1, <1>7 DEF CallOk
  <2> QED BY <1>1, <1>3, <1>7, <1>8, <2>1, <2>2, <2>3, <2>4 DEF CallOk
<1>19. /\ HolderInv' /\ CloseInv'
       /\ o = "close" => barrier = "none"
  <2>1. CASE o # "close"
    <3>1. op[a] # "close" /\ op[a] # "idle" /\ op'[a] \in {op[a], "idle"}
      BY <1>1, <1>2, <1>7, <1>8, <2>1, PlacesFacts DEF Started
    <3>2. op[a] \notin {"idle", "close"}
      BY <3>1
    <3> QED BY <1>3, <1>8, <2>1, <3>1, <3>2, OwnerBusy
  <2>2. CASE o = "close"
    <3>1. op[a] = "close" /\ p # "flush_work" /\ p # "super_close"
      BY SMTT(60), <1>7, <2>2
    <3>2. ~armed /\ op["timer"] = "idle"
      BY <1>1, <1>2, <3>1 DEF CloseInv
    <3>3. /\ op'[a] = "close" /\ pc'[a] \notin {"flush_work", "super_close"} /\ ~armed'
          /\ UNCHANGED <<life, refs, closed, barrier>>
      BY SMTT(60), <1>3, <1>8, <2>2, <3>1, <3>2
    <3> QED BY <1>2, <1>8, <3>1, <3>2, <3>3, OwnerCloses
  <2> QED BY <2>1, <2>2
<1>20. SyncOk(a)'
  <2>1. a \notin waiters' \cup took' /\ a \notin took'
    BY <1>1, <1>2, <1>3 DEF SyncOk
  <2>2. ~(o = "close" /\ Drained')
    BY <1>3, <1>19 DEF Drained
  <2>3. ~(o = "sync" /\ p \in {"queue", "served"})
    BY <1>7
  <2>4. ASSUME o \in {"sync", "close"} PROVE (Synced(g) \/ HasAfter(g))'
    <3>1. op[a] \in {"sync", "close"} /\ g = goal[a]
      BY <1>7, <2>4
    <3>2. pc[a] = "take_ondisk" /\ g <= appended
      BY <1>1, <1>2, <3>1, PlacesFacts DEF CallOk
    <3>3. PICK j \in 1 .. Len(w) : IsAfter(w[j]) /\ (taken # appended => j = 2)
      BY <1>4, <3>2
    <3>4. n + j \in Int /\ n < n + j /\ (taken # appended => n + j # n + 1)
      BY SMTT(60), <1>14, <3>3
    <3>5. error \/ Covered(g, n + j)'
      BY <1>15, <3>2, <3>4
    <3>6. n + j \in Place' /\ IsAfter(At(n + j))'
      BY <1>14, <3>3 DEF IsAfter
    <3> QED BY <1>3, <3>5, <3>6 DEF Synced, HasAfter
  <2>5. Syncing(a)' => o \in {"sync", "close"}
    BY <1>8 DEF Syncing
  <2> QED BY <1>8, <2>1, <2>2, <2>3, <2>4, <2>5 DEF SyncOk
<1>21. FlushedIsDurable'
  BY SMTT(60), <1>3, <1>6 DEF IInv, FlushedIsDurable
<1>22. \A b \in Actors : b # a => SameCall(b) /\ SameComp(b)
  BY <1>3, <1>8 DEF SameComp
<1> QED BY <1>3, <1>9, <1>11, <1>12, <1>16, <1>17, <1>18, <1>19, <1>20, <1>21, <1>22, TailStep

\* Only descriptors and disks flush.
LEMMA FlushersHold ==
  ASSUME IInv, NEW a \in Actors, op[a] \in Flushes
  PROVE  a \in Handles /\ op[a] \notin {"idle", "close", "sync"}
<1>1. HolderInv
  BY DEF IInv
<1>2. op[a] \notin {"idle", "append", "sync", "close"} /\ op[a] \notin {"idle", "periodic"}
      /\ op[a] \notin {"idle", "close", "sync"}
  BY DEF Flushes
<1> QED BY <1>1, <1>2 DEF HolderInv, Actors

\* cyanfs_requeue.
LEMMA InvRequeue ==
  ASSUME IInv, UNCHANGED inst, NEW a \in Actors, Requeue(a)
  PROVE  IInv'
<1>1. /\ CallOk(a) /\ SyncOk(a) /\ CallType /\ JournalType /\ ExecType /\ OwnerType /\ Types
      /\ OrderInv /\ TakenInv /\ RequeueInv
  BY DEF IInv, CallInv, SyncInv, Types
<1>2. /\ UNCHANGED <<inst, journal, active, done, work, pending, waiters, took, barrier, comp, cover,
                     life, refs, armed, closed>>
      /\ UNCHANGED <<appended, taken, written, durable, error, flag>>
  BY DEF Requeue, owner, journal
<1>3. pc[a] = "requeue" /\ op[a] \in Flushes
  BY <1>1, PlacesFacts DEF Requeue, Flushing
<1>4. a \in Handles /\ op[a] \notin {"idle", "close", "sync"}
  BY <1>3, FlushersHold
<1>5. pc[a] \notin {"requeue_wake", "wait", "queue", "served", "cancel", "cancelled",
                    "flush_work", "super_close"} /\ op[a] \in Ops /\ goal[a] \in Nat
  BY <1>1, <1>3 DEF CallType
<1>6. CASE Fail(a) /\ UNCHANGED queue
  <2>1. promised' = promised /\ pending' \in BOOLEAN
    BY <1>1, <1>2, <1>6, FlusherFails DEF ExecType
  <2>2. CASE op[a] = "release" /\ Sets(a, op[a], "put", 0)
    <3>1. "put" \in PlacesOf(op[a]) /\ "put" \notin Flushing \cup {"wake"} /\ "put" # "submit"
          /\ op[a] \notin {"sync", "close"}
      BY <2>2 DEF PlacesOf, Flushing
    <3> QED BY <1>2, <1>4, <1>5, <1>6, <2>1, <2>2, <3>1, CallGoesOn
  <2>3. CASE Sets(a, "idle", "idle", 0)
    <3>1. /\ "idle" \in PlacesOf("idle") /\ "idle" \in Ops /\ "idle" \notin Flushes /\ "idle" # "submit"
          /\ "idle" # "sync" /\ "idle" # "close"
      BY DEF PlacesOf, Ops, Flushes
    <3> QED BY <1>2, <1>4, <1>5, <1>6, <2>1, <2>3, <3>1, CallGoesOn
  <2> QED BY <1>1, <1>4, <1>6, <2>2, <2>3, FlusherFails
<1>7. ASSUME queue' = Append(queue, RequeueTask(a)), NEW p \in {"requeue_wake", "wait"}, Goto(a, p)
      PROVE  IInv'
  <2>1. promised' = promised /\ Sets(a, op[a], p, goal[a])
    BY <1>1, <1>7, GotoSets
  <2>2. p \in PlacesOf(op[a]) /\ p \in Flushing /\ p # "submit"
    BY <1>3, <1>7, PlacesHold DEF Flushing
  <2>3. /\ op'[a] = op[a] /\ pc'[a] = p /\ goal'[a] = goal[a]
        /\ \A b \in Actors : b # a => SameCall(b)
        /\ op' \in [Actors -> Ops] /\ goal' \in [Actors -> Nat]
        /\ pc' \in [Actors -> UNION {PlacesOf(x) : x \in Ops}]
    BY <1>1, <1>5, <2>1, <2>2, SetsFacts
  <2>4. PICK x \in Tasks : x = RequeueTask(a) /\ x.type = "requeue" /\ x.who = a
    <3>1. RequeueTask(a) \in Tasks
      BY <1>4 DEF RequeueTask, Tasks
    <3>2. RequeueTask(a).type = "requeue" /\ RequeueTask(a).who = a
      BY DEF RequeueTask
    <3> QED BY <3>1, <3>2
  <2>5. PICK w \in Seq(Tasks) : Len(w) = 1 /\ w[1] = x /\ queue' = queue \o w
    <3>1. <<x>> \in Seq(Tasks) /\ Len(<<x>>) = 1 /\ <<x>>[1] = x
      BY SMTT(60)
    <3>2. Append(queue, x) = queue \o <<x>>
      BY SMTT(60), <1>1 DEF ExecType
    <3> QED BY <1>7, <2>4, <3>1, <3>2
  <2>6. Types' /\ Monotone /\ durable <= durable' /\ taken <= taken'
    <3>1. queue' \in Seq(Tasks)
      BY SMTT(60), <1>1, <2>5 DEF ExecType
    <3>2. ExecType' /\ CallType' /\ OwnerType'
      BY <1>1, <1>2, <2>3, <3>1 DEF ExecType, CallType, OwnerType
    <3>3. JournalType' /\ Monotone /\ durable <= durable' /\ taken <= taken'
      BY SMTT(60), <1>1, <1>2, <2>1 DEF JournalType, Monotone
    <3> QED BY <3>2, <3>3 DEF Types
  <2>7. OrderInv'
    <3>1. \A j \in 1 .. Len(w) : w[j] = x
      BY SMTT(60), <2>5
    <3>2. Plain(x) /\ ~IsWriter(x)
      BY <2>4 DEF Plain, IsWriter
    <3> QED BY <1>1, <1>2, <2>5, <2>6, <3>1, <3>2, TailOrder
  <2>8. Keeps(0) /\ AftersKept
    BY <1>1, <1>2, <2>5, <2>6, TailKept
  <2>9. PICK n \in Nat : n = Len(queue)
    BY <1>1, PlaceFacts
  <2>10. /\ Len(queue') = n + 1
         /\ \A k \in Place : k \in Place' /\ At(k)' = At(k)
         /\ \A k \in Place' : k \in Place \/ k = n + 1
         /\ n + 1 \in Place' /\ At(n + 1)' = x
    <3>1. /\ Len(queue') = n + Len(w)
          /\ \A k \in Place : k \in Place' /\ At(k)' = At(k)
          /\ \A k \in Place' : k \in Place \/ \E j \in 1 .. Len(w) : k = n + j
          /\ \A j \in 1 .. Len(w) : n + j \in Place' /\ At(n + j)' = w[j]
      <4>1. ExecType /\ queue' = queue \o w /\ UNCHANGED <<active, done>>
        BY <1>1, <1>2, <2>5
      <4> QED BY ZenonT(60), <2>9, <4>1, MovesAppend
    <3>2. 1 \in 1 .. Len(w) /\ \A j \in 1 .. Len(w) : j = 1
      BY SMTT(60), <2>5
    <3> QED BY <2>5, <3>1, <3>2
  <2>11. ASSUME NEW m \in Nat, m <= taken, NEW k \in Int, n < k PROVE error \/ Covered(m, k)'
    BY <1>1, <2>6, <2>8, <2>9, <2>11, TailCovers
  <2>12. TakenInv'
    <3>1. PICK m \in Nat : m = taken /\ m <= taken
      BY SMTT(60), <1>1 DEF JournalType
    <3>2. n + 1 + 1 \in Int /\ n < n + 1 + 1
      BY SMTT(60), <2>9
    <3>3. error \/ Covered(m, n + 1 + 1)'
      BY <2>11, <3>1, <3>2
    <3> QED BY <1>2, <2>10, <3>1, <3>3 DEF TakenInv
  <2>13. RequeueInv'
    <3>1. \A k \in Place : At(k) # x
      BY <1>1, <1>4, <1>5, <2>4 DEF RequeueInv
    <3>2. ASSUME NEW b \in Handles, NEW m \in Place', At(m)' = RequeueTask(b)
          PROVE  /\ pc'[b] \in {"requeue_wake", "wait"} /\ comp'[b] = "none"
                 /\ error' \/ Covered(goal[b], m)'
                 /\ \A l \in Place' : At(l)' = RequeueTask(b) => l = m
      <4>1. CASE m \in Place
        <5>1. b \in Actors /\ b # a /\ At(m) = RequeueTask(b) /\ RequeueTask(b) # x
          BY <2>4, <2>10, <3>1, <3>2, <4>1 DEF Actors
        <5>2. /\ pc[b] \in {"requeue_wake", "wait"} /\ comp[b] = "none"
              /\ error \/ Covered(goal[b], m)
              /\ \A l \in Place : At(l) = RequeueTask(b) => l = m
          BY <1>1, <3>2, <4>1, <5>1 DEF RequeueInv
        <5>3. pc'[b] = pc[b] /\ comp'[b] = comp[b] /\ goal'[b] = goal[b]
          BY <1>2, <2>3, <5>1 DEF SameCall
        <5>4. error' \/ Covered(goal[b], m)'
          <6>1. PICK g \in Nat : g = goal[b]
            BY <1>1, <5>1 DEF CallType
          <6>2. m \in Int /\ 0 \in Int /\ m + 0 = m
            BY SMTT(60), <4>1 DEF Place
          <6>3. Covered(g, m) => Covered(g, m)'
            BY <1>1, <2>6, <2>8, <6>2, CoverKept
          <6> QED BY <1>2, <5>2, <5>3, <6>1, <6>3
        <5> QED BY <2>10, <5>1, <5>2, <5>3, <5>4
      <4>2. CASE m = n + 1
        <5>1. b = a
          <6>1. x = RequeueTask(b) /\ x.who = a
            BY <2>4, <2>10, <3>2, <4>2
          <6>2. RequeueTask(b).who = b
            BY DEF RequeueTask
          <6> QED BY <6>1, <6>2
        <5>2. comp'[a] = "none"
          BY <1>1, <1>2, <1>5 DEF CallOk
        <5>3. PICK g \in Nat : g = goal[a] /\ g <= taken
          BY <1>1, <1>3, <1>5 DEF CallOk, Flushing
        <5>4. n + 1 \in Int /\ n < n + 1
          BY SMTT(60), <2>9
        <5>5. error \/ Covered(g, n + 1)'
          BY <2>11, <5>3, <5>4
        <5>6. error' \/ Covered(goal[a], m)'
          BY <1>2, <2>3, <4>2, <5>3, <5>5
        <5>7. \A l \in Place' : At(l)' = RequeueTask(b) => l = m
          BY <2>4, <2>10, <3>1, <4>2, <5>1
        <5> QED BY <2>3, <5>1, <5>2, <5>6, <5>7
      <4> QED BY <2>10, <4>1, <4>2
    <3> QED BY <3>2 DEF RequeueInv, RequeueTask
  <2>14. CallOk(a)'
    <3>1. comp'[a] = "none" /\ goal[a] <= taken
      BY <1>1, <1>2, <1>3 DEF CallOk, Flushing
    <3>2. "none" # "fired" /\ "none" # "flushing" /\ "none" # "ok"
      OBVIOUS
    <3> QED BY <1>1, <1>2, <2>2, <2>3, <3>1, <3>2 DEF CallOk
  <2>15. HolderInv' /\ CloseInv'
    <3>1. op[a] \notin {"idle", "close"}
      BY <1>4
    <3> QED BY <1>2, <2>3, <3>1, OwnerBusy
  <2>16. SyncOk(a)'
    <3>1. a \notin waiters' \cup took' /\ a \notin took'
      BY <1>1, <1>2, <1>4 DEF SyncOk
    <3> QED BY <1>4, <2>3, <3>1 DEF SyncOk, Syncing
  <2>17. FlushedIsDurable'
    BY <1>2, <2>1 DEF IInv, FlushedIsDurable
  <2>18. \A b \in Actors : b # a => SameCall(b) /\ SameComp(b)
    BY <1>2, <2>3 DEF SameComp
  <2> QED BY <1>2, <2>6, <2>7, <2>8, <2>12, <2>13, <2>14, <2>15, <2>16, <2>17, <2>18, TailStep
<1> QED BY <1>6, <1>7 DEF Requeue

-----------------------------------------------------------------------------
(* The theorems.                                                           *)

\* cyanfs_backend_open leaves an empty queue and no call.
LEMMA InvInit ==
  ASSUME Init
  PROVE  IInv
<1>1. Types
  <2>1. JournalType
    <3>1. 0 \in Nat /\ 0 <= 0 /\ 0 <= MaxAppends
      BY SMTT(60), BackendAssumption
    <3> QED BY <3>1 DEF Init, JournalType
  <2>2. ExecType
    <3>1. << >> \in Seq(Tasks) /\ {} \subseteq Actors
      BY SMTT(60)
    <3> QED BY <3>1 DEF Init, ExecType
  <2>3. CallType
    <3>1. "idle" \in Ops /\ "idle" \in UNION {PlacesOf(o) : o \in Ops}
      <4>1. "idle" \in Ops /\ "idle" \in PlacesOf("idle")
        BY PlacesHold
      <4> QED BY <4>1
    <3> QED BY <3>1 DEF Init, CallType
  <2>4. OwnerType
    BY BackendAssumption DEF Init, OwnerType
  <2> QED BY <2>1, <2>2, <2>3, <2>4 DEF Types
<1>2. Place = {0} /\ At(0) = NoTask /\ \A k \in Place : k = 0
  BY SMTT(60) DEF Init, Place, At
<1> USE <1>2
<1>3. NoTask.type = "none" /\ ~IsWriter(NoTask) /\ ~IsAfter(NoTask)
  BY DEF NoTask, IsWriter, IsAfter
<1>4. OrderInv
  <2>1. Shape
    <3>1. PlainFrom(1)
      <4>1. ~(0 >= 1)
        BY SMTT(60)
      <4> QED BY <4>1 DEF PlainFrom
    <3>2. At(0).type \notin {"before", "before_flush"}
      BY <1>3
    <3> QED BY <3>1, <3>2 DEF Shape
  <2>2. Bounds /\ Sorted
    BY <1>3 DEF Bounds, Sorted
  <2> QED BY <2>1, <2>2 DEF OrderInv
<1>5. TakenInv
  BY SMTT(60) DEF Init, TakenInv, Covered
<1>6. RequeueInv
  <2>1. \A a \in Handles : NoTask # RequeueTask(a)
    BY DEF NoTask, RequeueTask
  <2> QED BY <2>1 DEF RequeueInv
<1>7. \A a \in Actors : op[a] = "idle" /\ pc[a] = "idle" /\ comp[a] = "none" /\ cover[a] = 0 /\ goal[a] = 0
  BY DEF Init
<1> USE <1>7
<1>8. CallInv
  <2> SUFFICES ASSUME NEW a \in Actors PROVE CallOk(a)
    BY DEF CallInv
  <2>1. pc[a] \in PlacesOf(op[a])
    BY PlacesHold
  <2>2. goal[a] <= appended /\ cover[a] <= written /\ goal[a] <= taken /\ goal[a] <= durable
    BY SMTT(60) DEF Init
  <2>3. pc[a] # "submit" /\ comp[a] \notin {"fired", "flushing", "ok"}
    OBVIOUS
  <2> QED BY <2>1, <2>2, <2>3 DEF CallOk
<1>9. SyncInv
  <2> SUFFICES ASSUME NEW a \in Actors PROVE SyncOk(a)
    BY DEF SyncInv
  <2>1. op[a] # "sync" /\ op[a] # "close" /\ waiters \cup took = {}
    BY DEF Init
  <2>2. ~Syncing(a)
    BY <2>1 DEF Syncing
  <2>3. a \notin waiters \cup took /\ a \notin took
    BY <2>1
  <2> QED BY <2>1, <2>2, <2>3 DEF SyncOk
<1>10. WorkInv
  BY DEF Init, WorkInv
<1>11. HolderInv
  <2>1. \A h \in Handles : life[h] = "new" /\ h \in Actors
    BY DEF Init, Actors
  <2>2. "ioctl" \in Actors /\ "timer" \in Actors
    BY DEF Actors
  <2> QED BY SMTT(60), <2>1, <2>2 DEF HolderInv
<1>12. CloseInv
  <2>1. \A a \in Actors : op[a] # "close"
    OBVIOUS
  <2>2. ~closed /\ barrier = "none" /\ barrier \notin {"running", "done"} /\ barrier # "done" /\ barrier # "running"
    BY DEF Init
  <2> QED BY <2>1, <2>2 DEF CloseInv, Drained
<1>13. FlushedIsDurable
  BY SMTT(60) DEF Init, FlushedIsDurable
<1> QED BY <1>1, <1>4, <1>5, <1>6, <1>8, <1>9, <1>10, <1>11, <1>12, <1>13 DEF IInv

\* Every step keeps the invariant.
LEMMA InvNext ==
  ASSUME IInv, Next
  PROVE  IInv'
<1> USE DEF Next
<1>1. ASSUME NEW a \in Actors, Step(a) PROVE IInv'
  BY <1>1, InvFlusherCheck, InvFlusherTake, InvNewTask, InvFlushMap, InvRequeue, InvSubmit,
     InvDeviceFlushed, InvFlushReturns, InvAddWaiter, InvQueueWork, InvSyncReturns, InvReleasePut,
     InvCancelFlushWork, InvWaitWork, InvSuperClose DEF Step
<1>2. ASSUME NEW a \in Actors, AppendEntry(a) \/ Flush(a) PROVE IInv'
  BY <1>2, InvAppendEntry, InvFlush
<1>3. ASSUME NEW a \in Handles, Open(a) PROVE IInv'
  BY <1>3, InvOpen
<1>4. ASSUME NEW v \in Vdisk, Unmap(v) \/ FreeWork(v) PROVE IInv'
  BY <1>4, InvUnmap, InvFreeWork
<1>5. ASSUME NEW c \in Ctl, Release(c) PROVE IInv'
  BY <1>5, InvRelease
<1>6. ASSUME PeriodicFlush \/ Umount PROVE IInv'
  BY <1>6, InvPeriodicFlush, InvUmount
<1>7. ASSUME Execute PROVE IInv'
  BY <1>7, InvWorkStart, InvGetTask, InvTaskDone, InvLoopEnd, InvWorkEnd, InvRunWriter,
     InvRunBefore, InvRunAfter, InvRunFlush, InvRunFree, InvRunRequeue DEF Execute
<1> QED BY <1>1, <1>2, <1>3, <1>4, <1>5, <1>6, <1>7

\* So does a step that leaves everything alone.
LEMMA InvStutter ==
  ASSUME IInv, UNCHANGED vars
  PROVE  IInv'
<1>1. Types /\ OrderInv /\ TakenInv /\ SyncInv /\ WorkInv /\ CloseInv
  BY DEF IInv
<1> USE <1>1
<1>2. UNCHANGED <<inst, journal, queue, active, done, call, owner>> /\ UNCHANGED exec
  BY DEF vars, exec
<1>3. /\ UNCHANGED <<op, pc, goal, promised, life, refs, armed, closed, comp, cover>>
      /\ UNCHANGED <<work, pending, waiters, took, barrier, queue, active, done>>
      /\ UNCHANGED <<inst, appended, taken, written, durable, flag, error>> /\ UNCHANGED still
  BY <1>2 DEF journal, call, owner, exec, still
<1> USE <1>3
<1>4. ExecType'
  BY DEF Types, ExecType
<1>5. Types'
  BY <1>4 DEF Types, JournalType, CallType, OwnerType
<1>6. Monotone
  BY SMTT(60) DEF Monotone, Types, JournalType
<1>7. AftersKept
  BY <1>5, <1>6, CalmQueue DEF Monotone
<1>8. SyncInv'
  <2>1. \A b \in Actors : SameCall(b)
    BY DEF SameCall
  <2>2. (Drained' => Drained) /\ waiters' \cup took' = waiters \cup took
    BY DEF Drained
  <2> QED BY <1>5, <1>6, <1>7, <2>1, <2>2, SyncKept DEF SyncInv
<1>9. WorkInv' /\ CloseInv'
  BY DEF WorkInv, CloseInv, Drained
<1> QED BY <1>2, <1>4, <1>8, <1>9, WorkStep

\* The state of the backend is consistent at every step of every thread: the
\* tasks of the queue are in the order in which their flushers took the
\* journal entries, every call that waits has its task behind the writers of
\* what it asked for, and the closer is alone.
THEOREM Invariance == Spec => []IInv
<1>1. Init => IInv
  BY InvInit
<1>2. IInv /\ [Next]_vars => IInv'
  BY InvNext, InvStutter
<1> QED BY <1>1, <1>2, PTL DEF Spec

\* An fsync, a flush bio, a sync or a close that succeeds leaves every entry
\* appended before it durable, for any number of descriptors and disks.
THEOREM PromisesKept == Spec => []FlushedIsDurable
<1>1. IInv => FlushedIsDurable
  BY DEF IInv
<1> QED BY <1>1, Invariance, PTL

\* cyanfs_super_close finds the queue empty, the work item idle and every
\* other thread gone, and it stays so.
THEOREM ClosesAlone == Spec => []ClosedQuiet
<1>1. IInv => ClosedQuiet
  <2> SUFFICES ASSUME IInv, NEW a \in Actors, closed \/ pc[a] = "super_close"
               PROVE  /\ queue = << >> /\ active = NoTask
                      /\ work = "idle" /\ ~pending /\ ~armed
                      /\ \A h \in Handles : life[h] \in {"new", "gone"}
                      /\ \A b \in Actors \ {a} : op[b] = "idle" \/ pc[b] = "super_close"
    BY DEF ClosedQuiet
  <2>1. CloseInv /\ HolderInv /\ WorkInv /\ CallOk(a) /\ CallType /\ OwnerType
    BY DEF IInv, CallInv, Types
  <2> USE <2>1
  <2>2. /\ refs = {} /\ ~armed /\ barrier = "done"
        /\ \A b \in Actors : b # a => op[b] = "idle"
    <3>1. CASE closed
      BY <3>1 DEF CloseInv
    <3>2. CASE pc[a] = "super_close"
      <4>1. op[a] = "close"
        BY <3>2, PlacesFacts
      <4>2. pc[a] # "cancel" /\ pc[a] \notin {"cancel", "cancelled"}
        BY <3>2
      <4>3. \A b \in Actors : b # a => op[b] = "idle"
        BY <4>1, <4>2, CloserAlone
      <4> QED BY <3>2, <4>1, <4>2, <4>3 DEF CloseInv
    <3> QED BY <3>1, <3>2
  <2>3. work = "idle" /\ ~pending /\ queue = << >>
    BY <2>2 DEF CloseInv, Drained
  <2>4. active = NoTask
    BY <2>3 DEF WorkInv
  <2>5. \A h \in Handles : life[h] \in {"new", "gone"}
    BY SMTT(60), <2>2 DEF HolderInv, OwnerType
  <2> QED BY <2>2, <2>3, <2>4, <2>5
<1> QED BY <1>1, Invariance, PTL

=============================================================================
