---------------------------- MODULE CyanfsBackend ----------------------------
(***************************************************************************)
(* The Linux backend: the task queue of a super, the work item that is its *)
(* only executor, and the callers that make tasks and wait for them.       *)
(*                                                                         *)
(* The callers are the ctl file descriptors (fsync, release), the virtual  *)
(* disks (flush bios), the ioctl thread (at most one, under                *)
(* cyanfs_ctl_lock) and the periodic flush_work.  Each is an actor with a  *)
(* program counter: a call takes files_lock, task_lock and the workqueue   *)
(* in turn, and the others run in between.  Whoever drops the last         *)
(* reference to the backend closes the super.                              *)
(*                                                                         *)
(* The journal is four counters over the entries in the order they were    *)
(* appended: taken by a flusher, written to the device, durable on it.     *)
(* What the entries say is the business of CyanfsSuper, how they are laid  *)
(* out on disk that of CyanfsJournal, which extents a flusher reclaims     *)
(* that of CyanfsExtents: here a flusher sets the FLUSH flag or not.       *)
(***************************************************************************)
EXTENDS Integers, Sequences, FiniteSets

CONSTANTS
  Ctl,          \* ctl file descriptors that may be bound to a file
  Vdisk,        \* virtual disks that may be mapped
  MaxAppends,   \* bound: journal entries appended
  Instances     \* set-ups and bounds, one of which a behaviour is about:
                \*   handles   the descriptors and disks in use
                \*   inflight  CYANFS_SUPER_MAX_INFLIGHT_JOURNAL
                \*   periodic  the period of flush_work is short enough for it to run
                \*   appends   bound: journal entries appended
                \*   flushes   bound: flushes asked for (fsync, flush bio, sync)
                \*   asks      bound: times a flusher asks for another with the FLUSH flag
                \*   fails     bound: failed allocations and failed I/O

ASSUME BackendAssumption ==
  /\ MaxAppends \in Nat
  /\ Instances \subseteq [handles : SUBSET (Ctl \cup Vdisk), inflight : Nat,
                         periodic : BOOLEAN, appends : 0..MaxAppends, flushes : Nat,
                         asks : Nat, fails : Nat]
  /\ {"ioctl", "timer", "tree"} \cap (Ctl \cup Vdisk) = {}
  /\ Ctl \cap Vdisk = {}

VARIABLES
  inst,      \* the instance, the same for ever
  appended, taken, written, durable, \* journal entries, counted in order
  flag,      \* CYANFS_SUPER_FLAG_FLUSH
  error,     \* CYANFS_SUPER_FLAG_ERROR
  queue,     \* task_head
  active,    \* the task the executor holds, or NoTask
  done,      \* t->done has returned, active_tasks is not yet decremented
  work,      \* the work item: "idle", "loop" or "complete"
  pending,   \* the work item is queued
  waiters,   \* sync_waiters
  took,      \* the waiters the running instance has spliced
  barrier,   \* the instance that flush_work waits for
  op, pc,    \* what each actor is doing, and where
  comp,      \* its completion, or its bio
  cover,     \* what a device flush under way will make durable
  goal,      \* entries appended when its call began, 0 if it failed
  promised,  \* the largest goal of a call that returned 0
  life,      \* of a descriptor or disk: "new", "open", "unmapped", "gone"
  refs,      \* holders of a reference to the backend
  armed,     \* the delayed work is queued again after each run
  closed,    \* cyanfs_super_close has run
  flushes, asks, fails

journal == <<appended, taken, written, durable, flag, asks, error>>
exec == <<queue, active, done, work, pending, waiters, took, barrier>>
call == <<op, pc, comp, cover, goal, promised>>
owner == <<life, refs, armed, closed, flushes>>
vars == <<inst, journal, exec, call, owner, fails>>

Handles == Ctl \cup Vdisk
Actors == Handles \cup {"ioctl", "timer"}

(***************************************************************************)
(* Tasks.  A writer task holds the last entry of the record being written  *)
(* (to) and the last entry of its flusher (upto).                          *)
(***************************************************************************)
NoTask == [type |-> "none"]

Writer(type, to, upto, fb) ==
  [type |-> type, to |-> to, upto |-> upto, fb |-> fb]

Nop(type) == [type |-> type]

RequeueTask(a) == [type |-> "requeue", who |-> a]

Tasks ==
  [type : {"encode", "write", "nop"}, to : 0..MaxAppends,
   upto : 0..MaxAppends, fb : BOOLEAN]
  \cup [type : {"before", "before_flush", "after", "after_flush", "free"}]
  \cup [type : {"requeue"}, who : Handles]

(***************************************************************************)
(* Control of an actor.                                                    *)
(***************************************************************************)
Goto(a, p) ==
  /\ pc' = [pc EXCEPT ![a] = p]
  /\ UNCHANGED <<op, goal, promised>>

Return(a, ok) ==
  /\ op' = [op EXCEPT ![a] = "idle"]
  /\ pc' = [pc EXCEPT ![a] = "idle"]
  /\ goal' = [goal EXCEPT ![a] = 0]
  /\ promised' = IF ok /\ promised < goal[a] THEN goal[a] ELSE promised

Begin(a, o, p, n) ==
  /\ op[a] = "idle"
  /\ op' = [op EXCEPT ![a] = o]
  /\ pc' = [pc EXCEPT ![a] = p]
  /\ goal' = [goal EXCEPT ![a] = n]
  /\ UNCHANGED promised

\* Where the caller of flusher_start goes on when it returns 0, and when it
\* does not: release and close ignore the error.
AfterFlusher(a) ==
  CASE op[a] \in {"fsync", "flush_bio", "release"} -> Goto(a, "map")
    [] op[a] = "sync" -> Goto(a, "waiter")
    [] op[a] = "close" -> Goto(a, "queue")
    [] OTHER -> Return(a, TRUE)

Fail(a) ==
  IF op[a] \in {"release", "close"}
  THEN /\ pc' = [pc EXCEPT ![a] = IF op[a] = "close" THEN "queue" ELSE "put"]
       /\ goal' = [goal EXCEPT ![a] = 0]
       /\ UNCHANGED <<op, promised>>
  ELSE Return(a, FALSE)

\* A flusher that leaves work behind sets the FLUSH flag.
AskFlush ==
  \/ UNCHANGED <<flag, asks>>
  \/ asks < inst.asks /\ asks' = asks + 1 /\ flag' = TRUE

Failure == fails < inst.fails /\ fails' = fails + 1

(***************************************************************************)
(* cyanfs_super_flusher_start: a look under the read lock, an allocation,  *)
(* and the tasks under the write lock.                                     *)
(***************************************************************************)
FlusherCheck(a) ==
  LET disk == op[a] \in {"sync", "close"} \/ flag
      min_journal_count == IF op[a] = "append" THEN inst.inflight ELSE 0
      nothing == appended - taken <= min_journal_count /\ ~disk
  IN /\ pc[a] = "check"
     /\ \/ error /\ Fail(a) /\ UNCHANGED fails
        \/ ~error /\ nothing /\ AfterFlusher(a) /\ UNCHANGED fails
        \/ /\ ~error /\ ~nothing
           /\ Goto(a, IF disk THEN "take_ondisk" ELSE "take")
           /\ UNCHANGED fails
        \/ ~error /\ ~nothing /\ Failure /\ Fail(a)
     /\ UNCHANGED <<journal, exec, owner, comp, cover>>

FlusherTake(a) ==
  LET ondisk == pc[a] = "take_ondisk"
      no_journal == taken = appended
      writer == IF no_journal THEN << >>
                ELSE <<Writer("encode", taken, appended, FALSE)>>
      after == IF ondisk THEN <<Nop("after")>> ELSE << >>
      free == IF no_journal /\ ~ondisk THEN << >> ELSE <<Nop("free")>>
      tasks == writer \o after \o free
  IN /\ pc[a] \in {"take", "take_ondisk"}
     /\ queue' = queue \o tasks
     /\ taken' = appended
     /\ flag' = (flag /\ ~ondisk)
     /\ IF queue = << >> /\ tasks # << >> THEN Goto(a, "wake") ELSE AfterFlusher(a)
     /\ UNCHANGED <<appended, written, durable, asks, error, active, done, work,
                    pending, waiters, took, barrier, comp, cover, owner, fails>>

\* Leaves the executor asleep.
NewTaskNoWork(a) ==
  /\ pc[a] \in {"wake", "requeue_wake"}
  /\ IF pc[a] = "wake" THEN AfterFlusher(a) ELSE Goto(a, "wait")
  /\ UNCHANGED <<journal, exec, comp, cover, owner, fails>>

\* cyanfs_super_new_task: the callback queues the work item.
NewTask(a) ==
  /\ pc[a] \in {"wake", "requeue_wake"}
  /\ pending' = TRUE
  /\ IF pc[a] = "wake" THEN AfterFlusher(a) ELSE Goto(a, "wait")
  /\ UNCHANGED <<journal, queue, active, done, work, waiters, took, barrier,
                 comp, cover, owner, fails>>

(***************************************************************************)
(* cyanfs_flush and cyanfs_requeue, as cyanfs_ctl_flush and                *)
(* cyanfs_file_submit_bio call them.                                       *)
(***************************************************************************)
\* Does not look at the tasks under way.
FlushMapAtOnce(a) ==
  /\ pc[a] = "map"
  /\ Goto(a, "submit")
  /\ UNCHANGED <<journal, exec, comp, cover, owner, fails>>

FlushMap(a) ==
  /\ pc[a] = "map"
  /\ Goto(a, IF queue = << >> /\ active = NoTask THEN "submit" ELSE "requeue")
  /\ UNCHANGED <<journal, exec, comp, cover, owner, fails>>

Requeue(a) ==
  /\ pc[a] = "requeue"
  /\ \/ /\ queue' = Append(queue, RequeueTask(a))
        /\ Goto(a, IF queue = << >> THEN "requeue_wake" ELSE "wait")
        /\ UNCHANGED fails
     \/ Failure /\ Fail(a) /\ UNCHANGED queue
  /\ UNCHANGED <<journal, active, done, work, pending, waiters, took, barrier,
                 comp, cover, owner>>

\* Sends the flush to the device: cyanfs_file_map_bio looks at the status
\* first, cyanfs_ctl_flush does not.
SendFlush(a) ==
  IF op[a] = "flush_bio" /\ error
  THEN comp' = [comp EXCEPT ![a] = "err"] /\ UNCHANGED cover
  ELSE /\ comp' = [comp EXCEPT ![a] = "flushing"]
       /\ cover' = [cover EXCEPT ![a] = written]

Submit(a) ==
  /\ \/ pc[a] = "submit"
     \/ pc[a] = "wait" /\ comp[a] = "fired"
  /\ SendFlush(a)
  /\ Goto(a, "wait")
  /\ UNCHANGED <<journal, exec, owner, fails>>

DeviceFlushed(a) ==
  /\ comp[a] = "flushing"
  /\ \/ /\ comp' = [comp EXCEPT ![a] = "ok"]
        /\ durable' = IF durable < cover[a] THEN cover[a] ELSE durable
        /\ UNCHANGED fails
     \/ /\ Failure
        /\ comp' = [comp EXCEPT ![a] = "err"]
        /\ UNCHANGED durable
  /\ cover' = [cover EXCEPT ![a] = 0]
  /\ UNCHANGED <<appended, taken, written, flag, asks, error, exec, op, pc, goal,
                 promised, owner>>

\* The release of a descriptor goes on, whatever the flush returned.
FlushEnds(a, ok) ==
  IF op[a] = "release" THEN Goto(a, "put") ELSE Return(a, ok)

\* cyanfs_ctl_flush ends with a look at the status; a flush bio just ends.
FlushReturns(a) ==
  /\ pc[a] = "wait" /\ comp[a] \in {"ok", "err"}
  /\ FlushEnds(a, comp[a] = "ok" /\ (op[a] = "flush_bio" \/ ~error))
  /\ comp' = [comp EXCEPT ![a] = "none"]
  /\ UNCHANGED <<journal, exec, cover, owner, fails>>

(***************************************************************************)
(* cyanfs_backend_sync: after the flusher, cyanfs_backend_wait_tasks adds  *)
(* a waiter, queues the work item and waits.                               *)
(***************************************************************************)
AddWaiter(a) ==
  /\ pc[a] = "waiter"
  /\ waiters' = waiters \cup {a}
  /\ Goto(a, "queue")
  /\ UNCHANGED <<journal, queue, active, done, work, pending, took, barrier,
                 comp, cover, owner, fails>>

\* queue_work, in wait_tasks and in cyanfs_backend_close, which goes on to
\* flush_work: that waits for the instance now queued.
QueueWork(a) ==
  /\ pc[a] = "queue"
  /\ pending' = TRUE
  /\ barrier' = IF op[a] = "close" THEN "pending" ELSE barrier
  /\ Goto(a, IF op[a] = "close" THEN "flush_work" ELSE "served")
  /\ UNCHANGED <<journal, queue, active, done, work, waiters, took, comp,
                 cover, owner, fails>>

SyncReturns(a) ==
  /\ pc[a] = "served" /\ a \notin waiters \cup took
  /\ Return(a, ~error)
  /\ UNCHANGED <<journal, exec, comp, cover, owner, fails>>

(***************************************************************************)
(* cyanfs_backend_work and cyanfs_backend_loop.                            *)
(***************************************************************************)
WorkStart ==
  /\ pending /\ work = "idle"
  /\ pending' = FALSE
  /\ work' = "loop"
  /\ took' = waiters /\ waiters' = {}
  /\ barrier' = IF barrier = "pending" THEN "running" ELSE barrier
  /\ UNCHANGED <<journal, queue, active, done, call, owner, fails>>

GetTask ==
  /\ work = "loop" /\ active = NoTask /\ queue # << >>
  /\ active' = Head(queue) /\ queue' = Tail(queue) /\ done' = FALSE
  /\ UNCHANGED <<journal, work, pending, waiters, took, barrier, call, owner, fails>>

TaskDone ==
  /\ active # NoTask /\ done
  /\ active' = NoTask /\ done' = FALSE
  /\ UNCHANGED <<journal, queue, work, pending, waiters, took, barrier, call,
                 owner, fails>>

LoopEnd ==
  /\ work = "loop" /\ active = NoTask /\ queue = << >>
  /\ work' = "complete"
  /\ UNCHANGED <<journal, queue, active, done, pending, waiters, took, barrier,
                 call, owner, fails>>

WorkEnd ==
  /\ work = "complete"
  /\ work' = "idle"
  /\ took' = {}
  /\ barrier' = IF barrier = "running" THEN "done" ELSE barrier
  /\ UNCHANGED <<journal, queue, active, done, pending, waiters, call, owner, fails>>

(***************************************************************************)
(* The handlers of the tasks.                                              *)
(***************************************************************************)
Running(types) == active # NoTask /\ ~done /\ active.type \in types

\* cyanfs_journal_writer_encode, and the write of a record before it.  An
\* error drops the entries of the flusher and stops the super.
Encode ==
  LET t == active
      at == IF t.type = "write" THEN t.to ELSE written
  IN \/ \* the write fails, or no extent is left for the journal
        /\ Failure /\ error' = TRUE
        /\ UNCHANGED <<written, queue, flag, asks>>
     \/ /\ error
        /\ written' = at
        /\ UNCHANGED <<error, queue, flag, asks, fails>>
     \/ \* write_finish
        /\ ~error /\ at = t.upto
        /\ written' = at
        /\ AskFlush
        /\ UNCHANGED <<error, queue, fails>>
     \/ /\ ~error /\ at < t.upto
        /\ written' = at
        /\ \E to \in at + 1 .. t.upto, flush \in BOOLEAN :
             LET before == IF flush /\ ~t.fb THEN <<Nop("before")>> ELSE << >>
             IN queue' = before \o <<Writer("write", to, t.upto, t.fb \/ flush)>>
                                \o queue
        /\ UNCHANGED <<error, flag, asks, fails>>

RunWriter ==
  /\ Running({"encode", "write", "nop"})
  /\ Encode
  /\ done' = TRUE
  /\ UNCHANGED <<appended, taken, durable, active, work, pending, waiters, took,
                 barrier, call, owner>>

\* The record behind a failed flush is not written.
SkipWriter ==
  queue' = <<Writer("nop", Head(queue).to, Head(queue).upto, Head(queue).fb)>>
           \o Tail(queue)

RunBefore ==
  /\ Running({"before"})
  /\ IF error THEN SkipWriter
              ELSE queue' = <<Nop("before_flush")>> \o queue
  /\ done' = TRUE
  /\ UNCHANGED <<journal, active, work, pending, waiters, took, barrier, call,
                 owner, fails>>

RunAfter ==
  /\ Running({"after"})
  /\ queue' = IF error THEN queue ELSE <<Nop("after_flush")>> \o queue
  /\ done' = TRUE
  /\ UNCHANGED <<journal, active, work, pending, waiters, took, barrier, call,
                 owner, fails>>

RunFlush ==
  /\ Running({"before_flush", "after_flush"})
  /\ \/ /\ durable' = written
        /\ IF active.type = "after_flush" THEN AskFlush ELSE UNCHANGED <<flag, asks>>
        /\ UNCHANGED <<error, queue, fails>>
     \/ /\ Failure /\ error' = TRUE
        /\ IF active.type = "before_flush" THEN SkipWriter ELSE UNCHANGED queue
        /\ UNCHANGED <<durable, flag, asks>>
  /\ done' = TRUE
  /\ UNCHANGED <<appended, taken, written, active, work, pending, waiters, took,
                 barrier, call, owner>>

\* Extents the flusher could not move are left to another: the flag is set.
RunFree ==
  /\ Running({"free"})
  /\ AskFlush
  /\ done' = TRUE
  /\ UNCHANGED <<appended, taken, written, durable, error, queue, active, work,
                 pending, waiters, took, barrier, call, owner, fails>>

\* The callback of a requeue: complete() for cyanfs_ctl_flush,
\* cyanfs_file_map_bio for a flush bio.
RunRequeue ==
  /\ Running({"requeue"})
  /\ LET a == active.who
     IN IF op[a] = "flush_bio" THEN SendFlush(a)
        ELSE comp' = [comp EXCEPT ![a] = "fired"] /\ UNCHANGED cover
  /\ done' = TRUE
  /\ UNCHANGED <<journal, queue, active, work, pending, waiters, took, barrier,
                 op, pc, goal, promised, owner, fails>>

(***************************************************************************)
(* The calls.  An ioctl holds cyanfs_ctl_lock from start to end, so the    *)
(* ioctl actor must be idle for one to begin.                              *)
(***************************************************************************)
Locked == op["ioctl"] # "idle"

Mounted == "tree" \in refs

\* A file operation: the entry is in journal_head when it returns, and
\* cyanfs_super_flush_new_journal has looked at the length of the journal.
AppendEntry(a) ==
  /\ appended < inst.appends /\ ~error
  /\ \/ a \in Handles /\ life[a] \in {"open", "unmapped"}
     \/ a = "ioctl" /\ Mounted
  /\ Begin(a, "append", "check", 0)
  /\ appended' = appended + 1
  /\ UNCHANGED <<taken, written, durable, flag, asks, error, exec, comp, cover, owner,
                 fails>>

Flush(a) ==
  /\ flushes < inst.flushes /\ flushes' = flushes + 1
  /\ \/ a \in Ctl /\ life[a] = "open" /\ Begin(a, "fsync", "check", appended)
     \/ /\ a \in Vdisk /\ life[a] \in {"open", "unmapped"}
        /\ Begin(a, "flush_bio", "check", appended)
     \/ a = "ioctl" /\ Mounted /\ Begin(a, "sync", "check", appended)
  /\ UNCHANGED <<journal, exec, comp, cover, life, refs, armed, closed, fails>>

\* It does not queue itself again.
PeriodicFlushOnce ==
  /\ armed /\ armed' = FALSE
  /\ Begin("timer", "periodic", "check", 0)
  /\ UNCHANGED <<journal, exec, comp, cover, life, refs, closed, flushes, fails>>

\* cyanfs_backend_flush_work, every CYANFS_FLUSH_INTERVAL.
PeriodicFlush ==
  /\ armed
  /\ Begin("timer", "periodic", "check", 0)
  /\ UNCHANGED <<journal, exec, comp, cover, owner, fails>>

\* cyanfs_ctl_file_bind, cyanfs_ctl_device_map.
Open(a) ==
  /\ ~Locked /\ Mounted /\ ~error
  /\ a \in inst.handles /\ life[a] = "new"
  /\ life' = [life EXCEPT ![a] = "open"]
  /\ refs' = refs \cup {a}
  /\ UNCHANGED <<journal, exec, call, armed, closed, flushes, fails>>

\* cyanfs_ctl_device_unmap: the disk leaves the tree; whoever has it open
\* goes on.
Unmap(v) ==
  /\ ~Locked
  /\ v \in Vdisk /\ life[v] = "open"
  /\ life' = [life EXCEPT ![v] = "unmapped"]
  /\ UNCHANGED <<journal, exec, call, refs, armed, closed, flushes, fails>>

\* The last reference closes the backend, in the thread that drops it.
Put(a, holder) ==
  /\ refs' = refs \ {holder}
  /\ IF refs' = {}
     THEN /\ op' = [op EXCEPT ![a] = "close"]
          /\ pc' = [pc EXCEPT ![a] = "cancel"]
          /\ goal' = [goal EXCEPT ![a] = appended]
          /\ UNCHANGED promised
     ELSE Return(a, FALSE)

\* cyanfs_ctl_release: flush the file, close it, drop the reference.
Release(c) ==
  /\ c \in Ctl /\ life[c] = "open"
  /\ Begin(c, "release", "check", appended)
  /\ UNCHANGED <<journal, exec, comp, cover, owner, fails>>

ReleasePut(c) ==
  /\ pc[c] = "put"
  /\ life' = [life EXCEPT ![c] = "gone"]
  /\ Put(c, c)
  /\ UNCHANGED <<journal, exec, comp, cover, armed, closed, flushes, fails>>

\* cyanfs_block_device_free_work: the last opener is gone and with it the
\* last bio.
FreeWork(v) ==
  /\ v \in Vdisk /\ life[v] = "unmapped" /\ op[v] = "idle"
  /\ life' = [life EXCEPT ![v] = "gone"]
  /\ Put(v, v)
  /\ UNCHANGED <<journal, exec, comp, cover, armed, closed, flushes, fails>>

\* cyanfs_ctl_backend_umount: busy while a disk of the backend is in the tree.
Umount ==
  /\ ~Locked /\ Mounted
  /\ \A v \in Vdisk : life[v] # "open"
  /\ Put("ioctl", "tree")
  /\ UNCHANGED <<journal, exec, comp, cover, life, armed, closed, flushes, fails>>

(***************************************************************************)
(* cyanfs_backend_close: cancel the periodic flush and wait for it, flush  *)
(* to disk, run the executor once more, close the super.                   *)
(***************************************************************************)
CancelFlushWork(a) ==
  /\ \/ /\ pc[a] = "cancel"
        /\ armed' = FALSE
        /\ Goto(a, "cancelled")
     \/ /\ pc[a] = "cancelled" /\ op["timer"] = "idle"
        /\ UNCHANGED armed
        /\ Goto(a, "check")
  /\ UNCHANGED <<journal, exec, comp, cover, life, refs, closed, flushes, fails>>

\* No flush_work.
WaitWorkNot(a) ==
  /\ pc[a] = "flush_work"
  /\ Goto(a, "super_close")
  /\ UNCHANGED <<journal, exec, comp, cover, owner, fails>>

WaitWork(a) ==
  /\ pc[a] = "flush_work" /\ barrier = "done"
  /\ Goto(a, "super_close")
  /\ UNCHANGED <<journal, exec, comp, cover, owner, fails>>

SuperClose(a) ==
  /\ pc[a] = "super_close"
  /\ closed' = TRUE
  /\ Return(a, ~error)
  /\ UNCHANGED <<journal, exec, comp, cover, life, refs, armed, flushes, fails>>

(***************************************************************************)
(* The specification.  A backend starts as cyanfs_backend_open leaves it:  *)
(* loaded, with an empty queue and the periodic flush armed.               *)
(***************************************************************************)
Init ==
  /\ inst \in Instances
  /\ appended = 0 /\ taken = 0 /\ written = 0 /\ durable = 0
  /\ flag = FALSE /\ error = FALSE
  /\ queue = << >> /\ active = NoTask /\ done = FALSE
  /\ work = "idle" /\ pending = FALSE /\ waiters = {} /\ took = {}
  /\ barrier = "none"
  /\ op = [a \in Actors |-> "idle"] /\ pc = [a \in Actors |-> "idle"]
  /\ comp = [a \in Actors |-> "none"] /\ cover = [a \in Actors |-> 0]
  /\ goal = [a \in Actors |-> 0] /\ promised = 0
  /\ life = [a \in Handles |-> "new"] /\ refs = {"tree"}
  /\ armed = inst.periodic /\ closed = FALSE
  /\ flushes = 0 /\ asks = 0 /\ fails = 0

\* A call under way goes on.
Step(a) ==
  \/ FlusherCheck(a) \/ FlusherTake(a) \/ NewTask(a)
  \/ FlushMap(a) \/ Requeue(a) \/ Submit(a) \/ DeviceFlushed(a) \/ FlushReturns(a)
  \/ AddWaiter(a) \/ QueueWork(a) \/ SyncReturns(a)
  \/ ReleasePut(a) \/ CancelFlushWork(a) \/ WaitWork(a) \/ SuperClose(a)

Execute ==
  \/ WorkStart \/ GetTask \/ TaskDone \/ LoopEnd \/ WorkEnd
  \/ RunWriter \/ RunBefore \/ RunAfter \/ RunFlush \/ RunFree \/ RunRequeue

Next ==
  /\ UNCHANGED inst
  /\ \/ \E a \in Actors : Step(a) \/ AppendEntry(a) \/ Flush(a)
     \/ \E a \in Handles : Open(a)
     \/ \E v \in Vdisk : Unmap(v) \/ FreeWork(v)
     \/ \E c \in Ctl : Release(c)
     \/ PeriodicFlush \/ Umount
     \/ Execute

Spec == Init /\ [][Next]_vars

\* The kernel runs a queued work item and every thread that can go on, the
\* device answers, and the timer fires.
Fairness ==
  /\ \A a \in Actors : WF_vars(UNCHANGED inst /\ Step(a))
  /\ WF_vars(UNCHANGED inst /\ Execute)
  /\ WF_vars(UNCHANGED inst /\ PeriodicFlush)

FairSpec == Spec /\ Fairness

-----------------------------------------------------------------------------

\* An fsync, a flush bio, a sync ioctl or the close of the backend that
\* succeeds leaves every journal entry appended before the call durable on
\* the device, whichever other thread had its flusher take the entry and
\* wherever that flusher then was (cyanfs_flush, cyanfs_ctl_flush,
\* cyanfs_file_submit_bio, cyanfs_backend_sync, cyanfs_backend_close).
FlushedIsDurable ==
  durable >= promised

\* cyanfs_super_close finds what its BUG_ONs and the contract in core.h ask
\* for: no task queued or active, no work item queued or running, every file
\* closed, no other thread inside a call on this super, no periodic flush to
\* come.  It stays so ever after.
ClosedQuiet ==
  \A a \in Actors :
    closed \/ pc[a] = "super_close" =>
      /\ queue = << >> /\ active = NoTask
      /\ work = "idle" /\ ~pending /\ ~armed
      /\ \A h \in Handles : life[h] \in {"new", "gone"}
      /\ \A b \in Actors \ {a} : op[b] = "idle" \/ pc[b] = "super_close"

\* Every call returns: fsync, flush bio, sync, umount, release and close wait
\* for the executor, never for each other.
EveryCallReturns ==
  \A a \in Actors : (op[a] # "idle") ~> (op[a] = "idle")

\* Where the periodic flush runs, an appended entry is written to the device
\* without anyone asking for it, by that flush or the close at the latest,
\* even if the flusher of an append or of one tick of the timer could not be
\* allocated; unless the super stops on an error, or it is the flusher of the
\* close that could not, whose result cyanfs_backend_close ignores.
EntriesWritten ==
  \A n \in 1..MaxAppends :
    (inst.periodic /\ appended >= n) ~> (written >= n \/ error \/ (closed /\ fails > 0))

=============================================================================
