----------------------------- MODULE CyanfsEdit -----------------------------
(***************************************************************************)
(* The offline editor (utils/edit.c): a command thread that runs the       *)
(* commands of the command line or of a batch, and an executor thread      *)
(* (thread_handler) that sleeps on disk->cond and runs the core's tasks.   *)
(* openfs and closefs run the same loop (do_loop) in the command thread,   *)
(* before the executor exists and after it was joined.                     *)
(*                                                                         *)
(* Journal entries are counted: appended in memory, taken by a flusher,    *)
(* written to the device's cache, durable.  Page-cache data written by the *)
(* commands themselves is one flag.  Entries, tasks and mappings in detail *)
(* are the business of CyanfsExtents and CyanfsJournal.                    *)
(***************************************************************************)
EXTENDS Naturals, Sequences

CONSTANTS
  MaxCommands,   \* bound on the commands of a batch
  Inflight       \* CYANFS_SUPER_MAX_INFLIGHT_JOURNAL

ASSUME EditAssumption == MaxCommands \in Nat /\ Inflight \in Nat

VARIABLES
  pc,         \* where the command thread is
  ret,        \* where it continues after do_new_task
  op,         \* the command it runs, "exit" once the input has ended
  commands,   \* commands started
  r,          \* the result so far: "ok" or "err"
  super,      \* disk->super # NULL
  callback,   \* the new-task callback is registered
  thr,        \* the executor thread
  new_task,   \* disk->new_task
  terminated, \* disk->terminated
  queue,      \* super->task_head
  running,    \* the task each thread has taken and not yet completed
  done,       \* requeue_ctx.done
  broken,     \* extent.error of the extent being copied
  compacting, \* CYANFS_SUPER_FLAG_COMPACT_WORKING
  error,      \* CYANFS_SUPER_FLAG_ERROR
  appended, taken, written, durable,  \* journal entries
  dirty       \* data written and not yet covered by an fsync

main == <<pc, ret, op, commands, r>>
thread == <<callback, thr, new_task, terminated>>
tasks == <<queue, running>>
ctx == <<done, broken>>
journal == <<appended, taken, written, durable>>
vars == <<main, super, thread, tasks, ctx, compacting, error, journal, dirty>>

Thread == {"main", "thread"}
Command == {"metadata", "write", "cow", "compact", "mkfs", "mount", "umount"}
Task == [type : {"journal", "flush", "copy", "requeue", "compact", "none"}, upto : Nat]
T(type) == [type |-> type, upto |-> 0]
NoTask == T("none")

Init ==
  /\ pc = "next" /\ ret = "next" /\ op = "mount" /\ commands = 0 /\ r = "ok"
  /\ super = FALSE /\ callback = FALSE
  /\ thr = "none" /\ new_task = FALSE /\ terminated = FALSE
  /\ queue = <<>> /\ running = [t \in Thread |-> NoTask]
  /\ done = FALSE /\ broken = FALSE /\ compacting = FALSE /\ error = FALSE
  /\ appended = 0 /\ taken = 0 /\ written = 0 /\ durable = 0 /\ dirty = FALSE

-----------------------------------------------------------------------------
(* Control of the command thread. *)

Goto(label) == pc' = label /\ UNCHANGED <<ret, op, commands, r>>
Fail(label) == pc' = label /\ r' = "err" /\ UNCHANGED <<ret, op, commands>>

\* cyanfs_super_task_add_tail by the command thread: the caller of the core
\* has to call the callback when the queue was empty, and does so after the
\* lock of the core is dropped.
Queued(ts, label) ==
  /\ queue' = queue \o ts
  /\ IF queue = <<>> /\ ts # <<>> /\ callback
       THEN pc' = "signal" /\ ret' = label
       ELSE pc' = label /\ UNCHANGED ret
  /\ UNCHANGED <<op, commands, r, running>>

\* do_new_task: set the flag and wake the executor if it sleeps.
Notify ==
  /\ new_task' = TRUE
  /\ thr' = IF thr = "sleep" THEN "loop" ELSE thr
  /\ UNCHANGED <<callback, terminated>>

NewTask ==
  /\ pc = "signal"
  /\ Notify
  /\ Goto(ret)
  /\ UNCHANGED <<super, tasks, ctx, compacting, error, journal, dirty>>

\* cyanfs_super_flusher_start: the tasks for min and ondisk, none when there
\* is too little to do.  CYANFS_SUPER_FLAG_FLUSH may turn any flush into one
\* to the disk.
FlusherTasks(min, ondisk) ==
  IF appended - taken <= min /\ ~ondisk
    THEN <<>>
    ELSE (IF appended = taken THEN <<>> ELSE <<[type |-> "journal", upto |-> appended]>>)
         \o (IF ondisk THEN <<T("flush")>> ELSE <<>>)

\* The entries it takes from the list: up to which one.
FlusherTakes(min, ondisk) ==
  IF appended - taken <= min /\ ~ondisk THEN taken ELSE appended

-----------------------------------------------------------------------------
(* call_fn and the commands. *)

\* do_batch, call_fn: the next command; it mounts unless the table says not to.
NextCommand(c) ==
  /\ pc = "next" /\ r = "ok" /\ op # "exit" /\ commands < MaxCommands
  /\ op' = c
  /\ commands' = commands + 1
  /\ pc' = CASE c = "umount" -> IF super THEN "terminate" ELSE "next"
             [] c # "umount" -> IF super \/ c = "mkfs" THEN "run" ELSE "open"
  /\ UNCHANGED <<ret, r, super, thread, tasks, ctx, compacting, error, journal, dirty>>

\* The end of the input or of the first command that failed: main closes.
EndOfInput ==
  /\ pc = "next" /\ op # "exit"
  /\ op' = "exit"
  /\ pc' = IF super THEN "terminate" ELSE "sync"
  /\ UNCHANGED <<ret, commands, r, super, thread, tasks, ctx, compacting, error, journal, dirty>>

\* openfs up to cyanfs_super_is_ready: the command thread runs the tasks that
\* load the file system and nobody else can see them.
OpenSuper ==
  /\ pc = "open"
  /\ \/ /\ super' = TRUE /\ new_task' = FALSE /\ terminated' = FALSE
        /\ Goto("spawn")
     \/ /\ Fail("next")
        /\ UNCHANGED <<super, new_task, terminated>>
  /\ UNCHANGED <<callback, thr, tasks, ctx, compacting, error, journal, dirty>>

\* openfs: pthread_create.
Spawn ==
  /\ pc = "spawn"
  /\ \/ thr' = "loop" /\ Goto("callback") /\ UNCHANGED super
     \/ super' = FALSE /\ Fail("next") /\ UNCHANGED thr
  /\ UNCHANGED <<callback, new_task, terminated, tasks, ctx, compacting, error, journal, dirty>>

\* openfs: the callback is registered while the executor may already run.
SetCallback ==
  /\ pc = "callback"
  /\ callback' = TRUE
  /\ Goto("run")
  /\ UNCHANGED <<super, thr, new_task, terminated, tasks, ctx, compacting, error, journal, dirty>>

\* mkfs writes the super block; mount has nothing left to do.
RunPlain ==
  /\ pc = "run"
  /\ \/ op = "mount" /\ Goto("next") /\ UNCHANGED dirty
     \/ op = "mkfs" /\ dirty' = TRUE /\ Goto("next")
     \/ op = "mkfs" /\ Fail("next") /\ UNCHANGED dirty
  /\ UNCHANGED <<super, thread, tasks, ctx, compacting, error, journal>>

\* create, fork, rename, truncate, delete and discard append an entry, or
\* are refused; a file system in error refuses everything.
RunMetadata ==
  /\ pc = "run" /\ op = "metadata"
  /\ \/ ~error /\ appended' = appended + 1 /\ Goto("journal")
     \/ Fail("next") /\ UNCHANGED appended
  /\ UNCHANGED <<super, thread, tasks, ctx, compacting, error, taken, written, durable, dirty>>

\* cyanfs_write on an extent nobody shares: a fresh one appends an entry,
\* then the data goes straight to the device.  A failed data write leaves
\* the entry behind, and the flush that follows it happens all the same.
RunWrite ==
  /\ pc = "run" /\ op = "write"
  /\ \/ /\ ~error
        /\ \E fresh \in BOOLEAN, ok \in BOOLEAN :
             /\ appended' = IF fresh THEN appended + 1 ELSE appended
             /\ dirty' = (ok \/ dirty)
             /\ LET label == IF fresh THEN "journal" ELSE "next"
                IN  IF ok THEN Goto(label) ELSE Fail(label)
     \/ Fail("next") /\ UNCHANGED <<appended, dirty>>
  /\ UNCHANGED <<super, thread, tasks, ctx, compacting, error, taken, written, durable>>

\* cyanfs_super_flush_new_journal; its result is ignored.
FlushNewJournal ==
  /\ pc = "journal"
  /\ \/ /\ ~error
        /\ \E ondisk \in BOOLEAN :
             /\ Queued(FlusherTasks(Inflight, ondisk), "next")
             /\ taken' = FlusherTakes(Inflight, ondisk)
     \/ Goto("next") /\ UNCHANGED <<tasks, taken>>
  /\ UNCHANGED <<super, thread, ctx, compacting, error, appended, written, durable, dirty>>

\* cyanfs_write on an extent shared with the parent: the extent is pending
\* and its copy is queued.
RunCow ==
  /\ pc = "run" /\ op = "cow"
  /\ \/ ~error /\ broken' = FALSE /\ Queued(<<T("copy")>>, "requeue")
     \/ Fail("next") /\ UNCHANGED <<tasks, broken>>
  /\ UNCHANGED <<super, thread, done, compacting, error, journal, dirty>>

\* The queue was empty and nobody is told.
RequeueSilent ==
  /\ pc = "requeue"
  /\ done' = FALSE
  /\ queue' = Append(queue, T("requeue"))
  /\ Goto("wait")
  /\ UNCHANGED <<super, thread, running, broken, compacting, error, journal, dirty>>

\* wait_requeue, cyanfs_requeue: behind the copy, a task that calls back into
\* this stack frame; the caller is still counted as a writer.
Requeue ==
  /\ pc = "requeue"
  /\ \/ done' = FALSE /\ Queued(<<T("requeue")>>, "wait")
     \/ Fail("next") /\ UNCHANGED <<tasks, done>>
  /\ UNCHANGED <<super, thread, broken, compacting, error, journal, dirty>>

\* Believes any wakeup.
WaitRequeueOnce ==
  /\ pc = "wait"
  /\ Goto("again")
  /\ UNCHANGED <<super, thread, tasks, ctx, compacting, error, journal, dirty>>

\* wait_requeue: pthread_cond_wait in a loop on done.
WaitRequeue ==
  /\ pc = "wait" /\ done
  /\ Goto("again")
  /\ UNCHANGED <<super, thread, tasks, ctx, compacting, error, journal, dirty>>

\* do_io again: the extent now has a block of its own, or its copy failed.
WriteAgain ==
  /\ pc = "again"
  /\ \/ ~error /\ ~broken /\ dirty' = TRUE /\ Goto("next")
     \/ Fail("next") /\ UNCHANGED dirty
  /\ UNCHANGED <<super, thread, tasks, ctx, compacting, error, journal>>

\* cyanfs_super_compact: refused while one runs.
RunCompact ==
  /\ pc = "run" /\ op = "compact"
  /\ \/ ~error /\ ~compacting /\ compacting' = TRUE /\ Queued(<<T("compact")>>, "next")
     \/ Fail("next") /\ UNCHANGED <<tasks, compacting>>
  /\ UNCHANGED <<super, thread, ctx, error, journal, dirty>>

-----------------------------------------------------------------------------
(* closefs. *)

\* The flag, then the signal, under disk->lock.
Terminate ==
  /\ pc = "terminate"
  /\ terminated' = TRUE
  /\ thr' = IF thr = "sleep" THEN "loop" ELSE thr
  /\ Goto("join")
  /\ UNCHANGED <<super, callback, new_task, tasks, ctx, compacting, error, journal, dirty>>

\* Does not wait for the executor.
JoinNot ==
  /\ pc = "join"
  /\ callback' = FALSE
  /\ Goto("flush")
  /\ UNCHANGED <<super, thr, new_task, terminated, tasks, ctx, compacting, error, journal, dirty>>

\* pthread_join, then the callback is taken away.
Join ==
  /\ pc = "join" /\ thr = "exit"
  /\ thr' = "none"
  /\ callback' = FALSE
  /\ Goto("flush")
  /\ UNCHANGED <<super, new_task, terminated, tasks, ctx, compacting, error, journal, dirty>>

\* cyanfs_super_flush(super, 1); a file system in error refuses, and so may
\* the allocation.
SuperFlush ==
  /\ pc = "flush"
  /\ \/ /\ ~error
        /\ Queued(FlusherTasks(0, TRUE), "drain")
        /\ taken' = FlusherTakes(0, TRUE)
     \/ Fail("drain") /\ UNCHANGED <<tasks, taken>>
  /\ UNCHANGED <<super, thread, ctx, compacting, error, appended, written, durable, dirty>>

\* do_loop of closefs ends when the queue is empty.
Drained ==
  /\ pc = "drain" /\ running["main"] = NoTask /\ queue = <<>>
  /\ Goto("status")
  /\ UNCHANGED <<super, thread, tasks, ctx, compacting, error, journal, dirty>>

\* Does not ask for the state of the file system.
CloseUnasked ==
  /\ pc = "status"
  /\ super' = FALSE /\ compacting' = FALSE /\ error' = FALSE
  /\ Goto(IF op = "exit" THEN "sync" ELSE "next")
  /\ UNCHANGED <<thread, tasks, ctx, journal, dirty>>

\* cyanfs_super_status, cyanfs_super_close.
Close ==
  /\ pc = "status"
  /\ super' = FALSE /\ compacting' = FALSE /\ error' = FALSE
  /\ LET label == IF op = "exit" THEN "sync" ELSE "next"
     IN  IF error THEN Fail(label) ELSE Goto(label)
  /\ UNCHANGED <<thread, tasks, ctx, journal, dirty>>

\* main: fsync and close of the device, and the exit status.
Sync ==
  /\ pc = "sync"
  /\ \/ dirty' = FALSE /\ durable' = written /\ Goto("exit")
     \/ Fail("exit") /\ UNCHANGED <<dirty, durable>>
  /\ UNCHANGED <<super, thread, tasks, ctx, compacting, error, appended, taken, written>>

-----------------------------------------------------------------------------
(* The executor: do_loop in thread t, and the life of the thread. *)

Looping(t) == IF t = "main" THEN pc = "drain" ELSE thr = "loop"

\* cyanfs_super_get_task.
GetTask(t) ==
  /\ Looping(t) /\ running[t] = NoTask /\ queue # <<>>
  /\ running' = [running EXCEPT ![t] = Head(queue)]
  /\ queue' = Tail(queue)
  /\ UNCHANGED <<main, super, thread, ctx, compacting, error, journal, dirty>>

Completes(t, type) ==
  /\ running[t].type = type
  /\ running' = [running EXCEPT ![t] = NoTask]

\* The journal writer.  What it writes in a file system in error counts for
\* nothing.
RunJournal(t) ==
  /\ Completes(t, "journal")
  /\ \/ ~error /\ written' = running[t].upto /\ UNCHANGED error
     \/ error' = TRUE /\ UNCHANGED written
  /\ UNCHANGED <<main, super, thread, queue, ctx, compacting, appended, taken, durable, dirty>>

\* fsync: everything the page cache holds becomes durable.  In error the
\* flusher asks for none.
RunFlush(t) ==
  /\ Completes(t, "flush")
  /\ \/ ~error /\ durable' = written /\ dirty' = FALSE /\ UNCHANGED error
     \/ error' = TRUE /\ UNCHANGED <<durable, dirty>>
  /\ UNCHANGED <<main, super, thread, queue, ctx, compacting, appended, taken, written>>

\* cyanfs_task_copy_on_write_done after a copy: the entry of the new block,
\* and a flusher when enough entries wait.  The executor notifies itself.
CopySucceeds(t) ==
  /\ Completes(t, "copy")
  /\ appended' = appended + 1
  /\ dirty' = TRUE
  /\ \/ UNCHANGED <<queue, taken, thread>>
     \/ \E ondisk \in BOOLEAN :
          LET more == appended + 1 - taken > Inflight \/ ondisk
              ts == <<[type |-> "journal", upto |-> appended + 1]>>
                    \o (IF ondisk THEN <<T("flush")>> ELSE <<>>)
          IN  /\ ~error /\ more
              /\ queue' = queue \o ts
              /\ taken' = appended + 1
              /\ IF queue = <<>> /\ callback THEN Notify ELSE UNCHANGED thread
  /\ UNCHANGED <<main, super, ctx, compacting, error, written, durable>>

\* ... after a copy that failed: the extent is broken, and nothing else is.
CopyFails(t) ==
  /\ Completes(t, "copy")
  /\ broken' = TRUE
  /\ UNCHANGED <<main, super, thread, queue, done, compacting, error, journal, dirty>>

\* requeue_done.
RequeueDone(t) ==
  /\ Completes(t, "requeue")
  /\ done' = TRUE
  /\ UNCHANGED <<main, super, thread, queue, broken, compacting, error, journal, dirty>>

\* The end of a compaction; one that fails may leave the file system in error.
RunCompaction(t) ==
  /\ Completes(t, "compact")
  /\ compacting' = FALSE
  /\ error' \in {error, TRUE}
  /\ UNCHANGED <<main, super, thread, queue, ctx, journal, dirty>>

RunTask(t) ==
  \/ GetTask(t) \/ RunJournal(t) \/ RunFlush(t) \/ CopySucceeds(t) \/ CopyFails(t)
  \/ RequeueDone(t) \/ RunCompaction(t)

\* do_loop saw an empty queue; the thread has yet to take disk->lock.
LoopEnds ==
  /\ thr = "loop" /\ running["thread"] = NoTask /\ queue = <<>>
  /\ thr' = "check"
  /\ UNCHANGED <<main, super, callback, new_task, terminated, tasks, ctx, compacting, error, journal, dirty>>

\* Sleeps without a look at the flag.
CheckBlind ==
  /\ thr = "check"
  /\ thr' = IF terminated THEN "exit" ELSE "sleep"
  /\ new_task' = FALSE
  /\ UNCHANGED <<main, super, callback, terminated, tasks, ctx, compacting, error, journal, dirty>>

\* thread_handler under disk->lock: leave, loop again, or sleep.
Check ==
  /\ thr = "check"
  /\ thr' = IF terminated THEN "exit" ELSE IF new_task THEN "loop" ELSE "sleep"
  /\ new_task' = (new_task /\ terminated)
  /\ UNCHANGED <<main, super, callback, terminated, tasks, ctx, compacting, error, journal, dirty>>

\* pthread_cond_wait may return without a signal.
SpuriousWakeup ==
  /\ thr = "sleep"
  /\ thr' = "loop"
  /\ UNCHANGED <<main, super, callback, new_task, terminated, tasks, ctx, compacting, error, journal, dirty>>

-----------------------------------------------------------------------------
MainStep ==
  \/ \E c \in Command : NextCommand(c)
  \/ EndOfInput \/ OpenSuper \/ Spawn \/ SetCallback \/ NewTask
  \/ RunPlain \/ RunMetadata \/ RunWrite \/ FlushNewJournal \/ RunCow \/ Requeue
  \/ WaitRequeue \/ WriteAgain \/ RunCompact
  \/ Terminate \/ Join \/ SuperFlush \/ RunTask("main") \/ Drained \/ Close \/ Sync

ThreadStep == RunTask("thread") \/ LoopEnds \/ Check

\* The program has ended.
Ended == pc = "exit" /\ UNCHANGED vars

Next == MainStep \/ ThreadStep \/ SpuriousWakeup \/ Ended

Spec == Init /\ [][Next]_vars

\* Both threads are scheduled by the operating system; nothing promises a
\* spurious wakeup.
FairSpec == Spec /\ WF_vars(MainStep) /\ WF_vars(ThreadStep)

-----------------------------------------------------------------------------
\* Tasks are run one at a time, by the executor or by closefs and never by
\* both; and once the file system is closed no task of it is left, waiting or
\* running, and no thread that could touch it (closefs, openfs).
SerialExecution ==
  /\ running["main"] = NoTask \/ running["thread"] = NoTask
  /\ ~super => queue = <<>> /\ \A t \in Thread : running[t] = NoTask
  /\ ~super => thr = "none" /\ ~callback

\* The executor never sleeps over a queued task unless the thread that queued
\* it is on its way to wake it (do_new_task, thread_handler).
NoLostWakeup ==
  thr = "sleep" /\ queue # <<>> => pc = "signal"

\* A requeue task that is queued or running points into the stack frame of
\* wait_requeue, and the command thread is still in it.
ContextAlive ==
  (\/ \E i \in DOMAIN queue : queue[i].type = "requeue"
   \/ \E t \in Thread : running[t].type = "requeue")
     => pc = "wait" \/ (pc = "signal" /\ ret = "wait")

\* When the editor exits with status 0, or umount has succeeded, every journal
\* entry of every command is durable; at exit so is all the data (closefs,
\* main).
SuccessIsDurable ==
  r = "ok" /\ ~super =>
    /\ durable = appended
    /\ pc = "exit" => ~dirty

\* The editor always ends: no command waits for a task that nobody runs, and
\* closefs does not wait for an executor that sleeps.
Terminates == <>(pc = "exit")
=============================================================================
