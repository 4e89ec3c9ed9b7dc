------------------------- MODULE CyanfsEdit_proofs -------------------------
(***************************************************************************)
(* The offline editor, for a batch of any length: its two threads never    *)
(* run tasks together, no wakeup is lost, the requeue task never outlives  *)
(* the frame it points to, and status 0 means that everything is durable.  *)
(***************************************************************************)
EXTENDS CyanfsEdit, Integers, TLAPS

-----------------------------------------------------------------------------
(* The inductive invariant.                                                *)

Label == {"next", "open", "spawn", "callback", "run", "signal", "journal", "requeue", "wait",
          "again", "terminate", "join", "flush", "drain", "status", "sync", "exit"}

Types ==
  /\ pc \in Label /\ r \in {"ok", "err"}
  /\ queue \in Seq(Task) /\ running \in [Thread -> Task]
  /\ appended \in Nat /\ taken \in Nat /\ written \in Nat /\ durable \in Nat
  /\ thr \in {"none", "loop", "check", "sleep", "exit"}
  /\ super \in BOOLEAN /\ callback \in BOOLEAN /\ new_task \in BOOLEAN
  /\ terminated \in BOOLEAN /\ done \in BOOLEAN /\ error \in BOOLEAN /\ dirty \in BOOLEAN

\* Nothing is queued and nothing runs.
Idle == queue = <<>> /\ running["main"] = NoTask /\ running["thread"] = NoTask

\* What openfs and closefs have set up, at each label of the command thread.
Awake == thr \in {"loop", "check", "sleep"} /\ ~terminated
PhaseInv ==
  /\ pc \in {"spawn", "callback", "signal", "journal", "requeue", "wait", "again", "terminate",
             "join", "flush", "drain", "status"} => super
  /\ pc \in {"open", "sync", "exit"} => ~super
  /\ pc = "run" => super \/ op = "mkfs"
  /\ ~super => thr = "none" /\ ~callback /\ Idle /\ ~error
  /\ pc = "spawn" => thr = "none" /\ ~callback /\ ~terminated /\ Idle /\ ~error
  /\ pc = "callback" => Awake /\ ~callback /\ Idle
  /\ super /\ pc \in {"next", "run", "signal", "journal", "requeue", "wait", "again", "terminate"} =>
       Awake /\ callback
  /\ pc = "join" => terminated /\ callback /\ thr \in {"loop", "check", "exit"}
  /\ pc \in {"flush", "drain", "status"} => thr = "none" /\ ~callback
  /\ pc = "signal" => ret \in {"next", "requeue", "wait"}
  /\ pc = "status" => Idle
  /\ running["main"] # NoTask => pc = "drain"
  /\ running["thread"] # NoTask => thr = "loop"

\* An executor about to sleep will be told.
WakeInv ==
  /\ thr = "sleep" /\ queue # <<>> => pc = "signal"
  /\ thr = "check" /\ queue # <<>> => new_task \/ terminated \/ pc = "signal"

InQueue(type) == \E i \in DOMAIN queue : queue[i].type = type
Runs(type) == \E t \in Thread : running[t].type = type
Waiting == pc = "wait" \/ (pc = "signal" /\ ret = "wait")
Asking == pc = "requeue" \/ (pc = "signal" /\ ret = "requeue")

\* One requeue at most, whose caller waits for it.
RequeueInv ==
  /\ InQueue("requeue") \/ Runs("requeue") => Waiting /\ ~done
  /\ Runs("requeue") => ~InQueue("requeue")
  /\ \A i, j \in DOMAIN queue : queue[i].type = "requeue" /\ queue[j].type = "requeue" => i = j

\* As long as no command failed, a copy comes before the requeue that waits
\* for it.
CopyInv ==
  r = "ok" =>
    /\ InQueue("copy") \/ Runs("copy") =>
         Asking \/ (Waiting /\ (InQueue("requeue") \/ Runs("requeue")))
    /\ Runs("requeue") => ~InQueue("copy")
    /\ \A i, j \in DOMAIN queue : queue[i].type = "copy" /\ queue[j].type = "requeue" => i < j

\* The last journal task writes all that was taken.
JournalInv ==
  r = "ok" /\ ~error =>
    /\ \A i \in DOMAIN queue :
         /\ queue[i].type = "journal"
         /\ \A j \in DOMAIN queue : queue[j].type = "journal" => j <= i
         => queue[i].upto = taken
    /\ \A t \in Thread :
         running[t].type = "journal" /\ ~InQueue("journal") => running[t].upto = taken
    /\ ~InQueue("journal") /\ ~Runs("journal") => written = taken

\* A flush comes after the last journal task, or everything is durable.
FlushPending ==
  \/ \E i \in DOMAIN queue :
       /\ queue[i].type = "flush"
       /\ \A j \in DOMAIN queue : queue[j].type = "journal" => j < i
  \/ Runs("flush") /\ ~InQueue("journal")
  \/ durable = appended /\ ~InQueue("journal") /\ ~Runs("journal")

DurableInv ==
  /\ r = "ok" /\ ~error /\ pc \in {"drain", "status"} => taken = appended /\ FlushPending
  /\ r = "ok" /\ ~super => durable = appended /\ written = appended /\ taken = appended
  /\ r = "ok" /\ pc = "exit" => ~dirty

IInv == Types /\ PhaseInv /\ WakeInv /\ RequeueInv /\ CopyInv /\ JournalInv /\ DurableInv

-----------------------------------------------------------------------------
(* Sequences and tasks.                                                    *)

\* The empty sequence is neutral.
LEMMA ConcatEmpty ==
  ASSUME NEW S, NEW q \in Seq(S)
  PROVE  q \o <<>> = q /\ <<>> \o q = q
OBVIOUS

\* Two sequences concatenated.
LEMMA ConcatType ==
  ASSUME NEW S, NEW p \in Seq(S), NEW q \in Seq(S)
  PROVE  /\ p \o q \in Seq(S)
         /\ Len(p \o q) = Len(p) + Len(q)
         /\ \A i \in 1 .. Len(p) + Len(q) :
              (p \o q)[i] = IF i <= Len(p) THEN p[i] ELSE q[i - Len(p)]
OBVIOUS

\* The kinds of tasks are told apart by their type.
LEMMA TaskFacts ==
  /\ NoTask \in Task /\ NoTask.type = "none"
  /\ \A x \in Task : x.upto \in Nat
  /\ \A type \in {"journal", "flush", "copy", "requeue", "compact", "none"} :
       T(type) \in Task /\ T(type).type = type
BY Zenon DEF Task, T, NoTask

\* What is queued and what runs stays when neither is touched.
LEMMA TasksSame ==
  ASSUME UNCHANGED tasks
  PROVE  /\ \A type : InQueue(type)' <=> InQueue(type)
         /\ \A type : Runs(type)' <=> Runs(type)
         /\ Idle' <=> Idle
BY Zenon DEF tasks, InQueue, Runs, Idle

\* Tasks added behind the queue (cyanfs_super_task_add_tail).
LEMMA TasksAdded ==
  ASSUME Types, NEW ts \in Seq(Task), queue' = queue \o ts
  PROVE  /\ queue' \in Seq(Task)
         /\ Len(queue') = Len(queue) + Len(ts)
         /\ \A i \in DOMAIN queue : i \in DOMAIN queue' /\ queue'[i] = queue[i]
         /\ \A i \in DOMAIN queue' : i \in DOMAIN queue \/
              \E k \in DOMAIN ts : i = Len(queue) + k /\ queue'[i] = ts[k]
         /\ \A k \in DOMAIN ts :
              Len(queue) + k \in DOMAIN queue' /\ queue'[Len(queue) + k] = ts[k]
         /\ \A type : InQueue(type)' <=> InQueue(type) \/ \E k \in DOMAIN ts : ts[k].type = type
<1>1. queue \in Seq(Task)
  BY Zenon DEF Types
<1>2. /\ queue' \in Seq(Task)
      /\ Len(queue') = Len(queue) + Len(ts)
      /\ \A i \in 1 .. Len(queue) + Len(ts) :
           queue'[i] = IF i <= Len(queue) THEN queue[i] ELSE ts[i - Len(queue)]
  BY <1>1, ConcatType, Zenon
<1>3. /\ Len(queue) \in Nat /\ DOMAIN queue = 1 .. Len(queue)
      /\ Len(ts) \in Nat /\ DOMAIN ts = 1 .. Len(ts)
      /\ DOMAIN queue' = 1 .. Len(queue')
  BY <1>1, <1>2
<1>4. \A i \in DOMAIN queue : i \in DOMAIN queue' /\ queue'[i] = queue[i]
  BY <1>2, <1>3
<1>5. \A i \in DOMAIN queue' : i \in DOMAIN queue \/
        \E k \in DOMAIN ts : i = Len(queue) + k /\ queue'[i] = ts[k]
  <2> SUFFICES ASSUME NEW i \in DOMAIN queue', i \notin DOMAIN queue
               PROVE  \E k \in DOMAIN ts : i = Len(queue) + k /\ queue'[i] = ts[k]
    BY Zenon
  <2>1. i - Len(queue) \in DOMAIN ts /\ i = Len(queue) + (i - Len(queue))
        /\ queue'[i] = ts[i - Len(queue)]
    BY <1>2, <1>3
  <2> QED BY <2>1, Zenon
<1>6. \A k \in DOMAIN ts : Len(queue) + k \in DOMAIN queue' /\ queue'[Len(queue) + k] = ts[k]
  <2> SUFFICES ASSUME NEW k \in DOMAIN ts
               PROVE  Len(queue) + k \in DOMAIN queue' /\ queue'[Len(queue) + k] = ts[k]
    BY Zenon
  <2>1. Len(queue) + k \in 1 .. Len(queue) + Len(ts) /\ ~(Len(queue) + k <= Len(queue))
        /\ Len(queue) + k - Len(queue) = k
    BY <1>3
  <2> QED BY <1>2, <1>3, <2>1
<1>7. \A type : InQueue(type)' <=> InQueue(type) \/ \E k \in DOMAIN ts : ts[k].type = type
  <2> TAKE type
  <2>1. ASSUME InQueue(type) \/ \E k \in DOMAIN ts : ts[k].type = type
        PROVE  InQueue(type)'
    <3>1. CASE InQueue(type)
      BY <1>4, <3>1, Zenon DEF InQueue
    <3>2. CASE \E k \in DOMAIN ts : ts[k].type = type
      BY Zenon, <1>6, <3>2 DEF InQueue
    <3> QED BY <2>1, <3>1, <3>2, Zenon
  <2>2. ASSUME InQueue(type)'
        PROVE  InQueue(type) \/ \E k \in DOMAIN ts : ts[k].type = type
    <3>1. PICK i \in DOMAIN queue' : queue'[i].type = type
      BY <2>2, Zenon DEF InQueue
    <3>2. CASE i \in DOMAIN queue
      BY <1>4, <3>1, <3>2, Zenon DEF InQueue
    <3>3. CASE \E k \in DOMAIN ts : i = Len(queue) + k /\ queue'[i] = ts[k]
      BY <3>1, <3>3, Zenon
    <3> QED BY <1>5, <3>1, <3>2, <3>3, Zenon
  <2> QED BY <2>1, <2>2, Zenon
<1> QED BY <1>2, <1>4, <1>5, <1>6, <1>7, Zenon

\* Only one thread is in do_loop.
LEMMA OneLoop ==
  ASSUME PhaseInv, NEW t \in Thread, Looping(t)
  PROVE  \A u \in Thread \ {t} : running[u] = NoTask /\ ~Looping(u)
BY DEF PhaseInv, Looping, Thread, Idle, Awake

\* The first task is taken (cyanfs_super_get_task).
LEMMA TaskTaken ==
  ASSUME Types, PhaseInv, NEW t \in Thread, GetTask(t)
  PROVE  /\ queue' \in Seq(Task) /\ running' \in [Thread -> Task]
         /\ queue # <<>> /\ 1 \in DOMAIN queue /\ running'[t] = queue[1]
         /\ \A u \in Thread \ {t} : running'[u] = NoTask
         /\ \A u \in Thread : running[u] = NoTask
         /\ \A i \in DOMAIN queue' : i \in Nat /\ i + 1 \in DOMAIN queue /\ queue'[i] = queue[i + 1]
         /\ \A i \in DOMAIN queue : i = 1 \/ (i - 1 \in DOMAIN queue' /\ queue'[i - 1] = queue[i])
         /\ \A type : InQueue(type) <=> InQueue(type)' \/ queue[1].type = type
         /\ \A type : type # "none" => ~Runs(type)
         /\ \A type : type # "none" => (Runs(type)' <=> queue[1].type = type)
<1>1. queue \in Seq(Task) /\ running \in [Thread -> Task]
  BY Zenon DEF Types
<1>2. /\ Looping(t) /\ running[t] = NoTask /\ queue # <<>>
      /\ running' = [running EXCEPT ![t] = Head(queue)] /\ queue' = Tail(queue)
  BY Zenon DEF GetTask
<1>3. /\ Len(queue) \in Nat \ {0} /\ DOMAIN queue = 1 .. Len(queue)
      /\ Head(queue) = queue[1] /\ queue[1] \in Task
  BY <1>1, <1>2
<1>4. /\ queue' \in Seq(Task) /\ DOMAIN queue' = 1 .. Len(queue) - 1
      /\ \A i \in 1 .. Len(queue) - 1 : queue'[i] = queue[i + 1]
  BY <1>1, <1>2, <1>3
<1>5. /\ \A i \in DOMAIN queue' : i \in Nat /\ i + 1 \in DOMAIN queue /\ queue'[i] = queue[i + 1]
      /\ \A i \in DOMAIN queue : i = 1 \/ (i - 1 \in DOMAIN queue' /\ queue'[i - 1] = queue[i])
  BY <1>3, <1>4
<1>6. \A type : InQueue(type) <=> InQueue(type)' \/ queue[1].type = type
  BY <1>3, <1>5 DEF InQueue
<1>7. /\ running' \in [Thread -> Task] /\ running'[t] = queue[1]
      /\ \A u \in Thread \ {t} : running'[u] = running[u]
  BY <1>1, <1>2, <1>3, Zenon
<1>8. \A u \in Thread : running[u] = NoTask
  BY <1>2, OneLoop
<1>9. \A type : type # "none" => ~Runs(type)
  BY <1>8, TaskFacts, Zenon DEF Runs
<1>10. \A type : type # "none" => (Runs(type)' <=> queue[1].type = type)
  BY <1>7, <1>8, TaskFacts, Zenon DEF Runs
<1> QED BY <1>2, <1>3, <1>4, <1>5, <1>6, <1>7, <1>8, <1>9, <1>10

\* The running task ends.
LEMMA TaskEnds ==
  ASSUME Types, PhaseInv, NEW t \in Thread, NEW type \in {"journal", "flush", "copy", "requeue", "compact"},
         Completes(t, type)
  PROVE  /\ Looping(t) /\ running[t] \in Task /\ running[t].type = type
         /\ running' \in [Thread -> Task]
         /\ \A u \in Thread : running'[u] = NoTask
         /\ \A ty : ty # "none" => (Runs(ty) <=> ty = type) /\ ~Runs(ty)'
<1>1. running \in [Thread -> Task] /\ running[t].type = type
      /\ running' = [running EXCEPT ![t] = NoTask]
  BY Zenon DEF Types, Completes
<1>2. running[t] # NoTask
  BY <1>1, TaskFacts, Zenon
<1>3. Looping(t)
  BY <1>2, Zenon DEF PhaseInv, Looping, Thread
<1>4. \A u \in Thread \ {t} : running[u] = NoTask
  BY <1>3, OneLoop, Zenon
<1>5. running' \in [Thread -> Task] /\ \A u \in Thread : running'[u] = NoTask
  BY <1>1, <1>4, TaskFacts, Zenon
<1>6. \A ty : ty # "none" => (Runs(ty) <=> ty = type) /\ ~Runs(ty)'
  BY <1>1, <1>4, <1>5, TaskFacts, Zenon DEF Runs
<1> QED BY <1>1, <1>3, <1>5, <1>6, Zenon

-----------------------------------------------------------------------------
(* Steps that leave the tasks alone.                                       *)

\* A step that moves a thread on preserves what is known of the tasks.
LEMMA InvControl ==
  ASSUME IInv, UNCHANGED <<tasks, taken, written, durable>>, Types', PhaseInv', WakeInv',
         r' = "ok" => r = "ok" /\ (~error' => ~error),
         Asking /\ r' = "ok" => Asking',
         Waiting /\ ~done => Waiting' /\ ~done',
         r' = "ok" /\ pc' \in {"drain", "status"} => pc \in {"drain", "status"} /\ UNCHANGED appended,
         r' = "ok" /\ ~super' => ~super /\ UNCHANGED appended,
         r' = "ok" /\ pc' = "exit" => ~dirty'
  PROVE  IInv'
<1>1. /\ \A type : InQueue(type)' <=> InQueue(type)
      /\ \A type : Runs(type)' <=> Runs(type)
      /\ UNCHANGED <<queue, running>>
  BY TasksSame, Zenon DEF tasks
<1>2. RequeueInv'
  BY <1>1, Zenon DEF IInv, RequeueInv
<1>3. CopyInv'
  <2> SUFFICES ASSUME r' = "ok" PROVE CopyInv'
    BY Zenon DEF CopyInv
  <2>1. InQueue("requeue") \/ Runs("requeue") => Waiting /\ ~done
    BY Zenon DEF IInv, RequeueInv
  <2>2. InQueue("copy") \/ Runs("copy") =>
          Asking \/ (Waiting /\ (InQueue("requeue") \/ Runs("requeue")))
    BY Zenon DEF IInv, CopyInv
  <2>3. (InQueue("copy") \/ Runs("copy"))' =>
          (Asking \/ (Waiting /\ (InQueue("requeue") \/ Runs("requeue"))))'
    BY <1>1, <2>1, <2>2, Zenon
  <2> QED BY <1>1, <2>3, Zenon DEF IInv, CopyInv
<1>4. JournalInv'
  BY <1>1, Zenon DEF IInv, JournalInv
<1>5. DurableInv'
  <2>1. UNCHANGED appended => FlushPending' = FlushPending
    BY <1>1, Zenon DEF FlushPending
  <2> QED BY <2>1, Zenon DEF IInv, DurableInv
<1> QED BY <1>2, <1>3, <1>4, <1>5, Zenon DEF IInv

\* do_batch, call_fn: the next command.
LEMMA InvNextCommand ==
  ASSUME IInv, NEW c \in Command, NextCommand(c)
  PROVE  IInv'
<1>1. UNCHANGED <<tasks, taken, written, durable>>
  BY Zenon DEF NextCommand, Goto, Fail, main, thread, tasks, ctx, journal
<1>2. Types'
  BY <1>1 DEF NextCommand, Command, Goto, Fail, main, thread, tasks, ctx, journal, IInv, Types,
       Label
<1>3. PhaseInv'
  <2>1. Idle' <=> Idle
    BY <1>1, TasksSame, Zenon
  <2> QED BY <1>1, <2>1 DEF NextCommand, Command, Goto, Fail, main, thread, tasks, ctx, journal,
       IInv, Types, PhaseInv, Idle, Awake
<1>4. WakeInv'
  BY <1>1, Zenon DEF NextCommand, Command, Goto, Fail, main, thread, tasks, ctx, journal, IInv,
       Types, PhaseInv, WakeInv, Idle
<1>5. /\ r' = "ok" => r = "ok" /\ (~error' => ~error)
      /\ Asking /\ r' = "ok" => Asking'
      /\ Waiting /\ ~done => Waiting' /\ ~done'
      /\ r' = "ok" /\ pc' \in {"drain", "status"} => pc \in {"drain", "status"} /\ UNCHANGED appended
      /\ r' = "ok" /\ ~super' => ~super /\ UNCHANGED appended
      /\ r' = "ok" /\ pc' = "exit" => ~dirty'
  BY Zenon DEF NextCommand, Command, Goto, Fail, main, thread, tasks, ctx, journal, IInv, Types,
       PhaseInv, Asking, Waiting
<1> QED BY <1>1, <1>2, <1>3, <1>4, <1>5, InvControl, Zenon

\* The end of the input.
LEMMA InvEndOfInput ==
  ASSUME IInv, EndOfInput
  PROVE  IInv'
<1>1. UNCHANGED <<tasks, taken, written, durable>>
  BY Zenon DEF EndOfInput, Goto, Fail, main, thread, tasks, ctx, journal
<1>2. Types'
  BY <1>1 DEF EndOfInput, Goto, Fail, main, thread, tasks, ctx, journal, IInv, Types, Label
<1>3. PhaseInv'
  BY <1>1, TasksSame, Zenon DEF EndOfInput, Goto, Fail, main, thread, tasks, ctx, journal, IInv,
       Types, PhaseInv, Idle, Awake
<1>4. WakeInv'
  BY <1>1, Zenon DEF EndOfInput, Goto, Fail, main, thread, tasks, ctx, journal, IInv, Types,
       PhaseInv, WakeInv, Idle
<1>5. /\ r' = "ok" => r = "ok" /\ (~error' => ~error)
      /\ Asking /\ r' = "ok" => Asking'
      /\ Waiting /\ ~done => Waiting' /\ ~done'
      /\ r' = "ok" /\ pc' \in {"drain", "status"} => pc \in {"drain", "status"} /\ UNCHANGED appended
      /\ r' = "ok" /\ ~super' => ~super /\ UNCHANGED appended
      /\ r' = "ok" /\ pc' = "exit" => ~dirty'
  BY Zenon DEF EndOfInput, Goto, Fail, main, thread, tasks, ctx, journal, IInv, Types, PhaseInv,
       Asking, Waiting
<1> QED BY <1>1, <1>2, <1>3, <1>4, <1>5, InvControl, Zenon

\* openfs loads the file system, or fails.
LEMMA InvOpenSuper ==
  ASSUME IInv, OpenSuper
  PROVE  IInv'
<1>1. UNCHANGED <<tasks, taken, written, durable>>
  BY Zenon DEF OpenSuper, Goto, Fail, main, thread, tasks, ctx, journal
<1>2. Types'
  BY <1>1, ZenonT(60) DEF OpenSuper, Goto, Fail, main, thread, tasks, ctx, journal, IInv, Types,
       Label
<1>3. PhaseInv'
  BY <1>1, TasksSame DEF OpenSuper, Goto, Fail, main, thread, tasks, ctx, journal, IInv, Types,
       PhaseInv, Idle, Awake
<1>4. WakeInv'
  BY <1>1, Zenon DEF OpenSuper, Goto, Fail, main, thread, tasks, ctx, journal, IInv, Types,
       PhaseInv, WakeInv, Idle
<1>5. /\ r' = "ok" => r = "ok" /\ (~error' => ~error)
      /\ Asking /\ r' = "ok" => Asking'
      /\ Waiting /\ ~done => Waiting' /\ ~done'
      /\ r' = "ok" /\ pc' \in {"drain", "status"} => pc \in {"drain", "status"} /\ UNCHANGED appended
      /\ r' = "ok" /\ ~super' => ~super /\ UNCHANGED appended
      /\ r' = "ok" /\ pc' = "exit" => ~dirty'
  BY Zenon DEF OpenSuper, Goto, Fail, main, thread, tasks, ctx, journal, IInv, Types, PhaseInv,
       Asking, Waiting
<1> QED BY <1>1, <1>2, <1>3, <1>4, <1>5, InvControl, Zenon

\* openfs creates the executor, or fails.
LEMMA InvSpawn ==
  ASSUME IInv, Spawn
  PROVE  IInv'
<1>1. UNCHANGED <<tasks, taken, written, durable>>
  BY Zenon DEF Spawn, Goto, Fail, main, thread, tasks, ctx, journal
<1>2. Types'
  BY <1>1, ZenonT(60) DEF Spawn, Goto, Fail, main, thread, tasks, ctx, journal, IInv, Types, Label
<1>3. PhaseInv'
  <2>1. super /\ thr = "none" /\ ~callback /\ ~terminated /\ Idle /\ ~error
    BY Zenon DEF Spawn, IInv, PhaseInv
  <2>2. Idle' /\ UNCHANGED <<callback, terminated, error, op>>
    BY <1>1, <2>1, TasksSame, Zenon DEF Spawn, Goto, Fail
  <2>3. CASE thr' = "loop" /\ Goto("callback") /\ UNCHANGED super
    BY <2>1, <2>2, <2>3, Zenon DEF Goto, PhaseInv, Idle, Awake
  <2>4. CASE super' = FALSE /\ Fail("next") /\ UNCHANGED thr
    BY <2>1, <2>2, <2>4, Zenon DEF Fail, PhaseInv, Idle
  <2> QED BY Zenon, <2>3, <2>4 DEF Spawn
<1>4. WakeInv'
  BY <1>1, Zenon DEF Spawn, Goto, Fail, main, thread, tasks, ctx, journal, IInv, Types, PhaseInv,
       WakeInv, Idle
<1>5. /\ r' = "ok" => r = "ok" /\ (~error' => ~error)
      /\ Asking /\ r' = "ok" => Asking'
      /\ Waiting /\ ~done => Waiting' /\ ~done'
      /\ r' = "ok" /\ pc' \in {"drain", "status"} => pc \in {"drain", "status"} /\ UNCHANGED appended
      /\ r' = "ok" /\ ~super' => ~super /\ UNCHANGED appended
      /\ r' = "ok" /\ pc' = "exit" => ~dirty'
  BY Zenon DEF Spawn, Goto, Fail, main, thread, tasks, ctx, journal, IInv, Types, PhaseInv,
       Asking, Waiting
<1> QED BY <1>1, <1>2, <1>3, <1>4, <1>5, InvControl

\* openfs registers the callback.
LEMMA InvSetCallback ==
  ASSUME IInv, SetCallback
  PROVE  IInv'
<1>1. UNCHANGED <<tasks, taken, written, durable>>
  BY Zenon DEF SetCallback, Goto, Fail, main, thread, tasks, ctx, journal
<1>2. Types'
  BY <1>1 DEF SetCallback, Goto, Fail, main, thread, tasks, ctx, journal, IInv, Types, Label
<1>3. PhaseInv'
  BY <1>1, TasksSame, Zenon DEF SetCallback, Goto, Fail, main, thread, tasks, ctx, journal, IInv,
       Types, PhaseInv, Idle, Awake
<1>4. WakeInv'
  BY <1>1, Zenon DEF SetCallback, Goto, Fail, main, thread, tasks, ctx, journal, IInv, Types,
       PhaseInv, WakeInv, Idle
<1>5. /\ r' = "ok" => r = "ok" /\ (~error' => ~error)
      /\ Asking /\ r' = "ok" => Asking'
      /\ Waiting /\ ~done => Waiting' /\ ~done'
      /\ r' = "ok" /\ pc' \in {"drain", "status"} => pc \in {"drain", "status"} /\ UNCHANGED appended
      /\ r' = "ok" /\ ~super' => ~super /\ UNCHANGED appended
      /\ r' = "ok" /\ pc' = "exit" => ~dirty'
  BY Zenon DEF SetCallback, Goto, Fail, main, thread, tasks, ctx, journal, IInv, Types, PhaseInv,
       Asking, Waiting
<1> QED BY <1>1, <1>2, <1>3, <1>4, <1>5, InvControl

\* do_new_task.
LEMMA InvNewTask ==
  ASSUME IInv, NewTask
  PROVE  IInv'
<1>1. UNCHANGED <<tasks, taken, written, durable>>
  BY Zenon DEF NewTask, Notify, Goto, Fail, main, thread, tasks, ctx, journal
<1>2. Types'
  BY <1>1 DEF NewTask, Notify, Goto, tasks, ctx, journal, IInv, Types, PhaseInv, Label
<1>3. PhaseInv'
  BY <1>1, TasksSame, Zenon DEF NewTask, Notify, Goto, Fail, main, thread, tasks, ctx, journal,
       IInv, Types, PhaseInv, Idle, Awake
<1>4. WakeInv'
  BY <1>1, Zenon DEF NewTask, Notify, Goto, Fail, main, thread, tasks, ctx, journal, IInv, Types,
       PhaseInv, WakeInv, Idle
<1>5. /\ r' = "ok" => r = "ok" /\ (~error' => ~error)
      /\ Asking /\ r' = "ok" => Asking'
      /\ Waiting /\ ~done => Waiting' /\ ~done'
      /\ r' = "ok" /\ pc' \in {"drain", "status"} => pc \in {"drain", "status"} /\ UNCHANGED appended
      /\ r' = "ok" /\ ~super' => ~super /\ UNCHANGED appended
      /\ r' = "ok" /\ pc' = "exit" => ~dirty'
  BY Zenon DEF NewTask, Notify, Goto, Fail, main, thread, tasks, ctx, journal, IInv, Types,
       PhaseInv, Asking, Waiting
<1> QED BY <1>1, <1>2, <1>3, <1>4, <1>5, InvControl, Zenon

\* mkfs and mount.
LEMMA InvRunPlain ==
  ASSUME IInv, RunPlain
  PROVE  IInv'
<1>1. UNCHANGED <<tasks, taken, written, durable>>
  BY Zenon DEF RunPlain, Goto, Fail, main, thread, tasks, ctx, journal
<1>2. Types'
  <2>1. CASE UNCHANGED dirty
    BY <1>1, <2>1 DEF RunPlain, Goto, Fail, thread, tasks, ctx, journal, IInv, Types, Label
  <2>2. CASE dirty' = TRUE
    BY <1>1, <2>2, ZenonT(60) DEF RunPlain, Goto, Fail, thread, tasks, ctx, journal, IInv, Types,
         Label
  <2> QED BY Zenon, <2>1, <2>2 DEF RunPlain
<1>3. PhaseInv'
  BY <1>1, TasksSame, Zenon DEF RunPlain, Goto, Fail, main, thread, tasks, ctx, journal, IInv,
       Types, PhaseInv, Idle, Awake
<1>4. WakeInv'
  BY <1>1, Zenon DEF RunPlain, Goto, Fail, main, thread, tasks, ctx, journal, IInv, Types,
       PhaseInv, WakeInv, Idle
<1>5. /\ r' = "ok" => r = "ok" /\ (~error' => ~error)
      /\ Asking /\ r' = "ok" => Asking'
      /\ Waiting /\ ~done => Waiting' /\ ~done'
      /\ r' = "ok" /\ pc' \in {"drain", "status"} => pc \in {"drain", "status"} /\ UNCHANGED appended
      /\ r' = "ok" /\ ~super' => ~super /\ UNCHANGED appended
      /\ r' = "ok" /\ pc' = "exit" => ~dirty'
  BY Zenon DEF RunPlain, Goto, Fail, main, thread, tasks, ctx, journal, IInv, Types, PhaseInv,
       Asking, Waiting
<1> QED BY <1>1, <1>2, <1>3, <1>4, <1>5, InvControl

\* A command that appends an entry.
LEMMA InvRunMetadata ==
  ASSUME IInv, RunMetadata
  PROVE  IInv'
<1>1. UNCHANGED <<tasks, taken, written, durable>>
  BY Zenon DEF RunMetadata, Goto, Fail, main, thread, tasks, ctx, journal
<1>2. Types'
  BY <1>1 DEF RunMetadata, Goto, Fail, main, thread, tasks, ctx, journal, IInv, Types, Label
<1>3. PhaseInv'
  BY <1>1, TasksSame, Zenon DEF RunMetadata, Goto, Fail, main, thread, tasks, ctx, journal, IInv,
       Types, PhaseInv, Idle, Awake
<1>4. WakeInv'
  BY <1>1, Zenon DEF RunMetadata, Goto, Fail, main, thread, tasks, ctx, journal, IInv, Types,
       PhaseInv, WakeInv, Idle
<1>5. /\ r' = "ok" => r = "ok" /\ (~error' => ~error)
      /\ Asking /\ r' = "ok" => Asking'
      /\ Waiting /\ ~done => Waiting' /\ ~done'
      /\ r' = "ok" /\ pc' \in {"drain", "status"} => pc \in {"drain", "status"} /\ UNCHANGED appended
      /\ r' = "ok" /\ ~super' => ~super /\ UNCHANGED appended
      /\ r' = "ok" /\ pc' = "exit" => ~dirty'
  BY Zenon DEF RunMetadata, Goto, Fail, main, thread, tasks, ctx, journal, IInv, Types, PhaseInv,
       Asking, Waiting
<1> QED BY <1>1, <1>2, <1>3, <1>4, <1>5, InvControl

\* A write to an extent nobody shares.
LEMMA InvRunWrite ==
  ASSUME IInv, RunWrite
  PROVE  IInv'
<1>1. UNCHANGED <<tasks, taken, written, durable>>
  BY Zenon DEF RunWrite, Goto, Fail, main, thread, tasks, ctx, journal
<1>2. Types'
  BY <1>1 DEF RunWrite, Goto, Fail, main, thread, tasks, ctx, journal, IInv, Types, Label
<1>3. PhaseInv'
  BY <1>1, TasksSame DEF RunWrite, Goto, Fail, main, thread, tasks, ctx, journal, IInv, Types,
       PhaseInv, Idle, Awake
<1>4. WakeInv'
  BY <1>1, Zenon DEF RunWrite, Goto, Fail, main, thread, tasks, ctx, journal, IInv, Types,
       PhaseInv, WakeInv, Idle
<1>5. /\ r' = "ok" => r = "ok" /\ (~error' => ~error)
      /\ Asking /\ r' = "ok" => Asking'
      /\ Waiting /\ ~done => Waiting' /\ ~done'
      /\ r' = "ok" /\ pc' \in {"drain", "status"} => pc \in {"drain", "status"} /\ UNCHANGED appended
      /\ r' = "ok" /\ ~super' => ~super /\ UNCHANGED appended
      /\ r' = "ok" /\ pc' = "exit" => ~dirty'
  BY Zenon DEF RunWrite, Goto, Fail, main, thread, tasks, ctx, journal, IInv, Types, PhaseInv,
       Asking, Waiting
<1> QED BY <1>1, <1>2, <1>3, <1>4, <1>5, InvControl

\* wait_requeue sees done.
LEMMA InvWaitRequeue ==
  ASSUME IInv, WaitRequeue
  PROVE  IInv'
<1>1. UNCHANGED <<tasks, taken, written, durable>>
  BY Zenon DEF WaitRequeue, Goto, Fail, main, thread, tasks, ctx, journal
<1>2. Types'
  BY <1>1 DEF WaitRequeue, Goto, Fail, main, thread, tasks, ctx, journal, IInv, Types, Label
<1>3. PhaseInv'
  BY <1>1, TasksSame, Zenon DEF WaitRequeue, Goto, Fail, main, thread, tasks, ctx, journal, IInv,
       Types, PhaseInv, Idle, Awake
<1>4. WakeInv'
  BY <1>1, Zenon DEF WaitRequeue, Goto, Fail, main, thread, tasks, ctx, journal, IInv, Types,
       PhaseInv, WakeInv, Idle
<1>5. /\ r' = "ok" => r = "ok" /\ (~error' => ~error)
      /\ Asking /\ r' = "ok" => Asking'
      /\ Waiting /\ ~done => Waiting' /\ ~done'
      /\ r' = "ok" /\ pc' \in {"drain", "status"} => pc \in {"drain", "status"} /\ UNCHANGED appended
      /\ r' = "ok" /\ ~super' => ~super /\ UNCHANGED appended
      /\ r' = "ok" /\ pc' = "exit" => ~dirty'
  BY Zenon DEF WaitRequeue, Goto, Fail, main, thread, tasks, ctx, journal, IInv, Types, PhaseInv,
       Asking, Waiting
<1> QED BY <1>1, <1>2, <1>3, <1>4, <1>5, InvControl, Zenon

\* The write after the copy.
LEMMA InvWriteAgain ==
  ASSUME IInv, WriteAgain
  PROVE  IInv'
<1>1. UNCHANGED <<tasks, taken, written, durable>>
  BY Zenon DEF WriteAgain, Goto, Fail, main, thread, tasks, ctx, journal
<1>2. Types'
  BY <1>1, ZenonT(60) DEF WriteAgain, Goto, Fail, main, thread, tasks, ctx, journal, IInv, Types,
       Label
<1>3. PhaseInv'
  BY <1>1, TasksSame, Zenon DEF WriteAgain, Goto, Fail, main, thread, tasks, ctx, journal, IInv,
       Types, PhaseInv, Idle, Awake
<1>4. WakeInv'
  BY <1>1, Zenon DEF WriteAgain, Goto, Fail, main, thread, tasks, ctx, journal, IInv, Types,
       PhaseInv, WakeInv, Idle
<1>5. /\ r' = "ok" => r = "ok" /\ (~error' => ~error)
      /\ Asking /\ r' = "ok" => Asking'
      /\ Waiting /\ ~done => Waiting' /\ ~done'
      /\ r' = "ok" /\ pc' \in {"drain", "status"} => pc \in {"drain", "status"} /\ UNCHANGED appended
      /\ r' = "ok" /\ ~super' => ~super /\ UNCHANGED appended
      /\ r' = "ok" /\ pc' = "exit" => ~dirty'
  BY Zenon DEF WriteAgain, Goto, Fail, main, thread, tasks, ctx, journal, IInv, Types, PhaseInv,
       Asking, Waiting
<1> QED BY <1>1, <1>2, <1>3, <1>4, <1>5, InvControl

\* closefs tells the executor to leave.
LEMMA InvTerminate ==
  ASSUME IInv, Terminate
  PROVE  IInv'
<1>1. UNCHANGED <<tasks, taken, written, durable>>
  BY Zenon DEF Terminate, Goto, Fail, main, thread, tasks, ctx, journal
<1>2. Types'
  BY <1>1, Zenon DEF Terminate, Goto, Fail, main, thread, tasks, ctx, journal, IInv, Types, Label
<1>3. PhaseInv'
  BY <1>1, TasksSame, Zenon DEF Terminate, Goto, Fail, main, thread, tasks, ctx, journal, IInv,
       Types, PhaseInv, Idle, Awake
<1>4. WakeInv'
  BY <1>1, Zenon DEF Terminate, Goto, Fail, main, thread, tasks, ctx, journal, IInv, Types,
       PhaseInv, WakeInv, Idle
<1>5. /\ r' = "ok" => r = "ok" /\ (~error' => ~error)
      /\ Asking /\ r' = "ok" => Asking'
      /\ Waiting /\ ~done => Waiting' /\ ~done'
      /\ r' = "ok" /\ pc' \in {"drain", "status"} => pc \in {"drain", "status"} /\ UNCHANGED appended
      /\ r' = "ok" /\ ~super' => ~super /\ UNCHANGED appended
      /\ r' = "ok" /\ pc' = "exit" => ~dirty'
  BY Zenon DEF Terminate, Goto, Fail, main, thread, tasks, ctx, journal, IInv, Types, PhaseInv,
       Asking, Waiting
<1> QED BY <1>1, <1>2, <1>3, <1>4, <1>5, InvControl

\* closefs has joined the executor.
LEMMA InvJoin ==
  ASSUME IInv, Join
  PROVE  IInv'
<1>1. UNCHANGED <<tasks, taken, written, durable>>
  BY Zenon DEF Join, Goto, Fail, main, thread, tasks, ctx, journal
<1>2. Types'
  BY <1>1, Zenon DEF Join, Goto, Fail, main, thread, tasks, ctx, journal, IInv, Types, Label
<1>3. PhaseInv'
  BY <1>1, TasksSame, Zenon DEF Join, Goto, Fail, main, thread, tasks, ctx, journal, IInv, Types,
       PhaseInv, Idle, Awake
<1>4. WakeInv'
  BY <1>1, Zenon DEF Join, Goto, Fail, main, thread, tasks, ctx, journal, IInv, Types, PhaseInv,
       WakeInv, Idle
<1>5. /\ r' = "ok" => r = "ok" /\ (~error' => ~error)
      /\ Asking /\ r' = "ok" => Asking'
      /\ Waiting /\ ~done => Waiting' /\ ~done'
      /\ r' = "ok" /\ pc' \in {"drain", "status"} => pc \in {"drain", "status"} /\ UNCHANGED appended
      /\ r' = "ok" /\ ~super' => ~super /\ UNCHANGED appended
      /\ r' = "ok" /\ pc' = "exit" => ~dirty'
  BY Zenon DEF Join, Goto, Fail, main, thread, tasks, ctx, journal, IInv, Types, PhaseInv,
       Asking, Waiting
<1> QED BY <1>1, <1>2, <1>3, <1>4, <1>5, InvControl

\* do_loop of closefs ends.
LEMMA InvDrained ==
  ASSUME IInv, Drained
  PROVE  IInv'
<1>1. UNCHANGED <<tasks, taken, written, durable>>
  BY Zenon DEF Drained, Goto, Fail, main, thread, tasks, ctx, journal
<1>2. Types'
  BY <1>1 DEF Drained, Goto, Fail, main, thread, tasks, ctx, journal, IInv, Types, Label
<1>3. PhaseInv'
  BY <1>1, TasksSame, Zenon DEF Drained, Goto, Fail, main, thread, tasks, ctx, journal, IInv,
       Types, PhaseInv, Idle, Awake
<1>4. WakeInv'
  BY <1>1, Zenon DEF Drained, Goto, Fail, main, thread, tasks, ctx, journal, IInv, Types,
       PhaseInv, WakeInv, Idle
<1>5. /\ r' = "ok" => r = "ok" /\ (~error' => ~error)
      /\ Asking /\ r' = "ok" => Asking'
      /\ Waiting /\ ~done => Waiting' /\ ~done'
      /\ r' = "ok" /\ pc' \in {"drain", "status"} => pc \in {"drain", "status"} /\ UNCHANGED appended
      /\ r' = "ok" /\ ~super' => ~super /\ UNCHANGED appended
      /\ r' = "ok" /\ pc' = "exit" => ~dirty'
  BY Zenon DEF Drained, Goto, Fail, main, thread, tasks, ctx, journal, IInv, Types, PhaseInv,
       Asking, Waiting
<1> QED BY <1>1, <1>2, <1>3, <1>4, <1>5, InvControl, Zenon

\* The executor saw an empty queue.
LEMMA InvLoopEnds ==
  ASSUME IInv, LoopEnds
  PROVE  IInv'
<1>1. UNCHANGED <<tasks, taken, written, durable>>
  BY Zenon DEF LoopEnds, Goto, Fail, main, thread, tasks, ctx, journal
<1>2. Types'
  BY <1>1 DEF LoopEnds, Goto, Fail, main, thread, tasks, ctx, journal, IInv, Types, Label
<1>3. PhaseInv'
  BY <1>1, TasksSame, Zenon DEF LoopEnds, Goto, Fail, main, thread, tasks, ctx, journal, IInv,
       Types, PhaseInv, Idle, Awake
<1>4. WakeInv'
  BY <1>1, Zenon DEF LoopEnds, Goto, Fail, main, thread, tasks, ctx, journal, IInv, Types,
       PhaseInv, WakeInv, Idle
<1>5. /\ r' = "ok" => r = "ok" /\ (~error' => ~error)
      /\ Asking /\ r' = "ok" => Asking'
      /\ Waiting /\ ~done => Waiting' /\ ~done'
      /\ r' = "ok" /\ pc' \in {"drain", "status"} => pc \in {"drain", "status"} /\ UNCHANGED appended
      /\ r' = "ok" /\ ~super' => ~super /\ UNCHANGED appended
      /\ r' = "ok" /\ pc' = "exit" => ~dirty'
  BY Zenon DEF LoopEnds, Goto, Fail, main, thread, tasks, ctx, journal, IInv, Types, PhaseInv,
       Asking, Waiting
<1> QED BY <1>1, <1>2, <1>3, <1>4, <1>5, InvControl

\* thread_handler leaves, loops again or sleeps.
LEMMA InvCheck ==
  ASSUME IInv, Check
  PROVE  IInv'
<1>1. UNCHANGED <<tasks, taken, written, durable>>
  BY Zenon DEF Check, Goto, Fail, main, thread, tasks, ctx, journal
<1>2. Types'
  BY <1>1 DEF Check, Goto, Fail, main, thread, tasks, ctx, journal, IInv, Types, Label
<1>3. PhaseInv'
  BY <1>1, TasksSame, Zenon DEF Check, Goto, Fail, main, thread, tasks, ctx, journal, IInv,
       Types, PhaseInv, Idle, Awake
<1>4. WakeInv'
  BY <1>1, Zenon DEF Check, Goto, Fail, main, thread, tasks, ctx, journal, IInv, Types, PhaseInv,
       WakeInv, Idle
<1>5. /\ r' = "ok" => r = "ok" /\ (~error' => ~error)
      /\ Asking /\ r' = "ok" => Asking'
      /\ Waiting /\ ~done => Waiting' /\ ~done'
      /\ r' = "ok" /\ pc' \in {"drain", "status"} => pc \in {"drain", "status"} /\ UNCHANGED appended
      /\ r' = "ok" /\ ~super' => ~super /\ UNCHANGED appended
      /\ r' = "ok" /\ pc' = "exit" => ~dirty'
  BY Zenon DEF Check, Goto, Fail, main, thread, tasks, ctx, journal, IInv, Types, PhaseInv,
       Asking, Waiting
<1> QED BY <1>1, <1>2, <1>3, <1>4, <1>5, InvControl

\* pthread_cond_wait returns without a signal.
LEMMA InvSpuriousWakeup ==
  ASSUME IInv, SpuriousWakeup
  PROVE  IInv'
<1>1. UNCHANGED <<tasks, taken, written, durable>>
  BY Zenon DEF SpuriousWakeup, Goto, Fail, main, thread, tasks, ctx, journal
<1>2. Types'
  BY <1>1 DEF SpuriousWakeup, Goto, Fail, main, thread, tasks, ctx, journal, IInv, Types, Label
<1>3. PhaseInv'
  BY <1>1, TasksSame, Zenon DEF SpuriousWakeup, Goto, Fail, main, thread, tasks, ctx, journal,
       IInv, Types, PhaseInv, Idle, Awake
<1>4. WakeInv'
  BY <1>1, Zenon DEF SpuriousWakeup, Goto, Fail, main, thread, tasks, ctx, journal, IInv, Types,
       PhaseInv, WakeInv, Idle
<1>5. /\ r' = "ok" => r = "ok" /\ (~error' => ~error)
      /\ Asking /\ r' = "ok" => Asking'
      /\ Waiting /\ ~done => Waiting' /\ ~done'
      /\ r' = "ok" /\ pc' \in {"drain", "status"} => pc \in {"drain", "status"} /\ UNCHANGED appended
      /\ r' = "ok" /\ ~super' => ~super /\ UNCHANGED appended
      /\ r' = "ok" /\ pc' = "exit" => ~dirty'
  BY Zenon DEF SpuriousWakeup, Goto, Fail, main, thread, tasks, ctx, journal, IInv, Types,
       PhaseInv, Asking, Waiting
<1> QED BY <1>1, <1>2, <1>3, <1>4, <1>5, InvControl

-----------------------------------------------------------------------------
(* Steps that add tasks.                                                   *)

\* A command the core refuses has no effect; its error is kept.
LEMMA InvRefused ==
  ASSUME IInv, super, NEW label \in {"next", "drain"}, pc \in {"run", "journal", "requeue", "flush"},
         pc = "flush" <=> label = "drain", Fail(label) \/ (pc = "journal" /\ Goto(label)),
         UNCHANGED <<super, thread, tasks, done, error, journal, dirty>>
  PROVE  IInv'
<1>1. UNCHANGED <<tasks, taken, written, durable>>
  BY Zenon DEF journal
<1>2. Types'
  BY <1>1 DEF Goto, Fail, thread, tasks, journal, IInv, Types, Label
<1>3. PhaseInv'
  <2>1. /\ pc' = label /\ UNCHANGED <<ret, op, super, callback, thr, terminated, error>>
        /\ UNCHANGED <<queue, running>>
    BY Zenon DEF Goto, Fail, thread, tasks
  <2> QED BY <2>1 DEF IInv, PhaseInv, Awake
<1>4. WakeInv'
  BY <1>1, Zenon DEF Goto, Fail, thread, tasks, IInv, Types, PhaseInv, WakeInv
<1>5. /\ r' = "ok" => r = "ok" /\ (~error' => ~error)
      /\ Asking /\ r' = "ok" => Asking'
      /\ Waiting /\ ~done => Waiting' /\ ~done'
      /\ r' = "ok" /\ pc' \in {"drain", "status"} => pc \in {"drain", "status"} /\ UNCHANGED appended
      /\ r' = "ok" /\ ~super' => ~super /\ UNCHANGED appended
      /\ r' = "ok" /\ pc' = "exit" => ~dirty'
  BY Zenon DEF Goto, Fail, IInv, Asking, Waiting
<1> QED BY <1>1, <1>2, <1>3, <1>4, <1>5, InvControl, Zenon

\* The command thread queues tasks: it tells the executor if that may sleep.
LEMMA QueuedControl ==
  ASSUME IInv, super, NEW label \in {"next", "requeue", "wait", "drain"},
         pc \in {"run", "journal", "requeue", "flush"}, pc = "flush" <=> label = "drain",
         NEW ts \in Seq(Task), Queued(ts, label), UNCHANGED <<super, thread, error>>
  PROVE  /\ queue' = queue \o ts /\ queue' \in Seq(Task) /\ UNCHANGED <<running, r>>
         /\ pc' \in Label
         /\ pc' = label \/ (pc' = "signal" /\ ret' = label /\ label # "drain")
         /\ PhaseInv' /\ WakeInv'
<1>1. queue' = queue \o ts /\ queue' \in Seq(Task) /\ UNCHANGED <<running, r, op>>
  BY TasksAdded, Zenon DEF Queued, IInv
<1>2. UNCHANGED <<callback, thr, new_task, terminated>>
  BY Zenon DEF thread
<1>3. pc = "flush" => ~callback
  BY Zenon DEF IInv, PhaseInv
<1>4. IF queue = <<>> /\ ts # <<>> /\ callback
      THEN pc' = "signal" /\ ret' = label ELSE pc' = label /\ UNCHANGED ret
  BY Zenon DEF Queued
<1>5. pc' = label \/ (pc' = "signal" /\ ret' = label /\ label # "drain")
  BY <1>3, <1>4, Zenon
<1>6. PhaseInv'
  BY <1>1, <1>2, <1>5, Zenon DEF IInv, PhaseInv, Awake
<1>7. WakeInv'
  <2>1. CASE queue = <<>> /\ ts = <<>>
    <3>1. queue' = <<>>
      BY <1>1, <2>1, ConcatEmpty, Zenon DEF IInv, Types
    <3> QED BY <3>1, Zenon DEF WakeInv
  <2>2. CASE queue = <<>> /\ ts # <<>>
    <3>1. callback => pc' = "signal"
      BY <1>4, <2>2, Zenon
    <3>2. ~callback => thr = "none"
      BY Zenon DEF IInv, PhaseInv
    <3> QED BY <1>2, <3>1, <3>2, Zenon DEF WakeInv
  <2>3. CASE queue # <<>>
    BY <1>2, <2>3, Zenon DEF IInv, WakeInv
  <2> QED BY <2>1, <2>2, <2>3, Zenon
<1> QED BY <1>1, <1>5, <1>6, <1>7, Zenon DEF Label

\* Tasks other than a copy and a requeue leave those alone.
LEMMA PlainAdded ==
  ASSUME IInv, NEW ts \in Seq(Task), queue' = queue \o ts,
         \A k \in DOMAIN ts : ts[k].type \notin {"copy", "requeue"},
         Runs("requeue")' <=> Runs("requeue"), Runs("copy")' => Runs("copy"),
         UNCHANGED r, UNCHANGED done,
         Waiting => Waiting', Asking => Asking'
  PROVE  RequeueInv' /\ CopyInv'
<1>1. Types
  BY Zenon DEF IInv
<1>0. /\ \A i \in DOMAIN queue : i \in DOMAIN queue' /\ queue'[i] = queue[i]
      /\ \A i \in DOMAIN queue' : i \in DOMAIN queue \/
           \E k \in DOMAIN ts : i = Len(queue) + k /\ queue'[i] = ts[k]
      /\ \A type : InQueue(type)' <=> InQueue(type) \/ \E k \in DOMAIN ts : ts[k].type = type
  BY Zenon, <1>1, TasksAdded
<1>2. /\ \A i \in DOMAIN queue : i \in DOMAIN queue' /\ queue'[i] = queue[i]
      /\ \A i \in DOMAIN queue' : i \in DOMAIN queue \/ queue'[i].type \notin {"copy", "requeue"}
      /\ InQueue("copy")' <=> InQueue("copy")
      /\ InQueue("requeue")' <=> InQueue("requeue")
  BY <1>0, Zenon
<1>3. RequeueInv'
  BY <1>2 DEF IInv, RequeueInv
<1>4. CopyInv'
  <2> SUFFICES ASSUME r' = "ok" PROVE CopyInv'
    BY Zenon DEF CopyInv
  <2>1. \A i, j \in DOMAIN queue' : queue'[i].type = "copy" /\ queue'[j].type = "requeue" => i < j
    BY <1>2 DEF IInv, CopyInv
  <2> QED BY <1>2, <2>1, Zenon DEF IInv, CopyInv
<1> QED BY <1>3, <1>4, Zenon

\* A journal task added last covers all that is taken; other tasks change
\* nothing.
LEMMA JournalAdded ==
  ASSUME IInv, NEW ts \in Seq(Task), queue' = queue \o ts,
         \/ taken' = taken /\ \A k \in DOMAIN ts : ts[k].type # "journal"
         \/ /\ 1 \in DOMAIN ts /\ ts[1].type = "journal" /\ ts[1].upto = taken'
            /\ \A k \in DOMAIN ts : ts[k].type = "journal" => k = 1,
         \A t \in Thread : running'[t].type = "journal" => running'[t] = running[t],
         Runs("journal")' <=> Runs("journal"),
         UNCHANGED <<r, error, written>>
  PROVE  JournalInv'
<1> SUFFICES ASSUME r = "ok", ~error PROVE JournalInv'
  BY Zenon DEF JournalInv
<1>1. Types /\ JournalInv
  BY Zenon DEF IInv
<1>2. /\ \A i \in DOMAIN queue : i \in DOMAIN queue' /\ queue'[i] = queue[i]
      /\ \A i \in DOMAIN queue' : i \in DOMAIN queue \/
           \E k \in DOMAIN ts : i = Len(queue) + k /\ queue'[i] = ts[k]
      /\ \A k \in DOMAIN ts :
           Len(queue) + k \in DOMAIN queue' /\ queue'[Len(queue) + k] = ts[k]
      /\ \A type : InQueue(type)' <=> InQueue(type) \/ \E k \in DOMAIN ts : ts[k].type = type
  BY Zenon, <1>1, TasksAdded
<1>3. CASE taken' = taken /\ \A k \in DOMAIN ts : ts[k].type # "journal"
  <2>1. InQueue("journal")' <=> InQueue("journal")
    BY <1>2, <1>3, Zenon
  <2>2. \A i \in DOMAIN queue' : queue'[i].type = "journal" => i \in DOMAIN queue
    BY <1>2, <1>3
  <2>3. \A i \in DOMAIN queue' :
         /\ queue'[i].type = "journal"
         /\ \A j \in DOMAIN queue' : queue'[j].type = "journal" => j <= i
         => queue'[i].upto = taken'
    BY <1>1, <1>2, <1>3, <2>2 DEF JournalInv
  <2> QED BY <1>1, <1>3, <2>1, <2>3, Zenon DEF JournalInv
<1>4. CASE /\ 1 \in DOMAIN ts /\ ts[1].type = "journal" /\ ts[1].upto = taken'
           /\ \A k \in DOMAIN ts : ts[k].type = "journal" => k = 1
  <2>1. InQueue("journal")'
    BY <1>2, <1>4, Zenon
  <2>2. /\ Len(queue) + 1 \in DOMAIN queue' /\ queue'[Len(queue) + 1].type = "journal"
        /\ queue'[Len(queue) + 1].upto = taken'
    BY <1>2, <1>4, Zenon
  <2>3. Len(queue) \in Nat /\ DOMAIN queue = 1 .. Len(queue)
    BY <1>1 DEF Types
  <2>4. \A i \in DOMAIN queue' : queue'[i].type = "journal" => i = Len(queue) + 1 \/ i \in DOMAIN queue
    <3> SUFFICES ASSUME NEW i \in DOMAIN queue', queue'[i].type = "journal"
                 PROVE  i = Len(queue) + 1 \/ i \in DOMAIN queue
      BY Zenon
    <3>1. CASE \E k \in DOMAIN ts : i = Len(queue) + k /\ queue'[i] = ts[k]
      BY <1>4, <3>1, Zenon
    <3> QED BY <1>2, <3>1, Zenon
  <2>5. \A i \in DOMAIN queue' :
         /\ queue'[i].type = "journal"
         /\ \A j \in DOMAIN queue' : queue'[j].type = "journal" => j <= i
         => i = Len(queue) + 1
    <3> SUFFICES ASSUME NEW i \in DOMAIN queue', queue'[i].type = "journal",
                        \A j \in DOMAIN queue' : queue'[j].type = "journal" => j <= i
                 PROVE  i = Len(queue) + 1
      BY Zenon
    <3>1. Len(queue) + 1 <= i
      BY <2>2, Zenon
    <3>2. i = Len(queue) + 1 \/ i \in DOMAIN queue
      BY <2>4, Zenon
    <3> QED BY <2>3, <3>1, <3>2
  <2> QED BY <2>1, <2>2, <2>5, Zenon DEF JournalInv
<1> QED BY <1>3, <1>4, Zenon

\* The tasks of a flusher: at most one journal task, which comes first, and a
\* flush last.
LEMMA FlusherFacts ==
  ASSUME Types, NEW min, NEW ondisk \in BOOLEAN
  PROVE  LET ts == FlusherTasks(min, ondisk)
             up == FlusherTakes(min, ondisk)
         IN  /\ ts \in Seq(Task) /\ up \in Nat
             /\ \A k \in DOMAIN ts : ts[k].type \in {"journal", "flush"}
             /\ \/ up = taken /\ \A k \in DOMAIN ts : ts[k].type # "journal"
                \/ /\ 1 \in DOMAIN ts /\ ts[1].type = "journal" /\ ts[1].upto = up
                   /\ \A k \in DOMAIN ts : ts[k].type = "journal" => k = 1
             /\ ondisk =>
                  /\ up = appended
                  /\ \E k \in DOMAIN ts : /\ ts[k].type = "flush"
                                          /\ \A j \in DOMAIN ts : ts[j].type = "journal" => j < k
<1> DEFINE J == [type |-> "journal", upto |-> appended]
           F == T("flush")
           A == IF appended = taken THEN <<>> ELSE <<J>>
           B == IF ondisk THEN <<F>> ELSE <<>>
           ts == FlusherTasks(min, ondisk)
           up == FlusherTakes(min, ondisk)
<1> SUFFICES /\ ts \in Seq(Task) /\ up \in Nat
             /\ \A k \in DOMAIN ts : ts[k].type \in {"journal", "flush"}
             /\ \/ up = taken /\ \A k \in DOMAIN ts : ts[k].type # "journal"
                \/ /\ 1 \in DOMAIN ts /\ ts[1].type = "journal" /\ ts[1].upto = up
                   /\ \A k \in DOMAIN ts : ts[k].type = "journal" => k = 1
             /\ ondisk =>
                  /\ up = appended
                  /\ \E k \in DOMAIN ts : /\ ts[k].type = "flush"
                                          /\ \A j \in DOMAIN ts : ts[j].type = "journal" => j < k
  BY Zenon
<1>1. /\ J \in Task /\ J.type = "journal" /\ J.upto = appended
      /\ F \in Task /\ F.type = "flush"
      /\ appended \in Nat /\ taken \in Nat
  BY Zenon DEF Types, Task, T
<1>2. /\ ts = IF appended - taken <= min /\ ~ondisk THEN <<>> ELSE A \o B
      /\ up = IF appended - taken <= min /\ ~ondisk THEN taken ELSE appended
  BY Zenon DEF FlusherTasks, FlusherTakes
<1>3. A \in Seq(Task) /\ B \in Seq(Task)
  BY <1>1
<1>4. /\ A \o B \in Seq(Task) /\ Len(A \o B) = Len(A) + Len(B)
      /\ \A i \in 1 .. Len(A) + Len(B) :
           (A \o B)[i] = IF i <= Len(A) THEN A[i] ELSE B[i - Len(A)]
  BY <1>3, ConcatType
<1> HIDE DEF J, F, ts, up
<1>5. CASE appended - taken <= min /\ ~ondisk
  BY <1>1, <1>2, <1>5
<1>6. CASE ~(appended - taken <= min /\ ~ondisk) /\ appended = taken /\ ondisk
  <2>1. Len(A) = 0 /\ Len(B) = 1 /\ B[1] = F
    BY <1>6, Zenon
  <2>2. DOMAIN ts = {1} /\ ts[1] = F
    BY <1>2, <1>4, <1>6, <2>1
  <2> QED BY <1>1, <1>2, <1>4, <1>6, <2>2
<1>7. CASE ~(appended - taken <= min /\ ~ondisk) /\ appended = taken /\ ~ondisk
  <2>1. Len(A) = 0 /\ Len(B) = 0
    BY <1>7, Zenon
  <2>2. DOMAIN ts = {}
    BY <1>2, <1>4, <1>7, <2>1
  <2> QED BY <1>1, <1>2, <1>4, <1>7, <2>2, Zenon
<1>8. CASE ~(appended - taken <= min /\ ~ondisk) /\ appended # taken /\ ondisk
  <2>1. Len(A) = 1 /\ A[1] = J /\ Len(B) = 1 /\ B[1] = F
    BY <1>8, Zenon
  <2>2. DOMAIN ts = {1, 2} /\ ts[1] = J /\ ts[2] = F
    BY <1>2, <1>4, <1>8, <2>1
  <2> QED BY <1>1, <1>2, <1>4, <1>8, <2>2
<1>9. CASE ~(appended - taken <= min /\ ~ondisk) /\ appended # taken /\ ~ondisk
  <2>1. Len(A) = 1 /\ A[1] = J /\ Len(B) = 0
    BY <1>9, Zenon
  <2>2. DOMAIN ts = {1} /\ ts[1] = J
    BY <1>2, <1>4, <1>9, <2>1
  <2> QED BY <1>1, <1>2, <1>4, <1>9, <2>2, Zenon
<1> QED BY <1>5, <1>6, <1>7, <1>8, <1>9, Zenon

\* Nothing is asked of the journal while commands run.
LEMMA DurableAside ==
  ASSUME super', pc' \notin {"drain", "status", "exit"}
  PROVE  DurableInv'
BY Zenon DEF DurableInv

\* cyanfs_super_flush_new_journal.
LEMMA InvFlushNewJournal ==
  ASSUME IInv, FlushNewJournal
  PROVE  IInv'
<1>1. super /\ pc = "journal"
  BY Zenon DEF FlushNewJournal, IInv, PhaseInv
<1>2. CASE Goto("next") /\ UNCHANGED <<tasks, taken>>
  <2>1. UNCHANGED <<super, thread, tasks, done, error, journal, dirty>>
    BY <1>2, Zenon DEF FlushNewJournal, ctx, journal
  <2> QED BY <1>1, <1>2, <2>1, InvRefused, Zenon
<1>3. ASSUME NEW ondisk \in BOOLEAN, Queued(FlusherTasks(Inflight, ondisk), "next"),
             taken' = FlusherTakes(Inflight, ondisk)
      PROVE  IInv'
  <2> DEFINE ts == FlusherTasks(Inflight, ondisk)
  <2>1. /\ ts \in Seq(Task) /\ taken' \in Nat
        /\ \A k \in DOMAIN ts : ts[k].type \in {"journal", "flush"}
        /\ \/ taken' = taken /\ \A k \in DOMAIN ts : ts[k].type # "journal"
           \/ /\ 1 \in DOMAIN ts /\ ts[1].type = "journal" /\ ts[1].upto = taken'
              /\ \A k \in DOMAIN ts : ts[k].type = "journal" => k = 1
    BY ZenonT(60), <1>3, FlusherFacts DEF IInv
  <2>2. Queued(ts, "next")
    BY <1>3, Zenon
  <2> HIDE DEF ts
  <2>3. UNCHANGED <<super, thread, done, error, appended, written, durable, dirty>>
    BY Zenon DEF FlushNewJournal, ctx
  <2>4. /\ queue' = queue \o ts /\ queue' \in Seq(Task) /\ UNCHANGED <<running, r>>
        /\ pc' \in Label
        /\ pc' = "next" \/ (pc' = "signal" /\ ret' = "next")
        /\ PhaseInv' /\ WakeInv'
    BY <1>1, <2>1, <2>2, <2>3, QueuedControl, Zenon
  <2>5. Types'
    BY <2>1, <2>3, <2>4 DEF IInv, Types, thread
  <2>6. \A type : Runs(type)' <=> Runs(type)
    BY <2>4, Zenon DEF Runs
  <2>7. ~Waiting /\ ~Asking
    BY <1>1, Zenon DEF Waiting, Asking
  <2>8. RequeueInv' /\ CopyInv'
    <3>1. \A k \in DOMAIN ts : ts[k].type \notin {"copy", "requeue"}
      BY <2>1, Zenon
    <3>2. UNCHANGED r /\ UNCHANGED done
      BY <2>3, <2>4, Zenon
    <3> QED BY <2>1, <2>4, <2>6, <2>7, <3>1, <3>2, PlainAdded, Zenon
  <2>9. JournalInv'
    <3>1. UNCHANGED <<r, error, written>>
      BY <2>3, <2>4, Zenon
    <3>2. \A t \in Thread : running'[t].type = "journal" => running'[t] = running[t]
      BY <2>4, Zenon
    <3> QED BY <2>1, <2>4, <2>6, <3>1, <3>2, JournalAdded, Zenon
  <2>10. DurableInv'
    BY <1>1, <2>3, <2>4, DurableAside, Zenon
  <2> QED BY <2>4, <2>5, <2>8, <2>9, <2>10, Zenon DEF IInv
<1> QED BY Zenon, <1>2, <1>3 DEF FlushNewJournal

\* One task added: where it is.
LEMMA OneAdded ==
  ASSUME Types, NEW x \in Task, queue' = queue \o <<x>>
  PROVE  /\ <<x>> \in Seq(Task)
         /\ \A k \in DOMAIN <<x>> : k = 1 /\ <<x>>[k] = x
         /\ Len(queue) + 1 \in DOMAIN queue' /\ queue'[Len(queue) + 1] = x
         /\ \A i \in DOMAIN queue : i \in DOMAIN queue' /\ queue'[i] = queue[i] /\ i < Len(queue) + 1
         /\ \A i \in DOMAIN queue' : i \in DOMAIN queue \/ i = Len(queue) + 1
         /\ \A type : InQueue(type)' <=> InQueue(type) \/ x.type = type
<1> DEFINE ts == <<x>>
<1>1. ts \in Seq(Task) /\ DOMAIN ts = {1} /\ ts[1] = x
  OBVIOUS
<1>2. queue' = queue \o ts
  BY Zenon
<1> HIDE DEF ts
<1>3. /\ \A i \in DOMAIN queue : i \in DOMAIN queue' /\ queue'[i] = queue[i]
      /\ \A i \in DOMAIN queue' : i \in DOMAIN queue \/
           \E k \in DOMAIN ts : i = Len(queue) + k /\ queue'[i] = ts[k]
      /\ \A k \in DOMAIN ts :
           Len(queue) + k \in DOMAIN queue' /\ queue'[Len(queue) + k] = ts[k]
      /\ \A type : InQueue(type)' <=> InQueue(type) \/ \E k \in DOMAIN ts : ts[k].type = type
  BY Zenon, <1>1, <1>2, TasksAdded
<1>4. \A i \in DOMAIN queue : i < Len(queue) + 1
  BY DEF Types
<1>5. /\ Len(queue) + 1 \in DOMAIN queue' /\ queue'[Len(queue) + 1] = x
      /\ \A i \in DOMAIN queue' : i \in DOMAIN queue \/ i = Len(queue) + 1
      /\ \A type : InQueue(type)' <=> InQueue(type) \/ x.type = type
  BY <1>1, <1>3, Zenon
<1> QED BY <1>1, <1>3, <1>4, <1>5, Zenon DEF ts

\* One task of a command queued: what follows for every kind of task.
LEMMA QueuedOne ==
  ASSUME IInv, super, NEW label \in {"next", "requeue", "wait"}, pc \in {"run", "requeue"},
         NEW x \in Task, x.type # "journal", Queued(<<x>>, label),
         UNCHANGED <<super, thread, error, journal, dirty>>, done' \in BOOLEAN
  PROVE  /\ queue' = queue \o <<x>>
         /\ Types' /\ PhaseInv' /\ WakeInv' /\ JournalInv' /\ DurableInv'
         /\ pc' = label \/ (pc' = "signal" /\ ret' = label)
         /\ UNCHANGED r /\ \A type : Runs(type)' <=> Runs(type)
<1> DEFINE ts == <<x>>
<1>1. ts \in Seq(Task) /\ DOMAIN ts = {1} /\ ts[1] = x /\ Queued(ts, label)
  OBVIOUS
<1>2. queue' = queue \o <<x>>
  BY Zenon DEF Queued
<1> HIDE DEF ts
<1>3. /\ queue' = queue \o ts /\ queue' \in Seq(Task) /\ UNCHANGED <<running, r>>
      /\ pc' \in Label
      /\ pc' = label \/ (pc' = "signal" /\ ret' = label)
      /\ PhaseInv' /\ WakeInv'
  BY <1>1, QueuedControl, Zenon
<1>4. Types'
  BY <1>3 DEF IInv, Types, thread, journal
<1>5. \A type : Runs(type)' <=> Runs(type)
  BY <1>3, Zenon DEF Runs
<1>6. JournalInv'
  <2>1. taken' = taken /\ \A k \in DOMAIN ts : ts[k].type # "journal"
    BY <1>1, Zenon DEF journal
  <2>2. UNCHANGED <<r, error, written>>
    BY <1>3, Zenon DEF journal
  <2>3. \A t \in Thread : running'[t].type = "journal" => running'[t] = running[t]
    BY <1>3, Zenon
  <2> QED BY <1>1, <1>3, <1>5, <2>1, <2>2, <2>3, JournalAdded, Zenon
<1>7. DurableInv'
  BY <1>3, DurableAside, Zenon
<1> QED BY <1>2, <1>3, <1>4, <1>5, <1>6, <1>7, Zenon

\* cyanfs_write on a shared extent queues the copy.
LEMMA InvRunCow ==
  ASSUME IInv, RunCow
  PROVE  IInv'
<1>1. super /\ pc = "run"
  BY Zenon DEF RunCow, IInv, PhaseInv
<1>2. UNCHANGED <<super, thread, done, error, journal, dirty>>
  BY Zenon DEF RunCow, ctx
<1>3. CASE Fail("next") /\ UNCHANGED <<tasks, broken>>
  BY <1>1, <1>2, <1>3, InvRefused, Zenon
<1>4. CASE Queued(<<T("copy")>>, "requeue")
  <2>1. T("copy") \in Task /\ T("copy").type = "copy" /\ done' \in BOOLEAN
    BY <1>2, TaskFacts, Zenon DEF IInv, Types
  <2>2. /\ queue' = queue \o <<T("copy")>>
        /\ Types' /\ PhaseInv' /\ WakeInv' /\ JournalInv' /\ DurableInv'
        /\ pc' = "requeue" \/ (pc' = "signal" /\ ret' = "requeue")
        /\ UNCHANGED r /\ \A type : Runs(type)' <=> Runs(type)
    BY <1>1, <1>2, <1>4, <2>1, QueuedOne, Zenon
  <2>3. /\ \A i \in DOMAIN queue' : i \in DOMAIN queue \/ i = Len(queue) + 1
        /\ InQueue("requeue")' <=> InQueue("requeue")
    BY <2>1, <2>2, OneAdded, Zenon DEF IInv
  <2>4. ~Waiting /\ Asking'
    BY <1>1, <2>2, Zenon DEF Waiting, Asking
  <2>5. ~InQueue("requeue") /\ ~Runs("requeue")
    BY <2>4, Zenon DEF IInv, RequeueInv
  <2>6. RequeueInv'
    BY <2>2, <2>3, <2>5, Zenon DEF RequeueInv, InQueue
  <2>7. CopyInv'
    BY <2>2, <2>3, <2>4, <2>5, Zenon DEF CopyInv, InQueue
  <2> QED BY <2>2, <2>6, <2>7, Zenon DEF IInv
<1> QED BY Zenon, <1>3, <1>4 DEF RunCow

\* wait_requeue queues the requeue behind the copy.
LEMMA InvRequeue ==
  ASSUME IInv, Requeue
  PROVE  IInv'
<1>1. super /\ pc = "requeue"
  BY Zenon DEF Requeue, IInv, PhaseInv
<1>2. UNCHANGED <<super, thread, error, journal, dirty>>
  BY Zenon DEF Requeue
<1>3. CASE Fail("next") /\ UNCHANGED <<tasks, done>>
  BY <1>1, <1>2, <1>3, InvRefused, Zenon
<1>4. CASE done' = FALSE /\ Queued(<<T("requeue")>>, "wait")
  <2>1. T("requeue") \in Task /\ T("requeue").type = "requeue"
    BY TaskFacts, Zenon
  <2>2. /\ queue' = queue \o <<T("requeue")>>
        /\ Types' /\ PhaseInv' /\ WakeInv' /\ JournalInv' /\ DurableInv'
        /\ pc' = "wait" \/ (pc' = "signal" /\ ret' = "wait")
        /\ UNCHANGED r /\ \A type : Runs(type)' <=> Runs(type)
    BY <1>1, <1>2, <1>4, <2>1, QueuedOne, Zenon
  <2>3. /\ Len(queue) + 1 \in DOMAIN queue' /\ queue'[Len(queue) + 1] = T("requeue")
        /\ \A i \in DOMAIN queue : i \in DOMAIN queue' /\ queue'[i] = queue[i] /\ i < Len(queue) + 1
        /\ \A i \in DOMAIN queue' : i \in DOMAIN queue \/ i = Len(queue) + 1
        /\ InQueue("requeue")'
    BY <2>1, <2>2, OneAdded, Zenon DEF IInv
  <2>4. ~Waiting /\ Waiting' /\ ~done'
    BY <1>1, <1>4, <2>2, Zenon DEF Waiting
  <2>5. ~InQueue("requeue") /\ ~Runs("requeue")
    BY <2>4, Zenon DEF IInv, RequeueInv
  <2>6. \A i \in DOMAIN queue' : queue'[i].type = "requeue" => i = Len(queue) + 1
    BY <2>3, <2>5, Zenon DEF InQueue
  <2>7. RequeueInv'
    BY <2>2, <2>4, <2>5, <2>6, Zenon DEF RequeueInv
  <2>8. CopyInv'
    <3>1. \A i, j \in DOMAIN queue' : queue'[i].type = "copy" /\ queue'[j].type = "requeue" => i < j
      BY <2>1, <2>3, <2>6, Zenon
    <3> QED BY <2>2, <2>3, <2>4, <2>5, <3>1, Zenon DEF CopyInv
  <2> QED BY <2>2, <2>7, <2>8, Zenon DEF IInv
<1> QED BY Zenon, <1>3, <1>4 DEF Requeue

\* cyanfs_super_compact.
LEMMA InvRunCompact ==
  ASSUME IInv, RunCompact
  PROVE  IInv'
<1>1. super /\ pc = "run"
  BY Zenon DEF RunCompact, IInv, PhaseInv
<1>2. UNCHANGED <<super, thread, done, error, journal, dirty>>
  BY Zenon DEF RunCompact, ctx
<1>3. CASE Fail("next") /\ UNCHANGED <<tasks, compacting>>
  BY <1>1, <1>2, <1>3, InvRefused, Zenon
<1>4. CASE Queued(<<T("compact")>>, "next")
  <2>1. T("compact") \in Task /\ T("compact").type = "compact" /\ done' \in BOOLEAN
    BY <1>2, TaskFacts, Zenon DEF IInv, Types
  <2>2. /\ queue' = queue \o <<T("compact")>>
        /\ Types' /\ PhaseInv' /\ WakeInv' /\ JournalInv' /\ DurableInv'
        /\ UNCHANGED r /\ \A type : Runs(type)' <=> Runs(type)
    BY <1>1, <1>2, <1>4, <2>1, QueuedOne, Zenon
  <2>3. /\ <<T("compact")>> \in Seq(Task)
        /\ \A k \in DOMAIN <<T("compact")>> : <<T("compact")>>[k].type \notin {"copy", "requeue"}
    BY <2>1, <2>2, OneAdded, Zenon DEF IInv
  <2>4. ~Waiting /\ ~Asking
    BY <1>1, Zenon DEF Waiting, Asking
  <2>5. RequeueInv' /\ CopyInv'
    BY <1>2, <2>2, <2>3, <2>4, PlainAdded, Zenon
  <2> QED BY <2>2, <2>5, Zenon DEF IInv
<1> QED BY Zenon, <1>3, <1>4 DEF RunCompact

\* closefs asks for everything to be flushed to the disk.
LEMMA InvSuperFlush ==
  ASSUME IInv, SuperFlush
  PROVE  IInv'
<1>1. super /\ pc = "flush"
  BY Zenon DEF SuperFlush, IInv, PhaseInv
<1>2. UNCHANGED <<super, thread, done, error, appended, written, durable, dirty>>
  BY Zenon DEF SuperFlush, ctx
<1>3. CASE Fail("drain") /\ UNCHANGED <<tasks, taken>>
  BY <1>1, <1>2, <1>3, InvRefused, Zenon DEF journal
<1>4. CASE Queued(FlusherTasks(0, TRUE), "drain") /\ taken' = FlusherTakes(0, TRUE)
  <2> DEFINE ts == FlusherTasks(0, TRUE)
  <2>1. /\ ts \in Seq(Task) /\ taken' \in Nat
        /\ \A k \in DOMAIN ts : ts[k].type \in {"journal", "flush"}
        /\ \/ taken' = taken /\ \A k \in DOMAIN ts : ts[k].type # "journal"
           \/ /\ 1 \in DOMAIN ts /\ ts[1].type = "journal" /\ ts[1].upto = taken'
              /\ \A k \in DOMAIN ts : ts[k].type = "journal" => k = 1
        /\ taken' = appended
        /\ \E k \in DOMAIN ts : /\ ts[k].type = "flush"
                                /\ \A j \in DOMAIN ts : ts[j].type = "journal" => j < k
    BY Zenon, <1>4, FlusherFacts DEF IInv
  <2>2. Queued(ts, "drain")
    BY <1>4, Zenon
  <2> HIDE DEF ts
  <2>3. /\ queue' = queue \o ts /\ queue' \in Seq(Task) /\ UNCHANGED <<running, r>>
        /\ pc' \in Label /\ pc' = "drain"
        /\ PhaseInv' /\ WakeInv'
    BY <1>1, <1>2, <2>1, <2>2, QueuedControl, Zenon
  <2>4. Types'
    BY <1>2, <2>1, <2>3 DEF IInv, Types, thread
  <2>5. \A type : Runs(type)' <=> Runs(type)
    BY <2>3, Zenon DEF Runs
  <2>6. ~Waiting /\ ~Asking
    BY <1>1, Zenon DEF Waiting, Asking
  <2>7. RequeueInv' /\ CopyInv'
    <3>1. \A k \in DOMAIN ts : ts[k].type \notin {"copy", "requeue"}
      BY <2>1, Zenon
    <3>2. UNCHANGED r /\ UNCHANGED done
      BY <1>2, <2>3, Zenon
    <3> QED BY <2>1, <2>3, <2>5, <2>6, <3>1, <3>2, PlainAdded, Zenon
  <2>8. JournalInv'
    <3>1. UNCHANGED <<r, error, written>>
      BY <1>2, <2>3, Zenon
    <3>2. \A t \in Thread : running'[t].type = "journal" => running'[t] = running[t]
      BY <2>3, Zenon
    <3> QED BY <2>1, <2>3, <2>5, <3>1, <3>2, JournalAdded, Zenon
  <2>9. FlushPending'
    <3>1. Types /\ Len(queue) \in Nat /\ DOMAIN queue = 1 .. Len(queue)
      BY DEF IInv, Types
    <3>2. PICK k \in DOMAIN ts : /\ ts[k].type = "flush"
                                 /\ \A j \in DOMAIN ts : ts[j].type = "journal" => j < k
      BY <2>1, Zenon
    <3>3. DOMAIN ts \subseteq Nat \ {0}
      BY <2>1
    <3>4. /\ \A i \in DOMAIN queue : i \in DOMAIN queue' /\ queue'[i] = queue[i]
          /\ \A i \in DOMAIN queue' : i \in DOMAIN queue \/
               \E j \in DOMAIN ts : i = Len(queue) + j /\ queue'[i] = ts[j]
          /\ Len(queue) + k \in DOMAIN queue' /\ queue'[Len(queue) + k] = ts[k]
      BY Zenon, <2>1, <2>3, <3>1, TasksAdded
    <3>5. \A i \in DOMAIN queue' : queue'[i].type = "journal" => i < Len(queue) + k
      BY <3>1, <3>2, <3>3, <3>4
    <3> QED BY <3>2, <3>4, <3>5, Zenon DEF FlushPending
  <2>10. DurableInv'
    BY <1>1, <1>2, <2>1, <2>3, <2>9, Zenon DEF DurableInv
  <2> QED BY <2>3, <2>4, <2>7, <2>8, <2>10, Zenon DEF IInv
<1> QED BY Zenon, <1>3, <1>4 DEF SuperFlush

-----------------------------------------------------------------------------
(* The end, and the executor.                                              *)

\* Nothing is queued or runs where nobody has anything to do.
LEMMA IdleFacts ==
  ASSUME Idle
  PROVE  \A type : type # "none" => ~InQueue(type) /\ ~Runs(type)
<1>1. DOMAIN queue = {} /\ \A t \in Thread : running[t].type = "none"
  BY TaskFacts DEF Idle, Thread
<1> QED BY <1>1, Zenon DEF InQueue, Runs

\* cyanfs_super_status, cyanfs_super_close.
LEMMA InvClose ==
  ASSUME IInv, Close
  PROVE  IInv'
<1>1. pc = "status" /\ Idle /\ thr = "none" /\ ~callback
  BY Zenon DEF Close, IInv, PhaseInv
<1>2. /\ super' = FALSE /\ error' = FALSE /\ pc' \in {"sync", "next"}
      /\ r' \in {r, "err"} /\ (error => r' = "err")
      /\ UNCHANGED <<op, ret>> /\ UNCHANGED <<thread, tasks, done, journal, dirty>>
  BY Zenon DEF Close, Goto, Fail, ctx
<1>3. UNCHANGED <<queue, running, callback, thr, new_task, terminated, appended, taken, written, durable>>
  BY <1>2, Zenon DEF thread, tasks, journal
<1>4. Idle'
  BY <1>1, <1>3, Zenon DEF Idle
<1>5. Types'
  BY <1>2, <1>3, ZenonT(60) DEF IInv, Types, Label
<1>6. PhaseInv'
  BY <1>1, <1>2, <1>3, <1>4, Zenon DEF PhaseInv, Idle
<1>7. WakeInv'
  BY <1>1, <1>3, Zenon DEF WakeInv
<1>8. \A type : type # "none" =>
        ~InQueue(type) /\ ~Runs(type) /\ ~InQueue(type)' /\ ~Runs(type)'
  BY <1>1, <1>3, IdleFacts, Zenon DEF InQueue, Runs
<1>9. RequeueInv' /\ CopyInv'
  BY <1>8, Zenon DEF RequeueInv, CopyInv, InQueue
<1>10. r' = "ok" => /\ r = "ok" /\ ~error /\ written = taken
                    /\ taken = appended /\ FlushPending
  BY <1>1, <1>2, <1>8, Zenon DEF IInv, Types, JournalInv, DurableInv
<1>11. JournalInv'
  BY <1>3, <1>8, <1>10, Zenon DEF JournalInv, InQueue, Runs
<1>12. FlushPending => durable = appended
  BY <1>8, Zenon DEF FlushPending, InQueue
<1>13. DurableInv'
  BY <1>2, <1>3, <1>10, <1>12, Zenon DEF DurableInv
<1> QED BY <1>5, <1>6, <1>7, <1>9, <1>11, <1>13, Zenon DEF IInv

\* main: fsync and exit.
LEMMA InvSync ==
  ASSUME IInv, Sync
  PROVE  IInv'
<1>1. pc = "sync" /\ ~super /\ Idle /\ thr = "none" /\ ~callback /\ ~error
  BY Zenon DEF Sync, IInv, PhaseInv
<1>2. /\ pc' = "exit" /\ UNCHANGED <<super, error, op, ret>>
      /\ UNCHANGED <<queue, running, callback, thr, new_task, terminated, done>>
      /\ UNCHANGED <<appended, taken, written>>
      /\ \/ r' = r /\ dirty' = FALSE /\ durable' = written
         \/ r' = "err" /\ dirty' = dirty /\ durable' = durable
  BY Zenon DEF Sync, Goto, Fail, ctx, thread, tasks
<1>3. Idle'
  BY <1>1, <1>2, Zenon DEF Idle
<1>4. Types'
  <2>1. CASE r' = r /\ dirty' = FALSE /\ durable' = written
    BY <1>2, <2>1, ZenonT(60) DEF IInv, Types, Label
  <2>2. CASE r' = "err" /\ dirty' = dirty /\ durable' = durable
    BY <1>2, <2>2 DEF IInv, Types, Label
  <2> QED BY <1>2, <2>1, <2>2, Zenon
<1>5. PhaseInv'
  BY <1>1, <1>2, <1>3, Zenon DEF PhaseInv, Idle
<1>6. WakeInv'
  BY <1>1, <1>2, Zenon DEF WakeInv
<1>7. \A type : type # "none" =>
        ~InQueue(type) /\ ~Runs(type) /\ ~InQueue(type)' /\ ~Runs(type)'
  BY <1>1, <1>2, IdleFacts, Zenon DEF InQueue, Runs
<1>8. RequeueInv' /\ CopyInv'
  BY <1>7 DEF RequeueInv, CopyInv, InQueue
<1>9. r' = "ok" => /\ r = "ok" /\ written = taken /\ written = appended
                   /\ durable' = written /\ dirty' = FALSE
  BY <1>1, <1>2, Zenon DEF IInv, Types, DurableInv
<1>10. JournalInv'
  BY <1>2, <1>7, <1>9, Zenon DEF JournalInv, InQueue, Runs
<1>11. DurableInv'
  BY <1>2, <1>9, Zenon DEF DurableInv
<1> QED BY <1>4, <1>5, <1>6, <1>8, <1>10, <1>11 DEF IInv

\* A thread that runs tasks: closefs, or the executor while commands run.
LEMMA LoopFacts ==
  ASSUME PhaseInv, NEW t \in Thread, Looping(t)
  PROVE  /\ super /\ pc \notin {"spawn", "status", "open", "sync", "exit"}
         /\ thr \notin {"check", "sleep"}
         /\ t = "main" => pc = "drain"
         /\ t = "thread" => thr = "loop" /\ pc \notin {"flush", "drain", "status"}
BY Zenon DEF PhaseInv, Looping, Thread

\* do_loop takes a task.
LEMMA InvGetTask ==
  ASSUME IInv, NEW t \in Thread, GetTask(t)
  PROVE  IInv'
<1>1. Types /\ PhaseInv /\ Looping(t)
  BY Zenon DEF IInv, GetTask
<1>2. UNCHANGED <<main, super, thread, ctx, error, journal, dirty>>
  BY Zenon DEF GetTask
<1>3. UNCHANGED <<pc, ret, op, r, super, callback, thr, new_task, terminated, done, error, appended,
                  taken, written, durable, dirty>>
  BY <1>2, Zenon DEF main, thread, ctx, journal
<1>4. /\ super /\ pc \notin {"spawn", "status", "open", "sync", "exit"}
      /\ thr \notin {"check", "sleep"}
      /\ t = "main" => pc = "drain"
      /\ t = "thread" => thr = "loop" /\ pc \notin {"flush", "drain", "status"}
  BY <1>1, LoopFacts, Zenon
<1>5. /\ queue' \in Seq(Task) /\ running' \in [Thread -> Task]
      /\ queue # <<>> /\ 1 \in DOMAIN queue /\ running'[t] = queue[1]
      /\ \A u \in Thread \ {t} : running'[u] = NoTask
      /\ \A i \in DOMAIN queue' : i \in Nat /\ i + 1 \in DOMAIN queue /\ queue'[i] = queue[i + 1]
      /\ \A i \in DOMAIN queue : i = 1 \/ (i - 1 \in DOMAIN queue' /\ queue'[i - 1] = queue[i])
      /\ \A type : InQueue(type) <=> InQueue(type)' \/ queue[1].type = type
      /\ \A type : type # "none" => ~Runs(type)
      /\ \A type : type # "none" => (Runs(type)' <=> queue[1].type = type)
  BY <1>1, TaskTaken, Zenon
<1>6. DOMAIN queue' \subseteq Nat \ {0} /\ DOMAIN queue \subseteq Nat \ {0}
  BY <1>1, <1>5 DEF Types
<1>7. Types'
  BY <1>3, <1>5 DEF IInv, Types
<1>8. PhaseInv'
  <2>1. pc # "callback"
    BY <1>5, Zenon DEF IInv, PhaseInv, Idle
  <2>2. /\ running'["main"] # NoTask => pc = "drain"
        /\ running'["thread"] # NoTask => thr = "loop"
    BY <1>4, <1>5, Zenon DEF Thread
  <2> QED BY <1>3, <1>4, <2>1, <2>2, Zenon DEF IInv, PhaseInv, Awake
<1>9. WakeInv'
  BY <1>3, <1>4, Zenon DEF WakeInv
<1>10. RequeueInv'
  <2>1. InQueue("requeue")' \/ Runs("requeue")' => Waiting /\ ~done
    BY <1>5, Zenon DEF IInv, RequeueInv
  <2>2. Runs("requeue")' => ~InQueue("requeue")'
    <3> SUFFICES ASSUME Runs("requeue")', NEW i \in DOMAIN queue', queue'[i].type = "requeue"
                 PROVE  FALSE
      BY Zenon DEF InQueue
    <3>1. queue[1].type = "requeue" /\ i + 1 \in DOMAIN queue /\ queue[i + 1].type = "requeue"
      BY <1>5, Zenon
    <3>2. i + 1 = 1
      BY <1>5, <3>1, Zenon DEF IInv, RequeueInv
    <3> QED BY <1>6, <3>2
  <2>3. \A i, j \in DOMAIN queue' : queue'[i].type = "requeue" /\ queue'[j].type = "requeue" => i = j
    <3> SUFFICES ASSUME NEW i \in DOMAIN queue', NEW j \in DOMAIN queue',
                        queue'[i].type = "requeue", queue'[j].type = "requeue"
                 PROVE  i = j
      BY Zenon
    <3>1. i + 1 = j + 1
      BY <1>5 DEF IInv, RequeueInv
    <3> QED BY <1>6, <3>1
  <2>4. Waiting' = Waiting
    BY <1>3, Zenon DEF Waiting
  <2> QED BY <1>3, <2>1, <2>2, <2>3, <2>4, Zenon DEF RequeueInv
<1>11. CopyInv'
  <2> SUFFICES ASSUME r = "ok" PROVE CopyInv'
    BY <1>3, Zenon DEF CopyInv
  <2>1. InQueue("copy")' \/ Runs("copy")' =>
          Asking \/ (Waiting /\ (InQueue("requeue")' \/ Runs("requeue")'))
    BY <1>5, Zenon DEF IInv, CopyInv
  <2>2. Runs("requeue")' => ~InQueue("copy")'
    <3> SUFFICES ASSUME Runs("requeue")', NEW i \in DOMAIN queue', queue'[i].type = "copy"
                 PROVE  FALSE
      BY Zenon DEF InQueue
    <3>1. queue[1].type = "requeue" /\ i + 1 \in DOMAIN queue /\ queue[i + 1].type = "copy"
      BY <1>5, Zenon
    <3>2. i + 1 < 1
      BY <1>5, <3>1, Zenon DEF IInv, CopyInv
    <3> QED BY <1>6, <3>2
  <2>3. \A i, j \in DOMAIN queue' : queue'[i].type = "copy" /\ queue'[j].type = "requeue" => i < j
    <3> SUFFICES ASSUME NEW i \in DOMAIN queue', NEW j \in DOMAIN queue',
                        queue'[i].type = "copy", queue'[j].type = "requeue"
                 PROVE  i < j
      BY Zenon
    <3>1. i + 1 < j + 1
      BY <1>5 DEF IInv, CopyInv
    <3> QED BY <1>6, <3>1
  <2>4. Waiting' = Waiting /\ Asking' = Asking
    BY <1>3, Zenon DEF Waiting, Asking
  <2> QED BY <2>1, <2>2, <2>3, <2>4, Zenon DEF CopyInv
<1>12. JournalInv'
  <2> SUFFICES ASSUME r = "ok", ~error PROVE JournalInv'
    BY <1>3, Zenon DEF JournalInv
  <2>1. \A i \in DOMAIN queue' :
         /\ queue'[i].type = "journal"
         /\ \A j \in DOMAIN queue' : queue'[j].type = "journal" => j <= i
         => queue'[i].upto = taken
    <3> SUFFICES ASSUME NEW i \in DOMAIN queue', queue'[i].type = "journal",
                        \A j \in DOMAIN queue' : queue'[j].type = "journal" => j <= i
                 PROVE  queue'[i].upto = taken
      BY Zenon
    <3>1. i \in Nat /\ i + 1 \in DOMAIN queue /\ queue'[i] = queue[i + 1]
      BY <1>5, Zenon
    <3>2. ASSUME NEW j \in DOMAIN queue, queue[j].type = "journal"
          PROVE  j <= i + 1
      <4>1. CASE j = 1
        BY <3>1, <4>1
      <4>2. CASE j - 1 \in DOMAIN queue' /\ queue'[j - 1] = queue[j]
        BY <1>6, <3>1, <3>2, <4>2
      <4> QED BY <1>5, <4>1, <4>2, Zenon
    <3> QED BY <3>1, <3>2, Zenon DEF IInv, JournalInv
  <2>2. ASSUME NEW u \in Thread, running'[u].type = "journal", ~InQueue("journal")'
        PROVE  running'[u].upto = taken
    <3>1. u = t /\ queue[1].type = "journal" /\ running'[u] = queue[1]
      BY <1>5, <2>2, TaskFacts, ZenonT(60)
    <3>2. \A j \in DOMAIN queue : queue[j].type = "journal" => j <= 1
      BY <1>5, <1>6, <2>2 DEF InQueue
    <3> QED BY <1>5, <3>1, <3>2 DEF IInv, JournalInv
  <2>3. ~InQueue("journal")' /\ ~Runs("journal")' => written = taken
    BY <1>5, Zenon DEF IInv, JournalInv
  <2> QED BY <1>3, <2>1, <2>2, <2>3, Zenon DEF JournalInv
<1>13. DurableInv'
  <2>1. FlushPending => FlushPending'
    <3>1. ASSUME NEW i \in DOMAIN queue, queue[i].type = "flush",
                 \A j \in DOMAIN queue : queue[j].type = "journal" => j < i
          PROVE  FlushPending'
      <4>1. CASE i = 1
        <5>1. ~InQueue("journal")'
          BY <1>5, <1>6, <3>1, <4>1 DEF InQueue
        <5>2. Runs("flush")'
          BY <1>5, <3>1, <4>1, Zenon
        <5> QED BY <5>1, <5>2, Zenon DEF FlushPending
      <4>2. CASE i - 1 \in DOMAIN queue' /\ queue'[i - 1] = queue[i]
        <5>1. \A j \in DOMAIN queue' : queue'[j].type = "journal" => j < i - 1
          BY <1>5, <1>6, <3>1
        <5> QED BY <3>1, <4>2, <5>1, Zenon DEF FlushPending
      <4> QED BY <1>5, <4>1, <4>2, Zenon
    <3>2. durable = appended /\ ~InQueue("journal") /\ ~Runs("journal") => FlushPending'
      BY <1>3, <1>5, Zenon DEF FlushPending
    <3> QED BY <1>5, <3>1, <3>2, Zenon DEF FlushPending
  <2> QED BY <1>3, <2>1, Zenon DEF IInv, DurableInv
<1> QED BY <1>7, <1>8, <1>9, <1>10, <1>11, <1>12, <1>13, Zenon DEF IInv

\* Where the threads are, at the end of a task.
LEMMA EndControl ==
  ASSUME IInv, NEW t \in Thread, NEW type \in {"journal", "flush", "copy", "requeue", "compact"},
         Completes(t, type), UNCHANGED <<main, super, callback, thr, terminated>>
  PROVE  /\ super /\ pc \notin {"status", "exit"}
         /\ UNCHANGED <<pc, ret, op, r, super>>
         /\ Waiting' = Waiting /\ Asking' = Asking
         /\ PhaseInv' /\ WakeInv'
<1>1. Types /\ PhaseInv
  BY Zenon DEF IInv
<1>2. /\ Looping(t) /\ running[t] \in Task /\ running[t].type = type
      /\ \A u \in Thread : running'[u] = NoTask
  BY <1>1, TaskEnds, Zenon
<1>3. /\ super /\ pc \notin {"spawn", "status", "open", "sync", "exit"}
      /\ thr \notin {"check", "sleep"}
  BY <1>1, <1>2, LoopFacts, Zenon
<1>4. UNCHANGED <<pc, ret, op, r>>
  BY Zenon DEF main
<1>5. pc # "callback"
  <2>1. running[t] # NoTask
    BY <1>2, TaskFacts, Zenon
  <2> QED BY <1>1, <2>1, Zenon DEF PhaseInv, Idle, Thread
<1>6. PhaseInv'
  BY <1>1, <1>2, <1>3, <1>4, <1>5, Zenon DEF PhaseInv, Awake, Thread
<1>7. WakeInv'
  BY <1>3, Zenon DEF WakeInv
<1> QED BY <1>3, <1>4, <1>6, <1>7, Zenon DEF Waiting, Asking

\* The end of a task keeps what is known of copies and requeues.
LEMMA EndTasks ==
  ASSUME IInv, NEW t \in Thread, NEW type \in {"journal", "flush", "copy", "requeue", "compact"},
         Completes(t, type), UNCHANGED <<main, super, callback, thr, terminated>>,
         UNCHANGED queue, type = "requeue" \/ UNCHANGED done
  PROVE  RequeueInv' /\ CopyInv'
<1>1. /\ UNCHANGED <<pc, ret, op, r, super>>
      /\ Waiting' = Waiting /\ Asking' = Asking
  BY EndControl, Zenon
<1>2. \A ty : ty # "none" => (Runs(ty) <=> ty = type) /\ ~Runs(ty)'
  BY TaskEnds, Zenon DEF IInv
<1>3. \A ty : InQueue(ty)' <=> InQueue(ty)
  BY Zenon DEF InQueue
<1>4. RequeueInv'
  <2>1. InQueue("requeue") => Waiting /\ ~done /\ type # "requeue"
    BY <1>2, Zenon DEF IInv, RequeueInv
  <2> QED BY <1>1, <1>2, <1>3, <2>1 DEF IInv, RequeueInv
<1>5. CopyInv'
  <2> SUFFICES ASSUME r = "ok" PROVE CopyInv'
    BY <1>1, Zenon DEF CopyInv
  <2>1. InQueue("copy") => type # "requeue" /\ (Asking \/ (Waiting /\ InQueue("requeue")))
    BY <1>2, Zenon DEF IInv, CopyInv
  <2> QED BY <1>1, <1>2, <1>3, <2>1, Zenon DEF IInv, CopyInv
<1> QED BY <1>4, <1>5, Zenon

\* The journal writer.
LEMMA InvRunJournal ==
  ASSUME IInv, NEW t \in Thread, RunJournal(t)
  PROVE  IInv'
<1>1. Completes(t, "journal") /\ Types /\ PhaseInv
  BY Zenon DEF RunJournal, IInv
<1>2. /\ UNCHANGED <<main, super, callback, thr, terminated>> /\ UNCHANGED <<queue, done, new_task>>
      /\ UNCHANGED <<appended, taken, durable, dirty>>
      /\ \/ ~error /\ written' = running[t].upto /\ error' = error
         \/ error' = TRUE /\ written' = written
  BY Zenon DEF RunJournal, thread, ctx
<1>3. /\ super /\ pc \notin {"status", "exit"} /\ UNCHANGED <<pc, ret, op, r, super>>
      /\ PhaseInv' /\ WakeInv'
  BY <1>1, <1>2, EndControl, Zenon
<1>4. RequeueInv' /\ CopyInv'
  BY <1>1, <1>2, EndTasks, Zenon
<1>5. /\ running[t] \in Task /\ running[t].type = "journal" /\ running' \in [Thread -> Task]
      /\ \A u \in Thread : running'[u] = NoTask
      /\ \A ty : ty # "none" => (Runs(ty) <=> ty = "journal") /\ ~Runs(ty)'
  BY <1>1, TaskEnds, Zenon
<1>6. \A ty : InQueue(ty)' <=> InQueue(ty)
  BY <1>2, Zenon DEF InQueue
<1>7. running[t].upto \in Nat
  BY <1>5, TaskFacts, Zenon
<1>8. Types'
  <2>1. written' \in Nat /\ error' \in BOOLEAN
    BY <1>1, <1>2, <1>7, Zenon DEF Types
  <2> QED BY <1>1, <1>2, <1>3, <1>5, <2>1 DEF Types
<1>9. CASE ~error /\ written' = running[t].upto /\ error' = error
  <2>1. JournalInv'
    <3> SUFFICES ASSUME r = "ok" PROVE JournalInv'
      BY <1>3, Zenon DEF JournalInv
    <3>1. ~InQueue("journal") => written' = taken
      BY <1>5, <1>9, Zenon DEF IInv, JournalInv
    <3>2. \A u \in Thread : running'[u].type # "journal"
      BY <1>5, TaskFacts, Zenon
    <3> QED BY <1>2, <1>3, <1>6, <1>9, <3>1, <3>2, Zenon DEF IInv, JournalInv
  <2>2. FlushPending => FlushPending'
    BY <1>2, <1>5 DEF FlushPending
  <2>3. DurableInv'
    BY <1>2, <1>3, <1>9, <2>2 DEF IInv, DurableInv
  <2> QED BY <1>3, <1>4, <1>8, <2>1, <2>3, Zenon DEF IInv
<1>10. CASE error' = TRUE
  <2>1. JournalInv' /\ DurableInv'
    BY <1>3, <1>10, Zenon DEF JournalInv, DurableInv
  <2> QED BY <1>3, <1>4, <1>8, <2>1, Zenon DEF IInv
<1> QED BY <1>2, <1>9, <1>10, Zenon

\* fsync by the flusher.
LEMMA InvRunFlush ==
  ASSUME IInv, NEW t \in Thread, RunFlush(t)
  PROVE  IInv'
<1>1. Completes(t, "flush") /\ Types /\ PhaseInv
  BY Zenon DEF RunFlush, IInv
<1>2. /\ UNCHANGED <<main, super, callback, thr, terminated>> /\ UNCHANGED <<queue, done, new_task>>
      /\ UNCHANGED <<appended, taken, written>>
      /\ \/ ~error /\ durable' = written /\ dirty' = FALSE /\ error' = error
         \/ error' = TRUE /\ durable' = durable /\ dirty' = dirty
  BY Zenon DEF RunFlush, thread, ctx
<1>3. /\ super /\ pc \notin {"status", "exit"} /\ UNCHANGED <<pc, ret, op, r, super>>
      /\ PhaseInv' /\ WakeInv'
  BY <1>1, <1>2, EndControl, Zenon
<1>4. RequeueInv' /\ CopyInv'
  BY <1>1, <1>2, EndTasks, Zenon
<1>5. /\ running' \in [Thread -> Task]
      /\ \A u \in Thread : running'[u] = NoTask
      /\ \A ty : ty # "none" => (Runs(ty) <=> ty = "flush") /\ ~Runs(ty)'
  BY <1>1, TaskEnds, Zenon
<1>6. \A ty : InQueue(ty)' <=> InQueue(ty)
  BY <1>2, Zenon DEF InQueue
<1>7. Types'
  <2>1. durable' \in Nat
    BY <1>1, <1>2, Zenon DEF Types
  <2>2. error' \in BOOLEAN /\ dirty' \in BOOLEAN
    BY Zenon, <1>1, <1>2 DEF Types
  <2> QED BY <1>1, <1>2, <1>3, <1>5, <2>1, <2>2, Zenon DEF Types
<1>8. CASE ~error /\ durable' = written /\ dirty' = FALSE /\ error' = error
  <2>1. JournalInv'
    <3>1. \A u \in Thread : running'[u].type # "journal"
      BY <1>5, TaskFacts, Zenon
    <3>2. ~Runs("journal") /\ ~Runs("journal")'
      BY <1>5
    <3> QED BY <1>2, <1>3, <1>6, <1>8, <3>1, <3>2, Zenon DEF IInv, JournalInv
  <2>2. ASSUME r = "ok", taken = appended, FlushPending PROVE FlushPending'
    <3>1. CASE ~InQueue("journal")
      <4>1. written = taken
        <5>1. ~Runs("journal")
          BY <1>5
        <5> QED BY <1>8, <2>2, <3>1, <5>1, Zenon DEF IInv, JournalInv
      <4> QED BY <1>2, <1>5, <1>6, <1>8, <2>2, <3>1, <4>1, Zenon DEF FlushPending
    <3>2. CASE InQueue("journal")
      BY <1>2, <2>2, <3>2, Zenon DEF FlushPending
    <3> QED BY <3>1, <3>2, Zenon
  <2>3. DurableInv'
    BY <1>2, <1>3, <1>8, <2>2, SMTT(60) DEF IInv, DurableInv
  <2> QED BY <1>3, <1>4, <1>7, <2>1, <2>3, Zenon DEF IInv
<1>9. CASE error' = TRUE
  <2>1. JournalInv' /\ DurableInv'
    BY <1>3, <1>9, Zenon DEF JournalInv, DurableInv
  <2> QED BY <1>3, <1>4, <1>7, <2>1, Zenon DEF IInv
<1> QED BY <1>2, <1>8, <1>9, Zenon

\* A task that neither writes nor flushes ends: a copy that failed, a requeue,
\* a compaction.
LEMMA InvEnds ==
  ASSUME IInv, NEW t \in Thread, CopyFails(t) \/ RequeueDone(t) \/ RunCompaction(t)
  PROVE  IInv'
<1>1. PICK type \in {"copy", "requeue", "compact"} :
        Completes(t, type) /\ (type = "requeue" \/ UNCHANGED done)
  BY Zenon DEF CopyFails, RequeueDone, RunCompaction, ctx
<1>2. /\ UNCHANGED <<main, super, callback, thr, terminated>> /\ UNCHANGED <<queue, new_task>>
      /\ UNCHANGED <<appended, taken, written, durable, dirty>>
  BY Zenon DEF CopyFails, RequeueDone, RunCompaction, thread, journal
<1>3. done' \in BOOLEAN /\ error' \in BOOLEAN /\ (~error' => ~error)
  <2>1. done \in BOOLEAN /\ error \in BOOLEAN
    BY Zenon DEF IInv, Types
  <2> QED BY Zenon, <2>1 DEF CopyFails, RequeueDone, RunCompaction, ctx
<1>4. Types /\ PhaseInv
  BY Zenon DEF IInv
<1>5. /\ super /\ pc \notin {"status", "exit"} /\ UNCHANGED <<pc, ret, op, r, super>>
      /\ PhaseInv' /\ WakeInv'
  BY <1>1, <1>2, EndControl, Zenon
<1>6. RequeueInv' /\ CopyInv'
  BY <1>1, <1>2, EndTasks, Zenon
<1>7. /\ running' \in [Thread -> Task]
      /\ \A u \in Thread : running'[u] = NoTask
      /\ \A ty : ty # "none" => (Runs(ty) <=> ty = type) /\ ~Runs(ty)'
  BY <1>1, <1>4, TaskEnds, Zenon
<1>8. \A ty : InQueue(ty)' <=> InQueue(ty)
  BY <1>2, Zenon DEF InQueue
<1>9. Types'
  BY <1>2, <1>3, <1>4, <1>5, <1>7 DEF Types
<1>10. JournalInv'
  <2>1. \A u \in Thread : running'[u].type # "journal"
    BY <1>7, TaskFacts, Zenon
  <2>2. ~Runs("journal") /\ ~Runs("journal")'
    BY <1>7
  <2> QED BY <1>2, <1>3, <1>5, <1>8, <2>1, <2>2, Zenon DEF IInv, JournalInv
<1>11. DurableInv'
  <2>1. FlushPending => FlushPending'
    BY <1>2, <1>7, <1>8 DEF FlushPending
  <2> QED BY <1>2, <1>3, <1>5, <2>1 DEF IInv, DurableInv
<1> QED BY <1>5, <1>6, <1>9, <1>10, <1>11, Zenon DEF IInv

\* A copy that succeeded appends its entry and may start a flusher.
LEMMA InvCopySucceeds ==
  ASSUME IInv, NEW t \in Thread, CopySucceeds(t)
  PROVE  IInv'
<1>1. Completes(t, "copy") /\ Types /\ PhaseInv
  BY Zenon DEF CopySucceeds, IInv
<1>2. /\ appended' = appended + 1 /\ dirty' = TRUE
      /\ UNCHANGED <<main, super, done, error, written, durable>>
  BY Zenon DEF CopySucceeds, ctx
<1>3. /\ Looping(t) /\ running' \in [Thread -> Task]
      /\ \A u \in Thread : running'[u] = NoTask
      /\ \A ty : ty # "none" => (Runs(ty) <=> ty = "copy") /\ ~Runs(ty)'
  BY <1>1, TaskEnds, Zenon
<1>4. \A u \in Thread : running'[u].type # "journal"
  BY <1>3, TaskFacts, Zenon
<1>5. r = "ok" => pc \notin {"drain", "status", "exit"}
  BY <1>3, Zenon DEF IInv, CopyInv, Asking, Waiting
<1>6. CASE UNCHANGED <<queue, taken, thread>>
  <2>1. UNCHANGED <<main, super, callback, thr, terminated>> /\ UNCHANGED <<queue, done, new_task>>
    BY <1>2, <1>6, Zenon DEF thread
  <2>2. /\ super /\ UNCHANGED <<pc, ret, op, r, super>> /\ PhaseInv' /\ WakeInv'
    BY <1>1, <2>1, EndControl, Zenon
  <2>3. RequeueInv' /\ CopyInv'
    BY <1>1, <2>1, EndTasks, Zenon
  <2>4. Types'
    BY <1>1, <1>2, <1>3, <1>6, <2>1, <2>2 DEF Types
  <2>5. JournalInv'
    <3>1. \A ty : InQueue(ty)' <=> InQueue(ty)
      BY <1>6, Zenon DEF InQueue
    <3>2. ~Runs("journal") /\ ~Runs("journal")'
      BY <1>3
    <3> QED BY <1>2, <1>4, <1>6, <2>2, <3>1, <3>2, Zenon DEF IInv, JournalInv
  <2>6. DurableInv'
    BY <1>5, <2>2, Zenon DEF DurableInv
  <2> QED BY <2>2, <2>3, <2>4, <2>5, <2>6, Zenon DEF IInv
<1>7. ASSUME NEW ondisk \in BOOLEAN,
             queue' = queue \o (<<[type |-> "journal", upto |-> appended + 1]>>
                                \o (IF ondisk THEN <<T("flush")>> ELSE <<>>)),
             taken' = appended + 1,
             IF queue = <<>> /\ callback THEN Notify ELSE UNCHANGED thread
      PROVE  IInv'
  <2> DEFINE J == [type |-> "journal", upto |-> appended + 1]
             A == <<J>>
             B == IF ondisk THEN <<T("flush")>> ELSE <<>>
             ts == A \o B
  <2>1. J \in Task /\ J.type = "journal" /\ J.upto = appended + 1 /\ appended + 1 \in Nat
    BY <1>1 DEF Types, Task
  <2> HIDE DEF J
  <2>2. A \in Seq(Task) /\ Len(A) = 1 /\ A[1] = J
    BY <2>1
  <2>13. T("flush") \in Task /\ T("flush").type = "flush"
    BY TaskFacts, Zenon
  <2>14. B \in Seq(Task) /\ Len(B) \in Nat /\ DOMAIN B = 1 .. Len(B)
    <3>1. CASE ondisk
      BY <2>13, <3>1
    <3>2. CASE ~ondisk
      BY <3>2
    <3> QED BY <3>1, <3>2, Zenon
  <2>15. \A k \in DOMAIN B : B[k].type = "flush"
    BY <2>13
  <2>3. queue' = queue \o ts
    BY <1>7, Zenon DEF J
  <2> HIDE DEF A, B
  <2>16. /\ A \o B \in Seq(Task) /\ Len(A \o B) = Len(A) + Len(B)
        /\ \A i \in 1 .. Len(A) + Len(B) : (A \o B)[i] = IF i <= Len(A) THEN A[i] ELSE B[i - Len(A)]
    BY <2>2, <2>14, ConcatType, Zenon
  <2>4. /\ ts \in Seq(Task) /\ DOMAIN ts = 1 .. 1 + Len(B)
        /\ \A i \in 1 .. 1 + Len(B) : ts[i] = IF i <= 1 THEN A[i] ELSE B[i - 1]
    BY <2>2, <2>16
  <2> HIDE DEF ts
  <2>5. /\ 1 \in DOMAIN ts /\ ts[1].type = "journal" /\ ts[1].upto = taken'
        /\ \A k \in DOMAIN ts : k = 1 \/ ts[k].type = "flush"
    <3>1. 1 \in DOMAIN ts /\ ts[1] = J
      BY <2>2, <2>4, <2>14
    <3>2. ASSUME NEW k \in DOMAIN ts, k # 1 PROVE ts[k].type = "flush"
      <4>1. k - 1 \in DOMAIN B /\ ts[k] = B[k - 1]
        BY <2>4, <2>14, <3>2
      <4> QED BY <2>15, <4>1, Zenon
    <3> QED BY <1>7, <2>1, <3>1, <3>2, Zenon
  <2>6. UNCHANGED <<main, super, callback, thr, terminated>> /\ new_task' \in BOOLEAN
    <3>1. thr # "sleep"
      BY <1>1, <1>3, LoopFacts, Zenon
    <3> QED BY <1>1, <1>2, <1>7, <3>1, Zenon DEF Notify, thread, Types
  <2>7. /\ super /\ UNCHANGED <<pc, ret, op, r, super>> /\ PhaseInv' /\ WakeInv'
        /\ Waiting' = Waiting /\ Asking' = Asking
    BY <1>1, <2>6, EndControl, Zenon
  <2>8. queue' \in Seq(Task)
    BY <1>1, <2>3, <2>4, TasksAdded, Zenon
  <2>9. Types'
    BY <1>1, <1>2, <1>3, <1>7, <2>1, <2>6, <2>7, <2>8, Zenon DEF Types
  <2>10. RequeueInv' /\ CopyInv'
    <3>1. \A k \in DOMAIN ts : ts[k].type \notin {"copy", "requeue"}
      BY <2>5, Zenon
    <3>2. UNCHANGED r /\ UNCHANGED done
      BY <1>2, <2>7, Zenon
    <3> QED BY <1>3, <2>3, <2>4, <2>7, <3>1, <3>2, PlainAdded, Zenon
  <2>11. JournalInv'
    <3>1. UNCHANGED <<r, error, written>>
      BY <1>2, <2>7, Zenon
    <3>2. \A k \in DOMAIN ts : ts[k].type = "journal" => k = 1
      BY <2>5, Zenon
    <3> QED BY <1>3, <1>4, <2>3, <2>4, <2>5, <3>1, <3>2, JournalAdded, Zenon
  <2>12. DurableInv'
    BY <1>5, <2>7, Zenon DEF DurableInv
  <2> QED BY <2>7, <2>9, <2>10, <2>11, <2>12, Zenon DEF IInv
<1> QED BY Zenon, <1>6, <1>7 DEF CopySucceeds

-----------------------------------------------------------------------------
(* The theorems.                                                           *)

\* Init.
LEMMA InvInit == Init => IInv
<1> SUFFICES ASSUME Init PROVE IInv
  BY Zenon
<1>1. /\ pc = "next" /\ r = "ok" /\ thr = "none" /\ queue = <<>>
      /\ super = FALSE /\ callback = FALSE /\ new_task = FALSE /\ terminated = FALSE
      /\ done = FALSE /\ error = FALSE /\ dirty = FALSE
      /\ appended = 0 /\ taken = 0 /\ written = 0 /\ durable = 0
      /\ running = [t \in Thread |-> NoTask]
  BY Zenon DEF Init
<1>2. Idle /\ running \in [Thread -> Task]
  BY <1>1, TaskFacts, Zenon DEF Idle, Thread
<1>3. queue \in Seq(Task)
  BY <1>1
<1>4. Types
  BY <1>1, <1>2, <1>3, Zenon DEF Types, Label
<1>5. PhaseInv /\ WakeInv
  BY <1>1, <1>2, Zenon DEF PhaseInv, WakeInv, Idle
<1>6. \A type : type # "none" => ~InQueue(type) /\ ~Runs(type)
  BY <1>2, IdleFacts, Zenon
<1>7. RequeueInv /\ CopyInv
  BY <1>6, Zenon DEF RequeueInv, CopyInv, InQueue
<1>8. JournalInv /\ DurableInv
  BY <1>1, <1>6, Zenon DEF JournalInv, DurableInv, InQueue, Runs
<1> QED BY <1>4, <1>5, <1>7, <1>8, Zenon DEF IInv

\* Whatever a thread does to a task.
LEMMA InvRunTask ==
  ASSUME IInv, NEW t \in Thread, RunTask(t)
  PROVE  IInv'
BY Zenon, InvGetTask, InvRunJournal, InvRunFlush, InvCopySucceeds, InvEnds DEF RunTask

\* A step that changes nothing.
LEMMA InvStutter ==
  ASSUME IInv, UNCHANGED vars
  PROVE  IInv'
<1>1. /\ UNCHANGED <<main, super, thread, tasks, ctx, compacting, error, journal, dirty>>
      /\ UNCHANGED <<pc, ret, op, r, callback, thr, new_task, terminated, queue, running, done,
                     appended, taken, written, durable>>
  BY Zenon DEF vars, main, thread, tasks, ctx, journal
<1>2. Types'
  BY <1>1 DEF IInv, Types
<1>3. PhaseInv'
  BY <1>1, TasksSame, Zenon DEF IInv, PhaseInv, Awake
<1>4. WakeInv'
  BY <1>1, Zenon DEF IInv, WakeInv
<1>5. /\ r' = "ok" => r = "ok" /\ (~error' => ~error)
      /\ Asking /\ r' = "ok" => Asking'
      /\ Waiting /\ ~done => Waiting' /\ ~done'
      /\ r' = "ok" /\ pc' \in {"drain", "status"} => pc \in {"drain", "status"} /\ UNCHANGED appended
      /\ r' = "ok" /\ ~super' => ~super /\ UNCHANGED appended
      /\ r' = "ok" /\ pc' = "exit" => ~dirty'
  BY <1>1, Zenon DEF IInv, DurableInv, Asking, Waiting
<1> QED BY <1>1, <1>2, <1>3, <1>4, <1>5, InvControl, Zenon

\* Every step of either thread.
LEMMA InvNext == IInv /\ [Next]_vars => IInv'
<1> SUFFICES ASSUME IInv, [Next]_vars PROVE IInv'
  BY Zenon
<1>1. "main" \in Thread /\ "thread" \in Thread
  BY Zenon DEF Thread
<1>2. CASE MainStep
  BY Zenon, <1>1, <1>2, InvNextCommand, InvEndOfInput, InvOpenSuper, InvSpawn, InvSetCallback,
     InvNewTask, InvRunPlain, InvRunMetadata, InvRunWrite, InvFlushNewJournal, InvRunCow,
     InvRequeue, InvWaitRequeue, InvWriteAgain, InvRunCompact, InvTerminate, InvJoin,
     InvSuperFlush, InvRunTask, InvDrained, InvClose, InvSync DEF MainStep
<1>3. CASE ThreadStep
  BY Zenon, <1>1, <1>3, InvRunTask, InvLoopEnds, InvCheck DEF ThreadStep
<1>4. CASE SpuriousWakeup
  BY <1>4, InvSpuriousWakeup, Zenon
<1>5. CASE Ended \/ UNCHANGED vars
  BY Zenon, <1>5, InvStutter DEF Ended
<1> QED BY Zenon, <1>2, <1>3, <1>4, <1>5 DEF Next

\* The inductive invariant holds in every batch, however long (main, openfs,
\* closefs, thread_handler).
THEOREM Invariance == Spec => []IInv
BY InvInit, InvNext, PTL DEF Spec

\* closefs and the executor never run tasks together, and a closed file system
\* has no task and no thread left.
THEOREM Serial == Spec => []SerialExecution
<1>1. IInv => SerialExecution
  BY Zenon DEF IInv, PhaseInv, SerialExecution, Idle, Thread
<1> QED BY <1>1, Invariance, PTL

\* The executor never sleeps over a task that nobody will announce
\* (do_new_task, thread_handler).
THEOREM WakesUp == Spec => []NoLostWakeup
<1>1. IInv => NoLostWakeup
  BY Zenon DEF IInv, WakeInv, NoLostWakeup
<1> QED BY <1>1, Invariance, PTL

\* The requeue task never outlives the stack frame it points to
\* (wait_requeue, requeue_done).
THEOREM ContextSafe == Spec => []ContextAlive
<1>1. IInv => ContextAlive
  BY Zenon DEF IInv, RequeueInv, ContextAlive, InQueue, Runs, Waiting
<1> QED BY <1>1, Invariance, PTL

\* A successful umount, and a successful exit, leave every journal entry of
\* every command durable (closefs, main).
THEOREM DurableOnSuccess == Spec => []SuccessIsDurable
<1>1. IInv => SuccessIsDurable
  BY Zenon DEF IInv, PhaseInv, DurableInv, SuccessIsDurable
<1> QED BY <1>1, Invariance, PTL
=============================================================================
