------------------------- MODULE CyanfsBackend_inv -------------------------
(***************************************************************************)
(* The steps of the executor, and those of its callers that add no task,   *)
(* preserve the inductive invariant of the Linux backend.                  *)
(***************************************************************************)
EXTENDS CyanfsBackend_ind, TLAPS

\* The leaves are for Zenon; those that need arithmetic cite SMTT.
USE ZenonT(60)

-----------------------------------------------------------------------------
(* Arithmetic, with nothing else in sight.                                 *)

\* Counters of entries are compared and never subtracted from below.
LEMMA NatOrder ==
  /\ 0 \in Nat
  /\ \A i \in Nat : i <= i /\ 0 <= i
  /\ \A i, j \in Nat : (i < j \/ j <= i) /\ (i < j => i <= j)
  /\ \A i, j, k \in Nat : i <= j /\ j <= k => i <= k
  /\ \A i, j, k \in Nat : i <= j /\ j - k <= 0 => i <= k
BY SMT

\* A task that ran has put no other at the head of the queue.
LEMMA NoPlaces == 0 \in Nat /\ 1 \in Nat /\ 1 # 0 /\ 1 + 0 = 1 /\ \A j \in 1 .. 0 : FALSE
BY SMT

\* The first places of the queue.
LEMMA FirstPlaces ==
  /\ 0 \in Int /\ 0 \in Nat /\ 1 \in Nat /\ 2 \in Nat
  /\ 0 + 1 = 1 /\ 1 + 1 = 2 /\ 2 + 1 = 3 /\ 1 >= 1
BY SMT

\* A queue that tasks are put in front of is a queue of tasks.
LEMMA TasksJoin == \A v, w \in Seq(Tasks) : v \o w \in Seq(Tasks)
BY SMT

\* A waiter that joins the others changes nothing for them.
LEMMA OthersIn ==
  ASSUME NEW W, NEW V, NEW T, NEW U, NEW a, V = W \/ V = W \cup {a}, U = T
  PROVE  \A b : b # a => (b \in V \cup U <=> b \in W \cup T)
BY SMT

\* A writer puts itself at the head, with a FLUSH in front or without.
LEMMA OneOrTwo ==
  ASSUME NEW d \in {1, 2}
  PROVE  /\ d \in Nat /\ 1 \in Nat /\ 1 # 0 /\ d \in 1 .. d /\ 1 \in 1 .. d /\ d <= d
         /\ \A j \in 1 .. d : j # d => j = 1 /\ d = 2
         /\ d = 1 => 1 + d = 2
         /\ d = 2 => 1 + d = 3
         /\ d = 1 \/ d = 2
BY SMT

-----------------------------------------------------------------------------
(* Tasks and places.                                                       *)

\* What kinds of task there are.
LEMMA TaskFacts ==
  ASSUME NEW x \in Tasks
  PROVE  /\ x.type \in {"encode", "write", "nop", "before", "before_flush", "after",
                        "after_flush", "free", "requeue"}
         /\ x # NoTask
         /\ IsWriter(x) => x.to \in 0 .. MaxAppends /\ x.upto \in 0 .. MaxAppends /\ x.fb \in BOOLEAN
         /\ x.type = "requeue" => x.who \in Handles /\ x = RequeueTask(x.who)
BY SMTT(60) DEF Tasks, NoTask, IsWriter, RequeueTask

\* The tasks that the handlers make.
LEMMA MadeTasks ==
  /\ \A t \in {"before", "before_flush", "after", "after_flush", "free"} :
       Nop(t) \in Tasks /\ Nop(t).type = t
  /\ \A t \in {"encode", "write", "nop"} : \A m, n \in 0 .. MaxAppends : \A fb \in BOOLEAN :
       /\ Writer(t, m, n, fb) \in Tasks /\ Writer(t, m, n, fb).type = t
       /\ Writer(t, m, n, fb).to = m /\ Writer(t, m, n, fb).upto = n
  /\ \A a \in Handles : RequeueTask(a) \in Tasks /\ RequeueTask(a).type = "requeue"
                        /\ RequeueTask(a).who = a
  /\ NoTask.type = "none"
BY SMTT(60) DEF Tasks, Nop, Writer, RequeueTask, NoTask

\* Every place holds a task, but the first may hold none.
LEMMA PlaceFacts ==
  ASSUME ExecType
  PROVE  /\ Len(queue) \in Nat /\ 0 \in Place
         /\ At(0) \in Tasks \cup {NoTask} /\ At(0) = (IF done THEN NoTask ELSE active)
         /\ \A k \in Place : k \in Nat /\ k \in Int /\ k <= Len(queue)
         /\ \A k \in Place : k # 0 => At(k) \in Tasks /\ At(k) = queue[k]
         /\ \A k \in Place : At(k) \in Tasks \cup {NoTask}
BY SMTT(60) DEF ExecType, Place, At

\* The same after a step that keeps the type of the executor's state.
LEMMA PlaceThen ==
  ASSUME ExecType'
  PROVE  /\ Len(queue') \in Nat /\ 0 \in Place'
         /\ \A k \in Place' : k \in Nat /\ k \in Int /\ k <= Len(queue')
         /\ \A k \in Place' : At(k)' \in Tasks \cup {NoTask}
BY SMTT(60) DEF ExecType, Place, At

\* A writer has the number of the last entry of its flusher.
LEMMA WriterFacts ==
  ASSUME NEW x \in Tasks \cup {NoTask}, IsWriter(x)
  PROVE  x \in Tasks /\ x.upto \in Nat /\ x.to \in Nat /\ x.upto <= MaxAppends /\ x.fb \in BOOLEAN
<1>1. x \in Tasks
  BY MadeTasks DEF IsWriter
<1> QED BY SMTT(60), <1>1, TaskFacts, BackendAssumption

\* cyanfs_super_get_task takes the first.
LEMMA MovesGet ==
  ASSUME ExecType, GetTask
  PROVE  /\ At(0) = NoTask /\ Len(queue') = Len(queue) - 1
         /\ \A k \in Place' : k + 1 \in Place /\ At(k)' = At(k + 1)
         /\ \A k \in Place : k # 0 => k - 1 \in Place' /\ At(k - 1)' = At(k)
<1>1. /\ queue \in Seq(Tasks) /\ queue # <<>> /\ queue' = Tail(queue) /\ active' = Head(queue)
      /\ active = NoTask /\ ~done'
  BY DEF ExecType, GetTask
<1>2. At(0) = NoTask
  BY <1>1 DEF At
<1> QED BY SMTT(60), <1>1, <1>2 DEF Place, At

\* A done function returns; it may have put tasks at the head.
LEMMA MovesRun ==
  ASSUME ExecType, NEW w \in Seq(Tasks), queue' = w \o queue, done'
  PROVE  /\ Len(queue') = Len(queue) + Len(w) /\ At(0)' = NoTask
         /\ \A k \in Place : k # 0 => k + Len(w) \in Place' /\ At(k + Len(w))' = At(k)
         /\ \A j \in 1 .. Len(w) : j \in Place' /\ At(j)' = w[j]
         /\ \A k \in Place' : \/ k = 0
                              \/ k \in 1 .. Len(w)
                              \/ k - Len(w) \in Place /\ k - Len(w) # 0 /\ At(k)' = At(k - Len(w))
BY SMTT(60) DEF ExecType, Place, At

-----------------------------------------------------------------------------
(* Entries that are written or have a writer stay so.                      *)

\* Writers move by d places at most, or have written their entries.
Keeps(d) ==
  /\ written <= written'
  /\ \A l \in Place : IsWriter(At(l)) =>
       \/ At(l).upto <= written'
       \/ \E m \in Place' : m <= l + d /\ IsWriter(At(m)') /\ At(l).upto <= At(m)'.upto

\* So what was covered at place k is covered at place k + d.
LEMMA CoverKept ==
  ASSUME Types, Types', NEW d \in Int, Keeps(d), NEW n \in Nat, NEW k \in Int, Covered(n, k)
  PROVE  Covered(n, k + d)'
<1>1. written \in Nat /\ written' \in Nat /\ written <= written'
  BY DEF Types, JournalType, Keeps
<1>2. CASE n <= written
  BY SMTT(60), <1>1, <1>2 DEF Covered
<1>3. ASSUME NEW l \in Place, l < k, IsWriter(At(l)), n <= At(l).upto
      PROVE  Covered(n, k + d)'
  <2>1. l \in Int /\ At(l).upto \in Nat
    BY <1>3, PlaceFacts, WriterFacts DEF Types
  <2>2. CASE At(l).upto <= written'
    BY SMTT(60), <1>1, <1>3, <2>1, <2>2 DEF Covered
  <2>3. ASSUME NEW m \in Place', m <= l + d, IsWriter(At(m)'), At(l).upto <= At(m)'.upto
        PROVE  Covered(n, k + d)'
    <3>2. At(m)'.upto \in Nat /\ m \in Int
      BY <2>3, PlaceThen, WriterFacts DEF Types
    <3>3. m < k + d /\ n <= At(m)'.upto
      BY SMTT(60), <1>3, <2>1, <2>3, <3>2
    <3>4. IsWriter(At(m))'
      BY <2>3 DEF IsWriter
    <3> QED BY <3>3, <3>4 DEF Covered
  <2> QED BY <1>3, <2>2, <2>3 DEF Keeps
<1> QED BY <1>2, <1>3 DEF Covered

-----------------------------------------------------------------------------
(* What a step leaves alone.                                               *)

\* The counters only grow and an error stays.
Monotone ==
  /\ appended <= appended' /\ taken <= taken' /\ written <= written' /\ durable <= durable'
  /\ error => error'

SameCall(b) == op'[b] = op[b] /\ pc'[b] = pc[b] /\ goal'[b] = goal[b]

SameComp(b) == comp'[b] = comp[b] /\ cover'[b] = cover[b]

\* A FLUSH behind the writers of entries 1..n stays there until it has run.
AftersKept == \A n \in Nat : Synced(n) \/ HasAfter(n) => (Synced(n) \/ HasAfter(n))'

\* Requeue tasks move by d places; x is the one that ran.
Back(d, x) ==
  \A m \in Place' : At(m)'.type = "requeue" =>
    m - d \in Place /\ At(m - d) = At(m)' /\ At(m)' # x

\* Every FLUSH moves with the writers ahead of it.
LEMMA AfterMoves ==
  ASSUME Types, Types', NEW d \in Int, error' \/ Keeps(d), error => error', durable <= durable',
         \A k \in Place : IsAfter(At(k)) => k + d \in Place' /\ IsAfter(At(k + d)')
  PROVE  AftersKept
<1> SUFFICES ASSUME NEW n \in Nat, Synced(n) \/ HasAfter(n), ~error'
             PROVE  (Synced(n) \/ HasAfter(n))'
  BY DEF AftersKept, Synced
<1>1. durable \in Nat /\ durable' \in Nat /\ ~error
  BY DEF Types, JournalType
<1>2. CASE Synced(n)
  BY SMTT(60), <1>1, <1>2 DEF Synced
<1>3. ASSUME NEW k \in Place, IsAfter(At(k)), Covered(n, k) PROVE HasAfter(n)'
  <2>1. k \in Int
    BY PlaceFacts DEF Types
  <2>2. Covered(n, k + d)'
    BY <1>3, <2>1, CoverKept
  <2>3. IsAfter(At(k + d))'
    BY <1>3 DEF IsAfter
  <2> QED BY <1>3, <2>2, <2>3 DEF HasAfter
<1> QED BY <1>2, <1>3 DEF HasAfter

\* A requeue task moves with the writers ahead of it.
LEMMA RequeueMoves ==
  ASSUME Types, Types', RequeueInv, NEW d \in Int, error' \/ Keeps(d), error => error',
         NEW x, Back(d, x),
         \A a \in Handles :
           pc[a] \in {"requeue_wake", "wait"} /\ comp[a] = "none" /\ x # RequeueTask(a) =>
             pc'[a] \in {"requeue_wake", "wait"} /\ comp'[a] = "none" /\ goal'[a] = goal[a]
  PROVE  RequeueInv'
<1> SUFFICES ASSUME NEW a \in Handles, NEW m \in Place', At(m)' = RequeueTask(a)
             PROVE  /\ pc'[a] \in {"requeue_wake", "wait"} /\ comp'[a] = "none"
                    /\ error' \/ Covered(goal[a], m)'
                    /\ \A l \in Place' : At(l)' = RequeueTask(a) => l = m
  BY DEF RequeueInv, RequeueTask
<1>1. At(m)'.type = "requeue"
  BY SMTT(60) DEF RequeueTask
<1>2. PICK k \in Place : k = m - d /\ At(k) = RequeueTask(a) /\ x # RequeueTask(a)
  BY <1>1 DEF Back
<1> USE <1>2
<1>3. /\ pc[a] \in {"requeue_wake", "wait"} /\ comp[a] = "none"
      /\ error \/ Covered(goal[a], k)
      /\ \A l \in Place : At(l) = RequeueTask(a) => l = k
  BY DEF RequeueInv
<1>4. pc'[a] \in {"requeue_wake", "wait"} /\ comp'[a] = "none" /\ goal'[a] = goal[a]
  BY <1>3
<1>5. m \in Int /\ k \in Int /\ \A l \in Place' : l \in Int
  BY PlaceFacts, PlaceThen DEF Types
<1>6. k + d = m
  BY SMTT(60), <1>5
<1>7. error' \/ Covered(goal[a], m)'
  <2> SUFFICES ASSUME ~error' PROVE Covered(goal[a], m)'
    OBVIOUS
  <2>1. PICK g \in Nat : g = goal[a]
    BY DEF Types, CallType, Actors
  <2>2. Covered(g, m)'
    BY <1>3, <1>5, <1>6, <2>1, CoverKept
  <2> QED BY <1>4, <2>1, <2>2
<1>8. ASSUME NEW l \in Place', At(l)' = RequeueTask(a) PROVE l = m
  <2>1. l - d \in Place /\ At(l - d) = RequeueTask(a)
    <3>1. At(l)'.type = "requeue"
      BY SMTT(60), <1>8 DEF RequeueTask
    <3> QED BY <1>8, <3>1 DEF Back
  <2>2. l - d = k
    BY <1>3, <2>1
  <2> QED BY SMTT(60), <1>5, <2>2
<1> QED BY <1>4, <1>7, <1>8

\* A call that takes no part in a step.
LEMMA CallKept ==
  ASSUME Types, Types', Monotone, NEW b \in Actors, CallOk(b), SameCall(b), SameComp(b)
  PROVE  CallOk(b)'
<1>1. /\ goal[b] \in Nat /\ cover[b] \in Nat /\ appended \in Nat /\ taken \in Nat
      /\ written \in Nat /\ durable \in Nat
      /\ appended' \in Nat /\ taken' \in Nat /\ written' \in Nat /\ durable' \in Nat
  BY DEF Types, JournalType, CallType
<1>2. /\ goal[b] <= appended => goal[b] <= appended'
      /\ goal[b] <= taken => goal[b] <= taken'
      /\ goal[b] <= written => goal[b] <= written'
      /\ goal[b] <= durable => goal[b] <= durable'
      /\ cover[b] <= written => cover[b] <= written'
  BY SMTT(60), <1>1 DEF Monotone
<1>3. error => error'
  BY DEF Monotone
<1> QED BY <1>2, <1>3 DEF CallOk, SameCall, SameComp

\* The same for a sync or a close.
LEMMA SyncKept ==
  ASSUME Types, Types', Monotone, AftersKept, NEW b \in Actors, SyncOk(b), SameCall(b),
         b \in waiters' \cup took' <=> b \in waiters \cup took,
         b \in took' /\ work' = "complete" => b \in took /\ work = "complete",
         Drained' => Drained
  PROVE  SyncOk(b)'
<1>1. PICK g \in Nat : g = goal[b] /\ g = goal'[b]
  BY DEF SameCall, Types, CallType
<1> USE <1>1
<1>2. Synced(g) => Synced(g)'
  BY SMTT(60) DEF Synced, Monotone, Types, JournalType
<1>3. Synced(g) \/ HasAfter(g) => (Synced(g) \/ HasAfter(g))'
  BY DEF AftersKept
<1>4. Syncing(b)' => Syncing(b)
  BY DEF Syncing, SameCall
<1>5. Syncing(b)' => Synced(g)' \/ HasAfter(g)'
  BY <1>3, <1>4 DEF SyncOk
<1>6. SyncOk(b)!2 /\ SyncOk(b)!3 /\ SyncOk(b)!4 /\ SyncOk(b)!5
  BY DEF SyncOk
<1>7. /\ op'[b] = "sync" /\ pc'[b] \in {"queue", "served"} /\ b \notin waiters' \cup took' => Synced(g)'
      /\ b \in took' /\ work' = "complete" => Synced(g)'
      /\ op'[b] = "close" /\ Drained' => Synced(g)'
      /\ b \in waiters' \cup took' => op'[b] = "sync" /\ pc'[b] \in {"queue", "served"}
  BY <1>2, <1>6 DEF SameCall
<1>8. Synced(goal[b])' = Synced(g)' /\ HasAfter(goal[b])' = HasAfter(g)'
  OBVIOUS
<1> QED BY <1>5, <1>7, <1>8 DEF SyncOk

\* A step that leaves the tasks and what is written alone.
still == <<queue, active, done, written, taken, error>>

\* Such a step keeps what the queue of the executor promises: calls that are on
\* their way, and completions of the device.
LEMMA CalmQueue ==
  ASSUME Types, Types', OrderInv, TakenInv, UNCHANGED still, durable <= durable'
  PROVE  OrderInv' /\ TakenInv' /\ AftersKept /\ Keeps(0) /\ Back(0, NoTask)
<1>1. Place' = Place /\ \A k : At(k)' = At(k)
  BY DEF still, Place, At
<1> USE <1>1
<1>2. \A n, k : Covered(n, k)' = Covered(n, k)
  BY DEF Covered, still, IsWriter
<1>3. Shape'
  BY DEF Shape, OrderInv, PlainFrom, Plain
<1>4. Bounds' /\ Sorted'
  BY DEF Bounds, Sorted, OrderInv, IsWriter, still
<1>5. TakenInv'
  BY <1>2 DEF TakenInv, still
<1>6. written \in Nat /\ \A k \in Place : k \in Int
  BY PlaceFacts DEF Types, JournalType
<1>7. \A k \in Place : k + 0 = k /\ k - 0 = k /\ k <= k
  BY SMTT(60), <1>6
<1>8. ASSUME NEW l \in Place, IsWriter(At(l))
      PROVE  \E m \in Place' : m <= l + 0 /\ IsWriter(At(m)') /\ At(l).upto <= At(m)'.upto
  <2>1. At(l).upto \in Nat
    BY <1>8, PlaceFacts, WriterFacts DEF Types
  <2>2. At(l).upto <= At(l).upto
    BY SMTT(60), <2>1
  <2> QED BY <1>7, <1>8, <2>2
<1>9. Keeps(0)
  <2>1. written <= written'
    BY SMTT(60), <1>6 DEF still
  <2> QED BY <1>8, <2>1 DEF Keeps
<1>10. 0 \in Int /\ (error => error')
  BY SMTT(60) DEF still
<1>11. AftersKept
  BY <1>7, <1>9, <1>10, AfterMoves
<1>12. Back(0, NoTask)
  <2> SUFFICES ASSUME NEW m \in Place', At(m)'.type = "requeue"
               PROVE  m - 0 \in Place /\ At(m - 0) = At(m)' /\ At(m)' # NoTask
    BY DEF Back
  <2>1. "requeue" # "none"
    OBVIOUS
  <2> QED BY <1>7, <2>1, MadeTasks
<1> QED BY <1>3, <1>4, <1>5, <1>9, <1>11, <1>12 DEF OrderInv

-----------------------------------------------------------------------------
(* The places of a call, and the device flush it sends.                    *)

\* Where the actors can be.
LEMMA PlacesFacts ==
  ASSUME NEW a \in Actors, CallType, CallOk(a)
  PROVE  /\ pc[a] = "check" => op[a] \notin {"idle"}
         /\ pc[a] \in {"take", "take_ondisk", "wake"} => op[a] # "idle"
         /\ pc[a] \in Flushing => op[a] \in Flushes
         /\ pc[a] = "put" => op[a] = "release"
         /\ pc[a] \in {"waiter", "served"} => op[a] = "sync"
         /\ pc[a] = "queue" => op[a] \in {"sync", "close"}
         /\ pc[a] = "take" => op[a] \notin {"sync", "close"}
         /\ pc[a] \in {"cancel", "cancelled", "flush_work", "super_close"} => op[a] = "close"
         /\ op[a] = "idle" => pc[a] = "idle"
<1>1. op[a] \in Ops /\ pc[a] \in PlacesOf(op[a])
  BY DEF CallType, CallOk
<1> QED BY <1>1 DEF Ops, PlacesOf, Started, Flushing, Flushes

\* The flush is sent to the device, by the caller or by its requeue callback.
LEMMA SendFacts ==
  ASSUME Types, NEW a \in Actors, CallOk(a), SendFlush(a), error \/ goal[a] <= written
  PROVE  /\ \A b \in Actors : b # a => SameComp(b)
         /\ comp' \in [Actors -> {"none", "fired", "flushing", "ok", "err"}]
         /\ cover' \in [Actors -> Nat]
         /\ cover'[a] <= written
         /\ comp'[a] \in {"err", "flushing"}
         /\ comp'[a] = "flushing" /\ (op[a] = "flush_bio" \/ ~error) => goal[a] <= cover'[a]
<1>1. /\ comp \in [Actors -> {"none", "fired", "flushing", "ok", "err"}]
      /\ cover \in [Actors -> Nat] /\ written \in Nat /\ cover[a] <= written
  BY DEF Types, CallType, JournalType, CallOk
<1>2. CASE op[a] = "flush_bio" /\ error
  <2>1. comp' = [comp EXCEPT ![a] = "err"] /\ UNCHANGED cover
    BY <1>2 DEF SendFlush
  <2> QED BY <1>1, <2>1 DEF SameComp
<1>3. CASE ~(op[a] = "flush_bio" /\ error)
  <2>1. comp' = [comp EXCEPT ![a] = "flushing"] /\ cover' = [cover EXCEPT ![a] = written]
    BY <1>3 DEF SendFlush
  <2> QED BY SMTT(60), <1>1, <1>3, <2>1 DEF SameComp
<1> QED BY <1>2, <1>3

-----------------------------------------------------------------------------
(* The done function of a task returns.                                    *)

\* It has put d tasks at the head of the queue.
Ran(d) ==
  /\ At(0)' = NoTask /\ Len(queue') = Len(queue) + d
  /\ \A k \in Place : k # 0 => k + d \in Place' /\ At(k + d)' = At(k)
  /\ \A k \in Place' : \/ k = 0
                       \/ k \in 1 .. d
                       \/ k - d \in Place /\ k - d # 0 /\ At(k)' = At(k - d)

\* A done function that queues nothing.
LEMMA RanStay ==
  ASSUME ExecType, queue' = queue, done'
  PROVE  Ran(0)
<1>1. Place' = Place /\ At(0)' = NoTask /\ Len(queue) \in Nat
  BY SMTT(60) DEF ExecType, Place, At
<1>2. \A k \in Place : k \in Nat /\ k + 0 = k /\ k - 0 = k
  BY SMTT(60), <1>1 DEF Place
<1>3. \A k \in Place : k # 0 => At(k)' = At(k)
  BY DEF At
<1>4. Len(queue') = Len(queue) + 0
  BY SMTT(60), <1>1
<1> QED BY <1>1, <1>2, <1>3, <1>4 DEF Ran

\* A done function that puts the tasks w at the head of the queue.
LEMMA RanWith ==
  ASSUME ExecType, NEW w \in Seq(Tasks), queue' = w \o queue, done', NEW d \in Nat, d = Len(w)
  PROVE  Ran(d) /\ \A j \in 1 .. d : j \in Place' /\ At(j)' = w[j]
BY MovesRun DEF Ran

\* Writers move with the queue, and the one that ran has written or goes on.
LEMMA RanKeeps ==
  ASSUME Types, Types', NEW d \in Nat, Ran(d), written <= written',
         IsWriter(At(0)) =>
           \/ At(0).upto <= written'
           \/ \E m \in Place' : m <= d /\ IsWriter(At(m)') /\ At(0).upto <= At(m)'.upto
  PROVE  Keeps(d)
<1> SUFFICES ASSUME NEW l \in Place, IsWriter(At(l))
             PROVE  \/ At(l).upto <= written'
                    \/ \E m \in Place' : m <= l + d /\ IsWriter(At(m)') /\ At(l).upto <= At(m)'.upto
  BY DEF Keeps
<1>1. l \in Int /\ At(l).upto \in Nat
  BY PlaceFacts, WriterFacts DEF Types
<1>2. CASE l = 0
  <2>1. 0 + d = d
    BY SMTT(60)
  <2> QED BY <1>2, <2>1
<1>3. CASE l # 0
  <2>1. l + d \in Place' /\ At(l + d)' = At(l)
    BY <1>3 DEF Ran
  <2>2. l + d <= l + d /\ At(l).upto <= At(l).upto
    BY SMTT(60), <1>1
  <2> QED BY <2>1, <2>2
<1> QED BY <1>2, <1>3

\* A FLUSH moves with the queue, has made its entries durable, or goes on.
LEMMA RanAfters ==
  ASSUME Types, Types', NEW d \in Nat, Ran(d), error' \/ Keeps(d), error => error',
         durable <= durable', written <= written',
         \/ error' \/ ~IsAfter(At(0)) \/ written <= durable'
         \/ d \in Place' /\ IsAfter(At(d)')
  PROVE  AftersKept
<1> SUFFICES ASSUME NEW n \in Nat, Synced(n) \/ HasAfter(n), ~error'
             PROVE  (Synced(n) \/ HasAfter(n))'
  BY DEF AftersKept, Synced
<1>1. durable \in Nat /\ durable' \in Nat /\ written \in Nat /\ written' \in Nat /\ ~error
  BY DEF Types, JournalType
<1>2. CASE Synced(n)
  BY SMTT(60), <1>1, <1>2 DEF Synced
<1>3. ASSUME NEW k \in Place, k # 0, IsAfter(At(k)), Covered(n, k) PROVE HasAfter(n)'
  <2>1. k \in Int /\ d \in Int
    BY SMTT(60), PlaceFacts DEF Types
  <2>2. Covered(n, k + d)'
    BY <1>3, <2>1, CoverKept
  <2>3. k + d \in Place' /\ IsAfter(At(k + d))'
    BY <1>3 DEF IsAfter, Ran
  <2> QED BY <2>2, <2>3 DEF HasAfter
<1>4. ASSUME IsAfter(At(0)), Covered(n, 0) PROVE (Synced(n) \/ HasAfter(n))'
  <2>1. n <= written
    <3>1. \A l \in Place : ~(l < 0)
      BY SMTT(60) DEF Place
    <3> QED BY <1>4, <3>1 DEF Covered
  <2>2. CASE written <= durable'
    BY SMTT(60), <1>1, <2>1, <2>2 DEF Synced
  <2>3. CASE d \in Place' /\ IsAfter(At(d)')
    <3>1. n <= written'
      BY SMTT(60), <1>1, <2>1
    <3>2. Covered(n, d)' /\ IsAfter(At(d))'
      BY <2>3, <3>1 DEF Covered, IsAfter
    <3> QED BY <2>3, <3>2 DEF HasAfter
  <2> QED BY <1>4, <2>2, <2>3
<1> QED BY <1>2, <1>3, <1>4 DEF HasAfter

\* The other requeue tasks move with the queue.
LEMMA RanRequeues ==
  ASSUME Types, Types', RequeueInv, NEW d \in Nat, Ran(d), error' \/ Keeps(d), error => error',
         \A j \in 1 .. d : At(j)'.type # "requeue",
         \A a \in Handles :
           pc[a] \in {"requeue_wake", "wait"} /\ comp[a] = "none" /\ At(0) # RequeueTask(a) =>
             pc'[a] \in {"requeue_wake", "wait"} /\ comp'[a] = "none" /\ goal'[a] = goal[a]
  PROVE  RequeueInv'
<1>1. Back(d, At(0))
  <2> SUFFICES ASSUME NEW m \in Place', At(m)'.type = "requeue"
               PROVE  m - d \in Place /\ At(m - d) = At(m)' /\ At(m)' # At(0)
    BY DEF Back
  <2>1. m # 0
    <3>1. "requeue" # "none"
      OBVIOUS
    <3> QED BY <3>1, MadeTasks DEF Ran
  <2>2. m - d \in Place /\ m - d # 0 /\ At(m)' = At(m - d)
    BY <2>1 DEF Ran
  <2> USE <2>2
  <2>3. At(m - d) \in Tasks
    BY PlaceFacts DEF Types
  <2>4. PICK b \in Handles : At(m - d) = RequeueTask(b)
    BY <2>3, TaskFacts
  <2>5. 0 \in Place
    BY PlaceFacts DEF Types
  <2>6. At(0) # RequeueTask(b)
    BY <2>4, <2>5 DEF RequeueInv
  <2> QED BY <2>4, <2>6
<1>2. d \in Int
  BY SMTT(60)
<1>3. PICK x : x = At(0)
  OBVIOUS
<1>4. /\ Back(d, x)
      /\ \A a \in Handles :
           pc[a] \in {"requeue_wake", "wait"} /\ comp[a] = "none" /\ x # RequeueTask(a) =>
             pc'[a] \in {"requeue_wake", "wait"} /\ comp'[a] = "none" /\ goal'[a] = goal[a]
  BY <1>1, <1>3
<1> QED BY <1>2, <1>4, RequeueMoves

\* What was taken stays written or covered.
LEMMA RanTaken ==
  ASSUME Types, Types', TakenInv, NEW d \in Nat, Ran(d), error' \/ Keeps(d), error => error',
         taken' = taken
  PROVE  TakenInv'
<1> SUFFICES ASSUME ~error' PROVE TakenInv'
  BY DEF TakenInv
<1>1. PICK n \in Nat : n = Len(queue)
  BY PlaceFacts DEF Types
<1>2. PICK t \in Nat : t = taken
  BY DEF Types, JournalType
<1>3. Covered(t, n + 1)
  BY <1>1, <1>2 DEF TakenInv
<1>4. n + 1 \in Int /\ d \in Int
  BY SMTT(60), <1>1
<1>5. Covered(t, n + 1 + d)'
  BY <1>3, <1>4, CoverKept
<1>6. Len(queue') + 1 = n + 1 + d
  BY SMTT(60), <1>1 DEF Ran
<1> QED BY <1>2, <1>5, <1>6 DEF TakenInv

\* The tail of the queue stays plain.
LEMMA RanPlain ==
  ASSUME Types, Types', NEW d \in Nat, Ran(d), NEW i \in Nat, i # 0, PlainFrom(i)
  PROVE  PlainFrom(i + d)'
<1> SUFFICES ASSUME NEW k \in Place', k >= i + d PROVE Plain(At(k)')
  BY DEF PlainFrom, Plain
<1>1. k \in Nat
  BY PlaceThen DEF Types
<1>2. k # 0 /\ k \notin 1 .. d
  BY SMTT(60), <1>1
<1>3. k - d \in Place /\ At(k)' = At(k - d)
  BY <1>2 DEF Ran
<1>4. k - d >= i
  BY SMTT(60), <1>1
<1> QED BY <1>3, <1>4 DEF PlainFrom

\* The order of the writers is kept: those ahead hold the one writer that the
\* handler made.
LEMMA RanOrder ==
  ASSUME Types, Types', OrderInv, NEW d \in Nat, Ran(d), error => error', taken' = taken, Shape',
         \A k \in Place : k # 0 /\ IsWriter(At(k)) => written' <= At(k).upto,
         \A k \in Place : k # 0 /\ At(k).type = "write" => written' <= At(k).to,
         \A j \in 1 .. d : IsWriter(At(j)') =>
           /\ At(j)'.type = "write" /\ written' <= At(j)'.to
           /\ At(j)'.to <= At(j)'.upto /\ At(j)'.upto <= taken
           /\ \A i \in 1 .. d : IsWriter(At(i)') => i = j
           /\ \A k \in Place : k # 0 /\ IsWriter(At(k)) => At(j)'.upto <= At(k).upto
  PROVE  OrderInv'
<1>1. ASSUME NEW j \in Place' PROVE At(j)' \in Tasks \cup {NoTask}
  BY PlaceThen DEF Types
<1>2. /\ taken \in Nat /\ written' \in Nat /\ ~IsWriter(At(0)') /\ At(0)'.type \notin {"write", "nop"}
  BY MadeTasks DEF Types, JournalType, Ran, IsWriter
<1>3. Bounds /\ Sorted
  BY DEF OrderInv
<1>4. Bounds'
  <2> SUFFICES ASSUME NEW k \in Place'
               PROVE  /\ IsWriter(At(k)') => written' <= At(k)'.upto /\ At(k)'.upto <= taken
                      /\ At(k)'.type = "write" => written' <= At(k)'.to /\ At(k)'.to <= At(k)'.upto
                      /\ At(k)'.type = "nop" => error'
    BY DEF Bounds, IsWriter
  <2>1. CASE k = 0
    BY <1>2, <2>1
  <2>2. CASE k \in 1 .. d
    <3>1. CASE IsWriter(At(k)')
      <4>1. At(k)'.to \in Nat /\ At(k)'.upto \in Nat
        BY <1>1, <3>1, WriterFacts
      <4>2. /\ At(k)'.type = "write" /\ written' <= At(k)'.to
            /\ At(k)'.to <= At(k)'.upto /\ At(k)'.upto <= taken
        BY <2>2, <3>1
      <4> QED BY SMTT(60), <1>2, <4>1, <4>2
    <3>2. CASE ~IsWriter(At(k)')
      BY <3>2 DEF IsWriter
    <3> QED BY <3>1, <3>2
  <2>3. CASE k - d \in Place /\ k - d # 0 /\ At(k)' = At(k - d)
    BY <1>3, <2>3 DEF Bounds
  <2> QED BY <2>1, <2>2, <2>3 DEF Ran
<1>5. Sorted'
  <2> SUFFICES ASSUME NEW k \in Place', NEW l \in Place', k < l, IsWriter(At(k)'), IsWriter(At(l)')
               PROVE  At(k)'.upto <= At(l)'.upto
    BY DEF Sorted, IsWriter
  <2>1. k # 0 /\ l # 0
    BY <1>2
  <2> USE <2>1
  <2>2. k \in Nat /\ l \in Nat
    BY PlaceThen DEF Types
  <2>3. CASE k \in 1 .. d
    <3>1. l \notin 1 .. d
      <4>1. l # k
        BY SMTT(60), <2>2
      <4> QED BY <2>3, <4>1
    <3>2. l - d \in Place /\ l - d # 0 /\ At(l)' = At(l - d)
      BY <3>1 DEF Ran
    <3> QED BY <2>3, <3>2
  <2>4. CASE k \notin 1 .. d
    <3>1. k - d \in Place /\ k - d # 0 /\ At(k)' = At(k - d)
      BY <2>4 DEF Ran
    <3>2. l \notin 1 .. d
      BY SMTT(60), <2>2, <2>4
    <3>3. l - d \in Place /\ l - d # 0 /\ At(l)' = At(l - d)
      BY <3>2 DEF Ran
    <3>4. k - d < l - d
      BY SMTT(60), <2>2
    <3> QED BY <1>3, <3>1, <3>3, <3>4 DEF Sorted
  <2> QED BY <2>3, <2>4
<1> QED BY <1>4, <1>5 DEF OrderInv

\* Nothing else depends on what the executor does with its tasks.
LEMMA TaskStep ==
  ASSUME IInv, work = "loop", Types', OrderInv', TakenInv', RequeueInv', AftersKept, CallInv', Monotone,
         UNCHANGED <<op, pc, goal, promised, life, refs, armed, closed>>,
         UNCHANGED <<work, pending, waiters, took, barrier>>
  PROVE  IInv'
<1>1. Types /\ SyncInv /\ WorkInv /\ HolderInv /\ CloseInv /\ FlushedIsDurable
  BY DEF IInv
<1> USE <1>1
<1>2. ~Drained /\ ~Drained'
  BY DEF Drained, CloseInv
<1>3. SyncInv'
  <2>1. \A b \in Actors : SameCall(b)
    BY DEF SameCall
  <2>2. waiters' \cup took' = waiters \cup took
    OBVIOUS
  <2> QED BY <1>2, <2>1, <2>2, SyncKept DEF SyncInv
<1>4. WorkInv'
  BY DEF WorkInv
<1>5. HolderInv'
  BY DEF HolderInv, Mounted
<1>6. CloseInv'
  BY <1>2 DEF CloseInv
<1>7. FlushedIsDurable'
  BY SMTT(60) DEF FlushedIsDurable, Monotone, Types, JournalType
<1> QED BY <1>3, <1>4, <1>5, <1>6, <1>7 DEF IInv

\* The calls stay as they are.
LEMMA CallsKept ==
  ASSUME Types, Types', CallInv, Monotone, UNCHANGED <<op, pc, goal, comp, cover>>
  PROVE  CallInv'
<1>1. \A b \in Actors : SameCall(b) /\ SameComp(b)
  BY DEF SameCall, SameComp
<1> QED BY <1>1, CallKept DEF CallInv

-----------------------------------------------------------------------------
(* cyanfs_backend_loop.                                                    *)

\* cyanfs_super_get_task.
LEMMA InvGetTask ==
  ASSUME IInv, UNCHANGED inst, GetTask
  PROVE  IInv'
<1>1. Types /\ OrderInv /\ TakenInv /\ RequeueInv /\ CallInv
  BY DEF IInv
<1> USE <1>1
<1>2. /\ ExecType /\ JournalType /\ work = "loop"
      /\ UNCHANGED <<op, pc, goal, promised, life, refs, armed, closed, comp, cover>>
      /\ UNCHANGED <<work, pending, waiters, took, barrier>>
      /\ UNCHANGED <<inst, appended, taken, written, durable, flag, error>>
  BY DEF GetTask, Types, journal, call, owner
<1>20. 1 \in Place
  BY <1>2, SMTT(60) DEF GetTask, Place, ExecType
<1> USE <1>2
<1>3. Types'
  <2>1. queue' \in Seq(Tasks) /\ active' \in Tasks /\ done' = FALSE
    BY SMTT(60) DEF GetTask, ExecType
  <2>2. ExecType'
    BY <2>1 DEF ExecType
  <2> QED BY <2>2 DEF Types, JournalType, CallType, OwnerType
<1> USE <1>3
<1>4. /\ At(0) = NoTask /\ Len(queue') = Len(queue) - 1
      /\ \A k \in Place' : k + 1 \in Place /\ At(k)' = At(k + 1)
      /\ \A k \in Place : k # 0 => k - 1 \in Place' /\ At(k - 1)' = At(k)
  BY MovesGet
<1> USE <1>4
<1>5. Monotone
  BY SMTT(60) DEF Monotone, JournalType
<1> USE <1>5
<1>6. \A k \in Place : k \in Nat /\ k + (-1) = k - 1
  BY PlaceFacts, SMTT(60)
<1> USE <1>6
<1>7. \A k \in Place' : k \in Nat /\ k - (-1) = k + 1 /\ k + 1 \in Nat /\ k + 1 # 0
  <2>1. ExecType'
    BY DEF Types
  <2>2. \A k \in Place' : k \in Nat
    BY <2>1, PlaceThen
  <2> QED BY SMTT(60), <2>2
<1>8. -1 \in Int
  BY SMTT(60)
<1>9. NoTask.type = "none" /\ ~IsWriter(NoTask) /\ ~IsAfter(NoTask)
  BY DEF NoTask, IsWriter, IsAfter
<1> USE <1>9
<1>10. Keeps(-1)
  <2> SUFFICES ASSUME NEW l \in Place, IsWriter(At(l))
               PROVE  \E m \in Place' : m <= l + (-1) /\ IsWriter(At(m)') /\ At(l).upto <= At(m)'.upto
    BY DEF Keeps, Monotone
  <2>1. l # 0
    OBVIOUS
  <2>2. l - 1 \in Place' /\ At(l - 1)' = At(l) /\ l + (-1) = l - 1
    BY <2>1
  <2>3. At(l).upto \in Nat
    BY PlaceFacts, WriterFacts
  <2>4. l - 1 <= l - 1 /\ At(l).upto <= At(l).upto
    BY SMTT(60), <2>3
  <2> QED BY <2>2, <2>4
<1>11. AftersKept
  <2>1. \A k \in Place : IsAfter(At(k)) => k + (-1) \in Place' /\ IsAfter(At(k + (-1))')
    OBVIOUS
  <2> QED BY <1>8, <1>10, <2>1, AfterMoves DEF Monotone
<1>12. RequeueInv'
  <2>1. Back(-1, NoTask)
    BY <1>7 DEF Back
  <2> QED BY <1>8, <1>10, <2>1, RequeueMoves DEF Monotone
<1>13. TakenInv'
  <2> SUFFICES ASSUME ~error PROVE TakenInv'
    BY DEF TakenInv
  <2>1. PICK n \in Nat : n = Len(queue)
    BY PlaceFacts
  <2>2. PICK t \in Nat : t = taken
    BY DEF JournalType
  <2>3. Covered(t, n + 1)
    BY <2>1, <2>2 DEF TakenInv
  <2>4. n + 1 \in Int /\ n + 1 + (-1) = n
    BY SMTT(60), <2>1
  <2>5. Covered(t, n + 1 + (-1))'
    BY <1>8, <1>10, <2>3, <2>4, CoverKept
  <2>6. Len(queue') + 1 = n
    BY SMTT(60), <2>1
  <2> QED BY <2>2, <2>4, <2>5, <2>6 DEF TakenInv
<1>14. Shape'
  <2>1. ASSUME NEW i \in Nat, PlainFrom(i + 1) PROVE PlainFrom(i)'
    <3> SUFFICES ASSUME NEW k \in Place', k >= i PROVE Plain(At(k)')
      BY DEF PlainFrom, Plain
    <3>1. k + 1 >= i + 1
      BY SMTT(60), <1>7
    <3> QED BY <2>1, <3>1 DEF PlainFrom
  <2>2. \A i \in Nat : i + 1 \in Place => i \in Place' /\ At(i)' = At(i + 1)
    <3> SUFFICES ASSUME NEW i \in Nat, i + 1 \in Place PROVE i \in Place' /\ At(i)' = At(i + 1)
      OBVIOUS
    <3>1. PICK j \in Place : j = i + 1
      OBVIOUS
    <3>2. j # 0 /\ j - 1 = i
      BY SMTT(60), <3>1
    <3>3. j - 1 \in Place' /\ At(j - 1)' = At(j)
      BY <3>2
    <3> QED BY <3>1, <3>2, <3>3
  <2>3. /\ 0 \in Nat /\ 1 \in Nat /\ 2 \in Nat /\ 0 + 1 = 1 /\ 1 + 1 = 2 /\ 2 + 1 = 3
        /\ 1 \in Place /\ 1 >= 1
    BY <1>20, FirstPlaces
  <2> USE <2>3
  <2>4. At(0)' = At(1)
    BY <2>2
  <2>5. At(0).type \notin {"before", "before_flush"}
    OBVIOUS
  <2>6. CASE PlainFrom(1)
    <3>2. Plain(At(1))
      BY <2>6 DEF PlainFrom
    <3>3. At(0)'.type \notin {"before", "before_flush"}
      BY <2>4, <3>2 DEF Plain
    <3>4. PlainFrom(1)'
      <4>1. PlainFrom(1 + 1)
        <5>1. \A k \in Place : k >= 1 + 1 => k >= 1
          BY SMTT(60)
        <5> QED BY <2>6, <5>1 DEF PlainFrom
      <4> QED BY <2>1, <4>1
    <3> QED BY <3>3, <3>4 DEF Shape
  <2>7. CASE At(1).type \in {"write", "nop", "after_flush"} /\ PlainFrom(2)
    <3>1. At(0)'.type \notin {"before", "before_flush"}
      BY <2>4, <2>7
    <3>2. PlainFrom(1)'
      BY <2>1, <2>7
    <3> QED BY <3>1, <3>2 DEF Shape
  <2>8. CASE 2 \in Place /\ At(1).type \in {"before", "before_flush"} /\ At(2).type = "write" /\ PlainFrom(3)
    <3>1. PlainFrom(2)'
      BY <2>1, <2>8
    <3>2. 1 \in Place' /\ At(1)'.type = "write"
      BY <2>2, <2>8
    <3>3. At(0)'.type \in {"before", "before_flush"}
      BY <2>4, <2>8
    <3> QED BY <3>1, <3>2, <3>3 DEF Shape
  <2> QED BY <2>5, <2>6, <2>7, <2>8 DEF OrderInv, Shape
<1>15. OrderInv'
  <2>1. Bounds'
    BY DEF OrderInv, Bounds, IsWriter
  <2>2. Sorted'
    <3> SUFFICES ASSUME NEW k \in Place', NEW l \in Place', k < l, IsWriter(At(k)'), IsWriter(At(l)')
                 PROVE  At(k)'.upto <= At(l)'.upto
      BY DEF Sorted, IsWriter
    <3>1. k + 1 < l + 1
      BY SMTT(60), <1>7
    <3> QED BY <3>1 DEF OrderInv, Sorted
  <2> QED BY <1>14, <2>1, <2>2 DEF OrderInv
<1>16. CallInv'
  BY CallsKept
<1> QED BY <1>11, <1>12, <1>13, <1>15, <1>16, TaskStep

\* Nothing moves.
LEMMA SameRequeues ==
  ASSUME RequeueInv, Place' = Place, \A k : At(k)' = At(k), \A n, k : Covered(n, k)' = Covered(n, k),
         UNCHANGED <<pc, comp, goal, error>>
  PROVE  RequeueInv'
<1> SUFFICES ASSUME NEW a \in Handles, NEW k \in Place, At(k) = RequeueTask(a)
             PROVE  /\ pc'[a] \in {"requeue_wake", "wait"} /\ comp'[a] = "none"
                    /\ error' \/ Covered(goal[a], k)'
                    /\ \A l \in Place' : At(l)' = RequeueTask(a) => l = k
  BY DEF RequeueInv
<1>1. /\ pc[a] \in {"requeue_wake", "wait"} /\ comp[a] = "none"
      /\ error \/ Covered(goal[a], k)
      /\ \A l \in Place : At(l) = RequeueTask(a) => l = k
  BY DEF RequeueInv
<1> QED BY <1>1

\* cyanfs_super_task_done: active_tasks is decremented.
LEMMA InvTaskDone ==
  ASSUME IInv, UNCHANGED inst, TaskDone
  PROVE  IInv'
<1>1. Types /\ OrderInv /\ TakenInv /\ RequeueInv /\ CallInv /\ WorkInv
  BY DEF IInv
<1> USE <1>1
<1>2. /\ ExecType /\ JournalType /\ done /\ active' = NoTask /\ done' = FALSE
      /\ UNCHANGED <<op, pc, goal, promised, life, refs, armed, closed, comp, cover>>
      /\ UNCHANGED <<work, pending, waiters, took, barrier, queue>>
      /\ UNCHANGED <<inst, appended, taken, written, durable, flag, error>>
  BY DEF TaskDone, Types, journal, call, owner
<1> USE <1>2
<1>3. work = "loop"
  BY DEF TaskDone, WorkInv
<1>4. Types'
  <2>1. ExecType'
    BY DEF ExecType
  <2> QED BY <2>1 DEF Types, JournalType, CallType, OwnerType
<1>5. Place' = Place /\ \A k : At(k)' = At(k)
  BY DEF Place, At
<1> USE <1>5
<1>6. Monotone
  BY SMTT(60) DEF Monotone, JournalType
<1>7. \A n, k : Covered(n, k)' = Covered(n, k)
  BY DEF Covered, IsWriter
<1>8. OrderInv'
  <2>1. Shape'
    BY DEF Shape, OrderInv, PlainFrom, Plain
  <2>2. Bounds' /\ Sorted'
    BY DEF Bounds, Sorted, OrderInv, IsWriter
  <2> QED BY <2>1, <2>2 DEF OrderInv
<1>9. TakenInv'
  BY <1>7 DEF TakenInv
<1>10. RequeueInv'
  BY <1>7, SameRequeues
<1>11. AftersKept
  BY <1>7 DEF AftersKept, Synced, HasAfter, IsAfter
<1>12. CallInv'
  BY <1>4, <1>6, CallsKept
<1> QED BY <1>3, <1>4, <1>6, <1>8, <1>9, <1>10, <1>11, <1>12, TaskStep

\* The work item starts, has run the tasks, or ends: only the waiters and the
\* closer depend on it.
LEMMA WorkStep ==
  ASSUME IInv, UNCHANGED <<inst, journal, queue, active, done, call, owner>>, ExecType',
         SyncInv', WorkInv', CloseInv'
  PROVE  IInv'
<1>1. Types /\ OrderInv /\ TakenInv /\ RequeueInv /\ CallInv /\ HolderInv /\ FlushedIsDurable
  BY DEF IInv
<1> USE <1>1
<1>2. /\ UNCHANGED <<op, pc, goal, promised, life, refs, armed, closed, comp, cover>>
      /\ UNCHANGED <<inst, appended, taken, written, durable, flag, error>> /\ UNCHANGED still
  BY DEF journal, call, owner, still
<1> USE <1>2
<1>3. Types'
  BY DEF Types, JournalType, CallType, OwnerType
<1>4. Monotone
  BY SMTT(60) DEF Monotone, Types, JournalType
<1>5. OrderInv' /\ TakenInv'
  BY <1>3, <1>4, CalmQueue DEF Monotone
<1>6. RequeueInv'
  <2>1. Place' = Place /\ \A k : At(k)' = At(k)
    BY DEF Place, At
  <2>2. \A n, k : Covered(n, k)' = Covered(n, k)
    BY <2>1 DEF Covered, IsWriter
  <2> QED BY <2>1, <2>2, SameRequeues
<1>7. CallInv'
  BY <1>3, <1>4, CallsKept
<1>8. HolderInv' /\ FlushedIsDurable'
  BY DEF HolderInv, Mounted, FlushedIsDurable
<1> QED BY <1>3, <1>5, <1>6, <1>7, <1>8 DEF IInv

\* cyanfs_backend_work takes the waiters.
LEMMA InvWorkStart ==
  ASSUME IInv, UNCHANGED inst, WorkStart
  PROVE  IInv'
<1>1. Types /\ SyncInv /\ WorkInv /\ CloseInv /\ OrderInv /\ TakenInv
  BY DEF IInv
<1> USE <1>1
<1>2. /\ ExecType /\ JournalType /\ work = "idle" /\ pending /\ took = {}
      /\ work' = "loop" /\ took' = waiters /\ waiters' = {} /\ ~pending'
      /\ barrier' = IF barrier = "pending" THEN "running" ELSE barrier
      /\ UNCHANGED <<inst, journal, queue, active, done, call, owner>>
  BY DEF WorkStart, Types, WorkInv
<1> USE <1>2
<1>3. /\ UNCHANGED <<op, pc, goal, promised, life, refs, armed, closed, comp, cover>>
      /\ UNCHANGED <<inst, appended, taken, written, durable, flag, error>> /\ UNCHANGED still
  BY DEF journal, call, owner, still
<1> USE <1>3
<1>4. ExecType'
  <2>1. barrier' \in {"none", "pending", "running", "done"} /\ pending' \in BOOLEAN
    BY DEF WorkStart, Types, ExecType
  <2>2. waiters' \subseteq Actors /\ took' \subseteq Actors
    BY DEF ExecType
  <2> QED BY <2>1, <2>2 DEF ExecType
<1>5. Types'
  BY <1>4 DEF Types, JournalType, CallType, OwnerType
<1>6. Monotone
  BY SMTT(60) DEF Monotone, JournalType
<1>7. AftersKept
  BY <1>5, <1>6, CalmQueue DEF Monotone
<1>8. barrier \notin {"running", "done"}
  BY DEF CloseInv
<1>9. barrier' # "done" /\ ~Drained'
  BY <1>8 DEF Drained
<1>10. SyncInv'
  <2>1. \A b \in Actors : SameCall(b)
    BY DEF SameCall
  <2>2. waiters' \cup took' = waiters \cup took /\ work' # "complete"
    OBVIOUS
  <2> QED BY <1>5, <1>6, <1>7, <1>9, <2>1, <2>2, SyncKept DEF SyncInv
<1>11. WorkInv'
  BY DEF WorkInv
<1>12. CloseInv'
  <2>1. /\ \A a \in Actors : pc[a] # "super_close" \/ op[a] # "close"
        /\ ~closed
    BY <1>8 DEF CloseInv
  <2>2. barrier' # "none" <=> barrier # "none"
    OBVIOUS
  <2>3. work' # "idle"
    OBVIOUS
  <2> QED BY <1>9, <2>1, <2>2, <2>3 DEF CloseInv
<1> QED BY <1>4, <1>10, <1>11, <1>12, WorkStep

\* The queue is empty: every FLUSH has run.
LEMMA InvLoopEnd ==
  ASSUME IInv, UNCHANGED inst, LoopEnd
  PROVE  IInv'
<1>1. Types /\ SyncInv /\ WorkInv /\ CloseInv /\ CallInv
  BY DEF IInv
<1> USE <1>1
<1>2. /\ ExecType /\ work = "loop" /\ active = NoTask /\ queue = << >>
      /\ work' = "complete" /\ UNCHANGED <<queue, active, done, pending, waiters, took, barrier>>
      /\ UNCHANGED <<inst, journal, queue, active, done, call, owner>>
  BY DEF LoopEnd, Types
<1> USE <1>2
<1>3. /\ UNCHANGED <<op, pc, goal, refs, armed, closed>> /\ UNCHANGED <<durable, error>>
  BY DEF journal, call, owner
<1> USE <1>3
<1>4. ExecType'
  BY DEF ExecType
<1>5. \A n : ~HasAfter(n)
  <2>1. \A k \in Place : k = 0
    BY SMTT(60) DEF Place
  <2>2. ~IsAfter(NoTask)
    BY DEF NoTask, IsAfter
  <2>3. At(0) = NoTask
    BY PlaceFacts
  <2> QED BY <2>1, <2>2, <2>3 DEF HasAfter
<1>6. SyncInv'
  <2> SUFFICES ASSUME NEW a \in Actors PROVE SyncOk(a)'
    BY DEF SyncInv
  <2>1. PICK g : g = goal[a]
    OBVIOUS
  <2>2. Syncing(a) => Synced(g)
    BY <1>5, <2>1 DEF SyncInv, SyncOk
  <2>3. Synced(g)' <=> Synced(g)
    BY DEF Synced
  <2>4. Syncing(a)' <=> Syncing(a)
    BY DEF Syncing
  <2>5. op[a] = "sync" /\ pc[a] \in {"queue", "served"} => Syncing(a)
    BY DEF Syncing
  <2>6. a \in waiters \cup took => op[a] = "sync" /\ pc[a] \in {"queue", "served"}
    BY DEF SyncInv, SyncOk
  <2>7. op[a] = "close" /\ Drained' => Syncing(a)
    <3> SUFFICES ASSUME op[a] = "close", Drained' PROVE Syncing(a)
      OBVIOUS
    <3>1. barrier # "none"
      BY DEF Drained
    <3>2. ~closed
      BY DEF CloseInv
    <3>3. PICK c \in Actors : pc[c] \in {"flush_work", "super_close"}
      BY <3>1, <3>2 DEF CloseInv
    <3>4. op[c] = "close"
      BY <3>3, PlacesFacts DEF CallInv, Types
    <3>5. c = a
      BY <3>4 DEF CloseInv
    <3> QED BY <3>3, <3>5 DEF Syncing
  <2>8. a \in took => a \in waiters \cup took
    OBVIOUS
  <2>9. goal'[a] = g /\ op'[a] = op[a] /\ pc'[a] = pc[a]
    BY <2>1
  <2>10. waiters' \cup took' = waiters \cup took /\ took' = took
    OBVIOUS
  <2>11. /\ Syncing(a)' => Synced(g)'
         /\ op'[a] = "sync" /\ pc'[a] \in {"queue", "served"} => Synced(g)'
         /\ a \in took' => Synced(g)'
         /\ op'[a] = "close" /\ Drained' => Synced(g)'
         /\ a \in waiters' \cup took' => op'[a] = "sync" /\ pc'[a] \in {"queue", "served"}
    BY <2>2, <2>3, <2>4, <2>5, <2>6, <2>7, <2>8, <2>9, <2>10
  <2> QED BY <2>9, <2>11 DEF SyncOk
<1>7. WorkInv'
  BY DEF WorkInv
<1>8. CloseInv'
  <2>1. barrier # "done" /\ work' # "idle" /\ queue' = << >>
    BY DEF CloseInv
  <2> QED BY <2>1 DEF CloseInv
<1> QED BY <1>4, <1>6, <1>7, <1>8, WorkStep

\* The waiters are completed, and flush_work returns.
LEMMA InvWorkEnd ==
  ASSUME IInv, UNCHANGED inst, WorkEnd
  PROVE  IInv'
<1>1. Types /\ SyncInv /\ WorkInv /\ CloseInv
  BY DEF IInv
<1> USE <1>1
<1>2. /\ ExecType /\ work = "complete" /\ took' = {} /\ work' = "idle"
      /\ barrier' = (IF barrier = "running" THEN "done" ELSE barrier)
      /\ UNCHANGED <<queue, active, done, pending, waiters>>
      /\ UNCHANGED <<inst, journal, queue, active, done, call, owner>>
  BY DEF WorkEnd, Types
<1> USE <1>2
<1>3. /\ UNCHANGED <<op, pc, goal, refs, armed, closed>> /\ UNCHANGED <<durable, error, written>>
  BY DEF journal, call, owner
<1> USE <1>3
<1>4. ExecType'
  <2>1. barrier' \in {"none", "pending", "running", "done"} /\ took' \subseteq Actors
    BY DEF ExecType
  <2> QED BY <2>1 DEF ExecType
<1>5. \A n : HasAfter(n)' <=> HasAfter(n)
  <2>1. Place' = Place /\ \A k : At(k)' = At(k)
    BY SMTT(60) DEF Place, At
  <2> QED BY <2>1 DEF HasAfter, Covered, IsAfter, IsWriter
<1>6. barrier # "done" /\ barrier' # "running" /\ (Drained' => Drained)
  <2>1. barrier # "done"
    BY DEF CloseInv
  <2> QED BY <2>1 DEF Drained
<1> USE <1>6
<1>7. SyncInv'
  <2> SUFFICES ASSUME NEW a \in Actors PROVE SyncOk(a)'
    BY DEF SyncInv
  <2>1. PICK g : g = goal[a] /\ g = goal'[a]
    OBVIOUS
  <2>2. SyncOk(a)
    BY DEF SyncInv
  <2>3. (Synced(g)' <=> Synced(g)) /\ (Syncing(a)' <=> Syncing(a))
    BY DEF Synced, Syncing
  <2>4. /\ Syncing(a)' => Synced(g)' \/ HasAfter(g)'
        /\ op'[a] = "close" /\ Drained' => Synced(g)'
    BY <1>5, <2>1, <2>2, <2>3 DEF SyncOk
  <2>5. a \notin took'
    OBVIOUS
  <2>6. waiters' \cup took' = waiters
    OBVIOUS
  <2>7. /\ a \in waiters => op[a] = "sync" /\ pc[a] \in {"queue", "served"}
        /\ op[a] = "sync" /\ pc[a] \in {"queue", "served"} /\ a \notin waiters => Synced(g)
    BY <2>1, <2>2 DEF SyncOk
  <2>8. /\ a \in waiters' \cup took' => op'[a] = "sync" /\ pc'[a] \in {"queue", "served"}
        /\ op'[a] = "sync" /\ pc'[a] \in {"queue", "served"} /\ a \notin waiters' \cup took' => Synced(g)'
    BY <2>3, <2>6, <2>7
  <2> QED BY <2>1, <2>4, <2>5, <2>8 DEF SyncOk
<1>8. WorkInv'
  BY DEF WorkInv
<1>9. CloseInv'
  <2>1. /\ barrier' # "none" <=> barrier # "none"
        /\ barrier' = "done" => ~pending'
        /\ Drained' => queue' = << >>
    BY DEF CloseInv
  <2>2. ~closed /\ \A a \in Actors : op[a] = "close" => pc[a] # "super_close"
    BY DEF CloseInv
  <2> QED BY <2>1, <2>2 DEF CloseInv
<1> QED BY <1>4, <1>7, <1>8, <1>9, WorkStep

-----------------------------------------------------------------------------
(* The handlers of the tasks.                                              *)

\* The task that runs.
LEMMA HeadFacts ==
  ASSUME Types, OrderInv, active # NoTask, ~done
  PROVE  /\ At(0) = active /\ active \in Tasks /\ 0 \in Place
         /\ active.type \notin {"before", "before_flush"} => PlainFrom(1)
         /\ active.type \in {"before", "before_flush"} =>
              1 \in Place /\ At(1).type = "write" /\ PlainFrom(2)
<1>1. At(0) = active /\ active \in Tasks /\ 0 \in Place
  <2>1. ExecType
    BY DEF Types
  <2>2. active \in Tasks
    BY <2>1 DEF ExecType
  <2> QED BY <2>1, <2>2, PlaceFacts
<1> QED BY <1>1 DEF OrderInv, Shape

\* What it writes is not beyond the entries of the writers behind it.
LEMMA HeadOrder ==
  ASSUME Types, Types', OrderInv, active # NoTask, ~done,
         written' = written \/ (IsWriter(active) /\ written' <= active.upto)
  PROVE  /\ \A k \in Place : k # 0 /\ IsWriter(At(k)) => written' <= At(k).upto
         /\ \A k \in Place : k # 0 /\ At(k).type = "write" => written' <= At(k).to
         /\ IsWriter(active) => \A k \in Place : k # 0 /\ IsWriter(At(k)) => active.upto <= At(k).upto
<1>1. At(0) = active /\ active \in Tasks /\ 0 \in Place
  BY HeadFacts
<1>2. Bounds /\ Sorted
  BY DEF OrderInv
<1>3. \A k \in Place : k \in Nat
  BY PlaceFacts DEF Types
<1>4. \A k \in Place : k # 0 => 0 < k
  BY SMTT(60), <1>3
<1>5. IsWriter(active) => \A k \in Place : k # 0 /\ IsWriter(At(k)) => active.upto <= At(k).upto
  BY <1>1, <1>2, <1>4 DEF Sorted
<1>6. CASE written' = written
  BY <1>2, <1>5, <1>6 DEF Bounds
<1>7. CASE IsWriter(active) /\ written' <= active.upto
  <2>1. active.type \notin {"before", "before_flush"}
    BY <1>7 DEF IsWriter
  <2>2. PlainFrom(1)
    BY <2>1, HeadFacts
  <2>3. \A k \in Place : k # 0 => k >= 1
    BY SMTT(60), <1>3
  <2>4. \A k \in Place : k # 0 => At(k).type # "write"
    <3>1. \A k \in Place : k # 0 => Plain(At(k))
      BY <2>2, <2>3 DEF PlainFrom
    <3> QED BY <3>1 DEF Plain
  <2>5. written' \in Nat /\ active.upto \in Nat
    BY <1>1, <1>7, WriterFacts DEF Types, JournalType
  <2>6. ASSUME NEW k \in Place, k # 0, IsWriter(At(k)) PROVE written' <= At(k).upto
    <3>1. At(k).upto \in Nat
      BY <2>6, PlaceFacts, WriterFacts DEF Types
    <3>2. active.upto <= At(k).upto
      BY <1>5, <1>7, <2>6
    <3> QED BY SMTT(60), <1>7, <2>5, <3>1, <3>2
  <2> QED BY <1>5, <2>4, <2>6
<1> QED BY <1>6, <1>7

\* The types of a step of a handler.
LEMMA RunTypes ==
  ASSUME Types, done' = TRUE, queue' \in Seq(Tasks), written' \in Nat, durable' \in Nat,
         written <= written', durable <= durable', durable' <= written', written' <= taken,
         flag' \in BOOLEAN, error' \in BOOLEAN, error => error',
         UNCHANGED <<inst, appended, taken, active, work, pending, waiters, took, barrier>>,
         UNCHANGED <<call, owner>>
  PROVE  Types' /\ Monotone
<1>1. Types'
  <2>1. JournalType'
    BY DEF Types, JournalType, call
  <2>2. ExecType'
    BY DEF Types, ExecType
  <2>3. CallType' /\ OwnerType'
    BY DEF Types, CallType, OwnerType, call, owner
  <2> QED BY <2>1, <2>2, <2>3 DEF Types
<1>2. Monotone
  BY SMTT(60) DEF Types, JournalType, Monotone
<1> QED BY <1>1, <1>2

\* A handler that is not the callback of a requeue.
LEMMA RunStep ==
  ASSUME IInv, active # NoTask, Types', Monotone, taken' = taken,
         UNCHANGED <<work, pending, waiters, took, barrier, call, owner>>,
         NEW d \in Nat, Ran(d), error' \/ Keeps(d), OrderInv',
         \A j \in 1 .. d : At(j)'.type # "requeue",
         \/ error' \/ ~IsAfter(At(0)) \/ written <= durable'
         \/ d \in Place' /\ IsAfter(At(d)')
  PROVE  IInv'
<1>1. Types /\ TakenInv /\ RequeueInv /\ CallInv /\ WorkInv
  BY DEF IInv
<1> USE <1>1
<1>2. UNCHANGED <<op, pc, goal, promised, comp, cover, life, refs, armed, closed>>
  BY DEF call, owner
<1>3. work = "loop"
  BY DEF WorkInv
<1>4. AftersKept
  BY RanAfters DEF Monotone
<1>5. RequeueInv'
  BY <1>2, RanRequeues DEF Monotone
<1>6. TakenInv'
  BY RanTaken DEF Monotone
<1>7. CallInv'
  BY <1>2, CallsKept
<1> QED BY <1>2, <1>3, <1>4, <1>5, <1>6, <1>7, TaskStep

\* A handler that puts no task back, with no WRITE behind it.
LEMMA RunQuiet ==
  ASSUME IInv, active # NoTask, ~done, active.type \notin {"before", "before_flush"},
         Types', Monotone, UNCHANGED <<inst, appended, taken, active, queue>>, done',
         UNCHANGED <<work, pending, waiters, took, barrier, call, owner>>,
         written' = written \/ (IsWriter(active) /\ written' <= active.upto),
         error' \/ ~IsWriter(active) \/ active.upto <= written',
         error' \/ ~IsAfter(active) \/ written <= durable'
  PROVE  IInv'
<1>1. Types /\ OrderInv
  BY DEF IInv
<1> USE <1>1
<1>2. At(0) = active /\ active \in Tasks /\ 0 \in Place /\ PlainFrom(1)
  BY HeadFacts
<1>3. Ran(0)
  BY RanStay DEF Types
<1> USE <1>3
<1>4. 0 \in Nat /\ 1 \in Nat /\ 1 # 0 /\ 1 + 0 = 1 /\ \A j \in 1 .. 0 : FALSE
  BY NoPlaces
<1> USE <1>4
<1>5. error' \/ Keeps(0)
  BY <1>2, RanKeeps DEF Monotone
<1>6. Shape'
  <2>1. PlainFrom(1)'
    BY <1>2, RanPlain
  <2>2. At(0)'.type \notin {"before", "before_flush"}
    <3>1. At(0)' = NoTask
      BY DEF Ran
    <3> QED BY <3>1, MadeTasks
  <2> QED BY <2>1, <2>2 DEF Shape
<1>7. OrderInv'
  <2>1. /\ \A k \in Place : k # 0 /\ IsWriter(At(k)) => written' <= At(k).upto
        /\ \A k \in Place : k # 0 /\ At(k).type = "write" => written' <= At(k).to
    BY HeadOrder
  <2> QED BY <1>6, <2>1, RanOrder DEF Monotone
<1> QED BY <1>2, <1>5, <1>7, RunStep

\* cyanfs_super_flusher_free.
LEMMA InvRunFree ==
  ASSUME IInv, UNCHANGED inst, RunFree
  PROVE  IInv'
<1>1. Types /\ JournalType /\ ExecType
  BY DEF IInv, Types
<1> USE <1>1
<1>2. /\ active # NoTask /\ ~done /\ active.type = "free" /\ done' = TRUE /\ AskFlush
      /\ UNCHANGED <<inst, appended, taken, written, durable, error, queue, active>>
      /\ UNCHANGED <<work, pending, waiters, took, barrier, call, owner>>
  BY DEF RunFree, Running
<1> USE <1>2
<1>3. /\ written' \in Nat /\ durable' \in Nat /\ written <= written' /\ durable <= durable'
      /\ durable' <= written' /\ written' <= taken /\ flag' \in BOOLEAN /\ error' \in BOOLEAN
      /\ (error => error') /\ queue' \in Seq(Tasks)
  <2>1. flag' \in BOOLEAN
    BY DEF JournalType, AskFlush
  <2>2. queue' \in Seq(Tasks)
    BY DEF ExecType
  <2> QED BY SMTT(60), <2>1, <2>2 DEF JournalType
<1>4. Types' /\ Monotone
  BY <1>3, RunTypes
<1>5. active.type \notin {"before", "before_flush"} /\ ~IsWriter(active) /\ ~IsAfter(active)
  BY DEF IsWriter, IsAfter
<1> QED BY <1>4, <1>5, RunQuiet

\* cyanfs_journal_flush_after: it puts a FLUSH at the head of the queue.
LEMMA InvRunAfter ==
  ASSUME IInv, UNCHANGED inst, RunAfter
  PROVE  IInv'
<1>1. Types /\ JournalType /\ ExecType /\ OrderInv
  BY DEF IInv, Types
<1> USE <1>1
<1>2. /\ active # NoTask /\ ~done /\ active.type = "after" /\ done' = TRUE
      /\ UNCHANGED <<inst, appended, taken, written, durable, flag, error, active>>
      /\ UNCHANGED <<work, pending, waiters, took, barrier, call, owner>>
      /\ queue' = IF error THEN queue ELSE <<Nop("after_flush")>> \o queue
  BY DEF RunAfter, Running, journal
<1> USE <1>2
<1>3. /\ written' \in Nat /\ durable' \in Nat /\ written <= written' /\ durable <= durable'
      /\ durable' <= written' /\ written' <= taken /\ flag' \in BOOLEAN /\ error' \in BOOLEAN
      /\ (error => error')
  BY SMTT(60) DEF JournalType
<1>4. active.type \notin {"before", "before_flush"} /\ ~IsWriter(active)
  BY DEF IsWriter
<1>5. CASE error
  <2>1. queue' = queue /\ error'
    BY <1>5
  <2>2. queue' \in Seq(Tasks)
    BY <2>1 DEF ExecType
  <2>3. Types' /\ Monotone
    BY <1>3, <2>2, RunTypes
  <2> QED BY <1>4, <2>1, <2>3, RunQuiet
<1>6. CASE ~error
  <2>1. PICK w \in Seq(Tasks) : queue' = w \o queue /\ Len(w) = 1 /\ w[1].type = "after_flush"
    <3>1. Nop("after_flush") \in Tasks /\ Nop("after_flush").type = "after_flush"
      BY MadeTasks
    <3>2. /\ <<Nop("after_flush")>> \in Seq(Tasks) /\ Len(<<Nop("after_flush")>>) = 1
          /\ <<Nop("after_flush")>>[1] = Nop("after_flush")
      BY SMTT(60), <3>1
    <3> QED BY <1>6, <3>1, <3>2
  <2>2. queue' \in Seq(Tasks)
    BY SMTT(60), <2>1 DEF ExecType
  <2>3. Types' /\ Monotone
    BY <1>3, <2>2, RunTypes
  <2> USE <2>3
  <2>4. 1 \in Nat /\ 1 # 0 /\ 1 + 1 = 2 /\ 1 \in 1 .. 1 /\ \A j \in 1 .. 1 : j = 1
    BY SMTT(60)
  <2> USE <2>4
  <2>5. Ran(1) /\ \A j \in 1 .. 1 : j \in Place' /\ At(j)' = w[j]
    BY <2>1, RanWith
  <2> USE <2>5
  <2>6. 1 \in Place' /\ At(1)'.type = "after_flush"
    BY <2>1
  <2>7. At(0) = active /\ 0 \in Place /\ PlainFrom(1)
    BY <1>4, HeadFacts
  <2>8. Keeps(1)
    BY <1>4, <2>7, RanKeeps DEF Monotone
  <2>9. Shape'
    <3>1. PlainFrom(2)'
      BY <2>7, RanPlain
    <3>2. At(0)' = NoTask
      BY DEF Ran
    <3> QED BY <2>6, <3>1, <3>2 DEF Shape
  <2>10. \A j \in 1 .. 1 : ~IsWriter(At(j)') /\ At(j)'.type # "requeue"
    BY SMTT(60), <2>6 DEF IsWriter
  <2>11. OrderInv'
    <3>1. /\ \A k \in Place : k # 0 /\ IsWriter(At(k)) => written' <= At(k).upto
          /\ \A k \in Place : k # 0 /\ At(k).type = "write" => written' <= At(k).to
      BY HeadOrder
    <3>2. /\ \A j \in 1 .. 1 : ~IsWriter(At(j)')
          /\ error => error'
          /\ taken' = taken
      BY <2>10
    <3> QED BY <2>9, <3>1, <3>2, RanOrder
  <2>12. 1 \in Place' /\ IsAfter(At(1)')
    BY <2>6 DEF IsAfter
  <2> QED BY <2>8, <2>10, <2>11, <2>12, RunStep
<1> QED BY <1>5, <1>6

\* The callback of cyanfs_requeue: the writers of what its call is about have run.
LEMMA InvRunRequeue ==
  ASSUME IInv, UNCHANGED inst, RunRequeue
  PROVE  IInv'
<1>1. Types /\ JournalType /\ ExecType /\ CallType /\ OwnerType /\ OrderInv /\ RequeueInv /\ TakenInv /\ CallInv /\ WorkInv
  BY DEF IInv, Types
<1> USE <1>1
<1>2. /\ active # NoTask /\ ~done /\ active.type = "requeue" /\ done' = TRUE
      /\ UNCHANGED <<inst, appended, taken, written, durable, flag, error, active>>
      /\ UNCHANGED <<work, pending, waiters, took, barrier, queue>>
      /\ UNCHANGED <<op, pc, goal, promised, life, refs, armed, closed>>
  BY DEF RunRequeue, Running, journal, owner
<1> USE <1>2
<1>3. active.type \notin {"before", "before_flush"} /\ ~IsWriter(active) /\ ~IsAfter(active)
  BY DEF IsWriter, IsAfter
<1>4. At(0) = active /\ active \in Tasks /\ 0 \in Place /\ PlainFrom(1)
  BY <1>3, HeadFacts
<1> USE <1>4
<1>5. PICK a \in Handles : a = active.who /\ active = RequeueTask(a)
  BY TaskFacts
<1> USE <1>5
<1>6. /\ pc[a] \in {"requeue_wake", "wait"} /\ comp[a] = "none" /\ a \in Actors
      /\ error \/ Covered(goal[a], 0)
  BY DEF RequeueInv, Actors
<1> USE <1>6
<1>7. error \/ goal[a] <= written
  <2>1. \A l \in Place : ~(l < 0)
    BY SMTT(60) DEF Place
  <2> QED BY <2>1 DEF Covered
<1>8. CallOk(a)
  BY DEF CallInv
<1>9. /\ \A b \in Actors : b # a => SameComp(b)
      /\ comp' \in [Actors -> {"none", "fired", "flushing", "ok", "err"}]
      /\ cover' \in [Actors -> Nat]
      /\ cover'[a] <= written
      /\ comp'[a] \in {"err", "flushing", "fired"}
      /\ comp'[a] = "flushing" /\ (op[a] = "flush_bio" \/ ~error) => goal[a] <= cover'[a]
  <2>1. CASE op[a] = "flush_bio"
    <3>1. SendFlush(a)
      BY <2>1 DEF RunRequeue
    <3> QED BY <1>7, <1>8, <3>1, SendFacts
  <2>2. CASE op[a] # "flush_bio"
    <3>1. comp' = [comp EXCEPT ![a] = "fired"] /\ cover' = cover
      BY <2>2 DEF RunRequeue
    <3>2. cover[a] <= written
      BY <1>8 DEF CallOk
    <3> QED BY <3>1, <3>2 DEF CallType, SameComp
  <2> QED BY <2>1, <2>2
<1> USE <1>9
<1>10. Types'
  <2>1. JournalType'
    BY DEF JournalType
  <2>2. ExecType'
    BY DEF ExecType
  <2>3. CallType' /\ OwnerType'
    BY DEF CallType, OwnerType
  <2> QED BY <2>1, <2>2, <2>3 DEF Types
<1> USE <1>10
<1>11. Monotone
  BY NatOrder DEF Monotone, JournalType
<1> USE <1>11
<1>12. CallInv'
  <2>1. ASSUME NEW b \in Actors, b # a PROVE CallOk(b)'
    BY <2>1, CallKept DEF CallInv, SameCall
  <2>2. CallOk(a)'
    <3>1. comp'[a] # "none" /\ comp'[a] # "ok"
      OBVIOUS
    <3>2. pc[a] # "submit"
      OBVIOUS
    <3> QED BY <1>7, <1>8, <3>1, <3>2 DEF CallOk
  <2> QED BY <2>1, <2>2 DEF CallInv
<1>13. Ran(0)
  BY RanStay
<1> USE <1>13
<1>14. 0 \in Nat /\ 1 \in Nat /\ 1 # 0 /\ 1 + 0 = 1 /\ \A j \in 1 .. 0 : FALSE
  BY NoPlaces
<1> USE <1>14
<1>15. Keeps(0)
  BY <1>3, RanKeeps DEF Monotone
<1>16. Shape'
  <2>1. PlainFrom(1)'
    BY RanPlain
  <2>2. At(0)'.type \notin {"before", "before_flush"}
    <3>1. At(0)' = NoTask
      BY DEF Ran
    <3> QED BY <3>1, MadeTasks
  <2> QED BY <2>1, <2>2 DEF Shape
<1>17. OrderInv'
  <2>1. /\ \A k \in Place : k # 0 /\ IsWriter(At(k)) => written' <= At(k).upto
        /\ \A k \in Place : k # 0 /\ At(k).type = "write" => written' <= At(k).to
    BY HeadOrder
  <2> QED BY <1>16, <2>1, RanOrder DEF Monotone
<1>18. AftersKept
  BY <1>3, <1>15, RanAfters DEF Monotone
<1>19. TakenInv'
  BY <1>15, RanTaken DEF Monotone
<1>20. RequeueInv'
  <2>1. ASSUME NEW b \in Handles, pc[b] \in {"requeue_wake", "wait"}, comp[b] = "none", At(0) # RequeueTask(b)
        PROVE  pc'[b] \in {"requeue_wake", "wait"} /\ comp'[b] = "none" /\ goal'[b] = goal[b]
    <3>1. b # a /\ b \in Actors
      BY <2>1 DEF Actors
    <3> QED BY <2>1, <3>1 DEF SameComp
  <2> QED BY <1>15, <2>1, RanRequeues DEF Monotone
<1>21. work = "loop"
  BY DEF WorkInv
<1> QED BY <1>12, <1>17, <1>18, <1>19, <1>20, <1>21, TaskStep

\* A FLUSH ahead of a WRITE fails: the WRITE is not sent.
LEMMA SkipStep ==
  ASSUME IInv, active # NoTask, ~done, active.type \in {"before", "before_flush"}, SkipWriter,
         done' = TRUE, error' = TRUE, flag' \in BOOLEAN,
         UNCHANGED <<inst, appended, taken, written, durable, active>>,
         UNCHANGED <<work, pending, waiters, took, barrier, call, owner>>
  PROVE  IInv'
<1>1. Types /\ JournalType /\ ExecType /\ OrderInv /\ RequeueInv /\ CallInv /\ WorkInv
  BY DEF IInv, Types
<1> USE <1>1
<1>2. 1 \in Place /\ At(1).type = "write" /\ PlainFrom(2)
  BY HeadFacts
<1> USE <1>2
<1>3. PICK x \in Tasks : x = At(1) /\ x = queue[1] /\ IsWriter(x)
  <2>1. 1 # 0
    BY SMTT(60)
  <2> QED BY <2>1, PlaceFacts DEF IsWriter
<1>4. PICK y \in Tasks : /\ y = Writer("nop", x.to, x.upto, x.fb)
                         /\ y.type = "nop" /\ y.to = x.to /\ y.upto = x.upto
  <2>1. x.to \in 0 .. MaxAppends /\ x.upto \in 0 .. MaxAppends /\ x.fb \in BOOLEAN
    BY <1>3, TaskFacts
  <2>2. PICK m \in 0 .. MaxAppends, n \in 0 .. MaxAppends, fb \in BOOLEAN :
          m = x.to /\ n = x.upto /\ fb = x.fb
    BY <2>1
  <2>3. /\ Writer("nop", m, n, fb) \in Tasks /\ Writer("nop", m, n, fb).type = "nop"
        /\ Writer("nop", m, n, fb).to = m /\ Writer("nop", m, n, fb).upto = n
    BY DEF Writer, Tasks
  <2> QED BY <2>2, <2>3
<1> USE <1>4
<1>5. /\ queue' \in Seq(Tasks) /\ Len(queue') = Len(queue) /\ queue'[1] = y
      /\ \A k \in 2 .. Len(queue) : queue'[k] = queue[k]
  <2>1. queue \in Seq(Tasks) /\ Len(queue) \in Nat /\ Len(queue) >= 1 /\ Head(queue) = x
    BY <1>3, SMTT(60) DEF ExecType, Place
  <2>2. queue' = <<y>> \o Tail(queue)
    BY <2>1 DEF SkipWriter
  <2> QED BY SMTT(60), <2>1, <2>2
<1>6. Types' /\ Monotone
  <2>1. /\ written' \in Nat /\ durable' \in Nat /\ written <= written' /\ durable <= durable'
        /\ durable' <= written' /\ written' <= taken /\ error' \in BOOLEAN /\ (error => error')
    BY SMTT(60) DEF JournalType
  <2> QED BY <1>5, <2>1, RunTypes
<1>7. /\ Place' = Place /\ At(0)' = NoTask /\ At(1)' = y
      /\ \A k \in Place : k \in Nat
      /\ \A k \in Place : k # 0 /\ k # 1 => At(k)' = At(k)
  BY SMTT(60), <1>5 DEF Place, At, ExecType
<1> USE <1>7
<1>8. NoTask.type = "none" /\ ~IsWriter(NoTask)
  BY DEF NoTask, IsWriter
<1>9. Shape'
  <2>1. PlainFrom(2)'
    <3>1. \A k \in Place : k >= 2 => k # 0 /\ k # 1
      BY SMTT(60)
    <3> QED BY <3>1 DEF PlainFrom, Plain
  <2>2. At(1)'.type \in {"write", "nop", "after_flush"}
    OBVIOUS
  <2> QED BY <2>1, <2>2 DEF Shape
<1>10. /\ \A k \in Place : IsWriter(At(k)') => k # 0 /\ IsWriter(At(k)) /\ At(k)'.upto = At(k).upto
       /\ \A k \in Place : At(k)'.type = "write" => k # 0 /\ k # 1
  <2>1. "write" # "nop" /\ "write" # "none"
    OBVIOUS
  <2>2. \A k \in Place : k # 0 /\ k # 1 => At(k)' = At(k)
    OBVIOUS
  <2>3. ~IsWriter(At(0)') /\ At(0)'.type # "write" /\ At(1)'.type # "write"
    BY <1>8, <2>1
  <2>4. IsWriter(At(1)) /\ At(1)'.upto = At(1).upto
    BY <1>3
  <2>5. 1 # 0
    BY NoPlaces
  <2> QED BY <2>2, <2>3, <2>4, <2>5
<1>11. OrderInv'
  <2>1. Bounds /\ Sorted
    BY DEF OrderInv
  <2>2. Bounds'
    <3> SUFFICES ASSUME NEW k \in Place
                 PROVE  /\ IsWriter(At(k)') => written <= At(k)'.upto /\ At(k)'.upto <= taken
                        /\ At(k)'.type = "write" => written <= At(k)'.to /\ At(k)'.to <= At(k)'.upto
      BY DEF Bounds, IsWriter
    <3>1. IsWriter(At(k)') => written <= At(k)'.upto /\ At(k)'.upto <= taken
      BY <1>10, <2>1 DEF Bounds
    <3>2. At(k)'.type = "write" => written <= At(k)'.to /\ At(k)'.to <= At(k)'.upto
      BY <1>10, <2>1 DEF Bounds
    <3> QED BY <3>1, <3>2
  <2>3. Sorted'
    <3> SUFFICES ASSUME NEW k \in Place, NEW l \in Place, k < l, IsWriter(At(k)'), IsWriter(At(l)')
                 PROVE  At(k)'.upto <= At(l)'.upto
      BY DEF Sorted, IsWriter
    <3>1. /\ IsWriter(At(k)) /\ At(k)'.upto = At(k).upto
          /\ IsWriter(At(l)) /\ At(l)'.upto = At(l).upto
      BY <1>10
    <3> QED BY <2>1, <3>1 DEF Sorted
  <2> QED BY <1>9, <2>2, <2>3 DEF OrderInv
<1>12. AftersKept /\ TakenInv'
  BY DEF AftersKept, Synced, TakenInv
<1>13. UNCHANGED <<op, pc, goal, promised, comp, cover, life, refs, armed, closed>>
  BY DEF call, owner
<1>14. RequeueInv'
  <2>1. 0 \in Int /\ "requeue" # "nop" /\ "requeue" # "none" /\ \A k \in Place : k - 0 = k
    BY SMTT(60)
  <2>2. Back(0, NoTask)
    <3> SUFFICES ASSUME NEW m \in Place, At(m)'.type = "requeue"
                 PROVE  m - 0 \in Place /\ At(m - 0) = At(m)' /\ At(m)' # NoTask
      BY DEF Back
    <3>1. m # 0 /\ m # 1 /\ At(m)' # NoTask
      BY <1>8, <2>1
    <3> QED BY <2>1, <3>1
  <2> QED BY <1>6, <1>13, <2>1, <2>2, RequeueMoves
<1>15. CallInv'
  BY <1>6, <1>13, CallsKept
<1>16. work = "loop"
  BY DEF WorkInv
<1> QED BY <1>6, <1>11, <1>12, <1>13, <1>14, <1>15, <1>16, TaskStep

\* cyanfs_journal_flush_before: a FLUSH ahead of the WRITE.
LEMMA InvRunBefore ==
  ASSUME IInv, UNCHANGED inst, RunBefore
  PROVE  IInv'
<1>1. Types /\ JournalType /\ ExecType /\ OrderInv
  BY DEF IInv, Types
<1> USE <1>1
<1>2. /\ active # NoTask /\ ~done /\ active.type = "before" /\ done' = TRUE
      /\ UNCHANGED <<inst, appended, taken, written, durable, flag, error, active>>
      /\ UNCHANGED <<work, pending, waiters, took, barrier, call, owner>>
      /\ IF error THEN SkipWriter ELSE queue' = <<Nop("before_flush")>> \o queue
  BY DEF RunBefore, Running, journal
<1> USE <1>2
<1>3. /\ written' \in Nat /\ durable' \in Nat /\ written <= written' /\ durable <= durable'
      /\ durable' <= written' /\ written' <= taken /\ flag' \in BOOLEAN /\ error' \in BOOLEAN
      /\ (error => error')
  BY SMTT(60) DEF JournalType
<1>4. active.type \in {"before", "before_flush"} /\ ~IsWriter(active) /\ ~IsAfter(active)
  BY DEF IsWriter, IsAfter
<1> USE <1>4
<1>5. CASE error
  <2>1. SkipWriter /\ error' = TRUE
    BY <1>5 DEF JournalType
  <2> QED BY <1>3, <2>1, SkipStep
<1>6. CASE ~error
  <2>1. PICK w \in Seq(Tasks) : queue' = w \o queue /\ Len(w) = 1 /\ w[1].type = "before_flush"
    <3>1. Nop("before_flush") \in Tasks /\ Nop("before_flush").type = "before_flush"
      BY MadeTasks
    <3>2. /\ <<Nop("before_flush")>> \in Seq(Tasks) /\ Len(<<Nop("before_flush")>>) = 1
          /\ <<Nop("before_flush")>>[1] = Nop("before_flush")
      BY SMTT(60), <3>1
    <3> QED BY <1>6, <3>1, <3>2
  <2>2. queue' \in Seq(Tasks)
    BY SMTT(60), <2>1 DEF ExecType
  <2>3. Types' /\ Monotone
    BY <1>3, <2>2, RunTypes
  <2> USE <2>3
  <2>4. /\ 1 \in Nat /\ 1 # 0 /\ 2 \in Nat /\ 2 # 0 /\ 1 + 1 = 2 /\ 2 + 1 = 3
        /\ 1 \in 1 .. 1 /\ \A j \in 1 .. 1 : j = 1
    BY SMTT(60)
  <2> USE <2>4
  <2>5. Ran(1) /\ \A j \in 1 .. 1 : j \in Place' /\ At(j)' = w[j]
    BY <2>1, RanWith
  <2> USE <2>5
  <2>6. 1 \in Place' /\ At(1)'.type = "before_flush"
    BY <2>1
  <2>7. At(0) = active /\ 0 \in Place /\ 1 \in Place /\ At(1).type = "write" /\ PlainFrom(2)
    BY HeadFacts
  <2> USE <2>7
  <2>8. Keeps(1)
    BY RanKeeps DEF Monotone
  <2>9. Shape'
    <3>1. PlainFrom(3)'
      BY RanPlain
    <3>2. At(0)' = NoTask
      BY DEF Ran
    <3>3. 2 \in Place' /\ At(2)' = At(1)
      BY DEF Ran
    <3>4. At(1)'.type \in {"before", "before_flush"} /\ At(2)'.type = "write"
      BY <2>6, <3>3
    <3> QED BY <3>1, <3>2, <3>3, <3>4 DEF Shape
  <2>10. \A j \in 1 .. 1 : ~IsWriter(At(j)') /\ At(j)'.type # "requeue"
    BY SMTT(60), <2>6 DEF IsWriter
  <2>11. OrderInv'
    <3>1. /\ \A k \in Place : k # 0 /\ IsWriter(At(k)) => written' <= At(k).upto
          /\ \A k \in Place : k # 0 /\ At(k).type = "write" => written' <= At(k).to
      BY HeadOrder
    <3>2. /\ \A j \in 1 .. 1 : ~IsWriter(At(j)')
          /\ error => error'
          /\ taken' = taken
      BY <2>10
    <3> QED BY <2>9, <3>1, <3>2, RanOrder
  <2> QED BY <2>8, <2>10, <2>11, RunStep
<1> QED BY <1>5, <1>6

\* The FLUSH returns.
LEMMA InvRunFlush ==
  ASSUME IInv, UNCHANGED inst, RunFlush
  PROVE  IInv'
<1>1. Types /\ JournalType /\ ExecType /\ OrderInv
  BY DEF IInv, Types
<1> USE <1>1
<1>2. /\ active # NoTask /\ ~done /\ active.type \in {"before_flush", "after_flush"} /\ done' = TRUE
      /\ UNCHANGED <<inst, appended, taken, written, active>>
      /\ UNCHANGED <<work, pending, waiters, took, barrier, call, owner>>
  BY DEF RunFlush, Running
<1> USE <1>2
<1>3. ~IsWriter(active)
  BY DEF IsWriter
<1>4. \/ /\ durable' = written /\ UNCHANGED <<error, queue>>
         /\ IF active.type = "after_flush" THEN AskFlush ELSE UNCHANGED <<flag, asks>>
      \/ /\ error' = TRUE /\ UNCHANGED <<durable, flag, asks>>
         /\ IF active.type = "before_flush" THEN SkipWriter ELSE UNCHANGED queue
  BY DEF RunFlush
<1>5. CASE active.type = "before_flush" /\ error' = TRUE /\ UNCHANGED <<durable, flag>> /\ SkipWriter
  <2>1. flag' \in BOOLEAN /\ active.type \in {"before", "before_flush"}
    BY <1>5 DEF JournalType
  <2> QED BY <1>5, <2>1, SkipStep
<1>6. ASSUME durable' \in {written, durable}, error' \in BOOLEAN, error => error', UNCHANGED queue, flag' \in BOOLEAN
      PROVE  Types' /\ Monotone
  <2>1. /\ written' \in Nat /\ durable' \in Nat /\ written <= written' /\ durable <= durable'
        /\ durable' <= written' /\ written' <= taken
    BY SMTT(60), <1>6 DEF JournalType
  <2>2. queue' \in Seq(Tasks)
    BY <1>6 DEF ExecType
  <2> QED BY <1>6, <2>1, <2>2, RunTypes
<1>7. CASE active.type = "after_flush" /\ error' = TRUE /\ UNCHANGED <<durable, flag, queue>>
  <2>1. active.type \notin {"before", "before_flush"} /\ flag' \in BOOLEAN /\ durable' \in {written, durable}
    BY <1>7 DEF JournalType
  <2>2. Types' /\ Monotone
    <3>1. error' \in BOOLEAN /\ (error => error')
      BY <1>7
    <3> QED BY <1>6, <1>7, <2>1, <3>1
  <2> QED BY <1>3, <1>7, <2>1, <2>2, RunQuiet
<1>8. CASE active.type = "after_flush" /\ durable' = written /\ UNCHANGED <<error, queue>> /\ AskFlush
  <2>1. active.type \notin {"before", "before_flush"} /\ durable' \in {written, durable}
    BY <1>8
  <2>2. flag' \in BOOLEAN
    BY <1>8 DEF JournalType, AskFlush
  <2>3. Types' /\ Monotone
    <3>1. error' \in BOOLEAN /\ (error => error')
      BY <1>8 DEF JournalType
    <3> QED BY <1>6, <1>8, <2>1, <2>2, <3>1
  <2>4. written <= durable'
    BY SMTT(60), <1>8 DEF JournalType
  <2> QED BY <1>3, <1>8, <2>1, <2>3, <2>4, RunQuiet
<1>9. CASE active.type = "before_flush" /\ durable' = written /\ UNCHANGED <<error, queue, flag>>
  <2>1. active.type \in {"before", "before_flush"} /\ ~IsAfter(active) /\ durable' \in {written, durable}
    BY <1>9 DEF IsAfter
  <2>2. Types' /\ Monotone
    <3>1. flag' \in BOOLEAN /\ error' \in BOOLEAN /\ (error => error')
      BY <1>9 DEF JournalType
    <3> QED BY <1>6, <1>9, <2>1, <3>1
  <2> USE <2>2
  <2>3. At(0) = active /\ 1 \in Place /\ At(1).type = "write" /\ PlainFrom(2)
    BY <2>1, HeadFacts
  <2> USE <2>3
  <2>4. Ran(0)
    BY <1>9, RanStay
  <2> USE <2>4
  <2>5. /\ 0 \in Nat /\ 2 \in Nat /\ 2 # 0 /\ 2 + 0 = 2 /\ 1 # 0 /\ 1 + 0 = 1
        /\ \A j \in 1 .. 0 : FALSE
    BY SMTT(60)
  <2> USE <2>5
  <2>6. Keeps(0)
    BY <1>3, RanKeeps DEF Monotone
  <2>7. Shape'
    <3>1. PlainFrom(2)'
      BY RanPlain
    <3>2. At(0)' = NoTask /\ 1 \in Place' /\ At(1)' = At(1)
      BY DEF Ran
    <3>3. At(1)'.type \in {"write", "nop", "after_flush"}
      BY <3>2
    <3> QED BY <3>1, <3>2, <3>3 DEF Shape
  <2>8. OrderInv'
    <3>1. /\ \A k \in Place : k # 0 /\ IsWriter(At(k)) => written' <= At(k).upto
          /\ \A k \in Place : k # 0 /\ At(k).type = "write" => written' <= At(k).to
      BY HeadOrder
    <3> QED BY <2>7, <3>1, RanOrder DEF Monotone
  <2> QED BY <2>1, <2>6, <2>8, RunStep
<1>10. active.type = "before_flush" \/ (active.type = "after_flush" /\ active.type # "before_flush")
  OBVIOUS
<1>11. "before_flush" # "after_flush"
  OBVIOUS
<1> QED BY <1>4, <1>5, <1>7, <1>8, <1>9, <1>10, <1>11

\* The next record of the flusher, behind a FLUSH if its entries need one.
LEMMA EncodeMore ==
  ASSUME Types, Running({"encode", "write", "nop"}), NEW to \in 0 .. MaxAppends, NEW flush \in BOOLEAN,
         queue' = (IF flush /\ ~active.fb THEN <<Nop("before")>> ELSE << >>)
                    \o <<Writer("write", to, active.upto, active.fb \/ flush)>> \o queue
  PROVE  \E w \in Seq(Tasks), d \in {1, 2} :
           /\ queue' = w \o queue /\ Len(w) = d
           /\ w[d].type = "write" /\ w[d].to = to /\ w[d].upto = active.upto
           /\ d = 2 => w[1].type = "before"
<1>1. active \in Tasks /\ IsWriter(active)
  BY DEF Running, Types, ExecType, IsWriter
<1>2. PICK n \in 0 .. MaxAppends, fb \in BOOLEAN : n = active.upto /\ fb = (active.fb \/ flush)
  <2>1. active.upto \in 0 .. MaxAppends /\ (active.fb \/ flush) \in BOOLEAN
    BY <1>1, TaskFacts
  <2> QED BY <2>1
<1>3. PICK x \in Tasks : /\ x = Writer("write", to, active.upto, active.fb \/ flush)
                         /\ x.type = "write" /\ x.to = to /\ x.upto = active.upto
  <2>1. /\ Writer("write", to, n, fb) \in Tasks /\ Writer("write", to, n, fb).type = "write"
        /\ Writer("write", to, n, fb).to = to /\ Writer("write", to, n, fb).upto = n
    BY DEF Writer, Tasks
  <2> QED BY <1>2, <2>1
<1> USE <1>3
<1>4. PICK y \in Tasks : y = Nop("before") /\ y.type = "before"
  <2>1. Nop("before") \in Tasks /\ Nop("before").type = "before"
    BY DEF Nop, Tasks
  <2> QED BY <2>1
<1>5. CASE flush /\ ~active.fb
  <2>1. queue' = (<<y>> \o <<x>>) \o queue
    BY <1>4, <1>5
  <2>2. /\ <<y>> \o <<x>> \in Seq(Tasks) /\ Len(<<y>> \o <<x>>) = 2
        /\ (<<y>> \o <<x>>)[2] = x /\ (<<y>> \o <<x>>)[1] = y
    BY SMTT(60)
  <2>3. PICK w \in Seq(Tasks) : w = <<y>> \o <<x>>
    BY <2>2
  <2> QED BY <1>4, <2>1, <2>2, <2>3
<1>6. CASE ~(flush /\ ~active.fb)
  <2>1. queue' = (<< >> \o <<x>>) \o queue
    BY <1>6
  <2>2. /\ << >> \o <<x>> \in Seq(Tasks) /\ Len(<< >> \o <<x>>) = 1
        /\ (<< >> \o <<x>>)[1] = x /\ 1 # 2
    BY SMTT(60)
  <2>3. PICK w \in Seq(Tasks) : w = << >> \o <<x>>
    BY <2>2
  <2> QED BY <1>4, <2>1, <2>2, <2>3
<1> QED BY <1>5, <1>6

\* cyanfs_journal_writer_encode.
LEMMA InvRunWriter ==
  ASSUME IInv, UNCHANGED inst, RunWriter
  PROVE  IInv'
<1>1. Types /\ JournalType /\ ExecType /\ OrderInv
  BY DEF IInv, Types
<1> USE <1>1
<1>2. /\ active # NoTask /\ ~done /\ IsWriter(active) /\ done' = TRUE
      /\ UNCHANGED <<inst, appended, taken, durable, active>>
      /\ UNCHANGED <<work, pending, waiters, took, barrier, call, owner>>
  BY DEF RunWriter, Running, IsWriter
<1> USE <1>2
<1>3. active.type \notin {"before", "before_flush"} /\ ~IsAfter(active)
  BY DEF IsWriter, IsAfter
<1>4. At(0) = active /\ active \in Tasks /\ 0 \in Place /\ PlainFrom(1)
  BY <1>3, HeadFacts
<1> USE <1>4
<1>5. /\ active.upto \in Nat /\ active.to \in Nat /\ active.upto <= MaxAppends
      /\ written <= active.upto /\ active.upto <= taken
      /\ active.type = "write" => written <= active.to /\ active.to <= active.upto
  BY WriterFacts DEF OrderInv, Bounds
<1> USE <1>5
<1>6. PICK at \in Nat : /\ at = (IF active.type = "write" THEN active.to ELSE written)
                        /\ written <= at /\ at <= active.upto
  BY SMTT(60) DEF JournalType
<1>7. ASSUME written' \in {written, at}, error' \in BOOLEAN, error => error', queue' \in Seq(Tasks), flag' \in BOOLEAN
      PROVE  Types' /\ Monotone /\ written' <= active.upto
  <2>1. /\ written' \in Nat /\ durable' \in Nat /\ written <= written' /\ durable <= durable'
        /\ durable' <= written' /\ written' <= taken /\ written' <= active.upto
    BY SMTT(60), <1>6, <1>7 DEF JournalType
  <2> QED BY <1>7, <2>1, RunTypes
<1>8. CASE /\ UNCHANGED queue /\ flag' \in BOOLEAN
           /\ \/ error' = TRUE /\ written' = written
              \/ error /\ error' = error /\ written' = at
              \/ at = active.upto /\ error' = error /\ written' = at
  <2>1. queue' \in Seq(Tasks)
    BY <1>8 DEF ExecType
  <2>2. written' \in {written, at} /\ error' \in BOOLEAN /\ (error => error')
    <3>1. CASE error' = TRUE
      BY <1>8, <3>1
    <3>2. CASE error' = error
      BY <1>8, <3>2 DEF JournalType
    <3> QED BY <1>8, <3>1, <3>2
  <2>3. Types' /\ Monotone /\ written' <= active.upto
    BY <1>7, <1>8, <2>1, <2>2
  <2>4. error' \/ active.upto <= written'
    BY SMTT(60), <1>8
  <2> QED BY <1>3, <1>8, <2>3, <2>4, RunQuiet
<1>9. CASE /\ at < active.upto /\ written' = at /\ UNCHANGED <<error, flag>>
           /\ \E to \in at + 1 .. active.upto, flush \in BOOLEAN :
                queue' = (IF flush /\ ~active.fb THEN <<Nop("before")>> ELSE << >>)
                           \o <<Writer("write", to, active.upto, active.fb \/ flush)>> \o queue
  <2>1. PICK to \in at + 1 .. active.upto, flush \in BOOLEAN :
          queue' = (IF flush /\ ~active.fb THEN <<Nop("before")>> ELSE << >>)
                     \o <<Writer("write", to, active.upto, active.fb \/ flush)>> \o queue
    BY <1>9
  <2>2. to \in 0 .. MaxAppends /\ to \in Nat /\ at <= to /\ to <= active.upto
    BY SMTT(60), <1>6, BackendAssumption
  <2>3. PICK w \in Seq(Tasks), d \in {1, 2} :
          /\ queue' = w \o queue /\ Len(w) = d
          /\ w[d].type = "write" /\ w[d].to = to /\ w[d].upto = active.upto
          /\ d = 2 => w[1].type = "before"
    BY <2>1, <2>2, EncodeMore DEF RunWriter
  <2> USE <2>3
  <2>4. queue' \in Seq(Tasks) /\ flag' \in BOOLEAN /\ written' \in {written, at}
    <3>1. queue' \in Seq(Tasks)
      BY TasksJoin DEF ExecType
    <3> QED BY <1>9, <3>1 DEF JournalType
  <2>5. Types' /\ Monotone /\ written' <= active.upto
    <3>1. error' \in BOOLEAN /\ (error => error')
      BY <1>9 DEF JournalType
    <3> QED BY <1>7, <1>9, <2>4, <3>1
  <2> USE <2>5
  <2>6. /\ d \in Nat /\ 1 \in Nat /\ 1 # 0 /\ d \in 1 .. d /\ 1 \in 1 .. d /\ d <= d
        /\ \A j \in 1 .. d : j # d => j = 1 /\ d = 2
        /\ d = 1 => 1 + d = 2
        /\ d = 2 => 1 + d = 3
        /\ d = 1 \/ d = 2
    BY OneOrTwo
  <2> USE <2>6
  <2>7. Ran(d) /\ \A j \in 1 .. d : j \in Place' /\ At(j)' = w[j]
    BY RanWith
  <2> USE <2>7
  <2>8. /\ d \in Place' /\ At(d)'.type = "write" /\ At(d)'.to = to /\ At(d)'.upto = active.upto
        /\ 1 \in Place' /\ (d = 2 => At(1)'.type = "before")
    OBVIOUS
  <2> USE <2>8
  <2>9. \A j \in 1 .. d : At(j)'.type # "requeue" /\ (j # d => ~IsWriter(At(j)'))
    <3>1. d = 2 => ~IsWriter(At(1)') /\ At(1)'.type # "requeue"
      BY DEF IsWriter
    <3>2. At(d)'.type # "requeue"
      OBVIOUS
    <3> QED BY <3>1, <3>2
  <2>10. Keeps(d)
    <3>1. active.upto <= At(d)'.upto /\ IsWriter(At(d)')
      BY NatOrder DEF IsWriter
    <3> QED BY <3>1, RanKeeps DEF Monotone
  <2>11. Shape'
    <3>1. PlainFrom(1 + d)'
      BY RanPlain
    <3>2. At(0)' = NoTask
      BY DEF Ran
    <3>3. CASE d = 1
      <4>1. PlainFrom(2)'
        BY <3>1, <3>3
      <4>2. At(1)'.type \in {"write", "nop", "after_flush"}
        BY <3>3
      <4> QED BY <3>2, <4>1, <4>2 DEF Shape
    <3>4. CASE d = 2
      <4>1. PlainFrom(3)'
        BY <3>1, <3>4
      <4>2. At(1)'.type \in {"before", "before_flush"} /\ 2 \in Place' /\ At(2)'.type = "write"
        BY <3>4
      <4> QED BY <3>2, <4>1, <4>2 DEF Shape
    <3> QED BY <3>3, <3>4
  <2>12. OrderInv'
    <3>1. /\ \A k \in Place : k # 0 /\ IsWriter(At(k)) => written' <= At(k).upto
          /\ \A k \in Place : k # 0 /\ At(k).type = "write" => written' <= At(k).to
          /\ \A k \in Place : k # 0 /\ IsWriter(At(k)) => active.upto <= At(k).upto
      BY HeadOrder
    <3>2. /\ At(d)'.type = "write" /\ written' <= At(d)'.to
          /\ At(d)'.to <= At(d)'.upto /\ At(d)'.upto <= taken
          /\ \A k \in Place : k # 0 /\ IsWriter(At(k)) => At(d)'.upto <= At(k).upto
      BY <1>9, <2>2, <3>1
    <3>3. \A j \in 1 .. d : IsWriter(At(j)') =>
            /\ At(j)'.type = "write" /\ written' <= At(j)'.to
            /\ At(j)'.to <= At(j)'.upto /\ At(j)'.upto <= taken
            /\ \A i \in 1 .. d : IsWriter(At(i)') => i = j
            /\ \A k \in Place : k # 0 /\ IsWriter(At(k)) => At(j)'.upto <= At(k).upto
      BY <2>9, <3>2
    <3>4. taken' = taken /\ (error => error')
      BY <1>9
    <3> QED BY <2>11, <3>1, <3>3, <3>4, RanOrder
  <2>13. \A j \in 1 .. d : At(j)'.type # "requeue"
    BY <2>9
  <2> QED BY <1>3, <2>10, <2>12, <2>13, RunStep
<1>10. Encode
  BY DEF RunWriter
<1>11. AskFlush \/ UNCHANGED flag => flag' \in BOOLEAN
  BY DEF JournalType, AskFlush
<1> QED BY <1>6, <1>8, <1>9, <1>10, <1>11 DEF Encode

-----------------------------------------------------------------------------
(* Tasks at the tail, and what they cover.                                 *)

\* cyanfs_super_flusher_start and cyanfs_requeue add tasks at the tail.
LEMMA MovesAppend ==
  ASSUME ExecType, NEW w \in Seq(Tasks), queue' = queue \o w, UNCHANGED <<active, done>>,
         NEW n, n = Len(queue)
  PROVE  /\ n \in Nat /\ Len(queue') = n + Len(w)
         /\ \A k \in Place : k \in Place' /\ At(k)' = At(k)
         /\ \A k \in Place' : k \in Place \/ \E j \in 1 .. Len(w) : k = n + j
         /\ \A j \in 1 .. Len(w) : n + j \in Place' /\ At(n + j)' = w[j]
<1>1. queue \in Seq(Tasks) /\ Len(queue) \in Nat /\ Len(w) \in Nat
  BY SMTT(60) DEF ExecType
<1> USE <1>1
<1>2. Len(queue') = Len(queue) + Len(w)
  BY SMTT(60)
<1> USE <1>2
<1>3. \A k \in 1 .. Len(queue) : queue'[k] = queue[k]
  BY SMTT(60)
<1>4. \A j \in 1 .. Len(w) : queue'[Len(queue) + j] = w[j]
  BY SMTT(60)
<1>5. n \in Nat /\ \E m \in Nat : m = Len(w)
  OBVIOUS
<1> USE <1>5
<1>6. PICK m \in Nat : m = Len(w)
  OBVIOUS
<1> USE <1>6
<1>7. \A k \in Place : k \in Place' /\ At(k)' = At(k)
  BY SMTT(60), <1>3 DEF Place, At
<1>8. \A k \in Place' : k \in Place \/ \E j \in 1 .. m : k = n + j
  <2> SUFFICES ASSUME NEW k \in Place', k \notin Place PROVE k - n \in 1 .. m /\ k = n + (k - n)
    OBVIOUS
  <2> QED BY SMTT(60) DEF Place
<1>9. \A j \in 1 .. m : n + j \in Place' /\ n + j # 0
  BY SMTT(60) DEF Place
<1>10. ASSUME NEW j \in 1 .. m PROVE At(n + j)' = w[j]
  BY <1>4, <1>9 DEF At
<1> QED BY <1>7, <1>8, <1>9, <1>10

\* Further back, more is covered.
LEMMA CoverMore ==
  ASSUME ExecType, NEW n, NEW k \in Int, NEW j \in Int, k <= j, Covered(n, k)
  PROVE  Covered(n, j)
<1>1. \A l \in Place : l \in Int
  BY PlaceFacts
<1>2. \A l \in Place : l < k => l < j
  BY SMTT(60), <1>1
<1> QED BY <1>2 DEF Covered

\* Fewer entries are covered sooner.
LEMMA CoverFewer ==
  ASSUME Types, NEW m \in Nat, NEW n \in Nat, m <= n, NEW k \in Int, Covered(n, k)
  PROVE  Covered(m, k)
<1>1. written \in Nat /\ ExecType
  BY DEF Types, JournalType
<1>2. CASE n <= written
  BY SMTT(60), <1>1, <1>2 DEF Covered
<1>3. ASSUME NEW l \in Place, l < k, IsWriter(At(l)), n <= At(l).upto PROVE Covered(m, k)
  <2>1. At(l).upto \in Nat
    BY <1>1, <1>3, PlaceFacts, WriterFacts
  <2>2. m <= At(l).upto
    BY SMTT(60), <1>3, <2>1
  <2> QED BY <1>3, <2>2 DEF Covered
<1> QED BY <1>2, <1>3 DEF Covered

-----------------------------------------------------------------------------
(* The control of an actor.                                                *)

\* A call goes on, or begins or ends.
Sets(a, o, p, g) ==
  /\ op' = [op EXCEPT ![a] = o]
  /\ pc' = [pc EXCEPT ![a] = p]
  /\ goal' = [goal EXCEPT ![a] = g]

\* Nobody else's control changes.
LEMMA SetsFacts ==
  ASSUME CallType, NEW a \in Actors, NEW o, NEW p, NEW g, Sets(a, o, p, g)
  PROVE  /\ op'[a] = o /\ pc'[a] = p /\ goal'[a] = g
         /\ \A b \in Actors : b # a => SameCall(b)
         /\ o \in Ops /\ p \in PlacesOf(o) /\ g \in Nat =>
              /\ op' \in [Actors -> Ops] /\ goal' \in [Actors -> Nat]
              /\ pc' \in [Actors -> UNION {PlacesOf(x) : x \in Ops}]
<1>1. /\ op \in [Actors -> Ops] /\ goal \in [Actors -> Nat]
      /\ pc \in [Actors -> UNION {PlacesOf(x) : x \in Ops}]
  BY DEF CallType
<1>2. op'[a] = o /\ pc'[a] = p /\ goal'[a] = g
  BY <1>1 DEF Sets
<1>3. \A b \in Actors : b # a => SameCall(b)
  BY <1>1 DEF Sets, SameCall
<1>4. ASSUME o \in Ops, p \in PlacesOf(o), g \in Nat
      PROVE  /\ op' \in [Actors -> Ops] /\ goal' \in [Actors -> Nat]
             /\ pc' \in [Actors -> UNION {PlacesOf(x) : x \in Ops}]
  <2>1. p \in UNION {PlacesOf(x) : x \in Ops}
    BY <1>4
  <2> QED BY <1>1, <1>4, <2>1 DEF Sets
<1> QED BY <1>2, <1>3, <1>4

\* The call goes on.
LEMMA GotoSets ==
  ASSUME CallType, NEW a \in Actors, NEW p, Goto(a, p)
  PROVE  Sets(a, op[a], p, goal[a]) /\ promised' = promised
<1>1. op \in [Actors -> Ops] /\ goal \in [Actors -> Nat]
  BY DEF CallType
<1>2. [op EXCEPT ![a] = op[a]] = op /\ [goal EXCEPT ![a] = goal[a]] = goal
  BY <1>1
<1> QED BY <1>2 DEF Goto, Sets

\* The call is over; a success promises what it was about.
LEMMA ReturnSets ==
  ASSUME NEW a \in Actors, NEW ok, Return(a, ok)
  PROVE  /\ Sets(a, "idle", "idle", 0)
         /\ promised' = promised \/ (ok /\ promised' = goal[a])
BY DEF Return, Sets

\* A call begins.
LEMMA BeginSets ==
  ASSUME NEW a \in Actors, NEW o, NEW p, NEW n, Begin(a, o, p, n)
  PROVE  op[a] = "idle" /\ Sets(a, o, p, n) /\ promised' = promised
BY DEF Begin, Sets

\* The places of each call.
LEMMA PlacesHold ==
  /\ \A o \in Flushes : /\ Flushing \cup Started \subseteq PlacesOf(o)
                        /\ o \in Ops /\ o \notin {"idle", "append", "periodic", "sync", "close"}
  /\ \A o \in {"append", "periodic"} : Started \subseteq PlacesOf(o) /\ o \in Ops
  /\ "put" \in PlacesOf("release") /\ "release" \in Ops
  /\ {"check", "take_ondisk", "wake", "waiter", "queue", "served"} \subseteq PlacesOf("sync")
  /\ {"cancel", "cancelled", "check", "take_ondisk", "wake", "queue", "flush_work", "super_close"}
       \subseteq PlacesOf("close")
  /\ "idle" \in PlacesOf("idle") /\ {"idle", "sync", "close"} \subseteq Ops
BY DEF PlacesOf, Ops, Started, Flushing, Flushes

\* flusher_start returns 0.
LEMMA FlusherReturns ==
  ASSUME Types, NEW a \in Actors, CallOk(a), pc[a] \in Started, AfterFlusher(a)
  PROVE  /\ promised' = promised
         /\ \/ op[a] \in Flushes /\ Sets(a, op[a], "map", goal[a])
            \/ op[a] = "sync" /\ Sets(a, op[a], "waiter", goal[a])
            \/ op[a] = "close" /\ Sets(a, op[a], "queue", goal[a])
            \/ op[a] \in {"append", "periodic"} /\ Sets(a, "idle", "idle", 0)
<1>1. CallType /\ op[a] \in Ops /\ op[a] # "idle"
  <2>1. CallType
    BY DEF Types
  <2>2. op[a] # "idle"
    BY <2>1, PlacesFacts DEF Started
  <2> QED BY <2>1, <2>2 DEF CallType
<1> USE <1>1
<1>2. CASE op[a] \in Flushes
  <2>1. Goto(a, "map")
    BY <1>2 DEF AfterFlusher, Flushes
  <2> QED BY <1>2, <2>1, GotoSets
<1>3. CASE op[a] = "sync"
  <2>1. Goto(a, "waiter")
    BY <1>3 DEF AfterFlusher
  <2> QED BY <1>3, <2>1, GotoSets
<1>4. CASE op[a] = "close"
  <2>1. Goto(a, "queue")
    BY <1>4 DEF AfterFlusher
  <2> QED BY <1>4, <2>1, GotoSets
<1>5. CASE op[a] \in {"append", "periodic"}
  <2>1. Return(a, TRUE)
    BY <1>5 DEF AfterFlusher
  <2>2. goal[a] = 0 /\ promised \in Nat
    BY <1>5 DEF CallOk, Types, JournalType
  <2>3. ~(promised < goal[a])
    BY SMTT(60), <2>2
  <2>4. promised' = promised
    BY <2>1, <2>3 DEF Return
  <2> QED BY <1>5, <2>1, <2>4, ReturnSets
<1> QED BY <1>2, <1>3, <1>4, <1>5 DEF Ops, Flushes

\* flusher_start, or cyanfs_requeue, fails.
LEMMA FlusherFails ==
  ASSUME NEW a \in Actors, CallType, Fail(a)
  PROVE  /\ promised' = promised
         /\ \/ op[a] = "release" /\ Sets(a, op[a], "put", 0)
            \/ op[a] = "close" /\ Sets(a, op[a], "queue", 0)
            \/ op[a] \notin {"release", "close"} /\ Sets(a, "idle", "idle", 0)
<1>1. [op EXCEPT ![a] = op[a]] = op
  BY DEF CallType
<1>2. CASE op[a] \in {"release", "close"}
  BY <1>1, <1>2 DEF Fail, Sets
<1>3. CASE op[a] \notin {"release", "close"}
  <2>1. Return(a, FALSE)
    BY <1>3 DEF Fail
  <2> QED BY <1>3, <2>1, ReturnSets
<1> QED BY <1>2, <1>3

-----------------------------------------------------------------------------
(* Who holds the backend.                                                  *)

\* A busy caller holds a reference, or is the periodic flush that the closer
\* waits for: no close is as far as its barrier.
LEMMA BusyAlone ==
  ASSUME IInv, NEW a \in Actors, op[a] \notin {"idle", "close"}
  PROVE  barrier = "none" /\ ~closed
<1>1. HolderInv /\ CloseInv /\ CallInv /\ CallType /\ "timer" \in Actors
  BY DEF IInv, Types, Actors
<1> USE <1>1
<1>2. ~closed
  BY DEF CloseInv
<1>3. ASSUME NEW b \in Actors, pc[b] \in {"flush_work", "super_close"} PROVE FALSE
  <2>1. op[b] = "close"
    BY <1>3, PlacesFacts DEF CallInv
  <2>2. refs = {}
    BY <2>1 DEF CloseInv
  <2>3. a \in Handles \/ a = "ioctl" \/ a = "timer"
    BY DEF Actors
  <2>4. CASE a \in Handles \/ a = "ioctl"
    BY <2>2, <2>4 DEF HolderInv, Mounted
  <2>5. CASE a = "timer"
    <3>1. pc[b] \notin {"cancel", "cancelled"}
      BY <1>3
    <3>2. op["timer"] = "idle"
      BY <2>1, <3>1 DEF CloseInv
    <3> QED BY <2>5, <3>2
  <2> QED BY <2>3, <2>4, <2>5
<1> QED BY <1>2, <1>3 DEF CloseInv

\* A holder of a reference means that no close has begun.
LEMMA HeldOpen ==
  ASSUME IInv, NEW h \in refs
  PROVE  barrier = "none" /\ ~closed /\ \A b \in Actors : op[b] # "close"
<1>1. CloseInv /\ CallInv /\ CallType
  BY DEF IInv, Types
<1>2. ~closed /\ \A b \in Actors : op[b] # "close"
  BY <1>1 DEF CloseInv
<1>3. \A b \in Actors : pc[b] \notin {"flush_work", "super_close"}
  BY <1>1, <1>2, PlacesFacts DEF CallInv
<1> QED BY <1>1, <1>2, <1>3 DEF CloseInv

\* A busy caller goes on or returns.
LEMMA OwnerBusy ==
  ASSUME IInv, NEW a \in Actors, op[a] \notin {"idle", "close"}, op'[a] \in {op[a], "idle"},
         \A b \in Actors : b # a => SameCall(b), UNCHANGED <<life, refs, armed, closed, barrier>>
  PROVE  HolderInv' /\ CloseInv'
<1>1. HolderInv /\ CloseInv /\ {"timer", "ioctl"} \subseteq Actors /\ Handles \subseteq Actors
  BY DEF IInv, Actors
<1>2. barrier' = "none" /\ ~closed'
  BY BusyAlone
<1>3. \A b \in Actors : op'[b] = op[b] \/ op'[b] = "idle"
  BY DEF SameCall
<1>4. HolderInv'
  BY <1>1, <1>3 DEF HolderInv, Mounted
<1>5. \A b \in Actors : op'[b] = "close" => op[b] = "close" /\ pc'[b] = pc[b]
  <2>1. "idle" # "close"
    OBVIOUS
  <2> QED BY <2>1 DEF SameCall
<1>6. "none" \notin {"running", "done"} /\ "none" # "running" /\ "none" # "done"
  OBVIOUS
<1>7. ~Drained'
  BY <1>2, <1>6 DEF Drained
<1>8. ASSUME NEW b \in Actors, op'[b] = "close"
      PROVE  /\ refs' = {} /\ ~closed'
             /\ \A c \in Actors : op'[c] = "close" => c = b
             /\ pc'[b] # "cancel" => ~armed'
             /\ pc'[b] \notin {"cancel", "cancelled"} => op'["timer"] = "idle"
             /\ pc'[b] = "super_close" => barrier' = "done"
  BY <1>1, <1>3, <1>5, <1>8 DEF CloseInv
<1>9. CloseInv'
  BY <1>2, <1>6, <1>7, <1>8 DEF CloseInv
<1> QED BY <1>4, <1>9

\* A call begins, by a holder of a reference or by the delayed work.
LEMMA OwnerBegins ==
  ASSUME IInv, NEW a \in Actors, op'[a] # "close",
         \A b \in Actors : b # a => SameCall(b), UNCHANGED <<life, refs, armed, closed, barrier>>,
         \/ a \in Handles /\ life[a] \in {"open", "unmapped"}
         \/ a = "ioctl" /\ Mounted /\ op'[a] \in {"append", "sync"}
         \/ a = "timer" /\ armed /\ op'[a] = "periodic"
  PROVE  HolderInv' /\ CloseInv'
<1>1. HolderInv /\ CloseInv /\ {"timer", "ioctl"} \subseteq Actors /\ Handles \subseteq Actors
      /\ CallInv /\ CallType
  BY DEF IInv, Types, Actors
<1> USE <1>1
<1>2. "timer" # "ioctl" /\ "timer" \notin Handles /\ "ioctl" \notin Handles
  BY BackendAssumption DEF Handles
<1>3. HolderInv'
  BY <1>2 DEF HolderInv, Mounted, SameCall
<1>4. \A b \in Actors : op'[b] = "close" => b # a /\ op[b] = "close" /\ pc'[b] = pc[b]
  BY DEF SameCall
<1>5. barrier = "none" /\ ~closed
  <2>1. CASE a # "timer"
    <3>1. refs # {}
      BY <2>1 DEF HolderInv, Mounted
    <3> QED BY <3>1, HeldOpen
  <2>2. CASE a = "timer"
    <3>1. armed
      BY <1>2, <2>2
    <3>2. ~closed
      BY <3>1 DEF CloseInv
    <3>3. ASSUME NEW b \in Actors, pc[b] \in {"flush_work", "super_close"} PROVE FALSE
      <4>1. op[b] = "close" /\ pc[b] # "cancel"
        BY <3>3, PlacesFacts DEF CallInv
      <4> QED BY <3>1, <4>1 DEF CloseInv
    <3> QED BY <3>2, <3>3 DEF CloseInv
  <2> QED BY <2>1, <2>2
<1>6. "none" \notin {"running", "done"} /\ "none" # "running" /\ "none" # "done"
  OBVIOUS
<1>7. ~Drained'
  BY <1>5, <1>6 DEF Drained
<1>8. ASSUME NEW b \in Actors, op'[b] = "close"
      PROVE  /\ refs' = {} /\ ~closed'
             /\ \A c \in Actors : op'[c] = "close" => c = b
             /\ pc'[b] # "cancel" => ~armed'
             /\ pc'[b] \notin {"cancel", "cancelled"} => op'["timer"] = "idle"
             /\ pc'[b] = "super_close" => barrier' = "done"
  <2>1. refs = {} /\ op[b] = "close" /\ b # a /\ pc'[b] = pc[b]
    BY <1>4, <1>8 DEF CloseInv
  <2>2. a = "timer" /\ armed
    BY <2>1 DEF HolderInv, Mounted
  <2>3. pc[b] = "cancel"
    BY <2>1, <2>2 DEF CloseInv
  <2> QED BY SMTT(60), <1>4, <1>5, <1>8, <2>1, <2>3 DEF CloseInv
<1>9. CloseInv'
  BY <1>5, <1>6, <1>7, <1>8 DEF CloseInv
<1> QED BY <1>3, <1>9

\* A reference is dropped; the last one begins the close.
LEMMA OwnerPut ==
  ASSUME IInv, NEW a \in Actors, NEW holder \in refs, refs' = refs \ {holder},
         IF refs' = {} THEN op'[a] = "close" /\ pc'[a] = "cancel" ELSE op'[a] = "idle",
         \A b \in Actors : b # a => SameCall(b), a # "timer",
         \A h \in Handles : h # holder => life'[h] = life[h],
         holder \in Handles => holder = a /\ life'[holder] = "gone",
         holder = "tree" => a = "ioctl",
         holder = "tree" \/ holder \in Handles,
         UNCHANGED <<armed, closed, barrier>>
  PROVE  HolderInv' /\ CloseInv'
<1>1. HolderInv /\ CloseInv /\ {"timer", "ioctl"} \subseteq Actors /\ Handles \subseteq Actors
  BY DEF IInv, Actors
<1> USE <1>1
<1>2. barrier' = "none" /\ ~closed' /\ \A b \in Actors : op[b] # "close"
  BY HeldOpen
<1>3. "timer" # "ioctl" /\ "timer" \notin Handles /\ "ioctl" \notin Handles /\ "tree" \notin Handles
      /\ "gone" \notin {"open", "unmapped"}
  BY BackendAssumption DEF Handles
<1>4. op'[a] \in {"idle", "close"}
  OBVIOUS
<1>5. HolderInv'
  <2>1. \A h \in Handles : life'[h] \in {"open", "unmapped"} => h \in refs'
    BY <1>3 DEF HolderInv
  <2>2. \A h \in Handles : op'[h] \notin {"idle", "close"} => life'[h] \in {"open", "unmapped"}
    BY <1>3, <1>4 DEF HolderInv, SameCall
  <2>3. op'["ioctl"] \notin {"idle", "close"} => Mounted'
    BY <1>3, <1>4 DEF HolderInv, SameCall, Mounted
  <2>4. op'["timer"] \in {"idle", "periodic"} /\ op'["ioctl"] \in {"idle", "append", "sync", "close"}
    BY <1>4 DEF HolderInv, SameCall
  <2> QED BY <2>1, <2>2, <2>3, <2>4 DEF HolderInv
<1>6. "none" \notin {"running", "done"} /\ "none" # "running" /\ "none" # "done" /\ "idle" # "close"
      /\ "cancel" # "super_close"
  OBVIOUS
<1>7. ~Drained'
  BY <1>2, <1>6 DEF Drained
<1>8. \A b \in Actors : op'[b] = "close" => b = a /\ refs' = {} /\ pc'[b] = "cancel"
  BY <1>2, <1>6 DEF SameCall
<1>9. CloseInv'
  BY <1>2, <1>6, <1>7, <1>8 DEF CloseInv
<1> QED BY <1>5, <1>9

\* The closer on its way to the barrier.
LEMMA OwnerCloses ==
  ASSUME IInv, NEW a \in Actors, op[a] = "close", op'[a] = "close",
         pc[a] \notin {"flush_work", "super_close"}, pc'[a] \notin {"flush_work", "super_close"},
         \A b \in Actors : b # a => SameCall(b), UNCHANGED <<life, refs, closed, barrier>>,
         pc'[a] # "cancel" => ~armed',
         pc'[a] \notin {"cancel", "cancelled"} => op["timer"] = "idle"
  PROVE  HolderInv' /\ CloseInv' /\ barrier = "none"
<1>1. HolderInv /\ CloseInv /\ {"timer", "ioctl"} \subseteq Actors /\ Handles \subseteq Actors
      /\ CallInv /\ CallType
  BY DEF IInv, Types, Actors
<1> USE <1>1
<1>2. \A b \in Actors : op'[b] = op[b]
  BY DEF SameCall
<1>3. HolderInv'
  BY <1>2 DEF HolderInv, Mounted
<1>4. ~closed /\ \A b \in Actors : op[b] = "close" => b = a
  BY DEF CloseInv
<1>5. barrier = "none"
  <2>1. \A b \in Actors : pc[b] \notin {"flush_work", "super_close"}
    BY <1>4, PlacesFacts DEF CallInv
  <2> QED BY <1>4, <2>1 DEF CloseInv
<1>6. "none" \notin {"running", "done"} /\ "none" # "running" /\ "none" # "done"
  OBVIOUS
<1>7. ~Drained'
  BY <1>5, <1>6 DEF Drained
<1>8. pc'[a] # "super_close"
  OBVIOUS
<1>9. refs' = {} /\ ~closed'
  BY DEF CloseInv
<1>10. CloseInv'
  BY <1>2, <1>4, <1>5, <1>6, <1>7, <1>8, <1>9 DEF CloseInv
<1> QED BY <1>3, <1>5, <1>10

-----------------------------------------------------------------------------
(* A step of an actor that adds no task.                                   *)

\* What the step of one actor has to establish.
LEMMA ActorStep ==
  ASSUME IInv, Types', NEW a \in Actors, \A b \in Actors : b # a => SameCall(b) /\ SameComp(b),
         UNCHANGED still, Monotone, CallOk(a)', SyncOk(a)',
         took' = took, work' = work, Drained' => Drained,
         waiters' = waiters \/ waiters' = waiters \cup {a},
         a \in Handles /\ pc[a] \in {"requeue_wake", "wait"} /\ comp[a] = "none" =>
           pc'[a] \in {"requeue_wake", "wait"} /\ comp'[a] = "none" /\ goal'[a] = goal[a],
         HolderInv', CloseInv', FlushedIsDurable'
  PROVE  IInv'
<1>1. Types /\ OrderInv /\ TakenInv /\ RequeueInv /\ CallInv /\ SyncInv /\ WorkInv
  BY DEF IInv
<1> USE <1>1
<1>2. durable <= durable' /\ (error => error')
  BY DEF Monotone
<1>3. OrderInv' /\ TakenInv' /\ AftersKept /\ Keeps(0) /\ Back(0, NoTask)
  BY <1>2, CalmQueue
<1>4. CallInv'
  BY CallKept DEF CallInv
<1>5. SyncInv'
  <2>1. \A b \in Actors : b # a => (b \in waiters' \cup took' <=> b \in waiters \cup took)
    BY OthersIn
  <2>2. ASSUME NEW b \in Actors, b # a PROVE SyncOk(b)'
    BY <1>3, <2>1, <2>2, SyncKept DEF SyncInv
  <2> QED BY <2>2 DEF SyncInv
<1>6. RequeueInv'
  <2>1. Handles \subseteq Actors /\ 0 \in Int
    BY FirstPlaces DEF Actors
  <2>2. \A b \in Handles :
          pc[b] \in {"requeue_wake", "wait"} /\ comp[b] = "none" =>
            pc'[b] \in {"requeue_wake", "wait"} /\ comp'[b] = "none" /\ goal'[b] = goal[b]
    BY <2>1 DEF SameCall, SameComp
  <2> QED BY <1>2, <1>3, <2>1, <2>2, RequeueMoves
<1>7. WorkInv'
  BY DEF WorkInv, still
<1> QED BY <1>3, <1>4, <1>5, <1>6, <1>7 DEF IInv

\* Only the control of the actor changes, and it waits for no device flush.
LEMMA ControlStep ==
  ASSUME IInv, UNCHANGED <<inst, still, durable, flag, took, work, comp, cover>>,
         appended' \in Nat, appended <= appended', appended' <= MaxAppends, promised' \in Nat,
         promised' <= durable, pending' \in BOOLEAN,
         barrier' \in {"none", "pending", "running", "done"}, Drained' => Drained,
         OwnerType', HolderInv', CloseInv',
         NEW a \in Actors, NEW o \in Ops, NEW p \in PlacesOf(o), NEW g \in Nat, Sets(a, o, p, g),
         pc[a] \notin {"requeue_wake", "wait"}, g <= appended',
         o \in {"idle", "append", "periodic"} => g = 0,
         o \in Flushes /\ p \in Flushing \cup {"wake"} => g <= taken,
         p = "submit" => error \/ g <= written,
         waiters' = waiters \/ waiters' = waiters \cup {a},
         a \in waiters' \cup took => o = "sync" /\ p \in {"queue", "served"},
         \/ o = "sync" /\ p \in {"wake", "waiter", "queue", "served"}
         \/ o = "close" /\ p \in {"wake", "queue", "flush_work", "super_close"}
         => Synced(g) \/ HasAfter(g),
         o = "sync" /\ p \in {"queue", "served"} /\ a \notin waiters' \cup took => Synced(g),
         a \in took /\ work = "complete" => Synced(g),
         o = "close" /\ Drained' => Synced(g)
  PROVE  IInv'
<1>1. Types /\ CallInv /\ OrderInv /\ TakenInv
  BY DEF IInv
<1>2. JournalType /\ ExecType /\ CallType /\ CallOk(a)
  BY <1>1 DEF Types, CallInv
<1> USE <1>2
<1>3. /\ op'[a] = o /\ pc'[a] = p /\ goal'[a] = g /\ \A b \in Actors : b # a => SameCall(b)
      /\ op' \in [Actors -> Ops] /\ goal' \in [Actors -> Nat]
      /\ pc' \in [Actors -> UNION {PlacesOf(x) : x \in Ops}]
  BY SetsFacts
<1> USE <1>3
<1>4. JournalType'
  <2>1. /\ appended \in Nat /\ taken \in Nat /\ taken <= appended /\ durable <= written /\ written <= taken
        /\ inst' \in Instances /\ taken' = taken /\ written' = written /\ durable' = durable
        /\ written \in Nat /\ durable \in Nat /\ flag' \in BOOLEAN /\ error' \in BOOLEAN
    BY DEF JournalType, still
  <2>2. taken <= appended'
    BY NatOrder, <2>1
  <2> QED BY <2>1, <2>2 DEF JournalType
<1>5. ExecType'
  BY DEF ExecType, still
<1>6. CallType'
  BY DEF CallType
<1>7. Types'
  BY <1>4, <1>5, <1>6 DEF Types
<1>8. Monotone /\ durable <= durable'
  BY NatOrder DEF JournalType, still, Monotone
<1>9. comp'[a] = "none" /\ comp[a] = "none"
  BY DEF CallOk
<1>10. "none" # "fired" /\ "none" # "flushing" /\ "none" # "ok"
  OBVIOUS
<1>11. cover'[a] <= written'
  BY DEF CallOk, still
<1>12. CallOk(a)'
  BY <1>9, <1>10, <1>11 DEF CallOk, still
<1>13. Synced(g)' = Synced(g) /\ HasAfter(g)' = HasAfter(g)
  <2>1. Place' = Place /\ \A k : At(k)' = At(k)
    BY DEF still, Place, At
  <2>2. \A k : Covered(g, k)' = Covered(g, k)
    BY <2>1 DEF Covered, still
  <2> QED BY <2>1, <2>2 DEF Synced, HasAfter, still
<1>14. SyncOk(a)'
  BY <1>13 DEF SyncOk, Syncing
<1>15. FlushedIsDurable'
  BY DEF FlushedIsDurable, JournalType
<1>16. \A b \in Actors : b # a => SameCall(b) /\ SameComp(b)
  BY DEF SameComp
<1> QED BY <1>7, <1>8, <1>12, <1>14, <1>15, <1>16, ActorStep

\* A call goes on, or returns without a promise, before it waits for anything.
LEMMA CallGoesOn ==
  ASSUME IInv, UNCHANGED <<inst, journal, queue, active, done, work, took, waiters, barrier, comp,
                           cover, life, refs, armed, closed, promised>>,
         pending' \in BOOLEAN,
         NEW a \in Actors, NEW o \in Ops, NEW p \in PlacesOf(o), NEW g, Sets(a, o, p, g),
         op[a] # "idle", o \in {op[a], "idle"}, g \in {0, goal[a]},
         pc[a] \notin {"requeue_wake", "wait", "queue", "served", "cancel", "cancelled",
                       "flush_work", "super_close"},
         op[a] = "close" => o = "close" /\ p \notin {"cancel", "cancelled", "flush_work", "super_close"},
         o = "sync" => p \notin {"queue", "served"},
         o = "idle" => g = 0,
         o \in Flushes /\ p \in Flushing \cup {"wake"} => g <= taken,
         p = "submit" => error \/ g <= written,
         \/ o = "sync" /\ p \in {"wake", "waiter", "queue", "served"}
         \/ o = "close" /\ p \in {"wake", "queue", "flush_work", "super_close"}
         => Synced(g) \/ HasAfter(g)
  PROVE  IInv'
<1>1. CallOk(a) /\ SyncOk(a) /\ Types /\ CloseInv
  BY DEF IInv, CallInv, SyncInv
<1> USE <1>1
<1>2. CallType /\ JournalType /\ ExecType /\ OwnerType
  BY DEF Types
<1> USE <1>2
<1>3. g \in Nat /\ g <= appended
  <2>1. goal[a] \in Nat /\ goal[a] <= appended /\ appended \in Nat
    BY DEF CallOk, CallType, JournalType
  <2> QED BY NatOrder, <2>1
<1>4. op'[a] = o /\ pc'[a] = p /\ \A b \in Actors : b # a => SameCall(b)
  BY SetsFacts
<1>5. /\ UNCHANGED <<inst, still, durable, flag, took, work, comp, cover>> /\ UNCHANGED waiters
      /\ UNCHANGED <<life, refs, armed, closed, barrier>> /\ appended' = appended
  BY DEF journal, still
<1> USE <1>5
<1>6. /\ appended' \in Nat /\ appended <= appended' /\ appended' <= MaxAppends /\ promised' \in Nat
      /\ promised' <= durable /\ g <= appended'
  BY NatOrder, <1>3 DEF JournalType, IInv, FlushedIsDurable
<1>7. barrier' \in {"none", "pending", "running", "done"} /\ (Drained' => Drained) /\ OwnerType'
  BY DEF ExecType, Drained, OwnerType
<1>8. /\ HolderInv' /\ CloseInv'
      /\ o = "close" => barrier = "none"
  <2>1. CASE op[a] # "close"
    <3>1. o # "close"
      BY <2>1
    <3> QED BY <1>4, <2>1, <3>1, OwnerBusy
  <2>2. CASE op[a] = "close"
    <3>1. ~armed /\ op["timer"] = "idle"
      BY <2>2 DEF CloseInv
    <3>2. /\ pc[a] \notin {"flush_work", "super_close"} /\ p \notin {"flush_work", "super_close"}
          /\ o = "close"
      BY <2>2
    <3>3. /\ op'[a] = "close" /\ pc'[a] \notin {"flush_work", "super_close"} /\ ~armed'
          /\ UNCHANGED <<life, refs, closed, barrier>>
      <4>1. op'[a] = "close" /\ pc'[a] = p
        BY <1>4, <3>2
      <4>2. UNCHANGED armed /\ UNCHANGED <<life, refs, closed, barrier>>
        OBVIOUS
      <4>3. pc'[a] \notin {"flush_work", "super_close"}
        BY <3>2, <4>1
      <4>4. ~armed'
        <5> HIDE <1>1, <1>2, <1>5
        <5> QED BY SMTT(60), <3>1, <4>2
      <4> QED BY <4>1, <4>2, <4>3, <4>4
    <3> QED BY <1>4, <2>2, <3>1, <3>2, <3>3, OwnerCloses
  <2> QED BY <2>1, <2>2
<1>9. a \notin waiters' \cup took /\ a \notin waiters' /\ a \notin took
  BY DEF SyncOk
<1>10. o \in {"append", "periodic"} => g = 0
  BY DEF CallOk
<1>11. ~(o = "close" /\ Drained')
  BY <1>8 DEF Drained
<1>12. pc[a] \notin {"requeue_wake", "wait"} /\ (o \in {"idle", "append", "periodic"} => g = 0)
       /\ ~(o = "sync" /\ p \in {"queue", "served"})
  BY <1>10
<1> QED BY <1>3, <1>6, <1>7, <1>8, <1>9, <1>11, <1>12, ControlStep

\* cyanfs_super_flusher_start under the read lock.
LEMMA InvFlusherCheck ==
  ASSUME IInv, UNCHANGED inst, NEW a \in Actors, FlusherCheck(a)
  PROVE  IInv'
<1>1. CallOk(a) /\ SyncOk(a) /\ CallType /\ JournalType /\ Types
  BY DEF IInv, CallInv, SyncInv, Types
<1> USE <1>1
<1>2. pc[a] = "check" /\ op[a] \in Ops /\ op[a] # "idle" /\ goal[a] \in Nat
  <2>1. pc[a] = "check"
    BY DEF FlusherCheck
  <2> QED BY <2>1, PlacesFacts DEF CallType
<1> USE <1>2
<1>3. UNCHANGED <<inst, journal, queue, active, done, work, took, waiters, barrier, comp,
                  cover, life, refs, armed, closed, pending>>
  BY DEF FlusherCheck, exec, owner
<1> USE <1>3
<1>4. pending' \in BOOLEAN
  BY DEF Types, ExecType
<1> USE <1>4
<1>5. pc[a] \notin {"requeue_wake", "wait", "queue", "served", "cancel", "cancelled",
                    "flush_work", "super_close"} /\ pc[a] \in Started
  BY DEF Started
<1> USE <1>5
<1>6. CASE Fail(a)
  <2>1. promised' = promised
    BY <1>6, FlusherFails
  <2>2. CASE op[a] = "release" /\ Sets(a, op[a], "put", 0)
    <3>1. "put" \in PlacesOf(op[a]) /\ "put" \notin Flushing \cup {"wake"} /\ "put" # "submit"
          /\ op[a] \notin {"sync", "close"}
      BY <2>2 DEF PlacesOf, Flushing
    <3> QED BY <2>1, <2>2, <3>1, CallGoesOn
  <2>3. CASE op[a] = "close" /\ Sets(a, op[a], "queue", 0)
    <3>1. /\ "queue" \in PlacesOf(op[a]) /\ op[a] \notin Flushes /\ "queue" # "submit"
          /\ op[a] # "sync" /\ op[a] # "idle"
          /\ "queue" \notin {"cancel", "cancelled", "flush_work", "super_close"}
      BY <2>3 DEF PlacesOf, Flushes
    <3>2. Synced(0)
      BY NatOrder DEF Synced, JournalType
    <3> QED BY <2>1, <2>3, <3>1, <3>2, CallGoesOn
  <2>4. CASE op[a] \notin {"release", "close"} /\ Sets(a, "idle", "idle", 0)
    <3>1. /\ "idle" \in PlacesOf("idle") /\ "idle" \in Ops /\ "idle" \notin Flushes /\ "idle" # "submit"
          /\ "idle" # "sync" /\ "idle" # "close"
      BY DEF PlacesOf, Ops, Flushes
    <3> QED BY <2>1, <2>4, <3>1, CallGoesOn
  <2> QED BY <1>6, <2>2, <2>3, <2>4, FlusherFails
<1>7. ASSUME NEW p \in {"take", "take_ondisk"}, Goto(a, p), p = "take" => op[a] \notin {"sync", "close"}
      PROVE  IInv'
  <2>1. promised' = promised /\ Sets(a, op[a], p, goal[a])
    BY <1>7, GotoSets
  <2>2. p \in PlacesOf(op[a])
    BY <1>7 DEF PlacesOf, Ops, Started
  <2>3. /\ p \notin Flushing \cup {"wake"} /\ p # "submit"
        /\ p \notin {"cancel", "cancelled", "flush_work", "super_close"}
        /\ p \notin {"wake", "waiter", "queue", "served"}
    BY <1>7 DEF Flushing
  <2>4. p \notin {"queue", "served"} /\ p \notin {"wake", "queue", "flush_work", "super_close"}
    BY <2>3
  <2> QED BY <2>1, <2>2, <2>3, <2>4, CallGoesOn
<1>8. ASSUME AfterFlusher(a), op[a] \notin {"sync", "close"},
             op[a] # "append" => appended - taken <= 0
      PROVE  IInv'
  <2>1. promised' = promised
    BY <1>8, FlusherReturns
  <2>2. CASE op[a] \in Flushes /\ Sets(a, op[a], "map", goal[a])
    <3>1. goal[a] <= taken
      <4>1. op[a] # "append"
        BY <2>2 DEF Flushes
      <4> QED BY NatOrder, <1>8, <4>1 DEF JournalType, CallOk
    <3>2. "map" \in PlacesOf(op[a]) /\ "map" # "submit" /\ op[a] # "idle"
      BY <2>2 DEF PlacesOf, Flushes, Flushing
    <3> QED BY <1>8, <2>1, <2>2, <3>1, <3>2, CallGoesOn
  <2>3. CASE op[a] \in {"append", "periodic"} /\ Sets(a, "idle", "idle", 0)
    <3>1. /\ "idle" \in PlacesOf("idle") /\ "idle" \in Ops /\ "idle" \notin Flushes /\ "idle" # "submit"
          /\ "idle" # "sync" /\ "idle" # "close"
      BY SMTT(60) DEF PlacesOf, Ops, Flushes
    <3> QED BY <1>8, <2>1, <2>3, <3>1, CallGoesOn
  <2> QED BY <1>8, <2>2, <2>3, FlusherReturns
<1>9. ASSUME NEW disk \in BOOLEAN, disk = (op[a] \in {"sync", "close"} \/ flag),
             NEW nothing \in BOOLEAN,
             nothing = (appended - taken <= (IF op[a] = "append" THEN inst.inflight ELSE 0) /\ ~disk)
      PROVE  IInv'
  <2>1. CASE Fail(a)
    BY <1>6, <2>1
  <2>2. CASE nothing /\ AfterFlusher(a)
    <3>1. op[a] # "append" => appended - taken <= 0
      BY <1>9, <2>2
    <3> QED BY <1>8, <1>9, <2>2, <3>1
  <2>3. CASE Goto(a, IF disk THEN "take_ondisk" ELSE "take")
    <3>1. PICK p \in {"take", "take_ondisk"} : Goto(a, p) /\ (p = "take" => ~disk)
      <4>1. "take" # "take_ondisk"
        OBVIOUS
      <4> QED BY <2>3, <4>1
    <3> QED BY <1>7, <1>9, <3>1
  <2> QED BY <1>9, <2>1, <2>2, <2>3 DEF FlusherCheck
<1> QED BY <1>9

\* A flush of a file goes on or returns.
LEMMA FlushStep ==
  ASSUME IInv, NEW a \in Actors, op[a] \in Flushes, pc[a] \notin {"queue", "served"},
         UNCHANGED <<inst, still, appended, flag, waiters, took, work, barrier, life, refs, armed,
                     closed>>,
         pending' \in BOOLEAN, durable' \in Nat, durable <= durable', durable' <= written,
         promised' \in Nat, promised' <= durable',
         \A b \in Actors : b # a => SameCall(b) /\ SameComp(b), op'[a] \in {op[a], "idle"},
         CallType', CallOk(a)',
         pc[a] \in {"requeue_wake", "wait"} /\ comp[a] = "none" =>
           pc'[a] \in {"requeue_wake", "wait"} /\ comp'[a] = "none" /\ goal'[a] = goal[a]
  PROVE  IInv'
<1>1. Types /\ SyncOk(a)
  BY DEF IInv, SyncInv
<1>2. JournalType /\ ExecType /\ OwnerType
  BY <1>1 DEF Types
<1>3. JournalType'
  <2>1. /\ inst' \in Instances /\ appended' \in Nat /\ taken' \in Nat /\ written' \in Nat
        /\ flag' \in BOOLEAN /\ error' \in BOOLEAN /\ written' = written
        /\ written' <= taken' /\ taken' <= appended' /\ appended' <= MaxAppends
    BY <1>2 DEF JournalType, still
  <2> QED BY <2>1 DEF JournalType
<1>4. ExecType' /\ OwnerType'
  BY <1>2 DEF ExecType, OwnerType, still
<1>5. Types'
  BY <1>3, <1>4 DEF Types
<1>6. Monotone
  BY NatOrder, <1>2 DEF Monotone, JournalType, still
<1>7. op[a] \notin {"idle", "close", "sync"} /\ op'[a] \notin {"close", "sync"}
  BY DEF Flushes
<1>8. HolderInv' /\ CloseInv'
  BY <1>7, OwnerBusy
<1>9. a \notin waiters' \cup took' /\ a \notin took'
  BY <1>1 DEF SyncOk
<1>10. SyncOk(a)'
  BY <1>7, <1>9 DEF SyncOk, Syncing
<1>11. Drained' => Drained
  BY DEF Drained
<1>12. FlushedIsDurable'
  BY <1>3 DEF FlushedIsDurable, JournalType
<1> QED BY <1>5, <1>6, <1>8, <1>10, <1>11, <1>12, ActorStep

\* The work item is queued for a new task.
LEMMA InvNewTask ==
  ASSUME IInv, UNCHANGED inst, NEW a \in Actors, NewTask(a)
  PROVE  IInv'
<1>1. CallOk(a) /\ SyncOk(a) /\ CallType /\ JournalType /\ Types /\ op[a] \in Ops
  BY DEF IInv, CallInv, SyncInv, Types, CallType
<1> USE <1>1
<1>2. UNCHANGED <<inst, journal, queue, active, done, work, took, waiters, barrier, comp,
                  cover, life, refs, armed, closed>> /\ pending' \in BOOLEAN
  BY DEF NewTask, owner
<1> USE <1>2
<1>3. CASE pc[a] = "wake"
  <2>1. AfterFlusher(a)
    BY <1>3 DEF NewTask
  <2>2. pc[a] \in Started /\ pc[a] \notin {"requeue_wake", "wait", "queue", "served", "cancel",
                                           "cancelled", "flush_work", "super_close"}
    BY <1>3 DEF Started
  <2> USE <2>2
  <2>3. promised' = promised /\ op[a] # "idle"
    BY <1>3, <2>1, FlusherReturns, PlacesFacts
  <2> USE <2>3
  <2>4. CASE op[a] \in Flushes /\ Sets(a, op[a], "map", goal[a])
    <3>1. goal[a] <= taken
      BY <1>3, <2>4 DEF CallOk
    <3>2. "map" \in PlacesOf(op[a]) /\ "map" # "submit" /\ op[a] \notin {"sync", "close"}
      BY <2>4 DEF PlacesOf, Flushes, Flushing
    <3> QED BY <2>4, <3>1, <3>2, CallGoesOn
  <2>5. CASE op[a] = "sync" /\ Sets(a, op[a], "waiter", goal[a])
    <3>1. Synced(goal[a]) \/ HasAfter(goal[a])
      BY <1>3, <2>5 DEF SyncOk, Syncing
    <3>2. "waiter" \in PlacesOf(op[a]) /\ "waiter" # "submit" /\ op[a] \notin Flushes
          /\ "waiter" \notin {"queue", "served"} /\ op[a] # "close"
      BY <2>5 DEF PlacesOf, Flushes
    <3> QED BY <2>5, <3>1, <3>2, CallGoesOn
  <2>6. CASE op[a] = "close" /\ Sets(a, op[a], "queue", goal[a])
    <3>1. Synced(goal[a]) \/ HasAfter(goal[a])
      BY <1>3, <2>6 DEF SyncOk, Syncing
    <3>2. "queue" \in PlacesOf(op[a]) /\ "queue" # "submit" /\ op[a] \notin Flushes
          /\ "queue" \notin {"cancel", "cancelled", "flush_work", "super_close"} /\ op[a] # "sync"
      BY <2>6 DEF PlacesOf, Flushes
    <3> QED BY <2>6, <3>1, <3>2, CallGoesOn
  <2>7. CASE op[a] \in {"append", "periodic"} /\ Sets(a, "idle", "idle", 0)
    <3>1. /\ "idle" \in PlacesOf("idle") /\ "idle" \in Ops /\ "idle" \notin Flushes /\ "idle" # "submit"
          /\ "idle" # "sync" /\ "idle" # "close" /\ op[a] # "close"
      BY <2>7 DEF PlacesOf, Ops, Flushes
    <3> QED BY <2>7, <3>1, CallGoesOn
  <2> QED BY <2>1, <2>4, <2>5, <2>6, <2>7, FlusherReturns
<1>4. CASE pc[a] = "requeue_wake"
  <2>1. Goto(a, "wait")
    <3>1. "requeue_wake" # "wake"
      OBVIOUS
    <3> QED BY <1>4, <3>1 DEF NewTask
  <2>2. promised' = promised /\ Sets(a, op[a], "wait", goal[a])
    BY <2>1, GotoSets
  <2>3. op[a] \in Flushes /\ "requeue_wake" \in Flushing /\ "wait" \in Flushing
    BY <1>4, PlacesFacts DEF Flushing
  <2>4. "wait" \in PlacesOf(op[a]) /\ goal[a] \in Nat /\ "wait" # "submit"
    BY <2>3, PlacesHold DEF CallType
  <2>5. /\ op'[a] = op[a] /\ pc'[a] = "wait" /\ goal'[a] = goal[a]
        /\ \A b \in Actors : b # a => SameCall(b)
        /\ op' \in [Actors -> Ops] /\ goal' \in [Actors -> Nat]
        /\ pc' \in [Actors -> UNION {PlacesOf(x) : x \in Ops}]
    BY <2>2, <2>4, SetsFacts
  <2> USE <2>5
  <2>6. CallType'
    BY DEF CallType
  <2>7. CallOk(a)'
    BY <1>4, <2>3, <2>4 DEF CallOk, journal
  <2>8. \A b \in Actors : b # a => SameCall(b) /\ SameComp(b)
    BY DEF SameComp
  <2>9. UNCHANGED <<inst, still, appended, flag, waiters, took, work, barrier, life, refs, armed,
                    closed>> /\ durable' = durable
    BY DEF journal, still
  <2>10. /\ durable' \in Nat /\ durable <= durable' /\ durable' <= written
         /\ promised' \in Nat /\ promised' <= durable'
    BY NatOrder, <2>2, <2>9 DEF JournalType, IInv, FlushedIsDurable
  <2>11. pc[a] \notin {"queue", "served"}
    BY <1>4
  <2> QED BY <2>3, <2>6, <2>7, <2>8, <2>9, <2>10, <2>11, FlushStep
<1> QED BY <1>3, <1>4 DEF NewTask

\* With no task under way everything that was taken is written.
LEMMA AllWritten ==
  ASSUME Types, TakenInv, queue = << >>, active = NoTask
  PROVE  error \/ taken <= written
<1>1. Place = {0} /\ At(0) = NoTask
  BY SMTT(60) DEF Place, At
<1>2. ~IsWriter(NoTask)
  BY DEF IsWriter, NoTask
<1> QED BY <1>1, <1>2 DEF TakenInv, Covered

\* cyanfs_flush looks whether a task is under way.
LEMMA InvFlushMap ==
  ASSUME IInv, UNCHANGED inst, NEW a \in Actors, FlushMap(a)
  PROVE  IInv'
<1>1. CallOk(a) /\ CallType /\ JournalType /\ Types /\ op[a] \in Ops /\ TakenInv
  BY DEF IInv, CallInv, Types, CallType
<1> USE <1>1
<1>2. UNCHANGED <<inst, journal, queue, active, done, work, took, waiters, barrier, comp,
                  cover, life, refs, armed, closed>> /\ pending' \in BOOLEAN
  BY DEF FlushMap, owner, exec, Types, ExecType
<1>3. PICK p \in {"submit", "requeue"} :
        Goto(a, p) /\ (p = "submit" => queue = << >> /\ active = NoTask)
  BY DEF FlushMap
<1>4. promised' = promised /\ Sets(a, op[a], p, goal[a])
  BY <1>3, GotoSets
<1>5. pc[a] = "map" /\ op[a] \in Flushes
  BY PlacesFacts DEF FlushMap, Flushing
<1>6. /\ p \in PlacesOf(op[a]) /\ p \in Flushing
      /\ op[a] # "idle" /\ op[a] # "close" /\ op[a] # "sync"
      /\ pc[a] \notin {"requeue_wake", "wait", "queue", "served", "cancel", "cancelled",
                       "flush_work", "super_close"}
  BY <1>3, <1>5, PlacesHold DEF Flushing
<1>7. goal[a] <= taken /\ goal[a] \in Nat
  BY <1>5 DEF CallOk, Flushing, CallType
<1>8. p = "submit" => error \/ goal[a] <= written
  <2>1. p = "submit" => error \/ taken <= written
    BY <1>3, AllWritten
  <2> QED BY NatOrder, <1>7, <2>1 DEF JournalType
<1> QED BY <1>2, <1>4, <1>5, <1>6, <1>7, <1>8, CallGoesOn

\* The caller sends it.
LEMMA InvSubmit ==
  ASSUME IInv, UNCHANGED inst, NEW a \in Actors, Submit(a)
  PROVE  IInv'
<1>1. CallOk(a) /\ CallType /\ JournalType /\ Types
  BY DEF IInv, CallInv, Types
<1> USE <1>1
<1>2. UNCHANGED <<inst, journal, exec, owner>> /\ SendFlush(a) /\ Goto(a, "wait")
      /\ (pc[a] = "submit" \/ (pc[a] = "wait" /\ comp[a] = "fired"))
  BY DEF Submit
<1> USE <1>2
<1>3. pc[a] \in Flushing /\ "wait" \in Flushing
  BY DEF Flushing
<1>4. op[a] \in Flushes /\ goal[a] <= taken
  BY <1>3, PlacesFacts DEF CallOk
<1>5. error \/ goal[a] <= written
  BY DEF CallOk
<1>6. /\ \A b \in Actors : b # a => SameComp(b)
      /\ comp' \in [Actors -> {"none", "fired", "flushing", "ok", "err"}]
      /\ cover' \in [Actors -> Nat]
      /\ cover'[a] <= written
      /\ comp'[a] \in {"err", "flushing"}
      /\ comp'[a] = "flushing" /\ (op[a] = "flush_bio" \/ ~error) => goal[a] <= cover'[a]
  BY <1>5, SendFacts
<1>7. promised' = promised /\ Sets(a, op[a], "wait", goal[a])
  BY GotoSets
<1>8. "wait" \in PlacesOf(op[a]) /\ goal[a] \in Nat /\ op[a] \in Ops /\ "wait" # "submit"
  BY <1>3, <1>4, PlacesHold DEF CallType
<1>9. /\ op'[a] = op[a] /\ pc'[a] = "wait" /\ goal'[a] = goal[a]
      /\ \A b \in Actors : b # a => SameCall(b)
      /\ op' \in [Actors -> Ops] /\ goal' \in [Actors -> Nat]
      /\ pc' \in [Actors -> UNION {PlacesOf(x) : x \in Ops}]
  <2> HIDE <1>2
  <2> QED BY <1>7, <1>8, SetsFacts
<1> USE <1>6, <1>9
<1>10. CallType'
  BY DEF CallType
<1>11. comp'[a] # "fired" /\ comp'[a] # "ok"
  OBVIOUS
<1>12. CallOk(a)'
  BY <1>4, <1>8, <1>11 DEF CallOk, journal
<1>13. UNCHANGED <<inst, still, appended, flag, waiters, took, work, barrier, life, refs, armed,
                   closed>> /\ durable' = durable
  BY DEF journal, still, exec, owner
<1>14. /\ durable' \in Nat /\ durable <= durable' /\ durable' <= written
       /\ promised' \in Nat /\ promised' <= durable'
  BY NatOrder, <1>7, <1>13 DEF JournalType, IInv, FlushedIsDurable
<1>15. pc[a] \notin {"queue", "served"} /\ ~(pc[a] \in {"requeue_wake", "wait"} /\ comp[a] = "none")
  OBVIOUS
<1>16. pending' \in BOOLEAN
  BY DEF exec, Types, ExecType
<1>17. \A b \in Actors : b # a => SameCall(b) /\ SameComp(b)
  OBVIOUS
<1> QED BY <1>4, <1>10, <1>12, <1>13, <1>14, <1>15, <1>16, <1>17, FlushStep

\* The device answers.
LEMMA InvDeviceFlushed ==
  ASSUME IInv, UNCHANGED inst, NEW a \in Actors, DeviceFlushed(a)
  PROVE  IInv'
<1>1. CallOk(a) /\ CallType /\ JournalType /\ Types
  BY DEF IInv, CallInv, Types
<1> USE <1>1
<1>2. comp[a] = "flushing" /\ pc[a] \in {"requeue_wake", "wait"} /\ cover[a] <= written
  BY DEF DeviceFlushed, CallOk
<1> USE <1>2
<1>3. op[a] \in Flushes
  <2>1. pc[a] \in Flushing
    BY DEF Flushing
  <2> QED BY <2>1, PlacesFacts
<1>4. PICK c \in {"ok", "err"} :
        /\ comp' = [comp EXCEPT ![a] = c] /\ cover' = [cover EXCEPT ![a] = 0]
        /\ durable' = IF c = "ok" /\ durable < cover[a] THEN cover[a] ELSE durable
  BY DEF DeviceFlushed
<1>5. /\ comp \in [Actors -> {"none", "fired", "flushing", "ok", "err"}]
      /\ cover \in [Actors -> Nat] /\ goal[a] \in Nat /\ cover[a] \in Nat
      /\ written \in Nat /\ durable \in Nat /\ durable <= written /\ promised \in Nat
      /\ promised <= durable
  BY DEF CallType, JournalType, IInv, FlushedIsDurable
<1> USE <1>5
<1>6. /\ comp'[a] = c /\ cover'[a] = 0 /\ \A b \in Actors : b # a => SameComp(b)
      /\ comp' \in [Actors -> {"none", "fired", "flushing", "ok", "err"}]
      /\ cover' \in [Actors -> Nat]
  BY <1>4 DEF SameComp
<1>7. /\ durable' \in Nat /\ durable <= durable' /\ durable' <= written
      /\ c = "ok" => cover[a] <= durable'
  BY NatOrder, <1>4
<1>8. UNCHANGED <<op, pc, goal, promised, appended, taken, written, flag, error, exec, owner>>
  BY DEF DeviceFlushed
<1> USE <1>8
<1>9. CallType' /\ \A b \in Actors : b # a => SameCall(b) /\ SameComp(b)
  BY <1>6 DEF CallType, SameCall
<1>10. CallOk(a)'
  <2>1. comp'[a] # "fired" /\ comp'[a] # "flushing" /\ cover'[a] <= written'
    BY NatOrder, <1>4, <1>6
  <2>2. comp'[a] = "ok" /\ (op'[a] = "flush_bio" \/ ~error') => goal'[a] <= durable'
    <3>1. op[a] = "flush_bio" \/ ~error => goal[a] <= cover[a]
      BY DEF CallOk
    <3> QED BY NatOrder, <1>6, <1>7, <3>1
  <2> QED BY <2>1, <2>2 DEF CallOk
<1>11. UNCHANGED <<inst, still, appended, flag, waiters, took, work, barrier, life, refs, armed,
                   closed, pending>>
  BY DEF still, exec, owner
<1>12. promised' \in Nat /\ promised' <= durable'
  BY NatOrder, <1>7
<1>13. pc[a] \notin {"queue", "served"} /\ comp[a] # "none" /\ pending' \in BOOLEAN
       /\ op'[a] \in {op[a], "idle"}
  BY <1>11 DEF Types, ExecType
<1> QED BY <1>3, <1>7, <1>9, <1>10, <1>11, <1>12, <1>13, FlushStep

\* cyanfs_ctl_flush or the flush bio ends.
LEMMA InvFlushReturns ==
  ASSUME IInv, UNCHANGED inst, NEW a \in Actors, FlushReturns(a)
  PROVE  IInv'
<1>1. CallOk(a) /\ CallType /\ JournalType /\ Types
  BY DEF IInv, CallInv, Types
<1> USE <1>1
<1>2. pc[a] = "wait" /\ comp[a] \in {"ok", "err"} /\ UNCHANGED <<journal, exec, cover, owner>>
      /\ comp' = [comp EXCEPT ![a] = "none"]
  BY DEF FlushReturns
<1> USE <1>2
<1>3. op[a] \in Flushes
  <2>1. pc[a] \in Flushing
    BY DEF Flushing
  <2> QED BY <2>1, PlacesFacts
<1>4. /\ goal[a] \in Nat /\ goal[a] <= appended /\ cover[a] <= written /\ durable \in Nat
      /\ promised \in Nat /\ promised <= durable /\ durable <= written
  BY DEF CallType, CallOk, JournalType, IInv, FlushedIsDurable
<1> USE <1>4
<1>5. PICK o \in Ops, p \in {"put", "idle"}, g \in Nat :
        /\ Sets(a, o, p, g) /\ o \in {op[a], "idle"} /\ p \in PlacesOf(o) /\ g \in {0, goal[a]}
        /\ o = "idle" => g = 0
        /\ promised' = promised \/
             (comp[a] = "ok" /\ (op[a] = "flush_bio" \/ ~error) /\ promised' = goal[a])
  <2>1. CASE op[a] = "release"
    <3>1. Goto(a, "put")
      BY <2>1 DEF FlushReturns, FlushEnds
    <3>2. promised' = promised /\ Sets(a, op[a], "put", goal[a])
      BY <3>1, GotoSets
    <3>3. "put" \in PlacesOf(op[a]) /\ op[a] \in Ops /\ op[a] # "idle"
      BY <2>1, PlacesHold
    <3> QED BY <3>2, <3>3
  <2>2. CASE op[a] # "release"
    <3>1. Return(a, comp[a] = "ok" /\ (op[a] = "flush_bio" \/ ~error))
      BY <2>2 DEF FlushReturns, FlushEnds
    <3>2. /\ Sets(a, "idle", "idle", 0)
          /\ promised' = promised \/
               (comp[a] = "ok" /\ (op[a] = "flush_bio" \/ ~error) /\ promised' = goal[a])
      BY <3>1, ReturnSets
    <3>3. "idle" \in PlacesOf("idle") /\ "idle" \in Ops /\ 0 \in Nat
      BY PlacesHold
    <3> QED BY <3>2, <3>3
  <2> QED BY <2>1, <2>2
<1> USE <1>5
<1>6. /\ op'[a] = o /\ pc'[a] = p /\ goal'[a] = g
      /\ \A b \in Actors : b # a => SameCall(b)
      /\ op' \in [Actors -> Ops] /\ goal' \in [Actors -> Nat]
      /\ pc' \in [Actors -> UNION {PlacesOf(x) : x \in Ops}]
  BY SetsFacts
<1>7. /\ comp'[a] = "none" /\ \A b \in Actors : b # a => SameComp(b)
      /\ comp' \in [Actors -> {"none", "fired", "flushing", "ok", "err"}]
      /\ cover' \in [Actors -> Nat] /\ cover' = cover
  BY DEF CallType, SameComp
<1>8. CallType' /\ \A b \in Actors : b # a => SameCall(b) /\ SameComp(b)
  BY <1>6, <1>7 DEF CallType
<1>9. UNCHANGED <<inst, still, appended, flag, waiters, took, work, barrier, life, refs, armed,
                  closed, durable, pending>>
  BY DEF still, exec, owner, journal
<1> USE <1>9
<1>10. g <= appended /\ appended' = appended /\ written' = written
  BY NatOrder DEF still, JournalType, CallOk
<1>11. CallOk(a)'
  <2>1. /\ p # "submit" /\ p \notin Flushing \cup {"wake"} /\ "none" # "fired" /\ "none" # "flushing"
        /\ "none" # "ok" /\ op[a] \notin {"append", "periodic"}
    BY <1>3 DEF Flushing, Flushes
  <2>2. o \in {"idle", "append", "periodic"} => g = 0
    BY <2>1
  <2> QED BY <1>6, <1>7, <1>10, <2>1, <2>2 DEF CallOk
<1>12. promised' \in Nat /\ promised' <= durable'
  <2>1. promised' = promised \/ (promised' = goal[a] /\ goal[a] <= durable)
    BY DEF CallOk
  <2> QED BY <2>1
<1>13. /\ pc[a] \notin {"queue", "served"} /\ comp[a] # "none"
       /\ durable' \in Nat /\ durable <= durable' /\ durable' <= written
  BY NatOrder DEF JournalType
<1>14. pending' \in BOOLEAN
  BY DEF Types, ExecType
<1> QED BY <1>3, <1>6, <1>8, <1>11, <1>12, <1>13, <1>14, FlushStep

=============================================================================
