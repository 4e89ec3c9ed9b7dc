------------------------ MODULE CyanfsExtents_durable ------------------------
(***************************************************************************)
(* What is durable when: the order of a flusher's tasks in the queue, and  *)
(* from it that no extent is reused before its unbinding is durable, that  *)
(* no copy is bound before its data is durable, and that no pending copy   *)
(* is ever unmapped.                                                       *)
(***************************************************************************)
EXTENDS CyanfsExtents_ind, TLAPS

\* The leaves are for Zenon; those that need arithmetic cite SMTT.
USE ZenonT(60)

\* The places of the queue and of what runs before it.
LEMMA PlacesOf ==
  ASSUME NEW S, NEW q \in Seq(S)
  PROVE  /\ Len(q) \in Nat /\ Len(q) \in Int /\ 0 \in 0 .. Len(q)
         /\ \A k \in 0 .. Len(q) : k = 0 \/ k \in 1 .. Len(q)
         /\ \A k \in 1 .. Len(q) : k \in 0 .. Len(q) /\ k # 0 /\ ~(k <= 0)
BY SMT

\* Sequences of no element and of one.
LEMMA SmallSeqs ==
  ASSUME NEW S
  PROVE  /\ <<>> \in Seq(S) /\ Len(<<>>) = 0 /\ 0 .. Len(<<>>) = {0}
         /\ \A x \in S : /\ <<x>> \in Seq(S) /\ <<>> \o <<x>> = <<x>>
                         /\ \A k \in 1 .. Len(<<x>>) : <<x>>[k] = x
BY SMT

\* The empty sequence is neutral; appending is concatenating one element.
LEMMA SeqJoin ==
  ASSUME NEW S, NEW q \in Seq(S)
  PROVE  /\ <<>> \o q = q /\ q \o <<>> = q
         /\ \A x \in S : Append(q, x) = q \o <<x>> /\ Append(q, x) = (<<>> \o q) \o <<x>>
BY SMT

\* The other flags of the super say nothing of its error.
LEMMA NotTheError ==
  ASSUME NEW S, NEW T \in {S, S \cup {"DISCARD_WORKING"}, S \cup {"FLUSH"}, S \ {"FLUSH"}}
  PROVE  "ERROR" \in T <=> "ERROR" \in S
OBVIOUS

\* Nothing, one place or two: what PushTasks puts in front of the queue.
LEMMA OneTwo ==
  /\ 0 \in Int /\ 0 # 1
  /\ \A n \in {1, 2} : /\ n \in 1 .. n /\ 1 \in 1 .. n
                        /\ \A k \in 1 .. n : k = n \/ (n = 2 /\ k = 1)
BY SMT

\* The tasks of flushers are told apart by what they do and for whom.
LEMMA OfFacts ==
  /\ \A op1, op2, i1, i2 : Of(op1, i1) = Of(op2, i2) <=> op1 = op2 /\ i1 = i2
  /\ \A op \in FlusherOp : \A i : Of(op, i) # NoTask
BY DEF Of, NoTask, FlusherOp

\* The tasks of a flusher that end its work are none that write.
LEMMA EndsWriteNothing ==
  ASSUME NEW i, NEW op \in {"after", "after_flush", "free"}, NEW j,
         NEW o \in {"writer", "write", "before", "before_flush"}
  PROVE  Of(op, i) # Of(o, j) /\ Of(o, j) # NoTask
BY SMT, OfFacts DEF FlusherOp

\* A task is added at the tail: the other places stay as they are.
LEMMA PlacesAppend ==
  ASSUME task_head \in Seq(Task), NEW x \in Task, task_head' = Append(task_head, x),
         UNCHANGED active, NEW n, n = Len(task_head)
  PROVE  /\ n \in Nat /\ Place \subseteq Place' /\ \A k \in Place : TaskAt(k)' = TaskAt(k)
         /\ n + 1 \in Place' /\ TaskAt(n + 1)' = x
BY SMTT(60) DEF Place, TaskAt

\* cyanfs_super_get_task moves every task one place towards the executor.
LEMMA PlacesGet ==
  ASSUME Types, GetTask
  PROVE  /\ Len(task_head) \in Nat /\ Len(task_head') = Len(task_head) - 1
         /\ TaskAt(0) = NoTask
         /\ \A k \in Place' : k + 1 \in Place /\ TaskAt(k)' = TaskAt(k + 1)
<1>1. /\ task_head \in Seq(Task) /\ task_head # <<>>
      /\ task_head' = Tail(task_head) /\ active' = Head(task_head) /\ active = NoTask
  BY DEF GetTask, Types, QueueType
<1>2. Len(task_head) \in Nat \ {0} /\ Len(task_head') = Len(task_head) - 1
  BY SMTT(60), <1>1
<1>3. \A k \in 0 .. Len(task_head') : TaskAt(k)' = task_head[k + 1]
  BY SMTT(60), <1>1, <1>2 DEF TaskAt
<1> QED BY SMTT(60), <1>1, <1>2, <1>3 DEF TaskAt, Place

\* Tasks are put before the rest.
LEMMA PlacesPush ==
  ASSUME Types, NEW a \in Seq(Task), task_head' = a \o task_head
  PROVE  /\ Len(task_head) \in Nat /\ Len(task_head') = Len(a) + Len(task_head)
         /\ \A k \in 1 .. Len(a) : TaskAt(k)' = a[k]
         /\ \A k \in 1 .. Len(task_head) : TaskAt(Len(a) + k)' = TaskAt(k)
<1>1. task_head \in Seq(Task) /\ Len(a) \in Nat /\ Len(task_head) \in Nat
  BY SMTT(60) DEF Types, QueueType
<1> USE <1>1
<1>2. /\ Len(task_head') = Len(a) + Len(task_head)
      /\ \A k \in 1 .. Len(a) : task_head'[k] = a[k]
      /\ \A k \in 1 .. Len(task_head) : task_head'[Len(a) + k] = task_head[k]
  BY SMTT(60)
<1>3. \A k \in 1 .. Len(a) : TaskAt(k)' = a[k]
  BY SMTT(60), <1>2 DEF TaskAt
<1>4. \A k \in 1 .. Len(task_head) : Len(a) + k # 0 /\ k # 0
  BY SMTT(60)
<1>5. \A k \in 1 .. Len(task_head) : TaskAt(Len(a) + k)' = TaskAt(k)
  BY <1>2, <1>4 DEF TaskAt
<1> QED BY <1>2, <1>3, <1>5

\* The tasks of flushers only move by d places, up to place n, where the queue
\* ended; the running one may have ended, and what is added is no flusher's.
Shifted(n, d) ==
  /\ n \in Nat /\ d \in {0, 1} /\ n + d = Len(task_head) /\ n <= Len(task_head')
  /\ \A k \in 1 .. n : TaskAt(k)' = TaskAt(k + d)
  /\ TaskAt(0)' = NoTask \/ TaskAt(0)' = TaskAt(d)
  /\ \A k \in n + 1 .. Len(task_head') : TaskAt(k)'.op \notin FlusherOp

\* The end of a task that adds none moves nothing.
LEMMA ShiftedNone ==
  ASSUME Types, active' = NoTask, UNCHANGED task_head
  PROVE  Shifted(Len(task_head), 0)
BY SMTT(60) DEF Shifted, TaskAt, Types, QueueType

\* Such a move keeps the order.
LEMMA OrderShifted ==
  ASSUME Types, Types', QueueOrder, NEW n, NEW d, Shifted(n, d)
  PROVE  /\ WriteFirst' /\ BeforeNext' /\ WriterAhead' /\ FreeLast'
         /\ UNCHANGED t_live => QueueOrder'
<1>1. Len(task_head) \in Nat /\ Len(task_head') \in Nat
  BY SMTT(60) DEF Types, QueueType
<1> USE <1>1
<1>2. ASSUME NEW op \in FlusherOp, NEW i, NEW k \in Place', TaskAt(k)' = Of(op, i)
      PROVE  k \in 0 .. n /\ k + d \in Place /\ TaskAt(k + d) = Of(op, i)
  <2>1. k \in 0 .. n
    BY SMTT(60), <1>2 DEF Shifted, Of, Place
  <2>2. TaskAt(k)' # NoTask
    BY SMTT(60), <1>2, OfFacts
  <2>3. TaskAt(k)' = TaskAt(k + d)
    BY SMTT(60), <2>1, <2>2 DEF Shifted
  <2> QED BY SMTT(60), <1>2, <2>1, <2>3 DEF Shifted, Place
<1>3. /\ "write" \in FlusherOp /\ "before" \in FlusherOp /\ "before_flush" \in FlusherOp
      /\ "writer" \in FlusherOp /\ "after" \in FlusherOp /\ "after_flush" \in FlusherOp
      /\ "free" \in FlusherOp
  BY DEF FlusherOp
<1> USE <1>3
<1>4. WriteFirst'
  <2> SUFFICES ASSUME NEW i \in Flusher, NEW k \in Place', TaskAt(k)' = Of("write", i),
                      NEW l \in 0 .. k - 1
               PROVE  TaskAt(l)' \in {NoTask, Of("before", i), Of("before_flush", i)}
    BY DEF WriteFirst
  <2>1. k \in 0 .. n /\ k + d \in Place /\ TaskAt(k + d) = Of("write", i)
    BY <1>2
  <2>2. l \in 0 .. n /\ l + d \in 0 .. (k + d) - 1
    BY SMTT(60), <2>1 DEF Shifted
  <2>3. TaskAt(l + d) \in {NoTask, Of("before", i), Of("before_flush", i)}
    BY <2>1, <2>2 DEF QueueOrder, WriteFirst
  <2>4. TaskAt(l)' = NoTask \/ TaskAt(l)' = TaskAt(l + d)
    BY SMTT(60), <2>2 DEF Shifted
  <2> QED BY <2>3, <2>4
<1>5. BeforeNext'
  <2> SUFFICES ASSUME NEW i \in Flusher, NEW op \in {"before", "before_flush"},
                      NEW k \in Place', TaskAt(k)' = Of(op, i)
               PROVE  k + 1 \in Place' /\ TaskAt(k + 1)' = Of("write", i)
    BY DEF BeforeNext
  <2>1. k \in 0 .. n /\ k + d \in Place /\ TaskAt(k + d) = Of(op, i)
    BY <1>2
  <2>2. (k + d) + 1 \in Place /\ TaskAt((k + d) + 1) = Of("write", i)
    BY <2>1 DEF QueueOrder, BeforeNext
  <2>3. k + 1 \in 1 .. n /\ (k + d) + 1 = (k + 1) + d
    BY SMTT(60), <2>1, <2>2 DEF Shifted, Place
  <2>4. TaskAt(k + 1)' = TaskAt((k + 1) + d)
    BY <2>3 DEF Shifted
  <2> QED BY SMTT(60), <2>2, <2>3, <2>4 DEF Place, Shifted
<1>6. WriterAhead'
  <2> SUFFICES ASSUME NEW i \in Flusher, NEW k \in Place', NEW l \in Place',
                      NEW op \in {"writer", "write", "after", "after_flush"},
                      TaskAt(k)' = Of("writer", i), TaskAt(l)' = Of(op, i)
               PROVE  k <= l
    BY DEF WriterAhead
  <2>1. k + d \in Place /\ TaskAt(k + d) = Of("writer", i)
    BY <1>2
  <2>2. l + d \in Place /\ TaskAt(l + d) = Of(op, i)
    BY <1>2
  <2>3. k + d <= l + d
    BY <2>1, <2>2 DEF QueueOrder, WriterAhead
  <2> QED BY SMTT(60), <2>3 DEF Shifted, Place
<1>7. FreeLast'
  <2> SUFFICES ASSUME NEW i \in Flusher, NEW k \in Place', NEW l \in Place',
                      NEW op \in FlusherOp,
                      TaskAt(k)' = Of("free", i), TaskAt(l)' = Of(op, i)
               PROVE  l <= k
    BY DEF FreeLast
  <2>1. k + d \in Place /\ TaskAt(k + d) = Of("free", i)
    BY <1>2
  <2>2. l + d \in Place /\ TaskAt(l + d) = Of(op, i)
    BY <1>2
  <2>3. l + d <= k + d
    BY <2>1, <2>2 DEF QueueOrder, FreeLast
  <2> QED BY SMTT(60), <2>3 DEF Shifted, Place
<1>8. UNCHANGED t_live => TasksLive'
  BY <1>2 DEF QueueOrder, TasksLive, Queued, Place
<1> QED BY <1>4, <1>5, <1>6, <1>7, <1>8 DEF QueueOrder

\* The steps that add no flusher's task: the next task is taken, or tasks of
\* other kinds are queued and the running task may end.
LEMMA OrderKept ==
  ASSUME Types, Types', QueueOrder, UNCHANGED t_live,
         \/ GetTask
         \/ /\ active' \in {active, NoTask}
            /\ \/ task_head' = task_head
               \/ \E x \in Task : x.op \notin FlusherOp /\ task_head' = Append(task_head, x)
  PROVE  QueueOrder'
<1>1. CASE GetTask
  <2>1. PICK n \in Nat : n = Len(task_head')
    BY SMTT(60) DEF Types, QueueType
  <2>2. Shifted(n, 1)
    BY SMTT(60), <1>1, <2>1, PlacesGet DEF Shifted, Place
  <2> QED BY <2>2, OrderShifted
<1>2. CASE active' \in {active, NoTask} /\ task_head' = task_head
  <2>1. PICK n \in Nat : n = Len(task_head)
    BY SMTT(60) DEF Types, QueueType
  <2>2. Shifted(n, 0)
    BY SMTT(60), <1>2, <2>1 DEF Shifted, TaskAt
  <2> QED BY <2>2, OrderShifted
<1>3. ASSUME active' \in {active, NoTask}, NEW x \in Task, x.op \notin FlusherOp,
             task_head' = Append(task_head, x)
      PROVE  QueueOrder'
  <2>1. PICK n \in Nat : n = Len(task_head)
    BY SMTT(60) DEF Types, QueueType
  <2>2. /\ Len(task_head') = n + 1 /\ task_head'[n + 1] = x
        /\ \A k \in 1 .. n : task_head'[k] = task_head[k]
    BY SMTT(60), <1>3, <2>1 DEF Types, QueueType
  <2>3. Shifted(n, 0)
    BY SMTT(60), <1>3, <2>1, <2>2 DEF Shifted, TaskAt
  <2> QED BY <2>3, OrderShifted
<1> QED BY <1>1, <1>2, <1>3

\* While another task runs, neither a WRITE nor the FLUSH before it is queued.
LEMMA NothingToWrite ==
  ASSUME Types, QueueOrder, active # NoTask,
         \A i \in Flusher : active \notin {Of("before", i), Of("before_flush", i)}
  PROVE  \A i \in Flusher : \A k \in 1 .. Len(task_head) :
           TaskAt(k) \notin {Of("write", i), Of("before", i), Of("before_flush", i)}
<1> SUFFICES ASSUME NEW i \in Flusher, NEW k \in 1 .. Len(task_head),
                    TaskAt(k) \in {Of("write", i), Of("before", i), Of("before_flush", i)}
             PROVE  FALSE
  OBVIOUS
<1>1. Len(task_head) \in Nat /\ TaskAt(0) = active
  BY SMTT(60) DEF Types, QueueType, TaskAt
<1> USE <1>1
<1>2. \A l \in 1 .. Len(task_head) : TaskAt(l) # Of("write", i)
  <2> SUFFICES ASSUME NEW l \in 1 .. Len(task_head), TaskAt(l) = Of("write", i) PROVE FALSE
    OBVIOUS
  <2>1. l \in Place /\ 0 \in 0 .. l - 1
    BY SMTT(60) DEF Place
  <2>2. TaskAt(0) \in {NoTask, Of("before", i), Of("before_flush", i)}
    BY <2>1 DEF QueueOrder, WriteFirst
  <2> QED BY <2>2
<1>3. k \in Place /\ TaskAt(k) \in {Of("before", i), Of("before_flush", i)}
  BY SMTT(60), <1>2 DEF Place
<1>4. k + 1 \in Place /\ TaskAt(k + 1) = Of("write", i)
  BY <1>3 DEF QueueOrder, BeforeNext
<1> QED BY SMTT(60), <1>2, <1>4 DEF Place

\* A task of flusher i ends and n tasks of i are put before the rest.
Pushed(n, i) ==
  /\ n \in {1, 2} /\ Len(task_head) \in Nat /\ Len(task_head') = n + Len(task_head)
  /\ TaskAt(0)' = NoTask
  /\ \A k \in 1 .. Len(task_head) : TaskAt(n + k)' = TaskAt(k)
  /\ \A k \in 1 .. n : \E op \in FlusherOp \ {"free", "writer"} : TaskAt(k)' = Of(op, i)
  /\ \E op \in FlusherOp : TaskAt(0) = Of(op, i)

\* A task behind the new ones was there before.
LEMMA PushedOld ==
  ASSUME NEW i, NEW n, Pushed(n, i), NEW k \in Place', TaskAt(k)' # NoTask, k \notin 1 .. n
  PROVE  k - n \in 1 .. Len(task_head) /\ k - n \in Place /\ TaskAt(k - n) = TaskAt(k)'
<1>1. k # 0
  BY DEF Pushed
<1>2. k - n \in 1 .. Len(task_head) /\ n + (k - n) = k
  BY SMTT(60), <1>1 DEF Pushed, Place
<1>3. TaskAt(n + (k - n))' = TaskAt(k - n)
  BY <1>2 DEF Pushed
<1> QED BY SMTT(60), <1>2, <1>3 DEF Pushed, Place

\* The order that does not depend on what is pushed.
LEMMA OrderPushed ==
  ASSUME QueueOrder, NEW i \in Flusher, NEW n, Pushed(n, i), UNCHANGED t_live
  PROVE  FreeLast' /\ TasksLive'
<1>1. FreeLast'
  <2> SUFFICES ASSUME NEW j \in Flusher, NEW k \in Place', NEW l \in Place',
                      NEW op \in FlusherOp,
                      TaskAt(k)' = Of("free", j), TaskAt(l)' = Of(op, j)
               PROVE  l <= k
    BY DEF FreeLast
  <2>1. k \notin 1 .. n
    BY SMTT(60), OfFacts DEF Pushed
  <2>2. TaskAt(k)' # NoTask /\ TaskAt(l)' # NoTask
    BY OfFacts DEF FlusherOp
  <2>3. k - n \in Place /\ TaskAt(k - n) = Of("free", j) /\ k - n \in 1 .. Len(task_head)
    BY <2>1, <2>2, PushedOld
  <2>4. CASE l \in 1 .. n
    BY SMTT(60), <2>3, <2>4 DEF Pushed, Place
  <2>5. CASE l \notin 1 .. n
    <3>1. l - n \in Place /\ TaskAt(l - n) = Of(op, j)
      BY <2>2, <2>5, PushedOld
    <3>2. l - n <= k - n
      BY <2>3, <3>1 DEF QueueOrder, FreeLast
    <3> QED BY SMTT(60), <3>2 DEF Pushed, Place
  <2> QED BY <2>4, <2>5
<1>2. TasksLive'
  <2> SUFFICES ASSUME NEW j \in Flusher, NEW k \in Place', NEW op \in FlusherOp,
                      TaskAt(k)' = Of(op, j)
               PROVE  t_live[j]
    BY DEF TasksLive, Queued, Place
  <2>1. CASE k \in 1 .. n
    <3>1. j = i
      BY SMTT(60), <2>1, OfFacts DEF Pushed
    <3>2. \E o \in FlusherOp : Queued(Of(o, i))
      BY SMTT(60) DEF Pushed, Queued
    <3> QED BY <3>1, <3>2 DEF QueueOrder, TasksLive
  <2>2. CASE k \notin 1 .. n
    <3>1. TaskAt(k)' # NoTask
      BY SMTT(60), OfFacts
    <3>2. k - n \in Place /\ TaskAt(k - n) = Of(op, j)
      BY <2>2, <3>1, PushedOld
    <3> QED BY <3>2 DEF QueueOrder, TasksLive, Queued, Place
  <2> QED BY <2>1, <2>2
<1> QED BY <1>1, <1>2

\* The writers are ahead when a flusher whose writer has started pushes.
LEMMA OrderPushedAhead ==
  ASSUME QueueOrder, NEW i \in Flusher, NEW n, Pushed(n, i),
         \A k \in 1 .. Len(task_head) : TaskAt(k) # Of("writer", i)
  PROVE  WriterAhead'
<1> SUFFICES ASSUME NEW j \in Flusher, NEW k \in Place', NEW l \in Place',
                    NEW op \in {"writer", "write", "after", "after_flush"},
                    TaskAt(k)' = Of("writer", j), TaskAt(l)' = Of(op, j)
             PROVE  k <= l
  BY DEF WriterAhead
<1>1. TaskAt(k)' # NoTask /\ TaskAt(l)' # NoTask
  BY OfFacts DEF FlusherOp
<1>2. \A m \in 1 .. n : \E o \in FlusherOp \ {"writer"} : TaskAt(m)' = Of(o, i)
  BY DEF Pushed
<1>3. k \notin 1 .. n
  BY SMTT(60), <1>2, OfFacts
<1>4. k - n \in Place /\ k - n \in 1 .. Len(task_head) /\ TaskAt(k - n) = Of("writer", j)
  BY <1>1, <1>3, PushedOld
<1>5. l \notin 1 .. n
  BY SMTT(60), <1>2, <1>4, OfFacts
<1>6. l - n \in Place /\ TaskAt(l - n) = Of(op, j)
  BY <1>1, <1>5, PushedOld
<1>7. k - n <= l - n
  BY <1>4, <1>6 DEF QueueOrder, WriterAhead
<1> QED BY SMTT(60), <1>7 DEF Pushed, Place

\* A flusher that runs a WRITE or a FLUSH has no writer to start.
LEMMA WriterStarted ==
  ASSUME QueueOrder, NEW i \in Flusher, NEW l \in Place, l \in {0, 1}, TaskAt(0) # NoTask,
         TaskAt(l) \in {Of("writer", i), Of("write", i), Of("after", i), Of("after_flush", i)},
         l = 1 => TaskAt(1) # Of("writer", i)
  PROVE  \A k \in Place \ {0} : TaskAt(k) # Of("writer", i)
<1> SUFFICES ASSUME NEW k \in Place \ {0}, TaskAt(k) = Of("writer", i) PROVE FALSE
  OBVIOUS
<1>1. k <= l
  BY DEF QueueOrder, WriterAhead
<1> QED BY SMTT(60), <1>1 DEF Place

\* cyanfs_super_flusher_before_flush puts the FLUSH at the head.
LEMMA OrderAfter ==
  ASSUME Types, QueueOrder, NEW i \in Flusher, Pushed(1, i), UNCHANGED t_live,
         TaskAt(0) = Of("after", i), TaskAt(1)' = Of("after_flush", i)
  PROVE  QueueOrder'
<1>1. /\ active # NoTask
      /\ \A j \in Flusher : active \notin {Of("before", j), Of("before_flush", j)}
  BY SMTT(60), OfFacts DEF TaskAt, FlusherOp
<1>2. \A j \in Flusher : \A k \in 1 .. Len(task_head) :
        TaskAt(k) \notin {Of("write", j), Of("before", j), Of("before_flush", j)}
  BY <1>1, NothingToWrite
<1>3. \A j \in Flusher : \A k \in Place' :
        TaskAt(k)' \notin {Of("write", j), Of("before", j), Of("before_flush", j)}
  <2> SUFFICES ASSUME NEW j \in Flusher, NEW k \in Place',
                 TaskAt(k)' \in {Of("write", j), Of("before", j), Of("before_flush", j)}
               PROVE  FALSE
    OBVIOUS
  <2>1. TaskAt(k)' # NoTask /\ k \notin 1 .. 1
    BY SMTT(60), OfFacts DEF FlusherOp
  <2> QED BY <2>1, <1>2, PushedOld
<1>4. WriteFirst' /\ BeforeNext'
  BY <1>3 DEF WriteFirst, BeforeNext
<1>5. \A k \in 1 .. Len(task_head) : TaskAt(k) # Of("writer", i)
  <2>1. 0 \in Place /\ 1 .. Len(task_head) \subseteq Place \ {0} /\ TaskAt(0) # NoTask
    BY SMTT(60), OfFacts DEF Pushed, Place, FlusherOp
  <2> QED BY SMTT(60), <2>1, WriterStarted
<1> QED BY <1>4, <1>5, OrderPushed, OrderPushedAhead DEF QueueOrder

\* cyanfs_super_flusher_before_write_flush puts its FLUSH before the WRITE.
LEMMA OrderBefore ==
  ASSUME Types, QueueOrder, NEW i \in Flusher, Pushed(1, i), UNCHANGED t_live,
         TaskAt(0) = Of("before", i), TaskAt(1)' = Of("before_flush", i)
  PROVE  QueueOrder'
<1>0. 0 \in Place /\ TaskAt(0) # NoTask
  BY SMTT(60), OfFacts DEF Pushed, Place, FlusherOp
<1> USE <1>0
<1>1. WriteFirst'
  <2> SUFFICES ASSUME NEW j \in Flusher, NEW k \in Place', TaskAt(k)' = Of("write", j),
                      NEW l \in 0 .. k - 1
               PROVE  TaskAt(l)' \in {NoTask, Of("before", j), Of("before_flush", j)}
    BY DEF WriteFirst
  <2>1. TaskAt(k)' # NoTask /\ k \notin 1 .. 1
    BY SMTT(60), OfFacts DEF FlusherOp
  <2>2. k - 1 \in 1 .. Len(task_head) /\ k - 1 \in Place /\ TaskAt(k - 1) = Of("write", j)
    BY <2>1, PushedOld
  <2> USE <2>2
  <2>3. \A m \in 0 .. (k - 1) - 1 : TaskAt(m) \in {NoTask, Of("before", j), Of("before_flush", j)}
    BY DEF QueueOrder, WriteFirst
  <2>4. j = i
    <3>1. 0 \in 0 .. (k - 1) - 1
      BY SMTT(60) DEF Pushed
    <3>2. TaskAt(0) \in {Of("before", j), Of("before_flush", j)}
      BY <2>3, <3>1
    <3> QED BY SMTT(60), <3>2, OfFacts
  <2>5. CASE l = 0
    BY <2>5 DEF Pushed
  <2>6. CASE l = 1
    BY <2>4, <2>6
  <2>7. CASE l \in 2 .. k - 1
    <3>1. l - 1 \in 1 .. Len(task_head) /\ 1 + (l - 1) = l /\ l - 1 \in 0 .. (k - 1) - 1
      BY SMTT(60), <2>7 DEF Pushed
    <3>2. TaskAt(1 + (l - 1))' = TaskAt(l - 1)
      BY <3>1 DEF Pushed
    <3> QED BY <2>3, <3>1, <3>2
  <2> QED BY SMTT(60), <2>5, <2>6, <2>7 DEF Pushed
<1>2. BeforeNext'
  <2> SUFFICES ASSUME NEW j \in Flusher, NEW op \in {"before", "before_flush"},
                      NEW k \in Place', TaskAt(k)' = Of(op, j)
               PROVE  k + 1 \in Place' /\ TaskAt(k + 1)' = Of("write", j)
    BY DEF BeforeNext
  <2>1. PICK m \in Place : m = k - 1 /\ \E o \in {"before", "before_flush"} : TaskAt(m) = Of(o, j)
    <3>1. TaskAt(k)' # NoTask
      BY OfFacts DEF FlusherOp
    <3>2. CASE k \in 1 .. 1
      <4>1. k = 1 /\ j = i
        BY SMTT(60), <3>2, OfFacts
      <4> QED BY SMTT(60), <4>1
    <3>3. CASE k \notin 1 .. 1
      BY <3>1, <3>3, PushedOld
    <3> QED BY <3>2, <3>3
  <2>2. m + 1 \in Place /\ TaskAt(m + 1) = Of("write", j)
    BY <2>1 DEF QueueOrder, BeforeNext
  <2>3. m + 1 = k /\ m + 1 \in 1 .. Len(task_head)
    BY SMTT(60), <2>1, <2>2 DEF Place, Pushed
  <2>4. TaskAt(1 + (m + 1))' = TaskAt(m + 1)
    BY <2>3 DEF Pushed
  <2>5. 1 + (m + 1) = k + 1
    BY SMTT(60), <2>3 DEF Pushed
  <2> QED BY SMTT(60), <2>2, <2>3, <2>4, <2>5 DEF Place, Pushed
<1>3. \A k \in 1 .. Len(task_head) : TaskAt(k) # Of("writer", i)
  <2>1. 1 \in Place /\ TaskAt(1) = Of("write", i)
    BY SMTT(60) DEF QueueOrder, BeforeNext
  <2>2. TaskAt(1) # Of("writer", i)
    BY SMTT(60), <2>1, OfFacts
  <2>3. 1 .. Len(task_head) \subseteq Place \ {0}
    BY SMTT(60) DEF Pushed, Place
  <2> QED BY <2>1, <2>2, <2>3, WriterStarted
<1> QED BY <1>1, <1>2, <1>3, OrderPushed, OrderPushedAhead DEF QueueOrder

\* cyanfs_journal_writer_encode puts its WRITE at the head, perhaps behind the
\* NOP of flush_before_write.
LEMMA OrderWrite ==
  ASSUME Types, QueueOrder, NEW i \in Flusher, NEW n, Pushed(n, i), UNCHANGED t_live,
         TaskAt(0) \in {Of("writer", i), Of("write", i)},
         TaskAt(n)' = Of("write", i), n = 2 => TaskAt(1)' = Of("before", i)
  PROVE  QueueOrder'
<1>1. /\ active # NoTask
      /\ \A j \in Flusher : active \notin {Of("before", j), Of("before_flush", j)}
  BY SMTT(60), OfFacts DEF TaskAt, FlusherOp
<1>2. \A j \in Flusher : \A k \in 1 .. Len(task_head) :
        TaskAt(k) \notin {Of("write", j), Of("before", j), Of("before_flush", j)}
  BY <1>1, NothingToWrite
<1>3. n \in {1, 2} /\ \A k \in 1 .. n : k = n \/ (k = 1 /\ n = 2)
  BY SMTT(60) DEF Pushed
<1>4. ASSUME NEW j \in Flusher, NEW k \in Place',
             TaskAt(k)' \in {Of("write", j), Of("before", j), Of("before_flush", j)}
      PROVE  j = i /\ (k = n \/ (k = 1 /\ n = 2))
  <2>1. TaskAt(k)' # NoTask
    BY SMTT(60), <1>4, OfFacts DEF FlusherOp
  <2>2. k \in 1 .. n
    BY <1>2, <1>4, <2>1, PushedOld
  <2> QED BY SMTT(60), <1>3, <1>4, <2>2, OfFacts
<1>5. WriteFirst'
  <2> SUFFICES ASSUME NEW j \in Flusher, NEW k \in Place', TaskAt(k)' = Of("write", j),
                      NEW l \in 0 .. k - 1
               PROVE  TaskAt(l)' \in {NoTask, Of("before", j), Of("before_flush", j)}
    BY DEF WriteFirst
  <2>1. j = i /\ (k = n \/ (k = 1 /\ n = 2))
    BY <1>4
  <2>2. l = 0 \/ (l = 1 /\ n = 2)
    BY SMTT(60), <1>3, <2>1
  <2> QED BY <2>1, <2>2 DEF Pushed
<1>6. BeforeNext'
  <2> SUFFICES ASSUME NEW j \in Flusher, NEW k \in Place',
                      TaskAt(k)' \in {Of("before", j), Of("before_flush", j)}
               PROVE  k + 1 \in Place' /\ TaskAt(k + 1)' = Of("write", j)
    BY DEF BeforeNext
  <2>1. j = i /\ k = 1 /\ n = 2
    BY SMTT(60), <1>4, OfFacts
  <2> QED BY SMTT(60), <2>1 DEF Pushed, Place
<1>7. \A k \in 1 .. Len(task_head) : TaskAt(k) # Of("writer", i)
  <2>1. 0 \in Place /\ 1 .. Len(task_head) \subseteq Place \ {0} /\ TaskAt(0) # NoTask
    BY SMTT(60), OfFacts DEF Pushed, Place, FlusherOp
  <2> QED BY SMTT(60), <2>1, WriterStarted
<1> QED BY <1>5, <1>6, <1>7, OrderPushed, OrderPushedAhead DEF QueueOrder

\* The tasks of a new flusher are in their order.
LEMMA StartTasks ==
  ASSUME NEW i \in Flusher, NEW no_journal \in BOOLEAN, NEW ondisk \in BOOLEAN,
         NEW w, w = FlusherTasks(i, no_journal, ondisk)
  PROVE  /\ w \in Seq(Task) /\ Len(w) \in 1 .. 3
         /\ \A k \in 1 .. Len(w) : w[k] \in {Of("writer", i), Of("after", i), Of("free", i)}
         /\ \A k \in 1 .. Len(w) : w[k] = Of("free", i) <=> k = Len(w)
         /\ \A k \in 1 .. Len(w) : w[k] = Of("writer", i) => k = 1 /\ ~no_journal
         /\ ~no_journal => w[1] = Of("writer", i)
<1>1. /\ Of("writer", i) \in Task /\ Of("after", i) \in Task /\ Of("free", i) \in Task
      /\ Of("writer", i) # Of("after", i) /\ Of("writer", i) # Of("free", i)
      /\ Of("after", i) # Of("free", i)
  BY DEF Of, FlusherOp, Task
<1> USE <1>1
<1>2. w = (IF no_journal THEN <<>> ELSE <<Of("writer", i)>>)
            \o (IF ondisk THEN <<Of("after", i)>> ELSE <<>>) \o <<Of("free", i)>>
  BY DEF FlusherTasks, Of
<1> USE <1>2
<1>3. CASE no_journal /\ ondisk
  BY SMTT(60), <1>3
<1>4. CASE no_journal /\ ~ondisk
  BY SMTT(60), <1>4
<1>5. CASE ~no_journal /\ ondisk
  BY SMTT(60), <1>5
<1>6. CASE ~no_journal /\ ~ondisk
  BY SMTT(60), <1>6
<1> QED BY <1>3, <1>4, <1>5, <1>6

\* cyanfs_super_flusher_start queues them at the tail.
LEMMA OrderStart ==
  ASSUME Types, QueueOrder, NEW i \in Flusher, ~t_live[i],
         NEW no_journal \in BOOLEAN, NEW ondisk \in BOOLEAN,
         task_head' = task_head \o FlusherTasks(i, no_journal, ondisk), UNCHANGED active,
         t_live' = [t_live EXCEPT ![i] = TRUE]
  PROVE  QueueOrder'
<1>1. PICK w : w = FlusherTasks(i, no_journal, ondisk)
  OBVIOUS
<1>2. /\ w \in Seq(Task) /\ Len(w) \in 1 .. 3
      /\ \A k \in 1 .. Len(w) : w[k] \in {Of("writer", i), Of("after", i), Of("free", i)}
      /\ \A k \in 1 .. Len(w) : w[k] = Of("free", i) <=> k = Len(w)
      /\ \A k \in 1 .. Len(w) : w[k] = Of("writer", i) => k = 1
  BY SMTT(60), <1>1, StartTasks
<1>3. PICK n \in Nat : n = Len(task_head)
  BY SMTT(60) DEF Types, QueueType
<1>4. /\ Len(task_head') = n + Len(w)
      /\ \A k \in 0 .. n : TaskAt(k)' = TaskAt(k)
      /\ \A k \in n + 1 .. n + Len(w) : TaskAt(k)' = w[k - n] /\ k - n \in 1 .. Len(w)
  <2>1. task_head \in Seq(Task) /\ task_head' = task_head \o w
    BY <1>1 DEF Types, QueueType
  <2>2. /\ Len(task_head') = n + Len(w)
        /\ \A k \in 1 .. n : task_head'[k] = task_head[k]
        /\ \A k \in n + 1 .. n + Len(w) : task_head'[k] = w[k - n]
    BY SMTT(60), <1>2, <1>3, <2>1
  <2> QED BY SMTT(60), <1>2, <1>3, <2>2 DEF TaskAt
<1>5. \A k \in Place' : k \in 0 .. n \/ k \in n + 1 .. n + Len(w)
  BY SMTT(60), <1>2, <1>4 DEF Place
<1>6. ASSUME NEW j \in Flusher, NEW op \in FlusherOp, NEW k \in 0 .. n, TaskAt(k)' = Of(op, j)
      PROVE  j # i /\ t_live[j] /\ k \in Place /\ TaskAt(k) = Of(op, j)
  <2>1. k \in Place /\ TaskAt(k) = Of(op, j)
    BY <1>3, <1>4, <1>6 DEF Place
  <2> QED BY <2>1 DEF QueueOrder, TasksLive, Queued, Place
<1>7. ASSUME NEW j \in Flusher, NEW op \in FlusherOp, NEW k \in n + 1 .. n + Len(w),
             TaskAt(k)' = Of(op, j)
      PROVE  /\ j = i /\ op \in {"writer", "after", "free"}
             /\ op = "free" => k = n + Len(w)
             /\ op = "writer" => k = n + 1
  <2>1. TaskAt(k)' = w[k - n] /\ k - n \in 1 .. Len(w)
    BY <1>4
  <2>0. Of(op, j) \in {Of("writer", i), Of("after", i), Of("free", i)}
    BY <1>2, <1>7, <2>1
  <2>2. j = i /\ op \in {"writer", "after", "free"}
    BY SMTT(60), <2>0, OfFacts
  <2>3. op = "free" => k - n = Len(w)
    BY <1>2, <1>7, <2>1, <2>2
  <2>4. op = "writer" => k - n = 1
    BY <1>2, <1>7, <2>1, <2>2
  <2> QED BY SMTT(60), <1>2, <2>1, <2>2, <2>3, <2>4
<1>8. /\ "write" \in FlusherOp /\ "before" \in FlusherOp /\ "before_flush" \in FlusherOp
      /\ "writer" \in FlusherOp /\ "after" \in FlusherOp /\ "after_flush" \in FlusherOp
      /\ "free" \in FlusherOp
  BY DEF FlusherOp
<1>9. WriteFirst'
  <2> SUFFICES ASSUME NEW j \in Flusher, NEW k \in Place', TaskAt(k)' = Of("write", j),
                      NEW l \in 0 .. k - 1
               PROVE  TaskAt(l)' \in {NoTask, Of("before", j), Of("before_flush", j)}
    BY DEF WriteFirst
  <2>1. k \in 0 .. n
    BY <1>5, <1>7, <1>8
  <2>2. k \in Place /\ TaskAt(k) = Of("write", j)
    BY <1>6, <1>8, <2>1
  <2>3. TaskAt(l)' = TaskAt(l)
    BY SMTT(60), <1>4, <2>1
  <2> QED BY <2>2, <2>3 DEF QueueOrder, WriteFirst
<1>10. BeforeNext'
  <2> SUFFICES ASSUME NEW j \in Flusher, NEW op \in {"before", "before_flush"},
                      NEW k \in Place', TaskAt(k)' = Of(op, j)
               PROVE  k + 1 \in Place' /\ TaskAt(k + 1)' = Of("write", j)
    BY DEF BeforeNext
  <2>1. k \in 0 .. n
    BY <1>5, <1>7, <1>8
  <2>2. k \in Place /\ TaskAt(k) = Of(op, j)
    BY <1>6, <1>8, <2>1
  <2>3. k + 1 \in Place /\ TaskAt(k + 1) = Of("write", j)
    BY <2>2 DEF QueueOrder, BeforeNext
  <2> QED BY SMTT(60), <1>2, <1>3, <1>4, <2>3 DEF Place
<1>11. WriterAhead'
  <2> SUFFICES ASSUME NEW j \in Flusher, NEW k \in Place', NEW l \in Place',
                      NEW op \in {"writer", "write", "after", "after_flush"},
                      TaskAt(k)' = Of("writer", j), TaskAt(l)' = Of(op, j)
               PROVE  k <= l
    BY DEF WriterAhead
  <2>1. CASE k \in 0 .. n /\ l \in 0 .. n
    <3>1. k \in Place /\ TaskAt(k) = Of("writer", j) /\ l \in Place /\ TaskAt(l) = Of(op, j)
      BY SMTT(60), <1>6, <1>8, <2>1
    <3> QED BY <3>1 DEF QueueOrder, WriterAhead
  <2>2. CASE k \in 0 .. n /\ l \in n + 1 .. n + Len(w)
    BY SMTT(60), <1>2, <2>2
  <2>3. CASE k \in n + 1 .. n + Len(w) /\ l \in 0 .. n
    <3>1. j # i
      BY <1>6, <1>8, <2>3
    <3> QED BY <1>7, <1>8, <2>3, <3>1
  <2>4. CASE k \in n + 1 .. n + Len(w) /\ l \in n + 1 .. n + Len(w)
    <3>1. k = n + 1
      BY <1>7, <1>8, <2>4
    <3> QED BY SMTT(60), <1>2, <2>4, <3>1
  <2> QED BY <1>5, <2>1, <2>2, <2>3, <2>4
<1>12. FreeLast'
  <2> SUFFICES ASSUME NEW j \in Flusher, NEW k \in Place', NEW l \in Place',
                      NEW op \in FlusherOp,
                      TaskAt(k)' = Of("free", j), TaskAt(l)' = Of(op, j)
               PROVE  l <= k
    BY DEF FreeLast
  <2>1. CASE k \in 0 .. n /\ l \in 0 .. n
    <3>1. k \in Place /\ TaskAt(k) = Of("free", j) /\ l \in Place /\ TaskAt(l) = Of(op, j)
      BY <1>6, <1>8, <2>1
    <3> QED BY <3>1 DEF QueueOrder, FreeLast
  <2>2. CASE k \in 0 .. n /\ l \in n + 1 .. n + Len(w)
    <3>1. j # i
      BY <1>6, <1>8, <2>2
    <3> QED BY <1>7, <1>8, <2>2, <3>1
  <2>3. CASE k \in n + 1 .. n + Len(w)
    <3>1. k = n + Len(w)
      BY <1>7, <1>8, <2>3
    <3> QED BY SMTT(60), <1>2, <1>4, <3>1 DEF Place
  <2> QED BY <1>5, <2>1, <2>2, <2>3
<1>13. TasksLive'
  <2> SUFFICES ASSUME NEW j \in Flusher, NEW k \in Place', NEW op \in FlusherOp,
                      TaskAt(k)' = Of(op, j)
               PROVE  t_live'[j]
    BY DEF TasksLive, Queued, Place
  <2>1. j = i \/ t_live[j]
    BY <1>5, <1>6, <1>7
  <2> QED BY <2>1 DEF Types, FlusherType
<1> QED BY <1>9, <1>10, <1>11, <1>12, <1>13 DEF QueueOrder

\* What is queued after tasks were added and the running one may have ended.
InQueue(x) == \E k \in 1 .. Len(task_head) : task_head[k] = x

\* A task is queued when it runs or waits.
LEMMA QueuedCases ==
  ASSUME Types, NEW x
  PROVE  Queued(x) <=> active = x \/ InQueue(x)
<1>1. Len(task_head) \in Nat
  BY SMTT(60) DEF Types, QueueType
<1>2. Queued(x) => active = x \/ InQueue(x)
  BY SMTT(60), <1>1 DEF Queued, InQueue, TaskAt
<1>3. active = x => Queued(x)
  BY SMTT(60), <1>1 DEF Queued, TaskAt
<1>4. InQueue(x) => Queued(x)
  BY SMTT(60), <1>1 DEF Queued, InQueue, TaskAt
<1> QED BY <1>2, <1>3, <1>4

\* The same after a step.
LEMMA QueuedThen ==
  ASSUME Types'
  PROVE  \A x : Queued(x)' <=> active' = x \/ InQueue(x)'
<1> TAKE x
<1>1. Len(task_head') \in Nat
  BY SMTT(60) DEF Types, QueueType
<1>2. Queued(x)' => active' = x \/ InQueue(x)'
  BY SMTT(60), <1>1 DEF Queued, InQueue, TaskAt
<1>3. active' = x => Queued(x)'
  BY SMTT(60), <1>1 DEF Queued, TaskAt
<1>4. InQueue(x)' => Queued(x)'
  BY SMTT(60), <1>1 DEF Queued, InQueue, TaskAt
<1> QED BY <1>2, <1>3, <1>4

\* Which tasks wait after some were added at an end of the queue.
LEMMA QueuedAdd ==
  ASSUME Types, Types', NEW a \in Seq(Task), NEW x,
         task_head' = a \o task_head \/ task_head' = task_head \o a
  PROVE  InQueue(x)' <=> InQueue(x) \/ \E k \in 1 .. Len(a) : a[k] = x
<1>1. task_head \in Seq(Task) /\ Len(a) \in Nat /\ Len(task_head) \in Nat
  BY SMTT(60) DEF Types, QueueType
<1>2. PICK n \in Nat, m \in Nat : n = Len(task_head) /\ m = Len(a)
  BY <1>1
<1>3. ASSUME NEW p \in Seq(Task), NEW q \in Seq(Task), task_head' = p \o q
      PROVE  InQueue(x)' <=> \/ \E k \in 1 .. Len(p) : p[k] = x
                             \/ \E k \in 1 .. Len(q) : q[k] = x
  <2>1. PICK i \in Nat, j \in Nat : i = Len(p) /\ j = Len(q)
    BY SMTT(60)
  <2>2. /\ Len(task_head') = i + j
        /\ \A k \in 1 .. i : task_head'[k] = p[k]
        /\ \A k \in 1 .. j : task_head'[i + k] = q[k]
    BY SMTT(60), <1>3, <2>1
  <2> USE <2>2
  <2>3. ASSUME NEW k \in 1 .. i + j, task_head'[k] = x
        PROVE  \/ \E l \in 1 .. i : p[l] = x
               \/ \E l \in 1 .. j : q[l] = x
    <3>1. CASE k \in 1 .. i
      BY <2>3, <3>1
    <3>2. CASE k \notin 1 .. i
      <4>1. k - i \in 1 .. j /\ i + (k - i) = k
        BY SMTT(60), <3>2
      <4> QED BY <2>3, <4>1
    <3> QED BY <3>1, <3>2
  <2>4. ASSUME NEW l \in 1 .. i, p[l] = x PROVE InQueue(x)'
    BY SMTT(60), <2>4 DEF InQueue
  <2>5. ASSUME NEW l \in 1 .. j, q[l] = x PROVE InQueue(x)'
    <3>1. i + l \in 1 .. i + j
      BY SMTT(60)
    <3> QED BY <2>5, <3>1 DEF InQueue
  <2> QED BY <2>1, <2>3, <2>4, <2>5 DEF InQueue
<1> QED BY <1>1, <1>3 DEF InQueue

\* And after the next one was taken.
LEMMA QueuedGet ==
  ASSUME Types, GetTask, NEW x, x # NoTask
  PROVE  Queued(x)' <=> Queued(x)
<1>1. ASSUME NEW k \in Place', TaskAt(k)' = x PROVE Queued(x)
  BY <1>1, PlacesGet DEF Queued, Place
<1>2. ASSUME NEW k \in Place, TaskAt(k) = x PROVE Queued(x)'
  <2>1. k # 0
    BY <1>2, PlacesGet
  <2>2. k - 1 \in Place' /\ (k - 1) + 1 = k
    BY SMTT(60), <2>1, PlacesGet DEF Place
  <2>3. TaskAt(k - 1)' = x
    BY <1>2, <2>2, PlacesGet
  <2> QED BY <2>2, <2>3 DEF Queued, Place
<1> QED BY <1>1, <1>2 DEF Queued, Place

-----------------------------------------------------------------------------
(* Lists of journal entries.                                               *)

\* An empty list unbinds and binds nothing.
LEMMA NoEntries ==
  UnbindsOf(<<>>) = {} /\ CopiesOf(<<>>) = {} /\ CopiesFlush(<<>>) /\ ~AnyFlush(<<>>)
BY SMTT(60) DEF UnbindsOf, CopiesOf, CopiesFlush, AnyFlush

\* An entry is appended.
LEMMA AppendEntry ==
  ASSUME NEW q \in Seq(Entry), NEW x \in Entry
  PROVE  /\ UnbindsOf(Append(q, x)) = UnbindsOf(q) \cup x.unbinds
         /\ CopiesFlush(q) /\ (x.copies # {} => x.flush) => CopiesFlush(Append(q, x))
<1>1. PICK n \in Nat : n = Len(q)
  BY SMTT(60)
<1>2. /\ DOMAIN q = 1 .. n /\ DOMAIN Append(q, x) = 1 .. n + 1
      /\ \A k \in 1 .. n : Append(q, x)[k] = q[k]
      /\ Append(q, x)[n + 1] = x
  BY SMTT(60), <1>1
<1>3. \A k \in 1 .. n + 1 : k \in 1 .. n \/ k = n + 1
  BY SMTT(60)
<1>4. 1 .. n \subseteq 1 .. n + 1 /\ n + 1 \in 1 .. n + 1
  BY SMTT(60)
<1>5. UnbindsOf(Append(q, x)) = UnbindsOf(q) \cup x.unbinds
  BY <1>2, <1>3, <1>4 DEF UnbindsOf
<1>6. CopiesFlush(q) /\ (x.copies # {} => x.flush) => CopiesFlush(Append(q, x))
  BY <1>2, <1>3 DEF CopiesFlush
<1> QED BY <1>5, <1>6

\* A list is cut into a record and the rest.
LEMMA CutEntries ==
  ASSUME NEW q \in Seq(Entry), NEW n \in 1 .. Len(q)
  PROVE  /\ UnbindsOf(q) \subseteq UnbindsOf(SubSeq(q, 1, n)) \cup UnbindsOf(SubSeq(q, n + 1, Len(q)))
         /\ CopiesFlush(q) => /\ CopiesFlush(SubSeq(q, 1, n))
                              /\ CopiesFlush(SubSeq(q, n + 1, Len(q)))
<1>1. PICK m \in Nat : m = Len(q) /\ n \in 1 .. m
  BY SMTT(60)
<1> USE <1>1
<1>2. PICK r, t : r = SubSeq(q, 1, n) /\ t = SubSeq(q, n + 1, m)
  OBVIOUS
<1>3. /\ DOMAIN q = 1 .. m /\ DOMAIN r = 1 .. n /\ DOMAIN t = 1 .. m - n
      /\ \A k \in 1 .. n : r[k] = q[k]
      /\ \A k \in 1 .. m - n : t[k] = q[n + k]
  BY SMTT(60), <1>2
<1> USE <1>3
<1>4. \A k \in 1 .. m : k \in 1 .. n \/ (k - n \in 1 .. m - n /\ n + (k - n) = k)
  BY SMTT(60)
<1>5. UnbindsOf(q) \subseteq UnbindsOf(r) \cup UnbindsOf(t)
  <2> SUFFICES ASSUME NEW k \in 1 .. m, NEW e \in q[k].unbinds
               PROVE  e \in UnbindsOf(r) \cup UnbindsOf(t)
    BY DEF UnbindsOf
  <2>1. CASE k \in 1 .. n
    BY <2>1 DEF UnbindsOf
  <2>2. CASE k - n \in 1 .. m - n /\ n + (k - n) = k
    <3>1. t[k - n] = q[k]
      BY <2>2
    <3> QED BY <2>2, <3>1 DEF UnbindsOf
  <2> QED BY <1>4, <2>1, <2>2
<1>6. CopiesFlush(q) => CopiesFlush(r)
  BY SMTT(60) DEF CopiesFlush
<1>7. CopiesFlush(q) => CopiesFlush(t)
  <2>1. \A k \in 1 .. m - n : n + k \in 1 .. m
    BY SMTT(60)
  <2> QED BY <2>1 DEF CopiesFlush
<1> QED BY <1>2, <1>5, <1>6, <1>7

-----------------------------------------------------------------------------
(* The steps that leave the writers alone.                                 *)

\* The tasks of writers are the same as before, or those that write.
WriterOp == {"writer", "write", "before", "before_flush"}
SameWrites ==
  \A i \in Flusher : \A op \in {"writer", "write"} : Queued(Of(op, i))' <=> Queued(Of(op, i))
SameWriters ==
  \A i \in Flusher : \A op \in WriterOp : Queued(Of(op, i))' <=> Queued(Of(op, i))

\* The steps that neither add nor end a writer's task.
Passive ==
  \/ GetTask
  \/ /\ active' = active \/ (active' = NoTask /\ active.op \notin WriterOp)
     /\ \/ task_head' = task_head
        \/ \E x \in Task : x.op \notin FlusherOp /\ task_head' = Append(task_head, x)

\* They leave every task of a writer where it was, queued or running.
LEMMA WritersKept ==
  ASSUME Types, Types', Passive
  PROVE  SameWriters /\ SameWrites
<1> SUFFICES ASSUME NEW i \in Flusher, NEW op \in WriterOp
             PROVE  Queued(Of(op, i))' <=> Queued(Of(op, i))
  BY DEF SameWriters, SameWrites, WriterOp
<1> USE DEF Passive
<1>1. op \in FlusherOp /\ Of(op, i) # NoTask /\ Of(op, i).op = op
  BY OfFacts DEF WriterOp, FlusherOp, Of
<1>2. CASE GetTask
  BY <1>1, <1>2, QueuedGet
<1>3. CASE ~GetTask
  <2>1. InQueue(Of(op, i))' <=> InQueue(Of(op, i))
    <3>1. CASE task_head' = task_head
      BY <3>1 DEF InQueue
    <3>2. ASSUME NEW x \in Task, x.op \notin FlusherOp, task_head' = Append(task_head, x)
          PROVE  InQueue(Of(op, i))' <=> InQueue(Of(op, i))
      <4>1. /\ <<x>> \in Seq(Task) /\ task_head' = task_head \o <<x>>
            /\ \A k \in 1 .. Len(<<x>>) : <<x>>[k] = x
        BY <3>2, SmallSeqs, SeqJoin DEF Types, QueueType
      <4>2. x # Of(op, i)
        BY <1>1, <3>2
      <4> QED BY <4>1, <4>2, QueuedAdd
    <3> QED BY <1>3, <3>1, <3>2
  <2>2. active' = Of(op, i) <=> active = Of(op, i)
    BY <1>1, <1>3
  <2>3. Queued(Of(op, i)) <=> active = Of(op, i) \/ InQueue(Of(op, i))
    BY QueuedCases
  <2>4. Queued(Of(op, i))' <=> active' = Of(op, i) \/ InQueue(Of(op, i))'
    <3>1. \A x : Queued(x)' <=> active' = x \/ InQueue(x)'
      BY QueuedThen
    <3> QED BY <3>1
  <2> QED BY <2>1, <2>2, <2>3, <2>4
<1> QED BY <1>2, <1>3

\* The parts of the invariant when the writers are left alone.
LEMMA StateKept ==
  ASSUME WriterState, SameWrites, UNCHANGED <<t_head, t_record, t_flush_before_write, t_live>>,
         Failed => Failed', \A i \in Flusher : t_nop'[i] => t_nop[i] \/ Failed'
  PROVE  WriterState'
BY DEF WriterState, SameWrites

\* No data is copied, or no flusher writes.
LEMMA CopyKept ==
  ASSUME CopyInv, SameWriters, UNCHANGED writing, CopiesFlush(journal_head'),
         \/ dirty_copies' \in {dirty_copies, {}}
         \/ \A i \in Flusher : ~Queued(Of("write", i))
  PROVE  CopyInv'
<1>1. \A i \in Flusher : FlushedForWrite(i)' <=> FlushedForWrite(i)
  BY DEF FlushedForWrite, SameWriters, WriterOp, writing
<1>2. UNCHANGED <<t_head, t_record, t_flush_before_write>>
  BY DEF writing
<1>3. \A i \in Flusher : FlushedForWrite(i) => dirty_copies' = {}
  BY DEF CopyInv, FlushedForWrite
<1> QED BY <1>1, <1>2, <1>3 DEF CopyInv

\* Extents are unbound, and entries wait, in the same places as before.
LEMMA UnbindKept ==
  ASSUME UnbindInv, SameWrites, UNCHANGED <<t_head, t_record, t_unused>>,
         Failed => Failed',
         \/ flush_extents' = flush_extents
         \/ \A i \in Flusher : ~Queued(Of("write", i)),
         unused_extents \cap UnbindsOf(journal_head)
           \subseteq unused_extents' \cap UnbindsOf(journal_head'),
         (volatile \ dirty_unbinds)'
           \subseteq (volatile \ dirty_unbinds) \cup (unused_extents' \cap UnbindsOf(journal_head'))
  PROVE  UnbindInv'
<1> SUFFICES ASSUME ~Failed', NEW e \in (volatile \ dirty_unbinds)',
                    e \notin unused_extents' \cap UnbindsOf(journal_head')
             PROVE  \E i \in Flusher :
                      /\ e \in Pending(i)'
                      /\ e \in t_unused'[i] \/ (e \in flush_extents' /\ Queued(Of("write", i))')
  BY DEF UnbindInv
<1>1. e \in volatile \ dirty_unbinds /\ ~Failed /\ e \notin unused_extents \cap UnbindsOf(journal_head)
  OBVIOUS
<1>2. PICK i \in Flusher :
        /\ e \in Pending(i)
        /\ e \in t_unused[i] \/ (e \in flush_extents /\ Queued(Of("write", i)))
  BY <1>1 DEF UnbindInv
<1>3. Pending(i)' = Pending(i) /\ t_unused'[i] = t_unused[i]
  BY DEF Pending
<1>4. Queued(Of("write", i))' <=> Queued(Of("write", i))
  BY DEF SameWrites
<1> QED BY <1>2, <1>3, <1>4

\* Extents stay in limbo.
LEMMA ReuseKept ==
  ASSUME DurableBeforeReuse, volatile' \subseteq volatile \cup unused_extents',
         unused_extents \cup HeldUnused \cup flush_extents
           \subseteq (unused_extents \cup HeldUnused \cup flush_extents)'
  PROVE  DurableBeforeReuse'
BY DEF DurableBeforeReuse

\* A step that leaves the writers alone, gives entries and extents only to the
\* lists of the super, and copies data only while nobody writes.
LEMMA Quiet ==
  ASSUME Types, Types', DInv, Passive,
         UNCHANGED <<writing, t_live, t_unused, flush_extents>>,
         Failed => Failed', CopiesFlush(journal_head'),
         \/ dirty_copies' \in {dirty_copies, {}}
         \/ \A i \in Flusher : ~Queued(Of("write", i)),
         unused_extents \cap UnbindsOf(journal_head)
           \subseteq unused_extents' \cap UnbindsOf(journal_head'),
         (volatile \ dirty_unbinds)'
           \subseteq (volatile \ dirty_unbinds) \cup (unused_extents' \cap UnbindsOf(journal_head')),
         volatile' \subseteq volatile \cup unused_extents', unused_extents \subseteq unused_extents'
  PROVE  DInv'
<1>1. QueueOrder'
  BY OrderKept DEF Passive, DInv
<1>2. SameWriters /\ SameWrites
  BY WritersKept
<1>3. UNCHANGED <<t_head, t_record, t_nop, t_flush_before_write>>
  BY DEF writing
<1>4. WriterState'
  BY <1>2, <1>3, StateKept DEF DInv
<1>5. CopyInv'
  BY <1>2, CopyKept DEF DInv
<1>6. UnbindInv'
  BY <1>2, <1>3, UnbindKept DEF DInv
<1>7. HeldUnused' = HeldUnused
  BY DEF HeldUnused
<1>8. DurableBeforeReuse'
  BY <1>7, ReuseKept DEF DInv
<1> QED BY <1>1, <1>4, <1>5, <1>6, <1>8 DEF DInv

\* In particular one that gives nothing and at most makes the cache durable.
LEMMA QuietDevice ==
  ASSUME Types, Types', DInv, Passive,
         UNCHANGED <<writing, t_live, t_unused, flush_extents, unused_extents, journal_head>>,
         Failed => Failed', UNCHANGED device \/ FlushDevice(FALSE)
  PROVE  DInv'
<1>1. CopiesFlush(journal_head')
  BY DEF DInv, CopyInv
<1>2. /\ dirty_copies' \in {dirty_copies, {}} /\ volatile' \subseteq volatile
      /\ (volatile \ dirty_unbinds)' = volatile \ dirty_unbinds
  BY DEF FlushDevice, device
<1> QED BY <1>1, <1>2, Quiet

-----------------------------------------------------------------------------
(* The steps of the callers.                                               *)

\* Steps that only change the locals and the counters of the callers.
LEMMA DurLocal ==
  ASSUME Types, Types', DInv, UNCHANGED <<pools, flags, journal_head, tasks, flusher, device>>
  PROVE  DInv'
<1>1. UNCHANGED <<writing, t_live, t_unused, flush_extents, unused_extents, flags>>
  BY DEF pools, flusher
<1>2. Passive
  BY DEF Passive, tasks
<1>3. Failed => Failed'
  BY DEF Failed
<1> QED BY <1>1, <1>2, <1>3, QuietDevice

\* Most steps of cyanfs_write and of the flush calls.
LEMMA DurCaller ==
  ASSUME Types, Types', DInv, NEW t \in Caller,
         \/ FlusherCheck(t) \/ FlusherNothing(t) \/ (\E b \in BOOLEAN : SuperFlush(t, b))
         \/ WriteFails(t) \/ WriteNoSpace(t) \/ WriteRaced(t) \/ WriteDone(t)
         \/ \E f \in File : WriteMapped(t, f) \/ WriteUnmapped(t, f) \/ DiscardCheck(t, f)
  PROVE  DInv'
<1>1. UNCHANGED <<pools, flags, journal_head, tasks, flusher, device>>
  BY DEF FlusherCheck, FlusherNothing, SuperFlush, WriteFails, WriteNoSpace, WriteRaced,
               WriteDone, WriteMapped, WriteUnmapped, DiscardCheck
<1> QED BY <1>1, DurLocal

\* A requeue task is queued.
LEMMA DurRequeue ==
  ASSUME Types, Types', DInv, NEW t \in Caller, t \in Thread, WriteRequeue(t)
  PROVE  DInv'
<1>1. [op |-> "requeue", of |-> t] \in Task /\ [op |-> "requeue", of |-> t].op \notin FlusherOp
  BY DEF Task, FlusherOp
<1>2. Passive
  BY <1>1 DEF Passive, WriteRequeue
<1>3. UNCHANGED <<writing, t_live, t_unused, flush_extents, unused_extents, flags, journal_head,
                  device>>
  BY DEF WriteRequeue, pools, flusher
<1>4. Failed => Failed'
  BY <1>3 DEF Failed
<1> QED BY <1>2, <1>3, <1>4, QuietDevice

\* An extent is allocated: a copy task is queued, or a BIND that copies nothing.
LEMMA DurAlloc ==
  ASSUME Types, Types', DInv, NEW t \in Caller, WriteAlloc(t), file[t] \in File
  PROVE  DInv'
<1>1. UNCHANGED <<writing, t_live, t_unused, flush_extents, unused_extents, flags, active,
                  device>>
  BY DEF WriteAlloc, flusher
<1> USE <1>1
<1>2. Failed => Failed'
  BY DEF Failed
<1>3. CASE file[t] \in Cow
  <2>1. PICK e \in free_extents :
          task_head' = Append(task_head, [op |-> "copy", of |-> file[t], node |-> e])
          /\ UNCHANGED journal_head
    BY <1>3 DEF WriteAlloc
  <2>2. PICK x : x = [op |-> "copy", of |-> file[t], node |-> e]
    OBVIOUS
  <2>3. x \in Task /\ x.op \notin FlusherOp
    BY <2>2 DEF Task, FlusherOp, Types, PoolsType
  <2>4. Passive
    BY <2>1, <2>2, <2>3 DEF Passive
  <2> QED BY <1>2, <2>1, <2>4, QuietDevice
<1>4. CASE file[t] \notin Cow
  <2>1. PICK x : x = [flush |-> FALSE, unbinds |-> {}, copies |-> {}]
    OBVIOUS
  <2>2. journal_head' = Append(journal_head, x) /\ UNCHANGED task_head
    BY <1>4, <2>1 DEF WriteAlloc
  <2>3. x \in Entry /\ x.copies = {} /\ x.unbinds = {}
    BY <2>1 DEF Entry
  <2>4. /\ UnbindsOf(journal_head') = UnbindsOf(journal_head) \cup x.unbinds
        /\ CopiesFlush(journal_head) => CopiesFlush(journal_head')
    BY <2>2, <2>3, AppendEntry DEF Types, QueueType
  <2>5. Passive
    BY <2>2 DEF Passive
  <2>6. CopiesFlush(journal_head)
    BY DEF DInv, CopyInv
  <2>7. UNCHANGED <<dirty_copies, volatile, dirty_unbinds>>
    BY DEF device
  <2> QED BY <1>2, <2>3, <2>4, <2>5, <2>6, <2>7, Quiet
<1> QED BY <1>3, <1>4

\* __cyanfs_file_unmap_extent: the extent waits and so does its entry.
LEMMA DurUnmap ==
  ASSUME Types, Types', DInv, NEW f \in File, NEW flush \in BOOLEAN, Unmap(f, flush),
         UNCHANGED <<flush_extents, flags, tasks, flusher, dirty_unbinds, dirty_copies>>
  PROVE  DInv'
<1>1. PICK gone : gone = {extents[f]} \ {NoExtent}
  OBVIOUS
<1>2. PICK x : x = [flush |-> flush, unbinds |-> gone, copies |-> {}]
  OBVIOUS
<1>3. /\ unused_extents' = unused_extents \cup gone /\ volatile' = volatile \cup gone
      /\ journal_head' = Append(journal_head, x)
  BY <1>1, <1>2 DEF Unmap
<1> USE <1>3
<1>4. gone \subseteq Extent
  BY <1>1 DEF Types, NodesType
<1>5. x \in Entry /\ x.copies = {} /\ x.unbinds = gone
  BY <1>2, <1>4 DEF Entry
<1>6. /\ UnbindsOf(journal_head') = UnbindsOf(journal_head) \cup gone
      /\ CopiesFlush(journal_head) => CopiesFlush(journal_head')
  <2>1. journal_head \in Seq(Entry)
    BY DEF Types, QueueType
  <2> QED BY <1>5, <2>1, AppendEntry
<1>7. CopiesFlush(journal_head')
  BY <1>6 DEF DInv, CopyInv
<1>8. Passive
  BY DEF Passive, tasks
<1>9. UNCHANGED <<writing, t_live, t_unused>> /\ (Failed => Failed')
  BY DEF flusher, Failed
<1>10. gone \subseteq unused_extents' \cap UnbindsOf(journal_head')
  BY <1>6
<1>11. unused_extents \cap UnbindsOf(journal_head) \subseteq unused_extents' \cap UnbindsOf(journal_head')
  BY <1>6
<1>12. (volatile \ dirty_unbinds)'
         \subseteq (volatile \ dirty_unbinds) \cup (unused_extents' \cap UnbindsOf(journal_head'))
  BY <1>10
<1>13. volatile' \subseteq volatile \cup unused_extents' /\ unused_extents \subseteq unused_extents'
  OBVIOUS
<1> QED BY <1>7, <1>8, <1>9, <1>11, <1>12, <1>13, Quiet

\* cyanfs_discard, cyanfs_truncate and cyanfs_delete.
LEMMA DurUnmaps ==
  ASSUME Types, Types', DInv, NEW t \in Caller, LocalsInv,
         DiscardUnmap(t) \/ \E f \in File : Truncate(t, f) \/ Delete(t, f)
  PROVE  DInv'
<1>1. ASSUME NEW f \in File, Truncate(t, f) \/ Delete(t, f) PROVE DInv'
  BY <1>1, DurUnmap DEF Truncate, Delete, TruncateOrDelete
<1>2. CASE DiscardUnmap(t)
  <2>1. file[t] \in File
    BY <1>2 DEF DiscardUnmap, LocalsInv
  <2>2. UNCHANGED <<flush_extents, flags, tasks, flusher, dirty_unbinds, dirty_copies>>
    BY <1>2 DEF DiscardUnmap
  <2>3. CASE Unmap(file[t], TRUE)
    BY <2>1, <2>2, <2>3, DurUnmap
  <2>4. CASE UNCHANGED <<nodes, unused_extents, volatile, journal_head, bug>>
    <3>1. UNCHANGED <<writing, t_live, t_unused, flush_extents, unused_extents, journal_head,
                      device>>
      BY <2>2, <2>4 DEF flusher, device
    <3>2. Passive /\ (Failed => Failed')
      BY <2>2 DEF Passive, tasks, Failed
    <3> QED BY <3>1, <3>2, QuietDevice
  <2> QED BY <1>2, <2>3, <2>4 DEF DiscardUnmap
<1> QED BY <1>1, <1>2

\* What is queued once the tasks of a flusher are.
LEMMA QueuedStart ==
  ASSUME Types, Types', NEW i \in Flusher, NEW no_journal \in BOOLEAN, NEW ondisk \in BOOLEAN,
         task_head' = task_head \o FlusherTasks(i, no_journal, ondisk), UNCHANGED active
  PROVE  /\ \A j \in Flusher : \A op \in FlusherOp :
              j # i => (Queued(Of(op, j))' <=> Queued(Of(op, j)))
         /\ ~no_journal => Queued(Of("writer", i))'
         /\ Queued(Of("write", i))' => Queued(Of("write", i))
<1>1. PICK w : w = FlusherTasks(i, no_journal, ondisk)
  OBVIOUS
<1>2. /\ w \in Seq(Task) /\ Len(w) \in 1 .. 3
      /\ \A k \in 1 .. Len(w) : w[k] \in {Of("writer", i), Of("after", i), Of("free", i)}
      /\ ~no_journal => w[1] = Of("writer", i)
  BY <1>1, StartTasks
<1> USE <1>2
<1>3. \A x : InQueue(x)' <=> InQueue(x) \/ \E k \in 1 .. Len(w) : w[k] = x
  BY <1>1, QueuedAdd
<1>4. \A x : Queued(x) <=> active = x \/ InQueue(x)
  BY QueuedCases
<1>5. \A x : Queued(x)' <=> active' = x \/ InQueue(x)'
  BY QueuedThen
<1>6. \A x : Queued(x)' <=> Queued(x) \/ \E k \in 1 .. Len(w) : w[k] = x
  BY <1>3, <1>4, <1>5
<1>7. 1 \in 1 .. Len(w)
  <2>1. PICK m \in 1 .. 3 : m = Len(w)
    OBVIOUS
  <2> QED BY SMTT(60), <2>1
<1>8. Of("write", i) \notin {Of("writer", i), Of("after", i), Of("free", i)}
  BY SMTT(60), OfFacts
<1>9. \A j, op : j # i => Of(op, j) \notin {Of("writer", i), Of("after", i), Of("free", i)}
  BY SMTT(60), OfFacts
<1>10. \A j \in Flusher : \A op \in FlusherOp :
         j # i => (Queued(Of(op, j))' <=> Queued(Of(op, j)))
  BY <1>6, <1>9
<1>11. ~no_journal => Queued(Of("writer", i))'
  BY <1>6, <1>7
<1>12. Queued(Of("write", i))' => Queued(Of("write", i))
  BY <1>6, <1>8
<1> QED BY <1>10, <1>11, <1>12

\* A flusher that is not allocated has nothing to write.
LEMMA DeadWriter ==
  ASSUME QueueOrder, WriterState, NEW i \in Flusher, ~t_live[i]
  PROVE  /\ \A op \in FlusherOp : ~Queued(Of(op, i))
         /\ t_head[i] = <<>> /\ t_record[i] = <<>> /\ ~t_flush_before_write[i]
<1>1. \A op \in FlusherOp : ~Queued(Of(op, i))
  BY DEF QueueOrder, TasksLive
<1>2. "writer" \in FlusherOp /\ "write" \in FlusherOp
  BY DEF FlusherOp
<1> QED BY <1>1, <1>2 DEF WriterState

\* cyanfs_super_flusher_start takes the unused extents with their entries.
LEMMA DurStart ==
  ASSUME Types, Types', DeadInv, DInv, NEW t \in Caller, NEW i \in Flusher, FlusherStart(t, i)
  PROVE  DInv'
<1>1. PICK no_journal \in BOOLEAN, ondisk \in BOOLEAN :
        /\ no_journal = (journal_head = <<>>)
        /\ task_head' = task_head \o FlusherTasks(i, no_journal, ondisk)
  BY DEF FlusherStart
<1>2. /\ ~t_live[i] /\ t_live' = [t_live EXCEPT ![i] = TRUE]
      /\ t_unused' = [t_unused EXCEPT ![i] = unused_extents] /\ unused_extents' = {}
      /\ t_head' = [t_head EXCEPT ![i] = journal_head] /\ journal_head' = <<>>
      /\ UNCHANGED <<flush_extents, active, t_record, t_nop, t_flush_before_write, device>>
  BY DEF FlusherStart
<1> USE <1>2
<1>3. Failed' <=> Failed
  BY DEF FlusherStart, Failed
<1>4. QueueOrder'
  BY <1>1, OrderStart DEF DInv
<1>5. /\ \A j \in Flusher : \A op \in FlusherOp :
           j # i => (Queued(Of(op, j))' <=> Queued(Of(op, j)))
      /\ ~no_journal => Queued(Of("writer", i))'
      /\ Queued(Of("write", i))' => Queued(Of("write", i))
  BY <1>1, QueuedStart
<1> USE <1>5
<1>6. /\ ~Queued(Of("write", i)) /\ t_head[i] = <<>> /\ t_record[i] = <<>>
      /\ ~t_flush_before_write[i]
  BY DeadWriter DEF DInv, FlusherOp
<1>7. /\ t_head'[i] = journal_head /\ t_unused'[i] = unused_extents /\ t_live'[i]
      /\ \A j \in Flusher : j # i => /\ t_head'[j] = t_head[j] /\ t_unused'[j] = t_unused[j]
                                     /\ t_live'[j] = t_live[j]
  BY DEF Types, FlusherType
<1> USE <1>7
<1>8. /\ \A op \in WriterOp : op \in FlusherOp
      /\ {"writer", "write", "before", "before_flush"} \subseteq FlusherOp
  BY DEF WriterOp, FlusherOp
<1>9. WriterState'
  <2> SUFFICES ASSUME NEW j \in Flusher PROVE WriterState!(j)'
    BY DEF WriterState
  <2>1. CASE j = i
    BY <1>1, <1>3, <1>6, <2>1 DEF DInv, WriterState
  <2>2. CASE j # i
    BY <1>3, <1>8, <2>2 DEF DInv, WriterState
  <2> QED BY <2>1, <2>2
<1>10. UNCHANGED <<dirty_copies, dirty_unbinds, volatile>>
  BY DEF device
<1>11. CopyInv'
  <2>1. CopiesFlush(journal_head) /\ CopiesFlush(journal_head')
    BY NoEntries DEF DInv, CopyInv
  <2>2. ASSUME NEW j \in Flusher
        PROVE  /\ CopiesFlush(t_head'[j]) /\ CopiesFlush(t_record'[j])
               /\ AnyFlush(t_record'[j]) => t_flush_before_write'[j]
    BY <2>1 DEF DInv, CopyInv
  <2>3. ASSUME NEW j \in Flusher, FlushedForWrite(j)' PROVE dirty_copies' = {}
    <3>1. j # i
      BY <1>6, <2>3 DEF FlushedForWrite
    <3>2. FlushedForWrite(j)
      BY <1>8, <2>3, <3>1 DEF FlushedForWrite
    <3> QED BY <1>10, <3>2 DEF DInv, CopyInv
  <2> QED BY <2>1, <2>2, <2>3 DEF CopyInv
<1>12. /\ Pending(i) = {} /\ UnbindsOf(journal_head) \subseteq Pending(i)'
       /\ \A j \in Flusher : j # i => Pending(j)' = Pending(j)
  BY <1>6, NoEntries DEF Pending
<1>13. UnbindInv'
  <2> SUFFICES ASSUME ~Failed, NEW e \in volatile \ dirty_unbinds
               PROVE  \E j \in Flusher :
                        /\ e \in Pending(j)'
                        /\ e \in t_unused'[j] \/ (e \in flush_extents' /\ Queued(Of("write", j))')
    BY <1>3, <1>10 DEF UnbindInv
  <2>1. CASE e \in unused_extents \cap UnbindsOf(journal_head)
    BY <1>12, <2>1
  <2>2. ASSUME NEW j \in Flusher, e \in Pending(j),
               e \in t_unused[j] \/ (e \in flush_extents /\ Queued(Of("write", j)))
        PROVE  \E l \in Flusher :
                 /\ e \in Pending(l)'
                 /\ e \in t_unused'[l] \/ (e \in flush_extents' /\ Queued(Of("write", l))')
    <3>1. j # i
      BY <1>12, <2>2
    <3> QED BY <1>8, <1>12, <2>2, <3>1
  <2> QED BY <2>1, <2>2 DEF DInv, UnbindInv
<1>14. unused_extents \cup HeldUnused \subseteq HeldUnused'
  BY SMTT(60) DEF HeldUnused, DeadInv
<1>15. DurableBeforeReuse'
  BY <1>10, <1>14 DEF DInv, DurableBeforeReuse
<1> QED BY <1>4, <1>9, <1>11, <1>13, <1>15 DEF DInv

\* Every step of a caller.
LEMMA DurStep ==
  ASSUME IInv, Types', DInv, NEW t \in Caller, Step(t)
  PROVE  DInv'
<1>1. Types /\ LocalsInv /\ DeadInv
  BY DEF IInv
<1> USE <1>1
<1>2. CASE \E i \in Flusher : FlusherStart(t, i)
  BY <1>2, DurStart
<1>3. CASE WriteAlloc(t)
  <2>1. file[t] \in File
    BY <1>3 DEF WriteAlloc, LocalsInv
  <2> QED BY <1>3, <2>1, DurAlloc
<1>4. CASE WriteRequeue(t)
  <2>1. t \in Thread
    BY <1>4 DEF WriteRequeue, LocalsInv
  <2> QED BY <1>4, <2>1, DurRequeue
<1>5. CASE DiscardUnmap(t) \/ \E f \in File : Truncate(t, f) \/ Delete(t, f)
  BY <1>5, DurUnmaps
<1>6. CASE \/ FlusherCheck(t) \/ FlusherNothing(t) \/ (\E b \in BOOLEAN : SuperFlush(t, b))
           \/ WriteFails(t) \/ WriteNoSpace(t) \/ WriteRaced(t) \/ WriteDone(t)
           \/ \E f \in File : WriteMapped(t, f) \/ WriteUnmapped(t, f) \/ DiscardCheck(t, f)
  BY <1>6, DurCaller
<1> QED BY <1>2, <1>3, <1>4, <1>5, <1>6 DEF Step

-----------------------------------------------------------------------------
(* The steps of the executor.                                              *)

\* cyanfs_super_get_task, and the ends of the tasks that are no flusher's, apart
\* from copies.
LEMMA DurOther ==
  ASSUME Types, Types', DInv,
         GetTask \/ DiscardBegin \/ DiscardDone \/ \E t \in Thread : RequeueDone(t)
  PROVE  DInv'
<1>1. /\ UNCHANGED <<flush_extents, unused_extents, journal_head, flusher, device>>
      /\ Failed => Failed'
  BY DEF GetTask, DiscardBegin, DiscardDone, DiscardNext, RequeueDone, pools, Failed
<1> USE <1>1
<1>2. UNCHANGED <<writing, t_live, t_unused>>
  BY DEF flusher
<1>3. PICK x : x = [op |-> "discard_io", of |-> None]
  OBVIOUS
<1>4. x \in Task /\ x.op \notin FlusherOp
  BY <1>3 DEF Task, DiscardTask, FlusherOp
<1>5. CASE GetTask
  BY <1>2, <1>5, QuietDevice DEF Passive
<1>6. ASSUME NEW op \in {"discard_begin", "discard_io", "requeue"}, NEW a, DoneFor(op, a)
      PROVE  active' = NoTask /\ active.op \notin WriterOp
  BY <1>6 DEF DoneFor, Done, WriterOp
<1>7. CASE DiscardBegin \/ DiscardDone
  <2>1. active' = NoTask /\ active.op \notin WriterOp
    BY <1>6, <1>7 DEF DiscardBegin, DiscardDone
  <2>2. task_head' = task_head \/ task_head' = Append(task_head, x)
    BY <1>3, <1>7 DEF DiscardBegin, DiscardDone, DiscardNext
  <2>3. Passive
    BY <1>4, <2>1, <2>2 DEF Passive
  <2> QED BY <1>2, <2>3, QuietDevice
<1>8. CASE \E t \in Thread : RequeueDone(t)
  <2>1. Passive
    BY <1>6, <1>8 DEF RequeueDone, Passive
  <2> QED BY <1>2, <2>1, QuietDevice
<1> QED BY <1>5, <1>7, <1>8

\* The end of a copy: its entry asks for a FLUSH, and no WRITE is queued that
\* an earlier FLUSH was for.
LEMMA DurCopy ==
  ASSUME Types, Types', DInv, NEW f \in File, NEW e \in Extent, NEW err \in BOOLEAN,
         CopyDone(f, e, err)
  PROVE  DInv'
<1>1. active = [op |-> "copy", of |-> f, node |-> e] /\ active' = NoTask /\ UNCHANGED task_head
  BY DEF CopyDone, Done
<1>2. /\ active # NoTask /\ active.op \notin WriterOp
      /\ \A i : \A op \in FlusherOp : active # Of(op, i)
  BY <1>1 DEF NoTask, WriterOp, Of, FlusherOp
<1>3. Passive
  BY <1>1, <1>2 DEF Passive
<1>4. /\ UNCHANGED <<flush_extents, unused_extents, flags, flusher, dirty_unbinds, volatile>>
      /\ Failed => Failed'
  BY DEF CopyDone, pools, Failed
<1> USE <1>4
<1>5. UNCHANGED <<writing, t_live, t_unused>>
  BY DEF flusher
<1>6. {"write", "before", "before_flush"} \subseteq FlusherOp
  BY DEF FlusherOp
<1>7. \A i \in Flusher : \A k \in 1 .. Len(task_head) : TaskAt(k) # Of("write", i)
  BY <1>2, <1>6, NothingToWrite DEF DInv
<1>8. \A i \in Flusher : ~Queued(Of("write", i))
  <2> SUFFICES ASSUME NEW i \in Flusher, NEW k \in Place, TaskAt(k) = Of("write", i)
               PROVE  FALSE
    BY DEF Queued, Place
  <2>1. k = 0 \/ k \in 1 .. Len(task_head)
    BY PlacesOf DEF Place, Types, QueueType
  <2> QED BY <1>2, <1>6, <1>7, <2>1 DEF TaskAt
<1>9. /\ CopiesFlush(journal_head')
      /\ UnbindsOf(journal_head) \subseteq UnbindsOf(journal_head')
  <2>1. CopiesFlush(journal_head) /\ journal_head \in Seq(Entry)
    BY DEF DInv, CopyInv, Types, QueueType
  <2>2. CASE err
    BY <2>1, <2>2 DEF CopyDone
  <2>3. CASE ~err
    <3>1. PICK x : x = [flush |-> TRUE, unbinds |-> {}, copies |-> {e}]
      OBVIOUS
    <3>2. x \in Entry /\ x.flush
      BY <3>1 DEF Entry
    <3>3. journal_head' = Append(journal_head, x)
      BY <2>3, <3>1 DEF CopyDone
    <3> QED BY <2>1, <3>2, <3>3, AppendEntry
  <2> QED BY <2>2, <2>3
<1>10. unused_extents \cap UnbindsOf(journal_head) \subseteq unused_extents' \cap UnbindsOf(journal_head')
  BY <1>9
<1>11. (volatile \ dirty_unbinds)'
         \subseteq (volatile \ dirty_unbinds) \cup (unused_extents' \cap UnbindsOf(journal_head'))
  OBVIOUS
<1>12. volatile' \subseteq volatile \cup unused_extents' /\ unused_extents \subseteq unused_extents'
  OBVIOUS
<1> QED BY <1>3, <1>5, <1>8, <1>9, <1>10, <1>11, <1>12, Quiet

\* cyanfs_super_flusher_after_flush, when nothing is reclaimed.
LEMMA DurAfterFlush ==
  ASSUME Types, Types', DInv, NEW i \in Flusher, NEW err \in BOOLEAN, AfterFlush(i, err)
  PROVE  DInv'
<1>1. active = [op |-> "after_flush", of |-> i] /\ active' = NoTask /\ UNCHANGED task_head
  BY DEF AfterFlush, DoneFor, Done
<1>2. active.op \notin WriterOp
  BY <1>1 DEF WriterOp
<1>3. Passive
  BY <1>1, <1>2 DEF Passive
<1>4. UNCHANGED <<writing, t_live, t_unused, flush_extents, unused_extents, journal_head>>
  BY DEF AfterFlush, flusher, pools
<1>5. Failed => Failed'
  BY DEF AfterFlush, Failed
<1>6. UNCHANGED device \/ FlushDevice(FALSE)
  BY DEF AfterFlush, FlushDevice
<1> QED BY <1>3, <1>4, <1>5, <1>6, QuietDevice

\* What is queued when a task of a flusher's writer ends and nothing is added:
\* no other writer had a WRITE queued.
LEMMA WriterEnds ==
  ASSUME Types, QueueOrder, NEW i \in Flusher, NEW op \in {"writer", "write"},
         active = Of(op, i)
  PROVE  /\ \A j \in Flusher : \A o \in {"write", "before", "before_flush"} :
              /\ ~InQueue(Of(o, j))
              /\ Queued(Of(o, j)) => o = "write" /\ op = "write" /\ j = i
         /\ ~InQueue(Of("writer", i))
         /\ \A j \in Flusher : j # i => (Queued(Of("writer", j)) <=> InQueue(Of("writer", j)))
<1>1. /\ active # NoTask
      /\ \A j \in Flusher : active \notin {Of("before", j), Of("before_flush", j)}
  BY SMTT(60), OfFacts DEF FlusherOp
<1>2. \A k \in 1 .. Len(task_head) : TaskAt(k) = task_head[k]
  BY SMTT(60) DEF TaskAt
<1>3. \A j \in Flusher : \A k \in 1 .. Len(task_head) :
        TaskAt(k) \notin {Of("write", j), Of("before", j), Of("before_flush", j)}
  BY <1>1, NothingToWrite
<1>4. \A j \in Flusher : \A o \in {"write", "before", "before_flush"} : ~InQueue(Of(o, j))
  BY <1>2, <1>3 DEF InQueue
<1>5. \A x : Queued(x) <=> active = x \/ InQueue(x)
  BY QueuedCases
<1>6. \A o, j : active = Of(o, j) <=> o = op /\ j = i
  BY SMTT(60), OfFacts
<1>7. \A j \in Flusher : \A o \in {"write", "before", "before_flush"} :
        Queued(Of(o, j)) => o = "write" /\ op = "write" /\ j = i
  BY SMTT(60), <1>4, <1>5, <1>6
<1>8. ~InQueue(Of("writer", i))
  <2>1. 0 \in Place /\ 0 \in {0, 1} /\ TaskAt(0) = active /\ 1 .. Len(task_head) \subseteq Place \ {0}
    BY PlacesOf DEF Place, TaskAt, Types, QueueType
  <2>2. TaskAt(0) \in {Of("writer", i), Of("write", i), Of("after", i), Of("after_flush", i)}
    BY <2>1
  <2>3. \A k \in Place \ {0} : TaskAt(k) # Of("writer", i)
    BY SMTT(60), <1>1, <2>1, <2>2, WriterStarted
  <2> QED BY <1>2, <2>1, <2>3 DEF InQueue
<1>9. \A j \in Flusher : j # i => (Queued(Of("writer", j)) <=> InQueue(Of("writer", j)))
  BY SMTT(60), <1>5, <1>6
<1> QED BY <1>4, <1>7, <1>8, <1>9

\* A writer's task ends with nothing left for it to write: the other writers
\* keep what they have.
LEMMA DurWriterEnd ==
  ASSUME Types, Types', DInv, NEW i \in Flusher, NEW op \in {"writer", "write"},
         active = Of(op, i), active' = NoTask, UNCHANGED <<task_head, t_live>>,
         t_head'[i] = <<>>, t_record'[i] = <<>>,
         \A j \in Flusher : j # i => t_head'[j] = t_head[j] /\ t_record'[j] = t_record[j],
         UNCHANGED <<t_nop, t_flush_before_write, t_unused, unused_extents, flush_extents,
                     journal_head, dirty_copies, volatile>>,
         Failed => Failed', UnbindInv'
  PROVE  DInv'
<1>1. /\ \A j \in Flusher : \A o \in {"write", "before", "before_flush"} :
           /\ ~InQueue(Of(o, j))
           /\ Queued(Of(o, j)) => o = "write" /\ op = "write" /\ j = i
      /\ ~InQueue(Of("writer", i))
      /\ \A j \in Flusher : j # i => (Queued(Of("writer", j)) <=> InQueue(Of("writer", j)))
  BY WriterEnds DEF DInv
<1>2. \A o \in FlusherOp : \A j : Queued(Of(o, j))' <=> InQueue(Of(o, j))
  <2>1. \A x : Queued(x)' <=> active' = x \/ InQueue(x)'
    BY QueuedThen
  <2>2. \A x : InQueue(x)' <=> InQueue(x)
    BY DEF InQueue
  <2> QED BY <2>1, <2>2, OfFacts
<1>3. {"writer", "write", "before", "before_flush"} \subseteq FlusherOp
  BY DEF FlusherOp
<1> USE <1>3
<1>4. QueueOrder'
  BY OrderKept DEF DInv
<1>5. WriterState'
  <2> SUFFICES ASSUME NEW j \in Flusher PROVE WriterState!(j)'
    BY DEF WriterState
  <2>1. WriterState!(j)
    BY DEF DInv, WriterState
  <2>2. CASE j = i
    <3>1. t_live[i]
      <4>1. Queued(Of(op, i))
        BY QueuedCases
      <4> QED BY <4>1 DEF DInv, QueueOrder, TasksLive
    <3>2. ~Queued(Of("writer", i))'
      BY <1>1, <1>2
    <3> QED BY <2>1, <2>2, <3>1, <3>2
  <2>3. CASE j # i
    <3>1. ~Queued(Of("write", j)) /\ (Queued(Of("writer", j))' <=> Queued(Of("writer", j)))
      BY <1>1, <1>2, <2>3
    <3> QED BY <2>1, <2>3, <3>1
  <2> QED BY <2>2, <2>3
<1>6. CopyInv'
  <2>1. \A j \in Flusher : ~FlushedForWrite(j)'
    BY <1>1, <1>2 DEF FlushedForWrite
  <2>2. CopiesFlush(journal_head')
    BY DEF DInv, CopyInv
  <2>3. ASSUME NEW j \in Flusher
        PROVE  /\ CopiesFlush(t_head'[j]) /\ CopiesFlush(t_record'[j])
               /\ AnyFlush(t_record'[j]) => t_flush_before_write'[j]
    BY NoEntries DEF DInv, CopyInv
  <2> QED BY <2>1, <2>2, <2>3 DEF CopyInv
<1>7. DurableBeforeReuse'
  BY DEF DInv, DurableBeforeReuse, HeldUnused
<1> QED BY <1>4, <1>5, <1>6, <1>7 DEF DInv

\* What Written says of the variables of the durability invariants.
LEMMA WrittenFacts ==
  ASSUME NEW i \in Flusher, NEW op \in {"writer", "write"}, NEW err, Written(op, i, err)
  PROVE  /\ active = Of(op, i) /\ active' = NoTask
         /\ UNCHANGED <<t_live, t_unused, unused_extents, flush_extents, journal_head,
                        dirty_copies, volatile>>
BY DEF Written, DoneFor, Done, Of

\* cyanfs_super_flusher_write_error: the super has failed.
LEMMA DurFails ==
  ASSUME Types, Types', DInv, NEW i \in Flusher, NEW op \in {"writer", "write"},
         NEW err \in BOOLEAN, WriterFails(op, i, err)
  PROVE  DInv'
<1>1. /\ active = Of(op, i) /\ active' = NoTask
      /\ UNCHANGED <<t_live, t_unused, unused_extents, flush_extents, journal_head,
                     dirty_copies, volatile>>
  BY WrittenFacts DEF WriterFails
<1>2. /\ t_head'[i] = <<>> /\ t_record'[i] = <<>>
      /\ \A j \in Flusher : j # i => t_head'[j] = t_head[j] /\ t_record'[j] = t_record[j]
  BY DEF WriterFails, Types, FlusherType
<1>3. UNCHANGED <<t_nop, t_flush_before_write, task_head>> /\ Failed'
  BY DEF WriterFails, Failed
<1>4. UnbindInv'
  BY <1>3 DEF UnbindInv
<1> QED BY <1>1, <1>2, <1>3, <1>4, DurWriterEnd

\* What a WRITE leaves of the extents whose unbinding is not on the device: its
\* record had those of its flusher that are no longer in its list.
LEMMA UnbindWritten ==
  ASSUME Types, Types', DInv, NEW i \in Flusher, NEW op \in {"writer", "write"},
         Written(op, i, FALSE), ~Failed, ~Failed',
         \A j \in Flusher : j # i => t_head'[j] = t_head[j] /\ t_record'[j] = t_record[j],
         UnbindsOf(t_head[i]) \subseteq Pending(i)',
         t_head[i] # <<>> => Queued(Of("write", i))'
  PROVE  UnbindInv'
<1>1. /\ active = Of(op, i) /\ active' = NoTask
      /\ UNCHANGED <<t_live, t_unused, unused_extents, flush_extents, journal_head,
                     dirty_copies, volatile>>
  BY WrittenFacts
<1> USE <1>1
<1>2. /\ \A j \in Flusher : Queued(Of("write", j)) => op = "write" /\ j = i
  BY WriterEnds DEF DInv
<1>3. /\ op = "writer" => t_record[i] = <<>>
      /\ ~t_nop[i]
  BY <1>2 DEF DInv, WriterState
<1>4. dirty_unbinds' = dirty_unbinds \cup UnbindsOf(t_record[i])
  <2>1. CASE op = "writer"
    <3>1. UnbindsOf(t_record[i]) = {} /\ dirty_unbinds' = dirty_unbinds
      BY <1>3, <2>1, NoEntries DEF Written
    <3> QED BY <3>1
  <2>2. CASE op = "write"
    <3>1. op # "writer"
      BY <2>2
    <3> QED BY <1>3, <3>1 DEF Written
  <2> QED BY <2>1, <2>2
<1> SUFFICES ASSUME NEW e \in volatile \ dirty_unbinds, e \notin UnbindsOf(t_record[i]),
                    e \notin unused_extents \cap UnbindsOf(journal_head)
             PROVE  \E j \in Flusher :
                      /\ e \in Pending(j)'
                      /\ e \in t_unused'[j] \/ (e \in flush_extents' /\ Queued(Of("write", j))')
  BY <1>4 DEF UnbindInv
<1>5. PICK j \in Flusher :
        /\ e \in Pending(j)
        /\ e \in t_unused[j] \/ (e \in flush_extents /\ Queued(Of("write", j)))
  BY DEF DInv, UnbindInv
<1>6. CASE j = i
  <2>1. e \in UnbindsOf(t_head[i])
    BY <1>5, <1>6 DEF Pending
  <2>2. t_head[i] # <<>>
    BY <2>1, NoEntries
  <2> QED BY <1>5, <1>6, <2>1, <2>2
<1>7. CASE j # i
  <2>1. Pending(j)' = Pending(j)
    BY <1>7 DEF Pending
  <2> QED BY <1>2, <1>5, <1>7, <2>1
<1> QED BY <1>6, <1>7

\* cyanfs_super_flusher_write_finish.
LEMMA DurFinishes ==
  ASSUME Types, Types', DInv, NEW i \in Flusher, NEW op \in {"writer", "write"},
         WriterFinishes(op, i)
  PROVE  DInv'
<1>1. /\ active = Of(op, i) /\ active' = NoTask
      /\ UNCHANGED <<t_live, t_unused, unused_extents, flush_extents, journal_head,
                     dirty_copies, volatile>>
  BY WrittenFacts DEF WriterFinishes
<1>2. /\ t_head[i] = <<>> /\ UNCHANGED t_head /\ t_record'[i] = <<>>
      /\ \A j \in Flusher : j # i => t_record'[j] = t_record[j]
  BY DEF WriterFinishes, Types, FlusherType
<1>3. UNCHANGED <<t_nop, t_flush_before_write, task_head>> /\ ~Failed /\ ~Failed'
  BY DEF WriterFinishes, Failed
<1>4. UnbindsOf(t_head[i]) \subseteq Pending(i)'
  BY <1>2 DEF Pending
<1>5. UnbindInv'
  BY <1>2, <1>3, <1>4, UnbindWritten DEF WriterFinishes
<1> QED BY <1>1, <1>2, <1>3, <1>5, DurWriterEnd

\* One or two tasks of a flusher whose task ends are pushed.
LEMMA PushTasks ==
  ASSUME Types, Types', NEW i \in Flusher, NEW was \in FlusherOp, active = Of(was, i),
         active' = NoTask, NEW op \in FlusherOp \ {"free", "writer"}, NEW two \in BOOLEAN,
         task_head' = (IF two THEN <<Of("before", i)>> ELSE <<>>) \o <<Of(op, i)>> \o task_head
  PROVE  \E n \in {1, 2} :
           /\ Pushed(n, i) /\ n = (IF two THEN 2 ELSE 1)
           /\ TaskAt(n)' = Of(op, i) /\ (two => TaskAt(1)' = Of("before", i))
           /\ \A x : x # NoTask =>
                (Queued(x)' <=> InQueue(x) \/ x = Of(op, i) \/ (two /\ x = Of("before", i)))
<1>1. Of(op, i) \in Task /\ Of("before", i) \in Task
  BY DEF Of, Task, FlusherOp
<1>2. PICK a : a = (IF two THEN <<Of("before", i)>> ELSE <<>>) \o <<Of(op, i)>>
  OBVIOUS
<1>3. PICK n \in {1, 2} : n = (IF two THEN 2 ELSE 1)
  OBVIOUS
<1> USE <1>3
<1>4. /\ a \in Seq(Task) /\ Len(a) = n /\ a[n] = Of(op, i)
      /\ two => n = 2 /\ a[1] = Of("before", i)
  <2>1. CASE two
    BY SMTT(60), <1>1, <1>2, <2>1
  <2>2. CASE ~two
    BY SMTT(60), <1>1, <1>2, <2>2
  <2> QED BY <2>1, <2>2
<1> USE <1>4
<1>5. task_head' = a \o task_head
  BY <1>2
<1>6. /\ Len(task_head) \in Nat /\ Len(task_head') = n + Len(task_head)
      /\ \A k \in 1 .. n : TaskAt(k)' = a[k]
      /\ \A k \in 1 .. Len(task_head) : TaskAt(n + k)' = TaskAt(k)
  <2>1. /\ Len(task_head) \in Nat /\ Len(task_head') = Len(a) + Len(task_head)
        /\ \A k \in 1 .. Len(a) : TaskAt(k)' = a[k]
        /\ \A k \in 1 .. Len(task_head) : TaskAt(Len(a) + k)' = TaskAt(k)
    BY <1>5, PlacesPush
  <2> QED BY <2>1
<1>7. \A k \in 1 .. n : a[k] = Of(op, i) \/ (two /\ a[k] = Of("before", i))
  <2>1. \A k \in 1 .. n : k = n \/ (n = 2 /\ k = 1)
    BY OneTwo
  <2>2. n = 2 => two
    BY SMTT(60)
  <2> QED BY <2>1, <2>2
<1>8. Pushed(n, i)
  <2>1. \A k \in 1 .. n : \E o \in FlusherOp \ {"free", "writer"} : TaskAt(k)' = Of(o, i)
    <3>1. "before" \in FlusherOp \ {"free", "writer"}
      BY DEF FlusherOp
    <3> QED BY <1>6, <1>7, <3>1
  <2>2. TaskAt(0)' = NoTask /\ TaskAt(0) = Of(was, i)
    BY DEF TaskAt
  <2> QED BY <1>6, <2>1, <2>2 DEF Pushed
<1>9. TaskAt(n)' = Of(op, i) /\ (two => TaskAt(1)' = Of("before", i))
  <2>1. n \in 1 .. n /\ 1 \in 1 .. n
    BY OneTwo
  <2> QED BY <1>6, <2>1
<1>10. ASSUME NEW x, x # NoTask
       PROVE  Queued(x)' <=> InQueue(x) \/ x = Of(op, i) \/ (two /\ x = Of("before", i))
  <2>1. \A y : Queued(y)' <=> active' = y \/ InQueue(y)'
    BY QueuedThen
  <2>2. InQueue(x)' <=> InQueue(x) \/ \E k \in 1 .. Len(a) : a[k] = x
    BY <1>5, QueuedAdd
  <2>3. n \in 1 .. Len(a) /\ 1 \in 1 .. Len(a) /\ 1 .. Len(a) = 1 .. n
    BY OneTwo
  <2>4. (\E k \in 1 .. Len(a) : a[k] = x) <=> x = Of(op, i) \/ (two /\ x = Of("before", i))
    BY <1>7, <2>3
  <2> QED BY <1>10, <2>1, <2>2, <2>4
<1> QED BY <1>8, <1>9, <1>10

\* cyanfs_journal_writer_encode goes on with a record.
LEMMA DurEncodes ==
  ASSUME Types, Types', DInv, NEW i \in Flusher, NEW op \in {"writer", "write"},
         NEW n \in 1 .. Len(t_head[i]), NEW next \in BOOLEAN, WriterEncodes(op, i, n, next)
  PROVE  DInv'
<1>1. /\ active = Of(op, i) /\ active' = NoTask
      /\ UNCHANGED <<t_live, t_unused, unused_extents, flush_extents, journal_head,
                     dirty_copies, volatile>>
  BY WrittenFacts DEF WriterEncodes
<1>2. PICK record, rest : /\ record = SubSeq(t_head[i], 1, n)
                          /\ rest = SubSeq(t_head[i], n + 1, Len(t_head[i]))
  OBVIOUS
<1>3. PICK first \in BOOLEAN : first = (AnyFlush(record) /\ ~t_flush_before_write[i])
  OBVIOUS
<1>4. /\ t_head'[i] = rest /\ t_record'[i] = record /\ ~t_nop'[i]
      /\ t_flush_before_write'[i] = (t_flush_before_write[i] \/ first)
      /\ \A j \in Flusher : j # i =>
           /\ t_head'[j] = t_head[j] /\ t_record'[j] = t_record[j] /\ t_nop'[j] = t_nop[j]
           /\ t_flush_before_write'[j] = t_flush_before_write[j]
  BY <1>2, <1>3 DEF WriterEncodes, Types, FlusherType
<1>5. Written(op, i, FALSE) /\ ~Failed /\ ~Failed'
  BY DEF WriterEncodes, Failed
<1>6. PICK m \in {1, 2} :
        /\ Pushed(m, i) /\ m = (IF first THEN 2 ELSE 1)
        /\ TaskAt(m)' = Of("write", i) /\ (first => TaskAt(1)' = Of("before", i))
        /\ \A x : x # NoTask =>
             (Queued(x)' <=> InQueue(x) \/ x = Of("write", i) \/ (first /\ x = Of("before", i)))
  <2>1. task_head' = (IF first THEN <<Of("before", i)>> ELSE <<>>) \o <<Of("write", i)>> \o task_head
    BY <1>2, <1>3 DEF WriterEncodes, Of
  <2>2. op \in FlusherOp /\ "write" \in FlusherOp \ {"free", "writer"}
    BY DEF FlusherOp
  <2> QED BY <1>1, <2>1, <2>2, PushTasks
<1>7. QueueOrder'
  <2>1. TaskAt(0) \in {Of("writer", i), Of("write", i)} /\ (m = 2 => TaskAt(1)' = Of("before", i))
    BY SMTT(60), <1>1, <1>6 DEF TaskAt
  <2> QED BY <1>1, <1>6, <2>1, OrderWrite DEF DInv
<1>8. /\ \A j \in Flusher : \A o \in {"write", "before", "before_flush"} :
           /\ ~InQueue(Of(o, j))
           /\ Queued(Of(o, j)) => o = "write" /\ op = "write" /\ j = i
      /\ ~InQueue(Of("writer", i))
      /\ \A j \in Flusher : j # i => (Queued(Of("writer", j)) <=> InQueue(Of("writer", j)))
  BY <1>1, WriterEnds DEF DInv
<1>9. /\ Queued(Of("write", i))' /\ (first => Queued(Of("before", i))') /\ ~Queued(Of("writer", i))'
      /\ \A j \in Flusher : j # i =>
           /\ ~Queued(Of("write", j))' /\ ~Queued(Of("write", j))
           /\ Queued(Of("writer", j))' <=> Queued(Of("writer", j))
  <2>1. /\ \A o \in WriterOp : \A j : Of(o, j) # NoTask
        /\ {"writer", "write", "before", "before_flush"} \subseteq WriterOp
        /\ \A j, o : Of(o, j) = Of("write", i) <=> o = "write" /\ j = i
        /\ \A j, o : Of(o, j) = Of("before", i) <=> o = "before" /\ j = i
    BY SMTT(60), OfFacts DEF WriterOp, FlusherOp
  <2>2. \A o \in WriterOp : \A j : Queued(Of(o, j))' <=>
          InQueue(Of(o, j)) \/ (o = "write" /\ j = i) \/ (first /\ o = "before" /\ j = i)
    BY SMTT(60), <1>6, <2>1
  <2>3. Queued(Of("write", i))' /\ (first => Queued(Of("before", i))')
    BY <2>1, <2>2
  <2>4. \A j : Queued(Of("writer", j))' <=> InQueue(Of("writer", j))
    BY <2>1, <2>2
  <2>5. ASSUME NEW j \in Flusher, j # i PROVE ~Queued(Of("write", j))' /\ ~Queued(Of("write", j))
    BY <1>8, <2>1, <2>2, <2>5
  <2> QED BY <1>8, <2>3, <2>4, <2>5
<1>10. t_live[i]
  <2>1. Queued(Of(op, i)) /\ op \in FlusherOp
    BY <1>1, QueuedCases DEF FlusherOp
  <2> QED BY <2>1 DEF DInv, QueueOrder, TasksLive
<1>11. WriterState'
  <2> SUFFICES ASSUME NEW j \in Flusher PROVE WriterState!(j)'
    BY DEF WriterState
  <2>1. WriterState!(j)
    BY DEF DInv, WriterState
  <2>2. CASE j = i
    BY <1>1, <1>4, <1>9, <1>10, <2>2
  <2>3. CASE j # i
    <3>1. /\ ~Queued(Of("write", j)) /\ (Queued(Of("writer", j))' <=> Queued(Of("writer", j)))
          /\ t_head'[j] = t_head[j] /\ t_record'[j] = t_record[j] /\ t_nop'[j] = t_nop[j]
          /\ t_flush_before_write'[j] = t_flush_before_write[j] /\ t_live'[j] = t_live[j]
      BY <1>1, <1>4, <1>9, <2>3
    <3> QED BY <1>5, <2>1, <3>1
  <2> QED BY <2>2, <2>3
<1>12. /\ UnbindsOf(t_head[i]) \subseteq UnbindsOf(record) \cup UnbindsOf(rest)
       /\ CopiesFlush(record) /\ CopiesFlush(rest)
  <2>1. t_head[i] \in Seq(Entry) /\ CopiesFlush(t_head[i])
    BY DEF Types, FlusherType, DInv, CopyInv
  <2> QED BY <1>2, <2>1, CutEntries
<1>13. CopyInv'
  <2>1. CopiesFlush(journal_head')
    BY <1>1 DEF DInv, CopyInv
  <2>2. ASSUME NEW j \in Flusher
        PROVE  /\ CopiesFlush(t_head'[j]) /\ CopiesFlush(t_record'[j])
               /\ AnyFlush(t_record'[j]) => t_flush_before_write'[j]
    BY <1>3, <1>4, <1>12 DEF DInv, CopyInv
  <2>3. ASSUME NEW j \in Flusher, FlushedForWrite(j)' PROVE dirty_copies' = {}
    <3>1. j = i
      BY <1>9, <2>3 DEF FlushedForWrite
    <3>0. ~first
      BY <1>9, <2>3, <3>1 DEF FlushedForWrite
    <3>2. t_flush_before_write[i]
      BY <1>4, <2>3, <3>0, <3>1 DEF FlushedForWrite
    <3>3. op # "writer"
      <4>1. ~Queued(Of("writer", i))
        BY <3>2 DEF DInv, WriterState
      <4> QED BY <1>1, <4>1, QueuedCases
    <3>4. Queued(Of("write", i))
      BY <1>1, <3>3, QueuedCases
    <3>5. ~t_nop[i]
      BY <1>5 DEF DInv, WriterState
    <3>6. ~Queued(Of("before", i)) /\ ~Queued(Of("before_flush", i))
      BY <1>8
    <3>7. FlushedForWrite(i)
      BY <3>2, <3>4, <3>5, <3>6 DEF FlushedForWrite
    <3> QED BY <1>1, <3>7 DEF DInv, CopyInv
  <2> QED BY <2>1, <2>2, <2>3 DEF CopyInv
<1>14. UnbindInv'
  <2>1. UnbindsOf(t_head[i]) \subseteq Pending(i)'
    BY <1>4, <1>12 DEF Pending
  <2> QED BY <1>4, <1>5, <1>9, <2>1, UnbindWritten
<1>15. DurableBeforeReuse'
  BY <1>1 DEF DInv, DurableBeforeReuse, HeldUnused
<1> QED BY <1>7, <1>11, <1>13, <1>14, <1>15 DEF DInv

\* While the FLUSH before a WRITE runs, no other flusher has a WRITE queued.
LEMMA OnlyItsWrite ==
  ASSUME Types, QueueOrder, NEW i \in Flusher, NEW op \in {"before", "before_flush"},
         active = Of(op, i)
  PROVE  Queued(Of("write", i)) /\ \A j \in Flusher : Queued(Of("write", j)) => j = i
<1>1. 0 \in Place /\ TaskAt(0) = Of(op, i) /\ Len(task_head) \in Nat
  BY PlacesOf DEF Place, TaskAt, Types, QueueType
<1> USE <1>1
<1>2. TaskAt(0) # NoTask
  BY OfFacts DEF FlusherOp
<1>3. Queued(Of("write", i))
  <2>1. 0 + 1 \in Place /\ TaskAt(0 + 1) = Of("write", i)
    BY DEF QueueOrder, BeforeNext
  <2> QED BY <2>1 DEF Queued, Place
<1>4. ASSUME NEW j \in Flusher, NEW k \in Place, TaskAt(k) = Of("write", j) PROVE j = i
  <2>1. k # 0
    BY SMTT(60), <1>4, OfFacts
  <2>2. 0 \in 0 .. k - 1
    BY SMTT(60), <2>1 DEF Place
  <2>3. TaskAt(0) \in {NoTask, Of("before", j), Of("before_flush", j)}
    BY <1>4, <2>2 DEF QueueOrder, WriteFirst
  <2> QED BY SMTT(60), <1>2, <2>3, OfFacts
<1> QED BY <1>3, <1>4 DEF Queued, Place

\* What stays queued when a task of a flusher ends, and perhaps one of its other
\* tasks is pushed.
LEMMA WritesKept ==
  ASSUME Types, Types', NEW i \in Flusher, NEW was \in FlusherOp \ {"writer", "write"},
         active = Of(was, i), active' = NoTask,
         \/ task_head' = task_head
         \/ \E op \in FlusherOp \ {"free", "writer", "write"} :
              task_head' = <<Of(op, i)>> \o task_head
  PROVE  SameWrites
<1> SUFFICES ASSUME NEW j \in Flusher, NEW o \in {"writer", "write"}
             PROVE  Queued(Of(o, j))' <=> Queued(Of(o, j))
  BY DEF SameWrites
<1>1. Of(o, j) # NoTask /\ Of(o, j) # Of(was, i)
  BY SMTT(60), OfFacts DEF FlusherOp
<1>2. Queued(Of(o, j)) <=> InQueue(Of(o, j))
  BY <1>1, QueuedCases
<1>3. \A x : Queued(x)' <=> active' = x \/ InQueue(x)'
  BY QueuedThen
<1>4. CASE task_head' = task_head
  BY <1>1, <1>2, <1>3, <1>4 DEF InQueue
<1>5. ASSUME NEW op \in FlusherOp \ {"free", "writer", "write"},
             task_head' = <<Of(op, i)>> \o task_head
      PROVE  Queued(Of(o, j))' <=> Queued(Of(o, j))
  <2>1. PICK a : a = <<Of(op, i)>>
    OBVIOUS
  <2>2. a \in Seq(Task) /\ \A k \in 1 .. Len(a) : a[k] # Of(o, j)
    <3>1. Of(op, i) \in Task /\ Of(op, i) # Of(o, j)
      BY OfFacts DEF Of, Task
    <3> QED BY SMTT(60), <2>1, <3>1
  <2>3. InQueue(Of(o, j))' <=> InQueue(Of(o, j))
    BY <1>5, <2>1, <2>2, QueuedAdd
  <2> QED BY <1>1, <1>2, <1>3, <2>3
<1> QED BY <1>4, <1>5

\* MoveToFlush takes no extent out of limbo.
LEMMA MovedToFlush ==
  ASSUME Types, NEW i \in Flusher, MoveToFlush(i)
  PROVE  /\ \A j \in Flusher : j # i => t_unused'[j] = t_unused[j]
         /\ flush_extents \subseteq flush_extents'
         /\ t_unused[i] \subseteq t_unused'[i] \cup flush_extents'
         /\ HeldUnused \cup flush_extents \subseteq (HeldUnused \cup flush_extents)'
<1>1. \A j \in Flusher : j # i => t_unused'[j] = t_unused[j]
  BY DEF MoveToFlush, Types, FlusherType
<1>2. flush_extents \subseteq flush_extents' /\ t_unused[i] \subseteq t_unused'[i] \cup flush_extents'
  BY DEF MoveToFlush
<1>3. HeldUnused \subseteq HeldUnused' \cup flush_extents'
  BY <1>1, <1>2 DEF HeldUnused
<1> QED BY <1>1, <1>2, <1>3

\* cyanfs_super_flusher_before_write_flush.
LEMMA DurBeforeWrite ==
  ASSUME Types, Types', DInv, NEW i \in Flusher, BeforeWriteFlush(i)
  PROVE  DInv'
<1>1. active = Of("before", i) /\ active' = NoTask
  BY DEF BeforeWriteFlush, DoneFor, Done, Of
<1> USE <1>1
<1>2. UNCHANGED <<unused_extents, flags, journal_head, t_live, t_head, t_record,
                  t_flush_before_write, device>>
  BY DEF BeforeWriteFlush
<1> USE <1>2
<1>3. /\ "before" \in FlusherOp \ {"writer", "write"}
      /\ "before_flush" \in FlusherOp \ {"free", "writer", "write"}
  BY DEF FlusherOp
<1> USE <1>3
<1>4. Queued(Of("write", i)) /\ \A j \in Flusher : Queued(Of("write", j)) => j = i
  BY OnlyItsWrite DEF DInv
<1>5. CASE Failed
  <2>1. /\ t_nop' = [t_nop EXCEPT ![i] = TRUE]
        /\ UNCHANGED <<t_unused, flush_extents, task_head>>
    BY <1>5 DEF BeforeWriteFlush
  <2> USE <2>1
  <2>2. QueueOrder'
    BY OrderKept DEF DInv
  <2>3. SameWrites
    BY WritesKept
  <2>4. Failed'
    BY <1>5 DEF Failed
  <2>5. WriterState'
    BY <2>3, <2>4, StateKept DEF DInv
  <2>6. CopyInv'
    <3>1. \A j \in Flusher : ~FlushedForWrite(j)'
      BY <1>4, <2>3 DEF FlushedForWrite, SameWrites, Types, FlusherType
    <3> QED BY <3>1 DEF DInv, CopyInv
  <2>7. UnbindInv'
    BY <2>4 DEF UnbindInv
  <2>8. DurableBeforeReuse'
    BY DEF DInv, DurableBeforeReuse, HeldUnused, device
  <2> QED BY <2>2, <2>5, <2>6, <2>7, <2>8 DEF DInv
<1>6. CASE ~Failed
  <2>1. MoveToFlush(i) /\ UNCHANGED t_nop /\ task_head' = <<Of("before_flush", i)>> \o task_head
    BY <1>6 DEF BeforeWriteFlush, Of
  <2> USE <2>1
  <2>2. /\ Pushed(1, i) /\ TaskAt(1)' = Of("before_flush", i)
        /\ Queued(Of("before_flush", i))'
    <3>1. task_head' = (IF FALSE THEN <<Of("before", i)>> ELSE <<>>) \o <<Of("before_flush", i)>> \o task_head
      BY SMTT(60)
    <3>2. \E n \in {1, 2} :
            /\ Pushed(n, i) /\ n = (IF FALSE THEN 2 ELSE 1) /\ TaskAt(n)' = Of("before_flush", i)
            /\ \A x : x # NoTask =>
                 (Queued(x)' <=> InQueue(x) \/ x = Of("before_flush", i) \/ (FALSE /\ x = Of("before", i)))
      BY <3>1, PushTasks
    <3>3. Of("before_flush", i) # NoTask
      BY OfFacts
    <3> QED BY <3>2, <3>3
  <2>3. QueueOrder'
    <3>1. TaskAt(0) = Of("before", i)
      BY DEF TaskAt
    <3> QED BY <2>2, <3>1, OrderBefore DEF DInv
  <2>4. SameWrites
    BY WritesKept
  <2>5. WriterState'
    BY <1>6, <2>4, StateKept DEF DInv
  <2>6. CopyInv'
    <3>1. \A j \in Flusher : ~FlushedForWrite(j)'
      BY <1>4, <2>2, <2>4 DEF FlushedForWrite, SameWrites
    <3> QED BY <3>1 DEF DInv, CopyInv
  <2>7. /\ \A j \in Flusher : j # i => t_unused'[j] = t_unused[j]
        /\ flush_extents \subseteq flush_extents'
        /\ t_unused[i] \subseteq t_unused'[i] \cup flush_extents'
        /\ HeldUnused \cup flush_extents \subseteq (HeldUnused \cup flush_extents)'
    BY MovedToFlush
  <2>8. UnbindInv'
    <3> SUFFICES ASSUME NEW e \in volatile \ dirty_unbinds,
                        e \notin unused_extents \cap UnbindsOf(journal_head)
                 PROVE  \E j \in Flusher :
                          /\ e \in Pending(j)'
                          /\ e \in t_unused'[j] \/ (e \in flush_extents' /\ Queued(Of("write", j))')
      BY DEF UnbindInv, device
    <3>1. PICK j \in Flusher :
            /\ e \in Pending(j)
            /\ e \in t_unused[j] \/ (e \in flush_extents /\ Queued(Of("write", j)))
      BY <1>6 DEF DInv, UnbindInv
    <3>2. Pending(j)' = Pending(j)
      BY DEF Pending
    <3>3. Queued(Of("write", j))' <=> Queued(Of("write", j))
      BY <2>4 DEF SameWrites
    <3>4. CASE j = i
      BY <1>4, <2>7, <3>1, <3>2, <3>3, <3>4
    <3>5. CASE j # i
      BY <2>7, <3>1, <3>2, <3>3, <3>5
    <3> QED BY <3>4, <3>5
  <2>9. DurableBeforeReuse'
    BY <2>7 DEF DInv, DurableBeforeReuse, device
  <2> QED BY <2>3, <2>5, <2>6, <2>8, <2>9 DEF DInv
<1> QED BY <1>5, <1>6

\* cyanfs_super_flusher_before_write_flush_done.
LEMMA DurBeforeWriteDone ==
  ASSUME Types, Types', DInv, NEW i \in Flusher, NEW err \in BOOLEAN,
         BeforeWriteFlushDone(i, err)
  PROVE  DInv'
<1>1. active = Of("before_flush", i) /\ active' = NoTask
  BY DEF BeforeWriteFlushDone, DoneFor, Done, Of
<1>2. UNCHANGED <<unused_extents, flush_extents, journal_head, task_head, t_live, t_unused,
                  t_head, t_record, t_flush_before_write>>
  BY DEF BeforeWriteFlushDone, pools
<1> USE <1>2
<1>3. "before_flush" \in FlusherOp \ {"writer", "write"}
  BY DEF FlusherOp
<1>4. Failed' <=> Failed \/ err
  BY DEF BeforeWriteFlushDone, Failed
<1>5. /\ t_nop'[i] = (err \/ Failed)
      /\ \A j \in Flusher : j # i => t_nop'[j] = t_nop[j]
  BY DEF BeforeWriteFlushDone, Types, FlusherType
<1>6. Queued(Of("write", i)) /\ \A j \in Flusher : Queued(Of("write", j)) => j = i
  BY <1>1, OnlyItsWrite DEF DInv
<1>7. QueueOrder'
  BY <1>1, OrderKept DEF DInv
<1>8. SameWrites
  BY <1>1, <1>3, WritesKept
<1>9. WriterState'
  BY <1>4, <1>5, <1>8, StateKept DEF DInv
<1>10. /\ volatile' \subseteq volatile
       /\ (volatile \ dirty_unbinds)' = volatile \ dirty_unbinds
       /\ ~err => dirty_copies' = {}
  BY DEF BeforeWriteFlushDone, FlushDevice, device
<1>11. CopyInv'
  <2>1. ASSUME NEW j \in Flusher, FlushedForWrite(j)' PROVE dirty_copies' = {}
    <3>1. j = i
      BY <1>6, <1>8, <2>1 DEF FlushedForWrite, SameWrites
    <3>2. ~err
      BY <1>5, <2>1, <3>1 DEF FlushedForWrite
    <3> QED BY <1>10, <3>2
  <2> QED BY <2>1 DEF DInv, CopyInv
<1>12. UnbindInv'
  BY <1>4, <1>8, <1>10, UnbindKept DEF DInv
<1>13. DurableBeforeReuse'
  BY <1>10 DEF DInv, DurableBeforeReuse, HeldUnused
<1> QED BY <1>7, <1>9, <1>11, <1>12, <1>13 DEF DInv

\* cyanfs_super_flusher_before_flush: the writer of this flusher is through.
LEMMA DurBeforeFlush ==
  ASSUME Types, Types', DInv, NEW i \in Flusher, BeforeFlush(i)
  PROVE  DInv'
<1>1. active = Of("after", i) /\ active' = NoTask
  BY DEF BeforeFlush, DoneFor, Done, Of
<1> USE <1>1
<1>2. /\ UNCHANGED <<unused_extents, flags, journal_head, t_live, writing, device>>
      /\ Failed' <=> Failed
  BY DEF BeforeFlush, Failed
<1> USE <1>2
<1>3. active.op \notin WriterOp /\ active # NoTask
  BY DEF Of, WriterOp, NoTask
<1>4. CASE Failed
  <2>1. UNCHANGED <<t_unused, flush_extents, task_head>>
    BY <1>4 DEF BeforeFlush
  <2>2. Passive
    BY <1>3, <2>1 DEF Passive
  <2> QED BY <2>1, <2>2, QuietDevice
<1>5. CASE ~Failed
  <2>1. MoveToFlush(i) /\ task_head' = <<Of("after_flush", i)>> \o task_head
    BY <1>5 DEF BeforeFlush, Of
  <2>2. /\ "after" \in FlusherOp \ {"writer", "write"}
        /\ "after_flush" \in FlusherOp \ {"free", "writer", "write"}
    BY DEF FlusherOp
  <2>3. /\ Pushed(1, i) /\ TaskAt(1)' = Of("after_flush", i)
        /\ \A x : x # NoTask => (Queued(x)' <=> InQueue(x) \/ x = Of("after_flush", i))
    <3>1. task_head' = (IF FALSE THEN <<Of("before", i)>> ELSE <<>>) \o <<Of("after_flush", i)>> \o task_head
      BY <2>1, SmallSeqs
    <3>2. \E n \in {1, 2} :
            /\ Pushed(n, i) /\ n = (IF FALSE THEN 2 ELSE 1) /\ TaskAt(n)' = Of("after_flush", i)
            /\ \A x : x # NoTask =>
                 (Queued(x)' <=> InQueue(x) \/ x = Of("after_flush", i) \/ (FALSE /\ x = Of("before", i)))
      BY <2>2, <3>1, PushTasks
    <3> QED BY <3>2
  <2>4. TaskAt(0) = Of("after", i)
    BY DEF TaskAt
  <2> USE <2>4
  <2>5. QueueOrder'
    BY <2>3, OrderAfter DEF DInv
  <2>6. \A j \in Flusher : \A op \in WriterOp :
          /\ Of(op, j) # NoTask /\ Of(op, j) # Of("after", i) /\ Of(op, j) # Of("after_flush", i)
    BY EndsWriteNothing DEF WriterOp
  <2>7. SameWriters
    <3>1. \A x : Queued(x) <=> active = x \/ InQueue(x)
      BY QueuedCases
    <3> QED BY <2>3, <2>6, <3>1 DEF SameWriters
  <2>8. SameWrites
    BY <2>7 DEF SameWriters, SameWrites, WriterOp
  <2>9. UNCHANGED <<t_head, t_record, t_nop, t_flush_before_write, dirty_copies, volatile,
                    dirty_unbinds>>
    BY DEF writing, device
  <2> USE <2>9
  <2>10. WriterState'
    BY <2>8, StateKept DEF DInv
  <2>11. CopyInv'
    <3>1. CopiesFlush(journal_head')
      BY DEF DInv, CopyInv
    <3> QED BY <2>7, <3>1, CopyKept DEF DInv
  <2>12. \A j \in Flusher : ~Queued(Of("write", j))
    <3>1. \A j \in Flusher : active \notin {Of("before", j), Of("before_flush", j), Of("write", j)}
      BY EndsWriteNothing
    <3>2. \A j \in Flusher : \A k \in 1 .. Len(task_head) : TaskAt(k) # Of("write", j)
      BY <1>3, <3>1, NothingToWrite DEF DInv
    <3>3. \A k \in 0 .. Len(task_head) : k = 0 \/ k \in 1 .. Len(task_head)
      BY PlacesOf DEF Types, QueueType
    <3> QED BY <3>1, <3>2, <3>3 DEF Queued
  <2>13. ~Queued(Of("writer", i))
    <3>1. 0 \in Place /\ 0 \in {0, 1}
      BY PlacesOf DEF Place, Types, QueueType
    <3>2. TaskAt(0) \in {Of("writer", i), Of("write", i), Of("after", i), Of("after_flush", i)}
      OBVIOUS
    <3>3. \A k \in Place \ {0} : TaskAt(k) # Of("writer", i)
      BY <1>3, <3>1, <3>2, WriterStarted, OneTwo DEF DInv
    <3>4. TaskAt(0) # Of("writer", i)
      BY EndsWriteNothing
    <3> QED BY <3>3, <3>4 DEF Queued, Place
  <2>14. Pending(i) = {}
    <3>1. t_head[i] = <<>> /\ t_record[i] = <<>>
      BY <2>12, <2>13 DEF DInv, WriterState
    <3> QED BY <3>1, NoEntries DEF Pending
  <2>15. /\ \A j \in Flusher : j # i => t_unused'[j] = t_unused[j]
         /\ HeldUnused \cup flush_extents \subseteq (HeldUnused \cup flush_extents)'
    BY <2>1, MovedToFlush
  <2>16. UnbindInv'
    <3> SUFFICES ASSUME NEW e \in volatile \ dirty_unbinds,
                        e \notin unused_extents \cap UnbindsOf(journal_head)
                 PROVE  \E j \in Flusher : e \in Pending(j)' /\ e \in t_unused'[j]
      BY DEF UnbindInv
    <3>1. PICK j \in Flusher :
            /\ e \in Pending(j)
            /\ e \in t_unused[j] \/ (e \in flush_extents /\ Queued(Of("write", j)))
      BY <1>5 DEF DInv, UnbindInv
    <3>2. j # i /\ e \in t_unused[j]
      BY <2>12, <2>14, <3>1
    <3>3. Pending(j)' = Pending(j)
      BY DEF Pending
    <3> QED BY <2>15, <3>1, <3>2, <3>3
  <2>17. DurableBeforeReuse'
    BY <2>15 DEF DInv, DurableBeforeReuse
  <2> QED BY <2>5, <2>10, <2>11, <2>16, <2>17 DEF DInv
<1> QED BY <1>4, <1>5

\* cyanfs_super_flusher_after_flush reclaims what the FLUSH made durable.
LEMMA DurReclaim ==
  ASSUME Types, Types', DInv, NEW i \in Flusher, AfterFlushReclaim(i)
  PROVE  DInv'
<1>1. active = Of("after_flush", i) /\ active' = NoTask
  BY DEF AfterFlushReclaim, DoneFor, Done, Of
<1>2. /\ UNCHANGED <<unused_extents, journal_head, flusher>> /\ flush_extents' = {}
      /\ volatile' = volatile \ dirty_unbinds /\ dirty_unbinds' = {} /\ dirty_copies' = {}
      /\ ~Failed
  BY DEF AfterFlushReclaim, FlushDevice
<1> USE <1>2
<1>3. Failed' <=> Failed
  <2>1. flags' \in {flags, flags \cup {"DISCARD_WORKING"}, flags \cup {"FLUSH"}, flags \ {"FLUSH"}}
    BY DEF AfterFlushReclaim, DiscardExtents
  <2> QED BY <2>1, NotTheError DEF Failed
<1>4. UNCHANGED <<writing, t_head, t_record, t_nop, t_flush_before_write, t_live, t_unused>>
  BY DEF flusher, writing
<1> USE <1>4
<1>5. active.op \notin WriterOp /\ active # NoTask
  BY <1>1 DEF Of, WriterOp, NoTask
<1>6. Passive
  <2>1. PICK x : x = [op |-> "discard_begin", of |-> None]
    OBVIOUS
  <2>2. x \in Task /\ x.op \notin FlusherOp
    BY <2>1 DEF Task, DiscardTask, FlusherOp
  <2>3. task_head' = task_head \/ task_head' = Append(task_head, x)
    BY <2>1 DEF AfterFlushReclaim, DiscardExtents
  <2> QED BY <1>1, <1>5, <2>2, <2>3 DEF Passive
<1>7. QueueOrder'
  BY <1>6, OrderKept DEF DInv, Passive
<1>8. SameWriters /\ SameWrites
  BY <1>6, WritersKept
<1>9. WriterState'
  BY <1>3, <1>8, StateKept DEF DInv
<1>10. CopyInv'
  <2>1. CopiesFlush(journal_head')
    BY DEF DInv, CopyInv
  <2> QED BY <1>8, <2>1, CopyKept DEF DInv
<1>11. \A j \in Flusher : ~Queued(Of("write", j))
  <2>1. \A j \in Flusher : active \notin {Of("before", j), Of("before_flush", j), Of("write", j)}
    BY <1>1, EndsWriteNothing
  <2>2. \A j \in Flusher : \A k \in 1 .. Len(task_head) : TaskAt(k) # Of("write", j)
    BY <1>5, <2>1, NothingToWrite DEF DInv
  <2>3. \A k \in 0 .. Len(task_head) : k = 0 \/ k \in 1 .. Len(task_head)
    BY PlacesOf DEF Types, QueueType
  <2> QED BY <2>1, <2>2, <2>3 DEF Queued, TaskAt
<1>12. (volatile \ dirty_unbinds)' = volatile \ dirty_unbinds
  OBVIOUS
<1>13. UnbindInv'
  BY <1>3, <1>8, <1>11, <1>12, UnbindKept DEF DInv
<1>14. DurableBeforeReuse'
  BY <1>11 DEF DInv, UnbindInv, DurableBeforeReuse, HeldUnused
<1> QED BY <1>7, <1>9, <1>10, <1>13, <1>14 DEF DInv

\* cyanfs_super_flusher_free: it was the last task of its flusher.
LEMMA DurFree ==
  ASSUME Types, Types', DInv, NEW i \in Flusher, FlusherFree(i)
  PROVE  DInv'
<1>1. active = Of("free", i) /\ active' = NoTask
  BY DEF FlusherFree, DoneFor, Done, Of
<1> USE <1>1
<1>2. /\ unused_extents' = unused_extents \cup t_unused[i]
      /\ UNCHANGED <<flush_extents, journal_head, task_head, t_head, t_record, device>>
  BY DEF FlusherFree
<1> USE <1>2
<1>3. Failed' <=> Failed
  BY DEF FlusherFree, Failed
<1>4. /\ t_unused'[i] = {} /\ ~t_live'[i] /\ ~t_nop'[i] /\ ~t_flush_before_write'[i]
      /\ \A j \in Flusher : j # i =>
           /\ t_unused'[j] = t_unused[j] /\ t_live'[j] = t_live[j] /\ t_nop'[j] = t_nop[j]
           /\ t_flush_before_write'[j] = t_flush_before_write[j]
  BY DEF FlusherFree, Types, FlusherType
<1> USE <1>4
<1>5. active.op \notin WriterOp
  BY DEF Of, WriterOp
<1>6. SameWriters /\ SameWrites
  BY <1>5, WritersKept DEF Passive
<1>7. Len(task_head) \in Nat /\ 0 \in Place /\ TaskAt(0) = Of("free", i)
  BY PlacesOf DEF Types, QueueType, Place, TaskAt
<1>8. \A op \in FlusherOp : ~InQueue(Of(op, i))
  <2> SUFFICES ASSUME NEW op \in FlusherOp, NEW k \in 1 .. Len(task_head),
                      task_head[k] = Of(op, i)
               PROVE  FALSE
    BY DEF InQueue
  <2>1. k \in Place /\ TaskAt(k) = Of(op, i) /\ ~(k <= 0)
    BY PlacesOf DEF Place, TaskAt, Types, QueueType
  <2> QED BY <1>7, <2>1 DEF DInv, QueueOrder, FreeLast
<1>9. WriteFirst' /\ BeforeNext' /\ WriterAhead' /\ FreeLast'
  <2>1. Shifted(Len(task_head), 0)
    BY ShiftedNone
  <2> QED BY <2>1, OrderShifted DEF DInv
<1>10. TasksLive'
  <2> SUFFICES ASSUME NEW j \in Flusher, NEW op \in FlusherOp, Queued(Of(op, j))'
               PROVE  t_live'[j]
    BY DEF TasksLive
  <2>1. InQueue(Of(op, j))
    <3>1. \A x : Queued(x)' <=> active' = x \/ InQueue(x)'
      BY QueuedThen
    <3>2. InQueue(Of(op, j))'
      BY <3>1, OfFacts
    <3> QED BY <3>2 DEF InQueue
  <2>2. j # i
    BY <1>8, <2>1
  <2>3. Queued(Of(op, j))
    BY <2>1, QueuedCases
  <2> QED BY <2>2, <2>3 DEF DInv, QueueOrder, TasksLive
<1>11. ~Queued(Of("writer", i)) /\ ~Queued(Of("write", i))
  <2>1. \A op \in {"writer", "write"} : op \in FlusherOp /\ active # Of(op, i)
    BY EndsWriteNothing DEF FlusherOp
  <2> QED BY <1>8, <2>1, QueuedCases
<1>12. t_head[i] = <<>> /\ t_record[i] = <<>>
  BY <1>11 DEF DInv, WriterState
<1>13. WriterState'
  <2> SUFFICES ASSUME NEW j \in Flusher PROVE WriterState!(j)'
    BY DEF WriterState
  <2>1. CASE j = i
    BY <1>12, <2>1
  <2>2. CASE j # i
    <3>1. WriterState!(j)
      BY DEF DInv, WriterState
    <3> QED BY <1>3, <1>6, <2>2, <3>1 DEF SameWrites
  <2> QED BY <2>1, <2>2
<1>14. UNCHANGED <<volatile, dirty_unbinds, dirty_copies>>
  BY DEF device
<1>15. CopyInv'
  <2>1. ASSUME NEW j \in Flusher, FlushedForWrite(j)' PROVE dirty_copies' = {}
    <3>1. j # i
      BY <2>1 DEF FlushedForWrite
    <3>2. FlushedForWrite(j)
      BY <1>6, <2>1, <3>1 DEF FlushedForWrite, SameWriters, WriterOp
    <3> QED BY <1>14, <3>2 DEF DInv, CopyInv
  <2>2. ASSUME NEW j \in Flusher
        PROVE  /\ CopiesFlush(t_head'[j]) /\ CopiesFlush(t_record'[j])
               /\ AnyFlush(t_record'[j]) => t_flush_before_write'[j]
    BY <1>12, NoEntries DEF DInv, CopyInv
  <2>3. CopiesFlush(journal_head')
    BY DEF DInv, CopyInv
  <2> QED BY <2>1, <2>2, <2>3 DEF CopyInv
<1>16. Pending(i) = {} /\ \A j \in Flusher : Pending(j)' = Pending(j)
  BY <1>12, NoEntries DEF Pending
<1>17. UnbindInv'
  <2> SUFFICES ASSUME ~Failed, NEW e \in volatile \ dirty_unbinds,
                      e \notin unused_extents \cap UnbindsOf(journal_head)
               PROVE  \E j \in Flusher :
                        /\ e \in Pending(j)'
                        /\ e \in t_unused'[j] \/ (e \in flush_extents' /\ Queued(Of("write", j))')
    BY <1>3, <1>14 DEF UnbindInv
  <2>1. PICK j \in Flusher :
          /\ e \in Pending(j)
          /\ e \in t_unused[j] \/ (e \in flush_extents /\ Queued(Of("write", j)))
    BY DEF DInv, UnbindInv
  <2>2. j # i
    BY <1>16, <2>1
  <2> QED BY <1>6, <1>16, <2>1, <2>2 DEF SameWrites
<1>18. DurableBeforeReuse'
  <2>1. HeldUnused \subseteq HeldUnused' \cup unused_extents'
    BY DEF HeldUnused
  <2> QED BY <1>14, <2>1 DEF DInv, DurableBeforeReuse
<1> QED BY <1>9, <1>10, <1>13, <1>15, <1>17, <1>18 DEF DInv, QueueOrder

\* Every done function.
LEMMA DurTaskDone ==
  ASSUME IInv, Types', DInv, TaskDone
  PROVE  DInv'
<1>1. Types /\ Outcome \subseteq BOOLEAN
  BY DEF IInv, Outcome
<1> USE <1>1
<1>2. CASE DiscardBegin \/ DiscardDone \/ \E t \in Thread : RequeueDone(t)
  BY <1>2, DurOther
<1>3. CASE \E f \in File, e \in Extent, err \in Outcome : CopyDone(f, e, err)
  BY <1>3, DurCopy
<1>4. ASSUME NEW i \in Flusher, NEW op \in {"writer", "write"},
             \/ \E err \in Outcome : WriterFails(op, i, err)
             \/ WriterFinishes(op, i)
             \/ \E n \in 1 .. Len(t_head[i]), next \in BOOLEAN : WriterEncodes(op, i, n, next)
      PROVE  DInv'
  BY <1>4, DurFails, DurFinishes, DurEncodes
<1>5. ASSUME NEW i \in Flusher,
             \/ BeforeWriteFlush(i)
             \/ \E err \in Outcome : BeforeWriteFlushDone(i, err)
             \/ BeforeFlush(i)
             \/ \E err \in Outcome : AfterFlush(i, err)
             \/ AfterFlushReclaim(i)
             \/ FlusherFree(i)
      PROVE  DInv'
  BY <1>5, DurBeforeWrite, DurBeforeWriteDone, DurBeforeFlush, DurAfterFlush, DurReclaim, DurFree
<1> QED BY <1>2, <1>3, <1>4, <1>5 DEF TaskDone

\* The initial state.
LEMMA DurInit ==
  ASSUME Types, Init
  PROVE  DInv
<1>1. /\ task_head = <<>> /\ active = NoTask /\ journal_head = <<>> /\ volatile = {}
      /\ dirty_copies = {}
      /\ \A i \in Flusher : /\ t_head[i] = <<>> /\ t_record[i] = <<>> /\ ~t_nop[i]
                            /\ ~t_flush_before_write[i]
  BY DEF Init
<1> USE <1>1
<1>2. \A k \in Place : TaskAt(k) = NoTask
  BY SmallSeqs DEF Place, TaskAt
<1>3. \A i \in Flusher : \A op \in FlusherOp : \A k \in Place : TaskAt(k) # Of(op, i)
  BY <1>2, OfFacts
<1>4. {"writer", "write", "before", "before_flush", "after", "after_flush", "free"} \subseteq FlusherOp
  BY DEF FlusherOp
<1>5. QueueOrder
  BY <1>3, <1>4
     DEF QueueOrder, WriteFirst, BeforeNext, WriterAhead, FreeLast, TasksLive, Queued, Place
<1>6. WriterState
  BY DEF WriterState
<1>7. CopyInv
  BY NoEntries DEF CopyInv
<1>8. UnbindInv /\ DurableBeforeReuse
  BY DEF UnbindInv, DurableBeforeReuse
<1> QED BY <1>5, <1>6, <1>7, <1>8 DEF DInv

\* A step of the whole system.
LEMMA DurNext ==
  ASSUME IInv, Types', DInv, [Next]_vars
  PROVE  DInv'
<1>1. Types
  BY DEF IInv
<1>2. CASE UNCHANGED vars
  BY <1>1, <1>2, DurLocal DEF vars
<1>3. CASE GetTask
  BY <1>1, <1>3, DurOther
<1>4. CASE TaskDone
  BY <1>4, DurTaskDone
<1>5. CASE \E t \in Caller : Step(t)
  BY <1>5, DurStep
<1>6. CASE FlushWork
  <2>1. Timer \in Caller /\ FALSE \in BOOLEAN
    BY DEF Caller
  <2> QED BY <1>1, <1>6, <2>1, DurCaller DEF FlushWork
<1> QED BY <1>2, <1>3, <1>4, <1>5, <1>6 DEF Next

\* A WRITE that binds a copy runs behind a FLUSH, with nothing copied since.
LEMMA BoundAfterFlush ==
  ASSUME Types, DInv
  PROVE  CopyDurableBeforeBind
<1> SUFFICES ASSUME NEW i \in Flusher, active = Of("write", i), ~t_nop[i],
                    NEW e \in CopiesOf(t_record[i])
             PROVE  dirty_copies = {}
  BY DEF CopyDurableBeforeBind, Of
<1>1. PICK k \in DOMAIN t_record[i] : e \in t_record[i][k].copies
  BY DEF CopiesOf
<1>2. t_flush_before_write[i]
  BY <1>1 DEF DInv, CopyInv, CopiesFlush, AnyFlush
<1>3. Queued(Of("write", i))
  BY QueuedCases
<1>4. ~Queued(Of("before", i)) /\ ~Queued(Of("before_flush", i))
  <2>1. /\ \A j \in Flusher : \A o \in {"write", "before", "before_flush"} :
             Queued(Of(o, j)) => o = "write"
    BY WriterEnds DEF DInv
  <2> QED BY <2>1
<1>5. FlushedForWrite(i)
  BY <1>2, <1>3, <1>4 DEF FlushedForWrite
<1> QED BY <1>5 DEF DInv, CopyInv

-----------------------------------------------------------------------------
(* Pending copies and the writes that wait for them.                       *)

CopyOf(f, e) == [op |-> "copy", of |-> f, node |-> e]

\* Copies and requeue tasks move by d places, except perhaps x, which ran.
Keeps(d, x) ==
  \A k \in Place : TaskAt(k) # x /\ TaskAt(k).op \in {"copy", "requeue"} =>
    k + d \in Place' /\ TaskAt(k + d)' = TaskAt(k)

\* A place behind another in the queue that cyanfs_task_try_exec works off.
LEMMA Behind ==
  ASSUME NEW n \in Nat, NEW k \in 0 .. n, NEW l \in k + 1 .. n
  PROVE  l \in 0 .. n /\ l # 0 /\ k \in Nat /\ l \in Int /\ k < l
BY SMTT(60)

\* It is still behind it after the queue has moved by d places.
LEMMA BehindMoved ==
  ASSUME NEW n \in Nat, NEW k \in Nat, NEW l \in Int, k < l, NEW d \in Int, l + d \in 0 .. n
  PROVE  l + d \in (k + d) + 1 .. n
BY SMTT(60)

\* A pending copy keeps the write that waits for it while neither ends.
LEMMA HasKept ==
  ASSUME Types, Types', RequeueInv, NEW f \in File, HasWriter(f), NEW d \in Int,
         NEW x, x \in {NoTask, active}, \A e \in Extent : x # CopyOf(f, e), Keeps(d, x),
         \A t \in Thread : file[t] = f /\ pc[t] \in {"requeue", "wait"} /\ x # RequeueOf(t) =>
           file'[t] = f /\ pc'[t] = pc[t]
  PROVE  HasWriter(f)'
<1>1. PICK t \in Thread, k \in Place :
        /\ file[t] = f /\ CopyAt(k, f)
        /\ pc[t] = "requeue" \/ \E l \in k + 1 .. Len(task_head) : TaskAt(l) = RequeueOf(t)
  BY DEF HasWriter
<1> USE <1>1
<1>2. PICK e \in Extent : TaskAt(k) = CopyOf(f, e)
  BY DEF CopyAt, CopyOf
<1>3. Len(task_head) \in Nat /\ Len(task_head') \in Nat /\ 0 \in Place /\ TaskAt(0) = active
  BY PlacesOf DEF Types, QueueType, Place, TaskAt
<1>4. k + d \in Place' /\ CopyAt(k + d, f)'
  <2>1. TaskAt(k) # x /\ TaskAt(k).op = "copy"
    <3>1. CopyOf(f, e).op = "copy"
      BY DEF CopyOf
    <3> QED BY <1>2, <3>1
  <2>2. k + d \in Place' /\ TaskAt(k + d)' = TaskAt(k)
    BY <2>1 DEF Keeps
  <2> QED BY <1>2, <2>2 DEF CopyAt, CopyOf
<1>5. RequeueOf(t) # NoTask
  BY DEF RequeueOf, NoTask
<1>6. CASE pc[t] = "requeue"
  <2>1. x # RequeueOf(t)
    <3> SUFFICES ASSUME active = RequeueOf(t) PROVE FALSE
      BY <1>5
    <3>1. Queued(RequeueOf(t))
      BY QueuedCases
    <3>2. pc[t] = "wait"
      BY <3>1 DEF RequeueInv
    <3> QED BY <1>6, <3>2
  <2>2. file'[t] = f /\ pc'[t] = "requeue"
    BY <1>6, <2>1
  <2> QED BY <1>4, <2>2 DEF HasWriter
<1>7. ASSUME NEW l \in k + 1 .. Len(task_head), TaskAt(l) = RequeueOf(t)
      PROVE  HasWriter(f)'
  <2>1. l \in Place /\ l # 0 /\ k \in Nat /\ l \in Int /\ k < l
    BY <1>3, Behind DEF Place
  <2> USE <2>1
  <2>2. Queued(RequeueOf(t))
    BY <1>7 DEF Queued, Place
  <2>3. pc[t] = "wait"
    BY <2>2 DEF RequeueInv
  <2>4. x # RequeueOf(t)
    <3> SUFFICES ASSUME active = RequeueOf(t) PROVE FALSE
      BY <1>5
    <3> QED BY <1>3, <1>7 DEF RequeueInv, AtMostOnce, Place
  <2>5. TaskAt(l).op = "requeue"
    <3>1. RequeueOf(t).op = "requeue"
      BY DEF RequeueOf
    <3> QED BY <1>7, <3>1
  <2>6. l + d \in Place' /\ TaskAt(l + d)' = RequeueOf(t)
    BY <1>7, <2>4, <2>5 DEF Keeps
  <2>7. l + d \in (k + d) + 1 .. Len(task_head')
    BY <1>3, <2>6, BehindMoved DEF Place
  <2>8. TaskAt(l + d)' = RequeueOf(t)'
    BY <2>6 DEF RequeueOf
  <2>9. file'[t] = f
    BY <2>3, <2>4
  <2> QED BY <1>4, <2>7, <2>8, <2>9 DEF HasWriter
<1> QED BY <1>6, <1>7

\* The places of a queue put behind n tasks and before p others.
LEMMA PlaceMoved ==
  ASSUME NEW n \in Nat, NEW m \in Nat, NEW p \in Nat, NEW k \in 0 .. m
  PROVE  /\ k + n = n + k /\ k + n \in 0 .. n + m + p
         /\ k # 0 => k \in 1 .. m /\ k + n # 0
         /\ n = 0 /\ k = 0 => k + n = 0
BY SMT

\* Tasks are added at either end; what ran may have ended.
LEMMA KeepsAdd ==
  ASSUME Types, NEW a \in Seq(Task), NEW b \in Seq(Task), task_head' = (a \o task_head) \o b,
         NEW x, x = active \/ (active' = active /\ Len(a) = 0)
  PROVE  Keeps(Len(a), x)
<1>1. PICK n \in Nat, m \in Nat, p \in Nat : n = Len(a) /\ m = Len(task_head) /\ p = Len(b)
  BY SMTT(60) DEF Types, QueueType
<1> USE <1>1
<1>2. task_head \in Seq(Task)
  BY DEF Types, QueueType
<1>3. Len(task_head') = n + m + p /\ \A k \in 1 .. m : task_head'[n + k] = task_head[k]
  BY SMTT(60), <1>2
<1> SUFFICES ASSUME NEW k \in Place, TaskAt(k) # x PROVE k + n \in Place' /\ TaskAt(k + n)' = TaskAt(k)
  BY DEF Keeps
<1>4. k \in 0 .. m
  BY DEF Place
<1>5. /\ k + n = n + k /\ k + n \in 0 .. n + m + p
      /\ k # 0 => k \in 1 .. m /\ k + n # 0
      /\ n = 0 /\ k = 0 => k + n = 0
  <2> HIDE <1>1
  <2> QED BY <1>4, PlaceMoved
<1>6. CASE k = 0
  <2>1. n = 0 /\ active' = active
    BY <1>6 DEF TaskAt
  <2> QED BY <1>3, <1>5, <1>6, <2>1 DEF TaskAt, Place
<1>7. CASE k # 0
  BY <1>3, <1>5, <1>7 DEF TaskAt, Place
<1> QED BY <1>6, <1>7

\* The next task is taken.
LEMMA KeepsGet ==
  ASSUME Types, GetTask
  PROVE  Keeps(-1, NoTask)
<1> SUFFICES ASSUME NEW k \in Place, TaskAt(k) # NoTask
             PROVE  k + (-1) \in Place' /\ TaskAt(k + (-1))' = TaskAt(k)
  BY DEF Keeps
<1>1. k # 0
  BY PlacesGet
<1>2. k + (-1) \in Place' /\ (k + (-1)) + 1 = k
  BY SMTT(60), <1>1, PlacesGet DEF Place
<1> QED BY <1>2, PlacesGet


\* What a step may not do: add a pending copy, end one that stays pending, or
\* touch a write that waits.
LEMMA PendKept ==
  ASSUME IInv, Types', PendingInv, NEW d \in Int, NEW x, x \in {NoTask, active}, Keeps(d, x),
         pending' \subseteq pending, \A f \in pending' : \A e \in Extent : x # CopyOf(f, e),
         \A t \in Thread : pc[t] \in {"requeue", "wait"} /\ x # RequeueOf(t) =>
           file'[t] = file[t] /\ pc'[t] = pc[t],
         \A t \in Caller : pc'[t] = "discard_upgrade" =>
           \/ pc[t] = "discard_upgrade" /\ file'[t] = file[t]
           \/ file'[t] \notin Cow,
         RequeueMayFail \/ bug \/ ~bug'
  PROVE  PendingInv'
<1>1. pending' \subseteq Cow /\ \A t \in Caller : pc'[t] = "discard_upgrade" => file'[t] \notin Cow
  BY DEF PendingInv
<1>2. ASSUME ~RequeueMayFail, NEW f \in pending' PROVE HasWriter(f)'
  <2>1. f \in File /\ HasWriter(f)
    BY <1>2 DEF PendingInv, IInv, Types, NodesType
  <2>2. Types /\ RequeueInv
    BY DEF IInv
  <2>3. \A t \in Thread : file[t] = f /\ pc[t] \in {"requeue", "wait"} /\ x # RequeueOf(t) =>
          file'[t] = f /\ pc'[t] = pc[t]
    OBVIOUS
  <2> QED BY <1>2, <2>1, <2>2, <2>3, HasKept
<1>3. RequeueMayFail \/ ~bug'
  BY DEF PendingInv
<1> QED BY <1>1, <1>2, <1>3 DEF PendingInv

\* A step of a caller that does not wait for a copy.
LEMMA PendCaller ==
  ASSUME IInv, Types', PendingInv, NEW t \in Caller, pc[t] \notin {"requeue", "wait"},
         \A u \in Caller : u # t => pc'[u] = pc[u] /\ file'[u] = file[u],
         pc'[t] = "discard_upgrade" => file'[t] \notin Cow,
         NEW b \in Seq(Task), task_head' = task_head \o b, active' = active,
         pending' \subseteq pending, RequeueMayFail \/ bug \/ ~bug'
  PROVE  PendingInv'
<1>1. Keeps(0, NoTask)
  <2>1. Types /\ <<>> \in Seq(Task) /\ Len(<<>>) = 0
    BY SmallSeqs DEF IInv
  <2>2. task_head \in Seq(Task)
    BY <2>1 DEF Types, QueueType
  <2>3. task_head' = (<<>> \o task_head) \o b
    BY <2>2, SeqJoin
  <2> QED BY <2>1, <2>3, KeepsAdd
<1>2. \A f \in pending' : \A e \in Extent : NoTask # CopyOf(f, e)
  BY DEF NoTask, CopyOf
<1>3. Thread \subseteq Caller
  BY DEF Caller
<1>4. \A u \in Thread : pc[u] \in {"requeue", "wait"} => file'[u] = file[u] /\ pc'[u] = pc[u]
  BY <1>3
<1>5. \A u \in Caller : pc'[u] = "discard_upgrade" =>
        \/ pc[u] = "discard_upgrade" /\ file'[u] = file[u]
        \/ file'[u] \notin Cow
  OBVIOUS
<1>6. 0 \in Int
  BY OneTwo
<1> QED BY <1>1, <1>2, <1>4, <1>5, <1>6, PendKept

\* The same when it queues nothing.
LEMMA PendLocal ==
  ASSUME IInv, Types', PendingInv, NEW t \in Caller, pc[t] \notin {"requeue", "wait"},
         \A u \in Caller : u # t => pc'[u] = pc[u] /\ file'[u] = file[u],
         pc'[t] = "discard_upgrade" => file'[t] \notin Cow,
         UNCHANGED tasks, pending' \subseteq pending, RequeueMayFail \/ bug \/ ~bug'
  PROVE  PendingInv'
<1>1. task_head \in Seq(Task)
  BY DEF IInv, Types, QueueType
<1>2. <<>> \in Seq(Task) /\ task_head' = task_head \o <<>>
  BY <1>1, SmallSeqs, SeqJoin DEF tasks
<1> QED BY <1>2, PendCaller DEF tasks

\* A task ends that is no requeue and no copy that stays pending.
LEMMA PendDone ==
  ASSUME IInv, Types', PendingInv, active' = NoTask,
         \A f \in pending' : \A e \in Extent : active # CopyOf(f, e),
         NEW a \in Seq(Task), NEW b \in Seq(Task), task_head' = (a \o task_head) \o b,
         \A t \in Thread : file'[t] = file[t] /\ pc'[t] = pc[t],
         \A t \in Caller : pc'[t] = "discard_upgrade" => pc[t] = "discard_upgrade" /\ file'[t] = file[t],
         pending' \subseteq pending, bug' = bug
  PROVE  PendingInv'
<1>1. Len(a) \in Int /\ Types
  BY PlacesOf DEF IInv
<1>2. Keeps(Len(a), active)
  BY <1>1, KeepsAdd
<1> QED BY <1>1, <1>2, PendKept

\* The locals of a caller are the only ones its step changes.
LEMMA OthersKept ==
  ASSUME Types, NEW t \in Caller, NEW p, NEW g, pc' = [pc EXCEPT ![t] = p],
         file' = [file EXCEPT ![t] = g] \/ UNCHANGED file
  PROVE  /\ \A u \in Caller : u # t => pc'[u] = pc[u] /\ file'[u] = file[u]
         /\ pc'[t] = p
         /\ file'[t] = g \/ file'[t] = file[t]
<1>1. pc \in [Caller -> PC] /\ file \in [Caller -> File \cup {None}]
  BY DEF Types, LocalsType
<1> QED BY <1>1

\* __cyanfs_file_unmap_extent of a file without a pending copy.
LEMMA PendUnmaps ==
  ASSUME IInv, Types', PendingInv, NEW t \in Caller,
         \/ DiscardUnmap(t)
         \/ \E f \in File : Truncate(t, f) \/ Delete(t, f)
  PROVE  PendingInv'
<1>1. Types /\ Thread \subseteq Caller
  BY DEF IInv, Caller
<1>2. ASSUME NEW p, pc[t] \notin {"requeue", "wait"}, p # "discard_upgrade", ReturnTo(t, p),
             UNCHANGED tasks, UNCHANGED pending, RequeueMayFail \/ bug \/ ~bug'
      PROVE  PendingInv'
  BY <1>1, <1>2, OthersKept, PendLocal DEF ReturnTo
<1>3. CASE DiscardUnmap(t)
  <2>1. pc[t] \notin {"requeue", "wait"}
    BY <1>3 DEF DiscardUnmap
  <2>2. UNCHANGED tasks /\ UNCHANGED pending
    BY <1>3 DEF DiscardUnmap, Unmap, nodes
  <2>3. bug' => bug
    <3>1. file[t] \notin pending
      BY <1>3 DEF DiscardUnmap, PendingInv
    <3> QED BY <1>3, <3>1 DEF DiscardUnmap, Unmap
  <2>4. PICK p \in {"idle", "flush_check"} : ReturnTo(t, p)
    BY <1>3 DEF DiscardUnmap, Return, FlushNewJournal
  <2>5. p # "discard_upgrade"
    BY <2>4
  <2> QED BY <1>2, <2>1, <2>2, <2>3, <2>4, <2>5
<1>4. ASSUME NEW f \in File, Truncate(t, f) \/ Delete(t, f) PROVE PendingInv'
  <2>1. PICK flush \in BOOLEAN : TruncateOrDelete(t, f, flush)
    BY <1>4 DEF Truncate, Delete
  <2>2. pc[t] = "idle"
    BY <1>4 DEF Truncate, Delete, MayCall
  <2>3. RequeueMayFail \/ f \notin pending
    BY <1>1, <2>1 DEF TruncateOrDelete, Closed, PendingInv, HasWriter
  <2>4. UNCHANGED tasks /\ UNCHANGED pending /\ bug' = (f \in pending) /\ ReturnTo(t, "flush_check")
    BY <2>1 DEF TruncateOrDelete, Unmap, FlushNewJournal
  <2>5. pc[t] \notin {"requeue", "wait"} /\ "flush_check" # "discard_upgrade"
    BY <2>2
  <2>6. RequeueMayFail \/ bug \/ ~bug'
    BY <2>3, <2>4
  <2> QED BY <1>2, <2>4, <2>5, <2>6
<1> QED BY <1>3, <1>4


\* A copy on write is queued by the write that will wait for it.
LEMMA PendAlloc ==
  ASSUME IInv, Types', PendingInv, NEW t \in Caller, WriteAlloc(t)
  PROVE  PendingInv'
<1>1. Types /\ t \in Thread /\ file[t] \in File /\ task_head \in Seq(Task)
  BY DEF WriteAlloc, IInv, LocalsInv, Types, QueueType
<1> USE <1>1
<1>2. pc[t] \notin {"requeue", "wait"}
  BY DEF WriteAlloc
<1>3. PICK f \in File : f = file[t]
  OBVIOUS
<1> USE <1>3
<1>4. UNCHANGED <<active, bug>>
  BY DEF WriteAlloc
<1>5. CASE f \notin Cow
  <2>1. UNCHANGED <<pending, tasks>>
    BY <1>5 DEF WriteAlloc, tasks
  <2>2. pc' = [pc EXCEPT ![t] = "submit_new"] /\ file' = [file EXCEPT ![t] = f]
    BY <1>5 DEF WriteAlloc, Mapped
  <2>3. "submit_new" # "discard_upgrade"
    OBVIOUS
  <2> QED BY <1>2, <1>4, <2>1, <2>2, <2>3, OthersKept, PendLocal
<1>6. CASE f \in Cow
  <2>1. PICK e \in free_extents :
          /\ pending' = pending \cup {f}
          /\ task_head' = Append(task_head, CopyOf(f, e))
          /\ pc' = [pc EXCEPT ![t] = "requeue"] /\ file' = [file EXCEPT ![t] = f]
    BY <1>6 DEF WriteAlloc, Mapped, CopyOf
  <2> USE <2>1
  <2>2. e \in Extent /\ CopyOf(f, e) \in Task
    BY DEF Types, PoolsType, CopyOf, Task
  <2>3. /\ \A u \in Caller : u # t => pc'[u] = pc[u] /\ file'[u] = file[u]
        /\ pc'[t] = "requeue" /\ file'[t] = f
    BY OthersKept
  <2>4. HasWriter(f)'
    <3>1. PICK n \in Nat : n = Len(task_head)
      BY PlacesOf
    <3>2. n + 1 \in Place' /\ TaskAt(n + 1)' = CopyOf(f, e)
      BY <1>4, <2>2, <3>1, PlacesAppend
    <3>3. CopyAt(n + 1, f)'
      BY <2>2, <3>2 DEF CopyAt, CopyOf
    <3> QED BY <2>3, <3>2, <3>3 DEF HasWriter
  <2>5. Keeps(0, NoTask)
    <3>1. /\ <<>> \in Seq(Task) /\ Len(<<>>) = 0 /\ <<CopyOf(f, e)>> \in Seq(Task)
      BY <2>2, SmallSeqs
    <3>2. task_head' = (<<>> \o task_head) \o <<CopyOf(f, e)>>
      <4>1. Append(task_head, CopyOf(f, e)) = (<<>> \o task_head) \o <<CopyOf(f, e)>>
        <5> HIDE <2>1
        <5> QED BY <2>2, SeqJoin
      <4> QED BY <2>1, <4>1
    <3> QED BY <1>4, <3>1, <3>2, KeepsAdd
  <2>6. ASSUME ~RequeueMayFail, NEW g \in pending PROVE HasWriter(g)'
    <3>1. g \in File /\ HasWriter(g) /\ RequeueInv /\ Thread \subseteq Caller
      BY <2>6 DEF IInv, PendingInv, Types, NodesType, Caller
    <3>2. \A x \in Extent : NoTask # CopyOf(g, x)
      BY DEF NoTask, CopyOf
    <3>3. \A u \in Thread : file[u] = g /\ pc[u] \in {"requeue", "wait"} =>
            file'[u] = g /\ pc'[u] = pc[u]
      BY <1>2, <2>3, <3>1
    <3>4. 0 \in Int
      BY OneTwo
    <3> QED BY <2>5, <3>1, <3>2, <3>3, <3>4, HasKept
  <2>7. "requeue" # "discard_upgrade"
    OBVIOUS
  <2>8. \A u \in Caller : pc'[u] = "discard_upgrade" => file'[u] \notin Cow
    BY <2>3, <2>7 DEF PendingInv
  <2>9. RequeueMayFail \/ (~bug' /\ \A g \in pending' : HasWriter(g)')
    BY <1>4, <2>4, <2>6 DEF PendingInv
  <2>10. pending' \subseteq Cow
    BY <1>6 DEF PendingInv
  <2> QED BY <2>8, <2>9, <2>10 DEF PendingInv
<1> QED BY <1>5, <1>6

\* The write goes to the queue, behind the copy.
LEMMA PendRequeue ==
  ASSUME IInv, Types', PendingInv, NEW t \in Caller, WriteRequeue(t)
  PROVE  PendingInv'
<1>1. Types /\ RequeueInv /\ t \in Thread /\ task_head \in Seq(Task) /\ Thread \subseteq Caller
  BY DEF WriteRequeue, IInv, LocalsInv, Types, QueueType, Caller
<1> USE <1>1
<1>2. UNCHANGED <<active, bug, pending>> /\ pc[t] = "requeue"
  BY DEF WriteRequeue, nodes
<1> USE <1>2
<1>3. PICK p \in {"wait", "idle"} : pc' = [pc EXCEPT ![t] = p]
  BY DEF WriteRequeue, Return, ReturnTo
<1>4. /\ \A u \in Caller : u # t => pc'[u] = pc[u] /\ file'[u] = file[u]
      /\ pc'[t] = p /\ p # "discard_upgrade"
  <2>1. p # "discard_upgrade"
    BY <1>3
  <2>2. file' = [file EXCEPT ![t] = None] \/ UNCHANGED file
    BY DEF WriteRequeue, Return, ReturnTo
  <2> QED BY <1>3, <2>1, <2>2, OthersKept
<1>5. ASSUME ~RequeueMayFail, NEW f \in pending PROVE HasWriter(f)'
  <2>1. /\ task_head' = Append(task_head, RequeueOf(t)) /\ pc' = [pc EXCEPT ![t] = "wait"]
        /\ UNCHANGED file
    BY <1>5 DEF WriteRequeue, RequeueOf
  <2> USE <2>1
  <2>2. RequeueOf(t) \in Task
    BY DEF RequeueOf, Task
  <2> USE <2>2
  <2>3. PICK n \in Nat : n = Len(task_head)
    BY PlacesAppend
  <2>4. /\ Place \subseteq Place' /\ \A k \in Place : TaskAt(k)' = TaskAt(k)
        /\ n + 1 \in Place' /\ TaskAt(n + 1)' = RequeueOf(t)
    BY <2>3, PlacesAppend
  <2>5. PICK u \in Thread, k \in Place :
          /\ file[u] = f /\ CopyAt(k, f)
          /\ pc[u] = "requeue" \/ \E l \in k + 1 .. Len(task_head) : TaskAt(l) = RequeueOf(u)
    BY <1>5 DEF PendingInv, HasWriter
  <2>6. k \in Place' /\ CopyAt(k, f)' /\ file'[u] = f
    BY <2>4, <2>5 DEF CopyAt
  <2>7. CASE u = t
    <3>1. n + 1 \in k + 1 .. Len(task_head')
      BY SMTT(60), <2>3 DEF Place
    <3>2. TaskAt(n + 1)' = RequeueOf(u)'
      BY <2>4, <2>7 DEF RequeueOf
    <3> QED BY <2>6, <3>1, <3>2 DEF HasWriter
  <2>8. CASE u # t /\ pc[u] = "requeue"
    <3>1. pc'[u] = "requeue"
      BY <1>4, <2>8
    <3> QED BY <2>6, <3>1 DEF HasWriter
  <2>9. ASSUME NEW l \in k + 1 .. Len(task_head), TaskAt(l) = RequeueOf(u) PROVE HasWriter(f)'
    <3>1. l \in k + 1 .. Len(task_head') /\ l \in Place
      BY SMTT(60), <2>3 DEF Place
    <3>2. TaskAt(l)' = RequeueOf(u)'
      BY <2>4, <2>9, <3>1 DEF RequeueOf
    <3> QED BY <2>6, <3>1, <3>2 DEF HasWriter
  <2> QED BY <2>5, <2>7, <2>8, <2>9
<1>6. \A u \in Caller : pc'[u] = "discard_upgrade" => file'[u] \notin Cow
  BY <1>4 DEF PendingInv
<1>7. RequeueMayFail \/ (~bug' /\ \A g \in pending' : HasWriter(g)')
  BY <1>5 DEF PendingInv
<1> QED BY <1>6, <1>7 DEF PendingInv

\* The other steps of a caller.
LEMMA PendStep ==
  ASSUME IInv, Types', PendingInv, NEW t \in Caller, Step(t)
  PROVE  PendingInv'
<1>1. Types /\ task_head \in Seq(Task)
  BY DEF IInv, Types, QueueType
<1>2. ASSUME NEW p, NEW g, pc[t] \notin {"requeue", "wait"}, p = "discard_upgrade" => g \notin Cow,
             pc' = [pc EXCEPT ![t] = p],
             file' = [file EXCEPT ![t] = g] \/ (UNCHANGED file /\ p # "discard_upgrade"),
             UNCHANGED <<tasks, pending, bug>>
      PROVE  PendingInv'
  <2>1. pc'[t] = "discard_upgrade" => file'[t] \notin Cow
    <3>1. file \in [Caller -> File \cup {None}] /\ pc \in [Caller -> PC]
      BY <1>1 DEF Types, LocalsType
    <3> QED BY <1>2, <3>1
  <2>2. \A u \in Caller : u # t => pc'[u] = pc[u] /\ file'[u] = file[u]
    BY <1>1, <1>2, OthersKept
  <2>3. pending' \subseteq pending /\ (RequeueMayFail \/ bug \/ ~bug') /\ UNCHANGED tasks
    BY <1>2
  <2> QED BY <1>2, <2>1, <2>2, <2>3, PendLocal
<1>3. CASE FlusherCheck(t) \/ SuperFlush(t, TRUE)
  <2>1. pc[t] \notin {"requeue", "wait"} /\ UNCHANGED <<tasks, pending, bug, file>>
    BY <1>3 DEF FlusherCheck, SuperFlush, nodes
  <2>2. PICK p : p # "discard_upgrade" /\ pc' = [pc EXCEPT ![t] = p]
    BY <1>3 DEF FlusherCheck, SuperFlush, FlusherAt
  <2> QED BY <1>2, <2>1, <2>2
<1>4. CASE FlusherNothing(t) \/ WriteFails(t) \/ WriteNoSpace(t)
  <2>1. pc[t] \notin {"requeue", "wait"} /\ UNCHANGED <<tasks, pending, bug>>
    BY <1>4 DEF FlusherNothing, WriteFails, WriteNoSpace, nodes
  <2>2. Return(t) /\ "idle" # "discard_upgrade"
    BY <1>4 DEF FlusherNothing, WriteFails, WriteNoSpace
  <2> QED BY <1>2, <2>1, <2>2 DEF Return, ReturnTo
<1>5. ASSUME NEW i \in Flusher, FlusherStart(t, i) PROVE PendingInv'
  <2>1. /\ pc[t] \notin {"requeue", "wait"} /\ UNCHANGED <<active, pending, bug>> /\ Return(t)
    BY <1>5 DEF FlusherStart, nodes
  <2>2. PICK b \in Seq(Task) : task_head' = task_head \o b
    <3>1. \A j \in BOOLEAN, o \in BOOLEAN : FlusherTasks(i, j, o) \in Seq(Task)
      BY StartTasks
    <3> QED BY <1>5, <3>1 DEF FlusherStart
  <2>3. /\ \A u \in Caller : u # t => pc'[u] = pc[u] /\ file'[u] = file[u]
        /\ pc'[t] = "idle" /\ "idle" # "discard_upgrade"
    BY <1>1, <2>1, OthersKept DEF Return, ReturnTo
  <2> QED BY <2>1, <2>2, <2>3, PendCaller
<1>6. ASSUME NEW f \in File, WriteMapped(t, f) \/ WriteUnmapped(t, f) PROVE PendingInv'
  <2>1. CASE pc[t] = "requeue" \/ pc[t] = "wait"
    BY <1>6, <2>1 DEF WriteMapped, WriteUnmapped, MayWrite, MayCall
  <2>2. CASE pc[t] \notin {"requeue", "wait"}
    <3>1. UNCHANGED <<tasks, pending, bug>> /\ file' = [file EXCEPT ![t] = f]
      BY <1>6 DEF WriteMapped, WriteUnmapped, Mapped, nodes
    <3>2. HandlerOf(f) # "discard_upgrade" /\ "write_alloc" # "discard_upgrade"
          /\ "requeue" # "discard_upgrade"
      BY DEF HandlerOf
    <3>3. PICK p : p # "discard_upgrade" /\ pc' = [pc EXCEPT ![t] = p]
      BY <1>6, <3>2 DEF WriteMapped, WriteUnmapped, Mapped
    <3> QED BY <1>2, <2>2, <3>1, <3>3
  <2> QED BY <2>1, <2>2
<1>7. CASE WriteRaced(t)
  <2>1. pc[t] \notin {"requeue", "wait"}
    BY <1>7 DEF WriteRaced
  <2>2. UNCHANGED <<tasks, pending, bug>> /\ file' = [file EXCEPT ![t] = file[t]]
        /\ pc' = [pc EXCEPT ![t] = HandlerOf(file[t])]
    BY <1>7 DEF WriteRaced, Mapped, nodes
  <2>3. HandlerOf(file[t]) # "discard_upgrade"
    BY DEF HandlerOf
  <2> QED BY <1>2, <2>1, <2>2, <2>3
<1>8. CASE WriteDone(t)
  <2>1. pc[t] \notin {"requeue", "wait"} /\ UNCHANGED <<tasks, pending, bug>>
    BY <1>8 DEF WriteDone, nodes
  <2>2. PICK p \in {"idle", "flush_check"} : ReturnTo(t, p)
    BY <1>8 DEF WriteDone, Return, FlushNewJournal
  <2>3. p # "discard_upgrade"
    BY <2>2
  <2> QED BY <1>2, <2>1, <2>2, <2>3 DEF ReturnTo
<1>9. ASSUME NEW f \in File, DiscardCheck(t, f) PROVE PendingInv'
  <2>1. pc[t] \notin {"requeue", "wait"}
    BY <1>9 DEF DiscardCheck, MayCall
  <2>2. /\ f \notin Cow /\ pc' = [pc EXCEPT ![t] = "discard_upgrade"]
        /\ file' = [file EXCEPT ![t] = f] /\ UNCHANGED <<tasks, pending, bug>>
    BY <1>9 DEF DiscardCheck, nodes
  <2> QED BY <1>2, <2>1, <2>2
<1>10. CASE WriteAlloc(t)
  BY <1>10, PendAlloc
<1>11. CASE WriteRequeue(t)
  BY <1>11, PendRequeue
<1>12. CASE DiscardUnmap(t) \/ \E f \in File : Truncate(t, f) \/ Delete(t, f)
  BY <1>12, PendUnmaps
<1> QED BY <1>3, <1>4, <1>5, <1>6, <1>7, <1>8, <1>9, <1>10, <1>11, <1>12 DEF Step


\* The done functions of the other tasks.
LEMMA PendTaskDone ==
  ASSUME IInv, Types', PendingInv, TaskDone
  PROVE  PendingInv'
<1>1. Types /\ RequeueInv /\ task_head \in Seq(Task) /\ Thread \subseteq Caller
  BY DEF IInv, Types, QueueType, Caller
<1> USE <1>1
<1>2. <<>> \in Seq(Task) /\ \A x \in Task : <<x>> \in Seq(Task)
  BY SMTT(60)
<1> USE <1>2
<1>3. /\ task_head = (<<>> \o task_head) \o <<>>
      /\ \A a \in Seq(Task) : a \o task_head = (a \o task_head) \o <<>>
      /\ \A x \in Task : Append(task_head, x) = (<<>> \o task_head) \o <<x>>
  BY SMTT(60)
<1> USE <1>3
<1>4. ASSUME NEW op, NEW i, DoneFor(op, i), op \notin {"copy", "requeue"}, UNCHANGED <<locals, pending, bug>>,
             NEW a \in Seq(Task), NEW b \in Seq(Task), task_head' = (a \o task_head) \o b
      PROVE  PendingInv'
  <2>1. active = [op |-> op, of |-> i] /\ active' = NoTask
    BY <1>4 DEF DoneFor, Done
  <2>2. \A f \in pending' : \A e \in Extent : active # CopyOf(f, e)
    BY <1>4, <2>1 DEF CopyOf
  <2>3. UNCHANGED <<pc, file>> /\ pending' \subseteq pending /\ bug' = bug
    BY <1>4 DEF locals
  <2> QED BY <1>4, <2>1, <2>2, <2>3, PendDone
<1>5. \A op \in FlusherOp : op \notin {"copy", "requeue"}
  BY DEF FlusherOp
<1>6. {"writer", "write", "before", "before_flush", "after", "after_flush", "free"} \subseteq FlusherOp
  BY DEF FlusherOp
<1> USE <1>6
<1>7. ASSUME NEW i \in Flusher, NEW op \in FlusherOp, DoneFor(op, i),
             UNCHANGED <<locals, pending, bug>>,
             \/ UNCHANGED task_head
             \/ \E a \in Seq(Task) : task_head' = a \o task_head
             \/ \E x \in Task : task_head' = Append(task_head, x)
      PROVE  PendingInv'
  BY <1>4, <1>5, <1>7
<1>8. ASSUME NEW i \in Flusher, NEW op \in {"writer", "write"}, NEW err, Written(op, i, err),
             \/ UNCHANGED task_head
             \/ \E a \in Seq(Task) : task_head' = a \o task_head
      PROVE  PendingInv'
  BY <1>7, <1>8 DEF Written, nodes
<1>9. ASSUME NEW i \in Flusher, NEW op \in {"writer", "write"},
             \/ \E err \in Outcome : WriterFails(op, i, err)
             \/ WriterFinishes(op, i)
      PROVE  PendingInv'
  BY <1>8, <1>9 DEF WriterFails, WriterFinishes
<1>10. \A i \in Flusher : \A o \in FlusherOp : Of(o, i) \in Task
  BY DEF Of, Task
<1>11. ASSUME NEW i \in Flusher, NEW op \in {"writer", "write"}, NEW n \in 1 .. Len(t_head[i]),
              NEW next \in BOOLEAN, WriterEncodes(op, i, n, next)
       PROVE  PendingInv'
  <2>1. PICK first \in BOOLEAN :
          task_head' = (IF first THEN <<Of("before", i)>> ELSE <<>>) \o <<Of("write", i)>> \o task_head
    BY <1>11 DEF WriterEncodes, Of
  <2>2. PICK x \in Task, y \in Task : x = Of("before", i) /\ y = Of("write", i)
    BY <1>10
  <2>3. \E a \in Seq(Task) : task_head' = a \o task_head
    <3>1. CASE first
      <4>1. task_head' = <<x, y>> \o task_head
        BY SMTT(60), <2>1, <2>2, <3>1
      <4>2. <<x, y>> \in Seq(Task)
        BY SMTT(60)
      <4> QED BY <4>1, <4>2
    <3>2. CASE ~first
      <4>1. task_head' = <<y>> \o task_head
        BY SMTT(60), <2>1, <2>2, <3>2
      <4> QED BY <4>1
    <3> QED BY <3>1, <3>2
  <2> QED BY <1>8, <1>11, <2>3 DEF WriterEncodes
<1>12. ASSUME NEW i \in Flusher,
              BeforeWriteFlush(i) \/ BeforeFlush(i) \/ AfterFlushReclaim(i) \/ FlusherFree(i)
       PROVE  PendingInv'
  <2>1. /\ Of("before_flush", i) \in Task /\ Of("after_flush", i) \in Task
        /\ [op |-> "discard_begin", of |-> None] \in Task
    BY DEF Of, Task, FlusherOp, DiscardTask
  <2>2. CASE BeforeWriteFlush(i)
    BY <1>7, <2>1, <2>2 DEF BeforeWriteFlush, Of, nodes
  <2>3. CASE BeforeFlush(i)
    BY <1>7, <2>1, <2>3 DEF BeforeFlush, Of, nodes
  <2>4. CASE AfterFlushReclaim(i)
    BY <1>7, <2>1, <2>4 DEF AfterFlushReclaim, DiscardExtents, nodes
  <2>5. CASE FlusherFree(i)
    BY <1>7, <2>5 DEF FlusherFree, nodes
  <2> QED BY <1>12, <2>2, <2>3, <2>4, <2>5
<1>13. ASSUME NEW i \in Flusher, NEW err, BeforeWriteFlushDone(i, err) \/ AfterFlush(i, err)
       PROVE  PendingInv'
  BY <1>7, <1>13 DEF BeforeWriteFlushDone, AfterFlush, nodes
<1>14. CASE DiscardBegin \/ DiscardDone
  <2>1. [op |-> "discard_io", of |-> None] \in Task
    BY DEF Task, DiscardTask
  <2>2. "discard_begin" \notin {"copy", "requeue"} /\ "discard_io" \notin {"copy", "requeue"}
    OBVIOUS
  <2>3. \E b \in Seq(Task) : task_head' = (<<>> \o task_head) \o b
    BY <1>14, <2>1 DEF DiscardBegin, DiscardDone, DiscardNext
  <2> QED BY <1>4, <1>14, <2>2, <2>3 DEF DiscardBegin, DiscardDone, nodes
<1>15. ASSUME NEW f \in File, NEW e \in Extent, NEW err, CopyDone(f, e, err) PROVE PendingInv'
  <2>1. /\ active = CopyOf(f, e) /\ active' = NoTask /\ pending' = pending \ {f}
        /\ UNCHANGED <<task_head, bug>>
    BY <1>15 DEF CopyDone, Done, CopyOf
  <2>2. \A g \in pending' : \A x \in Extent : active # CopyOf(g, x)
    BY <2>1 DEF CopyOf
  <2>3. UNCHANGED <<pc, file>> \/ ReturnTo(Exec, "flush_check")
    BY <1>15 DEF CopyDone, FlushNewJournal, locals
  <2>4. Exec \in Caller /\ Exec \notin Thread /\ "flush_check" # "discard_upgrade"
    BY ExtentsAssumption DEF Caller
  <2>5. /\ \A t \in Thread : file'[t] = file[t] /\ pc'[t] = pc[t]
        /\ \A t \in Caller : pc'[t] = "discard_upgrade" =>
             pc[t] = "discard_upgrade" /\ file'[t] = file[t]
    <3>1. CASE UNCHANGED <<pc, file>>
      BY <3>1
    <3>2. CASE ReturnTo(Exec, "flush_check")
      BY <2>4, <3>2, OthersKept DEF ReturnTo
    <3> QED BY <2>3, <3>1, <3>2
  <2>6. task_head' = (<<>> \o task_head) \o <<>> /\ pending' \subseteq pending
    BY <2>1
  <2> QED BY <2>1, <2>2, <2>5, <2>6, PendDone
<1>16. ASSUME NEW t \in Thread, RequeueDone(t) PROVE PendingInv'
  <2>1. /\ active = RequeueOf(t) /\ pc' = [pc EXCEPT ![t] = "write_start"]
        /\ UNCHANGED <<task_head, bug, pending, file>>
    BY <1>16 DEF RequeueDone, DoneFor, Done, RequeueOf, nodes
  <2> USE <2>1
  <2>2. \A f \in pending' : \A e \in Extent : active # CopyOf(f, e)
    BY DEF CopyOf, RequeueOf
  <2>3. Keeps(0, active)
    <3>1. Len(<<>>) = 0
      OBVIOUS
    <3> QED BY <3>1, KeepsAdd
  <2>4. /\ \A u \in Caller : u # t => pc'[u] = pc[u] /\ file'[u] = file[u]
        /\ pc'[t] = "write_start" /\ "write_start" # "discard_upgrade"
    <3>1. "write_start" # "discard_upgrade"
      OBVIOUS
    <3> QED BY <3>1, OthersKept
  <2>5. 0 \in Int
    BY SMTT(60)
  <2> QED BY <2>2, <2>3, <2>4, <2>5, PendKept
<1> QED BY <1>9, <1>11, <1>12, <1>13, <1>14, <1>15, <1>16 DEF TaskDone

\* Every step of the system.
LEMMA PendNext ==
  ASSUME IInv, Types', PendingInv, [Next]_vars
  PROVE  PendingInv'
<1>1. Types /\ Thread \subseteq Caller
  BY DEF IInv, Caller
<1>2. CASE UNCHANGED vars
  <2>1. UNCHANGED <<pc, file, pending, bug, task_head, active>>
    BY <1>2 DEF vars, locals, nodes, tasks
  <2>2. Place' = Place /\ \A k : TaskAt(k)' = TaskAt(k)
    BY <2>1 DEF Place, TaskAt
  <2>3. \A f : HasWriter(f) => HasWriter(f)'
    BY <2>1, <2>2 DEF HasWriter, CopyAt, RequeueOf
  <2> QED BY <2>1, <2>3 DEF PendingInv
<1>3. CASE GetTask
  <2>1. UNCHANGED <<pc, file, pending, bug>>
    BY <1>3 DEF GetTask, locals, nodes
  <2>2. \A f \in pending' : \A e \in Extent : NoTask # CopyOf(f, e)
    BY DEF NoTask, CopyOf
  <2>3. -1 \in Int
    BY SMTT(60)
  <2> QED BY <1>1, <1>3, <2>1, <2>2, <2>3, KeepsGet, PendKept
<1>4. CASE TaskDone
  BY <1>4, PendTaskDone
<1>5. CASE \E t \in Caller : Step(t)
  BY <1>5, PendStep
<1>6. CASE FlushWork
  <2>1. Timer \in Caller
    BY DEF Caller
  <2>2. /\ pc[Timer] \notin {"requeue", "wait"} /\ UNCHANGED <<tasks, pending, bug, file>>
        /\ pc' = [pc EXCEPT ![Timer] = FlusherAt(FALSE)] /\ FlusherAt(FALSE) # "discard_upgrade"
    BY <1>6 DEF FlushWork, SuperFlush, FlusherAt, nodes
  <2> QED BY <1>1, <2>1, <2>2, OthersKept, PendLocal
<1> QED BY <1>2, <1>3, <1>4, <1>5, <1>6 DEF Next

\* No copy is pending at first.
LEMMA PendInit ==
  ASSUME Init
  PROVE  PendingInv
<1>1. pending = {} /\ ~bug /\ pc = [t \in Caller |-> "idle"]
  BY DEF Init
<1>2. \A t \in Caller : pc[t] # "discard_upgrade"
  BY <1>1
<1> QED BY <1>1, <1>2 DEF PendingInv

=============================================================================
