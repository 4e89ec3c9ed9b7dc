------------------------- MODULE CyanfsBackend_ind --------------------------
(***************************************************************************)
(* The inductive invariant of the Linux backend.                           *)
(***************************************************************************)
EXTENDS CyanfsBackend

-----------------------------------------------------------------------------
(* Types.                                                                  *)

Ops == {"idle", "append", "periodic", "fsync", "flush_bio", "release", "sync", "close"}
Started == {"check", "take", "take_ondisk", "wake"}
Flushing == {"map", "submit", "requeue", "requeue_wake", "wait"}
Flushes == {"fsync", "flush_bio", "release"}

\* Where an actor can be in each call.
PlacesOf(o) ==
  CASE o \in {"append", "periodic"} -> Started
    [] o \in {"fsync", "flush_bio"} -> Started \cup Flushing
    [] o = "release" -> Started \cup Flushing \cup {"put"}
    [] o = "sync" -> {"check", "take_ondisk", "wake", "waiter", "queue", "served"}
    [] o = "close" -> {"cancel", "cancelled", "check", "take_ondisk", "wake", "queue",
                       "flush_work", "super_close"}
    [] OTHER -> {"idle"}

JournalType ==
  /\ inst \in Instances
  /\ appended \in Nat /\ taken \in Nat /\ written \in Nat /\ durable \in Nat
  /\ promised \in Nat /\ flag \in BOOLEAN /\ error \in BOOLEAN
  /\ durable <= written /\ written <= taken /\ taken <= appended /\ appended <= MaxAppends
ExecType ==
  /\ queue \in Seq(Tasks) /\ active \in Tasks \cup {NoTask} /\ done \in BOOLEAN
  /\ work \in {"idle", "loop", "complete"} /\ pending \in BOOLEAN
  /\ waiters \subseteq Actors /\ took \subseteq Actors
  /\ barrier \in {"none", "pending", "running", "done"}
CallType ==
  /\ op \in [Actors -> Ops] /\ pc \in [Actors -> UNION {PlacesOf(o) : o \in Ops}]
  /\ comp \in [Actors -> {"none", "fired", "flushing", "ok", "err"}]
  /\ cover \in [Actors -> Nat] /\ goal \in [Actors -> Nat]
OwnerType ==
  /\ life \in [Handles -> {"new", "open", "unmapped", "gone"}]
  /\ refs \subseteq Handles \cup {"tree"}
  /\ armed \in BOOLEAN /\ closed \in BOOLEAN
Types == JournalType /\ ExecType /\ CallType /\ OwnerType

-----------------------------------------------------------------------------
(* The tasks: place 0 is the one the executor runs, until its done         *)
(* function has returned.                                                  *)

At(k) == IF k = 0 THEN IF done THEN NoTask ELSE active ELSE queue[k]
Place == 0 .. Len(queue)
IsWriter(x) == x.type \in {"encode", "write", "nop"}
IsAfter(x) == x.type \in {"after", "after_flush"}

\* Entries 1..n are on the device, or a writer ahead of place k will write them.
Covered(n, k) ==
  \/ n <= written
  \/ \E l \in Place : l < k /\ IsWriter(At(l)) /\ n <= At(l).upto

\* A WRITE is at the head of the queue, behind its own FLUSH at most.
Plain(x) == x.type \in {"encode", "after", "free", "requeue"}
PlainFrom(j) == \A k \in Place : k >= j => Plain(At(k))
Shape ==
  \/ At(0).type \notin {"before", "before_flush"} /\ PlainFrom(1)
  \/ /\ At(0) = NoTask /\ 1 \in Place
     /\ At(1).type \in {"write", "nop", "after_flush"} /\ PlainFrom(2)
  \/ /\ At(0).type \in {"before", "before_flush"} /\ 1 \in Place
     /\ At(1).type = "write" /\ PlainFrom(2)
  \/ /\ At(0) = NoTask /\ 2 \in Place
     /\ At(1).type \in {"before", "before_flush"} /\ At(2).type = "write" /\ PlainFrom(3)

\* Writers are in the order in which their flushers took the entries, none of
\* which is written yet.
Bounds ==
  \A k \in Place :
    /\ IsWriter(At(k)) => written <= At(k).upto /\ At(k).upto <= taken
    /\ At(k).type = "write" => written <= At(k).to /\ At(k).to <= At(k).upto
    /\ At(k).type = "nop" => error
Sorted ==
  \A k, l \in Place : k < l /\ IsWriter(At(k)) /\ IsWriter(At(l)) => At(k).upto <= At(l).upto
OrderInv == Shape /\ Bounds /\ Sorted

\* What was taken is written, or has its writer, unless the super failed.
TakenInv == error \/ Covered(taken, Len(queue) + 1)

\* A requeue task is behind the writers of every entry its call is about.
RequeueInv ==
  \A a \in Handles : \A k \in Place : At(k) = RequeueTask(a) =>
    /\ pc[a] \in {"requeue_wake", "wait"} /\ comp[a] = "none"
    /\ error \/ Covered(goal[a], k)
    /\ \A l \in Place : At(l) = RequeueTask(a) => l = k

-----------------------------------------------------------------------------
(* The calls.                                                              *)

CallOk(a) ==
  /\ pc[a] \in PlacesOf(op[a])
  /\ goal[a] <= appended /\ cover[a] <= written
  /\ op[a] \in {"idle", "append", "periodic"} => goal[a] = 0
  /\ op[a] \in Flushes /\ pc[a] \in Flushing \cup {"wake"} => goal[a] <= taken
  /\ pc[a] = "submit" \/ comp[a] = "fired" => error \/ goal[a] <= written
  /\ comp[a] # "none" => pc[a] \in {"requeue_wake", "wait"}
  /\ comp[a] = "flushing" /\ (op[a] = "flush_bio" \/ ~error) => goal[a] <= cover[a]
  /\ comp[a] = "ok" /\ (op[a] = "flush_bio" \/ ~error) => goal[a] <= durable
CallInv == \A a \in Actors : CallOk(a)

\* A sync or a close has its FLUSH behind the writers of its entries, until the
\* executor has run it: then every waiter it completes has what it asked for.
Syncing(a) ==
  \/ op[a] = "sync" /\ pc[a] \in {"wake", "waiter", "queue", "served"}
  \/ op[a] = "close" /\ pc[a] \in {"wake", "queue", "flush_work", "super_close"}
Synced(n) == error \/ n <= durable
HasAfter(n) == \E k \in Place : IsAfter(At(k)) /\ Covered(n, k)
Drained == barrier = "done" \/ (barrier = "running" /\ work = "complete")
SyncOk(a) ==
  /\ Syncing(a) => Synced(goal[a]) \/ HasAfter(goal[a])
  /\ op[a] = "sync" /\ pc[a] \in {"queue", "served"} /\ a \notin waiters \cup took =>
       Synced(goal[a])
  /\ a \in took /\ work = "complete" => Synced(goal[a])
  /\ op[a] = "close" /\ Drained => Synced(goal[a])
  /\ a \in waiters \cup took => op[a] = "sync" /\ pc[a] \in {"queue", "served"}
SyncInv == \A a \in Actors : SyncOk(a)

WorkInv ==
  /\ active # NoTask => work = "loop"
  /\ work = "idle" => took = {}

-----------------------------------------------------------------------------
(* Who holds the backend, and its close.                                   *)

HolderInv ==
  /\ \A h \in Handles : life[h] \in {"open", "unmapped"} => h \in refs
  /\ \A h \in Handles : op[h] \notin {"idle", "close"} => life[h] \in {"open", "unmapped"}
  /\ op["ioctl"] \notin {"idle", "close"} => Mounted
  /\ op["ioctl"] \in {"idle", "append", "sync", "close"}
  /\ op["timer"] \in {"idle", "periodic"}

\* The closer is alone, and from the cancel of the periodic flush on it stays so.
CloseInv ==
  /\ \A a \in Actors : op[a] = "close" =>
       /\ refs = {} /\ ~closed
       /\ \A b \in Actors : op[b] = "close" => b = a
       /\ pc[a] # "cancel" => ~armed
       /\ pc[a] \notin {"cancel", "cancelled"} => op["timer"] = "idle"
       /\ pc[a] = "super_close" => barrier = "done"
  /\ closed =>
       /\ refs = {} /\ ~armed /\ barrier = "done"
       /\ \A a \in Actors : op[a] = "idle"
  /\ barrier # "none" => closed \/ \E a \in Actors : pc[a] \in {"flush_work", "super_close"}
  /\ barrier = "running" => work # "idle"
  /\ barrier = "done" => work = "idle"
  /\ barrier \in {"running", "done"} => ~pending
  /\ Drained => queue = << >>

IInv ==
  /\ Types /\ OrderInv /\ TakenInv /\ RequeueInv /\ CallInv /\ SyncInv /\ WorkInv
  /\ HolderInv /\ CloseInv /\ FlushedIsDurable
=============================================================================
