------------------------------ MODULE CyanfsUefi ------------------------------
(***************************************************************************)
(* The UEFI driver: starting and stopping it on a disk, mapping files as   *)
(* child disks and stopping them, with boot services that may fail at any  *)
(* call, and the block I/O other drivers send to a child meanwhile.        *)
(*                                                                         *)
(* There is one thread.  A protocol call is a sequence of boot service     *)
(* calls, one action each; between two of them the firmware may run other  *)
(* drivers, which may read, write and flush a child as long as its         *)
(* BlockIo is installed.  The repair of a child (CyanfsRecoverDisk) is one *)
(* action.  Tasks are run by whoever makes them (CyanfsBackendNewTask), so *)
(* a flush is one step.                                                    *)
(***************************************************************************)
CONSTANTS
  Disk,     \* memory for CYANFS_DISK
  File,     \* files of the super
  Shared,   \* files with blocks of their parent still to be copied
  None

ASSUME UefiAssumption == Shared \subseteq File /\ None \notin Disk \cup File

VARIABLES
  driver,     \* the protocol EFI_CYANFS_PROTOCOL is installed, the super open
  by_driver,  \* the parent BlockIo is open BY_DRIVER
  state,      \* CYANFS_DISK_STATE of each child, "NONE" if it is not allocated
  file,       \* the file a child has open
  installed,  \* what the handle database has on the child's handle
  seen,       \* BlockIoInstalled and DevicePathInstalled
  by_child,   \* the parent BlockIo is open BY_CHILD_CONTROLLER
  opened,     \* ByChildOpened
  pc, disk, previous, todo,   \* the call under way
  memory,     \* journal entries not yet written
  cache,      \* data or entries written since the device was flushed
  error       \* CYANFS_SUPER_FLAG_ERROR

database == <<installed, by_child>>
child == <<state, file, seen, opened>>
call == <<pc, disk, previous, todo>>
super == <<memory, cache, error>>
vars == <<driver, by_driver, database, child, call, super>>

Protocols == {"BlockIo", "DevicePath"}
Children == {d \in Disk : state[d] # "NONE"}

(***************************************************************************)
(* The super.  cyanfs_super_flush and cyanfs_flush run the executor until  *)
(* the queue is empty; a failure of the device stays in the super.         *)
(***************************************************************************)
FlushOk == ~error /\ memory' = FALSE /\ cache' = FALSE /\ UNCHANGED error

\* The entries may have reached the device all the same.
FlushFails ==
  /\ memory' \in {memory, FALSE} /\ cache' \in {cache, TRUE}
  /\ memory # memory' => cache'
  /\ error' \in {error, TRUE}

\* CyanfsCreate, Fork, Rename, Truncate, Delete: the operation, which may
\* be refused, and CyanfsFlushMetadata.
Metadata ==
  /\ pc = "idle" /\ driver
  /\ ~error
  /\ FlushOk \/ (memory' = TRUE /\ cache' \in {cache, TRUE} /\ error' \in BOOLEAN)
  /\ UNCHANGED <<driver, by_driver, database, child, call>>

\* CyanfsIoWrite: the journal entry of a new extent may be written at once.
\* A block of the parent needs a COPY task, which CyanfsBackendLoop answers
\* with CYANFS_BUG_ON: the machine stops.
Write(d) ==
  /\ "BlockIo" \in installed[d] /\ pc # "dead" /\ ~error
  /\ \/ /\ memory' \in BOOLEAN /\ cache' = TRUE /\ error' \in BOOLEAN
        /\ UNCHANGED call
     \/ /\ file[d] \in Shared
        /\ pc' = "dead" /\ disk' = d
        /\ UNCHANGED <<super, previous, todo>>
  /\ UNCHANGED <<driver, by_driver, database, child>>

IoFlush(d) ==
  /\ "BlockIo" \in installed[d] /\ pc # "dead"
  /\ FlushOk \/ FlushFails
  /\ UNCHANGED <<driver, by_driver, database, child, call>>

(***************************************************************************)
(* Boot services on the handle of a child.  A call that fails may have     *)
(* done part of the work.  The flags are read back after each.             *)
(***************************************************************************)
Refresh(d) == seen' = [seen EXCEPT ![d] = installed'[d]]

Install(d, got) ==
  /\ installed' = [installed EXCEPT ![d] = @ \cup got]
  /\ Refresh(d)

CyanfsUninstallDiskProtocols(d, left) ==
  /\ installed' = [installed EXCEPT ![d] = @ \cap left]
  /\ Refresh(d)

CyanfsOpenChildBlockIo(d, ok) ==
  /\ by_child' = IF ok THEN by_child \cup {d} ELSE by_child
  /\ opened' = IF ok THEN opened \cup {d} ELSE opened

CyanfsCloseChildBlockIo(d, ok) ==
  /\ d \in opened \/ ok
  /\ by_child' = IF ok THEN by_child \ {d} ELSE by_child
  /\ opened' = IF ok THEN opened \ {d} ELSE opened

Goto(p) == pc' = p /\ UNCHANGED <<disk, previous, todo>>
Return == pc' = "idle" /\ disk' = None /\ previous' = "NONE" /\ UNCHANGED todo

\* The next child of DriverStop, or the end of the call.
Following(p) ==
  /\ pc' = p /\ disk' = None /\ previous' = "NONE" /\ todo' = todo \ {disk}

\* A child with a protocol installed or opened is refused.
CyanfsDestroyDisk(d) ==
  IF d \in opened \/ seen'[d] # {} THEN UNCHANGED <<state, file>>
  ELSE /\ state' = [state EXCEPT ![d] = "NONE"]
       /\ file' = [file EXCEPT ![d] = None]

(***************************************************************************)
(* CyanfsMap.                                                              *)
(***************************************************************************)
Map(d, f) ==
  /\ pc = "idle" /\ driver /\ ~error
  /\ state[d] = "NONE" /\ \A e \in Disk : file[e] # f
  /\ state' = [state EXCEPT ![d] = "CREATING"]
  /\ file' = [file EXCEPT ![d] = f]
  /\ pc' = "install" /\ disk' = d
  /\ UNCHANGED <<driver, by_driver, database, seen, opened, previous, todo, super>>

\* When nothing was installed the child is destroyed, as it is before that
\* call if AppendDevicePathNode has no memory.
MapInstall(d) ==
  /\ pc = "install" /\ disk = d
  /\ \E got \in SUBSET Protocols :
       /\ Install(d, got)
       /\ IF got = {} THEN CyanfsDestroyDisk(d) /\ Return
          ELSE /\ Goto("map_recover") \/ (got = Protocols /\ Goto("open"))
               /\ UNCHANGED <<state, file>>
  /\ UNCHANGED <<driver, by_driver, by_child, opened, super>>

MapOpen(d) ==
  /\ pc = "open" /\ disk = d
  /\ \E ok \in BOOLEAN :
       /\ CyanfsOpenChildBlockIo(d, ok)
       /\ IF ok THEN state' = [state EXCEPT ![d] = "MANAGED"] /\ Return
          ELSE Goto("undo") /\ UNCHANGED state
  /\ UNCHANGED <<driver, by_driver, installed, file, seen, super>>

MapUndo(d) ==
  /\ pc = "undo" /\ disk = d
  /\ \E left \in SUBSET Protocols :
       /\ CyanfsUninstallDiskProtocols(d, left)
       /\ IF left = {} THEN CyanfsDestroyDisk(d) /\ Return
          ELSE Goto("map_recover") /\ UNCHANGED <<state, file>>
  /\ UNCHANGED <<driver, by_driver, by_child, opened, super>>

(***************************************************************************)
(* CyanfsRecoverDisk: what is missing is installed and opened again, or    *)
(* the child is left DEGRADED for a later attempt.                         *)
(***************************************************************************)
CyanfsRecoverDisk(d) ==
  IF installed[d] = {}
  THEN /\ Refresh(d) /\ UNCHANGED <<database, opened>>
       /\ state' = [state EXCEPT ![d] = "DEGRADED"]
  ELSE \E got \in SUBSET Protocols, ok \in BOOLEAN :
         /\ d \in opened => ok
         /\ CyanfsOpenChildBlockIo(d, ok)
         /\ Install(d, got)
         /\ state' = [state EXCEPT ![d] =
                        IF seen'[d] = Protocols /\ d \in opened' THEN "MANAGED" ELSE "DEGRADED"]

MapRecover(d) ==
  /\ pc = "map_recover" /\ disk = d
  /\ CyanfsRecoverDisk(d) /\ Return
  /\ UNCHANGED <<driver, by_driver, file, super>>

(***************************************************************************)
(* CyanfsDriverStop with children: CyanfsValidateChildren, then each.      *)
(***************************************************************************)
CyanfsValidateChildren(S) ==
  \A d \in S : installed[d] # {} /\ state[d] \in {"MANAGED", "DEGRADED"}

StopChildren(S) ==
  /\ pc = "idle" /\ driver /\ S # {}
  /\ CyanfsValidateChildren(S)
  /\ pc' = "stop" /\ todo' = S
  /\ UNCHANGED <<driver, by_driver, database, child, disk, previous, super>>

\* Tries the same child again.
StopFlushRetries(d) ==
  /\ pc = "stop" /\ d \in todo
  /\ \/ /\ FlushOk
        /\ pc' = "close" /\ disk' = d /\ previous' = state[d]
        /\ state' = [state EXCEPT ![d] = "STOPPING"]
        /\ UNCHANGED todo
     \/ /\ FlushFails
        /\ UNCHANGED <<todo, pc, disk, previous, state>>
  /\ UNCHANGED <<driver, by_driver, database, file, seen, opened>>

\* CyanfsStopDisk: flush, close, uninstall; a failure restores the state.
StopFlush(d) ==
  /\ pc = "stop" /\ d \in todo
  /\ \/ /\ FlushOk
        /\ pc' = "close" /\ disk' = d /\ previous' = state[d]
        /\ state' = [state EXCEPT ![d] = "STOPPING"]
        /\ UNCHANGED todo
     \/ /\ FlushFails
        /\ todo' = todo \ {d}
        /\ UNCHANGED <<pc, disk, previous, state>>
  /\ UNCHANGED <<driver, by_driver, database, file, seen, opened>>

\* A failure leaves the child STOPPING.
StopCloseForgets(d) ==
  /\ pc = "close" /\ disk = d
  /\ \E ok \in BOOLEAN :
       /\ CyanfsCloseChildBlockIo(d, ok)
       /\ IF ok THEN Goto("uninstall") ELSE Following("stop")
  /\ UNCHANGED <<driver, by_driver, installed, state, file, seen, super>>

\* The parent's BlockIo is closed for the child.
StopClose(d) ==
  /\ pc = "close" /\ disk = d
  /\ \E ok \in BOOLEAN :
       /\ CyanfsCloseChildBlockIo(d, ok)
       /\ IF ok THEN Goto("uninstall") /\ UNCHANGED state
          ELSE state' = [state EXCEPT ![d] = previous] /\ Following("stop")
  /\ UNCHANGED <<driver, by_driver, installed, file, seen, super>>

\* Frees the child although a protocol may be left.
StopUninstallFrees(d) ==
  /\ pc = "uninstall" /\ disk = d
  /\ \E left \in SUBSET installed[d] : CyanfsUninstallDiskProtocols(d, left)
  /\ state' = [state EXCEPT ![d] = "NONE"] /\ file' = [file EXCEPT ![d] = None]
  /\ Following("stop")
  /\ UNCHANGED <<driver, by_driver, by_child, opened, super>>

\* What cannot be uninstalled is put back.
StopUninstall(d) ==
  /\ pc = "uninstall" /\ disk = d
  /\ \E left \in SUBSET installed[d] :
       /\ CyanfsUninstallDiskProtocols(d, left)
       /\ IF left = {} THEN CyanfsDestroyDisk(d) /\ Following("stop")
          ELSE Goto("stop_recover") /\ UNCHANGED <<state, file>>
  /\ UNCHANGED <<driver, by_driver, by_child, opened, super>>

StopRecover(d) ==
  /\ pc = "stop_recover" /\ disk = d
  /\ CyanfsRecoverDisk(d) /\ Following("stop")
  /\ UNCHANGED <<driver, by_driver, file, super>>

(***************************************************************************)
(* CyanfsDriverStop without children, and CyanfsDriverStart.               *)
(***************************************************************************)
StopBusy ==
  /\ pc = "idle" /\ driver /\ Children # {}
  /\ pc' = "recover" /\ todo' = {d \in Disk : state[d] = "DEGRADED"}
  /\ UNCHANGED <<driver, by_driver, database, child, disk, previous, super>>

RecoverDegraded(d) ==
  /\ pc = "recover" /\ d \in todo
  /\ CyanfsRecoverDisk(d)
  /\ todo' = todo \ {d}
  /\ UNCHANGED <<driver, by_driver, file, pc, disk, previous, super>>

StopReturns ==
  /\ pc \in {"stop", "recover"} /\ todo = {}
  /\ Return
  /\ UNCHANGED <<driver, by_driver, database, child, super>>

\* Relies on the flush of each child.
DriverStopNoFlush ==
  /\ pc = "idle" /\ driver /\ Children = {}
  /\ Goto("leave")
  /\ UNCHANGED <<driver, by_driver, database, child, super>>

\* A failure to flush, or of the boot services up to the uninstallation,
\* leaves the driver as it was.
DriverStop ==
  /\ pc = "idle" /\ driver /\ Children = {}
  /\ (FlushFails /\ UNCHANGED call) \/ (FlushOk /\ Goto("leave"))
  /\ UNCHANGED <<driver, by_driver, database, child>>

DriverLeave ==
  /\ pc = "leave" /\ Return
  /\ \/ UNCHANGED <<driver, by_driver>>
     \/ driver' = FALSE /\ by_driver' \in BOOLEAN
  /\ UNCHANGED <<database, child, super>>

DriverStart ==
  /\ pc = "idle" /\ ~driver /\ ~by_driver
  /\ driver' = TRUE /\ by_driver' = TRUE
  /\ memory' = FALSE /\ error' = FALSE /\ UNCHANGED cache
  /\ UNCHANGED <<database, child, call>>

(***************************************************************************)
(* The specification.                                                      *)
(***************************************************************************)
Init ==
  /\ driver = FALSE /\ by_driver = FALSE
  /\ state = [d \in Disk |-> "NONE"] /\ file = [d \in Disk |-> None]
  /\ installed = [d \in Disk |-> {}] /\ seen = [d \in Disk |-> {}]
  /\ by_child = {} /\ opened = {}
  /\ pc = "idle" /\ disk = None /\ previous = "NONE" /\ todo = {}
  /\ memory = FALSE /\ cache = FALSE /\ error = FALSE

\* A step of the call under way.
Step(d) ==
  \/ MapInstall(d) \/ MapOpen(d) \/ MapUndo(d) \/ MapRecover(d)
  \/ StopFlush(d) \/ StopClose(d) \/ StopUninstall(d) \/ StopRecover(d)
  \/ RecoverDegraded(d)

CallStep == StopReturns \/ DriverLeave \/ \E d \in Disk : Step(d)

Next ==
  \/ CallStep
  \/ \E d \in Disk : Write(d) \/ IoFlush(d) \/ \E f \in File : Map(d, f)
  \/ \E S \in SUBSET Disk : StopChildren(S)
  \/ StopBusy \/ DriverStop \/ DriverStart \/ Metadata

Spec == Init /\ [][Next]_vars
FairSpec == Spec /\ WF_vars(CallStep)

(***************************************************************************)
(* Properties.                                                             *)
(***************************************************************************)
\* The types of the variables.
TypeOK ==
  /\ driver \in BOOLEAN /\ by_driver \in BOOLEAN
  /\ state \in [Disk -> {"NONE", "CREATING", "MANAGED", "STOPPING", "DEGRADED"}]
  /\ file \in [Disk -> File \cup {None}]
  /\ installed \in [Disk -> SUBSET Protocols] /\ seen \in [Disk -> SUBSET Protocols]
  /\ by_child \subseteq Disk /\ opened \subseteq Disk
  /\ pc \in {"idle", "install", "open", "undo", "map_recover", "stop", "close", "uninstall",
             "stop_recover", "recover", "leave", "dead"}
  /\ disk \in Disk \cup {None} /\ previous \in {"NONE", "MANAGED", "DEGRADED"}
  /\ todo \subseteq Disk
  /\ memory \in BOOLEAN /\ cache \in BOOLEAN /\ error \in BOOLEAN

\* Whatever fails, a call returns with every child either MANAGED, with both
\* protocols installed and the parent opened for it, or DEGRADED with a
\* handle by which it can still be named: CyanfsValidateChildren accepts it,
\* and the next CyanfsDriverStop can stop or repair it.
ChildrenSettled ==
  pc = "idle" =>
    \A d \in Children :
      /\ state[d] \in {"MANAGED", "DEGRADED"} /\ installed[d] # {}
      /\ state[d] = "MANAGED" => installed[d] = Protocols /\ d \in by_child

\* The handle database holds no interface of a child whose memory was freed,
\* and the parent is not open on its behalf (CyanfsDestroyDisk).
NothingDangling ==
  \A d \in Disk : state[d] = "NONE" => installed[d] = {} /\ d \notin by_child /\ file[d] = None

\* A driver that has stopped left no child behind and nothing in memory or
\* in the cache of the device, although children may be written to while
\* they are stopped (CyanfsDriverStop).
DriverStopsClean == ~driver => Children = {} /\ ~memory /\ ~cache

\* Every call returns, unless the machine has stopped.
CallsReturn == (pc # "idle") ~> (pc \in {"idle", "dead"})
===============================================================================
