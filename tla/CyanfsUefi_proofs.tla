--------------------------- MODULE CyanfsUefi_proofs ---------------------------
(***************************************************************************)
(* Proofs about CyanfsUefi, for any number of children and files.          *)
(***************************************************************************)
EXTENDS CyanfsUefi, TLAPS

Mapping == {"install", "open", "undo", "map_recover"}
Stopping == {"close", "uninstall", "stop_recover"}

\* A child no call is at work on.
Settled(d) ==
  /\ state[d] \in {"NONE", "MANAGED", "DEGRADED"}
  /\ state[d] # "NONE" => installed[d] # {}
  /\ state[d] = "MANAGED" => installed[d] = Protocols /\ d \in by_child

\* The child the call under way is at work on.
Working ==
  /\ pc \in Mapping \cup Stopping => disk \in Disk
  /\ pc \in Mapping => state[disk] = "CREATING" /\ disk \notin by_child
  /\ pc = "install" => installed[disk] = {}
  /\ pc \in {"open", "undo"} => installed[disk] = Protocols
  /\ pc \in Stopping \cup {"map_recover"} => installed[disk] # {}
  /\ pc \in Stopping => state[disk] = "STOPPING"
  /\ pc = "close" =>
       /\ previous \in {"MANAGED", "DEGRADED"}
       /\ previous = "MANAGED" => installed[disk] = Protocols /\ disk \in by_child
  /\ pc = "uninstall" => disk \notin by_child

\* The children still to be stopped or repaired.
Pending ==
  /\ pc \in Mapping \cup {"idle", "leave"} => todo = {}
  /\ \A d \in todo : state[d] # "NONE"

\* A driver that leaves, or has left.
Quiet ==
  /\ ~driver => pc = "idle"
  /\ ~driver \/ pc = "leave" => Children = {} /\ ~memory /\ ~cache

\* The flags of a child say what the handle database says.
Mirrored == seen = installed /\ opened = by_child

\* The inductive invariant.
IInv ==
  /\ TypeOK /\ Mirrored /\ NothingDangling /\ Quiet
  /\ pc # "dead" =>
       /\ Working /\ Pending
       /\ \A d \in Disk : (d = disk /\ pc \in Mapping \cup Stopping) \/ Settled(d)

\* A flush of the super, successful or not, leaves its flags Boolean.
LEMMA FlushTypes ==
  ASSUME TypeOK, FlushOk \/ FlushFails
  PROVE  memory' \in BOOLEAN /\ cache' \in BOOLEAN /\ error' \in BOOLEAN
<1>1. CASE FlushOk  BY <1>1, Zenon DEF FlushOk, TypeOK
<1>2. CASE FlushFails
  <2>1. memory \in BOOLEAN /\ cache \in BOOLEAN /\ error \in BOOLEAN  BY Zenon DEF TypeOK
  <2>2. memory' \in {memory, FALSE} /\ cache' \in {cache, TRUE} /\ error' \in {error, TRUE}
    BY <1>2, Zenon DEF FlushFails
  <2> QED  BY <2>1, <2>2, Zenon
<1> QED  BY <1>1, <1>2, Zenon

\* CyanfsRecoverDisk touches one child, which keeps a protocol by which it is
\* named and ends MANAGED only with everything in place.
LEMMA RecoverEffect ==
  ASSUME TypeOK, Mirrored, NEW e \in Disk, installed[e] # {}, CyanfsRecoverDisk(e)
  PROVE  /\ \E s \in {"MANAGED", "DEGRADED"} :
              /\ state' = [state EXCEPT ![e] = s]
              /\ s = "MANAGED" => installed'[e] = Protocols /\ e \in by_child'
         /\ installed' \in [Disk -> SUBSET Protocols] /\ installed'[e] # {}
         /\ \A d \in Disk : d # e => installed'[d] = installed[d]
         /\ by_child \subseteq by_child' /\ by_child' \subseteq by_child \cup {e}
         /\ Mirrored'
<1>1. PICK got \in SUBSET Protocols, ok \in BOOLEAN :
        /\ CyanfsOpenChildBlockIo(e, ok)
        /\ installed' = [installed EXCEPT ![e] = @ \cup got]
        /\ seen' = [seen EXCEPT ![e] = installed'[e]]
        /\ state' = [state EXCEPT ![e] =
                       IF seen'[e] = Protocols /\ e \in opened' THEN "MANAGED" ELSE "DEGRADED"]
  BY Zenon DEF CyanfsRecoverDisk, Install, Refresh
<1>2. installed \in [Disk -> SUBSET Protocols] /\ seen = installed /\ opened = by_child
  BY Zenon DEF TypeOK, Mirrored
<1>3. installed' \in [Disk -> SUBSET Protocols] /\ installed'[e] = installed[e] \cup got
  BY <1>1, <1>2, Zenon
<1>4. \A d \in Disk : d # e => installed'[d] = installed[d]
  BY <1>1, <1>2, Zenon
<1>5. seen' = installed'
  BY <1>1, <1>2, <1>3, Zenon
<1>6. opened' = by_child' /\ by_child \subseteq by_child' /\ by_child' \subseteq by_child \cup {e}
  BY <1>1, <1>2, Zenon DEF CyanfsOpenChildBlockIo
<1>7. \E s \in {"MANAGED", "DEGRADED"} :
        /\ state' = [state EXCEPT ![e] = s]
        /\ s = "MANAGED" => installed'[e] = Protocols /\ e \in by_child'
  BY <1>1, <1>5, <1>6, Zenon
<1> QED  BY <1>3, <1>4, <1>5, <1>6, <1>7, Zenon DEF Mirrored

\* CyanfsCreate and the other metadata calls leave the children alone.
LEMMA InvMetadata ==
  ASSUME IInv, Metadata
  PROVE  IInv'
<1>1. TypeOK'
  BY UefiAssumption, ZenonT(60) DEF IInv, TypeOK, Mirrored, NothingDangling, Quiet, Working,
     Pending, Settled, Children, Protocols, Mapping, Stopping, Metadata, FlushOk, call, child,
     database
<1>2. Mirrored' /\ NothingDangling' /\ Quiet'
  BY Zenon DEF IInv, TypeOK, Mirrored, NothingDangling, Quiet, Working, Pending, Settled,
     Children, Protocols, Mapping, Stopping, Metadata, FlushOk, call, child, database
<1>3. (pc # "dead" => Working /\ Pending)'
  BY Zenon DEF IInv, TypeOK, Mirrored, NothingDangling, Quiet, Working, Pending, Settled,
     Children, Protocols, Mapping, Stopping, Metadata, FlushOk, call, child, database
<1>4. (pc # "dead" => \A d \in Disk : (d = disk /\ pc \in Mapping \cup Stopping) \/ Settled(d))'
  BY Zenon DEF IInv, TypeOK, Mirrored, NothingDangling, Quiet, Working, Pending, Settled,
     Children, Protocols, Mapping, Stopping, Metadata, FlushOk, call, child, database
<1> QED  BY <1>1, <1>2, <1>3, <1>4, Zenon DEF IInv

\* CyanfsDriverStop with children, or with children left, returns.
LEMMA InvStopReturns ==
  ASSUME IInv, StopReturns
  PROVE  IInv'
<1>1. TypeOK'
  BY UefiAssumption, Zenon DEF IInv, TypeOK, Mirrored, NothingDangling, Quiet, Working, Pending,
     Settled, Children, Protocols, Mapping, Stopping, StopReturns, Return, super, child, database
<1>2. Mirrored' /\ NothingDangling' /\ Quiet'
  BY Zenon DEF IInv, TypeOK, Mirrored, NothingDangling, Quiet, Working, Pending, Settled,
     Children, Protocols, Mapping, Stopping, StopReturns, Return, super, child, database
<1>3. (pc # "dead" => Working /\ Pending)'
  BY Zenon DEF IInv, TypeOK, Mirrored, NothingDangling, Quiet, Working, Pending, Settled,
     Children, Protocols, Mapping, Stopping, StopReturns, Return, super, child, database
<1>4. (pc # "dead" => \A d \in Disk : (d = disk /\ pc \in Mapping \cup Stopping) \/ Settled(d))'
  BY DEF IInv, TypeOK, Mirrored, NothingDangling, Quiet, Working, Pending, Settled, Children,
     Protocols, Mapping, Stopping, StopReturns, Return, super, child, database
<1> QED  BY <1>1, <1>2, <1>3, <1>4 DEF IInv

\* The end of CyanfsDriverStop.
LEMMA InvDriverLeave ==
  ASSUME IInv, DriverLeave
  PROVE  IInv'
<1>1. TypeOK'
  BY UefiAssumption, Zenon DEF IInv, TypeOK, Mirrored, NothingDangling, Quiet, Working, Pending,
     Settled, Children, Protocols, Mapping, Stopping, DriverLeave, Return, super, child, database
<1>2. Mirrored' /\ NothingDangling' /\ Quiet'
  BY DEF IInv, TypeOK, Mirrored, NothingDangling, Quiet, Working, Pending, Settled, Children,
     Protocols, Mapping, Stopping, DriverLeave, Return, super, child, database
<1>3. (pc # "dead" => Working /\ Pending)'
  BY Zenon DEF IInv, TypeOK, Mirrored, NothingDangling, Quiet, Working, Pending, Settled,
     Children, Protocols, Mapping, Stopping, DriverLeave, Return, super, child, database
<1>4. (pc # "dead" => \A d \in Disk : (d = disk /\ pc \in Mapping \cup Stopping) \/ Settled(d))'
  BY Zenon DEF IInv, TypeOK, Mirrored, NothingDangling, Quiet, Working, Pending, Settled,
     Children, Protocols, Mapping, Stopping, DriverLeave, Return, super, child, database
<1> QED  BY <1>1, <1>2, <1>3, <1>4, Zenon DEF IInv

\* CyanfsDriverStop while children are left.
LEMMA InvStopBusy ==
  ASSUME IInv, StopBusy
  PROVE  IInv'
<1>1. TypeOK'
  BY UefiAssumption DEF IInv, TypeOK, Mirrored, NothingDangling, Quiet, Working, Pending, Settled,
     Children, Protocols, Mapping, Stopping, StopBusy, super, child, database
<1>2. Mirrored' /\ NothingDangling' /\ Quiet'
  BY Zenon DEF IInv, TypeOK, Mirrored, NothingDangling, Quiet, Working, Pending, Settled,
     Children, Protocols, Mapping, Stopping, StopBusy, super, child, database
<1>3. (pc # "dead" => Working /\ Pending)'
  BY Zenon DEF IInv, TypeOK, Mirrored, NothingDangling, Quiet, Working, Pending, Settled,
     Children, Protocols, Mapping, Stopping, StopBusy, super, child, database
<1>4. (pc # "dead" => \A d \in Disk : (d = disk /\ pc \in Mapping \cup Stopping) \/ Settled(d))'
  BY Zenon DEF IInv, TypeOK, Mirrored, NothingDangling, Quiet, Working, Pending, Settled,
     Children, Protocols, Mapping, Stopping, StopBusy, super, child, database
<1> QED  BY <1>1, <1>2, <1>3, <1>4 DEF IInv

\* CyanfsDriverStop without children, up to the flush.
LEMMA InvDriverStop ==
  ASSUME IInv, DriverStop
  PROVE  IInv'
<1>1. TypeOK'
  <2>1. memory' \in BOOLEAN /\ cache' \in BOOLEAN /\ error' \in BOOLEAN
    BY FlushTypes, Zenon DEF IInv, DriverStop
  <2> QED  BY <2>1, Zenon DEF IInv, TypeOK, DriverStop, Goto, call, child, database
<1>2. Mirrored' /\ NothingDangling' /\ Quiet'
  BY ZenonT(60) DEF IInv, TypeOK, Mirrored, NothingDangling, Quiet, Working, Pending, Settled,
     Children, Protocols, Mapping, Stopping, DriverStop, FlushOk, FlushFails, Goto, call, child,
     database
<1>3. (pc # "dead" => Working /\ Pending)'
  BY Zenon DEF IInv, TypeOK, Mirrored, NothingDangling, Quiet, Working, Pending, Settled,
     Children, Protocols, Mapping, Stopping, DriverStop, FlushOk, FlushFails, Goto, call, child,
     database
<1>4. (pc # "dead" => \A d \in Disk : (d = disk /\ pc \in Mapping \cup Stopping) \/ Settled(d))'
  BY Zenon DEF IInv, TypeOK, Mirrored, NothingDangling, Quiet, Working, Pending, Settled,
     Children, Protocols, Mapping, Stopping, DriverStop, FlushOk, FlushFails, Goto, call, child,
     database
<1> QED  BY <1>1, <1>2, <1>3, <1>4 DEF IInv

\* CyanfsDriverStart.
LEMMA InvDriverStart ==
  ASSUME IInv, DriverStart
  PROVE  IInv'
<1>1. TypeOK'
  BY UefiAssumption, Zenon DEF IInv, TypeOK, Mirrored, NothingDangling, Quiet, Working, Pending,
     Settled, Children, Protocols, Mapping, Stopping, DriverStart, call, child, database
<1>2. Mirrored' /\ NothingDangling' /\ Quiet'
  BY Zenon DEF IInv, TypeOK, Mirrored, NothingDangling, Quiet, Working, Pending, Settled,
     Children, Protocols, Mapping, Stopping, DriverStart, call, child, database
<1>3. (pc # "dead" => Working /\ Pending)'
  BY Zenon DEF IInv, TypeOK, Mirrored, NothingDangling, Quiet, Working, Pending, Settled,
     Children, Protocols, Mapping, Stopping, DriverStart, call, child, database
<1>4. (pc # "dead" => \A d \in Disk : (d = disk /\ pc \in Mapping \cup Stopping) \/ Settled(d))'
  BY Zenon DEF IInv, TypeOK, Mirrored, NothingDangling, Quiet, Working, Pending, Settled,
     Children, Protocols, Mapping, Stopping, DriverStart, call, child, database
<1> QED  BY <1>1, <1>2, <1>3, <1>4 DEF IInv

\* CyanfsIoWrite, also when the machine stops.
LEMMA InvWrite ==
  ASSUME IInv, NEW e \in Disk, Write(e)
  PROVE  IInv'
<1>1. TypeOK'
  <2>1. memory' \in BOOLEAN /\ cache' \in BOOLEAN /\ error' \in BOOLEAN
    BY Zenon DEF IInv, TypeOK, Write, super
  <2> QED  BY <2>1 DEF IInv, TypeOK, Write, call, child, database
<1>2. Mirrored' /\ NothingDangling' /\ Quiet'
  BY Zenon DEF IInv, TypeOK, Mirrored, NothingDangling, Quiet, Working, Pending, Settled,
     Children, Protocols, Mapping, Stopping, Write, super, call, child, database
<1>3. (pc # "dead" => Working /\ Pending)'
  BY DEF IInv, TypeOK, Mirrored, NothingDangling, Quiet, Working, Pending, Settled, Children,
     Protocols, Mapping, Stopping, Write, super, call, child, database
<1>4. (pc # "dead" => \A d \in Disk : (d = disk /\ pc \in Mapping \cup Stopping) \/ Settled(d))'
  BY DEF IInv, TypeOK, Mirrored, NothingDangling, Quiet, Working, Pending, Settled, Children,
     Protocols, Mapping, Stopping, Write, super, call, child, database
<1> QED  BY <1>1, <1>2, <1>3, <1>4, Zenon DEF IInv

\* CyanfsIoFlush.
LEMMA InvIoFlush ==
  ASSUME IInv, NEW e \in Disk, IoFlush(e)
  PROVE  IInv'
<1>1. TypeOK'
  <2>1. memory' \in BOOLEAN /\ cache' \in BOOLEAN /\ error' \in BOOLEAN
    BY FlushTypes, Zenon DEF IInv, IoFlush
  <2> QED  BY <2>1 DEF IInv, TypeOK, IoFlush, call, child, database
<1>2. Mirrored' /\ NothingDangling' /\ Quiet'
  BY Zenon DEF IInv, TypeOK, Mirrored, NothingDangling, Quiet, Working, Pending, Settled,
     Children, Protocols, Mapping, Stopping, IoFlush, FlushOk, FlushFails, call, child, database
<1>3. (pc # "dead" => Working /\ Pending)'
  BY Zenon DEF IInv, TypeOK, Mirrored, NothingDangling, Quiet, Working, Pending, Settled,
     Children, Protocols, Mapping, Stopping, IoFlush, FlushOk, FlushFails, call, child, database
<1>4. (pc # "dead" => \A d \in Disk : (d = disk /\ pc \in Mapping \cup Stopping) \/ Settled(d))'
  BY Zenon DEF IInv, TypeOK, Mirrored, NothingDangling, Quiet, Working, Pending, Settled,
     Children, Protocols, Mapping, Stopping, IoFlush, FlushOk, FlushFails, call, child, database
<1> QED  BY <1>1, <1>2, <1>3, <1>4 DEF IInv

\* CyanfsMap makes a child.
LEMMA InvMap ==
  ASSUME IInv, NEW e \in Disk, NEW f \in File, Map(e, f)
  PROVE  IInv'
<1>1. TypeOK'
  BY UefiAssumption, Zenon DEF IInv, TypeOK, Mirrored, NothingDangling, Quiet, Working, Pending,
     Settled, Children, Protocols, Mapping, Stopping, Map, super, database
<1>2. Mirrored' /\ NothingDangling' /\ Quiet'
  BY SMTT(60) DEF IInv, TypeOK, Mirrored, NothingDangling, Quiet, Working, Pending, Settled,
     Children, Protocols, Mapping, Stopping, Map, super, database
<1>3. (pc # "dead" => Working /\ Pending)'
  BY SMTT(60) DEF IInv, TypeOK, Mirrored, NothingDangling, Quiet, Working, Pending, Settled,
     Children, Protocols, Mapping, Stopping, Map, super, database
<1>4. (pc # "dead" => \A d \in Disk : (d = disk /\ pc \in Mapping \cup Stopping) \/ Settled(d))'
  BY SMTT(60) DEF IInv, TypeOK, Mirrored, NothingDangling, Quiet, Working, Pending, Settled,
     Children, Protocols, Mapping, Stopping, Map, super, database
<1> QED  BY <1>1, <1>2, <1>3, <1>4, Zenon DEF IInv

\* CyanfsMap installs the protocols, all, some or none.
LEMMA InvMapInstall ==
  ASSUME IInv, NEW e \in Disk, MapInstall(e)
  PROVE  IInv'
<1>1. TypeOK'
  <2>1. installed' \in [Disk -> SUBSET Protocols] /\ seen' \in [Disk -> SUBSET Protocols]
    BY SMTT(60) DEF IInv, TypeOK, MapInstall, Install, Refresh, CyanfsDestroyDisk, Return, Goto
  <2> QED  BY <2>1, SMTT(60) DEF IInv, TypeOK, Working, Mapping, Stopping, Protocols, MapInstall,
              Install, Refresh, CyanfsDestroyDisk, Return, Goto, super
<1>2. Mirrored' /\ NothingDangling' /\ Quiet'
  BY SMTT(60) DEF IInv, TypeOK, Mirrored, NothingDangling, Quiet, Working, Pending, Settled,
     Children, Protocols, Mapping, Stopping, MapInstall, Install, Refresh, CyanfsDestroyDisk,
     Return, Goto, super
<1>3. (pc # "dead" => Working /\ Pending)'
  BY SMTT(60) DEF IInv, TypeOK, Mirrored, NothingDangling, Quiet, Working, Pending, Settled,
     Children, Protocols, Mapping, Stopping, MapInstall, Install, Refresh, CyanfsDestroyDisk,
     Return, Goto, super
<1>4. (pc # "dead" => \A d \in Disk : (d = disk /\ pc \in Mapping \cup Stopping) \/ Settled(d))'
  <2>1. \A d \in Disk : d # e => state'[d] = state[d] /\ installed'[d] = installed[d]
    BY SMTT(60) DEF IInv, TypeOK, MapInstall, Install, CyanfsDestroyDisk
  <2>2. (disk' = e /\ pc' \in Mapping) \/ state'[e] = "NONE"
    BY DEF IInv, TypeOK, Mirrored, Working, Mapping, MapInstall, Install, Refresh,
       CyanfsDestroyDisk, Return, Goto
  <2>3. by_child' = by_child /\ disk = e /\ pc = "install"
    BY Zenon DEF MapInstall
  <2> QED  BY <2>1, <2>2, <2>3, SMTT(60) DEF IInv, Settled
<1> QED  BY <1>1, <1>2, <1>3, <1>4 DEF IInv

\* CyanfsMap opens the parent for the child.
LEMMA InvMapOpen ==
  ASSUME IInv, NEW e \in Disk, MapOpen(e)
  PROVE  IInv'
<1>1. TypeOK'
  BY UefiAssumption, SMTT(60) DEF IInv, TypeOK, Mirrored, NothingDangling, Quiet, Working,
     Pending, Settled, Children, Protocols, Mapping, Stopping, MapOpen, CyanfsOpenChildBlockIo,
     Return, Goto, super
<1>2. Mirrored' /\ NothingDangling' /\ Quiet'
  BY SMTT(60) DEF IInv, TypeOK, Mirrored, NothingDangling, Quiet, Working, Pending, Settled,
     Children, Protocols, Mapping, Stopping, MapOpen, CyanfsOpenChildBlockIo, Return, Goto, super
<1>3. (pc # "dead" => Working /\ Pending)'
  BY SMTT(60) DEF IInv, TypeOK, Mirrored, NothingDangling, Quiet, Working, Pending, Settled,
     Children, Protocols, Mapping, Stopping, MapOpen, CyanfsOpenChildBlockIo, Return, Goto, super
<1>4. (pc # "dead" => \A d \in Disk : (d = disk /\ pc \in Mapping \cup Stopping) \/ Settled(d))'
  BY SMTT(60) DEF IInv, TypeOK, Mirrored, NothingDangling, Quiet, Working, Pending, Settled,
     Children, Protocols, Mapping, Stopping, MapOpen, CyanfsOpenChildBlockIo, Return, Goto, super
<1> QED  BY <1>1, <1>2, <1>3, <1>4, Zenon DEF IInv

\* CyanfsMap takes the protocols back.
LEMMA InvMapUndo ==
  ASSUME IInv, NEW e \in Disk, MapUndo(e)
  PROVE  IInv'
<1>1. TypeOK'
  BY UefiAssumption, SMTT(60) DEF IInv, TypeOK, Mirrored, NothingDangling, Quiet, Working,
     Pending, Settled, Children, Protocols, Mapping, Stopping, MapUndo,
     CyanfsUninstallDiskProtocols, Refresh, CyanfsDestroyDisk, Return, Goto, super
<1>2. Mirrored' /\ NothingDangling' /\ Quiet'
  BY SMTT(60) DEF IInv, TypeOK, Mirrored, NothingDangling, Quiet, Working, Pending, Settled,
     Children, Protocols, Mapping, Stopping, MapUndo, CyanfsUninstallDiskProtocols, Refresh,
     CyanfsDestroyDisk, Return, Goto, super
<1>3. (pc # "dead" => Working /\ Pending)'
  BY SMTT(60) DEF IInv, TypeOK, Mirrored, NothingDangling, Quiet, Working, Pending, Settled,
     Children, Protocols, Mapping, Stopping, MapUndo, CyanfsUninstallDiskProtocols, Refresh,
     CyanfsDestroyDisk, Return, Goto, super
<1>4. (pc # "dead" => \A d \in Disk : (d = disk /\ pc \in Mapping \cup Stopping) \/ Settled(d))'
  BY DEF IInv, TypeOK, Mirrored, NothingDangling, Quiet, Working, Pending, Settled, Children,
     Protocols, Mapping, Stopping, MapUndo, CyanfsUninstallDiskProtocols, Refresh,
     CyanfsDestroyDisk, Return, Goto, super
<1> QED  BY <1>1, <1>2, <1>3, <1>4 DEF IInv

\* CyanfsMap repairs the child.
LEMMA InvMapRecover ==
  ASSUME IInv, NEW e \in Disk, MapRecover(e)
  PROVE  IInv'
<1>a. TypeOK /\ Mirrored /\ installed[e] # {} /\ CyanfsRecoverDisk(e)
  BY Zenon DEF IInv, Working, Mapping, Stopping, MapRecover
<1>b. PICK s \in {"MANAGED", "DEGRADED"} :
        /\ state' = [state EXCEPT ![e] = s]
        /\ s = "MANAGED" => installed'[e] = Protocols /\ e \in by_child'
  BY <1>a, RecoverEffect, Zenon
<1>c. /\ installed' \in [Disk -> SUBSET Protocols] /\ installed'[e] # {}
      /\ \A d \in Disk : d # e => installed'[d] = installed[d]
      /\ by_child \subseteq by_child' /\ by_child' \subseteq by_child \cup {e}
      /\ Mirrored'
  BY <1>a, RecoverEffect, Zenon
<1>1. TypeOK'
  BY <1>b, <1>c, ZenonT(60) DEF IInv, TypeOK, Mirrored, MapRecover, Return, super
<1>2. Mirrored' /\ NothingDangling' /\ Quiet'
  BY <1>b, <1>c DEF IInv, TypeOK, Mirrored, NothingDangling, Quiet, Working, Pending, Settled,
     Children, Protocols, Mapping, Stopping, MapRecover, Return, super
<1>3. (pc # "dead" => Working /\ Pending)'
  BY <1>b, <1>c, Zenon DEF IInv, TypeOK, Mirrored, NothingDangling, Quiet, Working, Pending,
     Settled, Children, Protocols, Mapping, Stopping, MapRecover, Return, super
<1>4. (pc # "dead" => \A d \in Disk : (d = disk /\ pc \in Mapping \cup Stopping) \/ Settled(d))'
  BY <1>b, <1>c DEF IInv, TypeOK, Mirrored, NothingDangling, Quiet, Working, Pending, Settled,
     Children, Protocols, Mapping, Stopping, MapRecover, Return, super
<1> QED  BY <1>1, <1>2, <1>3, <1>4, Zenon DEF IInv

\* CyanfsStopChildren begins.
LEMMA InvStopChildren ==
  ASSUME IInv, NEW S \in SUBSET Disk, StopChildren(S)
  PROVE  IInv'
<1>1. TypeOK'
  BY UefiAssumption DEF IInv, TypeOK, Mirrored, NothingDangling, Quiet, Working, Pending, Settled,
     Children, Protocols, Mapping, Stopping, StopChildren, CyanfsValidateChildren, super, child,
     database
<1>2. Mirrored' /\ NothingDangling' /\ Quiet'
  BY Zenon DEF IInv, TypeOK, Mirrored, NothingDangling, Quiet, Working, Pending, Settled,
     Children, Protocols, Mapping, Stopping, StopChildren, CyanfsValidateChildren, super, child,
     database
<1>3. (pc # "dead" => Working /\ Pending)'
  BY Zenon DEF IInv, TypeOK, Mirrored, NothingDangling, Quiet, Working, Pending, Settled,
     Children, Protocols, Mapping, Stopping, StopChildren, CyanfsValidateChildren, super, child,
     database
<1>4. (pc # "dead" => \A d \in Disk : (d = disk /\ pc \in Mapping \cup Stopping) \/ Settled(d))'
  BY Zenon DEF IInv, TypeOK, Mirrored, NothingDangling, Quiet, Working, Pending, Settled,
     Children, Protocols, Mapping, Stopping, StopChildren, CyanfsValidateChildren, super, child,
     database
<1> QED  BY <1>1, <1>2, <1>3, <1>4, Zenon DEF IInv

\* CyanfsStopDisk flushes.
LEMMA InvStopFlush ==
  ASSUME IInv, NEW e \in Disk, StopFlush(e)
  PROVE  IInv'
<1>1. TypeOK'
  <2>1. memory' \in BOOLEAN /\ cache' \in BOOLEAN /\ error' \in BOOLEAN
    BY FlushTypes, Zenon DEF IInv, StopFlush
  <2>2. state[e] \in {"MANAGED", "DEGRADED"}
    BY Zenon DEF IInv, TypeOK, Pending, Settled, Mapping, Stopping, StopFlush
  <2> QED  BY <2>1, <2>2, Zenon DEF IInv, TypeOK, StopFlush, database
<1>2. Mirrored' /\ NothingDangling' /\ Quiet'
  BY DEF IInv, TypeOK, Mirrored, NothingDangling, Quiet, Working, Pending, Settled, Children,
     Protocols, Mapping, Stopping, StopFlush, database
<1>3. (pc # "dead" => Working /\ Pending)'
  BY DEF IInv, TypeOK, Mirrored, NothingDangling, Quiet, Working, Pending, Settled, Children,
     Protocols, Mapping, Stopping, StopFlush, database
<1>4. (pc # "dead" => \A d \in Disk : (d = disk /\ pc \in Mapping \cup Stopping) \/ Settled(d))'
  BY SMTT(60) DEF IInv, TypeOK, Mirrored, NothingDangling, Quiet, Working, Pending, Settled,
     Children, Protocols, Mapping, Stopping, StopFlush, database
<1> QED  BY <1>1, <1>2, <1>3, <1>4, Zenon DEF IInv

\* CyanfsStopDisk closes the parent.
LEMMA InvStopClose ==
  ASSUME IInv, NEW e \in Disk, StopClose(e)
  PROVE  IInv'
<1>1. TypeOK'
  BY UefiAssumption, SMTT(60) DEF IInv, TypeOK, Mirrored, NothingDangling, Quiet, Working,
     Pending, Settled, Children, Protocols, Mapping, Stopping, StopClose, CyanfsCloseChildBlockIo,
     Goto, Following, super
<1>2. Mirrored' /\ NothingDangling' /\ Quiet'
  BY SMTT(60) DEF IInv, TypeOK, Mirrored, NothingDangling, Quiet, Working, Pending, Settled,
     Children, Protocols, Mapping, Stopping, StopClose, CyanfsCloseChildBlockIo, Goto, Following,
     super
<1>3. (pc # "dead" => Working /\ Pending)'
  BY SMTT(60) DEF IInv, TypeOK, Mirrored, NothingDangling, Quiet, Working, Pending, Settled,
     Children, Protocols, Mapping, Stopping, StopClose, CyanfsCloseChildBlockIo, Goto, Following,
     super
<1>4. (pc # "dead" => \A d \in Disk : (d = disk /\ pc \in Mapping \cup Stopping) \/ Settled(d))'
  BY SMTT(60) DEF IInv, TypeOK, Mirrored, NothingDangling, Quiet, Working, Pending, Settled,
     Children, Protocols, Mapping, Stopping, StopClose, CyanfsCloseChildBlockIo, Goto, Following,
     super
<1> QED  BY <1>1, <1>2, <1>3, <1>4 DEF IInv

\* CyanfsStopDisk uninstalls.
LEMMA InvStopUninstall ==
  ASSUME IInv, NEW e \in Disk, StopUninstall(e)
  PROVE  IInv'
<1>1. TypeOK'
  BY UefiAssumption, SMTT(60) DEF IInv, TypeOK, Mirrored, NothingDangling, Quiet, Working,
     Pending, Settled, Children, Protocols, Mapping, Stopping, StopUninstall,
     CyanfsUninstallDiskProtocols, Refresh, CyanfsDestroyDisk, Goto, Following, super
<1>2. Mirrored' /\ NothingDangling' /\ Quiet'
  BY SMTT(60) DEF IInv, TypeOK, Mirrored, NothingDangling, Quiet, Working, Pending, Settled,
     Children, Protocols, Mapping, Stopping, StopUninstall, CyanfsUninstallDiskProtocols, Refresh,
     CyanfsDestroyDisk, Goto, Following, super
<1>3. (pc # "dead" => Working /\ Pending)'
  BY SMTT(60) DEF IInv, TypeOK, Mirrored, NothingDangling, Quiet, Working, Pending, Settled,
     Children, Protocols, Mapping, Stopping, StopUninstall, CyanfsUninstallDiskProtocols, Refresh,
     CyanfsDestroyDisk, Goto, Following, super
<1>4. (pc # "dead" => \A d \in Disk : (d = disk /\ pc \in Mapping \cup Stopping) \/ Settled(d))'
  BY DEF IInv, TypeOK, Mirrored, NothingDangling, Quiet, Working, Pending, Settled, Children,
     Protocols, Mapping, Stopping, StopUninstall, CyanfsUninstallDiskProtocols, Refresh,
     CyanfsDestroyDisk, Goto, Following, super
<1> QED  BY <1>1, <1>2, <1>3, <1>4 DEF IInv

\* CyanfsStopDisk repairs the child.
LEMMA InvStopRecover ==
  ASSUME IInv, NEW e \in Disk, StopRecover(e)
  PROVE  IInv'
<1>a. TypeOK /\ Mirrored /\ installed[e] # {} /\ CyanfsRecoverDisk(e)
  BY Zenon DEF IInv, Working, Mapping, Stopping, StopRecover
<1>b. PICK s \in {"MANAGED", "DEGRADED"} :
        /\ state' = [state EXCEPT ![e] = s]
        /\ s = "MANAGED" => installed'[e] = Protocols /\ e \in by_child'
  BY <1>a, RecoverEffect, Zenon
<1>c. /\ installed' \in [Disk -> SUBSET Protocols] /\ installed'[e] # {}
      /\ \A d \in Disk : d # e => installed'[d] = installed[d]
      /\ by_child \subseteq by_child' /\ by_child' \subseteq by_child \cup {e}
      /\ Mirrored'
  BY <1>a, RecoverEffect, Zenon
<1>1. TypeOK'
  BY <1>b, <1>c, ZenonT(60) DEF IInv, TypeOK, Mirrored, StopRecover, Following, super
<1>2. Mirrored' /\ NothingDangling' /\ Quiet'
  BY <1>b, <1>c DEF IInv, TypeOK, Mirrored, NothingDangling, Quiet, Working, Pending, Settled,
     Children, Protocols, Mapping, Stopping, StopRecover, Following, super
<1>3. (pc # "dead" => Working /\ Pending)'
  BY <1>b, <1>c DEF IInv, TypeOK, Mirrored, NothingDangling, Quiet, Working, Pending, Settled,
     Children, Protocols, Mapping, Stopping, StopRecover, Following, super
<1>4. (pc # "dead" => \A d \in Disk : (d = disk /\ pc \in Mapping \cup Stopping) \/ Settled(d))'
  BY <1>b, <1>c DEF IInv, TypeOK, Mirrored, NothingDangling, Quiet, Working, Pending, Settled,
     Children, Protocols, Mapping, Stopping, StopRecover, Following, super
<1> QED  BY <1>1, <1>2, <1>3, <1>4, Zenon DEF IInv

\* CyanfsRecoverDegradedChildren repairs a child.
LEMMA InvRecoverDegraded ==
  ASSUME IInv, NEW e \in Disk, RecoverDegraded(e)
  PROVE  IInv'
<1>a. TypeOK /\ Mirrored /\ installed[e] # {} /\ CyanfsRecoverDisk(e)
  BY Zenon DEF IInv, Pending, Settled, Mapping, Stopping, RecoverDegraded
<1>b. PICK s \in {"MANAGED", "DEGRADED"} :
        /\ state' = [state EXCEPT ![e] = s]
        /\ s = "MANAGED" => installed'[e] = Protocols /\ e \in by_child'
  BY <1>a, RecoverEffect, Zenon
<1>c. /\ installed' \in [Disk -> SUBSET Protocols] /\ installed'[e] # {}
      /\ \A d \in Disk : d # e => installed'[d] = installed[d]
      /\ by_child \subseteq by_child' /\ by_child' \subseteq by_child \cup {e}
      /\ Mirrored'
  BY <1>a, RecoverEffect, Zenon
<1>1. TypeOK'
  BY <1>b, <1>c, ZenonT(60) DEF IInv, TypeOK, Mirrored, RecoverDegraded, super
<1>2. Mirrored' /\ NothingDangling' /\ Quiet'
  BY <1>b, <1>c DEF IInv, TypeOK, Mirrored, NothingDangling, Quiet, Working, Pending, Settled,
     Children, Protocols, Mapping, Stopping, RecoverDegraded, super
<1>3. (pc # "dead" => Working /\ Pending)'
  BY <1>b, <1>c, Zenon DEF IInv, TypeOK, Mirrored, NothingDangling, Quiet, Working, Pending,
     Settled, Children, Protocols, Mapping, Stopping, RecoverDegraded, super
<1>4. (pc # "dead" => \A d \in Disk : (d = disk /\ pc \in Mapping \cup Stopping) \/ Settled(d))'
  BY <1>b, <1>c DEF IInv, TypeOK, Mirrored, NothingDangling, Quiet, Working, Pending, Settled,
     Children, Protocols, Mapping, Stopping, RecoverDegraded, super
<1> QED  BY <1>1, <1>2, <1>3, <1>4, Zenon DEF IInv

\* The initial state.
LEMMA InvInit == Init => IInv
  BY Zenon DEF Init, IInv, TypeOK, Mirrored, NothingDangling, Quiet, Working, Pending, Settled,
     Children, Protocols, Mapping, Stopping

\* Every step preserves the invariant.
LEMMA InvNext == IInv /\ [Next]_vars => IInv'
<1> SUFFICES ASSUME IInv, [Next]_vars PROVE IInv'
  BY Zenon
<1>1. CASE UNCHANGED vars
  BY <1>1 DEF vars, call, super, child, database, IInv, TypeOK, Mirrored, NothingDangling, Quiet,
     Working, Pending, Settled, Children
<1>2. CASE CallStep
  BY <1>2, InvStopReturns, InvDriverLeave, InvMapInstall, InvMapOpen, InvMapUndo, InvMapRecover,
     InvStopFlush, InvStopClose, InvStopUninstall, InvStopRecover, InvRecoverDegraded , Zenon DEF
     CallStep, Step
<1>3. CASE \E d \in Disk : Write(d) \/ IoFlush(d) \/ \E f \in File : Map(d, f)
  BY <1>3, InvWrite, InvIoFlush, InvMap, Zenon
<1>4. CASE \E S \in SUBSET Disk : StopChildren(S)
  BY <1>4, InvStopChildren, Zenon
<1>5. CASE StopBusy \/ DriverStop \/ DriverStart \/ Metadata
  BY <1>5, InvStopBusy, InvDriverStop, InvDriverStart, InvMetadata, Zenon
<1> QED  BY <1>1, <1>2, <1>3, <1>4, <1>5, Zenon DEF Next

\* The inductive invariant holds in every state, whatever boot service or
\* request to the disk fails.
THEOREM Invariance == Spec => []IInv
  BY InvInit, InvNext, PTL DEF Spec

\* A call returns with every child MANAGED and complete, or DEGRADED and
\* still to be named by a handle (CyanfsMap, CyanfsDriverStop).
THEOREM Settles == Spec => []ChildrenSettled
<1>1. IInv => ChildrenSettled
  BY Zenon DEF IInv, ChildrenSettled, Settled, Children, Mapping, Stopping
<1> QED  BY <1>1, Invariance, PTL

\* The handle database never points to a child that was freed
\* (CyanfsDestroyDisk).
THEOREM NeverDangles == Spec => []NothingDangling
<1>1. IInv => NothingDangling  BY Zenon DEF IInv
<1> QED  BY <1>1, Invariance, PTL

\* A driver that has stopped left nothing behind, in the handle database, in
\* memory or in the cache of the disk (CyanfsDriverStop).
THEOREM StopsClean == Spec => []DriverStopsClean
<1>1. IInv => DriverStopsClean  BY Zenon DEF IInv, Quiet, DriverStopsClean
<1> QED  BY <1>1, Invariance, PTL
===============================================================================
