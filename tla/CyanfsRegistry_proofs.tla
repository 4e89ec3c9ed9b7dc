----------------------- MODULE CyanfsRegistry_proofs -----------------------
(***************************************************************************)
(* The registry of the Linux driver, for any number of devices, files,     *)
(* backends, disks, descriptors and openers: what a reference protects     *)
(* stays alive as long as the reference is held, and a reference is taken  *)
(* from its holder by none but an opener that came after the last put.     *)
(***************************************************************************)
EXTENDS CyanfsRegistry, WellFoundedInduction, TLAPS

-----------------------------------------------------------------------------
(* The inductive invariant.                                                *)

\* The exclusive open of the device lasts as long as the backend.
ClaimInv ==
  \A b \in Backend : bstate[b] # "none" => bdev[b] \in Dev /\ claim[bdev[b]] = b

\* The tree of mounted backends holds exactly the live ones with a reference
\* of the ctl.
MountInv ==
  /\ \A dev \in Dev : backend_rb[dev] # None =>
       /\ bstate[backend_rb[dev]] = "live" /\ bdev[backend_rb[dev]] = dev
       /\ "ctl" \in bref[backend_rb[dev]]
  /\ \A b \in Backend : bstate[b] = "live" /\ "ctl" \in bref[b] => backend_rb[bdev[b]] = b

\* A disk holds a live backend from its allocation to its end.
DiskInv ==
  \A d \in Disk : dstate[d] # "none" =>
    /\ dbackend[d] \in Backend /\ dfile[d] \in File
    /\ bstate[dbackend[d]] = "live" /\ d \in bref[dbackend[d]]

\* A descriptor holds a live backend while it is bound.
CtlInv ==
  \A c \in Ctl : cstate[c] # "unbound" =>
    /\ cbackend[c] \in Backend /\ cfile[c] \in File
    /\ bstate[cbackend[c]] = "live" /\ c \in bref[cbackend[c]]

\* Who holds a disk in each part of its life; an ioctl that allocates one
\* holds the lock, so its backend stays mounted.
RefInv ==
  \A d \in Disk :
    /\ dstate[d] \in {"none", "dying", "deleted", "closed"} => dref[d] = {}
    /\ dstate[d] \in {"idr", "opened"} =>
         /\ dref[d] = {"configfs"} \/ dref[d] = {"ctl"}
         /\ "ctl" \in dref[d] => lock = d /\ backend_rb[bdev[dbackend[d]]] = dbackend[d]

\* The type of what is known of the openers.
OpenerType ==
  /\ hold \in [Opener -> Disk \cup {None}]
  /\ late \subseteq Opener /\ stale \subseteq Opener /\ io \subseteq Opener
  /\ stolen \in BOOLEAN

\* Openers in time are counted.
OpenInv == \A o \in Opener : hold[o] # None /\ o \notin late => o \in dref[hold[o]]

\* What the tree of disks holds.
MapInv ==
  \A k \in Key : block_device_rb[k] # None =>
    /\ dstate[block_device_rb[k]] = "live" /\ "ctl" \in dref[block_device_rb[k]]
    /\ dfile[block_device_rb[k]] = k[2]
    /\ backend_rb[k[1]] # None /\ dbackend[block_device_rb[k]] = backend_rb[k[1]]

\* A disk that can be written is found by its file.
FoundInv ==
  \A d \in Disk : dstate[d] = "live" /\ "ctl" \in dref[d] /\ dwrite[d] =>
    block_device_rb[<<bdev[dbackend[d]], dfile[d]>>] = d

\* The handles open on a file, and what the file's counts say of them.
DiskHandle(b, f) == {d \in Disk : HasFile(d) /\ dbackend[d] = b /\ dfile[d] = f}
CtlHandle(b, f) == {c \in Ctl : cstate[c] = "bound" /\ cbackend[c] = b /\ cfile[c] = f}
Handle(b, f) == DiskHandle(b, f) \cup CtlHandle(b, f)
Counted(type, handles, readers) ==
  \/ type = "closed" /\ handles = {} /\ readers = {}
  \/ type = "readonly" /\ handles # {} /\ readers = handles
  \/ type = "readwrite" /\ readers = {} /\ \E h : handles = {h}
FileInv ==
  \A b \in Backend, f \in File :
    /\ Counted(open_type[b][f], Handle(b, f), reader[b][f])
    /\ \A d \in DiskHandle(b, f) : dwrite[d] <=> open_type[b][f] = "readwrite"

\* A listing has its unreported disks ahead of it.
AllAhead == IF cursor = None THEN due = {} ELSE \A k \in due : Before(cursor, k)
ListInv ==
  /\ due \subseteq Mapped
  /\ AllAhead

IInv ==
  /\ TypeOK /\ ClaimInv /\ MountInv /\ DiskInv /\ CtlInv /\ RefInv /\ OpenInv
  /\ MapInv /\ FoundInv /\ FileInv /\ ListInv

-----------------------------------------------------------------------------
(* What the steps have in common.                                          *)

\* The kinds of things are distinct.
LEMMA Distinct ==
  /\ None \notin Backend /\ None \notin Disk /\ None \notin Dev /\ None \notin File /\ None \notin Id
  /\ "ctl" \in Kind /\ "configfs" \in Kind
  /\ \A d \in Disk : d \notin Kind /\ d \notin Ctl /\ d \notin Backend
  /\ \A c \in Ctl : c \notin Kind /\ c \notin Disk
  /\ \A o \in Opener : o \notin Kind
BY RegistryAssumption, Zenon DEF Kind

\* What the trees hold are disks and backends.
LEMMA InTrees ==
  TypeOK => /\ \A k \in Key : block_device_rb[k] # None => block_device_rb[k] \in Disk
            /\ \A e \in Dev : backend_rb[e] # None => backend_rb[e] \in Backend
<1> SUFFICES ASSUME TypeOK
    PROVE  /\ \A k \in Key : block_device_rb[k] # None => block_device_rb[k] \in Disk
           /\ \A e \in Dev : backend_rb[e] # None => backend_rb[e] \in Backend
  BY Zenon
<1>1. block_device_rb \in [Key -> Disk \cup {None}] /\ backend_rb \in [Dev -> Backend \cup {None}]
  BY Zenon DEF TypeOK
<1> QED BY <1>1, Zenon

\* The tree of disks stays right when the disks that stay in it do.
LEMMA MapKept ==
  ASSUME TypeOK, MapInv, UNCHANGED backend_rb,
         \A k \in Key : block_device_rb'[k] # None => block_device_rb'[k] = block_device_rb[k],
         \A k \in Key, e \in Disk : block_device_rb'[k] = e /\ dstate[e] = "live" /\ "ctl" \in dref[e] =>
           /\ dstate'[e] = "live" /\ "ctl" \in dref'[e]
           /\ dfile'[e] = dfile[e] /\ dbackend'[e] = dbackend[e]
  PROVE  MapInv'
<1>1. SUFFICES ASSUME NEW k \in Key, block_device_rb'[k] # None
      PROVE  /\ dstate'[block_device_rb'[k]] = "live" /\ "ctl" \in dref'[block_device_rb'[k]]
             /\ dfile'[block_device_rb'[k]] = k[2]
             /\ backend_rb'[k[1]] # None /\ dbackend'[block_device_rb'[k]] = backend_rb'[k[1]]
  BY Zenon DEF MapInv
<1>2. PICK e \in Disk : e = block_device_rb[k] /\ e = block_device_rb'[k]
  BY <1>1, InTrees, Zenon
<1>3. /\ dstate[e] = "live" /\ "ctl" \in dref[e] /\ dfile[e] = k[2]
      /\ backend_rb[k[1]] # None /\ dbackend[e] = backend_rb[k[1]]
  BY <1>1, <1>2, ZenonT(60) DEF MapInv
<1>4. /\ dstate'[e] = "live" /\ "ctl" \in dref'[e] /\ dfile'[e] = k[2]
      /\ dbackend'[e] = backend_rb'[k[1]] /\ backend_rb'[k[1]] # None
  BY <1>2, <1>3, Zenon
<1> QED BY <1>2, <1>4, Zenon

\* Each part of the invariant holds on when what it reads is left alone.
LEMMA Frame ==
  /\ ClaimInv /\ UNCHANGED <<claim, bstate, bdev>> => ClaimInv'
  /\ MountInv /\ UNCHANGED <<backend_rb, bstate, bdev, bref>> => MountInv'
  /\ DiskInv /\ UNCHANGED <<dstate, dbackend, dfile, bstate, bref>> => DiskInv'
  /\ CtlInv /\ UNCHANGED <<cstate, cbackend, cfile, bstate, bref>> => CtlInv'
  /\ RefInv /\ UNCHANGED <<dstate, dref, lock, backend_rb, bdev, dbackend>> => RefInv'
  /\ OpenInv /\ UNCHANGED <<hold, late, dref>> => OpenInv'
  /\ MapInv /\ UNCHANGED <<block_device_rb, dstate, dref, dfile, backend_rb, dbackend>> => MapInv'
  /\ FoundInv /\ UNCHANGED <<block_device_rb, dstate, dref, dwrite, bdev, dbackend, dfile>> => FoundInv'
  /\ ListInv /\ UNCHANGED <<cursor, due, block_device_rb>> => ListInv'
<1>1. ClaimInv /\ UNCHANGED <<claim, bstate, bdev>> => ClaimInv'
  BY Zenon DEF ClaimInv
<1>2. MountInv /\ UNCHANGED <<backend_rb, bstate, bdev, bref>> => MountInv'
  BY Zenon DEF MountInv
<1>3. DiskInv /\ UNCHANGED <<dstate, dbackend, dfile, bstate, bref>> => DiskInv'
  BY Zenon DEF DiskInv
<1>4. CtlInv /\ UNCHANGED <<cstate, cbackend, cfile, bstate, bref>> => CtlInv'
  BY Zenon DEF CtlInv
<1>6. RefInv /\ UNCHANGED <<dstate, dref, lock, backend_rb, bdev, dbackend>> => RefInv'
  BY Zenon DEF RefInv
<1>7. OpenInv /\ UNCHANGED <<hold, late, dref>> => OpenInv'
  BY Zenon DEF OpenInv
<1>8. MapInv /\ UNCHANGED <<block_device_rb, dstate, dref, dfile, backend_rb, dbackend>> => MapInv'
  BY Zenon DEF MapInv
<1>9. FoundInv /\ UNCHANGED <<block_device_rb, dstate, dref, dwrite, bdev, dbackend, dfile>> => FoundInv'
  BY Zenon DEF FoundInv
<1>10. ListInv /\ UNCHANGED <<cursor, due, block_device_rb>> => ListInv'
  BY Zenon DEF ListInv, AllAhead, Mapped
<1> QED BY <1>1, <1>2, <1>3, <1>4, <1>6, <1>7, <1>8, <1>9, <1>10, Zenon

\* Files are as they were when the same handles have them open.
LEMMA FileFrame ==
  ASSUME FileInv, UNCHANGED <<open_type, reader>>,
         \A d \in Disk : HasFile(d)' <=> HasFile(d),
         \A d \in Disk : HasFile(d) =>
           dbackend'[d] = dbackend[d] /\ dfile'[d] = dfile[d] /\ dwrite'[d] = dwrite[d],
         \A c \in Ctl : (cstate'[c] = "bound") <=> (cstate[c] = "bound"),
         \A c \in Ctl : cstate[c] = "bound" => cbackend'[c] = cbackend[c] /\ cfile'[c] = cfile[c]
  PROVE  FileInv'
<1>1. \A b, f : DiskHandle(b, f)' = DiskHandle(b, f)
  BY Zenon DEF DiskHandle
<1>2. \A b, f : CtlHandle(b, f)' = CtlHandle(b, f)
  BY Zenon DEF CtlHandle
<1>3. \A b, f : Handle(b, f)' = Handle(b, f)
  BY <1>1, <1>2, Zenon DEF Handle
<1>4. \A b, f : \A d \in DiskHandle(b, f) : dwrite'[d] = dwrite[d]
  BY Zenon DEF DiskHandle
<1>5. SUFFICES ASSUME NEW b \in Backend, NEW f \in File
               PROVE  /\ Counted(open_type[b][f], Handle(b, f), reader[b][f])
                      /\ \A d \in DiskHandle(b, f) : dwrite'[d] <=> open_type[b][f] = "readwrite"
  BY <1>1, <1>3 DEF FileInv
<1> QED BY <1>4 DEF FileInv

\* A reference to a backend is dropped (kref_put): what others hold stays.
LEMMA PutFacts ==
  ASSUME TypeOK, NEW b \in Backend, bstate[b] = "live", NEW h, BackendPut(b, h)
  PROVE  /\ bref' \in [Backend -> SUBSET (Kind \cup Disk \cup Ctl)]
         /\ bstate' \in [Backend -> {"none", "opening", "live", "closing", "closed"}]
         /\ UNCHANGED bdev
         /\ \A a \in Backend : a # b => bref'[a] = bref[a] /\ bstate'[a] = bstate[a]
         /\ bref'[b] = bref[b] \ {h}
         /\ bstate'[b] \in {"live", "closing"}
         /\ \A x \in bref[b] : x # h => bstate'[b] = "live"
<1>1. bref' = [bref EXCEPT ![b] = @ \ {h}] /\ UNCHANGED bdev
      /\ bstate' = [bstate EXCEPT ![b] = IF bref[b] \subseteq {h} THEN "closing" ELSE @]
  BY Zenon DEF BackendPut
<1>2. bref \in [Backend -> SUBSET (Kind \cup Disk \cup Ctl)]
      /\ bstate \in [Backend -> {"none", "opening", "live", "closing", "closed"}]
  BY Zenon DEF TypeOK
<1>3. bref'[b] = bref[b] \ {h} /\ \A a \in Backend : a # b => bref'[a] = bref[a]
  BY <1>1, <1>2, Zenon
<1>4. bref' \in [Backend -> SUBSET (Kind \cup Disk \cup Ctl)]
  BY <1>1, <1>2, Zenon
<1>5. bstate'[b] = (IF bref[b] \subseteq {h} THEN "closing" ELSE "live")
      /\ \A a \in Backend : a # b => bstate'[a] = bstate[a]
  BY <1>1, <1>2, Zenon
<1>6. bstate' \in [Backend -> {"none", "opening", "live", "closing", "closed"}]
  BY <1>1, <1>2, Zenon
<1> QED BY <1>1, <1>3, <1>4, <1>6, Zenon

\* Dropping a reference keeps the claim on the device, the tree of backends
\* (unless it was the tree's own) and everybody else's backend.
LEMMA PutKeeps ==
  ASSUME TypeOK, ClaimInv, MountInv, NEW b \in Backend, bstate[b] = "live", NEW h, BackendPut(b, h)
  PROVE  /\ UNCHANGED claim => ClaimInv'
         /\ h # "ctl" /\ UNCHANGED backend_rb => MountInv'
         /\ \A a \in Backend : \A x : x \in bref[a] /\ x # h /\ bstate[a] = "live" =>
              x \in bref'[a] /\ bstate'[a] = "live"
<1>1. /\ UNCHANGED bdev
      /\ \A a \in Backend : a # b => bref'[a] = bref[a] /\ bstate'[a] = bstate[a]
      /\ bref'[b] = bref[b] \ {h}
      /\ bstate'[b] \in {"live", "closing"}
      /\ \A x \in bref[b] : x # h => bstate'[b] = "live"
  BY PutFacts, Zenon
<1>2. ASSUME UNCHANGED claim PROVE ClaimInv'
  BY <1>1, <1>2, Zenon DEF ClaimInv
<1>3. \A a \in Backend : \A x : x \in bref[a] /\ x # h /\ bstate[a] = "live" =>
        x \in bref'[a] /\ bstate'[a] = "live"
  BY <1>1, Zenon
<1>4. ASSUME h # "ctl", UNCHANGED backend_rb PROVE MountInv'
  <2>1. backend_rb \in [Dev -> Backend \cup {None}]
    BY Zenon DEF TypeOK
  <2>2. \A dev \in Dev : backend_rb[dev] # None =>
          /\ bstate'[backend_rb[dev]] = "live" /\ bdev[backend_rb[dev]] = dev
          /\ "ctl" \in bref'[backend_rb[dev]]
    BY <1>3, <1>4, <2>1 DEF MountInv
  <2>3. \A a \in Backend : bstate'[a] = "live" /\ "ctl" \in bref'[a] =>
          bstate[a] = "live" /\ "ctl" \in bref[a]
    BY <1>1, Zenon
  <2> QED BY <1>1, <1>4, <2>2, <2>3 DEF MountInv
<1> QED BY <1>2, <1>3, <1>4, Zenon

\* The holders of a backend keep it when somebody else lets go.
LEMMA PutHolders ==
  ASSUME IInv, NEW b \in Backend, bstate[b] = "live", NEW h, BackendPut(b, h)
  PROVE  /\ UNCHANGED <<cstate, cbackend, cfile>> /\ h \notin Ctl => CtlInv'
         /\ UNCHANGED <<dstate, dbackend, dfile>> /\ h \notin Disk => DiskInv'
<1>1. \A a \in Backend : \A x : x \in bref[a] /\ x # h /\ bstate[a] = "live" =>
        x \in bref'[a] /\ bstate'[a] = "live"
  BY PutKeeps, Zenon DEF IInv
<1>2. UNCHANGED <<cstate, cbackend, cfile>> /\ h \notin Ctl => CtlInv'
  BY <1>1, Zenon DEF IInv, CtlInv
<1>3. UNCHANGED <<dstate, dbackend, dfile>> /\ h \notin Disk => DiskInv'
  BY <1>1, Zenon DEF IInv, DiskInv
<1> QED BY <1>2, <1>3, Zenon

\* Two backends that are not gone have different devices.
LEMMA SameDevice ==
  ASSUME ClaimInv, NEW a \in Backend, NEW b \in Backend, bstate[a] # "none", bstate[b] # "none",
         bdev[a] = bdev[b]
  PROVE  a = b
BY Zenon DEF ClaimInv

\* Opening a file keeps its counts right (cyanfs_open).
LEMMA OpenCounts ==
  ASSUME NEW type, NEW handles, NEW readers, NEW write \in BOOLEAN, NEW h,
         Counted(type, handles, readers),
         IF write THEN type = "closed" ELSE type # "readwrite"
  PROVE  Counted(IF write THEN "readwrite" ELSE "readonly", handles \cup {h},
                 IF write THEN readers ELSE readers \cup {h})
<1>1. CASE write
  <2>1. handles \cup {h} = {h} /\ readers = {}
    BY <1>1, Zenon DEF Counted
  <2> QED BY <1>1, <2>1, Zenon DEF Counted
<1>2. CASE ~write
  <2>1. readers = handles
    BY <1>2, Zenon DEF Counted
  <2> QED BY <1>2, <2>1, Zenon DEF Counted
<1> QED BY <1>1, <1>2, Zenon

\* And so does closing it (cyanfs_close).
LEMMA CloseCounts ==
  ASSUME NEW type, NEW handles, NEW readers, NEW h \in handles, Counted(type, handles, readers)
  PROVE  Counted(IF type = "readwrite" \/ readers \subseteq {h} THEN "closed" ELSE type,
                 handles \ {h}, readers \ {h})
<1>1. CASE type = "readwrite"
  <2>1. handles \ {h} = {} /\ readers \ {h} = {}
    BY <1>1, Zenon DEF Counted
  <2> QED BY <1>1, <2>1, Zenon DEF Counted
<1>2. CASE type = "readonly" /\ readers \subseteq {h}
  <2>1. handles \ {h} = {} /\ readers \ {h} = {}
    BY <1>2, Zenon DEF Counted
  <2> QED BY <1>2, <2>1, Zenon DEF Counted
<1>3. CASE type = "readonly" /\ ~(readers \subseteq {h})
  BY <1>3, Zenon DEF Counted
<1> QED BY <1>1, <1>2, <1>3, Zenon DEF Counted

\* A handle opens a file.
LEMMA OpenedFile ==
  ASSUME TypeOK, FileInv, NEW b \in Backend, NEW f \in File, NEW write \in BOOLEAN,
         NEW h \in Disk \cup Ctl, OpenFile(b, f, write, h), UNCHANGED dwrite,
         h \in Disk => (dwrite[h] <=> write),
         \A a \in Backend, g \in File :
           /\ Handle(a, g)' = IF a = b /\ g = f THEN Handle(a, g) \cup {h} ELSE Handle(a, g)
           /\ DiskHandle(a, g)' \subseteq DiskHandle(a, g) \cup (IF a = b /\ g = f THEN {h} ELSE {}),
         DiskHandle(b, f)' \subseteq Disk
  PROVE  /\ open_type' \in [Backend -> [File -> {"closed", "readonly", "readwrite"}]]
         /\ reader' \in [Backend -> [File -> SUBSET (Disk \cup Ctl)]]
         /\ FileInv'
<1> DEFINE type == IF write THEN "readwrite" ELSE "readonly"
           readers == IF write THEN reader[b][f] ELSE reader[b][f] \cup {h}
<1>1. /\ open_type \in [Backend -> [File -> {"closed", "readonly", "readwrite"}]]
      /\ reader \in [Backend -> [File -> SUBSET (Disk \cup Ctl)]]
  BY Zenon DEF TypeOK
<1>2. open_type' = [open_type EXCEPT ![b] = [@ EXCEPT ![f] = type]]
      /\ reader' = [reader EXCEPT ![b] = [@ EXCEPT ![f] = readers]]
  BY Zenon DEF OpenFile
<1>3. type \in {"closed", "readonly", "readwrite"} /\ readers \in SUBSET (Disk \cup Ctl)
  BY <1>1
<1>4. IF write THEN open_type[b][f] = "closed" ELSE open_type[b][f] # "readwrite"
  BY Zenon DEF OpenFile
<1>5. \A a \in Backend, g \in File :
        /\ open_type'[a][g] = IF a = b /\ g = f THEN type ELSE open_type[a][g]
        /\ reader'[a][g] = IF a = b /\ g = f THEN readers ELSE reader[a][g]
  <2> HIDE DEF type, readers
  <2> QED BY <1>1, <1>2, Zenon
<1>6. /\ open_type' \in [Backend -> [File -> {"closed", "readonly", "readwrite"}]]
      /\ reader' \in [Backend -> [File -> SUBSET (Disk \cup Ctl)]]
  <2> HIDE DEF type, readers
  <2> QED BY <1>1, <1>2, <1>3, Zenon
<1>7. Counted(type, Handle(b, f) \cup {h}, readers)
  BY <1>4, OpenCounts, Zenon DEF FileInv
<1>8. ASSUME NEW d \in DiskHandle(b, f) PROVE dwrite[d] <=> type = "readwrite"
  <2>1. Handle(b, f) # {} /\ (dwrite[d] <=> open_type[b][f] = "readwrite")
    BY <1>8, Zenon DEF FileInv, Handle
  <2>2. open_type[b][f] # "closed"
    BY <2>1, Zenon DEF FileInv, Counted
  <2> QED BY <2>1, <2>2, <1>4, Zenon
<1>9. ASSUME NEW d \in DiskHandle(b, f)' PROVE dwrite'[d] <=> type = "readwrite"
  <2>1. d \in DiskHandle(b, f) \/ d = h
    BY <1>9, Zenon
  <2>2. d \in Disk
    BY <1>9, Zenon
  <2>3. CASE d = h
    BY <2>2, <2>3, Zenon
  <2> QED BY <2>1, <2>3, <1>8, Zenon
<1>10. ASSUME NEW a \in Backend, NEW g \in File
       PROVE  /\ Counted(open_type'[a][g], Handle(a, g)', reader'[a][g])
              /\ \A d \in DiskHandle(a, g)' : dwrite'[d] <=> open_type'[a][g] = "readwrite"
  <2> HIDE DEF type, readers
  <2>1. CASE a = b /\ g = f
    BY <2>1, <1>5, <1>7, <1>9, Zenon
  <2>2. CASE ~(a = b /\ g = f)
    <3>1. /\ Handle(a, g)' = Handle(a, g) /\ DiskHandle(a, g)' \subseteq DiskHandle(a, g)
          /\ open_type'[a][g] = open_type[a][g] /\ reader'[a][g] = reader[a][g]
      BY <2>2, <1>5, Zenon
    <3> QED BY <3>1 DEF FileInv
  <2> QED BY <2>1, <2>2, Zenon
<1>11. FileInv'
  BY <1>10, Zenon DEF FileInv, Counted
<1> QED BY <1>6, <1>11, Zenon

\* A handle closes the file it has open.
LEMMA ClosedFile ==
  ASSUME TypeOK, FileInv, NEW b \in Backend, NEW f \in File, NEW h \in Handle(b, f),
         CloseFile(b, f, h),
         \A a \in Backend, g \in File :
           /\ Handle(a, g)' = IF a = b /\ g = f THEN Handle(a, g) \ {h} ELSE Handle(a, g)
           /\ DiskHandle(a, g)' \subseteq DiskHandle(a, g)
           /\ \A d \in DiskHandle(a, g)' : dwrite'[d] = dwrite[d]
  PROVE  /\ open_type' \in [Backend -> [File -> {"closed", "readonly", "readwrite"}]]
         /\ reader' \in [Backend -> [File -> SUBSET (Disk \cup Ctl)]]
         /\ FileInv'
<1> DEFINE type == IF open_type[b][f] = "readwrite" \/ reader[b][f] \subseteq {h}
                   THEN "closed" ELSE open_type[b][f]
           readers == reader[b][f] \ {h}
<1>1. /\ open_type \in [Backend -> [File -> {"closed", "readonly", "readwrite"}]]
      /\ reader \in [Backend -> [File -> SUBSET (Disk \cup Ctl)]]
  BY Zenon DEF TypeOK
<1>2. open_type' = [open_type EXCEPT ![b] = [@ EXCEPT ![f] = type]]
      /\ reader' = [reader EXCEPT ![b] = [@ EXCEPT ![f] = readers]]
  BY <1>1, Zenon DEF CloseFile
<1>3. type \in {"closed", "readonly", "readwrite"} /\ readers \in SUBSET (Disk \cup Ctl)
  BY <1>1
<1>5. \A a \in Backend, g \in File :
        /\ open_type'[a][g] = IF a = b /\ g = f THEN type ELSE open_type[a][g]
        /\ reader'[a][g] = IF a = b /\ g = f THEN readers ELSE reader[a][g]
  <2> HIDE DEF type, readers
  <2> QED BY <1>1, <1>2, Zenon
<1>6. /\ open_type' \in [Backend -> [File -> {"closed", "readonly", "readwrite"}]]
      /\ reader' \in [Backend -> [File -> SUBSET (Disk \cup Ctl)]]
  <2> HIDE DEF type, readers
  <2> QED BY <1>1, <1>2, <1>3, Zenon
<1>4. Counted(open_type[b][f], Handle(b, f), reader[b][f])
  BY Zenon DEF FileInv
<1>7. Counted(type, Handle(b, f) \ {h}, readers)
  BY <1>4, CloseCounts, Zenon
<1>8. ASSUME NEW d \in DiskHandle(b, f)' PROVE dwrite'[d] <=> type = "readwrite"
  <2>1. d \in Handle(b, f) \ {h} /\ d \in DiskHandle(b, f) /\ dwrite'[d] = dwrite[d]
    <3>1. d \in DiskHandle(b, f) /\ dwrite'[d] = dwrite[d]
      BY <1>8, Zenon
    <3>2. d \in Handle(b, f)'
      BY <1>8, Zenon DEF Handle
    <3> QED BY <3>1, <3>2, Zenon
  <2>2. dwrite[d] <=> open_type[b][f] = "readwrite"
    BY <2>1, Zenon DEF FileInv
  <2>3. Counted(open_type[b][f], Handle(b, f), reader[b][f])
    BY Zenon DEF FileInv
  <2>4. type = open_type[b][f]
    BY <2>1, <2>3, Zenon DEF Counted
  <2> QED BY <2>1, <2>2, <2>4, Zenon
<1>10. ASSUME NEW a \in Backend, NEW g \in File
       PROVE  /\ Counted(open_type'[a][g], Handle(a, g)', reader'[a][g])
              /\ \A d \in DiskHandle(a, g)' : dwrite'[d] <=> open_type'[a][g] = "readwrite"
  <2> HIDE DEF type, readers
  <2>1. CASE a = b /\ g = f
    BY <2>1, <1>5, <1>7, <1>8, Zenon
  <2>2. CASE ~(a = b /\ g = f)
    <3>1. /\ Handle(a, g)' = Handle(a, g) /\ DiskHandle(a, g)' \subseteq DiskHandle(a, g)
          /\ open_type'[a][g] = open_type[a][g] /\ reader'[a][g] = reader[a][g]
          /\ \A d \in DiskHandle(a, g)' : dwrite'[d] = dwrite[d]
      BY <2>2, <1>5, Zenon
    <3> QED BY <3>1 DEF FileInv
  <2> QED BY <2>1, <2>2, Zenon
<1>11. FileInv'
  BY <1>10, Zenon DEF FileInv, Counted
<1> QED BY <1>6, <1>11, Zenon

-----------------------------------------------------------------------------
(* The order of the trees.                                                 *)

\* A set of numbers has a least one.
LEMMA LeastNat ==
  ASSUME NEW T, T \subseteq Nat, T # {}
  PROVE  \E x \in T : \A y \in T : x <= y
<1>1. IsWellFoundedOn(OpToRel(<, Nat), Nat)
  BY NatLessThanWellFounded, Zenon
<1>2. PICK x \in T : \A y \in T : ~(<<y, x>> \in OpToRel(<, Nat))
  BY <1>1, WFMin, Zenon
<1>3. ASSUME NEW y \in T PROVE x <= y
  <2>1. x \in Nat /\ y \in Nat
    BY Zenon
  <2>2. ~(y < x)
    BY <1>2, <2>1, Zenon DEF OpToRel
  <2> QED BY <2>1, <2>2
<1> QED BY <1>3, Zenon

\* The keys of the tree of disks are pairs of numbers, the first not zero.
LEMMA KeyType ==
  \A k \in Key : k[1] \in Dev /\ k[2] \in File /\ k[1] \in Nat \ {0} /\ k[2] \in Nat
                 /\ k = <<k[1], k[2]>> /\ k # None
<1>1. Dev \subseteq Nat \ {0} /\ File \subseteq Nat /\ None \notin Nat \X Nat
  BY RegistryAssumption, Zenon
<1>2. \A k \in Dev \X File : k[1] \in Dev /\ k[2] \in File /\ k = <<k[1], k[2]>>
  OBVIOUS
<1>3. \A k \in Dev \X File : k \in Nat \X Nat
  BY <1>1, Zenon
<1> QED BY <1>1, <1>2, <1>3, Zenon DEF Key

\* CYANFS_RB_NFIND finds something when there is something to find.
LEMMA NFindFinds ==
  ASSUME NEW m \in Nat, NEW n \in Nat, NEW l \in Mapped, ~Before(l, <<m, n>>)
  PROVE  \E k \in Key : NFind(k, m, n)
<1> DEFINE C == {k \in Mapped : ~Before(k, <<m, n>>)}
           A == {k[1] : k \in C}
<1>1. \A k \in C : k[1] \in Nat /\ k[2] \in Nat /\ k = <<k[1], k[2]>> /\ k \in Key
  BY KeyType, Zenon DEF Mapped
<1>2. A \subseteq Nat /\ A # {}
  <2>1. l \in C
    BY Zenon
  <2> HIDE DEF C
  <2> QED BY <1>1, <2>1, Zenon
<1>3. PICK a \in A : \A x \in A : a <= x
  BY <1>2, LeastNat, Zenon
<1> DEFINE D == {k \in C : k[1] = a}
           B == {k[2] : k \in D}
<1>4. B \subseteq Nat /\ B # {}
  <2> HIDE DEF C
  <2> QED BY <1>1, <1>3, Zenon
<1>5. PICK c \in B : \A x \in B : c <= x
  BY <1>4, LeastNat, Zenon
<1>6. PICK k \in C : k[1] = a /\ k[2] = c
  BY <1>5, Zenon
<1>7. ASSUME NEW j \in C PROVE ~Before(j, k)
  <2>1. j[1] \in A /\ (j[1] = a => j[2] \in B)
    BY Zenon
  <2>2. a <= j[1] /\ (j[1] = a => c <= j[2])
    BY <2>1, <1>3, <1>5, Zenon
  <2>3. a \in Nat /\ c \in Nat /\ j[1] \in Nat /\ j[2] \in Nat
    BY <1>1, <1>2, <1>4, <1>7, Zenon
  <2> QED BY <2>2, <2>3, <1>6 DEF Before
<1>8. NFind(k, m, n) /\ k \in Key
  BY <1>1, <1>6, <1>7, Zenon DEF NFind
<1> QED BY <1>8, Zenon

-----------------------------------------------------------------------------
(* The steps of backends.                                                  *)

\* A backend that is opened holds its device and nothing else.
LEMMA BackendOpenKeeps ==
  ASSUME IInv, NEW b \in Backend, NEW dev \in Dev, NEW kind \in Kind, BackendOpen(b, dev, kind),
         lock' = lock \/ (lock = None /\ lock' = b)
  PROVE  IInv'
<1>1. /\ bstate[b] = "none" /\ claim[dev] = None
      /\ claim' = [claim EXCEPT ![dev] = b]
      /\ bstate' = [bstate EXCEPT ![b] = "opening"]
      /\ bdev' = [bdev EXCEPT ![b] = dev]
      /\ bref' = [bref EXCEPT ![b] = {kind}]
      /\ UNCHANGED <<backend_rb, block_device_rb, open_type, reader, dstate, dbackend, dfile, dwrite,
                     dref, id, idr, cstate, cbackend, cfile, hold, late, stale, io, stolen, cursor, due>>
  BY Zenon DEF BackendOpen, files, disk, ctl, opener, listing
<1>2. TypeOK'
  BY <1>1 DEF IInv, TypeOK
<1>3. /\ \A a \in Backend : a # b =>
           bstate'[a] = bstate[a] /\ bdev'[a] = bdev[a] /\ bref'[a] = bref[a]
      /\ bstate'[b] = "opening" /\ bdev'[b] = dev /\ claim'[dev] = b
      /\ \A e \in Dev : e # dev => claim'[e] = claim[e]
  BY <1>1, Zenon DEF IInv, TypeOK
<1>4. ClaimInv'
  BY <1>1, <1>3, Distinct DEF IInv, ClaimInv
<1>5. MountInv'
  <2>1. backend_rb \in [Dev -> Backend \cup {None}]
    BY Zenon DEF IInv, TypeOK
  <2> QED BY <1>1, <1>3, <2>1 DEF IInv, MountInv
<1>6. DiskInv'
  BY <1>1, <1>3 DEF IInv, DiskInv
<1>7. CtlInv'
  BY <1>1, <1>3, SMTT(60) DEF IInv, CtlInv
<1>8. RefInv'
  BY <1>1, <1>3, Distinct, SMTT(60) DEF IInv, RefInv, DiskInv
<1>9. FoundInv'
  BY <1>1, <1>3 DEF IInv, FoundInv, DiskInv
<1>10. FileInv'
  BY <1>1, FileFrame, Zenon DEF IInv, HasFile
<1>11. OpenInv' /\ MapInv' /\ ListInv'
  BY <1>1, Frame, Zenon DEF IInv
<1> QED BY <1>2, <1>4, <1>5, <1>6, <1>7, <1>8, <1>9, <1>10, <1>11, Zenon DEF IInv

\* The device of a backend that becomes live was not mounted.
LEMMA BackendReadyKeeps ==
  ASSUME IInv, NEW b \in Backend, BackendReady(b)
  PROVE  IInv'
<1>1. /\ bstate[b] = "opening"
      /\ bstate' = [bstate EXCEPT ![b] = "live"]
      /\ backend_rb' = IF "ctl" \in bref[b] /\ backend_rb[bdev[b]] = None
                       THEN [backend_rb EXCEPT ![bdev[b]] = b] ELSE backend_rb
      /\ lock' = IF lock = b THEN None ELSE lock
      /\ UNCHANGED <<claim, bdev, bref, block_device_rb, open_type, reader, dstate, dbackend, dfile,
                     dwrite, dref, id, idr, cstate, cbackend, cfile, hold, late, stale, io, stolen, cursor, due>>
  BY Zenon DEF BackendReady, Unlock, files, disk, ctl, opener, listing
<1>2. bdev[b] \in Dev /\ backend_rb \in [Dev -> Backend \cup {None}]
  BY <1>1, Zenon DEF IInv, ClaimInv, TypeOK
<1>3. backend_rb[bdev[b]] = None
  <2>1. SUFFICES ASSUME backend_rb[bdev[b]] # None PROVE FALSE
    BY Zenon
  <2>2. backend_rb[bdev[b]] \in Backend /\ bstate[backend_rb[bdev[b]]] = "live"
        /\ bdev[backend_rb[bdev[b]]] = bdev[b]
    BY <1>2, <2>1 DEF IInv, MountInv
  <2>3. backend_rb[bdev[b]] = b
    BY <1>1, <2>2, SameDevice, Zenon DEF IInv
  <2> QED BY <1>1, <2>2, <2>3, Zenon
<1>4. TypeOK'
  BY <1>1, <1>2, Zenon DEF IInv, TypeOK
<1>5. /\ \A a \in Backend : a # b => bstate'[a] = bstate[a]
      /\ bstate'[b] = "live"
      /\ \A e \in Dev : e # bdev[b] => backend_rb'[e] = backend_rb[e]
      /\ backend_rb'[bdev[b]] = IF "ctl" \in bref[b] THEN b ELSE None
  BY <1>1, <1>2, <1>3, Zenon DEF IInv, TypeOK
<1>6. ClaimInv'
  BY <1>1, <1>5, Zenon DEF IInv, ClaimInv
<1>7. MountInv'
  <2>1. \A a \in Backend : a # b /\ bstate[a] # "none" => bdev[a] \in Dev /\ bdev[a] # bdev[b]
    BY <1>1, SameDevice, Zenon DEF IInv, ClaimInv
  <2>2. \A e \in Dev : backend_rb[e] # None =>
          backend_rb[e] \in Backend /\ bstate[backend_rb[e]] = "live" /\ backend_rb[e] # b
          /\ bdev[backend_rb[e]] = e /\ "ctl" \in bref[backend_rb[e]]
    BY <1>1, <1>2 DEF IInv, MountInv
  <2>3. \A e \in Dev : backend_rb'[e] # None =>
          bstate'[backend_rb'[e]] = "live" /\ bdev[backend_rb'[e]] = e
          /\ "ctl" \in bref[backend_rb'[e]]
    BY <1>2, <1>5, <2>2
  <2>4. \A a \in Backend : bstate'[a] = "live" /\ "ctl" \in bref[a] => backend_rb'[bdev[a]] = a
    BY <1>5, <2>1, Zenon DEF IInv, MountInv
  <2> QED BY <1>1, <2>3, <2>4, Zenon DEF MountInv
<1>8. DiskInv'
  BY <1>1, <1>5 DEF IInv, DiskInv
<1>9. CtlInv'
  BY <1>1, <1>5, SMTT(60) DEF IInv, CtlInv
<1>10. RefInv'
  <2>1. \A d \in Disk : dstate[d] # "none" => dbackend[d] \in Backend /\ dbackend[d] # b
          /\ bdev[dbackend[d]] \in Dev /\ bdev[dbackend[d]] # bdev[b]
    BY <1>1, SameDevice, Zenon DEF IInv, DiskInv, ClaimInv
  <2>2. \A d \in Disk : d # b
    BY Distinct, Zenon
  <2> QED BY <1>1, <1>5, <2>1, <2>2 DEF IInv, RefInv
<1>11. MapInv'
  <2>1. \A k \in Key : k[1] \in Dev
    BY Zenon DEF Key
  <2> QED BY <1>1, <1>3, <1>5, <2>1 DEF IInv, MapInv
<1>12. FileInv'
  BY <1>1, FileFrame, Zenon DEF IInv, HasFile
<1>13. OpenInv' /\ FoundInv' /\ ListInv'
  BY <1>1, Frame, Zenon DEF IInv
<1> QED BY <1>4, <1>6, <1>7, <1>8, <1>9, <1>10, <1>11, <1>12, <1>13 DEF IInv

\* Nobody holds a backend that is freed.
LEMMA BackendFreeKeeps ==
  ASSUME IInv, NEW b \in Backend, bstate[b] \in {"opening", "closed"}, BackendFree(b)
  PROVE  IInv'
<1>1. /\ bstate' = [bstate EXCEPT ![b] = "none"]
      /\ bdev' = [bdev EXCEPT ![b] = None]
      /\ bref' = [bref EXCEPT ![b] = {}]
      /\ claim' = [claim EXCEPT ![bdev[b]] = None]
      /\ lock' = IF lock = b THEN None ELSE lock
      /\ UNCHANGED <<backend_rb, block_device_rb, open_type, reader, dstate, dbackend, dfile,
                     dwrite, dref, id, idr, cstate, cbackend, cfile, hold, late, stale, io, stolen, cursor, due>>
  BY Zenon DEF BackendFree, Unlock, files, disk, ctl, opener, listing
<1>2. TypeOK'
  BY <1>1, Zenon DEF IInv, TypeOK
<1>3. /\ \A a \in Backend : a # b =>
           bstate'[a] = bstate[a] /\ bdev'[a] = bdev[a] /\ bref'[a] = bref[a]
      /\ bstate'[b] = "none"
      /\ \A e \in Dev : e # bdev[b] => claim'[e] = claim[e]
  BY <1>1, Zenon DEF IInv, TypeOK
<1>4. ClaimInv'
  BY <1>3, SameDevice, SMTT(60) DEF IInv, ClaimInv
<1>5. MountInv'
  <2>1. backend_rb \in [Dev -> Backend \cup {None}]
    BY Zenon DEF IInv, TypeOK
  <2> QED BY <1>1, <1>3, <2>1 DEF IInv, MountInv
<1>6. \A d \in Disk : dstate[d] # "none" => dbackend[d] \in Backend /\ dbackend[d] # b
  BY Zenon DEF IInv, DiskInv
<1>7. DiskInv'
  BY <1>1, <1>3, <1>6, SMTT(60) DEF IInv, DiskInv
<1>8. CtlInv'
  BY <1>1, <1>3, SMTT(60) DEF IInv, CtlInv
<1>9. RefInv'
  <2>1. \A d \in Disk : d # b
    BY Distinct, Zenon
  <2> QED BY <1>1, <1>3, <1>6, <2>1 DEF IInv, RefInv
<1>10. FoundInv'
  BY <1>1, <1>3, <1>6 DEF IInv, FoundInv
<1>11. FileInv'
  BY <1>1, FileFrame, Zenon DEF IInv, HasFile
<1>12. OpenInv' /\ MapInv' /\ ListInv'
  BY <1>1, Frame, Zenon DEF IInv
<1> QED BY <1>2, <1>4, <1>5, <1>7, <1>8, <1>9, <1>10, <1>11, <1>12, Zenon DEF IInv

\* A super that is closed was held by nobody.
LEMMA SuperCloseKeeps ==
  ASSUME IInv, NEW b \in Backend, SuperClose(b)
  PROVE  IInv'
<1>1. /\ bstate[b] = "closing"
      /\ bstate' = [bstate EXCEPT ![b] = "closed"]
      /\ UNCHANGED <<claim, lock, backend_rb, bref, bdev, block_device_rb, open_type, reader, dstate,
                     dbackend, dfile, dwrite, dref, id, idr, cstate, cbackend, cfile, hold, late, stale, io, stolen,
                     cursor, due>>
  BY Zenon DEF SuperClose, mount, files, disk, ctl, opener, listing
<1>2. TypeOK'
  BY <1>1, Zenon DEF IInv, TypeOK
<1>3. bstate'[b] = "closed" /\ \A a \in Backend : a # b => bstate'[a] = bstate[a]
  BY <1>1, Zenon DEF IInv, TypeOK
<1>4. ClaimInv'
  BY <1>1, <1>3, Zenon DEF IInv, ClaimInv
<1>5. MountInv'
  <2>1. backend_rb \in [Dev -> Backend \cup {None}]
    BY Zenon DEF IInv, TypeOK
  <2> QED BY <1>1, <1>3, <2>1 DEF IInv, MountInv
<1>6. DiskInv'
  BY <1>1, <1>3, Zenon DEF IInv, DiskInv
<1>7. CtlInv'
  BY <1>1, <1>3, Zenon DEF IInv, CtlInv
<1>8. FileInv'
  BY <1>1, FileFrame, Zenon DEF IInv, HasFile
<1>9. RefInv' /\ OpenInv' /\ MapInv' /\ FoundInv' /\ ListInv'
  BY <1>1, Frame, Zenon DEF IInv
<1> QED BY <1>2, <1>4, <1>5, <1>6, <1>7, <1>8, <1>9, Zenon DEF IInv

\* The first disk not before the device is of another device, so no disk of
\* this one is mapped when it is unmounted.
LEMMA UmountKeeps ==
  ASSUME IInv, NEW dev \in Dev, Umount(dev)
  PROVE  IInv'
<1> DEFINE b == backend_rb[dev]
<1>1. /\ lock = None /\ b # None
      /\ ~ \E k \in Key : NFind(k, dev, 0) /\ dbackend[block_device_rb[k]] = b
      /\ backend_rb' = [backend_rb EXCEPT ![dev] = None]
      /\ BackendPut(b, "ctl")
      /\ lock' = IF bref[b] \subseteq {"ctl"} THEN b ELSE None
      /\ UNCHANGED <<claim, block_device_rb, open_type, reader, dstate, dbackend, dfile,
                     dwrite, dref, id, idr, cstate, cbackend, cfile, hold, late, stale, io, stolen, cursor, due>>
  BY Zenon DEF Umount, files, disk, ctl, opener, listing
<1>2. b \in Backend /\ bstate[b] = "live" /\ bdev[b] = dev
  BY <1>1 DEF IInv, TypeOK, MountInv
<1> HIDE DEF b
<1>3. /\ bref' \in [Backend -> SUBSET (Kind \cup Disk \cup Ctl)]
      /\ bstate' \in [Backend -> {"none", "opening", "live", "closing", "closed"}]
      /\ UNCHANGED bdev
      /\ \A a \in Backend : a # b => bref'[a] = bref[a] /\ bstate'[a] = bstate[a]
      /\ bref'[b] = bref[b] \ {"ctl"}
  BY <1>1, <1>2, PutFacts, Zenon DEF IInv
<1>4. TypeOK'
  BY <1>1, <1>2, <1>3, Zenon DEF IInv, TypeOK
<1>5. ClaimInv'
  BY <1>1, <1>2, PutKeeps, Zenon DEF IInv
<1>6. backend_rb'[dev] = None /\ \A e \in Dev : e # dev => backend_rb'[e] = backend_rb[e]
  BY <1>1, Zenon DEF IInv, TypeOK
<1>7. MountInv'
  <2>1. backend_rb \in [Dev -> Backend \cup {None}]
    BY Zenon DEF IInv, TypeOK
  <2>2. \A e \in Dev : e # dev /\ backend_rb[e] # None =>
          /\ backend_rb[e] \in Backend /\ bdev[backend_rb[e]] = e /\ backend_rb[e] # b
          /\ bstate[backend_rb[e]] = "live" /\ "ctl" \in bref[backend_rb[e]]
    BY <1>2, <2>1 DEF IInv, MountInv
  <2>3. \A a \in Backend : bstate'[a] = "live" /\ "ctl" \in bref'[a] =>
          a # b /\ backend_rb[bdev[a]] = a /\ bdev[a] \in Dev
    BY <1>3, Zenon DEF IInv, MountInv, ClaimInv
  <2>4. \A a \in Backend : a # b /\ bstate'[a] # "none" => bdev[a] # dev
    BY <1>2, <1>3, SameDevice, Zenon DEF IInv
  <2> QED BY <1>3, <1>6, <2>2, <2>3, <2>4 DEF MountInv
<1>8. CtlInv' /\ DiskInv'
  BY <1>1, <1>2, PutHolders, Distinct, Zenon
<1>9. RefInv'
  BY <1>1, Distinct, Zenon DEF IInv, RefInv
<1>10. MapInv'
  <2>1. SUFFICES ASSUME NEW l \in Key, block_device_rb[l] # None, l[1] = dev PROVE FALSE
    <3>1. \A k \in Key : k[1] \in Dev
      BY Zenon DEF Key
    <3> QED BY <1>1, <1>6, <3>1 DEF IInv, MapInv
  <2>2. dev \in Nat /\ l \in Mapped /\ l[2] \in Nat
    BY <2>1, RegistryAssumption, Zenon DEF Mapped, Key
  <2>3. ~Before(l, <<dev, 0>>)
    BY <2>1, <2>2 DEF Before
  <2>4. PICK k \in Key : NFind(k, dev, 0)
    BY <2>2, <2>3, NFindFinds, Zenon
  <2>5. k \in Mapped /\ ~Before(k, <<dev, 0>>) /\ ~Before(l, k)
    BY <2>2, <2>3, <2>4, Zenon DEF NFind
  <2>6. k[1] \in Nat
    BY RegistryAssumption, Zenon DEF Key
  <2>7. k[1] = dev
    BY <2>1, <2>2, <2>5, <2>6 DEF Before
  <2>8. dbackend[block_device_rb[k]] = b
    BY <2>5, <2>7, Zenon DEF IInv, MapInv, Mapped, b
  <2> QED BY <1>1, <2>4, <2>8, Zenon
<1>11. FileInv'
  BY <1>1, FileFrame, Zenon DEF IInv, HasFile
<1>12. OpenInv' /\ FoundInv' /\ ListInv'
  BY <1>1, <1>3, Frame, Zenon DEF IInv
<1> QED BY <1>4, <1>5, <1>7, <1>8, <1>9, <1>10, <1>11, <1>12, Zenon DEF IInv

\* The rmdir of a backend takes only its own reference.
LEMMA ReleaseBackendKeeps ==
  ASSUME IInv, NEW b \in Backend, ReleaseBackend(b)
  PROVE  IInv'
<1>1. /\ bstate[b] = "live" /\ BackendPut(b, "configfs")
      /\ UNCHANGED <<claim, lock, backend_rb, block_device_rb, open_type, reader, dstate, dbackend,
                     dfile, dwrite, dref, id, idr, cstate, cbackend, cfile, hold, late, stale, io, stolen, cursor, due>>
  BY Zenon DEF ReleaseBackend, mount, files, disk, ctl, opener, listing
<1>2. /\ bref' \in [Backend -> SUBSET (Kind \cup Disk \cup Ctl)]
      /\ bstate' \in [Backend -> {"none", "opening", "live", "closing", "closed"}]
      /\ UNCHANGED bdev
  BY <1>1, PutFacts, Zenon DEF IInv
<1>3. TypeOK'
  BY <1>1, <1>2, Zenon DEF IInv, TypeOK
<1>4. "configfs" # "ctl"
  BY Zenon
<1>5. ClaimInv' /\ MountInv'
  BY <1>1, <1>4, PutKeeps, Zenon DEF IInv
<1>6. CtlInv' /\ DiskInv'
  BY <1>1, PutHolders, Distinct, Zenon
<1>7. FileInv'
  BY <1>1, FileFrame, Zenon DEF IInv, HasFile
<1>8. RefInv' /\ OpenInv' /\ MapInv' /\ FoundInv' /\ ListInv'
  BY <1>1, <1>2, Frame, Zenon DEF IInv
<1> QED BY <1>3, <1>5, <1>6, <1>7, <1>8, Zenon DEF IInv

-----------------------------------------------------------------------------
(* The steps of disks.                                                     *)

\* A disk is allocated on a live backend, which its maker keeps.
LEMMA AllocDiskKeeps ==
  ASSUME IInv, NEW d \in Disk, NEW b \in Backend, NEW f \in File, NEW write \in BOOLEAN,
         NEW kind \in Kind, AllocDisk(d, b, f, write, kind), bstate[b] = "live",
         \/ kind = "configfs" /\ UNCHANGED lock
         \/ lock = None /\ lock' = d /\ backend_rb[bdev[b]] = b
  PROVE  IInv'
<1>1. /\ dstate[d] = "none"
      /\ \E i \in Id \ idr : id' = [id EXCEPT ![d] = i] /\ idr' = idr \cup {i}
      /\ dstate' = [dstate EXCEPT ![d] = "idr"]
      /\ dbackend' = [dbackend EXCEPT ![d] = b]
      /\ dfile' = [dfile EXCEPT ![d] = f]
      /\ dwrite' = [dwrite EXCEPT ![d] = write]
      /\ dref' = [dref EXCEPT ![d] = {kind}]
      /\ bref' = [bref EXCEPT ![b] = @ \cup {d}]
      /\ UNCHANGED <<bstate, bdev, claim, backend_rb, block_device_rb, open_type, reader,
                     cstate, cbackend, cfile, hold, late, stale, io, stolen, cursor, due>>
  BY Zenon DEF AllocDisk, BackendGet, files, ctl, opener, listing
<1>2. /\ \A e \in Disk : e # d =>
           /\ dstate'[e] = dstate[e] /\ dbackend'[e] = dbackend[e] /\ dfile'[e] = dfile[e]
           /\ dwrite'[e] = dwrite[e] /\ dref'[e] = dref[e]
      /\ dstate'[d] = "idr" /\ dbackend'[d] = b /\ dfile'[d] = f /\ dref'[d] = {kind}
      /\ \A a \in Backend : bref[a] \subseteq bref'[a] /\ ("ctl" \in bref'[a] => "ctl" \in bref[a])
      /\ d \in bref'[b]
  <2>1. /\ dstate \in [Disk -> {"none", "idr", "opened", "live", "dying", "deleted", "closed"}]
        /\ dbackend \in [Disk -> Backend \cup {None}] /\ dfile \in [Disk -> File \cup {None}]
        /\ dwrite \in [Disk -> BOOLEAN] /\ dref \in [Disk -> SUBSET (Kind \cup Opener)]
        /\ bref \in [Backend -> SUBSET (Kind \cup Disk \cup Ctl)]
    BY Zenon DEF IInv, TypeOK
  <2>2. d # "ctl"
    BY Distinct, Zenon
  <2>3. \A a \in Backend : bref'[a] = IF a = b THEN bref[a] \cup {d} ELSE bref[a]
    BY <1>1, <2>1, Zenon
  <2>4. /\ \A a \in Backend : bref[a] \subseteq bref'[a] /\ ("ctl" \in bref'[a] => "ctl" \in bref[a])
        /\ d \in bref'[b]
    <3>1. ASSUME NEW a \in Backend
          PROVE  bref[a] \subseteq bref'[a] /\ ("ctl" \in bref'[a] => "ctl" \in bref[a])
      <4>1. CASE a = b
        <5>1. bref'[a] = bref[a] \cup {d}  BY <2>3, <4>1, ZenonT(60)
        <5> QED BY <2>2, <5>1, Zenon
      <4>2. CASE a # b  BY <2>3, <4>2, Zenon
      <4> QED BY <4>1, <4>2, Zenon
    <3> QED BY <2>3, <3>1, Zenon
  <2> QED BY <1>1, <2>1, <2>4, Zenon
<1>3. TypeOK'
  <2>1. id' \in [Disk -> Id \cup {None}] /\ idr' \subseteq Id
    BY <1>1 DEF IInv, TypeOK
  <2>2. lock' \in Backend \cup Disk \cup {None}
    BY Zenon DEF IInv, TypeOK
  <2>3. /\ dstate' \in [Disk -> {"none", "idr", "opened", "live", "dying", "deleted", "closed"}]
        /\ dbackend' \in [Disk -> Backend \cup {None}] /\ dfile' \in [Disk -> File \cup {None}]
    BY <1>1, Zenon DEF IInv, TypeOK
  <2>4. dwrite' \in [Disk -> BOOLEAN] /\ dref' \in [Disk -> SUBSET (Kind \cup Opener)]
    BY <1>1, SMTT(60) DEF IInv, TypeOK
  <2>5. bref' \in [Backend -> SUBSET (Kind \cup Disk \cup Ctl)]
    BY <1>1 DEF IInv, TypeOK
  <2> QED BY <1>1, <2>1, <2>2, <2>3, <2>4, <2>5, Zenon DEF IInv, TypeOK
<1>4. ClaimInv'
  BY <1>1, Frame, Zenon DEF IInv
<1>5. MountInv'
  <2>1. backend_rb \in [Dev -> Backend \cup {None}]
    BY Zenon DEF IInv, TypeOK
  <2> QED BY <1>1, <1>2, <2>1 DEF IInv, MountInv
<1>6. DiskInv'
  BY <1>1, <1>2 DEF IInv, DiskInv
<1>7. CtlInv'
  BY <1>1, <1>2, Zenon DEF IInv, CtlInv
<1>8. RefInv'
  <2>1. kind = "configfs" \/ kind = "ctl"
    BY Zenon DEF Kind
  <2>2. ASSUME NEW e \in Disk, e # d, dstate[e] \in {"idr", "opened"}, "ctl" \in dref[e]
        PROVE  lock' = e
    BY <2>2, Distinct, Zenon DEF IInv, RefInv
  <2> QED BY <1>1, <1>2, <2>1, <2>2 DEF IInv, RefInv
<1>9. OpenInv'
  <2>1. hold \in [Opener -> Disk \cup {None}]
    BY Zenon DEF IInv, TypeOK
  <2>2. dref[d] = {}
    BY <1>1, Zenon DEF IInv, RefInv
  <2>3. SUFFICES ASSUME NEW o \in Opener, hold[o] # None, o \notin late
                 PROVE  o \in dref'[hold[o]]
    BY <1>1, Zenon DEF OpenInv
  <2>4. hold[o] \in Disk /\ o \in dref[hold[o]]
    BY <2>1, <2>3, Zenon DEF IInv, OpenInv
  <2>5. hold[o] # d
    BY <2>2, <2>4, Zenon
  <2> QED BY <1>2, <2>4, <2>5, Zenon
<1>10. MapInv'
  <2>1. \A k \in Key : block_device_rb[k] # None =>
          block_device_rb[k] \in Disk /\ block_device_rb[k] # d
    BY <1>1, InTrees, Zenon DEF IInv, MapInv
  <2>2. d # None
    BY Distinct, Zenon
  <2> QED BY <1>1, <1>2, <2>1, <2>2, MapKept, Zenon DEF IInv
<1>11. FoundInv'
  <2>1. SUFFICES ASSUME NEW e \in Disk, dstate'[e] = "live", "ctl" \in dref'[e], dwrite'[e]
                 PROVE  block_device_rb[<<bdev[dbackend'[e]], dfile'[e]>>] = e
    BY <1>1, Zenon DEF FoundInv
  <2>2. e # d
    BY <2>1, <1>2, Zenon
  <2>3. dwrite[e] /\ dstate[e] = "live" /\ "ctl" \in dref[e] /\ dbackend'[e] = dbackend[e]
        /\ dfile'[e] = dfile[e]
    BY <2>1, <2>2, <1>2, Zenon
  <2> QED BY <2>3, Zenon DEF IInv, FoundInv
<1>12. FileInv'
  <2>1. \A e \in Disk : HasFile(e)' <=> HasFile(e)
    BY <1>1, <1>2, Zenon DEF HasFile
  <2>2. \A e \in Disk : HasFile(e) => e # d
    BY <1>1, Zenon DEF HasFile
  <2> QED BY <1>1, <1>2, <2>1, <2>2, FileFrame, Zenon DEF IInv
<1>13. ListInv'
  BY <1>1, Frame, Zenon DEF IInv
<1> QED BY <1>3, <1>4, <1>5, <1>6, <1>7, <1>8, <1>9, <1>10, <1>11, <1>12, <1>13, Zenon DEF IInv

\* A disk opens its file.
LEMMA DiskOpenFileKeeps ==
  ASSUME IInv, NEW d \in Disk, DiskOpenFile(d)
  PROVE  IInv'
<1>1. /\ dstate[d] = "idr"
      /\ OpenFile(dbackend[d], dfile[d], dwrite[d], d)
      /\ dstate' = [dstate EXCEPT ![d] = "opened"]
      /\ UNCHANGED <<claim, lock, backend_rb, block_device_rb, bstate, bdev, bref, dbackend, dfile,
                     dwrite, dref, id, idr, cstate, cbackend, cfile, hold, late, stale, io, stolen, cursor, due>>
  BY Zenon DEF DiskOpenFile, mount, backend, ctl, opener, listing
<1>2. dbackend[d] \in Backend /\ dfile[d] \in File
  BY <1>1, Zenon DEF IInv, DiskInv
<1>3. dstate'[d] = "opened" /\ \A e \in Disk : e # d => dstate'[e] = dstate[e]
  BY <1>1, Zenon DEF IInv, TypeOK
<1>4. /\ open_type' \in [Backend -> [File -> {"closed", "readonly", "readwrite"}]]
      /\ reader' \in [Backend -> [File -> SUBSET (Disk \cup Ctl)]]
      /\ FileInv'
  <2>1. dwrite[d] \in BOOLEAN
    BY Zenon DEF IInv, TypeOK
  <2>2. \A a \in Backend, g \in File :
          DiskHandle(a, g)' = IF a = dbackend[d] /\ g = dfile[d] THEN DiskHandle(a, g) \cup {d}
                              ELSE DiskHandle(a, g)
    BY <1>1, <1>3, ZenonT(60) DEF DiskHandle, HasFile
  <2>3. \A a \in Backend, g \in File : CtlHandle(a, g)' = CtlHandle(a, g)
    BY <1>1, Zenon DEF CtlHandle
  <2>4. \A a \in Backend, g \in File :
          Handle(a, g)' = IF a = dbackend[d] /\ g = dfile[d] THEN Handle(a, g) \cup {d}
                          ELSE Handle(a, g)
    BY <2>2, <2>3 DEF Handle
  <2>6. \A a \in Backend, g \in File :
          DiskHandle(a, g)' \subseteq DiskHandle(a, g)
                                  \cup (IF a = dbackend[d] /\ g = dfile[d] THEN {d} ELSE {})
    BY <2>2, Zenon
  <2>7. PICK b \in Backend, f \in File, write \in BOOLEAN :
          b = dbackend[d] /\ f = dfile[d] /\ write = dwrite[d]
    BY <1>2, <2>1, Zenon
  <2>8. \A a \in Backend, g \in File :
          /\ Handle(a, g)' = IF a = b /\ g = f THEN Handle(a, g) \cup {d} ELSE Handle(a, g)
          /\ DiskHandle(a, g)' \subseteq DiskHandle(a, g) \cup (IF a = b /\ g = f THEN {d} ELSE {})
    BY <2>4, <2>6, <2>7, Zenon
  <2>9. DiskHandle(b, f)' \subseteq Disk
    BY Zenon DEF DiskHandle
  <2>10. TypeOK /\ FileInv /\ OpenFile(b, f, write, d) /\ UNCHANGED dwrite
    BY <1>1, <2>7, Zenon DEF IInv
  <2>11. d \in Disk \cup Ctl /\ (d \in Disk => (dwrite[d] <=> write))
    BY <2>7, Zenon
  <2> QED BY <2>8, <2>9, <2>10, <2>11, OpenedFile, SMTT(60)
<1>5. TypeOK'
  BY <1>1, <1>4, Zenon DEF IInv, TypeOK
<1>6. DiskInv'
  BY <1>1, <1>3, Zenon DEF IInv, DiskInv
<1>7. RefInv'
  BY <1>1, <1>3, Zenon DEF IInv, RefInv
<1>8. MapInv'
  <2>1. \A e \in Disk : dstate[e] = "live" => dstate'[e] = "live"
    BY <1>1, <1>3, Zenon
  <2> QED BY <1>1, <2>1, MapKept, Zenon DEF IInv
<1>9. FoundInv'
  BY <1>1, <1>3, Zenon DEF IInv, FoundInv
<1>10. ClaimInv' /\ MountInv' /\ CtlInv' /\ OpenInv' /\ ListInv'
  BY <1>1, Frame, Zenon DEF IInv
<1> QED BY <1>4, <1>5, <1>6, <1>7, <1>8, <1>9, <1>10, Zenon DEF IInv

\* What a disk that is freed leaves behind: nobody had it, and its backend
\* stays with those who hold it.
LEMMA DiskFreeKeeps ==
  ASSUME IInv, NEW d \in Disk, dstate[d] \in {"idr", "opened", "closed"}, DiskFree(d),
         open_type' \in [Backend -> [File -> {"closed", "readonly", "readwrite"}]],
         reader' \in [Backend -> [File -> SUBSET (Disk \cup Ctl)]],
         FileInv'
  PROVE  IInv'
<1> DEFINE b == dbackend[d]
<1>1. /\ dstate' = [dstate EXCEPT ![d] = "none"]
      /\ dbackend' = [dbackend EXCEPT ![d] = None]
      /\ dfile' = [dfile EXCEPT ![d] = None]
      /\ dwrite' = [dwrite EXCEPT ![d] = FALSE]
      /\ dref' = [dref EXCEPT ![d] = {}]
      /\ id' = [id EXCEPT ![d] = None]
      /\ idr' = idr \ {id[d]}
      /\ BackendPut(b, d)
      /\ lock' = IF lock = d THEN None ELSE lock
      /\ stale' = stale \cup {o \in Opener : hold[o] = d}
      /\ UNCHANGED <<claim, backend_rb, block_device_rb, cstate, cbackend, cfile, hold, late, io, stolen,
                     cursor, due>>
  BY Zenon DEF DiskFree, Unlock, ctl, opener, listing
<1>2. b \in Backend /\ bstate[b] = "live" /\ dstate[d] # "none"
  BY Zenon DEF IInv, DiskInv
<1> HIDE DEF b
<1>3. /\ bref' \in [Backend -> SUBSET (Kind \cup Disk \cup Ctl)]
      /\ bstate' \in [Backend -> {"none", "opening", "live", "closing", "closed"}]
      /\ UNCHANGED bdev
  BY <1>1, <1>2, PutFacts, Zenon DEF IInv
<1>4. \A e \in Disk : e # d =>
        /\ dstate'[e] = dstate[e] /\ dbackend'[e] = dbackend[e] /\ dfile'[e] = dfile[e]
        /\ dwrite'[e] = dwrite[e] /\ dref'[e] = dref[e]
  BY <1>1 DEF IInv, TypeOK
<1>5. dstate'[d] = "none" /\ dref'[d] = {}
  BY <1>1, Zenon DEF IInv, TypeOK
<1>6. TypeOK'
  <2>1. id' \in [Disk -> Id \cup {None}] /\ idr' \subseteq Id
    BY <1>1, Zenon DEF IInv, TypeOK
  <2>2. lock' \in Backend \cup Disk \cup {None}
    BY <1>1, Zenon DEF IInv, TypeOK
  <2>3. /\ dstate' \in [Disk -> {"none", "idr", "opened", "live", "dying", "deleted", "closed"}]
        /\ dbackend' \in [Disk -> Backend \cup {None}] /\ dfile' \in [Disk -> File \cup {None}]
    BY <1>1, Zenon DEF IInv, TypeOK
  <2>4. dwrite' \in [Disk -> BOOLEAN] /\ dref' \in [Disk -> SUBSET (Kind \cup Opener)]
    BY <1>1, Zenon DEF IInv, TypeOK
  <2>5. stale' \subseteq Opener
    BY <1>1, Zenon DEF IInv, TypeOK
  <2> QED BY <1>1, <1>3, <2>1, <2>2, <2>3, <2>4, <2>5, Zenon DEF IInv, TypeOK
<1>7. d # "ctl" /\ d \notin Ctl
  BY Distinct, Zenon
<1>8. ClaimInv' /\ MountInv'
  BY <1>1, <1>2, <1>7, PutKeeps, Zenon DEF IInv
<1>9. CtlInv'
  BY <1>1, <1>2, <1>7, PutHolders, Zenon
<1>10. DiskInv'
  <2>1. \A a \in Backend : \A x : x \in bref[a] /\ x # d /\ bstate[a] = "live" =>
          x \in bref'[a] /\ bstate'[a] = "live"
    BY <1>1, <1>2, PutKeeps, Zenon DEF IInv
  <2> QED BY <1>4, <1>5, <2>1 DEF IInv, DiskInv
<1>11. RefInv'
  BY <1>1, <1>3, <1>4, <1>5, SMTT(60) DEF IInv, RefInv
<1>12. OpenInv'
  <2>1. \A o \in Opener : o \notin dref[d]
    BY Distinct DEF IInv, RefInv
  <2>2. hold \in [Opener -> Disk \cup {None}]
    BY Zenon DEF IInv, TypeOK
  <2> QED BY <1>1, <1>4, <2>1, <2>2, SMTT(60) DEF IInv, OpenInv
<1>13. MapInv'
  <2>1. \A k \in Key : block_device_rb[k] # None =>
          block_device_rb[k] \in Disk /\ block_device_rb[k] # d
    BY InTrees, Zenon DEF IInv, MapInv
  <2>2. d # None
    BY Distinct, Zenon
  <2> QED BY <1>1, <1>4, <2>1, <2>2, MapKept, Zenon DEF IInv
<1>14. FoundInv'
  <2>1. SUFFICES ASSUME NEW e \in Disk, dstate'[e] = "live", "ctl" \in dref'[e], dwrite'[e]
                 PROVE  block_device_rb[<<bdev[dbackend'[e]], dfile'[e]>>] = e
    BY <1>1, <1>3, Zenon DEF FoundInv
  <2>2. e # d
    BY <2>1, <1>5, Zenon
  <2>3. dwrite[e] /\ dstate[e] = "live" /\ "ctl" \in dref[e] /\ dbackend'[e] = dbackend[e]
        /\ dfile'[e] = dfile[e]
    BY <2>1, <2>2, <1>4, Zenon
  <2> QED BY <2>3, Zenon DEF IInv, FoundInv
<1>15. ListInv'
  BY <1>1, Frame, Zenon DEF IInv
<1> QED BY <1>6, <1>8, <1>9, <1>10, <1>11, <1>12, <1>13, <1>14, <1>15, Zenon DEF IInv

\* A disk that has no file open is freed.
LEMMA DiskFreeClosedKeeps ==
  ASSUME IInv, NEW d \in Disk, dstate[d] \in {"idr", "closed"}, DiskFree(d), UNCHANGED files
  PROVE  IInv'
<1>1. UNCHANGED <<open_type, reader, cstate, cbackend, cfile>>
  BY Zenon DEF files, DiskFree, ctl
<1>2. dstate'[d] = "none" /\ \A e \in Disk : e # d =>
        /\ dstate'[e] = dstate[e] /\ dbackend'[e] = dbackend[e] /\ dfile'[e] = dfile[e]
        /\ dwrite'[e] = dwrite[e]
  BY Zenon DEF DiskFree, IInv, TypeOK
<1>3. \A e \in Disk : HasFile(e)' <=> HasFile(e)
  BY <1>2, Zenon DEF HasFile
<1>4. \A e \in Disk : HasFile(e) => e # d
  BY Zenon DEF HasFile
<1>5. FileInv'
  BY <1>1, <1>2, <1>3, <1>4, FileFrame, Zenon DEF IInv
<1> QED BY <1>1, <1>5, DiskFreeKeeps, Zenon DEF IInv, TypeOK

\* A disk that the kernel refuses closes its file and is freed.
LEMMA DiskAddFailsKeeps ==
  ASSUME IInv, NEW d \in Disk, DiskAddFails(d)
  PROVE  IInv'
<1>1. dstate[d] = "opened" /\ CloseFile(dbackend[d], dfile[d], d) /\ DiskFree(d)
  BY Zenon DEF DiskAddFails
<1>2. dbackend[d] \in Backend /\ dfile[d] \in File
  BY <1>1, Zenon DEF IInv, DiskInv
<1>3. /\ UNCHANGED <<cstate, cbackend, cfile>>
      /\ dstate'[d] = "none" /\ \A e \in Disk : e # d =>
           /\ dstate'[e] = dstate[e] /\ dbackend'[e] = dbackend[e] /\ dfile'[e] = dfile[e]
           /\ dwrite'[e] = dwrite[e]
  BY <1>1, Zenon DEF DiskFree, IInv, TypeOK, ctl
<1>4. \A a \in Backend, g \in File :
        DiskHandle(a, g)' = IF a = dbackend[d] /\ g = dfile[d] THEN DiskHandle(a, g) \ {d}
                            ELSE DiskHandle(a, g)
  BY <1>3, ZenonT(60) DEF DiskHandle, HasFile
<1>5. \A a \in Backend, g \in File : CtlHandle(a, g)' = CtlHandle(a, g) /\ d \notin CtlHandle(a, g)
  BY <1>3, Distinct, Zenon DEF CtlHandle
<1>6. d \in Handle(dbackend[d], dfile[d])
  BY <1>1, Zenon DEF Handle, DiskHandle, HasFile
<1>7. \A a \in Backend, g \in File :
        /\ Handle(a, g)' = IF a = dbackend[d] /\ g = dfile[d] THEN Handle(a, g) \ {d} ELSE Handle(a, g)
        /\ DiskHandle(a, g)' \subseteq DiskHandle(a, g)
  BY <1>4, <1>5 DEF Handle
<1>8. \A a \in Backend, g \in File : \A e \in DiskHandle(a, g)' : dwrite'[e] = dwrite[e]
  BY <1>3, Zenon DEF DiskHandle, HasFile
<1>9. /\ open_type' \in [Backend -> [File -> {"closed", "readonly", "readwrite"}]]
      /\ reader' \in [Backend -> [File -> SUBSET (Disk \cup Ctl)]]
      /\ FileInv'
  <2>1. \A a \in Backend, g \in File :
          /\ Handle(a, g)' = IF a = dbackend[d] /\ g = dfile[d] THEN Handle(a, g) \ {d} ELSE Handle(a, g)
          /\ DiskHandle(a, g)' \subseteq DiskHandle(a, g)
          /\ \A e \in DiskHandle(a, g)' : dwrite'[e] = dwrite[e]
    BY <1>7, <1>8, Zenon
  <2>2. TypeOK /\ FileInv
    BY Zenon DEF IInv
  <2> QED BY <1>1, <1>2, <1>6, <2>1, <2>2, ClosedFile, ZenonT(60)
<1> QED BY <1>1, <1>9, DiskFreeKeeps, Zenon

\* A disk that can be written finds its place in the tree free: another one
\* there would have the same file open.
LEMMA DiskAddKeeps ==
  ASSUME IInv, NEW d \in Disk, DiskAdd(d)
  PROVE  IInv'
<1> DEFINE b == dbackend[d]
           k == <<bdev[b], dfile[d]>>
<1>1. /\ dstate[d] = "opened"
      /\ dstate' = [dstate EXCEPT ![d] = "live"]
      /\ block_device_rb' = IF "ctl" \in dref[d] /\ block_device_rb[k] = None
                            THEN [block_device_rb EXCEPT ![k] = d] ELSE block_device_rb
      /\ lock' = IF lock = d THEN None ELSE lock
      /\ UNCHANGED <<claim, backend_rb, bstate, bdev, bref, open_type, reader, dbackend, dfile,
                     dwrite, dref, id, idr, cstate, cbackend, cfile, hold, late, stale, io, stolen, cursor, due>>
  BY Zenon DEF DiskAdd, Unlock, backend, files, ctl, opener, listing
<1>2. b \in Backend /\ dfile[d] \in File /\ bdev[b] \in Dev
  BY <1>1, Zenon DEF IInv, DiskInv, ClaimInv
<1>3. k \in Key /\ k[1] = bdev[b] /\ k[2] = dfile[d]
  BY <1>2, Zenon DEF Key
<1>4. "ctl" \in dref[d] => backend_rb[bdev[b]] = b
  BY <1>1, Zenon DEF IInv, RefInv
<1>5. "ctl" \in dref[d] /\ dwrite[d] => block_device_rb[k] = None
  <2>1. SUFFICES ASSUME "ctl" \in dref[d], dwrite[d], block_device_rb[k] # None PROVE FALSE
    BY Zenon
  <2> DEFINE e == block_device_rb[k]
  <2>2. e \in Disk /\ dstate[e] = "live" /\ dfile[e] = dfile[d] /\ dbackend[e] = b
    BY <1>3, <1>4, <2>1, InTrees, Zenon DEF IInv, MapInv
  <2> HIDE DEF e
  <2>3. e \in DiskHandle(b, dfile[d]) /\ d \in DiskHandle(b, dfile[d])
    BY <1>1, <2>2, Zenon DEF DiskHandle, HasFile
  <2>4. open_type[b][dfile[d]] = "readwrite"
    BY <1>2, <2>1, <2>3, Zenon DEF IInv, FileInv
  <2>5. PICK h : Handle(b, dfile[d]) = {h}
    BY <1>2, <2>4, ZenonT(60) DEF IInv, FileInv, Counted
  <2>6. e = d
    BY <2>3, <2>5 DEF Handle
  <2> QED BY <1>1, <2>2, <2>6, Zenon
<1> HIDE DEF k, b
<1>6. TypeOK'
  <2>1. block_device_rb' \in [Key -> Disk \cup {None}]
    BY <1>1, <1>3, Zenon DEF IInv, TypeOK
  <2> QED BY <1>1, <2>1, Zenon DEF IInv, TypeOK
<1>7. dstate'[d] = "live" /\ \A e \in Disk : e # d => dstate'[e] = dstate[e]
  BY <1>1, Zenon DEF IInv, TypeOK
<1>8. /\ \A j \in Key : j # k => block_device_rb'[j] = block_device_rb[j]
      /\ block_device_rb'[k] = IF "ctl" \in dref[d] /\ block_device_rb[k] = None
                               THEN d ELSE block_device_rb[k]
  BY <1>1, <1>3, Zenon DEF IInv, TypeOK
<1>9. DiskInv'
  BY <1>1, <1>7, Zenon DEF IInv, DiskInv
<1>10. RefInv'
  BY <1>1, <1>7, Zenon DEF IInv, RefInv
<1>11. MapInv'
  <2>1. \A j \in Key : block_device_rb[j] # None =>
          block_device_rb[j] \in Disk /\ block_device_rb[j] # d
    BY <1>1, InTrees, Zenon DEF IInv, MapInv
  <2>2. b # None
    BY <1>2, Distinct, Zenon
  <2>3. SUFFICES ASSUME NEW j \in Key, block_device_rb'[j] # None
        PROVE  /\ dstate'[block_device_rb'[j]] = "live" /\ "ctl" \in dref[block_device_rb'[j]]
               /\ dfile[block_device_rb'[j]] = j[2]
               /\ backend_rb[j[1]] # None /\ dbackend[block_device_rb'[j]] = backend_rb[j[1]]
    BY <1>1, Zenon DEF MapInv
  <2>4. CASE block_device_rb'[j] = block_device_rb[j]
    BY <1>7, <2>1, <2>3, <2>4, Zenon DEF IInv, MapInv
  <2>5. CASE j = k /\ block_device_rb'[j] = d /\ "ctl" \in dref[d]
    BY <1>3, <1>4, <1>7, <2>2, <2>5, Zenon DEF b
  <2> QED BY <1>8, <2>4, <2>5, Zenon
<1>12. FoundInv'
  <2>1. SUFFICES ASSUME NEW e \in Disk, dstate'[e] = "live", "ctl" \in dref[e], dwrite[e]
                 PROVE  block_device_rb'[<<bdev[dbackend[e]], dfile[e]>>] = e
    BY <1>1, Zenon DEF FoundInv
  <2>2. CASE e = d
    <3>1. block_device_rb'[k] = d
      BY <1>5, <1>8, <2>1, <2>2, Zenon
    <3> QED BY <2>2, <3>1, Zenon DEF k, b
  <2>3. CASE e # d
    <3> DEFINE j == <<bdev[dbackend[e]], dfile[e]>>
    <3>1. dstate[e] = "live"
      BY <1>7, <2>1, <2>3, Zenon
    <3>2. block_device_rb[j] = e
      BY <3>1, <2>1, Zenon DEF IInv, FoundInv
    <3>3. j \in Key
      BY <3>1, Zenon DEF IInv, DiskInv, ClaimInv, Key
    <3>4. e # None
      BY Distinct, Zenon
    <3> QED BY <1>8, <3>2, <3>3, <3>4, Zenon
  <2> QED BY <2>2, <2>3, Zenon
<1>13. FileInv'
  <2>1. \A e \in Disk : HasFile(e)' <=> HasFile(e)
    BY <1>1, <1>7, Zenon DEF HasFile
  <2> QED BY <1>1, <2>1, FileFrame, Zenon DEF IInv
<1>14. ListInv'
  <2>1. Mapped \subseteq Mapped'
    BY <1>8, Distinct, Zenon DEF Mapped
  <2> QED BY <1>1, <2>1, Zenon DEF IInv, ListInv, AllAhead
<1>15. ClaimInv' /\ MountInv' /\ CtlInv' /\ OpenInv'
  BY <1>1, Frame, Zenon DEF IInv
<1> QED BY <1>6, <1>9, <1>10, <1>11, <1>12, <1>13, <1>14, <1>15, Zenon DEF IInv

\* A reference to a disk is dropped; the disk keeps its backend and its file.
LEMMA DiskPutKeeps ==
  ASSUME IInv, NEW d \in Disk, dstate[d] = "live", NEW h, h \in dref[d], DiskPut(d, h),
         UNCHANGED <<claim, lock, backend_rb, bstate, bdev, bref, open_type, reader, cstate,
                     cbackend, cfile>>
  PROVE  /\ dstate' \in [Disk -> {"none", "idr", "opened", "live", "dying", "deleted", "closed"}]
         /\ dref' \in [Disk -> SUBSET (Kind \cup Opener)]
         /\ UNCHANGED <<dbackend, dfile, dwrite, id, idr, stolen>>
         /\ \A e \in Disk : e # d => dstate'[e] = dstate[e] /\ dref'[e] = dref[e]
         /\ dref'[d] = dref[d] \ {h}
         /\ dstate'[d] = "live" \/ (dstate'[d] = "dying" /\ dref'[d] = {})
         /\ ClaimInv' /\ MountInv' /\ DiskInv' /\ CtlInv' /\ RefInv' /\ FileInv'
<1>1. /\ dref' = [dref EXCEPT ![d] = @ \ {h}]
      /\ dstate' = [dstate EXCEPT ![d] = IF @ = "live" /\ dref[d] = {h} THEN "dying" ELSE @]
      /\ UNCHANGED <<dbackend, dfile, dwrite, id, idr, stolen>>
  <2>1. stolen \in BOOLEAN
    BY Zenon DEF IInv, TypeOK
  <2>2. /\ \E g \in {h} :
             /\ dref' = [dref EXCEPT ![d] = @ \ {g}]
             /\ dstate' = [dstate EXCEPT ![d] = IF @ = "live" /\ dref[d] = {g} THEN "dying" ELSE @]
        /\ stolen' = (stolen \/ (h \notin dref[d] /\ dref[d] # {}))
        /\ UNCHANGED <<dbackend, dfile, dwrite, id, idr>>
    BY Zenon DEF DiskPut
  <2>3. stolen' = stolen
    BY <2>1, <2>2, Zenon
  <2> QED BY <2>2, <2>3, Zenon
<1>2. /\ dstate' \in [Disk -> {"none", "idr", "opened", "live", "dying", "deleted", "closed"}]
      /\ dref' \in [Disk -> SUBSET (Kind \cup Opener)]
  BY <1>1, Zenon DEF IInv, TypeOK
<1>3. \A e \in Disk : e # d => dstate'[e] = dstate[e] /\ dref'[e] = dref[e]
  BY <1>1, Zenon DEF IInv, TypeOK
<1>4. dref'[d] = dref[d] \ {h}
  BY <1>1, Zenon DEF IInv, TypeOK
<1>5. dstate'[d] = IF dref[d] = {h} THEN "dying" ELSE "live"
  BY <1>1, Zenon DEF IInv, TypeOK
<1>6. dstate'[d] = "live" \/ (dstate'[d] = "dying" /\ dref'[d] = {})
  BY <1>4, <1>5, Zenon
<1>7. DiskInv'
  BY <1>1, <1>3, <1>6, Zenon DEF IInv, DiskInv
<1>8. RefInv'
  BY <1>1, <1>3, <1>6, Zenon DEF IInv, RefInv
<1>9. FileInv'
  <2>1. \A e \in Disk : HasFile(e)' <=> HasFile(e)
    BY <1>3, <1>6, Zenon DEF HasFile
  <2> QED BY <1>1, <2>1, FileFrame, Zenon DEF IInv
<1>10. ClaimInv' /\ MountInv' /\ CtlInv'
  BY Frame, Zenon DEF IInv
<1> QED BY <1>1, <1>2, <1>3, <1>4, <1>6, <1>7, <1>8, <1>9, <1>10, Zenon

\* The ctl takes a disk out of the tree and lets go of it.
LEMMA DeviceUnmapKeeps ==
  ASSUME IInv, NEW k \in Key, DeviceUnmap(k)
  PROVE  IInv'
<1> DEFINE d == block_device_rb[k]
<1>1. /\ lock = None /\ d # None
      /\ block_device_rb' = [block_device_rb EXCEPT ![k] = None]
      /\ DiskPut(d, "ctl")
      /\ due' = due \ {k}
      /\ UNCHANGED <<claim, lock, backend_rb, bstate, bdev, bref, open_type, reader, cstate, cbackend,
                     cfile, hold, late, stale, io, cursor>>
  BY Zenon DEF DeviceUnmap, Mapped, mount, backend, files, ctl, opener
<1>2. d \in Disk /\ dstate[d] = "live" /\ "ctl" \in dref[d]
      /\ dfile[d] = k[2] /\ dbackend[d] = backend_rb[k[1]] /\ backend_rb[k[1]] # None
  BY <1>1, InTrees, Zenon DEF IInv, MapInv
<1> HIDE DEF d
<1>3. /\ dstate' \in [Disk -> {"none", "idr", "opened", "live", "dying", "deleted", "closed"}]
      /\ dref' \in [Disk -> SUBSET (Kind \cup Opener)]
      /\ UNCHANGED <<dbackend, dfile, dwrite, id, idr, stolen>>
      /\ \A e \in Disk : e # d => dstate'[e] = dstate[e] /\ dref'[e] = dref[e]
      /\ dref'[d] = dref[d] \ {"ctl"}
      /\ dstate'[d] = "live" \/ (dstate'[d] = "dying" /\ dref'[d] = {})
      /\ ClaimInv' /\ MountInv' /\ DiskInv' /\ CtlInv' /\ RefInv' /\ FileInv'
  BY <1>1, <1>2, DiskPutKeeps, Zenon
<1>4. block_device_rb'[k] = None /\ \A j \in Key : j # k => block_device_rb'[j] = block_device_rb[j]
  BY <1>1, Zenon DEF IInv, TypeOK
<1>5. TypeOK'
  <2>1. block_device_rb' \in [Key -> Disk \cup {None}] /\ due' \subseteq Key
    BY <1>1, Zenon DEF IInv, TypeOK
  <2> QED BY <1>1, <1>3, <2>1, Zenon DEF IInv, TypeOK
<1>6. OpenInv'
  <2>1. \A o \in Opener : o # "ctl"
    BY Distinct, Zenon
  <2>2. hold \in [Opener -> Disk \cup {None}]
    BY Zenon DEF IInv, TypeOK
  <2> QED BY <1>1, <1>3, <2>1, <2>2, ZenonT(60) DEF IInv, OpenInv
<1>7. ASSUME NEW j \in Key, j # k, block_device_rb[j] # None PROVE block_device_rb[j] # d
  <2>1. SUFFICES ASSUME block_device_rb[j] = d PROVE FALSE
    BY Zenon
  <2>2. dfile[d] = j[2] /\ dbackend[d] = backend_rb[j[1]] /\ backend_rb[j[1]] # None
    BY <1>7, <2>1, Zenon DEF IInv, MapInv
  <2>3. j[1] \in Dev /\ k[1] \in Dev /\ j = <<j[1], j[2]>> /\ k = <<k[1], k[2]>>
    BY DEF Key
  <2>4. j[1] = k[1]
    <3>1. bdev[backend_rb[j[1]]] = j[1]
      BY <2>2, <2>3, Zenon DEF IInv, MountInv
    <3>2. bdev[backend_rb[k[1]]] = k[1]
      BY <1>2, <2>3, Zenon DEF IInv, MountInv
    <3> QED BY <1>2, <2>2, <3>1, <3>2, Zenon
  <2> QED BY <1>2, <1>7, <2>2, <2>3, <2>4, Zenon
<1>8. MapInv'
  <2>1. \A j \in Key : block_device_rb'[j] # None =>
          block_device_rb'[j] = block_device_rb[j] /\ block_device_rb'[j] # d
    BY <1>4, <1>7, Zenon
  <2>2. d # None
    BY <1>2, Distinct, Zenon
  <2>3. \A j \in Key, e \in Disk : block_device_rb'[j] = e /\ dstate[e] = "live" /\ "ctl" \in dref[e] =>
          /\ dstate'[e] = "live" /\ "ctl" \in dref'[e]
          /\ dfile'[e] = dfile[e] /\ dbackend'[e] = dbackend[e]
    <3>1. ASSUME NEW j \in Key, NEW e \in Disk, block_device_rb'[j] = e PROVE e # d
      BY <2>1, <3>1, Distinct, Zenon
    <3> QED BY <1>3, <3>1, Zenon
  <2>4. TypeOK /\ MapInv
    BY Zenon DEF IInv
  <2> QED BY <1>1, <2>1, <2>3, <2>4, MapKept, Zenon
<1>9. FoundInv'
  <2>1. SUFFICES ASSUME NEW e \in Disk, dstate'[e] = "live", "ctl" \in dref'[e], dwrite[e]
                 PROVE  block_device_rb'[<<bdev[dbackend[e]], dfile[e]>>] = e
    BY <1>1, <1>3, Zenon DEF FoundInv
  <2>2. e # d /\ dstate[e] = "live" /\ "ctl" \in dref[e]
    BY <1>3, <2>1, Zenon
  <2> DEFINE j == <<bdev[dbackend[e]], dfile[e]>>
  <2>3. block_device_rb[j] = e
    BY <2>1, <2>2, Zenon DEF IInv, FoundInv
  <2>4. j \in Key
    BY <2>2, Zenon DEF IInv, DiskInv, ClaimInv, Key
  <2>5. j # k
    BY <2>2, <2>3, Zenon DEF d
  <2> QED BY <1>4, <2>3, <2>4, <2>5, Zenon
<1>10. ListInv'
  <2>1. Mapped' = Mapped \ {k}
    BY <1>4, Zenon DEF Mapped
  <2> QED BY <1>1, <2>1, Zenon DEF IInv, ListInv, AllAhead
<1> QED BY <1>3, <1>5, <1>6, <1>8, <1>9, <1>10, Zenon DEF IInv

\* Somebody else than the ctl lets go of a disk: the trees stay as they are.
LEMMA OtherPutKeeps ==
  ASSUME IInv, NEW d \in Disk, dstate[d] = "live", NEW h, h \in dref[d], h # "ctl", DiskPut(d, h),
         UNCHANGED <<claim, lock, backend_rb, block_device_rb, bstate, bdev, bref, open_type, reader,
                     cstate, cbackend, cfile, cursor, due>>
  PROVE  /\ OpenerType' => TypeOK'
         /\ \A e \in Disk : dref[e] \ {h} \subseteq dref'[e]
         /\ ClaimInv' /\ MountInv' /\ DiskInv' /\ CtlInv' /\ RefInv' /\ MapInv' /\ FoundInv'
         /\ FileInv' /\ ListInv'
<1>1. /\ dstate' \in [Disk -> {"none", "idr", "opened", "live", "dying", "deleted", "closed"}]
      /\ dref' \in [Disk -> SUBSET (Kind \cup Opener)]
      /\ UNCHANGED <<dbackend, dfile, dwrite, id, idr, stolen>>
      /\ \A e \in Disk : e # d => dstate'[e] = dstate[e] /\ dref'[e] = dref[e]
      /\ dref'[d] = dref[d] \ {h}
      /\ dstate'[d] = "live" \/ (dstate'[d] = "dying" /\ dref'[d] = {})
      /\ ClaimInv' /\ MountInv' /\ DiskInv' /\ CtlInv' /\ RefInv' /\ FileInv'
  BY DiskPutKeeps, Zenon
<1>2. OpenerType' => TypeOK'
  BY <1>1, Zenon DEF IInv, TypeOK, OpenerType
<1>3. \A e \in Disk : dref[e] \ {h} \subseteq dref'[e]
  BY <1>1, Zenon
<1>4. \A e \in Disk : dstate[e] = "live" /\ "ctl" \in dref[e] => dstate'[e] = "live" /\ "ctl" \in dref'[e]
  BY <1>1, Zenon
<1>5. \A e \in Disk : dstate'[e] = "live" /\ "ctl" \in dref'[e] => dstate[e] = "live" /\ "ctl" \in dref[e]
  BY <1>1, Zenon
<1>6. MapInv'
  <2> QED BY <1>1, <1>4, MapKept, Zenon DEF IInv
<1>7. FoundInv'
  BY <1>1, <1>5, Zenon DEF IInv, FoundInv
<1>8. ListInv'
  BY Frame, Zenon DEF IInv
<1> QED BY <1>1, <1>2, <1>3, <1>6, <1>7, <1>8, Zenon

\* The rmdir of a disk.
LEMMA ReleaseBlockDeviceKeeps ==
  ASSUME IInv, NEW d \in Disk, ReleaseBlockDevice(d)
  PROVE  IInv'
<1>1. /\ dstate[d] = "live" /\ "configfs" \in dref[d] /\ DiskPut(d, "configfs")
      /\ UNCHANGED <<claim, lock, backend_rb, block_device_rb, bstate, bdev, bref, open_type, reader,
                     cstate, cbackend, cfile, cursor, due, hold, late, stale, io>>
  BY Zenon DEF ReleaseBlockDevice, mount, backend, files, ctl, opener, listing
<1>2. "configfs" # "ctl"
  BY Zenon
<1>3. /\ OpenerType' => TypeOK'
      /\ \A e \in Disk : dref[e] \ {"configfs"} \subseteq dref'[e]
      /\ ClaimInv' /\ MountInv' /\ DiskInv' /\ CtlInv' /\ RefInv' /\ MapInv' /\ FoundInv'
      /\ FileInv' /\ ListInv'
  BY <1>1, <1>2, OtherPutKeeps, Zenon
<1>4. OpenerType'
  <2>1. stolen' \in BOOLEAN
    BY <1>1, Zenon DEF DiskPut
  <2> QED BY <1>1, <2>1, Zenon DEF IInv, TypeOK, OpenerType
<1>5. OpenInv'
  <2>1. hold \in [Opener -> Disk \cup {None}]
    BY Zenon DEF IInv, TypeOK
  <2> QED BY <1>1, <1>3, <2>1, Distinct, Zenon DEF IInv, OpenInv
<1> QED BY <1>3, <1>4, <1>5, Zenon DEF IInv

\* A program closes a disk: it drops the reference it has, or none, unless it
\* takes one from somebody else.
LEMMA ReleaseKeeps ==
  ASSUME IInv, NEW o \in Opener, Release(o), ~stolen'
  PROVE  IInv'
<1>1. /\ hold[o] # None
      /\ hold' = [hold EXCEPT ![o] = None]
      /\ late' = late \ {o} /\ stale' = stale \ {o} /\ io' = io
      /\ DiskPut(hold[o], o)
      /\ UNCHANGED <<claim, lock, backend_rb, block_device_rb, bstate, bdev, bref, open_type, reader,
                     cstate, cbackend, cfile, cursor, due>>
  BY Zenon DEF Release, mount, backend, files, ctl, listing
<1>2. OpenerType
  BY Zenon DEF IInv, TypeOK, OpenerType
<1>3. OpenerType'
  <2>1. stolen' \in BOOLEAN
    BY <1>1, Zenon DEF DiskPut
  <2> QED BY <1>1, <1>2, <2>1, Zenon DEF OpenerType
<1>4. hold'[o] = None /\ \A p \in Opener : p # o => hold'[p] = hold[p]
  BY <1>1, <1>2, Zenon DEF OpenerType
<1>5. hold[o] \in Disk /\ o # "ctl" /\ o # "configfs"
  BY <1>1, <1>2, Distinct, Zenon DEF OpenerType
<1>6. CASE o \notin dref[hold[o]]
  <2>1. dref[hold[o]] = {}
    BY <1>1, <1>6, Zenon DEF DiskPut
  <2>2. /\ dref' = [dref EXCEPT ![hold[o]] = @ \ {o}]
        /\ dstate' = [dstate EXCEPT ![hold[o]] =
                         IF @ = "live" /\ dref[hold[o]] = {o} THEN "dying" ELSE @]
        /\ UNCHANGED <<dbackend, dfile, dwrite, id, idr>>
    BY <1>1, <2>1, Zenon DEF DiskPut
  <2>3. UNCHANGED <<dstate, dref>>
    <3>1. /\ dstate \in [Disk -> {"none", "idr", "opened", "live", "dying", "deleted", "closed"}]
          /\ dref \in [Disk -> SUBSET (Kind \cup Opener)]
      BY Zenon DEF IInv, TypeOK
    <3> QED BY <1>5, <2>1, <2>2, <3>1, SMT
  <2>4. TypeOK'
    BY <1>1, <1>3, <2>2, <2>3, Zenon DEF IInv, TypeOK, OpenerType
  <2>5. OpenInv'
    BY <1>1, <1>4, <2>3, Zenon DEF IInv, OpenInv
  <2>6. FileInv'
    BY <1>1, <2>2, <2>3, FileFrame, Zenon DEF IInv, HasFile
  <2>7. ClaimInv' /\ MountInv' /\ DiskInv' /\ CtlInv' /\ RefInv' /\ MapInv' /\ FoundInv' /\ ListInv'
    BY <1>1, <2>2, <2>3, Frame, Zenon DEF IInv
  <2> QED BY <2>4, <2>5, <2>6, <2>7, Zenon DEF IInv
<1>7. CASE o \in dref[hold[o]]
  <2>1. dstate[hold[o]] = "live"
    <3> DEFINE d == hold[o]
    <3>1. dref[d] # {} /\ dref[d] # {"configfs"} /\ dref[d] # {"ctl"}
      BY <1>5, <1>7, Zenon
    <3>2. dstate[d] \in {"none", "idr", "opened", "live", "dying", "deleted", "closed"}
      BY <1>5, Zenon DEF IInv, TypeOK
    <3> HIDE DEF d
    <3>3. d \in Disk
      BY <1>5, Zenon DEF d
    <3> QED BY <3>1, <3>2, <3>3, Zenon DEF IInv, RefInv, d
  <2>2. /\ TypeOK'
        /\ \A e \in Disk : dref[e] \ {o} \subseteq dref'[e]
        /\ ClaimInv' /\ MountInv' /\ DiskInv' /\ CtlInv' /\ RefInv' /\ MapInv' /\ FoundInv'
        /\ FileInv' /\ ListInv'
    BY <1>1, <1>3, <1>5, <1>7, <2>1, OtherPutKeeps, Zenon
  <2>3. OpenInv'
    BY <1>1, <1>2, <1>4, <2>2, Zenon DEF IInv, OpenInv, OpenerType
  <2> QED BY <2>2, <2>3, Zenon DEF IInv
<1> QED BY <1>6, <1>7, Zenon

\* A bio that waits for its file changes nothing else.
LEMMA BioKeeps ==
  ASSUME IInv, NEW o \in Opener, SubmitBio(o) \/ MapBio(o)
  PROVE  IInv'
<1>1. UNCHANGED <<claim, lock, backend_rb, block_device_rb, bstate, bdev, bref, open_type, reader,
                  dstate, dbackend, dfile, dwrite, dref, id, idr, cstate, cbackend, cfile, hold, late,
                  stale, stolen, cursor, due>>
  BY Zenon DEF SubmitBio, MapBio, mount, backend, files, disk, ctl, listing
<1>2. io' = io \cup {o} \/ io' = io \ {o}
  BY Zenon DEF SubmitBio, MapBio
<1>3. TypeOK'
  <2>1. io' \subseteq Opener
    BY <1>2, Zenon DEF IInv, TypeOK
  <2> QED BY <1>1, <2>1, Zenon DEF IInv, TypeOK
<1>4. FileInv'
  BY <1>1, FileFrame, Zenon DEF IInv, HasFile
<1>5. ClaimInv' /\ MountInv' /\ DiskInv' /\ CtlInv' /\ RefInv' /\ OpenInv' /\ MapInv' /\ FoundInv' /\ ListInv'
  BY <1>1, Frame, Zenon DEF IInv
<1> QED BY <1>3, <1>4, <1>5, Zenon DEF IInv

\* A program that opens a disk somebody holds is counted.
LEMMA OpenKeeps ==
  ASSUME IInv, NEW o \in Opener, NEW d \in Disk, Open(o, d)
  PROVE  IInv'
<1>1. /\ hold[o] = None /\ dstate[d] \in {"live", "dying"}
      /\ hold' = [hold EXCEPT ![o] = d]
      /\ IF dref[d] = {}
         THEN late' = late \cup {o} /\ UNCHANGED dref
         ELSE dref' = [dref EXCEPT ![d] = @ \cup {o}] /\ UNCHANGED late
      /\ UNCHANGED <<claim, lock, backend_rb, block_device_rb, bstate, bdev, bref, open_type, reader,
                     dstate, dbackend, dfile, dwrite, id, idr, cstate, cbackend, cfile, stale, io,
                     stolen, cursor, due>>
  BY Zenon DEF Open, mount, backend, files, ctl, listing
<1>2. /\ dref \in [Disk -> SUBSET (Kind \cup Opener)]
      /\ hold \in [Opener -> Disk \cup {None}] /\ late \subseteq Opener
  BY Zenon DEF IInv, TypeOK
<1>3. dref' \in [Disk -> SUBSET (Kind \cup Opener)] /\ late' \subseteq Opener
  BY <1>1, <1>2
<1>4. TypeOK'
  BY <1>1, <1>3, Zenon DEF IInv, TypeOK
<1>5. /\ \A e \in Disk : e # d => dref'[e] = dref[e]
      /\ \A e \in Disk : dref[e] \subseteq dref'[e] /\ ("ctl" \in dref'[e] => "ctl" \in dref[e])
      /\ dref[d] = {} => dref'[d] = {}
      /\ dref[d] # {} => o \in dref'[d]
  BY <1>1, <1>2, Distinct
<1>6. RefInv'
  BY <1>1, <1>5, Zenon DEF IInv, RefInv
<1>7. OpenInv'
  <2>1. hold'[o] = d /\ \A p \in Opener : p # o => hold'[p] = hold[p]
    BY <1>1, <1>2, Zenon
  <2>2. o \notin late' => o \in dref'[d]
    BY <1>1, <1>5, Zenon
  <2>3. \A p \in Opener : p # o /\ p \notin late' => p \notin late
    BY <1>1, Zenon
  <2> QED BY <1>2, <1>5, <2>1, <2>2, <2>3, SMTT(60) DEF IInv, OpenInv
<1>8. MapInv'
  <2>1. block_device_rb \in [Key -> Disk \cup {None}]
    BY Zenon DEF IInv, TypeOK
  <2>2. \A k \in Key : block_device_rb[k] # None => block_device_rb[k] \in Disk
    BY <2>1, Zenon
  <2>3. \A k \in Key : block_device_rb[k] # None => "ctl" \in dref'[block_device_rb[k]]
    BY <1>5, <2>2, Zenon DEF IInv, MapInv
  <2> QED BY <1>1, <2>3, Zenon DEF IInv, MapInv
<1>9. FoundInv'
  BY <1>1, <1>5, Zenon DEF IInv, FoundInv
<1>10. FileInv'
  BY <1>1, FileFrame, Zenon DEF IInv, HasFile
<1>11. ClaimInv' /\ MountInv' /\ DiskInv' /\ CtlInv' /\ ListInv'
  BY <1>1, Frame, Zenon DEF IInv
<1> QED BY <1>4, <1>6, <1>7, <1>8, <1>9, <1>10, <1>11, Zenon DEF IInv

\* The kernel forgets a disk nobody holds.
LEMMA DelGendiskKeeps ==
  ASSUME IInv, NEW d \in Disk, DelGendisk(d)
  PROVE  IInv'
<1>1. /\ dstate[d] = "dying"
      /\ dstate' = [dstate EXCEPT ![d] = "deleted"]
      /\ UNCHANGED <<claim, lock, backend_rb, block_device_rb, bstate, bdev, bref, open_type, reader,
                     dbackend, dfile, dwrite, dref, id, idr, cstate, cbackend, cfile, hold, late, stale, io, stolen,
                     cursor, due>>
  BY Zenon DEF DelGendisk, mount, backend, files, ctl, opener, listing
<1>2. TypeOK'
  BY <1>1, Zenon DEF IInv, TypeOK
<1>3. dstate'[d] = "deleted" /\ \A e \in Disk : e # d => dstate'[e] = dstate[e]
  BY <1>1, Zenon DEF IInv, TypeOK
<1>4. DiskInv'
  BY <1>1, <1>3, Zenon DEF IInv, DiskInv
<1>5. RefInv'
  BY <1>1, <1>3, Zenon DEF IInv, RefInv
<1>6. MapInv'
  <2>1. \A e \in Disk : dstate[e] = "live" => dstate'[e] = "live"
    BY <1>1, <1>3, Zenon
  <2> QED BY <1>1, <2>1, MapKept, Zenon DEF IInv
<1>7. FoundInv'
  BY <1>1, <1>3, Zenon DEF IInv, FoundInv
<1>8. FileInv'
  <2>1. \A e \in Disk : HasFile(e)' <=> HasFile(e)
    BY <1>1, <1>3, Zenon DEF HasFile
  <2> QED BY <1>1, <2>1, FileFrame, Zenon DEF IInv
<1>9. ClaimInv' /\ MountInv' /\ CtlInv' /\ OpenInv' /\ ListInv'
  BY <1>1, Frame, Zenon DEF IInv
<1> QED BY <1>2, <1>4, <1>5, <1>6, <1>7, <1>8, <1>9, Zenon DEF IInv

\* The work item closes the file of the disk.
LEMMA DiskCloseFileKeeps ==
  ASSUME IInv, NEW d \in Disk, DiskCloseFile(d)
  PROVE  IInv'
<1>1. /\ dstate[d] = "deleted"
      /\ dstate' = [dstate EXCEPT ![d] = "closed"]
      /\ CloseFile(dbackend[d], dfile[d], d)
      /\ UNCHANGED <<claim, lock, backend_rb, block_device_rb, bstate, bdev, bref, dbackend, dfile,
                     dwrite, dref, id, idr, cstate, cbackend, cfile, hold, late, stale, io, stolen, cursor, due>>
  BY Zenon DEF DiskCloseFile, mount, backend, ctl, opener, listing
<1>2. dbackend[d] \in Backend /\ dfile[d] \in File
  BY <1>1, Zenon DEF IInv, DiskInv
<1>3. dstate'[d] = "closed" /\ \A e \in Disk : e # d => dstate'[e] = dstate[e]
  BY <1>1, Zenon DEF IInv, TypeOK
<1>4. /\ open_type' \in [Backend -> [File -> {"closed", "readonly", "readwrite"}]]
      /\ reader' \in [Backend -> [File -> SUBSET (Disk \cup Ctl)]]
      /\ FileInv'
  <2>1. \A a \in Backend, g \in File :
          DiskHandle(a, g)' = IF a = dbackend[d] /\ g = dfile[d] THEN DiskHandle(a, g) \ {d}
                              ELSE DiskHandle(a, g)
    BY <1>1, <1>3, ZenonT(60) DEF DiskHandle, HasFile
  <2>2. \A a \in Backend, g \in File : CtlHandle(a, g)' = CtlHandle(a, g) /\ d \notin CtlHandle(a, g)
    BY <1>1, Distinct, Zenon DEF CtlHandle
  <2>3. d \in Handle(dbackend[d], dfile[d])
    BY <1>1, Zenon DEF Handle, DiskHandle, HasFile
  <2>4. \A a \in Backend, g \in File :
          /\ Handle(a, g)' = IF a = dbackend[d] /\ g = dfile[d] THEN Handle(a, g) \ {d}
                             ELSE Handle(a, g)
          /\ DiskHandle(a, g)' \subseteq DiskHandle(a, g)
    BY <2>1, <2>2 DEF Handle
  <2>5. \A a \in Backend, g \in File :
          /\ Handle(a, g)' = IF a = dbackend[d] /\ g = dfile[d] THEN Handle(a, g) \ {d}
                             ELSE Handle(a, g)
          /\ DiskHandle(a, g)' \subseteq DiskHandle(a, g)
          /\ \A e \in DiskHandle(a, g)' : dwrite'[e] = dwrite[e]
    BY <1>1, <2>4, Zenon
  <2>6. TypeOK /\ FileInv
    BY Zenon DEF IInv
  <2> QED BY <1>1, <1>2, <2>3, <2>5, <2>6, ClosedFile, ZenonT(60)
<1>5. TypeOK'
  BY <1>1, <1>4, Zenon DEF IInv, TypeOK
<1>6. DiskInv'
  BY <1>1, <1>3, Zenon DEF IInv, DiskInv
<1>7. RefInv'
  BY <1>1, <1>3, Zenon DEF IInv, RefInv
<1>8. MapInv'
  <2>1. \A e \in Disk : dstate[e] = "live" => dstate'[e] = "live"
    BY <1>1, <1>3, Zenon
  <2> QED BY <1>1, <2>1, MapKept, Zenon DEF IInv
<1>9. FoundInv'
  BY <1>1, <1>3, Zenon DEF IInv, FoundInv
<1>10. ClaimInv' /\ MountInv' /\ CtlInv' /\ OpenInv' /\ ListInv'
  BY <1>1, Frame, Zenon DEF IInv
<1> QED BY <1>4, <1>5, <1>6, <1>7, <1>8, <1>9, <1>10, Zenon DEF IInv

-----------------------------------------------------------------------------
(* Descriptors and listings.                                               *)

\* A descriptor opens a file and holds the backend.
LEMMA FileBindKeeps ==
  ASSUME IInv, NEW c \in Ctl, NEW dev \in Dev, NEW f \in File, NEW write \in BOOLEAN,
         FileBind(c, dev, f, write)
  PROVE  IInv'
<1> DEFINE b == backend_rb[dev]
<1>1. /\ lock = None /\ cstate[c] = "unbound" /\ b # None
      /\ OpenFile(b, f, write, c)
      /\ bref' = [bref EXCEPT ![b] = @ \cup {c}]
      /\ cstate' = [cstate EXCEPT ![c] = "bound"]
      /\ cbackend' = [cbackend EXCEPT ![c] = b]
      /\ cfile' = [cfile EXCEPT ![c] = f]
      /\ UNCHANGED <<claim, lock, backend_rb, bstate, bdev, block_device_rb, dstate, dbackend, dfile,
                     dwrite, dref, id, idr, hold, late, stale, io, stolen, cursor, due>>
  BY Zenon DEF FileBind, BackendGet, mount, disk, opener, listing
<1>2. b \in Backend /\ bstate[b] = "live"
  BY <1>1, InTrees, Zenon DEF IInv, MountInv
<1> HIDE DEF b
<1>3. /\ \A x \in Ctl : x # c =>
           cstate'[x] = cstate[x] /\ cbackend'[x] = cbackend[x] /\ cfile'[x] = cfile[x]
      /\ cstate'[c] = "bound" /\ cbackend'[c] = b /\ cfile'[c] = f
      /\ \A a \in Backend : bref[a] \subseteq bref'[a] /\ ("ctl" \in bref'[a] => "ctl" \in bref[a])
      /\ c \in bref'[b]
  <2>1. /\ cstate \in [Ctl -> {"unbound", "bound", "closed"}]
        /\ cbackend \in [Ctl -> Backend \cup {None}] /\ cfile \in [Ctl -> File \cup {None}]
        /\ bref \in [Backend -> SUBSET (Kind \cup Disk \cup Ctl)]
    BY Zenon DEF IInv, TypeOK
  <2>2. c # "ctl"
    BY Distinct, Zenon
  <2>3. \A a \in Backend : bref'[a] = IF a = b THEN bref[a] \cup {c} ELSE bref[a]
    BY <1>1, <2>1, Zenon
  <2>4. /\ \A a \in Backend : bref[a] \subseteq bref'[a] /\ ("ctl" \in bref'[a] => "ctl" \in bref[a])
        /\ c \in bref'[b]
    <3>1. ASSUME NEW a \in Backend
          PROVE  bref[a] \subseteq bref'[a] /\ ("ctl" \in bref'[a] => "ctl" \in bref[a])
      <4>1. CASE a = b
        <5>1. bref'[a] = bref[a] \cup {c}  BY <2>3, <4>1, ZenonT(60)
        <5> QED BY <2>2, <5>1, Zenon
      <4>2. CASE a # b  BY <2>3, <4>2, Zenon
      <4> QED BY <4>1, <4>2, Zenon
    <3> QED BY <1>2, <2>3, <3>1, Zenon
  <2> QED BY <1>1, <2>1, <2>4, Zenon
<1>4. /\ open_type' \in [Backend -> [File -> {"closed", "readonly", "readwrite"}]]
      /\ reader' \in [Backend -> [File -> SUBSET (Disk \cup Ctl)]]
      /\ FileInv'
  <2>1. \A a \in Backend, g \in File :
          CtlHandle(a, g)' = IF a = b /\ g = f THEN CtlHandle(a, g) \cup {c} ELSE CtlHandle(a, g)
    BY <1>1, <1>3 DEF CtlHandle
  <2>2. \A a \in Backend, g \in File : DiskHandle(a, g)' = DiskHandle(a, g)
    BY <1>1, Zenon DEF DiskHandle, HasFile
  <2>3. \A a \in Backend, g \in File :
          Handle(a, g)' = IF a = b /\ g = f THEN Handle(a, g) \cup {c} ELSE Handle(a, g)
    BY <2>1, <2>2 DEF Handle
  <2>4. c \notin Disk
    BY Distinct, Zenon
  <2>5. \A a \in Backend, g \in File :
          /\ Handle(a, g)' = IF a = b /\ g = f THEN Handle(a, g) \cup {c} ELSE Handle(a, g)
          /\ DiskHandle(a, g)' \subseteq DiskHandle(a, g) \cup (IF a = b /\ g = f THEN {c} ELSE {})
    BY <2>2, <2>3, Zenon
  <2>6. c \in Disk => (dwrite[c] <=> write)
    BY <2>4, Zenon
  <2>7. c \in Disk \cup Ctl /\ UNCHANGED dwrite /\ OpenFile(b, f, write, c) /\ TypeOK /\ FileInv
    BY <1>1, Zenon DEF IInv
  <2>8. PICK e \in Backend : e = b
    BY <1>2, Zenon
  <2>9. DiskHandle(e, f)' \subseteq Disk
    BY Zenon DEF DiskHandle
  <2>10. \A a \in Backend, g \in File :
           /\ Handle(a, g)' = IF a = e /\ g = f THEN Handle(a, g) \cup {c} ELSE Handle(a, g)
           /\ DiskHandle(a, g)' \subseteq DiskHandle(a, g) \cup (IF a = e /\ g = f THEN {c} ELSE {})
    BY <2>5, <2>8, Zenon
  <2> QED BY <2>6, <2>7, <2>8, <2>9, <2>10, OpenedFile, SMTT(60)
<1>5. TypeOK'
  <2>1. /\ cstate' \in [Ctl -> {"unbound", "bound", "closed"}]
        /\ cbackend' \in [Ctl -> Backend \cup {None}] /\ cfile' \in [Ctl -> File \cup {None}]
    BY <1>1, <1>2, Zenon DEF IInv, TypeOK
  <2>2. bref' \in [Backend -> SUBSET (Kind \cup Disk \cup Ctl)]
    BY <1>1, <1>2, Zenon DEF IInv, TypeOK
  <2> QED BY <1>1, <1>4, <2>1, <2>2, ZenonT(60) DEF IInv, TypeOK
<1>6. MountInv'
  <2>1. backend_rb \in [Dev -> Backend \cup {None}]
    BY Zenon DEF IInv, TypeOK
  <2>2. \A e \in Dev : backend_rb[e] # None => backend_rb[e] \in Backend
    BY <2>1, Zenon
  <2>3. \A a \in Backend : "ctl" \in bref'[a] <=> "ctl" \in bref[a]
    BY <1>3, Distinct, Zenon
  <2> QED BY <1>1, <2>2, <2>3, Zenon DEF IInv, MountInv
<1>7. DiskInv'
  BY <1>1, <1>3, Zenon DEF IInv, DiskInv
<1>8. CtlInv'
  BY <1>1, <1>2, <1>3, ZenonT(60) DEF IInv, CtlInv
<1>9. ClaimInv' /\ RefInv' /\ OpenInv' /\ MapInv' /\ FoundInv' /\ ListInv'
  BY <1>1, Frame, Zenon DEF IInv
<1> QED BY <1>4, <1>5, <1>6, <1>7, <1>8, <1>9, Zenon DEF IInv

\* A descriptor closes its file, but keeps the backend.
LEMMA CtlCloseKeeps ==
  ASSUME IInv, NEW c \in Ctl, CtlClose(c)
  PROVE  IInv'
<1>1. /\ cstate[c] = "bound"
      /\ CloseFile(cbackend[c], cfile[c], c)
      /\ cstate' = [cstate EXCEPT ![c] = "closed"]
      /\ UNCHANGED <<claim, lock, backend_rb, block_device_rb, bstate, bdev, bref, dstate, dbackend,
                     dfile, dwrite, dref, id, idr, cbackend, cfile, hold, late, stale, io, stolen, cursor, due>>
  BY Zenon DEF CtlClose, mount, backend, disk, opener, listing
<1>2. cbackend[c] \in Backend /\ cfile[c] \in File
  BY <1>1, Zenon DEF IInv, CtlInv
<1>3. cstate'[c] = "closed" /\ \A x \in Ctl : x # c => cstate'[x] = cstate[x]
  BY <1>1, Zenon DEF IInv, TypeOK
<1>4. /\ open_type' \in [Backend -> [File -> {"closed", "readonly", "readwrite"}]]
      /\ reader' \in [Backend -> [File -> SUBSET (Disk \cup Ctl)]]
      /\ FileInv'
  <2>1. \A a \in Backend, g \in File :
          CtlHandle(a, g)' = IF a = cbackend[c] /\ g = cfile[c] THEN CtlHandle(a, g) \ {c}
                             ELSE CtlHandle(a, g)
    BY <1>1, <1>3, Zenon DEF CtlHandle
  <2>2. \A a \in Backend, g \in File : DiskHandle(a, g)' = DiskHandle(a, g) /\ c \notin DiskHandle(a, g)
    BY <1>1, Distinct, Zenon DEF DiskHandle, HasFile
  <2>3. c \in Handle(cbackend[c], cfile[c])
    BY <1>1, Zenon DEF Handle, CtlHandle
  <2>4. \A a \in Backend, g \in File :
          /\ Handle(a, g)' = IF a = cbackend[c] /\ g = cfile[c] THEN Handle(a, g) \ {c}
                             ELSE Handle(a, g)
          /\ DiskHandle(a, g)' \subseteq DiskHandle(a, g)
    BY <2>1, <2>2 DEF Handle
  <2>5. \A a \in Backend, g \in File :
          /\ Handle(a, g)' = IF a = cbackend[c] /\ g = cfile[c] THEN Handle(a, g) \ {c}
                             ELSE Handle(a, g)
          /\ DiskHandle(a, g)' \subseteq DiskHandle(a, g)
          /\ \A e \in DiskHandle(a, g)' : dwrite'[e] = dwrite[e]
    BY <1>1, <2>4, Zenon
  <2>6. TypeOK /\ FileInv
    BY Zenon DEF IInv
  <2> QED BY <1>1, <1>2, <2>3, <2>5, <2>6, ClosedFile, ZenonT(60)
<1>5. TypeOK'
  BY <1>1, <1>4, Zenon DEF IInv, TypeOK
<1>6. CtlInv'
  BY <1>1, <1>3, Zenon DEF IInv, CtlInv
<1>7. ClaimInv' /\ MountInv' /\ DiskInv' /\ RefInv' /\ OpenInv' /\ MapInv' /\ FoundInv' /\ ListInv'
  BY <1>1, Frame, Zenon DEF IInv
<1> QED BY <1>4, <1>5, <1>6, <1>7, Zenon DEF IInv

\* And then lets go of the backend.
LEMMA CtlPutKeeps ==
  ASSUME IInv, NEW c \in Ctl, CtlPut(c)
  PROVE  IInv'
<1> DEFINE b == cbackend[c]
<1>1. /\ cstate[c] = "closed"
      /\ BackendPut(b, c)
      /\ cstate' = [cstate EXCEPT ![c] = "unbound"]
      /\ cbackend' = [cbackend EXCEPT ![c] = None]
      /\ cfile' = [cfile EXCEPT ![c] = None]
      /\ UNCHANGED <<claim, lock, backend_rb, block_device_rb, open_type, reader, dstate, dbackend,
                     dfile, dwrite, dref, id, idr, hold, late, stale, io, stolen, cursor, due>>
  BY Zenon DEF CtlPut, mount, files, disk, opener, listing
<1>2. b \in Backend /\ bstate[b] = "live"
  BY <1>1, Zenon DEF IInv, CtlInv
<1> HIDE DEF b
<1>3. /\ bref' \in [Backend -> SUBSET (Kind \cup Disk \cup Ctl)]
      /\ bstate' \in [Backend -> {"none", "opening", "live", "closing", "closed"}]
      /\ UNCHANGED bdev
  BY <1>1, <1>2, PutFacts, Zenon DEF IInv
<1>4. TypeOK'
  BY <1>1, <1>3, Zenon DEF IInv, TypeOK
<1>5. cstate'[c] = "unbound" /\ \A x \in Ctl : x # c =>
        cstate'[x] = cstate[x] /\ cbackend'[x] = cbackend[x] /\ cfile'[x] = cfile[x]
  BY <1>1, Zenon DEF IInv, TypeOK
<1>6. c # "ctl" /\ c \notin Disk
  BY Distinct, Zenon
<1>7. ClaimInv' /\ MountInv'
  BY <1>1, <1>2, <1>6, PutKeeps, Zenon DEF IInv
<1>8. DiskInv'
  BY <1>1, <1>2, <1>6, PutHolders, Zenon
<1>9. CtlInv'
  <2>1. \A a \in Backend : \A x : x \in bref[a] /\ x # c /\ bstate[a] = "live" =>
          x \in bref'[a] /\ bstate'[a] = "live"
    BY <1>1, <1>2, PutKeeps, Zenon DEF IInv
  <2> QED BY <1>5, <2>1 DEF IInv, CtlInv
<1>10. FileInv'
  <2>1. \A e \in Disk : HasFile(e)' <=> HasFile(e)
    BY <1>1, Zenon DEF HasFile
  <2>2. \A x \in Ctl : (cstate'[x] = "bound") <=> (cstate[x] = "bound")
    BY <1>1, <1>5, Zenon
  <2>3. \A x \in Ctl : cstate[x] = "bound" => cbackend'[x] = cbackend[x] /\ cfile'[x] = cfile[x]
    BY <1>1, <1>5, Zenon
  <2> QED BY <1>1, <2>1, <2>2, <2>3, FileFrame, Zenon DEF IInv
<1>11. RefInv' /\ OpenInv' /\ MapInv' /\ FoundInv' /\ ListInv'
  BY <1>1, <1>3, Frame, Zenon DEF IInv
<1> QED BY <1>4, <1>7, <1>8, <1>9, <1>10, <1>11, Zenon DEF IInv

\* A step that only moves a listing on.
LEMMA ListingKeeps ==
  ASSUME IInv, UNCHANGED <<mount, block_device_rb, backend, files, disk, ctl, opener>>,
         cursor' \in Key \cup {<<0, 0>>, None}, due' \subseteq Mapped, AllAhead'
  PROVE  IInv'
<1>1. UNCHANGED <<claim, lock, backend_rb, block_device_rb, bstate, bdev, bref, open_type, reader,
                  dstate, dbackend, dfile, dwrite, dref, id, idr, cstate, cbackend, cfile, hold, late, stale, io, stolen>>
  BY Zenon DEF mount, backend, files, disk, ctl, opener
<1>2. TypeOK'
  BY <1>1, Zenon DEF IInv, TypeOK, Mapped
<1>3. ListInv'
  BY <1>1, Zenon DEF ListInv, Mapped
<1>4. FileInv'
  BY <1>1, FileFrame, Zenon DEF IInv, HasFile
<1>5. ClaimInv' /\ MountInv' /\ DiskInv' /\ CtlInv' /\ RefInv' /\ OpenInv' /\ MapInv' /\ FoundInv'
  BY <1>1, Frame, Zenon DEF IInv
<1> QED BY <1>2, <1>3, <1>4, <1>5, Zenon DEF IInv

\* Device numbers start at one, so every disk is ahead of a new listing.
LEMMA ListStartKeeps ==
  ASSUME IInv, ListStart
  PROVE  IInv'
<1>1. cursor' = <<0, 0>> /\ due' = Mapped
      /\ UNCHANGED <<mount, block_device_rb, backend, files, disk, ctl, opener>>
  BY Zenon DEF ListStart
<1>2. \A k \in Key : k[1] \in Nat /\ k[1] > 0
  BY KeyType
<1>3. <<0, 0>> # None
  BY RegistryAssumption
<1>4. AllAhead'
  BY <1>1, <1>2, <1>3, Zenon DEF AllAhead, Before, Mapped
<1> QED BY <1>1, <1>4, ListingKeeps, Zenon

\* The next disk of a listing is the first one after the last, so what is due
\* is still ahead; and when there is none, nothing was due.
LEMMA DeviceListKeeps ==
  ASSUME IInv, DeviceList
  PROVE  IInv'
<1>1. /\ cursor # None
      /\ UNCHANGED <<mount, block_device_rb, backend, files, disk, ctl, opener>>
  BY Zenon DEF DeviceList
<1>2. cursor[1] \in Nat /\ cursor[2] \in Nat
  <2>1. cursor \in Key \/ cursor = <<0, 0>>
    BY <1>1, Zenon DEF IInv, TypeOK
  <2> QED BY <2>1, KeyType
<1>3. \A k \in Key : k[1] \in Nat /\ k[2] \in Nat /\ k = <<k[1], k[2]>> /\ k # None
  BY KeyType, Zenon
<1>4. due \subseteq Mapped /\ \A l \in due : Before(cursor, l)
  BY <1>1, Zenon DEF IInv, ListInv, AllAhead
<1>5. \A l \in due : ~Before(l, <<cursor[1], cursor[2] + 1>>)
  BY <1>2, <1>3, <1>4 DEF Mapped, Before
<1>6. ASSUME NEW k \in Key, NFind(k, cursor[1], cursor[2] + 1), cursor' = k, due' = due \ {k}
      PROVE  IInv'
  <2>1. ASSUME NEW l \in due, l # k PROVE Before(k, l)
    <3>1. ~Before(l, k)
      BY <1>4, <1>5, <1>6, Zenon DEF NFind
    <3>2. l \in Key
      BY <1>4, Zenon DEF Mapped
    <3> QED BY <1>3, <2>1, <3>1, <3>2 DEF Before
  <2>2. AllAhead'
    BY <1>3, <1>6, <2>1, Zenon DEF AllAhead, Before
  <2>3. due' \subseteq Mapped
    BY <1>4, <1>6, Zenon
  <2> QED BY <1>1, <1>6, <2>2, <2>3, ListingKeeps, Zenon
<1>7. ASSUME \A k \in Key : ~NFind(k, cursor[1], cursor[2] + 1), cursor' = None, UNCHANGED due
      PROVE  IInv'
  <2>1. due = {}
    <3>1. SUFFICES ASSUME NEW l \in due PROVE FALSE
      BY Zenon
    <3>2. l \in Mapped /\ cursor[2] + 1 \in Nat
      BY <1>2, <1>4
    <3> QED BY <1>2, <1>5, <1>7, <3>2, NFindFinds, Zenon
  <2>2. AllAhead'
    BY <1>7, <2>1, Zenon DEF AllAhead
  <2> QED BY <1>1, <1>4, <1>7, <2>2, ListingKeeps, Zenon
<1> QED BY <1>6, <1>7, Zenon DEF DeviceList

-----------------------------------------------------------------------------
(* The theorems.                                                           *)

\* The invariant holds at first.
LEMMA InitInv == Init => IInv
<1> SUFFICES ASSUME Init PROVE IInv
  BY Zenon
<1>1. TypeOK
  BY Zenon DEF Init, TypeOK
<1>2. ClaimInv /\ DiskInv /\ CtlInv /\ FoundInv
  BY Zenon DEF Init, ClaimInv, DiskInv, CtlInv, FoundInv
<1>3. MountInv /\ MapInv /\ OpenInv
  BY Zenon DEF Init, MountInv, MapInv, OpenInv
<1>4. RefInv
  BY Zenon DEF Init, RefInv
<1>5. FileInv
  <2>1. \A b, f : DiskHandle(b, f) = {}
    BY Zenon DEF Init, DiskHandle, HasFile
  <2>2. \A b, f : CtlHandle(b, f) = {}
    BY Zenon DEF Init, CtlHandle
  <2>3. \A b \in Backend, f \in File : open_type[b][f] = "closed" /\ reader[b][f] = {}
    BY Zenon DEF Init
  <2> QED BY <2>1, <2>2, <2>3, Zenon DEF FileInv, Handle, Counted
<1>6. ListInv
  BY Zenon DEF Init, ListInv, AllAhead
<1> QED BY <1>1, <1>2, <1>3, <1>4, <1>5, <1>6, Zenon DEF IInv

\* Every step keeps the invariant, unless it takes a reference from somebody.
LEMMA StepInv == IInv /\ [Next]_vars /\ ~stolen' => IInv'
<1> SUFFICES ASSUME IInv, [Next]_vars, ~stolen' PROVE IInv'
  BY Zenon
<1>1. CASE UNCHANGED vars
  <2>1. UNCHANGED <<mount, block_device_rb, backend, files, disk, ctl, opener, cursor, due>>
    BY <1>1, Zenon DEF vars, listing
  <2>2. cursor' \in Key \cup {<<0, 0>>, None} /\ due' \subseteq Mapped /\ AllAhead'
    BY <2>1, Zenon DEF IInv, TypeOK, ListInv, AllAhead
  <2> QED BY <2>1, <2>2, ListingKeeps, Zenon
<1>2. ASSUME NEW b \in Backend, BackendStep(b) PROVE IInv'
  <2>1. CASE BackendReady(b)  BY <2>1, BackendReadyKeeps, Zenon
  <2>2. CASE BackendFails(b)  BY <2>2, BackendFreeKeeps, Zenon DEF BackendFails
  <2>3. CASE SuperClose(b)  BY <2>3, SuperCloseKeeps
  <2>4. CASE DeviceRelease(b)  BY <2>4, BackendFreeKeeps, Zenon DEF DeviceRelease
  <2> QED BY <1>2, <2>1, <2>2, <2>3, <2>4, Zenon DEF BackendStep
<1>3. ASSUME NEW b \in Backend, ReleaseBackend(b) PROVE IInv'
  BY <1>3, ReleaseBackendKeeps
<1>4. ASSUME NEW b \in Backend, NEW dev \in Dev, BackendMount(b, dev) \/ MakeBackend(b, dev)
      PROVE  IInv'
  <2>1. CASE BackendMount(b, dev)
    BY <2>1, BackendOpenKeeps, Distinct, Zenon DEF BackendMount
  <2>2. CASE MakeBackend(b, dev)
    BY <2>2, BackendOpenKeeps, Distinct, Zenon DEF MakeBackend
  <2> QED BY <1>4, <2>1, <2>2, Zenon
<1>5. ASSUME NEW d \in Disk, AllocStep(d) PROVE IInv'
  <2>1. CASE DiskOpenFile(d)  BY <2>1, DiskOpenFileKeeps
  <2>2. CASE DiskOpenFails(d)  BY <2>2, DiskFreeClosedKeeps, Zenon DEF DiskOpenFails
  <2>3. CASE DiskAdd(d)  BY <2>3, DiskAddKeeps
  <2>4. CASE DiskAddFails(d)  BY <2>4, DiskAddFailsKeeps
  <2> QED BY <1>5, <2>1, <2>2, <2>3, <2>4 DEF AllocStep
<1>6. ASSUME NEW d \in Disk, FreeWork(d) PROVE IInv'
  <2>1. CASE DelGendisk(d)  BY <2>1, DelGendiskKeeps
  <2>2. CASE DiskCloseFile(d)  BY <2>2, DiskCloseFileKeeps
  <2>3. CASE FreeWorkEnd(d)  BY <2>3, DiskFreeClosedKeeps, Zenon DEF FreeWorkEnd
  <2> QED BY <1>6, <2>1, <2>2, <2>3, Zenon DEF FreeWork
<1>7. ASSUME NEW d \in Disk, ReleaseBlockDevice(d) PROVE IInv'
  BY <1>7, ReleaseBlockDeviceKeeps
<1>8. ASSUME NEW d \in Disk, NEW dev \in Dev, NEW f \in File, NEW write \in BOOLEAN,
             DeviceMap(d, dev, f, write)
      PROVE  IInv'
  <2> DEFINE b == backend_rb[dev]
  <2>1. b \in Backend /\ bstate[b] = "live" /\ backend_rb[bdev[b]] = b
    BY <1>8, InTrees, Zenon DEF DeviceMap, IInv, MountInv
  <2>2. lock = None /\ lock' = d /\ AllocDisk(d, b, f, write, "ctl")
    BY <1>8, Zenon DEF DeviceMap
  <2> HIDE DEF b
  <2> QED BY <2>1, <2>2, AllocDiskKeeps, Distinct, Zenon
<1>9. ASSUME NEW d \in Disk, NEW b \in Backend, NEW f \in File, NEW write \in BOOLEAN,
             MakeBlockDevice(d, b, f, write)
      PROVE  IInv'
  BY <1>9, AllocDiskKeeps, Distinct, Zenon DEF MakeBlockDevice
<1>10. ASSUME NEW d \in Disk, NEW o \in Opener, Open(o, d) PROVE IInv'
  BY <1>10, OpenKeeps, Zenon
<1>11. ASSUME NEW dev \in Dev, Umount(dev) PROVE IInv'
  BY <1>11, UmountKeeps
<1>12. ASSUME NEW k \in Key, DeviceUnmap(k) PROVE IInv'
  BY <1>12, DeviceUnmapKeeps, Zenon
<1>13. ASSUME NEW o \in Opener, SubmitBio(o) \/ MapBio(o) \/ Release(o) PROVE IInv'
  BY <1>13, BioKeeps, ReleaseKeeps, Zenon
<1>14. ASSUME NEW c \in Ctl, CtlClose(c) \/ CtlPut(c) PROVE IInv'
  BY <1>14, CtlCloseKeeps, CtlPutKeeps, Zenon
<1>15. ASSUME NEW c \in Ctl, NEW dev \in Dev, NEW f \in File, NEW write \in BOOLEAN,
              FileBind(c, dev, f, write)
       PROVE  IInv'
  BY <1>15, FileBindKeeps, Zenon
<1>16. CASE ListStart \/ DeviceList
  BY <1>16, ListStartKeeps, DeviceListKeeps, Zenon
<1> QED BY <1>1, <1>2, <1>3, <1>4, <1>5, <1>6, <1>7, <1>8, <1>9, <1>10, <1>11, <1>12, <1>13, <1>14,
           <1>15, <1>16, SMTT(60) DEF Next

\* A reference is taken from its holder by one who came after the last put.
LateSteals == stolen' => stolen \/ \E o \in late : hold[o] # None /\ hold'[o] = None

\* A put by one who holds a reference takes none.
LEMMA PutOwn ==
  ASSUME NEW d, NEW h, h \in dref[d], DiskPut(d, h)
  PROVE  stolen' = (stolen \/ FALSE)
BY Zenon DEF DiskPut

\* Only the puts of disks take references: stolen is never reset, and the ctl,
\* a directory and an opener that came in time drop the reference they have.
LEMMA StolenStep ==
  ASSUME [Next]_vars
  PROVE  /\ stolen => stolen'
         /\ IInv => LateSteals
<1>1. CASE UNCHANGED vars
  BY <1>1, Zenon DEF vars, opener, LateSteals
<1>2. ASSUME UNCHANGED stolen PROVE (stolen => stolen') /\ LateSteals
  BY <1>2, Zenon DEF LateSteals
<1>3. ASSUME NEW b \in Backend, BackendStep(b) PROVE UNCHANGED stolen
  BY <1>3, Zenon DEF BackendStep, BackendReady, BackendFails, SuperClose, DeviceRelease, BackendFree, opener
<1>4. ASSUME NEW b \in Backend, NEW dev \in Dev, BackendMount(b, dev) \/ MakeBackend(b, dev)
      PROVE  UNCHANGED stolen
  BY <1>4, Zenon DEF BackendMount, MakeBackend, BackendOpen, opener
<1>5. ASSUME NEW d \in Disk, AllocStep(d) PROVE UNCHANGED stolen
  BY <1>5, Zenon DEF AllocStep, DiskOpenFile, DiskOpenFails, DiskAdd, DiskAddFails, DiskFree, opener
<1>6. ASSUME NEW d \in Disk, FreeWork(d) PROVE UNCHANGED stolen
  BY <1>6, Zenon DEF FreeWork, DelGendisk, DiskCloseFile, FreeWorkEnd, DiskFree, opener
<1>7. ASSUME NEW d \in Disk, NEW f \in File, NEW write \in BOOLEAN,
             (\E dev \in Dev : DeviceMap(d, dev, f, write)) \/ \E b \in Backend : MakeBlockDevice(d, b, f, write)
      PROVE  UNCHANGED stolen
  BY <1>7, Zenon DEF DeviceMap, MakeBlockDevice, AllocDisk, opener
<1>8. ASSUME NEW o \in Opener, NEW d \in Disk, Open(o, d) PROVE UNCHANGED stolen
  BY <1>8, Zenon DEF Open
<1>9. ASSUME NEW o \in Opener, SubmitBio(o) \/ MapBio(o) PROVE UNCHANGED stolen
  BY <1>9, Zenon DEF SubmitBio, MapBio
<1>10. ASSUME (\E b \in Backend : ReleaseBackend(b)) \/ (\E dev \in Dev : Umount(dev)) \/ ListStart \/ DeviceList
       PROVE  UNCHANGED stolen
  BY <1>10, Zenon DEF ReleaseBackend, Umount, ListStart, DeviceList, opener
<1>11. ASSUME NEW c \in Ctl, CtlClose(c) \/ CtlPut(c) PROVE UNCHANGED stolen
  BY <1>11, Zenon DEF CtlClose, CtlPut, opener
<1>12. ASSUME NEW c \in Ctl, NEW dev \in Dev, NEW f \in File, NEW write \in BOOLEAN, FileBind(c, dev, f, write)
       PROVE  UNCHANGED stolen
  BY <1>12, Zenon DEF FileBind, opener
<1>13. ASSUME NEW d, NEW h, DiskPut(d, h) PROVE stolen => stolen'
  BY <1>13, Zenon DEF DiskPut
<1>14. ASSUME NEW d \in Disk, ReleaseBlockDevice(d) PROVE (stolen => stolen') /\ LateSteals
  <2>1. "configfs" \in dref[d] /\ DiskPut(d, "configfs")
    BY <1>14, Zenon DEF ReleaseBlockDevice
  <2> QED BY <2>1, PutOwn, Zenon DEF LateSteals
<1>15. ASSUME NEW k \in Key, DeviceUnmap(k) PROVE (stolen => stolen') /\ (IInv => LateSteals)
  <2>1. k \in Mapped /\ DiskPut(block_device_rb[k], "ctl")
    BY <1>15, Zenon DEF DeviceUnmap
  <2>2. IInv => "ctl" \in dref[block_device_rb[k]]
    BY <2>1, Zenon DEF IInv, MapInv, Mapped
  <2> QED BY <1>13, <2>1, <2>2, PutOwn, Zenon DEF LateSteals
<1>16. ASSUME NEW o \in Opener, Release(o) PROVE (stolen => stolen') /\ (IInv => LateSteals)
  <2>1. hold[o] # None /\ hold' = [hold EXCEPT ![o] = None] /\ DiskPut(hold[o], o)
    BY <1>16, Zenon DEF Release
  <2>2. CASE o \in late
    <3>1. IInv => hold'[o] = None
      BY <2>1, Zenon DEF IInv, TypeOK
    <3> QED BY <1>13, <2>1, <2>2, <3>1, Zenon DEF LateSteals
  <2>3. CASE o \notin late
    <3>1. IInv => o \in dref[hold[o]]
      BY <2>1, <2>3, Zenon DEF IInv, OpenInv
    <3> QED BY <1>13, <2>1, <3>1, PutOwn, Zenon DEF LateSteals
  <2> QED BY <2>2, <2>3, Zenon
<1> QED BY <1>1, <1>2, <1>3, <1>4, <1>5, <1>6, <1>7, <1>8, <1>9, <1>10, <1>11, <1>12, <1>14, <1>15, <1>16,
           SMTT(60) DEF Next

\* The invariant of the registry, until a reference is taken from its holder.
Sound == ~stolen => IInv

\* The invariant of the registry (ctl.c, main.c, vdisk.c, configfs.c) holds in
\* every state, for any number of devices, files, backends, disks, descriptors
\* and programs, until the release of a disk that was opened after its last
\* put drops a reference of another disk in the same memory (vdisk.c:195).
THEOREM Invariance == Spec => []Sound
<1>1. Init => Sound
  BY InitInv, Zenon DEF Sound
<1>2. Sound /\ [Next]_vars => Sound'
  BY StepInv, StolenStep, Zenon DEF Sound
<1> QED BY <1>1, <1>2, PTL DEF Spec

\* Nothing else takes a reference from its holder: not the ctl, not a
\* directory, not an opener that came in time.  Where no program opens a disk
\* between its last put and del_gendisk, the theorems below hold throughout.
THEOREM OnlyLateSteal == Spec => [][LateSteals]_vars
<1>1. Sound /\ [Next]_vars => [LateSteals]_vars
  BY StolenStep, Zenon DEF Sound, LateSteals
<1> QED BY <1>1, Invariance, PTL DEF Spec

\* No device has two supers, however a mount races a close: the exclusive open
\* of the device in cyanfs_backend_open lasts until cyanfs_backend_close ends.
THEOREM OneSuper == Spec => []OneSuperPerDevice
<1>1. Sound => OneSuperPerDevice
  BY SameDevice, Zenon DEF Sound, IInv, OneSuperPerDevice
<1> QED BY <1>1, Invariance, PTL

\* The open counts of cyanfs_open and cyanfs_close are those of the handles,
\* all of them on live supers, so that the BUG_ONs of super.c are not reached.
THEOREM CountsRight == Spec => []FilesCountHandles
<1>1. Sound => FilesCountHandles
  <2> SUFFICES ASSUME IInv PROVE FilesCountHandles
    BY Zenon DEF Sound, FilesCountHandles
  <2>1. ASSUME NEW d \in Disk, HasFile(d)
        PROVE  /\ bstate[dbackend[d]] = "live"
               /\ open_type[dbackend[d]][dfile[d]] = IF dwrite[d] THEN "readwrite" ELSE "readonly"
    <3>1. dbackend[d] \in Backend /\ dfile[d] \in File /\ bstate[dbackend[d]] = "live"
      BY <2>1, Zenon DEF IInv, DiskInv, HasFile
    <3>2. d \in DiskHandle(dbackend[d], dfile[d]) /\ Handle(dbackend[d], dfile[d]) # {}
      BY <2>1, Zenon DEF DiskHandle, Handle
    <3>3. dwrite[d] <=> open_type[dbackend[d]][dfile[d]] = "readwrite"
      BY <3>1, <3>2, Zenon DEF IInv, FileInv
    <3>4. open_type[dbackend[d]][dfile[d]] \in {"readonly", "readwrite"}
      BY <3>1, <3>2, Zenon DEF IInv, FileInv, Counted
    <3> QED BY <3>1, <3>3, <3>4, Zenon
  <2>2. ASSUME NEW c \in Ctl, cstate[c] = "bound"
        PROVE  bstate[cbackend[c]] = "live" /\ open_type[cbackend[c]][cfile[c]] # "closed"
    <3>1. cbackend[c] \in Backend /\ cfile[c] \in File /\ bstate[cbackend[c]] = "live"
      BY <2>2, Zenon DEF IInv, CtlInv
    <3>2. Handle(cbackend[c], cfile[c]) # {}
      BY <2>2, Zenon DEF CtlHandle, Handle
    <3> QED BY <3>1, <3>2, Zenon DEF IInv, FileInv, Counted
  <2>3. ASSUME NEW b \in Backend, NEW f \in File, open_type[b][f] # "closed"
        PROVE  \/ \E d \in Disk : HasFile(d) /\ dbackend[d] = b /\ dfile[d] = f
               \/ \E c \in Ctl : cstate[c] = "bound" /\ cbackend[c] = b /\ cfile[c] = f
    <3>1. Counted(open_type[b][f], Handle(b, f), reader[b][f])
      BY Zenon DEF IInv, FileInv
    <3>2. Handle(b, f) # {}
      BY <2>3, <3>1, Zenon DEF Counted
    <3> QED BY <3>2, Zenon DEF Handle, DiskHandle, CtlHandle
  <2> QED BY <2>1, <2>2, <2>3, Zenon DEF FilesCountHandles
<1> QED BY <1>1, Invariance, PTL

\* The trees of ctl.c never hold what was freed, and a mapped disk is one of a
\* mounted backend.
THEOREM TreesSound == Spec => []TreesAlive
<1>1. Sound => TreesAlive
  BY Zenon DEF Sound, IInv, TreesAlive, MountInv, MapInv, Mapped
<1> QED BY <1>1, Invariance, PTL

\* The ignored result of CYANFS_RB_INSERT costs no backend and no disk that can
\* be written its place in the tree.
THEOREM WritersFound == Spec => []OnlyReadersLost
<1>1. Sound => OnlyReadersLost
  BY Zenon DEF Sound, IInv, OnlyReadersLost, MountInv, FoundInv
<1> QED BY <1>1, Invariance, PTL

\* A program that opened a disk in time keeps the disk and its super, whatever
\* is unmapped and unmounted.
THEOREM OpenersKeep == Spec => []OpenersKeepTheirDisk
<1>1. Sound => OpenersKeepTheirDisk
  <2> SUFFICES ASSUME IInv, NEW o \in Opener, hold[o] # None, o \notin late
               PROVE  dstate[hold[o]] = "live" /\ bstate[dbackend[hold[o]]] = "live"
    BY Zenon DEF Sound, OpenersKeepTheirDisk
  <2> DEFINE d == hold[o]
  <2>1. d \in Disk /\ o \in dref[d]
    BY Zenon DEF IInv, OpenInv, TypeOK
  <2>2. o # "configfs" /\ o # "ctl"
    BY Distinct, Zenon
  <2>3. dstate[d] \in {"none", "idr", "opened", "live", "dying", "deleted", "closed"}
    BY <2>1, Zenon DEF IInv, TypeOK
  <2> HIDE DEF d
  <2>4. dstate[d] = "live"
    BY <2>1, <2>2, <2>3, Zenon DEF IInv, RefInv
  <2>5. bstate[dbackend[d]] = "live"
    BY <2>1, <2>4, Zenon DEF IInv, DiskInv
  <2> QED BY <2>4, <2>5, Zenon DEF d
<1> QED BY <1>1, Invariance, PTL

\* A listing of the disks misses none that stays mapped.
THEOREM ListsAll == Spec => []ListingComplete
<1>1. Sound => ListingComplete
  BY Zenon DEF Sound, IInv, ListInv, AllAhead, ListingComplete
<1> QED BY <1>1, Invariance, PTL
=============================================================================
