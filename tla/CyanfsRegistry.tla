---------------------------- MODULE CyanfsRegistry ----------------------------
(***************************************************************************)
(* Who may use what in the Linux driver: the backends mounted on block     *)
(* devices, the virtual disks mapped from their files, the ctl descriptors *)
(* bound to a file, the programs that have a virtual disk open, and the    *)
(* references that keep each of these alive.                               *)
(*                                                                         *)
(* The ioctls run under cyanfs_ctl_lock.  Releasing a descriptor, opening  *)
(* and releasing a virtual disk, the work item that frees one and the      *)
(* configfs directories of a debug build do not, so their steps fall       *)
(* between those of an ioctl that waits for a device.                      *)
(*                                                                         *)
(* A kref is the set of those who hold a reference; it is dropped to zero  *)
(* when the set becomes empty.  The count of readers of a file is likewise *)
(* the set of the handles it counts.                                       *)
(*                                                                         *)
(* A disk can be opened after its last reference was dropped and before    *)
(* its work item deletes it.  That opener releases it through a pointer to *)
(* freed memory, which may be another disk by then: the put drops a        *)
(* reference of somebody else.  stolen records that this has happened.     *)
(***************************************************************************)
EXTENDS Naturals

CONSTANTS
  Dev,       \* device numbers of block devices that hold a cyanfs
  File,      \* ids of the files on each of them
  Backend,   \* memory for struct cyanfs_backend
  Disk,      \* memory for struct cyanfs_block_device
  Id,        \* numbers idr_alloc may return
  Ctl,       \* open descriptors of the ctl device
  Opener,    \* programs that open virtual disks
  Configfs,  \* CYANFS_DEBUG_ENABLED
  None

\* Who made a backend or a disk, and holds the reference it starts with.
Kind == {"ctl", "configfs"}

ASSUME RegistryAssumption ==
  /\ Dev \subseteq Nat \ {0} /\ File \subseteq Nat /\ Id \subseteq Nat
  /\ Configfs \in BOOLEAN
  /\ None \notin Backend \cup Disk \cup Dev \cup File \cup Id \cup (Nat \X Nat)
  /\ Kind \cap (Disk \cup Ctl \cup Opener) = {}
  /\ Disk \cap Ctl = {} /\ Disk \cap Backend = {}

VARIABLES
  claim,     \* the backend that has a device open exclusively
  lock,      \* what the ioctl that holds cyanfs_ctl_lock is at work on
  backend_rb, block_device_rb,         \* the trees of ctl.c
  bstate, bdev, bref,                  \* a backend: life, device, holders
  open_type, reader,                   \* of each file of its super
  dstate, dbackend, dfile, dwrite, dref, id,  \* a virtual disk
  idr,       \* numbers in use
  cstate, cbackend, cfile,             \* a ctl descriptor
  hold,      \* the disk an opener has
  late,      \* openers that came after the last put (history)
  stale,     \* openers whose disk was freed under them
  io,        \* openers with a bio that waits in cyanfs_requeue
  stolen,    \* a put has dropped a reference its caller did not have (history)
  cursor, due                          \* a listing of the mapped disks

mount == <<claim, lock, backend_rb>>
backend == <<bstate, bdev, bref>>
files == <<open_type, reader>>
disk == <<dstate, dbackend, dfile, dwrite, dref, id, idr>>
ctl == <<cstate, cbackend, cfile>>
opener == <<hold, late, stale, io, stolen>>
listing == <<cursor, due>>
vars == <<mount, block_device_rb, backend, files, disk, ctl, opener, listing>>

Key == Dev \X File
Mapped == {k \in Key : block_device_rb[k] # None}

(***************************************************************************)
(* References.                                                             *)
(***************************************************************************)
BackendGet(b, h) ==
  /\ bref' = [bref EXCEPT ![b] = @ \cup {h}]
  /\ UNCHANGED <<bstate, bdev>>

\* kref_put with cyanfs_backend_close.
BackendPut(b, h) ==
  /\ bref' = [bref EXCEPT ![b] = @ \ {h}]
  /\ bstate' = [bstate EXCEPT ![b] = IF bref[b] \subseteq {h} THEN "closing" ELSE @]
  /\ UNCHANGED bdev

\* kref_put with cyanfs_block_device_free, which schedules the work.  One who
\* holds no reference drops another's, whichever: only their number counts.
\* A count that is zero, saturated or in free memory is not changed.  What
\* the work does to a disk that is still being made is not followed.
DiskPut(d, h) ==
  /\ \E g \in IF h \in dref[d] \/ dref[d] = {} THEN {h} ELSE dref[d] :
       /\ dref' = [dref EXCEPT ![d] = @ \ {g}]
       /\ dstate' = [dstate EXCEPT ![d] = IF @ = "live" /\ dref[d] = {g} THEN "dying" ELSE @]
  /\ stolen' = (stolen \/ (h \notin dref[d] /\ dref[d] # {}))
  /\ UNCHANGED <<dbackend, dfile, dwrite, id, idr>>

(***************************************************************************)
(* Files of a super.                                                       *)
(***************************************************************************)
\* Lets a writer in beside readers.
OpenFileShared(b, f, write, h) ==
  /\ open_type[b][f] # "readwrite"
  /\ open_type' = [open_type EXCEPT ![b][f] = IF write THEN "readwrite" ELSE "readonly"]
  /\ reader' = [reader EXCEPT ![b][f] = IF write THEN @ ELSE @ \cup {h}]

\* cyanfs_open: one writer, or any number of readers.
OpenFile(b, f, write, h) ==
  /\ IF write THEN open_type[b][f] = "closed" ELSE open_type[b][f] # "readwrite"
  /\ open_type' = [open_type EXCEPT ![b][f] = IF write THEN "readwrite" ELSE "readonly"]
  /\ reader' = [reader EXCEPT ![b][f] = IF write THEN @ ELSE @ \cup {h}]

\* cyanfs_close.
CloseFile(b, f, h) ==
  /\ reader' = [reader EXCEPT ![b][f] = @ \ {h}]
  /\ open_type' = [open_type EXCEPT ![b][f] =
                     IF @ = "readwrite" \/ reader[b][f] \subseteq {h} THEN "closed" ELSE @]

(***************************************************************************)
(* cyanfs_backend_open.  The exclusive open of the device comes first; the *)
(* ioctl holds cyanfs_ctl_lock while the journal is loaded.                *)
(***************************************************************************)
\* Opens the device without a claim to it.
BackendOpenShared(b, dev, kind) ==
  /\ bstate[b] = "none"
  /\ claim' = [claim EXCEPT ![dev] = b]
  /\ bstate' = [bstate EXCEPT ![b] = "opening"]
  /\ bdev' = [bdev EXCEPT ![b] = dev]
  /\ bref' = [bref EXCEPT ![b] = {kind}]
  /\ UNCHANGED <<backend_rb, block_device_rb, files, disk, ctl, opener, listing>>

\* Refused while another holds the device.
BackendOpen(b, dev, kind) ==
  /\ bstate[b] = "none" /\ claim[dev] = None
  /\ claim' = [claim EXCEPT ![dev] = b]
  /\ bstate' = [bstate EXCEPT ![b] = "opening"]
  /\ bdev' = [bdev EXCEPT ![b] = dev]
  /\ bref' = [bref EXCEPT ![b] = {kind}]
  /\ UNCHANGED <<backend_rb, block_device_rb, files, disk, ctl, opener, listing>>

BackendMount(b, dev) ==
  /\ lock = None
  /\ lock' = b
  /\ BackendOpen(b, dev, "ctl")

\* mkdir of a backend's directory.
MakeBackend(b, dev) ==
  /\ Configfs
  /\ BackendOpen(b, dev, "configfs")
  /\ UNCHANGED lock

Unlock(x) == lock' = IF lock = x THEN None ELSE lock

\* Success: CYANFS_RB_INSERT leaves the tree alone when the key is there.
BackendReady(b) ==
  /\ bstate[b] = "opening"
  /\ bstate' = [bstate EXCEPT ![b] = "live"]
  /\ backend_rb' = IF "ctl" \in bref[b] /\ backend_rb[bdev[b]] = None
                   THEN [backend_rb EXCEPT ![bdev[b]] = b] ELSE backend_rb
  /\ Unlock(b)
  /\ UNCHANGED <<claim, bdev, bref, block_device_rb, files, disk, ctl, opener, listing>>

BackendFree(b) ==
  /\ bstate' = [bstate EXCEPT ![b] = "none"]
  /\ bdev' = [bdev EXCEPT ![b] = None]
  /\ bref' = [bref EXCEPT ![b] = {}]
  /\ claim' = [claim EXCEPT ![bdev[b]] = None]
  /\ Unlock(b)
  /\ UNCHANGED <<backend_rb, block_device_rb, files, disk, ctl, opener, listing>>

\* The device is not suitable, or the super is not ready.
BackendFails(b) ==
  /\ bstate[b] = "opening"
  /\ BackendFree(b)

(***************************************************************************)
(* cyanfs_backend_close: the timer is cancelled, the journal flushed and   *)
(* the executor waited for (CyanfsBackend), the super closed; then the     *)
(* device is given back.                                                   *)
(***************************************************************************)
SuperClose(b) ==
  /\ bstate[b] = "closing"
  /\ bstate' = [bstate EXCEPT ![b] = "closed"]
  /\ UNCHANGED <<mount, bref, bdev, block_device_rb, files, disk, ctl, opener, listing>>

\* Frees the backend and keeps the device.
DeviceReleaseKeeps(b) ==
  /\ bstate[b] = "closed"
  /\ bstate' = [bstate EXCEPT ![b] = "none"]
  /\ bdev' = [bdev EXCEPT ![b] = None]
  /\ bref' = [bref EXCEPT ![b] = {}]
  /\ Unlock(b)
  /\ UNCHANGED <<claim, backend_rb, block_device_rb, files, disk, ctl, opener, listing>>

DeviceRelease(b) ==
  /\ bstate[b] = "closed"
  /\ BackendFree(b)

(***************************************************************************)
(* The trees.  CYANFS_RB_NFIND: the least key that is not less.            *)
(***************************************************************************)
Before(k, l) == k[1] < l[1] \/ (k[1] = l[1] /\ k[2] < l[2])

NFind(k, dev, file) ==
  /\ k \in Mapped /\ ~Before(k, <<dev, file>>)
  /\ \A l \in Mapped : ~Before(l, <<dev, file>>) => ~Before(l, k)

\* Does not look for mapped disks.
UmountMapped(dev) ==
  LET b == backend_rb[dev] IN
  /\ lock = None /\ b # None
  /\ backend_rb' = [backend_rb EXCEPT ![dev] = None]
  /\ BackendPut(b, "ctl")
  /\ lock' = IF bref[b] \subseteq {"ctl"} THEN b ELSE None
  /\ UNCHANGED <<claim, block_device_rb, files, disk, ctl, opener, listing>>

\* The ioctl keeps the lock until the backend is closed if it was the last.
Umount(dev) ==
  LET b == backend_rb[dev] IN
  /\ lock = None /\ b # None
  /\ ~ \E k \in Key : NFind(k, dev, 0) /\ dbackend[block_device_rb[k]] = b
  /\ backend_rb' = [backend_rb EXCEPT ![dev] = None]
  /\ BackendPut(b, "ctl")
  /\ lock' = IF bref[b] \subseteq {"ctl"} THEN b ELSE None
  /\ UNCHANGED <<claim, block_device_rb, files, disk, ctl, opener, listing>>

\* rmdir of a backend's directory: no directory of a disk is left in it.
ReleaseBackend(b) ==
  /\ bstate[b] = "live" /\ "configfs" \in bref[b]
  /\ \A d \in Disk : dbackend[d] = b => "configfs" \notin dref[d]
  /\ BackendPut(b, "configfs")
  /\ UNCHANGED <<mount, block_device_rb, files, disk, ctl, opener, listing>>

(***************************************************************************)
(* cyanfs_block_device_alloc: a reference, a number, the file, the disk,   *)
(* and the same backwards when a step fails.  kzalloc returns any memory   *)
(* that is free, that of a disk an opener still has among it.              *)
(***************************************************************************)
AllocDisk(d, b, f, write, kind) ==
  /\ dstate[d] = "none"
  /\ \E i \in Id \ idr :
       /\ \A j \in Id \ idr : i <= j
       /\ id' = [id EXCEPT ![d] = i]
       /\ idr' = idr \cup {i}
  /\ dstate' = [dstate EXCEPT ![d] = "idr"]
  /\ dbackend' = [dbackend EXCEPT ![d] = b]
  /\ dfile' = [dfile EXCEPT ![d] = f]
  /\ dwrite' = [dwrite EXCEPT ![d] = write]
  /\ dref' = [dref EXCEPT ![d] = {kind}]
  /\ BackendGet(b, d)
  /\ UNCHANGED <<claim, backend_rb, block_device_rb, files, ctl, opener, listing>>

DeviceMap(d, dev, f, write) ==
  /\ lock = None /\ backend_rb[dev] # None
  /\ lock' = d
  /\ AllocDisk(d, backend_rb[dev], f, write, "ctl")

MakeBlockDevice(d, b, f, write) ==
  /\ bstate[b] = "live" /\ "configfs" \in bref[b]
  /\ UNCHANGED lock
  /\ AllocDisk(d, b, f, write, "configfs")

DiskOpenFile(d) ==
  /\ dstate[d] = "idr"
  /\ OpenFile(dbackend[d], dfile[d], dwrite[d], d)
  /\ dstate' = [dstate EXCEPT ![d] = "opened"]
  /\ UNCHANGED <<mount, block_device_rb, backend, dbackend, dfile, dwrite, dref, id, idr,
                 ctl, opener, listing>>

DiskFree(d) ==
  /\ dstate' = [dstate EXCEPT ![d] = "none"]
  /\ dbackend' = [dbackend EXCEPT ![d] = None]
  /\ dfile' = [dfile EXCEPT ![d] = None]
  /\ dwrite' = [dwrite EXCEPT ![d] = FALSE]
  /\ dref' = [dref EXCEPT ![d] = {}]
  /\ id' = [id EXCEPT ![d] = None]
  /\ idr' = idr \ {id[d]}
  /\ BackendPut(dbackend[d], d)
  /\ Unlock(d)
  /\ stale' = stale \cup {o \in Opener : hold[o] = d}
  /\ UNCHANGED <<claim, backend_rb, block_device_rb, ctl, hold, late, io, stolen, listing>>

\* cyanfs_open fails: busy, deleted meanwhile, or the super is in error.
DiskOpenFails(d) ==
  /\ dstate[d] = "idr"
  /\ DiskFree(d) /\ UNCHANGED files

\* The file is empty, or there is no memory for a disk.
DiskAddFails(d) ==
  /\ dstate[d] = "opened"
  /\ CloseFile(dbackend[d], dfile[d], d) /\ DiskFree(d)

\* The tree keeps the disk it has under that key, if it has one.
DiskAdd(d) ==
  LET k == <<bdev[dbackend[d]], dfile[d]>> IN
  /\ dstate[d] = "opened"
  /\ dstate' = [dstate EXCEPT ![d] = "live"]
  /\ block_device_rb' = IF "ctl" \in dref[d] /\ block_device_rb[k] = None
                        THEN [block_device_rb EXCEPT ![k] = d] ELSE block_device_rb
  /\ Unlock(d)
  /\ UNCHANGED <<claim, backend_rb, backend, files, dbackend, dfile, dwrite, dref, id, idr, ctl,
                 opener, listing>>

DeviceUnmap(k) ==
  /\ lock = None /\ k \in Mapped
  /\ block_device_rb' = [block_device_rb EXCEPT ![k] = None]
  /\ DiskPut(block_device_rb[k], "ctl")
  /\ due' = due \ {k}
  /\ UNCHANGED <<mount, backend, files, ctl, hold, late, stale, io, cursor>>

\* rmdir of a disk's directory.
ReleaseBlockDevice(d) ==
  /\ dstate[d] = "live" /\ "configfs" \in dref[d]
  /\ DiskPut(d, "configfs")
  /\ UNCHANGED <<mount, block_device_rb, backend, files, ctl, hold, late, stale, io, listing>>

(***************************************************************************)
(* Openers.  The kernel opens a disk until del_gendisk and passes its bios *)
(* on until then; kref_get on a reference count that is already zero       *)
(* saturates it and holds nothing.                                         *)
(***************************************************************************)
\* Takes no reference.
OpenUncounted(o, d) ==
  /\ hold[o] = None /\ dstate[d] \in {"live", "dying"}
  /\ hold' = [hold EXCEPT ![o] = d]
  /\ UNCHANGED <<mount, block_device_rb, backend, files, disk, late, stale, io, stolen, ctl, listing>>

\* cyanfs_block_device_open.
Open(o, d) ==
  /\ hold[o] = None /\ dstate[d] \in {"live", "dying"}
  /\ hold' = [hold EXCEPT ![o] = d]
  /\ IF dref[d] = {}
     THEN late' = late \cup {o} /\ UNCHANGED dref
     ELSE dref' = [dref EXCEPT ![d] = @ \cup {o}] /\ UNCHANGED late
  /\ UNCHANGED <<mount, block_device_rb, backend, files, dstate, dbackend, dfile, dwrite,
                 id, idr, ctl, stale, io, stolen, listing>>

\* cyanfs_block_device_submit_bio: the file has to wait, so the bio is requeued.
SubmitBio(o) ==
  /\ hold[o] # None /\ o \notin stale /\ dstate[hold[o]] \in {"live", "dying"}
  /\ o \notin io
  /\ io' = io \cup {o}
  /\ UNCHANGED <<mount, block_device_rb, backend, files, disk, hold, late, stale, stolen, ctl, listing>>

\* The requeue callback, __cyanfs_file_map_bio.
MapBio(o) ==
  /\ o \in io
  /\ io' = io \ {o}
  /\ UNCHANGED <<mount, block_device_rb, backend, files, disk, hold, late, stale, stolen, ctl, listing>>

\* cyanfs_block_device_release, once the opener's bios are through: a put on
\* what disk->private_data points to, whatever is there by now.
Release(o) ==
  /\ hold[o] # None /\ o \notin io
  /\ hold' = [hold EXCEPT ![o] = None]
  /\ late' = late \ {o} /\ stale' = stale \ {o}
  /\ DiskPut(hold[o], o)
  /\ UNCHANGED <<mount, block_device_rb, backend, files, ctl, io, listing>>

(***************************************************************************)
(* cyanfs_block_device_free_work.                                          *)
(***************************************************************************)
DelGendisk(d) ==
  /\ dstate[d] = "dying"
  /\ dstate' = [dstate EXCEPT ![d] = "deleted"]
  /\ UNCHANGED <<mount, block_device_rb, backend, files, dbackend, dfile, dwrite, dref, id,
                 idr, ctl, opener, listing>>

DiskCloseFile(d) ==
  /\ dstate[d] = "deleted"
  /\ dstate' = [dstate EXCEPT ![d] = "closed"]
  /\ CloseFile(dbackend[d], dfile[d], d)
  /\ UNCHANGED <<mount, block_device_rb, backend, dbackend, dfile, dwrite, dref, id, idr,
                 ctl, opener, listing>>

\* idr_free, kfree, and the reference to the backend.
FreeWorkEnd(d) ==
  /\ dstate[d] = "closed"
  /\ DiskFree(d) /\ UNCHANGED files

(***************************************************************************)
(* Descriptors of the ctl device.                                          *)
(***************************************************************************)
\* Takes no reference to the backend.
FileBindUncounted(c, dev, f, write) ==
  LET b == backend_rb[dev] IN
  /\ lock = None /\ cstate[c] = "unbound" /\ b # None
  /\ OpenFile(b, f, write, c)
  /\ cstate' = [cstate EXCEPT ![c] = "bound"]
  /\ cbackend' = [cbackend EXCEPT ![c] = b]
  /\ cfile' = [cfile EXCEPT ![c] = f]
  /\ UNCHANGED <<mount, backend, block_device_rb, disk, opener, listing>>

\* FILE_BIND opens the file and takes a reference to its backend.
FileBind(c, dev, f, write) ==
  LET b == backend_rb[dev] IN
  /\ lock = None /\ cstate[c] = "unbound" /\ b # None
  /\ OpenFile(b, f, write, c)
  /\ BackendGet(b, c)
  /\ cstate' = [cstate EXCEPT ![c] = "bound"]
  /\ cbackend' = [cbackend EXCEPT ![c] = b]
  /\ cfile' = [cfile EXCEPT ![c] = f]
  /\ UNCHANGED <<mount, block_device_rb, disk, opener, listing>>

\* cyanfs_ctl_release: a flush (CyanfsBackend), the file, the reference.
CtlClose(c) ==
  /\ cstate[c] = "bound"
  /\ CloseFile(cbackend[c], cfile[c], c)
  /\ cstate' = [cstate EXCEPT ![c] = "closed"]
  /\ UNCHANGED <<mount, block_device_rb, backend, disk, cbackend, cfile, opener, listing>>

CtlPut(c) ==
  /\ cstate[c] = "closed"
  /\ BackendPut(cbackend[c], c)
  /\ cstate' = [cstate EXCEPT ![c] = "unbound"]
  /\ cbackend' = [cbackend EXCEPT ![c] = None]
  /\ cfile' = [cfile EXCEPT ![c] = None]
  /\ UNCHANGED <<mount, block_device_rb, files, disk, opener, listing>>

(***************************************************************************)
(* DEVICE_LIST: a program asks for the disk after the one it got last,     *)
(* until there is none.  due are the disks that were mapped when it began, *)
(* are mapped still and have not been returned.                            *)
(***************************************************************************)
ListStart ==
  /\ lock = None /\ cursor = None
  /\ cursor' = <<0, 0>> /\ due' = Mapped
  /\ UNCHANGED <<mount, block_device_rb, backend, files, disk, ctl, opener>>

\* Skips a file id.
DeviceListSkips ==
  /\ lock = None /\ cursor # None
  /\ \/ \E k \in Key :
          /\ NFind(k, cursor[1], cursor[2] + 2)
          /\ cursor' = k /\ due' = due \ {k}
     \/ /\ \A k \in Key : ~NFind(k, cursor[1], cursor[2] + 2)
        /\ cursor' = None /\ UNCHANGED due
  /\ UNCHANGED <<mount, block_device_rb, backend, files, disk, ctl, opener>>

\* cyanfs_ctl_device_list.
DeviceList ==
  /\ lock = None /\ cursor # None
  /\ \/ \E k \in Key :
          /\ NFind(k, cursor[1], cursor[2] + 1)
          /\ cursor' = k /\ due' = due \ {k}
     \/ /\ \A k \in Key : ~NFind(k, cursor[1], cursor[2] + 1)
        /\ cursor' = None /\ UNCHANGED due
  /\ UNCHANGED <<mount, block_device_rb, backend, files, disk, ctl, opener>>

(***************************************************************************)
(* The specification.                                                      *)
(***************************************************************************)
Init ==
  /\ claim = [dev \in Dev |-> None] /\ lock = None
  /\ backend_rb = [dev \in Dev |-> None] /\ block_device_rb = [k \in Key |-> None]
  /\ bstate = [b \in Backend |-> "none"]
  /\ bdev = [b \in Backend |-> None] /\ bref = [b \in Backend |-> {}]
  /\ open_type = [b \in Backend |-> [f \in File |-> "closed"]]
  /\ reader = [b \in Backend |-> [f \in File |-> {}]]
  /\ dstate = [d \in Disk |-> "none"]
  /\ dbackend = [d \in Disk |-> None] /\ dfile = [d \in Disk |-> None]
  /\ dwrite = [d \in Disk |-> FALSE] /\ dref = [d \in Disk |-> {}]
  /\ id = [d \in Disk |-> None] /\ idr = {}
  /\ cstate = [c \in Ctl |-> "unbound"]
  /\ cbackend = [c \in Ctl |-> None] /\ cfile = [c \in Ctl |-> None]
  /\ hold = [o \in Opener |-> None] /\ late = {}
  /\ stale = {} /\ io = {} /\ stolen = FALSE
  /\ cursor = None /\ due = {}

\* What runs to its end once it has begun: cyanfs_backend_open and _close,
\* cyanfs_block_device_alloc, the work item that frees a disk.
BackendStep(b) == BackendReady(b) \/ BackendFails(b) \/ SuperClose(b) \/ DeviceRelease(b)
AllocStep(d) == DiskOpenFile(d) \/ DiskOpenFails(d) \/ DiskAdd(d) \/ DiskAddFails(d)
FreeWork(d) == DelGendisk(d) \/ DiskCloseFile(d) \/ FreeWorkEnd(d)

Next ==
  \/ \E b \in Backend :
       \/ BackendStep(b)
       \/ ReleaseBackend(b)
       \/ \E dev \in Dev : BackendMount(b, dev) \/ MakeBackend(b, dev)
  \/ \E d \in Disk :
       \/ AllocStep(d)
       \/ FreeWork(d)
       \/ ReleaseBlockDevice(d)
       \/ \E f \in File, write \in BOOLEAN :
            \/ \E dev \in Dev : DeviceMap(d, dev, f, write)
            \/ \E b \in Backend : MakeBlockDevice(d, b, f, write)
       \/ \E o \in Opener : Open(o, d)
  \/ \E dev \in Dev : Umount(dev)
  \/ \E k \in Key : DeviceUnmap(k)
  \/ \E o \in Opener : SubmitBio(o) \/ MapBio(o) \/ Release(o)
  \/ \E c \in Ctl :
       \/ CtlClose(c) \/ CtlPut(c)
       \/ \E dev \in Dev, f \in File, write \in BOOLEAN : FileBind(c, dev, f, write)
  \/ ListStart \/ DeviceList

Fairness ==
  /\ \A b \in Backend : WF_vars(BackendStep(b))
  /\ \A d \in Disk : WF_vars(AllocStep(d)) /\ WF_vars(FreeWork(d))
  /\ \A c \in Ctl : WF_vars(CtlPut(c))

Spec == Init /\ [][Next]_vars
FairSpec == Spec /\ Fairness

(***************************************************************************)
(* Properties.                                                             *)
(***************************************************************************)
\* The types of the variables.
TypeOK ==
  /\ claim \in [Dev -> Backend \cup {None}] /\ lock \in Backend \cup Disk \cup {None}
  /\ backend_rb \in [Dev -> Backend \cup {None}]
  /\ block_device_rb \in [Key -> Disk \cup {None}]
  /\ bstate \in [Backend -> {"none", "opening", "live", "closing", "closed"}]
  /\ bdev \in [Backend -> Dev \cup {None}]
  /\ bref \in [Backend -> SUBSET (Kind \cup Disk \cup Ctl)]
  /\ open_type \in [Backend -> [File -> {"closed", "readonly", "readwrite"}]]
  /\ reader \in [Backend -> [File -> SUBSET (Disk \cup Ctl)]]
  /\ dstate \in [Disk -> {"none", "idr", "opened", "live", "dying", "deleted", "closed"}]
  /\ dbackend \in [Disk -> Backend \cup {None}] /\ dfile \in [Disk -> File \cup {None}]
  /\ dwrite \in [Disk -> BOOLEAN] /\ dref \in [Disk -> SUBSET (Kind \cup Opener)]
  /\ id \in [Disk -> Id \cup {None}] /\ idr \subseteq Id
  /\ cstate \in [Ctl -> {"unbound", "bound", "closed"}]
  /\ cbackend \in [Ctl -> Backend \cup {None}] /\ cfile \in [Ctl -> File \cup {None}]
  /\ hold \in [Opener -> Disk \cup {None}] /\ late \subseteq Opener
  /\ stale \subseteq Opener /\ io \subseteq Opener /\ stolen \in BOOLEAN
  /\ cursor \in Key \cup {<<0, 0>>, None} /\ due \subseteq Key

HasFile(d) == dstate[d] \in {"opened", "live", "dying", "deleted"}

\* Two supers are never open on one device, so two journals are never
\* written to it, however a mount races the close of the backend before it
\* (cyanfs_backend_open, cyanfs_backend_close).
OneSuperPerDevice ==
  ~stolen =>
    \A a, b \in Backend :
      /\ bstate[a] \in {"opening", "live", "closing"}
      /\ bstate[b] \in {"opening", "live", "closing"}
      /\ bdev[a] = bdev[b]
      => a = b

\* A disk or a descriptor that has a file open has it open on a live super,
\* and no file is open on another: neither BUG_ON of cyanfs_close and
\* cyanfs_super_close is reached (super.c:529, 940).
FilesCountHandles ==
  ~stolen =>
    /\ \A d \in Disk : HasFile(d) =>
         /\ bstate[dbackend[d]] = "live"
         /\ open_type[dbackend[d]][dfile[d]] = IF dwrite[d] THEN "readwrite" ELSE "readonly"
    /\ \A c \in Ctl : cstate[c] = "bound" =>
         /\ bstate[cbackend[c]] = "live"
         /\ open_type[cbackend[c]][cfile[c]] # "closed"
    /\ \A b \in Backend, f \in File : open_type[b][f] # "closed" =>
         \/ \E d \in Disk : HasFile(d) /\ dbackend[d] = b /\ dfile[d] = f
         \/ \E c \in Ctl : cstate[c] = "bound" /\ cbackend[c] = b /\ cfile[c] = f

\* What the trees of ctl.c point to has not been freed, and the backend of
\* a mapped disk is mounted: the comparison of two disks reads through their
\* backends, and umount refuses while a disk is mapped.  It holds until the
\* release of an opener that came after the last put of its disk finds
\* another disk in that memory and takes the tree's reference to it.
TreesAlive ==
  ~stolen =>
    /\ \A dev \in Dev : backend_rb[dev] # None =>
         bstate[backend_rb[dev]] = "live" /\ bdev[backend_rb[dev]] = dev
    /\ \A k \in Mapped :
         LET d == block_device_rb[k] IN
         /\ dstate[d] = "live" /\ dfile[d] = k[2]
         /\ backend_rb[k[1]] # None /\ dbackend[d] = backend_rb[k[1]]

\* The result of CYANFS_RB_INSERT is ignored.  That never loses a backend,
\* nor a disk that can be written: a disk the ctl mapped and cannot find
\* again is read-only, and so is the one found in its place.
OnlyReadersLost ==
  ~stolen =>
    /\ \A b \in Backend : bstate[b] = "live" /\ "ctl" \in bref[b] => backend_rb[bdev[b]] = b
    /\ \A d \in Disk : dstate[d] = "live" /\ "ctl" \in dref[d] /\ dwrite[d] =>
         block_device_rb[<<bdev[dbackend[d]], dfile[d]>>] = d

\* A program that opened a disk before its last reference was dropped keeps
\* it: neither unmap nor umount takes the disk, the file or the super away
\* from it, and neither does the release of an opener that came too late, as
\* long as the memory of that opener's disk was not handed out again
\* (cyanfs_block_device_open, cyanfs_block_device_release).
OpenersKeepTheirDisk ==
  ~stolen =>
    \A o \in Opener : hold[o] # None /\ o \notin late =>
      dstate[hold[o]] = "live" /\ bstate[dbackend[hold[o]]] = "live"

\* A listing misses no disk that stays mapped from its first call to its
\* last, whatever is mapped and unmapped between the calls
\* (cyanfs_ctl_device_list).
ListingComplete ==
  ~stolen => IF cursor = None THEN due = {} ELSE \A k \in due : Before(cursor, k)

\* A device nobody uses any more.
Unused(dev) ==
  /\ backend_rb[dev] = None
  /\ \A b \in Backend : bdev[b] = dev =>
       /\ bref[b] \cap Kind = {}
       /\ \A c \in Ctl : cbackend[c] = b => cstate[c] # "bound"
       /\ \A d \in Disk : dbackend[d] = b => dref[d] = {}

\* Once the last user has let go of a device, it is flushed, closed and
\* given back, so that it can be mounted again, even if a disk of it was
\* opened after its last put.
DeviceGivenBack ==
  \A dev \in Dev : Unused(dev) ~> (claim[dev] = None \/ ~Unused(dev) \/ stolen)

\* core.h:166 asks that the handlers and the requeue callbacks of a file have
\* ended before cyanfs_close.  Of the openers that came before the last put,
\* none has a bio waiting when the file of its disk is closed.
CallbacksEndBeforeClose == \A o \in io : o \notin late => HasFile(hold[o])
===============================================================================
