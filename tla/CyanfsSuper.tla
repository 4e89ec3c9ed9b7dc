---------------------------- MODULE CyanfsSuper ----------------------------
(***************************************************************************)
(* The metadata of a super: files by id and name, the parent tree made by  *)
(* fork, the extent map of each file, and the journal of the changes.      *)
(*                                                                         *)
(* The operations change the metadata in memory and append an entry that   *)
(* cyanfs_super_journal_replay applies again at the next mount; compaction *)
(* replaces a prefix of the journal by entries that rebuild the same       *)
(* metadata.  Records, journal extents and the device are the subject of   *)
(* CyanfsJournal: here a crash keeps a prefix of the entries that holds    *)
(* every durable one.  Names are normalized names; sizes are in extents.   *)
(***************************************************************************)
EXTENDS Integers, Sequences, FiniteSets

CONSTANTS
  Name,          \* all names that users give
  Marker,        \* the names tried by compact_marker_name, in order
  Extent,        \* the extents of the device that hold data
  NoExtent,
  Slots,         \* bound of the model: extents in a file
  MaxFileId,     \* the largest value of cyanfs_file_id_t
  Reserved,      \* meta.reserved_extents
  Instances      \* devices and bounds, one of which a behaviour is about:
                 \*   journal   the journal of the device when it is first mounted
                 \*   extents   its data extents
                 \*   names     names that users give
                 \*   files     CYANFS_SUPER_MAX_FILES
                 \*   size      bound of the model: extents that a truncate gives
                 \*   seq       bound: journal entries, compacted ones included
                 \*   readers   bound: read-only opens of a file
                 \*   compacts  bound: compactions
                 \*   boots     bound: crashes

Slot == 0 .. Slots - 1
FileId == 1 .. MaxFileId
NoFile == 0

ASSUME SuperAssumption ==
  /\ NoExtent \notin Extent /\ Slots \in Nat /\ Reserved \in Nat /\ MaxFileId \in Nat
  /\ \A i \in Instances :
       /\ i.extents \subseteq Extent /\ i.names \subseteq Name /\ i.size \in 0 .. Slots
       /\ i.files \in Nat /\ Len(Marker) >= i.files + 1
       /\ i.seq \in Nat /\ i.readers \in Nat /\ i.compacts \in Nat /\ i.boots \in Nat
  /\ \A i, j \in DOMAIN Marker : Marker[i] = Marker[j] => i = j

VARIABLES
  inst,      \* the instance, the same for ever
  m,         \* the metadata of the mounted super
  open,      \* open_type and reader of each live file
  copies,    \* COPY tasks queued, and those that failed
  log,       \* the entries since the super header, those in memory included
  head,      \* how many of them the last compaction wrote
  base,      \* journal_seq of the super header
  durable,   \* how many entries are durable
  flushing,  \* a flusher at work: what it will have made durable
  compacts,  \* number of compactions
  boots      \* number of crashes

vars == <<inst, m, open, copies, log, head, base, durable, flushing, compacts, boots>>

-----------------------------------------------------------------------------
(* Metadata: what a struct cyanfs_super holds of files and extents, and the *)
(* functions that change it, used by the operations and by replay alike.   *)

Entry(type, id, x, y) == [type |-> type, id |-> id, x |-> x, y |-> y]
File(name, size, parent, children, extents) ==
  [name |-> name, size |-> size, parent |-> parent, children |-> children,
   extents |-> extents]
Unmapped == [k \in Slot |-> NoExtent]

\* A super before replay; "ok" is false once an entry was refused.
Empty == [ok |-> TRUE, ready |-> FALSE, files |-> <<>>, free |-> inst.extents,
          unused |-> {}, max_file_id |-> 0]

Live(s) == DOMAIN s.files
LookupByName(s, name) == {f \in Live(s) : s.files[f].name = name}
Mapped(f) == {f.extents[k] : k \in Slot} \ {NoExtent}

\* __cyanfs_init_file
InitFile(s, id, name, parent) ==
  [s EXCEPT
     !.files = [f \in Live(s) \cup {id} |->
        IF f = id
        THEN File(name, IF parent = NoFile THEN 0 ELSE s.files[parent].size,
                  parent, 0, Unmapped)
        ELSE [s.files[f] EXCEPT !.children = IF f = parent THEN @ + 1 ELSE @]],
     !.max_file_id = IF id > @ THEN id ELSE @]

\* Mutant: the extents are free at once, also while the super is in use.
UnmapExtentsAtOnce(s, id, slots) ==
  [s EXCEPT
     !.files[id].extents = [k \in Slot |-> IF k \in slots THEN NoExtent ELSE @[k]],
     !.free = @ \cup ({s.files[id].extents[k] : k \in slots} \ {NoExtent})]

\* __cyanfs_file_unmap_extent of some slots: while the journal is replayed the
\* extents are free at once.
UnmapExtents(s, id, slots) ==
  LET gone == {s.files[id].extents[k] : k \in slots} \ {NoExtent}
  IN [s EXCEPT
        !.files[id].extents = [k \in Slot |-> IF k \in slots THEN NoExtent ELSE @[k]],
        !.unused = IF s.ready THEN @ \cup gone ELSE @,
        !.free = IF s.ready THEN @ ELSE @ \cup gone]

\* __cyanfs_file_truncate
TruncateFile(s, id, size) ==
  [UnmapExtents(s, id, {k \in Slot : k >= size}) EXCEPT !.files[id].size = size]

\* __cyanfs_delete_file
DeleteFile(s, id) ==
  LET t == TruncateFile(s, id, 0)
      parent == s.files[id].parent
  IN [t EXCEPT !.files = [f \in Live(s) \ {id} |->
        [t.files[f] EXCEPT !.children = IF f = parent THEN @ - 1 ELSE @]]]

\* __cyanfs_file_map_extent
MapExtent(s, id, k, e) ==
  [s EXCEPT !.files[id].extents[k] = e, !.free = @ \ {e}]

\* __cyanfs_rename_file
RenameFile(s, id, name) == [s EXCEPT !.files[id].name = name]

\* __cyanfs_file_find_extent_follow: the extent that holds the data of a slot,
\* in the file or in the nearest ancestor; a shorter ancestor ends the search.
FindExtentFollow(s, id, k) ==
  LET Follow[f \in 0 .. MaxFileId] ==
        IF f = NoFile \/ k >= s.files[f].size THEN NoExtent
        ELSE IF s.files[f].extents[k] # NoExtent THEN s.files[f].extents[k]
        ELSE Follow[s.files[f].parent]
  IN Follow[id]

-----------------------------------------------------------------------------
(* __cyanfs_super_journal_replay                                           *)

\* Is the entry accepted?
Valid(s, j) ==
  CASE j.type \in {"CREATE", "FORK"} ->
         /\ j.id # NoFile /\ j.id \notin Live(s)
         /\ LookupByName(s, j.x) = {}
         /\ Cardinality(Live(s)) < inst.files
         /\ j.type = "FORK" => j.id > j.y /\ j.y \in Live(s)
    [] j.type \in {"TRUNCATE", "DELETE"} ->
         j.id \in Live(s) /\ s.files[j.id].children = 0
    [] j.type = "BIND" ->
         /\ j.id \in Live(s)
         /\ j.x < s.files[j.id].size /\ s.files[j.id].extents[j.x] = NoExtent
         /\ j.y \in s.free
    [] j.type = "UNBIND" ->
         /\ j.id \in Live(s)
         /\ j.x < s.files[j.id].size /\ s.files[j.id].extents[j.x] # NoExtent
    [] j.type = "RENAME" ->
         j.id \in Live(s) /\ LookupByName(s, j.x) \subseteq {j.id}

Apply(s, j) ==
  CASE j.type = "CREATE"   -> InitFile(s, j.id, j.x, NoFile)
    [] j.type = "FORK"     -> InitFile(s, j.id, j.x, j.y)
    [] j.type = "TRUNCATE" -> TruncateFile(s, j.id, j.x)
    [] j.type = "DELETE"   -> DeleteFile(s, j.id)
    [] j.type = "BIND"     -> MapExtent(s, j.id, j.x, j.y)
    [] j.type = "UNBIND"   -> UnmapExtents(s, j.id, {j.x})
    [] j.type = "RENAME"   -> RenameFile(s, j.id, j.x)

ReplayEntry(s, j) ==
  IF s.ok /\ Valid(s, j) THEN Apply(s, j) ELSE [s EXCEPT !.ok = FALSE]

\* The metadata after each prefix of a journal.
Replays(entries) ==
  LET After[n \in 0 .. Len(entries)] ==
        IF n = 0 THEN Empty ELSE ReplayEntry(After[n - 1], entries[n])
  IN After
Replay(entries) == Replays(entries)[Len(entries)]

-----------------------------------------------------------------------------
(* The entries that a compaction writes for the metadata of a prefix.      *)

\* The BIND entries of a file, in the order of its slots.
BindEntries(s, id) ==
  LET Binds[k \in 0 .. Slots] ==
        IF k = 0 THEN <<>>
        ELSE IF s.files[id].extents[k - 1] = NoExtent THEN Binds[k - 1]
        ELSE Append(Binds[k - 1], Entry("BIND", id, k - 1, s.files[id].extents[k - 1]))
  IN Binds[Slots]

\* A file in cyanfs_journal_compact_loader_finish: created or forked, resized
\* when it would not have its size already, and bound.
FileEntries(s, id) ==
  LET f == s.files[id]
      inherited == IF f.parent = NoFile THEN 0 ELSE s.files[f.parent].size
  IN <<IF f.parent = NoFile THEN Entry("CREATE", id, f.name, NoFile)
       ELSE Entry("FORK", id, f.name, f.parent)>>
     \o (IF f.size # inherited THEN <<Entry("TRUNCATE", id, f.size, NoFile)>> ELSE <<>>)
     \o BindEntries(s, id)

\* Mutant: the largest id is forgotten.
MarkerEntriesNone(s) == <<>>

\* cyanfs_journal_compact_preserve_max_file_id: the largest id ever used is
\* remembered by a file that is created and deleted.
MarkerEntries(s) ==
  LET unused == {i \in DOMAIN Marker : LookupByName(s, Marker[i]) = {}}
      first == CHOOSE i \in unused : \A j \in unused : i <= j
  IN IF \A f \in Live(s) \cup {0} : f < s.max_file_id
     THEN <<Entry("CREATE", s.max_file_id, Marker[first], NoFile),
            Entry("DELETE", s.max_file_id, NoFile, NoFile)>>
     ELSE <<>>

Image(s) ==
  LET Files[n \in 0 .. MaxFileId] ==
        IF n = 0 THEN <<>>
        ELSE IF n \in Live(s) THEN Files[n - 1] \o FileEntries(s, n)
        ELSE Files[n - 1]
  IN Files[MaxFileId] \o MarkerEntries(s)

-----------------------------------------------------------------------------
(* cyanfs_seek_data: the first slot at or after k that reads data.         *)

NoSlot == Slots
FirstOf(S) == IF S = {} THEN NoSlot ELSE CHOOSE k \in S : \A l \in S : k <= l

\* Mutant: the size of the ancestors is not considered.
SeekDataUnclamped(s, id, k) ==
  LET Seek[f \in 0 .. MaxFileId] ==
        IF f = NoFile THEN {}
        ELSE {x \in k .. s.files[id].size - 1 : s.files[f].extents[x] # NoExtent}
             \cup Seek[s.files[f].parent]
  IN FirstOf(Seek[id])

\* The loop over the ancestors, with the slots that each of them shows; it
\* breaks off at the first that is too short.
SeekData(s, id, k) ==
  LET Seek[f \in 0 .. MaxFileId, visible \in 0 .. Slots] ==
        IF f = NoFile THEN {}
        ELSE LET v == IF s.files[f].size < visible THEN s.files[f].size ELSE visible
             IN IF k >= v THEN {}
                ELSE {l \in {FirstOf({x \in k .. Slots - 1 :
                                        s.files[f].extents[x] # NoExtent})} : l < v}
                     \cup Seek[s.files[f].parent, v]
  IN FirstOf(Seek[id, s.files[id].size])

-----------------------------------------------------------------------------
(* Operations                                                              *)

READWRITE == -1
NoFlush == [n |-> 0, extents |-> {}]

\* __cyanfs_super_journal_append
JournalAppend(j) == log' = Append(log, j)

Journalled == <<head, base, durable, flushing, compacts, boots>>

\* cyanfs_create; a null parent.  cyanfs_fork: the parent is not being written.
NewFile(name, parent) ==
  /\ Cardinality(Live(m)) < inst.files /\ m.max_file_id < MaxFileId
  /\ parent # NoFile => parent \in Live(m) /\ open[parent] # READWRITE
  /\ LookupByName(m, name) = {}
  /\ LET id == m.max_file_id + 1
     IN /\ m' = InitFile(m, id, name, parent)
        /\ JournalAppend(Entry(IF parent = NoFile THEN "CREATE" ELSE "FORK", id, name, parent))
  /\ UNCHANGED <<open, copies, Journalled>>

Create(name) == NewFile(name, NoFile)
Fork(parent, name) == parent \in Live(m) /\ NewFile(name, parent)

Rename(id, name) ==
  /\ id \in Live(m) /\ LookupByName(m, name) = {}
  /\ m' = RenameFile(m, id, name)
  /\ JournalAppend(Entry("RENAME", id, name, NoFile))
  /\ UNCHANGED <<open, copies, Journalled>>

\* A file whose extents may be unmapped: nobody has it open, nobody inherits.
Idle(id) == id \in Live(m) /\ open[id] = 0 /\ m.files[id].children = 0

\* The copies that failed go with the slots they were for.
Forget(id, slots) == copies' = {c \in copies : ~(c.id = id /\ c.k \in slots)}

Truncate(id, size) ==
  /\ Idle(id)
  /\ m' = TruncateFile(m, id, size)
  /\ Forget(id, {k \in Slot : k >= size})
  /\ JournalAppend(Entry("TRUNCATE", id, size, NoFile))
  /\ UNCHANGED <<open, Journalled>>

Delete(id) ==
  /\ Idle(id)
  /\ m' = DeleteFile(m, id)
  /\ Forget(id, Slot)
  /\ JournalAppend(Entry("DELETE", id, NoFile, NoFile))
  /\ UNCHANGED <<open, Journalled>>

\* Mutant: a file that others inherit from is opened for writing.
OpenWriteParent(id) ==
  /\ id \in Live(m) /\ open[id] = 0
  /\ open' = [open EXCEPT ![id] = READWRITE]
  /\ UNCHANGED <<m, copies, log, Journalled>>

OpenWrite(id) ==
  /\ Idle(id)
  /\ open' = [open EXCEPT ![id] = READWRITE]
  /\ UNCHANGED <<m, copies, log, Journalled>>

OpenRead(id) ==
  /\ id \in Live(m) /\ open[id] \in 0 .. inst.readers - 1
  /\ open' = [open EXCEPT ![id] = @ + 1]
  /\ UNCHANGED <<m, copies, log, Journalled>>

\* Mutant: a reader less, however the file was opened.
CloseReader(id) ==
  /\ open[id] # 0
  /\ \A c \in copies : c.id = id => ~c.queued
  /\ open' = [open EXCEPT ![id] = @ - 1]
  /\ UNCHANGED <<m, copies, log, Journalled>>

\* cyanfs_close, which its caller calls once its requests have ended: no COPY
\* of the file is queued.
Close(id) ==
  /\ open[id] # 0
  /\ \A c \in copies : c.id = id => ~c.queued
  /\ open' = [open EXCEPT ![id] = IF @ = READWRITE THEN 0 ELSE @ - 1]
  /\ UNCHANGED <<m, copies, log, Journalled>>

\* Mutant: the entry of a copied slot is appended before the copy is done.
WriteBindsFirst(id, k, e) ==
  /\ id \in Live(m) /\ open[id] = READWRITE
  /\ k < m.files[id].size /\ m.files[id].extents[k] = NoExtent
  /\ e \in m.free /\ Cardinality(m.free) > Reserved
  /\ copies' = IF FindExtentFollow(m, m.files[id].parent, k) = NoExtent THEN copies
               ELSE copies \cup {[id |-> id, k |-> k, e |-> e, queued |-> TRUE]}
  /\ JournalAppend(Entry("BIND", id, k, e))
  /\ m' = MapExtent(m, id, k, e)
  /\ UNCHANGED <<open, Journalled>>

\* cyanfs_write to a slot that the file does not map.  The hash that places a
\* file's extents is left open: any free extent.  A slot an ancestor maps is
\* copied first, and bound in the journal by the copy's completion.
Write(id, k, e) ==
  /\ id \in Live(m) /\ open[id] = READWRITE
  /\ k < m.files[id].size /\ m.files[id].extents[k] = NoExtent
  /\ e \in m.free /\ Cardinality(m.free) > Reserved
  /\ LET p == FindExtentFollow(m, m.files[id].parent, k)
     IN IF p = NoExtent
        THEN /\ JournalAppend(Entry("BIND", id, k, e))
             /\ UNCHANGED copies
        ELSE /\ \A c \in copies : c.e # p
             /\ copies' = copies \cup {[id |-> id, k |-> k, e |-> e, queued |-> TRUE]}
             /\ UNCHANGED log
  /\ m' = MapExtent(m, id, k, e)
  /\ UNCHANGED <<open, Journalled>>

\* cyanfs_task_copy_on_write_done
CopyDone(c) ==
  /\ c.queued
  /\ copies' = copies \ {c}
  /\ JournalAppend(Entry("BIND", c.id, c.k, c.e))
  /\ UNCHANGED <<m, open, Journalled>>

\* The same with an error: the extent stays mapped, in memory only.
CopyFails(c) ==
  /\ c.queued
  /\ copies' = (copies \ {c}) \cup {[c EXCEPT !.queued = FALSE]}
  /\ UNCHANGED <<m, open, log, Journalled>>

\* cyanfs_discard of a whole extent; nothing happens when an ancestor's data
\* would show.
Discard(id, k) ==
  /\ id \in Live(m) /\ open[id] = READWRITE
  /\ k < m.files[id].size /\ m.files[id].extents[k] # NoExtent
  /\ FindExtentFollow(m, m.files[id].parent, k) = NoExtent
  /\ \A c \in copies : ~(c.id = id /\ c.k = k)
  /\ m' = UnmapExtents(m, id, {k})
  /\ JournalAppend(Entry("UNBIND", id, k, NoFile))
  /\ UNCHANGED <<open, copies, Journalled>>

-----------------------------------------------------------------------------
(* Journal                                                                 *)

\* cyanfs_super_flusher_start and the tasks that follow: the entries and the
\* unused extents of now are taken together.
FlushStart ==
  /\ flushing = NoFlush
  /\ Len(log) > durable \/ m.unused # {}
  /\ flushing' = [n |-> Len(log), extents |-> m.unused]
  /\ m' = [m EXCEPT !.unused = {}]
  /\ UNCHANGED <<open, copies, log, head, base, durable, compacts, boots>>

\* cyanfs_super_flusher_after_flush and the discards that it starts.
FlushDone ==
  /\ flushing # NoFlush
  /\ durable' = flushing.n
  /\ m' = [m EXCEPT !.free = @ \cup flushing.extents]
  /\ flushing' = NoFlush
  /\ UNCHANGED <<open, copies, log, head, base, compacts, boots>>

\* cyanfs_super_compact, of the first n entries: they are durable.
Compact(n) ==
  /\ compacts < inst.compacts /\ compacts' = compacts + 1
  /\ n \in head .. durable
  /\ LET image == Image(Replays(log)[n])
         more == Len(image) - n
     IN /\ Len(image) <= base + n
        /\ log' = image \o SubSeq(log, n + 1, Len(log))
        /\ head' = Len(image)
        /\ base' = base - more
        /\ durable' = durable + more
        /\ flushing' = IF flushing = NoFlush THEN NoFlush
                       ELSE [flushing EXCEPT !.n = @ + more]
  /\ UNCHANGED <<m, open, copies, boots>>

\* A crash and cyanfs_super_open: the metadata is what the entries that are
\* left give; they are on the device and need not be written again.
Crash(n) ==
  /\ n \in durable .. Len(log)
  /\ boots < inst.boots /\ boots' = boots + 1
  /\ log' = SubSeq(log, 1, n)
  /\ durable' = n
  /\ m' = [Replay(log') EXCEPT !.ready = TRUE]
  /\ open' = [f \in FileId |-> 0]
  /\ copies' = {} /\ flushing' = NoFlush
  /\ UNCHANGED <<head, base, compacts>>

Init ==
  /\ inst \in Instances
  /\ log = inst.journal
  /\ m = [Replay(log) EXCEPT !.ready = TRUE]
  /\ open = [f \in FileId |-> 0]
  /\ copies = {} /\ head = 0 /\ base = 0 /\ durable = Len(log)
  /\ flushing = NoFlush /\ compacts = 0 /\ boots = 0

\* The actions that append an entry, and those that do not.
Entries ==
  /\ base + Len(log) < inst.seq
  /\ \/ \E name \in inst.names : Create(name)
     \/ \E f \in FileId, name \in inst.names : Fork(f, name) \/ Rename(f, name)
     \/ \E f \in FileId, size \in 0 .. inst.size : Truncate(f, size)
     \/ \E f \in FileId : Delete(f)
     \/ \E f \in FileId, k \in Slot, e \in Extent : Write(f, k, e)
     \/ \E f \in FileId, k \in Slot : Discard(f, k)
     \/ \E c \in copies : CopyDone(c)
Other ==
  \/ \E f \in FileId : OpenWrite(f) \/ OpenRead(f) \/ Close(f)
  \/ \E c \in copies : CopyFails(c)
  \/ FlushStart \/ FlushDone
  \/ \E n \in head .. Len(log) : Compact(n) \/ Crash(n)

Next == UNCHANGED inst /\ (Entries \/ Other)
Spec == Init /\ [][Next]_vars

-----------------------------------------------------------------------------
(* Properties                                                              *)

\* The variables hold values of the program's types.
TypeOK ==
  /\ inst \in Instances
  /\ m.ok /\ m.ready
  /\ Live(m) \subseteq FileId
  /\ \A f \in Live(m) :
       m.files[f] \in [name : Name, size : 0 .. Slots, parent : FileId \cup {NoFile},
                       children : 0 .. inst.files, extents : [Slot -> Extent \cup {NoExtent}]]
  /\ m.free \subseteq Extent /\ m.unused \subseteq Extent
  /\ m.max_file_id \in 0 .. MaxFileId
  /\ open \in [FileId -> {READWRITE} \cup 0 .. inst.readers]
  /\ copies \subseteq [id : FileId, k : Slot, e : Extent, queued : BOOLEAN]
  /\ head \in 0 .. durable /\ durable \in 0 .. Len(log) /\ base \in Nat
  /\ flushing # NoFlush => flushing.n \in durable .. Len(log)
  /\ compacts \in 0 .. inst.compacts /\ boots \in 0 .. inst.boots

\* The metadata without the bindings that only memory has: copies in progress
\* or failed.
Recorded(s) ==
  [f \in Live(s) |-> [s.files[f] EXCEPT !.extents = [k \in Slot |->
      IF \E c \in copies : c.id = f /\ c.k = k THEN NoExtent ELSE @[k]]]]

\* The metadata that a mount rebuilds from the journal is the metadata in
\* memory, unfinished copies apart, and no entry is refused by
\* __cyanfs_super_journal_replay, wherever between the last flush and now a
\* crash cuts the journal, and whatever compactions came before.
ReplayRebuilds ==
  LET last == Replay(log)
  IN /\ last.ok  \* and so is every prefix
     /\ last.files = Recorded(m)
     /\ last.max_file_id = m.max_file_id

\* What cyanfs_journal_compact_loader_finish writes for a prefix of the journal
\* rebuilds that prefix: files, parents, sizes, extents, free extents and the
\* largest id; it is never refused for having more entries than the sequence
\* number allows.
CompactionExact ==
  \A n \in head .. durable :
    LET s == Replays(log)[n]
        image == Image(s)
    IN Replay(image) = s /\ Len(image) <= base + n

\* An extent that some crash would find mapped is not available to any other
\* file or slot: cyanfs_super_flusher releases unused extents only once their
\* unmapping is durable.
NoReuseBeforeDurable ==
  \A n \in durable .. Len(log) :
    LET s == Replays(log)[n]
    IN \A f \in Live(s), k \in Slot :
         LET e == s.files[f].extents[k]
         IN e # NoExtent =>
              /\ e \notin m.free
              /\ \A g \in Live(m), l \in Slot :
                   m.files[g].extents[l] = e => g = f /\ l = k

\* cyanfs_seek_data finds the first slot whose data __cyanfs_file_find_extent_follow
\* finds, through any chain of forks of different sizes.
SeekDataExact ==
  \A f \in Live(m), k \in Slot :
    SeekData(m, f, k) =
      FirstOf({l \in k .. Slots - 1 : FindExtentFollow(m, f, l) # NoExtent})

\* What a file shows: for each slot the extent that is read.
View(s, f) == [k \in Slot |-> FindExtentFollow(s, f, k)]

\* Until a crash, a file that was forked or is open for reading never shows
\* anything else, whatever is done to its children, its parents and other files;
\* and one step changes what at most one file shows.
ForksIsolated ==
  [][boots' = boots =>
       LET changed == {f \in Live(m) \cap Live(m') : View(m', f) # View(m, f)}
       IN /\ Cardinality(changed) <= 1
          /\ \A f \in changed : m.files[f].children = 0 /\ open[f] <= 0]_vars
=============================================================================
