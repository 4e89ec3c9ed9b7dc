--------------------------- MODULE CyanfsJournal ---------------------------
(***************************************************************************)
(* The journal on the device: records in extents chained by NEXT entries,  *)
(* the two super headers, the writer that appends, the loader that replays *)
(* at mount, and the compaction that writes a new chain in front of the    *)
(* last durable extent while the super is in use.  The device has a        *)
(* volatile write cache: a crash loses writes not followed by a FLUSH.     *)
(*                                                                         *)
(* The metadata is the extent map of one file, whose slots are bound and   *)
(* unbound (CyanfsSuper has the other entries); data and journal extents   *)
(* come from the same pool.  A record takes one block of its extent.       *)
(* Extents stay as they are when they are freed: old records are found     *)
(* again if a chain leads there.                                           *)
(***************************************************************************)
EXTENDS Integers, Sequences, FiniteSets

CONSTANTS
  TotalExtents,
  RecordEntries,  \* entries that fit in a record
  Slots,          \* extents that the largest file has
  MaxSeq,         \* bound of the model: journal entries
  Instances       \* devices and bounds, one of which a behaviour is about:
                  \*   blocks    records that fit in an extent
                  \*   size      extents of the file
                  \*   reserved  meta.reserved_extents
                  \*   ordered   the device's cache loses a suffix of the writes
                  \*   compacts  bound of the model: compactions
                  \*   boots     bound of the model: crashes

Extent == 0 .. TotalExtents - 1
Slot == 0 .. Slots - 1
NoExtent == -1

ASSUME JournalAssumption ==
  /\ TotalExtents \in Nat \ {0} /\ RecordEntries \in Nat \ {0} /\ Slots \in Nat
  /\ MaxSeq \in Nat
  /\ Instances \subseteq [blocks : Nat \ {0}, size : 0 .. Slots, reserved : Nat,
                         ordered : BOOLEAN, compacts : Nat, boots : Nat]

VARIABLES
  inst,             \* the instance, the same for ever
  disk,             \* what is durable: records and super headers
  cache,            \* writes that are not
  map,              \* f->extents
  free, journal_extents, unused, flush_extents,
  cursor,           \* s->journal_cursor
  ondisk,           \* s->journal_cursor.extent_id_ondisk
  journal_head,     \* entries that no flusher has taken
  fl,               \* the flusher that the executor runs
  co,               \* the compaction
  error,            \* CYANFS_SUPER_FLAG_ERROR
  mounted,          \* the last cyanfs_super_open succeeded
  compacts, boots,
  dseq,             \* history: the sequence number that was last made durable
  hist              \* history: the metadata since then

vars == <<inst, disk, cache, map, free, journal_extents, unused, flush_extents, cursor,
          ondisk, journal_head, fl, co, error, mounted, compacts, boots, dseq,
          hist>>

Blocks == inst.blocks
Block == 0 .. Blocks - 1

-----------------------------------------------------------------------------
(* The device                                                              *)

Record(seq, entries, next) == [seq |-> seq, entries |-> entries, next |-> next]
Header(version, id, seq) == [version |-> version, journal_id |-> id, journal_seq |-> seq]

\* What fails its CRC: never written, torn, or not a record at all.
NoRecord == Record(-1, <<>>, NoExtent)
NoHeader == Header(-1, NoExtent, 0)

BIND(k, e) == [slot |-> k, backend |-> e]
UNBIND(k) == [slot |-> k, backend |-> NoExtent]

\* Writes in the cache; a torn write spoils what was there.
WriteRecord(e, b, r) == [kind |-> "journal", at |-> <<e, b>>, value |-> r]
WriteSuper(h) == [kind |-> "super", at |-> <<h.version % 2>>, value |-> h]
Torn(w) == [w EXCEPT !.value = IF w.kind = "super" THEN NoHeader ELSE NoRecord]

\* cyanfs_super_make: both headers lead to an empty journal in extent 0.
NewDisk == [journal |-> [e \in Extent, b \in Block |-> NoRecord],
            super |-> [i \in 0 .. 1 |-> Header(i, 0, 0)]]

Written(d, w) ==
  IF w.kind = "super" THEN [d EXCEPT !.super[w.at[1]] = w.value]
  ELSE [d EXCEPT !.journal[w.at] = w.value]

\* The disk with some of the writes of the cache, and some of them torn.
Survive(kept, torn) ==
  LET After[n \in 0 .. Len(cache)] ==
        IF n = 0 THEN disk
        ELSE IF n \in kept THEN Written(After[n - 1], cache[n])
        ELSE IF n \in torn THEN Written(After[n - 1], Torn(cache[n]))
        ELSE After[n - 1]
  IN After[Len(cache)]

\* What is read, and what a FLUSH makes durable.
Current == Survive(1 .. Len(cache), {})

\* What the disk may hold after the power fails: with an ordered cache the
\* first writes, the next one perhaps torn; otherwise any of the writes.
AfterPowerLoss ==
  IF inst.ordered
  THEN {Survive(1 .. n, {}) : n \in 0 .. Len(cache)} \cup
       {Survive(1 .. n - 1, {n}) : n \in 1 .. Len(cache)}
  ELSE {Survive(kept, {}) : kept \in SUBSET (1 .. Len(cache))}

\* CYANFS_TASK_FLUSH: all that was written is durable, and with it the
\* metadata that the records up to a sequence number give.
FlushDevice(seq) ==
  /\ disk' = Current
  /\ dseq' = seq
  /\ hist' = SubSeq(hist, seq - dseq + 1, Len(hist))

-----------------------------------------------------------------------------
(* The loader: a run of cyanfs_journal_loader_start over a disk.           *)

\* cyanfs_super_parse
SuperParse(d) ==
  IF d.super[1].version > d.super[0].version THEN d.super[1] ELSE d.super[0]

\* __cyanfs_super_journal_replay of the entries of a record: the map and
\* whether all of them were accepted.
Replay(m, entries) ==
  LET After[n \in 0 .. Len(entries)] ==
        IF n = 0 THEN [ok |-> TRUE, map |-> m]
        ELSE LET s == After[n - 1]
                 j == entries[n]
             IN [ok |-> /\ s.ok
                        /\ IF j.backend = NoExtent THEN s.map[j.slot] # NoExtent
                           ELSE /\ s.map[j.slot] = NoExtent
                                /\ \A k \in Slot : s.map[k] # j.backend,
                 map |-> [s.map EXCEPT ![j.slot] = j.backend]]
  IN After[Len(entries)]

\* cyanfs_journal_loader_parser_page, for the record at the loader's cursor.
\* A record that is not valid or not the next one ends the journal.
ParseRecord(d, l, end) ==
  LET r == d.journal[l.id, l.off]
      has_next == r.next # NoExtent
      follow_end == has_next /\ r.next = end
      replayed == Replay(l.map, r.entries)
  IN IF r.seq # l.seq
     THEN [l EXCEPT !.done = TRUE, !.ok = end = NoExtent]
     ELSE IF \/ ~has_next /\ l.off = Blocks - 1
             \/ has_next /\ ~follow_end /\ r.next \in l.visited
             \/ ~replayed.ok
     THEN [l EXCEPT !.done = TRUE, !.ok = FALSE]
     ELSE [l EXCEPT !.map = replayed.map,
                    !.seq = @ + Len(r.entries),
                    !.done = follow_end,
                    !.visited = IF has_next /\ ~follow_end THEN @ \cup {r.next} ELSE @,
                    !.id = IF has_next /\ ~follow_end THEN r.next ELSE @,
                    !.off = IF has_next /\ ~follow_end THEN 0 ELSE @ + 1]

\* The whole run, up to the link to extent "end" or to the end of the journal;
\* cyanfs_journal_loader_end takes the extents of the chain out of the free
\* ones, where none may be mapped.
Load(d, end) ==
  LET h == SuperParse(d)
      start == [id |-> h.journal_id, off |-> 0, seq |-> h.journal_seq,
                map |-> [k \in Slot |-> NoExtent], visited |-> {h.journal_id},
                done |-> FALSE, ok |-> TRUE]
      Run[n \in 0 .. TotalExtents * Blocks] ==
        IF n = 0 THEN start
        ELSE LET l == Run[n - 1] IN IF l.done THEN l ELSE ParseRecord(d, l, end)
      last == Run[TotalExtents * Blocks]
  IN IF h = NoHeader THEN [start EXCEPT !.ok = FALSE]
     ELSE IF h.journal_id = end THEN [start EXCEPT !.visited = {}]
     ELSE [last EXCEPT !.ok = @ /\ \A k \in Slot : last.map[k] \notin last.visited]

-----------------------------------------------------------------------------
(* The writer                                                              *)

\* __cyanfs_super_find_nearly_extent(s, 0)
MinFree == CHOOSE e \in free : \A x \in free : e <= x

Few(entries) == IF Len(entries) < RecordEntries THEN Len(entries) ELSE RecordEntries

\* cyanfs_journal_writer_encode of the first entries of a list, at a cursor c:
\* the record, the cursor after it, and the entries that are left.  The last
\* record of a list links to next_id if there is one; a record that fills its
\* extent links to a new one.
Encode(c, entries, next_id) ==
  LET n == Few(entries)
      final_link == n = Len(entries) /\ next_id # NoExtent
      at_extent_end == c.off = Blocks - 1
      new_extent == IF final_link THEN next_id ELSE IF at_extent_end THEN MinFree ELSE NoExtent
  IN [write |-> WriteRecord(c.id, c.off, Record(c.seq, SubSeq(entries, 1, n), new_extent)),
      takes |-> IF at_extent_end /\ ~final_link THEN {new_extent} ELSE {},
      cursor |-> [id |-> IF new_extent # NoExtent THEN new_extent ELSE c.id,
                  off |-> IF new_extent # NoExtent THEN 0 ELSE c.off + 1,
                  seq |-> c.seq + n],
      left |-> SubSeq(entries, n + 1, Len(entries))]

\* There is an extent for the next record to link to.
CanEncode(c, entries, next_id) ==
  \/ c.off < Blocks - 1
  \/ Few(entries) = Len(entries) /\ next_id # NoExtent
  \/ free # {}

-----------------------------------------------------------------------------
(* Operations on the file: cyanfs_write of an unmapped slot, cyanfs_discard *)

metadata == <<map, free, unused, journal_head, hist>>
device == <<disk, cache, dseq>>
bounds == <<compacts, boots>>

\* A number of entries that a history of this length allows.
Room == dseq + Len(hist) - 1 < MaxSeq

Write(k, e) ==
  /\ ~error /\ Room
  /\ k < inst.size /\ map[k] = NoExtent
  /\ e \in free /\ Cardinality(free) > inst.reserved
  /\ map' = [map EXCEPT ![k] = e]
  /\ free' = free \ {e}
  /\ journal_head' = Append(journal_head, BIND(k, e))
  /\ hist' = Append(hist, map')
  /\ UNCHANGED <<device, journal_extents, unused, flush_extents, cursor, ondisk, fl, co,
                 error, mounted, bounds>>

Discard(k) ==
  /\ ~error /\ Room
  /\ map[k] # NoExtent
  /\ map' = [map EXCEPT ![k] = NoExtent]
  /\ unused' = unused \cup {map[k]}
  /\ journal_head' = Append(journal_head, UNBIND(k))
  /\ hist' = Append(hist, map')
  /\ UNCHANGED <<device, free, journal_extents, flush_extents, cursor, ondisk, fl, co,
                 error, mounted, bounds>>

-----------------------------------------------------------------------------
(* The flusher.  Its tasks are at the head of the queue until it ends: no   *)
(* step of a compaction comes between them.                                *)

NoFlusher == [on |-> FALSE, head |-> <<>>, unused |-> {}, ondisk |-> FALSE,
              flush_before_write |-> FALSE]

FlusherStart(to_disk) ==
  /\ ~error /\ ~fl.on
  /\ to_disk \/ journal_head # <<>>
  /\ fl' = [on |-> TRUE, head |-> journal_head, unused |-> unused, ondisk |-> to_disk,
            flush_before_write |-> FALSE]
  /\ journal_head' = <<>> /\ unused' = {}
  /\ UNCHANGED <<device, map, free, journal_extents, flush_extents, cursor, ondisk, co,
                 error, mounted, bounds, hist>>

\* The device is flushed before the first record that says so is written, for
\* the requests that the released extents may have had.
FlushesBefore(r) ==
  ~fl.flush_before_write /\ \E n \in DOMAIN r.entries : r.entries[n].backend = NoExtent

FlusherWrite ==
  /\ fl.on /\ fl.head # <<>> /\ CanEncode(cursor, fl.head, NoExtent)
  /\ LET x == Encode(cursor, fl.head, NoExtent)
         flush == FlushesBefore(x.write.value)
         moves == flush /\ flush_extents = {}
     IN /\ cursor' = x.cursor
        /\ free' = free \ x.takes
        /\ journal_extents' = journal_extents \cup x.takes
        /\ IF flush THEN FlushDevice(cursor.seq) /\ cache' = <<x.write>>
           ELSE cache' = Append(cache, x.write) /\ UNCHANGED <<disk, dseq, hist>>
        /\ flush_extents' = IF moves THEN fl.unused ELSE flush_extents
        /\ fl' = [fl EXCEPT !.head = x.left,
                            !.unused = IF moves THEN {} ELSE @,
                            !.flush_before_write = @ \/ flush]
  /\ UNCHANGED <<map, unused, ondisk, journal_head, co, error, mounted, bounds>>

\* No free extent for the journal: the super fails.
FlusherFails ==
  /\ fl.on /\ fl.head # <<>> /\ ~CanEncode(cursor, fl.head, NoExtent)
  /\ error' = TRUE
  /\ unused' = unused \cup fl.unused
  /\ fl' = NoFlusher
  /\ UNCHANGED <<device, map, free, journal_extents, flush_extents, cursor, ondisk,
                 journal_head, co, mounted, bounds, hist>>

\* Mutant: a flusher that has not released its extents drops them.
FlusherEndForgets ==
  /\ fl.on /\ fl.head = <<>>
  /\ IF fl.ondisk
     THEN /\ FlushDevice(cursor.seq) /\ cache' = <<>>
          /\ free' = free \cup (IF flush_extents = {} THEN fl.unused ELSE flush_extents)
          /\ flush_extents' = {}
          /\ ondisk' = cursor.id
     ELSE UNCHANGED <<device, hist, free, flush_extents, ondisk>>
  /\ fl' = NoFlusher
  /\ UNCHANGED <<map, journal_extents, unused, cursor, journal_head, co, error, mounted,
                 bounds>>

\* Mutant: after_flush when the last record was only written, not flushed.
FlusherEndUnflushed ==
  /\ fl.on /\ fl.head = <<>>
  /\ LET released == IF flush_extents = {} THEN fl.unused ELSE flush_extents
     IN IF fl.ondisk
        THEN /\ dseq' = cursor.seq /\ hist' = SubSeq(hist, cursor.seq - dseq + 1, Len(hist))
             /\ free' = free \cup released
             /\ flush_extents' = {}
             /\ unused' = unused \cup (fl.unused \ released)
             /\ ondisk' = cursor.id
        ELSE /\ unused' = unused \cup fl.unused
             /\ UNCHANGED <<dseq, hist, free, flush_extents, ondisk>>
  /\ fl' = NoFlusher
  /\ UNCHANGED <<disk, cache, map, journal_extents, cursor, journal_head, co, error, mounted,
                 bounds>>

\* cyanfs_super_flusher_before_flush, after_flush and free of a flusher that was
\* asked to reach the disk; free alone of another.
FlusherEnd ==
  /\ fl.on /\ fl.head = <<>>
  /\ LET released == IF flush_extents = {} THEN fl.unused ELSE flush_extents
     IN IF fl.ondisk
        THEN /\ FlushDevice(cursor.seq) /\ cache' = <<>>
             /\ free' = free \cup released
             /\ flush_extents' = {}
             /\ unused' = unused \cup (fl.unused \ released)
             /\ ondisk' = cursor.id
        ELSE /\ unused' = unused \cup fl.unused
             /\ UNCHANGED <<device, hist, free, flush_extents, ondisk>>
  /\ fl' = NoFlusher
  /\ UNCHANGED <<map, journal_extents, cursor, journal_head, co, error, mounted, bounds>>

-----------------------------------------------------------------------------
(* Compaction: one task at a time, at the tail of the queue                *)

NoCompact == [phase |-> "idle", end |-> NoExtent, header |-> NoHeader, head |-> <<>>,
              cursor |-> [id |-> NoExtent, off |-> 0, seq |-> 0], old |-> {}]

\* The entries for a map, in the order of the slots.
Image(m) ==
  LET Binds[k \in 0 .. Slots] ==
        IF k = 0 THEN <<>>
        ELSE IF m[k - 1] = NoExtent THEN Binds[k - 1]
        ELSE Append(Binds[k - 1], BIND(k - 1, m[k - 1]))
  IN Binds[Slots]

CompactStart ==
  /\ ~error /\ co.phase = "idle"
  /\ compacts < inst.compacts /\ compacts' = compacts + 1
  /\ co' = [NoCompact EXCEPT !.phase = "load", !.end = ondisk]
  /\ UNCHANGED <<device, metadata, journal_extents, flush_extents, cursor, ondisk, fl,
                 error, mounted, boots>>

\* cyanfs_journal_compact_loader_finish: the new chain begins in a new extent;
\* without any entry it is the old one from "end" on.
CompactLoad ==
  /\ co.phase = "load" /\ ~fl.on
  /\ LET l == Load(Current, co.end)
         image == Image(l.map)
         version == SuperParse(Current).version + 1
         seq == l.seq - Len(image)
         first == IF image = <<>> THEN co.end ELSE MinFree
     IN /\ l.ok /\ seq >= 0
        /\ image # <<>> => free # {}
        /\ IF image = <<>> THEN UNCHANGED <<free, journal_extents>>
           ELSE /\ free' = free \ {first}
                /\ journal_extents' = journal_extents \cup {first}
        /\ co' = [co EXCEPT !.phase = IF image = <<>> THEN "super" ELSE "write",
                            !.header = Header(version, first, seq),
                            !.head = image,
                            !.cursor = [id |-> first, off |-> 0, seq |-> seq],
                            !.old = l.visited]
  /\ UNCHANGED <<device, map, unused, flush_extents, cursor, ondisk, journal_head, fl,
                 error, mounted, bounds, hist>>

CompactWrite ==
  /\ co.phase = "write" /\ ~fl.on /\ ~error
  /\ CanEncode(co.cursor, co.head, co.end)
  /\ LET x == Encode(co.cursor, co.head, co.end)
     IN /\ cache' = Append(cache, x.write)
        /\ free' = free \ x.takes
        /\ journal_extents' = journal_extents \cup x.takes
        /\ co' = [co EXCEPT !.head = x.left, !.cursor = x.cursor,
                            !.phase = IF x.left = <<>> THEN "flush" ELSE "write"]
  /\ UNCHANGED <<disk, dseq, map, unused, flush_extents, cursor, ondisk, journal_head, fl,
                 error, mounted, bounds, hist>>

\* Mutant: the header follows the new chain without a flush between them.
CompactFlushSkipped ==
  /\ co.phase = "flush" /\ ~fl.on
  /\ co' = [co EXCEPT !.phase = "super"]
  /\ UNCHANGED <<device, hist, map, free, journal_extents, unused, flush_extents, cursor,
                 ondisk, journal_head, fl, error, mounted, bounds>>

CompactFlush ==
  /\ co.phase = "flush" /\ ~fl.on
  /\ FlushDevice(cursor.seq) /\ cache' = <<>>
  /\ co' = [co EXCEPT !.phase = "super"]
  /\ UNCHANGED <<map, free, journal_extents, unused, flush_extents, cursor, ondisk,
                 journal_head, fl, error, mounted, bounds>>

CompactSuper ==
  /\ co.phase = "super" /\ ~fl.on
  /\ cache' = Append(cache, WriteSuper(co.header))
  /\ co' = [co EXCEPT !.phase = "flush_super"]
  /\ UNCHANGED <<disk, dseq, metadata, journal_extents, flush_extents, cursor, ondisk, fl,
                 error, mounted, bounds>>

\* Mutant: the old chain is released when the header was only written.
CompactFinishEarly ==
  /\ co.phase = "flush_super" /\ ~fl.on /\ co.old \subseteq journal_extents
  /\ journal_extents' = journal_extents \ co.old
  /\ free' = free \cup co.old
  /\ co' = NoCompact
  /\ UNCHANGED <<device, hist, map, unused, flush_extents, cursor, ondisk, journal_head, fl,
                 error, mounted, bounds>>

\* The FLUSH of the header, and cyanfs_journal_compact_finish.
CompactFinish ==
  /\ co.phase = "flush_super" /\ ~fl.on /\ co.old \subseteq journal_extents
  /\ FlushDevice(cursor.seq) /\ cache' = <<>>
  /\ journal_extents' = journal_extents \ co.old
  /\ free' = free \cup co.old
  /\ co' = NoCompact
  /\ UNCHANGED <<map, unused, flush_extents, cursor, ondisk, journal_head, fl, error,
                 mounted, bounds>>

\* cyanfs_journal_compact_error: the journal does not load, there are more
\* entries than the sequence number allows, there is no free extent, or the
\* super has failed meanwhile.
CompactFails ==
  /\ ~fl.on
  /\ \/ /\ co.phase = "load"
        /\ LET l == Load(Current, co.end)
           IN \/ ~l.ok \/ Len(Image(l.map)) > l.seq
              \/ Image(l.map) # <<>> /\ free = {}
     \/ co.phase = "write" /\ (error \/ ~CanEncode(co.cursor, co.head, co.end))
     \/ co.phase = "flush_super" /\ ~(co.old \subseteq journal_extents)
  /\ error' = TRUE
  /\ co' = NoCompact
  /\ UNCHANGED <<device, metadata, journal_extents, flush_extents, cursor, ondisk, fl,
                 mounted, bounds>>

-----------------------------------------------------------------------------
(* A power failure and cyanfs_super_open                                   *)

Crash ==
  /\ boots < inst.boots /\ boots' = boots + 1
  /\ disk' \in AfterPowerLoss
  /\ LET l == Load(disk', NoExtent)
     IN /\ mounted' = l.ok
        /\ error' = ~l.ok
        /\ IF l.ok
           THEN /\ map' = l.map
                /\ journal_extents' = l.visited
                /\ free' = {e \in Extent \ l.visited : \A k \in Slot : l.map[k] # e}
                /\ cursor' = [id |-> l.id, off |-> l.off, seq |-> l.seq]
                /\ ondisk' = l.id
                /\ dseq' = l.seq /\ hist' = <<l.map>>
           ELSE UNCHANGED <<map, journal_extents, free, cursor, ondisk, dseq, hist>>
  /\ cache' = <<>> /\ journal_head' = <<>>
  /\ unused' = {} /\ flush_extents' = {}
  /\ fl' = NoFlusher /\ co' = NoCompact
  /\ UNCHANGED compacts

Init ==
  /\ inst \in Instances
  /\ disk = NewDisk /\ cache = <<>>
  /\ map = [k \in Slot |-> NoExtent]
  /\ free = Extent \ {0} /\ journal_extents = {0} /\ unused = {} /\ flush_extents = {}
  /\ cursor = [id |-> 0, off |-> 0, seq |-> 0] /\ ondisk = 0
  /\ journal_head = <<>> /\ fl = NoFlusher /\ co = NoCompact
  /\ error = FALSE /\ mounted = TRUE /\ compacts = 0 /\ boots = 0
  /\ dseq = 0 /\ hist = <<map>>

Next ==
  /\ UNCHANGED inst
  /\ \/ \E k \in Slot, e \in Extent : Write(k, e)
     \/ \E k \in Slot : Discard(k)
     \/ \E to_disk \in BOOLEAN : FlusherStart(to_disk)
     \/ FlusherWrite \/ FlusherFails \/ FlusherEnd
     \/ CompactStart \/ CompactLoad \/ CompactWrite \/ CompactFlush \/ CompactSuper
     \/ CompactFinish \/ CompactFails
     \/ Crash

Spec == Init /\ [][Next]_vars

-----------------------------------------------------------------------------
(* Properties                                                              *)

Mapped(m) == {m[k] : k \in Slot} \ {NoExtent}

\* The journal implements durable metadata: a mount gives the metadata of one
\* moment since the last flush, whatever the writer, the loader and a compaction
\* were doing when the power failed.
Durable == INSTANCE CyanfsDurable
  WITH Metadata <- [Slot -> Extent \cup {NoExtent}], state <- map, hist <- hist
DurableMetadata == Durable!Spec

\* Whatever is left on the device, cyanfs_super_open succeeds and finds the
\* metadata of one moment since the last flush.
MountRecovers ==
  \A d \in AfterPowerLoss :
    LET l == Load(d, NoExtent)
    IN l.ok /\ \E n \in DOMAIN hist : l.map = hist[n]

\* Every extent of a chain that a mount would follow, and every one that it
\* would find mapped, is kept from being allocated: an old chain is released
\* only once the new super header is durable.
CrashImageKept ==
  \A d \in AfterPowerLoss :
    LET l == Load(d, NoExtent)
    IN /\ l.visited \subseteq journal_extents
       /\ Mapped(l.map) \cap (free \cup journal_extents) = {}

\* No extent has two uses and none is lost while the super works; after a
\* compaction the journal holds the chain that a mount follows and no other.
ExtentsAccounted ==
  LET pools == <<free, journal_extents, unused, flush_extents, fl.unused, Mapped(map)>>
  IN /\ \A i, j \in DOMAIN pools : i # j => pools[i] \cap pools[j] = {}
     /\ UNION {pools[i] : i \in DOMAIN pools} = Extent
     /\ ~error /\ co.phase = "idle" => journal_extents = Load(Current, NoExtent).visited

\* The loader of a compaction accepts the journal that the super has written.
CompactionLoads == co.phase = "load" => Load(Current, co.end).ok

=============================================================================
