------------------------------- MODULE Fat32 -------------------------------
(***************************************************************************)
(* The metadata of a FAT32 volume as kernel/fs/fat32/fat32.c keeps it: the  *)
(* file allocation tables, the directory tables and, for the one operation  *)
(* in progress, the locals of its C function.  Every write to the device is *)
(* a step of its own, because a crash or a failed command can separate any  *)
(* two of them; what the code only reads between two writes belongs to the  *)
(* step that uses it, except the walks along a chain, one step per link.    *)
(*                                                                          *)
(* A cluster is one sector and a directory is one cluster, as on the disk   *)
(* image the project builds; the code never grows a directory.  File bytes  *)
(* are not kept, only the fact that a cluster holds them.                   *)
(***************************************************************************)
EXTENDS Naturals, Sequences, FiniteSets

CONSTANTS
  MaxCluster,       \* fs->total_clusters + 1, the highest cluster number
  NumFats,          \* fs->number_of_fats
  PerFatSector,     \* FAT entries in one sector
  SlotsPerCluster,  \* directory entries in one cluster
  ClusterSize,      \* bytes in one cluster
  Name,             \* the 8.3 names in use
  NoName,           \* the name field of a slot that has no name
  MaxDepth,         \* longest path, in names, to a parent directory
  Writes,           \* <<position, size>> of the calls of fat32_write
  TruncSizes,       \* sizes given to fat32_truncate
  Ops,              \* operations the callers use
  Faults            \* what may go wrong: "crash", "io"

Root == 2
Cluster == Root..MaxCluster
FREE == 0
EOC == MaxCluster + 1
Slot == 0..(SlotsPerCluster - 1)
AllOps == {"create", "write", "mkdir", "remove", "rmdir", "truncate", "rename"}

ASSUME GeometryAssumption ==
  /\ MaxCluster \in Nat /\ MaxCluster >= Root
  /\ NumFats \in Nat \ {0}
  /\ PerFatSector \in Nat \ {0}
  /\ SlotsPerCluster \in Nat /\ SlotsPerCluster >= 2
  /\ ClusterSize \in Nat \ {0}

ASSUME NameAssumption == NoName \notin Name

ASSUME WorkloadAssumption ==
  /\ MaxDepth \in Nat
  /\ Writes \subseteq Nat \X (Nat \ {0})
  /\ TruncSizes \subseteq Nat
  /\ Ops \subseteq AllOps
  /\ Faults \subseteq {"crash", "io"}

VARIABLES
  fat,     \* fat[k][c]: the entry of cluster c in copy k of the FAT
  table,   \* table[c]: the contents of cluster c, read as directory entries
  f,       \* the operation in progress and its locals
  clean    \* history: no operation has stopped between two of its writes

vars == <<fat, table, f, clean>>

-----------------------------------------------------------------------------
(* Directory entries *)

Kind == {"end", "deleted", "dot", "file", "dir", "data"}
Entry == [kind : Kind, name : Name \cup {NoName},
          cluster : Cluster \cup {0}, size : Nat]

Unnamed(k, c) == [kind |-> k, name |-> NoName, cluster |-> c, size |-> 0]
EndEntry == Unnamed("end", 0)           \* first byte 0x00: nothing follows
DeletedEntry == Unnamed("deleted", 0)   \* first byte 0xE5
Zeroed == [s \in Slot |-> EndEntry]
FileBytes == [s \in Slot |-> Unnamed("data", 0)]

Live(e) == e.kind \in {"file", "dir"}
SlotFree(e) == e.kind \in {"end", "deleted"}

\* Slots before slot s at which a scan of directory d does not stop.
ScanReaches(d, s) == \A t \in 0..(s - 1) : table[d][t].kind # "end"

\* The scan of d comes to its end: at a 0x00 entry, or at the end of its chain.
ScanEnds(d) == fat[1][d] = EOC \/ \E s \in Slot : table[d][s].kind = "end"

\* The slots where fat32_find_in_directory(d, n) stops: the first match.
Found(d, n) ==
  {s \in Slot : /\ Live(table[d][s]) /\ table[d][s].name = n
                /\ ScanReaches(d, s)
                /\ \A t \in 0..(s - 1) :
                      ~(Live(table[d][t]) /\ table[d][t].name = n)}

\* Mutant: the name is not looked up first.
AbsentUnchecked(d, n) == ScanEnds(d)

Absent(d, n) == Found(d, n) = {} /\ ScanEnds(d)

\* Mutant: any free slot, also one behind the 0x00 entry.
FirstFreeSlotAny(d) == {s \in Slot : SlotFree(table[d][s])}

\* fat32_find_free_directory_entry: the first 0x00 or 0xE5 slot.
FirstFreeSlot(d) ==
  {s \in Slot : /\ SlotFree(table[d][s])
                /\ \A t \in 0..(s - 1) : ~SlotFree(table[d][t])}

\* Mutant: a file does not count.
DirectoryIsEmptyOfDirs(d) ==
  ScanEnds(d) /\ \A s \in Slot : ScanReaches(d, s) => table[d][s].kind # "dir"

\* fat32_directory_is_empty: nothing but dots and deleted entries before 0x00.
DirectoryIsEmpty(d) ==
  /\ ScanEnds(d)
  /\ \A s \in Slot : ScanReaches(d, s) => table[d][s].kind \in {"end", "deleted", "dot"}

Path == UNION {[1..k -> Name] : k \in 0..MaxDepth}

\* The clusters that directories begin at.
Directories ==
  LET entries == {e \in Cluster \X Slot : table[e[1]][e[2]].kind = "dir"}
  IN Cluster \cap ({Root} \cup {table[e[1]][e[2]].cluster : e \in entries})

\* The directory a lookup finds in d under the name n begins at c.
LeadsTo(d, n, c) ==
  \E s \in Slot : /\ table[d][s].kind = "dir" /\ table[d][s].cluster = c
                 /\ s \in Found(d, n)

\* The directories a path names: the end of a trail from the root, each step
\* of which leads to the next directory.
Resolve(p) ==
  {t[Len(p)] : t \in {t \in [0..Len(p) -> Directories] :
     t[0] = Root /\ \A i \in 1..Len(p) : LeadsTo(t[i - 1], p[i], t[i])}}

Parents == UNION {Resolve(p) : p \in Path}

-----------------------------------------------------------------------------
(* The operation in progress *)

Label == {"idle", "alloc", "mark", "zero", "link", "undo", "initdir", "entry",
          "walk", "data", "update", "delete", "free", "seek", "cut", "size"}

Frame == [op    : Ops \cup {"none"},
          pc    : Label,
          dir   : Cluster \cup {0},   \* directory cluster and entry index of
          slot  : Slot,               \* the entry the operation is about
          sdir  : Cluster \cup {0},   \* rename: the same, of the source
          sslot : Slot,
          name  : Name \cup {NoName},
          first : Cluster \cup {0},   \* file->first_cluster, found_cluster
          size  : Nat,                \* file->size, found_size
          new   : Cluster \cup {0},   \* the cluster allocated last
          cur   : Cluster \cup {0},   \* the cluster a chain walk stands on
          next  : Cluster \cup {FREE, EOC},
          at    : Nat,                \* index of cur in its chain
          from  : Nat,                \* first and last index a write touches
          upto  : Nat,
          copy  : 1..NumFats]         \* copy of the FAT to be written next

Idle == [op |-> "none", pc |-> "idle", dir |-> 0, slot |-> 0, sdir |-> 0,
         sslot |-> 0, name |-> NoName, first |-> 0, size |-> 0, new |-> 0,
         cur |-> 0, next |-> 0, at |-> 0, from |-> 0, upto |-> 0, copy |-> 1]

Init ==
  /\ fat = [k \in 1..NumFats |-> [c \in Cluster |-> IF c = Root THEN EOC ELSE FREE]]
  /\ table = [c \in Cluster |-> Zeroed]
  /\ f = Idle
  /\ clean = TRUE

-----------------------------------------------------------------------------
(* The device writes.  Each label that writes has one write. *)

\* fat32_write_fat_entry: the entry the current step sets, and its value.
FatCell ==
  CASE f.pc = "mark" -> f.new [] f.pc = "undo" -> f.new
    [] f.pc \in {"link", "free", "cut"} -> f.cur
FatValue ==
  CASE f.pc \in {"mark", "cut"} -> EOC
    [] f.pc \in {"undo", "free"} -> FREE
    [] f.pc = "link" -> f.new

\* Mutant: the sector is written without being read first.
FatAfterUnread(k, c, v) ==
  [fat EXCEPT ![k] = [x \in Cluster |->
     IF x = c THEN v
     ELSE IF x \div PerFatSector = c \div PerFatSector THEN FREE ELSE fat[k][x]]]

\* Copy k after the sector of cluster c, read from copy 1 with the entry of c
\* changed to v, has been written over it.
FatAfter(k, c, v) ==
  [fat EXCEPT ![k] = [x \in Cluster |->
     IF x = c THEN v
     ELSE IF x \div PerFatSector = c \div PerFatSector THEN fat[1][x] ELSE fat[k][x]]]

WriteFat ==
  /\ fat' = FatAfter(f.copy, FatCell, FatValue)
  /\ UNCHANGED table

\* The directory entry write_directory_entry_data builds.
NewEntry ==
  [kind |-> IF f.op = "mkdir" THEN "dir" ELSE "file", name |-> f.name,
   cluster |-> IF f.op = "mkdir" THEN f.new ELSE f.first, size |-> f.size]

Dots(c, parent) ==
  [s \in Slot |-> IF s = 0 THEN Unnamed("dot", c)
                  ELSE IF s = 1 THEN Unnamed("dot", parent) ELSE table[c][s]]

DeletedSlot == IF f.op = "rename" THEN <<f.sdir, f.sslot>> ELSE <<f.dir, f.slot>>

TableAfter ==
  CASE f.pc = "zero"    -> [table EXCEPT ![f.new] = Zeroed]
    [] f.pc = "initdir" -> [table EXCEPT ![f.new] = Dots(f.new, f.dir)]
    [] f.pc = "entry"   -> [table EXCEPT ![f.dir][f.slot] = NewEntry]
    [] f.pc = "data"    -> [table EXCEPT ![f.cur] = FileBytes]
    [] f.pc = "update"  -> [table EXCEPT ![f.dir][f.slot] =
                                           [@ EXCEPT !.cluster = f.first, !.size = f.size]]
    [] f.pc = "size"    -> [table EXCEPT ![f.dir][f.slot] = [@ EXCEPT !.size = f.size]]
    [] f.pc = "delete"  -> [table EXCEPT ![DeletedSlot[1]][DeletedSlot[2]] = DeletedEntry]

\* Mutant: a new cluster keeps what was in it.
WriteTableUnlessZero ==
  table' = (IF f.pc = "zero" THEN table ELSE TableAfter) /\ UNCHANGED fat

WriteTable == table' = TableAfter /\ UNCHANGED fat

FatSteps == {"mark", "link", "undo", "free", "cut"}
TableSteps == {"zero", "initdir", "entry", "data", "update", "size", "delete"}

DeviceWrite ==
  \/ f.pc \in FatSteps /\ WriteFat
  \/ f.pc \in TableSteps /\ WriteTable

\* Mutant: only the first copy of the FAT is written.
FatStepOnce(g) == WriteFat /\ f' = g

\* One step of a FAT update: the next copy, or g once all copies are written.
FatStep(g) ==
  /\ WriteFat
  /\ f' = IF f.copy < NumFats THEN [f EXCEPT !.copy = @ + 1]
          ELSE [g EXCEPT !.copy = 1]

-----------------------------------------------------------------------------
(* Ways an operation ends *)

Done == f' = Idle /\ UNCHANGED clean

\* An error return, also of a write that has run out of clusters: what the
\* operation wrote so far stays, and nothing is given back.
GiveUp ==
  /\ f' = Idle
  /\ clean' = FALSE

-----------------------------------------------------------------------------
(* Operations begin.  A call the code refuses before its first write changes *)
(* nothing and is a stuttering step.                                         *)

Begin(op) == op \in Ops /\ f = Idle /\ UNCHANGED <<fat, table, clean>>

\* fat32_create_file
Create ==
  /\ Begin("create")
  /\ \E d \in Parents, n \in Name :
       /\ Absent(d, n)
       /\ \E s \in FirstFreeSlot(d) :
            f' = [Idle EXCEPT !.op = "create", !.pc = "entry",
                              !.dir = d, !.slot = s, !.name = n]

\* fat32_open, then fat32_write of w[2] bytes at position w[1].
WriteFrom(d, n, s, w) ==
  LET e == table[d][s]
      end == w[1] + w[2]
  IN [Idle EXCEPT !.op = "write", !.pc = IF e.cluster = 0 THEN "alloc" ELSE "walk",
                  !.dir = d, !.slot = s, !.name = n,
                  !.first = e.cluster, !.cur = e.cluster,
                  !.size = IF end > e.size THEN end ELSE e.size,
                  !.from = w[1] \div ClusterSize,
                  !.upto = (end - 1) \div ClusterSize]

Write ==
  /\ Begin("write")
  /\ \E d \in Parents, n \in Name, w \in Writes : \E s \in Found(d, n) :
       /\ table[d][s].kind = "file" /\ w[1] <= table[d][s].size
       /\ table[d][s].cluster = 0 => table[d][s].size = 0
       /\ f' = WriteFrom(d, n, s, w)

\* fat32_mkdir
Mkdir ==
  /\ Begin("mkdir")
  /\ \E d \in Parents, n \in Name :
       /\ Absent(d, n)
       /\ \E s \in FirstFreeSlot(d) :
            f' = [Idle EXCEPT !.op = "mkdir", !.pc = "alloc",
                              !.dir = d, !.slot = s, !.name = n]

\* Mutant: the chain is freed while the entry still names it.
RemoveFreesFirst ==
  /\ Begin("remove")
  /\ \E d \in Parents, n \in Name : \E s \in Found(d, n) :
       /\ table[d][s].kind = "file" /\ table[d][s].cluster # 0
       /\ f' = [Idle EXCEPT !.op = "remove", !.pc = "free", !.dir = d, !.slot = s,
                            !.name = n, !.first = table[d][s].cluster,
                            !.cur = table[d][s].cluster]

\* fat32_remove_file
Remove ==
  /\ Begin("remove")
  /\ \E d \in Parents, n \in Name : \E s \in Found(d, n) :
       /\ table[d][s].kind = "file"
       /\ f' = [Idle EXCEPT !.op = "remove", !.pc = "delete", !.dir = d, !.slot = s,
                            !.name = n, !.first = table[d][s].cluster]

\* fat32_remove_directory
RemoveDirectory ==
  /\ Begin("rmdir")
  /\ \E d \in Parents, n \in Name : \E s \in Found(d, n) :
       /\ table[d][s].kind = "dir"
       /\ DirectoryIsEmpty(table[d][s].cluster)
       /\ f' = [Idle EXCEPT !.op = "rmdir", !.pc = "delete", !.dir = d, !.slot = s,
                            !.name = n, !.first = table[d][s].cluster]

\* fat32_open, then fat32_truncate.  To zero bytes: free the chain, then set the
\* size.  Otherwise: find the last cluster to keep.
TruncateFrom(d, n, s, size) ==
  LET e == table[d][s]
  IN [Idle EXCEPT !.op = "truncate",
                  !.pc = IF size > 0 THEN "seek"
                         ELSE IF e.cluster = 0 THEN "size" ELSE "free",
                  !.dir = d, !.slot = s, !.name = n,
                  !.first = e.cluster, !.cur = e.cluster, !.size = size,
                  !.upto = IF size > 0 THEN (size - 1) \div ClusterSize ELSE 0]

Truncate ==
  /\ Begin("truncate")
  /\ \E d \in Parents, n \in Name, size \in TruncSizes : \E s \in Found(d, n) :
       /\ table[d][s].kind = "file" /\ size < table[d][s].size
       /\ size > 0 => /\ table[d][s].cluster # 0
                      /\ (size - 1) \div ClusterSize < MaxCluster - 1
       /\ f' = TruncateFrom(d, n, s, size)

\* Mutant: the source is deleted before the new entry is written.
RenameFromDeleting(sd, ss, d, n, s) ==
  [Idle EXCEPT !.op = "rename", !.pc = "delete", !.dir = d, !.slot = s, !.name = n,
               !.sdir = sd, !.sslot = ss,
               !.first = table[sd][ss].cluster, !.size = table[sd][ss].size]

\* fat32_rename_file
RenameFrom(sd, ss, d, n, s) ==
  [Idle EXCEPT !.op = "rename", !.pc = "entry", !.dir = d, !.slot = s, !.name = n,
               !.sdir = sd, !.sslot = ss,
               !.first = table[sd][ss].cluster, !.size = table[sd][ss].size]

Rename ==
  /\ Begin("rename")
  /\ \E sd, d \in Parents, sn, n \in Name : \E ss \in Found(sd, sn) :
       /\ table[sd][ss].kind = "file"
       /\ Absent(d, n)
       /\ \E s \in FirstFreeSlot(d) : f' = RenameFrom(sd, ss, d, n, s)

-----------------------------------------------------------------------------
(* Steps of the operation in progress *)

\* Mutant: the search stops without looking at the entry.
FirstFreeUnchecked(c) == \A b \in Cluster : b < c => fat[1][b] # FREE

\* fat32_allocate_cluster, its search: the first free entry of FAT copy 1.
\* With none the operation returns an error and keeps what it has written.
FirstFree(c) == fat[1][c] = FREE /\ \A b \in Cluster : b < c => fat[1][b] # FREE

\* Mutant: the search looks at one cluster too many.
AllocateBeyond ==
  /\ f.pc = "alloc"
  /\ \E c \in Root..EOC :
       /\ \A b \in Cluster : b < c => fat[1][b] # FREE
       /\ c \in Cluster => fat[1][c] = FREE
       /\ f' = [f EXCEPT !.pc = "mark", !.new = c]
  /\ UNCHANGED <<fat, table, clean>>

Allocate ==
  /\ f.pc = "alloc"
  /\ \E c \in Cluster : FirstFree(c) /\ f' = [f EXCEPT !.pc = "mark", !.new = c]
  /\ UNCHANGED <<fat, table, clean>>

DiskFull ==
  /\ f.pc = "alloc"
  /\ \A c \in Cluster : fat[1][c] # FREE
  /\ IF f.new = 0 THEN Done ELSE GiveUp
  /\ UNCHANGED <<fat, table>>

Mark ==
  /\ f.pc = "mark"
  /\ FatStep([f EXCEPT !.pc = "zero"])
  /\ UNCHANGED clean

\* Mutant: the entry of a new directory is written before the directory.
ZeroClusterThenEntry ==
  /\ f.pc = "zero"
  /\ WriteTable
  /\ f' = IF f.op = "mkdir" THEN [f EXCEPT !.pc = "entry"]
          ELSE IF f.first = 0 THEN [f EXCEPT !.pc = "walk", !.first = f.new, !.cur = f.new]
          ELSE [f EXCEPT !.pc = "link"]
  /\ UNCHANGED clean

\* fat32_zero_cluster; then its callers: fat32_mkdir initialises the directory,
\* fat32_write takes a first cluster or links the new one behind the last.
ZeroCluster ==
  /\ f.pc = "zero"
  /\ WriteTable
  /\ f' = IF f.op = "mkdir" THEN [f EXCEPT !.pc = "initdir"]
          ELSE IF f.first = 0 THEN [f EXCEPT !.pc = "walk", !.first = f.new, !.cur = f.new]
          ELSE [f EXCEPT !.pc = "link"]
  /\ UNCHANGED clean

\* fat32_append_cluster, once the cluster is allocated.
Link ==
  /\ f.pc = "link"
  /\ FatStep([f EXCEPT !.pc = "walk", !.cur = f.new, !.at = @ + 1])
  /\ UNCHANGED clean

\* The rollback of a failed step: the new cluster is freed again, and the
\* operation returns the error whether or not that succeeds.
Undo ==
  /\ f.pc = "undo"
  /\ FatStep(Idle)
  /\ UNCHANGED clean

\* fat32_initialize_directory
InitDirectory ==
  /\ f.pc = "initdir"
  /\ WriteTable
  /\ f' = [f EXCEPT !.pc = "entry"]
  /\ UNCHANGED clean

\* fat32_write_directory_entry_data; fat32_rename_file then deletes the source.
WriteEntry ==
  /\ f.pc = "entry"
  /\ WriteTable
  /\ IF f.op = "rename" THEN f' = [f EXCEPT !.pc = "delete"] /\ UNCHANGED clean
                        ELSE Done

\* The loop of fat32_write that finds or appends the clusters up to the last
\* one written; next remembers the cluster where the data begins.
Walk ==
  /\ f.pc = "walk"
  /\ LET next == IF f.at = f.from THEN f.cur ELSE f.next
     IN \/ /\ f.at = f.upto
           /\ f' = [f EXCEPT !.pc = "data", !.cur = next, !.at = f.from, !.next = 0]
        \/ /\ f.at < f.upto /\ fat[1][f.cur] = EOC
           /\ f' = [f EXCEPT !.pc = "alloc", !.next = next]
        \/ /\ f.at < f.upto /\ fat[1][f.cur] \in Cluster
           /\ f' = [f EXCEPT !.cur = fat[1][f.cur], !.next = next, !.at = f.at + 1]
  /\ UNCHANGED <<fat, table, clean>>

\* A chain walk of fat32_write or fat32_truncate meets a free entry, or (only
\* when the size on disk is beyond the chain) the end: the call is refused.
BrokenChain ==
  /\ \/ f.pc \in {"walk", "seek"} /\ f.at < f.upto /\ fat[1][f.cur] = FREE
     \/ f.pc = "seek" /\ f.at < f.upto /\ fat[1][f.cur] = EOC
  /\ IF f.new = 0 THEN Done ELSE GiveUp
  /\ UNCHANGED <<fat, table>>

\* The loop of fat32_write that writes the data, one cluster a step.  The entry
\* is rewritten if the size or the first cluster changed.
WriteData ==
  /\ f.pc = "data"
  /\ WriteTable
  /\ IF f.at < f.upto
     THEN IF fat[1][f.cur] \in Cluster
          THEN f' = [f EXCEPT !.cur = fat[1][f.cur], !.at = @ + 1] /\ UNCHANGED clean
          ELSE GiveUp
     ELSE LET e == table[f.dir][f.slot]
          IN IF f.size # e.size \/ f.first # e.cluster
             THEN f' = [f EXCEPT !.pc = "update"] /\ UNCHANGED clean
             ELSE Done

\* fat32_update_file_entry: first cluster and size.
UpdateEntry == f.pc = "update" /\ WriteTable /\ Done

\* Mutant: the clusters are not freed.
DeleteEntryOnly == f.pc = "delete" /\ WriteTable /\ Done

\* fat32_delete_directory_entry, then the callers' last part.
DeleteEntry ==
  /\ f.pc = "delete"
  /\ WriteTable
  /\ IF f.op = "rename" \/ f.first = 0 THEN Done
     ELSE f' = [f EXCEPT !.pc = "free", !.cur = f.first] /\ UNCHANGED clean

\* The link that freeing and cutting read before they write the first copy.
LinkRead == IF f.copy = 1 THEN fat[1][f.cur] ELSE f.next
NextCopy == f.copy < NumFats /\ f' = [f EXCEPT !.copy = f.copy + 1, !.next = LinkRead]

\* One round of fat32_free_cluster_chain: read the link, free the cluster, go
\* on if the link is one.  fat32_truncate sets the size after the last round.
FreeLink ==
  /\ f.pc = "free"
  /\ WriteFat
  /\ \/ NextCopy /\ UNCHANGED clean
     \/ /\ f.copy = NumFats /\ LinkRead \in Cluster
        /\ f' = [f EXCEPT !.cur = LinkRead, !.next = 0, !.copy = 1]
        /\ UNCHANGED clean
     \/ /\ f.copy = NumFats /\ LinkRead = EOC
        /\ IF f.op = "truncate"
           THEN f' = [f EXCEPT !.pc = "size", !.cur = 0, !.next = 0, !.copy = 1]
                /\ UNCHANGED clean
           ELSE Done
     \/ f.copy = NumFats /\ LinkRead = FREE /\ GiveUp

\* fat32_get_cluster_at, one link a step.
Seek ==
  /\ f.pc = "seek"
  /\ \/ f.at = f.upto /\ f' = [f EXCEPT !.pc = "cut"]
     \/ /\ f.at < f.upto /\ fat[1][f.cur] \in Cluster
        /\ f' = [f EXCEPT !.cur = fat[1][f.cur], !.at = @ + 1]
  /\ UNCHANGED <<fat, table, clean>>

\* fat32_free_cluster_chain_after: the last cluster kept becomes the end.
Cut ==
  /\ f.pc = "cut"
  /\ WriteFat
  /\ \/ NextCopy /\ UNCHANGED clean
     \/ /\ f.copy = NumFats /\ LinkRead = EOC
        /\ f' = [f EXCEPT !.pc = "size", !.cur = 0, !.next = 0, !.copy = 1]
        /\ UNCHANGED clean
     \/ /\ f.copy = NumFats /\ LinkRead \in Cluster
        /\ f' = [f EXCEPT !.pc = "free", !.cur = LinkRead, !.next = 0, !.copy = 1]
        /\ UNCHANGED clean
     \/ f.copy = NumFats /\ LinkRead = FREE /\ GiveUp

\* Mutant: the entry keeps the old size.
UpdateSizeSkipped == f.pc = "size" /\ UNCHANGED <<fat, table>> /\ Done

\* fat32_update_directory_entry_size: the size only.
UpdateSize == f.pc = "size" /\ WriteTable /\ Done

-----------------------------------------------------------------------------
(* Failures *)

\* Mutant: a failed rollback is tried again.
RollsBackAgain ==
  f.pc \in {"zero", "link", "initdir", "undo"} \/ (f.pc = "entry" /\ f.op = "mkdir")

\* Mutant: a failed update of the entry frees the new cluster.
RollsBackUpdate ==
  f.pc \in {"zero", "link", "initdir", "update"} \/ (f.pc = "entry" /\ f.op = "mkdir")

\* A device call of the current step fails.  The sector may have been written
\* all the same: ata_write_sector also reports a timeout after the data was
\* taken.  Steps with a rollback go to it, all others return the error.
RollsBack == f.pc \in {"zero", "link", "initdir"} \/ (f.pc = "entry" /\ f.op = "mkdir")

DeviceFails ==
  /\ "io" \in Faults
  /\ f.pc # "idle"
  /\ DeviceWrite \/ UNCHANGED <<fat, table>>
  /\ f' = IF RollsBack THEN [f EXCEPT !.pc = "undo", !.copy = 1] ELSE Idle
  /\ clean' = FALSE

\* The machine stops; after the reboot fat32_mount reads the same volume.
Crash ==
  /\ "crash" \in Faults
  /\ f.pc # "idle"
  /\ GiveUp
  /\ UNCHANGED <<fat, table>>

Call == Create \/ Write \/ Mkdir \/ Remove \/ RemoveDirectory \/ Truncate \/ Rename

Step == \/ Allocate \/ DiskFull \/ Mark \/ ZeroCluster \/ Link \/ Undo
        \/ InitDirectory \/ WriteEntry \/ Walk \/ BrokenChain \/ WriteData
        \/ UpdateEntry \/ DeleteEntry \/ FreeLink \/ Seek \/ Cut \/ UpdateSize

Next == Call \/ Step \/ DeviceFails \/ Crash

Spec == Init /\ [][Next]_vars

\* The kernel runs one operation at a time, to its end, on one thread.
FairSpec == Spec /\ WF_vars(Step)

-----------------------------------------------------------------------------
(* Correctness *)

(* Chain walks, searches and rollbacks never leave the clusters, slots and   *)
(* FAT copies of the volume.                                                 *)
TypeOK ==
  /\ fat \in [1..NumFats -> [Cluster -> Cluster \cup {FREE, EOC}]]
  /\ table \in [Cluster -> [Slot -> Entry]]
  /\ f \in Frame
  /\ clean \in BOOLEAN

IsLink(a, b) == fat[1][a] = b
Linked(c) == \E a \in Cluster : IsLink(a, c)

\* While a rename has both entries on disk, the source no longer counts.
Superseded(d, s) == f.op = "rename" /\ f.pc = "delete" /\ <<d, s>> = <<f.sdir, f.sslot>>
Heads(d, s, c) == Live(table[d][s]) /\ table[d][s].cluster = c /\ ~Superseded(d, s)
DirectoryAt(c) == \E d \in Cluster, s \in Slot :
                     table[d][s].kind = "dir" /\ table[d][s].cluster = c

\* No two clusters link to the same one, and no link leads to a free one.
LinksSound ==
  /\ \A a, b, c \in Cluster : IsLink(a, c) /\ IsLink(b, c) => a = b
  /\ \A a, b \in Cluster : IsLink(a, b) => fat[1][b] # FREE

\* The chain an entry names is allocated and begins at that cluster.
HeadsSound ==
  \A d \in Cluster, s \in Slot : \A c \in Cluster :
     Live(table[d][s]) /\ table[d][s].cluster = c =>
        fat[1][c] # FREE /\ ~Linked(c) /\ c # Root

\* No two entries name the same chain.
HeadsDistinct ==
  \A d, e, c \in Cluster, s, t \in Slot :
     Heads(d, s, c) /\ Heads(e, t, c) => d = e /\ s = t

\* Entries are only found in the root directory and in directories that have
\* an entry themselves; every directory is the one cluster it began with.
TreeSound ==
  /\ fat[1][Root] = EOC /\ ~Linked(Root)
  /\ \A d \in Cluster, s \in Slot :
        /\ Live(table[d][s]) => d = Root \/ DirectoryAt(d)
        /\ table[d][s].kind = "dir" => /\ table[d][s].cluster # 0
                                       /\ fat[1][table[d][s].cluster] = EOC

(* At every step of every operation the volume is a forest of chains: no    *)
(* cluster belongs to two files, no entry or link leads to a free cluster,  *)
(* and the tree of directories hangs together.  This is what the order of   *)
(* the writes in fat32.c is for (the comments at 4180-4188 and 4588-4592).  *)
SoundVolume == LinksSound /\ HeadsSound /\ HeadsDistinct /\ TreeSound

\* The chain that begins at c: its i-th element, FREE or EOC after its end.
ChainAt(c) ==
  LET at[i \in 0..MaxCluster] ==
        IF i = 0 THEN c
        ELSE LET p == at[i - 1] IN IF p \in Cluster THEN fat[1][p] ELSE p
  IN [i \in 0..MaxCluster |-> at[i]]
ChainLength(c) == Cardinality({i \in 0..MaxCluster : ChainAt(c)[i] \in Cluster})
ChainSet(c) == {ChainAt(c)[i] : i \in 0..MaxCluster} \cap Cluster

LiveSlots == {e \in Cluster \X Slot : Live(table[e[1]][e[2]])}
At(e) == table[e[1]][e[2]]
Needed(size) == (size + ClusterSize - 1) \div ClusterSize

(* If no operation stopped half-way, then between operations the allocated  *)
(* clusters are exactly those of the chains that entries name: nothing is   *)
(* leaked, whatever order files were written, cut, moved and removed in.    *)
(* A write that finds the disk full when it has taken a cluster already has *)
(* stopped half-way: into an empty file, it leaks what it has taken.  One   *)
(* refused before it took any has not, and neither has a mkdir or create.   *)
NothingLeaked ==
  clean /\ f = Idle =>
    {c \in Cluster : fat[1][c] # FREE}
      = {Root} \cup UNION {ChainSet(At(e).cluster) : e \in LiveSlots}

(* If no operation stopped half-way, every file has exactly the clusters    *)
(* its size asks for and its chain ends in an end-of-chain mark.            *)
ChainsExact ==
  clean /\ f = Idle =>
    \A e \in LiveSlots : At(e).kind = "file" =>
       /\ ChainLength(At(e).cluster) = Needed(At(e).size)
       /\ At(e).cluster # 0 => ChainAt(At(e).cluster)[MaxCluster] = EOC

(* If no operation stopped half-way, all copies of the FAT are equal between *)
(* operations (fat32_write_fat_entry writes each of them).                   *)
MirrorsAgree ==
  clean /\ f = Idle => \A k \in 1..NumFats : fat[k] = fat[1]

(* A directory never has two entries of one name, and no entry lies behind   *)
(* the 0x00 entry where every scan of a directory stops, unless a failed     *)
(* mkdir or a rename that was cut short has had its cluster freed.           *)
TablesSound ==
  \A d \in Cluster :
    /\ \A s, t \in Slot : Live(table[d][s]) /\ Live(table[d][t])
          /\ table[d][s].name = table[d][t].name => s = t
    /\ \A s, t \in Slot : s < t /\ table[d][s].kind = "end" => table[d][t].kind = "end"

(* Every directory begins with . and .. that name itself and the directory   *)
(* its entry is in, and holds nothing that was in its cluster before.        *)
DirectoriesSound ==
  \A e \in LiveSlots : At(e).kind = "dir" =>
    LET c == At(e).cluster
    IN /\ table[c][0] = Unnamed("dot", c)
       /\ table[c][1] = Unnamed("dot", e[1])
       /\ \A s \in Slot : table[c][s].kind # "data" /\ (s > 1 => table[c][s].kind # "dot")

(* A step never touches a file other than the one its operation is about:    *)
(* not its entry, not its chain, not the contents of its clusters.           *)
Subjects == {<<f.dir, f.slot>>, <<f.sdir, f.sslot>>}
BystandersKept ==
  [][\A e \in LiveSlots : At(e).kind = "file" /\ e \notin Subjects =>
       /\ At(e)' = At(e)
       /\ \A c \in ChainSet(At(e).cluster) :
             fat'[1][c] = fat[1][c] /\ table'[c] = table[c]]_vars

(* A rename never leaves the file without an entry, whatever fails.          *)
RenameKeepsFile ==
  [][f.op = "rename" => \A e \in LiveSlots : \E g \in Cluster \X Slot :
        /\ Live(At(g)') /\ At(g)'.kind = At(e).kind
        /\ At(g)'.cluster = At(e).cluster /\ At(g)'.size = At(e).size]_vars

(* Every operation ends, whatever state failures have left the chains in.    *)
OperationEnds == (f.op # "none") ~> (f = Idle)

(* Between operations no entry points at a freed cluster, the state that      *)
(* fat32_remove_file's order of writes avoids (fat32.c:4180-4188).            *)
HeadsAllocated ==
  f = Idle => \A e \in LiveSlots : At(e).cluster # 0 => fat[1][At(e).cluster] # FREE

(* A size on disk never promises more than the chain holds: fat32_read       *)
(* calls the contrary corruption (fat32.c:2643-2646).                        *)
ChainCoversSize ==
  f = Idle => \A e \in LiveSlots : At(e).kind = "file" =>
    ChainLength(At(e).cluster) >= Needed(At(e).size)
=============================================================================
