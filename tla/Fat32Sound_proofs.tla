-------------------------- MODULE Fat32Sound_proofs --------------------------
(* Theorems about Fat32, for every volume and set of names: its types, for    *)
(* every workload; and that every step keeps the volume sound, under the      *)
(* workloads of Tame.                                                         *)
EXTENDS Fat32Inv, TLAPS


-----------------------------------------------------------------------------
(* Types *)

TypeInv == TypeOK /\ FrameTypes

LEMMA ClusterValues ==
  /\ \A c \in Cluster : c \in Nat /\ c # 0 /\ c # FREE /\ c # EOC
  /\ FREE # EOC /\ FREE = 0 /\ Root \in Cluster
  BY GeometryAssumption DEF Cluster, Root, FREE, EOC

LEMMA DivNat == ASSUME NEW a \in Nat PROVE a \div ClusterSize \in Nat
  BY GeometryAssumption

LEMMA DivMonotone ==
  ASSUME NEW a \in Nat, NEW b \in Nat, a <= b
  PROVE  a \div ClusterSize <= b \div ClusterSize
  BY GeometryAssumption

LEMMA InitType == Init => TypeInv
  BY GeometryAssumption, NameAssumption
  DEF Init, TypeInv, TypeOK, FrameTypes, Idle, Frame, Label, Cluster, Root, EOC, FREE,
      Slot, Zeroed, EndEntry, Unnamed, Entry, Kind, Allocating

LEMMA FoundInSlot == ASSUME NEW d, NEW n PROVE Found(d, n) \subseteq Slot
  BY DEF Found

LEMMA FirstFreeInSlot == ASSUME NEW d PROVE FirstFreeSlot(d) \subseteq Slot
  BY DEF FirstFreeSlot

\* The directories of a path are the ends of its trails.
Trail(p, t) ==
  /\ t \in [0..Len(p) -> Directories]
  /\ t[0] = Root
  /\ \A i \in 1..Len(p) : LeadsTo(t[i - 1], p[i], t[i])

LEMMA TrailEnds == ASSUME NEW p, NEW d PROVE d \in Resolve(p) <=> \E t : Trail(p, t) /\ d = t[Len(p)]
  BY DEF Resolve, Trail

LEMMA DirectoriesInCluster == Directories \subseteq Cluster
  BY DEF Directories

LEMMA ParentsInCluster == Parents \subseteq Cluster
<1>1. ASSUME NEW p \in Path, NEW d \in Resolve(p) PROVE d \in Cluster
  <2>1. Len(p) \in 0..Len(p)
    BY WorkloadAssumption DEF Path
  <2> QED
    BY <1>1, <2>1, TrailEnds, DirectoriesInCluster DEF Trail
<1> QED
  BY <1>1 DEF Parents

\* A FAT write and a table write keep the device well-typed.
LEMMA FatType ==
  ASSUME TypeInv, f.pc \in FatSteps, WriteFat
  PROVE  fat' \in [1..NumFats -> [Cluster -> Cluster \cup {FREE, EOC}]] /\ table' = table
<1>1. FatCell \in Cluster /\ FatValue \in Cluster \cup {FREE, EOC}
  BY DEF TypeInv, TypeOK, FrameTypes, FatSteps, FatCell, FatValue
<1>2. f.copy \in 1..NumFats
  BY DEF TypeInv, TypeOK, Frame
<1> QED
  BY <1>1, <1>2, GeometryAssumption DEF TypeInv, TypeOK, WriteFat, FatAfter

LEMMA EntryUpdate ==
  ASSUME NEW e \in Entry, NEW c \in Cluster \cup {0}, NEW n \in Nat
  PROVE  /\ [e EXCEPT !.size = n] \in Entry
         /\ [e EXCEPT !.cluster = c, !.size = n] \in Entry
  BY DEF Entry

LEMMA TableType ==
  ASSUME TypeInv, f.pc \in TableSteps, WriteTable
  PROVE  table' \in [Cluster -> [Slot -> Entry]] /\ fat' = fat
<1>0. /\ f.slot \in Slot /\ f.sslot \in Slot /\ f.first \in Cluster \cup {0} /\ f.size \in Nat
      /\ table \in [Cluster -> [Slot -> Entry]]
  BY DEF TypeInv, TypeOK, Frame
<1>1. \A k \in {"end", "deleted", "dot", "data"}, c \in Cluster \cup {0} : Unnamed(k, c) \in Entry
  BY DEF Unnamed, Entry, Kind
<1>2. CASE f.pc = "zero"
  BY <1>0, <1>1, <1>2 DEF WriteTable, TableAfter, TypeInv, FrameTypes, Zeroed, EndEntry
<1>3. CASE f.pc = "initdir"
  BY <1>0, <1>1, <1>3 DEF WriteTable, TableAfter, TypeInv, FrameTypes, Dots
<1>4. CASE f.pc = "entry"
  <2>1. NewEntry \in Entry /\ f.dir \in Cluster
    BY <1>0, <1>4 DEF NewEntry, Entry, Kind, TypeInv, FrameTypes
  <2> QED
    BY <1>0, <1>4, <2>1 DEF WriteTable, TableAfter
<1>5. CASE f.pc = "data"
  BY <1>0, <1>1, <1>5 DEF WriteTable, TableAfter, TypeInv, FrameTypes, FileBytes
<1>6. CASE f.pc = "update"
  <2> DEFINE e == table[f.dir][f.slot]
             g == [e EXCEPT !.cluster = f.first, !.size = f.size]
  <2>1. e \in Entry /\ f.dir \in Cluster
    BY <1>0, <1>6 DEF TypeInv, FrameTypes
  <2>2. g \in Entry
    BY <1>0, <2>1, EntryUpdate
  <2>3. table' = [table EXCEPT ![f.dir][f.slot] = g]
    BY <1>6 DEF WriteTable, TableAfter
  <2> HIDE DEF g
  <2> QED
    BY <1>0, <2>1, <2>2, <2>3 DEF WriteTable
<1>7. CASE f.pc = "size"
  <2>1. [table[f.dir][f.slot] EXCEPT !.size = f.size] \in Entry
    BY <1>0, <1>7, EntryUpdate DEF TypeInv, FrameTypes
  <2> QED
    BY <1>0, <1>7, <2>1 DEF WriteTable, TableAfter, TypeInv, FrameTypes
<1>8. CASE f.pc = "delete"
  BY <1>0, <1>1, <1>8 DEF WriteTable, TableAfter, TypeInv, FrameTypes, DeletedEntry, DeletedSlot
<1> QED
  BY <1>2, <1>3, <1>4, <1>5, <1>6, <1>7, <1>8 DEF TableSteps, WriteTable

LEMMA IdleFields ==
  /\ Idle \in Frame
  /\ Idle.op = "none" /\ Idle.pc = "idle" /\ Idle.dir = 0 /\ Idle.slot = 0
  /\ Idle.sdir = 0 /\ Idle.sslot = 0 /\ Idle.name = NoName /\ Idle.first = 0
  /\ Idle.size = 0 /\ Idle.new = 0 /\ Idle.cur = 0 /\ Idle.next = 0 /\ Idle.at = 0
  /\ Idle.from = 0 /\ Idle.upto = 0 /\ Idle.copy = 1
  BY GeometryAssumption DEF Idle, Frame, Label, Slot, FREE

\* The locals an operation begins with.
LEMMA CreateFrame ==
  ASSUME TypeInv, Create
  PROVE  \E d \in Parents, n \in Name : \E s \in FirstFreeSlot(d) :
           /\ f' \in Frame /\ d \in Cluster /\ s \in Slot
           /\ f'.op = "create" /\ f'.pc = "entry" /\ f'.dir = d /\ f'.slot = s
           /\ f'.name = n /\ f'.first = 0 /\ f'.copy = 1
<1>1. PICK d \in Parents, n \in Name : \E s \in FirstFreeSlot(d) :
        f' = [Idle EXCEPT !.op = "create", !.pc = "entry", !.dir = d, !.slot = s, !.name = n]
  BY DEF Create
<1>2. PICK s \in FirstFreeSlot(d) :
        f' = [Idle EXCEPT !.op = "create", !.pc = "entry", !.dir = d, !.slot = s, !.name = n]
  BY <1>1
<1>3. d \in Cluster /\ s \in Slot
  BY ParentsInCluster, FirstFreeInSlot
<1>4. f' \in Frame
  BY <1>2, <1>3, IdleFields DEF Create, Begin, Frame, Label
<1>5. /\ f'.op = "create" /\ f'.pc = "entry" /\ f'.dir = d /\ f'.slot = s
      /\ f'.name = n /\ f'.first = 0 /\ f'.copy = 1
  BY <1>2, IdleFields DEF Frame
<1> QED
  BY <1>3, <1>4, <1>5

LEMMA MkdirFrame ==
  ASSUME TypeInv, Mkdir
  PROVE  \E d \in Parents, n \in Name : \E s \in FirstFreeSlot(d) :
           /\ f' \in Frame /\ d \in Cluster /\ s \in Slot
           /\ f'.op = "mkdir" /\ f'.pc = "alloc" /\ f'.dir = d /\ f'.slot = s
           /\ f'.name = n /\ f'.copy = 1
<1>1. PICK d \in Parents, n \in Name : \E s \in FirstFreeSlot(d) :
        f' = [Idle EXCEPT !.op = "mkdir", !.pc = "alloc", !.dir = d, !.slot = s, !.name = n]
  BY DEF Mkdir
<1>2. PICK s \in FirstFreeSlot(d) :
        f' = [Idle EXCEPT !.op = "mkdir", !.pc = "alloc", !.dir = d, !.slot = s, !.name = n]
  BY <1>1
<1>3. d \in Cluster /\ s \in Slot
  BY ParentsInCluster, FirstFreeInSlot
<1>4. f' \in Frame
  BY <1>2, <1>3, IdleFields DEF Mkdir, Begin, Frame, Label
<1>5. /\ f'.op = "mkdir" /\ f'.pc = "alloc" /\ f'.dir = d /\ f'.slot = s
      /\ f'.name = n /\ f'.copy = 1
  BY <1>2, IdleFields DEF Frame
<1> QED
  BY <1>3, <1>4, <1>5

LEMMA RemoveFrame ==
  ASSUME TypeInv, Remove \/ RemoveDirectory
  PROVE  \E d \in Parents, n \in Name : \E s \in Found(d, n) :
           /\ f' \in Frame /\ d \in Cluster /\ s \in Slot
           /\ f'.op = IF Remove THEN "remove" ELSE "rmdir"
           /\ f'.pc = "delete" /\ f'.dir = d /\ f'.slot = s
           /\ f'.name = n /\ f'.first = table[d][s].cluster /\ f'.copy = 1
           /\ IF Remove THEN table[d][s].kind = "file"
              ELSE table[d][s].kind = "dir" /\ DirectoryIsEmpty(table[d][s].cluster)
<1> DEFINE op == IF Remove THEN "remove" ELSE "rmdir"
           G(d, n, s) == [Idle EXCEPT !.op = op, !.pc = "delete", !.dir = d, !.slot = s,
                                      !.name = n, !.first = table[d][s].cluster]
           Q(d, s) == IF Remove THEN table[d][s].kind = "file"
                      ELSE table[d][s].kind = "dir" /\ DirectoryIsEmpty(table[d][s].cluster)
<1>0. op \in Ops
  BY DEF Remove, RemoveDirectory, Begin
<1>1. PICK d \in Parents, n \in Name : \E s \in Found(d, n) : f' = G(d, n, s) /\ Q(d, s)
  <2>1. CASE Remove
    BY <2>1 DEF Remove
  <2>2. CASE ~Remove
    BY <2>2 DEF RemoveDirectory
  <2> QED BY <2>1, <2>2
<1>2. PICK s \in Found(d, n) : f' = G(d, n, s) /\ Q(d, s)
  BY <1>1
<1>3. d \in Cluster /\ s \in Slot /\ table[d][s].cluster \in Cluster \cup {0}
  BY ParentsInCluster, FoundInSlot DEF TypeInv, TypeOK, Entry
<1> HIDE DEF op
<1>4. f' \in Frame
  BY <1>0, <1>2, <1>3, IdleFields DEF Frame, Label
<1>5. /\ f'.op = op /\ f'.pc = "delete" /\ f'.dir = d /\ f'.slot = s
      /\ f'.name = n /\ f'.first = table[d][s].cluster /\ f'.copy = 1
  BY <1>2, IdleFields DEF Frame
<1> QED
  BY <1>2, <1>3, <1>4, <1>5 DEF op


LEMMA WriteFrame ==
  ASSUME TypeInv, Write
  PROVE  \E d \in Parents, n \in Name, w \in Writes : \E s \in Found(d, n) :
           LET e == table[d][s]
           IN /\ f' \in Frame /\ d \in Cluster /\ s \in Slot /\ e \in Entry
              /\ e.kind = "file" /\ (e.cluster = 0 => e.size = 0)
              /\ f'.op = "write" /\ f'.pc = (IF e.cluster = 0 THEN "alloc" ELSE "walk")
              /\ f'.dir = d /\ f'.slot = s /\ f'.name = n
              /\ f'.first = e.cluster /\ f'.cur = e.cluster /\ f'.copy = 1
              /\ f'.next = 0 /\ f'.at = 0 /\ f'.from <= f'.upto
              /\ w[1] + w[2] <= ClusterSize => f'.upto = 0
<1>1. PICK d \in Parents, n \in Name, w \in Writes, s \in Slot :
        /\ s \in Found(d, n)
        /\ table[d][s].kind = "file" /\ (table[d][s].cluster = 0 => table[d][s].size = 0)
        /\ f' = WriteFrom(d, n, s, w)
  BY FoundInSlot DEF Write
<1> DEFINE e == table[d][s]
           end == w[1] + w[2]
<1>2. d \in Cluster /\ s \in Slot /\ e \in Entry
  BY ParentsInCluster, FoundInSlot DEF TypeInv, TypeOK
<1>3. /\ e.cluster \in Cluster \cup {0} /\ e.size \in Nat
      /\ end \in Nat /\ w[1] \in Nat /\ end - 1 \in Nat /\ w[1] <= end - 1
  BY <1>2, WorkloadAssumption DEF Entry
<1> DEFINE from == w[1] \div ClusterSize
           upto == (end - 1) \div ClusterSize
           size == IF end > e.size THEN end ELSE e.size
           pc == IF e.cluster = 0 THEN "alloc" ELSE "walk"
<1>4. from \in Nat /\ upto \in Nat /\ from <= upto
  BY <1>3, DivNat, DivMonotone
<1>5. size \in Nat /\ pc \in Label
  BY <1>3 DEF Label
<1>6. f' = [Idle EXCEPT !.op = "write", !.pc = pc, !.dir = d, !.slot = s, !.name = n,
                        !.first = e.cluster, !.cur = e.cluster, !.size = size,
                        !.from = from, !.upto = upto]
  BY <1>1 DEF WriteFrom
<1>7. "write" \in Ops
  BY DEF Write, Begin
<1> HIDE DEF e, end, from, upto, size, pc
<1>8. f' \in Frame
  BY <1>2, <1>3, <1>4, <1>5, <1>6, <1>7, IdleFields DEF Frame
<1>9. /\ f'.op = "write" /\ f'.pc = pc /\ f'.dir = d /\ f'.slot = s /\ f'.name = n
      /\ f'.first = e.cluster /\ f'.cur = e.cluster /\ f'.copy = 1
      /\ f'.next = 0 /\ f'.at = 0 /\ f'.from = from /\ f'.upto = upto
  BY <1>6, IdleFields DEF Frame
<1>10. s \in Found(d, n) /\ e.kind = "file" /\ (e.cluster = 0 => e.size = 0)
  BY <1>1 DEF e
<1>11. f'.from <= f'.upto
  BY <1>4, <1>9
<1>12. end <= ClusterSize => upto = 0
  BY <1>3, GeometryAssumption DEF upto
<1> QED
  BY <1>2, <1>8, <1>9, <1>10, <1>11, <1>12 DEF e, pc, end

LEMMA TruncateFrame ==
  ASSUME TypeInv, Truncate
  PROVE  \E d \in Parents, n \in Name, size \in TruncSizes : \E s \in Found(d, n) :
           LET e == table[d][s]
           IN /\ f' \in Frame /\ d \in Cluster /\ s \in Slot /\ e \in Entry
              /\ e.kind = "file"
              /\ f'.op = "truncate" /\ f'.dir = d /\ f'.slot = s /\ f'.name = n
              /\ f'.first = e.cluster /\ f'.cur = e.cluster /\ f'.copy = 1
              /\ f'.pc = IF size > 0 THEN "seek"
                         ELSE IF e.cluster = 0 THEN "size" ELSE "free"
              /\ size > 0 => e.cluster # 0
<1>1. PICK d \in Parents, n \in Name, size \in TruncSizes, s \in Slot :
        /\ s \in Found(d, n)
        /\ table[d][s].kind = "file" /\ (size > 0 => table[d][s].cluster # 0)
        /\ f' = TruncateFrom(d, n, s, size)
  BY FoundInSlot DEF Truncate
<1> DEFINE e == table[d][s]
           upto == IF size > 0 THEN (size - 1) \div ClusterSize ELSE 0
           pc == IF size > 0 THEN "seek" ELSE IF e.cluster = 0 THEN "size" ELSE "free"
<1>2. d \in Cluster /\ s \in Slot /\ e \in Entry /\ size \in Nat
  BY ParentsInCluster, FoundInSlot, WorkloadAssumption DEF TypeInv, TypeOK
<1>3. e.cluster \in Cluster \cup {0} /\ pc \in Label
  BY <1>2 DEF Entry, Label
<1>4. upto \in Nat
  <2>1. CASE size > 0
    <3>1. size - 1 \in Nat  BY <1>2, <2>1
    <3> QED  BY <2>1, <3>1, DivNat
  <2>2. CASE ~(size > 0)  BY <2>2
  <2> QED  BY <2>1, <2>2
<1>5. f' = [Idle EXCEPT !.op = "truncate", !.pc = pc, !.dir = d, !.slot = s, !.name = n,
                        !.first = e.cluster, !.cur = e.cluster, !.size = size,
                        !.upto = upto]
  BY <1>1 DEF TruncateFrom
<1>6. "truncate" \in Ops
  BY DEF Truncate, Begin
<1> HIDE DEF e, upto, pc
<1>7. f' \in Frame
  BY <1>2, <1>3, <1>4, <1>5, <1>6, IdleFields DEF Frame
<1>8. /\ f'.op = "truncate" /\ f'.dir = d /\ f'.slot = s /\ f'.name = n
      /\ f'.first = e.cluster /\ f'.cur = e.cluster /\ f'.copy = 1 /\ f'.pc = pc
  BY <1>5, IdleFields DEF Frame
<1> QED
  BY <1>1, <1>2, <1>7, <1>8 DEF e, pc

LEMMA RenameFrame ==
  ASSUME TypeInv, Rename
  PROVE  \E sd, d \in Parents, sn, n \in Name : \E ss \in Found(sd, sn), s \in FirstFreeSlot(d) :
           /\ f' \in Frame /\ d \in Cluster /\ s \in Slot /\ sd \in Cluster /\ ss \in Slot
           /\ table[sd][ss] \in Entry /\ table[sd][ss].kind = "file"
           /\ f'.op = "rename" /\ f'.pc = "entry" /\ f'.dir = d /\ f'.slot = s
           /\ f'.name = n /\ f'.sdir = sd /\ f'.sslot = ss
           /\ f'.first = table[sd][ss].cluster /\ f'.copy = 1
<1>1. PICK sd \in Parents, d \in Parents, sn \in Name, n \in Name, ss \in Slot, s \in Slot :
        /\ ss \in Found(sd, sn) /\ s \in FirstFreeSlot(d)
        /\ table[sd][ss].kind = "file" /\ f' = RenameFrom(sd, ss, d, n, s)
  BY FoundInSlot, FirstFreeInSlot DEF Rename
<1> DEFINE e == table[sd][ss]
<1>2. /\ d \in Cluster /\ s \in Slot /\ sd \in Cluster /\ ss \in Slot /\ e \in Entry
  BY ParentsInCluster, FoundInSlot, FirstFreeInSlot DEF TypeInv, TypeOK
<1>3. e.cluster \in Cluster \cup {0} /\ e.size \in Nat
  BY <1>2 DEF Entry
<1>4. f' = [Idle EXCEPT !.op = "rename", !.pc = "entry", !.dir = d, !.slot = s, !.name = n,
                        !.sdir = sd, !.sslot = ss, !.first = e.cluster, !.size = e.size]
  BY <1>1 DEF RenameFrom
<1> HIDE DEF e
<1>5. f' \in Frame
  BY <1>2, <1>3, <1>4, IdleFields DEF Rename, Begin, Frame, Label
<1>6. /\ f'.op = "rename" /\ f'.pc = "entry" /\ f'.dir = d /\ f'.slot = s
      /\ f'.name = n /\ f'.sdir = sd /\ f'.sslot = ss /\ f'.first = e.cluster /\ f'.copy = 1
  BY <1>4, IdleFields DEF Frame
<1> QED
  BY <1>1, <1>2, <1>5, <1>6 DEF e


LEMMA CallType == ASSUME TypeInv, Call PROVE TypeInv'
<1>1. UNCHANGED <<fat, table, clean>>
  BY DEF Call, Create, Write, Mkdir, Remove, RemoveDirectory, Truncate, Rename, Begin
<1>2. f' \in Frame /\ FrameTypes'
  <2>1. CASE Create
    BY <2>1, CreateFrame DEF FrameTypes, Allocating
  <2>2. CASE Write
    <3>1. PICK d \in Parents, n \in Name, w \in Writes, s \in Slot :
            /\ f' \in Frame /\ d \in Cluster /\ table[d][s].cluster \in Cluster \cup {0}
            /\ f'.op = "write" /\ f'.pc = (IF table[d][s].cluster = 0 THEN "alloc" ELSE "walk")
            /\ f'.dir = d /\ f'.name = n /\ f'.first = table[d][s].cluster
            /\ f'.cur = table[d][s].cluster /\ f'.at = 0 /\ f'.from <= f'.upto
      BY <2>2, WriteFrame, FoundInSlot DEF Entry
    <3>2. f'.from \in Nat /\ f'.upto \in Nat
      BY <3>1 DEF Frame
    <3> QED
      BY <3>1, <3>2 DEF FrameTypes, Allocating, Cluster, Root
  <2>3. CASE Mkdir
    BY <2>3, MkdirFrame DEF FrameTypes, Allocating
  <2>4. CASE Remove \/ RemoveDirectory
    BY <2>4, RemoveFrame DEF FrameTypes, Allocating
  <2>5. CASE Truncate
    BY <2>5, TruncateFrame DEF FrameTypes, Allocating, Entry
  <2>6. CASE Rename
    BY <2>6, RenameFrame DEF FrameTypes, Allocating
  <2> QED
    BY <2>1, <2>2, <2>3, <2>4, <2>5, <2>6 DEF Call
<1> QED
  BY <1>1, <1>2 DEF TypeInv, TypeOK

LEMMA IdleType == ASSUME TypeInv, f' = Idle PROVE f' \in Frame /\ FrameTypes'
  BY IdleFields DEF FrameTypes, Allocating

\* What a step does to the locals: those that belong to the call stay, the
\* others get the values listed.
Moved(pc, first, new, cur, next, at, copy) ==
  /\ f' \in Frame
  /\ f'.op = f.op /\ f'.dir = f.dir /\ f'.slot = f.slot /\ f'.sdir = f.sdir
  /\ f'.sslot = f.sslot /\ f'.name = f.name /\ f'.size = f.size
  /\ f'.from = f.from /\ f'.upto = f.upto
  /\ f'.pc = pc /\ f'.first = first /\ f'.new = new /\ f'.cur = cur
  /\ f'.next = next /\ f'.at = at /\ f'.copy = copy

LEMMA Locals ==
  ASSUME TypeInv
  PROVE  /\ f \in Frame /\ f.first \in Cluster \cup {0} /\ f.new \in Cluster \cup {0}
         /\ f.cur \in Cluster \cup {0} /\ f.next \in Cluster \cup {FREE, EOC}
         /\ f.at \in Nat /\ f.from \in Nat /\ f.upto \in Nat /\ f.size \in Nat
         /\ f.copy \in 1..NumFats /\ NumFats \in Nat \ {0} /\ 1 \in 1..NumFats
         /\ f.slot \in Slot /\ f.sslot \in Slot
         /\ fat[1] \in [Cluster -> Cluster \cup {FREE, EOC}]
         /\ table \in [Cluster -> [Slot -> Entry]]
  BY GeometryAssumption DEF TypeInv, TypeOK, Frame

LEMMA AllocateFrame ==
  ASSUME TypeInv, Allocate
  PROVE  \E c \in Cluster : /\ FirstFree(c)
                            /\ Moved("mark", f.first, c, f.cur, f.next, f.at, f.copy)
<1>1. PICK c \in Cluster : FirstFree(c) /\ f' = [f EXCEPT !.pc = "mark", !.new = c]
  BY DEF Allocate
<1>2. Moved("mark", f.first, c, f.cur, f.next, f.at, f.copy)
  BY <1>1, Locals DEF Moved, Frame, Label
<1> QED
  BY <1>1, <1>2

LEMMA MarkFrame ==
  ASSUME TypeInv, Mark
  PROVE  IF f.copy < NumFats
         THEN Moved("mark", f.first, f.new, f.cur, f.next, f.at, f.copy + 1)
         ELSE Moved("zero", f.first, f.new, f.cur, f.next, f.at, 1)
<1>1. CASE f.copy < NumFats
  <2>1. f' = [f EXCEPT !.copy = f.copy + 1] /\ f.pc = "mark"
    BY <1>1 DEF Mark, FatStep
  <2> QED
    BY <1>1, <2>1, Locals DEF Moved, Frame
<1>2. CASE ~(f.copy < NumFats)
  <2>1. f' = [f EXCEPT !.pc = "zero", !.copy = 1]
    BY <1>2 DEF Mark, FatStep
  <2> QED
    BY <1>2, <2>1, Locals DEF Moved, Frame, Label
<1> QED
  BY <1>1, <1>2

LEMMA ZeroFrame ==
  ASSUME TypeInv, ZeroCluster
  PROVE  IF f.op = "mkdir"
         THEN Moved("initdir", f.first, f.new, f.cur, f.next, f.at, f.copy)
         ELSE IF f.first = 0
         THEN Moved("walk", f.new, f.new, f.new, f.next, f.at, f.copy)
         ELSE Moved("link", f.first, f.new, f.cur, f.next, f.at, f.copy)
<1>1. CASE f.op = "mkdir"
  <2>1. f' = [f EXCEPT !.pc = "initdir"]
    BY <1>1 DEF ZeroCluster
  <2> QED
    BY <1>1, <2>1, Locals DEF Moved, Frame, Label
<1>2. CASE f.op # "mkdir" /\ f.first = 0
  <2>1. f' = [f EXCEPT !.pc = "walk", !.first = f.new, !.cur = f.new]
    BY <1>2 DEF ZeroCluster
  <2> QED
    BY <1>2, <2>1, Locals DEF Moved, Frame, Label
<1>3. CASE f.op # "mkdir" /\ f.first # 0
  <2>1. f' = [f EXCEPT !.pc = "link"]
    BY <1>3 DEF ZeroCluster
  <2> QED
    BY <1>3, <2>1, Locals DEF Moved, Frame, Label
<1> QED
  BY <1>1, <1>2, <1>3

LEMMA LinkFrame ==
  ASSUME TypeInv, Link
  PROVE  IF f.copy < NumFats
         THEN Moved("link", f.first, f.new, f.cur, f.next, f.at, f.copy + 1)
         ELSE Moved("walk", f.first, f.new, f.new, f.next, f.at + 1, 1)
<1>1. CASE f.copy < NumFats
  <2>1. f' = [f EXCEPT !.copy = f.copy + 1] /\ f.pc = "link"
    BY <1>1 DEF Link, FatStep
  <2> QED
    BY <1>1, <2>1, Locals DEF Moved, Frame
<1>2. CASE ~(f.copy < NumFats)
  <2>1. f' = [f EXCEPT !.pc = "walk", !.cur = f.new, !.at = f.at + 1, !.copy = 1]
    BY <1>2 DEF Link, FatStep
  <2>2. f.at + 1 \in Nat
    BY Locals
  <2> QED
    BY <1>2, <2>1, <2>2, Locals DEF Moved, Frame, Label
<1> QED
  BY <1>1, <1>2

LEMMA UndoFrame ==
  ASSUME TypeInv, Undo
  PROVE  IF f.copy < NumFats
         THEN Moved("undo", f.first, f.new, f.cur, f.next, f.at, f.copy + 1)
         ELSE f' = Idle
<1>1. CASE f.copy < NumFats
  <2>1. f' = [f EXCEPT !.copy = f.copy + 1] /\ f.pc = "undo"
    BY <1>1 DEF Undo, FatStep
  <2> QED
    BY <1>1, <2>1, Locals DEF Moved, Frame
<1>2. CASE ~(f.copy < NumFats)
  <2>1. f' = [Idle EXCEPT !.copy = 1]
    BY <1>2 DEF Undo, FatStep
  <2> QED
    BY <1>2, <2>1, IdleFields DEF Frame
<1> QED
  BY <1>1, <1>2

LEMMA InitDirectoryFrame ==
  ASSUME TypeInv, InitDirectory
  PROVE  Moved("entry", f.first, f.new, f.cur, f.next, f.at, f.copy)
  BY Locals DEF InitDirectory, Moved, Frame, Label

LEMMA WriteEntryFrame ==
  ASSUME TypeInv, WriteEntry
  PROVE  IF f.op = "rename"
         THEN Moved("delete", f.first, f.new, f.cur, f.next, f.at, f.copy)
         ELSE f' = Idle
  BY Locals DEF WriteEntry, Done, Moved, Frame, Label

LEMMA WalkFrame ==
  ASSUME TypeInv, Walk
  PROVE  \E next \in Cluster \cup {FREE, EOC} :
           /\ next = IF f.at = f.from THEN f.cur ELSE f.next
           /\ \/ /\ f.at = f.upto
                 /\ Moved("data", f.first, f.new, next, 0, f.from, f.copy)
              \/ /\ f.at < f.upto /\ fat[1][f.cur] = EOC
                 /\ Moved("alloc", f.first, f.new, f.cur, next, f.at, f.copy)
              \/ /\ f.at < f.upto /\ fat[1][f.cur] \in Cluster
                 /\ Moved("walk", f.first, f.new, fat[1][f.cur], next, f.at + 1, f.copy)
<1> DEFINE next == IF f.at = f.from THEN f.cur ELSE f.next
<1>1. f.pc = "walk" /\ f.cur \in Cluster /\ next \in Cluster \cup {FREE, EOC}
  BY Locals DEF TypeInv, FrameTypes, Walk
<1>2. f.at = f.upto => next \in Cluster
  BY <1>1, Locals DEF TypeInv, FrameTypes, Cluster, Root
<1>3. \/ f.at = f.upto /\ f' = [f EXCEPT !.pc = "data", !.cur = next, !.at = f.from, !.next = 0]
      \/ f.at < f.upto /\ fat[1][f.cur] = EOC /\ f' = [f EXCEPT !.pc = "alloc", !.next = next]
      \/ f.at < f.upto /\ fat[1][f.cur] \in Cluster
         /\ f' = [f EXCEPT !.cur = fat[1][f.cur], !.next = next, !.at = f.at + 1]
  BY DEF Walk
<1> HIDE DEF next
<1>4. CASE f.at = f.upto /\ f' = [f EXCEPT !.pc = "data", !.cur = next, !.at = f.from, !.next = 0]
  <2>1. Moved("data", f.first, f.new, next, 0, f.from, f.copy)
    BY <1>1, <1>2, <1>4, Locals DEF Moved, Frame, Label, FREE
  <2> QED  BY <1>1, <1>4, <2>1 DEF next
<1>5. CASE f.at < f.upto /\ fat[1][f.cur] = EOC /\ f' = [f EXCEPT !.pc = "alloc", !.next = next]
  <2>1. Moved("alloc", f.first, f.new, f.cur, next, f.at, f.copy)
    BY <1>1, <1>5, Locals DEF Moved, Frame, Label
  <2> QED  BY <1>1, <1>5, <2>1 DEF next
<1>6. CASE f.at < f.upto /\ fat[1][f.cur] \in Cluster
           /\ f' = [f EXCEPT !.cur = fat[1][f.cur], !.next = next, !.at = f.at + 1]
  <2>1. f.at + 1 \in Nat
    BY Locals
  <2>2. Moved("walk", f.first, f.new, fat[1][f.cur], next, f.at + 1, f.copy)
    BY <1>1, <1>6, <2>1, Locals DEF Moved, Frame
  <2> QED  BY <1>1, <1>6, <2>2 DEF next
<1> QED
  BY <1>3, <1>4, <1>5, <1>6

LEMMA WriteDataFrame ==
  ASSUME TypeInv, WriteData
  PROVE  \/ fat[1][f.cur] \in Cluster
            /\ Moved("data", f.first, f.new, fat[1][f.cur], f.next, f.at + 1, f.copy)
         \/ Moved("update", f.first, f.new, f.cur, f.next, f.at, f.copy)
         \/ f' = Idle
<1>1. CASE f.at < f.upto /\ fat[1][f.cur] \in Cluster
  <2>1. f' = [f EXCEPT !.cur = fat[1][f.cur], !.at = f.at + 1] /\ f.pc = "data"
    BY <1>1 DEF WriteData
  <2>2. f.at + 1 \in Nat
    BY Locals
  <2> QED
    BY <1>1, <2>1, <2>2, Locals DEF Moved, Frame
<1>2. CASE f' = [f EXCEPT !.pc = "update"]
  BY <1>2, Locals DEF Moved, Frame, Label
<1> QED
  BY <1>1, <1>2 DEF WriteData, Done, GiveUp

LEMMA DeleteEntryFrame ==
  ASSUME TypeInv, DeleteEntry
  PROVE  IF f.op = "rename" \/ f.first = 0 THEN f' = Idle
         ELSE Moved("free", f.first, f.new, f.first, f.next, f.at, f.copy)
<1>1. CASE f.op # "rename" /\ f.first # 0
  <2>1. f' = [f EXCEPT !.pc = "free", !.cur = f.first]
    BY <1>1 DEF DeleteEntry
  <2> QED
    BY <1>1, <2>1, Locals DEF Moved, Frame, Label
<1> QED
  BY <1>1 DEF DeleteEntry, Done

LEMMA LinkReadType ==
  ASSUME TypeInv, f.pc \in {"free", "cut"}
  PROVE  LinkRead \in Cluster \cup {FREE, EOC}
  BY Locals DEF LinkRead, TypeInv, FrameTypes

LEMMA FreeFrame ==
  ASSUME TypeInv, FreeLink
  PROVE  \/ /\ f.copy < NumFats
            /\ Moved("free", f.first, f.new, f.cur, LinkRead, f.at, f.copy + 1)
         \/ /\ f.copy = NumFats /\ LinkRead \in Cluster
            /\ Moved("free", f.first, f.new, LinkRead, 0, f.at, 1)
         \/ /\ f.copy = NumFats /\ LinkRead = EOC /\ f.op = "truncate"
            /\ Moved("size", f.first, f.new, 0, 0, f.at, 1)
         \/ /\ f.copy = NumFats /\ f' = Idle
            /\ (LinkRead = EOC /\ f.op # "truncate") \/ ~clean'
<1>0. LinkRead \in Cluster \cup {FREE, EOC} /\ f.pc = "free"
  BY LinkReadType DEF FreeLink
<1>1. CASE NextCopy
  <2>1. f.copy < NumFats /\ f.copy + 1 \in 1..NumFats
    BY <1>1, Locals DEF NextCopy
  <2>2. f' = [f EXCEPT !.copy = f.copy + 1, !.next = LinkRead]
    BY <1>1 DEF NextCopy
  <2> QED
    BY <1>0, <2>1, <2>2, Locals DEF Moved, Frame
<1>2. CASE /\ f.copy = NumFats /\ LinkRead \in Cluster
           /\ f' = [f EXCEPT !.cur = LinkRead, !.next = 0, !.copy = 1]
  <2>1. Moved("free", f.first, f.new, LinkRead, 0, f.at, 1)
    BY <1>0, <1>2, Locals DEF Moved, Frame, FREE
  <2> QED
    BY <1>2, <2>1
<1>3. CASE /\ f.copy = NumFats /\ LinkRead = EOC /\ f.op = "truncate"
           /\ f' = [f EXCEPT !.pc = "size", !.cur = 0, !.next = 0, !.copy = 1]
  <2>1. Moved("size", f.first, f.new, 0, 0, f.at, 1)
    BY <1>3, Locals DEF Moved, Frame, Label, FREE
  <2> QED
    BY <1>3, <2>1
<1> QED
  BY <1>1, <1>2, <1>3 DEF FreeLink, Done, GiveUp

LEMMA SeekFrame ==
  ASSUME TypeInv, Seek
  PROVE  \/ Moved("cut", f.first, f.new, f.cur, f.next, f.at, f.copy)
         \/ /\ fat[1][f.cur] \in Cluster
            /\ Moved("seek", f.first, f.new, fat[1][f.cur], f.next, f.at + 1, f.copy)
<1>1. CASE f' = [f EXCEPT !.pc = "cut"]
  BY <1>1, Locals DEF Moved, Frame, Label
<1>2. CASE fat[1][f.cur] \in Cluster /\ f' = [f EXCEPT !.cur = fat[1][f.cur], !.at = f.at + 1]
  <2>1. f.at + 1 \in Nat /\ f.pc = "seek"
    BY Locals DEF Seek
  <2> QED
    BY <1>2, <2>1, Locals DEF Moved, Frame
<1> QED
  BY <1>1, <1>2 DEF Seek

LEMMA CutFrame ==
  ASSUME TypeInv, Cut
  PROVE  \/ /\ f.copy < NumFats
            /\ Moved("cut", f.first, f.new, f.cur, LinkRead, f.at, f.copy + 1)
         \/ /\ f.copy = NumFats /\ LinkRead = EOC
            /\ Moved("size", f.first, f.new, 0, 0, f.at, 1)
         \/ /\ f.copy = NumFats /\ LinkRead \in Cluster
            /\ Moved("free", f.first, f.new, LinkRead, 0, f.at, 1)
         \/ f.copy = NumFats /\ f' = Idle /\ ~clean'
<1>0. LinkRead \in Cluster \cup {FREE, EOC} /\ f.pc = "cut"
  BY LinkReadType DEF Cut
<1>1. CASE NextCopy
  <2>1. f.copy < NumFats /\ f.copy + 1 \in 1..NumFats
    BY <1>1, Locals DEF NextCopy
  <2>2. f' = [f EXCEPT !.copy = f.copy + 1, !.next = LinkRead]
    BY <1>1 DEF NextCopy
  <2> QED
    BY <1>0, <2>1, <2>2, Locals DEF Moved, Frame
<1>2. CASE /\ f.copy = NumFats /\ LinkRead = EOC
           /\ f' = [f EXCEPT !.pc = "size", !.cur = 0, !.next = 0, !.copy = 1]
  <2>1. Moved("size", f.first, f.new, 0, 0, f.at, 1)
    BY <1>2, Locals DEF Moved, Frame, Label, FREE
  <2> QED
    BY <1>2, <2>1
<1>3. CASE /\ f.copy = NumFats /\ LinkRead \in Cluster
           /\ f' = [f EXCEPT !.pc = "free", !.cur = LinkRead, !.next = 0, !.copy = 1]
  <2>1. Moved("free", f.first, f.new, LinkRead, 0, f.at, 1)
    BY <1>3, Locals DEF Moved, Frame, Label, FREE
  <2> QED
    BY <1>3, <2>1
<1> QED
  BY <1>1, <1>2, <1>3 DEF Cut, GiveUp

LEMMA DeviceFailsFrame ==
  ASSUME TypeInv, DeviceFails
  PROVE  IF RollsBack
         THEN Moved("undo", f.first, f.new, f.cur, f.next, f.at, 1)
         ELSE f' = Idle
<1>1. CASE RollsBack
  <2>1. f' = [f EXCEPT !.pc = "undo", !.copy = 1]
    BY <1>1 DEF DeviceFails
  <2> QED
    BY <1>1, <2>1, Locals DEF Moved, Frame, Label
<1> QED
  BY <1>1 DEF DeviceFails

-----------------------------------------------------------------------------
(* Type correctness *)

\* A step that stays within the call, from the values its locals take.
LEMMA StepFrameType ==
  ASSUME TypeInv, Step
  PROVE  f' \in Frame /\ FrameTypes'
<1>1. CASE Allocate
  BY <1>1, AllocateFrame DEF Moved, TypeInv, FrameTypes, Allocating, Allocate
<1>2. CASE Mark
  BY <1>2, MarkFrame DEF Moved, TypeInv, FrameTypes, Allocating, Mark
<1>3. CASE ZeroCluster
  <2>0. f.pc = "zero"
    BY <1>3 DEF ZeroCluster
  <2>1. /\ f.pc = "zero" /\ f.new \in Cluster /\ f.new # 0 /\ f.dir \in Cluster
        /\ f.op \in {"write", "mkdir"} /\ (f.op = "mkdir" => f.name \in Name)
    BY <2>0, ClusterValues DEF TypeInv, FrameTypes, Allocating
  <2>2. CASE f.op = "mkdir"
    BY <1>3, <2>1, <2>2, ZeroFrame DEF Moved, FrameTypes, Allocating
  <2>3. CASE f.op = "write" /\ f.first = 0
    <3>1. f.at = 0 /\ f.from <= f.upto /\ f.at <= f.upto /\ ~(f.at > f.from)
      BY <2>1, <2>3, Locals DEF TypeInv, FrameTypes, Allocating
    <3>2. Moved("walk", f.new, f.new, f.new, f.next, f.at, f.copy)
      BY <1>3, <2>3, ZeroFrame
    <3> QED
      BY <2>1, <2>3, <3>1, <3>2 DEF Moved, FrameTypes, Allocating
  <2>4. CASE f.op = "write" /\ f.first # 0
    BY <1>3, <2>1, <2>4, ZeroFrame DEF Moved, TypeInv, FrameTypes, Allocating
  <2> QED
    BY <2>1, <2>2, <2>3, <2>4
<1>4. CASE Link
  <2>0. f.pc = "link" /\ f.op = "write" /\ f.first # 0 /\ f.new \in Cluster
    BY <1>4 DEF Link, TypeInv, FrameTypes, Allocating
  <2>5. /\ f.at < f.upto /\ (f.at > f.from => f.next \in Cluster)
        /\ f.at = f.from => f.next \in Cluster
    BY <2>0 DEF TypeInv, FrameTypes, Allocating
  <2>1. /\ f.pc = "link" /\ f.op = "write" /\ f.first # 0 /\ f.new \in Cluster
        /\ f.at < f.upto /\ (f.at >= f.from => f.next \in Cluster)
    <3>1. f.at \in Nat /\ f.from \in Nat
      BY Locals
    <3>2. f.at >= f.from => f.at > f.from \/ f.at = f.from
      BY <3>1
    <3> QED
      BY <2>0, <2>5, <3>2
  <2>4. f.from <= f.upto /\ f.dir \in Cluster
    BY <2>1 DEF TypeInv, FrameTypes, Allocating
  <2>2. CASE f.copy < NumFats
    BY <1>4, <2>1, <2>2, LinkFrame DEF Moved, TypeInv, FrameTypes, Allocating
  <2>3. CASE ~(f.copy < NumFats)
    <3>1. Moved("walk", f.first, f.new, f.new, f.next, f.at + 1, 1)
      BY <1>4, <2>3, LinkFrame
    <3>2. f.at + 1 <= f.upto /\ (f.at + 1 > f.from => f.next \in Cluster)
      BY <2>1, Locals
    <3> QED
      BY <2>1, <2>4, <3>1, <3>2 DEF Moved, FrameTypes, Allocating
  <2> QED
    BY <2>2, <2>3
<1>5. CASE Undo
  BY <1>5, UndoFrame, IdleType DEF Moved, TypeInv, FrameTypes, Allocating, Undo
<1>6. CASE InitDirectory
  BY <1>6, InitDirectoryFrame DEF Moved, TypeInv, FrameTypes, Allocating, InitDirectory
<1>7. CASE WriteEntry
  BY <1>7, WriteEntryFrame, IdleType DEF Moved, TypeInv, FrameTypes, Allocating, WriteEntry
<1>8. CASE Walk
  <2>1. /\ f.pc = "walk" /\ f.op = "write" /\ f.dir \in Cluster /\ f.cur \in Cluster
        /\ f.first # 0 /\ f.from <= f.upto /\ f.at <= f.upto
        /\ f.at > f.from => f.next \in Cluster
    BY <1>8 DEF Walk, TypeInv, FrameTypes, Allocating
  <2>2. PICK next \in Cluster \cup {FREE, EOC} :
           /\ next = IF f.at = f.from THEN f.cur ELSE f.next
           /\ \/ f.at = f.upto /\ Moved("data", f.first, f.new, next, 0, f.from, f.copy)
              \/ f.at < f.upto /\ Moved("alloc", f.first, f.new, f.cur, next, f.at, f.copy)
              \/ /\ f.at < f.upto /\ fat[1][f.cur] \in Cluster
                 /\ Moved("walk", f.first, f.new, fat[1][f.cur], next, f.at + 1, f.copy)
    BY <1>8, WalkFrame
  <2>3. f.at >= f.from => next \in Cluster
    <3>1. f.at \in Nat /\ f.from \in Nat
      BY Locals
    <3>2. CASE f.at = f.from
      BY <2>1, <2>2, <3>2
    <3>3. CASE f.at # f.from
      <4>1. next = f.next
        BY <2>2, <3>3
      <4> QED
        BY <2>1, <3>1, <3>3, <4>1
    <3> QED
      BY <3>2, <3>3
  <2>4. CASE f.at = f.upto /\ Moved("data", f.first, f.new, next, 0, f.from, f.copy)
    <3>1. next \in Cluster
      BY <2>1, <2>3, <2>4
    <3> QED
      BY <2>1, <2>4, <3>1 DEF Moved, FrameTypes, Allocating
  <2>5. CASE f.at < f.upto /\ Moved("alloc", f.first, f.new, f.cur, next, f.at, f.copy)
    <3>1. /\ f.at > f.from => next \in Cluster
          /\ f.at = f.from => next \in Cluster
      BY <2>3, Locals
    <3> QED
      BY <2>1, <2>5, <3>1 DEF Moved, FrameTypes, Allocating
  <2>6. CASE /\ f.at < f.upto /\ fat[1][f.cur] \in Cluster
             /\ Moved("walk", f.first, f.new, fat[1][f.cur], next, f.at + 1, f.copy)
    <3>1. f.at + 1 <= f.upto /\ (f.at + 1 > f.from => next \in Cluster)
      BY <2>3, <2>6, Locals
    <3> QED
      BY <2>1, <2>6, <3>1 DEF Moved, FrameTypes, Allocating
  <2> QED
    BY <2>2, <2>4, <2>5, <2>6
<1>9. CASE WriteData
  BY <1>9, WriteDataFrame, IdleType DEF Moved, TypeInv, FrameTypes, Allocating, WriteData
<1>10. CASE DeleteEntry
  BY <1>10, DeleteEntryFrame, IdleType, Locals DEF Moved, TypeInv, FrameTypes, Allocating, DeleteEntry
<1>11. CASE FreeLink
  BY <1>11, FreeFrame, IdleType DEF Moved, TypeInv, FrameTypes, Allocating, FreeLink
<1>12. CASE Seek
  BY <1>12, SeekFrame DEF Moved, TypeInv, FrameTypes, Allocating, Seek
<1>13. CASE Cut
  BY <1>13, CutFrame, IdleType DEF Moved, TypeInv, FrameTypes, Allocating, Cut
<1>14. CASE DiskFull \/ BrokenChain \/ UpdateEntry \/ UpdateSize
  <2>1. f' = Idle
    BY <1>14 DEF DiskFull, BrokenChain, UpdateEntry, UpdateSize, Done, GiveUp
  <2> QED  BY <2>1, IdleType
<1> QED
  BY <1>1, <1>2, <1>3, <1>4, <1>5, <1>6, <1>7, <1>8, <1>9, <1>10, <1>11, <1>12, <1>13, <1>14
  DEF Step


LEMMA DeviceType ==
  ASSUME TypeInv, Next
  PROVE  /\ fat' \in [1..NumFats -> [Cluster -> Cluster \cup {FREE, EOC}]]
         /\ table' \in [Cluster -> [Slot -> Entry]]
<1>0. /\ fat \in [1..NumFats -> [Cluster -> Cluster \cup {FREE, EOC}]]
      /\ table \in [Cluster -> [Slot -> Entry]]
  BY DEF TypeInv, TypeOK
<1>1. CASE f.pc \in FatSteps /\ WriteFat
  BY <1>0, <1>1, FatType
<1>2. CASE f.pc \in TableSteps /\ WriteTable
  BY <1>0, <1>2, TableType
<1>3. CASE UNCHANGED <<fat, table>>
  BY <1>0, <1>3
<1>4. CASE Call
  BY <1>3, <1>4 DEF Call, Create, Write, Mkdir, Remove, RemoveDirectory, Truncate, Rename, Begin
<1>5. CASE Step
  BY <1>1, <1>2, <1>3, <1>5
  DEF Step, Allocate, DiskFull, Mark, ZeroCluster, Link, Undo, InitDirectory, WriteEntry,
      Walk, BrokenChain, WriteData, UpdateEntry, DeleteEntry, FreeLink, Seek, Cut, UpdateSize,
      FatStep, FatSteps, TableSteps
<1>6. CASE DeviceFails
  BY <1>1, <1>2, <1>3, <1>6 DEF DeviceFails, DeviceWrite
<1>7. CASE Crash
  BY <1>3, <1>7 DEF Crash
<1> QED
  BY <1>4, <1>5, <1>6, <1>7 DEF Next

LEMMA CleanType == ASSUME TypeInv, Next PROVE clean' \in BOOLEAN
<1>0. clean \in BOOLEAN
  BY DEF TypeInv, TypeOK
<1>1. CASE UNCHANGED clean
  BY <1>0, <1>1
<1>2. CASE clean' = FALSE
  BY <1>2
<1>3. UNCHANGED clean \/ clean' = FALSE
  BY DEF Next, Call, Create, Write, Mkdir, Remove, RemoveDirectory, Truncate, Rename, Begin,
      Step, Allocate, DiskFull, Mark, ZeroCluster, Link, Undo, InitDirectory, WriteEntry,
      Walk, BrokenChain, WriteData, UpdateEntry, DeleteEntry, FreeLink, Seek, Cut, UpdateSize,
      DeviceFails, Crash, Done, GiveUp
<1> QED
  BY <1>1, <1>2, <1>3

LEMMA TypeStep == ASSUME TypeInv, Next PROVE TypeInv'
<1>1. f' \in Frame /\ FrameTypes'
  <2>1. CASE Call
    BY <2>1, CallType DEF TypeInv, TypeOK
  <2>2. CASE Step
    BY <2>2, StepFrameType
  <2>3. CASE DeviceFails
    <3>1. RollsBack => f.new \in Cluster /\ f.dir \in Cluster
      BY <2>3 DEF DeviceFails, RollsBack, TypeInv, FrameTypes
    <3> QED
      BY <2>3, <3>1, DeviceFailsFrame, IdleType DEF Moved, TypeInv, FrameTypes, RollsBack, Allocating
  <2>4. CASE Crash
    BY <2>4, IdleType DEF Crash, GiveUp
  <2> QED
    BY <2>1, <2>2, <2>3, <2>4 DEF Next
<1> QED
  BY <1>1, DeviceType, CleanType DEF TypeInv, TypeOK

(* Every variable and every local of the operation in progress keeps its type, *)
(* in particular the clusters and slots a step writes to exist, whatever fails. *)
THEOREM TypeCorrect == Spec => []TypeOK
<1>1. ASSUME TypeInv, UNCHANGED vars PROVE TypeInv'
  BY <1>1 DEF vars, TypeInv, TypeOK, FrameTypes
<1>2. Spec => []TypeInv
  BY InitType, TypeStep, <1>1, PTL DEF Spec
<1>3. TypeInv => TypeOK
  BY DEF TypeInv
<1> QED
  BY <1>2, <1>3, PTL

-----------------------------------------------------------------------------
(* What one write to the device does to the soundness of a volume, stated for *)
(* any FAT G and tables T, and for H or U, one of them after the write.       *)

FatMap == [Cluster -> Cluster \cup {FREE, EOC}]
TableMap == [Cluster -> [Slot -> Entry]]

SoundLinks(G) ==
  /\ \A a, b, c \in Cluster : G[a] = c /\ G[b] = c => a = b
  /\ \A a, b \in Cluster : G[a] = b => G[b] # FREE
SoundHeads(G, T) ==
  \A d \in Cluster, s \in Slot : \A c \in Cluster :
     Live(T[d][s]) /\ T[d][s].cluster = c => G[c] # FREE /\ ~LinkedIn(G, c) /\ c # Root
SoundTree(G, T) ==
  /\ G[Root] = EOC /\ ~LinkedIn(G, Root)
  /\ \A d \in Cluster, s \in Slot :
        /\ Live(T[d][s]) => HomeIn(T, d)
        /\ T[d][s].kind = "dir" => T[d][s].cluster # 0 /\ G[T[d][s].cluster] = EOC
SoundEnds(T) ==
  \A d \in Cluster, s, t \in Slot : s < t /\ T[d][s].kind = "end" => T[d][t].kind = "end"

Same(T, d, s, e, t) ==
  Live(T[d][s]) /\ Live(T[e][t]) /\ T[d][s].cluster \in Cluster
    /\ T[d][s].cluster = T[e][t].cluster
Distinct(T) ==
  \A d, e \in Cluster, s, t \in Slot : Same(T, d, s, e, t) => d = e /\ s = t
\* The same, without counting the entry in slot y of x.
DistinctBut(T, x, y) ==
  \A d, e \in Cluster, s, t \in Slot :
     Same(T, d, s, e, t) /\ <<d, s>> # <<x, y>> /\ <<e, t>> # <<x, y>> => d = e /\ s = t

Base(G, T) == SoundLinks(G) /\ SoundHeads(G, T) /\ SoundTree(G, T) /\ SoundEnds(T)
Volume(G, T) == Base(G, T) /\ Distinct(T)

-----------------------------------------------------------------------------
(* Writes to the FAT *)

LEMMA Entries ==
  ASSUME NEW T \in TableMap, NEW d \in Cluster, NEW s \in Slot
  PROVE  T[d] \in [Slot -> Entry] /\ T[d][s] \in Entry /\ T[d][s].cluster \in Cluster \cup {0}
  BY DEF TableMap, Entry

LEMMA RootCluster == Root \in Cluster
  BY GeometryAssumption DEF Cluster, Root

LEMMA Marks == \A c \in Cluster : c # FREE /\ c # EOC /\ c # 0 /\ FREE # EOC /\ FREE = 0
  BY GeometryAssumption DEF Cluster, Root, FREE, EOC

\* A free cluster is marked as the end of a chain.
LEMMA MarkEffect ==
  ASSUME NEW G \in FatMap, NEW T \in TableMap, Volume(G, T),
         NEW c \in Cluster, G[c] = FREE
  PROVE  LET H == [G EXCEPT ![c] = EOC]
         IN /\ Volume(H, T)
            /\ LooseIn(H, T, c) /\ H[c] = EOC
            /\ \A x \in Cluster : LooseIn(G, T, x) => LooseIn(H, T, x)
            /\ \A x \in Cluster : LinkedIn(H, x) <=> LinkedIn(G, x)
<1> DEFINE H == [G EXCEPT ![c] = EOC]
<1>1. \A x \in Cluster : H[x] = IF x = c THEN EOC ELSE G[x]
  BY DEF FatMap
<1>2. \A x \in Cluster : LinkedIn(H, x) <=> LinkedIn(G, x)
  BY <1>1, Marks DEF LinkedIn
<1> HIDE DEF H
<1>3. SoundLinks(H)
  BY <1>1, Marks DEF SoundLinks, Volume, Base
<1>4. SoundHeads(H, T)
  BY <1>1, <1>2, Marks DEF SoundHeads, Volume, Base
<1>5. SoundTree(H, T)
  BY <1>1, <1>2, Marks, Entries, RootCluster DEF SoundTree, Volume, Base
<1>6. ~NamedIn(T, c) /\ ~LinkedIn(G, c) /\ c # Root
  BY Marks DEF Volume, Base, SoundHeads, NamedIn, SoundLinks, LinkedIn, SoundTree
<1> QED
  BY <1>1, <1>2, <1>3, <1>4, <1>5, <1>6, Marks DEF Volume, Base, LooseIn, H

\* The head of a loose chain is freed.
LEMMA FreeEffect ==
  ASSUME NEW G \in FatMap, NEW T \in TableMap, Volume(G, T),
         NEW c \in Cluster, LooseIn(G, T, c)
  PROVE  LET H == [G EXCEPT ![c] = FREE]
         IN /\ Volume(H, T) /\ H[c] = FREE
            /\ G[c] \in Cluster => LooseIn(H, T, G[c])
            /\ \A x \in Cluster : LooseIn(G, T, x) /\ x # c => LooseIn(H, T, x)
<1> DEFINE H == [G EXCEPT ![c] = FREE]
<1>1. \A x \in Cluster : H[x] = IF x = c THEN FREE ELSE G[x]
  BY DEF FatMap
<1>2. \A x \in Cluster : LinkedIn(H, x) <=> LinkedIn(G, x) /\ G[c] # x
  BY <1>1, Marks DEF LinkedIn, Volume, Base, SoundLinks
<1> HIDE DEF H
<1>3. SoundLinks(H)
  BY <1>1, Marks DEF SoundLinks, Volume, Base, LooseIn, LinkedIn
<1>4. SoundHeads(H, T)
  BY <1>1, <1>2 DEF SoundHeads, Volume, Base, LooseIn, NamedIn
<1>5. SoundTree(H, T)
  <2>1. \A d \in Cluster, s \in Slot : T[d][s].kind = "dir" => T[d][s].cluster # c
    BY DEF LooseIn, NamedIn, Live
  <2>2. c # Root
    BY DEF LooseIn
  <2> QED
    BY <1>1, <1>2, <2>1, <2>2, Entries, RootCluster DEF SoundTree, Volume, Base
<1>6. G[c] \in Cluster => G[G[c]] # FREE /\ G[c] # c /\ G[c] # Root /\ ~NamedIn(T, G[c])
  BY Marks, RootCluster
  DEF Volume, Base, SoundLinks, SoundTree, SoundHeads, LooseIn, LinkedIn, NamedIn
<1> QED
  BY <1>1, <1>2, <1>3, <1>4, <1>5, <1>6 DEF Volume, Base, LooseIn, H

\* A chain is cut behind one of its clusters.
LEMMA CutEffect ==
  ASSUME NEW G \in FatMap, NEW T \in TableMap, Volume(G, T),
         NEW c \in Cluster, G[c] # FREE
  PROVE  LET H == [G EXCEPT ![c] = EOC]
         IN /\ Volume(H, T) /\ H[c] = EOC
            /\ G[c] \in Cluster => LooseIn(H, T, G[c])
<1> DEFINE H == [G EXCEPT ![c] = EOC]
<1>1. \A x \in Cluster : H[x] = IF x = c THEN EOC ELSE G[x]
  BY DEF FatMap
<1>2. \A x \in Cluster : LinkedIn(H, x) <=> LinkedIn(G, x) /\ G[c] # x
  BY <1>1, Marks DEF LinkedIn, Volume, Base, SoundLinks
<1> HIDE DEF H
<1>3. SoundLinks(H)
  BY <1>1, Marks DEF SoundLinks, Volume, Base
<1>4. SoundHeads(H, T)
  BY <1>1, <1>2, Marks DEF SoundHeads, Volume, Base
<1>5. SoundTree(H, T)
  BY <1>1, <1>2, Entries, RootCluster DEF SoundTree, Volume, Base
<1>6. G[c] \in Cluster => H[G[c]] # FREE /\ G[c] # Root /\ ~NamedIn(T, G[c])
  BY <1>1, Marks, RootCluster
  DEF Volume, Base, SoundLinks, SoundTree, SoundHeads, LinkedIn, NamedIn
<1> QED
  BY <1>1, <1>2, <1>3, <1>4, <1>5, <1>6 DEF Volume, Base, LooseIn, H

\* A fresh cluster is linked behind the last one of a chain of a file.
LEMMA LinkEffect ==
  ASSUME NEW G \in FatMap, NEW T \in TableMap, Volume(G, T),
         NEW c \in Cluster, NEW n \in Cluster, G[c] = EOC, c # n, ~HomeIn(T, c),
         G[n] = EOC, LooseIn(G, T, n), NEW H, H = [G EXCEPT ![c] = n]
  PROVE  /\ Volume(H, T) /\ LinkedIn(H, n)
         /\ \A x \in Cluster : LooseIn(G, T, x) /\ x # n => LooseIn(H, T, x)
         /\ \A x \in Cluster : LinkedIn(G, x) => LinkedIn(H, x)
<1>1. \A x \in Cluster : H[x] = IF x = c THEN n ELSE G[x]
  BY DEF FatMap
<1>2. \A x \in Cluster : LinkedIn(H, x) <=> LinkedIn(G, x) \/ n = x
  BY <1>1, Marks DEF LinkedIn
<1>3. SoundLinks(H)
  BY <1>1, Marks DEF SoundLinks, Volume, Base, LooseIn, LinkedIn
<1>4. SoundHeads(H, T)
  BY <1>1, <1>2, Marks DEF SoundHeads, Volume, Base, LooseIn, NamedIn
<1>5. SoundTree(H, T)
  <2>1. \A d \in Cluster, s \in Slot : T[d][s].kind = "dir" => T[d][s].cluster # c
    BY DEF HomeIn, DirectoryIn
  <2>2. c # Root /\ n # Root
    BY DEF LooseIn, HomeIn
  <2>3. H[Root] = EOC /\ ~LinkedIn(H, Root)
    BY <1>1, <1>2, <2>2, RootCluster DEF SoundTree, Volume, Base
  <2>4. ASSUME NEW d \in Cluster, NEW s \in Slot, T[d][s].kind = "dir"
        PROVE  T[d][s].cluster # 0 /\ H[T[d][s].cluster] = EOC
    <3>1. T[d][s].cluster # 0 /\ G[T[d][s].cluster] = EOC
      BY <2>4 DEF SoundTree, Volume, Base
    <3>2. T[d][s].cluster \in Cluster
      BY <3>1, Entries
    <3> QED
      BY <1>1, <2>1, <2>4, <3>1, <3>2
  <2> QED
    BY <2>3, <2>4 DEF SoundTree, Volume, Base
<1> QED
  BY <1>1, <1>2, <1>3, <1>4, <1>5, Marks DEF Volume, Base, LooseIn

-----------------------------------------------------------------------------
(* Writes to a directory table *)

LEMMA Kinds ==
  /\ EndEntry.kind = "end" /\ DeletedEntry.kind = "deleted"
  /\ EndEntry \in Entry /\ DeletedEntry \in Entry
  /\ ~Live(DeletedEntry) /\ ~Live(EndEntry)
  /\ \A e : SlotFree(e) => ~Live(e)
  /\ \A e : Live(e) <=> e.kind = "file" \/ e.kind = "dir"
  BY DEF EndEntry, DeletedEntry, Unnamed, Entry, Kind, Live, SlotFree

\* A cluster that is no directory gets contents without entries.
LEMMA BlankEffect ==
  ASSUME NEW G \in FatMap, NEW T \in TableMap, Volume(G, T),
         NEW c \in Cluster, ~HomeIn(T, c), NEW R \in [Slot -> Entry],
         \A s \in Slot : ~Live(R[s]),
         \A s, t \in Slot : s < t /\ R[s].kind = "end" => R[t].kind = "end"
  PROVE  LET U == [T EXCEPT ![c] = R]
         IN /\ Volume(G, U) /\ U[c] = R
            /\ \A d \in Cluster : d # c => U[d] = T[d]
            /\ \A x : NamedIn(U, x) <=> NamedIn(T, x)
            /\ \A x : HomeIn(U, x) <=> HomeIn(T, x)
<1> DEFINE U == [T EXCEPT ![c] = R]
<1>1. U[c] = R /\ \A d \in Cluster : d # c => U[d] = T[d]
  BY DEF TableMap
<1>2. \A s \in Slot : ~Live(T[c][s])
  BY DEF Volume, Base, SoundTree
<1> HIDE DEF U
<1>3. \A d \in Cluster, s \in Slot : Live(U[d][s]) \/ Live(T[d][s]) => U[d][s] = T[d][s]
  BY <1>1, <1>2
<1>4. /\ \A x : NamedIn(U, x) <=> NamedIn(T, x)
      /\ \A x : HomeIn(U, x) <=> HomeIn(T, x)
  BY <1>3, Kinds DEF NamedIn, HomeIn, DirectoryIn
<1>5. SoundHeads(G, U)
  BY <1>3 DEF Volume, Base, SoundHeads
<1>6. SoundTree(G, U)
  BY <1>3, <1>4, Kinds DEF Volume, Base, SoundTree
<1>7. Distinct(U)
  BY <1>3 DEF Volume, Distinct, Same
<1>8. SoundEnds(U)
  BY <1>1 DEF Volume, Base, SoundEnds
<1> QED
  BY <1>1, <1>4, <1>5, <1>6, <1>7, <1>8 DEF Volume, Base, U

\* An entry for an empty file or for a loose chain is put in the first free slot.
LEMMA EnterEffect ==
  ASSUME NEW G \in FatMap, NEW T \in TableMap, Volume(G, T),
         NEW d \in Cluster, NEW s \in Slot, NEW e \in Entry,
         HomeIn(T, d), SlotFree(T[d][s]), \A t \in 0..(s - 1) : ~SlotFree(T[d][t]),
         Live(e), e.cluster # 0 => LooseIn(G, T, e.cluster),
         e.kind = "dir" => e.cluster # 0 /\ G[e.cluster] = EOC
  PROVE  LET U == [T EXCEPT ![d][s] = e] IN Volume(G, U)
<1> DEFINE U == [T EXCEPT ![d][s] = e]
<1>1. \A x \in Cluster, y \in Slot : U[x][y] = IF x = d /\ y = s THEN e ELSE T[x][y]
  BY Entries DEF TableMap
<1> HIDE DEF U
<1>2. ~Live(T[d][s])
  BY Kinds
<1>3. \A x : HomeIn(T, x) => HomeIn(U, x)
  BY <1>1, <1>2, Kinds DEF HomeIn, DirectoryIn
<1>4. e.cluster \in Cluster \cup {0}
  BY DEF Entry
<1>5. SoundHeads(G, U)
  BY <1>1, Marks DEF Volume, Base, SoundHeads, LooseIn
<1>6. SoundTree(G, U)
  BY <1>1, <1>3 DEF Volume, Base, SoundTree
<1>7. Distinct(U)
  BY <1>1, <1>2, Marks DEF Volume, Distinct, Same, LooseIn, NamedIn
<1>8. SoundEnds(U)
  <2> SUFFICES ASSUME NEW x \in Cluster, NEW y \in Slot, NEW z \in Slot,
                      y < z, U[x][y].kind = "end"
               PROVE  U[x][z].kind = "end"
    BY DEF SoundEnds
  <2>1. T[x][y].kind = "end"
    BY <1>1, Kinds
  <2>2. T[x][z].kind = "end"
    BY <2>1 DEF Volume, Base, SoundEnds
  <2>3. CASE x = d /\ z = s
    <3>1. y \in 0..(s - 1)
      BY <2>3 DEF Slot
    <3> QED
      BY <2>1, <2>3, <3>1 DEF SlotFree
  <2> QED
    BY <1>1, <2>2, <2>3
<1> QED
  BY <1>5, <1>6, <1>7, <1>8 DEF Volume, Base, U

\* A second entry for the chain of a file is put in the first free slot.
LEMMA EnterSharedEffect ==
  ASSUME NEW G \in FatMap, NEW T \in TableMap, Volume(G, T),
         NEW d \in Cluster, NEW s \in Slot, NEW e \in Entry,
         HomeIn(T, d), SlotFree(T[d][s]), \A t \in 0..(s - 1) : ~SlotFree(T[d][t]),
         e.kind = "file", NEW x \in Cluster, NEW y \in Slot,
         T[x][y].kind = "file", T[x][y].cluster = e.cluster
  PROVE  LET U == [T EXCEPT ![d][s] = e]
         IN Base(G, U) /\ DistinctBut(U, x, y) /\ HomeIn(U, d)
<1> DEFINE U == [T EXCEPT ![d][s] = e]
<1>1. \A a \in Cluster, b \in Slot : U[a][b] = IF a = d /\ b = s THEN e ELSE T[a][b]
  BY Entries DEF TableMap
<1> HIDE DEF U
<1>2. ~Live(T[d][s]) /\ Live(e) /\ Live(T[x][y])
  BY Kinds
<1>3. \A a : HomeIn(T, a) => HomeIn(U, a)
  BY <1>1, <1>2, Kinds DEF HomeIn, DirectoryIn
<1>5. SoundHeads(G, U)
  BY <1>1, <1>2 DEF Volume, Base, SoundHeads
<1>6. SoundTree(G, U)
  BY <1>1, <1>3 DEF Volume, Base, SoundTree
<1>7. DistinctBut(U, x, y)
  BY <1>1, <1>2 DEF Volume, Distinct, DistinctBut, Same
<1>8. SoundEnds(U)
  <2> SUFFICES ASSUME NEW a \in Cluster, NEW b \in Slot, NEW z \in Slot,
                      b < z, U[a][b].kind = "end"
               PROVE  U[a][z].kind = "end"
    BY DEF SoundEnds
  <2>1. T[a][b].kind = "end"
    BY <1>1, Kinds
  <2>2. T[a][z].kind = "end"
    BY <2>1 DEF Volume, Base, SoundEnds
  <2>3. CASE a = d /\ z = s
    <3>1. b \in 0..(s - 1)
      BY <2>3 DEF Slot
    <3> QED
      BY <2>1, <2>3, <3>1 DEF SlotFree
  <2> QED
    BY <1>1, <2>2, <2>3
<1>9. HomeIn(U, d)
  BY <1>3
<1>10. Base(G, U)
  BY <1>5, <1>6, <1>8 DEF Volume, Base
<1> QED
  BY <1>7, <1>9, <1>10 DEF U

\* An entry is deleted; that of a directory only when the directory is empty.
LEMMA DeleteEffect ==
  ASSUME NEW G \in FatMap, NEW T \in TableMap, Volume(G, T),
         NEW d \in Cluster, NEW s \in Slot, HomeIn(T, d), Live(T[d][s]),
         NEW c, c = T[d][s].cluster,
         T[d][s].kind = "dir" => \A t \in Slot : ~Live(T[c][t])
  PROVE  LET U == [T EXCEPT ![d][s] = DeletedEntry]
         IN /\ Volume(G, U) /\ HomeIn(U, d)
            /\ c # 0 => LooseIn(G, U, c)
<1> DEFINE U == [T EXCEPT ![d][s] = DeletedEntry]
<1>1. \A x \in Cluster, y \in Slot :
         U[x][y] = IF x = d /\ y = s THEN DeletedEntry ELSE T[x][y]
  BY Entries, Kinds DEF TableMap
<1> HIDE DEF U
<1>2. T[d][s].kind = "dir" => c # d /\ c \in Cluster
  <2>1. c \in Cluster \cup {0}
    BY Entries
  <2>2. ASSUME T[d][s].kind = "dir" PROVE c # 0 /\ c # d
    BY <2>2, Kinds DEF Volume, Base, SoundTree
  <2> QED
    BY <2>1, <2>2
<1>3. \A x \in Cluster : HomeIn(T, x) /\ ~HomeIn(U, x) => T[d][s].kind = "dir" /\ x = c
  BY <1>1 DEF HomeIn, DirectoryIn
<1>4. SoundHeads(G, U)
  BY <1>1, Kinds DEF Volume, Base, SoundHeads
<1>5. SoundTree(G, U)
  BY <1>1, <1>3, Kinds DEF Volume, Base, SoundTree
<1>6. Distinct(U)
  BY <1>1, Kinds DEF Volume, Distinct, Same
<1>7. SoundEnds(U)
  BY <1>1, Kinds DEF Volume, Base, SoundEnds
<1>8. c # 0 => LooseIn(G, U, c)
  <2>1. c \in Cluster \cup {0}
    BY Entries
  <2>2. c # 0 => G[c] # FREE /\ ~LinkedIn(G, c) /\ c # Root
    BY <2>1 DEF Volume, Base, SoundHeads
  <2>3. c # 0 => ~NamedIn(U, c)
    BY <1>1, <2>1, Kinds DEF Volume, Distinct, Same, NamedIn
  <2> QED
    BY <2>2, <2>3 DEF LooseIn
<1> QED
  BY <1>2, <1>3, <1>4, <1>5, <1>6, <1>7, <1>8 DEF Volume, Base, U

\* Of two entries for the chain of a file, one is deleted.
LEMMA DeleteSharedEffect ==
  ASSUME NEW G \in FatMap, NEW T \in TableMap, Base(G, T),
         NEW d \in Cluster, NEW s \in Slot, DistinctBut(T, d, s), T[d][s].kind = "file"
  PROVE  LET U == [T EXCEPT ![d][s] = DeletedEntry] IN Volume(G, U)
<1> DEFINE U == [T EXCEPT ![d][s] = DeletedEntry]
<1>1. \A x \in Cluster, y \in Slot :
         U[x][y] = IF x = d /\ y = s THEN DeletedEntry ELSE T[x][y]
  BY Entries, Kinds DEF TableMap
<1> HIDE DEF U
<1>3. \A x \in Cluster : HomeIn(T, x) => HomeIn(U, x)
  BY <1>1 DEF HomeIn, DirectoryIn
<1>4. SoundHeads(G, U)
  BY <1>1, Kinds DEF Base, SoundHeads
<1>5. SoundTree(G, U)
  BY <1>1, <1>3, Kinds DEF Base, SoundTree
<1>6. Distinct(U)
  BY <1>1, Kinds DEF DistinctBut, Distinct, Same
<1>7. SoundEnds(U)
  BY <1>1, Kinds DEF Base, SoundEnds
<1> QED
  BY <1>4, <1>5, <1>6, <1>7 DEF Volume, Base, U

\* The entry of a file gets another size, or the loose chain it did not have.
LEMMA UpdateEffect ==
  ASSUME NEW G \in FatMap, NEW T \in TableMap, Volume(G, T),
         NEW d \in Cluster, NEW s \in Slot, NEW e \in Entry,
         T[d][s].kind = "file", e.kind = "file",
         T[d][s].cluster # e.cluster /\ e.cluster # 0 => LooseIn(G, T, e.cluster)
  PROVE  LET U == [T EXCEPT ![d][s] = e] IN Volume(G, U)
<1> DEFINE U == [T EXCEPT ![d][s] = e]
<1>1. \A x \in Cluster, y \in Slot : U[x][y] = IF x = d /\ y = s THEN e ELSE T[x][y]
  BY Entries DEF TableMap
<1> HIDE DEF U
<1>2. e.cluster \in Cluster \cup {0} /\ Live(e) /\ Live(T[d][s])
  BY Kinds DEF Entry
<1>3. \A x \in Cluster : HomeIn(T, x) => HomeIn(U, x)
  BY <1>1 DEF HomeIn, DirectoryIn
<1>4. SoundHeads(G, U)
  BY <1>1, <1>2, Marks DEF Volume, Base, SoundHeads, LooseIn
<1>5. SoundTree(G, U)
  BY <1>1, <1>2, <1>3 DEF Volume, Base, SoundTree
<1>6. Distinct(U)
  BY <1>1, <1>2, Marks DEF Volume, Distinct, Same, LooseIn, NamedIn
<1>7. SoundEnds(U)
  BY <1>1 DEF Volume, Base, SoundEnds
<1> QED
  BY <1>4, <1>5, <1>6, <1>7 DEF Volume, Base, U

-----------------------------------------------------------------------------
(* The soundness of a state *)

\* While a rename has both entries on disk, the source no longer counts.
VolumeAt(G, T, g) ==
  IF g.op = "rename" /\ g.pc = "delete"
  THEN Base(G, T) /\ DistinctBut(T, g.sdir, g.sslot)
  ELSE Volume(G, T)

Sound(G, T, g) == VolumeAt(G, T, g) /\ InProgress(G, T, g)
Inv == TypeInv /\ Sound(fat[1], table, f)
SoundNext == Sound(fat'[1], table', f')

-----------------------------------------------------------------------------
(* The state invariant in terms of the FAT and the tables *)

LEMMA Parts ==
  ASSUME TypeOK
  PROVE  SoundVolume /\ EndsLast <=> VolumeAt(fat[1], table, f)
<1>0. /\ \A d \in Cluster, s \in Slot : table[d][s].cluster \in Cluster \cup {0}
      /\ f.op = "rename" => f.sslot \in Slot
  BY DEF TypeOK, Entry, Frame
<1>1. LinksSound <=> SoundLinks(fat[1])
  BY DEF LinksSound, SoundLinks, IsLink
<1>2. \A c : Linked(c) <=> LinkedIn(fat[1], c)
  BY DEF Linked, LinkedIn, IsLink
<1>3. HeadsSound <=> SoundHeads(fat[1], table)
  BY <1>2 DEF HeadsSound, SoundHeads
<1>4. TreeSound <=> SoundTree(fat[1], table)
  BY <1>2 DEF TreeSound, SoundTree, HomeIn, DirectoryIn, DirectoryAt
<1>5. EndsLast <=> SoundEnds(table)
  BY DEF EndsLast, SoundEnds
<1>6. CASE f.op = "rename" /\ f.pc = "delete"
  <2>1. HeadsDistinct <=> DistinctBut(table, f.sdir, f.sslot)
    BY <1>6 DEF HeadsDistinct, DistinctBut, Heads, Superseded, Same
  <2> QED
    BY <1>1, <1>3, <1>4, <1>5, <1>6, <2>1 DEF SoundVolume, VolumeAt, Base
<1>7. CASE ~(f.op = "rename" /\ f.pc = "delete")
  <2>1. HeadsDistinct <=> Distinct(table)
    BY <1>7 DEF HeadsDistinct, Distinct, Heads, Superseded, Same
  <2> QED
    BY <1>1, <1>3, <1>4, <1>5, <1>7, <2>1 DEF SoundVolume, VolumeAt, Volume, Base
<1> QED
  BY <1>6, <1>7

\* The same, of the next state.
LEMMA PartsNext ==
  ASSUME TypeOK'
  PROVE  (SoundVolume /\ EndsLast)' <=> VolumeAt(fat'[1], table', f')
<1>0. /\ \A d \in Cluster, s \in Slot : table'[d][s].cluster \in Cluster \cup {0}
      /\ f'.op = "rename" => f'.sslot \in Slot
  BY DEF TypeOK, Entry, Frame
<1>1. LinksSound' <=> SoundLinks(fat'[1])
  BY DEF LinksSound, SoundLinks, IsLink
<1>2. \A c : Linked(c)' <=> LinkedIn(fat'[1], c)
  BY DEF Linked, LinkedIn, IsLink
<1>3. HeadsSound' <=> SoundHeads(fat'[1], table')
  BY <1>2 DEF HeadsSound, SoundHeads
<1>4. TreeSound' <=> SoundTree(fat'[1], table')
  BY <1>2 DEF TreeSound, SoundTree, HomeIn, DirectoryIn, DirectoryAt
<1>5. EndsLast' <=> SoundEnds(table')
  BY DEF EndsLast, SoundEnds
<1>6. CASE f'.op = "rename" /\ f'.pc = "delete"
  <2>1. HeadsDistinct' <=> DistinctBut(table', f'.sdir, f'.sslot)
    BY <1>6 DEF HeadsDistinct, DistinctBut, Heads, Superseded, Same
  <2> QED
    BY <1>1, <1>3, <1>4, <1>5, <1>6, <2>1 DEF SoundVolume, VolumeAt, Base
<1>7. CASE ~(f'.op = "rename" /\ f'.pc = "delete")
  <2>1. HeadsDistinct' <=> Distinct(table')
    BY <1>7 DEF HeadsDistinct, Distinct, Heads, Superseded, Same
  <2> QED
    BY <1>1, <1>3, <1>4, <1>5, <1>7, <2>1 DEF SoundVolume, VolumeAt, Volume, Base
<1> QED
  BY <1>6, <1>7

LEMMA InvIsIInv == Inv <=> IInv
  BY Parts DEF Inv, IInv, Sound, FrameSound, TypeInv

LEMMA Volumes ==
  ASSUME Inv
  PROVE  /\ fat[1] \in FatMap /\ table \in TableMap
         /\ ~(f.op = "rename" /\ f.pc = "delete") => Volume(fat[1], table)
         /\ Base(fat[1], table)
  BY Locals DEF Inv, Sound, VolumeAt, FatMap, TableMap, Volume

\* Between operations only the volume matters.
LEMMA IdleSound ==
  ASSUME Volume(fat'[1], table'), f' = Idle
  PROVE  SoundNext
  BY IdleFields DEF SoundNext, Sound, VolumeAt, InProgress, NewCluster, WriteSound,
     CreateSound, MkdirSound, RenameSound, RemoveSound, TruncateSound, Freeing,
     FailureSound, FatSteps

-----------------------------------------------------------------------------
(* What the reads of a call establish *)

LEMMA ParentsHome == ASSUME NEW d \in Parents PROVE HomeIn(table, d)
<1>1. PICK p \in Path : d \in Resolve(p)
  BY DEF Parents
<1>2. PICK k \in 0..MaxDepth : p \in [1..k -> Name]
  BY <1>1 DEF Path
<1>3. Len(p) = k
  BY <1>2, WorkloadAssumption
<1>4. PICK t : Trail(p, t) /\ d = t[k]
  BY <1>1, <1>3, TrailEnds
<1>5. CASE k = 0
  BY <1>3, <1>4, <1>5 DEF HomeIn, Trail
<1>6. CASE k # 0
  <2>1. k \in 1..k /\ k - 1 \in 0..k
    BY <1>2, <1>6, WorkloadAssumption
  <2>2. t[k - 1] \in Cluster /\ LeadsTo(t[k - 1], p[k], d)
    BY <1>3, <1>4, <2>1, DirectoriesInCluster DEF Trail
  <2> QED
    BY <2>2 DEF LeadsTo, HomeIn, DirectoryIn
<1> QED
  BY <1>5, <1>6

\* A directory found empty has no live entry.
LEMMA EmptyDirectory ==
  ASSUME SoundEnds(table), NEW c \in Cluster, DirectoryIsEmpty(c), NEW s \in Slot
  PROVE  ~Live(table[c][s])
<1>1. CASE ScanReaches(c, s)
  BY <1>1 DEF DirectoryIsEmpty, Live
<1>2. CASE ~ScanReaches(c, s)
  <2>1. PICK t \in 0..(s - 1) : table[c][t].kind = "end"
    BY <1>2 DEF ScanReaches
  <2>2. t \in Slot /\ t < s
    BY GeometryAssumption DEF Slot
  <2> QED
    BY <2>1, <2>2 DEF SoundEnds, Live
<1> QED
  BY <1>1, <1>2

\* A cluster of the chain of a file is no directory.
LEMMA ChainNotHome ==
  ASSUME NEW G \in FatMap, NEW T \in TableMap, Volume(G, T),
         NEW g, g.dir \in Cluster, g.slot \in Slot, g.first \in Cluster,
         HoldsFile(G, T, g), NEW c \in Cluster, InChain(G, g, c)
  PROVE  ~HomeIn(T, c)
<1>1. CASE LinkedIn(G, c)
  BY <1>1, Kinds DEF Volume, Base, SoundTree, SoundHeads, HomeIn, DirectoryIn
<1>2. CASE c = g.first /\ LooseIn(G, T, c)
  BY <1>2, Kinds DEF LooseIn, HomeIn, DirectoryIn, NamedIn
<1>3. CASE c = g.first /\ Subject(T, g).cluster = c
  BY <1>3, Kinds DEF Volume, Base, SoundHeads, Distinct, Same, HomeIn, DirectoryIn,
     HoldsFile, Subject
<1> QED
  BY <1>1, <1>2, <1>3 DEF InChain, HoldsFile

\* Copy 1 of the FAT, the one that is read, changes with its own update only.
LEMMA FirstCopy ==
  ASSUME TypeInv, f.pc \in FatSteps, WriteFat
  PROVE  /\ table' = table
         /\ fat'[1] = IF f.copy = 1 THEN [fat[1] EXCEPT ![FatCell] = FatValue] ELSE fat[1]
<1>1. FatCell \in Cluster
  BY DEF TypeInv, TypeOK, FrameTypes, FatSteps, FatCell
<1>2. f.copy \in 1..NumFats /\ 1 \in 1..NumFats
  BY Locals
<1>3. fat[1] \in [Cluster -> Cluster \cup {FREE, EOC}]
  BY Locals
<1>4. fat' = FatAfter(f.copy, FatCell, FatValue) /\ table' = table
  BY DEF WriteFat
<1>5. CASE f.copy = 1
  <2>1. fat'[1] = [x \in Cluster |-> IF x = FatCell THEN FatValue ELSE fat[1][x]]
    BY <1>2, <1>4, <1>5 DEF FatAfter, TypeInv, TypeOK
  <2> QED
    BY <1>3, <1>4, <1>5, <2>1
<1>6. CASE f.copy # 1
  BY <1>2, <1>4, <1>6 DEF FatAfter, TypeInv, TypeOK
<1> QED
  BY <1>5, <1>6, <1>4

-----------------------------------------------------------------------------
(* Calls *)

LEMMA BeginSound ==
  ASSUME Inv, Call
  PROVE  /\ fat' = fat /\ table' = table /\ f = Idle
         /\ Volume(fat[1], table)
<1>1. fat' = fat /\ table' = table /\ f = Idle
  BY DEF Call, Create, Write, Mkdir, Remove, RemoveDirectory, Truncate, Rename, Begin
<1> QED
  BY <1>1, IdleFields, Volumes

LEMMA CreateKeeps == ASSUME Inv, Create PROVE SoundNext
<1>1. fat' = fat /\ table' = table /\ Volume(fat[1], table)
  BY BeginSound DEF Call
<1>2. PICK d \in Parents, n \in Name, s \in Slot :
        /\ s \in FirstFreeSlot(d)
        /\ f'.op = "create" /\ f'.pc = "entry" /\ f'.dir = d /\ f'.slot = s
        /\ f'.first = 0 /\ f'.copy = 1
  BY CreateFrame, FirstFreeInSlot DEF Inv
<1>3. HomeIn(table, d)
  BY ParentsHome
<1>4. EntersFree(table, f')
  BY <1>2 DEF EntersFree, Subject, FirstFreeSlot
<1> QED
  BY <1>1, <1>2, <1>3, <1>4
  DEF SoundNext, Sound, VolumeAt, InProgress, NewCluster, WriteSound, CreateSound,
      MkdirSound, RenameSound, RemoveSound, TruncateSound, Freeing, FailureSound, FatSteps

LEMMA MkdirKeeps == ASSUME Inv, Mkdir PROVE SoundNext
<1>1. fat' = fat /\ table' = table /\ Volume(fat[1], table)
  BY BeginSound DEF Call
<1>2. PICK d \in Parents, n \in Name, s \in Slot :
        /\ s \in FirstFreeSlot(d)
        /\ f'.op = "mkdir" /\ f'.pc = "alloc" /\ f'.dir = d /\ f'.slot = s /\ f'.copy = 1
  BY MkdirFrame, FirstFreeInSlot DEF Inv
<1>3. HomeIn(table, d)
  BY ParentsHome
<1>4. EntersFree(table, f')
  BY <1>2 DEF EntersFree, Subject, FirstFreeSlot
<1> QED
  BY <1>1, <1>2, <1>3, <1>4
  DEF SoundNext, Sound, VolumeAt, InProgress, NewCluster, WriteSound, CreateSound,
      MkdirSound, RenameSound, RemoveSound, TruncateSound, Freeing, FailureSound, FatSteps

LEMMA RemoveKeeps ==
  ASSUME Inv, Remove \/ RemoveDirectory
  PROVE  SoundNext
<1>1. fat' = fat /\ table' = table /\ Volume(fat[1], table)
  BY BeginSound DEF Call
<1>2. PICK d \in Parents, n \in Name, s \in Slot :
        /\ s \in Found(d, n) /\ d \in Cluster
        /\ f'.op = IF Remove THEN "remove" ELSE "rmdir"
        /\ f'.pc = "delete" /\ f'.dir = d /\ f'.slot = s
        /\ f'.first = table[d][s].cluster /\ f'.copy = 1
        /\ IF Remove THEN table[d][s].kind = "file"
           ELSE table[d][s].kind = "dir" /\ DirectoryIsEmpty(table[d][s].cluster)
  BY RemoveFrame, FoundInSlot DEF Inv
<1>3. HomeIn(table, d)
  BY ParentsHome
<1>4. table[d][s].cluster \in Cluster \cup {0} /\ SoundEnds(table)
  BY <1>1, <1>2, Volumes, Entries DEF Volume, Base
<1>5. ~Remove => \A t \in Slot : f'.first # 0 => ~Live(table[f'.first][t])
  BY <1>2, <1>4, EmptyDirectory
<1>6. Live(table[d][s])
  BY <1>2, Kinds
<1> QED
  BY <1>1, <1>2, <1>3, <1>5, <1>6
  DEF SoundNext, Sound, VolumeAt, InProgress, NewCluster, WriteSound, CreateSound,
      MkdirSound, RenameSound, RemoveSound, TruncateSound, Freeing, FailureSound, FatSteps,
      Subject

LEMMA WriteKeeps == ASSUME Tame, Inv, Write PROVE SoundNext
<1>1. fat' = fat /\ table' = table /\ Volume(fat[1], table)
  BY BeginSound DEF Call
<1>2. PICK d \in Parents, n \in Name, w \in Writes, s \in Slot :
        /\ d \in Cluster /\ table[d][s].kind = "file"
        /\ f'.op = "write" /\ f'.pc = (IF table[d][s].cluster = 0 THEN "alloc" ELSE "walk")
        /\ f'.dir = d /\ f'.slot = s
        /\ f'.first = table[d][s].cluster /\ f'.cur = table[d][s].cluster /\ f'.copy = 1
        /\ f'.next = 0 /\ (w[1] + w[2] <= ClusterSize => f'.upto = 0)
  BY WriteFrame, FoundInSlot DEF Inv
<1>3. HomeIn(table, d)
  BY ParentsHome
<1>4. "io" \in Faults => f'.upto = 0
  BY <1>2 DEF Tame
<1>5. table[d][s].cluster \in Cluster \cup {0}
  BY <1>2, Volumes, Entries
<1>6. table[d][s].cluster # 0 => fat[1][f'.cur] # FREE
  BY <1>1, <1>2, <1>5, Kinds DEF Volume, Base, SoundHeads
<1> QED
  BY <1>1, <1>2, <1>3, <1>4, <1>6
  DEF SoundNext, Sound, VolumeAt, InProgress, NewCluster, WriteSound, CreateSound,
      MkdirSound, RenameSound, RemoveSound, TruncateSound, Freeing, FailureSound, FatSteps,
      Subject, Allocating, HoldsFile, InChain

LEMMA TruncateKeeps == ASSUME Tame, Inv, Truncate PROVE SoundNext
<1>1. fat' = fat /\ table' = table /\ Volume(fat[1], table)
  BY BeginSound DEF Call
<1>2. PICK d \in Parents, n \in Name, size \in TruncSizes, s \in Slot :
        /\ d \in Cluster /\ table[d][s].kind = "file"
        /\ f'.op = "truncate" /\ f'.dir = d /\ f'.slot = s
        /\ f'.first = table[d][s].cluster /\ f'.cur = table[d][s].cluster /\ f'.copy = 1
        /\ f'.pc = (IF size > 0 THEN "seek"
                    ELSE IF table[d][s].cluster = 0 THEN "size" ELSE "free")
        /\ size > 0 => table[d][s].cluster # 0
  BY TruncateFrame, FoundInSlot DEF Inv
<1>3. HomeIn(table, d)
  BY ParentsHome
<1>4. f'.pc = "seek" /\ table[d][s].cluster # 0
  <2>1. size > 0
    BY WorkloadAssumption DEF Tame
  <2> QED
    BY <1>2, <2>1
<1>5. fat[1][f'.cur] # FREE
  BY <1>1, <1>2, <1>4, Kinds, Volumes, Entries DEF Volume, Base, SoundHeads
<1> QED
  BY <1>1, <1>2, <1>3, <1>4, <1>5
  DEF SoundNext, Sound, VolumeAt, InProgress, NewCluster, WriteSound, CreateSound,
      MkdirSound, RenameSound, RemoveSound, TruncateSound, Freeing, FailureSound, FatSteps,
      Subject, InChain

LEMMA RenameKeeps == ASSUME Inv, Rename PROVE SoundNext
<1>1. fat' = fat /\ table' = table /\ Volume(fat[1], table)
  BY BeginSound DEF Call
<1>2. PICK sd \in Parents, d \in Parents, sn \in Name, n \in Name, ss \in Slot, s \in Slot :
        /\ s \in FirstFreeSlot(d) /\ table[sd][ss].kind = "file"
        /\ f'.op = "rename" /\ f'.pc = "entry" /\ f'.dir = d /\ f'.slot = s
        /\ f'.sdir = sd /\ f'.sslot = ss
        /\ f'.first = table[sd][ss].cluster /\ f'.copy = 1
  BY RenameFrame, FoundInSlot, FirstFreeInSlot DEF Inv
<1>3. HomeIn(table, d)
  BY ParentsHome
<1>4. EntersFree(table, f') /\ SlotFree(table[d][s])
  BY <1>2 DEF EntersFree, Subject, FirstFreeSlot
<1>5. <<d, s>> # <<sd, ss>>
  BY <1>2, <1>4, Kinds
<1> QED
  BY <1>1, <1>2, <1>3, <1>4, <1>5
  DEF SoundNext, Sound, VolumeAt, InProgress, NewCluster, WriteSound, CreateSound,
      MkdirSound, RenameSound, RemoveSound, TruncateSound, Freeing, FailureSound, FatSteps

-----------------------------------------------------------------------------
(* Steps that only read *)

LEMMA AllocateKeeps == ASSUME Inv, Allocate PROVE SoundNext
<1>1. fat' = fat /\ table' = table /\ f.pc = "alloc"
  BY DEF Allocate
<1>2. PICK c \in Cluster : /\ FirstFree(c)
                           /\ Moved("mark", f.first, c, f.cur, f.next, f.at, f.copy)
  BY AllocateFrame DEF Inv
<1>3. Volume(fat[1], table) /\ InProgress(fat[1], table, f) /\ f.copy = 1 /\ fat[1][c] = FREE
  BY <1>1, <1>2, Volumes DEF Inv, Sound, InProgress, FatSteps, FirstFree
<1>4. /\ f.op \in {"write", "mkdir"} /\ f.first \in Cluster \cup {0}
      /\ f.dir \in Cluster /\ f.slot \in Slot
  BY <1>1, Locals DEF Inv, TypeInv, FrameTypes, Allocating
<1>5. CASE f.op = "mkdir"
  BY <1>1, <1>2, <1>3, <1>5
  DEF SoundNext, Sound, VolumeAt, InProgress, NewCluster, WriteSound, CreateSound,
      MkdirSound, RenameSound, RemoveSound, TruncateSound, Freeing, FailureSound, FatSteps,
      Subject, EntersFree, Moved
<1>6. CASE f.op = "write"
  <2>1. f.first # 0 => c # f.first
    <3> SUFFICES ASSUME f.first # 0 PROVE c # f.first
      OBVIOUS
    <3>1. HoldsFile(fat[1], table, f)
      BY <1>1, <1>3, <1>6 DEF InProgress, WriteSound
    <3> QED
      BY <1>3, <1>4, <3>1, Kinds DEF HoldsFile, Subject, LooseIn, Volume, Base, SoundHeads
  <2>2. f.first # 0 => c # f.cur
    BY <1>1, <1>3, <1>6, Marks DEF InProgress, WriteSound, Allocating
  <2> QED
    BY <1>1, <1>2, <1>3, <1>6, <2>1, <2>2
    DEF SoundNext, Sound, VolumeAt, InProgress, NewCluster, WriteSound, CreateSound,
        MkdirSound, RenameSound, RemoveSound, TruncateSound, Freeing, FailureSound, FatSteps,
        Subject, HoldsFile, InChain, Moved, Allocating
<1> QED
  BY <1>4, <1>5, <1>6

\* An operation ends without a write.
LEMMA StopKeeps ==
  ASSUME Inv, UNCHANGED <<fat, table>>, f' = Idle, ~(f.op = "rename" /\ f.pc = "delete")
  PROVE  SoundNext
  BY IdleSound, Volumes

\* The link behind a cluster of the chain leads to another one.
LEMMA NextInChain ==
  ASSUME NEW G \in FatMap, SoundLinks(G), NEW g, NEW c \in Cluster, G[c] \in Cluster
  PROVE  InChain(G, g, G[c])
  BY DEF InChain, SoundLinks, LinkedIn

LEMMA WalkKeeps == ASSUME Inv, Walk PROVE SoundNext
<1>1. fat' = fat /\ table' = table /\ f.pc = "walk"
  BY DEF Walk
<1>2. /\ Volume(fat[1], table) /\ InProgress(fat[1], table, f) /\ f.copy = 1
      /\ fat[1] \in FatMap /\ SoundLinks(fat[1])
  BY <1>1, Volumes DEF Inv, Sound, InProgress, FatSteps, Base
<1>3. /\ f.op = "write" /\ f.first # 0 /\ f.cur \in Cluster
      /\ f.from <= f.upto /\ (f.at > f.from => f.next \in Cluster)
  BY <1>1 DEF Inv, TypeInv, FrameTypes, Allocating
<1>4. /\ HoldsFile(fat[1], table, f) /\ InChain(fat[1], f, f.cur)
      /\ f.next # 0 => f.next \in Cluster /\ InChain(fat[1], f, f.next)
      /\ HomeIn(table, f.dir) /\ FailureSound(f)
  BY <1>1, <1>2, <1>3 DEF InProgress, WriteSound, Allocating
<1>5. PICK next \in Cluster \cup {FREE, EOC} :
         /\ next = IF f.at = f.from THEN f.cur ELSE f.next
         /\ \/ /\ f.at = f.upto
               /\ Moved("data", f.first, f.new, next, 0, f.from, f.copy)
            \/ /\ f.at < f.upto /\ fat[1][f.cur] = EOC
               /\ Moved("alloc", f.first, f.new, f.cur, next, f.at, f.copy)
            \/ /\ f.at < f.upto /\ fat[1][f.cur] \in Cluster
               /\ Moved("walk", f.first, f.new, fat[1][f.cur], next, f.at + 1, f.copy)
  BY WalkFrame DEF Inv
<1>6. next # 0 => next \in Cluster /\ InChain(fat[1], f, next)
  BY <1>3, <1>4, <1>5
<1>7. f.at = f.upto => next # 0
  <2>1. f.at \in Nat /\ f.from \in Nat /\ f.upto \in Nat
    BY Locals DEF Inv
  <2>2. f.cur # 0 /\ (f.next \in Cluster => f.next # 0)
    BY <1>3, Marks
  <2> QED
    BY <1>3, <1>5, <2>1, <2>2
<1>8. fat[1][f.cur] \in Cluster => InChain(fat[1], f, fat[1][f.cur])
  BY <1>2, <1>3, NextInChain
<1> QED
  BY <1>1, <1>2, <1>3, <1>4, <1>5, <1>6, <1>7, <1>8
  DEF SoundNext, Sound, VolumeAt, InProgress, NewCluster, WriteSound, CreateSound,
      MkdirSound, RenameSound, RemoveSound, TruncateSound, Freeing, FailureSound, FatSteps,
      Subject, HoldsFile, InChain, Moved, Allocating

LEMMA SeekKeeps == ASSUME Inv, Seek PROVE SoundNext
<1>1. fat' = fat /\ table' = table /\ f.pc = "seek"
  BY DEF Seek
<1>2. /\ Volume(fat[1], table) /\ InProgress(fat[1], table, f) /\ f.copy = 1
      /\ fat[1] \in FatMap /\ SoundLinks(fat[1]) /\ f.cur \in Cluster
  BY <1>1, Volumes DEF Inv, Sound, InProgress, FatSteps, Base, TypeInv, FrameTypes
<1>3. \/ Moved("cut", f.first, f.new, f.cur, f.next, f.at, f.copy)
      \/ /\ fat[1][f.cur] \in Cluster
         /\ Moved("seek", f.first, f.new, fat[1][f.cur], f.next, f.at + 1, f.copy)
  BY SeekFrame DEF Inv
<1>4. fat[1][f.cur] \in Cluster => InChain(fat[1], f, fat[1][f.cur])
  BY <1>2, NextInChain
<1> QED
  BY <1>1, <1>2, <1>3, <1>4
  DEF SoundNext, Sound, VolumeAt, InProgress, NewCluster, WriteSound, CreateSound,
      MkdirSound, RenameSound, RemoveSound, TruncateSound, Freeing, FailureSound, FatSteps,
      Subject, InChain, Moved, Allocating

-----------------------------------------------------------------------------
(* Steps that write the FAT.  For each: what the write leaves, whether the    *)
(* step then goes on or fails; and what the step makes of it.                 *)

LEMMA MarkWrite ==
  ASSUME Inv, f.pc = "mark", WriteFat
  PROVE  /\ table' = table /\ Volume(fat'[1], table) /\ FreshIn(fat'[1], table, f.new)
         /\ \A x \in Cluster : LooseIn(fat[1], table, x) => LooseIn(fat'[1], table, x)
         /\ \A x \in Cluster : LinkedIn(fat'[1], x) <=> LinkedIn(fat[1], x)
         /\ \A x \in Cluster : fat'[1][x] = IF x = f.new THEN EOC ELSE fat[1][x]
<1>1. FatCell = f.new /\ FatValue = EOC /\ f.pc \in FatSteps /\ f.new \in Cluster
  BY DEF FatCell, FatValue, FatSteps, Inv, TypeInv, FrameTypes
<1>2. fat[1] \in FatMap /\ table \in TableMap /\ Volume(fat[1], table)
  BY Volumes
<1>3. /\ table' = table
      /\ fat'[1] = IF f.copy = 1 THEN [fat[1] EXCEPT ![f.new] = EOC] ELSE fat[1]
  BY <1>1, FirstCopy DEF Inv
<1>4. IF f.copy = 1 THEN fat[1][f.new] = FREE ELSE FreshIn(fat[1], table, f.new)
  BY DEF Inv, Sound, InProgress, NewCluster
<1>5. CASE f.copy = 1
  <2>1. \A x \in Cluster : fat'[1][x] = IF x = f.new THEN EOC ELSE fat[1][x]
    BY <1>2, <1>3, <1>5 DEF FatMap
  <2> QED
    BY <1>1, <1>2, <1>3, <1>4, <1>5, <2>1, MarkEffect DEF FreshIn
<1>6. CASE f.copy # 1
  BY <1>2, <1>3, <1>4, <1>6 DEF FreshIn
<1> QED
  BY <1>5, <1>6

LEMMA MarkKeeps == ASSUME Inv, Mark PROVE SoundNext
<1> DEFINE G == fat[1]  H == fat'[1]
<1>1. f.pc = "mark" /\ WriteFat
  BY DEF Mark, FatStep
<1>2. /\ table' = table /\ Volume(H, table) /\ FreshIn(H, table, f.new)
      /\ \A x \in Cluster : LooseIn(G, table, x) => LooseIn(H, table, x)
      /\ \A x \in Cluster : LinkedIn(H, x) <=> LinkedIn(G, x)
      /\ \A x \in Cluster : H[x] = IF x = f.new THEN EOC ELSE G[x]
  BY <1>1, MarkWrite
<1>3. IF f.copy < NumFats
      THEN Moved("mark", f.first, f.new, f.cur, f.next, f.at, f.copy + 1)
      ELSE Moved("zero", f.first, f.new, f.cur, f.next, f.at, 1)
  BY <1>1, MarkFrame DEF Inv, Mark
<1>4. InProgress(G, table, f) /\ f.op \in {"write", "mkdir"} /\ f.copy + 1 # 1
  BY <1>1, Locals DEF Inv, Sound, TypeInv, FrameTypes, Allocating
<1> HIDE DEF G, H
<1>5. CASE f.op = "mkdir"
  BY <1>1, <1>2, <1>3, <1>4, <1>5
  DEF SoundNext, Sound, VolumeAt, InProgress, NewCluster, WriteSound, CreateSound,
      MkdirSound, RenameSound, RemoveSound, TruncateSound, Freeing, FailureSound, FatSteps,
      Subject, EntersFree, Moved, H
<1>6. CASE f.op = "write"
  <2>1. f.first # 0 => f.first \in Cluster /\ f.cur \in Cluster
    BY <1>1, <1>6, Locals DEF Inv, TypeInv, FrameTypes, Allocating
  <2>2. f.first # 0 /\ f.next # 0 => f.next \in Cluster /\ InChain(G, f, f.next)
    BY <1>1, <1>4, <1>6 DEF InProgress, WriteSound, Allocating
  <2>3. f.first # 0 => HoldsFile(H, table, f)
    BY <1>1, <1>2, <1>4, <1>6, <2>1 DEF InProgress, WriteSound, HoldsFile
  <2>4. \A x \in Cluster : InChain(G, f, x) => InChain(H, f, x)
    BY <1>2, Marks DEF InChain
  <2>5. f.first # 0 => H[f.cur] = EOC /\ InChain(H, f, f.cur)
    BY <1>1, <1>2, <1>4, <1>6, <2>1, <2>4 DEF InProgress, WriteSound, Allocating
  <2> QED
    BY <1>1, <1>2, <1>3, <1>4, <1>6, <2>1, <2>2, <2>3, <2>4, <2>5
    DEF SoundNext, Sound, VolumeAt, InProgress, NewCluster, WriteSound, CreateSound,
        MkdirSound, RenameSound, RemoveSound, TruncateSound, Freeing, FailureSound, FatSteps,
        Subject, HoldsFile, InChain, Moved, Allocating, H
<1> QED
  BY <1>4, <1>5, <1>6

LEMMA LinkWrite ==
  ASSUME Inv, f.pc = "link", WriteFat
  PROVE  /\ table' = table /\ Volume(fat'[1], table)
         /\ fat'[1][f.cur] = f.new /\ fat'[1][f.new] # FREE /\ LinkedIn(fat'[1], f.new)
         /\ HoldsFile(fat'[1], table, f)
         /\ \A x \in Cluster : InChain(fat[1], f, x) => InChain(fat'[1], f, x)
<1>1. /\ f.op = "write" /\ f.first \in Cluster /\ f.cur \in Cluster /\ f.new \in Cluster
      /\ f.dir \in Cluster /\ f.slot \in Slot
  BY Locals DEF Inv, TypeInv, FrameTypes, Allocating
<1>2. /\ fat[1] \in FatMap /\ table \in TableMap /\ Volume(fat[1], table)
      /\ InProgress(fat[1], table, f)
  BY Volumes DEF Inv, Sound
<1>3. /\ HoldsFile(fat[1], table, f) /\ InChain(fat[1], f, f.cur)
      /\ f.new # f.first /\ f.new # f.cur
      /\ IF f.copy = 1 THEN FreshIn(fat[1], table, f.new) /\ fat[1][f.cur] = EOC
                       ELSE fat[1][f.cur] = f.new
  BY <1>1, <1>2, Marks DEF InProgress, WriteSound, Allocating
<1>4. FatCell = f.cur /\ FatValue = f.new /\ f.pc \in FatSteps
  BY DEF FatCell, FatValue, FatSteps
<1>5. /\ table' = table
      /\ fat'[1] = IF f.copy = 1 THEN [fat[1] EXCEPT ![f.cur] = f.new] ELSE fat[1]
  BY <1>4, FirstCopy DEF Inv
<1>6. CASE f.copy = 1
  <2>1. ~HomeIn(table, f.cur)
    BY <1>1, <1>2, <1>3, ChainNotHome
  <2>2. fat[1][f.cur] = EOC /\ fat[1][f.new] = EOC /\ LooseIn(fat[1], table, f.new)
    BY <1>3, <1>6 DEF FreshIn
  <2>3. \A x \in Cluster : fat'[1][x] = IF x = f.cur THEN f.new ELSE fat[1][x]
    BY <1>2, <1>5, <1>6 DEF FatMap
  <2>4. /\ Volume(fat'[1], table) /\ LinkedIn(fat'[1], f.new)
        /\ \A x \in Cluster : LooseIn(fat[1], table, x) /\ x # f.new
                                 => LooseIn(fat'[1], table, x)
        /\ \A x \in Cluster : LinkedIn(fat[1], x) => LinkedIn(fat'[1], x)
    BY <1>1, <1>2, <1>3, <1>5, <1>6, <2>1, <2>2, LinkEffect
  <2> QED
    BY <1>1, <1>3, <1>5, <2>2, <2>3, <2>4, Marks DEF HoldsFile, InChain
<1>7. CASE f.copy # 1
  BY <1>1, <1>2, <1>3, <1>5, <1>7 DEF Volume, Base, SoundLinks, LinkedIn
<1> QED
  BY <1>6, <1>7

LEMMA LinkKeeps == ASSUME Inv, Link PROVE SoundNext
<1> DEFINE G == fat[1]  H == fat'[1]
<1>1. f.pc = "link" /\ WriteFat
  BY DEF Link, FatStep
<1>2. /\ f.op = "write" /\ f.first # 0 /\ f.cur \in Cluster /\ f.copy + 1 # 1
  BY <1>1, Locals, Marks DEF Inv, TypeInv, FrameTypes, Allocating
<1>3. InProgress(G, table, f)
  BY DEF Inv, Sound
<1>4. /\ InChain(G, f, f.cur) /\ f.new # f.first /\ f.new # f.cur
      /\ f.next # 0 => f.next \in Cluster /\ InChain(G, f, f.next)
  BY <1>1, <1>2, <1>3 DEF InProgress, WriteSound, Allocating
<1>5. /\ table' = table /\ Volume(H, table)
      /\ H[f.cur] = f.new /\ H[f.new] # FREE /\ LinkedIn(H, f.new)
      /\ HoldsFile(H, table, f)
      /\ \A x \in Cluster : InChain(G, f, x) => InChain(H, f, x)
  BY <1>1, LinkWrite
<1>6. IF f.copy < NumFats
      THEN Moved("link", f.first, f.new, f.cur, f.next, f.at, f.copy + 1)
      ELSE Moved("walk", f.first, f.new, f.new, f.next, f.at + 1, 1)
  BY LinkFrame DEF Inv
<1> HIDE DEF G, H
<1> QED
  BY <1>1, <1>2, <1>3, <1>4, <1>5, <1>6
  DEF SoundNext, Sound, VolumeAt, InProgress, NewCluster, WriteSound, CreateSound,
      MkdirSound, RenameSound, RemoveSound, TruncateSound, Freeing, FailureSound, FatSteps,
      Subject, HoldsFile, InChain, Moved, Allocating, H

LEMMA UndoWrite ==
  ASSUME Inv, f.pc = "undo", WriteFat
  PROVE  table' = table /\ Volume(fat'[1], table)
<1>1. FatCell = f.new /\ FatValue = FREE /\ f.pc \in FatSteps /\ f.new \in Cluster
  BY DEF FatCell, FatValue, FatSteps, Inv, TypeInv, FrameTypes
<1>2. fat[1] \in FatMap /\ table \in TableMap /\ Volume(fat[1], table)
  BY Volumes
<1>3. /\ table' = table
      /\ fat'[1] = IF f.copy = 1 THEN [fat[1] EXCEPT ![f.new] = FREE] ELSE fat[1]
  BY <1>1, FirstCopy DEF Inv
<1>4. f.copy = 1 => LooseIn(fat[1], table, f.new)
  BY DEF Inv, Sound, InProgress, NewCluster, FreshIn
<1>5. CASE f.copy = 1
  BY <1>1, <1>2, <1>3, <1>4, <1>5, FreeEffect
<1> QED
  BY <1>2, <1>3, <1>5

LEMMA UndoKeeps == ASSUME Inv, Undo PROVE SoundNext
<1>1. f.pc = "undo" /\ WriteFat
  BY DEF Undo, FatStep
<1>2. table' = table /\ Volume(fat'[1], table)
  BY <1>1, UndoWrite
<1>3. IF f.copy < NumFats
      THEN Moved("undo", f.first, f.new, f.cur, f.next, f.at, f.copy + 1)
      ELSE f' = Idle
  BY UndoFrame DEF Inv
<1>4. InProgress(fat[1], table, f) /\ f.copy + 1 # 1
  BY Locals DEF Inv, Sound
<1>5. CASE f.copy < NumFats
  BY <1>1, <1>2, <1>3, <1>4, <1>5
  DEF SoundNext, Sound, VolumeAt, InProgress, NewCluster, WriteSound, CreateSound,
      MkdirSound, RenameSound, RemoveSound, TruncateSound, Freeing, FailureSound, FatSteps,
      Subject, EntersFree, Moved
<1> QED
  BY <1>2, <1>3, <1>5, IdleSound

LEMMA FreeWrite ==
  ASSUME Inv, f.pc = "free", WriteFat
  PROVE  /\ table' = table /\ Volume(fat'[1], table) /\ fat'[1][f.cur] = FREE
         /\ LinkRead \in Cluster => LooseIn(fat'[1], table, LinkRead)
<1>1. FatCell = f.cur /\ FatValue = FREE /\ f.pc \in FatSteps /\ f.cur \in Cluster
  BY DEF FatCell, FatValue, FatSteps, Inv, TypeInv, FrameTypes
<1>2. fat[1] \in FatMap /\ table \in TableMap /\ Volume(fat[1], table)
  BY Volumes
<1>3. /\ table' = table
      /\ fat'[1] = IF f.copy = 1 THEN [fat[1] EXCEPT ![f.cur] = FREE] ELSE fat[1]
  BY <1>1, FirstCopy DEF Inv
<1>4. Freeing(fat[1], table, f)
  BY DEF Inv, Sound, InProgress
<1>5. CASE f.copy = 1
  BY <1>1, <1>2, <1>3, <1>4, <1>5, FreeEffect DEF Freeing, LinkRead
<1>6. CASE f.copy # 1
  BY <1>2, <1>3, <1>4, <1>6 DEF Freeing, LinkRead
<1> QED
  BY <1>5, <1>6

LEMMA FreeKeeps == ASSUME Inv, FreeLink PROVE SoundNext
<1>1. f.pc = "free" /\ WriteFat
  BY DEF FreeLink
<1>2. /\ table' = table /\ Volume(fat'[1], table) /\ fat'[1][f.cur] = FREE
      /\ LinkRead \in Cluster => LooseIn(fat'[1], table, LinkRead)
  BY <1>1, FreeWrite
<1>3. \/ Moved("free", f.first, f.new, f.cur, LinkRead, f.at, f.copy + 1)
      \/ /\ LinkRead \in Cluster
         /\ Moved("free", f.first, f.new, LinkRead, 0, f.at, 1)
      \/ /\ f.op = "truncate"
         /\ Moved("size", f.first, f.new, 0, 0, f.at, 1)
      \/ f' = Idle
  BY FreeFrame DEF Inv
<1>4. InProgress(fat[1], table, f) /\ f.copy + 1 # 1
  BY Locals DEF Inv, Sound
<1>5. CASE f' # Idle
  BY <1>1, <1>2, <1>3, <1>4, <1>5
  DEF SoundNext, Sound, VolumeAt, InProgress, NewCluster, WriteSound, CreateSound,
      MkdirSound, RenameSound, RemoveSound, TruncateSound, Freeing, FailureSound, FatSteps,
      Subject, Moved, Allocating
<1> QED
  BY <1>2, <1>5, IdleSound

LEMMA CutWrite ==
  ASSUME Inv, f.pc = "cut", WriteFat
  PROVE  /\ table' = table /\ Volume(fat'[1], table) /\ fat'[1][f.cur] = EOC
         /\ LinkRead \in Cluster => LooseIn(fat'[1], table, LinkRead)
<1>1. FatCell = f.cur /\ FatValue = EOC /\ f.pc \in FatSteps /\ f.cur \in Cluster
  BY DEF FatCell, FatValue, FatSteps, Inv, TypeInv, FrameTypes
<1>2. fat[1] \in FatMap /\ table \in TableMap /\ Volume(fat[1], table)
  BY Volumes
<1>3. /\ table' = table
      /\ fat'[1] = IF f.copy = 1 THEN [fat[1] EXCEPT ![f.cur] = EOC] ELSE fat[1]
  BY <1>1, FirstCopy DEF Inv
<1>4. /\ f.copy = 1 => fat[1][f.cur] # FREE
      /\ f.copy # 1 =>
            fat[1][f.cur] = EOC /\ (f.next \in Cluster => LooseIn(fat[1], table, f.next))
  <2>1. f.op = "truncate" /\ (f.copy # 1 => f.copy > 1)
    <3>1. f.op \in Ops \cup {"none"} /\ (f.copy # 1 => f.copy > 1)
      BY Locals DEF Inv, Frame
    <3>2. f.op \in AllOps
      BY <3>1, WorkloadAssumption, IdleFields DEF AllOps, Inv, TypeInv, FrameTypes
    <3> QED
      BY <3>1, <3>2 DEF AllOps, Inv, Sound, InProgress, WriteSound, CreateSound, MkdirSound,
         RenameSound, RemoveSound, Allocating
  <2> QED
    BY <2>1 DEF Inv, Sound, InProgress, TruncateSound, InChain
<1>5. CASE f.copy = 1
  BY <1>1, <1>2, <1>3, <1>4, <1>5, CutEffect DEF LinkRead
<1>6. CASE f.copy # 1
  BY <1>2, <1>3, <1>4, <1>6 DEF LinkRead
<1> QED
  BY <1>5, <1>6

LEMMA CutKeeps == ASSUME Inv, Cut PROVE SoundNext
<1>1. f.pc = "cut" /\ WriteFat
  BY DEF Cut
<1>2. /\ table' = table /\ Volume(fat'[1], table) /\ fat'[1][f.cur] = EOC
      /\ LinkRead \in Cluster => LooseIn(fat'[1], table, LinkRead)
  BY <1>1, CutWrite
<1>3. \/ Moved("cut", f.first, f.new, f.cur, LinkRead, f.at, f.copy + 1)
      \/ /\ LinkRead \in Cluster
         /\ Moved("free", f.first, f.new, LinkRead, 0, f.at, 1)
      \/ Moved("size", f.first, f.new, 0, 0, f.at, 1)
      \/ f' = Idle
  BY CutFrame DEF Inv
<1>4. InProgress(fat[1], table, f) /\ f.copy + 1 # 1
  BY Locals DEF Inv, Sound
<1>5. CASE f' # Idle
  BY <1>1, <1>2, <1>3, <1>4, <1>5
  DEF SoundNext, Sound, VolumeAt, InProgress, NewCluster, WriteSound, CreateSound,
      MkdirSound, RenameSound, RemoveSound, TruncateSound, Freeing, FailureSound, FatSteps,
      Subject, Moved, Allocating
<1> QED
  BY <1>2, <1>5, IdleSound

-----------------------------------------------------------------------------
(* Steps that write a table *)

\* New contents for a cluster that is no directory.
LEMMA BlankStep ==
  ASSUME Inv, ~(f.op = "rename" /\ f.pc = "delete"), f.pc # "idle",
         NEW c \in Cluster, ~HomeIn(table, c), NEW R \in [Slot -> Entry],
         \A s \in Slot : ~Live(R[s]),
         \A s, t \in Slot : s < t /\ R[s].kind = "end" => R[t].kind = "end",
         fat' = fat, table' = [table EXCEPT ![c] = R]
  PROVE  /\ Volume(fat[1], table') /\ table'[f.dir] = table[f.dir]
         /\ HomeIn(table', f.dir)
         /\ \A x : NamedIn(table', x) <=> NamedIn(table, x)
         /\ \A x : LooseIn(fat[1], table', x) <=> LooseIn(fat[1], table, x)
<1>1. fat[1] \in FatMap /\ table \in TableMap /\ Volume(fat[1], table)
  BY Volumes
<1>2. f.dir \in Cluster /\ HomeIn(table, f.dir)
  BY DEF Inv, TypeInv, FrameTypes, Sound, InProgress
<1>3. /\ Volume(fat[1], table')
      /\ \A x : NamedIn(table', x) <=> NamedIn(table, x)
      /\ \A x : HomeIn(table', x) <=> HomeIn(table, x)
  BY <1>1, BlankEffect
<1>4. table'[f.dir] = table[f.dir]
  BY <1>1, <1>2 DEF TableMap
<1> QED
  BY <1>2, <1>3, <1>4 DEF LooseIn

LEMMA FreshNotHome ==
  ASSUME NEW G, NEW T, NEW c, LooseIn(G, T, c)
  PROVE  ~HomeIn(T, c)
  BY Kinds DEF LooseIn, HomeIn, DirectoryIn, NamedIn

LEMMA ZeroWrite ==
  ASSUME Inv, f.pc = "zero", WriteTable
  PROVE  /\ fat' = fat /\ Volume(fat[1], table') /\ table'[f.dir] = table[f.dir]
         /\ HomeIn(table', f.dir) /\ FreshIn(fat[1], table', f.new)
         /\ \A x : LooseIn(fat[1], table', x) <=> LooseIn(fat[1], table, x)
<1>1. fat' = fat /\ table' = [table EXCEPT ![f.new] = Zeroed] /\ f.new \in Cluster
  BY DEF WriteTable, TableAfter, Inv, TypeInv, FrameTypes
<1>2. FreshIn(fat[1], table, f.new)
  BY DEF Inv, Sound, InProgress, NewCluster
<1>3. ~HomeIn(table, f.new)
  BY <1>2, FreshNotHome DEF FreshIn
<1>4. /\ Zeroed \in [Slot -> Entry] /\ \A s \in Slot : Zeroed[s] = EndEntry
  BY Kinds DEF Zeroed
<1>5. /\ \A s \in Slot : ~Live(Zeroed[s])
      /\ \A s, t \in Slot : s < t /\ Zeroed[s].kind = "end" => Zeroed[t].kind = "end"
  BY <1>4, Kinds
<1>6. /\ Volume(fat[1], table') /\ table'[f.dir] = table[f.dir] /\ HomeIn(table', f.dir)
      /\ \A x : LooseIn(fat[1], table', x) <=> LooseIn(fat[1], table, x)
  BY <1>1, <1>3, <1>4, <1>5, BlankStep
<1> QED
  BY <1>1, <1>2, <1>6 DEF FreshIn

LEMMA ZeroKeeps == ASSUME Inv, ZeroCluster PROVE SoundNext
<1>1. f.pc = "zero" /\ WriteTable
  BY DEF ZeroCluster
<1>2. /\ fat' = fat /\ Volume(fat[1], table') /\ table'[f.dir] = table[f.dir]
      /\ HomeIn(table', f.dir) /\ FreshIn(fat[1], table', f.new)
      /\ \A x : LooseIn(fat[1], table', x) <=> LooseIn(fat[1], table, x)
  BY <1>1, ZeroWrite
<1>3. IF f.op = "mkdir"
      THEN Moved("initdir", f.first, f.new, f.cur, f.next, f.at, f.copy)
      ELSE IF f.first = 0
      THEN Moved("walk", f.new, f.new, f.new, f.next, f.at, f.copy)
      ELSE Moved("link", f.first, f.new, f.cur, f.next, f.at, f.copy)
  BY ZeroFrame DEF Inv
<1>4. InProgress(fat[1], table, f) /\ f.copy = 1 /\ f.op \in {"write", "mkdir"}
  BY <1>1 DEF Inv, Sound, InProgress, FatSteps, TypeInv, FrameTypes, Allocating
<1>5. CASE f.op = "mkdir"
  BY <1>1, <1>2, <1>3, <1>4, <1>5
  DEF SoundNext, Sound, VolumeAt, InProgress, NewCluster, WriteSound, CreateSound,
      MkdirSound, RenameSound, RemoveSound, TruncateSound, Freeing, FailureSound, FatSteps,
      Subject, EntersFree, Moved
<1>6. CASE f.op = "write" /\ f.first = 0
  <2>1. f.new # 0 /\ fat[1][f.new] # FREE
    BY <1>1, <1>2, Marks DEF Inv, TypeInv, FrameTypes, FreshIn
  <2> QED
    BY <1>1, <1>2, <1>3, <1>4, <1>6, <2>1
    DEF SoundNext, Sound, VolumeAt, InProgress, NewCluster, WriteSound, CreateSound,
        MkdirSound, RenameSound, RemoveSound, TruncateSound, Freeing, FailureSound, FatSteps,
        Subject, HoldsFile, InChain, FreshIn, Moved, Allocating
<1>7. CASE f.op = "write" /\ f.first # 0
  BY <1>1, <1>2, <1>3, <1>4, <1>7
  DEF SoundNext, Sound, VolumeAt, InProgress, NewCluster, WriteSound, CreateSound,
      MkdirSound, RenameSound, RemoveSound, TruncateSound, Freeing, FailureSound, FatSteps,
      Subject, HoldsFile, InChain, Moved, Allocating
<1> QED
  BY <1>4, <1>5, <1>6, <1>7

LEMMA InitDirectoryKeeps == ASSUME Inv, InitDirectory PROVE SoundNext
<1> DEFINE R == Dots(f.new, f.dir)
<1>1. /\ f.pc = "initdir" /\ WriteTable /\ f.op = "mkdir"
      /\ f.new \in Cluster /\ f.dir \in Cluster
  BY DEF InitDirectory, Inv, TypeInv, FrameTypes
<1>2. fat' = fat /\ table' = [table EXCEPT ![f.new] = R]
  BY <1>1 DEF WriteTable, TableAfter
<1>3. FreshIn(fat[1], table, f.new)
  BY <1>1 DEF Inv, Sound, InProgress, NewCluster
<1>4. ~HomeIn(table, f.new)
  BY <1>3, FreshNotHome DEF FreshIn
<1>5. table \in TableMap /\ SoundTree(fat[1], table) /\ SoundEnds(table)
  BY <1>1, Volumes DEF Volume, Base
<1>6. /\ R \in [Slot -> Entry]
      /\ \A s \in Slot : R[s].kind = IF s = 0 \/ s = 1 THEN "dot" ELSE table[f.new][s].kind
  <2>1. \A k \in Kind, c \in Cluster \cup {0} : Unnamed(k, c) \in Entry /\ Unnamed(k, c).kind = k
    BY DEF Unnamed, Entry
  <2>2. \A s \in Slot : table[f.new][s] \in Entry
    BY <1>1, <1>5, Entries
  <2> QED
    BY <1>1, <2>1, <2>2 DEF Dots, Kind
<1> HIDE DEF R
<1>7. \A s \in Slot : ~Live(R[s])
  <2>1. \A s \in Slot : ~Live(table[f.new][s])
    BY <1>1, <1>4, <1>5 DEF SoundTree
  <2> QED
    BY <1>6, <2>1, Kinds
<1>8. ASSUME NEW s \in Slot, NEW t \in Slot, s < t, R[s].kind = "end"
      PROVE  R[t].kind = "end"
  <2>1. s # 0 /\ s # 1 /\ table[f.new][s].kind = "end"
    BY <1>6, <1>8
  <2>2. t # 0 /\ t # 1
    BY <1>8, <2>1, GeometryAssumption DEF Slot
  <2> QED
    BY <1>1, <1>5, <1>6, <1>8, <2>1, <2>2 DEF SoundEnds
<1>9. /\ Volume(fat[1], table') /\ table'[f.dir] = table[f.dir] /\ HomeIn(table', f.dir)
      /\ \A x : LooseIn(fat[1], table', x) <=> LooseIn(fat[1], table, x)
  BY <1>1, <1>2, <1>4, <1>6, <1>7, <1>8, BlankStep
<1>10. Moved("entry", f.first, f.new, f.cur, f.next, f.at, f.copy)
  BY InitDirectoryFrame DEF Inv
<1>11. f.copy = 1 /\ EntersFree(table, f)
  BY <1>1 DEF Inv, Sound, InProgress, FatSteps, MkdirSound
<1>12. EntersFree(table', f')
  BY <1>9, <1>10, <1>11 DEF EntersFree, Subject, Moved
<1>13. FreshIn(fat[1], table', f'.new)
  BY <1>3, <1>9, <1>10 DEF FreshIn, Moved
<1> QED
  BY <1>1, <1>2, <1>9, <1>10, <1>11, <1>12, <1>13
  DEF SoundNext, Sound, VolumeAt, InProgress, NewCluster, WriteSound, CreateSound,
      MkdirSound, RenameSound, RemoveSound, TruncateSound, Freeing, FailureSound, FatSteps,
      Moved

LEMMA EntryFields ==
  ASSUME Inv, f.pc = "entry"
  PROVE  /\ NewEntry \in Entry /\ f.dir \in Cluster /\ f.slot \in Slot
         /\ f.op \in {"create", "mkdir", "rename"}
         /\ NewEntry.kind = IF f.op = "mkdir" THEN "dir" ELSE "file"
         /\ NewEntry.cluster = IF f.op = "mkdir" THEN f.new ELSE f.first
<1>1. /\ f.dir \in Cluster /\ f.name \in Name /\ f.op \in {"create", "mkdir", "rename"}
      /\ f.op = "mkdir" => f.new \in Cluster
  BY DEF Inv, TypeInv, FrameTypes
<1>2. f.slot \in Slot /\ f.first \in Cluster \cup {0} /\ f.size \in Nat
  BY Locals DEF Inv
<1> QED
  BY <1>1, <1>2 DEF NewEntry, Entry, Kind

LEMMA EntryWrite ==
  ASSUME Inv, f.pc = "entry", f.op # "rename", WriteTable
  PROVE  fat' = fat /\ Volume(fat[1], table')
<1>1. fat' = fat /\ table' = [table EXCEPT ![f.dir][f.slot] = NewEntry]
  BY DEF WriteTable, TableAfter
<1>2. fat[1] \in FatMap /\ table \in TableMap /\ Volume(fat[1], table)
  BY Volumes
<1>3. /\ HomeIn(table, f.dir) /\ EntersFree(table, f)
      /\ f.op = "create" => f.first = 0
      /\ f.op = "mkdir" => FreshIn(fat[1], table, f.new) /\ f.new # 0
  BY EntryFields, Marks DEF Inv, Sound, InProgress, CreateSound, MkdirSound, TypeInv, FrameTypes
<1>4. /\ SlotFree(table[f.dir][f.slot])
      /\ \A t \in 0..(f.slot - 1) : ~SlotFree(table[f.dir][t])
  BY <1>3 DEF EntersFree, Subject
<1>5. /\ NewEntry \in Entry /\ f.dir \in Cluster /\ f.slot \in Slot /\ Live(NewEntry)
      /\ NewEntry.cluster # 0 => LooseIn(fat[1], table, NewEntry.cluster)
      /\ NewEntry.kind = "dir" => NewEntry.cluster # 0 /\ fat[1][NewEntry.cluster] = EOC
  BY <1>3, EntryFields, Kinds DEF FreshIn
<1> QED
  BY <1>1, <1>2, <1>3, <1>4, <1>5, EnterEffect

LEMMA WriteEntryKeeps == ASSUME Inv, WriteEntry PROVE SoundNext
<1>1. f.pc = "entry" /\ WriteTable
  BY DEF WriteEntry
<1>2. IF f.op = "rename"
      THEN Moved("delete", f.first, f.new, f.cur, f.next, f.at, f.copy)
      ELSE f' = Idle
  BY WriteEntryFrame DEF Inv
<1>3. CASE f.op # "rename"
  BY <1>1, <1>2, <1>3, EntryWrite, IdleSound
<1>4. CASE f.op = "rename"
  <2>1. fat' = fat /\ table' = [table EXCEPT ![f.dir][f.slot] = NewEntry]
    BY <1>1 DEF WriteTable, TableAfter
  <2>2. fat[1] \in FatMap /\ table \in TableMap /\ Volume(fat[1], table)
    BY <1>1, Volumes
  <2>3. /\ HomeIn(table, f.dir) /\ EntersFree(table, f) /\ f.copy = 1
        /\ table[f.sdir][f.sslot].kind = "file" /\ table[f.sdir][f.sslot].cluster = f.first
        /\ <<f.dir, f.slot>> # <<f.sdir, f.sslot>>
    BY <1>1, <1>4 DEF Inv, Sound, InProgress, RenameSound, FatSteps
  <2>4. /\ NewEntry \in Entry /\ f.dir \in Cluster /\ f.slot \in Slot
        /\ f.sdir \in Cluster /\ f.sslot \in Slot
        /\ NewEntry.kind = "file" /\ NewEntry.cluster = f.first
    BY <1>1, <1>4, EntryFields, Locals DEF Inv, TypeInv, FrameTypes
  <2>5. /\ SlotFree(table[f.dir][f.slot])
        /\ \A t \in 0..(f.slot - 1) : ~SlotFree(table[f.dir][t])
    BY <2>3 DEF EntersFree, Subject
  <2>6. /\ Base(fat[1], table') /\ DistinctBut(table', f.sdir, f.sslot)
        /\ HomeIn(table', f.dir)
    BY <2>1, <2>2, <2>3, <2>4, <2>5, EnterSharedEffect
  <2>7. table'[f.dir][f.slot] = NewEntry
    BY <2>1, <2>2, <2>4 DEF TableMap
  <2>8. table'[f.sdir][f.sslot] = table[f.sdir][f.sslot]
    BY <2>1, <2>2, <2>3, <2>4 DEF TableMap
  <2> QED
    BY <1>2, <1>4, <2>1, <2>3, <2>4, <2>6, <2>7, <2>8
    DEF SoundNext, Sound, VolumeAt, InProgress, NewCluster, WriteSound, CreateSound,
        MkdirSound, RenameSound, RemoveSound, TruncateSound, Freeing, FailureSound, FatSteps,
        Subject, Moved
<1> QED
  BY <1>3, <1>4

LEMMA DataWrite ==
  ASSUME Inv, f.pc = "data", WriteTable
  PROVE  /\ fat' = fat /\ Volume(fat[1], table') /\ table'[f.dir] = table[f.dir]
         /\ HomeIn(table', f.dir) /\ f.op = "write" /\ f.first # 0 /\ f.cur \in Cluster
         /\ HoldsFile(fat[1], table', f)
<1>1. /\ fat' = fat /\ table' = [table EXCEPT ![f.cur] = FileBytes]
      /\ f.cur \in Cluster /\ f.op = "write" /\ f.dir \in Cluster
  BY DEF WriteTable, TableAfter, Inv, TypeInv, FrameTypes
<1>2. f.first # 0 /\ HoldsFile(fat[1], table, f) /\ InChain(fat[1], f, f.cur)
  BY <1>1 DEF Inv, Sound, InProgress, WriteSound
<1>3. ~HomeIn(table, f.cur)
  <2>1. f.first \in Cluster /\ f.slot \in Slot
    BY <1>2, Locals DEF Inv
  <2> QED
    BY <1>1, <1>2, <2>1, Volumes, ChainNotHome
<1>4. FileBytes \in [Slot -> Entry] /\ \A s \in Slot : FileBytes[s].kind = "data"
  BY DEF FileBytes, Unnamed, Entry, Kind
<1>5. /\ \A s \in Slot : ~Live(FileBytes[s])
      /\ \A s, t \in Slot : s < t /\ FileBytes[s].kind = "end" => FileBytes[t].kind = "end"
  BY <1>4, Kinds
<1>6. /\ Volume(fat[1], table') /\ table'[f.dir] = table[f.dir] /\ HomeIn(table', f.dir)
      /\ \A x : LooseIn(fat[1], table', x) <=> LooseIn(fat[1], table, x)
  BY <1>1, <1>3, <1>4, <1>5, BlankStep
<1> QED
  BY <1>1, <1>2, <1>6 DEF HoldsFile, Subject

LEMMA WriteDataKeeps == ASSUME Inv, WriteData PROVE SoundNext
<1>1. f.pc = "data" /\ WriteTable
  BY DEF WriteData
<1>2. /\ fat' = fat /\ Volume(fat[1], table') /\ table'[f.dir] = table[f.dir]
      /\ HomeIn(table', f.dir) /\ f.op = "write" /\ f.first # 0 /\ f.cur \in Cluster
      /\ HoldsFile(fat[1], table', f)
  BY <1>1, DataWrite
<1>3. \/ fat[1][f.cur] \in Cluster
         /\ Moved("data", f.first, f.new, fat[1][f.cur], f.next, f.at + 1, f.copy)
      \/ Moved("update", f.first, f.new, f.cur, f.next, f.at, f.copy)
      \/ f' = Idle
  BY WriteDataFrame DEF Inv
<1>4. InProgress(fat[1], table, f) /\ f.copy = 1
  BY <1>1 DEF Inv, Sound, InProgress, FatSteps
<1>5. fat[1][f.cur] \in Cluster => InChain(fat[1], f, fat[1][f.cur])
  BY <1>1, <1>2, Volumes, NextInChain DEF Volume, Base
<1>6. CASE f' # Idle
  BY <1>1, <1>2, <1>3, <1>4, <1>5, <1>6
  DEF SoundNext, Sound, VolumeAt, InProgress, NewCluster, WriteSound, CreateSound,
      MkdirSound, RenameSound, RemoveSound, TruncateSound, Freeing, FailureSound, FatSteps,
      Subject, HoldsFile, InChain, Moved, Allocating
<1> QED
  BY <1>2, <1>6, IdleSound

LEMMA UpdateWrite ==
  ASSUME Inv, f.pc = "update", WriteTable
  PROVE  fat' = fat /\ Volume(fat[1], table')
<1> DEFINE e == table[f.dir][f.slot]
           g == [e EXCEPT !.cluster = f.first, !.size = f.size]
<1>1. fat' = fat /\ table' = [table EXCEPT ![f.dir][f.slot] = g]
  BY DEF WriteTable, TableAfter
<1>2. fat[1] \in FatMap /\ table \in TableMap /\ Volume(fat[1], table)
  BY Volumes
<1>3. f.dir \in Cluster /\ f.slot \in Slot /\ f.first \in Cluster \cup {0} /\ f.size \in Nat
  BY Locals DEF Inv, TypeInv, FrameTypes
<1>4. e \in Entry
  BY <1>2, <1>3, Entries
<1>5. g \in Entry /\ g.kind = e.kind /\ g.cluster = f.first
  BY <1>3, <1>4, EntryUpdate DEF Entry
<1>6. f.op = "write"
  <2>1. f.op \in AllOps
    BY Locals, WorkloadAssumption DEF Inv, TypeInv, FrameTypes, Frame
  <2> QED
    BY <2>1 DEF AllOps, Inv, Sound, InProgress, CreateSound, MkdirSound, RenameSound,
       RemoveSound, TruncateSound
<1>7. e.kind = "file" /\ (e.cluster # f.first => f.first # 0 /\ LooseIn(fat[1], table, f.first))
  BY <1>6 DEF Inv, Sound, InProgress, WriteSound, HoldsFile, Subject
<1> HIDE DEF e, g
<1> QED
  BY <1>1, <1>2, <1>3, <1>5, <1>7, UpdateEffect DEF e

LEMMA SizeWrite ==
  ASSUME Inv, f.pc = "size", WriteTable
  PROVE  fat' = fat /\ Volume(fat[1], table')
<1> DEFINE e == table[f.dir][f.slot]
           g == [e EXCEPT !.size = f.size]
<1>1. fat' = fat /\ table' = [table EXCEPT ![f.dir][f.slot] = g]
  BY DEF WriteTable, TableAfter
<1>2. fat[1] \in FatMap /\ table \in TableMap /\ Volume(fat[1], table)
  BY Volumes
<1>3. f.dir \in Cluster /\ f.slot \in Slot /\ f.size \in Nat
  BY Locals DEF Inv, TypeInv, FrameTypes
<1>4. e \in Entry
  BY <1>2, <1>3, Entries
<1>5. g \in Entry /\ g.kind = e.kind /\ g.cluster = e.cluster
  BY <1>3, <1>4, EntryUpdate DEF Entry
<1>6. f.op = "truncate"
  <2>1. f.op \in AllOps
    BY Locals, WorkloadAssumption DEF Inv, TypeInv, FrameTypes, Frame
  <2> QED
    BY <2>1 DEF AllOps, Inv, Sound, InProgress, CreateSound, MkdirSound, RenameSound,
       RemoveSound, WriteSound, Allocating
<1>7. e.kind = "file"
  BY <1>6 DEF Inv, Sound, InProgress, TruncateSound, Subject
<1> HIDE DEF e, g
<1> QED
  BY <1>1, <1>2, <1>3, <1>5, <1>7, UpdateEffect DEF e

\* A removal: the entry of the file or of the empty directory goes.
LEMMA DeleteWrite ==
  ASSUME Inv, f.pc = "delete", f.op # "rename", WriteTable
  PROVE  /\ fat' = fat /\ Volume(fat[1], table') /\ HomeIn(table', f.dir)
         /\ f.first # 0 => LooseIn(fat[1], table', f.first)
<1>1. fat' = fat /\ table' = [table EXCEPT ![f.dir][f.slot] = DeletedEntry]
  BY DEF WriteTable, TableAfter, DeletedSlot
<1>2. fat[1] \in FatMap /\ table \in TableMap /\ Volume(fat[1], table)
  BY Volumes
<1>3. f.dir \in Cluster /\ f.slot \in Slot /\ f.op \in {"remove", "rmdir"}
  BY Locals DEF Inv, TypeInv, FrameTypes
<1>4. /\ HomeIn(table, f.dir) /\ Live(table[f.dir][f.slot])
      /\ table[f.dir][f.slot].cluster = f.first
      /\ f.op = "remove" => table[f.dir][f.slot].kind = "file"
      /\ f.op = "rmdir" => \A s \in Slot : f.first # 0 => ~Live(table[f.first][s])
  BY <1>3 DEF Inv, Sound, InProgress, RemoveSound, Subject
<1>5. table[f.dir][f.slot].kind = "dir" => \A t \in Slot : ~Live(table[f.first][t])
  BY <1>2, <1>3, <1>4 DEF Volume, Base, SoundTree
<1> QED
  BY <1>1, <1>2, <1>3, <1>4, <1>5, DeleteEffect

LEMMA DeleteEntryKeeps == ASSUME Inv, DeleteEntry PROVE SoundNext
<1>1. f.pc = "delete" /\ WriteTable
  BY DEF DeleteEntry
<1>2. IF f.op = "rename" \/ f.first = 0 THEN f' = Idle
      ELSE Moved("free", f.first, f.new, f.first, f.next, f.at, f.copy)
  BY DeleteEntryFrame DEF Inv
<1>3. CASE f.op = "rename"
  <2>1. fat' = fat /\ table' = [table EXCEPT ![f.sdir][f.sslot] = DeletedEntry]
    BY <1>1, <1>3 DEF WriteTable, TableAfter, DeletedSlot
  <2>2. /\ fat[1] \in FatMap /\ table \in TableMap /\ Base(fat[1], table)
        /\ DistinctBut(table, f.sdir, f.sslot)
    BY <1>1, <1>3, Volumes DEF Inv, Sound, VolumeAt
  <2>3. f.sdir \in Cluster /\ f.sslot \in Slot /\ table[f.sdir][f.sslot].kind = "file"
    BY <1>3, Locals DEF Inv, TypeInv, FrameTypes, Sound, InProgress, RenameSound
  <2>4. Volume(fat[1], table')
    BY <2>1, <2>2, <2>3, DeleteSharedEffect
  <2> QED
    BY <1>2, <1>3, <2>1, <2>4, IdleSound
<1>4. CASE f.op # "rename"
  <2>1. /\ fat' = fat /\ Volume(fat[1], table') /\ HomeIn(table', f.dir)
        /\ f.first # 0 => LooseIn(fat[1], table', f.first)
    BY <1>1, <1>4, DeleteWrite
  <2>2. f.op \in {"remove", "rmdir"} /\ f.copy = 1
    BY <1>1, <1>4 DEF Inv, TypeInv, FrameTypes, Sound, InProgress, FatSteps
  <2>3. CASE f.first = 0
    BY <1>2, <2>1, <2>3, IdleSound
  <2>4. CASE f.first # 0
    BY <1>2, <1>4, <2>1, <2>2, <2>4
    DEF SoundNext, Sound, VolumeAt, InProgress, NewCluster, WriteSound, CreateSound,
        MkdirSound, RenameSound, RemoveSound, TruncateSound, Freeing, FailureSound, FatSteps,
        Moved
  <2> QED
    BY <2>3, <2>4
<1> QED
  BY <1>3, <1>4

-----------------------------------------------------------------------------
(* Failures, and all steps together *)

\* What a failing step of a call other than a rename writes leaves a volume.
LEMMA AnyWrite ==
  ASSUME Inv, DeviceWrite, f.op # "rename", f.pc # "initdir"
  PROVE  Volume(fat'[1], table')
<1>1. CASE f.pc \in FatSteps /\ WriteFat
  BY <1>1, MarkWrite, LinkWrite, UndoWrite, FreeWrite, CutWrite DEF FatSteps
<1>2. CASE f.pc \in TableSteps /\ WriteTable
  BY <1>2, ZeroWrite, EntryWrite, DataWrite, UpdateWrite, SizeWrite, DeleteWrite DEF TableSteps
<1> QED
  BY <1>1, <1>2 DEF DeviceWrite

LEMMA DeviceFailsKeeps == ASSUME Tame, Inv, DeviceFails PROVE SoundNext
<1>1. /\ "io" \in Faults /\ f.pc # "idle" /\ (DeviceWrite \/ UNCHANGED <<fat, table>>)
      /\ f.op # "rename" /\ f.op # "mkdir" /\ f.pc # "initdir"
  <2>1. "io" \in Faults /\ f.pc # "idle" /\ (DeviceWrite \/ UNCHANGED <<fat, table>>)
    BY DEF DeviceFails
  <2>2. f.op \in Ops /\ "rename" \notin Ops /\ "mkdir" \notin Ops
    BY <2>1, Locals DEF Tame, Inv, TypeInv, FrameTypes, Frame
  <2> QED
    BY <2>1, <2>2 DEF Inv, TypeInv, FrameTypes
<1>2. Volume(fat'[1], table')
  BY <1>1, AnyWrite, Volumes
<1>3. IF RollsBack
      THEN Moved("undo", f.first, f.new, f.cur, f.next, f.at, 1)
      ELSE f' = Idle
  BY DeviceFailsFrame DEF Inv
<1>4. CASE ~RollsBack
  BY <1>2, <1>3, <1>4, IdleSound
<1>5. CASE RollsBack
  <2>1. f.pc \in {"zero", "link"} /\ f.op = "write"
    BY <1>1, <1>5 DEF RollsBack, Inv, TypeInv, FrameTypes, Allocating
  <2>2. f.upto = 0 /\ InProgress(fat[1], table, f)
    BY <1>1, <2>1 DEF Inv, Sound, InProgress, FailureSound
  <2>3. f.first = 0
    <3>1. f.first # 0 => f.at < f.upto
      BY <2>1 DEF Inv, TypeInv, FrameTypes, Allocating
    <3> QED
      BY <2>2, <3>1, Locals DEF Inv
  <2>4. f.pc = "zero"
    BY <2>1, <2>2, <2>3 DEF InProgress, WriteSound
  <2>5. DeviceWrite => WriteTable
    BY <2>4 DEF DeviceWrite, FatSteps
  <2>6. /\ table'[f.dir] = table[f.dir] /\ HomeIn(table', f.dir)
        /\ FreshIn(fat'[1], table', f.new)
    <3>1. CASE WriteTable
      BY <2>4, <3>1, ZeroWrite
    <3>2. CASE UNCHANGED <<fat, table>>
      BY <1>1, <2>2, <2>4, <3>2 DEF InProgress, NewCluster
    <3> QED
      BY <1>1, <2>5, <3>1, <3>2
  <2> QED
    BY <1>2, <1>3, <1>5, <2>1, <2>2, <2>3, <2>4, <2>6
    DEF SoundNext, Sound, VolumeAt, InProgress, NewCluster, WriteSound, CreateSound,
        MkdirSound, RenameSound, RemoveSound, TruncateSound, Freeing, FailureSound, FatSteps,
        Subject, Moved
<1> QED
  BY <1>4, <1>5

LEMMA InitSound == Init => Inv
<1> SUFFICES ASSUME Init PROVE Inv
  OBVIOUS
<1>1. TypeInv
  BY InitType
<1>2. /\ \A c \in Cluster : fat[1][c] = IF c = Root THEN EOC ELSE FREE
      /\ \A d \in Cluster, s \in Slot : table[d][s] = EndEntry
      /\ f = Idle
  BY GeometryAssumption DEF Init, Zeroed
<1>3. \A d \in Cluster, s \in Slot : table[d][s].kind = "end" /\ ~Live(table[d][s])
  BY <1>2, Kinds
<1>4. \A c \in Cluster : ~LinkedIn(fat[1], c)
  BY <1>2, Marks, RootCluster DEF LinkedIn
<1>5. Volume(fat[1], table)
  BY <1>2, <1>3, <1>4, RootCluster DEF Volume, Base, SoundLinks, SoundHeads, SoundTree,
     SoundEnds, Distinct, Same, LinkedIn
<1> QED
  BY <1>1, <1>2, <1>5, IdleFields
  DEF Inv, Sound, VolumeAt, InProgress, NewCluster, WriteSound, CreateSound,
      MkdirSound, RenameSound, RemoveSound, TruncateSound, Freeing, FailureSound, FatSteps

LEMMA EverySound == ASSUME Tame, Inv, Next PROVE SoundNext
<1>1. CASE Call
  BY <1>1, CreateKeeps, WriteKeeps, MkdirKeeps, RemoveKeeps, TruncateKeeps, RenameKeeps
  DEF Call
<1>2. CASE DiskFull \/ BrokenChain
  <2>1. UNCHANGED <<fat, table>> /\ f' = Idle /\ f.pc \in {"alloc", "walk", "seek"}
    BY <1>2 DEF DiskFull, BrokenChain, Done, GiveUp
  <2> QED
    BY <2>1, StopKeeps
<1>3. CASE UpdateEntry \/ UpdateSize
  <2>1. WriteTable /\ f' = Idle /\ f.pc \in {"update", "size"}
    BY <1>3 DEF UpdateEntry, UpdateSize, Done
  <2> QED
    BY <2>1, UpdateWrite, SizeWrite, IdleSound
<1>4. CASE Step
  BY <1>2, <1>3, <1>4, AllocateKeeps, MarkKeeps, ZeroKeeps, LinkKeeps, UndoKeeps,
     InitDirectoryKeeps, WriteEntryKeeps, WalkKeeps, WriteDataKeeps, DeleteEntryKeeps,
     FreeKeeps, SeekKeeps, CutKeeps
  DEF Step
<1>5. CASE DeviceFails
  BY <1>5, DeviceFailsKeeps
<1>6. CASE Crash
  <2>1. UNCHANGED <<fat, table>> /\ f' = Idle /\ "crash" \in Faults /\ f.pc # "idle"
    BY <1>6 DEF Crash, GiveUp
  <2>2. f.op # "rename"
    BY <2>1, Locals DEF Tame, Inv, TypeInv, FrameTypes, Frame
  <2> QED
    BY <2>1, <2>2, StopKeeps
<1> QED
  BY <1>1, <1>4, <1>5, <1>6 DEF Next

(* Under the workloads of Tame the inductive invariant holds: at every step the *)
(* operation in progress is where its locals say it is.                         *)
THEOREM InvariantHolds == Tame => (Spec => []IInv)
<1> SUFFICES ASSUME Tame PROVE Spec => []IInv
  OBVIOUS
<1>1. Init => IInv
  BY InitSound, InvIsIInv
<1>2. IInv /\ [Next]_vars => IInv'
  <2> SUFFICES ASSUME IInv, [Next]_vars PROVE IInv'
    OBVIOUS
  <2>1. CASE Next
    <3>1. TypeInv' /\ SoundNext
      BY <2>1, InvIsIInv, TypeStep, EverySound DEF Inv
    <3> QED
      BY <3>1, PartsNext DEF IInv, TypeInv, SoundNext, Sound, FrameSound
  <2>2. CASE UNCHANGED vars
    BY <2>2 DEF vars, IInv, TypeOK, FrameTypes, SoundVolume, LinksSound, HeadsSound,
       HeadsDistinct, TreeSound, Linked, IsLink, Heads, Superseded, DirectoryAt, EndsLast,
       FrameSound
  <2> QED
    BY <2>1, <2>2
<1> QED
  BY <1>1, <1>2, PTL DEF Spec

(* Under the workloads of Tame no step of any operation, no crash and no failed *)
(* write makes two files share a cluster, lets an entry or a link lead to a     *)
(* free cluster, or takes a directory out of the tree.                          *)
THEOREM VolumeStaysSound == Tame => (Spec => []SoundVolume)
<1>1. IInv => SoundVolume
  BY DEF IInv
<1> QED
  BY <1>1, InvariantHolds, PTL

=============================================================================
