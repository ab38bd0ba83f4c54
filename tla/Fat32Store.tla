---------------------------- MODULE Fat32Store ----------------------------
(***************************************************************************)
(* The volume of Fat32 seen as the tree of FileStore: a path leads to the   *)
(* entry a lookup finds at its end.  A call of fat32.c writes many sectors; *)
(* only one of the writes changes this tree.                                *)
(***************************************************************************)
EXTENDS Fat32

\* The sizes the workload gives files.
Sizes == {0} \cup TruncSizes \cup {w[1] + w[2] : w \in Writes}

\* fat32_write grows the file if it ends behind the old end; fat32_truncate
\* only shrinks it.
SizeChange ==
  {c \in Sizes \X Sizes :
     \/ c[2] \in TruncSizes /\ c[2] < c[1]
     \/ \E w \in Writes : w[1] <= c[1] /\ c[1] < c[2] /\ c[2] = w[1] + w[2]}

NodeOf(e) == IF e.kind = "dir" THEN [kind |-> "dir", data |-> 0]
                               ELSE [kind |-> "file", data |-> e.size]

NonRoot == UNION {[1..k -> Name] : k \in 1..(MaxDepth + 1)}

\* The entries a lookup of the name n finds in the directories D.  Once the new
\* entry of a rename is on the disk, the old one no longer counts.
Visible(D, n) == UNION {{<<d, s>> : s \in {s \in Found(d, n) : ~Superseded(d, s)}} : d \in D}

\* The entries at the end of every path.
EntriesAt ==
  LET dirs == [q \in Path |-> Resolve(q)]
  IN [p \in NonRoot |-> Visible(dirs[SubSeq(p, 1, Len(p) - 1)], p[Len(p)])]

VolumeTree ==
  LET there == EntriesAt
  IN [p \in {<<>>} \cup {q \in NonRoot : there[q] # {}} |->
        IF p = <<>> THEN [kind |-> "dir", data |-> 0]
        ELSE NodeOf(At(CHOOSE e \in there[p] : TRUE))]

Store == INSTANCE FileStore
  WITH tree <- VolumeTree, MaxPath <- MaxDepth + 1,
       Data <- Sizes, Empty <- 0, Change <- SizeChange

\* A table is written, and the tree changes as the operation in progress is to
\* change it.
TakesEffect ==
  /\ table' # table
  /\ \E p \in Store!Paths :
       \/ f.op = "create"   /\ Store!CreateFile(p)
       \/ f.op = "mkdir"    /\ Store!MakeDirectory(p)
       \/ f.op \in {"write", "truncate"} /\ Store!ChangeData(p)
       \/ f.op = "remove"   /\ Store!RemoveFile(p)
       \/ f.op = "rmdir"    /\ Store!RemoveEmptyDirectory(p)
       \/ f.op = "rename"   /\ Store!IsFile(p) /\ \E q \in Store!Paths : Store!Rename(p, q)

(* Every operation of fat32.c takes effect in one of its device writes, for   *)
(* whoever looks names up: a file or directory appears complete, disappears   *)
(* or changes its size or name at once, and a call that is refused or finds   *)
(* the disk full has changed nothing or everything.  So has one that is cut   *)
(* off by a crash, except for a rename, which the run with crashes leaves     *)
(* out: a crash after its first write leaves the file under both names.  Each *)
(* step of the tree is one of Store!StoreNext, held to the operation it is of. *)
ImplementsFileStore == Store!StoreInit /\ [][TakesEffect]_VolumeTree
=============================================================================
