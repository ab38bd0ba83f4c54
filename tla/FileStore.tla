----------------------------- MODULE FileStore -----------------------------
(***************************************************************************)
(* What the functions declared in kernel/fs/fat32/fat32.h promise their     *)
(* callers, without clusters, tables and device writes: a tree of named     *)
(* files and directories in which every call takes effect at once, or not   *)
(* at all.  Fat32Store shows that the writes of fat32.c add up to this, and *)
(* Shell is the composition of the kernel's boot and shell with it.         *)
(***************************************************************************)
EXTENDS Naturals, Sequences

CONSTANTS
  Name,      \* the names in use
  MaxPath,   \* the most names in a path
  Data,      \* what a file may hold
  Empty,     \* what it holds when it is created
  Change     \* <<old, new>>: what a write or a truncation makes of the data

ASSUME DataAssumption == Empty \in Data /\ Change \subseteq Data \X Data

VARIABLE tree   \* tree[p]: the node at path p, for every path p that exists

Paths == UNION {[1..k -> Name] : k \in 0..MaxPath}
RootPath == <<>>
Parent(p) == SubSeq(p, 1, Len(p) - 1)

Directory == [kind |-> "dir", data |-> Empty]
FileOf(d) == [kind |-> "file", data |-> d]
Node == {Directory} \cup {FileOf(d) : d \in Data}

Exists(p) == p \in DOMAIN tree
IsDirectory(p) == Exists(p) /\ tree[p] = Directory
IsFile(p) == Exists(p) /\ tree[p].kind = "file"
Children(p) == {q \in DOMAIN tree : q # RootPath /\ Parent(q) = p}

\* A call that makes p needs a directory to put it in, and a name not in use.
CanMake(p) == p # RootPath /\ ~Exists(p) /\ IsDirectory(Parent(p))

With(p, node) == [q \in DOMAIN tree \cup {p} |-> IF q = p THEN node ELSE tree[q]]
Without(p) == [q \in DOMAIN tree \ {p} |-> tree[q]]

StoreInit == tree = [p \in {RootPath} |-> Directory]

CreateFile(p) == CanMake(p) /\ tree' = With(p, FileOf(Empty))
MakeDirectory(p) == CanMake(p) /\ tree' = With(p, Directory)

\* fat32_write and fat32_truncate
SetData(p, d) == IsFile(p) /\ tree' = With(p, FileOf(d))
ChangeData(p) == \E d \in Data : IsFile(p) /\ <<tree[p].data, d>> \in Change /\ SetData(p, d)

RemoveFile(p) == IsFile(p) /\ tree' = Without(p)

\* Mutant: a directory is removed with whatever is in it.
IsAnyDirectory(p) == p # RootPath /\ IsDirectory(p)

IsEmptyDirectory(p) == p # RootPath /\ IsDirectory(p) /\ Children(p) = {}

RemoveEmptyDirectory(p) == IsEmptyDirectory(p) /\ tree' = Without(p)

\* fat32_rename_file: the file is under one of the two names at every moment.
Rename(p, q) ==
  /\ IsFile(p) /\ CanMake(q)
  /\ tree' = [r \in (DOMAIN tree \ {p}) \cup {q} |-> IF r = q THEN tree[p] ELSE tree[r]]

\* A call that is refused changes nothing: a stuttering step.
StoreNext ==
  /\ tree' # tree
  /\ \E p \in Paths :
       \/ CreateFile(p) \/ MakeDirectory(p) \/ ChangeData(p)
       \/ RemoveFile(p) \/ RemoveEmptyDirectory(p)
       \/ IsFile(p) /\ \E q \in Paths : Rename(p, q)

StoreSpec == StoreInit /\ [][StoreNext]_tree
=============================================================================
