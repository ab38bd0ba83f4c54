------------------------- MODULE Fat32Tables_proofs -------------------------
(* More of what the writes of Fat32 keep: equal copies of the FAT, the file   *)
(* a rename moves, and well-formed directory tables.                          *)
EXTENDS Fat32Sound_proofs, WellFoundedInduction

-----------------------------------------------------------------------------
(* The copies of the FAT *)

\* While nothing has failed the copies differ only in the entry being written,
\* and there only those from f.copy on.
OwnCell(k, x) == f.pc \in FatSteps /\ f.copy > 1 /\ k >= f.copy /\ x = FatCell
CopiesAgree == \A k \in 1..NumFats, x \in Cluster : fat[k][x] = fat[1][x] \/ OwnCell(k, x)
FirstWritten == f.copy > 1 => f.pc \in FatSteps /\ fat[1][FatCell] = FatValue
MirrorInv == clean => CopiesAgree /\ FirstWritten

\* One copy is written; the next one follows, or it was the last.
LEMMA CopyWritten ==
  ASSUME TypeInv, CopiesAgree, FirstWritten, f.pc \in FatSteps, WriteFat,
         \/ /\ f.copy < NumFats /\ f'.copy = f.copy + 1
            /\ f'.pc = f.pc /\ f'.new = f.new /\ f'.cur = f.cur
         \/ f.copy = NumFats /\ f'.copy = 1
  PROVE  CopiesAgree' /\ FirstWritten'
<1> DEFINE K == f.copy
           c == FatCell
           v == FatValue
<1>1. /\ K \in 1..NumFats /\ c \in Cluster /\ NumFats \in Nat /\ 1 \in 1..NumFats
      /\ fat \in [1..NumFats -> [Cluster -> Cluster \cup {FREE, EOC}]]
  BY Locals DEF TypeInv, TypeOK, FrameTypes, FatSteps, FatCell
<1>2. fat' = FatAfter(K, c, v)
  BY DEF WriteFat
<1> HIDE DEF K, c, v
<1>3. /\ \A k \in 1..NumFats : k # K => fat'[k] = fat[k]
      /\ \A x \in Cluster :
           fat'[K][x] = IF x = c THEN v
                        ELSE IF x \div PerFatSector = c \div PerFatSector THEN fat[1][x]
                        ELSE fat[K][x]
  BY <1>1, <1>2 DEF FatAfter
<1>4. fat'[1][c] = v
  <2>1. CASE K = 1
    BY <1>1, <1>3, <2>1
  <2>2. CASE K # 1
    BY <1>1, <1>3, <2>2 DEF FirstWritten, K, c, v
  <2> QED
    BY <2>1, <2>2
<1>5. \A k \in 1..NumFats, x \in Cluster : fat[k][x] = fat[1][x] \/ (K > 1 /\ k >= K /\ x = c)
  BY DEF CopiesAgree, OwnCell, K, c
<1>6. ASSUME NEW k \in 1..NumFats, NEW x \in Cluster, ~(k > K /\ x = c)
      PROVE  fat'[k][x] = fat'[1][x]
  <2>1. CASE x = c
    BY <1>1, <1>3, <1>4, <1>5, <1>6, <2>1
  <2>2. CASE x # c
    <3>1. fat[k][x] = fat[1][x] /\ fat[K][x] = fat[1][x]
      BY <1>1, <1>5, <2>2
    <3>2. fat'[k][x] = fat[1][x] /\ fat'[1][x] = fat[1][x]
      BY <1>1, <1>3, <2>2, <3>1
    <3> QED
      BY <3>2
  <2> QED
    BY <2>1, <2>2
<1>7. CASE K < NumFats /\ f'.copy = K + 1 /\ f'.pc = f.pc /\ f'.new = f.new /\ f'.cur = f.cur
  <2>1. FatCell' = c /\ FatValue' = v
    BY <1>7 DEF FatCell, FatValue, FatSteps, c, v
  <2> QED
    BY <1>1, <1>4, <1>6, <1>7, <2>1 DEF CopiesAgree, FirstWritten, OwnCell
<1>8. CASE K = NumFats /\ f'.copy = 1
  BY <1>1, <1>6, <1>8 DEF CopiesAgree, FirstWritten
<1> QED
  BY <1>7, <1>8 DEF K

\* Steps that write no FAT sector begin and end with the first copy.
LEMMA CopiesStay ==
  ASSUME TypeInv, CopiesAgree, FirstWritten, fat' = fat, f.pc \notin FatSteps,
         f'.copy = f.copy \/ f'.copy = 1
  PROVE  CopiesAgree' /\ FirstWritten'
<1>1. f.copy = 1 /\ f'.copy = 1
  BY Locals DEF FirstWritten
<1> QED
  BY <1>1 DEF CopiesAgree, FirstWritten, OwnCell

LEMMA MirrorStep == ASSUME TypeInv, MirrorInv, Next, clean' PROVE MirrorInv'
<1>0. clean /\ ~DeviceFails /\ ~Crash
  BY DEF Next, Call, Create, Write, Mkdir, Remove, RemoveDirectory, Truncate, Rename, Begin,
     Step, Allocate, DiskFull, Mark, ZeroCluster, Link, Undo, InitDirectory, WriteEntry, Walk,
     BrokenChain, WriteData, UpdateEntry, DeleteEntry, FreeLink, Seek, Cut, UpdateSize,
     DeviceFails, Crash, Done, GiveUp
<1>1. CopiesAgree /\ FirstWritten
  BY <1>0 DEF MirrorInv
<1>2. CASE Call
  <2>1. fat' = fat /\ f = Idle
    BY <1>2 DEF Call, Create, Write, Mkdir, Remove, RemoveDirectory, Truncate, Rename, Begin
  <2>2. f'.copy = 1
    BY <1>2, CreateFrame, WriteFrame, MkdirFrame, RemoveFrame, TruncateFrame, RenameFrame DEF Call
  <2> QED
    BY <1>1, <2>1, <2>2, IdleFields, CopiesStay DEF FatSteps, MirrorInv
<1>3. CASE Mark \/ Link \/ Undo \/ FreeLink \/ Cut
  <2>1. f.pc \in FatSteps /\ WriteFat
    BY <1>3 DEF Mark, Link, Undo, FreeLink, Cut, FatStep, FatSteps
  <2>2. \/ /\ f.copy < NumFats /\ f'.copy = f.copy + 1
           /\ f'.pc = f.pc /\ f'.new = f.new /\ f'.cur = f.cur
        \/ f.copy = NumFats /\ f'.copy = 1
    <3>1. f.copy \in 1..NumFats /\ NumFats \in Nat
      BY Locals
    <3>2. CASE Mark
      <4>1. f.pc = "mark"
        BY <3>2 DEF Mark
      <4> QED
        BY <3>1, <3>2, <4>1, MarkFrame DEF Moved
    <3>3. CASE Link
      <4>1. f.pc = "link"
        BY <3>3 DEF Link
      <4> QED
        BY <3>1, <3>3, <4>1, LinkFrame DEF Moved
    <3>4. CASE Undo
      <4>1. f.pc = "undo"
        BY <3>4 DEF Undo
      <4> QED
        BY <3>1, <3>4, <4>1, UndoFrame, IdleFields DEF Moved
    <3>5. CASE FreeLink
      <4>1. f.pc = "free"
        BY <3>5 DEF FreeLink
      <4> QED
        BY <3>1, <3>5, <4>1, FreeFrame, IdleFields DEF Moved
    <3>6. CASE Cut
      <4>1. f.pc = "cut"
        BY <3>6 DEF Cut
      <4> QED
        BY <3>1, <3>6, <4>1, CutFrame, IdleFields DEF Moved
    <3> QED
      BY <1>3, <3>2, <3>3, <3>4, <3>5, <3>6
  <2> QED
    BY <1>1, <2>1, <2>2, CopyWritten DEF MirrorInv
<1>4. CASE \/ Allocate \/ DiskFull \/ ZeroCluster \/ InitDirectory \/ WriteEntry \/ Walk
           \/ BrokenChain \/ WriteData \/ UpdateEntry \/ DeleteEntry \/ Seek \/ UpdateSize
  <2>1. fat' = fat /\ f.pc \notin FatSteps
    BY <1>4
    DEF Allocate, DiskFull, ZeroCluster, InitDirectory, WriteEntry, Walk, BrokenChain,
        WriteData, UpdateEntry, DeleteEntry, Seek, UpdateSize, WriteTable, FatSteps
  <2>2. f'.copy = f.copy \/ f'.copy = 1
    <3>1. CASE DiskFull \/ BrokenChain \/ UpdateEntry \/ UpdateSize
      BY <3>1, IdleFields DEF DiskFull, BrokenChain, UpdateEntry, UpdateSize, Done, GiveUp
    <3>2. CASE Allocate \/ ZeroCluster \/ InitDirectory \/ Walk \/ Seek
      BY <3>2, AllocateFrame, ZeroFrame, InitDirectoryFrame, WalkFrame, SeekFrame DEF Moved
    <3>3. CASE WriteEntry \/ WriteData \/ DeleteEntry
      BY <3>3, WriteEntryFrame, WriteDataFrame, DeleteEntryFrame, IdleFields DEF Moved
    <3> QED
      BY <1>4, <3>1, <3>2, <3>3
  <2> QED
    BY <1>1, <2>1, <2>2, CopiesStay DEF MirrorInv
<1> QED
  BY <1>0, <1>2, <1>3, <1>4 DEF Next, Step

LEMMA TypesHold == Spec => []TypeInv
<1>1. ASSUME TypeInv, UNCHANGED vars PROVE TypeInv'
  BY <1>1 DEF vars, TypeInv, TypeOK, FrameTypes
<1> QED
  BY InitType, TypeStep, <1>1, PTL DEF Spec

(* As long as no operation has stopped half-way, the copies of the FAT are      *)
(* equal between operations, for any number of copies and whatever the entries  *)
(* of a sector are (fat32_write_fat_entry and its callers).                     *)
THEOREM MirrorsStayEqual == Spec => []MirrorsAgree
<1>1. Init => MirrorInv
  BY GeometryAssumption, IdleFields
  DEF Init, MirrorInv, CopiesAgree, FirstWritten
<1>2. TypeInv /\ MirrorInv /\ [Next]_vars => MirrorInv'
  <2>1. ASSUME MirrorInv, UNCHANGED vars PROVE MirrorInv'
    BY <2>1 DEF vars, MirrorInv, CopiesAgree, FirstWritten, OwnCell, FatCell, FatValue
  <2>2. ~clean' => MirrorInv'
    BY DEF MirrorInv
  <2> QED
    BY <2>1, <2>2, MirrorStep
<1>3. TypeInv /\ MirrorInv => MirrorsAgree
  <2> SUFFICES ASSUME TypeInv, MirrorInv, clean, f = Idle, NEW k \in 1..NumFats
               PROVE  fat[k] = fat[1]
    BY DEF MirrorsAgree
  <2>1. fat[k] \in [Cluster -> Cluster \cup {FREE, EOC}]
        /\ fat[1] \in [Cluster -> Cluster \cup {FREE, EOC}]
    BY Locals DEF TypeInv, TypeOK
  <2>2. \A x \in Cluster : fat[k][x] = fat[1][x]
    BY IdleFields DEF MirrorInv, CopiesAgree, OwnCell
  <2> QED
    BY <2>1, <2>2
<1> QED
  BY <1>1, <1>2, <1>3, TypesHold, PTL DEF Spec

-----------------------------------------------------------------------------
(* The file a rename moves *)

\* Until the source is deleted it is the file the rename looked up, and once the
\* new entry is written that is an entry of the same file.
SameFile(e) == e.kind = "file" /\ e.cluster = f.first /\ e.size = f.size
Moving == f.op = "rename" =>
  /\ f.pc \in {"entry", "delete"}
  /\ <<f.dir, f.slot>> # <<f.sdir, f.sslot>>
  /\ SameFile(table[f.sdir][f.sslot])
  /\ f.pc = "entry" => SlotFree(table[f.dir][f.slot])
  /\ f.pc = "delete" => SameFile(table[f.dir][f.slot])

\* Which operation is in progress only changes where one begins or ends.
LEMMA OperationStays ==
  ASSUME TypeInv, Step \/ DeviceFails \/ Crash
  PROVE  f'.op = f.op \/ f' = Idle
<1>1. CASE DiskFull \/ BrokenChain \/ UpdateEntry \/ UpdateSize \/ Crash
  BY <1>1 DEF DiskFull, BrokenChain, UpdateEntry, UpdateSize, Crash, Done, GiveUp
<1>2. CASE Allocate \/ ZeroCluster \/ InitDirectory \/ Walk \/ Seek
  BY <1>2, AllocateFrame, ZeroFrame, InitDirectoryFrame, WalkFrame, SeekFrame DEF Moved
<1>3. CASE WriteEntry \/ WriteData \/ DeleteEntry
  BY <1>3, WriteEntryFrame, WriteDataFrame, DeleteEntryFrame DEF Moved
<1>4. CASE Mark \/ Link \/ Undo
  BY <1>4, MarkFrame, LinkFrame, UndoFrame DEF Moved
<1>5. CASE FreeLink \/ Cut
  BY <1>5, FreeFrame, CutFrame DEF Moved
<1>6. CASE DeviceFails
  BY <1>6, DeviceFailsFrame DEF Moved
<1> QED
  BY <1>1, <1>2, <1>3, <1>4, <1>5, <1>6 DEF Step

LEMMA RenameBegins == ASSUME TypeInv, Rename PROVE Moving'
<1>1. PICK sd \in Parents, d \in Parents, sn \in Name, n \in Name, ss \in Slot, s \in Slot :
        /\ ss \in Found(sd, sn) /\ s \in FirstFreeSlot(d)
        /\ table[sd][ss].kind = "file" /\ f' = RenameFrom(sd, ss, d, n, s)
  BY FoundInSlot, FirstFreeInSlot DEF Rename
<1>2. /\ f'.op = "rename" /\ f'.pc = "entry" /\ f'.dir = d /\ f'.slot = s
      /\ f'.sdir = sd /\ f'.sslot = ss
      /\ f'.first = table[sd][ss].cluster /\ f'.size = table[sd][ss].size
  BY <1>1 DEF RenameFrom, Idle
<1>3. table' = table
  BY DEF Rename, Begin
<1>4. SlotFree(table[d][s])
  BY <1>1 DEF FirstFreeSlot
<1>5. <<d, s>> # <<sd, ss>>
  BY <1>1, <1>4 DEF SlotFree
<1> QED
  BY <1>1, <1>2, <1>3, <1>4, <1>5 DEF Moving, SameFile

\* The two writes of a rename: what they leave of the tables.
LEMMA RenameWrites ==
  ASSUME TypeInv, Moving, f.op = "rename", DeviceWrite
  PROVE  /\ f.pc = "entry" =>
              /\ SameFile(table'[f.dir][f.slot])
              /\ \A d \in Cluster, s \in Slot :
                    <<d, s>> # <<f.dir, f.slot>> => table'[d][s] = table[d][s]
         /\ f.pc = "delete" =>
              \A d \in Cluster, s \in Slot :
                    <<d, s>> # <<f.sdir, f.sslot>> => table'[d][s] = table[d][s]
<1>1. /\ f.pc \in {"entry", "delete"} /\ f.dir \in Cluster /\ f.sdir \in Cluster
      /\ f.slot \in Slot /\ f.sslot \in Slot
      /\ table \in [Cluster -> [Slot -> Entry]] /\ table' = TableAfter
  BY Locals DEF Moving, TypeInv, FrameTypes, DeviceWrite, FatSteps, WriteTable
<1>2. CASE f.pc = "entry"
  <2>1. table' = [table EXCEPT ![f.dir][f.slot] = NewEntry]
    BY <1>1, <1>2 DEF TableAfter
  <2>2. SameFile(NewEntry)
    BY DEF NewEntry, SameFile
  <2>3. table'[f.dir][f.slot] = NewEntry
    BY <1>1, <2>1
  <2>4. ASSUME NEW d \in Cluster, NEW s \in Slot, <<d, s>> # <<f.dir, f.slot>>
        PROVE  table'[d][s] = table[d][s]
    BY <1>1, <2>1, <2>4
  <2> QED
    BY <1>2, <2>2, <2>3, <2>4
<1>3. CASE f.pc = "delete"
  <2>1. table' = [table EXCEPT ![f.sdir][f.sslot] = DeletedEntry]
    BY <1>1, <1>3 DEF TableAfter, DeletedSlot
  <2>2. ASSUME NEW d \in Cluster, NEW s \in Slot, <<d, s>> # <<f.sdir, f.sslot>>
        PROVE  table'[d][s] = table[d][s]
    BY <1>1, <2>1, <2>2
  <2> QED
    BY <1>3, <2>2
<1> QED
  BY <1>1, <1>2, <1>3

\* While a rename is in progress, its steps write the device or change no table.
LEMMA RenameSteps ==
  ASSUME TypeInv, Moving, f.op = "rename", Next
  PROVE  /\ table' = table \/ DeviceWrite
         /\ f' = Idle \/ (WriteEntry /\ f.pc = "entry")
<1>1. f # Idle /\ f.pc \in {"entry", "delete"}
  BY IdleFields DEF Moving
<1>2. ~Call
  BY <1>1 DEF Call, Create, Write, Mkdir, Remove, RemoveDirectory, Truncate, Rename, Begin
<1>3. WriteEntry \/ DeleteEntry \/ DeviceFails \/ Crash
  BY <1>1, <1>2
  DEF Next, Step, Allocate, DiskFull, Mark, ZeroCluster, Link, Undo, InitDirectory, Walk,
      BrokenChain, WriteData, UpdateEntry, FreeLink, Seek, Cut, UpdateSize
<1>4. CASE WriteEntry
  BY <1>4 DEF WriteEntry, DeviceWrite, TableSteps
<1>5. CASE DeleteEntry
  <2>1. f' = Idle
    BY <1>5, DeleteEntryFrame
  <2> QED
    BY <1>5, <2>1 DEF DeleteEntry, DeviceWrite, TableSteps
<1>6. CASE DeviceFails
  BY <1>1, <1>6 DEF DeviceFails, RollsBack
<1>7. CASE Crash
  BY <1>7 DEF Crash, GiveUp
<1> QED
  BY <1>3, <1>4, <1>5, <1>6, <1>7

LEMMA MovingStep == ASSUME TypeInv, Moving, Next PROVE Moving'
<1>1. CASE Rename
  BY <1>1, RenameBegins
<1>2. CASE Call /\ ~Rename
  <2>1. f'.op # "rename"
    BY <1>2, CreateFrame, WriteFrame, MkdirFrame, RemoveFrame, TruncateFrame DEF Call
  <2> QED
    BY <2>1 DEF Moving
<1>3. CASE f.op # "rename" /\ (Step \/ DeviceFails \/ Crash)
  <2>1. f'.op # "rename"
    BY <1>3, OperationStays, IdleFields
  <2> QED
    BY <2>1 DEF Moving
<1>4. CASE f.op = "rename"
  <2>1. CASE f' = Idle
    BY <2>1, IdleFields DEF Moving
  <2>2. CASE WriteEntry /\ f.pc = "entry"
    <3>1. /\ f'.pc = "delete" /\ f'.dir = f.dir /\ f'.slot = f.slot /\ f'.sdir = f.sdir
          /\ f'.sslot = f.sslot /\ f'.first = f.first /\ f'.size = f.size
      BY <1>4, <2>2, WriteEntryFrame DEF Moved
    <3>2. DeviceWrite
      BY <2>2 DEF WriteEntry, DeviceWrite, TableSteps
    <3>3. f.sdir \in Cluster /\ f.sslot \in Slot
      BY <1>4, Locals DEF TypeInv, FrameTypes
    <3>4. <<f.sdir, f.sslot>> # <<f.dir, f.slot>>
      BY <1>4 DEF Moving
    <3>5. /\ SameFile(table'[f.dir][f.slot])
          /\ table'[f.sdir][f.sslot] = table[f.sdir][f.sslot]
      BY <1>4, <2>2, <3>2, <3>3, <3>4, RenameWrites
    <3> QED
      BY <1>4, <3>1, <3>4, <3>5 DEF Moving, SameFile
  <2> QED
    BY <1>4, <2>1, <2>2, RenameSteps
<1> QED
  BY <1>1, <1>2, <1>3, <1>4 DEF Next

(* A rename never leaves the file it moves, or any other, without an entry of   *)
(* its first cluster and size: not when the device fails, whether or not the    *)
(* sector was written, nor when the machine stops (the order of the writes in   *)
(* fat32_rename_file).                                                          *)
THEOREM RenameNeverLoses == Spec => RenameKeepsFile
<1> DEFINE A(e) == \E g \in Cluster \X Slot :
             /\ Live(At(g)') /\ At(g)'.kind = At(e).kind
             /\ At(g)'.cluster = At(e).cluster /\ At(g)'.size = At(e).size
           Kept == f.op = "rename" => \A e \in LiveSlots : A(e)
<1>1. Init => Moving
  BY IdleFields DEF Init, Moving
<1>2. TypeInv /\ Moving /\ [Next]_vars => Moving'
  <2>1. ASSUME Moving, UNCHANGED vars PROVE Moving'
    BY <2>1 DEF vars, Moving, SameFile
  <2> QED
    BY <2>1, MovingStep
<1>3. TypeInv /\ Moving /\ [Next]_vars => [Kept]_vars
  <2> SUFFICES ASSUME TypeInv, Moving, Next, f.op = "rename", NEW e \in LiveSlots
               PROVE  A(e)
    OBVIOUS
  <2>1. PICK d \in Cluster, s \in Slot : e = <<d, s>> /\ Live(table[d][s])
    BY DEF LiveSlots
  <2>2. CASE table'[d][s] = table[d][s]
    BY <2>1, <2>2 DEF At
  <2>3. CASE table'[d][s] # table[d][s]
    <3>1. DeviceWrite
      BY <2>3, RenameSteps
    <3>2. f.pc = "delete" /\ <<d, s>> = <<f.sdir, f.sslot>>
      <4>1. ~(f.pc = "entry" /\ <<d, s>> = <<f.dir, f.slot>>)
        BY <2>1 DEF Moving, Live, SlotFree
      <4> QED
        BY <2>1, <2>3, <3>1, <4>1, RenameWrites DEF Moving
    <3>3. f.dir \in Cluster /\ f.slot \in Slot
      BY <3>2, Locals DEF TypeInv, FrameTypes
    <3>4. <<f.dir, f.slot>> # <<f.sdir, f.sslot>>
      BY DEF Moving
    <3>5. table'[f.dir][f.slot] = table[f.dir][f.slot]
      BY <3>1, <3>2, <3>3, <3>4, RenameWrites
    <3>6. SameFile(table[f.dir][f.slot]) /\ SameFile(table[d][s])
      BY <3>2 DEF Moving
    <3>7. PICK g \in Cluster \X Slot : g = <<f.dir, f.slot>>
      BY <3>3
    <3>8. At(g)' = table[f.dir][f.slot] /\ At(e) = table[d][s]
      BY <2>1, <3>5, <3>7 DEF At
    <3> QED
      BY <3>6, <3>7, <3>8 DEF SameFile, Live
  <2> QED
    BY <2>2, <2>3
<1>4. Spec => [][Kept]_vars
  BY <1>1, <1>2, <1>3, TypesHold, PTL DEF Spec
<1> QED
  BY <1>4 DEF RenameKeepsFile

-----------------------------------------------------------------------------
(* Directory tables *)

Named(d, s, n) == Live(table[d][s]) /\ table[d][s].name = n
UniqueNames == \A d \in Cluster, s, t \in Slot, n \in Name \cup {NoName} :
                  Named(d, s, n) /\ Named(d, t, n) => s = t

\* An operation that is going to enter a name, and its directory has no such entry.
WillEnter == \/ f.op \in {"create", "mkdir"} /\ f.pc # "undo"
             \/ f.op = "rename" /\ f.pc = "entry"
Entering == WillEnter => \A s \in Slot : ~Named(f.dir, s, f.name)

\* Every set of naturals has a least element.
LEMMA Least ==
  ASSUME NEW T \in SUBSET Nat, T # {}
  PROVE  \E x \in T : \A y \in T : ~(y < x)
<1> DEFINE R == OpToRel(<, Nat)
<1>1. IsWellFoundedOn(R, Nat)
  BY NatLessThanWellFounded
<1>2. \A x, y \in Nat : y < x => <<y, x>> \in R
  BY DEF OpToRel
<1> HIDE DEF R
<1>3. PICK x \in T : \A y \in T : ~(<<y, x>> \in R)
  BY <1>1, WFMin
<1> QED
  BY <1>2, <1>3

\* With its 0x00 entries last, a table in which a scan does not find a name has
\* no entry of that name.
LEMMA AbsentIsAbsent ==
  ASSUME TypeInv, EndsLast, NEW d \in Cluster, NEW n, Absent(d, n), NEW s \in Slot
  PROVE  ~Named(d, s, n)
<1> SUFFICES ASSUME Named(d, s, n) PROVE FALSE
  OBVIOUS
<1> DEFINE T == {t \in Slot : Named(d, t, n)}
<1>1. Slot \subseteq Nat /\ T \subseteq Nat /\ T # {}
  BY GeometryAssumption DEF Slot
<1>2. PICK t \in T : \A u \in T : ~(u < t)
  BY <1>1, Least
<1>3. t \in Slot /\ t \in Nat /\ Named(d, t, n)
  BY <1>1, <1>2
<1>4. \A u \in 0..(t - 1) : u \in Slot /\ u < t
  BY <1>3, GeometryAssumption DEF Slot
<1>5. ScanReaches(d, t)
  <2>1. table[d][t].kind # "end"
    BY <1>3 DEF Named, Live
  <2> QED
    BY <1>3, <1>4, <2>1 DEF ScanReaches, EndsLast
<1>6. \A u \in 0..(t - 1) : ~Named(d, u, n)
  BY <1>2, <1>4
<1>7. t \in Found(d, n)
  BY <1>3, <1>5, <1>6 DEF Found, Named
<1> QED
  BY <1>7 DEF Absent

LEMMA EnteringBegins ==
  ASSUME TypeInv, EndsLast, Call
  PROVE  table' = table /\ Entering'
<1>1. table' = table
  BY DEF Call, Create, Write, Mkdir, Remove, RemoveDirectory, Truncate, Rename, Begin
<1>2. CASE Create \/ Mkdir \/ Rename
  <2>1. PICK d \in Parents, n \in Name : Absent(d, n) /\ f'.dir = d /\ f'.name = n
    <3>1. CASE Create
      BY <3>1 DEF Create, Idle
    <3>2. CASE Mkdir
      BY <3>2 DEF Mkdir, Idle
    <3>3. CASE Rename
      BY <3>3 DEF Rename, RenameFrom, Idle
    <3> QED
      BY <1>2, <3>1, <3>2, <3>3
  <2>2. \A s \in Slot : ~Named(d, s, n)
    BY <2>1, ParentsInCluster, AbsentIsAbsent
  <2> QED
    BY <1>1, <2>1, <2>2 DEF Entering, Named
<1>3. CASE ~(Create \/ Mkdir \/ Rename)
  <2>1. f'.op \notin {"create", "mkdir", "rename"}
    BY <1>3, WriteFrame, RemoveFrame, TruncateFrame DEF Call
  <2> QED
    BY <1>1, <2>1 DEF Entering, WillEnter
<1> QED
  BY <1>1, <1>2, <1>3

\* Within an operation the name and its directory stay, and once the entry is
\* written or the operation rolls back, none is going to be entered.
LEMMA EnteringStays ==
  ASSUME TypeInv, Step \/ DeviceFails \/ Crash, WillEnter'
  PROVE  WillEnter /\ f'.dir = f.dir /\ f'.name = f.name /\ ~(f.pc = "entry" /\ table' # table)
<1>0. f' # Idle /\ f'.op \in {"create", "mkdir", "rename"}
  BY IdleFields DEF WillEnter
<1>1. CASE DiskFull \/ BrokenChain \/ UpdateEntry \/ UpdateSize \/ Crash
  BY <1>0, <1>1 DEF DiskFull, BrokenChain, UpdateEntry, UpdateSize, Crash, Done, GiveUp
<1>2. CASE Allocate \/ ZeroCluster \/ InitDirectory \/ Walk \/ Seek
  <2>1. f.pc \in {"alloc", "zero", "initdir", "walk", "seek"}
    BY <1>2 DEF Allocate, ZeroCluster, InitDirectory, Walk, Seek
  <2>2. f'.op = f.op /\ f'.dir = f.dir /\ f'.name = f.name /\ (f.op = "rename" => f'.pc # "entry")
    BY <1>2, <2>1, AllocateFrame, ZeroFrame, InitDirectoryFrame, WalkFrame, SeekFrame
    DEF Moved, InitDirectory, TypeInv, FrameTypes
  <2> QED
    BY <2>1, <2>2 DEF WillEnter
<1>3. CASE WriteEntry \/ WriteData \/ DeleteEntry
  <2>1. CASE WriteEntry
    <3>1. f'.op = f.op /\ f.op = "rename" /\ f'.pc = "delete"
      BY <1>0, <2>1, WriteEntryFrame DEF Moved
    <3> QED
      BY <3>1 DEF WillEnter
  <2>2. CASE WriteData
    <3>1. f.op = "write"
      BY <2>2 DEF WriteData, TypeInv, FrameTypes
    <3> QED
      BY <1>0, <2>2, <3>1, WriteDataFrame DEF Moved
  <2>3. CASE DeleteEntry
    <3>1. f.op \in {"rename", "remove", "rmdir"}
      BY <2>3 DEF DeleteEntry, TypeInv, FrameTypes
    <3> QED
      BY <1>0, <2>3, <3>1, DeleteEntryFrame DEF Moved
  <2> QED
    BY <1>3, <2>1, <2>2, <2>3
<1>4. CASE Mark \/ Link \/ Undo
  BY <1>0, <1>4, MarkFrame, LinkFrame, UndoFrame DEF WillEnter, Moved, Mark, Link, Undo
<1>5. CASE FreeLink \/ Cut
  BY <1>0, <1>5, FreeFrame, CutFrame DEF WillEnter, Moved, FreeLink, Cut
<1>6. CASE DeviceFails
  BY <1>0, <1>6, DeviceFailsFrame DEF WillEnter, Moved
<1> QED
  BY <1>1, <1>2, <1>3, <1>4, <1>5, <1>6 DEF Step

\* A write other than that of a new entry makes nothing live and renames nothing.
LEMMA OtherWrites ==
  ASSUME TypeInv, WriteTable, f.pc \in TableSteps \ {"entry"},
         NEW d \in Cluster, NEW s \in Slot, NEW n, Named(d, s, n)'
  PROVE  Named(d, s, n)
<1>1. table \in [Cluster -> [Slot -> Entry]] /\ table' = TableAfter
  BY Locals DEF WriteTable
<1>2. CASE f.pc = "zero"
  BY <1>1, <1>2, Kinds DEF TableAfter, Zeroed, Named
<1>3. CASE f.pc = "initdir"
  <2>1. table' = [table EXCEPT ![f.new] = Dots(f.new, f.dir)]
    BY <1>1, <1>3 DEF TableAfter
  <2>2. CASE d = f.new
    BY <1>1, <2>1, <2>2, Kinds DEF Dots, Unnamed, Live, Named
  <2>3. CASE d # f.new
    BY <1>1, <2>1, <2>3 DEF Named
  <2> QED
    BY <2>2, <2>3
<1>4. CASE f.pc = "data"
  <2>1. table' = [table EXCEPT ![f.cur] = FileBytes]
    BY <1>1, <1>4 DEF TableAfter
  <2>2. ~Live(FileBytes[s])
    BY DEF FileBytes, Unnamed, Live
  <2> QED
    BY <1>1, <2>1, <2>2 DEF Named
<1>5. CASE f.pc = "update"
  <2>1. table' = [table EXCEPT ![f.dir][f.slot] =
                                 [@ EXCEPT !.cluster = f.first, !.size = f.size]]
    BY <1>1, <1>5 DEF TableAfter
  <2>2. /\ table'[d][s].kind = table[d][s].kind
        /\ table'[d][s].name = table[d][s].name
    BY <1>1, <2>1 DEF Entry
  <2> QED
    BY <2>2 DEF Named, Live
<1>6. CASE f.pc = "size"
  <2>1. table' = [table EXCEPT ![f.dir][f.slot] = [@ EXCEPT !.size = f.size]]
    BY <1>1, <1>6 DEF TableAfter
  <2>2. /\ table'[d][s].kind = table[d][s].kind
        /\ table'[d][s].name = table[d][s].name
    BY <1>1, <2>1 DEF Entry
  <2> QED
    BY <2>2 DEF Named, Live
<1>7. CASE f.pc = "delete"
  <2>1. table' = [table EXCEPT ![DeletedSlot[1]][DeletedSlot[2]] = DeletedEntry]
    BY <1>1, <1>7 DEF TableAfter
  <2>2. ~Live(DeletedEntry)
    BY DEF DeletedEntry, Unnamed, Live
  <2>3. table'[d][s] = table[d][s] \/ table'[d][s] = DeletedEntry
    BY <1>1, <2>1
  <2> QED
    BY <2>2, <2>3 DEF Named
<1> QED
  BY <1>2, <1>3, <1>4, <1>5, <1>6, <1>7 DEF TableSteps

\* The write of a new entry adds one name, which its directory did not have.
LEMMA EntryNames ==
  ASSUME TypeInv, UniqueNames, Entering, WriteTable, f.pc = "entry"
  PROVE  UniqueNames'
<1>1. /\ f.dir \in Cluster /\ f.slot \in Slot /\ WillEnter
      /\ table \in [Cluster -> [Slot -> Entry]]
      /\ table' = [table EXCEPT ![f.dir][f.slot] = NewEntry]
  BY Locals DEF TypeInv, FrameTypes, WillEnter, WriteTable, TableAfter
<1>2. NewEntry.name = f.name
  BY DEF NewEntry
<1>3. \A d \in Cluster, s \in Slot :
        table'[d][s] = IF d = f.dir /\ s = f.slot THEN NewEntry ELSE table[d][s]
  BY <1>1
<1>4. \A s \in Slot : ~Named(f.dir, s, f.name)
  BY <1>1 DEF Entering
<1> QED
  BY <1>2, <1>3, <1>4 DEF UniqueNames, Named

\* Every step leaves the tables alone or is one write of them.
LEMMA TableWrites ==
  ASSUME TypeInv, Step \/ DeviceFails \/ Crash
  PROVE  table' = table \/ (WriteTable /\ f.pc \in TableSteps)
<1>1. CASE \/ Allocate \/ DiskFull \/ Mark \/ Link \/ Undo \/ Walk \/ BrokenChain
           \/ FreeLink \/ Seek \/ Cut
  BY <1>1 DEF Allocate, DiskFull, Mark, Link, Undo, FatStep, WriteFat, Walk, BrokenChain,
     FreeLink, Seek, Cut
<1>2. CASE \/ ZeroCluster \/ InitDirectory \/ WriteEntry \/ WriteData \/ UpdateEntry
           \/ DeleteEntry \/ UpdateSize
  BY <1>2 DEF ZeroCluster, InitDirectory, WriteEntry, WriteData, UpdateEntry, DeleteEntry,
     UpdateSize, TableSteps
<1>3. CASE DeviceFails \/ Crash
  BY <1>3 DEF DeviceFails, Crash, DeviceWrite, WriteFat
<1> QED
  BY <1>1, <1>2, <1>3 DEF Step

NamesInv == UniqueNames /\ Entering

LEMMA NamesStep == ASSUME TypeInv, EndsLast, NamesInv, Next PROVE NamesInv'
<1>1. CASE Call
  <2>1. table' = table /\ Entering'
    BY <1>1, EnteringBegins
  <2> QED
    BY <2>1 DEF NamesInv, UniqueNames, Named
<1>2. CASE Step \/ DeviceFails \/ Crash
  <2>1. CASE table' = table
    <3>1. UniqueNames'
      BY <2>1 DEF NamesInv, UniqueNames, Named
    <3>2. ASSUME WillEnter' PROVE \A s \in Slot : ~Named(f.dir, s, f.name)'
      <4>1. WillEnter /\ f'.dir = f.dir /\ f'.name = f.name
        BY <1>2, <3>2, EnteringStays
      <4> QED
        BY <2>1, <4>1 DEF NamesInv, Entering, Named
    <3> QED
      BY <3>1, <3>2 DEF NamesInv, Entering
  <2>2. CASE table' # table /\ f.pc = "entry"
    <3>1. WriteTable
      BY <1>2, <2>2, TableWrites
    <3>2. UniqueNames'
      BY <2>2, <3>1, EntryNames DEF NamesInv
    <3>3. ~WillEnter'
      BY <1>2, <2>2, EnteringStays
    <3> QED
      BY <3>2, <3>3 DEF NamesInv, Entering
  <2>3. CASE WriteTable /\ f.pc \in TableSteps \ {"entry"}
    <3>1. \A d \in Cluster, s \in Slot, n \in Name \cup {NoName} :
            Named(d, s, n)' => Named(d, s, n)
      BY <2>3, OtherWrites
    <3>2. UniqueNames'
      BY <3>1 DEF NamesInv, UniqueNames
    <3>3. ASSUME WillEnter' PROVE \A s \in Slot : ~Named(f.dir, s, f.name)'
      <4>1. WillEnter /\ f'.dir = f.dir /\ f'.name = f.name
        BY <1>2, <3>3, EnteringStays
      <4>2. f.dir \in Cluster /\ f.name \in Name \cup {NoName}
        <5>1. f.pc # "idle"
          BY <4>1, IdleFields DEF TypeInv, FrameTypes, WillEnter
        <5> QED
          BY <5>1, Locals DEF TypeInv, FrameTypes, Frame
      <4>3. PICK d \in Cluster, n \in Name \cup {NoName} : d = f.dir /\ n = f.name
        BY <4>2
      <4>4. \A s \in Slot : ~Named(d, s, n)
        BY <4>1, <4>3 DEF NamesInv, Entering
      <4>5. \A s \in Slot : ~Named(d, s, n)'
        BY <3>1, <4>4
      <4> QED
        BY <4>1, <4>3, <4>5 DEF Named
    <3> QED
      BY <3>2, <3>3 DEF NamesInv, Entering
  <2> QED
    BY <1>2, <2>1, <2>2, <2>3, TableWrites
<1> QED
  BY <1>1, <1>2 DEF Next

-----------------------------------------------------------------------------
(* The 0x00 entries, whatever fails *)

FilesOnly == "mkdir" \notin Ops

\* What the slots in hand are until they are written.
SlotsInv ==
  /\ f.pc = "entry" => EntersFree(table, f)
  /\ f.pc = "delete" /\ f.op # "rename" => Live(Subject(table, f))

\* The slot of a new entry, and the entry to be removed, are written first of all.
LEMMA SlotsWrittenFirst ==
  ASSUME TypeInv, FilesOnly, Step \/ DeviceFails \/ Crash
  PROVE  f'.pc # "entry" /\ (f'.pc = "delete" => f'.op = "rename")
<1>0. f.op # "mkdir"
  BY Locals DEF FilesOnly, TypeInv, Frame
<1>1. CASE DiskFull \/ BrokenChain \/ UpdateEntry \/ UpdateSize \/ Crash
  BY <1>1, IdleFields DEF DiskFull, BrokenChain, UpdateEntry, UpdateSize, Crash, Done, GiveUp
<1>2. CASE Allocate \/ ZeroCluster \/ Walk \/ Seek
  BY <1>0, <1>2, AllocateFrame, ZeroFrame, WalkFrame, SeekFrame DEF Moved
<1>3. CASE InitDirectory
  BY <1>0, <1>3 DEF InitDirectory, TypeInv, FrameTypes
<1>4. CASE WriteEntry \/ WriteData \/ DeleteEntry
  BY <1>4, IdleFields, WriteEntryFrame, WriteDataFrame, DeleteEntryFrame DEF Moved
<1>5. CASE Mark \/ Link \/ Undo
  BY <1>5, IdleFields, MarkFrame, LinkFrame, UndoFrame DEF Moved, Mark, Link, Undo
<1>6. CASE FreeLink \/ Cut
  BY <1>6, IdleFields, FreeFrame, CutFrame DEF Moved, FreeLink, Cut
<1>7. CASE DeviceFails
  BY <1>7, IdleFields, DeviceFailsFrame DEF Moved
<1> QED
  BY <1>1, <1>2, <1>3, <1>4, <1>5, <1>6, <1>7 DEF Step

LEMMA SlotsBegin == ASSUME TypeInv, Call PROVE SlotsInv'
<1>1. table' = table
  BY DEF Call, Create, Write, Mkdir, Remove, RemoveDirectory, Truncate, Rename, Begin
<1>2. CASE Create \/ Rename
  <2>1. PICK d \in Parents, s \in Slot :
           s \in FirstFreeSlot(d) /\ f'.dir = d /\ f'.slot = s /\ f'.pc = "entry"
    <3>1. CASE Create
      BY <3>1, FirstFreeInSlot DEF Create, Idle
    <3>2. CASE Rename
      BY <3>2, FirstFreeInSlot DEF Rename, RenameFrom, Idle
    <3> QED
      BY <1>2, <3>1, <3>2
  <2>2. EntersFree(table', f')
    BY <1>1, <2>1 DEF EntersFree, Subject, FirstFreeSlot
  <2> QED
    BY <2>1, <2>2 DEF SlotsInv
<1>3. CASE Remove \/ RemoveDirectory
  <2>1. PICK d \in Parents, s \in Slot :
           /\ f'.dir = d /\ f'.slot = s /\ f'.pc = "delete"
           /\ table[d][s].kind \in {"file", "dir"}
    <3>1. CASE Remove
      BY <3>1, FoundInSlot DEF Remove, Idle
    <3>2. CASE RemoveDirectory
      BY <3>2, FoundInSlot DEF RemoveDirectory, Idle
    <3> QED
      BY <1>3, <3>1, <3>2
  <2>2. Live(Subject(table', f'))
    BY <1>1, <2>1 DEF Subject, Live
  <2> QED
    BY <2>1, <2>2 DEF SlotsInv
<1>4. CASE Write \/ Mkdir \/ Truncate
  BY <1>4, WriteFrame, MkdirFrame, TruncateFrame DEF SlotsInv
<1> QED
  BY <1>2, <1>3, <1>4 DEF Call

LEMMA SlotsStep == ASSUME TypeInv, FilesOnly, SlotsInv, Next PROVE SlotsInv'
<1>1. CASE Call
  BY <1>1, SlotsBegin
<1>2. CASE Step \/ DeviceFails \/ Crash
  BY <1>2, SlotsWrittenFirst DEF SlotsInv
<1> QED
  BY <1>1, <1>2 DEF Next

\* An entry is written at the first free slot, or where there is one.
LEMMA EndsAfterEntry ==
  ASSUME table \in [Cluster -> [Slot -> Entry]], EndsLast, NEW d \in Cluster, NEW s \in Slot, NEW e,
         table' = [table EXCEPT ![d][s] = e], e.kind # "end" \/ table[d][s].kind = "end",
         \/ table[d][s].kind # "end"
         \/ \A t \in 0..(s - 1) : table[d][t].kind # "end"
         \/ e.kind = "end"
  PROVE  EndsLast'
<1>1. \A x \in Cluster, y \in Slot : table'[x][y] = IF x = d /\ y = s THEN e ELSE table[x][y]
  OBVIOUS
<1> SUFFICES ASSUME NEW x \in Cluster, NEW y \in Slot, NEW z \in Slot, y < z,
                    table'[x][y].kind = "end"
             PROVE  table'[x][z].kind = "end"
  BY DEF EndsLast
<1>2. table[x][y].kind = "end"
  BY <1>1
<1>3. table[x][z].kind = "end"
  BY <1>2 DEF EndsLast
<1>4. CASE x = d /\ z = s
  <2>1. y \in 0..(s - 1)
    BY <1>4, GeometryAssumption DEF Slot
  <2> QED
    BY <1>1, <1>2, <1>3, <1>4, <2>1
<1> QED
  BY <1>1, <1>3, <1>4

LEMMA EndsLastStep ==
  ASSUME TypeInv, FilesOnly, SlotsInv, Moving, EndsLast, Next
  PROVE  EndsLast'
<1>0. table \in [Cluster -> [Slot -> Entry]] /\ f.op # "mkdir"
  BY Locals DEF FilesOnly, TypeInv, Frame
<1>1. CASE table' = table
  BY <1>1 DEF EndsLast
<1>2. CASE Call
  <2>1. table' = table
    BY <1>2 DEF Call, Create, Write, Mkdir, Remove, RemoveDirectory, Truncate, Rename, Begin
  <2> QED
    BY <1>1, <2>1
<1>3. CASE WriteTable /\ f.pc \in TableSteps
  <2>0. table' = TableAfter /\ f.dir \in Cluster /\ f.slot \in Slot /\ f.pc # "initdir"
    BY <1>0, <1>3, Locals DEF WriteTable, TypeInv, FrameTypes, TableSteps
  <2>1. CASE f.pc \in {"zero", "data"}
    <3>1. PICK c \in Cluster, k \in {Zeroed, FileBytes} : table' = [table EXCEPT ![c] = k]
      BY <2>0, <2>1 DEF TableAfter, TypeInv, FrameTypes
    <3>2. \A y \in Slot, z \in Slot : k[y].kind = k[z].kind
      BY <3>1 DEF Zeroed, FileBytes, EndEntry, Unnamed
    <3>3. \A x \in Cluster : table'[x] = IF x = c THEN k ELSE table[x]
      BY <1>0, <3>1
    <3> QED
      BY <3>2, <3>3 DEF EndsLast
  <2>2. CASE f.pc = "entry"
    <3>1. table' = [table EXCEPT ![f.dir][f.slot] = NewEntry] /\ NewEntry.kind # "end"
      BY <2>0, <2>2 DEF TableAfter, NewEntry
    <3>2. \A t \in 0..(f.slot - 1) : table[f.dir][t].kind # "end"
      BY <2>2 DEF SlotsInv, EntersFree, SlotFree
    <3> HIDE DEF NewEntry
    <3> QED
      BY <1>0, <2>0, <3>1, <3>2, EndsAfterEntry
  <2>3. CASE f.pc \in {"update", "size"}
    <3>1. PICK d \in Cluster, s \in Slot : d = f.dir /\ s = f.slot
      BY <2>0
    <3>2. \E e : table' = [table EXCEPT ![d][s] = e] /\ e.kind = table[d][s].kind
      <4>1. PICK x \in Entry : x = table[d][s]
        BY <1>0, <3>1
      <4>2. /\ [x EXCEPT !.size = f.size].kind = x.kind
            /\ [x EXCEPT !.cluster = f.first, !.size = f.size].kind = x.kind
        BY DEF Entry
      <4> QED
        BY <1>0, <2>0, <2>3, <3>1, <4>1, <4>2 DEF TableAfter
    <3>3. PICK e : table' = [table EXCEPT ![d][s] = e] /\ e.kind = table[d][s].kind
      BY <3>2
    <3>4. /\ e.kind # "end" \/ table[d][s].kind = "end"
          /\ table[d][s].kind # "end" \/ e.kind = "end"
      BY <3>3
    <3> QED
      BY <1>0, <3>3, <3>4, EndsAfterEntry
  <2>4. CASE f.pc = "delete"
    <3>1. PICK d \in Cluster, s \in Slot :
             table' = [table EXCEPT ![d][s] = DeletedEntry] /\ Live(table[d][s])
      <4>1. CASE f.op = "rename"
        <5>1. f.sdir \in Cluster /\ f.sslot \in Slot /\ Live(table[f.sdir][f.sslot])
          BY <4>1, Locals DEF TypeInv, FrameTypes, Moving, SameFile, Live
        <5> QED
          BY <2>0, <2>4, <4>1, <5>1 DEF TableAfter, DeletedSlot
      <4>2. CASE f.op # "rename"
        BY <2>0, <2>4, <4>2 DEF TableAfter, DeletedSlot, SlotsInv, Subject
      <4> QED
        BY <4>1, <4>2
    <3>2. DeletedEntry.kind # "end" /\ table[d][s].kind # "end"
      BY <3>1 DEF DeletedEntry, Unnamed, Live
    <3> HIDE DEF DeletedEntry
    <3> QED
      BY <1>0, <3>1, <3>2, EndsAfterEntry
  <2> QED
    BY <1>3, <2>0, <2>1, <2>2, <2>3, <2>4 DEF TableSteps
<1> QED
  BY <1>1, <1>2, <1>3, TableWrites DEF Next

\* In every table the 0x00 entries come last: under Tame as part of IInv, and
\* without mkdir whatever else fails.
LEMMA EndsHold == Tame \/ FilesOnly => (Spec => []EndsLast)
<1>1. CASE Tame
  <2>1. IInv => EndsLast
    BY DEF IInv
  <2> QED
    BY <1>1, <2>1, InvariantHolds, PTL
<1>2. CASE FilesOnly
  <2> DEFINE J == SlotsInv /\ Moving /\ EndsLast
  <2>1. Init => J
    <3> SUFFICES ASSUME Init PROVE J
      OBVIOUS
    <3>1. \A d \in Cluster, s \in Slot, t \in Slot : table[d][s].kind = table[d][t].kind
      BY DEF Init, Zeroed
    <3> QED
      BY <3>1, IdleFields DEF Init, SlotsInv, Moving, EndsLast
  <2>2. TypeInv /\ J /\ [Next]_vars => J'
    <3>1. ASSUME J, UNCHANGED vars PROVE J'
      BY <3>1 DEF vars, SlotsInv, Moving, EndsLast, SameFile, EntersFree, Subject
    <3> QED
      BY <1>2, <3>1, SlotsStep, MovingStep, EndsLastStep
  <2> QED
    BY <2>1, <2>2, TypesHold, PTL DEF Spec
<1> QED
  BY <1>1, <1>2

LEMMA NamesHold == Tame \/ FilesOnly => (Spec => []NamesInv)
<1> SUFFICES ASSUME Tame \/ FilesOnly PROVE Spec => []NamesInv
  OBVIOUS
<1>1. Init => NamesInv
  <2>1. ASSUME Init, NEW d \in Cluster, NEW s \in Slot PROVE ~Live(table[d][s])
    BY <2>1 DEF Init, Zeroed, EndEntry, Unnamed, Live
  <2>2. Init => ~WillEnter
    BY IdleFields DEF Init, WillEnter
  <2> QED
    BY <2>1, <2>2 DEF NamesInv, UniqueNames, Entering, Named
<1>2. TypeInv /\ EndsLast /\ NamesInv /\ [Next]_vars => NamesInv'
  <2>1. ASSUME NamesInv, UNCHANGED vars PROVE NamesInv'
    BY <2>1 DEF vars, NamesInv, UniqueNames, Entering, WillEnter, Named
  <2> QED
    BY <2>1, NamesStep
<1> QED
  BY <1>1, <1>2, EndsHold, TypesHold, PTL DEF Spec

(* A directory never has two entries of one name, and none behind the 0x00      *)
(* entry where scans stop: fat32_create_file, fat32_mkdir and fat32_rename_file *)
(* look a name up long before they write it, and the slot they take is the      *)
(* first free one.  This is so under the workloads of Tame, and for the         *)
(* operations on files whatever device calls fail and wherever the machine      *)
(* stops, also when files have come to share clusters.                          *)
THEOREM TablesStaySound == Tame \/ FilesOnly => (Spec => []TablesSound)
<1> SUFFICES ASSUME Tame \/ FilesOnly PROVE Spec => []TablesSound
  OBVIOUS
<1>1. TypeInv /\ EndsLast /\ NamesInv => TablesSound
  <2> SUFFICES ASSUME TypeInv, EndsLast, NamesInv,
                      NEW d \in Cluster, NEW s \in Slot, NEW t \in Slot,
                      Live(table[d][s]), Live(table[d][t]),
                      table[d][s].name = table[d][t].name
               PROVE  s = t
    BY DEF TablesSound, EndsLast
  <2>1. table[d][s] \in Entry
    BY DEF TypeInv, TypeOK
  <2> QED
    BY <2>1 DEF NamesInv, UniqueNames, Named, Entry
<1> QED
  BY <1>1, EndsHold, NamesHold, TypesHold, PTL

-----------------------------------------------------------------------------
(* The tables of directories *)

\* Cluster c is the table of a directory whose entry is in directory d.
IsDirAt(T, c, d) ==
  /\ T[c][0] = Unnamed("dot", c) /\ T[c][1] = Unnamed("dot", d)
  /\ \A s \in Slot : T[c][s].kind # "data" /\ (s > 1 => T[c][s].kind # "dot")
DirsSound(T) ==
  \A d \in Cluster, s \in Slot : T[d][s].kind = "dir" => IsDirAt(T, T[d][s].cluster, d)

\* The directory that mkdir makes is complete before its entry is written.
DirInv ==
  /\ DirsSound(table)
  /\ f.pc = "initdir" => table[f.new] = Zeroed
  /\ f.pc = "entry" /\ f.op = "mkdir" => IsDirAt(table, f.new, f.dir)

LEMMA FirstSlots == 0 \in Slot /\ 1 \in Slot /\ \A s \in Slot : s \in Nat
  BY GeometryAssumption DEF Slot

\* A cluster that is not a directory gets other contents.
LEMMA DirsBlank ==
  ASSUME NEW G \in FatMap, NEW T \in TableMap, Base(G, T), DirsSound(T),
         NEW k \in Cluster, ~HomeIn(T, k), NEW R, \A s \in Slot : R[s].kind # "dir"
  PROVE  DirsSound([T EXCEPT ![k] = R])
<1> DEFINE U == [T EXCEPT ![k] = R]
<1> SUFFICES ASSUME NEW d \in Cluster, NEW s \in Slot, U[d][s].kind = "dir"
             PROVE  IsDirAt(U, U[d][s].cluster, d)
  BY DEF DirsSound
<1>1. d # k /\ U[d][s] = T[d][s]
  BY DEF TableMap
<1>2. T[d][s].cluster \in Cluster
  BY <1>1, Entries DEF Base, SoundTree
<1>3. T[d][s].cluster # k
  BY <1>1, <1>2 DEF HomeIn, DirectoryIn
<1> QED
  BY <1>1, <1>2, <1>3 DEF DirsSound, IsDirAt, TableMap

\* An entry is written into a slot that is not . or .. .
LEMMA DirsEntered ==
  ASSUME NEW G \in FatMap, NEW T \in TableMap, Base(G, T), DirsSound(T),
         NEW d \in Cluster, NEW s \in Slot, NEW e \in Entry,
         T[d][s].kind # "dot", e.kind \notin {"data", "dot"},
         e.kind = "dir" => e.cluster \in Cluster /\ IsDirAt(T, e.cluster, d)
  PROVE  DirsSound([T EXCEPT ![d][s] = e])
<1> DEFINE U == [T EXCEPT ![d][s] = e]
<1>1. \A x \in Cluster, y \in Slot : U[x][y] = IF x = d /\ y = s THEN e ELSE T[x][y]
  BY DEF TableMap
<1> HIDE DEF U
<1>2. ASSUME NEW c \in Cluster, NEW x, IsDirAt(T, c, x) PROVE IsDirAt(U, c, x)
  <2>1. c = d => s # 0 /\ s # 1
    BY <1>2 DEF IsDirAt, Unnamed
  <2>2. U[c][0] = T[c][0] /\ U[c][1] = T[c][1]
    BY <1>1, <2>1, FirstSlots
  <2> QED
    BY <1>1, <1>2, <2>2 DEF IsDirAt
<1>3. ASSUME NEW x \in Cluster, NEW y \in Slot, U[x][y].kind = "dir"
      PROVE  IsDirAt(U, U[x][y].cluster, x)
  <2>1. CASE x = d /\ y = s
    BY <1>1, <1>2, <1>3, <2>1
  <2>2. CASE ~(x = d /\ y = s)
    <3>1. U[x][y] = T[x][y] /\ T[x][y].cluster \in Cluster
      BY <1>1, <1>3, <2>2, Entries DEF Base, SoundTree
    <3> QED
      BY <1>2, <1>3, <3>1 DEF DirsSound
  <2> QED
    BY <2>1, <2>2
<1> QED
  BY <1>3 DEF DirsSound, U

LEMMA DirsWrite ==
  ASSUME Inv, DirInv, f.pc \in TableSteps, WriteTable
  PROVE  DirsSound(table')
<1>0. /\ fat[1] \in FatMap /\ table \in TableMap /\ Base(fat[1], table) /\ DirsSound(table)
      /\ f.dir \in Cluster /\ f.slot \in Slot
  BY Volumes, Locals DEF DirInv, Inv, TypeInv, FrameTypes, TableSteps
<1>1. CASE f.pc \in {"zero", "initdir"}
  <2>1. f.new \in Cluster /\ ~HomeIn(table, f.new)
    BY <1>1, FreshNotHome DEF Inv, TypeInv, FrameTypes, Sound, InProgress, NewCluster, FreshIn
  <2>2. CASE f.pc = "zero"
    <3>1. table' = [table EXCEPT ![f.new] = Zeroed] /\ \A s \in Slot : Zeroed[s].kind # "dir"
      BY <2>2, Kinds DEF WriteTable, TableAfter, Zeroed
    <3> QED
      BY <1>0, <2>1, <3>1, DirsBlank
  <2>3. CASE f.pc = "initdir"
    <3>1. table' = [table EXCEPT ![f.new] = Dots(f.new, f.dir)]
      BY <2>3 DEF WriteTable, TableAfter
    <3>2. \A s \in Slot : Dots(f.new, f.dir)[s].kind # "dir"
      BY <2>3, Kinds DEF DirInv, Dots, Zeroed, Unnamed
    <3> QED
      BY <1>0, <2>1, <3>1, <3>2, DirsBlank
  <2> QED
    BY <1>1, <2>2, <2>3
<1>2. CASE f.pc = "data"
  <2>1. table' = [table EXCEPT ![f.cur] = FileBytes] /\ \A s \in Slot : FileBytes[s].kind # "dir"
    BY <1>2 DEF WriteTable, TableAfter, FileBytes, Unnamed
  <2>2. f.op = "write" /\ f.first # 0 /\ f.cur \in Cluster /\ f.first \in Cluster
    BY <1>2, Locals DEF Inv, TypeInv, FrameTypes, Sound, InProgress, WriteSound
  <2>3. HoldsFile(fat[1], table, f) /\ InChain(fat[1], f, f.cur) /\ Volume(fat[1], table)
    BY <1>2, <2>2, Volumes DEF Inv, Sound, InProgress, WriteSound
  <2>4. ~HomeIn(table, f.cur)
    BY <1>0, <2>2, <2>3, ChainNotHome
  <2> QED
    BY <1>0, <2>1, <2>2, <2>4, DirsBlank
<1>3. CASE f.pc = "entry"
  <2>1. table' = [table EXCEPT ![f.dir][f.slot] = NewEntry]
    BY <1>3 DEF WriteTable, TableAfter
  <2>2. SlotFree(table[f.dir][f.slot])
    BY <1>3, EntryFields DEF Inv, Sound, InProgress, CreateSound, MkdirSound, RenameSound,
       EntersFree, Subject
  <2>3. f.op = "mkdir" => f.new \in Cluster /\ IsDirAt(table, f.new, f.dir)
    BY <1>3 DEF DirInv, Inv, TypeInv, FrameTypes
  <2>4. /\ NewEntry \in Entry /\ NewEntry.kind \in {"file", "dir"}
        /\ NewEntry.kind = "dir" => NewEntry.cluster \in Cluster
                                    /\ IsDirAt(table, NewEntry.cluster, f.dir)
    BY <1>3, <2>3, EntryFields
  <2>5. table[f.dir][f.slot].kind # "dot" /\ NewEntry.kind \notin {"data", "dot"}
    BY <2>2, <2>4 DEF SlotFree
  <2> HIDE DEF NewEntry
  <2> QED
    BY <1>0, <2>1, <2>4, <2>5, DirsEntered
<1>4. CASE f.pc \in {"update", "size"}
  <2>1. f.op \in AllOps
    BY <1>4, Locals, WorkloadAssumption DEF Inv, TypeInv, FrameTypes, Frame
  <2>2. table[f.dir][f.slot].kind = "file" /\ table[f.dir][f.slot] \in Entry
    BY <1>0, <1>4, <2>1, Entries DEF AllOps, Inv, Sound, InProgress, CreateSound, MkdirSound,
       RenameSound, RemoveSound, WriteSound, TruncateSound, Subject
  <2>3. f.first \in Cluster \cup {0} /\ f.size \in Nat
    BY Locals DEF Inv
  <2>4. PICK x \in Entry : x = table[f.dir][f.slot] /\ x.kind = "file"
    BY <2>2
  <2>5. /\ [x EXCEPT !.size = f.size].kind = "file"
        /\ [x EXCEPT !.cluster = f.first, !.size = f.size].kind = "file"
    BY <2>4 DEF Entry
  <2>6. /\ [x EXCEPT !.size = f.size] \in Entry
        /\ [x EXCEPT !.cluster = f.first, !.size = f.size] \in Entry
    BY <2>3, EntryUpdate, Zenon
  <2>7. CASE f.pc = "update"
    <3>1. table' = [table EXCEPT ![f.dir][f.slot] =
                                   [x EXCEPT !.cluster = f.first, !.size = f.size]]
      BY <2>4, <2>7 DEF WriteTable, TableAfter
    <3> QED
      BY <1>0, <2>2, <2>5, <2>6, <3>1, DirsEntered
  <2>8. CASE f.pc = "size"
    <3>1. table' = [table EXCEPT ![f.dir][f.slot] = [x EXCEPT !.size = f.size]]
      BY <2>4, <2>8 DEF WriteTable, TableAfter
    <3> QED
      BY <1>0, <2>2, <2>5, <2>6, <3>1, DirsEntered
  <2> QED
    BY <1>4, <2>7, <2>8
<1>5. CASE f.pc = "delete"
  <2>1. PICK d \in Cluster, s \in Slot :
          /\ table' = [table EXCEPT ![d][s] = DeletedEntry] /\ Live(table[d][s])
    <3>1. CASE f.op = "rename"
      <4>1. f.sdir \in Cluster /\ f.sslot \in Slot /\ Live(table[f.sdir][f.sslot])
        BY <3>1, Locals, Kinds DEF Inv, TypeInv, FrameTypes, Sound, InProgress, RenameSound
      <4>2. table' = [table EXCEPT ![f.sdir][f.sslot] = DeletedEntry]
        BY <1>5, <3>1 DEF WriteTable, TableAfter, DeletedSlot
      <4> QED
        BY <4>1, <4>2
    <3>2. CASE f.op # "rename"
      <4>1. f.op \in {"remove", "rmdir"}
        BY <1>5, <3>2 DEF Inv, TypeInv, FrameTypes
      <4>2. Live(table[f.dir][f.slot])
        BY <1>5, <4>1 DEF Inv, Sound, InProgress, RemoveSound, Subject
      <4>3. table' = [table EXCEPT ![f.dir][f.slot] = DeletedEntry]
        BY <1>5, <3>2 DEF WriteTable, TableAfter, DeletedSlot
      <4> QED
        BY <1>0, <4>2, <4>3
    <3> QED
      BY <3>1, <3>2
  <2>2. table[d][s].kind # "dot"
    BY <2>1, Kinds
  <2> QED
    BY <1>0, <2>1, <2>2, Kinds, DirsEntered
<1> QED
  BY <1>1, <1>2, <1>3, <1>4, <1>5 DEF TableSteps

\* mkdir zeroes its cluster, then initialises it, then writes the entry.
LEMMA MkdirSteps ==
  ASSUME Inv, Next, f'.op = "mkdir", f'.pc \in {"initdir", "entry"}
  PROVE  /\ f'.new = f.new /\ f'.dir = f.dir
         /\ \/ f.pc = "zero" /\ WriteTable /\ f'.pc = "initdir"
            \/ f.pc = "initdir" /\ WriteTable /\ f'.pc = "entry"
<1> USE DEF Inv
<1>0. f' # Idle
  BY IdleFields
<1>1. ~Call
  <2>1. CASE Mkdir
    BY <2>1, MkdirFrame
  <2>2. CASE ~Mkdir
    BY <2>2, CreateFrame, WriteFrame, RemoveFrame, TruncateFrame, RenameFrame DEF Call
  <2> QED
    BY <2>1, <2>2
<1>2. ~(DiskFull \/ BrokenChain \/ UpdateEntry \/ UpdateSize \/ Crash)
  BY <1>0 DEF DiskFull, BrokenChain, UpdateEntry, UpdateSize, Crash, Done, GiveUp
<1>3. ~(Allocate \/ Walk \/ Seek \/ WriteEntry \/ WriteData \/ DeleteEntry)
  BY <1>0, AllocateFrame, WalkFrame, SeekFrame, WriteEntryFrame, WriteDataFrame,
     DeleteEntryFrame DEF Moved
<1>4. ~(Mark \/ Link \/ Undo \/ FreeLink \/ Cut \/ DeviceFails)
  BY <1>0, MarkFrame, LinkFrame, UndoFrame, FreeFrame, CutFrame, DeviceFailsFrame DEF Moved
<1>5. CASE ZeroCluster
  <2>1. f.pc = "zero" /\ WriteTable
    BY <1>5 DEF ZeroCluster
  <2>2. f'.op = f.op
    BY <1>5, ZeroFrame DEF Moved
  <2> QED
    BY <1>5, <2>1, <2>2, ZeroFrame DEF Moved
<1>6. CASE InitDirectory
  <2>1. f.pc = "initdir" /\ WriteTable
    BY <1>6 DEF InitDirectory
  <2> QED
    BY <1>6, <2>1, InitDirectoryFrame DEF Moved
<1> QED
  BY <1>1, <1>2, <1>3, <1>4, <1>5, <1>6 DEF Next, Step

LEMMA DirStep == ASSUME Inv, DirInv, Next PROVE DirInv'
<1>0. TypeInv /\ TypeInv' /\ table \in TableMap
  BY TypeStep, Volumes DEF Inv
<1>1. DirsSound(table')
  <2>1. CASE table' = table
    BY <2>1 DEF DirInv
  <2>2. CASE f.pc \in TableSteps /\ WriteTable
    BY <2>2, DirsWrite
  <2>3. CASE Call
    BY <2>1, <2>3, BeginSound
  <2> QED
    BY <1>0, <2>1, <2>2, <2>3, TableWrites DEF Next
<1>2. ASSUME f'.pc = "initdir" PROVE table'[f'.new] = Zeroed
  <2>1. f'.op = "mkdir"
    BY <1>0, <1>2 DEF TypeInv, FrameTypes
  <2>2. f'.new = f.new /\ f.pc = "zero" /\ WriteTable
    BY <1>2, <2>1, MkdirSteps
  <2>3. f.new \in Cluster /\ table' = [table EXCEPT ![f.new] = Zeroed]
    BY <1>0, <2>2 DEF TypeInv, FrameTypes, WriteTable, TableAfter
  <2> QED
    BY <1>0, <2>2, <2>3 DEF TableMap
<1>3. ASSUME f'.pc = "entry", f'.op = "mkdir" PROVE IsDirAt(table', f'.new, f'.dir)
  <2>1. f'.new = f.new /\ f'.dir = f.dir /\ f.pc = "initdir" /\ WriteTable
    BY <1>3, MkdirSteps
  <2>2. f.new \in Cluster /\ table' = [table EXCEPT ![f.new] = Dots(f.new, f.dir)]
    BY <1>0, <2>1 DEF TypeInv, FrameTypes, WriteTable, TableAfter
  <2>3. table'[f.new] = Dots(f.new, f.dir)
    BY <1>0, <2>2 DEF TableMap
  <2>4. table[f.new] = Zeroed
    BY <2>1 DEF DirInv
  <2>5. IsDirAt(table', f.new, f.dir)
    BY <2>3, <2>4, FirstSlots, Kinds DEF IsDirAt, Dots, Zeroed, Unnamed
  <2> QED
    BY <2>1, <2>5
<1> QED
  BY <1>1, <1>2, <1>3 DEF DirInv, DirsSound, IsDirAt

(* Under the workloads of Tame a directory that an entry names begins with .    *)
(* and .. that name itself and its parent and holds nothing that was in its     *)
(* cluster before: fat32_mkdir zeroes and initialises the cluster before it     *)
(* writes the entry, and no other operation writes the first two slots.         *)
THEOREM DirectoriesStaySound == Tame => (Spec => []DirectoriesSound)
<1> SUFFICES ASSUME Tame PROVE Spec => []DirectoriesSound
  OBVIOUS
<1>1. Init => DirInv
  <2> SUFFICES ASSUME Init PROVE DirInv
    OBVIOUS
  <2>1. \A d \in Cluster, s \in Slot : table[d][s].kind # "dir"
    BY Kinds DEF Init, Zeroed
  <2>2. f.pc = "idle"
    BY IdleFields DEF Init
  <2> QED
    BY <2>1, <2>2 DEF DirInv, DirsSound
<1>2. IInv /\ DirInv /\ [Next]_vars => DirInv'
  <2>1. ASSUME DirInv, UNCHANGED vars PROVE DirInv'
    BY <2>1 DEF vars, DirInv, DirsSound, IsDirAt
  <2> QED
    BY <2>1, DirStep, InvIsIInv
<1>3. DirInv => DirectoriesSound
  <2> SUFFICES ASSUME DirInv, NEW e \in LiveSlots, At(e).kind = "dir"
               PROVE  IsDirAt(table, At(e).cluster, e[1])
    BY DEF DirectoriesSound, IsDirAt
  <2>1. PICK d \in Cluster, s \in Slot : e = <<d, s>>
    BY DEF LiveSlots
  <2> QED
    BY <2>1 DEF At, DirInv, DirsSound
<1>4. Spec => []IInv
  BY InvariantHolds
<1> QED
  BY <1>1, <1>2, <1>3, <1>4, PTL DEF Spec
=============================================================================
