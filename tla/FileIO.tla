------------------------------- MODULE FileIO -------------------------------
(***************************************************************************)
(* The bytes of one file: fat32_open, fat32_read, fat32_write and           *)
(* fat32_truncate of kernel/fs/fat32/fat32.c, sector by sector through the  *)
(* one static sector_buffer, which every access to the FAT overwrites.      *)
(*                                                                          *)
(* Beside the file there is another one, of which only the bytes matter.    *)
(* A device call for data, or one that reads the FAT, may fail; a failed    *)
(* write may have reached the disk.  What failing writes of the FAT and of  *)
(* directories lead to is the subject of Fat32.  So is a truncation to zero: *)
(* it leaves the entry naming a free cluster (run Fat32TruncateZero), and a *)
(* handle opened on that entry writes into it; here such writes are not made.*)
(***************************************************************************)
EXTENDS Naturals, Sequences

CONSTANTS
  Clusters,           \* data clusters of the volume
  SectorSize,         \* bytes in a sector
  SectorsPerCluster,
  Lengths,            \* how many bytes a call asks for
  MaxCalls,           \* bound on the calls
  Faults              \* device calls that may fail: "read", "write"

ASSUME SizeAssumption ==
  /\ Clusters \in Nat \ {0} /\ SectorSize \in Nat \ {0} /\ SectorsPerCluster \in Nat \ {0}
  /\ Lengths \subseteq Nat \ {0} /\ MaxCalls \in Nat /\ Faults \subseteq {"read", "write"}

Cluster == 2..(Clusters + 1)
FREE == 0
EOC == 1
ClusterSize == SectorSize * SectorsPerCluster
Byte == 0..(MaxCalls + 2)
Garbage == MaxCalls + 1   \* what a cluster holds that no file had
Others == MaxCalls + 2    \* what the other file holds
Table == 0                \* what sector_buffer holds of the FAT
Sector == [1..SectorSize -> Byte]

VARIABLES
  disk,           \* disk[lba]: the sectors of the data area
  next,           \* the FAT
  entry,          \* the file's directory entry: first cluster and size
  sector_buffer,
  file,           \* the caller's fat32_file_t
  call,           \* the call in progress
  calls,          \* how many there were; a write writes this number
  other           \* the cluster of the other file

vars == <<disk, next, entry, sector_buffer, file, call, calls, other>>

Closed == [open |-> FALSE, first |-> 0, size |-> 0, position |-> 0]
NoCall == [op |-> "none", pc |-> "idle", size |-> 0, done |-> 0, start |-> 0, index |-> 0,
           cluster |-> 0, offset |-> 0, from |-> 0, out |-> <<>>, old |-> Closed, before |-> <<>>,
           failed |-> FALSE]

LBA(c, offset) == (c - 2) * SectorsPerCluster + offset \div SectorSize
ClusterOf(first, k) ==
  LET at[i \in 0..k] == IF i = 0 THEN first ELSE next[at[i - 1]] IN at[k]

\* What the file holds for whoever opens it now.
Content ==
  [i \in 1..entry.size |->
     LET c == ClusterOf(entry.first, (i - 1) \div ClusterSize)
         offset == (i - 1) % ClusterSize
     IN disk[LBA(c, offset)][(offset % SectorSize) + 1]]

Init ==
  /\ other \in Cluster
  /\ disk = [lba \in 0..(Clusters * SectorsPerCluster - 1) |->
               [i \in 1..SectorSize |->
                  IF lba \div SectorsPerCluster = other - 2 THEN Others ELSE Garbage]]
  /\ next = [c \in Cluster |-> IF c = other THEN EOC ELSE FREE]
  /\ entry = [first |-> 0, size |-> 0]
  /\ sector_buffer = [i \in 1..SectorSize |-> Table]
  /\ file = Closed /\ call = NoCall /\ calls = 0

-----------------------------------------------------------------------------
(* What all calls share *)

Loads(sector) == sector_buffer' = sector
LoadsTable == Loads([i \in 1..SectorSize |-> Table])

\* The call returns.  After an error the callers in shell.c and kernel.c let go
\* of the handle.
Ok == call' = [call EXCEPT !.pc = "idle"]
Error == call' = [call EXCEPT !.pc = "idle", !.failed = TRUE] /\ file' = Closed

\* The callers go on with a handle, or open the file again.
Open ==
  /\ call.pc = "idle"
  /\ file' = [open |-> TRUE, first |-> entry.first, size |-> entry.size, position |-> 0]
  /\ LoadsTable
  /\ UNCHANGED <<disk, next, entry, call, calls, other>>

\* CMDwt sets the position itself.
Rewind ==
  /\ call.pc = "idle" /\ file.open /\ file.position > 0
  /\ file' = [file EXCEPT !.position = 0]
  /\ UNCHANGED <<disk, next, entry, sector_buffer, call, calls, other>>

Begin(op, n) ==
  /\ call.pc = "idle" /\ file.open /\ calls < MaxCalls
  /\ calls' = calls + 1
  /\ call' = [NoCall EXCEPT !.op = op, !.size = n, !.start = file.position, !.old = file, !.before = Content,
                            !.pc = IF file.first < 2 THEN "first" ELSE "walk",
                            !.cluster = file.first]
  /\ UNCHANGED <<disk, next, entry, sector_buffer, file, other>>

StartIndex == call.start \div ClusterSize
FinalIndex == (call.start + call.size - 1) \div ClusterSize

\* A read of the FAT that fails ends any call.
TableReadFails ==
  /\ "read" \in Faults /\ call.pc \in {"first", "walk", "next"}
  /\ Error
  /\ UNCHANGED <<disk, next, entry, sector_buffer, calls, other>>

Lesser(a, b) == IF a < b THEN a ELSE b

\* The part of the sector at call.offset the call is about.
InSector == call.offset % SectorSize
Amount == Lesser(call.size - call.done, SectorSize - InSector)

\* Mutant: the offset is not taken back to the beginning of a cluster.
AfterSectorRunning(out) ==
  LET done == call.done + Amount
      atEnd == (call.offset + Amount) % ClusterSize = 0
  IN [call EXCEPT !.done = done, !.offset = @ + Amount, !.out = out,
                  !.pc = IF done >= call.size THEN "done" ELSE IF atEnd THEN "next" ELSE "data"]

\* Behind a sector: the call is done, or goes on in the same or the next cluster.
AfterSector(out) ==
  LET done == call.done + Amount
      offset == (call.offset + Amount) % ClusterSize
  IN [call EXCEPT !.done = done, !.offset = offset, !.out = out,
                  !.pc = IF done >= call.size THEN "done" ELSE IF offset = 0 THEN "next" ELSE "data"]

NextCluster ==
  /\ call.pc = "next"
  /\ LoadsTable
  /\ IF next[call.cluster] = EOC THEN Error
     ELSE call' = [call EXCEPT !.cluster = next[@], !.pc = "data"] /\ UNCHANGED file
  /\ UNCHANGED <<disk, next, entry, calls, other>>

-----------------------------------------------------------------------------
(* fat32_read *)

BeginRead(n) ==
  /\ file.position < file.size
  /\ Begin("read", Lesser(n, file.size - file.position))

\* fat32_get_cluster_at
Seek ==
  /\ call.op = "read" /\ call.pc = "walk"
  /\ LoadsTable
  /\ IF call.index = StartIndex
     THEN /\ call' = [call EXCEPT !.pc = "data", !.offset = call.start % ClusterSize]
          /\ UNCHANGED file
     ELSE IF next[call.cluster] = EOC THEN Error
     ELSE /\ call' = [call EXCEPT !.index = @ + 1, !.cluster = next[@]]
          /\ UNCHANGED file
  /\ UNCHANGED <<disk, next, entry, calls, other>>

\* Mutant: the bytes are taken from the beginning of the sector.
CopiedFromStart(sector) == SubSeq(sector, 1, Amount)

Copied(sector) == SubSeq(sector, InSector + 1, InSector + Amount)

ReadSector ==
  /\ call.op = "read" /\ call.pc = "data"
  /\ \/ /\ Loads(disk[LBA(call.cluster, call.offset)])
        /\ call' = AfterSector(call.out \o Copied(sector_buffer'))
        /\ file' = [file EXCEPT !.position = @ + Amount]
     \/ "read" \in Faults /\ Error /\ UNCHANGED sector_buffer
  /\ UNCHANGED <<disk, next, entry, calls, other>>

EndRead ==
  /\ call.op = "read" /\ call.pc = "done"
  /\ Ok
  /\ UNCHANGED <<disk, next, entry, sector_buffer, file, calls, other>>

-----------------------------------------------------------------------------
(* fat32_write *)

BeginWrite(n) ==
  /\ file.position <= file.size
  /\ IF file.first < 2 THEN file.size = 0 ELSE next[file.first] # FREE
  /\ Begin("write", n)

FirstFree(c) == next[c] = FREE /\ \A b \in Cluster : b < c => next[b] # FREE
Full == \A c \in Cluster : next[c] # FREE

AllocateFirst ==
  /\ call.pc = "first"
  /\ LoadsTable
  /\ \/ \E c \in Cluster :
          /\ FirstFree(c)
          /\ next' = [next EXCEPT ![c] = EOC]
          /\ file' = [file EXCEPT !.first = c]
          /\ call' = [call EXCEPT !.pc = "walk", !.cluster = c]
     \/ Full /\ Error /\ UNCHANGED next
  /\ UNCHANGED <<disk, entry, calls, other>>

\* The loop that makes the chain long enough.  It remembers the cluster the
\* write begins in.
Walk ==
  LET from == IF call.index = StartIndex THEN call.cluster ELSE call.from
      Along(c) == [call EXCEPT !.index = @ + 1, !.cluster = c, !.from = from]
  IN /\ call.op = "write" /\ call.pc = "walk"
     /\ LoadsTable
     /\ \/ /\ call.index = FinalIndex
           /\ call' = [call EXCEPT !.pc = "data", !.offset = call.start % ClusterSize,
                                   !.cluster = from]
           /\ UNCHANGED <<next, file>>
        \/ /\ call.index < FinalIndex /\ next[call.cluster] # EOC
           /\ call' = Along(next[call.cluster])
           /\ UNCHANGED <<next, file>>
        \/ /\ call.index < FinalIndex /\ next[call.cluster] = EOC
           /\ \/ \E c \in Cluster :
                   /\ FirstFree(c)
                   /\ next' = [next EXCEPT ![c] = EOC, ![call.cluster] = c]
                   /\ call' = Along(c) /\ UNCHANGED file
              \/ Full /\ Error /\ UNCHANGED next
     /\ UNCHANGED <<disk, entry, calls, other>>

Whole == InSector = 0 /\ Amount = SectorSize

\* Mutant: the old sector is not read, and what the buffer held goes back with
\* the new bytes.
FetchNothing(sector) == sector_buffer

\* A part of a sector is put into what the sector holds.
Fetch(sector) == sector

FetchSector ==
  /\ call.op = "write" /\ call.pc = "data" /\ ~Whole
  /\ \/ Loads(Fetch(disk[LBA(call.cluster, call.offset)]))
        /\ call' = [call EXCEPT !.pc = "put"] /\ UNCHANGED file
     \/ "read" \in Faults /\ Error /\ UNCHANGED sector_buffer
  /\ UNCHANGED <<disk, next, entry, calls, other>>

Merged ==
  [i \in 1..SectorSize |->
     IF i \in (InSector + 1)..(InSector + Amount) THEN calls ELSE sector_buffer[i]]

WriteSector ==
  LET put == [disk EXCEPT ![LBA(call.cluster, call.offset)] =
                IF Whole THEN [i \in 1..SectorSize |-> calls] ELSE Merged]
  IN /\ call.op = "write"
     /\ call.pc = IF Whole THEN "data" ELSE "put"
     /\ IF Whole THEN UNCHANGED sector_buffer ELSE Loads(Merged)
     /\ \/ /\ disk' = put
           /\ call' = AfterSector(call.out)
           /\ file' = [file EXCEPT !.position = @ + Amount]
        \/ "write" \in Faults /\ disk' \in {disk, put} /\ Error
     /\ UNCHANGED <<next, entry, calls, other>>

\* Mutant: the entry is written only when the file gets its first cluster.
EntryChangedFirst == file.first # call.old.first

EntryChanged == file.first # call.old.first \/ file.size # call.old.size

EndWrite ==
  /\ call.op = "write" /\ call.pc = "done"
  /\ file' = [file EXCEPT !.size = IF file.position > @ THEN file.position ELSE @]
  /\ call' = [call EXCEPT !.pc = "entry"]
  /\ UNCHANGED <<disk, next, entry, sector_buffer, calls, other>>

\* fat32_update_file_entry, if the size or the first cluster is new.
WriteEntry ==
  /\ call.op = "write" /\ call.pc = "entry"
  /\ IF ~EntryChanged THEN Ok /\ UNCHANGED <<entry, sector_buffer, file>>
     ELSE /\ LoadsTable
          /\ \/ entry' = [first |-> file.first, size |-> file.size] /\ Ok /\ UNCHANGED file
             \/ /\ "write" \in Faults /\ Error
                /\ entry' \in {entry, [first |-> file.first, size |-> file.size]}
  /\ UNCHANGED <<disk, next, calls, other>>

-----------------------------------------------------------------------------
(* fat32_truncate *)

\* The first end-of-chain mark ends the chain.
Ends(first, k) == next[ClusterOf(first, k - 1)] = EOC
ChainLength(first) ==
  CHOOSE k \in 1..Clusters : Ends(first, k) /\ \A j \in 1..(k - 1) : ~Ends(first, j)

\* Only shrinking is supported; nothing is done for the size the file has.  The
\* entry's first cluster is never written.
Truncate(n) ==
  LET kept == (n + ClusterSize - 1) \div ClusterSize
      freed == {ClusterOf(file.first, k) : k \in kept..(ChainLength(file.first) - 1)}
  IN /\ n < file.size
     /\ call.pc = "idle" /\ file.open /\ calls < MaxCalls
     /\ calls' = calls + 1
     /\ next' = [c \in Cluster |-> IF c \in freed THEN FREE
                                  ELSE IF n > 0 /\ c = ClusterOf(file.first, kept - 1) THEN EOC
                                  ELSE next[c]]
     /\ entry' = [entry EXCEPT !.size = n]
     /\ file' = [open |-> TRUE, first |-> IF n = 0 THEN 0 ELSE file.first, size |-> n,
                 position |-> Lesser(file.position, n)]
     /\ call' = [NoCall EXCEPT !.op = "truncate", !.size = n, !.before = Content]
     /\ LoadsTable
     /\ UNCHANGED <<disk, other>>

Next ==
  \/ Open \/ Rewind \/ TableReadFails \/ NextCluster
  \/ \E n \in Lengths : BeginRead(n) \/ BeginWrite(n) \/ Truncate(n)
  \/ Truncate(0)
  \/ Seek \/ ReadSector \/ EndRead
  \/ AllocateFirst \/ Walk \/ FetchSector \/ WriteSector \/ EndWrite \/ WriteEntry

Spec == Init /\ [][Next]_vars

-----------------------------------------------------------------------------
(* Properties *)

TypeOK ==
  /\ disk \in [0..(Clusters * SectorsPerCluster - 1) -> Sector]
  /\ next \in [Cluster -> Cluster \cup {FREE, EOC}]
  /\ entry.first \in Cluster \cup {0} /\ (entry.size > 0 => entry.first # 0)
  /\ sector_buffer \in Sector /\ calls \in 0..MaxCalls /\ other \in Cluster
  /\ file.first \in Cluster \cup {0} /\ file.position \in Nat
  /\ call.done <= call.size /\ call.offset < ClusterSize
  /\ call.pc \in {"idle", "first", "walk", "data", "put", "next", "done", "entry"}

Span(start, n) == (start + 1)..(start + n)

(* While fat32_write runs, and after it, also if it failed half-way: whoever  *)
(* opens the file finds the old bytes everywhere outside the range it was     *)
(* given, only old or new bytes inside, and behind the old end nothing but    *)
(* new ones: never what a cluster held before, the rest of a sector that was  *)
(* replaced, or the FAT sector the buffer held a moment ago.                  *)
WriteKeepsRest ==
  call.op = "write" =>
    \A i \in DOMAIN Content :
      LET old == IF i \in DOMAIN call.before THEN {call.before[i]} ELSE {}
          new == IF i \in Span(call.start, call.size) THEN {calls} ELSE {}
      IN Content[i] \in old \cup new

(* A call that returned without an error has done on the disk what it says:   *)
(* a write all of its bytes, with the file grown to hold them, a truncation   *)
(* the cut and nothing else; and the caller's handle agrees with the entry on *)
(* the disk, so that it may go on without opening the file again.             *)
DoneIsOnDisk ==
  call.pc = "idle" /\ ~call.failed /\ call.op \in {"write", "truncate"} =>
    /\ call.op = "write" =>
         /\ Len(Content) = IF call.start + call.size > Len(call.before)
                           THEN call.start + call.size ELSE Len(call.before)
         /\ \A i \in Span(call.start, call.size) : Content[i] = calls
    /\ call.op = "truncate" => Content = SubSeq(call.before, 1, call.size)
    /\ file.size = entry.size /\ file.position <= file.size
    /\ file.size > 0 => file.first = entry.first

(* fat32_read hands over the bytes of the file from its position on, at every *)
(* moment as many as it says, although each FAT access on the way overwrites  *)
(* the buffer they are copied from.                                           *)
ReadsBack ==
  call.op = "read" => call.out = SubSeq(Content, call.start + 1, call.start + call.done)

(* No call, whole or failed, writes a byte of the other file or takes its     *)
(* cluster: an offset never runs over the end of its cluster, and a chain is  *)
(* extended with free clusters only.                                          *)
OtherFileKept ==
  /\ next[other] = EOC
  /\ \A k \in 0..(SectorsPerCluster - 1) :
       disk[LBA(other, k * SectorSize)] = [i \in 1..SectorSize |-> Others]
=============================================================================
