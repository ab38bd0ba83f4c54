# A verification project for imOS

imOS is a small 64-bit hobby operating system: a kernel that boots from GRUB, drives one ATA
disk with programmed I/O, keeps a FAT32 volume on it and runs a command shell on the VGA text
console. There is one thread of kernel code and two interrupt handlers (timer and keyboard).
What can go wrong with lasting effect goes wrong on the disk, so the project begins there.

## 1. Inventory

| Component | Source | State | Operations | Talks to |
|---|---|---|---|---|
| FAT32 metadata | `kernel/fs/fat32/fat32.c` | on disk: FAT copies, directory tables; in memory: `fat32_t`, `fat32_file_t`, one static `sector_buffer` | create, write, mkdir, remove, remove directory, truncate, rename; allocate, append, free, zero a cluster | block device; called by shell and `kmain` |
| Lookup and paths | same | none of its own | split path, resolve path, find in directory, find a free slot, directory empty | block device |
| File data | same | `fat32_file_t.position`, `.size`, `.first_cluster` | open, read, write | metadata part |
| Mount | same | `fat32_t` | validate the BPB, derive the geometry | block device |
| Directory iteration, long names | same | `fat32_dir_t` | opendir, readdir | block device |
| Block device | `kernel/storage/block_device.h` | none | read, write of `count` sectors | ATA |
| ATA driver | `kernel/drivers/ata/ata.c` | `initialized`, last status and error; the device's registers | identify, read, write a sector, polling loops of 10^6 rounds | I/O ports |
| Shell | `kernel/lib/shell.c` | `cwd`, `argc`, `argv`, the line buffer | parse, normalise a path, one function per command | FAT32, console |
| Script runner | same | one static 1025-byte buffer, shared by nested runs | split lines, execute each | shell, FAT32 |
| Console | `kernel/lib/stdcon.c`, `vga.c` | cursor, VGA memory | putc, backspace, scroll, read a line | keyboard buffer, VGA |
| Keyboard | `kernel/lib/kbhandler.c` | shift and caps state, a one-character buffer | scan code handler (in the interrupt), get and clear (in the kernel) | console |
| Interrupts, timer | `kernel/lib/idt.c`, `pit.c`, `interrupts.asm` | `timer_ticks`, IDT | set-up, dispatch, sleep | keyboard |
| Boot sequence | `kernel/kernel.c` | the user name file on disk | initialise, mount, create `/OPT/USERNAME` on first boot, start the shell | all of the above |
| Boot code, build, images | `boot/`, `Makefile`, `*.sh` | | set-up | |

The hard behaviours, and what makes each component correct:

* **FAT32 metadata.** An operation is a sequence of sector writes. Power can go between any two
  of them, and a device call can fail, before or after its effect (`ata_write_sector` reports a
  timeout of its last wait although the data was transferred). *Correct:* at each of these points
  the volume is a forest of chains, no cluster belongs to two files, no entry names a free
  cluster; an operation touches no other file; a rename never loses the file; as long as
  no operation stops half-way nothing leaks, chains match sizes, the FAT copies agree; every operation ends.
* **Lookup.** First match, stop at a 0x00 entry, reuse of deleted slots. *Correct:* no name
  twice in a directory, no entry behind the end mark.
* **File data.** One static sector buffer for everything, partial sectors, chain positions.
  *Correct:* a read returns the bytes last written, or says how many it could.
* **Mount.** 32-bit arithmetic on untrusted fields. *Correct:* what is accepted describes
  clusters inside the device.
* **Directory iteration.** Long-name entries without their short entry. *Correct:* a name is
  only ever shown for the file it was given to.
* **ATA.** Polling with a bound against a device that answers at its own pace. *Correct:* every
  call returns, a call that returns true has done what it says, one that fails has touched no other
  sector; a late answer is not taken for the next command's (which the driver does not achieve).
* **Shell, scripts.** Global `argc`/`argv`, one script buffer. *Correct:* every line of a
  script is executed once, in order; `cwd` is normal and names what it named when set.
* **Console and keyboard.** The interrupt handler stores while the reader gets and clears.
  *Correct:* the echoed line is the buffered line; which keys can be lost is known.
* **Boot sequence.** First boot can stop anywhere. *Correct:* some later boot reaches the shell.

## 2. The modules

| Module | Contents |
|---|---|
| `FileStore` | the abstract file system: a tree of paths in which every call takes effect at once |
| `Fat32` | the volume, the seven operations write by write, device failures, crashes, the properties |
| `Fat32Store` | the volume seen as a tree: `Fat32` implements `FileStore` |
| `Fat32Inv` | the inductive invariant, and `Tame`, the workloads it holds for |
| `MCFat32` | the constants a `.cfg` cannot write |
| `Fat32Sound_proofs` | the types as a theorem; what one write does to the soundness of a volume; its soundness under `Tame`, as a theorem |
| `Fat32Tables_proofs` | equal FAT copies, renames and directory tables, as theorems |
| `Fat32Space_proofs` | whole chains: operations leave bystanders alone, nothing leaks and chains fit their sizes, as theorems |
| `Fat32Store_proofs` | the volume implements the tree of `FileStore`, as a theorem |
| `FileIO` | the bytes of a file through sectors, clusters and the shared sector buffer |
| `FileIO_proofs` | its five properties, as theorems |
| `Shell`, `MCShell` | the boot, the commands, paths and scripts, composed with `FileStore` |
| `Shell_proofs` | its safety properties, as theorems |
| `Console`, `MCConsole` | keyboard and timer interrupts, the line reader, the screen |
| `Console_proofs` | keys arrive as meant, and the screen shows the line, as theorems |
| `Ata` | the disk driver's polls against a drive that answers when it likes |
| `Ata_proofs` | the driver keeps its word, as a theorem |

`Shell` EXTENDS `FileStore`: its commands are that module's actions. That the writes of `fat32.c` add
up to those actions is what `Fat32Store` states, `Fat32Calm` and `Fat32Crash` check and `Fat32Store_proofs` proves; so a step of `Shell` stands for a whole operation of
`Fat32`, and crashes inside an operation are the subject there. `FileIO` refines what `Fat32` says of
`fat32_write` and `fat32_read` in the other direction: down to bytes, with one file and one
bystander. `Ata` is what both rest on: a sector is written or not, and a call may report as failed what it did.

### The FAT32 metadata

* `fat[k][c]` is the entry of cluster `c` in copy `k` of the FAT: `FREE` (0), `EOC` (any value
  from 0x0FFFFFF8 up) or the next cluster. Only copy 1 is ever read, as in
  `fat32_read_fat_entry`. `FatAfter` is `fat32_write_fat_entry` for one copy: the whole sector,
  as read from copy 1, is written over the sector of that copy.
* `table[c]` is the contents of cluster `c` read as directory entries: `"end"` for a first byte
  0x00, `"deleted"` for 0xE5, `"dot"`, `"file"`, `"dir"`. `"data"` stands for the bytes of a file,
  so that a cluster given to a directory without being cleared would show.
* `f` is the operation in progress: the locals of its C function that outlive a device write, and
  a label `pc` for the write it has come to. One operation runs at a time because the kernel has
  one thread and no interrupt handler calls the file system.
* `clean` is a history variable: no operation has stopped between two of its writes, be it for a
  crash, a failing call or a disk that turned out full half-way. The exact properties (nothing leaked,
  sizes, equal copies) are claimed for such histories, all others for every one.

Each operation is an action that takes the decisions of its C function up to the first device
write (`Create`, `Write`, `Mkdir`, `Remove`, `RemoveDirectory`, `Truncate`, `Rename`), followed by
one step per device write and per link of a chain walked. A call that the code refuses before
its first write changes nothing and is a stuttering step. The steps and the functions they stand for:

| Step | Code |
|---|---|
| `Allocate`, `DiskFull`, `Mark`, `ZeroCluster` | `fat32_allocate_cluster` and `fat32_zero_cluster` |
| `Link`, `Undo` | `fat32_append_cluster`; the rollbacks of append, allocate and mkdir |
| `InitDirectory`, `WriteEntry` | `fat32_initialize_directory`, `fat32_write_directory_entry_data` |
| `Walk`, `BrokenChain`, `WriteData`, `UpdateEntry` | the two loops of `fat32_write`, `fat32_update_file_entry` |
| `DeleteEntry`, `FreeLink` | `fat32_delete_directory_entry`, `fat32_free_cluster_chain` |
| `Seek`, `Cut`, `UpdateSize` | `fat32_get_cluster_at`, `fat32_free_cluster_chain_after`, `fat32_update_directory_entry_size` |
| `DeviceFails` | `false` from `device->read` or `device->write` in any of these, with the write done or not |
| `Crash` | the machine stops; the next boot mounts the same volume |

Abstractions of `Fat32`:

* Names are model values. `make_83_name` is not modelled, nor are long-name entries; nothing in
  the code writes one.
* A cluster is one sector and a directory is one cluster. `fat32_find_free_directory_entry` refuses
  to grow a directory and `mkdir` makes it one cluster, so a directory the code made never has more;
  only the root of an image made elsewhere could.
* The position of a handle is a parameter of `Write`. The shell opens a file for each command, so
  a handle never outlives an operation of another.
* The bytes of a file are not kept, only which clusters hold them (`FileIO` keeps them).
* Bad-cluster marks (0x0FFFFFF7) and reserved values never occur, as nothing writes them.
* After some failures a directory's cluster can belong to a file as well, and writing the file then
  overwrites entries. The model keeps no bytes and could not say what such a directory
  holds, so no run combines mkdir with failing multi-cluster writes or truncation to zero.
* After a truncation that stopped half-way the model goes on from what is on the disk, as
  `fat32_open` does.

### The abstract file system

`FileStore` has one variable, `tree`, a function from the paths that exist to directories and files.
`Fat32Store` reads the tree off a volume: a path leads to the entry that `fat32_find_in_directory` finds
at the end of it, a file's data is its size. `ImplementsFileStore` says that every step of `Fat32` is a step of
`FileStore` by the operation in progress, or leaves the tree alone: of all the sector writes of an
operation exactly one is the moment at which it happens. A rename is seen from its first
write on; after a crash there the file has both names, so the run with crashes leaves rename out.

### The bytes of a file

`FileIO` has the sectors of the data area, the FAT, the file's entry, the caller's handle and
`sector_buffer`, which each access to the FAT or a directory fills with table contents. Call number `n` writes
bytes `n`; fresh clusters hold `Garbage`. A call goes from label to label: `first`
(`AllocateFirst`), `walk` (the loop that finds or appends clusters; `Seek` for reads), `data` and `put`
(one sector: whole, or fetched, changed and put back), `next`, `done`, `entry`. Reads of the FAT and reads and
writes of data may fail, a failed write with or without effect. After an error the handle is
closed, as its callers do. A truncation to zero keeps the first cluster in the entry, as the code does; a
handle opened on such an entry is not written through (see finding 1).

### Boot, shell and scripts

`pc` of `Shell` is `opendir` to `start` during the boot (`kernel.c:144-154`, `shell.c:1262-1278`), then
`prompt`, `exec`, `write` (the second call of `wt`), `script`. A reset is possible at each. `CreateName` also has the outcome `fault`: after a create that failed
`kmain` writes through a handle it has never set.

A call that fails has changed nothing, or has done all it was asked (`CallFails`), where one device write makes the
difference: creating, removing, the boot's write. Others leave something in between: a failing `mv` may leave
both names on one chain (`BothNames`, `fat32.c:4629`), the rollback of `md` may free the cluster of a directory whose entry is on
the disk (`FreedUnderEntry`, `4007`), a `trc` that fails may have cut the chain and not the size (`CutShort`, `3278`), a `wt` may have
put in place what fits into the old size (`FinishText`). A `trc` to zero does not even have to fail: its entry stays on a freed cluster (`Truncate`,
`3217`, finding 1). What a failure leaves a reset in the middle of the call leaves too. A full disk counts as a failing call. The
history variable `intact` says that no call so far has left clusters that are not a tree of files: an entry on a free cluster, on one with two
owners, or on a chain too short. Resets do not mend that. Once it is FALSE, `FileStore` does not describe the disk any more, and `StrayWrite` stands for
what it leaves out: with every write of a command or of the boot a path may vanish, appear or become something else, and calls may be
refused without a failing device. No bound is put on what appears, because a file that shares its cluster
with a directory may hold anything; `StrayPaths` and `StrayData` say which paths are hit and with what.

Text is a sequence of cells, a cell a word,
a blank, a newline or NUL; `parse_args` and `exec_script` overwrite cells of the static
buffer in place, which is what the properties of scripts are about. A word used as a path has a text of
names, slashes and dots, with a slash between any two names (`TextAssumption`); `normalize_path` is modelled on it, with the cut at 255 characters.
`MaxNest` stands for the room on the kernel's stack. Left out: tabs and carriage returns,
which the code treats as blanks and newlines; commands that only print are one action.

### Console and keyboard

The keyboard sends scan codes through a queue of its own (external). `KeyboardInterrupt` and `TimerInterrupt` are
one step each: gates of type 0x8E keep interrupts off. The reader is `Halt` (it may be
interrupted just before), `get_char`, `ClearAndUse`: get and clear are two steps. The
screen is flat video memory with `cursor_X`, `cursor_Y` and the hardware cursor. One letter, one digit, Enter,
backspace, both shift keys, caps lock and a key without a character stand for the table. A held key's
automatic repeats are presses; the repeats of caps lock itself are left out. Each scan code carries what its key was meant to give when it was pressed, a history
value that only `KeysAsMeant` reads; `before` is another, for `LineShown`.

### The disk driver

`drive` is external: it takes registers only when neither BSY nor DRQ is set, ignores commands otherwise,
and answers a command with DRQ, ERR or DF, or never. It shows BSY as soon as it has the command: the 400 ns
in which a drive may still show its old status are not modelled. `AfterBsy` lists the four
places of `ata_wait_bsy`. `Polls` rounds stand for 1000000.

## 3. Properties and runs

Every property of a passing run has a mutant, an operator placed before
the definition it changes, under which TLC finds the property violated.

* `Fat32`: `SoundVolume` (links are injective and lead to allocated clusters, live entries name the
  head of an allocated chain, no two the same, directories hang together); `NothingLeaked`,
  `ChainsExact`, `MirrorsAgree` (between operations, in clean histories); `DirectoriesSound`;
  `TablesSound`; `BystandersKept` and `RenameKeepsFile` (action properties); `OperationEnds`
  (liveness); `ImplementsFileStore` (refinement).
* `FileIO`: `WriteKeepsRest` (at every moment of a write, and after one that failed: old bytes outside the
  range, old or new ones inside, never garbage or table contents), `DoneIsOnDisk`, `ReadsBack`,
  `OtherFileKept`.
* `Shell`: `TreeHangsTogether` (also when the current directory is removed), `OnlyNamedPathsChange` (a command
  changes what a reader of its words would expect, if they fit and as long as the disk is intact), `NothingElseRuns` (a script executes whole lines of
  its own file), `ExitEndsAll`, `ScriptsEnd` and `BootReachesPrompt` (liveness;
  the first counts the end of the kernel's stack as an end, the second is about intact disks and boots in which no call fails). The
  other properties of `Shell` hold on damaged disks as well.
* `Console`: `LineShown` (screen, cursor and buffer agree through wrapping, scrolling and erasing), `KeysAsMeant`
  (no character twice, none in the wrong case), `KeysGetThrough` (liveness: a key that is waiting when
  the processor halts is read). A key *can* be lost, to the next key or to the clear of a
  `getc` that looked too early; no document of the repository denies it.
* `Ata`: `CallsKeepWord`, `CallsReturn` (liveness, with nothing assumed of the drive).

| Run | Question | States |
|---|---|---|
| `Fat32Calm` | do all operations in any order keep the volume sound, a disk or directory that is full included, exact unless a write has run out of clusters half-way, and implement `FileStore`? | 186 373 |
| `Fat32Crash` | is the volume sound, and the tree as before or after the operation, after a stop at any write, and after whatever is done next? (all but rename); are directory tables well formed? | 101 455 |
| `Fat32FilesFail` | file operations with failing calls and crashes, truncation to zero included: tables well formed, every operation ends? | 620 422 |
| `Fat32DirsFail` | whatever failing calls and crashes have left in the directories, is no renamed file lost? | 1 468 060 |
| `Fat32Tame` | the shell's file commands with failing calls: is `IInv` invariant? | 5 841 |
| `Fat32TruncateZero` | violation, see findings | |
| `Fat32TruncateCrash` | violation, see findings | |
| `FileIO` | do the bytes survive every offset, length, failure and full disk? | 1 004 380 |
| `Shell` | do boots, commands and nested scripts do what they say, with resets, failing calls and what these leave half done? | 195 444 |
| `ScriptLines` | violation, see findings | |
| `Console` | do keys, interrupts, line and screen agree in every interleaving? | 306 864 |
| `Ata` | do calls return and keep their word, whatever the drive does? | 385 433 |

**Bounds** of the `Fat32` runs. Three or four clusters, of which the root takes one, let a disk fill up, a chain have a
first, a middle and a last cluster, and two files compete for a freed one. `PerFatSector` = 2 puts
entries of different files in one FAT sector and in different ones. Three slots hold two names and one
reused slot, or `.`, `..` and one name; the two runs about directory tables after a stop, `Fat32Crash` and `Fat32DirsFail`, have four,
so that a subdirectory too has a slot behind its first entry (with three, `TablesSound` would hold after failures for want of one).
`Fat32FilesFail`, which has no directory but the root, has two.
`Fat32DirsFail` has one FAT, as no step of a rename writes a FAT; the others have two. Clusters of two bytes with writes of one, two and three
bytes and truncations to one and two bytes meet both sides of a cluster boundary. Two names in
directories nested to `MaxDepth` give renames within and between directories.
`MaxCluster` and the workload sets `Writes`, `TruncSizes` and `Ops` are the only bounds: no action has
a counter that had to be capped. Sizes are bounded by the largest write.

`FileIO`: sectors of two bytes and two sectors a cluster, so that lengths of 1, 3, 4 and 6 begin and end inside, at and
across sectors and clusters; four calls, four clusters, one of them the other file's, so that the disk fills up.
`Shell`: lines of each command, a script that runs another one that is longer, one that runs itself, and, in
`ScriptLines`, one with a comment and a blank line; one reset; a truncation to zero; `StrayPaths` is the user name alone and `StrayData` empty, so that a
stray write takes it away or makes it a directory (the proofs have any such sets); `PathSize` such that one path just fits at the root and is cut elsewhere.
`Console`: a screen of 2 x 3 and a line of two characters, so that a line wraps, scrolls and is erased
back over the edge; four key events are enough for both shift keys, a release and a letter; `ScreenAssumption` keeps the
relation of line and screen that 256 and 80 x 25 have, and `OutputAssumption` that what is printed are characters. `Ata`: four sectors, of which two differ in the high
register, three calls of up to two sectors, past the last LBA too; two polls: one that fails and one that gives up.

**Symmetry** over names is used in the safety runs only; names are never ordered.

**Deadlock** is checked except in `Shell` and `ScriptLines` (the shell ends with `exit`, and nobody has to reset the machine), `Ata` (calls are bounded) and `Fat32DirsFail`: after a mkdir that failed with its entry written,
all clusters and slots can be taken so that every further call is refused.

**Fairness.** `FairSpec` adds weak fairness of `Step`, not of calls, failures or crashes: the kernel
has one thread, it does not return to the shell before the operation has returned, and interrupts
return. Nothing is assumed of how often failures happen. `Shell`,
`Console` and `Ata` likewise assume that the kernel's thread goes on; `Console` also that the timer ticks (PIT at 1000 Hz) and
that a waiting scan code raises its interrupt while nothing masks it. Nobody has to type, and the drive need not answer.

### Findings

1. `Fat32TruncateZero`: `fat32_truncate` to size 0 frees the chain and updates only the size; the
   entry keeps naming the freed cluster. Create, write and truncate suffice. The
   comments at `fat32.c:4180-4188` and `:2741-2742` say what the state ought to be.
2. `Fat32TruncateCrash`: a truncation to a positive size frees clusters before it writes the
   smaller size, so a crash leaves what `fat32_read` calls a corruption (`fat32.c:2643-2646`).

3. `ScriptLines`: `exec_script` puts a NUL over the newline at the end of a line and then looks for newlines to skip, so that the next
   line begins at the NUL, is empty, and takes everything up to the next newline with it. Only the first line of
   a script runs (`shell.c:1066-1100`), where help and comment speak of a file with commands.

Five more observations are stated as preconditions of properties, since no document claims the contrary. The driver
waits for BSY only: after a poll that ran out, a drive that answers late with DRQ makes the next call read or write
the sector of the *old* command and return true (`CallsKeepWord` fails without `call.ready`). A
reset between creating and writing `/OPT/USERNAME` leaves an empty file that keeps every later boot from the prompt
(`BootReachesPrompt` without `Bootable`). If the rollback of a `mkdir` has freed the cluster of `/OPT` under its entry and the machine is then
reset, the next boot, in which nothing fails, finds the directory, creates the user name in it, is given that very cluster for the text, and
halts because the file is gone (`BootReachesPrompt` without `intact`). After a `mv` that failed between its writes, a `wt` to one of the two names changes the other
(`OnlyNamedPathsChange` without `intact`). A path of more than 255 characters is cut and names something else
(`OnlyNamedPathsChange` without `Fits`).

Three more states are accepted here because the code does not claim otherwise. A write to an empty file that needs more clusters than
are free leaks those it has taken, although nothing failed: they are allocated and linked (`fat32.c:2764-2775`, `2834`), the error return does not
give them back, and the entry, which is written last, names none of them. (Written behind the end of a file that has clusters, they stay on its chain.)
`Fat32Calm` has such writes, and the volume stays sound; `NothingLeaked` does not speak of what follows them. A crash in rename
leaves the file under both names, and the rollback after an *ambiguous* failure (the write
happened, the device reported an error) frees a cluster that a chain or a directory entry names. If that was the entry of a new directory, a mkdir
inside it is given the directory's own cluster, clears it, and writes its entry behind a 0x00: this is why `TablesSound` is
not claimed when a mkdir can fail. `Tame` leaves the last two out.

## 4. Proved

With TLAPS, for every geometry, number of FAT copies, set of names and workload that the
assumptions of `Fat32` (`GeometryAssumption`, `NameAssumption`, `WorkloadAssumption`) allow:

* `TypeCorrect` (`Fat32Sound_proofs`): `Spec => []TypeOK`, whatever fails. `TypeOK` alone is not inductive:
  that a step finds a cluster in `f.cur` or `f.new` depends on how it got to its label. `FrameTypes`
  (in `Fat32Inv`) says this label by label, and `TypeOK /\ FrameTypes` is inductive.
* `VolumeStaysSound` (`Fat32Sound_proofs`): `Tame => (Spec => []SoundVolume)`, from `InvariantHolds`,
  `Tame => (Spec => []IInv)`. `Tame` excludes truncations to zero altogether.
  Beyond that it allows every operation when nothing fails; crashes at any write, with every operation
  but rename; and failing device calls, with create, remove, truncate and writes of one cluster. The first finding and the last two states accepted in section 3 show why
  each of its conjuncts is there.

`SoundVolume` is not inductive either. That linking `f.new` behind `f.cur` keeps it needs that `f.new` is
allocated and named by nothing, that `f.cur` is still the last cluster of its chain, and that it is no
directory; that freeing `f.cur` keeps it needs that the entry is gone already. `InProgress` states what
each label has established and the next write relies on. The argument then has two halves.
After the types, `Fat32Sound_proofs` takes one write at a time, on any FAT and any tables: marking, linking, cutting
and freeing a cluster, clearing one, entering, changing and deleting an entry (`MarkEffect` to
`UpdateEffect`). Then it has, for each step, a lemma that the locals satisfy the
conditions of its write and satisfy `InProgress` of the next label; the lemma of the write alone
(`MarkWrite`, `FreeWrite`, ...) serves the failing step too. While a rename has both entries on disk
the volume satisfies `DistinctBut`: distinct heads, the source entry aside.

These rest on invariants of their own:

* `MirrorsStayEqual` (`Fat32Tables_proofs`): `Spec => []MirrorsAgree`. In a clean history the copies of
  the FAT differ only in the entry being written, and only from the copy on that comes next (`CopiesAgree`); a
  sector read from the first copy and written over another one then changes nothing else.
* `RenameNeverLoses`: `Spec => RenameKeepsFile`, whatever fails, `Tame` or not. Until its source is deleted, a rename has a
  source that is the file it looked up, and from the second write on also a target that is (`Moving`).
* `TablesStaySound`: `Tame \/ FilesOnly => (Spec => []TablesSound)`. `FilesOnly` is every workload without mkdir, with whatever
  failures and truncations, as in `Fat32FilesFail`. The invariant has the 0x00 entries last (`EndsHold`), names unique, and
  none such in its directory when an operation is on its way to enter a name
  (`Entering`). With mkdir outside of `Tame` an entry may name a free cluster, which mkdir may then take for a new directory while it is the directory it
  enters it in; so the two are not joined. That a lookup that fails means there is no entry takes the first entry of that name, hence the least element
  of a set of slots (`Least`, from the library's well-foundedness of `<`).
* `AtaTypeCorrect` and `AtaCallsKeepWord` (`Ata_proofs`), under `AtaAssumption`: that a call keeps its word
  needs, at each label, what the drive may still be doing: a command of this call at this sector, or nothing, and whether
  its buffer is full (`InStep`); and for the sectors behind, that they hold what was read or given (`DoneRead`, `DoneWritten`).
* `DirectoriesStaySound` (`Fat32Tables_proofs`): `Tame => (Spec => []DirectoriesSound)`. `DirInv` adds what mkdir has made of the
  new directory's cluster before an entry names it.
* `BystandersStay` (`Fat32Space_proofs`): `Tame => (Spec => BystandersKept)`. That two chains never meet goes back link by link,
  as links are injective and nothing links to a head; `Placed` says that the cluster in hand is on the chain of the operation's own file.
* `NothingStaysLeaked` and `ChainsStayExact`, both under `Tame`. `NothingLost`: at each label, every set of
  clusters that has the root, what entries name and what the operation holds (`Held`), and goes along with links, has all
  allocated clusters. `Exact`: how long the chain of the operation's file is at each label, and that all others fit their sizes.
  `ChainSet` and `ChainLength` are recursive functions over the FAT: that they have values, and which, is
  proved by taking the first step at which it would not be so (`Least`).
* `EveryCallTakesEffectAtOnce` (`Fat32Store_proofs`): `Tame => (Spec => ImplementsFileStore)`, and from it `VolumeIsAFileStore`:
  `Tame => (Spec => Store!StoreSpec)`. See below.
* `FileTypes`, `WritesKeepTheRest`, `DoneReachesTheDisk`, `ReadsTheFile` and `OtherFileUntouched` (`FileIO_proofs`): the
  properties of `FileIO`, for all sizes of sectors, clusters, calls and disks that `SizeAssumption` allows. See below.
* `KeysArriveAsMeant` (`Console_proofs`): `Spec => []KeysAsMeant`. The scan codes between person and handler can be
  replayed from the handler's flags to the person's, each giving the character it was typed for (`Agreed`).
* `ConsoleTypes` and `LineIsShown` (`Console_proofs`): `Spec => []TypeOK` and `Spec => []LineShown`, for a screen and a line of any
  size that `ScreenAssumption` and `OutputAssumption` allow. See below.
* `ShellTypes`, `TreeStaysTogether`, `OnlyNamedPathsAreChanged`, `ExitEndsEverything` and `OnlyOwnLinesRun` (`Shell_proofs`): the
  safety properties of `Shell`, for every disk, every line typed, texts of any length and buffers, arguments and nesting of
  any size that `BufferAssumption`, `TextAssumption` and `DiskAssumption` allow, with resets, failing calls and any stray writes (`StrayAssumption`) once the disk is damaged. `OnlyNamedPathsAreChanged`
  alone needs an intact disk. See below.

**The tree on the volume.** `TreeInv` describes the tree without lookups: a path leads to the entry with its last name in the
directory at the end of the rest, and as names are unique there is one such entry. Then come the two facts that every step needs. A directory has one path
(`EndsDistinct`), since no two entries name it and none names the root. And a write to one slot
changes the tree at one path (`TreeChangesAt`), provided the entry leads to no directory with entries in it; that is the case
for files, for the directory that mkdir has just filled with `.` and `..`, and for the one that rmdir has found empty. `StoreInv` adds what the operation in progress must have
in its locals for its step to be the one its caller asked for: a directory that a path leads to, and a size that the
call may give the file. Each kind of write then has its lemma: `MakeEffect`, `ResizeEffect`, `RemoveEffect`, `RenameEffect`, and `BlankChange` and `SourceGone` for the
writes that nobody who looks names up can see. That a path leads somewhere is said by its trail of directories
(`Resolve`), which needs no recursion.

**The bytes of a file.** None of the properties of `FileIO` is inductive: that a write puts its bytes where a read will look for
them depends on the cluster it has in hand. `FileInv` has the chain as a sequence of clusters that are the file's own (`Own`), and says label by
label which position in the file the call has come to and that `cluster` is the one that holds it (`Located`), and which
bytes are written or read so far (`Written`, `Delivered`). That a byte is written to one place is arithmetic: a position
splits into cluster, sector and byte in one way (`DivUnique`, `PositionParts`, `LBAInjective`), so that a sector put back
changes the bytes of its range and no other (`SectorPut`). `ClusterOf` and `Ends` are recursive functions; that they
have values, and which, is again proved with `Least`.

**The line on the screen.** `LineShown` compares the screen with what printing the line's characters one by one makes of it (`Printed`, a recursive
function). `LineInv` says this of what is read so far, with the cells behind the cursor blank and the hardware cursor at it, and that the buffer has no end in the middle. A character typed (`ShowsMore`),
one erased back over the edge of a row (`ShowsLess`) and a new prompt (`ShowsPrompt`) keep this.

**Paths.** `normalize_path` builds a text, `fat32_resolve_path` reads names from it, and `OnlyNamedPathsChange` compares the two with what a
reader would follow (`Follow`, a recursive function). `Normal` is what the texts have in common that `normalize_path` makes: they begin
with a slash, each name is behind exactly one, and there are no dots. Such a text grows by a name (`NameAdded`), loses its last (`NameTaken`) or
stays, and its names do the same as the reader's path (`ComponentAdded`); by induction over the text, from `Iterates`, they
agree at its end (`NormalizedNames`). The current directory is normal, so it goes on from there (`FollowOn`). That the result is no longer
than the buffer, although a slash is put before each name, needs that the text had one between any two (`PathLike`), also after the cut (`CutLike`).

**Commands and scripts.** `ShellInv` is inductive. That `P` and `Q` are the paths of the words that are there needs that `path` was made from `argv` in the
present `cwd` (`CommandOK`); that exit ends everything, that a command runs only while `keep_alive` is set (`ControlOK`). That the tree hangs together after a stray write
is a lemma of its own (`StrayKept`): what is left has no path below the one that was hit. `NothingElseRuns` is not
inductive because a script may be anywhere in its buffer: `Scripts` adds that the innermost one has just been loaded (`Fresh`),
or is at its end or at a NUL (`Ran`), where it finds an empty line, so that it executes at most its first line; or another was loaded over it. That is the third finding seen from the other side.
With the finding repaired the property would stay, but this invariant would have to follow the place in the buffer.

So every safety property that a passing run checks is proved, for workloads that include that run's. Not proved: `EveryLineRuns`,
`HeadsAllocated` and `ChainCoversSize`, which do not hold (see the findings); and, only model-checked, the liveness properties (`OperationEnds`, `ScriptsEnd`, `BootReachesPrompt` and those of `Console` and `Ata`), since TLAPS does
not prove liveness under fairness.

## 5. Plan

Next to prove: how much of `SoundVolume` is left outside of `Tame`, where chains may be shared (which entries and links then still lead to
clusters). That the outcomes `Shell` has for a failing call are those of `Fat32` is read off the code, call by call, and not proved: `Fat32Store`
sees a tree only on sound volumes.

Modules that could be added: `Mount`, the BPB checks with 32-bit arithmetic; `DirScan`, long-name entries of
foreign disks in `fat32_readdir` and lookup.

## 6. Not modelled

* `boot.s` and the linker script, `init_interrupts` and `pit_init`: straight-line set-up without
  states to explore.
* `fat32_mount`: validates one sector at boot and writes nothing; its result is a constant of the models.
* `fat32_readdir` and the matching of long names: they only read, and nothing in the code writes a long
  name; in the models names are values.
* `make_83_name`: a name is a model value that it accepts, or one it refuses (`Makeable` of `Shell`).
* Colours, the formats of `printv2`, the title screen, `uptime`: output.
* `fat32_structs.h` is not included anywhere; `fat32_rename_directory_entry` and
  `fat32_extend_file_chain` have no caller.
