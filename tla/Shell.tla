------------------------------- MODULE Shell -------------------------------
(***************************************************************************)
(* The kernel from power on to the prompt and the commands of its shell:    *)
(* kmain of kernel/kernel.c and kernel/lib/shell.c over the file system of  *)
(* FileStore.  The machine may be reset between any two calls of the file   *)
(* system and a call may fail; what is on the disk stays, the variables of  *)
(* the kernel do not.  Some calls, when they fail, leave a disk FileStore   *)
(* has no state for: from then on a write may reach files nobody named.     *)
(*                                                                          *)
(* Text is a sequence of cells.  A word of a line is one cell, and so are a *)
(* blank, a newline and the NUL that string functions write; a path is read *)
(* from the word that stands for it.                                        *)
(***************************************************************************)
EXTENDS FileStore, FiniteSets, SequencesExt

CONSTANTS
  Cell,        \* the words in use, and what separates them
  PathText,    \* the text of a word used as a path: slashes, dots and names
  PathSize,    \* longest text a path buffer holds (255)
  BufferSize,  \* most cells run reads of a script (1024)
  TextSize,    \* longest text wt takes (255)
  MaxArgs,     \* words parse_args keeps of a line (15)
  MaxNest,     \* scripts inside one another the kernel stack has room for
  MaxResets,   \* bound on the resets
  Disk,        \* the files on the disk before the first boot
  Typed,       \* the lines typed at the prompt
  Faults,      \* what may go wrong: "reset", "io"
  StrayPaths,  \* bound on the paths a write to a damaged disk may reach,
  StrayData    \* and on what a file may hold then

ASSUME BufferAssumption ==
  PathSize \in Nat \ {0} /\ BufferSize \in Nat \ {0} /\ TextSize \in Nat
  /\ MaxArgs \in Nat \ {0} /\ MaxNest \in Nat \ {0} /\ MaxResets \in Nat
  /\ Faults \subseteq {"reset", "io"}

NUL == "NUL"
NL == "NL"
SP == " "
HASH == "#"
OPT == <<"OPT">>
USERNAME == <<"OPT", "USERNAME">>
UserText == <<"user">>

PathTexts == Seq(Cell \cup {"/", ".", ".."})

\* Files hold text, and so do the lines typed; "?" stands for cells that touch.
\* In the text of a path there is a slash between any two names.
ASSUME TextAssumption ==
  /\ Data = Seq(Cell) /\ Empty = <<>> /\ {NUL, NL, SP, HASH, "?", "user"} \subseteq Cell
  /\ Typed \subseteq Seq(Cell)
  /\ \A w \in DOMAIN PathText :
       /\ PathText[w] \in PathTexts \ {<<>>}
       /\ \A i \in 2..Len(PathText[w]) : "/" \in {PathText[w][i - 1], PathText[w][i]}

\* The disk the kernel is started with has files in its root.
ASSUME DiskAssumption ==
  /\ \A p \in DOMAIN Disk : (\E n \in Name : p = <<n>>) /\ Disk[p] \in Data
  /\ {"OPT", "USERNAME"} \subseteq Name /\ MaxPath \in Nat /\ MaxPath >= 2

ASSUME StrayAssumption == StrayPaths \subseteq Paths \ {RootPath} /\ StrayData \subseteq Data

VARIABLES
  pc,          \* where the kernel is
  cwd,         \* the text of the current directory
  argv,        \* the words of the command, argv[0] to argv[argc - 1]
  path,        \* what normalize_path made of argv[1] and argv[2]
  keep_alive,
  bfr,         \* the static buffer of CMDrun
  frames,      \* the calls of exec_script in progress, the innermost last
  resets,      \* history: resets so far
  calm,        \* history: no call of the file system failed since the boot
  intact       \* history: the clusters on the disk are a tree of files: no
               \* entry names a free one, one of another entry, or too few

kernel == <<cwd, argv, path, keep_alive, bfr, frames>>
store == <<tree, calm, intact>>
vars == <<tree, pc, cwd, argv, path, keep_alive, bfr, frames, resets, calm, intact>>

-----------------------------------------------------------------------------
(* Paths *)

\* ".." is two characters, anything else counts as one.
TextWidth(s) == Len(s) + Cardinality({i \in DOMAIN s : s[i] = ".."})

UpTo(s, k) == SubSeq(s, 1, k)

\* What fits into a path buffer: the rest is dropped, also in the middle of "..".
Cut(s) ==
  IF TextWidth(s) <= PathSize THEN s
  ELSE LET k == CHOOSE k \in 0..(Len(s) - 1) :
                  TextWidth(UpTo(s, k)) <= PathSize /\ TextWidth(UpTo(s, k + 1)) > PathSize
       IN IF TextWidth(UpTo(s, k)) = PathSize THEN UpTo(s, k) ELSE Append(UpTo(s, k), ".")

Absolute(arg) ==
  IF arg[1] = "/" THEN arg
  ELSE IF TextWidth(cwd) > 1 /\ TextWidth(cwd) < PathSize THEN cwd \o <<"/">> \o arg
  ELSE cwd \o arg

LastSlash(s) == CHOOSE i \in DOMAIN s : s[i] = "/" /\ \A j \in (i + 1)..Len(s) : s[j] # "/"

\* Mutant: the slash at the end is not taken away first, so that a second ".."
\* goes nowhere.
ParentTextStuck(s) == UpTo(s, LastSlash(s))

\* ".." takes a trailing slash and the last component, not the slash before it.
ParentText(s) ==
  LET t == IF Len(s) > 1 /\ s[Len(s)] = "/" THEN Front(s) ELSE s
  IN UpTo(t, LastSlash(t))

AddComponent(s, c) ==
  CASE c \in {"/", "."} -> s
    [] c = ".."         -> ParentText(s)
    [] OTHER            -> IF s[Len(s)] = "/" THEN Append(s, c) ELSE s \o <<"/", c>>

Components(s) ==
  LET result[i \in 0..Len(s)] ==
        IF i = 0 THEN <<"/">> ELSE AddComponent(result[i - 1], s[i])
  IN result[Len(s)]

NormalizePath(arg) == Components(Cut(Absolute(arg)))

\* The k-th of a set of places.
Nth(S, k) == CHOOSE i \in S : Cardinality({j \in S : j < i}) = k - 1

\* The names fat32_resolve_path reads from a text.
Names(s) ==
  LET at == {i \in DOMAIN s : s[i] # "/"}
  IN [k \in 1..Cardinality(at) |-> s[Nth(at, k)]]

TextOf(w) == IF w \in DOMAIN PathText THEN PathText[w] ELSE <<w>>
PathsOf(w) == [k \in 1..(Len(w) - 1) |-> NormalizePath(TextOf(w[k + 1]))]

-----------------------------------------------------------------------------
(* Lines *)

\* The string that begins at cell i: up to the next NUL.
StringAt(b, i) ==
  SubSeq(b, i, CHOOSE e \in (i - 1)..Len(b) :
                 (e = Len(b) \/ b[e + 1] = NUL) /\ \A j \in i..e : b[j] # NUL)

WordStarts(s) == {i \in 1..Len(s) : s[i] # SP /\ (i = 1 \/ s[i - 1] = SP)}

\* Mutant: the place argv has for its NULL at the end is used for a word.
KeptStartsAll(s) ==
  {i \in WordStarts(s) : Cardinality({j \in WordStarts(s) : j < i}) <= MaxArgs}

KeptStarts(s) ==
  {i \in WordStarts(s) : Cardinality({j \in WordStarts(s) : j < i}) < MaxArgs}

\* parse_args: the words of a string, and the blanks it overwrites with NUL.
\* Cells that touch are a word no command or file has.
Words(s) ==
  LET Start(k) == Nth(KeptStarts(s), k)
  IN [k \in 1..Cardinality(KeptStarts(s)) |->
        IF Start(k) = Len(s) \/ s[Start(k) + 1] = SP THEN s[Start(k)] ELSE "?"]
WordEnds(s) ==
  {e \in 1..Len(s) : s[e] = SP /\ \E i \in KeptStarts(s) : i < e /\ \A j \in i..(e - 1) : s[j] # SP}

\* Mutant: the end of a line is also looked for at the NUL put there before.
LineEndAtNul(b, i, size) ==
  CHOOSE e \in i..(size + 1) :
    (e > size \/ b[e] \in {NL, NUL}) /\ \A j \in i..(e - 1) : b[j] \notin {NL, NUL}

\* The cell behind the line that begins at cell i, in the first size cells.
LineEnd(b, i, size) ==
  CHOOSE e \in i..(size + 1) : (e > size \/ b[e] = NL) /\ \A j \in i..(e - 1) : b[j] # NL

SkipNewlines(b, i, size) ==
  CHOOSE e \in i..(size + 1) : (e > size \/ b[e] # NL) /\ \A j \in i..(e - 1) : b[j] = NL

\* Mutant: the line is not ended before it is taken apart.
TerminatedNot(b, e, size) == b

Terminated(b, e, size) == IF e <= size THEN [b EXCEPT ![e] = NUL] ELSE b

\* The buffer after parse_args has taken apart the line at cell i.
Parsed(b, i, line) ==
  LET ends == WordEnds(line)
  IN [j \in DOMAIN b |-> IF j - i + 1 \in ends THEN NUL ELSE b[j]]

-----------------------------------------------------------------------------
(* The boot: kmain, then the first lines of shell_poweron *)

Blank == [i \in 1..(BufferSize + 1) |-> NUL]

Init ==
  /\ tree = [p \in {RootPath} \cup DOMAIN Disk |->
               IF p = RootPath THEN Directory ELSE FileOf(Disk[p])]
  /\ pc = "opendir" /\ cwd = <<"/">> /\ argv = <<>> /\ path = <<>> /\ keep_alive = TRUE
  /\ bfr = Blank /\ frames = <<>> /\ resets = 0 /\ calm = TRUE /\ intact = TRUE

\* A call of the file system reports an error: the device has failed, or was
\* full, or the call met a free or missing cluster of a damaged disk.
Failing ==
  \/ "io" \in Faults /\ calm' = FALSE
  \/ ~intact /\ UNCHANGED calm

\* Most calls have one write that makes the difference: a call that fails has
\* changed nothing, or reports as failed what it has done.
CallFails(Effect) == Failing /\ (Effect \/ UNCHANGED tree) /\ UNCHANGED intact
DeviceFails == CallFails(UNCHANGED tree)

\* The others: mkdir takes the cluster back from under the entry it wrote, if
\* that write was reported as failed,
FreedUnderEntry(p) == MakeDirectory(p) /\ intact' = FALSE

\* and rename, failing between its two writes, leaves both names on one chain.
BothNames(p, q) ==
  /\ CanMake(q) /\ tree' = With(q, tree[p])
  /\ intact' = (intact /\ tree[p].data = <<>>)

\* A truncation to zero frees the chain and leaves the entry on its first
\* cluster, whether it fails or not.
Truncate(p, size) ==
  /\ SetData(p, SubSeq(tree[p].data, 1, size))
  /\ intact' = (intact /\ (size > 0 \/ tree[p].data = <<>>))

\* One that fails may have cut the chain and left the size.
CutShort(p, size) ==
  IsFile(p) /\ size < Len(tree[p].data) /\ UNCHANGED tree /\ intact' = FALSE

BootStep(from) == pc = from /\ UNCHANGED <<kernel, resets>>

OpenDirectory ==
  /\ BootStep("opendir")
  /\ \/ UNCHANGED store /\ pc' = IF IsDirectory(OPT) THEN "open" ELSE "mkdir"
     \/ DeviceFails /\ pc' = "mkdir"

MakeOpt ==
  /\ BootStep("mkdir")
  /\ \/ MakeDirectory(OPT) /\ UNCHANGED <<calm, intact>>
     \/ ~CanMake(OPT) /\ UNCHANGED store
     \/ CallFails(MakeDirectory(OPT))
     \/ Failing /\ FreedUnderEntry(OPT)
  /\ pc' = "create"

\* Both places that create the file go on with a write to it, whether or not
\* there is a file: the handle is then what the stack held, and the write is
\* refused or the machine faults.
CreateName(from, filled, after) ==
  /\ BootStep(from)
  /\ \/ CreateFile(USERNAME) /\ pc' = filled /\ UNCHANGED <<calm, intact>>
     \/ ~CanMake(USERNAME) /\ pc' \in {after, "fault"} /\ UNCHANGED store
     \/ CallFails(CreateFile(USERNAME)) /\ pc' \in {after, "fault"}

\* The file is there, unless a stray write has taken it away.
FillName(from, after) ==
  /\ BootStep(from)
  /\ \/ SetData(USERNAME, UserText) /\ UNCHANGED <<calm, intact>>
     \/ ~IsFile(USERNAME) /\ UNCHANGED store
     \/ CallFails(SetData(USERNAME, UserText))
  /\ pc' = after

\* Mutant: the second look for the file is left out, since the first made it.
OpenNameTrusted == BootStep("open") /\ pc' = "start" /\ UNCHANGED store

\* The second place looks for the file itself: the directory may be there
\* without it.
OpenName ==
  /\ BootStep("open")
  /\ \/ UNCHANGED store /\ pc' = IF IsFile(USERNAME) THEN "start" ELSE "create2"
     \/ DeviceFails /\ pc' = "create2"

\* shell_poweron needs a user name of at least one byte; without one it returns
\* and kmain halts.
StartShell ==
  /\ BootStep("start")
  /\ \/ /\ pc' = IF IsFile(USERNAME) /\ tree[USERNAME].data # <<>> THEN "prompt" ELSE "halted"
        /\ UNCHANGED store
     \/ DeviceFails /\ pc' = "halted"

Boot ==
  \/ OpenDirectory \/ MakeOpt \/ OpenName \/ StartShell
  \/ CreateName("create", "fill", "open") \/ FillName("fill", "open")
  \/ CreateName("create2", "fill2", "start") \/ FillName("fill2", "start")

\* The reset button, or the processor's answer to a fault or a stack overflow:
\* the kernel starts again with the disk as it is.  A reset inside a call
\* leaves what one of the ways to fail leaves.
Reset ==
  /\ \/ pc \in {"fault", "overflow"}
     \/ "reset" \in Faults
  /\ resets < MaxResets
  /\ resets' = resets + 1
  /\ pc' = "opendir" /\ cwd' = <<"/">> /\ argv' = <<>> /\ path' = <<>> /\ keep_alive' = TRUE
  /\ bfr' = Blank /\ frames' = <<>> /\ calm' = TRUE
  /\ UNCHANGED <<tree, intact>>

-----------------------------------------------------------------------------
(* Commands: exec and the functions it calls *)

\* exec_script skips the newlines where it is once the command is done.
Skipped(b, fs) ==
  IF fs = <<>> THEN fs
  ELSE [fs EXCEPT ![Len(fs)].position = SkipNewlines(b, @, fs[Len(fs)].size)]

Loop(fs) == IF fs = <<>> THEN "prompt" ELSE "script"

\* The command is done: back in the loop that called exec.
Return == pc' = Loop(frames) /\ frames' = Skipped(bfr, frames)

\* fat32.c refuses names that are not 8.3 names.
Makeable(p) == Range(p) \subseteq Name /\ Len(p) <= MaxPath /\ CanMake(p)

Sizes == [w \in {"0", "1", "2"} |-> CASE w = "0" -> 0 [] w = "1" -> 1 [] w = "2" -> 2]

Arity == [mf |-> 2, md |-> 2, rmf |-> 2, rmd |-> 2, mv |-> 3, trc |-> 3,
          cd |-> 2, wt |-> 3, run |-> 2]
Command == IF argv = <<>> THEN "" ELSE argv[1]
Given == Command \in DOMAIN Arity /\ Len(argv) >= Arity[Command]

At(c) == pc = "exec" /\ Given /\ Command = c

\* A command that is one call of the file system: it takes effect, is refused
\* and changes nothing, or fails, after all, nothing or a part of it was done.
Call(c, allowed, Effect, Part) ==
  /\ At(c)
  /\ \/ allowed /\ Effect /\ UNCHANGED calm
     \/ ~allowed /\ UNCHANGED store
     \/ Failing /\ ((allowed /\ (Effect \/ Part)) \/ UNCHANGED <<tree, intact>>)
  /\ Return
  /\ UNCHANGED <<cwd, argv, path, keep_alive, bfr, resets>>

P == Names(path[1])
Q == Names(path[2])

CMDmf == Call("mf", Makeable(P), CreateFile(P) /\ UNCHANGED intact, FALSE)
CMDmkdir == Call("md", Makeable(P), MakeDirectory(P) /\ UNCHANGED intact, FreedUnderEntry(P))
CMDrmf == Call("rmf", IsFile(P), RemoveFile(P) /\ UNCHANGED intact, FALSE)
CMDrmd == Call("rmd", IsEmptyDirectory(P), RemoveEmptyDirectory(P) /\ UNCHANGED intact, FALSE)
CMDmv == Call("mv", IsFile(P) /\ Makeable(Q), Rename(P, Q) /\ UNCHANGED intact, BothNames(P, Q))
CMDtrc ==
  LET size == Sizes[argv[3]]
  IN Call("trc", argv[3] \in DOMAIN Sizes /\ IsFile(P) /\ size <= Len(tree[P].data),
          Truncate(P, size), CutShort(P, size))

\* Only into a directory that is there now.
CMDcd ==
  /\ At("cd")
  /\ \/ cwd' = (IF IsDirectory(P) THEN path[1] ELSE cwd)
        /\ UNCHANGED store
     \/ DeviceFails /\ UNCHANGED cwd
  /\ Return
  /\ UNCHANGED <<argv, path, keep_alive, bfr, resets>>

\* The text of wt: its words from the third on, a blank between any two.
Text ==
  [i \in 1..(2 * (Len(argv) - 2) - 1) |->
     IF i % 2 = 1 THEN argv[2 + (i + 1) \div 2] ELSE SP]

\* CMDwt opens the file, or creates it if it is not there; it is created even
\* if the text turns out to be too long.
CMDwt ==
  /\ At("wt")
  /\ \/ /\ \/ IsFile(P) /\ UNCHANGED tree
           \/ Makeable(P) /\ CreateFile(P)
        /\ IF Len(Text) <= TextSize THEN pc' = "write" /\ UNCHANGED frames ELSE Return
        /\ UNCHANGED <<calm, intact>>
     \/ ~IsFile(P) /\ ~Makeable(P) /\ Return /\ UNCHANGED store
     \/ CallFails(Makeable(P) /\ CreateFile(P)) /\ Return
  /\ UNCHANGED <<cwd, argv, path, keep_alive, bfr, resets>>

\* Its second call: the text goes over the beginning of the file.  If it fails
\* before the size is written, what fits into the old size may be there.
FinishText ==
  LET old == tree[P].data
      new == Text \o SubSeq(old, Len(Text) + 1, Len(old))
  IN /\ pc = "write"
     /\ \/ SetData(P, new) /\ UNCHANGED <<calm, intact>>
        \/ ~IsFile(P) /\ UNCHANGED store
        \/ CallFails(SetData(P, new) \/ SetData(P, SubSeq(new, 1, Len(old))))
     /\ Return
     /\ UNCHANGED <<cwd, argv, path, keep_alive, bfr, resets>>

Exit ==
  /\ pc = "exec" /\ Command = "exit"
  /\ keep_alive' = FALSE /\ Return
  /\ UNCHANGED <<store, cwd, argv, path, bfr, resets>>

\* Commands that only print, unknown ones, and ones with too few arguments.
OnlyPrint ==
  /\ pc = "exec" /\ ~Given /\ Command # "exit"
  /\ Return
  /\ UNCHANGED <<store, cwd, argv, path, keep_alive, bfr, resets>>

Frame(text) ==
  [position |-> 1, size |-> Len(text), text |-> text, done |-> {}, nested |-> FALSE]
Nested == IF frames = <<>> THEN frames ELSE [frames EXCEPT ![Len(frames)].nested = TRUE]
Loaded(text) == [i \in DOMAIN bfr |-> IF i <= Len(text) THEN text[i] ELSE bfr[i]]

\* CMDrun reads the file into its static buffer, over the script that is being
\* run, if any, and calls exec_script for it.  A file that is not there or is
\* empty is not run.  A read that fails may have replaced a part of the buffer.
CMDrun ==
  LET there == IsFile(P) /\ tree[P].data # <<>>
      text == LET data == tree[P].data
              IN SubSeq(data, 1, IF Len(data) < BufferSize THEN Len(data) ELSE BufferSize)
  IN /\ At("run")
     /\ \/ ~there /\ Return /\ UNCHANGED <<store, bfr>>
        \/ /\ there /\ Len(frames) < MaxNest
           /\ bfr' = [Loaded(text) EXCEPT ![Len(text) + 1] = NUL]
           /\ frames' = Append(Nested, Frame(text))
           /\ pc' = "script" /\ UNCHANGED store
        \/ /\ there /\ Len(frames) = MaxNest
           /\ pc' = "overflow" /\ UNCHANGED <<store, bfr, frames>>
        \/ /\ DeviceFails
           /\ \E k \in {0, BufferSize \div 2} :
                /\ k > 0 => there /\ k < Len(text)
                /\ bfr' = IF k > 0 THEN Loaded(SubSeq(text, 1, k)) ELSE bfr
                /\ frames' = Skipped(bfr', Nested)
           /\ pc' = Loop(frames)
     /\ UNCHANGED <<cwd, argv, path, keep_alive, resets>>

exec ==
  \/ CMDmf \/ CMDmkdir \/ CMDrmf \/ CMDrmd \/ CMDmv \/ CMDtrc \/ CMDcd \/ CMDwt
  \/ FinishText \/ CMDrun \/ Exit \/ OnlyPrint

Writes ==
  \/ pc \in {"mkdir", "create", "fill", "create2", "fill2", "write"}
  \/ \E c \in {"mf", "md", "rmf", "rmd", "mv", "trc", "wt"} : At(c)

\* On a damaged disk a call frees, takes or writes clusters that are another
\* file's or another directory's as well: with each of its writes a path may
\* vanish, with all that is below it, or appear, or be something else.
StrayWrite ==
  /\ ~intact /\ Writes
  /\ \E q \in StrayPaths :
       LET kept == {p \in DOMAIN tree : ~IsPrefix(q, p)}
       IN \/ tree' = [p \in kept |-> tree[p]]
          \/ /\ IsDirectory(Parent(q))
             /\ \E node \in {Directory} \cup {FileOf(d) : d \in StrayData} :
                  tree' = [p \in kept \cup {q} |-> IF p = q THEN node ELSE tree[p]]
  /\ UNCHANGED <<pc, kernel, resets, calm, intact>>

-----------------------------------------------------------------------------
(* The loops that read commands *)

\* shell_poweron: a line is typed.
TypeLine ==
  /\ pc = "prompt" /\ keep_alive
  /\ \E line \in Typed : argv' = Words(line)
  /\ path' = PathsOf(argv')
  /\ pc' = "exec"
  /\ UNCHANGED <<store, cwd, keep_alive, bfr, frames, resets>>

Leave ==
  /\ pc = "prompt" /\ ~keep_alive
  /\ pc' = "left"
  /\ UNCHANGED <<store, kernel, resets>>

\* Mutant: the loop of a script does not look at keep_alive.
GoesOnAlways(fr) == fr.position <= fr.size

GoesOn(fr) == fr.position <= fr.size /\ keep_alive

\* The line of the innermost script that its loop takes next.
Here == Last(frames)
End == LineEnd(bfr, Here.position, Here.size)
Ended == Terminated(bfr, End, Here.size)
Line == StringAt(Ended, Here.position)
Ignored(line) == line = <<>> \/ IsPrefix(<<HASH>>, line)

\* exec_script: a blank line, a comment, or a line of blanks.
IgnoreLine ==
  /\ pc = "script" /\ GoesOn(Here)
  /\ \E line \in {Line} :
       /\ Ignored(line) \/ Words(line) = <<>>
       /\ argv' = IF Ignored(line) THEN argv ELSE <<>>
  /\ UNCHANGED path
  /\ bfr' = Ended
  /\ frames' = Skipped(bfr', [frames EXCEPT ![Len(frames)].position = End])
  /\ UNCHANGED <<store, pc, cwd, keep_alive, resets>>

\* exec_script: a command.  The words are cut out of the buffer in place.
ParseLine ==
  /\ pc = "script" /\ GoesOn(Here)
  /\ \E line \in {Line} :
       /\ ~Ignored(line) /\ Words(line) # <<>>
       /\ argv' = Words(line)
       /\ path' = PathsOf(argv')
       /\ bfr' = Parsed(Ended, Here.position, line)
  /\ frames' = [frames EXCEPT ![Len(frames)].position = End,
                              ![Len(frames)].done = @ \cup {<<Here.position, argv'>>}]
  /\ pc' = "exec"
  /\ UNCHANGED <<store, cwd, keep_alive, resets>>

\* The script is at its end, or exit was run: CMDrun returns to the script that
\* called it, or to the prompt.
ScriptEnds ==
  LET outer == Front(frames)
  IN /\ pc = "script" /\ ~GoesOn(Here)
     /\ argv' = <<>> /\ path' = <<>>
     /\ frames' = Skipped(bfr, outer)
     /\ pc' = Loop(outer)
     /\ UNCHANGED <<store, cwd, keep_alive, bfr, resets>>

exec_script == IgnoreLine \/ ParseLine \/ ScriptEnds

Next == Boot \/ TypeLine \/ exec \/ exec_script \/ Leave \/ StrayWrite \/ Reset

\* The kernel's one thread goes on by itself; nobody has to type or to press
\* the reset button.
Fairness == WF_vars(Boot \/ exec \/ exec_script \/ Leave)

ShellSpec == Init /\ [][Next]_vars /\ Fairness

-----------------------------------------------------------------------------
(* Properties *)

BootPlaces == {"opendir", "mkdir", "create", "fill", "open", "create2", "fill2", "start"}

TypeOK ==
  /\ DOMAIN tree \subseteq Paths /\ tree[RootPath] = Directory
  /\ \A p \in DOMAIN tree : tree[p].kind \in {"dir", "file"} /\ tree[p].data \in Data
  /\ pc \in BootPlaces \cup {"prompt", "exec", "write", "script", "left", "halted", "fault", "overflow"}
  /\ TextWidth(cwd) <= PathSize /\ cwd[1] = "/"
  /\ Len(argv) <= MaxArgs /\ keep_alive \in BOOLEAN /\ calm \in BOOLEAN /\ intact \in BOOLEAN
  /\ Len(bfr) = BufferSize + 1 /\ resets \in 0..MaxResets
  /\ Len(frames) <= MaxNest
  /\ \A k \in DOMAIN frames :
       /\ frames[k].size \in 1..BufferSize
       /\ frames[k].position \in 1..(frames[k].size + 1)
  /\ pc = "script" => frames # <<>>

(* A path never leads through a file or through a directory that is gone: the *)
(* current directory may be removed under the shell, from inside itself, and  *)
(* no command given there afterwards hangs anything below it.                 *)
TreeHangsTogether == \A p \in DOMAIN tree \ {RootPath} : IsDirectory(Parent(p))

\* What a path text names, read name by name.
Follow(from, text) ==
  LET at[i \in 0..Len(text)] ==
        IF i = 0 THEN from
        ELSE CASE text[i] \in {"/", "."} -> at[i - 1]
               [] text[i] = ".."        -> IF at[i - 1] = <<>> THEN <<>> ELSE Front(at[i - 1])
               [] OTHER                 -> Append(at[i - 1], text[i])
  IN at[Len(text)]
Named(w) ==
  LET text == TextOf(w)
  IN Follow(IF text[1] = "/" THEN <<>> ELSE Follow(<<>>, cwd), text)

Fits(w) == Cut(Absolute(TextOf(w))) = Absolute(TextOf(w))
Changed == {p \in DOMAIN tree \cup DOMAIN tree' :
              ~(p \in DOMAIN tree /\ p \in DOMAIN tree' /\ tree'[p] = tree[p])}

(* A command changes no path but those its words name, wherever the shell is  *)
(* and however the text climbs up and down: what normalize_path makes of the  *)
(* word is the path a reader would follow, as long as it fits into 255        *)
(* characters.  A text that does not fit is cut, and names something else.    *)
(* The command that damages the disk is still held to it; those after it are  *)
(* not: a mv that failed half-way has left two names for one text, and the    *)
(* file trc cut to nothing takes clusters that are given to others.           *)
OnlyNamedPathsChange ==
  [][pc \notin BootPlaces /\ intact /\ (\A k \in 2..Len(argv) : Fits(argv[k]))
     => Changed \subseteq {Named(argv[k]) : k \in 2..Len(argv)}]_vars

(* Once exit has run, in a script at any depth or at the prompt, no further   *)
(* command does anything until the machine starts again, although every       *)
(* exec_script in progress still returns through its caller's loop.           *)
ExitEndsAll ==
  [][~keep_alive /\ resets' = resets => ~keep_alive' /\ UNCHANGED <<tree, cwd>>]_vars

\* The lines of a text that are commands, and where they begin.  A NUL byte in
\* a file ends the line for the functions that take it apart.
Commands(text) ==
  LET Cells(i) == StringAt(SubSeq(text, i, LineEnd(text, i, Len(text)) - 1), 1)
      starts == {i \in DOMAIN text : (i = 1 \/ text[i - 1] = NL) /\ text[i] # NL}
  IN {<<i, Words(Cells(i))>> : i \in
        {i \in starts : ~Ignored(Cells(i)) /\ Words(Cells(i)) # <<>>}}

(* A script that runs no other script executes nothing but whole lines of its *)
(* own file, with their own words, although the words are cut out of the      *)
(* buffer in place and the buffer still holds an earlier script behind it.    *)
NothingElseRuns ==
  \A k \in DOMAIN frames : ~frames[k].nested => frames[k].done \subseteq Commands(frames[k].text)

(* A script comes to its end, or to the end of the kernel's stack: the loop   *)
(* of exec_script always moves on, also over the NULs that it wrote itself    *)
(* and in a buffer another script was loaded into.                            *)
ScriptsEnd == frames # <<>> ~> frames = <<>> \/ pc = "overflow"

(* shell.c:1250 "run - Run a file with commands", and the comment of its      *)
(* loop, "Skip \r and/or \n": a script that was not left by exit has run all  *)
(* of its commands.                                                           *)
EveryLineRuns ==
  pc = "script" /\ keep_alive =>
    LET fr == Last(frames)
    IN fr.position > fr.size /\ ~fr.nested => Commands(fr.text) \subseteq fr.done

\* A disk the kernel can start from: /OPT is no file, and the user name, if
\* there is one, is a file with a name in it.
Bootable ==
  /\ ~IsFile(OPT)
  /\ Exists(USERNAME) => IsFile(USERNAME) /\ tree[USERNAME].data # <<>>

(* A kernel that starts on such a disk reaches the prompt, unless the device  *)
(* fails or the machine is reset: also when an earlier start was cut off      *)
(* between making the directory and creating the file in it.  It need not on  *)
(* a damaged disk: if a start is cut off after a mkdir that was reported as   *)
(* failed has freed the cluster of /OPT, the next one writes the user name    *)
(* over the directory that holds its entry, and halts.                        *)
BootReachesPrompt ==
  \A r \in 0..MaxResets :
    pc = "opendir" /\ Bootable /\ intact /\ resets = r ~> pc = "prompt" \/ ~calm \/ resets > r
=============================================================================
