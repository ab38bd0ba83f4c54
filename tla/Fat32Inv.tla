------------------------------ MODULE Fat32Inv ------------------------------
(* The inductive invariant behind TypeOK and SoundVolume: what the locals of  *)
(* the operation in progress mean for the volume at each of its steps.        *)
EXTENDS Fat32

(* The workloads under which every step keeps the volume sound.  What it      *)
(* leaves out is where the code does not: a truncation to zero, a rename that *)
(* a failure can interrupt, and the rollbacks after a failed write of a link  *)
(* or of the entry of a new directory.                                        *)
Tame ==
  /\ 0 \notin TruncSizes
  /\ "rename" \in Ops => Faults = {}
  /\ "io" \in Faults => /\ "mkdir" \notin Ops
                        /\ \A w \in Writes : w[1] + w[2] <= ClusterSize

-----------------------------------------------------------------------------
(* Types of the locals, label by label *)

Allocating == {"alloc", "mark", "zero", "link"}

FrameTypes ==
  /\ f.pc = "idle" => f = Idle
  /\ f.pc # "idle" => f.op # "none" /\ f.dir \in Cluster
  /\ f.pc \in {"mark", "zero", "link", "undo", "initdir"} => f.new \in Cluster
  /\ f.pc \in {"link", "walk", "data", "free", "seek", "cut"} => f.cur \in Cluster
  /\ f.pc = "entry" => /\ f.name \in Name
                       /\ f.op \in {"create", "mkdir", "rename"}
                       /\ f.op = "mkdir" => f.new \in Cluster
  /\ f.pc = "delete" => f.op \in {"rename", "remove", "rmdir"}
  /\ f.op = "rename" => f.sdir \in Cluster
  /\ f.pc = "initdir" => f.op = "mkdir" /\ f.name \in Name
  /\ f.pc \in {"walk", "link", "data"} => f.op = "write"
  /\ f.pc \in Allocating => f.op \in {"write", "mkdir"}
  /\ f.pc \in Allocating /\ f.op = "mkdir" => f.name \in Name
  /\ f.op = "write" /\ f.pc \in Allocating \cup {"walk"} =>
       /\ f.from <= f.upto /\ f.at <= f.upto
       /\ f.first = 0 => f.at = 0 /\ f.pc \in Allocating \ {"link"}
       /\ f.first # 0 => f.cur \in Cluster
       /\ f.at > f.from => f.next \in Cluster
       /\ f.pc \in Allocating /\ f.first # 0 =>
            f.at < f.upto /\ (f.at = f.from => f.next \in Cluster)

-----------------------------------------------------------------------------
(* What the locals g of the operation in progress mean for a volume with the  *)
(* FAT G and the tables T.                                                    *)

LinkedIn(G, c) == \E a \in Cluster : G[a] = c
NamedIn(T, c) == \E d \in Cluster, s \in Slot : Live(T[d][s]) /\ T[d][s].cluster = c
DirectoryIn(T, c) == \E d \in Cluster, s \in Slot : T[d][s].kind = "dir" /\ T[d][s].cluster = c
HomeIn(T, d) == d = Root \/ DirectoryIn(T, d)

\* The head of a chain that nothing on disk names.
LooseIn(G, T, c) == G[c] # FREE /\ ~LinkedIn(G, c) /\ c # Root /\ ~NamedIn(T, c)
FreshIn(G, T, c) == LooseIn(G, T, c) /\ G[c] = EOC

Subject(T, g) == T[g.dir][g.slot]
EntersFree(T, g) ==
  SlotFree(Subject(T, g)) /\ \A t \in 0..(g.slot - 1) : ~SlotFree(T[g.dir][t])

\* A cluster of the chain that begins at g.first.
InChain(G, g, c) == G[c] # FREE /\ (c = g.first \/ LinkedIn(G, c))

\* The file an operation works on, whose first cluster its entry may not name yet.
HoldsFile(G, T, g) ==
  /\ Subject(T, g).kind = "file"
  /\ Subject(T, g).cluster # g.first => Subject(T, g).cluster = 0 /\ LooseIn(G, T, g.first)

NewCluster(G, T, g) ==
  /\ g.pc = "mark" => IF g.copy = 1 THEN G[g.new] = FREE ELSE FreshIn(G, T, g.new)
  /\ g.pc \in {"zero", "initdir"} => FreshIn(G, T, g.new)
  /\ g.pc = "undo" /\ g.copy = 1 => FreshIn(G, T, g.new)

WriteSound(G, T, g) == g.op = "write" =>
  /\ Subject(T, g).kind = "file"
  /\ g.pc \in Allocating \cup {"walk", "data", "update", "undo"}
  /\ g.first = 0 => /\ g.pc \in {"alloc", "mark", "zero", "undo"}
                    /\ Subject(T, g).cluster = 0 /\ g.next = 0
  /\ g.first # 0 /\ g.pc # "undo" =>
       /\ HoldsFile(G, T, g)
       /\ g.pc # "update" => InChain(G, g, g.cur)
       /\ g.pc \in Allocating \cup {"walk"} /\ g.next # 0 =>
            g.next \in Cluster /\ InChain(G, g, g.next)
       /\ g.pc \in Allocating \ {"link"} => G[g.cur] = EOC
       /\ g.pc \in {"mark", "zero", "link"} => g.new # g.first /\ g.new # g.cur
  /\ g.pc = "link" => IF g.copy = 1 THEN FreshIn(G, T, g.new) /\ G[g.cur] = EOC
                      ELSE G[g.cur] = g.new

CreateSound(T, g) == g.op = "create" => g.pc = "entry" /\ g.first = 0 /\ EntersFree(T, g)

MkdirSound(G, T, g) == g.op = "mkdir" =>
  /\ g.pc \in {"alloc", "mark", "zero", "initdir", "entry", "undo"}
  /\ EntersFree(T, g)
  /\ g.pc = "entry" => FreshIn(G, T, g.new)

RenameSound(T, g) == g.op = "rename" =>
  LET source == T[g.sdir][g.sslot]
  IN /\ g.pc \in {"entry", "delete"}
     /\ source.kind = "file" /\ source.cluster = g.first
     /\ <<g.dir, g.slot>> # <<g.sdir, g.sslot>>
     /\ g.pc = "entry" => EntersFree(T, g)
     /\ g.pc = "delete" => Subject(T, g).kind = "file" /\ Subject(T, g).cluster = g.first

RemoveSound(T, g) == g.op \in {"remove", "rmdir"} =>
  /\ g.pc \in {"delete", "free"}
  /\ g.pc = "delete" =>
       /\ Live(Subject(T, g)) /\ Subject(T, g).cluster = g.first
       /\ g.op = "remove" => Subject(T, g).kind = "file"
       /\ g.op = "rmdir" => \A s \in Slot : g.first # 0 => ~Live(T[g.first][s])

TruncateSound(G, T, g) == g.op = "truncate" =>
  /\ g.pc \in {"seek", "cut", "free", "size"}
  /\ Subject(T, g).kind = "file" /\ Subject(T, g).cluster = g.first
  /\ g.pc \in {"seek", "cut"} /\ g.copy = 1 => InChain(G, g, g.cur)
  /\ g.pc = "cut" /\ g.copy > 1 =>
       G[g.cur] = EOC /\ (g.next \in Cluster => LooseIn(G, T, g.next))

Freeing(G, T, g) == g.pc = "free" =>
  IF g.copy = 1 THEN LooseIn(G, T, g.cur)
  ELSE G[g.cur] = FREE /\ (g.next \in Cluster => LooseIn(G, T, g.next))

\* Under Tame a step that can fail is never one whose rollback is unsound.
FailureSound(g) == "io" \in Faults /\ g.op = "write" => g.upto = 0

InProgress(G, T, g) ==
  /\ g.pc \notin FatSteps => g.copy = 1
  /\ g.pc # "idle" => HomeIn(T, g.dir)
  /\ NewCluster(G, T, g) /\ WriteSound(G, T, g) /\ CreateSound(T, g)
  /\ MkdirSound(G, T, g) /\ RenameSound(T, g) /\ RemoveSound(T, g)
  /\ TruncateSound(G, T, g) /\ Freeing(G, T, g) /\ FailureSound(g)

\* 0x00 entries come last in every table.
EndsLast == \A d \in Cluster, s, t \in Slot :
  s < t /\ table[d][s].kind = "end" => table[d][t].kind = "end"

FrameSound == InProgress(fat[1], table, f)

(* The inductive invariant: the volume is sound, and the operation in         *)
(* progress is where its locals say it is.                                    *)
IInv == TypeOK /\ FrameTypes /\ SoundVolume /\ EndsLast /\ FrameSound
=============================================================================
