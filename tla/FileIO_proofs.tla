--------------------------- MODULE FileIO_proofs ---------------------------
(* What fat32_read, fat32_write and fat32_truncate do to the bytes of a file, *)
(* for sectors, clusters and files of any size.                               *)
EXTENDS FileIO, TLAPS, WellFoundedInduction, FiniteSetTheorems, SequenceTheorems

-----------------------------------------------------------------------------
(* The inductive invariant *)

\* ch lists the n clusters of the chain that begins with h.
Own(G, h, n, ch) ==
  /\ n \in Nat \ {0} /\ ch \in [0..(n - 1) -> Cluster] /\ ch[0] = h
  /\ \A i, j \in 0..(n - 1) : ch[i] = ch[j] => i = j
  /\ \A i \in 0..(n - 1) : G[ch[i]] = IF i = n - 1 THEN EOC ELSE ch[i + 1]
\* The cluster of the other file is none of them.
Apart(n, ch) == \A i \in 0..(n - 1) : ch[i] # other

\* The byte at position p of a chain on a disk D.
SectorOf(ch, p) == LBA(ch[p \div ClusterSize], p % ClusterSize)
InSectorOf(p) == ((p % ClusterSize) % SectorSize) + 1
ByteAt(D, ch, p) == D[SectorOf(ch, p)][InSectorOf(p)]

\* The first cluster of an entry can have been freed by a truncation to zero.
Allocated == entry.first # 0 /\ next[entry.first] # FREE
EntrySound ==
  IF Allocated THEN \E n, ch : /\ Own(next, entry.first, n, ch) /\ Apart(n, ch)
                                  /\ entry.size <= n * ClusterSize
  ELSE entry.size = 0

HandleSound == file.open =>
  /\ file.size = entry.size /\ file.position <= file.size
  /\ file.first = entry.first \/ (file.first = 0 /\ ~Allocated)

Resting == EntrySound /\ HandleSound /\ WriteKeepsRest /\ DoneIsOnDisk /\ ReadsBack

Position == call.start + call.done

\* A call whose file has no cluster yet.
Without ==
  /\ call.op = "write" /\ call.pc = "first" /\ call.done = 0 /\ call.index = 0
  /\ file.first = 0 /\ call.old.first = 0 /\ ~Allocated /\ entry.size = 0

\* The entry on the disk names the chain, or its file is empty.
Named(n, ch) ==
  \/ entry.first = file.first /\ call.old.first = file.first
  \/ /\ call.op = "write" /\ call.old.first = 0 /\ entry.size = 0
     /\ ~Allocated \/ \E k \in 0..(n - 1) : entry.first = ch[k]

\* Where in the chain the call is, at each label.
Located(n, ch) ==
  /\ call.pc = "walk" =>
       /\ call.done = 0 /\ call.index \in 0..(n - 1) /\ call.cluster = ch[call.index]
       /\ call.op = "write" => /\ call.index <= FinalIndex
                               /\ call.index > StartIndex => call.from = ch[StartIndex]
  /\ call.pc # "walk" => call.start + call.size <= n * ClusterSize
  /\ call.pc \in {"data", "put"} =>
       /\ call.done < call.size
       /\ call.cluster = ch[Position \div ClusterSize] /\ call.offset = Position % ClusterSize
  /\ call.pc = "put" => sector_buffer = disk[LBA(call.cluster, call.offset)]
  /\ call.pc = "next" =>
       /\ call.done < call.size /\ call.offset = 0 /\ Position % ClusterSize = 0
       /\ (Position \div ClusterSize) >= 1 /\ call.cluster = ch[(Position \div ClusterSize) - 1]
  /\ call.pc \in {"done", "entry"} => call.done = call.size
  /\ call.pc = "entry" =>
       file.size = IF call.start + call.size > entry.size THEN call.start + call.size ELSE entry.size

\* What the call has written, or read, so far.
Written(ch) == call.op = "write" =>
  /\ \A p \in call.start..(Position - 1) : ByteAt(disk, ch, p) = calls
  /\ \A p \in 0..(entry.size - 1) :
       p \notin call.start..(Position - 1) => ByteAt(disk, ch, p) = call.before[p + 1]
Delivered(ch) == call.op = "read" =>
  Len(call.out) = call.done /\ \A i \in 1..call.done : call.out[i] = ByteAt(disk, ch, call.start + i - 1)

Going(n, ch) ==
  /\ call.pc # "first" /\ Own(next, file.first, n, ch) /\ Apart(n, ch) /\ entry.size <= n * ClusterSize
  /\ Named(n, ch) /\ Located(n, ch) /\ Written(ch) /\ Delivered(ch)

Running ==
  /\ file.open /\ call.op \in {"read", "write"} /\ call.size > 0 /\ call.done <= call.size
  /\ file.position = Position /\ call.start <= entry.size
  /\ call.old.size = entry.size /\ Len(call.before) = entry.size
  /\ call.pc # "entry" => file.size = entry.size
  /\ call.op = "read" => call.start + call.size <= entry.size
                         /\ call.pc \in {"walk", "data", "next", "done"}
  /\ Without \/ \E n, ch : Going(n, ch)

Handle == [open : BOOLEAN, first : Cluster \cup {0}, size : Nat, position : Nat]
CallType ==
  [op : {"none", "read", "write", "truncate"},
   pc : {"idle", "first", "walk", "data", "put", "next", "done", "entry"},
   size : Nat, done : Nat, start : Nat, index : Nat, cluster : Cluster \cup {0},
   offset : 0..(ClusterSize - 1), from : Cluster \cup {0}, out : Seq(Byte), old : Handle,
   before : Seq(Byte), failed : BOOLEAN]

Types ==
  /\ disk \in [0..(Clusters * SectorsPerCluster - 1) -> Sector]
  /\ next \in [Cluster -> Cluster \cup {FREE, EOC}]
  /\ entry \in [first : Cluster \cup {0}, size : Nat]
  /\ sector_buffer \in Sector /\ calls \in 0..MaxCalls /\ other \in Cluster
  /\ file \in Handle /\ call \in CallType
  /\ call.op \in {"none", "truncate"} => call.pc = "idle"
  /\ call.done <= call.size

FileInv == Types /\ OtherFileKept /\ IF call.pc = "idle" THEN Resting ELSE Running

-----------------------------------------------------------------------------
(* Arithmetic: sectors and clusters *)

LEMMA Sizes ==
  /\ SectorSize \in Nat \ {0} /\ SectorsPerCluster \in Nat \ {0} /\ Clusters \in Nat \ {0}
  /\ ClusterSize \in Nat \ {0}
<1>1. \A a, b \in Nat \ {0} : a * b \in Nat \ {0}
  OBVIOUS
<1> QED
  BY <1>1, SizeAssumption DEF ClusterSize

LEMMA DivMod ==
  ASSUME NEW a \in Nat, NEW b \in Nat \ {0}
  PROVE  a \div b \in Nat /\ a % b \in 0..(b - 1) /\ a = b * (a \div b) + (a % b)
OBVIOUS

LEMMA TimesMonotone ==
  ASSUME NEW a \in Nat, NEW b \in Nat, NEW c \in Nat, a <= b
  PROVE  c * a <= c * b /\ c * a \in Nat /\ c * b \in Nat
OBVIOUS

\* A quotient and a remainder are the only ones.
LEMMA DivUnique ==
  ASSUME NEW b \in Nat \ {0}, NEW q \in Nat, NEW r \in 0..(b - 1), NEW a, a = b * q + r
  PROVE  a \in Nat /\ a \div b = q /\ a % b = r
<1>1. a \in Nat /\ b * q \in Nat
  BY TimesMonotone
<1>2. a \div b \in Nat /\ a % b \in 0..(b - 1) /\ a = b * (a \div b) + (a % b)
  BY <1>1, DivMod
<1> DEFINE x == a \div b
<1>3. ~(x < q)
  <2> SUFFICES ASSUME x + 1 <= q PROVE FALSE
    BY <1>2
  <2>1. b * (x + 1) <= b * q /\ b * (x + 1) = b * x + b
    BY <1>2, TimesMonotone
  <2> QED
    BY <1>1, <1>2, <2>1, TimesMonotone
<1>4. ~(q < x)
  <2> SUFFICES ASSUME q + 1 <= x PROVE FALSE
    BY <1>2
  <2>1. b * (q + 1) <= b * x /\ b * (q + 1) = b * q + b
    BY <1>2, TimesMonotone
  <2> QED
    BY <1>1, <1>2, <2>1, TimesMonotone
<1>5. x = q
  BY <1>2, <1>3, <1>4
<1> QED
  BY <1>1, <1>2, <1>5

LEMMA DivExact ==
  ASSUME NEW b \in Nat \ {0}, NEW q \in Nat, NEW a, a = b * q
  PROVE  a \div b = q /\ a % b = 0
<1> DEFINE r == b - b
<1>1. r \in 0..(b - 1) /\ a = b * q + r
  BY TimesMonotone
<1>2. r = 0
  OBVIOUS
<1> HIDE DEF r
<1>3. a \div b = q /\ a % b = r
  BY <1>1, DivUnique, Zenon
<1> QED
  BY <1>2, <1>3

LEMMA DivSmall ==
  ASSUME NEW b \in Nat \ {0}, NEW r \in 0..(b - 1)
  PROVE  r % b = r
<1> DEFINE q == b - b
<1>1. q \in Nat
  OBVIOUS
<1>2. r = b * q + r
  OBVIOUS
<1> HIDE DEF q
<1>3. PICK x : x = b * q + r
  OBVIOUS
<1>4. x % b = r
  BY <1>1, <1>3, DivUnique, Zenon
<1> QED
  BY <1>2, <1>3, <1>4

LEMMA DivBelow ==
  ASSUME NEW a \in Nat, NEW b \in Nat \ {0}, NEW n \in Nat, a < n * b
  PROVE  a \div b < n
<1>1. a \div b \in Nat /\ a = b * (a \div b) + (a % b) /\ a % b \in Nat
  BY DivMod
<1> SUFFICES ASSUME n <= a \div b PROVE FALSE
  BY <1>1
<1>2. b * n <= b * (a \div b) /\ b * n = n * b
  BY <1>1, TimesMonotone
<1> QED
  BY <1>1, <1>2, TimesMonotone

Offset == 0..(ClusterSize - 1)
LBAs == 0..(Clusters * SectorsPerCluster - 1)

LEMMA SectorInCluster ==
  ASSUME NEW o \in Offset
  PROVE  /\ o \in Nat /\ o \div SectorSize \in 0..(SectorsPerCluster - 1)
         /\ o % SectorSize \in 0..(SectorSize - 1)
         /\ o = SectorSize * (o \div SectorSize) + (o % SectorSize)
<1>1. o \in Nat /\ o < SectorsPerCluster * SectorSize
  <2>1. ClusterSize = SectorsPerCluster * SectorSize
    BY Sizes DEF ClusterSize
  <2> QED
    BY <2>1, Sizes DEF Offset
<1>2. o \div SectorSize < SectorsPerCluster
  BY <1>1, Sizes, DivBelow
<1>3. /\ o \div SectorSize \in Nat /\ o % SectorSize \in 0..(SectorSize - 1)
      /\ o = SectorSize * (o \div SectorSize) + (o % SectorSize)
  BY <1>1, Sizes, DivMod, Zenon
<1>4. o \div SectorSize \in 0..(SectorsPerCluster - 1)
  BY <1>2, <1>3, Sizes
<1> QED
  BY <1>1, <1>3, <1>4, Zenon

LEMMA LBAOnDisk ==
  ASSUME NEW c \in Cluster, NEW o \in Offset
  PROVE  LBA(c, o) \in LBAs
<1>1. c - 2 \in Nat /\ c - 2 <= Clusters - 1 /\ Clusters - 1 \in Nat
  BY Sizes DEF Cluster
<1>2. /\ SectorsPerCluster * (c - 2) <= SectorsPerCluster * (Clusters - 1)
      /\ SectorsPerCluster * (c - 2) \in Nat
  BY <1>1, Sizes, TimesMonotone
<1>3. /\ SectorsPerCluster * (Clusters - 1) = Clusters * SectorsPerCluster - SectorsPerCluster
      /\ SectorsPerCluster * (c - 2) = (c - 2) * SectorsPerCluster
  BY <1>1, Sizes
<1>4. o \div SectorSize \in 0..(SectorsPerCluster - 1)
  BY SectorInCluster
<1> QED
  BY <1>2, <1>3, <1>4, Sizes DEF LBA, LBAs

\* Different clusters have different sectors.
LEMMA LBAInjective ==
  ASSUME NEW c \in Cluster, NEW d \in Cluster, NEW a \in Offset, NEW b \in Offset
  PROVE  LBA(c, a) = LBA(d, b) <=> c = d /\ a \div SectorSize = b \div SectorSize
<1>1. c - 2 \in Nat /\ d - 2 \in Nat /\ c \in Int /\ d \in Int
  BY Sizes DEF Cluster
<1>2. /\ a \div SectorSize \in 0..(SectorsPerCluster - 1)
      /\ b \div SectorSize \in 0..(SectorsPerCluster - 1)
  BY SectorInCluster
<1> DEFINE x == LBA(c, a)
           y == LBA(d, b)
           u == a \div SectorSize
           w == b \div SectorSize
           i == c - 2
           j == d - 2
<1>3. x = SectorsPerCluster * i + u /\ y = SectorsPerCluster * j + w
  BY <1>1, <1>2, Sizes DEF LBA
<1> HIDE DEF x, y, u, w, i, j
<1>4. /\ i \in Nat /\ j \in Nat /\ SectorsPerCluster \in Nat \ {0}
      /\ u \in 0..(SectorsPerCluster - 1) /\ w \in 0..(SectorsPerCluster - 1)
  BY <1>1, <1>2, Sizes DEF i, j, u, w
<1>5. /\ x \div SectorsPerCluster = i /\ x % SectorsPerCluster = u
      /\ y \div SectorsPerCluster = j /\ y % SectorsPerCluster = w
  BY <1>3, <1>4, DivUnique, Zenon
<1>6. x = y <=> i = j /\ u = w
  BY <1>3, <1>5
<1> QED
  BY <1>1, <1>6 DEF x, y, u, w, i, j

\* A position in a file is a cluster of it, a sector of that, and a byte.
LEMMA PositionParts ==
  ASSUME NEW p \in Nat
  PROVE  /\ p \div ClusterSize \in Nat /\ p % ClusterSize \in Offset
         /\ p = ClusterSize * (p \div ClusterSize) + (p % ClusterSize)
         /\ (p % ClusterSize) \div SectorSize \in 0..(SectorsPerCluster - 1)
         /\ (p % ClusterSize) % SectorSize \in 0..(SectorSize - 1)
         /\ p % ClusterSize = SectorSize * ((p % ClusterSize) \div SectorSize)
                                + ((p % ClusterSize) % SectorSize)
<1>1. p \div ClusterSize \in Nat /\ p % ClusterSize \in Offset
      /\ p = ClusterSize * (p \div ClusterSize) + (p % ClusterSize)
  BY Sizes, DivMod DEF Offset
<1> QED
  BY <1>1, SectorInCluster

\* The bytes behind a position and before the end of its sector are in its sector.
LEMMA SectorAhead ==
  ASSUME NEW q \in Nat, NEW k \in Nat, k < SectorSize - ((q % ClusterSize) % SectorSize)
  PROVE  /\ (q + k) \div ClusterSize = q \div ClusterSize
         /\ (q + k) % ClusterSize = (q % ClusterSize) + k
         /\ ((q + k) % ClusterSize) \div SectorSize = (q % ClusterSize) \div SectorSize
<1> DEFINE o == q % ClusterSize
           w == o \div SectorSize
           s == o % SectorSize
<1>0. /\ q \div ClusterSize \in Nat /\ o \in Offset /\ q = ClusterSize * (q \div ClusterSize) + o
      /\ w \in 0..(SectorsPerCluster - 1) /\ s \in 0..(SectorSize - 1) /\ o = SectorSize * w + s
  BY PositionParts, Zenon
<1>2. k < SectorSize - s
  OBVIOUS
<1> HIDE DEF o, w, s
<1>1. /\ q \div ClusterSize \in Nat /\ o \in Nat /\ q = ClusterSize * (q \div ClusterSize) + o
      /\ w \in Nat /\ w + 1 <= SectorsPerCluster /\ s \in 0..(SectorSize - 1)
      /\ o = SectorSize * w + s
  BY <1>0, Sizes DEF Offset
<1> DEFINE x == SectorSize * w
           y == ClusterSize * (q \div ClusterSize)
           n == o + k
           p == q + k
<1>3. x \in Nat /\ y \in Nat
  BY <1>1, Sizes, TimesMonotone
<1>4. x + SectorSize <= ClusterSize
  <2>1. SectorSize * (w + 1) = x + SectorSize
    BY <1>1, Sizes
  <2>2. SectorSize * (w + 1) <= SectorSize * SectorsPerCluster
    BY <1>1, Sizes, TimesMonotone
  <2> QED
    BY <2>1, <2>2 DEF ClusterSize
<1>5. n = x + (s + k) /\ s + k \in 0..(SectorSize - 1) /\ n \in 0..(ClusterSize - 1)
  <2> HIDE DEF x
  <2> QED
    BY <1>1, <1>2, <1>3, <1>4, Sizes DEF x
<1>6. p = y + n
  <2> HIDE DEF y
  <2> QED
    BY <1>1, <1>3 DEF y
<1> HIDE DEF n, p
<1>7. n \div SectorSize = w
  <2>1. n = SectorSize * w + (s + k)
    BY <1>5
  <2> QED
    BY <1>1, <1>5, <2>1, Sizes, DivUnique, Zenon
<1>8. p \div ClusterSize = q \div ClusterSize /\ p % ClusterSize = n
  <2>1. p = ClusterSize * (q \div ClusterSize) + n
    BY <1>6
  <2>2. ClusterSize \in Nat \ {0} /\ q \div ClusterSize \in Nat /\ n \in 0..(ClusterSize - 1)
    BY <1>1, <1>5, Sizes
  <2> QED
    BY <2>1, <2>2, DivUnique, Zenon
<1> QED
  BY <1>7, <1>8 DEF o, w, n, p

\* The position behind a part of a sector.
LEMMA SectorBehind ==
  ASSUME NEW q \in Nat, NEW m \in Nat \ {0},
         m <= SectorSize - ((q % ClusterSize) % SectorSize)
  PROVE  /\ ((q % ClusterSize) + m) % ClusterSize = (q + m) % ClusterSize
         /\ (q + m) \div ClusterSize = IF (q + m) % ClusterSize = 0 THEN (q \div ClusterSize) + 1
                                       ELSE q \div ClusterSize
<1> DEFINE o == q % ClusterSize
           c == q \div ClusterSize
           y == ClusterSize * c
           n == o + m
           p == q + m
<1>1. c \in Nat /\ o \in Offset /\ q = y + o /\ o % SectorSize \in 0..(SectorSize - 1)
  BY PositionParts, Zenon
<1>2. o \in Nat /\ y \in Nat /\ n \in Nat /\ p = y + n
  BY <1>1, Sizes, TimesMonotone DEF Offset
<1>3. n <= ClusterSize
  <2>1. m - 1 \in Nat /\ m - 1 < SectorSize - ((q % ClusterSize) % SectorSize)
    BY <1>1, Sizes
  <2>2. (q + (m - 1)) % ClusterSize = o + (m - 1)
    BY <2>1, SectorAhead, Zenon
  <2>3. (q + (m - 1)) % ClusterSize \in Offset
    BY <2>1, PositionParts
  <2> QED
    BY <1>2, <2>2, <2>3, Sizes DEF Offset
<1> HIDE DEF p, n, c, y
<1>4. CASE n = ClusterSize
  <2>1. p = ClusterSize * (c + 1)
    <3>1. ClusterSize * (c + 1) = y + ClusterSize
      BY <1>1, Sizes DEF y
    <3> QED
      BY <1>2, <1>4, <3>1, Sizes
  <2>2. n = ClusterSize * 1
    BY <1>4, Sizes
  <2>3. c + 1 \in Nat /\ 1 \in Nat /\ ClusterSize \in Nat \ {0}
    BY <1>1, Sizes
  <2>4. p \div ClusterSize = c + 1 /\ p % ClusterSize = 0
    BY <2>1, <2>3, DivExact, Zenon
  <2>5. n % ClusterSize = 0
    BY <2>2, <2>3, DivExact, Zenon
  <2> QED
    BY <2>4, <2>5, Zenon DEF p, n, c
<1>5. CASE n # ClusterSize
  <2>1. p = ClusterSize * c + n
    BY <1>2 DEF y
  <2>2. c \in Nat /\ n \in 0..(ClusterSize - 1) /\ ClusterSize \in Nat \ {0}
    BY <1>1, <1>2, <1>3, <1>5, Sizes
  <2>3. n # 0
    BY <1>1, <1>2 DEF n, Offset
  <2>4. p \div ClusterSize = c /\ p % ClusterSize = n
    BY <2>1, <2>2, DivUnique, Zenon
  <2>5. n % ClusterSize = n
    BY <2>2, DivSmall, Zenon
  <2> QED
    BY <2>3, <2>4, <2>5, Zenon DEF p, n, c
<1> QED
  BY <1>4, <1>5

\* A position before the end of a chain is in one of its clusters.
LEMMA InChain ==
  ASSUME NEW p \in Nat, NEW n \in Nat, p < n * ClusterSize
  PROVE  p \div ClusterSize \in 0..(n - 1)
<1>1. p \div ClusterSize \in Nat
  BY PositionParts, Zenon
<1>2. p \div ClusterSize < n
  BY Sizes, DivBelow, Zenon
<1> QED
  BY <1>1, <1>2

-----------------------------------------------------------------------------
(* Chains *)

LEMMA Marks ==
  /\ FREE \notin Cluster /\ EOC \notin Cluster /\ FREE # EOC /\ 0 \notin Cluster
  /\ \A c \in Cluster : c \in Nat /\ c >= 2
BY Sizes DEF Cluster, FREE, EOC

\* Every set of naturals has a least element.
LEMMA Least ==
  ASSUME NEW T \in SUBSET Nat, T # {}
  PROVE  \E x \in T : \A y \in T : ~(y < x)
<1> DEFINE R == OpToRel(<, Nat)
<1>1. IsWellFoundedOn(R, Nat)
  BY NatLessThanWellFounded
<1>2. \A x, y \in Nat : y < x => <<y, x>> \in R
  BY DEF OpToRel
<1> HIDE DEF R
<1>3. PICK x \in T : \A y \in T : ~(<<y, x>> \in R)
  BY <1>1, WFMin
<1> QED
  BY <1>2, <1>3

\* ClusterOf and Content on any disk D and in any FAT G.
ClusterIn(G, first, k) ==
  LET at[i \in 0..k] == IF i = 0 THEN first ELSE G[at[i - 1]] IN at[k]
ContentOf(D, G, first, size) ==
  [i \in 1..size |->
     LET c == ClusterIn(G, first, (i - 1) \div ClusterSize)
         offset == (i - 1) % ClusterSize
     IN D[LBA(c, offset)][(offset % SectorSize) + 1]]

\* The recursive function follows the chain.
LEMMA ClusterInChain ==
  ASSUME NEW G, NEW h, NEW n, NEW ch, Own(G, h, n, ch), NEW k \in 0..(n - 1)
  PROVE  ClusterIn(G, h, k) = ch[k]
<1> DEFINE F(a) == [i \in 0..k |-> IF i = 0 THEN h ELSE G[a[i - 1]]]
           at == CHOOSE a : a = F(a)
           g == [i \in 0..k |-> ch[i]]
<1>0. n \in Nat /\ k \in Nat /\ k <= n - 1
  BY DEF Own
<1>1. g = F(g)
  <2>1. \A i \in 0..k : g[i] = F(g)[i]
    BY <1>0 DEF Own
  <2> HIDE DEF g
  <2>2. g = [i \in 0..k |-> g[i]] /\ F(g) = [i \in 0..k |-> F(g)[i]]
    BY DEF g
  <2> QED
    BY <2>1, <2>2
<1>2. at = F(at)
  BY <1>1
<1>3. ClusterIn(G, h, k) = at[k]
  BY DEF ClusterIn
<1> DEFINE T == {i \in 0..k : at[i] # ch[i]}
<1>4. \A i \in 0..k : at[i] = IF i = 0 THEN h ELSE G[at[i - 1]]
  <2> HIDE DEF at
  <2>1. \A i \in 0..k : at[i] = F(at)[i]
    BY <1>2
  <2> QED
    BY <2>1
<1> HIDE DEF at
<1>5. T = {}
  <2> SUFFICES ASSUME T # {} PROVE FALSE
    OBVIOUS
  <2>0. T \subseteq Nat
    BY <1>0
  <2>1. PICK i \in T : \A j \in T : ~(j < i)
    <3> HIDE DEF T
    <3> QED
      BY <2>0, Least
  <2>2. i # 0
    BY <1>0, <1>4, <2>1 DEF Own
  <2>3. i - 1 \in 0..k /\ i - 1 \notin T /\ i - 1 < i /\ i \in 0..k
    BY <1>0, <2>1, <2>2
  <2>4. at[i - 1] = ch[i - 1] /\ i - 1 \in 0..(n - 1) /\ i - 1 # n - 1
    BY <1>0, <2>3
  <2>5. at[i] = G[ch[i - 1]] /\ G[ch[i - 1]] = ch[i]
    BY <1>0, <1>4, <2>2, <2>3, <2>4 DEF Own
  <2> QED
    BY <2>1, <2>5
<1> QED
  BY <1>0, <1>3, <1>5

\* A chain has no more clusters than the volume.
LEMMA ChainFits ==
  ASSUME NEW G, NEW h, NEW n, NEW ch, Own(G, h, n, ch)
  PROVE  n <= Clusters
<1>1. n \in Nat /\ n # 0 /\ ch \in [0..(n - 1) -> Cluster]
  BY DEF Own
<1>2. IsFiniteSet(Cluster) /\ Cardinality(Cluster) = Clusters
  <2>1. Clusters + 1 \in Int /\ 2 \in Int
    BY Sizes
  <2> QED
    BY <2>1, FS_Interval, Sizes DEF Cluster
<1>3. IsFiniteSet(0..(n - 1)) /\ Cardinality(0..(n - 1)) = n
  BY <1>1, FS_Interval
<1>4. ch \in Injection(0..(n - 1), Cluster)
  BY <1>1 DEF Injection, Own, IsInjective
<1> QED
  BY <1>2, <1>3, <1>4, FS_Injection

FatMap == [Cluster -> Cluster \cup {FREE, EOC}]

LEMMA Links ==
  ASSUME NEW G, NEW h, NEW n, NEW ch, Own(G, h, n, ch), NEW i \in 0..(n - 1)
  PROVE  /\ n \in Nat /\ n >= 1 /\ ch[i] \in Cluster /\ G[ch[i]] # FREE
         /\ h = ch[0] /\ h \in Cluster
<1>1. n \in Nat /\ n >= 1 /\ ch[i] \in Cluster /\ h = ch[0] /\ ch[0] \in Cluster
  BY DEF Own
<1>2. G[ch[i]] = EOC \/ (i + 1 \in 0..(n - 1) /\ G[ch[i]] = ch[i + 1])
  BY <1>1 DEF Own
<1>3. i + 1 \in 0..(n - 1) => ch[i + 1] \in Cluster
  BY DEF Own
<1> QED
  BY <1>1, <1>2, <1>3, Marks

\* A chain of one cluster, a longer one, the end and the beginning of one.
LEMMA OneCluster ==
  ASSUME NEW G \in FatMap, NEW c \in Cluster
  PROVE  Own([G EXCEPT ![c] = EOC], c, 1, [i \in 0..0 |-> c])
BY DEF Own, FatMap

LEMMA Extended ==
  ASSUME NEW G \in FatMap, NEW h, NEW n, NEW ch, Own(G, h, n, ch),
         NEW c \in Cluster, G[c] = FREE
  PROVE  Own([G EXCEPT ![c] = EOC, ![ch[n - 1]] = c], h, n + 1,
             [i \in 0..n |-> IF i = n THEN c ELSE ch[i]])
<1> DEFINE H == [G EXCEPT ![c] = EOC, ![ch[n - 1]] = c]
           more == [i \in 0..n |-> IF i = n THEN c ELSE ch[i]]
<1>1. n \in Nat /\ n >= 1 /\ n - 1 \in 0..(n - 1)
  BY DEF Own
<1>2. /\ \A i \in 0..(n - 1) : ch[i] \in Cluster /\ ch[i] # c
      /\ ch[0] = h /\ ch[n - 1] \in Cluster /\ ch[n - 1] # c
  <2>1. ASSUME NEW i \in 0..(n - 1) PROVE ch[i] \in Cluster /\ ch[i] # c
    <3>1. ch[i] \in Cluster /\ G[ch[i]] # FREE
      BY Links
    <3> QED
      BY <3>1
  <2>2. ch[0] = h
    BY DEF Own
  <2> QED
    BY <1>1, <2>1, <2>2
<1>3. /\ \A i \in 0..(n - 1) : more[i] = ch[i]
      /\ more[n] = c /\ more \in [0..n -> Cluster]
  BY <1>1, <1>2
<1>4. /\ H[c] = EOC /\ H[ch[n - 1]] = c
      /\ \A d \in Cluster : d # c /\ d # ch[n - 1] => H[d] = G[d]
  <2>1. PICK z : z = ch[n - 1]
    OBVIOUS
  <2>2. z \in Cluster /\ z # c /\ H = [G EXCEPT ![c] = EOC, ![z] = c]
    BY <1>2, <2>1
  <2> HIDE DEF H
  <2> QED
    BY <2>1, <2>2 DEF FatMap
<1> HIDE DEF H, more
<1>5. \A i, j \in 0..n : more[i] = more[j] => i = j
  <2> TAKE i, j \in 0..n
  <2> HAVE more[i] = more[j]
  <2>1. CASE i = n \/ j = n
    <3>1. (i = n \/ i \in 0..(n - 1)) /\ (j = n \/ j \in 0..(n - 1))
      BY <1>1
    <3> QED
      BY <1>2, <1>3, <2>1, <3>1
  <2>2. CASE i # n /\ j # n
    <3>1. i \in 0..(n - 1) /\ j \in 0..(n - 1)
      BY <1>1, <2>2
    <3> QED
      BY <1>3, <3>1 DEF Own
  <2> QED
    BY <2>1, <2>2
<1>6. ASSUME NEW i \in 0..n PROVE H[more[i]] = IF i = n THEN EOC ELSE more[i + 1]
  <2>1. CASE i = n
    BY <1>3, <1>4, <2>1
  <2>2. CASE i = n - 1
    <3>1. i # n /\ i + 1 = n /\ i \in 0..(n - 1)
      BY <1>1, <2>2
    <3> QED
      BY <1>3, <1>4, <2>2, <3>1
  <2>3. CASE i # n /\ i # n - 1
    <3>1. i \in 0..(n - 1) /\ i + 1 \in 0..(n - 1)
      BY <1>1, <2>3
    <3>2. ch[i] # ch[n - 1] /\ G[ch[i]] = ch[i + 1]
      BY <1>1, <2>3, <3>1 DEF Own
    <3> QED
      BY <1>2, <1>3, <1>4, <2>3, <3>1, <3>2
  <2> QED
    BY <2>1, <2>2, <2>3
<1>7. n + 1 \in Nat \ {0} /\ (n + 1) - 1 = n /\ more[0] = h
  BY <1>1, <1>2, <1>3
<1>8. Own(H, h, n + 1, more)
  BY <1>3, <1>5, <1>6, <1>7 DEF Own
<1> QED
  BY <1>8 DEF H, more

LEMMA ChainEnd ==
  ASSUME NEW G, NEW h, NEW n, NEW ch, Own(G, h, n, ch), NEW k \in 0..(n - 1)
  PROVE  Own(G, ch[k], n - k, [i \in 0..(n - k - 1) |-> ch[i + k]])
<1> DEFINE m == n - k
           rest == [i \in 0..(m - 1) |-> ch[i + k]]
<1>1. n \in Nat /\ n >= 1 /\ k \in Nat /\ m \in Nat \ {0} /\ 0 \in 0..(m - 1)
  BY DEF Own
<1>2. \A i \in 0..(m - 1) : i + k \in 0..(n - 1) /\ rest[i] = ch[i + k]
  BY <1>1
<1>3. rest \in [0..(m - 1) -> Cluster] /\ rest[0] = ch[k]
  BY <1>1, <1>2 DEF Own
<1>4. \A i, j \in 0..(m - 1) : rest[i] = rest[j] => i = j
  <2> TAKE i, j \in 0..(m - 1)
  <2> HAVE rest[i] = rest[j]
  <2>1. i + k = j + k
    <3> HIDE DEF rest, m
    <3> QED
      BY <1>2 DEF Own
  <2> QED
    BY <1>1, <2>1
<1>5. ASSUME NEW i \in 0..(m - 1) PROVE G[rest[i]] = IF i = m - 1 THEN EOC ELSE rest[i + 1]
  <2>1. CASE i = m - 1
    <3>1. i + k = n - 1
      BY <1>1, <2>1
    <3> QED
      BY <1>2, <2>1, <3>1 DEF Own
  <2>2. CASE i # m - 1
    <3>1. i + 1 \in 0..(m - 1) /\ (i + 1) + k = (i + k) + 1 /\ i + k # n - 1
      BY <1>1, <2>2
    <3>2. rest[i + 1] = ch[(i + k) + 1] /\ rest[i] = ch[i + k] /\ i + k \in 0..(n - 1)
      BY <1>2, <3>1
    <3> QED
      BY <2>2, <3>1, <3>2 DEF Own
  <2> QED
    BY <2>1, <2>2
<1> HIDE DEF rest, m
<1>6. Own(G, ch[k], m, rest)
  BY <1>1, <1>3, <1>4, <1>5 DEF Own
<1> QED
  BY <1>6 DEF rest, m

LEMMA Shortened ==
  ASSUME NEW G, NEW H, NEW h, NEW n, NEW ch, Own(G, h, n, ch), NEW k \in 1..n,
         H[ch[k - 1]] = EOC, \A i \in 0..(k - 2) : H[ch[i]] = G[ch[i]]
  PROVE  Own(H, h, k, [i \in 0..(k - 1) |-> ch[i]])
<1> DEFINE less == [i \in 0..(k - 1) |-> ch[i]]
<1>1. n \in Nat /\ k \in Nat \ {0} /\ k <= n /\ \A i \in 0..(k - 1) : i \in 0..(n - 1)
  BY DEF Own
<1>2. less \in [0..(k - 1) -> Cluster] /\ less[0] = h
  BY <1>1 DEF Own
<1>3. \A i, j \in 0..(k - 1) : less[i] = less[j] => i = j
  BY <1>1 DEF Own
<1>4. ASSUME NEW i \in 0..(k - 1) PROVE H[less[i]] = IF i = k - 1 THEN EOC ELSE less[i + 1]
  <2>1. CASE i = k - 1
    BY <1>1, <2>1
  <2>2. CASE i # k - 1
    <3>1. i \in 0..(k - 2) /\ i + 1 \in 0..(k - 1) /\ i # n - 1 /\ i \in 0..(n - 1)
      BY <1>1, <2>2
    <3>2. G[ch[i]] = ch[i + 1]
      BY <3>1 DEF Own
    <3> QED
      BY <2>2, <3>1, <3>2
  <2> QED
    BY <2>1, <2>2
<1> HIDE DEF less
<1>5. Own(H, h, k, less)
  BY <1>1, <1>2, <1>3, <1>4 DEF Own
<1> QED
  BY <1>5 DEF less

-----------------------------------------------------------------------------
(* The bytes of a chain *)

Disks == [LBAs -> Sector]

LEMMA InSectorType ==
  ASSUME NEW p \in Nat
  PROVE  InSectorOf(p) \in 1..SectorSize /\ p % ClusterSize \in Offset
<1>1. (p % ClusterSize) % SectorSize \in 0..(SectorSize - 1) /\ p % ClusterSize \in Offset
  BY PositionParts, Zenon
<1> DEFINE s == (p % ClusterSize) % SectorSize
<1>2. InSectorOf(p) = s + 1
  BY DEF InSectorOf
<1> HIDE DEF s
<1>3. s \in 0..(SectorSize - 1)
  BY <1>1 DEF s
<1> QED
  BY <1>1, <1>2, <1>3, Sizes

LEMMA ByteTyped ==
  ASSUME NEW G, NEW h, NEW n, NEW ch, Own(G, h, n, ch), NEW D \in Disks,
         NEW p \in Nat, p < n * ClusterSize
  PROVE  SectorOf(ch, p) \in LBAs /\ ByteAt(D, ch, p) \in Byte
<1>1. p \div ClusterSize \in 0..(n - 1)
  BY InChain DEF Own
<1>2. ch[p \div ClusterSize] \in Cluster
  BY <1>1, Links
<1>3. SectorOf(ch, p) \in LBAs
  BY <1>2, InSectorType, LBAOnDisk DEF SectorOf
<1> QED
  BY <1>3, InSectorType DEF ByteAt, Disks, Sector

\* Two positions of a chain are in the same sector of the disk if they are in
\* the same sector of the file.
LEMMA SameSector ==
  ASSUME NEW G, NEW h, NEW n, NEW ch, Own(G, h, n, ch),
         NEW p \in Nat, p < n * ClusterSize, NEW q \in Nat, q < n * ClusterSize
  PROVE  SectorOf(ch, p) = SectorOf(ch, q) <=>
           /\ p \div ClusterSize = q \div ClusterSize
           /\ (p % ClusterSize) \div SectorSize = (q % ClusterSize) \div SectorSize
<1> DEFINE i == p \div ClusterSize
           j == q \div ClusterSize
           a == p % ClusterSize
           b == q % ClusterSize
<1>1. i \in 0..(n - 1) /\ j \in 0..(n - 1)
  BY InChain DEF Own
<1>2. a \in Offset /\ b \in Offset
  BY InSectorType, Zenon
<1> HIDE DEF i, j, a, b
<1>3. ch[i] \in Cluster /\ ch[j] \in Cluster /\ (ch[i] = ch[j] <=> i = j)
  <2>1. ch[i] \in Cluster /\ ch[j] \in Cluster
    BY <1>1, Links
  <2> QED
    BY <1>1, <2>1 DEF Own
<1>4. LBA(ch[i], a) = LBA(ch[j], b) <=> ch[i] = ch[j] /\ a \div SectorSize = b \div SectorSize
  BY <1>2, <1>3, LBAInjective
<1>5. SectorOf(ch, p) = LBA(ch[i], a) /\ SectorOf(ch, q) = LBA(ch[j], b)
  BY DEF SectorOf, i, j, a, b
<1> QED
  BY <1>3, <1>4, <1>5, Zenon DEF i, j, a, b

\* Within one sector of a file, bytes lie as their positions do.
LEMMA SectorDistance ==
  ASSUME NEW p \in Nat, NEW q \in Nat, p \div ClusterSize = q \div ClusterSize,
         (p % ClusterSize) \div SectorSize = (q % ClusterSize) \div SectorSize
  PROVE  p - q = InSectorOf(p) - InSectorOf(q)
<1>1. /\ p = ClusterSize * (p \div ClusterSize) + (p % ClusterSize)
      /\ p % ClusterSize = SectorSize * ((p % ClusterSize) \div SectorSize)
                             + ((p % ClusterSize) % SectorSize)
      /\ q = ClusterSize * (p \div ClusterSize) + (q % ClusterSize)
      /\ q % ClusterSize = SectorSize * ((p % ClusterSize) \div SectorSize)
                             + ((q % ClusterSize) % SectorSize)
  BY PositionParts, Zenon
<1> DEFINE x == ClusterSize * (p \div ClusterSize)
           y == SectorSize * ((p % ClusterSize) \div SectorSize)
           a == p % ClusterSize
           b == q % ClusterSize
           s == a % SectorSize
           t == b % SectorSize
<1>2. p = x + a /\ a = y + s /\ q = x + b /\ b = y + t
  BY <1>1, Zenon
<1>3. p \div ClusterSize \in Nat /\ a \div SectorSize \in 0..(SectorsPerCluster - 1)
  BY PositionParts, Zenon
<1>4. x \in Nat /\ y \in Nat
  BY <1>3, Sizes, TimesMonotone
<1>5. InSectorOf(p) = s + 1 /\ InSectorOf(q) = t + 1
  BY DEF InSectorOf
<1>6. s \in 0..(SectorSize - 1) /\ t \in 0..(SectorSize - 1)
  BY PositionParts, Zenon
<1> HIDE DEF x, y, a, b, s, t
<1> QED
  BY <1>2, <1>4, <1>5, <1>6, Sizes

\* E is the disk D with S in place of the sector of position q: m bytes are new.
PutInto(E, D, ch, q, m, v, S) ==
  /\ E = [D EXCEPT ![SectorOf(ch, q)] = S]
  /\ \A i \in 1..SectorSize : S[i] = IF i \in InSectorOf(q)..(InSectorOf(q) + m - 1) THEN v
                                     ELSE D[SectorOf(ch, q)][i]

\* One sector is written of which m bytes from position q on are new: they change,
\* and no other byte of the file.
LEMMA SectorPut ==
  ASSUME NEW G, NEW h, NEW n, NEW ch, Own(G, h, n, ch), NEW D \in Disks,
         NEW q \in Nat, q < n * ClusterSize, NEW m \in Nat \ {0},
         m <= SectorSize - ((q % ClusterSize) % SectorSize),
         NEW v, NEW S \in Sector, NEW E, PutInto(E, D, ch, q, m, v, S),
         NEW p \in Nat, p < n * ClusterSize
  PROVE  ByteAt(E, ch, p) = IF p \in q..(q + m - 1) THEN v ELSE ByteAt(D, ch, p)
<1>1. /\ SectorOf(ch, q) \in LBAs /\ SectorOf(ch, p) \in LBAs
      /\ InSectorOf(q) \in 1..SectorSize /\ InSectorOf(p) \in 1..SectorSize
  BY ByteTyped, InSectorType
<1>0. /\ E = [D EXCEPT ![SectorOf(ch, q)] = S]
      /\ \A i \in 1..SectorSize : S[i] = IF i \in InSectorOf(q)..(InSectorOf(q) + m - 1) THEN v
                                         ELSE D[SectorOf(ch, q)][i]
  BY DEF PutInto
<1>2. ByteAt(E, ch, p) = E[SectorOf(ch, p)][InSectorOf(p)]
  BY DEF ByteAt, SectorOf, InSectorOf, LBA
<1>3. ByteAt(D, ch, p) = D[SectorOf(ch, p)][InSectorOf(p)]
  BY DEF ByteAt
<1>4. CASE SectorOf(ch, p) = SectorOf(ch, q)
  <2>1. p - q = InSectorOf(p) - InSectorOf(q)
    <3>1. /\ p \div ClusterSize = q \div ClusterSize
          /\ (p % ClusterSize) \div SectorSize = (q % ClusterSize) \div SectorSize
      BY <1>4, SameSector
    <3> QED
      BY <3>1, SectorDistance, Zenon
  <2>2. p \in q..(q + m - 1) <=> InSectorOf(p) \in InSectorOf(q)..(InSectorOf(q) + m - 1)
    BY <1>1, <2>1
  <2>3. E[SectorOf(ch, p)] = S
    BY <1>0, <1>1, <1>4 DEF Disks
  <2> QED
    BY <1>0, <1>1, <1>2, <1>3, <1>4, <2>2, <2>3
<1>5. CASE SectorOf(ch, p) # SectorOf(ch, q)
  <2>1. E[SectorOf(ch, p)] = D[SectorOf(ch, p)]
    BY <1>0, <1>1, <1>5 DEF Disks
  <2>2. p \notin q..(q + m - 1)
    <3> SUFFICES ASSUME p \in q..(q + m - 1) PROVE FALSE
      OBVIOUS
    <3>1. PICK k \in Nat : p = q + k /\ k < m
      <4>1. p - q \in Nat /\ p = q + (p - q) /\ p - q < m
        OBVIOUS
      <4> QED
        BY <4>1
    <3>2. k < SectorSize - ((q % ClusterSize) % SectorSize)
      <4>1. (q % ClusterSize) % SectorSize \in 0..(SectorSize - 1)
        BY PositionParts, Zenon
      <4> DEFINE s == (q % ClusterSize) % SectorSize
      <4>2. m <= SectorSize - s /\ s \in 0..(SectorSize - 1)
        BY <4>1
      <4> HIDE DEF s
      <4>3. k < SectorSize - s
        BY <3>1, <4>2, Sizes
      <4> QED
        BY <4>3 DEF s
    <3>3. /\ p \div ClusterSize = q \div ClusterSize
          /\ (p % ClusterSize) \div SectorSize = (q % ClusterSize) \div SectorSize
      BY <3>1, <3>2, SectorAhead, Zenon
    <3> QED
      BY <1>5, <3>3, SameSector
  <2> QED
    BY <1>2, <1>3, <2>1, <2>2
<1> QED
  BY <1>4, <1>5

LEMMA FunctionIsSeq ==
  ASSUME NEW n \in Nat, NEW S, NEW s \in [1..n -> S]
  PROVE  s \in Seq(S) /\ Len(s) = n
<1>1. s \in Seq(S)
  BY SeqDef
<1>2. Len(s) \in Nat /\ 1..Len(s) = 1..n
  BY <1>1, LenProperties
<1> QED
  BY <1>1, <1>2

\* What the file holds are the bytes of its chain.
LEMMA ContentIs ==
  ASSUME NEW G, NEW h, NEW n, NEW ch, Own(G, h, n, ch), NEW D \in Disks,
         NEW size \in Nat, size <= n * ClusterSize
  PROVE  /\ ContentOf(D, G, h, size) \in Seq(Byte) /\ Len(ContentOf(D, G, h, size)) = size
         /\ DOMAIN ContentOf(D, G, h, size) = 1..size
         /\ \A i \in 1..size : ContentOf(D, G, h, size)[i] = ByteAt(D, ch, i - 1)
<1> DEFINE C == ContentOf(D, G, h, size)
<1>0. n * ClusterSize \in Nat
  BY Sizes, TimesMonotone DEF Own
<1>1. ASSUME NEW i \in 1..size
      PROVE  C[i] = ByteAt(D, ch, i - 1) /\ ByteAt(D, ch, i - 1) \in Byte
  <2>1. i - 1 \in Nat /\ i - 1 < n * ClusterSize
    BY <1>0
  <2> DEFINE p == i - 1
  <2>2. C[i] = D[LBA(ClusterIn(G, h, p \div ClusterSize), p % ClusterSize)]
                [((p % ClusterSize) % SectorSize) + 1]
    BY DEF ContentOf
  <2> HIDE DEF p
  <2>3. p \in Nat /\ p < n * ClusterSize
    BY <2>1 DEF p
  <2>4. p \div ClusterSize \in 0..(n - 1)
    BY <2>3, InChain DEF Own
  <2>5. ClusterIn(G, h, p \div ClusterSize) = ch[p \div ClusterSize]
    BY <2>4, ClusterInChain
  <2>6. C[i] = ByteAt(D, ch, p)
    BY <2>2, <2>5, Zenon DEF ByteAt, SectorOf, InSectorOf
  <2> QED
    BY <2>3, <2>6, ByteTyped DEF p
<1>2. C = [i \in 1..size |-> C[i]] /\ DOMAIN C = 1..size
  BY DEF ContentOf
<1> HIDE DEF C
<1>3. C \in [1..size -> Byte]
  BY <1>1, <1>2
<1>4. C \in Seq(Byte) /\ Len(C) = size
  BY <1>3, FunctionIsSeq
<1> QED
  BY <1>1, <1>2, <1>4 DEF C

LEMMA ContentEmpty ==
  ASSUME NEW D, NEW G, NEW h
  PROVE  /\ ContentOf(D, G, h, 0) \in Seq(Byte) /\ Len(ContentOf(D, G, h, 0)) = 0
         /\ DOMAIN ContentOf(D, G, h, 0) = {}
<1> DEFINE C == ContentOf(D, G, h, 0)
<1>1. C \in [1..0 -> Byte]
  BY DEF ContentOf
<1> HIDE DEF C
<1>2. C \in Seq(Byte) /\ Len(C) = 0
  BY <1>1, FunctionIsSeq
<1> QED
  BY <1>1, <1>2 DEF C

LEMMA ContentHere ==
  /\ Content = ContentOf(disk, next, entry.first, entry.size)
  /\ Content' = ContentOf(disk', next', entry'.first, entry'.size)
BY DEF Content, ContentOf, ClusterOf, ClusterIn

\* Whatever else holds, between calls and during them the file is its bytes.
LEMMA ContentTyped ==
  ASSUME disk \in Disks, entry.size \in Nat, EntrySound
  PROVE  Content \in Seq(Byte) /\ Len(Content) = entry.size /\ DOMAIN Content = 1..entry.size
<1>1. CASE Allocated
  <2>1. PICK n, ch : Own(next, entry.first, n, ch) /\ entry.size <= n * ClusterSize
    BY <1>1 DEF EntrySound
  <2> QED
    BY <2>1, ContentIs, ContentHere
<1>2. CASE ~Allocated
  <2>1. entry.size = 0
    BY <1>2 DEF EntrySound
  <2>2. Content = ContentOf(disk, next, entry.first, 0)
    BY <2>1, ContentHere
  <2> QED
    BY <2>1, <2>2, ContentEmpty
<1> QED
  BY <1>1, <1>2

\* A sector of the file's chain is none of the other file's.
LEMMA OtherSectors ==
  ASSUME OtherFileKept, other \in Cluster, disk \in Disks, other' = other,
         NEW c \in Cluster, c # other, NEW o \in Offset,
         \A l \in LBAs : l # LBA(c, o) => disk'[l] = disk[l], next'[other] = EOC
  PROVE  OtherFileKept'
<1> SUFFICES ASSUME NEW k \in 0..(SectorsPerCluster - 1)
             PROVE  disk'[LBA(other, k * SectorSize)] = [i \in 1..SectorSize |-> Others]
  BY DEF OtherFileKept, LBA
<1>1. k * SectorSize \in Offset
  <2>1. k + 1 <= SectorsPerCluster /\ k \in Nat
    BY Sizes
  <2>2. SectorSize * (k + 1) <= SectorSize * SectorsPerCluster /\ SectorSize * k \in Nat
    BY <2>1, Sizes, TimesMonotone
  <2>3. SectorSize * (k + 1) = k * SectorSize + SectorSize /\ SectorSize * k = k * SectorSize
    BY <2>1, Sizes
  <2> QED
    BY <2>2, <2>3, Sizes DEF Offset, ClusterSize
<1>2. LBA(other, k * SectorSize) # LBA(c, o) /\ LBA(other, k * SectorSize) \in LBAs
  BY <1>1, LBAInjective, LBAOnDisk
<1>3. disk'[LBA(other, k * SectorSize)] = disk[LBA(other, k * SectorSize)]
  BY <1>2 DEF Disks
<1> QED
  BY <1>3 DEF OtherFileKept

-----------------------------------------------------------------------------
(* A call in progress, and one that fails *)

LEMMA Values ==
  ASSUME Types
  PROVE  /\ disk \in Disks /\ next \in FatMap /\ sector_buffer \in Sector
         /\ entry.first \in Cluster \cup {0} /\ entry.size \in Nat
         /\ calls \in Byte /\ calls \in 0..MaxCalls /\ MaxCalls \in Nat /\ other \in Cluster
         /\ file.open \in BOOLEAN /\ file.first \in Cluster \cup {0}
         /\ file.size \in Nat /\ file.position \in Nat
BY SizeAssumption DEF Types, Disks, LBAs, FatMap, Handle, Byte

LEMMA CallValues ==
  ASSUME Types
  PROVE  /\ call \in CallType
         /\ call.size \in Nat /\ call.done \in Nat /\ call.start \in Nat /\ call.index \in Nat
         /\ call.cluster \in Cluster \cup {0} /\ call.from \in Cluster \cup {0}
         /\ call.offset \in Offset /\ call.offset \in Nat
         /\ call.out \in Seq(Byte) /\ call.before \in Seq(Byte)
         /\ call.old.first \in Cluster \cup {0} /\ call.old.size \in Nat
         /\ call.done <= call.size /\ Position \in Nat
<1>1. call \in CallType
  BY DEF Types
<1>2. /\ call.size \in Nat /\ call.done \in Nat /\ call.start \in Nat /\ call.index \in Nat
      /\ call.cluster \in Cluster \cup {0} /\ call.from \in Cluster \cup {0}
      /\ call.offset \in Offset
      /\ call.out \in Seq(Byte) /\ call.before \in Seq(Byte) /\ call.old \in Handle
  BY <1>1 DEF CallType, Offset
<1>3. call.offset \in Nat /\ call.old.first \in Cluster \cup {0} /\ call.old.size \in Nat
  BY <1>2, Sizes DEF Offset, Handle
<1> QED
  BY <1>1, <1>2, <1>3 DEF Types, Position

LEMMA GoingRests ==
  ASSUME Types, Running, NEW n, NEW ch, Going(n, ch)
  PROVE  EntrySound /\ WriteKeepsRest /\ ReadsBack
<1>0. /\ disk \in Disks /\ entry.size \in Nat /\ call.done \in Nat /\ call.start \in Nat
      /\ call.size \in Nat /\ call.done <= call.size /\ call.out \in Seq(Byte)
      /\ Own(next, file.first, n, ch) /\ Apart(n, ch) /\ entry.size <= n * ClusterSize
      /\ Position = call.start + call.done /\ call.start <= entry.size
      /\ call.before \in Seq(Byte) /\ Len(call.before) = entry.size
  BY Values, CallValues DEF Going, Running, Position
<1>1. CASE entry.first = file.first
  <2>0. entry.first # 0 /\ next[entry.first] # FREE
    <3>1. 0 \in 0..(n - 1) /\ ch[0] = file.first
      BY <1>0 DEF Own
    <3>2. ch[0] \in Cluster /\ next[ch[0]] # FREE
      BY <1>0, <3>1, Links
    <3> QED
      BY <1>1, <3>1, <3>2, Marks
  <2>1. EntrySound
    BY <1>0, <1>1, <2>0 DEF EntrySound, Allocated
  <2>2. /\ Content \in Seq(Byte) /\ Len(Content) = entry.size /\ DOMAIN Content = 1..entry.size
        /\ \A i \in 1..entry.size : Content[i] = ByteAt(disk, ch, i - 1)
    BY <1>0, <1>1, ContentIs, ContentHere
  <2>3. WriteKeepsRest
    <3> SUFFICES ASSUME call.op = "write", NEW i \in 1..entry.size
                 PROVE  \/ i \in DOMAIN call.before /\ Content[i] = call.before[i]
                        \/ i \in Span(call.start, call.size) /\ Content[i] = calls
      BY <2>2 DEF WriteKeepsRest
    <3>1. i - 1 \in 0..(entry.size - 1) /\ (i - 1) + 1 = i /\ i \in DOMAIN call.before
      BY <1>0
    <3>2. CASE i - 1 \in call.start..(Position - 1)
      BY <1>0, <2>2, <3>1, <3>2 DEF Going, Written, Span
    <3>3. CASE i - 1 \notin call.start..(Position - 1)
      BY <1>0, <2>2, <3>1, <3>3 DEF Going, Written
    <3> QED
      BY <3>2, <3>3
  <2>4. ReadsBack
    <3> SUFFICES ASSUME call.op = "read"
                 PROVE  call.out = SubSeq(Content, call.start + 1, call.start + call.done)
      BY DEF ReadsBack
    <3> DEFINE part == SubSeq(Content, call.start + 1, call.start + call.done)
    <3>1. call.start + call.size <= entry.size
      BY DEF Running
    <3>0. /\ call.start \in Nat /\ call.done \in Nat /\ entry.size \in Nat
          /\ call.start + call.done <= entry.size
      BY <1>0, <3>1
    <3>2. \A i \in (call.start + 1)..(call.start + call.done) : i \in 1..entry.size /\ Content[i] \in Byte
      BY <3>0, <2>2, ElementOfSeq
    <3>3. /\ part \in Seq(Byte) /\ Len(part) = call.done
          /\ \A i \in 1..call.done : part[i] = Content[call.start + 1 + i - 1]
      <4> DEFINE a == call.start + 1
                 b == call.start + call.done
      <4>0. a \in Int /\ b \in Int /\ call.done = b - a + 1
        BY <3>0
      <4>1. a \in Int /\ b \in Int /\ call.done = b - a + 1 /\ \A i \in a..b : Content[i] \in Byte
        BY <4>0, <3>2
      <4> HIDE DEF a, b
      <4>2. /\ SubSeq(Content, a, b) \in Seq(Byte)
            /\ Len(SubSeq(Content, a, b)) = IF a <= b THEN b - a + 1 ELSE 0
            /\ \A i \in 1..(b - a + 1) : SubSeq(Content, a, b)[i] = Content[a + i - 1]
        BY <4>1, SubSeqProperties
      <4>3. Len(SubSeq(Content, a, b)) = call.done
        BY <1>0, <4>1, <4>2
      <4> QED
        BY <4>1, <4>2, <4>3 DEF a, b
    <3>4. Len(call.out) = call.done /\ \A i \in 1..call.done : call.out[i] = ByteAt(disk, ch, call.start + i - 1)
      BY DEF Going, Delivered
    <3>5. \A i \in 1..call.done : part[i] = call.out[i]
      <4> TAKE i \in 1..call.done
      <4>1. call.start + 1 + i - 1 \in 1..entry.size
            /\ (call.start + 1 + i - 1) - 1 = call.start + i - 1
        BY <3>0
      <4>2. part[i] = Content[call.start + 1 + i - 1]
        <5> HIDE DEF part
        <5> QED
          BY <3>3
      <4>3. Content[call.start + 1 + i - 1] = ByteAt(disk, ch, call.start + i - 1)
        BY <2>2, <4>1
      <4>4. call.out[i] = ByteAt(disk, ch, call.start + i - 1)
        BY <3>4
      <4> QED
        BY <4>2, <4>3, <4>4, Zenon
    <3> HIDE DEF part
    <3>6. call.out = part
      BY <1>0, <3>3, <3>4, <3>5, SeqEqual
    <3> QED
      BY <3>6 DEF part
  <2> QED
    BY <2>1, <2>3, <2>4
<1>2. CASE entry.first # file.first
  <2>1. /\ call.op = "write" /\ entry.size = 0
        /\ ~Allocated \/ \E k \in 0..(n - 1) : entry.first = ch[k]
    BY <1>2 DEF Going, Named
  <2>2. EntrySound
    <3>1. CASE ~Allocated
      BY <2>1, <3>1 DEF EntrySound
    <3>2. CASE Allocated
      <4>1. PICK k \in 0..(n - 1) : entry.first = ch[k]
        BY <2>1, <3>2
      <4> DEFINE rest == [i \in 0..(n - k - 1) |-> ch[i + k]]
      <4>2. Own(next, entry.first, n - k, rest)
        BY <1>0, <4>1, ChainEnd
      <4>3. Apart(n - k, rest) /\ n - k \in Nat
        <5>1. n \in Nat
          BY <1>0 DEF Own
        <5>2. \A i \in 0..(n - k - 1) : rest[i] = ch[i + k] /\ i + k \in 0..(n - 1)
          BY <4>1, <5>1
        <5> QED
          BY <1>0, <4>1, <5>1, <5>2 DEF Apart
      <4>4. (n - k) * ClusterSize \in Nat
        BY <4>3, Sizes, TimesMonotone
      <4> HIDE DEF rest
      <4> QED
        BY <2>1, <3>2, <4>2, <4>3, <4>4 DEF EntrySound
    <3> QED
      BY <3>1, <3>2
  <2>3. DOMAIN Content = {}
    BY <1>0, <2>1, <2>2, ContentTyped
  <2> QED
    BY <2>1, <2>2, <2>3 DEF WriteKeepsRest, ReadsBack
<1> QED
  BY <1>1, <1>2

LEMMA RunningRests ==
  ASSUME Types, Running
  PROVE  EntrySound /\ WriteKeepsRest /\ ReadsBack
<1>1. CASE Without
  <2>1. EntrySound
    BY <1>1 DEF Without, EntrySound
  <2>2. DOMAIN Content = {}
    BY <1>1, <2>1, Values, ContentTyped DEF Without
  <2> QED
    BY <1>1, <2>1, <2>2 DEF Without, WriteKeepsRest, ReadsBack
<1>2. CASE \E n, ch : Going(n, ch)
  BY <1>2, GoingRests
<1> QED
  BY <1>1, <1>2 DEF Running

\* A call that fails with nothing else done than a sector loaded.
LEMMA Fails ==
  ASSUME FileInv, call.pc # "idle", Error, UNCHANGED <<disk, next, entry, calls, other>>,
         sector_buffer' \in Sector
  PROVE  FileInv'
<1>0. Types /\ Running /\ OtherFileKept /\ call \in CallType
  BY DEF FileInv, Types
<1>1. EntrySound /\ WriteKeepsRest /\ ReadsBack
  BY <1>0, RunningRests
<1>2. Content' = Content
  BY ContentHere
<1>3. call' = [call EXCEPT !.pc = "idle", !.failed = TRUE] /\ file' = Closed
  BY DEF Error
<1>4. /\ call' \in CallType /\ call'.pc = "idle" /\ call'.failed /\ call'.op = call.op
      /\ call'.before = call.before /\ call'.start = call.start /\ call'.size = call.size
      /\ call'.done = call.done /\ call'.out = call.out
  BY <1>0, <1>3 DEF CallType
<1>5. Types'
  <2>1. file' \in Handle
    BY <1>3 DEF Closed, Handle
  <2> QED
    BY <1>0, <1>4, <2>1 DEF Types
<1>6. OtherFileKept'
  BY <1>0 DEF OtherFileKept, LBA
<1>7. EntrySound'
  BY <1>1 DEF EntrySound, Allocated, Own, Apart
<1>8. WriteKeepsRest' /\ ReadsBack'
  BY <1>1, <1>2, <1>4 DEF WriteKeepsRest, ReadsBack
<1>9. HandleSound' /\ DoneIsOnDisk'
  BY <1>3, <1>4 DEF HandleSound, DoneIsOnDisk, Closed
<1> QED
  BY <1>4, <1>5, <1>6, <1>7, <1>8, <1>9 DEF FileInv, Resting

\* A call that goes on: the volume and the file are as they were.
LEMMA GoesOn ==
  ASSUME FileInv, NEW n, NEW ch, Going(n, ch), Running,
         UNCHANGED <<disk, next, entry, file, calls, other>>, sector_buffer' \in Sector,
         call' \in CallType, call'.op = call.op, call'.size = call.size, call'.done = call.done,
         call'.start = call.start, call'.out = call.out, call'.old = call.old,
         call'.before = call.before, call.pc # "entry",
         call'.pc \in {"walk", "data", "put"}, call'.op = "read" => call'.pc # "put",
         Located(n, ch)'
  PROVE  FileInv'
<1>0. Types /\ OtherFileKept
  BY DEF FileInv
<1>1. Types' /\ OtherFileKept'
  BY <1>0 DEF Types, OtherFileKept, LBA, Running
<1>2. Position' = Position
  BY DEF Position
<1>3. Named(n, ch)' /\ Apart(n, ch)' /\ Own(next, file.first, n, ch)'
  BY DEF Going, Named, Apart, Own, Allocated
<1>4. Written(ch)' /\ Delivered(ch)'
  BY <1>2 DEF Going, Written, Delivered, ByteAt, SectorOf, InSectorOf, LBA
<1>5. Going(n, ch)'
  BY <1>3, <1>4 DEF Going
<1>6. Running'
  BY <1>2, <1>5 DEF Running
<1> QED
  BY <1>1, <1>6 DEF FileInv

LEMMA TableSector == ASSUME LoadsTable PROVE sector_buffer' \in Sector
<1>1. Table \in Byte
  BY SizeAssumption DEF Table, Byte
<1> QED
  BY <1>1 DEF LoadsTable, Loads, Sector

LEMMA IdleSteps ==
  ASSUME FileInv, Open \/ Rewind
  PROVE  FileInv'
<1>0. Types /\ OtherFileKept /\ Resting /\ call.pc = "idle"
  BY DEF FileInv, Open, Rewind
<1>1. UNCHANGED <<disk, next, entry, call, calls, other>> /\ Content' = Content
  BY ContentHere DEF Open, Rewind
<1>2. /\ entry.first \in Cluster \cup {0} /\ entry.size \in Nat
      /\ file.position \in Nat /\ file.size \in Nat
  BY <1>0, Values
<1>3. Types'
  <2>1. sector_buffer' \in Sector
    <3>1. CASE Open
      BY <3>1, TableSector DEF Open
    <3>2. CASE Rewind
      BY <1>0, <3>2 DEF Rewind, Types
    <3> QED
      BY <3>1, <3>2
  <2>2. file' \in Handle
    <3>1. CASE Open
      BY <1>2, <3>1 DEF Open, Handle
    <3>2. CASE Rewind
      <4>1. file \in Handle /\ file' = [file EXCEPT !.position = 0]
        BY <1>0, <3>2 DEF Rewind, Types
      <4> QED
        BY <4>1 DEF Handle
    <3> QED
      BY <3>1, <3>2
  <2> QED
    BY <1>0, <1>1, <2>1, <2>2 DEF Types
<1>4. OtherFileKept' /\ EntrySound' /\ WriteKeepsRest' /\ ReadsBack'
  BY <1>0, <1>1 DEF OtherFileKept, LBA, Resting, EntrySound, Allocated, Own, Apart,
     WriteKeepsRest, ReadsBack
<1>5. HandleSound' /\ DoneIsOnDisk'
  <2>1. CASE Open
    BY <1>0, <1>1, <1>2, <2>1 DEF Open, Resting, HandleSound, DoneIsOnDisk
  <2>2. CASE Rewind
    <3>1. /\ file'.open = file.open /\ file'.size = file.size /\ file'.first = file.first
          /\ file'.position = 0
      BY <1>0, <2>2 DEF Rewind, Types, Handle
    <3> QED
      BY <1>0, <1>1, <1>2, <3>1 DEF Resting, HandleSound, DoneIsOnDisk, Allocated
  <2> QED
    BY <2>1, <2>2
<1> QED
  BY <1>0, <1>1, <1>3, <1>4, <1>5 DEF FileInv, Resting

LEMMA TableFails == ASSUME FileInv, TableReadFails PROVE FileInv'
<1>1. call.pc # "idle" /\ sector_buffer' \in Sector
  BY DEF TableReadFails, FileInv, Types
<1> QED
  BY <1>1, Fails DEF TableReadFails

\* Calls that begin.
LEMMA Begins ==
  ASSUME FileInv, NEW op \in {"read", "write"}, NEW m \in Nat \ {0}, Begin(op, m),
         file.position <= file.size, op = "read" => file.position + m <= file.size,
         op = "write" => IF file.first < 2 THEN file.size = 0 ELSE next[file.first] # FREE
  PROVE  FileInv'
<1>0. Types /\ OtherFileKept /\ EntrySound /\ HandleSound /\ file.open /\ call.pc = "idle"
  BY DEF FileInv, Resting, Begin
<1>1. /\ disk \in Disks /\ entry.first \in Cluster \cup {0} /\ entry.size \in Nat
      /\ file.position \in Nat /\ file.size \in Nat /\ file.first \in Cluster \cup {0}
      /\ file.size = entry.size /\ file.position <= entry.size
      /\ calls \in Nat /\ calls < MaxCalls /\ MaxCalls \in Nat
  BY <1>0, Values DEF HandleSound, Begin
<1>2. Content \in Seq(Byte) /\ Len(Content) = entry.size /\ DOMAIN Content = 1..entry.size
  BY <1>0, <1>1, ContentTyped
<1>3. /\ UNCHANGED <<disk, next, entry, sector_buffer, file, other>> /\ calls' = calls + 1
      /\ call' = [NoCall EXCEPT !.op = op, !.size = m, !.start = file.position, !.old = file,
                    !.before = Content, !.pc = IF file.first < 2 THEN "first" ELSE "walk",
                    !.cluster = file.first]
  BY DEF Begin
<1>4. /\ call'.op = op /\ call'.size = m /\ call'.start = file.position /\ call'.old = file
      /\ call'.before = Content /\ call'.pc = IF file.first < 2 THEN "first" ELSE "walk"
      /\ call'.cluster = file.first /\ call'.done = 0 /\ call'.index = 0 /\ call'.offset = 0
      /\ call'.from = 0 /\ call'.out = <<>> /\ call'.failed = FALSE
  BY <1>3 DEF NoCall
<1>5. call' \in CallType
  <2>1. 0 \in 0..(ClusterSize - 1) /\ <<>> \in Seq(Byte) /\ file \in Handle
    BY <1>0, Sizes, EmptySeq DEF Types
  <2> QED
    BY <1>1, <1>2, <1>3, <2>1 DEF CallType, NoCall
<1>6. Types'
  <2>1. calls' \in 0..MaxCalls
    BY <1>1, <1>3
  <2> QED
    BY <1>0, <1>3, <1>4, <1>5, <2>1 DEF Types
<1>7. OtherFileKept'
  BY <1>0, <1>3 DEF OtherFileKept, LBA
<1>8. Position' = file.position
  BY <1>1, <1>4 DEF Position
<1>9. ASSUME Without' \/ \E n, ch : Going(n, ch)', op = "read" => file.first >= 2 PROVE FileInv'
  <2>1. Running'
    <3>1. op = "read" => call'.pc = "walk"
      BY <1>1, <1>4, <1>9, Marks
    <3>2. /\ file'.open /\ call'.op \in {"read", "write"} /\ call'.size > 0
          /\ call'.done <= call'.size /\ file'.position = Position'
          /\ call'.start <= entry'.size /\ call'.old.size = entry'.size
          /\ Len(call'.before) = entry'.size /\ file'.size = entry'.size
          /\ call'.op = "read" => call'.start + call'.size <= entry'.size
      BY <1>0, <1>1, <1>2, <1>3, <1>4, <1>8
    <3> QED
      BY <1>4, <1>9, <3>1, <3>2 DEF Running
  <2>2. call'.pc # "idle"
    BY <1>4
  <2> QED
    BY <1>6, <1>7, <2>1, <2>2 DEF FileInv
<1>10. CASE file.first < 2
  <2>1. file.first = 0 /\ call'.pc = "first"
    BY <1>1, <1>4, <1>10, Marks
  <2>2. ~Allocated /\ entry.size = 0
    <3>1. ~Allocated
      BY <1>0, <2>1 DEF HandleSound, Allocated
    <3> QED
      BY <1>0, <3>1 DEF EntrySound
  <2>3. op = "write"
    BY <1>1, <2>2
  <2>4. Without'
    BY <1>3, <1>4, <2>1, <2>2, <2>3 DEF Without, Allocated
  <2> QED
    BY <1>9, <2>3, <2>4
<1>11. CASE ~(file.first < 2)
  <2>1. file.first # 0 /\ call'.pc = "walk"
    BY <1>4, <1>11
  <2>2. file.first = entry.first /\ Allocated
    BY <1>0, <1>1, <1>11, <2>1 DEF HandleSound, Allocated, EntrySound
  <2>3. PICK n, ch : /\ Own(next, entry.first, n, ch) /\ Apart(n, ch)
                     /\ entry.size <= n * ClusterSize
    BY <1>0, <2>2 DEF EntrySound
  <2>4. Own(next, file.first, n, ch)' /\ Apart(n, ch)' /\ (entry.size <= n * ClusterSize)'
    BY <1>3, <2>2, <2>3 DEF Own, Apart
  <2>5. Named(n, ch)'
    BY <1>3, <1>4, <2>2 DEF Named
  <2>6. Located(n, ch)'
    <3>1. ch[0] = file.first /\ 0 \in 0..(n - 1)
      BY <2>2, <2>3 DEF Own
    <3>2. FinalIndex' \in Nat /\ StartIndex' \in Nat
      <4>1. file.position + m - 1 \in Nat
        BY <1>1
      <4>2. (file.position + m - 1) \div ClusterSize \in Nat /\ file.position \div ClusterSize \in Nat
        BY <1>1, <4>1, PositionParts, Zenon
      <4> QED
        BY <1>4, <4>2 DEF FinalIndex, StartIndex
    <3> QED
      BY <1>4, <2>1, <3>1, <3>2 DEF Located
  <2>7. Written(ch)'
    <3>1. \A i \in 1..entry.size : Content[i] = ByteAt(disk, ch, i - 1)
      BY <1>1, <2>3, ContentIs, ContentHere
    <3>2. \A p \in 0..(entry.size - 1) : ByteAt(disk, ch, p) = Content[p + 1]
      <4> TAKE p \in 0..(entry.size - 1)
      <4>1. p + 1 \in 1..entry.size /\ (p + 1) - 1 = p
        BY <1>1
      <4> QED
        BY <3>1, <4>1
    <3>3. ByteAt(disk, ch, 0)' = ByteAt(disk, ch, 0) /\ \A p : ByteAt(disk, ch, p)' = ByteAt(disk, ch, p)
      BY <1>3 DEF ByteAt, SectorOf, InSectorOf, LBA
    <3>4. call'.start..(Position' - 1) = {}
      BY <1>1, <1>4, <1>8
    <3> QED
      BY <1>3, <1>4, <3>2, <3>3, <3>4 DEF Written
  <2>8. Delivered(ch)'
    BY <1>4, EmptySeq DEF Delivered
  <2>9. Going(n, ch)'
    BY <2>1, <2>4, <2>5, <2>6, <2>7, <2>8 DEF Going
  <2>10. file.first >= 2
    BY <1>1, <2>1, Marks
  <2> QED
    BY <1>9, <2>9, <2>10
<1> QED
  BY <1>10, <1>11

LEMMA LesserIs ==
  ASSUME NEW a \in Nat, NEW b \in Nat
  PROVE  Lesser(a, b) \in Nat /\ Lesser(a, b) <= a /\ Lesser(a, b) <= b /\ Lesser(a, b) \in {a, b}
BY DEF Lesser

LEMMA BeginSteps ==
  ASSUME FileInv, NEW m \in Lengths, BeginRead(m) \/ BeginWrite(m)
  PROVE  FileInv'
<1>1. Types /\ m \in Nat \ {0} /\ file.position \in Nat /\ file.size \in Nat
  BY Values, SizeAssumption DEF FileInv
<1>2. CASE BeginRead(m)
  <2> DEFINE k == Lesser(m, file.size - file.position)
  <2>1. file.position < file.size /\ Begin("read", k)
    BY <1>2 DEF BeginRead
  <2>2. k \in Nat \ {0} /\ file.position + k <= file.size
    BY <1>1, <2>1 DEF Lesser
  <2> HIDE DEF k
  <2>3. file.position <= file.size
    BY <1>1, <2>1
  <2> QED
    BY <2>1, <2>2, <2>3, Begins
<1>3. CASE BeginWrite(m)
  BY <1>1, <1>3, Begins DEF BeginWrite
<1> QED
  BY <1>2, <1>3

-----------------------------------------------------------------------------
(* Along the chain *)

\* A call beyond its first step is about a chain.
LEMMA Chained ==
  ASSUME FileInv, call.pc \notin {"idle", "first"}
  PROVE  Types /\ OtherFileKept /\ Running /\ \E n, ch : Going(n, ch)
BY DEF FileInv, Running, Without

\* The clusters a call begins and ends in.
LEMMA Indices ==
  ASSUME Types, call.size > 0
  PROVE  StartIndex \in Nat /\ FinalIndex \in Nat /\ StartIndex <= FinalIndex
<1> DEFINE a == call.start
           b == call.start + call.size - 1
<1>1. a \in Nat /\ b \in Nat /\ a <= b
  BY CallValues
<1> HIDE DEF a, b
<1>2. /\ a \div ClusterSize \in Nat /\ a = ClusterSize * (a \div ClusterSize) + (a % ClusterSize)
      /\ a % ClusterSize \in 0..(ClusterSize - 1)
  BY <1>1, Sizes, DivMod
<1>3. /\ b \div ClusterSize \in Nat /\ b = ClusterSize * (b \div ClusterSize) + (b % ClusterSize)
      /\ b % ClusterSize \in 0..(ClusterSize - 1)
  BY <1>1, Sizes, DivMod
<1>4. a \div ClusterSize <= b \div ClusterSize
  <2> SUFFICES ASSUME (b \div ClusterSize) + 1 <= a \div ClusterSize PROVE FALSE
    BY <1>2, <1>3
  <2> DEFINE x == a \div ClusterSize
             y == b \div ClusterSize
  <2>1. x \in Nat /\ y \in Nat /\ y + 1 <= x
    BY <1>2, <1>3
  <2>2. a = ClusterSize * x + (a % ClusterSize) /\ b = ClusterSize * y + (b % ClusterSize)
    BY <1>2, <1>3
  <2> HIDE DEF x, y
  <2>3. ClusterSize * (y + 1) <= ClusterSize * x /\ ClusterSize * (y + 1) = ClusterSize * y + ClusterSize
    BY <2>1, Sizes, TimesMonotone
  <2>4. ClusterSize * x \in Nat /\ ClusterSize * y \in Nat
    BY <2>1, Sizes, TimesMonotone
  <2> DEFINE u == ClusterSize * x
             v == ClusterSize * y
             r == a % ClusterSize
             s == b % ClusterSize
  <2>5. /\ u \in Nat /\ v \in Nat /\ v + ClusterSize <= u /\ a = u + r /\ b = v + s
        /\ r \in 0..(ClusterSize - 1) /\ s \in 0..(ClusterSize - 1)
    BY <1>2, <1>3, <2>2, <2>3, <2>4
  <2> HIDE DEF u, v, r, s
  <2> QED
    BY <1>1, <2>5, Sizes
<1> QED
  BY <1>2, <1>3, <1>4 DEF a, b, StartIndex, FinalIndex

\* A chain that reaches the last cluster of a call holds all of it.
LEMMA FinalCovers ==
  ASSUME Types, call.size > 0, NEW n \in Nat \ {0}, FinalIndex <= n - 1
  PROVE  call.start + call.size <= n * ClusterSize
<1> DEFINE b == call.start + call.size - 1
           y == b \div ClusterSize
           s == b % ClusterSize
<1>1. b \in Nat /\ b + 1 = call.start + call.size
  BY CallValues
<1>2. y \in Nat /\ b = ClusterSize * y + s /\ s \in 0..(ClusterSize - 1)
  BY <1>1, Sizes, DivMod
<1>3. y + 1 <= n
  BY <1>2 DEF FinalIndex
<1> HIDE DEF b, y, s
<1>4. ClusterSize * (y + 1) <= ClusterSize * n /\ ClusterSize * (y + 1) = ClusterSize * y + ClusterSize
      /\ ClusterSize * n = n * ClusterSize
  BY <1>2, <1>3, Sizes, TimesMonotone
<1> DEFINE u == ClusterSize * y
<1>5. u \in Nat /\ b = u + s /\ u + ClusterSize <= n * ClusterSize
  BY <1>2, <1>4, Sizes, TimesMonotone
<1>6. n * ClusterSize \in Nat
  BY <1>4, Sizes, TimesMonotone
<1> DEFINE w == n * ClusterSize
<1>7. w \in Nat /\ u + ClusterSize <= w /\ u \in Nat /\ b = u + s
  BY <1>5, <1>6
<1> HIDE DEF u, w
<1>8. b + 1 <= w
  BY <1>1, <1>2, <1>7, Sizes
<1> QED
  BY <1>1, <1>8 DEF w

\* While bytes are moved, the call is in a cluster of the chain.
LEMMA Moving ==
  ASSUME Types, Running, NEW n, NEW ch, Going(n, ch), call.done < call.size, call.pc # "walk"
  PROVE  /\ Position < n * ClusterSize /\ n \in Nat \ {0}
         /\ Position \div ClusterSize \in 0..(n - 1)
         /\ ch[Position \div ClusterSize] \in Cluster /\ ch[Position \div ClusterSize] # other
         /\ Position % ClusterSize \in Offset
<1>1. /\ call.start + call.size <= n * ClusterSize
      /\ Own(next, file.first, n, ch) /\ Apart(n, ch)
  BY DEF Going, Located
<1>2. n \in Nat \ {0}
  BY <1>1 DEF Own
<1>3. n * ClusterSize \in Nat
  BY <1>2, Sizes, TimesMonotone
<1> DEFINE w == n * ClusterSize
<1>4. w \in Nat /\ call.start + call.size <= w
  BY <1>1, <1>3
<1> HIDE DEF w
<1>5. Position \in Nat /\ Position < w
  BY <1>4, CallValues DEF Position
<1>6. Position < n * ClusterSize
  BY <1>5 DEF w
<1>7. Position \div ClusterSize \in 0..(n - 1)
  BY <1>2, <1>5, <1>6, InChain
<1>8. Position % ClusterSize \in Offset
  BY <1>5, PositionParts
<1> QED
  BY <1>1, <1>2, <1>6, <1>7, <1>8 DEF Own, Apart

\* One cluster further along the chain.
LEMMA Advanced ==
  ASSUME call \in CallType, NEW c \in Cluster, NEW d \in Cluster \cup {0},
         call' \in {[call EXCEPT !.index = @ + 1, !.cluster = c],
                   [call EXCEPT !.index = @ + 1, !.cluster = c, !.from = d]}
  PROVE  /\ call' \in CallType /\ call'.op = call.op /\ call'.size = call.size
         /\ call'.done = call.done /\ call'.start = call.start /\ call'.out = call.out
         /\ call'.old = call.old /\ call'.before = call.before /\ call'.pc = call.pc
         /\ call'.index = call.index + 1 /\ call'.cluster = c
         /\ call'.from \in {d, call.from}
<1>1. call.index \in Nat
  BY DEF CallType
<1>2. PICK i \in Nat : i = call.index + 1
  BY <1>1
<1>3. CASE call' = [call EXCEPT !.index = @ + 1, !.cluster = c]
  <2>1. call' = [call EXCEPT !.index = i, !.cluster = c]
    BY <1>2, <1>3
  <2> QED
    BY <1>2, <2>1 DEF CallType
<1>4. CASE call' = [call EXCEPT !.index = @ + 1, !.cluster = c, !.from = d]
  <2>1. call' = [call EXCEPT !.index = i, !.cluster = c, !.from = d]
    BY <1>2, <1>4
  <2> QED
    BY <1>2, <2>1 DEF CallType
<1> QED
  BY <1>3, <1>4

LEMMA NextStep == ASSUME FileInv, NextCluster PROVE FileInv'
<1>1. Types /\ Running /\ sector_buffer' \in Sector /\ call.pc = "next"
  BY Chained, TableSector DEF NextCluster
<1>2. PICK n, ch : Going(n, ch)
  BY <1>1, Chained
<1>3. CASE next[call.cluster] = EOC
  <2>1. Error /\ UNCHANGED <<disk, next, entry, calls, other>>
    BY <1>3 DEF NextCluster
  <2> QED
    BY <1>1, <2>1, Fails
<1>4. CASE next[call.cluster] # EOC
  <2>1. /\ call' = [call EXCEPT !.cluster = next[@], !.pc = "data"]
        /\ UNCHANGED <<disk, next, entry, file, calls, other>>
    BY <1>4 DEF NextCluster
  <2> DEFINE i == Position \div ClusterSize
  <2>2. /\ call.done < call.size /\ call.offset = 0 /\ Position % ClusterSize = 0
        /\ i >= 1 /\ call.cluster = ch[i - 1] /\ call.start + call.size <= n * ClusterSize
    BY <1>1, <1>2 DEF Going, Located
  <2>3. i \in 0..(n - 1) /\ ch[i] \in Cluster /\ n \in Nat
    BY <1>1, <1>2, <2>2, Moving
  <2> HIDE DEF i
  <2>4. next[call.cluster] = ch[i]
    <3>1. i - 1 \in 0..(n - 1) /\ i - 1 # n - 1 /\ (i - 1) + 1 = i
      BY <2>2, <2>3
    <3> QED
      BY <1>2, <2>2, <3>1 DEF Going, Own
  <2>5. call \in CallType
    BY <1>1, CallValues
  <2>6. /\ call' \in CallType /\ call'.op = call.op /\ call'.size = call.size
        /\ call'.done = call.done /\ call'.start = call.start /\ call'.out = call.out
        /\ call'.old = call.old /\ call'.before = call.before /\ call'.pc = "data"
        /\ call'.offset = call.offset /\ call'.cluster = ch[i]
    BY <2>1, <2>3, <2>4, <2>5 DEF CallType
  <2>7. Located(n, ch)'
    BY <2>2, <2>6 DEF Located, Position, i
  <2> QED
    BY <1>1, <1>2, <2>1, <2>6, <2>7, GoesOn
<1> QED
  BY <1>3, <1>4

LEMMA SeekStep == ASSUME FileInv, Seek PROVE FileInv'
<1>1. Types /\ Running /\ sector_buffer' \in Sector /\ call.op = "read" /\ call.pc = "walk"
  BY Chained, TableSector DEF Seek
<1>2. PICK n, ch : Going(n, ch)
  BY <1>1, Chained
<1>3. call \in CallType /\ call.index \in Nat /\ call.start \in Nat /\ call.size \in Nat
  BY <1>1, CallValues
<1>4. /\ call.done = 0 /\ call.index \in 0..(n - 1) /\ call.cluster = ch[call.index]
      /\ Own(next, file.first, n, ch) /\ entry.size <= n * ClusterSize
  BY <1>1, <1>2 DEF Going, Located
<1>5. n \in Nat \ {0} /\ ch[call.index] \in Cluster
  BY <1>4 DEF Own
<1>6. CASE call.index = StartIndex
  <2>1. /\ call' = [call EXCEPT !.pc = "data", !.offset = call.start % ClusterSize]
        /\ UNCHANGED <<disk, next, entry, file, calls, other>>
    BY <1>6 DEF Seek
  <2>2. call.start % ClusterSize \in 0..(ClusterSize - 1) /\ Position = call.start
    BY <1>3, <1>4, PositionParts DEF Offset, Position
  <2>3. /\ call' \in CallType /\ call'.op = call.op /\ call'.size = call.size
        /\ call'.done = call.done /\ call'.start = call.start /\ call'.out = call.out
        /\ call'.old = call.old /\ call'.before = call.before /\ call'.pc = "data"
        /\ call'.offset = call.start % ClusterSize /\ call'.cluster = call.cluster
    BY <1>3, <2>1, <2>2 DEF CallType
  <2>4. call.start + call.size <= n * ClusterSize
    <3>1. n * ClusterSize \in Nat /\ entry.size \in Nat
      BY <1>1, <1>5, Sizes, TimesMonotone, Values
    <3>2. PICK w \in Nat : w = n * ClusterSize
      BY <3>1
    <3>3. call.start + call.size <= w
      BY <1>1, <1>3, <1>4, <3>1, <3>2 DEF Running
    <3> QED
      BY <3>2, <3>3
  <2>5. Located(n, ch)'
    <3>1. Position' = call.start
      BY <2>2, <2>3 DEF Position
    <3>2. call.done < call.size
      BY <1>1, <1>3, <1>4 DEF Running
    <3> QED
      BY <1>4, <1>6, <2>3, <2>4, <3>1, <3>2 DEF Located, StartIndex
  <2> QED
    BY <1>1, <1>2, <2>1, <2>3, <2>5, GoesOn
<1>7. CASE call.index # StartIndex /\ next[call.cluster] = EOC
  <2>1. Error /\ UNCHANGED <<disk, next, entry, calls, other>>
    BY <1>7 DEF Seek
  <2> QED
    BY <1>1, <2>1, Fails
<1>8. CASE call.index # StartIndex /\ next[call.cluster] # EOC
  <2>1. /\ call' = [call EXCEPT !.index = @ + 1, !.cluster = next[@]]
        /\ UNCHANGED <<disk, next, entry, file, calls, other>>
    BY <1>8 DEF Seek
  <2>2. /\ call.index + 1 \in 0..(n - 1) /\ next[call.cluster] = ch[call.index + 1]
        /\ ch[call.index + 1] \in Cluster
    <3>1. call.index # n - 1
      BY <1>4, <1>8 DEF Own
    <3>2. call.index + 1 \in 0..(n - 1)
      BY <1>4, <1>5, <3>1
    <3> QED
      BY <1>4, <3>1, <3>2 DEF Own
  <2>3. /\ call' \in CallType /\ call'.op = call.op /\ call'.size = call.size
        /\ call'.done = call.done /\ call'.start = call.start /\ call'.out = call.out
        /\ call'.old = call.old /\ call'.before = call.before /\ call'.pc = "walk"
        /\ call'.index = call.index + 1 /\ call'.cluster = ch[call.index + 1]
    BY <1>1, <1>3, <2>1, <2>2, Advanced
  <2>4. Located(n, ch)'
    BY <1>1, <1>4, <2>2, <2>3 DEF Located
  <2> QED
    BY <1>1, <1>2, <2>1, <2>3, <2>4, GoesOn
<1> QED
  BY <1>6, <1>7, <1>8

\* A cluster for the file that had none.
LEMMA FirstCluster == ASSUME FileInv, AllocateFirst PROVE FileInv'
<1>1. /\ Types /\ OtherFileKept /\ Running /\ Without /\ call.pc = "first"
      /\ sector_buffer' \in Sector /\ UNCHANGED <<disk, entry, calls, other>>
  BY TableSector DEF AllocateFirst, FileInv, Running, Going
<1>2. CASE Full /\ Error /\ UNCHANGED next
  BY <1>1, <1>2, Fails
<1>3. ASSUME NEW c \in Cluster, FirstFree(c), next' = [next EXCEPT ![c] = EOC],
             file' = [file EXCEPT !.first = c],
             call' = [call EXCEPT !.pc = "walk", !.cluster = c]
      PROVE  FileInv'
  <2>1. /\ next \in FatMap /\ next[c] = FREE /\ entry.size = 0 /\ ~Allocated /\ call.op = "write"
        /\ call.done = 0 /\ call.index = 0 /\ call.old.first = 0 /\ call \in CallType
        /\ file \in Handle /\ entry.first \in Cluster \cup {0}
    BY <1>1, <1>3, Values, CallValues DEF Without, FirstFree, Types
  <2>2. /\ call' \in CallType /\ call'.op = "write" /\ call'.size = call.size
        /\ call'.done = 0 /\ call'.start = call.start /\ call'.out = call.out
        /\ call'.old = call.old /\ call'.before = call.before /\ call'.pc = "walk"
        /\ call'.index = 0 /\ call'.cluster = c /\ call'.from = call.from
    BY <1>3, <2>1 DEF CallType
  <2>3. /\ file' \in Handle /\ file'.first = c /\ file'.open = file.open
        /\ file'.size = file.size /\ file'.position = file.position
    BY <1>3, <2>1 DEF Handle
  <2>4. next' \in FatMap /\ other # c /\ \A d \in Cluster : d # c => next'[d] = next[d]
    BY <1>1, <1>3, <2>1, Marks DEF OtherFileKept, FatMap, EOC
  <2>5. Types' /\ OtherFileKept'
    <3>1. other \in Cluster /\ next'[other] = next[other]
      BY <1>1, <2>4 DEF Types
    <3>2. OtherFileKept'
      BY <1>1, <1>3, <3>1 DEF OtherFileKept, LBA, AllocateFirst
    <3>3. UNCHANGED other /\ call'.done <= call'.size
      BY <1>1, <2>1, <2>2 DEF Types
    <3> QED
      BY <1>1, <2>2, <2>3, <2>4, <3>2, <3>3 DEF Types, FatMap
  <2> DEFINE ch == [i \in 0..0 |-> c]
  <2>6. Own(next', file'.first, 1, ch)
    BY <1>3, <2>1, <2>3, OneCluster
  <2>7. ch[0] = c /\ 0 \in 0..0 /\ Apart(1, ch)'
    BY <1>1, <2>4 DEF Apart
  <2> HIDE DEF ch
  <2>8. Named(1, ch)'
    <3>1. ~Allocated' \/ entry'.first = ch[0]
      <4>1. CASE entry.first \in Cluster /\ entry.first # c
        BY <1>1, <2>1, <2>4, <4>1 DEF Allocated
      <4>2. CASE entry.first = 0
        BY <1>1, <4>2 DEF Allocated
      <4>3. CASE entry.first = c
        BY <1>1, <2>7, <4>3
      <4> QED
        BY <2>1, <4>1, <4>2, <4>3
    <3>2. 0 \in 0..(1 - 1) /\ call'.old.first = 0 /\ entry'.size = 0
      BY <1>1, <2>1, <2>2
    <3> QED
      BY <2>2, <3>1, <3>2 DEF Named
  <2>9. Located(1, ch)'
    <3>1. StartIndex' \in Nat /\ FinalIndex' \in Nat
      BY <1>1, <2>2, Indices DEF StartIndex, FinalIndex, Running
    <3> QED
      BY <2>2, <2>7, <3>1 DEF Located
  <2>10. Written(ch)' /\ Delivered(ch)'
    <3>1. entry'.size = 0 /\ Position' = call'.start /\ call'.start \in Nat
      BY <1>1, <2>1, <2>2, CallValues DEF Position
    <3>2. call'.start..(Position' - 1) = {} /\ 0..(entry'.size - 1) = {}
      BY <3>1
    <3> QED
      BY <2>2, <3>2 DEF Written, Delivered
  <2>11. (entry.size <= 1 * ClusterSize)'
    BY <1>1, <2>1, Sizes
  <2>12. Going(1, ch)'
    BY <2>2, <2>6, <2>7, <2>8, <2>9, <2>10, <2>11 DEF Going
  <2>13. Running'
    <3>1. Position' = Position
      BY <2>1, <2>2 DEF Position
    <3> QED
      BY <1>1, <2>1, <2>2, <2>3, <2>12, <3>1 DEF Running
  <2> QED
    BY <2>2, <2>5, <2>13 DEF FileInv
<1> QED
  BY <1>2, <1>3 DEF AllocateFirst

\* The loop of fat32_write along the chain, its end, and a cluster put to the end.
LEMMA WalkStep == ASSUME FileInv, Walk PROVE FileInv'
<1> DEFINE from == IF call.index = StartIndex THEN call.cluster ELSE call.from
           Along(c) == [call EXCEPT !.index = @ + 1, !.cluster = c, !.from = from]
<1>1. /\ Types /\ OtherFileKept /\ Running /\ call.op = "write" /\ call.pc = "walk"
      /\ sector_buffer' \in Sector /\ UNCHANGED <<disk, entry, calls, other>>
  BY Chained, TableSector DEF Walk
<1>2. PICK n, ch : Going(n, ch)
  BY <1>1, Chained
<1>3. /\ call \in CallType /\ call.index \in Nat /\ call.start \in Nat /\ call.size \in Nat
      /\ call.size > 0 /\ from \in Cluster \cup {0}
  BY <1>1, CallValues DEF Running
<1>4. /\ call.done = 0 /\ call.index \in 0..(n - 1) /\ call.cluster = ch[call.index]
      /\ call.index <= FinalIndex
      /\ call.index > StartIndex => call.from = ch[StartIndex]
      /\ Own(next, file.first, n, ch) /\ Apart(n, ch) /\ entry.size <= n * ClusterSize
  BY <1>1, <1>2 DEF Going, Located
<1>5. n \in Nat \ {0} /\ ch[call.index] \in Cluster
  BY <1>4 DEF Own
<1>6. StartIndex \in Nat /\ FinalIndex \in Nat /\ StartIndex <= FinalIndex
  BY <1>1, <1>3, Indices
<1>7. call.index >= StartIndex => from = ch[StartIndex]
  BY <1>3, <1>4, <1>6
<1>8. Position = call.start
  BY <1>3, <1>4 DEF Position
<1> HIDE DEF from
<1>9. CASE /\ call.index = FinalIndex
           /\ call' = [call EXCEPT !.pc = "data", !.offset = call.start % ClusterSize,
                                   !.cluster = from]
           /\ UNCHANGED <<next, file>>
  <2>1. call.start % ClusterSize \in 0..(ClusterSize - 1)
    BY <1>3, PositionParts DEF Offset
  <2>2. /\ call' \in CallType /\ call'.op = call.op /\ call'.size = call.size
        /\ call'.done = call.done /\ call'.start = call.start /\ call'.out = call.out
        /\ call'.old = call.old /\ call'.before = call.before /\ call'.pc = "data"
        /\ call'.offset = call.start % ClusterSize /\ call'.cluster = from
    BY <1>3, <1>9, <2>1 DEF CallType
  <2>3. call.start + call.size <= n * ClusterSize
    BY <1>1, <1>3, <1>4, <1>5, <1>6, <1>9, FinalCovers
  <2>4. from = ch[StartIndex]
    BY <1>6, <1>7, <1>9
  <2>5. Located(n, ch)'
    <3>1. Position' = call.start
      BY <1>8, <2>2 DEF Position
    <3> QED
      BY <1>3, <1>4, <2>2, <2>3, <2>4, <3>1 DEF Located, StartIndex
  <2> QED
    BY <1>1, <1>2, <1>9, <2>2, <2>5, GoesOn
<1>10. CASE /\ call.index < FinalIndex /\ next[call.cluster] # EOC
            /\ call' = Along(next[call.cluster]) /\ UNCHANGED <<next, file>>
  <2>1. /\ call.index + 1 \in 0..(n - 1) /\ next[call.cluster] = ch[call.index + 1]
        /\ ch[call.index + 1] \in Cluster
    <3>1. call.index # n - 1
      BY <1>4, <1>10 DEF Own
    <3>2. call.index + 1 \in 0..(n - 1)
      BY <1>4, <1>5, <3>1
    <3> QED
      BY <1>4, <3>1, <3>2 DEF Own
  <2>2. call' = [call EXCEPT !.index = @ + 1, !.cluster = ch[call.index + 1], !.from = from]
    BY <1>10, <2>1
  <2>3. /\ call' \in CallType /\ call'.op = call.op /\ call'.size = call.size
        /\ call'.done = call.done /\ call'.start = call.start /\ call'.out = call.out
        /\ call'.old = call.old /\ call'.before = call.before /\ call'.pc = "walk"
        /\ call'.index = call.index + 1 /\ call'.cluster = ch[call.index + 1]
    BY <1>1, <1>3, <2>1, <2>2, Advanced
  <2>4. call'.from = from
    BY <1>3, <2>2 DEF CallType
  <2>5. Located(n, ch)'
    <3>1. StartIndex' = StartIndex /\ FinalIndex' = FinalIndex
      BY <2>3 DEF StartIndex, FinalIndex
    <3>2. call.index + 1 > StartIndex => from = ch[StartIndex]
      BY <1>3, <1>6, <1>7
    <3> QED
      BY <1>3, <1>4, <1>6, <1>10, <2>1, <2>3, <2>4, <3>1, <3>2 DEF Located
  <2> QED
    BY <1>1, <1>2, <1>10, <2>3, <2>5, GoesOn
<1>11. CASE Full /\ Error /\ UNCHANGED next
  BY <1>1, <1>11, Fails
<1>12. ASSUME call.index < FinalIndex, next[call.cluster] = EOC,
              NEW c \in Cluster, FirstFree(c),
              next' = [next EXCEPT ![c] = EOC, ![call.cluster] = c],
              call' = Along(c), UNCHANGED file
       PROVE  FileInv'
  <2>1. /\ next \in FatMap /\ next[c] = FREE /\ entry.first \in Cluster \cup {0}
        /\ entry.size \in Nat /\ disk \in Disks
    BY <1>1, <1>12, Values DEF FirstFree
  <2>2. call.index = n - 1 /\ call.cluster = ch[n - 1] /\ n - 1 \in 0..(n - 1)
    <3>1. call.index = n - 1
      <4> SUFFICES ASSUME call.index # n - 1 PROVE FALSE
        OBVIOUS
      <4>1. call.index + 1 \in 0..(n - 1)
        BY <1>4, <1>5
      <4>2. next[ch[call.index]] = ch[call.index + 1] /\ ch[call.index + 1] \in Cluster
        BY <1>4, <4>1 DEF Own
      <4> QED
        BY <1>4, <1>12, <4>2, Marks
    <3> QED
      BY <1>4, <1>5, <3>1
  <2> DEFINE longer == [i \in 0..n |-> IF i = n THEN c ELSE ch[i]]
  <2>3. Own(next', file'.first, n + 1, longer)
    <3>1. next' = [next EXCEPT ![c] = EOC, ![ch[n - 1]] = c] /\ file' = file
      BY <1>12, <2>2
    <3>2. Own([next EXCEPT ![c] = EOC, ![ch[n - 1]] = c], file.first, n + 1, longer)
      BY <1>4, <2>1, Extended
    <3> HIDE DEF longer
    <3> QED
      BY <3>1, <3>2
  <2>4. longer[n] = c /\ \A i \in 0..(n - 1) : longer[i] = ch[i] /\ i \in 0..n
    BY <1>5
  <2> HIDE DEF longer
  <2>5. /\ next' \in FatMap /\ ch[n - 1] \in Cluster /\ ch[n - 1] # other /\ c # other
        /\ \A d \in Cluster : d # c /\ d # ch[n - 1] => next'[d] = next[d]
    <3>1. ch[n - 1] \in Cluster /\ ch[n - 1] # other /\ c # other
      BY <1>1, <1>4, <2>1, <2>2, Marks DEF Own, Apart, OtherFileKept
    <3>2. next' = [[next EXCEPT ![c] = EOC] EXCEPT ![ch[n - 1]] = c]
      BY <1>12, <2>2
    <3> QED
      BY <2>1, <3>1, <3>2, Marks DEF FatMap, EOC
  <2>6. call' = [call EXCEPT !.index = @ + 1, !.cluster = c, !.from = from]
    BY <1>12
  <2>7. /\ call' \in CallType /\ call'.op = call.op /\ call'.size = call.size
        /\ call'.done = call.done /\ call'.start = call.start /\ call'.out = call.out
        /\ call'.old = call.old /\ call'.before = call.before /\ call'.pc = "walk"
        /\ call'.index = call.index + 1 /\ call'.cluster = c
    BY <1>1, <1>3, <2>6, Advanced
  <2>8. call'.from = from
    BY <1>3, <2>6 DEF CallType
  <2>9. Types' /\ OtherFileKept'
    <3>1. other \in Cluster /\ next'[other] = next[other]
      BY <1>1, <2>5 DEF Types
    <3> QED
      BY <1>1, <1>12, <2>5, <2>7, <3>1 DEF Types, FatMap, OtherFileKept, LBA
  <2>10. Apart(n + 1, longer)'
    <3> SUFFICES ASSUME NEW i \in 0..n PROVE longer[i] # other
      BY <1>1, <1>5 DEF Apart
    <3> QED
      BY <1>4, <1>5, <2>4, <2>5 DEF Apart
  <2>11. (entry.size <= (n + 1) * ClusterSize)'
    <3>1. PICK w \in Nat : w = n * ClusterSize
      BY <1>5, Sizes, TimesMonotone
    <3>2. (n + 1) * ClusterSize = w + ClusterSize
      BY <1>5, <3>1, Sizes
    <3> QED
      BY <1>1, <1>4, <2>1, <3>1, <3>2, Sizes
  <2>12. Named(n + 1, longer)'
    <3>1. CASE entry.first = file.first /\ call.old.first = file.first
      BY <1>1, <1>12, <2>7, <3>1 DEF Named
    <3>2. CASE call.old.first = 0 /\ entry.size = 0
               /\ (~Allocated \/ \E k \in 0..(n - 1) : entry.first = ch[k])
      <4>1. ~Allocated' \/ \E k \in 0..n : entry.first = longer[k]
        <5>1. CASE entry.first = c
          BY <1>5, <2>4, <5>1
        <5>2. CASE \E k \in 0..(n - 1) : entry.first = ch[k]
          BY <2>4, <5>2
        <5>3. CASE ~Allocated /\ entry.first # c
          <6>1. entry.first # ch[n - 1]
            <7>1. next[ch[n - 1]] # FREE /\ ch[n - 1] # 0
              BY <1>12, <2>2, <2>5, Marks
            <7> QED
              BY <5>3, <7>1 DEF Allocated
          <6> QED
            BY <1>1, <2>1, <2>5, <5>3, <6>1 DEF Allocated
        <5> QED
          BY <3>2, <5>1, <5>2, <5>3
      <4>2. (n + 1) - 1 = n
        BY <1>5
      <4> QED
        BY <1>1, <2>7, <3>2, <4>1, <4>2 DEF Named
    <3> QED
      BY <1>2, <3>1, <3>2 DEF Going, Named
  <2>13. Located(n + 1, longer)'
    <3>1. StartIndex' = StartIndex /\ FinalIndex' = FinalIndex
      BY <2>7 DEF StartIndex, FinalIndex
    <3>2. call.index + 1 = n /\ n \in 0..((n + 1) - 1)
      BY <1>5, <2>2
    <3>3. n > StartIndex => from = longer[StartIndex]
      <4> SUFFICES ASSUME n > StartIndex PROVE from = longer[StartIndex]
        OBVIOUS
      <4>1. StartIndex \in 0..(n - 1) /\ call.index >= StartIndex
        BY <1>5, <1>6, <2>2
      <4> QED
        BY <1>7, <2>4, <4>1
    <3>4. n <= FinalIndex
      BY <1>6, <1>12, <2>2, <1>5
    <3> QED
      BY <1>4, <2>4, <2>7, <2>8, <3>1, <3>2, <3>3, <3>4 DEF Located
  <2>14. Written(longer)'
    <3>1. call.start..(call.start - 1) = {} /\ Position' = call.start
      BY <1>3, <1>8, <2>7 DEF Position
    <3>2. ASSUME NEW p \in 0..(entry.size - 1)
          PROVE  ByteAt(disk, longer, p)' = call.before[p + 1]
      <4>1. PICK w \in Nat : w = n * ClusterSize
        BY <1>5, Sizes, TimesMonotone
      <4>2. p \in Nat /\ p < n * ClusterSize
        BY <1>4, <2>1, <4>1
      <4>3. p \div ClusterSize \in 0..(n - 1)
        BY <1>5, <4>2, InChain
      <4>4. longer[p \div ClusterSize] = ch[p \div ClusterSize]
        BY <2>4, <4>3
      <4>5. ByteAt(disk, longer, p)' = ByteAt(disk, ch, p)
        BY <1>1, <4>4 DEF ByteAt, SectorOf, InSectorOf, LBA
      <4>6. ByteAt(disk, ch, p) = call.before[p + 1]
        BY <1>1, <1>2, <1>8, <3>1 DEF Going, Written
      <4> QED
        BY <4>5, <4>6
    <3> QED
      BY <1>1, <2>7, <3>1, <3>2 DEF Written
  <2>15. Going(n + 1, longer)'
    <3>1. Delivered(longer)' /\ call'.pc # "first"
      BY <1>1, <2>7 DEF Delivered
    <3> QED
      BY <2>3, <2>10, <2>11, <2>12, <2>13, <2>14, <3>1 DEF Going
  <2>16. Running'
    <3>1. Position' = Position
      BY <2>7 DEF Position
    <3> QED
      BY <1>1, <1>12, <2>7, <2>15, <3>1 DEF Running
  <2> QED
    BY <2>7, <2>9, <2>16 DEF FileInv
<1> QED
  BY <1>9, <1>10, <1>11, <1>12 DEF Walk, from

-----------------------------------------------------------------------------
(* Sector by sector *)

\* How many bytes a step moves: some, not more than the call wants, and none
\* behind the end of the sector.
LEMMA Amounts ==
  ASSUME Types, call.done < call.size
  PROVE  /\ Amount \in Nat \ {0} /\ call.done + Amount <= call.size
         /\ InSector \in 0..(SectorSize - 1) /\ Amount <= SectorSize - InSector
<1>1. InSector \in 0..(SectorSize - 1)
  BY CallValues, SectorInCluster DEF InSector
<1> DEFINE a == call.size - call.done
           b == SectorSize - InSector
<1>2. a \in Nat \ {0} /\ b \in Nat \ {0}
  BY <1>1, CallValues, Sizes
<1>3. call.size \in Nat /\ call.done \in Nat /\ a = call.size - call.done
  BY CallValues
<1>4. Amount = Lesser(a, b)
  BY DEF Amount
<1>5. b = SectorSize - InSector
  OBVIOUS
<1> HIDE DEF a, b
<1>6. Amount \in Nat \ {0} /\ Amount <= a /\ Amount <= b
  BY <1>2, <1>4 DEF Lesser
<1> QED
  BY <1>1, <1>3, <1>5, <1>6

\* Behind a sector the call is where the position is.
LEMMA Behind ==
  ASSUME Types, Running, NEW n, NEW ch, Going(n, ch), call.pc \in {"data", "put"},
         NEW out \in Seq(Byte), call' = AfterSector(out)
  PROVE  /\ Located(n, ch)' /\ call' \in CallType /\ Position' = Position + Amount
         /\ call'.op = call.op /\ call'.size = call.size /\ call'.done = call.done + Amount
         /\ call'.start = call.start /\ call'.out = out /\ call'.old = call.old
         /\ call'.before = call.before /\ call'.pc \in {"data", "next", "done"}
<1>1. /\ call.done < call.size /\ call.cluster = ch[Position \div ClusterSize]
      /\ call.offset = Position % ClusterSize /\ call.start + call.size <= n * ClusterSize
  BY DEF Going, Located
<1>2. /\ Amount \in Nat \ {0} /\ call.done + Amount <= call.size
      /\ InSector \in 0..(SectorSize - 1) /\ Amount <= SectorSize - InSector
  BY <1>1, Amounts
<1>3. /\ call \in CallType /\ call.done \in Nat /\ call.size \in Nat /\ call.start \in Nat
      /\ Position \in Nat /\ Position = call.start + call.done /\ call.offset \in Nat
  BY CallValues DEF Position
<1> DEFINE m == Amount
           q == Position
           o == (call.offset + m) % ClusterSize
<1>4. /\ o = (q + m) % ClusterSize
      /\ (q + m) \div ClusterSize = IF o = 0 THEN (q \div ClusterSize) + 1 ELSE q \div ClusterSize
  <2>1. m <= SectorSize - ((q % ClusterSize) % SectorSize)
    BY <1>1, <1>2 DEF InSector
  <2>2. q \in Nat /\ m \in Nat \ {0}
    BY <1>2, <1>3
  <2> HIDE DEF m, q
  <2>3. /\ ((q % ClusterSize) + m) % ClusterSize = (q + m) % ClusterSize
        /\ (q + m) \div ClusterSize = IF (q + m) % ClusterSize = 0 THEN (q \div ClusterSize) + 1
                                       ELSE q \div ClusterSize
    BY <2>1, <2>2, SectorBehind
  <2>4. call.offset = q % ClusterSize
    BY <1>1 DEF q
  <2> QED
    BY <2>3, <2>4
<1>5. o \in 0..(ClusterSize - 1)
  <2>1. PICK x \in Nat : x = call.offset + m
    BY <1>2, <1>3
  <2>2. x % ClusterSize \in 0..(ClusterSize - 1)
    BY <2>1, PositionParts DEF Offset
  <2> QED
    BY <2>1, <2>2
<1>6. call' = [call EXCEPT !.done = call.done + m, !.offset = o, !.out = out,
                  !.pc = IF call.done + m >= call.size THEN "done" ELSE IF o = 0 THEN "next" ELSE "data"]
  BY DEF AfterSector
<1>7. call.done + m \in Nat /\ m \in Nat \ {0}
  BY <1>2, <1>3
<1>8. m = Amount /\ q = Position
  OBVIOUS
<1> HIDE DEF m, q, o
<1>9. /\ call' \in CallType /\ call'.op = call.op /\ call'.size = call.size
      /\ call'.done = call.done + m /\ call'.start = call.start /\ call'.out = out
      /\ call'.old = call.old /\ call'.before = call.before /\ call'.cluster = call.cluster
      /\ call'.offset = o
      /\ call'.pc = IF call.done + m >= call.size THEN "done" ELSE IF o = 0 THEN "next" ELSE "data"
  BY <1>3, <1>5, <1>6, <1>7 DEF CallType
<1>10. Position' = q + m
  BY <1>3, <1>7, <1>8, <1>9 DEF Position
<1>11. Located(n, ch)'
  <2>1. q \div ClusterSize \in Nat
    BY <1>3, <1>8, PositionParts
  <2> DEFINE i == q \div ClusterSize
  <2>2. i \in Nat /\ call.cluster = ch[i] /\ Position' \div ClusterSize = (IF o = 0 THEN i + 1 ELSE i)
        /\ Position' % ClusterSize = o
    BY <1>1, <1>4, <1>8, <1>10, <2>1
  <2> HIDE DEF i
  <2>3. CASE call'.pc = "done"
    BY <1>1, <1>2, <1>3, <1>7, <1>8, <1>9, <2>3 DEF Located
  <2>4. CASE call'.pc = "next"
    <3>1. o = 0 /\ call'.done < call'.size
      BY <1>3, <1>7, <1>9, <2>4
    <3>2. (Position' \div ClusterSize) >= 1 /\ (Position' \div ClusterSize) - 1 = i
      BY <2>2, <3>1
    <3> QED
      BY <1>1, <1>9, <2>2, <2>4, <3>1, <3>2 DEF Located
  <2>5. CASE call'.pc = "data"
    <3>1. o # 0 /\ call'.done < call'.size
      BY <1>3, <1>7, <1>9, <2>5
    <3> QED
      BY <1>1, <1>9, <2>2, <2>5, <3>1 DEF Located
  <2> QED
    BY <1>9, <2>3, <2>4, <2>5
<1> QED
  BY <1>8, <1>9, <1>10, <1>11

\* The sector a call is at, as the disk has it.
LEMMA Here ==
  ASSUME Types, Running, NEW n, NEW ch, Going(n, ch), call.pc \in {"data", "put"}
  PROVE  /\ LBA(call.cluster, call.offset) = SectorOf(ch, Position)
         /\ LBA(call.cluster, call.offset) \in LBAs
         /\ disk[LBA(call.cluster, call.offset)] \in Sector
         /\ call.cluster \in Cluster /\ call.cluster # other /\ call.offset \in Offset
         /\ call.done < call.size /\ InSectorOf(Position) = InSector + 1
<1>1. /\ call.done < call.size /\ call.cluster = ch[Position \div ClusterSize]
      /\ call.offset = Position % ClusterSize
  BY DEF Going, Located
<1>2. call.cluster \in Cluster /\ call.cluster # other /\ call.offset \in Offset
  BY <1>1, Moving
<1>3. LBA(call.cluster, call.offset) \in LBAs
  BY <1>2, LBAOnDisk
<1>4. disk[LBA(call.cluster, call.offset)] \in Sector
  BY <1>3, Values DEF Disks
<1> QED
  BY <1>1, <1>2, <1>3, <1>4 DEF SectorOf, InSectorOf, InSector

LEMMA FetchStep == ASSUME FileInv, FetchSector PROVE FileInv'
<1>1. /\ Types /\ Running /\ call.op = "write" /\ call.pc = "data"
      /\ UNCHANGED <<disk, next, entry, calls, other>> /\ call \in CallType
  BY Chained, CallValues DEF FetchSector
<1>2. PICK n, ch : Going(n, ch)
  BY <1>1, Chained
<1>3. CASE Error /\ UNCHANGED sector_buffer
  <2>1. sector_buffer' \in Sector
    BY <1>1, <1>3, Values
  <2> QED
    BY <1>1, <1>3, <2>1, Fails
<1>4. CASE /\ Loads(Fetch(disk[LBA(call.cluster, call.offset)]))
           /\ call' = [call EXCEPT !.pc = "put"] /\ UNCHANGED file
  <2>1. sector_buffer' = disk[LBA(call.cluster, call.offset)]
    BY <1>4 DEF Loads, Fetch
  <2>2. sector_buffer' \in Sector
    BY <1>1, <1>2, <2>1, Here
  <2>3. /\ call' \in CallType /\ call'.op = call.op /\ call'.size = call.size
        /\ call'.done = call.done /\ call'.start = call.start /\ call'.out = call.out
        /\ call'.old = call.old /\ call'.before = call.before /\ call'.pc = "put"
        /\ call'.offset = call.offset /\ call'.cluster = call.cluster
    BY <1>1, <1>4 DEF CallType
  <2>4. Located(n, ch)'
    <3>1. Position' = Position
      BY <2>3 DEF Position
    <3>2. LBA(call.cluster, call.offset)' = LBA(call.cluster, call.offset)
      BY <2>3 DEF LBA
    <3> QED
      BY <1>1, <1>2, <2>1, <2>3, <3>1, <3>2 DEF Going, Located
  <2> QED
    BY <1>1, <1>2, <1>4, <2>2, <2>3, <2>4, GoesOn
<1> QED
  BY <1>3, <1>4 DEF FetchSector

\* The bytes behind the d that were read before, counted from there.
LEMMA Behinds ==
  ASSUME NEW s \in Nat, NEW d \in Nat, NEW m \in Nat \ {0}, NEW i \in 1..(d + m), ~(i <= d)
  PROVE  /\ i - d - 1 \in 0..(m - 1) /\ (i - d - 1) + 1 = i - d
         /\ (s + d) + (i - d - 1) = s + i - 1 /\ s + i - 1 \in Nat
OBVIOUS

\* fat32_read copies a part of the sector it has just loaded.
LEMMA ReadStep == ASSUME FileInv, ReadSector PROVE FileInv'
<1>1. /\ Types /\ OtherFileKept /\ Running /\ call.op = "read" /\ call.pc = "data"
      /\ UNCHANGED <<disk, next, entry, calls, other>>
  BY Chained DEF ReadSector
<1>2. PICK n, ch : Going(n, ch)
  BY <1>1, Chained
<1>3. CASE Error /\ UNCHANGED sector_buffer
  <2>1. sector_buffer' \in Sector
    BY <1>1, <1>3, Values
  <2> QED
    BY <1>1, <1>3, <2>1, Fails
<1>4. CASE /\ Loads(disk[LBA(call.cluster, call.offset)])
           /\ call' = AfterSector(call.out \o Copied(sector_buffer'))
           /\ file' = [file EXCEPT !.position = @ + Amount]
  <2> DEFINE S == disk[LBA(call.cluster, call.offset)]
             m == Amount
             part == SubSeq(S, InSector + 1, InSector + m)
             out == call.out \o part
  <2>1. /\ S \in Sector /\ sector_buffer' = S /\ S = disk[SectorOf(ch, Position)]
        /\ call.done < call.size /\ InSectorOf(Position) = InSector + 1
    BY <1>1, <1>2, <1>4, Here DEF Loads
  <2>2. /\ m \in Nat \ {0} /\ call.done + m <= call.size
        /\ InSector \in 0..(SectorSize - 1) /\ m <= SectorSize - InSector
    BY <1>1, <2>1, Amounts
  <2>3. /\ call.out \in Seq(Byte) /\ call.done \in Nat /\ call.size \in Nat /\ call.start \in Nat
        /\ Position \in Nat /\ Position = call.start + call.done /\ SectorSize \in Nat
        /\ file \in Handle
    BY <1>1, CallValues, Sizes DEF Position, Types
  <2>4. Len(call.out) = call.done /\ \A i \in 1..call.done : call.out[i] = ByteAt(disk, ch, call.start + i - 1)
    BY <1>1, <1>2 DEF Going, Delivered
  <2>5. call' = AfterSector(out)
    BY <1>4, <2>1 DEF Copied
  <2>6. /\ part \in Seq(Byte) /\ Len(part) = m
        /\ \A k \in 1..m : part[k] = S[InSector + k]
    <3> DEFINE a == InSector + 1
               b == InSector + m
    <3>1. a \in Int /\ b \in Int /\ b - a + 1 = m /\ a <= b
      BY <2>2
    <3>2. \A i \in a..b : S[i] \in Byte
      <4>1. \A i \in a..b : i \in 1..SectorSize
        BY <2>2, <2>3
      <4> HIDE DEF S, a, b
      <4> QED
        BY <2>1, <4>1 DEF Sector
    <3> HIDE DEF S, a, b
    <3>3. /\ SubSeq(S, a, b) \in Seq(Byte)
          /\ Len(SubSeq(S, a, b)) = IF a <= b THEN b - a + 1 ELSE 0
          /\ \A k \in 1..(b - a + 1) : SubSeq(S, a, b)[k] = S[a + k - 1]
      BY <3>1, <3>2, SubSeqProperties
    <3>4. \A k \in 1..m : a + k - 1 = InSector + k
      BY <2>2 DEF a
    <3>5. part = SubSeq(S, a, b)
      BY DEF a, b
    <3> HIDE DEF part, m
    <3> QED
      BY <3>1, <3>3, <3>4, <3>5
  <2> HIDE DEF S, part, m
  <2>7. /\ out \in Seq(Byte) /\ Len(out) = call.done + m
        /\ \A i \in 1..(call.done + m) :
             out[i] = IF i <= call.done THEN call.out[i] ELSE part[i - call.done]
    <3> DEFINE s == call.out
               d == call.done
    <3>1. s \in Seq(Byte) /\ part \in Seq(Byte) /\ Len(s) = d /\ Len(part) = m /\ d \in Nat
      BY <2>3, <2>4, <2>6
    <3>2. out = s \o part
      OBVIOUS
    <3> HIDE DEF out, s, d
    <3>3. /\ s \o part \in Seq(Byte) /\ Len(s \o part) = Len(s) + Len(part)
          /\ \A i \in 1..(Len(s) + Len(part)) :
               (s \o part)[i] = IF i <= Len(s) THEN s[i] ELSE part[i - Len(s)]
      BY <3>1, ConcatProperties
    <3> QED
      BY <3>1, <3>2, <3>3 DEF s, d
  <2> HIDE DEF out
  <2>8. /\ Located(n, ch)' /\ call' \in CallType /\ Position' = Position + Amount
        /\ call'.op = call.op /\ call'.size = call.size /\ call'.done = call.done + Amount
        /\ call'.start = call.start /\ call'.out = out /\ call'.old = call.old
        /\ call'.before = call.before /\ call'.pc \in {"data", "next", "done"}
    BY <1>1, <1>2, <2>5, <2>7, Behind
  <2>9. Delivered(ch)'
    <3> SUFFICES ASSUME NEW i \in 1..(call.done + m)
                 PROVE  out[i] = ByteAt(disk, ch, call.start + i - 1)
      <4>1. \A p : ByteAt(disk, ch, p)' = ByteAt(disk, ch, p)
        BY <1>1 DEF ByteAt, SectorOf, InSectorOf, LBA
      <4> QED
        BY <2>7, <2>8, <4>1 DEF Delivered, m
    <3>1. CASE i <= call.done
      <4>1. i \in 1..call.done
        BY <2>2, <2>3, <3>1
      <4> QED
        BY <2>4, <2>7, <3>1, <4>1
    <3>2. CASE ~(i <= call.done)
      <4> DEFINE k == i - call.done - 1
                 q == Position
                 p == call.start + i - 1
      <4>1. k \in Nat /\ k < m /\ k + 1 = i - call.done /\ q + k = p /\ k + 1 \in 1..m
            /\ q \in Nat /\ p \in Nat
        <5>1. i - call.done - 1 \in 0..(m - 1) /\ (i - call.done - 1) + 1 = i - call.done
              /\ (call.start + call.done) + (i - call.done - 1) = call.start + i - 1
              /\ call.start + i - 1 \in Nat
          <6>1. PICK s \in Nat, d \in Nat, l \in Nat \ {0} : s = call.start /\ d = call.done /\ l = m
            BY <2>2, <2>3
          <6>2. i \in 1..(d + l) /\ ~(i <= d)
            BY <3>2, <6>1
          <6>3. /\ i - d - 1 \in 0..(l - 1) /\ (i - d - 1) + 1 = i - d
                /\ (s + d) + (i - d - 1) = s + i - 1 /\ s + i - 1 \in Nat
            BY <6>1, <6>2, Behinds
          <6> QED
            BY <6>1, <6>3
        <5>2. k \in 0..(m - 1) /\ k + 1 = i - call.done /\ q + k = p /\ q \in Nat /\ p \in Nat
          BY <2>3, <5>1
        <5> HIDE DEF k, q, p
        <5> QED
          BY <2>2, <5>2
      <4>2. k < SectorSize - ((q % ClusterSize) % SectorSize)
        <5>1. InSector = (q % ClusterSize) % SectorSize
          BY <1>2, <1>1 DEF Going, Located, InSector
        <5> HIDE DEF k, q
        <5>2. InSector \in Nat /\ m \in Nat
          BY <2>2, <2>3
        <5>3. k < SectorSize - InSector
          BY <2>2, <2>3, <4>1, <5>2
        <5> QED
          BY <5>1, <5>3
      <4> HIDE DEF k, q, p
      <4>3. /\ (q + k) \div ClusterSize = q \div ClusterSize
            /\ ((q + k) % ClusterSize) \div SectorSize = (q % ClusterSize) \div SectorSize
        BY <4>1, <4>2, SectorAhead
      <4>4. p \div ClusterSize = q \div ClusterSize
            /\ (p % ClusterSize) \div SectorSize = (q % ClusterSize) \div SectorSize
        BY <4>1, <4>3
      <4>5. SectorOf(ch, p) = SectorOf(ch, q)
        BY <4>4 DEF SectorOf, LBA
      <4>6. p - q = InSectorOf(p) - InSectorOf(q)
        BY <4>1, <4>4, SectorDistance
      <4>7. InSectorOf(p) = InSector + (k + 1)
        <5>1. InSectorOf(p) \in Nat
          BY <4>1, InSectorType, Sizes
        <5>2. InSectorOf(q) = InSector + 1
          BY <2>1 DEF q
        <5> QED
          BY <2>2, <4>1, <4>6, <5>1, <5>2
      <4>8. part[k + 1] = S[InSector + (k + 1)]
        BY <2>6, <4>1
      <4>9. ByteAt(disk, ch, p) = S[InSector + (k + 1)]
        BY <2>1, <4>5, <4>7 DEF ByteAt, q
      <4>10. out[i] = part[k + 1]
        BY <2>7, <3>2, <4>1
      <4> QED
        BY <4>8, <4>9, <4>10 DEF p
    <3> QED
      BY <3>1, <3>2
  <2>10. /\ file' \in Handle /\ file'.first = file.first /\ file'.open = file.open
         /\ file'.size = file.size /\ file'.position = file.position + m
    <3>1. PICK x \in Nat : x = file.position + Amount
      BY <2>2, <2>3 DEF Handle, m
    <3>2. file' = [file EXCEPT !.position = x]
      BY <1>4, <3>1
    <3> QED
      BY <2>3, <3>1, <3>2 DEF Handle, m
  <2>11. Types' /\ OtherFileKept'
    <3>1. call'.done <= call'.size /\ call'.op = "read" /\ sector_buffer' \in Sector
      BY <1>1, <2>1, <2>2, <2>8 DEF m
    <3> QED
      BY <1>1, <2>8, <2>10, <3>1 DEF Types, OtherFileKept, LBA
  <2>12. Going(n, ch)'
    <3>1. Named(n, ch)' /\ Apart(n, ch)' /\ Own(next, file.first, n, ch)' /\ (entry.size <= n * ClusterSize)'
      BY <1>1, <1>2, <2>8, <2>10 DEF Going, Named, Apart, Own, Allocated
    <3>2. Written(ch)' /\ call'.pc # "first"
      BY <1>1, <2>8 DEF Written
    <3> QED
      BY <2>8, <2>9, <3>1, <3>2 DEF Going
  <2>13. Running'
    <3>1. file'.position = Position' /\ call'.done <= call'.size
      BY <1>1, <2>2, <2>8, <2>10 DEF Running, m
    <3> QED
      BY <1>1, <2>8, <2>10, <2>12, <3>1 DEF Running
  <2> QED
    BY <2>8, <2>11, <2>13 DEF FileInv
<1> QED
  BY <1>3, <1>4 DEF ReadSector

LEMMA EndReadStep == ASSUME FileInv, EndRead PROVE FileInv'
<1>1. /\ Types /\ OtherFileKept /\ Running /\ call.op = "read" /\ call.pc = "done"
      /\ UNCHANGED <<disk, next, entry, sector_buffer, file, calls, other>>
      /\ call' = [call EXCEPT !.pc = "idle"] /\ call \in CallType
  BY Chained, CallValues DEF EndRead, Ok
<1>2. PICK n, ch : Going(n, ch)
  BY <1>1, Chained
<1>3. EntrySound /\ ReadsBack
  BY <1>1, RunningRests
<1>4. /\ call' \in CallType /\ call'.pc = "idle" /\ call'.op = "read"
      /\ call'.start = call.start /\ call'.size = call.size
      /\ call'.done = call.done /\ call'.out = call.out
  BY <1>1 DEF CallType
<1>5. Types' /\ OtherFileKept'
  BY <1>1, <1>4 DEF Types, OtherFileKept, LBA
<1>6. EntrySound' /\ WriteKeepsRest' /\ DoneIsOnDisk'
  BY <1>1, <1>3, <1>4 DEF EntrySound, Allocated, Own, Apart, WriteKeepsRest, DoneIsOnDisk
<1>7. ReadsBack'
  BY <1>1, <1>3, <1>4, ContentHere DEF ReadsBack
<1>8. HandleSound'
  <2>1. entry.first = file.first /\ file.size = entry.size
    BY <1>1, <1>2 DEF Going, Named, Running
  <2>2. file.position <= entry.size
    BY <1>1, CallValues, Values DEF Running, Position
  <2> QED
    BY <1>1, <2>1, <2>2 DEF HandleSound
<1> QED
  BY <1>4, <1>5, <1>6, <1>7, <1>8 DEF FileInv, Resting

-----------------------------------------------------------------------------
(* fat32_write: a sector, the end, the entry *)

\* The sector that is put on the disk.
Put == IF Whole THEN [i \in 1..SectorSize |-> calls] ELSE Merged
PutOnDisk == [disk EXCEPT ![LBA(call.cluster, call.offset)] = Put]

LEMMA PutIs ==
  ASSUME Types, Running, NEW n, NEW ch, Going(n, ch), call.pc = IF Whole THEN "data" ELSE "put"
  PROVE  /\ Put \in Sector /\ PutOnDisk \in Disks /\ (~Whole => Merged \in Sector)
         /\ \A p \in Nat : p < n * ClusterSize =>
              ByteAt(PutOnDisk, ch, p) = IF p \in Position..(Position + Amount - 1) THEN calls
                                         ELSE ByteAt(disk, ch, p)
<1> DEFINE q == Position
           m == Amount
           L == LBA(call.cluster, call.offset)
<1>1. /\ disk \in Disks /\ calls \in Byte /\ sector_buffer \in Sector /\ SectorSize \in Nat \ {0}
      /\ call.pc \in {"data", "put"} /\ q \in Nat
  BY Values, CallValues, Sizes
<1>2. /\ L = SectorOf(ch, q) /\ L \in LBAs /\ disk[L] \in Sector
      /\ call.done < call.size /\ InSectorOf(q) = InSector + 1
  BY <1>1, Here
<1>3. /\ m \in Nat \ {0} /\ InSector \in 0..(SectorSize - 1) /\ m <= SectorSize - InSector
      /\ InSector = (q % ClusterSize) % SectorSize
  BY <1>1, <1>2, Amounts DEF Going, Located, InSector
<1>4. q < n * ClusterSize /\ Own(next, file.first, n, ch)
  BY <1>1, <1>2, Moving DEF Going
<1>5. Put \in Sector /\ (~Whole => Merged \in Sector)
  BY <1>1 DEF Put, Merged, Sector
<1>6. ASSUME NEW i \in 1..SectorSize
      PROVE  Put[i] = IF i \in InSectorOf(q)..(InSectorOf(q) + m - 1) THEN calls ELSE disk[L][i]
  <2>1. InSectorOf(q)..(InSectorOf(q) + m - 1) = (InSector + 1)..(InSector + m)
    <3>1. (InSector + 1) + m - 1 = InSector + m
      BY <1>3
    <3> QED
      BY <1>2, <3>1
  <2>2. CASE Whole
    <3>1. i \in (InSector + 1)..(InSector + m)
      BY <2>2, <1>1 DEF Whole
    <3> QED
      BY <2>1, <2>2, <3>1 DEF Put
  <2>3. CASE ~Whole
    <3>1. sector_buffer = disk[L]
      BY <2>3 DEF Going, Located
    <3>2. Put[i] = IF i \in (InSector + 1)..(InSector + m) THEN calls ELSE sector_buffer[i]
      BY <2>3 DEF Put, Merged
    <3> HIDE DEF L, m
    <3> QED
      BY <2>1, <3>1, <3>2
  <2> QED
    BY <2>2, <2>3
<1>7. PutOnDisk = [disk EXCEPT ![SectorOf(ch, q)] = Put]
  BY <1>2 DEF PutOnDisk
<1>8. PutOnDisk \in Disks
  BY <1>1, <1>2, <1>5 DEF PutOnDisk, Disks
<1>9. ASSUME NEW p \in Nat, p < n * ClusterSize
      PROVE  ByteAt(PutOnDisk, ch, p) = IF p \in q..(q + m - 1) THEN calls ELSE ByteAt(disk, ch, p)
  <2>1. m <= SectorSize - ((q % ClusterSize) % SectorSize)
    BY <1>3
  <2>2. PutInto(PutOnDisk, disk, ch, q, m, calls, Put)
    BY <1>2, <1>6, <1>7 DEF PutInto
  <2>3. q \in Nat /\ m \in Nat \ {0} /\ q < n * ClusterSize /\ disk \in Disks /\ Put \in Sector
        /\ Own(next, file.first, n, ch)
    BY <1>1, <1>3, <1>4, <1>5
  <2> HIDE DEF q, m, L
  <2> QED
    BY <1>9, <2>1, <2>2, <2>3, SectorPut
<1> QED
  BY <1>5, <1>8, <1>9

LEMMA WriteStep == ASSUME FileInv, WriteSector PROVE FileInv'
<1>1. /\ Types /\ OtherFileKept /\ Running /\ call.op = "write"
      /\ call.pc = IF Whole THEN "data" ELSE "put"
      /\ UNCHANGED <<next, entry, calls, other>>
  BY Chained DEF WriteSector
<1>2. PICK n, ch : Going(n, ch)
  BY <1>1, Chained DEF Going
<1>3. /\ disk \in Disks /\ entry.size \in Nat /\ call \in CallType /\ file \in Handle
      /\ call.start \in Nat /\ call.size \in Nat /\ call.done \in Nat /\ call.out \in Seq(Byte)
      /\ Position \in Nat /\ Position = call.start + call.done /\ call.pc \in {"data", "put"}
  BY <1>1, Values, CallValues DEF Position, Types
<1>4. /\ PutOnDisk \in Disks /\ sector_buffer' \in Sector
      /\ \A p \in Nat : p < n * ClusterSize =>
           ByteAt(PutOnDisk, ch, p) = IF p \in Position..(Position + Amount - 1) THEN calls
                                      ELSE ByteAt(disk, ch, p)
  <2>1. /\ PutOnDisk \in Disks /\ (~Whole => Merged \in Sector)
        /\ \A p \in Nat : p < n * ClusterSize =>
             ByteAt(PutOnDisk, ch, p) = IF p \in Position..(Position + Amount - 1) THEN calls
                                        ELSE ByteAt(disk, ch, p)
    BY <1>1, <1>2, PutIs
  <2>2. sector_buffer' \in Sector
    <3>1. sector_buffer' = IF Whole THEN sector_buffer ELSE Merged
      BY DEF WriteSector, Loads
    <3> QED
      BY <1>1, <2>1, <3>1, Values
  <2> QED
    BY <2>1, <2>2
<1>5. /\ call.cluster \in Cluster /\ call.cluster # other /\ call.offset \in Offset
      /\ call.done < call.size
  BY <1>1, <1>2, <1>3, Here
<1>6. /\ Amount \in Nat \ {0} /\ call.done + Amount <= call.size
  BY <1>1, <1>5, Amounts
<1>7. ASSUME disk' \in {disk, PutOnDisk} PROVE OtherFileKept' /\ disk' \in Disks
  <2>1. next'[other] = EOC /\ other \in Cluster /\ other' = other
    BY <1>1 DEF OtherFileKept, Types
  <2>2. \A l \in LBAs : l # LBA(call.cluster, call.offset) => disk'[l] = disk[l]
    BY <1>3, <1>7 DEF PutOnDisk, Disks
  <2>3. disk' \in Disks
    BY <1>3, <1>4, <1>7
  <2> QED
    BY <1>1, <1>3, <1>5, <2>1, <2>2, <2>3, OtherSectors
<1>8. ASSUME NEW p \in 0..(entry.size - 1) PROVE p \in Nat /\ p < n * ClusterSize
  <2>1. n \in Nat /\ entry.size <= n * ClusterSize
    BY <1>2 DEF Going, Own
  <2>2. PICK w \in Nat : w = n * ClusterSize
    BY <2>1, Sizes, TimesMonotone
  <2> QED
    BY <1>3, <2>1, <2>2
<1>9. CASE /\ disk' = PutOnDisk /\ call' = AfterSector(call.out)
           /\ file' = [file EXCEPT !.position = @ + Amount]
  <2>1. /\ Located(n, ch)' /\ call' \in CallType /\ Position' = Position + Amount
        /\ call'.op = call.op /\ call'.size = call.size /\ call'.done = call.done + Amount
        /\ call'.start = call.start /\ call'.out = call.out /\ call'.old = call.old
        /\ call'.before = call.before /\ call'.pc \in {"data", "next", "done"}
    BY <1>1, <1>2, <1>3, <1>9, Behind
  <2>2. /\ file' \in Handle /\ file'.first = file.first /\ file'.open = file.open
        /\ file'.size = file.size /\ file'.position = file.position + Amount
    <3>1. PICK x \in Nat : x = file.position + Amount
      BY <1>3, <1>6 DEF Handle
    <3>2. file' = [file EXCEPT !.position = x]
      BY <1>9, <3>1
    <3> QED
      BY <1>3, <3>1, <3>2 DEF Handle
  <2>3. Types' /\ OtherFileKept'
    <3>1. call'.done <= call'.size /\ call'.op = "write" /\ disk' \in Disks /\ OtherFileKept'
      BY <1>1, <1>6, <1>7, <1>9, <2>1
    <3> QED
      BY <1>1, <1>4, <2>1, <2>2, <3>1 DEF Types, Disks, LBAs
  <2>4. Written(ch)'
    <3> DEFINE q == Position
               m == Amount
    <3>1. q \in Nat /\ m \in Nat \ {0} /\ q + m <= call.start + call.size /\ q >= call.start
      BY <1>3, <1>6
    <3>2. \A p : ByteAt(disk, ch, p)' = ByteAt(PutOnDisk, ch, p)
      BY <1>9 DEF ByteAt, SectorOf, InSectorOf, LBA
    <3>3. /\ \A p \in call.start..(q - 1) : ByteAt(disk, ch, p) = calls
          /\ \A p \in 0..(entry.size - 1) :
               p \notin call.start..(q - 1) => ByteAt(disk, ch, p) = call.before[p + 1]
      BY <1>1, <1>2 DEF Going, Written
    <3>4. call.start + call.size <= n * ClusterSize /\ n \in Nat
      BY <1>2, <1>3 DEF Going, Located, Own
    <3>5. PICK w \in Nat : w = n * ClusterSize
      BY <3>4, Sizes, TimesMonotone
    <3>6. ASSUME NEW p \in Nat, p < n * ClusterSize
          PROVE  ByteAt(PutOnDisk, ch, p) = IF p \in q..(q + m - 1) THEN calls
                                            ELSE ByteAt(disk, ch, p)
      BY <1>4, <3>6
    <3>7. Position' = q + m
      BY <2>1
    <3> HIDE DEF q, m
    <3>8. ASSUME NEW p \in call.start..(q + m - 1) PROVE ByteAt(PutOnDisk, ch, p) = calls
      <4>1. p \in Nat /\ p < n * ClusterSize
        BY <1>3, <3>1, <3>4, <3>5
      <4>2. p \in q..(q + m - 1) \/ p \in call.start..(q - 1)
        BY <1>3, <3>1
      <4> QED
        BY <3>3, <3>6, <4>1, <4>2
    <3>9. ASSUME NEW p \in 0..(entry.size - 1), p \notin call.start..(q + m - 1)
          PROVE  ByteAt(PutOnDisk, ch, p) = call.before[p + 1]
      <4>1. p \in Nat /\ p < n * ClusterSize
        BY <1>8
      <4>2. p \notin q..(q + m - 1) /\ p \notin call.start..(q - 1)
        BY <1>3, <3>1, <3>9
      <4> QED
        BY <3>3, <3>6, <4>1, <4>2
    <3>10. /\ call'.start = call.start /\ Position' - 1 = q + m - 1 /\ entry' = entry
           /\ calls' = calls /\ call'.before = call.before
      <4>1. Position' - 1 = q + m - 1
        BY <3>1, <3>7
      <4> QED
        BY <1>1, <2>1, <4>1
    <3>11. \A p \in call'.start..(Position' - 1) : ByteAt(disk, ch, p)' = calls'
      BY <3>2, <3>8, <3>10
    <3>12. \A p \in 0..(entry'.size - 1) :
             p \notin call'.start..(Position' - 1) => ByteAt(disk, ch, p)' = call'.before[p + 1]
      BY <3>2, <3>9, <3>10
    <3> QED
      BY <3>11, <3>12 DEF Written
  <2>5. Going(n, ch)'
    <3>1. Named(n, ch)' /\ Apart(n, ch)' /\ Own(next, file.first, n, ch)' /\ (entry.size <= n * ClusterSize)'
      BY <1>1, <1>2, <2>1, <2>2 DEF Going, Named, Apart, Own, Allocated
    <3>2. Delivered(ch)' /\ call'.pc # "first"
      BY <1>1, <2>1 DEF Delivered
    <3> QED
      BY <2>1, <2>4, <3>1, <3>2 DEF Going
  <2>6. Running'
    <3>1. file'.position = Position' /\ call'.done <= call'.size
      BY <1>1, <1>6, <2>1, <2>2 DEF Running
    <3>2. call.pc # "entry" /\ call'.pc # "entry"
      BY <1>3, <2>1
    <3> QED
      BY <1>1, <2>1, <2>2, <2>5, <3>1, <3>2 DEF Running
  <2> QED
    BY <2>1, <2>3, <2>6 DEF FileInv
<1>10. CASE disk' \in {disk, PutOnDisk} /\ Error
  <2>1. call' = [call EXCEPT !.pc = "idle", !.failed = TRUE] /\ file' = Closed
    BY <1>10 DEF Error
  <2>2. /\ call' \in CallType /\ call'.pc = "idle" /\ call'.failed /\ call'.op = "write"
        /\ call'.before = call.before /\ call'.start = call.start /\ call'.size = call.size
        /\ call'.done = call.done
    BY <1>1, <1>3, <2>1 DEF CallType
  <2>3. file' \in Handle /\ file'.open = FALSE
    BY <2>1 DEF Closed, Handle
  <2>4. Types' /\ OtherFileKept'
    BY <1>1, <1>4, <1>7, <1>10, <2>2, <2>3 DEF Types, Disks, LBAs
  <2>5. EntrySound /\ WriteKeepsRest
    BY <1>1, RunningRests
  <2>6. EntrySound' /\ HandleSound' /\ DoneIsOnDisk' /\ ReadsBack'
    BY <1>1, <2>2, <2>3, <2>5 DEF EntrySound, Allocated, Own, Apart, HandleSound, DoneIsOnDisk, ReadsBack
  <2>7. WriteKeepsRest'
    <3>1. /\ Content \in Seq(Byte) /\ DOMAIN Content = 1..entry.size
      BY <1>3, <2>5, ContentTyped
    <3>2. DOMAIN Content' = 1..entry.size
      BY <1>1 DEF Content
    <3>3. CASE entry.size = 0
      BY <3>2, <3>3 DEF WriteKeepsRest
    <3>4. CASE entry.size # 0
      <4>1. entry.first = file.first /\ Own(next, file.first, n, ch) /\ entry.size <= n * ClusterSize
        BY <1>2, <3>4 DEF Going, Named
      <4>2. \A i \in 1..entry.size : Content[i] = ByteAt(disk, ch, i - 1)
        BY <1>3, <4>1, ContentIs, ContentHere
      <4>3. \A i \in 1..entry.size : Content'[i] = ByteAt(disk', ch, i - 1)
        <5>1. disk' \in Disks /\ Content' = ContentOf(disk', next, entry.first, entry.size)
          BY <1>1, <1>7, <1>10, ContentHere
        <5> QED
          BY <1>3, <4>1, <5>1, ContentIs
      <4> SUFFICES ASSUME NEW i \in 1..entry.size
                   PROVE  \/ i \in DOMAIN call.before /\ Content'[i] = call.before[i]
                          \/ i \in Span(call.start, call.size) /\ Content'[i] = calls
        BY <1>1, <2>2, <3>2 DEF WriteKeepsRest, Span
      <4>4. \/ i \in DOMAIN call.before /\ Content[i] = call.before[i]
            \/ i \in Span(call.start, call.size) /\ Content[i] = calls
        BY <1>1, <2>5, <3>1 DEF WriteKeepsRest
      <4>5. i - 1 \in 0..(entry.size - 1) /\ (i - 1) + 1 = i
        BY <1>3
      <4>6. ByteAt(disk', ch, i - 1) = ByteAt(disk, ch, i - 1)
            \/ (i - 1 \in Position..(Position + Amount - 1) /\ ByteAt(disk', ch, i - 1) = calls)
        BY <1>4, <1>8, <1>10, <4>5
      <4>7. i - 1 \in Position..(Position + Amount - 1) => i \in Span(call.start, call.size)
        <5>1. PICK st \in Nat, d \in Nat, z \in Nat, m \in Nat :
                /\ st = call.start /\ d = call.done /\ z = call.size /\ m = Amount
                /\ Position = st + d /\ d + m <= z
          BY <1>3, <1>6
        <5>2. ASSUME i - 1 \in (st + d)..(st + d + m - 1) PROVE i \in (st + 1)..(st + z)
          <6>1. i \in Nat
            BY <1>3
          <6> QED
            BY <5>1, <5>2, <6>1
        <5> QED
          BY <5>1, <5>2 DEF Span
      <4> QED
        BY <4>2, <4>3, <4>4, <4>6, <4>7
    <3> QED
      BY <3>3, <3>4
  <2> QED
    BY <2>2, <2>4, <2>6, <2>7 DEF FileInv, Resting
<1> QED
  BY <1>9, <1>10 DEF WriteSector, PutOnDisk, Put

LEMMA EndWriteStep == ASSUME FileInv, EndWrite PROVE FileInv'
<1>1. /\ Types /\ OtherFileKept /\ Running /\ call.op = "write" /\ call.pc = "done"
      /\ UNCHANGED <<disk, next, entry, sector_buffer, calls, other>>
      /\ call' = [call EXCEPT !.pc = "entry"] /\ call \in CallType /\ file \in Handle
      /\ file' = [file EXCEPT !.size = IF file.position > @ THEN file.position ELSE @]
  BY Chained, CallValues DEF EndWrite, Types
<1>2. PICK n, ch : Going(n, ch)
  BY <1>1, Chained
<1>3. /\ call' \in CallType /\ call'.pc = "entry" /\ call'.op = "write"
      /\ call'.start = call.start /\ call'.size = call.size /\ call'.done = call.done
      /\ call'.old = call.old /\ call'.before = call.before /\ call'.out = call.out
  BY <1>1 DEF CallType
<1>4. /\ call.done = call.size /\ call.start + call.size <= n * ClusterSize
      /\ file.size = entry.size /\ file.position = Position /\ Position = call.start + call.size
      /\ Position' = Position
  BY <1>1, <1>2, <1>3 DEF Going, Located, Running, Position
<1>5. /\ file' \in Handle /\ file'.first = file.first /\ file'.open = file.open
      /\ file'.position = file.position
      /\ file'.size = IF call.start + call.size > entry.size THEN call.start + call.size ELSE entry.size
  <2>1. PICK x \in Nat : x = IF file.position > file.size THEN file.position ELSE file.size
    BY <1>1 DEF Handle
  <2>2. file' = [file EXCEPT !.size = x]
    BY <1>1, <2>1 DEF Handle
  <2> QED
    BY <1>1, <1>4, <2>1, <2>2 DEF Handle
<1>6. Types' /\ OtherFileKept'
  BY <1>1, <1>3, <1>5 DEF Types, OtherFileKept, LBA
<1>7. Going(n, ch)'
  <2>1. Named(n, ch)' /\ Apart(n, ch)' /\ Own(next, file.first, n, ch)' /\ (entry.size <= n * ClusterSize)'
    BY <1>1, <1>2, <1>3, <1>5 DEF Going, Named, Apart, Own, Allocated
  <2>2. Located(n, ch)'
    BY <1>1, <1>3, <1>4, <1>5 DEF Located
  <2>3. Written(ch)' /\ Delivered(ch)'
    BY <1>1, <1>2, <1>3, <1>4 DEF Going, Written, Delivered, ByteAt, SectorOf, InSectorOf, LBA
  <2> QED
    BY <1>3, <2>1, <2>2, <2>3 DEF Going
<1>8. Running'
  BY <1>1, <1>3, <1>4, <1>5, <1>7 DEF Running
<1> QED
  BY <1>3, <1>6, <1>8 DEF FileInv

\* What the whole of a write has put on the disk, seen through an entry of the
\* new size.
LEMMA WholeWrite ==
  ASSUME Types, Running, NEW n, NEW ch, Going(n, ch), call.op = "write", call.pc = "entry"
  PROVE  LET C == ContentOf(disk, next, file.first, file.size) IN
         /\ DOMAIN C = 1..file.size /\ Len(C) = file.size /\ file.size <= n * ClusterSize
         /\ file.size = IF call.start + call.size > entry.size THEN call.start + call.size
                        ELSE entry.size
         /\ \A i \in Span(call.start, call.size) : C[i] = calls
         /\ \A i \in 1..file.size :
              \/ i \in Span(call.start, call.size) /\ C[i] = calls
              \/ i \in DOMAIN call.before /\ C[i] = call.before[i]
<1>1. /\ disk \in Disks /\ entry.size \in Nat /\ file.size \in Nat
      /\ call.start \in Nat /\ call.size \in Nat /\ call.before \in Seq(Byte)
  BY Values, CallValues
<1>2. /\ call.done = call.size /\ Position = call.start + call.size
      /\ call.start + call.size <= n * ClusterSize /\ entry.size <= n * ClusterSize
      /\ file.size = (IF call.start + call.size > entry.size THEN call.start + call.size ELSE entry.size)
      /\ Own(next, file.first, n, ch) /\ call.start <= entry.size
      /\ Len(call.before) = entry.size
  BY DEF Going, Located, Position, Running
<1> DEFINE C == ContentOf(disk, next, file.first, file.size)
<1>3. file.size <= n * ClusterSize
  BY <1>2
<1>4. /\ Len(C) = file.size /\ DOMAIN C = 1..file.size
      /\ \A i \in 1..file.size : C[i] = ByteAt(disk, ch, i - 1)
  BY <1>1, <1>2, <1>3, ContentIs
<1> HIDE DEF C
<1>5. /\ \A p \in call.start..(Position - 1) : ByteAt(disk, ch, p) = calls
      /\ \A p \in 0..(entry.size - 1) :
           p \notin call.start..(Position - 1) => ByteAt(disk, ch, p) = call.before[p + 1]
  BY DEF Going, Written
<1>6. ASSUME NEW i \in Span(call.start, call.size) PROVE i \in 1..file.size /\ C[i] = calls
  <2>1. i \in 1..file.size /\ i - 1 \in call.start..(Position - 1)
    BY <1>1, <1>2 DEF Span
  <2> QED
    BY <1>4, <1>5, <2>1
<1>7. ASSUME NEW i \in 1..file.size, i \notin Span(call.start, call.size)
      PROVE  i \in DOMAIN call.before /\ C[i] = call.before[i]
  <2>1. /\ i - 1 \in 0..(entry.size - 1) /\ i - 1 \notin call.start..(Position - 1)
        /\ (i - 1) + 1 = i /\ i \in 1..entry.size
    BY <1>1, <1>2, <1>7 DEF Span
  <2> QED
    BY <1>1, <1>2, <1>4, <1>5, <2>1
<1> QED
  BY <1>2, <1>3, <1>4, <1>6, <1>7 DEF C

\* The entry is written, or needs no writing, or writing it fails.
LEMMA EntryStep == ASSUME FileInv, WriteEntry PROVE FileInv'
<1>1. /\ Types /\ OtherFileKept /\ Running /\ call.op = "write" /\ call.pc = "entry"
      /\ UNCHANGED <<disk, next, calls, other>> /\ call \in CallType /\ file \in Handle
  BY Chained, CallValues DEF WriteEntry, Types
<1>2. PICK n, ch : Going(n, ch)
  BY <1>1, Chained
<1>3. /\ entry.size \in Nat /\ file.size \in Nat /\ entry.first \in Cluster \cup {0}
      /\ file.first \in Cluster \cup {0} /\ disk \in Disks
      /\ call.start \in Nat /\ call.size \in Nat /\ call.done = call.size
      /\ file.position = call.start + call.size /\ call.start <= entry.size
      /\ call.old.size = entry.size /\ Len(call.before) = entry.size /\ file.open
  BY <1>1, <1>2, Values, CallValues DEF Running, Going, Located, Position
<1> DEFINE C == ContentOf(disk, next, file.first, file.size)
<1>4. /\ DOMAIN C = 1..file.size /\ Len(C) = file.size /\ file.size <= n * ClusterSize
      /\ file.size = IF call.start + call.size > entry.size THEN call.start + call.size ELSE entry.size
      /\ \A i \in Span(call.start, call.size) : C[i] = calls
      /\ \A i \in 1..file.size :
           \/ i \in Span(call.start, call.size) /\ C[i] = calls
           \/ i \in DOMAIN call.before /\ C[i] = call.before[i]
  BY <1>1, <1>2, WholeWrite
<1> HIDE DEF C
<1>5. file.first # 0 /\ next[file.first] # FREE /\ file.first \in Cluster
  <2>1. Own(next, file.first, n, ch) /\ 0 \in 0..(n - 1)
    BY <1>2 DEF Going, Own
  <2>2. ch[0] \in Cluster /\ next[ch[0]] # FREE /\ file.first = ch[0]
    BY <2>1, Links
  <2> QED
    BY <2>2, Marks
<1>6. ASSUME call' \in CallType, call'.pc = "idle", call'.op = "write", call'.start = call.start,
             call'.size = call.size, call'.done = call.done, call'.before = call.before,
             entry' = [first |-> file.first, size |-> file.size], sector_buffer' \in Sector,
             \/ file' = file
             \/ file' = Closed /\ call'.failed
      PROVE  FileInv'
  <2>1. file' \in Handle
    <3>1. Closed \in Handle
      BY DEF Closed, Handle
    <3> QED
      BY <1>1, <1>6, <3>1
  <2>2. entry'.first = file.first /\ entry'.size = file.size
        /\ entry' \in [first : Cluster \cup {0}, size : Nat]
    BY <1>3, <1>6
  <2>3. Types' /\ OtherFileKept'
    BY <1>1, <1>6, <2>1, <2>2 DEF Types, OtherFileKept, LBA
  <2>4. EntrySound'
    <3>1. Allocated'
      BY <1>1, <1>5, <2>2 DEF Allocated
    <3>2. Own(next, entry.first, n, ch)' /\ Apart(n, ch)' /\ (entry.size <= n * ClusterSize)'
      BY <1>1, <1>2, <1>4, <2>2 DEF Going, Own, Apart
    <3> QED
      BY <3>1, <3>2 DEF EntrySound
  <2>5. Content' = C
    BY <1>1, <2>2, ContentHere DEF C
  <2>6. WriteKeepsRest'
    <3> SUFFICES ASSUME NEW i \in 1..file.size
                 PROVE  \/ i \in DOMAIN call.before /\ C[i] = call.before[i]
                        \/ i \in Span(call.start, call.size) /\ C[i] = calls
      BY <1>1, <1>4, <1>6, <2>5 DEF WriteKeepsRest, Span
    <3> QED
      BY <1>4
  <2>7. ReadsBack'
    BY <1>6 DEF ReadsBack
  <2>8. HandleSound'
    <3>1. CASE file' = file
      <4>1. file.position <= file.size
        BY <1>3, <1>4
      <4> QED
        BY <2>2, <3>1, <4>1 DEF HandleSound
    <3>2. CASE file' = Closed
      BY <3>2 DEF HandleSound, Closed
    <3> QED
      BY <1>6, <3>1, <3>2
  <2>9. DoneIsOnDisk'
    <3>1. CASE file' = file
      <4>1. /\ Len(Content') = IF call.start + call.size > Len(call.before)
                               THEN call.start + call.size ELSE Len(call.before)
            /\ \A i \in Span(call.start, call.size) : Content'[i] = calls
        BY <1>3, <1>4, <2>5
      <4>2. file.position <= file.size
        BY <1>3, <1>4
      <4>3. Span(call.start, call.size)' = Span(call.start, call.size)
        BY <1>6 DEF Span
      <4>4. \A i \in Span(call'.start, call'.size) : Content'[i] = calls'
        BY <1>1, <4>1, <4>3
      <4> QED
        BY <1>1, <1>6, <2>2, <3>1, <4>1, <4>2, <4>4 DEF DoneIsOnDisk
    <3>2. CASE file' = Closed /\ call'.failed
      BY <3>2 DEF DoneIsOnDisk
    <3> QED
      BY <1>6, <3>1, <3>2
  <2> QED
    BY <1>6, <2>3, <2>4, <2>6, <2>7, <2>8, <2>9 DEF FileInv, Resting
<1>7. CASE ~EntryChanged /\ Ok /\ UNCHANGED <<entry, sector_buffer, file>>
  <2>1. file.first = call.old.first /\ file.size = call.old.size
    BY <1>7 DEF EntryChanged
  <2>2. entry.first = file.first /\ entry.size = file.size
    BY <1>2, <1>3, <1>5, <2>1 DEF Going, Named
  <2>3. entry' = [first |-> file.first, size |-> file.size]
    <3>1. entry \in [first : Cluster \cup {0}, size : Nat]
      BY <1>1 DEF Types
    <3> QED
      BY <1>7, <2>2, <3>1
  <2>4. sector_buffer' \in Sector
    BY <1>1, <1>7, Values
  <2>5. call' = [call EXCEPT !.pc = "idle"]
    BY <1>7 DEF Ok
  <2>6. /\ call' \in CallType /\ call'.pc = "idle" /\ call'.op = "write" /\ call'.start = call.start
        /\ call'.size = call.size /\ call'.done = call.done /\ call'.before = call.before
    BY <1>1, <2>5 DEF CallType
  <2> QED
    BY <1>6, <1>7, <2>3, <2>4, <2>6
<1>8. CASE /\ LoadsTable /\ entry' = [first |-> file.first, size |-> file.size] /\ Ok
           /\ UNCHANGED file
  <2>1. call' = [call EXCEPT !.pc = "idle"]
    BY <1>8 DEF Ok
  <2>2. /\ call' \in CallType /\ call'.pc = "idle" /\ call'.op = "write" /\ call'.start = call.start
        /\ call'.size = call.size /\ call'.done = call.done /\ call'.before = call.before
    BY <1>1, <2>1 DEF CallType
  <2>3. sector_buffer' \in Sector
    BY <1>8, TableSector
  <2> QED
    BY <1>6, <1>8, <2>2, <2>3
<1>9. CASE LoadsTable /\ Error /\ entry' = entry
  <2>1. sector_buffer' \in Sector
    BY <1>9, TableSector
  <2> QED
    BY <1>1, <1>9, <2>1, Fails
<1>10. CASE LoadsTable /\ Error /\ entry' = [first |-> file.first, size |-> file.size]
  <2>1. call' = [call EXCEPT !.pc = "idle", !.failed = TRUE] /\ file' = Closed
    BY <1>10 DEF Error
  <2>2. /\ call' \in CallType /\ call'.pc = "idle" /\ call'.op = "write" /\ call'.start = call.start
        /\ call'.size = call.size /\ call'.done = call.done /\ call'.before = call.before
        /\ call'.failed
    BY <1>1, <2>1 DEF CallType
  <2>3. sector_buffer' \in Sector
    BY <1>10, TableSector
  <2> QED
    BY <1>6, <1>10, <2>1, <2>2, <2>3
<1> QED
  BY <1>7, <1>8, <1>9, <1>10 DEF WriteEntry

-----------------------------------------------------------------------------
(* fat32_truncate *)

LEMMA LengthOfChain ==
  ASSUME NEW h, NEW n, NEW ch, Own(next, h, n, ch)
  PROVE  ChainLength(h) = n
<1>1. n \in Nat \ {0} /\ n <= Clusters /\ Clusters \in Nat
  <2>1. n <= Clusters
    BY ChainFits
  <2> QED
    BY <2>1, Sizes DEF Own
<1>2. ASSUME NEW k \in 1..n PROVE Ends(h, k) <=> k = n
  <2>1. k - 1 \in 0..(n - 1)
    BY <1>1
  <2>2. ClusterOf(h, k - 1) = ch[k - 1]
    <3>1. ClusterIn(next, h, k - 1) = ch[k - 1]
      BY <2>1, ClusterInChain
    <3> QED
      BY <3>1 DEF ClusterOf, ClusterIn
  <2>3. next[ch[k - 1]] = EOC <=> k - 1 = n - 1
    <3>1. CASE k - 1 = n - 1
      BY <2>1, <3>1 DEF Own
    <3>2. CASE k - 1 # n - 1
      <4>1. (k - 1) + 1 \in 0..(n - 1)
        BY <1>1, <2>1, <3>2
      <4>2. next[ch[k - 1]] \in Cluster
        BY <2>1, <3>2, <4>1 DEF Own
      <4> QED
        BY <3>2, <4>2, Marks
    <3> QED
      BY <3>1, <3>2
  <2> QED
    BY <1>1, <2>2, <2>3 DEF Ends
<1> DEFINE First(k) == Ends(h, k) /\ \A j \in 1..(k - 1) : ~Ends(h, j)
<1>3. n \in 1..Clusters /\ First(n)
  BY <1>1, <1>2
<1>4. ASSUME NEW k \in 1..Clusters, First(k) PROVE k = n
  <2>1. CASE k <= n
    BY <1>1, <1>2, <1>4, <2>1
  <2>2. CASE ~(k <= n)
    <3>1. n \in 1..(k - 1) /\ Ends(h, n)
      BY <1>1, <1>2, <2>2
    <3> QED
      BY <1>4, <3>1
  <2> QED
    BY <2>1, <2>2
<1>5. ChainLength(h) = CHOOSE k \in 1..Clusters : First(k)
  BY DEF ChainLength
<1> HIDE DEF First
<1> QED
  BY <1>3, <1>4, <1>5

\* How many clusters a size takes.
LEMMA ClustersFor ==
  ASSUME NEW size \in Nat, NEW n \in Nat, size <= n * ClusterSize
  PROVE  LET kept == (size + ClusterSize - 1) \div ClusterSize IN
         /\ kept \in 0..n /\ size <= kept * ClusterSize /\ (size > 0 => kept >= 1)
         /\ (size = 0 => kept = 0)
<1> DEFINE a == size + ClusterSize - 1
           k == a \div ClusterSize
           r == a % ClusterSize
           u == ClusterSize * k
<1>1. ClusterSize \in Nat \ {0} /\ a \in Nat
  BY Sizes
<1>2. k \in Nat /\ r \in 0..(ClusterSize - 1) /\ a = u + r
  BY <1>1, DivMod
<1>3. u \in Nat /\ u = k * ClusterSize
  BY <1>1, <1>2, TimesMonotone
<1>4. size <= u
  <2>1. size = a - ClusterSize + 1
    BY <1>1
  <2> HIDE DEF a, u, r
  <2> QED
    BY <1>1, <1>2, <1>3, <2>1
<1>5. k <= n
  <2> SUFFICES ASSUME n + 1 <= k PROVE FALSE
    BY <1>2
  <2>1. ClusterSize * (n + 1) <= u /\ ClusterSize * (n + 1) = n * ClusterSize + ClusterSize
    BY <1>1, <1>2, TimesMonotone
  <2>2. PICK w \in Nat : w = n * ClusterSize
    BY <1>1, TimesMonotone
  <2>3. w + ClusterSize <= u /\ size <= w
    BY <2>1, <2>2
  <2>4. a = size + ClusterSize - 1
    OBVIOUS
  <2> HIDE DEF a, u, r
  <2> QED
    BY <1>1, <1>2, <1>3, <2>2, <2>3, <2>4
<1>6. ASSUME size > 0 PROVE k >= 1
  <2>1. k = 0 => u = 0
    BY <1>1
  <2>2. u > 0
    BY <1>3, <1>4, <1>6
  <2> HIDE DEF k, u
  <2> QED
    BY <1>2, <2>1, <2>2
<1>7. ASSUME size = 0 PROVE k = 0
  <2>1. k < 1
    <3>1. a < 1 * ClusterSize
      BY <1>1, <1>7
    <3> HIDE DEF a
    <3> QED
      BY <1>1, <3>1, DivBelow
  <2> QED
    BY <1>2, <2>1
<1> QED
  BY <1>2, <1>3, <1>4, <1>5, <1>6, <1>7

LEMMA TruncateStep ==
  ASSUME FileInv, NEW m \in Nat, Truncate(m)
  PROVE  FileInv'
<1>1. /\ Types /\ OtherFileKept /\ EntrySound /\ HandleSound /\ call.pc = "idle"
      /\ file.open /\ m < file.size /\ calls < MaxCalls /\ calls' = calls + 1
      /\ entry' = [entry EXCEPT !.size = m]
      /\ file' = [open |-> TRUE, first |-> IF m = 0 THEN 0 ELSE file.first, size |-> m,
                  position |-> Lesser(file.position, m)]
      /\ call' = [NoCall EXCEPT !.op = "truncate", !.size = m, !.before = Content]
      /\ sector_buffer' \in Sector /\ UNCHANGED <<disk, other>>
  BY TableSector DEF FileInv, Resting, Truncate
<1>2. /\ disk \in Disks /\ next \in FatMap /\ entry.size \in Nat /\ entry.first \in Cluster \cup {0}
      /\ file.size = entry.size /\ file.position \in Nat /\ file.first \in Cluster \cup {0}
      /\ calls \in Nat /\ MaxCalls \in Nat /\ m < entry.size /\ other \in Cluster
  BY <1>1, Values DEF HandleSound
<1>3. Allocated /\ file.first = entry.first /\ file.first \in Cluster
  <2>1. Allocated
    BY <1>1, <1>2 DEF EntrySound
  <2> QED
    BY <1>1, <1>2, <2>1 DEF HandleSound, Allocated
<1>4. PICK n, ch : /\ Own(next, file.first, n, ch) /\ Apart(n, ch)
                   /\ entry.size <= n * ClusterSize
  BY <1>1, <1>3 DEF EntrySound
<1>5. n \in Nat \ {0} /\ ch[0] = file.first /\ \A i \in 0..(n - 1) : ch[i] \in Cluster /\ ch[i] # other
  BY <1>4 DEF Own, Apart
<1>6. m <= n * ClusterSize
  <2>1. PICK w \in Nat : w = n * ClusterSize
    BY <1>5, Sizes, TimesMonotone
  <2> QED
    BY <1>2, <1>4, <2>1
<1> DEFINE kept == (m + ClusterSize - 1) \div ClusterSize
<1>7. kept \in 0..n /\ m <= kept * ClusterSize /\ (m > 0 => kept >= 1) /\ (m = 0 => kept = 0)
  BY <1>5, <1>6, ClustersFor
<1> HIDE DEF kept
<1> DEFINE freed == {ch[k] : k \in kept..(n - 1)}
<1>8. \A k \in 0..(n - 1) : ClusterOf(file.first, k) = ch[k]
  <2> TAKE k \in 0..(n - 1)
  <2>1. ClusterIn(next, file.first, k) = ch[k]
    BY <1>4, ClusterInChain
  <2> QED
    BY <2>1 DEF ClusterOf, ClusterIn
<1>9. next' = [c \in Cluster |-> IF c \in freed THEN FREE
                                 ELSE IF m > 0 /\ c = ch[kept - 1] THEN EOC ELSE next[c]]
  <2>1. ChainLength(file.first) = n
    BY <1>4, LengthOfChain
  <2>2. {ClusterOf(file.first, k) : k \in kept..(n - 1)} = freed
    <3>1. \A k \in kept..(n - 1) : ClusterOf(file.first, k) = ch[k]
      BY <1>5, <1>7, <1>8
    <3> QED
      BY <3>1
  <2>3. m > 0 => ClusterOf(file.first, kept - 1) = ch[kept - 1]
    BY <1>5, <1>7, <1>8
  <2>4. next' = [c \in Cluster |->
                   IF c \in {ClusterOf(file.first, k) : k \in kept..(ChainLength(file.first) - 1)} THEN FREE
                   ELSE IF m > 0 /\ c = ClusterOf(file.first, kept - 1) THEN EOC ELSE next[c]]
    BY DEF Truncate, kept
  <2> HIDE DEF freed
  <2> QED
    BY <2>1, <2>2, <2>3, <2>4
<1>10. next' \in FatMap /\ next'[other] = EOC
  <2>1. other \notin freed /\ (m > 0 => other # ch[kept - 1])
    BY <1>5, <1>7
  <2> HIDE DEF freed
  <2>2. next[other] = EOC
    BY <1>1 DEF OtherFileKept
  <2> QED
    BY <1>2, <1>9, <2>1, <2>2 DEF FatMap
<1>11. Content \in Seq(Byte) /\ Len(Content) = entry.size /\ DOMAIN Content = 1..entry.size
  BY <1>1, <1>2, ContentTyped
<1>12. /\ call' \in CallType /\ call'.op = "truncate" /\ call'.pc = "idle" /\ call'.size = m
       /\ call'.before = Content /\ call'.done = 0
  <2>1. 0 \in 0..(ClusterSize - 1) /\ <<>> \in Seq(Byte) /\ Closed \in Handle
    BY Sizes, EmptySeq DEF Closed, Handle
  <2> HIDE DEF freed
  <2> QED
    BY <1>1, <1>11, <2>1 DEF CallType, NoCall
<1>13. /\ file' \in Handle /\ file'.open /\ file'.size = m /\ file'.position <= m
       /\ file'.first = IF m = 0 THEN 0 ELSE file.first
  <2>1. Lesser(file.position, m) \in Nat /\ Lesser(file.position, m) <= m
    BY <1>2, LesserIs
  <2> QED
    BY <1>1, <1>2, <2>1 DEF Handle
<1>14. entry' \in [first : Cluster \cup {0}, size : Nat] /\ entry'.first = file.first /\ entry'.size = m
  BY <1>1, <1>3 DEF Types
<1>15. Types' /\ OtherFileKept'
  <2>1. calls' \in 0..MaxCalls
    BY <1>1, <1>2
  <2>2. Types'
    BY <1>1, <1>10, <1>12, <1>13, <1>14, <2>1 DEF Types, FatMap
  <2>3. OtherFileKept'
    BY <1>1, <1>10 DEF OtherFileKept, LBA
  <2> QED
    BY <2>2, <2>3
<1>16. WriteKeepsRest' /\ ReadsBack'
  BY <1>12 DEF WriteKeepsRest, ReadsBack
<1>17. CASE m = 0
  <2>1. file.first \in freed
    BY <1>5, <1>7, <1>17
  <2>2. ~Allocated'
    BY <1>3, <1>9, <1>14, <2>1 DEF Allocated
  <2>3. EntrySound' /\ HandleSound'
    BY <1>13, <1>14, <1>17, <2>2 DEF EntrySound, HandleSound
  <2>4. Content' \in Seq(Byte) /\ Len(Content') = 0
    <3>1. Content' = ContentOf(disk', next', entry'.first, 0)
      BY <1>14, <1>17, ContentHere
    <3> QED
      BY <3>1, ContentEmpty
  <2>5. Content' = SubSeq(call'.before, 1, call'.size)
    <3>1. /\ SubSeq(Content, 1, 0) \in Seq(Byte) /\ Len(SubSeq(Content, 1, 0)) = 0
      <4>1. \A i \in 1..0 : Content[i] \in Byte
        OBVIOUS
      <4>2. /\ SubSeq(Content, 1, 0) \in Seq(Byte)
            /\ Len(SubSeq(Content, 1, 0)) = IF 1 <= 0 THEN 0 - 1 + 1 ELSE 0
        BY <4>1, SubSeqProperties
      <4> QED
        BY <4>2
    <3>2. Content' = SubSeq(Content, 1, 0)
      BY <2>4, <3>1, SeqEqual
    <3> QED
      BY <1>12, <1>17, <3>2
  <2>6. DoneIsOnDisk'
    BY <1>12, <1>13, <1>14, <1>17, <2>5 DEF DoneIsOnDisk
  <2> QED
    BY <1>12, <1>15, <1>16, <2>3, <2>6 DEF FileInv, Resting
<1>18. CASE m > 0
  <2> DEFINE short == [i \in 0..(kept - 1) |-> ch[i]]
  <2>1. kept \in 1..n /\ kept \in Nat \ {0}
    BY <1>7, <1>18
  <2>2. Own(next', file.first, kept, short)
    <3>1. \A i \in 0..(kept - 1) : ch[i] \in Cluster /\ ch[i] \notin freed
      BY <1>4, <1>5, <2>1 DEF Own
    <3>2. next'[ch[kept - 1]] = EOC
      <4>1. ch[kept - 1] \in Cluster /\ ch[kept - 1] \notin freed
        BY <2>1, <3>1
      <4> HIDE DEF freed
      <4> QED
        BY <1>9, <1>18, <4>1
    <3>3. ASSUME NEW i \in 0..(kept - 2) PROVE next'[ch[i]] = next[ch[i]]
      <4>1. i \in 0..(kept - 1) /\ kept - 1 \in 0..(n - 1) /\ i \in 0..(n - 1) /\ i # kept - 1
        BY <1>5, <2>1
      <4>2. ch[i] # ch[kept - 1]
        BY <1>4, <4>1 DEF Own
      <4>3. ch[i] \in Cluster /\ ch[i] \notin freed
        BY <3>1, <4>1
      <4> HIDE DEF freed
      <4> QED
        BY <1>9, <4>2, <4>3
    <3> HIDE DEF freed
    <3> QED
      BY <1>4, <2>1, <3>2, <3>3, Shortened
  <2>3. \A i \in 0..(kept - 1) : short[i] = ch[i] /\ short[i] # other
    BY <1>5, <2>1
  <2> HIDE DEF short
  <2>4. Own(next, entry.first, kept, short)' /\ Apart(kept, short)' /\ (entry.size <= kept * ClusterSize)'
    BY <1>1, <1>7, <1>14, <2>2, <2>3 DEF Own, Apart
  <2>5. Allocated'
    <3>1. next'[short[0]] # FREE /\ short[0] = file.first
      <4>1. 0 \in 0..(kept - 1)
        BY <2>1
      <4> QED
        BY <2>2, <4>1, Links
    <3> QED
      BY <1>3, <1>14, <3>1, Marks DEF Allocated
  <2>6. EntrySound' /\ HandleSound'
    BY <1>13, <1>14, <1>18, <2>4, <2>5 DEF EntrySound, HandleSound
  <2>7. /\ Content' \in Seq(Byte) /\ Len(Content') = m
        /\ \A i \in 1..m : Content'[i] = ByteAt(disk, short, i - 1)
    <3>1. Content' = ContentOf(disk, next', file.first, m)
      BY <1>1, <1>14, ContentHere
    <3> QED
      BY <1>2, <1>7, <2>1, <2>2, <3>1, ContentIs
  <2>8. \A i \in 1..entry.size : Content[i] = ByteAt(disk, ch, i - 1)
    BY <1>2, <1>3, <1>4, ContentIs, ContentHere
  <2>9. ASSUME NEW i \in 1..m PROVE Content'[i] = Content[i]
    <3>1. i \in 1..entry.size /\ i - 1 \in Nat /\ i - 1 < m
      BY <1>2
    <3>2. i - 1 < kept * ClusterSize
      <4>1. PICK w \in Nat : w = kept * ClusterSize
        BY <2>1, Sizes, TimesMonotone
      <4> QED
        BY <1>7, <3>1, <4>1
    <3>3. (i - 1) \div ClusterSize \in 0..(kept - 1)
      BY <2>1, <3>1, <3>2, InChain
    <3>4. short[(i - 1) \div ClusterSize] = ch[(i - 1) \div ClusterSize]
      BY <2>3, <3>3
    <3>5. ByteAt(disk, short, i - 1) = ByteAt(disk, ch, i - 1)
      BY <3>4 DEF ByteAt, SectorOf
    <3> QED
      BY <2>7, <2>8, <3>1, <3>5
  <2>10. Content' = SubSeq(call'.before, 1, call'.size)
    <3>1. \A i \in 1..m : Content[i] \in Byte
      <4>1. \A i \in 1..m : i \in 1..entry.size
        BY <1>2
      <4> QED
        BY <1>11, <4>1, ElementOfSeq
    <3>2. /\ SubSeq(Content, 1, m) \in Seq(Byte) /\ Len(SubSeq(Content, 1, m)) = m
          /\ \A i \in 1..m : SubSeq(Content, 1, m)[i] = Content[i]
      <4>1. /\ SubSeq(Content, 1, m) \in Seq(Byte)
            /\ Len(SubSeq(Content, 1, m)) = IF 1 <= m THEN m - 1 + 1 ELSE 0
            /\ \A i \in 1..(m - 1 + 1) : SubSeq(Content, 1, m)[i] = Content[1 + i - 1]
        BY <3>1, SubSeqProperties
      <4>2. m - 1 + 1 = m /\ \A i \in 1..m : 1 + i - 1 = i
        OBVIOUS
      <4> QED
        BY <1>18, <4>1, <4>2
    <3>3. Content' = SubSeq(Content, 1, m)
      BY <2>7, <2>9, <3>2, SeqEqual
    <3> QED
      BY <1>12, <3>3
  <2>11. DoneIsOnDisk'
    BY <1>12, <1>13, <1>14, <1>18, <2>10 DEF DoneIsOnDisk
  <2> QED
    BY <1>12, <1>15, <1>16, <2>6, <2>11 DEF FileInv, Resting
<1> QED
  BY <1>17, <1>18

-----------------------------------------------------------------------------
(* The theorems *)

LEMMA InitFile == ASSUME Init PROVE FileInv
<1>1. other \in Cluster /\ entry = [first |-> 0, size |-> 0] /\ file = Closed /\ call = NoCall
      /\ calls = 0
  BY DEF Init
<1>2. MaxCalls \in Nat /\ Garbage \in Byte /\ Others \in Byte /\ Table \in Byte
  BY SizeAssumption DEF Garbage, Others, Table, Byte
<1>3. call \in CallType /\ file \in Handle /\ entry \in [first : Cluster \cup {0}, size : Nat]
  <2>1. 0 \in 0..(ClusterSize - 1) /\ <<>> \in Seq(Byte) /\ Closed \in Handle
    BY Sizes, EmptySeq DEF Closed, Handle
  <2> QED
    BY <1>1, <2>1 DEF CallType, NoCall
<1>4. sector_buffer \in Sector
  BY <1>2 DEF Init, Sector
<1>5. disk \in Disks
  BY <1>2 DEF Init, Sector, Disks, LBAs
<1>6. next \in FatMap /\ next[other] = EOC
  BY <1>1 DEF Init, FatMap, EOC, FREE
<1>7. Types
  BY <1>1, <1>2, <1>3, <1>4, <1>5, <1>6 DEF Types, Disks, LBAs, FatMap, NoCall
<1>8. OtherFileKept
  <2> SUFFICES ASSUME NEW k \in 0..(SectorsPerCluster - 1)
               PROVE  disk[LBA(other, k * SectorSize)] = [i \in 1..SectorSize |-> Others]
    BY <1>6 DEF OtherFileKept
  <2> DEFINE o == k * SectorSize
             L == LBA(other, o)
  <2>1. o = SectorSize * k
    BY Sizes
  <2>2. o \div SectorSize = k
    <3> HIDE DEF o
    <3>1. k \in Nat /\ SectorSize \in Nat \ {0}
      BY Sizes
    <3> QED
      BY <2>1, <3>1, DivExact, Zenon
  <2>3. other - 2 \in Nat /\ L = SectorsPerCluster * (other - 2) + k
    <3>1. other - 2 \in Nat
      BY <1>1, Sizes DEF Cluster
    <3> HIDE DEF o
    <3> QED
      BY <2>2, <3>1, Sizes DEF LBA
  <2>4. o \in Offset
    <3>1. k + 1 <= SectorsPerCluster /\ k \in Nat
      BY Sizes
    <3>2. SectorSize * (k + 1) <= SectorSize * SectorsPerCluster /\ SectorSize * k \in Nat
      BY <3>1, Sizes, TimesMonotone
    <3>3. SectorSize * (k + 1) = SectorSize * k + SectorSize
      BY <3>1, Sizes
    <3> QED
      BY <2>1, <3>2, <3>3, Sizes DEF Offset, ClusterSize
  <2>5. L \in LBAs
    BY <1>1, <2>4, LBAOnDisk
  <2>6. L \div SectorsPerCluster = other - 2
    <3> DEFINE c == other - 2
    <3>1. c \in Nat /\ L = SectorsPerCluster * c + k
      BY <2>3
    <3> HIDE DEF c, L
    <3>2. L \div SectorsPerCluster = c
      BY <3>1, Sizes, DivUnique
    <3> QED
      BY <3>2 DEF c
  <2> HIDE DEF L, o
  <2>7. disk[L] = [i \in 1..SectorSize |->
                     IF L \div SectorsPerCluster = other - 2 THEN Others ELSE Garbage]
    BY <2>5 DEF Init, LBAs
  <2> QED
    BY <2>6, <2>7 DEF L, o
<1>9. Resting
  <2>1. EntrySound /\ HandleSound
    BY <1>1 DEF EntrySound, Allocated, HandleSound, Closed
  <2> QED
    BY <1>1, <2>1 DEF Resting, WriteKeepsRest, DoneIsOnDisk, ReadsBack, NoCall
<1> QED
  BY <1>1, <1>7, <1>8, <1>9 DEF FileInv, NoCall

LEMMA FileStep == ASSUME FileInv, [Next]_vars PROVE FileInv'
<1>1. CASE Open \/ Rewind
  BY <1>1, IdleSteps
<1>2. CASE TableReadFails
  BY <1>2, TableFails
<1>3. CASE NextCluster
  BY <1>3, NextStep
<1>4. ASSUME NEW n \in Lengths, BeginRead(n) \/ BeginWrite(n) PROVE FileInv'
  BY <1>4, BeginSteps
<1>5. ASSUME NEW n \in Lengths \cup {0}, Truncate(n) PROVE FileInv'
  <2>1. n \in Nat
    BY SizeAssumption
  <2> QED
    BY <1>5, <2>1, TruncateStep
<1>6. CASE Seek
  BY <1>6, SeekStep
<1>7. CASE ReadSector
  BY <1>7, ReadStep
<1>8. CASE EndRead
  BY <1>8, EndReadStep
<1>9. CASE AllocateFirst
  BY <1>9, FirstCluster
<1>10. CASE Walk
  BY <1>10, WalkStep
<1>11. CASE FetchSector
  BY <1>11, FetchStep
<1>12. CASE WriteSector
  BY <1>12, WriteStep
<1>13. CASE EndWrite
  BY <1>13, EndWriteStep
<1>14. CASE WriteEntry
  BY <1>14, EntryStep
<1>15. CASE UNCHANGED vars
  <2>1. /\ UNCHANGED <<disk, next, entry, sector_buffer, file, call, calls, other>>
        /\ Content' = Content
    BY <1>15, ContentHere DEF vars
  <2>2. (Types /\ OtherFileKept)'
    BY <2>1 DEF FileInv, Types, OtherFileKept, LBA
  <2>3. CASE call.pc = "idle"
    <3>1. Resting
      BY <2>3 DEF FileInv
    <3>2. Resting'
      BY <2>1, <3>1 DEF Resting, EntrySound, Allocated, Own, Apart, HandleSound, WriteKeepsRest,
         Span, DoneIsOnDisk, ReadsBack
    <3> QED
      BY <2>1, <2>2, <2>3, <3>2 DEF FileInv
  <2>4. CASE call.pc # "idle"
    <3>1. Running
      BY <2>4 DEF FileInv
    <3>2. Without => Without'
      BY <2>1 DEF Without, Allocated
    <3>3. ASSUME NEW n, NEW ch, Going(n, ch) PROVE Going(n, ch)'
      <4>1. Own(next, file.first, n, ch)' /\ Apart(n, ch)' /\ Named(n, ch)'
        BY <2>1, <3>3 DEF Going, Own, Apart, Named, Allocated
      <4>2. Located(n, ch)'
        BY <2>1, <3>3 DEF Going, Located, Position, StartIndex, FinalIndex, LBA
      <4>3. Written(ch)' /\ Delivered(ch)'
        BY <2>1, <3>3 DEF Going, Written, Delivered, Position, ByteAt, SectorOf, InSectorOf, LBA
      <4> QED
        BY <2>1, <3>3, <4>1, <4>2, <4>3 DEF Going
    <3>4. Running'
      BY <2>1, <3>1, <3>2, <3>3 DEF Running, Position
    <3> QED
      BY <2>1, <2>2, <2>4, <3>4 DEF FileInv
  <2> QED
    BY <2>3, <2>4
<1> QED
  BY <1>1, <1>2, <1>3, <1>4, <1>5, <1>6, <1>7, <1>8, <1>9, <1>10, <1>11, <1>12, <1>13, <1>14,
     <1>15 DEF Next

LEMMA FileAlways == Spec => []FileInv
<1>1. Init => FileInv
  BY InitFile
<1>2. FileInv /\ [Next]_vars => FileInv'
  BY FileStep
<1> QED
  BY <1>1, <1>2, PTL DEF Spec

\* The FAT, the sectors and the counters of a call stay in their ranges, and a
\* file with bytes has a cluster.
THEOREM FileTypes == Spec => []TypeOK
<1>1. FileInv => TypeOK
  <2> SUFFICES ASSUME FileInv PROVE TypeOK
    OBVIOUS
  <2>1. Types
    BY DEF FileInv
  <2>2. EntrySound
    BY <2>1, RunningRests DEF FileInv, Resting
  <2>3. entry.size > 0 => entry.first # 0
    BY <2>1, <2>2, Values DEF EntrySound, Allocated
  <2>4. call.offset < ClusterSize
    <3>1. call.offset \in 0..(ClusterSize - 1)
      BY <2>1, CallValues DEF Offset
    <3> QED
      BY <3>1, Sizes
  <2>5. call.pc \in {"idle", "first", "walk", "data", "put", "next", "done", "entry"}
    BY <2>1 DEF Types, CallType
  <2> QED
    BY <2>1, <2>3, <2>4, <2>5, Values DEF TypeOK, Types
<1> QED
  BY <1>1, FileAlways, PTL

\* fat32_write, at every sector of its way, after its end and wherever it fails:
\* the file has its old bytes outside the range of the call, old or new ones
\* inside, and behind the old end nothing but new ones.
THEOREM WritesKeepTheRest == Spec => []WriteKeepsRest
<1>1. FileInv => WriteKeepsRest
  BY RunningRests DEF FileInv, Resting
<1> QED
  BY <1>1, FileAlways, PTL

\* fat32_write and fat32_truncate that return without an error have done all of
\* it on the disk, and the caller's handle agrees with the entry.
THEOREM DoneReachesTheDisk == Spec => []DoneIsOnDisk
<1>1. FileInv => DoneIsOnDisk
  BY DEF FileInv, Resting, DoneIsOnDisk
<1> QED
  BY <1>1, FileAlways, PTL

\* fat32_read hands over the bytes of the file from its position on, at every
\* moment as many as it says.
THEOREM ReadsTheFile == Spec => []ReadsBack
<1>1. FileInv => ReadsBack
  BY RunningRests DEF FileInv, Resting
<1> QED
  BY <1>1, FileAlways, PTL

\* No call, whole or failed, touches a cluster of the other file or its place in
\* the FAT.
THEOREM OtherFileUntouched == Spec => []OtherFileKept
<1>1. FileInv => OtherFileKept
  BY DEF FileInv
<1> QED
  BY <1>1, FileAlways, PTL
=============================================================================
