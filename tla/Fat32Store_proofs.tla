------------------------- MODULE Fat32Store_proofs -------------------------
(* The volume of Fat32 implements the tree of FileStore, for every volume,    *)
(* set of names and workload of Tame: each write to a table either leaves the *)
(* tree as it is or changes it as the operation in progress is to change it.  *)
EXTENDS Fat32Store, Fat32Space_proofs

-----------------------------------------------------------------------------
(* Paths *)

ParentOf(p) == SubSeq(p, 1, Len(p) - 1)
LastName(p) == p[Len(p)]

LEMMA PathFacts ==
  ASSUME NEW p \in NonRoot
  PROVE  /\ p \in Seq(Name) /\ Len(p) \in 1..(MaxDepth + 1) /\ p # <<>>
         /\ ParentOf(p) \in Path /\ LastName(p) \in Name
         /\ p = Append(ParentOf(p), LastName(p))
<1>1. PICK k \in 1..(MaxDepth + 1) : p \in [1..k -> Name]
  BY DEF NonRoot
<1>2. p \in Seq(Name) /\ Len(p) = k /\ k \in Nat /\ k - 1 \in 0..MaxDepth
  BY <1>1, WorkloadAssumption
<1>3. ParentOf(p) \in Seq(Name) /\ Len(ParentOf(p)) = k - 1
  BY <1>2 DEF ParentOf
<1>4. ParentOf(p) \in [1..(k - 1) -> Name]
  BY <1>3
<1>5. ParentOf(p) \in Path
  BY <1>2, <1>4 DEF Path
<1>6. p = Append(ParentOf(p), LastName(p))
  BY <1>2 DEF ParentOf, LastName
<1> QED
  BY <1>1, <1>2, <1>5, <1>6 DEF LastName

LEMMA AppendFacts ==
  ASSUME NEW q \in Path, NEW n \in Name
  PROVE  /\ Append(q, n) \in NonRoot
         /\ ParentOf(Append(q, n)) = q /\ LastName(Append(q, n)) = n
<1>1. PICK k \in 0..MaxDepth : q \in [1..k -> Name]
  BY DEF Path
<1>2. q \in Seq(Name) /\ Len(q) = k /\ k + 1 \in 1..(MaxDepth + 1)
  BY <1>1, WorkloadAssumption
<1> DEFINE p == Append(q, n)
<1>3. p \in Seq(Name) /\ Len(p) = k + 1
  BY <1>2
<1>4. p \in [1..(k + 1) -> Name]
  <2> HIDE DEF p
  <2> QED
    BY <1>3
<1>5. Append(q, n) \in NonRoot
  BY <1>2, <1>4 DEF NonRoot
<1> QED
  BY <1>2, <1>3, <1>5 DEF ParentOf, LastName

LEMMA PathType == ASSUME NEW q \in Path PROVE q \in Seq(Name) /\ Len(q) \in 0..MaxDepth
  BY WorkloadAssumption DEF Path

\* A path that is not empty is that of an entry.
LEMMA PathIsNonRoot ==
  ASSUME NEW q \in Path, q # <<>>
  PROVE  q \in NonRoot
<1>1. PICK k \in 0..MaxDepth : q \in [1..k -> Name]
  BY DEF Path
<1>2. q \in Seq(Name) /\ Len(q) = k
  BY <1>1, WorkloadAssumption
<1>3. k # 0
  BY <1>2
<1>4. k \in 1..(MaxDepth + 1)
  BY <1>3, WorkloadAssumption
<1> QED
  BY <1>1, <1>4 DEF NonRoot

-----------------------------------------------------------------------------
(* The directories that the tables T lead to along a path *)

NamedIn2(T, d, s, n) == Live(T[d][s]) /\ T[d][s].name = n
EdgeIn(T, d, n, c) ==
  \E s \in Slot : T[d][s].kind = "dir" /\ T[d][s].name = n /\ T[d][s].cluster = c
TrailIn(T, p, t) ==
  /\ t \in [0..Len(p) -> Cluster]
  /\ t[0] = Root
  /\ \A i \in 1..Len(p) : EdgeIn(T, t[i - 1], p[i], t[i])
EndIn(T, p, d) == \E t : TrailIn(T, p, t) /\ d = t[Len(p)]

LEMMA EmptyTrail == ASSUME NEW T, NEW d PROVE EndIn(T, <<>>, d) <=> d = Root
<1>1. ASSUME d = Root PROVE EndIn(T, <<>>, d)
  <2> DEFINE t == [i \in 0..0 |-> Root]
  <2>1. TrailIn(T, <<>>, t) /\ d = t[Len(<<>>)]
    BY <1>1, RootCluster DEF TrailIn
  <2> QED
    BY <2>1 DEF EndIn
<1>2. ASSUME EndIn(T, <<>>, d) PROVE d = Root
  BY <1>2 DEF EndIn, TrailIn
<1> QED
  BY <1>1, <1>2

\* A trail along Append(q, n) is one along q and one step more.
LEMMA NextTrail ==
  ASSUME NEW T, NEW q \in Path, NEW n \in Name, NEW c
  PROVE  EndIn(T, Append(q, n), c)
           <=> c \in Cluster /\ \E d \in Cluster : EndIn(T, q, d) /\ EdgeIn(T, d, n, c)
<1> DEFINE p == Append(q, n)
<1>1. /\ q \in Seq(Name) /\ p \in Seq(Name) /\ Len(p) = Len(q) + 1 /\ Len(q) \in Nat
      /\ p[Len(q) + 1] = n /\ \A i \in 1..Len(q) : p[i] = q[i]
  BY PathType
<1> HIDE DEF p
<1>2. ASSUME NEW t, TrailIn(T, p, t), c = t[Len(p)]
      PROVE  c \in Cluster /\ \E d \in Cluster : EndIn(T, q, d) /\ EdgeIn(T, d, n, c)
  <2> DEFINE u == [i \in 0..Len(q) |-> t[i]]
  <2>1. t \in [0..(Len(q) + 1) -> Cluster] /\ t[0] = Root
    BY <1>1, <1>2 DEF TrailIn
  <2>2. \A i \in 1..(Len(q) + 1) : EdgeIn(T, t[i - 1], p[i], t[i])
    BY <1>1, <1>2 DEF TrailIn
  <2>3. Len(q) \in 0..(Len(q) + 1) /\ Len(q) + 1 \in 0..(Len(q) + 1) /\ Len(q) + 1 \in 1..(Len(q) + 1)
    BY <1>1
  <2>4. EdgeIn(T, t[Len(q) + 1 - 1], p[Len(q) + 1], t[Len(q) + 1])
    BY <2>2, <2>3
  <2>5. EdgeIn(T, t[Len(q)], n, c)
    BY <1>1, <1>2, <2>4
  <2>6. u \in [0..Len(q) -> Cluster] /\ u[0] = Root /\ u[Len(q)] = t[Len(q)]
    BY <1>1, <2>1
  <2>7. ASSUME NEW i \in 1..Len(q) PROVE EdgeIn(T, u[i - 1], q[i], u[i])
    <3>1. i \in 1..(Len(q) + 1) /\ i - 1 \in 0..Len(q) /\ i \in 0..Len(q) /\ p[i] = q[i]
      BY <1>1, <2>7
    <3>2. u[i - 1] = t[i - 1] /\ u[i] = t[i]
      BY <3>1
    <3> QED
      BY <2>2, <3>1, <3>2
  <2>8. TrailIn(T, q, u)
    BY <2>6, <2>7 DEF TrailIn
  <2>9. EndIn(T, q, t[Len(q)])
    BY <2>6, <2>8 DEF EndIn
  <2> QED
    BY <1>1, <1>2, <2>1, <2>3, <2>5, <2>9
<1>3. ASSUME c \in Cluster, NEW d \in Cluster, EndIn(T, q, d), EdgeIn(T, d, n, c)
      PROVE  EndIn(T, p, c)
  <2>1. PICK u : TrailIn(T, q, u) /\ d = u[Len(q)]
    BY <1>3 DEF EndIn
  <2> DEFINE t == [i \in 0..Len(p) |-> IF i = Len(p) THEN c ELSE u[i]]
  <2>2. u \in [0..Len(q) -> Cluster] /\ u[0] = Root /\ \A i \in 1..Len(q) : EdgeIn(T, u[i - 1], q[i], u[i])
    BY <2>1 DEF TrailIn
  <2>3. t \in [0..Len(p) -> Cluster] /\ t[0] = Root /\ t[Len(p)] = c
    BY <1>1, <1>3, <2>2
  <2>4. ASSUME NEW i \in 1..Len(p) PROVE EdgeIn(T, t[i - 1], p[i], t[i])
    <3>1. CASE i = Len(p)
      <4>1. i - 1 = Len(q) /\ t[i - 1] = u[Len(q)] /\ t[i] = c /\ p[i] = n
        BY <1>1, <2>3, <3>1
      <4> QED
        BY <1>3, <2>1, <4>1
    <3>2. CASE i # Len(p)
      <4>1. i \in 1..Len(q) /\ t[i - 1] = u[i - 1] /\ t[i] = u[i] /\ p[i] = q[i]
        BY <1>1, <2>4, <3>2
      <4> QED
        BY <2>2, <4>1
    <3> QED
      BY <3>1, <3>2
  <2>5. TrailIn(T, p, t)
    BY <2>3, <2>4 DEF TrailIn
  <2> QED
    BY <2>3, <2>5 DEF EndIn
<1> QED
  BY <1>2, <1>3 DEF EndIn, p

LEMMA EndCluster == ASSUME NEW T, NEW p \in Path, NEW d, EndIn(T, p, d) PROVE d \in Cluster
<1>1. PICK t : TrailIn(T, p, t) /\ d = t[Len(p)]
  BY DEF EndIn
<1>2. Len(p) \in 0..Len(p)
  BY PathType
<1> QED
  BY <1>1, <1>2 DEF TrailIn

-----------------------------------------------------------------------------
(* Tables in which every directory has one path *)

UniqueIn(T) == \A d \in Cluster, s, t \in Slot, n \in Name \cup {NoName} :
                  NamedIn2(T, d, s, n) /\ NamedIn2(T, d, t, n) => s = t
OneEntryEach(T) ==
  /\ \A d \in Cluster, s \in Slot :
        T[d][s].kind = "dir" => T[d][s].cluster \in Cluster /\ T[d][s].cluster # Root
  /\ \A d, e \in Cluster, s, t \in Slot :
        T[d][s].kind = "dir" /\ T[e][t].kind = "dir" /\ T[d][s].cluster = T[e][t].cluster
          => d = e /\ s = t
Treelike(T) == T \in TableMap /\ UniqueIn(T) /\ OneEntryEach(T)

LEMMA EdgesDistinct ==
  ASSUME NEW T, Treelike(T), NEW d \in Cluster, NEW e \in Cluster, NEW m, NEW n,
         NEW b, NEW c, EdgeIn(T, d, m, b), EdgeIn(T, e, n, c)
  PROVE  /\ b = c => d = e /\ m = n
         /\ d = e /\ m = n => b = c
         /\ c # Root
<1>1. PICK s \in Slot : T[d][s].kind = "dir" /\ T[d][s].name = m /\ T[d][s].cluster = b
  BY DEF EdgeIn
<1>2. PICK t \in Slot : T[e][t].kind = "dir" /\ T[e][t].name = n /\ T[e][t].cluster = c
  BY DEF EdgeIn
<1>3. m \in Name \cup {NoName} /\ n \in Name \cup {NoName}
  BY <1>1, <1>2, Entries DEF Treelike, Entry
<1>4. NamedIn2(T, d, s, m) /\ NamedIn2(T, e, t, n)
  BY <1>1, <1>2, Kinds DEF NamedIn2
<1>5. b = c => d = e /\ s = t
  BY <1>1, <1>2 DEF Treelike, OneEntryEach
<1>6. d = e /\ m = n => s = t
  BY <1>3, <1>4 DEF Treelike, UniqueIn
<1>7. c # Root
  BY <1>2 DEF Treelike, OneEntryEach
<1> QED
  BY <1>1, <1>2, <1>5, <1>6, <1>7

SameEnds(T, k) ==
  \A p, q \in Path : Len(p) = k =>
    \A d, e \in Cluster : EndIn(T, p, d) /\ EndIn(T, q, e) => (p = q <=> d = e)

\* A path that is not empty, one name at a time.
LEMMA PathSplit ==
  ASSUME NEW q \in Path, q # <<>>
  PROVE  \E r \in Path, n \in Name : q = Append(r, n) /\ Len(r) = Len(q) - 1
<1>1. q \in NonRoot
  BY PathIsNonRoot
<1>2. ParentOf(q) \in Path /\ LastName(q) \in Name /\ q = Append(ParentOf(q), LastName(q))
  BY <1>1, PathFacts
<1>3. ParentOf(q) \in Seq(Name)
  BY <1>2, PathType
<1>4. Len(Append(ParentOf(q), LastName(q))) = Len(ParentOf(q)) + 1 /\ Len(ParentOf(q)) \in Nat
  BY <1>2, <1>3
<1> QED
  BY <1>2, <1>4

\* A path ends in one directory, and no other path ends there.
LEMMA EndsDistinct ==
  ASSUME NEW T, Treelike(T), NEW p \in Path, NEW q \in Path,
         NEW d, NEW e, EndIn(T, p, d), EndIn(T, q, e)
  PROVE  p = q <=> d = e
<1> DEFINE S == {k \in 0..MaxDepth : SameEnds(T, k)}
<1>1. ASSUME NEW r \in Path, NEW x, EndIn(T, r, x), x = Root PROVE r = <<>>
  <2> SUFFICES ASSUME r # <<>> PROVE FALSE
    OBVIOUS
  <2>1. PICK u \in Path, n \in Name : r = Append(u, n)
    BY PathSplit
  <2>2. PICK y \in Cluster : EdgeIn(T, y, n, x)
    BY <1>1, <2>1, NextTrail
  <2> QED
    BY <1>1, <2>2, EdgesDistinct
<1>2. SameEnds(T, 0)
  <2> SUFFICES ASSUME NEW a \in Path, NEW b \in Path, Len(a) = 0,
                      NEW x \in Cluster, NEW y \in Cluster, EndIn(T, a, x), EndIn(T, b, y)
               PROVE  a = b <=> x = y
    BY DEF SameEnds
  <2>1. a = <<>>
    BY PathType
  <2>2. x = Root
    BY <2>1, EmptyTrail
  <2> QED
    BY <1>1, <2>1, <2>2, EmptyTrail
<1>3. ASSUME NEW k \in 1..MaxDepth, SameEnds(T, k - 1) PROVE SameEnds(T, k)
  <2> SUFFICES ASSUME NEW a \in Path, NEW b \in Path, Len(a) = k,
                      NEW x \in Cluster, NEW y \in Cluster, EndIn(T, a, x), EndIn(T, b, y)
               PROVE  a = b <=> x = y
    BY DEF SameEnds
  <2>0. a # <<>>
    BY <1>3
  <2>1. PICK u \in Path, m \in Name : a = Append(u, m) /\ Len(u) = k - 1
    BY <2>0, PathSplit
  <2>2. PICK v \in Cluster : EndIn(T, u, v) /\ EdgeIn(T, v, m, x)
    BY <2>1, NextTrail
  <2>3. CASE b = <<>>
    <3>1. y = Root /\ x # Root
      BY <2>2, <2>3, EmptyTrail, EdgesDistinct
    <3> QED
      BY <2>0, <2>3, <3>1
  <2>4. CASE b # <<>>
    <3>1. PICK w \in Path, n \in Name : b = Append(w, n)
      BY <2>4, PathSplit
    <3>2. PICK z \in Cluster : EndIn(T, w, z) /\ EdgeIn(T, z, n, y)
      BY <3>1, NextTrail
    <3>3. u = w <=> v = z
      BY <1>3, <2>1, <2>2, <3>2 DEF SameEnds
    <3>4. (x = y => v = z /\ m = n) /\ (v = z /\ m = n => x = y)
      BY <2>2, <3>2, EdgesDistinct
    <3>5. a = b <=> u = w /\ m = n
      <4>1. ParentOf(a) = u /\ LastName(a) = m /\ ParentOf(b) = w /\ LastName(b) = n
        BY <2>1, <3>1, AppendFacts
      <4> QED
        BY <2>1, <3>1, <4>1
    <3> QED
      BY <3>3, <3>4, <3>5
  <2> QED
    BY <2>3, <2>4
<1>4. MaxDepth \in Nat /\ 0 \in S /\ \A k \in 1..MaxDepth : k - 1 \in S => k \in S
  <2>1. MaxDepth \in Nat
    BY WorkloadAssumption
  <2>2. 0 \in S
    BY <1>2, <2>1
  <2> QED
    BY <1>3, <2>1, <2>2
<1> HIDE DEF S
<1>5. 0..MaxDepth \subseteq S
  BY <1>4, CountsUp
<1>6. Len(p) \in 0..MaxDepth /\ d \in Cluster /\ e \in Cluster
  BY PathType, EndCluster
<1>7. SameEnds(T, Len(p))
  BY <1>5, <1>6 DEF S
<1> QED
  BY <1>6, <1>7 DEF SameEnds

-----------------------------------------------------------------------------
(* The tree in terms of the tables T and of the slot h that does not count *)

EntrySet(T, h, p) ==
  {e \in Cluster \X Slot : /\ EndIn(T, ParentOf(p), e[1])
                           /\ NamedIn2(T, e[1], e[2], LastName(p))
                           /\ e # h}
EntryOf(T, e) == T[e[1]][e[2]]
TreeOf(T, h) ==
  [p \in {<<>>} \cup {q \in NonRoot : EntrySet(T, h, q) # {}} |->
     IF p = <<>> THEN [kind |-> "dir", data |-> 0]
     ELSE NodeOf(EntryOf(T, CHOOSE e \in EntrySet(T, h, p) : TRUE))]

Hidden == IF f.op = "rename" /\ f.pc = "delete" THEN <<f.sdir, f.sslot>> ELSE <<0, 0>>

LEMMA FoundIs ==
  ASSUME TypeInv, UniqueNames, SoundEnds(table), NEW d \in Cluster, NEW n \in Name \cup {NoName},
         NEW s \in Slot
  PROVE  s \in Found(d, n) <=> NamedIn2(table, d, s, n)
<1>1. ASSUME NamedIn2(table, d, s, n) PROVE s \in Found(d, n)
  <2>1. Live(table[d][s]) /\ table[d][s].name = n /\ table[d][s].kind # "end"
    BY <1>1, Kinds DEF NamedIn2, Live
  <2>2. \A t \in 0..(s - 1) : t \in Slot /\ t < s /\ t # s
    BY GeometryAssumption DEF Slot
  <2>3. ScanReaches(d, s)
    BY <2>1, <2>2 DEF ScanReaches, SoundEnds
  <2>4. \A t \in 0..(s - 1) : ~(Live(table[d][t]) /\ table[d][t].name = n)
    BY <2>1, <2>2 DEF UniqueNames, Named
  <2> QED
    BY <2>1, <2>3, <2>4 DEF Found
<1>2. ASSUME s \in Found(d, n) PROVE NamedIn2(table, d, s, n)
  BY <1>2 DEF Found, NamedIn2
<1> QED
  BY <1>1, <1>2

LEMMA LeadsIs ==
  ASSUME TypeInv, UniqueNames, SoundEnds(table), NEW d \in Cluster, NEW n \in Name, NEW c
  PROVE  LeadsTo(d, n, c) <=> EdgeIn(table, d, n, c)
<1>1. \A s \in Slot : table[d][s].kind = "dir" =>
        (s \in Found(d, n) <=> table[d][s].name = n)
  BY FoundIs, Kinds DEF NamedIn2
<1> QED
  BY <1>1 DEF LeadsTo, EdgeIn

LEMMA ResolveIs ==
  ASSUME TypeInv, UniqueNames, SoundEnds(table), NEW p \in Path, NEW d
  PROVE  d \in Resolve(p) <=> EndIn(table, p, d)
<1>1. p \in Seq(Name) /\ \A i \in 1..Len(p) : p[i] \in Name /\ i - 1 \in 0..Len(p) /\ i \in 0..Len(p)
  BY PathType
<1>2. ASSUME NEW t, Trail(p, t) PROVE TrailIn(table, p, t)
  <2>1. t \in [0..Len(p) -> Cluster]
    BY <1>2, DirectoriesInCluster DEF Trail
  <2>2. ASSUME NEW i \in 1..Len(p) PROVE EdgeIn(table, t[i - 1], p[i], t[i])
    <3>1. t[i - 1] \in Cluster /\ p[i] \in Name /\ LeadsTo(t[i - 1], p[i], t[i])
      BY <1>1, <1>2, <2>1 DEF Trail
    <3> QED
      BY <3>1, LeadsIs
  <2> QED
    BY <1>2, <2>1, <2>2 DEF Trail, TrailIn
<1>3. ASSUME NEW t, TrailIn(table, p, t) PROVE Trail(p, t)
  <2>1. t \in [0..Len(p) -> Cluster] /\ t[0] = Root
    BY <1>3 DEF TrailIn
  <2>2. ASSUME NEW i \in 1..Len(p)
        PROVE  LeadsTo(t[i - 1], p[i], t[i]) /\ t[i] \in Directories
    <3>1. t[i - 1] \in Cluster /\ t[i] \in Cluster /\ p[i] \in Name /\ EdgeIn(table, t[i - 1], p[i], t[i])
      BY <1>1, <1>3, <2>1 DEF TrailIn
    <3>2. PICK s \in Slot : table[t[i - 1]][s].kind = "dir" /\ table[t[i - 1]][s].cluster = t[i]
      BY <3>1 DEF EdgeIn
    <3>3. <<t[i - 1], s>> \in {e \in Cluster \X Slot : table[e[1]][e[2]].kind = "dir"}
      BY <3>1, <3>2
    <3>4. t[i] \in Directories
      BY <3>1, <3>2, <3>3 DEF Directories
    <3> QED
      BY <3>1, <3>4, LeadsIs
  <2>3. Root \in Directories
    BY RootCluster DEF Directories
  <2>4. ASSUME NEW i \in 0..Len(p) PROVE t[i] \in Directories
    <3>1. i = 0 \/ i \in 1..Len(p)
      BY <1>1
    <3> QED
      BY <2>1, <2>2, <2>3, <3>1
  <2>5. t \in [0..Len(p) -> Directories]
    BY <2>1, <2>4
  <2> QED
    BY <2>1, <2>2, <2>5 DEF Trail
<1> QED
  BY <1>2, <1>3, TrailEnds DEF EndIn

LEMMA HiddenIs ==
  ASSUME NEW d \in Cluster, NEW s
  PROVE  Superseded(d, s) <=> <<d, s>> = Hidden
  BY Marks DEF Superseded, Hidden

LEMMA EntriesAre ==
  ASSUME TypeInv, UniqueNames, SoundEnds(table), NEW p \in NonRoot
  PROVE  EntriesAt[p] = EntrySet(table, Hidden, p)
<1>1. ParentOf(p) \in Path /\ LastName(p) \in Name
  BY PathFacts
<1>2. EntriesAt[p] = Visible(Resolve(ParentOf(p)), LastName(p))
  BY <1>1 DEF EntriesAt, ParentOf, LastName
<1> DEFINE R == Resolve(ParentOf(p))
           n == LastName(p)
<1>3. \A d : d \in R <=> EndIn(table, ParentOf(p), d)
  BY <1>1, ResolveIs
<1>4. \A d \in R : d \in Cluster
  BY <1>1, <1>3, EndCluster
<1>5. \A d \in R, s \in Slot : s \in Found(d, n) <=> NamedIn2(table, d, s, n)
  BY <1>1, <1>4, FoundIs
<1>6. \A d \in R : Found(d, n) \subseteq Slot
  BY FoundInSlot
<1>7. \A d \in R : \A s : Superseded(d, s) <=> <<d, s>> = Hidden
  BY <1>4, HiddenIs
<1> HIDE DEF R, n
<1>8. \A e : e \in Visible(R, n) <=> \E d \in R : \E s \in Found(d, n) : ~Superseded(d, s) /\ e = <<d, s>>
  BY DEF Visible
<1>9. ASSUME NEW e \in Visible(R, n) PROVE e \in EntrySet(table, Hidden, p)
  <2>1. PICK d \in R, s \in Slot : s \in Found(d, n) /\ ~Superseded(d, s) /\ e = <<d, s>>
    BY <1>6, <1>8, <1>9
  <2>2. /\ d \in Cluster /\ EndIn(table, ParentOf(p), d) /\ NamedIn2(table, d, s, n) /\ e # Hidden
        /\ e[1] = d /\ e[2] = s /\ e \in Cluster \X Slot
    BY <1>3, <1>4, <1>5, <1>7, <2>1
  <2> QED
    BY <2>2 DEF EntrySet, n
<1>10. ASSUME NEW e \in EntrySet(table, Hidden, p) PROVE e \in Visible(R, n)
  <2>1. PICK d \in Cluster, s \in Slot : e = <<d, s>>
    BY <1>10 DEF EntrySet
  <2>2. EndIn(table, ParentOf(p), d) /\ NamedIn2(table, d, s, n) /\ e # Hidden
    BY <1>10, <2>1 DEF EntrySet, n
  <2>3. d \in R /\ s \in Found(d, n) /\ ~Superseded(d, s)
    BY <1>3, <1>5, <1>7, <2>1, <2>2
  <2> QED
    BY <1>8, <2>1, <2>3
<1>11. Visible(R, n) = EntrySet(table, Hidden, p)
  BY <1>9, <1>10
<1> QED
  BY <1>2, <1>11 DEF R, n

TreeInv == VolumeTree = TreeOf(table, Hidden)

LEMMA TreeIs == ASSUME TypeInv, UniqueNames, SoundEnds(table) PROVE TreeInv
<1> DEFINE there == [p \in NonRoot |-> EntriesAt[p]]
<1>1. EntriesAt = there
  BY DEF EntriesAt
<1>2. \A p \in NonRoot : EntriesAt[p] = EntrySet(table, Hidden, p) /\ p # <<>>
  BY EntriesAre, PathFacts
<1>3. \A e : At(e) = EntryOf(table, e)
  BY DEF At, EntryOf
<1> HIDE DEF there
<1>4. VolumeTree = [p \in {<<>>} \cup {q \in NonRoot : EntriesAt[q] # {}} |->
                      IF p = <<>> THEN [kind |-> "dir", data |-> 0]
                      ELSE NodeOf(At(CHOOSE e \in EntriesAt[p] : TRUE))]
  BY DEF VolumeTree
<1>5. {q \in NonRoot : EntriesAt[q] # {}} = {q \in NonRoot : EntrySet(table, Hidden, q) # {}}
  BY <1>2
<1> QED
  BY <1>2, <1>3, <1>4, <1>5 DEF TreeInv, TreeOf

-----------------------------------------------------------------------------
(* What a change of the tables does to the tree *)

Counts(T, h, e) == Live(EntryOf(T, e)) /\ e # h
Alike(T, h, U, k, e) ==
  Counts(T, h, e) \/ Counts(U, k, e) =>
    Counts(T, h, e) /\ Counts(U, k, e) /\ EntryOf(U, e) = EntryOf(T, e)

\* The tables have the same directories, but for the one at x, which is empty.
SameEdges(T, U, x) ==
  /\ x \in Cluster => \A s \in Slot : ~Live(T[x][s]) /\ ~Live(U[x][s])
  /\ \A d, c \in Cluster : \A n : c # x => (EdgeIn(T, d, n, c) <=> EdgeIn(U, d, n, c))

LEMMA EndStays ==
  ASSUME NEW T, NEW U, NEW x, SameEdges(T, U, x), NEW p \in Path, NEW d, d # x, EndIn(T, p, d)
  PROVE  EndIn(U, p, d)
<1>1. PICK t : TrailIn(T, p, t) /\ d = t[Len(p)]
  BY DEF EndIn
<1>2. /\ Len(p) \in Nat /\ t \in [0..Len(p) -> Cluster] /\ t[0] = Root
      /\ \A i \in 1..Len(p) : EdgeIn(T, t[i - 1], p[i], t[i])
  BY <1>1, PathType DEF TrailIn
<1>3. ASSUME NEW i \in 1..Len(p) PROVE t[i] # x
  <2>1. CASE i = Len(p)
    BY <1>1, <2>1
  <2>2. CASE i # Len(p)
    <3>1. i + 1 \in 1..Len(p) /\ i + 1 - 1 = i /\ t[i] \in Cluster
      BY <1>2, <1>3, <2>2
    <3>2. EdgeIn(T, t[i], p[i + 1], t[i + 1])
      BY <1>2, <3>1
    <3>3. \E s \in Slot : Live(T[t[i]][s])
      BY <3>2, Kinds DEF EdgeIn
    <3> QED
      BY <3>1, <3>3 DEF SameEdges
  <2> QED
    BY <2>1, <2>2
<1>4. ASSUME NEW i \in 1..Len(p) PROVE EdgeIn(U, t[i - 1], p[i], t[i])
  <2>1. i - 1 \in 0..Len(p) /\ i \in 0..Len(p)
    BY <1>2, <1>4
  <2>2. t[i - 1] \in Cluster /\ t[i] \in Cluster /\ t[i] # x /\ EdgeIn(T, t[i - 1], p[i], t[i])
    BY <1>2, <1>3, <1>4, <2>1
  <2> QED
    BY <2>2 DEF SameEdges
<1>5. TrailIn(U, p, t)
  BY <1>2, <1>4 DEF TrailIn
<1> QED
  BY <1>1, <1>5 DEF EndIn

LEMMA EndsStay ==
  ASSUME NEW T, NEW U, NEW x, SameEdges(T, U, x), NEW p \in Path, NEW d, d # x
  PROVE  EndIn(T, p, d) <=> EndIn(U, p, d)
<1>1. SameEdges(U, T, x)
  BY DEF SameEdges
<1> QED
  BY <1>1, EndStays

LEMMA EntryStays ==
  ASSUME NEW T, NEW U, NEW x, SameEdges(T, U, x), NEW h, NEW k, NEW p \in NonRoot,
         NEW e \in Cluster \X Slot, Alike(T, h, U, k, e)
  PROVE  e \in EntrySet(T, h, p) <=> e \in EntrySet(U, k, p)
<1>1. PICK d \in Cluster, s \in Slot : e = <<d, s>> /\ e[1] = d /\ e[2] = s
  OBVIOUS
<1>2. ParentOf(p) \in Path
  BY PathFacts
<1>3. e \in EntrySet(T, h, p) <=>
        EndIn(T, ParentOf(p), d) /\ Counts(T, h, e) /\ T[d][s].name = LastName(p)
  BY <1>1 DEF EntrySet, Counts, NamedIn2, EntryOf
<1>4. e \in EntrySet(U, k, p) <=>
        EndIn(U, ParentOf(p), d) /\ Counts(U, k, e) /\ U[d][s].name = LastName(p)
  BY <1>1 DEF EntrySet, Counts, NamedIn2, EntryOf
<1>5. Counts(T, h, e) \/ Counts(U, k, e) => d # x
  BY <1>1 DEF Counts, EntryOf, SameEdges
<1>6. d # x => (EndIn(T, ParentOf(p), d) <=> EndIn(U, ParentOf(p), d))
  BY <1>2, EndsStay
<1>7. Counts(T, h, e) \/ Counts(U, k, e) => Counts(T, h, e) /\ Counts(U, k, e) /\ U[d][s] = T[d][s]
  BY <1>1 DEF Alike, EntryOf
<1> QED
  BY <1>3, <1>4, <1>5, <1>6, <1>7

\* A path has at most one entry, and an entry at most one path.
LEMMA EntryUnique ==
  ASSUME NEW T, Treelike(T), NEW h, NEW k, NEW p \in NonRoot, NEW q \in NonRoot,
         NEW e \in EntrySet(T, h, p), NEW g \in EntrySet(T, k, q)
  PROVE  e = g <=> p = q
<1>1. PICK d \in Cluster, s \in Slot : e = <<d, s>> /\ e[1] = d /\ e[2] = s
  BY DEF EntrySet
<1>2. PICK c \in Cluster, t \in Slot : g = <<c, t>> /\ g[1] = c /\ g[2] = t
  BY DEF EntrySet
<1>3. EndIn(T, ParentOf(p), d) /\ NamedIn2(T, d, s, LastName(p))
  BY <1>1 DEF EntrySet
<1>4. EndIn(T, ParentOf(q), c) /\ NamedIn2(T, c, t, LastName(q))
  BY <1>2 DEF EntrySet
<1>5. /\ ParentOf(p) \in Path /\ LastName(p) \in Name /\ p = Append(ParentOf(p), LastName(p))
      /\ ParentOf(q) \in Path /\ LastName(q) \in Name /\ q = Append(ParentOf(q), LastName(q))
  BY PathFacts
<1>6. ParentOf(p) = ParentOf(q) <=> d = c
  BY <1>3, <1>4, <1>5, EndsDistinct
<1>7. d = c /\ s = t => LastName(p) = LastName(q)
  BY <1>3, <1>4 DEF NamedIn2
<1>8. d = c /\ LastName(p) = LastName(q) => s = t
  BY <1>3, <1>4, <1>5 DEF Treelike, UniqueIn
<1>9. p = q <=> ParentOf(p) = ParentOf(q) /\ LastName(p) = LastName(q)
  BY <1>5
<1> QED
  BY <1>1, <1>2, <1>6, <1>7, <1>8, <1>9

\* The tree at the path of an entry.
LEMMA TreeAt ==
  ASSUME NEW T, Treelike(T), NEW h, NEW p \in NonRoot, NEW e \in EntrySet(T, h, p)
  PROVE  p \in DOMAIN TreeOf(T, h) /\ TreeOf(T, h)[p] = NodeOf(EntryOf(T, e))
<1>1. p \in {<<>>} \cup {q \in NonRoot : EntrySet(T, h, q) # {}} /\ p # <<>>
  BY PathFacts
<1>2. (CHOOSE g \in EntrySet(T, h, p) : TRUE) \in EntrySet(T, h, p)
  OBVIOUS
<1>3. (CHOOSE g \in EntrySet(T, h, p) : TRUE) = e
  BY <1>2, EntryUnique
<1> QED
  BY <1>1, <1>3 DEF TreeOf

LEMMA TreeDomain ==
  ASSUME NEW T, NEW h
  PROVE  /\ \A p : p \in DOMAIN TreeOf(T, h)
                   <=> p = <<>> \/ (p \in NonRoot /\ \E e : e \in EntrySet(T, h, p))
         /\ TreeOf(T, h)[<<>>] = [kind |-> "dir", data |-> 0]
<1> DEFINE D == {<<>>} \cup {q \in NonRoot : EntrySet(T, h, q) # {}}
<1>1. DOMAIN TreeOf(T, h) = D
  BY DEF TreeOf
<1>2. TreeOf(T, h)[<<>>] = [kind |-> "dir", data |-> 0]
  BY DEF TreeOf
<1>3. \A p : p \in D <=> p = <<>> \/ (p \in NonRoot /\ \E e : e \in EntrySet(T, h, p))
  OBVIOUS
<1> HIDE DEF D
<1> QED
  BY <1>1, <1>2, <1>3

LEMMA TreeIsFunction ==
  ASSUME NEW T, NEW h
  PROVE  TreeOf(T, h) = [q \in DOMAIN TreeOf(T, h) |-> TreeOf(T, h)[q]]
  BY DEF TreeOf

\* Only the entries E count differently; and none of them is at the path p.
AlikeBut(T, h, U, k, E) == \A e \in Cluster \X Slot : e \notin E => Alike(T, h, U, k, e)
NoneAt(T, h, U, k, E, p) ==
  \A e \in E : e \notin EntrySet(T, h, p) /\ e \notin EntrySet(U, k, p)

LEMMA TreeElsewhere ==
  ASSUME NEW T, NEW U, Treelike(T), Treelike(U), NEW x, SameEdges(T, U, x), NEW h, NEW k, NEW E,
         AlikeBut(T, h, U, k, E), NEW p \in NonRoot, NoneAt(T, h, U, k, E, p)
  PROVE  /\ p \in DOMAIN TreeOf(T, h) <=> p \in DOMAIN TreeOf(U, k)
         /\ p \in DOMAIN TreeOf(T, h) => TreeOf(U, k)[p] = TreeOf(T, h)[p]
<1>1. ASSUME NEW e \in Cluster \X Slot
      PROVE  e \in EntrySet(T, h, p) <=> e \in EntrySet(U, k, p)
  <2>1. CASE e \in E
    BY <2>1 DEF NoneAt
  <2>2. CASE e \notin E
    BY <2>2, EntryStays DEF AlikeBut
  <2> QED
    BY <2>1, <2>2
<1>2. EntrySet(T, h, p) = EntrySet(U, k, p)
  BY <1>1 DEF EntrySet
<1>3. p # <<>>
  BY PathFacts
<1>4. p \in DOMAIN TreeOf(T, h) <=> p \in DOMAIN TreeOf(U, k)
  BY <1>2, <1>3, TreeDomain
<1>5. ASSUME p \in DOMAIN TreeOf(T, h) PROVE TreeOf(U, k)[p] = TreeOf(T, h)[p]
  <2>1. PICK e \in EntrySet(T, h, p) : TRUE
    BY <1>3, <1>5, TreeDomain
  <2>2. e \notin E /\ e \in Cluster \X Slot /\ e \in EntrySet(U, k, p)
    BY <1>2 DEF EntrySet, NoneAt
  <2>3. Counts(T, h, e)
    BY DEF EntrySet, Counts, NamedIn2, EntryOf
  <2>4. EntryOf(U, e) = EntryOf(T, e)
    BY <2>2, <2>3 DEF AlikeBut, Alike
  <2> QED
    BY <2>2, <2>4, TreeAt
<1> QED
  BY <1>4, <1>5

LEMMA NotCounted ==
  ASSUME NEW T, NEW h, NEW e, ~Counts(T, h, e), NEW p
  PROVE  e \notin EntrySet(T, h, p)
  BY DEF Counts, EntryOf, EntrySet, NamedIn2

\* The one path of the entry in slot s of the directory at the end of q.
NamedIfCounted(T, h, d, s, n) == Counts(T, h, <<d, s>>) => T[d][s].name = n

LEMMA EntryAt ==
  ASSUME NEW T, Treelike(T), NEW h, NEW q \in Path, NEW d \in Cluster, NEW s \in Slot,
         EndIn(T, q, d), NEW n \in Name, NamedIfCounted(T, h, d, s, n), NEW p \in NonRoot
  PROVE  <<d, s>> \in EntrySet(T, h, p) <=> Counts(T, h, <<d, s>>) /\ p = Append(q, n)
<1> DEFINE e == <<d, s>>
           r == Append(q, n)
<1>1. r \in NonRoot /\ ParentOf(r) = q /\ LastName(r) = n
  BY AppendFacts
<1>2. e \in Cluster \X Slot /\ e[1] = d /\ e[2] = s
  OBVIOUS
<1>3. CASE Counts(T, h, e)
  <2>1. NamedIn2(T, d, s, n) /\ e # h
    BY <1>3 DEF Counts, EntryOf, NamedIn2, NamedIfCounted
  <2> HIDE DEF e, r
  <2>2. e \in EntrySet(T, h, r)
    BY <1>1, <1>2, <2>1 DEF EntrySet
  <2>3. e \in EntrySet(T, h, p) => p = r
    BY <1>1, <2>2, EntryUnique
  <2> QED
    BY <1>3, <2>2, <2>3 DEF e, r
<1>4. CASE ~Counts(T, h, e)
  BY <1>4, NotCounted
<1> QED
  BY <1>3, <1>4

\* The directory that a path ends in is a directory of the tree.
LEMMA DirectoryInTree ==
  ASSUME NEW T, Treelike(T), NEW h, \A d \in Cluster, s \in Slot : T[d][s].kind = "dir" => <<d, s>> # h,
         NEW q \in Path, NEW c, EndIn(T, q, c)
  PROVE  /\ q \in DOMAIN TreeOf(T, h)
         /\ TreeOf(T, h)[q] = [kind |-> "dir", data |-> 0]
<1>1. CASE q = <<>>
  BY <1>1, TreeDomain
<1>2. CASE q # <<>>
  <2>1. PICK r \in Path, n \in Name : q = Append(r, n)
    BY <1>2, PathSplit
  <2>2. PICK d \in Cluster : EndIn(T, r, d) /\ EdgeIn(T, d, n, c)
    BY <2>1, NextTrail
  <2>3. PICK s \in Slot : T[d][s].kind = "dir" /\ T[d][s].name = n
    BY <2>2 DEF EdgeIn
  <2>4. Counts(T, h, <<d, s>>) /\ NamedIfCounted(T, h, d, s, n)
    BY <2>3, Kinds DEF Counts, EntryOf, NamedIfCounted
  <2>5. <<d, s>> \in EntrySet(T, h, q)
    BY <1>2, <2>1, <2>2, <2>3, <2>4, EntryAt, PathIsNonRoot
  <2>6. NodeOf(EntryOf(T, <<d, s>>)) = [kind |-> "dir", data |-> 0]
    BY <2>3 DEF NodeOf, EntryOf
  <2> QED
    BY <1>2, <2>5, <2>6, TreeAt, PathIsNonRoot
<1> QED
  BY <1>1, <1>2

LEMMA TreeKept ==
  ASSUME NEW T, NEW U, Treelike(T), Treelike(U), NEW x, SameEdges(T, U, x), NEW h, NEW k,
         \A e \in Cluster \X Slot : Alike(T, h, U, k, e)
  PROVE  TreeOf(U, k) = TreeOf(T, h)
<1> DEFINE F == TreeOf(T, h)
           G == TreeOf(U, k)
<1>1. \A p \in NonRoot : (p \in DOMAIN F <=> p \in DOMAIN G) /\ (p \in DOMAIN F => G[p] = F[p])
  <2> SUFFICES ASSUME NEW p \in NonRoot
               PROVE  (p \in DOMAIN F <=> p \in DOMAIN G) /\ (p \in DOMAIN F => G[p] = F[p])
    OBVIOUS
  <2>1. NoneAt(T, h, U, k, {}, p)
    BY DEF NoneAt
  <2>2. AlikeBut(T, h, U, k, {})
    BY DEF AlikeBut
  <2> QED
    BY <2>1, <2>2, TreeElsewhere
<1>2. /\ \A p \in DOMAIN F : p = <<>> \/ p \in NonRoot
      /\ \A p \in DOMAIN G : p = <<>> \/ p \in NonRoot
      /\ <<>> \in DOMAIN F /\ <<>> \in DOMAIN G /\ F[<<>>] = G[<<>>]
  BY TreeDomain
<1>6. F = [q \in DOMAIN F |-> F[q]] /\ G = [q \in DOMAIN G |-> G[q]]
  BY TreeIsFunction
<1> HIDE DEF F, G
<1>3. DOMAIN G = DOMAIN F
  BY <1>1, <1>2
<1>4. \A p \in DOMAIN F : G[p] = F[p]
  BY <1>1, <1>2
<1>5. G = F
  BY <1>3, <1>4, <1>6
<1> QED
  BY <1>5 DEF F, G

\* One entry counts differently: the tree changes at its path only.
LEMMA TreeChangesAt ==
  ASSUME NEW T, NEW U, Treelike(T), Treelike(U), NEW x, SameEdges(T, U, x), NEW h, NEW k,
         NEW q \in Path, NEW d \in Cluster, NEW s \in Slot, EndIn(T, q, d), d # x,
         NEW n \in Name, NamedIfCounted(T, h, d, s, n), NamedIfCounted(U, k, d, s, n),
         AlikeBut(T, h, U, k, {<<d, s>>})
  PROVE  LET F == TreeOf(T, h)
             G == TreeOf(U, k)
             p == Append(q, n)
         IN /\ p \in NonRoot
            /\ \A r : r # p => (r \in DOMAIN F <=> r \in DOMAIN G)
            /\ \A r \in DOMAIN F : r # p => G[r] = F[r]
            /\ Counts(T, h, <<d, s>>) => p \in DOMAIN F /\ F[p] = NodeOf(T[d][s])
            /\ Counts(U, k, <<d, s>>) => p \in DOMAIN G /\ G[p] = NodeOf(U[d][s])
            /\ ~Counts(T, h, <<d, s>>) /\ Counts(U, k, <<d, s>>) => p \notin DOMAIN F
            /\ Counts(T, h, <<d, s>>) /\ ~Counts(U, k, <<d, s>>) => p \notin DOMAIN G
<1> DEFINE e == <<d, s>>
           F == TreeOf(T, h)
           G == TreeOf(U, k)
           p == Append(q, n)
<1>0. p \in NonRoot
  BY AppendFacts
<1>1. \A r \in NonRoot : /\ e \in EntrySet(T, h, r) <=> Counts(T, h, e) /\ r = p
                         /\ e \in EntrySet(U, k, r) <=> Counts(U, k, e) /\ r = p
  <2>1. EndIn(U, q, d)
    BY EndStays
  <2>2. \A r \in NonRoot : e \in EntrySet(T, h, r) <=> Counts(T, h, e) /\ r = p
    BY EntryAt
  <2>3. \A r \in NonRoot : e \in EntrySet(U, k, r) <=> Counts(U, k, e) /\ r = p
    BY <2>1, EntryAt
  <2> QED
    BY <2>2, <2>3
<1>2. EntryOf(T, e) = T[d][s] /\ EntryOf(U, e) = U[d][s]
  BY DEF EntryOf
<1>3. e \in Cluster \X Slot /\ AlikeBut(T, h, U, k, {e})
  OBVIOUS
<1> HIDE DEF e, p
<1>4. ASSUME NEW r \in NonRoot, r # p
      PROVE  (r \in DOMAIN F <=> r \in DOMAIN G) /\ (r \in DOMAIN F => G[r] = F[r])
  <2>1. NoneAt(T, h, U, k, {e}, r)
    BY <1>1, <1>4 DEF NoneAt
  <2> QED
    BY <1>3, <2>1, TreeElsewhere
<1>5. /\ \A r \in DOMAIN F : r = <<>> \/ r \in NonRoot
      /\ \A r \in DOMAIN G : r = <<>> \/ r \in NonRoot
      /\ <<>> \in DOMAIN F /\ <<>> \in DOMAIN G /\ F[<<>>] = G[<<>>]
  BY TreeDomain
<1>6. ASSUME Counts(T, h, e) PROVE p \in DOMAIN F /\ F[p] = NodeOf(T[d][s])
  <2>1. e \in EntrySet(T, h, p)
    BY <1>0, <1>1, <1>6
  <2> QED
    BY <1>0, <1>2, <2>1, TreeAt
<1>7. ASSUME Counts(U, k, e) PROVE p \in DOMAIN G /\ G[p] = NodeOf(U[d][s])
  <2>1. e \in EntrySet(U, k, p)
    BY <1>0, <1>1, <1>7
  <2> QED
    BY <1>0, <1>2, <2>1, TreeAt
<1>8. ASSUME ~Counts(T, h, e), Counts(U, k, e), p \in DOMAIN F PROVE FALSE
  <2>1. PICK g \in EntrySet(T, h, p) : TRUE
    BY <1>0, <1>8, TreeDomain, PathFacts
  <2>2. g # e /\ g \in Cluster \X Slot
    BY <1>8, NotCounted DEF EntrySet
  <2>3. g \in EntrySet(U, k, p)
    BY <1>0, <1>3, <2>1, <2>2, EntryStays DEF AlikeBut
  <2> QED
    BY <1>0, <1>1, <1>8, <2>2, <2>3, EntryUnique
<1>9. ASSUME Counts(T, h, e), ~Counts(U, k, e), p \in DOMAIN G PROVE FALSE
  <2>1. PICK g \in EntrySet(U, k, p) : TRUE
    BY <1>0, <1>9, TreeDomain, PathFacts
  <2>2. g # e /\ g \in Cluster \X Slot
    BY <1>9, NotCounted DEF EntrySet
  <2>3. g \in EntrySet(T, h, p)
    BY <1>0, <1>3, <2>1, <2>2, EntryStays DEF AlikeBut
  <2> QED
    BY <1>0, <1>1, <1>9, <2>2, <2>3, EntryUnique
<1> HIDE DEF F, G
<1>10. \A r : r # p => (r \in DOMAIN F <=> r \in DOMAIN G)
  BY <1>4, <1>5
<1>11. \A r \in DOMAIN F : r # p => G[r] = F[r]
  BY <1>4, <1>5
<1> QED
  BY <1>0, <1>6, <1>7, <1>8, <1>9, <1>10, <1>11 DEF e, F, G, p

\* Nothing is under an empty directory.
LEMMA NothingUnder ==
  ASSUME NEW T, Treelike(T), NEW h, NEW p, NEW x \in Cluster, \A s \in Slot : ~Live(T[x][s]),
         p \in Path => EndIn(T, p, x), NEW r \in DOMAIN TreeOf(T, h), r # <<>>
  PROVE  ParentOf(r) # p
<1> SUFFICES ASSUME ParentOf(r) = p PROVE FALSE
  OBVIOUS
<1>1. PICK e \in EntrySet(T, h, r) : r \in NonRoot
  BY TreeDomain
<1>2. PICK d \in Cluster, s \in Slot : e = <<d, s>> /\ e[1] = d /\ e[2] = s
  BY DEF EntrySet
<1>3. EndIn(T, p, d) /\ Live(T[d][s])
  BY <1>2 DEF EntrySet, NamedIn2
<1>4. p \in Path
  BY <1>1, PathFacts
<1>5. d = x
  BY <1>3, <1>4, EndsDistinct
<1> QED
  BY <1>3, <1>5

-----------------------------------------------------------------------------
(* What the operation in progress means for the tree *)

HomesIn(T, d) == \E q \in Path : EndIn(T, q, d)
NamesKnown(T) == \A d \in Cluster, s \in Slot : Live(T[d][s]) => T[d][s].name \in Name
SizesKnown(T) == \A d \in Cluster, s \in Slot : T[d][s].kind = "file" => T[d][s].size \in Sizes
Resizes(T, g) ==
  g.size \in Sizes /\ (g.size = Subject(T, g).size \/ <<Subject(T, g).size, g.size>> \in SizeChange)

\* The directories the operation works in are in the tree, and the size it is
\* going to write is one the calls ask for.
Aimed(T, g) ==
  /\ g.pc # "idle" => HomesIn(T, g.dir)
  /\ g.op = "rename" => HomesIn(T, g.sdir)
  /\ g.op \in {"create", "mkdir"} => g.size = 0
  /\ g.op \in {"write", "truncate"} => Resizes(T, g)
  /\ g.op = "rmdir" /\ g.pc = "delete" => Subject(T, g).kind = "dir"
StoreInv == NamesKnown(table) /\ SizesKnown(table) /\ Aimed(table, f)

LEMMA TreelikeIs == ASSUME Inv, NamesInv PROVE Treelike(table)
<1>1. table \in TableMap /\ Base(fat[1], table)
  BY Volumes
<1>2. UniqueIn(table)
  BY DEF NamesInv, UniqueNames, Named, UniqueIn, NamedIn2
<1>3. ASSUME NEW d \in Cluster, NEW s \in Slot, table[d][s].kind = "dir"
      PROVE  Live(table[d][s]) /\ table[d][s].cluster \in Cluster /\ table[d][s].cluster # Root
  <2>1. Live(table[d][s]) /\ table[d][s].cluster # 0
    BY <1>1, <1>3, Kinds DEF Base, SoundTree
  <2>2. table[d][s].cluster \in Cluster
    BY <1>1, <2>1, Entries
  <2> QED
    BY <1>1, <2>1, <2>2 DEF Base, SoundHeads
<1>4. ASSUME NEW d \in Cluster, NEW e \in Cluster, NEW s \in Slot, NEW t \in Slot,
             table[d][s].kind = "dir", table[e][t].kind = "dir",
             table[d][s].cluster = table[e][t].cluster
      PROVE  d = e /\ s = t
  <2>1. Same(table, d, s, e, t)
    BY <1>3, <1>4 DEF Same
  <2>2. CASE ~(f.op = "rename" /\ f.pc = "delete")
    BY <2>1, <2>2, Volumes DEF Volume, Distinct
  <2>3. CASE f.op = "rename" /\ f.pc = "delete"
    <3>1. DistinctBut(table, f.sdir, f.sslot) /\ table[f.sdir][f.sslot].kind = "file"
      BY <2>3 DEF Inv, Sound, VolumeAt, InProgress, RenameSound
    <3>2. <<d, s>> # <<f.sdir, f.sslot>> /\ <<e, t>> # <<f.sdir, f.sslot>>
      BY <1>4, <3>1
    <3> QED
      BY <2>1, <3>1, <3>2 DEF DistinctBut
  <2> QED
    BY <2>2, <2>3
<1> QED
  BY <1>1, <1>2, <1>3, <1>4 DEF Treelike, OneEntryEach

LEMMA HomesAre ==
  ASSUME TypeInv, UniqueNames, SoundEnds(table), NEW d \in Parents
  PROVE  HomesIn(table, d)
<1>1. PICK p \in Path : d \in Resolve(p)
  BY DEF Parents
<1> QED
  BY <1>1, ResolveIs DEF HomesIn

LEMMA HomesStay ==
  ASSUME NEW T, NEW U, NEW x, SameEdges(T, U, x), NEW d, d # x, HomesIn(T, d)
  PROVE  HomesIn(U, d)
  BY EndStays DEF HomesIn

-----------------------------------------------------------------------------
(* What the writes do to the entries *)

KeptBut(T, U, d, s) ==
  \A e \in Cluster, t \in Slot : <<e, t>> # <<d, s>> => U[e][t] = T[e][t]
\* x is an empty directory, or none at all.
Quiet(T, x) == x \in Cluster => \A s \in Slot : ~Live(T[x][s])
OnlyLeadsTo(e, x) == e.kind = "dir" => e.cluster = x

LEMMA SlotChange ==
  ASSUME NEW T, NEW U, NEW d \in Cluster, NEW s \in Slot, KeptBut(T, U, d, s), NEW x,
         Quiet(T, x), Quiet(U, x), OnlyLeadsTo(T[d][s], x), OnlyLeadsTo(U[d][s], x), NEW h
  PROVE  SameEdges(T, U, x) /\ AlikeBut(T, h, U, h, {<<d, s>>})
<1>1. ASSUME NEW a \in Cluster, NEW c \in Cluster, NEW n, c # x
      PROVE  EdgeIn(T, a, n, c) <=> EdgeIn(U, a, n, c)
  <2>1. ASSUME NEW t \in Slot
        PROVE  (T[a][t].kind = "dir" /\ T[a][t].name = n /\ T[a][t].cluster = c)
                 <=> (U[a][t].kind = "dir" /\ U[a][t].name = n /\ U[a][t].cluster = c)
    <3>1. CASE <<a, t>> = <<d, s>>
      BY <1>1, <3>1 DEF OnlyLeadsTo
    <3>2. CASE <<a, t>> # <<d, s>>
      BY <3>2 DEF KeptBut
    <3> QED
      BY <3>1, <3>2
  <2> QED
    BY <2>1 DEF EdgeIn
<1>2. SameEdges(T, U, x)
  BY <1>1 DEF SameEdges, Quiet
<1>3. ASSUME NEW e \in Cluster \X Slot, e # <<d, s>> PROVE Alike(T, h, U, h, e)
  <2>1. PICK a \in Cluster, t \in Slot : e = <<a, t>>
    OBVIOUS
  <2>2. EntryOf(U, e) = EntryOf(T, e)
    BY <1>3, <2>1 DEF KeptBut, EntryOf
  <2> QED
    BY <2>2 DEF Alike, Counts
<1>4. AlikeBut(T, h, U, h, {<<d, s>>})
  BY <1>3 DEF AlikeBut
<1> QED
  BY <1>2, <1>4

LEMMA BlankChange ==
  ASSUME Inv, f.pc \in {"zero", "initdir", "data"}, WriteTable, NEW h
  PROVE  SameEdges(table, table', 0) /\ \A e \in Cluster \X Slot : Alike(table, h, table', h, e)
<1>1. \A d \in Cluster, s \in Slot : Live(table'[d][s]) \/ Live(table[d][s]) => table'[d][s] = table[d][s]
  BY BlankEntries
<1>2. 0 \notin Cluster
  BY Marks
<1>3. ASSUME NEW a \in Cluster, NEW c \in Cluster, NEW n
      PROVE  EdgeIn(table, a, n, c) <=> EdgeIn(table', a, n, c)
  BY <1>1, Kinds DEF EdgeIn
<1>4. ASSUME NEW e \in Cluster \X Slot PROVE Alike(table, h, table', h, e)
  <2>1. PICK a \in Cluster, t \in Slot : e = <<a, t>>
    OBVIOUS
  <2>2. Live(EntryOf(table, e)) \/ Live(EntryOf(table', e)) => EntryOf(table', e) = EntryOf(table, e)
    BY <1>1, <2>1 DEF EntryOf
  <2> QED
    BY <2>2 DEF Alike, Counts
<1> QED
  BY <1>2, <1>3, <1>4 DEF SameEdges

-----------------------------------------------------------------------------
(* The writes of one entry *)

EntryLabels == {"entry", "update", "size", "delete"}

\* The entry the write is of, and the directory that comes or goes with it.
Target == IF f.op = "rename" /\ f.pc = "delete" THEN <<f.sdir, f.sslot>> ELSE <<f.dir, f.slot>>
Appearing == IF f.op = "mkdir" THEN f.new ELSE IF f.op = "rmdir" THEN f.first ELSE 0

LEMMA TargetWrite ==
  ASSUME Inv, f.pc \in EntryLabels, WriteTable
  PROVE  \E d \in Cluster, s \in Slot :
           /\ <<d, s>> = Target /\ KeptBut(table, table', d, s)
           /\ f.pc = "entry" => table'[d][s] = NewEntry /\ SlotFree(table[d][s])
           /\ f.pc \in {"update", "size"} =>
                /\ table[d][s].kind = "file" /\ table'[d][s].kind = "file"
                /\ table'[d][s].name = table[d][s].name /\ table'[d][s].size = f.size
                /\ f.op \in {"write", "truncate"}
           /\ f.pc = "delete" => /\ Live(table[d][s]) /\ ~Live(table'[d][s])
                                 /\ table[d][s].cluster = f.first
<1>1. CASE f.pc \in {"entry", "update", "size"}
  <2>1. /\ f.dir \in Cluster /\ f.slot \in Slot /\ OtherSlotsKept(f.dir, f.slot)
        /\ f.pc = "entry" => table'[f.dir][f.slot] = NewEntry /\ SlotFree(table[f.dir][f.slot])
        /\ f.pc \in {"update", "size"} => /\ f.op \in {"write", "truncate"}
                                          /\ table'[f.dir][f.slot].kind = "file"
                                          /\ table'[f.dir][f.slot].size = f.size
    BY <1>1, SlotWrite
  <2>2. KeptBut(table, table', f.dir, f.slot) /\ <<f.dir, f.slot>> = Target
    BY <1>1, <2>1 DEF OtherSlotsKept, KeptBut, Target
  <2>3. ASSUME f.pc \in {"update", "size"}
        PROVE  /\ table[f.dir][f.slot].kind = "file"
               /\ table'[f.dir][f.slot].name = table[f.dir][f.slot].name
    <3>1. table[f.dir][f.slot].kind = "file"
      BY <2>1, <2>3 DEF Inv, Sound, InProgress, WriteSound, TruncateSound, Subject
    <3>2. PICK d \in Cluster, s \in Slot : d = f.dir /\ s = f.slot
      BY <2>1
    <3>3. PICK n : n = table'[d][s].name
      OBVIOUS
    <3>4. Named(d, s, n)'
      BY <2>1, <2>3, <3>2, <3>3, Kinds DEF Named
    <3>5. Named(d, s, n)
      BY <2>3, <3>4, OtherWrites DEF Inv, TableSteps
    <3> QED
      BY <3>1, <3>2, <3>3, <3>5 DEF Named
  <2> QED
    BY <1>1, <2>1, <2>2, <2>3
<1>2. CASE f.pc = "delete"
  <2>1. PICK d \in Cluster, s \in Slot :
          /\ OtherSlotsKept(d, s) /\ ~Live(table'[d][s]) /\ Live(table[d][s])
          /\ table[d][s].cluster = f.first
          /\ <<d, s>> = IF f.op = "rename" THEN <<f.sdir, f.sslot>> ELSE <<f.dir, f.slot>>
    BY <1>2, SlotDelete
  <2>2. KeptBut(table, table', d, s) /\ <<d, s>> = Target
    BY <1>2, <2>1 DEF OtherSlotsKept, KeptBut, Target
  <2> QED
    BY <1>2, <2>1, <2>2
<1> QED
  BY <1>1, <1>2 DEF EntryLabels

LEMMA TargetEdges ==
  ASSUME Inv, StoreInv, f.pc \in EntryLabels, WriteTable,
         NEW d \in Cluster, NEW s \in Slot, <<d, s>> = Target
  PROVE  /\ Appearing # f.dir /\ Appearing # d /\ (f.op = "rename" => Appearing # f.sdir)
         /\ Quiet(table, Appearing) /\ Quiet(table', Appearing)
         /\ OnlyLeadsTo(table[d][s], Appearing) /\ OnlyLeadsTo(table'[d][s], Appearing)
<1>0. f.pc # "idle" /\ f.dir \in Cluster /\ table \in TableMap /\ Base(fat[1], table) /\ 0 \notin Cluster
      /\ f.op \in AllOps
  BY Volumes, Marks, Locals, WorkloadAssumption DEF EntryLabels, Inv, TypeInv, FrameTypes, Frame
<1>1. PICK e \in Cluster, t \in Slot :
         /\ <<e, t>> = Target /\ KeptBut(table, table', e, t)
         /\ f.pc = "entry" => table'[e][t] = NewEntry /\ SlotFree(table[e][t])
         /\ f.pc \in {"update", "size"} =>
              table[e][t].kind = "file" /\ table'[e][t].kind = "file"
              /\ f.op \in {"write", "truncate"}
         /\ f.pc = "delete" => /\ Live(table[e][t]) /\ ~Live(table'[e][t])
                               /\ table[e][t].cluster = f.first
  BY TargetWrite
<1>2. e = d /\ t = s
  BY <1>1
<1>3. CASE f.op = "mkdir"
  <2>1. f.pc = "entry" /\ FreshIn(fat[1], table, f.new) /\ f.new \in Cluster
    BY <1>3 DEF EntryLabels, Inv, Sound, InProgress, MkdirSound, TypeInv, FrameTypes
  <2>2. ~HomeIn(table, f.new) /\ HomeIn(table, f.dir)
    BY <1>0, <2>1, FreshNotHome DEF FreshIn, Inv, Sound, InProgress
  <2>3. \A u \in Slot : ~Live(table[f.new][u])
    BY <1>0, <2>1, <2>2 DEF Base, SoundTree
  <2>4. f.dir # f.new /\ d = f.dir
    BY <1>3, <2>2 DEF Target
  <2>5. \A u \in Slot : ~Live(table'[f.new][u])
    BY <1>1, <1>2, <2>1, <2>3, <2>4 DEF KeptBut
  <2>6. NewEntry.cluster = f.new
    BY <1>3, <2>1, EntryFields
  <2>7. table[d][s].kind # "dir" /\ table'[d][s].cluster = f.new
    BY <1>1, <1>2, <2>1, <2>6 DEF SlotFree
  <2> QED
    BY <1>3, <2>3, <2>4, <2>5, <2>7 DEF Appearing, Quiet, OnlyLeadsTo
<1>4. CASE f.op = "rmdir"
  <2>1. f.pc = "delete" /\ \A u \in Slot : f.first # 0 => ~Live(table[f.first][u])
    BY <1>4 DEF EntryLabels, Inv, Sound, InProgress, RemoveSound
  <2>2. d = f.dir /\ Live(table[d][s]) /\ ~Live(table'[d][s]) /\ table[d][s].cluster = f.first
    BY <1>1, <1>2, <1>4, <2>1 DEF Target
  <2>3. f.first # d
    BY <1>0, <2>1, <2>2
  <2>4. Quiet(table, f.first)
    BY <1>0, <2>1 DEF Quiet
  <2>5. Quiet(table', f.first)
    BY <1>1, <1>2, <2>3, <2>4 DEF Quiet, KeptBut
  <2>6. OnlyLeadsTo(table[d][s], f.first) /\ OnlyLeadsTo(table'[d][s], f.first)
    BY <2>2, Kinds DEF OnlyLeadsTo
  <2> QED
    BY <1>4, <2>2, <2>3, <2>4, <2>5, <2>6 DEF Appearing
<1>5. CASE f.op \notin {"mkdir", "rmdir"}
  <2>1. Appearing = 0 /\ 0 # f.dir /\ 0 # d /\ (f.op = "rename" => f.sdir # 0)
    BY <1>0, <1>5 DEF Appearing, Inv, TypeInv, FrameTypes
  <2>2. Quiet(table, 0) /\ Quiet(table', 0)
    BY <1>0 DEF Quiet
  <2>3. table[d][s].kind # "dir" /\ table'[d][s].kind # "dir"
    <3>1. CASE f.pc = "entry"
      <4>1. NewEntry.kind = "file"
        BY <1>5, <3>1, EntryFields
      <4> QED
        BY <1>1, <1>2, <3>1, <4>1 DEF SlotFree
    <3>2. CASE f.pc \in {"update", "size"}
      BY <1>1, <1>2, <3>2
    <3>3. CASE f.pc = "delete"
      <4>1. f.op \in {"remove", "rename"}
        BY <1>5, <3>3 DEF Inv, TypeInv, FrameTypes
      <4>2. table[d][s].kind = "file"
        <5>1. CASE f.op = "remove"
          BY <1>1, <1>2, <3>3, <5>1 DEF Target, Inv, Sound, InProgress, RemoveSound, Subject
        <5>2. CASE f.op = "rename"
          BY <1>1, <1>2, <3>3, <5>2 DEF Target, Inv, Sound, InProgress, RenameSound
        <5> QED
          BY <4>1, <5>1, <5>2
      <4> QED
        BY <1>1, <1>2, <3>3, <4>2, Kinds
    <3> QED
      BY <3>1, <3>2, <3>3 DEF EntryLabels
  <2> QED
    BY <2>1, <2>2, <2>3 DEF OnlyLeadsTo
<1> QED
  BY <1>3, <1>4, <1>5

-----------------------------------------------------------------------------
(* The names, sizes and directories of the operation in progress *)

LEMMA SizeValues == 0 \in Sizes /\ TruncSizes \subseteq Sizes /\ \A w \in Writes : w[1] + w[2] \in Sizes
  BY DEF Sizes

LEMMA CreateAims == ASSUME Inv, NamesInv, Create \/ Mkdir PROVE Aimed(table, f')
<1>1. TypeInv /\ UniqueNames /\ SoundEnds(table)
  BY Volumes DEF Inv, NamesInv, Base
<1>2. PICK d \in Parents : f'.dir = d /\ f'.size = 0 /\ f'.op \in {"create", "mkdir"}
  BY IdleFields DEF Create, Mkdir, Frame
<1> QED
  BY <1>1, <1>2, HomesAre DEF Aimed

LEMMA RemoveAims ==
  ASSUME Inv, NamesInv, Remove \/ RemoveDirectory
  PROVE  Aimed(table, f')
<1>1. TypeInv /\ UniqueNames /\ SoundEnds(table)
  BY Volumes DEF Inv, NamesInv, Base
<1>2. PICK d \in Parents, n \in Name : \E s \in Found(d, n) :
         /\ f'.op = IF Remove THEN "remove" ELSE "rmdir"
         /\ f'.dir = d /\ f'.slot = s
         /\ IF Remove THEN table[d][s].kind = "file" ELSE table[d][s].kind = "dir"
  BY <1>1, RemoveFrame
<1> QED
  BY <1>1, <1>2, HomesAre DEF Aimed, Subject

LEMMA RenameAims == ASSUME Inv, NamesInv, Rename PROVE Aimed(table, f')
<1>1. TypeInv /\ UniqueNames /\ SoundEnds(table)
  BY Volumes DEF Inv, NamesInv, Base
<1>2. PICK sd \in Parents, d \in Parents : f'.op = "rename" /\ f'.dir = d /\ f'.sdir = sd
  BY <1>1, RenameFrame
<1> QED
  BY <1>1, <1>2, HomesAre DEF Aimed

LEMMA WriteAims == ASSUME Inv, NamesInv, SizesKnown(table), Write PROVE Aimed(table, f')
<1>1. TypeInv /\ UniqueNames /\ SoundEnds(table) /\ table \in TableMap
  BY Volumes DEF Inv, NamesInv, Base
<1>2. PICK d \in Parents, n \in Name, w \in Writes, s \in Slot :
         /\ table[d][s].kind = "file" /\ w[1] <= table[d][s].size
         /\ f' = WriteFrom(d, n, s, w)
  BY FoundInSlot DEF Write
<1> DEFINE e == table[d][s]
           end == w[1] + w[2]
<1>3. d \in Cluster /\ e \in Entry /\ w[1] \in Nat /\ w[2] \in Nat
  BY <1>1, Entries, ParentsInCluster, WorkloadAssumption
<1>4. e.size \in Nat /\ end \in Nat /\ e.size \in Sizes /\ end \in Sizes
  BY <1>2, <1>3, SizeValues DEF Entry, SizesKnown
<1>5. f'.op = "write" /\ f'.dir = d /\ f'.slot = s /\ f'.size = IF end > e.size THEN end ELSE e.size
  BY <1>2, IdleFields DEF WriteFrom, Frame
<1>6. w[1] <= e.size
  BY <1>2
<1> HIDE DEF e, end
<1>7. ASSUME end > e.size PROVE <<e.size, end>> \in SizeChange
  <2>1. w[1] <= e.size /\ e.size < end /\ end = w[1] + w[2]
    BY <1>4, <1>6, <1>7 DEF end
  <2>2. <<e.size, end>> \in Sizes \X Sizes /\ <<e.size, end>>[1] = e.size /\ <<e.size, end>>[2] = end
    BY <1>4
  <2> QED
    BY <2>1, <2>2 DEF SizeChange
<1>8. f'.size \in Sizes /\ (f'.size = e.size \/ <<e.size, f'.size>> \in SizeChange)
  BY <1>4, <1>5, <1>7
<1>9. Subject(table, f') = e
  BY <1>5 DEF Subject, e
<1> QED
  BY <1>1, <1>5, <1>8, <1>9, HomesAre DEF Aimed, Resizes

LEMMA TruncateAims == ASSUME Inv, NamesInv, SizesKnown(table), Truncate PROVE Aimed(table, f')
<1>1. TypeInv /\ UniqueNames /\ SoundEnds(table)
  BY Volumes DEF Inv, NamesInv, Base
<1>2. PICK d \in Parents, n \in Name, size \in TruncSizes, s \in Slot :
         /\ table[d][s].kind = "file" /\ size < table[d][s].size
         /\ f' = TruncateFrom(d, n, s, size)
  BY FoundInSlot DEF Truncate
<1>3. f'.op = "truncate" /\ f'.dir = d /\ f'.slot = s /\ f'.size = size
  BY <1>2, IdleFields DEF TruncateFrom, Frame
<1>4. table[d][s].size \in Sizes /\ size \in Sizes
  BY <1>2, ParentsInCluster, SizeValues DEF SizesKnown
<1>5. <<table[d][s].size, size>> \in SizeChange
  BY <1>2, <1>4 DEF SizeChange
<1>6. Subject(table, f') = table[d][s]
  BY <1>3 DEF Subject
<1> QED
  BY <1>1, <1>3, <1>4, <1>5, <1>6, HomesAre DEF Aimed, Resizes

LEMMA CallAims == ASSUME Inv, NamesInv, StoreInv, Call PROVE StoreInv'
<1>1. table' = table
  BY BeginSound
<1>2. Aimed(table, f')
  BY CreateAims, RemoveAims, RenameAims, WriteAims, TruncateAims DEF Call, StoreInv
<1> QED
  BY <1>1, <1>2 DEF StoreInv

\* What an operation was called with stays until it ends, and a removal writes
\* its entry once.
LEMMA AimStays ==
  ASSUME TypeInv, Step \/ DeviceFails \/ Crash
  PROVE  \/ f' = Idle
         \/ /\ f'.op = f.op /\ f'.dir = f.dir /\ f'.slot = f.slot /\ f'.sdir = f.sdir
            /\ f'.sslot = f.sslot /\ f'.size = f.size
            /\ f.pc # "idle"
            /\ f'.op = "rmdir" => f'.pc # "delete"
<1>1. CASE Step
  <2>1. f.pc # "idle"
    BY <1>1 DEF Step, Allocate, DiskFull, Mark, ZeroCluster, Link, Undo, InitDirectory,
       WriteEntry, Walk, BrokenChain, WriteData, UpdateEntry, DeleteEntry, FreeLink, Seek, Cut,
       UpdateSize
  <2>2. f'.pc = "delete" => f' = Idle \/ WriteEntry
    <3>1. CASE Allocate \/ Mark \/ ZeroCluster \/ Link \/ Undo
      BY <3>1, IdleFields, AllocateFrame, MarkFrame, ZeroFrame, LinkFrame, UndoFrame
      DEF Moved, Allocate, Mark, ZeroCluster, Link, Undo
    <3>2. CASE InitDirectory \/ Walk \/ WriteData \/ DeleteEntry
      BY <3>2, InitDirectoryFrame, WalkFrame, WriteDataFrame, DeleteEntryFrame DEF Moved
    <3>3. CASE FreeLink \/ Seek \/ Cut
      BY <3>3, FreeFrame, SeekFrame, CutFrame DEF Moved, FreeLink, Cut, Seek
    <3>4. CASE DiskFull \/ BrokenChain \/ UpdateEntry \/ UpdateSize
      BY <3>4 DEF DiskFull, BrokenChain, UpdateEntry, UpdateSize, Done, GiveUp
    <3> QED
      BY <1>1, <3>1, <3>2, <3>3, <3>4 DEF Step
  <2>3. WriteEntry => f' = Idle \/ (f'.op = f.op /\ f.op = "rename")
    BY WriteEntryFrame DEF Moved
  <2> QED
    BY <1>1, <2>1, <2>2, <2>3, CallStays
<1>2. CASE DeviceFails
  BY <1>2, DeviceFailsFrame DEF Moved, DeviceFails
<1>3. CASE Crash
  BY <1>3 DEF Crash, GiveUp
<1> QED
  BY <1>1, <1>2, <1>3

\* The entries on disk have names in use and sizes the calls asked for.
LEMMA NamesStay ==
  ASSUME Inv, StoreInv, Moving, WriteTable, f.pc \in TableSteps
  PROVE  NamesKnown(table') /\ SizesKnown(table')
<1>1. CASE f.pc \in {"zero", "initdir", "data"}
  <2>1. \A d \in Cluster, s \in Slot : Live(table'[d][s]) => table'[d][s] = table[d][s]
    BY <1>1, BlankEntries
  <2> QED
    BY <2>1, Kinds DEF StoreInv, NamesKnown, SizesKnown
<1>2. CASE f.pc \in EntryLabels
  <2>1. PICK d \in Cluster, s \in Slot :
           /\ <<d, s>> = Target /\ KeptBut(table, table', d, s)
           /\ f.pc = "entry" => table'[d][s] = NewEntry
           /\ f.pc \in {"update", "size"} =>
                /\ table[d][s].kind = "file" /\ table'[d][s].kind = "file"
                /\ table'[d][s].name = table[d][s].name /\ table'[d][s].size = f.size
                /\ f.op \in {"write", "truncate"}
           /\ f.pc = "delete" => ~Live(table'[d][s])
    BY <1>2, TargetWrite
  <2>2. /\ Live(table'[d][s]) => table'[d][s].name \in Name
        /\ table'[d][s].kind = "file" => table'[d][s].size \in Sizes
    <3>1. CASE f.pc = "entry"
      <4>1. NewEntry.name = f.name /\ NewEntry.size = f.size
        BY DEF NewEntry
      <4>2. f.name \in Name /\ f.op \in {"create", "mkdir", "rename"}
        BY <3>1 DEF Inv, TypeInv, FrameTypes
      <4>3. f.size \in Sizes
        <5>1. CASE f.op = "rename"
          <6>1. f.sdir \in Cluster /\ f.sslot \in Slot
            BY <5>1, Locals DEF Inv, TypeInv, FrameTypes
          <6> QED
            BY <5>1, <6>1 DEF Moving, SameFile, StoreInv, SizesKnown
        <5>2. CASE f.op \in {"create", "mkdir"}
          BY <5>2, SizeValues DEF StoreInv, Aimed
        <5> QED
          BY <4>2, <5>1, <5>2
      <4> QED
        BY <2>1, <3>1, <4>1, <4>2, <4>3
    <3>2. CASE f.pc \in {"update", "size"}
      <4>1. table[d][s].name \in Name
        BY <2>1, <3>2, Kinds DEF StoreInv, NamesKnown
      <4>2. f.size \in Sizes
        BY <2>1, <3>2 DEF StoreInv, Aimed, Resizes
      <4> QED
        BY <2>1, <3>2, <4>1, <4>2
    <3>3. CASE f.pc = "delete"
      BY <2>1, <3>3, Kinds
    <3> QED
      BY <1>2, <3>1, <3>2, <3>3 DEF EntryLabels
  <2>3. ASSUME NEW e \in Cluster, NEW t \in Slot
        PROVE  /\ Live(table'[e][t]) => table'[e][t].name \in Name
               /\ table'[e][t].kind = "file" => table'[e][t].size \in Sizes
    <3>1. CASE e = d /\ t = s
      BY <2>2, <3>1
    <3>2. CASE <<e, t>> # <<d, s>>
      BY <2>1, <3>2 DEF KeptBut, StoreInv, NamesKnown, SizesKnown
    <3> QED
      BY <3>1, <3>2
  <2> QED
    BY <2>3 DEF NamesKnown, SizesKnown
<1> QED
  BY <1>1, <1>2 DEF TableSteps, EntryLabels

\* The directories of the operation in progress stay in the tree.
LEMMA HomesKept ==
  ASSUME Inv, StoreInv, WriteTable, f.pc \in TableSteps
  PROVE  HomesIn(table', f.dir) /\ (f.op = "rename" => HomesIn(table', f.sdir))
<1>1. /\ f.dir # 0 /\ HomesIn(table, f.dir) /\ 0 \notin Cluster
      /\ f.op = "rename" => f.sdir # 0 /\ HomesIn(table, f.sdir)
  BY Marks DEF TableSteps, Inv, TypeInv, FrameTypes, StoreInv, Aimed
<1>2. CASE f.pc \in {"zero", "initdir", "data"}
  <2>1. SameEdges(table, table', 0)
    BY <1>2, BlankChange
  <2> QED
    BY <1>1, <2>1, HomesStay
<1>3. CASE f.pc \in EntryLabels
  <2>1. PICK d \in Cluster, s \in Slot : <<d, s>> = Target /\ KeptBut(table, table', d, s)
    BY <1>3, TargetWrite
  <2>2. /\ Appearing # f.dir /\ (f.op = "rename" => Appearing # f.sdir)
        /\ Quiet(table, Appearing) /\ Quiet(table', Appearing)
        /\ OnlyLeadsTo(table[d][s], Appearing) /\ OnlyLeadsTo(table'[d][s], Appearing)
    BY <1>3, <2>1, TargetEdges
  <2>3. SameEdges(table, table', Appearing)
    BY <2>1, <2>2, SlotChange
  <2> QED
    BY <1>1, <2>2, <2>3, HomesStay
<1> QED
  BY <1>2, <1>3 DEF TableSteps, EntryLabels

\* A step that writes a table and does not end its operation leaves the file a
\* write or a truncation is of.
LEMMA SubjectStays ==
  ASSUME Tame, Inv, StoreInv, Step \/ DeviceFails \/ Crash, WriteTable, f.pc \in TableSteps,
         f' # Idle, f.op \in {"write", "truncate"}
  PROVE  Subject(table', f) = Subject(table, f)
<1>1. /\ f.dir \in Cluster /\ f.slot \in Slot /\ Live(Subject(table, f))
  BY Locals, Kinds DEF TableSteps, Inv, TypeInv, FrameTypes, Sound, InProgress, WriteSound, TruncateSound
<1>2. f.pc \notin {"update", "size"}
  <2>1. SUFFICES ASSUME f.pc \in {"update", "size"} PROVE FALSE
    OBVIOUS
  <2>2. CASE Step
    <3>1. UpdateEntry \/ UpdateSize
      BY <2>1, <2>2 DEF Step, Allocate, DiskFull, Mark, ZeroCluster, Link, Undo, InitDirectory,
         WriteEntry, Walk, BrokenChain, WriteData, DeleteEntry, FreeLink, Seek, Cut
    <3> QED
      BY <3>1 DEF UpdateEntry, UpdateSize, Done
  <2>3. CASE DeviceFails
    BY <2>1, <2>3 DEF DeviceFails, RollsBack
  <2>4. CASE Crash
    BY <2>4 DEF Crash, GiveUp
  <2> QED
    BY <2>2, <2>3, <2>4
<1>3. f.pc \notin {"entry", "delete"}
  BY DEF Inv, TypeInv, FrameTypes
<1>4. f.pc \in {"zero", "initdir", "data"}
  BY <1>2, <1>3 DEF TableSteps
<1> QED
  BY <1>1, <1>4, BlankEntries DEF Subject

LEMMA StoreStep ==
  ASSUME Tame, Inv, NamesInv, Moving, StoreInv, Next
  PROVE  StoreInv'
<1>1. CASE Call
  BY <1>1, CallAims
<1>2. CASE Step \/ DeviceFails \/ Crash
  <2>1. table' = table \/ (WriteTable /\ f.pc \in TableSteps)
    BY <1>2, TableWrites DEF Inv
  <2>2. NamesKnown(table') /\ SizesKnown(table')
    BY <2>1, NamesStay DEF StoreInv
  <2>3. CASE f' = Idle
    BY <2>2, <2>3, IdleFields DEF StoreInv, Aimed
  <2>4. CASE f' # Idle
    <3>1. /\ f'.op = f.op /\ f'.dir = f.dir /\ f'.slot = f.slot /\ f'.sdir = f.sdir
          /\ f'.size = f.size /\ f.pc # "idle" /\ (f'.op = "rmdir" => f'.pc # "delete")
      BY <1>2, <2>4, AimStays DEF Inv
    <3>2. HomesIn(table', f.dir) /\ (f.op = "rename" => HomesIn(table', f.sdir))
      BY <2>1, <3>1, HomesKept DEF StoreInv, Aimed
    <3>3. f.op \in {"write", "truncate"} => Subject(table', f') = Subject(table, f)
      <4>1. Subject(table', f') = Subject(table', f)
        BY <3>1 DEF Subject
      <4> QED
        BY <1>2, <2>1, <2>4, <4>1, SubjectStays
    <3>4. f.op \in {"write", "truncate"} => Resizes(table', f')
      BY <3>1, <3>3 DEF StoreInv, Aimed, Resizes
    <3>5. f.op \in {"create", "mkdir"} => f'.size = 0
      BY <3>1 DEF StoreInv, Aimed
    <3>6. Aimed(table', f')
      BY <3>1, <3>2, <3>4, <3>5 DEF Aimed
    <3> QED
      BY <2>2, <3>6 DEF StoreInv
  <2> QED
    BY <2>3, <2>4
<1> QED
  BY <1>1, <1>2 DEF Next

LEMMA StoreBegins == Init => StoreInv
<1> SUFFICES ASSUME Init PROVE StoreInv
  OBVIOUS
<1>1. \A d \in Cluster, s \in Slot : table[d][s].kind # "file" /\ ~Live(table[d][s])
  BY Kinds DEF Init, Zeroed
<1> QED
  BY <1>1, IdleFields DEF Init, StoreInv, NamesKnown, SizesKnown, Aimed

-----------------------------------------------------------------------------
(* The calls of the store, from what the tree is before and after *)

\* The trees F and G differ at p only.
DifferAt(F, G, p) ==
  /\ F = [r \in DOMAIN F |-> F[r]] /\ G = [r \in DOMAIN G |-> G[r]]
  /\ \A r : r # p => (r \in DOMAIN F <=> r \in DOMAIN G)
  /\ \A r \in DOMAIN F : r # p => G[r] = F[r]

Put(F, p, v) == [r \in DOMAIN F \cup {p} |-> IF r = p THEN v ELSE F[r]]

LEMMA TreeWith ==
  ASSUME NEW F, NEW G, NEW p, DifferAt(F, G, p), p \in DOMAIN G
  PROVE  G = Put(F, p, G[p])
<1>1. DOMAIN G = DOMAIN F \cup {p}
  BY DEF DifferAt
<1>2. \A r \in DOMAIN G : G[r] = IF r = p THEN G[p] ELSE F[r]
  BY <1>1 DEF DifferAt
<1>3. G = [r \in DOMAIN G |-> G[r]]
  BY DEF DifferAt
<1>4. G = [r \in DOMAIN G |-> IF r = p THEN G[p] ELSE F[r]]
  BY <1>2, <1>3
<1> QED
  BY <1>1, <1>4 DEF Put

LEMMA TreeWithout ==
  ASSUME NEW F, NEW G, NEW p, DifferAt(F, G, p), p \notin DOMAIN G
  PROVE  G = [r \in DOMAIN F \ {p} |-> F[r]]
<1>1. DOMAIN G = DOMAIN F \ {p}
  BY DEF DifferAt
<1>2. \A r \in DOMAIN G : G[r] = F[r]
  BY <1>1 DEF DifferAt
<1>3. G = [r \in DOMAIN G |-> G[r]]
  BY DEF DifferAt
<1>4. G = [r \in DOMAIN G |-> F[r]]
  BY <1>2, <1>3
<1> QED
  BY <1>1, <1>4

LEMMA SameTree ==
  ASSUME NEW F, NEW G, NEW p, DifferAt(F, G, p), p \in DOMAIN F, p \in DOMAIN G, F[p] = G[p]
  PROVE  G = F
<1>1. DOMAIN G = DOMAIN F
  BY DEF DifferAt
<1>2. \A r \in DOMAIN G : G[r] = F[r]
  BY <1>1 DEF DifferAt
<1>3. G = [r \in DOMAIN G |-> G[r]] /\ F = [r \in DOMAIN F |-> F[r]]
  BY DEF DifferAt
<1> QED
  BY <1>1, <1>2, <1>3

Move(F, p, q) == [r \in (DOMAIN F \ {p}) \cup {q} |-> IF r = q THEN F[p] ELSE F[r]]

\* A file leaves p for q: first it is at q too, then no longer at p.
LEMMA TreeMoves ==
  ASSUME NEW F, NEW H, NEW G, NEW p, NEW q, p # q, DifferAt(F, H, q), DifferAt(H, G, p),
         p \in DOMAIN F, q \in DOMAIN H, p \notin DOMAIN G, H[q] = F[p]
  PROVE  G = Move(F, p, q)
<1>1. DOMAIN G = (DOMAIN F \ {p}) \cup {q}
  BY DEF DifferAt
<1>2. ASSUME NEW r \in DOMAIN G PROVE G[r] = IF r = q THEN F[p] ELSE F[r]
  BY <1>1, <1>2 DEF DifferAt
<1>3. G = [r \in DOMAIN G |-> G[r]]
  BY DEF DifferAt
<1>4. G = [r \in DOMAIN G |-> IF r = q THEN F[p] ELSE F[r]]
  BY <1>2, <1>3
<1> QED
  BY <1>1, <1>4 DEF Move

LEMMA StorePaths == /\ NonRoot \subseteq Store!Paths
                    /\ \A p : Store!Parent(p) = ParentOf(p)
                    /\ Store!Directory = [kind |-> "dir", data |-> 0]
                    /\ \A n : Store!FileOf(n) = [kind |-> "file", data |-> n]
                    /\ Store!RootPath = <<>>
<1>1. \A k \in 1..(MaxDepth + 1) : k \in 0..(MaxDepth + 1)
  BY WorkloadAssumption
<1>2. NonRoot \subseteq Store!Paths
  BY <1>1 DEF NonRoot, Store!Paths
<1> QED
  BY <1>2 DEF Store!Parent, ParentOf, Store!Directory, Store!FileOf, Store!RootPath

\* The trees F and G, when the entry e at the path p becomes g.
Changes(F, G, p, e, g) ==
  /\ p \in NonRoot /\ DifferAt(F, G, p)
  /\ Live(e) => p \in DOMAIN F /\ F[p] = NodeOf(e)
  /\ Live(g) => p \in DOMAIN G /\ G[p] = NodeOf(g)
  /\ ~Live(e) /\ Live(g) => p \notin DOMAIN F
  /\ Live(e) /\ ~Live(g) => p \notin DOMAIN G

NoEntry == <<0, 0>>
NamedIfLive(e, n) == Live(e) => e.name = n

LEMMA CountsAll == ASSUME NEW T, NEW d \in Cluster, NEW s
                   PROVE  Counts(T, NoEntry, <<d, s>>) <=> Live(T[d][s])
  BY Marks DEF Counts, EntryOf, NoEntry

LEMMA EntryChange ==
  ASSUME NEW T, NEW U, Treelike(T), Treelike(U), NEW d \in Cluster, NEW s \in Slot,
         KeptBut(T, U, d, s), NEW x, Quiet(T, x), Quiet(U, x), OnlyLeadsTo(T[d][s], x),
         OnlyLeadsTo(U[d][s], x), d # x, NEW q \in Path, EndIn(T, q, d), NEW n \in Name,
         NamedIfLive(T[d][s], n), NamedIfLive(U[d][s], n)
  PROVE  Changes(TreeOf(T, NoEntry), TreeOf(U, NoEntry), Append(q, n), T[d][s], U[d][s])
<1> DEFINE F == TreeOf(T, NoEntry)
           G == TreeOf(U, NoEntry)
           p == Append(q, n)
<1>1. SameEdges(T, U, x) /\ AlikeBut(T, NoEntry, U, NoEntry, {<<d, s>>})
  BY SlotChange
<1>2. /\ Counts(T, NoEntry, <<d, s>>) <=> Live(T[d][s])
      /\ Counts(U, NoEntry, <<d, s>>) <=> Live(U[d][s])
  BY CountsAll
<1>3. NamedIfCounted(T, NoEntry, d, s, n) /\ NamedIfCounted(U, NoEntry, d, s, n)
  BY <1>2 DEF NamedIfCounted, NamedIfLive
<1>4. /\ p \in NonRoot
      /\ \A r : r # p => (r \in DOMAIN F <=> r \in DOMAIN G)
      /\ \A r \in DOMAIN F : r # p => G[r] = F[r]
      /\ Counts(T, NoEntry, <<d, s>>) => p \in DOMAIN F /\ F[p] = NodeOf(T[d][s])
      /\ Counts(U, NoEntry, <<d, s>>) => p \in DOMAIN G /\ G[p] = NodeOf(U[d][s])
      /\ ~Counts(T, NoEntry, <<d, s>>) /\ Counts(U, NoEntry, <<d, s>>) => p \notin DOMAIN F
      /\ Counts(T, NoEntry, <<d, s>>) /\ ~Counts(U, NoEntry, <<d, s>>) => p \notin DOMAIN G
  BY <1>1, <1>3, TreeChangesAt
<1>5. F = [r \in DOMAIN F |-> F[r]] /\ G = [r \in DOMAIN G |-> G[r]]
  BY TreeIsFunction
<1> HIDE DEF F, G, p
<1>6. DifferAt(F, G, p)
  BY <1>4, <1>5 DEF DifferAt
<1>7. Changes(F, G, p, T[d][s], U[d][s])
  BY <1>2, <1>4, <1>6 DEF Changes
<1> QED
  BY <1>7 DEF F, G, p

Before == Inv /\ NamesInv /\ Moving /\ StoreInv /\ TreeInv /\ Treelike(table)
Afterwards == Treelike(table)' /\ TreeInv'

\* The same for the write of an operation other than a rename.
LEMMA TargetChange ==
  ASSUME Before, Afterwards, f.op # "rename", f'.op # "rename",
         f.pc \in EntryLabels, WriteTable,
         NEW n \in Name, NamedIfLive(table[f.dir][f.slot], n), NamedIfLive(table'[f.dir][f.slot], n)
  PROVE  \E q \in Path :
           /\ EndIn(table, q, f.dir)
           /\ Changes(VolumeTree, VolumeTree', Append(q, n), table[f.dir][f.slot],
                      table'[f.dir][f.slot])
           /\ q \in DOMAIN VolumeTree /\ VolumeTree[q] = Store!Directory
<1>1. VolumeTree = TreeOf(table, NoEntry)
  BY DEF Before, TreeInv, Hidden, NoEntry
<1>2. VolumeTree' = TreeOf(table', NoEntry)
  BY DEF Afterwards, TreeInv, Hidden, NoEntry
<1>3. PICK d \in Cluster, s \in Slot : <<d, s>> = Target /\ KeptBut(table, table', d, s)
  BY TargetWrite DEF Before
<1>4. d = f.dir /\ s = f.slot
  BY <1>3 DEF Target
<1>5. /\ Appearing # d
      /\ Quiet(table, Appearing) /\ Quiet(table', Appearing)
      /\ OnlyLeadsTo(table[d][s], Appearing) /\ OnlyLeadsTo(table'[d][s], Appearing)
  BY <1>3, TargetEdges DEF Before
<1>6. PICK q \in Path : EndIn(table, q, d)
  BY <1>4 DEF Before, StoreInv, Aimed, EntryLabels, HomesIn
<1>7. Treelike(table) /\ Treelike(table')
  BY DEF Before, Afterwards
<1>8. Changes(TreeOf(table, NoEntry), TreeOf(table', NoEntry), Append(q, n), table[d][s], table'[d][s])
  BY <1>3, <1>4, <1>5, <1>6, <1>7, EntryChange
<1>9. \A a \in Cluster, b \in Slot : table[a][b].kind = "dir" => <<a, b>> # NoEntry
  BY Marks DEF NoEntry
<1>10. q \in DOMAIN TreeOf(table, NoEntry) /\ TreeOf(table, NoEntry)[q] = [kind |-> "dir", data |-> 0]
  BY <1>6, <1>7, <1>9, DirectoryInTree
<1> QED
  BY <1>1, <1>2, <1>4, <1>6, <1>8, <1>10, StorePaths

LEMMA ParentIs == ASSUME NEW q \in Path, NEW n \in Name PROVE Store!Parent(Append(q, n)) = q
  BY AppendFacts, StorePaths

LEMMA MakeEffect ==
  ASSUME Before, Afterwards, f.op \in {"create", "mkdir"}, f.pc = "entry", f'.op # "rename",
         WriteTable, table' # table
  PROVE  TakesEffect
<1>1. /\ f.name \in Name /\ f.dir \in Cluster /\ f.slot \in Slot
      /\ table'[f.dir][f.slot] = NewEntry /\ SlotFree(table[f.dir][f.slot])
  BY SlotWrite DEF Before, Inv, TypeInv, FrameTypes
<1>2. /\ NewEntry.name = f.name /\ NewEntry.size = f.size /\ f.size = 0
      /\ NewEntry.kind = IF f.op = "mkdir" THEN "dir" ELSE "file"
  BY DEF NewEntry, Before, StoreInv, Aimed
<1>3. ~Live(table[f.dir][f.slot]) /\ Live(table'[f.dir][f.slot])
  BY <1>1, <1>2, Kinds
<1>4. NamedIfLive(table[f.dir][f.slot], f.name) /\ NamedIfLive(table'[f.dir][f.slot], f.name)
  BY <1>1, <1>2, <1>3 DEF NamedIfLive
<1>5. PICK q \in Path :
         /\ Changes(VolumeTree, VolumeTree', Append(q, f.name), table[f.dir][f.slot],
                    table'[f.dir][f.slot])
         /\ q \in DOMAIN VolumeTree /\ VolumeTree[q] = Store!Directory
  BY <1>1, <1>4, TargetChange DEF EntryLabels
<1>6. PICK p \in NonRoot : p = Append(q, f.name) /\ Store!Parent(p) = q /\ p # <<>>
  BY <1>1, <1>5, ParentIs, PathFacts DEF Changes
<1>7. /\ DifferAt(VolumeTree, VolumeTree', p) /\ p \in DOMAIN VolumeTree' /\ p \notin DOMAIN VolumeTree
      /\ VolumeTree'[p] = NodeOf(NewEntry)
  BY <1>1, <1>3, <1>5, <1>6 DEF Changes
<1>8. NodeOf(NewEntry) = IF f.op = "mkdir" THEN Store!Directory ELSE Store!FileOf(0)
  BY <1>2, StorePaths DEF NodeOf
<1>9. VolumeTree' = Put(VolumeTree, p, VolumeTree'[p])
  BY <1>7, TreeWith
<1>10. Store!CanMake(p)
  BY <1>5, <1>6, <1>7, StorePaths DEF Store!CanMake, Store!Exists, Store!IsDirectory
<1>11. VolumeTree' = Store!With(p, VolumeTree'[p])
  BY <1>9 DEF Store!With, Put
<1>12. p \in Store!Paths
  BY StorePaths
<1>13. CASE f.op = "create"
  BY <1>7, <1>8, <1>10, <1>11, <1>12, <1>13 DEF TakesEffect, Store!CreateFile
<1>14. CASE f.op = "mkdir"
  BY <1>7, <1>8, <1>10, <1>11, <1>12, <1>14 DEF TakesEffect, Store!MakeDirectory
<1> QED
  BY <1>13, <1>14

\* A rewritten entry is at the same path; if its size is the same, so is the tree.
LEMMA ResizeEffect ==
  ASSUME Before, Afterwards, f.op \in {"write", "truncate"}, f.pc \in {"update", "size"},
         f'.op # "rename", WriteTable, table' # table
  PROVE  TakesEffect \/ VolumeTree' = VolumeTree
<1>1. PICK d \in Cluster, s \in Slot :
         /\ <<d, s>> = Target
         /\ table[d][s].kind = "file" /\ table'[d][s].kind = "file"
         /\ table'[d][s].name = table[d][s].name /\ table'[d][s].size = f.size
  BY TargetWrite DEF Before, EntryLabels
<1>2. d = f.dir /\ s = f.slot
  BY <1>1 DEF Target
<1> DEFINE e == table[d][s]
           g == table'[d][s]
           n == e.name
<1>3. Live(e) /\ Live(g) /\ n \in Name
  BY <1>1, Kinds DEF Before, StoreInv, NamesKnown
<1>4. NamedIfLive(e, n) /\ NamedIfLive(g, n)
  BY <1>1 DEF NamedIfLive
<1>5. NodeOf(e) = Store!FileOf(e.size) /\ NodeOf(g) = Store!FileOf(f.size)
  BY <1>1, StorePaths DEF NodeOf
<1>6. f.size \in Sizes /\ (f.size = e.size \/ <<e.size, f.size>> \in SizeChange)
  BY <1>2 DEF Before, StoreInv, Aimed, Resizes, Subject
<1> HIDE DEF e, g, n
<1>7. PICK q \in Path : Changes(VolumeTree, VolumeTree', Append(q, n), e, g)
  BY <1>2, <1>3, <1>4, TargetChange DEF EntryLabels, e, g
<1>8. PICK p \in NonRoot : p = Append(q, n)
  BY <1>7 DEF Changes
<1>9. /\ DifferAt(VolumeTree, VolumeTree', p) /\ p \in DOMAIN VolumeTree' /\ p \in DOMAIN VolumeTree
      /\ VolumeTree[p] = Store!FileOf(e.size) /\ VolumeTree'[p] = Store!FileOf(f.size)
  BY <1>3, <1>5, <1>7, <1>8 DEF Changes
<1>10. CASE f.size = e.size
  BY <1>9, <1>10, SameTree
<1>11. CASE <<e.size, f.size>> \in SizeChange
  <2>1. VolumeTree' = Put(VolumeTree, p, VolumeTree'[p])
    BY <1>9, TreeWith
  <2>2. VolumeTree' = Store!With(p, Store!FileOf(f.size))
    BY <1>9, <2>1 DEF Store!With, Put
  <2>3. VolumeTree[p].kind = "file" /\ VolumeTree[p].data = e.size
    BY <1>9, StorePaths
  <2>4. Store!IsFile(p)
    BY <1>9, <2>3 DEF Store!IsFile, Store!Exists
  <2>5. Store!ChangeData(p)
    BY <1>6, <1>11, <2>2, <2>3, <2>4 DEF Store!ChangeData, Store!SetData
  <2>6. p \in Store!Paths
    BY StorePaths
  <2> QED
    BY <2>5, <2>6 DEF TakesEffect
<1> QED
  BY <1>6, <1>10, <1>11

LEMMA RemoveEffect ==
  ASSUME Before, Afterwards, f.op \in {"remove", "rmdir"}, f.pc = "delete", f'.op # "rename",
         WriteTable, table' # table
  PROVE  TakesEffect
<1>1. PICK d \in Cluster, s \in Slot :
         /\ <<d, s>> = Target /\ Live(table[d][s]) /\ ~Live(table'[d][s])
         /\ table[d][s].cluster = f.first
  BY TargetWrite DEF Before, EntryLabels
<1>2. d = f.dir /\ s = f.slot
  BY <1>1 DEF Target
<1> DEFINE e == table[d][s]
           g == table'[d][s]
           n == e.name
<1>3. n \in Name
  BY <1>1 DEF Before, StoreInv, NamesKnown
<1>4. NamedIfLive(e, n) /\ NamedIfLive(g, n) /\ Live(e) /\ ~Live(g)
  BY <1>1 DEF NamedIfLive
<1>5. /\ f.op = "remove" => e.kind = "file"
      /\ f.op = "rmdir" => e.kind = "dir"
  BY <1>2 DEF Before, StoreInv, Aimed, Subject, Inv, Sound, InProgress, RemoveSound
<1>6. e.cluster = f.first /\ e.name = n
  BY <1>1
<1>7. EdgeIn(table, d, n, f.first) \/ e.kind # "dir"
  BY <1>6 DEF EdgeIn
<1> HIDE DEF e, g, n
<1>8. PICK q \in Path : EndIn(table, q, d) /\ Changes(VolumeTree, VolumeTree', Append(q, n), e, g)
  BY <1>2, <1>3, <1>4, TargetChange DEF EntryLabels, e, g
<1>9. PICK p \in NonRoot : p = Append(q, n) /\ p # <<>>
  BY <1>8, PathFacts DEF Changes
<1>10. /\ DifferAt(VolumeTree, VolumeTree', p) /\ p \in DOMAIN VolumeTree /\ p \notin DOMAIN VolumeTree'
       /\ VolumeTree[p] = NodeOf(e)
  BY <1>4, <1>8, <1>9 DEF Changes
<1>11. VolumeTree' = [r \in DOMAIN VolumeTree \ {p} |-> VolumeTree[r]]
  BY <1>10, TreeWithout
<1>12. VolumeTree' = Store!Without(p) /\ p \in Store!Paths
  BY <1>11, StorePaths DEF Store!Without
<1>13. CASE f.op = "remove"
  <2>1. VolumeTree[p].kind = "file"
    BY <1>5, <1>10, <1>13 DEF NodeOf
  <2>2. Store!RemoveFile(p)
    BY <1>10, <1>12, <2>1 DEF Store!RemoveFile, Store!IsFile, Store!Exists
  <2> QED
    BY <1>12, <1>13, <2>2 DEF TakesEffect
<1>14. CASE f.op = "rmdir"
  <2>1. VolumeTree[p] = Store!Directory
    BY <1>5, <1>10, <1>14, StorePaths DEF NodeOf
  <2>2. /\ table \in TableMap /\ Treelike(table) /\ VolumeTree = TreeOf(table, NoEntry)
    BY <1>14 DEF Before, Treelike, TreeInv, Hidden, NoEntry
  <2>3. f.first \in Cluster /\ \A t \in Slot : ~Live(table[f.first][t])
    <3>1. f.first \in Cluster /\ f.first # 0
      BY <1>5, <1>6, <1>14, <2>2, Marks DEF Treelike, OneEntryEach, e
    <3> QED
      BY <1>14, <3>1 DEF Before, Inv, Sound, InProgress, RemoveSound
  <2>4. EndIn(table, p, f.first)
    BY <1>3, <1>5, <1>7, <1>8, <1>9, <1>14, <2>3, NextTrail
  <2>5. \A r \in DOMAIN VolumeTree : r # <<>> => ParentOf(r) # p
    BY <2>2, <2>3, <2>4, NothingUnder
  <2>6. Store!Children(p) = {}
    BY <2>5, StorePaths DEF Store!Children
  <2>7. Store!RemoveEmptyDirectory(p)
    BY <1>9, <1>10, <1>12, <2>1, <2>6, StorePaths
    DEF Store!RemoveEmptyDirectory, Store!IsEmptyDirectory, Store!IsDirectory, Store!Exists
  <2> QED
    BY <1>12, <1>14, <2>7 DEF TakesEffect
<1> QED
  BY <1>13, <1>14

\* An entry that no longer counts leaves the tree.
LEMMA EntryHides ==
  ASSUME NEW U, Treelike(U), NEW d \in Cluster, NEW s \in Slot, Live(U[d][s]),
         NEW q \in Path, EndIn(U, q, d), NEW n \in Name, U[d][s].name = n
  PROVE  /\ DifferAt(TreeOf(U, NoEntry), TreeOf(U, <<d, s>>), Append(q, n))
         /\ Append(q, n) \notin DOMAIN TreeOf(U, <<d, s>>)
<1> DEFINE k == <<d, s>>
           F == TreeOf(U, NoEntry)
           G == TreeOf(U, k)
           p == Append(q, n)
<1>1. 0 \notin Cluster /\ d # 0
  BY Marks
<1>2. SameEdges(U, U, 0)
  BY <1>1 DEF SameEdges
<1>3. Counts(U, NoEntry, k) /\ ~Counts(U, k, k)
  BY CountsAll DEF Counts
<1>4. ASSUME NEW e \in Cluster \X Slot, e # k PROVE Alike(U, NoEntry, U, k, e)
  <2>1. e # NoEntry
    BY <1>1 DEF NoEntry
  <2> QED
    BY <1>4, <2>1 DEF Alike, Counts
<1>5. AlikeBut(U, NoEntry, U, k, {<<d, s>>})
  BY <1>4 DEF AlikeBut
<1>6. NamedIfCounted(U, NoEntry, d, s, n) /\ NamedIfCounted(U, k, d, s, n)
  BY DEF NamedIfCounted
<1>7. /\ \A r : r # p => (r \in DOMAIN F <=> r \in DOMAIN G)
      /\ \A r \in DOMAIN F : r # p => G[r] = F[r]
      /\ Counts(U, NoEntry, <<d, s>>) /\ ~Counts(U, k, <<d, s>>) => p \notin DOMAIN G
  BY <1>1, <1>2, <1>5, <1>6, TreeChangesAt
<1>8. F = [r \in DOMAIN F |-> F[r]] /\ G = [r \in DOMAIN G |-> G[r]]
  BY TreeIsFunction
<1> HIDE DEF F, G, p
<1>9. DifferAt(F, G, p) /\ p \notin DOMAIN G
  BY <1>3, <1>7, <1>8 DEF DifferAt, k
<1> QED
  BY <1>9 DEF F, G, p, k

\* The path of an entry.
LEMMA EntryHere ==
  ASSUME NEW T, Treelike(T), NEW d \in Cluster, NEW s \in Slot, Live(T[d][s]),
         NEW q \in Path, EndIn(T, q, d), NEW n \in Name, T[d][s].name = n
  PROVE  /\ Append(q, n) \in NonRoot /\ <<d, s>> \in EntrySet(T, NoEntry, Append(q, n))
         /\ Append(q, n) \in DOMAIN TreeOf(T, NoEntry)
         /\ TreeOf(T, NoEntry)[Append(q, n)] = NodeOf(T[d][s])
<1>1. Append(q, n) \in NonRoot
  BY AppendFacts
<1>2. Counts(T, NoEntry, <<d, s>>) /\ NamedIfCounted(T, NoEntry, d, s, n)
  BY CountsAll DEF NamedIfCounted
<1>3. <<d, s>> \in EntrySet(T, NoEntry, Append(q, n))
  BY <1>1, <1>2, EntryAt
<1>4. EntryOf(T, <<d, s>>) = T[d][s]
  BY DEF EntryOf
<1> QED
  BY <1>1, <1>3, <1>4, TreeAt

LEMMA RenameEffect ==
  ASSUME Before, Afterwards, f.op = "rename", f.pc = "entry", WriteTable,
         f'.op = "rename", f'.pc = "delete", f'.sdir = f.sdir, f'.sslot = f.sslot
  PROVE  TakesEffect
<1>0. Inv /\ TypeInv /\ Moving /\ Treelike(table) /\ Treelike(table')
  BY DEF Before, Afterwards, Inv
<1> DEFINE F == TreeOf(table, NoEntry)
           H == TreeOf(table', NoEntry)
           G == TreeOf(table', <<f.sdir, f.sslot>>)
<1>1. VolumeTree = F /\ VolumeTree' = G
  <2>1. Hidden = NoEntry
    BY DEF Hidden, NoEntry
  <2>2. VolumeTree = TreeOf(table, Hidden) /\ VolumeTree' = TreeOf(table', Hidden')
    BY DEF Before, Afterwards, TreeInv
  <2>3. Hidden' = <<f.sdir, f.sslot>>
    BY DEF Hidden
  <2> QED
    BY <2>1, <2>2, <2>3
<1>2. PICK d \in Cluster, s \in Slot :
         /\ <<d, s>> = Target /\ KeptBut(table, table', d, s)
         /\ table'[d][s] = NewEntry /\ SlotFree(table[d][s])
  BY <1>0, TargetWrite DEF EntryLabels
<1>3. PICK sd \in Cluster, ss \in Slot : sd = f.sdir /\ ss = f.sslot
  BY <1>0, Locals DEF TypeInv, FrameTypes
<1>4. d = f.dir /\ s = f.slot /\ <<d, s>> # <<sd, ss>>
  BY <1>0, <1>2, <1>3 DEF Target, Moving
<1>5. SameFile(table[sd][ss]) /\ table'[sd][ss] = table[sd][ss]
  BY <1>0, <1>2, <1>3, <1>4 DEF Moving, KeptBut
<1>6. NewEntry.name = f.name /\ NewEntry.kind = "file" /\ NewEntry.size = f.size /\ f.name \in Name
  BY <1>0 DEF NewEntry, TypeInv, FrameTypes
<1>7. PICK n \in Name : n = table[sd][ss].name
  BY <1>5, Kinds DEF Before, StoreInv, NamesKnown, SameFile
<1>8. /\ Live(table[sd][ss]) /\ ~Live(table[d][s]) /\ Live(table'[d][s])
      /\ NodeOf(table[sd][ss]) = NodeOf(table'[d][s]) /\ NodeOf(table[sd][ss]).kind = "file"
  BY <1>2, <1>5, <1>6, Kinds DEF SameFile, NodeOf
<1>9. PICK q0 \in Path, q1 \in Path : EndIn(table, q0, sd) /\ EndIn(table, q1, d)
  BY <1>3, <1>4 DEF Before, StoreInv, Aimed, HomesIn
<1>10. /\ 0 # d /\ 0 # sd /\ Quiet(table, 0) /\ Quiet(table', 0)
       /\ OnlyLeadsTo(table[d][s], 0) /\ OnlyLeadsTo(table'[d][s], 0)
  BY <1>2, <1>6, Marks DEF Quiet, OnlyLeadsTo, SlotFree
<1>11. NamedIfLive(table[d][s], f.name) /\ NamedIfLive(table'[d][s], f.name)
  BY <1>2, <1>6, <1>8 DEF NamedIfLive
<1>12. EndIn(table', q0, sd) /\ EndIn(table', q1, d)
  <2>1. SameEdges(table, table', 0)
    BY <1>2, <1>10, SlotChange
  <2> QED
    BY <1>9, <1>10, <2>1, EndStays
<1>13. Changes(F, H, Append(q1, f.name), table[d][s], table'[d][s])
  BY <1>0, <1>2, <1>6, <1>9, <1>10, <1>11, EntryChange
<1>14. /\ Append(q0, n) \in NonRoot
       /\ Append(q0, n) \in DOMAIN F /\ F[Append(q0, n)] = NodeOf(table[sd][ss])
  BY <1>0, <1>7, <1>8, <1>9, EntryHere
<1>15. <<sd, ss>> \in EntrySet(table', NoEntry, Append(q0, n))
  BY <1>0, <1>5, <1>7, <1>8, <1>12, EntryHere
<1>16. /\ Append(q1, f.name) \in NonRoot
       /\ <<d, s>> \in EntrySet(table', NoEntry, Append(q1, f.name))
  BY <1>0, <1>2, <1>6, <1>8, <1>12, EntryHere
<1>17. Append(q0, n) # Append(q1, f.name)
  <2>1. PICK U : U = table'
    OBVIOUS
  <2>2. PICK p \in NonRoot, q \in NonRoot : p = Append(q0, n) /\ q = Append(q1, f.name)
    BY <1>14, <1>16
  <2>3. PICK e \in EntrySet(U, NoEntry, p), g \in EntrySet(U, NoEntry, q) : e = <<sd, ss>> /\ g = <<d, s>>
    BY <1>15, <1>16, <2>1, <2>2
  <2>4. Treelike(U)
    BY <1>0, <2>1
  <2> HIDE DEF F, G, H
  <2>5. e = g <=> p = q
    BY <2>4, EntryUnique
  <2> QED
    BY <1>4, <2>2, <2>3, <2>5
<1>18. DifferAt(H, G, Append(q0, n)) /\ Append(q0, n) \notin DOMAIN G
  BY <1>0, <1>3, <1>5, <1>7, <1>8, <1>12, EntryHides
<1>19. q1 \in DOMAIN F /\ F[q1] = Store!Directory
  <2>1. \A a \in Cluster, b \in Slot : table[a][b].kind = "dir" => <<a, b>> # NoEntry
    BY Marks DEF NoEntry
  <2> QED
    BY <1>0, <1>9, <2>1, DirectoryInTree, StorePaths
<1>20. PICK p \in NonRoot : p = Append(q0, n)
  BY <1>14
<1>21. PICK q \in NonRoot : q = Append(q1, f.name) /\ q # <<>> /\ Store!Parent(q) = q1
  BY <1>6, <1>16, ParentIs, PathFacts
<1>22. table' # table
  BY <1>8
<1> HIDE DEF F, G, H
<1>23. /\ p # q /\ DifferAt(F, H, q) /\ DifferAt(H, G, p) /\ p \in DOMAIN F /\ q \in DOMAIN H
       /\ p \notin DOMAIN G /\ H[q] = F[p] /\ q \notin DOMAIN F /\ F[p].kind = "file"
  BY <1>8, <1>13, <1>14, <1>17, <1>18, <1>20, <1>21 DEF Changes
<1>24. G = Move(F, p, q)
  BY <1>23, TreeMoves
<1>25. Store!IsFile(p)
  BY <1>1, <1>23 DEF Store!IsFile, Store!Exists
<1>26. Store!CanMake(q)
  BY <1>1, <1>19, <1>21, <1>23, StorePaths DEF Store!CanMake, Store!Exists, Store!IsDirectory
<1>27. Store!Rename(p, q)
  BY <1>1, <1>24, <1>25, <1>26 DEF Store!Rename, Move
<1>28. p \in Store!Paths /\ q \in Store!Paths
  BY StorePaths
<1> QED
  BY <1>22, <1>25, <1>27, <1>28 DEF TakesEffect

\* Deleting the source of a rename changes nothing for who looks names up.
LEMMA SourceGone ==
  ASSUME Before, Afterwards, f.op = "rename", f.pc = "delete", WriteTable, f'.op # "rename"
  PROVE  VolumeTree' = VolumeTree
<1>0. Inv /\ Treelike(table) /\ Treelike(table')
  BY DEF Before, Afterwards
<1>1. PICK d \in Cluster, s \in Slot :
         <<d, s>> = Target /\ KeptBut(table, table', d, s) /\ ~Live(table'[d][s])
  BY <1>0, TargetWrite DEF EntryLabels
<1>2. VolumeTree = TreeOf(table, <<d, s>>) /\ VolumeTree' = TreeOf(table', NoEntry)
  <2>1. Hidden = <<d, s>>
    BY <1>1 DEF Hidden, Target
  <2>2. VolumeTree = TreeOf(table, Hidden) /\ VolumeTree' = TreeOf(table', Hidden')
    BY DEF Before, Afterwards, TreeInv
  <2>3. Hidden' = NoEntry
    BY DEF Hidden, NoEntry
  <2> QED
    BY <2>1, <2>2, <2>3
<1>3. SameEdges(table, table', 0)
  <2>1. 0 # d /\ Quiet(table, 0) /\ Quiet(table', 0)
    BY Marks DEF Quiet
  <2>2. OnlyLeadsTo(table[d][s], 0) /\ OnlyLeadsTo(table'[d][s], 0)
    <3>1. table[d][s].kind = "file"
      BY <1>0, <1>1 DEF Target, Before, Moving, SameFile
    <3> QED
      BY <1>1, <3>1, Kinds DEF OnlyLeadsTo
  <2> QED
    BY <1>1, <2>1, <2>2, SlotChange
<1>4. ASSUME NEW e \in Cluster \X Slot PROVE Alike(table, <<d, s>>, table', NoEntry, e)
  <2>1. PICK a \in Cluster, b \in Slot : e = <<a, b>>
    OBVIOUS
  <2>2. CASE e = <<d, s>>
    <3>1. ~Live(EntryOf(table', e))
      BY <1>1, <2>2 DEF EntryOf
    <3> QED
      BY <2>2, <3>1 DEF Alike, Counts
  <2>3. CASE e # <<d, s>>
    <3>1. EntryOf(table', e) = EntryOf(table, e) /\ e # NoEntry
      BY <1>1, <2>1, <2>3, Marks DEF KeptBut, EntryOf, NoEntry
    <3> QED
      BY <2>3, <3>1 DEF Alike, Counts
  <2> QED
    BY <2>2, <2>3
<1> QED
  BY <1>0, <1>2, <1>3, <1>4, TreeKept

\* The tree is a function of the tables and of the entry that does not count.
LEMMA TreeSame ==
  ASSUME Before, Afterwards, table' = table, Hidden' = Hidden
  PROVE  VolumeTree' = VolumeTree
<1>1. VolumeTree = TreeOf(table, Hidden) /\ VolumeTree' = TreeOf(table', Hidden')
  BY DEF Before, Afterwards, TreeInv
<1> QED
  BY <1>1

LEMMA NothingHidden == /\ f.op # "rename" => Hidden = NoEntry
                       /\ f'.op # "rename" => Hidden' = NoEntry
                       /\ f.pc # "delete" => Hidden = NoEntry
                       /\ f'.pc # "delete" => Hidden' = NoEntry
  BY DEF Hidden, NoEntry

\* A call only looks; its first write is a step of its own.
LEMMA CallKeepsTree == ASSUME Before, Afterwards, Call PROVE VolumeTree' = VolumeTree
<1>1. table' = table /\ f = Idle
  BY BeginSound DEF Before
<1>2. f'.op # "rename" \/ f'.pc # "delete"
  <2>1. TypeInv
    BY DEF Before, Inv
  <2>2. CASE Rename
    BY <2>1, <2>2, RenameFrame
  <2>3. CASE ~Rename
    BY <2>1, <2>3, CreateFrame, WriteFrame, MkdirFrame, RemoveFrame, TruncateFrame DEF Call
  <2> QED
    BY <2>2, <2>3
<1>3. Hidden = NoEntry /\ Hidden' = NoEntry
  BY <1>1, <1>2, IdleFields, NothingHidden
<1> QED
  BY <1>1, <1>3, TreeSame

\* The two writes of a rename.
LEMMA RenameTakesEffect ==
  ASSUME Tame, Before, Afterwards, f.op = "rename", Step \/ DeviceFails \/ Crash
  PROVE  TakesEffect \/ VolumeTree' = VolumeTree
<1>1. Inv /\ TypeInv /\ Moving /\ f # Idle
  BY IdleFields DEF Before, Inv
<1>2. Step
  <2>1. "rename" \in Ops
    BY <1>1, Locals DEF TypeInv, Frame
  <2> QED
    BY <2>1 DEF Tame, DeviceFails, Crash
<1>3. WriteEntry \/ DeleteEntry
  BY <1>1, <1>2 DEF Moving, Step, Allocate, DiskFull, Mark, ZeroCluster, Link, Undo,
     InitDirectory, Walk, BrokenChain, WriteData, UpdateEntry, FreeLink, Seek, Cut, UpdateSize
<1>4. CASE WriteEntry
  <2>1. f.pc = "entry" /\ WriteTable
    BY <1>4 DEF WriteEntry
  <2>2. f'.op = "rename" /\ f'.pc = "delete" /\ f'.sdir = f.sdir /\ f'.sslot = f.sslot
    BY <1>1, <1>4, WriteEntryFrame DEF Moved
  <2> QED
    BY <2>1, <2>2, RenameEffect
<1>5. CASE DeleteEntry
  <2>1. f.pc = "delete" /\ WriteTable
    BY <1>5 DEF DeleteEntry
  <2>2. f'.op # "rename"
    BY <1>1, <1>5, DeleteEntryFrame, IdleFields
  <2> QED
    BY <2>1, <2>2, SourceGone
<1> QED
  BY <1>3, <1>4, <1>5

\* The writes of every other operation.
LEMMA OthersTakeEffect ==
  ASSUME Before, Afterwards, f.op # "rename", Step \/ DeviceFails \/ Crash
  PROVE  TakesEffect \/ VolumeTree' = VolumeTree
<1>1. Inv /\ TypeInv /\ Treelike(table) /\ Treelike(table')
  BY DEF Before, Afterwards, Inv
<1>2. f'.op # "rename"
  BY <1>1, OperationStays, IdleFields
<1>3. Hidden = NoEntry /\ Hidden' = NoEntry
  BY <1>2, NothingHidden
<1>4. CASE table' = table
  BY <1>3, <1>4, TreeSame
<1>5. CASE table' # table /\ WriteTable /\ f.pc \in TableSteps
  <2>1. CASE f.pc \in {"zero", "initdir", "data"}
    <3>1. PICK h : h = NoEntry
      OBVIOUS
    <3>2. /\ SameEdges(table, table', 0)
          /\ \A e \in Cluster \X Slot : Alike(table, h, table', h, e)
      BY <1>1, <1>5, <2>1, BlankChange
    <3>3. TreeOf(table', h) = TreeOf(table, h)
      BY <1>1, <3>2, TreeKept
    <3>4. VolumeTree = TreeOf(table, Hidden) /\ VolumeTree' = TreeOf(table', Hidden')
      BY DEF Before, Afterwards, TreeInv
    <3> QED
      BY <1>3, <3>1, <3>3, <3>4
  <2>2. CASE f.pc = "entry"
    <3>1. f.op \in {"create", "mkdir"}
      BY <1>1, <2>2 DEF TypeInv, FrameTypes
    <3> QED
      BY <1>2, <1>5, <2>2, <3>1, MakeEffect
  <2>3. CASE f.pc \in {"update", "size"}
    <3>1. f.op \in {"write", "truncate"}
      BY <1>1, <1>5, <2>3, TargetWrite DEF EntryLabels
    <3> QED
      BY <1>2, <1>5, <2>3, <3>1, ResizeEffect
  <2>4. CASE f.pc = "delete"
    <3>1. f.op \in {"remove", "rmdir"}
      BY <1>1, <2>4 DEF TypeInv, FrameTypes
    <3> QED
      BY <1>2, <1>5, <2>4, <3>1, RemoveEffect
  <2> QED
    BY <1>5, <2>1, <2>2, <2>3, <2>4 DEF TableSteps
<1> QED
  BY <1>1, <1>4, <1>5, TableWrites

LEMMA EffectStep ==
  ASSUME Tame, Before, Afterwards, Next
  PROVE  TakesEffect \/ VolumeTree' = VolumeTree
<1>1. CASE Call
  BY <1>1, CallKeepsTree
<1>2. CASE Step \/ DeviceFails \/ Crash
  BY <1>2, RenameTakesEffect, OthersTakeEffect
<1> QED
  BY <1>1, <1>2 DEF Next

LEMMA BeforeHolds == Tame => (Spec => []Before)
<1> SUFFICES ASSUME Tame PROVE Spec => []Before
  OBVIOUS
<1>1. IInv /\ NamesInv /\ Moving /\ StoreInv /\ [Next]_vars => StoreInv'
  <2>1. ASSUME StoreInv, UNCHANGED vars PROVE StoreInv'
    BY <2>1 DEF vars, StoreInv, NamesKnown, SizesKnown, Aimed, HomesIn, Resizes, Subject
  <2> QED
    BY <2>1, StoreStep, InvIsIInv
<1>2. IInv /\ NamesInv /\ Moving /\ StoreInv => Before
  <2> SUFFICES ASSUME Inv, NamesInv, Moving, StoreInv PROVE Before
    BY InvIsIInv
  <2>1. TypeInv /\ UniqueNames /\ SoundEnds(table)
    BY Volumes DEF Inv, NamesInv, Base
  <2> QED
    BY <2>1, TreeIs, TreelikeIs DEF Before
<1> QED
  BY <1>1, <1>2, StoreBegins, InvariantHolds, NamesHold, MovingHolds, PTL DEF Spec

LEMMA TreeBegins == Init /\ Before => Store!StoreInit
<1> SUFFICES ASSUME Init, Before PROVE Store!StoreInit
  OBVIOUS
<1>1. \A d \in Cluster, s \in Slot : ~Live(table[d][s])
  BY Kinds DEF Init, Zeroed
<1>2. ASSUME NEW p, NEW e \in EntrySet(table, Hidden, p) PROVE FALSE
  <2>1. PICK d \in Cluster, s \in Slot : e = <<d, s>>
    BY DEF EntrySet
  <2> QED
    BY <1>1, <2>1 DEF EntrySet, NamedIn2
<1> DEFINE F == TreeOf(table, Hidden)
<1>3. /\ \A p : p \in DOMAIN F <=> p = <<>>
      /\ F[<<>>] = Store!Directory /\ F = [q \in DOMAIN F |-> F[q]]
  BY <1>2, TreeDomain, TreeIsFunction, StorePaths
<1>4. VolumeTree = F
  BY DEF Before, TreeInv
<1> HIDE DEF F
<1>5. DOMAIN F = {<<>>}
  BY <1>3
<1>6. F = [p \in {<<>>} |-> Store!Directory]
  BY <1>3, <1>5
<1> QED
  BY <1>4, <1>6 DEF Store!StoreInit, Store!RootPath

LEMMA EffectOrNothing == Tame /\ Before /\ Before' /\ [Next]_vars => [TakesEffect]_VolumeTree
<1> SUFFICES ASSUME Tame, Before, Before', [Next]_vars PROVE [TakesEffect]_VolumeTree
  OBVIOUS
<1>1. Afterwards
  BY DEF Before, Afterwards
<1>2. CASE UNCHANGED vars
  <2>1. table' = table /\ Hidden' = Hidden
    BY <1>2 DEF vars, Hidden
  <2> QED
    BY <1>1, <2>1, TreeSame
<1> QED
  BY <1>1, <1>2, EffectStep

(* Under the workloads of Tame, and for every volume, each operation of        *)
(* fat32.c takes effect at once for whoever looks names up: one write of one   *)
(* directory sector makes, resizes, moves or removes exactly the node the call *)
(* is to make, resize, move or remove, and every other write, failure and      *)
(* crash leaves the tree as it is.                                             *)
THEOREM EveryCallTakesEffectAtOnce == Tame => (Spec => ImplementsFileStore)
<1> SUFFICES ASSUME Tame PROVE Spec => ImplementsFileStore
  OBVIOUS
<1>1. Before /\ Before' /\ [Next]_vars => [TakesEffect]_VolumeTree
  BY EffectOrNothing
<1> QED
  BY <1>1, TreeBegins, BeforeHolds, PTL DEF Spec, ImplementsFileStore

LEMMA EffectIsStoreStep == TakesEffect => Store!StoreNext \/ UNCHANGED VolumeTree
  BY DEF TakesEffect, Store!StoreNext

(* So the volume implements the abstract tree that the shell's model is        *)
(* composed with.                                                              *)
THEOREM VolumeIsAFileStore == Tame => (Spec => Store!StoreSpec)
<1> SUFFICES ASSUME Tame PROVE Spec => Store!StoreSpec
  OBVIOUS
<1> QED
  BY EveryCallTakesEffectAtOnce, EffectIsStoreStep, PTL DEF ImplementsFileStore, Store!StoreSpec
=============================================================================
