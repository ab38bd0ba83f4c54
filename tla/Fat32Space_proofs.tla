-------------------------- MODULE Fat32Space_proofs --------------------------
(* Chains of clusters and the space on a volume: what the recursive function  *)
(* ChainAt of Fat32 computes for any FAT, that an operation leaves the chains  *)
(* of others alone, that no cluster is lost between the entries that name      *)
(* chains, and that every file has the clusters its size asks for, as long as  *)
(* no operation has stopped half-way.                                          *)
EXTENDS Fat32Tables_proofs, FiniteSetTheorems

-----------------------------------------------------------------------------
(* Chains *)

\* Induction: a set that is entered at 0 and kept by each step has all of 0..n.
LEMMA CountsUp ==
  ASSUME NEW n \in Nat, NEW S, 0 \in S, \A k \in 1..n : k - 1 \in S => k \in S
  PROVE  0..n \subseteq S
<1> DEFINE T == (0..n) \ S
<1> SUFFICES ASSUME T # {} PROVE FALSE
  OBVIOUS
<1>1. T \subseteq Nat
  OBVIOUS
<1>2. PICK k \in T : \A m \in T : ~(m < k)
  BY <1>1, Least
<1>3. k \in 1..n /\ k - 1 \in 0..n /\ k - 1 < k
  BY <1>2
<1> QED
  BY <1>2, <1>3

-----------------------------------------------------------------------------
(* The chain of a cluster in a FAT G *)

Link0 == Cluster \cup {FREE, EOC}
After(G, p) == IF p \in Cluster THEN G[p] ELSE p
Chain(G, c) ==
  LET at[i \in 0..MaxCluster] ==
        IF i = 0 THEN c
        ELSE LET p == at[i - 1] IN IF p \in Cluster THEN G[p] ELSE p
  IN [i \in 0..MaxCluster |-> at[i]]
InChainOf(G, c) == {Chain(G, c)[i] : i \in 0..MaxCluster} \cap Cluster

\* The first n + 1 elements of the chain.
Prefixes(G, c, n) ==
  {g \in [0..n -> Link0] : g[0] = c /\ \A i \in 1..n : g[i] = After(G, g[i - 1])}

LEMMA PrefixExists ==
  ASSUME NEW G \in FatMap, NEW c \in Link0, NEW n \in Nat
  PROVE  Prefixes(G, c, n) # {}
<1> DEFINE T == {k \in Nat : Prefixes(G, c, k) = {}}
<1> SUFFICES ASSUME T # {} PROVE FALSE
  OBVIOUS
<1>1. PICK k \in T : \A m \in T : ~(m < k)
  BY Least
<1>2. k # 0
  <2>1. [i \in 0..0 |-> c] \in Prefixes(G, c, 0)
    BY DEF Prefixes
  <2> QED
    BY <2>1
<1>3. k \in Nat /\ k - 1 \in Nat /\ k - 1 \notin T
  BY <1>1, <1>2
<1>4. PICK g \in [0..(k - 1) -> Link0] :
        g[0] = c /\ \A i \in 1..(k - 1) : g[i] = After(G, g[i - 1])
  BY <1>3 DEF Prefixes
<1> DEFINE h == [i \in 0..k |-> IF i = k THEN After(G, g[k - 1]) ELSE g[i]]
<1>5. After(G, g[k - 1]) \in Link0
  BY <1>3 DEF After, FatMap, Link0
<1>6. h \in [0..k -> Link0] /\ h[0] = c
  BY <1>2, <1>3, <1>4, <1>5
<1>7. ASSUME NEW i \in 1..k PROVE h[i] = After(G, h[i - 1])
  <2>1. CASE i = k
    BY <1>3, <2>1
  <2>2. CASE i # k
    <3>1. i \in 1..(k - 1) /\ i \in 0..k /\ i - 1 \in 0..k /\ i - 1 # k
      BY <1>3, <2>2
    <3> QED
      BY <1>4, <2>2, <3>1
  <2> QED
    BY <2>1, <2>2
<1>8. h \in Prefixes(G, c, k)
  <2> HIDE DEF h
  <2> QED
    BY <1>6, <1>7 DEF Prefixes
<1> QED
  BY <1>1, <1>8

\* The defining equations of the recursive function hold.
LEMMA ChainIs ==
  ASSUME NEW G \in FatMap, NEW c \in Link0
  PROVE  /\ Chain(G, c) \in [0..MaxCluster -> Link0]
         /\ Chain(G, c)[0] = c
         /\ \A i \in 1..MaxCluster : Chain(G, c)[i] = After(G, Chain(G, c)[i - 1])
<1> DEFINE F(a) == [i \in 0..MaxCluster |->
                     IF i = 0 THEN c
                     ELSE LET p == a[i - 1] IN IF p \in Cluster THEN G[p] ELSE p]
           at == CHOOSE a : a = F(a)
<1>0. MaxCluster \in Nat
  BY GeometryAssumption
<1>1. PICK g \in [0..MaxCluster -> Link0] :
        g[0] = c /\ \A i \in 1..MaxCluster : g[i] = After(G, g[i - 1])
  BY <1>0, PrefixExists DEF Prefixes
<1>2. g = F(g)
  <2>1. \A i \in 0..MaxCluster : g[i] = F(g)[i]
    BY <1>0, <1>1 DEF After
  <2> QED
    BY <2>1
<1>3. at = F(at)
  BY <1>2
<1>4. Chain(G, c) = [i \in 0..MaxCluster |-> at[i]]
  BY DEF Chain
<1> DEFINE C == Chain(G, c)
<1>5. C[0] = c /\ \A i \in 1..MaxCluster : C[i] = After(G, C[i - 1])
  <2> HIDE DEF at
  <2>1. \A i \in 0..MaxCluster : C[i] = at[i]
    BY <1>4
  <2>2. \A i \in 0..MaxCluster : at[i] = F(at)[i]
    BY <1>3
  <2>3. \A i \in 1..MaxCluster : i \in 0..MaxCluster /\ i - 1 \in 0..MaxCluster /\ i # 0
    BY <1>0
  <2> QED
    BY <1>0, <2>1, <2>2, <2>3 DEF After
<1>6. DOMAIN C = 0..MaxCluster /\ C = [i \in 0..MaxCluster |-> C[i]]
  BY <1>4
<1> HIDE DEF C, at
<1>7. \A i \in 0..MaxCluster : C[i] \in Link0
  <2> DEFINE S == {k \in 0..MaxCluster : C[k] \in Link0}
  <2>1. 0 \in S
    BY <1>0, <1>5
  <2>2. ASSUME NEW k \in 1..MaxCluster, k - 1 \in S PROVE k \in S
    BY <1>5, <2>2 DEF After, FatMap, Link0
  <2>3. 0..MaxCluster \subseteq S
    <3> HIDE DEF S
    <3> QED
      BY <1>0, <2>1, <2>2, CountsUp
  <2> QED
    BY <2>3
<1> QED
  BY <1>5, <1>6, <1>7 DEF C

LEMMA ChainHead ==
  ASSUME NEW G \in FatMap, NEW c \in Cluster
  PROVE  c \in InChainOf(G, c)
  BY ChainIs, GeometryAssumption DEF InChainOf, Link0

\* Every cluster of a chain but its first is linked from one before it.
LEMMA ChainBack ==
  ASSUME NEW G \in FatMap, NEW c \in Link0, NEW x \in InChainOf(G, c)
  PROVE  x \in Cluster /\ (x = c \/ \E y \in InChainOf(G, c) : G[y] = x)
<1>1. PICK i \in 0..MaxCluster : x = Chain(G, c)[i] /\ x \in Cluster
  BY DEF InChainOf
<1>2. CASE i = 0
  BY <1>1, <1>2, ChainIs
<1>3. CASE i # 0
  <2>1. i \in 1..MaxCluster /\ i - 1 \in 0..MaxCluster
    BY <1>1, <1>3, GeometryAssumption
  <2>2. x = After(G, Chain(G, c)[i - 1])
    BY <1>1, <2>1, ChainIs
  <2>3. CASE Chain(G, c)[i - 1] \in Cluster
    BY <1>1, <2>1, <2>2, <2>3 DEF After, InChainOf
  <2>4. CASE Chain(G, c)[i - 1] \notin Cluster
    <3>1. Chain(G, c)[i - 1] = x
      BY <2>2, <2>4 DEF After
    <3> QED
      BY <1>1, <2>4, <3>1
  <2> QED
    BY <2>3, <2>4
<1> QED
  BY <1>2, <1>3

\* A chain depends on the entries of its own clusters only.
LEMMA ChainSameAt ==
  ASSUME NEW G \in FatMap, NEW H \in FatMap, NEW c \in Link0,
         \A x \in InChainOf(G, c) : H[x] = G[x]
  PROVE  \A k \in 0..MaxCluster : Chain(H, c)[k] = Chain(G, c)[k]
<1> DEFINE A == Chain(G, c)
           B == Chain(H, c)
           S == {k \in 0..MaxCluster : A[k] = B[k]}
<1>0. MaxCluster \in Nat
  BY GeometryAssumption
<1>1. /\ A \in [0..MaxCluster -> Link0] /\ B \in [0..MaxCluster -> Link0]
      /\ A[0] = c /\ B[0] = c
      /\ \A i \in 1..MaxCluster : A[i] = After(G, A[i - 1]) /\ B[i] = After(H, B[i - 1])
  BY ChainIs
<1>2. \A i \in 0..MaxCluster : A[i] \in Cluster => A[i] \in InChainOf(G, c)
  BY DEF InChainOf
<1> HIDE DEF A, B
<1>3. 0 \in S
  BY <1>0, <1>1
<1>4. ASSUME NEW k \in 1..MaxCluster, k - 1 \in S PROVE k \in S
  BY <1>0, <1>1, <1>2, <1>4 DEF After
<1>5. 0..MaxCluster \subseteq S
  <2> HIDE DEF S
  <2> QED
    BY <1>0, <1>3, <1>4, CountsUp
<1> QED
  BY <1>5 DEF A, B

LEMMA ChainSame ==
  ASSUME NEW G \in FatMap, NEW H \in FatMap, NEW c \in Link0,
         \A x \in InChainOf(G, c) : H[x] = G[x]
  PROVE  Chain(H, c) = Chain(G, c)
<1>1. \A k \in 0..MaxCluster : Chain(H, c)[k] = Chain(G, c)[k]
  BY ChainSameAt
<1>2. /\ Chain(G, c) \in [0..MaxCluster -> Link0] /\ Chain(H, c) \in [0..MaxCluster -> Link0]
      /\ MaxCluster \in Nat
  BY ChainIs, GeometryAssumption
<1> QED
  BY <1>1, <1>2

\* The elements of a chain whose head nothing links to are all different.
LEMMA ChainDistinct ==
  ASSUME NEW G \in FatMap, SoundLinks(G), NEW c \in Cluster, ~LinkedIn(G, c),
         NEW i \in 0..MaxCluster, NEW j \in 0..MaxCluster, j < i, Chain(G, c)[i] \in Cluster
  PROVE  Chain(G, c)[j] \in Cluster /\ Chain(G, c)[j] # Chain(G, c)[i]
<1> DEFINE C == Chain(G, c)
<1>0. MaxCluster \in Nat
  BY GeometryAssumption
<1>1. /\ C \in [0..MaxCluster -> Link0] /\ C[0] = c
      /\ \A k \in 1..MaxCluster : C[k] = After(G, C[k - 1])
  BY ChainIs DEF Link0
<1> HIDE DEF C
<1> DEFINE Bad(k) == \E m \in 0..MaxCluster : m < k /\ ~(C[m] \in Cluster /\ C[m] # C[k])
           T == {k \in 0..MaxCluster : C[k] \in Cluster /\ Bad(k)}
<1>2. T = {}
  <2> SUFFICES ASSUME T # {} PROVE FALSE
    OBVIOUS
  <2>0. T \subseteq Nat
    OBVIOUS
  <2>1. PICK k \in T : \A m \in T : ~(m < k)
    <3> HIDE DEF T
    <3> QED
      BY <2>0, Least
  <2>2. PICK m \in 0..MaxCluster : m < k /\ ~(C[m] \in Cluster /\ C[m] # C[k])
    BY <2>1
  <2>3. k \in 1..MaxCluster /\ k - 1 \in 0..MaxCluster /\ k - 1 < k /\ C[k] \in Cluster
    BY <1>0, <2>1, <2>2
  <2>4. C[k] = After(G, C[k - 1])
    BY <1>1, <2>3
  <2>5. C[k - 1] \in Cluster
    BY <2>3, <2>4 DEF After
  <2>6. G[C[k - 1]] = C[k]
    BY <2>4, <2>5 DEF After
  <2>7. k - 1 \notin T
    BY <2>1, <2>3
  <2>8. ~Bad(k - 1)
    BY <2>3, <2>5, <2>7
  <2>9. C[m] \in Cluster
    BY <2>2, <2>3, <2>5, <2>8
  <2>10. C[m] = C[k]
    BY <2>2, <2>9
  <2>11. m # 0
    BY <1>1, <2>3, <2>5, <2>6, <2>10 DEF LinkedIn
  <2>12. m \in 1..MaxCluster /\ m - 1 \in 0..MaxCluster /\ m - 1 < k - 1
    BY <1>0, <2>2, <2>3, <2>11
  <2>13. C[m - 1] \in Cluster /\ C[m - 1] # C[k - 1]
    BY <2>8, <2>12
  <2>14. G[C[m - 1]] = C[k]
    BY <1>1, <2>10, <2>12, <2>13 DEF After
  <2> QED
    BY <2>3, <2>5, <2>6, <2>13, <2>14 DEF SoundLinks
<1> QED
  BY <1>2 DEF C

\* So such a chain has an end, within the number of clusters.
LEMMA ChainEnds ==
  ASSUME NEW G \in FatMap, SoundLinks(G), NEW c \in Cluster, ~LinkedIn(G, c)
  PROVE  Chain(G, c)[MaxCluster] \notin Cluster
<1> DEFINE C == Chain(G, c)
<1> SUFFICES ASSUME C[MaxCluster] \in Cluster PROVE FALSE
  OBVIOUS
<1>0. MaxCluster \in Nat /\ MaxCluster >= 2
  BY GeometryAssumption DEF Root
<1>1. \A i, j \in 0..MaxCluster : j < i /\ C[i] \in Cluster => C[j] \in Cluster /\ C[j] # C[i]
  BY ChainDistinct
<1>2. C \in [0..MaxCluster -> Link0]
  BY ChainIs DEF Link0
<1> HIDE DEF C
<1>3. \A i \in 0..MaxCluster : C[i] \in Cluster
  BY <1>0, <1>1
<1>4. C \in [0..MaxCluster -> Cluster]
  BY <1>2, <1>3
<1>5. /\ IsFiniteSet(0..MaxCluster) /\ Cardinality(0..MaxCluster) = MaxCluster + 1
      /\ IsFiniteSet(Cluster) /\ Cardinality(Cluster) = MaxCluster - 1
  <2>1. 0 \in Int /\ Root \in Int /\ MaxCluster \in Int
    BY <1>0 DEF Root
  <2> QED
    BY <1>0, <2>1, FS_Interval DEF Cluster, Root
<1>6. PICK i \in 0..MaxCluster, j \in 0..MaxCluster : i # j /\ C[i] = C[j]
  BY <1>0, <1>4, <1>5, FS_PigeonHole
<1>7. i < j \/ j < i
  BY <1>6
<1> QED
  BY <1>1, <1>3, <1>6, <1>7

\* And what its clusters link to belongs to it too.
LEMMA ChainForward ==
  ASSUME NEW G \in FatMap, SoundLinks(G), NEW c \in Cluster, ~LinkedIn(G, c),
         NEW x \in InChainOf(G, c), G[x] \in Cluster
  PROVE  G[x] \in InChainOf(G, c)
<1>0. MaxCluster \in Nat
  BY GeometryAssumption
<1>1. PICK i \in 0..MaxCluster : x = Chain(G, c)[i] /\ x \in Cluster
  BY DEF InChainOf
<1>2. i # MaxCluster
  BY <1>1, ChainEnds
<1>3. i + 1 \in 1..MaxCluster /\ i + 1 \in 0..MaxCluster /\ (i + 1) - 1 = i
  BY <1>0, <1>1, <1>2
<1>4. Chain(G, c)[i + 1] = After(G, Chain(G, c)[i])
  BY <1>3, ChainIs DEF Link0
<1> QED
  BY <1>1, <1>3, <1>4 DEF After, InChainOf


LEMMA ChainAllocated ==
  ASSUME NEW G \in FatMap, SoundLinks(G), NEW c \in Cluster, G[c] # FREE,
         NEW x \in InChainOf(G, c)
  PROVE  G[x] # FREE
<1>1. x = c \/ \E y \in InChainOf(G, c) : G[y] = x
  BY ChainBack DEF Link0
<1>2. x \in Cluster /\ InChainOf(G, c) \subseteq Cluster
  BY DEF InChainOf
<1> QED
  BY <1>1, <1>2 DEF SoundLinks

\* One link further along a chain.
LEMMA ChainNext ==
  ASSUME NEW G \in FatMap, SoundLinks(G), NEW c \in Cluster, ~LinkedIn(G, c),
         NEW i \in 0..MaxCluster, Chain(G, c)[i] \in Cluster
  PROVE  i + 1 \in 0..MaxCluster /\ Chain(G, c)[i + 1] = G[Chain(G, c)[i]]
<1>0. MaxCluster \in Nat
  BY GeometryAssumption
<1>1. i # MaxCluster
  BY ChainEnds
<1>2. i + 1 \in 1..MaxCluster /\ i + 1 \in 0..MaxCluster /\ (i + 1) - 1 = i
  BY <1>0, <1>1
<1>3. Chain(G, c)[i + 1] = After(G, Chain(G, c)[i])
  BY <1>2, ChainIs DEF Link0
<1> QED
  BY <1>2, <1>3 DEF After

\* Chains with different heads have no cluster in common.
LEMMA ChainsApart ==
  ASSUME NEW G \in FatMap, SoundLinks(G), NEW c \in Cluster, NEW h \in Cluster,
         ~LinkedIn(G, c), ~LinkedIn(G, h), c # h, NEW x \in InChainOf(G, c)
  PROVE  x \notin InChainOf(G, h)
<1> DEFINE C == Chain(G, c)
           S == {k \in 0..MaxCluster : C[k] \notin InChainOf(G, h)}
<1>0. MaxCluster \in Nat /\ InChainOf(G, h) \subseteq Cluster
  BY GeometryAssumption DEF InChainOf
<1>1. C[0] = c /\ \A k \in 1..MaxCluster : C[k] = After(G, C[k - 1])
  BY ChainIs DEF Link0
<1>2. \A y \in InChainOf(G, h) : y = h \/ \E z \in InChainOf(G, h) : G[z] = y
  BY ChainBack DEF Link0
<1> HIDE DEF C
<1>3. 0 \in S
  BY <1>0, <1>1, <1>2 DEF LinkedIn
<1>4. ASSUME NEW k \in 1..MaxCluster, k - 1 \in S PROVE k \in S
  <2> SUFFICES ASSUME C[k] \in InChainOf(G, h) PROVE FALSE
    OBVIOUS
  <2>1. C[k - 1] \notin InChainOf(G, h) /\ C[k] = After(G, C[k - 1]) /\ C[k] \in Cluster
    BY <1>0, <1>1, <1>4
  <2>2. C[k - 1] \in Cluster /\ G[C[k - 1]] = C[k]
    BY <2>1 DEF After
  <2>3. C[k] = h \/ \E z \in InChainOf(G, h) : G[z] = C[k]
    BY <1>2
  <2> QED
    BY <1>0, <2>1, <2>2, <2>3 DEF LinkedIn, SoundLinks
<1>5. 0..MaxCluster \subseteq S
  <2> HIDE DEF S
  <2> QED
    BY <1>0, <1>3, <1>4, CountsUp
<1>6. PICK i \in 0..MaxCluster : x = C[i]
  BY DEF InChainOf, C
<1> QED
  BY <1>5, <1>6

\* A write to the entry of one cluster keeps the chain up to there and changes
\* what follows.
LEMMA ChainRelinked ==
  ASSUME NEW G \in FatMap, SoundLinks(G), NEW c \in Cluster, ~LinkedIn(G, c),
         NEW i \in 0..MaxCluster, NEW x \in Cluster, Chain(G, c)[i] = x, NEW v \in Link0,
         NEW H, H = [G EXCEPT ![x] = v]
  PROVE  /\ H \in FatMap
         /\ \A j \in 0..i : Chain(H, c)[j] = Chain(G, c)[j]
         /\ i + 1 \in 0..MaxCluster /\ Chain(H, c)[i + 1] = v
<1> DEFINE A == Chain(G, c)
           B == Chain(H, c)
           S == {k \in 0..i : B[k] = A[k]}
<1>0. MaxCluster \in Nat /\ i \in Nat
  BY GeometryAssumption
<1>1. H \in FatMap /\ H[x] = v /\ \A y \in Cluster : y # x => H[y] = G[y]
  BY DEF FatMap, Link0
<1>2. /\ A[0] = c /\ \A k \in 1..MaxCluster : A[k] = After(G, A[k - 1])
      /\ B[0] = c /\ \A k \in 1..MaxCluster : B[k] = After(H, B[k - 1])
  <2>1. c \in Link0
    BY DEF Link0
  <2>2. A[0] = c /\ \A k \in 1..MaxCluster : A[k] = After(G, A[k - 1])
    BY <2>1, ChainIs
  <2>3. B[0] = c /\ \A k \in 1..MaxCluster : B[k] = After(H, B[k - 1])
    BY <1>1, <2>1, ChainIs
  <2> QED
    BY <2>2, <2>3
<1>3. \A j \in 0..MaxCluster : j < i => A[j] # x
  BY ChainDistinct
<1>4. i + 1 \in 0..MaxCluster
  BY ChainNext
<1> HIDE DEF A, B
<1>5. 0 \in S
  BY <1>0, <1>2
<1>6. ASSUME NEW k \in 1..i, k - 1 \in S PROVE k \in S
  <2>1. k \in 1..MaxCluster /\ k \in 0..i /\ k - 1 \in 0..MaxCluster /\ k - 1 < i
    BY <1>0, <1>4
  <2>2. B[k - 1] = A[k - 1] /\ A[k - 1] # x
    BY <1>3, <1>6, <2>1
  <2> QED
    BY <1>1, <1>2, <2>1, <2>2 DEF After
<1>7. 0..i \subseteq S
  <2> HIDE DEF S
  <2> QED
    BY <1>0, <1>5, <1>6, CountsUp
<1>8. B[i + 1] = v
  <2>1. i + 1 \in 1..MaxCluster /\ (i + 1) - 1 = i /\ i \in 0..i
    BY <1>0, <1>4
  <2>2. B[i] = x
    BY <1>7, <2>1 DEF A
  <2> QED
    BY <1>1, <1>2, <2>1, <2>2 DEF After
<1> QED
  BY <1>1, <1>4, <1>7, <1>8 DEF A, B

-----------------------------------------------------------------------------
(* Where the operation in progress stands in the chain of its file *)

OnChain(G, g, c, i) == i \in 0..MaxCluster /\ Chain(G, g.first)[i] = c
Walking == Allocating \cup {"walk", "data", "seek", "cut"}

Placed(G, g) ==
  /\ g.op \in {"write", "truncate"} /\ g.first # 0 /\ g.pc \in Walking =>
       OnChain(G, g, g.cur, g.at)
  /\ g.op = "write" /\ g.first # 0 /\ g.pc \in Allocating \cup {"walk"} /\ g.next # 0 =>
       g.from <= g.at /\ OnChain(G, g, g.next, g.from)
  /\ g.pc \in {"seek", "cut"} => g.first # 0
  /\ g.pc = "cut" => g.at = g.upto

LEMMA FileHead ==
  ASSUME Inv, f.op \in {"write", "truncate"}, f.pc # "undo", f.first # 0
  PROVE  /\ f.first \in Cluster /\ fat[1][f.first] # FREE /\ ~LinkedIn(fat[1], f.first)
         /\ fat[1] \in FatMap /\ SoundLinks(fat[1])
         /\ f.pc \in Walking => f.cur \in Cluster
<1>1. f.first \in Cluster /\ fat[1] \in FatMap /\ table \in TableMap /\ f.slot \in Slot
  BY Locals, Volumes DEF Inv
<1>2. f.pc # "idle"
  BY IdleFields DEF Inv, TypeInv, FrameTypes
<1>3. f.dir \in Cluster /\ Volume(fat[1], table)
  BY <1>2, Volumes DEF Inv, TypeInv, FrameTypes
<1>4. LooseIn(fat[1], table, f.first)
      \/ (Subject(table, f).kind = "file" /\ Subject(table, f).cluster = f.first)
  BY DEF Inv, Sound, InProgress, WriteSound, TruncateSound, HoldsFile
<1>5. fat[1][f.first] # FREE /\ ~LinkedIn(fat[1], f.first)
  BY <1>1, <1>3, <1>4, Kinds DEF LooseIn, Subject, Volume, Base, SoundHeads
<1>6. f.pc \in Walking => f.cur \in Cluster
  BY DEF Walking, Inv, TypeInv, FrameTypes, Allocating
<1> QED
  BY <1>1, <1>3, <1>5, <1>6 DEF Volume, Base

\* One link further, the walk stands one element further.
LEMMA NextPlaced ==
  ASSUME Inv, f.op \in {"write", "truncate"}, f.pc \in Walking, f.first # 0,
         OnChain(fat[1], f, f.cur, f.at)
  PROVE  OnChain(fat[1], f, fat[1][f.cur], f.at + 1)
<1>1. f.pc # "undo"
  BY DEF Walking, Allocating
<1> QED
  BY <1>1, FileHead, ChainNext DEF OnChain

\* The cluster a walk stands on and the one where the data begins are clusters of
\* the file; a write to another cluster's entry leaves them where they are.
LEMMA ElsewherePlaced ==
  ASSUME Inv, Placed(fat[1], f), f.op \in {"write", "truncate"}, f.pc # "undo",
         f.first # 0, fat'[1] \in FatMap,
         \A x \in InChainOf(fat[1], f.first) : fat'[1][x] = fat[1][x]
  PROVE  Chain(fat'[1], f.first) = Chain(fat[1], f.first)
  BY FileHead, ChainSame DEF Link0

LEMMA PlacedBegins == ASSUME Tame, Inv, Call PROVE Placed(fat'[1], f')
<1>1. CASE Write
  <2>1. PICK d \in Parents, n \in Name, s \in Slot :
          /\ f'.op = "write" /\ table[d][s].cluster \in Cluster \cup {0}
          /\ f'.pc = (IF table[d][s].cluster = 0 THEN "alloc" ELSE "walk")
          /\ f'.first = table[d][s].cluster /\ f'.cur = table[d][s].cluster
          /\ f'.next = 0 /\ f'.at = 0
    BY <1>1, WriteFrame, FoundInSlot DEF Inv, Entry
  <2>2. fat'[1] = fat[1] /\ fat[1] \in FatMap
    BY <1>1, Volumes DEF Write, Begin
  <2>3. f'.first # 0 => OnChain(fat'[1], f', f'.cur, f'.at)
    BY <2>1, <2>2, ChainIs, GeometryAssumption DEF OnChain, Link0
  <2> QED
    BY <2>1, <2>3 DEF Placed
<1>2. CASE Truncate
  <2>1. PICK d \in Parents, n \in Name, size \in TruncSizes, s \in Slot :
          /\ f'.op = "truncate" /\ table[d][s].cluster \in Cluster \cup {0}
          /\ f'.pc # "cut" /\ f'.at = 0 /\ (f'.pc = "seek" => f'.first # 0)
          /\ f'.first = table[d][s].cluster /\ f'.cur = table[d][s].cluster
    <3>1. PICK d \in Parents, n \in Name, size \in TruncSizes, s \in Slot :
            /\ s \in Found(d, n) /\ f' = TruncateFrom(d, n, s, size)
            /\ size > 0 => table[d][s].cluster # 0
      BY <1>2, FoundInSlot DEF Truncate
    <3>2. table[d][s].cluster \in Cluster \cup {0}
      BY <3>1, ParentsInCluster, Volumes, Entries
    <3>3. /\ f'.op = "truncate" /\ f'.pc # "cut" /\ f'.at = 0 /\ (f'.pc = "seek" => f'.first # 0)
          /\ f'.first = table[d][s].cluster /\ f'.cur = table[d][s].cluster
      BY <3>1 DEF TruncateFrom, Idle
    <3> QED
      BY <3>1, <3>2, <3>3
  <2>2. fat'[1] = fat[1] /\ fat[1] \in FatMap
    BY <1>2, Volumes DEF Truncate, Begin
  <2>3. f'.first # 0 => OnChain(fat'[1], f', f'.cur, f'.at)
    BY <2>1, <2>2, ChainIs, GeometryAssumption DEF OnChain, Link0
  <2> QED
    BY <2>1, <2>3 DEF Placed
<1>3. CASE ~(Write \/ Truncate)
  <2>1. f'.op \notin {"write", "truncate"} /\ f'.pc \notin {"seek", "cut"}
    BY <1>3, CreateFrame, MkdirFrame, RemoveFrame, RenameFrame DEF Call, Inv
  <2> QED
    BY <2>1 DEF Placed
<1> QED
  BY <1>1, <1>2, <1>3

LEMMA NextFat ==
  ASSUME Inv, f.pc \in FatSteps, WriteFat
  PROVE  fat'[1] \in FatMap /\ table' = table
  BY FatType, Locals DEF Inv, FatMap

\* Marking a new cluster touches no chain.
LEMMA MarkSame ==
  ASSUME Inv, f.pc = "mark", WriteFat, NEW c \in Cluster, fat[1][c] # FREE
  PROVE  \A x \in InChainOf(fat[1], c) : fat'[1][x] = fat[1][x]
<1>1. \A x \in Cluster : fat'[1][x] = IF x = f.new THEN EOC ELSE fat[1][x]
  BY MarkWrite
<1>2. fat[1] \in FatMap /\ SoundLinks(fat[1]) /\ InChainOf(fat[1], c) \subseteq Cluster
  BY Volumes DEF Volume, Base, InChainOf
<1>3. fat[1][f.new] = FREE \/ fat[1][f.new] = EOC
  BY DEF Inv, Sound, InProgress, NewCluster, FreshIn
<1>4. \A x \in InChainOf(fat[1], c) : fat[1][x] # FREE
  BY <1>2, ChainAllocated
<1> QED
  BY <1>1, <1>2, <1>3, <1>4

LEMMA MarkPlaced == ASSUME Inv, Placed(fat[1], f), Mark PROVE Placed(fat'[1], f')
<1>1. f.pc = "mark" /\ WriteFat /\ f.op \in {"write", "mkdir"}
  BY DEF Mark, FatStep, Inv, TypeInv, FrameTypes, Allocating
<1>2. IF f.copy < NumFats
      THEN Moved("mark", f.first, f.new, f.cur, f.next, f.at, f.copy + 1)
      ELSE Moved("zero", f.first, f.new, f.cur, f.next, f.at, 1)
  BY MarkFrame DEF Inv
<1>3. CASE f.op = "write" /\ f.first # 0
  <2>1. Chain(fat'[1], f.first) = Chain(fat[1], f.first)
    BY <1>1, <1>3, FileHead, MarkSame, NextFat, ElsewherePlaced DEF FatSteps
  <2> QED
    BY <1>1, <1>2, <1>3, <2>1 DEF Placed, OnChain, Moved, Walking, Allocating
<1>4. CASE f.op # "write" \/ f.first = 0
  BY <1>1, <1>2, <1>4 DEF Placed, Moved
<1> QED
  BY <1>3, <1>4

LEMMA ZeroPlaced == ASSUME Inv, Placed(fat[1], f), ZeroCluster PROVE Placed(fat'[1], f')
<1>1. f.pc = "zero" /\ fat'[1] = fat[1] /\ fat[1] \in FatMap
  BY Volumes DEF ZeroCluster, WriteTable
<1>2. /\ f.op \in {"write", "mkdir"} /\ f.new \in Cluster
      /\ f.op = "write" /\ f.first = 0 => f.at = 0 /\ f.next = 0
  BY <1>1 DEF Inv, TypeInv, FrameTypes, Allocating, Sound, InProgress, WriteSound
<1>3. IF f.op = "mkdir"
      THEN Moved("initdir", f.first, f.new, f.cur, f.next, f.at, f.copy)
      ELSE IF f.first = 0
      THEN Moved("walk", f.new, f.new, f.new, f.next, f.at, f.copy)
      ELSE Moved("link", f.first, f.new, f.cur, f.next, f.at, f.copy)
  BY <1>2, ZeroFrame DEF Inv
<1>4. CASE f.op = "mkdir"
  BY <1>3, <1>4 DEF Placed, Moved
<1>5. CASE f.op = "write" /\ f.first = 0
  <2>1. /\ f'.op = "write" /\ f'.pc = "walk" /\ f'.first = f.new /\ f'.cur = f.new
        /\ f'.at = 0 /\ f'.next = 0
    BY <1>2, <1>3, <1>5 DEF Moved
  <2>2. OnChain(fat'[1], f', f'.cur, f'.at)
    BY <1>1, <1>2, <2>1, ChainIs, GeometryAssumption DEF OnChain, Link0
  <2> QED
    BY <2>1, <2>2 DEF Placed
<1>6. CASE f.op = "write" /\ f.first # 0
  BY <1>1, <1>3, <1>6 DEF Placed, Moved, OnChain, Walking, Allocating
<1> QED
  BY <1>2, <1>4, <1>5, <1>6

\* What linking does to the chain of the file.
LEMMA LinkChain ==
  ASSUME Inv, Placed(fat[1], f), f.pc = "link", WriteFat
  PROVE  /\ f.op = "write" /\ f.first # 0
         /\ \A j \in 0..f.at : Chain(fat'[1], f.first)[j] = Chain(fat[1], f.first)[j]
         /\ f.at \in Nat /\ f.at + 1 \in 0..MaxCluster
         /\ Chain(fat'[1], f.first)[f.at + 1] = f.new
<1>1. f.op = "write" /\ f.first # 0 /\ f.new \in Cluster /\ f.cur \in Cluster
  BY DEF Inv, TypeInv, FrameTypes, Allocating
<1>2. OnChain(fat[1], f, f.cur, f.at)
  BY <1>1 DEF Placed, Walking, Allocating
<1>3. /\ f.first \in Cluster /\ ~LinkedIn(fat[1], f.first)
      /\ fat[1] \in FatMap /\ SoundLinks(fat[1])
  BY <1>1, FileHead
<1>4. FatCell = f.cur /\ FatValue = f.new
  BY DEF FatCell, FatValue
<1>5. f.at \in Nat
  BY Locals DEF Inv
<1>6. CASE f.copy = 1
  <2>1. fat'[1] = [fat[1] EXCEPT ![f.cur] = f.new]
    BY <1>4, <1>6, FirstCopy DEF FatSteps, Inv
  <2> QED
    BY <1>1, <1>2, <1>3, <1>5, <2>1, ChainRelinked DEF OnChain, Link0
<1>7. CASE f.copy # 1
  <2>1. fat'[1] = fat[1]
    BY <1>7, FirstCopy DEF FatSteps, Inv
  <2>2. fat[1][f.cur] = f.new
    BY <1>1, <1>7 DEF Inv, Sound, InProgress, WriteSound
  <2> QED
    BY <1>1, <1>2, <1>3, <1>5, <2>1, <2>2, ChainNext DEF OnChain
<1> QED
  BY <1>6, <1>7

LEMMA LinkPlaced == ASSUME Inv, Placed(fat[1], f), Link PROVE Placed(fat'[1], f')
<1>1. f.pc = "link" /\ WriteFat
  BY DEF Link, FatStep
<1>2. /\ f.op = "write" /\ f.first # 0
      /\ \A j \in 0..f.at : Chain(fat'[1], f.first)[j] = Chain(fat[1], f.first)[j]
      /\ f.at \in Nat /\ f.at + 1 \in 0..MaxCluster
      /\ Chain(fat'[1], f.first)[f.at + 1] = f.new
  BY <1>1, LinkChain
<1>3. /\ OnChain(fat[1], f, f.cur, f.at)
      /\ f.next # 0 => f.from <= f.at /\ OnChain(fat[1], f, f.next, f.from)
  BY <1>1, <1>2 DEF Placed, Walking, Allocating
<1>4. f.from \in Nat /\ MaxCluster \in Nat
  BY Locals, GeometryAssumption DEF Inv
<1>5. /\ OnChain(fat'[1], f, f.cur, f.at) /\ OnChain(fat'[1], f, f.new, f.at + 1)
      /\ f.next # 0 => OnChain(fat'[1], f, f.next, f.from)
  BY <1>2, <1>3, <1>4 DEF OnChain
<1>6. IF f.copy < NumFats
      THEN Moved("link", f.first, f.new, f.cur, f.next, f.at, f.copy + 1)
      ELSE Moved("walk", f.first, f.new, f.new, f.next, f.at + 1, 1)
  BY LinkFrame DEF Inv
<1>7. CASE f.copy < NumFats
  BY <1>2, <1>3, <1>5, <1>6, <1>7 DEF Placed, OnChain, Moved
<1>8. CASE ~(f.copy < NumFats)
  <2>1. f.next # 0 => f.from <= f.at + 1
    BY <1>2, <1>3, <1>4
  <2> QED
    BY <1>2, <1>3, <1>5, <1>6, <1>8, <2>1 DEF Placed, OnChain, Moved
<1> QED
  BY <1>7, <1>8

LEMMA WalkPlaced == ASSUME Inv, Placed(fat[1], f), Walk PROVE Placed(fat'[1], f')
<1>1. f.pc = "walk" /\ fat' = fat
  BY DEF Walk
<1>2. f.op = "write" /\ f.first # 0
  BY <1>1 DEF Inv, TypeInv, FrameTypes, Allocating
<1>3. /\ OnChain(fat[1], f, f.cur, f.at)
      /\ f.next # 0 => f.from <= f.at /\ OnChain(fat[1], f, f.next, f.from)
      /\ OnChain(fat[1], f, fat[1][f.cur], f.at + 1)
  BY <1>1, <1>2, NextPlaced DEF Placed, Walking, Allocating
<1>4. /\ f.from \in Nat /\ f.at \in Nat /\ f.upto \in Nat
      /\ f.from <= f.upto
      /\ f.at > f.from => f.next \in Cluster
  BY <1>1, <1>2, Locals DEF Inv, TypeInv, FrameTypes, Allocating
<1>5. PICK next \in Cluster \cup {FREE, EOC} :
        /\ next = IF f.at = f.from THEN f.cur ELSE f.next
        /\ \/ f.at = f.upto /\ Moved("data", f.first, f.new, next, 0, f.from, f.copy)
           \/ f.at < f.upto /\ Moved("alloc", f.first, f.new, f.cur, next, f.at, f.copy)
           \/ Moved("walk", f.first, f.new, fat[1][f.cur], next, f.at + 1, f.copy)
  BY <1>1, WalkFrame DEF Inv
<1>6. next # 0 => f.from <= f.at /\ OnChain(fat[1], f, next, f.from)
  BY <1>3, <1>4, <1>5
<1>7. CASE f.at = f.upto /\ Moved("data", f.first, f.new, next, 0, f.from, f.copy)
  <2>1. next # 0
    BY <1>4, <1>5, <1>7, <1>1, Marks DEF Inv, TypeInv, FrameTypes
  <2> QED
    BY <1>1, <1>2, <1>6, <1>7, <2>1 DEF Placed, OnChain, Moved, Allocating
<1>8. CASE Moved("alloc", f.first, f.new, f.cur, next, f.at, f.copy)
  BY <1>1, <1>2, <1>3, <1>6, <1>8 DEF Placed, OnChain, Moved
<1>9. CASE Moved("walk", f.first, f.new, fat[1][f.cur], next, f.at + 1, f.copy)
  <2>1. next # 0 => f.from <= f.at + 1
    BY <1>4, <1>6
  <2> QED
    BY <1>1, <1>2, <1>3, <1>6, <1>9, <2>1 DEF Placed, OnChain, Moved
<1> QED
  BY <1>5, <1>7, <1>8, <1>9

LEMMA DataPlaced == ASSUME Inv, Placed(fat[1], f), WriteData PROVE Placed(fat'[1], f')
<1>1. f.pc = "data" /\ fat' = fat
  BY DEF WriteData, WriteTable
<1>2. f.op = "write" /\ f.first # 0
  BY <1>1 DEF Inv, TypeInv, FrameTypes, Sound, InProgress, WriteSound
<1>3. OnChain(fat[1], f, fat[1][f.cur], f.at + 1)
  BY <1>1, <1>2, NextPlaced DEF Placed, Walking
<1>4. \/ Moved("data", f.first, f.new, fat[1][f.cur], f.next, f.at + 1, f.copy)
      \/ Moved("update", f.first, f.new, f.cur, f.next, f.at, f.copy)
      \/ f' = Idle
  BY WriteDataFrame DEF Inv
<1>5. CASE Moved("data", f.first, f.new, fat[1][f.cur], f.next, f.at + 1, f.copy)
  BY <1>1, <1>2, <1>3, <1>5 DEF Placed, OnChain, Moved, Allocating
<1>6. CASE Moved("update", f.first, f.new, f.cur, f.next, f.at, f.copy)
  BY <1>6 DEF Placed, Moved, Walking, Allocating
<1>7. CASE f' = Idle
  BY <1>7, IdleFields DEF Placed
<1> QED
  BY <1>4, <1>5, <1>6, <1>7

LEMMA SeekPlaced == ASSUME Inv, Placed(fat[1], f), Seek PROVE Placed(fat'[1], f')
<1>1. f.pc = "seek" /\ fat' = fat
  BY DEF Seek
<1>2. f.op = "truncate"
  <2>1. f.op \in AllOps
    BY <1>1, Locals, WorkloadAssumption DEF Inv, TypeInv, FrameTypes, Frame
  <2> QED
    BY <1>1, <2>1 DEF AllOps, Inv, Sound, InProgress, CreateSound, MkdirSound, RenameSound,
       RemoveSound, WriteSound, Allocating
<1>3. CASE f.at = f.upto /\ f' = [f EXCEPT !.pc = "cut"]
  BY <1>1, <1>2, <1>3, Locals DEF Inv, Frame, Placed, OnChain, Walking
<1>4. CASE fat[1][f.cur] \in Cluster /\ f' = [f EXCEPT !.cur = fat[1][f.cur], !.at = f.at + 1]
  <2>1. /\ f'.op = "truncate" /\ f'.pc = "seek" /\ f'.first = f.first
        /\ f'.cur = fat[1][f.cur] /\ f'.at = f.at + 1
    BY <1>1, <1>2, <1>4, Locals DEF Inv, Frame
  <2>2. f.first # 0 => OnChain(fat[1], f, fat[1][f.cur], f.at + 1)
    BY <1>1, <1>2, NextPlaced DEF Placed, Walking
  <2> QED
    BY <1>1, <2>1, <2>2 DEF Placed, OnChain
<1> QED
  BY <1>3, <1>4 DEF Seek

\* Cutting the chain keeps it up to the cluster that becomes its end.
LEMMA CutChain ==
  ASSUME Inv, Placed(fat[1], f), f.pc = "cut", WriteFat
  PROVE  /\ f.op = "truncate" /\ f.first # 0 /\ OnChain(fat[1], f, f.cur, f.at) /\ f.at = f.upto
         /\ \A j \in 0..f.at : Chain(fat'[1], f.first)[j] = Chain(fat[1], f.first)[j]
         /\ f.at \in Nat /\ f.at + 1 \in 0..MaxCluster
         /\ Chain(fat'[1], f.first)[f.at + 1] = EOC
<1>1. f.op = "truncate" /\ f.cur \in Cluster
  <2>1. f.op \in AllOps
    BY Locals, WorkloadAssumption DEF Inv, TypeInv, FrameTypes, Frame
  <2> QED
    BY <2>1 DEF AllOps, Inv, TypeInv, FrameTypes, Sound, InProgress, CreateSound, MkdirSound,
       RenameSound, RemoveSound, WriteSound, Allocating
<1>2. f.first # 0 /\ OnChain(fat[1], f, f.cur, f.at) /\ f.at = f.upto
  BY <1>1 DEF Placed, Walking
<1>3. /\ f.first \in Cluster /\ ~LinkedIn(fat[1], f.first)
      /\ fat[1] \in FatMap /\ SoundLinks(fat[1])
  BY <1>1, <1>2, FileHead
<1>4. FatCell = f.cur /\ FatValue = EOC
  BY DEF FatCell, FatValue
<1>5. f.at \in Nat
  BY Locals DEF Inv
<1>6. CASE f.copy = 1
  <2>1. fat'[1] = [fat[1] EXCEPT ![f.cur] = EOC]
    BY <1>4, <1>6, FirstCopy DEF FatSteps, Inv
  <2>2. EOC \in Link0
    BY DEF Link0
  <2> QED
    BY <1>1, <1>2, <1>3, <1>5, <2>1, <2>2, ChainRelinked DEF OnChain
<1>7. CASE f.copy # 1
  <2>1. fat'[1] = fat[1]
    BY <1>7, FirstCopy DEF FatSteps, Inv
  <2>2. fat[1][f.cur] = EOC
    <3>1. f.copy > 1
      BY <1>7, Locals DEF Inv
    <3> QED
      BY <1>1, <3>1 DEF Inv, Sound, InProgress, TruncateSound
  <2> QED
    BY <1>1, <1>2, <1>3, <1>5, <2>1, <2>2, ChainNext DEF OnChain
<1> QED
  BY <1>1, <1>2, <1>6, <1>7

LEMMA CutPlaced == ASSUME Inv, Placed(fat[1], f), Cut PROVE Placed(fat'[1], f')
<1>1. f.pc = "cut" /\ WriteFat
  BY DEF Cut
<1>2. /\ f.op = "truncate" /\ f.first # 0 /\ OnChain(fat[1], f, f.cur, f.at) /\ f.at = f.upto
      /\ \A j \in 0..f.at : Chain(fat'[1], f.first)[j] = Chain(fat[1], f.first)[j]
      /\ f.at \in Nat
  BY <1>1, CutChain
<1>3. OnChain(fat'[1], f, f.cur, f.at)
  BY <1>2 DEF OnChain
<1>4. \/ Moved("cut", f.first, f.new, f.cur, LinkRead, f.at, f.copy + 1)
      \/ Moved("size", f.first, f.new, 0, 0, f.at, 1)
      \/ Moved("free", f.first, f.new, LinkRead, 0, f.at, 1)
      \/ f' = Idle
  BY CutFrame DEF Inv
<1>5. CASE Moved("cut", f.first, f.new, f.cur, LinkRead, f.at, f.copy + 1)
  BY <1>2, <1>3, <1>5 DEF Placed, OnChain, Moved
<1>6. CASE f' = Idle
  BY <1>6, IdleFields DEF Placed
<1> QED
  BY <1>4, <1>5, <1>6 DEF Placed, Moved, Walking, Allocating

LEMMA PlacedStep ==
  ASSUME Tame, Inv, Placed(fat[1], f), Next
  PROVE  Placed(fat'[1], f')
<1>1. CASE Allocate
  <2>1. f.pc = "alloc" /\ fat' = fat
    BY <1>1 DEF Allocate
  <2>2. PICK c \in Cluster : Moved("mark", f.first, c, f.cur, f.next, f.at, f.copy)
    BY <1>1, AllocateFrame DEF Inv
  <2> QED
    BY <2>1, <2>2 DEF Placed, OnChain, Moved, Walking, Allocating
<1>2. CASE \/ f' = Idle
           \/ f'.op = f.op /\ f'.pc \in {"undo", "initdir", "entry", "delete", "free", "size"}
  BY <1>2, IdleFields DEF Placed, Walking, Allocating
<1>3. CASE \/ DiskFull \/ BrokenChain \/ UpdateEntry \/ UpdateSize \/ Crash
           \/ Undo \/ InitDirectory \/ WriteEntry \/ DeleteEntry \/ FreeLink \/ DeviceFails
  <2>1. CASE DiskFull \/ BrokenChain \/ UpdateEntry \/ UpdateSize \/ Crash
    BY <1>2, <2>1 DEF DiskFull, BrokenChain, UpdateEntry, UpdateSize, Crash, Done, GiveUp
  <2>2. CASE Undo \/ FreeLink \/ DeviceFails
    BY <1>2, <2>2, UndoFrame, FreeFrame, DeviceFailsFrame DEF Moved, Inv
  <2>3. CASE InitDirectory \/ WriteEntry \/ DeleteEntry
    BY <1>2, <2>3, InitDirectoryFrame, WriteEntryFrame, DeleteEntryFrame DEF Moved, Inv
  <2> QED
    BY <1>3, <2>1, <2>2, <2>3
<1> QED
  BY <1>1, <1>3, PlacedBegins, MarkPlaced, ZeroPlaced, LinkPlaced, WalkPlaced, DataPlaced,
     SeekPlaced, CutPlaced
  DEF Next, Step

-----------------------------------------------------------------------------
(* The files an operation is not about *)

LEMMA NoChain ==
  ASSUME NEW G \in FatMap, NEW c \in {FREE, EOC}
  PROVE  \A i \in 0..MaxCluster : Chain(G, c)[i] = c
<1> DEFINE C == Chain(G, c)
           S == {k \in 0..MaxCluster : C[k] = c}
<1>0. MaxCluster \in Nat /\ c \in Link0 /\ c \notin Cluster
  BY GeometryAssumption, Marks DEF Link0
<1>1. C[0] = c /\ \A k \in 1..MaxCluster : C[k] = After(G, C[k - 1])
  BY <1>0, ChainIs
<1> HIDE DEF C
<1>2. 0 \in S
  BY <1>0, <1>1
<1>3. ASSUME NEW k \in 1..MaxCluster, k - 1 \in S PROVE k \in S
  BY <1>0, <1>1, <1>3 DEF After
<1>4. 0..MaxCluster \subseteq S
  <2> HIDE DEF S
  <2> QED
    BY <1>0, <1>2, <1>3, CountsUp
<1> QED
  BY <1>4 DEF C

LEMMA BystanderHead ==
  ASSUME Inv, NEW d \in Cluster, NEW s \in Slot, NEW h \in Cluster,
         table[d][s].kind = "file", table[d][s].cluster = h, <<d, s>> \notin Subjects
  PROVE  /\ fat[1][h] # FREE /\ ~LinkedIn(fat[1], h) /\ HomeIn(table, d)
         /\ \A c \in InChainOf(fat[1], h) : ~HomeIn(table, c)
         /\ \A k \in Cluster : LooseIn(fat[1], table, k) => k # h
         /\ f.op \in {"write", "truncate"} /\ f.pc # "undo" /\ f.first # 0 => f.first # h
<1>0. fat[1] \in FatMap /\ table \in TableMap /\ Base(fat[1], table) /\ Live(table[d][s])
  BY Volumes, Kinds
<1>1. fat[1][h] # FREE /\ ~LinkedIn(fat[1], h) /\ HomeIn(table, d) /\ h # Root
  BY <1>0 DEF Base, SoundHeads, SoundTree
<1>2. ~DirectoryIn(table, h)
  <2> SUFFICES ASSUME NEW e \in Cluster, NEW t \in Slot,
                      table[e][t].kind = "dir", table[e][t].cluster = h
               PROVE  FALSE
    BY DEF DirectoryIn
  <2>1. Live(table[e][t]) /\ Same(table, d, s, e, t)
    BY <1>0, Kinds DEF Same
  <2>2. CASE f.op = "rename" /\ f.pc = "delete"
    <3>1. DistinctBut(table, f.sdir, f.sslot) /\ table[f.sdir][f.sslot].kind = "file"
      BY <2>2 DEF Inv, Sound, VolumeAt, InProgress, RenameSound
    <3>2. <<e, t>> # <<f.sdir, f.sslot>> /\ <<d, s>> # <<f.sdir, f.sslot>>
      BY <3>1 DEF Subjects
    <3> QED
      BY <2>1, <3>1, <3>2 DEF DistinctBut
  <2>3. CASE ~(f.op = "rename" /\ f.pc = "delete")
    BY <2>1, <2>3, Volumes DEF Volume, Distinct
  <2> QED
    BY <2>2, <2>3
<1>3. ASSUME NEW c \in InChainOf(fat[1], h) PROVE ~HomeIn(table, c)
  <2>1. c \in Cluster /\ (c = h \/ LinkedIn(fat[1], c))
    BY <1>0, ChainBack DEF Link0, LinkedIn, InChainOf
  <2> QED
    BY <1>0, <1>1, <1>2, <2>1, Kinds DEF Base, SoundTree, SoundHeads, HomeIn, DirectoryIn
<1>4. \A k \in Cluster : LooseIn(fat[1], table, k) => k # h
  BY <1>0 DEF LooseIn, NamedIn
<1>5. ASSUME f.op \in {"write", "truncate"}, f.pc # "undo", f.first # 0 PROVE f.first # h
  <2>1. f.first \in Cluster /\ f.slot \in Slot
    BY <1>5, Locals DEF Inv
  <2>2. f.dir \in Cluster /\ Volume(fat[1], table)
    BY <1>5, Volumes, IdleFields DEF Inv, TypeInv, FrameTypes
  <2>3. LooseIn(fat[1], table, f.first)
        \/ (Subject(table, f).kind = "file" /\ Subject(table, f).cluster = f.first)
    BY <1>5 DEF Inv, Sound, InProgress, WriteSound, TruncateSound, HoldsFile
  <2>4. CASE table[f.dir][f.slot].kind = "file" /\ table[f.dir][f.slot].cluster = f.first
    <3> SUFFICES ASSUME f.first = h PROVE FALSE
      OBVIOUS
    <3>1. Same(table, d, s, f.dir, f.slot)
      BY <1>0, <2>4, Kinds DEF Same
    <3>2. d = f.dir /\ s = f.slot
      BY <2>1, <2>2, <3>1 DEF Volume, Distinct
    <3> QED
      BY <3>2 DEF Subjects
  <2> QED
    BY <1>4, <2>1, <2>3, <2>4 DEF Subject
<1> QED
  BY <1>1, <1>3, <1>4, <1>5

\* A write to the FAT is to the chain of the file itself or to a loose chain.
LEMMA FatBystander ==
  ASSUME Inv, Placed(fat[1], f), f.pc \in FatSteps, WriteFat,
         NEW d \in Cluster, NEW s \in Slot, NEW h \in Cluster,
         table[d][s].kind = "file", table[d][s].cluster = h, <<d, s>> \notin Subjects
  PROVE  \A c \in InChainOf(fat[1], h) : fat'[1][c] = fat[1][c]
<1> DEFINE G == fat[1]
<1>0. /\ G \in FatMap /\ SoundLinks(G) /\ G[h] # FREE /\ ~LinkedIn(G, h)
      /\ InChainOf(G, h) \subseteq Cluster
  BY Volumes, BystanderHead DEF Base, InChainOf
<1>1. CASE f.pc = "mark"
  BY <1>0, <1>1, MarkSame
<1>2. CASE f.copy # 1
  BY <1>2, FirstCopy DEF Inv
<1>3. CASE f.pc # "mark" /\ f.copy = 1
  <2>1. ASSUME NEW k \in Cluster, ~LinkedIn(G, k), k # h, FatCell \in InChainOf(G, k)
        PROVE  FatCell \notin InChainOf(G, h)
    BY <1>0, <2>1, ChainsApart
  <2>2. ASSUME LooseIn(G, table, FatCell), FatCell \in Cluster
        PROVE  FatCell \notin InChainOf(G, h)
    BY <1>0, <2>1, <2>2, BystanderHead, ChainHead DEF LooseIn
  <2>3. ASSUME f.op \in {"write", "truncate"}, f.pc # "undo", f.first # 0, f.pc \in Walking,
               FatCell = f.cur
        PROVE  FatCell \notin InChainOf(G, h)
    <3>1. f.first \in Cluster /\ ~LinkedIn(G, f.first) /\ f.first # h /\ f.cur \in Cluster
      BY <2>3, FileHead, BystanderHead
    <3>2. f.cur \in InChainOf(G, f.first)
      BY <2>3, <3>1 DEF Placed, OnChain, InChainOf
    <3> QED
      BY <2>1, <2>3, <3>1, <3>2
  <2>4. FatCell \notin InChainOf(G, h)
    <3>1. CASE f.pc = "undo"
      <4>1. FatCell = f.new /\ f.new \in Cluster /\ LooseIn(G, table, f.new)
        BY <1>3, <3>1 DEF FatCell, Inv, TypeInv, FrameTypes, Sound, InProgress, NewCluster, FreshIn
      <4> QED
        BY <2>2, <4>1
    <3>2. CASE f.pc = "free"
      <4>1. FatCell = f.cur /\ f.cur \in Cluster /\ LooseIn(G, table, f.cur)
        BY <1>3, <3>2 DEF FatCell, Inv, TypeInv, FrameTypes, Sound, InProgress, Freeing
      <4> QED
        BY <2>2, <4>1
    <3>3. CASE f.pc = "link"
      BY <2>3, <3>3, LinkChain DEF FatCell, Walking, Allocating
    <3>4. CASE f.pc = "cut"
      BY <2>3, <3>4, CutChain DEF FatCell, Walking
    <3> QED
      BY <1>3, <3>1, <3>2, <3>3, <3>4 DEF FatSteps
  <2>5. fat'[1] = [G EXCEPT ![FatCell] = FatValue]
    BY <1>3, FirstCopy DEF Inv
  <2> QED
    BY <1>0, <2>4, <2>5 DEF FatMap
<1> QED
  BY <1>1, <1>2, <1>3

\* A write to a directory table is to the entry of the operation; any other write
\* is to a cluster of its file or to one it has just allocated.
LEMMA WriteTarget ==
  ASSUME Inv, Placed(fat[1], f), f.pc \in TableSteps, WriteTable
  PROVE  \/ \E k \in Cluster : \E R :
              /\ table' = [table EXCEPT ![k] = R] /\ ~HomeIn(table, k)
              /\ \/ LooseIn(fat[1], table, k)
                 \/ f.op = "write" /\ f.first # 0 /\ k \in InChainOf(fat[1], f.first)
         \/ \E k \in Cluster, t \in Slot : \E e :
              /\ table' = [table EXCEPT ![k][t] = e]
              /\ HomeIn(table, k) /\ <<k, t>> \in Subjects
<1>0. f.slot \in Slot /\ f.sslot \in Slot /\ f.dir \in Cluster /\ HomeIn(table, f.dir)
  BY Locals DEF Inv, TypeInv, FrameTypes, TableSteps, Sound, InProgress
<1>1. CASE f.pc \in {"zero", "initdir"}
  <2>1. f.new \in Cluster /\ LooseIn(fat[1], table, f.new) /\ ~HomeIn(table, f.new)
    BY <1>1, FreshNotHome DEF Inv, TypeInv, FrameTypes, Sound, InProgress, NewCluster, FreshIn
  <2>2. \E R : table' = [table EXCEPT ![f.new] = R]
    <3>1. CASE f.pc = "zero"
      BY <3>1 DEF WriteTable, TableAfter
    <3>2. CASE f.pc = "initdir"
      BY <3>2 DEF WriteTable, TableAfter
    <3> QED
      BY <1>1, <3>1, <3>2
  <2> QED
    BY <2>1, <2>2
<1>2. CASE f.pc = "data"
  <2>1. f.op = "write" /\ f.first # 0 /\ f.cur \in Cluster /\ f.first \in Cluster
    BY <1>2, Locals DEF Inv, TypeInv, FrameTypes, Sound, InProgress, WriteSound
  <2>2. HoldsFile(fat[1], table, f) /\ InChain(fat[1], f, f.cur)
    BY <1>2, <2>1 DEF Inv, Sound, InProgress, WriteSound
  <2>3. fat[1] \in FatMap /\ table \in TableMap /\ Volume(fat[1], table)
    BY <2>1, Volumes
  <2>4. ~HomeIn(table, f.cur)
    BY <1>0, <2>1, <2>2, <2>3, ChainNotHome
  <2>5. f.cur \in InChainOf(fat[1], f.first)
    BY <1>2, <2>1 DEF Placed, Walking, OnChain, InChainOf
  <2>6. \E R : table' = [table EXCEPT ![f.cur] = R]
    BY <1>2 DEF WriteTable, TableAfter
  <2> QED
    BY <2>1, <2>4, <2>5, <2>6
<1>3. CASE f.pc \in {"entry", "update", "size"}
  <2>1. \E e : table' = [table EXCEPT ![f.dir][f.slot] = e]
    <3>1. CASE f.pc = "entry"
      BY <3>1 DEF WriteTable, TableAfter
    <3>2. CASE f.pc = "update"
      BY <3>2 DEF WriteTable, TableAfter
    <3>3. CASE f.pc = "size"
      BY <3>3 DEF WriteTable, TableAfter
    <3> QED
      BY <1>3, <3>1, <3>2, <3>3
  <2>2. <<f.dir, f.slot>> \in Subjects
    BY DEF Subjects
  <2> QED
    BY <1>0, <2>1, <2>2
<1>4. CASE f.pc = "delete"
  <2>1. \E e : table' = [table EXCEPT ![DeletedSlot[1]][DeletedSlot[2]] = e]
    BY <1>4 DEF WriteTable, TableAfter
  <2>2. CASE f.op = "rename"
    <3>1. DeletedSlot = <<f.sdir, f.sslot>> /\ f.sdir \in Cluster
      BY <2>2 DEF DeletedSlot, Inv, TypeInv, FrameTypes
    <3>2. Live(table[f.sdir][f.sslot])
      BY <2>2, Kinds DEF Inv, Sound, InProgress, RenameSound
    <3>3. HomeIn(table, f.sdir)
      BY <1>0, <3>1, <3>2, Volumes DEF Base, SoundTree
    <3>4. <<f.sdir, f.sslot>> \in Subjects
      BY DEF Subjects
    <3>5. \E e : table' = [table EXCEPT ![f.sdir][f.sslot] = e]
      BY <2>1, <3>1
    <3> QED
      BY <1>0, <3>1, <3>3, <3>4, <3>5
  <2>3. CASE f.op # "rename"
    <3>1. \E e : table' = [table EXCEPT ![f.dir][f.slot] = e]
      BY <2>1, <2>3 DEF DeletedSlot
    <3>2. <<f.dir, f.slot>> \in Subjects
      BY DEF Subjects
    <3> QED
      BY <1>0, <3>1, <3>2
  <2> QED
    BY <2>2, <2>3
<1> QED
  BY <1>1, <1>2, <1>3, <1>4 DEF TableSteps

LEMMA TableBystander ==
  ASSUME Inv, Placed(fat[1], f), f.pc \in TableSteps, WriteTable,
         NEW d \in Cluster, NEW s \in Slot, NEW h \in Cluster \cup {0},
         table[d][s].kind = "file", table[d][s].cluster = h, <<d, s>> \notin Subjects
  PROVE  /\ table'[d][s] = table[d][s]
         /\ \A c \in InChainOf(fat[1], h) : table'[c] = table[c]
<1> DEFINE G == fat[1]
<1>0. G \in FatMap /\ table \in TableMap /\ Base(G, table) /\ Live(table[d][s])
  BY Volumes, Kinds
<1>1. HomeIn(table, d) /\ InChainOf(G, h) \subseteq Cluster
  BY <1>0 DEF Base, SoundTree, InChainOf
<1>2. \A c \in InChainOf(G, h) : ~HomeIn(table, c)
  <2>1. CASE h = 0
    BY <2>1, <1>0, NoChain, Marks DEF InChainOf
  <2>2. CASE h # 0
    BY <2>2, BystanderHead
  <2> QED
    BY <2>1, <2>2
<1>3. ASSUME NEW k \in Cluster, LooseIn(G, table, k) PROVE k \notin InChainOf(G, h)
  <2>1. CASE h = 0
    BY <2>1, <1>0, NoChain, Marks DEF InChainOf
  <2>2. CASE h # 0
    <3>1. k # h /\ ~LinkedIn(G, k) /\ ~LinkedIn(G, h) /\ SoundLinks(G)
      BY <1>0, <1>3, <2>2, BystanderHead DEF LooseIn, Base
    <3> QED
      BY <1>0, <2>2, <3>1, ChainHead, ChainsApart
  <2> QED
    BY <2>1, <2>2
<1>4. ASSUME f.op = "write", f.first # 0, NEW k \in InChainOf(G, f.first)
      PROVE  k \notin InChainOf(G, h)
  <2>1. CASE h = 0
    BY <2>1, <1>0, NoChain, Marks DEF InChainOf
  <2>2. CASE h # 0
    <3>1. f.pc # "undo"
      BY DEF TableSteps
    <3>2. f.first \in Cluster /\ ~LinkedIn(G, f.first) /\ SoundLinks(G)
      BY <1>4, <3>1, FileHead
    <3>3. f.first # h /\ ~LinkedIn(G, h)
      BY <1>4, <2>2, <3>1, BystanderHead
    <3> QED
      BY <1>0, <1>4, <2>2, <3>2, <3>3, ChainsApart
  <2> QED
    BY <2>1, <2>2
<1>5. CASE \E k \in Cluster : \E R :
             /\ table' = [table EXCEPT ![k] = R] /\ ~HomeIn(table, k)
             /\ \/ LooseIn(G, table, k)
                \/ f.op = "write" /\ f.first # 0 /\ k \in InChainOf(G, f.first)
  <2>0. PICK k \in Cluster : \E R :
             /\ table' = [table EXCEPT ![k] = R] /\ ~HomeIn(table, k)
             /\ \/ LooseIn(G, table, k)
                \/ f.op = "write" /\ f.first # 0 /\ k \in InChainOf(G, f.first)
    BY <1>5
  <2>1. PICK R :
             /\ table' = [table EXCEPT ![k] = R] /\ ~HomeIn(table, k)
             /\ \/ LooseIn(G, table, k)
                \/ f.op = "write" /\ f.first # 0 /\ k \in InChainOf(G, f.first)
    BY <2>0
  <2>2. k \notin InChainOf(G, h) /\ k # d
    BY <1>1, <1>3, <1>4, <2>1
  <2> QED
    BY <1>0, <1>1, <2>1, <2>2 DEF TableMap
<1>6. CASE \E k \in Cluster, t \in Slot : \E e :
              /\ table' = [table EXCEPT ![k][t] = e]
              /\ HomeIn(table, k) /\ <<k, t>> \in Subjects
  <2>0. PICK k \in Cluster, t \in Slot : \E e :
              /\ table' = [table EXCEPT ![k][t] = e]
              /\ HomeIn(table, k) /\ <<k, t>> \in Subjects
    BY <1>6
  <2>1. PICK e :
              /\ table' = [table EXCEPT ![k][t] = e]
              /\ HomeIn(table, k) /\ <<k, t>> \in Subjects
    BY <2>0
  <2>2. k \notin InChainOf(G, h) /\ (k # d \/ t # s)
    BY <1>2, <2>1
  <2> QED
    BY <1>0, <1>1, <2>1, <2>2 DEF TableMap
<1> QED
  BY <1>5, <1>6, WriteTarget

\* Every step leaves the volume alone or is one write of a FAT or of a table.
LEMMA VolumeWrites ==
  ASSUME Inv, Next
  PROVE  \/ UNCHANGED <<fat, table>>
         \/ f.pc \in FatSteps /\ WriteFat
         \/ f.pc \in TableSteps /\ WriteTable
<1>1. CASE Call
  BY <1>1, BeginSound
<1>2. CASE Allocate \/ DiskFull \/ Walk \/ BrokenChain \/ Seek \/ Crash
  BY <1>2, Zenon DEF Allocate, DiskFull, Walk, BrokenChain, Seek, Crash
<1>3. CASE Mark \/ Link \/ Undo \/ FreeLink \/ Cut
  BY <1>3 DEF Mark, Link, Undo, FreeLink, Cut, FatStep, FatSteps
<1>4. CASE \/ ZeroCluster \/ InitDirectory \/ WriteEntry \/ WriteData \/ UpdateEntry
           \/ DeleteEntry \/ UpdateSize
  BY <1>4 DEF ZeroCluster, InitDirectory, WriteEntry, WriteData, UpdateEntry, DeleteEntry,
     UpdateSize, TableSteps
<1>5. CASE DeviceFails
  BY <1>5 DEF DeviceFails, DeviceWrite
<1> QED
  BY <1>1, <1>2, <1>3, <1>4, <1>5 DEF Next, Step

LEMMA BystanderStep ==
  ASSUME Inv, Placed(fat[1], f), Next,
         NEW d \in Cluster, NEW s \in Slot, NEW h \in Cluster \cup {0},
         table[d][s].kind = "file", table[d][s].cluster = h, <<d, s>> \notin Subjects
  PROVE  /\ table'[d][s] = table[d][s]
         /\ \A c \in InChainOf(fat[1], h) : fat'[1][c] = fat[1][c] /\ table'[c] = table[c]
<1>1. CASE UNCHANGED <<fat, table>>
  BY <1>1
<1>2. CASE f.pc \in FatSteps /\ WriteFat
  <2>1. table' = table
    BY <1>2 DEF WriteFat
  <2>2. CASE h = 0
    <3>1. InChainOf(fat[1], h) = {}
      BY <2>2, Volumes, NoChain, Marks DEF InChainOf
    <3> QED
      BY <2>1, <3>1
  <2>3. CASE h # 0
    BY <1>2, <2>1, <2>3, FatBystander
  <2> QED
    BY <2>2, <2>3
<1>3. CASE f.pc \in TableSteps /\ WriteTable
  BY <1>3, TableBystander DEF WriteTable
<1> QED
  BY <1>1, <1>2, <1>3, VolumeWrites

PlacedNow == Placed(fat[1], f)

LEMMA PlacedHolds == Tame => (Spec => []PlacedNow)
<1> SUFFICES ASSUME Tame PROVE Spec => []PlacedNow
  OBVIOUS
<1>1. Init => PlacedNow
  BY IdleFields DEF Init, PlacedNow, Placed, Walking, Allocating
<1>2. IInv /\ PlacedNow /\ [Next]_vars => PlacedNow'
  <2>1. ASSUME PlacedNow, UNCHANGED vars PROVE PlacedNow'
    BY <2>1 DEF vars, PlacedNow
  <2> QED
    BY <2>1, PlacedStep, InvIsIInv DEF PlacedNow
<1>3. Spec => []IInv
  BY InvariantHolds
<1> QED
  BY <1>1, <1>2, <1>3, PTL DEF Spec

(* Under the workloads of Tame no step touches a file other than the one its    *)
(* operation is about: not its entry, not a FAT entry of its chain, not what    *)
(* its clusters hold.  The clusters the code frees, links, cuts and writes are  *)
(* those of its own file or have just been allocated.                           *)
THEOREM BystandersStay == Tame => (Spec => BystandersKept)
<1> SUFFICES ASSUME Tame PROVE Spec => BystandersKept
  OBVIOUS
<1> DEFINE Same1(e) == /\ At(e)' = At(e)
                       /\ \A c \in ChainSet(At(e).cluster) :
                             fat'[1][c] = fat[1][c] /\ table'[c] = table[c]
           Kept == \A e \in LiveSlots : At(e).kind = "file" /\ e \notin Subjects => Same1(e)
<1>1. IInv /\ PlacedNow /\ [Next]_vars => [Kept]_vars
  <2> SUFFICES ASSUME IInv, PlacedNow, Next, NEW e \in LiveSlots,
                      At(e).kind = "file", e \notin Subjects
               PROVE  Same1(e)
    OBVIOUS
  <2>1. PICK d \in Cluster, s \in Slot : e = <<d, s>>
    BY DEF LiveSlots
  <2>2. Inv /\ Placed(fat[1], f)
    BY InvIsIInv DEF PlacedNow
  <2>3. PICK h \in Cluster \cup {0} : table[d][s].cluster = h
    BY <2>2, Volumes, Entries
  <2>4. At(e) = table[d][s] /\ At(e)' = table'[d][s]
    BY <2>1 DEF At
  <2>5. ChainSet(h) = InChainOf(fat[1], h)
    BY DEF ChainSet, ChainAt, InChainOf, Chain
  <2>6. /\ table'[d][s] = table[d][s]
        /\ \A c \in InChainOf(fat[1], h) : fat'[1][c] = fat[1][c] /\ table'[c] = table[c]
    BY <2>1, <2>2, <2>3, <2>4, BystanderStep
  <2> QED
    BY <2>3, <2>4, <2>5, <2>6
<1>2. Spec => [][Kept]_vars
  BY <1>1, InvariantHolds, PlacedHolds, PTL DEF Spec
<1> QED
  BY <1>2 DEF BystandersKept

-----------------------------------------------------------------------------
(* What a write to a table does to the entries *)

\* A new cluster and the data of a file hold no entries, before or after.
LEMMA BlankEntries ==
  ASSUME Inv, f.pc \in {"zero", "initdir", "data"}, WriteTable,
         NEW d \in Cluster, NEW s \in Slot, Live(table'[d][s]) \/ Live(table[d][s])
  PROVE  table'[d][s] = table[d][s]
<1>0. table \in TableMap /\ Base(fat[1], table)
  BY Volumes
<1>1. CASE f.pc \in {"zero", "initdir"}
  <2>1. f.new \in Cluster /\ ~HomeIn(table, f.new)
    BY <1>1, FreshNotHome DEF Inv, TypeInv, FrameTypes, Sound, InProgress, NewCluster, FreshIn
  <2>2. \A t \in Slot : ~Live(table[f.new][t])
    BY <2>1, <1>0 DEF Base, SoundTree
  <2>3. CASE f.pc = "zero"
    <3>1. table' = [table EXCEPT ![f.new] = Zeroed] /\ \A t \in Slot : ~Live(Zeroed[t])
      BY <2>3, Kinds DEF WriteTable, TableAfter, Zeroed
    <3> QED
      BY <1>0, <2>1, <2>2, <3>1 DEF TableMap
  <2>4. CASE f.pc = "initdir"
    <3>1. table' = [table EXCEPT ![f.new] = Dots(f.new, f.dir)]
      BY <2>4 DEF WriteTable, TableAfter
    <3>2. \A t \in Slot : ~Live(Dots(f.new, f.dir)[t])
      BY <2>2, Kinds DEF Dots, Unnamed
    <3> QED
      BY <1>0, <2>1, <2>2, <3>1, <3>2 DEF TableMap
  <2> QED
    BY <1>1, <2>3, <2>4
<1>2. CASE f.pc = "data"
  <2>1. table' = [table EXCEPT ![f.cur] = FileBytes] /\ \A t \in Slot : ~Live(FileBytes[t])
    BY <1>2, Kinds DEF WriteTable, TableAfter, FileBytes, Unnamed
  <2>2. f.op = "write" /\ f.first # 0 /\ f.cur \in Cluster /\ f.first \in Cluster
    BY <1>2, Locals DEF Inv, TypeInv, FrameTypes, Sound, InProgress, WriteSound
  <2>3. HoldsFile(fat[1], table, f) /\ InChain(fat[1], f, f.cur) /\ Volume(fat[1], table)
    BY <1>2, <2>2, Volumes DEF Inv, Sound, InProgress, WriteSound
  <2>4. f.dir \in Cluster /\ f.slot \in Slot
    BY <1>2, Locals DEF Inv, TypeInv, FrameTypes
  <2>5. ~HomeIn(table, f.cur)
    BY <2>2, <2>3, <2>4, Volumes, ChainNotHome
  <2>6. \A t \in Slot : ~Live(table[f.cur][t])
    BY <1>0, <2>2, <2>5 DEF Base, SoundTree
  <2> QED
    BY <1>0, <2>1, <2>2, <2>6 DEF TableMap
<1> QED
  BY <1>1, <1>2

OtherSlotsKept(x, y) ==
  \A d \in Cluster, s \in Slot : <<d, s>> # <<x, y>> => table'[d][s] = table[d][s]

LEMMA SlotWrite ==
  ASSUME Inv, f.pc \in {"entry", "update", "size"}, WriteTable
  PROVE  /\ f.dir \in Cluster /\ f.slot \in Slot /\ OtherSlotsKept(f.dir, f.slot)
         /\ f.pc = "entry" => /\ table'[f.dir][f.slot] = NewEntry
                              /\ SlotFree(table[f.dir][f.slot])
         /\ f.pc = "update" => /\ f.op = "write"
                               /\ table'[f.dir][f.slot].kind = "file"
                               /\ table'[f.dir][f.slot].cluster = f.first
                               /\ table'[f.dir][f.slot].size = f.size
         /\ f.pc = "size" => /\ f.op = "truncate"
                             /\ table'[f.dir][f.slot].kind = "file"
                             /\ table'[f.dir][f.slot].cluster = table[f.dir][f.slot].cluster
                             /\ table'[f.dir][f.slot].size = f.size
<1>0. f.dir \in Cluster /\ f.slot \in Slot /\ table \in TableMap
  BY Locals, Volumes DEF Inv, TypeInv, FrameTypes
<1>1. f.op \in AllOps
  BY Locals, WorkloadAssumption DEF Inv, TypeInv, FrameTypes, Frame
<1>2. CASE f.pc = "entry"
  <2>1. table' = [table EXCEPT ![f.dir][f.slot] = NewEntry]
    BY <1>2 DEF WriteTable, TableAfter
  <2>2. SlotFree(table[f.dir][f.slot])
    BY <1>2, EntryFields DEF Inv, Sound, InProgress, CreateSound, MkdirSound, RenameSound,
       EntersFree, Subject
  <2> HIDE DEF NewEntry
  <2> QED
    BY <1>0, <1>2, <2>1, <2>2 DEF TableMap, OtherSlotsKept
<1>3. CASE f.pc \in {"update", "size"}
  <2>1. table[f.dir][f.slot].kind = "file" /\ (f.op = IF f.pc = "update" THEN "write" ELSE "truncate")
    BY <1>1, <1>3 DEF AllOps, Inv, Sound, InProgress, CreateSound, MkdirSound, RenameSound,
       RemoveSound, WriteSound, TruncateSound, Subject, Allocating
  <2>2. PICK x \in Entry : x = table[f.dir][f.slot] /\ x.kind = "file"
    BY <1>0, <2>1, Entries
  <2>3. CASE f.pc = "update"
    <3> DEFINE e == [x EXCEPT !.cluster = f.first, !.size = f.size]
    <3>1. e.kind = "file" /\ e.cluster = f.first /\ e.size = f.size
      BY <2>2 DEF Entry
    <3>2. table' = [table EXCEPT ![f.dir][f.slot] = e]
      BY <2>2, <2>3 DEF WriteTable, TableAfter
    <3> HIDE DEF e
    <3>3. table'[f.dir][f.slot] = e /\ OtherSlotsKept(f.dir, f.slot)
      BY <1>0, <3>2 DEF TableMap, OtherSlotsKept
    <3> QED
      BY <1>0, <2>1, <2>3, <3>1, <3>3
  <2>4. CASE f.pc = "size"
    <3> DEFINE e == [x EXCEPT !.size = f.size]
    <3>1. e.kind = "file" /\ e.cluster = x.cluster /\ e.size = f.size
      BY <2>2 DEF Entry
    <3>2. table' = [table EXCEPT ![f.dir][f.slot] = e]
      BY <2>2, <2>4 DEF WriteTable, TableAfter
    <3> HIDE DEF e
    <3>3. table'[f.dir][f.slot] = e /\ OtherSlotsKept(f.dir, f.slot)
      BY <1>0, <3>2 DEF TableMap, OtherSlotsKept
    <3> QED
      BY <1>0, <2>1, <2>2, <2>4, <3>1, <3>3
  <2> QED
    BY <1>3, <2>3, <2>4
<1> QED
  BY <1>2, <1>3

LEMMA SlotDelete ==
  ASSUME Inv, f.pc = "delete", WriteTable
  PROVE  \E d \in Cluster, s \in Slot :
           /\ OtherSlotsKept(d, s) /\ ~Live(table'[d][s]) /\ Live(table[d][s])
           /\ table[d][s].cluster = f.first
           /\ <<d, s>> = IF f.op = "rename" THEN <<f.sdir, f.sslot>> ELSE <<f.dir, f.slot>>
<1>0. f.dir \in Cluster /\ f.slot \in Slot /\ table \in TableMap
  BY Locals, Volumes DEF Inv, TypeInv, FrameTypes
<1>1. CASE f.op = "rename"
  <2>1. /\ f.sdir \in Cluster /\ f.sslot \in Slot /\ Live(table[f.sdir][f.sslot])
        /\ table[f.sdir][f.sslot].cluster = f.first
    BY <1>1, Locals, Kinds DEF Inv, TypeInv, FrameTypes, Sound, InProgress, RenameSound
  <2>2. table' = [table EXCEPT ![f.sdir][f.sslot] = DeletedEntry]
    BY <1>1 DEF WriteTable, TableAfter, DeletedSlot
  <2>3. OtherSlotsKept(f.sdir, f.sslot) /\ ~Live(table'[f.sdir][f.sslot])
    BY <1>0, <2>1, <2>2, Kinds DEF TableMap, OtherSlotsKept
  <2> QED
    BY <1>1, <2>1, <2>3
<1>2. CASE f.op # "rename"
  <2>1. f.op \in {"remove", "rmdir"}
    BY <1>2 DEF Inv, TypeInv, FrameTypes
  <2>2. Live(table[f.dir][f.slot]) /\ table[f.dir][f.slot].cluster = f.first
    BY <2>1 DEF Inv, Sound, InProgress, RemoveSound, Subject
  <2>3. table' = [table EXCEPT ![f.dir][f.slot] = DeletedEntry]
    BY <1>2 DEF WriteTable, TableAfter, DeletedSlot
  <2>4. OtherSlotsKept(f.dir, f.slot) /\ ~Live(table'[f.dir][f.slot])
    BY <1>0, <2>3, Kinds DEF TableMap, OtherSlotsKept
  <2> QED
    BY <1>0, <1>2, <2>2, <2>4
<1> QED
  BY <1>1, <1>2

-----------------------------------------------------------------------------
(* No cluster is lost *)

\* The clusters that no entry names yet, or no longer, but the operation holds.
Held(g, c) ==
  \/ c = g.new /\ \/ g.pc = "mark" /\ g.copy > 1
                  \/ g.pc \in {"zero", "initdir"}
                  \/ g.pc = "entry" /\ g.op = "mkdir"
                  \/ g.pc = "link" /\ g.copy = 1
  \/ c = g.first /\ g.op = "write"
  \/ c = g.cur /\ g.pc = "free" /\ g.copy = 1
  \/ c = g.next /\ g.pc \in {"free", "cut"} /\ g.copy > 1

Closed(G, S) == \A c \in S : G[c] \in Cluster => G[c] \in S

\* S has the root directory and every cluster that entries or the operation
\* lead to.
Reached(G, T, g, S) ==
  /\ S \subseteq Cluster /\ Closed(G, S) /\ Root \in S
  /\ \A c \in Cluster : NamedIn(T, c) \/ Held(g, c) => c \in S
Covered(G, T, g) ==
  \A S : Reached(G, T, g, S) => \A c \in Cluster : G[c] # FREE => c \in S

NothingLost == clean =>
  /\ f.pc # "undo"
  /\ f.op = "write" /\ f.new = 0 => Subject(table, f).cluster = f.first
  /\ Covered(fat[1], table, f)

LEMMA CoveredSame ==
  ASSUME NEW G, NEW T, NEW U, NEW g, NEW k, Covered(G, T, g),
         \A c \in Cluster : NamedIn(T, c) \/ Held(g, c) => NamedIn(U, c) \/ Held(k, c)
  PROVE  Covered(G, U, k)
<1> SUFFICES ASSUME NEW S, Reached(G, U, k, S) PROVE Reached(G, T, g, S)
  BY DEF Covered
<1> QED
  BY DEF Reached

LEMMA ClosedChain ==
  ASSUME NEW G \in FatMap, NEW c \in Cluster, NEW S, Closed(G, S), c \in S
  PROVE  InChainOf(G, c) \subseteq S
<1> DEFINE C == Chain(G, c)
           P == {k \in 0..MaxCluster : C[k] \in Cluster => C[k] \in S}
<1>0. MaxCluster \in Nat
  BY GeometryAssumption
<1>1. C[0] = c /\ \A k \in 1..MaxCluster : C[k] = After(G, C[k - 1])
  BY ChainIs DEF Link0
<1> HIDE DEF C
<1>2. 0 \in P
  BY <1>0, <1>1
<1>3. ASSUME NEW k \in 1..MaxCluster, k - 1 \in P PROVE k \in P
  BY <1>0, <1>1, <1>3 DEF After, Closed
<1>4. 0..MaxCluster \subseteq P
  <2> HIDE DEF P
  <2> QED
    BY <1>0, <1>2, <1>3, CountsUp
<1> QED
  BY <1>4 DEF InChainOf, C

\* Steps that write a table, and the clusters their operation holds after them.
LEMMA BlankCovered ==
  ASSUME Inv, f.pc \in {"zero", "initdir", "data"}, WriteTable, Covered(fat[1], table, f),
         \A c \in Cluster : Held(f, c) => NamedIn(table', c) \/ Held(f', c)
  PROVE  Covered(fat'[1], table', f')
<1>1. \A c \in Cluster : NamedIn(table, c) => NamedIn(table', c)
  BY BlankEntries DEF NamedIn
<1> QED
  BY <1>1, CoveredSame DEF WriteTable

\* While an operation does not hold it, a cluster is named after a write to the
\* entry of the operation if it was before or if that entry names it.
LEMMA SlotCovered ==
  ASSUME Inv, WriteTable, Covered(fat[1], table, f),
         NEW d \in Cluster, NEW s \in Slot, OtherSlotsKept(d, s),
         \A c \in Cluster : Held(f, c) \/ (Live(table[d][s]) /\ table[d][s].cluster = c)
            => NamedIn(table', c) \/ Held(f', c)
  PROVE  Covered(fat'[1], table', f')
<1>1. \A c \in Cluster : NamedIn(table, c) => NamedIn(table', c) \/ Held(f', c)
  <2> SUFFICES ASSUME NEW c \in Cluster, NEW x \in Cluster, NEW y \in Slot,
                      Live(table[x][y]), table[x][y].cluster = c
               PROVE  NamedIn(table', c) \/ Held(f', c)
    BY DEF NamedIn
  <2>1. CASE <<x, y>> = <<d, s>>
    BY <2>1
  <2>2. CASE <<x, y>> # <<d, s>>
    BY <2>2 DEF OtherSlotsKept, NamedIn
  <2> QED
    BY <2>1, <2>2
<1> QED
  BY <1>1, CoveredSame DEF WriteTable

CoveredNext == Covered(fat'[1], table', f')

LEMMA FatCovered ==
  ASSUME Inv, WriteFat, f.pc \in FatSteps, f.copy # 1, Covered(fat[1], table, f),
         \A c \in Cluster : Held(f, c) => Held(f', c)
  PROVE  CoveredNext
<1>1. fat'[1] = fat[1] /\ table' = table
  BY FirstCopy DEF Inv
<1> QED
  BY <1>1, CoveredSame DEF CoveredNext

LEMMA MarkCovered == ASSUME Inv, Covered(fat[1], table, f), Mark PROVE CoveredNext
<1>1. f.pc = "mark" /\ WriteFat /\ f.new \in Cluster /\ f.op \in {"write", "mkdir"}
  BY DEF Mark, FatStep, Inv, TypeInv, FrameTypes, Allocating
<1>2. IF f.copy < NumFats
      THEN Moved("mark", f.first, f.new, f.cur, f.next, f.at, f.copy + 1)
      ELSE Moved("zero", f.first, f.new, f.cur, f.next, f.at, 1)
  BY MarkFrame DEF Inv
<1>3. f.copy \in Nat /\ f.copy >= 1
  BY Locals DEF Inv
<1>4. Held(f', f.new) /\ \A c : Held(f, c) => Held(f', c)
  BY <1>1, <1>2, <1>3 DEF Held, Moved
<1>5. CASE f.copy # 1
  BY <1>1, <1>4, <1>5, FatCovered DEF FatSteps
<1>6. CASE f.copy = 1
  <2>1. table' = table /\ \A x \in Cluster : fat'[1][x] = IF x = f.new THEN EOC ELSE fat[1][x]
    BY <1>1, MarkWrite
  <2>2. fat[1][f.new] = FREE
    BY <1>1, <1>6 DEF Inv, Sound, InProgress, NewCluster
  <2>3. ASSUME NEW S, Reached(fat'[1], table', f', S)
        PROVE  f.new \in S /\ Reached(fat[1], table, f, S)
    BY <1>1, <1>4, <2>1, <2>2, <2>3, Marks DEF Reached, Closed
  <2> QED
    BY <2>1, <2>3 DEF Covered, CoveredNext
<1> QED
  BY <1>5, <1>6

\* A new cluster is reached through the one it is linked to, and that one from
\* the first.
LEMMA LinkCovered ==
  ASSUME Inv, Placed(fat[1], f), Covered(fat[1], table, f), Link
  PROVE  CoveredNext
<1>1. f.pc = "link" /\ WriteFat /\ f.cur \in Cluster /\ f.new \in Cluster
  BY DEF Link, FatStep, Inv, TypeInv, FrameTypes
<1>2. /\ f.op = "write" /\ f.first # 0 /\ f.first \in Cluster
      /\ \A j \in 0..f.at : Chain(fat'[1], f.first)[j] = Chain(fat[1], f.first)[j]
      /\ OnChain(fat[1], f, f.cur, f.at) /\ f.at \in Nat
  BY <1>1, LinkChain, FileHead DEF Placed, Walking, Allocating
<1>3. IF f.copy < NumFats
      THEN Moved("link", f.first, f.new, f.cur, f.next, f.at, f.copy + 1)
      ELSE Moved("walk", f.first, f.new, f.new, f.next, f.at + 1, 1)
  BY LinkFrame DEF Inv
<1>4. Held(f', f.first) /\ \A c : Held(f, c) => c = f.first \/ (f.copy = 1 /\ c = f.new)
  BY <1>1, <1>2, <1>3 DEF Held, Moved
<1>5. CASE f.copy # 1
  BY <1>1, <1>4, <1>5, FatCovered DEF FatSteps
<1>6. CASE f.copy = 1
  <2>1. table' = table /\ fat'[1] \in FatMap /\ fat[1] \in FatMap
    BY <1>1, NextFat, Volumes DEF FatSteps
  <2>2. fat[1][f.cur] = EOC /\ fat[1][f.new] = EOC
    BY <1>1, <1>2, <1>6 DEF Inv, Sound, InProgress, WriteSound, FreshIn
  <2>3. fat'[1] = [fat[1] EXCEPT ![f.cur] = f.new]
    BY <1>1, <1>6, FirstCopy DEF FatSteps, FatCell, FatValue, Inv
  <2>4. \A x \in Cluster : fat'[1][x] = IF x = f.cur THEN f.new ELSE fat[1][x]
    BY <2>1, <2>3 DEF FatMap
  <2>5. f.cur \in InChainOf(fat'[1], f.first)
    BY <1>1, <1>2 DEF OnChain, InChainOf
  <2>6. ASSUME NEW S, Reached(fat'[1], table', f', S)
        PROVE  Reached(fat[1], table, f, S)
    <3>1. f.cur \in S
      BY <1>2, <1>4, <2>1, <2>5, <2>6, ClosedChain DEF Reached
    <3>2. f.new \in S
      BY <1>1, <2>4, <2>6, <3>1 DEF Reached, Closed
    <3>3. Closed(fat[1], S)
      BY <2>2, <2>4, <2>6, Marks DEF Reached, Closed
    <3> QED
      BY <1>4, <2>1, <2>6, <3>2, <3>3 DEF Reached
  <2>7. \A c \in Cluster : fat'[1][c] # FREE => fat[1][c] # FREE
    BY <2>2, <2>4, Marks
  <2> QED
    BY <2>6, <2>7 DEF Covered, CoveredNext
<1> QED
  BY <1>5, <1>6

\* The cluster freed is the only one the operation held; it holds the next one.
LEMMA FreeCovered ==
  ASSUME Inv, Covered(fat[1], table, f), FreeLink, clean'
  PROVE  CoveredNext
<1>1. f.pc = "free" /\ WriteFat /\ f.cur \in Cluster
  BY DEF FreeLink, Inv, TypeInv, FrameTypes
<1>2. f.op # "write"
  BY <1>1 DEF Inv, Sound, InProgress, WriteSound, Allocating
<1>3. \/ /\ f.copy < NumFats
         /\ Moved("free", f.first, f.new, f.cur, LinkRead, f.at, f.copy + 1)
      \/ /\ f.copy = NumFats /\ LinkRead \in Cluster
         /\ Moved("free", f.first, f.new, LinkRead, 0, f.at, 1)
      \/ f.copy = NumFats /\ LinkRead = EOC
  BY FreeFrame DEF Inv
<1>4. f.copy \in Nat /\ f.copy >= 1 /\ NumFats \in Nat
  BY Locals DEF Inv
<1>5. LinkRead \in Cluster => Held(f', LinkRead)
  BY <1>1, <1>3, <1>4, Marks DEF Held, Moved
<1>6. CASE f.copy # 1
  <2>1. f.copy > 1 /\ LinkRead = f.next
    BY <1>4, <1>6 DEF LinkRead
  <2> QED
    BY <1>1, <1>2, <1>5, <1>6, <2>1, FatCovered DEF Held, FatSteps
<1>7. CASE f.copy = 1
  <2>1. table' = table /\ fat'[1] \in FatMap /\ fat[1] \in FatMap
    BY <1>1, NextFat, Volumes DEF FatSteps
  <2>2. fat'[1] = [fat[1] EXCEPT ![f.cur] = FREE] /\ LinkRead = fat[1][f.cur]
    BY <1>1, <1>7, FirstCopy DEF FatSteps, FatCell, FatValue, Inv, LinkRead
  <2>3. \A x \in Cluster : fat'[1][x] = IF x = f.cur THEN FREE ELSE fat[1][x]
    BY <2>1, <2>2 DEF FatMap
  <2>4. ASSUME NEW S, Reached(fat'[1], table', f', S)
        PROVE  Reached(fat[1], table, f, S \cup {f.cur})
    <3>1. Closed(fat[1], S \cup {f.cur})
      BY <1>5, <2>2, <2>3, <2>4 DEF Reached, Closed
    <3>2. \A c : Held(f, c) => c = f.cur
      BY <1>1, <1>2, <1>7 DEF Held
    <3> QED
      BY <1>1, <2>1, <2>4, <3>1, <3>2 DEF Reached
  <2>5. ASSUME NEW S, Reached(fat'[1], table', f', S), NEW c \in Cluster, fat'[1][c] # FREE
        PROVE  c \in S
    <3>1. c # f.cur /\ fat[1][c] # FREE
      BY <2>3, <2>5
    <3>2. c \in S \cup {f.cur}
      BY <2>4, <2>5, <3>1 DEF Covered
    <3> QED
      BY <3>1, <3>2
  <2> QED
    BY <2>5 DEF Covered, CoveredNext
<1> QED
  BY <1>6, <1>7

LEMMA CutCovered ==
  ASSUME Inv, Covered(fat[1], table, f), Cut, clean'
  PROVE  CoveredNext
<1>1. f.pc = "cut" /\ WriteFat /\ f.cur \in Cluster
  BY DEF Cut, Inv, TypeInv, FrameTypes
<1>2. f.op # "write"
  BY <1>1 DEF Inv, Sound, InProgress, WriteSound, Allocating
<1>3. \/ /\ f.copy < NumFats
         /\ Moved("cut", f.first, f.new, f.cur, LinkRead, f.at, f.copy + 1)
      \/ /\ f.copy = NumFats /\ LinkRead \in Cluster
         /\ Moved("free", f.first, f.new, LinkRead, 0, f.at, 1)
      \/ f.copy = NumFats /\ LinkRead = EOC
  BY CutFrame DEF Inv
<1>4. f.copy \in Nat /\ f.copy >= 1 /\ NumFats \in Nat
  BY Locals DEF Inv
<1>5. LinkRead \in Cluster => Held(f', LinkRead)
  BY <1>1, <1>3, <1>4, Marks DEF Held, Moved
<1>6. CASE f.copy # 1
  <2>1. f.copy > 1 /\ LinkRead = f.next
    BY <1>4, <1>6 DEF LinkRead
  <2> QED
    BY <1>1, <1>2, <1>5, <1>6, <2>1, FatCovered DEF Held, FatSteps
<1>7. CASE f.copy = 1
  <2>1. table' = table /\ fat'[1] \in FatMap /\ fat[1] \in FatMap
    BY <1>1, NextFat, Volumes DEF FatSteps
  <2>2. fat'[1] = [fat[1] EXCEPT ![f.cur] = EOC] /\ LinkRead = fat[1][f.cur]
    BY <1>1, <1>7, FirstCopy DEF FatSteps, FatCell, FatValue, Inv, LinkRead
  <2>3. \A x \in Cluster : fat'[1][x] = IF x = f.cur THEN EOC ELSE fat[1][x]
    BY <2>1, <2>2 DEF FatMap
  <2>4. fat[1][f.cur] # FREE
    <3>1. f.op \in AllOps
      BY <1>1, Locals, WorkloadAssumption DEF Inv, TypeInv, FrameTypes, Frame
    <3> QED
      BY <1>1, <1>7, <3>1 DEF AllOps, Inv, Sound, InProgress, CreateSound, MkdirSound,
         RenameSound, RemoveSound, WriteSound, TruncateSound, InChain, Allocating
  <2>5. ASSUME NEW S, Reached(fat'[1], table', f', S)
        PROVE  Reached(fat[1], table, f, S)
    <3>1. Closed(fat[1], S)
      BY <1>5, <2>2, <2>3, <2>5 DEF Reached, Closed
    <3>2. \A c : ~Held(f, c)
      BY <1>1, <1>2, <1>7 DEF Held
    <3> QED
      BY <2>1, <2>5, <3>1, <3>2 DEF Reached
  <2> QED
    BY <2>3, <2>4, <2>5 DEF Covered, CoveredNext
<1> QED
  BY <1>6, <1>7

\* No failure cleans up what an earlier one left.
LEMMA CleanStays == ASSUME TypeInv, Next, clean' PROVE clean /\ ~DeviceFails /\ ~Crash
<1>1. clean \in BOOLEAN
  BY DEF TypeInv, TypeOK
<1>2. UNCHANGED clean \/ clean' = FALSE
  BY DEF Next, Call, Create, Write, Mkdir, Remove, RemoveDirectory, Truncate, Rename, Begin,
      Step, Allocate, DiskFull, Mark, ZeroCluster, Link, Undo, InitDirectory, WriteEntry,
      Walk, BrokenChain, WriteData, UpdateEntry, DeleteEntry, FreeLink, Seek, Cut, UpdateSize,
      DeviceFails, Crash, Done, GiveUp
<1>3. DeviceFails \/ Crash => clean' = FALSE
  BY DEF DeviceFails, Crash, GiveUp
<1> QED
  BY <1>1, <1>2, <1>3

LEMMA SubjectNames ==
  ASSUME NEW T, NEW d \in Cluster, NEW s \in Slot, Live(T[d][s])
  PROVE  NamedIn(T, T[d][s].cluster)
  BY DEF NamedIn

\* An operation that keeps no cluster it did not find in an entry may end.
LEMMA StopCovered ==
  ASSUME Inv, Covered(fat[1], table, f), UNCHANGED <<fat, table>>,
         \A c \in Cluster : Held(f, c) => NamedIn(table, c) \/ Held(f', c)
  PROVE  CoveredNext
  BY CoveredSame DEF CoveredNext

LEMMA BeginCovered == ASSUME Inv, Covered(fat[1], table, f), Call PROVE CoveredNext
<1>1. f = Idle /\ UNCHANGED <<fat, table>>
  BY BeginSound
<1>2. \A c \in Cluster : ~Held(f, c)
  BY <1>1, IdleFields DEF Held
<1> QED
  BY <1>1, <1>2, StopCovered

LEMMA MoveCovered ==
  ASSUME Inv, Covered(fat[1], table, f), Allocate \/ Walk \/ Seek
  PROVE  CoveredNext
<1>1. f.pc \in {"alloc", "walk", "seek"} /\ UNCHANGED <<fat, table>>
  BY DEF Allocate, Walk, Seek
<1>2. f'.op = f.op /\ f'.first = f.first
  <2>1. CASE Allocate
    BY <2>1, AllocateFrame DEF Moved, Inv
  <2>2. CASE Walk
    BY <2>2, WalkFrame DEF Moved, Inv
  <2>3. CASE Seek
    BY <2>3, SeekFrame DEF Moved, Inv
  <2> QED
    BY <2>1, <2>2, <2>3
<1>3. \A c : Held(f, c) => Held(f', c)
  BY <1>1, <1>2 DEF Held
<1> QED
  BY <1>1, <1>3, StopCovered

LEMMA RefusedCovered ==
  ASSUME Inv, NothingLost, clean, DiskFull \/ BrokenChain, clean'
  PROVE  CoveredNext
<1>1. f.pc \in {"alloc", "walk", "seek"} /\ UNCHANGED <<fat, table>> /\ f.new = 0
  BY DEF DiskFull, BrokenChain, GiveUp
<1>2. ASSUME NEW c \in Cluster, Held(f, c) PROVE NamedIn(table, c)
  <2>1. f.op = "write" /\ c = f.first
    BY <1>1, <1>2 DEF Held
  <2>2. f.dir \in Cluster /\ f.slot \in Slot /\ Subject(table, f).cluster = f.first
    BY <1>1, <2>1, Locals DEF NothingLost, Inv, TypeInv, FrameTypes
  <2>3. Live(Subject(table, f))
    BY <2>1, Kinds DEF Inv, Sound, InProgress, WriteSound
  <2> QED
    BY <2>1, <2>2, <2>3, SubjectNames DEF Subject
<1> QED
  BY <1>1, <1>2, StopCovered DEF NothingLost

LEMMA NewCovered ==
  ASSUME Inv, Covered(fat[1], table, f), ZeroCluster \/ InitDirectory
  PROVE  CoveredNext
<1>1. CASE ZeroCluster
  <2>1. f.pc = "zero" /\ WriteTable /\ f.copy = 1 /\ f.op \in {"write", "mkdir"}
    BY <1>1 DEF ZeroCluster, Inv, TypeInv, FrameTypes, Allocating, Sound, InProgress, FatSteps
  <2>2. IF f.op = "mkdir"
        THEN Moved("initdir", f.first, f.new, f.cur, f.next, f.at, f.copy)
        ELSE IF f.first = 0
        THEN Moved("walk", f.new, f.new, f.new, f.next, f.at, f.copy)
        ELSE Moved("link", f.first, f.new, f.cur, f.next, f.at, f.copy)
    BY <1>1, ZeroFrame DEF Inv
  <2>3. \A c \in Cluster : Held(f, c) => Held(f', c)
    BY <2>1, <2>2, Marks DEF Held, Moved
  <2> QED
    BY <2>1, <2>3, BlankCovered DEF CoveredNext
<1>2. CASE InitDirectory
  <2>1. f.pc = "initdir" /\ WriteTable /\ f.op = "mkdir"
    BY <1>2 DEF InitDirectory, Inv, TypeInv, FrameTypes
  <2>2. Moved("entry", f.first, f.new, f.cur, f.next, f.at, f.copy)
    BY <1>2, InitDirectoryFrame DEF Inv
  <2>3. \A c \in Cluster : Held(f, c) => Held(f', c)
    BY <2>1, <2>2 DEF Held, Moved
  <2> QED
    BY <2>1, <2>3, BlankCovered DEF CoveredNext
<1> QED
  BY <1>1, <1>2

LEMMA DataCovered ==
  ASSUME Inv, Covered(fat[1], table, f), WriteData, clean'
  PROVE  CoveredNext
<1>1. f.pc = "data" /\ WriteTable /\ f.op = "write" /\ f.dir \in Cluster /\ f.slot \in Slot
  BY Locals DEF WriteData, Inv, TypeInv, FrameTypes
<1>2. \/ f'.op = "write" /\ f'.first = f.first
      \/ f' = Idle
  BY <1>1, WriteDataFrame DEF Moved, Inv
<1>3. f' = Idle => Subject(table, f).cluster = f.first
  <2>1. f' # [f EXCEPT !.pc = "update"] \/ f' # Idle
    BY Locals, IdleFields DEF Inv, Frame
  <2>2. f' # [f EXCEPT !.cur = fat[1][f.cur], !.at = @ + 1] \/ f' # Idle
    BY <1>1, Locals, IdleFields DEF Inv, Frame
  <2> QED
    BY <2>1, <2>2 DEF WriteData, GiveUp, Subject
<1>4. ASSUME f' = Idle PROVE NamedIn(table', f.first)
  <2>1. Live(Subject(table, f))
    BY <1>1, Kinds DEF Inv, Sound, InProgress, WriteSound
  <2>2. Live(table'[f.dir][f.slot]) /\ table'[f.dir][f.slot].cluster = f.first
    BY <1>1, <1>3, <1>4, <2>1, BlankEntries DEF Subject
  <2> QED
    BY <1>1, <2>2 DEF NamedIn
<1>5. \A c \in Cluster : Held(f, c) => NamedIn(table', c) \/ Held(f', c)
  BY <1>1, <1>2, <1>4 DEF Held
<1> QED
  BY <1>1, <1>5, BlankCovered DEF CoveredNext

\* Writing the entry names what the operation held.
LEMMA NamingCovered ==
  ASSUME Inv, Covered(fat[1], table, f), WriteEntry \/ UpdateEntry \/ UpdateSize
  PROVE  CoveredNext
<1>1. f.pc \in {"entry", "update", "size"} /\ WriteTable
  BY DEF WriteEntry, UpdateEntry, UpdateSize
<1>2. f.dir \in Cluster /\ f.slot \in Slot /\ OtherSlotsKept(f.dir, f.slot)
  BY <1>1, SlotWrite
<1>3. ASSUME NEW c \in Cluster, Held(f, c) \/ (Live(table[f.dir][f.slot]) /\ table[f.dir][f.slot].cluster = c)
      PROVE  Live(table'[f.dir][f.slot]) /\ table'[f.dir][f.slot].cluster = c
  <2>1. CASE f.pc = "entry"
    <3>1. table'[f.dir][f.slot] = NewEntry /\ ~Live(table[f.dir][f.slot])
      BY <1>1, <2>1, SlotWrite, Kinds DEF SlotFree, Live
    <3>2. c = f.new /\ f.op = "mkdir"
      BY <1>3, <2>1, <3>1, EntryFields DEF Held
    <3> QED
      BY <2>1, <3>1, <3>2, EntryFields DEF Live
  <2>2. CASE f.pc = "update"
    <3>1. /\ f.op = "write" /\ table'[f.dir][f.slot].kind = "file"
          /\ table'[f.dir][f.slot].cluster = f.first
      BY <1>1, <2>2, SlotWrite
    <3>2. f.first # 0 /\ (Subject(table, f).cluster # f.first => Subject(table, f).cluster = 0)
      BY <2>2, <3>1 DEF Inv, Sound, InProgress, WriteSound, HoldsFile, Allocating
    <3>3. c = f.first
      BY <1>3, <2>2, <3>1, <3>2, Marks DEF Held, Subject
    <3> QED
      BY <3>1, <3>3 DEF Live
  <2>3. CASE f.pc = "size"
    <3>1. /\ f.op = "truncate" /\ table'[f.dir][f.slot].kind = "file"
          /\ table'[f.dir][f.slot].cluster = table[f.dir][f.slot].cluster
      BY <1>1, <2>3, SlotWrite
    <3> QED
      BY <1>3, <2>3, <3>1 DEF Held, Live
  <2> QED
    BY <1>1, <2>1, <2>2, <2>3
<1>4. \A c \in Cluster : Held(f, c) \/ (Live(table[f.dir][f.slot]) /\ table[f.dir][f.slot].cluster = c)
         => NamedIn(table', c)
  BY <1>2, <1>3 DEF NamedIn
<1> QED
  BY <1>1, <1>2, <1>4, SlotCovered DEF CoveredNext

LEMMA DeleteCovered ==
  ASSUME Inv, Covered(fat[1], table, f), DeleteEntry
  PROVE  CoveredNext
<1>1. f.pc = "delete" /\ WriteTable /\ f.copy = 1 /\ f.op \in {"rename", "remove", "rmdir"}
      /\ f.dir \in Cluster /\ f.slot \in Slot
  BY Locals DEF DeleteEntry, Inv, TypeInv, FrameTypes, Sound, InProgress, FatSteps
<1>2. PICK d \in Cluster, s \in Slot :
        /\ OtherSlotsKept(d, s) /\ table[d][s].cluster = f.first
        /\ <<d, s>> = IF f.op = "rename" THEN <<f.sdir, f.sslot>> ELSE <<f.dir, f.slot>>
  BY <1>1, SlotDelete
<1>3. IF f.op = "rename" \/ f.first = 0 THEN f' = Idle
      ELSE Moved("free", f.first, f.new, f.first, f.next, f.at, f.copy)
  BY DeleteEntryFrame DEF Inv
<1>4. ASSUME NEW c \in Cluster, Held(f, c) \/ (Live(table[d][s]) /\ table[d][s].cluster = c)
      PROVE  NamedIn(table', c) \/ Held(f', c)
  <2>1. c = f.first /\ f.first # 0
    BY <1>1, <1>2, <1>4, Marks DEF Held
  <2>2. CASE f.op = "rename"
    <3>1. /\ Subject(table, f).kind = "file" /\ Subject(table, f).cluster = f.first
          /\ <<f.dir, f.slot>> # <<d, s>>
      BY <1>1, <1>2, <2>2 DEF Inv, Sound, InProgress, RenameSound
    <3>2. table'[f.dir][f.slot] = table[f.dir][f.slot]
      BY <1>1, <1>2, <3>1 DEF OtherSlotsKept
    <3> QED
      BY <1>1, <2>1, <3>1, <3>2, Kinds DEF NamedIn, Subject
  <2>3. CASE f.op # "rename"
    BY <1>1, <1>3, <2>1, <2>3 DEF Held, Moved
  <2> QED
    BY <2>2, <2>3
<1> QED
  BY <1>1, <1>2, <1>4, SlotCovered DEF CoveredNext

LEMMA CoveredStep ==
  ASSUME Inv, PlacedNow, NothingLost, Next, clean'
  PROVE  CoveredNext
<1>1. clean /\ ~DeviceFails /\ ~Crash
  BY CleanStays DEF Inv
<1>2. Covered(fat[1], table, f) /\ ~Undo
  BY <1>1 DEF NothingLost, Undo
<1>3. CASE Call
  BY <1>2, <1>3, BeginCovered
<1>4. CASE Allocate \/ DiskFull \/ Walk \/ BrokenChain \/ Seek
  BY <1>1, <1>2, <1>4, MoveCovered, RefusedCovered
<1>5. CASE Mark \/ Link \/ FreeLink \/ Cut
  BY <1>2, <1>5, MarkCovered, LinkCovered, FreeCovered, CutCovered DEF PlacedNow
<1>6. CASE ZeroCluster \/ InitDirectory \/ WriteData
  BY <1>2, <1>6, NewCovered, DataCovered
<1>7. CASE WriteEntry \/ UpdateEntry \/ UpdateSize \/ DeleteEntry
  BY <1>2, <1>7, NamingCovered, DeleteCovered
<1> QED
  BY <1>1, <1>2, <1>3, <1>4, <1>5, <1>6, <1>7 DEF Next, Step

\* Until it allocates a cluster, a write has its file's entry as it found it.
LEMMA SubjectKept ==
  ASSUME Inv, NothingLost, Next, clean', f'.op = "write", f'.new = 0
  PROVE  Subject(table', f').cluster = f'.first
<1>1. clean /\ ~DeviceFails /\ ~Crash
  BY CleanStays DEF Inv
<1>2. f' # Idle
  BY IdleFields
<1>3. CASE Call
  <2>1. Write
    BY <1>3, CreateFrame, MkdirFrame, RemoveFrame, TruncateFrame, RenameFrame DEF Call, Inv
  <2>2. table' = table
    BY <2>1 DEF Write, Begin
  <2> QED
    BY <2>1, <2>2, WriteFrame DEF Subject, Inv
<1>4. CASE Step
  <2>1. f.op = "write"
    BY <1>2, <1>4, OperationStays DEF Inv
  <2>2. /\ f.pc \in Allocating \cup {"walk", "data", "update"}
        /\ f.dir \in Cluster /\ f.slot \in Slot /\ Live(Subject(table, f))
    BY <1>1, <2>1, Locals, Kinds
    DEF NothingLost, Inv, TypeInv, FrameTypes, Sound, InProgress, WriteSound, Allocating
  <2>3. CASE Walk
    <3>1. Subject(table', f') = Subject(table, f) /\ f'.new = f.new /\ f'.first = f.first
      BY <2>3, WalkFrame DEF Moved, Inv, Subject, Walk
    <3> QED
      BY <1>1, <2>1, <3>1 DEF NothingLost
  <2>4. CASE WriteData
    <3>1. f'.new = f.new /\ f'.first = f.first /\ f'.dir = f.dir /\ f'.slot = f.slot
      BY <1>2, <2>4, WriteDataFrame DEF Moved, Inv
    <3>2. table'[f.dir][f.slot] = table[f.dir][f.slot]
      BY <2>2, <2>4, BlankEntries DEF WriteData, Subject
    <3> QED
      BY <1>1, <2>1, <3>1, <3>2 DEF NothingLost, Subject
  <2>5. ~(Mark \/ ZeroCluster \/ Link)
    <3>1. f.pc \in {"mark", "zero", "link"} => f.new # 0
      BY Marks DEF Inv, TypeInv, FrameTypes
    <3>2. Mark \/ ZeroCluster \/ Link => f'.new = f.new
      BY MarkFrame, ZeroFrame, LinkFrame DEF Moved, Inv
    <3> QED
      BY <3>1, <3>2 DEF Mark, ZeroCluster, Link
  <2>6. ~Allocate
    BY AllocateFrame, Marks DEF Moved, Inv
  <2>7. ~(DiskFull \/ BrokenChain \/ UpdateEntry)
    BY <1>2 DEF DiskFull, BrokenChain, UpdateEntry, Done, GiveUp
  <2>8. ~(Undo \/ InitDirectory \/ WriteEntry \/ DeleteEntry \/ FreeLink \/ Seek \/ Cut \/ UpdateSize)
    BY <2>2 DEF Undo, InitDirectory, WriteEntry, DeleteEntry, FreeLink, Seek, Cut, UpdateSize,
       Allocating
  <2> QED
    BY <1>4, <2>3, <2>4, <2>5, <2>6, <2>7, <2>8 DEF Step
<1> QED
  BY <1>1, <1>3, <1>4 DEF Next

\* Only a failed device call leads to a rollback.
LEMMA NeverRollsBack ==
  ASSUME TypeInv, Call \/ Step, f.pc # "undo"
  PROVE  f'.pc # "undo"
<1>1. CASE Call
  BY <1>1, CreateFrame, MkdirFrame, RemoveFrame, WriteFrame, TruncateFrame, RenameFrame DEF Call
<1>2. CASE Allocate \/ Mark \/ ZeroCluster \/ Link \/ InitDirectory
  BY <1>2, AllocateFrame, MarkFrame, ZeroFrame, LinkFrame, InitDirectoryFrame DEF Moved
<1>3. CASE WriteEntry \/ Walk \/ WriteData \/ DeleteEntry \/ FreeLink \/ Seek \/ Cut
  BY <1>3, IdleFields, WriteEntryFrame, WalkFrame, WriteDataFrame, DeleteEntryFrame, FreeFrame,
     SeekFrame, CutFrame
  DEF Moved
<1>4. CASE DiskFull \/ BrokenChain \/ UpdateEntry \/ UpdateSize
  BY <1>4, IdleFields DEF DiskFull, BrokenChain, UpdateEntry, UpdateSize, Done, GiveUp
<1>5. ~Undo
  BY DEF Undo
<1> QED
  BY <1>1, <1>2, <1>3, <1>4, <1>5 DEF Step

LEMMA NothingLostHolds == Tame => (Spec => []NothingLost)
<1> SUFFICES ASSUME Tame PROVE Spec => []NothingLost
  OBVIOUS
<1>1. Init => NothingLost
  <2> SUFFICES ASSUME Init PROVE NothingLost
    OBVIOUS
  <2>1. \A c \in Cluster : fat[1][c] # FREE => c = Root
    BY GeometryAssumption DEF Init
  <2> QED
    BY <2>1, IdleFields DEF Init, NothingLost, Covered, Reached
<1>2. IInv /\ PlacedNow /\ NothingLost /\ [Next]_vars => NothingLost'
  <2>1. ASSUME NothingLost, UNCHANGED vars PROVE NothingLost'
    BY <2>1 DEF vars, NothingLost
  <2>2. ASSUME Inv, PlacedNow, NothingLost, Next PROVE NothingLost'
    <3>1. clean' => f'.pc # "undo"
      BY <2>2, CleanStays, NeverRollsBack DEF NothingLost, Next, Inv
    <3> QED
      BY <2>2, <3>1, CoveredStep, SubjectKept DEF NothingLost, CoveredNext
  <2> QED
    BY <2>1, <2>2, InvIsIInv
<1> QED
  BY <1>1, <1>2, InvariantHolds, PlacedHolds, PTL DEF Spec

\* Between operations the chains that entries name are all there is.
LEMMA Accounted ==
  ASSUME Inv, NothingLost, clean, f = Idle
  PROVE  {c \in Cluster : fat[1][c] # FREE}
           = {Root} \cup UNION {ChainSet(At(e).cluster) : e \in LiveSlots}
<1> DEFINE G == fat[1]
           Heirs == UNION {ChainSet(At(e).cluster) : e \in LiveSlots}
<1>0. G \in FatMap /\ table \in TableMap /\ Base(G, table)
  BY Volumes
<1>1. \A h : ChainSet(h) = InChainOf(G, h)
  BY DEF ChainSet, ChainAt, InChainOf, Chain
<1>2. ASSUME NEW d \in Cluster, NEW s \in Slot, Live(table[d][s])
      PROVE  /\ table[d][s].cluster \in Cluster \cup {0}
             /\ table[d][s].cluster \in Cluster =>
                  G[table[d][s].cluster] # FREE /\ ~LinkedIn(G, table[d][s].cluster)
  <2>1. table[d][s].cluster \in Cluster \cup {0}
    BY <1>0, Entries
  <2> QED
    BY <1>0, <1>2, <2>1 DEF Base, SoundHeads
<1>3. SoundLinks(G) /\ G[Root] = EOC
  BY <1>0 DEF Base, SoundTree
<1>4. ASSUME NEW x \in Heirs
      PROVE  x \in Cluster /\ G[x] # FREE /\ (G[x] \in Cluster => G[x] \in Heirs)
  <2>1. PICK e \in LiveSlots : x \in ChainSet(At(e).cluster)
    BY <1>4
  <2>2. PICK d \in Cluster, s \in Slot : e = <<d, s>> /\ Live(table[d][s])
    BY DEF LiveSlots
  <2>3. PICK h \in Cluster \cup {0} : h = At(e).cluster
    BY <1>2, <2>2 DEF At
  <2>4. x \in InChainOf(G, h)
    BY <1>1, <2>1, <2>3
  <2>5. h # 0
    BY <1>0, <2>4, NoChain, Marks DEF InChainOf
  <2>6. h \in Cluster /\ G[h] # FREE /\ ~LinkedIn(G, h)
    BY <1>2, <2>2, <2>3, <2>5 DEF At
  <2>7. x \in Cluster /\ G[x] # FREE
    BY <1>0, <1>3, <2>4, <2>6, ChainAllocated DEF InChainOf
  <2>8. G[x] \in Cluster => G[x] \in ChainSet(At(e).cluster)
    BY <1>0, <1>1, <1>3, <2>3, <2>4, <2>6, ChainForward
  <2> QED
    BY <2>7, <2>8
<1>5. ASSUME NEW c \in Cluster, NamedIn(table, c) PROVE c \in Heirs
  <2>1. PICK d \in Cluster, s \in Slot : Live(table[d][s]) /\ table[d][s].cluster = c
    BY <1>5 DEF NamedIn
  <2>2. <<d, s>> \in LiveSlots /\ At(<<d, s>>).cluster = c
    BY <2>1 DEF LiveSlots, At
  <2>3. c \in ChainSet(c)
    BY <1>0, <1>1, ChainHead
  <2> QED
    BY <2>2, <2>3
<1> HIDE DEF Heirs
<1>6. Reached(G, table, f, {Root} \cup Heirs)
  <2>1. \A c \in Cluster : ~Held(f, c)
    BY IdleFields DEF Held
  <2>2. Root \in Cluster
    BY ClusterValues
  <2> QED
    BY <1>3, <1>4, <1>5, <2>1, <2>2, Marks DEF Reached, Closed
<1>7. \A c \in Cluster : G[c] # FREE => c \in {Root} \cup Heirs
  BY <1>6 DEF NothingLost, Covered
<1>8. {c \in Cluster : G[c] # FREE} = {Root} \cup Heirs
  BY <1>3, <1>4, <1>7, Marks, ClusterValues
<1> QED
  BY <1>8 DEF Heirs

(* Under the workloads of Tame no cluster is leaked: when no operation has     *)
(* stopped half-way, the allocated clusters between operations are those of    *)
(* the root directory and of the chains that entries name, however long files  *)
(* have been written, cut, moved and removed (fat32_append_cluster,            *)
(* fat32_free_cluster_chain and their callers).                                *)
THEOREM NothingStaysLeaked == Tame => (Spec => []NothingLeaked)
<1> SUFFICES ASSUME Tame PROVE Spec => []NothingLeaked
  OBVIOUS
<1>1. IInv /\ NothingLost => NothingLeaked
  BY Accounted, InvIsIInv DEF NothingLeaked
<1> QED
  BY <1>1, InvariantHolds, NothingLostHolds, PTL

-----------------------------------------------------------------------------
(* Every file has the clusters its size asks for *)

LEMMA NeededNothing == Needed(0) = 0
  BY GeometryAssumption DEF Needed

LEMMA NeededPositive ==
  ASSUME NEW n \in Nat, n > 0
  PROVE  Needed(n) = (n - 1) \div ClusterSize + 1 /\ (n - 1) \div ClusterSize \in Nat
<1>1. ClusterSize \in Nat \ {0}
  BY GeometryAssumption
<1>2. n + ClusterSize - 1 = (n - 1) + ClusterSize /\ n - 1 \in Nat
  BY <1>1
<1>3. ((n - 1) + ClusterSize) \div ClusterSize = (n - 1) \div ClusterSize + 1
  BY <1>1, <1>2
<1> QED
  BY <1>2, <1>3, DivNat DEF Needed

LEMMA NeededMonotone ==
  ASSUME NEW m \in Nat, NEW n \in Nat, m <= n
  PROVE  Needed(m) \in Nat /\ Needed(n) \in Nat /\ Needed(m) <= Needed(n)
<1>1. /\ m + ClusterSize - 1 \in Nat /\ n + ClusterSize - 1 \in Nat
      /\ m + ClusterSize - 1 <= n + ClusterSize - 1
  BY GeometryAssumption
<1> QED
  BY <1>1, DivNat, DivMonotone DEF Needed

\* The chain that begins at c has exactly n clusters.
LengthIs(G, c, n) ==
  n \in 0..MaxCluster /\ \A i \in 0..MaxCluster : Chain(G, c)[i] \in Cluster <=> i < n

\* After its end a chain does not go on.
LEMMA ChainStops ==
  ASSUME NEW G \in FatMap, NEW c \in Link0,
         NEW i \in 0..MaxCluster, NEW k \in 0..MaxCluster, i <= k,
         Chain(G, c)[i] \notin Cluster
  PROVE  Chain(G, c)[k] = Chain(G, c)[i]
<1> DEFINE C == Chain(G, c)
           S == {j \in 0..MaxCluster : j >= i => C[j] = C[i]}
<1>0. MaxCluster \in Nat
  BY GeometryAssumption
<1>1. \A j \in 1..MaxCluster : C[j] = After(G, C[j - 1])
  BY ChainIs
<1> HIDE DEF C
<1>2. 0 \in S
  BY <1>0
<1>3. ASSUME NEW j \in 1..MaxCluster, j - 1 \in S PROVE j \in S
  <2>1. j >= i => j = i \/ j - 1 >= i
    BY <1>0
  <2>2. C[i] \notin Cluster
    BY DEF C
  <2> QED
    BY <1>0, <1>1, <1>3, <2>1, <2>2 DEF After
<1>4. 0..MaxCluster \subseteq S
  <2> HIDE DEF S
  <2> QED
    BY <1>0, <1>2, <1>3, CountsUp
<1> QED
  BY <1>4 DEF C

LEMMA LengthAt ==
  ASSUME NEW G \in FatMap, NEW c \in Link0, NEW n \in 0..MaxCluster,
         Chain(G, c)[n] \notin Cluster, n > 0 => Chain(G, c)[n - 1] \in Cluster
  PROVE  LengthIs(G, c, n)
<1>0. MaxCluster \in Nat
  BY GeometryAssumption
<1>1. ASSUME NEW i \in 0..MaxCluster, i < n PROVE Chain(G, c)[i] \in Cluster
  <2>1. n - 1 \in 0..MaxCluster /\ i <= n - 1 /\ n > 0
    BY <1>0, <1>1
  <2> QED
    BY <2>1, ChainStops
<1>2. ASSUME NEW i \in 0..MaxCluster, ~(i < n) PROVE Chain(G, c)[i] \notin Cluster
  <2>1. n <= i
    BY <1>0, <1>2
  <2> QED
    BY <2>1, ChainStops
<1> QED
  BY <1>1, <1>2 DEF LengthIs

\* A chain that does not meet a free cluster ends in an end-of-chain mark.
LEMMA ChainNeverFree ==
  ASSUME NEW G \in FatMap, SoundLinks(G), NEW c \in Cluster, G[c] # FREE,
         NEW n, LengthIs(G, c, n)
  PROVE  Chain(G, c)[MaxCluster] = EOC
<1> DEFINE C == Chain(G, c)
           S == {j \in 0..MaxCluster : C[j] # FREE}
<1>0. MaxCluster \in Nat
  BY GeometryAssumption
<1>1. C[0] = c /\ \A j \in 1..MaxCluster : C[j] = After(G, C[j - 1])
  BY ChainIs DEF Link0
<1>2. \A j \in 0..MaxCluster : C[j] \in Cluster => G[C[j]] # FREE
  BY ChainAllocated DEF InChainOf
<1>3. C[MaxCluster] \in Link0 /\ C[MaxCluster] \notin Cluster
  BY <1>0, ChainIs DEF LengthIs, Link0
<1> HIDE DEF C
<1>4. 0 \in S
  BY <1>0, <1>1, Marks
<1>5. ASSUME NEW j \in 1..MaxCluster, j - 1 \in S PROVE j \in S
  BY <1>0, <1>1, <1>2, <1>5 DEF After
<1>6. 0..MaxCluster \subseteq S
  <2> HIDE DEF S
  <2> QED
    BY <1>0, <1>4, <1>5, CountsUp
<1> QED
  BY <1>0, <1>3, <1>6 DEF Link0, C

LEMMA LengthCounts ==
  ASSUME NEW G, NEW c, NEW n, LengthIs(G, c, n)
  PROVE  Cardinality({i \in 0..MaxCluster : Chain(G, c)[i] \in Cluster}) = n
<1>1. MaxCluster \in Nat /\ n \in 0..MaxCluster
  BY GeometryAssumption DEF LengthIs
<1>2. {i \in 0..MaxCluster : Chain(G, c)[i] \in Cluster} = 0..(n - 1)
  BY <1>1 DEF LengthIs
<1>3. Cardinality(0..(n - 1)) = n
  BY <1>1, FS_Interval
<1> QED
  BY <1>2, <1>3

Exactly(G, e) == LengthIs(G, e.cluster, Needed(e.size))

\* The operations that change the chain of the file they are about.
Changing(g) == g.op = "write" \/ (g.op = "truncate" /\ g.pc # "seek")

OthersExact(G, T, g) ==
  \A d \in Cluster, s \in Slot :
    T[d][s].kind = "file" /\ ~(Changing(g) /\ <<d, s>> = <<g.dir, g.slot>>) =>
      Exactly(G, T[d][s])

\* What the chain of a write has become: the one it found, or one with as many
\* clusters as the walk has passed.
Grown(G, T, g) ==
  LET n == Needed(Subject(T, g).size)
  IN LengthIs(G, g.first, n) \/ (g.first # 0 /\ LengthIs(G, g.first, g.at + 1) /\ n <= g.at + 1)

WriteExact(G, T, g) == g.op = "write" =>
  LET n == Needed(Subject(T, g).size)
  IN /\ n <= Needed(g.size) /\ g.upto + 1 <= Needed(g.size) /\ Needed(g.size) \in {n, g.upto + 1}
     /\ g.new = 0 => g.first = Subject(T, g).cluster /\ LengthIs(G, g.first, n)
     /\ g.pc \in {"alloc", "mark", "zero", "walk"} => Grown(G, T, g)
     /\ g.pc = "link" => IF g.copy = 1 THEN Grown(G, T, g)
                         ELSE LengthIs(G, g.first, g.at + 2) /\ n <= g.at + 1
     /\ g.pc \in {"data", "update"} => LengthIs(G, g.first, Needed(g.size))

TruncateExact(G, T, g) == g.op = "truncate" =>
  /\ Needed(g.size) = g.upto + 1
  /\ g.pc \in {"free", "size"} \/ (g.pc = "cut" /\ g.copy > 1) => LengthIs(G, g.first, Needed(g.size))

\* The entry that is written, or has been deleted, by the operation; only a
\* rename has a second one.
EntryExact(T, g) ==
  /\ g.op # "rename" => g.sdir = 0
  /\ g.op = "create" => g.size = 0
  /\ g.op \in {"remove", "rmdir"} /\ g.pc = "free" => ~Live(Subject(T, g))

Sized(G, T, g) ==
  OthersExact(G, T, g) /\ WriteExact(G, T, g) /\ TruncateExact(G, T, g) /\ EntryExact(T, g)
Exact == clean => f.pc # "undo" /\ Sized(fat[1], table, f)
SizedNext == Sized(fat'[1], table', f')

LEMMA SizedBegins == ASSUME Tame, Inv, Sized(fat[1], table, f), Call PROVE SizedNext
<1>0. f = Idle /\ fat' = fat /\ table' = table /\ table \in TableMap /\ fat[1] \in FatMap
  BY BeginSound, Volumes
<1>1. \A d \in Cluster, s \in Slot : table[d][s].kind = "file" => Exactly(fat[1], table[d][s])
  BY <1>0, IdleFields DEF Sized, OthersExact, Changing
<1>2. OthersExact(fat'[1], table', f')
  BY <1>0, <1>1 DEF OthersExact
<1>7. f'.op # "rename" => f'.sdir = 0
  <2>1. Create \/ Mkdir => f'.sdir = 0
    BY DEF Create, Mkdir, Idle
  <2>2. Remove \/ RemoveDirectory => f'.sdir = 0
    BY DEF Remove, RemoveDirectory, Idle
  <2>3. Write => f'.sdir = 0
    BY DEF Write, WriteFrom, Idle
  <2>4. Truncate => f'.sdir = 0
    BY DEF Truncate, TruncateFrom, Idle
  <2>5. Rename => f'.op = "rename"
    BY RenameFrame DEF Inv
  <2> QED
    BY <2>1, <2>2, <2>3, <2>4, <2>5 DEF Call
<1>3. CASE Write
  <2>1. PICK d \in Parents, n \in Name, w \in Writes : \E s \in Found(d, n) :
          /\ table[d][s].kind = "file" /\ w[1] <= table[d][s].size
          /\ table[d][s].cluster = 0 => table[d][s].size = 0
          /\ f' = WriteFrom(d, n, s, w)
    BY <1>3 DEF Write
  <2>2. PICK s \in Found(d, n) : table[d][s].kind = "file" /\ f' = WriteFrom(d, n, s, w)
    BY <2>1
  <2>3. d \in Cluster /\ s \in Slot
    BY ParentsInCluster, FoundInSlot
  <2>4. PICK e \in Entry : e = table[d][s]
    BY <1>0, <2>3, Entries
  <2> DEFINE end == w[1] + w[2]
             size == IF end > e.size THEN end ELSE e.size
             upto == (end - 1) \div ClusterSize
  <2>5. e.size \in Nat /\ end \in Nat /\ end > 0
    BY WorkloadAssumption DEF Entry
  <2>6. /\ f'.op = "write" /\ f'.pc = (IF e.cluster = 0 THEN "alloc" ELSE "walk")
        /\ f'.dir = d /\ f'.slot = s /\ f'.first = e.cluster
        /\ f'.size = size /\ f'.upto = upto
    BY <2>2, <2>4 DEF WriteFrom, Idle
  <2>7. /\ Needed(e.size) \in Nat /\ Needed(end) \in Nat /\ Needed(end) = upto + 1
        /\ end <= e.size => Needed(end) <= Needed(e.size)
        /\ e.size <= end => Needed(e.size) <= Needed(end)
    BY <2>5, NeededPositive, NeededMonotone
  <2>8. /\ Needed(e.size) <= Needed(size) /\ upto + 1 <= Needed(size)
        /\ Needed(size) \in {Needed(e.size), upto + 1}
    <3>1. CASE end > e.size
      BY <2>5, <2>7, <3>1
    <3>2. CASE ~(end > e.size)
      BY <2>5, <2>7, <3>2
    <3> QED
      BY <3>1, <3>2
  <2>9. LengthIs(fat[1], e.cluster, Needed(e.size))
    BY <1>1, <2>2, <2>3, <2>4 DEF Exactly
  <2> HIDE DEF end, size, upto
  <2>10. Subject(table', f') = e
    BY <1>0, <2>4, <2>6 DEF Subject
  <2>11. WriteExact(fat'[1], table', f')
    BY <1>0, <2>6, <2>8, <2>9, <2>10 DEF WriteExact, Grown
  <2> QED
    BY <1>2, <1>7, <2>6, <2>11 DEF SizedNext, Sized, TruncateExact, EntryExact
<1>4. CASE Truncate
  <2>1. PICK d \in Parents, n \in Name, size \in TruncSizes : \E s \in Found(d, n) :
          f' = TruncateFrom(d, n, s, size)
    BY <1>4 DEF Truncate
  <2>2. size \in Nat /\ size > 0
    BY WorkloadAssumption DEF Tame
  <2>3. f'.op = "truncate" /\ f'.pc = "seek" /\ f'.size = size /\ f'.upto = (size - 1) \div ClusterSize
    BY <2>1, <2>2 DEF TruncateFrom, Idle
  <2>4. Needed(f'.size) = f'.upto + 1
    BY <2>2, <2>3, NeededPositive
  <2> QED
    BY <1>2, <1>7, <2>3, <2>4 DEF SizedNext, Sized, WriteExact, TruncateExact, EntryExact
<1>5. CASE Create
  <2>1. f'.op = "create" /\ f'.size = 0
    BY <1>5 DEF Create, Idle
  <2> QED
    BY <1>2, <1>7, <2>1 DEF SizedNext, Sized, WriteExact, TruncateExact, EntryExact
<1>6. CASE Mkdir \/ Remove \/ RemoveDirectory \/ Rename
  <2>1. f'.op \in {"mkdir", "remove", "rmdir", "rename"} /\ f'.pc # "free"
    BY <1>6, MkdirFrame, RemoveFrame, RenameFrame DEF Inv
  <2> QED
    BY <1>2, <1>7, <2>1 DEF SizedNext, Sized, WriteExact, TruncateExact, EntryExact
<1> QED
  BY <1>3, <1>4, <1>5, <1>6 DEF Call

\* Entries the operation is not about stay as they are and keep their chains.
LEMMA LiveElsewhere ==
  ASSUME Inv, Next, NEW d \in Cluster, NEW s \in Slot, <<d, s>> \notin Subjects,
         Live(table'[d][s])
  PROVE  table'[d][s] = table[d][s]
<1>1. CASE UNCHANGED <<fat, table>>
  BY <1>1
<1>2. CASE f.pc \in FatSteps /\ WriteFat
  BY <1>2, NextFat
<1>3. CASE f.pc \in TableSteps /\ WriteTable
  <2>1. CASE f.pc \in {"zero", "initdir", "data"}
    BY <1>3, <2>1, BlankEntries
  <2>2. CASE f.pc \in {"entry", "update", "size"}
    BY <1>3, <2>2, SlotWrite DEF OtherSlotsKept, Subjects
  <2>3. CASE f.pc = "delete"
    BY <1>3, <2>3, SlotDelete DEF OtherSlotsKept, Subjects
  <2> QED
    BY <1>3, <2>1, <2>2, <2>3 DEF TableSteps
<1> QED
  BY <1>1, <1>2, <1>3, VolumeWrites

LEMMA ExactElsewhere ==
  ASSUME Inv, PlacedNow, Next, Sized(fat[1], table, f),
         NEW d \in Cluster, NEW s \in Slot, <<d, s>> \notin Subjects,
         table'[d][s].kind = "file"
  PROVE  Exactly(fat'[1], table'[d][s])
<1>1. Live(table'[d][s])
  BY Kinds
<1>2. table'[d][s] = table[d][s] /\ table[d][s].kind = "file"
  BY <1>1, LiveElsewhere
<1>3. PICK e \in Entry : e = table[d][s]
  BY Volumes, Entries
<1>4. PICK h \in Cluster \cup {0} : h = e.cluster
  BY DEF Entry
<1>5. fat[1] \in FatMap /\ h \in Link0
  BY Volumes DEF Link0, FREE
<1>6. fat'[1] \in FatMap
  BY DeviceType, GeometryAssumption DEF Inv, FatMap
<1>7. \A c \in InChainOf(fat[1], h) : fat'[1][c] = fat[1][c]
  BY <1>2, <1>3, <1>4, BystanderStep DEF PlacedNow
<1>8. Chain(fat'[1], h) = Chain(fat[1], h)
  BY <1>5, <1>6, <1>7, ChainSame
<1>9. LengthIs(fat[1], h, Needed(e.size))
  BY <1>2, <1>3, <1>4 DEF Sized, OthersExact, Exactly, Subjects
<1> QED
  BY <1>2, <1>3, <1>4, <1>8, <1>9 DEF Exactly, LengthIs

\* What a call was made with stays until it ends.
LEMMA CallStays ==
  ASSUME TypeInv, Step
  PROVE  \/ f' = Idle
         \/ /\ f'.op = f.op /\ f'.dir = f.dir /\ f'.slot = f.slot /\ f'.sdir = f.sdir
            /\ f'.sslot = f.sslot /\ f'.size = f.size /\ f'.upto = f.upto
<1>1. CASE Allocate \/ Mark \/ ZeroCluster \/ Link \/ Undo
  BY <1>1, AllocateFrame, MarkFrame, ZeroFrame, LinkFrame, UndoFrame DEF Moved
<1>2. CASE InitDirectory \/ WriteEntry \/ Walk \/ WriteData \/ DeleteEntry
  BY <1>2, InitDirectoryFrame, WriteEntryFrame, WalkFrame, WriteDataFrame, DeleteEntryFrame DEF Moved
<1>3. CASE FreeLink \/ Seek \/ Cut
  BY <1>3, FreeFrame, SeekFrame, CutFrame DEF Moved
<1>4. CASE DiskFull \/ BrokenChain \/ UpdateEntry \/ UpdateSize
  BY <1>4 DEF DiskFull, BrokenChain, UpdateEntry, UpdateSize, Done, GiveUp
<1> QED
  BY <1>1, <1>2, <1>3, <1>4 DEF Step

\* For all but a rename, only the entry at <<dir, slot>> is left to account for.
LEMMA OthersKept ==
  ASSUME Inv, PlacedNow, Step, Sized(fat[1], table, f), f.op # "rename",
         table'[f.dir][f.slot].kind = "file" /\ (f' = Idle \/ ~Changing(f')) =>
           Exactly(fat'[1], table'[f.dir][f.slot])
  PROVE  OthersExact(fat'[1], table', f')
<1> SUFFICES ASSUME NEW d \in Cluster, NEW s \in Slot, table'[d][s].kind = "file",
                    ~(Changing(f') /\ <<d, s>> = <<f'.dir, f'.slot>>)
             PROVE  Exactly(fat'[1], table'[d][s])
  BY DEF OthersExact
<1>1. CASE <<d, s>> \notin Subjects
  BY <1>1, ExactElsewhere DEF Next
<1>2. CASE <<d, s>> \in Subjects
  <2>1. f.sdir = 0 /\ d # 0
    BY Marks DEF Sized, EntryExact
  <2>2. d = f.dir /\ s = f.slot
    BY <1>2, <2>1 DEF Subjects
  <2>3. f' = Idle \/ ~Changing(f')
    BY <2>2, CallStays DEF Inv
  <2> QED
    BY <2>2, <2>3
<1> QED
  BY <1>1, <1>2

-----------------------------------------------------------------------------
(* The steps of a write *)

WriteNow == f.op = "write" /\ Inv /\ PlacedNow /\ Sized(fat[1], table, f)

LEMMA WriteFacts ==
  ASSUME WriteNow
  PROVE  /\ f.first \in Cluster \cup {0} /\ f.first \in Link0 /\ fat[1] \in FatMap
         /\ f.at \in Nat /\ f.upto \in Nat /\ f.size \in Nat /\ MaxCluster \in Nat
         /\ f.dir \in Cluster /\ f.slot \in Slot
         /\ Subject(table, f) \in Entry /\ Subject(table, f).kind = "file"
         /\ Needed(Subject(table, f).size) \in Nat /\ Needed(f.size) \in Nat
         /\ f.first = 0 => InChainOf(fat[1], f.first) = {}
<1>1. f.pc # "idle"
  BY IdleFields DEF WriteNow, Inv, TypeInv, FrameTypes
<1>2. /\ f.first \in Cluster \cup {0} /\ fat[1] \in FatMap /\ table \in TableMap
      /\ f.at \in Nat /\ f.upto \in Nat /\ f.size \in Nat /\ MaxCluster \in Nat
      /\ f.dir \in Cluster /\ f.slot \in Slot
  BY <1>1, Locals, Volumes, GeometryAssumption DEF WriteNow, Inv, TypeInv, FrameTypes
<1>3. Subject(table, f) \in Entry
  BY <1>2, Entries DEF Subject
<1>4. Subject(table, f).size \in Nat
  BY <1>3 DEF Entry
<1>5. Needed(Subject(table, f).size) \in Nat /\ Needed(f.size) \in Nat
  BY <1>2, <1>4, NeededMonotone
<1>6. Subject(table, f).kind = "file"
  BY DEF WriteNow, Inv, Sound, InProgress, WriteSound
<1>7. f.first = 0 => InChainOf(fat[1], f.first) = {}
  BY <1>2, NoChain, Marks DEF InChainOf
<1> QED
  BY <1>2, <1>3, <1>5, <1>6, <1>7 DEF Link0, FREE

LEMMA AllocateSized ==
  ASSUME WriteNow, Allocate
  PROVE  WriteExact(fat'[1], table', f')
<1>1. f.pc = "alloc" /\ fat' = fat /\ table' = table
  BY DEF Allocate
<1>2. PICK c \in Cluster : Moved("mark", f.first, c, f.cur, f.next, f.at, f.copy)
  BY AllocateFrame DEF WriteNow, Inv
<1>3. /\ f'.op = "write" /\ f'.pc = "mark" /\ f'.new # 0 /\ f'.first = f.first
      /\ f'.at = f.at /\ f'.size = f.size /\ f'.upto = f.upto
      /\ Subject(table', f') = Subject(table, f)
  BY <1>1, <1>2, Marks DEF Moved, WriteNow, Subject
<1> QED
  BY <1>1, <1>3 DEF WriteNow, Sized, WriteExact, Grown

LEMMA MarkSized ==
  ASSUME WriteNow, Mark
  PROVE  WriteExact(fat'[1], table', f')
<1>1. f.pc = "mark" /\ WriteFat
  BY DEF Mark, FatStep
<1>2. table' = table /\ fat'[1] \in FatMap
  BY <1>1, NextFat DEF FatSteps, WriteNow
<1>3. Chain(fat'[1], f.first) = Chain(fat[1], f.first)
  <2>1. CASE f.first = 0
    BY <1>2, <2>1, WriteFacts, ChainSame
  <2>2. CASE f.first # 0
    BY <1>1, <1>2, <2>2, FileHead, MarkSame, ElsewherePlaced DEF WriteNow, PlacedNow
  <2> QED
    BY <2>1, <2>2
<1>4. /\ f'.op = "write" /\ f'.pc \in {"mark", "zero"} /\ f'.new = f.new /\ f'.first = f.first
      /\ f'.at = f.at /\ f'.size = f.size /\ f'.upto = f.upto
      /\ Subject(table', f') = Subject(table, f)
  BY <1>2, MarkFrame DEF Moved, WriteNow, Inv, Subject
<1>5. f.new # 0
  BY <1>1, Marks DEF WriteNow, Inv, TypeInv, FrameTypes
<1>6. Grown(fat'[1], table', f')
  BY <1>1, <1>3, <1>4 DEF WriteNow, Sized, WriteExact, Grown, LengthIs
<1> QED
  BY <1>4, <1>5, <1>6 DEF WriteNow, Sized, WriteExact

LEMMA ZeroSized ==
  ASSUME WriteNow, ZeroCluster
  PROVE  WriteExact(fat'[1], table', f')
<1>1. f.pc = "zero" /\ WriteTable /\ fat' = fat /\ f.new \in Cluster /\ f.new # 0
  BY Marks DEF ZeroCluster, WriteTable, WriteNow, Inv, TypeInv, FrameTypes
<1>2. table'[f.dir][f.slot] = table[f.dir][f.slot]
  BY <1>1, WriteFacts, BlankEntries, Kinds DEF WriteNow, Subject
<1>3. IF f.first = 0
      THEN Moved("walk", f.new, f.new, f.new, f.next, f.at, f.copy)
      ELSE Moved("link", f.first, f.new, f.cur, f.next, f.at, f.copy)
  BY ZeroFrame DEF WriteNow, Inv
<1>4. /\ f'.op = "write" /\ f'.new # 0 /\ f'.at = f.at /\ f'.size = f.size /\ f'.upto = f.upto
      /\ Subject(table', f') = Subject(table, f)
      /\ f'.pc = IF f.first = 0 THEN "walk" ELSE "link"
      /\ f'.first = IF f.first = 0 THEN f.new ELSE f.first
      /\ f'.copy = 1
  BY <1>1, <1>2, <1>3 DEF Moved, WriteNow, Subject, Inv, Sound, InProgress, FatSteps
<1>5. Grown(fat[1], table, f)
  BY <1>1 DEF WriteNow, Sized, WriteExact
<1>6. CASE f.first # 0
  <2>1. Grown(fat'[1], table', f')
    BY <1>1, <1>4, <1>5, <1>6 DEF Grown
  <2> QED
    BY <1>4, <1>6, <2>1 DEF WriteNow, Sized, WriteExact
<1>7. CASE f.first = 0
  <2>1. LengthIs(fat[1], 0, Needed(Subject(table, f).size))
    BY <1>5, <1>7 DEF Grown
  <2>2. Chain(fat[1], 0)[0] \notin Cluster /\ 0 \in 0..MaxCluster
    BY WriteFacts, NoChain, Marks
  <2>3. Needed(Subject(table, f).size) = 0
    BY <2>1, <2>2, WriteFacts DEF LengthIs
  <2>4. f.at = 0 /\ fat[1][f.new] = EOC
    BY <1>1, <1>7 DEF WriteNow, Inv, TypeInv, FrameTypes, Allocating, Sound, InProgress, NewCluster, FreshIn
  <2>5. 1 \in 0..MaxCluster /\ 0 \in 0..MaxCluster /\ 1 \in 1..MaxCluster /\ f.new \in Link0
    BY <1>1, GeometryAssumption DEF Root, Link0
  <2>6. Chain(fat[1], f.new)[0] = f.new /\ Chain(fat[1], f.new)[1] = After(fat[1], Chain(fat[1], f.new)[0])
    BY <2>5, WriteFacts, ChainIs
  <2>7. LengthIs(fat[1], f.new, 1)
    BY <1>1, <2>4, <2>5, <2>6, WriteFacts, LengthAt, Marks DEF After
  <2>8. Grown(fat'[1], table', f')
    BY <1>1, <1>4, <1>7, <2>3, <2>4, <2>7 DEF Grown
  <2> QED
    BY <1>4, <1>7, <2>8 DEF WriteNow, Sized, WriteExact
<1> QED
  BY <1>6, <1>7

\* A new cluster ends the chain it is linked to.
LEMMA LinkSized ==
  ASSUME WriteNow, Link
  PROVE  WriteExact(fat'[1], table', f')
<1>1. f.pc = "link" /\ WriteFat /\ f.cur \in Cluster /\ f.new \in Cluster /\ f.new # 0
  BY Marks DEF Link, FatStep, WriteNow, Inv, TypeInv, FrameTypes
<1>2. table' = table /\ fat'[1] \in FatMap
  BY <1>1, NextFat DEF FatSteps, WriteNow
<1>3. /\ f.first # 0 /\ f.first \in Cluster /\ ~LinkedIn(fat[1], f.first) /\ SoundLinks(fat[1])
      /\ \A j \in 0..f.at : Chain(fat'[1], f.first)[j] = Chain(fat[1], f.first)[j]
      /\ f.at + 1 \in 0..MaxCluster /\ Chain(fat'[1], f.first)[f.at + 1] = f.new
      /\ OnChain(fat[1], f, f.cur, f.at)
  BY <1>1, LinkChain, FileHead DEF WriteNow, PlacedNow, Placed, Walking, Allocating
<1> DEFINE n == Needed(Subject(table, f).size)
<1>4. n \in Nat /\ f.at \in Nat /\ MaxCluster \in Nat /\ fat[1] \in FatMap
  BY WriteFacts
<1>5. LengthIs(fat'[1], f.first, f.at + 2) /\ n <= f.at + 1
  <2>1. CASE f.copy # 1
    <3>1. fat'[1] = fat[1]
      BY <1>1, <2>1, FirstCopy DEF FatSteps, WriteNow, Inv
    <3> QED
      BY <1>1, <2>1, <3>1 DEF WriteNow, Sized, WriteExact
  <2>2. CASE f.copy = 1
    <3>1. Grown(fat[1], table, f)
      BY <1>1, <2>2 DEF WriteNow, Sized, WriteExact
    <3>2. fat[1][f.cur] = EOC /\ fat[1][f.new] = EOC /\ f.new # f.first /\ f.new # f.cur
      BY <1>1, <1>3, <2>2 DEF WriteNow, Inv, Sound, InProgress, WriteSound, FreshIn
    <3>3. Chain(fat[1], f.first)[f.at] = f.cur /\ f.at \in 0..MaxCluster
      BY <1>3 DEF OnChain
    <3>4. Chain(fat[1], f.first)[f.at + 1] = EOC
      BY <1>1, <1>3, <1>4, <3>2, <3>3, ChainNext
    <3>5. n <= f.at + 1
      <4>1. CASE LengthIs(fat[1], f.first, n)
        <5>1. ~(f.at + 1 < n)
          BY <1>3, <3>4, <4>1, Marks DEF LengthIs
        <5> QED
          BY <1>4, <5>1
      <4> QED
        BY <3>1, <4>1 DEF Grown
    <3>6. fat'[1] = [fat[1] EXCEPT ![f.cur] = f.new]
      BY <1>1, <2>2, FirstCopy DEF FatSteps, FatCell, FatValue, WriteNow, Inv
    <3>7. \A x \in Cluster : fat'[1][x] = IF x = f.cur THEN f.new ELSE fat[1][x]
      BY <1>2, <1>4, <3>6 DEF FatMap
    <3>8. ~LinkedIn(fat'[1], f.first) /\ fat'[1][f.new] = EOC
      BY <1>1, <1>3, <3>2, <3>7 DEF LinkedIn
    <3>9. SoundLinks(fat'[1])
      BY <1>1, <1>2, LinkWrite DEF WriteNow, Volume, Base
    <3>10. /\ (f.at + 1) + 1 \in 0..MaxCluster
           /\ Chain(fat'[1], f.first)[(f.at + 1) + 1] = EOC
      BY <1>1, <1>2, <1>3, <3>8, <3>9, ChainNext
    <3>11. (f.at + 1) + 1 = f.at + 2 /\ f.at + 2 > 0 /\ (f.at + 2) - 1 = f.at + 1
      BY <1>4
    <3>12. LengthIs(fat'[1], f.first, f.at + 2)
      BY <1>1, <1>2, <1>3, <3>10, <3>11, LengthAt, Marks DEF Link0
    <3> QED
      BY <3>5, <3>12
  <2> QED
    BY <2>1, <2>2
<1>6. IF f.copy < NumFats
      THEN Moved("link", f.first, f.new, f.cur, f.next, f.at, f.copy + 1)
      ELSE Moved("walk", f.first, f.new, f.new, f.next, f.at + 1, 1)
  BY LinkFrame DEF WriteNow, Inv
<1>7. /\ f'.op = "write" /\ f'.new # 0 /\ f'.size = f.size /\ f'.upto = f.upto
      /\ f'.first = f.first /\ Subject(table', f') = Subject(table, f)
  BY <1>1, <1>2, <1>6 DEF Moved, WriteNow, Subject
<1>8. CASE f.copy < NumFats
  <2>1. f'.pc = "link" /\ f'.at = f.at /\ f'.copy # 1
    <3>1. f.copy + 1 # 1
      BY Locals DEF WriteNow, Inv
    <3> QED
      BY <1>6, <1>8, <3>1 DEF Moved
  <2> QED
    BY <1>5, <1>7, <2>1 DEF WriteNow, Sized, WriteExact
<1>9. CASE ~(f.copy < NumFats)
  <2>1. f'.pc = "walk" /\ f'.at = f.at + 1
    BY <1>6, <1>9 DEF Moved
  <2>2. (f.at + 1) + 1 = f.at + 2 /\ n <= f.at + 2
    BY <1>4, <1>5
  <2>3. Grown(fat'[1], table', f')
    BY <1>3, <1>5, <1>7, <2>1, <2>2 DEF Grown
  <2> QED
    BY <1>7, <2>1, <2>3 DEF WriteNow, Sized, WriteExact
<1> QED
  BY <1>8, <1>9

LEMMA WalkSized ==
  ASSUME WriteNow, Walk
  PROVE  WriteExact(fat'[1], table', f')
<1>1. f.pc = "walk" /\ fat' = fat /\ table' = table
  BY DEF Walk
<1>2. f.first # 0 /\ OnChain(fat[1], f, f.cur, f.at) /\ f.cur \in Cluster
  <2>1. f.first # 0 /\ f.cur \in Cluster
    BY <1>1 DEF WriteNow, Inv, TypeInv, FrameTypes, Allocating
  <2> QED
    BY <1>1, <2>1 DEF WriteNow, PlacedNow, Placed, Walking
<1>3. OnChain(fat[1], f, fat[1][f.cur], f.at + 1)
  BY <1>1, <1>2, NextPlaced DEF WriteNow, Walking
<1> DEFINE n == Needed(Subject(table, f).size)
<1>4. n \in Nat /\ f.at \in Nat /\ f.upto \in Nat /\ Needed(f.size) \in Nat
  BY WriteFacts
<1>5. /\ Grown(fat[1], table, f)
      /\ n <= Needed(f.size) /\ f.upto + 1 <= Needed(f.size)
      /\ Needed(f.size) \in {n, f.upto + 1}
  BY <1>1 DEF WriteNow, Sized, WriteExact
<1>6. PICK next \in Cluster \cup {FREE, EOC} :
        \/ /\ f.at = f.upto
           /\ Moved("data", f.first, f.new, next, 0, f.from, f.copy)
        \/ Moved("alloc", f.first, f.new, f.cur, next, f.at, f.copy)
        \/ /\ fat[1][f.cur] \in Cluster
           /\ Moved("walk", f.first, f.new, fat[1][f.cur], next, f.at + 1, f.copy)
  BY WalkFrame DEF WriteNow, Inv
<1>7. /\ f'.op = "write" /\ f'.size = f.size /\ f'.upto = f.upto /\ f'.new = f.new
      /\ f'.first = f.first /\ Subject(table', f') = Subject(table, f)
  BY <1>1, <1>6 DEF Moved, WriteNow, Subject
<1>8. f'.new = 0 => /\ f'.first = Subject(table', f').cluster
                    /\ LengthIs(fat'[1], f'.first, n)
  BY <1>1, <1>7 DEF WriteNow, Sized, WriteExact
<1>9. CASE /\ f.at = f.upto
           /\ Moved("data", f.first, f.new, next, 0, f.from, f.copy)
  <2>1. LengthIs(fat[1], f.first, Needed(f.size))
    <3>1. CASE LengthIs(fat[1], f.first, n)
      <4>1. f.at < n
        BY <1>2, <3>1 DEF OnChain, LengthIs
      <4>2. Needed(f.size) = n
        BY <1>4, <1>5, <1>9, <4>1
      <4> QED
        BY <3>1, <4>2
    <3>2. CASE LengthIs(fat[1], f.first, f.at + 1) /\ n <= f.at + 1
      <4>1. Needed(f.size) = f.at + 1
        BY <1>4, <1>5, <1>9, <3>2
      <4> QED
        BY <3>2, <4>1
    <3> QED
      BY <1>5, <3>1, <3>2 DEF Grown
  <2>2. f'.pc = "data"
    BY <1>9 DEF Moved
  <2> QED
    BY <1>1, <1>5, <1>7, <1>8, <2>1, <2>2 DEF WriteExact
<1>10. CASE Moved("alloc", f.first, f.new, f.cur, next, f.at, f.copy)
  <2>1. f'.pc = "alloc" /\ f'.at = f.at
    BY <1>10 DEF Moved
  <2>2. Grown(fat'[1], table', f')
    BY <1>1, <1>5, <1>7, <2>1 DEF Grown
  <2> QED
    BY <1>5, <1>7, <1>8, <2>1, <2>2 DEF WriteExact
<1>11. CASE /\ fat[1][f.cur] \in Cluster
            /\ Moved("walk", f.first, f.new, fat[1][f.cur], next, f.at + 1, f.copy)
  <2>1. f'.pc = "walk" /\ f'.at = f.at + 1
    BY <1>11 DEF Moved
  <2>2. ~LengthIs(fat[1], f.first, f.at + 1)
    <3>1. Chain(fat[1], f.first)[f.at + 1] \in Cluster /\ f.at + 1 \in 0..MaxCluster
      BY <1>3, <1>11 DEF OnChain
    <3> QED
      BY <1>4, <3>1 DEF LengthIs
  <2>3. LengthIs(fat[1], f.first, n)
    BY <1>5, <2>2 DEF Grown
  <2>4. Grown(fat'[1], table', f')
    BY <1>1, <1>7, <2>3 DEF Grown
  <2> QED
    BY <1>5, <1>7, <1>8, <2>1, <2>4 DEF WriteExact
<1> QED
  BY <1>6, <1>9, <1>10, <1>11

LEMMA DataSized ==
  ASSUME WriteNow, WriteData, clean'
  PROVE  IF f' = Idle THEN Exactly(fat'[1], table'[f.dir][f.slot])
         ELSE WriteExact(fat'[1], table', f')
<1>1. f.pc = "data" /\ WriteTable /\ fat' = fat
  BY DEF WriteData, WriteTable
<1>2. table'[f.dir][f.slot] = table[f.dir][f.slot]
  BY <1>1, WriteFacts, BlankEntries, Kinds DEF WriteNow, Subject
<1>3. LengthIs(fat[1], f.first, Needed(f.size))
  BY <1>1 DEF WriteNow, Sized, WriteExact
<1>4. CASE f' # Idle
  <2>1. /\ f'.op = "write" /\ f'.size = f.size /\ f'.upto = f.upto /\ f'.new = f.new
        /\ f'.first = f.first /\ f'.pc \in {"data", "update"}
        /\ Subject(table', f') = Subject(table, f)
    BY <1>2, <1>4, WriteDataFrame DEF Moved, WriteNow, Inv, Subject
  <2> QED
    BY <1>1, <1>3, <1>4, <2>1 DEF WriteNow, Sized, WriteExact
<1>5. CASE f' = Idle
  <2>1. f' # [f EXCEPT !.pc = "update"]
    BY <1>5, Locals, IdleFields DEF WriteNow, Inv, Frame
  <2>2. f' # [f EXCEPT !.cur = fat[1][f.cur], !.at = @ + 1]
    BY <1>1, <1>5, Locals, IdleFields DEF WriteNow, Inv, Frame
  <2>3. f.size = Subject(table, f).size /\ f.first = Subject(table, f).cluster
    BY <2>1, <2>2 DEF WriteData, GiveUp, Subject
  <2> QED
    BY <1>1, <1>2, <1>3, <1>5, <2>3 DEF Exactly, Subject
<1> QED
  BY <1>4, <1>5

LEMMA WriteStops ==
  ASSUME WriteNow, DiskFull \/ BrokenChain \/ UpdateEntry, clean'
  PROVE  f' = Idle /\ Exactly(fat'[1], table'[f.dir][f.slot])
<1>1. CASE DiskFull \/ BrokenChain
  <2>1. f' = Idle /\ fat' = fat /\ table' = table /\ f.new = 0
    BY <1>1 DEF DiskFull, BrokenChain, Done, GiveUp
  <2> QED
    BY <2>1 DEF WriteNow, Sized, WriteExact, Exactly, Subject
<1>2. CASE UpdateEntry
  <2>1. f.pc = "update" /\ WriteTable /\ f' = Idle /\ fat' = fat
    BY <1>2 DEF UpdateEntry, WriteTable, Done
  <2>2. table'[f.dir][f.slot].cluster = f.first /\ table'[f.dir][f.slot].size = f.size
    BY <2>1, SlotWrite DEF WriteNow
  <2>3. LengthIs(fat[1], f.first, Needed(f.size))
    BY <2>1 DEF WriteNow, Sized, WriteExact
  <2> QED
    BY <2>1, <2>2, <2>3 DEF Exactly
<1> QED
  BY <1>1, <1>2

LEMMA WriteStep ==
  ASSUME WriteNow, Step, f.pc # "undo", clean'
  PROVE  SizedNext
<1>1. Inv /\ PlacedNow /\ Sized(fat[1], table, f) /\ f.op = "write"
  BY DEF WriteNow
<1>2. f.pc \in Allocating \cup {"walk", "data", "update"}
  BY <1>1 DEF Inv, Sound, InProgress, WriteSound
<1>3. \/ Allocate \/ Mark \/ ZeroCluster \/ Link \/ Walk
      \/ DiskFull \/ BrokenChain \/ UpdateEntry
      \/ WriteData
  BY <1>2 DEF Step, Undo, InitDirectory, WriteEntry, DeleteEntry, FreeLink, Seek, Cut,
     UpdateSize, Allocating
<1>4. /\ f' = Idle => Exactly(fat'[1], table'[f.dir][f.slot])
      /\ f' # Idle => WriteExact(fat'[1], table', f')
  <2>1. CASE Allocate \/ Mark \/ ZeroCluster \/ Link \/ Walk
    <3>1. f'.op = "write"
      BY <1>1, <2>1, AllocateFrame, MarkFrame, ZeroFrame, LinkFrame, WalkFrame DEF Moved, Inv
    <3>2. f' # Idle
      BY <3>1, IdleFields
    <3> QED
      BY <2>1, <3>2, AllocateSized, MarkSized, ZeroSized, LinkSized, WalkSized
  <2>2. CASE DiskFull \/ BrokenChain \/ UpdateEntry
    BY <2>2, WriteStops
  <2>3. CASE WriteData
    BY <2>3, DataSized
  <2> QED
    BY <1>3, <2>1, <2>2, <2>3
<1>5. f' = Idle \/ (f'.op = "write" /\ f'.sdir = f.sdir)
  BY <1>1, CallStays DEF Inv
<1>6. OthersExact(fat'[1], table', f')
  BY <1>1, <1>4, <1>5, OthersKept DEF Changing
<1>7. CASE f' = Idle
  BY <1>6, <1>7, IdleFields DEF SizedNext, Sized, WriteExact, TruncateExact, EntryExact
<1>8. CASE f' # Idle
  BY <1>1, <1>4, <1>5, <1>6, <1>8 DEF SizedNext, Sized, TruncateExact, EntryExact
<1> QED
  BY <1>7, <1>8

-----------------------------------------------------------------------------
(* The steps of a truncation *)

TruncateNow == f.op = "truncate" /\ Inv /\ PlacedNow /\ Sized(fat[1], table, f)

LEMMA TruncateFacts ==
  ASSUME TruncateNow
  PROVE  /\ f.dir \in Cluster /\ f.slot \in Slot /\ fat[1] \in FatMap /\ table \in TableMap
         /\ Subject(table, f).kind = "file" /\ Subject(table, f).cluster = f.first
         /\ f.pc \in {"seek", "cut", "free", "size"}
<1>1. f.pc # "idle"
  BY IdleFields DEF TruncateNow, Inv, TypeInv, FrameTypes
<1> QED
  BY <1>1, Locals, Volumes DEF TruncateNow, Inv, TypeInv, FrameTypes, Sound, InProgress, TruncateSound

\* The chain that is cut keeps as many clusters as the new size asks for.
LEMMA CutLength ==
  ASSUME TruncateNow, Cut
  PROVE  LengthIs(fat'[1], f.first, Needed(f.size))
<1>1. f.pc = "cut" /\ WriteFat
  BY DEF Cut
<1>2. /\ f.first # 0 /\ OnChain(fat[1], f, f.cur, f.at) /\ f.at = f.upto
      /\ \A j \in 0..f.at : Chain(fat'[1], f.first)[j] = Chain(fat[1], f.first)[j]
      /\ f.at \in Nat /\ f.at + 1 \in 0..MaxCluster
      /\ Chain(fat'[1], f.first)[f.at + 1] = EOC
  BY <1>1, CutChain DEF TruncateNow, PlacedNow
<1>3. fat'[1] \in FatMap /\ f.first \in Cluster /\ f.cur \in Cluster
  BY <1>1, <1>2, NextFat, FileHead DEF FatSteps, TruncateNow, Walking
<1>4. Chain(fat'[1], f.first)[f.at] \in Cluster
  BY <1>2, <1>3 DEF OnChain
<1>5. (f.at + 1) - 1 = f.at
  BY <1>2
<1>6. LengthIs(fat'[1], f.first, f.at + 1)
  BY <1>2, <1>3, <1>4, <1>5, LengthAt, Marks DEF Link0
<1> QED
  BY <1>2, <1>6 DEF TruncateNow, Sized, TruncateExact

\* The clusters freed are not those of the chain that is left.
LEMMA FreeLength ==
  ASSUME TruncateNow, FreeLink
  PROVE  LengthIs(fat'[1], f.first, Needed(f.size))
<1>1. f.pc = "free" /\ WriteFat /\ f.cur \in Cluster /\ f.op = "truncate"
  BY DEF FreeLink, TruncateNow, Inv, TypeInv, FrameTypes
<1>2. LengthIs(fat[1], f.first, Needed(f.size))
  BY <1>1 DEF TruncateNow, Sized, TruncateExact
<1>3. fat'[1] \in FatMap /\ fat[1] \in FatMap
  BY <1>1, NextFat, TruncateFacts DEF FatSteps, TruncateNow
<1>4. f.first \in Cluster \cup {0} /\ f.first \in Link0
  BY Locals DEF TruncateNow, Inv, Link0, FREE
<1>5. \A x \in InChainOf(fat[1], f.first) : fat'[1][x] = fat[1][x]
  <2>1. CASE f.copy # 1
    BY <1>1, <2>1, FirstCopy DEF FatSteps, TruncateNow, Inv
  <2>2. CASE f.first = 0
    BY <1>3, <2>2, NoChain, Marks DEF InChainOf
  <2>3. CASE f.copy = 1 /\ f.first # 0
    <3>1. fat'[1] = [fat[1] EXCEPT ![f.cur] = FREE]
      BY <1>1, <2>3, FirstCopy DEF FatSteps, FatCell, FatValue, TruncateNow, Inv
    <3>2. LooseIn(fat[1], table, f.cur)
      BY <1>1, <2>3 DEF TruncateNow, Inv, Sound, InProgress, Freeing
    <3>3. f.cur # f.first
      BY <3>2, TruncateFacts, Kinds DEF LooseIn, NamedIn, Subject
    <3>4. f.first \in Cluster /\ ~LinkedIn(fat[1], f.first) /\ SoundLinks(fat[1])
      BY <1>1, <2>3, FileHead DEF TruncateNow
    <3>5. f.cur \notin InChainOf(fat[1], f.first)
      BY <1>1, <1>3, <3>2, <3>3, <3>4, ChainHead, ChainsApart DEF LooseIn
    <3> QED
      BY <1>3, <3>1, <3>5 DEF FatMap, InChainOf
  <2> QED
    BY <2>1, <2>2, <2>3
<1>6. Chain(fat'[1], f.first) = Chain(fat[1], f.first)
  BY <1>3, <1>4, <1>5, ChainSame
<1> QED
  BY <1>2, <1>6 DEF LengthIs

LEMMA TruncateStep ==
  ASSUME TruncateNow, Step, clean'
  PROVE  SizedNext
<1>1. Inv /\ PlacedNow /\ Sized(fat[1], table, f) /\ f.op = "truncate"
  BY DEF TruncateNow
<1>2. Seek \/ BrokenChain \/ Cut \/ FreeLink \/ UpdateSize
  BY TruncateFacts
  DEF Step, Allocate, DiskFull, Mark, ZeroCluster, Link, Undo, InitDirectory, WriteEntry, Walk,
      WriteData, UpdateEntry, DeleteEntry
<1>3. CASE Seek \/ BrokenChain
  <2>1. f.pc = "seek" /\ fat' = fat /\ table' = table
    BY <1>3, TruncateFacts DEF Seek, BrokenChain
  <2>2. \A d \in Cluster, s \in Slot : table[d][s].kind = "file" => Exactly(fat[1], table[d][s])
    BY <1>1, <2>1 DEF Sized, OthersExact, Changing
  <2>3. OthersExact(fat'[1], table', f')
    BY <2>1, <2>2 DEF OthersExact
  <2>5. CASE f' = Idle
    BY <2>3, <2>5, IdleFields DEF SizedNext, Sized, WriteExact, TruncateExact, EntryExact
  <2>6. CASE f' # Idle
    <3>1. /\ f'.op = "truncate" /\ f'.pc \in {"seek", "cut"} /\ f'.copy = 1
          /\ f'.sdir = f.sdir /\ f'.size = f.size /\ f'.upto = f.upto
          /\ Subject(table', f') = Subject(table, f)
      <4>1. Seek /\ f.copy = 1
        BY <1>3, <2>1, <2>6 DEF BrokenChain, Done, GiveUp, TruncateNow, Inv, Sound, InProgress, FatSteps
      <4> QED
        BY <1>1, <2>1, <4>1, SeekFrame DEF Moved, Inv, Subject
    <3>2. TruncateExact(fat'[1], table', f')
      BY <1>1, <3>1 DEF Sized, TruncateExact
    <3> QED
      BY <1>1, <2>3, <3>1, <3>2 DEF SizedNext, Sized, WriteExact, EntryExact
  <2> QED
    BY <2>5, <2>6
<1>4. CASE Cut \/ FreeLink
  <2>1. LengthIs(fat'[1], f.first, Needed(f.size))
    BY <1>4, CutLength, FreeLength
  <2>2. f' # Idle
    <3>1. CASE Cut
      BY <1>1, <3>1, CutFrame, IdleFields DEF Moved, Inv
    <3>2. CASE FreeLink
      BY <1>1, <3>2, FreeFrame, IdleFields DEF Moved, Inv
    <3> QED
      BY <1>4, <3>1, <3>2
  <2>3. /\ f'.op = "truncate" /\ f'.first = f.first
        /\ f'.pc \in {"free", "size"} \/ (f'.pc = "cut" /\ f'.copy # 1)
    <3>0. f.copy + 1 # 1
      BY Locals DEF TruncateNow, Inv
    <3>1. CASE Cut
      BY <1>1, <2>2, <3>0, <3>1, CutFrame DEF Moved, Inv
    <3>2. CASE FreeLink
      BY <1>1, <2>2, <3>0, <3>2, FreeFrame DEF Moved, Inv
    <3> QED
      BY <1>4, <3>1, <3>2
  <2>4. f'.sdir = f.sdir /\ f'.size = f.size /\ f'.upto = f.upto
    BY <1>1, <2>2, CallStays DEF Inv
  <2>5. OthersExact(fat'[1], table', f')
    BY <1>1, <2>2, <2>3, OthersKept DEF Changing
  <2>6. TruncateExact(fat'[1], table', f')
    BY <1>1, <2>1, <2>3, <2>4 DEF Sized, TruncateExact
  <2> QED
    BY <1>1, <2>3, <2>4, <2>5, <2>6 DEF SizedNext, Sized, WriteExact, EntryExact
<1>5. CASE UpdateSize
  <2>1. f.pc = "size" /\ WriteTable /\ f' = Idle /\ fat' = fat
    BY <1>5 DEF UpdateSize, WriteTable, Done
  <2>2. /\ table'[f.dir][f.slot].cluster = f.first /\ table'[f.dir][f.slot].size = f.size
    BY <1>1, <2>1, SlotWrite, TruncateFacts DEF Subject
  <2>3. Exactly(fat'[1], table'[f.dir][f.slot])
    BY <1>1, <2>1, <2>2 DEF Sized, TruncateExact, Exactly
  <2>4. OthersExact(fat'[1], table', f')
    BY <1>1, <2>3, OthersKept
  <2> QED
    BY <2>1, <2>4, IdleFields DEF SizedNext, Sized, WriteExact, TruncateExact, EntryExact
<1> QED
  BY <1>2, <1>3, <1>4, <1>5

-----------------------------------------------------------------------------
(* The steps of the other operations *)

LEMMA MkdirStep ==
  ASSUME Tame, Inv, PlacedNow, Sized(fat[1], table, f), f.op = "mkdir", Step
  PROVE  SizedNext
<1>1. SlotFree(Subject(table, f))
  BY DEF Inv, Sound, InProgress, MkdirSound, EntersFree
<1>2. table'[f.dir][f.slot].kind # "file"
  <2>1. CASE table' = table
    BY <1>1, <2>1 DEF Subject, SlotFree
  <2>2. CASE WriteTable /\ f.pc \in {"zero", "initdir"}
    <3>1. f.dir \in Cluster /\ f.slot \in Slot
      BY <2>2, Locals DEF Inv, TypeInv, FrameTypes
    <3>2. ~Live(table[f.dir][f.slot])
      BY <1>1, Kinds DEF Subject
    <3> QED
      BY <2>2, <3>1, <3>2, BlankEntries, Kinds
  <2>3. CASE WriteTable /\ f.pc = "entry"
    BY <2>3, SlotWrite, EntryFields
  <2>4. table' = table \/ (WriteTable /\ f.pc \in {"zero", "initdir", "entry"})
    <3>1. table' = table \/ (WriteTable /\ f.pc \in TableSteps)
      BY TableWrites DEF Inv
    <3>2. f.pc \in {"alloc", "mark", "zero", "initdir", "entry", "undo"}
      BY DEF Inv, Sound, InProgress, MkdirSound
    <3> QED
      BY <3>1, <3>2 DEF TableSteps
  <2> QED
    BY <2>1, <2>2, <2>3, <2>4
<1>3. OthersExact(fat'[1], table', f')
  BY <1>2, OthersKept
<1>4. f' = Idle \/ (f'.op = "mkdir" /\ f'.sdir = f.sdir)
  BY CallStays DEF Inv
<1>5. CASE f' = Idle
  BY <1>3, <1>5, IdleFields DEF SizedNext, Sized, WriteExact, TruncateExact, EntryExact
<1>6. CASE f'.op = "mkdir" /\ f'.sdir = f.sdir
  BY <1>3, <1>6 DEF SizedNext, Sized, WriteExact, TruncateExact, EntryExact
<1> QED
  BY <1>4, <1>5, <1>6

LEMMA CreateStep ==
  ASSUME Inv, PlacedNow, Sized(fat[1], table, f), f.op = "create", Step
  PROVE  SizedNext
<1>1. f.pc = "entry" /\ f.first = 0 /\ f.size = 0
  BY DEF Inv, Sound, InProgress, CreateSound, Sized, EntryExact
<1>2. WriteEntry
  BY <1>1 DEF Step, Allocate, DiskFull, Mark, ZeroCluster, Link, Undo, InitDirectory, Walk,
     BrokenChain, WriteData, UpdateEntry, DeleteEntry, FreeLink, Seek, Cut, UpdateSize
<1>3. f' = Idle /\ WriteTable /\ fat' = fat
  BY <1>2 DEF WriteEntry, Done, WriteTable
<1>4. table'[f.dir][f.slot] = NewEntry
  BY <1>1, <1>3, SlotWrite
<1>5. NewEntry.cluster = 0 /\ NewEntry.size = 0
  BY <1>1 DEF NewEntry
<1>6. LengthIs(fat[1], 0, 0)
  BY Volumes, NoChain, Marks, GeometryAssumption DEF LengthIs
<1>7. Exactly(fat'[1], table'[f.dir][f.slot])
  BY <1>3, <1>4, <1>5, <1>6, NeededNothing DEF Exactly
<1>8. OthersExact(fat'[1], table', f')
  BY <1>7, OthersKept
<1> QED
  BY <1>3, <1>8, IdleFields DEF SizedNext, Sized, WriteExact, TruncateExact, EntryExact

LEMMA RemoveStep ==
  ASSUME Inv, PlacedNow, Sized(fat[1], table, f), f.op \in {"remove", "rmdir"}, Step
  PROVE  SizedNext
<1>1. f.pc \in {"delete", "free"}
  BY DEF Inv, Sound, InProgress, RemoveSound
<1>2. DeleteEntry \/ FreeLink
  BY <1>1 DEF Step, Allocate, DiskFull, Mark, ZeroCluster, Link, Undo, InitDirectory, WriteEntry,
     Walk, BrokenChain, WriteData, UpdateEntry, Seek, Cut, UpdateSize
<1>3. ~Live(table'[f.dir][f.slot])
  <2>1. CASE DeleteEntry
    BY <2>1, SlotDelete DEF DeleteEntry
  <2>2. CASE FreeLink
    <3>1. f.pc = "free" /\ table' = table
      BY <2>2 DEF FreeLink, WriteFat
    <3> QED
      BY <3>1 DEF Sized, EntryExact, Subject
  <2> QED
    BY <1>2, <2>1, <2>2
<1>4. OthersExact(fat'[1], table', f')
  BY <1>3, OthersKept, Kinds
<1>5. f' = Idle \/ (/\ f'.op \in {"remove", "rmdir"} /\ f'.sdir = f.sdir
                    /\ Subject(table', f') = table'[f.dir][f.slot])
  BY CallStays DEF Inv, Subject
<1>6. CASE f' = Idle
  BY <1>4, <1>6, IdleFields DEF SizedNext, Sized, WriteExact, TruncateExact, EntryExact
<1>7. CASE /\ f'.op \in {"remove", "rmdir"} /\ f'.sdir = f.sdir
           /\ Subject(table', f') = table'[f.dir][f.slot]
  BY <1>3, <1>4, <1>7 DEF SizedNext, Sized, WriteExact, TruncateExact, EntryExact
<1> QED
  BY <1>5, <1>6, <1>7

\* A rename writes no FAT: both entries name the chain of the one file.
LEMMA RenameStep ==
  ASSUME Inv, Moving, Sized(fat[1], table, f), f.op = "rename", Step
  PROVE  SizedNext
<1>1. f.pc \in {"entry", "delete"} /\ f.sdir \in Cluster /\ f.sslot \in Slot
  BY Locals DEF Inv, TypeInv, FrameTypes, Sound, InProgress, RenameSound
<1>2. WriteEntry \/ DeleteEntry
  BY <1>1 DEF Step, Allocate, DiskFull, Mark, ZeroCluster, Link, Undo, InitDirectory,
     Walk, BrokenChain, WriteData, UpdateEntry, FreeLink, Seek, Cut, UpdateSize
<1>3. WriteTable /\ fat' = fat
  BY <1>2 DEF WriteEntry, DeleteEntry, WriteTable
<1>4. \A d \in Cluster, s \in Slot : table[d][s].kind = "file" => Exactly(fat[1], table[d][s])
  BY DEF Sized, OthersExact, Changing
<1>5. LengthIs(fat[1], f.first, Needed(f.size))
  BY <1>1, <1>4 DEF Moving, SameFile, Exactly
<1>6. ASSUME NEW d \in Cluster, NEW s \in Slot, table'[d][s].kind = "file"
      PROVE  Exactly(fat'[1], table'[d][s])
  <2>1. CASE f.pc = "entry"
    <3>1. /\ SameFile(table'[f.dir][f.slot])
          /\ <<d, s>> # <<f.dir, f.slot>> => table'[d][s] = table[d][s]
      BY <1>3, <2>1, RenameWrites DEF Inv, DeviceWrite, TableSteps
    <3>2. CASE <<d, s>> = <<f.dir, f.slot>>
      BY <1>3, <1>5, <3>1, <3>2 DEF SameFile, Exactly
    <3>3. CASE <<d, s>> # <<f.dir, f.slot>>
      BY <1>3, <1>4, <1>6, <3>1, <3>3
    <3> QED
      BY <3>2, <3>3
  <2>2. CASE f.pc = "delete"
    <3>1. PICK x \in Cluster, y \in Slot : OtherSlotsKept(x, y) /\ ~Live(table'[x][y])
      BY <1>3, <2>2, SlotDelete
    <3>2. <<d, s>> # <<x, y>>
      BY <1>6, <3>1, Kinds
    <3> QED
      BY <1>3, <1>4, <1>6, <3>1, <3>2 DEF OtherSlotsKept
  <2> QED
    BY <1>1, <2>1, <2>2
<1>7. f' = Idle \/ f'.op = "rename"
  BY CallStays DEF Inv
<1>8. OthersExact(fat'[1], table', f')
  BY <1>6 DEF OthersExact
<1> QED
  BY <1>7, <1>8, IdleFields DEF SizedNext, Sized, WriteExact, TruncateExact, EntryExact

LEMMA ExactStep ==
  ASSUME Tame, Inv, PlacedNow, Moving, Exact, Next
  PROVE  Exact'
<1> SUFFICES ASSUME clean' PROVE f'.pc # "undo" /\ SizedNext
  BY DEF Exact, SizedNext
<1>1. clean /\ ~DeviceFails /\ ~Crash
  BY CleanStays DEF Inv
<1>2. f.pc # "undo" /\ Sized(fat[1], table, f)
  BY <1>1 DEF Exact
<1>3. CASE Call
  BY <1>2, <1>3, SizedBegins, NeverRollsBack DEF Inv
<1>4. CASE Step
  <2>1. f.op \in AllOps
    <3>1. f.pc # "idle"
      BY <1>4 DEF Step, Allocate, DiskFull, Mark, ZeroCluster, Link, Undo, InitDirectory,
         WriteEntry, Walk, BrokenChain, WriteData, UpdateEntry, DeleteEntry, FreeLink, Seek, Cut,
         UpdateSize
    <3> QED
      BY <3>1, Locals, WorkloadAssumption DEF Inv, TypeInv, FrameTypes, Frame
  <2>2. SizedNext
    BY <1>2, <1>4, <2>1, WriteStep, TruncateStep, MkdirStep, CreateStep, RemoveStep, RenameStep
    DEF AllOps, WriteNow, TruncateNow
  <2>3. f'.pc # "undo"
    BY <1>2, <1>4, NeverRollsBack DEF Inv
  <2> QED
    BY <2>2, <2>3
<1> QED
  BY <1>1, <1>3, <1>4 DEF Next

LEMMA MovingHolds == Spec => []Moving
<1>1. Init => Moving
  BY IdleFields DEF Init, Moving
<1>2. TypeInv /\ Moving /\ [Next]_vars => Moving'
  <2>1. ASSUME Moving, UNCHANGED vars PROVE Moving'
    BY <2>1 DEF vars, Moving, SameFile
  <2> QED
    BY <2>1, MovingStep
<1> QED
  BY <1>1, <1>2, TypesHold, PTL DEF Spec

LEMMA ExactHolds == Tame => (Spec => []Exact)
<1> SUFFICES ASSUME Tame PROVE Spec => []Exact
  OBVIOUS
<1>1. Init => Exact
  <2> SUFFICES ASSUME Init PROVE Exact
    OBVIOUS
  <2>1. \A d \in Cluster, s \in Slot : table[d][s].kind # "file"
    BY Kinds DEF Init, Zeroed
  <2> QED
    BY <2>1, IdleFields
    DEF Init, Exact, Sized, OthersExact, WriteExact, TruncateExact, EntryExact
<1>2. IInv /\ PlacedNow /\ Moving /\ Exact /\ [Next]_vars => Exact'
  <2>1. ASSUME Exact, UNCHANGED vars PROVE Exact'
    BY <2>1 DEF vars, Exact
  <2> QED
    BY <2>1, ExactStep, InvIsIInv
<1> QED
  BY <1>1, <1>2, InvariantHolds, PlacedHolds, MovingHolds, PTL DEF Spec

\* What an exact entry says of the chain it names.
LEMMA ExactChain ==
  ASSUME Inv, Exact, clean, f = Idle, NEW e \in LiveSlots, At(e).kind = "file"
  PROVE  /\ ChainLength(At(e).cluster) = Needed(At(e).size)
         /\ At(e).cluster # 0 => ChainAt(At(e).cluster)[MaxCluster] = EOC
<1>1. PICK d \in Cluster, s \in Slot : e = <<d, s>> /\ At(e) = table[d][s] /\ Live(table[d][s])
  BY DEF LiveSlots, At
<1>2. Exactly(fat[1], table[d][s])
  BY <1>1, IdleFields DEF Exact, Sized, OthersExact, Changing
<1>3. PICK h \in Cluster \cup {0}, n \in Nat : h = At(e).cluster /\ n = Needed(At(e).size)
  <2>1. table[d][s] \in Entry
    BY Volumes, Entries
  <2> QED
    BY <1>1, <2>1, NeededMonotone DEF Entry
<1>4. LengthIs(fat[1], h, n)
  BY <1>1, <1>2, <1>3 DEF Exactly
<1>5. ChainAt(h) = Chain(fat[1], h)
  BY DEF ChainAt, Chain
<1>6. ChainLength(h) = n
  BY <1>4, <1>5, LengthCounts DEF ChainLength
<1>7. h # 0 => ChainAt(h)[MaxCluster] = EOC
  <2> SUFFICES ASSUME h # 0 PROVE ChainAt(h)[MaxCluster] = EOC
    OBVIOUS
  <2>1. fat[1] \in FatMap /\ table \in TableMap /\ Base(fat[1], table)
    BY Volumes
  <2>2. h \in Cluster /\ fat[1][h] # FREE /\ SoundLinks(fat[1])
    BY <1>1, <1>3, <2>1 DEF Base, SoundHeads
  <2> QED
    BY <1>4, <1>5, <2>1, <2>2, ChainNeverFree
<1> QED
  BY <1>3, <1>6, <1>7

(* Under the workloads of Tame, when no operation has stopped half-way, every  *)
(* file has as many clusters as its size asks for and its chain ends in an     *)
(* end-of-chain mark: fat32_write appends what is missing and no more, and     *)
(* fat32_truncate keeps what the new size needs.                               *)
THEOREM ChainsStayExact == Tame => (Spec => []ChainsExact)
<1> SUFFICES ASSUME Tame PROVE Spec => []ChainsExact
  OBVIOUS
<1>1. IInv /\ Exact => ChainsExact
  BY ExactChain, InvIsIInv DEF ChainsExact
<1> QED
  BY <1>1, InvariantHolds, ExactHolds, PTL
=============================================================================
