---------------------------- MODULE Shell_proofs ----------------------------
(* What the shell's commands, paths and scripts do, for any disk, any lines   *)
(* typed, and buffers, arguments and nesting of any size.                     *)
EXTENDS Shell, TLAPS, WellFoundedInduction, FiniteSetTheorems, SequenceTheorems

-----------------------------------------------------------------------------
(* Induction over numbers, as facts about sets *)

\* Every set of naturals has a least element.
LEMMA Least ==
  ASSUME NEW T \in SUBSET Nat, T # {}
  PROVE  \E x \in T : \A y \in T : ~(y < x)
<1> DEFINE R == OpToRel(<, Nat)
<1>1. IsWellFoundedOn(R, Nat)
  BY NatLessThanWellFounded
<1>2. \A x, y \in Nat : y < x => <<y, x>> \in R
  BY DEF OpToRel
<1> HIDE DEF R
<1>3. PICK x \in T : \A y \in T : ~(<<y, x>> \in R)
  BY <1>1, WFMin
<1> QED
  BY <1>2, <1>3

\* A set that has 0 and with each number the next has them all.
LEMMA Climb ==
  ASSUME NEW n \in Nat, NEW T, 0 \in T, \A k \in 1..n : k - 1 \in T => k \in T
  PROVE  0..n \subseteq T
<1> DEFINE B == {k \in 0..n : k \notin T}
<1> SUFFICES ASSUME B # {} PROVE FALSE
  OBVIOUS
<1>1. B \in SUBSET Nat
  OBVIOUS
<1>2. PICK k \in B : \A j \in B : ~(j < k)
  <2> HIDE DEF B
  <2> QED
    BY <1>1, Least
<1>3. k \in 1..n /\ k - 1 \in 0..n /\ k - 1 < k
  OBVIOUS
<1> QED
  BY <1>2, <1>3

\* A step that stays in a set can be taken n times.
StaysIn(S, F, n) == \A x \in S, i \in 1..n : F[i][x] \in S
Runs(f, a, F, n) == f[0] = a /\ \A i \in 1..n : f[i] = F[i][f[i - 1]]

LEMMA Iterates ==
  ASSUME NEW S, NEW a \in S, NEW n \in Nat, NEW F, StaysIn(S, F, n)
  PROVE  \E f \in [0..n -> S] : Runs(f, a, F, n)
<1>0. \A x \in S, i \in 1..n : F[i][x] \in S
  BY DEF StaysIn
<1> DEFINE Ok(f, k) == f \in [0..k -> S] /\ f[0] = a /\ \A i \in 1..k : f[i] = F[i][f[i - 1]]
           T == {k \in 0..n : \E f : Ok(f, k)}
<1>1. 0 \in T
  <2>1. Ok([i \in 0..0 |-> a], 0)
    OBVIOUS
  <2> HIDE DEF Ok
  <2> QED
    BY <2>1
<1>2. ASSUME NEW k \in 1..n, k - 1 \in T PROVE k \in T
  <2>1. PICK f : Ok(f, k - 1)
    BY <1>2
  <2> DEFINE g == [i \in 0..k |-> IF i = k THEN F[k][f[k - 1]] ELSE f[i]]
  <2>2. k - 1 \in 0..(k - 1) /\ k \in 1..n /\ 0 # k /\ 0 \in 0..k /\ 0 \in 0..(k - 1)
    OBVIOUS
  <2>3. f[k - 1] \in S /\ F[k][f[k - 1]] \in S
    BY <1>0, <2>1, <2>2
  <2>4. ASSUME NEW i \in 0..k, i # k PROVE i \in 0..(k - 1) /\ g[i] = f[i] /\ f[i] \in S
    BY <2>1, <2>4
  <2>5. g \in [0..k -> S] /\ g[0] = a
    BY <2>1, <2>2, <2>3, <2>4
  <2>6. ASSUME NEW i \in 1..k PROVE g[i] = F[i][g[i - 1]]
    <3>1. i \in 0..k /\ i - 1 \in 0..k /\ i - 1 # k
      OBVIOUS
    <3>2. g[i - 1] = f[i - 1]
      BY <2>4, <3>1
    <3>3. CASE i = k
      BY <3>1, <3>2, <3>3
    <3>4. CASE i # k
      <4>1. i \in 1..(k - 1) /\ g[i] = f[i]
        BY <2>4, <3>1, <3>4
      <4> HIDE DEF g
      <4> QED
        BY <2>1, <3>2, <4>1
    <3> QED
      BY <3>3, <3>4
  <2>7. Ok(g, k)
    BY <2>5, <2>6
  <2> HIDE DEF Ok, g
  <2> QED
    BY <2>7
<1> HIDE DEF T
<1>3. 0..n \subseteq T
  BY <1>1, <1>2, Climb
<1>4. n \in T
  BY <1>3
<1> QED
  BY <1>4 DEF T, Runs

-----------------------------------------------------------------------------
(* Places in a text *)

LEMMA Places1N ==
  ASSUME NEW n \in Nat, NEW S \in SUBSET (1..n)
  PROVE  /\ IsFiniteSet(S) /\ Cardinality(S) \in Nat
         /\ \A k : IsFiniteSet({j \in S : j < k}) /\ Cardinality({j \in S : j < k}) \in Nat
<1>1. IsFiniteSet(1..n)
  BY FS_Interval
<1>2. \A T \in SUBSET (1..n) : IsFiniteSet(T) /\ Cardinality(T) \in Nat
  BY <1>1, FS_Subset, FS_CardinalityType
<1> QED
  BY <1>2

LEMMA Numbers ==
  ASSUME NEW n \in Nat, NEW S \in SUBSET (1..n)
  PROVE  \A j \in S : j \in Nat /\ 1 <= j /\ j <= n
OBVIOUS

\* One place more is counted behind a place that is in the set, and no other.
LEMMA RankNext ==
  ASSUME NEW n \in Nat, NEW S \in SUBSET (1..n), NEW k \in Nat
  PROVE  Cardinality({j \in S : j < k + 1})
           = Cardinality({j \in S : j < k}) + IF k \in S THEN 1 ELSE 0
<1> DEFINE A == {j \in S : j < k}
           B == {j \in S : j < k + 1}
<1>1. IsFiniteSet(A) /\ Cardinality(A) \in Nat
  BY Places1N
<1>2. \A j \in S : (j < k + 1) <=> (j < k \/ j = k)
  BY Numbers
<1>3. k \notin A
  OBVIOUS
<1>4. \A j : j \in B <=> j \in A \/ (j = k /\ k \in S)
  BY <1>2
<1> HIDE DEF A, B
<1>5. CASE k \in S
  <2>1. B = A \cup {k}
    BY <1>4, <1>5
  <2> QED
    BY <1>1, <1>3, <1>5, <2>1, FS_AddElement DEF A, B
<1>6. CASE k \notin S
  <2>1. B = A
    BY <1>4, <1>6
  <2>2. Cardinality(B) = Cardinality(A) + 0
    BY <1>1, <2>1
  <2> QED
    BY <1>6, <2>2 DEF A, B
<1> QED
  BY <1>5, <1>6

\* A place behind another one has more places before it.
LEMMA RankGrows ==
  ASSUME NEW n \in Nat, NEW S \in SUBSET (1..n), NEW i \in S, NEW k \in S, i < k
  PROVE  Cardinality({j \in S : j < i}) < Cardinality({j \in S : j < k})
<1> DEFINE A == {j \in S : j < i}
           B == {j \in S : j < i + 1}
           C == {j \in S : j < k}
<1>0. i \in Nat /\ k \in Nat
  BY Numbers
<1>1. Cardinality(B) = Cardinality(A) + 1 /\ Cardinality(A) \in Nat
  BY <1>0, RankNext, Places1N
<1>2. B \in SUBSET C
  <2>1. \A j \in S : j < i + 1 => j < k
    BY <1>0, Numbers
  <2> QED
    BY <2>1
<1>3. IsFiniteSet(C) /\ Cardinality(C) \in Nat
  BY Places1N
<1> HIDE DEF A, B, C
<1>4. Cardinality(B) <= Cardinality(C)
  BY <1>2, <1>3, FS_Subset
<1>5. Cardinality(A) < Cardinality(C)
  BY <1>1, <1>3, <1>4
<1> QED
  BY <1>5 DEF A, C

\* There is a k-th place for every k up to the number of places, and one only.
LEMMA NthIs ==
  ASSUME NEW n \in Nat, NEW S \in SUBSET (1..n)
  PROVE  /\ \A k \in 1..Cardinality(S) :
              Nth(S, k) \in S /\ Cardinality({j \in S : j < Nth(S, k)}) = k - 1
         /\ \A i \in S : Nth(S, Cardinality({j \in S : j < i}) + 1) = i
         /\ \A i \in S : Cardinality({j \in S : j < i}) + 1 \in 1..Cardinality(S)
<1> DEFINE Rank(i) == Cardinality({j \in S : j < i})
<1>1. \A i \in Nat : Rank(i) \in Nat /\ Rank(i + 1) = Rank(i) + IF i \in S THEN 1 ELSE 0
  <2> TAKE i \in Nat
  <2>1. Rank(i) \in Nat
    BY Places1N
  <2> QED
    BY <2>1, RankNext
<1>2. Rank(0) = 0 /\ Rank(n + 1) = Cardinality(S) /\ Cardinality(S) \in Nat
  <2>1. {j \in S : j < 0} = {} /\ {j \in S : j < n + 1} = S
    <3>1. \A j \in S : ~(j < 0) /\ j < n + 1
      BY Numbers
    <3> QED
      BY <3>1
  <2> QED
    BY <2>1, Places1N, FS_EmptySet
<1>3. \A i, k \in S : i < k => Rank(i) < Rank(k)
  BY RankGrows
<1>4. ASSUME NEW k \in 1..Cardinality(S) PROVE \E i \in S : Rank(i) = k - 1
  <2> DEFINE T == {i \in Nat : Rank(i) >= k}
  <2>0. k \in Nat /\ k <= Cardinality(S) /\ k >= 1
    BY <1>2
  <2>1. n + 1 \in T
    BY <1>2, <2>0
  <2>2. PICK i \in T : \A j \in T : ~(j < i)
    <3>1. T \in SUBSET Nat
      OBVIOUS
    <3> HIDE DEF T
    <3> QED
      BY <2>1, <3>1, Least
  <2>3. i \in Nat /\ Rank(i) >= k /\ i # 0
    BY <1>2, <2>0
  <2>4. i - 1 \in Nat /\ i - 1 < i /\ (i - 1) + 1 = i
    BY <2>3
  <2>5. ~(Rank(i - 1) >= k)
    BY <2>2, <2>4
  <2> DEFINE p == Rank(i - 1)
             q == Rank(i)
  <2>6. p \in Nat /\ q = p + (IF i - 1 \in S THEN 1 ELSE 0) /\ q >= k /\ ~(p >= k)
    BY <1>1, <2>3, <2>4, <2>5
  <2>7. i - 1 \in S /\ p = k - 1
    <3> HIDE DEF p, q
    <3> QED
      BY <2>0, <2>6
  <2> QED
    BY <2>7
<1>5. \A i, k \in S : Rank(i) = Rank(k) => i = k
  <2> HIDE DEF Rank
  <2>1. \A i \in S : i \in Nat /\ Rank(i) \in Nat
    BY <1>1
  <2> QED
    BY <1>3, <2>1
<1>6. \A k : Nth(S, k) = CHOOSE i \in S : Rank(i) = k - 1
  BY DEF Nth
<1>7. \A i \in S : Rank(i) + 1 \in 1..Cardinality(S)
  <2> SUFFICES ASSUME NEW i \in S PROVE Rank(i) + 1 \in 1..Cardinality(S)
    OBVIOUS
  <2>0. i \in Nat
    OBVIOUS
  <2>1. Rank(i + 1) = Rank(i) + 1 /\ Rank(i) \in Nat
    BY <1>1, <2>0
  <2>2. {j \in S : j < i + 1} \in SUBSET S
    OBVIOUS
  <2>3. Rank(i + 1) <= Cardinality(S)
    BY <2>2, Places1N, FS_Subset
  <2> HIDE DEF Rank
  <2> QED
    BY <1>2, <2>1, <2>3
<1> HIDE DEF Rank
<1>8. ASSUME NEW k \in 1..Cardinality(S) PROVE Nth(S, k) \in S /\ Rank(Nth(S, k)) = k - 1
  BY <1>4, <1>6
<1>9. ASSUME NEW i \in S PROVE Nth(S, Rank(i) + 1) = i
  <2>1. Rank(i) + 1 \in 1..Cardinality(S) /\ (Rank(i) + 1) - 1 = Rank(i)
    BY <1>1, <1>7
  <2>2. Nth(S, Rank(i) + 1) \in S /\ Rank(Nth(S, Rank(i) + 1)) = Rank(i)
    BY <1>8, <2>1
  <2> QED
    BY <1>5, <2>2
<1> QED
  BY <1>7, <1>8, <1>9 DEF Rank
-----------------------------------------------------------------------------
(* Texts of paths *)

Item == Cell \cup {"/", ".", ".."}
Visible(s) == {i \in DOMAIN s : s[i] # "/"}

LEMMA PathTextIs == PathTexts = Seq(Item)
BY DEF PathTexts, Item

LEMMA VisibleIs ==
  ASSUME NEW s \in PathTexts
  PROVE  /\ Len(s) \in Nat /\ Visible(s) \in SUBSET (1..Len(s))
         /\ IsFiniteSet(Visible(s)) /\ Cardinality(Visible(s)) \in Nat
<1>1. Len(s) \in Nat /\ DOMAIN s = 1..Len(s)
  BY PathTextIs
<1>2. Visible(s) \in SUBSET (1..Len(s))
  BY <1>1 DEF Visible
<1> QED
  BY <1>1, <1>2, Places1N

LEMMA NamesAre ==
  ASSUME NEW s \in PathTexts
  PROVE  /\ Names(s) \in Seq(Item) /\ Len(Names(s)) = Cardinality(Visible(s))
         /\ \A k \in 1..Cardinality(Visible(s)) : Names(s)[k] = s[Nth(Visible(s), k)] /\ Names(s)[k] # "/"
<1> DEFINE m == Cardinality(Visible(s))
<1>1. Names(s) = [k \in 1..m |-> s[Nth(Visible(s), k)]]
  BY DEF Names, Visible
<1>2. m \in Nat /\ \A k \in 1..m : Nth(Visible(s), k) \in Visible(s)
  BY VisibleIs, NthIs
<1>3. \A i \in Visible(s) : s[i] \in Item /\ s[i] # "/"
  BY PathTextIs, ElementOfSeq DEF Visible
<1> HIDE DEF m
<1>4. \A k \in 1..m : s[Nth(Visible(s), k)] \in Item
  BY <1>2, <1>3
<1>5. Names(s) \in Seq(Item) /\ Len(Names(s)) = m
  BY <1>1, <1>2, <1>4, IsASeq
<1> QED
  BY <1>1, <1>2, <1>3, <1>5 DEF m

LEMMA NoNames == Names(<<>>) = <<>>
<1>1. <<>> \in PathTexts
  BY PathTextIs
<1>2. Visible(<<>>) = {}
  BY DEF Visible
<1>3. Len(Names(<<>>)) = 0 /\ Names(<<>>) \in Seq(Item)
  BY <1>1, <1>2, NamesAre, FS_EmptySet
<1> QED
  BY <1>3

\* A slash adds no name, anything else is the next one.
LEMMA NamesAppend ==
  ASSUME NEW s \in PathTexts, NEW e \in Item
  PROVE  /\ Append(s, e) \in PathTexts
         /\ Names(Append(s, e)) = IF e = "/" THEN Names(s) ELSE Append(Names(s), e)
<1> DEFINE n == Len(s)
           t == Append(s, e)
           A == Visible(s)
           B == Visible(t)
           m == Cardinality(A)
<1>1. t \in PathTexts /\ n \in Nat /\ Len(t) = n + 1 /\ t[n + 1] = e
      /\ \A i \in 1..n : t[i] = s[i]
  BY PathTextIs, AppendProperties
<1>2. DOMAIN s = 1..n /\ DOMAIN t = 1..(n + 1)
  BY <1>1, PathTextIs
<1>3. /\ A \in SUBSET (1..n) /\ m \in Nat /\ IsFiniteSet(A)
      /\ B \in SUBSET (1..(n + 1)) /\ IsFiniteSet(B)
  <2> HIDE DEF t
  <2> QED
    BY <1>1, VisibleIs
<1>4. /\ Names(s) \in Seq(Item) /\ Len(Names(s)) = m
      /\ \A k \in 1..m : Names(s)[k] = s[Nth(A, k)]
  BY NamesAre
<1>5. /\ Names(t) \in Seq(Item) /\ Len(Names(t)) = Cardinality(B)
      /\ \A k \in 1..Cardinality(B) : Names(t)[k] = t[Nth(B, k)]
  <2> HIDE DEF t
  <2> QED
    BY <1>1, NamesAre
<1>6. \A i : i \in B <=> i \in A \/ (i = n + 1 /\ e # "/")
  <2>1. \A i \in 1..(n + 1) : i \in 1..n \/ i = n + 1
    BY <1>1
  <2> HIDE DEF t, n
  <2>2. \A i : i \in B <=> i \in 1..(n + 1) /\ t[i] # "/"
    BY <1>2 DEF Visible
  <2>3. \A i : i \in A <=> i \in 1..n /\ s[i] # "/"
    BY <1>2 DEF Visible
  <2>4. \A i \in 1..n : i \in 1..(n + 1) /\ i # n + 1
    BY <1>1
  <2>5. n + 1 \in 1..(n + 1)
    BY <1>1
  <2> HIDE DEF A, B
  <2> QED
    BY <1>1, <2>1, <2>2, <2>3, <2>4, <2>5
<1>7. \A k \in 1..m : Nth(A, k) \in A /\ Nth(A, k) \in 1..n /\ Cardinality({j \in A : j < Nth(A, k)}) = k - 1
  <2> HIDE DEF A, n
  <2> QED
    BY <1>1, <1>3, NthIs
<1> HIDE DEF n, t, A, B
<1>8. CASE e = "/"
  <2>1. B = A
    BY <1>6, <1>8
  <2>2. \A k \in 1..m : Names(t)[k] = Names(s)[k]
    BY <1>1, <1>4, <1>5, <1>7, <2>1
  <2>3. Names(t) = Names(s)
    <3>1. Len(Names(t)) = m
      BY <1>5, <2>1
    <3> HIDE DEF m
    <3> QED
      BY <1>4, <1>5, <2>2, <3>1, SeqEqual
  <2> QED
    BY <1>1, <1>8, <2>3 DEF t
<1>9. CASE e # "/"
  <2>1. B = A \cup {n + 1} /\ n + 1 \notin A
    <3>1. n + 1 \notin 1..n
      BY <1>1
    <3>2. A \subseteq 1..n
      BY <1>3
    <3>3. n + 1 \notin A
      BY <3>1, <3>2
    <3>4. B = A \cup {n + 1}
      BY <1>6, <1>9
    <3> QED
      BY <3>3, <3>4
  <2>2. Cardinality(B) = m + 1
    BY <1>3, <2>1, FS_AddElement
  <2>3. \A i \in B : Nth(B, Cardinality({j \in B : j < i}) + 1) = i
    <3>1. n + 1 \in Nat
      BY <1>1
    <3> QED
      BY <1>3, <3>1, NthIs
  <2>4. ASSUME NEW k \in 1..m PROVE Names(t)[k] = Names(s)[k]
    <3> DEFINE i == Nth(A, k)
    <3>1. i \in A /\ i \in 1..n /\ Cardinality({j \in A : j < i}) = k - 1
      BY <1>7
    <3> HIDE DEF i
    <3>2. ~(n + 1 < i)
      BY <1>1, <3>1
    <3>3. {j \in B : j < i} = {j \in A : j < i}
      BY <2>1, <3>2
    <3>4. (k - 1) + 1 = k /\ k \in 1..(m + 1)
      BY <1>3
    <3>5. Nth(B, k) = i
      BY <2>1, <2>3, <3>1, <3>3, <3>4
    <3>6. Names(t)[k] = t[i]
      BY <1>5, <2>2, <3>4, <3>5
    <3>7. Names(s)[k] = s[i]
      BY <1>4 DEF i
    <3> QED
      BY <1>1, <3>1, <3>6, <3>7
  <2>5. Names(t)[m + 1] = e
    <3>1. \A j \in A : j < n + 1
      BY <1>1, <1>3, Numbers
    <3>2. ~(n + 1 < n + 1)
      BY <1>1
    <3>3. {j \in B : j < n + 1} = A
      BY <2>1, <3>1, <3>2
    <3>4. Nth(B, m + 1) = n + 1
      BY <2>1, <2>3, <3>3
    <3>5. m + 1 \in 1..(m + 1)
      BY <1>3
    <3> QED
      BY <1>1, <1>5, <2>2, <3>4, <3>5
  <2>6. /\ Append(Names(s), e) \in Seq(Item) /\ Len(Append(Names(s), e)) = m + 1
        /\ Append(Names(s), e)[m + 1] = e
        /\ \A k \in 1..m : Append(Names(s), e)[k] = Names(s)[k]
    BY <1>4, AppendProperties
  <2>7. Names(t) = Append(Names(s), e)
    <3> DEFINE a == Append(Names(s), e)
    <3>1. \A k \in 1..(m + 1) : k \in 1..m \/ k = m + 1
      BY <1>3
    <3>2. Len(Names(t)) = m + 1
      BY <1>5, <2>2
    <3> HIDE DEF a, m
    <3>3. \A k \in 1..(m + 1) : Names(t)[k] = a[k]
      BY <2>4, <2>5, <2>6, <3>1 DEF a
    <3> QED
      BY <1>5, <2>6, <3>2, <3>3, SeqEqual DEF a
  <2> QED
    BY <1>1, <1>9, <2>7 DEF t
<1> QED
  BY <1>8, <1>9
\* A text that normalize_path gives: names, each behind one slash, perhaps a
\* slash behind them, no dots.
Normal(s) ==
  /\ s \in PathTexts /\ Len(s) >= 1 /\ s[1] = "/"
  /\ \A i \in 1..Len(s) : s[i] # "." /\ s[i] # ".."
  /\ \A i \in 2..Len(s) : s[i - 1] = "/" <=> s[i] # "/"

LEMMA TextPrefix ==
  ASSUME NEW s \in PathTexts, NEW k \in 0..Len(s)
  PROVE  /\ UpTo(s, k) \in PathTexts /\ Len(UpTo(s, k)) = k
         /\ \A i \in 1..k : UpTo(s, k)[i] = s[i]
         /\ k >= 1 => UpTo(s, k) = Append(UpTo(s, k - 1), s[k])
<1>1. Len(s) \in Nat /\ s \in Seq(Item) /\ k \in Nat
  BY PathTextIs
<1>2. /\ UpTo(s, k) \in Seq(Item) /\ Len(UpTo(s, k)) = k
      /\ \A i \in 1..k : UpTo(s, k)[i] = s[i]
  BY <1>1 DEF UpTo
<1>3. ASSUME k >= 1 PROVE UpTo(s, k) = Append(UpTo(s, k - 1), s[k])
  BY <1>1, <1>3, SubSeqRecursiveSecond DEF UpTo
<1> QED
  BY <1>2, <1>3, PathTextIs

LEMMA WholeText ==
  ASSUME NEW s \in PathTexts
  PROVE  Len(s) \in Nat /\ UpTo(s, Len(s)) = s /\ UpTo(s, 0) = <<>> /\ \A i \in 1..Len(s) : s[i] \in Item
<1>1. Len(s) \in Nat /\ s \in Seq(Item)
  BY PathTextIs
<1>2. UpTo(s, Len(s)) = s
  BY <1>1, SubSeqFull DEF UpTo
<1>3. UpTo(s, 0) = <<>>
  BY <1>1 DEF UpTo
<1> QED
  BY <1>1, <1>2, <1>3, ElementOfSeq

LEMMA NormalPrefix ==
  ASSUME NEW s, Normal(s), NEW k \in 1..Len(s)
  PROVE  Normal(UpTo(s, k)) /\ Len(UpTo(s, k)) = k
<1>1. s \in PathTexts /\ Len(s) \in Nat
  BY WholeText DEF Normal
<1>2. /\ UpTo(s, k) \in PathTexts /\ Len(UpTo(s, k)) = k
      /\ \A i \in 1..k : UpTo(s, k)[i] = s[i]
  BY <1>1, TextPrefix
<1>3. /\ k \in Nat /\ 1 \in 1..k /\ k >= 1
      /\ \A i \in 1..k : i \in 1..Len(s)
      /\ \A i \in 2..k : i \in 2..Len(s) /\ i - 1 \in 1..k /\ i \in 1..k
  BY <1>1
<1> DEFINE t == UpTo(s, k)
<1>4. \A i \in 1..k : t[i] # "." /\ t[i] # ".."
  BY <1>2, <1>3 DEF Normal
<1>5. \A i \in 2..k : t[i - 1] = "/" <=> t[i] # "/"
  BY <1>2, <1>3 DEF Normal
<1> QED
  BY <1>2, <1>3, <1>4, <1>5 DEF Normal

LEMMA NormalGrows ==
  ASSUME NEW s, Normal(s), NEW c \in Item, c # ".", c # "..",
         s[Len(s)] = "/" <=> c # "/"
  PROVE  /\ Normal(Append(s, c)) /\ Len(Append(s, c)) = Len(s) + 1
         /\ Append(s, c)[Len(s) + 1] = c
<1>1. s \in PathTexts /\ Len(s) \in Nat /\ Len(s) >= 1
  BY WholeText DEF Normal
<1> DEFINE n == Len(s)
           t == Append(s, c)
<1>2. t \in PathTexts /\ Len(t) = n + 1 /\ t[n + 1] = c /\ \A i \in 1..n : t[i] = s[i]
  BY <1>1, PathTextIs, AppendProperties
<1> HIDE DEF t
<1>3. \A i \in 1..(n + 1) : t[i] # "." /\ t[i] # ".."
  <2>1. \A i \in 1..(n + 1) : i \in 1..n \/ i = n + 1
    BY <1>1
  <2> QED
    BY <1>2, <2>1 DEF Normal
<1>4. \A i \in 2..(n + 1) : t[i - 1] = "/" <=> t[i] # "/"
  <2>1. \A i \in 2..(n + 1) : i - 1 \in 1..n /\ (i \in 2..n \/ i = n + 1)
    BY <1>1
  <2>2. \A i \in 2..n : i \in 1..n
    BY <1>1
  <2>3. (n + 1) - 1 = n
    BY <1>1
  <2> QED
    BY <1>2, <2>1, <2>2, <2>3 DEF Normal
<1>5. 1 \in 1..n /\ n + 1 >= 1
  BY <1>1
<1> QED
  BY <1>2, <1>3, <1>4, <1>5 DEF Normal, t

\* A name is added behind a slash.
LEMMA NameAdded ==
  ASSUME NEW s, Normal(s), NEW c \in Item, c \notin {"/", ".", ".."}
  PROVE  /\ Normal(AddComponent(s, c)) /\ Names(AddComponent(s, c)) = Append(Names(s), c)
         /\ Len(AddComponent(s, c)) = Len(s) + IF s[Len(s)] = "/" THEN 1 ELSE 2
         /\ AddComponent(s, c)[Len(AddComponent(s, c))] # "/"
<1>1. s \in PathTexts /\ Len(s) \in Nat /\ "/" \in Item
  BY WholeText DEF Normal, Item
<1>2. CASE s[Len(s)] = "/"
  <2>1. AddComponent(s, c) = Append(s, c)
    BY <1>2 DEF AddComponent
  <2> QED
    BY <1>1, <1>2, <2>1, NormalGrows, NamesAppend
<1>3. CASE s[Len(s)] # "/"
  <2> DEFINE u == Append(s, "/")
  <2>1. Normal(u) /\ Len(u) = Len(s) + 1 /\ u[Len(s) + 1] = "/"
    BY <1>1, <1>3, NormalGrows
  <2>2. u \in PathTexts /\ Names(u) = Names(s)
    BY <1>1, NamesAppend
  <2>3. AddComponent(s, c) = Append(u, c)
    <3>1. AddComponent(s, c) = s \o <<"/", c>>
      BY <1>3 DEF AddComponent
    <3>2. s \in Seq(Item)
      BY <1>1, PathTextIs
    <3>3. s \o <<"/", c>> = Append(Append(s, "/"), c)
      BY <1>1, <3>2
    <3> QED
      BY <3>1, <3>3
  <2> HIDE DEF u
  <2>4. Normal(Append(u, c)) /\ Len(Append(u, c)) = Len(u) + 1 /\ Append(u, c)[Len(u) + 1] = c
    BY <2>1, NormalGrows
  <2>5. Names(Append(u, c)) = Append(Names(u), c)
    BY <2>2, NamesAppend
  <2>6. Len(Append(u, c)) = Len(s) + 2
    BY <1>1, <2>1, <2>4
  <2> QED
    BY <1>3, <2>2, <2>3, <2>4, <2>5, <2>6
<1> QED
  BY <1>2, <1>3

LEMMA SlashIs ==
  ASSUME NEW s \in PathTexts, NEW k \in 1..Len(s), s[k] = "/", \A j \in (k + 1)..Len(s) : s[j] # "/"
  PROVE  LastSlash(s) = k
<1>0. Len(s) \in Nat /\ DOMAIN s = 1..Len(s)
  BY PathTextIs
<1>1. ASSUME NEW i \in 1..Len(s), s[i] = "/", \A j \in (i + 1)..Len(s) : s[j] # "/" PROVE i = k
  <2>1. ~(i < k)
    <3>1. i < k => k \in (i + 1)..Len(s)
      BY <1>0
    <3> QED
      BY <1>1, <3>1
  <2>2. ~(k < i)
    <3>1. k < i => i \in (k + 1)..Len(s)
      BY <1>0
    <3> QED
      BY <1>1, <3>1
  <2> QED
    BY <1>0, <2>1, <2>2
<1> QED
  BY <1>0, <1>1 DEF LastSlash

\* ".." takes the last name away, if there is one.
LEMMA NameTaken ==
  ASSUME NEW s, Normal(s)
  PROVE  /\ Normal(ParentText(s)) /\ Len(ParentText(s)) <= Len(s)
         /\ ParentText(s)[Len(ParentText(s))] = "/"
         /\ Names(s) # <<>> => Len(ParentText(s)) < Len(s)
         /\ Names(ParentText(s)) = IF Names(s) = <<>> THEN <<>> ELSE Front(Names(s))
<1>1. s \in PathTexts /\ Len(s) \in Nat /\ Len(s) >= 1 /\ s[1] = "/" /\ "/" \in Item
  BY WholeText DEF Normal, Item
\* A text that ends in a name.
<1>2. ASSUME NEW t, Normal(t), Len(t) > 1, t[Len(t)] # "/"
      PROVE  LET r == UpTo(t, LastSlash(t))
             IN /\ Normal(r) /\ Len(r) = Len(t) - 1 /\ r[Len(r)] = "/"
                /\ Names(t) # <<>> /\ Names(r) = Front(Names(t))
  <2> DEFINE n == Len(t)
             r == UpTo(t, n - 1)
  <2>1. t \in PathTexts /\ n \in Nat
    BY <1>2, WholeText DEF Normal
  <2>2. n - 1 \in 1..n /\ n \in 2..n /\ (n - 1) + 1 = n /\ n \in 0..n /\ n >= 1 /\ n \in 1..n
    BY <1>2, <2>1
  <2>3. t[n - 1] = "/"
    BY <1>2, <2>2 DEF Normal
  <2>4. \A j \in n..n : t[j] # "/"
    BY <1>2, <2>1
  <2>5. LastSlash(t) = n - 1
    BY <2>1, <2>2, <2>3, <2>4, SlashIs
  <2>6. Normal(r) /\ Len(r) = n - 1
    BY <1>2, <2>2, NormalPrefix
  <2>7. t = Append(r, t[n])
    BY <2>1, <2>2, TextPrefix, WholeText
  <2>8. r \in PathTexts /\ t[n] \in Item
    BY <2>1, <2>2, <2>6, WholeText DEF Normal
  <2>9. Names(t) = Append(Names(r), t[n])
    <3> HIDE DEF r
    <3> QED
      BY <1>2, <2>7, <2>8, NamesAppend
  <2>10. r[n - 1] = "/"
    <3>1. n - 1 \in 1..(n - 1) /\ n - 1 \in 0..n
      BY <2>1, <2>2
    <3> QED
      BY <2>1, <2>3, <3>1, TextPrefix
  <2>11. Names(r) \in Seq(Item)
    BY <2>8, NamesAre
  <2> HIDE DEF r
  <2>12. Names(t) # <<>> /\ Front(Names(t)) = Names(r)
    BY <2>8, <2>9, <2>11 DEF Front
  <2> QED
    BY <2>5, <2>6, <2>10, <2>12 DEF r
<1>3. CASE Len(s) = 1
  <2>1. LastSlash(s) = 1
    BY <1>1, <1>3, SlashIs
  <2>2. ParentText(s) = s
    BY <1>1, <1>3, <2>1, WholeText DEF ParentText
  <2>3. s = Append(<<>>, "/")
    <3>1. 1 \in 0..Len(s)
      BY <1>3
    <3> QED
      BY <1>1, <1>3, <3>1, TextPrefix, WholeText
  <2>4. Names(s) = <<>>
    <3>1. <<>> \in PathTexts
      BY PathTextIs
    <3> QED
      BY <1>1, <2>3, <3>1, NamesAppend, NoNames
  <2> QED
    BY <1>1, <1>3, <2>2, <2>4
<1>4. CASE Len(s) > 1 /\ s[Len(s)] # "/"
  <2>1. ParentText(s) = UpTo(s, LastSlash(s))
    BY <1>4 DEF ParentText
  <2>2. Len(s) - 1 < Len(s) /\ Len(s) - 1 <= Len(s)
    BY <1>1
  <2> QED
    BY <1>2, <1>4, <2>1, <2>2
<1>5. CASE Len(s) > 1 /\ s[Len(s)] = "/"
  <2> DEFINE n == Len(s)
             t == UpTo(s, n - 1)
  <2>1. /\ n - 1 \in 1..n /\ n \in 2..n /\ n \in 0..n /\ n \in 1..n /\ n - 1 \in 0..n
        /\ n - 1 \in 1..(n - 1) /\ n >= 1
    BY <1>1, <1>5
  <2>2. Normal(t) /\ Len(t) = n - 1
    BY <2>1, NormalPrefix
  <2>3. t[n - 1] = s[n - 1] /\ s[n - 1] # "/"
    BY <1>1, <1>5, <2>1, TextPrefix DEF Normal
  <2>4. n - 1 # 1
    BY <1>1, <2>3
  <2>5. Len(t) > 1
    BY <2>1, <2>2, <2>4
  <2>6. ParentText(s) = UpTo(t, LastSlash(t))
    BY <1>5 DEF ParentText, Front, UpTo
  <2>7. s = Append(t, "/")
    <3>1. UpTo(s, n) = Append(UpTo(s, n - 1), s[n])
      BY <1>1, <2>1, TextPrefix
    <3>2. UpTo(s, n) = s
      BY <1>1, WholeText
    <3> QED
      BY <1>5, <3>1, <3>2
  <2>8. t \in PathTexts
    BY <2>2 DEF Normal
  <2>9. Names(s) = Names(t)
    <3> HIDE DEF t
    <3> QED
      BY <1>1, <2>7, <2>8, NamesAppend
  <2> HIDE DEF t
  <2>10. /\ Normal(ParentText(s)) /\ Len(ParentText(s)) = (n - 1) - 1
         /\ ParentText(s)[Len(ParentText(s))] = "/"
         /\ Names(t) # <<>> /\ Names(ParentText(s)) = Front(Names(t))
    BY <1>2, <2>2, <2>3, <2>5, <2>6
  <2>11. (n - 1) - 1 < n /\ (n - 1) - 1 <= n
    BY <1>1
  <2> QED
    BY <2>9, <2>10, <2>11
<1>6. Len(s) = 1 \/ Len(s) > 1
  <2> DEFINE n == Len(s)
  <2>1. n \in Nat /\ n >= 1
    BY <1>1
  <2> HIDE DEF n
  <2>2. n = 1 \/ n > 1
    BY <2>1
  <2> QED
    BY <2>2 DEF n
<1> QED
  BY <1>3, <1>4, <1>5, <1>6

-----------------------------------------------------------------------------
(* Texts taken component by component *)

NormalTexts == {t \in PathTexts : Normal(t)}

\* Where one more item of a text leads.
Move(at, c) ==
  CASE c \in {"/", "."} -> at
    [] c = ".."        -> IF at = <<>> THEN <<>> ELSE Front(at)
    [] OTHER           -> Append(at, c)

LEMMA ComponentAdded ==
  ASSUME NEW s \in NormalTexts, NEW c \in Item
  PROVE  /\ AddComponent(s, c) \in NormalTexts /\ Names(AddComponent(s, c)) = Move(Names(s), c)
         /\ c \in {"/", "."} => AddComponent(s, c) = s
         /\ c = ".." => Len(AddComponent(s, c)) <= Len(s)
<1>1. Normal(s)
  BY DEF NormalTexts
<1>2. CASE c \in {"/", "."}
  <2>1. AddComponent(s, c) = s /\ c # ".."
    BY <1>2 DEF AddComponent
  <2> QED
    BY <1>2, <2>1 DEF Move
<1>3. CASE c = ".."
  <2>1. AddComponent(s, c) = ParentText(s)
    BY <1>3 DEF AddComponent
  <2>2. Move(Names(s), c) = IF Names(s) = <<>> THEN <<>> ELSE Front(Names(s))
    BY <1>3 DEF Move
  <2> QED
    BY <1>1, <1>3, <2>1, <2>2, NameTaken DEF NormalTexts, Normal
<1>4. CASE c \notin {"/", ".", ".."}
  <2>1. Move(Names(s), c) = Append(Names(s), c)
    BY <1>4 DEF Move
  <2> QED
    BY <1>1, <1>4, <2>1, NameAdded DEF NormalTexts, Normal
<1> QED
  BY <1>2, <1>3, <1>4

LEMMA ComponentsAre ==
  ASSUME NEW s \in PathTexts
  PROVE  \E r \in [0..Len(s) -> NormalTexts] :
           /\ r[0] = <<"/">> /\ Components(s) = r[Len(s)]
           /\ \A i \in 1..Len(s) : r[i] = AddComponent(r[i - 1], s[i])
<1> DEFINE n == Len(s)
           a == <<"/">>
           G(f) == [i \in 0..n |-> IF i = 0 THEN a ELSE AddComponent(f[i - 1], s[i])]
           r == CHOOSE f : f = G(f)
           F == [i \in 1..n |-> [x \in NormalTexts |-> AddComponent(x, s[i])]]
<1>1. n \in Nat /\ n \in 0..n /\ \A i \in 1..n : s[i] \in Item
  BY WholeText
<1>2. a \in NormalTexts
  <2>1. a \in PathTexts
    BY PathTextIs DEF Item
  <2>2. Len(a) = 1 /\ a[1] = "/"
    OBVIOUS
  <2> HIDE DEF a
  <2>3. Normal(a)
    BY <2>1, <2>2 DEF Normal
  <2> QED
    BY <2>1, <2>3 DEF NormalTexts
<1>3. \A x \in NormalTexts, i \in 1..n : AddComponent(x, s[i]) \in NormalTexts
  BY <1>1, ComponentAdded
<1>4. \A x \in NormalTexts, i \in 1..n : F[i][x] \in NormalTexts
  BY <1>3
<1>4a. StaysIn(NormalTexts, F, n)
  <2> HIDE DEF F, n
  <2> QED
    BY <1>4 DEF StaysIn
<1> HIDE DEF n, a
<1>5. PICK f \in [0..n -> NormalTexts] : f[0] = a /\ \A i \in 1..n : f[i] = F[i][f[i - 1]]
  <2> HIDE DEF F, G, r
  <2>1. n \in Nat
    BY <1>1
  <2>2. \E f \in [0..n -> NormalTexts] : Runs(f, a, F, n)
    BY <1>2, <1>4a, <2>1, Iterates
  <2> QED
    BY <2>2 DEF Runs
<1>6. \A i \in 1..n : i - 1 \in 0..n /\ i \in 0..n /\ i # 0
  BY <1>1
<1>7. \A i \in 1..n : f[i] = AddComponent(f[i - 1], s[i])
  BY <1>5, <1>6
<1>8. f = G(f)
  <2>1. \A i \in 0..n : i = 0 \/ i \in 1..n
    BY <1>1
  <2>2. \A i \in 0..n : f[i] = IF i = 0 THEN a ELSE AddComponent(f[i - 1], s[i])
    BY <1>5, <1>7, <2>1
  <2> QED
    BY <1>5, <2>2
<1>9. r = G(r)
  <2> HIDE DEF G
  <2> QED
    BY <1>8
<1>10. Components(s) = r[n]
  BY DEF Components, n, a
<1> HIDE DEF r
<1>11. r[0] = a /\ \A i \in 1..n : r[i] = AddComponent(r[i - 1], s[i])
  <2>1. 0 \in 0..n
    BY <1>1
  <2> QED
    BY <1>6, <1>9, <2>1
<1>12. r \in [0..n -> NormalTexts]
  <2> DEFINE T == {i \in 0..n : r[i] \in NormalTexts}
  <2>1. 0 \in T
    BY <1>1, <1>2, <1>11
  <2>2. \A i \in 1..n : i - 1 \in T => i \in T
    BY <1>3, <1>6, <1>11
  <2>3. 0..n \subseteq T
    <3> HIDE DEF T
    <3> QED
      BY <1>1, <2>1, <2>2, Climb
  <2> QED
    BY <1>9, <2>3
<1> QED
  BY <1>10, <1>11, <1>12 DEF n, a

LEMMA MoveTyped ==
  ASSUME NEW at \in Seq(Item), NEW c \in Item
  PROVE  Move(at, c) \in Seq(Item)
<1>1. CASE c \in {"/", "."}
  BY <1>1 DEF Move
<1>2. CASE c = ".." /\ at = <<>>
  BY <1>2 DEF Move
<1>3. CASE c = ".." /\ at # <<>>
  <2>1. Move(at, c) = Front(at)
    BY <1>3 DEF Move
  <2>2. Front(at) \in Seq(Item)
    BY <1>3 DEF Front
  <2> QED
    BY <2>1, <2>2
<1>4. CASE c \notin {"/", ".", ".."}
  BY <1>4, AppendProperties DEF Move
<1> QED
  BY <1>1, <1>2, <1>3, <1>4

LEMMA FollowIs ==
  ASSUME NEW from \in Seq(Item), NEW s \in PathTexts
  PROVE  \E f \in [0..Len(s) -> Seq(Item)] :
           /\ f[0] = from /\ Follow(from, s) = f[Len(s)]
           /\ \A i \in 1..Len(s) : f[i] = Move(f[i - 1], s[i])
<1> DEFINE n == Len(s)
           G(f) == [i \in 0..n |-> IF i = 0 THEN from ELSE Move(f[i - 1], s[i])]
           r == CHOOSE f : f = G(f)
           F == [i \in 1..n |-> [x \in Seq(Item) |-> Move(x, s[i])]]
<1>1. n \in Nat /\ n \in 0..n /\ \A i \in 1..n : s[i] \in Item
  BY WholeText
<1>3. \A x \in Seq(Item), i \in 1..n : Move(x, s[i]) \in Seq(Item)
  BY <1>1, MoveTyped
<1>4. \A x \in Seq(Item), i \in 1..n : F[i][x] \in Seq(Item)
  BY <1>3
<1> HIDE DEF n
<1>4a. StaysIn(Seq(Item), F, n)
  <2> HIDE DEF F
  <2> QED
    BY <1>4 DEF StaysIn
<1>5. PICK f \in [0..n -> Seq(Item)] : f[0] = from /\ \A i \in 1..n : f[i] = F[i][f[i - 1]]
  <2> HIDE DEF F, G, r
  <2>1. n \in Nat
    BY <1>1
  <2>2. \E f \in [0..n -> Seq(Item)] : Runs(f, from, F, n)
    BY <1>4a, <2>1, Iterates
  <2> QED
    BY <2>2 DEF Runs
<1>6. \A i \in 1..n : i - 1 \in 0..n /\ i \in 0..n /\ i # 0
  BY <1>1
<1>7. \A i \in 1..n : f[i] = Move(f[i - 1], s[i])
  BY <1>5, <1>6
<1>8. f = G(f)
  <2>1. \A i \in 0..n : i = 0 \/ i \in 1..n
    BY <1>1
  <2>2. \A i \in 0..n : f[i] = IF i = 0 THEN from ELSE Move(f[i - 1], s[i])
    BY <1>5, <1>7, <2>1
  <2> QED
    BY <1>5, <2>2
<1>9. r = G(r)
  <2> HIDE DEF G
  <2> QED
    BY <1>8
<1>10. Follow(from, s) = r[n]
  BY DEF Follow, Move, n
<1> HIDE DEF r
<1>11. r[0] = from /\ \A i \in 1..n : r[i] = Move(r[i - 1], s[i])
  <2>1. 0 \in 0..n
    BY <1>1
  <2> QED
    BY <1>6, <1>9, <2>1
<1>12. r \in [0..n -> Seq(Item)]
  <2> DEFINE T == {i \in 0..n : r[i] \in Seq(Item)}
  <2>1. 0 \in T
    BY <1>1, <1>11
  <2>2. \A i \in 1..n : i - 1 \in T => i \in T
    BY <1>3, <1>6, <1>11
  <2>3. 0..n \subseteq T
    <3> HIDE DEF T
    <3> QED
      BY <1>1, <2>1, <2>2, Climb
  <2> QED
    BY <1>9, <2>3
<1> QED
  BY <1>10, <1>11, <1>12 DEF n

\* What normalize_path makes of an absolute text names what the text names.
LEMMA NormalizedNames ==
  ASSUME NEW s \in PathTexts
  PROVE  Components(s) \in NormalTexts /\ Names(Components(s)) = Follow(<<>>, s)
<1> DEFINE n == Len(s)
<1>1. n \in Nat /\ n \in 0..n /\ \A i \in 1..n : s[i] \in Item
  BY WholeText
<1>2. PICK r \in [0..n -> NormalTexts] :
        /\ r[0] = <<"/">> /\ Components(s) = r[n]
        /\ \A i \in 1..n : r[i] = AddComponent(r[i - 1], s[i])
  BY ComponentsAre
<1>3. PICK f \in [0..n -> Seq(Item)] :
        /\ f[0] = <<>> /\ Follow(<<>>, s) = f[n]
        /\ \A i \in 1..n : f[i] = Move(f[i - 1], s[i])
  <2>1. <<>> \in Seq(Item)
    OBVIOUS
  <2> QED
    BY <2>1, FollowIs
<1> HIDE DEF n
<1> DEFINE T == {i \in 0..n : Names(r[i]) = f[i]}
<1>4. 0 \in T
  <2>1. <<>> \in PathTexts /\ "/" \in Item /\ Append(<<>>, "/") = <<"/">>
    BY PathTextIs DEF Item
  <2>2. Names(<<"/">>) = <<>>
    BY <2>1, NamesAppend, NoNames
  <2>3. 0 \in 0..n
    BY <1>1
  <2>4. Names(r[0]) = f[0]
    BY <1>2, <1>3, <2>2
  <2> QED
    BY <2>3, <2>4
<1>5. ASSUME NEW i \in 1..n, i - 1 \in T PROVE i \in T
  <2>1. i - 1 \in 0..n /\ i \in 0..n
    BY <1>1
  <2>2. Names(r[i]) = Move(Names(r[i - 1]), s[i])
    BY <1>1, <1>2, <2>1, ComponentAdded
  <2> QED
    BY <1>3, <1>5, <2>1, <2>2
<1>6. n \in T
  <2> HIDE DEF T
  <2>1. 0..n \subseteq T
    BY <1>1, <1>4, <1>5, Climb
  <2> QED
    BY <1>1, <2>1
<1> QED
  BY <1>1, <1>2, <1>3, <1>6

\* Two texts one behind the other lead where they lead one after the other.
LEMMA FollowOn ==
  ASSUME NEW s \in PathTexts, NEW t \in PathTexts
  PROVE  /\ s \o t \in PathTexts /\ Follow(<<>>, s) \in Seq(Item)
         /\ Follow(<<>>, s \o t) = Follow(Follow(<<>>, s), t)
<1> DEFINE n == Len(s)
           m == Len(t)
           u == s \o t
<1>1. n \in Nat /\ m \in Nat /\ n \in 0..n /\ m \in 0..m /\ s \in Seq(Item) /\ t \in Seq(Item)
  BY WholeText, PathTextIs
<1>2. u \in PathTexts /\ Len(u) = n + m /\ (\A i \in 1..n : u[i] = s[i]) /\ \A i \in 1..m : u[n + i] = t[i]
  <2>1. \A i \in 1..(n + m) : u[i] = IF i <= n THEN s[i] ELSE t[i - n]
    BY <1>1
  <2>2. \A i \in 1..n : i \in 1..(n + m) /\ i <= n
    BY <1>1
  <2>3. \A i \in 1..m : n + i \in 1..(n + m) /\ ~(n + i <= n) /\ (n + i) - n = i
    BY <1>1
  <2>4. u \in PathTexts /\ Len(u) = n + m
    BY <1>1, PathTextIs, ConcatProperties
  <2> HIDE DEF u
  <2> QED
    BY <2>1, <2>2, <2>3, <2>4
<1> HIDE DEF u
<1>3. PICK g \in [0..n -> Seq(Item)] :
        /\ g[0] = <<>> /\ Follow(<<>>, s) = g[n]
        /\ \A i \in 1..n : g[i] = Move(g[i - 1], s[i])
  <2>1. <<>> \in Seq(Item)
    OBVIOUS
  <2> QED
    BY <2>1, FollowIs
<1>4. g[n] \in Seq(Item)
  BY <1>1, <1>3
<1>5. PICK h \in [0..m -> Seq(Item)] :
        /\ h[0] = g[n] /\ Follow(g[n], t) = h[m]
        /\ \A i \in 1..m : h[i] = Move(h[i - 1], t[i])
  BY <1>4, FollowIs
<1>6. PICK f \in [0..(n + m) -> Seq(Item)] :
        /\ f[0] = <<>> /\ Follow(<<>>, u) = f[n + m]
        /\ \A i \in 1..(n + m) : f[i] = Move(f[i - 1], u[i])
  <2>1. <<>> \in Seq(Item)
    OBVIOUS
  <2>2. PICK f \in [0..Len(u) -> Seq(Item)] :
          /\ f[0] = <<>> /\ Follow(<<>>, u) = f[Len(u)]
          /\ \A i \in 1..Len(u) : f[i] = Move(f[i - 1], u[i])
    BY <1>2, <2>1, FollowIs
  <2> QED
    BY <1>2, <2>2
<1> HIDE DEF n, m
<1>7. 0..n \subseteq {i \in 0..n : f[i] = g[i]}
  <2> DEFINE T == {i \in 0..n : f[i] = g[i]}
  <2>1. 0 \in T
    BY <1>1, <1>3, <1>6
  <2>2. ASSUME NEW i \in 1..n, i - 1 \in T PROVE i \in T
    <3>1. i \in 1..(n + m) /\ i \in 0..n
      BY <1>1
    <3> QED
      BY <1>2, <1>3, <1>6, <2>2, <3>1
  <2> HIDE DEF T
  <2>3. 0..n \subseteq T
    BY <1>1, <2>1, <2>2, Climb
  <2> QED
    BY <2>3 DEF T
<1>8. 0..m \subseteq {i \in 0..m : f[n + i] = h[i]}
  <2> DEFINE T == {i \in 0..m : f[n + i] = h[i]}
  <2>1. 0 \in T
    <3>1. f[n] = g[n] /\ n + 0 = n
      BY <1>1, <1>7
    <3> QED
      BY <1>1, <1>5, <3>1
  <2>2. ASSUME NEW i \in 1..m, i - 1 \in T PROVE i \in T
    <3>1. n + i \in 1..(n + m) /\ i \in 0..m /\ (n + i) - 1 = n + (i - 1)
      BY <1>1
    <3>2. f[n + i] = Move(f[(n + i) - 1], u[n + i])
      BY <1>6, <3>1
    <3>3. f[n + (i - 1)] = h[i - 1]
      BY <2>2
    <3> QED
      BY <1>2, <1>5, <3>1, <3>2, <3>3
  <2> HIDE DEF T
  <2>3. 0..m \subseteq T
    BY <1>1, <2>1, <2>2, Climb
  <2> QED
    BY <2>3 DEF T
<1>9. f[n + m] = h[m]
  BY <1>1, <1>8
<1> QED
  BY <1>2, <1>3, <1>4, <1>5, <1>6, <1>9 DEF u
-----------------------------------------------------------------------------
(* Texts that are cut to what a buffer holds *)

\* A text that begins at the root, with a slash between any two names.
PathLike(s) ==
  /\ s \in PathTexts /\ Len(s) >= 1 /\ s[1] = "/"
  /\ \A i \in 2..Len(s) : s[i - 1] = "/" \/ s[i] = "/"

LEMMA WidthIs ==
  ASSUME NEW s \in PathTexts
  PROVE  /\ TextWidth(s) \in Nat /\ Len(s) <= TextWidth(s)
         /\ (\A i \in 1..Len(s) : s[i] # "..") => TextWidth(s) = Len(s)
<1> DEFINE A == {i \in DOMAIN s : s[i] = ".."}
<1>1. Len(s) \in Nat /\ DOMAIN s = 1..Len(s)
  BY PathTextIs
<1>2. A \in SUBSET (1..Len(s))
  BY <1>1
<1>3. Cardinality(A) \in Nat
  <2> HIDE DEF A
  <2> QED
    BY <1>1, <1>2, Places1N
<1>4. ASSUME \A i \in 1..Len(s) : s[i] # ".." PROVE Cardinality(A) = 0
  <2>1. A = {}
    BY <1>1, <1>4
  <2> QED
    BY <2>1, FS_EmptySet
<1>5. TextWidth(s) = Len(s) + Cardinality(A)
  BY DEF TextWidth
<1> HIDE DEF A
<1> QED
  BY <1>1, <1>3, <1>4, <1>5

LEMMA WidthGrows ==
  ASSUME NEW s \in PathTexts, NEW c \in Item
  PROVE  TextWidth(Append(s, c)) = TextWidth(s) + IF c = ".." THEN 2 ELSE 1
<1> DEFINE n == Len(s)
           t == Append(s, c)
           A == {i \in DOMAIN s : s[i] = ".."}
           B == {i \in DOMAIN t : t[i] = ".."}
<1>1. n \in Nat /\ Len(t) = n + 1 /\ t[n + 1] = c /\ \A i \in 1..n : t[i] = s[i]
  BY PathTextIs, AppendProperties
<1>2. DOMAIN s = 1..n /\ DOMAIN t = 1..(n + 1)
  BY <1>1, PathTextIs
<1>3. A \in SUBSET (1..n) /\ IsFiniteSet(A) /\ Cardinality(A) \in Nat
  <2>1. A \in SUBSET (1..n)
    BY <1>2
  <2> HIDE DEF A
  <2> QED
    BY <1>1, <2>1, Places1N
<1>4. \A i : i \in B <=> i \in A \/ (i = n + 1 /\ c = "..")
  <2>1. \A i \in 1..(n + 1) : i \in 1..n \/ i = n + 1
    BY <1>1
  <2>2. (\A i \in 1..n : i \in 1..(n + 1)) /\ n + 1 \in 1..(n + 1)
    BY <1>1
  <2> HIDE DEF t, n
  <2> QED
    BY <1>1, <1>2, <2>1, <2>2
<1>5. n + 1 \notin A
  <2>1. n + 1 \notin 1..n
    BY <1>1
  <2> HIDE DEF n, A
  <2> QED
    BY <1>3, <2>1
<1>6. TextWidth(s) = n + Cardinality(A) /\ TextWidth(t) = (n + 1) + Cardinality(B)
  BY <1>1 DEF TextWidth
<1> HIDE DEF n, t, A, B
<1>7. CASE c = ".."
  <2>1. B = A \cup {n + 1}
    BY <1>4, <1>7
  <2>2. Cardinality(B) = Cardinality(A) + 1
    BY <1>3, <1>5, <2>1, FS_AddElement
  <2>3. (n + 1) + (Cardinality(A) + 1) = (n + Cardinality(A)) + 2
    BY <1>1, <1>3
  <2> QED
    BY <1>6, <1>7, <2>2, <2>3 DEF t
<1>8. CASE c # ".."
  <2>1. B = A
    BY <1>4, <1>8
  <2>2. (n + 1) + Cardinality(A) = (n + Cardinality(A)) + 1
    BY <1>1, <1>3
  <2> QED
    BY <1>6, <1>8, <2>1, <2>2 DEF t
<1> QED
  BY <1>7, <1>8

\* A text that is too wide is cut behind the last item that fits, or in the
\* middle of "..".
LEMMA CutIs ==
  ASSUME NEW s \in PathTexts, Len(s) >= 1, s[1] = "/", TextWidth(s) > PathSize
  PROVE  \E k \in 1..(Len(s) - 1) :
           /\ TextWidth(UpTo(s, k)) <= PathSize /\ TextWidth(UpTo(s, k + 1)) > PathSize
           /\ IF TextWidth(UpTo(s, k)) = PathSize THEN Cut(s) = UpTo(s, k)
              ELSE /\ Cut(s) = Append(UpTo(s, k), ".") /\ s[k + 1] = ".."
                   /\ TextWidth(UpTo(s, k)) = PathSize - 1
<1> DEFINE n == Len(s)
           W(k) == TextWidth(UpTo(s, k))
<1>0. n \in Nat /\ n >= 1 /\ PathSize \in Nat /\ PathSize >= 1
  BY WholeText, BufferAssumption
<1>1. \A k \in 0..n : W(k) \in Nat
  BY TextPrefix, WidthIs
<1>2. W(n) > PathSize
  BY WholeText
<1>3. W(1) = 1
  <2>1. 1 \in 0..n /\ \A i \in 1..1 : i = 1
    BY <1>0
  <2>2. UpTo(s, 1) \in PathTexts /\ Len(UpTo(s, 1)) = 1 /\ UpTo(s, 1)[1] = "/"
    <3>1. 1 \in 1..1 /\ \A i \in 1..1 : UpTo(s, 1)[i] = s[i]
      BY <2>1, TextPrefix
    <3>2. UpTo(s, 1)[1] = "/"
      BY <3>1
    <3> QED
      BY <2>1, <3>2, TextPrefix
  <2>3. \A i \in 1..1 : UpTo(s, 1)[i] # ".."
    BY <2>1, <2>2
  <2> QED
    BY <2>2, <2>3, WidthIs
<1>3a. W(0) = 0
  <2>1. <<>> \in PathTexts /\ Len(<<>>) = 0
    BY PathTextIs
  <2>2. \A i \in 1..0 : <<>>[i] # ".."
    OBVIOUS
  <2>3. TextWidth(<<>>) = 0
    BY <2>1, <2>2, WidthIs
  <2> QED
    BY <2>3, WholeText
<1> DEFINE Fit(k) == W(k) <= PathSize /\ W(k + 1) > PathSize
<1>4. \E k \in 0..(n - 1) : Fit(k)
  <2> DEFINE T == {k \in 0..n : W(k) > PathSize}
  <2>1. n \in T /\ T \in SUBSET Nat
    BY <1>0, <1>2
  <2>2. PICK k \in T : \A j \in T : ~(j < k)
    <3> HIDE DEF T
    <3> QED
      BY <2>1, Least
  <2>3. k \in 0..n /\ W(k) > PathSize /\ k # 0
    BY <1>0, <1>3a
  <2>4. k - 1 \in 0..(n - 1) /\ k - 1 \in 0..n /\ k - 1 < k /\ (k - 1) + 1 = k
    BY <1>0, <2>3
  <2>5. ~(W(k - 1) > PathSize)
    BY <2>2, <2>4
  <2> HIDE DEF W
  <2>6. W(k - 1) <= PathSize
    BY <1>0, <1>1, <2>4, <2>5
  <2> QED
    BY <2>3, <2>4, <2>6
<1> DEFINE k == CHOOSE k \in 0..(n - 1) : Fit(k)
<1>5. k \in 0..(n - 1) /\ Fit(k)
  <2> HIDE DEF Fit
  <2> QED
    BY <1>4
<1>6. Cut(s) = IF W(k) = PathSize THEN UpTo(s, k) ELSE Append(UpTo(s, k), ".")
  <2>1. ~(TextWidth(s) <= PathSize)
    <3>1. TextWidth(s) \in Nat
      BY WidthIs
    <3> QED
      BY <1>0, <3>1
  <2> QED
    BY <2>1 DEF Cut
<1> HIDE DEF k
<1>7. k # 0
  <2>1. 0 + 1 = 1
    OBVIOUS
  <2> HIDE DEF W
  <2> QED
    BY <1>0, <1>3, <1>5, <2>1
<1>8. /\ k \in 1..(n - 1) /\ k \in 0..n /\ k + 1 \in 0..n /\ k + 1 \in 1..n /\ k + 1 >= 1 /\ (k + 1) - 1 = k
  BY <1>0, <1>5, <1>7
<1>9. W(k + 1) = W(k) + IF s[k + 1] = ".." THEN 2 ELSE 1
  <2>1. UpTo(s, k + 1) = Append(UpTo(s, k), s[k + 1]) /\ UpTo(s, k) \in PathTexts
    BY <1>8, TextPrefix
  <2>2. s[k + 1] \in Item
    BY <1>8, WholeText
  <2> QED
    BY <2>1, <2>2, WidthGrows
<1>10. ASSUME W(k) # PathSize PROVE s[k + 1] = ".." /\ W(k) = PathSize - 1
  <2>1. W(k) \in Nat /\ W(k) <= PathSize /\ W(k + 1) > PathSize
    BY <1>1, <1>5, <1>8
  <2> DEFINE w == W(k)
             v == W(k + 1)
  <2>2. w \in Nat /\ w <= PathSize /\ v > PathSize /\ w # PathSize
    BY <1>10, <2>1
  <2>3. v = w + IF s[k + 1] = ".." THEN 2 ELSE 1
    BY <1>9
  <2> HIDE DEF w, v
  <2>4. s[k + 1] = ".." /\ w = PathSize - 1
    BY <1>0, <2>2, <2>3
  <2> QED
    BY <2>4 DEF w
<1> QED
  BY <1>5, <1>6, <1>8, <1>10

\* A cut text is one of a path, if it was one as far as it is kept.
LEMMA CutLike ==
  ASSUME NEW s \in PathTexts, Len(s) >= 1, s[1] = "/",
         TextWidth(s) > PathSize => PathLike(s) \/ PathLike(Cut(s)),
         TextWidth(s) <= PathSize => PathLike(s)
  PROVE  PathLike(Cut(s)) /\ TextWidth(Cut(s)) <= PathSize
<1>0. /\ TextWidth(s) \in Nat /\ PathSize \in Nat /\ Len(s) \in Nat
      /\ TextWidth(s) <= PathSize \/ TextWidth(s) > PathSize
  BY WidthIs, WholeText, BufferAssumption
<1>1. CASE TextWidth(s) <= PathSize
  <2>1. Cut(s) = s
    BY <1>1 DEF Cut
  <2> QED
    BY <1>1, <2>1
<1>2. CASE TextWidth(s) > PathSize
  <2>1. PICK k \in 1..(Len(s) - 1) :
           /\ TextWidth(UpTo(s, k)) <= PathSize /\ TextWidth(UpTo(s, k + 1)) > PathSize
           /\ IF TextWidth(UpTo(s, k)) = PathSize THEN Cut(s) = UpTo(s, k)
              ELSE /\ Cut(s) = Append(UpTo(s, k), ".") /\ s[k + 1] = ".."
                   /\ TextWidth(UpTo(s, k)) = PathSize - 1
    BY <1>2, CutIs
  <2> DEFINE u == UpTo(s, k)
             t == Append(u, ".")
  <2>2. /\ k \in 0..Len(s) /\ k \in Nat /\ k >= 1 /\ 1 \in 1..k /\ k + 1 \in 2..Len(s) /\ (k + 1) - 1 = k
        /\ \A i \in 2..k : i \in 2..Len(s) /\ i \in 1..k /\ i - 1 \in 1..k
    BY <1>0
  <2>3. u \in PathTexts /\ Len(u) = k /\ \A i \in 1..k : u[i] = s[i]
    BY <2>2, TextPrefix
  <2>4. "." \in Item /\ u \in Seq(Item)
    BY <2>3, PathTextIs DEF Item
  <2>5. t \in PathTexts /\ Len(t) = k + 1 /\ t[k + 1] = "." /\ (\A i \in 1..k : t[i] = s[i])
    <3> HIDE DEF u
    <3> QED
      BY <2>3, <2>4, PathTextIs, AppendProperties
  <2>6. TextWidth(t) = TextWidth(u) + 1
    <3> HIDE DEF u
    <3> QED
      BY <2>3, <2>4, WidthGrows
  <2>7. TextWidth(Cut(s)) <= PathSize
    <3>1. TextWidth(u) = PathSize - 1 => TextWidth(t) = PathSize
      BY <1>0, <2>6
    <3> HIDE DEF t, u
    <3>2. TextWidth(u) = PathSize => TextWidth(Cut(s)) = PathSize
      BY <2>1 DEF u
    <3>3. TextWidth(u) # PathSize => TextWidth(Cut(s)) = PathSize
      BY <2>1, <3>1 DEF u, t
    <3> QED
      BY <1>0, <3>2, <3>3
  <2>8. ASSUME PathLike(s) PROVE PathLike(u)
    <3> HIDE DEF u
    <3> QED
      BY <2>2, <2>3, <2>8 DEF PathLike
  <2>9. ASSUME PathLike(s), s[k + 1] = ".." PROVE PathLike(t)
    <3>1. s[k] = "/"
      BY <2>2, <2>9 DEF PathLike
    <3>2. t[k] = "/"
      <4>1. k \in 1..k
        BY <2>2
      <4> QED
        BY <2>5, <3>1, <4>1
    <3>3. \A i \in 2..(k + 1) : i \in 2..k \/ i = k + 1
      BY <2>2
    <3>4. \A i \in 2..(k + 1) : t[i - 1] = "/" \/ t[i] = "/"
      <4> HIDE DEF t
      <4> QED
        BY <2>2, <2>5, <2>9, <3>2, <3>3 DEF PathLike
    <3>5. k + 1 >= 1
      BY <2>2
    <3> HIDE DEF t
    <3> QED
      BY <2>2, <2>5, <2>9, <3>4, <3>5 DEF PathLike
  <2>10. PathLike(Cut(s))
    <3> SUFFICES ASSUME PathLike(s) PROVE PathLike(Cut(s))
      BY <1>2
    <3> QED
      BY <2>1, <2>8, <2>9
  <2> QED
    BY <2>7, <2>10
<1> QED
  BY <1>0, <1>1, <1>2
-----------------------------------------------------------------------------
(* The paths of a command *)

\* The current directory, and the text of a word.
Cwd == Normal(cwd) /\ Len(cwd) <= PathSize
Arg(t) ==
  /\ t \in PathTexts /\ Len(t) >= 1
  /\ \A i \in 2..Len(t) : t[i - 1] = "/" \/ t[i] = "/"

LEMMA Joined ==
  ASSUME NEW u, PathLike(u), NEW t, Arg(t), u[Len(u)] = "/" \/ t[1] = "/"
  PROVE  PathLike(u \o t)
<1> DEFINE n == Len(u)
           m == Len(t)
           s == u \o t
<1>1. n \in Nat /\ m \in Nat /\ n >= 1 /\ m >= 1 /\ u \in Seq(Item) /\ t \in Seq(Item)
  BY WholeText, PathTextIs DEF PathLike, Arg
<1>2. s \in PathTexts /\ Len(s) = n + m /\ (\A i \in 1..n : s[i] = u[i]) /\ \A i \in 1..m : s[n + i] = t[i]
  <2>1. \A i \in 1..(n + m) : s[i] = IF i <= n THEN u[i] ELSE t[i - n]
    BY <1>1
  <2>2. \A i \in 1..n : i \in 1..(n + m) /\ i <= n
    BY <1>1
  <2>3. \A i \in 1..m : n + i \in 1..(n + m) /\ ~(n + i <= n) /\ (n + i) - n = i
    BY <1>1
  <2>4. s \in PathTexts /\ Len(s) = n + m
    BY <1>1, PathTextIs, ConcatProperties
  <2> HIDE DEF s
  <2> QED
    BY <2>1, <2>2, <2>3, <2>4
<1> HIDE DEF s
<1>3. ASSUME NEW i \in 2..(n + m) PROVE s[i - 1] = "/" \/ s[i] = "/"
  <2>1. CASE i <= n
    <3>1. i \in 2..n /\ i \in 1..n /\ i - 1 \in 1..n
      BY <1>1, <2>1
    <3> QED
      BY <1>2, <3>1 DEF PathLike
  <2>2. CASE i = n + 1
    <3>1. i - 1 = n /\ n \in 1..n /\ 1 \in 1..m
      BY <1>1, <2>2
    <3>2. s[i - 1] = u[n] /\ s[i] = t[1]
      BY <1>2, <2>2, <3>1
    <3> QED
      BY <3>2
  <2>3. CASE i > n + 1
    <3>1. /\ i - n \in 2..m /\ i - n \in 1..m /\ (i - n) - 1 \in 1..m
          /\ n + (i - n) = i /\ n + ((i - n) - 1) = i - 1
      BY <1>1, <2>3
    <3>2. s[i] = t[i - n] /\ s[i - 1] = t[(i - n) - 1]
      BY <1>2, <3>1
    <3> QED
      BY <3>1, <3>2 DEF Arg
  <2> QED
    BY <1>1, <2>1, <2>2, <2>3
<1>4. n + m >= 1 /\ 1 \in 1..n
  BY <1>1
<1>5. s[1] = "/"
  BY <1>2, <1>4 DEF PathLike
<1> QED
  BY <1>2, <1>3, <1>4, <1>5 DEF PathLike, s

LEMMA CwdIs ==
  ASSUME Cwd
  PROVE  /\ PathLike(cwd) /\ TextWidth(cwd) = Len(cwd) /\ Len(cwd) \in Nat
         /\ \A i \in 1..Len(cwd) : cwd[i] # ".."
<1>1. cwd \in PathTexts /\ Len(cwd) \in Nat /\ Len(cwd) >= 1 /\ cwd[1] = "/"
      /\ \A i \in 1..Len(cwd) : cwd[i] # ".."
  BY WholeText DEF Cwd, Normal
<1>2. \A i \in 2..Len(cwd) : cwd[i - 1] = "/" \/ cwd[i] = "/"
  BY DEF Cwd, Normal
<1> QED
  BY <1>1, <1>2, WidthIs DEF PathLike

LEMMA SlashBehind ==
  ASSUME NEW s, PathLike(s)
  PROVE  /\ PathLike(s \o <<"/">>) /\ (s \o <<"/">>)[Len(s \o <<"/">>)] = "/"
         /\ Follow(<<>>, s \o <<"/">>) = Follow(<<>>, s)
<1> DEFINE t == <<"/">>
<1>1. t \in PathTexts /\ Len(t) = 1 /\ t[1] = "/" /\ "/" \in Item
  BY PathTextIs DEF Item
<1>2. s \in PathTexts /\ s \in Seq(Item)
  BY PathTextIs DEF PathLike
<1>3. (s \o t)[Len(s \o t)] = "/"
  BY <1>1, <1>2
<1> HIDE DEF t
<1>4. Arg(t)
  BY <1>1 DEF Arg
<1>5. PathLike(s \o t)
  BY <1>1, <1>4, Joined
<1>6. Follow(<<>>, s) \in Seq(Item) /\ Follow(<<>>, s \o t) = Follow(Follow(<<>>, s), t)
  BY <1>1, <1>2, FollowOn
<1>7. PICK f \in [0..Len(t) -> Seq(Item)] :
        /\ f[0] = Follow(<<>>, s) /\ Follow(Follow(<<>>, s), t) = f[Len(t)]
        /\ \A i \in 1..Len(t) : f[i] = Move(f[i - 1], t[i])
  BY <1>1, <1>6, FollowIs
<1>8. f[1] = Move(f[0], "/")
  <2>1. 1 \in 1..Len(t) /\ 1 - 1 = 0
    BY <1>1
  <2> QED
    BY <1>1, <1>7, <2>1
<1>9. Move(f[0], "/") = f[0]
  BY DEF Move
<1> QED
  BY <1>1, <1>3, <1>5, <1>6, <1>7, <1>8, <1>9 DEF t

\* A word is read from the current directory, or from the root; what does not
\* fit is cut, and never in the middle of a name.
LEMMA AbsoluteIs ==
  ASSUME Cwd, NEW t, Arg(t)
  PROVE  /\ PathLike(Cut(Absolute(t))) /\ TextWidth(Cut(Absolute(t))) <= PathSize
         /\ Cut(Absolute(t)) = Absolute(t) =>
              Follow(<<>>, Absolute(t)) = Follow(IF t[1] = "/" THEN <<>> ELSE Follow(<<>>, cwd), t)
<1>1. /\ t \in PathTexts /\ Len(t) \in Nat /\ Len(t) >= 1 /\ t \in Seq(Item)
      /\ cwd \in PathTexts /\ cwd \in Seq(Item) /\ Len(cwd) >= 1 /\ cwd[1] = "/"
  BY WholeText, PathTextIs DEF Arg, Cwd, Normal
<1>2. /\ PathLike(cwd) /\ TextWidth(cwd) = Len(cwd) /\ Len(cwd) \in Nat /\ Len(cwd) <= PathSize
      /\ PathSize \in Nat /\ \A i \in 1..Len(cwd) : cwd[i] # ".."
  BY CwdIs, BufferAssumption DEF Cwd
<1>3. ASSUME NEW s, PathLike(s) PROVE PathLike(Cut(s)) /\ TextWidth(Cut(s)) <= PathSize
  BY <1>3, CutLike DEF PathLike
<1>4. CASE t[1] = "/"
  <2>1. Absolute(t) = t
    BY <1>4 DEF Absolute
  <2>2. PathLike(t)
    BY <1>1, <1>4 DEF PathLike, Arg
  <2> QED
    BY <1>3, <1>4, <2>1, <2>2
<1>5. CASE t[1] # "/" /\ Len(cwd) > 1 /\ Len(cwd) < PathSize
  <2> DEFINE u == cwd \o <<"/">>
  <2>1. Absolute(t) = u \o t
    BY <1>2, <1>5 DEF Absolute
  <2>2. PathLike(u) /\ u[Len(u)] = "/" /\ Follow(<<>>, u) = Follow(<<>>, cwd)
    BY <1>2, SlashBehind
  <2> HIDE DEF u
  <2>3. PathLike(u \o t)
    BY <2>2, Joined
  <2>4. u \in PathTexts
    BY <2>2 DEF PathLike
  <2>5. Follow(<<>>, u \o t) = Follow(Follow(<<>>, cwd), t)
    BY <1>1, <2>2, <2>4, FollowOn
  <2> QED
    BY <1>3, <1>5, <2>1, <2>3, <2>5
<1>6. CASE t[1] # "/" /\ ~(Len(cwd) > 1)
  <2>1. Absolute(t) = cwd \o t
    BY <1>2, <1>6 DEF Absolute
  <2>2. Len(cwd) = 1
    BY <1>1, <1>2, <1>6
  <2>3. PathLike(cwd \o t)
    BY <1>1, <1>2, <2>2, Joined
  <2>4. Follow(<<>>, cwd \o t) = Follow(Follow(<<>>, cwd), t)
    BY <1>1, FollowOn
  <2> QED
    BY <1>3, <1>6, <2>1, <2>3, <2>4
<1>7. CASE t[1] # "/" /\ Len(cwd) > 1 /\ ~(Len(cwd) < PathSize)
  <2> DEFINE n == Len(cwd)
             s == cwd \o t
  <2>1. Absolute(t) = s
    BY <1>2, <1>7 DEF Absolute
  <2>2. n = PathSize /\ n \in Nat /\ n >= 1
    BY <1>1, <1>2, <1>7
  <2>3. /\ s \in PathTexts /\ Len(s) \in Nat /\ Len(s) = n + Len(t) /\ \A i \in 1..n : s[i] = cwd[i]
    BY <1>1, PathTextIs, ConcatProperties
  <2>4. SubSeq(s, 1, n) = cwd
    BY <1>1
  <2>5. UpTo(s, n) = cwd
    BY <2>4 DEF UpTo
  <2> HIDE DEF s
  <2>6. Len(s) >= 1 /\ s[1] = "/" /\ s # cwd
    <3>1. 1 \in 1..n /\ n + Len(t) >= 1 /\ n + Len(t) # n
      BY <1>1, <2>2
    <3> QED
      BY <1>1, <2>3, <3>1
  <2>7. TextWidth(s) > PathSize
    <3>1. Len(s) <= TextWidth(s) /\ TextWidth(s) \in Nat
      BY <2>3, WidthIs
    <3> QED
      BY <1>1, <2>2, <2>3, <3>1
  <2>8. PICK k \in 1..(Len(s) - 1) :
           /\ TextWidth(UpTo(s, k)) <= PathSize /\ TextWidth(UpTo(s, k + 1)) > PathSize
           /\ IF TextWidth(UpTo(s, k)) = PathSize THEN Cut(s) = UpTo(s, k)
              ELSE /\ Cut(s) = Append(UpTo(s, k), ".") /\ s[k + 1] = ".."
                   /\ TextWidth(UpTo(s, k)) = PathSize - 1
    BY <2>3, <2>6, <2>7, CutIs
  <2>9. k \in 0..Len(s) /\ k \in Nat /\ k + 1 \in 0..Len(s) /\ k \in 1..k
    BY <2>3
  <2>10. k <= n
    <3>1. UpTo(s, k) \in PathTexts /\ Len(UpTo(s, k)) = k
      BY <2>3, <2>9, TextPrefix
    <3>2. k <= TextWidth(UpTo(s, k)) /\ TextWidth(UpTo(s, k)) \in Nat
      BY <3>1, WidthIs
    <3> QED
      BY <2>2, <2>8, <2>9, <3>2
  <2>11. ~(k + 1 <= n)
    <3> SUFFICES ASSUME k + 1 <= n PROVE FALSE
      OBVIOUS
    <3> DEFINE v == UpTo(s, k + 1)
    <3>1. v \in PathTexts /\ Len(v) = k + 1 /\ \A i \in 1..(k + 1) : v[i] = s[i]
      BY <2>3, <2>9, TextPrefix
    <3>2. \A i \in 1..(k + 1) : i \in 1..n
      BY <2>2, <2>9
    <3> HIDE DEF v
    <3>3. \A i \in 1..(k + 1) : v[i] # ".."
      BY <1>2, <2>3, <3>1, <3>2
    <3>4. TextWidth(v) = k + 1
      BY <3>1, <3>3, WidthIs
    <3>5. TextWidth(v) > PathSize
      BY <2>8 DEF v
    <3> QED
      BY <2>2, <2>9, <3>4, <3>5
  <2>12. k = n
    BY <2>2, <2>9, <2>10, <2>11
  <2>13. TextWidth(UpTo(s, k)) = PathSize
    BY <1>2, <2>2, <2>5, <2>12
  <2>14. Cut(s) = cwd
    BY <2>5, <2>8, <2>12, <2>13
  <2>15. TextWidth(cwd) <= PathSize
    BY <1>2
  <2> QED
    BY <1>2, <2>1, <2>6, <2>14, <2>15
<1> QED
  BY <1>4, <1>5, <1>6, <1>7

\* normalize_path writes no more than it reads.
LEMMA ComponentsShort ==
  ASSUME NEW s, PathLike(s)
  PROVE  Len(Components(s)) <= Len(s)
<1> DEFINE n == Len(s)
<1>1. s \in PathTexts /\ n \in Nat /\ n \in 1..n /\ n \in 0..n /\ \A i \in 1..n : s[i] \in Item
  BY WholeText DEF PathLike
<1>2. PICK r \in [0..n -> NormalTexts] :
        /\ r[0] = <<"/">> /\ Components(s) = r[n]
        /\ \A i \in 1..n : r[i] = AddComponent(r[i - 1], s[i])
  BY <1>1, ComponentsAre
<1> DEFINE Ends(x) == x[Len(x)] = "/"
           Ok(i) == Len(r[i]) <= i /\ (s[i] = "/" /\ ~Ends(r[i]) => Len(r[i]) <= i - 1)
           T == {i \in 0..n : i = 0 \/ Ok(i)}
<1>3. \A x \in NormalTexts : Normal(x) /\ Len(x) \in Nat
  BY WholeText DEF NormalTexts, Normal
<1> HIDE DEF n
<1>4. 0 \in T
  BY <1>1
<1>5. ASSUME NEW i \in 1..n, i - 1 \in T PROVE i \in T
  <2>1. i - 1 \in 0..n /\ i \in 0..n /\ i \in Nat /\ i >= 1
    BY <1>1
  <2>2. r[i] \in NormalTexts /\ r[i - 1] \in NormalTexts /\ s[i] \in Item
    BY <1>1, <1>2, <2>1
  <2> DEFINE p == r[i - 1]
             q == r[i]
             c == s[i]
  <2>3. q = AddComponent(p, c) /\ Normal(p) /\ Len(p) \in Nat /\ Len(q) \in Nat
    BY <1>2, <1>3, <2>2
  <2>4. CASE i = 1
    <3>1. s[1] = "/"
      BY DEF PathLike
    <3>2. q = <<"/">>
      BY <1>2, <2>3, <2>4, <3>1 DEF AddComponent
    <3>3. Len(q) = 1 /\ Ends(q)
      BY <3>2
    <3> QED
      BY <2>1, <2>4, <3>3
  <2>5. CASE i # 1
    <3>1. i - 1 # 0 /\ i \in 2..n
      BY <1>1, <2>1, <2>5
    <3>2. Ok(i - 1)
      BY <1>5, <3>1
    <3>3. s[i - 1] = "/" \/ c = "/"
      BY <3>1 DEF PathLike, n
    <3>4. Len(p) <= i - 1 /\ (s[i - 1] = "/" /\ ~Ends(p) => Len(p) <= (i - 1) - 1)
      BY <3>2
    <3> HIDE DEF p, q, c
    <3>5. CASE c \in {"/", "."}
      <4>1. q = p
        BY <2>2, <2>3, <3>5, ComponentAdded DEF p, c
      <4>2. Len(q) <= i - 1 /\ Len(q) <= i
        BY <2>1, <2>3, <3>4, <4>1
      <4> QED
        BY <2>1, <4>2 DEF q, c
    <3>6. CASE c = ".."
      <4>1. Len(q) <= Len(p)
        BY <2>2, <2>3, <3>6, ComponentAdded DEF p, c
      <4>2. Len(q) <= i - 1 /\ Len(q) <= i
        BY <2>1, <2>3, <3>4, <4>1
      <4> QED
        BY <2>1, <4>2 DEF q, c
    <3>7. CASE c \notin {"/", ".", ".."}
      <4>1. c \in Item
        BY <2>2 DEF c
      <4>2. Len(q) = Len(p) + IF Ends(p) THEN 1 ELSE 2
        BY <2>3, <3>7, <4>1, NameAdded
      <4>3. s[i - 1] = "/"
        BY <3>3, <3>7
      <4>4. ~Ends(p) => Len(p) <= (i - 1) - 1
        BY <3>4, <4>3
      <4> HIDE DEF Ends
      <4>5. Len(q) <= i
        <5>1. CASE Ends(p)
          BY <2>1, <2>3, <3>4, <4>2, <5>1
        <5>2. CASE ~Ends(p)
          BY <2>1, <2>3, <4>2, <4>4, <5>2
        <5> QED
          BY <5>1, <5>2
      <4> QED
        BY <2>1, <3>7, <4>5 DEF q, c
    <3> QED
      BY <3>5, <3>6, <3>7
  <2> QED
    BY <2>4, <2>5
<1>6. n \in T
  <2> HIDE DEF T
  <2>1. 0..n \subseteq T
    BY <1>1, <1>4, <1>5, Climb
  <2> QED
    BY <1>1, <2>1
<1>7. n # 0
  BY <1>1
<1> QED
  BY <1>2, <1>6, <1>7 DEF n

LEMMA PathNormal ==
  ASSUME Cwd, NEW t, Arg(t)
  PROVE  /\ Normal(NormalizePath(t)) /\ Len(NormalizePath(t)) <= PathSize
         /\ Cut(Absolute(t)) = Absolute(t) =>
              Names(NormalizePath(t)) = Follow(IF t[1] = "/" THEN <<>> ELSE Follow(<<>>, cwd), t)
<1> DEFINE s == Cut(Absolute(t))
<1>1. PathLike(s) /\ TextWidth(s) <= PathSize
  BY AbsoluteIs
<1>2. s \in PathTexts
  BY <1>1 DEF PathLike
<1>3. NormalizePath(t) = Components(s)
  BY DEF NormalizePath
<1>4. Components(s) \in NormalTexts /\ Names(Components(s)) = Follow(<<>>, s)
  <2> HIDE DEF s
  <2> QED
    BY <1>2, NormalizedNames
<1>5. Len(Components(s)) <= Len(s)
  <2> HIDE DEF s
  <2> QED
    BY <1>1, ComponentsShort
<1>6. Len(s) <= TextWidth(s) /\ TextWidth(s) \in Nat /\ Len(s) \in Nat
  <2> HIDE DEF s
  <2> QED
    BY <1>2, WidthIs, WholeText
<1>7. Normal(Components(s)) /\ Len(Components(s)) \in Nat
  BY <1>4, WholeText DEF NormalTexts, Normal
<1>8. Len(Components(s)) <= PathSize
  <2>1. PathSize \in Nat
    BY BufferAssumption
  <2> HIDE DEF s
  <2> QED
    BY <1>1, <1>5, <1>6, <1>7, <2>1
<1> QED
  BY <1>3, <1>4, <1>7, <1>8, AbsoluteIs
-----------------------------------------------------------------------------
(* Lines and words *)

\* The first of the places i to n that is in S, or n.
Stops(S, i, n, e) == e \in i..n /\ (e = n \/ e \in S) /\ \A j \in i..(e - 1) : j \notin S

LEMMA StopIs ==
  ASSUME NEW S, NEW i \in Nat, NEW n \in Nat, i <= n
  PROVE  \E e : Stops(S, i, n, e)
<1> DEFINE T == {e \in i..n : e = n \/ e \in S}
<1>1. n \in T /\ T \in SUBSET Nat
  OBVIOUS
<1>2. PICK e \in T : \A j \in T : ~(j < e)
  <2> HIDE DEF T
  <2> QED
    BY <1>1, Least
<1>3. \A j \in i..(e - 1) : j \in i..n /\ j < e
  OBVIOUS
<1>4. \A j \in i..(e - 1) : j \notin S
  BY <1>2, <1>3
<1> QED
  BY <1>4 DEF Stops

LEMMA StopOnce ==
  ASSUME NEW S, NEW i \in Nat, NEW n \in Nat, NEW d, NEW e, Stops(S, i, n, d), Stops(S, i, n, e)
  PROVE  d = e
<1>1. d \in i..n /\ e \in i..n
  BY DEF Stops
<1>2. ~(d < e)
  <2> SUFFICES ASSUME d < e PROVE FALSE
    OBVIOUS
  <2>1. d \in i..(e - 1) /\ d # n
    BY <1>1
  <2> QED
    BY <2>1 DEF Stops
<1>3. ~(e < d)
  <2> SUFFICES ASSUME e < d PROVE FALSE
    OBVIOUS
  <2>1. e \in i..(d - 1) /\ e # n
    BY <1>1
  <2> QED
    BY <2>1 DEF Stops
<1> QED
  BY <1>1, <1>2, <1>3

Marks(b, c) == {j \in Nat : b[j] = c}
NoMarks(b, c) == {j \in Nat : b[j] # c}

LEMMA LineEndIs ==
  ASSUME NEW b, NEW size \in Nat, NEW i \in 1..(size + 1)
  PROVE  /\ Stops(Marks(b, NL), i, size + 1, LineEnd(b, i, size))
         /\ \A e : Stops(Marks(b, NL), i, size + 1, e) => LineEnd(b, i, size) = e
<1>1. i \in Nat /\ size + 1 \in Nat /\ i <= size + 1
  OBVIOUS
<1> DEFINE Ok(e) == (e > size \/ b[e] = NL) /\ \A j \in i..(e - 1) : b[j] # NL
<1>2. \A e : Stops(Marks(b, NL), i, size + 1, e) <=> e \in i..(size + 1) /\ Ok(e)
  <2>1. \A e \in i..(size + 1) : e \in Nat /\ (e > size <=> e = size + 1)
                                 /\ \A j \in i..(e - 1) : j \in Nat
    BY <1>1
  <2> QED
    BY <2>1 DEF Stops, Marks
<1>3. LineEnd(b, i, size) = CHOOSE e \in i..(size + 1) : Ok(e)
  BY DEF LineEnd
<1> HIDE DEF Ok
<1>4. \E e \in i..(size + 1) : Ok(e)
  BY <1>1, <1>2, StopIs
<1>5. Stops(Marks(b, NL), i, size + 1, LineEnd(b, i, size))
  BY <1>2, <1>3, <1>4
<1> QED
  BY <1>1, <1>5, StopOnce

LEMMA SkipIs ==
  ASSUME NEW b, NEW size \in Nat, NEW i \in 1..(size + 1)
  PROVE  /\ SkipNewlines(b, i, size) \in i..(size + 1)
         /\ i > size \/ b[i] # NL => SkipNewlines(b, i, size) = i
<1>1. i \in Nat /\ size + 1 \in Nat /\ i <= size + 1
  OBVIOUS
<1> DEFINE S == NoMarks(b, NL)
           Ok(e) == (e > size \/ b[e] # NL) /\ \A j \in i..(e - 1) : b[j] = NL
<1>2. \A e : Stops(S, i, size + 1, e) <=> e \in i..(size + 1) /\ Ok(e)
  <2>1. \A e \in i..(size + 1) : e \in Nat /\ (e > size <=> e = size + 1)
                                 /\ \A j \in i..(e - 1) : j \in Nat
    BY <1>1
  <2> QED
    BY <2>1 DEF Stops, NoMarks
<1>3. SkipNewlines(b, i, size) = CHOOSE e \in i..(size + 1) : Ok(e)
  BY DEF SkipNewlines
<1>4. ASSUME i > size \/ b[i] # NL PROVE Stops(S, i, size + 1, i)
  <2>1. i \in i..(size + 1) /\ (\A j \in i..(i - 1) : FALSE) /\ (i > size => i = size + 1)
    BY <1>1
  <2> QED
    BY <1>1, <1>4, <2>1 DEF Stops, NoMarks
<1> HIDE DEF Ok, S
<1>5. \E e \in i..(size + 1) : Ok(e)
  BY <1>1, <1>2, StopIs
<1>6. Stops(S, i, size + 1, SkipNewlines(b, i, size))
  BY <1>2, <1>3, <1>5
<1>7. i > size \/ b[i] # NL => SkipNewlines(b, i, size) = i
  BY <1>1, <1>4, <1>6, StopOnce
<1> QED
  BY <1>6, <1>7 DEF Stops

\* The string at cell i ends before the first NUL from there on.
LEMMA StringIs ==
  ASSUME NEW b \in Seq(Cell), NEW i \in 1..(Len(b) + 1)
  PROVE  /\ StringAt(b, i) \in Seq(Cell)
         /\ \A e : Stops(Marks(b, NUL), i, Len(b) + 1, e) => StringAt(b, i) = SubSeq(b, i, e - 1)
<1> DEFINE n == Len(b)
           S == Marks(b, NUL)
           Ok(e) == (e = Len(b) \/ b[e + 1] = NUL) /\ \A j \in i..e : b[j] # NUL
           d == CHOOSE e \in (i - 1)..Len(b) : Ok(e)
<1>1. n \in Nat /\ i \in Nat /\ n + 1 \in Nat /\ i <= n + 1
  OBVIOUS
<1>2. \A e : Stops(S, i, n + 1, e) => e - 1 \in (i - 1)..n /\ Ok(e - 1)
  <2>1. \A e \in i..(n + 1) : e \in Nat /\ e - 1 \in (i - 1)..n /\ (e - 1) + 1 = e
                                 /\ (e = n + 1 => e - 1 = n)
                                 /\ \A j \in i..(e - 1) : j \in Nat
    BY <1>1
  <2> QED
    BY <2>1 DEF Stops, Marks
<1>3. \A e \in (i - 1)..n : Ok(e) => Stops(S, i, n + 1, e + 1)
  <2>1. \A e \in (i - 1)..n : e + 1 \in i..(n + 1) /\ e + 1 \in Nat /\ (e + 1) - 1 = e
                                /\ (e = n => e + 1 = n + 1)
                                /\ \A j \in i..e : j \in Nat
    BY <1>1
  <2> QED
    BY <2>1 DEF Stops, Marks
<1>4. StringAt(b, i) = SubSeq(b, i, d)
  BY DEF StringAt
<1>5. \E e \in (i - 1)..n : Ok(e)
  <2> HIDE DEF Ok, S, n
  <2>1. \E e : Stops(S, i, n + 1, e)
    BY <1>1, StopIs
  <2> QED
    BY <1>2, <2>1
<1>6. d \in (i - 1)..n /\ Ok(d)
  <2> HIDE DEF Ok
  <2> QED
    BY <1>5
<1>7. Stops(S, i, n + 1, d + 1)
  BY <1>3, <1>6
<1>8. \A e : Stops(S, i, n + 1, e) => e = d + 1
  <2> HIDE DEF S, n, d
  <2> QED
    BY <1>1, <1>7, StopOnce
<1> HIDE DEF d
<1>9. (d + 1) - 1 = d /\ d \in Int
  BY <1>1, <1>6
<1>10. SubSeq(b, i, d) \in Seq(Cell)
  BY <1>1, <1>6
<1> QED
  BY <1>4, <1>8, <1>9, <1>10

LEMMA StartsAre ==
  ASSUME NEW s \in Seq(Cell)
  PROVE  /\ Len(s) \in Nat
         /\ KeptStarts(s) \in SUBSET (1..Len(s)) /\ WordStarts(s) \in SUBSET (1..Len(s))
         /\ KeptStarts(s) \subseteq WordStarts(s)
BY DEF KeptStarts, WordStarts

LEMMA WordsAre ==
  ASSUME NEW s \in Seq(Cell)
  PROVE  Words(s) \in Seq(Cell) /\ Len(Words(s)) \in Nat /\ Len(Words(s)) <= MaxArgs
<1> DEFINE K == KeptStarts(s)
           W == WordStarts(s)
           m == Cardinality(K)
           Word(k) == IF Nth(K, k) = Len(s) \/ s[Nth(K, k) + 1] = SP THEN s[Nth(K, k)] ELSE "?"
<1>1. Len(s) \in Nat /\ K \in SUBSET (1..Len(s)) /\ W \in SUBSET (1..Len(s)) /\ K \subseteq W
  BY StartsAre
<1>2. Words(s) = [k \in 1..m |-> Word(k)]
  BY DEF Words
<1> HIDE DEF K
<1>3. m \in Nat /\ \A k \in 1..m : Nth(K, k) \in K /\ Cardinality({j \in K : j < Nth(K, k)}) = k - 1
  BY <1>1, Places1N, NthIs
<1>4. \A k \in 1..m : Word(k) \in Cell
  <2>1. \A i \in 1..Len(s) : s[i] \in Cell
    BY ElementOfSeq
  <2>2. "?" \in Cell
    BY TextAssumption
  <2> QED
    BY <1>1, <1>3, <2>1, <2>2
<1> HIDE DEF Word, m
<1>5. Words(s) \in Seq(Cell) /\ Len(Words(s)) = m
  BY <1>2, <1>3, <1>4
<1>6. ~(m > MaxArgs)
  <2> SUFFICES ASSUME m > MaxArgs PROVE FALSE
    OBVIOUS
  <2>1. MaxArgs \in Nat /\ MaxArgs + 1 \in 1..m /\ (MaxArgs + 1) - 1 = MaxArgs
    BY <1>3, BufferAssumption
  <2> DEFINE i == Nth(K, MaxArgs + 1)
             A == {j \in K : j < i}
             B == {j \in W : j < i}
  <2>2. i \in K /\ Cardinality(A) = MaxArgs
    BY <1>3, <2>1
  <2>3. Cardinality(B) < MaxArgs
    BY <2>2 DEF K, KeptStarts
  <2>4. A \in SUBSET B
    BY <1>1
  <2>5. IsFiniteSet(B) /\ Cardinality(B) \in Nat
    <3> HIDE DEF i, W
    <3> QED
      BY <1>1, Places1N
  <2> HIDE DEF A, B, i
  <2>6. Cardinality(A) <= Cardinality(B)
    BY <2>4, <2>5, FS_Subset
  <2> QED
    BY <2>1, <2>2, <2>3, <2>5, <2>6
<1> QED
  BY <1>3, <1>5, <1>6, BufferAssumption
-----------------------------------------------------------------------------
(* The words of a command *)

LEMMA TextOfIs ==
  ASSUME NEW w \in Cell
  PROVE  Arg(TextOf(w))
<1>1. CASE w \in DOMAIN PathText
  <2>1. TextOf(w) = PathText[w]
    BY <1>1 DEF TextOf
  <2>2. PathText[w] \in PathTexts \ {<<>>}
        /\ \A i \in 2..Len(PathText[w]) : "/" \in {PathText[w][i - 1], PathText[w][i]}
    BY <1>1, TextAssumption
  <2> DEFINE t == PathText[w]
  <2>3. t \in Seq(Item) /\ t # <<>>
    BY <2>2, PathTextIs
  <2>4. Len(t) >= 1
    <3> HIDE DEF t
    <3> QED
      BY <2>3, EmptySeq, LenProperties
  <2> QED
    BY <2>1, <2>2, <2>4 DEF Arg
<1>2. CASE w \notin DOMAIN PathText
  <2>1. TextOf(w) = <<w>> /\ w \in Item
    BY <1>2 DEF TextOf, Item
  <2>2. <<w>> \in Seq(Item) /\ Len(<<w>>) = 1
    BY <2>1
  <2> QED
    BY <2>1, <2>2, PathTextIs DEF Arg
<1> QED
  BY <1>1, <1>2

\* What a command is given: a current directory, and words with their paths.
CommandOK ==
  /\ Cwd
  /\ argv \in Seq(Cell) /\ Len(argv) <= MaxArgs
  /\ pc \in {"exec", "write"} => path = PathsOf(argv)
  /\ pc = "write" => Command = "wt" /\ Len(argv) >= 3

LEMMA PathIs ==
  ASSUME Cwd, argv \in Seq(Cell), path = PathsOf(argv), NEW k \in 1..(Len(argv) - 1)
  PROVE  /\ Normal(path[k]) /\ Len(path[k]) <= PathSize /\ Names(path[k]) \in Seq(Item)
         /\ Fits(argv[k + 1]) => Names(path[k]) = Named(argv[k + 1])
<1>1. Len(argv) \in Nat /\ k \in Nat /\ k + 1 \in 1..Len(argv)
  OBVIOUS
<1>2. argv[k + 1] \in Cell
  BY <1>1, ElementOfSeq
<1>3. path[k] = NormalizePath(TextOf(argv[k + 1]))
  BY DEF PathsOf
<1>4. Arg(TextOf(argv[k + 1]))
  BY <1>2, TextOfIs
<1> DEFINE t == TextOf(argv[k + 1])
<1>5. /\ Normal(NormalizePath(t)) /\ Len(NormalizePath(t)) <= PathSize
      /\ Cut(Absolute(t)) = Absolute(t) =>
           Names(NormalizePath(t)) = Follow(IF t[1] = "/" THEN <<>> ELSE Follow(<<>>, cwd), t)
  <2> HIDE DEF t
  <2> QED
    BY <1>4, PathNormal DEF t
<1>6. Names(path[k]) \in Seq(Item)
  <2>1. path[k] \in PathTexts
    BY <1>3, <1>5 DEF Normal
  <2> QED
    BY <2>1, NamesAre
<1> QED
  BY <1>3, <1>5, <1>6 DEF Fits, Named
-----------------------------------------------------------------------------
(* Steps of the tree *)

TreeOK ==
  /\ RootPath \in DOMAIN tree /\ tree[RootPath] = Directory
  /\ \A p \in DOMAIN tree : p \in Paths /\ tree[p] \in Node
  /\ TreeHangsTogether

\* One call of the file system on the path p, or on p and q.
TreeStep(p, q) ==
  \/ UNCHANGED tree
  \/ p \in Paths /\ (CreateFile(p) \/ MakeDirectory(p))
  \/ \E d \in Data : SetData(p, d)
  \/ RemoveFile(p) \/ RemoveEmptyDirectory(p)
  \/ q \in Paths /\ Rename(p, q)
  \/ q \in Paths /\ IsFile(p) /\ BothNames(p, q)

LEMMA NodeKinds ==
  /\ Directory.kind = "dir" /\ Directory.data \in Data /\ Directory \in Node
  /\ \A d \in Data : FileOf(d).kind = "file" /\ FileOf(d).data \in Data /\ FileOf(d) \in Node /\ FileOf(d) # Directory
  /\ Empty \in Data
  /\ \A x \in Node : x.kind \in {"dir", "file"} /\ x.data \in Data /\ (x.kind = "file" <=> x # Directory)
<1>1. Empty \in Data
  BY DataAssumption
<1>2. Directory.kind = "dir" /\ Directory.data \in Data
  BY <1>1 DEF Directory
<1>3. ASSUME NEW d \in Data
      PROVE  FileOf(d).kind = "file" /\ FileOf(d).data \in Data /\ FileOf(d) # Directory
  BY DEF FileOf, Directory
<1> QED
  BY <1>1, <1>2, <1>3 DEF Node

\* A node is added, or another put in its place.
LEMMA TreeWith ==
  ASSUME TreeOK, NEW p \in Paths, p # RootPath, NEW node \in Node, tree' = With(p, node),
         IsDirectory(Parent(p)), IsFile(p) \/ ~Exists(p)
  PROVE  TreeOK' /\ Changed \subseteq {p}
<1>1. /\ DOMAIN tree' = DOMAIN tree \cup {p}
      /\ \A q \in DOMAIN tree' : tree'[q] = IF q = p THEN node ELSE tree[q]
  BY DEF With
<1>2. Changed \subseteq {p}
  BY <1>1 DEF Changed
<1>3. \A q \in DOMAIN tree' : q \in Paths /\ tree'[q] \in Node
  BY <1>1 DEF TreeOK
<1>4. ASSUME NEW q, IsDirectory(q)
      PROVE  q \in DOMAIN tree' /\ tree'[q] = Directory
  <2>1. q \in DOMAIN tree /\ tree[q] = Directory
    BY <1>4 DEF IsDirectory, Exists
  <2>2. q # p
    BY <2>1, NodeKinds DEF IsFile, Exists
  <2> QED
    BY <1>1, <2>1, <2>2
<1>5. ASSUME NEW q \in DOMAIN tree', q # RootPath
      PROVE  Parent(q) \in DOMAIN tree' /\ tree'[Parent(q)] = Directory
  <2>1. IsDirectory(Parent(q))
    BY <1>1, <1>5 DEF TreeOK, TreeHangsTogether
  <2> QED
    BY <1>4, <2>1
<1>6. TreeHangsTogether'
  BY <1>5 DEF TreeHangsTogether, IsDirectory, Exists
<1>7. IsDirectory(RootPath)
  BY DEF TreeOK, IsDirectory, Exists
<1> QED
  BY <1>2, <1>3, <1>4, <1>6, <1>7 DEF TreeOK

\* A node without children is taken away.
LEMMA TreeWithout ==
  ASSUME TreeOK, NEW p, p # RootPath, tree' = Without(p),
         \A q \in DOMAIN tree : q # RootPath => Parent(q) # p
  PROVE  TreeOK' /\ Changed \subseteq {p}
<1>1. DOMAIN tree' = DOMAIN tree \ {p} /\ \A q \in DOMAIN tree' : tree'[q] = tree[q]
  BY DEF Without
<1>2. Changed \subseteq {p}
  BY <1>1 DEF Changed
<1>3. \A q \in DOMAIN tree' : q \in Paths /\ tree'[q] \in Node
  BY <1>1 DEF TreeOK
<1>4. ASSUME NEW q \in DOMAIN tree', q # RootPath
      PROVE  Parent(q) \in DOMAIN tree' /\ tree'[Parent(q)] = Directory
  <2>1. Parent(q) \in DOMAIN tree /\ tree[Parent(q)] = Directory
    BY <1>1, <1>4 DEF TreeOK, TreeHangsTogether, IsDirectory, Exists
  <2>2. Parent(q) # p
    BY <1>1, <1>4
  <2> QED
    BY <1>1, <2>1, <2>2
<1>5. TreeHangsTogether'
  BY <1>4 DEF TreeHangsTogether, IsDirectory, Exists
<1> QED
  BY <1>1, <1>2, <1>3, <1>5 DEF TreeOK

LEMMA TreeRenamed ==
  ASSUME TreeOK, NEW p, NEW q \in Paths, Rename(p, q)
  PROVE  TreeOK' /\ Changed \subseteq {p, q}
<1>1. /\ DOMAIN tree' = (DOMAIN tree \ {p}) \cup {q}
      /\ \A r \in DOMAIN tree' : tree'[r] = IF r = q THEN tree[p] ELSE tree[r]
  BY DEF Rename
<1>2. p \in DOMAIN tree /\ tree[p].kind = "file" /\ q \notin DOMAIN tree /\ q # RootPath /\ IsDirectory(Parent(q))
  BY DEF Rename, IsFile, CanMake, Exists
<1>3. Changed \subseteq {p, q}
  BY <1>1 DEF Changed
<1>4. \A r \in DOMAIN tree' : r \in Paths /\ tree'[r] \in Node
  BY <1>1, <1>2 DEF TreeOK
<1>5. ASSUME NEW r, IsDirectory(r)
      PROVE  r \in DOMAIN tree' /\ tree'[r] = Directory
  <2>1. r \in DOMAIN tree /\ tree[r] = Directory
    BY <1>5 DEF IsDirectory, Exists
  <2>2. r # p /\ r # q
    BY <1>2, <2>1, NodeKinds
  <2> QED
    BY <1>1, <2>1, <2>2
<1>6. ASSUME NEW r \in DOMAIN tree', r # RootPath
      PROVE  Parent(r) \in DOMAIN tree' /\ tree'[Parent(r)] = Directory
  <2>1. IsDirectory(Parent(r))
    BY <1>1, <1>2, <1>6 DEF TreeOK, TreeHangsTogether
  <2> QED
    BY <1>5, <2>1
<1>7. TreeHangsTogether'
  BY <1>6 DEF TreeHangsTogether, IsDirectory, Exists
<1>8. IsDirectory(RootPath)
  BY DEF TreeOK, IsDirectory, Exists
<1> QED
  BY <1>3, <1>4, <1>5, <1>7, <1>8 DEF TreeOK

LEMMA TreeKept ==
  ASSUME TreeOK, NEW p, NEW q, TreeStep(p, q)
  PROVE  TreeOK' /\ Changed \subseteq {p, q}
<1>1. CASE UNCHANGED tree
  <2>1. Changed = {}
    BY <1>1 DEF Changed
  <2> QED
    BY <1>1, <2>1 DEF TreeOK, TreeHangsTogether, IsDirectory, Exists
<1>2. CASE p \in Paths /\ (CreateFile(p) \/ MakeDirectory(p))
  <2>1. CanMake(p) /\ \E node \in Node : tree' = With(p, node)
    BY <1>2, NodeKinds DEF CreateFile, MakeDirectory
  <2> QED
    BY <1>2, <2>1, TreeWith DEF CanMake
<1>3. CASE \E d \in Data : SetData(p, d)
  <2>1. IsFile(p) /\ \E node \in Node : tree' = With(p, node)
    BY <1>3, NodeKinds DEF SetData
  <2>2. p \in DOMAIN tree /\ tree[p].kind = "file"
    BY <2>1 DEF IsFile, Exists
  <2>3. p # RootPath /\ p \in Paths
    BY <2>2, NodeKinds DEF TreeOK
  <2>4. IsDirectory(Parent(p))
    BY <2>2, <2>3 DEF TreeOK, TreeHangsTogether
  <2> QED
    BY <2>1, <2>3, <2>4, TreeWith
<1>4. CASE RemoveFile(p)
  <2>1. p \in DOMAIN tree /\ tree[p].kind = "file" /\ tree' = Without(p)
    BY <1>4 DEF RemoveFile, IsFile, Exists
  <2>2. p # RootPath
    BY <2>1, NodeKinds DEF TreeOK
  <2>3. \A r \in DOMAIN tree : r # RootPath => Parent(r) # p
    BY <2>1, NodeKinds DEF TreeOK, TreeHangsTogether, IsDirectory, Exists
  <2> QED
    BY <2>1, <2>2, <2>3, TreeWithout
<1>5. CASE RemoveEmptyDirectory(p)
  <2>1. p # RootPath /\ Children(p) = {} /\ tree' = Without(p)
    BY <1>5 DEF RemoveEmptyDirectory, IsEmptyDirectory
  <2>2. \A r \in DOMAIN tree : r # RootPath => Parent(r) # p
    BY <2>1 DEF Children
  <2> QED
    BY <2>1, <2>2, TreeWithout
<1>6. CASE q \in Paths /\ Rename(p, q)
  BY <1>6, TreeRenamed
<1>7. CASE q \in Paths /\ IsFile(p) /\ BothNames(p, q)
  <2>1. tree[p] \in Node
    BY <1>7 DEF IsFile, Exists, TreeOK
  <2>2. q \in Paths /\ q # RootPath /\ tree' = With(q, tree[p]) /\ IsDirectory(Parent(q)) /\ ~Exists(q)
    BY <1>7 DEF BothNames, CanMake
  <2>3. TreeOK' /\ Changed \subseteq {q}
    BY <2>1, <2>2, TreeWith
  <2> QED
    BY <2>3
<1> QED
  BY <1>1, <1>2, <1>3, <1>4, <1>5, <1>6, <1>7 DEF TreeStep

LEMMA ParentBelow ==
  ASSUME NEW p \in Paths, NEW q \in Paths, q # RootPath, p # RootPath
  PROVE  /\ IsPrefix(q, Parent(p)) => IsPrefix(q, p)
         /\ Parent(p) = q => IsPrefix(q, p)
         /\ IsPrefix(q, q) /\ ~IsPrefix(q, RootPath)
         /\ ~IsPrefix(q, Parent(q)) /\ Parent(q) # q
<1>1. ASSUME NEW r \in Paths, r # RootPath
      PROVE  /\ r \in Seq(Name) /\ Len(r) \in Nat /\ Len(r) >= 1
             /\ Parent(r) \in Seq(Name) /\ Len(Parent(r)) = Len(r) - 1
             /\ \A i \in 1..(Len(r) - 1) : Parent(r)[i] = r[i]
  <2>1. PICK k \in 0..MaxPath : r \in [1..k -> Name]
    BY DEF Paths
  <2>2. k \in Nat
    BY <2>1, DiskAssumption
  <2>3. r \in Seq(Name) /\ Len(r) = k
    BY <2>1, <2>2
  <2>4. k # 0
    BY <2>2, <2>3, <1>1, EmptySeq DEF RootPath
  <2>5. k - 1 \in Nat /\ \A i \in 1..(k - 1) : i \in 1..k /\ r[i] \in Name
    BY <2>1, <2>2, <2>4
  <2>6. Parent(r) \in Seq(Name) /\ Len(Parent(r)) = k - 1 /\ \A i \in 1..(k - 1) : Parent(r)[i] = r[i]
    BY <2>2, <2>3, <2>5 DEF Parent
  <2> QED
    BY <2>2, <2>3, <2>4, <2>6
<1>2. /\ p \in Seq(Name) /\ Len(p) \in Nat /\ Len(p) >= 1 /\ Parent(p) \in Seq(Name) /\ Len(Parent(p)) = Len(p) - 1
      /\ \A i \in 1..(Len(p) - 1) : Parent(p)[i] = p[i]
  BY <1>1
<1>3. /\ q \in Seq(Name) /\ Len(q) \in Nat /\ Len(q) >= 1 /\ Parent(q) \in Seq(Name) /\ Len(Parent(q)) = Len(q) - 1
  BY <1>1
<1> DEFINE up == Parent(p)
<1> HIDE DEF up
<1>4. up \in Seq(Name) /\ Len(up) = Len(p) - 1 /\ \A i \in 1..(Len(p) - 1) : up[i] = p[i]
  BY <1>2 DEF up
<1>5. ASSUME Len(q) <= Len(p) - 1
      PROVE  SubSeq(up, 1, Len(q)) = SubSeq(p, 1, Len(q))
  <2>1. \A i \in 1..Len(q) : i \in 1..Len(up) /\ i \in 1..Len(p) /\ up[i] = p[i]
    BY <1>2, <1>3, <1>4, <1>5
  <2>2. SubSeq(up, 1, Len(q)) = [i \in 1..Len(q) |-> up[i]]
    BY <1>3, <1>4, <2>1
  <2>3. SubSeq(p, 1, Len(q)) = [i \in 1..Len(q) |-> p[i]]
    BY <1>2, <1>3, <2>1
  <2>4. [i \in 1..Len(q) |-> up[i]] = [i \in 1..Len(q) |-> p[i]]
    BY <2>1
  <2> QED
    BY <2>2, <2>3, <2>4
<1>6. IsPrefix(q, up) => IsPrefix(q, p)
  BY <1>2, <1>3, <1>4, <1>5 DEF IsPrefix
<1>7. up = q => IsPrefix(q, p)
  <2>1. IsPrefix(q, q)
    BY <1>3 DEF IsPrefix
  <2> QED
    BY <1>6, <2>1
<1>8. IsPrefix(q, q) /\ ~IsPrefix(q, Parent(q)) /\ Parent(q) # q
  BY <1>3 DEF IsPrefix
<1>9. ~IsPrefix(q, RootPath)
  BY <1>3 DEF IsPrefix, RootPath
<1> QED
  BY <1>6, <1>7, <1>8, <1>9 DEF up

\* What a stray write leaves is still a tree.
LEMMA StrayKept ==
  ASSUME TreeOK, StrayWrite
  PROVE  TreeOK'
<1>1. PICK q \in StrayPaths :
        \/ tree' = [p \in {p \in DOMAIN tree : ~IsPrefix(q, p)} |-> tree[p]]
        \/ /\ IsDirectory(Parent(q))
           /\ \E node \in {Directory} \cup {FileOf(d) : d \in StrayData} :
                tree' = [p \in {p \in DOMAIN tree : ~IsPrefix(q, p)} \cup {q} |-> IF p = q THEN node ELSE tree[p]]
  BY DEF StrayWrite
<1> DEFINE kept == {p \in DOMAIN tree : ~IsPrefix(q, p)}
<1>2. q \in Paths /\ q # RootPath
  BY StrayAssumption
<1>3. /\ RootPath \in DOMAIN tree /\ tree[RootPath] = Directory
      /\ \A p \in DOMAIN tree : p \in Paths /\ tree[p] \in Node
      /\ \A p \in DOMAIN tree : p # RootPath => Parent(p) \in DOMAIN tree /\ tree[Parent(p)] = Directory
  BY DEF TreeOK, TreeHangsTogether, IsDirectory, Exists
<1>4. /\ RootPath \in kept /\ q \notin kept
      /\ \A p \in kept : p # RootPath => Parent(p) \in kept /\ Parent(p) # q
  <2>1. RootPath \in kept /\ q \notin kept
    BY <1>2, <1>3, ParentBelow
  <2>2. ASSUME NEW p \in kept, p # RootPath
        PROVE  Parent(p) \in kept /\ Parent(p) # q
    BY <1>2, <1>3, <2>2, ParentBelow
  <2> QED
    BY <2>1, <2>2
<1>5. CASE tree' = [p \in kept |-> tree[p]]
  <2>1. DOMAIN tree' = kept /\ \A p \in kept : tree'[p] = tree[p] /\ p \in DOMAIN tree
    BY <1>5
  <2> HIDE DEF kept
  <2>2. TreeHangsTogether'
    BY <1>3, <1>4, <2>1 DEF TreeHangsTogether, IsDirectory, Exists
  <2> QED
    BY <1>3, <1>4, <2>1, <2>2 DEF TreeOK
<1>6. CASE /\ IsDirectory(Parent(q))
           /\ \E node \in {Directory} \cup {FileOf(d) : d \in StrayData} :
                tree' = [p \in kept \cup {q} |-> IF p = q THEN node ELSE tree[p]]
  <2>1. PICK node \in {Directory} \cup {FileOf(d) : d \in StrayData} :
          tree' = [p \in kept \cup {q} |-> IF p = q THEN node ELSE tree[p]]
    BY <1>6
  <2>2. node \in Node
    BY NodeKinds, StrayAssumption
  <2>3. /\ DOMAIN tree' = kept \cup {q} /\ tree'[q] = node
        /\ \A p \in kept : tree'[p] = tree[p] /\ p \in DOMAIN tree
    BY <1>4, <2>1
  <2>4. Parent(q) \in kept /\ Parent(q) # q /\ tree[Parent(q)] = Directory
    BY <1>2, <1>6, ParentBelow DEF IsDirectory, Exists
  <2> HIDE DEF kept
  <2>5. TreeHangsTogether'
    BY <1>3, <1>4, <2>3, <2>4 DEF TreeHangsTogether, IsDirectory, Exists
  <2> QED
    BY <1>2, <1>3, <1>4, <2>2, <2>3, <2>5 DEF TreeOK
<1> QED
  BY <1>1, <1>5, <1>6
-----------------------------------------------------------------------------
(* What the commands do to the tree *)

AllFit == \A k \in 2..Len(argv) : Fits(argv[k])
NamedPaths == {Named(argv[k]) : k \in 2..Len(argv)}

LEMMA FirstPath ==
  ASSUME CommandOK, pc \in {"exec", "write"}, Len(argv) >= 2
  PROVE  P \in Seq(Item) /\ (AllFit => P \in NamedPaths)
<1>1. Cwd /\ argv \in Seq(Cell) /\ path = PathsOf(argv) /\ Len(argv) \in Nat
  BY DEF CommandOK
<1>2. 1 \in 1..(Len(argv) - 1) /\ 2 \in 2..Len(argv) /\ 1 + 1 = 2
  BY <1>1
<1>3. Names(path[1]) \in Seq(Item) /\ (Fits(argv[2]) => Names(path[1]) = Named(argv[2]))
  BY <1>1, <1>2, PathIs
<1> QED
  BY <1>2, <1>3 DEF P, AllFit, NamedPaths

LEMMA SecondPath ==
  ASSUME CommandOK, pc \in {"exec", "write"}, Len(argv) >= 3
  PROVE  Q \in Seq(Item) /\ (AllFit => Q \in NamedPaths)
<1>1. Cwd /\ argv \in Seq(Cell) /\ path = PathsOf(argv) /\ Len(argv) \in Nat
  BY DEF CommandOK
<1>2. 2 \in 1..(Len(argv) - 1) /\ 3 \in 2..Len(argv) /\ 2 + 1 = 3
  BY <1>1
<1>3. Names(path[2]) \in Seq(Item) /\ (Fits(argv[3]) => Names(path[2]) = Named(argv[3]))
  BY <1>1, <1>2, PathIs
<1> QED
  BY <1>2, <1>3 DEF Q, AllFit, NamedPaths

LEMMA MakeableIsPath ==
  ASSUME NEW p \in Seq(Item), Makeable(p)
  PROVE  p \in Paths
<1>1. Len(p) \in Nat /\ Len(p) <= MaxPath /\ MaxPath \in Nat /\ DOMAIN p = 1..Len(p)
  BY DiskAssumption DEF Makeable
<1>2. \A i \in DOMAIN p : p[i] \in Name
  BY DEF Makeable, Range
<1>3. p \in [1..Len(p) -> Name]
  BY <1>1, <1>2
<1>4. Len(p) \in 0..MaxPath
  BY <1>1
<1> QED
  BY <1>3, <1>4 DEF Paths

LEMMA BootPaths == OPT \in Paths /\ USERNAME \in Paths /\ UserText \in Data
<1>1. MaxPath \in Nat /\ MaxPath >= 2 /\ {"OPT", "USERNAME"} \subseteq Name
  BY DiskAssumption
<1>2. 1 \in 0..MaxPath /\ 2 \in 0..MaxPath
  BY <1>1
<1>3. OPT \in [1..1 -> Name] /\ USERNAME \in [1..2 -> Name]
  BY <1>1 DEF OPT, USERNAME
<1>4. UserText \in Data
  BY TextAssumption DEF UserText
<1> QED
  BY <1>2, <1>3, <1>4 DEF Paths

LEMMA TextIs ==
  ASSUME argv \in Seq(Cell), Len(argv) >= 3
  PROVE  Text \in Seq(Cell)
<1> DEFINE n == Len(argv)
           m == 2 * (n - 2) - 1
<1>1. n \in Nat /\ n >= 3 /\ m \in Nat
  OBVIOUS
<1>2. ASSUME NEW i \in 1..m
      PROVE  2 + (i + 1) \div 2 \in 1..n
  <2> HIDE DEF n
  <2>1. i \in Nat /\ i >= 1 /\ i + 1 <= 2 * (n - 2)
    BY <1>1
  <2>2. (i + 1) \div 2 \in Nat /\ (i + 1) \div 2 >= 1 /\ (i + 1) \div 2 <= n - 2
    BY <1>1, <2>1
  <2> QED
    BY <1>1, <2>2
<1>3. \A j \in 1..n : argv[j] \in Cell
  BY ElementOfSeq
<1>4. SP \in Cell
  BY TextAssumption
<1>5. \A i \in 1..m : (IF i % 2 = 1 THEN argv[2 + (i + 1) \div 2] ELSE SP) \in Cell
  <2> HIDE DEF m, n
  <2> QED
    BY <1>2, <1>3, <1>4
<1>6. Text \in [1..m -> Cell]
  BY <1>5 DEF Text
<1> QED
  BY <1>1, <1>6

\* A call of a command, and what it may find there.
LEMMA CallSteps ==
  ASSUME NEW p, NEW q, NEW ok, NEW ACTION E, NEW ACTION F, NEW c, Call(c, ok, E, F),
         ok /\ (E \/ F) => TreeStep(p, q)
  PROVE  TreeStep(p, q)
BY DEF Call, TreeStep, store

\* A step of the kernel changes nothing, or is one call on one or two paths,
\* unless the disk is damaged.
LEMMA TreeSteps ==
  ASSUME TreeOK, CommandOK, Next, ~StrayWrite
  PROVE  \/ UNCHANGED tree
         \/ \E p, q : /\ TreeStep(p, q)
                      /\ pc \notin BootPlaces /\ AllFit => {p, q} \subseteq NamedPaths
<1> DEFINE Goal == \/ UNCHANGED tree
                   \/ \E p, q : /\ TreeStep(p, q)
                                /\ pc \notin BootPlaces /\ AllFit => {p, q} \subseteq NamedPaths
<1> SUFFICES Goal
  OBVIOUS
<1>1. CASE Boot
  <2>1. pc \in BootPlaces
    BY <1>1 DEF Boot, OpenDirectory, MakeOpt, OpenName, StartShell, CreateName, FillName, BootStep, BootPlaces
  <2>2. \/ UNCHANGED tree \/ MakeDirectory(OPT) \/ CreateFile(USERNAME) \/ SetData(USERNAME, UserText)
    BY <1>1 DEF Boot, OpenDirectory, MakeOpt, OpenName, StartShell, CreateName, FillName, CallFails, DeviceFails,
                FreedUnderEntry, store
  <2>3. \/ UNCHANGED tree \/ TreeStep(OPT, OPT) \/ TreeStep(USERNAME, USERNAME)
    BY <2>2, BootPaths DEF TreeStep
  <2> QED
    BY <2>1, <2>3
<1>2. ASSUME NEW c \in {"mf", "md", "rmf", "rmd", "trc", "wt"}, At(c) \/ pc = "write"
      PROVE  /\ P \in Seq(Item) /\ (AllFit => P \in NamedPaths)
             /\ TreeStep(P, P) => Goal
  <2>1. pc \in {"exec", "write"} /\ Len(argv) >= 2
    <3>1. CASE pc = "write"
      BY <3>1 DEF CommandOK
    <3>2. CASE At(c)
      <4>1. Arity[c] >= 2 /\ Len(argv) >= Arity[c] /\ pc = "exec" /\ Arity[c] \in Nat
        BY <3>2 DEF At, Given, Arity
      <4>2. Len(argv) \in Nat
        BY DEF CommandOK
      <4> QED
        BY <4>1, <4>2
    <3> QED
      BY <1>2, <3>1, <3>2
  <2> QED
    BY <2>1, FirstPath
<1>3. CASE CMDmf
  <2> DEFINE E == CreateFile(P) /\ UNCHANGED intact
             F == FALSE
  <2>1. At("mf")
    BY <1>3 DEF CMDmf, Call
  <2>2. P \in Seq(Item) /\ (TreeStep(P, P) => Goal)
    BY <1>2, <2>1
  <2>3. Makeable(P) /\ (E \/ F) => TreeStep(P, P)
    BY <2>2, MakeableIsPath DEF TreeStep
  <2>4. Call("mf", Makeable(P), E, F)
    BY <1>3 DEF CMDmf
  <2> HIDE DEF E, F
  <2> QED
    BY <2>2, <2>3, <2>4, CallSteps
<1>4. CASE CMDmkdir
  <2> DEFINE E == MakeDirectory(P) /\ UNCHANGED intact
  <2>1. At("md")
    BY <1>4 DEF CMDmkdir, Call
  <2>2. P \in Seq(Item) /\ (TreeStep(P, P) => Goal)
    BY <1>2, <2>1
  <2>3. Makeable(P) /\ (E \/ FreedUnderEntry(P)) => TreeStep(P, P)
    BY <2>2, MakeableIsPath DEF TreeStep, FreedUnderEntry
  <2>4. Call("md", Makeable(P), E, FreedUnderEntry(P))
    BY <1>4 DEF CMDmkdir
  <2> HIDE DEF E
  <2> QED
    BY <2>2, <2>3, <2>4, CallSteps
<1>5. CASE CMDrmf
  <2> DEFINE E == RemoveFile(P) /\ UNCHANGED intact
             F == FALSE
  <2>1. At("rmf")
    BY <1>5 DEF CMDrmf, Call
  <2>2. TreeStep(P, P) => Goal
    BY <1>2, <2>1
  <2>3. IsFile(P) /\ (E \/ F) => TreeStep(P, P)
    BY DEF TreeStep
  <2>4. Call("rmf", IsFile(P), E, F)
    BY <1>5 DEF CMDrmf
  <2> HIDE DEF E, F
  <2> QED
    BY <2>2, <2>3, <2>4, CallSteps
<1>6. CASE CMDrmd
  <2> DEFINE E == RemoveEmptyDirectory(P) /\ UNCHANGED intact
             F == FALSE
  <2>1. At("rmd")
    BY <1>6 DEF CMDrmd, Call
  <2>2. TreeStep(P, P) => Goal
    BY <1>2, <2>1
  <2>3. IsEmptyDirectory(P) /\ (E \/ F) => TreeStep(P, P)
    BY DEF TreeStep
  <2>4. Call("rmd", IsEmptyDirectory(P), E, F)
    BY <1>6 DEF CMDrmd
  <2> HIDE DEF E, F
  <2> QED
    BY <2>2, <2>3, <2>4, CallSteps
<1>7. CASE CMDmv
  <2>1. At("mv")
    BY <1>7 DEF CMDmv, Call
  <2>2. pc = "exec" /\ Len(argv) >= 3
    BY <2>1 DEF At, Given, Arity
  <2>3. Len(argv) >= 2
    BY <2>2 DEF CommandOK
  <2>4. Q \in Seq(Item) /\ (AllFit => P \in NamedPaths /\ Q \in NamedPaths)
    BY <2>2, <2>3, FirstPath, SecondPath
  <2>5. (IsFile(P) /\ Makeable(Q)) /\ (Rename(P, Q) \/ BothNames(P, Q)) => TreeStep(P, Q)
    BY <2>4, MakeableIsPath DEF TreeStep
  <2>6. TreeStep(P, Q)
    <3>1. UNCHANGED tree \/ ((IsFile(P) /\ Makeable(Q)) /\ (Rename(P, Q) \/ BothNames(P, Q)))
      BY <1>7 DEF CMDmv, Call, store
    <3> QED
      BY <2>5, <3>1 DEF TreeStep
  <2> QED
    BY <2>4, <2>6
<1>8. CASE CMDtrc
  <2> DEFINE old == tree[P].data
             size == Sizes[argv[3]]
             ok == argv[3] \in DOMAIN Sizes /\ IsFile(P) /\ size <= Len(old)
  <2>1. Call("trc", ok, Truncate(P, size), CutShort(P, size))
    BY <1>8 DEF CMDtrc
  <2>2. TreeStep(P, P) => Goal
    <3>1. At("trc")
      BY <2>1 DEF Call
    <3> QED
      BY <1>2, <3>1
  <2>3. ok => SubSeq(old, 1, size) \in Data
    <3>1. ok => old \in Seq(Cell)
      BY NodeKinds, TextAssumption DEF IsFile, Exists, TreeOK
    <3>2. ok => size \in Nat
      BY DEF Sizes
    <3> HIDE DEF old, size
    <3>3. ok => \A i \in 1..size : i \in 1..Len(old)
      BY <3>1, <3>2
    <3> QED
      BY <3>1, <3>2, <3>3, SubSeqProperties, TextAssumption
  <2>4. ok /\ (Truncate(P, size) \/ CutShort(P, size)) => TreeStep(P, P)
    <3>1. Truncate(P, size) => SetData(P, SubSeq(old, 1, size))
      BY DEF Truncate
    <3>2. CutShort(P, size) => UNCHANGED tree
      BY DEF CutShort
    <3> HIDE DEF ok, old, size
    <3> QED
      BY <2>3, <3>1, <3>2 DEF TreeStep
  <2> HIDE DEF ok, old, size
  <2> QED
    BY <2>1, <2>2, <2>4, CallSteps
<1>9. CASE CMDwt
  <2>1. At("wt")
    BY <1>9 DEF CMDwt
  <2>2. P \in Seq(Item) /\ (TreeStep(P, P) => Goal)
    BY <1>2, <2>1
  <2>3. UNCHANGED tree \/ (Makeable(P) /\ CreateFile(P))
    BY <1>9 DEF CMDwt, CallFails, store
  <2> QED
    BY <2>2, <2>3, MakeableIsPath DEF TreeStep
<1>10. CASE FinishText
  <2> DEFINE old == tree[P].data
             new == Text \o SubSeq(old, Len(Text) + 1, Len(old))
             head == SubSeq(new, 1, Len(old))
  <2>1. pc = "write" /\ (UNCHANGED tree \/ SetData(P, new) \/ SetData(P, head))
    BY <1>10 DEF FinishText, CallFails, store
  <2>2. TreeStep(P, P) => Goal
    BY <1>2, <2>1
  <2>3. IsFile(P) => new \in Data /\ head \in Data
    <3>1. IsFile(P) => old \in Seq(Cell)
      BY NodeKinds, TextAssumption DEF IsFile, Exists, TreeOK
    <3>2. Text \in Seq(Cell)
      BY <2>1, TextIs DEF CommandOK
    <3> HIDE DEF old
    <3>3. ASSUME IsFile(P)
          PROVE  new \in Seq(Cell) /\ Len(old) \in Nat /\ Len(new) \in Nat /\ Len(old) <= Len(new)
      <4>1. old \in Seq(Cell) /\ Len(old) \in Nat /\ Len(Text) \in Nat
        BY <3>1, <3>2, <3>3
      <4> DEFINE rest == SubSeq(old, Len(Text) + 1, Len(old))
      <4>2. rest \in Seq(Cell) /\ Len(rest) = IF Len(Text) + 1 <= Len(old) THEN Len(old) - Len(Text) ELSE 0
        BY <4>1
      <4> HIDE DEF rest
      <4>3. new = Text \o rest
        BY DEF rest
      <4>4. new \in Seq(Cell) /\ Len(new) = Len(Text) + Len(rest)
        BY <3>2, <4>2, <4>3
      <4> QED
        BY <4>1, <4>2, <4>4
    <3> HIDE DEF new
    <3>4. ASSUME IsFile(P)
          PROVE  head \in Seq(Cell)
      <4>1. \A i \in 1..Len(old) : i \in 1..Len(new)
        BY <3>3, <3>4
      <4> QED
        BY <3>3, <3>4, <4>1, SubSeqProperties
    <3> QED
      BY <3>3, <3>4, TextAssumption
  <2> HIDE DEF new, old, head
  <2>4. SetData(P, new) \/ SetData(P, head) => TreeStep(P, P)
    BY <2>3 DEF TreeStep, SetData
  <2> HIDE DEF Goal
  <2> QED
    BY <2>1, <2>2, <2>4 DEF Goal
<1>11. CASE CMDcd \/ CMDrun \/ Exit \/ OnlyPrint \/ TypeLine \/ exec_script \/ Leave \/ Reset
  BY <1>11 DEF CMDcd, CMDrun, Exit, OnlyPrint, TypeLine, exec_script, Leave, Reset, DeviceFails, CallFails,
               IgnoreLine, ParseLine, ScriptEnds, store
<1> QED
  <2> HIDE DEF Goal
  <2> QED
    BY <1>1, <1>3, <1>4, <1>5, <1>6, <1>7, <1>8, <1>9, <1>10, <1>11 DEF Next, exec
-----------------------------------------------------------------------------
(* Scripts in progress *)

FrameType == [position: Nat, size: Nat, text: Seq(Cell), done: SUBSET (Nat \X Seq(Cell)), nested: BOOLEAN]

FrameOK(fr) ==
  /\ fr \in FrameType /\ fr.size = Len(fr.text) /\ fr.size \in 1..BufferSize
  /\ fr.position \in 1..(fr.size + 1)

Buffers == [1..(BufferSize + 1) -> Cell]

\* A script that has just been loaded, and one that is at a NUL or at its end.
Fresh(fr, b) ==
  /\ fr.position = 1 /\ fr.done = {} /\ b[fr.size + 1] = NUL
  /\ \A i \in 1..fr.size : b[i] = fr.text[i]
Ran(fr, b) == fr.done \subseteq Commands(fr.text) /\ (fr.position > fr.size \/ b[fr.position] = NUL)
Innermost(fr, b, running) == fr.nested \/ Ran(fr, b) \/ (running /\ Fresh(fr, b))

Scripts(fs, b, running) ==
  /\ fs \in Seq(FrameType) /\ Len(fs) <= MaxNest
  /\ \A k \in 1..Len(fs) : FrameOK(fs[k])
  /\ \A k \in 1..(Len(fs) - 1) : fs[k].nested
  /\ fs # <<>> => Innermost(fs[Len(fs)], b, running)

\* The innermost script replaced by what became of it.
Put(fs, fr) == [fs EXCEPT ![Len(fs)] = fr]
Moved(fr, pos, d) == [fr EXCEPT !.position = pos, !.done = d]

LEMMA ScriptsMove ==
  ASSUME NEW fs, NEW b, NEW r, Scripts(fs, b, r), fs # <<>>,
         NEW fr, FrameOK(fr), NEW c, NEW q, Innermost(fr, c, q)
  PROVE  Scripts(Put(fs, fr), c, q) /\ Put(fs, fr) # <<>>
<1> DEFINE n == Len(fs)
           gs == [fs EXCEPT ![n] = fr]
<1>1. fs \in Seq(FrameType) /\ n \in Nat /\ n >= 1 /\ n <= MaxNest /\ fr \in FrameType
  BY EmptySeq, LenProperties DEF Scripts, FrameOK
<1>2. DOMAIN fs = 1..n /\ n \in 1..n /\ \A k \in 1..n : fs[k] \in FrameType
  BY <1>1, ElementOfSeq, LenProperties
<1>3. /\ gs \in [1..n -> FrameType] /\ gs[n] = fr
      /\ \A k \in 1..n : k # n => gs[k] = fs[k]
  <2> HIDE DEF n
  <2> QED
    BY <1>1, <1>2
<1>4. gs \in Seq(FrameType) /\ Len(gs) = n /\ gs # <<>>
  <2> HIDE DEF n, gs
  <2> QED
    BY <1>1, <1>3
<1>5. \A k \in 1..(n - 1) : k \in 1..n /\ k # n
  <2> HIDE DEF n
  <2> QED
    BY <1>1
<1>6. (\A k \in 1..n : FrameOK(fs[k])) /\ \A k \in 1..(n - 1) : fs[k].nested
  BY DEF Scripts
<1> HIDE DEF n, gs
<1>7. \A k \in 1..n : FrameOK(gs[k])
  BY <1>3, <1>6
<1>8. \A k \in 1..(n - 1) : gs[k].nested
  BY <1>3, <1>5, <1>6
<1>9. Scripts(gs, c, q)
  BY <1>1, <1>3, <1>4, <1>7, <1>8 DEF Scripts
<1> QED
  BY <1>4, <1>9 DEF gs, n, Put

LEMMA LastOK ==
  ASSUME NEW fs, NEW b, NEW r, Scripts(fs, b, r), fs # <<>>
  PROVE  /\ FrameOK(fs[Len(fs)]) /\ Innermost(fs[Len(fs)], b, r)
         /\ fs \in Seq(FrameType) /\ Len(fs) \in 1..Len(fs) /\ DOMAIN fs = 1..Len(fs)
<1>1. fs \in Seq(FrameType)
  BY DEF Scripts
<1>2. Len(fs) \in Nat /\ Len(fs) >= 1 /\ DOMAIN fs = 1..Len(fs)
  BY <1>1, EmptySeq, LenProperties
<1>3. Len(fs) \in 1..Len(fs)
  BY <1>2
<1> QED
  BY <1>1, <1>2, <1>3 DEF Scripts

\* A script at another place, with other lines done.
LEMMA FrameMoves ==
  ASSUME NEW fr, FrameOK(fr), NEW pos \in 1..(fr.size + 1), NEW d \in SUBSET (Nat \X Seq(Cell))
  PROVE  /\ FrameOK(Moved(fr, pos, d)) /\ Moved(fr, pos, d).position = pos /\ Moved(fr, pos, d).done = d
         /\ Moved(fr, pos, d).size = fr.size /\ Moved(fr, pos, d).text = fr.text
         /\ Moved(fr, pos, d).nested = fr.nested
<1> DEFINE x == Moved(fr, pos, d)
<1>1. fr \in FrameType /\ fr.size \in Nat
  BY DEF FrameOK, FrameType
<1>2. pos \in Nat
  BY <1>1
<1>3. x \in FrameType /\ x.position = pos /\ x.done = d /\ x.size = fr.size /\ x.text = fr.text /\ x.nested = fr.nested
  BY <1>1, <1>2 DEF FrameType, Moved
<1> HIDE DEF x
<1>4. FrameOK(x)
  BY <1>3 DEF FrameOK
<1> QED
  BY <1>3, <1>4 DEF x

LEMMA PutMoved ==
  ASSUME NEW fs, Len(fs) \in DOMAIN fs, NEW pos, NEW d
  PROVE  [fs EXCEPT ![Len(fs)].position = pos, ![Len(fs)].done = d] = Put(fs, Moved(fs[Len(fs)], pos, d))
BY DEF Put, Moved

LEMMA PutPlace ==
  ASSUME NEW fs \in Seq(FrameType), Len(fs) \in 1..Len(fs), DOMAIN fs = 1..Len(fs),
         fs[Len(fs)] \in FrameType, NEW pos
  PROVE  [fs EXCEPT ![Len(fs)].position = pos] = Put(fs, Moved(fs[Len(fs)], pos, fs[Len(fs)].done))
<1> DEFINE x == fs[Len(fs)]
<1>1. [x EXCEPT !.position = pos] = Moved(x, pos, x.done)
  <2> HIDE DEF x
  <2>1. x \in FrameType
    BY DEF x
  <2> QED
    BY <2>1 DEF FrameType, Moved
<1>2. [fs EXCEPT ![Len(fs)].position = pos] = [fs EXCEPT ![Len(fs)] = [x EXCEPT !.position = pos]]
  OBVIOUS
<1> QED
  BY <1>1, <1>2 DEF Put

\* exec_script's place after the newlines are skipped.
LEMMA SkippedOK ==
  ASSUME NEW fs, NEW b, Scripts(fs, b, FALSE), NEW r \in BOOLEAN
  PROVE  Scripts(Skipped(b, fs), b, r) /\ (fs # <<>> => Skipped(b, fs) # <<>>)
<1>1. CASE fs = <<>>
  BY <1>1 DEF Skipped, Scripts
<1>2. CASE fs # <<>>
  <2> DEFINE n == Len(fs)
             x == fs[n]
             pos == SkipNewlines(b, x.position, x.size)
             fr == Moved(x, pos, x.done)
  <2>1. /\ FrameOK(x) /\ Innermost(x, b, FALSE)
        /\ fs \in Seq(FrameType) /\ n \in 1..n /\ DOMAIN fs = 1..n
    BY <1>2, LastOK
  <2>2. x.size \in Nat /\ x.position \in 1..(x.size + 1) /\ x.done \in SUBSET (Nat \X Seq(Cell))
    BY <2>1 DEF FrameOK, FrameType
  <2>3. pos \in x.position..(x.size + 1) /\ (x.position > x.size \/ b[x.position] # NL => pos = x.position)
    <3> HIDE DEF x
    <3> QED
      BY <2>2, SkipIs
  <2>4. pos \in 1..(x.size + 1)
    <3> HIDE DEF pos, x
    <3> QED
      BY <2>2, <2>3
  <2>5. /\ FrameOK(fr) /\ fr.position = pos /\ fr.done = x.done /\ fr.size = x.size /\ fr.text = x.text
        /\ fr.nested = x.nested
    <3> HIDE DEF pos, x
    <3> QED
      BY <2>1, <2>2, <2>4, FrameMoves
  <2>6. Skipped(b, fs) = Put(fs, fr)
    <3>1. Skipped(b, fs) = [fs EXCEPT ![n].position = pos]
      BY <1>2 DEF Skipped
    <3>2. x \in FrameType
      BY <2>1 DEF FrameOK
    <3> HIDE DEF pos
    <3> QED
      BY <2>1, <3>1, <3>2, PutPlace
  <2>7. Innermost(fr, b, r)
    <3>1. x.nested \/ Ran(x, b)
      BY <2>1 DEF Innermost
    <3>2. Ran(x, b) => Ran(fr, b)
      <4> HIDE DEF fr, pos, x
      <4>1. Ran(x, b) => x.position > x.size \/ b[x.position] # NL
        BY DEF Ran, NUL, NL
      <4> QED
        BY <2>3, <2>5, <4>1 DEF Ran
    <3> HIDE DEF fr, x
    <3> QED
      BY <2>5, <3>1, <3>2 DEF Innermost
  <2>8. Scripts(Put(fs, fr), b, r) /\ Put(fs, fr) # <<>>
    <3> HIDE DEF fr
    <3> QED
      BY <1>2, <2>5, <2>7, ScriptsMove
  <2> QED
    BY <2>6, <2>8
<1> QED
  BY <1>1, <1>2

LEMMA ScriptsAtRest ==
  ASSUME NEW fs, NEW b, Scripts(fs, b, FALSE), NEW r \in BOOLEAN
  PROVE  Scripts(fs, b, r)
BY DEF Scripts, Innermost

\* Scripts that all wait for another one do not depend on the buffer.
LEMMA ScriptsWait ==
  ASSUME NEW fs \in Seq(FrameType), Len(fs) <= MaxNest,
         \A k \in 1..Len(fs) : FrameOK(fs[k]) /\ fs[k].nested,
         NEW b
  PROVE  Scripts(fs, b, FALSE)
<1>1. Len(fs) \in Nat /\ (fs # <<>> => Len(fs) \in 1..Len(fs))
  BY EmptySeq, LenProperties
<1>2. \A k \in 1..(Len(fs) - 1) : k \in 1..Len(fs)
  BY <1>1
<1> QED
  BY <1>1, <1>2 DEF Scripts, Innermost
-----------------------------------------------------------------------------
(* The line a script is at *)

LEMMA BufferIs ==
  ASSUME NEW b \in Buffers
  PROVE  b \in Seq(Cell) /\ Len(b) = BufferSize + 1 /\ DOMAIN b = 1..(BufferSize + 1) /\ BufferSize \in Nat
<1>1. BufferSize \in Nat
  BY BufferAssumption
<1> QED
  BY <1>1 DEF Buffers

LEMMA StopHere ==
  ASSUME NEW S, NEW i \in Nat, NEW n \in Nat, i <= n, i = n \/ i \in S
  PROVE  Stops(S, i, n, i)
BY DEF Stops

\* Where the line ends, and that it is ended there.
LEMMA LineIs ==
  ASSUME bfr \in Buffers, FrameOK(Here)
  PROVE  /\ End \in Here.position..(Here.size + 1) /\ End \in Nat /\ Here.position \in Nat /\ Here.size \in Nat
         /\ Ended \in Buffers
         /\ \A j \in 1..(BufferSize + 1) : Ended[j] = IF j = End /\ End <= Here.size THEN NUL ELSE bfr[j]
         /\ Line \in Seq(Cell)
         /\ Here.position <= Here.size /\ bfr[Here.position] = NUL => Line = <<>>
<1> DEFINE i == Here.position
           size == Here.size
           N == BufferSize + 1
<1>1. i \in 1..(size + 1) /\ size \in Nat /\ size <= BufferSize /\ BufferSize \in Nat /\ i \in Nat
  BY BufferAssumption DEF FrameOK
<1>2. End \in i..(size + 1) /\ Stops(Marks(bfr, NL), i, size + 1, End)
  <2>1. Stops(Marks(bfr, NL), i, size + 1, LineEnd(bfr, i, size))
    <3> HIDE DEF i, size
    <3> QED
      BY <1>1, LineEndIs
  <2> QED
    BY <2>1 DEF Stops, End
<1> HIDE DEF i, size
<1>3. End \in Nat /\ i <= End /\ End <= size + 1
  BY <1>1, <1>2
<1>4. /\ Ended \in Buffers
      /\ \A j \in 1..N : Ended[j] = IF j = End /\ End <= size THEN NUL ELSE bfr[j]
  <2>1. NUL \in Cell
    BY TextAssumption
  <2>2. Ended = IF End <= size THEN [bfr EXCEPT ![End] = NUL] ELSE bfr
    BY DEF Ended, Terminated, size
  <2>3. End <= size => End \in 1..N
    BY <1>1, <1>3
  <2> QED
    BY <2>1, <2>2, <2>3 DEF Buffers
<1>5. Ended \in Seq(Cell) /\ Len(Ended) = N /\ N \in Nat
  BY <1>1, <1>4, BufferIs
<1>6. i \in 1..(Len(Ended) + 1) /\ i \in 1..N
  BY <1>1, <1>5
<1>7. /\ StringAt(Ended, i) \in Seq(Cell)
      /\ \A e : Stops(Marks(Ended, NUL), i, Len(Ended) + 1, e) => StringAt(Ended, i) = SubSeq(Ended, i, e - 1)
  BY <1>5, <1>6, StringIs
<1>8. ASSUME i <= size, bfr[i] = NUL
      PROVE  StringAt(Ended, i) = <<>>
  <2>1. Ended[i] = NUL
    BY <1>4, <1>6, <1>8
  <2>2. Stops(Marks(Ended, NUL), i, Len(Ended) + 1, i)
    <3>1. i \in Marks(Ended, NUL)
      BY <1>1, <2>1 DEF Marks
    <3>2. Len(Ended) + 1 \in Nat /\ i <= Len(Ended) + 1
      BY <1>1, <1>5, <1>6
    <3> QED
      BY <1>1, <3>1, <3>2, StopHere
  <2>3. SubSeq(Ended, i, i - 1) = <<>>
    BY <1>1, <1>5, <1>6
  <2> QED
    BY <1>7, <2>2, <2>3
<1> QED
  BY <1>1, <1>2, <1>3, <1>4, <1>7, <1>8 DEF Line, i, size

\* The first line of a script that was just loaded is a line of its file.
LEMMA RunsOwn ==
  ASSUME bfr \in Buffers, FrameOK(Here), Fresh(Here, bfr), ~Ignored(Line), Words(Line) # <<>>
  PROVE  <<1, Words(Line)>> \in Commands(Here.text)
<1> DEFINE text == Here.text
           n == Here.size
           N == BufferSize + 1
           own == SubSeq(text, 1, End - 1)
<1>1. /\ text \in Seq(Cell) /\ Len(text) = n /\ n \in Nat /\ n >= 1 /\ n <= BufferSize /\ BufferSize \in Nat
      /\ DOMAIN text = 1..n
  BY BufferAssumption DEF FrameOK, FrameType
<1>2. /\ Here.position = 1 /\ bfr[n + 1] = NUL /\ \A j \in 1..n : bfr[j] = text[j]
  BY DEF Fresh
<1>3. /\ End \in 1..(n + 1) /\ End \in Nat /\ Ended \in Buffers
      /\ \A j \in 1..N : Ended[j] = IF j = End /\ End <= n THEN NUL ELSE bfr[j]
  BY <1>2, LineIs
<1> HIDE DEF text, n
<1>4. Stops(Marks(bfr, NL), 1, n + 1, End)
  <2>1. 1 \in 1..(n + 1)
    BY <1>1
  <2>2. End = LineEnd(bfr, 1, n)
    BY <1>2 DEF End, n
  <2> QED
    BY <1>1, <2>1, <2>2, LineEndIs
<1>5. End = LineEnd(text, 1, Len(text))
  <2>1. 1 \in 1..(n + 1)
    BY <1>1
  <2>2. \A j \in 1..n : j \in Marks(bfr, NL) <=> j \in Marks(text, NL)
    BY <1>2 DEF Marks
  <2>3. \A j \in 1..(End - 1) : j \in 1..n
    BY <1>1, <1>3
  <2>4. End = n + 1 \/ End \in 1..n
    BY <1>1, <1>3
  <2>5. Stops(Marks(text, NL), 1, n + 1, End)
    BY <1>4, <2>2, <2>3, <2>4 DEF Stops
  <2> QED
    BY <1>1, <2>1, <2>5, LineEndIs
<1>6. /\ own \in Seq(Cell) /\ Len(own) = End - 1 /\ End - 1 \in Nat
      /\ \A j \in 1..(End - 1) : own[j] = text[j]
  <2>1. \A j \in 1..(End - 1) : j \in 1..n /\ text[j] \in Cell
    BY <1>1, <1>3, ElementOfSeq
  <2>2. End - 1 \in Nat /\ End - 1 <= n
    BY <1>1, <1>3
  <2> QED
    BY <1>1, <2>1, <2>2, SubSeqProperties
<1>7. /\ Ended \in Seq(Cell) /\ Len(Ended) = N /\ N \in Nat /\ Ended[End] = NUL
      /\ \A j \in 1..(End - 1) : Ended[j] = own[j]
  <2>1. Ended \in Seq(Cell) /\ Len(Ended) = N /\ N \in Nat
    BY <1>1, <1>3, BufferIs
  <2>2. End \in 1..N /\ \A j \in 1..(End - 1) : j \in 1..N /\ j # End /\ j \in 1..n
    BY <1>1, <1>3
  <2>3. Ended[End] = NUL
    <3>1. CASE End <= n
      BY <1>3, <2>2, <3>1
    <3>2. CASE ~(End <= n)
      <4>1. End = n + 1
        BY <1>1, <1>3, <3>2
      <4> QED
        BY <1>2, <1>3, <2>2, <3>2, <4>1
    <3> QED
      BY <3>1, <3>2
  <2>4. \A j \in 1..(End - 1) : Ended[j] = own[j]
    BY <1>2, <1>3, <1>6, <2>2
  <2> QED
    BY <2>1, <2>3, <2>4
<1> HIDE DEF own, N
<1>8. PICK e : Stops(Marks(own, NUL), 1, End, e)
  <2>1. 1 <= End
    BY <1>3
  <2> QED
    BY <1>3, <2>1, StopIs
<1>9. e \in Nat /\ 1 <= e /\ e <= End
  BY <1>3, <1>8 DEF Stops
<1>10. Stops(Marks(Ended, NUL), 1, N + 1, e)
  <2>1. \A j \in 1..(End - 1) : j \in Marks(Ended, NUL) <=> j \in Marks(own, NUL)
    BY <1>7 DEF Marks
  <2>2. \A j \in 1..(e - 1) : j \in 1..(End - 1)
    BY <1>3, <1>9
  <2>3. e = End \/ e \in 1..(End - 1)
    BY <1>3, <1>9
  <2>4. End \in Marks(Ended, NUL)
    BY <1>3, <1>7 DEF Marks
  <2>5. e \in Marks(Ended, NUL)
    BY <1>8, <2>1, <2>3, <2>4 DEF Stops
  <2>6. \A j \in 1..(e - 1) : j \notin Marks(Ended, NUL)
    BY <1>8, <2>1, <2>2 DEF Stops
  <2>7. e \in 1..(N + 1)
    BY <1>1, <1>3, <1>9 DEF N
  <2> QED
    BY <2>5, <2>6, <2>7 DEF Stops
<1>11. Line = SubSeq(Ended, 1, e - 1)
  <2>1. 1 \in 1..(Len(Ended) + 1)
    BY <1>7
  <2>2. StringAt(Ended, 1) = SubSeq(Ended, 1, e - 1)
    BY <1>7, <1>10, <2>1, StringIs
  <2> QED
    BY <1>2, <2>2 DEF Line
<1>12. StringAt(own, 1) = SubSeq(own, 1, e - 1)
  <2>1. 1 \in 1..(Len(own) + 1) /\ Len(own) + 1 = End
    BY <1>3, <1>6
  <2> QED
    BY <1>6, <1>8, <2>1, StringIs
<1>13. Line = StringAt(own, 1)
  <2>1. \A j \in 1..(e - 1) : j \in 1..(End - 1)
    BY <1>3, <1>9
  <2>2. e - 1 \in Nat /\ e - 1 <= Len(own) /\ e - 1 <= Len(Ended)
    BY <1>1, <1>3, <1>6, <1>7, <1>9 DEF N
  <2>3. SubSeq(Ended, 1, e - 1) = [j \in 1..(e - 1) |-> Ended[j]]
    BY <1>7, <1>9, <2>2
  <2>4. SubSeq(own, 1, e - 1) = [j \in 1..(e - 1) |-> own[j]]
    BY <1>6, <1>9, <2>2
  <2> QED
    BY <1>7, <1>11, <1>12, <2>1, <2>3, <2>4
<1>14. 1 \in DOMAIN text /\ text[1] # NL
  <2>1. 1 \in 1..n
    BY <1>1
  <2>2. ASSUME text[1] = NL
        PROVE  FALSE
    <3>1. 1 \in Marks(bfr, NL)
      BY <1>2, <2>1, <2>2 DEF Marks
    <3>2. Stops(Marks(bfr, NL), 1, n + 1, 1)
      BY <1>1, <3>1, StopHere
    <3>3. End = 1
      BY <1>1, <1>4, <3>2, StopOnce
    <3>4. e = 1
      BY <1>9, <3>3
    <3>5. Line = <<>>
      BY <1>7, <1>11, <3>4
    <3> QED
      BY <3>5 DEF Ignored
  <2> QED
    BY <1>1, <2>1, <2>2
<1>15. Line = StringAt(SubSeq(text, 1, LineEnd(text, 1, Len(text)) - 1), 1)
  BY <1>5, <1>13 DEF own
<1> QED
  <2> HIDE DEF Line
  <2> QED
    BY <1>14, <1>15 DEF Commands, text
-----------------------------------------------------------------------------
(* The invariant, kept by every step *)

ScriptsOK ==
  /\ bfr \in Buffers /\ Scripts(frames, bfr, pc = "script")
  /\ pc = "script" => frames # <<>>

Places ==
  BootPlaces \cup {"prompt", "exec", "write", "script", "left", "halted", "fault", "overflow"}

ControlOK ==
  /\ pc \in Places /\ keep_alive \in BOOLEAN /\ calm \in BOOLEAN /\ intact \in BOOLEAN /\ resets \in 0..MaxResets
  /\ ~keep_alive => pc \in {"prompt", "script", "left"}

ShellInv == TreeOK /\ CommandOK /\ ControlOK /\ ScriptsOK

\* No script is at a line that it has not looked at unless the loop runs.
LEMMA AtRest ==
  ASSUME ScriptsOK, pc # "script"
  PROVE  Scripts(frames, bfr, FALSE)
BY DEF ScriptsOK

LEMMA ReturnKeeps ==
  ASSUME NEW fs, NEW b \in Buffers, Scripts(fs, b, FALSE), bfr' = b, pc' = Loop(fs), frames' = Skipped(b, fs)
  PROVE  ScriptsOK'
<1>1. Scripts(Skipped(b, fs), b, TRUE) /\ Scripts(Skipped(b, fs), b, FALSE)
  BY SkippedOK
<1>2. fs # <<>> => Skipped(b, fs) # <<>>
  BY SkippedOK
<1>3. pc' = "script" <=> fs # <<>>
  BY DEF Loop
<1>4. Scripts(frames', bfr', TRUE) /\ Scripts(frames', bfr', FALSE)
  BY <1>1
<1>5. Scripts(frames', bfr', pc' = "script")
  <2>1. CASE pc' = "script"
    <3>1. (pc' = "script") = TRUE
      BY <2>1
    <3> QED
      BY <1>4, <3>1
  <2>2. CASE pc' # "script"
    <3>1. (pc' = "script") = FALSE
      BY <2>2
    <3> QED
      BY <1>4, <3>1
  <2> QED
    BY <2>1, <2>2
<1> QED
  BY <1>2, <1>3, <1>5 DEF ScriptsOK

LEMMA StaysAtRest ==
  ASSUME ScriptsOK, pc # "script", pc' # "script", UNCHANGED <<frames, bfr>>
  PROVE  ScriptsOK'
<1>1. (pc = "script") = FALSE /\ (pc' = "script") = FALSE
  OBVIOUS
<1> QED
  BY <1>1 DEF ScriptsOK

\* A script runs another: the buffer now holds that one.
LEMMA RunKeeps ==
  ASSUME TreeOK, CommandOK, ScriptsOK, CMDrun
  PROVE  ScriptsOK'
<1> DEFINE data == tree[P].data
           there == IsFile(P) /\ data # <<>>
           text == SubSeq(data, 1, IF Len(data) < BufferSize THEN Len(data) ELSE BufferSize)
           N == BufferSize + 1
<1>1. pc = "exec" /\ Scripts(frames, bfr, FALSE) /\ bfr \in Buffers
  BY AtRest DEF CMDrun, At, ScriptsOK
<1>2. BufferSize \in Nat /\ BufferSize >= 1 /\ N \in Nat /\ MaxNest \in Nat /\ NUL \in Cell
  BY BufferAssumption, TextAssumption
<1>3. ASSUME there
      PROVE  /\ text \in Seq(Cell) /\ Len(text) \in 1..BufferSize /\ Len(text) \in Nat
             /\ \A i \in 1..Len(text) : text[i] \in Cell
  <2>1. data \in Seq(Cell) /\ data # <<>>
    BY <1>3, NodeKinds, TextAssumption DEF TreeOK, IsFile, Exists
  <2> DEFINE m == IF Len(data) < BufferSize THEN Len(data) ELSE BufferSize
  <2>2. Len(data) \in Nat /\ Len(data) >= 1
    <3> HIDE DEF data
    <3> QED
      BY <2>1, EmptySeq, LenProperties
  <2>3. m \in Nat /\ m >= 1 /\ m <= Len(data) /\ m <= BufferSize
    <3> HIDE DEF data
    <3> QED
      BY <1>2, <2>2
  <2> HIDE DEF data, m
  <2>4. \A i \in 1..m : i \in 1..Len(data)
    BY <2>2, <2>3
  <2>5. SubSeq(data, 1, m) \in Seq(Cell) /\ Len(SubSeq(data, 1, m)) = m
    BY <2>1, <2>2, <2>3, <2>4, SubSeqProperties
  <2>6. text = SubSeq(data, 1, m)
    BY DEF m
  <2> HIDE DEF text
  <2> QED
    BY <1>2, <2>3, <2>5, <2>6, ElementOfSeq
<1>4. /\ Nested \in Seq(FrameType) /\ Len(Nested) = Len(frames)
      /\ \A k \in 1..Len(Nested) : FrameOK(Nested[k]) /\ Nested[k].nested
      /\ Len(frames) \in Nat /\ Len(frames) <= MaxNest
  <2>1. CASE frames = <<>>
    BY <1>1, <2>1 DEF Nested, Scripts
  <2>2. CASE frames # <<>>
    <3> DEFINE n == Len(frames)
               x == frames[n]
               y == [x EXCEPT !.nested = TRUE]
    <3>1. FrameOK(x) /\ frames \in Seq(FrameType) /\ n \in 1..n /\ DOMAIN frames = 1..n
      BY <1>1, <2>2, LastOK
    <3>2. x \in FrameType
      BY <3>1 DEF FrameOK
    <3>3. /\ y \in FrameType /\ y.nested = TRUE /\ y.size = x.size /\ y.text = x.text /\ y.position = x.position
      <4> HIDE DEF x
      <4> QED
        BY <3>2 DEF FrameType
    <3>4. FrameOK(y)
      <4> HIDE DEF y, x
      <4> QED
        BY <3>1, <3>3 DEF FrameOK
    <3>5. Nested = [frames EXCEPT ![n] = y] /\ Nested = Put(frames, y)
      <4>1. Nested = [frames EXCEPT ![n].nested = TRUE]
        BY <2>2 DEF Nested
      <4>2. [frames EXCEPT ![n].nested = TRUE] = [frames EXCEPT ![n] = y]
        OBVIOUS
      <4> QED
        BY <4>1, <4>2 DEF Put
    <3>6. Innermost(y, bfr, FALSE)
      BY <3>3 DEF Innermost
    <3>7. Scripts(Put(frames, y), bfr, FALSE)
      <4> HIDE DEF y
      <4> QED
        BY <1>1, <2>2, <3>4, <3>6, ScriptsMove
    <3>8. Len(Nested) = n /\ n \in Nat /\ Nested[n] = y
      <4> HIDE DEF n, y
      <4> QED
        BY <3>1, <3>5
    <3> HIDE DEF y, n
    <3>9. \A k \in 1..n : k \in 1..(n - 1) \/ k = n
      BY <3>8
    <3> QED
      BY <1>1, <3>3, <3>5, <3>7, <3>8, <3>9 DEF Scripts, n
  <2> QED
    BY <2>1, <2>2
<1>5. ASSUME NEW t \in Seq(Cell), Len(t) <= BufferSize, Len(t) \in Nat
      PROVE  Loaded(t) \in Buffers /\ \A i \in 1..N : Loaded(t)[i] = IF i <= Len(t) THEN t[i] ELSE bfr[i]
  <2>1. \A i \in 1..N : i <= Len(t) => t[i] \in Cell
    BY <1>2, <1>5, ElementOfSeq
  <2>2. DOMAIN bfr = 1..N /\ \A i \in 1..N : bfr[i] \in Cell
    BY <1>1 DEF Buffers
  <2> QED
    BY <2>1, <2>2 DEF Loaded, Buffers
<1>6. CASE ~there /\ Return /\ UNCHANGED <<store, bfr>>
  BY <1>1, <1>6, ReturnKeeps DEF Return
<1>7. CASE /\ there /\ Len(frames) < MaxNest
           /\ bfr' = [Loaded(text) EXCEPT ![Len(text) + 1] = NUL]
           /\ frames' = Append(Nested, Frame(text))
           /\ pc' = "script"
  <2> DEFINE n == Len(text)
             m == Len(Nested)
             fr == Frame(text)
  <2>1. /\ text \in Seq(Cell) /\ n \in 1..BufferSize /\ n \in Nat
        /\ \A i \in 1..n : text[i] \in Cell
    BY <1>3, <1>7
  <2> HIDE DEF text
  <2>2. fr \in FrameType /\ FrameOK(fr) /\ fr.position = 1 /\ fr.size = n /\ fr.text = text /\ fr.done = {}
    <3>1. fr \in FrameType /\ fr.position = 1 /\ fr.size = n /\ fr.text = text /\ fr.done = {}
      BY <2>1 DEF Frame, FrameType
    <3> HIDE DEF fr
    <3> QED
      BY <2>1, <3>1 DEF FrameOK
  <2>3. /\ bfr' \in Buffers /\ bfr'[n + 1] = NUL
        /\ \A i \in 1..n : bfr'[i] = text[i]
    <3>1. Loaded(text) \in Buffers /\ \A i \in 1..N : Loaded(text)[i] = IF i <= n THEN text[i] ELSE bfr[i]
      BY <1>5, <2>1
    <3>2. n + 1 \in 1..N /\ \A i \in 1..n : i \in 1..N /\ i # n + 1 /\ i <= n
      BY <1>2, <2>1
    <3> QED
      BY <1>2, <1>7, <3>1, <3>2 DEF Buffers
  <2>4. Fresh(fr, bfr')
    BY <2>2, <2>3 DEF Fresh
  <2> HIDE DEF fr, m, n
  <2>5. /\ frames' \in Seq(FrameType) /\ Len(frames') = m + 1 /\ frames'[m + 1] = fr
        /\ m \in Nat /\ m + 1 <= MaxNest
        /\ \A k \in 1..m : frames'[k] = Nested[k]
    <3>1. frames' = Append(Nested, fr) /\ Len(Nested) = m /\ Nested \in Seq(FrameType)
      BY <1>4, <1>7 DEF fr, m
    <3>2. m \in Nat /\ m + 1 <= MaxNest
      BY <1>2, <1>4, <1>7 DEF m
    <3> QED
      BY <2>2, <3>1, <3>2, AppendProperties
  <2>6. \A k \in 1..(m + 1) : k \in 1..m \/ k = m + 1
    BY <2>5
  <2>7. (m + 1) - 1 = m /\ frames' # <<>>
    BY <2>5
  <2>8. \A k \in 1..(m + 1) : FrameOK(frames'[k])
    BY <1>4, <2>2, <2>5, <2>6 DEF m
  <2>9. \A k \in 1..((m + 1) - 1) : frames'[k].nested
    BY <1>4, <2>5, <2>7 DEF m
  <2>10. Scripts(frames', bfr', TRUE)
    BY <2>4, <2>5, <2>8, <2>9 DEF Scripts, Innermost
  <2>11. (pc' = "script") = TRUE
    BY <1>7
  <2> QED
    BY <2>3, <2>7, <2>10, <2>11 DEF ScriptsOK
<1>8. CASE pc' = "overflow" /\ UNCHANGED <<bfr, frames>>
  BY <1>1, <1>8, StaysAtRest
<1>9. CASE /\ \E k \in {0, BufferSize \div 2} :
                /\ k > 0 => there /\ k < Len(text)
                /\ bfr' = IF k > 0 THEN Loaded(SubSeq(text, 1, k)) ELSE bfr
                /\ frames' = Skipped(bfr', Nested)
           /\ pc' = Loop(frames)
  <2>1. bfr' \in Buffers
    <3>1. PICK k \in {0, BufferSize \div 2} :
                /\ k > 0 => there /\ k < Len(text)
                /\ bfr' = IF k > 0 THEN Loaded(SubSeq(text, 1, k)) ELSE bfr
      BY <1>9
    <3>2. CASE k > 0
      <4>1. /\ text \in Seq(Cell) /\ Len(text) \in 1..BufferSize /\ Len(text) \in Nat /\ k < Len(text)
            /\ \A i \in 1..Len(text) : text[i] \in Cell
        BY <1>3, <3>1, <3>2
      <4>2. k \in Nat
        BY <1>2
      <4> HIDE DEF text
      <4>3. SubSeq(text, 1, k) \in Seq(Cell) /\ Len(SubSeq(text, 1, k)) = k
        BY <4>1, <4>2, SubSeqProperties
      <4>4. Len(SubSeq(text, 1, k)) <= BufferSize /\ Len(SubSeq(text, 1, k)) \in Nat
        BY <1>2, <4>1, <4>2, <4>3
      <4>5. Loaded(SubSeq(text, 1, k)) \in Buffers
        BY <1>5, <4>3, <4>4
      <4> QED
        BY <3>1, <3>2, <4>5
    <3> QED
      BY <1>1, <3>1, <3>2
  <2>2. frames' = Skipped(bfr', Nested)
    BY <1>9
  <2>3. Scripts(Nested, bfr', FALSE)
    BY <1>4, ScriptsWait
  <2>4. pc' = Loop(Nested)
    <3>1. Nested = <<>> <=> frames = <<>>
      BY <1>4 DEF Nested
    <3> QED
      BY <1>9, <3>1 DEF Loop
  <2> QED
    BY <2>1, <2>2, <2>3, <2>4, ReturnKeeps
<1> QED
  BY <1>6, <1>7, <1>8, <1>9 DEF CMDrun, DeviceFails
\* Blanks, comments and empty lines are passed over.
LEMMA IgnoreKeeps ==
  ASSUME ScriptsOK, IgnoreLine
  PROVE  ScriptsOK'
<1> DEFINE n == Len(frames)
           x == frames[n]
           fr == Moved(x, End, x.done)
<1>1. frames # <<>> /\ pc = "script" /\ bfr \in Buffers /\ Scripts(frames, bfr, TRUE)
  <2>1. (pc = "script") = TRUE
    BY DEF IgnoreLine
  <2> QED
    BY <2>1 DEF ScriptsOK
<1>2. /\ FrameOK(x) /\ Innermost(x, bfr, TRUE)
      /\ frames \in Seq(FrameType) /\ n \in 1..n /\ DOMAIN frames = 1..n
  BY <1>1, LastOK
<1>3. Here = x
  BY DEF Here, Last
<1>4. /\ End \in x.position..(x.size + 1) /\ End \in Nat /\ x.position \in Nat /\ x.size \in Nat
      /\ Ended \in Buffers
      /\ \A j \in 1..(BufferSize + 1) : Ended[j] = IF j = End /\ End <= x.size THEN NUL ELSE bfr[j]
  BY <1>1, <1>2, <1>3, LineIs
<1>5. x.size <= BufferSize /\ BufferSize \in Nat /\ x.position >= 1 /\ x.done \in SUBSET (Nat \X Seq(Cell))
  BY <1>2, BufferAssumption DEF FrameOK, FrameType
<1> HIDE DEF x
<1>6. End \in 1..(x.size + 1)
  BY <1>4, <1>5
<1>7. /\ FrameOK(fr) /\ fr.position = End /\ fr.done = x.done /\ fr.size = x.size /\ fr.text = x.text
      /\ fr.nested = x.nested
  BY <1>2, <1>5, <1>6, FrameMoves
<1>7a. [frames EXCEPT ![n].position = End] = Put(frames, fr)
  <2>1. frames[n] \in FrameType
    BY <1>2 DEF FrameOK, x
  <2> QED
    BY <1>2, <2>1, PutPlace DEF x
<1> HIDE DEF fr
<1>8. Innermost(fr, Ended, FALSE)
  <2>1. End <= x.size => Ended[End] = NUL
    <3>1. End <= x.size => End \in 1..(BufferSize + 1)
      BY <1>4, <1>5, <1>6
    <3> QED
      BY <1>4, <3>1
  <2>2. End > x.size \/ Ended[End] = NUL
    <3>1. End <= x.size \/ End > x.size
      BY <1>4
    <3> QED
      BY <2>1, <3>1
  <2>3. x.nested \/ x.done \subseteq Commands(x.text)
    BY <1>2 DEF Innermost, Ran, Fresh
  <2> QED
    BY <1>7, <2>2, <2>3 DEF Innermost, Ran
<1>9. Scripts(Put(frames, fr), Ended, FALSE) /\ Put(frames, fr) # <<>>
  BY <1>1, <1>7, <1>8, ScriptsMove
<1>10. bfr' = Ended /\ pc' = pc /\ frames' = Skipped(Ended, Put(frames, fr))
  <2>1. bfr' = Ended /\ pc' = pc /\ frames' = Skipped(bfr', [frames EXCEPT ![n].position = End])
    BY DEF IgnoreLine
  <2> QED
    BY <1>7a, <2>1
<1>11. pc' = Loop(Put(frames, fr))
  BY <1>1, <1>9, <1>10 DEF Loop
<1> QED
  BY <1>4, <1>9, <1>10, <1>11, ReturnKeeps

\* A command is taken out of the buffer.
LEMMA ParseKeeps ==
  ASSUME ScriptsOK, ParseLine
  PROVE  ScriptsOK' /\ Line \in Seq(Cell)
<1> DEFINE n == Len(frames)
           x == frames[n]
           d == x.done \cup {<<x.position, argv'>>}
           fr == Moved(x, End, d)
           N == BufferSize + 1
<1>1. frames # <<>> /\ pc = "script" /\ bfr \in Buffers /\ Scripts(frames, bfr, TRUE)
  <2>1. (pc = "script") = TRUE
    BY DEF ParseLine
  <2> QED
    BY <2>1 DEF ScriptsOK
<1>2. /\ FrameOK(x) /\ Innermost(x, bfr, TRUE)
      /\ frames \in Seq(FrameType) /\ n \in 1..n /\ DOMAIN frames = 1..n
  BY <1>1, LastOK
<1>3. Here = x
  BY DEF Here, Last
<1>4. /\ End \in x.position..(x.size + 1) /\ End \in Nat /\ x.position \in Nat /\ x.size \in Nat
      /\ Ended \in Buffers
      /\ \A j \in 1..N : Ended[j] = IF j = End /\ End <= x.size THEN NUL ELSE bfr[j]
      /\ Line \in Seq(Cell)
      /\ x.position <= x.size /\ bfr[x.position] = NUL => Line = <<>>
  BY <1>1, <1>2, <1>3, LineIs
<1>5. /\ ~Ignored(Line) /\ Words(Line) # <<>> /\ argv' = Words(Line) /\ bfr' = Parsed(Ended, x.position, Line)
      /\ frames' = [frames EXCEPT ![n].position = End, ![n].done = @ \cup {<<Here.position, argv'>>}]
      /\ pc' = "exec" /\ x.position <= x.size
  <2> HIDE DEF x
  <2> QED
    BY <1>3 DEF ParseLine, GoesOn
<1>6. x.size <= BufferSize /\ BufferSize \in Nat /\ x.position >= 1 /\ x.done \in SUBSET (Nat \X Seq(Cell))
  BY <1>2, BufferAssumption DEF FrameOK, FrameType
<1>7. frames' = [frames EXCEPT ![n].position = End, ![n].done = d]
  BY <1>2, <1>3, <1>5
<1>8. x.nested \/ Fresh(x, bfr)
  <2>1. ~Ran(x, bfr)
    <3>1. Ran(x, bfr) => Line = <<>>
      <4>1. ~(x.position > x.size)
        BY <1>4, <1>5
      <4> QED
        BY <1>4, <1>5, <4>1 DEF Ran
    <3> QED
      BY <1>5, <3>1 DEF Ignored
  <2> QED
    BY <1>2, <2>1 DEF Innermost
<1>9. Fresh(x, bfr) => <<1, Words(Line)>> \in Commands(x.text) /\ x.position = 1 /\ x.done = {}
  <2>1. Fresh(x, bfr) => <<1, Words(Line)>> \in Commands(x.text)
    BY <1>1, <1>2, <1>3, <1>5, RunsOwn
  <2> QED
    BY <2>1 DEF Fresh
<1> HIDE DEF x
<1>10. argv' \in Seq(Cell)
  BY <1>4, <1>5, WordsAre
<1>11. d \in SUBSET (Nat \X Seq(Cell))
  BY <1>4, <1>6, <1>10
<1>12. End \in 1..(x.size + 1)
  BY <1>4, <1>6
<1> HIDE DEF d
<1>13. /\ FrameOK(fr) /\ fr.position = End /\ fr.done = d /\ fr.size = x.size /\ fr.text = x.text
       /\ fr.nested = x.nested
  BY <1>2, <1>11, <1>12, FrameMoves
<1>13a. frames' = Put(frames, fr)
  BY <1>2, <1>7, PutMoved DEF x
<1> HIDE DEF fr
<1>14. /\ bfr' \in Buffers
       /\ \A j \in 1..N : bfr'[j] = NUL \/ bfr'[j] = Ended[j]
  <2>1. DOMAIN Ended = 1..N /\ NUL \in Cell
    BY <1>4, TextAssumption DEF Buffers
  <2> DEFINE W == WordEnds(Line)
  <2>2. bfr' = [j \in 1..N |-> IF j - x.position + 1 \in W THEN NUL ELSE Ended[j]]
    BY <1>5, <2>1 DEF Parsed
  <2> HIDE DEF W
  <2>3. \A j \in 1..N : (IF j - x.position + 1 \in W THEN NUL ELSE Ended[j]) \in Cell
    BY <1>4, <2>1 DEF Buffers
  <2> QED
    BY <2>2, <2>3 DEF Buffers
<1>15. Innermost(fr, bfr', FALSE)
  <2>1. End <= x.size => bfr'[End] = NUL
    <3>1. End <= x.size => End \in 1..N
      BY <1>4, <1>6, <1>12
    <3> QED
      BY <1>4, <1>14, <3>1
  <2>2. End > x.size \/ bfr'[End] = NUL
    <3>1. End <= x.size \/ End > x.size
      BY <1>4
    <3> QED
      BY <2>1, <3>1
  <2>3. x.nested \/ d \subseteq Commands(x.text)
    BY <1>5, <1>8, <1>9 DEF d
  <2> QED
    BY <1>13, <2>2, <2>3 DEF Innermost, Ran
<1>16. Scripts(Put(frames, fr), bfr', FALSE)
  BY <1>1, <1>13, <1>15, ScriptsMove
<1>17. (pc' = "script") = FALSE
  BY <1>5
<1> QED
  BY <1>4, <1>5, <1>14, <1>13a, <1>16, <1>17 DEF ScriptsOK

\* The script is left: the one that ran it goes on.
LEMMA EndKeeps ==
  ASSUME ScriptsOK, ScriptEnds
  PROVE  ScriptsOK'
<1> DEFINE n == Len(frames)
           outer == Front(frames)
<1>1. frames # <<>> /\ bfr \in Buffers /\ Scripts(frames, bfr, TRUE)
  <2>1. (pc = "script") = TRUE
    BY DEF ScriptEnds
  <2> QED
    BY <2>1 DEF ScriptsOK
<1>2. frames \in Seq(FrameType) /\ n \in 1..n /\ n \in Nat /\ n <= MaxNest /\ MaxNest \in Nat
  <2>1. frames \in Seq(FrameType) /\ n \in 1..n /\ n <= MaxNest
    BY <1>1, LastOK DEF Scripts
  <2> QED
    BY <2>1, BufferAssumption
<1>3. (\A k \in 1..n : FrameOK(frames[k])) /\ \A k \in 1..(n - 1) : frames[k].nested
  BY <1>1 DEF Scripts
<1>4. /\ outer \in Seq(FrameType) /\ Len(outer) = n - 1
      /\ \A k \in 1..(n - 1) : outer[k] = frames[k]
  <2>1. outer = [k \in 1..(n - 1) |-> frames[k]]
    BY <1>2 DEF Front
  <2>2. \A k \in 1..(n - 1) : k \in 1..n
    BY <1>2
  <2>3. \A k \in 1..(n - 1) : frames[k] \in FrameType
    BY <1>2, <2>2, ElementOfSeq
  <2> HIDE DEF outer
  <2>4. n - 1 \in Nat
    BY <1>2
  <2>5. outer \in [1..(n - 1) -> FrameType]
    BY <2>1, <2>3
  <2> HIDE DEF n
  <2> QED
    BY <2>1, <2>4, <2>5
<1> HIDE DEF n, outer
<1>5. n - 1 <= MaxNest /\ \A k \in 1..(n - 1) : k \in 1..n
  BY <1>2
<1>6. Scripts(outer, bfr, FALSE)
  <2>1. \A k \in 1..Len(outer) : FrameOK(outer[k]) /\ outer[k].nested
    BY <1>3, <1>4, <1>5
  <2>2. Len(outer) <= MaxNest
    BY <1>4, <1>5
  <2> QED
    BY <1>4, <2>1, <2>2, ScriptsWait
<1>7. bfr' = bfr /\ pc' = Loop(outer) /\ frames' = Skipped(bfr, outer)
  BY DEF ScriptEnds, outer
<1> QED
  BY <1>1, <1>6, <1>7, ReturnKeeps

LEMMA RootIsNormal == Normal(<<"/">>) /\ Len(<<"/">>) = 1 /\ Len(<<"/">>) <= PathSize
<1>1. <<"/">> \in Seq(Item) /\ Len(<<"/">>) = 1
  BY DEF Item
<1>2. <<"/">> \in PathTexts
  BY <1>1, PathTextIs
<1> QED
  BY <1>1, <1>2, BufferAssumption DEF Normal
LEMMA BlankIs == Blank \in Buffers
BY TextAssumption DEF Blank, Buffers

LEMMA NoScripts == \A b, r : Scripts(<<>>, b, r)
BY BufferAssumption DEF Scripts

LEMMA ScriptsKept ==
  ASSUME ShellInv, Next
  PROVE  ScriptsOK'
<1>1. TreeOK /\ CommandOK /\ ScriptsOK
  BY DEF ShellInv
<1>2. ASSUME pc # "script", Return, UNCHANGED bfr
      PROVE  ScriptsOK'
  <2>1. Scripts(frames, bfr, FALSE) /\ bfr \in Buffers
    BY <1>1, <1>2, AtRest DEF ScriptsOK
  <2> QED
    BY <1>2, <2>1, ReturnKeeps DEF Return
<1>3. CASE Boot
  <2>1. pc \in BootPlaces /\ UNCHANGED kernel
    BY <1>3 DEF Boot, OpenDirectory, MakeOpt, OpenName, StartShell, CreateName, FillName, BootStep, BootPlaces
  <2>2. pc' # "script"
    BY <1>3 DEF Boot, OpenDirectory, MakeOpt, OpenName, StartShell, CreateName, FillName
  <2> QED
    BY <1>1, <2>1, <2>2, StaysAtRest DEF BootPlaces, kernel
<1>4. CASE TypeLine \/ Leave
  BY <1>1, <1>4, StaysAtRest DEF TypeLine, Leave, kernel
<1>5. CASE CMDmf \/ CMDmkdir \/ CMDrmf \/ CMDrmd \/ CMDmv \/ CMDtrc
  <2>1. pc # "script" /\ Return /\ UNCHANGED bfr
    BY <1>5 DEF CMDmf, CMDmkdir, CMDrmf, CMDrmd, CMDmv, CMDtrc, Call, At
  <2> QED
    BY <1>2, <2>1
<1>6. CASE CMDcd \/ FinishText \/ Exit \/ OnlyPrint
  <2>1. pc # "script" /\ Return /\ UNCHANGED bfr
    BY <1>6 DEF CMDcd, FinishText, Exit, OnlyPrint, At
  <2> QED
    BY <1>2, <2>1
<1>7. CASE CMDwt
  <2>1. pc # "script" /\ UNCHANGED bfr /\ (Return \/ (pc' = "write" /\ UNCHANGED frames))
    BY <1>7 DEF CMDwt, At
  <2> QED
    BY <1>1, <1>2, <2>1, StaysAtRest
<1>8. CASE Reset
  <2>1. frames' = <<>> /\ bfr' = Blank /\ (pc' = "script") = FALSE
    BY <1>8 DEF Reset
  <2> QED
    BY <2>1, BlankIs, NoScripts DEF ScriptsOK
<1>9. CASE StrayWrite
  <2>1. pc' = pc /\ frames' = frames /\ bfr' = bfr /\ pc # "script"
    BY <1>9 DEF StrayWrite, Writes, At, kernel
  <2> QED
    BY <1>1, <2>1, StaysAtRest
<1> QED
  BY <1>1, <1>3, <1>4, <1>5, <1>6, <1>7, <1>8, <1>9, RunKeeps, IgnoreKeeps, ParseKeeps, EndKeeps DEF Next, exec, exec_script

LEMMA ControlKept ==
  ASSUME ControlOK, Next
  PROVE  ControlOK'
<1>1. Loop(frames) \in {"prompt", "script"} /\ Loop(Front(frames)) \in {"prompt", "script"}
  BY DEF Loop
<1>2. MaxResets \in Nat
  BY BufferAssumption
<1>3. CASE Boot
  <2>1. /\ pc \in BootPlaces /\ UNCHANGED <<keep_alive, resets>>
        /\ pc' \in BootPlaces \cup {"fault", "prompt", "halted"} /\ calm' \in {calm, FALSE}
    BY <1>3 DEF Boot, OpenDirectory, MakeOpt, OpenName, StartShell, CreateName, FillName, BootStep, BootPlaces,
                CallFails, DeviceFails, Failing, kernel, store
  <2>2. intact' \in {intact, FALSE}
    BY <1>3 DEF Boot, OpenDirectory, MakeOpt, OpenName, StartShell, CreateName, FillName, CallFails, DeviceFails,
                FreedUnderEntry, store
  <2> QED
    BY <2>1, <2>2 DEF ControlOK, Places, BootPlaces
<1>4. CASE Reset
  <2>1. resets' = resets + 1 /\ resets < MaxResets /\ pc' = "opendir" /\ keep_alive' = TRUE /\ calm' = TRUE /\ intact' = intact
    BY <1>4 DEF Reset
  <2>2. resets' \in 0..MaxResets
    BY <1>2, <2>1 DEF ControlOK
  <2> QED
    BY <2>1, <2>2 DEF ControlOK, Places, BootPlaces
<1>5. CASE CMDmf \/ CMDmkdir \/ CMDrmf \/ CMDrmd \/ CMDmv \/ CMDtrc \/ CMDcd \/ CMDwt \/ FinishText \/ CMDrun \/ OnlyPrint
  <2>1. /\ pc \in {"exec", "write"} /\ UNCHANGED <<keep_alive, resets>> /\ calm' \in {calm, FALSE}
    BY <1>5 DEF CMDmf, CMDmkdir, CMDrmf, CMDrmd, CMDmv, CMDtrc, CMDcd, CMDwt, FinishText, CMDrun, OnlyPrint,
                Call, At, CallFails, DeviceFails, Failing, store
  <2>2. pc' \in {"prompt", "script", "write", "overflow"}
    BY <1>1, <1>5 DEF CMDmf, CMDmkdir, CMDrmf, CMDrmd, CMDmv, CMDtrc, CMDcd, CMDwt, FinishText, CMDrun, OnlyPrint,
                Call, Return
  <2>3. ControlOK => intact' \in BOOLEAN
    BY <1>5 DEF CMDmf, CMDmkdir, CMDrmf, CMDrmd, CMDmv, CMDtrc, CMDcd, CMDwt, FinishText, CMDrun, OnlyPrint,
                Call, CallFails, DeviceFails, FreedUnderEntry, BothNames, Truncate, CutShort, ControlOK, store
  <2> QED
    BY <2>1, <2>2, <2>3 DEF ControlOK, Places
<1>6. CASE Exit
  <2>1. keep_alive' = FALSE /\ pc' \in {"prompt", "script"} /\ UNCHANGED <<resets, calm, intact>>
    BY <1>1, <1>6 DEF Exit, Return, store
  <2> QED
    BY <2>1 DEF ControlOK, Places
<1>7. CASE TypeLine \/ ParseLine
  <2>1. keep_alive /\ pc' = "exec" /\ UNCHANGED <<keep_alive, resets, calm, intact>>
    BY <1>7 DEF TypeLine, ParseLine, GoesOn, store
  <2> QED
    BY <2>1 DEF ControlOK, Places
<1>8. CASE IgnoreLine \/ ScriptEnds \/ Leave
  <2>1. pc' \in {"script", "prompt", "left"} /\ UNCHANGED <<keep_alive, resets, calm, intact>>
    BY <1>1, <1>8 DEF IgnoreLine, ScriptEnds, Leave, kernel, store
  <2> QED
    BY <2>1 DEF ControlOK, Places
<1>9. CASE StrayWrite
  <2>1. UNCHANGED <<pc, keep_alive, resets, calm, intact>>
    BY <1>9 DEF StrayWrite, kernel
  <2> QED
    BY <2>1 DEF ControlOK
<1> QED
  BY <1>3, <1>4, <1>5, <1>6, <1>7, <1>8, <1>9 DEF Next, exec, exec_script

LEMMA CommandKept ==
  ASSUME ShellInv, Next
  PROVE  CommandOK'
<1>1. CommandOK /\ ScriptsOK
  BY DEF ShellInv
<1>2. ASSUME UNCHANGED <<cwd, argv>>, pc' \notin {"exec", "write"}
      PROVE  CommandOK'
  BY <1>1, <1>2 DEF CommandOK, Cwd
<1>3. Loop(frames) \in {"prompt", "script"} /\ Loop(Front(frames)) \in {"prompt", "script"}
  BY DEF Loop
<1>4. CASE Boot
  <2>1. UNCHANGED <<cwd, argv>>
    BY <1>4 DEF Boot, OpenDirectory, MakeOpt, OpenName, StartShell, CreateName, FillName, BootStep, kernel
  <2>2. pc' \notin {"exec", "write"}
    BY <1>4 DEF Boot, OpenDirectory, MakeOpt, OpenName, StartShell, CreateName, FillName
  <2> QED
    BY <1>2, <2>1, <2>2
<1>5. ASSUME NEW line \in Seq(Cell), argv' = Words(line), path' = PathsOf(argv)', pc' = "exec", UNCHANGED cwd
      PROVE  CommandOK'
  BY <1>1, <1>5, WordsAre DEF CommandOK, Cwd
<1>6. CASE TypeLine
  <2>1. PICK line \in Typed : argv' = Words(line)
    BY <1>6 DEF TypeLine
  <2>2. line \in Seq(Cell)
    BY TextAssumption
  <2>3. path' = PathsOf(argv)' /\ pc' = "exec" /\ UNCHANGED cwd
    BY <1>6 DEF TypeLine, PathsOf, NormalizePath, Absolute
  <2> QED
    BY <1>5, <2>1, <2>2, <2>3
<1>7. CASE ParseLine
  <2>1. Line \in Seq(Cell) /\ argv' = Words(Line)
    BY <1>1, <1>7, ParseKeeps DEF ParseLine
  <2>2. path' = PathsOf(argv)' /\ pc' = "exec" /\ UNCHANGED cwd
    BY <1>7 DEF ParseLine, PathsOf, NormalizePath, Absolute
  <2> QED
    BY <1>5, <2>1, <2>2
<1>8. ASSUME argv' = <<>>, UNCHANGED cwd, pc' \notin {"exec", "write"}
      PROVE  CommandOK'
  <2>1. MaxArgs \in Nat /\ <<>> \in Seq(Cell) /\ Len(<<>>) = 0
    BY BufferAssumption
  <2> QED
    BY <1>1, <1>8, <2>1 DEF CommandOK, Cwd
<1>9. CASE IgnoreLine
  <2>1. pc' \notin {"exec", "write"} /\ UNCHANGED cwd /\ (argv' = <<>> \/ UNCHANGED argv)
    BY <1>9 DEF IgnoreLine
  <2> QED
    BY <1>2, <1>8, <2>1
<1>10. CASE ScriptEnds
  BY <1>3, <1>8, <1>10 DEF ScriptEnds
<1>11. CASE Leave
  BY <1>2, <1>11 DEF Leave, kernel
<1>12. CASE CMDmf \/ CMDmkdir \/ CMDrmf \/ CMDrmd \/ CMDmv \/ CMDtrc
  <2>1. UNCHANGED <<cwd, argv>> /\ pc' = Loop(frames)
    BY <1>12 DEF CMDmf, CMDmkdir, CMDrmf, CMDrmd, CMDmv, CMDtrc, Call, Return
  <2> QED
    BY <1>2, <1>3, <2>1
<1>13. CASE FinishText \/ Exit \/ OnlyPrint \/ CMDrun
  <2>1. UNCHANGED <<cwd, argv>> /\ pc' \in {Loop(frames), "script", "overflow"}
    BY <1>13 DEF FinishText, Exit, OnlyPrint, CMDrun, Return
  <2> QED
    BY <1>2, <1>3, <2>1
<1>14. CASE CMDwt
  <2>1. UNCHANGED <<cwd, argv, path>> /\ (pc' = Loop(frames) \/ pc' = "write")
    BY <1>14 DEF CMDwt, Return
  <2>2. pc = "exec" /\ Command = "wt" /\ Len(argv) >= 3
    BY <1>14 DEF CMDwt, At, Given, Arity
  <2>3. CASE pc' = "write"
    <3>1. path' = PathsOf(argv)'
      BY <1>1, <2>1, <2>2 DEF CommandOK, PathsOf, NormalizePath, Absolute
    <3> QED
      BY <1>1, <2>1, <2>2, <2>3, <3>1 DEF CommandOK, Cwd, Command
  <2> QED
    BY <1>2, <1>3, <2>1, <2>3
<1>15. CASE CMDcd
  <2>1. /\ UNCHANGED argv /\ pc' = Loop(frames) /\ pc = "exec" /\ Len(argv) >= 2
        /\ cwd' \in {cwd, path[1]}
    BY <1>15 DEF CMDcd, Return, At, Given, Arity, DeviceFails
  <2>2. Normal(path[1]) /\ Len(path[1]) <= PathSize
    <3>1. Cwd /\ argv \in Seq(Cell) /\ path = PathsOf(argv) /\ Len(argv) \in Nat
      BY <1>1, <2>1 DEF CommandOK
    <3>2. 1 \in 1..(Len(argv) - 1)
      BY <2>1, <3>1
    <3> QED
      BY <3>1, <3>2, PathIs
  <2>3. Cwd'
    BY <1>1, <2>1, <2>2 DEF CommandOK, Cwd
  <2> QED
    BY <1>1, <1>3, <2>1, <2>3 DEF CommandOK
<1>16. CASE Reset
  <2>1. cwd' = <<"/">> /\ argv' = <<>> /\ pc' = "opendir"
    BY <1>16 DEF Reset
  <2>2. MaxArgs \in Nat /\ <<>> \in Seq(Cell) /\ Len(<<>>) = 0
    BY BufferAssumption
  <2>3. Cwd'
    BY <2>1, RootIsNormal DEF Cwd
  <2> QED
    BY <2>1, <2>2, <2>3 DEF CommandOK
<1>17. CASE StrayWrite
  <2>1. UNCHANGED <<pc, cwd, argv, path>>
    BY <1>17 DEF StrayWrite, kernel
  <2>2. PathsOf(argv)' = PathsOf(argv) /\ Command' = Command
    BY <2>1 DEF PathsOf, NormalizePath, Absolute, Command
  <2> QED
    BY <1>1, <2>1, <2>2 DEF CommandOK, Cwd
<1> QED
  BY <1>4, <1>6, <1>7, <1>9, <1>10, <1>11, <1>12, <1>13, <1>14, <1>15, <1>16, <1>17 DEF Next, exec, exec_script
-----------------------------------------------------------------------------
(* The theorems *)

LEMMA TreeAtFirst ==
  ASSUME Init
  PROVE  TreeOK
<1>1. /\ DOMAIN tree = {RootPath} \cup DOMAIN Disk
      /\ \A p \in DOMAIN tree : tree[p] = IF p = RootPath THEN Directory ELSE FileOf(Disk[p])
  BY DEF Init
<1>2. RootPath \in DOMAIN tree /\ tree[RootPath] = Directory
  BY <1>1
<1>3. MaxPath \in Nat /\ 0 \in 0..MaxPath /\ 1 \in 0..MaxPath
  BY DiskAssumption
<1>4. RootPath \in Paths
  <2>1. RootPath \in [1..0 -> Name]
    BY DEF RootPath
  <2> QED
    BY <1>3, <2>1 DEF Paths
<1>5. \A p \in DOMAIN Disk : p \in Paths /\ Parent(p) = RootPath /\ Disk[p] \in Data
  <2> SUFFICES ASSUME NEW p \in DOMAIN Disk
               PROVE  p \in Paths /\ Parent(p) = RootPath /\ Disk[p] \in Data
    OBVIOUS
  <2>1. PICK n \in Name : p = <<n>>
    BY DiskAssumption
  <2>2. p \in [1..1 -> Name] /\ Len(p) = 1
    BY <2>1
  <2>3. Parent(p) = RootPath
    BY <2>1, <2>2 DEF Parent, RootPath
  <2> QED
    BY <1>3, <2>2, <2>3, DiskAssumption DEF Paths
<1>6. \A p \in DOMAIN tree : p \in Paths /\ tree[p] \in Node
  BY <1>1, <1>4, <1>5, NodeKinds
<1>7. TreeHangsTogether
  BY <1>1, <1>2, <1>5 DEF TreeHangsTogether, IsDirectory, Exists
<1> QED
  BY <1>2, <1>6, <1>7 DEF TreeOK

LEMMA InvAtFirst ==
  ASSUME Init
  PROVE  ShellInv
<1>1. TreeOK
  BY TreeAtFirst
<1>2. pc = "opendir" /\ cwd = <<"/">> /\ argv = <<>> /\ keep_alive = TRUE /\ bfr = Blank
      /\ frames = <<>> /\ resets = 0 /\ calm = TRUE /\ intact = TRUE
  BY DEF Init
<1>3. MaxArgs \in Nat /\ MaxResets \in Nat /\ <<>> \in Seq(Cell) /\ Len(<<>>) = 0
  BY BufferAssumption
<1>4. CommandOK
  BY <1>2, <1>3, RootIsNormal DEF CommandOK, Cwd
<1>5. ControlOK
  BY <1>2, <1>3 DEF ControlOK, Places, BootPlaces
<1>6. ScriptsOK
  BY <1>2, BlankIs, NoScripts DEF ScriptsOK
<1> QED
  BY <1>1, <1>4, <1>5, <1>6 DEF ShellInv

LEMMA InvKept ==
  ASSUME ShellInv, [Next]_vars
  PROVE  ShellInv'
<1>1. CASE Next
  <2>1. TreeOK'
    <3>1. TreeOK /\ CommandOK
      BY DEF ShellInv
    <3>2. CASE UNCHANGED tree
      BY <3>1, <3>2 DEF TreeOK, TreeHangsTogether, IsDirectory, Exists
    <3> QED
      BY <1>1, <3>1, <3>2, TreeSteps, TreeKept, StrayKept
  <2>2. ControlOK'
    BY <1>1, ControlKept DEF ShellInv
  <2> QED
    BY <1>1, <2>1, <2>2, CommandKept, ScriptsKept DEF ShellInv
<1>2. CASE UNCHANGED vars
  <2>1. UNCHANGED <<tree, pc, cwd, argv, path, keep_alive, bfr, frames, resets, calm, intact>>
    BY <1>2 DEF vars
  <2>2. TreeOK'
    BY <2>1 DEF ShellInv, TreeOK, TreeHangsTogether, IsDirectory, Exists
  <2>3. CommandOK'
    <3>1. PathsOf(argv)' = PathsOf(argv) /\ Command' = Command
      BY <2>1 DEF PathsOf, NormalizePath, Absolute, Command
    <3> QED
      BY <2>1, <3>1 DEF ShellInv, CommandOK, Cwd
  <2>4. ControlOK'
    BY <2>1 DEF ShellInv, ControlOK
  <2>5. ScriptsOK'
    BY <2>1 DEF ShellInv, ScriptsOK
  <2> QED
    BY <2>2, <2>3, <2>4, <2>5 DEF ShellInv
<1> QED
  BY <1>1, <1>2

LEMMA InvHolds == ShellSpec => []ShellInv
<1>1. Init => ShellInv
  BY InvAtFirst
<1>2. ShellInv /\ [Next]_vars => ShellInv'
  BY InvKept
<1> QED
  BY <1>1, <1>2, PTL DEF ShellSpec

\* Every variable stays in its type: the current directory fits into its
\* buffer, the words into argv, and each script's place into the buffer.
THEOREM ShellTypes == ShellSpec => []TypeOK
<1>1. ShellInv => TypeOK
  <2> SUFFICES ASSUME ShellInv PROVE TypeOK
    OBVIOUS
  <2>1. DOMAIN tree \subseteq Paths /\ tree[RootPath] = Directory
        /\ \A p \in DOMAIN tree : tree[p].kind \in {"dir", "file"} /\ tree[p].data \in Data
    BY NodeKinds DEF ShellInv, TreeOK
  <2>2. TextWidth(cwd) <= PathSize /\ cwd[1] = "/"
    BY CwdIs DEF ShellInv, CommandOK, Cwd, Normal
  <2>3. Len(argv) <= MaxArgs
    BY DEF ShellInv, CommandOK
  <2>4. /\ pc \in BootPlaces \cup {"prompt", "exec", "write", "script", "left", "halted", "fault", "overflow"}
        /\ keep_alive \in BOOLEAN /\ calm \in BOOLEAN /\ intact \in BOOLEAN /\ resets \in 0..MaxResets
    BY DEF ShellInv, ControlOK, Places
  <2>5. Len(bfr) = BufferSize + 1
    BY BufferIs DEF ShellInv, ScriptsOK
  <2>6. /\ Len(frames) <= MaxNest
        /\ \A k \in DOMAIN frames : FrameOK(frames[k])
        /\ pc = "script" => frames # <<>>
    BY DEF ShellInv, ScriptsOK, Scripts
  <2>7. \A k \in DOMAIN frames : frames[k].size \in 1..BufferSize /\ frames[k].position \in 1..(frames[k].size + 1)
    BY <2>6 DEF FrameOK
  <2> QED
    BY <2>1, <2>2, <2>3, <2>4, <2>5, <2>6, <2>7 DEF TypeOK
<1> QED
  BY <1>1, InvHolds, PTL

\* No command, reset, failed call or stray write leaves a path whose directory is gone: not
\* in a current directory that was removed, nor by moving or removing one.
THEOREM TreeStaysTogether == ShellSpec => []TreeHangsTogether
<1>1. ShellInv => TreeHangsTogether
  BY DEF ShellInv, TreeOK
<1> QED
  BY <1>1, InvHolds, PTL

\* As long as the disk is intact, what a command changes is named by its words,
\* read from the current directory name by name, whenever the paths fit into
\* normalize_path's buffer: also a command that fails, or damages the disk.
THEOREM OnlyNamedPathsAreChanged == ShellSpec => OnlyNamedPathsChange
<1>1. ASSUME ShellInv, [Next]_vars
      PROVE  [pc \notin BootPlaces /\ intact /\ (\A k \in 2..Len(argv) : Fits(argv[k]))
                => Changed \subseteq {Named(argv[k]) : k \in 2..Len(argv)}]_vars
  <2> SUFFICES ASSUME Next, pc \notin BootPlaces, intact, AllFit
               PROVE  Changed \subseteq NamedPaths
    BY <1>1 DEF AllFit, NamedPaths
  <2>1. TreeOK /\ CommandOK
    BY <1>1 DEF ShellInv
  <2>2. CASE UNCHANGED tree
    BY <2>2 DEF Changed
  <2>3. CASE \E p, q : TreeStep(p, q) /\ {p, q} \subseteq NamedPaths
    BY <2>1, <2>3, TreeKept
  <2>4. ~StrayWrite
    BY DEF StrayWrite
  <2> QED
    BY <2>1, <2>2, <2>3, <2>4, TreeSteps
<1> QED
  BY <1>1, InvHolds, PTL DEF ShellSpec, OnlyNamedPathsChange

\* After exit only the loops that were running return: no command, no change
\* of the tree or of the current directory, before the machine starts again.
THEOREM ExitEndsEverything == ShellSpec => ExitEndsAll
<1>1. ASSUME ShellInv, [Next]_vars
      PROVE  [~keep_alive /\ resets' = resets => ~keep_alive' /\ UNCHANGED <<tree, cwd>>]_vars
  <2> SUFFICES ASSUME Next, ~keep_alive, resets' = resets
               PROVE  ~keep_alive' /\ UNCHANGED <<tree, cwd>>
    BY <1>1
  <2>1. pc \in {"prompt", "script", "left"}
    BY <1>1 DEF ShellInv, ControlOK
  <2>2. ~Boot
    BY <2>1 DEF Boot, OpenDirectory, MakeOpt, OpenName, StartShell, CreateName, FillName, BootStep
  <2>3. ~exec
    BY <2>1 DEF exec, CMDmf, CMDmkdir, CMDrmf, CMDrmd, CMDmv, CMDtrc, CMDcd, CMDwt, FinishText, CMDrun, Exit,
                OnlyPrint, Call, At
  <2>4. ~Reset
    <3>1. resets \in Nat
      BY <1>1, BufferAssumption DEF ShellInv, ControlOK
    <3> QED
      BY <3>1 DEF Reset
  <2>5. ~StrayWrite
    BY <2>1 DEF StrayWrite, Writes, At
  <2> QED
    BY <2>2, <2>3, <2>4, <2>5 DEF Next, TypeLine, exec_script, IgnoreLine, ParseLine, ScriptEnds, GoesOn, Leave,
                                  kernel, store
<1> QED
  BY <1>1, InvHolds, PTL DEF ShellSpec, ExitEndsAll

\* Whatever ran before it and whatever is left in the buffer, a script that
\* runs no other one executes lines of its own file only, each with its words.
THEOREM OnlyOwnLinesRun == ShellSpec => []NothingElseRuns
<1>1. ShellInv => NothingElseRuns
  <2> SUFFICES ASSUME ShellInv, NEW k \in DOMAIN frames, ~frames[k].nested
               PROVE  frames[k].done \subseteq Commands(frames[k].text)
    BY DEF NothingElseRuns
  <2> DEFINE n == Len(frames)
  <2>1. Scripts(frames, bfr, pc = "script") /\ frames \in Seq(FrameType)
    BY DEF ShellInv, ScriptsOK, Scripts
  <2>2. n \in Nat /\ k \in 1..n /\ frames # <<>>
    BY <2>1, EmptySeq, LenProperties
  <2>3. k = n
    <3>1. k \in 1..(n - 1) \/ k = n
      BY <2>2
    <3> QED
      BY <2>1, <3>1 DEF Scripts
  <2>4. Innermost(frames[k], bfr, pc = "script")
    BY <2>1, <2>2, <2>3 DEF Scripts
  <2> QED
    BY <2>4 DEF Innermost, Ran, Fresh
<1> QED
  BY <1>1, InvHolds, PTL
=============================================================================
