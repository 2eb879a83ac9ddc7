----------------------------- MODULE DataLemmas ------------------------------
(***************************************************************************)
(* Lemmas about the data the server keeps. Sequences without repetitions,  *)
(* by the set of their elements: what its linked lists are, whatever the   *)
(* order they are in. Sums over a finite set, which its counters of memory *)
(* are. And sequences of bytes: what a recursion over them computes, what  *)
(* the parts of a sequence are, and what the functions on chained buffers  *)
(* make of the bytes in them.                                              *)
(***************************************************************************)
EXTENDS Cbufs, Slices, FiniteSetsExt, SequenceTheorems, FiniteSetTheorems,
        WellFoundedInduction, TLAPS

Distinct(s) == \A i, j \in DOMAIN s : s[i] = s[j] => i = j
In(s) == {s[i] : i \in DOMAIN s}

\* RemoveAt closes the gap.
LEMMA RemoveAtProperties ==
    ASSUME NEW S, NEW s \in Seq(S), NEW i \in 1..Len(s)
    PROVE  /\ RemoveAt(s, i) \in Seq(S)
           /\ Len(RemoveAt(s, i)) = Len(s) - 1
           /\ \A j \in 1..(Len(s) - 1) :
                 RemoveAt(s, i)[j] = IF j < i THEN s[j] ELSE s[j + 1]
<1> DEFINE a == SubSeq(s, 1, i - 1)
           b == SubSeq(s, i + 1, Len(s))
<1>1. /\ a \in Seq(S) /\ Len(a) = i - 1
      /\ \A j \in 1..(i - 1) : a[j] = s[j]
  <2>1. \A j \in 1..(i - 1) : s[j] \in S
    OBVIOUS
  <2>2. 1 \in Int /\ i - 1 \in Int
    OBVIOUS
  <2> HIDE DEF a
  <2>3. /\ a \in Seq(S) /\ Len(a) = IF 1 <= i - 1 THEN i - 1 - 1 + 1 ELSE 0
        /\ \A j \in 1 .. i - 1 - 1 + 1 : a[j] = s[1 + j - 1]
    BY <2>1, <2>2, SubSeqProperties DEF a
  <2>4. Len(a) = i - 1
    BY <2>3
  <2>5. \A j \in 1..(i - 1) : j \in 1 .. i - 1 - 1 + 1 /\ 1 + j - 1 = j
    OBVIOUS
  <2> QED BY <2>3, <2>4, <2>5
<1>2. /\ b \in Seq(S) /\ Len(b) = Len(s) - i
      /\ \A j \in 1..(Len(s) - i) : b[j] = s[i + j]
  <2>1. \A j \in (i + 1)..Len(s) : s[j] \in S
    OBVIOUS
  <2>2. i + 1 \in Int /\ Len(s) \in Int
    OBVIOUS
  <2> HIDE DEF b
  <2>3. /\ b \in Seq(S) /\ Len(b) = IF i + 1 <= Len(s) THEN Len(s) - (i + 1) + 1 ELSE 0
        /\ \A j \in 1 .. Len(s) - (i + 1) + 1 : b[j] = s[i + 1 + j - 1]
    BY <2>1, <2>2, SubSeqProperties DEF b
  <2> QED BY <2>3
<1> HIDE DEF a, b
<1>3. /\ a \o b \in Seq(S) /\ Len(a \o b) = Len(a) + Len(b)
      /\ \A j \in 1..(Len(a) + Len(b)) : (a \o b)[j] = IF j <= Len(a) THEN a[j] ELSE b[j - Len(a)]
  BY <1>1, <1>2, ConcatProperties
<1>4. RemoveAt(s, i) = a \o b
  BY DEF RemoveAt, a, b
<1>5. \A j \in 1..(Len(s) - 1) : (a \o b)[j] = IF j < i THEN s[j] ELSE s[j + 1]
  <2> TAKE j \in 1..(Len(s) - 1)
  <2>1. CASE j < i
    <3>1. j \in 1..(i - 1) /\ j \in 1..(Len(a) + Len(b))
      BY <1>1, <1>2, <2>1
    <3> QED BY <1>1, <1>3, <2>1, <3>1
  <2>2. CASE ~(j < i)
    <3>1. j - (i - 1) \in 1..(Len(s) - i) /\ j \in 1..(Len(a) + Len(b)) /\ ~(j <= Len(a))
          /\ i + (j - (i - 1)) = j + 1
      BY <1>1, <1>2, <2>2
    <3> QED BY <1>1, <1>2, <1>3, <2>2, <3>1
  <2> QED BY <2>1, <2>2
<1>6. Len(a) + Len(b) = Len(s) - 1
  BY <1>1, <1>2
<1> DEFINE t == a \o b
<1>7. t \in Seq(S) /\ Len(t) = Len(s) - 1 /\ RemoveAt(s, i) = t
  BY <1>3, <1>4, <1>6
<1>8. \A j \in 1..(Len(s) - 1) : t[j] = IF j < i THEN s[j] ELSE s[j + 1]
  BY <1>5
<1> HIDE DEF t
<1> QED BY <1>7, <1>8

LEMMA RemoveAtDistinct ==
    ASSUME NEW S, NEW s \in Seq(S), NEW i \in 1..Len(s), Distinct(s)
    PROVE  /\ RemoveAt(s, i) \in Seq(S)
           /\ Distinct(RemoveAt(s, i))
           /\ In(RemoveAt(s, i)) = In(s) \ {s[i]}
<1> DEFINE t == RemoveAt(s, i)
<1>1. /\ t \in Seq(S) /\ Len(t) = Len(s) - 1
      /\ \A j \in 1..(Len(s) - 1) : t[j] = IF j < i THEN s[j] ELSE s[j + 1]
  BY RemoveAtProperties
<1> HIDE DEF t
<1>2. DOMAIN t = 1..(Len(s) - 1) /\ DOMAIN s = 1..Len(s)
  BY <1>1
<1>3. Distinct(t)
  <2> SUFFICES ASSUME NEW j \in 1..(Len(s) - 1), NEW k \in 1..(Len(s) - 1), t[j] = t[k]
               PROVE  j = k
    BY <1>2 DEF Distinct
  <2> DEFINE m(x) == IF x < i THEN x ELSE x + 1
  <2>1. /\ t[j] = s[m(j)] /\ t[k] = s[m(k)]
        /\ m(j) \in 1..Len(s) /\ m(k) \in 1..Len(s)
    BY <1>1
  <2>2. m(j) = m(k)
    BY <1>2, <2>1 DEF Distinct
  <2> QED BY <2>2
<1>4. ASSUME NEW e \in In(t) PROVE e \in In(s) \ {s[i]}
  BY <1>1, <1>2, <1>4 DEF In, Distinct
<1>5. ASSUME NEW e \in In(s) \ {s[i]} PROVE e \in In(t)
  <2>1. PICK k \in 1..Len(s) : e = s[k] /\ k # i
    BY <1>2, <1>5 DEF In
  <2>2. CASE k < i
    <3>1. k \in 1..(Len(s) - 1) /\ t[k] = e
      BY <1>1, <2>1, <2>2
    <3> QED BY <1>2, <3>1 DEF In
  <2>3. CASE k > i
    <3>1. k - 1 \in 1..(Len(s) - 1) /\ t[k - 1] = e
      BY <1>1, <2>1, <2>3
    <3> QED BY <1>2, <3>1 DEF In
  <2> QED BY <2>1, <2>2, <2>3
<1> QED BY <1>1, <1>3, <1>4, <1>5 DEF t

LEMMA PrependDistinct ==
    ASSUME NEW S, NEW s \in Seq(S), Distinct(s), NEW d \in S, d \notin In(s)
    PROVE  /\ <<d>> \o s \in Seq(S)
           /\ Distinct(<<d>> \o s)
           /\ In(<<d>> \o s) = In(s) \cup {d}
<1> DEFINE t == <<d>> \o s
<1>1. /\ t \in Seq(S) /\ Len(t) = Len(s) + 1
      /\ t[1] = d /\ \A j \in 1..Len(s) : t[j + 1] = s[j]
  OBVIOUS
<1> HIDE DEF t
<1>2. DOMAIN t = 1..(Len(s) + 1) /\ DOMAIN s = 1..Len(s) /\ Len(s) \in Nat
  BY <1>1
<1>3. \A j \in 2..(Len(s) + 1) : t[j] = s[j - 1] /\ j - 1 \in 1..Len(s)
  <2> TAKE j \in 2..(Len(s) + 1)
  <2>1. j - 1 \in 1..Len(s) /\ (j - 1) + 1 = j
    BY <1>2
  <2> QED BY <1>1, <2>1
<1>4. Distinct(t)
  <2> SUFFICES ASSUME NEW j \in DOMAIN t, NEW k \in DOMAIN t, t[j] = t[k]
               PROVE  j = k
    BY DEF Distinct
  <2>1. CASE j = 1 /\ k = 1
    BY <2>1
  <2>2. CASE j = 1 /\ k # 1
    BY <1>1, <1>2, <1>3, <2>2 DEF In
  <2>3. CASE j # 1 /\ k = 1
    BY <1>1, <1>2, <1>3, <2>3 DEF In
  <2>4. CASE j # 1 /\ k # 1
    BY <1>2, <1>3, <2>4 DEF Distinct
  <2> QED BY <2>1, <2>2, <2>3, <2>4
<1>5. ASSUME NEW e \in In(t) PROVE e \in In(s) \cup {d}
  <2>1. PICK j \in DOMAIN t : e = t[j]
    BY <1>5 DEF In
  <2>2. CASE j = 1
    BY <1>1, <2>1, <2>2
  <2>3. CASE j # 1
    BY SMTT(60), <1>2, <1>3, <2>1, <2>3 DEF In
  <2> QED BY <2>2, <2>3
<1>6. ASSUME NEW e \in In(s) \cup {d} PROVE e \in In(t)
  <2>1. CASE e = d
    <3>1. 1 \in DOMAIN t
      BY <1>2
    <3> QED BY <1>1, <2>1, <3>1 DEF In
  <2>2. CASE e \in In(s)
    <3>1. PICK j \in 1..Len(s) : e = s[j]
      BY <1>2, <2>2 DEF In
    <3>2. j + 1 \in DOMAIN t
      BY <1>2
    <3> QED BY <1>1, <3>1, <3>2 DEF In
  <2> QED BY <1>6, <2>1, <2>2
<1> QED BY <1>1, <1>4, <1>5, <1>6 DEF t

LEMMA AppendDistinct ==
    ASSUME NEW S, NEW s \in Seq(S), Distinct(s), NEW d \in S, d \notin In(s)
    PROVE  /\ Append(s, d) \in Seq(S)
           /\ Distinct(Append(s, d))
           /\ In(Append(s, d)) = In(s) \cup {d}
<1> DEFINE t == Append(s, d)
<1>1. /\ t \in Seq(S) /\ Len(t) = Len(s) + 1
      /\ t[Len(s) + 1] = d /\ \A j \in 1..Len(s) : t[j] = s[j]
  OBVIOUS
<1> HIDE DEF t
<1>2. DOMAIN t = 1..(Len(s) + 1) /\ DOMAIN s = 1..Len(s) /\ Len(s) \in Nat
  BY <1>1
<1>3. \A j \in 1..Len(s) : t[j] = s[j] /\ t[j] # d
  BY <1>1, <1>2 DEF In
<1>4. \A j \in DOMAIN t : j = Len(s) + 1 \/ j \in 1..Len(s)
  BY <1>2
<1>5. Distinct(t)
  BY <1>1, <1>2, <1>3, <1>4 DEF Distinct
<1>6. \A e \in In(t) : e \in In(s) \cup {d}
  BY <1>1, <1>2, <1>3, <1>4 DEF In
<1>7. \A e \in In(s) : e \in In(t)
  <2> TAKE e \in In(s)
  <2>1. PICK j \in 1..Len(s) : e = s[j]
    BY <1>2 DEF In
  <2>2. j \in DOMAIN t /\ t[j] = e
    BY <1>1, <1>2, <2>1
  <2> QED BY <2>2 DEF In
<1>8. d \in In(t)
  <2>1. Len(s) + 1 \in DOMAIN t
    BY <1>2
  <2> QED BY <1>1, <2>1 DEF In
<1> QED BY <1>1, <1>5, <1>6, <1>7, <1>8 DEF t

LEMMA TailDistinct ==
    ASSUME NEW S, NEW s \in Seq(S), Distinct(s), s # <<>>
    PROVE  /\ Tail(s) \in Seq(S) /\ Head(s) \in In(s)
           /\ Distinct(Tail(s))
           /\ In(Tail(s)) = In(s) \ {Head(s)}
<1> DEFINE t == Tail(s)
<1>1. /\ t \in Seq(S) /\ Len(t) = Len(s) - 1 /\ Head(s) = s[1]
      /\ \A j \in 1..(Len(s) - 1) : t[j] = s[j + 1]
  OBVIOUS
<1>0. Len(s) \in Nat \ {0}
  OBVIOUS
<1> HIDE DEF t
<1>2. DOMAIN t = 1..(Len(s) - 1) /\ DOMAIN s = 1..Len(s) /\ 1 \in DOMAIN s
  BY <1>0, <1>1
<1>3. \A j \in DOMAIN t : j + 1 \in DOMAIN s /\ t[j] = s[j + 1] /\ j \in Nat /\ j + 1 # 1
  BY <1>0, <1>1, <1>2
<1>4. Distinct(t)
  <2> SUFFICES ASSUME NEW j \in DOMAIN t, NEW k \in DOMAIN t, t[j] = t[k] PROVE j = k
    BY DEF Distinct
  <2>1. j + 1 = k + 1
    BY <1>3 DEF Distinct
  <2> QED BY <1>3, <2>1
<1>5. \A e \in In(t) : e \in In(s) \ {Head(s)}
  <2> TAKE e \in In(t)
  <2>1. PICK j \in DOMAIN t : e = t[j]
    BY DEF In
  <2> QED BY <1>1, <1>2, <1>3, <2>1 DEF In, Distinct
<1>6. \A e \in In(s) \ {Head(s)} : e \in In(t)
  <2> TAKE e \in In(s) \ {Head(s)}
  <2>1. PICK j \in DOMAIN s : e = s[j]
    BY DEF In
  <2>2. j - 1 \in DOMAIN t /\ t[j - 1] = e
    BY <1>0, <1>1, <1>2, <2>1
  <2> QED BY <2>2 DEF In
<1>7. Head(s) \in In(s)
  BY <1>1, <1>2 DEF In
<1> QED BY <1>1, <1>4, <1>5, <1>6, <1>7 DEF t

\* A list of distinct elements is no longer than their set is large, and with room
\* left it misses one.
LEMMA DistinctLength ==
    ASSUME NEW n \in Nat, NEW s \in Seq(1..n), Distinct(s)
    PROVE  /\ Len(s) <= n
           /\ Len(s) < n => \E c \in 1..n : c \notin In(s)
<1> DEFINE m == Len(s)
<1>1. m \in Nat /\ s \in [1..m -> 1..n]
  OBVIOUS
<1> HIDE DEF m
<1>2. /\ IsFiniteSet(1..m) /\ Cardinality(1..m) = m
      /\ IsFiniteSet(1..n) /\ Cardinality(1..n) = n
  BY <1>1, FS_Interval
<1>3. s \in Injection(1..m, 1..n)
  BY <1>1 DEF Distinct, Injection, IsInjective
<1>4. m <= n
  BY <1>2, <1>3, FS_Injection
<1>5. ASSUME \A c \in 1..n : c \in In(s) PROVE ~(m < n)
  <2>1. s \in Surjection(1..m, 1..n)
    BY <1>1, <1>5 DEF In, Surjection
  <2>2. n <= m
    BY <1>2, <2>1, FS_Surjection
  <2> QED BY <1>1, <2>2
<1> QED BY <1>4, <1>5 DEF m

-----------------------------------------------------------------------------
(* Sums.  No induction theorem can be applied, so each step is shown of the *)
(* smallest counterexample.                                                *)

LEMMA Smallest ==
    ASSUME NEW T, T \subseteq Nat, T # {}
    PROVE  \E m \in T : \A k \in T : m <= k
<1>1. PICK m \in T : \A k \in T : ~(<<k, m>> \in OpToRel(<, Nat))
  BY NatLessThanWellFounded, WFMin
<1>2. \A k \in T : ~(k < m)
  BY <1>1 DEF OpToRel
<1> QED BY <1>2

\* The sum of h over S, as the library defines it: any order of adding up will do.
SumOf(S, h) == MapThenSumSet(LAMBDA c : h[c], S)

AnyOf(s) == CHOOSE x \in s : TRUE
AddUp(S, h, g) == [s \in SUBSET S |-> IF s = {} THEN 0 ELSE h[AnyOf(s)] + g[s \ {AnyOf(s)}]]
SumsOf(S, h) == CHOOSE g : g = AddUp(S, h, g)

\* Whatever subsets are added up in order of size is known of all of them.
LEMMA SubsetsBySize ==
    ASSUME NEW S, IsFiniteSet(S), NEW Bad \in SUBSET SUBSET S, {} \notin Bad,
           \A s \in SUBSET S : s # {} /\ s \ {AnyOf(s)} \notin Bad => s \notin Bad
    PROVE  Bad = {}
<1> SUFFICES ASSUME Bad # {} PROVE FALSE
  OBVIOUS
<1> DEFINE T == {n \in Nat : \E s \in Bad : Cardinality(s) = n}
<1>1. \A s \in SUBSET S : IsFiniteSet(s) /\ Cardinality(s) \in Nat
  BY FS_Subset, FS_CardinalityType
<1>2. T \subseteq Nat /\ T # {}
  BY <1>1
<1>3. PICK m \in T : \A k \in T : m <= k
  <2> HIDE DEF T
  <2> QED BY <1>2, Smallest
<1>4. PICK s \in Bad : Cardinality(s) = m
  BY <1>3
<1>5. AnyOf(s) \in s
  BY <1>4 DEF AnyOf
<1>6. /\ s \ {AnyOf(s)} \in SUBSET S
      /\ Cardinality(s \ {AnyOf(s)}) = m - 1 /\ m - 1 \in Nat /\ ~(m <= m - 1)
  <2>1. IsFiniteSet(s) /\ m \in Nat /\ s \in SUBSET S
    BY <1>1, <1>4
  <2>2. Cardinality(s \ {AnyOf(s)}) = m - 1 /\ IsFiniteSet(s \ {AnyOf(s)})
    BY <1>4, <1>5, <2>1, FS_RemoveElement
  <2>3. m - 1 \in Nat
    BY <2>2, FS_CardinalityType
  <2> QED BY <2>1, <2>2, <2>3
<1>7. s \ {AnyOf(s)} \notin Bad
  BY ONLY <1>3, <1>6
<1> QED BY <1>4, <1>5, <1>7

\* The recursion by which a sum is defined has a solution.
LEMMA SumDefined ==
    ASSUME NEW S, IsFiniteSet(S), NEW h \in [S -> Int]
    PROVE  \E g \in [SUBSET S -> Int] : g = AddUp(S, h, g)
<1> DEFINE Solves(g, n) == \A s \in SUBSET S : Cardinality(s) <= n => g[s] = AddUp(S, h, g)[s]
           T == {n \in Nat : ~\E g \in [SUBSET S -> Int] : Solves(g, n)}
<1>1. \A s \in SUBSET S : IsFiniteSet(s) /\ Cardinality(s) \in Nat /\ Cardinality(s) <= Cardinality(S)
  BY FS_Subset, FS_CardinalityType
<1>2. \A s \in SUBSET S : s # {} => /\ AnyOf(s) \in s /\ s \ {AnyOf(s)} \in SUBSET S
                                    /\ Cardinality(s \ {AnyOf(s)}) = Cardinality(s) - 1
  BY <1>1, FS_RemoveElement DEF AnyOf
<1>3. 0 \notin T
  <2>1. [s \in SUBSET S |-> 0] \in [SUBSET S -> Int]
    OBVIOUS
  <2>2. \A s \in SUBSET S : Cardinality(s) <= 0 => s = {}
    BY <1>1, FS_EmptySet
  <2>3. Solves([s \in SUBSET S |-> 0], 0)
    BY <2>2 DEF AddUp
  <2> QED BY <2>1, <2>3
<1>4. ASSUME NEW n \in Nat, n \notin T PROVE n + 1 \notin T
  <2>1. PICK g \in [SUBSET S -> Int] : Solves(g, n)
    BY <1>4
  <2>2. AddUp(S, h, g) \in [SUBSET S -> Int]
    <3>1. ASSUME NEW s \in SUBSET S, s # {} PROVE h[AnyOf(s)] + g[s \ {AnyOf(s)}] \in Int
      <4>1. AnyOf(s) \in S /\ s \ {AnyOf(s)} \in SUBSET S
        BY <1>2, <3>1
      <4>2. h[AnyOf(s)] \in Int /\ g[s \ {AnyOf(s)}] \in Int
        BY <4>1
      <4> QED BY <4>2
    <3> QED BY <3>1 DEF AddUp
  <2>3. ASSUME NEW s \in SUBSET S, Cardinality(s) <= n + 1
        PROVE  AddUp(S, h, g)[s] = AddUp(S, h, AddUp(S, h, g))[s]
    <3>1. CASE s = {}
      BY <3>1 DEF AddUp
    <3>2. CASE s # {}
      <4>1. s \ {AnyOf(s)} \in SUBSET S /\ Cardinality(s \ {AnyOf(s)}) <= n
        BY <1>1, <1>2, <2>3, <3>2
      <4>2. g[s \ {AnyOf(s)}] = AddUp(S, h, g)[s \ {AnyOf(s)}]
        BY <2>1, <4>1
      <4> QED BY <3>2, <4>1, <4>2 DEF AddUp
    <3> QED BY <3>1, <3>2
  <2> QED BY <2>2, <2>3
<1>5. T = {}
  <2>1. SUFFICES ASSUME T # {} PROVE FALSE
    OBVIOUS
  <2>2. T \subseteq Nat
    OBVIOUS
  <2> HIDE DEF T
  <2>3. PICK m \in T : \A k \in T : m <= k
    BY <2>1, <2>2, Smallest
  <2>4. m - 1 \in Nat /\ m - 1 \notin T /\ (m - 1) + 1 = m
    BY <1>3, <2>2, <2>3
  <2> QED BY <1>4, <2>3, <2>4
<1>6. PICK g \in [SUBSET S -> Int] : Solves(g, Cardinality(S))
  BY <1>1, <1>5
<1>7. g = AddUp(S, h, g)
  BY <1>1, <1>6 DEF AddUp
<1> QED BY <1>7

Unfolds(S, h) ==
    /\ SumOf(S, h) = SumsOf(S, h)[S] /\ SumsOf(S, h)[{}] = 0
    /\ \A s \in SUBSET S : s # {} =>
         SumsOf(S, h)[s] = h[AnyOf(s)] + SumsOf(S, h)[s \ {AnyOf(s)}]

LEMMA SumUnfolds ==
    ASSUME NEW S, IsFiniteSet(S), NEW h \in [S -> Int]
    PROVE  Unfolds(S, h)
<1>1. SumOf(S, h) = SumsOf(S, h)[S]
  BY DEF SumOf, SumsOf, AddUp, AnyOf, MapThenSumSet, MapThenFoldSet
<1>2. SumsOf(S, h) = AddUp(S, h, SumsOf(S, h))
  BY SumDefined DEF SumsOf
<1> HIDE DEF SumsOf
<1> QED BY <1>1, <1>2 DEF AddUp, Unfolds

\* A sum changes by what one of its terms does.
LEMMA SumChanges ==
    ASSUME NEW S, IsFiniteSet(S), NEW h \in [S -> Int], NEW k \in [S -> Int], NEW c \in S,
           \A d \in S : d # c => k[d] = h[d]
    PROVE  SumOf(S, h) \in Int /\ SumOf(S, k) = SumOf(S, h) + (k[c] - h[c])
<1> DEFINE P == SumsOf(S, h)
           Q == SumsOf(S, k)
           Good(s) == P[s] \in Int /\ Q[s] = P[s] + (IF c \in s THEN k[c] - h[c] ELSE 0)
           Bad == {s \in SUBSET S : ~Good(s)}
<1>1. /\ SumOf(S, h) = P[S] /\ P[{}] = 0
      /\ \A s \in SUBSET S : s # {} => P[s] = h[AnyOf(s)] + P[s \ {AnyOf(s)}]
  <2>1. Unfolds(S, h)
    BY SumUnfolds
  <2> QED BY <2>1 DEF Unfolds
<1>2. /\ SumOf(S, k) = Q[S] /\ Q[{}] = 0
      /\ \A s \in SUBSET S : s # {} => Q[s] = k[AnyOf(s)] + Q[s \ {AnyOf(s)}]
  <2>1. Unfolds(S, k)
    BY SumUnfolds
  <2> QED BY <2>1 DEF Unfolds
<1> HIDE DEF P, Q
<1>3. ASSUME NEW s \in SUBSET S, s # {}, Good(s \ {AnyOf(s)}) PROVE Good(s)
  <2>1. AnyOf(s) \in s /\ AnyOf(s) \in S
    BY <1>3 DEF AnyOf
  <2> DEFINE x == AnyOf(s)
             r == s \ {AnyOf(s)}
  <2>2. /\ P[s] = h[x] + P[r] /\ Q[s] = k[x] + Q[r] /\ P[r] \in Int
        /\ Q[r] = P[r] + (IF c \in r THEN k[c] - h[c] ELSE 0)
    BY <1>1, <1>2, <1>3
  <2>3. h[x] \in Int /\ k[x] \in Int /\ h[c] \in Int /\ k[c] \in Int
    BY <2>1
  <2>4. /\ x = c => c \in s /\ c \notin r
        /\ x # c => (c \in s <=> c \in r) /\ k[x] = h[x]
    BY <2>1
  <2> HIDE DEF x, r
  <2>5. CASE x = c
    BY <2>2, <2>3, <2>4, <2>5
  <2>6. CASE x # c
    BY <2>2, <2>3, <2>4, <2>6
  <2> QED BY <2>5, <2>6
<1>4. Good({})
  BY <1>1, <1>2
<1> HIDE DEF Good
<1>5. Bad = {}
  <2>1. Bad \in SUBSET SUBSET S /\ {} \notin Bad
    BY <1>4
  <2>2. \A s \in SUBSET S : s # {} /\ s \ {AnyOf(s)} \notin Bad => s \notin Bad
    BY <1>3
  <2> HIDE DEF Bad
  <2> QED BY <2>1, <2>2, SubsetsBySize
<1>6. Good(S)
  BY <1>5
<1> QED BY <1>1, <1>2, <1>6 DEF Good

LEMMA SumOfZeros ==
    ASSUME NEW S, IsFiniteSet(S), NEW h \in [S -> Int], \A c \in S : h[c] = 0
    PROVE  SumOf(S, h) = 0
<1> DEFINE P == SumsOf(S, h)
           Bad == {s \in SUBSET S : P[s] # 0}
<1>1. /\ SumOf(S, h) = P[S] /\ P[{}] = 0
      /\ \A s \in SUBSET S : s # {} => P[s] = h[AnyOf(s)] + P[s \ {AnyOf(s)}]
  <2>1. Unfolds(S, h)
    BY SumUnfolds
  <2> QED BY <2>1 DEF Unfolds
<1> HIDE DEF P
<1>2. ASSUME NEW s \in SUBSET S, s # {}, P[s \ {AnyOf(s)}] = 0 PROVE P[s] = 0
  <2>1. AnyOf(s) \in S
    BY <1>2 DEF AnyOf
  <2> DEFINE x == AnyOf(s)
             r == s \ {AnyOf(s)}
  <2>2. P[s] = h[x] + P[r] /\ P[r] = 0 /\ h[x] = 0
    BY <1>1, <1>2, <2>1
  <2> HIDE DEF x, r
  <2> QED BY <2>2
<1>3. Bad = {}
  <2>1. Bad \in SUBSET SUBSET S /\ {} \notin Bad
    BY <1>1
  <2>2. \A s \in SUBSET S : s # {} /\ s \ {AnyOf(s)} \notin Bad => s \notin Bad
    BY <1>2
  <2> HIDE DEF Bad
  <2> QED BY <2>1, <2>2, SubsetsBySize
<1> QED BY <1>1, <1>3

-----------------------------------------------------------------------------
(* Recursive functions on an interval: induction over it, and the solution  *)
(* of a recursion whose step is given as a function                         *)

\* What holds at the beginning of an interval and goes on, holds in all of it.
LEMMA IntervalInduction ==
    ASSUME NEW m \in Int, NEW n \in Int, NEW Good, m \in Good,
           \A i \in m..(n - 1) : i \in Good => i + 1 \in Good
    PROVE  m..n \subseteq Good
<1> DEFINE T == {k \in Nat : m + k <= n /\ m + k \notin Good}
<1>1. T = {}
  <2> SUFFICES ASSUME T # {} PROVE FALSE
    OBVIOUS
  <2>1. T \subseteq Nat
    OBVIOUS
  <2>2. PICK k \in T : \A j \in T : k <= j
    <3> HIDE DEF T
    <3> QED BY <2>1, Smallest
  <2>3. k \in Nat /\ k # 0 /\ m + k <= n /\ m + k \notin Good
    BY <2>2
  <2>4. k - 1 \in Nat /\ k - 1 \notin T
    BY <2>2, <2>3
  <2>5. m + (k - 1) \in Good /\ m + (k - 1) \in m..(n - 1) /\ (m + (k - 1)) + 1 = m + k
    BY <2>3, <2>4
  <2> QED BY <2>3, <2>5
<1>2. ASSUME NEW i \in m..n PROVE i \in Good
  <2>1. i - m \in Nat /\ m + (i - m) = i /\ i <= n
    OBVIOUS
  <2> QED BY <1>1, <2>1
<1> QED BY <1>2

Steps(m, n, c, D, f) == [i \in m..n |-> IF i = m THEN c ELSE D[i][f[i - 1]]]
Solvable(m, n, S, c, D) == \E f \in [m..n -> S] : f = Steps(m, n, c, D, f)

\* A recursion over an interval has a solution.
LEMMA RecursionDefined ==
    ASSUME NEW m \in Int, NEW n \in Int, m <= n, NEW S, NEW c \in S, NEW D \in [m..n -> [S -> S]]
    PROVE  Solvable(m, n, S, c, D)
<1> DEFINE Solves(f, k) == \A i \in m..k : f[i] = Steps(m, n, c, D, f)[i]
           Good == {k \in m..n : \E f \in [m..n -> S] : Solves(f, k)}
<1>1. m \in Good
  <2>1. [i \in m..n |-> c] \in [m..n -> S] /\ Solves([i \in m..n |-> c], m)
    BY DEF Steps
  <2> QED BY <2>1
<1>2. ASSUME NEW k \in m..(n - 1), k \in Good PROVE k + 1 \in Good
  <2>1. PICK f \in [m..n -> S] : Solves(f, k)
    BY <1>2
  <2> DEFINE g == Steps(m, n, c, D, f)
  <2>2. g \in [m..n -> S]
    <3>1. \A i \in m..n : i # m => D[i][f[i - 1]] \in S
      <4> SUFFICES ASSUME NEW i \in m..n, i # m PROVE D[i][f[i - 1]] \in S
        OBVIOUS
      <4>1. i - 1 \in m..n
        OBVIOUS
      <4>2. D[i] \in [S -> S] /\ f[i - 1] \in S
        BY <4>1
      <4> QED BY <4>2
    <3> QED BY <3>1 DEF Steps
  <2>3. ASSUME NEW i \in m..(k + 1) PROVE g[i] = Steps(m, n, c, D, g)[i]
    <3>1. CASE i = m
      BY <3>1 DEF Steps
    <3>2. CASE i # m
      <4>1. i \in m..n /\ i - 1 \in m..k /\ i - 1 \in m..n
        BY <3>2
      <4>2. f[i - 1] = g[i - 1]
        BY <2>1, <4>1
      <4> QED BY <3>2, <4>1, <4>2 DEF Steps
    <3> QED BY <3>1, <3>2
  <2>4. k + 1 \in m..n
    OBVIOUS
  <2> QED BY <2>2, <2>3, <2>4
<1>3. m..n \subseteq Good
  <2> HIDE DEF Good
  <2> QED BY <1>1, <1>2, IntervalInduction
<1>4. PICK f \in [m..n -> S] : Solves(f, n)
  <2>1. n \in m..n
    OBVIOUS
  <2>2. n \in Good
    BY <1>3, <2>1
  <2> QED BY <2>2
<1>5. f = Steps(m, n, c, D, f)
  BY <1>4 DEF Steps
<1> QED BY <1>5 DEF Solvable

-----------------------------------------------------------------------------
(* The bytes of a list of sequences                                         *)

JoinUp(list, f) == [i \in 1..Len(list) |-> IF i = 1 THEN list[i] ELSE f[i - 1] \o list[i]]
Joined(list) == CHOOSE f : f = JoinUp(list, f)

\* What FlattenSeq computes, step by step.
LEMMA FlattenUnfolds ==
    ASSUME NEW B, NEW list \in Seq(Seq(B)), list # <<>>
    PROVE  /\ FlattenSeq(list) = Joined(list)[Len(list)]
           /\ Joined(list) = JoinUp(list, Joined(list))
           /\ Joined(list) \in [1..Len(list) -> Seq(B)]
<1> DEFINE n == Len(list)
<1>1. n \in Nat /\ n # 0 /\ \A i \in 1..n : list[i] \in Seq(B)
  OBVIOUS
<1>2. FlattenSeq(list) = Joined(list)[n]
  BY <1>1 DEF FlattenSeq, Joined, JoinUp
<1>3. \E f \in [1..n -> Seq(B)] : f = JoinUp(list, f)
  <2> DEFINE D == [i \in 1..n |-> [s \in Seq(B) |-> s \o list[i]]]
  <2>1. D \in [1..n -> [Seq(B) -> Seq(B)]]
    <3>1. ASSUME NEW i \in 1..n, NEW s \in Seq(B) PROVE s \o list[i] \in Seq(B)
      BY <1>1, ConcatProperties
    <3> QED BY <3>1
  <2>2. list[1] \in Seq(B) /\ 1 <= n
    BY <1>1
  <2> DEFINE S == Seq(B)
             c == list[1]
  <2>3. PICK f \in [1..n -> S] : f = Steps(1, n, c, D, f)
    <3>1. 1 \in Int /\ n \in Int /\ 1 <= n /\ c \in S /\ D \in [1..n -> [S -> S]]
      BY <1>1, <2>1, <2>2
    <3> HIDE DEF n, S, c, D
    <3>2. Solvable(1, n, S, c, D)
      BY <3>1, RecursionDefined
    <3> QED BY <3>2 DEF Solvable
  <2>4. \A i \in 1..n : i # 1 => D[i][f[i - 1]] = f[i - 1] \o list[i]
    <3> SUFFICES ASSUME NEW i \in 1..n, i # 1 PROVE D[i][f[i - 1]] = f[i - 1] \o list[i]
      OBVIOUS
    <3>1. i - 1 \in 1..n
      BY <1>1
    <3>2. f[i - 1] \in Seq(B)
      BY ZenonT(60), <2>3, <3>1
    <3> QED BY <3>1, <3>2 DEF D
  <2>5. f = JoinUp(list, f)
    BY <2>3, <2>4 DEF Steps, JoinUp
  <2> QED BY <2>5
<1>4. Joined(list) = JoinUp(list, Joined(list))
  BY <1>3 DEF Joined
<1> DEFINE J == Joined(list)
<1>5. J \in [1..n -> Seq(B)]
  <2> DEFINE Good == {i \in 1..n : J[i] \in Seq(B)}
  <2> HIDE DEF J
  <2>1. J = JoinUp(list, J)
    BY <1>4 DEF J
  <2>2. 1 \in Good
    BY <1>1, <2>1 DEF JoinUp
  <2>3. ASSUME NEW i \in 1..(n - 1), i \in Good PROVE i + 1 \in Good
    <3>1. i + 1 \in 1..n /\ i + 1 # 1 /\ (i + 1) - 1 = i
      BY <1>1
    <3>2. J[i + 1] = J[i] \o list[i + 1] /\ J[i] \in Seq(B) /\ list[i + 1] \in Seq(B)
      BY <1>1, <2>1, <2>3, <3>1 DEF JoinUp
    <3> QED BY <3>1, <3>2, ConcatProperties
  <2>4. 1..n \subseteq Good
    <3>1. 1 \in Int /\ n \in Int
      BY <1>1
    <3> HIDE DEF Good, n
    <3> QED BY <2>2, <2>3, <3>1, IntervalInduction
  <2> QED BY <2>1, <2>4 DEF JoinUp
<1> QED BY <1>2, <1>4, <1>5

\* The bytes of a list to which one more is appended.
LEMMA FlattenAppend ==
    ASSUME NEW B, NEW list \in Seq(Seq(B)), NEW c \in Seq(B)
    PROVE  /\ FlattenSeq(<<>>) = <<>>
           /\ FlattenSeq(list) \in Seq(B)
           /\ FlattenSeq(Append(list, c)) = FlattenSeq(list) \o c
<1>1. FlattenSeq(<<>>) = <<>>
  BY DEF FlattenSeq
<1>2. FlattenSeq(list) \in Seq(B)
  <2>1. CASE list = <<>>
    BY <1>1, <2>1, EmptySeq
  <2>2. CASE list # <<>>
    <3>1. Len(list) \in 1..Len(list)
      BY <2>2, EmptySeq
    <3>2. Joined(list) \in [1..Len(list) -> Seq(B)] /\ FlattenSeq(list) = Joined(list)[Len(list)]
      BY <2>2, FlattenUnfolds
    <3> QED BY <3>1, <3>2
  <2> QED BY <2>1, <2>2
<1> DEFINE long == Append(list, c)
           n == Len(list)
           K == Joined(long)
<1>3. /\ long \in Seq(Seq(B)) /\ long # <<>> /\ Len(long) = n + 1 /\ n \in Nat
      /\ \A i \in 1..n : long[i] = list[i]
      /\ long[n + 1] = c
  BY AppendProperties, LenProperties
<1>4. FlattenSeq(long) = K[n + 1] /\ K = JoinUp(long, K)
  BY <1>3, FlattenUnfolds
<1>5. CASE n = 0
  <2>1. K[1] = c /\ list = <<>>
    BY <1>3, <1>4, <1>5 DEF JoinUp
  <2> QED BY <1>1, <1>2, <1>4, <1>5, <2>1, ConcatEmptySeq
<1>6. CASE n # 0
  <2> DEFINE J == Joined(list)
             Good == {i \in 1..n : K[i] = J[i]}
  <2>1. FlattenSeq(list) = J[n] /\ J = JoinUp(list, J)
    BY <1>3, <1>6, FlattenUnfolds
  <2> HIDE DEF J, K, long
  <2>2. 1 \in Good
    BY <1>3, <1>4, <1>6, <2>1 DEF JoinUp
  <2>3. ASSUME NEW i \in 1..(n - 1), i \in Good PROVE i + 1 \in Good
    <3>1. i + 1 \in 1..n /\ i + 1 \in 1..(n + 1) /\ i + 1 # 1 /\ (i + 1) - 1 = i
      BY <1>3
    <3> HIDE DEF n
    <3>2. K[i + 1] = K[i] \o list[i + 1] /\ J[i + 1] = J[i] \o list[i + 1]
      BY ZenonT(60), <1>3, <1>4, <2>1, <3>1 DEF JoinUp, n
    <3> QED BY <2>3, <3>1, <3>2
  <2>4. 1..n \subseteq Good
    <3>1. 1 \in Int /\ n \in Int
      BY <1>3
    <3> HIDE DEF Good, n
    <3> QED BY <2>2, <2>3, <3>1, IntervalInduction
  <2>5. K[n + 1] = K[n] \o c /\ K[n] = J[n]
    <3>1. n + 1 \in 1..(n + 1) /\ n + 1 # 1 /\ (n + 1) - 1 = n /\ n \in 1..n
      BY <1>3, <1>6
    <3> HIDE DEF n
    <3> QED BY <1>3, <1>4, <2>4, <3>1 DEF JoinUp
  <2> QED BY <1>1, <1>2, <1>4, <2>1, <2>5 DEF long
<1> QED BY <1>1, <1>2, <1>5, <1>6

-----------------------------------------------------------------------------
(* Cutting a sequence in two                                                *)

\* A sequence is what is up to a place in it and what is behind it.
LEMMA Halves ==
    ASSUME NEW B, NEW s \in Seq(B), NEW n \in 0..Len(s)
    PROVE  /\ SubSeq(s, 1, n) \in Seq(B) /\ Len(SubSeq(s, 1, n)) = n
           /\ SubSeq(s, n + 1, Len(s)) \in Seq(B) /\ Len(SubSeq(s, n + 1, Len(s))) = Len(s) - n
           /\ SubSeq(s, 1, n) \o SubSeq(s, n + 1, Len(s)) = s
           /\ \A i \in 1..n : SubSeq(s, 1, n)[i] = s[i]
           /\ \A i \in 1..(Len(s) - n) : SubSeq(s, n + 1, Len(s))[i] = s[n + i]
<1>0. Len(s) \in Nat /\ \A i \in 1..Len(s) : s[i] \in B
  BY LenProperties, ElementOfSeq
<1> DEFINE m == Len(s)
           a == SubSeq(s, 1, n)
           b == SubSeq(s, n + 1, m)
<1>1. a \in Seq(B) /\ Len(a) = n /\ \A i \in 1..n : a[i] = s[i]
  <2>1. \A i \in 1..n : s[i] \in B
    BY <1>0
  <2>2. 1 \in Int /\ n \in Int
    OBVIOUS
  <2> HIDE DEF a
  <2>3. /\ a \in Seq(B) /\ Len(a) = IF 1 <= n THEN n - 1 + 1 ELSE 0
        /\ \A i \in 1 .. n - 1 + 1 : a[i] = s[1 + i - 1]
    BY <2>1, <2>2, SubSeqProperties DEF a
  <2> QED BY <2>3
<1>2. b \in Seq(B) /\ Len(b) = m - n /\ \A i \in 1..(m - n) : b[i] = s[n + i]
  <2>1. \A i \in (n + 1)..m : s[i] \in B
    BY <1>0
  <2>2. n + 1 \in Int /\ m \in Int
    BY <1>0
  <2> HIDE DEF b
  <2>3. /\ b \in Seq(B) /\ Len(b) = IF n + 1 <= m THEN m - (n + 1) + 1 ELSE 0
        /\ \A i \in 1 .. m - (n + 1) + 1 : b[i] = s[(n + 1) + i - 1]
    BY <2>1, <2>2, SubSeqProperties DEF b
  <2> QED BY <1>0, <2>3
<1>3. a \o b = s
  <2>1. /\ a \o b \in Seq(B) /\ Len(a \o b) = Len(a) + Len(b)
        /\ \A i \in 1..(Len(a) + Len(b)) : (a \o b)[i] = IF i <= Len(a) THEN a[i] ELSE b[i - Len(a)]
    BY <1>1, <1>2, ConcatProperties
  <2> DEFINE t == a \o b
  <2>2. t \in Seq(B) /\ Len(t) = m /\ \A i \in 1..m : t[i] = s[i]
    <3> HIDE DEF a, b
    <3> QED BY <1>0, <1>1, <1>2, <2>1
  <2> HIDE DEF t
  <2>3. t = s
    BY <2>2, SeqEqual
  <2> QED BY <2>3 DEF t
<1> QED BY <1>1, <1>2, <1>3

LEMMA Associative == \A S : \A x, y, z \in Seq(S) : (x \o y) \o z = x \o (y \o z)
BY ConcatAssociative

\* The halves of a concatenation are what was put together.
LEMMA HalvesOf ==
    ASSUME NEW B, NEW a \in Seq(B), NEW b \in Seq(B)
    PROVE  /\ a \o b \in Seq(B) /\ Len(a \o b) = Len(a) + Len(b) /\ Len(a) \in Nat /\ Len(b) \in Nat
           /\ SubSeq(a \o b, 1, Len(a)) = a
           /\ SubSeq(a \o b, Len(a) + 1, Len(a \o b)) = b
<1> DEFINE t == a \o b
           p == SubSeq(t, 1, Len(a))
           q == SubSeq(t, Len(a) + 1, Len(t))
<1>1. Len(a) \in Nat /\ Len(b) \in Nat
  OBVIOUS
<1>2. /\ t \in Seq(B) /\ Len(t) = Len(a) + Len(b)
      /\ \A i \in 1..(Len(a) + Len(b)) : t[i] = IF i <= Len(a) THEN a[i] ELSE b[i - Len(a)]
  BY ConcatProperties
<1> HIDE DEF t
<1>3. Len(a) \in 0..Len(t)
  BY <1>1, <1>2
<1>4. /\ p \in Seq(B) /\ Len(p) = Len(a) /\ q \in Seq(B) /\ Len(q) = Len(t) - Len(a)
      /\ \A i \in 1..Len(a) : p[i] = t[i]
      /\ \A i \in 1..(Len(t) - Len(a)) : q[i] = t[Len(a) + i]
  BY <1>2, <1>3, Halves
<1> HIDE DEF p, q
<1>5. p = a
  <2>1. \A i \in 1..Len(p) : p[i] = a[i]
    BY <1>1, <1>2, <1>4
  <2> QED BY <1>4, <2>1, SeqEqual
<1>6. q = b
  <2>1. Len(q) = Len(b)
    BY <1>1, <1>2, <1>4
  <2>2. \A i \in 1..Len(q) : q[i] = b[i]
    <3> TAKE i \in 1..Len(q)
    <3>1. i \in 1..Len(b) /\ Len(a) + i \in 1..(Len(a) + Len(b)) /\ ~(Len(a) + i <= Len(a))
          /\ (Len(a) + i) - Len(a) = i /\ i \in 1..(Len(t) - Len(a))
      BY <1>1, <1>2, <2>1
    <3> QED BY <1>2, <1>4, <3>1
  <2> QED BY <1>4, <2>1, <2>2, SeqEqual
<1> QED BY <1>1, <1>2, <1>5, <1>6 DEF p, q, t

\* The prover rewrites \o into what it is defined as; Cat keeps its terms together.
Cat(a, b) == a \o b

\* Concatenation, its length and its neutral element.
LEMMA CatType ==
    ASSUME NEW S, NEW a \in Seq(S), NEW b \in Seq(S)
    PROVE  /\ Cat(a, b) \in Seq(S) /\ Len(Cat(a, b)) = Len(a) + Len(b)
           /\ Len(a) \in Nat /\ Len(b) \in Nat
           /\ Cat(a, <<>>) = a /\ Cat(<<>>, b) = b
<1>1. Cat(a, b) \in Seq(S) /\ Len(Cat(a, b)) = Len(a) + Len(b) /\ Len(a) \in Nat /\ Len(b) \in Nat
  BY HalvesOf DEF Cat
<1>2. Cat(a, <<>>) = a /\ Cat(<<>>, b) = b
  BY ConcatEmptySeq DEF Cat
<1> QED BY <1>1, <1>2

\* Concatenation is associative.
LEMMA CatAssociative ==
    ASSUME NEW S, NEW a \in Seq(S), NEW b \in Seq(S), NEW c \in Seq(S)
    PROVE  Cat(Cat(a, b), c) = Cat(a, Cat(b, c))
BY ConcatAssociative DEF Cat

\* Four sequences in a row, in three groupings.
LEMMA CatRegroup ==
    ASSUME NEW S, NEW a \in Seq(S), NEW b \in Seq(S), NEW c \in Seq(S), NEW d \in Seq(S)
    PROVE  /\ Cat(Cat(a, Cat(b, c)), d) = Cat(Cat(a, b), Cat(c, d))
           /\ Cat(Cat(a, Cat(b, c)), d) = Cat(a, Cat(b, Cat(c, d)))
<1>1. Cat(b, c) \in Seq(S) /\ Cat(a, b) \in Seq(S) /\ Cat(c, d) \in Seq(S)
  BY CatType
<1>2. Cat(Cat(a, Cat(b, c)), d) = Cat(a, Cat(Cat(b, c), d))
  BY <1>1, CatAssociative
<1>3. Cat(Cat(b, c), d) = Cat(b, Cat(c, d))
  BY CatAssociative
<1>4. Cat(Cat(a, b), Cat(c, d)) = Cat(a, Cat(b, Cat(c, d)))
  BY <1>1, CatAssociative
<1> QED BY <1>2, <1>3, <1>4

LEMMA PairIsCat == \A x, y : <<x, y>> = Cat(<<x>>, <<y>>)
<1> SUFFICES ASSUME NEW x, NEW y PROVE <<x, y>> = Cat(<<x>>, <<y>>)
  OBVIOUS
<1> DEFINE S == {x, y}
           t == Cat(<<x>>, <<y>>)
           u == <<x, y>>
<1>1. u \in Seq(S) /\ Len(u) = 2 /\ u[1] = x /\ u[2] = y
  OBVIOUS
<1>2. t \in Seq(S) /\ Len(t) = 2 /\ t[1] = x /\ t[2] = y
  BY DEF Cat
<1> HIDE DEF t, u
<1>3. \A i \in 1..2 : t[i] = u[i]
  BY <1>1, <1>2
<1>4. t = u
  BY <1>1, <1>2, <1>3, SeqEqual
<1> QED BY <1>4 DEF t, u

\* The bytes of two lists put together.
LEMMA FlattenConcat ==
    ASSUME NEW B, NEW a \in Seq(Seq(B)), NEW b \in Seq(Seq(B))
    PROVE  /\ FlattenSeq(a) \in Seq(B) /\ FlattenSeq(b) \in Seq(B)
           /\ FlattenSeq(a \o b) = FlattenSeq(a) \o FlattenSeq(b)
<1>a. \A x, y, z \in Seq(B) : (x \o y) \o z = x \o (y \o z)
  BY SMTT(60), Associative
<1>b. \A x, y, z \in Seq(Seq(B)) : (x \o y) \o z = x \o (y \o z)
  BY SMTT(60), Associative
<1> DEFINE S == Seq(B)
           n == Len(b)
           pre(k) == SubSeq(b, 1, k)
           Good == {k \in 0..n : FlattenSeq(a \o pre(k)) = FlattenSeq(a) \o FlattenSeq(pre(k))}
<1>1. /\ FlattenSeq(a) \in Seq(B) /\ FlattenSeq(b) \in Seq(B)
      /\ n \in Nat /\ \A k \in 0..n : pre(k) \in Seq(S) /\ FlattenSeq(pre(k)) \in Seq(B)
  <2>1. n \in Nat /\ FlattenSeq(a) \in Seq(B) /\ FlattenSeq(b) \in Seq(B)
    BY FlattenAppend, EmptySeq, LenProperties
  <2>2. \A k \in 0..n : pre(k) \in Seq(S)
    BY Halves
  <2>3. \A k \in 0..n : FlattenSeq(pre(k)) \in Seq(B)
    <3> HIDE DEF pre
    <3> QED BY <2>2, FlattenAppend, EmptySeq
  <2> QED BY <2>1, <2>2, <2>3
<1>2. 0 \in Good
  <2>1. pre(0) = <<>> /\ FlattenSeq(<<>>) = <<>>
    BY SubSeqEmpty, FlattenAppend, EmptySeq
  <2>2. a \o <<>> = a /\ FlattenSeq(a) \o <<>> = FlattenSeq(a)
    BY <1>1, ConcatEmptySeq
  <2>3. FlattenSeq(a \o pre(0)) = FlattenSeq(a) \o FlattenSeq(pre(0))
    BY <2>1, <2>2
  <2> QED BY <1>1, <2>3
<1>3. ASSUME NEW k \in 0..(n - 1), k \in Good PROVE k + 1 \in Good
  <2> DEFINE p == pre(k)
             c == b[k + 1]
  <2>1. k \in 0..n /\ k + 1 \in 0..n /\ k + 1 \in 1..n /\ p \in Seq(S) /\ c \in S /\ FlattenSeq(p) \in S
    <3>1. k \in 0..n /\ k + 1 \in 0..n /\ k + 1 \in 1..n
      BY <1>1
    <3>2. c \in S
      BY <3>1, ElementOfSeq
    <3> QED BY <1>1, <3>1, <3>2
  <2>2. pre(k + 1) = Append(p, c)
    <3>1. 1 \in 1..Len(b) /\ k + 1 \in 1..Len(b) /\ (k + 1) - 1 = k
      BY <2>1
    <3>2. SubSeq(b, 1, k + 1) = SubSeq(b, 1, (k + 1) - 1) \o <<b[k + 1]>>
      BY <3>1, SubSeqRecursiveSecond
    <3> HIDE DEF p, c
    <3>3. Append(p, c) = p \o <<c>>
      BY <2>1, AppendIsConcat
    <3> QED BY <3>1, <3>2, <3>3 DEF p, c
  <2>3. a \o Append(p, c) = Append(a \o p, c) /\ a \o p \in Seq(S)
    <3> HIDE DEF p, c, S
    <3>1. <<c>> \in Seq(S) /\ a \in Seq(S)
      BY <2>1 DEF S
    <3>2. a \o p \in Seq(S)
      BY <2>1, <3>1, ConcatProperties
    <3>3. Append(p, c) = p \o <<c>> /\ Append(a \o p, c) = (a \o p) \o <<c>>
      BY <2>1, <3>2, AppendIsConcat
    <3>4. (a \o p) \o <<c>> = a \o (p \o <<c>>)
      <4>1. \A x, y, z \in Seq(S) : (x \o y) \o z = x \o (y \o z)
        BY <1>b, Zenon DEF S
      <4> QED BY <2>1, <3>1, <4>1, Zenon
    <3> QED BY <3>2, <3>3, <3>4
  <2>4. FlattenSeq(Append(a \o p, c)) = FlattenSeq(a \o p) \o c
    BY <2>1, <2>3, FlattenAppend
  <2>5. FlattenSeq(Append(p, c)) = FlattenSeq(p) \o c
    BY <2>1, FlattenAppend
  <2>6. FlattenSeq(a \o p) = FlattenSeq(a) \o FlattenSeq(p)
    BY <1>3
  <2>7. (FlattenSeq(a) \o FlattenSeq(p)) \o c = FlattenSeq(a) \o (FlattenSeq(p) \o c)
    <3>1. FlattenSeq(a) \in S /\ FlattenSeq(p) \in S /\ c \in S
      BY <1>1, <2>1
    <3>2. \A x, y, z \in S : (x \o y) \o z = x \o (y \o z)
      BY <1>a, Zenon
    <3> HIDE DEF p, c, S
    <3> QED BY <3>1, <3>2, Zenon
  <2> HIDE DEF p, c, pre
  <2>8. FlattenSeq(a \o pre(k + 1)) = FlattenSeq(a) \o FlattenSeq(pre(k + 1))
    BY <2>2, <2>3, <2>4, <2>5, <2>6, <2>7
  <2> QED BY <2>1, <2>8
<1>4. 0..n \subseteq Good
  <2>1. 0 \in Int /\ n \in Int
    BY <1>1
  <2> HIDE DEF Good, n
  <2> QED BY <1>2, <1>3, <2>1, IntervalInduction
<1>5. pre(n) = b /\ n \in 0..n
  BY <1>1, SubSeqFull
<1> HIDE DEF pre
<1>6. FlattenSeq(a \o b) = FlattenSeq(a) \o FlattenSeq(b)
  BY <1>4, <1>5
<1> QED BY <1>1, <1>6

LEMMA FlattenOne ==
    ASSUME NEW B, NEW c \in Seq(B)
    PROVE  FlattenSeq(<<c>>) = c /\ <<c>> \in Seq(Seq(B))
<1>1. <<>> \in Seq(Seq(B)) /\ Append(<<>>, c) = <<c>> /\ <<c>> \in Seq(Seq(B))
  OBVIOUS
<1>2. FlattenSeq(<<c>>) = <<>> \o c
  BY <1>1, FlattenAppend
<1> QED BY <1>1, <1>2, ConcatEmptySeq

\* The bytes of a list are those up to a place in it and those behind it.
LEMMA FlattenHalves ==
    ASSUME NEW B, NEW list \in Seq(Seq(B)), NEW n \in 0..Len(list)
    PROVE  /\ SubSeq(list, 1, n) \in Seq(Seq(B)) /\ SubSeq(list, n + 1, Len(list)) \in Seq(Seq(B))
           /\ FlattenSeq(SubSeq(list, 1, n)) \in Seq(B)
           /\ FlattenSeq(SubSeq(list, n + 1, Len(list))) \in Seq(B)
           /\ FlattenSeq(list) =
                 FlattenSeq(SubSeq(list, 1, n)) \o FlattenSeq(SubSeq(list, n + 1, Len(list)))
<1> DEFINE S == Seq(B)
           a == SubSeq(list, 1, n)
           b == SubSeq(list, n + 1, Len(list))
<1>1. a \in Seq(S) /\ b \in Seq(S) /\ a \o b = list
  BY Halves
<1> HIDE DEF a, b
<1>2. /\ FlattenSeq(a) \in Seq(B) /\ FlattenSeq(b) \in Seq(B)
      /\ FlattenSeq(a \o b) = FlattenSeq(a) \o FlattenSeq(b)
  BY <1>1, FlattenConcat
<1> QED BY <1>1, <1>2 DEF a, b

-----------------------------------------------------------------------------
(* Slices, and iterations                                                  *)

\* A slice is a sequence, of the elements between the positions.
LEMMA SliceProperties ==
    ASSUME NEW B, NEW s \in Seq(B), NEW b \in 0..Len(s), NEW a \in 0..b
    PROVE  /\ Slice(s, a, b) \in Seq(B) /\ Len(Slice(s, a, b)) = b - a /\ Len(s) \in Nat
           /\ \A i \in 1..(b - a) : Slice(s, a, b)[i] = s[a + i]
<1>1. Len(s) \in Nat /\ \A i \in 1..Len(s) : s[i] \in B
  BY LenProperties, ElementOfSeq
<1>2. a \in Nat /\ b \in Nat /\ a + 1 \in Int
  BY <1>1
<1>3. \A i \in (a + 1)..b : s[i] \in B
  BY <1>1, <1>2
<1> DEFINE t == SubSeq(s, a + 1, b)
<1>4. /\ t \in Seq(B) /\ Len(t) = IF a + 1 <= b THEN b - (a + 1) + 1 ELSE 0
      /\ \A i \in 1 .. b - (a + 1) + 1 : t[i] = s[(a + 1) + i - 1]
  <2> HIDE DEF t
  <2> QED BY <1>2, <1>3, SubSeqProperties DEF t
<1> HIDE DEF t
<1>5. Len(t) = b - a /\ \A i \in 1..(b - a) : t[i] = s[a + i]
  BY <1>1, <1>2, <1>4
<1> QED BY <1>1, <1>4, <1>5 DEF t, Slice

\* The whole sequence is a slice of it, and so is the empty one.
LEMMA SliceEnds ==
    ASSUME NEW B, NEW s \in Seq(B)
    PROVE  /\ Slice(s, 0, Len(s)) = s /\ Len(s) \in Nat
           /\ \A a \in 0..Len(s) : Slice(s, a, a) = <<>>
<1>1. Len(s) \in Nat
  BY LenProperties
<1>2. Slice(s, 0, Len(s)) = s
  BY SubSeqFull DEF Slice
<1>3. \A a \in 0..Len(s) : Slice(s, a, a) = <<>>
  BY <1>1, SubSeqEmpty DEF Slice
<1> QED BY <1>1, <1>2, <1>3

\* Adjacent slices make one.
LEMMA SliceJoin ==
    ASSUME NEW B, NEW s \in Seq(B), NEW c \in 0..Len(s), NEW b \in 0..c, NEW a \in 0..b
    PROVE  Cat(Slice(s, a, b), Slice(s, b, c)) = Slice(s, a, c)
<1> DEFINE x == Slice(s, a, b)
           y == Slice(s, b, c)
           z == Slice(s, a, c)
           t == x \o y
<1>1. /\ Len(s) \in Nat /\ b \in 0..Len(s) /\ a \in 0..c
  BY LenProperties
<1>2. x \in Seq(B) /\ Len(x) = b - a /\ \A i \in 1..(b - a) : x[i] = s[a + i]
  BY <1>1, SliceProperties
<1>3. y \in Seq(B) /\ Len(y) = c - b /\ \A i \in 1..(c - b) : y[i] = s[b + i]
  BY <1>1, SliceProperties
<1>4. z \in Seq(B) /\ Len(z) = c - a /\ \A i \in 1..(c - a) : z[i] = s[a + i]
  BY <1>1, SliceProperties
<1> HIDE DEF x, y, z
<1>5. /\ t \in Seq(B) /\ Len(t) = Len(x) + Len(y)
      /\ \A i \in 1..(Len(x) + Len(y)) : t[i] = IF i <= Len(x) THEN x[i] ELSE y[i - Len(x)]
  BY <1>2, <1>3, ConcatProperties
<1> HIDE DEF t
<1>6. Len(t) = Len(z) /\ \A i \in 1..Len(t) : t[i] = z[i]
  <2>1. Len(t) = Len(z)
    BY <1>1, <1>2, <1>3, <1>4, <1>5
  <2>2. ASSUME NEW i \in 1..Len(t) PROVE t[i] = z[i]
    <3>1. CASE i <= b - a
      <4>1. i \in 1..(b - a) /\ i \in 1..(c - a) /\ i \in 1..(Len(x) + Len(y)) /\ i <= Len(x)
        BY <1>1, <1>2, <1>3, <1>5, <3>1
      <4> QED BY <1>2, <1>4, <1>5, <4>1
    <3>2. CASE ~(i <= b - a)
      <4>1. i - (b - a) \in 1..(c - b) /\ b + (i - (b - a)) = a + i /\ i \in 1..(c - a)
        BY <1>1, <1>2, <1>3, <1>5, <3>2
      <4> QED BY <1>1, <1>2, <1>3, <1>4, <1>5, <3>2, <4>1
    <3> QED BY <3>1, <3>2
  <2> QED BY <2>1, <2>2
<1>7. t = z
  BY <1>4, <1>5, <1>6, SeqEqual
<1> QED BY <1>7 DEF t, x, y, z, Cat

\* A slice of a slice is one of the sequence.
LEMMA SliceOfSlice ==
    ASSUME NEW B, NEW s \in Seq(B), NEW b \in 0..Len(s), NEW a \in 0..b,
           NEW j \in 0..(b - a), NEW i \in 0..j
    PROVE  Slice(Slice(s, a, b), i, j) = Slice(s, a + i, a + j)
<1> DEFINE x == Slice(s, a, b)
           y == Slice(x, i, j)
           z == Slice(s, a + i, a + j)
<1>1. Len(s) \in Nat /\ a + j \in 0..Len(s) /\ a + i \in 0..(a + j)
  BY LenProperties
<1>2. x \in Seq(B) /\ Len(x) = b - a /\ \A k \in 1..(b - a) : x[k] = s[a + k]
  BY SliceProperties
<1>3. z \in Seq(B) /\ Len(z) = (a + j) - (a + i) /\ \A k \in 1..((a + j) - (a + i)) : z[k] = s[(a + i) + k]
  BY <1>1, SliceProperties
<1>4. y \in Seq(B) /\ Len(y) = j - i /\ \A k \in 1..(j - i) : y[k] = x[i + k]
  <2>1. j \in 0..Len(x)
    BY <1>2
  <2> HIDE DEF x
  <2> QED BY ZenonT(60), <1>2, <2>1, SliceProperties
<1> HIDE DEF x, y, z
<1>5. Len(y) = Len(z)
  BY <1>1, <1>3, <1>4
<1>6. ASSUME NEW k \in 1..Len(y) PROVE y[k] = z[k]
  <2>1. i + k \in 1..(b - a) /\ k \in 1..(j - i) /\ k \in 1..((a + j) - (a + i)) /\ a + (i + k) = (a + i) + k
    BY <1>1, <1>4
  <2> QED BY <1>2, <1>3, <1>4, <2>1
<1>7. y = z
  BY <1>3, <1>4, <1>5, <1>6, SeqEqual
<1> QED BY <1>7 DEF x, y, z

\* Slices of two sequences put together.
LEMMA SliceOfCat ==
    ASSUME NEW B, NEW a \in Seq(B), NEW b \in Seq(B)
    PROVE  /\ Cat(a, b) \in Seq(B) /\ Len(Cat(a, b)) = Len(a) + Len(b)
           /\ Len(a) \in Nat /\ Len(b) \in Nat
           /\ Slice(Cat(a, b), 0, Len(a)) = a
           /\ Slice(Cat(a, b), Len(a), Len(a) + Len(b)) = b
           /\ \A i \in 0..Len(a) : Slice(Cat(a, b), 0, i) = Slice(a, 0, i)
           /\ \A i \in 0..Len(a) : Slice(Cat(a, b), i, Len(a) + Len(b)) = Cat(Slice(a, i, Len(a)), b)
<1> DEFINE t == Cat(a, b)
<1>1. t \in Seq(B) /\ Len(t) = Len(a) + Len(b) /\ Len(a) \in Nat /\ Len(b) \in Nat
  BY CatType
<1>2. Slice(t, 0, Len(a)) = a /\ Slice(t, Len(a), Len(t)) = b
  BY HalvesOf DEF Slice, Cat
<1> HIDE DEF t
<1>3. ASSUME NEW i \in 0..Len(a)
      PROVE  Slice(t, 0, i) = Slice(a, 0, i) /\ Slice(t, i, Len(t)) = Cat(Slice(a, i, Len(a)), b)
  <2>1. /\ Len(a) \in 0..Len(t) /\ 0 \in 0..Len(a) /\ i \in 0..(Len(a) - 0) /\ 0 \in 0..i
        /\ Len(a) \in 0..(Len(a) - 0) /\ 0 + i = i /\ 0 + 0 = 0 /\ 0 + Len(a) = Len(a)
        /\ Len(t) \in 0..Len(t) /\ Len(a) \in 0..Len(t) /\ i \in 0..Len(a)
    BY <1>1
  <2>2. Slice(Slice(t, 0, Len(a)), 0, i) = Slice(t, 0 + 0, 0 + i)
    BY <1>1, <2>1, SliceOfSlice
  <2>3. Slice(Slice(t, 0, Len(a)), i, Len(a)) = Slice(t, 0 + i, 0 + Len(a))
    BY <1>1, <2>1, SliceOfSlice
  <2>4. Cat(Slice(t, i, Len(a)), Slice(t, Len(a), Len(t))) = Slice(t, i, Len(t))
    BY <1>1, <2>1, SliceJoin
  <2> QED BY <1>2, <2>1, <2>2, <2>3, <2>4
<1> QED BY <1>1, <1>2, <1>3 DEF t

\* An iteration goes on from each state to the next, and stays where a step changes nothing.
LEMMA Iteration ==
    ASSUME NEW n \in Nat, NEW S, NEW c \in S, NEW step \in [S -> S]
    PROVE  /\ Iterated(step, c, n) \in [0..n -> S]
           /\ Iterated(step, c, n)[0] = c
           /\ \A k \in 0..(n - 1) : Iterated(step, c, n)[k + 1] = step[Iterated(step, c, n)[k]]
           /\ \A k \in 0..n : step[Iterated(step, c, n)[k]] = Iterated(step, c, n)[k]
                             => Iterated(step, c, n)[n] = Iterated(step, c, n)[k]
<1> DEFINE f == Iterated(step, c, n)
           D == [i \in 0..n |-> step]
           Unfold(g) == [k \in 0..n |-> IF k = 0 THEN c ELSE step[g[k - 1]]]
<1>1. PICK g \in [0..n -> S] : g = Steps(0, n, c, D, g)
  <2>1. D \in [0..n -> [S -> S]] /\ 0 \in Int /\ n \in Int /\ 0 <= n
    OBVIOUS
  <2> HIDE DEF D
  <2>2. Solvable(0, n, S, c, D)
    BY <2>1, RecursionDefined
  <2> QED BY <2>2 DEF Solvable
<1>2. g = Unfold(g)
  BY <1>1 DEF Steps
<1>3. f = CHOOSE h : h = Unfold(h)
  BY DEF Iterated
<1>4. f = Unfold(f)
  <2> HIDE DEF Unfold, f
  <2> QED BY <1>2, <1>3
<1> HIDE DEF f
<1>5. f[0] = c /\ \A k \in 0..(n - 1) : f[k + 1] = step[f[k]]
  BY <1>4
<1>6. f \in [0..n -> S]
  <2> DEFINE Good == {k \in 0..n : f[k] \in S}
  <2>1. 0 \in Good /\ \A k \in 0..(n - 1) : k \in Good => k + 1 \in Good
    BY <1>5
  <2>2. 0 \in Int /\ n \in Int
    OBVIOUS
  <2>3. 0..n \subseteq Good
    <3> HIDE DEF Good
    <3> QED BY <2>1, <2>2, IntervalInduction
  <2> QED BY <1>4, <2>3
<1>7. ASSUME NEW k \in 0..n, step[f[k]] = f[k] PROVE f[n] = f[k]
  <2> DEFINE Good == {j \in k..n : f[j] = f[k]}
  <2>1. k \in Good /\ \A j \in k..(n - 1) : j \in Good => j + 1 \in Good
    BY <1>5, <1>7
  <2>2. k \in Int /\ n \in Int /\ n \in k..n
    OBVIOUS
  <2>3. k..n \subseteq Good
    <3> HIDE DEF Good
    <3> QED BY <2>1, <2>2, IntervalInduction
  <2> QED BY <2>2, <2>3
<1> QED BY <1>5, <1>6, <1>7 DEF f

\* A slice that grows by the next element.
LEMMA SliceAppend ==
    ASSUME NEW B, NEW s \in Seq(B), NEW b \in 0..(Len(s) - 1), NEW a \in 0..b
    PROVE  Append(Slice(s, a, b), s[b + 1]) = Slice(s, a, b + 1)
  <1>. DEFINE x == Slice(s, a, b)
             z == Slice(s, a, b + 1)
             e == s[b + 1]
             y == Append(x, e)
  <1>1. /\ Len(s) \in Nat /\ b \in 0..Len(s) /\ b + 1 \in 0..Len(s) /\ a \in 0..b /\ a \in 0..(b + 1)
        /\ b + 1 \in 1..Len(s) /\ a \in Nat /\ b \in Nat
    BY LenProperties
  <1>2. e \in B  BY <1>1, ElementOfSeq
  <1>3. x \in Seq(B) /\ Len(x) = b - a /\ \A i \in 1..(b - a) : x[i] = s[a + i]
    BY <1>1, SliceProperties
  <1>4. z \in Seq(B) /\ Len(z) = (b + 1) - a /\ \A i \in 1..((b + 1) - a) : z[i] = s[a + i]
    BY <1>1, SliceProperties
  <1>5. a + ((b - a) + 1) = b + 1 /\ (b - a) + 1 = (b + 1) - a /\ b - a \in Nat  BY <1>1
  <1>. HIDE DEF x, z
  <1>6. e = s[a + ((b - a) + 1)]  BY <1>5
  <1>. HIDE DEF e
  <1>7. y \in Seq(B) /\ Len(y) = (b - a) + 1 /\ y[(b - a) + 1] = e /\ \A i \in 1..(b - a) : y[i] = x[i]
    BY <1>2, <1>3, <1>5, AppendProperties
  <1>. HIDE DEF y
  <1>8. ASSUME NEW i \in 1..Len(y) PROVE y[i] = z[i]
    <2>1. i \in 1..((b + 1) - a)  BY <1>5, <1>7
    <2>2. z[i] = s[a + i]  BY <1>4, <2>1
    <2>3. CASE i \in 1..(b - a)
      BY <1>3, <1>7, <2>2, <2>3
    <2>4. CASE i = (b - a) + 1
      BY <1>6, <1>7, <2>2, <2>4
    <2>5. i \in 1..(b - a) \/ i = (b - a) + 1  BY <1>1, <1>5, <2>1
    <2>. QED  BY <2>3, <2>4, <2>5
  <1>9. Len(y) = Len(z)  BY <1>4, <1>5, <1>7
  <1>10. y = z  BY <1>4, <1>7, <1>8, <1>9, SeqEqual
  <1>. QED  BY <1>10 DEF x, y, z, e

\* The first element of a slice, and the rest.
LEMMA SliceTail ==
    ASSUME NEW B, NEW s \in Seq(B), NEW b \in 0..Len(s), NEW a \in 0..b
    PROVE  /\ Slice(s, a, b) = <<>> <=> a = b
           /\ a < b => /\ Head(Slice(s, a, b)) = s[a + 1]
                       /\ Tail(Slice(s, a, b)) = Slice(s, a + 1, b)
  <1>. DEFINE x == Slice(s, a, b)
  <1>1. Len(s) \in Nat /\ a \in Nat /\ b \in Nat  BY LenProperties
  <1>2. x \in Seq(B) /\ Len(x) = b - a /\ \A i \in 1..(b - a) : x[i] = s[a + i]
    BY SliceProperties
  <1>. HIDE DEF x
  <1>3. x = <<>> <=> a = b
    <2>1. x = <<>> <=> Len(x) = 0  BY <1>2, EmptySeq
    <2>. QED  BY <1>1, <1>2, <2>1
  <1>4. ASSUME a < b PROVE Head(x) = s[a + 1] /\ Tail(x) = Slice(s, a + 1, b)
    <2>. DEFINE z == Slice(s, a + 1, b)
               y == Tail(x)
    <2>1. a + 1 \in 0..b /\ b - a \in Nat /\ 1 \in 1..(b - a)  BY <1>1, <1>4
    <2>2. z \in Seq(B) /\ Len(z) = b - (a + 1) /\ \A i \in 1..(b - (a + 1)) : z[i] = s[(a + 1) + i]
      BY <2>1, SliceProperties
    <2>3. x # <<>>  BY <1>1, <1>3, <1>4
    <2>4. Head(x) = x[1] /\ y \in Seq(B) /\ Len(y) = Len(x) - 1 /\ \A i \in 1..(Len(x) - 1) : y[i] = x[i + 1]
      BY <1>2, <2>3, HeadTailProperties
    <2>. HIDE DEF y, z
    <2>5. ASSUME NEW i \in 1..Len(y) PROVE y[i] = z[i]
      <3>1. i \in 1..(b - (a + 1)) /\ i + 1 \in 1..(b - a) /\ a + (i + 1) = (a + 1) + i /\ i \in 1..(Len(x) - 1)
        BY <1>1, <1>2, <2>4
      <3>. QED  BY <1>2, <2>2, <2>4, <3>1
    <2>6. Len(y) = Len(z)  BY <1>1, <1>2, <2>2, <2>4
    <2>7. y = z  BY <2>2, <2>4, <2>5, <2>6, SeqEqual
    <2>. QED  BY <1>2, <2>1, <2>4, <2>7 DEF y, z
  <1>. QED  BY <1>3, <1>4 DEF x

-----------------------------------------------------------------------------
(* Chained buffers                                                         *)

Pre(list, k) == SubSeq(list, 1, k)
Post(list, k) == SubSeq(list, k + 1, Len(list))
NoneEmpty(list) == \A i \in DOMAIN list : list[i] # <<>>

\* The bytes up to a cbuf and the bytes after it.
LEMMA PreLength ==
    ASSUME NEW B, NEW list \in Seq(Seq(B))
    PROVE  /\ Len(list) \in Nat /\ Length(list) \in Nat /\ Length(Pre(list, 0)) = 0
           /\ Pre(list, Len(list)) = list
           /\ \A k \in 0..Len(list) :
                /\ Pre(list, k) \in Seq(Seq(B)) /\ Post(list, k) \in Seq(Seq(B))
                /\ Bytes(Pre(list, k)) \in Seq(B) /\ Bytes(Post(list, k)) \in Seq(B)
                /\ Length(Pre(list, k)) \in Nat /\ Length(Pre(list, k)) <= Length(list)
                /\ Bytes(list) = Bytes(Pre(list, k)) \o Bytes(Post(list, k))
<1>1. Len(list) \in Nat /\ Bytes(list) \in Seq(B) /\ Length(list) \in Nat
  <2>1. FlattenSeq(list) \in Seq(B)
    BY FlattenAppend, EmptySeq
  <2> QED BY <2>1, LenProperties DEF Bytes, Length
<1>2. Length(Pre(list, 0)) = 0
  <2>1. FlattenSeq(<<>>) = <<>>
    BY DEF FlattenSeq
  <2>2. Pre(list, 0) = <<>>
    BY SubSeqEmpty DEF Pre
  <2> QED BY <2>1, <2>2 DEF Length, Bytes
<1>3. Pre(list, Len(list)) = list
  BY SubSeqFull DEF Pre
<1>4. ASSUME NEW k \in 0..Len(list)
      PROVE  /\ Pre(list, k) \in Seq(Seq(B)) /\ Post(list, k) \in Seq(Seq(B))
             /\ Bytes(Pre(list, k)) \in Seq(B) /\ Bytes(Post(list, k)) \in Seq(B)
             /\ Bytes(list) = Bytes(Pre(list, k)) \o Bytes(Post(list, k))
  BY FlattenHalves DEF Pre, Post, Bytes
<1>5. ASSUME NEW k \in 0..Len(list)
      PROVE  Length(Pre(list, k)) \in Nat /\ Length(Pre(list, k)) <= Length(list)
  <2> DEFINE a == Bytes(Pre(list, k))
             b == Bytes(Post(list, k))
  <2>1. a \in Seq(B) /\ b \in Seq(B) /\ Bytes(list) = a \o b
    BY <1>4
  <2> HIDE DEF a, b
  <2>2. Len(a) \in Nat /\ Len(b) \in Nat /\ Len(Bytes(list)) = Len(a) + Len(b)
    BY <2>1, LenProperties, ConcatProperties
  <2> QED BY <2>2 DEF Length, a
<1> QED BY <1>1, <1>2, <1>3, <1>4, <1>5

\* From one cbuf to a later one there are no fewer bytes; the next cbuf adds its own.
LEMMA PreGrows ==
    ASSUME NEW B, NEW list \in Seq(Seq(B)), NEW k \in 0..Len(list), NEW j \in 0..k
    PROVE  /\ Length(Pre(list, j)) <= Length(Pre(list, k))
           /\ k > 0 => /\ list[k] \in Seq(B)
                       /\ Bytes(Pre(list, k)) = Bytes(Pre(list, k - 1)) \o list[k]
                       /\ Length(Pre(list, k)) = Length(Pre(list, k - 1)) + Len(list[k])
<1> DEFINE S == Seq(B)
           p == Pre(list, k)
<1>1. p \in Seq(S) /\ Len(p) = k /\ k \in Nat /\ j \in Nat /\ \A i \in 1..k : p[i] = list[i]
  BY Halves DEF Pre
<1>2. Pre(p, j) = Pre(list, j)
  <2>1. Len(list) \in Nat /\ j \in 0..Len(list) /\ j \in 0..Len(p)
    BY <1>1
  <2> DEFINE x == Pre(p, j)
             y == Pre(list, j)
  <2>2. x \in Seq(S) /\ Len(x) = j /\ \A i \in 1..j : x[i] = p[i]
    <3> HIDE DEF p
    <3> QED BY <1>1, <2>1, Halves DEF Pre
  <2>3. y \in Seq(S) /\ Len(y) = j /\ \A i \in 1..j : y[i] = list[i]
    BY <2>1, Halves DEF Pre
  <2> HIDE DEF x, y, p, S
  <2>4. \A i \in 1..Len(x) : x[i] = y[i]
    BY <1>1, <2>1, <2>2, <2>3
  <2>5. x = y
    BY <2>2, <2>3, <2>4, SeqEqual
  <2> QED BY <2>5 DEF x, y
<1>3. Length(Pre(list, j)) <= Length(Pre(list, k))
  <2>1. j \in 0..Len(p)
    BY <1>1
  <2> HIDE DEF p
  <2>2. Length(Pre(p, j)) <= Length(p)
    BY <1>1, <2>1, PreLength
  <2> QED BY <1>2, <2>2 DEF p
<1>4. ASSUME k > 0
      PROVE  /\ list[k] \in Seq(B)
             /\ Bytes(Pre(list, k)) = Bytes(Pre(list, k - 1)) \o list[k]
             /\ Length(Pre(list, k)) = Length(Pre(list, k - 1)) + Len(list[k])
  <2> DEFINE q == Pre(list, k - 1)
             c == list[k]
  <2>1. k \in 1..Len(list) /\ k - 1 \in 0..Len(list) /\ 1 \in 1..Len(list)
    BY <1>4
  <2>2. q \in Seq(S) /\ c \in S
    BY <2>1, Halves, ElementOfSeq DEF Pre
  <2>3. p = Append(q, c)
    <3>1. SubSeq(list, 1, k) = SubSeq(list, 1, k - 1) \o <<list[k]>>
      BY <2>1, SubSeqRecursiveSecond
    <3> HIDE DEF c, q, S
    <3>2. Append(q, c) = q \o <<c>>
      BY <2>2, AppendIsConcat
    <3> QED BY <3>1, <3>2 DEF c, q, Pre
  <2> HIDE DEF p, q, c
  <2>4. FlattenSeq(p) = FlattenSeq(q) \o c /\ FlattenSeq(q) \in Seq(B)
    BY <2>2, <2>3, FlattenAppend
  <2>5. Len(FlattenSeq(p)) = Len(FlattenSeq(q)) + Len(c)
    BY <2>2, <2>4, ConcatProperties
  <2> QED BY <2>2, <2>4, <2>5 DEF Bytes, Length, p, q, c
<1> QED BY <1>3, <1>4

\* The cbuf in which n bytes end exists, and only one does.
LEMMA EndsInProperties ==
    ASSUME NEW B, NEW list \in Seq(Seq(B)), NEW n \in 0..Length(list)
    PROVE  /\ EndsIn(list, n) \in 0..Len(list)
           /\ Length(Pre(list, EndsIn(list, n))) >= n
           /\ EndsIn(list, n) > 0 => Length(Pre(list, EndsIn(list, n) - 1)) < n
<1> DEFINE Ends(k) == /\ Length(SubSeq(list, 1, k)) >= n
                      /\ k > 0 => Length(SubSeq(list, 1, k - 1)) < n
           T == {k \in 0..Len(list) : Length(Pre(list, k)) >= n}
<1>1. /\ Len(list) \in Nat /\ Pre(list, Len(list)) = list
      /\ \A k \in 0..Len(list) : Length(Pre(list, k)) \in Nat
  BY PreLength
<1>2. T \subseteq Nat /\ T # {}
  BY <1>1
<1>3. PICK k \in T : \A j \in T : k <= j
  <2> HIDE DEF T
  <2> QED BY <1>2, Smallest
<1>4. k > 0 => Length(Pre(list, k - 1)) < n
  <2> SUFFICES ASSUME k > 0 PROVE Length(Pre(list, k - 1)) < n
    OBVIOUS
  <2>1. k - 1 \in 0..Len(list) /\ ~(k <= k - 1) /\ k - 1 \notin T
    BY <1>3
  <2> QED BY <1>1, <2>1
<1>5. Ends(k) /\ k \in 0..Len(list)
  BY <1>3, <1>4 DEF Pre
<1>6. EndsIn(list, n) = CHOOSE i \in 0..Len(list) : Ends(i)
  BY DEF EndsIn
<1> HIDE DEF Ends
<1>7. EndsIn(list, n) \in 0..Len(list) /\ Ends(EndsIn(list, n))
  BY <1>5, <1>6
<1> QED BY <1>7 DEF Ends, Pre

\* The cbuf in which the first n bytes end exists, and is where the bytes up to it reach n.
LEMMA EndsInIs ==
    ASSUME NEW B, NEW list \in Seq(Seq(B)), NEW n \in 0..Length(list), NEW k \in 0..Len(list),
           Length(Pre(list, k)) >= n, k > 0 => Length(Pre(list, k - 1)) < n
    PROVE  EndsIn(list, n) = k
<1> DEFINE e == EndsIn(list, n)
<1>1. e \in 0..Len(list) /\ Length(Pre(list, e)) >= n /\ (e > 0 => Length(Pre(list, e - 1)) < n)
  BY EndsInProperties
<1> HIDE DEF e
<1>2. \A i \in 0..Len(list) : Length(Pre(list, i)) \in Nat
  BY PreLength
<1>3. Len(list) \in Nat /\ n \in Int
  BY PreLength
<1>4. ~(e < k)
  <2> SUFFICES ASSUME e < k PROVE FALSE
    OBVIOUS
  <2>1. k - 1 \in 0..Len(list) /\ e \in 0..(k - 1) /\ k > 0
    BY <1>1, <1>3
  <2>2. Length(Pre(list, e)) <= Length(Pre(list, k - 1))
    BY <2>1, PreGrows
  <2>3. Length(Pre(list, k - 1)) < n /\ Length(Pre(list, e)) >= n
    BY <1>1, <2>1
  <2>4. Length(Pre(list, e)) \in Nat /\ Length(Pre(list, k - 1)) \in Nat
    BY <1>1, <1>2, <2>1
  <2> QED BY ONLY <1>3, <2>2, <2>3, <2>4
<1>5. ~(k < e)
  <2> SUFFICES ASSUME k < e PROVE FALSE
    OBVIOUS
  <2>1. e - 1 \in 0..Len(list) /\ k \in 0..(e - 1) /\ e > 0
    BY <1>1, <1>3
  <2>2. Length(Pre(list, k)) <= Length(Pre(list, e - 1))
    BY <2>1, PreGrows
  <2>3. Length(Pre(list, e - 1)) < n /\ Length(Pre(list, k)) >= n
    BY <1>1, <2>1
  <2>4. Length(Pre(list, k)) \in Nat /\ Length(Pre(list, e - 1)) \in Nat
    BY <1>1, <1>2, <2>1
  <2> QED BY ONLY <1>3, <2>2, <2>3, <2>4
<1> QED BY <1>1, <1>3, <1>4, <1>5 DEF e

\* Putting lists together or cutting one makes no empty cbufs.
LEMMA NoneEmptyConcat ==
    ASSUME NEW S, NEW u \in Seq(S), NEW v \in Seq(S), NoneEmpty(u), NoneEmpty(v)
    PROVE  NoneEmpty(u \o v)
<1>1. /\ u \o v \in Seq(S) /\ Len(u \o v) = Len(u) + Len(v) /\ Len(u) \in Nat /\ Len(v) \in Nat
      /\ \A i \in 1..(Len(u) + Len(v)) : (u \o v)[i] = IF i <= Len(u) THEN u[i] ELSE v[i - Len(u)]
  BY ConcatProperties, LenProperties
<1>2. DOMAIN (u \o v) = 1..(Len(u) + Len(v)) /\ DOMAIN u = 1..Len(u) /\ DOMAIN v = 1..Len(v)
  BY <1>1, LenProperties
<1> DEFINE w == u \o v
<1>3. ASSUME NEW i \in 1..(Len(u) + Len(v)) PROVE w[i] # <<>>
  <2> HIDE DEF w
  <2>1. CASE i <= Len(u)
    <3>1. i \in DOMAIN u
      BY <1>1, <1>2, <2>1
    <3> QED BY <1>1, <2>1, <3>1 DEF NoneEmpty, w
  <2>2. CASE ~(i <= Len(u))
    <3>1. i - Len(u) \in DOMAIN v
      BY <1>1, <1>2, <2>2
    <3> QED BY <1>1, <2>2, <3>1 DEF NoneEmpty, w
  <2> QED BY <2>1, <2>2
<1> QED BY <1>2, <1>3 DEF NoneEmpty

\* Cutting a list in two neither loses nor moves a byte.
LEMMA Split ==
    ASSUME NEW B, NEW list \in Seq(Seq(B)), NEW n \in 0..Length(list), NoneEmpty(list)
    PROVE  /\ FirstBytes(list, n) \in Seq(Seq(B)) /\ RestBytes(list, n) \in Seq(Seq(B))
           /\ NoneEmpty(FirstBytes(list, n)) /\ NoneEmpty(RestBytes(list, n))
           /\ Bytes(FirstBytes(list, n)) = SubSeq(Bytes(list), 1, n)
           /\ Bytes(RestBytes(list, n)) = SubSeq(Bytes(list), n + 1, Length(list))
<1>2. /\ Len(list) \in Nat /\ n \in Nat /\ Length(Pre(list, 0)) = 0
      /\ \A i \in 0..Len(list) : Length(Pre(list, i)) \in Nat
  <2>1. /\ Len(list) \in Nat /\ Length(list) \in Nat /\ Length(Pre(list, 0)) = 0
        /\ \A i \in 0..Len(list) : Length(Pre(list, i)) \in Nat
    BY PreLength
  <2> QED BY <2>1
<1> DEFINE S == Seq(B)
           r == Rechained(list, n)
           k == EndsIn(list, n)
\* It suffices that the list after the cut has the same bytes, n of them up to k.
<1>1. /\ k \in 0..Len(list) /\ Length(Pre(list, k)) >= n
      /\ k > 0 => Length(Pre(list, k - 1)) < n
  BY EndsInProperties
<1> HIDE DEF k
<1>3. ASSUME /\ r \in Seq(S) /\ NoneEmpty(r) /\ Bytes(r) = Bytes(list)
             /\ k \in 0..Len(r) /\ Length(Pre(r, k)) = n
             /\ k > 0 => Length(Pre(r, k - 1)) < n
      PROVE  /\ FirstBytes(list, n) \in Seq(S) /\ RestBytes(list, n) \in Seq(S)
             /\ NoneEmpty(FirstBytes(list, n)) /\ NoneEmpty(RestBytes(list, n))
             /\ Bytes(FirstBytes(list, n)) = SubSeq(Bytes(list), 1, n)
             /\ Bytes(RestBytes(list, n)) = SubSeq(Bytes(list), n + 1, Length(list))
  <2> HIDE DEF r
  <2>1. EndsIn(r, n) = k
    <3>1. n \in 0..Length(r) /\ Length(Pre(r, k)) >= n
      BY <1>3 DEF Length
    <3> QED BY <1>3, <3>1, EndsInIs
  <2>2. FirstBytes(list, n) = Pre(r, k) /\ RestBytes(list, n) = Post(r, k)
    BY <2>1 DEF FirstBytes, RestBytes, Pre, Post, r
  <2> DEFINE a == Bytes(Pre(r, k))
             b == Bytes(Post(r, k))
  <2>3. /\ Pre(r, k) \in Seq(S) /\ Post(r, k) \in Seq(S)
        /\ a \in Seq(B) /\ b \in Seq(B) /\ Bytes(r) = a \o b
    BY <1>3, PreLength
  <2>4. NoneEmpty(Pre(r, k)) /\ NoneEmpty(Post(r, k))
    <3>1. /\ Len(Pre(r, k)) = k /\ Len(Post(r, k)) = Len(r) - k /\ k \in Nat /\ Len(r) \in Nat
          /\ \A i \in 1..k : Pre(r, k)[i] = r[i]
          /\ \A i \in 1..(Len(r) - k) : Post(r, k)[i] = r[k + i]
      BY <1>3, Halves DEF Pre, Post
    <3>2. /\ DOMAIN Pre(r, k) = 1..k /\ DOMAIN Post(r, k) = 1..(Len(r) - k)
          /\ DOMAIN r = 1..Len(r)
      BY <1>3, <2>3, <3>1, LenProperties
    <3>3. ASSUME NEW i \in 1..k PROVE Pre(r, k)[i] # <<>>
      <4>1. i \in DOMAIN r
        BY <3>1, <3>2, <1>3
      <4> QED BY <1>3, <3>1, <4>1 DEF NoneEmpty
    <3>4. ASSUME NEW i \in 1..(Len(r) - k) PROVE Post(r, k)[i] # <<>>
      <4>1. k + i \in DOMAIN r
        BY <3>1, <3>2
      <4> QED BY <1>3, <3>1, <4>1 DEF NoneEmpty
    <3> QED BY <3>2, <3>3, <3>4 DEF NoneEmpty
  <2> HIDE DEF a, b
  <2>5. SubSeq(a \o b, 1, Len(a)) = a /\ SubSeq(a \o b, Len(a) + 1, Len(a \o b)) = b
    BY <2>3, HalvesOf
  <2>6. Len(a) = n /\ Len(a \o b) = Length(list) /\ a \o b = Bytes(list)
    BY <1>3, <2>3 DEF Length, a
  <2> QED BY <2>2, <2>3, <2>4, <2>5, <2>6 DEF a, b
<1>4. CASE ~NeedsCut(list, n)
  <2>1. r = list /\ Length(Pre(list, k)) = n
    BY <1>4 DEF Rechained, NeedsCut, Pre, k
  <2> HIDE DEF r
  <2> QED BY <1>1, <1>3, <2>1
<1>5. CASE NeedsCut(list, n)
  <2>1. Length(Pre(list, k)) # n
    BY <1>5 DEF NeedsCut, Pre, k
  <2>2. k > 0 /\ k - 1 \in 0..Len(list)
    BY <1>1, <1>2, <2>1
  <2> DEFINE p == Pre(list, k - 1)
             q == Post(list, k)
             c == list[k]
             cut == n - Length(p)
             x == SubSeq(c, 1, cut)
             y == SubSeq(c, cut + 1, Len(c))
             rp == p \o <<x>>
             ry == <<y>> \o q
  <2>3. /\ c \in S /\ p \in Seq(S) /\ q \in Seq(S)
        /\ Bytes(Pre(list, k)) = Bytes(p) \o c
        /\ Length(Pre(list, k)) = Length(p) + Len(c)
        /\ Bytes(list) = Bytes(Pre(list, k)) \o Bytes(q)
        /\ Bytes(p) \in S /\ Bytes(q) \in S
    <3>1. k \in 0..k /\ k \in 0..Len(list)
      BY <1>1, <2>2
    <3>2. /\ c \in S /\ Bytes(Pre(list, k)) = Bytes(p) \o c
          /\ Length(Pre(list, k)) = Length(p) + Len(c)
      BY <2>2, <3>1, PreGrows
    <3>3. /\ q \in Seq(S) /\ Bytes(q) \in S /\ Bytes(list) = Bytes(Pre(list, k)) \o Bytes(q)
      BY <3>1, PreLength
    <3>4. p \in Seq(S) /\ Bytes(p) \in S
      BY <2>2, PreLength
    <3> QED BY <3>2, <3>3, <3>4
  <2>4. cut \in 1..(Len(c) - 1) /\ Len(c) \in Nat
    <3>1. Length(p) \in Nat /\ Length(p) < n /\ Length(Pre(list, k)) >= n /\ Length(Pre(list, k)) \in Nat
      BY <1>1, <1>2, <2>2
    <3>2. Len(c) \in Nat
      BY <2>3, LenProperties
    <3> HIDE DEF p, c
    <3> QED BY ONLY <1>2, <2>1, <2>3, <3>1, <3>2
  <2>5. x \in S /\ y \in S /\ x \o y = c /\ x # <<>> /\ y # <<>> /\ Len(x) = cut
    <3> HIDE DEF c
    <3>1. cut \in 0..Len(c)
      BY <2>4
    <3> HIDE DEF cut
    <3>2. x \in S /\ y \in S /\ Len(x) = cut /\ Len(y) = Len(c) - cut /\ x \o y = c
      BY <2>3, <3>1, Halves
    <3> HIDE DEF x, y
    <3> QED BY <2>4, <3>2
  <2>6. r = (p \o <<x, y>>) \o q
    BY <1>5 DEF Rechained, Pre, Post, k
  <2> HIDE DEF p, q, c, x, y, cut, r
  <2>7. /\ <<x>> \in Seq(S) /\ <<y>> \in Seq(S) /\ <<x, y>> = Cat(<<x>>, <<y>>)
        /\ Bytes(<<x>>) = x /\ Bytes(<<y>>) = y
    <3>1. /\ <<x>> \in Seq(S) /\ <<y>> \in Seq(S) /\ Bytes(<<x>>) = x /\ Bytes(<<y>>) = y
      BY <2>5, FlattenOne DEF Bytes
    <3>2. <<x, y>> = Cat(<<x>>, <<y>>)
      BY PairIsCat
    <3> QED BY <3>1, <3>2
  <2>8. rp \in Seq(S) /\ ry \in Seq(S) /\ r = rp \o ry /\ r = p \o (<<x>> \o ry)
        /\ <<x>> \o ry \in Seq(S)
    <3> HIDE DEF S
    <3> DEFINE u == <<x>>
               v == <<y>>
    <3>1. p \in Seq(S) /\ u \in Seq(S) /\ v \in Seq(S) /\ q \in Seq(S)
      BY <2>3, <2>7
    <3>2. rp = Cat(p, u) /\ ry = Cat(v, q) /\ r = Cat(Cat(p, Cat(u, v)), q)
      BY <2>6, <2>7 DEF Cat
    <3> HIDE DEF u, v, rp, ry
    <3>3. rp \in Seq(S) /\ ry \in Seq(S) /\ Cat(u, ry) \in Seq(S)
      BY <3>1, <3>2, CatType
    <3>4. r = Cat(rp, ry) /\ r = Cat(p, Cat(u, ry))
      BY <3>1, <3>2, CatRegroup
    <3> QED BY <3>3, <3>4 DEF u, Cat
  <2>9. /\ Bytes(rp) \in S /\ Bytes(ry) \in S /\ Bytes(r) = Bytes(rp) \o Bytes(ry)
        /\ Bytes(rp) = Bytes(p) \o x /\ Bytes(ry) = y \o Bytes(q)
    <3>1. /\ FlattenSeq(rp) \in S /\ FlattenSeq(rp) = FlattenSeq(p) \o FlattenSeq(<<x>>)
      BY <2>3, <2>7, <2>8, FlattenConcat
    <3>2. /\ FlattenSeq(ry) \in S /\ FlattenSeq(ry) = FlattenSeq(<<y>>) \o FlattenSeq(q)
      BY <2>3, <2>7, <2>8, FlattenConcat
    <3> HIDE DEF rp, ry
    <3>3. FlattenSeq(rp \o ry) = FlattenSeq(rp) \o FlattenSeq(ry)
      BY <2>8, FlattenConcat
    <3> QED BY <2>7, <2>8, <3>1, <3>2, <3>3 DEF Bytes
  <2>10. Bytes(r) = Bytes(list)
    <3> DEFINE bp == Bytes(p)
               bq == Bytes(q)
    <3>1. bp \in Seq(B) /\ bq \in Seq(B) /\ x \in Seq(B) /\ y \in Seq(B)
      BY <2>3, <2>5
    <3> HIDE DEF bp, bq
    <3>2. Cat(Cat(bp, Cat(x, y)), bq) = Cat(Cat(bp, x), Cat(y, bq))
      BY <3>1, CatRegroup
    <3> QED BY <2>3, <2>5, <2>9, <3>2 DEF bp, bq, Cat
  <2>11. /\ Len(rp) = k /\ Len(p) = k - 1 /\ Pre(r, k) = rp /\ Pre(r, k - 1) = p
         /\ k \in 0..Len(r) /\ r \in Seq(S)
    <3>1. Len(p) = k - 1 /\ Len(<<x>>) = 1 /\ Len(rp) = Len(p) + 1 /\ k \in Nat
      <4>1. Len(p) = k - 1
        BY <2>2, Halves DEF p, Pre
      <4>2. Len(rp) = Len(p) + Len(<<x>>)
        BY <2>3, <2>7, ConcatProperties
      <4> QED BY <1>1, <4>1, <4>2
    <3>2. Len(rp) = k
      BY <3>1
    <3> DEFINE rest == <<x>> \o ry
    <3>3. rest \in Seq(S) /\ r = p \o rest
      BY <2>8
    <3> HIDE DEF rp, ry, rest
    <3>4. /\ Pre(r, k) = rp /\ Len(r) = k + Len(ry) /\ Len(ry) \in Nat /\ r \in Seq(S)
      <4>1. /\ SubSeq(Cat(rp, ry), 1, Len(rp)) = rp /\ Len(Cat(rp, ry)) = Len(rp) + Len(ry)
            /\ Len(ry) \in Nat /\ Cat(rp, ry) \in Seq(S)
        <5>1. rp \in Seq(S) /\ ry \in Seq(S)
          BY <2>8
        <5> HIDE DEF S
        <5>2. /\ SubSeq(rp \o ry, 1, Len(rp)) = rp /\ Len(rp \o ry) = Len(rp) + Len(ry)
              /\ Len(ry) \in Nat /\ rp \o ry \in Seq(S)
          BY <5>1, HalvesOf
        <5> QED BY <5>2 DEF Cat
      <4>2. r = Cat(rp, ry)
        BY <2>8 DEF Cat
      <4> QED BY <3>2, <4>1, <4>2 DEF Pre
    <3>5. Pre(r, k - 1) = p
      BY <2>3, <3>1, <3>3, HalvesOf DEF Pre
    <3> QED BY <3>1, <3>2, <3>4, <3>5
  <2>12. Length(Pre(r, k)) = n /\ Length(Pre(r, k - 1)) < n
    <3>1. Len(Bytes(rp)) = Len(Bytes(p)) + Len(x) /\ Len(Bytes(p)) \in Nat
      <4> DEFINE bp == Bytes(p)
      <4>1. bp \in Seq(B) /\ x \in Seq(B) /\ Bytes(rp) = bp \o x
        BY <2>3, <2>5, <2>9
      <4> HIDE DEF bp
      <4>2. Len(bp \o x) = Len(bp) + Len(x) /\ Len(bp) \in Nat
        BY <4>1, HalvesOf
      <4> QED BY <4>1, <4>2 DEF bp
    <3>2. n = Len(Bytes(p)) + cut /\ cut > 0
      BY <1>2, <2>4, <3>1 DEF cut, Length
    <3> QED BY <2>5, <2>11, <3>1, <3>2 DEF Length
  <2>13. NoneEmpty(r)
    <3>1. NoneEmpty(p) /\ NoneEmpty(q)
      <4>1. /\ Len(list) \in Nat /\ Len(p) = k - 1 /\ Len(q) = Len(list) - k
            /\ \A i \in 1..(k - 1) : p[i] = list[i]
            /\ \A i \in 1..(Len(list) - k) : q[i] = list[k + i]
        <5>1. k \in 0..Len(list) /\ k - 1 \in 0..Len(list)
          BY <1>1, <2>2
        <5> QED BY <1>2, <5>1, Halves DEF p, q, Pre, Post
      <4>2. DOMAIN p = 1..(k - 1) /\ DOMAIN q = 1..(Len(list) - k) /\ DOMAIN list = 1..Len(list)
        BY <2>3, <4>1, LenProperties
      <4>3. \A i \in DOMAIN p : i \in DOMAIN list
        BY <1>1, <4>1, <4>2
      <4>4. \A i \in DOMAIN q : k + i \in DOMAIN list
        BY <1>1, <4>1, <4>2
      <4> QED BY <4>1, <4>2, <4>3, <4>4 DEF NoneEmpty
    <3>2. \A u, v \in Seq(S) : NoneEmpty(u) /\ NoneEmpty(v) => NoneEmpty(u \o v)
      BY NoneEmptyConcat
    <3>3. NoneEmpty(<<x>>) /\ NoneEmpty(<<y>>)
      BY <2>5 DEF NoneEmpty
    <3> QED BY <2>3, <2>7, <2>8, <3>1, <3>2, <3>3
  <2> QED BY <1>3, <2>2, <2>10, <2>11, <2>12, <2>13
<1> QED BY <1>4, <1>5
==============================================================================
