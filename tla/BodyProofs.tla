----------------------------- MODULE BodyProofs ------------------------------
(***************************************************************************)
(* Theorems about the reception of a request body, for every request,      *)
(* whatever its framing and parts, every size of the pieces it arrives in, *)
(* and every lack of memory. The reference is BodyFormat: what the stream  *)
(* is as a whole. The invariant says how far into the stream and into the  *)
(* content each processor has come, as a number of steps of the reference, *)
(* and what it has put out until there.                                    *)
(***************************************************************************)
EXTENDS BodyStore, DataLemmas

-----------------------------------------------------------------------------
(* The format                                                              *)

\* A number of digits has a value.
LEMMA HexValue == ASSUME NEW bytes \in Seq(Byte) PROVE Hex(bytes) \in Nat
<1> DEFINE n == Len(bytes)
           I == {i \in 1..n : bytes[i] \notin Digits}
           digits == (IF I # {} THEN CHOOSE x \in I : \A y \in I : x <= y ELSE 0) - 1
           digit(i) == CASE bytes[i] = "1" -> 1 [] bytes[i] = "2" -> 2 [] OTHER -> 0
           Unfold(f) == [i \in 0..n |-> IF i = 0 THEN 0 ELSE 16 * f[i - 1] + digit(i)]
           value == CHOOSE f : f = Unfold(f)
           D == [i \in 0..n |-> [v \in Nat |-> 16 * v + digit(i)]]
<1>1. n \in Nat
  BY LenProperties
<1>2. digits \in -1..(n - 1)
  <2>1. CASE I = {}
    BY <1>1, <2>1
  <2>2. CASE I # {}
    <3>1. I \subseteq Nat
      BY <1>1
    <3> DEFINE m == CHOOSE x \in I : \A y \in I : x <= y
    <3>2. \E x \in I : \A y \in I : x <= y
      <4> HIDE DEF I
      <4> QED BY <2>2, <3>1, Smallest
    <3>3. m \in I
      <4> HIDE DEF I
      <4> QED BY <3>2
    <3>4. m \in 1..n /\ digits = m - 1
      BY <2>2, <3>3
    <3> HIDE DEF m, digits
    <3> QED BY <1>1, <3>4
  <2> QED BY <2>1, <2>2
<1>3. Hex(bytes) = IF digits = -1 THEN value[n] ELSE value[digits]
  BY DEF Hex, SelectInSeq, Min
<1> HIDE DEF digits
<1>4. PICK g \in [0..n -> Nat] : g = Steps(0, n, 0, D, g)
  <2>1. D \in [0..n -> [Nat -> Nat]]
    <3>1. \A i \in 0..n : digit(i) \in Nat
      OBVIOUS
    <3>2. \A i \in 0..n : \A v \in Nat : 16 * v + digit(i) \in Nat
      <4> HIDE DEF digit
      <4> QED BY <3>1
    <3> HIDE DEF digit
    <3> QED BY <3>2
  <2>2. 0 \in Int /\ n \in Int /\ 0 <= n /\ 0 \in Nat
    BY <1>1
  <2> HIDE DEF D
  <2>3. Solvable(0, n, Nat, 0, D)
    BY <2>1, <2>2, RecursionDefined
  <2> QED BY <2>3 DEF Solvable
<1> HIDE DEF digit
<1>5. g = Unfold(g)
  <2>1. \A i \in 0..n : i # 0 => D[i][g[i - 1]] = 16 * g[i - 1] + digit(i)
    <3> SUFFICES ASSUME NEW i \in 0..n, i # 0 PROVE D[i][g[i - 1]] = 16 * g[i - 1] + digit(i)
      OBVIOUS
    <3>1. g[i - 1] \in Nat
      <4>1. i - 1 \in 0..n
        BY <1>1
      <4> HIDE DEF n
      <4> QED BY <1>4, <4>1
    <3> QED BY <3>1
  <2> HIDE DEF D
  <2> QED BY <1>4, <2>1 DEF Steps
<1>6. value = Unfold(value)
  <2> HIDE DEF Unfold
  <2> QED BY <1>5
<1> HIDE DEF value
<1>7. 0..n \subseteq {i \in 0..n : value[i] \in Nat}
  <2> DEFINE Good == {i \in 0..n : value[i] \in Nat}
  <2>1. 0 \in Good
    BY <1>1, <1>6
  <2>2. ASSUME NEW i \in 0..(n - 1), i \in Good PROVE i + 1 \in Good
    <3>1. i + 1 \in 0..n /\ i + 1 # 0 /\ (i + 1) - 1 = i
      BY <1>1
    <3>2. value[i + 1] = 16 * value[i] + digit(i + 1)
      BY <1>6, <3>1
    <3>3. digit(i + 1) \in Nat
      BY DEF digit
    <3> QED BY <2>2, <3>1, <3>2, <3>3
  <2>3. 0 \in Int /\ n \in Int
    BY <1>1
  <2> HIDE DEF Good
  <2>4. 0..n \subseteq Good
    <3> HIDE DEF n
    <3> QED BY <2>1, <2>2, <2>3, IntervalInduction
  <2> QED BY <2>4 DEF Good
<1>8. n \in 0..n /\ (digits # -1 => digits \in 0..n)
  BY <1>1, <1>2
<1> HIDE DEF n
<1> QED BY <1>3, <1>7, <1>8

\* A search finds the first place, or there is none.
LEMMA FindFinds ==
    ASSUME NEW B, NEW bytes \in Seq(B), NEW from \in Nat, NEW str
    PROVE  \/ Find(bytes, from, str) = OOB /\ \A i \in from..Len(bytes) : ~Occurs(bytes, i, str)
           \/ /\ Find(bytes, from, str) \in from..Len(bytes)
              /\ Occurs(bytes, Find(bytes, from, str), str)
              /\ \A i \in from..(Find(bytes, from, str) - 1) : ~Occurs(bytes, i, str)
<1> DEFINE P == {i \in from..Len(bytes) : Occurs(bytes, i, str)}
           f == Find(bytes, from, str)
<1>1. Len(bytes) \in Nat /\ P \subseteq Nat
  BY LenProperties
<1>2. CASE P = {}
  BY <1>2 DEF Find
<1>3. CASE P # {}
  <2>1. f = CHOOSE i \in P : \A j \in P : i <= j
    BY <1>3 DEF Find
  <2> HIDE DEF f
  <2>2. f \in P /\ \A j \in P : f <= j
    <3> HIDE DEF P
    <3>1. \E i \in P : \A j \in P : i <= j
      BY <1>1, <1>3, Smallest
    <3> QED BY <2>1, <3>1
  <2>3. ASSUME NEW i \in from..(f - 1) PROVE ~Occurs(bytes, i, str)
    <3>1. i \in from..Len(bytes) /\ ~(f <= i)
      BY <1>1, <2>2
    <3> QED BY <2>2, <3>1
  <2> QED BY <2>2, <2>3 DEF f
<1> QED BY <1>2, <1>3

\* What stands in a slice stands in the sequence.
LEMMA OccursInSlice ==
    ASSUME NEW B, NEW s \in Seq(B), NEW q \in 0..Len(s), NEW p \in 0..q, NEW str \in Seq(B), NEW i \in Nat
    PROVE  Occurs(Slice(s, p, q), i, str) <=> p + i + Len(str) <= q /\ Occurs(s, p + i, str)
<1> DEFINE u == Slice(s, p, q)
           m == Len(str)
<1>1. u \in Seq(B) /\ Len(u) = q - p /\ Len(s) \in Nat /\ m \in Nat /\ p \in Nat /\ q \in Nat
  <2>1. u \in Seq(B) /\ Len(u) = q - p /\ Len(s) \in Nat
    BY SliceProperties
  <2> QED BY <2>1, LenProperties
<1>2. CASE i + m <= q - p
  <2>1. i + m \in 0..(q - p) /\ i \in 0..(i + m) /\ p + (i + m) = (p + i) + m
    BY <1>1, <1>2
  <2>2. Slice(u, i, i + m) = Slice(s, p + i, (p + i) + m)
    <3>1. Slice(u, i, i + m) = Slice(s, p + i, p + (i + m))
      BY <2>1, SliceOfSlice
    <3> QED BY <2>1, <3>1
  <2>3. (p + i) + m <= q /\ (p + i) + m <= Len(s)
    BY <1>1, <1>2
  <2> HIDE DEF u, m
  <2>4. Occurs(u, i, str) <=> p + i + m <= q /\ Occurs(s, p + i, str)
    BY <1>1, <1>2, <2>2, <2>3 DEF Occurs, m
  <2> QED BY <2>4 DEF u, m
<1>3. CASE ~(i + m <= q - p)
  <2>1. ~((p + i) + m <= q)
    BY <1>1, <1>3
  <2> HIDE DEF u
  <2>2. ~Occurs(u, i, str)
    BY <1>1, <1>3 DEF Occurs
  <2> QED BY <2>1, <2>2 DEF u
<1> QED BY <1>2, <1>3

\* The search in the beginning of what follows a place, and in all that follows.
LEMMA FindInSlice ==
    ASSUME NEW B, NEW s \in Seq(B), NEW q \in 0..Len(s), NEW p \in 0..q, NEW str \in Seq(B), str # <<>>
    PROVE  \/ /\ Find(Slice(s, p, q), 0, str) = OOB
              /\ \A i \in p..(q - Len(str)) : ~Occurs(s, i, str)
           \/ /\ Find(Slice(s, p, q), 0, str) \in Nat
              /\ p + Find(Slice(s, p, q), 0, str) + Len(str) <= q
              /\ Find(s, p, str) = p + Find(Slice(s, p, q), 0, str)
              /\ Occurs(s, Find(s, p, str), str)
<1> DEFINE u == Slice(s, p, q)
           m == Len(str)
           f == Find(u, 0, str)
           g == Find(s, p, str)
<1>1. /\ u \in Seq(B) /\ Len(u) = q - p /\ Len(s) \in Nat /\ m \in Nat /\ p \in Nat /\ q \in Nat
      /\ m > 0
  <2>1. u \in Seq(B) /\ Len(u) = q - p /\ Len(s) \in Nat
    BY SliceProperties
  <2>2. m \in Nat /\ m > 0
    BY EmptySeq
  <2> QED BY <2>1, <2>2
<1>2. \A i \in Nat : Occurs(u, i, str) <=> p + i + m <= q /\ Occurs(s, p + i, str)
  BY OccursInSlice
<1>3. \/ f = OOB /\ \A i \in 0..Len(u) : ~Occurs(u, i, str)
      \/ f \in 0..Len(u) /\ Occurs(u, f, str) /\ \A i \in 0..(f - 1) : ~Occurs(u, i, str)
  <2> HIDE DEF u
  <2> QED BY <1>1, FindFinds
<1>4. \/ g = OOB /\ \A i \in p..Len(s) : ~Occurs(s, i, str)
      \/ g \in p..Len(s) /\ Occurs(s, g, str) /\ \A i \in p..(g - 1) : ~Occurs(s, i, str)
  BY <1>1, FindFinds
<1> HIDE DEF u, f, g, m
<1>5. CASE f = OOB /\ \A i \in 0..Len(u) : ~Occurs(u, i, str)
  <2>1. ASSUME NEW i \in p..(q - m) PROVE ~Occurs(s, i, str)
    <3>1. i - p \in Nat /\ i - p \in 0..Len(u) /\ p + (i - p) = i /\ p + (i - p) + m <= q
      BY <1>1
    <3> QED BY <1>2, <1>5, <3>1
  <2> QED BY <1>5, <2>1 DEF m, f, u
<1>6. CASE f \in 0..Len(u) /\ Occurs(u, f, str) /\ \A i \in 0..(f - 1) : ~Occurs(u, i, str)
  <2>1. f \in Nat /\ p + f + m <= q /\ Occurs(s, p + f, str)
    BY <1>1, <1>2, <1>6
  <2>2. p + f \in p..Len(s)
    BY <1>1, <2>1
  <2>3. g \in p..Len(s) /\ Occurs(s, g, str) /\ \A i \in p..(g - 1) : ~Occurs(s, i, str)
    BY <1>4, <2>1, <2>2
  <2>4. ~(g < p + f)
    <3> SUFFICES ASSUME g < p + f PROVE FALSE
      OBVIOUS
    <3>1. g - p \in Nat /\ g - p \in 0..(f - 1) /\ p + (g - p) = g /\ p + (g - p) + m <= q
      BY <1>1, <2>1, <2>3
    <3> QED BY <1>2, <1>6, <2>3, <3>1
  <2>5. ~(p + f < g)
    <3> SUFFICES ASSUME p + f < g PROVE FALSE
      OBVIOUS
    <3>1. p + f \in p..(g - 1)
      BY <1>1, <2>1, <2>3
    <3> QED BY <2>1, <2>3, <3>1
  <2>6. g = p + f
    BY <1>1, <2>1, <2>3, <2>4, <2>5
  <2> QED BY <2>1, <2>3, <2>6 DEF m, f, g, u
<1> QED BY <1>3, <1>5, <1>6

\* A word occurs where the stream agrees with all of it.
LEMMA OccursAgrees ==
    ASSUME NEW B, NEW bytes \in Seq(B), NEW str \in Seq(B), NEW i \in Nat
    PROVE  Occurs(bytes, i, str) <=> i + Len(str) <= Len(bytes) /\ Agrees(bytes, i, str)
<1> DEFINE m == Len(str)
           t == Slice(bytes, i, i + m)
<1>1. m \in Nat /\ Len(bytes) \in Nat /\ DOMAIN str = 1..m /\ i + m \in Int
  BY LenProperties
<1>2. CASE i + m <= Len(bytes)
  <2>1. i + m \in 0..Len(bytes) /\ i \in 0..(i + m) /\ (i + m) - i = m
    BY <1>1, <1>2
  <2>2. t \in Seq(B) /\ Len(t) = m /\ \A k \in 1..m : t[k] = bytes[i + k]
    <3>1. /\ t \in Seq(B) /\ Len(t) = (i + m) - i
          /\ \A k \in 1..((i + m) - i) : t[k] = bytes[i + k]
      BY <2>1, SliceProperties
    <3> HIDE DEF t
    <3> QED BY <2>1, <3>1
  <2> HIDE DEF t
  <2>3. t = str <=> \A k \in 1..m : t[k] = str[k]
    BY <1>1, <2>2, SeqEqual
  <2>4. \A k \in 1..m : i + k <= Len(bytes)
    BY <1>1, <1>2
  <2>5. Agrees(bytes, i, str) <=> \A k \in 1..m : t[k] = str[k]
    BY <1>1, <2>2, <2>4 DEF Agrees
  <2> QED BY <1>2, <2>3, <2>5 DEF Occurs, t
<1>3. CASE ~(i + m <= Len(bytes))
  BY <1>3 DEF Occurs
<1> QED BY <1>2, <1>3

\* elysian_cbuf_strstr finds the first place where the string stands, whole.
LEMMA StrStrFinds ==
    ASSUME NEW B, NEW list \in Seq(Seq(B)), NEW str \in Seq(B), str # <<>>
    PROVE  StrStr(list, str) = Find(Bytes(list), 0, str)
<1> DEFINE bytes == Bytes(list)
           n == Len(bytes)
           m == Len(str)
           f == Find(bytes, 0, str)
           stops == {i \in 0..(n - 1) : Agrees(bytes, i, str)}
           first == CHOOSE i \in stops : \A j \in stops : i <= j
<1>1. bytes \in Seq(B) /\ n \in Nat /\ m \in Nat /\ m > 0
  <2>1. bytes \in Seq(B)
    BY FlattenAppend, EmptySeq DEF Bytes
  <2>2. m \in Nat /\ m > 0
    BY EmptySeq
  <2> QED BY <2>1, <2>2, LenProperties
<1>2. StrStr(list, str) = IF stops # {} /\ first + m <= n THEN first ELSE OOB
  BY DEF StrStr
<1> HIDE DEF bytes
<1>3. \A i \in Nat : Occurs(bytes, i, str) <=> i + m <= n /\ Agrees(bytes, i, str)
  BY <1>1, OccursAgrees
<1>4. \/ f = OOB /\ \A i \in 0..n : ~Occurs(bytes, i, str)
      \/ f \in 0..n /\ Occurs(bytes, f, str) /\ \A i \in 0..(f - 1) : ~Occurs(bytes, i, str)
  BY <1>1, FindFinds
<1>5. ASSUME stops # {}
      PROVE  first \in stops /\ \A j \in stops : first <= j
  <2>1. stops \subseteq Nat
    BY <1>1
  <2> HIDE DEF stops
  <2>2. \E i \in stops : \A j \in stops : i <= j
    BY <1>5, <2>1, Smallest
  <2> QED BY <2>2
<1> HIDE DEF first, f, n, m
<1>6. CASE stops # {} /\ first + m <= n
  <2>1. first \in Nat /\ Occurs(bytes, first, str) /\ first \in 0..n
    BY <1>1, <1>3, <1>5, <1>6
  <2>2. \A i \in 0..(first - 1) : ~Occurs(bytes, i, str)
    <3> SUFFICES ASSUME NEW i \in 0..(first - 1), Occurs(bytes, i, str) PROVE FALSE
      OBVIOUS
    <3>1. i \in stops /\ ~(first <= i)
      BY <1>1, <1>3, <2>1
    <3> QED BY <1>5, <1>6, <3>1
  <2>3. f = first
    <3>1. f \in 0..n /\ Occurs(bytes, f, str) /\ \A i \in 0..(f - 1) : ~Occurs(bytes, i, str)
      BY <1>4, <2>1
    <3>2. ~(first \in 0..(f - 1)) /\ ~(f \in 0..(first - 1))
      BY <2>1, <2>2, <3>1
    <3> QED BY <1>1, <2>1, <3>1, <3>2
  <2> QED BY <1>2, <1>6, <2>3 DEF f, bytes
<1>7. CASE ~(stops # {} /\ first + m <= n)
  <2>1. \A i \in 0..n : ~Occurs(bytes, i, str)
    <3> SUFFICES ASSUME NEW i \in 0..n, Occurs(bytes, i, str) PROVE FALSE
      OBVIOUS
    <3>1. i \in Nat /\ i + m <= n /\ i \in stops
      BY <1>1, <1>3
    <3>2. first \in Nat /\ first <= i
      BY <1>1, <1>5, <3>1
    <3> QED BY <1>1, <1>7, <3>1, <3>2
  <2>2. f = OOB
    BY <1>1, <1>4, <2>1
  <2> QED BY <1>2, <1>7, <2>2 DEF f, bytes
<1> QED BY <1>6, <1>7

\* Searching what was received and not taken, as a place in the stream.
LEMMA StrStrInSlice ==
    ASSUME NEW B, NEW s \in Seq(B), NEW q \in 0..Len(s), NEW p \in 0..q,
           NEW list \in Seq(Seq(B)), Bytes(list) = Slice(s, p, q),
           NEW str \in Seq(B), str # <<>>
    PROVE  \/ StrStr(list, str) = OOB /\ \A i \in p..(q - Len(str)) : ~Occurs(s, i, str)
           \/ /\ StrStr(list, str) \in Nat /\ StrStr(list, str) # OOB
              /\ p + StrStr(list, str) + Len(str) <= q
              /\ StrStr(list, str) + Len(str) <= Length(list)
              /\ Find(s, p, str) = p + StrStr(list, str)
              /\ Occurs(s, Find(s, p, str), str)
<1>1. StrStr(list, str) = Find(Slice(s, p, q), 0, str)
  BY StrStrFinds
<1>2. Length(list) = q - p /\ q \in Int /\ p \in Int /\ Len(str) \in Nat
  <2>1. Len(Slice(s, p, q)) = q - p /\ Len(str) \in Nat
    BY SliceProperties, LenProperties
  <2> QED BY <2>1 DEF Length
<1>3. \/ Find(Slice(s, p, q), 0, str) = OOB /\ \A i \in p..(q - Len(str)) : ~Occurs(s, i, str)
      \/ /\ Find(Slice(s, p, q), 0, str) \in Nat
         /\ p + Find(Slice(s, p, q), 0, str) + Len(str) <= q
         /\ Find(s, p, str) = p + Find(Slice(s, p, q), 0, str)
         /\ Occurs(s, Find(s, p, str), str)
  BY FindInSlice
<1> DEFINE f == Find(Slice(s, p, q), 0, str)
<1>4. f \in Nat /\ p + f + Len(str) <= q => f + Len(str) <= Length(list) /\ f # OOB
  <2> HIDE DEF f
  <2> QED BY <1>2 DEF OOB
<1> QED BY <1>1, <1>3, <1>4

-----------------------------------------------------------------------------
(* Chunks                                                                   *)

\* One sequence is the beginning of another.
Begins(a, b) == Len(a) <= Len(b) /\ a = Slice(b, 0, Len(a))

LEMMA BeginsProperties ==
    ASSUME NEW B, NEW a \in Seq(B), NEW b \in Seq(B), NEW c \in Seq(B)
    PROVE  /\ Begins(a, a) /\ Begins(a, Cat(a, b))
           /\ Begins(a, b) /\ Begins(b, c) => Begins(a, c)
<1>1. Begins(a, a)
  BY SliceEnds DEF Begins
<1>2. Begins(a, Cat(a, b))
  <2> DEFINE t == Cat(a, b)
  <2>1. Len(t) = Len(a) + Len(b) /\ Len(a) \in Nat /\ Len(b) \in Nat /\ Slice(t, 0, Len(a)) = a
    BY SliceOfCat
  <2> HIDE DEF t
  <2>2. Begins(a, t)
    BY <2>1 DEF Begins
  <2> QED BY <2>2 DEF t
<1>3. ASSUME Begins(a, b), Begins(b, c) PROVE Begins(a, c)
  <2>1. /\ Len(a) \in Nat /\ Len(b) \in Nat /\ Len(c) \in Nat
        /\ Len(a) <= Len(b) /\ Len(b) <= Len(c)
        /\ a = Slice(b, 0, Len(a)) /\ b = Slice(c, 0, Len(b))
    BY <1>3, LenProperties DEF Begins
  <2> DEFINE i == Len(a)
             j == Len(b)
  <2>2. /\ j \in 0..Len(c) /\ 0 \in 0..j /\ i \in 0..(j - 0) /\ 0 \in 0..i
        /\ 0 + 0 = 0 /\ 0 + i = i
    BY <2>1
  <2> HIDE DEF i, j
  <2>3. Slice(Slice(c, 0, j), 0, i) = Slice(c, 0 + 0, 0 + i)
    BY <2>2, SliceOfSlice
  <2>4. a = Slice(c, 0, i)
    BY <2>1, <2>2, <2>3 DEF i, j
  <2> QED BY <2>1, <2>4 DEF i, Begins
<1> QED BY <1>1, <1>2, <1>3

LEMMA BeginsSlice ==
    ASSUME NEW B, NEW a \in Seq(B), NEW s \in Seq(B),
           NEW k \in 0..Len(s), NEW j \in 0..k, NEW i \in 0..j
    PROVE  Begins(Cat(a, Slice(s, i, j)), Cat(a, Slice(s, i, k)))
<1> DEFINE x == Slice(s, i, j)
           y == Slice(s, j, k)
           z == Slice(s, i, k)
<1>1. x \in Seq(B) /\ y \in Seq(B) /\ Cat(x, y) = z
  <2>1. j \in 0..Len(s) /\ i \in 0..j /\ j \in 0..k
    BY LenProperties
  <2>2. x \in Seq(B) /\ y \in Seq(B)
    BY <2>1, SliceProperties
  <2>3. Cat(x, y) = z
    BY <2>1, SliceJoin
  <2> QED BY <2>2, <2>3
<1> HIDE DEF x, y, z
<1>2. Cat(a, x) \in Seq(B)
  BY <1>1, CatType
<1>3. Cat(Cat(a, x), y) = Cat(a, z)
  BY <1>1, CatAssociative
<1>4. Begins(Cat(a, x), Cat(Cat(a, x), y))
  BY <1>1, <1>2, BeginsProperties
<1> QED BY <1>3, <1>4 DEF x, z

\* Where a line ends, the data begins.
LEMMA LineFacts ==
    ASSUME NEW s \in Seq(Byte), NEW p \in Nat
    PROVE  /\ IsLine(s, p) =>
                /\ LineEndAt(s, p) \in Nat /\ p < LineEndAt(s, p) /\ LineEndAt(s, p) <= p + 8
                /\ DataAt(s, p) = LineEndAt(s, p) + 2
                /\ DataAt(s, p) \in Nat /\ p < DataAt(s, p) /\ DataAt(s, p) <= Len(s) /\ Len(s) \in Nat
                /\ SizeAt(s, p) \in Nat /\ DataEndAt(s, p) = DataAt(s, p) + SizeAt(s, p)
           /\ \A q \in p..Len(s) : Occurs(s, q, CRLF) => q + 2 <= Len(s)
<1>1. Len(CRLF) = 2 /\ Len(s) \in Nat
  BY LenProperties DEF CRLF
<1>2. \A q \in p..Len(s) : Occurs(s, q, CRLF) => q + 2 <= Len(s)
  BY <1>1 DEF Occurs
<1>3. ASSUME IsLine(s, p)
      PROVE  /\ LineEndAt(s, p) \in Nat /\ p < LineEndAt(s, p) /\ LineEndAt(s, p) <= p + 8
             /\ DataAt(s, p) = LineEndAt(s, p) + 2
             /\ DataAt(s, p) \in Nat /\ p < DataAt(s, p) /\ DataAt(s, p) <= Len(s)
             /\ SizeAt(s, p) \in Nat /\ DataEndAt(s, p) = DataAt(s, p) + SizeAt(s, p)
  <2> DEFINE e == LineEndAt(s, p)
  <2>1. e \in p..Len(s) /\ Occurs(s, e, CRLF) /\ e - p \in 1..8
    <3>1. \/ e = OOB /\ \A i \in p..Len(s) : ~Occurs(s, i, CRLF)
          \/ e \in p..Len(s) /\ Occurs(s, e, CRLF) /\ \A i \in p..(e - 1) : ~Occurs(s, i, CRLF)
      BY FindFinds DEF LineEndAt
    <3> HIDE DEF e
    <3> QED BY <1>3, <3>1 DEF IsLine, e
  <2> HIDE DEF e
  <2>2. e + 2 <= Len(s) /\ e \in Nat /\ p < e /\ e <= p + 8
    BY <1>1, <1>2, <2>1
  <2>3. SizeAt(s, p) \in Nat
    <3>1. e \in 0..Len(s) /\ p \in 0..e
      BY <1>1, <2>2
    <3>2. Slice(s, p, e) \in Seq(Byte)
      BY <3>1, SliceProperties
    <3> QED BY <3>2, HexValue DEF SizeAt, e
  <2> QED BY <2>2, <2>3 DEF e, DataAt, DataEndAt
<1> QED BY <1>1, <1>2, <1>3

\* A step of the reference goes from place to place of the stream.
LEMMA NextChunkType ==
    ASSUME NEW s \in Seq(Byte), NEW d \in ChunkStates
    PROVE  /\ NextChunk(s, d) \in ChunkStates
           /\ IsChunk(s, d.at) =>
                /\ DataEndAt(s, d.at) + 2 <= Len(s)
                /\ NextChunk(s, d).at = DataEndAt(s, d.at) + 2
                /\ Slice(s, DataAt(s, d.at), DataEndAt(s, d.at)) \in Seq(Byte)
                /\ NextChunk(s, d).content =
                      Cat(d.content, Slice(s, DataAt(s, d.at), DataEndAt(s, d.at)))
<1>1. d.at \in Nat /\ d.content \in Seq(Byte)
  BY DEF ChunkStates
<1>2. CASE ~IsChunk(s, d.at)
  BY <1>2 DEF NextChunk
<1>3. CASE IsChunk(s, d.at)
  <2> DEFINE a == DataAt(s, d.at)
             b == DataEndAt(s, d.at)
             t == Slice(s, a, b)
  <2>1. a \in Nat /\ b \in Nat /\ a <= b /\ b + 2 <= Len(s) /\ Len(s) \in Nat
    <3>1. Len(CRLF) = 2 /\ Occurs(s, b, CRLF) /\ IsLine(s, d.at)
      BY <1>3 DEF CRLF, IsChunk
    <3>2. b + 2 <= Len(s)
      <4> HIDE DEF b
      <4> QED BY <3>1 DEF Occurs
    <3>3. a \in Nat /\ SizeAt(s, d.at) \in Nat /\ b = a + SizeAt(s, d.at) /\ Len(s) \in Nat
      BY <1>1, <3>1, LineFacts
    <3> HIDE DEF a, b
    <3> QED BY <3>2, <3>3
  <2>2. t \in Seq(Byte)
    <3>1. b \in 0..Len(s) /\ a \in 0..b
      BY <2>1
    <3> HIDE DEF a, b
    <3> QED BY <3>1, SliceProperties
  <2>3. Cat(d.content, t) \in Seq(Byte)
    <3> HIDE DEF t
    <3> QED BY <1>1, <2>2, CatType
  <2>4. NextChunk(s, d) = [at |-> b + 2, content |-> Cat(d.content, t)]
    BY <1>3 DEF NextChunk, Cat
  <2> HIDE DEF a, b, t
  <2>5. NextChunk(s, d) \in ChunkStates
    BY <2>1, <2>3, <2>4 DEF ChunkStates
  <2> QED BY <2>1, <2>2, <2>4, <2>5 DEF a, b, t
<1> QED BY <1>2, <1>3

\* Reading chunk after chunk, and where it ends.
LEMMA ChunksUnfold ==
    ASSUME NEW s \in Seq(Byte)
    PROVE  /\ Len(s) \in Nat /\ Chunks(s) \in [0..Len(s) -> ChunkStates] /\ Chunks(s)[0] = NoChunks
           /\ \A k \in 0..(Len(s) - 1) : Chunks(s)[k + 1] = NextChunk(s, Chunks(s)[k])
           /\ \A k \in 0..Len(s) : ~IsChunk(s, Chunks(s)[k].at) => AllChunks(s) = Chunks(s)[k]
<1> DEFINE n == Len(s)
           step == [d \in ChunkStates |-> NextChunk(s, d)]
           f == Chunks(s)
<1>1. n \in Nat /\ NoChunks \in ChunkStates /\ step \in [ChunkStates -> ChunkStates]
  BY LenProperties, NextChunkType, EmptySeq DEF NoChunks, ChunkStates
<1>2. f = Iterated(step, NoChunks, n)
  BY DEF Chunks
<1> HIDE DEF f, step, n
<1>3. /\ f \in [0..n -> ChunkStates] /\ f[0] = NoChunks
      /\ \A k \in 0..(n - 1) : f[k + 1] = step[f[k]]
      /\ \A k \in 0..n : step[f[k]] = f[k] => f[n] = f[k]
  BY <1>1, <1>2, Iteration
<1>4. \A k \in 0..n : step[f[k]] = NextChunk(s, f[k])
  BY <1>3 DEF step
<1>5. \A k \in 0..(n - 1) : f[k + 1] = NextChunk(s, f[k])
  BY <1>1, <1>3, <1>4
<1>6. \A k \in 0..n : ~IsChunk(s, f[k].at) => f[n] = f[k]
  BY <1>3, <1>4 DEF NextChunk
<1> QED BY <1>1, <1>3, <1>5, <1>6 DEF f, n, AllChunks

\* The content read after some chunks begins the content, and so does a part of the next.
LEMMA ChunksBegin ==
    ASSUME NEW s \in Seq(Byte), NEW k \in 0..Len(s)
    PROVE  /\ ChunkedContent(s) \in Seq(Byte)
           /\ AllChunks(s) \in ChunkStates
           /\ Begins(Chunks(s)[k].content, AllChunks(s).content)
           /\ Begins(Chunks(s)[k].content, ChunkedContent(s))
           /\ ChunkedContent(s) = Cat(AllChunks(s).content, DataThere(s, AllChunks(s).at))
<1> DEFINE n == Len(s)
           f == Chunks(s)
           e == AllChunks(s)
           t == DataThere(s, e.at)
           S == Seq(Byte)
<1>1. /\ n \in Nat /\ f \in [0..n -> ChunkStates]
      /\ \A j \in 0..(n - 1) : f[j + 1] = NextChunk(s, f[j])
  BY ChunksUnfold
<1>2. \A j \in 0..n : f[j] \in ChunkStates /\ f[j].content \in S /\ f[j].at \in Nat
  <2> HIDE DEF f
  <2> QED BY <1>1 DEF ChunkStates
<1>3. e = f[n] /\ e \in ChunkStates /\ e.content \in S /\ e.at \in Nat
  BY <1>1, <1>2 DEF AllChunks
<1> HIDE DEF f, e
<1>4. Begins(f[k].content, f[n].content)
  <2> DEFINE Good == {j \in k..n : Begins(f[k].content, f[j].content)}
  <2>1. k \in Good
    BY <1>1, <1>2, BeginsProperties
  <2>2. ASSUME NEW j \in k..(n - 1), j \in Good PROVE j + 1 \in Good
    <3>1. j \in 0..n /\ j + 1 \in 0..n /\ j \in 0..(n - 1) /\ j + 1 \in k..n
      BY <1>1
    <3>2. f[j + 1] = NextChunk(s, f[j]) /\ f[j] \in ChunkStates
      BY <1>1, <1>2, <3>1
    <3>3. Begins(f[k].content, f[j].content)
      BY <2>2
    <3>4. Begins(f[j].content, f[j + 1].content)
      <4>1. CASE IsChunk(s, f[j].at)
        <5> DEFINE x == Slice(s, DataAt(s, f[j].at), DataEndAt(s, f[j].at))
        <5>1. x \in S /\ f[j + 1].content = Cat(f[j].content, x)
          BY <3>2, <4>1, NextChunkType
        <5> HIDE DEF x
        <5> QED BY <1>2, <3>1, <5>1, BeginsProperties
      <4>2. CASE ~IsChunk(s, f[j].at)
        <5>1. f[j + 1] = f[j]
          BY <3>2, <4>2 DEF NextChunk
        <5> QED BY <1>2, <3>1, <5>1, BeginsProperties
      <4> QED BY <4>1, <4>2
    <3>5. Begins(f[k].content, f[j + 1].content)
      BY <1>2, <3>1, <3>3, <3>4, BeginsProperties
    <3> QED BY <3>1, <3>5
  <2>3. k \in Int /\ n \in Int /\ n \in k..n
    BY <1>1
  <2>4. k..n \subseteq Good
    <3> HIDE DEF Good, n
    <3> QED BY <2>1, <2>2, <2>3, IntervalInduction
  <2> QED BY <2>3, <2>4
<1>5. t \in S
  <2>1. CASE ~IsLine(s, e.at)
    BY <2>1, EmptySeq DEF DataThere
  <2>2. CASE IsLine(s, e.at)
    <3> DEFINE a == DataAt(s, e.at)
               b == IF DataEndAt(s, e.at) <= Len(s) THEN DataEndAt(s, e.at) ELSE Len(s)
    <3>1. /\ a \in Nat /\ a <= Len(s) /\ SizeAt(s, e.at) \in Nat
          /\ DataEndAt(s, e.at) = a + SizeAt(s, e.at)
      BY <1>3, <2>2, LineFacts
    <3>2. b \in 0..Len(s) /\ a \in 0..b
      <4> HIDE DEF a
      <4> QED BY <1>1, <3>1
    <3>3. t = Slice(s, a, b)
      BY <2>2 DEF DataThere
    <3> HIDE DEF a, b
    <3>4. Slice(s, a, b) \in S
      BY <3>2, SliceProperties
    <3> QED BY <3>3, <3>4
  <2> QED BY <2>1, <2>2
<1>6. ChunkedContent(s) = Cat(e.content, t)
  BY DEF ChunkedContent, Cat, e
<1> HIDE DEF t
<1>7. ChunkedContent(s) \in S /\ Begins(e.content, ChunkedContent(s))
  <2> DEFINE a == e.content
  <2>1. a \in S /\ ChunkedContent(s) = Cat(a, t)
    BY <1>3, <1>6
  <2> HIDE DEF a
  <2>2. Cat(a, t) \in Seq(Byte) /\ Begins(a, Cat(a, t))
    BY <1>5, <2>1, CatType, BeginsProperties
  <2> QED BY <2>1, <2>2 DEF a
<1>8. Begins(f[k].content, ChunkedContent(s))
  BY <1>2, <1>3, <1>4, <1>7, BeginsProperties
<1> QED BY <1>3, <1>4, <1>6, <1>7, <1>8 DEF f, e, t

LEMMA ChunkBegins ==
    ASSUME NEW s \in Seq(Byte), NEW k \in 0..Len(s), k <= Chunks(s)[k].at,
           IsLine(s, Chunks(s)[k].at), NEW t \in Nat,
           DataAt(s, Chunks(s)[k].at) <= t, t <= DataEndAt(s, Chunks(s)[k].at), t <= Len(s)
    PROVE  Begins(Cat(Chunks(s)[k].content, Slice(s, DataAt(s, Chunks(s)[k].at), t)), ChunkedContent(s))
<1> DEFINE n == Len(s)
           d == Chunks(s)[k]
           a == DataAt(s, d.at)
           b == DataEndAt(s, d.at)
           C == ChunkedContent(s)
           S == Seq(Byte)
<1>1. /\ n \in Nat /\ d \in ChunkStates /\ d.content \in S /\ d.at \in Nat
      /\ k \in 0..(n - 1) => Chunks(s)[k + 1] = NextChunk(s, d)
      /\ ~IsChunk(s, d.at) => AllChunks(s) = d
  <2>1. n \in Nat /\ d \in ChunkStates
    BY ChunksUnfold
  <2>2. /\ k \in 0..(n - 1) => Chunks(s)[k + 1] = NextChunk(s, d)
        /\ ~IsChunk(s, d.at) => AllChunks(s) = d
    BY ChunksUnfold
  <2> HIDE DEF d
  <2> QED BY <2>1, <2>2 DEF ChunkStates
<1>2. a \in Nat /\ d.at < a /\ SizeAt(s, d.at) \in Nat /\ b = a + SizeAt(s, d.at)
  BY <1>1, LineFacts
<1>3. a <= t /\ t <= b /\ t <= n /\ k <= d.at /\ IsLine(s, d.at)
  OBVIOUS
<1> DEFINE x == Cat(d.content, Slice(s, a, t))
<1>4. C \in S
  BY ChunksBegin
<1>5. x \in S
  <2>1. t \in 0..Len(s) /\ a \in 0..t
    BY <1>1, <1>2, <1>3
  <2> HIDE DEF a, d
  <2>2. Slice(s, a, t) \in S
    BY <2>1, SliceProperties
  <2> QED BY <1>1, <2>2, CatType
<1>6. CASE IsChunk(s, d.at)
  <2>1. b + 2 <= n /\ NextChunk(s, d).content = Cat(d.content, Slice(s, a, b))
        /\ NextChunk(s, d).content \in S
    BY <1>1, <1>6, NextChunkType DEF ChunkStates
  <2>2. k \in 0..(n - 1) /\ k + 1 \in 0..n /\ b \in 0..n /\ t \in 0..b /\ a \in 0..t
    <3> HIDE DEF a, b, d, n
    <3> QED BY <1>1, <1>2, <1>3, <2>1
  <2>3. Chunks(s)[k + 1] = NextChunk(s, d) /\ Begins(Chunks(s)[k + 1].content, C)
    BY <1>1, <2>2, ChunksBegin
  <2>4. Begins(x, Cat(d.content, Slice(s, a, b)))
    <3> HIDE DEF a, b, d
    <3> QED BY <1>1, <2>2, BeginsSlice
  <2> DEFINE y == NextChunk(s, d).content
  <2>5. y \in S /\ Begins(x, y) /\ Begins(y, C)
    BY <2>1, <2>3, <2>4
  <2> HIDE DEF x, y, C
  <2>6. Begins(x, C)
    BY <1>4, <1>5, <2>5, BeginsProperties
  <2> QED BY <2>6 DEF x, C
<1>7. CASE ~IsChunk(s, d.at)
  <2> DEFINE c == IF b <= n THEN b ELSE n
  <2>1. C = Cat(d.content, Slice(s, a, c))
    <3>1. C = Cat(AllChunks(s).content, DataThere(s, AllChunks(s).at)) /\ AllChunks(s) = d
      BY <1>1, <1>7, ChunksBegin
    <3>2. DataThere(s, d.at) = Slice(s, a, c)
      BY <1>3 DEF DataThere
    <3> QED BY <3>1, <3>2
  <2>2. c \in 0..n /\ t \in 0..c /\ a \in 0..t
    <3> HIDE DEF a, b, d, n
    <3> QED BY <1>1, <1>2, <1>3
  <2> HIDE DEF c, a, d, C
  <2>3. Begins(x, Cat(d.content, Slice(s, a, c)))
    BY <1>1, <2>2, BeginsSlice
  <2> QED BY <2>1, <2>3 DEF C, d, a
<1> QED BY <1>6, <1>7

\* At the last chunk, and where no chunk can be read.
LEMMA ChunksEnd ==
    ASSUME NEW s \in Seq(Byte), NEW k \in 0..Len(s), ~IsChunk(s, Chunks(s)[k].at)
    PROVE  /\ IsLast(s, Chunks(s)[k].at) =>
                /\ ChunkedWhole(s) /\ ChunkedContent(s) = Chunks(s)[k].content
                /\ ChunkedRest(s) = Slice(s, DataAt(s, Chunks(s)[k].at), Len(s))
           /\ ~IsLast(s, Chunks(s)[k].at) => ~ChunkedWhole(s)
<1> DEFINE d == Chunks(s)[k]
<1>1. d \in ChunkStates /\ AllChunks(s) = d
  BY ChunksUnfold
<1>2. d.at \in Nat /\ d.content \in Seq(Byte)
  <2> HIDE DEF d
  <2> QED BY <1>1 DEF ChunkStates
<1>3. ASSUME IsLast(s, d.at) PROVE ChunkedContent(s) = d.content
  <2> DEFINE a == DataAt(s, d.at)
  <2>1. a \in Nat /\ a <= Len(s) /\ DataEndAt(s, d.at) = a + 0 /\ IsLine(s, d.at)
    BY <1>2, <1>3, LineFacts DEF IsLast
  <2>2. DataThere(s, d.at) = Slice(s, a, a)
    BY <2>1 DEF DataThere
  <2>3. Slice(s, a, a) = <<>>
    <3>1. a \in 0..Len(s)
      BY <2>1, LenProperties
    <3> HIDE DEF a
    <3> QED BY <3>1, SliceEnds
  <2>4. ChunkedContent(s) = Cat(d.content, <<>>)
    BY <1>1, <2>2, <2>3, ChunksBegin
  <2> QED BY <1>2, <2>4, CatType
<1> QED BY <1>1, <1>3 DEF ChunkedWhole, ChunkedRest

-----------------------------------------------------------------------------
(* Parts                                                                    *)

LEMMA Marks ==
    /\ CRLF \in Seq(Byte) /\ CRLF # <<>> /\ Len(CRLF) = 2
    /\ Dashes \in Seq(Byte) /\ Dashes # <<>> /\ Len(Dashes) = 2
    /\ Boundary \in Seq(Byte) /\ Boundary # <<>> /\ Len(Boundary) = 2
    /\ CRLF \o CRLF \in Seq(Byte) /\ CRLF \o CRLF # <<>> /\ Len(CRLF \o CRLF) = 4
    /\ Len(CRLF \o Dashes) = 4
    /\ CRLF[1] = "CR" /\ Dashes[1] = "-"
<1>1. /\ CRLF \in Seq(Byte) /\ CRLF # <<>> /\ Len(CRLF) = 2 /\ CRLF[1] = "CR"
      /\ Dashes \in Seq(Byte) /\ Dashes # <<>> /\ Len(Dashes) = 2 /\ Dashes[1] = "-"
      /\ Boundary \in Seq(Byte) /\ Boundary # <<>> /\ Len(Boundary) = 2
  BY ByteAssumption DEF CRLF, Dashes, Boundary
<1>2. /\ CRLF \o CRLF \in Seq(Byte) /\ Len(CRLF \o CRLF) = 4
      /\ Len(CRLF \o Dashes) = 4
  <2> DEFINE S == Seq(Byte)
  <2>1. CRLF \in S /\ Dashes \in S /\ Len(CRLF) = 2 /\ Len(Dashes) = 2
    BY <1>1
  <2>2. \A x, y \in S : x \o y \in S /\ Len(x \o y) = Len(x) + Len(y)
    BY ConcatProperties
  <2> HIDE DEF S
  <2>3. CRLF \o CRLF \in S /\ Len(CRLF \o CRLF) = 2 + 2 /\ Len(CRLF \o Dashes) = 2 + 2
    BY <2>1, <2>2
  <2> QED BY <2>3 DEF S
<1> DEFINE t == CRLF \o CRLF
<1>3. t # <<>>
  <2>1. t \in Seq(Byte) /\ Len(t) = 4
    BY <1>2
  <2> HIDE DEF t
  <2> QED BY <2>1, EmptySeq
<1> QED BY <1>1, <1>2, <1>3

\* The latest part is changed in place.
LEMMA LatestChanged ==
    ASSUME NEW S, NEW s \in Seq(S), NEW v, s # <<>> => v \in S
    PROVE  [s EXCEPT ![1] = v] \in Seq(S) /\ DOMAIN [s EXCEPT ![1] = v] = DOMAIN s
<1>1. CASE s = <<>>
  <2> DEFINE t == [s EXCEPT ![1] = v]
  <2>1. t = [i \in 1..0 |-> v] /\ DOMAIN s = {}
    BY <1>1
  <2>2. t \in [1..0 -> S] /\ 0 \in Nat
    BY <2>1
  <2>3. t \in Seq(S)
    <3> HIDE DEF t
    <3> QED BY <2>2, SeqDef
  <2> QED BY <2>1, <2>3
<1>2. CASE s # <<>>
  <2>1. 1 \in 1..Len(s) /\ v \in S
    BY <1>2, EmptySeq
  <2> QED BY <2>1, ExceptSeq
<1> QED BY <1>1, <1>2

\* The list of parts stays one when the latest part ends.
LEMMA EndedType ==
    ASSUME NEW params \in Seq(Param), NEW end \in Int, NEW i \in Nat
    PROVE  /\ EndedAt(params, end) \in Seq(Param)
           /\ [params EXCEPT ![1].data_index = i] \in Seq(Param)
           /\ <<[data_index |-> 0, data_size |-> Unset]>> \o params \in Seq(Param)
<1>1. params # <<>> => params[1] \in Param
  BY EmptySeq, ElementOfSeq
<1>2. EndedAt(params, end) \in Seq(Param)
  <2> DEFINE v == [params[1] EXCEPT !.data_size = end - params[1].data_index]
  <2>1. params # <<>> => v \in Param
    BY <1>1 DEF Param
  <2>2. EndedAt(params, end) = IF params = <<>> THEN params ELSE [params EXCEPT ![1] = v]
    BY DEF EndedAt
  <2> HIDE DEF v
  <2> QED BY <2>1, <2>2, LatestChanged
<1>3. [params EXCEPT ![1].data_index = i] \in Seq(Param)
  <2> DEFINE v == [params[1] EXCEPT !.data_index = i]
  <2>1. params # <<>> => v \in Param
    BY <1>1 DEF Param
  <2>2. [params EXCEPT ![1].data_index = i] = [params EXCEPT ![1] = v]
    OBVIOUS
  <2> HIDE DEF v
  <2>3. [params EXCEPT ![1] = v] \in Seq(Param)
    BY <2>1, LatestChanged
  <2> QED BY <2>2, <2>3
<1>4. <<[data_index |-> 0, data_size |-> Unset]>> \o params \in Seq(Param)
  <2> DEFINE p == <<[data_index |-> 0, data_size |-> Unset]>>
  <2>1. p \in Seq(Param)
    <3>1. [data_index |-> 0, data_size |-> Unset] \in Param
      BY DEF Param, Unset
    <3> QED BY <3>1
  <2> HIDE DEF p
  <2>2. p \o params \in Seq(Param)
    BY <2>1, ConcatProperties
  <2> QED BY <2>2 DEF p
<1> QED BY <1>2, <1>3, <1>4

\* A step goes on, inside the content, or changes nothing.
LEMMA NextPartType ==
    ASSUME NEW c \in Seq(Byte), NEW d \in PartStates
    PROVE  /\ NextPart(c, d) \in PartStates
           /\ \/ NextPart(c, d) = d
              \/ d.at + 2 <= NextPart(c, d).at /\ NextPart(c, d).at <= Len(c)
<1> DEFINE e == NextPart(c, d)
<1>1. d.state \in 0..3 /\ d.at \in Nat /\ d.params \in Seq(Param) /\ Len(c) \in Nat
  BY LenProperties DEF PartStates
<1>2. CASE d.state = 0
  <2> DEFINE i == Find(c, d.at, Boundary)
  <2>1. e = IF i = OOB THEN d
            ELSE [state |-> 1, at |-> i + 2, params |-> EndedAt(d.params, i - 4)]
    BY <1>2, Marks DEF NextPart, AfterData
  <2>2. \/ i = OOB
        \/ i \in d.at..Len(c) /\ Occurs(c, i, Boundary)
    BY <1>1, FindFinds
  <2> HIDE DEF i, e
  <2>3. CASE i = OOB
    BY <2>1, <2>3 DEF e
  <2>4. CASE i # OOB
    <3>1. i \in d.at..Len(c) /\ i + 2 <= Len(c) /\ i \in Nat
      BY <1>1, <2>2, <2>4, Marks DEF Occurs
    <3>2. EndedAt(d.params, i - 4) \in Seq(Param)
      <4>1. i - 4 \in Int
        BY <3>1
      <4> QED BY <1>1, <3>1, <4>1, EndedType
    <3>3. e \in PartStates /\ d.at + 2 <= e.at /\ e.at <= Len(c)
      BY <1>1, <2>1, <2>4, <3>1, <3>2 DEF PartStates
    <3> QED BY <3>3 DEF e
  <2> QED BY <2>3, <2>4
<1>3. CASE d.state = 1
  <2>1. e = IF Occurs(c, d.at, Dashes) THEN [d EXCEPT !.state = 3, !.at = @ + 2]
            ELSE IF Occurs(c, d.at, CRLF)
            THEN [state |-> 2, at |-> d.at + 2, params |-> <<[data_index |-> 0, data_size |-> Unset]>> \o d.params]
            ELSE d
    BY <1>3 DEF NextPart, AfterBoundary
  <2>2. Occurs(c, d.at, Dashes) \/ Occurs(c, d.at, CRLF) => d.at + 2 <= Len(c)
    BY Marks DEF Occurs
  <2>3. <<[data_index |-> 0, data_size |-> Unset]>> \o d.params \in Seq(Param)
    <3>1. 0 \in Nat /\ 0 \in Int
      OBVIOUS
    <3> QED BY <1>1, <3>1, EndedType
  <2> DEFINE q == <<[data_index |-> 0, data_size |-> Unset]>> \o d.params
  <2> HIDE DEF e, q
  <2>4. e = IF Occurs(c, d.at, Dashes) THEN [d EXCEPT !.state = 3, !.at = @ + 2]
            ELSE IF Occurs(c, d.at, CRLF) THEN [state |-> 2, at |-> d.at + 2, params |-> q]
            ELSE d
    BY <2>1 DEF q
  <2>5. q \in Seq(Param)
    BY <2>3 DEF q
  <2>6. CASE Occurs(c, d.at, Dashes)
    <3>1. e = [d EXCEPT !.state = 3, !.at = @ + 2]
      BY <2>4, <2>6
    <3>2. e = [state |-> 3, at |-> d.at + 2, params |-> d.params]
      <4>1. d \in PartStates
        OBVIOUS
      <4> QED BY <3>1, <4>1 DEF PartStates
    <3>3. e \in PartStates /\ e.at = d.at + 2
      BY <1>1, <3>2 DEF PartStates
    <3> QED BY <1>1, <2>2, <2>6, <3>3 DEF e
  <2>7. CASE ~Occurs(c, d.at, Dashes) /\ Occurs(c, d.at, CRLF)
    <3>1. e \in PartStates /\ e.at = d.at + 2
      BY <1>1, <2>4, <2>5, <2>7 DEF PartStates
    <3> QED BY <1>1, <2>2, <2>7, <3>1 DEF e
  <2>8. CASE ~Occurs(c, d.at, Dashes) /\ ~Occurs(c, d.at, CRLF)
    BY <2>4, <2>8 DEF e
  <2> QED BY <2>6, <2>7, <2>8
<1>4. CASE d.state = 2
  <2> DEFINE h == Find(c, d.at, CRLF \o CRLF)
             q == [d.params EXCEPT ![1].data_index = h + 4]
  <2>1. \/ e = d
        \/ h # OOB /\ e = [state |-> 0, at |-> h + 4, params |-> q]
    BY <1>4 DEF NextPart, AfterHeader
  <2>2. \/ h = OOB
        \/ h \in d.at..Len(c) /\ Occurs(c, h, CRLF \o CRLF)
    BY <1>1, FindFinds
  <2>3. CASE e = d
    BY <2>3
  <2>4. CASE h # OOB /\ e = [state |-> 0, at |-> h + 4, params |-> q]
    <3> HIDE DEF h, q
    <3>1. h + 4 <= Len(c) /\ h \in Nat /\ d.at <= h
      BY <1>1, <2>2, <2>4, Marks DEF Occurs
    <3>2. q \in Seq(Param)
      <4>1. h + 4 \in Nat /\ 0 \in Int
        BY <3>1
      <4> QED BY <1>1, <4>1, EndedType DEF q
    <3>3. e \in PartStates /\ d.at + 2 <= e.at /\ e.at <= Len(c)
      BY <1>1, <2>4, <3>1, <3>2 DEF PartStates
    <3> QED BY <3>3
  <2> QED BY <2>1, <2>3, <2>4
<1>5. CASE d.state = 3
  BY <1>5 DEF NextPart
<1> QED BY <1>1, <1>2, <1>3, <1>4, <1>5

\* Taking the content apart, and where it ends.
LEMMA PartsUnfold ==
    ASSUME NEW c \in Seq(Byte)
    PROVE  /\ Len(c) \in Nat /\ Parsed(c) \in [0..Len(c) -> PartStates] /\ Parsed(c)[0] = NoParts
           /\ \A k \in 0..(Len(c) - 1) : Parsed(c)[k + 1] = NextPart(c, Parsed(c)[k])
           /\ \A k \in 0..Len(c) : NextPart(c, Parsed(c)[k]) = Parsed(c)[k] => AllParts(c) = Parsed(c)[k]
<1> DEFINE n == Len(c)
           step == [d \in PartStates |-> NextPart(c, d)]
           f == Parsed(c)
<1>1. n \in Nat /\ NoParts \in PartStates /\ step \in [PartStates -> PartStates]
  BY LenProperties, NextPartType, EmptySeq DEF NoParts, PartStates
<1>2. f = Iterated(step, NoParts, n)
  BY DEF Parsed
<1> HIDE DEF f, step, n
<1>3. /\ f \in [0..n -> PartStates] /\ f[0] = NoParts
      /\ \A k \in 0..(n - 1) : f[k + 1] = step[f[k]]
      /\ \A k \in 0..n : step[f[k]] = f[k] => f[n] = f[k]
  BY <1>1, <1>2, Iteration
<1>4. \A k \in 0..n : step[f[k]] = NextPart(c, f[k])
  BY <1>3 DEF step
<1>5. \A k \in 0..(n - 1) : f[k + 1] = NextPart(c, f[k])
  BY <1>1, <1>3, <1>4
<1>6. \A k \in 0..n : NextPart(c, f[k]) = f[k] => f[n] = f[k]
  BY <1>3, <1>4
<1> QED BY <1>1, <1>3, <1>5, <1>6 DEF f, n, AllParts

\* From one state to the next.
LEMMA PartsStep ==
    ASSUME NEW c \in Seq(Byte), NEW k \in 0..Len(c), k <= Parsed(c)[k].at,
           NextPart(c, Parsed(c)[k]) # Parsed(c)[k]
    PROVE  /\ k + 1 \in 0..Len(c) /\ Parsed(c)[k + 1] = NextPart(c, Parsed(c)[k])
           /\ k + 1 <= Parsed(c)[k + 1].at
<1> DEFINE d == Parsed(c)[k]
           e == NextPart(c, d)
<1>1. Len(c) \in Nat /\ d \in PartStates
  BY PartsUnfold
<1>2. d.at \in Nat /\ e \in PartStates /\ d.at + 2 <= e.at /\ e.at <= Len(c) /\ e.at \in Nat
  <2>1. e \in PartStates /\ d.at + 2 <= e.at /\ e.at <= Len(c)
    BY <1>1, NextPartType
  <2> HIDE DEF d, e
  <2> QED BY <1>1, <2>1 DEF PartStates
<1>3. k \in 0..(Len(c) - 1) /\ k + 1 \in 0..Len(c) /\ k + 1 <= e.at
  <2>1. k <= d.at
    OBVIOUS
  <2> HIDE DEF d, e
  <2> QED BY <1>1, <1>2, <2>1
<1>4. Parsed(c)[k + 1] = e
  BY <1>3, PartsUnfold
<1> QED BY <1>3, <1>4

-----------------------------------------------------------------------------
(* The invariant                                                            *)

Cbuf == Seq(Seq(Byte))
\* How much of the stream the first processor took, and what it made of it: the
\* bytes in the file, those that wait to be written, those that wait for the second.
Taken == arrived - Length(rcv)
Written == Cat(file.content, Unwritten)
Emitted == Cat(Written, Bytes(mp_list))
Final(r, i) == i.state = (IF r.framing = "raw" THEN 1 ELSE 4)
Complete == Final(req, isp) /\ (req.multipart => mp.state = 4)

IspType == [state : {0, 1, 2, 4}, index : Nat, size : Nat]
MpType == [state : 0..5, index : Nat, params : Seq(Param)]
Lists3 ==
    /\ rcv \in Cbuf /\ mp_list \in Cbuf /\ store \in Cbuf
    /\ NoneEmpty(rcv) /\ NoneEmpty(mp_list) /\ NoneEmpty(store)
    /\ offset \in Nat /\ (store = <<>> => offset = 0) /\ (store # <<>> => offset < Len(store[1]))
    /\ file \in [mode : {"none", "write", "closed", "read"}, content : Seq(Byte)]
Scalars ==
    /\ burst \in 0..MaxBurst /\ failures \in 0..MaxFailures
    /\ isp \in IspType /\ mp \in MpType
    /\ size \in Nat \cup {Unknown}
    /\ poll \in BOOLEAN /\ eos \in BOOLEAN /\ poll_request \in BOOLEAN
    /\ pc \in {"idle", "isp", "multipart", "store"}
    /\ verdict \in {"receiving", "stored", "refused", "failed"}

\* What was received and not taken is what follows in the stream.
Received ==
    /\ req \in Requests /\ arrived \in 0..Len(req.stream) /\ Length(rcv) <= arrived
    /\ Bytes(rcv) = Slice(req.stream, Taken, arrived)
    /\ isp.index <= Taken

\* The first processor: i is its state, it took so many bytes and put out these.
RawAt(r, i, taken, out) ==
    /\ i.state \in {0, 1} /\ taken = i.index /\ i.index <= r.body_len
    /\ i.state = 1 => i.index = r.body_len
    /\ out = Slice(r.stream, 0, i.index)
ChunkAt(s, d, i, taken, out) ==
    LET data == DataAt(s, d.at)
    IN \/ i.state = 0 /\ taken = d.at /\ out = d.content
       \/ /\ i.state = 1 /\ IsLine(s, d.at) /\ i.size = SizeAt(s, d.at) /\ i.index < i.size
          /\ taken = data + i.index /\ out = Cat(d.content, Slice(s, data, taken))
       \/ /\ i.state = 2 /\ IsLine(s, d.at) /\ 0 < SizeAt(s, d.at)
          /\ taken = DataEndAt(s, d.at) /\ out = Cat(d.content, Slice(s, data, taken))
       \/ i.state = 4 /\ IsLast(s, d.at) /\ taken = data /\ out = d.content
ChunksAt(s, i, taken, out) ==
    \E k \in 0..Len(s) : k <= Chunks(s)[k].at /\ ChunkAt(s, Chunks(s)[k], i, taken, out)
FirstAt(r, i, taken, out) == IF r.framing = "raw" THEN RawAt(r, i, taken, out)
                                                  ELSE ChunksAt(r.stream, i, taken, out)
FirstPlace == FirstAt(req, isp, Taken, Emitted)

\* The second: m is its state, and it holds bytes back or not.
PartAt(c, d, m, held) ==
    /\ m.params = d.params
    /\ \/ /\ m.state = 0 /\ d.state = 0 /\ d.at <= m.index
          /\ \A i \in d.at..(m.index - 1) : ~Occurs(c, i, Boundary)
          /\ d.at < m.index => held
       \/ m.state \in {1, 2} /\ d.state = m.state /\ m.index = d.at
       \/ m.state = 3 /\ d.state = 3
       \/ m.state = 4 /\ (d.state = 3 \/ (d.state = 0 /\ d.at = Len(c)))
PartsAt(c, m, held) ==
    \E k \in 0..Len(c) : k <= Parsed(c)[k].at /\ PartAt(c, Parsed(c)[k], m, held)
SecondPlace ==
    IF req.multipart
    THEN /\ mp.index <= Len(Written) /\ (mp.state \in {0, 1, 2} => mp.index = Len(Written))
         /\ mp.state = 4 => Final(req, isp) /\ mp_list = <<>>
         /\ pc = "multipart" /\ eos => Final(req, isp)
         /\ mp.state = 5 => verdict = "refused"
         /\ mp.state # 5 => PartsAt(ContentOf(req), mp, mp_list # <<>>)
    ELSE mp_list = <<>> /\ mp.state = 0 /\ mp.index = 0 /\ pc # "multipart"

\* The store.
Sizes ==
    /\ size # Unknown => Complete /\ size >= Length(store) - offset
    /\ file.mode \in {"closed", "read"} => Complete /\ store = <<>>
    /\ verdict = "stored" <=> file.mode = "read"
    /\ verdict # "receiving" => pc = "idle"
    /\ verdict = "refused" => ~req.body.whole

IInv == Lists3 /\ Scalars /\ Received /\ FirstPlace /\ SecondPlace /\ Sizes

\* What is known of every request.
LEMMA RequestFacts ==
    ASSUME NEW r \in Requests
    PROVE  /\ r.framing \in {"raw", "chunked"} /\ r.multipart \in BOOLEAN /\ r.medium \in {"ram", "ext"}
           /\ r.stream \in Seq(Byte) /\ Len(r.stream) \in Nat /\ r.body_len \in Nat
           /\ r.body.content = ContentOf(r) /\ r.body.disk = (r.medium = "ext")
           /\ r.body.whole <=> SentWhole(r) /\ (r.multipart => IsMultipart(ContentOf(r)))
           /\ r.body.whole => r.next \in Seq(Byte) /\ IsSuffix(r.next, RestOf(r))
           /\ r.body.whole /\ r.multipart => r.parts = PartsOf(ContentOf(r))
<1>1. Len(r.stream) \in Nat
  BY RequestsAssumption, LenProperties
<1>2. r.body = [content |-> ContentOf(r), disk |-> r.medium = "ext",
                whole |-> SentWhole(r) /\ (r.multipart => IsMultipart(ContentOf(r)))]
  BY RequestsAssumption
<1>3. /\ r.body.content = ContentOf(r) /\ r.body.disk = (r.medium = "ext")
      /\ r.body.whole = (SentWhole(r) /\ (r.multipart => IsMultipart(ContentOf(r))))
  BY <1>2
<1>4. /\ r.framing \in {"raw", "chunked"} /\ r.multipart \in BOOLEAN /\ r.medium \in {"ram", "ext"}
      /\ r.stream \in Seq(Byte) /\ r.body_len \in Nat
      /\ r.body.whole => r.next \in Seq(Byte) /\ IsSuffix(r.next, RestOf(r))
      /\ r.body.whole /\ r.multipart => r.parts = PartsOf(ContentOf(r))
  BY RequestsAssumption
<1> QED BY <1>1, <1>3, <1>4

-----------------------------------------------------------------------------
(* The first processor, step by step                                        *)

\* What it put out begins the content, and is the content when it is done.
LEMMA RawBegins ==
    ASSUME NEW r \in Requests, r.framing = "raw", NEW i \in IspType,
           NEW taken \in 0..Len(r.stream), NEW out, RawAt(r, i, taken, out)
    PROVE  /\ out \in Seq(Byte) /\ ContentOf(r) \in Seq(Byte) /\ Begins(out, ContentOf(r))
           /\ i.state = 1 => /\ out = ContentOf(r) /\ SentWhole(r)
                             /\ RestOf(r) = Slice(r.stream, taken, Len(r.stream))
<1> DEFINE s == r.stream
           n == Len(s)
           m == IF r.body_len <= n THEN r.body_len ELSE n
<1>1. s \in Seq(Byte) /\ n \in Nat /\ r.body_len \in Nat
  BY RequestFacts
<1>2. taken = i.index /\ taken <= r.body_len /\ out = Slice(s, 0, taken)
      /\ (i.state = 1 => taken = r.body_len) /\ taken \in 0..n
  BY DEF RawAt
<1>3. ContentOf(r) = Slice(s, 0, m)
  BY DEF ContentOf
<1>4. m \in 0..n /\ taken \in 0..m /\ 0 \in 0..taken /\ 0 \in 0..m /\ 0 + 0 = 0 /\ 0 + taken = taken
      /\ taken \in 0..(m - 0)
  <2> HIDE DEF n, s
  <2> QED BY <1>1, <1>2
<1> HIDE DEF m, n, s
<1>5. out \in Seq(Byte) /\ ContentOf(r) \in Seq(Byte) /\ Len(out) = taken /\ Len(ContentOf(r)) = m
  <2>1. out \in Seq(Byte) /\ Len(out) = taken - 0
    BY <1>1, <1>2, <1>4, SliceProperties DEF n
  <2>2. ContentOf(r) \in Seq(Byte) /\ Len(ContentOf(r)) = m - 0
    BY <1>1, <1>3, <1>4, SliceProperties DEF n
  <2> QED BY <1>4, <2>1, <2>2
<1>6. Slice(Slice(s, 0, m), 0, taken) = Slice(s, 0 + 0, 0 + taken)
  BY <1>1, <1>4, SliceOfSlice DEF n
<1>7. Begins(out, ContentOf(r))
  BY <1>2, <1>3, <1>4, <1>5, <1>6 DEF Begins
<1>8. ASSUME i.state = 1
      PROVE  /\ out = ContentOf(r) /\ SentWhole(r) /\ RestOf(r) = Slice(s, taken, n)
  <2>1. taken = r.body_len /\ m = r.body_len /\ r.body_len <= n
    BY <1>1, <1>2, <1>8 DEF m
  <2> QED BY <1>2, <1>3, <2>1 DEF SentWhole, RestOf, n, s
<1> QED BY <1>5, <1>7, <1>8 DEF n, s

LEMMA ChunksAtBegins ==
    ASSUME NEW s \in Seq(Byte), NEW i \in IspType, NEW taken \in 0..Len(s), NEW out,
           ChunksAt(s, i, taken, out)
    PROVE  /\ out \in Seq(Byte) /\ ChunkedContent(s) \in Seq(Byte) /\ Begins(out, ChunkedContent(s))
           /\ i.state = 4 => /\ out = ChunkedContent(s) /\ ChunkedWhole(s)
                             /\ ChunkedRest(s) = Slice(s, taken, Len(s))
<1>1. PICK k \in 0..Len(s) : k <= Chunks(s)[k].at /\ ChunkAt(s, Chunks(s)[k], i, taken, out)
  BY DEF ChunksAt
<1> DEFINE d == Chunks(s)[k]
           a == DataAt(s, d.at)
           C == ChunkedContent(s)
<1>2. Len(s) \in Nat /\ d \in ChunkStates
  BY ChunksUnfold
<1>3. d.at \in Nat /\ d.content \in Seq(Byte)
  <2> HIDE DEF d
  <2> QED BY <1>2 DEF ChunkStates
<1>4. C \in Seq(Byte) /\ Begins(d.content, C)
  BY ChunksBegin
<1>5. IsLine(s, d.at) => /\ a \in Nat /\ SizeAt(s, d.at) \in Nat
                         /\ DataEndAt(s, d.at) = a + SizeAt(s, d.at)
  BY <1>3, LineFacts
<1>6. \/ i.state = 0 /\ taken = d.at /\ out = d.content
      \/ /\ i.state = 1 /\ IsLine(s, d.at) /\ i.size = SizeAt(s, d.at) /\ i.index < i.size
         /\ taken = a + i.index /\ out = Cat(d.content, Slice(s, a, taken))
      \/ /\ i.state = 2 /\ IsLine(s, d.at) /\ 0 < SizeAt(s, d.at)
         /\ taken = DataEndAt(s, d.at) /\ out = Cat(d.content, Slice(s, a, taken))
      \/ i.state = 4 /\ IsLast(s, d.at) /\ taken = a /\ out = d.content
  BY <1>1 DEF ChunkAt
<1>7. CASE out = d.content /\ i.state # 4
  BY <1>3, <1>4, <1>7
<1>8. CASE /\ i.state # 4 /\ IsLine(s, d.at) /\ out = Cat(d.content, Slice(s, a, taken))
           /\ a <= taken /\ taken <= DataEndAt(s, d.at)
  <2>1. taken \in Nat /\ taken <= Len(s) /\ a \in 0..taken
    <3> HIDE DEF a
    <3> QED BY <1>2, <1>5, <1>8
  <2>2. Begins(out, C)
    BY <1>1, <1>8, <2>1, ChunkBegins
  <2>3. out \in Seq(Byte)
    <3> HIDE DEF a, d
    <3>1. Slice(s, a, taken) \in Seq(Byte)
      BY <2>1, SliceProperties
    <3> QED BY <1>3, <1>8, <3>1, CatType
  <2> QED BY <1>4, <1>8, <2>2, <2>3
<1>9. CASE i.state = 4 /\ IsLast(s, d.at) /\ taken = a /\ out = d.content
  <2>1. ~IsChunk(s, d.at)
    <3> HIDE DEF d
    <3> QED BY <1>9 DEF IsLast, IsChunk
  <2>2. ChunkedWhole(s) /\ C = d.content /\ ChunkedRest(s) = Slice(s, a, Len(s))
    BY <1>9, <2>1, ChunksEnd
  <2> QED BY <1>3, <1>4, <1>9, <2>2
<1>10. i.index \in Nat /\ i.size \in Nat
  BY DEF IspType
<1> HIDE DEF a, d
<1>11. \/ out = d.content /\ i.state # 4
       \/ /\ i.state # 4 /\ IsLine(s, d.at) /\ out = Cat(d.content, Slice(s, a, taken))
          /\ a <= taken /\ taken <= DataEndAt(s, d.at)
       \/ i.state = 4 /\ IsLast(s, d.at) /\ taken = a /\ out = d.content
  BY <1>5, <1>6, <1>10
<1> QED BY <1>7, <1>8, <1>9, <1>11 DEF a, d

\* Nothing was taken and nothing put out.
LEMMA FirstBegins ==
    ASSUME NEW r \in Requests, NEW i \in IspType, NEW taken \in 0..Len(r.stream), NEW out,
           FirstAt(r, i, taken, out)
    PROVE  /\ out \in Seq(Byte) /\ ContentOf(r) \in Seq(Byte) /\ Begins(out, ContentOf(r))
           /\ Final(r, i) => /\ out = ContentOf(r) /\ SentWhole(r)
                             /\ RestOf(r) = Slice(r.stream, taken, Len(r.stream))
<1>1. CASE r.framing = "raw"
  <2>1. RawAt(r, i, taken, out)
    BY <1>1 DEF FirstAt
  <2> QED BY <1>1, <2>1, RawBegins DEF Final
<1>2. CASE r.framing = "chunked"
  <2>1. ChunksAt(r.stream, i, taken, out) /\ r.stream \in Seq(Byte)
    BY <1>2, RequestFacts DEF FirstAt
  <2>2. /\ out \in Seq(Byte) /\ ChunkedContent(r.stream) \in Seq(Byte)
        /\ Begins(out, ChunkedContent(r.stream))
        /\ i.state = 4 => /\ out = ChunkedContent(r.stream) /\ ChunkedWhole(r.stream)
                          /\ ChunkedRest(r.stream) = Slice(r.stream, taken, Len(r.stream))
    BY <2>1, ChunksAtBegins
  <2> QED BY <1>2, <2>2 DEF Final, ContentOf, SentWhole, RestOf
<1> QED BY <1>1, <1>2, RequestFacts

\* A body of known length: the processor takes the next n bytes and puts them out.
LEMMA RawTakes ==
    ASSUME NEW r \in Requests, NEW i \in IspType, NEW n \in Nat, NEW taken, NEW out,
           RawAt(r, i, taken, out), i.state = 0, n <= r.body_len - i.index, taken + n <= Len(r.stream),
           NEW j \in IspType, j.index = i.index + n, j.state = IF j.index = r.body_len THEN 1 ELSE 0
    PROVE  RawAt(r, j, taken + n, Cat(out, Slice(r.stream, taken, taken + n)))
<1>1. r.stream \in Seq(Byte) /\ Len(r.stream) \in Nat /\ r.body_len \in Nat
  BY RequestFacts
<1>2. taken = i.index /\ i.index \in Nat /\ out = Slice(r.stream, 0, taken)
  BY DEF RawAt, IspType
<1>3. taken + n \in 0..Len(r.stream) /\ taken \in 0..(taken + n) /\ 0 \in 0..taken
  BY <1>1, <1>2
<1>4. Cat(out, Slice(r.stream, taken, taken + n)) = Slice(r.stream, 0, taken + n)
  BY <1>1, <1>2, <1>3, SliceJoin
<1>5. taken + n = j.index /\ j.index <= r.body_len
  BY <1>1, <1>2
<1> QED BY <1>4, <1>5 DEF RawAt

\* The line of a chunk is taken: the size in it is that of the reference.
LEMMA ChunkLineTaken ==
    ASSUME NEW s \in Seq(Byte), NEW i \in IspType, NEW taken \in Nat, NEW out,
           ChunksAt(s, i, taken, out), i.state = 0
    PROVE  /\ IsLine(s, taken) =>
                ChunksAt(s, [state |-> IF SizeAt(s, taken) = 0 THEN 4 ELSE 1, index |-> 0,
                             size |-> SizeAt(s, taken)], DataAt(s, taken), out)
           /\ ~IsLine(s, taken) => ~ChunkedWhole(s)
<1>1. PICK k \in 0..Len(s) : k <= Chunks(s)[k].at /\ ChunkAt(s, Chunks(s)[k], i, taken, out)
  BY DEF ChunksAt
<1> DEFINE d == Chunks(s)[k]
           a == DataAt(s, taken)
           j == [state |-> IF SizeAt(s, taken) = 0 THEN 4 ELSE 1, index |-> 0, size |-> SizeAt(s, taken)]
<1>2. taken = d.at /\ out = d.content
  BY <1>1 DEF ChunkAt
<1>3. d \in ChunkStates
  BY ChunksUnfold
<1>4. d.content \in Seq(Byte)
  <2> HIDE DEF d
  <2> QED BY <1>3 DEF ChunkStates
<1>5. ASSUME IsLine(s, taken) PROVE ChunksAt(s, j, a, out)
  <2>1. a \in Nat /\ a <= Len(s) /\ SizeAt(s, taken) \in Nat /\ Len(s) \in Nat
    BY <1>5, LineFacts
  <2>2. Slice(s, a, a) = <<>>
    <3>1. a \in 0..Len(s)
      BY <2>1
    <3> HIDE DEF a
    <3> QED BY <3>1, SliceEnds
  <2>3. Cat(d.content, Slice(s, a, a)) = out
    BY <1>2, <1>4, <2>2, CatType
  <2>4. ChunkAt(s, d, j, a, out)
    <3> HIDE DEF d
    <3>1. CASE SizeAt(s, taken) = 0
      BY <1>2, <1>5, <3>1 DEF ChunkAt, IsLast
    <3>2. CASE SizeAt(s, taken) # 0
      <4>1. j.state = 1 /\ j.size = SizeAt(s, d.at) /\ j.index < j.size /\ a = a + j.index
        BY <1>2, <2>1, <3>2
      <4>2. IsLine(s, d.at) /\ out = Cat(d.content, Slice(s, a, a)) /\ a = DataAt(s, d.at)
        BY <1>2, <1>5, <2>3
      <4> HIDE DEF j, a
      <4> QED BY <4>1, <4>2 DEF ChunkAt
    <3> QED BY <3>1, <3>2
  <2> HIDE DEF j, a
  <2> QED BY <1>1, <2>4 DEF ChunksAt
<1>6. ASSUME ~IsLine(s, taken) PROVE ~ChunkedWhole(s)
  <2>1. ~IsChunk(s, d.at) /\ ~IsLast(s, d.at)
    <3> HIDE DEF d
    <3> QED BY <1>2, <1>6 DEF IsChunk, IsLast
  <2> QED BY <2>1, ChunksEnd
<1> QED BY <1>5, <1>6

\* Data of a chunk is taken and put out.
LEMMA ChunkDataTaken ==
    ASSUME NEW s \in Seq(Byte), NEW i \in IspType, NEW taken \in Nat, NEW out,
           ChunksAt(s, i, taken, out), i.state = 1, NEW n \in Nat,
           n <= i.size - i.index, taken + n <= Len(s),
           NEW j \in IspType, j.index = i.index + n, j.size = i.size,
           j.state = IF j.index = i.size THEN 2 ELSE 1
    PROVE  ChunksAt(s, j, taken + n, Cat(out, Slice(s, taken, taken + n)))
<1>1. PICK k \in 0..Len(s) : k <= Chunks(s)[k].at /\ ChunkAt(s, Chunks(s)[k], i, taken, out)
  BY DEF ChunksAt
<1> DEFINE d == Chunks(s)[k]
           a == DataAt(s, d.at)
           out2 == Cat(out, Slice(s, taken, taken + n))
<1>2. /\ IsLine(s, d.at) /\ i.size = SizeAt(s, d.at) /\ i.index < i.size
      /\ taken = a + i.index /\ out = Cat(d.content, Slice(s, a, taken))
  BY <1>1 DEF ChunkAt
<1>3. d \in ChunkStates /\ Len(s) \in Nat
  BY ChunksUnfold
<1>4. d.content \in Seq(Byte) /\ d.at \in Nat
  <2> HIDE DEF d
  <2> QED BY <1>3 DEF ChunkStates
<1>5. a \in Nat /\ DataEndAt(s, d.at) = a + i.size
  BY <1>2, <1>4, LineFacts
<1>6. i.index \in Nat /\ i.size \in Nat
  BY DEF IspType
<1>7. taken + n \in 0..Len(s) /\ taken \in 0..(taken + n) /\ a \in 0..taken
  <2>1. taken \in Nat /\ n \in Nat /\ taken + n <= Len(s)
    OBVIOUS
  <2> HIDE DEF a
  <2> QED BY ONLY <1>2, <1>3, <1>5, <1>6, <2>1
<1>8. out2 = Cat(d.content, Slice(s, a, taken + n))
  <2> DEFINE x == Slice(s, a, taken)
             y == Slice(s, taken, taken + n)
             c == d.content
  <2> HIDE DEF a
  <2>1. taken \in 0..Len(s)
    BY <1>3, <1>7
  <2>2. x \in Seq(Byte) /\ y \in Seq(Byte)
    BY <1>7, <2>1, SliceProperties
  <2>3. Cat(x, y) = Slice(s, a, taken + n)
    BY <1>7, SliceJoin
  <2>4. c \in Seq(Byte)
    BY <1>4
  <2> HIDE DEF x, y, c
  <2>5. Cat(Cat(c, x), y) = Cat(c, Cat(x, y))
    BY <2>2, <2>4, CatAssociative
  <2> QED BY <1>2, <2>3, <2>5 DEF x, y, c
<1> HIDE DEF out2
<1>9. ChunkAt(s, d, j, taken + n, out2)
  <2> HIDE DEF d
  <2>1. CASE j.index = i.size
    <3>1. j.state = 2 /\ 0 < SizeAt(s, d.at) /\ taken + n = DataEndAt(s, d.at)
      BY <1>2, <1>5, <1>6, <2>1
    <3> QED BY <1>2, <1>8, <3>1 DEF ChunkAt
  <2>2. CASE j.index # i.size
    <3>1. /\ j.state = 1 /\ j.size = i.size /\ j.index = i.index + n /\ j.index # i.size
          /\ n <= i.size - i.index /\ n \in Nat
      BY <2>2
    <3> HIDE DEF a
    <3>2. j.state = 1 /\ j.size = SizeAt(s, d.at)
      BY <1>2, <3>1
    <3>3. taken + n = a + j.index
      <4>1. taken = a + i.index /\ j.index = i.index + n  BY <1>2, <3>1
      <4> QED BY ONLY <1>5, <1>6, <3>1, <4>1
    <3>4. j.index < j.size
      <4>1. \A x, y, z \in Nat : y <= z - x /\ x + y # z => x + y < z  OBVIOUS
      <4>2. j.index = i.index + n /\ j.size = i.size /\ j.index # i.size  BY <3>1
      <4> QED BY ONLY <1>6, <3>1, <4>1, <4>2
    <3> QED BY <1>2, <1>8, <3>2, <3>3, <3>4 DEF ChunkAt, a
  <2> QED BY <2>1, <2>2
<1> HIDE DEF d
<1>10. k <= d.at
  BY <1>1 DEF d
<1> QED BY <1>9, <1>10 DEF ChunksAt, d, out2

\* The end of a chunk is taken: one step of the reference is done.
LEMMA ChunkEndTaken ==
    ASSUME NEW s \in Seq(Byte), NEW i \in IspType, NEW taken \in Nat, NEW out,
           ChunksAt(s, i, taken, out), i.state = 2
    PROVE  /\ Occurs(s, taken, CRLF) =>
                taken + 2 <= Len(s) /\ ChunksAt(s, [i EXCEPT !.state = 0], taken + 2, out)
           /\ ~Occurs(s, taken, CRLF) => ~ChunkedWhole(s)
<1>1. PICK k \in 0..Len(s) : k <= Chunks(s)[k].at /\ ChunkAt(s, Chunks(s)[k], i, taken, out)
  BY DEF ChunksAt
<1> DEFINE d == Chunks(s)[k]
           a == DataAt(s, d.at)
           e == NextChunk(s, d)
<1>2. /\ IsLine(s, d.at) /\ 0 < SizeAt(s, d.at) /\ taken = DataEndAt(s, d.at)
      /\ out = Cat(d.content, Slice(s, a, taken))
  BY <1>1 DEF ChunkAt
<1>3. d \in ChunkStates /\ Len(s) \in Nat
  BY ChunksUnfold
<1>4. d.at \in Nat
  <2> HIDE DEF d
  <2> QED BY <1>3 DEF ChunkStates
<1>5. a \in Nat /\ d.at < a /\ SizeAt(s, d.at) \in Nat /\ taken = a + SizeAt(s, d.at)
  BY <1>2, <1>4, LineFacts
<1>6. ASSUME Occurs(s, taken, CRLF)
      PROVE  taken + 2 <= Len(s) /\ ChunksAt(s, [i EXCEPT !.state = 0], taken + 2, out)
  <2>1. IsChunk(s, d.at)
    <3> HIDE DEF d
    <3> QED BY <1>2, <1>5, <1>6 DEF IsChunk
  <2>2. e.at = taken + 2 /\ e.content = out /\ taken + 2 <= Len(s)
    BY <1>2, <1>3, <2>1, NextChunkType
  <2>3. k \in 0..(Len(s) - 1) /\ k + 1 \in 0..Len(s) /\ k + 1 <= taken + 2
    <3>1. k <= d.at /\ k \in 0..Len(s)
      BY <1>1
    <3> HIDE DEF a, d, e
    <3> QED BY <1>3, <1>4, <1>5, <2>2, <3>1
  <2>4. Chunks(s)[k + 1] = e
    BY <2>3, ChunksUnfold
  <2> DEFINE j == [i EXCEPT !.state = 0]
  <2>5. j.state = 0
    BY DEF IspType
  <2> HIDE DEF e, j
  <2>6. ChunkAt(s, e, j, taken + 2, out)
    BY <2>2, <2>5 DEF ChunkAt
  <2>7. k + 1 <= Chunks(s)[k + 1].at /\ ChunkAt(s, Chunks(s)[k + 1], j, taken + 2, out)
    BY <2>2, <2>3, <2>4, <2>6
  <2>8. ChunksAt(s, j, taken + 2, out)
    BY <2>3, <2>7 DEF ChunksAt
  <2> QED BY <2>2, <2>8 DEF j
<1>7. ASSUME ~Occurs(s, taken, CRLF) PROVE ~ChunkedWhole(s)
  <2>1. ~IsChunk(s, d.at) /\ ~IsLast(s, d.at)
    <3> HIDE DEF d
    <3> QED BY <1>2, <1>5, <1>7 DEF IsChunk, IsLast
  <2> QED BY <2>1, ChunksEnd
<1> QED BY <1>6, <1>7

-----------------------------------------------------------------------------
(* The second processor, step by step: c is the content, m its state        *)

LEMMA PartIs ==
    ASSUME NEW c \in Seq(Byte), NEW k \in 0..Len(c)
    PROVE  /\ Parsed(c)[k] \in PartStates /\ Len(c) \in Nat
           /\ Parsed(c)[k].state \in 0..3 /\ Parsed(c)[k].at \in Nat /\ Parsed(c)[k].params \in Seq(Param)
           /\ NextPart(c, Parsed(c)[k]) = Parsed(c)[k] =>
                 (IsMultipart(c) <=> \/ Parsed(c)[k].state = 3
                                     \/ Parsed(c)[k].state = 0 /\ Parsed(c)[k].at = Len(c))
<1> DEFINE d == Parsed(c)[k]
<1>1. d \in PartStates /\ Len(c) \in Nat /\ (NextPart(c, d) = d => AllParts(c) = d)
  BY PartsUnfold
<1> HIDE DEF d
<1>2. d.state \in 0..3 /\ d.at \in Nat /\ d.params \in Seq(Param)
  BY <1>1 DEF PartStates
<1>3. NextPart(c, d) = d => (IsMultipart(c) <=> d.state = 3 \/ (d.state = 0 /\ d.at = Len(c)))
  BY <1>1 DEF IsMultipart
<1> QED BY <1>1, <1>2, <1>3 DEF d

\* A boundary is found: it is the first one in the data.
LEMMA BoundaryTaken ==
    ASSUME NEW c \in Seq(Byte), NEW m \in MpType, NEW held, PartsAt(c, m, held), m.state = 0,
           Find(c, m.index, Boundary) # OOB
    PROVE  \A x : PartsAt(c, [state |-> 1, index |-> Find(c, m.index, Boundary) + 2,
                              params |-> EndedAt(m.params, Find(c, m.index, Boundary) - 4)], x)
<1> DEFINE f == Find(c, m.index, Boundary)
           m2 == [state |-> 1, index |-> f + 2, params |-> EndedAt(m.params, f - 4)]
<1>0. m.index \in Nat
  BY DEF MpType
<1>1. PICK k \in 0..Len(c) : k <= Parsed(c)[k].at /\ PartAt(c, Parsed(c)[k], m, held)
  BY DEF PartsAt
<1> DEFINE d == Parsed(c)[k]
           e == NextPart(c, d)
<1>2. /\ m.params = d.params /\ d.state = 0 /\ d.at <= m.index
      /\ \A i \in d.at..(m.index - 1) : ~Occurs(c, i, Boundary)
  BY <1>1 DEF PartAt
<1>3. d.at \in Nat /\ Len(c) \in Nat
  BY PartIs
<1>4. f \in m.index..Len(c) /\ Occurs(c, f, Boundary) /\ \A i \in m.index..(f - 1) : ~Occurs(c, i, Boundary)
  <2>1. \/ f = OOB /\ \A i \in m.index..Len(c) : ~Occurs(c, i, Boundary)
        \/ f \in m.index..Len(c) /\ Occurs(c, f, Boundary) /\ \A i \in m.index..(f - 1) : ~Occurs(c, i, Boundary)
    BY <1>0, FindFinds
  <2>2. f # OOB
    OBVIOUS
  <2> HIDE DEF f
  <2> QED BY <2>1, <2>2
<1> HIDE DEF f
<1>5. Find(c, d.at, Boundary) = f
  <2> DEFINE g == Find(c, d.at, Boundary)
  <2>1. \/ g = OOB /\ \A i \in d.at..Len(c) : ~Occurs(c, i, Boundary)
        \/ g \in d.at..Len(c) /\ Occurs(c, g, Boundary) /\ \A i \in d.at..(g - 1) : ~Occurs(c, i, Boundary)
    BY <1>3, FindFinds
  <2> HIDE DEF g, d
  <2>2. f \in d.at..Len(c)
    BY <1>0, <1>2, <1>3, <1>4
  <2>3. g \in d.at..Len(c) /\ Occurs(c, g, Boundary) /\ \A i \in d.at..(g - 1) : ~Occurs(c, i, Boundary)
    BY <1>4, <2>1, <2>2
  <2>4. ~(f \in d.at..(g - 1)) /\ ~(g \in d.at..(m.index - 1)) /\ ~(g \in m.index..(f - 1))
    BY <1>2, <1>4, <2>3
  <2>5. g = f
    BY <1>0, <1>2, <1>3, <1>4, <2>2, <2>3, <2>4
  <2> QED BY <2>5 DEF g
<1>6. e = [state |-> 1, at |-> f + 2, params |-> EndedAt(m.params, f - 4)]
  <2>1. f # OOB
    BY <1>0, <1>4 DEF OOB
  <2> HIDE DEF d
  <2> QED BY <1>2, <1>5, <2>1, Marks DEF NextPart, AfterData
<1>7. k + 1 \in 0..Len(c) /\ Parsed(c)[k + 1] = e /\ k + 1 <= Parsed(c)[k + 1].at
  <2>1. e # d
    <3> HIDE DEF d, e
    <3> QED BY <1>2, <1>6
  <2> QED BY <1>1, <2>1, PartsStep
<1> HIDE DEF e
<1>8. \A x : PartAt(c, e, m2, x)
  BY <1>6 DEF PartAt
<1> HIDE DEF m2
<1>9. \A x : PartsAt(c, m2, x)
  BY <1>7, <1>8 DEF PartsAt
<1> QED BY <1>9 DEF m2, f

\* There is no boundary up to the bytes that are held back.
LEMMA DataTaken ==
    ASSUME NEW c \in Seq(Byte), NEW m \in MpType, NEW held, PartsAt(c, m, held), m.state = 0,
           NEW q \in Nat, m.index + 2 <= q, \A i \in m.index..(q - 2) : ~Occurs(c, i, Boundary)
    PROVE  PartsAt(c, [state |-> 0, index |-> q - 2, params |-> m.params], TRUE)
<1> DEFINE m2 == [state |-> 0, index |-> q - 2, params |-> m.params]
<1>0. m.index \in Nat
  BY DEF MpType
<1>1. PICK k \in 0..Len(c) : k <= Parsed(c)[k].at /\ PartAt(c, Parsed(c)[k], m, held)
  BY DEF PartsAt
<1> DEFINE d == Parsed(c)[k]
<1>2. /\ m.params = d.params /\ d.state = 0 /\ d.at <= m.index
      /\ \A i \in d.at..(m.index - 1) : ~Occurs(c, i, Boundary)
  BY <1>1 DEF PartAt
<1>3. d.at \in Nat
  BY PartIs
<1>4. k <= d.at
  BY <1>1
<1> HIDE DEF d
<1>5. ASSUME NEW i \in d.at..((q - 2) - 1) PROVE ~Occurs(c, i, Boundary)
  <2>1. i \in d.at..(m.index - 1) \/ i \in m.index..(q - 2)
    BY <1>0, <1>2, <1>3
  <2> QED BY <1>2, <2>1
<1>6. d.at <= m2.index
  BY <1>0, <1>2, <1>3
<1>7. PartAt(c, d, m2, TRUE)
  BY <1>2, <1>5, <1>6 DEF PartAt
<1> HIDE DEF m2
<1>8. PartsAt(c, m2, TRUE)
  BY <1>4, <1>7 DEF PartsAt, d
<1> QED BY <1>8 DEF m2

\* The end of the content in the data, without a boundary.
LEMMA DataEnds ==
    ASSUME NEW c \in Seq(Byte), NEW m \in MpType, NEW held, PartsAt(c, m, held), m.state = 0,
           \A i \in m.index..(Len(c) - 2) : ~Occurs(c, i, Boundary)
    PROVE  /\ m.index < Len(c) => ~IsMultipart(c)
           /\ m.index = Len(c) /\ ~held =>
                 /\ IsMultipart(c)
                 /\ \A x : PartsAt(c, [m EXCEPT !.state = 4], x)
<1>0. m.index \in Nat
  BY DEF MpType
<1>1. PICK k \in 0..Len(c) : k <= Parsed(c)[k].at /\ PartAt(c, Parsed(c)[k], m, held)
  BY DEF PartsAt
<1> DEFINE d == Parsed(c)[k]
<1>2. /\ m.params = d.params /\ d.state = 0 /\ d.at <= m.index
      /\ \A i \in d.at..(m.index - 1) : ~Occurs(c, i, Boundary)
      /\ d.at < m.index => held
  BY <1>1 DEF PartAt
<1>3. d.at \in Nat /\ Len(c) \in Nat
  BY PartIs
<1>4. Find(c, d.at, Boundary) = OOB
  <2> DEFINE g == Find(c, d.at, Boundary)
  <2>1. \/ g = OOB
        \/ g \in d.at..Len(c) /\ Occurs(c, g, Boundary)
    BY <1>3, FindFinds
  <2> HIDE DEF g, d
  <2>2. ASSUME NEW i \in d.at..Len(c), Occurs(c, i, Boundary) PROVE FALSE
    <3>1. i + 2 <= Len(c)
      BY <2>2, Marks DEF Occurs
    <3>2. i \in d.at..(m.index - 1) \/ i \in m.index..(Len(c) - 2)
      BY <1>0, <1>3, <3>1
    <3> QED BY <1>2, <2>2, <3>2
  <2> QED BY <2>1, <2>2 DEF g
<1>5. NextPart(c, d) = d
  <2> HIDE DEF d
  <2> QED BY <1>2, <1>4 DEF NextPart, AfterData
<1>6. IsMultipart(c) <=> d.at = Len(c)
  <2>1. IsMultipart(c) <=> d.state = 3 \/ (d.state = 0 /\ d.at = Len(c))
    BY <1>5, PartIs
  <2> HIDE DEF d
  <2> QED BY <1>2, <2>1
<1>7. ASSUME m.index = Len(c), ~held
      PROVE  IsMultipart(c) /\ \A x : PartsAt(c, [m EXCEPT !.state = 4], x)
  <2>1. d.at = Len(c)
    BY <1>0, <1>2, <1>3, <1>7
  <2> DEFINE m2 == [m EXCEPT !.state = 4]
  <2>2. m2.state = 4 /\ m2.params = m.params
    BY DEF MpType
  <2>3. k <= d.at
    BY <1>1
  <2> HIDE DEF m2, d
  <2>4. \A x : PartAt(c, d, m2, x)
    BY <1>2, <2>1, <2>2 DEF PartAt
  <2>5. \A x : PartsAt(c, m2, x)
    BY <2>3, <2>4 DEF PartsAt, d
  <2> QED BY <1>6, <2>1, <2>5 DEF m2
<1>8. m.index < Len(c) => ~IsMultipart(c)
  <2> HIDE DEF d
  <2> QED BY <1>0, <1>2, <1>3, <1>6
<1> QED BY <1>7, <1>8

\* After a boundary: two dashes, an end of line, or neither.
LEMMA MoreTaken ==
    ASSUME NEW c \in Seq(Byte), NEW m \in MpType, NEW held, PartsAt(c, m, held), m.state = 1
    PROVE  /\ Occurs(c, m.index, Dashes) =>
                \A x : PartsAt(c, [state |-> 3, index |-> m.index + 2, params |-> m.params], x)
           /\ Occurs(c, m.index, CRLF) =>
                \A x : PartsAt(c, [state |-> 2, index |-> m.index + 2,
                                   params |-> <<[data_index |-> 0, data_size |-> Unset]>> \o m.params], x)
           /\ ~Occurs(c, m.index, Dashes) /\ ~Occurs(c, m.index, CRLF) => ~IsMultipart(c)
<1>0. m.index \in Nat
  BY DEF MpType
<1>1. PICK k \in 0..Len(c) : k <= Parsed(c)[k].at /\ PartAt(c, Parsed(c)[k], m, held)
  BY DEF PartsAt
<1> DEFINE d == Parsed(c)[k]
           e == NextPart(c, d)
           q == <<[data_index |-> 0, data_size |-> Unset]>> \o m.params
<1>2. m.params = d.params /\ d.state = 1 /\ d.at = m.index
  BY <1>1 DEF PartAt
<1>3. d \in PartStates /\ d.at \in Nat /\ Len(c) \in Nat
  BY PartIs
<1>4. e = IF Occurs(c, m.index, Dashes) THEN [d EXCEPT !.state = 3, !.at = @ + 2]
          ELSE IF Occurs(c, m.index, CRLF) THEN [state |-> 2, at |-> m.index + 2, params |-> q]
          ELSE d
  <2> HIDE DEF d
  <2> QED BY <1>2 DEF NextPart, AfterBoundary
<1> HIDE DEF q
<1>5. e # d => k + 1 \in 0..Len(c) /\ Parsed(c)[k + 1] = e /\ k + 1 <= Parsed(c)[k + 1].at
  BY <1>1, PartsStep
<1>6. ASSUME e # d PROVE \A mm, x : PartAt(c, e, mm, x) => PartsAt(c, mm, x)
  <2> HIDE DEF e
  <2> QED BY <1>5, <1>6 DEF PartsAt
<1>7. ASSUME Occurs(c, m.index, Dashes)
      PROVE  \A x : PartsAt(c, [state |-> 3, index |-> m.index + 2, params |-> m.params], x)
  <2> DEFINE m2 == [state |-> 3, index |-> m.index + 2, params |-> m.params]
  <2> HIDE DEF d, e
  <2>1. e = [d EXCEPT !.state = 3, !.at = @ + 2]
    BY <1>4, <1>7
  <2>2. e.state = 3 /\ e.params = m.params
    BY <1>2, <1>3, <2>1 DEF PartStates
  <2>3. e # d
    BY <1>2, <2>2
  <2>4. \A x : PartAt(c, e, m2, x)
    BY <2>2 DEF PartAt
  <2> HIDE DEF m2
  <2>5. \A x : PartsAt(c, m2, x)
    BY <1>6, <2>3, <2>4
  <2> QED BY <2>5 DEF m2
<1>8. ASSUME Occurs(c, m.index, CRLF)
      PROVE  \A x : PartsAt(c, [state |-> 2, index |-> m.index + 2, params |-> q], x)
  <2> DEFINE m2 == [state |-> 2, index |-> m.index + 2, params |-> q]
  <2>1. ~Occurs(c, m.index, Dashes)
    <3>1. CRLF # Dashes
      <4>1. CRLF[1] = "CR" /\ Dashes[1] = "-"
        BY Marks
      <4> QED BY <4>1
    <3> QED BY <1>8, <3>1, Marks DEF Occurs
  <2> HIDE DEF d, e
  <2>2. e = [state |-> 2, at |-> m.index + 2, params |-> q]
    BY <1>4, <1>8, <2>1
  <2>3. e # d
    BY <1>2, <2>2
  <2>4. \A x : PartAt(c, e, m2, x)
    BY <2>2 DEF PartAt
  <2> HIDE DEF m2
  <2>5. \A x : PartsAt(c, m2, x)
    BY <1>6, <2>3, <2>4
  <2> QED BY <2>5 DEF m2
<1>9. ASSUME ~Occurs(c, m.index, Dashes), ~Occurs(c, m.index, CRLF) PROVE ~IsMultipart(c)
  <2>1. e = d
    BY <1>4, <1>9
  <2>2. IsMultipart(c) <=> d.state = 3 \/ (d.state = 0 /\ d.at = Len(c))
    BY <2>1, PartIs
  <2> HIDE DEF d
  <2> QED BY <1>2, <2>2
<1> QED BY <1>7, <1>8, <1>9 DEF q

\* The header of a part.
LEMMA HeaderTaken ==
    ASSUME NEW c \in Seq(Byte), NEW m \in MpType, NEW held, PartsAt(c, m, held), m.state = 2,
           NEW h, h = Find(c, m.index, CRLF \o CRLF)
    PROVE  /\ h # OOB /\ (\E i \in (m.index + 1)..h : c[i] = "name") =>
                \A x : PartsAt(c, [state |-> 0, index |-> h + 4,
                                   params |-> [m.params EXCEPT ![1].data_index = h + 4]], x)
           /\ ~(h # OOB /\ (\E i \in (m.index + 1)..h : c[i] = "name")) => ~IsMultipart(c)
<1>0. m.index \in Nat
  BY DEF MpType
<1>1. PICK k \in 0..Len(c) : k <= Parsed(c)[k].at /\ PartAt(c, Parsed(c)[k], m, held)
  BY DEF PartsAt
<1> DEFINE d == Parsed(c)[k]
           e == NextPart(c, d)
           q == [m.params EXCEPT ![1].data_index = h + 4]
           ok == h # OOB /\ (\E i \in (m.index + 1)..h : c[i] = "name")
<1>2. m.params = d.params /\ d.state = 2 /\ d.at = m.index
  BY <1>1 DEF PartAt
<1>3. e = IF ok THEN [state |-> 0, at |-> h + 4, params |-> q] ELSE d
  <2> HIDE DEF d
  <2> QED BY <1>2 DEF NextPart, AfterHeader
<1> HIDE DEF q, ok
<1>4. ASSUME ok PROVE \A x : PartsAt(c, [state |-> 0, index |-> h + 4, params |-> q], x)
  <2> DEFINE m2 == [state |-> 0, index |-> h + 4, params |-> q]
  <2>1. e = [state |-> 0, at |-> h + 4, params |-> q]
    BY <1>3, <1>4
  <2>2. e # d
    <3> HIDE DEF d, e
    <3> QED BY <1>2, <2>1
  <2>3. k + 1 \in 0..Len(c) /\ Parsed(c)[k + 1] = e /\ k + 1 <= Parsed(c)[k + 1].at
    BY <1>1, <2>2, PartsStep
  <2>4. h + 4 \in Nat
    <3>1. \/ h = OOB
          \/ h \in m.index..Len(c)
      BY <1>0, FindFinds
    <3>2. h # OOB
      BY <1>4 DEF ok
    <3>3. Len(c) \in Nat
      BY LenProperties
    <3> QED BY <1>0, <3>1, <3>2, <3>3
  <2> HIDE DEF d, e
  <2>5. \A x : PartAt(c, e, m2, x)
    BY <2>1, <2>4 DEF PartAt
  <2> HIDE DEF m2
  <2>6. \A x : PartsAt(c, m2, x)
    BY <2>3, <2>5 DEF PartsAt
  <2> QED BY <2>6 DEF m2
<1>5. ASSUME ~ok PROVE ~IsMultipart(c)
  <2>1. e = d
    BY <1>3, <1>5
  <2>2. IsMultipart(c) <=> d.state = 3 \/ (d.state = 0 /\ d.at = Len(c))
    BY <2>1, PartIs
  <2> HIDE DEF d
  <2> QED BY <1>2, <2>2
<1> QED BY <1>4, <1>5 DEF ok, q

\* The end.
LEMMA PartsRunOut ==
    ASSUME NEW c \in Seq(Byte), NEW m \in MpType, NEW held, PartsAt(c, m, held)
    PROVE  /\ m.state = 3 => \A n, x : PartsAt(c, [m EXCEPT !.state = 4], x)
                                       /\ PartsAt(c, [state |-> 3, index |-> n, params |-> m.params], x)
           /\ m.state = 4 => IsMultipart(c) /\ m.params = AllParts(c).params
<1>1. PICK k \in 0..Len(c) : k <= Parsed(c)[k].at /\ PartAt(c, Parsed(c)[k], m, held)
  BY DEF PartsAt
<1> DEFINE d == Parsed(c)[k]
<1>2. \A mm, x : PartAt(c, d, mm, x) => PartsAt(c, mm, x)
  BY <1>1 DEF PartsAt
<1>3. ASSUME m.state = 3, NEW n, NEW x
      PROVE  PartsAt(c, [m EXCEPT !.state = 4], x) /\ PartsAt(c, [state |-> 3, index |-> n, params |-> m.params], x)
  <2> DEFINE m2 == [m EXCEPT !.state = 4]
             m3 == [state |-> 3, index |-> n, params |-> m.params]
  <2>1. d.state = 3 /\ m.params = d.params
    BY <1>1, <1>3 DEF PartAt
  <2>2. m2.state = 4 /\ m2.params = m.params
    BY DEF MpType
  <2>3. m3.state = 3 /\ m3.params = m.params
    OBVIOUS
  <2> HIDE DEF d, m2, m3
  <2>4. PartAt(c, d, m2, x) /\ PartAt(c, d, m3, x)
    BY <2>1, <2>2, <2>3 DEF PartAt
  <2> QED BY <1>2, <2>4 DEF m2, m3
<1>4. ASSUME m.state = 4 PROVE IsMultipart(c) /\ m.params = AllParts(c).params
  <2>1. m.params = d.params /\ (d.state = 3 \/ (d.state = 0 /\ d.at = Len(c)))
    BY <1>1, <1>4 DEF PartAt
  <2>2. NextPart(c, d) = d
    <3>1. CASE d.state = 3
      <4> HIDE DEF d
      <4> QED BY <3>1 DEF NextPart
    <3>2. CASE d.state = 0 /\ d.at = Len(c)
      <4> DEFINE g == Find(c, d.at, Boundary)
      <4>1. d.at \in Nat /\ Len(c) \in Nat
        BY PartIs
      <4>2. \/ g = OOB
            \/ g \in d.at..Len(c) /\ Occurs(c, g, Boundary)
        BY <4>1, FindFinds
      <4> HIDE DEF g, d
      <4>3. g = OOB
        BY <3>2, <4>1, <4>2, Marks DEF Occurs
      <4> QED BY <3>2, <4>3 DEF NextPart, AfterData, g
    <3> QED BY <2>1, <3>1, <3>2
  <2>3. AllParts(c) = d
    BY <2>2, PartsUnfold
  <2>4. IsMultipart(c) <=> d.state = 3 \/ (d.state = 0 /\ d.at = Len(c))
    BY <2>2, PartIs
  <2> QED BY <2>1, <2>3, <2>4
<1> QED BY <1>3, <1>4

-----------------------------------------------------------------------------
(* The lists                                                                *)

\* Taking n bytes from a list that holds a slice of a sequence.
LEMMA ListTaken ==
    ASSUME NEW s \in Seq(Byte), NEW q \in 0..Len(s), NEW p \in 0..q,
           NEW list \in Cbuf, NoneEmpty(list), Bytes(list) = Slice(s, p, q), NEW n \in 0..Length(list)
    PROVE  /\ Length(list) = q - p
           /\ FirstBytes(list, n) \in Cbuf /\ NoneEmpty(FirstBytes(list, n))
           /\ RestBytes(list, n) \in Cbuf /\ NoneEmpty(RestBytes(list, n))
           /\ Bytes(FirstBytes(list, n)) = Slice(s, p, p + n) /\ Length(FirstBytes(list, n)) = n
           /\ Bytes(RestBytes(list, n)) = Slice(s, p + n, q) /\ Length(RestBytes(list, n)) = Length(list) - n
  <1>1. Length(list) = q - p  BY SliceProperties DEF Length
  <1>2. n \in 0..(q - p) /\ n \in Int /\ p \in Int /\ q \in Int /\ p + 0 = p /\ p + (q - p) = q /\ Len(s) \in Nat
    BY <1>1, SliceEnds
  <1>3. list \in Seq(Seq(Byte))  BY DEF Cbuf
  <1>4. /\ FirstBytes(list, n) \in Seq(Seq(Byte)) /\ RestBytes(list, n) \in Seq(Seq(Byte))
        /\ NoneEmpty(FirstBytes(list, n)) /\ NoneEmpty(RestBytes(list, n))
        /\ Bytes(FirstBytes(list, n)) = SubSeq(Bytes(list), 1, n)
        /\ Bytes(RestBytes(list, n)) = SubSeq(Bytes(list), n + 1, Length(list))
    BY <1>3, Split
  <1>5. /\ Bytes(FirstBytes(list, n)) = Slice(Slice(s, p, q), 0, n)
        /\ Bytes(RestBytes(list, n)) = Slice(Slice(s, p, q), n, q - p)
    BY <1>4, <1>1, <1>2 DEF Slice
  <1>6. /\ 0 \in 0..n /\ n \in 0..(q - p) /\ q - p \in 0..(q - p) /\ n \in 0..(q - p)
    BY <1>2
  <1>7. Slice(Slice(s, p, q), 0, n) = Slice(s, p + 0, p + n)  BY <1>6, SliceOfSlice
  <1>8. Slice(Slice(s, p, q), n, q - p) = Slice(s, p + n, p + (q - p))  BY <1>6, SliceOfSlice
  <1>9. p + n \in 0..q /\ p + n \in 0..Len(s) /\ p \in 0..(p + n)  BY <1>2
  <1>10. Len(Slice(s, p, p + n)) = (p + n) - p /\ Len(Slice(s, p + n, q)) = q - (p + n)
    BY <1>9, SliceProperties
  <1>. QED  BY SMTT(60), <1>1, <1>2, <1>4, <1>5, <1>7, <1>8, <1>10 DEF Cbuf, Length

\* Bytes of lists put together.
LEMMA ListsJoined ==
    ASSUME NEW a \in Cbuf, NoneEmpty(a), NEW b \in Cbuf, NoneEmpty(b)
    PROVE  /\ a \o b \in Cbuf /\ NoneEmpty(a \o b) /\ Bytes(a) \in Seq(Byte) /\ Bytes(b) \in Seq(Byte)
           /\ Bytes(a \o b) = Cat(Bytes(a), Bytes(b)) /\ Length(a \o b) = Length(a) + Length(b)
           /\ Length(a) \in Nat /\ Length(b) \in Nat
           /\ (a = <<>> <=> Length(a) = 0) /\ (a # <<>> \/ b # <<>> => a \o b # <<>>)
  <1>. DEFINE C == Seq(Byte)
  <1>1. a \in Seq(C) /\ b \in Seq(C)  BY DEF Cbuf
  <1>2. NoneEmpty(a \o b) /\ a \o b \in Seq(C)
    <2>. HIDE DEF C
    <2>. QED  BY <1>1, NoneEmptyConcat
  <1>3. FlattenSeq(a) \in Seq(Byte) /\ FlattenSeq(b) \in Seq(Byte) /\ FlattenSeq(a \o b) = Cat(FlattenSeq(a), FlattenSeq(b))
    BY <1>1, FlattenConcat DEF Cat
  <1>4. Len(Cat(FlattenSeq(a), FlattenSeq(b))) = Len(FlattenSeq(a)) + Len(FlattenSeq(b))
        /\ Len(FlattenSeq(a)) \in Nat /\ Len(FlattenSeq(b)) \in Nat
    BY <1>3, CatType
  <1>5. a = <<>> => Length(a) = 0
    <2>1. FlattenSeq(<<>>) = <<>>
      <3>1. <<>> \in Seq(Seq(Byte)) /\ <<>> \in Seq(Byte)  OBVIOUS
      <3>. QED  BY <3>1, FlattenAppend
    <2>. QED  BY <2>1 DEF Length, Bytes
  <1>6. a # <<>> => Length(a) # 0
    <2>. SUFFICES ASSUME a # <<>> PROVE Length(a) # 0  OBVIOUS
    <2>1. Len(a) \in Nat /\ Len(a) # 0 /\ 1 \in DOMAIN a /\ 1 \in 0..Len(a) /\ 0 \in 0..1
      <3>. HIDE DEF C
      <3>. QED  BY <1>1
    <2>2. a[1] \in Seq(Byte) /\ Length(Pre(a, 1)) = Length(Pre(a, 1 - 1)) + Len(a[1])
      <3>1. a \in Seq(Seq(Byte)) /\ 1 > 0  BY DEF Cbuf
      <3>2. 1 > 0 => /\ a[1] \in Seq(Byte)
                     /\ Bytes(Pre(a, 1)) = Bytes(Pre(a, 1 - 1)) \o a[1]
                     /\ Length(Pre(a, 1)) = Length(Pre(a, 1 - 1)) + Len(a[1])
        BY <3>1, <2>1, PreGrows, Zenon
      <3>. QED  BY <3>1, <3>2
    <2>3. Length(Pre(a, 1)) <= Length(a) /\ Length(Pre(a, 0)) = 0 /\ Length(a) \in Nat /\ 1 - 1 = 0
      BY <2>1, <1>1, PreLength
    <2>4. Len(a[1]) \in Nat /\ Len(a[1]) # 0  BY <2>1, <2>2 DEF NoneEmpty
    <2>. QED  BY <2>2, <2>3, <2>4
  <1>7. a # <<>> \/ b # <<>> => a \o b # <<>>
    <2>. HIDE DEF C
    <2>. QED  BY <1>1
  <1>. QED  BY <1>1, <1>2, <1>3, <1>4, <1>5, <1>6, <1>7 DEF Cbuf, Bytes, Length

-----------------------------------------------------------------------------
(* The store                                                                *)

Waiting(st, off) == Slice(Bytes(st), off, Length(st))
StoreShape(st, off) ==
    /\ st \in Cbuf /\ NoneEmpty(st) /\ off \in Nat
    /\ (st = <<>> => off = 0) /\ (st # <<>> => off < Len(st[1]))

\* The first cbuf, and the others.
LEMMA FirstOfStore ==
    ASSUME NEW st \in Cbuf, NoneEmpty(st), st # <<>>
    PROVE  /\ st[1] \in Seq(Byte) /\ st[1] # <<>> /\ Tail(st) \in Cbuf /\ NoneEmpty(Tail(st))
           /\ Bytes(Tail(st)) \in Seq(Byte) /\ Bytes(st) = Cat(st[1], Bytes(Tail(st)))
           /\ Length(st) = Len(st[1]) + Length(Tail(st)) /\ Len(st[1]) \in Nat \ {0} /\ Length(Tail(st)) \in Nat
  <1>. DEFINE C == Seq(Byte)
  <1>1. st \in Seq(C)  BY DEF Cbuf
  <1>2. /\ Len(st) \in Nat /\ Len(st) > 0 /\ st[1] \in C /\ Tail(st) \in Seq(C)
        /\ Tail(st) = SubSeq(st, 1 + 1, Len(st)) /\ Len(Tail(st)) = Len(st) - 1
        /\ \A i \in 1..(Len(st) - 1) : Tail(st)[i] = st[i + 1]
    <2>. HIDE DEF C
    <2>. QED  BY <1>1
  <1>3. st[1] # <<>>  BY <1>2, <1>1 DEF NoneEmpty
  <1>4. NoneEmpty(Tail(st))
    <2>. SUFFICES ASSUME NEW i \in DOMAIN Tail(st) PROVE Tail(st)[i] # <<>>  BY DEF NoneEmpty
    <2>1. i \in 1..(Len(st) - 1) /\ i + 1 \in DOMAIN st
      <3>. HIDE DEF C
      <3>. QED  BY <1>1, <1>2
    <2>. QED  BY <2>1, <1>2 DEF NoneEmpty
  <1>5. SubSeq(st, 1, 1) = <<st[1]>>
    <2>. HIDE DEF C
    <2>1. SubSeq(st, 1, 1) \in Seq(C) /\ Len(SubSeq(st, 1, 1)) = 1 /\ SubSeq(st, 1, 1)[1] = st[1]
      BY <1>1, <1>2
    <2>. DEFINE t == SubSeq(st, 1, 1)
    <2>2. t \in Seq(C) /\ Len(t) = 1 /\ t[1] = st[1]  BY <2>1
    <2>. HIDE DEF t
    <2>3. t = <<st[1]>>  BY <2>2
    <2>. QED  BY <2>3 DEF t
  <1>6. 1 \in 0..Len(st)  BY <1>2
  <1>7. FlattenSeq(st) = FlattenSeq(SubSeq(st, 1, 1)) \o FlattenSeq(SubSeq(st, 1 + 1, Len(st)))
        /\ FlattenSeq(SubSeq(st, 1 + 1, Len(st))) \in Seq(Byte)
    BY <1>1, <1>6, FlattenHalves
  <1>8. FlattenSeq(<<st[1]>>) = st[1]  BY <1>2, FlattenOne
  <1>9. Bytes(st) = Cat(st[1], Bytes(Tail(st))) /\ Bytes(Tail(st)) \in Seq(Byte)
    BY <1>2, <1>5, <1>7, <1>8 DEF Bytes, Cat
  <1>10. Len(Cat(st[1], Bytes(Tail(st)))) = Len(st[1]) + Len(Bytes(Tail(st))) /\ Len(Bytes(Tail(st))) \in Nat
    BY <1>2, <1>9, CatType
  <1>11. Len(st[1]) \in Nat \ {0}  BY <1>2, <1>3
  <1>. QED  BY <1>2, <1>3, <1>4, <1>9, <1>10, <1>11 DEF Cbuf, Length

\* What is unwritten is in the list of the store, behind the offset into its first cbuf.
LEMMA StoreFacts ==
    ASSUME NEW st, NEW off, StoreShape(st, off)
    PROVE  /\ Bytes(st) \in Seq(Byte) /\ Length(st) \in Nat /\ off \in 0..Length(st)
           /\ Waiting(st, off) \in Seq(Byte) /\ Len(Waiting(st, off)) = Length(st) - off
           /\ st = <<>> => Waiting(st, off) = <<>> /\ Length(st) = 0
  <1>1. st \in Cbuf /\ NoneEmpty(st) /\ off \in Nat  BY DEF StoreShape
  <1>2. Bytes(st) \in Seq(Byte) /\ Length(st) \in Nat /\ (st = <<>> => Length(st) = 0)
    BY <1>1, ListsJoined
  <1>3. off \in 0..Length(st)
    <2>1. CASE st = <<>>  BY <2>1, <1>2 DEF StoreShape
    <2>2. CASE st # <<>>
      <3>1. Length(st) = Len(st[1]) + Length(Tail(st)) /\ Len(st[1]) \in Nat \ {0} /\ Length(Tail(st)) \in Nat
        BY <2>2, <1>1, FirstOfStore
      <3>2. off < Len(st[1])  BY <2>2 DEF StoreShape
      <3>. QED  BY <3>1, <3>2, <1>1, <1>2
    <2>. QED  BY <2>1, <2>2
  <1>4. Length(st) \in 0..Len(Bytes(st))  BY <1>2 DEF Length
  <1>5. Waiting(st, off) \in Seq(Byte) /\ Len(Waiting(st, off)) = Length(st) - off
    BY <1>2, <1>3, <1>4, SliceProperties DEF Waiting
  <1>6. st = <<>> => Waiting(st, off) = <<>>
    <2>1. st = <<>> => Waiting(st, off) = Slice(Bytes(st), 0, 0)  BY <1>2 DEF Waiting, StoreShape
    <2>2. 0 \in 0..Len(Bytes(st))  BY <1>2 DEF Length
    <2>. QED  BY <2>1, <2>2, <1>2, SliceEnds
  <1>. QED  BY <1>2, <1>3, <1>5, <1>6

\* What is put into the store comes behind what waits in it.
LEMMA StoreAppended ==
    ASSUME NEW st, NEW off, StoreShape(st, off), NEW more \in Cbuf, NoneEmpty(more)
    PROVE  /\ StoreShape(st \o more, off) \/ (st = <<>> /\ more = <<>>)
           /\ StoreShape(st \o more, off)
           /\ Waiting(st \o more, off) = Cat(Waiting(st, off), Bytes(more))
           /\ Length(st \o more) = Length(st) + Length(more)
  <1>. DEFINE C == Seq(Byte)
  <1>1. st \in Cbuf /\ NoneEmpty(st) /\ off \in Nat  BY DEF StoreShape
  <1>2. /\ st \o more \in Cbuf /\ NoneEmpty(st \o more) /\ Bytes(st) \in Seq(Byte) /\ Bytes(more) \in Seq(Byte)
        /\ Bytes(st \o more) = Cat(Bytes(st), Bytes(more)) /\ Length(st \o more) = Length(st) + Length(more)
        /\ Length(st) \in Nat /\ Length(more) \in Nat /\ (st # <<>> \/ more # <<>> => st \o more # <<>>)
    BY <1>1, ListsJoined
  <1>3. off \in 0..Length(st)  BY StoreFacts
  <1>4. StoreShape(st \o more, off)
    <2>1. CASE st = <<>>
      <3>1. off = 0  BY <2>1 DEF StoreShape
      <3>2. st \o more # <<>> => Len((st \o more)[1]) \in Nat \ {0}  BY <1>2, FirstOfStore
      <3>. QED  BY <3>1, <3>2, <1>2 DEF StoreShape
    <2>2. CASE st # <<>>
      <3>1. st \in Seq(C) /\ more \in Seq(C)  BY <1>1 DEF Cbuf
      <3>2. (st \o more)[1] = st[1]
        <4>. HIDE DEF C
        <4>. QED  BY <3>1, <2>2
      <3>3. off < Len(st[1])  BY <2>2 DEF StoreShape
      <3>4. st \o more # <<>>  BY <1>2, <2>2
      <3>. QED  BY <3>2, <3>3, <3>4, <1>1, <1>2 DEF StoreShape
    <2>. QED  BY <2>1, <2>2
  <1>5. off \in 0..Len(Bytes(st))  BY <1>3 DEF Length
  <1>6. Slice(Cat(Bytes(st), Bytes(more)), off, Len(Bytes(st)) + Len(Bytes(more)))
           = Cat(Slice(Bytes(st), off, Len(Bytes(st))), Bytes(more))
    BY <1>2, <1>5, SliceOfCat
  <1>7. Waiting(st \o more, off) = Cat(Waiting(st, off), Bytes(more))
    BY <1>2, <1>6 DEF Waiting, Length
  <1>. QED  BY <1>2, <1>4, <1>7

\* Writing n bytes of the first cbuf, and going on behind them.
Advances(st, off, n, rest, pos) ==
    /\ rest = IF n = Len(st[1]) - off THEN Tail(st) ELSE st
    /\ pos = IF n = Len(st[1]) - off THEN 0 ELSE off + n
\* A write takes the first unwritten bytes into the file, whole cbufs or a part of one.
LEMMA StoreWritten ==
    ASSUME NEW st, NEW off, StoreShape(st, off), st # <<>>, NEW n \in 1..(Len(st[1]) - off),
           NEW rest, NEW pos, Advances(st, off, n, rest, pos)
    PROVE  /\ StoreShape(rest, pos) /\ Slice(st[1], off, off + n) \in Seq(Byte)
           /\ Cat(Slice(st[1], off, off + n), Waiting(rest, pos)) = Waiting(st, off)
           /\ Length(rest) - pos = Length(st) - off - n /\ n \in Nat
           /\ Slice(st[1], off, off + n) # <<>>
  <1>. DEFINE one  == st[1]
              tail == Bytes(Tail(st))
  <1>1. st \in Cbuf /\ NoneEmpty(st) /\ off \in Nat /\ off < Len(one)  BY DEF StoreShape
  <1>2. /\ one \in Seq(Byte) /\ one # <<>> /\ Tail(st) \in Cbuf /\ NoneEmpty(Tail(st))
        /\ tail \in Seq(Byte) /\ Bytes(st) = Cat(one, tail)
        /\ Length(st) = Len(one) + Length(Tail(st)) /\ Len(one) \in Nat \ {0} /\ Length(Tail(st)) \in Nat
        /\ Length(Tail(st)) = Len(tail)
    BY <1>1, FirstOfStore DEF Length
  <1>3. n \in 1..(Len(one) - off) /\ rest = (IF n = Len(one) - off THEN Tail(st) ELSE st)
        /\ pos = (IF n = Len(one) - off THEN 0 ELSE off + n)
    BY DEF Advances
  <1>4. Waiting(st, off) = Slice(Cat(one, tail), off, Len(one) + Len(tail))  BY <1>2 DEF Waiting
  <1>. HIDE DEF one, tail
  <1>4a. \A i \in 0..Len(one) : Slice(Cat(one, tail), i, Len(one) + Len(tail)) = Cat(Slice(one, i, Len(one)), tail)
    BY <1>2, SliceOfCat
  <1>6. off \in 0..(off + n) /\ off + n \in 0..Len(one) /\ off \in 0..Len(one) /\ n \in Nat
        /\ Len(one) \in 0..Len(one) /\ off + n \in Nat /\ (off + n) - off = n
    BY <1>1, <1>2, <1>3
  <1>7. Slice(one, off, off + n) \in Seq(Byte) /\ Slice(one, off + n, Len(one)) \in Seq(Byte)
        /\ Len(Slice(one, off, off + n)) = n
    BY <1>2, <1>6, SliceProperties
  <1>8. Cat(Slice(one, off, off + n), Slice(one, off + n, Len(one))) = Slice(one, off, Len(one))
    BY <1>2, <1>6, SliceJoin
  <1>9. Waiting(st, off) = Cat(Cat(Slice(one, off, off + n), Slice(one, off + n, Len(one))), tail)
    BY <1>4, <1>4a, <1>6, <1>8
  <1>10. Waiting(st, off) = Cat(Slice(one, off, off + n), Cat(Slice(one, off + n, Len(one)), tail))
    BY <1>9, <1>7, <1>2, CatAssociative
  <1>11. Slice(one, off, off + n) # <<>>  BY <1>7, <1>3, <1>6
  <1>12. CASE n = Len(one) - off
    <2>1. rest = Tail(st) /\ pos = 0 /\ off + n = Len(one)  BY <1>12, <1>3, <1>1, <1>2
    <2>2. StoreShape(Tail(st), 0)
      <3>1. Tail(st) # <<>> => Len(Tail(st)[1]) \in Nat \ {0}  BY <1>2, FirstOfStore
      <3>. QED  BY <3>1, <1>2 DEF StoreShape
    <2>3. Waiting(Tail(st), 0) = tail
      BY <1>2, SliceEnds DEF Waiting, tail, Length
    <2>4. Slice(one, off + n, Len(one)) = <<>>  BY <2>1, <1>2, <1>6, SliceEnds
    <2>5. Cat(<<>>, tail) = tail  BY <1>2, CatType
    <2>6. Waiting(st, off) = Cat(Slice(one, off, off + n), Waiting(rest, pos))
      BY <1>10, <2>1, <2>3, <2>4, <2>5
    <2>7. Length(rest) - pos = Length(st) - off - n
      <3>1. Length(rest) = Length(Tail(st))  BY <2>1
      <3>2. Length(st) = Len(one) + Length(Tail(st)) /\ Len(one) \in Nat /\ Length(Tail(st)) \in Nat
            /\ n = Len(one) - off /\ off \in Nat /\ pos = 0
        BY <1>1, <1>2, <1>12, <2>1
      <3>. QED  BY ONLY <3>1, <3>2
    <2>. QED  BY <2>1, <2>2, <2>6, <2>7, <1>7, <1>6, <1>11 DEF one
  <1>13. CASE n # Len(one) - off
    <2>1. rest = st /\ pos = off + n /\ off + n < Len(one)  BY <1>13, <1>3, <1>1, <1>2
    <2>2. StoreShape(rest, pos)  BY <2>1, <1>1, <1>6 DEF StoreShape, one
    <2>3. Waiting(rest, pos) = Cat(Slice(one, off + n, Len(one)), tail)
      BY <2>1, <1>2, <1>4a, <1>6 DEF Waiting
    <2>4. Length(rest) - pos = Length(st) - off - n  BY <2>1, <1>2, <1>1, <1>6
    <2>. QED  BY <2>2, <2>3, <2>4, <1>10, <1>7, <1>6, <1>11 DEF one
  <1>. QED  BY <1>12, <1>13

-----------------------------------------------------------------------------
(* Where the bytes are                                                      *)

\* How many bytes were taken, and that what is in the file, the store and the list of the
\* second processor, in this order, is what the first has put out.
LEMMA Places ==
    ASSUME IInv
    PROVE  /\ StoreShape(store, offset) /\ Unwritten = Waiting(store, offset)
           /\ file.content \in Seq(Byte) /\ Unwritten \in Seq(Byte) /\ Written \in Seq(Byte)
           /\ Bytes(mp_list) \in Seq(Byte) /\ Emitted \in Seq(Byte)
           /\ Len(Emitted) = Len(Written) + Length(mp_list)
           /\ Len(Written) \in Nat /\ Length(mp_list) \in Nat
           /\ mp_list = <<>> <=> Length(mp_list) = 0
           /\ req.stream \in Seq(Byte) /\ Len(req.stream) \in Nat
           /\ arrived \in Nat /\ arrived \in 0..Len(req.stream) /\ Length(rcv) \in Nat
           /\ Taken \in 0..arrived /\ Taken \in 0..Len(req.stream) /\ Taken \in Nat
           /\ Length(rcv) = arrived - Taken /\ Bytes(rcv) \in Seq(Byte)
           /\ rcv = <<>> <=> Length(rcv) = 0
  <1>1. /\ rcv \in Cbuf /\ mp_list \in Cbuf /\ NoneEmpty(rcv) /\ NoneEmpty(mp_list)
        /\ StoreShape(store, offset) /\ file.content \in Seq(Byte)
    BY DEF IInv, Lists3, StoreShape
  <1>2. /\ Bytes(rcv) \in Seq(Byte) /\ Length(rcv) \in Nat /\ Bytes(mp_list) \in Seq(Byte)
        /\ Length(mp_list) \in Nat /\ (mp_list = <<>> <=> Length(mp_list) = 0) /\ (rcv = <<>> <=> Length(rcv) = 0)
    BY <1>1, ListsJoined
  <1>3. req \in Requests /\ arrived \in 0..Len(req.stream) /\ Length(rcv) <= arrived
    BY DEF IInv, Received
  <1>4. req.stream \in Seq(Byte) /\ Len(req.stream) \in Nat  BY <1>3, RequestFacts
  <1>5. Unwritten = Waiting(store, offset)  BY DEF Unwritten, Waiting, Slice
  <1>6. Unwritten \in Seq(Byte)  BY <1>1, <1>5, StoreFacts
  <1>7. Written \in Seq(Byte)  BY <1>1, <1>6, CatType DEF Written
  <1>8. Emitted \in Seq(Byte) /\ Len(Emitted) = Len(Written) + Length(mp_list) /\ Len(Written) \in Nat
    BY <1>2, <1>7, CatType DEF Emitted, Length
  <1>9. /\ arrived \in Nat /\ Taken \in 0..arrived /\ Taken \in 0..Len(req.stream) /\ Taken \in Nat
        /\ Length(rcv) = arrived - Taken
    BY <1>2, <1>3, <1>4 DEF Taken
  <1>. QED  BY <1>1, <1>2, <1>3, <1>4, <1>5, <1>6, <1>7, <1>8, <1>9

\* n bytes are taken out of the input.
LEMMA InputTaken ==
    ASSUME IInv, NEW n \in 0..Length(rcv), Skips(n), UNCHANGED <<req, arrived>>
    PROVE  /\ rcv' \in Cbuf /\ NoneEmpty(rcv') /\ Taken' = Taken + n /\ Length(rcv') \in Nat
           /\ Length(rcv') <= arrived' /\ Bytes(rcv') = Slice(req'.stream, Taken', arrived')
           /\ FirstBytes(rcv, n) \in Cbuf /\ NoneEmpty(FirstBytes(rcv, n))
           /\ Bytes(FirstBytes(rcv, n)) = Slice(req.stream, Taken, Taken + n)
           /\ Slice(req.stream, Taken, Taken + n) \in Seq(Byte)
           /\ Taken + n <= Len(req.stream) /\ n \in Nat
  <1>1. /\ req.stream \in Seq(Byte) /\ arrived \in 0..Len(req.stream) /\ Taken \in 0..arrived
        /\ rcv \in Cbuf /\ NoneEmpty(rcv) /\ Bytes(rcv) = Slice(req.stream, Taken, arrived)
        /\ Length(rcv) \in Nat /\ arrived \in Nat /\ Taken \in Nat /\ Length(rcv) = arrived - Taken
        /\ Len(req.stream) \in Nat
    BY Places DEF IInv, Lists3, Received
  <1>2. /\ FirstBytes(rcv, n) \in Cbuf /\ NoneEmpty(FirstBytes(rcv, n))
        /\ RestBytes(rcv, n) \in Cbuf /\ NoneEmpty(RestBytes(rcv, n))
        /\ Bytes(FirstBytes(rcv, n)) = Slice(req.stream, Taken, Taken + n)
        /\ Bytes(RestBytes(rcv, n)) = Slice(req.stream, Taken + n, arrived)
        /\ Length(RestBytes(rcv, n)) = Length(rcv) - n
    BY <1>1, ListTaken
  <1>3. rcv' = RestBytes(rcv, n) /\ req' = req /\ arrived' = arrived  BY DEF Skips
  <1>4. Taken' = arrived' - Length(rcv')  BY DEF Taken
  <1>5. Taken' = Taken + n /\ Length(rcv') \in Nat /\ Length(rcv') <= arrived' /\ Taken + n <= Len(req.stream)
    BY <1>1, <1>2, <1>3, <1>4
  <1>6. Slice(req.stream, Taken, Taken + n) \in Seq(Byte)
    <2>1. Taken + n \in 0..Len(req.stream) /\ Taken \in 0..(Taken + n)  BY <1>1, <1>5
    <2>. QED  BY <2>1, <1>1, SliceProperties
  <1>. QED  BY <1>1, <1>2, <1>3, <1>5, <1>6

Kept == IF req.multipart THEN Written' = Written /\ (mp_list # <<>> => mp_list' # <<>>)
                         ELSE mp_list' = <<>>

\* What the first processor puts out.
LEMMA PutOut ==
    ASSUME IInv, NEW cbufs \in Cbuf, NoneEmpty(cbufs), Out(cbufs), UNCHANGED <<req, offset, file>>
    PROVE  /\ Emitted' = Cat(Emitted, Bytes(cbufs)) /\ Kept
           /\ mp_list' \in Cbuf /\ NoneEmpty(mp_list') /\ StoreShape(store', offset')
  <1>1. /\ StoreShape(store, offset) /\ Unwritten = Waiting(store, offset) /\ Unwritten \in Seq(Byte)
        /\ file.content \in Seq(Byte) /\ Written \in Seq(Byte) /\ Bytes(mp_list) \in Seq(Byte)
        /\ mp_list \in Cbuf /\ NoneEmpty(mp_list)
    BY Places DEF IInv, Lists3
  <1>2. Unwritten' = Waiting(store', offset') /\ offset' = offset /\ file' = file /\ req' = req
        /\ Written' = Cat(file'.content, Unwritten') /\ Emitted' = Cat(Written', Bytes(mp_list'))
    BY DEF Unwritten, Waiting, Slice, Written, Emitted
  <1>3. req.multipart \in BOOLEAN /\ Bytes(cbufs) \in Seq(Byte)
    BY RequestFacts, ListsJoined DEF IInv, Received
  <1>4. CASE req.multipart
    <2>1. mp_list' = mp_list \o cbufs /\ store' = store  BY <1>4 DEF Out
    <2>2. /\ mp_list \o cbufs \in Cbuf /\ NoneEmpty(mp_list \o cbufs)
          /\ Bytes(mp_list \o cbufs) = Cat(Bytes(mp_list), Bytes(cbufs))
          /\ mp_list # <<>> => mp_list \o cbufs # <<>>
      BY <1>1, ListsJoined
    <2>3. Written' = Written  BY <2>1, <1>1, <1>2 DEF Written
    <2>4. Cat(Cat(Written, Bytes(mp_list)), Bytes(cbufs)) = Cat(Written, Cat(Bytes(mp_list), Bytes(cbufs)))
      BY <1>1, <1>3, CatAssociative
    <2>5. Emitted' = Cat(Written, Cat(Bytes(mp_list), Bytes(cbufs)))  BY <1>2, <2>1, <2>2, <2>3
    <2>. QED  BY <1>4, <2>1, <2>2, <2>3, <2>4, <2>5, <1>1, <1>2 DEF Emitted, Kept
  <1>5. CASE ~req.multipart
    <2>1. store' = store \o cbufs /\ mp_list' = mp_list  BY <1>5 DEF Out
    <2>2. mp_list = <<>>  BY <1>5 DEF IInv, SecondPlace
    <2>3. StoreShape(store \o cbufs, offset)
          /\ Waiting(store \o cbufs, offset) = Cat(Waiting(store, offset), Bytes(cbufs))
      BY <1>1, StoreAppended
    <2>4. Bytes(mp_list) = <<>>
      <3>1. <<>> \in Seq(Seq(Byte)) /\ <<>> \in Seq(Byte)  OBVIOUS
      <3>. QED  BY <3>1, <2>2, FlattenAppend DEF Bytes
    <2>5. Emitted = Written /\ Emitted' = Written'
      <3>1. Written' \in Seq(Byte)
        <4>1. Unwritten' \in Seq(Byte)  BY <1>2, <2>1, <2>3, StoreFacts
        <4>. QED  BY <4>1, <1>1, <1>2, CatType
      <3>. QED  BY <3>1, <1>1, <1>2, <2>1, <2>4, CatType DEF Emitted
    <2>6. Written' = Cat(file.content, Cat(Unwritten, Bytes(cbufs)))  BY <1>1, <1>2, <2>1, <2>3
    <2>7. Cat(Cat(file.content, Unwritten), Bytes(cbufs)) = Cat(file.content, Cat(Unwritten, Bytes(cbufs)))
      BY <1>1, <1>3, CatAssociative
    <2>. QED  BY <1>1, <1>2, <1>5, <2>1, <2>2, <2>3, <2>5, <2>6, <2>7 DEF Written, Kept
  <1>. QED  BY <1>3, <1>4, <1>5

\* What the second processor holds was not written.
LEMMA NotPutOut ==
    ASSUME IInv, NoOut, UNCHANGED <<req, offset, file>>
    PROVE  /\ Emitted' = Emitted /\ Written' = Written /\ Kept
           /\ mp_list' \in Cbuf /\ NoneEmpty(mp_list') /\ StoreShape(store', offset')
  <1>1. Unwritten' = Unwritten /\ mp_list' = mp_list /\ store' = store /\ file' = file /\ offset' = offset
    BY DEF NoOut, Unwritten
  <1>2. Written' = Written /\ Emitted' = Emitted  BY <1>1 DEF Written, Emitted
  <1>3. StoreShape(store, offset) /\ mp_list \in Cbuf /\ NoneEmpty(mp_list)
        /\ (~req.multipart => mp_list = <<>>)
    BY DEF IInv, Lists3, StoreShape, SecondPlace
  <1>. QED  BY <1>1, <1>2, <1>3 DEF Kept

-----------------------------------------------------------------------------
(* Steps of the first processor                                             *)

\* The second processor is given more of the content to hold.
LEMMA HeldGrows ==
    ASSUME NEW c, NEW m, NEW h, NEW g, PartsAt(c, m, h), h => g
    PROVE  PartsAt(c, m, g)
  BY DEF PartsAt, PartAt

\* It took something, or waits.
LEMMA FirstStep ==
    ASSUME IInv, pc = "isp", ~Final(req, isp), IspUnchanged,
           rcv' \in Cbuf, NoneEmpty(rcv'), mp_list' \in Cbuf, NoneEmpty(mp_list'), StoreShape(store', offset'),
           Length(rcv') <= arrived', Bytes(rcv') = Slice(req'.stream, Taken', arrived'),
           isp' \in IspType, isp'.index <= Taken', FirstAt(req, isp', Taken', Emitted'), Kept,
           failures' \in 0..MaxFailures, GoesOn \/ WantsMore \/ Polled
    PROVE  IInv'
  <1>1. /\ req' = req /\ arrived' = arrived /\ burst' = burst /\ mp' = mp /\ offset' = offset
        /\ file' = file /\ poll' = poll
    BY DEF IspUnchanged, input
  <1>2. Lists3'  BY <1>1 DEF IInv, Lists3, StoreShape
  <1>3. /\ pc' \in {"isp", "multipart", "store"} /\ eos' \in BOOLEAN /\ poll_request' \in BOOLEAN
        /\ size' = size /\ verdict' = verdict
        /\ ~req.multipart => pc' # "multipart"
        /\ pc' = "multipart" => eos' = FALSE
    BY DEF GoesOn, WantsMore, Polled, IInv, Scalars
  <1>4. Scalars'  BY <1>1, <1>3 DEF IInv, Scalars
  <1>5. Received'  BY <1>1 DEF IInv, Received
  <1>6. FirstPlace'  BY <1>1 DEF FirstPlace
  <1>7. SecondPlace'
    <2>1. CASE req.multipart
      <3>1. /\ mp.index <= Len(Written) /\ (mp.state \in {0, 1, 2} => mp.index = Len(Written))
            /\ mp.state # 4
            /\ mp.state # 5
            /\ PartsAt(ContentOf(req), mp, mp_list # <<>>)
        BY <2>1 DEF IInv, SecondPlace, Sizes
      <3>2. Written' = Written /\ (mp_list # <<>> => mp_list' # <<>>)  BY <2>1 DEF Kept
      <3>3. PartsAt(ContentOf(req), mp, mp_list' # <<>>)  BY <3>1, <3>2, HeldGrows
      <3>. QED  BY <1>1, <1>3, <2>1, <3>1, <3>2, <3>3 DEF SecondPlace
    <2>2. CASE ~req.multipart
      BY <2>2, <1>1, <1>3 DEF IInv, SecondPlace, Kept
    <2>. QED  BY <2>1, <2>2
  <1>8. Sizes'
    <2>1. size = Unknown /\ file.mode \notin {"closed", "read"} /\ verdict = "receiving"
      BY DEF IInv, Sizes, Complete
    <2>. QED  BY <2>1, <1>1, <1>3 DEF Sizes
  <1>. QED  BY <1>2, <1>4, <1>5, <1>6, <1>7, <1>8 DEF IInv

\* It refuses the body.
LEMMA FirstRefuses ==
    ASSUME IInv, pc = "isp", ~Final(req, isp), IspUnchanged, NothingTaken, NoFailure, Fatal,
           ~SentWhole(req)
    PROVE  IInv'
  <1>1. /\ req' = req /\ arrived' = arrived /\ burst' = burst /\ mp' = mp /\ offset' = offset
        /\ file' = file /\ poll' = poll /\ rcv' = rcv /\ isp' = isp /\ mp_list' = mp_list /\ store' = store
        /\ failures' = failures /\ pc' = "idle" /\ verdict' = "refused" /\ eos' = eos /\ size' = size
        /\ poll_request' = poll_request
    BY DEF IspUnchanged, input, NothingTaken, NoOut, NoFailure, Fatal
  <1>2. Taken' = Taken /\ Written' = Written /\ Emitted' = Emitted
    BY <1>1 DEF Taken, Written, Emitted, Unwritten
  <1>3. ~req.body.whole  BY RequestFacts DEF IInv, Received
  <1>4. Lists3' /\ Scalars' /\ Received' /\ FirstPlace'
    BY <1>1, <1>2 DEF IInv, Lists3, Scalars, Received, FirstPlace
  <1>5. SecondPlace'
    <2>1. mp.state # 5 \/ ~req.multipart  BY DEF IInv, SecondPlace, Sizes
    <2>. QED  BY <2>1, <1>1, <1>2 DEF IInv, SecondPlace
  <1>6. Sizes'
    <2>1. size = Unknown /\ file.mode \notin {"closed", "read"} /\ verdict = "receiving"
      BY DEF IInv, Sizes, Complete
    <2>. QED  BY <2>1, <1>1, <1>3 DEF Sizes
  <1>. QED  BY <1>4, <1>5, <1>6 DEF IInv

\* It is done.
LEMMA FirstFinished ==
    ASSUME IInv, pc = "isp", Final(req, isp), IspUnchanged, NothingTaken, NoFailure, Exhausted
    PROVE  IInv'
  <1>1. /\ req' = req /\ arrived' = arrived /\ burst' = burst /\ mp' = mp /\ offset' = offset
        /\ file' = file /\ poll' = poll /\ rcv' = rcv /\ isp' = isp /\ mp_list' = mp_list /\ store' = store
        /\ failures' = failures /\ verdict' = verdict /\ poll_request' = poll_request
    BY DEF IspUnchanged, input, NothingTaken, NoOut, NoFailure, Exhausted
  <1>2. Taken' = Taken /\ Written' = Written /\ Emitted' = Emitted
    BY <1>1 DEF Taken, Written, Emitted, Unwritten
  <1>3. IF req.multipart THEN pc' = "multipart" /\ eos' = TRUE /\ size' = size
                         ELSE pc' = "store" /\ size' = Length(store) /\ eos' = eos
    BY DEF Exhausted, Finished
  <1>4. Length(store) \in Nat /\ offset \in Nat  BY Places, StoreFacts DEF StoreShape
  <1>5. Lists3' /\ Scalars' /\ Received' /\ FirstPlace'
    BY <1>1, <1>2, <1>3, <1>4 DEF IInv, Lists3, Scalars, Received, FirstPlace
  <1>6. verdict = "receiving"  BY DEF IInv, Sizes
  <1>7. SecondPlace'
    <2>1. mp.state # 5 \/ ~req.multipart  BY <1>6 DEF IInv, SecondPlace
    <2>. QED  BY <2>1, <1>1, <1>2, <1>3 DEF IInv, SecondPlace
  <1>8. Sizes'
    <2>1. CASE req.multipart
      BY <2>1, <1>1, <1>3, <1>6 DEF IInv, Sizes, Complete
    <2>2. CASE ~req.multipart
      <3>1. Complete'  BY <2>2, <1>1 DEF Complete
      <3>2. size' = Length(store) /\ size' >= Length(store) - offset  BY <2>2, <1>3, <1>4
      <3>. QED  BY <3>1, <3>2, <2>2, <1>1, <1>3, <1>6 DEF IInv, Sizes
    <2>. QED  BY <2>1, <2>2
  <1>. QED  BY <1>5, <1>7, <1>8 DEF IInv

-----------------------------------------------------------------------------
(* The actions of the first processor                                       *)

\* The string is found at the beginning of a list that holds a slice, or it is not there.
LEMMA FoundFirst ==
    ASSUME NEW s \in Seq(Byte), NEW q \in 0..Len(s), NEW p \in 0..q,
           NEW list \in Seq(Seq(Byte)), Bytes(list) = Slice(s, p, q),
           NEW str \in Seq(Byte), str # <<>>, Len(str) <= q - p
    PROVE  StrStr(list, str) = 0 <=> Occurs(s, p, str)
  <1>1. Len(str) \in Nat /\ Len(s) \in Nat /\ p \in Nat /\ q \in Nat /\ q <= Len(s) /\ p <= q
    BY SliceEnds
  <1>2. \/ StrStr(list, str) = OOB /\ \A i \in p..(q - Len(str)) : ~Occurs(s, i, str)
        \/ /\ StrStr(list, str) \in Nat /\ StrStr(list, str) # OOB
           /\ Find(s, p, str) = p + StrStr(list, str)
           /\ Occurs(s, Find(s, p, str), str)
    BY StrStrInSlice
  <1>3. \/ Find(s, p, str) = OOB /\ \A i \in p..Len(s) : ~Occurs(s, i, str)
        \/ /\ Find(s, p, str) \in p..Len(s)
           /\ \A i \in p..(Find(s, p, str) - 1) : ~Occurs(s, i, str)
    BY <1>1, FindFinds
  <1>4. CASE StrStr(list, str) = OOB
    <2>1. \A i \in p..(q - Len(str)) : ~Occurs(s, i, str)  BY <1>2, <1>4
    <2>2. p \in p..(q - Len(str))  BY <1>1
    <2>. QED  BY <2>1, <2>2, <1>4 DEF OOB
  <1>5. CASE StrStr(list, str) # OOB
    <2>1. StrStr(list, str) \in Nat /\ Find(s, p, str) = p + StrStr(list, str) /\ Occurs(s, Find(s, p, str), str)
      BY <1>2, <1>5
    <2>2. Find(s, p, str) # OOB  BY <2>1, <1>1 DEF OOB
    <2>3. \A i \in p..(Find(s, p, str) - 1) : ~Occurs(s, i, str)  BY <1>3, <2>2
    <2>4. StrStr(list, str) = 0 => Occurs(s, p, str)
      <3>1. StrStr(list, str) = 0 => Find(s, p, str) = p  BY <2>1, <1>1
      <3>. QED  BY <3>1, <2>1
    <2>5. StrStr(list, str) # 0 => p \in p..(Find(s, p, str) - 1)  BY <2>1, <1>1
    <2>. QED  BY <2>3, <2>4, <2>5
  <1>. QED  BY <1>4, <1>5

\* Nothing is taken: the processor waits, or memory is denied.
LEMMA FirstWaits ==
    ASSUME IInv, pc = "isp", ~Final(req, isp), IspUnchanged, NothingTaken,
           GoesOn \/ WantsMore \/ Polled, NoFailure \/ Denied
    PROVE  IInv'
  <1>1. rcv' = rcv /\ isp' = isp /\ NoOut /\ UNCHANGED <<req, arrived, offset, file>>
    BY DEF NothingTaken, IspUnchanged, input
  <1>2. /\ Emitted' = Emitted /\ Kept
        /\ mp_list' \in Cbuf /\ NoneEmpty(mp_list') /\ StoreShape(store', offset')
    BY <1>1, NotPutOut
  <1>3. Taken' = Taken  BY <1>1 DEF Taken
  <1>4. failures' \in 0..MaxFailures
    <2>1. failures \in 0..MaxFailures /\ MaxFailures \in Nat
      BY BoundsAssumption DEF IInv, Scalars
    <2>2. CASE NoFailure  BY <2>1, <2>2 DEF NoFailure
    <2>3. CASE Denied  BY <2>1, <2>3 DEF Denied
    <2>. QED  BY <2>2, <2>3
  <1>5. /\ rcv' \in Cbuf /\ NoneEmpty(rcv') /\ Length(rcv') <= arrived'
        /\ Bytes(rcv') = Slice(req'.stream, Taken', arrived')
        /\ isp' \in IspType /\ isp'.index <= Taken' /\ FirstAt(req, isp', Taken', Emitted')
    BY <1>1, <1>2, <1>3 DEF IInv, Lists3, Received, Scalars, FirstPlace
  <1>. QED  BY <1>2, <1>4, <1>5, FirstStep

\* n bytes are taken and put out, or taken and dropped.
LEMMA FirstTakes ==
    ASSUME IInv, pc = "isp", ~Final(req, isp), IspUnchanged, NEW n \in 0..Length(rcv), Skips(n),
           GoesOn \/ WantsMore, NoFailure, isp' \in IspType, isp'.index <= Taken + n,
           \/ /\ Out(FirstBytes(rcv, n))
              /\ FirstAt(req, isp', Taken + n, Cat(Emitted, Slice(req.stream, Taken, Taken + n)))
           \/ NoOut /\ FirstAt(req, isp', Taken + n, Emitted)
    PROVE  IInv'
  <1>1. UNCHANGED <<req, arrived, offset, file>>
    BY DEF IspUnchanged, input
  <1>2. /\ rcv' \in Cbuf /\ NoneEmpty(rcv') /\ Taken' = Taken + n
        /\ Length(rcv') <= arrived' /\ Bytes(rcv') = Slice(req'.stream, Taken', arrived')
        /\ FirstBytes(rcv, n) \in Cbuf /\ NoneEmpty(FirstBytes(rcv, n))
        /\ Bytes(FirstBytes(rcv, n)) = Slice(req.stream, Taken, Taken + n)
    BY <1>1, InputTaken
  <1>3. /\ Kept /\ mp_list' \in Cbuf /\ NoneEmpty(mp_list') /\ StoreShape(store', offset')
        /\ FirstAt(req, isp', Taken', Emitted')
    <2>1. CASE /\ Out(FirstBytes(rcv, n))
               /\ FirstAt(req, isp', Taken + n, Cat(Emitted, Slice(req.stream, Taken, Taken + n)))
      BY <2>1, <1>1, <1>2, PutOut
    <2>2. CASE NoOut /\ FirstAt(req, isp', Taken + n, Emitted)
      BY <2>2, <1>1, <1>2, NotPutOut
    <2>. QED  BY <2>1, <2>2
  <1>4. failures' \in 0..MaxFailures  BY DEF NoFailure, IInv, Scalars
  <1>. QED  BY <1>1, <1>2, <1>3, <1>4, FirstStep

\* elysian_isp_http_body_raw keeps the invariant.
LEMMA RawStep == IInv /\ Raw => IInv'
  <1>. SUFFICES ASSUME IInv, Raw PROVE IInv'  OBVIOUS
  <1>1. /\ req \in Requests /\ Length(rcv) \in Nat /\ isp \in IspType /\ Taken \in Nat
        /\ Taken + Length(rcv) <= Len(req.stream) /\ Len(req.stream) \in Nat
        /\ req.stream \in Seq(Byte) /\ req.body_len \in Nat
    <2>1. req \in Requests /\ isp \in IspType  BY DEF IInv, Received, Scalars
    <2>. QED  BY <2>1, Places, RequestFacts
  <1>2. req.framing = "raw" => RawAt(req, isp, Taken, Emitted)
    BY DEF IInv, FirstPlace, FirstAt
  <1>3. CASE RawTake
    <2>1. pc = "isp" /\ req.framing = "raw" /\ isp.state = 0  BY <1>3 DEF RawTake, InIsp
    <2>2. ~Final(req, isp)  BY <2>1 DEF Final
    <2>3. RawAt(req, isp, Taken, Emitted) /\ isp.index \in Nat /\ isp.index <= req.body_len /\ Taken = isp.index
      BY <1>1, <1>2, <2>1 DEF RawAt, IspType
    <2>4. RawSize \in 0..Length(rcv) /\ RawSize <= req.body_len - isp.index /\ RawSize \in Nat
      BY <1>1, <2>3 DEF RawSize
    <2>. DEFINE n == RawSize
    <2>5. /\ isp' = [isp EXCEPT !.index = isp.index + n, !.state = IF isp.index + n = req.body_len THEN 1 ELSE 0]
          /\ GoesOn \/ WantsMore
      BY <1>3, <1>1, <2>1 DEF RawTake, IspType
    <2>6. isp' \in IspType /\ isp'.index = isp.index + n /\ isp'.state = (IF isp'.index = req.body_len THEN 1 ELSE 0)
      <3>1. isp' = [state |-> IF isp.index + n = req.body_len THEN 1 ELSE 0, index |-> isp.index + n, size |-> isp.size]
        BY <1>1, <2>5 DEF IspType
      <3>2. isp.index + n \in Nat /\ isp.size \in Nat  BY <2>3, <2>4, <1>1 DEF IspType
      <3>. QED  BY <3>1, <3>2 DEF IspType
    <2>7. /\ IspUnchanged /\ Skips(n) /\ Out(FirstBytes(rcv, n)) /\ NoFailure
      BY <1>3 DEF RawTake, Cut
    <2>. HIDE DEF n
    <2>8. n \in 0..Length(rcv) /\ n <= req.body_len - isp.index /\ n \in Nat /\ Taken + n <= Len(req.stream)
      BY <2>4, <1>1 DEF n
    <2>9. RawAt(req, isp', Taken + n, Cat(Emitted, Slice(req.stream, Taken, Taken + n)))
      BY <2>8, <2>6, <2>3, <2>1, <1>1, RawTakes
    <2>10. FirstAt(req, isp', Taken + n, Cat(Emitted, Slice(req.stream, Taken, Taken + n)))
      BY <2>9, <2>1 DEF FirstAt
    <2>12. isp'.index <= Taken + n  BY <2>6, <2>3, <2>8
    <2>. QED  BY <2>1, <2>2, <2>5, <2>6, <2>7, <2>8, <2>10, <2>12, FirstTakes
  <1>4. CASE RawDenied
    BY <1>4, FirstWaits DEF RawDenied, InIsp, Final, NoCut
  <1>5. CASE RawDone
    BY <1>5, FirstFinished DEF RawDone, InIsp, Final
  <1>. QED  BY <1>3, <1>4, <1>5 DEF Raw

\* The size line in the input is the one in the stream.
LEMMA SizeLine ==
    ASSUME IInv
    PROVE  /\ LineGood => /\ IsLine(req.stream, Taken) /\ LineEnd + 2 \in 0..Length(rcv)
                          /\ DataAt(req.stream, Taken) = Taken + (LineEnd + 2)
                          /\ SizeAt(req.stream, Taken) = Hex(SubSeq(Bytes(rcv), 1, LineEnd))
           /\ LineBad => ~IsLine(req.stream, Taken)
  <1>. DEFINE s == req.stream
              p == Taken
              q == arrived
  <1>1. /\ s \in Seq(Byte) /\ q \in 0..Len(s) /\ p \in 0..q /\ rcv \in Seq(Seq(Byte))
        /\ Bytes(rcv) = Slice(s, p, q) /\ Length(rcv) = q - p /\ p \in Nat /\ q \in Nat /\ Len(s) \in Nat
    BY Places DEF IInv, Lists3, Received, Cbuf
  <1>. HIDE DEF s, p, q
  <1>2. \/ LineEnd = OOB /\ \A i \in p..(q - Len(CRLF)) : ~Occurs(s, i, CRLF)
        \/ /\ LineEnd \in Nat /\ LineEnd # OOB
           /\ p + LineEnd + Len(CRLF) <= q
           /\ Find(s, p, CRLF) = p + LineEnd
           /\ Occurs(s, Find(s, p, CRLF), CRLF)
    BY <1>1, Marks, StrStrInSlice DEF LineEnd
  <1>3. Len(CRLF) = 2  BY Marks
  <1>4. ASSUME LineGood
        PROVE  /\ IsLine(s, p) /\ LineEnd + 2 \in 0..Length(rcv)
               /\ DataAt(s, p) = p + (LineEnd + 2)
               /\ SizeAt(s, p) = Hex(SubSeq(Bytes(rcv), 1, LineEnd))
    <2>1. LineEnd # OOB /\ LineEnd # 0 /\ ~(LineEnd > 8)
      BY <1>4, <1>1 DEF LineGood, LineIncomplete, LineBad
    <2>2. LineEnd \in Nat /\ p + LineEnd + 2 <= q /\ LineEndAt(s, p) = p + LineEnd
      BY <1>2, <1>3, <2>1 DEF LineEndAt
    <2>3. IsLine(s, p) /\ DataAt(s, p) = p + (LineEnd + 2)
      BY <2>1, <2>2, <1>1 DEF IsLine, DataAt, OOB
    <2>4. LineEnd + 2 \in 0..Length(rcv)  BY <2>2, <1>1
    <2>5. SubSeq(Bytes(rcv), 1, LineEnd) = Slice(Slice(s, p, q), 0, LineEnd)
      BY <1>1 DEF Slice
    <2>6. LineEnd \in 0..(q - p) /\ 0 \in 0..LineEnd /\ p + 0 = p  BY <2>2, <1>1
    <2>7. Slice(Slice(s, p, q), 0, LineEnd) = Slice(s, p + 0, p + LineEnd)  BY <2>6, <1>1, SliceOfSlice
    <2>8. SizeAt(s, p) = Hex(SubSeq(Bytes(rcv), 1, LineEnd))
      BY <2>2, <2>5, <2>6, <2>7 DEF SizeAt
    <2>. QED  BY <2>3, <2>4, <2>8
  <1>5. ASSUME LineBad PROVE ~IsLine(s, p)
    <2>1. CASE LineEnd = OOB
      <3>1. Length(rcv) > 10  BY <1>5, <2>1 DEF LineBad
      <3>2. \A i \in p..(q - 2) : ~Occurs(s, i, CRLF)  BY <1>2, <1>3, <2>1 DEF OOB
      <3>3. ASSUME IsLine(s, p) PROVE FALSE
        <4>1. LineEndAt(s, p) # OOB /\ LineEndAt(s, p) - p \in 1..8  BY <3>3 DEF IsLine
        <4>2. LineEndAt(s, p) \in p..Len(s) /\ Occurs(s, LineEndAt(s, p), CRLF)
          BY <4>1, <1>1, FindFinds DEF LineEndAt
        <4>3. LineEndAt(s, p) \in p..(q - 2)  BY <4>1, <4>2, <3>1, <1>1
        <4>. QED  BY <4>2, <4>3, <3>2
      <3>. QED  BY <3>3
    <2>2. CASE LineEnd # OOB
      <3>1. LineEnd = 0 \/ LineEnd > 8  BY <1>5, <2>2 DEF LineBad
      <3>2. LineEnd \in Nat /\ LineEndAt(s, p) = p + LineEnd  BY <1>2, <2>2 DEF LineEndAt
      <3>3. LineEndAt(s, p) - p = LineEnd  BY <3>2, <1>1
      <3>. QED  BY <3>1, <3>2, <3>3 DEF IsLine
    <2>. QED  BY <2>1, <2>2
  <1>. QED  BY <1>4, <1>5 DEF s, p, q

\* elysian_isp_http_body_chunked keeps the invariant, through each of its states.
LEMMA ChunkedStep == IInv /\ Chunked => IInv'
  <1>. SUFFICES ASSUME IInv, Chunked PROVE IInv'  OBVIOUS
  <1>. DEFINE s == req.stream
  <1>1. /\ req \in Requests /\ Length(rcv) \in Nat /\ isp \in IspType /\ Taken \in Nat
        /\ Taken + Length(rcv) <= Len(s) /\ Len(s) \in Nat /\ s \in Seq(Byte)
        /\ isp.index <= Taken /\ isp.index \in Nat /\ isp.size \in Nat
    <2>1. req \in Requests /\ isp \in IspType /\ isp.index <= Taken  BY DEF IInv, Received, Scalars
    <2>2. isp.index \in Nat /\ isp.size \in Nat  BY <2>1 DEF IspType
    <2>. QED  BY <2>1, <2>2, Places
  <1>2. /\ req.framing = "chunked" => ChunksAt(s, isp, Taken, Emitted)
        /\ req.framing = "chunked" /\ ~ChunkedWhole(s) => ~SentWhole(req)
        /\ \A j, t, out : req.framing = "chunked" /\ ChunksAt(s, j, t, out) => FirstAt(req, j, t, out)
        /\ req.framing = "chunked" /\ isp.state # 4 => ~Final(req, isp)
        /\ req.framing = "chunked" /\ isp.state = 4 => Final(req, isp)
    BY DEF IInv, FirstPlace, FirstAt, SentWhole, Final
  <1>. HIDE DEF s
  <1>3. CASE ChunkSize
    <2>1. pc = "isp" /\ req.framing = "chunked" /\ isp.state = 0 /\ LineGood /\ IspUnchanged
      BY <1>3 DEF ChunkSize, InIsp
    <2>2. /\ IsLine(s, Taken) /\ LineEnd + 2 \in 0..Length(rcv) /\ DataAt(s, Taken) = Taken + (LineEnd + 2)
          /\ SizeAt(s, Taken) = Hex(SubSeq(Bytes(rcv), 1, LineEnd))
      BY <2>1, SizeLine DEF s
    <2>. DEFINE n == LineEnd + 2
                size0 == SizeAt(s, Taken)
                j == [state |-> IF size0 = 0 THEN 4 ELSE 1, index |-> 0, size |-> size0]
    <2>3. \/ /\ NoFailure /\ Skips(n) /\ GoesOn /\ NoOut /\ isp' = j
          \/ Denied /\ Polled /\ NothingTaken
      BY <1>3, <2>2 DEF ChunkSize, Cut, NoCut
    <2>4. size0 \in Nat  BY <2>2, <1>1, LineFacts
    <2>5. j \in IspType /\ j.index = 0  BY <2>4 DEF IspType
    <2>6. ChunksAt(s, j, DataAt(s, Taken), Emitted)
      BY <2>1, <2>2, <1>1, <1>2, ChunkLineTaken
    <2>7. FirstAt(req, j, Taken + n, Emitted)  BY <2>6, <2>2, <2>1, <1>2
    <2>8. n \in 0..Length(rcv) /\ 0 <= Taken + n  BY <2>2, <1>1
    <2>9. ~Final(req, isp)  BY <2>1, <1>2
    <2>. HIDE DEF n, size0, j
    <2>10. CASE NoFailure /\ Skips(n) /\ GoesOn /\ NoOut /\ isp' = j
      BY <2>10, <2>1, <2>5, <2>7, <2>8, <2>9, FirstTakes
    <2>11. CASE Denied /\ Polled /\ NothingTaken
      BY <2>11, <2>1, <2>9, FirstWaits
    <2>. QED  BY <2>3, <2>10, <2>11
  <1>4. CASE ChunkSizeWaits
    BY <1>4, <1>2, FirstWaits DEF ChunkSizeWaits, InIsp
  <1>5. CASE ChunkSizeBad
    <2>1. pc = "isp" /\ req.framing = "chunked" /\ isp.state = 0 /\ LineBad /\ IspUnchanged
          /\ Fatal /\ NothingTaken /\ NoFailure
      BY <1>5 DEF ChunkSizeBad, InIsp
    <2>2. ~IsLine(s, Taken)  BY <2>1, SizeLine DEF s
    <2>3. ~ChunkedWhole(s)  BY <2>1, <2>2, <1>1, <1>2, ChunkLineTaken
    <2>. QED  BY <2>1, <2>3, <1>2, FirstRefuses
  <1>6. CASE ChunkData
    <2>1. pc = "isp" /\ req.framing = "chunked" /\ isp.state = 1 /\ IspUnchanged
          /\ NoFailure /\ Out(FirstBytes(rcv, DataSize)) /\ Skips(DataSize)
      BY <1>6 DEF ChunkData, InIsp, Cut
    <2>2. isp.index < isp.size
      <3>1. PICK k \in 0..Len(s) : ChunkAt(s, Chunks(s)[k], isp, Taken, Emitted)
        BY <2>1, <1>2 DEF ChunksAt
      <3>. QED  BY <3>1, <2>1 DEF ChunkAt
    <2>3. DataSize \in 0..Length(rcv) /\ DataSize <= isp.size - isp.index /\ DataSize \in Nat
      BY <2>2, <1>1 DEF DataSize
    <2>. DEFINE n == DataSize
    <2>4. /\ isp' = [isp EXCEPT !.index = isp.index + n, !.state = IF isp.index + n = isp.size THEN 2 ELSE 1]
          /\ GoesOn \/ WantsMore
      BY <1>6, <1>1, <2>1 DEF ChunkData, DataCounted, IspType
    <2>. HIDE DEF n
    <2>5. n \in 0..Length(rcv) /\ n <= isp.size - isp.index /\ n \in Nat /\ Taken + n <= Len(s)
      BY <2>3, <1>1 DEF n
    <2>6. isp' \in IspType /\ isp'.index = isp.index + n /\ isp'.size = isp.size
          /\ isp'.state = (IF isp'.index = isp.size THEN 2 ELSE 1)
      <3>1. isp' = [state |-> IF isp.index + n = isp.size THEN 2 ELSE 1, index |-> isp.index + n, size |-> isp.size]
        BY <1>1, <2>4 DEF IspType
      <3>2. isp.index + n \in Nat  BY <2>5, <1>1
      <3>. QED  BY <3>1, <3>2, <1>1 DEF IspType
    <2>7. ChunksAt(s, isp', Taken + n, Cat(Emitted, Slice(s, Taken, Taken + n)))
      BY <2>1, <2>5, <2>6, <1>1, <1>2, ChunkDataTaken
    <2>8. FirstAt(req, isp', Taken + n, Cat(Emitted, Slice(req.stream, Taken, Taken + n)))
      BY <2>7, <2>1, <1>2 DEF s
    <2>9. isp'.index <= Taken + n  BY <2>5, <2>6, <1>1
    <2>10. ~Final(req, isp)  BY <2>1, <1>2
    <2>11. Out(FirstBytes(rcv, n)) /\ Skips(n)  BY <2>1 DEF n
    <2>. QED  BY <2>1, <2>4, <2>5, <2>6, <2>8, <2>9, <2>10, <2>11, FirstTakes
  <1>7. CASE ChunkDataDenied
    BY <1>7, <1>2, FirstWaits DEF ChunkDataDenied, InIsp, NoCut
  <1>8. CASE ChunkDataWaits
    BY <1>8, <1>2, FirstWaits DEF ChunkDataWaits, InIsp
  <1>9. CASE ChunkEnd
    <2>1. pc = "isp" /\ req.framing = "chunked" /\ isp.state = 2 /\ IspUnchanged /\ ~Final(req, isp)
      BY <1>9, <1>2 DEF ChunkEnd, InIsp
    <2>2. Length(rcv) >= 2 => (StrStr(rcv, CRLF) = 0 <=> Occurs(s, Taken, CRLF))
      <3>1. /\ arrived \in 0..Len(s) /\ Taken \in 0..arrived /\ rcv \in Seq(Seq(Byte))
            /\ Bytes(rcv) = Slice(s, Taken, arrived) /\ Length(rcv) = arrived - Taken
        BY Places DEF IInv, Received, Lists3, Cbuf, s
      <3>2. Length(rcv) >= 2 => Len(CRLF) <= arrived - Taken  BY <3>1, <1>1, Marks
      <3>. QED  BY <3>1, <3>2, <1>1, Marks, FoundFirst
    <2>3. /\ Occurs(s, Taken, CRLF) =>
                Taken + 2 <= Len(s) /\ ChunksAt(s, [isp EXCEPT !.state = 0], Taken + 2, Emitted)
          /\ ~Occurs(s, Taken, CRLF) => ~ChunkedWhole(s)
      BY <2>1, <1>1, <1>2, ChunkEndTaken
    <2>4. CASE WantsMore /\ NothingTaken /\ NoFailure
      BY <2>4, <2>1, FirstWaits
    <2>5. CASE Length(rcv) >= 2 /\ StrStr(rcv, CRLF) # 0 /\ Fatal /\ NothingTaken /\ NoFailure
      BY <2>5, <2>1, <2>2, <2>3, <1>2, FirstRefuses
    <2>6. CASE Length(rcv) >= 2 /\ StrStr(rcv, CRLF) = 0 /\ NoFailure /\ Skips(2) /\ IspState(0) /\ GoesOn /\ NoOut
      <3>1. isp' = [isp EXCEPT !.state = 0]  BY <2>6 DEF IspState
      <3>2. FirstAt(req, isp', Taken + 2, Emitted)  BY <3>1, <2>1, <2>2, <2>3, <2>6, <1>2
      <3>3. isp' \in IspType /\ isp'.index = isp.index  BY <3>1, <1>1 DEF IspType
      <3>4. 2 \in 0..Length(rcv) /\ isp'.index <= Taken + 2  BY <2>6, <3>3, <1>1
      <3>. QED  BY <2>1, <2>6, <3>2, <3>3, <3>4, FirstTakes
    <2>7. CASE Denied /\ Polled /\ NothingTaken
      BY <2>7, <2>1, FirstWaits
    <2>. QED  BY <1>9, <2>4, <2>5, <2>6, <2>7 DEF ChunkEnd, Cut, NoCut
  <1>10. CASE ChunksDone
    BY <1>10, <1>2, FirstFinished DEF ChunksDone, InIsp
  <1>. QED  BY <1>3, <1>4, <1>5, <1>6, <1>7, <1>8, <1>9, <1>10 DEF Chunked

-----------------------------------------------------------------------------
(* The second processor                                                     *)

Content == ContentOf(req)

\* Where the second processor is when it runs.
LEMMA SecondFacts ==
    ASSUME IInv, req.multipart
    PROVE  /\ req \in Requests /\ Content \in Seq(Byte) /\ Len(Content) \in Nat
           /\ Len(Emitted) \in 0..Len(Content) /\ Len(Written) \in 0..Len(Emitted)
           /\ Emitted = Slice(Content, 0, Len(Emitted)) /\ Written = Slice(Content, 0, Len(Written))
           /\ Bytes(mp_list) = Slice(Content, Len(Written), Len(Emitted))
           /\ Length(mp_list) = Len(Emitted) - Len(Written)
           /\ mp_list \in Cbuf /\ NoneEmpty(mp_list) /\ (mp_list = <<>> <=> Length(mp_list) = 0)
           /\ Final(req, isp) => Emitted = Content /\ SentWhole(req)
           /\ mp \in MpType /\ mp.state \in 0..5 /\ mp.index \in Nat /\ mp.params \in Seq(Param)
  <1>. DEFINE c == Content
              E == Emitted
              W == Written
              b == Bytes(mp_list)
  <1>1. /\ req \in Requests /\ isp \in IspType /\ mp \in MpType /\ FirstAt(req, isp, Taken, E)
        /\ mp_list \in Cbuf /\ NoneEmpty(mp_list)
    BY DEF IInv, Received, Scalars, FirstPlace, Lists3
  <1>2. /\ Taken \in 0..Len(req.stream) /\ W \in Seq(Byte) /\ b \in Seq(Byte) /\ E \in Seq(Byte)
        /\ E = Cat(W, b) /\ (mp_list = <<>> <=> Length(mp_list) = 0)
        /\ Length(mp_list) = Len(b)
    BY Places DEF Emitted, Length
  <1>3. /\ c \in Seq(Byte) /\ Begins(E, c)
        /\ Final(req, isp) => E = c /\ SentWhole(req)
    BY <1>1, <1>2, FirstBegins DEF Content
  <1>. HIDE DEF c, E, W, b
  <1>4. Len(c) \in Nat /\ Len(E) \in Nat /\ Len(W) \in Nat /\ Len(b) \in Nat /\ Len(E) = Len(W) + Len(b)
    BY <1>2, <1>3, CatType
  <1>5. Len(E) \in 0..Len(c) /\ E = Slice(c, 0, Len(E))  BY <1>3, <1>4 DEF Begins
  <1>6. /\ 0 \in 0..Len(E) /\ Len(W) \in 0..Len(E) /\ Len(E) \in 0..(Len(E) - 0) /\ 0 \in 0..Len(W)
        /\ Len(W) \in 0..(Len(E) - 0) /\ 0 + Len(W) = Len(W) /\ 0 + Len(E) = Len(E) /\ 0 + 0 = 0
    BY <1>4
  <1>7. Slice(E, 0, Len(W)) = W /\ Slice(E, Len(W), Len(E)) = b
    BY <1>2, <1>4, SliceOfCat
  <1>8. Slice(Slice(c, 0, Len(E)), 0, Len(W)) = Slice(c, 0 + 0, 0 + Len(W))
    BY <1>3, <1>5, <1>6, SliceOfSlice
  <1>9. Slice(Slice(c, 0, Len(E)), Len(W), Len(E)) = Slice(c, 0 + Len(W), 0 + Len(E))
    BY <1>3, <1>5, <1>6, SliceOfSlice
  <1>10. W = Slice(c, 0, Len(W)) /\ b = Slice(c, Len(W), Len(E))
    BY <1>5, <1>6, <1>7, <1>8, <1>9
  <1>11. mp.state \in 0..5 /\ mp.index \in Nat /\ mp.params \in Seq(Param)  BY <1>1 DEF MpType
  <1>. QED  BY <1>1, <1>2, <1>3, <1>4, <1>5, <1>6, <1>10, <1>11 DEF c, E, W, b

\* What each of its steps has to show.
LEMMA SecondRuns ==
    ASSUME IInv, pc = "multipart"
    PROVE  /\ req.multipart /\ verdict = "receiving" /\ mp.state # 5
           /\ PartsAt(Content, mp, mp_list # <<>>)
           /\ mp.index <= Len(Written) /\ (mp.state \in {0, 1, 2} => mp.index = Len(Written))
           /\ eos => Final(req, isp)
           /\ mp.state = 4 => Final(req, isp) /\ mp_list = <<>>
           /\ mp.state # 4 => size = Unknown /\ file.mode \notin {"closed", "read"}
           /\ failures \in 0..MaxFailures /\ MaxFailures \in Nat /\ eos \in BOOLEAN
  <1>1. req.multipart /\ verdict = "receiving"  BY DEF IInv, SecondPlace, Sizes
  <1>2. mp.state # 5  BY <1>1 DEF IInv, SecondPlace
  <1>3. mp.state # 4 => size = Unknown /\ file.mode \notin {"closed", "read"}
    BY <1>1 DEF IInv, Sizes, Complete
  <1>. QED  BY <1>1, <1>2, <1>3, BoundsAssumption DEF IInv, SecondPlace, Content, Scalars

\* a goes to the store and b stays.
LEMMA Moved ==
    ASSUME IInv, NEW a \in Cbuf, NoneEmpty(a), NEW b \in Cbuf, NoneEmpty(b),
           Cat(Bytes(a), Bytes(b)) = Bytes(mp_list),
           mp_list' = b, store' = store \o a, UNCHANGED <<req, offset, file>>
    PROVE  /\ Emitted' = Emitted /\ Written' = Cat(Written, Bytes(a)) /\ Len(Written') = Len(Written) + Length(a)
           /\ StoreShape(store', offset') /\ Length(a) \in Nat
  <1>1. /\ StoreShape(store, offset) /\ Unwritten = Waiting(store, offset) /\ Unwritten \in Seq(Byte)
        /\ file.content \in Seq(Byte) /\ Written \in Seq(Byte)
    BY Places
  <1>2. Bytes(a) \in Seq(Byte) /\ Bytes(b) \in Seq(Byte)  BY ListsJoined
  <1>3. StoreShape(store \o a, offset) /\ Waiting(store \o a, offset) = Cat(Waiting(store, offset), Bytes(a))
    BY <1>1, StoreAppended
  <1>4. Unwritten' = Waiting(store', offset') /\ offset' = offset /\ file' = file
        /\ Written' = Cat(file'.content, Unwritten') /\ Emitted' = Cat(Written', Bytes(mp_list'))
    BY DEF Unwritten, Waiting, Slice, Written, Emitted
  <1>5. Written' = Cat(file.content, Cat(Unwritten, Bytes(a)))  BY <1>1, <1>3, <1>4
  <1>6. Cat(Cat(file.content, Unwritten), Bytes(a)) = Cat(file.content, Cat(Unwritten, Bytes(a)))
    BY <1>1, <1>2, CatAssociative
  <1>7. Written' = Cat(Written, Bytes(a))  BY <1>5, <1>6 DEF Written
  <1>8. Cat(Cat(Written, Bytes(a)), Bytes(b)) = Cat(Written, Cat(Bytes(a), Bytes(b)))
    BY <1>1, <1>2, CatAssociative
  <1>9. Emitted' = Emitted  BY <1>4, <1>7, <1>8 DEF Emitted
  <1>10. Len(Written') = Len(Written) + Length(a) /\ Length(a) \in Nat
    BY <1>1, <1>2, <1>7, CatType DEF Length
  <1>. QED  BY <1>3, <1>4, <1>7, <1>9, <1>10

\* It took something, or waits.
LEMMA SecondStep ==
    ASSUME IInv, pc = "multipart", mp.state # 4, MpUnchanged,
           mp_list' \in Cbuf, NoneEmpty(mp_list'), StoreShape(store', offset'), Emitted' = Emitted,
           mp' \in MpType, mp'.state \in 0..4,
           mp'.index <= Len(Written'), mp'.state \in {0, 1, 2} => mp'.index = Len(Written'),
           mp'.state = 4 => Final(req, isp) /\ mp_list' = <<>>,
           PartsAt(Content, mp', mp_list' # <<>>),
           failures' \in 0..MaxFailures, poll_request' \in BOOLEAN,
           pc' \in {"multipart", "store"}, UNCHANGED <<eos, size, verdict>>
    PROVE  IInv'
  <1>1. /\ req' = req /\ arrived' = arrived /\ burst' = burst /\ rcv' = rcv /\ isp' = isp /\ offset' = offset
        /\ file' = file /\ poll' = poll /\ eos' = eos /\ size' = size /\ verdict' = verdict
    BY DEF MpUnchanged, input
  <1>2. Taken' = Taken  BY <1>1 DEF Taken
  <1>3. Lists3' /\ Scalars' /\ Received' /\ FirstPlace'
    BY <1>1, <1>2 DEF IInv, Lists3, StoreShape, Scalars, Received, FirstPlace
  <1>4. /\ req.multipart /\ verdict = "receiving" /\ size = Unknown /\ file.mode \notin {"closed", "read"}
        /\ eos => Final(req, isp)
    BY SecondRuns
  <1>5. SecondPlace'  BY <1>1, <1>4 DEF SecondPlace, Content
  <1>6. Sizes'  BY <1>1, <1>4 DEF Sizes
  <1>. QED  BY <1>3, <1>5, <1>6 DEF IInv

\* It refuses the body.
LEMMA SecondRefuses ==
    ASSUME IInv, pc = "multipart", mp.state # 4, MpUnchanged, MpFatal, failures' \in 0..MaxFailures,
           ~IsMultipart(Content)
    PROVE  IInv'
  <1>1. /\ req' = req /\ arrived' = arrived /\ burst' = burst /\ rcv' = rcv /\ isp' = isp /\ offset' = offset
        /\ file' = file /\ poll' = poll /\ eos' = eos /\ size' = size /\ verdict' = "refused" /\ pc' = "idle"
        /\ poll_request' = poll_request /\ mp_list' = mp_list /\ store' = store
        /\ mp' = [mp EXCEPT !.state = 5, !.params = <<>>]
    BY DEF MpUnchanged, input, MpFatal, Fatal, MpNothing
  <1>2. Taken' = Taken /\ Written' = Written /\ Emitted' = Emitted
    BY <1>1 DEF Taken, Written, Emitted, Unwritten
  <1>3. mp' = [state |-> 5, index |-> mp.index, params |-> <<>>] /\ mp \in MpType
    BY <1>1 DEF IInv, Scalars, MpType
  <1>4. mp' \in MpType /\ mp'.state = 5 /\ mp'.index = mp.index
    <2>1. <<>> \in Seq(Param)  OBVIOUS
    <2>. QED  BY <1>3, <2>1 DEF MpType
  <1>5. Lists3' /\ Scalars' /\ Received' /\ FirstPlace'
    BY <1>1, <1>2, <1>4 DEF IInv, Lists3, Scalars, Received, FirstPlace
  <1>6. req.multipart /\ mp.index <= Len(Written) /\ size = Unknown /\ file.mode \notin {"closed", "read"}
    BY SecondRuns
  <1>7. SecondPlace'  BY <1>1, <1>2, <1>4, <1>6 DEF SecondPlace
  <1>8. ~req.body.whole  BY <1>6, RequestFacts DEF IInv, Received, Content
  <1>9. Sizes'  BY <1>1, <1>6, <1>8 DEF Sizes, Unknown
  <1>. QED  BY <1>5, <1>7, <1>9 DEF IInv

\* It takes nothing: it waits for more input or for memory.
LEMMA SecondWaits ==
    ASSUME IInv, pc = "multipart", mp.state # 4, MpUnchanged, MpNothing, mp' = mp,
           failures' \in 0..MaxFailures, poll_request' \in BOOLEAN,
           pc' \in {"multipart", "store"}, UNCHANGED <<eos, size, verdict>>
    PROVE  IInv'
  <1>1. mp_list' = mp_list /\ store' = store /\ offset' = offset /\ file' = file
    BY DEF MpUnchanged, MpNothing
  <1>2. Written' = Written /\ Emitted' = Emitted  BY <1>1 DEF Written, Emitted, Unwritten
  <1>3. /\ PartsAt(Content, mp, mp_list # <<>>) /\ mp.state # 5
        /\ mp.index <= Len(Written) /\ (mp.state \in {0, 1, 2} => mp.index = Len(Written))
    BY SecondRuns
  <1>4. mp \in MpType /\ mp.state \in 0..5  BY DEF IInv, Scalars, MpType
  <1>5. mp.state \in 0..4  BY <1>3, <1>4
  <1>6. mp_list \in Cbuf /\ NoneEmpty(mp_list) /\ StoreShape(store, offset)
    BY DEF IInv, Lists3, StoreShape
  <1>. QED  BY <1>1, <1>2, <1>3, <1>4, <1>5, <1>6, SecondStep

\* READ: at the end of the stream, what does not end here is no multipart body.
LEMMA SecondReads ==
    ASSUME IInv, pc = "multipart", mp.state # 4, MpUnchanged, MpReads, failures' \in 0..MaxFailures,
           eos => ~IsMultipart(Content)
    PROVE  IInv'
  <1>1. CASE eos
    BY <1>1, SecondRefuses DEF MpReads
  <1>2. CASE ~eos
    <2>1. poll_request \in BOOLEAN  BY DEF IInv, Scalars
    <2>. QED  BY <1>2, <2>1, SecondWaits DEF MpReads
  <1>. QED  BY <1>1, <1>2

\* A step that finds no memory changes nothing but the poll that tries it again.
LEMMA SecondDenied ==
    ASSUME IInv, pc = "multipart", mp.state # 4, MpUnchanged, MpDenied, Denied
    PROVE  IInv'
  <1>1. failures' \in 0..MaxFailures  BY SecondRuns DEF Denied
  <1>. QED  BY <1>1, SecondWaits DEF MpDenied, Polled

\* n bytes are taken.
LEMMA SecondTakes ==
    ASSUME IInv, pc = "multipart", mp.state \in {0, 1, 2}, MpUnchanged, NEW n \in 0..Length(mp_list),
           NEW st \in 0..3, NEW params \in Seq(Param), MpTakes(n, st, params), NoFailure,
           pc' \in {"multipart", "store"}, UNCHANGED <<eos, size, verdict, poll_request>>,
           \A x : x = (n # Length(mp_list)) =>
              PartsAt(Content, [state |-> st, index |-> mp.index + n, params |-> params], x)
    PROVE  IInv'
  <1>1. /\ req.multipart /\ mp.index = Len(Written) /\ mp.state # 4
        /\ failures \in 0..MaxFailures
    BY SecondRuns
  <1>2. /\ Content \in Seq(Byte) /\ Len(Emitted) \in 0..Len(Content) /\ Len(Written) \in 0..Len(Emitted)
        /\ Bytes(mp_list) = Slice(Content, Len(Written), Len(Emitted))
        /\ Length(mp_list) = Len(Emitted) - Len(Written) /\ Len(Content) \in Nat
        /\ mp_list \in Cbuf /\ NoneEmpty(mp_list) /\ mp.index \in Nat
    BY <1>1, SecondFacts
  <1>. DEFINE a == FirstBytes(mp_list, n)
              b == RestBytes(mp_list, n)
              p == Len(Written)
              q == Len(Emitted)
  <1>3. /\ a \in Cbuf /\ NoneEmpty(a) /\ b \in Cbuf /\ NoneEmpty(b)
        /\ Bytes(a) = Slice(Content, p, p + n) /\ Length(a) = n
        /\ Bytes(b) = Slice(Content, p + n, q) /\ Length(b) = Length(mp_list) - n
    BY <1>2, ListTaken
  <1>4. mp_list' = b /\ store' = store \o a /\ mp' = [state |-> st, index |-> mp.index + n, params |-> params]
    BY DEF MpTakes
  <1>5. UNCHANGED <<req, offset, file>>  BY DEF MpUnchanged, input
  <1>. HIDE DEF a, b, p, q
  <1>6. p + n \in 0..q /\ p \in 0..(p + n) /\ q \in 0..Len(Content) /\ n \in Nat
    BY <1>2 DEF p, q
  <1>7. Cat(Bytes(a), Bytes(b)) = Bytes(mp_list)
    <2>1. Cat(Slice(Content, p, p + n), Slice(Content, p + n, q)) = Slice(Content, p, q)
      BY <1>2, <1>6, SliceJoin
    <2>. QED  BY <2>1, <1>2, <1>3 DEF p, q
  <1>8. Emitted' = Emitted /\ Len(Written') = Len(Written) + n /\ StoreShape(store', offset')
    BY <1>3, <1>4, <1>5, <1>7, Moved
  <1>9. mp' \in MpType /\ mp'.index = mp.index + n /\ mp'.state = st
    <2>1. mp.index + n \in Nat  BY <1>2, <1>6
    <2>. QED  BY <1>4, <2>1 DEF MpType
  <1>10. mp_list' # <<>> <=> n # Length(mp_list)
    <2>1. b = <<>> <=> Length(b) = 0  BY <1>3, ListsJoined
    <2>2. Length(b) = 0 <=> n = Length(mp_list)  BY <1>2, <1>3, <1>6
    <2>. QED  BY <2>1, <2>2, <1>4
  <1>11. PartsAt(Content, mp', mp_list' # <<>>)
    <2>1. (mp_list' # <<>>) = (n # Length(mp_list))  BY <1>10
    <2>. QED  BY <2>1, <1>4
  <1>12. mp'.index = Len(Written') /\ mp'.index <= Len(Written')
    <2>1. Len(Written) + n \in Nat  BY <1>2, <1>6
    <2>. QED  BY <2>1, <1>1, <1>8, <1>9
  <1>13. failures' \in 0..MaxFailures /\ poll_request' \in BOOLEAN
    BY <1>1 DEF NoFailure, IInv, Scalars
  <1>14. mp'.state \in 0..4 /\ mp'.state # 4  BY <1>9
  <1>. QED  BY <1>1, <1>3, <1>4, <1>8, <1>9, <1>11, <1>12, <1>13, <1>14, SecondStep

\* What the second processor finds in its list is what is found in the content.
LEMMA SecondSees ==
    ASSUME IInv, pc = "multipart", NEW str \in Seq(Byte), str # <<>>
    PROVE  /\ Content \in Seq(Byte) /\ Len(Content) \in Nat /\ Len(str) \in Nat /\ Len(Written) \in Nat
           /\ Len(Written) + Length(mp_list) <= Len(Content) /\ Length(mp_list) \in Nat
           /\ eos => Len(Written) + Length(mp_list) = Len(Content)
           /\ \/ /\ StrStr(mp_list, str) = OOB
                 /\ \A i \in Len(Written)..(Len(Written) + Length(mp_list) - Len(str)) : ~Occurs(Content, i, str)
              \/ /\ StrStr(mp_list, str) \in Nat /\ StrStr(mp_list, str) # OOB
                 /\ StrStr(mp_list, str) + Len(str) <= Length(mp_list)
                 /\ Find(Content, Len(Written), str) = Len(Written) + StrStr(mp_list, str)
                 /\ Find(Content, Len(Written), str) # OOB
           /\ Len(str) <= Length(mp_list) => (StrStr(mp_list, str) = 0 <=> Occurs(Content, Len(Written), str))
  <1>1. req.multipart /\ (eos => Final(req, isp))  BY SecondRuns
  <1>2. /\ Content \in Seq(Byte) /\ Len(Emitted) \in 0..Len(Content) /\ Len(Written) \in 0..Len(Emitted)
        /\ Bytes(mp_list) = Slice(Content, Len(Written), Len(Emitted))
        /\ Length(mp_list) = Len(Emitted) - Len(Written) /\ Len(Content) \in Nat
        /\ mp_list \in Seq(Seq(Byte)) /\ (Final(req, isp) => Emitted = Content)
    BY <1>1, SecondFacts DEF Cbuf
  <1>. DEFINE p == Len(Written)
              q == Len(Emitted)
  <1>. HIDE DEF p, q
  <1>3. /\ q \in 0..Len(Content) /\ p \in 0..q /\ Bytes(mp_list) = Slice(Content, p, q)
        /\ Length(mp_list) = q - p /\ p \in Nat /\ q \in Nat
    BY <1>2 DEF p, q
  <1>4. \/ StrStr(mp_list, str) = OOB /\ \A i \in p..(q - Len(str)) : ~Occurs(Content, i, str)
        \/ /\ StrStr(mp_list, str) \in Nat /\ StrStr(mp_list, str) # OOB
           /\ p + StrStr(mp_list, str) + Len(str) <= q
           /\ StrStr(mp_list, str) + Len(str) <= Length(mp_list)
           /\ Find(Content, p, str) = p + StrStr(mp_list, str)
           /\ Occurs(Content, Find(Content, p, str), str)
    BY <1>2, <1>3, StrStrInSlice
  <1>5. Len(str) \in Nat  BY SliceEnds
  <1>6. Len(str) <= q - p => (StrStr(mp_list, str) = 0 <=> Occurs(Content, p, str))
    BY <1>2, <1>3, FoundFirst
  <1>7. p + Length(mp_list) = q /\ p + Length(mp_list) - Len(str) = q - Len(str) /\ Length(mp_list) \in Nat
    BY <1>3, <1>5
  <1>8. eos => q = Len(Content)  BY <1>1, <1>2 DEF q
  <1>9. StrStr(mp_list, str) \in Nat => p + StrStr(mp_list, str) # OOB  BY <1>3 DEF OOB
  <1>10. p + Length(mp_list) <= Len(Content)  BY <1>7, <1>3, <1>2
  <1>. QED  BY <1>2, <1>3, <1>4, <1>5, <1>6, <1>7, <1>8, <1>9, <1>10 DEF p

\* There is nothing to look at.
LEMMA MpEmptyStep == IInv /\ MpEmpty => IInv'
  <1>. SUFFICES ASSUME IInv, MpEmpty PROVE IInv'  OBVIOUS
  <1>1. /\ pc = "multipart" /\ mp.state = 0 /\ mp_list = <<>> /\ eos /\ mp' = [mp EXCEPT !.state = 4]
        /\ GoesOn /\ MpNothing /\ NoFailure /\ MpUnchanged
    BY DEF MpEmpty
  <1>2. /\ req.multipart /\ Final(req, isp) /\ mp.index = Len(Written) /\ PartsAt(Content, mp, mp_list # <<>>)
        /\ failures \in 0..MaxFailures
    BY <1>1, SecondRuns
  <1>3. /\ Content \in Seq(Byte) /\ Emitted = Content /\ Length(mp_list) = 0 /\ Length(mp_list) = Len(Emitted) - Len(Written)
        /\ mp \in MpType /\ mp_list \in Cbuf /\ NoneEmpty(mp_list) /\ Len(Content) \in Nat /\ mp.index \in Nat
        /\ Len(Written) \in 0..Len(Emitted)
    BY <1>1, <1>2, SecondFacts
  <1>4. mp.index = Len(Content)  BY <1>2, <1>3
  <1>5. \A i \in mp.index..(Len(Content) - 2) : ~Occurs(Content, i, Boundary)  BY <1>3, <1>4
  <1>6. \A x : PartsAt(Content, [mp EXCEPT !.state = 4], x)
    BY <1>1, <1>2, <1>3, <1>4, <1>5, DataEnds
  <1>7. mp_list' = mp_list /\ store' = store /\ offset' = offset /\ file' = file
    BY <1>1 DEF MpUnchanged, MpNothing
  <1>8. Written' = Written /\ Emitted' = Emitted  BY <1>7 DEF Written, Emitted, Unwritten
  <1>9. mp' = [state |-> 4, index |-> mp.index, params |-> mp.params]  BY <1>1, <1>3 DEF MpType
  <1>10. mp' \in MpType /\ mp'.state = 4 /\ mp'.index = mp.index  BY <1>3, <1>9 DEF MpType
  <1>11. StoreShape(store', offset')  BY <1>7 DEF IInv, Lists3, StoreShape
  <1>12. PartsAt(Content, mp', mp_list' # <<>>)  BY <1>6, <1>1
  <1>13. mp'.index <= Len(Written')  BY <1>2, <1>3, <1>8, <1>10
  <1>14. pc' \in {"multipart", "store"} /\ UNCHANGED <<eos, size, verdict>> /\ poll_request' \in BOOLEAN
         /\ failures' \in 0..MaxFailures
    BY <1>1, <1>2 DEF GoesOn, NoFailure, IInv, Scalars
  <1>15. mp'.state \in 0..4 /\ mp.state # 4 /\ (mp'.state \in {0, 1, 2} => mp'.index = Len(Written'))
         /\ (mp'.state = 4 => Final(req, isp) /\ mp_list' = <<>>)
    BY <1>1, <1>2, <1>7, <1>10
  <1>. QED  BY <1>1, <1>3, <1>7, <1>8, <1>10, <1>11, <1>12, <1>13, <1>14, <1>15, SecondStep

\* A boundary is found, or what may be the beginning of one is kept back.
LEMMA MpBodyStep == IInv /\ MpBody => IInv'
  <1>. SUFFICES ASSUME IInv, MpBody PROVE IInv'  OBVIOUS
  <1>1. pc = "multipart" /\ mp.state = 0 /\ ~(mp_list = <<>> /\ eos) /\ MpUnchanged /\ mp.state # 4
    BY DEF MpBody, InMultipart
  <1>2. /\ req.multipart /\ mp.index = Len(Written) /\ PartsAt(Content, mp, mp_list # <<>>)
        /\ failures \in 0..MaxFailures
    BY <1>1, SecondRuns
  <1>3. /\ Content \in Seq(Byte) /\ Len(Content) \in Nat /\ Len(Written) \in Nat
        /\ Len(Written) + Length(mp_list) <= Len(Content) /\ Length(mp_list) \in Nat
        /\ eos => Len(Written) + Length(mp_list) = Len(Content)
        /\ \/ /\ At = OOB
              /\ \A i \in Len(Written)..(Len(Written) + Length(mp_list) - 2) : ~Occurs(Content, i, Boundary)
           \/ /\ At \in Nat /\ At # OOB /\ At + 2 <= Length(mp_list)
              /\ Find(Content, Len(Written), Boundary) = Len(Written) + At
              /\ Find(Content, Len(Written), Boundary) # OOB
    BY <1>1, Marks, SecondSees DEF At
  <1>4. mp \in MpType /\ mp.params \in Seq(Param) /\ mp.index \in Nat /\ (mp_list = <<>> <=> Length(mp_list) = 0)
    BY <1>2, SecondFacts
  <1>5. Len(Boundary) = 2 /\ KeptBack = 2  BY Marks DEF KeptBack
  <1>6. At = OOB /\ eos => ~IsMultipart(Content)
    <2>. SUFFICES ASSUME At = OOB, eos PROVE ~IsMultipart(Content)  OBVIOUS
    <2>1. Length(mp_list) # 0  BY <1>1, <1>4
    <2>2. mp.index < Len(Content)  BY <2>1, <1>2, <1>3
    <2>3. \A i \in mp.index..(Len(Content) - 2) : ~Occurs(Content, i, Boundary)
      BY <1>2, <1>3 DEF OOB
    <2>. QED  BY <2>2, <2>3, <1>1, <1>2, <1>3, <1>4, DataEnds
  <1>7. Length(mp_list) < 2 => At = OOB  BY <1>3
  <1>8. NoFailure => failures' \in 0..MaxFailures  BY <1>2 DEF NoFailure
  <1>9. CASE At = OOB /\ MpReads /\ NoFailure
    BY <1>1, <1>6, <1>8, <1>9, SecondReads
  <1>10. CASE At = OOB /\ eos /\ MpFatal /\ NoFailure
    BY <1>1, <1>6, <1>8, <1>10, SecondRefuses
  <1>11. CASE MpDenied /\ Denied
    BY <1>1, <1>11, SecondDenied
  <1>12. CASE /\ At = OOB /\ Length(mp_list) - 2 > 0 /\ MpTakes(Length(mp_list) - 2, 0, mp.params) /\ NoFailure
              /\ pc' = "store" /\ UNCHANGED <<eos, size, poll_request, verdict>>
    <2>. DEFINE n == Length(mp_list) - 2
    <2>1. n \in 0..Length(mp_list) /\ n # Length(mp_list) /\ n \in Nat  BY <1>3, <1>12
    <2>. DEFINE q == mp.index + Length(mp_list)
    <2>2. q \in Nat /\ mp.index + 2 <= q /\ q - 2 = mp.index + n
      <3>. DEFINE x == mp.index
                 l == Length(mp_list)
      <3>1. x \in Nat /\ l \in Nat /\ l - 2 > 0  BY <1>3, <1>4, <1>12
      <3>2. q = x + l /\ n = l - 2  OBVIOUS
      <3>. HIDE DEF q, n, x, l
      <3>3. q \in Nat /\ x + 2 <= q /\ q - 2 = x + n  BY ONLY <3>1, <3>2
      <3>. QED  BY <3>3 DEF x
    <2>3. \A i \in mp.index..(q - 2) : ~Occurs(Content, i, Boundary)
      <3>1. \A i \in Len(Written)..(Len(Written) + Length(mp_list) - 2) : ~Occurs(Content, i, Boundary)
        BY <1>3, <1>12 DEF OOB
      <3>2. Len(Written) = mp.index  BY <1>2
      <3>3. \A i \in mp.index..(mp.index + Length(mp_list) - 2) : ~Occurs(Content, i, Boundary)
        <4>. HIDE DEF q, n
        <4>. QED  BY ONLY <3>1, <3>2
      <3>4. q = mp.index + Length(mp_list)  OBVIOUS
      <3>5. mp.index \in Nat /\ Length(mp_list) \in Nat  BY <1>3, <1>4
      <3>. HIDE DEF q, n
      <3>. QED  BY ONLY <3>3, <3>4, <3>5
    <2>. HIDE DEF q, n
    <2>4. PartsAt(Content, [state |-> 0, index |-> q - 2, params |-> mp.params], TRUE)
      BY <2>2, <2>3, <1>1, <1>2, <1>3, <1>4, DataTaken
    <2>5. PartsAt(Content, [state |-> 0, index |-> mp.index + n, params |-> mp.params], TRUE)
      BY <2>4, <2>2
    <2>6. MpTakes(n, 0, mp.params)  BY <1>12 DEF n
    <2>7. \A x : x = (n # Length(mp_list)) =>
             PartsAt(Content, [state |-> 0, index |-> mp.index + n, params |-> mp.params], x)
      <3>1. (n # Length(mp_list)) = TRUE  BY <2>1
      <3>. QED  BY <2>5, <3>1
    <2>8. mp.state \in {0, 1, 2} /\ 0 \in 0..3 /\ pc' \in {"multipart", "store"}  BY <1>1, <1>12
    <2>. QED  BY <2>1, <2>6, <2>7, <2>8, <1>1, <1>4, <1>12, SecondTakes
  <1>13. CASE At # OOB /\ MpTakes(At + 2, 1, Ended(mp.params)) /\ GoesOn /\ NoFailure
    <2>1. At + 2 \in 0..Length(mp_list) /\ At \in Nat
          /\ Find(Content, mp.index, Boundary) = mp.index + At /\ Find(Content, mp.index, Boundary) # OOB
      BY <1>2, <1>3, <1>13
    <2>2. \A x : PartsAt(Content, [state |-> 1, index |-> Find(Content, mp.index, Boundary) + 2,
                                   params |-> EndedAt(mp.params, Find(Content, mp.index, Boundary) - 4)], x)
      BY <2>1, <1>1, <1>2, <1>3, <1>4, BoundaryTaken
    <2>3. EndedAt(mp.params, mp.index + At - 4) = Ended(mp.params)  BY DEF EndedAt, Ended, DataEnd
    <2>4. Find(Content, mp.index, Boundary) + 2 = mp.index + (At + 2)
          /\ Find(Content, mp.index, Boundary) - 4 = mp.index + At - 4 /\ mp.index + At - 4 \in Int
      BY <2>1, <1>4
    <2>5. Ended(mp.params) \in Seq(Param)  BY <2>3, <2>4, <1>4, EndedType
    <2>6. \A x : PartsAt(Content, [state |-> 1, index |-> mp.index + (At + 2), params |-> Ended(mp.params)], x)
      BY <2>2, <2>3, <2>4
    <2>7. mp.state \in {0, 1, 2} /\ 1 \in 0..3 /\ pc' \in {"multipart", "store"}
          /\ UNCHANGED <<eos, size, verdict, poll_request>>
      BY <1>1, <1>13 DEF GoesOn
    <2>. DEFINE n == At + 2
    <2>8. n \in 0..Length(mp_list) /\ MpTakes(n, 1, Ended(mp.params))  BY <2>1, <1>13
    <2>9. \A x : x = (n # Length(mp_list)) =>
             PartsAt(Content, [state |-> 1, index |-> mp.index + n, params |-> Ended(mp.params)], x)
      BY <2>6
    <2>. HIDE DEF n
    <2>. QED  BY <2>5, <2>7, <2>8, <2>9, <1>1, <1>13, SecondTakes
  <1>14. \/ Length(mp_list) < 2 /\ MpReads /\ NoFailure
         \/ At = OOB /\ MpReads /\ NoFailure
         \/ At = OOB /\ eos /\ MpFatal /\ NoFailure
         \/ MpDenied /\ Denied
         \/ /\ At = OOB /\ Length(mp_list) - 2 > 0 /\ MpTakes(Length(mp_list) - 2, 0, mp.params) /\ NoFailure
            /\ pc' = "store" /\ UNCHANGED <<eos, size, poll_request, verdict>>
         \/ At # OOB /\ MpTakes(At + 2, 1, Ended(mp.params)) /\ GoesOn /\ NoFailure
    BY <1>5 DEF MpBody, MpIsShort, Cut, NoCut
  <1>. QED  BY <1>7, <1>9, <1>10, <1>11, <1>12, <1>13, <1>14

\* Behind a boundary the body ends or a part begins.
LEMMA MpMoreStep == IInv /\ MpMore => IInv'
  <1>. SUFFICES ASSUME IInv, MpMore PROVE IInv'  OBVIOUS
  <1>1. pc = "multipart" /\ mp.state = 1 /\ MpUnchanged /\ mp.state # 4
    BY DEF MpMore, InMultipart
  <1>2. /\ req.multipart /\ mp.index = Len(Written) /\ PartsAt(Content, mp, mp_list # <<>>)
        /\ failures \in 0..MaxFailures
    BY <1>1, SecondRuns
  <1>3. /\ Content \in Seq(Byte) /\ Len(Content) \in Nat /\ Len(Written) \in Nat /\ Length(mp_list) \in Nat
        /\ eos => Len(Written) + Length(mp_list) = Len(Content)
        /\ Length(mp_list) >= 2 =>
              /\ StrStr(mp_list, Dashes) = 0 <=> Occurs(Content, mp.index, Dashes)
              /\ StrStr(mp_list, CRLF) = 0 <=> Occurs(Content, mp.index, CRLF)
    BY <1>1, <1>2, Marks, SecondSees
  <1>4. mp \in MpType /\ mp.params \in Seq(Param) /\ mp.index \in Nat  BY <1>2, SecondFacts
  <1>5. /\ Occurs(Content, mp.index, Dashes) =>
             \A x : PartsAt(Content, [state |-> 3, index |-> mp.index + 2, params |-> mp.params], x)
        /\ Occurs(Content, mp.index, CRLF) =>
             \A x : PartsAt(Content, [state |-> 2, index |-> mp.index + 2,
                                params |-> <<[data_index |-> 0, data_size |-> Unset]>> \o mp.params], x)
        /\ ~Occurs(Content, mp.index, Dashes) /\ ~Occurs(Content, mp.index, CRLF) => ~IsMultipart(Content)
    BY <1>1, <1>2, <1>3, <1>4, MoreTaken
  <1>6. NoFailure => failures' \in 0..MaxFailures  BY <1>2 DEF NoFailure
  <1>7. CASE Length(mp_list) < 2 /\ MpReads /\ NoFailure
    <2>1. eos => ~Occurs(Content, mp.index, Dashes) /\ ~Occurs(Content, mp.index, CRLF)
      BY <1>2, <1>3, <1>7, Marks DEF Occurs
    <2>. QED  BY <2>1, <1>1, <1>5, <1>6, <1>7, SecondReads
  <1>8. CASE Length(mp_list) >= 2 /\ StrStr(mp_list, Dashes) = 0 /\ MpTakes(2, 3, mp.params) /\ GoesOn /\ NoFailure
    <2>1. \A x : PartsAt(Content, [state |-> 3, index |-> mp.index + 2, params |-> mp.params], x)
      BY <1>3, <1>5, <1>8
    <2>2. 2 \in 0..Length(mp_list) /\ 3 \in 0..3 /\ mp.state \in {0, 1, 2}  BY <1>1, <1>3, <1>8
    <2>3. pc' \in {"multipart", "store"} /\ UNCHANGED <<eos, size, verdict, poll_request>>
      BY <1>1, <1>8 DEF GoesOn
    <2>. QED  BY <2>1, <2>2, <2>3, <1>1, <1>4, <1>8, SecondTakes
  <1>9. CASE /\ Length(mp_list) >= 2 /\ StrStr(mp_list, CRLF) = 0
             /\ MpTakes(2, 2, <<NewParam>> \o mp.params) /\ GoesOn /\ NoFailure
    <2>1. NewParam = [data_index |-> 0, data_size |-> Unset]  BY DEF NewParam, Unset, Unknown
    <2>2. <<NewParam>> \o mp.params \in Seq(Param)
      <3>1. 0 \in Int /\ 0 \in Nat  OBVIOUS
      <3>. QED  BY <2>1, <1>4, <3>1, EndedType
    <2>. DEFINE more == <<NewParam>> \o mp.params
    <2>3. \A x : PartsAt(Content, [state |-> 2, index |-> mp.index + 2, params |-> more], x)
      BY <1>3, <1>5, <1>9, <2>1
    <2>4. more \in Seq(Param) /\ MpTakes(2, 2, more)  BY <2>2, <1>9
    <2>. HIDE DEF more
    <2>5. 2 \in 0..Length(mp_list) /\ 2 \in 0..3 /\ mp.state \in {0, 1, 2}  BY <1>1, <1>3, <1>9
    <2>6. pc' \in {"multipart", "store"} /\ UNCHANGED <<eos, size, verdict, poll_request>>
      BY <1>1, <1>9 DEF GoesOn
    <2>. QED  BY <2>3, <2>4, <2>5, <2>6, <1>1, <1>9, SecondTakes
  <1>10. CASE MpDenied /\ Denied  BY <1>1, <1>10, SecondDenied
  <1>11. CASE /\ Length(mp_list) >= 2 /\ StrStr(mp_list, Dashes) # 0 /\ StrStr(mp_list, CRLF) # 0
              /\ MpFatal /\ NoFailure
    BY <1>1, <1>3, <1>5, <1>6, <1>11, SecondRefuses
  <1>. QED  BY <1>7, <1>8, <1>9, <1>10, <1>11 DEF MpMore, MpIsShort, Cut, NoCut

\* The name stands in the header in the list when it does in the content.
LEMMA NameFound ==
    ASSUME NEW bytes \in Seq(Byte), NEW h \in Nat, h <= Len(bytes)
    PROVE  SelectInSeq(bytes, LAMBDA b : b = "name") \in 1..h <=> \E i \in 1..h : bytes[i] = "name"
  <1>. DEFINE I == {i \in 1..Len(bytes) : bytes[i] = "name"}
              m == CHOOSE x \in I : \A y \in I : x <= y
  <1>1. SelectInSeq(bytes, LAMBDA b : b = "name") = IF I # {} THEN m ELSE 0
    BY DEF SelectInSeq, Min
  <1>2. Len(bytes) \in Nat  OBVIOUS
  <1>3. I \subseteq Nat  BY <1>2
  <1>4. I # {} => m \in I /\ \A y \in I : m <= y
    <2>. SUFFICES ASSUME I # {} PROVE m \in I /\ \A y \in I : m <= y  OBVIOUS
    <2>. HIDE DEF I
    <2>1. \E x \in I : \A y \in I : x <= y  BY <1>3, Smallest
    <2>. QED  BY <2>1
  <1>5. \A i \in 1..h : bytes[i] = "name" => i \in I  BY <1>2
  <1>6. I # {} => m \in 1..Len(bytes) /\ bytes[m] = "name"  BY <1>4
  <1>. HIDE DEF m
  <1>7. CASE I = {}
    <2>1. SelectInSeq(bytes, LAMBDA b : b = "name") = 0  BY <1>1, <1>7
    <2>. HIDE DEF I
    <2>2. ~\E i \in 1..h : bytes[i] = "name"  BY <1>5, <1>7
    <2>3. 0 \notin 1..h  OBVIOUS
    <2>. QED  BY <2>1, <2>2, <2>3
  <1>8. CASE I # {}
    <2>1. SelectInSeq(bytes, LAMBDA b : b = "name") = m  BY <1>1, <1>8
    <2>. HIDE DEF I
    <2>2. m \in 1..h => \E i \in 1..h : bytes[i] = "name"  BY <1>6, <1>8
    <2>3. ASSUME NEW i \in 1..h, bytes[i] = "name" PROVE m \in 1..h
      <3>1. m <= i /\ m \in 1..Len(bytes)  BY <1>4, <1>5, <1>6, <1>8, <2>3
      <3>. QED  BY <3>1, <1>2
    <2>. QED  BY <2>1, <2>2, <2>3
  <1>. QED  BY <1>7, <1>8

\* The header of a part is whole, and the data of the part begins.
LEMMA MpHeaderStep == IInv /\ MpHeader => IInv'
  <1>. SUFFICES ASSUME IInv, MpHeader PROVE IInv'  OBVIOUS
  <1>1. pc = "multipart" /\ mp.state = 2 /\ MpUnchanged /\ mp.state # 4
    BY DEF MpHeader, InMultipart
  <1>2. /\ req.multipart /\ mp.index = Len(Written) /\ PartsAt(Content, mp, mp_list # <<>>)
        /\ failures \in 0..MaxFailures
    BY <1>1, SecondRuns
  <1>. DEFINE str == CRLF \o CRLF
              h == Find(Content, mp.index, str)
  <1>3. str \in Seq(Byte) /\ str # <<>> /\ Len(str) = 4  BY Marks
  <1>4. HeaderEnd = StrStr(mp_list, str)  BY DEF HeaderEnd
  <1>4a. /\ h # OOB /\ (\E i \in (mp.index + 1)..h : Content[i] = "name") =>
              \A x : PartsAt(Content, [state |-> 0, index |-> h + 4,
                                 params |-> [mp.params EXCEPT ![1].data_index = h + 4]], x)
         /\ ~(h # OOB /\ (\E i \in (mp.index + 1)..h : Content[i] = "name")) => ~IsMultipart(Content)
    <2>1. mp \in MpType /\ Content \in Seq(Byte)  BY <1>2, SecondFacts
    <2>. QED  BY <2>1, <1>1, <1>2, HeaderTaken
  <1>. HIDE DEF str
  <1>5. /\ Content \in Seq(Byte) /\ Len(Content) \in Nat /\ Len(Written) \in Nat /\ Length(mp_list) \in Nat
        /\ Len(Written) + Length(mp_list) <= Len(Content)
        /\ eos => Len(Written) + Length(mp_list) = Len(Content)
        /\ \/ /\ HeaderEnd = OOB
              /\ \A i \in Len(Written)..(Len(Written) + Length(mp_list) - 4) : ~Occurs(Content, i, str)
           \/ /\ HeaderEnd \in Nat /\ HeaderEnd # OOB /\ HeaderEnd + 4 <= Length(mp_list)
              /\ h = mp.index + HeaderEnd /\ h # OOB
    BY <1>1, <1>2, <1>3, <1>4, SecondSees
  <1>6. /\ mp \in MpType /\ mp.params \in Seq(Param) /\ mp.index \in Nat
        /\ Bytes(mp_list) = Slice(Content, Len(Written), Len(Emitted))
        /\ Len(Emitted) \in 0..Len(Content) /\ Len(Written) \in 0..Len(Emitted)
        /\ Length(mp_list) = Len(Emitted) - Len(Written)
    BY <1>2, SecondFacts
  <1>7. HeaderEnd = OOB /\ eos => h = OOB
    <2>. SUFFICES ASSUME HeaderEnd = OOB, eos, h # OOB PROVE FALSE  OBVIOUS
    <2>1. h \in mp.index..Len(Content) /\ Occurs(Content, h, str)
      BY <1>5, <1>6, FindFinds
    <2>2. h + 4 <= Len(Content)  BY <2>1, <1>3 DEF Occurs
    <2>3. h \in Len(Written)..(Len(Written) + Length(mp_list) - 4)  BY <2>1, <2>2, <1>2, <1>5
    <2>. QED  BY <2>1, <2>3, <1>5 DEF OOB
  <1>8. HeaderEnd # OOB => (Named <=> \E i \in (mp.index + 1)..h : Content[i] = "name")
    <2>. SUFFICES ASSUME HeaderEnd # OOB PROVE Named <=> \E i \in (mp.index + 1)..h : Content[i] = "name"
      OBVIOUS
    <2>1. HeaderEnd \in Nat /\ HeaderEnd + 4 <= Length(mp_list) /\ h = mp.index + HeaderEnd  BY <1>5
    <2>. DEFINE bytes == Bytes(mp_list)
    <2>2. /\ bytes \in Seq(Byte) /\ Len(bytes) = Length(mp_list)
          /\ \A i \in 1..Length(mp_list) : bytes[i] = Content[mp.index + i]
      <3>. DEFINE p == Len(Written)
                  q == Len(Emitted)
      <3>1. q \in 0..Len(Content) /\ p \in 0..q /\ bytes = Slice(Content, p, q) /\ Length(mp_list) = q - p
            /\ mp.index = p
        BY <1>2, <1>6
      <3>. HIDE DEF p, q, bytes
      <3>2. bytes \in Seq(Byte) /\ Len(bytes) = q - p /\ \A i \in 1..(q - p) : bytes[i] = Content[p + i]
        <4>1. Content \in Seq(Byte) /\ q \in 0..Len(Content) /\ p \in 0..q  BY <1>5, <3>1
        <4>2. /\ Slice(Content, p, q) \in Seq(Byte) /\ Len(Slice(Content, p, q)) = q - p
              /\ \A i \in 1..(q - p) : Slice(Content, p, q)[i] = Content[p + i]
          BY <4>1, SliceProperties, Zenon
        <4>. QED  BY <3>1, <4>2, Zenon
      <3>. QED  BY <3>1, <3>2
    <2>3. Named <=> SelectInSeq(bytes, LAMBDA b : b = "name") \in 1..HeaderEnd  BY DEF Named
    <2>. HIDE DEF bytes, h
    <2>4. HeaderEnd <= Len(bytes)  BY <2>1, <2>2, <1>5
    <2>5. Named <=> \E i \in 1..HeaderEnd : bytes[i] = "name"  BY <2>1, <2>2, <2>3, <2>4, NameFound
    <2>6. ASSUME NEW i \in 1..HeaderEnd, bytes[i] = "name"
          PROVE  \E k \in (mp.index + 1)..h : Content[k] = "name"
      <3>1. mp.index + i \in (mp.index + 1)..h /\ i \in 1..Length(mp_list)  BY <2>1, <1>5, <1>6
      <3>. QED  BY <3>1, <2>2, <2>6
    <2>7. ASSUME NEW k \in (mp.index + 1)..h, Content[k] = "name"
          PROVE  \E i \in 1..HeaderEnd : bytes[i] = "name"
      <3>1. k - mp.index \in 1..HeaderEnd /\ k - mp.index \in 1..Length(mp_list) /\ mp.index + (k - mp.index) = k
        BY <2>1, <1>5, <1>6
      <3>2. bytes[k - mp.index] = Content[mp.index + (k - mp.index)]  BY <3>1, <2>2
      <3>. QED  BY <3>1, <3>2, <2>7
    <2>. QED  BY <2>5, <2>6, <2>7
  <1>9. NoFailure => failures' \in 0..MaxFailures  BY <1>2 DEF NoFailure
  <1>10. CASE HeaderEnd = OOB /\ MpReads /\ NoFailure
    <2>1. eos => ~IsMultipart(Content)  BY <1>4a, <1>7, <1>10
    <2>. QED  BY <2>1, <1>1, <1>9, <1>10, SecondReads
  <1>11. CASE HeaderEnd # OOB /\ ~Named /\ MpFatal /\ NoFailure
    <2>1. ~IsMultipart(Content)  BY <1>4a, <1>8, <1>11
    <2>. QED  BY <2>1, <1>1, <1>9, <1>11, SecondRefuses
  <1>12. CASE /\ HeaderEnd # OOB /\ Named /\ NoFailure /\ GoesOn
              /\ MpTakes(HeaderEnd + 4, 0, [mp.params EXCEPT ![1].data_index = mp.index + HeaderEnd + 4])
    <2>1. HeaderEnd \in Nat /\ HeaderEnd + 4 <= Length(mp_list) /\ h = mp.index + HeaderEnd /\ h # OOB
      BY <1>5, <1>12
    <2>. DEFINE n == HeaderEnd + 4
                params == [mp.params EXCEPT ![1].data_index = mp.index + HeaderEnd + 4]
    <2>2. n \in 0..Length(mp_list) /\ h + 4 = mp.index + n /\ h + 4 = mp.index + HeaderEnd + 4
          /\ mp.index + HeaderEnd + 4 \in Nat
      BY <2>1, <1>5, <1>6
    <2>3. \A x : PartsAt(Content, [state |-> 0, index |-> h + 4,
                                   params |-> [mp.params EXCEPT ![1].data_index = h + 4]], x)
      BY <1>4a, <1>8, <1>12, <2>1
    <2>4. \A x : PartsAt(Content, [state |-> 0, index |-> mp.index + n, params |-> params], x)
      BY <2>2, <2>3
    <2>5. params \in Seq(Param)
      <3>1. 0 \in Int  OBVIOUS
      <3>. QED  BY <2>2, <1>6, <3>1, EndedType
    <2>6. MpTakes(n, 0, params)  BY <1>12
    <2>7. mp.state \in {0, 1, 2} /\ 0 \in 0..3 /\ pc' \in {"multipart", "store"}
          /\ UNCHANGED <<eos, size, verdict, poll_request>>
      BY <1>1, <1>12 DEF GoesOn
    <2>. HIDE DEF n, params
    <2>. QED  BY <2>2, <2>4, <2>5, <2>6, <2>7, <1>1, <1>12, SecondTakes
  <1>13. CASE MpDenied /\ Denied  BY <1>1, <1>13, SecondDenied
  <1>. QED  BY <1>10, <1>11, <1>12, <1>13 DEF MpHeader, Cut

\* What follows the last boundary is content too.
LEMMA MpRestStep == IInv /\ MpRest => IInv'
  <1>. SUFFICES ASSUME IInv, MpRest PROVE IInv'  OBVIOUS
  <1>1. /\ pc = "multipart" /\ mp.state = 3 /\ MpUnchanged /\ NoFailure
        /\ store' = store \o mp_list /\ mp_list' = <<>>
        /\ IF eos THEN mp' = [mp EXCEPT !.state = 4] /\ GoesOn
                  ELSE pc' = "store" /\ UNCHANGED <<mp, eos, size, poll_request, verdict>>
    BY DEF MpRest, InMultipart
  <1>2. /\ req.multipart /\ PartsAt(Content, mp, mp_list # <<>>) /\ (eos => Final(req, isp))
        /\ failures \in 0..MaxFailures /\ mp.index <= Len(Written)
    BY <1>1, SecondRuns
  <1>3. /\ Content \in Seq(Byte) /\ mp_list \in Cbuf /\ NoneEmpty(mp_list) /\ mp \in MpType /\ mp.index \in Nat
        /\ Len(Written) \in Nat /\ mp.params \in Seq(Param)
    <2>1. Len(Emitted) \in Nat  BY <1>2, SecondFacts
    <2>. QED  BY <2>1, <1>2, SecondFacts
  <1>4. <<>> \in Cbuf /\ NoneEmpty(<<>>) /\ <<>> \in Seq(Byte)  BY DEF Cbuf, NoneEmpty
  <1>5. Bytes(<<>>) = <<>>
    <2>1. <<>> \in Seq(Seq(Byte))  OBVIOUS
    <2>. QED  BY <2>1, <1>4, FlattenAppend DEF Bytes
  <1>6. Cat(Bytes(mp_list), Bytes(<<>>)) = Bytes(mp_list)
    <2>1. Bytes(mp_list) \in Seq(Byte)  BY <1>3, ListsJoined
    <2>. QED  BY <2>1, <1>4, <1>5, CatType
  <1>7. UNCHANGED <<req, offset, file>>  BY <1>1 DEF MpUnchanged, input
  <1>8. Emitted' = Emitted /\ Len(Written') = Len(Written) + Length(mp_list) /\ StoreShape(store', offset')
        /\ Length(mp_list) \in Nat
    BY <1>1, <1>3, <1>4, <1>6, <1>7, Moved
  <1>9. mp.index <= Len(Written')  BY <1>2, <1>3, <1>8
  <1>10. \A x : PartsAt(Content, [mp EXCEPT !.state = 4], x)
    <2>1. \A n, x : PartsAt(Content, [mp EXCEPT !.state = 4], x)
                    /\ PartsAt(Content, [state |-> 3, index |-> n, params |-> mp.params], x)
      BY <1>1, <1>2, <1>3, PartsRunOut
    <2>. QED  BY <2>1
  <1>11. \A x : PartsAt(Content, mp, x)
    <2>1. \A n, x : PartsAt(Content, [mp EXCEPT !.state = 4], x)
                    /\ PartsAt(Content, [state |-> 3, index |-> n, params |-> mp.params], x)
      BY <1>1, <1>2, <1>3, PartsRunOut
    <2>2. mp = [state |-> 3, index |-> mp.index, params |-> mp.params]  BY <1>1, <1>3 DEF MpType
    <2>. QED  BY <2>1, <2>2
  <1>12. /\ mp' \in MpType /\ mp'.state \in {3, 4} /\ mp'.index = mp.index
         /\ (mp'.state = 4 => eos) /\ \A x : PartsAt(Content, mp', x)
    <2>1. CASE eos
      <3>1. mp' = [state |-> 4, index |-> mp.index, params |-> mp.params]  BY <2>1, <1>1, <1>3 DEF MpType
      <3>2. mp' = [mp EXCEPT !.state = 4]  BY <2>1, <1>1
      <3>. QED  BY <2>1, <3>1, <3>2, <1>3, <1>10 DEF MpType
    <2>2. CASE ~eos  BY <2>2, <1>1, <1>3, <1>11
    <2>. QED  BY <2>1, <2>2
  <1>13. /\ pc' \in {"multipart", "store"} /\ UNCHANGED <<eos, size, verdict>> /\ poll_request' \in BOOLEAN
         /\ failures' \in 0..MaxFailures
    BY <1>1, <1>2 DEF GoesOn, NoFailure, IInv, Scalars
  <1>14. /\ mp_list' \in Cbuf /\ NoneEmpty(mp_list') /\ mp'.state \in 0..4 /\ mp'.index <= Len(Written')
         /\ (mp'.state \in {0, 1, 2} => mp'.index = Len(Written'))
         /\ (mp'.state = 4 => Final(req, isp) /\ mp_list' = <<>>)
         /\ PartsAt(Content, mp', mp_list' # <<>>) /\ mp.state # 4
    BY <1>1, <1>2, <1>4, <1>9, <1>12
  <1>. QED  BY <1>1, <1>8, <1>12, <1>13, <1>14, SecondStep

\* The body was taken apart.
LEMMA MpDoneStep == IInv /\ MpDone => IInv'
  <1>. SUFFICES ASSUME IInv, MpDone PROVE IInv'  OBVIOUS
  <1>1. /\ pc = "multipart" /\ mp.state = 4 /\ pc' = "store" /\ size' = Length(store)
        /\ req' = req /\ arrived' = arrived /\ burst' = burst /\ rcv' = rcv /\ isp' = isp /\ offset' = offset
        /\ file' = file /\ poll' = poll /\ mp' = mp /\ mp_list' = mp_list /\ store' = store
        /\ failures' = failures /\ verdict' = verdict /\ eos' = eos /\ poll_request' = poll_request
    BY DEF MpDone, InMultipart, Finished, MpUnchanged, MpNothing, NoFailure, input
  <1>2. Taken' = Taken /\ Written' = Written /\ Emitted' = Emitted
    BY <1>1 DEF Taken, Written, Emitted, Unwritten
  <1>3. req.multipart /\ verdict = "receiving" /\ Final(req, isp)  BY <1>1, SecondRuns
  <1>4. Length(store) \in Nat /\ offset \in Nat  BY Places, StoreFacts DEF StoreShape
  <1>5. Lists3' /\ Scalars' /\ Received' /\ FirstPlace' /\ SecondPlace'
    BY <1>1, <1>2, <1>3, <1>4 DEF IInv, Lists3, Scalars, Received, FirstPlace, SecondPlace
  <1>6. Complete'  BY <1>1, <1>3 DEF Complete
  <1>7. size' >= Length(store') - offset'  BY <1>1, <1>4
  <1>8. Sizes'  BY <1>1, <1>3, <1>6, <1>7 DEF IInv, Sizes
  <1>. QED  BY <1>5, <1>8 DEF IInv

\* elysian_isp_http_body_multipart keeps the invariant.
LEMMA MultipartStep == IInv /\ Multipart => IInv'
  BY MpEmptyStep, MpBodyStep, MpMoreStep, MpHeaderStep, MpRestStep, MpDoneStep DEF Multipart

-----------------------------------------------------------------------------
(* The store                                                                *)

FileType == [mode : {"none", "write", "closed", "read"}, content : Seq(Byte)]

\* A step of the store takes nothing from the processors.
LEMMA StoreKeeps ==
    ASSUME IInv, pc = "store", StoreUnchanged, Written' = Written, StoreShape(store', offset'),
           file' \in FileType, size' \in Nat \cup {Unknown}, failures' \in 0..MaxFailures,
           poll' \in BOOLEAN, poll_request' \in BOOLEAN, pc' \in {"store", "idle"},
           verdict' \in {"receiving", "stored", "failed"},
           size' # Unknown => Complete /\ size' >= Length(store') - offset',
           file'.mode \in {"closed", "read"} => Complete /\ store' = <<>>,
           verdict' = "stored" <=> file'.mode = "read",
           verdict' # "receiving" => pc' = "idle"
    PROVE  IInv'
  <1>1. /\ req' = req /\ arrived' = arrived /\ burst' = burst /\ rcv' = rcv /\ isp' = isp
        /\ mp_list' = mp_list /\ mp' = mp /\ eos' = eos
    BY DEF StoreUnchanged, input
  <1>2. Taken' = Taken /\ Emitted' = Emitted /\ Complete' = Complete
    BY <1>1 DEF Taken, Emitted, Complete
  <1>3. Lists3' /\ Scalars' /\ Received' /\ FirstPlace'
    BY <1>1, <1>2 DEF IInv, Lists3, StoreShape, Scalars, Received, FirstPlace, FileType
  <1>4. verdict = "receiving"  BY DEF IInv, Sizes
  <1>5. SecondPlace'
    <2>1. mp.state # 5 \/ ~req.multipart  BY <1>4 DEF IInv, SecondPlace
    <2>. QED  BY <2>1, <1>1, <1>2 DEF IInv, SecondPlace
  <1>6. Sizes'  BY <1>1, <1>2 DEF Sizes
  <1>. QED  BY <1>3, <1>5, <1>6 DEF IInv

\* What is written, and what waits, after a step of the store.
LEMMA StoreNow ==
    ASSUME IInv, pc = "store"
    PROVE  /\ StoreShape(store, offset) /\ file \in FileType /\ verdict = "receiving"
           /\ size \in Nat \cup {Unknown} /\ failures \in 0..MaxFailures /\ MaxFailures \in Nat
           /\ poll \in BOOLEAN /\ poll_request \in BOOLEAN
           /\ size # Unknown => Complete /\ size >= Length(store) - offset
           /\ file.mode \in {"closed", "read"} => Complete /\ store = <<>>
           /\ file.mode # "read"
           /\ NoFailure \/ Denied => failures' \in 0..MaxFailures
  <1>1. /\ StoreShape(store, offset) /\ file \in FileType /\ verdict = "receiving"
        /\ size \in Nat \cup {Unknown} /\ failures \in 0..MaxFailures
        /\ poll \in BOOLEAN /\ poll_request \in BOOLEAN
        /\ size # Unknown => Complete /\ size >= Length(store) - offset
        /\ file.mode \in {"closed", "read"} => Complete /\ store = <<>>
        /\ file.mode # "read"
    BY DEF IInv, Lists3, StoreShape, Scalars, Sizes, FileType
  <1>2. MaxFailures \in Nat  BY BoundsAssumption
  <1>. QED  BY <1>1, <1>2 DEF NoFailure, Denied

\* What is written is the beginning of what waited.
LEMMA WriteStep ==
    ASSUME IInv, pc = "store", file.mode = "write", store # <<>>, StoreUnchanged,
           NEW n \in WriteSizes,
           file' = [file EXCEPT !.content = @ \o SubSeq(store[1], offset + 1, offset + n)],
           offset' = OffsetAfter(n), store' = IF n = Left THEN Tail(store) ELSE store,
           size' = IF size = Unknown THEN Unknown ELSE size - n,
           NoFailure, UNCHANGED <<pc, poll, poll_request, verdict>>
    PROVE  /\ IInv'
           /\ \E w, u \in Seq(Byte) : /\ w # <<>> /\ file'.content = Cat(file.content, w)
                                     /\ Written = Cat(file'.content, u)
  <1>1. /\ StoreShape(store, offset) /\ file \in FileType /\ verdict = "receiving"
        /\ size \in Nat \cup {Unknown} /\ poll \in BOOLEAN /\ poll_request \in BOOLEAN
        /\ size # Unknown => Complete /\ size >= Length(store) - offset
        /\ failures' \in 0..MaxFailures
    BY StoreNow
  <1>2. Left = Len(store[1]) - offset /\ Left \in Nat \ {0}
    <2>1. store \in Cbuf /\ NoneEmpty(store) /\ offset \in Nat /\ offset < Len(store[1])
      BY <1>1 DEF StoreShape
    <2>2. Len(store[1]) \in Nat  BY <2>1, FirstOfStore
    <2>. QED  BY <2>1, <2>2 DEF Left
  <1>3. n \in 1..Left  BY <1>2 DEF WriteSizes
  <1>4. n \in 1..(Len(store[1]) - offset)
        /\ store' = (IF n = Len(store[1]) - offset THEN Tail(store) ELSE store)
        /\ offset' = (IF n = Len(store[1]) - offset THEN 0 ELSE offset + n)
    BY <1>2, <1>3 DEF OffsetAfter
  <1>. DEFINE w == Slice(store[1], offset, offset + n)
  <1>5. /\ StoreShape(store', offset') /\ w \in Seq(Byte)
        /\ Cat(w, Waiting(store', offset')) = Waiting(store, offset)
        /\ Length(store') - offset' = Length(store) - offset - n /\ n \in Nat /\ w # <<>>
    <2>. DEFINE rest == store'
                pos == offset'
    <2>1. /\ StoreShape(store, offset) /\ store # <<>> /\ n \in 1..(Len(store[1]) - offset)
          /\ Advances(store, offset, n, rest, pos)
      BY <1>1, <1>4 DEF Advances
    <2>. HIDE DEF rest, pos
    <2>2. /\ StoreShape(rest, pos) /\ Slice(store[1], offset, offset + n) \in Seq(Byte)
          /\ Cat(Slice(store[1], offset, offset + n), Waiting(rest, pos)) = Waiting(store, offset)
          /\ Length(rest) - pos = Length(store) - offset - n /\ n \in Nat
          /\ Slice(store[1], offset, offset + n) # <<>>
      BY <2>1, StoreWritten
    <2>. QED  BY <2>2 DEF rest, pos
  <1>6. file' = [file EXCEPT !.content = Cat(file.content, w)]  BY DEF Slice, Cat
  <1>. HIDE DEF w
  <1>7. file.content \in Seq(Byte)  BY <1>1 DEF FileType
  <1>8. Cat(file.content, w) \in Seq(Byte)  BY <1>5, <1>7, CatType
  <1>9. file' = [mode |-> "write", content |-> Cat(file.content, w)]  BY <1>1, <1>6 DEF FileType
  <1>10. file' \in FileType /\ file'.content = Cat(file.content, w) /\ file'.mode = "write"
    <2>. DEFINE c == Cat(file.content, w)
    <2>1. c \in Seq(Byte) /\ file' = [mode |-> "write", content |-> c]  BY <1>8, <1>9
    <2>. HIDE DEF c
    <2>2. file' \in FileType /\ file'.content = c /\ file'.mode = "write"  BY ONLY <2>1 DEF FileType
    <2>. QED  BY <2>2 DEF c
  <1>11. Written' = Written
    <2>1. Unwritten = Waiting(store, offset) /\ Unwritten' = Waiting(store', offset')
      BY DEF Unwritten, Waiting, Slice
    <2>2. Waiting(store', offset') \in Seq(Byte)  BY <1>5, StoreFacts
    <2>3. Cat(Cat(file.content, w), Waiting(store', offset')) = Cat(file.content, Cat(w, Waiting(store', offset')))
      BY <1>5, <1>7, <2>2, CatAssociative
    <2>. QED  BY <2>1, <2>3, <1>5, <1>10 DEF Written
  <1>12. /\ size' \in Nat \cup {Unknown}
         /\ size' # Unknown => Complete /\ size' >= Length(store') - offset'
    <2>1. CASE size = Unknown  BY <2>1
    <2>2. CASE size # Unknown
      <3>1. size \in Nat /\ size' = size - n /\ size >= Length(store) - offset  BY <2>2, <1>1
      <3>2. Length(store) \in Nat /\ offset \in Nat /\ Length(store') - offset' \in Nat
        <4>1. Length(store) \in Nat /\ offset \in 0..Length(store)  BY <1>1, StoreFacts
        <4>2. Length(store') \in Nat /\ offset' \in 0..Length(store')  BY <1>5, StoreFacts
        <4>. QED  BY <4>1, <4>2
      <3>. QED  BY <3>1, <3>2, <2>2, <1>1, <1>5
    <2>. QED  BY <2>1, <2>2
  <1>13. IInv'
    BY <1>1, <1>5, <1>10, <1>11, <1>12, StoreKeeps
  <1>14. Waiting(store', offset') \in Seq(Byte)  BY <1>5, StoreFacts
  <1>15. Written = Cat(file'.content, Waiting(store', offset'))
    BY <1>11 DEF Written, Unwritten, Waiting, Slice
  <1>. QED  BY <1>5, <1>10, <1>13, <1>14, <1>15

\* Storing keeps the invariant, whether the file takes all, some or none of it.
LEMMA StoreStep == IInv /\ Store => IInv'
  <1>. SUFFICES ASSUME IInv, Store PROVE IInv'  OBVIOUS
  <1>1. pc = "store" /\ StoreUnchanged
    BY DEF Store, StoreOpen, StoreWrite, StoreEnds, StoreReopen, StoreFails
  <1>2. /\ StoreShape(store, offset) /\ file \in FileType /\ verdict = "receiving"
        /\ size \in Nat \cup {Unknown} /\ poll \in BOOLEAN /\ poll_request \in BOOLEAN
        /\ size # Unknown => Complete /\ size >= Length(store) - offset
        /\ file.mode \in {"closed", "read"} => Complete /\ store = <<>>
        /\ file.mode # "read"
        /\ NoFailure \/ Denied => failures' \in 0..MaxFailures
    BY <1>1, StoreNow
  <1>3. file'.content = file.content /\ store' = store /\ offset' = offset
           => Written' = Written /\ StoreShape(store', offset')
    BY <1>2 DEF Written, Unwritten
  <1>4. CASE StoreOpen
    <2>1. /\ store' = store /\ offset' = offset /\ size' = size /\ verdict' = verdict
          /\ file.mode = "none" /\ (NoFailure \/ Denied)
          /\ file' \in {file, [file EXCEPT !.mode = "write"]}
          /\ pc' \in {"store", "idle"} /\ poll' \in BOOLEAN /\ poll_request' = poll_request
      BY <1>1, <1>2, <1>4 DEF StoreOpen, PollEnds
    <2>2. file' \in FileType /\ file'.content = file.content /\ file'.mode \in {"none", "write"}
      BY <2>1, <1>2 DEF FileType
    <2>. QED  BY <2>1, <2>2, <1>1, <1>2, <1>3, StoreKeeps
  <1>5. CASE StoreWrite
    <2>1. CASE Denied /\ PollEnds(TRUE) /\ UNCHANGED <<file, offset, store, size>>
      <3>1. verdict' = verdict  BY <1>5 DEF StoreWrite
      <3>2. file.mode = "write"  BY <1>5 DEF StoreWrite
      <3>. QED  BY <2>1, <3>1, <3>2, <1>1, <1>2, <1>3, StoreKeeps DEF PollEnds
    <2>2. CASE ~(Denied /\ PollEnds(TRUE) /\ UNCHANGED <<file, offset, store, size>>)
      <3>1. /\ file.mode = "write" /\ store # <<>> /\ NoFailure /\ UNCHANGED <<pc, poll, poll_request, verdict>>
            /\ \E n \in WriteSizes :
                  /\ file' = [file EXCEPT !.content = @ \o SubSeq(store[1], offset + 1, offset + n)]
                  /\ offset' = OffsetAfter(n)
                  /\ store' = IF n = Left THEN Tail(store) ELSE store
                  /\ size' = IF size = Unknown THEN Unknown ELSE size - n
        BY <1>5, <2>2 DEF StoreWrite
      <3>. QED  BY <3>1, <1>1, WriteStep
    <2>. QED  BY <2>1, <2>2
  <1>6. CASE StoreEnds
    <2>1. /\ store' = store /\ offset' = offset /\ size' = size /\ verdict' = verdict
          /\ file.mode = "write" /\ store = <<>> /\ NoFailure
      BY <1>6 DEF StoreEnds
    <2>2. CASE size = 0 /\ file' = [file EXCEPT !.mode = "closed"] /\ UNCHANGED <<pc, poll, poll_request>>
      <3>1. file' \in FileType /\ file'.content = file.content /\ file'.mode = "closed"
        BY <2>2, <1>2 DEF FileType
      <3>2. Complete  BY <2>2, <1>2 DEF Unknown
      <3>. QED  BY <2>1, <2>2, <3>1, <3>2, <1>1, <1>2, <1>3, StoreKeeps
    <2>3. CASE PollEnds(poll_request) /\ UNCHANGED file
      BY <2>1, <2>3, <1>1, <1>2, <1>3, StoreKeeps DEF PollEnds
    <2>. QED  BY <2>2, <2>3, <1>6 DEF StoreEnds
  <1>7. CASE StoreReopen
    <2>1. /\ store' = store /\ offset' = offset /\ size' = size /\ file.mode = "closed"
      BY <1>7 DEF StoreReopen
    <2>2. CASE /\ file' = [file EXCEPT !.mode = "read"] /\ verdict' = "stored" /\ PollEnds(FALSE)
               /\ NoFailure
      <3>1. file' \in FileType /\ file'.content = file.content /\ file'.mode = "read"
        BY <2>2, <1>2 DEF FileType
      <3>. QED  BY <2>1, <2>2, <3>1, <1>1, <1>2, <1>3, StoreKeeps DEF PollEnds
    <2>3. CASE Denied /\ PollEnds(TRUE) /\ UNCHANGED <<file, verdict>>
      BY <2>1, <2>3, <1>1, <1>2, <1>3, StoreKeeps DEF PollEnds
    <2>. QED  BY <2>2, <2>3, <1>7 DEF StoreReopen
  <1>8. CASE StoreFails
    <2>1. /\ UNCHANGED <<store, offset, size, file, poll, poll_request>> /\ pc' = "idle" /\ verdict' = "failed"
          /\ Denied
      BY <1>8 DEF StoreFails
    <2>. QED  BY <2>1, <1>1, <1>2, <1>3, StoreKeeps
  <1>. QED  BY <1>4, <1>5, <1>6, <1>7, <1>8 DEF Store

-----------------------------------------------------------------------------
(* The invariant holds                                                      *)

LEMMA ReadInputStep == IInv /\ ReadInput => IInv'
  <1>. SUFFICES ASSUME IInv, ReadInput PROVE IInv'  OBVIOUS
  <1>1. PICK n \in PieceSizes :
          /\ arrived + n <= Len(req.stream)
          /\ rcv' = Append(rcv, SubSeq(req.stream, arrived + 1, arrived + n))
          /\ arrived' = arrived + n
    BY DEF ReadInput
  <1>2. /\ pc = "idle" /\ verdict = "receiving" /\ burst < MaxBurst /\ burst' = burst + 1 /\ poll' = TRUE
        /\ UNCHANGED <<req, isp, mp_list, mp, store, offset, size, file, pc, eos, poll_request, failures, verdict>>
    BY DEF ReadInput
  <1>. DEFINE piece == Slice(req.stream, arrived, arrived + n)
  <1>3. n \in Nat \ {0}  BY BoundsAssumption
  <1>4. /\ req.stream \in Seq(Byte) /\ Len(req.stream) \in Nat /\ arrived \in Nat /\ Taken \in 0..arrived
        /\ Length(rcv) = arrived - Taken /\ Bytes(rcv) = Slice(req.stream, Taken, arrived)
        /\ rcv \in Cbuf /\ NoneEmpty(rcv) /\ Taken \in Nat
    BY Places DEF IInv, Received, Lists3
  <1>5. /\ arrived + n \in 0..Len(req.stream) /\ arrived \in 0..(arrived + n) /\ Taken \in 0..arrived
        /\ (arrived + n) - arrived = n
    BY <1>1, <1>3, <1>4
  <1>6. piece \in Seq(Byte) /\ Len(piece) = n  BY <1>4, <1>5, SliceProperties
  <1>7. Cat(Slice(req.stream, Taken, arrived), piece) = Slice(req.stream, Taken, arrived + n)
    BY <1>4, <1>5, SliceJoin
  <1>8. rcv' = Append(rcv, piece)  BY <1>1 DEF Slice
  <1>. HIDE DEF piece
  <1>9. rcv' \in Cbuf /\ NoneEmpty(rcv')
    <2>. DEFINE C == Seq(Byte)
    <2>1. rcv \in Seq(C) /\ piece \in C  BY <1>4, <1>6 DEF Cbuf
    <2>2. piece # <<>>  BY <1>3, <1>6
    <2>. HIDE DEF C
    <2>3. Append(rcv, piece) \in Seq(C) /\ \A i \in 1..Len(Append(rcv, piece)) :
             (i \in 1..Len(rcv) /\ Append(rcv, piece)[i] = rcv[i]) \/ Append(rcv, piece)[i] = piece
      BY <2>1
    <2>4. DOMAIN Append(rcv, piece) = 1..Len(Append(rcv, piece)) /\ DOMAIN rcv = 1..Len(rcv)
      BY <2>1, <2>3
    <2>5. NoneEmpty(Append(rcv, piece))  BY <2>2, <2>3, <2>4, <1>4 DEF NoneEmpty
    <2>. QED  BY <2>3, <2>5, <1>8 DEF C, Cbuf
  <1>10. Bytes(rcv') = Cat(Bytes(rcv), piece)
    <2>1. rcv \in Seq(Seq(Byte))  BY <1>4 DEF Cbuf
    <2>. QED  BY <2>1, <1>6, <1>8, FlattenAppend DEF Bytes, Cat
  <1>11. Bytes(rcv') = Slice(req.stream, Taken, arrived + n)  BY <1>4, <1>7, <1>10
  <1>12. Length(rcv') = (arrived + n) - Taken
    <2>1. Taken \in 0..(arrived + n)  BY <1>5, <1>4
    <2>2. Len(Slice(req.stream, Taken, arrived + n)) = (arrived + n) - Taken
      BY <2>1, <1>4, <1>5, SliceProperties
    <2>. QED  BY <2>2, <1>11 DEF Length
  <1>13. Taken' = Taken /\ Length(rcv') <= arrived'
    <2>1. Taken' = arrived' - Length(rcv')  BY DEF Taken
    <2>. QED  BY <2>1, <1>12, <1>1, <1>3, <1>4
  <1>14. Written' = Written /\ Emitted' = Emitted  BY <1>2 DEF Written, Emitted, Unwritten
  <1>15. Lists3'  BY <1>2, <1>9 DEF IInv, Lists3
  <1>16. Scalars'
    <2>1. burst' \in 0..MaxBurst  BY <1>2, BoundsAssumption DEF IInv, Scalars
    <2>. QED  BY <2>1, <1>2 DEF IInv, Scalars
  <1>17. Received'
    <2>1. arrived' \in 0..Len(req.stream)  BY <1>1, <1>5
    <2>. QED  BY <2>1, <1>1, <1>2, <1>11, <1>13 DEF IInv, Received
  <1>18. FirstPlace'  BY <1>2, <1>13, <1>14 DEF IInv, FirstPlace
  <1>19. SecondPlace'  BY <1>2, <1>14 DEF IInv, SecondPlace
  <1>20. Sizes'  BY <1>2 DEF IInv, Sizes, Complete
  <1>. QED  BY <1>15, <1>16, <1>17, <1>18, <1>19, <1>20 DEF IInv

LEMMA PollStep == IInv /\ Poll => IInv'
  <1>. SUFFICES ASSUME IInv, Poll PROVE IInv'  OBVIOUS
  <1>1. /\ pc = "idle" /\ verdict = "receiving" /\ pc' = "isp" /\ poll_request' = FALSE /\ burst' = 0
        /\ UNCHANGED <<req, arrived, rcv, isp, mp_list, mp, store, offset, size, file, poll, eos,
                       failures, verdict>>
    BY DEF Poll
  <1>2. Taken' = Taken /\ Written' = Written /\ Emitted' = Emitted
    BY <1>1 DEF Taken, Written, Emitted, Unwritten
  <1>3. 0 \in 0..MaxBurst  BY BoundsAssumption
  <1>4. Lists3' /\ Scalars' /\ Received'  BY <1>1, <1>2, <1>3 DEF IInv, Lists3, Scalars, Received
  <1>5. FirstPlace' /\ SecondPlace'  BY <1>1, <1>2 DEF IInv, FirstPlace, SecondPlace
  <1>6. Sizes'  BY <1>1 DEF IInv, Sizes, Complete
  <1>. QED  BY <1>4, <1>5, <1>6 DEF IInv

LEMMA Unchanged == IInv /\ UNCHANGED vars => IInv'
  <1>. SUFFICES ASSUME IInv, UNCHANGED vars PROVE IInv'  OBVIOUS
  <1>1. UNCHANGED <<req, arrived, burst, rcv, isp, mp_list, mp, store, offset, size, file, poll, pc, eos,
                    poll_request, failures, verdict>>
    BY DEF vars
  <1>2. Taken' = Taken /\ Written' = Written /\ Emitted' = Emitted
    BY <1>1 DEF Taken, Written, Emitted, Unwritten
  <1>3. Lists3' /\ Scalars' /\ Received'  BY <1>1, <1>2 DEF IInv, Lists3, Scalars, Received
  <1>4. FirstPlace' /\ SecondPlace'  BY <1>1, <1>2 DEF IInv, FirstPlace, SecondPlace
  <1>5. Sizes'  BY <1>1 DEF IInv, Sizes, Complete
  <1>. QED  BY <1>3, <1>4, <1>5 DEF IInv

\* One step of the reception, or none.
LEMMA NextStep == IInv /\ [Next]_vars => IInv'
  BY RawStep, ChunkedStep, MultipartStep, StoreStep, ReadInputStep, PollStep, Unchanged
     DEF Next, InPoll, Quiet

\* Nothing was received.
LEMMA Starts == Init => IInv
  <1>. SUFFICES ASSUME Init PROVE IInv  OBVIOUS
  <1>1. /\ req \in Requests /\ arrived = 0 /\ burst = 0 /\ rcv = <<>>
        /\ isp = [state |-> 0, index |-> 0, size |-> 0]
        /\ mp_list = <<>> /\ mp = [state |-> 0, index |-> 0, params |-> <<>>]
        /\ store = <<>> /\ offset = 0 /\ size = Unknown
        /\ file = [mode |-> "none", content |-> <<>>]
        /\ poll = TRUE /\ pc = "idle" /\ eos = FALSE /\ poll_request = FALSE
        /\ failures = 0 /\ verdict = "receiving"
    BY DEF Init
  <1>2. /\ req.stream \in Seq(Byte) /\ Len(req.stream) \in Nat /\ req.body_len \in Nat
        /\ req.framing \in {"raw", "chunked"}
    BY <1>1, RequestFacts
  <1>. DEFINE e == <<>>
  <1>3. e \in Cbuf /\ NoneEmpty(e) /\ e \in Seq(Byte) /\ e \in Seq(Seq(Byte)) /\ e \in Seq(Param)
    BY DEF Cbuf, NoneEmpty
  <1>4. Bytes(e) = e /\ Length(e) = 0
    <2>1. FlattenSeq(e) = e  BY <1>3, FlattenAppend
    <2>2. Len(e) = 0  OBVIOUS
    <2>. QED  BY <2>1, <2>2 DEF Bytes, Length
  <1>5. Taken = 0  BY <1>1, <1>4 DEF Taken
  <1>6. Unwritten = e
    <2>1. StoreShape(e, 0)  BY <1>3 DEF StoreShape
    <2>2. Waiting(e, 0) = e  BY <2>1, StoreFacts
    <2>. QED  BY <2>2, <1>1 DEF Unwritten, Waiting, Slice
  <1>7. Cat(e, e) = e /\ Len(e) = 0  BY <1>3, CatType
  <1>8. Written = e /\ Emitted = e  BY <1>1, <1>4, <1>6, <1>7 DEF Written, Emitted
  <1>9. Slice(req.stream, 0, 0) = e /\ 0 \in 0..Len(req.stream)  BY <1>2, SliceEnds
  <1>10. MaxBurst \in Nat /\ MaxFailures \in Nat  BY BoundsAssumption
  <1>11. Lists3  BY <1>1, <1>3 DEF Lists3
  <1>12. Scalars
    <2>1. isp \in IspType  BY <1>1 DEF IspType
    <2>2. mp = [state |-> 0, index |-> 0, params |-> e]  BY <1>1
    <2>. HIDE DEF e
    <2>3. mp \in MpType  BY <2>2, <1>3 DEF MpType
    <2>4. burst \in 0..MaxBurst /\ failures \in 0..MaxFailures  BY <1>1, <1>10
    <2>5. size \in Nat \cup {Unknown} /\ poll \in BOOLEAN /\ eos \in BOOLEAN /\ poll_request \in BOOLEAN
          /\ pc \in {"idle", "isp", "multipart", "store"} /\ verdict \in {"receiving", "stored", "refused", "failed"}
      BY <1>1
    <2>. QED  BY <2>1, <2>3, <2>4, <2>5 DEF Scalars
  <1>13. Received
    <2>1. rcv = e /\ isp.index = 0 /\ arrived = 0  BY <1>1
    <2>. HIDE DEF e
    <2>2. Bytes(rcv) = e /\ Length(rcv) = 0  BY <2>1, <1>4
    <2>3. Slice(req.stream, Taken, arrived) = e  BY <2>1, <1>5, <1>9
    <2>4. Bytes(rcv) = Slice(req.stream, Taken, arrived) /\ Length(rcv) <= arrived
      BY <2>1, <2>2, <2>3
    <2>. QED  BY <2>1, <2>4, <1>1, <1>5, <1>9 DEF Received
  <1>14. FirstPlace
    <2>1. CASE req.framing = "raw"
      BY <2>1, <1>1, <1>2, <1>5, <1>8, <1>9 DEF FirstPlace, FirstAt, RawAt
    <2>2. CASE req.framing # "raw"
      <3>1. Chunks(req.stream)[0] = NoChunks  BY <1>2, ChunksUnfold
      <3>2. 0 <= Chunks(req.stream)[0].at /\ ChunkAt(req.stream, Chunks(req.stream)[0], isp, Taken, Emitted)
        BY <3>1, <1>1, <1>5, <1>8 DEF NoChunks, ChunkAt
      <3>3. ChunksAt(req.stream, isp, Taken, Emitted)  BY <3>2, <1>9 DEF ChunksAt
      <3>. QED  BY <3>3, <2>2 DEF FirstPlace, FirstAt
    <2>. QED  BY <2>1, <2>2
  <1>15. SecondPlace
    <2>1. CASE req.multipart
      <3>. DEFINE c == ContentOf(req)
      <3>1. c \in Seq(Byte)
        <4>1. isp \in IspType /\ FirstAt(req, isp, Taken, Emitted)  BY <1>12, <1>14 DEF Scalars, FirstPlace
        <4>. QED  BY <4>1, <1>1, <1>5, <1>9, FirstBegins
      <3>. HIDE DEF c
      <3>2. Parsed(c)[0] = NoParts /\ 0 \in 0..Len(c)
        <4>1. Len(c) \in Nat  BY <3>1, PartsUnfold
        <4>. QED  BY <3>1, <4>1, PartsUnfold
      <3>3. mp_list # <<>> <=> FALSE  BY <1>1
      <3>4. 0 <= Parsed(c)[0].at /\ PartAt(c, Parsed(c)[0], mp, mp_list # <<>>)
        <4>1. \A i \in 0..(0 - 1) : FALSE  OBVIOUS
        <4>. QED  BY <3>2, <4>1, <1>1 DEF NoParts, PartAt
      <3>5. PartsAt(c, mp, mp_list # <<>>)  BY <3>2, <3>4 DEF PartsAt
      <3>. QED  BY <3>5, <2>1, <1>1, <1>7, <1>8 DEF SecondPlace, c
    <2>2. CASE ~req.multipart  BY <2>2, <1>1 DEF SecondPlace
    <2>. QED  BY <2>1, <2>2
  <1>16. Sizes  BY <1>1 DEF Sizes, Unknown
  <1>. QED  BY <1>11, <1>12, <1>13, <1>14, <1>15, <1>16 DEF IInv

\* The invariant of the reception holds: wherever the pieces of the stream end and
\* whatever is denied, each processor is at a place of the reference, with its output.
THEOREM SpecBody == Spec => []IInv
  BY Starts, NextStep, PTL DEF Spec

-----------------------------------------------------------------------------
(* The properties                                                           *)

\* No more is put out than was taken.
LEMMA ContentFits ==
    ASSUME NEW s \in Seq(Byte), NEW k \in 0..Len(s)
    PROVE  Len(Chunks(s)[k].content) <= Chunks(s)[k].at
  <1>. DEFINE Good == {j \in 0..Len(s) : Len(Chunks(s)[j].content) <= Chunks(s)[j].at}
  <1>1. /\ Len(s) \in Nat /\ Chunks(s) \in [0..Len(s) -> ChunkStates] /\ Chunks(s)[0] = NoChunks
        /\ \A j \in 0..(Len(s) - 1) : Chunks(s)[j + 1] = NextChunk(s, Chunks(s)[j])
    BY ChunksUnfold
  <1>2. 0 \in Good
    <2>1. Len(<<>>) = 0  OBVIOUS
    <2>. QED  BY <1>1, <2>1 DEF NoChunks
  <1>3. ASSUME NEW j \in 0..(Len(s) - 1), j \in Good PROVE j + 1 \in Good
    <2>. DEFINE d == Chunks(s)[j]
    <2>1. d \in ChunkStates /\ Chunks(s)[j + 1] = NextChunk(s, d) /\ Len(d.content) <= d.at /\ j + 1 \in 0..Len(s)
      BY <1>1, <1>3
    <2>. HIDE DEF d
    <2>2. d.content \in Seq(Byte) /\ d.at \in Nat  BY <2>1 DEF ChunkStates
    <2>3. CASE ~IsChunk(s, d.at)
      BY <2>1, <2>3 DEF NextChunk
    <2>4. CASE IsChunk(s, d.at)
      <3>. DEFINE p == DataAt(s, d.at)
                  q == DataEndAt(s, d.at)
                  w == Slice(s, p, q)
      <3>1. /\ q + 2 <= Len(s) /\ NextChunk(s, d).at = q + 2 /\ w \in Seq(Byte)
            /\ NextChunk(s, d).content = Cat(d.content, w)
        BY <2>1, <2>4, NextChunkType
      <3>2. IsLine(s, d.at)  BY <2>4 DEF IsChunk
      <3>3. p \in Nat /\ d.at < p /\ q \in Nat /\ p <= q
        BY <3>2, <2>2, LineFacts
      <3>. HIDE DEF p, q
      <3>4. q \in 0..Len(s) /\ p \in 0..q  BY <3>1, <3>3, <1>1
      <3>5. Len(w) = q - p  BY <3>4, SliceProperties
      <3>. HIDE DEF w
      <3>6. Len(Cat(d.content, w)) = Len(d.content) + Len(w) /\ Len(d.content) \in Nat
        <4>. DEFINE v == d.content
        <4>1. v \in Seq(Byte)  BY <2>2
        <4>. HIDE DEF v
        <4>2. Len(Cat(v, w)) = Len(v) + Len(w) /\ Len(v) \in Nat  BY <4>1, <3>1, CatType
        <4>. QED  BY <4>2 DEF v
      <3>. QED  BY <2>1, <2>2, <3>1, <3>3, <3>5, <3>6
    <2>. QED  BY <2>3, <2>4
  <1>. HIDE DEF Good
  <1>4. 0..Len(s) \subseteq Good
    <2>1. 0 \in Int /\ Len(s) \in Int  BY <1>1
    <2>. QED  BY <2>1, <1>2, <1>3, IntervalInduction
  <1>. QED  BY <1>4 DEF Good

\* What was put out is a beginning of the content.
LEMMA EmittedFits ==
    ASSUME NEW r \in Requests, NEW i \in IspType, NEW taken \in 0..Len(r.stream), NEW out,
           FirstAt(r, i, taken, out)
    PROVE  Len(out) <= taken
  <1>1. r.stream \in Seq(Byte) /\ Len(r.stream) \in Nat /\ r.body_len \in Nat  BY RequestFacts
  <1>2. CASE r.framing = "raw"
    <2>1. taken = i.index /\ out = Slice(r.stream, 0, taken)  BY <1>2 DEF FirstAt, RawAt
    <2>2. 0 \in 0..taken  BY <1>1
    <2>3. Len(out) = taken - 0
      <3>1. Len(Slice(r.stream, 0, taken)) = taken - 0  BY <2>2, <1>1, SliceProperties
      <3>. QED  BY <2>1, <3>1
    <2>. QED  BY <2>3, <1>1
  <1>3. CASE r.framing # "raw"
    <2>. DEFINE s == r.stream
    <2>1. PICK k \in 0..Len(s) : ChunkAt(s, Chunks(s)[k], i, taken, out)
      BY <1>3 DEF FirstAt, ChunksAt
    <2>. DEFINE d == Chunks(s)[k]
                p == DataAt(s, d.at)
                w == Slice(s, p, taken)
    <2>2. d.at \in Nat /\ d.content \in Seq(Byte) /\ Len(d.content) <= d.at
      <3>1. d \in ChunkStates  BY <1>1, ChunksUnfold
      <3>. QED  BY <3>1, <1>1, ContentFits DEF ChunkStates
    <2>3. \/ taken = d.at /\ out = d.content
          \/ IsLine(s, d.at) /\ p <= taken /\ out = Cat(d.content, w)
          \/ IsLine(s, d.at) /\ taken = p /\ out = d.content
      <3>1. /\ IsLine(s, d.at) => SizeAt(s, d.at) \in Nat /\ p \in Nat /\ DataEndAt(s, d.at) = p + SizeAt(s, d.at)
            /\ i.index \in Nat
        BY <1>1, <2>2, LineFacts DEF IspType
      <3>. QED  BY <2>1, <3>1 DEF ChunkAt, IsLast
    <2>4. IsLine(s, d.at) => p \in Nat /\ d.at < p  BY <1>1, <2>2, LineFacts
    <2>5. p \in 0..taken => w \in Seq(Byte) /\ Len(w) = taken - p  BY <1>1, SliceProperties
    <2>. HIDE DEF s, d, p, w
    <2>6. w \in Seq(Byte) => Len(Cat(d.content, w)) = Len(d.content) + Len(w)
      <3>. DEFINE v == d.content
      <3>1. v \in Seq(Byte)  BY <2>2
      <3>. HIDE DEF v
      <3>2. w \in Seq(Byte) => Len(Cat(v, w)) = Len(v) + Len(w)  BY <3>1, CatType
      <3>. QED  BY <3>2 DEF v
    <2>7. Len(d.content) \in Nat /\ taken \in Nat
      <3>. DEFINE v == d.content
      <3>1. v \in Seq(Byte)  BY <2>2
      <3>. HIDE DEF v
      <3>2. Len(v) \in Nat  BY <3>1
      <3>. QED  BY <3>2, <1>1 DEF v
    <2>. QED  BY <2>2, <2>3, <2>4, <2>5, <2>6, <2>7
  <1>. QED  BY <1>2, <1>3

\* TypeOK: no list of the reception holds an empty cbuf, no processor (isp.c:61-701) counts
\* further than the stream, and the offset of the store (elysian.c:174) is inside its first cbuf.
THEOREM BodyTypes == Spec => []TypeOK
  <1>1. IInv => TypeOK
    <2>. SUFFICES ASSUME IInv PROVE TypeOK  OBVIOUS
    <2>1. /\ req \in Requests /\ arrived \in 0..Len(req.stream) /\ burst \in 0..MaxBurst /\ isp \in IspType
          /\ mp \in MpType /\ isp.index <= Taken /\ FirstAt(req, isp, Taken, Emitted)
          /\ NoneEmpty(rcv) /\ NoneEmpty(mp_list) /\ NoneEmpty(store)
      BY DEF IInv, Received, Scalars, FirstPlace, Lists3
    <2>2. /\ Taken \in 0..Len(req.stream) /\ Len(Emitted) = Len(Written) + Length(mp_list)
          /\ Len(Written) \in Nat /\ Length(mp_list) \in Nat /\ Len(req.stream) \in Nat
      BY Places
    <2>3. Len(Emitted) <= Taken  BY <2>1, <2>2, EmittedFits
    <2>4. isp.state \in {0, 1, 2, 4} /\ isp.index \in Nat /\ mp.state \in 0..5 /\ mp.index \in Nat
      BY <2>1 DEF IspType, MpType
    <2>5. mp.index <= Len(Written) \/ mp.index = 0  BY DEF IInv, SecondPlace
    <2>6. isp.index \in 0..Len(req.stream) /\ mp.index \in 0..Len(req.stream)
      BY <2>1, <2>2, <2>3, <2>4, <2>5
    <2>7. \A list \in Lists : \A i \in DOMAIN list : list[i] # <<>>  BY <2>1 DEF Lists, NoneEmpty
    <2>8. /\ offset \in Nat /\ (store = <<>> => offset = 0) /\ (store # <<>> => offset < Len(store[1]))
          /\ size \in Nat \cup {Unknown} /\ file.mode \in {"none", "write", "closed", "read"}
          /\ <<poll, eos, poll_request>> \in BOOLEAN \X BOOLEAN \X BOOLEAN
          /\ pc \in {"idle", "isp", "multipart", "store"}
          /\ verdict \in {"receiving", "stored", "refused", "failed"}
      BY DEF IInv, Lists3, Scalars
    <2>. QED  BY <2>1, <2>4, <2>6, <2>7, <2>8 DEF TypeOK
  <1>. QED  BY <1>1, SpecBody, PTL

\* BytesConserved: of a body of known length every byte is in one place, in order, on its way
\* through elysian_isp_http_body_raw, the multipart processor and the store (elysian.c:113-310).
THEOREM BodyBytesConserved == Spec => []BytesConserved
  <1>1. IInv => BytesConserved
    <2>. SUFFICES ASSUME IInv, req.framing = "raw"
                  PROVE  file.content \o Unwritten \o Bytes(mp_list) \o Bytes(rcv) = SubSeq(req.stream, 1, arrived)
      BY DEF BytesConserved
    <2>1. Emitted = Slice(req.stream, 0, Taken)  BY DEF IInv, FirstPlace, FirstAt, RawAt
    <2>2. Bytes(rcv) = Slice(req.stream, Taken, arrived)  BY DEF IInv, Received
    <2>3. /\ req.stream \in Seq(Byte) /\ arrived \in 0..Len(req.stream) /\ Taken \in 0..arrived /\ 0 \in 0..Taken
      BY Places
    <2>4. Cat(Slice(req.stream, 0, Taken), Slice(req.stream, Taken, arrived)) = Slice(req.stream, 0, arrived)
      BY <2>3, SliceJoin
    <2>5. Cat(Emitted, Bytes(rcv)) = Slice(req.stream, 0, arrived)  BY <2>1, <2>2, <2>4
    <2>6. Slice(req.stream, 0, arrived) = SubSeq(req.stream, 1, arrived)  BY DEF Slice
    <2>7. Cat(Emitted, Bytes(rcv)) = file.content \o Unwritten \o Bytes(mp_list) \o Bytes(rcv)
      BY DEF Cat, Emitted, Written
    <2>. QED  BY <2>5, <2>6, <2>7, Zenon
  <1>. QED  BY <1>1, SpecBody, PTL

\* A file that is closed holds the whole content, and the body was well formed.
LEMMA WholeWhenClosed ==
    ASSUME IInv, file.mode \in {"closed", "read"}
    PROVE  /\ file.content = ContentOf(req) /\ req.body.whole /\ req \in Requests
           /\ RestOf(req) = Slice(req.stream, Taken, Len(req.stream))
           /\ req.multipart => mp.params = AllParts(ContentOf(req)).params
  <1>1. Complete /\ store = <<>>  BY DEF IInv, Sizes
  <1>2. /\ req \in Requests /\ isp \in IspType /\ FirstAt(req, isp, Taken, Emitted) /\ mp \in MpType
    BY DEF IInv, Received, Scalars, FirstPlace
  <1>3. /\ Taken \in 0..Len(req.stream) /\ StoreShape(store, offset) /\ Unwritten = Waiting(store, offset)
        /\ file.content \in Seq(Byte)
    BY Places
  <1>4. Emitted = ContentOf(req) /\ SentWhole(req) /\ RestOf(req) = Slice(req.stream, Taken, Len(req.stream))
        /\ ContentOf(req) \in Seq(Byte)
    BY <1>1, <1>2, <1>3, FirstBegins DEF Complete
  <1>5. mp_list = <<>>
    <2>1. CASE req.multipart  BY <2>1, <1>1 DEF Complete, IInv, SecondPlace
    <2>2. CASE ~req.multipart  BY <2>2 DEF IInv, SecondPlace
    <2>. QED  BY <2>1, <2>2
  <1>6. Unwritten = <<>>  BY <1>1, <1>3, StoreFacts
  <1>7. Bytes(mp_list) = <<>>
    <2>1. <<>> \in Seq(Seq(Byte)) /\ <<>> \in Seq(Byte)  OBVIOUS
    <2>. QED  BY <2>1, <1>5, FlattenAppend DEF Bytes
  <1>8. Emitted = file.content
    <2>1. <<>> \in Seq(Byte)  OBVIOUS
    <2>2. Cat(file.content, <<>>) = file.content  BY <2>1, <1>3, CatType
    <2>. QED  BY <2>2, <1>6, <1>7 DEF Emitted, Written
  <1>9. req.multipart => IsMultipart(ContentOf(req)) /\ mp.params = AllParts(ContentOf(req)).params
    <2>. SUFFICES ASSUME req.multipart
                  PROVE  IsMultipart(ContentOf(req)) /\ mp.params = AllParts(ContentOf(req)).params
      OBVIOUS
    <2>1. mp.state = 4 /\ PartsAt(ContentOf(req), mp, mp_list # <<>>)
      BY <1>1 DEF Complete, IInv, SecondPlace
    <2>. QED  BY <2>1, <1>2, <1>4, PartsRunOut
  <1>10. req.body.whole  BY <1>2, <1>4, <1>9, RequestFacts
  <1>. QED  BY <1>2, <1>4, <1>8, <1>9, <1>10

\* RestUntouched: when a body is stored the processors (isp.c:61-631) have taken nothing that
\* belongs to the next request.
THEOREM BodyRestUntouched == Spec => []RestUntouched
  <1>1. IInv => RestUntouched
    <2>. SUFFICES ASSUME IInv, verdict = "stored"
                  PROVE  IsSuffix(req.next, Bytes(rcv) \o SubSeq(req.stream, arrived + 1, Len(req.stream)))
      BY DEF RestUntouched
    <2>1. file.mode = "read"  BY DEF IInv, Sizes
    <2>2. req.body.whole /\ req \in Requests /\ RestOf(req) = Slice(req.stream, Taken, Len(req.stream))
      BY <2>1, WholeWhenClosed
    <2>3. IsSuffix(req.next, RestOf(req))  BY <2>2, RequestFacts
    <2>4. Bytes(rcv) = Slice(req.stream, Taken, arrived)  BY DEF IInv, Received
    <2>5. /\ req.stream \in Seq(Byte) /\ arrived \in 0..Len(req.stream) /\ Taken \in 0..arrived
          /\ Len(req.stream) \in 0..Len(req.stream)
      BY Places
    <2>6. Cat(Slice(req.stream, Taken, arrived), Slice(req.stream, arrived, Len(req.stream)))
             = Slice(req.stream, Taken, Len(req.stream))
      BY <2>5, SliceJoin
    <2>7. Bytes(rcv) \o SubSeq(req.stream, arrived + 1, Len(req.stream))
             = Cat(Bytes(rcv), Slice(req.stream, arrived, Len(req.stream)))
      BY DEF Cat, Slice
    <2>8. Bytes(rcv) \o SubSeq(req.stream, arrived + 1, Len(req.stream)) = RestOf(req)
      BY <2>2, <2>4, <2>6, <2>7, Zenon
    <2>. QED  BY <2>3, <2>8, Zenon
  <1>. QED  BY <1>1, SpecBody, PTL

\* PartsFound: the parts elysian_isp_http_body_multipart (isp.c:254-587) has noted when a body
\* is stored are those in its content, wherever the pieces of it and the boundaries end.
THEOREM BodyPartsFound == Spec => []PartsFound
  <1>1. IInv => PartsFound
    <2>. SUFFICES ASSUME IInv, verdict = "stored", req.multipart
                  PROVE  DataOf(file.content, mp.params) = req.parts
      BY DEF PartsFound, DataOf
    <2>1. file.mode = "read"  BY DEF IInv, Sizes
    <2>2. /\ req.body.whole /\ req \in Requests /\ file.content = ContentOf(req)
          /\ mp.params = AllParts(ContentOf(req)).params
      BY <2>1, WholeWhenClosed
    <2>3. req.parts = PartsOf(ContentOf(req))  BY <2>2, RequestFacts
    <2>. QED  BY <2>2, <2>3 DEF PartsOf
  <1>. QED  BY <1>1, SpecBody, PTL

-----------------------------------------------------------------------------
(* The transfer                                                             *)

\* Every step but a write, a verdict, leaves what the transfer sees.
LEMMA SeenByTransfer ==
    ASSUME IInv, Next
    PROVE  \/ UNCHANGED <<req, file, verdict>>
           \/ UNCHANGED <<req, verdict>> /\ file'.content = file.content
           \/ pc # "idle" /\ UNCHANGED <<req, file>> /\ verdict' = "refused"
           \/ Store
  <1>1. CASE ReadInput \/ Poll \/ Quiet  BY <1>1 DEF ReadInput, Poll, Quiet, vars
  <1>2. CASE Raw
    <2>1. pc # "idle" /\ UNCHANGED <<req, file>> /\ UNCHANGED verdict
      BY <1>2 DEF Raw, RawTake, RawDenied, RawDone, InIsp, IspUnchanged, input, GoesOn, WantsMore, Polled, Exhausted
    <2>. QED  BY <2>1
  <1>3. CASE Chunked
    <2>1. pc # "idle" /\ UNCHANGED <<req, file>> /\ (UNCHANGED verdict \/ verdict' = "refused")
      BY <1>3 DEF Chunked, ChunkSize, ChunkSizeWaits, ChunkSizeBad, ChunkData, ChunkDataDenied, ChunkDataWaits,
                  ChunkEnd, ChunksDone, InIsp, IspUnchanged, input, GoesOn, WantsMore, Polled, Exhausted, Fatal
    <2>. QED  BY <2>1
  <1>4. CASE Multipart
    <2>1. pc # "idle" /\ UNCHANGED <<req, file>> /\ (UNCHANGED verdict \/ verdict' = "refused")
      BY <1>4 DEF Multipart, MpEmpty, MpBody, MpMore, MpHeader, MpRest, MpDone, InMultipart, MpUnchanged, input,
                  MpIsShort, MpReads, MpFatal, MpDenied, GoesOn, Polled, Fatal
    <2>. QED  BY <2>1
  <1>. QED  BY <1>1, <1>2, <1>3, <1>4 DEF Next, InPoll

\* What is in the file and what waits for it is a beginning of the content.
LEMMA WrittenBegins ==
    ASSUME IInv
    PROVE  /\ ContentOf(req) \in Seq(Byte) /\ file.content \in Seq(Byte) /\ Written \in Seq(Byte)
           /\ Begins(Written, ContentOf(req))
  <1>1. /\ req \in Requests /\ isp \in IspType /\ FirstAt(req, isp, Taken, Emitted)
    BY DEF IInv, Received, Scalars, FirstPlace
  <1>2. /\ Taken \in 0..Len(req.stream) /\ file.content \in Seq(Byte)
        /\ Written \in Seq(Byte) /\ Bytes(mp_list) \in Seq(Byte) /\ Emitted \in Seq(Byte)
    BY Places
  <1>3. ContentOf(req) \in Seq(Byte) /\ Begins(Emitted, ContentOf(req))  BY <1>1, <1>2, FirstBegins
  <1>4. Begins(Written, Emitted)  BY <1>2, BeginsProperties DEF Emitted
  <1>5. Begins(Written, ContentOf(req))  BY <1>2, <1>3, <1>4, BeginsProperties
  <1>. QED  BY <1>2, <1>3, <1>5

\* A step of the store is one of BodyTransfer, and no other step is seen there.
LEMMA StoreTransfers ==
    ASSUME IInv, Store
    PROVE  [Transfer!Next]_Transfer!vars
  <1>1. pc = "store" /\ StoreUnchanged /\ req' = req
    BY DEF Store, StoreOpen, StoreWrite, StoreEnds, StoreReopen, StoreFails, StoreUnchanged, input
  <1>2. file \in FileType /\ verdict = "receiving"  BY <1>1, StoreNow
  <1>3. ASSUME file'.content = file.content, verdict' = verdict
        PROVE  UNCHANGED Transfer!vars
    BY <1>1, <1>3 DEF Transfer!vars
  <1>4. CASE StoreOpen
    <2>1. file' \in {file, [file EXCEPT !.mode = "write"]} /\ verdict' = verdict  BY <1>4 DEF StoreOpen
    <2>2. file'.content = file.content  BY <2>1, <1>2 DEF FileType
    <2>. QED  BY <2>1, <2>2, <1>3
  <1>5. CASE StoreWrite
    <2>1. verdict' = verdict  BY <1>5 DEF StoreWrite
    <2>2. CASE UNCHANGED <<file, offset, store, size>>  BY <2>1, <2>2, <1>3
    <2>3. CASE ~UNCHANGED <<file, offset, store, size>>
      <3>1. /\ file.mode = "write" /\ store # <<>> /\ NoFailure /\ UNCHANGED <<pc, poll, poll_request, verdict>>
            /\ \E n \in WriteSizes :
                  /\ file' = [file EXCEPT !.content = @ \o SubSeq(store[1], offset + 1, offset + n)]
                  /\ offset' = OffsetAfter(n)
                  /\ store' = IF n = Left THEN Tail(store) ELSE store
                  /\ size' = IF size = Unknown THEN Unknown ELSE size - n
        BY <1>5, <2>3 DEF StoreWrite
      <3>2. PICK w, u \in Seq(Byte) : /\ w # <<>> /\ file'.content = Cat(file.content, w)
                                     /\ Written = Cat(file'.content, u)
        BY <3>1, <1>1, WriteStep
      <3>. DEFINE c == ContentOf(req)
                  f == file.content
                  g == file'.content
      <3>3. c \in Seq(Byte) /\ f \in Seq(Byte) /\ Written \in Seq(Byte) /\ Begins(Written, c)
        BY WrittenBegins
      <3>4. g \in Seq(Byte) /\ Begins(g, c)
        <4>1. g \in Seq(Byte)
          <5>1. Cat(f, w) \in Seq(Byte)  BY <3>3, CatType
          <5>. QED  BY <5>1, <3>2
        <4>2. Begins(g, Written)  BY <4>1, <3>2, BeginsProperties
        <4>. QED  BY <4>1, <4>2, <3>3, BeginsProperties
      <3>5. req.body.content = c  BY RequestFacts DEF IInv, Received
      <3>6. g = Cat(f, w)  BY <3>2
      <3>. HIDE DEF c, f, g
      <3>7. Len(g) = Len(f) + Len(w) /\ Len(f) \in Nat /\ Len(w) \in Nat  BY <3>2, <3>3, <3>6, CatType
      <3>8. Len(w) # 0  BY <3>2
      <3>9. Len(c) \in Nat /\ Len(g) <= Len(c) /\ g = SubSeq(c, 1, Len(g))
        BY <3>3, <3>4 DEF Begins, Slice
      <3>10. Len(g) \in (Len(f) + 1)..Len(c)  BY <3>7, <3>8, <3>9
      <3>11. \E n \in (Len(file.content) + 1)..Len(req.body.content) :
                file'.content = SubSeq(req.body.content, 1, n)
        BY <3>5, <3>9, <3>10 DEF f, g
      <3>12. Transfer!Write  BY <3>11, <2>1, <1>1, <1>2 DEF Transfer!Write
      <3>. QED  BY <3>12 DEF Transfer!Next
    <2>. QED  BY <2>2, <2>3
  <1>6. CASE StoreEnds
    <2>1. file' \in {file, [file EXCEPT !.mode = "closed"]} /\ verdict' = verdict  BY <1>6 DEF StoreEnds
    <2>2. file'.content = file.content  BY <2>1, <1>2 DEF FileType
    <2>. QED  BY <2>1, <2>2, <1>3
  <1>7. CASE StoreReopen
    <2>1. CASE file' = [file EXCEPT !.mode = "read"] /\ verdict' = "stored"
      <3>1. file.mode = "closed"  BY <1>7 DEF StoreReopen
      <3>2. file.content = ContentOf(req) /\ req.body.whole /\ req \in Requests  BY <3>1, WholeWhenClosed
      <3>3. file.content = req.body.content  BY <3>2, RequestFacts
      <3>4. file'.content = file.content  BY <2>1, <1>2 DEF FileType
      <3>5. Transfer!Stored  BY <3>2, <3>3, <3>4, <2>1, <1>1, <1>2 DEF Transfer!Stored
      <3>. QED  BY <3>5 DEF Transfer!Next
    <2>2. CASE UNCHANGED <<file, verdict>>  BY <2>2, <1>3
    <2>. QED  BY <2>1, <2>2, <1>7 DEF StoreReopen
  <1>8. CASE StoreFails
    <2>1. req.medium = "ext" /\ verdict' = "failed" /\ file' = file  BY <1>8 DEF StoreFails
    <2>2. req.body.disk  BY <2>1, RequestFacts DEF IInv, Received
    <2>3. Transfer!Failed  BY <2>1, <2>2, <1>1, <1>2 DEF Transfer!Failed
    <2>. QED  BY <2>3 DEF Transfer!Next
  <1>. QED  BY <1>4, <1>5, <1>6, <1>7, <1>8 DEF Store

\* ImplementsTransfer: the reception is a BodyTransfer: the stored bytes grow at their end,
\* by what comes next in the content, and the verdict is given once.
THEOREM BodyImplementsTransfer == Spec => ImplementsTransfer
  <1>1. Init => Transfer!Init
    <2>. SUFFICES ASSUME Init PROVE Transfer!Init  OBVIOUS
    <2>1. req \in Requests /\ file.content = <<>> /\ verdict = "receiving"  BY DEF Init
    <2>. QED  BY <2>1 DEF Transfer!Init
  <1>2. IInv /\ IInv' /\ [Next]_vars => [Transfer!Next]_Transfer!vars
    <2>. SUFFICES ASSUME IInv, IInv', [Next]_vars PROVE [Transfer!Next]_Transfer!vars  OBVIOUS
    <2>1. CASE UNCHANGED vars  BY <2>1 DEF vars, Transfer!vars
    <2>2. CASE Next
      <3>1. CASE UNCHANGED <<req, file, verdict>>  BY <3>1 DEF Transfer!vars
      <3>2. CASE UNCHANGED <<req, verdict>> /\ file'.content = file.content  BY <3>2 DEF Transfer!vars
      <3>3. CASE pc # "idle" /\ UNCHANGED <<req, file>> /\ verdict' = "refused"
        <4>1. verdict = "receiving"  BY <3>3 DEF IInv, Sizes
        <4>2. ~req.body.whole  BY <3>3 DEF IInv, Sizes
        <4>3. Transfer!Refused  BY <3>3, <4>1, <4>2 DEF Transfer!Refused
        <4>. QED  BY <4>3 DEF Transfer!Next
      <3>4. CASE Store  BY <3>4, StoreTransfers
      <3>. QED  BY <2>2, <3>1, <3>2, <3>3, <3>4, SeenByTransfer
    <2>. QED  BY <2>1, <2>2
  <1>. QED  BY <1>1, <1>2, SpecBody, PTL DEF Spec, ImplementsTransfer, Transfer!Spec
==============================================================================
