----------------------------- MODULE PageProofs ------------------------------
(***************************************************************************)
(* Theorems about a page with attributes, for every page, every size of    *)
(* the search buffer and of the reads, and every range. The invariant says *)
(* where in the file the search buffer is, and that the bytes handed out,  *)
(* what is left of a value, and the expansion of the file from there on    *)
(* are together the expanded page.                                         *)
(***************************************************************************)
EXTENDS DynamicPage, DataLemmas

-----------------------------------------------------------------------------
(* The inductive invariant                                                 *)

\* A byte: the provers do not know that the one the buffer starts with is a string.
Char == STRING \cup {"0"}
\* How many bytes of the file are behind the reader: the next one is in the buffer.
Behind == filepos - (Len(sbuf) - index0)

\* The buffer holds what its indices say, and a prefix that begins in it is in it: the
\* two bytes of the shadow are behind the bytes handed out, unless the file has no more.
Buffered ==
    /\ page \in Pages /\ filepos \in 0..Len(page.file) /\ sbuf \in Seq(Char)
    /\ index0 \in Nat /\ index1 \in Nat /\ shadow \in 0..2 /\ index0 <= index1
    /\ index1 + shadow = Len(sbuf) /\ Len(sbuf) <= Window
    /\ Behind \in Nat
    /\ Slice(sbuf, index0, Len(sbuf)) = Slice(page.file, Behind, filepos)
    /\ index0 < index1 => shadow = Len(Prefix) - 1 \/ filepos = Len(page.file)
    /\ index1 = 0 => shadow = 0 /\ filepos = Len(page.file)
    /\ eof \in BOOLEAN /\ (eof => filepos = Len(page.file))

\* The expansion from every position of the file on.
ExpandUp(from) ==
    [p \in 1..(Len(page.file) + 1) |->
          IF p > Len(page.file) THEN <<>>
          ELSE IF Occurs(Prefix, page.file, p) /\ TagEnd(p) # {}
          THEN LET q == Min(TagEnd(p)) IN ValueOf(SubSeq(page.file, p + 3, q - 2)) \o from[q + 1]
          ELSE <<page.file[p]>> \o from[p + 1]]
Expanded == CHOOSE from : from = ExpandUp(from)

\* The bytes handed out follow seekpos in the expanded page, and after them come what is
\* left of a value and the expansion of the file behind the buffer's first byte.
HandedTo == seekpos + Len(got)
Handed ==
    /\ seekpos \in Nat /\ todo \in Nat /\ got \in Seq(Char)
    /\ rbuf \in Seq(Char) /\ replacing \in BOOLEAN /\ (~replacing => rbuf = <<>>)
    /\ HandedTo <= Len(Expansion)
    /\ Slice(Expansion, seekpos, HandedTo) = got
    /\ Slice(Expansion, HandedTo, Len(Expansion)) = Cat(rbuf, Expanded[Behind + 1])

\* What each phase has found out and sent.
End == IF range = Chunked THEN Len(Expansion) ELSE last + 1
Accepts == /\ Partial => range[1] <= last /\ Satisfiable
           /\ range # Chunked => size = Len(Expansion) /\ last \in Int
           /\ End \in 0..Len(Expansion) /\ First \in 0..End
           /\ ~Partial => End = Len(Expansion)
PhaseInv ==
    /\ range \in Ranges
    /\ phase \in {"sizing", "configure", "seeking", "send", "sending", "sent", "refused", "hung"}
    /\ size = Unknown \/ size = Len(Expansion)
    /\ phase = "sizing" => range # Chunked /\ out = <<>>
    /\ phase = "configure" =>
         range # Chunked /\ out = <<>> /\ size = Len(Expansion) /\ seekpos = 0 /\ got = <<>> /\ todo = 0
    /\ phase = "seeking" => Partial /\ Accepts /\ out = <<>> /\ HandedTo + todo <= First /\ seekpos < First
    /\ phase = "refused" => ~Satisfiable
    /\ Accepted => /\ Accepts
                   /\ First <= seekpos /\ out = Slice(Expansion, First, seekpos)
                   /\ range # Chunked => HandedTo + todo <= End
                   /\ HandedTo <= End
    /\ phase \in {"send", "sent", "hung"} => got = <<>> /\ todo = 0
    /\ phase = "sent" => seekpos = End

IInv == Buffered /\ Handed /\ PhaseInv

-----------------------------------------------------------------------------
(* The expansion of a page                                                 *)

\* A page, and the values of its attributes.
LEMMA PageFacts ==
    ASSUME page \in Pages
    PROVE  /\ page.file \in Seq(Char) /\ Len(page.file) \in Nat
           /\ \A name : ValueOf(name) \in Seq(Char)
           /\ \A i \in 1..Len(page.file) : page.file[i] \in Char
<1>1. page.file \in Seq(Char) /\ \A name \in DOMAIN page.values : page.values[name] \in Seq(Char)
  <2>1. STRING \subseteq Char
    BY DEF Char
  <2>2. page.file \in Seq(STRING) /\ \A name \in DOMAIN page.values : page.values[name] \in Seq(STRING)
    BY PagesAssumption
  <2> HIDE DEF Char
  <2>3. Seq(STRING) \subseteq Seq(Char)
    BY <2>1, SeqMonotonic
  <2> QED BY <2>2, <2>3
<1> HIDE DEF Char
<1>2. \A name : ValueOf(name) \in Seq(Char)
  BY <1>1, EmptySeq DEF ValueOf
<1>3. Len(page.file) \in Nat
  BY <1>1, LenProperties
<1>4. \A i \in 1..Len(page.file) : page.file[i] \in Char
  BY <1>1
<1> QED BY <1>1, <1>2, <1>3, <1>4

\* The first end of a tag is in the file, behind its beginning.
LEMMA TagEndFacts ==
    ASSUME page \in Pages, NEW p \in Nat, TagEnd(p) # {}
    PROVE  /\ Min(TagEnd(p)) \in TagEnd(p) /\ \A q \in TagEnd(p) : Min(TagEnd(p)) <= q
           /\ Min(TagEnd(p)) \in Nat /\ Min(TagEnd(p)) >= p + 4 /\ Min(TagEnd(p)) <= Len(page.file)
<1>1. TagEnd(p) \subseteq Nat
  BY SizesAssumption DEF TagEnd
<1>2. PICK least \in TagEnd(p) : \A q \in TagEnd(p) : least <= q
  BY <1>1, Smallest
<1>3. Min(TagEnd(p)) \in TagEnd(p) /\ \A q \in TagEnd(p) : Min(TagEnd(p)) <= q
  BY <1>2 DEF Min
<1> DEFINE m == Min(TagEnd(p))
<1> HIDE DEF m
<1>4. m \in Nat /\ m >= p + 4 /\ Occurs(Suffix, page.file, m - 1)
  BY <1>3, SizesAssumption DEF TagEnd, m
<1>5. m <= Len(page.file)
  <2>1. Len(Suffix) = 2
    BY DEF Suffix
  <2>2. (m - 1) + 2 - 1 <= Len(page.file)
    BY <1>4, <2>1 DEF Occurs
  <2> QED BY <1>4, <2>2, PageFacts
<1> QED BY <1>3, <1>4, <1>5 DEF m

\* The expansion from a position depends on the positions behind it only.
LEMMA LaterOnly ==
    ASSUME page \in Pages, NEW f, NEW g, NEW p \in 1..(Len(page.file) + 1),
           \A j \in (p + 1)..(Len(page.file) + 1) : f[j] = g[j]
    PROVE  ExpandUp(f)[p] = ExpandUp(g)[p]
<1>1. Len(page.file) \in Nat
  BY PageFacts
<1>2. CASE p > Len(page.file)
  BY <1>2 DEF ExpandUp
<1>3. CASE ~(p > Len(page.file)) /\ Occurs(Prefix, page.file, p) /\ TagEnd(p) # {}
  <2> DEFINE q == Min(TagEnd(p))
  <2>1. q \in Nat /\ q >= p + 4 /\ q <= Len(page.file)
    BY <1>3, TagEndFacts
  <2> HIDE DEF q
  <2>2. q + 1 \in (p + 1)..(Len(page.file) + 1)
    BY <1>1, <2>1
  <2>3. f[q + 1] = g[q + 1]
    BY <2>2
  <2> QED BY <1>3, <2>3 DEF ExpandUp, q
<1>4. CASE ~(p > Len(page.file)) /\ ~(Occurs(Prefix, page.file, p) /\ TagEnd(p) # {})
  <2>1. p + 1 \in (p + 1)..(Len(page.file) + 1)
    BY <1>1, <1>4
  <2> QED BY <1>4, <2>1 DEF ExpandUp
<1> QED BY <1>2, <1>3, <1>4

\* The expansion is made of the bytes of the file and of the values.
LEMMA ExpandTypes ==
    ASSUME page \in Pages, NEW f, NEW p \in 1..(Len(page.file) + 1),
           \A j \in (p + 1)..(Len(page.file) + 1) : f[j] \in Seq(Char)
    PROVE  ExpandUp(f)[p] \in Seq(Char)
<1>1. /\ Len(page.file) \in Nat /\ \A name : ValueOf(name) \in Seq(Char)
      /\ \A i \in 1..Len(page.file) : page.file[i] \in Char
  BY PageFacts
<1> HIDE DEF Char
<1>2. CASE p > Len(page.file)
  <2>1. ExpandUp(f)[p] = <<>>
    BY <1>2 DEF ExpandUp
  <2> QED BY <2>1
<1>3. CASE ~(p > Len(page.file)) /\ Occurs(Prefix, page.file, p) /\ TagEnd(p) # {}
  <2> DEFINE q == Min(TagEnd(p))
             v == ValueOf(SubSeq(page.file, p + 3, q - 2))
  <2>1. q \in Nat /\ q >= p + 4 /\ q <= Len(page.file)
    BY <1>3, TagEndFacts
  <2>2. v \in Seq(Char)
    BY <1>1
  <2>3. ExpandUp(f)[p] = v \o f[q + 1]
    BY <1>3 DEF ExpandUp
  <2> HIDE DEF q, v
  <2>4. f[q + 1] \in Seq(Char)
    <3>1. q + 1 \in (p + 1)..(Len(page.file) + 1)
      BY <1>1, <2>1
    <3> QED BY <3>1
  <2> QED BY <2>2, <2>3, <2>4, ConcatProperties
<1>4. CASE ~(p > Len(page.file)) /\ ~(Occurs(Prefix, page.file, p) /\ TagEnd(p) # {})
  <2>1. p + 1 \in (p + 1)..(Len(page.file) + 1) /\ p \in 1..Len(page.file)
    BY <1>1, <1>4
  <2>2. ExpandUp(f)[p] = <<page.file[p]>> \o f[p + 1]
    BY <1>4 DEF ExpandUp
  <2> DEFINE e == page.file[p]
             b == f[p + 1]
  <2>3. e \in Char /\ b \in Seq(Char)
    BY <1>1, <2>1
  <2> HIDE DEF e, b
  <2>4. <<e>> \in Seq(Char)
    BY <2>3
  <2>5. <<e>> \o b \in Seq(Char)
    BY <2>3, <2>4, ConcatProperties
  <2> QED BY <2>2, <2>5 DEF e, b
<1> QED BY <1>2, <1>3, <1>4

\* The recursion in Expansion has a solution, and it is that of ExpandUp.
LEMMA ExpandedUnfolds ==
    ASSUME page \in Pages
    PROVE  /\ Expansion = Expanded[1]
           /\ \A p \in 1..(Len(page.file) + 1) : Expanded[p] = ExpandUp(Expanded)[p] /\ Expanded[p] \in Seq(Char)
<1> DEFINE n == Len(page.file)
           Dom == 1..(n + 1)
           Solves(f, k) == \A p \in ((n + 1) - k)..(n + 1) : f[p] = ExpandUp(f)[p]
           Good == {k \in 0..n : \E f \in [Dom -> Seq(Char)] : Solves(f, k)}
<1>1. n \in Nat /\ <<>> \in Seq(Char)
  BY PageFacts
<1> HIDE DEF Char
<1>2. 0 \in Good
  <2> DEFINE f == [p \in Dom |-> <<>>]
  <2>1. f \in [Dom -> Seq(Char)]
    BY <1>1
  <2>2. Solves(f, 0)
    <3>1. \A p \in ((n + 1) - 0)..(n + 1) : p = n + 1 /\ p \in Dom /\ p > n
      BY <1>1
    <3>2. n + 1 \in Dom
      BY <1>1
    <3> QED BY <3>1, <3>2 DEF ExpandUp
  <2> HIDE DEF f, Solves
  <2>3. 0 \in 0..n
    BY <1>1
  <2> QED BY <2>1, <2>2, <2>3
<1>3. ASSUME NEW k \in 0..(n - 1), k \in Good PROVE k + 1 \in Good
  <2>1. PICK f \in [Dom -> Seq(Char)] : Solves(f, k)
    BY <1>3
  <2> DEFINE m == n - k
             x == ExpandUp(f)[m]
             g == [f EXCEPT ![m] = x]
  <2>2. m \in 1..(n + 1) /\ m \in Dom /\ m <= n
    BY <1>1
  <2>3. x \in Seq(Char)
    <3>1. \A j \in (m + 1)..(n + 1) : j \in Dom
      BY <1>1, <2>2
    <3>2. \A j \in (m + 1)..(n + 1) : f[j] \in Seq(Char)
      BY <3>1
    <3> HIDE DEF m
    <3> QED BY <2>2, <3>2, ExpandTypes
  <2> HIDE DEF x, m
  <2>4. g \in [Dom -> Seq(Char)] /\ g[m] = x /\ \A j \in Dom : j # m => g[j] = f[j]
    BY <2>2, <2>3
  <2> HIDE DEF g
  <2>5. ASSUME NEW p \in ((n + 1) - (k + 1))..(n + 1) PROVE g[p] = ExpandUp(g)[p]
    <3>1. p \in 1..(n + 1) /\ p >= m /\ p \in Dom
      BY <1>1 DEF m
    <3>2. ExpandUp(f)[p] = ExpandUp(g)[p]
      <4>1. \A j \in (p + 1)..(n + 1) : j \in Dom /\ j # m
        BY <1>1, <2>2, <3>1
      <4>2. \A j \in (p + 1)..(n + 1) : f[j] = g[j]
        BY <2>4, <4>1
      <4> QED BY <3>1, <4>2, LaterOnly
    <3>3. CASE p = m
      BY <2>4, <3>2, <3>3 DEF x
    <3>4. CASE p # m
      <4>1. p \in ((n + 1) - k)..(n + 1)
        BY <1>1, <2>2, <3>1, <3>4 DEF m
      <4>2. f[p] = ExpandUp(f)[p]
        BY <2>1, <4>1
      <4> QED BY <2>4, <3>1, <3>2, <3>4, <4>2
    <3> QED BY <3>3, <3>4
  <2>6. k + 1 \in 0..n
    BY <1>1
  <2> QED BY <2>4, <2>5, <2>6
<1>4. 0..n \subseteq Good
  <2>1. 0 \in Int /\ n \in Int
    BY <1>1
  <2> HIDE DEF Good, n
  <2> QED BY <1>2, <1>3, <2>1, IntervalInduction
<1>5. PICK f \in [Dom -> Seq(Char)] : Solves(f, n)
  <2>1. n \in 0..n
    BY <1>1
  <2>2. n \in Good
    BY <1>4, <2>1
  <2> QED BY <2>2
<1>6. f = ExpandUp(f)
  <2>1. \A p \in Dom : p \in ((n + 1) - n)..(n + 1)
    BY <1>1
  <2>2. \A p \in Dom : f[p] = ExpandUp(f)[p]
    BY <1>5, <2>1
  <2>3. ExpandUp(f) = [p \in Dom |-> ExpandUp(f)[p]]
    BY DEF ExpandUp
  <2>4. f = [p \in Dom |-> f[p]]
    OBVIOUS
  <2> HIDE DEF Dom
  <2> QED BY <2>2, <2>3, <2>4
<1>7. Expanded = ExpandUp(Expanded)
  BY <1>6 DEF Expanded
<1>8. Expansion = Expanded[1]
  BY DEF Expansion, Expanded, ExpandUp
<1>9. ASSUME NEW p \in Dom PROVE Expanded[p] \in Seq(Char)
  <2> DEFINE Typed == {k \in 0..n : \A j \in ((n + 1) - k)..(n + 1) : Expanded[j] \in Seq(Char)}
  <2>1. \A j \in Dom : (\A i \in (j + 1)..(n + 1) : Expanded[i] \in Seq(Char)) => Expanded[j] \in Seq(Char)
    <3> SUFFICES ASSUME NEW j \in Dom, \A i \in (j + 1)..(n + 1) : Expanded[i] \in Seq(Char)
                 PROVE  Expanded[j] \in Seq(Char)
      OBVIOUS
    <3>1. ExpandUp(Expanded)[j] \in Seq(Char)
      BY ExpandTypes
    <3> QED BY <1>7, <3>1
  <2>2. 0 \in Typed
    <3>1. Expanded[n + 1] \in Seq(Char)
      <4>1. n + 1 \in Dom /\ (n + 1 + 1)..(n + 1) = {}
        BY <1>1
      <4> QED BY <2>1, <4>1
    <3>2. \A j \in ((n + 1) - 0)..(n + 1) : j = n + 1
      BY <1>1
    <3> QED BY <1>1, <3>1, <3>2
  <2>3. ASSUME NEW k \in 0..(n - 1), k \in Typed PROVE k + 1 \in Typed
    <3>1. n - k \in Dom /\ (n - k) + 1 = (n + 1) - k /\ k + 1 \in 0..n
      BY <1>1
    <3>2. Expanded[n - k] \in Seq(Char)
      BY <2>1, <2>3, <3>1
    <3>3. ASSUME NEW j \in ((n + 1) - (k + 1))..(n + 1), j # n - k PROVE j \in ((n + 1) - k)..(n + 1)
      <4>1. j \in Int /\ k \in Int /\ n \in Int /\ (n + 1) - (k + 1) <= j /\ j <= n + 1
        BY <1>1
      <4> HIDE DEF n
      <4>2. (n + 1) - k <= j
        BY <3>3, <4>1
      <4> QED BY <4>1, <4>2
    <3> QED BY <2>3, <3>1, <3>2, <3>3
  <2>4. 0..n \subseteq Typed
    <3>1. 0 \in Int /\ n \in Int
      BY <1>1
    <3> HIDE DEF Typed, n
    <3> QED BY <2>2, <2>3, <3>1, IntervalInduction
  <2>5. n \in Typed /\ p \in ((n + 1) - n)..(n + 1)
    <3>1. n \in 0..n
      BY <1>1
    <3> QED BY <1>1, <2>4, <3>1
  <2> QED BY <2>5
<1> QED BY <1>7, <1>8, <1>9

\* What the expansion is from a position of the file on.
LEMMA ExpandedFacts ==
    ASSUME page \in Pages
    PROVE  /\ Expansion = Expanded[1] /\ Expansion \in Seq(Char) /\ Len(Expansion) \in Nat
           /\ \A p \in 1..(Len(page.file) + 1) : Expanded[p] \in Seq(Char)
           /\ Expanded[Len(page.file) + 1] = <<>>
           /\ \A p \in 1..Len(page.file) :
                IF Occurs(Prefix, page.file, p) /\ TagEnd(p) # {}
                THEN Expanded[p] = Cat(ValueOf(SubSeq(page.file, p + 3, Min(TagEnd(p)) - 2)),
                                       Expanded[Min(TagEnd(p)) + 1])
                ELSE Expanded[p] = Cat(<<page.file[p]>>, Expanded[p + 1])
<1>1. Len(page.file) \in Nat
  BY PageFacts
<1>2. Expansion = Expanded[1] /\ Expansion \in Seq(Char) /\ Len(Expansion) \in Nat
  <2>1. 1 \in 1..(Len(page.file) + 1)
    BY <1>1
  <2>2. Expansion \in Seq(Char)
    BY <2>1, ExpandedUnfolds
  <2> HIDE DEF Char
  <2> QED BY <2>2, ExpandedUnfolds, LenProperties
<1>3. Expanded[Len(page.file) + 1] = <<>>
  <2>1. Len(page.file) + 1 \in 1..(Len(page.file) + 1) /\ Len(page.file) + 1 > Len(page.file)
    BY <1>1
  <2>2. ExpandUp(Expanded)[Len(page.file) + 1] = <<>>
    BY <2>1 DEF ExpandUp
  <2> QED BY <2>1, <2>2, ExpandedUnfolds
<1>4. ASSUME NEW p \in 1..Len(page.file)
      PROVE  IF Occurs(Prefix, page.file, p) /\ TagEnd(p) # {}
             THEN Expanded[p] = Cat(ValueOf(SubSeq(page.file, p + 3, Min(TagEnd(p)) - 2)),
                                    Expanded[Min(TagEnd(p)) + 1])
             ELSE Expanded[p] = Cat(<<page.file[p]>>, Expanded[p + 1])
  <2>1. p \in 1..(Len(page.file) + 1) /\ ~(p > Len(page.file))
    BY <1>1
  <2>2. Expanded[p] = ExpandUp(Expanded)[p]
    BY <2>1, ExpandedUnfolds
  <2> QED BY <2>1, <2>2 DEF ExpandUp, Cat
<1> QED BY <1>2, <1>3, <1>4, ExpandedUnfolds

\* The expansion is that of the page.
LEMMA SamePage ==
    ASSUME page' = page
    PROVE  Expansion' = Expansion /\ Expanded' = Expanded
BY DEF Expansion, Expanded, ExpandUp, TagEnd, ValueOf

-----------------------------------------------------------------------------
(* A fill of the search buffer                                             *)

\* A word in a part of a sequence is the word at that place of the sequence, if it ends in the part.
LEMMA Occurrence ==
    ASSUME NEW B, NEW s \in Seq(B), NEW e \in 0..Len(s), NEW r \in 0..e, NEW word,
           NEW n \in Nat, n > 0, Len(word) = n, NEW i \in Nat, i > 0
    PROVE  Occurs(word, Slice(s, r, e), i) <=> (r + i + n - 1 <= e /\ Occurs(word, s, r + i))
<1> DEFINE t == Slice(s, r, e)
<1>1. Len(t) = e - r /\ Len(s) \in Nat
  BY SliceProperties
<1> HIDE DEF t
<1>2. e \in Nat /\ r \in Nat /\ e <= Len(s) /\ r <= e
  BY <1>1
<1>3. CASE i + n - 1 <= e - r
  <2>1. Slice(t, i - 1, i + n - 1) = Slice(s, r + (i - 1), r + (i + n - 1))
    <3>1. i + n - 1 \in 0..(e - r) /\ i - 1 \in 0..(i + n - 1)
      BY <1>2, <1>3
    <3> QED BY <3>1, SliceOfSlice DEF t
  <2>2. (i - 1) + 1 = i /\ (r + (i - 1)) + 1 = r + i /\ r + (i + n - 1) = r + i + n - 1
    BY <1>2
  <2>3. SubSeq(t, i, i + n - 1) = SubSeq(s, r + i, r + i + n - 1)
    BY <2>1, <2>2 DEF Slice
  <2>4. r + i + n - 1 <= e /\ r + i + n - 1 <= Len(s)
    BY <1>2, <1>3
  <2> QED BY <1>1, <1>3, <2>3, <2>4 DEF Occurs, t
<1>4. CASE ~(i + n - 1 <= e - r)
  <2>1. ~(r + i + n - 1 <= e)
    BY <1>2, <1>4
  <2> QED BY <1>1, <1>4, <2>1 DEF Occurs, t
<1> QED BY <1>3, <1>4

\* Where the search buffer is in the file.
LEMMA BufferFacts ==
    ASSUME Buffered
    PROVE  /\ page.file \in Seq(Char) /\ Len(page.file) \in Nat /\ sbuf \in Seq(Char) /\ Len(sbuf) \in Nat
           /\ Behind \in Nat /\ filepos \in Nat /\ Behind <= filepos /\ filepos <= Len(page.file)
           /\ index0 \in Nat /\ index1 \in Nat /\ index0 <= index1 /\ index1 <= Len(sbuf)
           /\ Window \in Nat /\ Window > 3 /\ filepos = Behind + (Len(sbuf) - index0)
           /\ filepos <= Behind + Window
<1>1. page.file \in Seq(Char) /\ Len(page.file) \in Nat
  BY PageFacts DEF Buffered
<1>2. sbuf \in Seq(Char) /\ Len(sbuf) \in Nat
  BY LenProperties DEF Buffered
<1> QED BY <1>1, <1>2, SizesAssumption DEF Buffered, Behind

\* A fill reads the file up to what the buffer can hold.
Reach == IF Behind + Window < Len(page.file) THEN Behind + Window ELSE Len(page.file)

\* After a fill it holds the file from the next byte on, as far as the window goes.
LEMMA FilledIs ==
    ASSUME Buffered
    PROVE  /\ Filled = Slice(page.file, Behind, Reach) /\ Filled \in Seq(Char)
           /\ Reach \in Nat /\ Reach <= Len(page.file) /\ filepos <= Reach /\ Reach <= Behind + Window
           /\ Len(Filled) = Reach - Behind /\ Len(Filled) \in Nat
           /\ filepos + Len(Fetched) = Reach
           /\ Len(Fetched) < Room => Reach = Len(page.file)
           /\ Len(Filled) < Window => Reach = Len(page.file)
<1> DEFINE file == page.file
           L == Len(file)
<1>1. /\ file \in Seq(Char) /\ L \in Nat /\ sbuf \in Seq(Char) /\ Len(sbuf) \in Nat
      /\ Behind \in Nat /\ filepos \in Nat /\ Behind <= filepos /\ filepos <= L
      /\ index0 \in Nat /\ index1 \in Nat /\ index0 <= index1 /\ index1 <= Len(sbuf)
      /\ Window \in Nat /\ Window > 3 /\ filepos = Behind + (Len(sbuf) - index0)
      /\ filepos <= Behind + Window
  BY BufferFacts
<1>2. Reach \in Nat /\ Reach <= L /\ filepos <= Reach /\ Reach <= Behind + Window
  BY <1>1 DEF Reach
<1>3. Kept = Slice(file, Behind, filepos) /\ Len(Kept) = filepos - Behind
  <2>1. Kept = Slice(file, Behind, filepos)
    BY DEF Kept, Buffered, Slice
  <2>2. filepos \in 0..L /\ Behind \in 0..filepos
    BY <1>1
  <2> HIDE DEF file
  <2> QED BY <1>1, <2>1, <2>2, SliceProperties
<1>4. Room = Window - (filepos - Behind) /\ filepos + Room = Behind + Window
  BY <1>1, <1>3 DEF Room
<1>5. Fetched = Slice(file, filepos, Reach)
  <2>1. CASE eof
    <3>1. filepos = L
      BY <2>1 DEF Buffered
    <3>2. Reach = filepos /\ filepos \in 0..L
      BY <1>1, <1>2, <3>1
    <3>3. Slice(file, filepos, Reach) = <<>>
      <4> HIDE DEF file
      <4> QED BY <1>1, <3>2, SliceEnds
    <3> QED BY <2>1, <3>3 DEF Fetched
  <2>2. CASE ~eof
    <3>1. Smaller(filepos + Room, L) = Reach
      BY <1>1, <1>4 DEF Smaller, Reach
    <3> QED BY <2>2, <3>1 DEF Fetched, Slice
  <2> QED BY <2>1, <2>2
<1>6. Len(Fetched) = Reach - filepos
  <2>1. Reach \in 0..L /\ filepos \in 0..Reach
    BY <1>1, <1>2
  <2> HIDE DEF file
  <2> QED BY <1>1, <1>5, <2>1, SliceProperties
<1>7. Filled = Slice(file, Behind, Reach)
  <2>1. Reach \in 0..L /\ filepos \in 0..Reach /\ Behind \in 0..filepos
    BY <1>1, <1>2
  <2>2. Cat(Slice(file, Behind, filepos), Slice(file, filepos, Reach)) = Slice(file, Behind, Reach)
    <3> HIDE DEF file
    <3> QED BY <1>1, <2>1, SliceJoin
  <2> QED BY <1>3, <1>5, <2>2 DEF Filled, Cat
<1>8. Len(Filled) = Reach - Behind /\ Filled \in Seq(Char)
  <2>1. Reach \in 0..L /\ Behind \in 0..Reach
    BY <1>1, <1>2
  <2> HIDE DEF file
  <2> QED BY <1>1, <1>7, <2>1, SliceProperties
<1> HIDE DEF file
<1>9. Len(Fetched) < Room => Reach = L
  BY <1>1, <1>2, <1>4, <1>6 DEF Reach, file
<1>10. Len(Filled) < Window => Reach = L
  BY <1>1, <1>2, <1>8 DEF Reach, file
<1> QED BY <1>1, <1>2, <1>6, <1>7, <1>8, <1>9, <1>10 DEF file

\* What is in the buffer after a fill.
LEMMA Refilled ==
    ASSUME Buffered, FetchedFile, page' = page,
           index0' \in Nat, index1' \in Nat, shadow' \in 0..2, index0' <= index1',
           index1' + shadow' = Len(Filled), index0' < index1' => shadow' = ShadowOf(Len(Filled)),
           index1' = 0 => Filled = <<>>
    PROVE  Buffered' /\ Behind' = Behind + index0'
<1> DEFINE file == page.file
           L == Len(file)
           n == Len(Filled)
           i == index0'
           b == Behind
<1>1. /\ file \in Seq(Char) /\ L \in Nat /\ Behind \in Nat /\ Window \in Nat /\ Window > 3
      /\ page \in Pages /\ eof \in BOOLEAN
  BY BufferFacts DEF Buffered
<1>2. /\ Filled = Slice(file, Behind, Reach) /\ Filled \in Seq(Char)
      /\ Reach \in Nat /\ Reach <= L /\ Reach <= Behind + Window /\ n = Reach - Behind /\ n \in Nat
      /\ filepos + Len(Fetched) = Reach /\ (Len(Fetched) < Room => Reach = L) /\ (n < Window => Reach = L)
      /\ filepos <= Reach
  BY FilledIs
<1>13. i \in Nat /\ i <= n
  <2> HIDE DEF n
  <2>1. index1' + shadow' = n
    BY DEF n
  <2> QED BY <1>2, <2>1
<1>3. filepos' = Reach /\ sbuf' = Filled /\ eof' = (eof \/ Len(Fetched) < Room)
  BY <1>2 DEF FetchedFile
<1>4. eof' \in BOOLEAN /\ (eof' => Reach = L)
  <2>1. eof => filepos = L /\ filepos \in Nat
    BY BufferFacts DEF Buffered
  <2>2. eof => Reach = L
    BY <1>1, <1>2, <2>1
  <2> QED BY <1>1, <1>2, <1>3, <2>2
<1>5. Behind' = b + i
  <2>1. Behind' = Reach - (n - i)
    BY <1>3 DEF Behind
  <2> HIDE DEF n
  <2> QED BY <1>1, <1>2, <2>1
<1>6. Slice(Filled, i, n) = Slice(file, b + i, Reach)
  <2>1. Reach \in 0..L /\ b \in 0..Reach /\ n \in 0..(Reach - b) /\ i \in 0..n
    <3> HIDE DEF n, i, L
    <3> QED BY <1>1, <1>2, <1>13
  <2>2. Slice(Slice(file, b, Reach), i, n) = Slice(file, b + i, b + n)
    <3> HIDE DEF file, b, n, i, L
    <3> QED BY <1>1, <2>1, SliceOfSlice DEF L
  <2>3. b + n = Reach
    BY <1>1, <1>2
  <2> QED BY <1>2, <2>2, <2>3
<1>7. index0' < index1' => shadow' = Len(Prefix) - 1 \/ Reach = L
  <2>1. Len(Prefix) = 3
    BY DEF Prefix
  <2>2. ShadowOf(n) = Len(Prefix) - 1 \/ n <= 3
    BY <2>1 DEF ShadowOf
  <2> HIDE DEF n
  <2> QED BY <1>1, <1>2, <2>2 DEF n
<1>8. index1' = 0 => shadow' = 0 /\ Reach = L
  <2> SUFFICES ASSUME index1' = 0 PROVE shadow' = 0 /\ Reach = L
    OBVIOUS
  <2>1. n = 0
    BY EmptySeq
  <2>2. shadow' = 0
    <3>1. shadow' \in Nat /\ index1' \in Nat /\ index1' + shadow' = n /\ n \in Nat
      BY <1>2
    <3> DEFINE x == shadow'
               y == index1'
    <3>2. x \in Nat /\ y = 0 /\ y + x = n /\ n = 0
      BY <2>1, <3>1
    <3> HIDE DEF n, x, y
    <3>3. x = 0
      BY ONLY <3>2
    <3> QED BY <3>3 DEF x
  <2>3. Reach = L
    <3> HIDE DEF n
    <3> QED BY <1>1, <1>2, <2>1
  <2> QED BY <2>2, <2>3
<1>9. n <= Window
  BY <1>1, <1>2
<1>10. Behind' \in Nat
  <2> HIDE DEF i
  <2> QED BY <1>1, <1>5, <1>13
<1> HIDE DEF b
<1>11. Slice(sbuf', index0', Len(sbuf')) = Slice(page'.file, Behind', filepos')
  BY <1>3, <1>5, <1>6
<1>12. filepos' \in 0..Len(page'.file)
  BY <1>2, <1>3
<1> QED BY <1>1, <1>2, <1>3, <1>4, <1>5, <1>7, <1>8, <1>9, <1>10, <1>11, <1>12 DEF Buffered, b

-----------------------------------------------------------------------------
(* What is handed out                                                      *)

\* Handing out what comes next moves the place in the expanded page on.
LEMMA Onward ==
    ASSUME NEW B, NEW E \in Seq(B), NEW r \in 0..Len(E), NEW s \in 0..r, NEW g,
           NEW x \in Seq(B), NEW y \in Seq(B),
           Slice(E, s, r) = g, Slice(E, r, Len(E)) = Cat(x, y)
    PROVE  /\ r + Len(x) \in 0..Len(E) /\ Len(x) \in Nat
           /\ Slice(E, s, r + Len(x)) = Cat(g, x) /\ Slice(E, r + Len(x), Len(E)) = y
<1> DEFINE n == Len(E)
           t == Slice(E, r, n)
           k == Len(x)
           m == Len(y)
<1>1. n \in Nat /\ k \in Nat /\ m \in Nat
  BY LenProperties
<1>2. Len(t) = n - r
  <2>1. n \in 0..Len(E) /\ r \in 0..n
    BY <1>1
  <2> HIDE DEF n
  <2> QED BY <2>1, SliceProperties
<1>3. /\ Len(Cat(x, y)) = k + m
      /\ Slice(Cat(x, y), 0, k) = x /\ Slice(Cat(x, y), k, k + m) = y
  BY SliceOfCat
<1> HIDE DEF n, k, m
<1>4. t = Cat(x, y)
  BY DEF n
<1> HIDE DEF t
<1>5. n - r = k + m
  BY <1>2, <1>3, <1>4
<1>6. r + k \in 0..n /\ n = r + (k + m) /\ r \in Nat
  BY <1>1, <1>5 DEF n
<1>7. Slice(E, r, r + k) = x
  <2>1. Slice(t, 0, k) = Slice(E, r + 0, r + k)
    <3>1. k \in 0..(n - r) /\ 0 \in 0..k /\ n \in 0..n /\ r \in 0..n
      BY <1>1, <1>5, <1>6
    <3> QED BY <3>1, SliceOfSlice DEF t, n
  <2> QED BY <1>3, <1>4, <1>6, <2>1
<1>8. Slice(E, r + k, n) = y
  <2>1. Slice(t, k, k + m) = Slice(E, r + k, r + (k + m))
    <3>1. k + m \in 0..(n - r) /\ k \in 0..(k + m) /\ n \in 0..n /\ r \in 0..n
      BY <1>1, <1>5, <1>6
    <3> QED BY <3>1, SliceOfSlice DEF t, n
  <2> QED BY <1>3, <1>4, <1>6, <2>1
<1>9. Cat(Slice(E, s, r), Slice(E, r, r + k)) = Slice(E, s, r + k)
  <2>1. r \in 0..(r + k) /\ r + k \in 0..n
    BY <1>1, <1>6
  <2> QED BY <2>1, SliceJoin DEF n
<1> QED BY <1>1, <1>6, <1>7, <1>8, <1>9 DEF n, k

\* Where in the expanded page the reader is.
LEMMA HandedFacts ==
    ASSUME Buffered, Handed
    PROVE  /\ Expansion \in Seq(Char) /\ Len(Expansion) \in Nat /\ Len(got) \in Nat
           /\ HandedTo \in 0..Len(Expansion) /\ seekpos \in 0..HandedTo
           /\ Expanded[Behind + 1] \in Seq(Char)
<1>1. page \in Pages
  BY DEF Buffered
<1>2. Expansion \in Seq(Char) /\ Len(Expansion) \in Nat
  BY <1>1, ExpandedFacts
<1>3. Len(got) \in Nat
  BY LenProperties DEF Handed
<1>4. Expanded[Behind + 1] \in Seq(Char)
  <2>1. Behind + 1 \in 1..(Len(page.file) + 1)
    BY BufferFacts
  <2> QED BY <1>1, <2>1, ExpandedFacts
<1> QED BY <1>2, <1>3, <1>4 DEF Handed, HandedTo

\* The bytes x are handed out of what comes next.
LEMMA HandsOut ==
    ASSUME Buffered, Handed, page' = page, seekpos' = seekpos, NEW x \in Seq(Char), got' = Cat(got, x),
           todo' \in Nat, rbuf' \in Seq(Char), replacing' \in BOOLEAN, ~replacing' => rbuf' = <<>>,
           NEW y \in Seq(Char), Cat(rbuf, Expanded[Behind + 1]) = Cat(x, y),
           y = Cat(rbuf', Expanded[Behind' + 1])
    PROVE  Handed' /\ HandedTo' = HandedTo + Len(x)
<1> DEFINE E == Expansion
           r == HandedTo
<1>1. E \in Seq(Char) /\ Len(E) \in Nat /\ r \in 0..Len(E) /\ seekpos \in 0..r /\ Len(got) \in Nat
  BY HandedFacts
<1>2. Slice(E, seekpos, r) = got /\ Slice(E, r, Len(E)) = Cat(x, y)
  BY DEF Handed
<1> HIDE DEF E, r
<1>3. /\ r + Len(x) \in 0..Len(E) /\ Len(x) \in Nat
      /\ Slice(E, seekpos, r + Len(x)) = Cat(got, x) /\ Slice(E, r + Len(x), Len(E)) = y
  BY <1>1, <1>2, Onward
<1>4. Expansion' = E /\ Expanded' = Expanded
  BY SamePage DEF E
<1>5. Cat(got, x) \in Seq(Char) /\ Len(Cat(got, x)) = Len(got) + Len(x)
  BY CatType DEF Handed
<1>6. HandedTo' = r + Len(x)
  <2>1. HandedTo' = seekpos + (Len(got) + Len(x)) /\ r = seekpos + Len(got)
    BY <1>5 DEF HandedTo, r
  <2>2. seekpos \in Nat
    BY DEF Handed
  <2> QED BY <1>1, <1>3, <2>1, <2>2
<1>7. seekpos' \in Nat
  BY DEF Handed
<1>8. Slice(Expansion', seekpos', HandedTo') = got' /\ HandedTo' <= Len(Expansion')
  BY <1>1, <1>3, <1>4, <1>6
<1>9. Slice(Expansion', HandedTo', Len(Expansion')) = Cat(rbuf', Expanded'[Behind' + 1])
  BY <1>3, <1>4, <1>6
<1> QED BY <1>5, <1>6, <1>7, <1>8, <1>9 DEF Handed, r

-----------------------------------------------------------------------------
(* A value                                                                 *)

BufferSame == UNCHANGED <<page, filepos, sbuf, index0, index1, shadow, eof>>

\* Nothing happens to the search buffer.
LEMMA BufferStays ==
    ASSUME Buffered, BufferSame
    PROVE  Buffered' /\ Behind' = Behind
BY DEF Buffered, BufferSame, Behind

\* The smaller of two numbers.
LEMMA SmallerFacts ==
    ASSUME NEW a \in Nat, NEW b \in Nat
    PROVE  Smaller(a, b) \in Nat /\ Smaller(a, b) <= a /\ Smaller(a, b) <= b
BY DEF Smaller

\* What is left of a value is handed out.
LEMMA ReplacementStep ==
    ASSUME Buffered, Handed, ReadReplacement
    PROVE  /\ Buffered' /\ Handed'
           /\ HandedTo' + todo' = HandedTo + todo /\ HandedTo' >= HandedTo
<1> DEFINE n == Smaller(todo, Len(rbuf))
           x == SubSeq(rbuf, 1, n)
           z == SubSeq(rbuf, n + 1, Len(rbuf))
           e == Expanded[Behind + 1]
           y == Cat(z, e)
<1>1. /\ got' = Cat(got, x) /\ todo' = todo - n /\ rbuf' = z /\ replacing' = (n < Len(rbuf))
      /\ BufferSame /\ seekpos' = seekpos /\ page' = page
  BY DEF ReadReplacement, BufferSame, request, Cat
<1>2. rbuf \in Seq(Char) /\ Len(rbuf) \in Nat /\ todo \in Nat
  BY LenProperties DEF Handed
<1>3. n \in Nat /\ n <= todo /\ n <= Len(rbuf)
  BY <1>2, SmallerFacts
<1> HIDE DEF n
<1>4. /\ x \in Seq(Char) /\ Len(x) = n /\ z \in Seq(Char) /\ Len(z) = Len(rbuf) - n
      /\ Cat(x, z) = rbuf
  <2>1. n \in 0..Len(rbuf)
    BY <1>2, <1>3
  <2> QED BY <1>2, <2>1, Halves DEF Cat
<1> HIDE DEF x, z
<1>5. Buffered' /\ Behind' = Behind
  BY <1>1, BufferStays
<1>6. e \in Seq(Char) /\ HandedTo \in Nat
  BY HandedFacts
<1> HIDE DEF e
<1>7. y \in Seq(Char)
  BY <1>4, <1>6, CatType
<1>8. Cat(rbuf, e) = Cat(x, y)
  <2>1. Cat(Cat(x, z), e) = Cat(x, Cat(z, e))
    BY <1>4, <1>6, CatAssociative
  <2> QED BY <1>4, <2>1
<1>9. todo' \in Nat /\ todo' + n = todo
  BY <1>1, <1>2, <1>3
<1>10. ~replacing' => rbuf' = <<>>
  <2>1. ASSUME ~(n < Len(rbuf)) PROVE z = <<>>
    <3>1. Len(z) = 0
      BY <1>2, <1>3, <1>4, <2>1
    <3> QED BY <1>4, <3>1, EmptySeq
  <2> QED BY <1>1, <2>1
<1>11. y = Cat(rbuf', Expanded[Behind' + 1])
  BY <1>1, <1>5 DEF e
<1> HIDE DEF y
<1>12. Cat(rbuf, Expanded[Behind + 1]) = Cat(x, y)
  BY <1>8 DEF e
<1>13. Handed' /\ HandedTo' = HandedTo + Len(x)
  <2>1. rbuf' \in Seq(Char) /\ replacing' \in BOOLEAN
    BY <1>1, <1>4
  <2> QED BY <1>1, <1>4, <1>7, <1>9, <1>10, <1>11, <1>12, <2>1, HandsOut
<1>14. HandedTo' = HandedTo + n
  BY <1>4, <1>13
<1> QED BY <1>3, <1>5, <1>6, <1>9, <1>13, <1>14

LEMMA WordLengths == Len(Prefix) = 3 /\ Len(Suffix) = 2
BY DEF Prefix, Suffix

\* The next byte is that of the file, and a prefix there is in the buffer.
LEMMA PrefixHere ==
    ASSUME Buffered, index0 < index1
    PROVE  /\ Behind + 1 \in 1..Len(page.file)
           /\ sbuf[index0 + 1] = page.file[Behind + 1]
           /\ AtPrefix <=> Occurs(Prefix, page.file, Behind + 1)
<1> DEFINE file == page.file
           L == Len(file)
           n == Len(sbuf)
           t == Slice(sbuf, index0, n)
<1>1. /\ file \in Seq(Char) /\ L \in Nat /\ sbuf \in Seq(Char) /\ n \in Nat
      /\ Behind \in Nat /\ filepos \in Nat /\ Behind <= filepos /\ filepos <= L
      /\ index0 \in Nat /\ index1 \in Nat /\ index1 <= n /\ filepos = Behind + (n - index0)
  BY BufferFacts
<1>2. t = Slice(file, Behind, filepos)
  BY DEF Buffered
<1> HIDE DEF file, L, n, t
<1>3. index0 + 1 <= n /\ Behind + 1 <= filepos /\ Behind + 1 \in 1..L
  BY <1>1
<1>4. sbuf[index0 + 1] = file[Behind + 1]
  <2>1. t[1] = sbuf[index0 + 1]
    <3>1. n \in 0..n /\ index0 \in 0..n /\ 1 \in 1..(n - index0)
      BY <1>1, <1>3
    <3> QED BY <1>1, <3>1, SliceProperties DEF t, n
  <2>2. t[1] = file[Behind + 1]
    <3>1. filepos \in 0..L /\ Behind \in 0..filepos /\ 1 \in 1..(filepos - Behind)
      BY <1>1, <1>3
    <3> QED BY <1>1, <1>2, <3>1, SliceProperties DEF L
  <2> QED BY <2>1, <2>2
<1>5. Occurs(Prefix, t, 1) <=> (index0 + 1 + 3 - 1 <= n /\ Occurs(Prefix, sbuf, index0 + 1))
  <2>1. n \in 0..n /\ index0 \in 0..n
    BY <1>1, <1>3
  <2>2. 3 \in Nat /\ 3 > 0 /\ 1 \in Nat /\ 1 > 0
    OBVIOUS
  <2> QED BY <1>1, <2>1, <2>2, Occurrence, WordLengths DEF t, n
<1>6. Occurs(Prefix, t, 1) <=> (Behind + 1 + 3 - 1 <= filepos /\ Occurs(Prefix, file, Behind + 1))
  <2>1. filepos \in 0..L /\ Behind \in 0..filepos
    BY <1>1
  <2>2. 3 \in Nat /\ 3 > 0 /\ 1 \in Nat /\ 1 > 0
    OBVIOUS
  <2>3. Occurs(Prefix, Slice(file, Behind, filepos), 1)
          <=> (Behind + 1 + 3 - 1 <= filepos /\ Occurs(Prefix, file, Behind + 1))
    <3> DEFINE b == Behind
    <3>1. b \in 0..filepos /\ filepos \in 0..Len(file)
      BY <2>1 DEF L
    <3> HIDE DEF b
    <3>2. Occurs(Prefix, Slice(file, b, filepos), 1)
            <=> (b + 1 + 3 - 1 <= filepos /\ Occurs(Prefix, file, b + 1))
      BY <1>1, <2>2, <3>1, Occurrence, WordLengths
    <3> QED BY <3>2 DEF b
  <2> QED BY <1>2, <2>3
<1>7. Occurs(Prefix, sbuf, index0 + 1) => index0 + 1 + 3 - 1 <= n
  BY WordLengths DEF Occurs, n
<1>8. Occurs(Prefix, file, Behind + 1) => Behind + 1 + 3 - 1 <= filepos
  <2>1. CASE filepos = L
    BY <2>1, WordLengths DEF Occurs, L
  <2>2. CASE shadow = 2
    <3>1. index1 + 2 = n
      BY <2>2 DEF Buffered, n
    <3> QED BY <1>1, <3>1
  <2>3. filepos = L \/ shadow = 3 - 1
    BY WordLengths DEF Buffered, L, file
  <2> QED BY <2>1, <2>2, <2>3
<1>9. AtPrefix <=> Occurs(Prefix, sbuf, index0 + 1)
  BY DEF AtPrefix
<1> QED BY <1>3, <1>4, <1>5, <1>6, <1>7, <1>8, <1>9 DEF file, L

\* The end of a tag is in the filled buffer if it is within the window.
LEMMA EndsHere ==
    ASSUME Buffered
    PROVE  /\ EndsAt # {} <=> TagEnd(Behind + 1) # {}
           /\ EndsAt # {} =>
                LET end == Min(EndsAt) + 1 IN
                /\ end \in 5..Len(Filled)
                /\ Min(TagEnd(Behind + 1)) = Behind + end
                /\ SubSeq(Filled, Len(Prefix) + 1, end - 2)
                     = SubSeq(page.file, (Behind + 1) + 3, (Behind + end) - 2)
<1> DEFINE file == page.file
           L == Len(file)
           b == Behind
           n == Len(Filled)
           E == EndsAt
           T == TagEnd(b + 1)
<1>1. /\ file \in Seq(Char) /\ L \in Nat /\ b \in Nat /\ Window \in Nat
      /\ Filled = Slice(file, b, Reach) /\ Filled \in Seq(Char)
      /\ Reach \in Nat /\ Reach <= L /\ b <= Reach /\ Reach <= b + Window /\ n = Reach - b /\ n \in Nat
      /\ Reach = IF b + Window < L THEN b + Window ELSE L
  BY SMTT(60), BufferFacts, FilledIs DEF Reach
<1>2. page \in Pages
  BY DEF Buffered
<1>3. \A i : i \in E <=> i \in 4..n /\ Occurs(Suffix, Filled, i)
  <2>1. Len(Prefix) + 1 = 4
    BY WordLengths
  <2> QED BY <2>1 DEF EndsAt
<1>4. \A q : q \in T <=> q \in ((b + 1) + 4)..((b + 1) + Window - 1) /\ Occurs(Suffix, file, q - 1)
  BY DEF TagEnd
<1> HIDE DEF file, L, b, n, E, T
<1>5. ASSUME NEW i \in Nat, i > 0
      PROVE  Occurs(Suffix, Filled, i) <=> (b + i + 1 <= Reach /\ Occurs(Suffix, file, b + i))
  <2>1. Reach \in 0..L /\ b \in 0..Reach
    BY <1>1
  <2>2. Occurs(Suffix, Slice(file, b, Reach), i) <=> (b + i + 2 - 1 <= Reach /\ Occurs(Suffix, file, b + i))
    <3>1. 2 \in Nat /\ 2 > 0
      OBVIOUS
    <3> QED BY <1>1, <1>5, <2>1, <3>1, Occurrence, WordLengths DEF L
  <2>3. b + i + 2 - 1 = b + i + 1
    BY <1>1
  <2> QED BY <1>1, <2>2, <2>3
<1>6. ASSUME NEW i \in E PROVE (b + 1) + i \in T /\ i \in Nat /\ i >= 4 /\ i + 1 <= n
  <2>1. i \in Nat /\ i >= 4 /\ i <= n /\ Occurs(Suffix, Filled, i)
    BY <1>1, <1>3
  <2>2. b + i + 1 <= Reach /\ Occurs(Suffix, file, b + i)
    BY <1>5, <2>1
  <2>3. ((b + 1) + i) - 1 = b + i /\ (b + 1) + i \in ((b + 1) + 4)..((b + 1) + Window - 1)
    BY <1>1, <2>1, <2>2
  <2>4. i + 1 <= n
    BY <1>1, <2>1, <2>2
  <2> QED BY <1>4, <2>1, <2>2, <2>3, <2>4
<1>7. ASSUME NEW q \in T PROVE q - (b + 1) \in E /\ q \in Nat
  <2> DEFINE i == q - (b + 1)
  <2>1. q \in Nat /\ i \in Nat /\ i >= 4 /\ i + 1 <= Window /\ q - 1 = b + i /\ Occurs(Suffix, file, b + i)
    <3>1. q \in ((b + 1) + 4)..((b + 1) + Window - 1) /\ Occurs(Suffix, file, q - 1)
      BY <1>4
    <3>2. q \in Nat /\ i \in Nat /\ i >= 4 /\ i + 1 <= Window /\ q - 1 = b + i
      BY <1>1, <3>1
    <3> QED BY <3>1, <3>2
  <2> HIDE DEF i
  <2>2. b + i + 2 - 1 <= L
    BY <2>1, WordLengths DEF Occurs, L
  <2>3. b + i + 1 <= Reach
    BY <1>1, <2>1, <2>2
  <2>4. Occurs(Suffix, Filled, i) /\ i \in 4..n
    BY <1>1, <1>5, <2>1, <2>3
  <2> QED BY <1>3, <2>1, <2>4 DEF i
<1>8. E # {} <=> T # {}
  BY <1>6, <1>7
<1> DEFINE end == Min(E) + 1
<1> HIDE DEF end
<1>9. ASSUME E # {}
      PROVE  /\ end \in 5..n /\ Min(T) = b + end
             /\ SubSeq(Filled, 4, end - 2) = SubSeq(file, (b + 1) + 3, (b + end) - 2)
  <2>1. E \subseteq Nat
    BY <1>6
  <2>2. PICK e \in E : \A j \in E : e <= j
    BY <1>9, <2>1, Smallest
  <2> DEFINE m == Min(E)
             q == Min(T)
  <2>3. m \in E /\ \A j \in E : m <= j
    BY <2>2 DEF Min
  <2>4. q \in T /\ \A j \in T : q <= j
    <3>1. TagEnd(b + 1) # {} /\ b + 1 \in Nat
      BY <1>1, <1>8, <1>9 DEF T
    <3> QED BY <1>2, <3>1, TagEndFacts DEF T
  <2> HIDE DEF m, q
  <2>5. m \in Nat /\ m >= 4 /\ m + 1 <= n /\ (b + 1) + m \in T
    BY <1>6, <2>3
  <2>6. q = (b + 1) + m
    <3>1. q - (b + 1) \in E /\ q \in Nat
      BY <1>7, <2>4
    <3>2. m <= q - (b + 1) /\ q <= (b + 1) + m
      BY <2>3, <2>4, <2>5, <3>1
    <3> QED BY <1>1, <2>5, <3>1, <3>2
  <2>7. Slice(Filled, 3, m - 1) = Slice(file, b + 3, b + (m - 1))
    <3>1. Reach \in 0..L /\ b \in 0..Reach /\ m - 1 \in 0..(Reach - b) /\ 3 \in 0..(m - 1)
      BY <1>1, <2>5
    <3> QED BY <1>1, <3>1, SliceOfSlice DEF L
  <2>8. end = m + 1
    BY DEF end, m
  <2>9. /\ end - 2 = m - 1 /\ (b + 1) + 3 = (b + 3) + 1 /\ (b + end) - 2 = b + (m - 1) /\ 3 + 1 = 4
        /\ end \in 5..n /\ (b + 1) + m = b + end
    BY <1>1, <2>5, <2>8
  <2>10. SubSeq(Filled, 4, end - 2) = SubSeq(file, (b + 1) + 3, (b + end) - 2)
    BY <2>7, <2>9 DEF Slice
  <2>11. q = b + end
    BY <2>6, <2>9
  <2> QED BY <2>9, <2>10, <2>11 DEF q
<1>10. Len(Prefix) + 1 = 4
  BY WordLengths
<1>11. EndsAt # {} <=> TagEnd(Behind + 1) # {}
  BY <1>8 DEF b, E, T
<1>12. ASSUME EndsAt # {}
       PROVE  LET stop == Min(EndsAt) + 1 IN
                /\ stop \in 5..Len(Filled)
                /\ Min(TagEnd(Behind + 1)) = Behind + stop
                /\ SubSeq(Filled, Len(Prefix) + 1, stop - 2)
                     = SubSeq(page.file, (Behind + 1) + 3, (Behind + stop) - 2)
  <2> DEFINE k == Len(Prefix) + 1
  <2>1. E # {}
    BY <1>12 DEF E
  <2>2. /\ end \in 5..n /\ Min(T) = b + end
        /\ SubSeq(Filled, 4, end - 2) = SubSeq(file, (b + 1) + 3, (b + end) - 2)
    BY <1>9, <2>1
  <2>3. k = 4
    BY <1>10
  <2> HIDE DEF k
  <2>4. SubSeq(Filled, k, end - 2) = SubSeq(file, (b + 1) + 3, (b + end) - 2)
    BY <2>2, <2>3
  <2> QED BY <2>2, <2>4 DEF file, b, n, E, T, end, k
<1> QED BY <1>11, <1>12

-----------------------------------------------------------------------------
(* The search                                                              *)

LEMMA ReadUnchanged ==
    ASSUME SearchUnchanged
    PROVE  page' = page /\ seekpos' = seekpos
BY DEF SearchUnchanged, request

\* What is kept back is not everything.
LEMMA ShadowFacts ==
    ASSUME NEW n \in Nat
    PROVE  ShadowOf(n) \in 0..2 /\ ShadowOf(n) <= n /\ (n > 0 => ShadowOf(n) < n)
<1>1. Len(Prefix) = 3
  BY WordLengths
<1>2. CASE n <= 3
  <2>1. ShadowOf(n) = 0
    BY <1>1, <1>2 DEF ShadowOf
  <2> QED BY <2>1
<1>3. CASE ~(n <= 3)
  <2>1. ShadowOf(n) = 2
    BY <1>1, <1>3 DEF ShadowOf
  <2> QED BY <1>3, <2>1
<1> QED BY <1>2, <1>3

\* A fill hands out nothing.
LEMMA FillStep ==
    ASSUME Buffered, Handed, ReadFill
    PROVE  Buffered' /\ Handed' /\ HandedTo' + todo' = HandedTo + todo /\ HandedTo' >= HandedTo
<1> DEFINE n == Len(Filled)
<1>1. /\ FetchedFile /\ page' = page /\ seekpos' = seekpos /\ todo' = todo /\ got' = got
      /\ rbuf' = rbuf /\ replacing' = replacing
      /\ index0' = 0 /\ shadow' = ShadowOf(n) /\ index1' = n - shadow'
  BY ReadUnchanged DEF ReadFill
<1>2. Filled \in Seq(Char) /\ n \in Nat
  BY FilledIs
<1>3. ShadowOf(n) \in 0..2 /\ ShadowOf(n) <= n /\ (n > 0 => ShadowOf(n) < n)
  BY <1>2, ShadowFacts
<1>4. n = 0 => Filled = <<>>
  BY <1>2, EmptySeq
<1> HIDE DEF n
<1> DEFINE s == ShadowOf(n)
           i == index1'
<1>5. s \in 0..2 /\ n \in Nat /\ s <= n /\ (n > 0 => s < n) /\ i = n - s
  BY <1>1, <1>2, <1>3
<1> HIDE DEF s, i
<1>6. i \in Nat /\ 0 <= i /\ i + s = n /\ (i = 0 => n = 0)
  BY <1>5
<1>7. Buffered' /\ Behind' = Behind + index0'
  <2>1. /\ index0' \in Nat /\ index1' \in Nat /\ shadow' \in 0..2 /\ index0' <= index1'
        /\ index1' + shadow' = Len(Filled) /\ (index0' < index1' => shadow' = ShadowOf(Len(Filled)))
        /\ (index1' = 0 => Filled = <<>>)
    BY <1>1, <1>4, <1>5, <1>6 DEF i, s, n
  <2> QED BY <1>1, <2>1, Refilled
<1>8. Behind' = Behind
  <2>1. Behind \in Nat
    BY BufferFacts
  <2> QED BY <1>1, <1>7, <2>1
<1>9. HandedTo' = HandedTo
  BY <1>1 DEF HandedTo
<1>10. Handed'
  <2>1. page' = page
    BY <1>1
  <2> QED BY <1>1, <1>8, <1>9, <2>1, SamePage DEF Handed
<1>11. HandedTo \in Nat /\ todo \in Nat
  BY HandedFacts DEF Handed
<1> QED BY <1>1, <1>7, <1>9, <1>10, <1>11

\* A tag is skipped and its value comes next.
LEMMA TagStep ==
    ASSUME Buffered, Handed, ReadTag
    PROVE  Buffered' /\ Handed' /\ HandedTo' + todo' = HandedTo + todo /\ HandedTo' >= HandedTo
<1> DEFINE n == Len(Filled)
           end == Min(EndsAt) + 1
           s == ShadowOf(n)
           rest == n - s
           name == SubSeq(Filled, Len(Prefix) + 1, end - 2)
           b == Behind
           i == index1'
           h == shadow'
<1>1. /\ FetchedFile /\ page' = page /\ seekpos' = seekpos /\ todo' = todo /\ got' = got
      /\ rbuf' = ValueOf(name) /\ replacing' = TRUE /\ ~replacing /\ index0 < index1 /\ AtPrefix /\ EndsAt # {}
      /\ index0' = end /\ i = (IF end > rest THEN end ELSE rest) /\ h = n - i
  BY ReadUnchanged DEF ReadTag, Searching, AtPrefix
<1>2. Filled \in Seq(Char) /\ n \in Nat
  BY FilledIs
<1>3. s \in 0..2 /\ s <= n
  BY <1>2, ShadowFacts
<1>4. /\ end \in 5..n /\ TagEnd(b + 1) # {} /\ Min(TagEnd(b + 1)) = b + end
      /\ name = SubSeq(page.file, (b + 1) + 3, (b + end) - 2)
  BY <1>1, EndsHere
<1>5. b + 1 \in 1..Len(page.file) /\ Occurs(Prefix, page.file, b + 1) /\ b \in Nat /\ page \in Pages
  BY <1>1, PrefixHere, BufferFacts DEF Buffered
<1> HIDE DEF n, end, s, rest, name, b, i, h
<1>6. rest \in Nat /\ rest <= n /\ n - rest <= 2 /\ end \in Nat /\ end >= 5 /\ end <= n
  BY <1>2, <1>3, <1>4 DEF rest
<1>7. i \in Nat /\ i >= end /\ h \in 0..2 /\ i + h = n /\ i # 0 /\ (end < i => i = rest)
  BY <1>1, <1>2, <1>6
<1>8. end < i => h = s
  BY <1>1, <1>2, <1>3, <1>6, <1>7 DEF rest
<1>9. Buffered' /\ Behind' = b + end
  <2>1. /\ index0' \in Nat /\ index1' \in Nat /\ shadow' \in 0..2 /\ index0' <= index1'
        /\ index1' + shadow' = Len(Filled) /\ (index0' < index1' => shadow' = ShadowOf(Len(Filled)))
        /\ (index1' = 0 => Filled = <<>>)
    BY ZenonT(60), <1>1, <1>6, <1>7, <1>8 DEF i, h, s, n
  <2> QED BY SMTT(60), <1>1, <2>1, Refilled DEF b
<1> DEFINE v == ValueOf(name)
           e == Expanded[(b + end) + 1]
           y == Cat(v, e)
<1>10. Expanded[b + 1] = y
  <2>1. Expanded[b + 1] = Cat(ValueOf(SubSeq(page.file, (b + 1) + 3, Min(TagEnd(b + 1)) - 2)),
                              Expanded[Min(TagEnd(b + 1)) + 1])
    BY <1>4, <1>5, ExpandedFacts
  <2> QED BY <1>4, <2>1
<1>11. v \in Seq(Char)
  BY <1>5, PageFacts
<1>12. y \in Seq(Char)
  <2>1. Expanded[b + 1] \in Seq(Char)
    BY HandedFacts DEF b
  <2> QED BY <1>10, <2>1
<1>13. <<>> \in Seq(Char) /\ Len(<<>>) = 0
  OBVIOUS
<1> DEFINE x == <<>>
<1>14. x \in Seq(Char) /\ Len(x) = 0
  BY <1>13
<1>15. rbuf = x /\ got \in Seq(Char) /\ todo \in Nat
  BY <1>1 DEF Handed
<1> HIDE DEF x
<1>16. Cat(got, x) = got /\ Cat(x, y) = y
  BY <1>12, <1>14, <1>15, CatType DEF x
<1>17. y = Cat(rbuf', Expanded[Behind' + 1])
  BY <1>1, <1>9
<1> HIDE DEF v, y, e
<1>18. Handed' /\ HandedTo' = HandedTo + Len(x)
  <2>1. /\ got' = Cat(got, x) /\ todo' \in Nat /\ rbuf' \in Seq(Char) /\ replacing' \in BOOLEAN
        /\ (~replacing' => rbuf' = <<>>) /\ Cat(rbuf, Expanded[Behind + 1]) = Cat(x, y)
    BY <1>1, <1>10, <1>11, <1>15, <1>16 DEF b, v, y
  <2> QED BY <1>1, <1>12, <1>14, <1>17, <2>1, HandsOut
<1>19. HandedTo \in Nat
  BY HandedFacts
<1> QED BY <1>1, <1>9, <1>14, <1>15, <1>18, <1>19

\* Any other byte is itself.
LEMMA ByteStep ==
    ASSUME Buffered, Handed, ReadByte
    PROVE  Buffered' /\ Handed' /\ HandedTo' + todo' = HandedTo + todo /\ HandedTo' >= HandedTo
<1> DEFINE b == Behind
           c == sbuf[index0 + 1]
           x == <<c>>
           y == Expanded[(b + 1) + 1]
<1>1. /\ page' = page /\ seekpos' = seekpos /\ todo' = todo - 1 /\ todo > 0 /\ got' = Cat(got, x)
      /\ rbuf' = rbuf /\ replacing' = replacing /\ ~replacing /\ index0 < index1
      /\ ~(AtPrefix /\ EndsAt # {}) /\ got \in Seq(Char) /\ todo \in Nat /\ rbuf = <<>>
  BY ReadUnchanged, AppendProperties DEF ReadByte, Searching, Handed, Cat
<1>2. b \in Nat /\ page \in Pages /\ b + 1 \in 1..Len(page.file) /\ c = page.file[b + 1]
  BY <1>1, PrefixHere, BufferFacts DEF Buffered
<1>3. ~(Occurs(Prefix, page.file, b + 1) /\ TagEnd(b + 1) # {})
  BY <1>1, PrefixHere, EndsHere
<1>4. Buffered' /\ Behind' = b + 1
  <2>1. CASE AtPrefix
    <3> DEFINE n == Len(Filled)
               s == ShadowOf(n)
               i == index1'
               h == shadow'
    <3>1. FetchedFile /\ index0' = 1 /\ h = s /\ i = n - h
      BY <2>1 DEF ReadByte
    <3>2. n \in Nat /\ Filled \in Seq(Char)
      BY FilledIs
    <3>3. s \in 0..2 /\ s <= n /\ (n > 0 => s < n)
      BY <3>2, ShadowFacts
    <3>4. n > 0
      <4>1. Behind < filepos
        BY <1>1, BufferFacts
      <4>2. filepos <= Reach /\ n = Reach - Behind /\ Reach \in Nat
        BY FilledIs
      <4>3. Behind \in Nat /\ filepos \in Nat
        BY BufferFacts
      <4> HIDE DEF n
      <4> QED BY <4>1, <4>2, <4>3
    <3> HIDE DEF n, s, i, h
    <3>5. i \in Nat /\ i >= 1 /\ i + h = n /\ h \in 0..2
      BY <3>1, <3>2, <3>3, <3>4
    <3>6. /\ index0' \in Nat /\ index1' \in Nat /\ shadow' \in 0..2 /\ index0' <= index1'
          /\ index1' + shadow' = Len(Filled) /\ (index0' < index1' => shadow' = ShadowOf(Len(Filled)))
          /\ (index1' = 0 => Filled = <<>>)
      BY <3>1, <3>5 DEF i, h, s, n
    <3> QED BY <1>1, <3>1, <3>6, Refilled
  <2>2. CASE ~AtPrefix
    <3> DEFINE n == Len(sbuf)
               j == index0
    <3>1. index0' = index0 + 1 /\ UNCHANGED <<filepos, eof, sbuf, shadow, index1>>
      BY <2>2 DEF ReadByte
    <3>2. /\ page.file \in Seq(Char) /\ Len(page.file) \in Nat /\ sbuf \in Seq(Char) /\ n \in Nat
          /\ b \in Nat /\ filepos \in Nat /\ b <= filepos /\ filepos <= Len(page.file)
          /\ j \in Nat /\ index1 \in Nat /\ j < index1 /\ index1 <= n /\ filepos = b + (n - j)
      BY <1>1, BufferFacts
    <3>3. Slice(sbuf, j, n) = Slice(page.file, b, filepos)
      BY DEF Buffered
    <3> HIDE DEF b, n
    <3>4. Behind' = b + 1
      <4>1. Behind' = filepos - (n - (index0 + 1))
        BY <3>1 DEF Behind, n
      <4> QED BY <3>2, <4>1
    <3>5. Slice(sbuf, j + 1, n) = Slice(page.file, b + 1, filepos)
      <4>1. Slice(Slice(sbuf, j, n), 1, n - j) = Slice(sbuf, j + 1, j + (n - j))
        <5>1. n \in 0..n /\ j \in 0..n /\ n - j \in 0..(n - j) /\ 1 \in 0..(n - j)
          BY <3>2
        <5> HIDE DEF j
        <5> QED BY <3>2, <5>1, SliceOfSlice DEF n
      <4>2. Slice(Slice(page.file, b, filepos), 1, n - j) = Slice(page.file, b + 1, b + (n - j))
        <5>1. filepos \in 0..Len(page.file) /\ b \in 0..filepos /\ n - j \in 0..(filepos - b) /\ 1 \in 0..(n - j)
          BY <3>2
        <5> HIDE DEF j
        <5> QED BY <3>2, <5>1, SliceOfSlice
      <4>3. j + (n - j) = n /\ b + (n - j) = filepos
        BY <3>2
      <4> QED BY <3>3, <4>1, <4>2, <4>3
    <3>6. index0' \in Nat /\ index0' <= index1' /\ Behind' \in Nat
      BY <3>1, <3>2, <3>4
    <3>7. index0' < index1' => shadow' = Len(Prefix) - 1 \/ filepos' = Len(page'.file)
      BY <1>1, <3>1, <3>2 DEF Buffered
    <3>8. Slice(sbuf', index0', Len(sbuf')) = Slice(page'.file, Behind', filepos')
      BY <1>1, <3>1, <3>4, <3>5 DEF n
    <3>9. Buffered'
      BY <1>1, <3>1, <3>2, <3>6, <3>7, <3>8 DEF Buffered
    <3> QED BY <3>4, <3>9
  <2> QED BY <2>1, <2>2
<1>5. Expanded[b + 1] = Cat(x, y)
  BY <1>2, <1>3, ExpandedFacts
<1>6. y \in Seq(Char)
  <2>1. (b + 1) + 1 \in 1..(Len(page.file) + 1)
    BY <1>2, PageFacts
  <2> QED BY <1>2, <2>1, ExpandedFacts
<1>7. x \in Seq(Char) /\ Len(x) = 1
  <2>1. c \in Char
    BY <1>2, PageFacts
  <2> HIDE DEF c
  <2> QED BY <2>1
<1>8. Expanded[b + 1] \in Seq(Char)
  BY HandedFacts
<1> HIDE DEF b, c, x, y
<1>9. Cat(rbuf, Expanded[b + 1]) = Cat(x, y) /\ y = Cat(rbuf', Expanded[Behind' + 1])
  <2> DEFINE e == <<>>
             z == Expanded[b + 1]
  <2>1. e \in Seq(Char) /\ rbuf = e /\ rbuf' = e
    BY <1>1
  <2> HIDE DEF e, z
  <2>2. Cat(e, z) = z /\ Cat(e, y) = y
    BY <1>6, <1>8, CatType DEF e, z
  <2> QED BY <1>4, <1>5, <2>1, <2>2 DEF y, z
<1>10. todo' \in Nat /\ todo' + 1 = todo
  BY <1>1
<1>11. Handed' /\ HandedTo' = HandedTo + Len(x)
  <2>1. rbuf' \in Seq(Char) /\ replacing' \in BOOLEAN /\ (~replacing' => rbuf' = <<>>)
    BY <1>1 DEF Handed
  <2>2. Cat(rbuf, Expanded[Behind + 1]) = Cat(x, y)
    BY <1>9 DEF b
  <2> QED BY <1>1, <1>6, <1>7, <1>9, <1>10, <2>1, <2>2, HandsOut
<1>12. HandedTo \in Nat
  BY HandedFacts
<1> QED BY <1>4, <1>7, <1>10, <1>11, <1>12

-----------------------------------------------------------------------------
(* The phases of a response                                                *)

\* What is asked for does not change, and what was accepted only with the size and the end.
LEMMA SameRequest ==
    ASSUME request' = request
    PROVE  /\ page' = page /\ range' = range /\ Expansion' = Expansion
           /\ (Partial' <=> Partial) /\ First' = First /\ (Satisfiable' <=> Satisfiable)
           /\ (last' = last => End' = End)
           /\ (last' = last /\ size' = size => (Accepts' <=> Accepts))
<1>1. page' = page /\ range' = range
  BY DEF request
<1>2. Expansion' = Expansion
  BY <1>1, SamePage
<1>3. (Partial' <=> Partial) /\ First' = First
  BY <1>1 DEF Partial, First
<1>4. Satisfiable' <=> Satisfiable
  BY <1>1, <1>2, <1>3 DEF Satisfiable
<1>5. last' = last => End' = End
  BY <1>1, <1>2 DEF End
<1>6. last' = last /\ size' = size => (Accepts' <=> Accepts)
  BY <1>1, <1>2, <1>3, <1>4, <1>5 DEF Accepts
<1> QED BY <1>1, <1>2, <1>3, <1>4, <1>5, <1>6

\* Reading keeps what the phase has found out.
LEMMA ReadKeeps ==
    ASSUME Buffered, Handed, PhaseInv, SearchUnchanged, Reading, Handed', Buffered',
           HandedTo' + todo' = HandedTo + todo, HandedTo' >= HandedTo
    PROVE  PhaseInv'
<1> DEFINE h == HandedTo
           k == HandedTo'
<1>1. /\ request' = request /\ seekpos' = seekpos /\ phase' = phase /\ size' = size
      /\ last' = last /\ out' = out
  BY DEF SearchUnchanged
<1>2. /\ range' = range /\ Expansion' = Expansion /\ (Partial' <=> Partial) /\ First' = First
      /\ (Satisfiable' <=> Satisfiable) /\ End' = End /\ (Accepts' <=> Accepts)
  BY <1>1, SameRequest
<1>3. h \in Nat /\ k \in Nat /\ todo \in Nat /\ todo' \in Nat /\ k + todo' = h + todo /\ k <= Len(Expansion)
  <2>1. h \in Nat /\ todo \in Nat
    BY HandedFacts DEF Handed
  <2>2. k \in Nat /\ k <= Len(Expansion')
    <3>1. seekpos' \in Nat /\ Len(got') \in Nat /\ HandedTo' <= Len(Expansion')
      BY LenProperties DEF Handed
    <3> QED BY <3>1 DEF HandedTo
  <2>3. todo' \in Nat
    BY DEF Handed
  <2> QED BY <1>2, <2>1, <2>2, <2>3
<1>4. phase \in {"sizing", "seeking", "sending"}
  BY DEF Reading
<1> HIDE DEF h, k
<1>5. CASE phase = "sizing"
  BY <1>1, <1>2, <1>5 DEF PhaseInv, Accepted
<1>6. CASE phase = "seeking"
  <2>1. h + todo <= First /\ seekpos < First /\ Accepts /\ Partial /\ out = <<>>
    BY <1>6 DEF PhaseInv, h
  <2>2. k + todo' <= First'
    BY <1>2, <1>3, <2>1
  <2> QED BY <1>1, <1>2, <1>6, <2>1, <2>2 DEF PhaseInv, Accepted, k
<1>7. CASE phase = "sending"
  <2>1. /\ Accepts /\ First <= seekpos /\ out = Slice(Expansion, First, seekpos)
        /\ (range # Chunked => h + todo <= End)
    BY <1>7 DEF PhaseInv, Accepted, h
  <2>2. range # Chunked => k + todo' <= End'
    BY <1>2, <1>3, <2>1
  <2>3. k <= End'
    <3>1. CASE range = Chunked
      BY <1>2, <1>3, <3>1 DEF End
    <3>2. CASE range # Chunked
      <4> DEFINE t == todo'
                 m == End
      <4>1. m \in Int
        BY <2>1, <1>3 DEF Accepts
      <4>2. t \in Nat /\ k + t <= m
        BY <1>2, <1>3, <2>2, <3>2
      <4> HIDE DEF t, m
      <4>3. k <= m
        BY <1>3, <4>1, <4>2
      <4> QED BY <1>2, <4>3 DEF m
    <3> QED BY <3>1, <3>2
  <2> QED BY <1>1, <1>2, <1>7, <2>1, <2>2, <2>3 DEF PhaseInv, Accepted, k
<1> QED BY <1>4, <1>5, <1>6, <1>7

\* At the end of the file every byte of the page was handed out.
LEMMA AllHanded ==
    ASSUME Buffered, Handed, AtEnd
    PROVE  HandedTo = Len(Expansion)
<1> DEFINE e == <<>>
           L == Len(page.file)
           n == Len(Expansion)
<1>1. e \in Seq(Char) /\ rbuf = e /\ index0 = 0 /\ index1 = 0
  BY DEF AtEnd, Handed
<1>2. shadow = 0 /\ filepos = L /\ Len(sbuf) = 0
  BY <1>1 DEF Buffered
<1>3. L \in Nat /\ Behind = L
  BY <1>1, <1>2, BufferFacts
<1>4. page \in Pages
  BY DEF Buffered
<1>5. Expanded[Behind + 1] = e
  BY <1>3, <1>4, ExpandedFacts
<1>6. Slice(Expansion, HandedTo, n) = Cat(e, e)
  BY <1>1, <1>5 DEF Handed
<1> HIDE DEF e, n
<1>7. Cat(e, e) = e
  BY <1>1, CatType DEF e
<1>8. Len(Slice(Expansion, HandedTo, n)) = n - HandedTo /\ n \in Nat /\ HandedTo \in 0..n
  <2>1. Expansion \in Seq(Char) /\ n \in Nat /\ HandedTo \in 0..n
    BY HandedFacts DEF n
  <2>2. n \in 0..n
    BY <2>1
  <2> QED BY <2>1, <2>2, SliceProperties DEF n
<1>9. Len(e) = 0
  BY DEF e
<1>10. n - HandedTo = 0
  BY <1>6, <1>7, <1>8, <1>9
<1> QED BY <1>8, <1>10 DEF n

\* A read that begins follows the bytes the last one has handed out.
LEMMA Restarts ==
    ASSUME Buffered, Handed, request' = request, buffer' = buffer, seekpos' = HandedTo,
           got' = <<>>, todo' \in Nat
    PROVE  Buffered' /\ Handed' /\ HandedTo' = HandedTo
<1> DEFINE h == HandedTo
           e == <<>>
<1>1. page' = page /\ rbuf' = rbuf /\ replacing' = replacing /\ BufferSame
  BY DEF request, buffer, BufferSame
<1>2. Buffered' /\ Behind' = Behind
  BY <1>1, BufferStays
<1>3. Expansion' = Expansion /\ Expanded' = Expanded
  BY <1>1, SamePage
<1>4. e \in Seq(Char) /\ Len(e) = 0 /\ got' = e
  OBVIOUS
<1>5. Expansion \in Seq(Char) /\ h \in 0..Len(Expansion) /\ h \in Nat
  BY HandedFacts
<1> HIDE DEF e, h
<1>6. HandedTo' = h
  <2>1. HandedTo' = seekpos' + Len(got')
    BY DEF HandedTo
  <2>2. seekpos' = h
    BY DEF h
  <2> QED BY <1>4, <1>5, <2>1, <2>2
<1>7. Slice(Expansion', seekpos', HandedTo') = got'
  <2>1. Slice(Expansion, h, h) = e
    BY <1>5, SliceEnds DEF e
  <2> QED BY <1>3, <1>4, <1>6, <2>1 DEF h
<1>8. Slice(Expansion', HandedTo', Len(Expansion')) = Cat(rbuf', Expanded'[Behind' + 1])
  <2>1. Slice(Expansion, h, Len(Expansion)) = Cat(rbuf, Expanded[Behind + 1])
    BY DEF Handed, h
  <2> QED BY <1>1, <1>2, <1>3, <1>6, <2>1
<1>9. rbuf' \in Seq(Char) /\ replacing' \in BOOLEAN /\ (~replacing' => rbuf' = <<>>)
  BY <1>1 DEF Handed
<1>10. seekpos' \in Nat /\ HandedTo' <= Len(Expansion') /\ got' \in Seq(Char)
  <2>1. seekpos' = h
    BY DEF h
  <2>2. h <= Len(Expansion)
    BY <1>5
  <2> QED BY <1>3, <1>4, <1>5, <1>6, <2>1, <2>2
<1>11. Handed'
  BY <1>7, <1>8, <1>9, <1>10 DEF Handed
<1> QED BY <1>2, <1>6, <1>11 DEF h

\* Back at the beginning the whole page is to be handed out.
LEMMA Rewound ==
    ASSUME Buffered, request' = request, Rewind, Reads(0)
    PROVE  Buffered' /\ Handed' /\ HandedTo' = 0
<1> DEFINE e == <<>>
           z == <<"0">>
<1>1. /\ page' = page /\ index0' = 1 /\ index1' = 1 /\ shadow' = 0 /\ sbuf' = z /\ eof' = FALSE
      /\ filepos' = 0 /\ seekpos' = 0 /\ rbuf' = e /\ replacing' = FALSE /\ todo' = 0 /\ got' = e
  BY DEF request, Rewind, Started, Reads
<1>2. e \in Seq(Char) /\ Len(e) = 0 /\ z \in Seq(Char) /\ Len(z) = 1 /\ page \in Pages
  <2> DEFINE c == "0"
  <2>1. c \in Char
    BY DEF Char
  <2> HIDE DEF c, Char
  <2>2. <<c>> \in Seq(Char) /\ Len(<<c>>) = 1
    BY <2>1
  <2>3. page \in Pages
    BY DEF Buffered
  <2> QED BY <2>2, <2>3 DEF c
<1>3. page.file \in Seq(Char) /\ Len(page.file) \in Nat
  BY BufferFacts
<1> HIDE DEF e, z
<1>4. Behind' = 0
  <2>1. Behind' = filepos' - (Len(sbuf') - index0')
    BY DEF Behind
  <2>2. Behind' = 0 - (1 - 1)
    BY <1>1, <1>2, <2>1
  <2> QED BY <2>2
<1>5. Buffered'
  <2>1. Slice(sbuf', index0', Len(sbuf')) = Slice(page'.file, Behind', filepos')
    <3>1. 1 \in 0..Len(z) /\ 0 \in 0..Len(page.file)
      BY <1>2, <1>3
    <3>2. Slice(z, 1, 1) = <<>> /\ Slice(page.file, 0, 0) = <<>>
      BY <1>2, <1>3, <3>1, SliceEnds
    <3> QED BY <1>1, <1>2, <1>4, <3>2
  <2>2. Len(sbuf') = 1 /\ Len(sbuf') <= Window
    BY <1>1, <1>2, SizesAssumption
  <2>3. page' \in Pages /\ filepos' \in 0..Len(page'.file) /\ sbuf' \in Seq(Char)
    BY <1>1, <1>2, <1>3
  <2>4. index0' \in Nat /\ index1' \in Nat /\ shadow' \in 0..2 /\ index0' <= index1'
    BY <1>1
  <2>5. index1' + shadow' = Len(sbuf')
    BY <1>1, <2>2
  <2>6. ~(index0' < index1') /\ index1' # 0 /\ eof' = FALSE /\ Behind' \in Nat
    BY <1>1, <1>4
  <2> QED BY <2>1, <2>2, <2>3, <2>4, <2>5, <2>6 DEF Buffered
<1>6. HandedTo' = 0
  <2>1. HandedTo' = seekpos' + Len(got')
    BY DEF HandedTo
  <2> QED BY <1>1, <1>2, <2>1
<1>7. Expansion' = Expansion /\ Expanded' = Expanded
  BY <1>1, SamePage
<1>8. Expansion \in Seq(Char) /\ Len(Expansion) \in Nat /\ Expansion = Expanded[1]
  BY <1>2, ExpandedFacts
<1>9. Slice(Expansion', seekpos', HandedTo') = got'
  <2>1. 0 \in 0..Len(Expansion)
    BY <1>8
  <2>2. Slice(Expansion, 0, 0) = e
    BY <1>8, <2>1, SliceEnds DEF e
  <2> QED BY <1>1, <1>6, <1>7, <2>2
<1>10. Slice(Expansion', HandedTo', Len(Expansion')) = Cat(rbuf', Expanded'[Behind' + 1])
  <2>1. Slice(Expansion, 0, Len(Expansion)) = Expansion
    BY <1>8, SliceEnds
  <2>2. Cat(e, Expansion) = Expansion
    BY <1>2, <1>8, CatType DEF e
  <2>3. 0 + 1 = 1
    OBVIOUS
  <2> QED BY <1>1, <1>4, <1>6, <1>7, <1>8, <2>1, <2>2, <2>3
<1>11. rbuf' = <<>>
  BY <1>1 DEF e
<1>12. seekpos' \in Nat /\ todo' \in Nat /\ HandedTo' <= Len(Expansion')
  BY <1>1, <1>6, <1>7, <1>8
<1>13. Handed'
  BY <1>1, <1>2, <1>9, <1>10, <1>11, <1>12 DEF Handed
<1> QED BY <1>5, <1>6, <1>13

\* A read that wants more than it got has come to the end of the page.
LEMMA ShortIsAll ==
    ASSUME Buffered, Handed, ReadEnds, Short
    PROVE  HandedTo = Len(Expansion) /\ todo \in Nat /\ todo > 0
<1>1. todo \in Nat /\ todo > 0
  BY DEF Short, Handed
<1>2. AtEnd
  BY <1>1 DEF ReadEnds
<1> QED BY <1>1, <1>2, AllHanded

\* A block of the first pass was read.
LEMMA SizeReadsOnStep ==
    ASSUME IInv, SizeReadsOn
    PROVE  IInv'
<1>1. Buffered /\ Handed /\ PhaseInv
  BY DEF IInv
<1>2. /\ phase = "sizing" /\ request' = request /\ buffer' = buffer /\ seekpos' = HandedTo /\ got' = <<>>
      /\ todo' \in Nat /\ phase' = phase /\ size' = size /\ last' = last /\ out' = out
  BY SizesAssumption DEF SizeReadsOn, Reads, HandedTo
<1>3. Buffered' /\ Handed'
  BY <1>1, <1>2, Restarts
<1>4. range' = range /\ Expansion' = Expansion
  BY <1>2, SameRequest
<1>5. PhaseInv'
  BY <1>1, <1>2, <1>4 DEF PhaseInv, Accepted
<1> QED BY <1>3, <1>5 DEF IInv

\* The first pass ends with the size of the page, and the reader goes back.
LEMMA SizeEndsStep ==
    ASSUME IInv, SizeEnds
    PROVE  IInv'
<1>1. Buffered /\ Handed /\ PhaseInv
  BY DEF IInv
<1>2. /\ phase = "sizing" /\ request' = request /\ size' = HandedTo /\ Reads(0) /\ ReadEnds /\ Short
      /\ phase' = "configure" /\ out' = out
      /\ IF size' # 0 THEN Rewind ELSE buffer' = buffer /\ seekpos' = seekpos
  BY DEF SizeEnds, HandedTo
<1>3. HandedTo = Len(Expansion)
  BY <1>1, <1>2, ShortIsAll
<1>4. range' = range /\ Expansion' = Expansion
  BY <1>2, SameRequest
<1>5. got' = <<>> /\ todo' = 0
  BY <1>2 DEF Reads
<1>6. Buffered' /\ Handed' /\ seekpos' = 0
  <2>1. CASE size' # 0
    BY <1>1, <1>2, <2>1, Rewound DEF Rewind
  <2>2. CASE size' = 0
    <3>1. HandedTo = 0 /\ seekpos \in 0..HandedTo
      BY <1>1, <1>2, <2>2, HandedFacts
    <3>2. seekpos' = HandedTo /\ seekpos' = 0
      BY <1>2, <2>2, <3>1
    <3> QED BY <1>1, <1>2, <1>5, <2>2, <3>2, Restarts
  <2> QED BY <2>1, <2>2
<1>7. PhaseInv'
  BY <1>1, <1>2, <1>3, <1>4, <1>5, <1>6 DEF PhaseInv, Accepted
<1> QED BY <1>6, <1>7 DEF IInv

\* A range that is asked for does not end before it begins.
LEMMA RangeFacts ==
    ASSUME range \in Ranges, Partial
    PROVE  /\ range[1] \in Nat /\ range[2] \in Nat \cup {Eof}
           /\ (range[2] # Eof => range[2] \in Nat /\ range[1] <= range[2])
  BY RangesAssumption DEF Partial

\* The range is accepted or refused by the size that was found.
LEMMA RangeChecked ==
    ASSUME range \in Ranges, Partial, NEW n \in Nat, Len(Expansion) = n, size = n
    PROVE  /\ RangeEnd \in Nat
           /\ Satisfiable <=> ~(Beyond(RangeEnd) \/ range[1] > RangeEnd)
           /\ ~Beyond(RangeEnd) <=> RangeEnd < n
<1> DEFINE a == range[1]
           b == range[2]
           e == RangeEnd
<1>1. a \in Nat /\ (b # Eof => b \in Nat /\ a <= b)
  BY RangeFacts
<1>2. e = IF b # Eof THEN b ELSE IF n = 0 THEN 0 ELSE n - 1
  BY DEF RangeEnd
<1>3. Beyond(e) <=> e >= n
  BY DEF Beyond
<1>4. Satisfiable <=> a < n /\ (b = Eof \/ b < n)
  BY DEF Satisfiable
<1> HIDE DEF a, b, e
<1>5. e \in Nat
  BY <1>1, <1>2
<1>6. CASE b # Eof
  BY <1>1, <1>2, <1>3, <1>4, <1>6 DEF e, a
<1>7. CASE b = Eof
  BY <1>1, <1>2, <1>3, <1>4, <1>7 DEF e, a
<1>8. ~Beyond(e) <=> e < n
  BY <1>3, <1>5
<1> QED BY <1>5, <1>6, <1>7, <1>8 DEF e, a

\* The size decides on the part that is asked for.
LEMMA ConfigureStep ==
    ASSUME IInv, Configure
    PROVE  IInv'
<1> DEFINE n == Len(Expansion)
           a == range[1]
           e == RangeEnd
<1>1. Buffered /\ Handed /\ PhaseInv
  BY DEF IInv
<1>2. /\ range # Chunked /\ out = <<>> /\ size = n /\ seekpos = 0 /\ got = <<>> /\ todo = 0 /\ range \in Ranges
  BY <1>1 DEF Configure, PhaseInv
<1>3. /\ request' = request /\ buffer' = buffer /\ seekpos' = 0 /\ got' = <<>> /\ size' = size /\ out' = <<>>
  BY <1>2 DEF Configure
<1>4. /\ range' = range /\ Expansion' = Expansion /\ (Partial' <=> Partial) /\ First' = First
      /\ (Satisfiable' <=> Satisfiable)
  BY <1>3, SameRequest
<1>5. HandedTo = 0 /\ n \in Nat /\ Expansion \in Seq(Char)
  <2>1. HandedTo = 0 + 0
    BY <1>2 DEF HandedTo
  <2> QED BY <1>1, <2>1, HandedFacts
<1>6. ASSUME todo' \in Nat
      PROVE  Buffered' /\ Handed' /\ HandedTo' = 0
  BY <1>1, <1>3, <1>5, <1>6, Restarts
<1>7. Slice(Expansion, 0, 0) = <<>>
  <2>1. 0 \in 0..n
    BY <1>5
  <2> QED BY <1>5, <2>1, SliceEnds
<1>8. CASE ~Partial
  <2>1. last' = n - 1 /\ phase' = "send" /\ todo' = 0
    BY <1>2, <1>8 DEF Configure
  <2>2. Buffered' /\ Handed' /\ HandedTo' = 0
    BY <1>6, <2>1
  <2>3. End' = n /\ First' = 0
    <3>1. End' = last' + 1
      BY <1>2, <1>4 DEF End
    <3>2. First' = 0
      BY <1>4, <1>8 DEF First
    <3> QED BY <1>5, <2>1, <3>1, <3>2
  <2>4. Accepts'
    <3>1. last' \in Int /\ End' \in 0..n /\ First' \in 0..End'
      BY <1>5, <2>1, <2>3
    <3> QED BY <1>2, <1>3, <1>4, <1>8, <2>3, <3>1 DEF Accepts
  <2>5. First' <= seekpos' /\ HandedTo' + todo' <= End' /\ HandedTo' <= End'
    BY <1>3, <1>5, <2>1, <2>2, <2>3
  <2>6. out' = Slice(Expansion', First', seekpos')
    BY <1>3, <1>4, <1>7, <2>3
  <2>7. PhaseInv'
    BY <1>2, <1>3, <1>4, <2>1, <2>4, <2>5, <2>6 DEF PhaseInv, Accepted
  <2> QED BY <2>2, <2>7 DEF IInv
<1>9. CASE Partial
  <2>1. /\ e \in Nat /\ (Satisfiable <=> ~(Beyond(e) \/ a > e)) /\ (~Beyond(e) <=> e < n)
    BY <1>2, <1>5, <1>9, RangeChecked
  <2>2. a \in Nat /\ First = a
    BY <1>2, <1>9, RangeFacts DEF First
  <2>3. last' = e
    BY <1>9 DEF Configure
  <2>4. CASE Beyond(e) \/ a > e
    <3>1. phase' = "refused" /\ todo' = 0
      BY <1>2, <1>9, <2>4 DEF Configure
    <3>2. Buffered' /\ Handed'
      BY <1>6, <3>1
    <3>3. PhaseInv'
      BY <1>2, <1>3, <1>4, <2>1, <2>4, <3>1 DEF PhaseInv, Accepted
    <3> QED BY <3>2, <3>3 DEF IInv
  <2>5. CASE ~(Beyond(e) \/ a > e)
    <3>1. a <= e /\ e < n /\ Satisfiable
      BY <2>1, <2>2, <2>5
    <3>2. End' = e + 1 /\ First' = a
      BY <1>2, <1>4, <2>2, <2>3 DEF End
    <3> HIDE DEF n, a, e
    <3>3. Accepts'
      <4>1. a <= last' /\ last' \in Int /\ End' \in 0..n /\ First' \in 0..End'
        BY <1>5, <2>1, <2>2, <2>3, <3>1, <3>2
      <4> QED BY <1>2, <1>3, <1>4, <1>9, <3>1, <4>1 DEF Accepts, n, a
    <3>4. CASE a = 0
      <4>1. phase' = "send" /\ todo' = 0
        BY <1>2, <1>9, <2>5, <3>4 DEF Configure, a, e
      <4>2. Buffered' /\ Handed' /\ HandedTo' = 0
        BY <1>6, <4>1
      <4>3. First' <= seekpos' /\ HandedTo' + todo' <= End' /\ HandedTo' <= End'
        BY <1>3, <2>1, <3>2, <3>4, <4>1, <4>2
      <4>4. out' = Slice(Expansion', First', seekpos')
        BY <1>3, <1>4, <1>7, <3>2, <3>4
      <4>5. PhaseInv'
        BY <1>2, <1>3, <1>4, <3>3, <4>1, <4>3, <4>4 DEF PhaseInv, Accepted, n
      <4> QED BY <4>2, <4>5 DEF IInv
    <3>5. CASE a # 0
      <4>1. phase' = "seeking" /\ todo' = Smaller(SeekBlock, a)
        BY <1>2, <1>9, <2>5, <3>5 DEF Configure, a, e
      <4>2. todo' \in Nat /\ todo' <= a
        BY <2>2, <4>1, SmallerFacts, SizesAssumption
      <4>3. Buffered' /\ Handed' /\ HandedTo' = 0
        BY <1>6, <4>2
      <4>4. HandedTo' + todo' <= First' /\ seekpos' < First'
        <5> DEFINE t == todo'
        <5>1. t \in Nat /\ t <= a
          BY <4>2
        <5> HIDE DEF t
        <5>2. 0 + t <= a /\ 0 < a
          BY <2>2, <3>5, <5>1
        <5> QED BY <1>3, <3>2, <4>3, <5>2 DEF t
      <4>5. PhaseInv'
        BY <1>2, <1>3, <1>4, <1>9, <3>3, <4>1, <4>4 DEF PhaseInv, Accepted, n
      <4> QED BY <4>3, <4>5 DEF IInv
    <3> QED BY <3>4, <3>5
  <2> QED BY <2>4, <2>5
<1> QED BY <1>8, <1>9

\* What an accepted range says of its end.
LEMMA AcceptedFacts ==
    ASSUME Buffered, Handed, PhaseInv, Accepts
    PROVE  /\ End \in Nat /\ End <= Len(Expansion) /\ First \in Nat /\ First <= End
           /\ HandedTo \in Nat /\ HandedTo <= Len(Expansion) /\ seekpos \in Nat /\ seekpos <= HandedTo
           /\ Len(Expansion) \in Nat /\ Expansion \in Seq(Char)
<1>1. /\ Len(Expansion) \in Nat /\ Expansion \in Seq(Char) /\ HandedTo \in 0..Len(Expansion)
      /\ seekpos \in 0..HandedTo
  BY HandedFacts
<1>2. End \in 0..Len(Expansion) /\ First \in 0..End
  BY DEF Accepts
<1> QED BY <1>1, <1>2

\* A block before the part asked for was read: the page cannot end in it.
LEMMA SeekReadsOnStep ==
    ASSUME IInv, SeekReadsOn
    PROVE  IInv'
<1> DEFINE h == HandedTo
           a == First
<1>1. Buffered /\ Handed /\ PhaseInv
  BY DEF IInv
<1>2. /\ phase = "seeking" /\ request' = request /\ buffer' = buffer /\ seekpos' = h
      /\ size' = size /\ last' = last /\ out' = out /\ ReadEnds
  BY DEF SeekReadsOn, HandedTo
<1>3. Partial /\ Accepts /\ out = <<>> /\ h + todo <= a /\ seekpos < a /\ a = range[1]
  BY <1>1, <1>2 DEF PhaseInv, First
<1>4. /\ End \in Nat /\ End <= Len(Expansion) /\ a \in Nat /\ a <= End /\ h \in Nat
      /\ Len(Expansion) \in Nat /\ Expansion \in Seq(Char)
  BY <1>1, <1>3, AcceptedFacts
<1>5. /\ range' = range /\ Expansion' = Expansion /\ (Partial' <=> Partial) /\ First' = First
      /\ (Satisfiable' <=> Satisfiable) /\ End' = End /\ (Accepts' <=> Accepts)
  BY <1>2, SameRequest
<1>6. ASSUME todo' \in Nat, got' = <<>>
      PROVE  Buffered' /\ Handed' /\ HandedTo' = h
  BY <1>1, <1>2, <1>6, Restarts
<1>7. ~Short /\ h <= a
  <2>1. todo \in Nat
    BY <1>1 DEF Handed
  <2>2. h <= a
    BY <1>3, <1>4, <2>1
  <2>3. ASSUME Short PROVE FALSE
    <3>1. h = Len(Expansion) /\ todo > 0
      BY <1>1, <1>2, <2>3, ShortIsAll
    <3> QED BY <1>3, <1>4, <2>1, <3>1
  <2> QED BY <2>2, <2>3
<1> HIDE DEF h, a
<1>8. CASE h = a
  <2>1. todo' = 0 /\ got' = <<>> /\ phase' = "send"
    BY <1>2, <1>3, <1>7, <1>8 DEF SeekReadsOn, Reads
  <2>2. Buffered' /\ Handed' /\ HandedTo' = h
    BY <1>6, <2>1
  <2>3. Slice(Expansion, a, a) = <<>>
    <3>1. a \in 0..Len(Expansion)
      BY <1>4
    <3> QED BY <1>4, <3>1, SliceEnds
  <2>4. First' <= seekpos' /\ HandedTo' + todo' <= End' /\ HandedTo' <= End'
    BY <1>2, <1>4, <1>5, <1>8, <2>1, <2>2 DEF a
  <2>5. out' = Slice(Expansion', First', seekpos')
    BY <1>2, <1>3, <1>5, <1>8, <2>3 DEF a
  <2>6. PhaseInv'
    BY <1>1, <1>2, <1>3, <1>5, <2>1, <2>4, <2>5 DEF PhaseInv, Accepted
  <2> QED BY <2>2, <2>6 DEF IInv
<1>9. CASE h # a
  <2>1. todo' = Smaller(SeekBlock, a - h) /\ got' = <<>> /\ phase' = phase
    BY <1>2, <1>3, <1>7, <1>9 DEF SeekReadsOn, Reads
  <2>2. todo' \in Nat /\ todo' <= a - h
    <3>1. a - h \in Nat
      BY <1>4, <1>7
    <3> QED BY <2>1, <3>1, SmallerFacts, SizesAssumption
  <2>3. Buffered' /\ Handed' /\ HandedTo' = h
    BY <1>6, <2>1, <2>2
  <2>4. HandedTo' + todo' <= First' /\ seekpos' < First'
    <3> DEFINE t == todo'
    <3>1. t \in Nat /\ t <= a - h
      BY <2>2
    <3> HIDE DEF t
    <3>2. h + t <= a /\ h < a
      BY <1>4, <1>7, <1>9, <3>1
    <3> QED BY <1>2, <1>5, <2>3, <3>2 DEF a, t
  <2>5. PhaseInv'
    BY <1>1, <1>2, <1>3, <1>5, <2>1, <2>4 DEF PhaseInv, Accepted
  <2> QED BY <2>3, <2>5 DEF IInv
<1> QED BY <1>8, <1>9

\* The next buffer is filled, of not more than is left, or the response has ended.
LEMMA SendStep ==
    ASSUME IInv, Send
    PROVE  IInv'
<1> DEFINE h == HandedTo
           a == First
           e == End
<1>1. Buffered /\ Handed /\ PhaseInv
  BY DEF IInv
<1>2. /\ phase = "send" /\ request' = request /\ buffer' = buffer /\ seekpos' = seekpos
      /\ size' = size /\ last' = last /\ out' = out
  BY DEF Send
<1>3. /\ Accepts /\ a <= seekpos /\ out = Slice(Expansion, a, seekpos) /\ got = <<>> /\ todo = 0 /\ h <= e
  BY <1>1, <1>2 DEF PhaseInv, Accepted
<1>4. /\ e \in Nat /\ e <= Len(Expansion) /\ a \in Nat /\ a <= e /\ h \in Nat /\ seekpos \in Nat
      /\ Len(Expansion) \in Nat /\ Expansion \in Seq(Char)
  BY <1>1, <1>3, AcceptedFacts
<1>5. h = seekpos
  <2>1. h = seekpos + 0
    BY <1>3 DEF HandedTo
  <2> QED BY <1>4, <2>1
<1>6. /\ range' = range /\ Expansion' = Expansion /\ (Partial' <=> Partial) /\ First' = First
      /\ (Satisfiable' <=> Satisfiable) /\ End' = End /\ (Accepts' <=> Accepts)
  BY <1>2, SameRequest
<1>7. ASSUME todo' \in Nat, got' = <<>>
      PROVE  Buffered' /\ Handed' /\ HandedTo' = h
  BY <1>1, <1>2, <1>5, <1>7, Restarts
<1>8. ASSUME range # Chunked
      PROVE  Left = e - h
  <2>1. e = last + 1 /\ last \in Int
    BY <1>3, <1>8 DEF End, Accepts
  <2>2. Len(out) = h - a
    <3>1. h \in 0..Len(Expansion) /\ a \in 0..h
      BY <1>3, <1>4, <1>5
    <3> HIDE DEF h, a
    <3> QED BY <1>3, <1>4, <1>5, <3>1, SliceProperties
  <2>3. Left = last - a + 1 - Len(out)
    BY DEF Left
  <2> HIDE DEF e, h, a
  <2> QED BY <1>4, <2>1, <2>2, <2>3
<1> HIDE DEF h, a, e
<1>9. CASE range # Chunked /\ Left = 0
  <2>1. phase' = "sent" /\ todo' = 0 /\ got' = <<>>
    BY <1>3, <1>9 DEF Send
  <2>2. Buffered' /\ Handed' /\ HandedTo' = h
    BY <1>7, <2>1
  <2>3. seekpos = e
    BY <1>4, <1>5, <1>8, <1>9
  <2>4. /\ First' <= seekpos' /\ HandedTo' + todo' <= End' /\ HandedTo' <= End' /\ seekpos' = End'
        /\ out' = Slice(Expansion', First', seekpos')
    BY <1>2, <1>3, <1>4, <1>5, <1>6, <2>1, <2>2, <2>3 DEF a, e
  <2>5. PhaseInv'
    BY <1>1, <1>2, <1>3, <1>6, <2>1, <2>4 DEF PhaseInv, Accepted
  <2> QED BY <2>2, <2>5 DEF IInv
<1>10. CASE ~(range # Chunked /\ Left = 0)
  <2>1. PICK m \in ReadSizes : Reads(IF range = Chunked THEN m ELSE Smaller(m, Left))
    BY <1>10 DEF Send
  <2>2. phase' = "sending" /\ got' = <<>> /\ todo' = IF range = Chunked THEN m ELSE Smaller(m, Left)
    BY <1>10, <2>1 DEF Send, Reads
  <2>3. m \in Nat
    BY SizesAssumption
  <2>4. todo' \in Nat /\ (range # Chunked => h + todo' <= e)
    <3>1. CASE range = Chunked
      BY <2>2, <2>3, <3>1
    <3>2. CASE range # Chunked
      <4> DEFINE t == todo'
                 l == Left
      <4>1. l = e - h /\ l \in Nat
        BY <1>3, <1>4, <1>8, <3>2
      <4>2. t = Smaller(m, l)
        BY <2>2, <3>2
      <4> HIDE DEF t, l
      <4>3. t \in Nat /\ t <= l
        BY <2>3, <4>1, <4>2, SmallerFacts
      <4>4. h + t <= e
        BY <1>4, <4>1, <4>3
      <4> QED BY <4>3, <4>4 DEF t
    <3> QED BY <3>1, <3>2
  <2>5. Buffered' /\ Handed' /\ HandedTo' = h
    BY <1>7, <2>2, <2>4
  <2>6. First' <= seekpos' /\ HandedTo' <= End' /\ out' = Slice(Expansion', First', seekpos')
    BY <1>2, <1>3, <1>6, <2>5 DEF a, e
  <2>7. range # Chunked => HandedTo' + todo' <= End'
    BY <1>6, <2>4, <2>5 DEF e
  <2>8. PhaseInv'
    BY <1>1, <1>2, <1>3, <1>6, <2>2, <2>6, <2>7 DEF PhaseInv, Accepted
  <2> QED BY <2>5, <2>8 DEF IInv
<1> QED BY <1>9, <1>10

\* A buffer was sent: what was read is behind what was sent before.
LEMMA SentStep ==
    ASSUME IInv, Sent
    PROVE  IInv'
<1> DEFINE h == HandedTo
           a == First
           e == End
           E == Expansion
<1>1. Buffered /\ Handed /\ PhaseInv
  BY DEF IInv
<1>2. /\ phase = "sending" /\ request' = request /\ buffer' = buffer /\ seekpos' = h
      /\ size' = size /\ last' = last /\ out' = Cat(out, got) /\ ReadEnds /\ todo' = 0 /\ got' = <<>>
      /\ phase' \in {"send", "sent", "hung"} /\ (phase' = "sent" => range = Chunked /\ Short)
  BY DEF Sent, Reads, HandedTo, Cat
<1>3. /\ Accepts /\ a <= seekpos /\ out = Slice(E, a, seekpos) /\ h <= e
  BY <1>1, <1>2 DEF PhaseInv, Accepted
<1>4. /\ e \in Nat /\ e <= Len(E) /\ a \in Nat /\ a <= e /\ h \in Nat /\ seekpos \in Nat /\ seekpos <= h
      /\ Len(E) \in Nat /\ E \in Seq(Char)
  BY <1>1, <1>3, AcceptedFacts
<1>5. /\ range' = range /\ E' = E /\ (Partial' <=> Partial) /\ First' = First
      /\ (Satisfiable' <=> Satisfiable) /\ End' = End /\ (Accepts' <=> Accepts)
  BY <1>2, SameRequest
<1>6. Buffered' /\ Handed' /\ HandedTo' = h
  BY <1>1, <1>2, Restarts
<1>7. got = Slice(E, seekpos, h)
  BY <1>1 DEF Handed
<1>8. phase' = "sent" => h = e
  <2>1. ASSUME range = Chunked, Short PROVE h = e
    <3>1. h = Len(E)
      BY <1>1, <1>2, <2>1, ShortIsAll
    <3>2. e = Len(E)
      BY <2>1 DEF End
    <3> QED BY <3>1, <3>2
  <2> QED BY <1>2, <2>1
<1> HIDE DEF h, a, e, E
<1>9. out' = Slice(E, a, h)
  <2>1. h \in 0..Len(E) /\ seekpos \in 0..h /\ a \in 0..seekpos
    BY <1>3, <1>4
  <2>2. Cat(Slice(E, a, seekpos), Slice(E, seekpos, h)) = Slice(E, a, h)
    BY <1>4, <2>1, SliceJoin
  <2> QED BY <1>2, <1>3, <1>7, <2>2
<1>10. a <= h /\ h + 0 <= e
  BY <1>3, <1>4
<1>11. /\ First' <= seekpos' /\ HandedTo' + todo' <= End' /\ HandedTo' <= End'
       /\ out' = Slice(Expansion', First', seekpos') /\ (phase' = "sent" => seekpos' = End')
  <2>1. First' = a /\ seekpos' = h /\ HandedTo' = h /\ End' = e /\ todo' = 0
    BY <1>2, <1>5, <1>6 DEF a, e
  <2>2. First' <= seekpos' /\ HandedTo' + todo' <= End' /\ HandedTo' <= End'
    BY <1>4, <1>10, <2>1
  <2>3. out' = Slice(Expansion', First', seekpos')
    BY <1>5, <1>9, <2>1 DEF E
  <2> QED BY <1>8, <2>1, <2>2, <2>3
<1>12. PhaseInv'
  BY <1>1, <1>2, <1>3, <1>5, <1>11 DEF PhaseInv, Accepted, E
<1> QED BY <1>6, <1>12 DEF IInv

-----------------------------------------------------------------------------
(* The theorems                                                            *)

\* The reader begins at the beginning of the page.
LEMMA InitInv == Init => IInv
<1> SUFFICES ASSUME Init PROVE IInv
  OBVIOUS
<1> DEFINE e == <<>>
           c == "0"
           z == <<c>>
           n == Len(Expansion)
<1>1. /\ page \in Pages /\ range \in Ranges /\ filepos = 0 /\ sbuf = z /\ index0 = 1 /\ index1 = 1
      /\ shadow = 0 /\ eof = FALSE /\ rbuf = e /\ replacing = FALSE /\ seekpos = 0 /\ got = e
      /\ size = Unknown /\ out = e
      /\ todo = (IF range = Chunked THEN 0 ELSE SeekBlock)
      /\ phase = (IF range = Chunked THEN "send" ELSE "sizing")
  BY DEF Init
<1>2. c \in Char /\ e \in Seq(Char) /\ Len(e) = 0
  BY DEF Char
<1>3. page.file \in Seq(Char) /\ Len(page.file) \in Nat
  BY <1>1, PageFacts
<1>4. Expansion \in Seq(Char) /\ n \in Nat /\ Expansion = Expanded[1]
  BY <1>1, ExpandedFacts
<1> HIDE DEF c, e, n
<1>5. z \in Seq(Char) /\ Len(z) = 1
  BY <1>2
<1> HIDE DEF z
<1>6. Behind = 0 /\ HandedTo = 0
  BY <1>1, <1>2, <1>5 DEF Behind, HandedTo
<1>7. Slice(z, 1, 1) = e /\ Slice(page.file, 0, 0) = e /\ Slice(Expansion, 0, 0) = e /\ Slice(Expansion, 0, n) = Expansion
  <2>1. 1 \in 0..Len(z) /\ 0 \in 0..Len(page.file) /\ 0 \in 0..n
    BY <1>3, <1>4, <1>5
  <2> QED BY <1>3, <1>4, <1>5, <2>1, SliceEnds DEF e, n
<1>8. Buffered
  <2>1. Slice(sbuf, index0, Len(sbuf)) = Slice(page.file, Behind, filepos)
    BY <1>1, <1>5, <1>6, <1>7
  <2>2. index1 + shadow = Len(sbuf) /\ Len(sbuf) <= Window
    BY <1>1, <1>5, SizesAssumption
  <2>3. filepos \in 0..Len(page.file) /\ Behind \in Nat /\ sbuf \in Seq(Char) /\ shadow \in 0..2
    BY <1>1, <1>3, <1>5, <1>6
  <2>4. index0 \in Nat /\ index1 \in Nat /\ index0 = index1 /\ index1 # 0 /\ eof = FALSE
    BY <1>1
  <2>5. index0 <= index1 /\ ~(index0 < index1)
    BY <2>4
  <2> QED BY <1>1, <2>1, <2>2, <2>3, <2>4, <2>5 DEF Buffered
<1>9. Handed
  <2>1. Slice(Expansion, HandedTo, Len(Expansion)) = Cat(rbuf, Expanded[Behind + 1])
    <3>1. Cat(e, Expansion) = Expansion
      BY <1>2, <1>4, CatType DEF e
    <3>2. 0 + 1 = 1
      OBVIOUS
    <3> QED BY <1>1, <1>4, <1>6, <1>7, <3>1, <3>2 DEF n
  <2>2. Slice(Expansion, seekpos, HandedTo) = got
    BY <1>1, <1>6, <1>7
  <2>3. todo \in Nat /\ HandedTo <= Len(Expansion) /\ seekpos \in Nat
    BY <1>1, <1>4, <1>6, SizesAssumption DEF n
  <2>4. got \in Seq(Char) /\ rbuf \in Seq(Char) /\ rbuf = <<>>
    BY <1>1, <1>2 DEF e
  <2> QED BY <1>1, <2>1, <2>2, <2>3, <2>4 DEF Handed
<1>10. PhaseInv
  <2>1. CASE range = Chunked
    <3>1. ~Partial /\ First = 0 /\ End = n
      BY <2>1 DEF Partial, First, End, n
    <3>2. 0 \in 0..n /\ n \in 0..n
      BY <1>4
    <3>3. Accepts
      BY <2>1, <3>1, <3>2 DEF Accepts, Satisfiable, n
    <3>4. out = Slice(Expansion, First, seekpos) /\ First <= seekpos /\ HandedTo <= End /\ todo = 0
      BY <1>1, <1>4, <1>6, <1>7, <2>1, <3>1
    <3> QED BY <1>1, <2>1, <3>3, <3>4 DEF PhaseInv, Accepted, e
  <2>2. CASE range # Chunked
    BY <1>1, <2>2 DEF PhaseInv, Accepted, e
  <2> QED BY <2>1, <2>2
<1> QED BY <1>8, <1>9, <1>10 DEF IInv

\* One step of the response, or none.
LEMMA NextStep == IInv /\ [Next]_vars => IInv'
<1> SUFFICES ASSUME IInv, [Next]_vars PROVE IInv'
  OBVIOUS
<1>1. Buffered /\ Handed /\ PhaseInv
  BY DEF IInv
<1>2. ASSUME Reading, SearchUnchanged, Buffered', Handed',
             HandedTo' + todo' = HandedTo + todo, HandedTo' >= HandedTo
      PROVE  IInv'
  BY <1>1, <1>2, ReadKeeps DEF IInv
<1>3. CASE ReadReplacement
  <2>1. Reading /\ SearchUnchanged
    BY <1>3 DEF ReadReplacement, SearchUnchanged, request
  <2> QED BY <1>1, <1>2, <1>3, <2>1, ReplacementStep
<1>4. CASE ReadFill
  <2>1. Reading /\ SearchUnchanged
    BY <1>4 DEF ReadFill, Searching
  <2> QED BY <1>1, <1>2, <1>4, <2>1, FillStep
<1>5. CASE ReadTag
  <2>1. Reading /\ SearchUnchanged
    BY <1>5 DEF ReadTag, Searching
  <2> QED BY <1>1, <1>2, <1>5, <2>1, TagStep
<1>6. CASE ReadByte
  <2>1. Reading /\ SearchUnchanged
    BY <1>6 DEF ReadByte, Searching
  <2> QED BY <1>1, <1>2, <1>6, <2>1, ByteStep
<1>7. CASE UNCHANGED vars
  <2>1. /\ request' = request /\ BufferSame /\ rbuf' = rbuf /\ replacing' = replacing /\ seekpos' = seekpos
        /\ todo' = todo /\ got' = got /\ phase' = phase /\ size' = size /\ last' = last /\ out' = out
    BY <1>7 DEF vars, request, buffer, BufferSame
  <2>2. page' = page /\ range' = range /\ Expansion' = Expansion /\ Expanded' = Expanded
    BY <2>1, SamePage DEF request
  <2>3. Buffered' /\ Behind' = Behind
    BY <1>1, <2>1, BufferStays
  <2>4. HandedTo' = HandedTo
    BY <2>1 DEF HandedTo
  <2>5. Handed'
    BY <1>1, <2>1, <2>2, <2>3, <2>4 DEF Handed
  <2>6. /\ (Partial' <=> Partial) /\ First' = First /\ (Satisfiable' <=> Satisfiable)
        /\ End' = End /\ (Accepts' <=> Accepts)
    BY <2>1, SameRequest
  <2>7. PhaseInv'
    BY <1>1, <2>1, <2>2, <2>4, <2>6 DEF PhaseInv, Accepted
  <2> QED BY <2>3, <2>5, <2>7 DEF IInv
<1>8. CASE SizeReadsOn \/ SizeEnds \/ Configure \/ SeekReadsOn \/ Send \/ Sent
  BY <1>8, SizeReadsOnStep, SizeEndsStep, ConfigureStep, SeekReadsOnStep, SendStep, SentStep
<1> QED BY <1>3, <1>4, <1>5, <1>6, <1>7, <1>8 DEF Next

\* The invariant of the response holds, in all its three passes over the page.
THEOREM SpecPage == Spec => []IInv
  BY InitInv, NextStep, PTL DEF Spec

\* TypeOK: the indices of the search buffer say what it holds, whatever was read into it
\* and skipped in it, and the buffer is never fuller than the code allocates it
\* (shift_and_fill_sbuf and elysian_resource_read_dynamic, resource.c:113-287).
THEOREM PageTypes == Spec => []TypeOK
<1>1. IInv => TypeOK
  <2> SUFFICES ASSUME IInv PROVE TypeOK
    OBVIOUS
  <2>1. Buffered /\ Handed /\ PhaseInv
    BY DEF IInv
  <2>2. index0 \in 0..index1
    BY <2>1 DEF Buffered
  <2> QED BY <2>1, <2>2 DEF Buffered, Handed, PhaseInv, TypeOK
<1> QED BY <1>1, SpecPage, PTL

\* SizeExact: elysian_resource_size_dynamic (resource.c:123-155) finds the size of the
\* expanded page, whatever tags and values the blocks it reads end in.
THEOREM PageSizeExact == Spec => []SizeExact
<1>1. IInv => SizeExact
  BY DEF IInv, PhaseInv, SizeExact
<1> QED BY <1>1, SpecPage, PTL

\* The part asked for is what is between its first byte and its end.
LEMMA PartIs ==
    ASSUME IInv, Accepts
    PROVE  Part = Slice(Expansion, First, End)
<1>1. Expansion \in Seq(Char) /\ Slice(Expansion, 0, Len(Expansion)) = Expansion
  <2>1. Expansion \in Seq(Char)
    BY HandedFacts DEF IInv
  <2> QED BY <2>1, SliceEnds
<1>2. CASE Partial
  BY <1>2 DEF Part, Slice, First, End, Partial
<1>3. CASE ~Partial
  BY <1>1, <1>3 DEF Part, First, Accepts
<1> QED BY <1>2, <1>3

\* SentExact: what elysian_state_http_response_send (elysian.c:1010-1108) sends is the
\* part asked for of the expanded page, for every size of its buffers and of the blocks of
\* the seek, and elysian_mvc_post_configure (mvc.c:259-318) refuses exactly the ranges the
\* page does not have.
THEOREM PageSentExact == Spec => []SentExact
<1>1. IInv => SentExact
  <2> SUFFICES ASSUME IInv PROVE SentExact
    OBVIOUS
  <2> DEFINE E == Expansion
             a == First
             b == seekpos
             e == End
  <2>1. Buffered /\ Handed /\ PhaseInv
    BY DEF IInv
  <2>2. phase = "refused" => ~Satisfiable
    BY <2>1 DEF PhaseInv
  <2>3. ASSUME Accepted
        PROVE  Satisfiable /\ IsPrefix(out, Part) /\ (phase = "sent" => out = Part)
    <3>1. /\ Accepts /\ Satisfiable /\ a <= b /\ out = Slice(E, a, b) /\ HandedTo <= e
          /\ (phase = "sent" => b = e)
      <4>1. Accepts /\ a <= b /\ out = Slice(E, a, b) /\ HandedTo <= e /\ (phase = "sent" => b = e)
        BY <2>1, <2>3 DEF PhaseInv
      <4>2. Satisfiable
        BY <4>1 DEF Accepts, Satisfiable
      <4> QED BY <4>1, <4>2
    <3>2. Part = Slice(E, a, e)
      BY <3>1, PartIs
    <3>3. /\ e \in Nat /\ e <= Len(E) /\ a \in Nat /\ a <= e /\ HandedTo \in Nat
          /\ b \in Nat /\ b <= HandedTo /\ Len(E) \in Nat /\ E \in Seq(Char)
      BY <2>1, <3>1, AcceptedFacts
    <3> HIDE DEF E, a, b, e
    <3>4. b <= e
      BY <3>1, <3>3
    <3>5. e \in 0..Len(E) /\ a \in 0..e /\ b \in 0..Len(E) /\ a \in 0..b /\ 0 \in 0..(b - a) /\ b - a \in 0..(e - a) /\ b - a \in Nat
      BY <3>1, <3>3, <3>4
    <3>6. Len(out) = b - a /\ Len(Part) = e - a /\ out \in Seq(Char)
      <4>1. Slice(E, a, b) \in Seq(Char) /\ Len(Slice(E, a, b)) = b - a
        BY <3>3, <3>5, SliceProperties
      <4>2. Len(Slice(E, a, e)) = e - a
        BY <3>3, <3>5, SliceProperties
      <4> QED BY <3>1, <3>2, <4>1, <4>2
    <3>7. Slice(Part, 0, b - a) = Slice(E, a, b)
      <4>1. Slice(Slice(E, a, e), 0, b - a) = Slice(E, a + 0, a + (b - a))
        BY <3>3, <3>5, SliceOfSlice
      <4>2. a + 0 = a /\ a + (b - a) = b
        BY <3>3
      <4> QED BY <3>2, <4>1, <4>2
    <3>8. Slice(out, 0, Len(out)) = out
      BY <3>6, SliceEnds
    <3>9. SubSeq(out, 1, Len(out)) = SubSeq(Part, 1, Len(out))
      <4>1. Slice(out, 0, b - a) = Slice(Part, 0, b - a)
        BY <3>1, <3>6, <3>7, <3>8
      <4>2. 0 + 1 = 1
        OBVIOUS
      <4> QED BY <3>6, <4>1, <4>2 DEF Slice
    <3>10. Len(out) <= Len(Part)
      BY <3>3, <3>4, <3>6
    <3>11. IsPrefix(out, Part)
      BY <3>9, <3>10 DEF IsPrefix
    <3> QED BY <3>1, <3>2, <3>11
  <2> QED BY <2>2, <2>3 DEF SentExact
<1> QED BY <1>1, SpecPage, PTL
==============================================================================
