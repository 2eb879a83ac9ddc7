--------------------------- MODULE WebsocketProofs ---------------------------
(***************************************************************************)
(* Theorems about a connection in the websocket state, for every stream of *)
(* bytes, every size of the pieces it arrives in, every lack of memory and *)
(* every behaviour of the application. The reference is FrameFormat: what  *)
(* the stream is as a whole. The invariant says how far into which frame   *)
(* of the stream the processor has come, which frames wait in the queue,   *)
(* and how many of the calls the handled ones were.                        *)
(***************************************************************************)
EXTENDS Websocket, DataLemmas

-----------------------------------------------------------------------------
(* The format of frames                                                     *)

\* Numbers made of bytes.
LEMMA NextDigit == \A x, y \in Nat : 256 * x + y \in Nat
  OBVIOUS

\* They are numbers.
LEMMA NumberTypes ==
    ASSUME NEW b, b[1] \in Byte, b[2] \in Byte
    PROVE  /\ Number16(b) \in Nat
           /\ b[3] \in Byte /\ b[4] \in Byte => Number32(b) \in Nat
  <1>. DEFINE x == 256 * b[1] + b[2]
             y == 256 * x + b[3]
  <1>1. Byte \subseteq Nat  BY DEF Byte
  <1>2. x \in Nat  BY <1>1, NextDigit
  <1>. HIDE DEF x
  <1>3. b[3] \in Byte => y \in Nat  BY <1>1, <1>2, NextDigit
  <1>. HIDE DEF y
  <1>4. b[3] \in Byte /\ b[4] \in Byte => 256 * y + b[4] \in Nat  BY <1>1, <1>3, NextDigit
  <1>5. Number16(b) = x /\ Number32(b) = 256 * y + b[4]  BY DEF x, y, Number16, Number32
  <1>. QED  BY <1>2, <1>4, <1>5

\* The parts of the first two bytes.
LEMMA ByteParts == \A x \in Byte : x % 16 \in 0..15 /\ x % 128 \in 0..127
  BY DEF Byte

\* What the first two bytes of a frame say.
LEMMA HeadFacts ==
    ASSUME NEW s \in Seq(Byte), NEW p \in Nat, p + 2 <= Len(s)
    PROVE  /\ Len(s) \in Nat /\ s[p + 1] \in Byte /\ s[p + 2] \in Byte /\ Opcode(s, p) \in 0..15
           /\ Len7(s, p) \in 0..127
           /\ KeyAt(s, p) \in Nat /\ DataAt(s, p) = KeyAt(s, p) + 4
           /\ KeyAt(s, p) = IF Len7(s, p) < 126 THEN p + 2 ELSE IF Len7(s, p) = 126 THEN p + 4 ELSE p + 10
  <1>1. Len(s) \in Nat /\ p + 1 \in 1..Len(s) /\ p + 2 \in 1..Len(s)
    BY LenProperties
  <1>2. s[p + 1] \in Byte /\ s[p + 2] \in Byte
    BY <1>1, ElementOfSeq
  <1>3. Opcode(s, p) \in 0..15 /\ Len7(s, p) \in 0..127
    BY <1>2, ByteParts DEF Opcode, Len7
  <1>4. KeyAt(s, p) = IF Len7(s, p) < 126 THEN p + 2 ELSE IF Len7(s, p) = 126 THEN p + 4 ELSE p + 10
    BY DEF KeyAt
  <1>. QED  BY <1>1, <1>2, <1>3, <1>4 DEF DataAt

\* Its length is a number.
LEMMA DataLenType ==
    ASSUME NEW s \in Seq(Byte), NEW p \in Nat, p + 2 <= Len(s), KeyAt(s, p) <= Len(s)
    PROVE  /\ DataLen(s, p) \in Nat /\ FrameEnd(s, p) = DataAt(s, p) + DataLen(s, p)
           /\ FrameEnd(s, p) \in Nat /\ FrameEnd(s, p) >= p + 6
  <1>1. /\ Len(s) \in Nat /\ Len7(s, p) \in 0..127 /\ KeyAt(s, p) \in Nat /\ DataAt(s, p) = KeyAt(s, p) + 4
        /\ KeyAt(s, p) = IF Len7(s, p) < 126 THEN p + 2 ELSE IF Len7(s, p) = 126 THEN p + 4 ELSE p + 10
    BY HeadFacts
  <1>. DEFINE len7 == Len7(s, p)
             key == KeyAt(s, p)
             len == DataLen(s, p)
  <1>5. FrameEnd(s, p) = DataAt(s, p) + len  BY DEF FrameEnd
  <1>6. /\ len7 < 126 => len = len7
        /\ len7 = 126 => len = Number16(Slice(s, p + 2, p + 4))
        /\ len7 = 127 => len = Number32(Slice(s, p + 6, p + 10))
    <2>1. len = IF len7 < 126 THEN len7 ELSE IF len7 = 126 THEN Number16(Slice(s, p + 2, p + 4))
                ELSE Number32(Slice(s, p + 6, p + 10))
      BY DEF DataLen
    <2>. HIDE DEF len, len7
    <2>. QED  BY <2>1
  <1>10. /\ len7 \in 0..127 /\ Len(s) \in Nat /\ key \in Nat /\ key <= Len(s)
         /\ key = IF len7 < 126 THEN p + 2 ELSE IF len7 = 126 THEN p + 4 ELSE p + 10
    BY <1>1
  <1>. HIDE DEF len7, len, key
  <1>2. ASSUME len7 < 126 PROVE len \in Nat
    BY <1>2, <1>6, <1>10
  <1>3. ASSUME len7 = 126 PROVE len \in Nat
    <2>. DEFINE b == Slice(s, p + 2, p + 4)
    <2>1. p + 4 \in 0..Len(s) /\ p + 2 \in 0..(p + 4) /\ (p + 4) - (p + 2) = 2
      BY <1>10, <1>3
    <2>2. b \in Seq(Byte) /\ Len(b) = 2
      BY <2>1, SliceProperties
    <2>3. b[1] \in Byte /\ b[2] \in Byte
      <3>. HIDE DEF b
      <3>1. 1 \in 1..Len(b) /\ 2 \in 1..Len(b)  BY <2>2
      <3>. QED  BY <2>2, <3>1, ElementOfSeq
    <2>4. len = Number16(b)  BY <1>3, <1>6
    <2>. HIDE DEF b
    <2>. QED  BY <2>3, <2>4, NumberTypes
  <1>4. ASSUME len7 = 127 PROVE len \in Nat
    <2>. DEFINE b == Slice(s, p + 6, p + 10)
    <2>1. p + 10 \in 0..Len(s) /\ p + 6 \in 0..(p + 10) /\ (p + 10) - (p + 6) = 4
      BY <1>10, <1>4
    <2>2. b \in Seq(Byte) /\ Len(b) = 4
      BY <2>1, SliceProperties
    <2>3. b[1] \in Byte /\ b[2] \in Byte /\ b[3] \in Byte /\ b[4] \in Byte
      <3>. HIDE DEF b
      <3>1. 1 \in 1..Len(b) /\ 2 \in 1..Len(b) /\ 3 \in 1..Len(b) /\ 4 \in 1..Len(b)  BY <2>2
      <3>. QED  BY <2>2, <3>1, ElementOfSeq
    <2>4. len = Number32(b)  BY <1>4, <1>6
    <2>. HIDE DEF b
    <2>. QED  BY <2>3, <2>4, NumberTypes
  <1>7. len \in Nat
    BY <1>2, <1>3, <1>4, <1>10
  <1>8. key \in Nat /\ key >= p + 2 /\ DataAt(s, p) = key + 4
    <2>1. key >= p + 2  BY <1>10
    <2>. QED  BY <2>1, <1>1, <1>10 DEF key
  <1>9. DataAt(s, p) + len \in Nat /\ DataAt(s, p) + len >= p + 6  BY <1>7, <1>8
  <1>. QED  BY <1>5, <1>7, <1>9 DEF len

\* A frame is longer than 5 bytes and ends in the stream.
LEMMA FrameFacts ==
    ASSUME NEW s \in Seq(Byte), NEW p \in Nat, IsFrame(s, p)
    PROVE  /\ FrameEnd(s, p) \in Nat /\ p + 6 <= FrameEnd(s, p) /\ FrameEnd(s, p) <= Len(s)
           /\ Len(s) \in Nat
  <1>1. p + 2 <= Len(s) /\ DataAt(s, p) <= Len(s) /\ FrameEnd(s, p) <= Len(s)
    BY DEF IsFrame, IsHead
  <1>2. KeyAt(s, p) <= Len(s) /\ Len(s) \in Nat
    BY <1>1, HeadFacts
  <1>. QED  BY <1>1, <1>2, DataLenType

\* Each frame begins where the one before it ends.
LEMMA StartsUnfold ==
    ASSUME NEW s \in Seq(Byte)
    PROVE  /\ Len(s) \in Nat /\ Starts(s) \in [0..Len(s) -> Nat] /\ Starts(s)[0] = 0
           /\ \A k \in 0..(Len(s) - 1) : Starts(s)[k + 1] = NextStart(s, Starts(s)[k])
  <1>. DEFINE n == Len(s)
             step == [p \in Nat |-> NextStart(s, p)]
             f == Starts(s)
  <1>1. n \in Nat /\ 0 \in Nat  BY LenProperties
  <1>2. step \in [Nat -> Nat]
    <2>1. ASSUME NEW p \in Nat PROVE NextStart(s, p) \in Nat
      BY FrameFacts DEF NextStart
    <2>. QED  BY <2>1
  <1>3. f = Iterated(step, 0, n)  BY DEF Starts
  <1>4. \A p \in Nat : step[p] = NextStart(s, p)  OBVIOUS
  <1>. HIDE DEF f, step, n
  <1>5. f \in [0..n -> Nat] /\ f[0] = 0 /\ \A k \in 0..(n - 1) : f[k + 1] = step[f[k]]
    <2>. DEFINE S == Nat
               c == 0
    <2>1. c \in S /\ step \in [S -> S] /\ f = Iterated(step, c, n)  BY <1>1, <1>2, <1>3
    <2>. HIDE DEF S, c
    <2>2. /\ f \in [0..n -> S] /\ f[0] = c
          /\ \A k \in 0..(n - 1) : f[k + 1] = step[f[k]]
      BY <1>1, <2>1, Iteration
    <2>. QED  BY <2>2 DEF S, c
  <1>6. ASSUME NEW k \in 0..(n - 1) PROVE f[k + 1] = NextStart(s, f[k])
    <2>1. k \in 0..n  BY <1>1
    <2>2. f[k] \in Nat  BY <1>5, <2>1
    <2>. QED  BY <1>4, <1>5, <2>2
  <1>. QED  BY <1>1, <1>5, <1>6 DEF f, n

\* Frames do not follow each other for ever: there is a first place without one.
LEMMA CountDefined ==
    ASSUME NEW s \in Seq(Byte)
    PROVE  /\ CountOf(s) \in 0..Len(s) /\ ~IsFrame(s, Starts(s)[CountOf(s)])
           /\ \A j \in 0..(CountOf(s) - 1) : IsFrame(s, Starts(s)[j])
  <1>. DEFINE n == Len(s)
             f == Starts(s)
             None == {k \in 0..n : ~IsFrame(s, f[k])}
  <1>1. n \in Nat /\ f \in [0..n -> Nat] /\ f[0] = 0 /\ \A k \in 0..(n - 1) : f[k + 1] = NextStart(s, f[k])
    BY StartsUnfold
  <1>. HIDE DEF n, f
  <1>2. None # {}
    <2>. SUFFICES ASSUME None = {} PROVE FALSE  OBVIOUS
    <2>. DEFINE Good == {k \in 0..n : f[k] >= k}
    <2>1. ASSUME NEW k \in 0..(n - 1), k \in Good PROVE k + 1 \in Good
      <3>1. k \in 0..n /\ IsFrame(s, f[k]) /\ f[k] \in Nat /\ f[k] >= k /\ k + 1 \in 0..n
        <4>1. k \in 0..n /\ k + 1 \in 0..n  BY <1>1
        <4>2. k \notin None /\ f[k] >= k  BY <2>1
        <4>3. f[k] \in Nat  BY <1>1, <4>1
        <4>. QED  BY <4>1, <4>2, <4>3
      <3>2. f[k + 1] = FrameEnd(s, f[k])  BY <1>1, <3>1 DEF NextStart
      <3>3. FrameEnd(s, f[k]) \in Nat /\ f[k] + 6 <= FrameEnd(s, f[k])  BY <3>1, FrameFacts
      <3>4. f[k + 1] >= k + 1  BY <3>1, <3>2, <3>3
      <3>. QED  BY <3>1, <3>4
    <2>2. 0 \in Good /\ 0 \in Int /\ n \in Int  BY <1>1
    <2>3. 0..n \subseteq Good
      <3>. HIDE DEF Good
      <3>. QED  BY <2>1, <2>2, IntervalInduction
    <2>4. n \in 0..n /\ f[n] \in Nat /\ f[n] >= n /\ IsFrame(s, f[n])
      BY <1>1, <2>3
    <2>5. f[n] + 6 <= FrameEnd(s, f[n]) /\ FrameEnd(s, f[n]) <= n /\ FrameEnd(s, f[n]) \in Nat
      BY <2>4, FrameFacts DEF n
    <2>. QED  BY <1>1, <2>4, <2>5
  <1>3. None \subseteq Nat  BY <1>1
  <1>4. PICK k \in None : \A j \in None : k <= j
    <2>. HIDE DEF None
    <2>. QED  BY <1>2, <1>3, Smallest
  <1>5. k \in 0..n /\ ~IsFrame(s, f[k]) /\ \A j \in 0..(k - 1) : IsFrame(s, f[j])
    <2>1. k \in 0..n /\ ~IsFrame(s, f[k])  BY <1>4
    <2>2. ASSUME NEW j \in 0..(k - 1) PROVE IsFrame(s, f[j])
      <3>1. j \in 0..n /\ ~(k <= j)  BY <1>1, <2>1
      <3>. QED  BY <1>4, <3>1
    <2>. QED  BY <2>1, <2>2
  <1>. QED  BY <1>5 DEF CountOf, f, n

\* The frames of a stream, and where the next one begins.
LEMMA FramesAre ==
    ASSUME NEW s \in Seq(Byte)
    PROVE  /\ Len(FramesOf(s)) = CountOf(s) /\ CountOf(s) \in 0..Len(s) /\ Len(s) \in Nat
           /\ \E X : FramesOf(s) \in Seq(X)
           /\ \A k \in 0..CountOf(s) : Starts(s)[k] \in Nat
           /\ \A k \in 0..CountOf(s) :
                IsFrame(s, Starts(s)[k]) =>
                  /\ k < CountOf(s) /\ Starts(s)[k + 1] = FrameEnd(s, Starts(s)[k])
                  /\ FramesOf(s)[k + 1] = FrameAt(s, Starts(s)[k])
  <1>. DEFINE n == CountOf(s)
             f == Starts(s)
             F == FramesOf(s)
  <1>1. /\ n \in 0..Len(s) /\ ~IsFrame(s, f[n]) /\ Len(s) \in Nat /\ f \in [0..Len(s) -> Nat]
        /\ \A k \in 0..(Len(s) - 1) : f[k + 1] = NextStart(s, f[k])
    BY StartsUnfold, CountDefined
  <1>2. F = [k \in 1..n |-> FrameAt(s, f[k - 1])]  BY DEF FramesOf
  <1>. HIDE DEF n, f, F
  <1>3. F \in Seq({FrameAt(s, f[k - 1]) : k \in 1..n}) /\ Len(F) = n
    <2>. DEFINE X == {FrameAt(s, f[k - 1]) : k \in 1..n}
    <2>1. F \in [1..n -> X]  BY <1>2
    <2>2. n \in Nat  BY <1>1
    <2>. HIDE DEF X
    <2>3. F \in Seq(X) /\ Len(F) = n  BY <2>1, <2>2
    <2>. QED  BY <2>3 DEF X
  <1>4. ASSUME NEW k \in 0..n PROVE f[k] \in Nat
    <2>1. k \in 0..Len(s)  BY <1>1
    <2>. QED  BY <1>1, <2>1
  <1>5. ASSUME NEW k \in 0..n, IsFrame(s, f[k])
        PROVE  /\ k < n /\ f[k + 1] = FrameEnd(s, f[k]) /\ F[k + 1] = FrameAt(s, f[k])
    <2>1. k # n  BY <1>1, <1>5
    <2>2. k < n /\ k \in 0..(Len(s) - 1) /\ k + 1 \in 1..n /\ (k + 1) - 1 = k  BY <1>1, <2>1
    <2>3. f[k + 1] = NextStart(s, f[k])  BY <1>1, <2>2
    <2>4. F[k + 1] = FrameAt(s, f[k])  BY <1>2, <2>2
    <2>. QED  BY <1>5, <2>2, <2>3, <2>4 DEF NextStart
  <1>. QED  BY <1>1, <1>3, <1>4, <1>5 DEF n, f, F

-----------------------------------------------------------------------------
(* What the application hears of some frames                                *)

\* The frames up to the first close frame; the next frame belongs to them if there was
\* none yet.
LEMMA UpToFacts ==
    ASSUME NEW X, NEW fs \in Seq(X)
    PROVE  /\ Feed!UpToClose(fs) \in Seq(X) /\ Len(Feed!UpToClose(fs)) \in Nat /\ Len(fs) \in Nat
           /\ \A n \in 0..(Len(fs) - 1) :
                (\A i \in 1..n : fs[i].op # Feed!Close) =>
                  n + 1 <= Len(Feed!UpToClose(fs)) /\ Feed!UpToClose(fs)[n + 1] = fs[n + 1]
  <1>. DEFINE I == {i \in 1..Len(fs) : fs[i].op = Feed!Close}
             m == Feed!SelectInSeq(fs, LAMBDA f : f.op = Feed!Close)
             U == Feed!UpToClose(fs)
  <1>1. Len(fs) \in Nat  BY LenProperties
  <1>2. m = IF I # {} THEN Min(I) ELSE 0  BY DEF Feed!SelectInSeq, Min, Feed!Min
  <1>3. U = IF m = 0 THEN fs ELSE SubSeq(fs, 1, m)  BY DEF Feed!UpToClose
  <1>4. CASE I = {}
    <2>1. U = fs  BY <1>2, <1>3, <1>4
    <2>2. \A n \in 0..(Len(fs) - 1) : n + 1 <= Len(fs)  BY <1>1
    <2>. HIDE DEF U
    <2>. QED  BY <1>1, <2>1, <2>2 DEF U
  <1>5. CASE I # {}
    <2>1. I \subseteq Nat  OBVIOUS
    <2>2. PICK least \in I : \A j \in I : least <= j
      <3>. HIDE DEF I
      <3>. QED  BY <1>5, <2>1, Smallest
    <2>3. Min(I) \in I /\ \A j \in I : Min(I) <= j
      <3>. HIDE DEF I
      <3>. QED  BY <2>2 DEF Min
    <2>4. m = Min(I)
      <3>. HIDE DEF I, m
      <3>. QED  BY <1>2, <1>5
    <2>. HIDE DEF m
    <2>5. m \in 1..Len(fs) /\ fs[m].op = Feed!Close  BY <2>3, <2>4
    <2>6. U = Slice(fs, 0, m)
      <3>1. m # 0  BY <2>5
      <3>2. U = SubSeq(fs, 1, m)
        <4>. HIDE DEF U
        <4>. QED  BY <1>3, <3>1
      <3>3. Slice(fs, 0, m) = SubSeq(fs, 1, m)
        <4>. HIDE DEF U
        <4>. QED  BY DEF Slice
      <3>. QED  BY <3>2, <3>3
    <2>7. m \in 0..Len(fs) /\ 0 \in 0..m /\ m - 0 = m  BY <1>1, <2>5
    <2>. HIDE DEF U
    <2>8. U \in Seq(X) /\ Len(U) = m /\ \A i \in 1..m : U[i] = fs[i]
      <3>1. Slice(fs, 0, m) \in Seq(X) /\ Len(Slice(fs, 0, m)) = m - 0
            /\ \A i \in 1..(m - 0) : Slice(fs, 0, m)[i] = fs[0 + i]
        BY <2>7, SliceProperties
      <3>2. \A i \in 1..m : 0 + i = i  BY <2>7
      <3>. QED  BY <2>6, <2>7, <3>1, <3>2
    <2>9. ASSUME NEW n \in 0..(Len(fs) - 1), \A i \in 1..n : fs[i].op # Feed!Close
          PROVE  n + 1 <= Len(U) /\ U[n + 1] = fs[n + 1]
      <3>1. m \notin 1..n  BY <2>5, <2>9
      <3>2. n + 1 <= m /\ n + 1 \in 1..m  BY <1>1, <2>5, <3>1
      <3>. QED  BY <2>8, <3>2
    <2>. QED  BY <1>1, <2>7, <2>8, <2>9 DEF U
  <1>. QED  BY <1>4, <1>5

HeardNow(F, fs) == [i \in 0..Len(fs) |-> IF i = 0 THEN <<>>
                                         ELSE IF Feed!IsHeard(fs[i]) THEN Append(F[i - 1], fs[i])
                                         ELSE F[i - 1]]

\* What is heard of the first i frames, one by one.
LEMMA HeardUnfold ==
    ASSUME NEW X, NEW fs \in Seq(X)
    PROVE  /\ Len(fs) \in Nat /\ Feed!HeardOf(fs) \in [0..Len(fs) -> Seq(X)] /\ Feed!HeardOf(fs)[0] = <<>>
           /\ \A i \in 1..Len(fs) : Feed!HeardOf(fs)[i] = IF Feed!IsHeard(fs[i])
                                                           THEN Append(Feed!HeardOf(fs)[i - 1], fs[i])
                                                           ELSE Feed!HeardOf(fs)[i - 1]
  <1>. DEFINE n == Len(fs)
             f == Feed!HeardOf(fs)
             S == Seq(X)
             none == <<>>
             D == [i \in 0..n |-> [h \in S |-> IF i # 0 /\ Feed!IsHeard(fs[i]) THEN Append(h, fs[i]) ELSE h]]
  <1>1. n \in Nat /\ 0 \in Int /\ 0 <= n /\ none \in S /\ \A i \in 1..n : fs[i] \in X
    BY LenProperties, ElementOfSeq, EmptySeq
  <1>2. D \in [0..n -> [S -> S]]
    <2>1. ASSUME NEW i \in 0..n, NEW h \in S
          PROVE  (IF i # 0 /\ Feed!IsHeard(fs[i]) THEN Append(h, fs[i]) ELSE h) \in S
      <3>1. CASE i # 0
        <4>1. fs[i] \in X  BY <1>1, <3>1
        <4>2. Append(h, fs[i]) \in S  BY <4>1, AppendProperties
        <4>. QED  BY <4>2
      <3>2. CASE i = 0
        BY <3>2
      <3>. QED  BY <3>1, <3>2
    <2>. HIDE DEF S
    <2>. QED  BY <2>1
  <1>3. PICK g \in [0..n -> S] : g = Steps(0, n, none, D, g)
    <2>. HIDE DEF D, S, none, n
    <2>1. n \in Int  BY <1>1
    <2>2. Solvable(0, n, S, none, D)
      BY <1>1, <1>2, <2>1, RecursionDefined
    <2>. QED  BY <2>2 DEF Solvable
  <1>4. \A i \in 0..n : i # 0 => D[i][g[i - 1]] = IF Feed!IsHeard(fs[i]) THEN Append(g[i - 1], fs[i]) ELSE g[i - 1]
    <2>1. ASSUME NEW i \in 0..n, i # 0 PROVE g[i - 1] \in S
      <3>1. i - 1 \in 0..n  BY <1>1, <2>1
      <3>. HIDE DEF S, n
      <3>. QED  BY <1>3, <3>1
    <2>. HIDE DEF S
    <2>. QED  BY <2>1
  <1>5. g = HeardNow(g, fs)
    <2>. HIDE DEF D, S
    <2>. QED  BY <1>3, <1>4 DEF Steps, HeardNow
  <1>6. f = CHOOSE h : h = HeardNow(h, fs)  BY DEF Feed!HeardOf, HeardNow
  <1>7. f = HeardNow(f, fs)
    <2>. HIDE DEF f
    <2>. QED  BY <1>5, <1>6
  <1>. HIDE DEF f
  <1>8. f[0] = none  BY <1>1, <1>7 DEF HeardNow
  <1>9. ASSUME NEW i \in 1..n
        PROVE  f[i] = IF Feed!IsHeard(fs[i]) THEN Append(f[i - 1], fs[i]) ELSE f[i - 1]
    <2>1. i \in 0..n /\ i # 0  BY <1>1
    <2>. QED  BY <1>7, <2>1 DEF HeardNow
  <1>10. f \in [0..n -> S]
    <2>. DEFINE Good == {k \in 0..n : f[k] \in S}
    <2>1. ASSUME NEW k \in 0..(n - 1), k \in Good PROVE k + 1 \in Good
      <3>1. k + 1 \in 1..n /\ (k + 1) - 1 = k /\ k + 1 \in 0..n /\ f[k] \in S  BY <1>1, <2>1
      <3>2. fs[k + 1] \in X  BY <1>1, <3>1
      <3>3. Append(f[k], fs[k + 1]) \in S  BY <3>1, <3>2, AppendProperties
      <3>4. f[k + 1] = IF Feed!IsHeard(fs[k + 1]) THEN Append(f[k], fs[k + 1]) ELSE f[k]  BY <1>9, <3>1
      <3>. HIDE DEF S
      <3>. QED  BY <3>1, <3>3, <3>4
    <2>2. 0 \in Good /\ n \in Int
      <3>1. f[0] \in S /\ 0 \in 0..n /\ n \in Int  BY <1>1, <1>8
      <3>. HIDE DEF S, n
      <3>. QED  BY <3>1
    <2>3. 0..n \subseteq Good
      <3>. HIDE DEF Good, n, S
      <3>. QED  BY <1>1, <2>1, <2>2, IntervalInduction
    <2>4. DOMAIN f = 0..n /\ f = [i \in 0..n |-> f[i]]
      <3>1. f = HeardNow(f, fs) /\ DOMAIN HeardNow(f, fs) = 0..n  BY <1>7 DEF HeardNow
      <3>2. HeardNow(f, fs) = [i \in 0..n |-> HeardNow(f, fs)[i]]  BY DEF HeardNow
      <3>. QED  BY <3>1, <3>2
    <2>. HIDE DEF S
    <2>. QED  BY <2>3, <2>4
  <1>. QED  BY <1>1, <1>8, <1>9, <1>10 DEF f

\* What is heard grows at its end; so the next frame is heard where it is counted.
LEMMA HeardNext ==
    ASSUME NEW X, NEW fs \in Seq(X), NEW n \in 1..Len(fs), Feed!IsHeard(fs[n])
    PROVE  /\ Len(Feed!HeardOf(fs)[n]) = Len(Feed!HeardOf(fs)[n - 1]) + 1
           /\ Len(Feed!HeardOf(fs)[n]) <= Len(Feed!HeardOf(fs)[Len(fs)])
           /\ Feed!HeardOf(fs)[Len(fs)][Len(Feed!HeardOf(fs)[n])] = fs[n]
  <1>. DEFINE f == Feed!HeardOf(fs)
             l == Len(fs)
             h == Len(f[n])
             Good == {k \in n..l : h <= Len(f[k]) /\ f[k][h] = fs[n]}
  <1>1. /\ l \in Nat /\ f \in [0..l -> Seq(X)] /\ n \in 0..l /\ n - 1 \in 0..l /\ n \in Int /\ l \in Int
        /\ \A i \in 1..l : f[i] = IF Feed!IsHeard(fs[i]) THEN Append(f[i - 1], fs[i]) ELSE f[i - 1]
    BY HeardUnfold
  <1>2. \A i \in 1..l : fs[i] \in X  BY ElementOfSeq
  <1>. HIDE DEF f, l
  <1>3. f[n - 1] \in Seq(X) /\ f[n] = Append(f[n - 1], fs[n]) /\ n \in 1..l /\ Len(f[n - 1]) \in Nat
        /\ \A k \in 0..l : f[k] \in Seq(X) /\ Len(f[k]) \in Nat
    <2>1. n \in 1..l  BY DEF l
    <2>2. \A k \in 0..l : f[k] \in Seq(X)  BY <1>1
    <2>3. \A k \in 0..l : Len(f[k]) \in Nat  BY <2>2, LenProperties
    <2>. QED  BY <1>1, <2>1, <2>2, <2>3
  <1>4. h = Len(f[n - 1]) + 1 /\ f[n][h] = fs[n] /\ h \in Nat /\ h >= 1
    <2>1. fs[n] \in X  BY <1>2, <1>3
    <2>2. Len(f[n]) = Len(f[n - 1]) + 1 /\ f[n][Len(f[n - 1]) + 1] = fs[n]
      BY <2>1, <1>3, AppendProperties
    <2>. QED  BY <2>2, <1>3
  <1>. HIDE DEF h
  <1>5. ASSUME NEW k \in n..(l - 1), k \in Good PROVE k + 1 \in Good
    <2>1. /\ k \in 0..l /\ k + 1 \in 1..l /\ (k + 1) - 1 = k /\ k + 1 \in n..l /\ k + 1 \in 0..l
          /\ h <= Len(f[k]) /\ f[k][h] = fs[n]
      BY <1>1, <1>5
    <2>2. f[k + 1] = IF Feed!IsHeard(fs[k + 1]) THEN Append(f[k], fs[k + 1]) ELSE f[k]
      BY <1>1, <2>1
    <2>3. h <= Len(f[k + 1]) /\ f[k + 1][h] = fs[n]
      <3>. DEFINE g == f[k]
                 x == fs[k + 1]
      <3>1. g \in Seq(X) /\ Len(g) \in Nat /\ x \in X  BY <1>2, <1>3, <2>1
      <3>2. h <= Len(g) /\ g[h] = fs[n] /\ h \in 1..Len(g)  BY <1>4, <2>1, <3>1
      <3>. HIDE DEF g, x
      <3>3. Len(Append(g, x)) = Len(g) + 1 /\ Append(g, x)[h] = g[h]
        BY <3>1, <3>2, AppendProperties
      <3>4. h <= Len(Append(g, x)) /\ Append(g, x)[h] = fs[n]  BY <1>4, <3>1, <3>2, <3>3
      <3>5. f[k + 1] = Append(g, x) \/ f[k + 1] = g  BY <2>2 DEF g, x
      <3>. QED  BY <3>2, <3>4, <3>5
    <2>. QED  BY <2>1, <2>3
  <1>6. n \in Good
    <2>1. n \in n..l  BY <1>1, <1>3
    <2>. QED  BY <1>4, <2>1 DEF h
  <1>7. n..l \subseteq Good
    <2>. HIDE DEF Good
    <2>. QED  BY <1>1, <1>5, <1>6, IntervalInduction
  <1>8. l \in n..l  BY <1>1, <1>3
  <1>. QED  BY <1>4, <1>7, <1>8 DEF f, l, h

-----------------------------------------------------------------------------
(* The invariant                                                            *)

Cbuf == Seq(Seq(Byte))
\* How much of the stream the processor took.
Taken == arrived - Length(rcv)
\* The frames the application may hear of.
UpTo == Feed!UpToClose(session.frames)

IspType == [state : 0..4, opcode : 0..15, payload_len : Nat, masking_key : Seq(Byte)]
InputInv ==
    /\ session \in Sessions /\ arrived \in 0..Len(session.stream)
    /\ rcv \in Cbuf /\ NoneEmpty(rcv) /\ Length(rcv) <= arrived
    /\ Bytes(rcv) = Slice(session.stream, Taken, arrived)
    /\ isp \in IspType

\* The processor i has taken so many bytes, the last of them of the frame at p.
AtFrame(s, p, i, taken) ==
    \/ i.state = 0 /\ taken = p
    \/ /\ IsHead(s, p) /\ i.opcode = Opcode(s, p)
       /\ \/ i.state = 1 /\ Len7(s, p) = 126 /\ taken = p + 2
          \/ i.state = 2 /\ Len7(s, p) = 127 /\ taken = p + 2
          \/ i.state = 3 /\ ~IsHuge(s, p) /\ taken = KeyAt(s, p) /\ i.payload_len = DataLen(s, p)
          \/ /\ i.state = 4 /\ ~IsHuge(s, p) /\ taken = DataAt(s, p) /\ i.payload_len = DataLen(s, p)
             /\ i.masking_key = Slice(s, KeyAt(s, p), DataAt(s, p))

\* k frames were received, n of them handled, the others wait.
Place(k) == /\ k \in 0..CountOf(session.stream)
            /\ AtFrame(session.stream, Starts(session.stream)[k], isp, Taken)
Queued(n, k) == n \in 0..k /\ frames = Slice(session.frames, n, k)
Handled(n) ==
    /\ n <= Len(UpTo)
    /\ phase = "open" => Len(calls) = 1 + Len(Feed!HeardOf(UpTo)[n])
    /\ phase = "connecting" => n = 0
    /\ ~Is("DISCONNECTING") => \A i \in 1..n : session.frames[i].op # Feed!Close
FeedInv == phase \in {"connecting", "open"} => \E k, n \in Nat : Place(k) /\ Queued(n, k) /\ Handled(n)
FramesInv == \A i \in DOMAIN frames : frames[i] \in Range(session.frames)

CallType == [handler : {"connected", "blocked", "frame", "disconnected"},
             data : {<<>>} \cup {session.frames[i].payload : i \in DOMAIN session.frames}]
CallInv == /\ calls \in Seq(CallType)
           /\ phase = "connecting" => calls = <<>>
           /\ def => Feed!LastCall \in {"connected", "frame"}

Flags == {"DISCONNECTING", "PING_PENDING", "PONG_RECEIVED"}
ControlInv ==
    /\ phase \in {"connecting", "open", "disconnect", "closed"} /\ pc \in {"idle", "isp", "handle", "tx"}
    /\ flags \subseteq Flags /\ def \in BOOLEAN
    /\ pc # "idle" => phase = "open"
    /\ pc \in {"isp", "handle"} => ~Is("DISCONNECTING")
    /\ phase = "connecting" => flags = {} /\ ~def
    /\ phase = "open" => def
    /\ def => phase \in {"open", "disconnect"}
\* A ping is only due when there is room for it.
LinkInv == /\ pending \in 0..(MaxPending + 1)
           /\ Is("PING_PENDING") => pending <= MaxPending
           /\ phase = "connecting" => pending = 0
Scalars == /\ burst \in 0..MaxBurst /\ failures \in 0..MaxFailures
           /\ unhealthy \in BOOLEAN /\ timer1 \in BOOLEAN /\ timer2 \in BOOLEAN
           /\ poll \in BOOLEAN /\ poll_request \in BOOLEAN

IInv == InputInv /\ FeedInv /\ FramesInv /\ CallInv /\ ControlInv /\ LinkInv /\ Scalars

-----------------------------------------------------------------------------
(* The input                                                                *)

\* The stream, the frames in it, and how much of it was taken.
LEMMA SessionFacts ==
    ASSUME InputInv
    PROVE  /\ session.stream \in Seq(Byte) /\ Len(session.stream) \in Nat
           /\ session.frames = FramesOf(session.stream)
           /\ Len(session.frames) = CountOf(session.stream) /\ Len(session.frames) \in Nat
           /\ \E X : session.frames \in Seq(X)
           /\ arrived \in Nat /\ Length(rcv) \in Nat /\ Taken \in 0..arrived /\ Taken \in Nat
           /\ Taken + Length(rcv) = arrived
  <1>1. session.stream \in Seq(Byte) /\ session.frames = FramesOf(session.stream)
    BY SessionsAssumption DEF InputInv
  <1>2. Len(session.frames) = CountOf(session.stream) /\ CountOf(session.stream) \in Nat
        /\ Len(session.stream) \in Nat /\ \E X : session.frames \in Seq(X)
    BY <1>1, FramesAre
  <1>3. Length(rcv) \in Nat
    <2>1. rcv \in Seq(Seq(Byte))  BY DEF InputInv, Cbuf
    <2>. QED  BY <2>1, PreLength
  <1>4. arrived \in Nat /\ Length(rcv) <= arrived  BY <1>2 DEF InputInv
  <1>5. Taken \in 0..arrived /\ Taken \in Nat /\ Taken + Length(rcv) = arrived
    BY <1>3, <1>4 DEF Taken
  <1>. QED  BY <1>1, <1>2, <1>3, <1>4, <1>5

\* The first n bytes of the input are taken.
LEMMA InputCut ==
    ASSUME InputInv, NEW n \in Nat, Cut(n), UNCHANGED <<session, arrived>>
    PROVE  /\ rcv' \in Cbuf /\ NoneEmpty(rcv') /\ Length(rcv') <= arrived'
           /\ Bytes(rcv') = Slice(session'.stream, Taken', arrived')
           /\ Taken' = Taken + n /\ Taken + n <= Len(session.stream)
           /\ First(n) = Slice(session.stream, Taken, Taken + n)
           /\ First(n) \in Seq(Byte) /\ Len(First(n)) = n
           /\ \A i \in 1..n : First(n)[i] = session.stream[Taken + i]
  <1>. DEFINE s == session.stream
             p == Taken
             q == arrived
             l == Length(rcv)
             c == RestBytes(rcv, n)
             f == FirstBytes(rcv, n)
  <1>1. /\ s \in Seq(Byte) /\ Len(s) \in Nat /\ q \in 0..Len(s) /\ p \in 0..q /\ l \in Nat /\ p + l = q
        /\ q \in Nat /\ p \in Nat
        /\ rcv \in Seq(Seq(Byte)) /\ NoneEmpty(rcv) /\ Bytes(rcv) = Slice(s, p, q)
    BY SessionFacts DEF InputInv, Cbuf
  <1>2. n <= l /\ rcv' = c /\ session' = session /\ arrived' = q  BY <1>1 DEF Cut
  <1>3. n \in 0..Length(rcv)  BY <1>1, <1>2
  <1>4. /\ c \in Seq(Seq(Byte)) /\ NoneEmpty(c)
        /\ Bytes(f) = SubSeq(Bytes(rcv), 1, n) /\ Bytes(c) = SubSeq(Bytes(rcv), n + 1, l)
    BY <1>1, <1>3, Split
  <1>. HIDE DEF s, p, q, l, c, f
  <1>5. /\ n \in 0..(q - p) /\ l \in 0..(q - p) /\ 0 \in 0..n /\ n \in 0..l
        /\ p + 0 = p /\ p + l = q /\ p + n \in 0..q /\ p + n \in 0..Len(s) /\ p \in 0..(p + n) /\ (p + n) - p = n
        /\ q - (p + n) = l - n /\ l - n <= q /\ l - n \in Nat /\ q - (l - n) = p + n
    BY <1>1, <1>2
  <1>6. Bytes(f) = Slice(s, p, p + n) /\ Bytes(c) = Slice(s, p + n, q)
    <2>1. Slice(Slice(s, p, q), 0, n) = Slice(s, p + 0, p + n) /\ Slice(Slice(s, p, q), n, l) = Slice(s, p + n, p + l)
      BY <1>1, <1>5, SliceOfSlice
    <2>2. SubSeq(Bytes(rcv), 1, n) = Slice(Slice(s, p, q), 0, n)
          /\ SubSeq(Bytes(rcv), n + 1, l) = Slice(Slice(s, p, q), n, l)
      BY <1>1 DEF Slice
    <2>. QED  BY <1>4, <1>5, <2>1, <2>2
  <1>7. Len(Bytes(c)) = l - n
    <2>1. s \in Seq(Byte) /\ q \in 0..Len(s) /\ p + n \in 0..q  BY <1>1, <1>5
    <2>2. Len(Slice(s, p + n, q)) = q - (p + n)  BY <2>1, SliceProperties
    <2>. QED  BY <1>5, <1>6, <2>2
  <1>8. Bytes(f) \in Seq(Byte) /\ Len(Bytes(f)) = n /\ \A i \in 1..n : Bytes(f)[i] = s[p + i]
    <2>1. s \in Seq(Byte) /\ p + n \in 0..Len(s) /\ p \in 0..(p + n)  BY <1>1, <1>5
    <2>2. /\ Slice(s, p, p + n) \in Seq(Byte) /\ Len(Slice(s, p, p + n)) = (p + n) - p
          /\ \A i \in 1..((p + n) - p) : Slice(s, p, p + n)[i] = s[p + i]
      BY <2>1, SliceProperties
    <2>. QED  BY <1>5, <1>6, <2>2
  <1>9. Length(rcv') = l - n /\ Taken' = p + n
    <2>1. Length(rcv') = Len(Bytes(c))  BY <1>2 DEF Length
    <2>2. Taken' = q - Length(rcv')  BY <1>2 DEF Taken
    <2>. QED  BY <1>5, <1>7, <2>1, <2>2
  <1>10. First(n) = Bytes(f)  BY DEF First, f
  <1>11. Taken + n <= Len(session.stream)  BY <1>1, <1>5 DEF p, s
  <1>12. Bytes(rcv') = Slice(session'.stream, Taken', arrived')
    BY <1>2, <1>6, <1>9 DEF s
  <1>. QED  BY <1>2, <1>4, <1>5, <1>6, <1>8, <1>9, <1>10, <1>11, <1>12 DEF Cbuf, s, p

\* The input stays.
LEMMA InputSame ==
    ASSUME InputInv, UNCHANGED <<session, arrived, rcv, isp>>
    PROVE  InputInv' /\ Taken' = Taken
  <1>1. Taken' = Taken  BY DEF Taken
  <1>. QED  BY <1>1 DEF InputInv

\* The queue and the calls stay; the processor may go on in its frame.
LEMMA FeedStays ==
    ASSUME FeedInv, UNCHANGED <<session, frames, calls>>, phase' \in {phase, "disconnect", "closed"},
           Is("DISCONNECTING") => "DISCONNECTING" \in flags',
           phase' = phase => \A p \in Nat : AtFrame(session.stream, p, isp, Taken)
                                             => AtFrame(session.stream, p, isp', Taken'),
           InputInv
    PROVE  FeedInv'
  <1>. SUFFICES ASSUME phase' \in {"connecting", "open"}
                PROVE  \E k, n \in Nat : Place(k)' /\ Queued(n, k)' /\ Handled(n)'
    BY DEF FeedInv
  <1>1. phase' = phase  OBVIOUS
  <1>2. PICK k \in Nat, n \in Nat : Place(k) /\ Queued(n, k) /\ Handled(n)
    BY <1>1 DEF FeedInv
  <1>3. Place(k)'
    <2>1. Starts(session.stream)[k] \in Nat
      BY <1>2, SessionFacts, FramesAre DEF Place
    <2>. QED  BY <1>1, <1>2, <2>1 DEF Place
  <1>4. Queued(n, k)'  BY <1>2 DEF Queued
  <1>5. UpTo' = UpTo  BY DEF UpTo
  <1>6. Handled(n)'  BY <1>1, <1>2, <1>5 DEF Handled, Is
  <1>. QED  BY <1>2, <1>3, <1>4, <1>6

\* The queue stays.
LEMMA FramesSame == FramesInv /\ UNCHANGED <<session, frames>> => FramesInv'
  BY DEF FramesInv

\* The calls stay.
LEMMA CallsSame ==
    ASSUME CallInv, UNCHANGED <<session, calls, def>>, phase' \in {phase, "disconnect", "closed"}
    PROVE  CallInv'
  <1>1. CallType' = CallType  BY DEF CallType
  <1>2. Feed!LastCall' = Feed!LastCall  BY DEF Feed!LastCall
  <1>. QED  BY <1>1, <1>2 DEF CallInv

-----------------------------------------------------------------------------
(* The frame processor                                                      *)

Outcome == GoesOn \/ Reads \/ Polls \/ Fatal

\* Whatever a step of the processor says, the rest of the state stays sound.
LEMMA IspControl ==
    ASSUME IInv, pc = "isp", Outcome, IspUnchanged, NoFailure \/ Denied
    PROVE  /\ phase = "open" /\ phase' \in {phase, "disconnect", "closed"}
           /\ ControlInv' /\ LinkInv' /\ Scalars' /\ CallInv'
           /\ UNCHANGED <<session, arrived, calls, flags, def>>
  <1>1. UNCHANGED <<session, arrived, burst, flags, def, poll_request, pending, close_sent, calls>>
    BY DEF IspUnchanged, input, link
  <1>2. phase = "open"  BY DEF IInv, ControlInv
  <1>3. \/ pc' = pc /\ phase' = phase /\ poll' = poll /\ timer1' = timer1 /\ timer2' = timer2 /\ unhealthy' = unhealthy
        \/ pc' = "handle" /\ phase' = phase /\ poll' = poll /\ timer1' = timer1 /\ timer2' = timer2 /\ unhealthy' \in BOOLEAN
        \/ /\ pc' = "idle" /\ phase' = "disconnect" /\ poll' = TRUE /\ timer1' = FALSE /\ timer2' = FALSE
           /\ unhealthy' = unhealthy
    BY DEF Outcome, GoesOn, Reads, Polls, Fatal, Disconnect, timers
  <1>4. ControlInv'  BY <1>1, <1>2, <1>3 DEF IInv, ControlInv, Is
  <1>5. LinkInv'  BY <1>1, <1>2, <1>3 DEF IInv, LinkInv, Is
  <1>6. failures' \in 0..MaxFailures
    BY BoundsAssumption DEF NoFailure, Denied, IInv, Scalars
  <1>7. Scalars'  BY <1>1, <1>3, <1>6 DEF IInv, Scalars
  <1>8. CallInv'  BY <1>1, <1>3, CallsSame DEF IInv
  <1>. QED  BY <1>1, <1>2, <1>3, <1>4, <1>5, <1>7, <1>8

\* A step that takes nothing.
LEMMA IspWaits ==
    ASSUME IInv, pc = "isp", Reads \/ Polls \/ Fatal, NothingTaken, NoFailure \/ Denied, IspUnchanged
    PROVE  IInv'
  <1>1. /\ phase = "open" /\ phase' \in {phase, "disconnect", "closed"}
        /\ ControlInv' /\ LinkInv' /\ Scalars' /\ CallInv'
        /\ UNCHANGED <<session, arrived, calls, flags, def>>
    BY IspControl DEF Outcome
  <1>2. UNCHANGED <<rcv, isp, frames>>  BY DEF NothingTaken
  <1>3. InputInv' /\ Taken' = Taken  BY <1>1, <1>2, InputSame DEF IInv
  <1>4. FeedInv'
    <2>1. Is("DISCONNECTING") => "DISCONNECTING" \in flags'  BY <1>1 DEF Is
    <2>. QED  BY <1>1, <1>2, <1>3, <2>1, FeedStays DEF IInv
  <1>5. FramesInv'  BY <1>1, <1>2, FramesSame DEF IInv
  <1>. QED  BY <1>1, <1>3, <1>4, <1>5 DEF IInv

\* A step that takes n bytes and goes on in the frame, or gives up.
LEMMA IspTakes ==
    ASSUME IInv, pc = "isp", NEW n \in Nat, Cut(n), UNCHANGED frames, GoesOn \/ Fatal, IspUnchanged,
           isp' \in IspType,
           GoesOn => \A p \in Nat : AtFrame(session.stream, p, isp, Taken)
                                     => AtFrame(session.stream, p, isp', Taken + n)
    PROVE  IInv'
  <1>1. /\ phase = "open" /\ phase' \in {phase, "disconnect", "closed"}
        /\ ControlInv' /\ LinkInv' /\ Scalars' /\ CallInv'
        /\ UNCHANGED <<session, arrived, calls, flags, def>>
    BY IspControl DEF Outcome, Cut
  <1>2. /\ rcv' \in Cbuf /\ NoneEmpty(rcv') /\ Length(rcv') <= arrived'
        /\ Bytes(rcv') = Slice(session'.stream, Taken', arrived') /\ Taken' = Taken + n
    BY <1>1, InputCut DEF IInv
  <1>3. InputInv'  BY <1>1, <1>2 DEF IInv, InputInv
  <1>4. phase' = phase => GoesOn  BY <1>1 DEF Fatal, Disconnect
  <1>5. FeedInv'
    <2>1. Is("DISCONNECTING") => "DISCONNECTING" \in flags'  BY <1>1 DEF Is
    <2>2. phase' = phase => \A p \in Nat : AtFrame(session.stream, p, isp, Taken)
                                             => AtFrame(session.stream, p, isp', Taken')
      BY <1>2, <1>4
    <2>. QED  BY <1>1, <2>1, <2>2, FeedStays DEF IInv
  <1>6. FramesInv'  BY <1>1, FramesSame DEF IInv
  <1>. QED  BY <1>1, <1>3, <1>5, <1>6 DEF IInv

-----------------------------------------------------------------------------
(* Each state of the frame processor                                        *)

\* The step of a state that may wait, lack memory or take n bytes.
LEMMA IspCases ==
    ASSUME IInv, pc = "isp", NEW n \in Nat, Short(n) \/ NoCut(n), IspUnchanged
    PROVE  IInv'
  <1>1. CASE Short(n)
    BY <1>1, IspWaits DEF Short
  <1>2. CASE NoCut(n)
    BY <1>2, IspWaits DEF NoCut
  <1>. QED  BY <1>1, <1>2

\* The first two bytes are taken, and those of a frame are the ones of the next frame.
LEMMA HeaderStep == IInv /\ Header => IInv'
  <1>. SUFFICES ASSUME IInv, Header PROVE IInv'  OBVIOUS
  <1>. DEFINE s == session.stream
             b0 == First(2)[1]
             b1 == First(2)[2]
             len7 == b1 % 128
  <1>1. pc = "isp" /\ isp.state = 0 /\ IspUnchanged /\ 2 \in Nat  BY DEF Header, InIsp
  <1>2. CASE Short(2) \/ NoCut(2)
    BY <1>1, <1>2, IspCases
  <1>3. CASE Cut(2) /\ UNCHANGED frames
             /\ \/ Fatal /\ UNCHANGED isp
                \/ /\ b1 >= 128 /\ (b0 \div 16) % 8 = 0
                   /\ isp' = [isp EXCEPT !.opcode = b0 % 16,
                                         !.payload_len = IF len7 < 126 THEN len7 ELSE @,
                                         !.state = IF len7 < 126 THEN 3
                                                   ELSE IF len7 = 126 THEN 1 ELSE 2]
                   /\ GoesOn
    <2>1. UNCHANGED <<session, arrived>>  BY <1>1 DEF IspUnchanged, input
    <2>2. /\ First(2) \in Seq(Byte) /\ Len(First(2)) = 2 /\ \A i \in 1..2 : First(2)[i] = s[Taken + i]
          /\ Taken + 2 <= Len(s)
      BY <1>3, <2>1, InputCut DEF IInv
    <2>3. b0 = s[Taken + 1] /\ b1 = s[Taken + 2]  BY <2>2
    <2>4. b0 \in Byte /\ b1 \in Byte
      <3>. DEFINE f == First(2)
      <3>. HIDE DEF f
      <3>1. 1 \in 1..Len(f) /\ 2 \in 1..Len(f)  BY <2>2 DEF f
      <3>2. f[1] \in Byte /\ f[2] \in Byte  BY <2>2, <3>1, ElementOfSeq DEF f
      <3>. QED  BY <3>2 DEF f
    <2>5. isp \in IspType /\ Taken \in Nat  BY SessionFacts DEF IInv, InputInv
    <2>6. b0 % 16 \in 0..15 /\ len7 \in 0..127  BY <2>4, ByteParts
    <2>. HIDE DEF b0, b1, len7
    <2>7. CASE Fatal /\ UNCHANGED isp
      <3>1. ~GoesOn
        <4>1. phase = "open"  BY <1>1 DEF IInv, ControlInv
        <4>. QED  BY <2>7, <4>1 DEF GoesOn, Fatal, Disconnect
      <3>. QED  BY <1>1, <1>3, <2>5, <2>7, <3>1, IspTakes
    <2>8. CASE /\ b1 >= 128 /\ (b0 \div 16) % 8 = 0
               /\ isp' = [isp EXCEPT !.opcode = b0 % 16,
                                     !.payload_len = IF len7 < 126 THEN len7 ELSE @,
                                     !.state = IF len7 < 126 THEN 3
                                               ELSE IF len7 = 126 THEN 1 ELSE 2]
               /\ GoesOn
      <3>1. /\ isp'.opcode = b0 % 16 /\ isp'.masking_key = isp.masking_key
            /\ isp'.payload_len = IF len7 < 126 THEN len7 ELSE isp.payload_len
            /\ isp'.state = IF len7 < 126 THEN 3 ELSE IF len7 = 126 THEN 1 ELSE 2
            /\ isp' = [state |-> isp'.state, opcode |-> isp'.opcode, payload_len |-> isp'.payload_len,
                       masking_key |-> isp'.masking_key]
        BY <2>5, <2>8 DEF IspType
      <3>2. isp' \in IspType
        <4>1. isp'.state \in 0..4  BY <3>1
        <4>2. isp'.payload_len \in Nat
          <5>1. isp.payload_len \in Nat /\ len7 \in Nat  BY <2>5, <2>6 DEF IspType
          <5>. QED  BY <3>1, <5>1
        <4>3. isp'.opcode \in 0..15 /\ isp'.masking_key \in Seq(Byte)  BY <2>5, <2>6, <3>1 DEF IspType
        <4>. QED  BY <3>1, <4>1, <4>2, <4>3 DEF IspType
      <3>3. ASSUME NEW p \in Nat, AtFrame(s, p, isp, Taken) PROVE AtFrame(s, p, isp', Taken + 2)
        <4>1. Taken = p  BY <1>1, <3>3 DEF AtFrame
        <4>2. IsHead(s, p)  BY <2>2, <2>3, <2>8, <4>1 DEF IsHead
        <4>3. isp'.opcode = Opcode(s, p) /\ len7 = Len7(s, p)
          BY <2>3, <3>1, <4>1 DEF Opcode, Len7, len7
        <4>4. CASE len7 < 126
          <5>1. ~IsHuge(s, p) /\ KeyAt(s, p) = p + 2 /\ DataLen(s, p) = len7
            <6>1. len7 # 127 /\ Len7(s, p) < 126  BY <2>6, <4>3, <4>4
            <6>2. KeyAt(s, p) = p + 2  BY <6>1 DEF KeyAt
            <6>. QED  BY <6>1, <6>2, <4>3 DEF IsHuge, DataLen
          <5>2. isp'.state = 3 /\ isp'.payload_len = len7  BY <3>1, <4>4
          <5>. QED  BY <4>1, <4>2, <4>3, <5>1, <5>2 DEF AtFrame
        <4>5. CASE len7 = 126
          <5>1. isp'.state = 1  BY <3>1, <4>5
          <5>. QED  BY <4>1, <4>2, <4>3, <4>5, <5>1 DEF AtFrame
        <4>6. CASE len7 = 127
          <5>1. isp'.state = 2  BY <3>1, <4>6
          <5>. QED  BY <4>1, <4>2, <4>3, <4>6, <5>1 DEF AtFrame
        <4>. QED  BY <2>6, <4>4, <4>5, <4>6
      <3>. QED  BY <1>1, <1>3, <2>8, <3>2, <3>3, IspTakes DEF s
    <2>. QED  BY <1>3, <2>7, <2>8 DEF b0, b1, len7
  <1>4. \/ Short(2) \/ NoCut(2)
        \/ Cut(2) /\ UNCHANGED frames
             /\ \/ Fatal /\ UNCHANGED isp
                \/ /\ b1 >= 128 /\ (b0 \div 16) % 8 = 0
                   /\ isp' = [isp EXCEPT !.opcode = b0 % 16,
                                         !.payload_len = IF len7 < 126 THEN len7 ELSE @,
                                         !.state = IF len7 < 126 THEN 3
                                                   ELSE IF len7 = 126 THEN 1 ELSE 2]
                   /\ GoesOn
    BY Zenon DEF Header
  <1>. QED  BY <1>2, <1>3, <1>4

\* The length is the one of the frame, in 2 bytes.
LEMMA Length16Step == IInv /\ Length16 => IInv'
  <1>. SUFFICES ASSUME IInv, Length16 PROVE IInv'  OBVIOUS
  <1>. DEFINE s == session.stream
             f == First(2)
  <1>1. pc = "isp" /\ isp.state = 1 /\ IspUnchanged /\ 2 \in Nat  BY DEF Length16, InIsp
  <1>2. CASE Short(2) \/ NoCut(2)
    BY <1>1, <1>2, IspCases
  <1>3. CASE Cut(2) /\ GoesOn /\ UNCHANGED frames
             /\ isp' = [isp EXCEPT !.payload_len = Number16(f), !.state = 3]
    <2>1. UNCHANGED <<session, arrived>>  BY <1>1 DEF IspUnchanged, input
    <2>2. f \in Seq(Byte) /\ Len(f) = 2 /\ f = Slice(s, Taken, Taken + 2)
      BY <1>3, <2>1, InputCut DEF IInv
    <2>3. isp \in IspType /\ Taken \in Nat  BY SessionFacts DEF IInv, InputInv
    <2>. HIDE DEF f
    <2>4. f[1] \in Byte /\ f[2] \in Byte
      <3>1. 1 \in 1..Len(f) /\ 2 \in 1..Len(f)  BY <2>2
      <3>. QED  BY <2>2, <3>1, ElementOfSeq
    <2>5. Number16(f) \in Nat  BY <2>4, NumberTypes
    <2>6. isp' = [state |-> 3, opcode |-> isp.opcode, payload_len |-> Number16(f),
                  masking_key |-> isp.masking_key]
      BY <1>3, <2>3 DEF IspType
    <2>7. isp' \in IspType  BY <2>3, <2>5, <2>6 DEF IspType
    <2>8. ASSUME NEW p \in Nat, AtFrame(s, p, isp, Taken) PROVE AtFrame(s, p, isp', Taken + 2)
      <3>1. IsHead(s, p) /\ isp.opcode = Opcode(s, p) /\ Len7(s, p) = 126 /\ Taken = p + 2
        BY <1>1, <2>8 DEF AtFrame
      <3>2. ~IsHuge(s, p) /\ KeyAt(s, p) = p + 4 /\ Taken + 2 = p + 4
        BY <3>1 DEF IsHuge, KeyAt
      <3>3. DataLen(s, p) = Number16(f)  BY <2>2, <3>1, <3>2 DEF DataLen
      <3>4. isp'.state = 3 /\ isp'.opcode = isp.opcode /\ isp'.payload_len = Number16(f)  BY <2>6
      <3>. QED  BY <3>1, <3>2, <3>3, <3>4 DEF AtFrame
    <2>. QED  BY <1>1, <1>3, <2>7, <2>8, IspTakes DEF s
  <1>. QED  BY <1>2, <1>3 DEF Length16

\* The length is the one of the frame, in 8 bytes.
LEMMA Length64Step == IInv /\ Length64 => IInv'
  <1>. SUFFICES ASSUME IInv, Length64 PROVE IInv'  OBVIOUS
  <1>. DEFINE s == session.stream
             f == First(8)
             len == Number32(SubSeq(f, 5, 8))
             huge == \E i \in 1..4 : f[i] # 0
  <1>1. pc = "isp" /\ isp.state = 2 /\ IspUnchanged /\ 8 \in Nat  BY DEF Length64, InIsp
  <1>2. CASE Short(8) \/ NoCut(8)
    BY <1>1, <1>2, IspCases
  <1>3. CASE Cut(8) /\ UNCHANGED frames
             /\ IF huge THEN Fatal /\ UNCHANGED isp
                ELSE isp' = [isp EXCEPT !.payload_len = len, !.state = 3] /\ GoesOn
    <2>1. UNCHANGED <<session, arrived>>  BY <1>1 DEF IspUnchanged, input
    <2>2. /\ f \in Seq(Byte) /\ Len(f) = 8 /\ f = Slice(s, Taken, Taken + 8)
          /\ \A i \in 1..8 : f[i] = s[Taken + i]
          /\ Taken + 8 <= Len(s)
      BY <1>3, <2>1, InputCut DEF IInv
    <2>3. isp \in IspType /\ Taken \in Nat /\ s \in Seq(Byte) /\ Len(s) \in Nat
      BY SessionFacts DEF IInv, InputInv
    <2>. HIDE DEF f, s
    <2>4. CASE huge /\ Fatal /\ UNCHANGED isp
      <3>1. ~GoesOn
        <4>1. phase = "open"  BY <1>1 DEF IInv, ControlInv
        <4>. QED  BY <2>4, <4>1 DEF GoesOn, Fatal, Disconnect
      <3>. QED  BY <1>1, <1>3, <2>3, <2>4, <3>1, IspTakes
    <2>5. CASE ~huge /\ isp' = [isp EXCEPT !.payload_len = len, !.state = 3] /\ GoesOn
      <3>. DEFINE b == SubSeq(f, 5, 8)
      <3>1. b = Slice(f, 4, 8) /\ 8 \in 0..Len(f) /\ 4 \in 0..8  BY <2>2 DEF Slice
      <3>2. b \in Seq(Byte) /\ Len(b) = 4
        <4>1. ASSUME NEW y \in 0..Len(f), NEW x \in 0..y
              PROVE  Slice(f, x, y) \in Seq(Byte) /\ Len(Slice(f, x, y)) = y - x
          BY <2>2, SliceProperties
        <4>2. Slice(f, 4, 8) \in Seq(Byte) /\ Len(Slice(f, 4, 8)) = 8 - 4
          <5>. HIDE DEF b
          <5>. QED  BY ONLY <3>1, <4>1
        <4>. QED  BY <3>1, <4>2
      <3>. HIDE DEF b
      <3>3. b[1] \in Byte /\ b[2] \in Byte /\ b[3] \in Byte /\ b[4] \in Byte
        <4>1. 1 \in 1..Len(b) /\ 2 \in 1..Len(b) /\ 3 \in 1..Len(b) /\ 4 \in 1..Len(b)  BY <3>2
        <4>. QED  BY <3>2, <4>1, ElementOfSeq
      <3>4. len = Number32(b)  BY DEF b
      <3>. HIDE DEF len
      <3>5. len \in Nat  BY <3>3, <3>4, NumberTypes
      <3>6. isp' = [state |-> 3, opcode |-> isp.opcode, payload_len |-> len,
                    masking_key |-> isp.masking_key]
        BY <2>3, <2>5 DEF IspType
      <3>7. isp' \in IspType  BY <2>3, <3>5, <3>6 DEF IspType
      <3>8. ASSUME NEW p \in Nat, AtFrame(s, p, isp, Taken) PROVE AtFrame(s, p, isp', Taken + 8)
        <4>1. IsHead(s, p) /\ isp.opcode = Opcode(s, p) /\ Len7(s, p) = 127 /\ Taken = p + 2
          BY <1>1, <3>8 DEF AtFrame
        <4>2. ~IsHuge(s, p)
          <5>1. ASSUME NEW i \in 1..4 PROVE f[i] = s[p + 2 + i]
            <6>1. i \in 1..8 /\ Taken + i = p + 2 + i  BY <4>1
            <6>2. f[i] = s[Taken + i]  BY <2>2, <6>1
            <6>. QED  BY <6>1, <6>2
          <5>. QED  BY <2>5, <5>1 DEF IsHuge
        <4>3. KeyAt(s, p) = p + 10 /\ Taken + 8 = p + 10  BY <4>1 DEF KeyAt
        <4>4. b = Slice(s, p + 6, p + 10)
          <5>1. Taken + 8 \in 0..Len(s) /\ Taken \in 0..(Taken + 8) /\ (Taken + 8) - Taken = 8
                /\ 8 \in 0..((Taken + 8) - Taken) /\ 4 \in 0..8 /\ Taken + 4 = p + 6
            BY <2>2, <2>3, <4>1
          <5>2. Slice(Slice(s, Taken, Taken + 8), 4, 8) = Slice(s, Taken + 4, Taken + 8)
            BY <2>3, <5>1, SliceOfSlice
          <5>. QED  BY <2>2, <3>1, <4>3, <5>1, <5>2
        <4>5. DataLen(s, p) = len  BY <3>4, <4>1, <4>4 DEF DataLen
        <4>6. isp'.state = 3 /\ isp'.opcode = isp.opcode /\ isp'.payload_len = len  BY <3>6
        <4>. QED  BY <4>1, <4>2, <4>3, <4>5, <4>6 DEF AtFrame
      <3>. QED  BY <1>1, <1>3, <2>5, <3>7, <3>8, IspTakes DEF s
    <2>. QED  BY <1>3, <2>4, <2>5
  <1>. QED  BY <1>2, <1>3 DEF Length64

\* The masking key is the one of the frame.
LEMMA MaskStep == IInv /\ Mask => IInv'
  <1>. SUFFICES ASSUME IInv, Mask PROVE IInv'  OBVIOUS
  <1>. DEFINE s == session.stream
             f == First(4)
  <1>1. pc = "isp" /\ isp.state = 3 /\ IspUnchanged /\ 4 \in Nat  BY DEF Mask, InIsp
  <1>2. CASE Short(4) \/ NoCut(4)
    BY <1>1, <1>2, IspCases
  <1>3. CASE Cut(4) /\ GoesOn /\ UNCHANGED frames
             /\ isp' = [isp EXCEPT !.masking_key = f, !.state = 4]
    <2>1. UNCHANGED <<session, arrived>>  BY <1>1 DEF IspUnchanged, input
    <2>2. f \in Seq(Byte) /\ f = Slice(s, Taken, Taken + 4)
      BY <1>3, <2>1, InputCut DEF IInv
    <2>3. isp \in IspType /\ Taken \in Nat  BY SessionFacts DEF IInv, InputInv
    <2>. HIDE DEF f
    <2>6. isp' = [state |-> 4, opcode |-> isp.opcode, payload_len |-> isp.payload_len, masking_key |-> f]
      BY <1>3, <2>3 DEF IspType
    <2>7. isp' \in IspType  BY <2>2, <2>3, <2>6 DEF IspType
    <2>8. ASSUME NEW p \in Nat, AtFrame(s, p, isp, Taken) PROVE AtFrame(s, p, isp', Taken + 4)
      <3>1. /\ IsHead(s, p) /\ isp.opcode = Opcode(s, p) /\ ~IsHuge(s, p) /\ Taken = KeyAt(s, p)
            /\ isp.payload_len = DataLen(s, p)
        BY <1>1, <2>8 DEF AtFrame
      <3>2. Taken + 4 = DataAt(s, p)  BY <3>1 DEF DataAt
      <3>3. f = Slice(s, KeyAt(s, p), DataAt(s, p))  BY <2>2, <3>1, <3>2
      <3>4. isp'.state = 4 /\ isp'.opcode = isp.opcode /\ isp'.payload_len = isp.payload_len
            /\ isp'.masking_key = f
        BY <2>6
      <3>. QED  BY <3>1, <3>2, <3>3, <3>4 DEF AtFrame
    <2>. QED  BY <1>1, <1>3, <2>7, <2>8, IspTakes DEF s
  <1>. QED  BY <1>2, <1>3 DEF Mask

\* The whole payload is there: a frame of the stream is complete.
LEMMA FrameReceived ==
    ASSUME IInv, pc = "isp", isp.state = 4, IspUnchanged, Cut(isp.payload_len), GoesOn,
           frames' = Received(Unmask(First(isp.payload_len), isp.masking_key)),
           isp' = [isp EXCEPT !.state = 0]
    PROVE  IInv'
  <1>. DEFINE s == session.stream
             F == session.frames
             n == isp.payload_len
             f == First(n)
             x == [op |-> isp.opcode, payload |-> Unmask(f, isp.masking_key)]
  <1>1. /\ phase = "open" /\ phase' = phase /\ ControlInv' /\ LinkInv' /\ Scalars' /\ CallInv'
        /\ UNCHANGED <<session, arrived, calls, flags, def>>
    <2>1. NoFailure  BY DEF Cut
    <2>2. phase' = phase  BY DEF GoesOn
    <2>. QED  BY <2>1, <2>2, IspControl DEF Outcome
  <1>2. isp \in IspType /\ n \in Nat  BY DEF IInv, InputInv, IspType
  <1>3. /\ s \in Seq(Byte) /\ Len(s) \in Nat /\ F = FramesOf(s) /\ Len(F) = CountOf(s) /\ Len(F) \in Nat
        /\ Taken \in Nat
    BY SessionFacts DEF IInv
  <1>4. PICK X : F \in Seq(X)  BY SessionFacts DEF IInv
  <1>5. /\ rcv' \in Cbuf /\ NoneEmpty(rcv') /\ Length(rcv') <= arrived'
        /\ Bytes(rcv') = Slice(session'.stream, Taken', arrived') /\ Taken' = Taken + n
        /\ Taken + n <= Len(s) /\ f = Slice(s, Taken, Taken + n)
    BY <1>1, <1>2, InputCut DEF IInv
  <1>6. isp' = [state |-> 0, opcode |-> isp.opcode, payload_len |-> n, masking_key |-> isp.masking_key]
    BY <1>2 DEF IspType
  <1>7. isp' \in IspType /\ isp'.state = 0  BY <1>2, <1>6 DEF IspType
  <1>8. InputInv'  BY <1>1, <1>5, <1>7 DEF IInv, InputInv
  <1>9. frames' = Append(frames, x)  BY DEF Received
  <1>. HIDE DEF f, x
  <1>10. PICK k \in Nat, m \in Nat : Place(k) /\ Queued(m, k) /\ Handled(m)
    BY <1>1 DEF IInv, FeedInv
  <1>. DEFINE p == Starts(s)[k]
  <1>11. /\ k \in 0..CountOf(s) /\ p \in Nat /\ IsHead(s, p) /\ isp.opcode = Opcode(s, p) /\ ~IsHuge(s, p)
         /\ Taken = DataAt(s, p) /\ n = DataLen(s, p)
         /\ isp.masking_key = Slice(s, KeyAt(s, p), DataAt(s, p))
    <2>1. k \in 0..CountOf(s) /\ AtFrame(s, p, isp, Taken)  BY <1>10 DEF Place
    <2>2. p \in Nat  BY <1>3, <2>1, FramesAre
    <2>. HIDE DEF p, s, n
    <2>3. AtFrame(s, p, isp, Taken)  BY <2>1
    <2>. QED  BY <2>1, <2>2, <2>3 DEF AtFrame, n
  <1>. HIDE DEF p
  <1>12. FrameEnd(s, p) = Taken + n  BY <1>11 DEF FrameEnd
  <1>13. IsFrame(s, p)
    <2>1. DataAt(s, p) <= Len(s)  BY <1>2, <1>3, <1>5, <1>11
    <2>. QED  BY <1>5, <1>11, <1>12, <2>1 DEF IsFrame
  <1>14. k < Len(F) /\ Starts(s)[k + 1] = Taken + n /\ F[k + 1] = FrameAt(s, p)
    BY <1>3, <1>11, <1>12, <1>13, FramesAre DEF p
  <1>15. x = F[k + 1]
    <2>1. f = Slice(s, DataAt(s, p), FrameEnd(s, p))  BY <1>5, <1>11, <1>12
    <2>2. FrameAt(s, p) = [op |-> isp.opcode, payload |-> Unmask(f, isp.masking_key)]
      BY <1>11, <2>1 DEF FrameAt
    <2>. QED  BY <1>14, <2>2 DEF x
  <1>16. m \in 0..k /\ frames = Slice(F, m, k)  BY <1>10 DEF Queued
  <1>17. k \in 0..(Len(F) - 1) /\ k + 1 \in 0..Len(F) /\ k + 1 \in 0..CountOf(s) /\ m \in 0..(k + 1) /\ k + 1 \in Nat
    BY <1>3, <1>14, <1>16
  <1>18. frames' = Slice(F, m, k + 1)
    <2>1. Append(Slice(F, m, k), F[k + 1]) = Slice(F, m, k + 1)
      BY <1>4, <1>16, <1>17, SliceAppend
    <2>. QED  BY <1>9, <1>15, <1>16, <2>1
  <1>19. Place(k + 1)'
    <2>1. AtFrame(s, Starts(s)[k + 1], isp', Taken')
      BY <1>5, <1>7, <1>14 DEF AtFrame
    <2>. QED  BY <1>1, <1>17, <2>1 DEF Place
  <1>20. Queued(m, k + 1)'  BY <1>1, <1>17, <1>18 DEF Queued
  <1>21. Handled(m)'
    <2>1. UpTo' = UpTo  BY <1>1 DEF UpTo
    <2>. QED  BY <1>1, <1>10, <2>1 DEF Handled, Is
  <1>22. FeedInv'  BY <1>17, <1>19, <1>20, <1>21, <1>10 DEF FeedInv
  <1>23. FramesInv'
    <2>1. /\ Slice(F, m, k + 1) \in Seq(X) /\ Len(Slice(F, m, k + 1)) = (k + 1) - m
          /\ \A i \in 1..((k + 1) - m) : Slice(F, m, k + 1)[i] = F[m + i]
      BY <1>4, <1>17, SliceProperties
    <2>2. DOMAIN F = 1..Len(F)  BY <1>4
    <2>. HIDE DEF F
    <2>3. ASSUME NEW i \in DOMAIN frames' PROVE frames'[i] \in Range(F)
      <3>1. i \in 1..((k + 1) - m)
        <4>1. DOMAIN Slice(F, m, k + 1) = 1..((k + 1) - m)  BY <2>1
        <4>. QED  BY <1>18, <2>3, <4>1
      <3>2. m + i \in 1..Len(F) /\ frames'[i] = F[m + i]
        BY <1>3, <1>17, <1>18, <2>1, <3>1
      <3>. QED  BY <2>2, <3>2 DEF Range
    <2>. QED  BY <1>1, <2>3 DEF FramesInv, F
  <1>. QED  BY <1>1, <1>8, <1>22, <1>23 DEF IInv

\* The payload is waited for, refused or received.
LEMMA PayloadStep == IInv /\ Payload => IInv'
  <1>. SUFFICES ASSUME IInv, Payload PROVE IInv'  OBVIOUS
  <1>. DEFINE n == isp.payload_len
  <1>1. pc = "isp" /\ isp.state = 4 /\ IspUnchanged  BY DEF Payload, InIsp
  <1>2. n \in Nat  BY DEF IInv, InputInv, IspType
  <1>3. CASE Fatal /\ NothingTaken /\ NoFailure
    BY <1>1, <1>3, IspWaits
  <1>4. CASE Short(n)
    BY <1>1, <1>2, <1>4, IspCases
  <1>5. CASE Denied /\ Polls /\ NothingTaken
    BY <1>1, <1>5, IspWaits
  <1>6. CASE /\ Cut(n) /\ GoesOn
             /\ frames' = Received(Unmask(First(n), isp.masking_key)) /\ isp' = [isp EXCEPT !.state = 0]
    BY <1>1, <1>6, FrameReceived
  <1>. QED  BY <1>3, <1>4, <1>5, <1>6 DEF Payload

-----------------------------------------------------------------------------
(* The queued frames                                                        *)

\* A step that touches neither the input nor the queue nor the calls.
LEMMA RestSame ==
    ASSUME IInv, UNCHANGED <<session, arrived, rcv, isp, frames, calls, def>>,
           phase' \in {phase, "disconnect", "closed"}, Is("DISCONNECTING") => "DISCONNECTING" \in flags'
    PROVE  InputInv' /\ FeedInv' /\ FramesInv' /\ CallInv'
  <1>1. InputInv' /\ Taken' = Taken  BY InputSame DEF IInv
  <1>2. FeedInv'
    <2>1. \A p \in Nat : AtFrame(session.stream, p, isp, Taken) => AtFrame(session.stream, p, isp', Taken')
      BY <1>1
    <2>. QED  BY <2>1, FeedStays DEF IInv
  <1>3. FramesInv'  BY FramesSame DEF IInv
  <1>4. CallInv'  BY CallsSame DEF IInv
  <1>. QED  BY <1>1, <1>2, <1>3, <1>4

\* The frame that is handled is the next one of the stream; if the application hears of it,
\* it is the next one to be heard.
LEMMA NextFrame ==
    ASSUME IInv, pc = "handle", frames # <<>>
    PROVE  \E k, n \in Nat :
             /\ Place(k) /\ Queued(n, k) /\ Handled(n) /\ n + 1 \in 0..k /\ n + 1 <= Len(UpTo)
             /\ n + 1 \in 1..Len(session.frames)
             /\ Head(frames) = session.frames[n + 1] /\ Tail(frames) = Slice(session.frames, n + 1, k)
             /\ \A i \in 1..n : session.frames[i].op # Feed!Close
             /\ Feed!IsHeard(Head(frames)) =>
                  /\ Len(Feed!HeardOf(UpTo)[n + 1]) = Len(calls)
                  /\ Len(calls) <= Len(Feed!Heard(session.frames))
                  /\ Feed!Heard(session.frames)[Len(calls)] = Head(frames)
             /\ ~Feed!IsHeard(Head(frames)) => Len(Feed!HeardOf(UpTo)[n + 1]) = Len(calls) - 1
  <1>. DEFINE F == session.frames
             U == UpTo
             H == Feed!HeardOf(U)
  <1>1. phase = "open" /\ ~Is("DISCONNECTING")  BY DEF IInv, ControlInv
  <1>2. PICK k \in Nat, n \in Nat : Place(k) /\ Queued(n, k) /\ Handled(n)
    BY <1>1 DEF IInv, FeedInv
  <1>3. /\ Len(F) = CountOf(session.stream) /\ Len(F) \in Nat
    BY SessionFacts DEF IInv
  <1>4. PICK X : F \in Seq(X)  BY SessionFacts DEF IInv
  <1>5. k \in 0..Len(F) /\ n \in 0..k /\ frames = Slice(F, n, k)  BY <1>2, <1>3 DEF Place, Queued
  <1>6. n < k /\ Head(frames) = F[n + 1] /\ Tail(frames) = Slice(F, n + 1, k)
    <2>1. n # k  BY <1>4, <1>5, SliceTail
    <2>2. n < k  BY <1>5, <2>1
    <2>. QED  BY <1>4, <1>5, <2>2, SliceTail
  <1>7. \A i \in 1..n : F[i].op # Feed!Close  BY <1>1, <1>2 DEF Handled
  <1>8. n \in 0..(Len(F) - 1) /\ n + 1 \in 0..k /\ n + 1 \in 1..Len(F)  BY <1>3, <1>5, <1>6
  <1>9. U \in Seq(X) /\ Len(U) \in Nat /\ n + 1 <= Len(U) /\ U[n + 1] = F[n + 1]
    BY <1>4, <1>7, <1>8, UpToFacts DEF UpTo
  <1>10. Len(calls) = 1 + Len(H[n])  BY <1>1, <1>2 DEF Handled
  <1>11. Feed!Heard(F) = H[Len(U)]  BY DEF Feed!Heard, UpTo
  <1>. HIDE DEF H, U, F
  <1>12. n + 1 \in 1..Len(U) /\ (n + 1) - 1 = n /\ n \in 0..Len(U)  BY <1>8, <1>9
  <1>13. Len(H[n]) \in Nat /\ H[n + 1] = IF Feed!IsHeard(U[n + 1]) THEN Append(H[n], U[n + 1]) ELSE H[n]
    <2>1. /\ H \in [0..Len(U) -> Seq(X)]
          /\ \A i \in 1..Len(U) : H[i] = IF Feed!IsHeard(U[i]) THEN Append(H[i - 1], U[i]) ELSE H[i - 1]
      BY <1>9, HeardUnfold DEF H
    <2>2. H[n] \in Seq(X)  BY <1>12, <2>1
    <2>3. Len(H[n]) \in Nat  BY <2>2, LenProperties
    <2>. QED  BY <1>12, <2>1, <2>3
  <1>14. ASSUME Feed!IsHeard(U[n + 1])
         PROVE  /\ Len(H[n + 1]) = Len(H[n]) + 1 /\ Len(H[n + 1]) <= Len(H[Len(U)])
                /\ H[Len(U)][Len(H[n + 1])] = U[n + 1]
    BY <1>9, <1>12, <1>14, HeardNext DEF H
  <1>15. ASSUME Feed!IsHeard(Head(frames))
         PROVE  /\ Len(H[n + 1]) = Len(calls) /\ Len(calls) <= Len(H[Len(U)])
                /\ H[Len(U)][Len(calls)] = Head(frames)
    <2>1. Feed!IsHeard(U[n + 1])  BY <1>6, <1>9, <1>15
    <2>2. Len(H[n + 1]) = Len(calls)  BY <1>10, <1>13, <1>14, <2>1
    <2>. QED  BY <1>6, <1>9, <1>14, <2>1, <2>2
  <1>16. ASSUME ~Feed!IsHeard(Head(frames)) PROVE Len(H[n + 1]) = Len(calls) - 1
    <2>1. H[n + 1] = H[n]  BY <1>6, <1>9, <1>13, <1>16
    <2>2. Len(H[n + 1]) = Len(H[n])  BY <2>1
    <2>3. \A x \in Nat : (1 + x) - 1 = x  OBVIOUS
    <2>. QED  BY ONLY <1>10, <1>13, <2>2, <2>3
  <1>. QED  BY <1>2, <1>6, <1>7, <1>8, <1>9, <1>11, <1>15, <1>16 DEF H, U, F

\* The application is told of one more frame.
LEMMA CallsFrame ==
    ASSUME IInv, phase = "open", frames # <<>>, UNCHANGED session,
           calls' = Append(calls, Feed!Call("frame", Head(frames).payload)), phase' = "open"
    PROVE  CallInv' /\ Len(calls') = Len(calls) + 1
  <1>. DEFINE c == Feed!Call("frame", Head(frames).payload)
  <1>1. calls \in Seq(CallType) /\ CallType' = CallType  BY DEF IInv, CallInv, CallType
  <1>2. c \in CallType /\ c.handler = "frame"
    <2>1. 1 \in DOMAIN frames /\ Head(frames) = frames[1]
      <3>1. session.frames \in Seq(Range(session.frames))
        <4>1. PICK X : session.frames \in Seq(X)  BY SessionFacts DEF IInv
        <4>. DEFINE F == session.frames
        <4>2. F \in Seq(X)  BY <4>1
        <4>. HIDE DEF F
        <4>3. F \in Seq(Range(F))  BY <4>2 DEF Range
        <4>. QED  BY <4>3 DEF F
      <3>2. PICK k \in Nat, n \in Nat : Place(k) /\ Queued(n, k)  BY DEF IInv, FeedInv
      <3>3. Len(session.frames) = CountOf(session.stream)  BY SessionFacts DEF IInv
      <3>4. k \in 0..Len(session.frames) /\ n \in 0..k /\ frames = Slice(session.frames, n, k)
        BY <3>2, <3>3 DEF Place, Queued
      <3>5. frames \in Seq(Range(session.frames))  BY <3>1, <3>4, SliceProperties
      <3>6. Len(frames) \in Nat \ {0} /\ DOMAIN frames = 1..Len(frames)  BY <3>5, EmptySeq, LenProperties
      <3>. QED  BY <3>5, <3>6, HeadTailProperties
    <2>2. PICK i \in DOMAIN session.frames : Head(frames) = session.frames[i]
      BY <2>1 DEF IInv, FramesInv, Range
    <2>. QED  BY <2>2 DEF CallType, Feed!Call
  <1>. HIDE DEF c
  <1>3. /\ calls' \in Seq(CallType) /\ Len(calls') = Len(calls) + 1 /\ calls'[Len(calls')] = c
        /\ Len(calls) \in Nat
    <2>1. calls' = Append(calls, c)  BY DEF c
    <2>. QED  BY <1>1, <1>2, <2>1, AppendProperties, LenProperties
  <1>4. Feed!LastCall' = "frame"
    <2>1. calls' # <<>>  BY <1>3, EmptySeq
    <2>. QED  BY <1>2, <1>3, <2>1 DEF Feed!LastCall
  <1>. QED  BY <1>1, <1>3, <1>4 DEF CallInv

\* One frame less waits, and one more is handled.
LEMMA HandleStep == IInv /\ Handle => IInv'
  <1>. SUFFICES ASSUME IInv, Handle PROVE IInv'  OBVIOUS
  <1>. DEFINE fr == Head(frames)
             F == session.frames
  <1>1. /\ pc = "handle" /\ frames # <<>> /\ frames' = Tail(frames)
        /\ pc' = IF "DISCONNECTING" \in flags' THEN "tx" ELSE "handle"
        /\ poll_request' = poll_request /\ failures' = failures
    BY DEF Handle, InHandle, EndsHandling
  <1>2. /\ session' = session /\ arrived' = arrived /\ burst' = burst /\ rcv' = rcv /\ isp' = isp /\ def' = def
        /\ unhealthy' = unhealthy /\ timer2' = timer2 /\ phase' = phase /\ poll' = poll
    BY DEF Handle, HandleUnchanged, input
  <1>3. \/ /\ Feed!IsHeard(fr) /\ calls' = Append(calls, Feed!Call("frame", fr.payload))
           /\ MaySend /\ timer1' \in {timer1, TRUE}
           /\ \E answer \in {{}, CloseByApp} : flags' = flags \cup FlagsOf(fr) \cup answer
        \/ /\ ~Feed!IsHeard(fr) /\ flags' = flags \cup FlagsOf(fr)
           /\ pending' = pending /\ calls' = calls /\ timer1' = timer1
    BY DEF Handle, link
  <1>4. phase = "open" /\ def /\ ~Is("DISCONNECTING") /\ flags \subseteq Flags
    BY <1>1 DEF IInv, ControlInv
  <1>5. /\ flags \subseteq flags' /\ flags' \subseteq Flags
        /\ "PING_PENDING" \in flags' => "PING_PENDING" \in flags
        /\ fr.op = Feed!Close => "DISCONNECTING" \in flags'
    BY <1>3, <1>4 DEF FlagsOf, CloseByApp, Flags, Is
  <1>6. InputInv' /\ Taken' = Taken  BY <1>2, InputSame DEF IInv
  <1>7. ControlInv'  BY <1>1, <1>2, <1>4, <1>5 DEF ControlInv, Is, IInv
  <1>8. LinkInv'
    <2>1. pending \in 0..(MaxPending + 1) /\ MaxPending \in Nat  BY BoundsAssumption DEF IInv, LinkInv
    <2>2. pending' = pending \/ (pending < MaxPending /\ pending' = pending + 1)
      BY <1>3 DEF MaySend, Sends, link
    <2>3. pending' \in 0..(MaxPending + 1) /\ (pending' = pending \/ pending' <= MaxPending)
      BY <2>1, <2>2
    <2>4. Is("PING_PENDING") => pending <= MaxPending  BY DEF IInv, LinkInv
    <2>. QED  BY <1>2, <1>4, <1>5, <2>3, <2>4 DEF LinkInv, Is
  <1>9. Scalars'
    <2>1. timer1' \in BOOLEAN  BY <1>3 DEF IInv, Scalars
    <2>. QED  BY <1>1, <1>2, <2>1 DEF IInv, Scalars
  <1>10. CallInv' /\ (Feed!IsHeard(fr) => Len(calls') = Len(calls) + 1) /\ (~Feed!IsHeard(fr) => calls' = calls)
    <2>1. CASE Feed!IsHeard(fr)
      <3>1. calls' = Append(calls, Feed!Call("frame", Head(frames).payload))  BY <1>3, <2>1
      <3>. QED  BY <1>1, <1>2, <1>4, <2>1, <3>1, CallsFrame
    <2>2. CASE ~Feed!IsHeard(fr)
      <3>1. calls' = calls  BY <1>3, <2>2
      <3>2. CallInv'  BY <1>2, <3>1, CallsSame DEF IInv
      <3>. QED  BY <2>2, <3>1, <3>2
    <2>. QED  BY <2>1, <2>2
  <1>11. PICK k \in Nat, n \in Nat :
             /\ Place(k) /\ Queued(n, k) /\ Handled(n) /\ n + 1 \in 0..k /\ n + 1 <= Len(UpTo)
             /\ n + 1 \in 1..Len(session.frames)
             /\ Head(frames) = session.frames[n + 1] /\ Tail(frames) = Slice(session.frames, n + 1, k)
             /\ \A i \in 1..n : session.frames[i].op # Feed!Close
             /\ Feed!IsHeard(Head(frames)) =>
                  /\ Len(Feed!HeardOf(UpTo)[n + 1]) = Len(calls)
                  /\ Len(calls) <= Len(Feed!Heard(session.frames))
                  /\ Feed!Heard(session.frames)[Len(calls)] = Head(frames)
             /\ ~Feed!IsHeard(Head(frames)) => Len(Feed!HeardOf(UpTo)[n + 1]) = Len(calls) - 1
    BY <1>1, NextFrame
  <1>12. Len(calls) \in Nat  BY LenProperties DEF IInv, CallInv
  <1>13. UpTo' = UpTo  BY <1>2 DEF UpTo
  <1>14. Handled(n + 1)'
    <2>1. Len(calls') = 1 + Len(Feed!HeardOf(UpTo)[n + 1])
      <3>. DEFINE c == Len(calls)
                 h == Len(Feed!HeardOf(UpTo)[n + 1])
      <3>1. \/ Len(calls') = c + 1 /\ h = c
            \/ Len(calls') = c /\ h = c - 1
        BY <1>10, <1>11
      <3>. HIDE DEF c, h
      <3>. QED  BY <3>1, <1>12 DEF c, h
    <2>2. ASSUME ~Is("DISCONNECTING")', NEW i \in 1..(n + 1) PROVE session.frames[i].op # Feed!Close
      <3>1. fr.op # Feed!Close  BY <1>5, <2>2 DEF Is
      <3>2. i \in 1..n \/ i = n + 1  BY <1>11
      <3>. QED  BY <1>11, <3>1, <3>2
    <2>. QED  BY <1>2, <1>4, <1>11, <1>13, <2>1, <2>2 DEF Handled
  <1>15. Place(k)'  BY <1>2, <1>6, <1>11 DEF Place
  <1>16. Queued(n + 1, k)'  BY <1>1, <1>2, <1>11 DEF Queued
  <1>17. n + 1 \in Nat  BY <1>11
  <1>18. FeedInv'  BY <1>11, <1>14, <1>15, <1>16, <1>17 DEF FeedInv
  <1>19. FramesInv'
    <2>1. PICK X : F \in Seq(X)  BY SessionFacts DEF IInv
    <2>2. Len(F) = CountOf(session.stream) /\ Len(F) \in Nat  BY SessionFacts DEF IInv
    <2>3. k \in 0..Len(F) /\ n + 1 \in 0..k  BY <1>11, <2>2 DEF Place
    <2>4. /\ Slice(F, n + 1, k) \in Seq(X) /\ Len(Slice(F, n + 1, k)) = k - (n + 1)
          /\ \A i \in 1..(k - (n + 1)) : Slice(F, n + 1, k)[i] = F[(n + 1) + i]
      BY <2>1, <2>3, SliceProperties
    <2>5. DOMAIN F = 1..Len(F)  BY <2>1
    <2>6. frames' = Slice(F, n + 1, k)  BY <1>1, <1>11
    <2>. HIDE DEF F
    <2>7. ASSUME NEW i \in DOMAIN frames' PROVE frames'[i] \in Range(F)
      <3>1. i \in 1..(k - (n + 1))
        <4>1. DOMAIN Slice(F, n + 1, k) = 1..(k - (n + 1))  BY <2>4
        <4>. QED  BY <2>6, <2>7, <4>1
      <3>2. (n + 1) + i \in 1..Len(F)  BY ONLY <2>2, <2>3, <3>1, n \in Nat
      <3>3. frames'[i] = F[(n + 1) + i]  BY <2>4, <2>6, <3>1
      <3>. QED  BY <2>5, <3>2, <3>3 DEF Range
    <2>. QED  BY <1>2, <2>7 DEF FramesInv, F
  <1>. QED  BY <1>6, <1>7, <1>8, <1>9, <1>10, <1>18, <1>19 DEF IInv

-----------------------------------------------------------------------------
(* The other parts of the handler, the timers and the end                   *)

\* No frame waits any more.
LEMMA HandleEndsStep == IInv /\ HandleEnds => IInv'
  <1>. SUFFICES ASSUME IInv, HandleEnds PROVE IInv'  OBVIOUS
  <1>1. /\ pc = "handle" /\ pc' = "tx" /\ poll_request' = (poll_request \/ unhealthy)
        /\ UNCHANGED <<session, arrived, burst, rcv, isp, frames, flags, def, unhealthy, timer1, timer2,
                       poll, phase, pending, calls, failures>>
    BY DEF HandleEnds, HandleUnchanged, InHandle, Again, input, link
  <1>2. InputInv' /\ FeedInv' /\ FramesInv' /\ CallInv'
    <2>1. Is("DISCONNECTING") => "DISCONNECTING" \in flags'  BY <1>1 DEF Is
    <2>. QED  BY <1>1, <2>1, RestSame
  <1>3. ControlInv'  BY <1>1 DEF IInv, ControlInv, Is
  <1>4. LinkInv'  BY <1>1 DEF IInv, LinkInv, Is
  <1>5. Scalars'
    <2>1. poll_request' \in BOOLEAN  BY <1>1 DEF IInv, Scalars
    <2>. QED  BY <1>1, <2>1 DEF IInv, Scalars
  <1>. QED  BY <1>2, <1>3, <1>4, <1>5 DEF IInv

\* The part that writes.
LEMMA TxStep == IInv /\ (TxPing \/ TxNothing \/ TxClosing) => IInv'
  <1>. SUFFICES ASSUME IInv, TxPing \/ TxNothing \/ TxClosing PROVE IInv'  OBVIOUS
  <1>1. /\ pc = "tx" /\ pc' = "idle" /\ poll_request' = FALSE /\ (NoFailure \/ Denied)
        /\ UNCHANGED <<session, arrived, burst, rcv, isp, frames, def, unhealthy, calls>>
    BY DEF TxPing, TxNothing, TxClosing, InTx, TxUnchanged, TxEnds, PollEnds, input
  <1>2. phase = "open"  BY <1>1 DEF IInv, ControlInv
  <1>3. \/ poll' \in BOOLEAN /\ phase' = phase /\ timer1' = timer1 /\ timer2' = timer2
        \/ poll' = TRUE /\ phase' = "disconnect" /\ timer1' = FALSE /\ timer2' = FALSE
    <2>1. poll_request \in BOOLEAN  BY DEF IInv, Scalars
    <2>. QED  BY <2>1 DEF TxPing, TxNothing, TxClosing, TxEnds, PollEnds, Disconnect, timers
  <1>4. \/ flags' = flags /\ pending' = pending
        \/ Is("PING_PENDING") /\ flags' = flags \ {"PING_PENDING"} /\ pending' = pending + 1
    BY DEF TxPing, TxNothing, TxClosing, Sends, link
  <1>5. InputInv' /\ FeedInv' /\ FramesInv' /\ CallInv'
    <2>1. Is("DISCONNECTING") => "DISCONNECTING" \in flags'  BY <1>4 DEF Is
    <2>2. phase' \in {phase, "disconnect", "closed"}  BY <1>3
    <2>. QED  BY <1>1, <2>1, <2>2, RestSame
  <1>6. ControlInv'
    <2>1. flags' \subseteq Flags  BY <1>4 DEF IInv, ControlInv
    <2>. QED  BY <1>1, <1>2, <1>3, <2>1 DEF IInv, ControlInv
  <1>7. LinkInv'
    <2>1. pending \in 0..(MaxPending + 1) /\ MaxPending \in Nat /\ (Is("PING_PENDING") => pending <= MaxPending)
      BY BoundsAssumption DEF IInv, LinkInv
    <2>2. pending' \in 0..(MaxPending + 1) /\ (Is("PING_PENDING")' => pending' <= MaxPending)
      BY <1>4, <2>1 DEF Is
    <2>. QED  BY <1>2, <1>3, <2>2 DEF LinkInv
  <1>8. Scalars'
    <2>1. failures' \in 0..MaxFailures  BY <1>1, BoundsAssumption DEF NoFailure, Denied, IInv, Scalars
    <2>. QED  BY <1>1, <1>3, <2>1 DEF IInv, Scalars
  <1>. QED  BY <1>5, <1>6, <1>7, <1>8 DEF IInv

\* The beginning: no frame was handled yet.
LEMMA ConnectedStep == IInv /\ Connected => IInv' /\ (Feed!Connected \/ Feed!Blocked)
  <1>. SUFFICES ASSUME IInv, Connected PROVE IInv' /\ (Feed!Connected \/ Feed!Blocked)  OBVIOUS
  <1>1. /\ phase = "connecting" /\ flags' = {"PING_PENDING", "PONG_RECEIVED"} /\ MaySend
        /\ UNCHANGED <<session, arrived, burst, rcv, isp, frames, unhealthy, pc, poll_request, failures>>
    BY DEF Connected, input
  <1>2. \/ /\ def' = TRUE /\ phase' = "open" /\ calls' = <<Feed!Call("connected", <<>>)>>
           /\ timer1' \in BOOLEAN /\ timer2' = TRUE /\ poll' = TRUE
        \/ /\ def' = FALSE /\ phase' = "disconnect" /\ calls' = <<Feed!Call("blocked", <<>>)>>
           /\ timer1' = FALSE /\ timer2' = FALSE /\ poll' = TRUE
    BY DEF Connected, Disconnect
  <1>3. calls = <<>> /\ flags = {} /\ pc = "idle" /\ pending = 0
    BY <1>1 DEF IInv, CallInv, ControlInv, LinkInv
  <1>4. InputInv' /\ Taken' = Taken  BY <1>1, InputSame DEF IInv
  <1>5. FramesInv'  BY <1>1, FramesSame DEF IInv
  <1>6. ControlInv'
    <2>1. flags' \subseteq Flags /\ "DISCONNECTING" \notin flags'  BY <1>1 DEF Flags
    <2>. QED  BY <1>1, <1>2, <1>3, <2>1 DEF ControlInv
  <1>7. LinkInv'
    <2>1. MaxPending \in Nat  BY BoundsAssumption
    <2>2. pending' = pending \/ (pending < MaxPending /\ pending' = pending + 1)
      BY <1>1 DEF MaySend, Sends, link
    <2>3. pending' \in 0..(MaxPending + 1) /\ pending' <= MaxPending  BY <1>3, <2>1, <2>2
    <2>. QED  BY <1>2, <2>3 DEF LinkInv
  <1>8. Scalars'  BY <1>1, <1>2 DEF IInv, Scalars
  <1>. DEFINE none == <<>>
             first == Feed!Call("connected", none)
             last == Feed!Call("blocked", none)
             CT == CallType
             call == IF phase' = "open" THEN first ELSE last
  <1>9. CallType' = CallType  BY <1>1 DEF CallType
  <1>10. call \in CT  BY DEF CallType, Feed!Call
  <1>11. calls' = <<call>> /\ call.handler \in {"connected", "blocked"} /\ (def' => call.handler = "connected")
    BY <1>2 DEF Feed!Call
  <1>. HIDE DEF call, CT
  <1>12. calls' \in Seq(CT) /\ Len(calls') = 1 /\ calls'[1] = call /\ calls' # <<>>
    BY <1>10, <1>11
  <1>13. CallInv'
    <2>1. Feed!LastCall' = call.handler  BY <1>12 DEF Feed!LastCall
    <2>2. phase' # "connecting"  BY <1>2
    <2>. QED  BY <1>9, <1>11, <1>12, <2>1, <2>2 DEF CallInv, CT
  <1>14. FeedInv'
    <2>1. PICK k \in Nat, n \in Nat : Place(k) /\ Queued(n, k) /\ Handled(n)
      BY <1>1 DEF IInv, FeedInv
    <2>2. n = 0 /\ 0 <= Len(UpTo)  BY <1>1, <2>1 DEF Handled
    <2>3. UpTo' = UpTo  BY <1>1 DEF UpTo
    <2>4. Len(Feed!HeardOf(UpTo)[0]) = 0
      <3>1. PICK X : session.frames \in Seq(X)  BY SessionFacts DEF IInv
      <3>2. UpTo \in Seq(X)  BY <3>1, UpToFacts DEF UpTo
      <3>3. Feed!HeardOf(UpTo)[0] = <<>>  BY <3>2, HeardUnfold
      <3>. QED  BY <3>3
    <2>5. Handled(0)'  BY <1>1, <1>2, <1>12, <2>2, <2>3, <2>4 DEF Handled
    <2>6. Place(k)'  BY <1>1, <1>4, <2>1 DEF Place
    <2>7. Queued(0, k)'  BY <1>1, <2>1, <2>2 DEF Queued
    <2>. QED  BY <2>1, <2>5, <2>6, <2>7 DEF FeedInv
  <1>15. Feed!Connected \/ Feed!Blocked
    <2>1. Feed!LastCall = "none"  BY <1>3 DEF Feed!LastCall
    <2>2. calls' = Append(calls, call)
      <3>1. Append(none, call) = <<call>>  OBVIOUS
      <3>. QED  BY <1>3, <1>11, <3>1
    <2>3. session'.frames = session.frames  BY <1>1
    <2>. QED  BY <2>1, <2>2, <2>3 DEF Feed!Connected, Feed!Blocked, Feed!Calls, call
  <1>. QED  BY <1>4, <1>5, <1>6, <1>7, <1>8, <1>13, <1>14, <1>15 DEF IInv

\* A piece of the stream arrives.
LEMMA ReadInputStep == IInv /\ ReadInput => IInv'
  <1>. SUFFICES ASSUME IInv, ReadInput PROVE IInv'  OBVIOUS
  <1>. DEFINE s == session.stream
             q == arrived'
             piece == Slice(s, arrived, q)
  <1>1. PICK n \in PieceSizes : q = Min({arrived + n, Len(s)}) /\ rcv' = Append(rcv, SubSeq(s, arrived + 1, q))
    BY DEF ReadInput
  <1>2. /\ pc = "idle" /\ phase = "open" /\ burst < MaxBurst /\ arrived < Len(s) /\ burst' = burst + 1 /\ poll' = TRUE
        /\ UNCHANGED <<session, isp, frames, flags, def, unhealthy, timer1, timer2, pc, poll_request, phase,
                       pending, calls, failures>>
    BY DEF ReadInput, Idle, timers, link
  <1>3. /\ s \in Seq(Byte) /\ Len(s) \in Nat /\ arrived \in Nat /\ Taken \in 0..arrived
        /\ Length(rcv) = arrived - Taken /\ Bytes(rcv) = Slice(s, Taken, arrived)
        /\ rcv \in Cbuf /\ NoneEmpty(rcv) /\ Taken \in Nat
    BY SessionFacts DEF IInv, InputInv
  <1>4. q \in Nat /\ arrived < q /\ q <= Len(s)
    <2>1. n \in Nat \ {0}  BY BoundsAssumption
    <2>. DEFINE a == arrived + n
               l == Len(s)
    <2>2. a \in Nat /\ l \in Nat /\ arrived < a /\ arrived < l  BY <1>2, <1>3, <2>1
    <2>. HIDE DEF a, l
    <2>3. Min({a, l}) \in {a, l} /\ \A j \in {a, l} : Min({a, l}) <= j
      <3>. DEFINE I == {a, l}
      <3>1. I \subseteq Nat /\ I # {}  BY <2>2
      <3>2. PICK least \in I : \A j \in I : least <= j
        <4>. HIDE DEF I
        <4>. QED  BY <3>1, Smallest
      <3>3. Min(I) \in I /\ \A j \in I : Min(I) <= j
        <4>. HIDE DEF I
        <4>. QED  BY <3>2 DEF Min
      <3>. QED  BY <3>3
    <2>4. q = Min({a, l})  BY <1>1 DEF a, l
    <2>. HIDE DEF q
    <2>5. q \in {a, l} /\ q <= l  BY <2>3, <2>4
    <2>. QED  BY <2>2, <2>5 DEF l
  <1>. HIDE DEF q
  <1>5. q \in 0..Len(s) /\ arrived \in 0..q /\ Taken \in 0..arrived /\ q - arrived # 0 /\ q - arrived \in Nat
    BY <1>3, <1>4
  <1>6. piece \in Seq(Byte) /\ Len(piece) = q - arrived  BY <1>3, <1>5, SliceProperties
  <1>7. Cat(Slice(s, Taken, arrived), piece) = Slice(s, Taken, q)  BY <1>3, <1>5, SliceJoin
  <1>8. rcv' = Append(rcv, piece)  BY <1>1 DEF Slice
  <1>. HIDE DEF piece, s
  <1>9. rcv' \in Cbuf /\ NoneEmpty(rcv')
    <2>. DEFINE C == Seq(Byte)
    <2>1. rcv \in Seq(C) /\ piece \in C  BY <1>3, <1>6 DEF Cbuf
    <2>2. piece # <<>>  BY <1>5, <1>6
    <2>. HIDE DEF C
    <2>3. Append(rcv, piece) \in Seq(C) /\ \A i \in 1..Len(Append(rcv, piece)) :
             (i \in 1..Len(rcv) /\ Append(rcv, piece)[i] = rcv[i]) \/ Append(rcv, piece)[i] = piece
      BY <2>1
    <2>4. DOMAIN Append(rcv, piece) = 1..Len(Append(rcv, piece)) /\ DOMAIN rcv = 1..Len(rcv)
      BY <2>1, <2>3
    <2>5. NoneEmpty(Append(rcv, piece))  BY <2>2, <2>3, <2>4, <1>3 DEF NoneEmpty
    <2>. QED  BY <2>3, <2>5, <1>8 DEF C, Cbuf
  <1>10. Bytes(rcv') = Slice(s, Taken, q)
    <2>1. rcv \in Seq(Seq(Byte))  BY <1>3 DEF Cbuf
    <2>2. Bytes(rcv') = Cat(Bytes(rcv), piece)  BY <2>1, <1>6, <1>8, FlattenAppend DEF Bytes, Cat
    <2>. QED  BY <1>3, <1>7, <2>2
  <1>11. Length(rcv') = q - Taken
    <2>1. Taken \in 0..q  BY <1>3, <1>5
    <2>2. Len(Slice(s, Taken, q)) = q - Taken  BY <2>1, <1>3, <1>5, SliceProperties
    <2>. QED  BY <2>2, <1>10 DEF Length
  <1>12. Taken' = Taken /\ Length(rcv') <= q
    <2>1. Taken' = q - Length(rcv')  BY DEF Taken, q
    <2>. QED  BY <2>1, <1>11, <1>3, <1>4
  <1>13. InputInv'
    <2>1. isp' \in IspType /\ session' \in Sessions  BY <1>2 DEF IInv, InputInv
    <2>2. arrived' \in 0..Len(session'.stream)  BY <1>2, <1>5 DEF q, s
    <2>3. Length(rcv') <= arrived'  BY <1>12 DEF q
    <2>4. Bytes(rcv') = Slice(session'.stream, Taken', arrived')  BY <1>2, <1>10, <1>12 DEF q, s
    <2>. QED  BY <1>9, <2>1, <2>2, <2>3, <2>4 DEF InputInv
  <1>14. FeedInv'
    <2>1. \A p \in Nat : AtFrame(session.stream, p, isp, Taken) => AtFrame(session.stream, p, isp', Taken')
      BY <1>2, <1>12
    <2>2. Is("DISCONNECTING") => "DISCONNECTING" \in flags'  BY <1>2 DEF Is
    <2>. QED  BY <1>2, <2>1, <2>2, FeedStays DEF IInv
  <1>15. FramesInv'  BY <1>2, FramesSame DEF IInv
  <1>16. CallInv'  BY <1>2, CallsSame DEF IInv
  <1>17. ControlInv'  BY <1>2 DEF IInv, ControlInv, Is
  <1>18. LinkInv'  BY <1>2 DEF IInv, LinkInv, Is
  <1>19. Scalars'
    <2>1. burst' \in 0..MaxBurst  BY <1>2, BoundsAssumption DEF IInv, Scalars
    <2>. QED  BY <1>2, <2>1 DEF IInv, Scalars
  <1>. QED  BY <1>13, <1>14, <1>15, <1>16, <1>17, <1>18, <1>19 DEF IInv

\* The handler begins, with the processor or, while the websocket closes, with the output.
LEMMA PollStep == IInv /\ Poll => IInv'
  <1>. SUFFICES ASSUME IInv, Poll PROVE IInv'  OBVIOUS
  <1>1. /\ pc = "idle" /\ phase = "open" /\ pc' = (IF Is("DISCONNECTING") THEN "tx" ELSE "isp")
        /\ poll_request' \in BOOLEAN /\ burst' = 0
        /\ UNCHANGED <<session, arrived, rcv, isp, frames, flags, def, unhealthy, timer1, timer2, poll, phase,
                       pending, calls, failures>>
    BY DEF Poll, Idle, timers, link
  <1>2. InputInv' /\ FeedInv' /\ FramesInv' /\ CallInv'
    <2>1. Is("DISCONNECTING") => "DISCONNECTING" \in flags'  BY <1>1 DEF Is
    <2>. QED  BY <1>1, <2>1, RestSame
  <1>3. ControlInv'  BY <1>1 DEF IInv, ControlInv, Is
  <1>4. LinkInv'  BY <1>1 DEF IInv, LinkInv, Is
  <1>5. Scalars'  BY <1>1, BoundsAssumption DEF IInv, Scalars
  <1>. QED  BY <1>2, <1>3, <1>4, <1>5 DEF IInv

\* What happens between two polls: output leaves, a timer expires, the connection ends.
LEMMA IdleStep == IInv /\ (Sent \/ Timer1 \/ Timer2 \/ Abort) => IInv'
  <1>. SUFFICES ASSUME IInv, Sent \/ Timer1 \/ Timer2 \/ Abort PROVE IInv'  OBVIOUS
  <1>1. /\ pc = "idle" /\ phase = "open"
        /\ UNCHANGED <<session, arrived, burst, rcv, isp, frames, def, unhealthy, pc, poll_request, failures, calls>>
    BY DEF Sent, Timer1, Timer2, Abort, Idle, IdleUnchanged, input
  <1>2. poll' \in BOOLEAN /\ timer1' \in BOOLEAN /\ timer2' \in BOOLEAN /\ phase' \in {phase, "disconnect"}
    <2>1. CASE Sent
      BY <2>1 DEF Sent, SentPoll, timers, IInv, Scalars
    <2>2. CASE Timer1
      BY <2>2 DEF Timer1, IInv, Scalars
    <2>3. CASE Timer2
      BY <2>3 DEF Timer2, Disconnect, timers, IInv, Scalars
    <2>4. CASE Abort
      BY <2>4 DEF Abort, Disconnect
    <2>. QED  BY <2>1, <2>2, <2>3, <2>4
  <1>3. flags \subseteq Flags /\ flags' \subseteq Flags /\ (Is("DISCONNECTING") => "DISCONNECTING" \in flags')
    <2>1. flags \subseteq Flags  BY DEF IInv, ControlInv
    <2>2. \/ flags' = flags
          \/ \E answer \in {{}, CloseByApp} : flags' = flags \cup answer
          \/ flags' = (flags \ {"PONG_RECEIVED"}) \cup {"PING_PENDING"}
      BY DEF Sent, Timer1, Timer2, Abort
    <2>. QED  BY <2>1, <2>2 DEF Flags, CloseByApp, Is
  <1>4. pending' \in 0..(MaxPending + 1) /\ (Is("PING_PENDING")' => pending' <= MaxPending)
    <2>1. pending \in 0..(MaxPending + 1) /\ MaxPending \in Nat /\ (Is("PING_PENDING") => pending <= MaxPending)
      BY BoundsAssumption DEF IInv, LinkInv
    <2>2. CASE Sent
      BY <2>1, <2>2 DEF Sent, Pending, Is
    <2>3. CASE Timer1
      <3>1. pending' = pending \/ (pending < MaxPending /\ pending' = pending + 1)
        BY <2>3 DEF Timer1, MaySend, Sends, link
      <3>2. Is("PING_PENDING")' => Is("PING_PENDING")
        BY <2>3 DEF Timer1, CloseByApp, Is
      <3>. QED  BY <2>1, <3>1, <3>2
    <2>4. CASE Timer2
      <3>1. pending' = pending /\ (flags' = flags \/ pending < MaxPending)  BY <2>4 DEF Timer2, link
      <3>. QED  BY <2>1, <3>1 DEF Is
    <2>5. CASE Abort
      BY <2>1, <2>5 DEF Abort, link, Is
    <2>. QED  BY <2>2, <2>3, <2>4, <2>5
  <1>5. InputInv' /\ FeedInv' /\ FramesInv' /\ CallInv'  BY <1>1, <1>2, <1>3, RestSame
  <1>6. ControlInv'  BY <1>1, <1>2, <1>3 DEF IInv, ControlInv
  <1>7. LinkInv'  BY <1>1, <1>2, <1>4 DEF LinkInv
  <1>8. Scalars'  BY <1>1, <1>2 DEF IInv, Scalars
  <1>. QED  BY <1>5, <1>6, <1>7, <1>8 DEF IInv

\* The end: an application that accepted the websocket is told, once.
LEMMA CleanupStep == IInv /\ Cleanup => IInv' /\ (Feed!Disconnected \/ UNCHANGED Feed!vars)
  <1>. SUFFICES ASSUME IInv, Cleanup PROVE IInv' /\ (Feed!Disconnected \/ UNCHANGED Feed!vars)  OBVIOUS
  <1>. DEFINE e == <<>>
             call == Feed!Call("disconnected", e)
  <1>1. /\ phase = "disconnect" /\ def' = FALSE /\ frames' = e /\ rcv' = e
        /\ phase' = "closed" /\ poll' = FALSE
        /\ UNCHANGED <<session, arrived, burst, isp, flags, unhealthy, timer1, timer2, pc, poll_request,
                       pending, failures>>
    BY DEF Cleanup, input, timers, link
  <1>2. IF def THEN calls' = Append(calls, call) ELSE calls' = calls
    BY DEF Cleanup, CallsDisconnected
  <1>3. e \in Cbuf /\ NoneEmpty(e) /\ Bytes(e) = e /\ Length(e) = 0 /\ DOMAIN e = {}
    <2>1. e \in Seq(Seq(Byte)) /\ e \in Seq(Byte) /\ DOMAIN e = {} /\ Len(e) = 0  OBVIOUS
    <2>2. FlattenSeq(e) = e  BY <2>1, FlattenAppend
    <2>. QED  BY <2>1, <2>2 DEF Cbuf, NoneEmpty, Bytes, Length
  <1>4. InputInv'
    <2>1. session.stream \in Seq(Byte) /\ arrived \in Nat /\ arrived \in 0..Len(session.stream)
      BY SessionFacts DEF IInv, InputInv
    <2>2. Taken' = arrived  BY <1>1, <1>3, <2>1 DEF Taken
    <2>3. Slice(session.stream, arrived, arrived) = e  BY <2>1, SliceEnds
    <2>4. isp' \in IspType /\ session' \in Sessions  BY <1>1 DEF IInv, InputInv
    <2>5. Bytes(rcv') = Slice(session'.stream, Taken', arrived')  BY <1>1, <1>3, <2>2, <2>3
    <2>6. Length(rcv') <= arrived' /\ arrived' \in 0..Len(session'.stream)  BY <1>1, <1>3, <2>1
    <2>7. rcv' \in Cbuf /\ NoneEmpty(rcv')  BY <1>1, <1>3
    <2>. QED  BY <2>4, <2>5, <2>6, <2>7 DEF InputInv
  <1>5. FeedInv'  BY <1>1 DEF FeedInv
  <1>6. FramesInv'  BY <1>1, <1>3 DEF FramesInv
  <1>7. ControlInv'  BY <1>1 DEF IInv, ControlInv, Is
  <1>8. LinkInv'  BY <1>1 DEF IInv, LinkInv, Is
  <1>9. Scalars'  BY <1>1 DEF IInv, Scalars
  <1>. DEFINE CT == CallType
  <1>10. CallType' = CallType /\ call \in CT  BY <1>1 DEF CallType, Feed!Call
  <1>11. calls \in Seq(CT)  BY DEF IInv, CallInv
  <1>. HIDE DEF e, call, CT
  <1>12. CallInv'
    <2>1. Append(calls, call) \in Seq(CT)  BY <1>10, <1>11, AppendProperties
    <2>2. calls' \in Seq(CT)  BY <1>2, <1>11, <2>1
    <2>. QED  BY <1>1, <1>10, <2>2 DEF CallInv, CT
  <1>13. Feed!Disconnected \/ UNCHANGED Feed!vars
    <2>1. CASE def
      <3>1. Feed!LastCall \in {"connected", "frame"}  BY <2>1 DEF IInv, CallInv
      <3>. QED  BY <1>1, <1>2, <2>1, <3>1 DEF Feed!Disconnected, Feed!Calls, call, e
    <2>2. CASE ~def
      BY <1>1, <1>2, <2>2 DEF Feed!vars
    <2>. QED  BY <2>1, <2>2
  <1>. QED  BY <1>4, <1>5, <1>6, <1>7, <1>8, <1>9, <1>12, <1>13 DEF IInv

\* The frame handler's calls are the promised ones.
LEMMA HandleFeeds == IInv /\ Handle => Feed!Frame \/ UNCHANGED Feed!vars
  <1>. SUFFICES ASSUME IInv, Handle PROVE Feed!Frame \/ UNCHANGED Feed!vars  OBVIOUS
  <1>1. pc = "handle" /\ frames # <<>> /\ session' = session
    BY DEF Handle, InHandle, HandleUnchanged, input
  <1>2. CASE Feed!IsHeard(Head(frames))
    <2>1. calls' = Append(calls, Feed!Call("frame", Head(frames).payload))  BY <1>2 DEF Handle
    <2>2. Len(calls) <= Len(Feed!Heard(session.frames)) /\ Feed!Heard(session.frames)[Len(calls)] = Head(frames)
      BY <1>1, <1>2, NextFrame
    <2>3. Feed!LastCall \in {"connected", "frame"}
      <3>1. def  BY <1>1 DEF IInv, ControlInv
      <3>. QED  BY <3>1 DEF IInv, CallInv
    <2>. QED  BY <1>1, <2>1, <2>2, <2>3 DEF Feed!Frame, Feed!Calls
  <1>3. CASE ~Feed!IsHeard(Head(frames))
    <2>1. calls' = calls  BY <1>3 DEF Handle
    <2>. QED  BY <1>1, <2>1 DEF Feed!vars
  <1>. QED  BY <1>2, <1>3

-----------------------------------------------------------------------------
(* The theorems                                                             *)

\* Nothing has arrived, nobody was called.
LEMMA Begins == Init => IInv /\ Feed!Init
  <1>. SUFFICES ASSUME Init PROVE IInv /\ Feed!Init  OBVIOUS
  <1>. DEFINE e == <<>>
             s == session.stream
  <1>1. /\ session \in Sessions /\ arrived = 0 /\ burst = 0 /\ rcv = e
        /\ isp = [state |-> 0, opcode |-> 0, payload_len |-> 0, masking_key |-> <<0, 0, 0, 0>>]
        /\ frames = e /\ flags = {} /\ def = FALSE /\ unhealthy = FALSE
        /\ timer1 = FALSE /\ timer2 = FALSE /\ poll = FALSE /\ pc = "idle" /\ poll_request = FALSE
        /\ phase = "connecting" /\ pending = 0 /\ calls = e /\ failures = 0
    BY DEF Init
  <1>2. e \in Cbuf /\ NoneEmpty(e) /\ Bytes(e) = e /\ Length(e) = 0 /\ DOMAIN e = {} /\ e \in Seq(CallType)
    <2>1. e \in Seq(Seq(Byte)) /\ e \in Seq(Byte) /\ DOMAIN e = {} /\ Len(e) = 0 /\ e \in Seq(CallType)
      OBVIOUS
    <2>2. FlattenSeq(e) = e  BY <2>1, FlattenAppend
    <2>. QED  BY <2>1, <2>2 DEF Cbuf, NoneEmpty, Bytes, Length
  <1>3. s \in Seq(Byte) /\ session.frames = FramesOf(s)  BY <1>1, SessionsAssumption
  <1>4. /\ Len(s) \in Nat /\ CountOf(s) \in 0..Len(s) /\ Starts(s)[0] = 0 /\ \E X : session.frames \in Seq(X)
    BY <1>3, FramesAre, StartsUnfold
  <1>5. Taken = 0  BY <1>1, <1>2 DEF Taken
  <1>6. isp \in IspType /\ isp.state = 0
    <2>. DEFINE key == <<0, 0, 0, 0>>
    <2>1. key \in Seq(Byte)  BY DEF Byte
    <2>2. isp = [state |-> 0, opcode |-> 0, payload_len |-> 0, masking_key |-> key]  BY <1>1
    <2>. HIDE DEF key
    <2>. QED  BY <2>1, <2>2 DEF IspType
  <1>. HIDE DEF e
  <1>7. InputInv
    <2>1. Slice(s, 0, 0) = e  BY <1>3, <1>4, SliceEnds DEF e
    <2>2. Bytes(rcv) = Slice(s, Taken, arrived)  BY <1>1, <1>2, <1>5, <2>1
    <2>3. arrived \in 0..Len(s) /\ Length(rcv) <= arrived  BY <1>1, <1>2, <1>4
    <2>. QED  BY <1>1, <1>2, <1>6, <2>2, <2>3 DEF InputInv
  <1>8. FeedInv
    <2>1. PICK X : session.frames \in Seq(X)  BY <1>4
    <2>2. Slice(session.frames, 0, 0) = e
      <3>1. Len(session.frames) \in Nat  BY <2>1, LenProperties
      <3>2. 0 \in 0..Len(session.frames)  BY <3>1
      <3>. QED  BY <2>1, <3>2, SliceEnds DEF e
    <2>3. Place(0)  BY <1>4, <1>5, <1>6 DEF Place, AtFrame
    <2>4. Queued(0, 0)  BY <1>1, <2>2 DEF Queued
    <2>5. Handled(0)
      <3>1. Len(UpTo) \in Nat  BY <2>1, UpToFacts DEF UpTo
      <3>. QED  BY <1>1, <3>1 DEF Handled
    <2>. QED  BY <2>3, <2>4, <2>5 DEF FeedInv
  <1>9. FramesInv  BY <1>1, <1>2 DEF FramesInv
  <1>10. CallInv  BY <1>1, <1>2 DEF CallInv, e
  <1>11. ControlInv  BY <1>1 DEF ControlInv
  <1>12. LinkInv  BY <1>1, BoundsAssumption DEF LinkInv, Is
  <1>13. Scalars
    <2>1. 0 \in 0..MaxBurst /\ 0 \in 0..MaxFailures  BY BoundsAssumption
    <2>. QED  BY <1>1, <2>1 DEF Scalars
  <1>14. Feed!Init  BY <1>1 DEF Feed!Init, e
  <1>. QED  BY <1>7, <1>8, <1>9, <1>10, <1>11, <1>12, <1>13, <1>14 DEF IInv

\* A step that changes nothing.
LEMMA NothingChanges == IInv /\ UNCHANGED vars => IInv'
  <1>. SUFFICES ASSUME IInv, UNCHANGED vars PROVE IInv'  OBVIOUS
  <1>1. UNCHANGED <<session, arrived, burst, rcv, isp, frames, flags, def, unhealthy, timer1, timer2, poll, pc,
                    poll_request, phase, pending, calls, failures>>
    BY DEF vars, input, timers, link
  <1>2. InputInv' /\ FeedInv' /\ FramesInv' /\ CallInv'
    <2>1. Is("DISCONNECTING") => "DISCONNECTING" \in flags'  BY <1>1 DEF Is
    <2>. QED  BY <1>1, <2>1, RestSame
  <1>3. ControlInv' /\ LinkInv' /\ Scalars'  BY <1>1 DEF IInv, ControlInv, LinkInv, Scalars, Is
  <1>. QED  BY <1>2, <1>3 DEF IInv

\* Every step keeps the invariant.
LEMMA StepsKeep == IInv /\ [Next]_vars => IInv'
  BY HeaderStep, Length16Step, Length64Step, MaskStep, PayloadStep, HandleStep, HandleEndsStep, TxStep,
     ConnectedStep, ReadInputStep, PollStep, IdleStep, CleanupStep, NothingChanges
     DEF Next, Step, Isp, Quiet

\* Every step is one of WebsocketFeed, or changes none of its variables.
LEMMA StepsFeed == IInv /\ [Next]_vars => [Feed!Next]_(Feed!vars)
  <1>. SUFFICES ASSUME IInv, [Next]_vars PROVE [Feed!Next]_(Feed!vars)  OBVIOUS
  <1>1. CASE Connected
    BY <1>1, ConnectedStep DEF Feed!Next
  <1>2. CASE Handle
    BY <1>2, HandleFeeds DEF Feed!Next
  <1>3. CASE Cleanup
    BY <1>3, CleanupStep DEF Feed!Next
  <1>4. CASE Isp \/ HandleEnds \/ TxPing \/ TxNothing \/ TxClosing \/ ReadInput \/ Poll \/ Sent \/ Timer1 \/ Timer2
             \/ Abort \/ UNCHANGED vars
    <2>1. session' = session /\ calls' = calls
      <3>1. CASE Isp
        BY <3>1 DEF Isp, Header, Length16, Length64, Mask, Payload, IspUnchanged, input
      <3>2. CASE HandleEnds
        BY <3>2 DEF HandleEnds, HandleUnchanged, input
      <3>3. CASE TxPing \/ TxNothing \/ TxClosing
        BY <3>3 DEF TxPing, TxNothing, TxClosing, TxUnchanged, input
      <3>4. CASE ReadInput \/ Poll
        BY <3>4 DEF ReadInput, Poll
      <3>5. CASE Sent \/ Timer1 \/ Timer2 \/ Abort
        BY <3>5 DEF Sent, Timer1, Timer2, Abort, input
      <3>6. CASE UNCHANGED vars
        BY <3>6 DEF vars, input
      <3>. QED  BY <1>4, <3>1, <3>2, <3>3, <3>4, <3>5, <3>6
    <2>. QED  BY <2>1 DEF Feed!vars
  <1>. QED  BY <1>1, <1>2, <1>3, <1>4 DEF Next, Step, Quiet

\* No step adds to the output while the websocket closes.
LEMMA StepsQuiet == IInv /\ [Next]_vars => [Is("DISCONNECTING") => pending' <= pending]_vars
  <1>. SUFFICES ASSUME IInv, Next, Is("DISCONNECTING") PROVE pending' <= pending
    OBVIOUS
  <1>1. pending \in Nat /\ ~(pc = "handle") /\ phase # "connecting"
    <2>1. pending \in 0..(MaxPending + 1) /\ MaxPending \in Nat  BY BoundsAssumption DEF IInv, LinkInv
    <2>. QED  BY <2>1 DEF IInv, ControlInv, Is
  <1>2. pending' = pending \/ pending' = pending - 1
    <2>1. CASE Isp
      BY <2>1 DEF Isp, Header, Length16, Length64, Mask, Payload, IspUnchanged, link
    <2>2. CASE TxPing \/ TxNothing \/ TxClosing
      BY <2>2 DEF TxPing, TxNothing, TxClosing, link
    <2>3. CASE ReadInput \/ Poll
      BY <2>3 DEF ReadInput, Poll, link
    <2>4. CASE Sent \/ Timer1 \/ Timer2 \/ Abort
      BY <2>4 DEF Sent, Timer1, Timer2, Abort, AppTimerRuns, link
    <2>5. CASE Cleanup \/ Quiet
      BY <2>5 DEF Cleanup, Quiet, vars, link
    <2>6. ~(Handle \/ HandleEnds \/ Connected)
      BY <1>1 DEF Handle, HandleEnds, InHandle, Connected
    <2>. QED  BY <2>1, <2>2, <2>3, <2>4, <2>5, <2>6 DEF Next, Step
  <1>. QED  BY <1>1, <1>2

\* TypeOK: the variables of a websocket stay in their domains; every frame queued by the
\* processor is one the peer sent (isp.c:819-856), the definition of the application is set only
\* while the websocket lives (websockets.c:527-589), and no more frames wait than may.
THEOREM WebsocketTypes == Spec => []TypeOK
  <1>1. IInv => TypeOK
    <2>. SUFFICES ASSUME IInv PROVE TypeOK  OBVIOUS
    <2>1. isp.state \in 0..4 /\ isp.opcode \in 0..15 /\ isp.payload_len \in Nat
      BY DEF IInv, InputInv, IspType
    <2>2. \A i \in DOMAIN rcv : rcv[i] # <<>>  BY DEF IInv, InputInv, NoneEmpty
    <2>3. <<unhealthy, timer1, timer2, poll, poll_request>> \in [1..5 -> BOOLEAN]
      BY DEF IInv, Scalars
    <2>. QED  BY <2>1, <2>2, <2>3 DEF TypeOK, IInv, InputInv, FramesInv, ControlInv, LinkInv, Scalars, Flags
  <1>. QED  BY Begins, StepsKeep, <1>1, PTL DEF Spec

\* ImplementsFeed: the application hears of the frames of the stream, unmasked, in their
\* order, each once, none after a close frame, between one connected and one disconnected
\* call (isp.c:703-868, websockets.c:272-415), whatever the pieces and the lacks of memory.
THEOREM FeedImplemented == Spec => ImplementsFeed
  <1>. QED  BY Begins, StepsKeep, StepsFeed, PTL DEF Spec, ImplementsFeed, Feed!Spec

\* NothingSentAfterClose: nothing is put into the output once the end was asked for
\* (websockets.c:194-270, elysian.c:1122-1219).
THEOREM NothingSentAfterCloseCorrect == Spec => NothingSentAfterClose
  <1>. QED  BY Begins, StepsKeep, StepsQuiet, PTL DEF Spec, NothingSentAfterClose
==============================================================================
