------------------------------ MODULE FenProofs ------------------------------
(***************************************************************************)
(* Proofs about FEN texts: whoever reads one token by token, and does the  *)
(* right thing with each, ends with the board the text was written from.   *)
(***************************************************************************)
EXTENDS Fen, MoveGenProofs, SequenceTheorems

-----------------------------------------------------------------------------
(* Folds over sequences.  step[<<a, t>>] is what becomes of the result a   *)
(* behind the element t; a walk is the sequence of the results.            *)

Walks(step, c, s, d) ==
  \E r : /\ r[0] = c /\ r[Len(s)] = d
         /\ \A i \in 1 .. Len(s) : r[i] = step[<<r[i - 1], s[i]>>]

LEMMA WalkEmpty == \A step, c : Walks(step, c, <<>>, c)
  <1> SUFFICES ASSUME NEW step, NEW c PROVE Walks(step, c, <<>>, c)
    OBVIOUS
  <1> DEFINE r == [i \in {0} |-> c]
  <1>1. r[0] = c /\ r[Len(<<>>)] = c /\ 1 .. Len(<<>>) = {}
    OBVIOUS
  <1> QED
    BY <1>1 DEF Walks

LEMMA WalkAppend ==
  ASSUME NEW T, NEW s \in Seq(T), NEW t \in T, NEW step, NEW c, NEW d, Walks(step, c, s, d)
  PROVE  Walks(step, c, Append(s, t), step[<<d, t>>])
  <1>1. PICK r : /\ r[0] = c /\ r[Len(s)] = d
                 /\ \A i \in 1 .. Len(s) : r[i] = step[<<r[i - 1], s[i]>>]
    BY DEF Walks
  <1> DEFINE n == Len(s)
             u == Append(s, t)
             q == [i \in 0 .. n + 1 |-> IF i = n + 1 THEN step[<<d, t>>] ELSE r[i]]
  <1>2. /\ n \in Nat /\ Len(u) = n + 1 /\ u[n + 1] = t
        /\ \A i \in 1 .. n : u[i] = s[i]
    OBVIOUS
  <1>3. q[0] = c /\ q[n + 1] = step[<<d, t>>] /\ \A i \in 0 .. n : q[i] = r[i]
    BY <1>1, <1>2
  <1> HIDE DEF u, q, n
  <1>4. ASSUME NEW i \in 1 .. n + 1 PROVE q[i] = step[<<q[i - 1], u[i]>>]
    <2>1. CASE i = n + 1
      <3>1. i - 1 = n /\ n \in 0 .. n
        BY <1>2, <2>1
      <3>2. q[i - 1] = d /\ u[i] = t
        BY <1>1, <1>2, <1>3, <2>1, <3>1 DEF n
      <3> QED
        BY <1>3, <2>1, <3>2
    <2>2. CASE i # n + 1
      <3>1. i \in 1 .. n /\ i \in 0 .. n /\ i - 1 \in 0 .. n
        BY <1>2, <2>2
      <3>2. q[i] = r[i] /\ q[i - 1] = r[i - 1] /\ u[i] = s[i]
        BY <1>2, <1>3, <3>1
      <3> QED
        BY <1>1, <3>1, <3>2 DEF n
    <2> QED
      BY <2>1, <2>2
  <1> QED
    BY <1>2, <1>3, <1>4 DEF Walks, u

LEMMA WalkJoin ==
  ASSUME NEW T, NEW s \in Seq(T), NEW u \in Seq(T), NEW step, NEW c, NEW d, NEW e,
         Walks(step, c, s, d), Walks(step, d, u, e)
  PROVE  Walks(step, c, s \o u, e)
  <1>1. PICK r : /\ r[0] = c /\ r[Len(s)] = d
                 /\ \A i \in 1 .. Len(s) : r[i] = step[<<r[i - 1], s[i]>>]
    BY DEF Walks
  <1>2. PICK p : /\ p[0] = d /\ p[Len(u)] = e
                 /\ \A i \in 1 .. Len(u) : p[i] = step[<<p[i - 1], u[i]>>]
    BY DEF Walks
  <1> DEFINE n == Len(s)
             k == Len(u)
             w == s \o u
             q == [i \in 0 .. n + k |-> IF i <= n THEN r[i] ELSE p[i - n]]
  <1>3. /\ n \in Nat /\ k \in Nat /\ Len(w) = n + k
        /\ \A i \in 1 .. n : w[i] = s[i]
        /\ \A i \in n + 1 .. n + k : w[i] = u[i - n]
    BY ConcatProperties
  <1>4. /\ \A i \in 0 .. n : q[i] = r[i]
        /\ \A i \in n .. n + k : q[i] = p[i - n]
    <2>1. \A i \in 0 .. n : q[i] = r[i]
      BY <1>3
    <2>2. ASSUME NEW i \in n .. n + k PROVE q[i] = p[i - n]
      <3>1. CASE i = n
        BY <1>1, <1>2, <1>3, <3>1
      <3>2. CASE i # n
        BY <1>3, <3>2
      <3> QED
        BY <3>1, <3>2
    <2> QED
      BY <2>1, <2>2
  <1> HIDE DEF w, q, n, k
  <1>5. ASSUME NEW i \in 1 .. n + k PROVE q[i] = step[<<q[i - 1], w[i]>>]
    <2>1. CASE i <= n
      <3>1. i \in 1 .. n /\ i \in 0 .. n /\ i - 1 \in 0 .. n
        BY <1>3, <2>1
      <3>2. q[i] = r[i] /\ q[i - 1] = r[i - 1] /\ w[i] = s[i]
        BY <1>3, <1>4, <3>1
      <3> QED
        BY <1>1, <3>1, <3>2 DEF n
    <2>2. CASE ~(i <= n)
      <3>1. /\ i \in n + 1 .. n + k /\ i \in n .. n + k /\ i - 1 \in n .. n + k
            /\ i - n \in 1 .. k /\ (i - 1) - n = (i - n) - 1
        BY <1>3, <2>2
      <3>2. q[i] = p[i - n] /\ q[i - 1] = p[(i - n) - 1] /\ w[i] = u[i - n]
        BY <1>3, <1>4, <3>1
      <3> QED
        BY <1>2, <3>1, <3>2 DEF k
    <2> QED
      BY <2>1, <2>2
  <1>6. q[0] = c /\ q[n + k] = e
    BY <1>1, <1>2, <1>3, <1>4 DEF n, k
  <1> QED
    BY <1>3, <1>5, <1>6 DEF Walks, w

\* A claim that passes from each number to the next.
LEMMA Climb ==
  ASSUME NEW n \in Nat, NEW Good, 0 \in Good, \A i \in 1 .. n : i - 1 \in Good => i \in Good
  PROVE  \A i \in 0 .. n : i \in Good
  <1> DEFINE T == {i \in 0 .. n : i \notin Good}
  <1> SUFFICES ASSUME T # {} PROVE FALSE
    OBVIOUS
  <1>1. T \subseteq Nat
    OBVIOUS
  <1>2. PICK i \in T : \A j \in T : i <= j
    BY <1>1, LeastOfNaturals
  <1>3. i # 0 /\ i \in 1 .. n /\ i - 1 \in 0 .. n /\ ~(i <= i - 1)
    OBVIOUS
  <1> QED
    BY <1>2, <1>3

\* There is one walk, and it ends in one place.
LEMMA WalkEndsOnce ==
  ASSUME NEW T, NEW s \in Seq(T), NEW step, NEW c, NEW d, NEW e,
         Walks(step, c, s, d), Walks(step, c, s, e)
  PROVE  d = e
  <1>1. PICK r : /\ r[0] = c /\ r[Len(s)] = d
                 /\ \A i \in 1 .. Len(s) : r[i] = step[<<r[i - 1], s[i]>>]
    BY DEF Walks
  <1>2. PICK p : /\ p[0] = c /\ p[Len(s)] = e
                 /\ \A i \in 1 .. Len(s) : p[i] = step[<<p[i - 1], s[i]>>]
    BY DEF Walks
  <1> DEFINE n == Len(s)
             Good == {i \in 0 .. n : r[i] = p[i]}
  <1>3. n \in Nat /\ n \in 0 .. n /\ 0 \in Good
    BY <1>1, <1>2
  <1>4. ASSUME NEW i \in 1 .. n, i - 1 \in Good PROVE i \in Good
    <2>1. r[i - 1] = p[i - 1] /\ i \in 0 .. n
      BY <1>3, <1>4
    <2>2. r[i] = step[<<r[i - 1], s[i]>>] /\ p[i] = step[<<p[i - 1], s[i]>>]
      BY <1>1, <1>2
    <2> QED
      BY <2>1, <2>2
  <1>5. \A i \in 0 .. n : i \in Good
    <2> HIDE DEF Good, n
    <2> QED
      BY <1>3, <1>4, Climb
  <1> QED
    BY <1>1, <1>2, <1>3, <1>5

\* The last index of a set of them.
LEMMA LastIndex ==
  ASSUME NEW n \in Nat, NEW S \in SUBSET (1 .. n), S # {}
  PROVE  Max(S) \in S /\ \A y \in S : y <= Max(S)
  <1> DEFINE T == {k \in Nat : n - k \in S}
  <1>1. T \subseteq Nat /\ \A y \in S : n - y \in T
    OBVIOUS
  <1>2. PICK z \in T : \A y \in T : z <= y
    <2>1. T # {}
      BY <1>1
    <2> QED
      BY <1>1, <2>1, LeastOfNaturals
  <1>3. n - z \in S /\ z \in Nat
    BY <1>2
  <1>4. \A y \in S : n - z >= y
    <2> SUFFICES ASSUME NEW y \in S PROVE n - z >= y
      OBVIOUS
    <2>1. z <= n - y /\ y \in 1 .. n
      BY <1>1, <1>2
    <2> QED
      BY <1>3, <2>1
  <1>5. Max(S) \in S /\ \A y \in S : Max(S) >= y
    BY <1>3, <1>4 DEF Max
  <1> QED
    BY <1>5

\* The results of the fold for all sets of indices, as far as they are in A.
FoldStep(step, base, s, g, S) ==
  IF S = {} THEN base ELSE step[<<g[S \ {Max(S)}], s[Max(S)]>>]

HasTable(A, step, base, s) ==
  \E g \in [SUBSET (1 .. Len(s)) -> A] :
    \A S \in SUBSET (1 .. Len(s)) : g[S] = FoldStep(step, base, s, g, S)

LEMMA TableExists ==
  ASSUME NEW A, NEW T, NEW step \in [A \X T -> A], NEW base \in A, NEW s \in Seq(T)
  PROVE  HasTable(A, step, base, s)
  <1> DEFINE n == Len(s)
             D == SUBSET (1 .. n)
             Good == {k \in 0 .. n : \E g \in [D -> A] :
                        \A S \in SUBSET (1 .. k) : g[S] = FoldStep(step, base, s, g, S)}
  <1>1. n \in Nat /\ \A i \in 1 .. n : s[i] \in T
    OBVIOUS
  <1> HIDE DEF n
  <1>2. 0 \in Good
    <2> DEFINE g == [S \in D |-> base]
    <2>1. g \in [D -> A] /\ {} \in D /\ g[{}] = base
      OBVIOUS
    <2>2. \A S \in SUBSET (1 .. 0) : S = {}
      OBVIOUS
    <2>3. \A S \in SUBSET (1 .. 0) : g[S] = FoldStep(step, base, s, g, S)
      BY <2>1, <2>2 DEF FoldStep
    <2>4. 0 \in 0 .. n
      BY <1>1
    <2> HIDE DEF g
    <2> QED
      BY <2>1, <2>3, <2>4
  <1>3. ASSUME NEW i \in 1 .. n, i - 1 \in Good PROVE i \in Good
    <2>1. PICK g \in [D -> A] : \A S \in SUBSET (1 .. i - 1) : g[S] = FoldStep(step, base, s, g, S)
      BY <1>3
    <2> DEFINE h == [S \in D |-> IF S \in SUBSET (1 .. i - 1) THEN g[S]
                                 ELSE FoldStep(step, base, s, g, S)]
    <2>2. ASSUME NEW S \in D, S # {}
          PROVE  /\ Max(S) \in S /\ S \ {Max(S)} \in D
                 /\ S \in SUBSET (1 .. i) => S \ {Max(S)} \in SUBSET (1 .. i - 1)
      <3>1. Max(S) \in S /\ \A y \in S : y <= Max(S)
        BY <1>1, <2>2, LastIndex
      <3>2. ASSUME S \in SUBSET (1 .. i), NEW y \in S \ {Max(S)} PROVE y \in 1 .. i - 1
        <4>1. y \in 1 .. i /\ Max(S) \in 1 .. i /\ y <= Max(S) /\ y # Max(S)
          BY <3>1, <3>2
        <4> QED
          BY <4>1
      <3> QED
        BY <3>1, <3>2
    <2>3. ASSUME NEW S \in D PROVE h[S] \in A
      <3>1. FoldStep(step, base, s, g, S) \in A
        <4>1. CASE S = {}
          BY <4>1 DEF FoldStep
        <4>2. CASE S # {}
          <5>1. g[S \ {Max(S)}] \in A /\ s[Max(S)] \in T
            BY <1>1, <2>1, <2>2, <4>2
          <5> QED
            BY <4>2, <5>1 DEF FoldStep
        <4> QED
          BY <4>1, <4>2
      <3> QED
        BY <2>1, <3>1
    <2>4. h \in [D -> A]
      BY <2>3
    <2>5. ASSUME NEW S \in SUBSET (1 .. i) PROVE h[S] = FoldStep(step, base, s, h, S)
      <3>1. S \in D
        BY <1>1
      <3>2. h[S] = FoldStep(step, base, s, g, S)
        BY <2>1, <3>1
      <3>3. CASE S = {}
        BY <3>2, <3>3 DEF FoldStep
      <3>4. CASE S # {}
        <4>1. S \ {Max(S)} \in D /\ S \ {Max(S)} \in SUBSET (1 .. i - 1)
          BY <2>2, <3>1, <3>4
        <4>2. h[S \ {Max(S)}] = g[S \ {Max(S)}]
          BY <4>1
        <4> HIDE DEF h
        <4> QED
          BY <3>2, <3>4, <4>2 DEF FoldStep
      <3> QED
        BY <3>3, <3>4
    <2>6. i \in 0 .. n
      BY <1>1
    <2> HIDE DEF h
    <2> QED
      BY <2>4, <2>5, <2>6
  <1>4. n \in Good
    <2> HIDE DEF Good
    <2>1. \A i \in 0 .. n : i \in Good
      BY <1>1, <1>2, <1>3, Climb
    <2> QED
      BY <1>1, <2>1
  <1> QED
    BY <1>4 DEF n, HasTable

\* The same, with what the step is taken from and with.
IsTable(A, T, step, base, s, g) ==
  /\ g = [S \in SUBSET (1 .. Len(s)) |-> g[S]]
  /\ g[{}] = base
  /\ \A S \in SUBSET (1 .. Len(s)) : S # {} =>
       /\ g[S \ {Max(S)}] \in A /\ s[Max(S)] \in T
       /\ g[S] = step[<<g[S \ {Max(S)}], s[Max(S)]>>]

LEMMA LastOfSubset ==
  ASSUME NEW T, NEW s \in Seq(T), NEW S \in SUBSET (1 .. Len(s)), S # {}
  PROVE  Max(S) \in 1 .. Len(s) /\ s[Max(S)] \in T /\ S \ {Max(S)} \in SUBSET (1 .. Len(s))
  <1>1. PICK n \in Nat : n = Len(s) /\ S \in SUBSET (1 .. n)
    OBVIOUS
  <1>2. Max(S) \in S
    BY <1>1, LastIndex
  <1>3. Max(S) \in 1 .. Len(s)
    BY <1>2
  <1>4. \A i \in S \ {Max(S)} : i \in 1 .. Len(s)
    OBVIOUS
  <1>5. \A i \in 1 .. Len(s) : s[i] \in T
    OBVIOUS
  <1> QED
    BY <1>3, <1>4, <1>5

LEMMA TableFacts ==
  ASSUME NEW A, NEW T, NEW step \in [A \X T -> A], NEW base \in A, NEW s \in Seq(T)
  PROVE  \E g : IsTable(A, T, step, base, s, g)
  <1>1. PICK g \in [SUBSET (1 .. Len(s)) -> A] :
          \A S \in SUBSET (1 .. Len(s)) : g[S] = FoldStep(step, base, s, g, S)
    <2>1. HasTable(A, step, base, s)
      BY TableExists
    <2> QED
      BY <2>1 DEF HasTable
  <1>2. g[{}] = base
    BY <1>1 DEF FoldStep
  <1>3. ASSUME NEW S \in SUBSET (1 .. Len(s)), S # {}
        PROVE  /\ g[S \ {Max(S)}] \in A /\ s[Max(S)] \in T
               /\ g[S] = step[<<g[S \ {Max(S)}], s[Max(S)]>>]
    <2>1. s[Max(S)] \in T /\ S \ {Max(S)} \in SUBSET (1 .. Len(s))
      BY <1>3, LastOfSubset
    <2>2. g[S] = step[<<g[S \ {Max(S)}], s[Max(S)]>>]
      BY <1>1, <1>3 DEF FoldStep
    <2> QED
      BY <1>1, <2>1, <2>2
  <1>4. g = [S \in SUBSET (1 .. Len(s)) |-> g[S]]
    BY <1>1
  <1>5. IsTable(A, T, step, base, s, g)
    BY <1>2, <1>3, <1>4 DEF IsTable
  <1> QED
    BY <1>5

\* A table that makes a step of every result in A holds a walk, and its end.
LEMMA TableWalks ==
  ASSUME NEW A, NEW T, NEW step \in [A \X T -> A], NEW base \in A, NEW s \in Seq(T),
         NEW g, g[{}] = base,
         \A S \in SUBSET (1 .. Len(s)) : S # {} /\ g[S \ {Max(S)}] \in A =>
           g[S] = step[<<g[S \ {Max(S)}], s[Max(S)]>>]
  PROVE  Walks(step, base, s, g[1 .. Len(s)]) /\ g[1 .. Len(s)] \in A
  <1> DEFINE n == Len(s)
             r == [i \in 0 .. n |-> g[1 .. i]]
             Good == {i \in 0 .. n : r[i] \in A}
  <1>1. n \in Nat /\ \A i \in 1 .. n : s[i] \in T
    OBVIOUS
  <1>2. r[0] = base /\ 0 \in Good
    <2>1. 1 .. 0 = {} /\ 0 \in 0 .. n
      BY <1>1
    <2> QED
      BY <2>1
  <1>3. ASSUME NEW i \in 1 .. n, r[i - 1] \in A PROVE r[i] = step[<<r[i - 1], s[i]>>]
    <2>1. 1 .. i \in SUBSET (1 .. n) /\ 1 .. i # {} /\ i \in 1 .. i
      <3>1. i \in 1 .. i /\ \A j \in 1 .. i : j \in 1 .. n
        BY <1>1
      <3> QED
        BY <3>1
    <2>2. Max(1 .. i) = i
      <3>1. Max(1 .. i) \in 1 .. i /\ i <= Max(1 .. i)
        BY <1>1, <2>1, LastIndex
      <3> QED
        BY <3>1
    <2>3. (1 .. i) \ {i} = 1 .. i - 1
      OBVIOUS
    <2>4. r[i] = g[1 .. i] /\ r[i - 1] = g[1 .. i - 1]
      BY <1>1
    <2>5. g[(1 .. i) \ {Max(1 .. i)}] \in A
      BY <1>3, <2>2, <2>3, <2>4
    <2>6. g[1 .. i] = step[<<g[(1 .. i) \ {Max(1 .. i)}], s[Max(1 .. i)]>>]
      BY <2>1, <2>5
    <2> QED
      BY <2>2, <2>3, <2>4, <2>6
  <1>4. \A i \in 1 .. n : i - 1 \in Good => i \in Good
    <2> SUFFICES ASSUME NEW i \in 1 .. n, i - 1 \in Good PROVE i \in Good
      OBVIOUS
    <2>1. r[i - 1] \in A /\ i \in 0 .. n
      BY <1>1
    <2>2. r[i] = step[<<r[i - 1], s[i]>>] /\ s[i] \in T
      BY <1>1, <1>3, <2>1
    <2> HIDE DEF r, n
    <2> QED
      BY <2>1, <2>2
  <1>5. \A i \in 0 .. n : i \in Good
    <2> HIDE DEF Good, n
    <2> QED
      BY <1>1, <1>2, <1>4, Climb
  <1>6. r[n] = g[1 .. n] /\ r[n] \in A
    BY <1>1, <1>5
  <1>7. \A i \in 1 .. n : r[i] = step[<<r[i - 1], s[i]>>]
    <2> SUFFICES ASSUME NEW i \in 1 .. n PROVE r[i] = step[<<r[i - 1], s[i]>>]
      OBVIOUS
    <2>1. i - 1 \in 0 .. n
      BY <1>1
    <2> QED
      BY <1>3, <1>5, <2>1
  <1> HIDE DEF r
  <1> QED
    BY <1>2, <1>6, <1>7 DEF Walks

-----------------------------------------------------------------------------
(* The four folds of Fen.                                                  *)

Tokens ==
  {Slash} \union {Skip(n) : n \in Nat \ {0}} \union {Man(side, type) : side \in Sides, type \in Types}

Lines == [text : Seq(Tokens), empty : Nat]
NewLine == [text |-> <<>>, empty |-> 0]

Scanner(bb, y) == [a \in Lines \X (0 .. 7) |-> ScanSquare(bb, a[1], 8 * y + a[2])]

LEMMA ColumnsFacts ==
  /\ Columns \in Seq(0 .. 7) /\ Len(Columns) = 8 /\ DOMAIN Columns = 1 .. 8
  /\ \A i \in 1 .. 8 : Columns[i] = i - 1
  /\ Rows \in Seq(0 .. 7) /\ Len(Rows) = 8 /\ DOMAIN Rows = 1 .. 8
  /\ \A i \in 1 .. 8 : Rows[i] = 8 - i
  <1>1. /\ Columns \in Seq(0 .. 7) /\ Len(Columns) = 8 /\ DOMAIN Columns = 1 .. 8
        /\ \A i \in 1 .. 8 : Columns[i] = i - 1
    BY DEF Columns
  <1>2. Rows = [i \in 1 .. 8 |-> Columns[(8 - i) + 1]]
    BY <1>1 DEF Rows, Reverse
  <1>3. \A i \in 1 .. 8 : Rows[i] = 8 - i
    BY <1>1, <1>2
  <1> QED
    BY <1>1, <1>2, <1>3

\* The man on a square that is not empty.
LEMMA ManFacts ==
  ASSUME NEW bb \in Boards, NEW p \in Squares, p \notin Empty(bb)
  PROVE  /\ ColorAt(bb, p) \in Sides /\ TypeAt(bb, ColorAt(bb, p), p) \in Types
         /\ p \in bb[ColorAt(bb, p)][TypeAt(bb, ColorAt(bb, p), p)]
         /\ Man(ColorAt(bb, p), TypeAt(bb, ColorAt(bb, p), p)) \in Tokens
  <1>1. p \in SideBoard(bb, ColorAt(bb, p)) /\ ColorAt(bb, p) \in Sides
    BY DEF Empty, All, ColorAt, Sides
  <1>2. /\ TypeAt(bb, ColorAt(bb, p), p) \in Types
        /\ p \in bb[ColorAt(bb, p)][TypeAt(bb, ColorAt(bb, p), p)]
    BY <1>1, TypeAtFacts
  <1> QED
    BY <1>1, <1>2 DEF Tokens

LEMMA FlushedFacts ==
  ASSUME NEW text \in Seq(Tokens), NEW n \in Nat
  PROVE  Flushed(text, n) \in Seq(Tokens)
  <1>1. n > 0 => Skip(n) \in Tokens
    BY DEF Tokens
  <1> QED
    BY <1>1 DEF Flushed

LEMMA ScannerFacts ==
  ASSUME NEW bb \in Boards, NEW y \in 0 .. 7
  PROVE  Scanner(bb, y) \in [Lines \X (0 .. 7) -> Lines]
  <1> SUFFICES ASSUME NEW line \in Lines, NEW x \in 0 .. 7
               PROVE  ScanSquare(bb, line, 8 * y + x) \in Lines
    BY DEF Scanner
  <1>1. PICK p \in Squares : p = 8 * y + x
    BY DEF Squares
  <1>2. line.text \in Seq(Tokens) /\ line.empty \in Nat
    BY DEF Lines
  <1>3. CASE p \in Empty(bb)
    BY <1>1, <1>2, <1>3 DEF ScanSquare, Lines
  <1>4. CASE p \notin Empty(bb)
    <2>1. Man(ColorAt(bb, p), TypeAt(bb, ColorAt(bb, p), p)) \in Tokens
      BY <1>1, <1>4, ManFacts
    <2>2. Flushed(line.text, line.empty) \in Seq(Tokens)
      BY <1>2, FlushedFacts
    <2>3. Append(Flushed(line.text, line.empty), Man(ColorAt(bb, p), TypeAt(bb, ColorAt(bb, p), p)))
            \in Seq(Tokens)
      BY <2>1, <2>2
    <2> QED
      BY <1>1, <1>4, <2>3 DEF ScanSquare, Lines
  <1> QED
    BY <1>3, <1>4

ScanStep(bb, y, g, S) ==
  IF S = {} THEN NewLine
  ELSE LET x == Max(S) IN ScanSquare(bb, g[S \ {x}], 8 * y + Columns[x])

ScanTable(bb, y, g) == g = [S \in SUBSET (DOMAIN Columns) |-> ScanStep(bb, y, g, S)]

LEMMA ScanIsFold ==
  ASSUME NEW bb, NEW y
  PROVE  ScanRow(bb, y) = (CHOOSE g : ScanTable(bb, y, g))[DOMAIN Columns]
  BY DEF ScanRow, FoldLeft, MapThenFoldSet, ScanTable, ScanStep, NewLine

LEMMA ScanWalks ==
  ASSUME NEW bb \in Boards, NEW y \in 0 .. 7
  PROVE  /\ Walks(Scanner(bb, y), NewLine, Columns, ScanRow(bb, y))
         /\ ScanRow(bb, y) \in Lines
  <1> DEFINE C == CHOOSE g : ScanTable(bb, y, g)
  <1>1. PICK step, s, T, A : step = Scanner(bb, y) /\ s = Columns /\ T = 0 .. 7 /\ A = Lines
    OBVIOUS
  <1>2. /\ step \in [A \X T -> A] /\ s \in Seq(T) /\ DOMAIN s = 1 .. Len(s)
        /\ \A a \in A, x \in T : step[<<a, x>>] = ScanSquare(bb, a, 8 * y + x)
    BY <1>1, ScannerFacts, ColumnsFacts DEF Scanner
  <1>3. NewLine \in A
    BY <1>1 DEF NewLine, Lines
  <1>4. PICK f : IsTable(A, T, step, NewLine, s, f)
    BY <1>2, <1>3, TableFacts
  <1>5. ASSUME NEW S \in SUBSET (1 .. Len(s)) PROVE f[S] = ScanStep(bb, y, f, S)
    <2>1. CASE S = {}
      BY <1>4, <2>1 DEF ScanStep, IsTable
    <2>2. CASE S # {}
      <3>1. /\ f[S \ {Max(S)}] \in A /\ s[Max(S)] \in T
            /\ f[S] = step[<<f[S \ {Max(S)}], s[Max(S)]>>]
        BY <1>4, <2>2 DEF IsTable
      <3>2. f[S] = ScanSquare(bb, f[S \ {Max(S)}], 8 * y + s[Max(S)])
        BY <1>2, <3>1
      <3> QED
        BY <1>1, <2>2, <3>2 DEF ScanStep
    <2> QED
      BY <2>1, <2>2
  <1>6. ScanTable(bb, y, f)
    BY <1>1, <1>2, <1>4, <1>5 DEF ScanTable, IsTable
  <1>7. ScanTable(bb, y, C)
    BY <1>6
  <1> HIDE DEF C
  <1>8. \A S \in SUBSET (1 .. Len(s)) : C[S] = ScanStep(bb, y, C, S)
    BY <1>1, <1>2, <1>7 DEF ScanTable
  <1>9. C[{}] = NewLine
    BY <1>8 DEF ScanStep
  <1>10. ASSUME NEW S \in SUBSET (1 .. Len(s)), S # {}, C[S \ {Max(S)}] \in A
         PROVE  C[S] = step[<<C[S \ {Max(S)}], s[Max(S)]>>]
    <2>1. s[Max(S)] \in T
      BY <1>2, <1>10, LastOfSubset
    <2>2. C[S] = ScanSquare(bb, C[S \ {Max(S)}], 8 * y + s[Max(S)])
      BY <1>1, <1>8, <1>10 DEF ScanStep
    <2> QED
      BY <1>2, <1>10, <2>1, <2>2
  <1>11. Walks(step, NewLine, s, C[1 .. Len(s)]) /\ C[1 .. Len(s)] \in A
    BY <1>2, <1>3, <1>9, <1>10, TableWalks
  <1>12. ScanRow(bb, y) = C[1 .. Len(s)]
    BY <1>1, <1>2, ScanIsFold DEF C
  <1> QED
    BY <1>1, <1>11, <1>12


\* A reader that is at st[<<y, x>>] before column x of row y: what it does with
\* a run of empty squares, a man and a slash of the text of bb.
ManAt(bb, p) == Man(ColorAt(bb, p), TypeAt(bb, ColorAt(bb, p), p))

EmptyRun(bb, y, x, k) == \A q \in 0 .. 7 : x <= q /\ q < k => 8 * y + q \in Empty(bb)

FollowsSkip(bb, step, st) ==
  \A y \in 0 .. 7, x \in 0 .. 7, k \in 1 .. 8, n \in 1 .. 8 :
    x + n = k /\ EmptyRun(bb, y, x, k) => step[<<st[<<y, x>>], Skip(n)>>] = st[<<y, k>>]

FollowsMan(bb, step, st) ==
  \A y \in 0 .. 7, x \in 0 .. 7 :
    8 * y + x \notin Empty(bb) =>
      step[<<st[<<y, x>>], ManAt(bb, 8 * y + x)>>] = st[<<y, x + 1>>]

FollowsSlash(step, st) ==
  \A y \in 1 .. 7 : step[<<st[<<y, 8>>], Slash>>] = st[<<y - 1, 0>>]

Follows(bb, step, st) ==
  FollowsSkip(bb, step, st) /\ FollowsMan(bb, step, st) /\ FollowsSlash(step, st)

HasRead(step, st, text, y, x) == Walks(step, st[<<7, 0>>], text, st[<<y, x>>])

RowHasRead(step, st, text, y, x) == Walks(step, st[<<y, 0>>], text, st[<<y, x>>])

\* Behind the first k columns of a row: the reader has read the row up to the
\* empty squares that are still counted.
RowRead(bb, step, st, y, k, line) ==
  /\ line \in Lines
  /\ \E x \in 0 .. k : /\ x + line.empty = k
                       /\ EmptyRun(bb, y, x, k)
                       /\ RowHasRead(step, st, line.text, y, x)

LEMMA FlushedRead ==
  ASSUME NEW bb \in Boards, NEW step, NEW st, Follows(bb, step, st), NEW y \in 0 .. 7,
         NEW k \in 0 .. 8, NEW line, RowRead(bb, step, st, y, k, line)
  PROVE  RowHasRead(step, st, Flushed(line.text, line.empty), y, k)
  <1>1. PICK x \in 0 .. k : /\ x + line.empty = k
                            /\ EmptyRun(bb, y, x, k)
                            /\ RowHasRead(step, st, line.text, y, x)
    BY DEF RowRead
  <1>2. PICK n \in Nat, text \in Seq(Tokens) : n = line.empty /\ text = line.text
    BY DEF RowRead, Lines
  <1>3. CASE n = 0
    <2>1. Flushed(line.text, line.empty) = text /\ x = k
      BY <1>1, <1>2, <1>3 DEF Flushed
    <2> QED
      BY <1>1, <1>2, <2>1
  <1>4. CASE n # 0
    <2>1. n \in 1 .. 8 /\ x \in 0 .. 7 /\ x + n = k /\ n > 0 /\ k \in 1 .. 8
      <3>1. x + n = k
        BY <1>1, <1>2
      <3>2. n \in Nat /\ x \in 0 .. k /\ k \in 0 .. 8
        OBVIOUS
      <3> QED
        BY <3>1, <3>2, <1>4
    <2>2. step[<<st[<<y, x>>], Skip(n)>>] = st[<<y, k>>]
      BY <1>1, <2>1 DEF Follows, FollowsSkip
    <2>3. Skip(n) \in Tokens
      BY <2>1 DEF Tokens
    <2>4. Walks(step, st[<<y, 0>>], text, st[<<y, x>>])
      BY <1>1, <1>2 DEF RowHasRead
    <2>5. Walks(step, st[<<y, 0>>], Append(text, Skip(n)), step[<<st[<<y, x>>], Skip(n)>>])
      BY <1>2, <2>3, <2>4, WalkAppend
    <2>6. Flushed(line.text, line.empty) = Append(text, Skip(n))
      BY <1>2, <2>1 DEF Flushed
    <2> QED
      BY <2>2, <2>5, <2>6 DEF RowHasRead
  <1> QED
    BY <1>3, <1>4

LEMMA SquareRead ==
  ASSUME NEW bb \in Boards, NEW step, NEW st, Follows(bb, step, st), NEW y \in 0 .. 7,
         NEW k \in 0 .. 7, NEW line, RowRead(bb, step, st, y, k, line)
  PROVE  RowRead(bb, step, st, y, k + 1, ScanSquare(bb, line, 8 * y + k))
  <1>1. PICK p \in Squares : p = 8 * y + k
    BY DEF Squares
  <1>2. PICK next : next = ScanSquare(bb, line, p)
    OBVIOUS
  <1>3. line \in Lines /\ line.text \in Seq(Tokens) /\ line.empty \in Nat
    BY DEF RowRead, Lines
  <1>4. next \in Lines
    <2>1. Scanner(bb, y)[<<line, k>>] = next
      BY <1>1, <1>2, <1>3 DEF Scanner
    <2> QED
      BY <1>3, <2>1, ScannerFacts
  <1>5. CASE p \in Empty(bb)
    <2>1. PICK x \in 0 .. k : /\ x + line.empty = k
                              /\ EmptyRun(bb, y, x, k)
                              /\ RowHasRead(step, st, line.text, y, x)
      BY DEF RowRead
    <2>2. next.text = line.text /\ next.empty = line.empty + 1
      BY <1>2, <1>3, <1>5 DEF ScanSquare, Lines
    <2>3. EmptyRun(bb, y, x, k + 1)
      BY <1>1, <1>5, <2>1 DEF EmptyRun
    <2>4. x \in 0 .. k + 1 /\ x + next.empty = k + 1
      BY <1>3, <2>1, <2>2
    <2> QED
      BY <1>1, <1>2, <1>4, <2>1, <2>2, <2>3, <2>4 DEF RowRead
  <1>6. CASE p \notin Empty(bb)
    <2>1. PICK before \in Seq(Tokens), man \in Tokens :
            before = Flushed(line.text, line.empty) /\ man = ManAt(bb, p)
      BY <1>3, <1>6, FlushedFacts, ManFacts DEF ManAt
    <2>2. next = [text |-> Append(before, man), empty |-> 0]
      BY <1>2, <1>6, <2>1 DEF ScanSquare, ManAt
    <2>3. RowHasRead(step, st, before, y, k)
      <3>1. k \in 0 .. 8
        OBVIOUS
      <3> QED
        BY <2>1, <3>1, FlushedRead
    <2>4. Walks(step, st[<<y, 0>>], before, st[<<y, k>>])
      BY <2>3 DEF RowHasRead
    <2>5. step[<<st[<<y, k>>], man>>] = st[<<y, k + 1>>]
      BY <1>1, <1>6, <2>1 DEF Follows, FollowsMan
    <2>6. Walks(step, st[<<y, 0>>], Append(before, man), step[<<st[<<y, k>>], man>>])
      BY <2>1, <2>4, WalkAppend
    <2>7. RowHasRead(step, st, next.text, y, k + 1)
      BY <2>2, <2>5, <2>6 DEF RowHasRead
    <2>8. k + 1 \in 0 .. k + 1 /\ (k + 1) + next.empty = k + 1 /\ EmptyRun(bb, y, k + 1, k + 1)
      BY <2>2 DEF EmptyRun
    <2> QED
      BY <1>1, <1>2, <1>4, <2>7, <2>8 DEF RowRead
  <1> QED
    BY <1>5, <1>6

LEMMA RowTextRead ==
  ASSUME NEW bb \in Boards, NEW step, NEW st, Follows(bb, step, st), NEW y \in 0 .. 7
  PROVE  RowText(bb, y) \in Seq(Tokens) /\ RowHasRead(step, st, RowText(bb, y), y, 8)
  <1>1. Walks(Scanner(bb, y), NewLine, Columns, ScanRow(bb, y))
    BY ScanWalks
  <1>2. PICK r : /\ r[0] = NewLine /\ r[8] = ScanRow(bb, y)
                 /\ \A i \in 1 .. 8 : r[i] = Scanner(bb, y)[<<r[i - 1], Columns[i]>>]
    BY <1>1, ColumnsFacts DEF Walks
  <1> DEFINE Good == {i \in 0 .. 8 : RowRead(bb, step, st, y, i, r[i])}
  <1>3. 0 \in Good
    <2>1. r[0] \in Lines /\ r[0].empty = 0 /\ r[0].text = <<>>
      BY <1>2 DEF NewLine, Lines
    <2>2. EmptyRun(bb, y, 0, 0)
      BY DEF EmptyRun
    <2>3. RowHasRead(step, st, <<>>, y, 0)
      BY WalkEmpty DEF RowHasRead
    <2>4. 0 \in 0 .. 0 /\ 0 + r[0].empty = 0
      BY <2>1
    <2> QED
      BY <2>1, <2>2, <2>3, <2>4 DEF RowRead
  <1>4. ASSUME NEW i \in 1 .. 8, i - 1 \in Good PROVE i \in Good
    <2>1. PICK k \in 0 .. 7 : k = i - 1
      OBVIOUS
    <2>2. RowRead(bb, step, st, y, k, r[k]) /\ r[k] \in Lines
      BY <1>4, <2>1 DEF RowRead
    <2>3. r[i] = ScanSquare(bb, r[k], 8 * y + k)
      BY <1>2, <2>1, <2>2, ColumnsFacts DEF Scanner
    <2>4. RowRead(bb, step, st, y, k + 1, r[i])
      BY <2>2, <2>3, SquareRead
    <2> QED
      BY <2>1, <2>4
  <1>5. 8 \in Good
    <2> HIDE DEF Good
    <2>1. \A i \in 0 .. 8 : i \in Good
      BY <1>3, <1>4, Climb
    <2> QED
      BY <2>1
  <1>6. RowRead(bb, step, st, y, 8, ScanRow(bb, y))
    BY <1>2, <1>5
  <1>7. RowText(bb, y) = Flushed(ScanRow(bb, y).text, ScanRow(bb, y).empty)
    BY DEF RowText
  <1>8. RowText(bb, y) \in Seq(Tokens)
    BY <1>6, <1>7, FlushedFacts DEF RowRead, Lines
  <1>9. RowHasRead(step, st, RowText(bb, y), y, 8)
    BY <1>6, <1>7, FlushedRead
  <1> QED
    BY <1>8, <1>9


LEMMA RowTextFacts ==
  ASSUME NEW bb \in Boards, NEW y \in 0 .. 7
  PROVE  RowText(bb, y) \in Seq(Tokens)
  <1>1. ScanRow(bb, y).text \in Seq(Tokens) /\ ScanRow(bb, y).empty \in Nat
    BY ScanWalks DEF Lines
  <1> QED
    BY <1>1, FlushedFacts DEF RowText

Ending(y) == IF y > 0 THEN <<Slash>> ELSE <<>>

Writer(bb) == [a \in Seq(Tokens) \X (0 .. 7) |-> a[1] \o RowText(bb, a[2]) \o Ending(a[2])]

LEMMA EndingFacts == \A y \in 0 .. 7 : Ending(y) \in Seq(Tokens)
  <1>1. Slash \in Tokens
    BY DEF Tokens
  <1> QED
    BY <1>1 DEF Ending

LEMMA WriterFacts ==
  ASSUME NEW bb \in Boards
  PROVE  Writer(bb) \in [Seq(Tokens) \X (0 .. 7) -> Seq(Tokens)]
  <1> SUFFICES ASSUME NEW text \in Seq(Tokens), NEW y \in 0 .. 7
               PROVE  text \o RowText(bb, y) \o Ending(y) \in Seq(Tokens)
    BY DEF Writer
  <1>1. RowText(bb, y) \in Seq(Tokens) /\ Ending(y) \in Seq(Tokens)
    BY RowTextFacts, EndingFacts
  <1> QED
    BY <1>1

WriteStep(bb, g, S) ==
  IF S = {} THEN <<>>
  ELSE LET x == Max(S) IN g[S \ {x}] \o RowText(bb, Rows[x]) \o Ending(Rows[x])

WriteTable(bb, g) == g = [S \in SUBSET (DOMAIN Rows) |-> WriteStep(bb, g, S)]

LEMMA WriteIsFold ==
  ASSUME NEW bb
  PROVE  get_fen(bb) = (CHOOSE g : WriteTable(bb, g))[DOMAIN Rows]
  BY DEF get_fen, FoldLeft, MapThenFoldSet, WriteTable, WriteStep, Ending

LEMMA WriteWalks ==
  ASSUME NEW bb \in Boards
  PROVE  Walks(Writer(bb), <<>>, Rows, get_fen(bb)) /\ get_fen(bb) \in Seq(Tokens)
  <1> DEFINE C == CHOOSE g : WriteTable(bb, g)
  <1>1. PICK step, s, T, A, base :
          /\ step = Writer(bb) /\ s = Rows /\ T = 0 .. 7 /\ A = Seq(Tokens) /\ base = <<>>
    OBVIOUS
  <1>2. /\ step \in [A \X T -> A] /\ s \in Seq(T) /\ DOMAIN s = 1 .. Len(s)
        /\ \A a \in A, x \in T : step[<<a, x>>] = a \o RowText(bb, x) \o Ending(x)
    BY <1>1, WriterFacts, ColumnsFacts DEF Writer
  <1>3. base \in A
    BY <1>1
  <1>4. PICK f : IsTable(A, T, step, base, s, f)
    BY <1>2, <1>3, TableFacts
  <1>5. ASSUME NEW S \in SUBSET (1 .. Len(s)) PROVE f[S] = WriteStep(bb, f, S)
    <2>1. CASE S = {}
      BY <1>1, <1>4, <2>1 DEF WriteStep, IsTable
    <2>2. CASE S # {}
      <3>1. /\ f[S \ {Max(S)}] \in A /\ s[Max(S)] \in T
            /\ f[S] = step[<<f[S \ {Max(S)}], s[Max(S)]>>]
        BY <1>4, <2>2 DEF IsTable
      <3>2. f[S] = f[S \ {Max(S)}] \o RowText(bb, s[Max(S)]) \o Ending(s[Max(S)])
        BY <1>2, <3>1
      <3> QED
        BY <1>1, <2>2, <3>2 DEF WriteStep
    <2> QED
      BY <2>1, <2>2
  <1>6. WriteTable(bb, f)
    BY <1>1, <1>2, <1>4, <1>5 DEF WriteTable, IsTable
  <1>7. WriteTable(bb, C)
    BY <1>6
  <1> HIDE DEF C
  <1>8. \A S \in SUBSET (1 .. Len(s)) : C[S] = WriteStep(bb, C, S)
    BY <1>1, <1>2, <1>7 DEF WriteTable
  <1>9. C[{}] = base
    BY <1>1, <1>8 DEF WriteStep
  <1>10. ASSUME NEW S \in SUBSET (1 .. Len(s)), S # {}, C[S \ {Max(S)}] \in A
         PROVE  C[S] = step[<<C[S \ {Max(S)}], s[Max(S)]>>]
    <2>1. s[Max(S)] \in T
      BY <1>2, <1>10, LastOfSubset
    <2>2. C[S] = C[S \ {Max(S)}] \o RowText(bb, s[Max(S)]) \o Ending(s[Max(S)])
      BY <1>1, <1>8, <1>10 DEF WriteStep
    <2> QED
      BY <1>2, <1>10, <2>1, <2>2
  <1>11. Walks(step, base, s, C[1 .. Len(s)]) /\ C[1 .. Len(s)] \in A
    BY <1>2, <1>3, <1>9, <1>10, TableWalks
  <1>12. get_fen(bb) = C[1 .. Len(s)]
    BY <1>1, <1>2, WriteIsFold DEF C
  <1> QED
    BY <1>1, <1>11, <1>12

\* Where the reader is behind the first i rows of the text.
Behind(i) == IF i < 8 THEN <<7 - i, 0>> ELSE <<0, 8>>

BoardHasRead(step, st, text, i) ==
  text \in Seq(Tokens) /\ Walks(step, st[<<7, 0>>], text, st[Behind(i)])

\* Who follows the men and the empty squares of a board reads its text from
\* the first column of row 7 to the last of row 0.
LEMMA TextRead ==
  ASSUME NEW bb \in Boards, NEW step, NEW st, Follows(bb, step, st)
  PROVE  HasRead(step, st, get_fen(bb), 0, 8)
  <1>1. Walks(Writer(bb), <<>>, Rows, get_fen(bb))
    BY WriteWalks
  <1>2. PICK r : /\ r[0] = <<>> /\ r[8] = get_fen(bb)
                 /\ \A i \in 1 .. 8 : r[i] = Writer(bb)[<<r[i - 1], Rows[i]>>]
    BY <1>1, ColumnsFacts DEF Walks
  <1> DEFINE Good == {i \in 0 .. 8 : BoardHasRead(step, st, r[i], i)}
  <1>3. 0 \in Good
    <2>1. Behind(0) = <<7, 0>>
      BY DEF Behind
    <2>2. Walks(step, st[<<7, 0>>], <<>>, st[<<7, 0>>]) /\ <<>> \in Seq(Tokens)
      BY WalkEmpty
    <2>3. BoardHasRead(step, st, r[0], 0)
      BY <1>2, <2>1, <2>2 DEF BoardHasRead
    <2> QED
      BY <2>3
  <1>4. ASSUME NEW i \in 1 .. 8, i - 1 \in Good PROVE i \in Good
    <2>0. PICK y \in 0 .. 7 : y = 8 - i
      OBVIOUS
    <2>1. PICK old, e, row :
            y = 8 - i /\ old = r[i - 1] /\ e = Ending(y) /\ row = RowText(bb, y)
      BY <2>0
    <2>2. Rows[i] = y /\ Behind(i - 1) = <<y, 0>>
      BY <2>1, ColumnsFacts DEF Behind
    <2>3. old \in Seq(Tokens) /\ Walks(step, st[<<7, 0>>], old, st[<<y, 0>>])
      BY <1>4, <2>1, <2>2 DEF BoardHasRead
    <2>4. row \in Seq(Tokens) /\ e \in Seq(Tokens)
      BY <2>1, RowTextFacts, EndingFacts
    <2>5. Walks(step, st[<<y, 0>>], row, st[<<y, 8>>])
      BY <2>1, RowTextRead DEF RowHasRead
    <2>6. Walks(step, st[<<y, 8>>], e, st[Behind(i)])
      <3>1. CASE y = 0
        <4>1. e = <<>> /\ Behind(i) = <<0, 8>>
          BY <2>1, <3>1 DEF Ending, Behind
        <4> QED
          BY <3>1, <4>1, WalkEmpty
      <3>2. CASE y # 0
        <4>1. e = <<Slash>> /\ Behind(i) = <<y - 1, 0>> /\ y \in 1 .. 7
          BY <2>1, <3>2 DEF Ending, Behind
        <4>2. step[<<st[<<y, 8>>], Slash>>] = st[<<y - 1, 0>>]
          BY <4>1 DEF Follows, FollowsSlash
        <4>3. Walks(step, st[<<y, 8>>], <<>>, st[<<y, 8>>]) /\ <<>> \in Seq(Tokens) /\ Slash \in Tokens
          BY WalkEmpty DEF Tokens
        <4>4. Append(<<>>, Slash) = <<Slash>>
          OBVIOUS
        <4>5. Walks(step, st[<<y, 8>>], Append(<<>>, Slash), step[<<st[<<y, 8>>], Slash>>])
          BY <4>3, WalkAppend
        <4> QED
          BY <4>1, <4>2, <4>4, <4>5
      <3> QED
        BY <3>1, <3>2
    <2>7. r[i] = (old \o row) \o e
      BY <1>2, <2>1, <2>2, <2>3 DEF Writer
    <2>8. Walks(step, st[<<7, 0>>], old \o row, st[<<y, 8>>]) /\ old \o row \in Seq(Tokens)
      BY <2>3, <2>4, <2>5, WalkJoin
    <2>9. Walks(step, st[<<7, 0>>], (old \o row) \o e, st[Behind(i)])
      BY <2>4, <2>6, <2>8, WalkJoin
    <2>10. (old \o row) \o e \in Seq(Tokens)
      BY <2>4, <2>8
    <2>11. BoardHasRead(step, st, r[i], i)
      BY <2>7, <2>9, <2>10 DEF BoardHasRead
    <2> QED
      BY <2>11
  <1>5. 8 \in Good
    <2> HIDE DEF Good
    <2>1. \A i \in 0 .. 8 : i \in Good
      BY <1>3, <1>4, Climb
    <2> QED
      BY <2>1
  <1>6. Behind(8) = <<0, 8>>
    BY DEF Behind
  <1> QED
    BY <1>2, <1>5, <1>6 DEF HasRead, BoardHasRead


-----------------------------------------------------------------------------
(* Pieces: the constructor of the board.                                   *)

ReadStates == [bb : [Sides -> [Types -> SUBSET Int]], x : Int, y : Int]

Reader == [a \in ReadStates \X Tokens |-> ReadPiece(a[1], a[2])]

LEMMA TokenFacts ==
  ASSUME NEW t \in Tokens
  PROVE  \/ t = Slash /\ t.kind = "slash"
         \/ t.kind = "skip" /\ t.n \in Nat \ {0} /\ t = Skip(t.n)
         \/ t.kind = "man" /\ t.side \in Sides /\ t.type \in Types /\ t = Man(t.side, t.type)
  BY DEF Tokens, Slash, Skip, Man

ReaderAt(board, y, x) == [bb |-> board, x |-> x, y |-> y]

LEMMA ReadPieceIs ==
  ASSUME NEW board, NEW x, NEW y, NEW t, NEW c, c = ReaderAt(board, y, x)
  PROVE  /\ t.kind = "slash" => ReadPiece(c, t) = ReaderAt(board, y - 1, 0)
         /\ t.kind = "skip" => ReadPiece(c, t) = ReaderAt(board, y, x + t.n)
         /\ t.kind = "man" =>
              ReadPiece(c, t) = ReaderAt(Set(board, t.side, t.type, 8 * y + x), y, x + 1)
  <1>0. c = [bb |-> board, x |-> x, y |-> y]
    BY DEF ReaderAt
  <1>1. t.kind = "slash" => ReadPiece(c, t) = [c EXCEPT !.x = 0, !.y = @ - 1]
    BY DEF ReadPiece
  <1>2. t.kind = "skip" => ReadPiece(c, t) = [c EXCEPT !.x = @ + t.n]
    BY DEF ReadPiece
  <1>3. t.kind = "man" =>
          ReadPiece(c, t) = [c EXCEPT !.bb = Set(@, t.side, t.type, 8 * c.y + c.x), !.x = @ + 1]
    BY DEF ReadPiece
  <1>4. [c EXCEPT !.x = 0, !.y = @ - 1] = [bb |-> board, x |-> 0, y |-> y - 1]
    <2>1. PICK d : d = [c EXCEPT !.x = 0]
      OBVIOUS
    <2>2. d = [bb |-> board, x |-> 0, y |-> y] /\ c.y = y
      BY <1>0, <2>1
    <2>3. [d EXCEPT !.y = c.y - 1] = [bb |-> board, x |-> 0, y |-> y - 1]
      BY <2>2
    <2> QED
      BY <2>1, <2>3
  <1>5. [c EXCEPT !.x = @ + t.n] = [bb |-> board, x |-> x + t.n, y |-> y]
    BY <1>0
  <1>6. [c EXCEPT !.bb = Set(@, t.side, t.type, 8 * c.y + c.x), !.x = @ + 1]
          = [bb |-> Set(board, t.side, t.type, 8 * y + x), x |-> x + 1, y |-> y]
    <2>1. PICK new, d : new = Set(board, t.side, t.type, 8 * y + x) /\ d = [c EXCEPT !.bb = new]
      OBVIOUS
    <2>2. d = [bb |-> new, x |-> x, y |-> y] /\ c.y = y /\ c.x = x /\ c.bb = board
      BY <1>0, <2>1
    <2>3. [d EXCEPT !.x = c.x + 1] = [bb |-> new, x |-> x + 1, y |-> y]
      BY <2>2
    <2> QED
      BY <2>1, <2>2, <2>3
  <1> QED
    BY <1>1, <1>2, <1>3, <1>4, <1>5, <1>6 DEF ReaderAt

LEMMA ReadFacts == Reader \in [ReadStates \X Tokens -> ReadStates]
  <1> SUFFICES ASSUME NEW c \in ReadStates, NEW t \in Tokens PROVE ReadPiece(c, t) \in ReadStates
    BY DEF Reader
  <1>1. PICK board \in [Sides -> [Types -> SUBSET Int]], x \in Int, y \in Int :
          c = ReaderAt(board, y, x)
    BY DEF ReadStates, ReaderAt
  <1>2. CASE t.kind = "slash"
    <2>1. ReadPiece(c, t) = ReaderAt(board, y - 1, 0)
      BY <1>1, <1>2, ReadPieceIs
    <2> QED
      BY <2>1 DEF ReadStates, ReaderAt
  <1>3. CASE t.kind = "skip" /\ t.n \in Nat
    <2>1. ReadPiece(c, t) = ReaderAt(board, y, x + t.n)
      BY <1>1, <1>3, ReadPieceIs
    <2> QED
      BY <1>3, <2>1 DEF ReadStates, ReaderAt
  <1>4. CASE t.kind = "man" /\ t.side \in Sides /\ t.type \in Types
    <2>1. Set(board, t.side, t.type, 8 * y + x) \in [Sides -> [Types -> SUBSET Int]]
      <3>1. 8 * y + x \in Int
        OBVIOUS
      <3> QED
        BY <1>4, <3>1 DEF Set
    <2>2. ReadPiece(c, t) = ReaderAt(Set(board, t.side, t.type, 8 * y + x), y, x + 1)
      BY <1>1, <1>4, ReadPieceIs
    <2> QED
      BY <2>1, <2>2 DEF ReadStates, ReaderAt
  <1> QED
    BY <1>2, <1>3, <1>4, TokenFacts

ReadStep(c, s, g, S) == IF S = {} THEN c ELSE LET i == Max(S) IN ReadPiece(g[S \ {i}], s[i])

ReadTable(c, s, g) == g = [S \in SUBSET (DOMAIN s) |-> ReadStep(c, s, g, S)]

LEMMA ReadIsFold ==
  ASSUME NEW c, NEW s
  PROVE  FoldLeft(ReadPiece, c, s) = (CHOOSE g : ReadTable(c, s, g))[DOMAIN s]
  BY DEF FoldLeft, MapThenFoldSet, ReadTable, ReadStep

LEMMA ReadWalks ==
  ASSUME NEW c \in ReadStates, NEW s \in Seq(Tokens)
  PROVE  Walks(Reader, c, s, FoldLeft(ReadPiece, c, s))
  <1> DEFINE C == CHOOSE g : ReadTable(c, s, g)
  <1>1. PICK step, A : step = Reader /\ A = ReadStates
    OBVIOUS
  <1>2. /\ step \in [A \X Tokens -> A] /\ DOMAIN s = 1 .. Len(s) /\ c \in A
        /\ \A a \in A, t \in Tokens : step[<<a, t>>] = ReadPiece(a, t)
    BY <1>1, ReadFacts DEF Reader
  <1>3. PICK f : IsTable(A, Tokens, step, c, s, f)
    BY <1>2, TableFacts
  <1>4. ASSUME NEW S \in SUBSET (1 .. Len(s)) PROVE f[S] = ReadStep(c, s, f, S)
    <2>1. CASE S = {}
      BY <1>3, <2>1 DEF ReadStep, IsTable
    <2>2. CASE S # {}
      <3>1. /\ f[S \ {Max(S)}] \in A /\ s[Max(S)] \in Tokens
            /\ f[S] = step[<<f[S \ {Max(S)}], s[Max(S)]>>]
        BY <1>3, <2>2 DEF IsTable
      <3>2. f[S] = ReadPiece(f[S \ {Max(S)}], s[Max(S)])
        BY <1>2, <3>1
      <3> QED
        BY <2>2, <3>2 DEF ReadStep
    <2> QED
      BY <2>1, <2>2
  <1>5. ReadTable(c, s, f)
    BY <1>2, <1>3, <1>4 DEF ReadTable, IsTable
  <1>6. ReadTable(c, s, C)
    BY <1>5
  <1> HIDE DEF C
  <1>7. \A S \in SUBSET (1 .. Len(s)) : C[S] = ReadStep(c, s, C, S)
    BY <1>2, <1>6 DEF ReadTable
  <1>8. C[{}] = c
    BY <1>7 DEF ReadStep
  <1>9. ASSUME NEW S \in SUBSET (1 .. Len(s)), S # {}, C[S \ {Max(S)}] \in A
        PROVE  C[S] = step[<<C[S \ {Max(S)}], s[Max(S)]>>]
    <2>1. s[Max(S)] \in Tokens
      BY <1>9, LastOfSubset
    <2>2. C[S] = ReadPiece(C[S \ {Max(S)}], s[Max(S)])
      BY <1>7, <1>9 DEF ReadStep
    <2> QED
      BY <1>2, <1>9, <2>1, <2>2
  <1>10. Walks(step, c, s, C[1 .. Len(s)])
    BY <1>2, <1>8, <1>9, TableWalks
  <1>11. FoldLeft(ReadPiece, c, s) = C[1 .. Len(s)]
    BY <1>2, ReadIsFold DEF C
  <1> QED
    BY <1>1, <1>10, <1>11


\* The squares before column x of row y, in the order of the text.
Before(y, x) == {p \in Squares : Row(p) > y \/ (Row(p) = y /\ Column(p) < x)}

Run(first, last) == {p \in Squares : p \in first .. last}

LEMMA BeforeRun ==
  ASSUME NEW y \in 0 .. 7, NEW x \in 0 .. 8, NEW k \in 0 .. 8, x <= k,
         NEW first, first = 8 * y + x, NEW last, last = 8 * y + k - 1
  PROVE  Before(y, k) = Before(y, x) \union Run(first, last)
  <1> SUFFICES ASSUME NEW p \in Squares
               PROVE  p \in Before(y, k) <=> p \in Before(y, x) \/ p \in first .. last
    BY DEF Before, Run
  <1>1. PICK r \in 0 .. 7, c \in 0 .. 7 : r = Row(p) /\ c = Column(p) /\ p = 8 * r + c
    BY SquareFacts
  <1>2. p \in Before(y, x) <=> r > y \/ (r = y /\ c < x)
    BY <1>1 DEF Before
  <1>3. p \in Before(y, k) <=> r > y \/ (r = y /\ c < k)
    BY <1>1 DEF Before
  <1>4. p \in first .. last <=> first <= p /\ p <= last
    <2>1. first \in Int /\ last \in Int /\ p \in Int
      BY <1>1
    <2> QED
      BY <2>1
  <1>5. p \in first .. last <=> r = y /\ x <= c /\ c < k
    <2>1. CASE r < y
      <3>1. 8 * r + 8 <= 8 * y
        BY <2>1
      <3> QED
        BY <1>1, <1>4, <2>1, <3>1
    <2>2. CASE r = y
      BY <1>1, <1>4, <2>2
    <2>3. CASE r > y
      <3>1. 8 * r >= 8 * y + 8
        BY <2>3
      <3> QED
        BY <1>1, <1>4, <2>3, <3>1
    <2> QED
      BY <2>1, <2>2, <2>3
  <1> QED
    BY <1>2, <1>3, <1>5

LEMMA BeforeNext ==
  ASSUME NEW y \in 0 .. 7, NEW x \in 0 .. 7, NEW p, p = 8 * y + x, NEW z, z = x + 1
  PROVE  p \in Squares /\ Before(y, z) = Before(y, x) \union {p}
  <1>1. p \in Squares
    BY DEF Squares
  <1>2. /\ x \in 0 .. 8 /\ z \in 0 .. 8 /\ x <= z /\ p = 8 * y + z - 1
    OBVIOUS
  <1>3. Before(y, z) = Before(y, x) \union Run(p, p)
    BY <1>2, BeforeRun
  <1>4. Run(p, p) = {p}
    BY <1>1 DEF Run, Squares
  <1> QED
    BY <1>1, <1>3, <1>4

LEMMA BeforeEnds ==
  /\ Before(7, 0) = {} /\ Before(0, 8) = Squares
  /\ \A y \in 1 .. 7 : Before(y, 8) = Before(y - 1, 0)
  <1>1. \A p \in Squares : Row(p) \in 0 .. 7 /\ Column(p) \in 0 .. 7
    BY SquareFacts
  <1>2. Before(7, 0) = {} /\ Before(0, 8) = Squares
    BY <1>1 DEF Before
  <1>3. \A y \in 1 .. 7 : Before(y, 8) = Before(y - 1, 0)
    BY <1>1 DEF Before
  <1> QED
    BY <1>2, <1>3

\* The men of bb among the squares before column x of row y.
Seen(bb, y, x) ==
  [side \in Sides |-> [type \in Types |-> bb[side][type] \intersect Before(y, x)]]

ReadAt(bb) ==
  [a \in (0 .. 7) \X (0 .. 8) |-> ReaderAt(Seen(bb, a[1], a[2]), a[1], a[2])]

LEMMA SeenFacts ==
  ASSUME NEW bb \in Boards
  PROVE  /\ Seen(bb, 7, 0) = NoPieces /\ Seen(bb, 0, 8) = bb
         /\ \A y \in 0 .. 7, x \in 0 .. 8 : Seen(bb, y, x) \in Boards
         /\ \A y \in 1 .. 7 : Seen(bb, y, 8) = Seen(bb, y - 1, 0)
  <1>1. \A side \in Sides, type \in Types : bb[side][type] \subseteq Squares
    BY BoardFacts
  <1>2. Seen(bb, 7, 0) = NoPieces
    BY BeforeEnds DEF Seen, NoPieces
  <1>3. Seen(bb, 0, 8) = bb
    BY <1>1, BeforeEnds DEF Seen, Boards
  <1>4. \A y \in 0 .. 7, x \in 0 .. 8 : Seen(bb, y, x) \in Boards
    BY <1>1 DEF Seen, Boards
  <1>5. \A y \in 1 .. 7 : Seen(bb, y, 8) = Seen(bb, y - 1, 0)
    BY BeforeEnds DEF Seen
  <1> QED
    BY <1>2, <1>3, <1>4, <1>5

\* The squares of an empty run, by their numbers.
LEMMA RunIsEmpty ==
  ASSUME NEW bb, NEW y \in 0 .. 7, NEW x \in 0 .. 7, NEW k \in 1 .. 8, EmptyRun(bb, y, x, k),
         NEW first, first = 8 * y + x, NEW last, last = 8 * y + k - 1, NEW p \in Run(first, last)
  PROVE  p \in Empty(bb)
  <1>1. p \in Int /\ first <= p /\ p <= last
    BY DEF Run, Squares
  <1>2. PICK q : q = p - 8 * y
    OBVIOUS
  <1>3. q \in x .. k - 1 /\ q \in 0 .. 7 /\ x <= q /\ q < k /\ 8 * y + q = p
    BY <1>1, <1>2
  <1> QED
    BY <1>3 DEF EmptyRun

LEMMA SeenRun ==
  ASSUME NEW bb \in Boards, NEW y \in 0 .. 7, NEW x \in 0 .. 7, NEW k \in 1 .. 8, x <= k,
         EmptyRun(bb, y, x, k)
  PROVE  Seen(bb, y, k) = Seen(bb, y, x)
  <1>1. PICK first, last : first = 8 * y + x /\ last = 8 * y + k - 1
    OBVIOUS
  <1>2. x \in 0 .. 8 /\ k \in 0 .. 8
    OBVIOUS
  <1>3. Before(y, k) = Before(y, x) \union Run(first, last)
    BY <1>1, <1>2, BeforeRun
  <1>4. ASSUME NEW p \in Run(first, last) PROVE p \in Empty(bb)
    BY <1>1, RunIsEmpty
  <1>5. ASSUME NEW side \in Sides, NEW type \in Types
        PROVE  bb[side][type] \intersect Before(y, k) = bb[side][type] \intersect Before(y, x)
    <2>1. ASSUME NEW p \in Run(first, last) PROVE p \notin bb[side][type]
      <3>1. p \in Empty(bb)
        BY <1>4
      <3> QED
        BY <3>1, BoardFacts DEF Empty, All, Sides
    <2> QED
      BY <1>3, <2>1
  <1> QED
    BY <1>5 DEF Seen

LEMMA SeenNext ==
  ASSUME NEW bb \in Boards, Apart(bb), NEW y \in 0 .. 7, NEW x \in 0 .. 7,
         NEW p, p = 8 * y + x, p \notin Empty(bb), NEW z, z = x + 1
  PROVE  Seen(bb, y, z) = Set(Seen(bb, y, x), ColorAt(bb, p), TypeAt(bb, ColorAt(bb, p), p), p)
  <1>1. \A side \in Sides, type \in Types : bb[side][type] \subseteq Squares
    BY BoardFacts
  <1>2. p \in Squares /\ Before(y, z) = Before(y, x) \union {p}
    BY BeforeNext
  <1>3. PICK s \in Sides, t \in Types :
          s = ColorAt(bb, p) /\ t = TypeAt(bb, ColorAt(bb, p), p) /\ p \in bb[s][t]
    BY <1>2, ManFacts
  <1>4. PICK old : old = Seen(bb, y, x) /\ old \in Boards
    <2>1. x \in 0 .. 8
      OBVIOUS
    <2> QED
      BY <2>1, SeenFacts
  <1>5. \A side \in Sides, type \in Types : p \in bb[side][type] <=> side = s /\ type = t
    BY <1>3 DEF Apart
  <1>6. Set(old, s, t, p) \in Boards
    BY <1>2, <1>4, SetFacts
  <1>7. ASSUME NEW side \in Sides, NEW type \in Types
        PROVE  Set(old, s, t, p)[side][type] = bb[side][type] \intersect Before(y, z)
    <2>1. \A q \in Squares : q \in Set(old, s, t, p)[side][type] <=>
            q \in old[side][type] \/ (side = s /\ type = t /\ q = p)
      BY <1>2, <1>4, SetFacts
    <2>2. old[side][type] = bb[side][type] \intersect Before(y, x)
      BY <1>4 DEF Seen
    <2>3. Set(old, s, t, p)[side][type] \subseteq Squares
      BY <1>6, BoardFacts
    <2> QED
      BY <1>1, <1>2, <1>5, <2>1, <2>2, <2>3
  <1>8. Set(old, s, t, p) =
          [side \in Sides |-> [type \in Types |-> bb[side][type] \intersect Before(y, z)]]
    BY <1>6, <1>7 DEF Boards
  <1> QED
    BY <1>3, <1>4, <1>8 DEF Seen


LEMMA ReaderFollows ==
  ASSUME NEW bb \in Boards, Apart(bb)
  PROVE  Follows(bb, Reader, ReadAt(bb))
  <1>1. \A y \in 0 .. 7, x \in 0 .. 8 : ReaderAt(Seen(bb, y, x), y, x) \in ReadStates
    <2> SUFFICES ASSUME NEW y \in 0 .. 7, NEW x \in 0 .. 8
                 PROVE  ReaderAt(Seen(bb, y, x), y, x) \in ReadStates
      OBVIOUS
    <2>1. Seen(bb, y, x) \in Boards
      BY SeenFacts
    <2>2. Seen(bb, y, x) \in [Sides -> [Types -> SUBSET Int]]
      BY <2>1 DEF Boards, Squares
    <2> QED
      BY <2>2 DEF ReaderAt, ReadStates
  <1>2. \A y \in 0 .. 7, x \in 0 .. 8 : ReadAt(bb)[<<y, x>>] = ReaderAt(Seen(bb, y, x), y, x)
    BY DEF ReadAt
  <1>3. ASSUME NEW y \in 0 .. 7, NEW x \in 0 .. 8, NEW t \in Tokens
        PROVE  Reader[<<ReadAt(bb)[<<y, x>>], t>>] = ReadPiece(ReaderAt(Seen(bb, y, x), y, x), t)
    BY <1>1, <1>2 DEF Reader
  <1>4. ASSUME NEW y \in 0 .. 7, NEW x \in 0 .. 7, NEW k \in 1 .. 8, NEW n \in 1 .. 8,
               x + n = k, EmptyRun(bb, y, x, k)
        PROVE  Reader[<<ReadAt(bb)[<<y, x>>], Skip(n)>>] = ReadAt(bb)[<<y, k>>]
    <2>1. Skip(n) \in Tokens /\ Skip(n).kind = "skip" /\ Skip(n).n = n
      BY DEF Tokens, Skip
    <2>2. Seen(bb, y, k) = Seen(bb, y, x)
      <3>1. x <= k
        BY <1>4
      <3> QED
        BY <1>4, <3>1, SeenRun
    <2>3. ReadPiece(ReaderAt(Seen(bb, y, x), y, x), Skip(n)) = ReaderAt(Seen(bb, y, x), y, x + n)
      BY <2>1, ReadPieceIs
    <2>4. Reader[<<ReadAt(bb)[<<y, x>>], Skip(n)>>]
            = ReadPiece(ReaderAt(Seen(bb, y, x), y, x), Skip(n))
      <3>1. x \in 0 .. 8
        OBVIOUS
      <3> QED
        BY <1>3, <2>1, <3>1
    <2>5. ReadAt(bb)[<<y, k>>] = ReaderAt(Seen(bb, y, k), y, k)
      <3>1. k \in 0 .. 8
        OBVIOUS
      <3> QED
        BY <1>2, <3>1
    <2> QED
      BY <1>4, <2>2, <2>3, <2>4, <2>5
  <1>5. ASSUME NEW y \in 0 .. 7, NEW x \in 0 .. 7, 8 * y + x \notin Empty(bb)
        PROVE  Reader[<<ReadAt(bb)[<<y, x>>], ManAt(bb, 8 * y + x)>>] = ReadAt(bb)[<<y, x + 1>>]
    <2>1. PICK p \in Squares : p = 8 * y + x
      BY BeforeNext
    <2>2. PICK s \in Sides, t \in Types : s = ColorAt(bb, p) /\ t = TypeAt(bb, ColorAt(bb, p), p)
      BY <1>5, <2>1, ManFacts
    <2>3. PICK man \in Tokens : man = ManAt(bb, p) /\ man.kind = "man" /\ man.side = s /\ man.type = t
      <3>1. Man(s, t) \in Tokens
        BY DEF Tokens
      <3>2. Man(s, t).kind = "man" /\ Man(s, t).side = s /\ Man(s, t).type = t
        BY DEF Man
      <3>3. ManAt(bb, p) = Man(s, t)
        BY <2>2 DEF ManAt
      <3> QED
        BY <3>1, <3>2, <3>3
    <2>4. Seen(bb, y, x + 1) = Set(Seen(bb, y, x), s, t, p)
      BY <1>5, <2>1, <2>2, SeenNext
    <2>5. ReadPiece(ReaderAt(Seen(bb, y, x), y, x), man)
            = ReaderAt(Set(Seen(bb, y, x), s, t, 8 * y + x), y, x + 1)
      BY <2>3, ReadPieceIs
    <2>6. Reader[<<ReadAt(bb)[<<y, x>>], man>>] = ReadPiece(ReaderAt(Seen(bb, y, x), y, x), man)
      <3>1. x \in 0 .. 8
        OBVIOUS
      <3> QED
        BY <1>3, <3>1
    <2>7. ReadAt(bb)[<<y, x + 1>>] = ReaderAt(Seen(bb, y, x + 1), y, x + 1)
      <3>1. x + 1 \in 0 .. 8
        OBVIOUS
      <3> QED
        BY <1>2, <3>1
    <2> QED
      BY <2>1, <2>3, <2>4, <2>5, <2>6, <2>7
  <1>6. ASSUME NEW y \in 1 .. 7
        PROVE  Reader[<<ReadAt(bb)[<<y, 8>>], Slash>>] = ReadAt(bb)[<<y - 1, 0>>]
    <2>1. Slash \in Tokens /\ Slash.kind = "slash" /\ y \in 0 .. 7 /\ y - 1 \in 0 .. 7
      BY DEF Tokens, Slash
    <2>2. Seen(bb, y, 8) = Seen(bb, y - 1, 0)
      BY SeenFacts
    <2>3. ReadPiece(ReaderAt(Seen(bb, y, 8), y, 8), Slash) = ReaderAt(Seen(bb, y, 8), y - 1, 0)
      BY <2>1, ReadPieceIs
    <2>4. Reader[<<ReadAt(bb)[<<y, 8>>], Slash>>] = ReadPiece(ReaderAt(Seen(bb, y, 8), y, 8), Slash)
      <3>1. 8 \in 0 .. 8
        OBVIOUS
      <3> QED
        BY <1>3, <2>1, <3>1
    <2>5. ReadAt(bb)[<<y - 1, 0>>] = ReaderAt(Seen(bb, y - 1, 0), y - 1, 0)
      <3>1. 0 \in 0 .. 8
        OBVIOUS
      <3> QED
        BY <1>2, <2>1, <3>1
    <2> QED
      BY <2>2, <2>3, <2>4, <2>5
  <1>7. FollowsSkip(bb, Reader, ReadAt(bb))
    BY <1>4 DEF FollowsSkip
  <1>8. FollowsMan(bb, Reader, ReadAt(bb))
    BY <1>5 DEF FollowsMan
  <1>9. FollowsSlash(Reader, ReadAt(bb))
    BY <1>6 DEF FollowsSlash
  <1> QED
    BY <1>7, <1>8, <1>9 DEF Follows

\* The constructor of Pieces undoes get_fen, on every board whose men stand
\* on squares of their own.
LEMMA PiecesReadBack ==
  ASSUME NEW bb \in Boards, Apart(bb)
  PROVE  Pieces(get_fen(bb)) = bb
  <1> DEFINE c == [bb |-> NoPieces, x |-> 0, y |-> 7]
             d == FoldLeft(ReadPiece, c, get_fen(bb))
  <1>1. get_fen(bb) \in Seq(Tokens)
    BY WriteWalks
  <1>2. ReadAt(bb)[<<7, 0>>] = c /\ ReadAt(bb)[<<0, 8>>] = [bb |-> bb, x |-> 8, y |-> 0]
    BY SeenFacts DEF ReadAt, ReaderAt
  <1>3. c \in ReadStates
    BY DEF NoPieces, ReadStates
  <1>4. Walks(Reader, c, get_fen(bb), d)
    BY <1>1, <1>3, ReadWalks
  <1>5. Walks(Reader, c, get_fen(bb), [bb |-> bb, x |-> 8, y |-> 0])
    BY <1>2, ReaderFollows, TextRead DEF HasRead
  <1>6. d = [bb |-> bb, x |-> 8, y |-> 0]
    BY <1>1, <1>4, <1>5, WalkEndsOnce
  <1>7. Pieces(get_fen(bb)) = d.bb
    BY DEF Pieces
  <1> QED
    BY <1>6, <1>7


-----------------------------------------------------------------------------
(* The console client's board.                                             *)

ShowStates(V) == [board : [Squares -> V], x : Int, y : Int]

Shower(V) == [a \in ShowStates(V) \X Tokens |-> ShowText(a[1], a[2])]

ShowerAt(board, y, x) == [board |-> board, x |-> x, y |-> y]

Dotted(board, first, last) == [p \in Squares |-> IF p \in first .. last THEN Dot ELSE board[p]]

Put(board, p, man) == [board EXCEPT ![p] = man]

LEMMA ShowSlash ==
  ASSUME NEW board, NEW x, NEW y, NEW t, NEW c, c = ShowerAt(board, y, x), t.kind = "slash"
  PROVE  ShowText(c, t) = ShowerAt(board, y - 1, 0)
  <1>1. c = [board |-> board, x |-> x, y |-> y]
    BY DEF ShowerAt
  <1>2. ShowText(c, t) = [c EXCEPT !.x = 0, !.y = @ - 1]
    BY DEF ShowText
  <1>3. PICK d : d = [c EXCEPT !.x = 0]
    OBVIOUS
  <1>4. d = [board |-> board, x |-> 0, y |-> y] /\ c.y = y
    BY <1>1, <1>3
  <1>5. [d EXCEPT !.y = c.y - 1] = [board |-> board, x |-> 0, y |-> y - 1]
    BY <1>4
  <1> QED
    BY <1>2, <1>3, <1>5 DEF ShowerAt

LEMMA ShowSkip ==
  ASSUME NEW board, NEW x, NEW y, NEW t, NEW c, c = ShowerAt(board, y, x), t.kind = "skip",
         NEW n, n = t.n, NEW last, last = 8 * y + x + n - 1
  PROVE  ShowText(c, t) = ShowerAt(Dotted(board, 8 * y + x, last), y, x + n)
  <1>1. c = [board |-> board, x |-> x, y |-> y]
    BY DEF ShowerAt
  <1>2. ShowText(c, t) = [c EXCEPT !.board = Dotted(@, 8 * c.y + c.x, 8 * c.y + c.x + t.n - 1),
                                   !.x = @ + t.n]
    BY DEF ShowText, Dotted
  <1>3. PICK new, d : new = Dotted(board, 8 * y + x, last) /\ d = [c EXCEPT !.board = new]
    OBVIOUS
  <1>4. d = [board |-> new, x |-> x, y |-> y] /\ c.y = y /\ c.x = x /\ c.board = board
    BY <1>1, <1>3
  <1>5. [d EXCEPT !.x = c.x + n] = [board |-> new, x |-> x + n, y |-> y]
    BY <1>4
  <1> QED
    BY <1>2, <1>3, <1>4, <1>5 DEF ShowerAt

LEMMA ShowMan ==
  ASSUME NEW board, NEW x, NEW y, NEW t, NEW c, c = ShowerAt(board, y, x), t.kind = "man",
         NEW man, man = <<t.side, t.type>>, NEW p, p = 8 * y + x
  PROVE  ShowText(c, t) = ShowerAt(Put(board, p, man), y, x + 1)
  <1>1. c = [board |-> board, x |-> x, y |-> y]
    BY DEF ShowerAt
  <1>2. ShowText(c, t) = [c EXCEPT !.board[8 * c.y + c.x] = <<t.side, t.type>>, !.x = @ + 1]
    BY DEF ShowText
  <1>3. PICK new, d : new = [board EXCEPT ![p] = man] /\ d = [c EXCEPT !.board = new]
    OBVIOUS
  <1>4. d = [board |-> new, x |-> x, y |-> y] /\ c.y = y /\ c.x = x /\ c.board = board
    BY <1>1, <1>3
  <1>5. [d EXCEPT !.x = c.x + 1] = [board |-> new, x |-> x + 1, y |-> y]
    BY <1>4
  <1> QED
    BY <1>2, <1>3, <1>4, <1>5 DEF ShowerAt, Put

LEMMA ShowFacts ==
  ASSUME NEW V, Dot \in V, Sides \X Types \subseteq V
  PROVE  Shower(V) \in [ShowStates(V) \X Tokens -> ShowStates(V)]
  <1> SUFFICES ASSUME NEW c \in ShowStates(V), NEW t \in Tokens
               PROVE  ShowText(c, t) \in ShowStates(V)
    BY DEF Shower
  <1>1. PICK board \in [Squares -> V], x \in Int, y \in Int : c = ShowerAt(board, y, x)
    BY DEF ShowStates, ShowerAt
  <1>2. CASE t.kind = "slash"
    <2>1. ShowText(c, t) = ShowerAt(board, y - 1, 0)
      BY <1>1, <1>2, ShowSlash
    <2> QED
      BY <2>1 DEF ShowStates, ShowerAt
  <1>3. CASE t.kind = "skip" /\ t.n \in Nat
    <2>1. PICK new : new = Dotted(board, 8 * y + x, 8 * y + x + t.n - 1)
      OBVIOUS
    <2>2. new \in [Squares -> V]
      BY <2>1 DEF Dotted
    <2>3. ShowText(c, t) = ShowerAt(new, y, x + t.n)
      BY <1>1, <1>3, <2>1, ShowSkip
    <2> QED
      BY <1>3, <2>2, <2>3 DEF ShowStates, ShowerAt
  <1>4. CASE t.kind = "man" /\ t.side \in Sides /\ t.type \in Types
    <2>1. PICK new : new = Put(board, 8 * y + x, <<t.side, t.type>>)
      OBVIOUS
    <2>2. new \in [Squares -> V]
      <3>1. <<t.side, t.type>> \in V
        BY <1>4
      <3> QED
        BY <2>1, <3>1 DEF Put
    <2>3. ShowText(c, t) = ShowerAt(new, y, x + 1)
      BY <1>1, <1>4, <2>1, ShowMan
    <2> QED
      BY <2>2, <2>3 DEF ShowStates, ShowerAt
  <1> QED
    BY <1>2, <1>3, <1>4, TokenFacts

ShowStep(c, s, g, S) == IF S = {} THEN c ELSE LET i == Max(S) IN ShowText(g[S \ {i}], s[i])

ShowTable(c, s, g) == g = [S \in SUBSET (DOMAIN s) |-> ShowStep(c, s, g, S)]

LEMMA ShowIsFold ==
  ASSUME NEW c, NEW s
  PROVE  FoldLeft(ShowText, c, s) = (CHOOSE g : ShowTable(c, s, g))[DOMAIN s]
  BY DEF FoldLeft, MapThenFoldSet, ShowTable, ShowStep

LEMMA ShowWalks ==
  ASSUME NEW V, Dot \in V, Sides \X Types \subseteq V, NEW c \in ShowStates(V), NEW s \in Seq(Tokens)
  PROVE  Walks(Shower(V), c, s, FoldLeft(ShowText, c, s))
  <1> DEFINE C == CHOOSE g : ShowTable(c, s, g)
  <1>1. PICK step, A : step = Shower(V) /\ A = ShowStates(V)
    OBVIOUS
  <1>2. /\ step \in [A \X Tokens -> A] /\ DOMAIN s = 1 .. Len(s) /\ c \in A
        /\ \A a \in A, t \in Tokens : step[<<a, t>>] = ShowText(a, t)
    BY <1>1, ShowFacts DEF Shower
  <1>3. PICK f : IsTable(A, Tokens, step, c, s, f)
    BY <1>2, TableFacts
  <1>4. ASSUME NEW S \in SUBSET (1 .. Len(s)) PROVE f[S] = ShowStep(c, s, f, S)
    <2>1. CASE S = {}
      BY <1>3, <2>1 DEF ShowStep, IsTable
    <2>2. CASE S # {}
      <3>1. /\ f[S \ {Max(S)}] \in A /\ s[Max(S)] \in Tokens
            /\ f[S] = step[<<f[S \ {Max(S)}], s[Max(S)]>>]
        BY <1>3, <2>2 DEF IsTable
      <3>2. f[S] = ShowText(f[S \ {Max(S)}], s[Max(S)])
        BY <1>2, <3>1
      <3> QED
        BY <2>2, <3>2 DEF ShowStep
    <2> QED
      BY <2>1, <2>2
  <1>5. ShowTable(c, s, f)
    BY <1>2, <1>3, <1>4 DEF ShowTable, IsTable
  <1>6. ShowTable(c, s, C)
    BY <1>5
  <1> HIDE DEF C
  <1>7. \A S \in SUBSET (1 .. Len(s)) : C[S] = ShowStep(c, s, C, S)
    BY <1>2, <1>6 DEF ShowTable
  <1>8. C[{}] = c
    BY <1>7 DEF ShowStep
  <1>9. ASSUME NEW S \in SUBSET (1 .. Len(s)), S # {}, C[S \ {Max(S)}] \in A
        PROVE  C[S] = step[<<C[S \ {Max(S)}], s[Max(S)]>>]
    <2>1. s[Max(S)] \in Tokens
      BY <1>9, LastOfSubset
    <2>2. C[S] = ShowText(C[S \ {Max(S)}], s[Max(S)])
      BY <1>7, <1>9 DEF ShowStep
    <2> QED
      BY <1>2, <1>9, <2>1, <2>2
  <1>10. Walks(step, c, s, C[1 .. Len(s)])
    BY <1>2, <1>8, <1>9, TableWalks
  <1>11. FoldLeft(ShowText, c, s) = C[1 .. Len(s)]
    BY <1>2, ShowIsFold DEF C
  <1> QED
    BY <1>1, <1>10, <1>11



\* What is to be shown on a square, and the client's board behind column x of
\* row y.
Shown(bb, p) ==
  IF p \in Empty(bb) THEN Dot ELSE <<ColorAt(bb, p), TypeAt(bb, ColorAt(bb, p), p)>>

ShownBoard(bb, board, y, x) ==
  [p \in Squares |-> IF p \in Before(y, x) THEN Shown(bb, p) ELSE board[p]]

ShowAt(bb, board) ==
  [a \in (0 .. 7) \X (0 .. 8) |-> ShowerAt(ShownBoard(bb, board, a[1], a[2]), a[1], a[2])]

LEMMA ShownFacts ==
  ASSUME NEW bb \in Boards, NEW V, Dot \in V, Sides \X Types \subseteq V,
         NEW board \in [Squares -> V]
  PROVE  /\ ShownBoard(bb, board, 7, 0) = board
         /\ ShownBoard(bb, board, 0, 8) = [p \in Squares |-> Shown(bb, p)]
         /\ \A y \in 0 .. 7, x \in 0 .. 8 : ShownBoard(bb, board, y, x) \in [Squares -> V]
         /\ \A y \in 1 .. 7 : ShownBoard(bb, board, y, 8) = ShownBoard(bb, board, y - 1, 0)
  <1>1. ShownBoard(bb, board, 7, 0) = board
    BY BeforeEnds DEF ShownBoard
  <1>2. ShownBoard(bb, board, 0, 8) = [p \in Squares |-> Shown(bb, p)]
    BY BeforeEnds DEF ShownBoard
  <1>3. \A y \in 0 .. 7, x \in 0 .. 8 : ShownBoard(bb, board, y, x) \in [Squares -> V]
    <2>1. \A p \in Squares : Shown(bb, p) \in V
      BY ManFacts DEF Shown
    <2> QED
      BY <2>1 DEF ShownBoard
  <1>4. \A y \in 1 .. 7 : ShownBoard(bb, board, y, 8) = ShownBoard(bb, board, y - 1, 0)
    BY BeforeEnds DEF ShownBoard
  <1> QED
    BY <1>1, <1>2, <1>3, <1>4

LEMMA ShownRun ==
  ASSUME NEW bb, NEW board, NEW y \in 0 .. 7, NEW x \in 0 .. 7, NEW k \in 1 .. 8, x <= k,
         EmptyRun(bb, y, x, k),
         NEW first, first = 8 * y + x, NEW last, last = 8 * y + k - 1
  PROVE  ShownBoard(bb, board, y, k) = Dotted(ShownBoard(bb, board, y, x), first, last)
  <1>1. x \in 0 .. 8 /\ k \in 0 .. 8
    OBVIOUS
  <1>2. Before(y, k) = Before(y, x) \union Run(first, last)
    BY <1>1, BeforeRun
  <1>3. ASSUME NEW p \in Run(first, last) PROVE Shown(bb, p) = Dot
    <2>1. p \in Empty(bb)
      BY RunIsEmpty
    <2> QED
      BY <2>1 DEF Shown
  <1>4. ASSUME NEW p \in Squares
        PROVE  (IF p \in Before(y, k) THEN Shown(bb, p) ELSE board[p])
                 = IF p \in first .. last THEN Dot ELSE ShownBoard(bb, board, y, x)[p]
    <2>1. ShownBoard(bb, board, y, x)[p] = IF p \in Before(y, x) THEN Shown(bb, p) ELSE board[p]
      BY DEF ShownBoard
    <2>2. p \in Run(first, last) <=> p \in first .. last
      BY DEF Run
    <2>3. CASE p \in first .. last
      BY <1>2, <1>3, <2>2, <2>3
    <2>4. CASE p \notin first .. last
      BY <1>2, <2>1, <2>2, <2>4
    <2> QED
      BY <2>3, <2>4
  <1> QED
    BY <1>4 DEF ShownBoard, Dotted

LEMMA ShownNext ==
  ASSUME NEW bb, NEW board, NEW y \in 0 .. 7, NEW x \in 0 .. 7,
         NEW p, p = 8 * y + x, NEW z, z = x + 1, NEW man, man = Shown(bb, p)
  PROVE  ShownBoard(bb, board, y, z) = Put(ShownBoard(bb, board, y, x), p, man)
  <1>1. p \in Squares /\ Before(y, z) = Before(y, x) \union {p}
    BY BeforeNext
  <1> QED
    BY <1>1 DEF ShownBoard, Put

LEMMA ShowerFollows ==
  ASSUME NEW bb \in Boards, NEW V, Dot \in V, Sides \X Types \subseteq V,
         NEW board \in [Squares -> V]
  PROVE  Follows(bb, Shower(V), ShowAt(bb, board))
  <1> DEFINE B(y, x) == ShownBoard(bb, board, y, x)
  <1>1. \A y \in 0 .. 7, x \in 0 .. 8 :
          B(y, x) \in [Squares -> V] /\ ShowerAt(B(y, x), y, x) \in ShowStates(V)
    <2> SUFFICES ASSUME NEW y \in 0 .. 7, NEW x \in 0 .. 8
                 PROVE  B(y, x) \in [Squares -> V] /\ ShowerAt(B(y, x), y, x) \in ShowStates(V)
      OBVIOUS
    <2>1. B(y, x) \in [Squares -> V]
      BY ShownFacts
    <2> HIDE DEF B
    <2> QED
      BY <2>1 DEF ShowerAt, ShowStates
  <1>2. \A y \in 0 .. 7, x \in 0 .. 8 : ShowAt(bb, board)[<<y, x>>] = ShowerAt(B(y, x), y, x)
    BY DEF ShowAt
  <1>3. ASSUME NEW y \in 0 .. 7, NEW x \in 0 .. 8, NEW t \in Tokens
        PROVE  Shower(V)[<<ShowAt(bb, board)[<<y, x>>], t>>] = ShowText(ShowerAt(B(y, x), y, x), t)
    BY <1>1, <1>2 DEF Shower
  <1>4. ASSUME NEW y \in 0 .. 7, NEW x \in 0 .. 7, NEW k \in 1 .. 8, NEW n \in 1 .. 8,
               x + n = k, EmptyRun(bb, y, x, k)
        PROVE  Shower(V)[<<ShowAt(bb, board)[<<y, x>>], Skip(n)>>] = ShowAt(bb, board)[<<y, k>>]
    <2>1. Skip(n) \in Tokens /\ Skip(n).kind = "skip" /\ Skip(n).n = n
      BY DEF Tokens, Skip
    <2>2. PICK first, last : first = 8 * y + x /\ last = 8 * y + k - 1
      OBVIOUS
    <2>3. B(y, k) = Dotted(B(y, x), first, last)
      <3>1. x <= k
        BY <1>4
      <3> QED
        BY <1>4, <2>2, <3>1, ShownRun
    <2>6. ShowText(ShowerAt(B(y, x), y, x), Skip(n)) = ShowerAt(Dotted(B(y, x), first, last), y, k)
      <3>1. last = 8 * y + x + n - 1
        BY <1>4, <2>2
      <3>2. ShowText(ShowerAt(B(y, x), y, x), Skip(n))
              = ShowerAt(Dotted(B(y, x), 8 * y + x, last), y, x + n)
        BY <2>1, <3>1, ShowSkip
      <3> QED
        BY <1>4, <2>2, <3>2
    <2>4. Shower(V)[<<ShowAt(bb, board)[<<y, x>>], Skip(n)>>]
            = ShowText(ShowerAt(B(y, x), y, x), Skip(n))
      <3>1. x \in 0 .. 8
        OBVIOUS
      <3> QED
        BY <1>3, <2>1, <3>1
    <2>5. ShowAt(bb, board)[<<y, k>>] = ShowerAt(B(y, k), y, k)
      <3>1. k \in 0 .. 8
        OBVIOUS
      <3> QED
        BY <1>2, <3>1
    <2> QED
      BY <2>3, <2>4, <2>5, <2>6
  <1>5. ASSUME NEW y \in 0 .. 7, NEW x \in 0 .. 7, 8 * y + x \notin Empty(bb)
        PROVE  Shower(V)[<<ShowAt(bb, board)[<<y, x>>], ManAt(bb, 8 * y + x)>>]
                 = ShowAt(bb, board)[<<y, x + 1>>]
    <2>1. PICK p \in Squares : p = 8 * y + x
      BY BeforeNext
    <2>2. PICK s \in Sides, t \in Types : s = ColorAt(bb, p) /\ t = TypeAt(bb, ColorAt(bb, p), p)
      BY <1>5, <2>1, ManFacts
    <2>3. PICK man \in Tokens : man = ManAt(bb, p) /\ man.kind = "man" /\ man.side = s /\ man.type = t
      <3>1. Man(s, t) \in Tokens
        BY DEF Tokens
      <3>2. Man(s, t).kind = "man" /\ Man(s, t).side = s /\ Man(s, t).type = t
        BY DEF Man
      <3>3. ManAt(bb, p) = Man(s, t)
        BY <2>2 DEF ManAt
      <3> QED
        BY <3>1, <3>2, <3>3
    <2>4. Shown(bb, p) = <<s, t>>
      BY <1>5, <2>1, <2>2 DEF Shown
    <2>5. B(y, x + 1) = Put(B(y, x), p, <<s, t>>)
      BY <2>1, <2>4, ShownNext
    <2>6. ShowText(ShowerAt(B(y, x), y, x), man)
            = ShowerAt(Put(B(y, x), p, <<s, t>>), y, x + 1)
      BY <2>1, <2>3, ShowMan
    <2>7. Shower(V)[<<ShowAt(bb, board)[<<y, x>>], man>>] = ShowText(ShowerAt(B(y, x), y, x), man)
      <3>1. x \in 0 .. 8
        OBVIOUS
      <3> QED
        BY <1>3, <3>1
    <2>8. ShowAt(bb, board)[<<y, x + 1>>] = ShowerAt(B(y, x + 1), y, x + 1)
      <3>1. x + 1 \in 0 .. 8
        OBVIOUS
      <3> QED
        BY <1>2, <3>1
    <2> QED
      BY <2>1, <2>3, <2>5, <2>6, <2>7, <2>8
  <1>6. ASSUME NEW y \in 1 .. 7
        PROVE  Shower(V)[<<ShowAt(bb, board)[<<y, 8>>], Slash>>] = ShowAt(bb, board)[<<y - 1, 0>>]
    <2>1. Slash \in Tokens /\ Slash.kind = "slash" /\ y \in 0 .. 7 /\ y - 1 \in 0 .. 7
      BY DEF Tokens, Slash
    <2>2. B(y, 8) = B(y - 1, 0)
      BY ShownFacts
    <2>3. ShowText(ShowerAt(B(y, 8), y, 8), Slash) = ShowerAt(B(y, 8), y - 1, 0)
      BY <2>1, ShowSlash
    <2>4. Shower(V)[<<ShowAt(bb, board)[<<y, 8>>], Slash>>] = ShowText(ShowerAt(B(y, 8), y, 8), Slash)
      <3>1. 8 \in 0 .. 8
        OBVIOUS
      <3> QED
        BY <1>3, <2>1, <3>1
    <2>5. ShowAt(bb, board)[<<y - 1, 0>>] = ShowerAt(B(y - 1, 0), y - 1, 0)
      <3>1. 0 \in 0 .. 8
        OBVIOUS
      <3> QED
        BY <1>2, <2>1, <3>1
    <2> QED
      BY <2>2, <2>3, <2>4, <2>5
  <1>7. FollowsSkip(bb, Shower(V), ShowAt(bb, board))
    BY <1>4 DEF FollowsSkip
  <1>8. FollowsMan(bb, Shower(V), ShowAt(bb, board))
    BY <1>5 DEF FollowsMan
  <1>9. FollowsSlash(Shower(V), ShowAt(bb, board))
    BY <1>6 DEF FollowsSlash
  <1> QED
    BY <1>7, <1>8, <1>9 DEF Follows

\* Whatever the client showed, behind the text it shows the board.
LEMMA UpdateShows ==
  ASSUME NEW bb \in Boards, NEW U, NEW board \in [Squares -> U]
  PROVE  update_board_from_fen(board, get_fen(bb)) = [p \in Squares |-> Shown(bb, p)]
  <1> DEFINE c == [board |-> board, x |-> 0, y |-> 7]
             d == FoldLeft(ShowText, c, get_fen(bb))
             e == [board |-> [p \in Squares |-> Shown(bb, p)], x |-> 8, y |-> 0]
  <1>1. PICK V : V = U \union {Dot} \union (Sides \X Types)
    OBVIOUS
  <1>2. Dot \in V /\ Sides \X Types \subseteq V /\ board \in [Squares -> V]
    BY <1>1
  <1>3. get_fen(bb) \in Seq(Tokens)
    BY WriteWalks
  <1>4. ShowAt(bb, board)[<<7, 0>>] = c /\ ShowAt(bb, board)[<<0, 8>>] = e
    BY <1>2, ShownFacts DEF ShowAt, ShowerAt
  <1>5. c \in ShowStates(V)
    BY <1>2 DEF ShowStates
  <1>6. Walks(Shower(V), c, get_fen(bb), d)
    BY <1>2, <1>3, <1>5, ShowWalks
  <1>7. Follows(bb, Shower(V), ShowAt(bb, board))
    BY <1>2, ShowerFollows
  <1>8. Walks(Shower(V), c, get_fen(bb), e)
    BY <1>4, <1>7, TextRead DEF HasRead
  <1>9. d = e
    BY <1>3, <1>6, <1>8, WalkEndsOnce
  <1>10. update_board_from_fen(board, get_fen(bb)) = d.board
    BY DEF update_board_from_fen
  <1> QED
    BY <1>9, <1>10

=============================================================================
