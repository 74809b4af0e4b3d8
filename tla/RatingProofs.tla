---------------------------- MODULE RatingProofs ----------------------------
(***************************************************************************)
(* Facts about Gain and Loss for every rating difference, and about sums   *)
(* of rating points over any finite set of accounts.                       *)
(***************************************************************************)
EXTENDS Elo, FiniteSetsExt, FunctionTheorems, FiniteSetTheorems, TLAPS

Earned(d) == {g \in 1..K : d <= EloThreshold[g]}

\* Pairs the threshold at which d earns a point with the one at which -d does.
Mirror(d) == [g \in (1..K) \ Earned(d) |-> 33 - g]

LEMMA Thresholds ==
  /\ \A g \in 1..K : EloThreshold[g] \in Int
  /\ \A g \in 1..K : EloThreshold[33 - g] = -1 - EloThreshold[g]
BY DEF K, EloThreshold

LEMMA Interval == IsFiniteSet(1..K) /\ Cardinality(1..K) = K
<1>1. 1 \in Int /\ 32 \in Int /\ ~(1 > 32) /\ 32 - 1 + 1 = 32
  OBVIOUS
<1> QED BY <1>1, FS_Interval DEF K

LEMMA EarnedFinite ==
  ASSUME NEW d
  PROVE  /\ Earned(d) \in SUBSET (1..K)
         /\ IsFiniteSet(Earned(d))
         /\ Cardinality(Earned(d)) \in 0..K
<1>1. Earned(d) \in SUBSET (1..K)
  BY DEF Earned
<1>2. IsFiniteSet(Earned(d)) /\ Cardinality(Earned(d)) <= K
  BY <1>1, Interval, FS_Subset
<1>3. Cardinality(Earned(d)) \in Nat
  BY <1>2, FS_CardinalityType
<1> QED BY <1>1, <1>2, <1>3 DEF K

\* A game moves a natural number of points, at most K: no rating leaves the
\* integers and no winner loses points.
THEOREM GainBounded == \A d \in Int : Gain(d) \in 0..K
BY EarnedFinite DEF Gain, Earned

\* What the one player would win and what the other would win add up to K: the
\* thresholds, and with them both roundings of update_rating, are symmetric.
THEOREM GainZeroSumAlways == \A d \in Int : Gain(d) + Gain(-d) = K
<1> SUFFICES ASSUME NEW d \in Int
             PROVE  Gain(d) + Gain(-d) = K
  OBVIOUS
<1> DEFINE Missed == (1..K) \ Earned(d)
<1>1. Mirror(d) \in Bijection(Missed, Earned(-d))
  <2>1. ASSUME NEW g \in Missed PROVE 33 - g \in Earned(-d)
    <3>1. g \in 1..K /\ 33 - g \in 1..K /\ d > EloThreshold[g]
      BY Thresholds DEF Earned, K
    <3>2. -d <= EloThreshold[33 - g]
      BY <3>1, Thresholds
    <3> QED BY <3>1, <3>2 DEF Earned
  <2>2. ASSUME NEW h \in Earned(-d) PROVE 33 - h \in Missed /\ 33 - (33 - h) = h
    <3>1. h \in 1..K /\ 33 - h \in 1..K /\ -d <= EloThreshold[h]
      BY DEF Earned, K
    <3>2. EloThreshold[33 - h] = -1 - EloThreshold[h] /\ EloThreshold[h] \in Int
      BY <3>1, Thresholds
    <3>3. ~(d <= EloThreshold[33 - h])
      BY <3>1, <3>2
    <3>4. 33 - (33 - h) = h
      BY <3>1 DEF K
    <3> QED BY <3>1, <3>3, <3>4 DEF Earned
  <2>3. Mirror(d) \in [Missed -> Earned(-d)]
    BY <2>1 DEF Mirror
  <2>4. \A g, h \in Missed : Mirror(d)[g] = Mirror(d)[h] => g = h
    BY DEF Mirror, K
  <2>5. \A h \in Earned(-d) : \E g \in Missed : Mirror(d)[g] = h
    BY <2>2 DEF Mirror
  <2> QED BY <2>3, <2>4, <2>5, Fun_IsBij
<1>2. IsFiniteSet(Missed) /\ Cardinality(Missed) = K - Cardinality(Earned(d))
  <2>1. (1..K) \cap Earned(d) = Earned(d)
    BY EarnedFinite
  <2>2. IsFiniteSet(Missed) /\ Cardinality(Missed) = Cardinality(1..K) - Cardinality((1..K) \cap Earned(d))
    BY Interval, FS_Difference
  <2> QED BY <2>1, <2>2, Interval
<1>3. Cardinality(Earned(-d)) = Cardinality(Missed)
  <2>1. ExistsBijection(Missed, Earned(-d))
    BY <1>1 DEF ExistsBijection
  <2> QED BY <2>1, <1>2, FS_Bijection
<1>4. Cardinality(Earned(d)) \in 0..K
  BY EarnedFinite
<1> QED BY <1>2, <1>3, <1>4 DEF Gain, Earned, K

\* The loser pays what the winner is paid: the two roundings of update_rating
\* neither create nor destroy a point at any difference.
THEOREM LossIsGain == \A d \in Int : Loss(d) = Gain(d)
<1> SUFFICES ASSUME NEW d \in Int
             PROVE  Loss(d) = Gain(d)
  OBVIOUS
<1> DEFINE Missed == (1..K) \ Earned(d)
<1>1. {g \in 1..K : d > EloThreshold[g]} = Missed
  BY Thresholds DEF Earned
<1>2. (1..K) \cap Earned(d) = Earned(d)
  BY EarnedFinite
<1>3. Cardinality(Missed) = Cardinality(1..K) - Cardinality((1..K) \cap Earned(d))
  BY Interval, FS_Difference
<1>4. Cardinality(Missed) = K - Cardinality(Earned(d)) /\ Cardinality(Earned(d)) \in 0..K
  BY <1>2, <1>3, Interval, EarnedFinite
<1>5. Loss(d) = K - Cardinality(Missed) /\ Gain(d) = Cardinality(Earned(d))
  BY <1>1 DEF Loss, Gain, Earned
<1> QED BY <1>4, <1>5 DEF K

\* A win over a weaker opponent never pays more than a win over a stronger one.
THEOREM GainMonotone == \A d, e \in Int : d <= e => Gain(e) <= Gain(d)
<1> SUFFICES ASSUME NEW d \in Int, NEW e \in Int, d <= e
             PROVE  Gain(e) <= Gain(d)
  OBVIOUS
<1>1. Earned(e) \subseteq Earned(d)
  BY Thresholds DEF Earned
<1>2. Cardinality(Earned(e)) <= Cardinality(Earned(d))
  BY <1>1, EarnedFinite, FS_Subset
<1> QED BY <1>2 DEF Gain, Earned

-----------------------------------------------------------------------------
(* Sums over finite sets.  The induction theorems of the library take an   *)
(* operator; this one takes the set of the sets for which the claim holds. *)

LEMMA SetInduction ==
  ASSUME NEW S, IsFiniteSet(S), NEW Good, {} \in Good,
         \A T \in SUBSET S : T # {} /\ (\A x \in T : T \ {x} \in Good) => T \in Good
  PROVE  S \in Good
  <1> DEFINE Sizes == {n \in Nat : \E T \in SUBSET S : T \notin Good /\ Cardinality(T) = n}
  <1> SUFFICES ASSUME S \notin Good PROVE FALSE
    OBVIOUS
  <1>1. Cardinality(S) \in Sizes
    BY FS_CardinalityType
  <1>2. \E n \in Sizes : \A m \in Sizes : ~(<<m, n>> \in OpToRel(<, Nat))
    <2>1. Sizes \subseteq Nat /\ Sizes # {}
      BY <1>1
    <2> HIDE DEF Sizes
    <2> QED
      BY <2>1, WFMin, NatLessThanWellFounded, Zenon
  <1>3. PICK n \in Sizes : \A m \in Sizes : ~(<<m, n>> \in OpToRel(<, Nat))
    BY <1>2
  <1>4. \A m \in Sizes : ~(m < n)
    BY <1>3, Zenon DEF OpToRel
  <1>5. PICK T \in SUBSET S : T \notin Good /\ Cardinality(T) = n
    BY <1>3
  <1>6. PICK x \in T : T \ {x} \notin Good
    BY <1>5
  <1>7. IsFiniteSet(T)
    BY FS_Subset
  <1>8. Cardinality(T \ {x}) = n - 1 /\ Cardinality(T \ {x}) \in Nat
    BY <1>5, <1>7, FS_RemoveElement, FS_CardinalityType
  <1>9. Cardinality(T \ {x}) \in Sizes
    BY <1>6, <1>8
  <1>10. Cardinality(T \ {x}) < n
    <2>1. n \in Nat
      OBVIOUS
    <2> QED
      BY <2>1, <1>8
  <1> QED
    BY <1>4, <1>9, <1>10

\* The points column f adds up to over the accounts S.
SumOver(f, S) == MapThenSumSet(LAMBDA x : f[x], S)

SumStep(f, g, s) ==
  IF s = {} THEN 0 ELSE LET x == CHOOSE y \in s : TRUE IN f[x] + g[s \ {x}]

\* g holds the sum of every subset of S.
SumTable(f, S, g) == g = [s \in SUBSET S |-> SumStep(f, g, s)]

IntOver(f, S) == \A x \in S : f[x] \in Int

LEMMA SumDefinition ==
  ASSUME NEW f, NEW S
  PROVE  SumOver(f, S) = (CHOOSE g : SumTable(f, S, g))[S]
BY DEF SumOver, MapThenSumSet, MapThenFoldSet, SumTable, SumStep

LEMMA StepInside ==
  ASSUME NEW S, NEW s \in SUBSET S, s # {}
  PROVE  \E x \in s : \A f, g : SumStep(f, g, s) = f[x] + g[s \ {x}]
  <1> DEFINE x == CHOOSE y \in s : TRUE
  <1>1. x \in s
    OBVIOUS
  <1>2. \A f, g : SumStep(f, g, s) = f[x] + g[s \ {x}]
    BY DEF SumStep
  <1> QED
    BY <1>1, <1>2

\* The recursion has a solution: tables of the sets of at most n elements.
Level(S, n) == {s \in SUBSET S : Cardinality(s) <= n}
LevelTable(f, S, n, g) == \A s \in Level(S, n) : g[s] = SumStep(f, g, s)

LEMMA NextLevel ==
  ASSUME NEW S, IsFiniteSet(S), NEW f, NEW n \in Nat, NEW g, LevelTable(f, S, n, g)
  PROVE  \E h : LevelTable(f, S, n + 1, h)
  <1> DEFINE h == [s \in SUBSET S |-> IF Cardinality(s) <= n THEN g[s] ELSE SumStep(f, g, s)]
  <1>1. \A s \in SUBSET S : h[s] = IF Cardinality(s) <= n THEN g[s] ELSE SumStep(f, g, s)
    OBVIOUS
  <1> HIDE DEF h
  <1>2. ASSUME NEW s \in Level(S, n + 1) PROVE h[s] = SumStep(f, h, s)
    <2>1. IsFiniteSet(s) /\ s \in SUBSET S /\ Cardinality(s) \in Nat /\ Cardinality(s) <= n + 1
      BY FS_Subset, FS_CardinalityType DEF Level
    <2>2. h[s] = SumStep(f, g, s)
      BY <1>1, <2>1 DEF LevelTable, Level
    <2>3. CASE s = {}
      BY <2>2, <2>3 DEF SumStep
    <2>4. CASE s # {}
      <3>1. PICK x \in s : \A ff, gg : SumStep(ff, gg, s) = ff[x] + gg[s \ {x}]
        BY <2>1, <2>4, StepInside
      <3>2. Cardinality(s \ {x}) <= n
        <4>1. Cardinality(s \ {x}) = Cardinality(s) - 1
          BY <2>1, FS_RemoveElement
        <4> QED
          BY <2>1, <4>1
      <3>3. h[s \ {x}] = g[s \ {x}]
        BY <1>1, <2>1, <3>2
      <3> QED
        BY <2>2, <3>1, <3>3
    <2> QED
      BY <2>3, <2>4
  <1> QED
    BY <1>2 DEF LevelTable

LEMMA SumTableExists ==
  ASSUME NEW S, IsFiniteSet(S), NEW f
  PROVE  \E g : SumTable(f, S, g)
  <1> DEFINE Bad == {n \in Nat : ~ \E g : LevelTable(f, S, n, g)}
  <1>1. \A n \in Nat : \E g : LevelTable(f, S, n, g)
    <2> SUFFICES ASSUME Bad # {} PROVE FALSE
      OBVIOUS
    <2>1. \E n \in Bad : \A m \in Bad : ~(<<m, n>> \in OpToRel(<, Nat))
      <3>1. Bad \subseteq Nat
        OBVIOUS
      <3> HIDE DEF Bad
      <3> QED
        BY <3>1, WFMin, NatLessThanWellFounded, Zenon
    <2>2. PICK n \in Bad : \A m \in Bad : ~(<<m, n>> \in OpToRel(<, Nat))
      BY <2>1
    <2>3. \A m \in Bad : ~(m < n)
      BY <2>2, Zenon DEF OpToRel
    <2>4. CASE n = 0
      <3>1. LevelTable(f, S, 0, [s \in SUBSET S |-> 0])
        <4> SUFFICES ASSUME NEW s \in Level(S, 0)
                     PROVE  [t \in SUBSET S |-> 0][s] = SumStep(f, [t \in SUBSET S |-> 0], s)
          BY DEF LevelTable
        <4>1. s = {} /\ s \in SUBSET S
          BY FS_EmptySet, FS_Subset, FS_CardinalityType DEF Level
        <4> QED
          BY <4>1 DEF SumStep
      <3> QED
        BY <2>4, <3>1
    <2>5. CASE n # 0
      <3>1. n - 1 \in Nat /\ n - 1 < n /\ (n - 1) + 1 = n
        BY <2>5
      <3>2. PICK g : LevelTable(f, S, n - 1, g)
        BY <2>3, <3>1
      <3>3. \E h : LevelTable(f, S, (n - 1) + 1, h)
        BY <3>1, <3>2, NextLevel
      <3> QED
        BY <3>1, <3>3
    <2> QED
      BY <2>4, <2>5
  <1>2. PICK g : LevelTable(f, S, Cardinality(S), g)
    BY <1>1, FS_CardinalityType
  <1>3. Level(S, Cardinality(S)) = SUBSET S
    BY FS_Subset DEF Level
  <1> DEFINE h == [s \in SUBSET S |-> g[s]]
  <1>4. ASSUME NEW s \in SUBSET S PROVE SumStep(f, h, s) = SumStep(f, g, s)
    <2>1. CASE s = {}
      BY <2>1 DEF SumStep
    <2>2. CASE s # {}
      <3>1. PICK x \in s : \A ff, gg : SumStep(ff, gg, s) = ff[x] + gg[s \ {x}]
        BY <2>2, StepInside
      <3>2. h[s \ {x}] = g[s \ {x}]
        OBVIOUS
      <3> QED
        BY <3>1, <3>2
    <2> QED
      BY <2>1, <2>2
  <1>5. h = [s \in SUBSET S |-> SumStep(f, h, s)]
    <2>1. \A s \in SUBSET S : h[s] = SumStep(f, h, s)
      BY <1>2, <1>3, <1>4 DEF LevelTable
    <2> QED
      BY <2>1
  <1> QED
    BY <1>5 DEF SumTable

LEMMA TableValues ==
  ASSUME NEW S, NEW f, NEW g, SumTable(f, S, g)
  PROVE  \A s \in SUBSET S : g[s] = SumStep(f, g, s)
  <1> DEFINE G(s) == SumStep(f, g, s)
  <1>1. g = [s \in SUBSET S |-> G(s)]
    BY DEF SumTable
  <1> HIDE DEF G
  <1>2. \A s \in SUBSET S : g[s] = G(s)
    BY <1>1
  <1> QED
    BY <1>2 DEF G

\* What a table says of a set: its sum splits at any of its members.
SplitsAt(f, g, s) ==
  g[s] \in Int /\ \A x \in s : g[s \ {x}] \in Int /\ g[s] = f[x] + g[s \ {x}]

LEMMA TableSplits ==
  ASSUME NEW S, IsFiniteSet(S), NEW f, IntOver(f, S), NEW g, SumTable(f, S, g)
  PROVE  g[{}] = 0 /\ SplitsAt(f, g, S)
  <1> DEFINE Good == {s \in SUBSET S : SplitsAt(f, g, s)}
  <1>1. \A s \in SUBSET S : g[s] = SumStep(f, g, s)
    BY TableValues
  <1>2. g[{}] = 0
    BY <1>1 DEF SumStep
  <1>3. {} \in Good
    BY <1>2 DEF SplitsAt
  <1>4. ASSUME NEW T \in SUBSET S, T # {}, \A x \in T : T \ {x} \in Good
        PROVE  T \in Good
    <2>1. PICK c \in T : \A ff, gg : SumStep(ff, gg, T) = ff[c] + gg[T \ {c}]
      BY <1>4, StepInside
    <2>2. g[T] = f[c] + g[T \ {c}]
      BY <1>1, <2>1
    <2>3. \A x \in T : f[x] \in Int /\ g[T \ {x}] \in Int
      BY <1>4 DEF IntOver, SplitsAt
    <2>4. ASSUME NEW x \in T, x # c PROVE g[T] = f[x] + g[T \ {x}]
      <3>1. g[T \ {c}] = f[x] + g[(T \ {c}) \ {x}]
        BY <1>4, <2>4 DEF SplitsAt
      <3>2. g[T \ {x}] = f[c] + g[(T \ {x}) \ {c}]
        BY <1>4, <2>4 DEF SplitsAt
      <3>3. (T \ {x}) \ {c} = (T \ {c}) \ {x}
        OBVIOUS
      <3>4. x \in T \ {c} /\ g[(T \ {c}) \ {x}] \in Int
        BY <1>4, <2>4 DEF SplitsAt
      <3>5. \A i, j, k \in Int : i + (j + k) = j + (i + k)
        OBVIOUS
      <3>6. f[c] + (f[x] + g[(T \ {c}) \ {x}]) = f[x] + (f[c] + g[(T \ {c}) \ {x}])
        BY <2>3, <3>4, <3>5
      <3> QED
        BY <2>2, <3>1, <3>2, <3>3, <3>6
    <2>5. g[T] \in Int
      BY <2>2, <2>3
    <2>6. \A x \in T : g[T] = f[x] + g[T \ {x}]
      BY <2>2, <2>4
    <2> QED
      BY <2>3, <2>5, <2>6 DEF SplitsAt
  <1>5. S \in Good
    <2> HIDE DEF Good
    <2> QED
      BY <1>3, <1>4, SetInduction
  <1> QED
    BY <1>2, <1>5

\* Two tables agree on a set on which their columns do.
LEMMA TablesAgree ==
  ASSUME NEW S, IsFiniteSet(S), NEW S1, NEW S2, S \subseteq S1, S \subseteq S2,
         NEW f1, NEW f2, \A x \in S : f1[x] = f2[x],
         NEW g1, SumTable(f1, S1, g1), NEW g2, SumTable(f2, S2, g2)
  PROVE  g1[S] = g2[S]
  <1> DEFINE Good == {s \in SUBSET S : g1[s] = g2[s]}
  <1>1. /\ \A s \in SUBSET S : g1[s] = SumStep(f1, g1, s)
        /\ \A s \in SUBSET S : g2[s] = SumStep(f2, g2, s)
    <2>1. \A s \in SUBSET S1 : g1[s] = SumStep(f1, g1, s)
      BY TableValues
    <2>2. \A s \in SUBSET S2 : g2[s] = SumStep(f2, g2, s)
      BY TableValues
    <2> QED
      BY <2>1, <2>2
  <1>2. {} \in Good
    BY <1>1 DEF SumStep
  <1>3. ASSUME NEW T \in SUBSET S, T # {}, \A x \in T : T \ {x} \in Good
        PROVE  T \in Good
    <2>1. PICK c \in T : \A ff, gg : SumStep(ff, gg, T) = ff[c] + gg[T \ {c}]
      BY <1>3, StepInside
    <2>2. g1[T] = f1[c] + g1[T \ {c}] /\ g2[T] = f2[c] + g2[T \ {c}]
      BY <1>1, <2>1
    <2> QED
      BY <1>3, <2>2
  <1>4. S \in Good
    <2> HIDE DEF Good
    <2> QED
      BY <1>2, <1>3, SetInduction
  <1> QED
    BY <1>4

LEMMA SumIsTabled ==
  ASSUME NEW S, IsFiniteSet(S), NEW f
  PROVE  \E g : SumTable(f, S, g) /\ SumOver(f, S) = g[S]
  <1>1. SumTable(f, S, CHOOSE g : SumTable(f, S, g))
    BY SumTableExists
  <1> QED
    BY <1>1, SumDefinition

\* The sum over no account is 0, the sum over the accounts S is the points of
\* any one of them and the sum over the others.
LEMMA SumSplits ==
  ASSUME NEW S, IsFiniteSet(S), NEW f, IntOver(f, S)
  PROVE  /\ SumOver(f, {}) = 0
         /\ SumOver(f, S) \in Int
         /\ \A x \in S : /\ SumOver(f, S \ {x}) \in Int
                         /\ SumOver(f, S) = f[x] + SumOver(f, S \ {x})
  <1>1. PICK g : SumTable(f, S, g) /\ SumOver(f, S) = g[S]
    BY SumIsTabled
  <1>2. g[{}] = 0 /\ SplitsAt(f, g, S)
    BY <1>1, TableSplits
  <1>3. ASSUME NEW T \in SUBSET S PROVE SumOver(f, T) = g[T]
    <2>1. IsFiniteSet(T)
      BY FS_Subset
    <2>2. PICK h : SumTable(f, T, h) /\ SumOver(f, T) = h[T]
      BY <2>1, SumIsTabled
    <2>3. h[T] = g[T]
      BY <1>1, <2>1, <2>2, TablesAgree
    <2> QED
      BY <2>2, <2>3
  <1>4. SumOver(f, {}) = 0
    BY <1>2, <1>3
  <1>5. \A x \in S : SumOver(f, S \ {x}) = g[S \ {x}]
    BY <1>3
  <1> QED
    BY <1>1, <1>2, <1>4, <1>5 DEF SplitsAt

LEMMA SumAgrees ==
  ASSUME NEW S, IsFiniteSet(S), NEW f, NEW h, \A x \in S : f[x] = h[x]
  PROVE  SumOver(f, S) = SumOver(h, S)
  <1>1. PICK g1 : SumTable(f, S, g1) /\ SumOver(f, S) = g1[S]
    BY SumIsTabled
  <1>2. PICK g2 : SumTable(h, S, g2) /\ SumOver(h, S) = g2[S]
    BY SumIsTabled
  <1> QED
    BY <1>1, <1>2, TablesAgree

\* One account's points change: the sum changes by as much.
LEMMA SumUpdate ==
  ASSUME NEW S, IsFiniteSet(S), NEW f \in [S -> Int], NEW h \in [S -> Int], NEW x \in S,
         \A y \in S \ {x} : h[y] = f[y]
  PROVE  SumOver(f, S) \in Int /\ SumOver(h, S) = SumOver(f, S) - f[x] + h[x]
  <1>1. IntOver(f, S) /\ IntOver(h, S) /\ f[x] \in Int /\ h[x] \in Int
    BY DEF IntOver
  <1>2. /\ SumOver(f, S) \in Int
        /\ SumOver(f, S \ {x}) \in Int
        /\ SumOver(f, S) = f[x] + SumOver(f, S \ {x})
    BY <1>1, SumSplits
  <1>3. SumOver(h, S) = h[x] + SumOver(h, S \ {x})
    BY <1>1, SumSplits
  <1>4. IsFiniteSet(S \ {x})
    BY FS_RemoveElement
  <1>5. SumOver(h, S \ {x}) = SumOver(f, S \ {x})
    BY <1>4, SumAgrees
  <1> QED
    BY <1>1, <1>2, <1>3, <1>5

\* Every account has k points.
LEMMA SumConstant ==
  ASSUME NEW S, IsFiniteSet(S), NEW f, NEW k \in Int, \A x \in S : f[x] = k
  PROVE  SumOver(f, S) = k * Cardinality(S)
  <1> DEFINE Good == {s \in SUBSET S : SumOver(f, s) = k * Cardinality(s)}
  <1>1. {} \in Good
    BY SumSplits, FS_EmptySet DEF IntOver
  <1>2. ASSUME NEW T \in SUBSET S, T # {}, \A x \in T : T \ {x} \in Good
        PROVE  T \in Good
    <2>1. PICK x \in T : TRUE
      BY <1>2
    <2>2. IsFiniteSet(T) /\ IntOver(f, T) /\ f[x] = k
      BY FS_Subset DEF IntOver
    <2>3. SumOver(f, T) = k + SumOver(f, T \ {x})
      BY <2>2, SumSplits
    <2>4. SumOver(f, T \ {x}) = k * Cardinality(T \ {x})
      BY <1>2
    <2>5. Cardinality(T) \in Nat /\ Cardinality(T \ {x}) = Cardinality(T) - 1
      BY <2>2, FS_RemoveElement, FS_CardinalityType
    <2>6. \A c \in Nat : k + k * (c - 1) = k * c
      OBVIOUS
    <2> QED
      BY <2>3, <2>4, <2>5, <2>6
  <1>3. S \in Good
    <2> HIDE DEF Good
    <2> QED
      BY <1>1, <1>2, SetInduction
  <1> QED
    BY <1>3

LEMMA SumZero ==
  ASSUME NEW S, IsFiniteSet(S), NEW f, \A x \in S : f[x] = 0
  PROVE  SumOver(f, S) = 0
  <1>1. 0 \in Int /\ Cardinality(S) \in Nat
    BY FS_CardinalityType
  <1>2. SumOver(f, S) = 0 * Cardinality(S)
    BY <1>1, SumConstant
  <1> QED
    BY <1>1, <1>2

\* A column that is nowhere above the two others together adds up to no more
\* than they do.
LEMMA SumBounded ==
  ASSUME NEW S, IsFiniteSet(S), NEW f \in [S -> Int], NEW g \in [S -> Int], NEW h \in [S -> Int],
         \A x \in S : f[x] <= g[x] + h[x]
  PROVE  SumOver(f, S) <= SumOver(g, S) + SumOver(h, S)
  <1> DEFINE Bounded(s) == SumOver(f, s) <= SumOver(g, s) + SumOver(h, s)
             Good == {s \in SUBSET S : Bounded(s)}
  <1>1. {} \in Good
    <2>1. SumOver(f, {}) = 0 /\ SumOver(g, {}) = 0 /\ SumOver(h, {}) = 0
      BY SumSplits, FS_EmptySet DEF IntOver
    <2> QED
      BY <2>1
  <1>2. ASSUME NEW T \in SUBSET S, T # {}, \A x \in T : T \ {x} \in Good
        PROVE  T \in Good
    <2>1. PICK x \in T : TRUE
      BY <1>2
    <2>2. IsFiniteSet(T) /\ IntOver(f, T) /\ IntOver(g, T) /\ IntOver(h, T)
      BY FS_Subset DEF IntOver
    <2>3. SumOver(f, T) = f[x] + SumOver(f, T \ {x}) /\ SumOver(f, T \ {x}) \in Int
      BY <2>2, SumSplits
    <2>4. SumOver(g, T) = g[x] + SumOver(g, T \ {x}) /\ SumOver(g, T \ {x}) \in Int
      BY <2>2, SumSplits
    <2>5. SumOver(h, T) = h[x] + SumOver(h, T \ {x}) /\ SumOver(h, T \ {x}) \in Int
      BY <2>2, SumSplits
    <2>6. Bounded(T \ {x})
      BY <1>2
    <2>7. f[x] \in Int /\ g[x] \in Int /\ h[x] \in Int /\ f[x] <= g[x] + h[x]
      OBVIOUS
    <2> QED
      BY <2>3, <2>4, <2>5, <2>6, <2>7
  <1>3. S \in Good
    <2> HIDE DEF Good
    <2> QED
      BY <1>1, <1>2, SetInduction
  <1> QED
    BY <1>3
=============================================================================
