------------------------------ MODULE DataProofs ------------------------------
(***************************************************************************)
(* Theorems about prepare_data.py: for raw datasets of any size and any    *)
(* number of calls over one directory, each killed anywhere, a finished    *)
(* call leaves the data its manifest describes.                            *)
(***************************************************************************)
EXTENDS AlgorithmProofs

(* The places of a sequence that a list comprehension keeps.                 *)

\* The order of numbers, on a set of them.
Upwards(S) == {p \in S \X S : p[1] < p[2]}

\* It is one that RanksList speaks of.
LEMMA NumbersInOrder ==
    ASSUME NEW n \in Nat, NEW S \in SUBSET (1 .. n)
    PROVE  IsFiniteSet(S) /\ IsStrictOrder(Upwards(S), S)
<1>1. IsFiniteSet(S)
  <2>1. IsFiniteSet(1 .. n)
    BY FS_Interval
  <2>. QED BY <2>1, FS_Subset
<1>2. \A i \in S : i \in Int  OBVIOUS
<1>3. \A i, j \in S : <<i, j>> \in Upwards(S) <=> i < j
  BY DEF Upwards
<1>4. IsStrictOrder(Upwards(S), S)
  BY <1>2, <1>3 DEF IsStrictOrder
<1>. QED BY <1>1, <1>4

\* t has the elements of s at the places of S, by the listing at.
IsKept(t, s, S, at) ==
    /\ IsListing(at, S, Upwards(S))
    /\ t = [k \in 1 .. Cardinality(S) |-> t[k]] /\ \A k \in 1 .. Cardinality(S) : t[k] = s[at[k]]

\* Only keeps them.
LEMMA OnlyKeeps ==
    ASSUME NEW n \in Nat, NEW S \in SUBSET (1 .. n), NEW s
    PROVE  \E at : IsKept(Only(s, S), s, S, at)
<1>1. IsFiniteSet(S) /\ IsStrictOrder(Upwards(S), S)
  BY NumbersInOrder
<1>2. PICK N \in Nat : N = Cardinality(S)
  BY <1>1, FS_CardinalityType
<1>. DEFINE Choice(k) == CHOOSE i \in S : Cardinality({j \in S : j < i}) = k - 1
<1>3. PICK at : /\ at = [k \in 1 .. N |-> Choice(k)]
                /\ at = [k \in 1 .. N |-> at[k]] /\ \A k \in 1 .. N : at[k] = Choice(k)
  <2>1. PICK at : at = [k \in 1 .. N |-> Choice(k)]  OBVIOUS
  <2>. HIDE DEF Choice
  <2>. QED BY <2>1
<1>4. \A i \in S : {j \in S : j < i} = Lower(Upwards(S), S, i)
  BY DEF Lower, Upwards
<1>5. ASSUME NEW k \in 1 .. N, NEW i \in S, Cardinality(Lower(Upwards(S), S, i)) = k - 1
      PROVE  at[k] \in S /\ Cardinality(Lower(Upwards(S), S, at[k])) = k - 1
  <2>1. at[k] = CHOOSE j \in S : Cardinality({h \in S : h < j}) = k - 1
    BY <1>3
  <2>2. at[k] \in S /\ Cardinality({h \in S : h < at[k]}) = k - 1
    BY <1>4, <1>5, <2>1
  <2>. QED BY <1>4, <2>2
<1>6. IsByRank(at, S, Upwards(S))
  <2>. HIDE DEF Choice
  <2>. QED BY <1>2, <1>3, <1>5 DEF IsByRank
<1>7. IsListing(at, S, Upwards(S))
  BY <1>1, <1>6, RanksList
<1>8. PICK t : t = Only(s, S)  OBVIOUS
<1>9. t = [k \in 1 .. N |-> s[at[k]]]
  <2>1. t = [k \in 1 .. N |-> s[CHOOSE i \in S : Cardinality({j \in S : j < i}) = k - 1]]
    BY <1>2, <1>8 DEF Only
  <2>. QED BY <1>3, <2>1
<1>10. t = [k \in 1 .. N |-> t[k]] /\ \A k \in 1 .. N : t[k] = s[at[k]]
  BY <1>9
<1>. QED BY <1>2, <1>7, <1>8, <1>10 DEF IsKept

\* What is kept of a sequence: a sequence of its elements, those at the places, each once.
IsPart(t, s, S, E) ==
    /\ t \in Seq(E) /\ Len(t) \in Nat /\ Len(t) = Cardinality(S)
    /\ \A k \in DOMAIN t : \E i \in S : t[k] = s[i]
    /\ \A i \in S : \E k \in DOMAIN t : t[k] = s[i]

LEMMA OnlyIsPart ==
    ASSUME NEW n \in Nat, NEW E, NEW s \in [1 .. n -> E], NEW S \in SUBSET (1 .. n)
    PROVE  IsPart(Only(s, S), s, S, E)
<1>1. PICK t, at : t = Only(s, S) /\ IsKept(t, s, S, at)
  BY OnlyKeeps
<1>2. PICK N \in Nat : N = Cardinality(S)
  BY NumbersInOrder, FS_CardinalityType
<1>3. /\ at \in [1 .. N -> S] /\ \A i \in S : \E k \in 1 .. N : at[k] = i
      /\ t = [k \in 1 .. N |-> t[k]] /\ \A k \in 1 .. N : t[k] = s[at[k]]
  BY <1>1, <1>2 DEF IsKept, IsListing
<1>4. \A k \in 1 .. N : t[k] \in E
  <2>1. \A k \in 1 .. N : at[k] \in 1 .. n
    BY <1>3
  <2>. QED BY <1>3, <2>1
<1>5. t \in [1 .. N -> E]
  BY <1>3, <1>4
<1>6. t \in Seq(E) /\ Len(t) = N /\ DOMAIN t = 1 .. N
  BY <1>5
<1>. QED BY <1>1, <1>2, <1>3, <1>6 DEF IsPart

-----------------------------------------------------------------------------
(* The rows of each dataset.                                                 *)

\* A prefix is one.
LEMMA PrefixIsOne ==
    ASSUME NEW E, NEW s \in Seq(E), NEW m \in Nat
    PROVE  IsPrefix(Prefix(s, m), s)
<1>1. PICK l \in Nat : l = (IF m < Len(s) THEN m ELSE Len(s)) /\ l <= Len(s)  OBVIOUS
<1>2. PICK t : t = Prefix(s, m) /\ t = SubSeq(s, 1, l)
  BY <1>1 DEF Prefix
<1>3. t \in Seq(E) /\ Len(t) = l /\ \A i \in 1 .. l : t[i] = s[i]
  BY <1>1, <1>2
<1>4. SubSeq(t, 1, l) = SubSeq(s, 1, l)
  BY <1>1, <1>2, <1>3
<1>. QED BY <1>1, <1>2, <1>3, <1>4 DEF IsPrefix

\* The rows of a training set: each problem with a digit in its answer, under its number.
HoldsRewardable(train, raw, n) ==
    \A i \in 1 .. n :
        (\E r \in ToSet(train) : r.index = i /\ r.prompt = raw[i].prompt)
            <=> raw[i].answer \notin Digitless \cup {NoAnswer}

\* So it is for MATH.
LEMMA MathIsRewardable ==
    ASSUME NEW E, NEW n \in Nat, NEW raw \in [1 .. n -> E], NEW some, some = MathRows(raw),
           NEW train, train = FilterRewardable(some)
    PROVE  /\ \E R : some \in Seq(R) /\ train \in Seq(R)
           /\ HoldsRewardable(train, raw, n)
<1>1. PICK rows : rows = [i \in 1 .. n |-> Record("math", i, raw[i])]  OBVIOUS
<1>2. PICK R : R = {rows[i] : i \in 1 .. n}  OBVIOUS
<1>3. rows \in [1 .. n -> R]
  <2>1. rows = [i \in 1 .. n |-> rows[i]] /\ \A i \in 1 .. n : rows[i] \in R
    BY <1>1, <1>2
  <2>. QED BY <2>1
<1>4. \A i \in 1 .. n : rows[i].index = i /\ rows[i].prompt = raw[i].prompt /\ rows[i].answer = raw[i].answer
  BY <1>1 DEF Record
<1>5. PICK S \in SUBSET (1 .. n) : S = {i \in 1 .. n : raw[i].answer # NoAnswer}  OBVIOUS
<1>6. some = Only(rows, S)
  <2>1. DOMAIN raw = 1 .. n  OBVIOUS
  <2>. QED BY <1>1, <1>5, <2>1 DEF MathRows
<1>7. IsPart(some, rows, S, R)
  BY <1>3, <1>6, OnlyIsPart
<1>8. PICK m \in Nat : m = Len(some) /\ DOMAIN some = 1 .. m /\ some \in [1 .. m -> R]
  BY <1>7 DEF IsPart
<1>9. PICK T \in SUBSET (1 .. m) : T = {k \in 1 .. m : some[k].answer \notin Digitless}  OBVIOUS
<1>10. IsPart(train, some, T, R)
  <2>1. train = Only(some, T)
    BY <1>8, <1>9 DEF FilterRewardable
  <2>. QED BY <1>8, <2>1, OnlyIsPart
<1>11. ASSUME NEW i \in 1 .. n, raw[i].answer \notin Digitless \cup {NoAnswer}
       PROVE  \E r \in ToSet(train) : r.index = i /\ r.prompt = raw[i].prompt
  <2>1. PICK k \in 1 .. m : some[k] = rows[i]
    BY <1>5, <1>7, <1>8, <1>11 DEF IsPart
  <2>2. k \in T
    BY <1>4, <1>9, <1>11, <2>1
  <2>3. PICK l \in DOMAIN train : train[l] = rows[i]
    BY <1>10, <2>1, <2>2 DEF IsPart
  <2>. QED BY <1>4, <2>3 DEF ToSet
<1>12. ASSUME NEW i \in 1 .. n, NEW r \in ToSet(train), r.index = i
       PROVE  raw[i].answer \notin Digitless \cup {NoAnswer}
  <2>1. PICK l \in DOMAIN train : r = train[l]
    BY <1>12 DEF ToSet
  <2>2. PICK k \in T : r = some[k]
    BY <1>10, <2>1 DEF IsPart
  <2>3. PICK j \in S : r = rows[j]
    BY <1>7, <1>8, <2>2 DEF IsPart
  <2>4. j = i
    BY <1>4, <1>12, <2>3
  <2>5. r.answer \notin Digitless /\ r.answer = raw[i].answer
    BY <1>4, <1>9, <2>2, <2>3, <2>4
  <2>6. raw[i].answer # NoAnswer
    BY <1>5, <2>3, <2>4
  <2>. QED BY <2>5, <2>6
<1>13. HoldsRewardable(train, raw, n)
  BY <1>11, <1>12 DEF HoldsRewardable
<1>14. some \in Seq(R) /\ train \in Seq(R)
  BY <1>7, <1>10 DEF IsPart
<1>. QED BY <1>13, <1>14

\* One row of each problem of raw, and the first row of each.
FirstOf(raw, i) == \A j \in 1 .. i - 1 : Key(raw[j]) # Key(raw[i])
KeepsFirsts(unique, raw, n) ==
    /\ \A i, j \in DOMAIN unique : Key(unique[i]) = Key(unique[j]) => i = j
    /\ \A i \in 1 .. n : FirstOf(raw, i) => \E k \in DOMAIN unique : unique[k] = raw[i]

\* The rows of DAPO: one of each problem, and its first one if that can be rewarded.
OneOfEach(train) == \A i, j \in DOMAIN train : Key(train[i]) = Key(train[j]) => i = j
HoldsFirsts(train, raw, n) ==
    \A i \in 1 .. n :
        FirstOf(raw, i) /\ raw[i].answer \notin Digitless
            => \E r \in ToSet(train) : Key(r) = Key(raw[i]) /\ r.answer = raw[i].answer

\* They are made of the deduplicated ones.
LEMMA DapoIsRewardable ==
    ASSUME NEW E, NEW n \in Nat, NEW raw, NEW unique \in Seq(E), KeepsFirsts(unique, raw, n),
           NEW train, train = FilterRewardable(DapoRows(unique))
    PROVE  OneOfEach(train) /\ HoldsFirsts(train, raw, n)
<1>1. PICK m \in Nat : m = Len(unique) /\ DOMAIN unique = 1 .. m  OBVIOUS
<1>2. PICK rows : rows = DapoRows(unique)  OBVIOUS
<1>3. rows = [i \in 1 .. m |-> Record("math_dapo", unique[i].index, unique[i])]
  BY <1>1, <1>2 DEF DapoRows
<1>4. \A i \in 1 .. m : /\ rows[i].index = unique[i].index /\ rows[i].prompt = unique[i].prompt
                        /\ rows[i].answer = unique[i].answer
  BY <1>3 DEF Record
<1>5. \A i \in 1 .. m : Key(rows[i]) = Key(unique[i])
  BY <1>4 DEF Key
<1>6. PICK T \in SUBSET (1 .. m) : T = {i \in 1 .. m : rows[i].answer \notin Digitless}  OBVIOUS
<1>7. train = Only(rows, T)
  <2>1. DOMAIN rows = 1 .. m
    BY <1>3
  <2>. QED BY <1>2, <1>6, <2>1 DEF FilterRewardable
<1>8. PICK at : IsKept(train, rows, T, at)
  BY <1>7, OnlyKeeps
<1>9. PICK N \in Nat : N = Cardinality(T)
  BY NumbersInOrder, FS_CardinalityType
<1>10. /\ at \in [1 .. N -> T] /\ \A i \in T : \E k \in 1 .. N : at[k] = i
       /\ \A k, l \in 1 .. N : at[k] = at[l] => k = l
       /\ train = [k \in 1 .. N |-> train[k]] /\ \A k \in 1 .. N : train[k] = rows[at[k]]
  BY <1>8, <1>9 DEF IsKept, IsListing
<1>11. DOMAIN train = 1 .. N
  BY <1>10
<1>12. ASSUME NEW k \in 1 .. N, NEW l \in 1 .. N, Key(train[k]) = Key(train[l]) PROVE k = l
  <2>1. PICK a \in T, b \in T : a = at[k] /\ b = at[l]
    BY <1>10
  <2>2. Key(unique[a]) = Key(unique[b])
    BY <1>5, <1>10, <1>12, <2>1
  <2>3. a = b
    BY <1>1, <2>2 DEF KeepsFirsts
  <2>. QED BY <1>10, <2>1, <2>3
<1>13. ASSUME NEW i \in 1 .. n, FirstOf(raw, i), raw[i].answer \notin Digitless
       PROVE  \E r \in ToSet(train) : Key(r) = Key(raw[i]) /\ r.answer = raw[i].answer
  <2>1. PICK k \in 1 .. m : unique[k] = raw[i]
    BY <1>1, <1>13 DEF KeepsFirsts
  <2>2. k \in T
    BY <1>4, <1>6, <1>13, <2>1
  <2>3. PICK l \in 1 .. N : train[l] = rows[k]
    BY <1>10, <2>2
  <2>. QED BY <1>4, <1>5, <1>11, <2>1, <2>3 DEF ToSet
<1>14. OneOfEach(train)
  BY <1>11, <1>12 DEF OneOfEach
<1>15. HoldsFirsts(train, raw, n)
  BY <1>13 DEF HoldsFirsts
<1>. QED BY <1>14, <1>15

\* One row more of the raw file.
UniqueStep(unique, ex) ==
    IF \E u \in ToSet(unique) : Key(u) = Key(ex) THEN unique ELSE Append(unique, ex)
IsUniting(g, raw, D) ==
    g = [T \in SUBSET D |-> IF T = {} THEN <<>> ELSE UniqueStep(g[T \ {Max(T)}], raw[Max(T)])]

\* The loop as a fold.
LEMMA DeduplicateIsFold ==
    ASSUME NEW raw
    PROVE  Deduplicate(raw) = (CHOOSE g : IsUniting(g, raw, DOMAIN raw))[DOMAIN raw]
BY DEF Deduplicate, FoldLeft, MapThenFoldSet, IsUniting, UniqueStep

\* p unites the rows one by one.
UnitesOn(p, raw, n, E) ==
    /\ p[0] = <<>> /\ \A k \in 0 .. n : p[k] \in Seq(E)
    /\ \A k \in Nat : k + 1 <= n => p[k + 1] = UniqueStep(p[k], raw[k + 1])

\* What is unique comes about row by row.
LEMMA DeduplicateSteps ==
    ASSUME NEW E, NEW n \in Nat, NEW raw \in [1 .. n -> E]
    PROVE  \E p : UnitesOn(p, raw, n, E) /\ p[n] = Deduplicate(raw)
<1>1. PICK X : X = Seq(E)  OBVIOUS
<1>2. <<>> \in X
  BY <1>1
<1>3. PICK F : F = [x \in X \X (1 .. n) |-> UniqueStep(x[1], raw[x[2]])]  OBVIOUS
<1>4. ASSUME NEW u \in X, NEW i \in 1 .. n PROVE F[<<u, i>>] = UniqueStep(u, raw[i]) /\ F[<<u, i>>] \in X
  <2>1. F[<<u, i>>] = UniqueStep(u, raw[i])
    BY <1>3
  <2>2. Append(u, raw[i]) \in X
    BY <1>1
  <2>. QED BY <2>1, <2>2 DEF UniqueStep
<1>5. F \in [X \X (1 .. n) -> X]
  BY <1>3, <1>4
<1>6. PICK h : IsFold(h, F, <<>>, n, X)
  BY <1>2, <1>5, FoldsExist
<1>7. h = [T \in SUBSET (1 .. n) |-> h[T]] /\ h[{}] = <<>>
  BY <1>6 DEF IsFold
<1>8. ASSUME NEW T \in SUBSET (1 .. n)
      PROVE  h[T] = IF T = {} THEN <<>> ELSE UniqueStep(h[T \ {Max(T)}], raw[Max(T)])
  <2>1. CASE T # {}
    <3>1. FoldsOn(h, F, T, n, X)
      BY <1>6, <2>1, FoldAt
    <3>. QED BY <1>4, <2>1, <3>1 DEF FoldsOn
  <2>. QED BY <1>7, <2>1
<1>9. IsUniting(h, raw, 1 .. n)
  BY <1>7, <1>8 DEF IsUniting
<1>10. PICK g : g = CHOOSE f : IsUniting(f, raw, DOMAIN raw)  OBVIOUS
<1>11. IsUniting(g, raw, 1 .. n) /\ Deduplicate(raw) = g[1 .. n]
  <2>1. DOMAIN raw = 1 .. n  OBVIOUS
  <2>2. Deduplicate(raw) = (CHOOSE f : IsUniting(f, raw, DOMAIN raw))[DOMAIN raw]
    BY DeduplicateIsFold
  <2>. QED BY <1>9, <1>10, <2>1, <2>2
<1>12. IsFolded(g, F, <<>>, n, X)
  <2>1. ASSUME NEW T \in SUBSET (1 .. n), T # {}, g[T \ {Max(T)}] \in X
        PROVE  g[T] = F[<<g[T \ {Max(T)}], Max(T)>>]
    <3>1. Max(T) \in 1 .. n
      BY <2>1, MaxOfPart
    <3>. QED BY <1>4, <1>11, <2>1, <3>1 DEF IsUniting
  <2>2. g[{}] = <<>>
    BY <1>11 DEF IsUniting
  <2>. QED BY <2>1, <2>2 DEF IsFolded
<1>13. PICK p : IsSteps(p, F, <<>>, n, X, g[1 .. n])
  BY <1>2, <1>5, <1>12, FoldsAreSteps
<1>14. ASSUME NEW k \in Nat, k + 1 <= n PROVE p[k + 1] = UniqueStep(p[k], raw[k + 1])
  <2>1. k \in 0 .. n /\ k + 1 \in 1 .. n
    BY <1>14
  <2>2. p[k] \in X /\ p[k + 1] = F[<<p[k], k + 1>>]
    BY <1>13, <1>14, <2>1 DEF IsSteps
  <2>. QED BY <1>4, <2>1, <2>2
<1>15. UnitesOn(p, raw, n, E)
  BY <1>1, <1>13, <1>14 DEF UnitesOn, IsSteps
<1>. QED BY <1>11, <1>13, <1>15 DEF IsSteps

\* The first k rows: one of each problem, those of the file, and the first of each.
UnitesUpTo(u, raw, k) ==
    /\ \A i, j \in DOMAIN u : Key(u[i]) = Key(u[j]) => i = j
    /\ \A i \in DOMAIN u : \E j \in 1 .. k : u[i] = raw[j]
    /\ \A i \in 1 .. k : FirstOf(raw, i) => \E j \in DOMAIN u : u[j] = raw[i]

\* It stays so with the next row.
LEMMA NextIsUnited ==
    ASSUME NEW E, NEW n \in Nat, NEW raw \in [1 .. n -> E], NEW k \in Nat, k + 1 <= n,
           NEW u \in Seq(E), UnitesUpTo(u, raw, k)
    PROVE  UnitesUpTo(UniqueStep(u, raw[k + 1]), raw, k + 1)
<1>1. PICK ex : ex = raw[k + 1]  OBVIOUS
<1>2. PICK m \in Nat : m = Len(u) /\ DOMAIN u = 1 .. m  OBVIOUS
<1>3. 1 .. k \subseteq 1 .. k + 1 /\ k + 1 \in 1 .. k + 1 /\ k + 1 \in 1 .. n /\ ex \in E
  BY <1>1
<1>4. \A i \in 1 .. k + 1 : i \in 1 .. k \/ i = k + 1  OBVIOUS
<1>5. CASE \E x \in ToSet(u) : Key(x) = Key(ex)
  <2>1. UniqueStep(u, ex) = u
    BY <1>5 DEF UniqueStep
  <2>2. ~FirstOf(raw, k + 1)
    <3>1. PICK i \in DOMAIN u : Key(u[i]) = Key(ex)
      BY <1>5 DEF ToSet
    <3>2. PICK j \in 1 .. k : u[i] = raw[j]
      BY <3>1 DEF UnitesUpTo
    <3>3. j \in 1 .. k + 1 - 1  OBVIOUS
    <3>. QED BY <1>1, <3>1, <3>2, <3>3 DEF FirstOf
  <2>3. \A i \in 1 .. k + 1 : FirstOf(raw, i) => \E j \in DOMAIN u : u[j] = raw[i]
    BY <1>4, <2>2 DEF UnitesUpTo
  <2>4. \A i \in DOMAIN u : \E j \in 1 .. k + 1 : u[i] = raw[j]
    BY <1>3 DEF UnitesUpTo
  <2>. QED BY <1>1, <2>1, <2>3, <2>4 DEF UnitesUpTo
<1>6. CASE ~\E x \in ToSet(u) : Key(x) = Key(ex)
  <2>1. PICK v : v = Append(u, ex) /\ v = UniqueStep(u, ex)
    BY <1>6 DEF UniqueStep
  <2>2. DOMAIN v = 1 .. m + 1 /\ v[m + 1] = ex /\ \A i \in 1 .. m : v[i] = u[i]
    <3>1. PICK e \in E : e = ex
      BY <1>3
    <3>2. v = Append(u, e) /\ Len(u) = m
      BY <1>2, <2>1, <3>1
    <3>3. Len(v) = m + 1 /\ v \in Seq(E) /\ v[m + 1] = e /\ \A i \in 1 .. m : v[i] = u[i]
      BY <3>2
    <3>. QED BY <3>1, <3>3
  <2>3. \A i \in 1 .. m + 1 : i \in 1 .. m \/ i = m + 1
    BY <1>2
  <2>4. \A i \in 1 .. m : Key(v[i]) # Key(ex)
    BY <1>2, <1>6, <2>2 DEF ToSet
  <2>5. ASSUME NEW i \in 1 .. m + 1, NEW j \in 1 .. m + 1, Key(v[i]) = Key(v[j]) PROVE i = j
    <3>1. CASE i \in 1 .. m /\ j \in 1 .. m
      BY <1>2, <2>2, <2>5, <3>1 DEF UnitesUpTo
    <3>2. CASE i = m + 1 \/ j = m + 1
      BY <2>2, <2>3, <2>4, <2>5, <3>2
    <3>. QED BY <2>3, <3>1, <3>2
  <2>6. ASSUME NEW i \in 1 .. m + 1 PROVE \E j \in 1 .. k + 1 : v[i] = raw[j]
    <3>1. CASE i \in 1 .. m
      BY <1>2, <1>3, <2>2, <3>1 DEF UnitesUpTo
    <3>2. CASE i = m + 1
      BY <1>1, <1>3, <2>2, <3>2
    <3>. QED BY <2>3, <3>1, <3>2
  <2>7. ASSUME NEW i \in 1 .. k + 1, FirstOf(raw, i) PROVE \E j \in 1 .. m + 1 : v[j] = raw[i]
    <3>1. CASE i \in 1 .. k
      <4>1. PICK j \in 1 .. m : u[j] = raw[i]
        BY <1>2, <2>7, <3>1 DEF UnitesUpTo
      <4>2. j \in 1 .. m + 1
        BY <1>2
      <4>. QED BY <2>2, <4>1, <4>2
    <3>2. CASE i = k + 1
      <4>1. m + 1 \in 1 .. m + 1
        BY <1>2
      <4>. QED BY <1>1, <2>2, <3>2, <4>1
    <3>. QED BY <1>4, <3>1, <3>2
  <2>8. UnitesUpTo(v, raw, k + 1)
    BY <2>2, <2>5, <2>6, <2>7 DEF UnitesUpTo
  <2>. QED BY <1>1, <2>1, <2>8
<1>. QED BY <1>5, <1>6

\* The deduplicated rows are the first ones.
LEMMA FirstsAreKept ==
    ASSUME NEW E, NEW n \in Nat, NEW raw \in [1 .. n -> E]
    PROVE  Deduplicate(raw) \in Seq(E) /\ KeepsFirsts(Deduplicate(raw), raw, n)
<1>1. PICK p : UnitesOn(p, raw, n, E) /\ p[n] = Deduplicate(raw)
  BY DeduplicateSteps
<1>. DEFINE G == {k \in Nat : k <= n => UnitesUpTo(p[k], raw, k)}
<1>2. 0 \in G
  <2>1. 1 .. 0 = {} /\ DOMAIN <<>> = {}  OBVIOUS
  <2>. QED BY <1>1, <2>1 DEF UnitesOn, UnitesUpTo
<1>3. ASSUME NEW k \in Nat, k \in G PROVE k + 1 \in G
  <2>1. ASSUME k + 1 <= n PROVE UnitesUpTo(p[k + 1], raw, k + 1)
    <3>1. k <= n /\ k \in 0 .. n
      BY <2>1
    <3>2. p[k] \in Seq(E) /\ p[k + 1] = UniqueStep(p[k], raw[k + 1])
      BY <1>1, <2>1, <3>1 DEF UnitesOn
    <3>3. UnitesUpTo(p[k], raw, k)
      BY <1>3, <3>1
    <3>. QED BY <2>1, <3>2, <3>3, NextIsUnited
  <2>2. k + 1 \in Nat  OBVIOUS
  <2>. QED BY <2>1, <2>2
<1>4. Nat \subseteq G
  <2>. HIDE DEF G
  <2>. QED BY <1>2, <1>3, NaturalSteps
<1>5. UnitesUpTo(p[n], raw, n)
  BY <1>4
<1>6. p[n] \in Seq(E)
  <2>1. n \in 0 .. n  OBVIOUS
  <2>. QED BY <1>1, <2>1 DEF UnitesOn
<1>. QED BY <1>1, <1>5, <1>6 DEF UnitesUpTo, KeepsFirsts

-----------------------------------------------------------------------------
(* The parquets of a call.                                                   *)

Sources == {"math", "dapo", "math500", "gpqa_diamond"}

\* The files of a dataset; no two datasets share one.
FilesOf(name) ==
    CASE name = "math" -> {"math_train", "smoke_train"}
      [] name = "dapo" -> {"dapo_train"}
      [] name = "math500" -> {"math500", "smoke_val"}
      [] OTHER -> {"gpqa_diamond"}

\* The sequence s has parquets, one to a file of the dataset.
AreParquets(s, name) ==
    /\ s \in Seq(ToSet(s))
    /\ \A p \in ToSet(s) : p.file \in FilesOf(name)
    /\ \A p, q \in ToSet(s) : p.file = q.file => p = q

\* What Parquets gives are such.
LEMMA ParquetsHaveFiles ==
    ASSUME NEW call, NEW name \in Sources
    PROVE  AreParquets(Parquets(call, name), name)
<1>1. PICK s : s = Parquets(call, name)  OBVIOUS
<1>2. ASSUME NEW p, NEW q, s = <<p, q>>, p.file \in FilesOf(name), q.file \in FilesOf(name), p.file # q.file
      PROVE  AreParquets(s, name)
  <2>1. DOMAIN s = {1, 2} /\ s[1] = p /\ s[2] = q
    BY <1>2
  <2>2. ToSet(s) = {p, q}
    BY <2>1 DEF ToSet
  <2>3. s \in Seq({p, q})
    BY <1>2
  <2>. QED BY <1>2, <2>2, <2>3 DEF AreParquets
<1>3. ASSUME NEW p, s = <<p>>, p.file \in FilesOf(name) PROVE AreParquets(s, name)
  <2>1. DOMAIN s = {1} /\ s[1] = p
    BY <1>3
  <2>2. ToSet(s) = {p}
    BY <2>1 DEF ToSet
  <2>3. s \in Seq({p})
    BY <1>3
  <2>. QED BY <1>3, <2>2, <2>3 DEF AreParquets
<1>4. CASE name = "math"
  <2>1. PICK p, q : s = <<p, q>> /\ p.file = "math_train" /\ q.file = "smoke_train"
    BY <1>1, <1>4 DEF Parquets
  <2>2. p.file \in FilesOf(name) /\ q.file \in FilesOf(name) /\ p.file # q.file
    BY <1>4, <2>1 DEF FilesOf
  <2>. QED BY <1>1, <1>2, <2>1, <2>2
<1>5. CASE name = "dapo"
  <2>1. PICK p : s = <<p>> /\ p.file = "dapo_train"
    BY <1>1, <1>5 DEF Parquets
  <2>2. p.file \in FilesOf(name)
    BY <1>5, <2>1 DEF FilesOf
  <2>. QED BY <1>1, <1>3, <2>1, <2>2
<1>6. CASE name = "math500"
  <2>1. PICK p, q : s = <<p, q>> /\ p.file = "math500" /\ q.file = "smoke_val"
    BY <1>1, <1>6 DEF Parquets
  <2>2. p.file \in FilesOf(name) /\ q.file \in FilesOf(name) /\ p.file # q.file
    BY <1>6, <2>1 DEF FilesOf
  <2>. QED BY <1>1, <1>2, <2>1, <2>2
<1>7. CASE name = "gpqa_diamond"
  <2>1. PICK p : s = <<p>> /\ p.file = "gpqa_diamond"
    BY <1>1, <1>7 DEF Parquets
  <2>2. p.file \in FilesOf(name)
    BY <1>7, <2>1 DEF FilesOf
  <2>. QED BY <1>1, <1>3, <2>1, <2>2
<1>. QED BY <1>4, <1>5, <1>6, <1>7 DEF Sources

IsFlat(t, seqs, m, S) ==
    /\ t \in Seq(S)
    /\ \A x : x \in ToSet(t) <=> \E i \in 1 .. m : x \in ToSet(seqs[i])

\* One sequence more behind the others.
LEMMA OneMoreIsFlat ==
    ASSUME NEW S, NEW m \in Nat, NEW seqs, seqs[m + 1] \in Seq(S), NEW t, IsFlat(t, seqs, m, S)
    PROVE  IsFlat(t \o seqs[m + 1], seqs, m + 1, S)
<1>1. PICK u \in Seq(S) : u = seqs[m + 1]  OBVIOUS
<1>2. t \in Seq(S)
  BY DEF IsFlat
<1>3. ToSet(t \o u) = ToSet(t) \cup ToSet(u)
  <2>1. PICK a \in Nat, b \in Nat : a = Len(t) /\ b = Len(u) /\ DOMAIN t = 1 .. a /\ DOMAIN u = 1 .. b
    BY <1>2
  <2>2. PICK v : v = t \o u  OBVIOUS
  <2>3. /\ DOMAIN v = 1 .. a + b /\ \A i \in 1 .. a : v[i] = t[i]
        /\ \A i \in 1 .. b : v[a + i] = u[i]
    BY <1>2, <2>1, <2>2
  <2>4. \A i \in 1 .. a + b : i \in 1 .. a \/ (i - a \in 1 .. b /\ i = a + (i - a))
    BY <2>1
  <2>5. 1 .. a \subseteq 1 .. a + b /\ \A i \in 1 .. b : a + i \in 1 .. a + b
    BY <2>1
  <2>6. ASSUME NEW x \in ToSet(v) PROVE x \in ToSet(t) \cup ToSet(u)
    <3>1. PICK i \in 1 .. a + b : x = v[i]
      BY <2>3 DEF ToSet
    <3>2. CASE i \in 1 .. a
      BY <2>1, <2>3, <3>1, <3>2 DEF ToSet
    <3>3. CASE i - a \in 1 .. b /\ i = a + (i - a)
      <4>1. PICK j \in 1 .. b : i = a + j
        BY <3>3
      <4>2. x = u[j]
        BY <2>3, <3>1, <4>1
      <4>. QED BY <2>1, <4>2 DEF ToSet
    <3>. QED BY <2>4, <3>2, <3>3
  <2>7. ToSet(t) \subseteq ToSet(v) /\ ToSet(u) \subseteq ToSet(v)
    <3>1. ASSUME NEW x \in ToSet(t) PROVE x \in ToSet(v)
      <4>1. PICK i \in 1 .. a : x = t[i]
        BY <2>1, <3>1 DEF ToSet
      <4>. QED BY <2>3, <2>5, <4>1 DEF ToSet
    <3>2. ASSUME NEW x \in ToSet(u) PROVE x \in ToSet(v)
      <4>1. PICK i \in 1 .. b : x = u[i]
        BY <2>1, <3>2 DEF ToSet
      <4>2. x = v[a + i] /\ a + i \in DOMAIN v
        BY <2>3, <2>5, <4>1
      <4>. QED BY <4>2 DEF ToSet
    <3>. QED BY <3>1, <3>2
  <2>. QED BY <2>2, <2>6, <2>7
<1>4. \A i \in 1 .. m + 1 : i \in 1 .. m \/ i = m + 1  OBVIOUS
<1>5. 1 .. m \subseteq 1 .. m + 1 /\ m + 1 \in 1 .. m + 1  OBVIOUS
<1>6. \A x : x \in ToSet(t \o u) <=> \E i \in 1 .. m + 1 : x \in ToSet(seqs[i])
  BY <1>1, <1>3, <1>4, <1>5 DEF IsFlat
<1>7. t \o u \in Seq(S)
  BY <1>2
<1>. QED BY <1>1, <1>6, <1>7 DEF IsFlat

IsFlattening(f, seqs, n) == f = [i \in 1 .. n |-> IF i = 1 THEN seqs[i] ELSE f[i - 1] \o seqs[i]]

\* FlattenSeq as far as a call has datasets.
LEMMA FourAreFlattened ==
    ASSUME NEW S, NEW m \in 0 .. 4, NEW seqs \in [1 .. m -> Seq(S)]
    PROVE  IsFlat(FlattenSeq(seqs), seqs, m, S)
<1>1. Len(seqs) = m /\ DOMAIN seqs = 1 .. m /\ seqs \in Seq(Seq(S))  OBVIOUS
<1>2. CASE m = 0
  <2>1. seqs = <<>> /\ 1 .. m = {}
    BY <1>1, <1>2
  <2>2. FlattenSeq(seqs) = <<>>
    BY <1>1, <1>2, <2>1 DEF FlattenSeq
  <2>3. <<>> \in Seq(S) /\ ToSet(<<>>) = {}
    BY DEF ToSet
  <2>. QED BY <2>1, <2>2, <2>3 DEF IsFlat
<1>3. CASE m \in 1 .. 4
  <2>1. PICK c : c = seqs[1] \o seqs[2]  OBVIOUS
  <2>2. PICK d : d = c \o seqs[3]  OBVIOUS
  <2>3. PICK e : e = d \o seqs[4]  OBVIOUS
  <2>4. PICK f : f = [i \in 1 .. m |-> IF i = 1 THEN seqs[1] ELSE IF i = 2 THEN c ELSE IF i = 3 THEN d ELSE e]
    OBVIOUS
  <2>5. IsFlattening(f, seqs, m)
    <3>1. ASSUME NEW i \in 1 .. m PROVE f[i] = IF i = 1 THEN seqs[i] ELSE f[i - 1] \o seqs[i]
      <4>1. i = 1 \/ i = 2 \/ i = 3 \/ i = 4
        BY <1>3
      <4>2. i # 1 => i - 1 \in 1 .. m
        BY <1>3
      <4>. QED BY <2>1, <2>2, <2>3, <2>4, <4>1, <4>2
    <3>2. f = [i \in 1 .. m |-> f[i]]
      BY <2>4
    <3>. QED BY <3>1, <3>2 DEF IsFlattening
  <2>6. PICK g : g = CHOOSE h : IsFlattening(h, seqs, m)  OBVIOUS
  <2>7. IsFlattening(g, seqs, m)
    BY <2>5, <2>6
  <2>8. FlattenSeq(seqs) = g[m]
    <3>1. FlattenSeq(seqs) = (CHOOSE h : IsFlattening(h, seqs, Len(seqs)))[Len(seqs)]
      BY <1>1, <1>3 DEF FlattenSeq, IsFlattening
    <3>. QED BY <1>1, <2>6, <3>1
  <2>9. \A i \in 1 .. m : g[i] = IF i = 1 THEN seqs[i] ELSE g[i - 1] \o seqs[i]
    BY <2>7 DEF IsFlattening
  <2>. DEFINE G == {k \in Nat : 1 <= k /\ k <= m => IsFlat(g[k], seqs, k, S)}
  <2>10. 0 \in G  OBVIOUS
  <2>11. ASSUME NEW k \in Nat, k \in G PROVE k + 1 \in G
    <3>1. ASSUME k + 1 <= m PROVE IsFlat(g[k + 1], seqs, k + 1, S)
      <4>1. k + 1 \in 1 .. m
        BY <3>1
      <4>2. CASE k = 0
        <5>1. g[1] = seqs[1] /\ seqs[1] \in Seq(S)
          BY <2>9, <4>1, <4>2
        <5>2. 1 .. 1 = {1}  OBVIOUS
        <5>. QED BY <4>2, <5>1, <5>2 DEF IsFlat
      <4>3. CASE k # 0
        <5>1. g[k + 1] = g[k] \o seqs[k + 1] /\ seqs[k + 1] \in Seq(S)
          <6>1. k + 1 # 1 /\ k + 1 - 1 = k
            BY <4>3
          <6>2. g[k + 1] = IF k + 1 = 1 THEN seqs[k + 1] ELSE g[k + 1 - 1] \o seqs[k + 1]
            BY <2>9, <4>1
          <6>. QED BY <4>1, <6>1, <6>2
        <5>2. 1 <= k /\ k <= m
          BY <3>1, <4>3
        <5>3. IsFlat(g[k], seqs, k, S)
          BY <2>11, <5>2
        <5>. QED BY <5>1, <5>3, OneMoreIsFlat
      <4>. QED BY <4>2, <4>3
    <3>2. k + 1 \in Nat  OBVIOUS
    <3>. QED BY <3>1, <3>2
  <2>12. Nat \subseteq G
    <3>. HIDE DEF G
    <3>. QED BY <2>10, <2>11, NaturalSteps
  <2>13. m \in Nat /\ 1 <= m
    BY <1>3
  <2>. QED BY <2>8, <2>12, <2>13
<1>. QED BY <1>2, <1>3

\* The datasets of a call, in turn.
LEMMA DatasetsAreSome ==
    ASSUME NEW call
    PROVE  /\ Datasets(call) \in Seq(Sources) /\ Len(Datasets(call)) \in 0 .. 4
           /\ DOMAIN Datasets(call) = 1 .. Len(Datasets(call))
<1>1. PICK a, b : a = <<"math", "dapo">> /\ b = EvalSources  OBVIOUS
<1>2. PICK all : all = a \o b  OBVIOUS
<1>3. DOMAIN all = 1 .. 4 /\ all \in [1 .. 4 -> Sources]
  <2>1. a \in Seq(Sources) /\ b \in Seq(Sources) /\ Len(a) = 2 /\ Len(b) = 2
    BY <1>1 DEF Sources, EvalSources
  <2>2. PICK x \in Seq(Sources), y \in Seq(Sources) : x = a /\ y = b
    BY <2>1
  <2>3. x \o y \in Seq(Sources) /\ Len(x \o y) = Len(x) + Len(y)  OBVIOUS
  <2>4. all \in Seq(Sources) /\ Len(all) = 4
    <3>1. all = x \o y /\ Len(x) = 2 /\ Len(y) = 2
      BY <1>2, <2>1, <2>2
    <3>. QED BY <2>3, <3>1
  <2>5. PICK z \in Seq(Sources) : z = all /\ Len(z) = 4
    BY <2>4
  <2>6. DOMAIN z = 1 .. Len(z)  OBVIOUS
  <2>7. z \in [1 .. Len(z) -> Sources]  OBVIOUS
  <2>. QED BY <2>5, <2>6, <2>7
<1>4. PICK S \in SUBSET (1 .. 4) :
        S = {i \in DOMAIN all : all[i] \notin call.skip /\ (all[i] = "gpqa_diamond" => all[i] \in DOMAIN call.raw)}
  BY <1>3
<1>5. Datasets(call) = Only(all, S)
  BY <1>1, <1>2, <1>4 DEF Datasets
<1>6. IsPart(Datasets(call), all, S, Sources)
  BY <1>3, <1>5, OnlyIsPart
<1>7. Cardinality(S) <= 4
  <2>1. PICK n \in Nat : n = 4  OBVIOUS
  <2>2. IsFiniteSet(1 .. n) /\ Cardinality(1 .. n) = n
    BY FS_Interval
  <2>3. Cardinality(S) <= Cardinality(1 .. n)
    BY <2>1, <2>2, FS_Subset
  <2>. QED BY <2>1, <2>2, <2>3
<1>8. PICK D : D = Datasets(call) /\ D \in Seq(Sources) /\ Len(D) \in Nat /\ Len(D) = Cardinality(S)
  BY <1>6 DEF IsPart
<1>. QED BY <1>7, <1>8

\* All of the parquets of a call that refuses nothing, some of those of one that does.
IsMade(made, call, P) ==
    LET Gives(p) == \E i \in DOMAIN Datasets(call) : p \in ToSet(Parquets(call, Datasets(call)[i]))
    IN  /\ made \in Seq(P)
        /\ \A p \in ToSet(made) : Gives(p)
        /\ Refuses(call) = {} => \A p : Gives(p) => p \in ToSet(made)

\* They are.
LEMMA MadeIs ==
    ASSUME NEW call
    PROVE  \E P : IsMade(Made(call), call, P)
<1>1. PICK D : D = Datasets(call)  OBVIOUS
<1>2. PICK n \in 0 .. 4 : D \in Seq(Sources) /\ Len(D) = n /\ DOMAIN D = 1 .. n
  BY <1>1, DatasetsAreSome
<1>3. PICK R \in SUBSET (1 .. n) : R = Refuses(call)
  BY <1>1, <1>2 DEF Refuses
<1>4. PICK m \in 0 .. n :
        /\ Made(call) = FlattenSeq([i \in 1 .. m |-> Parquets(call, D[i])])
        /\ R = {} => m = n
  <2>1. CASE R = {}
    BY <1>1, <1>2, <1>3, <2>1 DEF Made
  <2>2. CASE R # {}
    <3>1. PICK i \in R : \A j \in R : i <= j
      <4>1. R \subseteq Nat  OBVIOUS
      <4>. QED BY <2>2, <4>1, LeastNumber
    <3>2. PICK l : l = CHOOSE k \in R : \A j \in R : k <= j  OBVIOUS
    <3>3. l \in R
      BY <3>1, <3>2
    <3>4. l - 1 \in 0 .. n
      BY <3>3
    <3>5. Made(call) = FlattenSeq([h \in 1 .. l - 1 |-> Parquets(call, D[h])])
      BY <1>1, <1>3, <2>2, <3>2 DEF Made
    <3>. QED BY <2>2, <3>4, <3>5
  <2>. QED BY <2>1, <2>2
<1>5. PICK P : P = UNION {ToSet(Parquets(call, D[i])) : i \in 1 .. n}  OBVIOUS
<1>6. PICK seqs : seqs = [i \in 1 .. m |-> Parquets(call, D[i])]  OBVIOUS
<1>7. \A i \in 1 .. n : Parquets(call, D[i]) \in Seq(P)
  <2>1. ASSUME NEW i \in 1 .. n PROVE Parquets(call, D[i]) \in Seq(P)
    <3>1. D[i] \in Sources
      BY <1>2
    <3>2. PICK s : s = Parquets(call, D[i])  OBVIOUS
    <3>3. s \in Seq(ToSet(s)) /\ ToSet(s) \subseteq P
      BY <1>5, <3>1, <3>2, ParquetsHaveFiles DEF AreParquets
    <3>. QED BY <3>2, <3>3
  <2>. QED BY <2>1
<1>8. 1 .. m \subseteq 1 .. n /\ m \in 0 .. 4  OBVIOUS
<1>9. seqs \in [1 .. m -> Seq(P)] /\ \A i \in 1 .. m : seqs[i] = Parquets(call, D[i])
  BY <1>6, <1>7, <1>8
<1>10. IsFlat(Made(call), seqs, m, P)
  BY <1>4, <1>6, <1>8, <1>9, FourAreFlattened
<1>11. Made(call) \in Seq(P) /\ \A x : x \in ToSet(Made(call)) <=> \E i \in 1 .. m : x \in ToSet(Parquets(call, D[i]))
  BY <1>9, <1>10 DEF IsFlat
<1>12. IsMade(Made(call), call, P)
  BY <1>1, <1>2, <1>3, <1>4, <1>8, <1>11 DEF IsMade
<1>. QED BY <1>12

\* A file is made once.
MadeOnce(made) == \A p, q \in ToSet(made) : p.file = q.file => p = q
LEMMA FilesAreMadeOnce ==
    ASSUME NEW call
    PROVE  MadeOnce(Made(call))
<1>1. PICK P : IsMade(Made(call), call, P)
  BY MadeIs
<1>2. PICK D \in Seq(Sources) : D = Datasets(call) /\ \A i \in DOMAIN D : D[i] \in Sources
  BY DatasetsAreSome
<1>3. ASSUME NEW p \in ToSet(Made(call)), NEW q \in ToSet(Made(call)), p.file = q.file PROVE p = q
  <2>1. PICK a \in Sources : p \in ToSet(Parquets(call, a))
    BY <1>1, <1>2 DEF IsMade
  <2>2. PICK b \in Sources : q \in ToSet(Parquets(call, b))
    BY <1>1, <1>2 DEF IsMade
  <2>3. p.file \in FilesOf(a) /\ p.file \in FilesOf(b)
    BY <1>3, <2>1, <2>2, ParquetsHaveFiles DEF AreParquets
  <2>4. a = b
    BY <2>3 DEF FilesOf, Sources
  <2>. QED BY <1>3, <2>1, <2>2, <2>4, ParquetsHaveFiles DEF AreParquets
<1>. QED BY <1>3 DEF MadeOnce

-----------------------------------------------------------------------------
(* The directory.                                                            *)

\* A directory with all of its fields.
IsDir(dir) ==
    /\ {"files", "manifest", "staged", "finished", "call"} \subseteq DOMAIN dir
    /\ dir = [x \in DOMAIN dir |-> dir[x]]
    /\ dir.files = [f \in DOMAIN dir.files |-> dir.files[f]]

IsWriting(g, dir, made, D) ==
    g = [T \in SUBSET D |-> IF T = {} THEN dir ELSE Write(g[T \ {Max(T)}], made[Max(T)])]

\* The parquets that are written, as a fold.
WriteAll(dir, made) == FoldLeft(Write, dir, made)
LEMMA WriteAllIsFold ==
    ASSUME NEW dir, NEW made
    PROVE  WriteAll(dir, made) = (CHOOSE g : IsWriting(g, dir, made, DOMAIN made))[DOMAIN made]
BY DEF WriteAll, FoldLeft, MapThenFoldSet, IsWriting

\* dir with other files, named in N and with contents of V.
WithFiles(dir, N, V) == {[dir EXCEPT !.files = f] : f \in UNION {[D -> V] : D \in SUBSET N}}

\* One parquet more.
LEMMA WriteStays ==
    ASSUME NEW dir, IsDir(dir), NEW N, NEW V, NEW c \in WithFiles(dir, N, V), NEW p, p.file \in N, p.rows \in V
    PROVE  /\ Write(c, p) \in WithFiles(dir, N, V)
           /\ Write(c, p).files =
                [f \in DOMAIN c.files \cup {p.file} |-> IF f = p.file THEN p.rows ELSE c.files[f]]
<1>1. PICK D \in SUBSET N : \E g \in [D -> V] : c = [dir EXCEPT !.files = g]
  BY DEF WithFiles
<1>2. PICK g \in [D -> V] : c = [dir EXCEPT !.files = g]
  BY <1>1
<1>3. "files" \in DOMAIN dir
  BY DEF IsDir
<1>4. c.files = g /\ DOMAIN c.files = D
  BY <1>2, <1>3
<1>5. PICK h : h = [f \in D \cup {p.file} |-> IF f = p.file THEN p.rows ELSE g[f]]  OBVIOUS
<1>6. PICK B \in SUBSET N : B = D \cup {p.file}  OBVIOUS
<1>7. h \in [B -> V]
  BY <1>5, <1>6
<1>8. Write(c, p) = [c EXCEPT !.files = h]
  BY <1>4, <1>5 DEF Write
<1>9. [c EXCEPT !.files = h] = [dir EXCEPT !.files = h]
  BY <1>2, <1>3
<1>10. [dir EXCEPT !.files = h] \in WithFiles(dir, N, V)
  BY <1>7 DEF WithFiles
<1>11. [dir EXCEPT !.files = h].files = h
  BY <1>3
<1>. QED BY <1>4, <1>5, <1>8, <1>9, <1>10, <1>11

\* p writes them one by one.
WritesOn(p, dir, made, n, X) ==
    /\ p[0] = dir /\ \A k \in 0 .. n : p[k] \in X
    /\ \A k \in Nat : k + 1 <= n => p[k + 1] = Write(p[k], made[k + 1])

\* What is in the directory comes about parquet by parquet.
LEMMA WriteSteps ==
    ASSUME NEW dir, IsDir(dir), NEW n \in Nat, NEW made, DOMAIN made = 1 .. n,
           NEW X, dir \in X, \A c \in X, i \in 1 .. n : Write(c, made[i]) \in X
    PROVE  \E p : WritesOn(p, dir, made, n, X) /\ p[n] = WriteAll(dir, made)
<1>1. PICK F : F = [x \in X \X (1 .. n) |-> Write(x[1], made[x[2]])]  OBVIOUS
<1>2. ASSUME NEW c \in X, NEW i \in 1 .. n PROVE F[<<c, i>>] = Write(c, made[i]) /\ F[<<c, i>>] \in X
  <2>1. F[<<c, i>>] = Write(c, made[i])
    BY <1>1
  <2>. QED BY <2>1
<1>3. F \in [X \X (1 .. n) -> X]
  BY <1>1, <1>2
<1>4. PICK h : IsFold(h, F, dir, n, X)
  BY <1>3, FoldsExist
<1>5. h = [T \in SUBSET (1 .. n) |-> h[T]] /\ h[{}] = dir
  BY <1>4 DEF IsFold
<1>6. ASSUME NEW T \in SUBSET (1 .. n)
      PROVE  h[T] = IF T = {} THEN dir ELSE Write(h[T \ {Max(T)}], made[Max(T)])
  <2>1. CASE T # {}
    <3>1. FoldsOn(h, F, T, n, X)
      BY <1>4, <2>1, FoldAt
    <3>. QED BY <1>2, <2>1, <3>1 DEF FoldsOn
  <2>. QED BY <1>5, <2>1
<1>7. IsWriting(h, dir, made, 1 .. n)
  BY <1>5, <1>6 DEF IsWriting
<1>8. PICK g : g = CHOOSE f : IsWriting(f, dir, made, DOMAIN made)  OBVIOUS
<1>9. IsWriting(g, dir, made, 1 .. n) /\ WriteAll(dir, made) = g[1 .. n]
  BY <1>7, <1>8, WriteAllIsFold
<1>10. IsFolded(g, F, dir, n, X)
  <2>1. ASSUME NEW T \in SUBSET (1 .. n), T # {}, g[T \ {Max(T)}] \in X
        PROVE  g[T] = F[<<g[T \ {Max(T)}], Max(T)>>]
    <3>1. Max(T) \in 1 .. n
      BY <2>1, MaxOfPart
    <3>. QED BY <1>2, <1>9, <2>1, <3>1 DEF IsWriting
  <2>2. g[{}] = dir
    BY <1>9 DEF IsWriting
  <2>. QED BY <2>1, <2>2 DEF IsFolded
<1>11. PICK p : IsSteps(p, F, dir, n, X, g[1 .. n])
  BY <1>3, <1>10, FoldsAreSteps
<1>12. ASSUME NEW k \in Nat, k + 1 <= n PROVE p[k + 1] = Write(p[k], made[k + 1])
  <2>1. k \in 0 .. n /\ k + 1 \in 1 .. n
    BY <1>12
  <2>2. p[k] \in X /\ p[k + 1] = F[<<p[k], k + 1>>]
    BY <1>11, <1>12, <2>1 DEF IsSteps
  <2>. QED BY <1>2, <2>1, <2>2
<1>13. WritesOn(p, dir, made, n, X)
  BY <1>11, <1>12 DEF WritesOn, IsSteps
<1>. QED BY <1>9, <1>11, <1>13 DEF IsSteps

\* What is written is there.
Holds(dir, made) == \A p \in ToSet(made) : p.file \in DOMAIN dir.files /\ dir.files[p.file] = p.rows

LEMMA AllIsWritten ==
    ASSUME NEW dir, IsDir(dir), NEW P, NEW made \in Seq(P), MadeOnce(made)
    PROVE  IsDir(WriteAll(dir, made)) /\ Holds(WriteAll(dir, made), made)
<1>1. PICK n \in Nat : n = Len(made) /\ DOMAIN made = 1 .. n  OBVIOUS
<1>2. PICK N : N = DOMAIN dir.files \cup {made[i].file : i \in 1 .. n}  OBVIOUS
<1>3. PICK V : V = {dir.files[f] : f \in DOMAIN dir.files} \cup {made[i].rows : i \in 1 .. n}  OBVIOUS
<1>4. PICK X : X = WithFiles(dir, N, V)  OBVIOUS
<1>5. dir \in X
  <2>1. dir.files \in [DOMAIN dir.files -> V] /\ DOMAIN dir.files \in SUBSET N
    <3>1. \A f \in DOMAIN dir.files : dir.files[f] \in V
      BY <1>3
    <3>. QED BY <1>2, <3>1 DEF IsDir
  <2>2. dir = [dir EXCEPT !.files = dir.files]
    BY DEF IsDir
  <2>. QED BY <1>4, <2>1, <2>2 DEF WithFiles
<1>6. \A i \in 1 .. n : made[i].file \in N /\ made[i].rows \in V
  BY <1>2, <1>3
<1>7. \A c \in X, i \in 1 .. n : Write(c, made[i]) \in X
  BY <1>4, <1>6, WriteStays
<1>8. PICK p : WritesOn(p, dir, made, n, X) /\ p[n] = WriteAll(dir, made)
  BY <1>1, <1>5, <1>7, WriteSteps
<1>. DEFINE There(k) == \A i \in 1 .. k : made[i].file \in DOMAIN p[k].files /\ p[k].files[made[i].file] = made[i].rows
<1>. DEFINE G == {k \in Nat : k <= n => There(k)}
<1>9. 0 \in G
  <2>1. 1 .. 0 = {}  OBVIOUS
  <2>. QED BY <2>1
<1>10. ASSUME NEW k \in Nat, k \in G PROVE k + 1 \in G
  <2>1. ASSUME k + 1 <= n PROVE There(k + 1)
    <3>1. k \in 0 .. n /\ k <= n /\ k + 1 \in 1 .. n
      BY <2>1
    <3>2. PICK c \in X : c = p[k] /\ p[k + 1] = Write(c, made[k + 1])
      BY <1>8, <2>1, <3>1 DEF WritesOn
    <3>3. PICK q : q = made[k + 1]  OBVIOUS
    <3>4. p[k + 1].files = [f \in DOMAIN c.files \cup {q.file} |-> IF f = q.file THEN q.rows ELSE c.files[f]]
      <4>1. q.file \in N /\ q.rows \in V
        BY <1>6, <3>1, <3>3
      <4>2. c \in WithFiles(dir, N, V)
        BY <1>4
      <4>3. Write(c, q).files = [f \in DOMAIN c.files \cup {q.file} |-> IF f = q.file THEN q.rows ELSE c.files[f]]
        BY <4>1, <4>2, WriteStays
      <4>. QED BY <3>2, <3>3, <4>3
    <3>5. There(k)
      BY <1>10, <3>1
    <3>6. ASSUME NEW i \in 1 .. k + 1
          PROVE  made[i].file \in DOMAIN p[k + 1].files /\ p[k + 1].files[made[i].file] = made[i].rows
      <4>1. i \in 1 .. n
        BY <3>1
      <4>2. CASE made[i].file = q.file
        <5>1. made[i] = q
          BY <1>1, <3>1, <3>3, <4>1, <4>2 DEF MadeOnce, ToSet
        <5>. QED BY <3>4, <5>1
      <4>3. CASE made[i].file # q.file
        <5>1. i \in 1 .. k
          BY <3>3, <4>3
        <5>2. made[i].file \in DOMAIN c.files /\ c.files[made[i].file] = made[i].rows
          BY <3>2, <3>5, <5>1
        <5>. QED BY <3>4, <4>3, <5>2
      <4>. QED BY <4>2, <4>3
    <3>. QED BY <3>6
  <2>2. k + 1 \in Nat  OBVIOUS
  <2>. HIDE DEF There
  <2>. QED BY <2>1, <2>2
<1>11. Nat \subseteq G
  <2>. HIDE DEF G
  <2>. QED BY <1>9, <1>10, NaturalSteps
<1>12. There(n)
  BY <1>11
<1>13. Holds(p[n], made)
  BY <1>1, <1>12 DEF Holds, ToSet
<1>14. IsDir(p[n])
  <2>1. n \in 0 .. n  OBVIOUS
  <2>2. p[n] \in WithFiles(dir, N, V)
    BY <1>4, <1>8, <2>1 DEF WritesOn
  <2>3. PICK D \in SUBSET N : \E g \in [D -> V] : p[n] = [dir EXCEPT !.files = g]
    BY <2>2 DEF WithFiles
  <2>4. PICK g \in [D -> V] : p[n] = [dir EXCEPT !.files = g]
    BY <2>3
  <2>5. /\ {"files", "manifest", "staged", "finished", "call"} \subseteq DOMAIN dir
        /\ dir = [x \in DOMAIN dir |-> dir[x]]
    BY DEF IsDir
  <2>6. p[n].files = g /\ DOMAIN p[n] = DOMAIN dir /\ p[n] = [x \in DOMAIN p[n] |-> p[n][x]]
    BY <2>4, <2>5
  <2>7. g = [f \in DOMAIN g |-> g[f]]  OBVIOUS
  <2>. QED BY <2>5, <2>6, <2>7 DEF IsDir
<1>. QED BY <1>8, <1>13, <1>14

\* What a call that came to its end has left.
IsLeft(dir, call) ==
    /\ Refuses(call) = {} /\ dir.call = call /\ dir.manifest = Manifest(call) /\ Holds(dir, Made(call))

\* A call.
LEMMA PrepareIs ==
    ASSUME NEW dir, IsDir(dir), NEW call, NEW done \in 0 .. Len(Made(call))
    PROVE  /\ IsDir(Prepare(dir, call, done))
           /\ Prepare(dir, call, done).finished => IsLeft(Prepare(dir, call, done), call)
<1>1. PICK P : Made(call) \in Seq(P)
  BY MadeIs DEF IsMade
<1>2. PICK made \in Seq(P) : made = Made(call)
  BY <1>1
<1>3. PICK n \in Nat : n = Len(made) /\ DOMAIN made = 1 .. n /\ done \in 0 .. n
  BY <1>2
<1>4. PICK some \in Seq(P) : some = SubSeq(made, 1, done)
  <2>1. SubSeq(made, 1, done) \in Seq(P)
    <3>1. \A i \in 1 .. done : made[i] \in P
      BY <1>3
    <3>2. SubSeq(made, 1, done) = [i \in 1 .. done |-> made[i]]
      BY <1>3
    <3>3. [i \in 1 .. done |-> made[i]] \in Seq(P)
      BY <1>3, <3>1
    <3>. QED BY <3>2, <3>3
  <2>. QED BY <2>1
<1>5. Len(some) = done /\ DOMAIN some = 1 .. done /\ \A i \in 1 .. done : some[i] = made[i]
  BY <1>3, <1>4
<1>6. MadeOnce(some)
  <2>1. ToSet(some) \subseteq ToSet(made)
    BY <1>3, <1>5 DEF ToSet
  <2>2. MadeOnce(made)
    BY <1>2, FilesAreMadeOnce
  <2>. QED BY <2>1, <2>2 DEF MadeOnce
<1>7. PICK after : after = WriteAll(dir, some) /\ IsDir(after) /\ Holds(after, some)
  BY <1>6, AllIsWritten
<1>8. PICK finished \in BOOLEAN : finished = (done = Len(Made(call)) /\ Refuses(call) = {})  OBVIOUS
<1>9. PICK m : m = IF finished THEN Manifest(call) ELSE after.manifest  OBVIOUS
<1>10. PICK staged : staged = (after.staged \/ finished)  OBVIOUS
<1>11. PICK d : d = Prepare(dir, call, done)  OBVIOUS
<1>12. d = [after EXCEPT !.manifest = m, !.staged = staged, !.finished = finished, !.call = call]
  BY <1>2, <1>4, <1>7, <1>8, <1>9, <1>10, <1>11 DEF Prepare, WriteAll
<1>13. /\ {"files", "manifest", "staged", "finished", "call"} \subseteq DOMAIN after
       /\ after = [x \in DOMAIN after |-> after[x]]
       /\ after.files = [f \in DOMAIN after.files |-> after.files[f]]
  BY <1>7 DEF IsDir
<1>14. /\ DOMAIN d = DOMAIN after /\ d = [x \in DOMAIN d |-> d[x]]
       /\ d.files = after.files /\ d.manifest = m /\ d.finished = finished /\ d.call = call
  BY <1>12, <1>13
<1>15. IsDir(d)
  BY <1>13, <1>14 DEF IsDir
<1>16. ASSUME finished PROVE IsLeft(d, call)
  <2>1. done = n /\ Refuses(call) = {}
    BY <1>2, <1>3, <1>8, <1>16
  <2>2. some = made
    BY <1>3, <1>5, <2>1
  <2>3. Holds(d, made)
    BY <1>7, <1>14, <2>2 DEF Holds
  <2>. QED BY <1>2, <1>9, <1>14, <1>16, <2>1, <2>3 DEF IsLeft
<1>. QED BY <1>11, <1>14, <1>15, <1>16

-----------------------------------------------------------------------------
(* What a finished call leaves.                                              *)

\* A raw dataset of any number of rows, and a call over such ones.
IsRows(s) == \E n \in Nat : s = [i \in 1 .. n |-> s[i]]
IsCall(call) == call.smoke \in Nat /\ \A name \in DOMAIN call.raw : IsRows(call.raw[name])

\* The file f is one of a dataset that was there, and so are all of that dataset's files.
IsListed(f, name, d, call) ==
    /\ name \in DOMAIN call.raw
    /\ \E p \in ToSet(Parquets(call, name)) : p.file = f /\ d.manifest[f] = Entry(p)
    /\ \A q \in ToSet(Parquets(call, name)) : q.file \in DOMAIN d.files /\ d.files[q.file] = q.rows

\* So is every file of the manifest.
LEMMA ListedAreMade ==
    ASSUME NEW call, NEW d, IsLeft(d, call), NEW f \in DOMAIN d.manifest
    PROVE  \E name \in Sources : IsListed(f, name, d, call)
<1>1. PICK P : IsMade(Made(call), call, P)
  BY MadeIs
<1>2. PICK D \in Seq(Sources) : D = Datasets(call) /\ \A i \in DOMAIN D : D[i] \in Sources
  BY DatasetsAreSome
<1>3. PICK M : M = ToSet(Made(call))  OBVIOUS
<1>4. d.manifest = [g \in {p.file : p \in M} |-> Entry(CHOOSE p \in M : p.file = g)]
  BY <1>3 DEF IsLeft, Manifest
<1>5. PICK p : p = CHOOSE q \in M : q.file = f  OBVIOUS
<1>6. p \in M /\ p.file = f /\ d.manifest[f] = Entry(p)
  <2>1. f \in {q.file : q \in M} /\ d.manifest[f] = Entry(p)
    BY <1>4, <1>5
  <2>2. \E q \in M : q.file = f
    BY <2>1
  <2>. QED BY <1>5, <2>1, <2>2
<1>7. PICK i \in DOMAIN D : p \in ToSet(Parquets(call, D[i]))
  BY <1>1, <1>2, <1>3, <1>6 DEF IsMade
<1>8. PICK name \in Sources : name = D[i]
  BY <1>2
<1>9. name \in DOMAIN call.raw
  BY <1>2, <1>8 DEF IsLeft, Refuses
<1>10. \A q \in ToSet(Parquets(call, name)) : q.file \in DOMAIN d.files /\ d.files[q.file] = q.rows
  BY <1>1, <1>2, <1>8 DEF IsMade, IsLeft, Holds
<1>. QED BY <1>6, <1>7, <1>8, <1>9, <1>10 DEF IsListed

\* The files say of which dataset.
LEMMA ListedIsOf ==
    ASSUME NEW call, NEW d, IsLeft(d, call), NEW f \in DOMAIN d.manifest, NEW name \in Sources, f \in FilesOf(name)
    PROVE  IsListed(f, name, d, call)
<1>1. PICK other \in Sources : IsListed(f, other, d, call)
  BY ListedAreMade
<1>2. f \in FilesOf(other)
  BY <1>1, ParquetsHaveFiles DEF IsListed, AreParquets
<1>3. other = name
  BY <1>2 DEF FilesOf, Sources
<1>. QED BY <1>1, <1>3

\* The two parquets of a dataset with a smoke set.
LEMMA BothAreListed ==
    ASSUME NEW call, NEW d, NEW f, NEW name, IsListed(f, name, d, call), NEW p, NEW q,
           Parquets(call, name) = <<p, q>>, p.file = f, q.file # f
    PROVE  d.manifest[f] = Entry(p) /\ d.files[f] = p.rows /\ d.files[q.file] = q.rows
<1>1. PICK s : s = Parquets(call, name) /\ DOMAIN s = {1, 2} /\ s[1] = p /\ s[2] = q  OBVIOUS
<1>2. ToSet(s) = {p, q}
  BY <1>1 DEF ToSet
<1>. QED BY <1>1, <1>2 DEF IsListed

\* MATH.
LEMMA MathIsListed ==
    ASSUME NEW call, IsCall(call), NEW d, IsLeft(d, call), "math_train" \in DOMAIN d.manifest
    PROVE  MathFits(call.raw["math"], d.manifest["math_train"].info, d.files["math_train"], d.files["smoke_train"])
<1>1. IsListed("math_train", "math", d, call)
  BY ListedIsOf DEF FilesOf, Sources
<1>2. PICK raw : raw = call.raw["math"]  OBVIOUS
<1>3. PICK n \in Nat : raw = [i \in 1 .. n |-> raw[i]]
  BY <1>1, <1>2 DEF IsListed, IsCall, IsRows
<1>4. PICK E : raw \in [1 .. n -> E]
  <2>1. raw \in [1 .. n -> {raw[i] : i \in 1 .. n}]
    BY <1>3
  <2>. QED BY <2>1
<1>5. PICK some : some = MathRows(raw)  OBVIOUS
<1>6. PICK train : train = FilterRewardable(some)  OBVIOUS
<1>7. (\E R : some \in Seq(R) /\ train \in Seq(R)) /\ HoldsRewardable(train, raw, n)
  BY <1>4, <1>5, <1>6, MathIsRewardable
<1>8. PICK R : some \in Seq(R) /\ train \in Seq(R)
  BY <1>7
<1>9. PICK p, q : /\ Parquets(call, "math") = <<p, q>>
                  /\ p.file = "math_train" /\ p.rows = train
                  /\ p.info = [skipped |-> Len(raw) - Len(some), dropped |-> Len(some) - Len(train)]
                  /\ q.file = "smoke_train" /\ q.rows = Prefix(train, call.smoke)
  <2>1. PICK p : p = [file |-> "math_train", rows |-> train,
                      info |-> [skipped |-> Len(raw) - Len(some), dropped |-> Len(some) - Len(train)]]
    OBVIOUS
  <2>2. PICK q : q = [file |-> "smoke_train", rows |-> Prefix(train, call.smoke), info |-> <<>>]  OBVIOUS
  <2>3. Parquets(call, "math") = <<p, q>>
    BY <1>2, <1>5, <1>6, <2>1, <2>2 DEF Parquets
  <2>. QED BY <2>1, <2>2, <2>3
<1>10. /\ d.manifest["math_train"] = Entry(p) /\ d.files["math_train"] = train
       /\ d.files["smoke_train"] = Prefix(train, call.smoke)
  BY <1>1, <1>9, BothAreListed
<1>11. PICK info : /\ info = d.manifest["math_train"].info
                   /\ info.skipped = Len(raw) - Len(some) /\ info.dropped = Len(some) - Len(train)
  BY <1>9, <1>10 DEF Entry
<1>12. Len(raw) \in Nat /\ Len(some) \in Nat /\ Len(train) \in Nat /\ DOMAIN raw = 1 .. n
  BY <1>3, <1>4, <1>8
<1>13. Len(raw) = Len(train) + info.skipped + info.dropped
  BY <1>11, <1>12
<1>14. IsPrefix(Prefix(train, call.smoke), train)
  BY <1>8, PrefixIsOne DEF IsCall
<1>15. MathFits(raw, info, train, Prefix(train, call.smoke))
  BY <1>7, <1>12, <1>13, <1>14 DEF MathFits, HoldsRewardable
<1>. QED BY <1>2, <1>10, <1>11, <1>15

\* DAPO.
LEMMA DapoIsListed ==
    ASSUME NEW call, IsCall(call), NEW d, IsLeft(d, call), "dapo_train" \in DOMAIN d.manifest
    PROVE  DapoFits(call.raw["dapo"], d.files["dapo_train"])
<1>1. IsListed("dapo_train", "dapo", d, call)
  BY ListedIsOf DEF FilesOf, Sources
<1>2. PICK raw : raw = call.raw["dapo"]  OBVIOUS
<1>3. PICK n \in Nat : raw = [i \in 1 .. n |-> raw[i]]
  BY <1>1, <1>2 DEF IsListed, IsCall, IsRows
<1>4. PICK E : raw \in [1 .. n -> E]
  <2>1. raw \in [1 .. n -> {raw[i] : i \in 1 .. n}]
    BY <1>3
  <2>. QED BY <2>1
<1>5. PICK unique \in Seq(E) : unique = Deduplicate(raw) /\ KeepsFirsts(unique, raw, n)
  BY <1>4, FirstsAreKept
<1>6. PICK train : train = FilterRewardable(DapoRows(unique))  OBVIOUS
<1>7. OneOfEach(train) /\ HoldsFirsts(train, raw, n)
  BY <1>5, <1>6, DapoIsRewardable
<1>8. PICK p : Parquets(call, "dapo") = <<p>> /\ p.file = "dapo_train" /\ p.rows = train
  BY <1>2, <1>5, <1>6 DEF Parquets
<1>9. d.files["dapo_train"] = train
  <2>1. PICK s : s = Parquets(call, "dapo") /\ DOMAIN s = {1} /\ s[1] = p
    BY <1>8
  <2>2. p \in ToSet(s)
    BY <2>1 DEF ToSet
  <2>. QED BY <1>1, <1>8, <2>1, <2>2 DEF IsListed
<1>10. DOMAIN raw = 1 .. n
  BY <1>3
<1>11. DapoFits(raw, train)
  BY <1>7, <1>10 DEF DapoFits, OneOfEach, HoldsFirsts, FirstOf
<1>. QED BY <1>2, <1>9, <1>11

\* The benchmark with a smoke set.
LEMMA BenchmarkIsListed ==
    ASSUME NEW call, IsCall(call), NEW d, IsLeft(d, call), "math500" \in DOMAIN d.manifest
    PROVE  BenchmarkFits(call.raw["math500"], d.files["math500"], d.files["smoke_val"])
<1>1. IsListed("math500", "math500", d, call)
  BY ListedIsOf DEF FilesOf, Sources
<1>2. PICK raw : raw = call.raw["math500"]  OBVIOUS
<1>3. PICK n \in Nat : raw = [i \in 1 .. n |-> raw[i]]
  BY <1>1, <1>2 DEF IsListed, IsCall, IsRows
<1>4. PICK rows : rows = EvalRows("math500", raw)  OBVIOUS
<1>5. \E E : rows \in Seq(E) /\ Len(rows) = n
  <2>1. DOMAIN raw = 1 .. n
    BY <1>3
  <2>2. PICK f : f = [i \in 1 .. n |-> Record("math500", IF raw[i].index = NoIndex THEN i ELSE raw[i].index, raw[i])]
    OBVIOUS
  <2>3. rows = f
    BY <1>4, <2>1, <2>2 DEF EvalRows
  <2>4. f = [i \in 1 .. n |-> f[i]]
    BY <2>2
  <2>5. f \in [1 .. n -> {f[i] : i \in 1 .. n}]
    BY <2>4
  <2>6. PICK E : f \in [1 .. n -> E]
    BY <2>5
  <2>7. f \in Seq(E) /\ Len(f) = n
    BY <2>6
  <2>. QED BY <2>3, <2>7
<1>6. PICK E : rows \in Seq(E) /\ Len(rows) = n
  BY <1>5
<1>7. Len(raw) = n
  BY <1>3
<1>8. PICK p, q : /\ Parquets(call, "math500") = <<p, q>>
                  /\ p.file = "math500" /\ p.rows = rows
                  /\ q.file = "smoke_val" /\ q.rows = Prefix(rows, call.smoke)
  BY <1>2, <1>4 DEF Parquets
<1>9. d.files["math500"] = rows /\ d.files["smoke_val"] = Prefix(rows, call.smoke)
  BY <1>1, <1>8, BothAreListed
<1>10. IsPrefix(Prefix(rows, call.smoke), rows)
  BY <1>6, PrefixIsOne DEF IsCall
<1>. QED BY <1>2, <1>6, <1>7, <1>9, <1>10 DEF BenchmarkFits

\* The data of a call that came to its end, over whatever directory: each file of the manifest is
\* there with the rows it describes, every row of MATH is kept, skipped or dropped, DAPO has one
\* row of each problem, and the smoke sets are prefixes.
THEOREM FinishedCallsAreListed ==
    ASSUME NEW call, IsCall(call), NEW dir, IsDir(dir), NEW done \in 0 .. Len(Made(call))
    PROVE  IsDir(Prepare(dir, call, done)) /\ DataAreAsListed(Prepare(dir, call, done))
<1>1. PICK d : d = Prepare(dir, call, done)  OBVIOUS
<1>2. IsDir(d) /\ (d.finished => IsLeft(d, call))
  BY <1>1, PrepareIs
<1>3. ASSUME d.finished PROVE DataAreAsListed(d)
  <2>1. IsLeft(d, call) /\ d.call = call
    BY <1>2, <1>3 DEF IsLeft
  <2>2. ASSUME NEW f \in DOMAIN d.manifest PROVE f \in DOMAIN d.files /\ d.manifest[f].content = d.files[f]
    <3>1. PICK name \in Sources : IsListed(f, name, d, call)
      BY <2>1, ListedAreMade
    <3>2. PICK p : p.file = f /\ d.manifest[f] = Entry(p) /\ f \in DOMAIN d.files /\ d.files[f] = p.rows
      BY <3>1 DEF IsListed
    <3>. QED BY <3>2 DEF Entry
  <2>3. "math_train" \in DOMAIN d.manifest
          => MathFits(d.call.raw["math"], d.manifest["math_train"].info, d.files["math_train"], d.files["smoke_train"])
    BY <2>1, MathIsListed
  <2>4. "dapo_train" \in DOMAIN d.manifest => DapoFits(d.call.raw["dapo"], d.files["dapo_train"])
    BY <2>1, DapoIsListed
  <2>5. "math500" \in DOMAIN d.manifest
          => BenchmarkFits(d.call.raw["math500"], d.files["math500"], d.files["smoke_val"])
    BY <2>1, BenchmarkIsListed
  <2>. QED BY <2>2, <2>3, <2>4, <2>5 DEF DataAreAsListed
<1>4. ~d.finished => DataAreAsListed(d)
  BY DEF DataAreAsListed
<1>. QED BY <1>1, <1>2, <1>3, <1>4

-----------------------------------------------------------------------------
(* The calls of the run, on a directory that is new at first.                *)

\* Tables of rows are raw datasets.
LEMMA UpToAreRows ==
    ASSUME NEW n, NEW S, NEW s \in UpTo(n, S)
    PROVE  IsRows(s)
<1>1. PICK m \in 1 .. n : s \in [1 .. m -> S]
  BY DEF UpTo
<1>2. m \in Nat  OBVIOUS
<1>. QED BY <1>1, <1>2 DEF IsRows

\* So are those of the calls.
LEMMA RawsAreRows ==
    ASSUME NEW raw \in FewRaws \cup ManyRaws
    PROVE  \A name \in DOMAIN raw : IsRows(raw[name])
<1>1. ASSUME NEW x PROVE IsRows(<<x>>)
  <2>1. <<x>> = [i \in 1 .. 1 |-> <<x>>[i]]  OBVIOUS
  <2>. QED BY <2>1 DEF IsRows
<1>2. ASSUME NEW x, NEW y PROVE IsRows(<<x, y>>)
  <2>1. <<x, y>> = [i \in 1 .. 2 |-> <<x, y>>[i]]  OBVIOUS
  <2>. QED BY <2>1 DEF IsRows
<1>3. ASSUME NEW x, NEW y, NEW z PROVE IsRows(<<x, y, z>>)
  <2>1. <<x, y, z>> = [i \in 1 .. 3 |-> <<x, y, z>>[i]]  OBVIOUS
  <2>. QED BY <2>1 DEF IsRows
<1>4. PICK a, b, c, e : /\ BaseRaw = [math |-> a, dapo |-> b, math500 |-> c, gpqa_diamond |-> e]
                        /\ IsRows(a) /\ IsRows(b) /\ IsRows(c) /\ IsRows(e)
  BY <1>1, <1>2 DEF BaseRaw
<1>5. CASE raw \in FewRaws
  <2>1. CASE raw = BaseRaw
    BY <1>4, <2>1
  <2>2. CASE raw = [BaseRaw EXCEPT !.math = <<Ex("r", NoAnswer), Ex("s", "7"), Ex("p", "7")>>]
    <3>1. PICK t : t = <<Ex("r", NoAnswer), Ex("s", "7"), Ex("p", "7")>> /\ IsRows(t)
      BY <1>3
    <3>. QED BY <1>4, <2>2, <3>1
  <2>3. CASE raw = Without("gpqa_diamond") \/ raw = Without("math500")
    BY <1>4, <2>3 DEF Without
  <2>. QED BY <1>5, <2>1, <2>2, <2>3 DEF FewRaws
<1>6. ASSUME NEW d \in UpTo(MaxRaw - 1, Example), raw = [BaseRaw EXCEPT !.dapo = d]
      PROVE  \A name \in DOMAIN raw : IsRows(raw[name])
  <2>1. IsRows(d)
    BY UpToAreRows
  <2>. QED BY <1>4, <1>6, <2>1
<1>7. ASSUME NEW s \in UpTo(MaxRaw, {"7", "pi", NoAnswer}),
             raw = [BaseRaw EXCEPT !.math = [i \in DOMAIN s |-> Ex("p", s[i])]]
      PROVE  \A name \in DOMAIN raw : IsRows(raw[name])
  <2>1. PICK n \in Nat : s = [i \in 1 .. n |-> s[i]]
    BY UpToAreRows DEF IsRows
  <2>2. PICK t : t = [i \in DOMAIN s |-> Ex("p", s[i])]  OBVIOUS
  <2>3. DOMAIN s = 1 .. n
    BY <2>1
  <2>4. t = [i \in 1 .. n |-> t[i]]
    BY <2>2, <2>3
  <2>5. IsRows(t)
    BY <2>4 DEF IsRows
  <2>. QED BY <1>4, <1>7, <2>2, <2>5
<1>8. CASE raw \in ManyRaws
  BY <1>5, <1>6, <1>7, <1>8 DEF ManyRaws
<1>. QED BY <1>5, <1>8

\* The directory has all of its fields, and is as the last call should have left it.
DataInv ==
    /\ Named
    /\ input.of = "data" => /\ input = [of |-> "data", calls |-> input.calls, dir |-> input.dir]
                            /\ IsDir(input.dir) /\ DataAreAsListed(input.dir)

\* prepare_data's directory, after any number of calls that were killed anywhere, refused a dataset
\* or came to their end, for raw datasets of any number of rows: DataAreRight.
THEOREM DataAreAlwaysRight == Spec => []DataAreRight
<1>1. Init => DataInv
  BY NamedInit DEF DataInv
<1>2. ASSUME DataInv, Next PROVE DataInv'
  <2>1. Named'
    BY <1>2, StepsByName DEF DataInv
  <2>2. ASSUME input'.of = "data" PROVE MakeData \/ input' = [of |-> "data", calls |-> 0, dir |-> NewDir]
    <3>. USE <1>2, <2>2 DEF DataInv, Named
    <3>1. CASE TakeRow \/ TakeLengths \/ TakeRollouts
      BY <3>1 DEF TakeRow, TakeLengths, TakeRollouts
    <3>2. CASE TakeTokens \/ TakeCounts \/ TakeAnswers
      BY <3>2 DEF TakeTokens, TakeCounts, TakeAnswers
    <3>3. CASE TakeText \/ TakePreflight \/ TakeLog
      BY <3>3 DEF TakeText, TakePreflight, TakeLog
    <3>8. CASE TakeResume
      <4>1. PICK s, f, a : input' = [of |-> "resume", stopped |-> s, from |-> f, args |-> a]
        BY <3>8 DEF TakeResume
      <4>. QED BY <4>1
    <3>4. CASE StartCalls
      BY <3>4 DEF StartCalls
    <3>5. CASE Evaluate \/ ProfileEvent
      BY <3>5 DEF Evaluate, ProfileEvent
    <3>6. CASE SubmitJob \/ SaveStep \/ EndJob \/ NewSession
      BY <3>6 DEF SubmitJob, SaveStep, EndJob, NewSession
    <3>7. CASE SetUp \/ CheckStep \/ Resume
      BY <3>7 DEF SetUp, CheckStep, Resume
    <3>. QED BY <3>1, <3>2, <3>3, <3>4, <3>5, <3>6, <3>7, <3>8 DEF Next, TakeOne
  <2>3. CASE input' = [of |-> "data", calls |-> 0, dir |-> NewDir]
    <3>1. PICK d : d = NewDir  OBVIOUS
    <3>2. IsDir(d) /\ d.finished = FALSE
      BY <3>1 DEF NewDir, IsDir
    <3>3. DataAreAsListed(d)
      BY <3>2 DEF DataAreAsListed
    <3>. QED BY <2>1, <2>3, <3>1, <3>2, <3>3 DEF DataInv
  <2>4. CASE MakeData
    <3>1. input.of = "data" /\ IsDir(input.dir) /\ input = [of |-> "data", calls |-> input.calls, dir |-> input.dir]
      BY <1>2, <2>4 DEF MakeData, DataInv
    <3>2. PICK call \in [raw : FewRaws \cup ManyRaws, skip : {{}, {"math"}, {"gpqa_diamond"}}, smoke : {1, 5}] :
             \E done \in 0 .. Len(Made(call)) :
                input' = [input EXCEPT !.calls = @ + 1, !.dir = Prepare(@, call, done)]
      BY <2>4 DEF MakeData
    <3>3. PICK done \in 0 .. Len(Made(call)) :
             input' = [input EXCEPT !.calls = @ + 1, !.dir = Prepare(@, call, done)]
      BY <3>2
    <3>4. IsCall(call)
      <4>1. call.smoke \in Nat /\ call.raw \in FewRaws \cup ManyRaws  OBVIOUS
      <4>. QED BY <4>1, RawsAreRows DEF IsCall
    <3>5. PICK d : d = Prepare(input.dir, call, done)  OBVIOUS
    <3>6. IsDir(d) /\ DataAreAsListed(d)
      BY <3>1, <3>3, <3>4, <3>5, FinishedCallsAreListed
    <3>7. input' = [of |-> "data", calls |-> input.calls + 1, dir |-> d]
      BY <3>1, <3>3, <3>5
    <3>. QED BY <2>1, <3>6, <3>7 DEF DataInv
  <2>5. CASE input'.of # "data"
    BY <2>1, <2>5 DEF DataInv
  <2>. QED BY <2>2, <2>3, <2>4, <2>5
<1>3. ASSUME DataInv, UNCHANGED input PROVE DataInv'
  BY <1>3 DEF DataInv, Named
<1>4. DataInv /\ [Next]_input => DataInv'
  BY <1>2, <1>3
<1>5. DataInv => DataAreRight
  BY DEF DataInv, DataAreRight
<1>. QED BY <1>1, <1>4, <1>5, PTL DEF Spec
===============================================================================
