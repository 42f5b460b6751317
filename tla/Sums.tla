---------------------------------- MODULE Sums ----------------------------------
(***************************************************************************)
(* Sums over finite sets, as the models take them: a fold that adds what a *)
(* function gives to each element.  What holds of every sum is proved by   *)
(* induction on the subsets of the set, strict inclusion being well        *)
(* founded on them.                                                        *)
(***************************************************************************)
EXTENDS Integers, Sequences, FiniteSets, Functions, Folds, FiniteSetTheorems,
        WellFoundedInduction, TLAPS

\* The element a fold takes first.
Least(T) == CHOOSE x \in T : TRUE

\* The sum of f over S.
SumOver(f, S) == MapThenFoldSet(+, 0, LAMBDA x : f[x], LAMBDA T : CHOOSE x \in T : TRUE, S)

\* What the fold iterates.
Adds(f, S, g) == g = [T \in SUBSET S |-> IF T = {} THEN 0 ELSE f[Least(T)] + g[T \ {Least(T)}]]

\* A sum is a value of the iteration, whichever of them is chosen.
LEMMA SumIsChosen == ASSUME NEW f, NEW S PROVE SumOver(f, S) = (CHOOSE g : Adds(f, S, g))[S]
  BY DEF SumOver, MapThenFoldSet, Adds, Least

\* What holds of a set when it holds of its smaller subsets holds of all finite sets.
LEMMA SubsetInduction ==
    ASSUME NEW S, IsFiniteSet(S), NEW G,
           \A T \in SUBSET S : (\A U \in SUBSET T : U # T => U \in G) => T \in G
    PROVE  SUBSET S \subseteq G
<1> DEFINE B == {T \in SUBSET S : T \notin G}
           R == StrictSubsetOrdering(S)
<1>1. IsWellFoundedOn(R, FiniteSubsetsOf(S))
  BY FS_StrictSubsetOrderingWellFounded
<1>2. SUBSET S \subseteq FiniteSubsetsOf(S)
  BY FS_Subset DEF FiniteSubsetsOf
<1>3. B \subseteq FiniteSubsetsOf(S)
  BY <1>2
<1>4. ASSUME NEW T \in B, \A U \in B : <<U, T>> \notin R PROVE FALSE
  <2>1. \A U \in SUBSET T : U # T => <<U, T>> \in R
    BY DEF StrictSubsetOrdering
  <2>2. ASSUME NEW U \in SUBSET T, U # T PROVE U \in G
    <3>1. U \notin B /\ U \in SUBSET S
      BY <1>4, <2>1, <2>2
    <3> QED
      BY <3>1
  <2> QED
    BY <2>2
<1> HIDE DEF R, B
<1>5. B = {}
  BY <1>1, <1>3, <1>4, WFMin
<1> QED
  BY <1>5 DEF B

\* Two iterations agree where both are defined.
LEMMA AddsAgree ==
    ASSUME NEW f, NEW S, IsFiniteSet(S), NEW S2, NEW g, NEW h, Adds(f, S, g), Adds(f, S2, h),
           NEW T \in SUBSET S, T \in SUBSET S2
    PROVE  g[T] = h[T]
<1> DEFINE G == {U \in SUBSET T : g[U] = h[U]}
<1>1. IsFiniteSet(T)
  BY FS_Subset
<1>2. ASSUME NEW U \in SUBSET T, \A V \in SUBSET U : V # U => V \in G
      PROVE  U \in G
  <2>1. /\ g[U] = IF U = {} THEN 0 ELSE f[Least(U)] + g[U \ {Least(U)}]
        /\ h[U] = IF U = {} THEN 0 ELSE f[Least(U)] + h[U \ {Least(U)}]
    BY DEF Adds
  <2>2. U # {} => Least(U) \in U
    BY DEF Least
  <2>3. U # {} => g[U \ {Least(U)}] = h[U \ {Least(U)}]
    BY <1>2, <2>2
  <2> QED
    BY <2>1, <2>3
<1> HIDE DEF G
<1>3. SUBSET T \subseteq G
  BY <1>1, <1>2, SubsetInduction
<1> QED
  BY <1>3 DEF G

\* There is such an iteration.
LEMMA AddsExists == ASSUME NEW f, NEW S, IsFiniteSet(S) PROVE \E g : Adds(f, S, g)
<1> DEFINE G == {T \in SUBSET S : \E g : Adds(f, T, g)}
           V(T) == (CHOOSE g : Adds(f, T, g))[T]
<1>1. ASSUME NEW T \in SUBSET S, \A U \in SUBSET T : U # T => U \in G
      PROVE  T \in G
  <2>0. IsFiniteSet(T)
    BY FS_Subset
  <2>1. \A U \in SUBSET T : U # T => Adds(f, U, CHOOSE g : Adds(f, U, g))
    BY <1>1
  <2>2. ASSUME NEW U \in SUBSET T, U # T, U # {}
        PROVE  V(U) = f[Least(U)] + V(U \ {Least(U)})
    <3> DEFINE W == U \ {Least(U)}
               g == CHOOSE c : Adds(f, U, c)
               h == CHOOSE c : Adds(f, W, c)
    <3>1. Least(U) \in U /\ W \in SUBSET T /\ W # T /\ W \in SUBSET U /\ W \in SUBSET W
      BY <2>2 DEF Least
    <3>2. Adds(f, U, g) /\ Adds(f, W, h) /\ IsFiniteSet(U)
      BY <2>0, <2>1, <2>2, <3>1, FS_Subset
    <3> HIDE DEF g, h
    <3>3. g[U] = f[Least(U)] + g[W]
      BY <2>2, <3>2 DEF Adds
    <3>4. g[W] = h[W]
      BY <3>1, <3>2, AddsAgree
    <3> QED
      BY <3>3, <3>4 DEF g, h
  <2>3. V({}) = 0 \/ T = {}
    <3>1. T # {} => Adds(f, {}, CHOOSE g : Adds(f, {}, g))
      BY <2>1
    <3> QED
      BY <3>1 DEF Adds
  <2> DEFINE k == [U \in SUBSET T |-> IF U = {} THEN 0
                     ELSE IF U = T THEN f[Least(T)] + V(T \ {Least(T)}) ELSE V(U)]
  <2> HIDE DEF V
  <2>4. ASSUME NEW U \in SUBSET T, U # {}
        PROVE  k[U] = f[Least(U)] + k[U \ {Least(U)}]
    <3>1. Least(U) \in U /\ U \ {Least(U)} # T /\ U \ {Least(U)} \in SUBSET T
      BY <2>4 DEF Least
    <3>2. k[U \ {Least(U)}] = V(U \ {Least(U)})
      BY <2>3, <2>4, <3>1
    <3>3. k[U] = f[Least(U)] + V(U \ {Least(U)})
      BY <2>2, <2>4
    <3> QED
      BY <3>2, <3>3
  <2>5. k = [U \in SUBSET T |-> IF U = {} THEN 0 ELSE f[Least(U)] + k[U \ {Least(U)}]]
    <3>1. \A U \in SUBSET T : k[U] = IF U = {} THEN 0 ELSE f[Least(U)] + k[U \ {Least(U)}]
      BY <2>4
    <3>2. k = [U \in SUBSET T |-> k[U]]
      OBVIOUS
    <3> HIDE DEF k
    <3> QED
      BY <3>1, <3>2
  <2> QED
    BY <2>5 DEF Adds
<1> HIDE DEF G
<1>2. SUBSET S \subseteq G
  BY <1>1, SubsetInduction
<1> QED
  BY <1>2 DEF G

\* The sum over nothing, and over a set by what is least in it.
LEMMA SumFirst ==
    ASSUME NEW f, NEW S, IsFiniteSet(S)
    PROVE  SumOver(f, S) = IF S = {} THEN 0 ELSE f[Least(S)] + SumOver(f, S \ {Least(S)})
<1> DEFINE W == S \ {Least(S)}
           g == CHOOSE c : Adds(f, S, c)
           h == CHOOSE c : Adds(f, W, c)
<1>1. IsFiniteSet(W) /\ W \in SUBSET S /\ W \in SUBSET W
  BY FS_Subset
<1>2. Adds(f, S, g) /\ Adds(f, W, h)
  BY <1>1, AddsExists
<1>3. SumOver(f, S) = g[S] /\ SumOver(f, W) = h[W]
  BY SumIsChosen
<1> HIDE DEF g, h
<1>4. g[S] = IF S = {} THEN 0 ELSE f[Least(S)] + g[W]
  BY <1>2 DEF Adds
<1>5. g[W] = h[W]
  BY <1>1, <1>2, AddsAgree
<1> QED
  BY <1>3, <1>4, <1>5

\* A sum of integers is one, of natural numbers too.
LEMMA SumType ==
    ASSUME NEW f, NEW S, IsFiniteSet(S)
    PROVE  /\ (\A x \in S : f[x] \in Int) => SumOver(f, S) \in Int
           /\ (\A x \in S : f[x] \in Nat) => SumOver(f, S) \in Nat
<1>1. ASSUME NEW N, N \in {Nat, Int}, \A x \in S : f[x] \in N PROVE SumOver(f, S) \in N
  <2> DEFINE G == {T \in SUBSET S : SumOver(f, T) \in N}
  <2>1. ASSUME NEW T \in SUBSET S, \A U \in SUBSET T : U # T => U \in G PROVE T \in G
    <3>1. SumOver(f, T) = IF T = {} THEN 0 ELSE f[Least(T)] + SumOver(f, T \ {Least(T)})
      BY SumFirst, FS_Subset
    <3>2. T # {} => Least(T) \in T
      BY DEF Least
    <3>3. T # {} => f[Least(T)] \in N /\ SumOver(f, T \ {Least(T)}) \in N
      BY <1>1, <2>1, <3>2
    <3> QED
      BY <1>1, <3>1, <3>3
  <2> HIDE DEF G
  <2>2. SUBSET S \subseteq G
    BY <2>1, SubsetInduction
  <2> QED
    BY <2>2 DEF G
<1> QED
  BY <1>1

\* Any element may be added last.
LEMMA SumTakeOut ==
    ASSUME NEW f, NEW S, IsFiniteSet(S), \A x \in S : f[x] \in Int
    PROVE  \A x \in S : SumOver(f, S) = f[x] + SumOver(f, S \ {x})
<1> DEFINE G == {T \in SUBSET S : \A x \in T : SumOver(f, T) = f[x] + SumOver(f, T \ {x})}
<1>1. ASSUME NEW T \in SUBSET S, \A U \in SUBSET T : U # T => U \in G, NEW x \in T
      PROVE  SumOver(f, T) = f[x] + SumOver(f, T \ {x})
  <2> DEFINE y == Least(T)
  <2>0. y \in T
    BY DEF Least
  <2> HIDE DEF y
  <2>1. SumOver(f, T) = f[y] + SumOver(f, T \ {y})
    BY SumFirst, FS_Subset DEF y
  <2>2. CASE x = y
    BY <2>1, <2>2
  <2>3. CASE x # y
    <3>1. T \ {y} \in G /\ T \ {x} \in G /\ x \in T \ {y} /\ y \in T \ {x}
      BY <1>1, <2>0, <2>3
    <3>2. SumOver(f, T \ {y}) = f[x] + SumOver(f, (T \ {y}) \ {x})
      BY <3>1
    <3>3. SumOver(f, T \ {x}) = f[y] + SumOver(f, (T \ {x}) \ {y})
      BY <3>1
    <3> DEFINE r == SumOver(f, (T \ {x}) \ {y})
    <3>4. (T \ {y}) \ {x} = (T \ {x}) \ {y}
      OBVIOUS
    <3>5. r \in Int
      BY SumType, FS_Subset
    <3>6. f[x] \in Int /\ f[y] \in Int
      BY <2>0
    <3>7. SumOver(f, T \ {y}) = f[x] + r
      BY <3>2, <3>4
    <3> HIDE DEF r
    <3>8. SumOver(f, T) = f[y] + (f[x] + r)
      BY <2>1, <3>7
    <3>9. SumOver(f, T \ {x}) = f[y] + r
      BY <3>3 DEF r
    <3> QED
      BY <3>5, <3>6, <3>8, <3>9
  <2> QED
    BY <2>2, <2>3
<1>2. \A T \in SUBSET S : (\A U \in SUBSET T : U # T => U \in G) => T \in G
  BY <1>1
<1> HIDE DEF G
<1>3. SUBSET S \subseteq G
  BY <1>2, SubsetInduction
<1> QED
  BY <1>3 DEF G

\* Sums of what is the same, of what is no more, and of sums.
LEMMA SumCompare ==
    ASSUME NEW f, NEW h, NEW S, IsFiniteSet(S), \A x \in S : f[x] \in Int /\ h[x] \in Int
    PROVE  /\ (\A x \in S : f[x] = h[x]) => SumOver(f, S) = SumOver(h, S)
           /\ (\A x \in S : f[x] <= h[x]) => SumOver(f, S) <= SumOver(h, S)
           /\ \A k : (\A x \in S : k[x] = f[x] + h[x]) =>
                SumOver(k, S) = SumOver(f, S) + SumOver(h, S)
<1>1. ASSUME NEW T \in SUBSET S, T # {}
      PROVE  \A k : SumOver(k, T) = k[Least(T)] + SumOver(k, T \ {Least(T)})
  BY <1>1, SumFirst, FS_Subset
<1>2. ASSUME NEW T \in SUBSET S PROVE SumOver(f, T) \in Int /\ SumOver(h, T) \in Int
  BY SumType, FS_Subset
<1>3. \A k : SumOver(k, {}) = 0
  BY SumFirst, FS_EmptySet
<1>4. ASSUME NEW T \in SUBSET S, T # {} PROVE Least(T) \in T
  BY <1>4 DEF Least
<1>5. ASSUME \A x \in S : f[x] = h[x] PROVE SumOver(f, S) = SumOver(h, S)
  <2> DEFINE G == {T \in SUBSET S : SumOver(f, T) = SumOver(h, T)}
  <2>1. ASSUME NEW T \in SUBSET S, \A U \in SUBSET T : U # T => U \in G PROVE T \in G
    <3>1. CASE T = {}
      BY <1>3, <3>1
    <3>2. CASE T # {}
      <4>1. Least(T) \in S /\ T \ {Least(T)} \in G
        BY <1>4, <2>1, <3>2
      <4>2. /\ SumOver(f, T) = f[Least(T)] + SumOver(f, T \ {Least(T)})
            /\ SumOver(h, T) = h[Least(T)] + SumOver(h, T \ {Least(T)})
        BY <1>1, <3>2
      <4> QED
        BY <1>5, <4>1, <4>2
    <3> QED
      BY <3>1, <3>2
  <2> HIDE DEF G
  <2>2. SUBSET S \subseteq G
    BY <2>1, SubsetInduction
  <2> QED
    BY <2>2 DEF G
<1>6. ASSUME \A x \in S : f[x] <= h[x] PROVE SumOver(f, S) <= SumOver(h, S)
  <2> DEFINE G == {T \in SUBSET S : SumOver(f, T) <= SumOver(h, T)}
  <2>1. ASSUME NEW T \in SUBSET S, \A U \in SUBSET T : U # T => U \in G PROVE T \in G
    <3>1. CASE T = {}
      BY <1>3, <3>1
    <3>2. CASE T # {}
      <4> DEFINE W == T \ {Least(T)}
      <4>1. Least(T) \in S /\ W \in G
        BY <1>4, <2>1, <3>2
      <4>2. SumOver(f, T) = f[Least(T)] + SumOver(f, W)
               /\ SumOver(h, T) = h[Least(T)] + SumOver(h, W)
        BY <1>1, <3>2
      <4>3. SumOver(f, W) <= SumOver(h, W) /\ SumOver(f, W) \in Int /\ SumOver(h, W) \in Int
        BY <1>2, <4>1
      <4>4. f[Least(T)] <= h[Least(T)] /\ f[Least(T)] \in Int /\ h[Least(T)] \in Int
        BY <1>6, <4>1
      <4> HIDE DEF W
      <4> QED
        BY <4>2, <4>3, <4>4
    <3> QED
      BY <3>1, <3>2
  <2> HIDE DEF G
  <2>2. SUBSET S \subseteq G
    BY <2>1, SubsetInduction
  <2> QED
    BY <2>2 DEF G
<1>7. ASSUME NEW k, \A x \in S : k[x] = f[x] + h[x]
      PROVE  SumOver(k, S) = SumOver(f, S) + SumOver(h, S)
  <2> DEFINE G == {T \in SUBSET S : SumOver(k, T) = SumOver(f, T) + SumOver(h, T)}
  <2>1. ASSUME NEW T \in SUBSET S, \A U \in SUBSET T : U # T => U \in G PROVE T \in G
    <3>1. CASE T = {}
      BY <1>3, <3>1
    <3>2. CASE T # {}
      <4> DEFINE W == T \ {Least(T)}
      <4>1. Least(T) \in S /\ W \in G
        BY <1>4, <2>1, <3>2
      <4>2. /\ SumOver(f, T) = f[Least(T)] + SumOver(f, W)
            /\ SumOver(h, T) = h[Least(T)] + SumOver(h, W)
            /\ SumOver(k, T) = k[Least(T)] + SumOver(k, W)
        BY <1>1, <3>2
      <4>3. /\ SumOver(k, W) = SumOver(f, W) + SumOver(h, W)
            /\ SumOver(f, W) \in Int /\ SumOver(h, W) \in Int
        BY <1>2, <4>1
      <4>4. /\ k[Least(T)] = f[Least(T)] + h[Least(T)]
            /\ f[Least(T)] \in Int /\ h[Least(T)] \in Int
        BY <1>7, <4>1
      <4> HIDE DEF W
      <4> QED
        BY <4>2, <4>3, <4>4
    <3> QED
      BY <3>1, <3>2
  <2> HIDE DEF G
  <2>2. SUBSET S \subseteq G
    BY <2>1, SubsetInduction
  <2> QED
    BY <2>2 DEF G
<1> QED
  BY <1>5, <1>6, <1>7

\* A sum over two sets that have nothing in common, and over a part of a set.
LEMMA SumUnion ==
    ASSUME NEW f, NEW S, NEW T, IsFiniteSet(S), IsFiniteSet(T), S \cap T = {},
           \A x \in S \cup T : f[x] \in Int
    PROVE  SumOver(f, S \cup T) = SumOver(f, S) + SumOver(f, T)
<1> DEFINE G == {U \in SUBSET T : SumOver(f, S \cup U) = SumOver(f, S) + SumOver(f, U)}
<1>1. ASSUME NEW U \in SUBSET T, \A V \in SUBSET U : V # U => V \in G PROVE U \in G
  <2>1. CASE U = {}
    <3>1. SumOver(f, {}) = 0 /\ SumOver(f, S) \in Int /\ S \cup {} = S
      BY SumFirst, SumType, FS_EmptySet
    <3> QED
      BY <2>1, <3>1
  <2>2. ASSUME NEW x \in U PROVE U \in G
    <3> DEFINE V == U \ {x}
               a == SumOver(f, S)
               b == SumOver(f, V)
    <3>1. V \in G /\ (S \cup U) \ {x} = S \cup V
      BY <1>1, <2>2
    <3>2. IsFiniteSet(U) /\ IsFiniteSet(S \cup U) /\ IsFiniteSet(V)
      BY FS_Subset, FS_Union
    <3>3. SumOver(f, S \cup U) = f[x] + SumOver(f, S \cup V)
      BY <3>1, <3>2, SumTakeOut
    <3>4. SumOver(f, U) = f[x] + b
      BY <3>2, SumTakeOut
    <3>5. SumOver(f, S \cup V) = a + b
      BY <3>1
    <3>6. a \in Int /\ b \in Int /\ f[x] \in Int
      BY <3>2, SumType
    <3> HIDE DEF V, a, b
    <3>7. SumOver(f, S \cup U) = a + SumOver(f, U)
      BY <3>3, <3>4, <3>5, <3>6
    <3> QED
      BY <3>7 DEF a
  <2> QED
    BY <2>1, <2>2
<1> HIDE DEF G
<1>2. SUBSET T \subseteq G
  BY <1>1, SubsetInduction
<1> QED
  BY <1>2 DEF G

\* A sum of nothings is nothing.
LEMMA SumZero ==
    ASSUME NEW f, NEW S, IsFiniteSet(S), \A x \in S : f[x] = 0
    PROVE  SumOver(f, S) = 0
<1>1. SumOver(f, S) \in Int
  BY SumType
<1>2. SumOver(f, S) = SumOver(f, S) + SumOver(f, S)
  BY SumCompare
<1>3. \A n \in Int : n = n + n => n = 0
  OBVIOUS
<1> QED
  BY ONLY <1>1, <1>2, <1>3

\* What is not nothing is all that counts.
LEMMA SumSupport ==
    ASSUME NEW f, NEW S, IsFiniteSet(S), NEW T \in SUBSET S, \A x \in T : f[x] \in Int,
           \A x \in S \ T : f[x] = 0
    PROVE  SumOver(f, S) = SumOver(f, T)
<1>1. IsFiniteSet(T) /\ IsFiniteSet(S \ T) /\ T \cup (S \ T) = S /\ T \cap (S \ T) = {}
  BY FS_Subset
<1>2. SumOver(f, S \ T) = 0
  BY <1>1, SumZero
<1>3. SumOver(f, T \cup (S \ T)) = SumOver(f, T) + SumOver(f, S \ T)
  BY <1>1, SumUnion
<1>4. SumOver(f, T) \in Int
  BY <1>1, SumType
<1>5. SumOver(f, S) = SumOver(f, T) + 0
  BY <1>1, <1>2, <1>3
<1> QED
  BY <1>4, <1>5

\* One entry changes, and the sum by as much.
LEMMA SumChange ==
    ASSUME NEW f, NEW h, NEW S, IsFiniteSet(S), \A x \in S : f[x] \in Int /\ h[x] \in Int,
           NEW y \in S, \A x \in S \ {y} : h[x] = f[x]
    PROVE  SumOver(h, S) = SumOver(f, S) + h[y] - f[y]
<1>1. IsFiniteSet(S \ {y})
  BY FS_Subset
<1>2. SumOver(h, S) = h[y] + SumOver(h, S \ {y}) /\ SumOver(f, S) = f[y] + SumOver(f, S \ {y})
  BY SumTakeOut
<1>3. SumOver(h, S \ {y}) = SumOver(f, S \ {y})
  BY <1>1, SumCompare
<1>4. SumOver(f, S \ {y}) \in Int
  BY <1>1, SumType
<1> QED
  BY <1>2, <1>3, <1>4

\* The sums of the rows of a table, and those of its columns.
RowSums(m, S, T) == [x \in S |-> SumOver(m[x], T)]
ColSums(m, S, T) == [y \in T |-> SumOver([x \in S |-> m[x][y]], S)]

\* A sum of sums is the same by rows and by columns.
LEMMA SumSwap ==
    ASSUME NEW m, NEW S, NEW T, IsFiniteSet(S), IsFiniteSet(T),
           \A x \in S, y \in T : m[x][y] \in Int
    PROVE  SumOver(RowSums(m, S, T), S) = SumOver(ColSums(m, S, T), T)
<1> DEFINE rows == [x \in S |-> SumOver(m[x], T)]
           col(y) == [x \in S |-> m[x][y]]
           cols(U) == [y \in T |-> SumOver(col(y), U)]
           G == {U \in SUBSET S : SumOver(rows, U) = SumOver(cols(U), T)}
<1>1. ASSUME NEW U \in SUBSET S, \A V \in SUBSET U : V # U => V \in G PROVE U \in G
  <2>0. IsFiniteSet(U)
    BY FS_Subset
  <2>1. CASE U = {}
    <3>1. \A y \in T : cols({})[y] = 0
      BY SumFirst, FS_EmptySet
    <3> HIDE DEF cols
    <3>2. SumOver(cols({}), T) = 0
      BY <3>1, SumZero
    <3>3. SumOver(rows, {}) = 0
      BY SumFirst, FS_EmptySet
    <3> QED
      BY <2>1, <3>2, <3>3
  <2>2. ASSUME NEW x \in U PROVE U \in G
    <3> DEFINE V == U \ {x}
    <3>1. V \in G /\ x \in S /\ V \in SUBSET S /\ IsFiniteSet(V)
      BY <1>1, <2>0, <2>2, FS_Subset
    <3>2. \A z \in S : rows[z] \in Int
      BY SumType
    <3>3. SumOver(rows, U) = rows[x] + SumOver(rows, V)
      BY <2>0, <3>2, SumTakeOut
    <3>4. \A y \in T : /\ cols(U)[y] = m[x][y] + cols(V)[y]
                       /\ cols(V)[y] \in Int
      <4> SUFFICES ASSUME NEW y \in T
                   PROVE  SumOver(col(y), U) = m[x][y] + SumOver(col(y), V)
                            /\ SumOver(col(y), V) \in Int
        OBVIOUS
      <4>1. \A z \in S : col(y)[z] \in Int
        OBVIOUS
      <4>2. col(y)[x] = m[x][y]
        BY <3>1
      <4> HIDE DEF col
      <4>3. SumOver(col(y), U) = col(y)[x] + SumOver(col(y), V)
        BY <2>0, <4>1, SumTakeOut
      <4> QED
        BY <3>1, <4>1, <4>2, <4>3, SumType
    <3>5. rows[x] = SumOver(m[x], T) /\ \A y \in T : m[x][y] \in Int
      BY <3>1
    <3> HIDE DEF rows, cols
    <3>6. SumOver(cols(U), T) = SumOver(m[x], T) + SumOver(cols(V), T)
      <4> DEFINE f == m[x]
                 h == cols(V)
                 k == cols(U)
      <4>1. \A y \in T : f[y] \in Int /\ h[y] \in Int /\ k[y] = f[y] + h[y]
        BY <3>4, <3>5
      <4> HIDE DEF f, h, k
      <4>2. SumOver(k, T) = SumOver(f, T) + SumOver(h, T)
        BY <4>1, SumCompare
      <4> QED
        BY <4>2 DEF f, h, k
    <3> QED
      BY <3>1, <3>3, <3>5, <3>6
  <2> QED
    BY <2>1, <2>2
<1> HIDE DEF G
<1>2. SUBSET S \subseteq G
  BY <1>1, SubsetInduction
<1>3. RowSums(m, S, T) = rows /\ ColSums(m, S, T) = cols(S)
  BY DEF RowSums, ColSums
<1> QED
  BY <1>2, <1>3 DEF G

\* A sum over what a one-to-one function gives.
LEMMA SumImage ==
    ASSUME NEW f, NEW h, NEW S, NEW b, IsFiniteSet(S),
           \A x, y \in S : b[x] = b[y] => x = y,
           \A x \in S : f[b[x]] \in Int /\ h[x] = f[b[x]]
    PROVE  SumOver(f, {b[x] : x \in S}) = SumOver(h, S)
<1> DEFINE I(U) == {b[x] : x \in U}
           G == {U \in SUBSET S : IsFiniteSet(I(U)) /\ SumOver(f, I(U)) = SumOver(h, U)}
<1>1. ASSUME NEW U \in SUBSET S, \A V \in SUBSET U : V # U => V \in G PROVE U \in G
  <2>0. IsFiniteSet(U)
    BY FS_Subset
  <2>1. CASE U = {}
    <3>1. I({}) = {}
      OBVIOUS
    <3> HIDE DEF I
    <3> QED
      BY <2>1, <3>1, SumFirst, FS_EmptySet
  <2>2. ASSUME NEW x \in U PROVE U \in G
    <3> DEFINE V == U \ {x}
    <3>0. V \in SUBSET U /\ V # U /\ V \in G
      BY <1>1, <2>2
    <3>a. I(U) = I(V) \cup {b[x]}
      <4>1. \A z \in U : z = x \/ z \in V
        OBVIOUS
      <4> QED
        BY <2>2, <4>1
    <3>b. b[x] \notin I(V)
      <4>1. \A z \in V : z \in S /\ x \in S /\ z # x
        BY <2>2
      <4> QED
        BY <4>1
    <3>c. IsFiniteSet(I(V)) /\ SumOver(f, I(V)) = SumOver(h, V)
      BY <3>0
    <3>2. \A z \in I(U) : f[z] \in Int
      OBVIOUS
    <3> HIDE DEF I
    <3>3. IsFiniteSet(I(U)) /\ I(U) \ {b[x]} = I(V) /\ b[x] \in I(U)
      <4>1. IsFiniteSet(I(V) \cup {b[x]})
        BY <3>c, FS_AddElement
      <4> QED
        BY <3>a, <3>b, <4>1
    <3>4. SumOver(f, I(U)) = f[b[x]] + SumOver(f, I(V))
      BY <3>2, <3>3, SumTakeOut
    <3>5. SumOver(h, U) = h[x] + SumOver(h, V)
      BY <2>0, SumTakeOut
    <3>6. h[x] = f[b[x]]
      BY <2>2
    <3> QED
      BY <3>c, <3>3, <3>4, <3>5, <3>6
  <2> QED
    BY <2>1, <2>2
<1> HIDE DEF G
<1>2. SUBSET S \subseteq G
  BY <1>1, SubsetInduction
<1> QED
  BY <1>2 DEF G

\* A sum over the first n numbers is what its terms add up to.
LEMMA SumUpTo ==
    ASSUME NEW n \in Nat, NEW f, NEW g, g[0] = 0, \A k \in 0..n : g[k] \in Int,
           \A k \in 1..n : f[k] \in Int /\ g[k] = g[k - 1] + f[k]
    PROVE  SumOver(f, 1..n) = g[n]
<1> DEFINE G == {U \in SUBSET (1..n) : \A m \in 0..n : U = 1..m => SumOver(f, U) = g[m]}
<1>0. IsFiniteSet(1..n)
  BY FS_Interval
<1>1. ASSUME NEW U \in SUBSET (1..n), \A V \in SUBSET U : V # U => V \in G,
             NEW m \in 0..n, U = 1..m
      PROVE  SumOver(f, U) = g[m]
  <2>1. CASE m = 0
    <3>1. U = {}
      BY <1>1, <2>1
    <3> QED
      BY <2>1, <3>1, SumFirst, FS_EmptySet
  <2>2. CASE m > 0
    <3>b. m \in 1..n /\ m \in 1..m /\ m - 1 \in 0..n
      BY <2>2
    <3>1. m \in U /\ U \ {m} # U /\ m - 1 \in 0..n /\ m \in 1..n /\ U \ {m} \in SUBSET U
      BY <1>1, <3>b
    <3>a. U \ {m} = 1..(m - 1)
      BY <1>1, <2>2
    <3>2. SumOver(f, U \ {m}) = g[m - 1]
      BY <1>1, <3>1, <3>a
    <3>3. SumOver(f, U) = f[m] + SumOver(f, U \ {m})
      <4>1. IsFiniteSet(U) /\ \A k \in U : f[k] \in Int
        BY <1>0, FS_Subset
      <4> HIDE DEF G
      <4>2. \A k \in U : SumOver(f, U) = f[k] + SumOver(f, U \ {k})
        BY ONLY ZenonT(60), <4>1, SumTakeOut
      <4> QED
        BY <3>1, <4>2
    <3>4. g[m] = g[m - 1] + f[m] /\ f[m] \in Int /\ g[m - 1] \in Int
      BY <2>2, <3>1
    <3> QED
      BY <3>2, <3>3, <3>4
  <2> QED
    BY <2>1, <2>2
<1>2. \A U \in SUBSET (1..n) : (\A V \in SUBSET U : V # U => V \in G) => U \in G
  BY <1>1
<1> HIDE DEF G
<1>3. SUBSET (1..n) \subseteq G
  <2> DEFINE S == 1..n
  <2>1. IsFiniteSet(S) /\ \A U \in SUBSET S : (\A V \in SUBSET U : V # U => V \in G) => U \in G
    BY <1>0, <1>2
  <2> HIDE DEF S
  <2>2. SUBSET S \subseteq G
    BY <2>1, SubsetInduction
  <2> QED
    BY <2>2 DEF S
<1>4. 1..n \in G
  BY <1>3
<1> QED
  BY <1>4 DEF G

\* The place of a number in a set of numbers, counted from 1.
RankIn(S, x) == Cardinality({y \in S : y <= x})

\* The rank of an element in a finite set of numbers counts it off.
LEMMA RankIsOnto ==
    ASSUME NEW S, S \subseteq Int, IsFiniteSet(S),
           NEW rank, \A x \in S : rank[x] = RankIn(S, x)
    PROVE  /\ \A x, y \in S : rank[x] = rank[y] => x = y
           /\ {rank[x] : x \in S} = 1..Cardinality(S)
<1> DEFINE N == Cardinality(S)
           B(x) == {y \in S : y <= x}
<1>0. \A x \in S : rank[x] = Cardinality(B(x))
  BY DEF RankIn
<1>1. ASSUME NEW x \in S PROVE rank[x] \in 1..N
  <2>1. B(x) \subseteq S /\ x \in B(x) /\ rank[x] = Cardinality(B(x))
    BY <1>0
  <2> HIDE DEF B
  <2>2. IsFiniteSet(B(x)) /\ Cardinality(B(x)) <= N /\ Cardinality(B(x)) \in Nat /\ N \in Nat
    BY <2>1, FS_Subset, FS_CardinalityType
  <2>3. Cardinality(B(x)) # 0
    BY <2>1, <2>2, FS_EmptySet
  <2> QED
    BY <2>1, <2>2, <2>3
<1>2. ASSUME NEW x \in S, NEW y \in S, x < y PROVE rank[x] < rank[y]
  <2>1. /\ B(x) \subseteq B(y) \ {y} /\ B(y) \subseteq S /\ y \in B(y)
        /\ rank[x] = Cardinality(B(x)) /\ rank[y] = Cardinality(B(y))
    <3>1. \A z \in S : z <= x => z <= y /\ z # y
      BY <1>2
    <3>2. y <= y
      OBVIOUS
    <3>3. rank[x] = Cardinality(B(x)) /\ rank[y] = Cardinality(B(y))
      BY <1>0
    <3> QED
      BY ONLY <3>1, <3>2, <3>3, y \in S
  <2> HIDE DEF B
  <2>2. IsFiniteSet(B(y)) /\ IsFiniteSet(B(y) \ {y}) /\ Cardinality(B(y)) \in Nat
        /\ Cardinality(B(y) \ {y}) = Cardinality(B(y)) - 1
    BY <2>1, FS_Subset, FS_RemoveElement, FS_CardinalityType
  <2>3. Cardinality(B(x)) <= Cardinality(B(y) \ {y}) /\ Cardinality(B(x)) \in Nat
    BY <2>1, <2>2, FS_Subset, FS_CardinalityType
  <2> QED
    BY <2>1, <2>2, <2>3
<1>3. \A x, y \in S : rank[x] = rank[y] => x = y
  <2> SUFFICES ASSUME NEW x \in S, NEW y \in S, rank[x] = rank[y], x # y PROVE FALSE
    OBVIOUS
  <2>1. x < y \/ y < x
    OBVIOUS
  <2>2. rank[x] \in Nat /\ rank[y] \in Nat
    BY <1>1
  <2> QED
    BY <1>2, <2>1, <2>2
<1>4. [x \in S |-> rank[x]] \in Injection(S, 1..N)
  BY <1>1, <1>3 DEF Injection, IsInjective
<1>5. IsFiniteSet(1..N) /\ Cardinality(1..N) = N
  <2>1. N \in Nat
    BY FS_CardinalityType
  <2> QED
    BY <2>1, FS_Interval
<1>6. [x \in S |-> rank[x]] \in Surjection(S, 1..N)
  BY <1>4, <1>5, FS_Injection
<1>7. \A k \in 1..N : \E x \in S : rank[x] = k
  BY <1>6 DEF Surjection
<1>8. {rank[x] : x \in S} = 1..N
  BY <1>1, <1>7
<1> QED
  BY <1>3, <1>8

\* A sum over a sequence, by its first term and by its last.
LEMMA SumFromFirst ==
    ASSUME NEW n \in Nat \ {0}, NEW f, NEW h, \A k \in 1..n : f[k] \in Int,
           \A k \in 1..(n - 1) : h[k] = f[k + 1]
    PROVE  SumOver(f, 1..n) = f[1] + SumOver(h, 1..(n - 1))
<1> DEFINE S == 1..(n - 1)
           T == 2..n
           U == 1..n
           b == [k \in S |-> k + 1]
<1>1. IsFiniteSet(S) /\ IsFiniteSet(T) /\ IsFiniteSet(U)
  BY FS_Interval
<1>2. {b[k] : k \in S} = T
  <2>1. \A k \in S : b[k] \in T
    OBVIOUS
  <2>2. \A j \in T : j - 1 \in S /\ b[j - 1] = j
    OBVIOUS
  <2> HIDE DEF S, T, b
  <2> QED
    BY <2>1, <2>2
<1>3. /\ \A x, y \in S : b[x] = b[y] => x = y
      /\ \A x \in S : f[b[x]] \in Int /\ h[x] = f[b[x]]
  OBVIOUS
<1>4. U \ {1} = T /\ 1 \in U /\ \A k \in U : f[k] \in Int
  OBVIOUS
<1> HIDE DEF S, T, U, b
<1>5. SumOver(f, T) = SumOver(h, S)
  <2>1. SumOver(f, {b[k] : k \in S}) = SumOver(h, S)
    BY ONLY <1>1, <1>3, SumImage
  <2> QED
    BY <1>2, <2>1
<1>6. SumOver(f, U) = f[1] + SumOver(f, T)
  BY <1>1, <1>4, SumTakeOut
<1> QED
  BY <1>5, <1>6 DEF S, U

LEMMA SumToLast ==
    ASSUME NEW n \in Nat, NEW f, NEW h, \A k \in 1..(n + 1) : f[k] \in Int,
           \A k \in 1..n : h[k] = f[k]
    PROVE  SumOver(f, 1..(n + 1)) = SumOver(h, 1..n) + f[n + 1]
<1> DEFINE S == 1..n
           U == 1..(n + 1)
<1>1. IsFiniteSet(S) /\ IsFiniteSet(U)
  BY FS_Interval
<1>2. /\ U \ {n + 1} = S /\ n + 1 \in U /\ \A k \in U : f[k] \in Int
      /\ \A k \in S : h[k] = f[k] /\ h[k] \in Int /\ f[k] \in Int
  OBVIOUS
<1> HIDE DEF S, U
<1>3. SumOver(f, U) = f[n + 1] + SumOver(f, S)
  BY <1>1, <1>2, SumTakeOut
<1>4. SumOver(f, S) = SumOver(h, S)
  BY <1>1, <1>2, SumCompare
<1>5. SumOver(f, S) \in Int /\ f[n + 1] \in Int
  BY <1>1, <1>2, SumType
<1>6. SumOver(f, U) = SumOver(f, S) + f[n + 1]
  BY <1>3, <1>5
<1> QED
  BY <1>4, <1>6 DEF S, U

\* A factor of every term is one of the sum.
LEMMA SumScale ==
    ASSUME NEW f, NEW h, NEW S, NEW c \in Int, IsFiniteSet(S),
           \A x \in S : f[x] \in Int /\ h[x] = c * f[x]
    PROVE  SumOver(h, S) = c * SumOver(f, S)
<1> DEFINE G == {T \in SUBSET S : SumOver(h, T) = c * SumOver(f, T)}
<1>1. ASSUME NEW T \in SUBSET S, \A U \in SUBSET T : U # T => U \in G PROVE T \in G
  <2>1. CASE T = {}
    <3>1. SumOver(h, {}) = 0 /\ SumOver(f, {}) = 0
      BY SumFirst, FS_EmptySet
    <3> QED
      BY <2>1, <3>1
  <2>2. ASSUME NEW x \in T PROVE T \in G
    <3> DEFINE W == T \ {x}
    <3>1. SumOver(h, W) = c * SumOver(f, W) /\ IsFiniteSet(T) /\ IsFiniteSet(W)
      BY <1>1, <2>2, FS_Subset
    <3>2. \A y \in T : f[y] \in Int /\ h[y] \in Int
      OBVIOUS
    <3>3. SumOver(f, T) = f[x] + SumOver(f, W) /\ SumOver(h, T) = h[x] + SumOver(h, W)
      BY <3>1, <3>2, SumTakeOut
    <3>4. SumOver(f, W) \in Int /\ f[x] \in Int
      BY <3>1, <3>2, SumType
    <3>5. SumOver(h, T) = c * f[x] + c * SumOver(f, W)
      BY <3>1, <3>3
    <3> DEFINE a == f[x]
               r == SumOver(f, W)
    <3>6. c * a + c * r = c * (a + r)
      <4> HIDE DEF a, r
      <4>1. a \in Int /\ r \in Int
        BY <3>4 DEF a, r
      <4> QED
        BY <4>1
    <3> QED
      BY <3>3, <3>5, <3>6
  <2> QED
    BY <2>1, <2>2
<1> HIDE DEF G
<1>2. SUBSET S \subseteq G
  BY <1>1, SubsetInduction
<1> QED
  BY <1>2 DEF G

LEMMA RankIsIn ==
    ASSUME NEW to, to \subseteq Int, IsFiniteSet(to),
           NEW rank, \A x \in to : rank[x] = RankIn(to, x)
    PROVE  \A x \in to : rank[x] \in 1..Cardinality(to)
<1>1. {rank[x] : x \in to} = 1..Cardinality(to)
  BY RankIsOnto
<1> QED
  BY <1>1

\* A sum over the numbers of a set, each read at its rank in it.
LEMMA SumByRank ==
    ASSUME NEW S, NEW to, IsFiniteSet(S), to \subseteq S, to \subseteq Int,
           NEW f, \A k \in 1..Cardinality(to) : f[k] \in Int,
           NEW w, \A x \in S \ to : w[x] = 0, \A x \in to : w[x] = f[RankIn(to, x)]
    PROVE  SumOver(w, S) = SumOver(f, 1..Cardinality(to))
<1> DEFINE r == [x \in to |-> RankIn(to, x)]
           N == Cardinality(to)
<1>1. IsFiniteSet(to)
  BY FS_Subset
<1>3. \A x \in to : r[x] = RankIn(to, x)
  OBVIOUS
<1> HIDE DEF r, N
<1>2. /\ \A x, y \in to : r[x] = r[y] => x = y
      /\ {r[x] : x \in to} = 1..N
  BY <1>1, <1>3, RankIsOnto DEF N
<1>4. \A x \in to : r[x] \in 1..N
  BY <1>2
<1>5. \A x \in to : f[r[x]] \in Int /\ w[x] = f[r[x]]
  BY <1>3, <1>4 DEF N
<1>6. SumOver(f, {r[x] : x \in to}) = SumOver(w, to)
  BY ONLY <1>1, <1>2, <1>5, SumImage
<1>7. SumOver(w, S) = SumOver(w, to)
  BY <1>5, SumSupport
<1> QED
  BY <1>2, <1>6, <1>7 DEF N

\* A sum of ones counts the elements.
LEMMA SumCounts ==
    ASSUME NEW f, NEW S, IsFiniteSet(S), \A x \in S : f[x] = 1
    PROVE  SumOver(f, S) = Cardinality(S)
<1> DEFINE G == {T \in SUBSET S : SumOver(f, T) = Cardinality(T)}
<1>1. ASSUME NEW T \in SUBSET S, \A U \in SUBSET T : U # T => U \in G PROVE T \in G
  <2>0. IsFiniteSet(T)
    BY FS_Subset
  <2>1. CASE T = {}
    BY <2>0, <2>1, SumFirst, FS_EmptySet
  <2>2. CASE T # {}
    <3> DEFINE x == Least(T)
               U == T \ {x}
    <3>1. x \in T /\ U \in SUBSET T /\ U # T
      BY <2>2 DEF Least
    <3>2. SumOver(f, T) = f[x] + SumOver(f, U)
      BY <2>0, <2>2, SumFirst
    <3>3. SumOver(f, U) = Cardinality(U)
      BY <1>1, <3>1
    <3>4. Cardinality(U) = Cardinality(T) - 1 /\ Cardinality(T) \in Nat
      BY <2>0, <3>1, FS_RemoveElement, FS_CardinalityType
    <3>5. f[x] = 1
      BY <3>1
    <3> HIDE DEF x, U
    <3> QED
      BY <3>2, <3>3, <3>4, <3>5
  <2> QED
    BY <2>1, <2>2
<1> HIDE DEF G
<1>2. SUBSET S \subseteq G
  BY <1>1, SubsetInduction
<1> QED
  BY <1>2 DEF G

LEMMA SumOfOnes ==
    ASSUME NEW n \in Nat, NEW f, \A k \in 1..n : f[k] = 1
    PROVE  SumOver(f, 1..n) = n
<1> DEFINE g == [k \in 0..n |-> k]
<1>1. g[0] = 0 /\ g[n] = n
  OBVIOUS
<1>2. \A k \in 0..n : g[k] \in Int
  OBVIOUS
<1>3. \A k \in 1..n : f[k] \in Int /\ g[k] = g[k - 1] + f[k]
  OBVIOUS
<1> HIDE DEF g
<1> QED
  BY ONLY n \in Nat, <1>1, <1>2, <1>3, SumUpTo

\* What f adds up to over a sequence.
SeqSum(f, s) == SumOver([i \in DOMAIN s |-> f[s[i]]], DOMAIN s)

LEMMA SeqSumType ==
    ASSUME NEW A, NEW f, \A a \in A : f[a] \in Int, NEW s \in Seq(A)
    PROVE  SeqSum(f, s) \in Int
<1> DEFINE g == [i \in DOMAIN s |-> f[s[i]]]
           D == DOMAIN s
<1>1. IsFiniteSet(D)
  <2>1. D = 1..Len(s) /\ Len(s) \in Nat
    OBVIOUS
  <2> HIDE DEF D
  <2> QED
    BY <2>1, FS_Interval
<1>2. \A i \in D : g[i] \in Int
  OBVIOUS
<1>3. SeqSum(f, s) = SumOver(g, D)
  BY DEF SeqSum
<1> HIDE DEF g, D
<1> QED
  BY <1>1, <1>2, <1>3, SumType

LEMMA SeqSumEmpty == ASSUME NEW f PROVE SeqSum(f, <<>>) = 0
<1> DEFINE g == [i \in DOMAIN <<>> |-> f[<<>>[i]]]
           D == DOMAIN <<>>
<1>1. D = {}
  OBVIOUS
<1>2. SeqSum(f, <<>>) = SumOver(g, D)
  BY DEF SeqSum
<1> HIDE DEF g, D
<1>3. IsFiniteSet(D) /\ \A i \in D : g[i] = 0
  BY <1>1, FS_EmptySet
<1> QED
  BY <1>2, <1>3, SumZero

LEMMA SeqSumAppend ==
    ASSUME NEW A, NEW f, \A a \in A : f[a] \in Int, NEW s \in Seq(A), NEW e \in A
    PROVE  SeqSum(f, Append(s, e)) = SeqSum(f, s) + f[e]
<1> DEFINE n == Len(s)
           t == Append(s, e)
           g == [i \in DOMAIN s |-> f[s[i]]]
           h == [i \in DOMAIN t |-> f[t[i]]]
<1>1. /\ n \in Nat /\ DOMAIN s = 1..n /\ DOMAIN t = 1..(n + 1)
      /\ t[n + 1] = e /\ \A i \in 1..n : t[i] = s[i] /\ s[i] \in A
  OBVIOUS
<1>2. SeqSum(f, s) = SumOver(g, DOMAIN s) /\ SeqSum(f, t) = SumOver(h, DOMAIN t)
  BY DEF SeqSum
<1>3. \A i \in DOMAIN s : g[i] = f[s[i]]
  OBVIOUS
<1>4. \A i \in DOMAIN t : h[i] = f[t[i]]
  OBVIOUS
<1> HIDE DEF n, t, g, h
<1>5. \A i \in 1..(n + 1) : i = n + 1 \/ i \in 1..n
  BY <1>1
<1>6. n + 1 \in 1..(n + 1) /\ \A i \in 1..n : i \in 1..(n + 1)
  BY <1>1
<1>7. h[n + 1] = f[e] /\ \A i \in 1..n : g[i] = h[i] /\ h[i] \in Int
  BY <1>1, <1>3, <1>4, <1>6
<1>8. \A i \in 1..(n + 1) : h[i] \in Int
  BY <1>5, <1>7
<1>9. SumOver(h, 1..(n + 1)) = SumOver(g, 1..n) + h[n + 1]
  BY <1>1, <1>7, <1>8, SumToLast
<1> QED
  BY <1>1, <1>2, <1>7, <1>9 DEF t

LEMMA SeqSumHead ==
    ASSUME NEW A, NEW f, \A a \in A : f[a] \in Int, NEW s \in Seq(A), s # <<>>
    PROVE  SeqSum(f, s) = f[Head(s)] + SeqSum(f, Tail(s))
<1> DEFINE n == Len(s)
           t == Tail(s)
           g == [i \in DOMAIN s |-> f[s[i]]]
           h == [i \in DOMAIN t |-> f[t[i]]]
<1>1. /\ n \in Nat \ {0} /\ DOMAIN s = 1..n /\ DOMAIN t = 1..(n - 1)
      /\ s[1] = Head(s) /\ \A i \in 1..(n - 1) : t[i] = s[i + 1]
  OBVIOUS
<1>a. \A i \in 1..n : s[i] \in A
  OBVIOUS
<1>2. SeqSum(f, s) = SumOver(g, DOMAIN s) /\ SeqSum(f, t) = SumOver(h, DOMAIN t)
  BY DEF SeqSum
<1>3. \A i \in DOMAIN s : g[i] = f[s[i]]
  OBVIOUS
<1>4. \A i \in DOMAIN t : h[i] = f[t[i]]
  OBVIOUS
<1> HIDE DEF n, t, g, h
<1>5. \A i \in 1..(n - 1) : i + 1 \in 1..n
  BY <1>1
<1>6. 1 \in 1..n
  BY <1>1
<1>7. g[1] = f[Head(s)] /\ \A i \in 1..n : g[i] \in Int
  BY <1>1, <1>a, <1>3, <1>6
<1>8. \A i \in 1..(n - 1) : h[i] = g[i + 1]
  BY <1>1, <1>3, <1>4, <1>5
<1>9. SumOver(g, 1..n) = g[1] + SumOver(h, 1..(n - 1))
  BY <1>1, <1>7, <1>8, SumFromFirst
<1> QED
  BY <1>1, <1>2, <1>7, <1>9 DEF t
================================================================================
