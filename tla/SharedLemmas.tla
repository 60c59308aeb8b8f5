---------------------------- MODULE SharedLemmas ----------------------------
(***************************************************************************)
(* Facts about SumFunctionOnSet, the sum of a function's values over a     *)
(* finite set, that the proofs of the accounts rest on.  The community     *)
(* module defines it by recursion over the subsets of the set: that the    *)
(* recursion has a solution, and what it computes, is proved here from the *)
(* well-foundedness of strict inclusion, each time for the one statement   *)
(* at hand (a set in which the statement fails has a smallest member).     *)
(* After that, facts about inOrder, the lists of which some members stay,  *)
(* and about quotients, products and sums of shares.                       *)
(***************************************************************************)
EXTENDS Lists, FiniteSetsExt, FiniteSetTheorems, WellFoundedInduction, TLAPS

SumPick(s) == CHOOSE x \in s : TRUE

\* h solves the recursion of the sum of f over the subsets of S.
SumSolves(f, S, h) ==
  h = [s \in SUBSET S |-> IF s = {} THEN 0 ELSE f[SumPick(s)] + h[s \ {SumPick(s)}]]

LEMMA PickIn == ASSUME NEW S, S # {} PROVE SumPick(S) \in S
BY DEF SumPick

LEMMA SumUnfold ==
  ASSUME NEW f, NEW S
  PROVE  SumFunctionOnSet(f, S) = (CHOOSE h : SumSolves(f, S, h))[S]
BY DEF SumFunctionOnSet, FoldFunctionOnSet, MapThenFoldSet, SumSolves, SumPick

\* A nonempty set of finite sets has a member that strictly includes no other.
LEMMA SmallestSet ==
  ASSUME NEW S, IsFiniteSet(S), NEW T, T \subseteq SUBSET S, T # {}
  PROVE  \E x \in T : \A y \in T : ~(y \subseteq x /\ y # x)
<1>1. PICK x \in T : \A y \in T : <<y, x>> \notin StrictSubsetOrdering(S)
  BY FS_StrictSubsetOrderingWellFounded, FS_FiniteSubsetsOfFinite, WFMin
<1>2. QED  BY <1>1 DEF StrictSubsetOrdering

\* Of the subsets up[k] of K, one for each member, some strictly includes no other.
LEMMA SmallestOf ==
  ASSUME NEW K, IsFiniteSet(K), K # {}, NEW up, \A k \in K : up[k] \subseteq K
  PROVE  \E k \in K : \A j \in K : ~(up[j] \subseteq up[k] /\ up[j] # up[k])
<1> DEFINE tails == {up[k] : k \in K}
<1>1. tails \subseteq SUBSET K /\ tails # {} /\ \A k \in K : up[k] \in tails
  OBVIOUS
<1>2. \A x \in tails : \E k \in K : x = up[k]
  OBVIOUS
<1> HIDE DEF tails
<1>3. PICK x \in tails : \A y \in tails : ~(y \subseteq x /\ y # x)
  BY <1>1, SmallestSet
<1>4. QED  BY <1>1, <1>2, <1>3

\* The last of a finite set of positions.
LEMMA LastPosition ==
  ASSUME NEW K, IsFiniteSet(K), \A k \in K : k \in Nat, K # {}
  PROVE  \E k \in K : \A j \in K : j <= k
<1> DEFINE up == [k \in K |-> {j \in K : j >= k}]
<1>1. \A k \in K : k \in Nat /\ up[k] \subseteq K /\ k \in up[k]
  OBVIOUS
<1>2. PICK k \in K : \A j \in K : ~(up[j] \subseteq up[k] /\ up[j] # up[k])
  <2> HIDE DEF up
  <2>1. QED  BY <1>1, SmallestOf
<1>3. ASSUME NEW j \in K, ~(j <= k) PROVE FALSE
  <2>1. j > k /\ j \in Nat /\ k \in Nat
    BY <1>1, <1>3
  <2>2. ASSUME NEW e \in up[j] PROVE e \in up[k]
    <3>1. e \in K /\ e \in Nat /\ e >= j
      BY <1>1
    <3>2. e >= k
      BY <2>1, <3>1
    <3>3. QED  BY <3>1, <3>2
  <2>3. k \notin up[j]
    BY <2>1
  <2> HIDE DEF up
  <2>4. QED  BY <1>1, <1>2, <2>2, <2>3
<1>4. QED  BY <1>3

\* And the first.
LEMMA FirstPosition ==
  ASSUME NEW K, IsFiniteSet(K), \A k \in K : k \in Nat, K # {}
  PROVE  Min(K) \in K /\ \A j \in K : Min(K) <= j
<1>1. PICK n \in K : \A j \in K : j <= n
  BY LastPosition
<1> DEFINE below == {n - k : k \in K}
<1>2. IsFiniteSet(below) /\ below # {} /\ \A m \in below : m \in Nat
  <2>1. n \in Nat /\ \A k \in K : n - k \in 0..n
    BY <1>1
  <2>2. IsFiniteSet(0..n)
    BY <2>1, FS_Interval
  <2>3. below \subseteq 0..n
    BY <2>1
  <2>4. IsFiniteSet(below)
    BY <2>2, <2>3, FS_Subset
  <2>5. QED  BY <2>3, <2>4
<1>3. PICK m \in below : \A j \in below : j <= m
  <2> HIDE DEF below
  <2>1. QED  BY <1>2, LastPosition
<1>4. PICK k \in K : m = n - k
  BY <1>3
<1>5. ASSUME NEW j \in K PROVE k <= j
  <2>1. n - j <= m
    BY <1>3
  <2>2. QED  BY <1>4, <2>1
<1>6. QED  BY <1>5 DEF Min

LEMMA SolutionsAgree ==
  ASSUME NEW S, IsFiniteSet(S), NEW U, NEW f, NEW g, NEW h, NEW k,
         SumSolves(f, S, h), SumSolves(g, U, k),
         NEW T, T \subseteq S, T \subseteq U, \A x \in T : f[x] = g[x]
  PROVE  h[T] = k[T]
<1> DEFINE Bad == {V \in SUBSET T : h[V] # k[V]}
<1> SUFFICES ASSUME Bad # {} PROVE FALSE
  OBVIOUS
<1>1. PICK V \in Bad : \A W \in Bad : ~(W \subseteq V /\ W # V)
  <2>1. Bad \subseteq SUBSET S
    OBVIOUS
  <2> HIDE DEF Bad
  <2>2. QED  BY <2>1, SmallestSet
<1>2. V \in SUBSET S /\ V \in SUBSET U
  OBVIOUS
<1>3. CASE V = {}
  BY <1>2, <1>3 DEF SumSolves
<1>4. CASE V # {}
  <2> DEFINE p == SumPick(V)
  <2>1. p \in V
    BY <1>4, PickIn
  <2>2. h[V] = f[p] + h[V \ {p}] /\ k[V] = g[p] + k[V \ {p}]
    BY <1>2, <1>4 DEF SumSolves
  <2>3. h[V \ {p}] = k[V \ {p}]
    BY <1>1, <2>1
  <2>4. f[p] = g[p]
    BY <2>1
  <2>5. QED  BY <2>2, <2>3, <2>4
<1>5. QED  BY <1>3, <1>4

LEMMA SolutionExists ==
  ASSUME NEW S, IsFiniteSet(S), NEW f
  PROVE  \E h : SumSolves(f, S, h)
<1> DEFINE Bad == {V \in SUBSET S : ~ \E h : SumSolves(f, V, h)}
<1> SUFFICES ASSUME Bad # {} PROVE FALSE
  OBVIOUS
<1>1. PICK T \in Bad : \A W \in Bad : ~(W \subseteq T /\ W # T)
  <2>1. Bad \subseteq SUBSET S
    OBVIOUS
  <2> HIDE DEF Bad
  <2>2. QED  BY <2>1, SmallestSet
<1> DEFINE sum(V) == SumFunctionOnSet(f, V)
           H == [V \in SUBSET T |-> IF V = {} THEN 0 ELSE f[SumPick(V)] + sum(V \ {SumPick(V)})]
<1>2. ASSUME NEW V \in SUBSET T, V # T
      PROVE  \E h : SumSolves(f, V, h) /\ sum(V) = h[V]
  <2>1. \E h : SumSolves(f, V, h)
    BY <1>1, <1>2
  <2>2. SumSolves(f, V, CHOOSE h : SumSolves(f, V, h))
    BY <2>1
  <2>3. QED  BY <2>2, SumUnfold
<1>3. ASSUME NEW V \in SUBSET T, V # {}
      PROVE  H[V \ {SumPick(V)}] = sum(V \ {SumPick(V)})
  <2> DEFINE W == V \ {SumPick(V)}
             X == W \ {SumPick(W)}
  <2>1. W \in SUBSET T /\ W # T
    BY <1>3, PickIn
  <2>2. PICK h : SumSolves(f, W, h) /\ sum(W) = h[W]
    BY <1>2, <2>1
  <2>3. CASE W = {}
    <3>1. h[W] = 0
      BY <2>2, <2>3 DEF SumSolves
    <3>2. QED  BY <2>1, <2>2, <2>3, <3>1
  <2>4. CASE W # {}
    <3>1. SumPick(W) \in W /\ X \in SUBSET T /\ X # T /\ X \subseteq W
      BY <2>1, <2>4, PickIn
    <3>2. PICK k : SumSolves(f, X, k) /\ sum(X) = k[X]
      BY <1>2, <3>1
    <3>3. IsFiniteSet(X)
      BY <3>1, FS_Subset
    <3>4. h[X] = k[X]
      BY <2>2, <3>1, <3>2, <3>3, SolutionsAgree
    <3>5. h[W] = f[SumPick(W)] + h[X]
      BY <2>2, <2>4 DEF SumSolves
    <3>6. H[W] = f[SumPick(W)] + sum(X)
      BY <2>1, <2>4
    <3>7. QED  BY <2>2, <3>2, <3>4, <3>5, <3>6
  <2>5. QED  BY <2>3, <2>4
<1>4. SumSolves(f, T, H)
  BY <1>3 DEF SumSolves
<1>5. QED  BY <1>1, <1>4

----------------------------------------------------------------------------
LEMMA SumSolution ==
  ASSUME NEW f, NEW S, IsFiniteSet(S)
  PROVE  \E h : SumSolves(f, S, h) /\ SumFunctionOnSet(f, S) = h[S]
<1>1. SumSolves(f, S, CHOOSE h : SumSolves(f, S, h))
  BY SolutionExists
<1>2. QED  BY <1>1, SumUnfold

\* The sum of nothing is zero.
LEMMA SumEmpty == ASSUME NEW f PROVE SumFunctionOnSet(f, {}) = 0
<1>1. PICK h : SumSolves(f, {}, h) /\ SumFunctionOnSet(f, {}) = h[{}]
  BY FS_EmptySet, SumSolution
<1>2. QED  BY <1>1 DEF SumSolves

\* A sum depends on the values it adds up and on nothing else.
LEMMA SumSame ==
  ASSUME NEW S, IsFiniteSet(S), NEW f, NEW g, \A x \in S : f[x] = g[x]
  PROVE  SumFunctionOnSet(f, S) = SumFunctionOnSet(g, S)
<1>1. PICK h : SumSolves(f, S, h) /\ SumFunctionOnSet(f, S) = h[S]
  BY SumSolution
<1>2. PICK k : SumSolves(g, S, k) /\ SumFunctionOnSet(g, S) = k[S]
  BY SumSolution
<1>3. h[S] = k[S]
  BY <1>1, <1>2, SolutionsAgree
<1>4. QED  BY <1>1, <1>2, <1>3

\* The first step of the recursion.
LEMMA SumFirst ==
  ASSUME NEW S, IsFiniteSet(S), S # {}, NEW f
  PROVE  /\ SumPick(S) \in S
         /\ SumFunctionOnSet(f, S) = f[SumPick(S)] + SumFunctionOnSet(f, S \ {SumPick(S)})
<1> DEFINE W == S \ {SumPick(S)}
<1>1. SumPick(S) \in S
  BY PickIn
<1>2. PICK h : SumSolves(f, S, h) /\ SumFunctionOnSet(f, S) = h[S]
  BY SumSolution
<1>3. IsFiniteSet(W) /\ W \subseteq S
  BY FS_Subset
<1>4. PICK k : SumSolves(f, W, k) /\ SumFunctionOnSet(f, W) = k[W]
  BY <1>3, SumSolution
<1>5. h[W] = k[W]
  BY <1>2, <1>3, <1>4, SolutionsAgree
<1>6. h[S] = f[SumPick(S)] + h[W]
  BY <1>2 DEF SumSolves
<1>7. QED  BY <1>1, <1>2, <1>4, <1>5, <1>6

\* A sum of integers is an integer.
LEMMA SumInt ==
  ASSUME NEW S, IsFiniteSet(S), NEW f, \A x \in S : f[x] \in Int
  PROVE  SumFunctionOnSet(f, S) \in Int
<1> DEFINE Bad == {V \in SUBSET S : SumFunctionOnSet(f, V) \notin Int}
<1> SUFFICES ASSUME Bad # {} PROVE FALSE
  OBVIOUS
<1>1. PICK V \in Bad : \A W \in Bad : ~(W \subseteq V /\ W # V)
  <2>1. Bad \subseteq SUBSET S
    OBVIOUS
  <2> HIDE DEF Bad
  <2>2. QED  BY <2>1, SmallestSet
<1>2. V # {}
  BY SumEmpty
<1>3. IsFiniteSet(V)
  BY FS_Subset
<1>4. SumPick(V) \in V
      /\ SumFunctionOnSet(f, V) = f[SumPick(V)] + SumFunctionOnSet(f, V \ {SumPick(V)})
  BY <1>2, <1>3, SumFirst
<1>5. SumFunctionOnSet(f, V \ {SumPick(V)}) \in Int
  BY <1>1, <1>4
<1>6. QED  BY <1>1, <1>4, <1>5

\* The order of summation does not matter: any member can be taken out first.
LEMMA SumRemove ==
  ASSUME NEW S, IsFiniteSet(S), NEW f, \A x \in S : f[x] \in Int, NEW x \in S
  PROVE  SumFunctionOnSet(f, S) = f[x] + SumFunctionOnSet(f, S \ {x})
<1> DEFINE sum(V) == SumFunctionOnSet(f, V)
           Bad == {V \in SUBSET S : \E y \in V : sum(V) # f[y] + sum(V \ {y})}
<1> SUFFICES ASSUME Bad # {} PROVE FALSE
  OBVIOUS
<1>1. PICK V \in Bad : \A W \in Bad : ~(W \subseteq V /\ W # V)
  <2>1. Bad \subseteq SUBSET S
    OBVIOUS
  <2> HIDE DEF Bad
  <2>2. QED  BY <2>1, SmallestSet
<1>2. PICK y \in V : sum(V) # f[y] + sum(V \ {y})
  OBVIOUS
<1> DEFINE p == SumPick(V)
<1>3. IsFiniteSet(V)
  BY FS_Subset
<1>4. p \in V /\ sum(V) = f[p] + sum(V \ {p})
  BY <1>2, <1>3, SumFirst
<1>5. p # y
  BY <1>2, <1>4
<1>6. sum(V \ {p}) = f[y] + sum((V \ {p}) \ {y})
  BY <1>1, <1>4, <1>5
<1>7. sum(V \ {y}) = f[p] + sum((V \ {y}) \ {p})
  BY <1>1, <1>2, <1>4, <1>5
<1>8. (V \ {p}) \ {y} = (V \ {y}) \ {p}
  OBVIOUS
<1>9. f[p] \in Int /\ f[y] \in Int /\ sum((V \ {p}) \ {y}) \in Int
  <2>1. IsFiniteSet((V \ {p}) \ {y})
    BY <1>3, FS_Subset
  <2>2. QED  BY <1>4, <2>1, SumInt
<1>10. sum(V) = f[y] + sum(V \ {y})
  <2>1. \A a, b, c \in Int : a + (b + c) = b + (a + c)
    OBVIOUS
  <2> DEFINE z == sum((V \ {p}) \ {y})
  <2>2. sum(V) = f[p] + (f[y] + z)
    BY <1>4, <1>6
  <2>3. sum(V \ {y}) = f[p] + z
    BY <1>7, <1>8
  <2>4. f[p] + (f[y] + z) = f[y] + (f[p] + z)
    BY <1>9, <2>1
  <2> HIDE DEF sum, p, z
  <2>5. QED  BY <2>2, <2>3, <2>4
<1>11. QED  BY <1>2, <1>10

LEMMA SumAdd ==
  ASSUME NEW S, IsFiniteSet(S), NEW f, NEW x, x \notin S, \A y \in S \cup {x} : f[y] \in Int
  PROVE  SumFunctionOnSet(f, S \cup {x}) = f[x] + SumFunctionOnSet(f, S)
<1> DEFINE T == S \cup {x}
<1>1. IsFiniteSet(T) /\ T \ {x} = S /\ x \in T /\ \A y \in T : f[y] \in Int
  BY FS_AddElement
<1> HIDE DEF T
<1>2. SumFunctionOnSet(f, T) = f[x] + SumFunctionOnSet(f, T \ {x})
  BY <1>1, SumRemove
<1>3. QED  BY <1>1, <1>2 DEF T

\* Sums over two sets that share nothing add up to the sum over their union.
LEMMA SumUnion ==
  ASSUME NEW S, IsFiniteSet(S), NEW T, IsFiniteSet(T), S \cap T = {},
         NEW f, \A x \in S \cup T : f[x] \in Int
  PROVE  SumFunctionOnSet(f, S \cup T) = SumFunctionOnSet(f, S) + SumFunctionOnSet(f, T)
<1> DEFINE sum(V) == SumFunctionOnSet(f, V)
           Bad == {V \in SUBSET T : sum(S \cup V) # sum(S) + sum(V)}
<1> SUFFICES ASSUME Bad # {} PROVE FALSE
  OBVIOUS
<1>1. PICK V \in Bad : \A W \in Bad : ~(W \subseteq V /\ W # V)
  <2>1. Bad \subseteq SUBSET T
    OBVIOUS
  <2> HIDE DEF Bad
  <2>2. QED  BY <2>1, SmallestSet
<1>2. IsFiniteSet(V) /\ IsFiniteSet(S \cup V)
  BY FS_Subset, FS_Union
<1>3. sum(S) \in Int
  BY SumInt
<1>4. V # {}
  <2>1. sum({}) = 0
    BY SumEmpty
  <2>2. S \cup {} = S
    OBVIOUS
  <2>3. sum(S \cup {}) = sum(S) + sum({})
    BY <1>3, <2>1, <2>2
  <2>4. sum(S \cup V) # sum(S) + sum(V)
    BY <1>1
  <2> HIDE DEF sum, Bad
  <2>5. QED  BY <2>3, <2>4
<1>5. PICK x : x \in V
  BY <1>4
<1> DEFINE W == V \ {x}
<1>6. sum(V) = f[x] + sum(W)
  BY <1>2, <1>5, SumRemove
<1>7. sum(S \cup V) = f[x] + sum(S \cup W)
  <2> DEFINE U == S \cup V
  <2>1. U \ {x} = S \cup W /\ x \in U /\ IsFiniteSet(U) /\ \A y \in U : f[y] \in Int
    BY <1>2, <1>5
  <2> HIDE DEF U, W
  <2>2. sum(U) = f[x] + sum(U \ {x})
    BY <2>1, SumRemove
  <2> HIDE DEF sum
  <2>3. QED  BY <2>1, <2>2 DEF U
<1>8. W \subseteq V /\ W # V /\ W \in SUBSET T
  BY <1>5
<1>9. sum(S \cup W) = sum(S) + sum(W)
  BY <1>1, <1>8
<1>10. sum(W) \in Int /\ f[x] \in Int
  <2>1. IsFiniteSet(W)
    BY <1>2, FS_Subset
  <2>2. QED  BY <1>5, <2>1, SumInt
<1>11. sum(S \cup V) # sum(S) + sum(V)
  BY <1>1
<1> HIDE DEF sum, W, Bad
<1>12. QED  BY <1>3, <1>6, <1>7, <1>9, <1>10, <1>11

\* Sums of values of one sign.
LEMMA SumNat ==
  ASSUME NEW S, IsFiniteSet(S), NEW f, \A x \in S : f[x] \in Nat
  PROVE  SumFunctionOnSet(f, S) \in Nat
<1> DEFINE Bad == {V \in SUBSET S : SumFunctionOnSet(f, V) \notin Nat}
<1> SUFFICES ASSUME Bad # {} PROVE FALSE
  OBVIOUS
<1>1. PICK V \in Bad : \A W \in Bad : ~(W \subseteq V /\ W # V)
  <2>1. Bad \subseteq SUBSET S
    OBVIOUS
  <2> HIDE DEF Bad
  <2>2. QED  BY <2>1, SmallestSet
<1>2. V # {}
  BY SumEmpty
<1>3. IsFiniteSet(V)
  BY FS_Subset
<1>4. SumPick(V) \in V
      /\ SumFunctionOnSet(f, V) = f[SumPick(V)] + SumFunctionOnSet(f, V \ {SumPick(V)})
  BY <1>2, <1>3, SumFirst
<1>5. SumFunctionOnSet(f, V \ {SumPick(V)}) \in Nat
  BY <1>1, <1>4
<1>6. QED  BY <1>1, <1>4, <1>5

LEMMA SumZero ==
  ASSUME NEW S, IsFiniteSet(S), NEW f, \A x \in S : f[x] = 0
  PROVE  SumFunctionOnSet(f, S) = 0
<1> DEFINE Bad == {V \in SUBSET S : SumFunctionOnSet(f, V) # 0}
<1> SUFFICES ASSUME Bad # {} PROVE FALSE
  OBVIOUS
<1>1. PICK V \in Bad : \A W \in Bad : ~(W \subseteq V /\ W # V)
  <2>1. Bad \subseteq SUBSET S
    OBVIOUS
  <2> HIDE DEF Bad
  <2>2. QED  BY <2>1, SmallestSet
<1>2. V # {}
  BY SumEmpty
<1>3. IsFiniteSet(V)
  BY FS_Subset
<1>4. SumPick(V) \in V
      /\ SumFunctionOnSet(f, V) = f[SumPick(V)] + SumFunctionOnSet(f, V \ {SumPick(V)})
  BY <1>2, <1>3, SumFirst
<1>5. SumFunctionOnSet(f, V \ {SumPick(V)}) = 0
  BY <1>1, <1>4
<1>6. QED  BY <1>1, <1>4, <1>5

\* Changing one value changes the sum by the difference.
LEMMA SumUpdate ==
  ASSUME NEW S, IsFiniteSet(S), NEW f, NEW g, NEW x \in S,
         \A y \in S : f[y] \in Int /\ g[y] \in Int,
         \A y \in S \ {x} : g[y] = f[y]
  PROVE  SumFunctionOnSet(g, S) = SumFunctionOnSet(f, S) - f[x] + g[x]
<1> DEFINE T == S \ {x}
<1>1. IsFiniteSet(T) /\ x \in S
  BY FS_Subset
<1>2. SumFunctionOnSet(g, S) = g[x] + SumFunctionOnSet(g, T)
  BY SumRemove
<1>3. SumFunctionOnSet(f, S) = f[x] + SumFunctionOnSet(f, T)
  BY SumRemove
<1>4. SumFunctionOnSet(g, T) = SumFunctionOnSet(f, T)
  BY <1>1, SumSame
<1>5. SumFunctionOnSet(f, T) \in Int /\ f[x] \in Int /\ g[x] \in Int
  BY <1>1, SumInt
<1>6. QED  BY <1>2, <1>3, <1>4, <1>5

\* Adding two functions up adds up their sums.
LEMMA SumPlus ==
  ASSUME NEW S, IsFiniteSet(S), NEW f, NEW g, NEW h,
         \A x \in S : f[x] \in Int /\ g[x] \in Int /\ h[x] = f[x] + g[x]
  PROVE  SumFunctionOnSet(h, S) = SumFunctionOnSet(f, S) + SumFunctionOnSet(g, S)
<1> DEFINE F(V) == SumFunctionOnSet(f, V)
           G(V) == SumFunctionOnSet(g, V)
           H(V) == SumFunctionOnSet(h, V)
           Bad == {V \in SUBSET S : H(V) # F(V) + G(V)}
<1> SUFFICES ASSUME Bad # {} PROVE FALSE
  OBVIOUS
<1>1. PICK V \in Bad : \A W \in Bad : ~(W \subseteq V /\ W # V)
  <2>1. Bad \subseteq SUBSET S
    OBVIOUS
  <2> HIDE DEF Bad
  <2>2. QED  BY <2>1, SmallestSet
<1>2. V # {}
  <2>1. F({}) = 0 /\ G({}) = 0 /\ H({}) = 0
    BY SumEmpty
  <2>2. H(V) # F(V) + G(V)
    BY <1>1
  <2> HIDE DEF F, G, H, Bad
  <2>3. QED  BY <2>1, <2>2
<1>3. PICK x : x \in V
  BY <1>2
<1> DEFINE W == V \ {x}
<1>4. IsFiniteSet(V) /\ IsFiniteSet(W) /\ W \in SUBSET S /\ W \subseteq V /\ W # V
  BY <1>3, FS_Subset
<1>5. F(V) = f[x] + F(W) /\ G(V) = g[x] + G(W)
  BY <1>3, <1>4, SumRemove
<1>6. H(V) = h[x] + H(W)
  <2>1. \A y \in V : h[y] \in Int
    OBVIOUS
  <2>2. QED  BY <1>3, <1>4, <2>1, SumRemove
<1>7. H(W) = F(W) + G(W)
  BY <1>1, <1>4
<1>8. F(W) \in Int /\ G(W) \in Int
  BY <1>4, SumInt
<1>9. f[x] \in Int /\ g[x] \in Int /\ h[x] = f[x] + g[x] /\ H(V) # F(V) + G(V)
  BY <1>1, <1>3
<1> HIDE DEF F, G, H, W, Bad
<1>10. QED  BY <1>5, <1>6, <1>7, <1>8, <1>9

\* Renaming what is summed over does not change the sum.
LEMMA SumRename ==
  ASSUME NEW S, IsFiniteSet(S), NEW f, NEW g, NEW m,
         \A x, y \in S : m[x] = m[y] => x = y,
         \A x \in S : f[x] \in Int /\ g[m[x]] = f[x]
  PROVE  SumFunctionOnSet(g, {m[x] : x \in S}) = SumFunctionOnSet(f, S)
<1> DEFINE img(V) == {m[x] : x \in V}
           F(V) == SumFunctionOnSet(f, V)
           G(V) == SumFunctionOnSet(g, img(V))
           Bad == {V \in SUBSET S : G(V) # F(V)}
<1> SUFFICES ASSUME Bad # {} PROVE FALSE
  OBVIOUS
<1>1. PICK V \in Bad : \A W \in Bad : ~(W \subseteq V /\ W # V)
  <2>1. Bad \subseteq SUBSET S
    OBVIOUS
  <2> HIDE DEF Bad
  <2>2. QED  BY <2>1, SmallestSet
<1>2. V # {}
  <2>1. img({}) = {}
    OBVIOUS
  <2> HIDE DEF img
  <2>2. F({}) = 0 /\ G({}) = 0
    BY <2>1, SumEmpty
  <2>3. QED  BY <1>1, <2>2
<1>3. PICK x : x \in V
  BY <1>2
<1> DEFINE W == V \ {x}
<1>4. IsFiniteSet(V) /\ W \in SUBSET S /\ W \subseteq V /\ W # V
  BY <1>3, FS_Subset
<1>5. F(V) = f[x] + F(W)
  BY <1>3, <1>4, SumRemove
<1>6. G(V) = g[m[x]] + G(W)
  <2> DEFINE T == img(V)
  <2>1. IsFiniteSet(T)
    <3> DEFINE mm == [y \in V |-> m[y]]
    <3>1. mm \in [V -> T] /\ \A t \in T : \E y \in V : mm[y] = t
      OBVIOUS
    <3>2. mm \in Surjection(V, T)
      BY <3>1 DEF Surjection
    <3>3. QED  BY <1>4, <3>2, FS_Surjection
  <2>2. T \ {m[x]} = img(W) /\ m[x] \in T /\ \A y \in T : g[y] \in Int
    BY <1>3, <1>4
  <2> HIDE DEF T, W
  <2>3. SumFunctionOnSet(g, T) = g[m[x]] + SumFunctionOnSet(g, T \ {m[x]})
    BY <2>1, <2>2, SumRemove
  <2>4. QED  BY <2>2, <2>3 DEF T
<1>7. G(W) = F(W)
  BY <1>1, <1>4
<1>8. g[m[x]] = f[x] /\ G(V) # F(V)
  BY <1>1, <1>3
<1> HIDE DEF F, G, W, Bad
<1>9. QED  BY <1>5, <1>6, <1>7, <1>8

\* A larger value at every member, and a larger set of nonnegative values,
\* give a larger sum.
LEMMA SumMonotone ==
  ASSUME NEW S, IsFiniteSet(S), NEW f, NEW g,
         \A x \in S : f[x] \in Int /\ g[x] \in Int /\ f[x] <= g[x]
  PROVE  SumFunctionOnSet(f, S) <= SumFunctionOnSet(g, S)
<1> DEFINE d == [x \in S |-> g[x] - f[x]]
<1>1. \A x \in S : d[x] \in Nat /\ d[x] \in Int /\ g[x] = f[x] + d[x]
  OBVIOUS
<1> HIDE DEF d
<1>2. SumFunctionOnSet(g, S) = SumFunctionOnSet(f, S) + SumFunctionOnSet(d, S)
  BY <1>1, SumPlus
<1>3. SumFunctionOnSet(d, S) \in Nat
  BY <1>1, SumNat
<1>4. SumFunctionOnSet(f, S) \in Int
  BY SumInt
<1>5. QED  BY <1>2, <1>3, <1>4

LEMMA SumSubset ==
  ASSUME NEW S, IsFiniteSet(S), NEW T, T \subseteq S, NEW f, \A x \in S : f[x] \in Nat
  PROVE  SumFunctionOnSet(f, T) <= SumFunctionOnSet(f, S)
<1> DEFINE U == S \ T
<1>1. IsFiniteSet(T) /\ IsFiniteSet(U) /\ T \cap U = {} /\ S = T \cup U
  BY FS_Subset
<1>2. SumFunctionOnSet(f, T) \in Nat /\ SumFunctionOnSet(f, U) \in Nat
  BY <1>1, SumNat
<1>3. \A x \in T \cup U : f[x] \in Int
  BY <1>1
<1> HIDE DEF U
<1>4. SumFunctionOnSet(f, T \cup U) = SumFunctionOnSet(f, T) + SumFunctionOnSet(f, U)
  BY <1>1, <1>3, SumUnion
<1>5. QED  BY <1>1, <1>2, <1>4

\* What is added up part by part is the whole: every member of K is in the part
\* of one t, and x gives each part's sum.
LEMMA SumPartition ==
  ASSUME NEW K, IsFiniteSet(K), NEW f, \A k \in K : f[k] \in Int,
         NEW T, IsFiniteSet(T),
         NEW part \in [T -> SUBSET K], \A k \in K : \E t \in T : k \in part[t],
         \A t, u \in T : t # u => part[t] \cap part[u] = {},
         NEW x, \A t \in T : x[t] = SumFunctionOnSet(f, part[t])
  PROVE  SumFunctionOnSet(x, T) = SumFunctionOnSet(f, K)
<1> DEFINE In(V) == {k \in K : \E t \in V : k \in part[t]}
           Bad == {V \in SUBSET T : SumFunctionOnSet(x, V) # SumFunctionOnSet(f, In(V))}
<1>1. \A V : IsFiniteSet(In(V))
  BY FS_Subset
<1>2. \A t \in T : x[t] \in Int
  <2> SUFFICES ASSUME NEW t \in T PROVE x[t] \in Int
    OBVIOUS
  <2>1. IsFiniteSet(part[t])
    BY FS_Subset
  <2>2. SumFunctionOnSet(f, part[t]) \in Int
    BY <2>1, SumInt
  <2>3. QED  BY <2>2
<1>3. Bad = {}
  <2> SUFFICES ASSUME Bad # {} PROVE FALSE
    OBVIOUS
  <2>1. Bad \subseteq SUBSET T
    OBVIOUS
  <2> HIDE DEF Bad
  <2>2. PICK V \in Bad : \A W \in Bad : ~(W \subseteq V /\ W # V)
    BY <2>1, SmallestSet
  <2> USE DEF Bad
  <2>3. V \subseteq T /\ IsFiniteSet(V)
    BY FS_Subset
  <2>4. CASE V = {}
    <3>1. In(V) = {}
      BY <2>4
    <3>2. QED  BY <2>4, <3>1, SumEmpty
  <2>5. CASE V # {}
    <3>1. PICK t \in V : TRUE
      BY <2>5
    <3> DEFINE W == V \ {t}
               G == part[t]
    <3>2. SumFunctionOnSet(x, W) = SumFunctionOnSet(f, In(W))
      <4>1. W \in SUBSET T /\ W \subseteq V /\ W # V
        BY <2>3, <3>1
      <4>2. W \notin Bad
        BY <2>2, <4>1
      <4>3. QED  BY <4>1, <4>2
    <3>3. SumFunctionOnSet(x, V) = x[t] + SumFunctionOnSet(x, W)
      BY <1>2, <2>3, SumRemove
    <3>4. In(V) = G \cup In(W) /\ G \cap In(W) = {}
      BY <3>1
    <3>5. IsFiniteSet(G) /\ IsFiniteSet(In(W))
      BY <1>1, FS_Subset
    <3>6. \A k \in G \cup In(W) : f[k] \in Int
      OBVIOUS
    <3> HIDE DEF G, In, W
    <3>7. SumFunctionOnSet(f, In(V)) = SumFunctionOnSet(f, G) + SumFunctionOnSet(f, In(W))
      BY <3>4, <3>5, <3>6, SumUnion
    <3>8. x[t] = SumFunctionOnSet(f, G)
      BY <2>3 DEF G
    <3>9. QED  BY <3>2, <3>3, <3>7, <3>8
  <2>6. QED  BY <2>4, <2>5
<1>4. In(T) = K
  OBVIOUS
<1>5. T \notin Bad
  BY <1>3
<1> HIDE DEF In
<1>6. QED  BY <1>4, <1>5

\* A sum that grows by new members, one for each k of K.
LEMMA SumExtend ==
  ASSUME NEW F, IsFiniteSet(F), NEW f, NEW g, \A x \in F : f[x] \in Int /\ g[x] = f[x],
         NEW K, IsFiniteSet(K), NEW N, F \cap N = {}, NEW m \in Bijection(K, N),
         NEW h, \A k \in K : h[k] \in Int /\ g[m[k]] = h[k]
  PROVE  SumFunctionOnSet(g, F \cup N) = SumFunctionOnSet(f, F) + SumFunctionOnSet(h, K)
<1>1. N = {m[k] : k \in K} /\ \A j, k \in K : m[j] = m[k] => j = k
  BY DEF Bijection, Injection, Surjection, IsInjective
<1>2. IsFiniteSet(N)
  BY FS_Surjection DEF Bijection
<1>3. \A x \in F \cup N : g[x] \in Int
  BY <1>1
<1>4. SumFunctionOnSet(g, N) = SumFunctionOnSet(h, K)
  BY <1>1, SumRename
<1>5. SumFunctionOnSet(g, F \cup N) = SumFunctionOnSet(g, F) + SumFunctionOnSet(g, N)
  BY <1>2, <1>3, SumUnion
<1>6. SumFunctionOnSet(g, F) = SumFunctionOnSet(f, F)
  BY SumSame
<1>7. QED  BY <1>4, <1>5, <1>6

\* A sum over the values an injection takes, and zeros besides.
LEMMA SumImage ==
  ASSUME NEW K, IsFiniteSet(K), NEW f, NEW g, NEW m, NEW B, IsFiniteSet(B),
         \A x, y \in K : m[x] = m[y] => x = y,
         \A x \in K : f[x] \in Int /\ g[m[x]] = f[x] /\ m[x] \in B,
         \A b \in B : (\A x \in K : m[x] # b) => g[b] = 0
  PROVE  SumFunctionOnSet(g, B) = SumFunctionOnSet(f, K)
<1> DEFINE M == {m[x] : x \in K}
           R == B \ M
<1>1. IsFiniteSet(M) /\ IsFiniteSet(R) /\ M \cap R = {} /\ M \cup R = B
  BY FS_Subset
<1>2. \A b \in R : g[b] = 0
  OBVIOUS
<1>3. \A b \in M : g[b] \in Int
  OBVIOUS
<1>4. SumFunctionOnSet(g, M) = SumFunctionOnSet(f, K)
  BY SumRename
<1> HIDE DEF M, R
<1>5. SumFunctionOnSet(g, M \cup R) = SumFunctionOnSet(g, M) + SumFunctionOnSet(g, R)
  BY <1>1, <1>2, <1>3, SumUnion
<1>6. SumFunctionOnSet(g, R) = 0
  BY <1>1, <1>2, SumZero
<1>7. SumFunctionOnSet(f, K) \in Int
  BY SumInt
<1>8. SumFunctionOnSet(g, B) = SumFunctionOnSet(f, K) + 0
  BY <1>1, <1>4, <1>5, <1>6
<1>9. QED  BY <1>7, <1>8

\* Zeros add nothing: a sum over a set is the sum over the members that count.
LEMMA SumRestrict ==
  ASSUME NEW B, IsFiniteSet(B), NEW K, K \subseteq B, NEW f, NEW g,
         \A x \in K : f[x] \in Int /\ g[x] = f[x], \A x \in B : x \notin K => g[x] = 0
  PROVE  SumFunctionOnSet(g, B) = SumFunctionOnSet(f, K)
<1> DEFINE R == B \ K
<1>1. IsFiniteSet(K) /\ IsFiniteSet(R) /\ K \cap R = {} /\ K \cup R = B
  BY FS_Subset
<1>2. \A x \in K \cup R : g[x] \in Int
  BY <1>1
<1>3. \A x \in R : g[x] = 0
  OBVIOUS
<1> HIDE DEF R
<1>4. SumFunctionOnSet(g, K \cup R) = SumFunctionOnSet(g, K) + SumFunctionOnSet(g, R)
  BY <1>1, <1>2, SumUnion
<1>5. SumFunctionOnSet(g, R) = 0
  BY <1>1, <1>3, SumZero
<1>6. SumFunctionOnSet(g, K) = SumFunctionOnSet(f, K)
  BY <1>1, SumSame
<1>7. SumFunctionOnSet(f, K) \in Int
  BY <1>1, SumInt
<1>8. SumFunctionOnSet(g, B) = SumFunctionOnSet(f, K) + 0
  BY <1>1, <1>4, <1>5, <1>6
<1>9. QED  BY <1>7, <1>8

----------------------------------------------------------------------------
(* Lists of which only some members stay.                                  *)

\* The members of a finite set of positions, counted from the smallest.
LEMMA RankedSet ==
  ASSUME NEW K, IsFiniteSet(K), K \subseteq Nat
  PROVE  LET n   == Cardinality(K)
             nth == [m \in 1..n |-> CHOOSE k \in K : Cardinality({j \in K : j <= k}) = m]
         IN  /\ n \in Nat
             /\ \A m \in 1..n : nth[m] \in K
             /\ \A l, m \in 1..n : nth[l] = nth[m] => l = m
             /\ \A k \in K : \E m \in 1..n : nth[m] = k
<1> DEFINE n       == Cardinality(K)
           upto(k) == {j \in K : j <= k}
           rank    == [k \in K |-> Cardinality(upto(k))]
           nth     == [m \in 1..n |-> CHOOSE k \in K : Cardinality(upto(k)) = m]
<1>1. n \in Nat /\ \A k \in K : k \in Nat
  BY FS_CardinalityType
<1>2. ASSUME NEW k \in K
      PROVE  IsFiniteSet(upto(k)) /\ Cardinality(upto(k)) \in 1..n /\ k \in upto(k)
  <2>1. upto(k) \subseteq K /\ k \in upto(k) /\ upto(k) # {}
    BY <1>1
  <2>2. IsFiniteSet(upto(k)) /\ Cardinality(upto(k)) <= n
    BY <2>1, FS_Subset
  <2>3. Cardinality(upto(k)) \in Nat /\ Cardinality(upto(k)) # 0
    BY <2>1, <2>2, FS_CardinalityType, FS_EmptySet
  <2>4. QED  BY <1>1, <2>1, <2>2, <2>3
<1>3. ASSUME NEW j \in K, NEW k \in K, Cardinality(upto(j)) = Cardinality(upto(k)), j <= k
      PROVE  j = k
  <2>1. upto(j) \subseteq upto(k)
    <3>1. j \in Nat /\ k \in Nat /\ j <= k
      BY <1>1, <1>3
    <3>2. \A i \in K : i <= j => i <= k
      BY <1>1, <3>1
    <3>3. QED  BY <3>2
  <2>2. upto(k) = upto(j)
    BY <1>2, <1>3, <2>1, FS_Subset
  <2>3. k \in upto(j)
    BY <1>2, <2>2
  <2>4. QED  BY <1>1, <1>3, <2>3
<1>4. rank \in Injection(K, 1..n)
  <2>1. rank \in [K -> 1..n]
    BY <1>2
  <2>2. ASSUME NEW j \in K, NEW k \in K, rank[j] = rank[k] PROVE j = k
    <3>1. j <= k \/ k <= j
      BY <1>1
    <3>2. QED  BY <1>3, <2>2, <3>1
  <2>3. QED  BY <2>1, <2>2 DEF Injection, IsInjective
<1>5. rank \in Surjection(K, 1..n)
  <2>1. IsFiniteSet(1..n) /\ Cardinality(1..n) = n
    BY <1>1, FS_Interval
  <2>2. QED  BY <1>4, <2>1, FS_Injection
<1>6. ASSUME NEW m \in 1..n PROVE nth[m] \in K /\ Cardinality(upto(nth[m])) = m
  <2>1. \E k \in K : rank[k] = m
    BY <1>5 DEF Surjection
  <2>2. \E k \in K : Cardinality(upto(k)) = m
    BY <2>1
  <2>3. QED  BY <2>2
<1>7. ASSUME NEW k \in K PROVE Cardinality(upto(k)) \in 1..n /\ nth[Cardinality(upto(k))] = k
  <2> DEFINE j == nth[Cardinality(upto(k))]
  <2>1. j \in K /\ Cardinality(upto(j)) = Cardinality(upto(k))
    BY <1>2, <1>6
  <2>2. rank[j] = rank[k]
    BY <2>1
  <2>3. QED  BY <1>2, <1>4, <2>1, <2>2 DEF Injection, IsInjective
<1> HIDE DEF nth
<1>8. \A l, m \in 1..n : nth[l] = nth[m] => l = m
  <2> SUFFICES ASSUME NEW l \in 1..n, NEW m \in 1..n, nth[l] = nth[m] PROVE l = m
    OBVIOUS
  <2>1. Cardinality(upto(nth[l])) = l /\ Cardinality(upto(nth[m])) = m
    BY <1>6
  <2>2. QED  BY <2>1
<1>9. \A m \in 1..n : nth[m] \in K
  BY <1>6
<1>10. \A k \in K : \E m \in 1..n : nth[m] = k
  BY <1>7
<1>11. QED  BY <1>1, <1>8, <1>9, <1>10 DEF nth

\* new lists the members of list at the positions in K, found by pos.
TakesFrom(new, A, list, K, n, pos) ==
  /\ n \in Nat /\ DOMAIN new = 1..n /\ new \in Seq(A)
  /\ \A m \in 1..n : pos[m] \in K /\ new[m] = list[pos[m]]
  /\ \A l, m \in 1..n : pos[l] = pos[m] => l = m
  /\ \A k \in K : \E m \in 1..n : pos[m] = k

LEMMA InTheirOrder ==
  ASSUME NEW A, NEW list \in Seq(A), NEW K, K \subseteq DOMAIN list
  PROVE  \E n, pos : TakesFrom(inOrder(list, K), A, list, K, n, pos)
<1> DEFINE n   == Cardinality(K)
           nth == [m \in 1..n |-> CHOOSE k \in K : Cardinality({j \in K : j <= k}) = m]
<1>1. Len(list) \in Nat /\ DOMAIN list = 1..Len(list) /\ \A k \in DOMAIN list : list[k] \in A
  OBVIOUS
<1>2. IsFiniteSet(K) /\ K \subseteq Nat
  <2>1. IsFiniteSet(DOMAIN list)
    BY <1>1, FS_Interval
  <2>2. QED  BY <1>1, <2>1, FS_Subset
<1>3. /\ n \in Nat
      /\ \A m \in 1..n : nth[m] \in K
      /\ \A l, m \in 1..n : nth[l] = nth[m] => l = m
      /\ \A k \in K : \E m \in 1..n : nth[m] = k
  BY <1>2, RankedSet
<1>4. inOrder(list, K) = [m \in 1..n |-> list[nth[m]]]
  BY DEF inOrder
<1> HIDE DEF nth, n
<1>5. \A m \in 1..n : list[nth[m]] \in A
  BY <1>1, <1>3
<1>6. inOrder(list, K) \in Seq(A) /\ DOMAIN inOrder(list, K) = 1..n
  BY <1>3, <1>4, <1>5
<1>7. \A m \in 1..n : inOrder(list, K)[m] = list[nth[m]]
  BY <1>4
<1>8. TakesFrom(inOrder(list, K), A, list, K, n, nth)
  BY <1>3, <1>6, <1>7 DEF TakesFrom
<1>9. QED  BY <1>8

LEMMA QuotientInt == ASSUME NEW x \in Int, NEW y \in Nat \ {0} PROVE x \div y \in Int
BY Z3

LEMMA QuotientNat == ASSUME NEW x \in Nat, NEW y \in Nat \ {0} PROVE x \div y \in Nat
BY Z3

\* The division theorem, in the form the provers use it in.
LEMMA QuotientBounds ==
  ASSUME NEW x \in Int, NEW y \in Nat \ {0}
  PROVE  y * (x \div y) <= x /\ x < y * (x \div y) + y
BY Z3

LEMMA QuotientMonotone ==
  ASSUME NEW x \in Int, NEW z \in Int, x <= z, NEW y \in Nat \ {0}
  PROVE  x \div y <= z \div y
<1> DEFINE p == x \div y
           q == z \div y
<1>1. p \in Int /\ q \in Int
  BY QuotientInt
<1>2. y * p <= x /\ z < y * q + y
  BY QuotientBounds
<1> HIDE DEF p, q
<1>3. y * p < y * (q + 1)
  BY <1>1, <1>2, Z3
<1>4. p < q + 1
  BY <1>1, <1>3, Z3
<1>5. QED  BY <1>1, <1>4 DEF p, q

LEMMA ProductMonotone ==
  ASSUME NEW x \in Nat, NEW z \in Nat, x <= z, NEW y \in Nat
  PROVE  x * y \in Nat /\ z * y \in Nat /\ x * y <= z * y
BY Z3

LEMMA SumScale ==
  ASSUME NEW S, IsFiniteSet(S), NEW f, NEW g, NEW c \in Int, \A x \in S : f[x] \in Int /\ g[x] = c * f[x]
  PROVE  SumFunctionOnSet(g, S) = c * SumFunctionOnSet(f, S)
<1> DEFINE F(V) == SumFunctionOnSet(f, V)
           G(V) == SumFunctionOnSet(g, V)
           Bad == {V \in SUBSET S : G(V) # c * F(V)}
<1> SUFFICES ASSUME Bad # {} PROVE FALSE
  OBVIOUS
<1>1. PICK V \in Bad : \A W \in Bad : ~(W \subseteq V /\ W # V)
  <2>1. Bad \subseteq SUBSET S
    OBVIOUS
  <2> HIDE DEF Bad
  <2>2. QED  BY <2>1, SmallestSet
<1>2. V # {}
  <2>1. F({}) = 0 /\ G({}) = 0
    BY SumEmpty
  <2>2. G(V) # c * F(V) /\ c * 0 = 0
    BY <1>1
  <2> HIDE DEF F, G, Bad
  <2>3. QED  BY <2>1, <2>2
<1>3. PICK x : x \in V
  BY <1>2
<1> DEFINE W == V \ {x}
<1>4. IsFiniteSet(V) /\ IsFiniteSet(W) /\ W \in SUBSET S /\ W \subseteq V /\ W # V
  BY <1>3, FS_Subset
<1>5. F(V) = f[x] + F(W)
  BY <1>3, <1>4, SumRemove
<1>6. G(V) = g[x] + G(W)
  <2>1. \A y \in V : g[y] \in Int
    <3>1. ASSUME NEW y \in V PROVE g[y] \in Int
      <4>1. PICK z \in Int : z = f[y]
        OBVIOUS
      <4>2. c * z \in Int /\ g[y] = c * z
        BY <4>1
      <4>3. QED  BY <4>2
    <3>2. QED  BY <3>1
  <2>2. QED  BY <1>3, <1>4, <2>1, SumRemove
<1>7. G(W) = c * F(W)
  BY <1>1, <1>4
<1>8. F(W) \in Int
  BY <1>4, SumInt
<1>9. f[x] \in Int /\ g[x] = c * f[x] /\ G(V) # c * F(V)
  BY <1>1, <1>3
<1>10. PICK y \in Int, w \in Int : y = f[x] /\ w = F(W)
  BY <1>8, <1>9
<1> HIDE DEF F, G, W, Bad
<1>11. c * (y + w) = c * y + c * w
  BY Z3
<1>12. QED  BY <1>5, <1>6, <1>7, <1>9, <1>10, <1>11

LEMMA SumOnes ==
  ASSUME NEW S, IsFiniteSet(S), NEW f, \A x \in S : f[x] = 1
  PROVE  SumFunctionOnSet(f, S) = Cardinality(S)
<1> DEFINE F(V) == SumFunctionOnSet(f, V)
           Bad == {V \in SUBSET S : F(V) # Cardinality(V)}
<1> SUFFICES ASSUME Bad # {} PROVE FALSE
  OBVIOUS
<1>1. PICK V \in Bad : \A W \in Bad : ~(W \subseteq V /\ W # V)
  <2>1. Bad \subseteq SUBSET S
    OBVIOUS
  <2> HIDE DEF Bad
  <2>2. QED  BY <2>1, SmallestSet
<1>2. V # {}
  <2>1. F({}) = 0 /\ Cardinality({}) = 0
    BY SumEmpty, FS_EmptySet
  <2>2. F(V) # Cardinality(V)
    BY <1>1
  <2> HIDE DEF F, Bad
  <2>3. QED  BY <2>1, <2>2
<1>3. PICK x : x \in V
  BY <1>2
<1> DEFINE W == V \ {x}
<1>4. IsFiniteSet(V) /\ IsFiniteSet(W) /\ W \in SUBSET S /\ W \subseteq V /\ W # V
  BY <1>3, FS_Subset
<1>5. F(V) = 1 + F(W)
  <2>1. \A y \in V : f[y] \in Int /\ f[y] = 1
    OBVIOUS
  <2>2. QED  BY <1>3, <1>4, <2>1, SumRemove
<1>6. Cardinality(W) = Cardinality(V) - 1 /\ Cardinality(V) \in Nat
  BY <1>3, <1>4, FS_RemoveElement, FS_CardinalityType
<1>7. F(W) = Cardinality(W)
  BY <1>1, <1>4
<1>8. F(V) # Cardinality(V)
  BY <1>1
<1> HIDE DEF F, W, Bad
<1>9. QED  BY <1>5, <1>6, <1>7, <1>8

\* A sum of quotients is the quotient of the sum, to less than a unit each.
LEMMA SharesOfAll ==
  ASSUME NEW S, IsFiniteSet(S), S # {}, NEW a, NEW s, NEW R \in Nat, NEW T \in Nat \ {0},
         \A n \in S : a[n] \in Nat /\ s[n] \in Nat /\ T * s[n] <= R * a[n] /\ R * a[n] < T * s[n] + T,
         SumFunctionOnSet(a, S) = T
  PROVE  SumFunctionOnSet(s, S) <= R /\ R < SumFunctionOnSet(s, S) + Cardinality(S)
<1> DEFINE one == [n \in S |-> 1]
           s1  == [n \in S |-> s[n] + 1]
           Ts  == [n \in S |-> T * s[n]]
           Ts1 == [n \in S |-> T * (s[n] + 1)]
           Ra  == [n \in S |-> R * a[n]]
           Ra1 == [n \in S |-> R * a[n] + 1]
<1>1. ASSUME NEW n \in S
      PROVE  /\ Ts[n] \in Int /\ Ts1[n] \in Int /\ Ra[n] \in Int /\ Ra1[n] \in Int
             /\ Ts[n] <= Ra[n] /\ Ra1[n] <= Ts1[n] /\ Ra1[n] = Ra[n] + one[n] /\ s1[n] = s[n] + one[n]
             /\ Ts[n] = T * s[n] /\ Ts1[n] = T * s1[n] /\ Ra[n] = R * a[n] /\ one[n] = 1
             /\ s[n] \in Int /\ s1[n] \in Int /\ a[n] \in Int
  <2>1. PICK x \in Nat, y \in Nat : x = s[n] /\ y = a[n]
    OBVIOUS
  <2>2. T * x \in Nat /\ R * y \in Nat /\ T * (x + 1) = T * x + T /\ T * (x + 1) \in Nat
    BY Z3
  <2>3. T * x <= R * y /\ R * y < T * x + T
    BY <2>1
  <2>4. R * y + 1 <= T * (x + 1)
    BY <2>2, <2>3
  <2>5. QED  BY <2>1, <2>2, <2>3, <2>4
<1> HIDE DEF one, s1, Ts, Ts1, Ra, Ra1
<1> DEFINE Ss == SumFunctionOnSet(s, S)
           C  == Cardinality(S)
<1>2. SumFunctionOnSet(Ts, S) = T * Ss
  BY <1>1, SumScale
<1>3. SumFunctionOnSet(Ra, S) = R * T
  <2>1. R \in Int /\ \A n \in S : a[n] \in Int /\ Ra[n] = R * a[n]
    BY <1>1
  <2>2. SumFunctionOnSet(Ra, S) = R * SumFunctionOnSet(a, S)
    BY <2>1, SumScale
  <2>3. QED  BY <2>2
<1>4. SumFunctionOnSet(one, S) = C
  BY <1>1, SumOnes
<1>5. SumFunctionOnSet(s1, S) = Ss + C
  <2>1. \A n \in S : s[n] \in Int /\ one[n] \in Int /\ s1[n] = s[n] + one[n]
    BY <1>1
  <2>2. QED  BY <1>4, <2>1, SumPlus
<1>6. SumFunctionOnSet(Ts1, S) = T * (Ss + C)
  <2>1. T \in Int /\ \A n \in S : s1[n] \in Int /\ Ts1[n] = T * s1[n]
    BY <1>1
  <2>2. SumFunctionOnSet(Ts1, S) = T * SumFunctionOnSet(s1, S)
    BY <2>1, SumScale
  <2>3. QED  BY <1>5, <2>2
<1>7. SumFunctionOnSet(Ra1, S) = R * T + C
  <2>1. \A n \in S : Ra[n] \in Int /\ one[n] \in Int /\ Ra1[n] = Ra[n] + one[n]
    BY <1>1
  <2>2. SumFunctionOnSet(Ra1, S) = SumFunctionOnSet(Ra, S) + SumFunctionOnSet(one, S)
    BY <2>1, SumPlus
  <2>3. QED  BY <1>3, <1>4, <2>2
<1>8. SumFunctionOnSet(Ts, S) <= SumFunctionOnSet(Ra, S)
  BY <1>1, SumMonotone
<1>9. SumFunctionOnSet(Ra1, S) <= SumFunctionOnSet(Ts1, S)
  BY <1>1, SumMonotone
<1>10. C \in Nat \ {0}
  BY FS_CardinalityType, FS_EmptySet
<1>11. Ss \in Int
  BY <1>1, SumInt
<1>12. T * Ss <= R * T /\ R * T + C <= T * (Ss + C)
  BY <1>2, <1>3, <1>6, <1>7, <1>8, <1>9
<1> HIDE DEF Ss, C
<1>13. PICK u \in Int, c \in Nat \ {0} : u = Ss /\ c = C
  BY <1>10, <1>11
<1>14. T * u <= R * T /\ R * T + c <= T * (u + c)
  BY <1>12, <1>13
<1>15. u <= R
  <2>1. T * u <= T * R
    BY <1>14, Z3
  <2>2. QED  BY <2>1, Z3
<1>16. R < u + c
  <2>1. T * R < T * (u + c)
    BY <1>14, Z3
  <2>2. QED  BY <2>1, Z3
<1>17. QED  BY <1>13, <1>15, <1>16 DEF Ss, C

LEMMA MinOfTwo == ASSUME NEW x \in Int, NEW y \in Int PROVE Min({x, y}) = IF x <= y THEN x ELSE y
<1> DEFINE m == IF x <= y THEN x ELSE y
<1>1. m \in {x, y} /\ \A z \in {x, y} : m <= z
  OBVIOUS
<1>2. \A w \in {x, y} : (\A z \in {x, y} : w <= z) => w = m
  OBVIOUS
<1> HIDE DEF m
<1>3. Min({x, y}) = m
  BY <1>1, <1>2 DEF Min
<1>4. QED  BY <1>3 DEF m

LEMMA FirstOf ==
  ASSUME NEW n \in Nat, NEW K, K \subseteq 0..n, K # {}
  PROVE  \E k \in K : \A j \in K : k <= j
<1>1. 0 \in Int /\ n \in Int
  OBVIOUS
<1>2. IsFiniteSet(K)
  BY <1>1, FS_Interval, FS_Subset
<1>3. \A k \in K : k \in Nat
  OBVIOUS
<1>4. QED  BY <1>2, <1>3, FirstPosition

\* The middle of an interval, rounded down, leaves both halves shorter.
LEMMA Halfway ==
  ASSUME NEW lo \in Nat, NEW hi \in Nat, lo < hi, NEW mid, mid = (lo + hi) \div 2
  PROVE  mid \in Nat /\ lo <= mid /\ mid < hi
OBVIOUS
=============================================================================
