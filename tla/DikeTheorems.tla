---------------------------- MODULE DikeTheorems ---------------------------
(***************************************************************************)
(* What the other proofs need of sums and of dike_math, for amounts of     *)
(* every size.  SumFunctionOnSet (module Functions) is the sum of f[x]     *)
(* over the members x of a finite set; isqrt ends at the integer square    *)
(* root and the quotes built on it stay within the pool.  The inductions   *)
(* are stated with a set where a library theorem has a predicate, so that  *)
(* the provers can use them: a set of naturals has a least member, and a   *)
(* set of subsets that is closed under adding a member holds the whole set.*)
(***************************************************************************)
EXTENDS DikeMath, FiniteSets, Functions, FiniteSetTheorems, WellFoundedInduction, TLAPS

\* Every nonempty set of naturals has a least member.
LEMMA LeastMember ==
    ASSUME NEW T \in SUBSET Nat, T # {}
    PROVE  \E n \in T : \A m \in T : n <= m
<1>1. PICK n \in T : \A m \in T : <<m, n>> \notin OpToRel(<, Nat)
    BY NatLessThanWellFounded, WFMin, Zenon
<1>2. \A m \in T : ~(m < n)
    BY <1>1 DEF OpToRel
<1> QED BY <1>2

\* Induction over a finite set: if a set of subsets holds every subset all of
\* whose members can be taken out within it, it holds the set itself.
LEMMA BySubsets ==
    ASSUME NEW S, IsFiniteSet(S), NEW W,
           \A U \in SUBSET S : (\A x \in U : U \ {x} \in W) => U \in W
    PROVE  S \in W
<1> DEFINE Bad == {n \in Nat : \E U \in SUBSET S : U \notin W /\ Cardinality(U) = n}
<1>1. SUFFICES ASSUME S \notin W PROVE FALSE
    OBVIOUS
<1>2. Cardinality(S) \in Bad
    BY <1>1, FS_CardinalityType
<1>3. PICK n \in Bad : \A m \in Bad : n <= m
  <2> HIDE DEF Bad
  <2> Bad \in SUBSET Nat BY DEF Bad
  <2> QED BY <1>2, LeastMember
<1>4. PICK U \in SUBSET S : U \notin W /\ Cardinality(U) = n
    BY <1>3
<1>5. PICK x \in U : U \ {x} \notin W
    BY <1>4
<1>6. IsFiniteSet(U) /\ Cardinality(U) \in Nat
    BY FS_Subset, FS_CardinalityType, Zenon
<1>7. Cardinality(U \ {x}) = n - 1
    BY <1>4, <1>6, FS_RemoveElement
<1>8. n - 1 \in Nat
  <2>1. IsFiniteSet(U \ {x})
      BY <1>6, FS_RemoveElement
  <2> QED BY <2>1, <1>7, FS_CardinalityType
<1>9. n - 1 \in Bad
    BY <1>5, <1>7, <1>8
<1> QED BY <1>3, <1>8, <1>9

-----------------------------------------------------------------------------
(* The recursive function behind the sum. *)

First(s) == CHOOSE x \in s : TRUE

Summing(f, D, g) ==
    g = [s \in D |-> IF s = {} THEN 0 ELSE f[First(s)] + g[s \ {First(s)}]]

\* The definition of the sum, with its recursive function named.
LEMMA SumIsRecursive ==
    ASSUME NEW f, NEW S
    PROVE  SumFunctionOnSet(f, S) = (CHOOSE g : Summing(f, SUBSET S, g))[S]
BY DEF SumFunctionOnSet, FoldFunctionOnSet, MapThenFoldSet, Summing, First

\* A nonempty set has its first member.
LEMMA FirstIsMember ==
    ASSUME NEW s, s # {}
    PROVE  First(s) \in s
BY DEF First

\* The recursive function exists for a finite set.
LEMMA SummingExists ==
    ASSUME NEW f, NEW S, IsFiniteSet(S)
    PROVE  \E g : Summing(f, SUBSET S, g)
<1> DEFINE D(n) == {s \in SUBSET S : Cardinality(s) <= n}
           Bad == {n \in Nat : ~ \E g : Summing(f, D(n), g)}
<1>1. \A s \in SUBSET S : IsFiniteSet(s) /\ Cardinality(s) \in Nat
    BY FS_Subset, FS_CardinalityType, Zenon
<1>2. 0 \notin Bad
  <2>1. \A s \in D(0) : s = {}
    <3> SUFFICES ASSUME NEW s \in D(0) PROVE s = {}
        OBVIOUS
    <3>1. IsFiniteSet(s) /\ Cardinality(s) = 0
        BY <1>1
    <3> QED BY <3>1, FS_EmptySet, Zenon
  <2>2. Summing(f, D(0), [s \in D(0) |-> 0])
      BY <2>1 DEF Summing
  <2> QED BY <2>2
<1>3. ASSUME NEW n \in Nat, n \in Bad, n # 0, n - 1 \notin Bad
      PROVE  FALSE
  <2>1. PICK g : Summing(f, D(n - 1), g)
    <3>1. n - 1 \in Nat
        BY <1>3
    <3> HIDE DEF D
    <3> QED BY <1>3, <3>1, Zenon
  <2> DEFINE h == [s \in D(n) |-> IF s = {} THEN 0 ELSE f[First(s)] + g[s \ {First(s)}]]
  <2>2. \A s \in D(n - 1) : s \in D(n) /\ h[s] = g[s]
    <3>1. ASSUME NEW s \in D(n - 1) PROVE s \in D(n)
        BY <1>1
    <3>2. ASSUME NEW s \in D(n - 1) PROVE h[s] = g[s]
      <4>1. g[s] = IF s = {} THEN 0 ELSE f[First(s)] + g[s \ {First(s)}]
          BY <2>1, Zenon DEF Summing
      <4> QED BY <3>1, <4>1, Zenon
    <3> QED BY <3>1, <3>2
  <2>3. ASSUME NEW s \in D(n), s # {}
        PROVE  s \ {First(s)} \in D(n - 1)
    <3>1. First(s) \in s
        BY <2>3, FirstIsMember
    <3>2. Cardinality(s \ {First(s)}) = Cardinality(s) - 1
        BY <1>1, <3>1, FS_RemoveElement
    <3> QED BY <1>1, <3>2
  <2>4. \A s \in D(n) : h[s] = IF s = {} THEN 0 ELSE f[First(s)] + h[s \ {First(s)}]
    <3> SUFFICES ASSUME NEW s \in D(n)
                 PROVE  h[s] = IF s = {} THEN 0 ELSE f[First(s)] + h[s \ {First(s)}]
        OBVIOUS
    <3> HIDE DEF D
    <3>1. CASE s = {} BY <3>1
    <3>2. CASE s # {}
      <4>1. h[s \ {First(s)}] = g[s \ {First(s)}]
          BY <2>2, <2>3, <3>2, Zenon
      <4>2. h[s] = f[First(s)] + g[s \ {First(s)}]
          BY <3>2
      <4> QED BY <3>2, <4>1, <4>2, Zenon
    <3> QED BY <3>1, <3>2
  <2>5. Summing(f, D(n), h)
    <3> HIDE DEF D
    <3>1. h = [s \in D(n) |-> h[s]]
        OBVIOUS
    <3> DEFINE k == [s \in D(n) |-> IF s = {} THEN 0 ELSE f[First(s)] + h[s \ {First(s)}]]
    <3>2. \A s \in D(n) : h[s] = k[s]
        BY <2>4, Zenon
    <3>3. h = k
      <4> HIDE DEF k, h
      <4>1. k = [s \in D(n) |-> k[s]] BY DEF k
      <4> QED BY <3>1, <3>2, <4>1
    <3> QED BY <3>3, Zenon DEF Summing
  <2> QED BY <1>3, <2>5
<1>4. Bad = {}
  <2> SUFFICES ASSUME Bad # {} PROVE FALSE
      OBVIOUS
  <2>1. PICK n \in Bad : \A m \in Bad : n <= m
    <3> HIDE DEF Bad
    <3> Bad \in SUBSET Nat BY DEF Bad
    <3> QED BY LeastMember
  <2> HIDE DEF Bad
  <2>2. n \in Nat BY DEF Bad
  <2>3. n # 0 BY <1>2
  <2>4. n - 1 \notin Bad BY <2>1, <2>2
  <2> QED BY <1>3, <2>2, <2>3, <2>4
<1>5. D(Cardinality(S)) = SUBSET S
  <2>1. \A s \in SUBSET S : Cardinality(s) <= Cardinality(S)
      BY FS_Subset, Zenon
  <2> QED BY <2>1
<1>6. Cardinality(S) \in Nat
    BY FS_CardinalityType
<1> QED
  <2> HIDE DEF D
  <2> QED BY <1>4, <1>5, <1>6

\* Two such functions agree where they are both defined, if what they add does.
LEMMA SummingAgree ==
    ASSUME NEW S, IsFiniteSet(S),
           NEW f1, NEW D1, NEW g1, Summing(f1, D1, g1), SUBSET S \subseteq D1,
           NEW f2, NEW D2, NEW g2, Summing(f2, D2, g2), SUBSET S \subseteq D2,
           \A x \in S : f1[x] = f2[x]
    PROVE  g1[S] = g2[S]
<1> DEFINE W == {U \in SUBSET S : g1[U] = g2[U]}
<1>1. ASSUME NEW U \in SUBSET S, \A x \in U : U \ {x} \in W
      PROVE  U \in W
  <2>1. g1[U] = IF U = {} THEN 0 ELSE f1[First(U)] + g1[U \ {First(U)}]
    <3> U \in D1 OBVIOUS
    <3> QED BY Zenon DEF Summing
  <2>2. g2[U] = IF U = {} THEN 0 ELSE f2[First(U)] + g2[U \ {First(U)}]
    <3> U \in D2 OBVIOUS
    <3> QED BY Zenon DEF Summing
  <2>3. CASE U = {} BY <2>1, <2>2, <2>3
  <2>4. CASE U # {}
    <3>1. First(U) \in U /\ First(U) \in S
        BY <2>4, FirstIsMember
    <3>2. g1[U \ {First(U)}] = g2[U \ {First(U)}] /\ f1[First(U)] = f2[First(U)]
        BY <1>1, <3>1
    <3> QED BY <2>1, <2>2, <2>4, <3>2
  <2> QED BY <2>3, <2>4
<1>2. S \in W
  <2> HIDE DEF W
  <2> QED BY <1>1, BySubsets
<1> QED BY <1>2

-----------------------------------------------------------------------------
(* What a sum is. *)

\* Nothing adds up to nothing.
LEMMA SumEmpty ==
    ASSUME NEW f
    PROVE  SumFunctionOnSet(f, {}) = 0
<1>1. PICK g : Summing(f, SUBSET {}, g)
    BY SummingExists, FS_EmptySet
<1>2. Summing(f, SUBSET {}, CHOOSE h : Summing(f, SUBSET {}, h))
    BY <1>1, Zenon
<1> DEFINE k == CHOOSE h : Summing(f, SUBSET {}, h)
<1> HIDE DEF k
<1>3. Summing(f, SUBSET {}, k) BY <1>2 DEF k
<1>4. k[{}] = 0
    BY <1>3 DEF Summing
<1> QED BY <1>4, SumIsRecursive DEF k

\* The sum depends on the values at the members only.
LEMMA SumSame ==
    ASSUME NEW S, IsFiniteSet(S), NEW f, NEW g, \A x \in S : f[x] = g[x]
    PROVE  SumFunctionOnSet(f, S) = SumFunctionOnSet(g, S)
<1> DEFINE k == CHOOSE h : Summing(f, SUBSET S, h)
           l == CHOOSE h : Summing(g, SUBSET S, h)
<1>1. Summing(f, SUBSET S, k)
    BY SummingExists, Zenon
<1>2. Summing(g, SUBSET S, l)
    BY SummingExists, Zenon
<1> HIDE DEF k, l
<1>3. k[S] = l[S]
  <2>1. SUBSET S \subseteq SUBSET S
      OBVIOUS
  <2> QED BY <1>1, <1>2, <2>1, SummingAgree
<1> QED BY <1>3, SumIsRecursive DEF k, l

\* The sum takes out the chosen member first.
LEMMA SumUnfolds ==
    ASSUME NEW f, NEW S, IsFiniteSet(S), S # {}
    PROVE  SumFunctionOnSet(f, S) = f[First(S)] + SumFunctionOnSet(f, S \ {First(S)})
<1> DEFINE V == S \ {First(S)}
           k == CHOOSE h : Summing(f, SUBSET S, h)
           l == CHOOSE h : Summing(f, SUBSET V, h)
<1>1. Summing(f, SUBSET S, k)
    BY SummingExists, Zenon
<1>2. IsFiniteSet(V)
    BY FS_RemoveElement
<1>3. Summing(f, SUBSET V, l)
  <2> HIDE DEF V
  <2> QED BY <1>2, SummingExists, Zenon
<1> HIDE DEF k, l
<1>4. k[V] = l[V]
  <2>1. SUBSET V \subseteq SUBSET S /\ SUBSET V \subseteq SUBSET V
      OBVIOUS
  <2> HIDE DEF V
  <2> QED BY <1>1, <1>2, <1>3, <2>1, SummingAgree
<1>5. k[S] = f[First(S)] + k[V]
  <2> S \in SUBSET S OBVIOUS
  <2> QED BY <1>1, Zenon DEF Summing
<1>6. SumFunctionOnSet(f, S) = k[S] BY SumIsRecursive DEF k
<1>7. SumFunctionOnSet(f, V) = l[V] BY SumIsRecursive DEF l
<1> QED BY <1>4, <1>5, <1>6, <1>7

\* A sum of integers is an integer.
LEMMA SumInt ==
    ASSUME NEW S, IsFiniteSet(S), NEW f, \A x \in S : f[x] \in Int
    PROVE  SumFunctionOnSet(f, S) \in Int
<1> DEFINE W == {U \in SUBSET S : SumFunctionOnSet(f, U) \in Int}
<1>1. ASSUME NEW U \in SUBSET S, \A x \in U : U \ {x} \in W
      PROVE  U \in W
  <2>1. CASE U = {} BY <2>1, SumEmpty
  <2>2. CASE U # {}
    <3>1. First(U) \in U BY <2>2, FirstIsMember
    <3>2. IsFiniteSet(U) BY FS_Subset
    <3>3. SumFunctionOnSet(f, U) = f[First(U)] + SumFunctionOnSet(f, U \ {First(U)})
        BY <2>2, <3>2, SumUnfolds
    <3>4. f[First(U)] \in Int /\ SumFunctionOnSet(f, U \ {First(U)}) \in Int
        BY <1>1, <3>1
    <3>5. SumFunctionOnSet(f, U) \in Int
        BY <3>3, <3>4
    <3> QED BY <3>5
  <2> QED BY <2>1, <2>2
<1>2. S \in W
  <2> HIDE DEF W
  <2> QED BY <1>1, BySubsets
<1> QED BY <1>2

\* Any member can be taken out first.
LEMMA SumTake ==
    ASSUME NEW S, IsFiniteSet(S), NEW f, \A x \in S : f[x] \in Int, NEW y \in S
    PROVE  SumFunctionOnSet(f, S) = f[y] + SumFunctionOnSet(f, S \ {y})
<1> DEFINE W == {U \in SUBSET S : \A z \in U :
                   SumFunctionOnSet(f, U) = f[z] + SumFunctionOnSet(f, U \ {z})}
<1>0. \A U \in SUBSET S : IsFiniteSet(U) /\ SumFunctionOnSet(f, U) \in Int
  <2> SUFFICES ASSUME NEW U \in SUBSET S
               PROVE  IsFiniteSet(U) /\ SumFunctionOnSet(f, U) \in Int
      OBVIOUS
  <2>1. IsFiniteSet(U) BY FS_Subset
  <2> QED BY <2>1, SumInt
<1>1. ASSUME NEW U \in SUBSET S, \A x \in U : U \ {x} \in W
      PROVE  U \in W
  <2>1. SUFFICES ASSUME NEW z \in U
                 PROVE  SumFunctionOnSet(f, U) = f[z] + SumFunctionOnSet(f, U \ {z})
      BY <1>1
  <2> DEFINE x == First(U)
  <2>2. x \in U BY FirstIsMember
  <2>3. SumFunctionOnSet(f, U) = f[x] + SumFunctionOnSet(f, U \ {x})
      BY <1>0, SumUnfolds
  <2>4. CASE z = x BY <2>3, <2>4
  <2>5. CASE z # x
    <3> HIDE DEF x
    <3>1. SumFunctionOnSet(f, U \ {x}) = f[z] + SumFunctionOnSet(f, (U \ {x}) \ {z})
        BY <1>1, <2>1, <2>2, <2>5
    <3>2. SumFunctionOnSet(f, U \ {z}) = f[x] + SumFunctionOnSet(f, (U \ {z}) \ {x})
        BY <1>1, <2>1, <2>2, <2>5
    <3>3. (U \ {x}) \ {z} = (U \ {z}) \ {x}
        OBVIOUS
    <3>4. SumFunctionOnSet(f, (U \ {x}) \ {z}) \in Int /\ f[x] \in Int /\ f[z] \in Int
        BY <1>0, <2>1, <2>2
    <3>5. \A a, b, c \in Int : a + (b + c) = b + (a + c)
        OBVIOUS
    <3>6. f[x] + (f[z] + SumFunctionOnSet(f, (U \ {x}) \ {z}))
            = f[z] + (f[x] + SumFunctionOnSet(f, (U \ {x}) \ {z}))
        BY <3>4, <3>5
    <3> QED BY <2>3, <3>1, <3>2, <3>3, <3>6, Zenon
  <2> QED BY <2>4, <2>5
<1>2. S \in W
  <2> HIDE DEF W
  <2> QED BY <1>1, BySubsets
<1> QED BY <1>2

\* A member more.
LEMMA SumAdd ==
    ASSUME NEW S, IsFiniteSet(S), NEW f, NEW y, y \notin S, \A x \in S \cup {y} : f[x] \in Int
    PROVE  /\ IsFiniteSet(S \cup {y})
           /\ SumFunctionOnSet(f, S \cup {y}) = SumFunctionOnSet(f, S) + f[y]
<1> DEFINE V == S \cup {y}
<1>1. IsFiniteSet(V)
    BY FS_AddElement
<1>2. V \ {y} = S
    OBVIOUS
<1>3. \A x \in V : f[x] \in Int
    OBVIOUS
<1>4. y \in V
    OBVIOUS
<1>5. SumFunctionOnSet(f, V) = f[y] + SumFunctionOnSet(f, V \ {y})
  <2> HIDE DEF V
  <2> QED BY <1>1, <1>3, <1>4, SumTake
<1>6. SumFunctionOnSet(f, S) \in Int /\ f[y] \in Int
    BY SumInt
<1>7. SumFunctionOnSet(f, V) = f[y] + SumFunctionOnSet(f, S)
    BY <1>2, <1>5, Zenon
<1>8. \A a, b \in Int : a + b = b + a
    OBVIOUS
<1> QED BY <1>1, <1>6, <1>7, <1>8, Zenon

\* When one term changes, the sum changes by the difference.
LEMMA SumChange ==
    ASSUME NEW S, IsFiniteSet(S), NEW f, NEW g, NEW y \in S,
           \A x \in S : f[x] \in Int /\ g[x] \in Int,
           \A x \in S \ {y} : g[x] = f[x]
    PROVE  SumFunctionOnSet(g, S) = SumFunctionOnSet(f, S) + (g[y] - f[y])
<1>1. SumFunctionOnSet(f, S) = f[y] + SumFunctionOnSet(f, S \ {y})
    BY SumTake
<1>2. SumFunctionOnSet(g, S) = g[y] + SumFunctionOnSet(g, S \ {y})
    BY SumTake
<1>3. IsFiniteSet(S \ {y})
    BY FS_RemoveElement
<1>4. SumFunctionOnSet(f, S \ {y}) = SumFunctionOnSet(g, S \ {y})
  <2> DEFINE V == S \ {y}
  <2>1. \A x \in V : f[x] = g[x] OBVIOUS
  <2> HIDE DEF V
  <2>2. SumFunctionOnSet(f, V) = SumFunctionOnSet(g, V)
      BY <1>3, <2>1, SumSame DEF V
  <2> QED BY <2>2 DEF V
<1>5. SumFunctionOnSet(f, S \ {y}) \in Int
  <2> DEFINE V == S \ {y}
  <2>1. \A x \in V : f[x] \in Int OBVIOUS
  <2> HIDE DEF V
  <2>2. SumFunctionOnSet(f, V) \in Int BY <1>3, <2>1, SumInt DEF V
  <2> QED BY <2>2 DEF V
<1>6. \A a, b, c \in Int : b + c = (a + c) + (b - a)
    OBVIOUS
<1>7. f[y] \in Int /\ g[y] \in Int
    OBVIOUS
<1> QED BY <1>1, <1>2, <1>4, <1>5, <1>6, <1>7

\* Smaller terms have the smaller sum.
LEMMA SumMonotone ==
    ASSUME NEW S, IsFiniteSet(S), NEW f, NEW g,
           \A x \in S : f[x] \in Int /\ g[x] \in Int /\ f[x] <= g[x]
    PROVE  SumFunctionOnSet(f, S) <= SumFunctionOnSet(g, S)
<1> DEFINE W == {U \in SUBSET S : SumFunctionOnSet(f, U) <= SumFunctionOnSet(g, U)}
<1>1. ASSUME NEW U \in SUBSET S, \A x \in U : U \ {x} \in W
      PROVE  U \in W
  <2>1. CASE U = {} BY <2>1, SumEmpty
  <2>2. CASE U # {}
    <3> DEFINE x == First(U)
               V == U \ {x}
    <3>1. x \in U BY <2>2, FirstIsMember
    <3>2. IsFiniteSet(U) /\ IsFiniteSet(V)
      <4>1. IsFiniteSet(U) BY FS_Subset
      <4> QED BY <4>1, FS_RemoveElement
    <3>3. /\ SumFunctionOnSet(f, U) = f[x] + SumFunctionOnSet(f, V)
          /\ SumFunctionOnSet(g, U) = g[x] + SumFunctionOnSet(g, V)
        BY <2>2, <3>2, SumUnfolds
    <3>4. SumFunctionOnSet(f, V) <= SumFunctionOnSet(g, V)
        BY <1>1, <3>1
    <3>5. \A z \in V : f[z] \in Int /\ g[z] \in Int
        OBVIOUS
    <3>6. SumFunctionOnSet(f, V) \in Int /\ SumFunctionOnSet(g, V) \in Int
      <4> HIDE DEF V, x
      <4> QED BY <3>2, <3>5, SumInt
    <3>7. f[x] \in Int /\ g[x] \in Int /\ f[x] <= g[x]
        BY <3>1
    <3> HIDE DEF V, x
    <3>8. SumFunctionOnSet(f, U) <= SumFunctionOnSet(g, U)
        BY <3>3, <3>4, <3>6, <3>7
    <3> QED BY <3>8
  <2> QED BY <2>1, <2>2
<1>2. S \in W
  <2> HIDE DEF W
  <2> QED BY <1>1, BySubsets
<1> QED BY <1>2

\* Zeros add up to nothing.
LEMMA SumZeros ==
    ASSUME NEW S, IsFiniteSet(S), NEW f, \A x \in S : f[x] = 0
    PROVE  SumFunctionOnSet(f, S) = 0
<1> DEFINE W == {U \in SUBSET S : SumFunctionOnSet(f, U) = 0}
<1>1. ASSUME NEW U \in SUBSET S, \A x \in U : U \ {x} \in W
      PROVE  U \in W
  <2>1. CASE U = {} BY <2>1, SumEmpty
  <2>2. CASE U # {}
    <3>1. First(U) \in U BY <2>2, FirstIsMember
    <3>2. IsFiniteSet(U) BY FS_Subset
    <3>3. SumFunctionOnSet(f, U) = f[First(U)] + SumFunctionOnSet(f, U \ {First(U)})
        BY <2>2, <3>2, SumUnfolds
    <3>4. f[First(U)] = 0 /\ SumFunctionOnSet(f, U \ {First(U)}) = 0
        BY <1>1, <3>1
    <3>5. SumFunctionOnSet(f, U) = 0
        BY <3>3, <3>4
    <3> QED BY <3>5
  <2> QED BY <2>1, <2>2
<1>2. S \in W
  <2> HIDE DEF W
  <2> QED BY <1>1, BySubsets
<1> QED BY <1>2

\* A sum of naturals is a natural, and no term exceeds it.
LEMMA SumNat ==
    ASSUME NEW S, IsFiniteSet(S), NEW f, \A x \in S : f[x] \in Nat
    PROVE  /\ SumFunctionOnSet(f, S) \in Nat
           /\ \A y \in S : f[y] <= SumFunctionOnSet(f, S)
<1> DEFINE zero == [x \in S |-> 0]
<1>1. ASSUME NEW U \in SUBSET S
      PROVE  SumFunctionOnSet(f, U) \in Nat
  <2>1. IsFiniteSet(U) BY FS_Subset
  <2>2. SumFunctionOnSet(zero, U) = 0
      BY <2>1, SumZeros
  <2>3. \A x \in U : zero[x] \in Int /\ f[x] \in Int /\ zero[x] <= f[x]
      OBVIOUS
  <2> HIDE DEF zero
  <2>4. SumFunctionOnSet(zero, U) <= SumFunctionOnSet(f, U)
      BY <2>1, <2>3, SumMonotone
  <2>5. SumFunctionOnSet(f, U) \in Int
      BY <2>1, <2>3, SumInt
  <2> QED BY <2>2, <2>4, <2>5
<1>2. ASSUME NEW y \in S
      PROVE  f[y] <= SumFunctionOnSet(f, S)
  <2>1. SumFunctionOnSet(f, S) = f[y] + SumFunctionOnSet(f, S \ {y})
      BY SumTake
  <2>2. SumFunctionOnSet(f, S \ {y}) \in Nat
      BY <1>1
  <2>3. f[y] \in Nat OBVIOUS
  <2> QED BY <2>1, <2>2, <2>3
<1> QED BY <1>1, <1>2

\* A multiple of one sum added to another.
LEMMA SumLinear ==
    ASSUME NEW S, IsFiniteSet(S), NEW f, NEW g, NEW h, NEW d \in Int,
           \A x \in S : f[x] \in Int /\ g[x] \in Int /\ h[x] = f[x] + d * g[x]
    PROVE  SumFunctionOnSet(h, S) = SumFunctionOnSet(f, S) + d * SumFunctionOnSet(g, S)
<1> DEFINE W == {U \in SUBSET S :
                   SumFunctionOnSet(h, U) = SumFunctionOnSet(f, U) + d * SumFunctionOnSet(g, U)}
<1>1. ASSUME NEW U \in SUBSET S, \A x \in U : U \ {x} \in W
      PROVE  U \in W
  <2>1. CASE U = {} BY <2>1, SumEmpty
  <2>2. CASE U # {}
    <3> DEFINE x == First(U)
               V == U \ {x}
    <3>1. x \in U BY <2>2, FirstIsMember
    <3>2. IsFiniteSet(U) /\ IsFiniteSet(V)
      <4>1. IsFiniteSet(U) BY FS_Subset
      <4> QED BY <4>1, FS_RemoveElement
    <3>3. /\ SumFunctionOnSet(f, U) = f[x] + SumFunctionOnSet(f, V)
          /\ SumFunctionOnSet(g, U) = g[x] + SumFunctionOnSet(g, V)
          /\ SumFunctionOnSet(h, U) = h[x] + SumFunctionOnSet(h, V)
        BY <2>2, <3>2, SumUnfolds
    <3>4. SumFunctionOnSet(h, V) = SumFunctionOnSet(f, V) + d * SumFunctionOnSet(g, V)
        BY <1>1, <3>1
    <3>5. \A z \in V : f[z] \in Int /\ g[z] \in Int
        OBVIOUS
    <3>6. SumFunctionOnSet(f, V) \in Int /\ SumFunctionOnSet(g, V) \in Int
      <4> HIDE DEF V, x
      <4> QED BY <3>2, <3>5, SumInt
    <3>7. f[x] \in Int /\ g[x] \in Int /\ h[x] = f[x] + d * g[x]
        BY <3>1
    <3>8. \A a, b, r, t \in Int : (a + d * b) + (r + d * t) = (a + r) + d * (b + t)
        OBVIOUS
    <3> HIDE DEF V, x
    <3>9. (f[x] + d * g[x]) + (SumFunctionOnSet(f, V) + d * SumFunctionOnSet(g, V))
            = (f[x] + SumFunctionOnSet(f, V)) + d * (g[x] + SumFunctionOnSet(g, V))
        BY <3>6, <3>7, <3>8
    <3>10. SumFunctionOnSet(h, U) = SumFunctionOnSet(f, U) + d * SumFunctionOnSet(g, U)
        BY <3>3, <3>4, <3>7, <3>9, Zenon
    <3> QED BY <3>10
  <2> QED BY <2>1, <2>2
<1>2. S \in W
  <2> HIDE DEF W
  <2> QED BY <1>1, BySubsets
<1> QED BY <1>2

-----------------------------------------------------------------------------
(* Division and products. *)

\* A quotient is the largest number of divisors that fit.
LEMMA DivBounds ==
    ASSUME NEW a \in Int, NEW b \in Nat, b # 0
    PROVE  /\ a \div b \in Int
           /\ (a \div b) * b <= a
           /\ a < (a \div b + 1) * b
OBVIOUS

\* Half of a number.
LEMMA HalfBounds ==
    ASSUME NEW a \in Int
    PROVE  /\ a \div 2 \in Int
           /\ 2 * (a \div 2) <= a
           /\ a <= 2 * (a \div 2) + 1
OBVIOUS

\* The order of products of nonnegative factors.
LEMMA ProductMonotone ==
    ASSUME NEW a \in Int, NEW b \in Int, NEW c \in Int, NEW d \in Int,
           0 <= a, a <= b, 0 <= c, c <= d
    PROVE  a * c <= b * d
OBVIOUS

\* The order of nonnegative numbers is that of their squares.
LEMMA SquareOrder ==
    ASSUME NEW a \in Int, NEW b \in Int, 0 <= a, 0 <= b, a * a <= b * b
    PROVE  a <= b
OBVIOUS

\* Four times a product is at most the square of the sum.
LEMMA MeanProduct ==
    ASSUME NEW a \in Int, NEW b \in Int
    PROVE  4 * (a * b) <= (a + b) * (a + b)
<1>1. 0 <= (a - b) * (a - b)
    OBVIOUS
<1>2. (a + b) * (a + b) = (a - b) * (a - b) + 4 * (a * b)
    OBVIOUS
<1> QED BY <1>1, <1>2

-----------------------------------------------------------------------------
(* The iteration behind isqrt. *)

Better(n, x) == (x + n \div x) \div 2

Iterates(n, D, f) ==
    f = [x \in D |-> IF Better(n, x) < x THEN f[Better(n, x)] ELSE x]

\* isqrt with its recursive function named.
LEMMA IsqrtIterates ==
    ASSUME NEW n
    PROVE  isqrt(n) = IF n < 2 THEN n ELSE (CHOOSE f : Iterates(n, 1 .. n, f))[n]
BY DEF isqrt, Iterates, Better

\* A step of the iteration is half of a value and a positive quotient.
LEMMA BetterHalves ==
    ASSUME NEW n \in Nat, NEW x \in 1 .. n
    PROVE  \E q \in Nat :
             /\ q >= 1 /\ q * x <= n /\ n < (q + 1) * x
             /\ Better(n, x) \in Nat /\ Better(n, x) >= 1
             /\ 2 * Better(n, x) <= x + q /\ x + q <= 2 * Better(n, x) + 1
<1> DEFINE q == n \div x
           y == Better(n, x)
<1>1. q \in Int /\ q * x <= n /\ n < (q + 1) * x
    BY DivBounds
<1>2. q >= 1
  <2>1. SUFFICES ASSUME q <= 0 PROVE FALSE
      BY <1>1
  <2> HIDE DEF q
  <2>2. (q + 1) * x <= 1 * x
      BY <1>1, <2>1
  <2> QED BY <1>1, <2>2
<1>3. y \in Int /\ 2 * y <= x + q /\ x + q <= 2 * y + 1
  <2>1. y = (x + q) \div 2
      BY DEF Better
  <2> HIDE DEF q, y
  <2> QED BY <1>1, <2>1, HalfBounds
<1> HIDE DEF q
<1>4. q \in Nat /\ y \in Nat /\ y >= 1
  <2> HIDE DEF y
  <2> QED BY <1>1, <1>2, <1>3
<1> QED BY <1>1, <1>2, <1>3, <1>4

\* A step from above the root ends no lower than the root, and does not
\* decrease only at the root.
LEMMA BetterBounds ==
    ASSUME NEW n \in Nat, NEW x \in 1 .. n, n < (x + 1) * (x + 1)
    PROVE  /\ Better(n, x) \in Nat
           /\ Better(n, x) >= 1
           /\ n < (Better(n, x) + 1) * (Better(n, x) + 1)
           /\ Better(n, x) >= x => x * x <= n
<1> DEFINE y == Better(n, x)
<1>1. PICK q \in Nat :
             /\ q >= 1 /\ q * x <= n /\ n < (q + 1) * x
             /\ y \in Nat /\ y >= 1
             /\ 2 * y <= x + q /\ x + q <= 2 * y + 1
    BY BetterHalves
<1> HIDE DEF y
<1>2. n < (y + 1) * (y + 1)
  <2> DEFINE s == x + (q + 1)
             t == 2 * (y + 1)
  <2>1. s \in Int /\ t \in Int /\ 0 <= s /\ s <= t
      BY <1>1
  <2>2. 4 * (x * (q + 1)) <= s * s
      BY <1>1, MeanProduct
  <2>3. s * s <= t * t
    <3> HIDE DEF s, t
    <3> QED BY <2>1, ProductMonotone
  <2>4. t * t = 4 * ((y + 1) * (y + 1))
      BY <1>1
  <2>5. (y + 1) * (y + 1) \in Int /\ x * (q + 1) \in Int /\ s * s \in Int /\ x * (q + 1) = (q + 1) * x
      BY <1>1, <2>1
  <2> HIDE DEF s, t
  <2> QED BY <1>1, <2>2, <2>3, <2>4, <2>5
<1>3. ASSUME y >= x PROVE x * x <= n
  <2>1. x <= q
      BY <1>1, <1>3
  <2>2. x * x <= q * x
      BY <1>1, <2>1, ProductMonotone
  <2> QED BY <1>1, <2>2
<1> QED BY <1>1, <1>2, <1>3 DEF y

\* The recursive function exists: a value calls it only at a smaller one.
LEMMA IterationExists ==
    ASSUME NEW n \in Nat
    PROVE  \E f : Iterates(n, 1 .. n, f)
<1> DEFINE Bad == {k \in 0 .. n : ~ \E f : Iterates(n, 1 .. k, f)}
<1>1. 0 \notin Bad
  <2>1. Iterates(n, 1 .. 0, [x \in 1 .. 0 |-> 0])
      BY DEF Iterates
  <2> QED BY <2>1
<1>2. ASSUME NEW k \in 1 .. n, k - 1 \notin Bad
      PROVE  k \notin Bad
  <2>1. PICK g : Iterates(n, 1 .. (k - 1), g)
    <3>1. k - 1 \in 0 .. n
        BY <1>2
    <3> QED BY <1>2, <3>1, Zenon
  <2> DEFINE h == [x \in 1 .. k |-> IF Better(n, x) < x THEN g[Better(n, x)] ELSE x]
  <2>2. \A x \in 1 .. (k - 1) : x \in 1 .. k /\ h[x] = g[x]
    <3> SUFFICES ASSUME NEW x \in 1 .. (k - 1) PROVE x \in 1 .. k /\ h[x] = g[x]
        OBVIOUS
    <3>1. x \in 1 .. k
        OBVIOUS
    <3>2. g[x] = IF Better(n, x) < x THEN g[Better(n, x)] ELSE x
        BY <2>1, Zenon DEF Iterates
    <3> QED BY <3>1, <3>2, Zenon
  <2>3. \A x \in 1 .. k : Better(n, x) < x => Better(n, x) \in 1 .. (k - 1)
    <3> SUFFICES ASSUME NEW x \in 1 .. k, Better(n, x) < x
                 PROVE  Better(n, x) \in 1 .. (k - 1)
        OBVIOUS
    <3>1. x \in 1 .. n
        OBVIOUS
    <3>2. Better(n, x) \in Nat /\ Better(n, x) >= 1
        BY <3>1, BetterHalves
    <3> QED BY <3>2
  <2>4. \A x \in 1 .. k : h[x] = IF Better(n, x) < x THEN h[Better(n, x)] ELSE x
    <3> SUFFICES ASSUME NEW x \in 1 .. k
                 PROVE  h[x] = IF Better(n, x) < x THEN h[Better(n, x)] ELSE x
        OBVIOUS
    <3>1. h[x] = IF Better(n, x) < x THEN g[Better(n, x)] ELSE x
        BY Zenon
    <3> HIDE DEF h
    <3> QED BY <2>2, <2>3, <3>1, Zenon
  <2>5. Iterates(n, 1 .. k, h)
    <3> DEFINE j == [x \in 1 .. k |-> IF Better(n, x) < x THEN h[Better(n, x)] ELSE x]
    <3>1. h = [x \in 1 .. k |-> h[x]]
        OBVIOUS
    <3>2. \A x \in 1 .. k : h[x] = j[x]
        BY <2>4, Zenon
    <3>3. h = j
      <4> HIDE DEF h, j
      <4>1. j = [x \in 1 .. k |-> j[x]]
          BY DEF j
      <4> QED BY <3>1, <3>2, <4>1
    <3> QED BY <3>3, Zenon DEF Iterates
  <2> HIDE DEF h
  <2> QED BY <2>5, Zenon
<1> HIDE DEF Bad
<1>3. Bad = {}
  <2> SUFFICES ASSUME Bad # {} PROVE FALSE
      OBVIOUS
  <2>1. Bad \in SUBSET Nat /\ Bad \subseteq 0 .. n
      BY DEF Bad
  <2>2. PICK k \in Bad : \A m \in Bad : k <= m
      BY <2>1, LeastMember
  <2>3. k \in 1 .. n /\ k - 1 \notin Bad
      BY <1>1, <2>1, <2>2
  <2> QED BY <1>2, <2>2, <2>3
<1> QED BY <1>3 DEF Bad

\* From any value above the root the iteration ends at the root.
LEMMA IterationEnds ==
    ASSUME NEW n \in Nat, NEW f, Iterates(n, 1 .. n, f),
           NEW x \in 1 .. n, n < (x + 1) * (x + 1)
    PROVE  f[x] \in Nat /\ f[x] * f[x] <= n /\ n < (f[x] + 1) * (f[x] + 1)
<1> DEFINE Root(r) == r \in Nat /\ r * r <= n /\ n < (r + 1) * (r + 1)
           Bad == {z \in 1 .. n : n < (z + 1) * (z + 1) /\ ~ Root(f[z])}
<1>1. ASSUME NEW z \in 1 .. n, n < (z + 1) * (z + 1),
             \A m \in Bad : z <= m
      PROVE  Root(f[z])
  <2>1. f[z] = IF Better(n, z) < z THEN f[Better(n, z)] ELSE z
      BY Zenon DEF Iterates
  <2>2. /\ Better(n, z) \in Nat
        /\ Better(n, z) >= 1
        /\ n < (Better(n, z) + 1) * (Better(n, z) + 1)
        /\ Better(n, z) >= z => z * z <= n
      BY <1>1, BetterBounds
  <2>3. CASE Better(n, z) < z
    <3>1. Better(n, z) \in 1 .. n
        BY <2>2, <2>3
    <3>2. Better(n, z) \notin Bad
      <4> HIDE DEF Bad
      <4> QED BY <1>1, <2>2, <2>3, <3>1
    <3>3. Root(f[Better(n, z)])
      <4> HIDE DEF Root
      <4> QED BY <2>2, <3>1, <3>2, Zenon
    <3> QED BY <2>1, <2>3, <3>3
  <2>4. CASE Better(n, z) >= z
    <3>1. f[z] = z
        BY <2>1, <2>2, <2>4
    <3> QED BY <1>1, <2>2, <2>4, <3>1
  <2> QED BY <2>2, <2>3, <2>4
<1> HIDE DEF Root
<1>2. Bad = {}
  <2> SUFFICES ASSUME Bad # {} PROVE FALSE
      OBVIOUS
  <2>1. Bad \in SUBSET Nat
      OBVIOUS
  <2>2. PICK z \in Bad : \A m \in Bad : z <= m
    <3> HIDE DEF Bad
    <3> QED BY <2>1, LeastMember
  <2>3. z \in 1 .. n /\ n < (z + 1) * (z + 1) /\ ~ Root(f[z])
      BY <2>2
  <2> HIDE DEF Bad
  <2> QED BY <1>1, <2>2, <2>3
<1>3. Root(f[x])
    BY <1>2
<1> QED BY <1>3 DEF Root

\* isqrt is the integer square root of every natural number.
LEMMA IsqrtIsRoot ==
    ASSUME NEW n \in Nat
    PROVE  isqrt(n) \in Nat /\ isqrt(n) * isqrt(n) <= n /\ n < (isqrt(n) + 1) * (isqrt(n) + 1)
<1>1. CASE n < 2
  <2>1. isqrt(n) = n
      BY <1>1, IsqrtIterates, Zenon
  <2> QED BY <1>1, <2>1
<1>2. CASE n >= 2
  <2> DEFINE f == CHOOSE g : Iterates(n, 1 .. n, g)
  <2>1. Iterates(n, 1 .. n, f)
      BY IterationExists, Zenon
  <2>2. isqrt(n) = f[n]
    <3> ~(n < 2) BY <1>2
    <3> QED BY IsqrtIterates, Zenon
  <2> HIDE DEF f
  <2>3. n \in 1 .. n /\ n < (n + 1) * (n + 1)
      BY <1>2
  <2>4. f[n] \in Nat /\ f[n] * f[n] <= n /\ n < (f[n] + 1) * (f[n] + 1)
      BY <2>1, <2>3, IterationEnds
  <2> QED BY <2>2, <2>4
<1> QED BY <1>1, <1>2


-----------------------------------------------------------------------------
(* The quotes. *)

\* A purchase leaves in the pool the product divided by the other reserve.
LEMMA BuyQuoteBounds ==
    ASSUME NEW O \in Nat, NEW P \in Nat, NEW s \in Nat, O >= 1, P >= 1, s >= 1
    PROVE  \E k \in Nat :
             /\ quote_buy_complete_set(O, P, s) = O + s - k
             /\ k <= O
             /\ k * (P + s) <= O * P
             /\ O * P < (k + 1) * (P + s)
<1> DEFINE d == P + s
           k == (O * P) \div d
<1>1. d \in Nat /\ d # 0 /\ P < d /\ O * P \in Int /\ 0 <= O * P
    BY ProductMonotone
<1>2. k \in Int /\ k * d <= O * P /\ O * P < (k + 1) * d
  <2> HIDE DEF d
  <2> QED BY <1>1, DivBounds
<1>3. quote_buy_complete_set(O, P, s) = O + s - k
    BY DEF quote_buy_complete_set
<1> HIDE DEF k, d
<1>4. k >= 0
  <2> SUFFICES ASSUME k + 1 <= 0 PROVE FALSE
      BY <1>2
  <2>1. 0 <= (0 - (k + 1)) * d
      BY <1>1, <1>2, ProductMonotone
  <2>2. (0 - (k + 1)) * d = 0 - (k + 1) * d
      BY <1>1, <1>2
  <2>3. (k + 1) * d \in Int
      BY <1>1, <1>2
  <2> QED BY <1>1, <1>2, <2>1, <2>2, <2>3
<1>5. k <= O
  <2> SUFFICES ASSUME O + 1 <= k PROVE FALSE
      BY <1>2
  <2>1. (O + 1) * d <= k * d
      BY <1>1, <1>2, ProductMonotone
  <2>2. (O + 1) * d = O * d + d
      BY <1>1
  <2>3. O * P <= O * d
      BY <1>1, ProductMonotone
  <2>4. O * d \in Int /\ k * d \in Int
      BY <1>1, <1>2
  <2> QED BY <1>1, <1>2, <2>1, <2>2, <2>3, <2>4
<1>6. k \in Nat
    BY <1>2, <1>4
<1> QED BY <1>2, <1>3, <1>5, <1>6 DEF d

Discriminant(O, P, h) == (O + h + P) * (O + h + P) - 4 * h * P

\* The root of the discriminant lies between the distance of the two reserves a
\* sale leaves equal and their sum.
LEMMA DiscriminantBounds ==
    ASSUME NEW O \in Nat, NEW P \in Nat, NEW h \in Nat
    PROVE  /\ Discriminant(O, P, h) \in Nat
           /\ Discriminant(O, P, h) <= (O + h + P) * (O + h + P)
           /\ (h - P + O) * (h - P + O) <= Discriminant(O, P, h)
           /\ (P - h + O) * (P - h + O) <= Discriminant(O, P, h)
<1> DEFINE n == Discriminant(O, P, h)
<1>1. O * P \in Nat /\ O * h \in Nat /\ h * P \in Nat
    BY ProductMonotone
<1>2. n = (h - P + O) * (h - P + O) + 4 * (O * P)
    BY DEF Discriminant
<1>3. n = (P - h + O) * (P - h + O) + 4 * (O * h)
    BY DEF Discriminant
<1>4. n = (O + h + P) * (O + h + P) - 4 * (h * P)
    BY DEF Discriminant
<1>5. (h - P + O) * (h - P + O) \in Nat /\ (P - h + O) * (P - h + O) \in Nat /\ (O + h + P) * (O + h + P) \in Nat
    OBVIOUS
<1> HIDE DEF n
<1> QED
  <2>1. n \in Nat
      BY <1>1, <1>2, <1>5
  <2>2. n <= (O + h + P) * (O + h + P)
      BY <1>1, <1>4, <1>5
  <2>3. (h - P + O) * (h - P + O) <= n
      BY <1>1, <1>2, <1>5
  <2>4. (P - h + O) * (P - h + O) <= n
      BY <1>1, <1>3, <1>5
  <2> QED BY <2>1, <2>2, <2>3, <2>4 DEF n

\* A root no smaller than a number whose square fits.
LEMMA RootAbove ==
    ASSUME NEW n \in Nat, NEW a \in Int, a * a <= n
    PROVE  a <= isqrt(n)
<1>1. isqrt(n) \in Nat /\ n < (isqrt(n) + 1) * (isqrt(n) + 1)
    BY IsqrtIsRoot
<1> DEFINE r == isqrt(n)
<1> HIDE DEF r
<1> SUFFICES ASSUME r + 1 <= a PROVE FALSE
    BY <1>1 DEF r
<1>2. (r + 1) * (r + 1) <= a * a
    BY <1>1, ProductMonotone DEF r
<1>3. (r + 1) * (r + 1) \in Int /\ a * a \in Int
    BY <1>1 DEF r
<1> QED BY <1>1, <1>2, <1>3 DEF r

\* A sale pays at most the positions sold and at most the opposite reserve.
LEMMA SellQuoteBounds ==
    ASSUME NEW O \in Nat, NEW P \in Nat, NEW h \in Nat
    PROVE  /\ quote_sell(O, P, h) \in Nat
           /\ quote_sell(O, P, h) <= h
           /\ quote_sell(O, P, h) <= P
<1> DEFINE n == Discriminant(O, P, h)
           r == isqrt(n)
           s == O + h + P
<1>1. /\ n \in Nat /\ n <= s * s
      /\ (h - P + O) * (h - P + O) <= n
      /\ (P - h + O) * (P - h + O) <= n
    BY DiscriminantBounds
<1>2. quote_sell(O, P, h) = (s - r) \div 2
    BY DEF quote_sell, Discriminant
<1> HIDE DEF n
<1>3. r \in Nat /\ r * r <= n
    BY <1>1, IsqrtIsRoot
<1>4. h - P + O <= r /\ P - h + O <= r
  <2>1. h - P + O <= r
      BY <1>1, RootAbove
  <2>2. P - h + O <= r
      BY <1>1, RootAbove
  <2> QED BY <2>1, <2>2
<1> HIDE DEF r
<1>5. r <= s
  <2>1. r * r <= s * s
    <3> s * s \in Int /\ r * r \in Int
        BY <1>3
    <3> HIDE DEF s
    <3> QED BY <1>1, <1>3
  <2>2. s \in Int /\ 0 <= s
      OBVIOUS
  <2> HIDE DEF s
  <2> QED BY <1>3, <2>1, <2>2, SquareOrder
<1>6. s - r \in Int /\ s - r >= 0 /\ s - r <= 2 * h /\ s - r <= 2 * P
    BY <1>3, <1>4, <1>5
<1> HIDE DEF s
<1> QED BY <1>2, <1>6, HalfBounds

-----------------------------------------------------------------------------
(* Shares of an amount.                                                    *)

\* A share of an amount is at most the amount.
LEMMA ShareBounds ==
    ASSUME NEW a \in Nat, NEW r \in Int, 0 <= r, r <= 10000
    PROVE  bps(a, r) \in Nat /\ bps(a, r) <= a
<1>1. /\ (a * r) \div 10000 \in Int
      /\ ((a * r) \div 10000) * 10000 <= a * r
      /\ a * r < ((a * r) \div 10000 + 1) * 10000
  <2>1. a * r \in Int
      BY DEF BPS_DENOMINATOR
  <2> QED BY <2>1, DivBounds
<1>2. 0 <= a * r /\ a * r <= a * 10000
    BY ProductMonotone DEF BPS_DENOMINATOR
<1>3. bps(a, r) = (a * r) \div 10000
    BY DEF bps, BPS_DENOMINATOR
<1> DEFINE q == (a * r) \div 10000
           p == a * r
<1>4. q \in Int /\ p \in Int /\ q * 10000 <= p /\ p < (q + 1) * 10000 /\ 0 <= p /\ p <= a * 10000
    BY <1>1, <1>2
<1> HIDE DEF q, p
<1>5. q \in Nat /\ q <= a
    BY <1>4
<1> QED BY <1>3, <1>5 DEF q

\* A share of a reserve.
LEMMA ProportionalBounds ==
    ASSUME NEW r \in Nat, NEW s \in Nat, NEW t \in Nat, s <= t, t # 0
    PROVE  proportional(r, s, t) \in Nat /\ proportional(r, s, t) <= r
<1> DEFINE n == r * s
           q == n \div t
<1>1. n \in Int /\ 0 <= n /\ n <= r * t
    BY ProductMonotone
<1>2. proportional(r, s, t) = q
    BY DEF proportional
<1>3. q \in Int /\ q * t <= n /\ n < (q + 1) * t
  <2> HIDE DEF n
  <2> QED BY <1>1, DivBounds
<1> HIDE DEF n, q
<1>4. q >= 0
  <2> SUFFICES ASSUME q + 1 <= 0 PROVE FALSE
      BY <1>3
  <2>1. 0 <= (0 - (q + 1)) * t
      BY <1>3, ProductMonotone
  <2>2. (0 - (q + 1)) * t = 0 - (q + 1) * t /\ (q + 1) * t \in Int
      BY <1>3
  <2> QED BY <1>1, <1>3, <2>1, <2>2
<1>5. q <= r
  <2> SUFFICES ASSUME q >= r + 1 PROVE FALSE
      BY <1>3
  <2>1. (r + 1) * t <= q * t
      BY <1>3, ProductMonotone
  <2>2. (r + 1) * t = r * t + t /\ r * t \in Int /\ q * t \in Int
      BY <1>3
  <2> QED BY <1>1, <1>3, <2>1, <2>2
<1> QED BY <1>2, <1>3, <1>4, <1>5

\* The limit is a part of the stake, and grows with it.
LEMMA LimitBounds ==
    ASSUME NEW a \in Nat
    PROVE  collateral_limit(a) \in Nat /\ collateral_limit(a) <= a
BY ShareBounds DEF collateral_limit, DEFAULT_CHILD_COLLATERAL_BPS

LEMMA LimitDefined ==
    ASSUME NEW a \in Nat
    PROVE  /\ collateral_limit(a) \in Nat
           /\ collateral_limit(a) * 10000 <= a * 6000
           /\ a * 6000 < (collateral_limit(a) + 1) * 10000
<1>1. collateral_limit(a) = (a * 6000) \div 10000
    BY DEF collateral_limit, DEFAULT_CHILD_COLLATERAL_BPS, bps, BPS_DENOMINATOR
<1>2. a * 6000 \in Int /\ 10000 \in Nat
    OBVIOUS
<1> QED BY <1>1, <1>2, DivBounds, LimitBounds

LEMMA LimitMonotone ==
    ASSUME NEW a \in Nat, NEW b \in Nat, a <= b
    PROVE  collateral_limit(a) <= collateral_limit(b)
<1>1. PICK x, y : x = collateral_limit(a) /\ y = collateral_limit(b)
    OBVIOUS
<1>2. /\ x \in Nat /\ y \in Nat
      /\ x * 10000 <= a * 6000 /\ b * 6000 < (y + 1) * 10000
    BY <1>1, LimitDefined
<1>3. x <= y
    BY <1>2
<1> QED BY <1>1, <1>3
=============================================================================
