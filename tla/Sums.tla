--------------------------------- MODULE Sums ---------------------------------
(***************************************************************************)
(* The laws of the finite sums that ledgers, plans and reports are added   *)
(* up with.  SumFunctionOnSet of the community modules takes one element   *)
(* after the other out of a set, by CHOOSE; here that recursion is shown   *)
(* to define a function, the order not to matter, and the sum to obey its  *)
(* laws, for every finite set.                                             *)
(*                                                                         *)
(* There is no induction rule to use: each proof looks at a smallest       *)
(* subset of which the law would be false.                                 *)
(***************************************************************************)
EXTENDS Integers, Sequences, Functions, FiniteSetTheorems,
        WellFoundedInduction, TLAPS

\* The element that is taken out of a set.
Pick(s) == CHOOSE x \in s : TRUE

\* A name for +, for the steps at which it does not matter what is a number.
Plus(m, n) == m + n

\* g adds up the values of f over any subset of S.
Adds(g, f, S) ==
  g = [s \in SUBSET S |-> IF s = {} THEN 0 ELSE Plus(f[Pick(s)], g[s \ {Pick(s)}])]

\* The community module's sum, in these words.
LEMMA SumIs ==
  ASSUME NEW f, NEW S
  PROVE  SumFunctionOnSet(f, S) = (CHOOSE g : Adds(g, f, S))[S]
  BY DEF SumFunctionOnSet, FoldFunctionOnSet, MapThenFoldSet, Adds, Plus, Pick

\* A nonempty set has an element to take out.
LEMMA PickIn ==
  ASSUME NEW s, s # {}
  PROVE  Pick(s) \in s
  BY DEF Pick

\* Among some subsets of a finite set there is a smallest.
LEMMA MinimalSet ==
  ASSUME NEW S, IsFiniteSet(S), NEW T \in SUBSET (SUBSET S), T # {}
  PROVE  \E A \in T : \A B \in T : B \subseteq A => B = A
<1>1. T \subseteq FiniteSubsetsOf(S)
  BY FS_Subset DEF FiniteSubsetsOf
<1>2. \E A \in T : \A B \in T : ~ (<<B, A>> \in StrictSubsetOrdering(S))
  BY <1>1, FS_StrictSubsetOrderingWellFounded, WFMin
<1>3. ASSUME NEW A \in T, NEW B \in T, B \subseteq A, B # A
      PROVE  <<B, A>> \in StrictSubsetOrdering(S)
  BY <1>1, <1>3 DEF StrictSubsetOrdering, FiniteSubsetsOf
<1> QED
  BY <1>2, <1>3

-----------------------------------------------------------------------------
(* The recursion over subsets defines one function.                         *)

\* Two such functions agree wherever both are defined.
LEMMA AddsUnique ==
  ASSUME NEW S, IsFiniteSet(S), NEW T \in SUBSET S, NEW f,
         NEW g, Adds(g, f, S), NEW h, Adds(h, f, T)
  PROVE  \A s \in SUBSET T : g[s] = h[s]
<1> DEFINE Bad == {s \in SUBSET T : g[s] # h[s]}
<1> SUFFICES ASSUME Bad # {} PROVE FALSE
  OBVIOUS
<1>1. PICK s \in Bad : \A r \in Bad : r \subseteq s => r = s
  <2>1. Bad \in SUBSET (SUBSET S)
    OBVIOUS
  <2> HIDE DEF Bad
  <2> QED
    BY <2>1, MinimalSet
<1>2. s # {}
  BY DEF Adds
<1>3. s \ {Pick(s)} \notin Bad /\ s \ {Pick(s)} \in SUBSET T
  BY <1>1, <1>2, PickIn
<1>4. g[s \ {Pick(s)}] = h[s \ {Pick(s)}]
  BY <1>3
<1>5. /\ g[s] = Plus(f[Pick(s)], g[s \ {Pick(s)}])
      /\ h[s] = Plus(f[Pick(s)], h[s \ {Pick(s)}])
  BY <1>2 DEF Adds
<1> QED
  BY <1>4, <1>5

\* The function exists.
LEMMA AddsExists ==
  ASSUME NEW S, IsFiniteSet(S), NEW f
  PROVE  \E g : Adds(g, f, S)
<1> DEFINE Bad == {s \in SUBSET S : ~ \E g : Adds(g, f, s)}
<1> SUFFICES ASSUME Bad # {} PROVE FALSE
  OBVIOUS
<1>1. PICK T \in Bad : \A r \in Bad : r \subseteq T => r = T
  <2>1. Bad \in SUBSET (SUBSET S)
    OBVIOUS
  <2> HIDE DEF Bad
  <2> QED
    BY <2>1, MinimalSet
<1> DEFINE sum(s) == SumFunctionOnSet(f, s)
           h == [s \in SUBSET T |->
                   IF s = {} THEN 0 ELSE Plus(f[Pick(s)], sum(s \ {Pick(s)}))]
<1>2. ASSUME NEW u \in SUBSET T, u # T
      PROVE  \E g : Adds(g, f, u) /\ sum(u) = g[u]
  <2> DEFINE g == CHOOSE g : Adds(g, f, u)
  <2>1. u \notin Bad
    BY <1>1, <1>2
  <2>2. Adds(g, f, u)
    BY <2>1
  <2> QED
    BY <2>2, SumIs
<1>3. ASSUME NEW u \in SUBSET T, u # T
      PROVE  h[u] = sum(u)
  <2> DEFINE v == u \ {Pick(u)}
  <2>1. PICK g : Adds(g, f, u) /\ sum(u) = g[u]
    BY <1>2, <1>3
  <2>2. CASE u = {}
    BY <2>1, <2>2 DEF Adds
  <2>3. CASE u # {}
    <3>1. v \in SUBSET T /\ v # T /\ v \in SUBSET u
      BY <1>3, <2>3, PickIn
    <3>2. PICK k : Adds(k, f, v) /\ sum(v) = k[v]
      BY <1>2, <3>1
    <3>3. IsFiniteSet(u)
      BY FS_Subset
    <3>4. g[v] = k[v]
      <4> HIDE DEF v
      <4> QED
        BY <2>1, <3>1, <3>2, <3>3, AddsUnique
    <3>5. g[u] = Plus(f[Pick(u)], g[v])
      BY <2>1, <2>3 DEF Adds
    <3>6. h[u] = Plus(f[Pick(u)], sum(v))
      BY <2>3
    <3> QED
      BY <2>1, <3>2, <3>4, <3>5, <3>6
  <2> QED
    BY <2>2, <2>3
<1>4. Adds(h, f, T)
  <2>1. ASSUME NEW s \in SUBSET T, s # {}
        PROVE  h[s] = Plus(f[Pick(s)], h[s \ {Pick(s)}])
    <3>1. s \ {Pick(s)} \in SUBSET T /\ s \ {Pick(s)} # T
      BY <2>1, PickIn
    <3>2. h[s \ {Pick(s)}] = sum(s \ {Pick(s)})
      BY <1>3, <3>1
    <3>3. h[s] = Plus(f[Pick(s)], sum(s \ {Pick(s)}))
      BY <2>1
    <3> QED
      BY <3>2, <3>3
  <2>2. h[{}] = 0
    OBVIOUS
  <2>3. h = [s \in SUBSET T |-> h[s]]
    OBVIOUS
  <2> HIDE DEF h
  <2> QED
    BY <2>1, <2>2, <2>3 DEF Adds
<1> QED
  BY <1>1, <1>4

\* The sum is the value of any such function.
LEMMA SumOfAdds ==
  ASSUME NEW S, IsFiniteSet(S), NEW f, NEW g, Adds(g, f, S)
  PROVE  \A s \in SUBSET S : SumFunctionOnSet(f, s) = g[s]
<1> TAKE s \in SUBSET S
<1> DEFINE h == CHOOSE h : Adds(h, f, s)
<1>1. IsFiniteSet(s)
  BY FS_Subset
<1>2. Adds(h, f, s)
  BY <1>1, AddsExists
<1>3. SumFunctionOnSet(f, s) = h[s]
  BY SumIs
<1> HIDE DEF h
<1> QED
  BY <1>2, <1>3, AddsUnique

-----------------------------------------------------------------------------
(* The laws.                                                                *)

\* The sum of nothing is zero.
LEMMA SumEmpty ==
  ASSUME NEW f
  PROVE  SumFunctionOnSet(f, {}) = 0
<1>1. PICK g : Adds(g, f, {})
  BY FS_EmptySet, AddsExists
<1>2. SumFunctionOnSet(f, {}) = g[{}]
  BY <1>1, FS_EmptySet, SumOfAdds
<1> QED
  BY <1>1, <1>2 DEF Adds

\* The element taken out is added to the sum of the rest.
LEMMA SumPick ==
  ASSUME NEW S, IsFiniteSet(S), S # {}, NEW f
  PROVE  SumFunctionOnSet(f, S) = Plus(f[Pick(S)], SumFunctionOnSet(f, S \ {Pick(S)}))
<1>1. PICK g : Adds(g, f, S)
  BY AddsExists
<1>2. /\ SumFunctionOnSet(f, S) = g[S]
      /\ SumFunctionOnSet(f, S \ {Pick(S)}) = g[S \ {Pick(S)}]
  BY <1>1, SumOfAdds
<1> QED
  BY <1>1, <1>2 DEF Adds

\* A sum of integers is an integer.
LEMMA SumInt ==
  ASSUME NEW S, IsFiniteSet(S), NEW f, \A x \in S : f[x] \in Int
  PROVE  SumFunctionOnSet(f, S) \in Int
<1> DEFINE Bad == {s \in SUBSET S : SumFunctionOnSet(f, s) \notin Int}
<1> SUFFICES ASSUME Bad # {} PROVE FALSE
  OBVIOUS
<1>1. PICK s \in Bad : \A r \in Bad : r \subseteq s => r = s
  <2>1. Bad \in SUBSET (SUBSET S)
    OBVIOUS
  <2> HIDE DEF Bad
  <2> QED
    BY <2>1, MinimalSet
<1>2. s \in SUBSET S /\ SumFunctionOnSet(f, s) \notin Int
  OBVIOUS
<1>3. s # {}
  BY <1>2, SumEmpty
<1>4. SumFunctionOnSet(f, s \ {Pick(s)}) \in Int
  BY <1>1, <1>3, PickIn
<1>5. f[Pick(s)] \in Int
  BY <1>2, <1>3, PickIn
<1>6. IsFiniteSet(s)
  BY <1>2, FS_Subset
<1>7. SumFunctionOnSet(f, s) = Plus(f[Pick(s)], SumFunctionOnSet(f, s \ {Pick(s)}))
  BY <1>3, <1>6, SumPick
<1> HIDE DEF Bad
<1> QED
  BY <1>2, <1>4, <1>5, <1>7 DEF Plus

\* Whichever element is taken out, the sum is the same.
LEMMA SumAnyPick ==
  ASSUME NEW S, IsFiniteSet(S), NEW f, \A x \in S : f[x] \in Int, NEW e \in S
  PROVE  SumFunctionOnSet(f, S) = Plus(f[e], SumFunctionOnSet(f, S \ {e}))
<1> DEFINE sum(s) == SumFunctionOnSet(f, s)
           Bad == {s \in SUBSET S : \E x \in s : sum(s) # Plus(f[x], sum(s \ {x}))}
<1> SUFFICES ASSUME Bad # {} PROVE FALSE
  OBVIOUS
<1>1. PICK s \in Bad : \A r \in Bad : r \subseteq s => r = s
  <2>1. Bad \in SUBSET (SUBSET S)
    OBVIOUS
  <2> HIDE DEF Bad
  <2> QED
    BY <2>1, MinimalSet
<1>2. s \in SUBSET S
  OBVIOUS
<1>3. PICK x \in s : sum(s) # Plus(f[x], sum(s \ {x}))
  OBVIOUS
<1>4. ASSUME NEW r \in SUBSET s, r # s, NEW z \in r
      PROVE  sum(r) = Plus(f[z], sum(r \ {z}))
  <2>1. r \notin Bad /\ r \in SUBSET S
    BY <1>1, <1>2, <1>4
  <2> QED
    BY <2>1
<1> HIDE DEF Bad
<1> DEFINE y == Pick(s)
<1>5. y \in s
  BY <1>3, PickIn
<1>6. sum(s) = Plus(f[y], sum(s \ {y}))
  BY <1>2, <1>3, FS_Subset, SumPick
<1> HIDE DEF y
<1>7. x # y
  BY <1>3, <1>6
<1>8. sum(s \ {y}) = Plus(f[x], sum((s \ {y}) \ {x}))
  BY <1>4, <1>5, <1>7
<1>9. sum(s \ {x}) = Plus(f[y], sum((s \ {x}) \ {y}))
  BY <1>4, <1>5, <1>7
<1>10. (s \ {x}) \ {y} = (s \ {y}) \ {x}
  OBVIOUS
<1> DEFINE rest == sum((s \ {y}) \ {x})
<1>11. rest \in Int
  <2>1. IsFiniteSet((s \ {y}) \ {x}) /\ (s \ {y}) \ {x} \subseteq S
    BY <1>2, FS_Subset
  <2> QED
    BY <2>1, SumInt
<1>12. f[x] \in Int /\ f[y] \in Int
  BY <1>2, <1>5
<1>13. Plus(f[x], sum(s \ {x})) = Plus(f[y], sum(s \ {y}))
  <2> HIDE DEF rest
  <2>1. Plus(f[x], Plus(f[y], rest)) = Plus(f[y], Plus(f[x], rest))
    BY <1>11, <1>12 DEF Plus
  <2> QED
    BY <1>8, <1>9, <1>10, <2>1 DEF rest
<1> QED
  BY <1>3, <1>6, <1>13

\* Any element may be taken out of a sum.
LEMMA SumSplit ==
  ASSUME NEW S, IsFiniteSet(S), NEW f, \A x \in S : f[x] \in Int, NEW e \in S
  PROVE  /\ f[e] \in Int
         /\ SumFunctionOnSet(f, S \ {e}) \in Int
         /\ SumFunctionOnSet(f, S) = f[e] + SumFunctionOnSet(f, S \ {e})
<1>1. IsFiniteSet(S \ {e})
  BY FS_Subset
<1>2. SumFunctionOnSet(f, S \ {e}) \in Int
  BY <1>1, SumInt
<1> QED
  BY <1>2, SumAnyPick DEF Plus

\* A greater summand at every place makes no smaller sum.
LEMMA SumMonotone ==
  ASSUME NEW S, IsFiniteSet(S), NEW f, NEW g,
         \A x \in S : f[x] \in Int /\ g[x] \in Int /\ f[x] <= g[x]
  PROVE  SumFunctionOnSet(f, S) <= SumFunctionOnSet(g, S)
<1> DEFINE Bad == {s \in SUBSET S : ~ (SumFunctionOnSet(f, s) <= SumFunctionOnSet(g, s))}
<1> SUFFICES ASSUME Bad # {} PROVE FALSE
  OBVIOUS
<1>1. PICK s \in Bad : \A r \in Bad : r \subseteq s => r = s
  <2>1. Bad \in SUBSET (SUBSET S)
    OBVIOUS
  <2> HIDE DEF Bad
  <2> QED
    BY <2>1, MinimalSet
<1>2. s \in SUBSET S /\ ~ (SumFunctionOnSet(f, s) <= SumFunctionOnSet(g, s))
  OBVIOUS
<1>3. s # {}
  BY <1>2, SumEmpty
<1>4. PICK x : x \in s
  BY <1>3
<1>5. SumFunctionOnSet(f, s \ {x}) <= SumFunctionOnSet(g, s \ {x})
  BY <1>1, <1>4
<1> HIDE DEF Bad
<1>6. IsFiniteSet(s)
  BY <1>2, FS_Subset
<1>7. /\ SumFunctionOnSet(f, s \ {x}) \in Int
      /\ SumFunctionOnSet(f, s) = f[x] + SumFunctionOnSet(f, s \ {x})
  BY <1>2, <1>4, <1>6, SumSplit
<1>8. /\ SumFunctionOnSet(g, s \ {x}) \in Int
      /\ SumFunctionOnSet(g, s) = g[x] + SumFunctionOnSet(g, s \ {x})
  BY <1>2, <1>4, <1>6, SumSplit
<1>9. f[x] \in Int /\ g[x] \in Int /\ f[x] <= g[x]
  BY <1>2, <1>4
<1> QED
  BY <1>2, <1>5, <1>7, <1>8, <1>9

\* A sum depends on the summands only.
LEMMA SumSame ==
  ASSUME NEW S, IsFiniteSet(S), NEW f, NEW g, \A x \in S : f[x] \in Int /\ f[x] = g[x]
  PROVE  SumFunctionOnSet(f, S) = SumFunctionOnSet(g, S)
<1>1. SumFunctionOnSet(f, S) <= SumFunctionOnSet(g, S)
  BY SumMonotone
<1>2. SumFunctionOnSet(g, S) <= SumFunctionOnSet(f, S)
  BY SumMonotone
<1>3. SumFunctionOnSet(f, S) \in Int /\ SumFunctionOnSet(g, S) \in Int
  BY SumInt
<1> QED
  BY <1>1, <1>2, <1>3

\* A sum of zeros is zero.
LEMMA SumZero ==
  ASSUME NEW S, IsFiniteSet(S), NEW f, \A x \in S : f[x] = 0
  PROVE  SumFunctionOnSet(f, S) = 0
<1> DEFINE Bad == {s \in SUBSET S : SumFunctionOnSet(f, s) # 0}
<1> SUFFICES ASSUME Bad # {} PROVE FALSE
  OBVIOUS
<1>1. PICK s \in Bad : \A r \in Bad : r \subseteq s => r = s
  <2>1. Bad \in SUBSET (SUBSET S)
    OBVIOUS
  <2> HIDE DEF Bad
  <2> QED
    BY <2>1, MinimalSet
<1>2. s \in SUBSET S /\ SumFunctionOnSet(f, s) # 0
  OBVIOUS
<1>3. PICK x : x \in s
  BY <1>2, SumEmpty
<1>4. SumFunctionOnSet(f, s \ {x}) = 0
  BY <1>1, <1>3
<1> HIDE DEF Bad
<1>5. SumFunctionOnSet(f, s) = f[x] + SumFunctionOnSet(f, s \ {x})
  BY <1>2, <1>3, FS_Subset, SumSplit
<1> QED
  BY <1>2, <1>3, <1>4, <1>5

\* Where no summand is negative, more of them make no smaller sum.
LEMMA SumSubset ==
  ASSUME NEW S, IsFiniteSet(S), NEW T \in SUBSET S, NEW f, \A x \in S : f[x] \in Nat
  PROVE  SumFunctionOnSet(f, T) <= SumFunctionOnSet(f, S)
<1> DEFINE sum(s) == SumFunctionOnSet(f, s)
           Bad == {s \in SUBSET S : T \subseteq s /\ ~ (sum(T) <= sum(s))}
<1> SUFFICES ASSUME Bad # {} PROVE FALSE
  OBVIOUS
<1>1. PICK s \in Bad : \A r \in Bad : r \subseteq s => r = s
  <2>1. Bad \in SUBSET (SUBSET S)
    OBVIOUS
  <2> HIDE DEF Bad
  <2> QED
    BY <2>1, MinimalSet
<1>2. s \in SUBSET S /\ T \subseteq s /\ ~ (sum(T) <= sum(s))
  OBVIOUS
<1>3. IsFiniteSet(s) /\ IsFiniteSet(T)
  BY <1>2, FS_Subset
<1>4. sum(T) \in Int /\ sum(s) \in Int
  BY <1>2, <1>3, SumInt
<1>5. PICK x \in s : x \notin T
  <2>1. s # T
    BY <1>2, <1>4
  <2> QED
    BY <1>2, <2>1
<1>6. sum(T) <= sum(s \ {x})
  BY <1>1, <1>2, <1>5
<1> HIDE DEF Bad
<1>7. sum(s \ {x}) \in Int /\ sum(s) = f[x] + sum(s \ {x})
  BY <1>2, <1>3, SumSplit
<1>8. f[x] \in Nat
  BY <1>2
<1> QED
  BY <1>2, <1>4, <1>6, <1>7, <1>8

\* A sum of natural numbers is one.
LEMMA SumNat ==
  ASSUME NEW S, IsFiniteSet(S), NEW f, \A x \in S : f[x] \in Nat
  PROVE  SumFunctionOnSet(f, S) \in Nat
<1>1. SumFunctionOnSet(f, {}) <= SumFunctionOnSet(f, S)
  BY SumSubset
<1>2. SumFunctionOnSet(f, S) \in Int
  BY SumInt
<1> QED
  BY <1>1, <1>2, SumEmpty

\* One summand is replaced.
LEMMA SumReplace ==
  ASSUME NEW S, IsFiniteSet(S), NEW f, NEW g, NEW e \in S,
         \A x \in S : f[x] \in Int /\ g[x] \in Int,
         \A x \in S \ {e} : f[x] = g[x]
  PROVE  SumFunctionOnSet(g, S) = SumFunctionOnSet(f, S) - f[e] + g[e]
<1>1. SumFunctionOnSet(f, S \ {e}) = SumFunctionOnSet(g, S \ {e})
  BY FS_Subset, SumSame
<1>2. /\ f[e] \in Int /\ SumFunctionOnSet(f, S \ {e}) \in Int
      /\ SumFunctionOnSet(f, S) = f[e] + SumFunctionOnSet(f, S \ {e})
  BY SumSplit
<1>3. /\ g[e] \in Int /\ SumFunctionOnSet(g, S \ {e}) \in Int
      /\ SumFunctionOnSet(g, S) = g[e] + SumFunctionOnSet(g, S \ {e})
  BY SumSplit
<1> QED
  BY <1>1, <1>2, <1>3

-----------------------------------------------------------------------------
(* Sums over 1..n, one index after the other.                               *)

\* Among some natural numbers there is a least.
LEMMA LeastNat ==
  ASSUME NEW B \in SUBSET Nat, B # {}
  PROVE  \E m \in B : \A n \in B : m <= n
<1>1. PICK b \in B : TRUE
  OBVIOUS
<1> DEFINE T == {0..m : m \in {n \in B : n <= b}}
<1>2. T \in SUBSET (SUBSET (0..b)) /\ T # {} /\ IsFiniteSet(0..b)
  <2>1. IsFiniteSet(0..b)
    BY FS_Interval
  <2>2. 0..b \in T
    BY <1>1
  <2>3. ASSUME NEW A \in T PROVE A \in SUBSET (0..b)
    <3>1. PICK m \in {n \in B : n <= b} : A = 0..m
      BY <2>3
    <3>2. m \in Nat /\ m <= b
      OBVIOUS
    <3>3. 0..m \subseteq 0..b
      BY <3>2
    <3> QED
      BY <3>1, <3>3
  <2> HIDE DEF T
  <2> QED
    BY <2>1, <2>2, <2>3
<1>3. PICK A \in T : \A C \in T : C \subseteq A => C = A
  <2> DEFINE S == 0..b
  <2>1. IsFiniteSet(S) /\ T \in SUBSET (SUBSET S) /\ T # {}
    BY <1>2
  <2> HIDE DEF S, T
  <2> QED
    BY <2>1, MinimalSet
<1>4. PICK m \in B : m <= b /\ A = 0..m
  OBVIOUS
<1>5. ASSUME NEW n \in B, ~ (m <= n) PROVE FALSE
  <2>1. 0..n \in T /\ 0..n \subseteq A
    BY <1>4, <1>5
  <2>2. 0..n = 0..m
    BY <1>3, <1>4, <2>1
  <2>3. m \in 0..m /\ m \notin 0..n
    BY <1>5
  <2> QED
    BY <2>2, <2>3
<1> QED
  BY <1>5

\* What holds of 0 and passes on from one number to the next holds up to n.
LEMMA Climb ==
  ASSUME NEW n \in Nat, NEW A \in SUBSET Nat, 0 \in A,
         \A i \in A : i < n => i + 1 \in A
  PROVE  n \in A
<1> SUFFICES ASSUME n \notin A PROVE FALSE
  OBVIOUS
<1>1. PICK m \in Nat \ A : \A i \in Nat \ A : m <= i
  BY LeastNat
<1>2. m # 0 /\ m - 1 \in Nat /\ ~ (m <= m - 1) /\ m <= n
  BY <1>1
<1>3. m - 1 \in A
  BY <1>1, <1>2
<1>4. (m - 1) + 1 \in A
  BY <1>2, <1>3
<1> QED
  BY <1>4

\* The next summand.
LEMMA SumNext ==
  ASSUME NEW n \in Nat, NEW f, \A i \in 1..(n + 1) : f[i] \in Int
  PROVE  /\ f[n + 1] \in Int
         /\ SumFunctionOnSet(f, 1..n) \in Int
         /\ SumFunctionOnSet(f, 1..(n + 1)) = SumFunctionOnSet(f, 1..n) + f[n + 1]
<1> DEFINE S == 1..(n + 1)
           T == 1..n
<1>1. IsFiniteSet(S) /\ n + 1 \in S /\ S \ {n + 1} = T /\ \A i \in S : f[i] \in Int
  BY FS_Interval
<1> HIDE DEF S, T
<1>2. /\ f[n + 1] \in Int
      /\ SumFunctionOnSet(f, T) \in Int
      /\ SumFunctionOnSet(f, S) = f[n + 1] + SumFunctionOnSet(f, T)
  BY <1>1, SumSplit
<1>3. SumFunctionOnSet(f, S) = SumFunctionOnSet(f, T) + f[n + 1]
  BY <1>2
<1> QED
  BY <1>2, <1>3 DEF S, T

-----------------------------------------------------------------------------
(* A row of equal summands for each index.                                 *)

\* Quotients are what they should be.
LEMMA Quotient ==
  ASSUME NEW k \in Nat \ {0}, NEW q \in Nat, NEW r \in 0..(k - 1)
  PROVE  (k * q + r) \div k = q
  OBVIOUS

\* Multiplication by a successor.
LEMMA TimesNext ==
  ASSUME NEW m \in Int, NEW n \in Int
  PROVE  m * (n + 1) = m * n + m
  OBVIOUS

\* A product grows with its second factor.
LEMMA TimesMore ==
  ASSUME NEW k \in Nat, NEW m \in Nat, NEW n \in Nat, m <= n
  PROVE  k * m \in Nat /\ k * n \in Nat /\ k * m <= k * n
<1>1. PICK d \in Nat : n = m + d
  <2>1. n - m \in Nat
    OBVIOUS
  <2> QED
    BY <2>1
<1>2. k * n = k * m + k * d
  BY <1>1
<1>3. k * d \in Nat /\ k * m \in Nat /\ k * n \in Nat
  OBVIOUS
<1> QED
  BY <1>2, <1>3

\* Of n rows of k numbers, the i-th number is in one of the rows.
LEMMA RowOf ==
  ASSUME NEW k \in Nat \ {0}, NEW n \in Nat, NEW i \in 1..(k * n)
  PROVE  ((i - 1) \div k) + 1 \in 1..n
<1> DEFINE q == (i - 1) \div k
<1>1. q \in Nat /\ k * q <= i - 1
  OBVIOUS
<1>2. CASE q < n
  BY <1>1, <1>2
<1>3. CASE n <= q
  <2>1. k * n <= k * q
    BY <1>1, <1>3, TimesMore
  <2> QED
    BY <1>1, <2>1
<1> QED
  BY <1>1, <1>2, <1>3

\* Each of the numbers f[1], ..., f[n] counted k times in a row makes k times
\* their sum.
LEMMA SumRepeat ==
  ASSUME NEW k \in Nat \ {0}, NEW n \in Nat,
         NEW f, \A j \in 1..n : f[j] \in Int,
         NEW h, \A i \in 1..(k * n) : h[i] = f[((i - 1) \div k) + 1]
  PROVE  SumFunctionOnSet(h, 1..(k * n)) = k * SumFunctionOnSet(f, 1..n)
<1> DEFINE sum(i) == SumFunctionOnSet(h, 1..i)
           part(q) == SumFunctionOnSet(f, 1..q)
<1>0. \A i \in 1..(k * n) : h[i] \in Int
  BY RowOf
<1>1. ASSUME NEW q \in Nat, q < n, sum(k * q) = k * part(q)
      PROVE  sum(k * (q + 1)) = k * part(q + 1)
  <2> DEFINE c == f[q + 1]
             Row == {r \in Nat : sum(k * q + r) = sum(k * q) + r * c}
  <2>1. k * q \in Nat /\ k * (q + 1) = k * q + k /\ k * q + k <= k * n
    BY <1>1, TimesNext, TimesMore
  <2>2. c \in Int /\ part(q) \in Int /\ part(q + 1) = part(q) + c
    <3>1. \A j \in 1..(q + 1) : f[j] \in Int
      BY <1>1
    <3> QED
      BY <3>1, SumNext
  <2>3. sum(k * q) \in Int
    BY <1>1, <2>2
  <2>4. ASSUME NEW r \in Row, r < k
        PROVE  r + 1 \in Row
    <3> DEFINE m == k * q + r
    <3>1. m \in Nat /\ m + 1 \in 1..(k * n) /\ m + 1 = k * q + (r + 1)
      <4> DEFINE base == k * q
                 top  == k * n
      <4>1. base \in Nat /\ top \in Nat /\ base + k <= top
        BY <2>1, TimesMore
      <4>2. r \in Nat /\ r < k
        BY <2>4
      <4> HIDE DEF base, top, Row
      <4>3. base + r \in Nat /\ (base + r) + 1 \in 1..top /\ (base + r) + 1 = base + (r + 1)
        BY <4>1, <4>2
      <4> QED
        BY <4>3 DEF base, top
    <3>2. ((m + 1) - 1) \div k = q
      <4>1. (m + 1) - 1 = k * q + r /\ r \in 0..(k - 1)
        BY <2>1, <2>4
      <4> QED
        BY <4>1, Quotient
    <3>3. h[m + 1] = c
      BY <3>1, <3>2
    <3>4. \A i \in 1..(m + 1) : h[i] \in Int
      BY <1>0, <3>1
    <3>5. sum(m + 1) = sum(m) + h[m + 1]
      <4> HIDE DEF m
      <4> QED
        BY <3>1, <3>4, SumNext
    <3>6. sum(m) = sum(k * q) + r * c
      BY <2>4
    <3>7. (r + 1) * c = r * c + c /\ r * c \in Int
      BY <2>2
    <3>8. sum(k * q + (r + 1)) = sum(m + 1)
      BY <3>1
    <3> HIDE DEF c
    <3>9. sum(m + 1) = sum(k * q) + (r + 1) * c
      BY <2>2, <2>3, <3>3, <3>5, <3>6, <3>7
    <3> QED
      BY <3>8, <3>9
  <2>5. k \in Row
    <3>1. 0 \in Row
      <4>1. k * q + 0 = k * q /\ 0 * c = 0
        BY <2>1, <2>2
      <4> QED
        BY <2>3, <4>1
    <3> HIDE DEF Row
    <3>2. Row \in SUBSET Nat
      BY DEF Row
    <3> QED
      BY <2>4, <3>1, <3>2, Climb
  <2>6. sum(k * (q + 1)) = sum(k * q) + k * c
    BY <2>1, <2>5
  <2>7. k * (part(q) + c) = k * part(q) + k * c
    BY <2>2
  <2> QED
    BY <1>1, <2>2, <2>6, <2>7
<1> DEFINE Done == {q \in Nat : sum(k * q) = k * part(q)}
<1>2. 0 \in Done
  <2>1. k * 0 = 0 /\ 1..0 = {}
    OBVIOUS
  <2> QED
    BY <2>1, SumEmpty
<1>3. \A q \in Done : q < n => q + 1 \in Done
  BY <1>1
<1>4. n \in Done
  <2>1. Done \in SUBSET Nat
    OBVIOUS
  <2> HIDE DEF Done
  <2> QED
    BY <1>2, <1>3, <2>1, Climb
<1> QED
  BY <1>4
=============================================================================
