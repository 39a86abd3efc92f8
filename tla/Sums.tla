-------------------------------- MODULE Sums --------------------------------
(***************************************************************************)
(* The total of a function over a finite set, and the facts about it that  *)
(* the proofs of the components cite.  Induction is by minimal             *)
(* counterexample: a set of bad sets, if there are any, has a smallest     *)
(* one.                                                                    *)
(***************************************************************************)
EXTENDS FiniteSetsExt, FiniteSetTheorems, TLAPS

Total(f, S) == MapThenSumSet(LAMBDA x : f[x], S)

-----------------------------------------------------------------------------
(* Minimal elements.                                                       *)

(* Among some subsets of a finite set one has none of the others in it.    *)
LEMMA SmallestSubset ==
  ASSUME NEW S, IsFiniteSet(S), NEW B, B \subseteq SUBSET S, B # {}
  PROVE  \E T \in B : \A U \in B : U \subseteq T => U = T
<1>1. IsWellFoundedOn(StrictSubsetOrdering(S), SUBSET S)
  BY FS_FiniteSubsetsOfFinite, FS_StrictSubsetOrderingWellFounded
<1>2. PICK T \in B : \A U \in B : ~ (<<U, T>> \in StrictSubsetOrdering(S))
  BY <1>1, WFMin
<1>3. \A U \in B : U \subseteq T => U = T
  BY <1>2 DEF StrictSubsetOrdering
<1> QED BY <1>3

(* A set of natural numbers that is not empty has a least one.             *)
LEMMA LeastNat ==
  ASSUME NEW T, T \subseteq Nat, T # {}
  PROVE  \E n \in T : \A m \in T : n <= m
<1>1. PICK k \in T : k \in Nat
  OBVIOUS
<1> DEFINE Starts == {0..m : m \in {n \in T : n <= k}}
<1> DEFINE D == 0..k
<1>2. IsFiniteSet(D)
  BY <1>1, FS_Interval
<1>3. Starts \subseteq SUBSET D
  BY <1>1
<1>4. 0..k \in Starts
  BY <1>1
<1>5. PICK I \in Starts : \A J \in Starts : J \subseteq I => J = I
  <2> HIDE DEF Starts, D
  <2>1. Starts # {}
    BY <1>4
  <2> QED BY <1>2, <1>3, <2>1, SmallestSubset
<1>6. PICK n \in T : n <= k /\ I = 0..n
  BY <1>5
<1>7. ASSUME NEW m \in T, ~(n <= m) PROVE FALSE
  <2>1. m \in Nat /\ n \in Nat /\ m < n /\ m <= k
    BY <1>1, <1>6, <1>7
  <2>2. 0..m \in Starts
    BY <2>1
  <2>3. 0..m \subseteq 0..n
    BY <2>1
  <2>4. 0..m = 0..n
    BY <1>5, <1>6, <2>2, <2>3
  <2>5. n \in 0..n /\ n \notin 0..m
    BY <2>1
  <2> QED BY <2>4, <2>5
<1> QED BY <1>6, <1>7

-----------------------------------------------------------------------------
(* The recursion that MapThenSumSet stands for is well defined.            *)

AnyOf(s) == CHOOSE x \in s : TRUE
AddAny(f, it, s) == IF s = {} THEN 0 ELSE f[AnyOf(s)] + it[s \ {AnyOf(s)}]
SumsUp(f, S, it) == it = [s \in SUBSET S |-> AddAny(f, it, s)]

LEMMA FirstIn == ASSUME NEW s, s # {} PROVE AnyOf(s) \in s
  BY DEF AnyOf

LEMMA TotalUnfolds ==
  ASSUME NEW f, NEW S
  PROVE  Total(f, S) = (CHOOSE it : SumsUp(f, S, it))[S]
  BY DEF Total, MapThenSumSet, MapThenFoldSet, SumsUp, AddAny, AnyOf

LEMMA SmallerRest ==
  ASSUME NEW S, IsFiniteSet(S), NEW s \in SUBSET S, s # {}
  PROVE  /\ s \ {AnyOf(s)} \in SUBSET S
         /\ Cardinality(s) \in Nat /\ Cardinality(s \ {AnyOf(s)}) \in Nat
         /\ Cardinality(s \ {AnyOf(s)}) = Cardinality(s) - 1
<1>1. IsFiniteSet(s)
  BY FS_Subset
<1>2. AnyOf(s) \in s
  BY FirstIn
<1> QED BY <1>1, <1>2, FS_RemoveElement, FS_CardinalityType

(* A function that obeys the recursion on the subsets of up to n elements. *)
SumsUpto(f, S, n, it) ==
  /\ DOMAIN it = SUBSET S
  /\ \A s \in SUBSET S : Cardinality(s) <= n => it[s] = AddAny(f, it, s)

LEMMA UptoAll ==
  ASSUME NEW f, NEW S, IsFiniteSet(S), NEW n \in Nat
  PROVE  \E it : SumsUpto(f, S, n, it)
<1> DEFINE Bad == {k \in Nat : ~ \E it : SumsUpto(f, S, k, it)}
<1>1. SUFFICES ASSUME Bad # {} PROVE FALSE
  OBVIOUS
<1>2. PICK k \in Bad : \A m \in Bad : k <= m
  BY <1>1, LeastNat
<1>3. CASE k = 0
  <2> DEFINE it == [s \in SUBSET S |-> 0]
  <2>1. ASSUME NEW s \in SUBSET S, Cardinality(s) <= 0 PROVE s = {}
    BY <2>1, FS_Subset, FS_EmptySet, FS_CardinalityType
  <2>2. SumsUpto(f, S, 0, it)
    BY <2>1 DEF SumsUpto, AddAny
  <2> QED BY <1>2, <1>3, <2>2
<1>4. CASE k # 0
  <2>1. k - 1 \in Nat /\ k - 1 \notin Bad
    BY <1>2, <1>4
  <2>2. PICK it : SumsUpto(f, S, k - 1, it)
    BY <2>1
  <2> DEFINE new == [s \in SUBSET S |-> AddAny(f, it, s)]
  <2>3. ASSUME NEW s \in SUBSET S, Cardinality(s) <= k
        PROVE  new[s] = AddAny(f, new, s)
    <3>1. CASE s = {}
      BY <3>1 DEF AddAny
    <3>2. CASE s # {}
      <4> DEFINE rest == s \ {AnyOf(s)}
      <4>1. rest \in SUBSET S /\ Cardinality(rest) <= k - 1
        BY <2>3, <3>2, SmallerRest
      <4>2. it[rest] = AddAny(f, it, rest)
        BY <4>1, <2>2 DEF SumsUpto
      <4>3. it[rest] = new[rest]
        BY <4>1, <4>2
      <4>4. new[s] = f[AnyOf(s)] + it[rest]
        BY <3>2 DEF AddAny
      <4>5. AddAny(f, new, s) = f[AnyOf(s)] + new[rest]
        BY <3>2 DEF AddAny
      <4> QED BY <4>3, <4>4, <4>5
    <3> QED BY <3>1, <3>2
  <2>4. SumsUpto(f, S, k, new)
    BY <2>3 DEF SumsUpto
  <2> QED BY <1>2, <2>4
<1> QED BY <1>3, <1>4

LEMMA AddsExists ==
  ASSUME NEW f, NEW S, IsFiniteSet(S)
  PROVE  SumsUp(f, S, CHOOSE it : SumsUp(f, S, it))
<1>1. Cardinality(S) \in Nat
  BY FS_CardinalityType
<1>2. PICK it : SumsUpto(f, S, Cardinality(S), it)
  BY <1>1, UptoAll
<1> DEFINE new == [s \in SUBSET S |-> AddAny(f, it, s)]
<1>3. ASSUME NEW s \in SUBSET S PROVE it[s] = AddAny(f, it, s)
  <2>1. Cardinality(s) <= Cardinality(S)
    BY FS_Subset
  <2> QED BY <1>2, <2>1 DEF SumsUpto
<1>4. ASSUME NEW s \in SUBSET S PROVE AddAny(f, new, s) = AddAny(f, it, s)
  <2>1. CASE s = {}
    BY <2>1 DEF AddAny
  <2>2. CASE s # {}
    <3>1. s \ {AnyOf(s)} \in SUBSET S
      OBVIOUS
    <3>2. new[s \ {AnyOf(s)}] = it[s \ {AnyOf(s)}]
      BY <3>1, <1>3
    <3> QED BY <2>2, <3>2 DEF AddAny
  <2> QED BY <2>1, <2>2
<1>5. new = [s \in SUBSET S |-> AddAny(f, new, s)]
  BY <1>4
<1>6. SumsUp(f, S, new)
  BY <1>5 DEF SumsUp
<1> QED BY <1>6

LEMMA AddsStep ==
  ASSUME NEW f, NEW S, NEW it, SumsUp(f, S, it), NEW s \in SUBSET S
  PROVE  it[s] = AddAny(f, it, s)
<1> DEFINE F == [u \in SUBSET S |-> AddAny(f, it, u)]
<1>1. it = F
  BY DEF SumsUp
<1>2. F[s] = AddAny(f, it, s)
  OBVIOUS
<1> QED BY <1>1, <1>2

LEMMA AddsAgree ==
  ASSUME NEW f, NEW g, NEW S, IsFiniteSet(S), NEW T, T \subseteq S,
         \A x \in T : f[x] = g[x],
         NEW it, SumsUp(f, S, it), NEW jt, SumsUp(g, T, jt)
  PROVE  it[T] = jt[T]
<1> DEFINE Bad == {s \in SUBSET T : it[s] # jt[s]}
<1>0. IsFiniteSet(T)
  BY FS_Subset
<1>1. SUFFICES ASSUME Bad # {} PROVE FALSE
  OBVIOUS
<1> Bad \subseteq SUBSET T
  OBVIOUS
<1>2. PICK s \in Bad : \A u \in Bad : u \subseteq s => u = s
  <2> HIDE DEF Bad
  <2> QED BY <1>0, <1>1, SmallestSubset
<1>3. it[s] = AddAny(f, it, s) /\ jt[s] = AddAny(g, jt, s)
  BY AddsStep
<1>4. CASE s = {}
  BY <1>2, <1>3, <1>4 DEF AddAny
<1>5. CASE s # {}
  <2>1. AnyOf(s) \in s
    BY <1>5, FirstIn
  <2>2. s \ {AnyOf(s)} \in SUBSET T /\ s \ {AnyOf(s)} \subseteq s /\ s \ {AnyOf(s)} # s
    BY <2>1
  <2>3. s \ {AnyOf(s)} \notin Bad
    BY <1>2, <2>2
  <2>4. it[s \ {AnyOf(s)}] = jt[s \ {AnyOf(s)}]
    BY <2>2, <2>3
  <2>5. f[AnyOf(s)] = g[AnyOf(s)]
    BY <2>1
  <2> QED BY <1>2, <1>3, <1>5, <2>4, <2>5 DEF AddAny
<1> QED BY <1>4, <1>5

-----------------------------------------------------------------------------
(* What the proofs cite.                                                   *)

(* Functions that agree on a set have the same total there.                *)
LEMMA TotalSame ==
  ASSUME NEW f, NEW g, NEW S, IsFiniteSet(S), \A x \in S : f[x] = g[x]
  PROVE  Total(f, S) = Total(g, S)
<1> DEFINE it == CHOOSE i : SumsUp(f, S, i)
           jt == CHOOSE j : SumsUp(g, S, j)
<1>1. SumsUp(f, S, it) /\ SumsUp(g, S, jt)
  BY AddsExists
<1>2. it[S] = jt[S]
  <2> HIDE DEF it, jt
  <2> QED BY <1>1, AddsAgree
<1>3. Total(f, S) = it[S] /\ Total(g, S) = jt[S]
  BY TotalUnfolds
<1> QED BY <1>2, <1>3

LEMMA TotalEmpty == ASSUME NEW f PROVE Total(f, {}) = 0
<1>1. IsFiniteSet({}) /\ {} \in SUBSET {}
  BY FS_EmptySet
<1>2. SumsUp(f, {}, CHOOSE it : SumsUp(f, {}, it))
  BY <1>1, AddsExists
<1> QED BY <1>1, <1>2, AddsStep, TotalUnfolds DEF AddAny

LEMMA TotalRest ==
  ASSUME NEW f, NEW S, IsFiniteSet(S), S # {}
  PROVE  Total(f, S) = f[AnyOf(S)] + Total(f, S \ {AnyOf(S)})
<1> DEFINE R == S \ {AnyOf(S)}
           it == CHOOSE i : SumsUp(f, S, i)
           jt == CHOOSE j : SumsUp(f, R, j)
<1>1. IsFiniteSet(R) /\ R \subseteq S
  BY FS_RemoveElement
<1>2. SumsUp(f, S, it) /\ SumsUp(f, R, jt)
  BY <1>1, AddsExists
<1>3. ASSUME NEW i, NEW j, SumsUp(f, S, i), SumsUp(f, R, j) PROVE i[R] = j[R]
  <2> HIDE DEF it, jt, R
  <2>1. \A x \in R : f[x] = f[x]
    OBVIOUS
  <2> QED BY <1>1, <1>3, <2>1, AddsAgree
<1>4. it[S] = AddAny(f, it, S)
  <2> HIDE DEF it
  <2> QED BY <1>2, AddsStep
<1>5. Total(f, S) = it[S] /\ Total(f, R) = jt[R]
  BY TotalUnfolds
<1>6. it[R] = jt[R]
  <2> HIDE DEF it, jt, R
  <2> QED BY <1>2, <1>3
<1> QED BY <1>4, <1>5, <1>6 DEF AddAny

LEMMA TotalInt ==
  ASSUME NEW f, NEW S, IsFiniteSet(S), \A x \in S : f[x] \in Int
  PROVE  Total(f, S) \in Int
<1> DEFINE Bad == {s \in SUBSET S : Total(f, s) \notin Int}
<1> SUFFICES ASSUME Bad # {} PROVE FALSE
  OBVIOUS
<1> Bad \subseteq SUBSET S
  OBVIOUS
<1>1. PICK s \in Bad : \A u \in Bad : u \subseteq s => u = s
  <2> HIDE DEF Bad
  <2> QED BY SmallestSubset
<1>2. s # {}
  <2>1. Total(f, {}) = 0 /\ 0 \in Int
    BY TotalEmpty
  <2>2. Total(f, s) \notin Int
    BY <1>1
  <2> QED BY <2>1, <2>2, Zenon
<1>3. AnyOf(s) \in s /\ IsFiniteSet(s)
  BY <1>2, FirstIn, FS_Subset
<1>4. s \ {AnyOf(s)} \notin Bad
  BY <1>1, <1>3
<1>5. Total(f, s \ {AnyOf(s)}) \in Int /\ f[AnyOf(s)] \in Int
  BY <1>3, <1>4
<1>6. Total(f, s) \in Int
  BY <1>2, <1>3, <1>5, TotalRest
<1> QED BY <1>1, <1>6

(* Any element may be taken out first.                                     *)
LEMMA TotalRemove ==
  ASSUME NEW f, NEW S, IsFiniteSet(S), \A x \in S : f[x] \in Int, NEW x \in S
  PROVE  Total(f, S) = f[x] + Total(f, S \ {x})
<1> DEFINE Bad == {s \in SUBSET S : \E y \in s : Total(f, s) # f[y] + Total(f, s \ {y})}
<1> SUFFICES ASSUME Bad # {} PROVE FALSE
  OBVIOUS
<1> Bad \subseteq SUBSET S
  OBVIOUS
<1>1. PICK s \in Bad : \A u \in Bad : u \subseteq s => u = s
  <2> HIDE DEF Bad
  <2> QED BY SmallestSubset
<1>2. PICK y \in s : Total(f, s) # f[y] + Total(f, s \ {y})
  BY <1>1
<1> DEFINE c == AnyOf(s)
<1>3. c \in s /\ IsFiniteSet(s)
  BY <1>2, FirstIn, FS_Subset
<1>4. Total(f, s) = f[c] + Total(f, s \ {c})
  BY <1>2, <1>3, TotalRest
<1>5. y # c
  BY <1>2, <1>4
<1>6. s \ {c} \notin Bad /\ s \ {y} \notin Bad
  BY <1>1, <1>3
<1>7. Total(f, s \ {c}) = f[y] + Total(f, (s \ {c}) \ {y})
  BY <1>3, <1>5, <1>6
<1>8. Total(f, s \ {y}) = f[c] + Total(f, (s \ {y}) \ {c})
  BY <1>3, <1>5, <1>6
<1>9. (s \ {c}) \ {y} = (s \ {y}) \ {c}
  OBVIOUS
<1>10. Total(f, (s \ {c}) \ {y}) \in Int /\ f[c] \in Int /\ f[y] \in Int
  <2>1. IsFiniteSet((s \ {c}) \ {y}) /\ (s \ {c}) \ {y} \subseteq S /\ c \in S
    BY <1>3, FS_Subset
  <2> QED BY <2>1, TotalInt
<1> HIDE DEF c
<1> QED BY SMTT(30), <1>2, <1>4, <1>7, <1>8, <1>9, <1>10

(* A total changes by as much as the one value that changes.               *)
LEMMA TotalUpdate ==
  ASSUME NEW f, NEW g, NEW S, IsFiniteSet(S), NEW x \in S,
         \A y \in S : f[y] \in Int /\ g[y] \in Int,
         \A y \in S \ {x} : f[y] = g[y]
  PROVE  Total(g, S) = Total(f, S) + g[x] - f[x]
<1>1. IsFiniteSet(S \ {x})
  BY FS_RemoveElement
<1>2. Total(f, S \ {x}) = Total(g, S \ {x}) /\ Total(f, S \ {x}) \in Int
  BY <1>1, TotalSame, TotalInt
<1>3. Total(f, S) = f[x] + Total(f, S \ {x}) /\ Total(g, S) = g[x] + Total(g, S \ {x})
  BY TotalRemove
<1> QED BY <1>2, <1>3

(* Nothing to add, nothing in total.                                       *)
LEMMA TotalZero ==
  ASSUME NEW f, NEW S, IsFiniteSet(S), \A x \in S : f[x] = 0
  PROVE  Total(f, S) = 0
<1> DEFINE Bad == {s \in SUBSET S : Total(f, s) # 0}
<1> SUFFICES ASSUME Bad # {} PROVE FALSE
  OBVIOUS
<1> Bad \subseteq SUBSET S
  OBVIOUS
<1>1. PICK s \in Bad : \A u \in Bad : u \subseteq s => u = s
  <2> HIDE DEF Bad
  <2> QED BY SmallestSubset
<1>2. s # {}
  BY <1>1, TotalEmpty
<1>3. AnyOf(s) \in s /\ IsFiniteSet(s)
  BY <1>2, FirstIn, FS_Subset
<1>4. s \ {AnyOf(s)} \notin Bad
  BY <1>1, <1>3
<1>5. Total(f, s) = 0
  BY <1>2, <1>3, <1>4, TotalRest
<1> QED BY <1>1, <1>5

LEMMA TotalNat ==
  ASSUME NEW f, NEW S, IsFiniteSet(S), \A x \in S : f[x] \in Nat
  PROVE  Total(f, S) \in Nat
<1> DEFINE Bad == {s \in SUBSET S : Total(f, s) \notin Nat}
<1> SUFFICES ASSUME Bad # {} PROVE FALSE
  OBVIOUS
<1> Bad \subseteq SUBSET S
  OBVIOUS
<1>1. PICK s \in Bad : \A u \in Bad : u \subseteq s => u = s
  <2> HIDE DEF Bad
  <2> QED BY SmallestSubset
<1>2. s # {}
  <2>1. Total(f, {}) = 0 /\ 0 \in Nat
    BY TotalEmpty
  <2>2. Total(f, s) \notin Nat
    BY <1>1
  <2> QED BY <2>1, <2>2, Zenon
<1>3. AnyOf(s) \in s /\ IsFiniteSet(s)
  BY <1>2, FirstIn, FS_Subset
<1>4. s \ {AnyOf(s)} \notin Bad
  BY <1>1, <1>3
<1>5. Total(f, s \ {AnyOf(s)}) \in Nat /\ f[AnyOf(s)] \in Nat
  BY <1>3, <1>4
<1>6. Total(f, s) \in Nat
  BY <1>2, <1>3, <1>5, TotalRest
<1> QED BY <1>1, <1>6

(* A total to which at most one element adds, and that no more than k.     *)
LEMMA TotalOfOne ==
  ASSUME NEW f, NEW S, IsFiniteSet(S), NEW k \in Nat,
         \A x \in S : f[x] \in 0..k,
         \A x, y \in S : f[x] > 0 /\ f[y] > 0 => x = y
  PROVE  Total(f, S) <= k
<1>1. CASE \E x \in S : f[x] > 0
  <2>1. PICK x \in S : f[x] > 0
    BY <1>1
  <2>2. \A y \in S \ {x} : f[y] = 0
    BY <2>1
  <2>3. IsFiniteSet(S \ {x})
    BY FS_RemoveElement
  <2>4. Total(f, S \ {x}) = 0
    BY <2>2, <2>3, TotalZero
  <2>5. Total(f, S) = f[x] + Total(f, S \ {x})
    BY TotalRemove
  <2> QED BY <2>4, <2>5
<1>2. CASE \A x \in S : ~(f[x] > 0)
  <2>1. \A x \in S : f[x] = 0
    BY <1>2
  <2>2. Total(f, S) = 0
    BY <2>1, TotalZero
  <2> QED BY <2>2
<1> QED BY <1>1, <1>2

-----------------------------------------------------------------------------
(* Totals over the first numbers.                                          *)
LEMMA TotalUpTo ==
  ASSUME NEW k \in Nat, NEW f, \A i \in 0..k : f[i] \in Int
  PROVE  Total(f, 0..k) = Total(f, 0..(k - 1)) + f[k] /\ Total(f, 0..(k - 1)) \in Int
<1>1. IsFiniteSet(0..k) /\ IsFiniteSet(0..(k - 1)) /\ k \in 0..k
  BY FS_Interval
<1>2. (0..k) \ {k} = 0..(k - 1)
  OBVIOUS
<1>3. Total(f, 0..k) = f[k] + Total(f, (0..k) \ {k})
  BY SMTT(30), <1>1, TotalRemove
<1>4. Total(f, 0..(k - 1)) \in Int
  BY <1>1, TotalInt
<1>5. f[k] \in Int
  BY <1>1
<1>6. Total(f, 0..k) = f[k] + Total(f, 0..(k - 1))
  BY <1>2, <1>3
<1> QED BY <1>4, <1>5, <1>6

(* Shifting a function by one place shifts its totals.                     *)
LEMMA TotalShift ==
  ASSUME NEW n \in Nat, NEW f, NEW g, \A i \in 0..n : f[i] \in Int /\ g[i] \in Int,
         g[0] = 0, \A i \in 1..n : g[i] = f[i - 1]
  PROVE  Total(g, 0..n) = Total(f, 0..(n - 1))
<1> DEFINE Bad == {k \in 0..n : Total(g, 0..k) # Total(f, 0..(k - 1))}
<1> SUFFICES ASSUME Bad # {} PROVE FALSE
  OBVIOUS
<1> Bad \subseteq 0..n /\ Bad \subseteq Nat
  OBVIOUS
<1>1. PICK k \in Bad : \A m \in Bad : k <= m
  <2> HIDE DEF Bad
  <2> QED BY LeastNat
<1>2. k \in 0..n /\ k \in Nat /\ \A i \in 0..k : f[i] \in Int /\ g[i] \in Int
  BY <1>1
<1>3. Total(g, 0..k) = Total(g, 0..(k - 1)) + g[k]
  BY <1>2, TotalUpTo
<1>4. CASE k = 0
  <2>1. 0..(k - 1) = {}
    BY <1>4
  <2>2. Total(g, {}) = 0 /\ Total(f, {}) = 0
    BY TotalEmpty
  <2> QED BY <1>1, <1>3, <1>4, <2>1, <2>2
<1>5. CASE k # 0
  <2>1. k - 1 \in 0..n /\ k - 1 \notin Bad /\ k - 1 \in Nat
    BY <1>1, <1>2, <1>5
  <2>2. Total(g, 0..(k - 1)) = Total(f, 0..(k - 2))
    BY <2>1
  <2>3. \A i \in 0..(k - 1) : f[i] \in Int
    BY <1>2
  <2>4. Total(f, 0..(k - 1)) = Total(f, 0..((k - 1) - 1)) + f[k - 1]
    BY <2>1, <2>3, TotalUpTo
  <2>5. k \in 1..n /\ (k - 1) - 1 = k - 2
    BY <1>2, <1>5
  <2>6. Total(g, 0..k) = Total(f, 0..(k - 1))
    BY <1>3, <2>2, <2>4, <2>5
  <2> QED BY <1>1, <2>6
<1> QED BY <1>4, <1>5
=============================================================================
