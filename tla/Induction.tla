------------------------------ MODULE Induction ------------------------------
(***************************************************************************)
(* Induction over the natural numbers, with the set of numbers a claim     *)
(* holds for in place of the claim; what sets count; and what the folds of *)
(* the community modules come to: over the members of a set, as sums, and  *)
(* over the numbers from 1 to N, as one step after another.  The proofs    *)
(* about this project's folds and recursive functions rest on them.        *)
(***************************************************************************)
EXTENDS Naturals, FiniteSetTheorems, TLAPS

\* A set of natural numbers that is not empty has a least member.
LEMMA LeastMember ==
    ASSUME NEW S \in SUBSET Nat, S # {}
    PROVE  \E n \in S : \A m \in S : n <= m
<1> DEFINE T == {0..n : n \in S}
           R == StrictSubsetOrdering(Nat)
<1>1. \A n \in Nat : 0..n \in FiniteSubsetsOf(Nat)
  BY FS_Interval DEF FiniteSubsetsOf
<1>2. T \subseteq FiniteSubsetsOf(Nat) /\ T # {}
  BY <1>1
<1>3. IsWellFoundedOn(R, FiniteSubsetsOf(Nat))
  BY FS_StrictSubsetOrderingWellFounded
<1> HIDE DEF T, R
<1>4. PICK x \in T : \A y \in T : <<y, x>> \notin R
  BY <1>2, <1>3, WFMin
<1>5. PICK n \in S : x = 0..n
  BY DEF T
<1>6. ASSUME NEW m \in S, m < n PROVE FALSE
  <2>1. 0..m \in T
    BY DEF T
  <2>2. 0..m \subseteq 0..n /\ 0..n \subseteq Nat
    BY <1>6
  <2>3. n \in 0..n /\ n \notin 0..m
    BY <1>6
  <2>4. <<0..m, 0..n>> \in R
    BY <2>2, <2>3 DEF R, StrictSubsetOrdering
  <2> QED BY <1>4, <1>5, <2>1, <2>4
<1> QED BY <1>6

\* A bounded set of natural numbers that is not empty has a greatest member.
LEMMA GreatestMember ==
    ASSUME NEW N \in Nat, NEW S \in SUBSET (0..N), S # {}
    PROVE  \E n \in S : \A m \in S : m <= n
<1> DEFINE T == {N - n : n \in S}
<1>1. T \in SUBSET Nat /\ T # {}
  <2>1. \A n \in S : N - n \in Nat /\ N - n \in T
    OBVIOUS
  <2> QED BY <2>1
<1> HIDE DEF T
<1>2. PICK k \in T : \A m \in T : k <= m
  BY <1>1, LeastMember
<1>3. PICK n \in S : k = N - n
  BY DEF T
<1>4. ASSUME NEW m \in S PROVE m <= n
  <2>1. N - m \in T BY DEF T
  <2> QED BY <1>2, <1>3, <2>1
<1> QED BY <1>4

\* A set that has 0, and the successor of every number in it, has them all.
LEMMA InductionSet ==
    ASSUME NEW S, 0 \in S, \A n \in Nat : n \in S => n + 1 \in S
    PROVE  Nat \subseteq S
<1> SUFFICES ASSUME Nat \ S # {} PROVE FALSE
  OBVIOUS
<1>1. PICK n \in Nat \ S : \A m \in Nat \ S : n <= m
  BY LeastMember
<1>2. n # 0 /\ n - 1 \in Nat /\ n - 1 \in S
  BY <1>1
<1> QED BY <1>2

\* A finite set of integers that is not empty has a greatest member.
LEMMA FiniteHasGreatest ==
    ASSUME NEW S \in SUBSET Int, IsFiniteSet(S), S # {}
    PROVE  \E n \in S : \A m \in S : n >= m
<1> DEFINE Has(T) == T # {} => \E n \in T : \A m \in T : n >= m
           P == {k \in Nat : \A T \in SUBSET Int :
                    IsFiniteSet(T) /\ Cardinality(T) = k => Has(T)}
<1>1. 0 \in P
  BY FS_EmptySet
<1>2. ASSUME NEW k \in Nat, k \in P PROVE k + 1 \in P
  <2> SUFFICES ASSUME NEW T \in SUBSET Int, IsFiniteSet(T), Cardinality(T) = k + 1, T # {}
               PROVE  \E n \in T : \A m \in T : n >= m
    OBVIOUS
  <2>1. PICK x \in T : TRUE
    OBVIOUS
  <2>2. IsFiniteSet(T \ {x}) /\ Cardinality(T \ {x}) = k
    <3>1. Cardinality(T \ {x}) = Cardinality(T) - 1 /\ IsFiniteSet(T \ {x})
      BY FS_RemoveElement
    <3> QED BY <3>1
  <2>3. Has(T \ {x})
    BY <1>2, <2>2
  <2>4. CASE T \ {x} = {}
    <3>1. x >= x /\ \A m \in T : m = x BY <2>1, <2>4
    <3> QED BY <3>1
  <2>5. CASE T \ {x} # {}
    <3>1. PICK n \in T \ {x} : \A m \in T \ {x} : n >= m
      BY <2>3, <2>5
    <3>2. CASE n >= x
      BY <3>1, <3>2
    <3>3. CASE ~(n >= x)
      <4>1. \A m \in T : x >= m
        BY <3>1, <3>3
      <4> QED BY <4>1
    <3> QED BY <3>2, <3>3
  <2> QED BY <2>4, <2>5
<1> HIDE DEF P
<1>3. Nat \subseteq P
  BY <1>1, <1>2, InductionSet
<1>4. Cardinality(S) \in P
  BY <1>3, FS_CardinalityType
<1> QED BY <1>4 DEF P

\* A set with two elements counts more than one.
LEMMA TwoCount ==
    ASSUME NEW S, IsFiniteSet(S), NEW a \in S, NEW b \in S, a # b
    PROVE  Cardinality(S) > 1
<1>1. IsFiniteSet({a, b}) /\ Cardinality({a, b}) = 2
  <2>1. IsFiniteSet({a}) /\ Cardinality({a}) = 1
    BY FS_Singleton
  <2>2. {a, b} = {a} \cup {b} /\ b \notin {a}
    OBVIOUS
  <2> QED BY <2>1, <2>2, FS_AddElement
<1>2. {a, b} \subseteq S
  OBVIOUS
<1>3. Cardinality({a, b}) <= Cardinality(S) /\ Cardinality(S) \in Nat
  BY <1>2, FS_Subset, FS_CardinalityType
<1> QED BY <1>1, <1>3

\* A set with one element at most does not.
LEMMA OneCounts ==
    ASSUME NEW S, NEW a, S \subseteq {a}
    PROVE  ~(Cardinality(S) > 1)
<1>1. CASE S = {}
  <2>1. Cardinality(S) = 0 BY <1>1, FS_EmptySet
  <2> QED BY <2>1
<1>2. CASE S = {a}
  <2>1. Cardinality(S) = 1 BY <1>2, FS_Singleton
  <2> QED BY <2>1
<1> QED BY <1>1, <1>2

\* A function takes a finite set to one that is finite, and no larger.
LEMMA ImageFinite ==
    ASSUME NEW f, IsFiniteSet(DOMAIN f)
    PROVE  LET T == {f[x] : x \in DOMAIN f}
           IN  IsFiniteSet(T) /\ Cardinality(T) <= Cardinality(DOMAIN f)
<1> DEFINE T == {f[x] : x \in DOMAIN f}
           g == [x \in DOMAIN f |-> f[x]]
<1>1. g \in Surjection(DOMAIN f, T)
  BY DEF Surjection
<1> HIDE DEF T, g
<1>2. IsFiniteSet(T) /\ Cardinality(T) <= Cardinality(DOMAIN f)
  BY <1>1, FS_Surjection
<1> QED BY <1>2 DEF T


----------------------------------------------------------------------------
(* Folds and sums.                                                         *)

\* What a fold over the members of a finite set, picked in some way, is.
IsFold(f, I, base, op, pick) ==
    f = [s \in SUBSET I |-> IF s = {} THEN base
                            ELSE op[<<f[s \ {pick[s]}], pick[s]>>]]

\* Taking a member away from a finite set leaves one less.
LEMMA OneLess ==
    ASSUME NEW S, IsFiniteSet(S), NEW x \in S, NEW n \in Nat, Cardinality(S) <= n + 1
    PROVE  IsFiniteSet(S \ {x}) /\ Cardinality(S \ {x}) <= n
<1>1. IsFiniteSet(S \ {x}) /\ Cardinality(S \ {x}) = Cardinality(S) - 1
  BY FS_RemoveElement
<1>2. Cardinality(S) \in Nat
  BY FS_CardinalityType
<1> QED BY <1>1, <1>2

\* There is such a fold.
LEMMA FoldExists ==
    ASSUME NEW I, IsFiniteSet(I), NEW V, NEW base \in V, NEW op \in [V \X I -> V],
           NEW pick, \A s \in SUBSET I : s # {} => pick[s] \in s
    PROVE  \E f \in [SUBSET I -> V] : IsFold(f, I, base, op, pick)
<1> DEFINE Step(f, s) == IF s = {} THEN base ELSE op[<<f[s \ {pick[s]}], pick[s]>>]
           Upto(f, n) == \A s \in SUBSET I : Cardinality(s) <= n => f[s] = Step(f, s)
           P == {n \in Nat : \E f \in [SUBSET I -> V] : Upto(f, n)}
<1>1. \A s \in SUBSET I : IsFiniteSet(s) /\ Cardinality(s) \in Nat
  BY FS_Subset, FS_CardinalityType
<1>2. 0 \in P
  <2> DEFINE f == [s \in SUBSET I |-> base]
  <2>1. f \in [SUBSET I -> V]
    OBVIOUS
  <2>2. ASSUME NEW s \in SUBSET I, Cardinality(s) <= 0 PROVE f[s] = Step(f, s)
    <3>1. Cardinality(s) = 0
      BY <1>1, <2>2
    <3>2. s = {}
      BY <1>1, <3>1, FS_EmptySet
    <3> QED BY <3>2
  <2> QED BY <2>1, <2>2
<1>3. ASSUME NEW n \in Nat, n \in P PROVE n + 1 \in P
  <2>1. PICK f \in [SUBSET I -> V] : Upto(f, n)
    BY <1>3
  <2> DEFINE g == [s \in SUBSET I |-> Step(f, s)]
  <2>2. g \in [SUBSET I -> V]
    <3>1. ASSUME NEW s \in SUBSET I, s # {} PROVE op[<<f[s \ {pick[s]}], pick[s]>>] \in V
      <4>1. s \ {pick[s]} \in SUBSET I /\ pick[s] \in I
        BY <3>1
      <4>2. <<f[s \ {pick[s]}], pick[s]>> \in V \X I
        BY <4>1
      <4> QED BY <4>2
    <3> QED BY <3>1
  <2>3. ASSUME NEW s \in SUBSET I, Cardinality(s) <= n + 1 PROVE g[s] = Step(g, s)
    <3>1. CASE s = {}
      BY <3>1
    <3>2. CASE s # {}
      <4> DEFINE r == s \ {pick[s]}
      <4>1. pick[s] \in s /\ r \in SUBSET I
        BY <3>2
      <4>2. Cardinality(r) <= n
        BY <1>1, <2>3, <4>1, OneLess
      <4>3. f[r] = g[r]
        BY <2>1, <4>1, <4>2
      <4> QED BY <3>2, <4>3
    <3> QED BY <3>1, <3>2
  <2> HIDE DEF g
  <2> QED BY <2>2, <2>3
<1> HIDE DEF P
<1>4. Cardinality(I) \in P
  BY <1>1, <1>2, <1>3, InductionSet
<1>5. PICK f \in [SUBSET I -> V] : Upto(f, Cardinality(I))
  BY <1>4 DEF P
<1>6. ASSUME NEW s \in SUBSET I PROVE f[s] = Step(f, s)
  <2>1. Cardinality(s) <= Cardinality(I)
    BY FS_Subset
  <2> QED BY <1>5, <2>1
<1>7. f = [s \in SUBSET I |-> Step(f, s)]
  <2> HIDE DEF Step
  <2>1. f = [s \in SUBSET I |-> f[s]]
    OBVIOUS
  <2> QED BY <1>6, <2>1
<1> QED BY <1>7 DEF IsFold

\* A sum adds the values of the members, in whatever order.
Summed(it, f, S) ==
    it = [s \in SUBSET S |-> IF s = {} THEN 0
                             ELSE f[CHOOSE x \in s : TRUE] + it[s \ {CHOOSE x \in s : TRUE}]]

\* The library's sum is such a function's value.
LEMMA SumIs ==
    ASSUME NEW S, IsFiniteSet(S), NEW f, \A x \in S : f[x] \in Nat
    PROVE  \E it \in [SUBSET S -> Nat] : Summed(it, f, S) /\ SumFunctionOnSet(f, S) = it[S]
<1> DEFINE op == [p \in Nat \X S |-> f[p[2]] + p[1]]
           pick == [s \in SUBSET S |-> CHOOSE x \in s : TRUE]
           body(it) == [s \in SUBSET S |-> IF s = {} THEN 0
                             ELSE f[CHOOSE x \in s : TRUE] + it[s \ {CHOOSE x \in s : TRUE}]]
           it == CHOOSE x : x = body(x)
<1>1. op \in [Nat \X S -> Nat]
  OBVIOUS
<1>2. \A s \in SUBSET S : s # {} => pick[s] \in s
  OBVIOUS
<1> HIDE DEF op, pick
<1>3. PICK g \in [SUBSET S -> Nat] : IsFold(g, S, 0, op, pick)
  <2>1. 0 \in Nat
    OBVIOUS
  <2> QED BY <1>1, <1>2, <2>1, FoldExists
<1>4. ASSUME NEW s \in SUBSET S, s # {}, NEW h \in [SUBSET S -> Nat]
      PROVE  op[<<h[s \ {pick[s]}], pick[s]>>] =
                f[CHOOSE x \in s : TRUE] + h[s \ {CHOOSE x \in s : TRUE}]
  <2> DEFINE y == CHOOSE x \in s : TRUE
             p == <<h[s \ {y}], y>>
  <2>1. y \in s /\ pick[s] = y
    BY <1>4 DEF pick
  <2>2. p \in Nat \X S /\ p[1] = h[s \ {y}] /\ p[2] = y
    BY <2>1
  <2>3. op[p] = f[y] + h[s \ {y}]
    BY <2>2 DEF op
  <2> QED BY <2>1, <2>3
<1>5. g = body(g)
  BY <1>3, <1>4 DEF IsFold
<1> HIDE DEF body
<1>6. it = body(it)
  BY <1>5
<1>7. SumFunctionOnSet(f, S) = it[S]
  BY DEF SumFunctionOnSet, FoldFunctionOnSet, MapThenFoldSet, body
<1> HIDE DEF it
<1> DEFINE Q == {n \in Nat : \A s \in SUBSET S : Cardinality(s) <= n => it[s] = g[s]}
<1>8. 0 \in Q
  <2>1. ASSUME NEW s \in SUBSET S, Cardinality(s) <= 0 PROVE it[s] = g[s]
    <3>1. Cardinality(s) = 0 /\ IsFiniteSet(s)
      BY <2>1, FS_Subset, FS_CardinalityType
    <3>2. s = {}
      BY <3>1, FS_EmptySet
    <3> QED BY <1>5, <1>6, <3>2 DEF body
  <2> QED BY <2>1
<1>9. ASSUME NEW n \in Nat, n \in Q PROVE n + 1 \in Q
  <2>1. ASSUME NEW s \in SUBSET S, Cardinality(s) <= n + 1, s # {} PROVE it[s] = g[s]
    <3> DEFINE y == CHOOSE x \in s : TRUE
    <3>1. y \in s
      BY <2>1
    <3> HIDE DEF y
    <3>2. s \ {y} \in SUBSET S /\ Cardinality(s \ {y}) <= n
      BY <2>1, <3>1, OneLess, FS_Subset
    <3>3. it[s \ {y}] = g[s \ {y}]
      BY <1>9, <3>2
    <3> QED BY <1>5, <1>6, <2>1, <3>3 DEF body, y
  <2>2. ASSUME NEW s \in SUBSET S, s = {} PROVE it[s] = g[s]
    BY <1>5, <1>6, <2>2 DEF body
  <2> QED BY <2>1, <2>2
<1> HIDE DEF Q
<1>10. \A s \in SUBSET S : Cardinality(s) \in Nat /\ Cardinality(s) \in Q
  BY <1>8, <1>9, InductionSet, FS_Subset, FS_CardinalityType
<1>11. \A s \in SUBSET S : it[s] = g[s]
  BY <1>10 DEF Q
<1>12. it \in [SUBSET S -> Nat]
  <2>1. it = [s \in SUBSET S |-> it[s]]
    BY <1>6 DEF body
  <2> QED BY <1>11, <2>1
<1> QED BY <1>6, <1>7, <1>12 DEF Summed, body


\* Which set a sum is taken over as a part makes no difference to it.
LEMMA SumsAgree ==
    ASSUME NEW S, NEW T, NEW it, NEW is, NEW f, NEW g, NEW U, IsFiniteSet(U),
           U \subseteq S, U \subseteq T, Summed(it, f, S), Summed(is, g, T),
           \A x \in U : f[x] = g[x]
    PROVE  it[U] = is[U]
<1> DEFINE Q == {n \in Nat : \A s \in SUBSET U : Cardinality(s) <= n => it[s] = is[s]}
           it1(s) == IF s = {} THEN 0
                     ELSE f[CHOOSE x \in s : TRUE] + it[s \ {CHOOSE x \in s : TRUE}]
           is1(s) == IF s = {} THEN 0
                     ELSE g[CHOOSE x \in s : TRUE] + is[s \ {CHOOSE x \in s : TRUE}]
<1>0. \A s \in SUBSET U : it[s] = it1(s) /\ is[s] = is1(s)
  BY DEF Summed
<1>1. it[{}] = 0 /\ is[{}] = 0
  BY <1>0
<1>2. 0 \in Q
  <2>1. ASSUME NEW s \in SUBSET U, Cardinality(s) <= 0 PROVE s = {}
    <3>1. Cardinality(s) = 0 /\ IsFiniteSet(s)
      BY <2>1, FS_Subset, FS_CardinalityType
    <3> QED BY <3>1, FS_EmptySet
  <2> QED BY <1>1, <2>1
<1>3. ASSUME NEW n \in Nat, n \in Q PROVE n + 1 \in Q
  <2>1. ASSUME NEW s \in SUBSET U, Cardinality(s) <= n + 1, s # {} PROVE it[s] = is[s]
    <3> DEFINE y == CHOOSE x \in s : TRUE
    <3>1. y \in s
      BY <2>1
    <3>2. it[s] = f[y] + it[s \ {y}] /\ is[s] = g[y] + is[s \ {y}]
      BY <1>0, <2>1
    <3> HIDE DEF y
    <3>3. s \ {y} \in SUBSET U /\ Cardinality(s \ {y}) <= n
      BY <2>1, <3>1, OneLess, FS_Subset
    <3>4. it[s \ {y}] = is[s \ {y}]
      BY <1>3, <3>3
    <3> QED BY <3>1, <3>2, <3>4
  <2> QED BY <1>1, <2>1
<1> HIDE DEF Q
<1>4. Cardinality(U) \in Nat /\ Cardinality(U) \in Q
  BY <1>2, <1>3, InductionSet, FS_CardinalityType
<1> QED BY <1>4 DEF Q

\* A sum of natural numbers is one.
LEMMA SumType ==
    ASSUME NEW S, IsFiniteSet(S), NEW f, \A x \in S : f[x] \in Nat
    PROVE  SumFunctionOnSet(f, S) \in Nat
<1>1. PICK it \in [SUBSET S -> Nat] : Summed(it, f, S) /\ SumFunctionOnSet(f, S) = it[S]
  BY SumIs
<1> QED BY <1>1

\* Nothing comes to nothing.
LEMMA SumOfNone ==
    ASSUME NEW f
    PROVE  SumFunctionOnSet(f, {}) = 0
<1>1. IsFiniteSet({})
  BY FS_EmptySet
<1>2. PICK it : Summed(it, f, {}) /\ SumFunctionOnSet(f, {}) = it[{}]
  BY <1>1, SumIs
<1> QED BY <1>2 DEF Summed

\* A sum depends on the values of the members alone.
LEMMA SumOfSame ==
    ASSUME NEW S, IsFiniteSet(S), NEW f, NEW g, \A x \in S : f[x] \in Nat /\ f[x] = g[x]
    PROVE  SumFunctionOnSet(f, S) = SumFunctionOnSet(g, S)
<1>1. PICK it : Summed(it, f, S) /\ SumFunctionOnSet(f, S) = it[S]
  BY SumIs
<1>2. PICK is : Summed(is, g, S) /\ SumFunctionOnSet(g, S) = is[S]
  BY SumIs
<1> QED BY <1>1, <1>2, SumsAgree

\* Any member's value can be taken out of a sum.
LEMMA SumTaken ==
    ASSUME NEW S, IsFiniteSet(S), NEW f, \A x \in S : f[x] \in Nat, NEW x \in S
    PROVE  SumFunctionOnSet(f, S) = f[x] + SumFunctionOnSet(f, S \ {x})
<1>1. PICK it \in [SUBSET S -> Nat] : Summed(it, f, S) /\ SumFunctionOnSet(f, S) = it[S]
  BY SumIs
<1> DEFINE Q == {n \in Nat : \A s \in SUBSET S : Cardinality(s) <= n =>
                                \A y \in s : it[s] = f[y] + it[s \ {y}]}
<1>0. \A s \in SUBSET S : s # {} =>
          it[s] = f[CHOOSE y \in s : TRUE] + it[s \ {CHOOSE y \in s : TRUE}]
  BY <1>1 DEF Summed
<1>2. 0 \in Q
  <2>1. ASSUME NEW s \in SUBSET S, Cardinality(s) <= 0 PROVE s = {}
    <3>1. Cardinality(s) = 0 /\ IsFiniteSet(s)
      BY <2>1, FS_Subset, FS_CardinalityType
    <3> QED BY <3>1, FS_EmptySet
  <2> QED BY <2>1
<1>3. ASSUME NEW n \in Nat, n \in Q PROVE n + 1 \in Q
  <2>1. ASSUME NEW s \in SUBSET S, Cardinality(s) <= n + 1, NEW y \in s
        PROVE  it[s] = f[y] + it[s \ {y}]
    <3> DEFINE z == CHOOSE v \in s : TRUE
    <3>1. z \in s
      OBVIOUS
    <3>2. it[s] = f[z] + it[s \ {z}]
      BY <1>0
    <3> HIDE DEF z
    <3>3. CASE y = z
      BY <3>2, <3>3
    <3>4. CASE y # z
      <4> DEFINE u == s \ {z}
                 v == s \ {y}
                 w == s \ {y, z}
      <4>1. y \in u /\ z \in v /\ u \ {y} = w /\ v \ {z} = w
        BY <3>1, <3>4
      <4>2. u \in SUBSET S /\ v \in SUBSET S /\ w \in SUBSET S
        OBVIOUS
      <4>3. Cardinality(u) <= n /\ Cardinality(v) <= n
        BY <2>1, <3>1, OneLess, FS_Subset
      <4> HIDE DEF u, v, w
      <4>4. it[u] = f[y] + it[w] /\ it[v] = f[z] + it[w]
        BY <1>3, <4>1, <4>2, <4>3
      <4>5. f[y] \in Nat /\ f[z] \in Nat /\ it[u] \in Nat /\ it[v] \in Nat /\ it[w] \in Nat
        BY <1>1, <3>1, <4>2
      <4>6. it[s] = f[y] + it[v]
        BY <3>2, <4>4, <4>5 DEF u
      <4> QED BY <4>6 DEF v
    <3> QED BY <3>3, <3>4
  <2> QED BY <2>1
<1> HIDE DEF Q
<1>4. Cardinality(S) \in Nat /\ Cardinality(S) \in Q
  BY <1>2, <1>3, InductionSet, FS_CardinalityType
<1>5. it[S] = f[x] + it[S \ {x}]
  BY <1>4 DEF Q
<1>6. IsFiniteSet(S \ {x})
  BY FS_Subset
<1>7. PICK is : Summed(is, f, S \ {x}) /\ SumFunctionOnSet(f, S \ {x}) = is[S \ {x}]
  BY <1>6, SumIs
<1>8. it[S \ {x}] = is[S \ {x}]
  BY <1>1, <1>6, <1>7, SumsAgree
<1> QED BY <1>1, <1>5, <1>7, <1>8

\* What holds of no members, and of one more whenever of some, holds of all
\* of a finite set: A is the set of the sets it holds of.
LEMMA OneByOne ==
    ASSUME NEW S, IsFiniteSet(S), NEW A, {} \in A,
           \A T \in SUBSET S : \A x \in S \ T : T \in A => T \cup {x} \in A
    PROVE  S \in A
<1> DEFINE Q == {n \in Nat : \A T \in SUBSET S : Cardinality(T) <= n => T \in A}
<1>1. 0 \in Q
  <2>1. ASSUME NEW s \in SUBSET S, Cardinality(s) <= 0 PROVE s = {}
    <3>1. Cardinality(s) = 0 /\ IsFiniteSet(s)
      BY <2>1, FS_Subset, FS_CardinalityType
    <3> QED BY <3>1, FS_EmptySet
  <2> QED BY <2>1
<1>2. ASSUME NEW n \in Nat, n \in Q PROVE n + 1 \in Q
  <2>1. ASSUME NEW s \in SUBSET S, Cardinality(s) <= n + 1, NEW y \in s PROVE s \in A
    <3>1. Cardinality(s \ {y}) <= n /\ s \ {y} \in SUBSET S
      BY <2>1, OneLess, FS_Subset
    <3>2. s \ {y} \in A
      BY <1>2, <3>1
    <3>3. y \in S \ (s \ {y}) /\ (s \ {y}) \cup {y} = s
      OBVIOUS
    <3> QED BY <3>1, <3>2, <3>3
  <2> QED BY <2>1
<1> HIDE DEF Q
<1>3. Cardinality(S) \in Nat /\ Cardinality(S) \in Q
  BY <1>1, <1>2, InductionSet, FS_CardinalityType
<1> QED BY <1>3 DEF Q

\* One more adds its value.
LEMMA SumOneMore ==
    ASSUME NEW S, IsFiniteSet(S), NEW x, x \notin S, NEW f, \A y \in S \cup {x} : f[y] \in Nat
    PROVE  SumFunctionOnSet(f, S \cup {x}) = f[x] + SumFunctionOnSet(f, S)
<1>1. IsFiniteSet(S \cup {x}) /\ (S \cup {x}) \ {x} = S /\ x \in S \cup {x}
  BY FS_AddElement
<1>2. SumFunctionOnSet(f, S \cup {x}) = f[x] + SumFunctionOnSet(f, (S \cup {x}) \ {x})
  BY <1>1, SumTaken
<1> QED BY <1>1, <1>2

\* Smaller values have a smaller sum.
LEMMA SumLess ==
    ASSUME NEW S, IsFiniteSet(S), NEW f, NEW g,
           \A x \in S : f[x] \in Nat /\ g[x] \in Nat /\ f[x] <= g[x]
    PROVE  SumFunctionOnSet(f, S) <= SumFunctionOnSet(g, S)
<1> DEFINE A == {T \in SUBSET S : SumFunctionOnSet(f, T) <= SumFunctionOnSet(g, T)}
<1>1. {} \in A
  BY SumOfNone
<1>2. ASSUME NEW T \in SUBSET S, NEW x \in S \ T, T \in A PROVE T \cup {x} \in A
  <2>1. IsFiniteSet(T)
    BY FS_Subset
  <2>2. /\ SumFunctionOnSet(f, T \cup {x}) = f[x] + SumFunctionOnSet(f, T)
        /\ SumFunctionOnSet(g, T \cup {x}) = g[x] + SumFunctionOnSet(g, T)
    BY <2>1, SumOneMore
  <2>3. SumFunctionOnSet(f, T) \in Nat /\ SumFunctionOnSet(g, T) \in Nat
    BY <2>1, SumType
  <2>4. f[x] \in Nat /\ g[x] \in Nat /\ f[x] <= g[x]
    OBVIOUS
  <2>5. SumFunctionOnSet(f, T) <= SumFunctionOnSet(g, T)
    BY <1>2
  <2> QED BY <2>2, <2>3, <2>4, <2>5
<1> HIDE DEF A
<1>3. S \in A
  BY <1>1, <1>2, OneByOne
<1> QED BY <1>3 DEF A

\* The sum of sums.
LEMMA SumOfBoth ==
    ASSUME NEW S, IsFiniteSet(S), NEW f, NEW g, NEW h,
           \A x \in S : f[x] \in Nat /\ g[x] \in Nat /\ h[x] = f[x] + g[x]
    PROVE  SumFunctionOnSet(h, S) = SumFunctionOnSet(f, S) + SumFunctionOnSet(g, S)
<1> DEFINE Total(T) == SumFunctionOnSet(h, T) = SumFunctionOnSet(f, T) + SumFunctionOnSet(g, T)
           A == {T \in SUBSET S : Total(T)}
<1>1. {} \in A
  BY SumOfNone
<1>2. ASSUME NEW T \in SUBSET S, NEW x \in S \ T, T \in A PROVE T \cup {x} \in A
  <2>1. IsFiniteSet(T)
    BY FS_Subset
  <2>2. \A y \in S : h[y] \in Nat
    OBVIOUS
  <2>3. /\ SumFunctionOnSet(f, T \cup {x}) = f[x] + SumFunctionOnSet(f, T)
        /\ SumFunctionOnSet(g, T \cup {x}) = g[x] + SumFunctionOnSet(g, T)
        /\ SumFunctionOnSet(h, T \cup {x}) = h[x] + SumFunctionOnSet(h, T)
    BY <2>1, <2>2, SumOneMore
  <2>4. SumFunctionOnSet(f, T) \in Nat /\ SumFunctionOnSet(g, T) \in Nat
    BY <2>1, SumType
  <2>5. f[x] \in Nat /\ g[x] \in Nat /\ h[x] = f[x] + g[x]
    OBVIOUS
  <2>6. Total(T)
    BY <1>2
  <2> QED BY <2>3, <2>4, <2>5, <2>6
<1> HIDE DEF A
<1>3. S \in A
  BY <1>1, <1>2, OneByOne
<1> QED BY <1>3 DEF A

\* A product distributes over natural numbers.
LEMMA Distributes ==
    ASSUME NEW a \in Nat, NEW b \in Nat, NEW c \in Nat
    PROVE  c * (a + b) = c * a + c * b /\ (a + b) * c = a * c + b * c
OBVIOUS

\* A factor may be taken out of a sum.
LEMMA SumOfMultiples ==
    ASSUME NEW S, IsFiniteSet(S), NEW f, NEW h, NEW c \in Nat,
           \A x \in S : f[x] \in Nat /\ h[x] = c * f[x]
    PROVE  SumFunctionOnSet(h, S) = c * SumFunctionOnSet(f, S)
<1> DEFINE A == {T \in SUBSET S : SumFunctionOnSet(h, T) = c * SumFunctionOnSet(f, T)}
<1>1. {} \in A
  BY SumOfNone
<1>2. ASSUME NEW T \in SUBSET S, NEW x \in S \ T, T \in A PROVE T \cup {x} \in A
  <2>1. IsFiniteSet(T)
    BY FS_Subset
  <2>2. \A y \in S : h[y] \in Nat
    OBVIOUS
  <2>3. /\ SumFunctionOnSet(f, T \cup {x}) = f[x] + SumFunctionOnSet(f, T)
        /\ SumFunctionOnSet(h, T \cup {x}) = h[x] + SumFunctionOnSet(h, T)
    BY <2>1, <2>2, SumOneMore
  <2>4. SumFunctionOnSet(f, T) \in Nat /\ f[x] \in Nat
    BY <2>1, SumType
  <2>5. h[x] = c * f[x] /\ SumFunctionOnSet(h, T) = c * SumFunctionOnSet(f, T)
    BY <1>2
  <2>6. c * (f[x] + SumFunctionOnSet(f, T)) = c * f[x] + c * SumFunctionOnSet(f, T)
    BY <2>4, Distributes
  <2>7. SumFunctionOnSet(h, T \cup {x}) = c * SumFunctionOnSet(f, T \cup {x})
    BY <2>3, <2>5, <2>6
  <2> QED BY <2>7
<1> HIDE DEF A
<1>3. S \in A
  BY <1>1, <1>2, OneByOne
<1> QED BY <1>3 DEF A

\* A sum over two sets apart.
LEMMA SumOverBoth ==
    ASSUME NEW S, IsFiniteSet(S), NEW T, IsFiniteSet(T), S \cap T = {}, NEW f,
           \A x \in S \cup T : f[x] \in Nat
    PROVE  SumFunctionOnSet(f, S \cup T) = SumFunctionOnSet(f, S) + SumFunctionOnSet(f, T)
<1> DEFINE A == {U \in SUBSET T :
                    SumFunctionOnSet(f, S \cup U) = SumFunctionOnSet(f, S) + SumFunctionOnSet(f, U)}
<1>1. {} \in A
  <2>1. S \cup {} = S /\ SumFunctionOnSet(f, S) \in Nat
    BY SumType
  <2> QED BY <2>1, SumOfNone
<1>2. ASSUME NEW U \in SUBSET T, NEW x \in T \ U, U \in A PROVE U \cup {x} \in A
  <2>1. IsFiniteSet(U) /\ IsFiniteSet(S \cup U) /\ x \notin S \cup U
    BY FS_Subset, FS_Union
  <2>2. S \cup (U \cup {x}) = (S \cup U) \cup {x}
    OBVIOUS
  <2>3. /\ SumFunctionOnSet(f, (S \cup U) \cup {x}) = f[x] + SumFunctionOnSet(f, S \cup U)
        /\ SumFunctionOnSet(f, U \cup {x}) = f[x] + SumFunctionOnSet(f, U)
    BY <2>1, SumOneMore
  <2>4. SumFunctionOnSet(f, S) \in Nat /\ SumFunctionOnSet(f, U) \in Nat /\ f[x] \in Nat
    BY <2>1, SumType
  <2>5. SumFunctionOnSet(f, S \cup U) = SumFunctionOnSet(f, S) + SumFunctionOnSet(f, U)
    BY <1>2
  <2>6. SumFunctionOnSet(f, (S \cup U) \cup {x}) = SumFunctionOnSet(f, S) + SumFunctionOnSet(f, U \cup {x})
    BY <2>3, <2>4, <2>5
  <2> QED BY <2>2, <2>6
<1> HIDE DEF A
<1>3. T \in A
  BY <1>1, <1>2, OneByOne
<1> QED BY <1>3 DEF A

\* A sum taken group by group.
LEMMA SumByGroups ==
    ASSUME NEW S, IsFiniteSet(S), NEW T, IsFiniteSet(T), NEW group, NEW f,
           \A x \in S : f[x] \in Nat /\ group[x] \in T
    PROVE  SumFunctionOnSet(f, S) =
           SumFunctionOnSet([t \in T |-> SumFunctionOnSet(f, {x \in S : group[x] = t})], T)
<1> DEFINE Of1(U) == {x \in S : group[x] \in U}
           g == [t \in T |-> SumFunctionOnSet(f, {x \in S : group[x] = t})]
           A == {U \in SUBSET T : SumFunctionOnSet(f, Of1(U)) = SumFunctionOnSet(g, U)}
<1>0. \A t \in T : g[t] \in Nat
  <2> SUFFICES ASSUME NEW t \in T PROVE g[t] \in Nat
    OBVIOUS
  <2>1. IsFiniteSet({x \in S : group[x] = t})
    BY FS_Subset
  <2>2. SumFunctionOnSet(f, {x \in S : group[x] = t}) \in Nat
    BY <2>1, SumType
  <2> QED BY <2>2
<1>1. {} \in A
  <2>1. Of1({}) = {}
    OBVIOUS
  <2>2. SumFunctionOnSet(f, {}) = 0 /\ SumFunctionOnSet(g, {}) = 0
    BY SumOfNone
  <2> QED BY <2>1, <2>2
<1>2. ASSUME NEW U \in SUBSET T, NEW t \in T \ U, U \in A PROVE U \cup {t} \in A
  <2> DEFINE one == {x \in S : group[x] = t}
  <2>1. Of1(U \cup {t}) = Of1(U) \cup one /\ Of1(U) \cap one = {}
    OBVIOUS
  <2>2. Of1(U) \in SUBSET S /\ one \in SUBSET S
    OBVIOUS
  <2>3. g[t] = SumFunctionOnSet(f, one)
    OBVIOUS
  <2>4. SumFunctionOnSet(f, Of1(U)) = SumFunctionOnSet(g, U)
    BY <1>2
  <2> HIDE DEF g, Of1, one
  <2>5. IsFiniteSet(Of1(U)) /\ IsFiniteSet(one) /\ IsFiniteSet(U)
    BY <2>2, FS_Subset
  <2>6. SumFunctionOnSet(f, Of1(U) \cup one) = SumFunctionOnSet(f, Of1(U)) + SumFunctionOnSet(f, one)
    BY <2>1, <2>2, <2>5, SumOverBoth
  <2>7. SumFunctionOnSet(g, U \cup {t}) = g[t] + SumFunctionOnSet(g, U)
    BY <1>0, <2>5, SumOneMore
  <2>8. SumFunctionOnSet(g, U) \in Nat /\ g[t] \in Nat
    BY <1>0, <2>5, SumType
  <2>9. SumFunctionOnSet(f, Of1(U \cup {t})) = SumFunctionOnSet(g, U \cup {t})
    <3>1. SumFunctionOnSet(f, Of1(U) \cup one) = SumFunctionOnSet(g, U \cup {t})
      BY <2>3, <2>4, <2>6, <2>7, <2>8
    <3>2. SumFunctionOnSet(f, Of1(U \cup {t})) = SumFunctionOnSet(f, Of1(U) \cup one)
      BY <2>1
    <3> QED BY <3>1, <3>2
  <2> QED BY <2>9
<1>3. Of1(T) = S
  OBVIOUS
<1> HIDE DEF A, g, Of1
<1>4. T \in A
  BY <1>1, <1>2, OneByOne
<1>5. SumFunctionOnSet(f, Of1(T)) = SumFunctionOnSet(g, T)
  BY <1>4 DEF A
<1> QED BY <1>3, <1>5 DEF g

\* What is shared out in proportion, rounding down, comes to no more than
\* there was: g[x] is at most f[x] * c / m, and the shares f add up to m.
LEMMA SharedOut ==
    ASSUME NEW S, IsFiniteSet(S), NEW f, NEW g, NEW c \in Nat, NEW m \in Nat, m # 0,
           \A x \in S : f[x] \in Nat /\ g[x] \in Nat /\ m * g[x] <= c * f[x],
           SumFunctionOnSet(f, S) <= m
    PROVE  SumFunctionOnSet(g, S) <= c
<1> DEFINE left == [x \in S |-> m * g[x]]
           right == [x \in S |-> c * f[x]]
           F == SumFunctionOnSet(f, S)
           G == SumFunctionOnSet(g, S)
<1>1. \A x \in S : left[x] \in Nat /\ right[x] \in Nat /\ left[x] <= right[x]
                   /\ left[x] = m * g[x] /\ right[x] = c * f[x]
  OBVIOUS
<1>2. F \in Nat /\ G \in Nat
  BY SumType
<1> HIDE DEF left, right
<1>3. SumFunctionOnSet(left, S) <= SumFunctionOnSet(right, S)
  BY <1>1, SumLess
<1>4. SumFunctionOnSet(left, S) = m * G
  BY <1>1, SumOfMultiples
<1>5. SumFunctionOnSet(right, S) = c * F
  BY <1>1, SumOfMultiples
<1> HIDE DEF F, G
<1>6. m * G <= c * F
  BY <1>3, <1>4, <1>5
<1>7. c * F <= c * m
  BY <1>2 DEF F
<1>8. m * G <= m * c
  BY <1>2, <1>6, <1>7
<1>9. G <= c
  BY <1>2, <1>8
<1> QED BY <1>9 DEF G

\* Nothing adds up to nothing, and can be left out of a sum.
LEMMA SumOfZeros ==
    ASSUME NEW S, IsFiniteSet(S), NEW f, \A x \in S : f[x] = 0
    PROVE  SumFunctionOnSet(f, S) = 0
<1>1. \A x \in S : f[x] \in Nat /\ f[x] = 0 * f[x]
  OBVIOUS
<1>2. SumFunctionOnSet(f, S) = 0 * SumFunctionOnSet(f, S)
  BY <1>1, SumOfMultiples
<1>3. SumFunctionOnSet(f, S) \in Nat
  BY <1>1, SumType
<1> QED BY <1>2, <1>3

\* What is nothing can be left out of a sum.
LEMMA SumOfPart ==
    ASSUME NEW S, IsFiniteSet(S), NEW T \in SUBSET S, NEW f, \A x \in T : f[x] \in Nat,
           \A x \in S \ T : f[x] = 0
    PROVE  SumFunctionOnSet(f, S) = SumFunctionOnSet(f, T)
<1>1. IsFiniteSet(T) /\ IsFiniteSet(S \ T) /\ T \cup (S \ T) = S /\ T \cap (S \ T) = {}
  BY FS_Subset
<1>2. \A x \in T \cup (S \ T) : f[x] \in Nat
  OBVIOUS
<1>3. SumFunctionOnSet(f, T \cup (S \ T)) = SumFunctionOnSet(f, T) + SumFunctionOnSet(f, S \ T)
  BY <1>1, <1>2, SumOverBoth
<1>4. SumFunctionOnSet(f, S \ T) = 0 /\ SumFunctionOnSet(f, T) \in Nat
  BY <1>1, SumOfZeros, SumType
<1>5. SumFunctionOnSet(f, S) = SumFunctionOnSet(f, T) + SumFunctionOnSet(f, S \ T)
  BY <1>1, <1>3
<1> QED BY <1>4, <1>5


----------------------------------------------------------------------------
(* Folds over the numbers from 1 to N: one step after another.             *)

Greatest(s) == CHOOSE x \in s : \A y \in s : x >= y

\* A set of numbers has a greatest.
LEMMA GreatestIs ==
    ASSUME NEW N \in Nat, NEW s \in SUBSET (1..N), s # {}
    PROVE  Greatest(s) \in s /\ \A y \in s : Greatest(s) >= y
<1>1. s \in SUBSET (0..N)
  OBVIOUS
<1>2. \E x \in s : \A y \in s : y <= x
  BY <1>1, GreatestMember
<1>3. \E x \in s : \A y \in s : x >= y
  BY <1>1, <1>2
<1> QED BY <1>3 DEF Greatest

\* What such a fold is, on every set of numbers, and what the steps in turn
\* come to.
IsStepFold(g, N, base, op) ==
    /\ g[{}] = base
    /\ \A s \in SUBSET (1..N) :
          s # {} => g[s] = op[<<g[s \ {Greatest(s)}], Greatest(s)>>]

StepsIn(f, N, V, base, op) ==
    /\ f[{}] = base
    /\ \A s \in SUBSET (1..N) :
          s # {} /\ f[s \ {Greatest(s)}] \in V =>
              f[s] = op[<<f[s \ {Greatest(s)}], Greatest(s)>>]

InTurn(h, f, N, base, op) ==
    /\ h[0] = base
    /\ \A n \in 1..N : h[n] = op[<<h[n - 1], n>>]
    /\ h[N] = f[1..N]

\* There is such a fold.
LEMMA StepsExist ==
    ASSUME NEW N \in Nat, NEW V, NEW base \in V, NEW op \in [V \X (1..N) -> V]
    PROVE  \E g \in [SUBSET (1..N) -> V] : IsStepFold(g, N, base, op)
<1> DEFINE pick == [s \in SUBSET (1..N) |-> Greatest(s)]
<1>1. \A s \in SUBSET (1..N) : s # {} => pick[s] \in s
  BY GreatestIs
<1>2. IsFiniteSet(1..N)
  BY FS_Interval
<1>3. \A s \in SUBSET (1..N) : pick[s] = Greatest(s)
  OBVIOUS
<1> HIDE DEF pick
<1>4. PICK g \in [SUBSET (1..N) -> V] : IsFold(g, 1..N, base, op, pick)
  BY <1>1, <1>2, FoldExists
<1>5. IsStepFold(g, N, base, op)
  BY <1>3, <1>4 DEF IsFold, IsStepFold
<1> QED BY <1>5

\* What such a fold comes to is what the steps in turn come to.
LEMMA StepsTaken ==
    ASSUME NEW N \in Nat, NEW V, NEW base \in V, NEW op \in [V \X (1..N) -> V],
           NEW f, StepsIn(f, N, V, base, op)
    PROVE  \E h \in [0..N -> V] : InTurn(h, f, N, base, op)
<1>1. ASSUME NEW n \in 1..N, f[1..(n - 1)] \in V
      PROVE  f[1..n] = op[<<f[1..(n - 1)], n>>] /\ f[1..n] \in V
  <2>1. 1..n \in SUBSET (1..N) /\ n \in 1..n /\ 1..n # {}
    OBVIOUS
  <2>2. Greatest(1..n) = n
    <3>1. Greatest(1..n) \in 1..n /\ \A y \in 1..n : Greatest(1..n) >= y
      BY <2>1, GreatestIs
    <3>2. Greatest(1..n) >= n
      BY <2>1, <3>1
    <3> QED BY <3>1, <3>2
  <2>3. (1..n) \ {n} = 1..(n - 1)
    OBVIOUS
  <2>4. f[1..n] = op[<<f[1..(n - 1)], n>>]
    BY <1>1, <2>1, <2>2, <2>3 DEF StepsIn
  <2>5. <<f[1..(n - 1)], n>> \in V \X (1..N)
    BY <1>1
  <2>6. op[<<f[1..(n - 1)], n>>] \in V
    BY <2>5
  <2> QED BY <2>4, <2>6
<1> DEFINE P == {n \in Nat : n <= N => f[1..n] \in V}
<1>2. 1..0 = {}
  OBVIOUS
<1>3. 0 \in P
  BY <1>2 DEF StepsIn
<1>4. ASSUME NEW n \in Nat, n \in P PROVE n + 1 \in P
  <2>1. CASE n + 1 <= N
    <3>1. n + 1 \in 1..N /\ (n + 1) - 1 = n /\ n <= N
      BY <2>1
    <3>2. f[1..n] \in V
      BY <1>4, <3>1
    <3>3. f[1..(n + 1)] \in V
      BY <1>1, <3>1, <3>2
    <3> QED BY <3>3
  <2> QED BY <2>1
<1> HIDE DEF P
<1>5. \A n \in 0..N : f[1..n] \in V
  <2>1. Nat \subseteq P
    BY <1>3, <1>4, InductionSet
  <2>2. \A n \in 0..N : n \in Nat /\ n <= N
    OBVIOUS
  <2> QED BY <2>1, <2>2 DEF P
<1> DEFINE h == [n \in 0..N |-> f[1..n]]
<1>6. h \in [0..N -> V]
  BY <1>5
<1>7. h[0] = base /\ h[N] = f[1..N]
  BY <1>2 DEF StepsIn
<1>8. \A n \in 1..N : h[n] = op[<<h[n - 1], n>>]
  <2> SUFFICES ASSUME NEW n \in 1..N PROVE h[n] = op[<<h[n - 1], n>>]
    OBVIOUS
  <2>1. n - 1 \in 0..N /\ n \in 0..N
    OBVIOUS
  <2>2. f[1..(n - 1)] \in V
    BY <1>5, <2>1
  <2>3. f[1..n] = op[<<f[1..(n - 1)], n>>]
    BY <1>1, <2>2
  <2> QED BY <2>1, <2>3
<1> HIDE DEF h
<1>9. InTurn(h, f, N, base, op)
  BY <1>7, <1>8 DEF InTurn
<1> QED BY <1>6, <1>7, <1>9

================================================================================
