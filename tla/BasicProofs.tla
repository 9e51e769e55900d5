------------------------------ MODULE BasicProofs ------------------------------
(***************************************************************************)
(* Lemmas about the operators the models are built from: the rules by      *)
(* which an approval stands without a human, and the minima, maxima and    *)
(* sums over finite sets.                                                  *)
(***************************************************************************)
EXTENDS BoardRules, FiniteSetsExt, FiniteSetTheorems, FunctionTheorems, WellFoundedInduction,
        TLAPS

\* Above a threshold of one half, abstentions alone never carry an approval.
LEMMA Majority ==
  ASSUME NEW a \in Nat, NEW r \in Nat, NEW e \in Nat, NEW t \in Nat, t > 50,
         a + r + e # 0,
         100 * (2 * a + e) >= t * 2 * (a + r + e)
  PROVE  a > 0
<1>1. t * 2 * (a + r + e) >= 102 * (a + r + e)
  <2> DEFINE n == a + r + e
  <2>1. n \in Nat
    OBVIOUS
  <2>2. PICK k \in Nat : t = 51 + k
    <3>1. t - 51 \in Nat /\ t = 51 + (t - 51)
      OBVIOUS
    <3> QED
      BY <3>1
  <2>3. t * 2 * n = 102 * n + 2 * (k * n)
    BY <2>1, <2>2
  <2>4. k * n \in Nat
    BY <2>1
  <2> QED
    BY <2>1, <2>3, <2>4
<1> QED
  BY <1>1

\* What _may_apply lets through has an approval and no rejection.
LEMMA OnlyUnopposed ==
  ASSUME NEW d, NEW v \in Votes, NEW t \in Nat, t > 50, MayApply(d, v, t)
  PROVE  v["reject"] = 0 /\ v["approve"] > 0
<1>1. v["approve"] \in Nat /\ v["reject"] \in Nat /\ v["escalate"] \in Nat
  BY DEF Votes, Recommendation
<1>2. Count(v) # 0
  BY <1>1 DEF MayApply, Clears
<1>3. 100 * (2 * v["approve"] + v["escalate"])
        >= t * 2 * (v["approve"] + v["reject"] + v["escalate"])
  BY <1>1, <1>2 DEF MayApply, Clears, HalfCredits, Count
<1>4. v["approve"] > 0
  BY <1>1, <1>2, <1>3, Majority DEF Count
<1> QED
  BY <1>1, <1>4 DEF MayApply, Split

-----------------------------------------------------------------------------
(* Least and greatest elements.                                            *)

\* A set of natural numbers has a least element: what takes the place of
\* induction in the proofs below, as the least counterexample.
LEMMA LeastOf ==
  ASSUME NEW S \in SUBSET Nat, S # {}
  PROVE  \E x \in S : \A y \in S : x <= y
<1> DEFINE R == {ss \in Nat \X Nat : ss[1] < ss[2]}
<1>1. R = OpToRel(<, Nat)
  BY Zenon DEF OpToRel
<1>2. IsWellFoundedOn(R, Nat)
  BY <1>1, NatLessThanWellFounded, Zenon
<1>3. \A x, y \in S : ~ (<<y, x>> \in R) => x <= y
  <2> TAKE x, y \in S
  <2>1. <<y, x>> \in Nat \X Nat /\ <<y, x>>[1] = y /\ <<y, x>>[2] = x
    OBVIOUS
  <2>2. y < x => <<y, x>> \in R
    BY <2>1
  <2>3. x \in Nat /\ y \in Nat
    OBVIOUS
  <2> QED
    BY <2>2, <2>3
<1> HIDE DEF R
<1>4. PICK x \in S : \A y \in S : ~ (<<y, x>> \in R)
  BY <1>2, WFMin
<1> QED
  BY <1>3, <1>4

\* A finite set of integers has a least element.
LEMMA FiniteLeast ==
  ASSUME NEW S \in SUBSET Int, IsFiniteSet(S), S # {}
  PROVE  Min(S) \in S /\ \A y \in S : Min(S) <= y
<1> DEFINE Bare(T) == T # {} /\ ~ \E x \in T : \A y \in T : x <= y
           Bad == {n \in Nat : \E T \in SUBSET S : Bare(T) /\ Cardinality(T) = n}
<1>1. \A T \in SUBSET S : IsFiniteSet(T) /\ Cardinality(T) \in Nat
  BY FS_Subset, FS_CardinalityType
<1>2. Bad = {}
  <2> SUFFICES ASSUME Bad # {} PROVE FALSE
    OBVIOUS
  <2>1. PICK n \in Bad : \A m \in Bad : n <= m
    <3> HIDE DEF Bare
    <3>1. Bad \in SUBSET Nat
      OBVIOUS
    <3> HIDE DEF Bad
    <3> QED
      BY <3>1, LeastOf
  <2>2. PICK T \in SUBSET S : Bare(T) /\ Cardinality(T) = n
    BY <2>1
  <2>3. PICK x \in T : TRUE
    BY <2>2
  <2> DEFINE U == T \ {x}
  <2>4. Cardinality(U) = n - 1 /\ U \in SUBSET S /\ n \in Nat /\ n - 1 \in Nat
    <3>1. Cardinality(U) = Cardinality(T) - 1
      BY <1>1, <2>3, FS_RemoveElement
    <3>2. Cardinality(U) \in Nat
      BY <1>1
    <3> QED
      BY <2>1, <2>2, <3>1, <3>2
  <2>5. ~Bare(U)
    <3>1. ASSUME Bare(U) PROVE FALSE
      <4> HIDE DEF Bare, U
      <4>1. n - 1 \in Bad
        BY <2>4, <3>1
      <4> HIDE DEF Bad
      <4> QED
        BY <2>1, <2>4, <4>1
    <3> QED
      BY <3>1
  <2>6. CASE U = {}
    <3>1. T = {x}
      BY <2>3, <2>6
    <3> QED
      BY <2>2, <3>1
  <2>7. CASE U # {}
    <3>1. PICK u \in U : \A y \in U : u <= y
      BY <2>5, <2>7
    <3>2. u \in Int /\ x \in Int
      BY <2>3
    <3>3. CASE u <= x
      BY <2>2, <3>1, <3>3
    <3>4. CASE ~(u <= x)
      <4>1. \A y \in T : x <= y
        BY <3>1, <3>2, <3>4
      <4> QED
        BY <2>2, <2>3, <4>1
    <3> QED
      BY <3>3, <3>4
  <2> QED
    BY <2>6, <2>7
<1>3. ~Bare(S)
  <2>1. ASSUME Bare(S) PROVE FALSE
    <3> HIDE DEF Bare
    <3>1. Cardinality(S) \in Bad
      BY <1>1, <2>1
    <3> QED
      BY <1>2, <3>1
  <2> QED
    BY <2>1
<1> QED
  BY <1>3 DEF Min

\* A finite set of integers has a greatest element.
LEMMA FiniteGreatest ==
  ASSUME NEW S \in SUBSET Int, IsFiniteSet(S), S # {}
  PROVE  Max(S) \in S /\ \A y \in S : y <= Max(S)
<1> DEFINE N == {-x : x \in S}
           f == [x \in S |-> -x]
<1>1. f \in Surjection(S, N)
  BY Fun_IsSurj
<1>2. IsFiniteSet(N) /\ N # {} /\ N \in SUBSET Int
  <2>1. N \in SUBSET Int
    OBVIOUS
  <2>2. N # {}
    <3>1. PICK x \in S : TRUE
      OBVIOUS
    <3>2. -x \in N
      OBVIOUS
    <3> QED
      BY <3>2
  <2> HIDE DEF N, f
  <2> QED
    BY <1>1, <2>1, <2>2, FS_Surjection
<1>3. PICK m \in N : \A y \in N : m <= y
  <2> HIDE DEF N
  <2> QED
    BY <1>2, FiniteLeast
<1>4. PICK x \in S : m = -x
  OBVIOUS
<1>5. \A y \in S : y <= x
  <2> TAKE y \in S
  <2>1. -x <= -y
    BY <1>3, <1>4
  <2>2. x \in Int /\ y \in Int
    OBVIOUS
  <2> QED
    BY <2>1, <2>2
<1>6. \E z \in S : \A y \in S : z >= y
  BY <1>5
<1>7. \A y \in S : Max(S) >= y
  BY <1>6 DEF Max
<1>8. Max(S) \in S
  BY <1>6 DEF Max
<1> QED
  BY <1>7, <1>8

\* What a function takes a finite set to is finite.
LEMMA FiniteRange ==
  ASSUME NEW D, IsFiniteSet(D), NEW f, f = [x \in D |-> f[x]]
  PROVE  IsFiniteSet({f[x] : x \in D})
<1> DEFINE T == {f[x] : x \in D}
<1>1. f \in [D -> T]
  OBVIOUS
<1>2. f \in Surjection(D, T)
  BY <1>1, Fun_IsSurj
<1> HIDE DEF T
<1>3. IsFiniteSet(T)
  BY <1>2, FS_Surjection
<1> QED
  BY <1>3 DEF T

-----------------------------------------------------------------------------
(* Sums over a finite set, by the recursion of the community modules' folds *)

\* The element a fold takes out of a set next.
Chosen(s) == CHOOSE x \in s : TRUE

\* it[s] is the sum of v over s, for the subsets s of D.
IsSum(it, D, v) ==
  it = [s \in SUBSET D |-> IF s = {} THEN 0 ELSE v[Chosen(s)] + it[s \ {Chosen(s)}]]

\* The fold's recursive function exists: a step of the recursion takes an
\* element out of a finite set.
LEMMA SumExists ==
  ASSUME NEW D, IsFiniteSet(D), NEW v \in [D -> Int]
  PROVE  \E it : IsSum(it, D, v)
<1> DEFINE Small(n) == {s \in SUBSET D : Cardinality(s) <= n}
           Adds(g, s) == g[s] = IF s = {} THEN 0 ELSE v[Chosen(s)] + g[s \ {Chosen(s)}]
           Upto(n, g) == g \in [Small(n) -> Int] /\ \A s \in Small(n) : Adds(g, s)
           Bad == {n \in Nat : ~ \E g : Upto(n, g)}
<1>1. \A s \in SUBSET D : /\ IsFiniteSet(s) /\ Cardinality(s) \in Nat
                          /\ Cardinality(s) <= Cardinality(D)
  BY FS_Subset, FS_CardinalityType
<1>2. \A s \in SUBSET D : s # {} => /\ Chosen(s) \in s
                                    /\ s \ {Chosen(s)} \in SUBSET D
                                    /\ Cardinality(s \ {Chosen(s)}) = Cardinality(s) - 1
  <2> TAKE s \in SUBSET D
  <2> SUFFICES ASSUME s # {} PROVE /\ Chosen(s) \in s
                                   /\ s \ {Chosen(s)} \in SUBSET D
                                   /\ Cardinality(s \ {Chosen(s)}) = Cardinality(s) - 1
    OBVIOUS
  <2>1. Chosen(s) \in s
    BY DEF Chosen
  <2>2. s \ {Chosen(s)} \in SUBSET D
    OBVIOUS
  <2>3. Cardinality(s \ {Chosen(s)}) = Cardinality(s) - 1
    BY <1>1, <2>1, FS_RemoveElement
  <2> QED
    BY <2>1, <2>2, <2>3
<1>3. Bad = {}
  <2> SUFFICES ASSUME Bad # {} PROVE FALSE
    OBVIOUS
  <2>1. PICK n \in Bad : \A m \in Bad : n <= m
    <3> HIDE DEF Upto
    <3>1. Bad \in SUBSET Nat
      OBVIOUS
    <3> HIDE DEF Bad
    <3> QED
      BY <3>1, LeastOf
  <2>2. n \in Nat /\ ~ \E g : Upto(n, g)
    BY <2>1
  <2>3. CASE n = 0
    <3> DEFINE g == [s \in Small(n) |-> 0]
    <3>1. \A s \in Small(n) : s = {}
      <4> TAKE s \in Small(n)
      <4>1. Cardinality(s) = 0 /\ IsFiniteSet(s)
        BY <1>1, <2>3
      <4> QED
        BY <4>1, FS_EmptySet
    <3>2. Upto(n, g)
      BY <3>1
    <3> QED
      BY <2>2, <3>2
  <2>4. CASE n # 0
    <3>1. n - 1 \in Nat
      BY <2>2, <2>4
    <3>2. PICK g : Upto(n - 1, g)
      <4> HIDE DEF Upto
      <4>1. n - 1 \notin Bad
        <5> HIDE DEF Bad
        <5> QED
          BY <2>1, <2>2, <3>1
      <4> QED
        BY <3>1, <4>1
    <3> DEFINE h == [s \in Small(n) |->
                       IF s \in Small(n - 1) THEN g[s] ELSE v[Chosen(s)] + g[s \ {Chosen(s)}]]
    <3>3. \A s \in Small(n) : s # {} => s \ {Chosen(s)} \in Small(n - 1)
      BY <1>1, <1>2, <2>2
    <3>4. {} \in Small(n - 1)
      BY <3>1, FS_EmptySet
    <3>5. \A s \in Small(n - 1) : g[s] \in Int /\ Adds(g, s)
      BY <3>2
    <3>6. \A s \in Small(n - 1) : s \in Small(n)
      BY <1>1, <2>2
    <3>7. \A s \in Small(n) : s # {} => v[Chosen(s)] \in Int
      BY <1>2
    <3> HIDE DEF Small
    <3>8. \A s \in Small(n) : h[s] \in Int
      <4> TAKE s \in Small(n)
      <4>1. CASE s \in Small(n - 1)
        BY <3>5, <4>1
      <4>2. CASE s \notin Small(n - 1)
        <5>1. s # {}
          BY <3>4, <4>2
        <5>2. v[Chosen(s)] \in Int /\ g[s \ {Chosen(s)}] \in Int
          BY <3>3, <3>5, <3>7, <5>1
        <5>3. h[s] = v[Chosen(s)] + g[s \ {Chosen(s)}]
          BY <4>2
        <5> QED
          BY <5>2, <5>3
      <4> QED
        BY <4>1, <4>2
    <3>9. \A s \in Small(n) : Adds(h, s)
      <4> TAKE s \in Small(n)
      <4>1. CASE s = {}
        BY <3>4, <3>5, <4>1
      <4>2. CASE s # {}
        <5>1. h[s \ {Chosen(s)}] = g[s \ {Chosen(s)}]
          BY <3>3, <3>6, <4>2
        <5>2. h[s] = v[Chosen(s)] + g[s \ {Chosen(s)}]
          BY <3>5, <4>2
        <5> QED
          BY <4>2, <5>1, <5>2
      <4> QED
        BY <4>1, <4>2
    <3>10. Upto(n, h)
      <4>1. h \in [Small(n) -> Int]
        BY <3>8
      <4> HIDE DEF h, Adds
      <4> QED
        BY <3>9, <4>1
    <3> HIDE DEF Upto
    <3> QED
      BY <2>2, <3>10
  <2> QED
    BY <2>3, <2>4
<1>4. PICK g : Upto(Cardinality(D), g)
  <2>1. Cardinality(D) \in Nat
    BY FS_CardinalityType
  <2> HIDE DEF Upto
  <2> QED
    BY <1>3, <2>1
<1>5. Small(Cardinality(D)) = SUBSET D
  BY <1>1
<1> HIDE DEF Small
<1>6. g \in [SUBSET D -> Int] /\ \A s \in SUBSET D : Adds(g, s)
  BY <1>4, <1>5
<1>7. g = [s \in SUBSET D |-> IF s = {} THEN 0 ELSE v[Chosen(s)] + g[s \ {Chosen(s)}]]
  BY <1>6
<1> QED
  BY <1>7 DEF IsSum

\* A sum stays in a set that is closed under addition.
LEMMA SumIsIn ==
  ASSUME NEW D, IsFiniteSet(D), NEW N, 0 \in N, \A a, b \in N : a + b \in N,
         NEW v, \A x \in D : v[x] \in N, NEW it, IsSum(it, D, v), NEW t \in SUBSET D
  PROVE  it[t] \in N
<1> DEFINE Bad == {n \in Nat : \E s \in SUBSET D : it[s] \notin N /\ Cardinality(s) = n}
<1>1. \A s \in SUBSET D : /\ IsFiniteSet(s) /\ Cardinality(s) \in Nat
                          /\ it[s] = IF s = {} THEN 0 ELSE v[Chosen(s)] + it[s \ {Chosen(s)}]
  BY FS_Subset, FS_CardinalityType DEF IsSum
<1>2. Bad = {}
  <2> SUFFICES ASSUME Bad # {} PROVE FALSE
    OBVIOUS
  <2>1. PICK n \in Bad : \A m \in Bad : n <= m
    <3>1. Bad \in SUBSET Nat
      OBVIOUS
    <3> HIDE DEF Bad
    <3> QED
      BY <3>1, LeastOf
  <2>2. PICK s \in SUBSET D : it[s] \notin N /\ Cardinality(s) = n
    BY <2>1
  <2>3. s # {}
    <3>1. s = {} => it[s] = 0
      BY <1>1
    <3> QED
      BY <2>2, <3>1
  <2> DEFINE x == Chosen(s)
             u == s \ {x}
  <2>4. x \in s /\ x \in D
    BY <2>3 DEF Chosen
  <2>5. u \in SUBSET D /\ it[s] = v[x] + it[u]
    BY <1>1, <2>3
  <2>6. Cardinality(u) = n - 1
    BY <1>1, <2>2, <2>4, FS_RemoveElement
  <2>7. n \in Nat /\ n - 1 \in Nat
    BY <1>1, <2>1, <2>5, <2>6
  <2> HIDE DEF u, x
  <2>8. n - 1 \notin Bad
    <3> HIDE DEF Bad
    <3> QED
      BY <2>1, <2>7
  <2>9. it[u] \in N
    BY <2>5, <2>6, <2>7, <2>8
  <2> QED
    BY <2>2, <2>4, <2>5, <2>9
<1> QED
  BY <1>1, <1>2

\* The order does not matter: a sum is any one of its terms and the rest.
LEMMA SumSplits ==
  ASSUME NEW D, IsFiniteSet(D), NEW v, \A x \in D : v[x] \in Int, NEW it, IsSum(it, D, v),
         NEW t \in SUBSET D, NEW y \in t
  PROVE  it[t] = v[y] + it[t \ {y}]
<1> DEFINE Odd(s) == \E z \in s : it[s] # v[z] + it[s \ {z}]
           Bad == {n \in Nat : \E s \in SUBSET D : Odd(s) /\ Cardinality(s) = n}
<1>1. \A s \in SUBSET D : /\ IsFiniteSet(s) /\ Cardinality(s) \in Nat
                          /\ it[s] = IF s = {} THEN 0 ELSE v[Chosen(s)] + it[s \ {Chosen(s)}]
  BY FS_Subset, FS_CardinalityType DEF IsSum
<1>2. \A s \in SUBSET D : it[s] \in Int
  <2>1. 0 \in Int /\ \A a, b \in Int : a + b \in Int
    OBVIOUS
  <2> QED
    BY <2>1, SumIsIn
<1>3. Bad = {}
  <2> SUFFICES ASSUME Bad # {} PROVE FALSE
    OBVIOUS
  <2>1. PICK n \in Bad : \A m \in Bad : n <= m
    <3> HIDE DEF Odd
    <3>1. Bad \in SUBSET Nat
      OBVIOUS
    <3> HIDE DEF Bad
    <3> QED
      BY <3>1, LeastOf
  <2>2. PICK s \in SUBSET D : Odd(s) /\ Cardinality(s) = n
    BY <2>1
  <2>3. PICK z \in s : it[s] # v[z] + it[s \ {z}]
    BY <2>2
  <2> DEFINE x == Chosen(s)
             u == s \ {x}
             w == s \ {z}
             b == (s \ {x}) \ {z}
  <2>4. x \in s /\ x \in D /\ z \in D
    BY <2>3 DEF Chosen
  <2>5. /\ u \in SUBSET D /\ w \in SUBSET D /\ b \in SUBSET D
        /\ it[s] = v[x] + it[u]
    BY <1>1, <2>3
  <2>6. z # x
    BY <2>3, <2>5
  <2>7. Cardinality(u) = n - 1 /\ Cardinality(w) = n - 1
    BY <1>1, <2>2, <2>3, <2>4, FS_RemoveElement
  <2>8. n \in Nat /\ n - 1 \in Nat
    BY <1>1, <2>1, <2>5, <2>7
  <2>9. n - 1 \notin Bad
    <3> HIDE DEF Bad
    <3> QED
      BY <2>1, <2>8
  <2>10. ~Odd(u) /\ ~Odd(w)
    <3> HIDE DEF Odd, u, w
    <3> QED
      BY <2>5, <2>7, <2>8, <2>9
  <2>11. it[u] = v[z] + it[b]
    BY <2>3, <2>6, <2>10
  <2>12. it[w] = v[x] + it[b]
    <3>1. w \ {x} = b
      OBVIOUS
    <3>2. x \in w
      BY <2>4, <2>6
    <3> HIDE DEF w, b, x
    <3> QED
      BY <2>10, <3>1, <3>2
  <2>13. v[x] \in Int /\ v[z] \in Int /\ it[b] \in Int
    BY <1>2, <2>4, <2>5
  <2>14. it[s] = v[z] + it[w]
    <3> HIDE DEF u, w, b, x
    <3> QED
      BY <2>5, <2>11, <2>12, <2>13
  <2> QED
    BY <2>3, <2>14
<1>4. ~Odd(t)
  <2> HIDE DEF Odd
  <2> QED
    BY <1>1, <1>3
<1> QED
  BY <1>4

\* A sum of natural numbers over a set is at most that over a larger one.
LEMMA SumGrows ==
  ASSUME NEW D, IsFiniteSet(D), NEW v, \A x \in D : v[x] \in Nat, NEW it, IsSum(it, D, v),
         NEW E, IsFiniteSet(E), NEW u, \A x \in E : u[x] \in Nat, NEW jt, IsSum(jt, E, u),
         NEW r \in SUBSET D, NEW q \in SUBSET E, r \subseteq q, \A x \in r : v[x] = u[x]
  PROVE  it[r] <= jt[q]
<1> DEFINE Odd(s) == \E t \in SUBSET E : s \subseteq t /\ ~ (it[s] <= jt[t])
           Bad == {n \in Nat : \E s \in SUBSET r : Odd(s) /\ Cardinality(s) = n}
<1>1. \A s \in SUBSET D : IsFiniteSet(s) /\ Cardinality(s) \in Nat
  BY FS_Subset, FS_CardinalityType
<1>2. 0 \in Nat /\ \A a, b \in Nat : a + b \in Nat
  OBVIOUS
<1>3. (\A s \in SUBSET D : it[s] \in Nat) /\ \A t \in SUBSET E : jt[t] \in Nat
  BY <1>2, SumIsIn
<1>4. it[{}] = 0
  BY DEF IsSum
<1>5. Bad = {}
  <2> SUFFICES ASSUME Bad # {} PROVE FALSE
    OBVIOUS
  <2>1. PICK n \in Bad : \A m \in Bad : n <= m
    <3> HIDE DEF Odd
    <3>1. Bad \in SUBSET Nat
      OBVIOUS
    <3> HIDE DEF Bad
    <3> QED
      BY <3>1, LeastOf
  <2>2. PICK s \in SUBSET r : Odd(s) /\ Cardinality(s) = n
    BY <2>1
  <2>3. PICK t \in SUBSET E : s \subseteq t /\ ~ (it[s] <= jt[t])
    BY <2>2
  <2>4. s # {}
    <3>1. jt[t] \in Nat
      BY <1>3
    <3> QED
      BY <1>4, <2>3, <3>1
  <2>5. PICK x \in s : TRUE
    BY <2>4
  <2> DEFINE a == s \ {x}
             b == t \ {x}
  <2>6. s \in SUBSET D /\ a \in SUBSET D /\ a \in SUBSET r /\ b \in SUBSET E /\ a \subseteq b
    BY <2>3
  <2>7. x \in D /\ x \in E /\ x \in t /\ v[x] = u[x] /\ v[x] \in Nat
    BY <2>3, <2>5
  <2>8. (\A y \in D : v[y] \in Int) /\ \A y \in E : u[y] \in Int
    OBVIOUS
  <2>9. it[s] = v[x] + it[a]
    BY <2>5, <2>6, <2>8, SumSplits
  <2>10. jt[t] = u[x] + jt[b]
    BY <2>7, <2>8, SumSplits
  <2>11. Cardinality(a) = n - 1 /\ n \in Nat /\ n - 1 \in Nat
    <3>1. Cardinality(a) = Cardinality(s) - 1
      BY <1>1, <2>5, <2>6, FS_RemoveElement
    <3>2. Cardinality(a) \in Nat
      BY <1>1, <2>6
    <3> QED
      BY <2>1, <2>2, <3>1, <3>2
  <2> HIDE DEF a, b
  <2>12. ~Odd(a)
    <3>1. n - 1 \notin Bad
      <4> HIDE DEF Bad
      <4> QED
        BY <2>1, <2>11
    <3> HIDE DEF Odd
    <3> QED
      BY <2>6, <2>11, <3>1
  <2>13. it[a] <= jt[b] /\ it[a] \in Nat /\ jt[b] \in Nat
    BY <1>3, <2>6, <2>12
  <2> QED
    BY <2>3, <2>7, <2>9, <2>10, <2>13
<1>6. ~Odd(r)
  <2>1. Cardinality(r) \in Nat /\ r \in SUBSET r
    BY <1>1
  <2> HIDE DEF Odd
  <2> QED
    BY <1>5, <2>1
<1> QED
  BY <1>6
=============================================================================
