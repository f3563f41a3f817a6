---------------------------- MODULE TotalsProofs ----------------------------
(***************************************************************************)
(* Lemmas about Total for every finite set.  Total adds the values in some *)
(* order that depends on the set alone; the lemmas compare the running     *)
(* sums of two functions, by the smallest set on which they would differ.  *)
(***************************************************************************)
EXTENDS Totals, FiniteSetTheorems, WellFoundedInduction, TLAPS

Below == {p \in Nat \X Nat : p[1] < p[2]}

\* A set of natural numbers has a least element.
LEMMA LeastExists ==
  ASSUME NEW N, N \subseteq Nat, N # {}
  PROVE  \E m \in N : \A n \in N : m <= n
<1>1. IsWellFoundedOn(Below, Nat)
  BY NatLessThanWellFounded DEF OpToRel, Below
<1>2. PICK m \in N : \A n \in N : <<n, m>> \notin Below
  BY <1>1, WFMin
<1>3. \A n \in N : ~(n < m)
  BY <1>2 DEF Below
<1> QED  BY <1>2, <1>3

\* The element that is added last.
Last(s) == CHOOSE x \in s : TRUE

\* F is the running sum of f over the sets in D.
Sums(F, f, D) ==
  F = [s \in D |-> IF s = {} THEN 0 ELSE f[Last(s)] + F[s \ {Last(s)}]]

Small(S, n) == {s \in SUBSET S : Cardinality(s) <= n}

LEMMA LastRemoved ==
  ASSUME NEW S, IsFiniteSet(S), NEW s \in SUBSET S, s # {}
  PROVE  /\ Last(s) \in s /\ s \ {Last(s)} \in SUBSET S
         /\ IsFiniteSet(s) /\ Cardinality(s) \in Nat \ {0}
         /\ Cardinality(s \ {Last(s)}) = Cardinality(s) - 1
<1>1. Last(s) \in s
  BY DEF Last
<1>2. IsFiniteSet(s)
  BY FS_Subset
<1>3. Cardinality(s) \in Nat /\ Cardinality(s) # 0
  BY <1>2, FS_CardinalityType, FS_EmptySet
<1>4. Cardinality(s \ {Last(s)}) = Cardinality(s) - 1
  BY <1>1, <1>2, FS_RemoveElement
<1> QED  BY <1>1, <1>2, <1>3, <1>4

LEMMA EmptyIsSmall ==
  ASSUME NEW S, IsFiniteSet(S)
  PROVE  /\ {} \in SUBSET S /\ Cardinality({}) = 0
         /\ \A s \in SUBSET S : Cardinality(s) \in Nat /\ Cardinality(s) <= Cardinality(S)
         /\ \A s \in SUBSET S : Cardinality(s) = 0 <=> s = {}
         /\ Cardinality(S) \in Nat
BY FS_EmptySet, FS_Subset, FS_CardinalityType

\* The running sum exists over the sets of at most n elements.
LEMMA SmallSumsExist ==
  ASSUME NEW S, IsFiniteSet(S), NEW f, NEW n \in Nat
  PROVE  \E F : Sums(F, f, Small(S, n))
<1> DEFINE Bad == {k \in Nat : ~ \E F : Sums(F, f, Small(S, k))}
<1> SUFFICES ASSUME Bad # {} PROVE FALSE
  OBVIOUS
<1>1. PICK m \in Bad : \A k \in Bad : m <= k
  <2> HIDE DEF Bad
  <2>1. Bad \subseteq Nat
    BY DEF Bad
  <2> QED  BY <2>1, LeastExists
<1>2. CASE m = 0
  <2>1. Small(S, 0) = {{}}
    BY EmptyIsSmall DEF Small
  <2>2. Sums([s \in Small(S, 0) |-> 0], f, Small(S, 0))
    BY <2>1 DEF Sums
  <2> QED  BY <1>1, <1>2, <2>2
<1>3. CASE m # 0
  <2>1. m - 1 \in Nat /\ m - 1 \notin Bad
    BY <1>1, <1>3
  <2>2. PICK F : Sums(F, f, Small(S, m - 1))
    BY <2>1
  <2> DEFINE G == [s \in Small(S, m) |-> IF s = {} THEN 0 ELSE f[Last(s)] + F[s \ {Last(s)}]]
  <2>3. ASSUME NEW s \in Small(S, m), s # {}
        PROVE  /\ s \ {Last(s)} \in Small(S, m - 1) /\ s \ {Last(s)} \in Small(S, m)
               /\ G[s] = f[Last(s)] + F[s \ {Last(s)}]
    BY <2>1, <2>3, LastRemoved DEF Small
  <2>4. ASSUME NEW s \in Small(S, m - 1) PROVE s \in Small(S, m) /\ G[s] = F[s]
    <3>1. s \in Small(S, m)
      BY <2>1, EmptyIsSmall DEF Small
    <3>2. F[s] = IF s = {} THEN 0 ELSE f[Last(s)] + F[s \ {Last(s)}]
      BY <2>2 DEF Sums
    <3> QED  BY <3>1, <3>2
  <2>5. \A s \in Small(S, m) : G[s] = IF s = {} THEN 0 ELSE f[Last(s)] + G[s \ {Last(s)}]
    BY <2>3, <2>4
  <2>6. G = [s \in Small(S, m) |-> G[s]]
    OBVIOUS
  <2> HIDE DEF G
  <2>7. Sums(G, f, Small(S, m))
    BY <2>5, <2>6 DEF Sums
  <2> QED  BY <1>1, <2>7
<1> QED  BY <1>2, <1>3

\* Total is the last of the running sums over the subsets of the domain.
LEMMA TotalIsSum ==
  ASSUME NEW f, IsFiniteSet(DOMAIN f)
  PROVE  \E F : Sums(F, f, SUBSET DOMAIN f) /\ Total(f) = F[DOMAIN f]
<1> DEFINE S == DOMAIN f
           iter(g) == g = [s \in SUBSET S |->
              IF s = {} THEN 0
              ELSE f[CHOOSE x \in s : TRUE] + g[s \ {CHOOSE x \in s : TRUE}]]
<1>1. Small(S, Cardinality(S)) = SUBSET S
  BY EmptyIsSmall DEF Small
<1>2. PICK F : Sums(F, f, SUBSET S)
  <2>1. Cardinality(S) \in Nat
    BY EmptyIsSmall
  <2>2. \E F : Sums(F, f, Small(S, Cardinality(S)))
    BY <2>1, SmallSumsExist
  <2> QED  BY <1>1, <2>2
<1>3. iter(F)
  BY <1>2 DEF Sums, Last
<1>4. iter(CHOOSE g : iter(g))
  BY <1>3
<1>5. Sums(CHOOSE g : iter(g), f, SUBSET S)
  BY <1>4 DEF Sums, Last
<1>6. Total(f) = (CHOOSE g : iter(g))[S]
  BY DEF Total, MapThenSumSet, MapThenFoldSet
<1> QED  BY <1>5, <1>6

\* The running sums of whole numbers are whole numbers.
LEMMA SumsAreInts ==
  ASSUME NEW f, IsFiniteSet(DOMAIN f), \A x \in DOMAIN f : f[x] \in Int,
         NEW F, Sums(F, f, SUBSET DOMAIN f)
  PROVE  \A s \in SUBSET DOMAIN f : F[s] \in Int
<1> DEFINE S == DOMAIN f
           Bad == {k \in Nat : \E s \in SUBSET S : Cardinality(s) = k /\ F[s] \notin Int}
<1>1. ASSUME Bad # {} PROVE FALSE
  <2>1. PICK m \in Bad : \A k \in Bad : m <= k
    <3> HIDE DEF Bad
    <3>1. Bad \subseteq Nat
      BY DEF Bad
    <3> QED  BY <1>1, <3>1, LeastExists
  <2>2. PICK s \in SUBSET S : Cardinality(s) = m /\ F[s] \notin Int
    BY <2>1
  <2>3. F[s] = IF s = {} THEN 0 ELSE f[Last(s)] + F[s \ {Last(s)}]
    BY DEF Sums
  <2>4. s # {}
    BY <2>2, <2>3
  <2> DEFINE r == s \ {Last(s)}
  <2>5. r \in SUBSET S /\ Cardinality(r) = m - 1 /\ m - 1 \in Nat /\ f[Last(s)] \in Int
    BY <2>2, <2>4, LastRemoved
  <2>6. F[r] \in Int
    BY <2>1, <2>5
  <2> QED  BY <2>2, <2>3, <2>4, <2>5, <2>6
<1>2. ASSUME NEW s \in SUBSET S PROVE F[s] \in Int
  <2>1. Cardinality(s) \in Nat /\ Cardinality(s) \notin Bad
    BY <1>1, EmptyIsSmall
  <2> QED  BY <2>1
<1> QED  BY <1>2

\* The sum of nothing.
LEMMA TotalOfNothing ==
  ASSUME NEW f, DOMAIN f = {}
  PROVE  Total(f) = 0
<1>1. IsFiniteSet(DOMAIN f)
  BY FS_EmptySet
<1>2. PICK F : Sums(F, f, SUBSET DOMAIN f) /\ Total(f) = F[DOMAIN f]
  BY <1>1, TotalIsSum
<1> QED  BY <1>2 DEF Sums

\* A sum of whole numbers is a whole number.
LEMMA TotalIsInt ==
  ASSUME NEW f, IsFiniteSet(DOMAIN f), \A x \in DOMAIN f : f[x] \in Int
  PROVE  Total(f) \in Int
<1>1. PICK F : Sums(F, f, SUBSET DOMAIN f) /\ Total(f) = F[DOMAIN f]
  BY TotalIsSum
<1>2. F[DOMAIN f] \in Int
  BY <1>1, SumsAreInts
<1> QED  BY <1>1, <1>2

\* A sum grows with its parts.
LEMMA TotalIsMonotone ==
  ASSUME NEW f, NEW g, IsFiniteSet(DOMAIN f), DOMAIN g = DOMAIN f,
         \A x \in DOMAIN f : f[x] \in Int /\ g[x] \in Int /\ f[x] <= g[x]
  PROVE  Total(f) <= Total(g)
<1> DEFINE S == DOMAIN f
<1>1. PICK F : Sums(F, f, SUBSET S) /\ Total(f) = F[S]
  BY TotalIsSum
<1>2. PICK G : Sums(G, g, SUBSET S) /\ Total(g) = G[S]
  BY TotalIsSum
<1>3. \A s \in SUBSET S : F[s] \in Int /\ G[s] \in Int
  BY <1>1, <1>2, SumsAreInts
<1> DEFINE Bad == {k \in Nat : \E s \in SUBSET S : Cardinality(s) = k /\ ~(F[s] <= G[s])}
<1>4. ASSUME Bad # {} PROVE FALSE
  <2>1. PICK m \in Bad : \A k \in Bad : m <= k
    <3> HIDE DEF Bad
    <3>1. Bad \subseteq Nat
      BY DEF Bad
    <3> QED  BY <1>4, <3>1, LeastExists
  <2>2. PICK s \in SUBSET S : Cardinality(s) = m /\ ~(F[s] <= G[s])
    BY <2>1
  <2>3. /\ F[s] = IF s = {} THEN 0 ELSE f[Last(s)] + F[s \ {Last(s)}]
        /\ G[s] = IF s = {} THEN 0 ELSE g[Last(s)] + G[s \ {Last(s)}]
    BY <1>1, <1>2 DEF Sums
  <2>4. s # {}
    BY <2>2, <2>3
  <2> DEFINE r == s \ {Last(s)}
  <2>5. r \in SUBSET S /\ Cardinality(r) = m - 1 /\ m - 1 \in Nat /\ Last(s) \in S
    BY <2>2, <2>4, LastRemoved
  <2>6. F[r] <= G[r]
    BY <2>1, <2>5
  <2>7. F[r] \in Int /\ G[r] \in Int /\ f[Last(s)] \in Int /\ g[Last(s)] \in Int /\ f[Last(s)] <= g[Last(s)]
    BY <1>3, <2>5
  <2> QED  BY <2>2, <2>3, <2>4, <2>6, <2>7
<1>5. Cardinality(S) \in Nat /\ Cardinality(S) \notin Bad
  BY <1>4, EmptyIsSmall
<1> QED  BY <1>1, <1>2, <1>5

\* Adding two functions adds their sums.
LEMMA TotalIsAdditive ==
  ASSUME NEW f, NEW g, NEW h, IsFiniteSet(DOMAIN f), DOMAIN g = DOMAIN f, DOMAIN h = DOMAIN f,
         \A x \in DOMAIN f : f[x] \in Int /\ g[x] \in Int /\ h[x] = f[x] + g[x]
  PROVE  Total(h) = Total(f) + Total(g)
<1> DEFINE S == DOMAIN f
<1>1. PICK F : Sums(F, f, SUBSET S) /\ Total(f) = F[S]
  BY TotalIsSum
<1>2. PICK G : Sums(G, g, SUBSET S) /\ Total(g) = G[S]
  BY TotalIsSum
<1>3. PICK H : Sums(H, h, SUBSET S) /\ Total(h) = H[S]
  BY TotalIsSum
<1>4. \A s \in SUBSET S : F[s] \in Int /\ G[s] \in Int
  BY <1>1, <1>2, SumsAreInts
<1> DEFINE Bad == {k \in Nat : \E s \in SUBSET S : Cardinality(s) = k /\ H[s] # F[s] + G[s]}
<1>5. ASSUME Bad # {} PROVE FALSE
  <2>1. PICK m \in Bad : \A k \in Bad : m <= k
    <3> HIDE DEF Bad
    <3>1. Bad \subseteq Nat
      BY DEF Bad
    <3> QED  BY <1>5, <3>1, LeastExists
  <2>2. PICK s \in SUBSET S : Cardinality(s) = m /\ H[s] # F[s] + G[s]
    BY <2>1
  <2>3. /\ F[s] = IF s = {} THEN 0 ELSE f[Last(s)] + F[s \ {Last(s)}]
        /\ G[s] = IF s = {} THEN 0 ELSE g[Last(s)] + G[s \ {Last(s)}]
        /\ H[s] = IF s = {} THEN 0 ELSE h[Last(s)] + H[s \ {Last(s)}]
    BY <1>1, <1>2, <1>3 DEF Sums
  <2>4. s # {}
    BY <2>2, <2>3
  <2> DEFINE r == s \ {Last(s)}
  <2>5. r \in SUBSET S /\ Cardinality(r) = m - 1 /\ m - 1 \in Nat /\ Last(s) \in S
    BY <2>2, <2>4, LastRemoved
  <2>6. H[r] = F[r] + G[r]
    BY <2>1, <2>5
  <2>7. /\ F[r] \in Int /\ G[r] \in Int /\ f[Last(s)] \in Int /\ g[Last(s)] \in Int
        /\ h[Last(s)] = f[Last(s)] + g[Last(s)]
    BY <1>4, <2>5
  <2> QED  BY <2>2, <2>3, <2>4, <2>6, <2>7
<1>6. Cardinality(S) \in Nat /\ Cardinality(S) \notin Bad
  BY <1>5, EmptyIsSmall
<1> QED  BY <1>1, <1>2, <1>3, <1>6

\* The sum of a function that is zero but for one element.
LEMMA TotalOfOne ==
  ASSUME NEW f, IsFiniteSet(DOMAIN f), NEW y \in DOMAIN f, f[y] \in Int,
         \A x \in DOMAIN f : x # y => f[x] = 0
  PROVE  Total(f) = f[y]
<1> DEFINE S == DOMAIN f
           Right(F, s) == F[s] = IF y \in s THEN f[y] ELSE 0
<1>1. PICK F : Sums(F, f, SUBSET S) /\ Total(f) = F[S]
  BY TotalIsSum
<1> DEFINE Bad == {k \in Nat : \E s \in SUBSET S : Cardinality(s) = k /\ ~Right(F, s)}
<1>2. ASSUME Bad # {} PROVE FALSE
  <2>1. PICK m \in Bad : \A k \in Bad : m <= k
    <3> HIDE DEF Bad
    <3>1. Bad \subseteq Nat
      BY DEF Bad
    <3> QED  BY <1>2, <3>1, LeastExists
  <2>2. PICK s \in SUBSET S : Cardinality(s) = m /\ ~Right(F, s)
    BY <2>1
  <2>3. F[s] = IF s = {} THEN 0 ELSE f[Last(s)] + F[s \ {Last(s)}]
    BY <1>1 DEF Sums
  <2>4. s # {}
    BY <2>2, <2>3
  <2> DEFINE r == s \ {Last(s)}
  <2>5. r \in SUBSET S /\ Cardinality(r) = m - 1 /\ m - 1 \in Nat /\ Last(s) \in s
    BY <2>2, <2>4, LastRemoved
  <2>6. Right(F, r)
    BY <2>1, <2>5
  <2>7. F[s] = f[Last(s)] + F[r]
    BY <2>3, <2>4
  <2>8. CASE Last(s) = y
    <3>1. F[r] = 0 /\ y \in s
      BY <2>5, <2>6, <2>8
    <3> QED  BY <2>2, <2>7, <2>8, <3>1
  <2>9. CASE Last(s) # y
    <3>1. f[Last(s)] = 0 /\ (y \in s <=> y \in r)
      BY <2>5, <2>9
    <3> QED  BY <2>2, <2>6, <2>7, <3>1
  <2> QED  BY <2>8, <2>9
<1>3. Cardinality(S) \in Nat /\ Cardinality(S) \notin Bad
  BY <1>2, EmptyIsSmall
<1>4. Right(F, S)
  BY <1>3
<1> QED  BY <1>1, <1>4

\* A sum of zeros, and of naturals.
LEMMA TotalOfZeros ==
  ASSUME NEW f, IsFiniteSet(DOMAIN f), \A x \in DOMAIN f : f[x] = 0
  PROVE  Total(f) = 0
<1>1. CASE DOMAIN f = {}
  BY <1>1, TotalOfNothing
<1>2. CASE DOMAIN f # {}
  <2>1. PICK y \in DOMAIN f : TRUE
    BY <1>2
  <2> QED  BY <2>1, TotalOfOne
<1> QED  BY <1>1, <1>2

LEMMA TotalIsNat ==
  ASSUME NEW f, IsFiniteSet(DOMAIN f), \A x \in DOMAIN f : f[x] \in Nat
  PROVE  Total(f) \in Nat
<1> DEFINE zero == [x \in DOMAIN f |-> 0]
<1>1. Total(zero) = 0
  BY TotalOfZeros
<1>2. Total(zero) <= Total(f)
  BY TotalIsMonotone
<1>3. Total(f) \in Int
  BY TotalIsInt
<1> QED  BY <1>1, <1>2, <1>3

\* Changing one value changes the sum by as much.
LEMMA TotalAfterChange ==
  ASSUME NEW f, NEW g, IsFiniteSet(DOMAIN f), DOMAIN g = DOMAIN f,
         \A x \in DOMAIN f : f[x] \in Int, NEW y \in DOMAIN f, g[y] \in Int,
         \A x \in DOMAIN f : x # y => g[x] = f[x]
  PROVE  Total(g) = Total(f) + (g[y] - f[y])
<1> DEFINE d == [x \in DOMAIN f |-> IF x = y THEN g[y] - f[y] ELSE 0]
<1>1. Total(d) = g[y] - f[y]
  BY TotalOfOne
<1>2. \A x \in DOMAIN f : f[x] \in Int /\ d[x] \in Int /\ g[x] = f[x] + d[x]
  OBVIOUS
<1>3. DOMAIN d = DOMAIN f
  OBVIOUS
<1> HIDE DEF d
<1>4. Total(g) = Total(f) + Total(d)
  BY <1>2, <1>3, TotalIsAdditive
<1> QED  BY <1>1, <1>4

\* The order of adding does not matter: any element may be the last.
LEMMA AnyOrder ==
  ASSUME NEW f, IsFiniteSet(DOMAIN f), \A x \in DOMAIN f : f[x] \in Int,
         NEW F, Sums(F, f, SUBSET DOMAIN f)
  PROVE  \A s \in SUBSET DOMAIN f : \A y \in s : F[s] = f[y] + F[s \ {y}]
<1> DEFINE S == DOMAIN f
           Free(s) == \A y \in s : F[s] = f[y] + F[s \ {y}]
           Bad == {k \in Nat : \E s \in SUBSET S : Cardinality(s) = k /\ ~Free(s)}
<1>1. ASSUME Bad # {} PROVE FALSE
  <2>1. PICK m \in Bad : \A k \in Bad : m <= k
    <3> HIDE DEF Bad
    <3>1. Bad \subseteq Nat
      BY DEF Bad
    <3> QED  BY <1>1, <3>1, LeastExists
  <2>2. PICK s \in SUBSET S : Cardinality(s) = m /\ ~Free(s)
    BY <2>1
  <2>3. PICK y \in s : F[s] # f[y] + F[s \ {y}]
    BY <2>2
  <2> DEFINE z == Last(s)
  <2>4. /\ z \in s /\ IsFiniteSet(s) /\ m - 1 \in Nat
        /\ s \ {z} \in SUBSET S /\ Cardinality(s \ {z}) = m - 1
    BY <2>2, <2>3, LastRemoved
  <2>5. s \ {y} \in SUBSET S /\ Cardinality(s \ {y}) = m - 1
    BY <2>2, <2>3, <2>4, FS_RemoveElement
  <2>6. F[s] = f[z] + F[s \ {z}]
    BY <2>3 DEF Sums
  <2> HIDE DEF z
  <2>7. y # z
    BY <2>3, <2>6
  <2> DEFINE u == (s \ {z}) \ {y}
  <2>8. Free(s \ {z}) /\ Free(s \ {y})
    BY <2>1, <2>4, <2>5
  <2>9. F[s \ {z}] = f[y] + F[u]
    BY <2>3, <2>7, <2>8
  <2>10. F[s \ {y}] = f[z] + F[(s \ {y}) \ {z}]
    BY <2>4, <2>7, <2>8
  <2>11. (s \ {y}) \ {z} = u /\ u \in SUBSET S
    OBVIOUS
  <2> HIDE DEF u
  <2>12. F[u] \in Int
    BY <2>11, SumsAreInts
  <2>13. f[y] \in Int /\ f[z] \in Int
    BY <2>3, <2>4
  <2>14. F[s \ {y}] = f[z] + F[u]
    BY <2>10, <2>11
  <2> QED  BY <2>3, <2>6, <2>9, <2>12, <2>13, <2>14
<1>2. ASSUME NEW s \in SUBSET S PROVE Free(s)
  <2>1. Cardinality(s) \in Nat /\ Cardinality(s) \notin Bad
    BY <1>1, EmptyIsSmall
  <2> QED  BY <2>1
<1> QED  BY <1>2

Extends(f, g) == DOMAIN g \subseteq DOMAIN f /\ \A x \in DOMAIN g : f[x] = g[x]

\* Functions that agree on a set have the same sum there.
LEMMA SameSums ==
  ASSUME NEW f, NEW g, IsFiniteSet(DOMAIN f), Extends(f, g),
         NEW F, Sums(F, f, SUBSET DOMAIN f), NEW G, Sums(G, g, SUBSET DOMAIN g)
  PROVE  F[DOMAIN g] = G[DOMAIN g]
<1> DEFINE S == DOMAIN g
           Bad == {k \in Nat : \E s \in SUBSET S : Cardinality(s) = k /\ F[s] # G[s]}
<1>b. S \in SUBSET DOMAIN f /\ \A x \in S : f[x] = g[x]
  BY DEF Extends
<1>a. IsFiniteSet(S)
  BY <1>b, FS_Subset
<1>1. ASSUME Bad # {} PROVE FALSE
  <2>1. PICK m \in Bad : \A k \in Bad : m <= k
    <3> HIDE DEF Bad
    <3>1. Bad \subseteq Nat
      BY DEF Bad
    <3> QED  BY <1>1, <3>1, LeastExists
  <2>2. PICK s \in SUBSET S : Cardinality(s) = m /\ F[s] # G[s]
    BY <2>1
  <2>a. s \in SUBSET DOMAIN f
    BY <1>b
  <2>3. /\ F[s] = IF s = {} THEN 0 ELSE f[Last(s)] + F[s \ {Last(s)}]
        /\ G[s] = IF s = {} THEN 0 ELSE g[Last(s)] + G[s \ {Last(s)}]
    BY <2>a DEF Sums
  <2>4. s # {}
    BY <2>2, <2>3
  <2>5. /\ s \ {Last(s)} \in SUBSET S /\ Cardinality(s \ {Last(s)}) = m - 1
        /\ m - 1 \in Nat /\ Last(s) \in S
    BY <1>a, <2>2, <2>4, LastRemoved
  <2>6. F[s \ {Last(s)}] = G[s \ {Last(s)}] /\ f[Last(s)] = g[Last(s)]
    BY <1>b, <2>1, <2>5
  <2> QED  BY <2>2, <2>3, <2>4, <2>6
<1>2. ASSUME NEW s \in SUBSET S PROVE F[s] = G[s]
  <2>1. Cardinality(s) \in Nat /\ Cardinality(s) \notin Bad
    BY <1>a, <1>1, EmptyIsSmall
  <2> QED  BY <2>1
<1> QED  BY <1>2

\* A sum is that of all elements but one, and the value of that one.
LEMMA TotalWithoutOne ==
  ASSUME NEW f, NEW g, IsFiniteSet(DOMAIN f), \A x \in DOMAIN f : f[x] \in Int,
         NEW y \in DOMAIN f, DOMAIN g = DOMAIN f \ {y}, \A x \in DOMAIN g : g[x] = f[x]
  PROVE  Total(f) = Total(g) + f[y]
<1>1. IsFiniteSet(DOMAIN g)
  BY FS_Subset
<1>2. PICK F : Sums(F, f, SUBSET DOMAIN f) /\ Total(f) = F[DOMAIN f]
  BY TotalIsSum
<1>3. PICK G : Sums(G, g, SUBSET DOMAIN g) /\ Total(g) = G[DOMAIN g]
  BY <1>1, TotalIsSum
<1>4. F[DOMAIN f] = f[y] + F[DOMAIN f \ {y}]
  BY <1>2, AnyOrder
<1>5. F[DOMAIN g] = G[DOMAIN g]
  <2>1. Extends(f, g)
    BY DEF Extends
  <2>2. Sums(F, f, SUBSET DOMAIN f) /\ Sums(G, g, SUBSET DOMAIN g)
    BY <1>2, <1>3
  <2> QED  BY <2>1, <2>2, SameSums
<1>6. F[DOMAIN g] \in Int /\ f[y] \in Int
  BY <1>2, SumsAreInts
<1> QED  BY <1>2, <1>3, <1>4, <1>5, <1>6

\* A table is added up by rows or by columns.
LEMMA RowsAndColumns ==
  ASSUME NEW R, NEW C, IsFiniteSet(R), IsFiniteSet(C), NEW c \in [R -> [C -> Int]]
  PROVE  Total([y \in C |-> Total([x \in R |-> c[x][y]])]) = Total([x \in R |-> Total(c[x])])
<1> DEFINE col(s, y) == [x \in s |-> c[x][y]]
           cols(s) == [y \in C |-> Total(col(s, y))]
           rows(s) == [x \in s |-> Total(c[x])]
           Equal(s) == Total(cols(s)) = Total(rows(s))
           Bad == {k \in Nat : \E s \in SUBSET R : Cardinality(s) = k /\ ~Equal(s)}
<1>1. ASSUME Bad # {} PROVE FALSE
  <2>1. PICK m \in Bad : \A k \in Bad : m <= k
    <3> HIDE DEF Bad
    <3>1. Bad \subseteq Nat
      BY DEF Bad
    <3> QED  BY <1>1, <3>1, LeastExists
  <2>2. PICK s \in SUBSET R : Cardinality(s) = m /\ ~Equal(s)
    BY <2>1
  <2>3. s # {}
    <3>1. ASSUME s = {} PROVE FALSE
      <4>1. DOMAIN rows(s) = {}
        BY <3>1
      <4>2. \A y \in C : DOMAIN col(s, y) = {}
        BY <3>1
      <4>3. \A y \in C : Total(col(s, y)) = 0
        <5> HIDE DEF col
        <5> QED  BY <4>2, TotalOfNothing
      <4>4. DOMAIN cols(s) = C /\ \A y \in C : cols(s)[y] = 0
        BY <4>3
      <4>5. Total(rows(s)) = 0
        <5> HIDE DEF rows
        <5> QED  BY <4>1, TotalOfNothing
      <4>6. Total(cols(s)) = 0
        <5> HIDE DEF cols
        <5> QED  BY <4>4, TotalOfZeros
      <4> QED  BY <2>2, <4>5, <4>6
    <3> QED  BY <3>1
  <2> DEFINE z == Last(s)
             r == s \ {z}
  <2>4. z \in s /\ r \in SUBSET R /\ Cardinality(r) = m - 1 /\ m - 1 \in Nat /\ IsFiniteSet(s) /\ IsFiniteSet(r)
    <3> HIDE DEF Equal
    <3>0. Cardinality(s) = m
      BY <2>2
    <3>1. z \in s /\ r \in SUBSET R /\ Cardinality(r) = m - 1 /\ m - 1 \in Nat /\ IsFiniteSet(s)
      BY <2>3, <3>0, LastRemoved
    <3> HIDE DEF r
    <3> QED  BY <3>1, FS_Subset
  <2> HIDE DEF z
  <2>5. Equal(r)
    <3> HIDE DEF Equal, r
    <3> QED  BY <2>1, <2>4
  <2>6. \A x \in R : DOMAIN c[x] = C /\ \A y \in C : c[x][y] \in Int
    OBVIOUS
  <2>7. ASSUME NEW y \in C PROVE Total(col(s, y)) = Total(col(r, y)) + c[z][y]
    <3> DEFINE f == col(s, y)
               g == col(r, y)
    <3>1. /\ DOMAIN f = s /\ DOMAIN g = s \ {z} /\ f[z] = c[z][y]
          /\ \A x \in DOMAIN f : f[x] \in Int
          /\ \A x \in DOMAIN g : g[x] = f[x]
      BY <2>4, <2>6
    <3> HIDE DEF f, g
    <3>2. Total(f) = Total(g) + f[z]
      BY <2>4, <3>1, TotalWithoutOne
    <3> QED  BY <3>1, <3>2 DEF f, g
  <2>8. ASSUME NEW y \in C PROVE Total(col(r, y)) \in Int
    <3>1. DOMAIN col(r, y) = r /\ \A x \in r : col(r, y)[x] \in Int
      BY <2>4, <2>6
    <3> HIDE DEF col, r
    <3> QED  BY <2>4, <3>1, TotalIsInt
  <2>9. Total(cols(s)) = Total(cols(r)) + Total(c[z])
    <3>1. /\ DOMAIN cols(r) = C /\ DOMAIN cols(s) = C /\ DOMAIN c[z] = C
          /\ \A y \in C : cols(r)[y] \in Int /\ c[z][y] \in Int /\ cols(s)[y] = cols(r)[y] + c[z][y]
      <4> HIDE DEF col, r
      <4> QED  BY <2>2, <2>4, <2>6, <2>7, <2>8 DEF r
    <3> HIDE DEF cols
    <3> QED  BY <3>1, TotalIsAdditive
  <2>10. \A x \in R : Total(c[x]) \in Int
    BY <2>6, TotalIsInt
  <2>11. Total(rows(s)) = Total(rows(r)) + Total(c[z])
    <3> DEFINE f == rows(s)
               g == rows(r)
    <3>1. /\ DOMAIN f = s /\ DOMAIN g = s \ {z} /\ f[z] = Total(c[z])
          /\ \A x \in DOMAIN f : f[x] \in Int
          /\ \A x \in DOMAIN g : g[x] = f[x]
      BY <2>2, <2>4, <2>10
    <3> HIDE DEF f, g
    <3>2. Total(f) = Total(g) + f[z]
      BY <2>4, <3>1, TotalWithoutOne
    <3> QED  BY <3>1, <3>2 DEF f, g
  <2> HIDE DEF cols, rows
  <2> QED  BY <2>2, <2>5, <2>9, <2>11
<1>2. Cardinality(R) \in Nat /\ Cardinality(R) \notin Bad
  BY <1>1, EmptyIsSmall
<1>3. Equal(R)
  BY <1>2
<1> QED  BY <1>3
=============================================================================
