---------------------------- MODULE Totals_proofs ---------------------------
(***************************************************************************)
(* Facts about sums, proved from the library's facts on finite sets: a sum *)
(* is a natural number, changes with its function one element at a time,   *)
(* ignores elements worth nothing, and adds up.                            *)
(***************************************************************************)
EXTENDS Totals, FiniteSetTheorems, TLAPS

\* What it is to be one of the coins of a sum.
LEMMA CoinsPair ==
    ASSUME NEW f, NEW S, NEW x, NEW i
    PROVE  <<x, i>> \in Coins(f, S) <=> x \in S /\ i \in 1 .. f[x]
<1>1. <<x, i>> \in Coins(f, S) <=> \E y \in S : <<x, i>> \in {y} \X (1 .. f[y])
  BY DEF Coins
<1>2. \A y : <<x, i>> \in {y} \X (1 .. f[y]) <=> y = x /\ i \in 1 .. f[y]
  OBVIOUS
<1>3. QED
  BY <1>1, <1>2

LEMMA CoinsElim ==
    ASSUME NEW f, NEW S, NEW p \in Coins(f, S)
    PROVE  \E x, i : x \in S /\ i \in 1 .. f[x] /\ p = <<x, i>>
<1>1. PICK x \in S : p \in {x} \X (1 .. f[x])
  BY DEF Coins
<1>2. p = <<p[1], p[2]>> /\ p[1] = x /\ p[2] \in 1 .. f[x]
  BY <1>1
<1>3. QED
  BY <1>1, <1>2

\* The coins of a finite set are finitely many, so a sum is a natural number.
LEMMA TotalType ==
    ASSUME NEW S, IsFiniteSet(S), NEW f, \A x \in S : f[x] \in Nat
    PROVE  /\ IsFiniteSet(Coins(f, S))
           /\ Total(f, S) \in Nat
<1> DEFINE pile == [x \in S |-> {x} \X (1 .. f[x])]
           piles == { {x} \X (1 .. f[x]) : x \in S }
<1>1. pile \in Surjection(S, piles)
  BY DEF Surjection
<1>2. IsFiniteSet(piles)
  BY <1>1, FS_Surjection
<1>3. ASSUME NEW x \in S PROVE IsFiniteSet({x} \X (1 .. f[x]))
  <2>1. f[x] \in Int
    OBVIOUS
  <2>2. IsFiniteSet(1 .. f[x])
    BY <2>1, FS_Interval
  <2>3. IsFiniteSet({x})
    BY FS_Singleton
  <2>4. QED
    BY <2>2, <2>3, FS_Product
<1>4. \A T \in piles : IsFiniteSet(T)
  BY <1>3
<1>5. IsFiniteSet(UNION piles)
  BY <1>2, <1>4, FS_UNION
<1>6. QED
  BY <1>5, FS_CardinalityType DEF Coins, Total

\* Functions that agree on S have the same sum over S.
LEMMA TotalSame ==
    ASSUME NEW S, NEW f, NEW g, \A x \in S : f[x] = g[x]
    PROVE  Total(f, S) = Total(g, S)
<1>1. Coins(f, S) = Coins(g, S)
  <2>1. \A x \in S : {x} \X (1 .. f[x]) = {x} \X (1 .. g[x])
    OBVIOUS
  <2>2. QED
    BY <2>1, Zenon DEF Coins
<1>2. QED
  BY <1>1 DEF Total

\* Elements worth nothing do not count.
LEMMA TotalRestrict ==
    ASSUME NEW S, NEW T, T \subseteq S, NEW f, \A x \in S \ T : f[x] = 0
    PROVE  Total(f, S) = Total(f, T)
<1>1. \A x \in S \ T : 1 .. f[x] = {}
  OBVIOUS
<1>2. Coins(f, S) \subseteq Coins(f, T)
  <2>1. ASSUME NEW p \in Coins(f, S) PROVE p \in Coins(f, T)
    <3>1. PICK x, i : x \in S /\ i \in 1 .. f[x] /\ p = <<x, i>>
      BY CoinsElim
    <3>2. x \in T
      BY <1>1, <3>1
    <3>3. QED
      BY <3>1, <3>2, CoinsPair
  <2>2. QED
    BY <2>1
<1>3. Coins(f, T) \subseteq Coins(f, S)
  BY DEF Coins
<1>4. Coins(f, S) = Coins(f, T)
  BY <1>2, <1>3
<1>5. QED
  BY <1>4 DEF Total

\* A sum of nothing but zeroes is zero.
LEMMA TotalZero ==
    ASSUME NEW S, NEW f, \A x \in S : f[x] = 0
    PROVE  Total(f, S) = 0
<1>1. \A x \in S : 1 .. f[x] = {}
  OBVIOUS
<1>2. Coins(f, S) = {}
  BY <1>1 DEF Coins
<1>3. QED
  BY <1>2, FS_EmptySet DEF Total

\* The coins of one element are as many as it is worth.
LEMMA PileCardinality ==
    ASSUME NEW x, NEW n \in Nat
    PROVE  /\ IsFiniteSet({x} \X (1 .. n))
           /\ Cardinality({x} \X (1 .. n)) = n
<1>1. IsFiniteSet(1 .. n) /\ Cardinality(1 .. n) = n
  BY FS_Interval
<1>2. IsFiniteSet({x}) /\ Cardinality({x}) = 1
  BY FS_Singleton
<1>3. /\ IsFiniteSet({x} \X (1 .. n))
      /\ Cardinality({x} \X (1 .. n)) = Cardinality({x}) * Cardinality(1 .. n)
  BY <1>1, <1>2, FS_Product
<1>4. QED
  BY <1>1, <1>2, <1>3

\* A sum over S is what one element is worth plus the sum over the others.
LEMMA TotalSplit ==
    ASSUME NEW S, IsFiniteSet(S), NEW x \in S, NEW f, \A y \in S : f[y] \in Nat
    PROVE  Total(f, S) = Total(f, S \ {x}) + f[x]
<1> DEFINE own == {x} \X (1 .. f[x])
           rest == Coins(f, S \ {x})
<1>1. Coins(f, S) = rest \cup own
  BY Zenon DEF Coins
<1>2. rest \cap own = {}
  BY DEF Coins
<1>3. IsFiniteSet(own) /\ Cardinality(own) = f[x]
  BY PileCardinality
<1>4. IsFiniteSet(S \ {x})
  BY FS_RemoveElement
<1>5. IsFiniteSet(rest) /\ Cardinality(rest) \in Nat
  BY <1>4, TotalType, FS_CardinalityType
<1>6. Cardinality(rest \cup own)
        = Cardinality(rest) + Cardinality(own) - Cardinality(rest \cap own)
  BY <1>3, <1>5, FS_Union
<1>7. Cardinality(rest \cap own) = 0
  BY <1>2, FS_EmptySet
<1>8. QED
  BY <1>1, <1>3, <1>5, <1>6, <1>7 DEF Total

\* When one element changes, the sum changes by as much.
LEMMA TotalUpdate ==
    ASSUME NEW S, IsFiniteSet(S), NEW x \in S, NEW f, NEW g,
           \A y \in S : f[y] \in Nat,
           \A y \in S : g[y] \in Nat,
           \A y \in S \ {x} : g[y] = f[y]
    PROVE  Total(g, S) = Total(f, S) - f[x] + g[x]
<1>1. Total(f, S) = Total(f, S \ {x}) + f[x]
  BY TotalSplit
<1>2. Total(g, S) = Total(g, S \ {x}) + g[x]
  BY TotalSplit
<1>3. Total(f, S \ {x}) = Total(g, S \ {x})
  BY TotalSame
<1>4. IsFiniteSet(S \ {x})
  BY FS_RemoveElement
<1>5. Total(f, S \ {x}) \in Nat
  BY <1>4, TotalType
<1>6. QED
  BY <1>1, <1>2, <1>3, <1>5

\* The same seen from a set that may or may not hold the element.
LEMMA TotalChange ==
    ASSUME NEW S, IsFiniteSet(S), NEW x, NEW f, NEW g,
           \A y \in S : f[y] \in Nat,
           \A y \in S : g[y] \in Nat,
           \A y \in S \ {x} : g[y] = f[y]
    PROVE  Total(g, S) = Total(f, S) + (IF x \in S THEN g[x] - f[x] ELSE 0)
<1>1. Total(f, S) \in Nat
  BY TotalType
<1>2. CASE x \in S
  <2>1. Total(g, S) = Total(f, S) - f[x] + g[x]
    BY <1>2, TotalUpdate
  <2>2. f[x] \in Nat /\ g[x] \in Nat
    BY <1>2
  <2>3. QED
    BY <1>1, <1>2, <2>1, <2>2
<1>3. CASE x \notin S
  <2>1. \A y \in S : f[y] = g[y]
    BY <1>3
  <2>2. Total(g, S) = Total(f, S)
    BY <2>1, TotalSame
  <2>3. QED
    BY <1>1, <1>3, <2>2
<1>4. QED
  BY <1>2, <1>3

\* No element is worth more than the sum.
LEMMA TotalBoundsElement ==
    ASSUME NEW S, IsFiniteSet(S), NEW x \in S, NEW f, \A y \in S : f[y] \in Nat
    PROVE  f[x] <= Total(f, S)
<1>1. Total(f, S) = Total(f, S \ {x}) + f[x]
  BY TotalSplit
<1>2. IsFiniteSet(S \ {x})
  BY FS_RemoveElement
<1>3. Total(f, S \ {x}) \in Nat
  BY <1>2, TotalType
<1>4. QED
  BY <1>1, <1>3

\* The sum of the sums is the sum over both: each coin of h beyond those of f
\* is a coin of g, moved up by what f is worth there.
LEMMA TotalAdd ==
    ASSUME NEW S, IsFiniteSet(S), NEW f, NEW g, NEW h,
           \A x \in S : f[x] \in Nat,
           \A x \in S : g[x] \in Nat,
           \A x \in S : h[x] = f[x] + g[x]
    PROVE  Total(h, S) = Total(f, S) + Total(g, S)
<1> DEFINE F == Coins(f, S)
           G == Coins(g, S)
           H == Coins(h, S)
           lift == [p \in G |-> <<p[1], f[p[1]] + p[2]>>]
<1>1. F \subseteq H
  <2>1. ASSUME NEW p \in F PROVE p \in H
    <3>1. PICK x, i : x \in S /\ i \in 1 .. f[x] /\ p = <<x, i>>
      BY CoinsElim
    <3>2. i \in 1 .. h[x]
      BY <3>1
    <3>3. QED
      BY <3>1, <3>2, CoinsPair
  <2>2. QED
    BY <2>1
<1>2. lift \in Bijection(G, H \ F)
  <2>1. ASSUME NEW x \in S, NEW i \in 1 .. g[x]
        PROVE  /\ <<x, i>> \in G
               /\ lift[<<x, i>>] = <<x, f[x] + i>>
               /\ lift[<<x, i>>] \in H \ F
    <3>1. <<x, i>> \in G
      BY CoinsPair
    <3>2. lift[<<x, i>>] = <<x, f[x] + i>>
      BY <3>1
    <3>3. f[x] + i \in 1 .. h[x] /\ f[x] + i \notin 1 .. f[x]
      OBVIOUS
    <3>4. <<x, f[x] + i>> \in H
      BY <3>3, CoinsPair
    <3>5. <<x, f[x] + i>> \notin F
      BY <3>3, CoinsPair
    <3>6. QED
      BY <3>1, <3>2, <3>4, <3>5
  <2>2. lift \in [G -> H \ F]
    <3>1. ASSUME NEW p \in G PROVE lift[p] \in H \ F
      <4>1. PICK x, i : x \in S /\ i \in 1 .. g[x] /\ p = <<x, i>>
        BY CoinsElim
      <4>2. QED
        BY <2>1, <4>1
    <3>2. QED
      BY <3>1
  <2>3. ASSUME NEW p \in G, NEW q \in G, lift[p] = lift[q]
        PROVE  p = q
    <3>1. PICK x, i : x \in S /\ i \in 1 .. g[x] /\ p = <<x, i>>
      BY CoinsElim
    <3>2. PICK y, j : y \in S /\ j \in 1 .. g[y] /\ q = <<y, j>>
      BY CoinsElim
    <3>3. <<x, f[x] + i>> = <<y, f[y] + j>>
      BY <2>1, <2>3, <3>1, <3>2
    <3>4. x = y /\ f[x] + i = f[x] + j
      BY <3>3
    <3>5. i = j
      BY <3>1, <3>2, <3>4
    <3>6. QED
      BY <3>1, <3>2, <3>4, <3>5
  <2>4. ASSUME NEW p \in H \ F PROVE \E q \in G : lift[q] = p
    <3>1. PICK x, i : x \in S /\ i \in 1 .. h[x] /\ p = <<x, i>>
      BY CoinsElim
    <3>2. i \notin 1 .. f[x]
      BY <3>1, CoinsPair
    <3>3. i - f[x] \in 1 .. g[x] /\ f[x] + (i - f[x]) = i
      BY <3>1, <3>2
    <3>4. <<x, i - f[x]>> \in G /\ lift[<<x, i - f[x]>>] = <<x, f[x] + (i - f[x])>>
      BY <2>1, <3>1, <3>3
    <3>5. QED
      BY <3>1, <3>3, <3>4
  <2>5. QED
    BY <2>2, <2>3, <2>4 DEF Bijection, Injection, Surjection, IsInjective
<1>3. IsFiniteSet(F) /\ IsFiniteSet(G)
  BY TotalType
<1>4. IsFiniteSet(H \ F) /\ Cardinality(H \ F) = Cardinality(G)
  BY <1>2, <1>3, FS_Bijection DEF ExistsBijection
<1>5. H = F \cup (H \ F) /\ F \cap (H \ F) = {}
  BY <1>1
<1>6. Cardinality(F \cup (H \ F))
        = Cardinality(F) + Cardinality(H \ F) - Cardinality(F \cap (H \ F))
  BY <1>3, <1>4, FS_Union
<1>7. Cardinality(F \cap (H \ F)) = 0
  BY <1>5, FS_EmptySet
<1>8. Cardinality(F) \in Nat /\ Cardinality(G) \in Nat
  BY <1>3, FS_CardinalityType
<1>9. Cardinality(H) = Cardinality(F) + Cardinality(G)
  <2>1. Cardinality(H) = Cardinality(F \cup (H \ F))
    BY <1>5, Zenon
  <2> HIDE DEF F, G, H
  <2>2. QED
    BY <2>1, <1>4, <1>6, <1>7, <1>8
<1>10. QED
  BY <1>9 DEF Total

\* A sum grows with what it is made of.
LEMMA TotalMonotone ==
    ASSUME NEW S, IsFiniteSet(S), NEW f, NEW g,
           \A x \in S : f[x] \in Nat,
           \A x \in S : g[x] \in Nat,
           \A x \in S : f[x] <= g[x]
    PROVE  Total(f, S) <= Total(g, S)
<1> DEFINE rest == [x \in S |-> g[x] - f[x]]
<1>1. \A x \in S : rest[x] \in Nat /\ g[x] = f[x] + rest[x]
  OBVIOUS
<1> HIDE DEF rest
<1>2. Total(g, S) = Total(f, S) + Total(rest, S)
  BY <1>1, TotalAdd
<1>3. Total(f, S) \in Nat /\ Total(rest, S) \in Nat
  BY <1>1, TotalType
<1>4. QED
  BY <1>2, <1>3

\* A part is worth no more than the whole.
LEMMA TotalSubset ==
    ASSUME NEW S, IsFiniteSet(S), NEW T, T \subseteq S, NEW f, \A x \in S : f[x] \in Nat
    PROVE  Total(f, T) <= Total(f, S)
<1>1. Coins(f, T) \subseteq Coins(f, S)
  BY DEF Coins
<1>2. IsFiniteSet(Coins(f, S))
  BY TotalType
<1>3. QED
  BY <1>1, <1>2, FS_Subset DEF Total

\* What a function g reaches from S is worth no more than S, when g keeps the
\* worth of each element: of the elements g takes to one place, one will do.
LEMMA TotalImage ==
    ASSUME NEW S, IsFiniteSet(S), NEW f, \A x \in S : f[x] \in Nat,
           NEW g, NEW h, \A x \in S : h[g[x]] = f[x]
    PROVE  Total(h, {g[x] : x \in S}) <= Total(f, S)
<1> DEFINE T == {g[x] : x \in S}
           source(y) == CHOOSE x \in S : g[x] = y
           back == [p \in Coins(h, T) |-> <<source(p[1]), p[2]>>]
<1>1. \A y \in T : source(y) \in S /\ g[source(y)] = y
  OBVIOUS
<1> HIDE DEF source
<1>2. ASSUME NEW p \in Coins(h, T)
      PROVE  /\ back[p] = <<source(p[1]), p[2]>> /\ back[p] \in Coins(f, S)
             /\ p = <<g[source(p[1])], p[2]>>
  <2>1. PICK y, i : y \in T /\ i \in 1 .. h[y] /\ p = <<y, i>>
    BY CoinsElim
  <2>2. source(y) \in S /\ g[source(y)] = y
    BY <1>1, <2>1
  <2>3. h[y] = f[source(y)]
    BY <2>2
  <2>4. <<source(y), i>> \in Coins(f, S)
    BY <2>1, <2>2, <2>3, CoinsPair
  <2>5. QED
    BY <2>1, <2>2, <2>4
<1>3. back \in Injection(Coins(h, T), Coins(f, S))
  <2>1. back \in [Coins(h, T) -> Coins(f, S)]
    BY <1>2
  <2>2. ASSUME NEW p \in Coins(h, T), NEW q \in Coins(h, T), back[p] = back[q]
        PROVE  p = q
    <3>1. source(p[1]) = source(q[1]) /\ p[2] = q[2]
      BY <1>2, <2>2
    <3>2. QED
      BY <1>2, <3>1, Zenon
  <2>3. QED
    BY <2>1, <2>2 DEF Injection, IsInjective
<1>4. IsFiniteSet(Coins(f, S))
  BY TotalType
<1>5. Cardinality(Coins(h, T)) <= Cardinality(Coins(f, S))
  BY <1>3, <1>4, FS_Injection DEF ExistsInjection
<1>6. QED
  BY <1>5 DEF Total

\* A set of naturals that is not empty has a least member: of the sets of what
\* is no greater than a member, one is minimal, and it is the least member's.
LEMMA LeastOfNats ==
    ASSUME NEW S, S \subseteq Nat, S # {}
    PROVE  \E m \in S : \A y \in S : m <= y
<1> DEFINE below(x) == {y \in S : y <= x}
           cones == {below(x) : x \in S}
           R == StrictSubsetOrdering(S)
<1>1. IsWellFoundedOn(R, FiniteSubsetsOf(S))
  BY FS_StrictSubsetOrderingWellFounded
<1>2. cones \subseteq FiniteSubsetsOf(S) /\ cones # {}
  <2>1. ASSUME NEW x \in S PROVE below(x) \in SUBSET S /\ IsFiniteSet(below(x))
    <3>1. x \in Nat /\ IsFiniteSet(0 .. x)
      BY FS_Interval
    <3>2. \A y \in S : y <= x => y \in 0 .. x
      BY <3>1
    <3>3. below(x) \subseteq 0 .. x /\ below(x) \subseteq S
      BY <3>2
    <3>4. QED
      BY <3>1, <3>3, FS_Subset
  <2>2. QED
    BY <2>1 DEF FiniteSubsetsOf
<1>3. PICK C \in cones : \A D \in cones : <<D, C>> \notin R
  <2> HIDE DEF cones, R
  <2>1. QED
    BY <1>1, <1>2, WFMin
<1>4. PICK m \in S : C = below(m)
  BY <1>3
<1>5. ASSUME NEW y \in S, ~ (m <= y) PROVE FALSE
  <2>1. m \in Int /\ y \in Int /\ \A z \in S : z \in Int
    OBVIOUS
  <2>2. y < m
    BY <2>1, <1>5
  <2>3. /\ below(y) \subseteq below(m)
        /\ m \in below(m) /\ m \notin below(y)
    <3>1. \A z \in S : z <= y => z <= m
      BY <2>1, <2>2
    <3>2. m <= m /\ ~ (m <= y)
      BY <2>1, <2>2
    <3>3. QED
      BY <3>1, <3>2, Zenon
  <2>4. <<below(y), below(m)>> \in R
    BY <2>3 DEF StrictSubsetOrdering
  <2>5. QED
    BY <1>3, <1>4, <1>5, <2>4
<1>6. \A y \in S : m <= y
  BY <1>5
<1>7. QED
  BY <1>4, <1>6
=============================================================================
