---------------------------- MODULE TotalsProofs ----------------------------
(***************************************************************************)
(* Facts about sums of integers, for the ledger and for the bids.          *)
(***************************************************************************)
EXTENDS Totals, TLAPS, FiniteSetTheorems

\* Finitely many points with finitely many units each.
LEMMA UnitsFinite ==
  ASSUME NEW f, IsFiniteSet(DOMAIN f), \A x \in DOMAIN f : f[x] \in Int
  PROVE  IsFiniteSet(Units(f))
<1>. DEFINE U == [x \in DOMAIN f |-> {x} \X (1..f[x])]
            T == {{x} \X (1..f[x]) : x \in DOMAIN f}
<1>1. U \in Surjection(DOMAIN f, T)
  BY DEF Surjection
<1>2. IsFiniteSet(T)
  BY <1>1, FS_Surjection
<1>3. ASSUME NEW x \in DOMAIN f PROVE IsFiniteSet({x} \X (1..f[x]))
  <2>1. f[x] \in Int
    BY <1>3
  <2>2. \A n \in Int : IsFiniteSet(1..n)
    BY FS_Interval
  <2>3. IsFiniteSet({x}) /\ IsFiniteSet(1..f[x])
    BY <2>1, <2>2, FS_Singleton, Zenon
  <2>. QED
    BY ONLY <2>3, FS_Product
<1>4. \A S \in T : IsFiniteSet(S)
  BY <1>3
<1>. QED
  BY <1>2, <1>4, FS_UNION DEF Units

\* Opposites of integers are integers.
LEMMA OppositeType ==
  ASSUME NEW f, \A x \in DOMAIN f : f[x] \in Int
  PROVE  /\ DOMAIN Opposite(f) = DOMAIN f
         /\ \A x \in DOMAIN f : Opposite(f)[x] \in Int /\ Opposite(f)[x] = 0 - f[x]
BY DEF Opposite

\* The sum of finitely many integers is an integer.
LEMMA TotalType ==
  ASSUME NEW f, IsFiniteSet(DOMAIN f), \A x \in DOMAIN f : f[x] \in Int
  PROVE  Total(f) \in Int
<1>1. IsFiniteSet(Units(f)) /\ IsFiniteSet(Units(Opposite(f)))
  BY UnitsFinite, OppositeType
<1>2. Cardinality(Units(f)) \in Nat /\ Cardinality(Units(Opposite(f))) \in Nat
  BY <1>1, FS_CardinalityType
<1>. QED
  BY <1>2 DEF Total

\* The sum of nothing is zero.
LEMMA TotalEmpty ==
  ASSUME NEW f, DOMAIN f = {}
  PROVE  Total(f) = 0
<1>1. Units(f) = {} /\ Units(Opposite(f)) = {}
  BY DEF Units, Opposite
<1>. QED
  BY <1>1, FS_EmptySet DEF Total

\* One more point adds the units it has.
LEMMA UnitsExtend ==
  ASSUME NEW f, NEW g, NEW x, x \notin DOMAIN f, DOMAIN g = DOMAIN f \cup {x},
         IsFiniteSet(DOMAIN f), \A y \in DOMAIN f : f[y] \in Int /\ g[y] = f[y],
         g[x] \in Int
  PROVE  Cardinality(Units(g)) = Cardinality(Units(f)) + (IF g[x] > 0 THEN g[x] ELSE 0)
<1>. DEFINE V == {x} \X (1..g[x])
<1>1. Units(g) = Units(f) \cup V
  BY DEF Units
<1>2. Units(f) \cap V = {}
  BY DEF Units
<1>3. IsFiniteSet(Units(f)) /\ Cardinality(Units(f)) \in Nat
  BY UnitsFinite, FS_CardinalityType
<1>4. /\ IsFiniteSet(1..g[x])
      /\ Cardinality(1..g[x]) = IF g[x] > 0 THEN g[x] ELSE 0
  <2>1. /\ IsFiniteSet(1..g[x])
        /\ Cardinality(1..g[x]) = IF 1 > g[x] THEN 0 ELSE g[x] - 1 + 1
    BY FS_Interval
  <2>. QED
    BY <2>1
<1>5. IsFiniteSet(V) /\ Cardinality(V) = 1 * Cardinality(1..g[x])
  <2>1. IsFiniteSet({x}) /\ Cardinality({x}) = 1
    BY FS_Singleton
  <2>. QED
    BY ONLY <1>4, <2>1, FS_Product
<1>6. Cardinality(Units(f) \cap V) = 0
  BY <1>2, FS_EmptySet
<1>7. Cardinality(Units(f) \cup V)
        = Cardinality(Units(f)) + Cardinality(V) - Cardinality(Units(f) \cap V)
  BY ONLY <1>3, <1>5, FS_Union
<1>. HIDE DEF V
<1>. QED
  BY <1>1, <1>3, <1>4, <1>5, <1>6, <1>7

\* One more point adds its value.
LEMMA TotalExtend ==
  ASSUME NEW f, NEW g, NEW x, x \notin DOMAIN f, DOMAIN g = DOMAIN f \cup {x},
         IsFiniteSet(DOMAIN f), \A y \in DOMAIN f : f[y] \in Int /\ g[y] = f[y],
         g[x] \in Int
  PROVE  Total(g) = Total(f) + g[x]
<1>. DEFINE F == Opposite(f)  G == Opposite(g)
<1>1. Cardinality(Units(g)) = Cardinality(Units(f)) + (IF g[x] > 0 THEN g[x] ELSE 0)
  BY UnitsExtend
<1>2. /\ DOMAIN F = DOMAIN f /\ DOMAIN G = DOMAIN f \cup {x}
      /\ \A y \in DOMAIN f : F[y] \in Int /\ G[y] = F[y]
      /\ G[x] \in Int /\ G[x] = 0 - g[x]
  BY DEF Opposite
<1>. HIDE DEF F, G
<1>3. Cardinality(Units(G)) = Cardinality(Units(F)) + (IF G[x] > 0 THEN G[x] ELSE 0)
  BY <1>2, UnitsExtend
<1>4. Cardinality(Units(f)) \in Nat /\ Cardinality(Units(F)) \in Nat
  BY <1>2, UnitsFinite, FS_CardinalityType
<1>5. /\ Total(f) = Cardinality(Units(f)) - Cardinality(Units(F))
      /\ Total(g) = Cardinality(Units(g)) - Cardinality(Units(G))
  BY DEF Total, F, G
<1>. QED
  BY <1>1, <1>2, <1>3, <1>4, <1>5

\* Natural numbers are counted as units only.
LEMMA TotalOfNaturals ==
  ASSUME NEW f, IsFiniteSet(DOMAIN f), \A x \in DOMAIN f : f[x] \in Nat
  PROVE  Total(f) \in Nat /\ Total(f) = Cardinality(Units(f)) /\ IsFiniteSet(Units(f))
<1>1. Units(Opposite(f)) = {}
  BY DEF Units, Opposite
<1>2. IsFiniteSet(Units(f)) /\ Cardinality(Units(f)) \in Nat
  BY UnitsFinite, FS_CardinalityType
<1>3. Cardinality(Units(Opposite(f))) = 0
  BY <1>1, FS_EmptySet
<1>. QED
  BY <1>2, <1>3 DEF Total

\* More points of natural numbers add up to no less.
LEMMA TotalMonotone ==
  ASSUME NEW f, NEW g, IsFiniteSet(DOMAIN g), \A x \in DOMAIN g : g[x] \in Nat,
         DOMAIN f \subseteq DOMAIN g, \A x \in DOMAIN f : f[x] = g[x]
  PROVE  Total(f) <= Total(g)
<1>1. IsFiniteSet(DOMAIN f) /\ \A x \in DOMAIN f : f[x] \in Nat
  BY FS_Subset
<1>2. Units(f) \subseteq Units(g)
  BY DEF Units
<1>3. IsFiniteSet(Units(g)) /\ Total(g) = Cardinality(Units(g))
  BY TotalOfNaturals
<1>4. Total(f) = Cardinality(Units(f))
  BY <1>1, TotalOfNaturals
<1>. QED
  BY <1>2, <1>3, <1>4, FS_Subset

\* One point that changes moves the sum by what it changes.
LEMMA TotalChange ==
  ASSUME NEW f, NEW g, NEW x \in DOMAIN f, DOMAIN g = DOMAIN f, IsFiniteSet(DOMAIN f),
         \A y \in DOMAIN f : f[y] \in Int /\ (y # x => g[y] = f[y]), g[x] \in Int
  PROVE  Total(g) = Total(f) - f[x] + g[x]
<1>. DEFINE h == [y \in DOMAIN f \ {x} |-> f[y]]
<1>1. /\ DOMAIN h = DOMAIN f \ {x} /\ IsFiniteSet(DOMAIN h)
      /\ \A y \in DOMAIN h : h[y] \in Int /\ f[y] = h[y] /\ g[y] = h[y]
  BY FS_Subset
<1>. HIDE DEF h
<1>2. x \notin DOMAIN h /\ DOMAIN f = DOMAIN h \cup {x} /\ DOMAIN g = DOMAIN h \cup {x}
  BY <1>1
<1>3. Total(f) = Total(h) + f[x]
  <2>1. f[x] \in Int
    OBVIOUS
  <2>. QED
    BY ONLY <1>1, <1>2, <2>1, TotalExtend
<1>4. Total(g) = Total(h) + g[x]
  <2>1. g[x] \in Int
    OBVIOUS
  <2>. QED
    BY ONLY <1>1, <1>2, <2>1, TotalExtend
<1>5. Total(h) \in Int
  BY <1>1, TotalType
<1>. QED
  BY <1>3, <1>4, <1>5
=============================================================================
