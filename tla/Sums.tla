-------------------------------- MODULE Sums --------------------------------
(***************************************************************************)
(* Facts about SumFunctionOnSet, the sum of a function's values over a     *)
(* finite set, and about values that are found step by step: that a        *)
(* function with such values exists, and that what holds at first and is   *)
(* kept by each step holds of all of them.  The least number of a set      *)
(* stands in for induction.                                                *)
(*                                                                         *)
(* The community module defines the sum by a recursive function on the     *)
(* set's subsets, which picks an element at a time.  That there is such a  *)
(* function, and that the order in which it picks does not matter, has to  *)
(* be shown; nothing else here looks at how the sum is computed.           *)
(***************************************************************************)
EXTENDS Integers, FiniteSets, Functions, WellFoundedInduction, FiniteSetTheorems, TLAPS

\* Every set of natural numbers has a least element: a statement about all numbers (or
\* about all finite sets, by their cardinality) fails for none if it fails for no least.
LEMMA LeastNat ==
    ASSUME NEW T, T \subseteq Nat, T # {}
    PROVE  \E n \in T : \A m \in T : n <= m
<1>1. \E x \in T : \A y \in T : ~ (<<y, x>> \in OpToRel(<, Nat))
    BY NatLessThanWellFounded, WFMin
<1>2. \A x, y \in Nat : ~ (<<y, x>> \in OpToRel(<, Nat)) => x <= y
    BY DEF OpToRel
<1> QED BY <1>1, <1>2

\* Of sets that make up a family, one has the fewest elements.
LEMMA SmallestSet ==
    ASSUME NEW F, F # {}, \A s \in F : IsFiniteSet(s)
    PROVE  \E s \in F : \A t \in F : Cardinality(s) <= Cardinality(t)
<1>1. {Cardinality(s) : s \in F} \subseteq Nat
    BY FS_CardinalityType
<1>2. {Cardinality(s) : s \in F} # {}
    OBVIOUS
<1>3. PICK n \in {Cardinality(s) : s \in F} : \A m \in {Cardinality(s) : s \in F} : n <= m
    BY <1>1, <1>2, LeastNat
<1> QED BY <1>3

-----------------------------------------------------------------------------
(* The recursive function.                                                 *)
Picked(s) == CHOOSE x \in s : TRUE

Others(s) == s \ {Picked(s)}

\* g tallies up f on every set of a family that is closed under picking.
TalliesOn(g, f, F) ==
    g = [s \in F |-> IF s = {} THEN 0 ELSE f[Picked(s)] + g[Others(s)]]

Tallies(g, f, S) == TalliesOn(g, f, SUBSET S)

LEMMA SumUnfolds ==
    ASSUME NEW f, NEW S
    PROVE  SumFunctionOnSet(f, S) = (CHOOSE g : Tallies(g, f, S))[S]
BY DEF SumFunctionOnSet, FoldFunctionOnSet, MapThenFoldSet, Tallies, TalliesOn, Picked, Others

LEMMA PickedFacts ==
    ASSUME NEW s, IsFiniteSet(s), s # {}
    PROVE  /\ Picked(s) \in s
           /\ Others(s) \subseteq s /\ IsFiniteSet(Others(s))
           /\ Cardinality(s) \in Nat \ {0} /\ Cardinality(Others(s)) = Cardinality(s) - 1
<1>1. Picked(s) \in s
    BY DEF Picked
<1>2. Cardinality(s) \in Nat /\ Cardinality(s) # 0
    BY FS_CardinalityType, FS_EmptySet
<1> QED BY <1>1, <1>2, FS_RemoveElement DEF Others

\* The subsets of S with at most n elements.
UpTo(S, n) == {s \in SUBSET S : Cardinality(s) <= n}

LEMMA TallyUpTo ==
    ASSUME NEW f, NEW S, IsFiniteSet(S), NEW n \in Nat
    PROVE  \E g : TalliesOn(g, f, UpTo(S, n))
<1> DEFINE Bad == {k \in Nat : ~ \E g : TalliesOn(g, f, UpTo(S, k))}
<1> SUFFICES ASSUME Bad # {} PROVE FALSE
    OBVIOUS
<1>1. PICK k \in Bad : \A m \in Bad : k <= m
    BY LeastNat
<1>2. k \in Nat /\ ~ \E g : TalliesOn(g, f, UpTo(S, k))
    OBVIOUS
<1> HIDE DEF Bad
<1>3. \A s \in SUBSET S : IsFiniteSet(s) /\ Cardinality(s) \in Nat
    BY FS_Subset, FS_CardinalityType
<1>4. CASE k = 0
    <2>1. \A s \in UpTo(S, 0) : s = {}
        BY <1>3, FS_EmptySet DEF UpTo
    <2> DEFINE g == [s \in UpTo(S, 0) |-> 0]
    <2>2. TalliesOn(g, f, UpTo(S, 0))
        BY <2>1 DEF Tallies, TalliesOn
    <2> QED BY <1>2, <1>4, <2>2
<1>5. CASE k > 0
    <2>1. k - 1 \in Nat /\ k - 1 \notin Bad
        BY <1>1, <1>2, <1>5
    <2>2. PICK g : TalliesOn(g, f, UpTo(S, k - 1))
        BY <2>1 DEF Bad
    <2> DEFINE h == [s \in UpTo(S, k) |-> IF s = {} THEN 0 ELSE f[Picked(s)] + g[Others(s)]]
    <2>3. \A t \in UpTo(S, k - 1) : t \in UpTo(S, k) /\ h[t] = g[t]
        <3>1. UpTo(S, k - 1) \subseteq UpTo(S, k)
            BY <1>2, <1>3 DEF UpTo
        <3> QED BY <2>2, <3>1 DEF Tallies, TalliesOn
    <2>4. \A s \in UpTo(S, k) : s # {} => Others(s) \in UpTo(S, k - 1)
        BY <1>2, <1>3, PickedFacts DEF UpTo
    <2>5. TalliesOn(h, f, UpTo(S, k))
        BY <2>3, <2>4 DEF Tallies, TalliesOn
    <2> QED BY <1>2, <2>5
<1> QED BY <1>2, <1>4, <1>5

LEMMA TallyExists ==
    ASSUME NEW f, NEW S, IsFiniteSet(S)
    PROVE  \E g : Tallies(g, f, S)
<1>1. UpTo(S, Cardinality(S)) = SUBSET S
    BY FS_Subset DEF UpTo
<1>2. Cardinality(S) \in Nat
    BY FS_CardinalityType
<1>3. \E g : TalliesOn(g, f, UpTo(S, Cardinality(S)))
    BY <1>2, TallyUpTo
<1> QED BY <1>1, <1>3, Zenon DEF Tallies

\* Two tallies agree wherever both are defined.
LEMMA TallyUnique ==
    ASSUME NEW f, NEW S, IsFiniteSet(S), NEW T \in SUBSET S,
           NEW g, Tallies(g, f, S), NEW h, Tallies(h, f, T)
    PROVE  g[T] = h[T]
<1> DEFINE Bad == {s \in SUBSET T : g[s] # h[s]}
<1> SUFFICES ASSUME Bad # {} PROVE FALSE
    OBVIOUS
<1>1. \A s \in Bad : IsFiniteSet(s)
    BY FS_Subset
<1>2. PICK s \in Bad : \A t \in Bad : Cardinality(s) <= Cardinality(t)
    BY <1>1, SmallestSet
<1>3. s \in SUBSET T /\ s \in SUBSET S /\ IsFiniteSet(s) /\ g[s] # h[s]
    BY <1>1
<1> HIDE DEF Bad
<1>4. s # {}
    BY <1>3 DEF Tallies, TalliesOn
<1>5. Others(s) \in SUBSET T /\ Others(s) \notin Bad
    BY <1>2, <1>3, <1>4, PickedFacts
<1>6. g[Others(s)] = h[Others(s)]
    BY <1>5 DEF Bad
<1>7. g[s] = f[Picked(s)] + g[Others(s)] /\ h[s] = f[Picked(s)] + h[Others(s)]
    BY <1>3, <1>4 DEF Tallies, TalliesOn
<1> QED BY <1>3, <1>6, <1>7

LEMMA SumIsTally ==
    ASSUME NEW f, NEW S, IsFiniteSet(S)
    PROVE  \E g : Tallies(g, f, S) /\ SumFunctionOnSet(f, S) = g[S]
BY SumUnfolds, TallyExists

-----------------------------------------------------------------------------
(* Sums.                                                                   *)
LEMMA SumEmpty == \A f : SumFunctionOnSet(f, {}) = 0
<1> SUFFICES ASSUME NEW f PROVE SumFunctionOnSet(f, {}) = 0
    OBVIOUS
<1>1. PICK g : Tallies(g, f, {}) /\ SumFunctionOnSet(f, {}) = g[{}]
    BY SumIsTally, FS_EmptySet
<1> QED BY <1>1 DEF Tallies, TalliesOn

LEMMA SumPicked ==
    ASSUME NEW f, NEW S, IsFiniteSet(S), S # {}
    PROVE  SumFunctionOnSet(f, S) = f[Picked(S)] + SumFunctionOnSet(f, Others(S))
<1>1. PICK g : Tallies(g, f, S) /\ SumFunctionOnSet(f, S) = g[S]
    BY SumIsTally
<1>2. Others(S) \in SUBSET S /\ IsFiniteSet(Others(S))
    BY PickedFacts
<1>3. PICK h : Tallies(h, f, Others(S)) /\ SumFunctionOnSet(f, Others(S)) = h[Others(S)]
    BY <1>2, SumIsTally
<1>4. g[Others(S)] = h[Others(S)]
    <2> DEFINE T == Others(S)
    <2>1. T \in SUBSET S /\ Tallies(h, f, T)
        BY <1>2, <1>3
    <2> HIDE DEF T
    <2>2. g[T] = h[T]
        BY <1>1, <2>1, TallyUnique
    <2> QED BY <2>2 DEF T
<1>5. g[S] = f[Picked(S)] + g[Others(S)]
    BY <1>1 DEF Tallies, TalliesOn
<1> QED BY <1>1, <1>3, <1>4, <1>5

LEMMA SumInt ==
    ASSUME NEW f, NEW S, IsFiniteSet(S), \A x \in S : f[x] \in Int
    PROVE  SumFunctionOnSet(f, S) \in Int
<1> DEFINE Bad == {s \in SUBSET S : SumFunctionOnSet(f, s) \notin Int}
<1> SUFFICES ASSUME Bad # {} PROVE FALSE
    OBVIOUS
<1>1. \A s \in Bad : IsFiniteSet(s)
    BY FS_Subset
<1>2. PICK s \in Bad : \A t \in Bad : Cardinality(s) <= Cardinality(t)
    BY <1>1, SmallestSet
<1>3. s \in SUBSET S /\ IsFiniteSet(s) /\ SumFunctionOnSet(f, s) \notin Int
    BY <1>1
<1> HIDE DEF Bad
<1>4. s # {}
    BY <1>3, SumEmpty
<1>5. Others(s) \in SUBSET S /\ Others(s) \notin Bad
    BY <1>2, <1>3, <1>4, PickedFacts
<1>6. SumFunctionOnSet(f, Others(s)) \in Int
    BY <1>5 DEF Bad
<1>7. f[Picked(s)] \in Int
    BY <1>3, <1>4, PickedFacts
<1> QED BY <1>3, <1>4, <1>6, <1>7, SumPicked

\* Any element may be taken out first.
LEMMA SumRemove ==
    ASSUME NEW f, NEW S, IsFiniteSet(S), \A x \in S : f[x] \in Int, NEW a \in S
    PROVE  SumFunctionOnSet(f, S) = f[a] + SumFunctionOnSet(f, S \ {a})
<1> DEFINE Wrong(s) == \E b \in s : SumFunctionOnSet(f, s) # f[b] + SumFunctionOnSet(f, s \ {b})
           Bad == {s \in SUBSET S : Wrong(s)}
<1> SUFFICES ASSUME Bad # {} PROVE FALSE
    OBVIOUS
<1>1. \A s \in Bad : IsFiniteSet(s)
    BY FS_Subset
<1>2. PICK s \in Bad : \A t \in Bad : Cardinality(s) <= Cardinality(t)
    BY <1>1, SmallestSet
<1>3. s \in SUBSET S /\ IsFiniteSet(s)
    BY <1>1
<1>4. PICK b \in s : SumFunctionOnSet(f, s) # f[b] + SumFunctionOnSet(f, s \ {b})
    OBVIOUS
<1> HIDE DEF Bad
<1> DEFINE p == Picked(s)
<1>5. p \in s /\ Others(s) = s \ {p}
    BY <1>3, <1>4, PickedFacts DEF Others
<1>6. SumFunctionOnSet(f, s) = f[p] + SumFunctionOnSet(f, s \ {p})
    BY <1>3, <1>4, <1>5, SumPicked
<1> HIDE DEF p
<1>7. b # p
    BY <1>4, <1>6
<1>8. \A c \in s : /\ IsFiniteSet(s \ {c}) /\ s \ {c} \in SUBSET S
                   /\ Cardinality(s \ {c}) = Cardinality(s) - 1 /\ Cardinality(s) \in Nat
    BY <1>3, FS_RemoveElement, FS_CardinalityType
<1>9. \A c \in s : ~ Wrong(s \ {c})
    <2> SUFFICES ASSUME NEW c \in s PROVE ~ Wrong(s \ {c})
        OBVIOUS
    <2> DEFINE t == s \ {c}
    <2>0. t \in SUBSET S /\ Cardinality(t) = Cardinality(s) - 1 /\ Cardinality(s) \in Nat
        BY <1>8, Zenon
    <2>1. t \in SUBSET S /\ ~ (Cardinality(s) <= Cardinality(t))
        BY <2>0
    <2> HIDE DEF t, Wrong
    <2>2. t \notin Bad
        BY <1>2, <2>1
    <2>3. ~ Wrong(t)
        BY <2>1, <2>2 DEF Bad
    <2> QED BY <2>3 DEF t
<1>10. SumFunctionOnSet(f, s \ {p}) = f[b] + SumFunctionOnSet(f, (s \ {p}) \ {b})
    BY <1>4, <1>5, <1>7, <1>9
<1>11. SumFunctionOnSet(f, s \ {b}) = f[p] + SumFunctionOnSet(f, (s \ {b}) \ {p})
    BY <1>4, <1>5, <1>7, <1>9
<1>12. (s \ {p}) \ {b} = (s \ {b}) \ {p} /\ IsFiniteSet((s \ {p}) \ {b})
    BY <1>5, <1>8, FS_RemoveElement
<1> DEFINE rest == SumFunctionOnSet(f, (s \ {p}) \ {b})
<1>13. f[p] \in Int /\ f[b] \in Int /\ rest \in Int
    BY <1>3, <1>4, <1>5, <1>12, SumInt
<1>14. SumFunctionOnSet(f, (s \ {b}) \ {p}) = rest
    BY <1>12, Zenon
<1> HIDE DEF rest
<1>15. SumFunctionOnSet(f, s) = f[p] + (f[b] + rest)
    BY <1>6, <1>10 DEF rest
<1>16. SumFunctionOnSet(f, s \ {b}) = f[p] + rest
    BY <1>11, <1>14
<1> QED BY <1>4, <1>13, <1>15, <1>16

LEMMA SumAdd ==
    ASSUME NEW f, NEW S, IsFiniteSet(S), \A x \in S : f[x] \in Int, NEW a, a \notin S, f[a] \in Int
    PROVE  SumFunctionOnSet(f, S \cup {a}) = SumFunctionOnSet(f, S) + f[a]
<1>1. IsFiniteSet(S \cup {a}) /\ (S \cup {a}) \ {a} = S
    BY FS_AddElement
<1>2. SumFunctionOnSet(f, S) \in Int
    BY SumInt
<1>3. \A x \in S \cup {a} : f[x] \in Int
    OBVIOUS
<1>4. SumFunctionOnSet(f, S \cup {a}) = f[a] + SumFunctionOnSet(f, (S \cup {a}) \ {a})
    BY <1>1, <1>3, SumRemove
<1>5. SumFunctionOnSet(f, S \cup {a}) = f[a] + SumFunctionOnSet(f, S)
    BY <1>1, <1>4, Zenon
<1> QED BY <1>2, <1>5

LEMMA SumNat ==
    ASSUME NEW f, NEW S, IsFiniteSet(S), \A x \in S : f[x] \in Nat
    PROVE  SumFunctionOnSet(f, S) \in Nat
<1> DEFINE Bad == {s \in SUBSET S : SumFunctionOnSet(f, s) \notin Nat}
<1> SUFFICES ASSUME Bad # {} PROVE FALSE
    OBVIOUS
<1>1. \A s \in Bad : IsFiniteSet(s)
    BY FS_Subset
<1>2. PICK s \in Bad : \A t \in Bad : Cardinality(s) <= Cardinality(t)
    BY <1>1, SmallestSet
<1>3. s \in SUBSET S /\ IsFiniteSet(s) /\ SumFunctionOnSet(f, s) \notin Nat
    BY <1>1
<1> HIDE DEF Bad
<1>4. s # {}
    BY <1>3, SumEmpty
<1>5. Others(s) \in SUBSET S /\ Others(s) \notin Bad
    BY <1>2, <1>3, <1>4, PickedFacts
<1>6. SumFunctionOnSet(f, Others(s)) \in Nat
    BY <1>5 DEF Bad
<1>7. f[Picked(s)] \in Nat
    BY <1>3, <1>4, PickedFacts
<1> QED BY <1>3, <1>4, <1>6, <1>7, SumPicked

\* Only the values on the set count.
LEMMA SumSame ==
    ASSUME NEW f, NEW g, NEW S, IsFiniteSet(S), \A x \in S : f[x] = g[x]
    PROVE  SumFunctionOnSet(f, S) = SumFunctionOnSet(g, S)
<1> DEFINE Bad == {s \in SUBSET S : SumFunctionOnSet(f, s) # SumFunctionOnSet(g, s)}
<1> SUFFICES ASSUME Bad # {} PROVE FALSE
    OBVIOUS
<1>1. \A s \in Bad : IsFiniteSet(s)
    BY FS_Subset
<1>2. PICK s \in Bad : \A t \in Bad : Cardinality(s) <= Cardinality(t)
    BY <1>1, SmallestSet
<1>3. s \in SUBSET S /\ IsFiniteSet(s) /\ SumFunctionOnSet(f, s) # SumFunctionOnSet(g, s)
    BY <1>1
<1> HIDE DEF Bad
<1>4. s # {}
    BY <1>3, SumEmpty
<1>5. Others(s) \in SUBSET S /\ Others(s) \notin Bad
    BY <1>2, <1>3, <1>4, PickedFacts
<1>6. SumFunctionOnSet(f, Others(s)) = SumFunctionOnSet(g, Others(s))
    BY <1>5 DEF Bad
<1>7. f[Picked(s)] = g[Picked(s)]
    BY <1>3, <1>4, PickedFacts
<1>8. /\ SumFunctionOnSet(f, s) = f[Picked(s)] + SumFunctionOnSet(f, Others(s))
      /\ SumFunctionOnSet(g, s) = g[Picked(s)] + SumFunctionOnSet(g, Others(s))
    BY <1>3, <1>4, SumPicked
<1> QED BY <1>3, <1>6, <1>7, <1>8

LEMMA SumUnion ==
    ASSUME NEW f, NEW S, IsFiniteSet(S), NEW T, IsFiniteSet(T), S \cap T = {},
           \A x \in S \cup T : f[x] \in Int
    PROVE  SumFunctionOnSet(f, S \cup T) = SumFunctionOnSet(f, S) + SumFunctionOnSet(f, T)
<1> DEFINE Good(t) == SumFunctionOnSet(f, S \cup t) = SumFunctionOnSet(f, S) + SumFunctionOnSet(f, t)
           Bad == {t \in SUBSET T : ~ Good(t)}
<1> SUFFICES ASSUME Bad # {} PROVE FALSE
    OBVIOUS
<1>1. \A t \in Bad : IsFiniteSet(t)
    BY FS_Subset
<1>2. PICK t \in Bad : \A r \in Bad : Cardinality(t) <= Cardinality(r)
    BY <1>1, SmallestSet
<1>3. t \in SUBSET T /\ IsFiniteSet(t) /\ ~ Good(t)
    BY <1>1
<1>4. SumFunctionOnSet(f, S) \in Int
    BY SumInt
<1> HIDE DEF Bad
<1>5. t # {}
    <2>1. SumFunctionOnSet(f, S \cup {}) = SumFunctionOnSet(f, S)
        <3>1. S \cup {} = S
            OBVIOUS
        <3> QED BY <3>1, Zenon
    <2>2. Good({})
        BY <2>1, <1>4, SumEmpty
    <2> HIDE DEF Good
    <2> QED BY <1>3, <2>2
<1> DEFINE p == Picked(t)
           r == Others(t)
<1>6. /\ p \in t /\ p \notin r /\ t = r \cup {p}
      /\ r \in SUBSET T /\ IsFiniteSet(r) /\ p \in T /\ p \notin S
      /\ ~ (Cardinality(t) <= Cardinality(r))
    <2>1. /\ p \in t /\ r \subseteq t /\ IsFiniteSet(r)
          /\ Cardinality(t) \in Nat /\ Cardinality(r) = Cardinality(t) - 1
        BY <1>3, <1>5, PickedFacts, Zenon
    <2>2. r = t \ {p}
        BY DEF Others
    <2> HIDE DEF p, r
    <2>3. ~ (Cardinality(t) <= Cardinality(r))
        BY <2>1
    <2> QED BY <1>3, <2>1, <2>2, <2>3
<1> HIDE DEF p, r
<1>7. r \notin Bad
    BY <1>2, <1>6
<1>8. Good(r)
    <2> HIDE DEF Good
    <2> QED BY <1>6, <1>7 DEF Bad
<1>9. SumFunctionOnSet(f, r \cup {p}) = SumFunctionOnSet(f, r) + f[p]
    BY <1>6, SumAdd
<1>10. SumFunctionOnSet(f, (S \cup r) \cup {p}) = SumFunctionOnSet(f, S \cup r) + f[p]
    <2> DEFINE u == S \cup r
    <2>1. IsFiniteSet(u)
        BY <1>6, FS_Union
    <2>2. p \notin u /\ f[p] \in Int /\ \A x \in u : f[x] \in Int
        BY <1>6
    <2> HIDE DEF u
    <2>3. SumFunctionOnSet(f, u \cup {p}) = SumFunctionOnSet(f, u) + f[p]
        BY <2>1, <2>2, SumAdd
    <2> QED BY <2>3 DEF u
<1>11. (S \cup r) \cup {p} = S \cup t
    BY <1>6
<1>12. SumFunctionOnSet(f, S \cup t) = SumFunctionOnSet(f, S \cup r) + f[p]
    BY <1>10, <1>11, Zenon
<1>13. SumFunctionOnSet(f, t) = SumFunctionOnSet(f, r) + f[p]
    BY <1>6, <1>9, Zenon
<1>14. SumFunctionOnSet(f, r) \in Int /\ f[p] \in Int
    BY <1>6, SumInt
<1> QED BY <1>3, <1>4, <1>8, <1>12, <1>13, <1>14

\* Taking a sum row by row: key assigns every element of S to a row.
LEMMA SumByRows ==
    ASSUME NEW f, NEW S, IsFiniteSet(S), \A x \in S : f[x] \in Int,
           NEW key, NEW rows, IsFiniteSet(rows), \A x \in S : key[x] \in rows
    PROVE  SumFunctionOnSet(f, S) =
           SumFunctionOnSet([k \in rows |-> SumFunctionOnSet(f, {x \in S : key[x] = k})], rows)
<1> DEFINE row   == [k \in rows |-> SumFunctionOnSet(f, {x \in S : key[x] = k})]
           in(R) == {x \in S : key[x] \in R}
           Good(R) == SumFunctionOnSet(f, in(R)) = SumFunctionOnSet(row, R)
           Bad == {R \in SUBSET rows : ~ Good(R)}
<1>0. \A R : IsFiniteSet(in(R)) /\ \A x \in in(R) : f[x] \in Int
    BY FS_Subset
<1>1. Bad = {}
    <2> SUFFICES ASSUME Bad # {} PROVE FALSE
        OBVIOUS
    <2>1. \A R \in Bad : IsFiniteSet(R)
        BY FS_Subset
    <2>2. PICK R \in Bad : \A Q \in Bad : Cardinality(R) <= Cardinality(Q)
        BY <2>1, SmallestSet
    <2>3. R \in SUBSET rows /\ IsFiniteSet(R) /\ ~ Good(R)
        BY <2>1
    <2> HIDE DEF Bad
    <2>4. R # {}
        <3>1. in({}) = {}
            OBVIOUS
        <3>2. SumFunctionOnSet(f, in({})) = 0
            BY <3>1, SumEmpty, Zenon
        <3>3. Good({})
            BY <3>2, SumEmpty
        <3> HIDE DEF Good
        <3> QED BY <2>3, <3>3
    <2> DEFINE p == Picked(R)
               Q == Others(R)
    <2>5. /\ p \in R /\ p \notin Q /\ R = Q \cup {p} /\ p \in rows
          /\ Q \in SUBSET rows /\ IsFiniteSet(Q) /\ ~ (Cardinality(R) <= Cardinality(Q))
        <3>1. /\ p \in R /\ Q \subseteq R /\ IsFiniteSet(Q)
              /\ Cardinality(R) \in Nat /\ Cardinality(Q) = Cardinality(R) - 1
            BY <2>3, <2>4, PickedFacts, Zenon
        <3>2. Q = R \ {p}
            BY DEF Others
        <3> HIDE DEF p, Q
        <3>3. ~ (Cardinality(R) <= Cardinality(Q))
            BY <3>1
        <3> QED BY <2>3, <3>1, <3>2, <3>3
    <2> HIDE DEF p, Q
    <2>6. Q \notin Bad
        BY <2>2, <2>5
    <2>7. Good(Q)
        <3> HIDE DEF Good
        <3> QED BY <2>5, <2>6 DEF Bad
    <2> DEFINE one == {x \in S : key[x] = p}
    <2>8. in(R) = in(Q) \cup one /\ in(Q) \cap one = {}
        BY <2>5
    <2>9. IsFiniteSet(one) /\ \A x \in one : f[x] \in Int
        BY FS_Subset
    <2>10. row[p] = SumFunctionOnSet(f, one)
        BY <2>5
    <2>11. \A k \in rows : row[k] \in Int
        <3> SUFFICES ASSUME NEW k \in rows PROVE row[k] \in Int
            OBVIOUS
        <3>1. IsFiniteSet({x \in S : key[x] = k})
            BY FS_Subset
        <3>2. SumFunctionOnSet(f, {x \in S : key[x] = k}) \in Int
            BY <3>1, SumInt
        <3> QED BY <3>2
    <2> HIDE DEF one, row, in
    <2>12. SumFunctionOnSet(f, in(R)) = SumFunctionOnSet(f, in(Q)) + SumFunctionOnSet(f, one)
        <3>1. SumFunctionOnSet(f, in(Q) \cup one) = SumFunctionOnSet(f, in(Q)) + SumFunctionOnSet(f, one)
            BY <1>0, <2>8, <2>9, SumUnion
        <3> QED BY <2>8, <3>1, Zenon
    <2>13. SumFunctionOnSet(row, R) = SumFunctionOnSet(row, Q) + row[p]
        <3>1. SumFunctionOnSet(row, Q \cup {p}) = SumFunctionOnSet(row, Q) + row[p]
            BY <2>5, <2>11, SumAdd
        <3> QED BY <2>5, <3>1, Zenon
    <2> QED BY <2>3, <2>7, <2>10, <2>12, <2>13
<1>2. Good(rows)
    <2> HIDE DEF Good
    <2> QED BY <1>1
<1>3. in(rows) = S
    OBVIOUS
<1>4. SumFunctionOnSet(f, S) = SumFunctionOnSet(row, rows)
    <2> HIDE DEF in, row
    <2> QED BY <1>2, <1>3, Zenon
<1> QED BY <1>4

-----------------------------------------------------------------------------
(* Sums and cardinalities.                                                 *)
LEMMA DisjointUnion ==
    ASSUME NEW S, IsFiniteSet(S), NEW T, IsFiniteSet(T), S \cap T = {}
    PROVE  /\ IsFiniteSet(S \cup T)
           /\ Cardinality(S \cup T) = Cardinality(S) + Cardinality(T)
<1>1. Cardinality(S \cap T) = 0
    BY FS_EmptySet, Zenon
<1>2. Cardinality(S) \in Nat /\ Cardinality(T) \in Nat
    BY FS_CardinalityType
<1>3. /\ IsFiniteSet(S \cup T)
      /\ Cardinality(S \cup T) = Cardinality(S) + Cardinality(T) - Cardinality(S \cap T)
    BY FS_Union, Zenon
<1> QED BY <1>1, <1>2, <1>3

LEMMA IntervalSize ==
  ASSUME NEW a \in Nat, NEW b \in Nat, a <= b
  PROVE  IsFiniteSet(a..(b - 1)) /\ Cardinality(a..(b - 1)) = b - a
<1> DEFINE last == b - 1
<1>1. a \in Int /\ last \in Int
  OBVIOUS
<1>2. last - a + 1 = b - a /\ (a > last <=> a = b) /\ b - a \in Nat
  OBVIOUS
<1> HIDE DEF last
<1>3. /\ IsFiniteSet(a..last)
      /\ Cardinality(a..last) = IF a > last THEN 0 ELSE last - a + 1
  BY <1>1, FS_Interval, Zenon
<1>4. Cardinality(a..last) = b - a
  BY <1>2, <1>3
<1> QED
  BY <1>3, <1>4 DEF last

\* The sizes of finitely many finite sets add up to what they hold together exactly if
\* no two of them have an element in common, and to more otherwise.
LEMMA SumOfSizes ==
    ASSUME NEW I, IsFiniteSet(I), NEW A, \A i \in I : IsFiniteSet(A[i])
    PROVE  LET all  == UNION {A[i] : i \in I}
               sum  == SumFunctionOnSet([i \in I |-> Cardinality(A[i])], I)
           IN  /\ IsFiniteSet(all) /\ sum \in Nat /\ Cardinality(all) <= sum
               /\ Cardinality(all) = sum <=> \A i, j \in I : i # j => A[i] \cap A[j] = {}
<1> DEFINE size == [i \in I |-> Cardinality(A[i])]
           all(J) == UNION {A[i] : i \in J}
           Apart(J) == \A i, j \in J : i # j => A[i] \cap A[j] = {}
           Good(J) == /\ IsFiniteSet(all(J)) /\ Cardinality(all(J)) <= SumFunctionOnSet(size, J)
                      /\ Cardinality(all(J)) = SumFunctionOnSet(size, J) <=> Apart(J)
           Bad == {J \in SUBSET I : ~ Good(J)}
<1>0. \A i \in I : size[i] = Cardinality(A[i]) /\ size[i] \in Nat
    BY FS_CardinalityType
<1>1. Bad = {}
    <2> SUFFICES ASSUME Bad # {} PROVE FALSE
        OBVIOUS
    <2>1. \A J \in Bad : IsFiniteSet(J)
        BY FS_Subset
    <2>2. PICK J \in Bad : \A K \in Bad : Cardinality(J) <= Cardinality(K)
        BY <2>1, SmallestSet
    <2>3. J \in SUBSET I /\ IsFiniteSet(J) /\ ~ Good(J)
        BY <2>1
    <2> HIDE DEF Bad
    <2>4. J # {}
        <3>1. all({}) = {} /\ Apart({})
            OBVIOUS
        <3>2. IsFiniteSet(all({})) /\ Cardinality(all({})) = 0
            BY <3>1, FS_EmptySet, Zenon
        <3> HIDE DEF all, Apart, size
        <3>3. Good({})
            BY <3>1, <3>2, SumEmpty
        <3> HIDE DEF Good
        <3> QED BY <2>3, <3>3
    <2> DEFINE p == Picked(J)
               K == Others(J)
    <2>5. /\ p \in J /\ p \notin K /\ J = K \cup {p} /\ p \in I
          /\ K \in SUBSET I /\ IsFiniteSet(K) /\ ~ (Cardinality(J) <= Cardinality(K))
        <3>1. /\ p \in J /\ K \subseteq J /\ IsFiniteSet(K)
              /\ Cardinality(J) \in Nat /\ Cardinality(K) = Cardinality(J) - 1
            BY <2>3, <2>4, PickedFacts, Zenon
        <3>2. K = J \ {p}
            BY DEF Others
        <3> HIDE DEF p, K
        <3>3. ~ (Cardinality(J) <= Cardinality(K))
            BY <3>1
        <3> QED BY <2>3, <3>1, <3>2, <3>3
    <2> HIDE DEF p, K
    <2>6. K \notin Bad
        BY <2>2, <2>5
    <2>7. Good(K)
        <3> HIDE DEF Good
        <3> QED BY <2>5, <2>6 DEF Bad
    <2>8. all(J) = all(K) \cup A[p]
        BY <2>5
    <2>9. Apart(J) <=> Apart(K) /\ all(K) \cap A[p] = {}
        BY <2>5
    <2> DEFINE common == all(K) \cap A[p]
    <2>10. /\ IsFiniteSet(A[p]) /\ size[p] = Cardinality(A[p]) /\ size[p] \in Nat
           /\ \A i \in K : size[i] \in Nat
        BY <1>0, <2>5
    <2> HIDE DEF all, Apart, size
    <2>11. IsFiniteSet(all(K))
        BY <2>7
    <2>12. IsFiniteSet(common)
        BY <2>11, FS_Subset
    <2>13. Cardinality(common) \in Nat /\ (Cardinality(common) = 0 <=> common = {})
        BY <2>12, FS_CardinalityType, FS_EmptySet
    <2>14. /\ IsFiniteSet(all(K) \cup A[p])
           /\ Cardinality(all(K) \cup A[p]) = Cardinality(all(K)) + size[p] - Cardinality(common)
        BY <2>10, <2>11, FS_Union
    <2>15. /\ IsFiniteSet(all(J))
           /\ Cardinality(all(J)) = Cardinality(all(K)) + size[p] - Cardinality(common)
        BY <2>8, <2>14, Zenon
    <2>16. SumFunctionOnSet(size, J) = SumFunctionOnSet(size, K) + size[p]
        <3>1. SumFunctionOnSet(size, K \cup {p}) = SumFunctionOnSet(size, K) + size[p]
            BY <2>5, <2>10, SumAdd
        <3> QED BY <2>5, <3>1, Zenon
    <2>17. SumFunctionOnSet(size, K) \in Nat /\ Cardinality(all(K)) \in Nat
        BY <2>5, <2>10, <2>11, SumNat, FS_CardinalityType
    <2>18. Apart(J) <=> Apart(K) /\ common = {}
        BY <2>9
    <2> HIDE DEF common
    <2> QED BY <2>3, <2>7, <2>10, <2>13, <2>15, <2>16, <2>17, <2>18
<1>2. Good(I)
    <2> HIDE DEF Good
    <2> QED BY <1>1
<1>3. SumFunctionOnSet(size, I) \in Nat
    BY <1>0, SumNat
<1> QED BY <1>2, <1>3
-----------------------------------------------------------------------------
(* Values found step by step.                                              *)

StepsWithin(F, n, V) == \A k \in 1..n : \A v \in V : F[<<k, v>>] \in V

History(g, F, base, n, V) ==
    g \in [0..n -> V] /\ g[0] = base /\ \A k \in 1..n : g[k] = F[<<k, g[k - 1]>>]

\* A step that leads from values to values, taken any number of times, has a history.
LEMMA StepByStep ==
    ASSUME NEW n \in Nat, NEW V, NEW base \in V, NEW F, StepsWithin(F, n, V)
    PROVE  \E g : History(g, F, base, n, V)
<1>0. \A k \in 1..n : \A v \in V : F[<<k, v>>] \in V
    BY DEF StepsWithin
<1> DEFINE Has(m, g) == g \in [0..m -> V] /\ g[0] = base /\ \A k \in 1..m : g[k] = F[<<k, g[k - 1]>>]
<1> DEFINE Bad == {m \in 0..n : ~ \E g : Has(m, g)}
<1> SUFFICES ASSUME Bad # {} PROVE FALSE
    <2>1. n \in 0..n
        OBVIOUS
    <2>2. \E g : Has(n, g)
        <3> HIDE DEF Has
        <3> QED BY <2>1
    <2> QED BY <2>2 DEF History
<1>1. PICK m \in Bad : \A k \in Bad : m <= k
    <2>1. Bad \subseteq Nat
        OBVIOUS
    <2> HIDE DEF Bad
    <2> QED BY <2>1, LeastNat
<1>2. m # 0
    <2>1. Has(0, [k \in 0..0 |-> base])
        OBVIOUS
    <2> HIDE DEF Has
    <2> QED BY <1>1, <2>1
<1>3. m \in 1..n /\ m - 1 \in 0..n
    BY <1>1, <1>2
<1>6. m - 1 \notin Bad
    <2> HIDE DEF Bad
    <2> QED BY <1>1, <1>3
<1>4. PICK g : Has(m - 1, g)
    <2> HIDE DEF Has
    <2> QED BY <1>3, <1>6
<1> DEFINE h == [k \in 0..m |-> IF k = m THEN F[<<m, g[m - 1]>>] ELSE g[k]]
<1>5. Has(m, h)
    <2>1. m - 1 \in 0..(m - 1) /\ g[m - 1] \in V /\ m \in 1..n
        BY <1>3, <1>4
    <2>2. F[<<m, g[m - 1]>>] \in V
        BY <1>0, <2>1
    <2>3. h \in [0..m -> V]
        BY <1>3, <1>4, <2>2
    <2>4. /\ h[m] = F[<<m, g[m - 1]>>]
          /\ \A k \in 0..(m - 1) : h[k] = g[k]
        BY <1>3
    <2>5. h[0] = base
        BY <1>3, <1>4, <2>4
    <2> HIDE DEF h
    <2>6. ASSUME NEW k \in 1..m PROVE h[k] = F[<<k, h[k - 1]>>]
        <3>1. CASE k = m
            <4>1. h[k - 1] = g[m - 1]
                BY <2>1, <2>4, <3>1
            <4> QED BY <2>4, <3>1, <4>1, Zenon
        <3>2. CASE k # m
            <4>1. k \in 1..(m - 1) /\ k \in 0..(m - 1) /\ k - 1 \in 0..(m - 1)
                BY <1>3, <3>2
            <4>2. h[k] = g[k] /\ h[k - 1] = g[k - 1]
                BY <2>4, <4>1
            <4>3. g[k] = F[<<k, g[k - 1]>>]
                BY <1>4, <4>1
            <4> QED BY <4>2, <4>3, Zenon
        <3> QED BY <3>1, <3>2
    <2> QED BY <2>3, <2>5, <2>6
<1> HIDE DEF Has
<1> QED BY <1>1, <1>5

\* What holds at the start and is kept by each step holds throughout.
LEMMA HoldsThroughout ==
    ASSUME NEW n \in Nat, NEW V, NEW g, g[0] \in V,
           \A k \in 1..n : g[k - 1] \in V => g[k] \in V
    PROVE  \A k \in 0..n : g[k] \in V
<1> DEFINE Bad == {k \in 0..n : g[k] \notin V}
<1> SUFFICES ASSUME Bad # {} PROVE FALSE
    OBVIOUS
<1>1. PICK k \in Bad : \A j \in Bad : k <= j
    <2>1. Bad \subseteq Nat
        OBVIOUS
    <2> HIDE DEF Bad
    <2> QED BY <2>1, LeastNat
<1>2. k \in 1..n /\ k - 1 \in 0..n
    BY <1>1
<1>3. k - 1 \notin Bad
    <2> HIDE DEF Bad
    <2> QED BY <1>1, <1>2
<1> QED BY <1>1, <1>2, <1>3

\* What holds at first and is kept by counting up holds of all numbers.
LEMMA CountingUp ==
    ASSUME NEW n \in Nat, NEW P, 0 \in P, \A k \in 1..n : k - 1 \in P => k \in P
    PROVE  \A k \in 0..n : k \in P
<1> DEFINE g == [k \in 0..n |-> k]
<1>1. g[0] \in P /\ \A k \in 1..n : g[k - 1] \in P => g[k] \in P
    <2>1. \A k \in 1..n : k - 1 \in 0..n
        OBVIOUS
    <2> QED BY <2>1
<1>2. \A k \in 0..n : g[k] = k
    OBVIOUS
<1> HIDE DEF g
<1>3. \A k \in 0..n : g[k] \in P
    BY <1>1, HoldsThroughout
<1> QED BY <1>2, <1>3

\* A bounded set of numbers has a largest one.
LEMMA GreatestNat ==
    ASSUME NEW n \in Nat, NEW S, S \subseteq 0..n, S # {}
    PROVE  \E x \in S : \A y \in S : x >= y
<1> DEFINE T == {m \in 0..n : n - m \in S}
<1>1. T \subseteq Nat /\ T # {}
    <2>1. PICK x \in S : TRUE
        OBVIOUS
    <2>2. x \in 0..n /\ n - x \in 0..n /\ n - (n - x) = x
        OBVIOUS
    <2>3. n - x \in T
        BY <2>1, <2>2
    <2>4. \A m \in T : m \in Nat
        OBVIOUS
    <2> HIDE DEF T
    <2> QED BY <2>3, <2>4
<1>2. PICK least \in T : \A m \in T : least <= m
    <2> HIDE DEF T
    <2> QED BY <1>1, LeastNat
<1> DEFINE x == n - least
<1>3. x \in S /\ least = n - x
    BY <1>2
<1>4. \A y \in S : x >= y
    <2> SUFFICES ASSUME NEW y \in S PROVE x >= y
        OBVIOUS
    <2>1. n - y \in 0..n /\ n - (n - y) = y /\ x \in 0..n /\ y \in 0..n
        BY <1>3
    <2>2. n - y \in T
        BY <2>1
    <2>3. n - x <= n - y
        <3> HIDE DEF T, x
        <3> QED BY <1>2, <1>3, <2>2
    <2> HIDE DEF x
    <2> QED BY <2>1, <2>3
<1> HIDE DEF x
<1> QED BY <1>3, <1>4
=============================================================================
