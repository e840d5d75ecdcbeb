---------------------------- MODULE Sums_proofs ---------------------------
(***************************************************************************)
(* Facts about sums over finite sets.  The fold of the library is a        *)
(* recursive function, chosen by what it satisfies: that there is one      *)
(* follows by induction on the size of the set, from the least-number      *)
(* principle.                                                              *)
(***************************************************************************)
EXTENDS Sums, FiniteSetTheorems, WellFoundedInduction, TLAPS

\* A non-empty set of naturals has a least element.
LEMMA Least ==
    ASSUME NEW T, T \subseteq Nat, T # {}
    PROVE  \E m \in T : \A n \in T : m <= n
<1> DEFINE R == OpToRel(<, Nat)
<1>1. IsWellFoundedOn(R, Nat)
    BY NatLessThanWellFounded
<1>2. \A x, y \in Nat : y < x => <<y, x>> \in R
    BY SMT DEF OpToRel
<1> HIDE DEF R
<1>3. PICK x \in T : \A y \in T : ~ (<<y, x>> \in R)
    BY <1>1, WFMin
<1>4. \A y \in T : ~(y < x)
    BY <1>2, <1>3
<1>5. QED
    BY <1>4

\* The element the fold takes first.
First(s) == CHOOSE x \in s : TRUE

\* g is the fold of f, up to sets of size n.
FoldsTo(g, f, S, n) ==
    \A s \in SUBSET S : Cardinality(s) <= n =>
        g[s] = IF s = {} THEN 0 ELSE f[First(s)] + g[s \ {First(s)}]

\* Subsets of a finite set: their size, and their size without their first element.
LEMMA Sizes ==
    ASSUME NEW S, IsFiniteSet(S), NEW s \in SUBSET S
    PROVE  /\ IsFiniteSet(s)
           /\ Cardinality(s) \in Nat
           /\ Cardinality(s) <= Cardinality(S)
           /\ s = {} <=> Cardinality(s) = 0
           /\ s # {} => First(s) \in s
           /\ \A e \in s : /\ s \ {e} \in SUBSET S
                           /\ Cardinality(s \ {e}) = Cardinality(s) - 1
<1>1. IsFiniteSet(s) /\ Cardinality(s) <= Cardinality(S)
    BY FS_Subset
<1>2. Cardinality(s) \in Nat /\ (s = {} <=> Cardinality(s) = 0)
    BY <1>1, FS_CardinalityType, FS_EmptySet
<1>3. \A e \in s : Cardinality(s \ {e}) = Cardinality(s) - 1
    BY <1>1, FS_RemoveElement
<1>4. s # {} => First(s) \in s
    BY DEF First
<1>5. QED
    BY <1>1, <1>2, <1>3, <1>4

\* The fold up to every size exists.
LEMMA FoldExists ==
    ASSUME NEW S, IsFiniteSet(S), NEW f, \A x \in S : f[x] \in Nat, NEW n \in Nat
    PROVE  \E g \in [SUBSET S -> Nat] : FoldsTo(g, f, S, n)
<1> DEFINE Good(i) == \E g \in [SUBSET S -> Nat] : FoldsTo(g, f, S, i)
           Bad == {i \in Nat : ~ Good(i)}
<1>1. Good(0)
    <2>1. [s \in SUBSET S |-> 0] \in [SUBSET S -> Nat]
        OBVIOUS
    <2>2. FoldsTo([s \in SUBSET S |-> 0], f, S, 0)
        BY Sizes DEF FoldsTo
    <2>3. QED
        BY <2>1, <2>2
<1>2. ASSUME NEW i \in Nat, Good(i)
      PROVE  Good(i + 1)
    <2>1. PICK g \in [SUBSET S -> Nat] : FoldsTo(g, f, S, i)
        BY <1>2
    <2> DEFINE h == [s \in SUBSET S |->
                       IF s = {} THEN 0 ELSE f[First(s)] + g[s \ {First(s)}]]
    <2>2. h \in [SUBSET S -> Nat]
        <3>1. SUFFICES ASSUME NEW s \in SUBSET S, s # {}
                       PROVE  f[First(s)] + g[s \ {First(s)}] \in Nat
            OBVIOUS
        <3>2. f[First(s)] \in Nat /\ s \ {First(s)} \in SUBSET S
            BY <3>1, Sizes
        <3>3. QED
            BY <3>2
    <2>3. FoldsTo(h, f, S, i + 1)
        <3>1. SUFFICES ASSUME NEW s \in SUBSET S, Cardinality(s) <= i + 1, s # {}
                       PROVE  h[s] = f[First(s)] + h[s \ {First(s)}]
            BY DEF FoldsTo
        <3>2. PICK r \in SUBSET S : r = s \ {First(s)}
            OBVIOUS
        <3>3. Cardinality(r) <= i
            BY <3>1, <3>2, Sizes
        <3>4. g[r] = IF r = {} THEN 0 ELSE f[First(r)] + g[r \ {First(r)}]
            BY <2>1, <3>3 DEF FoldsTo
        <3>5. h[r] = g[r]
            BY <3>4
        <3>6. h[s] = f[First(s)] + g[r]
            BY <3>1, <3>2
        <3>7. QED
            BY <3>2, <3>5, <3>6
    <2>4. QED
        BY <2>2, <2>3
<1> HIDE DEF Good
<1>3. SUFFICES ASSUME Bad # {}
               PROVE  FALSE
    BY DEF Good
<1>4. PICK m \in Bad : \A i \in Bad : m <= i
    BY <1>3, Least
<1>5. m # 0
    BY <1>1
<1>6. m - 1 \in Nat /\ Good(m - 1)
    BY <1>4, <1>5
<1>7. QED
    BY <1>2, <1>6

\* Two folds of functions that agree agree, whatever set they were made for.
LEMMA FoldUnique ==
    ASSUME NEW S, IsFiniteSet(S), NEW s0, s0 \subseteq S,
           NEW f, NEW f2, \A x \in s0 : f[x] = f2[x],
           NEW g, NEW h, FoldsTo(g, f, S, Cardinality(S)),
           FoldsTo(h, f2, s0, Cardinality(s0))
    PROVE  g[s0] = h[s0]
<1> DEFINE Sz == {Cardinality(s) : s \in {s \in SUBSET s0 : g[s] # h[s]}}
<1>1. IsFiniteSet(s0)
    BY FS_Subset
<1>2. SUFFICES ASSUME g[s0] # h[s0]
               PROVE  FALSE
    OBVIOUS
<1>3. Sz # {} /\ Sz \subseteq Nat
    BY <1>1, <1>2, Sizes
<1>4. PICK m \in Sz : \A i \in Sz : m <= i
    BY <1>3, Least
<1>5. PICK s \in SUBSET s0 : g[s] # h[s] /\ m = Cardinality(s)
    BY <1>4
<1>6. /\ g[s] = IF s = {} THEN 0 ELSE f[First(s)] + g[s \ {First(s)}]
      /\ h[s] = IF s = {} THEN 0 ELSE f2[First(s)] + h[s \ {First(s)}]
    <2>1. s \in SUBSET S /\ Cardinality(s) <= Cardinality(S)
        BY Sizes
    <2>2. Cardinality(s) <= Cardinality(s0)
        BY <1>1, Sizes
    <2>3. QED
        BY <2>1, <2>2 DEF FoldsTo
<1>7. s # {}
    BY <1>5, <1>6
<1>8. First(s) \in s0 /\ s \ {First(s)} \in SUBSET s0 /\ Cardinality(s \ {First(s)}) = m - 1
    BY <1>1, <1>5, <1>7, Sizes
<1>9. Cardinality(s \ {First(s)}) \notin Sz
    BY <1>3, <1>4, <1>8
<1>10. g[s \ {First(s)}] = h[s \ {First(s)}]
    BY <1>8, <1>9
<1>11. QED
    BY <1>5, <1>6, <1>7, <1>8, <1>10

\* The sum is the value at the whole set of a fold up to its size.
LEMMA SumIsFold ==
    ASSUME NEW S, IsFiniteSet(S), NEW f, \A x \in S : f[x] \in Nat
    PROVE  \E g \in [SUBSET S -> Nat] : /\ FoldsTo(g, f, S, Cardinality(S))
                                       /\ SumOf(f, S) = g[S]
<1> DEFINE Rec(g) == g = [s \in SUBSET S |->
                            IF s = {} THEN 0 ELSE f[First(s)] + g[s \ {First(s)}]]
           it == CHOOSE g : Rec(g)
<1>1. PICK g \in [SUBSET S -> Nat] : FoldsTo(g, f, S, Cardinality(S))
    BY FoldExists, FS_CardinalityType
<1>2. Rec(g)
    <2>1. \A s \in SUBSET S : g[s] = IF s = {} THEN 0 ELSE f[First(s)] + g[s \ {First(s)}]
        BY <1>1, Sizes DEF FoldsTo
    <2>2. QED
        BY <2>1
<1>3. Rec(it)
    BY <1>2
<1>4. FoldsTo(it, f, S, Cardinality(S))
    BY <1>3 DEF FoldsTo
<1>5. SumOf(f, S) = it[S]
    BY DEF SumOf, MapThenSumSet, MapThenFoldSet, First
<1> HIDE DEF it
<1>6. it[S] = g[S]
    BY <1>1, <1>4, FoldUnique
<1>7. QED
    BY <1>1, <1>5, <1>6

\* The empty sum, the type of a sum, and functions that agree have one sum.
LEMMA SumEmpty ==
    ASSUME NEW f
    PROVE  SumOf(f, {}) = 0
<1>1. PICK g \in [SUBSET {} -> Nat] : /\ FoldsTo(g, f, {}, Cardinality({}))
                                    /\ SumOf(f, {}) = g[{}]
    BY SumIsFold, FS_EmptySet
<1>2. QED
    BY <1>1, FS_EmptySet DEF FoldsTo

\* A sum of naturals is a natural.
LEMMA SumType ==
    ASSUME NEW S, IsFiniteSet(S), NEW f, \A x \in S : f[x] \in Nat
    PROVE  SumOf(f, S) \in Nat
<1>1. PICK g \in [SUBSET S -> Nat] : SumOf(f, S) = g[S]
    BY SumIsFold
<1>2. QED
    BY <1>1

\* The sum depends only on the values over the set.
LEMMA SumSame ==
    ASSUME NEW S, IsFiniteSet(S), NEW f, NEW f2,
           \A x \in S : f[x] \in Nat, \A x \in S : f[x] = f2[x]
    PROVE  SumOf(f, S) = SumOf(f2, S)
<1>1. PICK g \in [SUBSET S -> Nat] : /\ FoldsTo(g, f, S, Cardinality(S))
                                    /\ SumOf(f, S) = g[S]
    BY SumIsFold
<1>2. PICK h \in [SUBSET S -> Nat] : /\ FoldsTo(h, f2, S, Cardinality(S))
                                    /\ SumOf(f2, S) = h[S]
    BY SumIsFold
<1>3. g[S] = h[S]
    BY <1>1, <1>2, FoldUnique
<1>4. QED
    BY <1>1, <1>2, <1>3

\* The sum is the first element and the sum of the rest.
LEMMA SumFirst ==
    ASSUME NEW S, IsFiniteSet(S), S # {}, NEW f, \A x \in S : f[x] \in Nat
    PROVE  SumOf(f, S) = f[First(S)] + SumOf(f, S \ {First(S)})
<1>1. PICK g \in [SUBSET S -> Nat] : /\ FoldsTo(g, f, S, Cardinality(S))
                                    /\ SumOf(f, S) = g[S]
    BY SumIsFold
<1>2. PICK r : r = S \ {First(S)}
    OBVIOUS
<1>3. IsFiniteSet(r) /\ r \subseteq S
    BY <1>2, Sizes
<1>4. PICK h \in [SUBSET r -> Nat] : /\ FoldsTo(h, f, r, Cardinality(r))
                                    /\ SumOf(f, r) = h[r]
    BY <1>3, SumIsFold
<1>5. g[r] = h[r]
    BY <1>1, <1>3, <1>4, FoldUnique
<1>6. g[S] = f[First(S)] + g[r]
    BY <1>1, <1>2, Sizes DEF FoldsTo
<1>7. QED
    BY <1>1, <1>2, <1>4, <1>5, <1>6

\* Any element can be taken first.
LEMMA SumElement ==
    ASSUME NEW S, IsFiniteSet(S), NEW f, \A x \in S : f[x] \in Nat, NEW e \in S
    PROVE  /\ SumOf(f, S) = f[e] + SumOf(f, S \ {e})
           /\ SumOf(f, S \ {e}) \in Nat
<1> DEFINE Good(s) == \A x \in s : SumOf(f, s) = f[x] + SumOf(f, s \ {x})
           Sz == {Cardinality(s) : s \in {s \in SUBSET S : ~ Good(s)}}
<1>1. \A s \in SUBSET S : IsFiniteSet(s) /\ SumOf(f, s) \in Nat
    BY Sizes, SumType
<1>2. ASSUME Sz # {}
      PROVE  FALSE
    <2>1. Sz \subseteq Nat
        BY Sizes
    <2>2. PICK m \in Sz : \A i \in Sz : m <= i
        BY <1>2, <2>1, Least
    <2>3. PICK s \in SUBSET S : ~ Good(s) /\ m = Cardinality(s)
        BY <2>2
    <2>4. PICK x \in s : SumOf(f, s) # f[x] + SumOf(f, s \ {x})
        BY <2>3
    <2>5. PICK c \in s : c = First(s)
        BY <2>4, Sizes
    <2>6. SumOf(f, s) = f[c] + SumOf(f, s \ {c})
        BY <1>1, <2>4, <2>5, SumFirst
    <2>7. x # c
        BY <2>4, <2>6
    <2>8. \A y \in s : Good(s \ {y})
        <3>1. SUFFICES ASSUME NEW y \in s
                       PROVE  Good(s \ {y})
            OBVIOUS
        <3>2. s \ {y} \in SUBSET S /\ Cardinality(s \ {y}) = m - 1
            BY <2>3, Sizes
        <3>3. m \in Nat /\ (Cardinality(s \ {y}) \in Sz => m <= m - 1)
            BY <2>1, <2>2, <3>2
        <3> HIDE DEF Good, Sz
        <3>4. Cardinality(s \ {y}) \notin Sz
            BY <3>3
        <3> USE DEF Sz
        <3>5. QED
            BY <3>2, <3>4
    <2>9. /\ SumOf(f, s \ {c}) = f[x] + SumOf(f, (s \ {c}) \ {x})
          /\ SumOf(f, s \ {x}) = f[c] + SumOf(f, (s \ {x}) \ {c})
        BY <2>7, <2>8
    <2>10. (s \ {c}) \ {x} = (s \ {x}) \ {c}
        OBVIOUS
    <2>11. PICK r \in Nat : r = SumOf(f, (s \ {c}) \ {x})
        BY <1>1
    <2>12. f[x] \in Nat /\ f[c] \in Nat
        OBVIOUS
    <2>13. QED
        BY <2>4, <2>6, <2>9, <2>10, <2>11, <2>12
<1>3. Good(S)
    BY <1>2
<1>4. QED
    BY <1>1, <1>3

\* One value changes: so does the sum.
LEMMA SumUpdate ==
    ASSUME NEW S, IsFiniteSet(S), NEW f, NEW f2, NEW e \in S,
           \A x \in S : f[x] \in Nat /\ f2[x] \in Nat, \A x \in S \ {e} : f2[x] = f[x]
    PROVE  /\ SumOf(f, S) \in Nat
           /\ f[e] <= SumOf(f, S)
           /\ SumOf(f2, S) = SumOf(f, S) - f[e] + f2[e]
<1>1. SumOf(f, S) = f[e] + SumOf(f, S \ {e}) /\ SumOf(f, S \ {e}) \in Nat
    BY SumElement
<1>2. SumOf(f2, S) = f2[e] + SumOf(f2, S \ {e})
    BY SumElement
<1>3. SumOf(f2, S \ {e}) = SumOf(f, S \ {e})
    BY SumSame, FS_RemoveElement
<1>4. QED
    BY <1>1, <1>2, <1>3

\* A sum is at least any of its terms, and at least any two of them.
LEMMA SumTwo ==
    ASSUME NEW S, IsFiniteSet(S), NEW f, \A x \in S : f[x] \in Nat,
           NEW d \in S, NEW e \in S, d # e
    PROVE  f[d] + f[e] <= SumOf(f, S)
<1>1. SumOf(f, S) = f[d] + SumOf(f, S \ {d})
    BY SumElement
<1>2. /\ SumOf(f, S \ {d}) = f[e] + SumOf(f, (S \ {d}) \ {e})
      /\ SumOf(f, (S \ {d}) \ {e}) \in Nat
    BY SumElement, FS_RemoveElement
<1>3. QED
    BY <1>1, <1>2

\* Larger terms, larger sum.
LEMMA SumMonotone ==
    ASSUME NEW S, IsFiniteSet(S), NEW f, NEW f2,
           \A x \in S : f[x] \in Nat /\ f2[x] \in Nat /\ f[x] <= f2[x]
    PROVE  SumOf(f, S) <= SumOf(f2, S)
<1> DEFINE Sz == {Cardinality(s) : s \in {s \in SUBSET S : ~ (SumOf(f, s) <= SumOf(f2, s))}}
<1>1. SUFFICES ASSUME Sz # {}
               PROVE  FALSE
    OBVIOUS
<1>2. Sz \subseteq Nat
    BY Sizes
<1>3. PICK m \in Sz : \A i \in Sz : m <= i
    BY <1>1, <1>2, Least
<1>4. PICK s \in SUBSET S : ~ (SumOf(f, s) <= SumOf(f2, s)) /\ m = Cardinality(s)
    BY <1>3
<1>5. s # {}
    BY <1>4, SumEmpty
<1>6. PICK c \in s : c = First(s)
    BY <1>5, Sizes
<1>7. PICK r \in SUBSET S : r = s \ {c}
    OBVIOUS
<1>8. IsFiniteSet(r) /\ Cardinality(r) = m - 1
    BY <1>4, <1>7, Sizes
<1>9. SumOf(f, r) <= SumOf(f2, r)
    <2>1. m \in Nat /\ (Cardinality(r) \in Sz => m <= m - 1)
        BY <1>2, <1>3, <1>8
    <2>2. Cardinality(r) \notin Sz
        BY <2>1
    <2>3. QED
        BY <2>2
<1>10. SumOf(f, r) \in Nat /\ SumOf(f2, r) \in Nat
    BY <1>8, SumType
<1>11. SumOf(f, s) = f[c] + SumOf(f, r) /\ SumOf(f2, s) = f2[c] + SumOf(f2, r)
    BY <1>5, <1>6, <1>7, Sizes, SumFirst
<1>12. f[c] \in Nat /\ f2[c] \in Nat /\ f[c] <= f2[c]
    OBVIOUS
<1>13. QED
    BY <1>4, <1>9, <1>10, <1>11, <1>12

\* The sum of zeros is zero.
LEMMA SumOfZeros ==
    ASSUME NEW S, IsFiniteSet(S), NEW f, \A x \in S : f[x] = 0
    PROVE  SumOf(f, S) = 0
<1> DEFINE Sz == {Cardinality(s) : s \in {s \in SUBSET S : SumOf(f, s) # 0}}
<1>1. SUFFICES ASSUME Sz # {}
               PROVE  FALSE
    OBVIOUS
<1>2. Sz \subseteq Nat
    BY Sizes
<1>3. PICK m \in Sz : \A i \in Sz : m <= i
    BY <1>1, <1>2, Least
<1>4. PICK s \in SUBSET S : SumOf(f, s) # 0 /\ m = Cardinality(s)
    BY <1>3
<1>5. s # {}
    BY <1>4, SumEmpty
<1>6. PICK c \in s : c = First(s)
    BY <1>5, Sizes
<1>7. PICK r \in SUBSET S : r = s \ {c}
    OBVIOUS
<1>8. Cardinality(r) = m - 1
    BY <1>4, <1>7, Sizes
<1>9. SumOf(f, r) = 0
    <2>1. m \in Nat /\ (Cardinality(r) \in Sz => m <= m - 1)
        BY <1>2, <1>3, <1>8
    <2>2. Cardinality(r) \notin Sz
        BY <2>1
    <2>3. QED
        BY <2>2
<1>10. SumOf(f, s) = f[c] + SumOf(f, r)
    <2>1. IsFiniteSet(s) /\ \A x \in s : f[x] \in Nat
        BY Sizes
    <2>2. QED
        BY <1>5, <1>6, <1>7, <2>1, SumFirst
<1>11. QED
    BY <1>4, <1>9, <1>10

\* The sum over a part of the set is not larger.
LEMMA SumSubset ==
    ASSUME NEW S, IsFiniteSet(S), NEW f, \A x \in S : f[x] \in Nat, NEW t0 \in SUBSET S
    PROVE  SumOf(f, t0) <= SumOf(f, S)
<1> DEFINE Good(t) == SumOf(f, t) <= SumOf(f, S)
           Sz == {Cardinality(S \ t) : t \in {t \in SUBSET S : ~ Good(t)}}
<1>1. SUFFICES ASSUME Sz # {}
               PROVE  FALSE
    OBVIOUS
<1>2. Sz \subseteq Nat
    <2>1. \A t \in SUBSET S : S \ t \in SUBSET S /\ Cardinality(S \ t) \in Nat
        BY Sizes
    <2>2. QED
        BY <2>1
<1>3. PICK m \in Sz : \A i \in Sz : m <= i
    BY <1>1, <1>2, Least
<1>4. PICK t \in SUBSET S : ~ Good(t) /\ m = Cardinality(S \ t)
    BY <1>3
<1>5. \A s \in SUBSET S : IsFiniteSet(s) /\ SumOf(f, s) \in Nat
    BY Sizes, SumType
<1>6. t # S
    BY <1>4, <1>5
<1>7. PICK c \in S : c \notin t
    BY <1>6
<1>8. PICK r \in SUBSET S : r = t \cup {c}
    BY <1>7
<1>9. S \ r = (S \ t) \ {c} /\ c \in S \ t /\ r \ {c} = t
    BY <1>7, <1>8
<1>10. Cardinality(S \ r) = m - 1
    <2>1. PICK q \in SUBSET S : q = S \ t
        OBVIOUS
    <2>2. \A e \in q : Cardinality(q \ {e}) = Cardinality(q) - 1
        BY Sizes
    <2>3. Cardinality(q \ {c}) = m - 1
        BY <1>4, <1>9, <2>1, <2>2
    <2>4. QED
        BY <1>9, <2>1, <2>3
<1>11. Good(r)
    <2>1. m \in Nat /\ (Cardinality(S \ r) \in Sz => m <= m - 1)
        BY <1>2, <1>3, <1>10
    <2> HIDE DEF Good, Sz
    <2>2. Cardinality(S \ r) \notin Sz
        BY <2>1
    <2> USE DEF Sz
    <2>3. QED
        BY <2>2
<1>12. SumOf(f, r) = f[c] + SumOf(f, t)
    <2>1. IsFiniteSet(r) /\ c \in r /\ \A x \in r : f[x] \in Nat
        BY <1>5, <1>8
    <2>2. SumOf(f, r) = f[c] + SumOf(f, r \ {c})
        BY <2>1, SumElement
    <2>3. QED
        BY <1>9, <2>2
<1>13. f[c] \in Nat /\ SumOf(f, t) \in Nat /\ SumOf(f, r) \in Nat /\ SumOf(f, S) \in Nat
    BY <1>5
<1>14. QED
    BY <1>4, <1>11, <1>12, <1>13
===========================================================================
