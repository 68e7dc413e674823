------------------------ MODULE NoteConversionProofs ------------------------
(***************************************************************************)
(* Proofs about notes for any accounts, amounts, keys, word size and       *)
(* number of notes: conversions conserve value, membership proofs are      *)
(* sound and complete, and the two forms of the rules of a transfer agree. *)
(*                                                                         *)
(* Sums (FoldFunction) and the loops of the Merkle tree are defined by     *)
(* recursion.  What they compute is shown by a least counterexample:       *)
(* a set of naturals that is not empty has a least element.                *)
(***************************************************************************)
EXTENDS ZkTransfer, FiniteSetTheorems, WellFoundedInduction, SequenceTheorems, TLAPS

\* Induction over the naturals, as a fact about sets.
LEMMA LeastNatural ==
    ASSUME NEW T \in SUBSET Nat, T # {}
    PROVE  \E m \in T : \A k \in T : m <= k
<1> DEFINE R == OpToRel(<, Nat)
<1>1. IsWellFoundedOn(R, Nat)
  BY NatLessThanWellFounded
<1>2. \A x, y \in Nat : <<x, y>> \in R <=> x < y
  BY DEF OpToRel
<1> HIDE DEF R
<1>3. PICK m \in T : \A k \in T : ~(<<k, m>> \in R)
  BY <1>1, WFMin
<1>4. \A k \in T : m <= k
  <2> TAKE k \in T
  <2>1. m \in Nat /\ k \in Nat
    OBVIOUS
  <2>2. ~(k < m)
    BY <1>2, <1>3, <2>1
  <2>3. QED
    BY <2>1, <2>2
<1>5. QED
  BY <1>4

\* What remains of a finite set without one of its elements.
LEMMA OneLess ==
    ASSUME NEW s, IsFiniteSet(s), NEW x \in s
    PROVE  /\ IsFiniteSet(s \ {x})
           /\ Cardinality(s) \in Nat /\ Cardinality(s) >= 1
           /\ Cardinality(s \ {x}) = Cardinality(s) - 1
           /\ Cardinality(s \ {x}) \in Nat
<1>1. IsFiniteSet(s \ {x}) /\ Cardinality(s \ {x}) = Cardinality(s) - 1
  BY FS_RemoveElement
<1>2. Cardinality(s) \in Nat /\ Cardinality(s \ {x}) \in Nat
  BY <1>1, FS_CardinalityType
<1>3. QED
  BY <1>1, <1>2

-----------------------------------------------------------------------------
(* Sums *)

Pick(s) == CHOOSE x \in s : TRUE

Adds(f, g, s) == IF s = {} THEN 0 ELSE f[Pick(s)] + g[s \ {Pick(s)}]

\* g gives the sum of f over every subset of its domain.
IsSummation(f, g) == g = [s \in SUBSET DOMAIN f |-> Adds(f, g, s)]

LEMMA SumIsSummation ==
    ASSUME NEW f
    PROVE  SumOver(f) = (CHOOSE g : IsSummation(f, g))[DOMAIN f]
BY DEF SumOver, FoldFunctionOnSet, FoldFunction, MapThenFoldSet, IsSummation,
       Adds, Pick

\* f is a function on a finite set with natural values.
Finite(f) == IsFiniteSet(DOMAIN f) /\ f \in [DOMAIN f -> Nat]

LEMMA SummationExists ==
    ASSUME NEW f, Finite(f)
    PROVE  \E g : IsSummation(f, g)
<1> DEFINE D == DOMAIN f
           Upto(n, g) == /\ g \in [SUBSET D -> Nat]
                         /\ \A s \in SUBSET D : Cardinality(s) <= n => g[s] = Adds(f, g, s)
           Bad == {n \in Nat : ~ \E g : Upto(n, g)}
<1>1. \A s \in SUBSET D : IsFiniteSet(s) /\ Cardinality(s) \in Nat
  BY FS_Subset, FS_CardinalityType DEF Finite
<1>2. \A s \in SUBSET D : s # {} =>
         /\ Pick(s) \in s
         /\ s \ {Pick(s)} \in SUBSET D
         /\ f[Pick(s)] \in Nat
         /\ Cardinality(s \ {Pick(s)}) = Cardinality(s) - 1
  <2> TAKE s \in SUBSET D
  <2> HAVE s # {}
  <2>1. Pick(s) \in s
    BY DEF Pick
  <2>2. Pick(s) \in D /\ s \ {Pick(s)} \in SUBSET D
    BY <2>1
  <2>3. f[Pick(s)] \in Nat
    BY <2>2 DEF Finite
  <2>4. Cardinality(s \ {Pick(s)}) = Cardinality(s) - 1
    BY <1>1, <2>1, OneLess
  <2>5. QED
    BY <2>1, <2>2, <2>3, <2>4
<1>3. Bad = {}
  <2> SUFFICES ASSUME Bad # {} PROVE FALSE
    OBVIOUS
  <2>1. PICK n \in Bad : \A k \in Bad : n <= k
    <3>1. Bad \in SUBSET Nat
      OBVIOUS
    <3> HIDE DEF Bad
    <3>2. QED
      BY <3>1, LeastNatural
  <2>2. ASSUME n = 0 PROVE FALSE
    <3> DEFINE g == [s \in SUBSET D |-> 0]
    <3>1. ASSUME NEW s \in SUBSET D, Cardinality(s) <= 0 PROVE g[s] = Adds(f, g, s)
      <4>1. Cardinality(s) = 0
        BY <1>1, <3>1
      <4>2. s = {}
        BY <1>1, <4>1, FS_EmptySet
      <4>3. QED
        BY <4>2 DEF Adds
    <3>2. g \in [SUBSET D -> Nat]
      OBVIOUS
    <3> HIDE DEF g
    <3>3. Upto(0, g)
      BY <3>1, <3>2
    <3>4. QED
      BY <2>2, <3>3
  <2>3. n - 1 \in Nat /\ n - 1 \notin Bad
    <3>1. n \in Nat /\ n # 0
      BY <2>2
    <3>2. n - 1 \in Nat /\ ~(n <= n - 1)
      BY <3>1
    <3> HIDE DEF Bad
    <3>3. QED
      BY <2>1, <3>2
  <2>4. PICK g : Upto(n - 1, g)
    BY <2>3
  <2>5. n \in Nat
    OBVIOUS
  <2> DEFINE h == [s \in SUBSET D |-> Adds(f, g, s)]
  <2>6. \A s \in SUBSET D : Adds(f, g, s) \in Nat
    <3> TAKE s \in SUBSET D
    <3>1. CASE s = {}
      BY <3>1 DEF Adds
    <3>2. CASE s # {}
      <4>1. g[s \ {Pick(s)}] \in Nat
        BY <1>2, <2>4, <3>2
      <4>2. f[Pick(s)] \in Nat
        BY <1>2, <3>2
      <4>3. Adds(f, g, s) = f[Pick(s)] + g[s \ {Pick(s)}]
        BY <3>2 DEF Adds
      <4>4. QED
        BY <4>1, <4>2, <4>3
    <3>3. QED
      BY <3>1, <3>2
  <2>7. ASSUME NEW s \in SUBSET D, Cardinality(s) <= n PROVE h[s] = Adds(f, h, s)
    <3>1. CASE s = {}
      BY <3>1 DEF Adds
    <3>2. CASE s # {}
      <4> DEFINE r == s \ {Pick(s)}
      <4>1. r \in SUBSET D /\ Cardinality(r) <= n - 1
        <5>1. Cardinality(r) = Cardinality(s) - 1
          BY <1>2, <3>2
        <5>2. Cardinality(s) \in Nat
          BY <1>1
        <5>3. QED
          BY <1>2, <2>5, <2>7, <3>2, <5>1, <5>2
      <4>2. h[r] = g[r]
        <5> HIDE DEF r
        <5>1. h[r] = Adds(f, g, r)
          BY <4>1
        <5>2. QED
          BY <2>4, <4>1, <5>1
      <4>3. Adds(f, h, s) = f[Pick(s)] + h[r] /\ Adds(f, g, s) = f[Pick(s)] + g[r]
        <5> HIDE DEF h
        <5>1. QED
          BY <3>2 DEF Adds
      <4>4. h[s] = Adds(f, g, s)
        OBVIOUS
      <4> HIDE DEF h, r
      <4>5. QED
        BY <4>2, <4>3, <4>4
    <3>3. QED
      BY <3>1, <3>2
  <2>8. h \in [SUBSET D -> Nat]
    <3>1. QED
      BY <2>6
  <2> HIDE DEF h
  <2>9. Upto(n, h)
    BY <2>7, <2>8
  <2>10. QED
    BY <2>9
<1>4. Cardinality(D) \in Nat
  BY <1>1
<1>5. PICK g : Upto(Cardinality(D), g)
  <2> HIDE DEF Upto, D
  <2>1. QED
    BY <1>3, <1>4
<1>6. \A s \in SUBSET D : g[s] = Adds(f, g, s)
  <2> TAKE s \in SUBSET D
  <2>1. Cardinality(s) <= Cardinality(D)
    BY FS_Subset DEF Finite
  <2>2. QED
    BY <1>5, <2>1
<1>7. g = [s \in SUBSET D |-> Adds(f, g, s)]
  BY <1>5, <1>6
<1>8. QED
  BY <1>7 DEF IsSummation

LEMMA SummationFacts ==
    ASSUME NEW f, Finite(f), NEW g, IsSummation(f, g)
    PROVE  /\ g[{}] = 0
           /\ \A s \in SUBSET DOMAIN f : g[s] \in Nat
           /\ \A s \in SUBSET DOMAIN f : \A x \in s : g[s] = f[x] + g[s \ {x}]
<1> DEFINE D == DOMAIN f
           Good(s) == /\ g[s] \in Nat
                      /\ \A x \in s : g[s] = f[x] + g[s \ {x}]
           Bad == {n \in Nat : \E s \in SUBSET D : Cardinality(s) = n /\ ~Good(s)}
<1>1. \A s \in SUBSET D : IsFiniteSet(s) /\ Cardinality(s) \in Nat
  BY FS_Subset, FS_CardinalityType DEF Finite
<1>2. \A s \in SUBSET D : g[s] = Adds(f, g, s)
  BY DEF IsSummation
<1>3. g[{}] = 0
  BY <1>2 DEF Adds
<1>4. \A x \in D : f[x] \in Nat
  BY DEF Finite
<1>5. Bad = {}
  <2> SUFFICES ASSUME Bad # {} PROVE FALSE
    OBVIOUS
  <2>1. PICK n \in Bad : \A k \in Bad : n <= k
    <3>1. Bad \in SUBSET Nat
      OBVIOUS
    <3> HIDE DEF Bad
    <3>2. QED
      BY <3>1, LeastNatural
  <2>2. PICK s \in SUBSET D : Cardinality(s) = n /\ ~Good(s)
    OBVIOUS
  <2>3. ASSUME NEW x \in s PROVE Good(s \ {x})
    <3>1. s \ {x} \in SUBSET D /\ IsFiniteSet(s)
      BY <1>1
    <3>2. /\ Cardinality(s \ {x}) = n - 1 /\ Cardinality(s \ {x}) \in Nat
          /\ n \in Nat
      BY <2>2, <3>1, OneLess
    <3>3. Cardinality(s \ {x}) \notin Bad
      <4>1. ~(n <= Cardinality(s \ {x}))
        BY <3>2
      <4> HIDE DEF Bad
      <4>2. QED
        BY <2>1, <4>1
    <3> HIDE DEF Good
    <3>4. QED
      BY <3>1, <3>2, <3>3
  <2>4. CASE s = {}
    <3>1. Good({})
      BY <1>3
    <3> HIDE DEF Good
    <3>2. QED
      BY <2>2, <2>4, <3>1
  <2>5. CASE s # {}
    <3>1. PICK y \in s : y = Pick(s)
      BY <2>5 DEF Pick
    <3>2. g[s] = f[y] + g[s \ {y}]
      BY <1>2, <2>5, <3>1 DEF Adds
    <3>3. g[s \ {y}] \in Nat /\ f[y] \in Nat
      BY <1>4, <2>3
    <3>4. g[s] \in Nat
      BY <3>2, <3>3
    <3>5. ASSUME NEW x \in s, x # y PROVE g[s] = f[x] + g[s \ {x}]
      <4>1. x \in s \ {y} /\ y \in s \ {x}
        BY <3>5
      <4>2. g[s \ {y}] = f[x] + g[(s \ {y}) \ {x}]
        BY <2>3, <4>1
      <4>3. g[s \ {x}] = f[y] + g[(s \ {x}) \ {y}] /\ g[s \ {x}] \in Nat
        BY <2>3, <4>1
      <4>4. (s \ {y}) \ {x} = (s \ {x}) \ {y}
        OBVIOUS
      <4>5. PICK z : z = g[(s \ {x}) \ {y}]
        OBVIOUS
      <4>6. z \in Nat
        <5>1. s \ {x} \in SUBSET D /\ IsFiniteSet(s) /\ IsFiniteSet(s \ {x})
          BY <1>1
        <5>2. PICK r \in SUBSET D : r = (s \ {x}) \ {y}
          OBVIOUS
        <5>3. /\ Cardinality(s) = n /\ Cardinality(s \ {x}) = n - 1
              /\ Cardinality(r) = Cardinality(s \ {x}) - 1
              /\ Cardinality(r) \in Nat /\ n \in Nat
          BY <2>2, <4>1, <5>1, <5>2, OneLess
        <5>4. Cardinality(r) \notin Bad
          <6>1. ~(n <= Cardinality(r))
            BY <5>3
          <6> HIDE DEF Bad
          <6>2. QED
            BY <2>1, <6>1
        <5>5. Good(r)
          <6> HIDE DEF Good
          <6>1. QED
            BY <5>3, <5>4
        <5>6. QED
          BY <4>5, <5>2, <5>5
      <4>7. f[x] \in Nat /\ f[y] \in Nat
        BY <1>4
      <4>8. /\ g[s \ {y}] = f[x] + z
            /\ g[s \ {x}] = f[y] + z
        BY <4>2, <4>3, <4>4, <4>5
      <4>9. QED
        BY <3>2, <4>6, <4>7, <4>8
    <3>6. Good(s)
      BY <3>1, <3>2, <3>4, <3>5
    <3> HIDE DEF Good
    <3>7. QED
      BY <2>2, <3>6
  <2>6. QED
    BY <2>4, <2>5
<1>6. ASSUME NEW s \in SUBSET D PROVE Good(s)
  <2>1. Cardinality(s) \in Nat /\ Cardinality(s) \notin Bad
    <3> HIDE DEF Bad
    <3>1. QED
      BY <1>1, <1>5
  <2> HIDE DEF Good
  <2>2. QED
    BY <2>1
<1>7. QED
  BY <1>3, <1>6

LEMMA SummationRemoves ==
    ASSUME NEW f, Finite(f), NEW g, IsSummation(f, g),
           NEW s \in SUBSET DOMAIN f, NEW x \in s
    PROVE  g[s] = f[x] + g[s \ {x}]
BY SummationFacts

\* Two summations agree on the sets where their functions do.
LEMMA SummationsAgree ==
    ASSUME NEW f, Finite(f), NEW g, IsSummation(f, g),
           NEW e, Finite(e), NEW h, IsSummation(e, h),
           NEW S \in SUBSET (DOMAIN f \cap DOMAIN e), \A x \in S : f[x] = e[x]
    PROVE  g[S] = h[S]
<1> DEFINE Bad == {n \in Nat : \E s \in SUBSET S : Cardinality(s) = n /\ g[s] # h[s]}
<1>1. \A s \in SUBSET S : IsFiniteSet(s) /\ Cardinality(s) \in Nat /\ s \in SUBSET DOMAIN f
                            /\ s \in SUBSET DOMAIN e
  BY FS_Subset, FS_CardinalityType DEF Finite
<1>2. Bad = {}
  <2> SUFFICES ASSUME Bad # {} PROVE FALSE
    OBVIOUS
  <2>1. PICK n \in Bad : \A k \in Bad : n <= k
    <3>1. Bad \in SUBSET Nat
      OBVIOUS
    <3> HIDE DEF Bad
    <3>2. QED
      BY <3>1, LeastNatural
  <2>2. PICK s \in SUBSET S : Cardinality(s) = n /\ g[s] # h[s]
    OBVIOUS
  <2>3. s # {}
    <3>1. g[{}] = 0 /\ h[{}] = 0
      BY SummationFacts
    <3>2. QED
      BY <2>2, <3>1
  <2>4. PICK x \in s : TRUE
    BY <2>3
  <2>5. g[s] = f[x] + g[s \ {x}] /\ h[s] = e[x] + h[s \ {x}]
    BY <1>1, SummationFacts
  <2>6. f[x] = e[x]
    OBVIOUS
  <2>7. s \ {x} \in SUBSET S /\ Cardinality(s \ {x}) = n - 1 /\ Cardinality(s \ {x}) \in Nat
        /\ n \in Nat
    BY <1>1, <2>2, OneLess
  <2>8. Cardinality(s \ {x}) \notin Bad
    <3>1. ~(n <= Cardinality(s \ {x}))
      BY <2>7
    <3> HIDE DEF Bad
    <3>2. QED
      BY <2>1, <3>1
  <2>9. g[s \ {x}] = h[s \ {x}]
    BY <2>7, <2>8
  <2>10. QED
    BY <2>2, <2>5, <2>6, <2>9
<1>3. QED
  BY <1>1, <1>2

Without(f, x) == [y \in DOMAIN f \ {x} |-> f[y]]

\* What defines the sum of a finite function with natural values.
LEMMA SumEmpty == ASSUME NEW f, DOMAIN f = {} PROVE SumOver(f) = 0
<1>1. \E g : IsSummation(f, g)
  <2> DEFINE g == [s \in SUBSET {} |-> 0]
  <2>1. g = [s \in SUBSET DOMAIN f |-> Adds(f, g, s)]
    BY DEF Adds
  <2>2. QED
    BY <2>1 DEF IsSummation
<1>2. PICK g : g = CHOOSE h : IsSummation(f, h)
  OBVIOUS
<1>3. IsSummation(f, g)
  BY <1>1, <1>2
<1>4. g[{}] = 0
  BY <1>3 DEF IsSummation, Adds
<1>5. QED
  BY <1>2, <1>4, SumIsSummation

LEMMA SumNat == ASSUME NEW f, Finite(f) PROVE SumOver(f) \in Nat
<1>1. PICK g : g = CHOOSE h : IsSummation(f, h)
  OBVIOUS
<1>2. IsSummation(f, g)
  BY <1>1, SummationExists
<1>3. g[DOMAIN f] \in Nat
  BY <1>2, SummationFacts
<1>4. QED
  BY <1>1, <1>3, SumIsSummation

LEMMA SumRemove ==
    ASSUME NEW f, Finite(f), NEW x \in DOMAIN f
    PROVE  /\ Finite(Without(f, x))
           /\ SumOver(f) = f[x] + SumOver(Without(f, x))
<1>1. Finite(Without(f, x)) /\ DOMAIN Without(f, x) = DOMAIN f \ {x}
  BY FS_Subset DEF Finite, Without
<1>2. PICK g : g = CHOOSE k : IsSummation(f, k)
  OBVIOUS
<1>3. PICK h : h = CHOOSE k : IsSummation(Without(f, x), k)
  OBVIOUS
<1>4. IsSummation(f, g) /\ IsSummation(Without(f, x), h)
  BY <1>1, <1>2, <1>3, SummationExists
<1>5. g[DOMAIN f] = f[x] + g[DOMAIN f \ {x}]
  <2>1. PICK D \in SUBSET DOMAIN f : D = DOMAIN f
    OBVIOUS
  <2>2. g[D] = f[x] + g[D \ {x}]
    BY <1>4, <2>1, SummationRemoves
  <2>3. QED
    BY <2>1, <2>2
<1>6. \A y \in DOMAIN f \ {x} : f[y] = Without(f, x)[y]
  BY DEF Without
<1>7. g[DOMAIN f \ {x}] = h[DOMAIN f \ {x}]
  BY <1>1, <1>4, <1>6, SummationsAgree
<1>8. SumOver(f) = g[DOMAIN f] /\ SumOver(Without(f, x)) = h[DOMAIN f \ {x}]
  BY <1>1, <1>2, <1>3, SumIsSummation
<1>9. QED
  BY <1>1, <1>5, <1>7, <1>8

\* A function that differs from f at x only.
LEMMA SumUpdate ==
    ASSUME NEW f, Finite(f), NEW e, Finite(e), DOMAIN e = DOMAIN f,
           NEW x \in DOMAIN f, \A y \in DOMAIN f \ {x} : f[y] = e[y]
    PROVE  SumOver(f) + e[x] = SumOver(e) + f[x]
<1>1. Without(f, x) = Without(e, x)
  BY DEF Without
<1>2. SumOver(f) = f[x] + SumOver(Without(f, x)) /\ Finite(Without(f, x))
  BY SumRemove
<1>3. SumOver(e) = e[x] + SumOver(Without(f, x))
  <2>1. SumOver(e) = e[x] + SumOver(Without(e, x))
    BY SumRemove
  <2>2. QED
    BY <1>1, <2>1
<1>4. SumOver(Without(f, x)) \in Nat
  BY <1>2, SumNat
<1>5. f[x] \in Nat /\ e[x] \in Nat
  BY DEF Finite
<1>6. QED
  BY <1>2, <1>3, <1>4, <1>5

LEMMA SumOfZeros ==
    ASSUME NEW S, IsFiniteSet(S)
    PROVE  SumOver([x \in S |-> 0]) = 0
<1> DEFINE Zeros(s) == [x \in s |-> 0]
           Bad == {n \in Nat : \E s \in SUBSET S : Cardinality(s) = n /\ SumOver(Zeros(s)) # 0}
<1>1. \A s \in SUBSET S : IsFiniteSet(s) /\ Cardinality(s) \in Nat
  BY FS_Subset, FS_CardinalityType
<1>2. Bad = {}
  <2> SUFFICES ASSUME Bad # {} PROVE FALSE
    OBVIOUS
  <2>1. PICK n \in Bad : \A k \in Bad : n <= k
    <3>1. Bad \in SUBSET Nat
      OBVIOUS
    <3> HIDE DEF Bad
    <3>2. QED
      BY <3>1, LeastNatural
  <2>2. PICK s \in SUBSET S : Cardinality(s) = n /\ SumOver(Zeros(s)) # 0
    OBVIOUS
  <2>3. s # {}
    <3>1. DOMAIN Zeros(s) = s
      OBVIOUS
    <3> HIDE DEF Zeros
    <3>2. QED
      BY <2>2, <3>1, SumEmpty
  <2>4. PICK x \in s : TRUE
    BY <2>3
  <2>5. Finite(Zeros(s)) /\ DOMAIN Zeros(s) = s /\ Zeros(s)[x] = 0
    BY <1>1 DEF Finite
  <2>6. Without(Zeros(s), x) = Zeros(s \ {x})
    BY DEF Without
  <2>7. s \ {x} \in SUBSET S /\ Cardinality(s \ {x}) = n - 1 /\ Cardinality(s \ {x}) \in Nat
        /\ n \in Nat
    BY <1>1, <2>2, OneLess
  <2>8. Cardinality(s \ {x}) \notin Bad
    <3>1. ~(n <= Cardinality(s \ {x}))
      BY <2>7
    <3> HIDE DEF Bad
    <3>2. QED
      BY <2>1, <3>1
  <2> HIDE DEF Zeros
  <2>9. SumOver(Zeros(s \ {x})) = 0
    BY <2>7, <2>8
  <2>10. SumOver(Zeros(s)) = Zeros(s)[x] + SumOver(Without(Zeros(s), x))
    BY <2>5, SumRemove
  <2>11. QED
    BY <2>2, <2>5, <2>6, <2>9, <2>10
<1>3. S \in SUBSET S
  OBVIOUS
<1> HIDE DEF Zeros
<1>4. SumOver(Zeros(S)) = 0
  BY <1>1, <1>2, <1>3
<1>5. QED
  BY <1>4 DEF Zeros

\* e is f under other names.
Renames(b, e, f) ==
    /\ Finite(e) /\ Finite(f)
    /\ b \in [DOMAIN e -> DOMAIN f]
    /\ \A x, y \in DOMAIN e : b[x] = b[y] => x = y
    /\ \A z \in DOMAIN f : \E x \in DOMAIN e : b[x] = z
    /\ \A x \in DOMAIN e : e[x] = f[b[x]]

LEMMA SumRenamed ==
    ASSUME NEW b, NEW e, NEW f, Renames(b, e, f)
    PROVE  SumOver(e) = SumOver(f)
<1> DEFINE Bad == {n \in Nat : \E c, g, h : /\ Renames(c, g, h)
                                            /\ Cardinality(DOMAIN g) = n
                                            /\ SumOver(g) # SumOver(h)}
<1>1. Bad = {}
  <2> SUFFICES ASSUME Bad # {} PROVE FALSE
    OBVIOUS
  <2>1. PICK n \in Bad : \A k \in Bad : n <= k
    <3>1. Bad \in SUBSET Nat
      OBVIOUS
    <3> HIDE DEF Bad
    <3>2. QED
      BY <3>1, LeastNatural
  <2>2. PICK c, g, h : /\ Renames(c, g, h)
                       /\ Cardinality(DOMAIN g) = n
                       /\ SumOver(g) # SumOver(h)
    OBVIOUS
  <2>3. DOMAIN g # {}
    <3>1. DOMAIN g = {} => DOMAIN h = {}
      BY <2>2 DEF Renames
    <3>2. QED
      BY <2>2, <3>1, SumEmpty
  <2>4. PICK x \in DOMAIN g : TRUE
    BY <2>3
  <2>5. PICK z \in DOMAIN h : z = c[x] /\ h[z] = g[x]
    BY <2>2 DEF Renames
  <2>6. Finite(g) /\ Finite(h)
    BY <2>2 DEF Renames
  <2>7. /\ SumOver(g) = g[x] + SumOver(Without(g, x))
        /\ SumOver(h) = h[z] + SumOver(Without(h, z))
        /\ Finite(Without(g, x)) /\ Finite(Without(h, z))
    BY <2>6, SumRemove
  <2> DEFINE d == [y \in DOMAIN g \ {x} |-> c[y]]
  <2>8. Renames(d, Without(g, x), Without(h, z))
    <3>1. DOMAIN Without(g, x) = DOMAIN g \ {x} /\ DOMAIN Without(h, z) = DOMAIN h \ {z}
      BY DEF Without
    <3>2. \A y \in DOMAIN g \ {x} : c[y] \in DOMAIN h \ {z}
      BY <2>2, <2>5 DEF Renames
    <3>3. d \in [DOMAIN g \ {x} -> DOMAIN h \ {z}]
      BY <3>2
    <3>4. \A y, w \in DOMAIN g \ {x} : d[y] = d[w] => y = w
      BY <2>2 DEF Renames
    <3>5. \A u \in DOMAIN h \ {z} : \E y \in DOMAIN g \ {x} : d[y] = u
      <4> TAKE u \in DOMAIN h \ {z}
      <4>1. PICK y \in DOMAIN g : c[y] = u
        BY <2>2 DEF Renames
      <4>2. y \in DOMAIN g \ {x}
        BY <2>5, <4>1
      <4>3. QED
        BY <4>1, <4>2
    <3>6. \A y \in DOMAIN g \ {x} : Without(g, x)[y] = Without(h, z)[d[y]]
      <4> TAKE y \in DOMAIN g \ {x}
      <4>1. g[y] = h[c[y]]
        BY <2>2 DEF Renames
      <4>2. Without(g, x)[y] = g[y] /\ Without(h, z)[c[y]] = h[c[y]]
        BY <3>2 DEF Without
      <4>3. d[y] = c[y]
        OBVIOUS
      <4>4. QED
        BY <4>1, <4>2, <4>3
    <3> HIDE DEF d
    <3>7. QED
      BY <2>7, <3>1, <3>3, <3>4, <3>5, <3>6 DEF Renames
  <2>9. /\ Cardinality(DOMAIN Without(g, x)) = n - 1
        /\ Cardinality(DOMAIN Without(g, x)) \in Nat
        /\ n \in Nat
    <3>1. DOMAIN Without(g, x) = DOMAIN g \ {x} /\ IsFiniteSet(DOMAIN g)
      BY <2>6 DEF Without, Finite
    <3>2. QED
      BY <2>2, <3>1, OneLess
  <2>10. Cardinality(DOMAIN Without(g, x)) \notin Bad
    <3>1. ~(n <= Cardinality(DOMAIN Without(g, x)))
      BY <2>9
    <3> HIDE DEF Bad
    <3>2. QED
      BY <2>1, <3>1
  <2> HIDE DEF d
  <2>11. SumOver(Without(g, x)) = SumOver(Without(h, z))
    BY <2>8, <2>9, <2>10
  <2>12. QED
    BY <2>2, <2>5, <2>7, <2>11
<1>2. Cardinality(DOMAIN e) \in Nat
  BY FS_CardinalityType DEF Renames, Finite
<1>3. QED
  BY <1>1, <1>2

-----------------------------------------------------------------------------
(* Lists *)

\* Position j of a list from which position k was taken out, in the list before.
Before(k, j) == IF j < k THEN j ELSE j + 1

LEMMA RemoveFirstOfFacts ==
    ASSUME NEW S, NEW list \in Seq(S), NEW c, Contains(list, c)
    PROVE  \E k \in 1 .. Len(list) :
               /\ list[k] = c
               /\ RemoveFirstOf(list, c) \in Seq(S)
               /\ Len(RemoveFirstOf(list, c)) = Len(list) - 1
               /\ \A j \in 1 .. (Len(list) - 1) :
                      RemoveFirstOf(list, c)[j] = list[Before(k, j)]
<1> DEFINE I == {i \in 1 .. Len(list) : list[i] = c}
           n == Len(list)
<1>1. n \in Nat /\ \A i \in 1 .. n : list[i] \in S
  BY LenProperties, ElementOfSeq
<1>2. I # {} /\ I \in SUBSET Nat
  BY DEF Contains
<1>3. PICK k \in I : k = Min(I)
  <2>1. \E m \in I : \A y \in I : m <= y
    <3> HIDE DEF I
    <3>1. QED
      BY <1>2, LeastNatural
  <2> HIDE DEF I
  <2>2. QED
    BY <2>1 DEF Min
<1>4. k \in 1 .. n /\ list[k] = c /\ k \in Nat
  OBVIOUS
<1>5. RemoveFirstOf(list, c) = RemoveAt(list, k)
  BY <1>2, <1>3 DEF RemoveFirstOf, SelectInSeq
<1> DEFINE s1 == SubSeq(list, 1, k - 1)
           s2 == SubSeq(list, k + 1, n)
<1>6. /\ s1 \in Seq(S) /\ Len(s1) = k - 1
      /\ \A i \in 1 .. (k - 1) : s1[i] = list[i]
  <2>1. \A i \in 1 .. (k - 1) : list[i] \in S
    BY <1>1, <1>4
  <2>2. /\ s1 \in Seq(S)
        /\ Len(s1) = IF 1 <= k - 1 THEN (k - 1) - 1 + 1 ELSE 0
        /\ \A i \in 1 .. ((k - 1) - 1 + 1) : s1[i] = list[1 + i - 1]
    <3>1. 1 \in Int /\ k - 1 \in Int
      BY <1>4
    <3>2. QED
      BY <2>1, <3>1, SubSeqProperties
  <2> HIDE DEF s1
  <2>3. \A i \in 1 .. (k - 1) : 1 + i - 1 = i /\ i \in 1 .. ((k - 1) - 1 + 1)
    BY <1>4
  <2>4. Len(s1) = k - 1
    BY <1>4, <2>2
  <2>5. QED
    BY <2>2, <2>3, <2>4
<1>7. /\ s2 \in Seq(S) /\ Len(s2) = n - k
      /\ \A i \in 1 .. (n - k) : s2[i] = list[k + i]
  <2>1. \A i \in (k + 1) .. n : list[i] \in S
    BY <1>1, <1>4
  <2>2. /\ s2 \in Seq(S)
        /\ Len(s2) = IF k + 1 <= n THEN n - (k + 1) + 1 ELSE 0
        /\ \A i \in 1 .. (n - (k + 1) + 1) : s2[i] = list[(k + 1) + i - 1]
    <3>1. k + 1 \in Int /\ n \in Int
      BY <1>1, <1>4
    <3>2. QED
      BY <2>1, <3>1, SubSeqProperties
  <2> HIDE DEF s2, n
  <2>3. \A i \in 1 .. (n - k) : (k + 1) + i - 1 = k + i /\ i \in 1 .. (n - (k + 1) + 1)
    BY <1>1, <1>4
  <2>4. Len(s2) = n - k
    BY <1>1, <1>4, <2>2
  <2>5. QED
    BY <2>2, <2>3, <2>4
<1>8. RemoveFirstOf(list, c) = s1 \o s2
  BY <1>5 DEF RemoveAt
<1> HIDE DEF s1, s2, n
<1>9. /\ s1 \o s2 \in Seq(S)
      /\ Len(s1 \o s2) = Len(s1) + Len(s2)
      /\ \A i \in 1 .. Len(s1) + Len(s2) :
             (s1 \o s2)[i] = IF i <= Len(s1) THEN s1[i] ELSE s2[i - Len(s1)]
  BY <1>6, <1>7, ConcatProperties
<1>10. Len(s1) + Len(s2) = n - 1
  BY <1>1, <1>4, <1>6, <1>7
<1>11. ASSUME NEW j \in 1 .. (n - 1) PROVE (s1 \o s2)[j] = list[Before(k, j)]
  <2>1. (s1 \o s2)[j] = IF j <= k - 1 THEN s1[j] ELSE s2[j - (k - 1)]
    BY <1>6, <1>9, <1>10
  <2>2. CASE j < k
    <3>1. j \in 1 .. (k - 1) /\ j <= k - 1
      BY <1>4, <2>2
    <3>2. QED
      BY <1>6, <2>1, <2>2, <3>1 DEF Before
  <2>3. CASE ~(j < k)
    <3>1. ~(j <= k - 1) /\ j - (k - 1) \in 1 .. (n - k) /\ k + (j - (k - 1)) = j + 1
      BY <1>1, <1>4, <2>3
    <3>2. s2[j - (k - 1)] = list[k + (j - (k - 1))]
      BY <1>7, <3>1
    <3>3. QED
      BY <2>1, <2>3, <3>1, <3>2 DEF Before
  <2>4. QED
    BY <2>2, <2>3
<1>12. QED
  BY <1>4, <1>8, <1>9, <1>10, <1>11 DEF n

LEMMA BeforeFacts ==
    ASSUME NEW n \in Nat, NEW k \in 1 .. n
    PROVE  /\ \A j \in 1 .. (n - 1) : Before(k, j) \in (1 .. n) \ {k}
           /\ \A i, j \in 1 .. (n - 1) : Before(k, i) = Before(k, j) => i = j
           /\ \A i \in (1 .. n) \ {k} : \E j \in 1 .. (n - 1) : Before(k, j) = i
<1>1. ASSUME NEW j \in 1 .. (n - 1) PROVE Before(k, j) \in (1 .. n) \ {k}
  BY DEF Before
<1>2. ASSUME NEW i \in 1 .. (n - 1), NEW j \in 1 .. (n - 1), Before(k, i) = Before(k, j)
      PROVE  i = j
  BY <1>2 DEF Before
<1>3. ASSUME NEW i \in (1 .. n) \ {k} PROVE \E j \in 1 .. (n - 1) : Before(k, j) = i
  <2>1. CASE i < k
    <3>1. i \in 1 .. (n - 1) /\ Before(k, i) = i
      BY <2>1 DEF Before
    <3>2. QED
      BY <3>1
  <2>2. CASE ~(i < k)
    <3>1. i - 1 \in 1 .. (n - 1) /\ Before(k, i - 1) = i
      BY <2>2 DEF Before
    <3>2. QED
      BY <3>1
  <2>3. QED
    BY <2>1, <2>2
<1>4. QED
  BY <1>1, <1>2, <1>3

\* Commitments of the notes that Note::new makes.
Commitments ==
    {c \in [value : Nat, key : PublicKeys, blinding : Blindings] :
        NoteOk(c.value, c.key, c.blinding)}

ValueIn(list) == SumOver([i \in DOMAIN list |-> list[i].value])

LEMMA ValuesFinite ==
    ASSUME NEW list \in Seq(Commitments)
    PROVE  Finite([i \in DOMAIN list |-> list[i].value]) /\ ValueIn(list) \in Nat
<1>1. DOMAIN list = 1 .. Len(list) /\ Len(list) \in Nat
  BY LenProperties
<1>2. \A i \in 1 .. Len(list) : list[i].value \in Nat
  <2>1. \A i \in 1 .. Len(list) : list[i] \in Commitments
    BY ElementOfSeq
  <2>2. \A c \in Commitments : c.value \in Nat
    BY DEF Commitments
  <2>3. QED
    BY <2>1, <2>2
<1>3. IsFiniteSet(1 .. Len(list))
  BY <1>1, FS_Interval
<1>4. Finite([i \in DOMAIN list |-> list[i].value])
  BY <1>1, <1>2, <1>3 DEF Finite
<1>5. QED
  BY <1>4, SumNat DEF ValueIn

LEMMA ValueAppend ==
    ASSUME NEW list \in Seq(Commitments), NEW c \in Commitments
    PROVE  ValueIn(Append(list, c)) = c.value + ValueIn(list)
<1> DEFINE n == Len(list)
           new == Append(list, c)
           f == [i \in DOMAIN new |-> new[i].value]
           g == [i \in DOMAIN list |-> list[i].value]
<1>1. /\ n \in Nat /\ DOMAIN list = 1 .. n
      /\ new \in Seq(Commitments) /\ Len(new) = n + 1 /\ DOMAIN new = 1 .. (n + 1)
      /\ \A i \in 1 .. n : new[i] = list[i]
      /\ new[n + 1] = c
  BY AppendProperties, LenProperties
<1> HIDE DEF new, n
<1>2. Finite(f)
  BY <1>1, ValuesFinite
<1>3. n + 1 \in DOMAIN f /\ f[n + 1] = c.value
  BY <1>1
<1>4. Without(f, n + 1) = g
  <2>1. (1 .. (n + 1)) \ {n + 1} = 1 .. n
    BY <1>1
  <2>2. DOMAIN f \ {n + 1} = 1 .. n
    BY <1>1, <2>1
  <2>3. \A i \in 1 .. n : f[i] = list[i].value
    BY <1>1
  <2> HIDE DEF f
  <2>4. QED
    BY <1>1, <2>2, <2>3 DEF Without
<1>5. SumOver(f) = f[n + 1] + SumOver(Without(f, n + 1))
  <2> HIDE DEF f
  <2>1. QED
    BY <1>2, <1>3, SumRemove
<1>6. SumOver(f) = c.value + SumOver(g)
  BY <1>3, <1>4, <1>5
<1>7. QED
  BY <1>6 DEF ValueIn, new

LEMMA ValueRemove ==
    ASSUME NEW list \in Seq(Commitments), NEW c, Contains(list, c)
    PROVE  ValueIn(list) = c.value + ValueIn(RemoveFirstOf(list, c))
<1> DEFINE n == Len(list)
           rest == RemoveFirstOf(list, c)
           f == [i \in DOMAIN list |-> list[i].value]
           g == [i \in DOMAIN rest |-> rest[i].value]
<1>1. PICK k \in 1 .. n :
         /\ list[k] = c /\ rest \in Seq(Commitments) /\ Len(rest) = n - 1
         /\ \A j \in 1 .. (n - 1) : rest[j] = list[Before(k, j)]
  BY RemoveFirstOfFacts
<1>2. n \in Nat /\ DOMAIN list = 1 .. n /\ DOMAIN rest = 1 .. (n - 1)
  BY <1>1, LenProperties
<1> HIDE DEF rest, n
<1>3. Finite(f) /\ Finite(g)
  BY <1>1, ValuesFinite
<1>4. SumOver(f) = f[k] + SumOver(Without(f, k)) /\ Finite(Without(f, k))
  <2>1. k \in DOMAIN f
    BY <1>2
  <2> HIDE DEF f
  <2>2. QED
    BY <1>3, <2>1, SumRemove
<1> DEFINE b == [j \in 1 .. (n - 1) |-> Before(k, j)]
<1>5. Renames(b, g, Without(f, k))
  <2>1. DOMAIN g = 1 .. (n - 1) /\ DOMAIN Without(f, k) = (1 .. n) \ {k}
    BY <1>2 DEF Without
  <2>2. /\ \A j \in 1 .. (n - 1) : Before(k, j) \in (1 .. n) \ {k}
        /\ \A i, j \in 1 .. (n - 1) : Before(k, i) = Before(k, j) => i = j
        /\ \A i \in (1 .. n) \ {k} : \E j \in 1 .. (n - 1) : Before(k, j) = i
    BY <1>2, BeforeFacts
  <2>3. b \in [1 .. (n - 1) -> (1 .. n) \ {k}]
    BY <2>2
  <2>4. \A j \in 1 .. (n - 1) : b[j] = Before(k, j)
    OBVIOUS
  <2>5. \A j \in 1 .. (n - 1) : g[j] = Without(f, k)[b[j]]
    <3> TAKE j \in 1 .. (n - 1)
    <3>1. g[j] = list[Before(k, j)].value
      BY <1>1, <1>2
    <3>2. f[Before(k, j)] = list[Before(k, j)].value
      BY <1>2, <2>2
    <3>3. Without(f, k)[Before(k, j)] = f[Before(k, j)]
      <4> HIDE DEF f
      <4>1. DOMAIN f = 1 .. n
        BY <1>2 DEF f
      <4>2. QED
        BY <2>2, <4>1 DEF Without
    <3>4. QED
      BY <2>4, <3>1, <3>2, <3>3
  <2> HIDE DEF b, f, g
  <2>6. QED
    BY <1>3, <1>4, <2>1, <2>2, <2>3, <2>4, <2>5 DEF Renames
<1>6. SumOver(g) = SumOver(Without(f, k))
  BY <1>5, SumRenamed
<1>7. f[k] = c.value
  BY <1>1, <1>2
<1>8. SumOver(f) = c.value + SumOver(g)
  BY <1>4, <1>6, <1>7
<1>9. QED
  BY <1>8 DEF ValueIn, rest

LEMMA CountAppend ==
    ASSUME NEW S, NEW list \in Seq(S), NEW c \in S, NEW x
    PROVE  /\ CountIn(list, x) \in Nat
           /\ CountIn(Append(list, c), x) = CountIn(list, x) + (IF x = c THEN 1 ELSE 0)
<1> DEFINE n == Len(list)
           new == Append(list, c)
           A == {i \in DOMAIN list : list[i] = x}
           B == {i \in DOMAIN new : new[i] = x}
<1>1. /\ n \in Nat /\ DOMAIN list = 1 .. n
      /\ new \in Seq(S) /\ Len(new) = n + 1 /\ DOMAIN new = 1 .. (n + 1)
      /\ \A i \in 1 .. n : new[i] = list[i]
      /\ new[n + 1] = c
  BY AppendProperties, LenProperties
<1> HIDE DEF new, n
<1>2. IsFiniteSet(A) /\ Cardinality(A) \in Nat
  <2>1. A \in SUBSET (1 .. n) /\ IsFiniteSet(1 .. n)
    BY <1>1, FS_Interval
  <2> HIDE DEF A
  <2>2. QED
    BY <2>1, FS_Subset, FS_CardinalityType
<1>3. n + 1 \notin A
  BY <1>1
<1>4. 1 .. (n + 1) = (1 .. n) \cup {n + 1}
  BY <1>1
<1>5. CASE x = c
  <2>1. B = A \cup {n + 1}
    BY <1>1, <1>4, <1>5
  <2> HIDE DEF A, B
  <2>2. Cardinality(B) = Cardinality(A) + 1
    BY <1>2, <1>3, <2>1, FS_AddElement
  <2>3. QED
    BY <1>2, <1>5, <2>2 DEF CountIn, A, B, new
<1>6. CASE x # c
  <2>1. B = A
    BY <1>1, <1>4, <1>6
  <2> HIDE DEF A, B
  <2>2. Cardinality(B) = Cardinality(A) + 0
    BY <1>2, <2>1
  <2>3. QED
    BY <1>2, <1>6, <2>2 DEF CountIn, A, B, new
<1>7. QED
  BY <1>5, <1>6

LEMMA CountRemove ==
    ASSUME NEW S, NEW list \in Seq(S), NEW c, Contains(list, c), NEW x
    PROVE  /\ CountIn(RemoveFirstOf(list, c), x) \in Nat
           /\ CountIn(list, x) =
                  CountIn(RemoveFirstOf(list, c), x) + (IF x = c THEN 1 ELSE 0)
<1> DEFINE n == Len(list)
           rest == RemoveFirstOf(list, c)
           A == {i \in DOMAIN list : list[i] = x}
           B == {i \in DOMAIN rest : rest[i] = x}
<1>1. PICK k \in 1 .. n :
         /\ list[k] = c /\ rest \in Seq(S) /\ Len(rest) = n - 1
         /\ \A j \in 1 .. (n - 1) : rest[j] = list[Before(k, j)]
  BY RemoveFirstOfFacts
<1>2. n \in Nat /\ DOMAIN list = 1 .. n /\ DOMAIN rest = 1 .. (n - 1)
  BY <1>1, LenProperties
<1> HIDE DEF rest, n
<1>3. IsFiniteSet(A) /\ IsFiniteSet(B) /\ Cardinality(A) \in Nat /\ Cardinality(B) \in Nat
  <2>1. A \in SUBSET (1 .. n) /\ IsFiniteSet(1 .. n)
    BY <1>2, FS_Interval
  <2>2. B \in SUBSET (1 .. (n - 1)) /\ IsFiniteSet(1 .. (n - 1))
    BY <1>2, FS_Interval
  <2> HIDE DEF A, B
  <2>3. QED
    BY <2>1, <2>2, FS_Subset, FS_CardinalityType
<1> DEFINE b == [j \in B |-> Before(k, j)]
<1>4. /\ \A j \in 1 .. (n - 1) : Before(k, j) \in (1 .. n) \ {k}
      /\ \A i, j \in 1 .. (n - 1) : Before(k, i) = Before(k, j) => i = j
      /\ \A i \in (1 .. n) \ {k} : \E j \in 1 .. (n - 1) : Before(k, j) = i
  BY <1>2, BeforeFacts
<1>5. b \in Bijection(B, A \ {k})
  <2>1. \A j \in B : Before(k, j) \in A \ {k}
    BY <1>1, <1>2, <1>4
  <2>2. b \in [B -> A \ {k}]
    BY <2>1
  <2>3. \A i, j \in B : b[i] = b[j] => i = j
    BY <1>2, <1>4
  <2>4. \A i \in A \ {k} : \E j \in B : b[j] = i
    <3> TAKE i \in A \ {k}
    <3>1. PICK j \in 1 .. (n - 1) : Before(k, j) = i
      BY <1>2, <1>4
    <3>2. j \in B
      BY <1>1, <1>2, <3>1
    <3>3. QED
      BY <3>1, <3>2
  <2> HIDE DEF b, A, B
  <2>5. QED
    BY <2>2, <2>3, <2>4 DEF Bijection, Injection, Surjection, IsInjective
<1>6. Cardinality(A \ {k}) = Cardinality(B)
  <2>1. ExistsBijection(B, A \ {k})
    BY <1>5 DEF ExistsBijection
  <2> HIDE DEF A, B
  <2>2. QED
    BY <1>3, <2>1, FS_Bijection
<1>7. k \in A <=> x = c
  BY <1>1, <1>2
<1>8. Cardinality(A) = Cardinality(B) + (IF x = c THEN 1 ELSE 0)
  <2> HIDE DEF A, B, b
  <2>1. CASE x = c
    <3>1. Cardinality(A \ {k}) = Cardinality(A) - 1
      BY <1>3, <1>7, <2>1, OneLess
    <3>2. Cardinality(A) = Cardinality(B) + 1
      BY <1>3, <1>6, <3>1
    <3>3. QED
      BY <2>1, <3>2
  <2>2. CASE x # c
    <3>1. A \ {k} = A
      BY <1>7, <2>2
    <3>2. Cardinality(A) = Cardinality(B)
      BY <1>6, <3>1
    <3>3. Cardinality(A) = Cardinality(B) + 0
      BY <1>3, <3>2
    <3>4. QED
      BY <2>2, <3>3
  <2>3. QED
    BY <2>1, <2>2
<1> HIDE DEF A, B
<1>9. QED
  BY <1>3, <1>8 DEF CountIn, A, B, rest

-----------------------------------------------------------------------------
(* Conversions *)

TypeInv ==
    /\ balance \in [Accounts -> 0 .. (WordSize - 1)]
    /\ viewing_hint \in [Accounts -> {NoHint} \cup {HintOf(v) : v \in ViewingKeys}]
    /\ note_commitments \in [Accounts -> Seq(Commitments)]
    /\ tree \in Seq(Commitments)

\* How often the accounts track the commitment c, in all.
Tracked(c) == SumOver([a \in Accounts |-> CountIn(note_commitments[a], c)])

\* The tree holds every commitment as often as the accounts track it: this, for
\* commitments that nobody holds too, is what makes ValueConserved inductive.
TreeIsTracked == \A c : CountIn(tree, c) = Tracked(c)

HintsAreDue == \A a \in Accounts : viewing_hint[a] = NoHint <=> note_commitments[a] = <<>>

TotalKept == SumOver(balance) + ValueIn(tree) = SumOver(Supply)

ConversionInv == TypeInv /\ TreeIsTracked /\ HintsAreDue /\ TotalKept

\* The counts of c in the lists of the accounts can be summed.
LEMMA CountsFinite ==
    ASSUME NEW lists \in [Accounts -> Seq(Commitments)], NEW c
    PROVE  Finite([a \in Accounts |-> CountIn(lists[a], c)])
<1>1. \A a \in Accounts : CountIn(lists[a], c) \in Nat
  <2> TAKE a \in Accounts
  <2>1. lists[a] \in Seq(Commitments)
    OBVIOUS
  <2>2. DOMAIN lists[a] = 1 .. Len(lists[a]) /\ Len(lists[a]) \in Nat
    BY <2>1, LenProperties
  <2>3. {i \in DOMAIN lists[a] : lists[a][i] = c} \in SUBSET (1 .. Len(lists[a]))
    BY <2>2
  <2>4. IsFiniteSet(1 .. Len(lists[a]))
    BY <2>2, FS_Interval
  <2>5. IsFiniteSet({i \in DOMAIN lists[a] : lists[a][i] = c})
    BY <2>3, <2>4, FS_Subset
  <2>6. QED
    BY <2>5, FS_CardinalityType DEF CountIn
<1>2. IsFiniteSet(Accounts)
  BY ConversionAssumption
<1>3. QED
  BY <1>1, <1>2 DEF Finite

LEMMA BalanceFinite ==
    ASSUME NEW b \in [Accounts -> 0 .. (WordSize - 1)]
    PROVE  Finite(b)
<1>1. IsFiniteSet(Accounts) /\ 0 .. (WordSize - 1) \subseteq Nat
  BY ConversionAssumption
<1>2. QED
  BY <1>1 DEF Finite

\* The lists of one account change, and the count of c in them by d.
LEMMA TrackedUpdate ==
    ASSUME NEW old \in [Accounts -> Seq(Commitments)], NEW b \in Accounts,
           NEW list \in Seq(Commitments), NEW c
    PROVE  SumOver([a \in Accounts |-> CountIn(old[a], c)]) + CountIn(list, c)
             = SumOver([a \in Accounts |-> CountIn([old EXCEPT ![b] = list][a], c)])
                 + CountIn(old[b], c)
<1> DEFINE new == [old EXCEPT ![b] = list]
           f == [a \in Accounts |-> CountIn(old[a], c)]
           e == [a \in Accounts |-> CountIn(new[a], c)]
<1>1. new \in [Accounts -> Seq(Commitments)]
  OBVIOUS
<1>2. new[b] = list /\ \A a \in Accounts \ {b} : new[a] = old[a]
  OBVIOUS
<1> HIDE DEF new
<1>3. Finite(f) /\ Finite(e)
  BY <1>1, CountsFinite
<1>4. DOMAIN f = Accounts /\ DOMAIN e = Accounts
  OBVIOUS
<1>5. \A a \in Accounts \ {b} : f[a] = e[a]
  BY <1>2
<1>6. f[b] = CountIn(old[b], c) /\ e[b] = CountIn(list, c)
  BY <1>2
<1>7. SumOver(f) + e[b] = SumOver(e) + f[b]
  <2> HIDE DEF f, e
  <2>1. QED
    BY <1>3, <1>4, <1>5, SumUpdate
<1>8. QED
  BY <1>6, <1>7 DEF new

LEMMA ToAnonStep ==
    ASSUME ConversionInv, NEW a \in Accounts, NEW amount \in Amounts,
           NEW blinding \in Blindings, NEW key \in PublicKeys, NEW viewing_key \in ViewingKeys,
           ConvertPublicToAnon(a, amount, key, blinding, viewing_key)
    PROVE  ConversionInv'
<1>1. PICK c \in Commitments : c = Commitment(amount, key, blinding) /\ c.value = amount
  <2>1. amount \in Nat
    BY ConversionAssumption
  <2>2. Commitment(amount, key, blinding) \in Commitments
    <3>1. NoteOk(amount, key, blinding)
      BY DEF ConvertPublicToAnon, MayConvert
    <3>2. QED
      BY <2>1, <3>1 DEF Commitment, Commitments
  <2>3. Commitment(amount, key, blinding).value = amount
    BY DEF Commitment
  <2>4. QED
    BY <2>2, <2>3
<1>2. /\ balance' = [balance EXCEPT ![a] = @ - amount]
      /\ balance[a] >= amount
      /\ viewing_hint' = [viewing_hint EXCEPT ![a] = HintOf(viewing_key)]
      /\ note_commitments' = [note_commitments EXCEPT ![a] = Append(note_commitments[a], c)]
      /\ tree' = Append(tree, c)
  BY <1>1 DEF ConvertPublicToAnon, MayConvert
<1>3. amount \in Nat /\ balance[a] \in 0 .. (WordSize - 1) /\ WordSize \in Nat
  BY ConversionAssumption DEF ConversionInv, TypeInv
<1>4. balance[a] - amount \in 0 .. (WordSize - 1)
  BY <1>2, <1>3
<1>5. note_commitments[a] \in Seq(Commitments) /\ tree \in Seq(Commitments)
  BY DEF ConversionInv, TypeInv
<1>6. Append(note_commitments[a], c) \in Seq(Commitments) /\ Append(tree, c) \in Seq(Commitments)
      /\ Append(note_commitments[a], c) # <<>>
  BY <1>5, AppendProperties
<1>7. TypeInv'
  <2>1. balance' \in [Accounts -> 0 .. (WordSize - 1)]
    BY <1>2, <1>4 DEF ConversionInv, TypeInv
  <2>2. viewing_hint' \in [Accounts -> {NoHint} \cup {HintOf(v) : v \in ViewingKeys}]
    BY <1>2 DEF ConversionInv, TypeInv
  <2>3. note_commitments' \in [Accounts -> Seq(Commitments)]
    BY <1>2, <1>6 DEF ConversionInv, TypeInv
  <2>4. QED
    BY <1>2, <1>6, <2>1, <2>2, <2>3 DEF TypeInv
<1>8. HintsAreDue'
  <2>1. HintOf(viewing_key) # NoHint
    BY ConversionAssumption DEF HintOf
  <2>2. \A b \in Accounts :
           /\ viewing_hint'[b] = IF b = a THEN HintOf(viewing_key) ELSE viewing_hint[b]
           /\ note_commitments'[b] = IF b = a THEN Append(note_commitments[a], c)
                                              ELSE note_commitments[b]
    BY <1>2 DEF ConversionInv, TypeInv
  <2>3. QED
    BY <1>6, <2>1, <2>2 DEF HintsAreDue, ConversionInv
<1>9. TreeIsTracked'
  <2> SUFFICES ASSUME NEW x PROVE CountIn(tree', x) = Tracked(x)'
    BY DEF TreeIsTracked
  <2> DEFINE d == IF x = c THEN 1 ELSE 0
  <2>1. CountIn(tree', x) = CountIn(tree, x) + d /\ CountIn(tree, x) \in Nat
    BY <1>2, <1>5, CountAppend
  <2>2. /\ CountIn(Append(note_commitments[a], c), x) = CountIn(note_commitments[a], x) + d
        /\ CountIn(note_commitments[a], x) \in Nat
    BY <1>5, CountAppend
  <2>3. Tracked(x) + CountIn(Append(note_commitments[a], c), x)
            = Tracked(x)' + CountIn(note_commitments[a], x)
    <3>1. PICK old \in [Accounts -> Seq(Commitments)] : old = note_commitments
      BY DEF ConversionInv, TypeInv
    <3>2. PICK new \in Seq(Commitments) : new = Append(note_commitments[a], c)
      BY <1>6
    <3>3. SumOver([b \in Accounts |-> CountIn(old[b], x)]) + CountIn(new, x)
            = SumOver([b \in Accounts |-> CountIn([old EXCEPT ![a] = new][b], x)])
                + CountIn(old[a], x)
      BY TrackedUpdate
    <3>4. [old EXCEPT ![a] = new] = note_commitments'
      BY <1>2, <3>1, <3>2
    <3>5. QED
      BY <3>1, <3>2, <3>3, <3>4 DEF Tracked
  <2>4. Tracked(x) = CountIn(tree, x)
    BY DEF ConversionInv, TreeIsTracked
  <2>5. Tracked(x)' \in Nat
    <3>1. note_commitments' \in [Accounts -> Seq(Commitments)]
      BY <1>7 DEF TypeInv
    <3>2. QED
      BY <3>1, CountsFinite, SumNat DEF Tracked
  <2>6. d \in Nat
    OBVIOUS
  <2> HIDE DEF d
  <2>7. QED
    BY <2>1, <2>2, <2>3, <2>4, <2>5, <2>6
<1>10. TotalKept'
  <2>1. ValueIn(tree') = amount + ValueIn(tree) /\ ValueIn(tree) \in Nat
    BY <1>1, <1>2, <1>5, ValueAppend, ValuesFinite
  <2>2. Finite(balance) /\ Finite(balance')
    BY <1>7, BalanceFinite DEF ConversionInv, TypeInv
  <2>3. DOMAIN balance = Accounts /\ DOMAIN balance' = Accounts
        /\ balance'[a] = balance[a] - amount
        /\ \A b \in Accounts \ {a} : balance[b] = balance'[b]
    BY <1>2 DEF ConversionInv, TypeInv
  <2>4. SumOver(balance) + balance'[a] = SumOver(balance') + balance[a]
    BY <2>2, <2>3, SumUpdate
  <2>5. SumOver(balance) \in Nat /\ SumOver(balance') \in Nat
    BY <2>2, SumNat
  <2>6. SumOver(balance') = SumOver(balance) - amount
    BY <1>3, <2>3, <2>4, <2>5
  <2>7. SumOver(balance) + ValueIn(tree) = SumOver(Supply)
    BY DEF ConversionInv, TotalKept
  <2>8. SumOver(balance') + ValueIn(tree') = SumOver(Supply)
    BY <1>3, <2>1, <2>5, <2>6, <2>7
  <2>9. ValueIn(tree)' = ValueIn(tree')
    BY DEF ValueIn
  <2>10. QED
    BY <2>8, <2>9 DEF TotalKept
<1>11. QED
  BY <1>7, <1>8, <1>9, <1>10 DEF ConversionInv

LEMMA ToPublicStep ==
    ASSUME ConversionInv, NEW a \in Accounts, NEW amount \in Amounts,
           NEW blinding \in Blindings, NEW key \in SpendingKeys, NEW proof,
           ConvertAnonToPublic(a, amount, key, blinding, proof)
    PROVE  ConversionInv'
<1>1. PICK c \in Commitments : c = Commitment(amount, PublicKey(key), blinding)
                               /\ c.value = amount
  <2>1. amount \in Nat
    BY ConversionAssumption
  <2>2. PublicKey(key) \in PublicKeys
    BY DEF PublicKey, PublicKeys
  <2>3. Commitment(amount, PublicKey(key), blinding) \in Commitments
    <3>1. NoteOk(amount, PublicKey(key), blinding)
      BY DEF ConvertAnonToPublic, MayConsume, Commitment
    <3>2. QED
      BY <2>1, <2>2, <3>1 DEF Commitment, Commitments
  <2>4. Commitment(amount, PublicKey(key), blinding).value = amount
    BY DEF Commitment
  <2>5. QED
    BY <2>3, <2>4
<1> DEFINE list == note_commitments[a]
           rest == RemoveFirstOf(list, c)
<1>2. /\ balance' = [balance EXCEPT ![a] = @ + amount]
      /\ balance[a] + amount < WordSize
      /\ Contains(list, c) /\ Contains(tree, c)
      /\ viewing_hint' = [viewing_hint EXCEPT ![a] =
             IF rest = <<>> THEN NoHint ELSE viewing_hint[a]]
      /\ note_commitments' = [note_commitments EXCEPT ![a] = rest]
      /\ tree' = RemoveFirstOf(tree, c)
  BY <1>1 DEF ConvertAnonToPublic, MayConsume, ConsumeTracked
<1>3. amount \in Nat /\ balance[a] \in 0 .. (WordSize - 1) /\ WordSize \in Nat
  BY ConversionAssumption DEF ConversionInv, TypeInv
<1>4. balance[a] + amount \in 0 .. (WordSize - 1)
  BY <1>2, <1>3
<1>5. list \in Seq(Commitments) /\ tree \in Seq(Commitments)
  BY DEF ConversionInv, TypeInv
<1>6. rest \in Seq(Commitments) /\ RemoveFirstOf(tree, c) \in Seq(Commitments)
  BY <1>2, <1>5, RemoveFirstOfFacts
<1> HIDE DEF rest
<1>7. TypeInv'
  <2>1. balance' \in [Accounts -> 0 .. (WordSize - 1)]
    BY <1>2, <1>4 DEF ConversionInv, TypeInv
  <2>2. viewing_hint' \in [Accounts -> {NoHint} \cup {HintOf(v) : v \in ViewingKeys}]
    BY <1>2 DEF ConversionInv, TypeInv
  <2>3. note_commitments' \in [Accounts -> Seq(Commitments)]
    BY <1>2, <1>6 DEF ConversionInv, TypeInv
  <2>4. QED
    BY <1>2, <1>6, <2>1, <2>2, <2>3 DEF TypeInv
<1>8. HintsAreDue'
  <2>1. list # <<>>
    BY <1>2, <1>5 DEF Contains
  <2>2. viewing_hint[a] # NoHint
    BY <2>1 DEF ConversionInv, HintsAreDue
  <2>3. \A b \in Accounts :
           /\ viewing_hint'[b] = IF b = a THEN IF rest = <<>> THEN NoHint ELSE viewing_hint[a]
                                          ELSE viewing_hint[b]
           /\ note_commitments'[b] = IF b = a THEN rest ELSE note_commitments[b]
    BY <1>2 DEF ConversionInv, TypeInv
  <2>4. QED
    BY <2>2, <2>3 DEF HintsAreDue, ConversionInv
<1>9. TreeIsTracked'
  <2> SUFFICES ASSUME NEW x PROVE CountIn(tree', x) = Tracked(x)'
    BY DEF TreeIsTracked
  <2> DEFINE d == IF x = c THEN 1 ELSE 0
  <2>1. CountIn(tree, x) = CountIn(tree', x) + d /\ CountIn(tree', x) \in Nat
    BY <1>2, <1>5, CountRemove
  <2>2. CountIn(list, x) = CountIn(rest, x) + d /\ CountIn(rest, x) \in Nat
    BY <1>2, <1>5, CountRemove DEF rest
  <2>3. Tracked(x) + CountIn(rest, x) = Tracked(x)' + CountIn(list, x)
    <3>1. PICK old \in [Accounts -> Seq(Commitments)] : old = note_commitments
      BY DEF ConversionInv, TypeInv
    <3>2. PICK new \in Seq(Commitments) : new = rest
      BY <1>6
    <3>3. SumOver([b \in Accounts |-> CountIn(old[b], x)]) + CountIn(new, x)
            = SumOver([b \in Accounts |-> CountIn([old EXCEPT ![a] = new][b], x)])
                + CountIn(old[a], x)
      BY TrackedUpdate
    <3>4. [old EXCEPT ![a] = new] = note_commitments'
      BY <1>2, <3>1, <3>2
    <3>5. QED
      BY <3>1, <3>2, <3>3, <3>4 DEF Tracked
  <2>4. Tracked(x) = CountIn(tree, x)
    BY DEF ConversionInv, TreeIsTracked
  <2>5. Tracked(x)' \in Nat
    <3>1. note_commitments' \in [Accounts -> Seq(Commitments)]
      BY <1>7 DEF TypeInv
    <3>2. QED
      BY <3>1, CountsFinite, SumNat DEF Tracked
  <2>6. d \in Nat
    OBVIOUS
  <2> HIDE DEF d, list
  <2>7. PICK n1, n2 : n1 = CountIn(tree', x) /\ n2 = CountIn(rest, x)
    OBVIOUS
  <2>8. (n1 + d) + n2 = Tracked(x)' + (n2 + d) /\ n1 \in Nat /\ n2 \in Nat
    BY <2>1, <2>2, <2>3, <2>4, <2>7
  <2>9. QED
    BY <2>5, <2>6, <2>7, <2>8
<1>10. TotalKept'
  <2>1. ValueIn(tree) = amount + ValueIn(tree') /\ ValueIn(tree') \in Nat
    BY <1>1, <1>2, <1>5, <1>6, ValueRemove, ValuesFinite
  <2>2. Finite(balance) /\ Finite(balance')
    BY <1>7, BalanceFinite DEF ConversionInv, TypeInv
  <2>3. DOMAIN balance = Accounts /\ DOMAIN balance' = Accounts
        /\ balance'[a] = balance[a] + amount
        /\ \A b \in Accounts \ {a} : balance[b] = balance'[b]
    BY <1>2 DEF ConversionInv, TypeInv
  <2>4. SumOver(balance) + balance'[a] = SumOver(balance') + balance[a]
    BY <2>2, <2>3, SumUpdate
  <2>5. SumOver(balance) \in Nat /\ SumOver(balance') \in Nat
    BY <2>2, SumNat
  <2>6. SumOver(balance') = SumOver(balance) + amount
    BY <1>3, <2>3, <2>4, <2>5
  <2>7. SumOver(balance) + ValueIn(tree) = SumOver(Supply)
    BY DEF ConversionInv, TotalKept
  <2>8. SumOver(balance') + ValueIn(tree') = SumOver(Supply)
    BY <1>3, <2>1, <2>5, <2>6, <2>7
  <2>9. ValueIn(tree)' = ValueIn(tree')
    BY DEF ValueIn
  <2>10. QED
    BY <2>8, <2>9 DEF TotalKept
<1>11. QED
  BY <1>7, <1>8, <1>9, <1>10 DEF ConversionInv

LEMMA InitInv == Init => ConversionInv
<1> SUFFICES ASSUME Init PROVE ConversionInv
  OBVIOUS
<1>1. TypeInv
  BY ConversionAssumption DEF Init, TypeInv
<1>2. HintsAreDue
  BY DEF Init, HintsAreDue
<1>3. IsFiniteSet({}) /\ Cardinality({}) = 0
  BY FS_EmptySet
<1>4. \A c : CountIn(<<>>, c) = 0
  BY <1>3 DEF CountIn
<1>5. TreeIsTracked
  <2> SUFFICES ASSUME NEW c PROVE CountIn(tree, c) = Tracked(c)
    BY DEF TreeIsTracked
  <2>1. [a \in Accounts |-> CountIn(note_commitments[a], c)] = [a \in Accounts |-> 0]
    BY <1>4 DEF Init
  <2>2. Tracked(c) = 0
    BY <2>1, SumOfZeros, ConversionAssumption DEF Tracked
  <2>3. QED
    BY <1>4, <2>2 DEF Init
<1>6. TotalKept
  <2>1. ValueIn(tree) = 0
    BY SumEmpty DEF Init, ValueIn
  <2>2. SumOver(Supply) \in Nat
    BY BalanceFinite, SumNat, ConversionAssumption
  <2>3. QED
    BY <2>1, <2>2 DEF Init, TotalKept
<1>7. QED
  BY <1>1, <1>2, <1>5, <1>6 DEF ConversionInv

LEMMA ConversionAlways == Spec => []ConversionInv
<1>1. ASSUME ConversionInv, UNCHANGED <<balance, viewing_hint, note_commitments, tree>>
      PROVE  ConversionInv'
  BY <1>1 DEF ConversionInv, TypeInv, HintsAreDue, TreeIsTracked, TotalKept, Tracked, ValueIn
<1>2. ConversionInv /\ [Next]_vars => ConversionInv'
  <2> SUFFICES ASSUME ConversionInv, [Next]_vars PROVE ConversionInv'
    OBVIOUS
  <2>1. CASE UNCHANGED vars
    BY <1>1, <2>1 DEF vars
  <2>2. CASE Next
    BY <1>1, <2>2, ToAnonStep, ToPublicStep DEF Next, MakeProof, ForgetProof
  <2>3. QED
    BY <2>1, <2>2
<1>3. QED
  BY <1>2, InitInv, PTL DEF Spec

\* For any accounts and amounts, any order of conversions and any stale, repeated or
\* foreign proofs: convert_public_to_anon and convert_anon_to_public neither create
\* nor destroy value, keep balances within a u64, keep the tree and the lists of the
\* accounts the same multiset, and an account has a hint exactly while it has notes.
THEOREM ConversionsConserveValue == Spec => []ValueConserved
<1>1. ConversionInv => ValueConserved
  BY DEF ConversionInv, ValueConserved, TypeInv, TotalKept, ValueIn, TreeIsTracked,
     Tracked, HintsAreDue
<1>2. QED
  BY <1>1, ConversionAlways, PTL

-----------------------------------------------------------------------------
(* Merkle trees: the loops of NoteMerkleTree have a run *)

\* IndexAt
HalvedIndex(leaf_index, k, below) ==
    below \div 2

IsIndex(leaf_index, n, f) ==
    f = [k \in 1 .. n |-> IF k = 1 THEN leaf_index ELSE HalvedIndex(leaf_index, k, f[k - 1])]

LEMMA IndexExists ==
    ASSUME NEW leaf_index, NEW n \in Nat, n >= 1
    PROVE  \E f : IsIndex(leaf_index, n, f)
<1> DEFINE Bad == {m \in 1 .. n : ~ \E f : IsIndex(leaf_index, m, f)}
<1> SUFFICES ASSUME Bad # {} PROVE FALSE
  <2>1. n \in 1 .. n
    OBVIOUS
  <2>2. QED
    BY <2>1
<1>1. PICK m \in Bad : \A j \in Bad : m <= j
  <2>1. Bad \in SUBSET Nat
    OBVIOUS
  <2> HIDE DEF Bad
  <2>2. QED
    BY <2>1, LeastNatural
<1>2. m \in Nat /\ m \in 1 .. n
  OBVIOUS
<1>3. m # 1
  <2> SUFFICES ASSUME m = 1 PROVE FALSE
    OBVIOUS
  <2> DEFINE f == [k \in 1 .. 1 |-> leaf_index]
  <2>1. \A k \in 1 .. 1 : k = 1
    OBVIOUS
  <2>2. f = [k \in 1 .. 1 |-> IF k = 1 THEN leaf_index ELSE HalvedIndex(leaf_index, k, f[k - 1])]
    BY <2>1
  <2>3. IsIndex(leaf_index, 1, f)
    BY <2>2 DEF IsIndex
  <2>4. QED
    BY <2>3
<1>4. m - 1 \in 1 .. n /\ m - 1 \notin Bad
  <2>1. m - 1 \in 1 .. n /\ ~(m <= m - 1)
    BY <1>2, <1>3
  <2> HIDE DEF Bad
  <2>2. QED
    BY <1>1, <2>1
<1>5. PICK f : IsIndex(leaf_index, m - 1, f)
  BY <1>4
<1> DEFINE E(k, g) == IF k = 1 THEN leaf_index ELSE HalvedIndex(leaf_index, k, g[k - 1])
           g == [k \in 1 .. m |-> IF k = m THEN HalvedIndex(leaf_index, m, f[m - 1]) ELSE f[k]]
<1>6. \A k \in 1 .. (m - 1) : f[k] = E(k, f)
  BY <1>5 DEF IsIndex
<1>7. ASSUME NEW k \in 1 .. m PROVE g[k] = E(k, g)
  <2>1. CASE k = m
    <3>1. m - 1 \in 1 .. m /\ m - 1 # m /\ m # 1
      BY <1>2, <1>3
    <3>2. g[m - 1] = f[m - 1] /\ g[m] = HalvedIndex(leaf_index, m, f[m - 1])
      BY <3>1
    <3> HIDE DEF g
    <3>3. QED
      BY <2>1, <3>1, <3>2
  <2>2. CASE k # m /\ k = 1
    <3>1. k \in 1 .. (m - 1)
      BY <1>2, <1>3, <2>2
    <3>2. g[k] = f[k]
      BY <2>2
    <3>3. f[k] = leaf_index
      BY <1>6, <2>2, <3>1
    <3> HIDE DEF g
    <3>4. QED
      BY <2>2, <3>2, <3>3
  <2>3. CASE k # m /\ k # 1
    <3>1. k \in 1 .. (m - 1) /\ k - 1 \in 1 .. m /\ k - 1 # m
      BY <1>2, <1>3, <2>3
    <3>2. g[k] = f[k] /\ g[k - 1] = f[k - 1]
      BY <2>3, <3>1
    <3>3. f[k] = HalvedIndex(leaf_index, k, f[k - 1])
      BY <1>6, <2>3, <3>1
    <3> HIDE DEF g
    <3>4. QED
      BY <2>3, <3>2, <3>3
  <2>4. QED
    BY <2>1, <2>2, <2>3
<1>8. g = [k \in 1 .. m |-> E(k, g)]
  BY <1>7
<1>9. IsIndex(leaf_index, m, g)
  <2> HIDE DEF g
  <2>1. QED
    BY <1>8 DEF IsIndex
<1>10. QED
  BY <1>9

\* RootFromProof, for the indices at
HashUp(proof, at, k, below) ==
    IF at[k] % 2 = 0 THEN HashInternal(below, proof.siblings[k])
    ELSE HashInternal(proof.siblings[k], below)

IsHash(proof, at, n, f) ==
    f = [k \in 0 .. n |-> IF k = 0 THEN HashLeaf(proof.leaf) ELSE HashUp(proof, at, k, f[k - 1])]

LEMMA HashExists ==
    ASSUME NEW proof, NEW at, NEW n \in Nat, n >= 0
    PROVE  \E f : IsHash(proof, at, n, f)
<1> DEFINE Bad == {m \in 0 .. n : ~ \E f : IsHash(proof, at, m, f)}
<1> SUFFICES ASSUME Bad # {} PROVE FALSE
  <2>1. n \in 0 .. n
    OBVIOUS
  <2>2. QED
    BY <2>1
<1>1. PICK m \in Bad : \A j \in Bad : m <= j
  <2>1. Bad \in SUBSET Nat
    OBVIOUS
  <2> HIDE DEF Bad
  <2>2. QED
    BY <2>1, LeastNatural
<1>2. m \in Nat /\ m \in 0 .. n
  OBVIOUS
<1>3. m # 0
  <2> SUFFICES ASSUME m = 0 PROVE FALSE
    OBVIOUS
  <2> DEFINE f == [k \in 0 .. 0 |-> HashLeaf(proof.leaf)]
  <2>1. \A k \in 0 .. 0 : k = 0
    OBVIOUS
  <2>2. f = [k \in 0 .. 0 |-> IF k = 0 THEN HashLeaf(proof.leaf) ELSE HashUp(proof, at, k, f[k - 1])]
    BY <2>1
  <2>3. IsHash(proof, at, 0, f)
    BY <2>2 DEF IsHash
  <2>4. QED
    BY <2>3
<1>4. m - 1 \in 0 .. n /\ m - 1 \notin Bad
  <2>1. m - 1 \in 0 .. n /\ ~(m <= m - 1)
    BY <1>2, <1>3
  <2> HIDE DEF Bad
  <2>2. QED
    BY <1>1, <2>1
<1>5. PICK f : IsHash(proof, at, m - 1, f)
  BY <1>4
<1> DEFINE E(k, g) == IF k = 0 THEN HashLeaf(proof.leaf) ELSE HashUp(proof, at, k, g[k - 1])
           g == [k \in 0 .. m |-> IF k = m THEN HashUp(proof, at, m, f[m - 1]) ELSE f[k]]
<1>6. \A k \in 0 .. (m - 1) : f[k] = E(k, f)
  BY <1>5 DEF IsHash
<1>7. ASSUME NEW k \in 0 .. m PROVE g[k] = E(k, g)
  <2>1. CASE k = m
    <3>1. m - 1 \in 0 .. m /\ m - 1 # m /\ m # 0
      BY <1>2, <1>3
    <3>2. g[m - 1] = f[m - 1] /\ g[m] = HashUp(proof, at, m, f[m - 1])
      BY <3>1
    <3> HIDE DEF g
    <3>3. QED
      BY <2>1, <3>1, <3>2
  <2>2. CASE k # m /\ k = 0
    <3>1. k \in 0 .. (m - 1)
      BY <1>2, <1>3, <2>2
    <3>2. g[k] = f[k]
      BY <2>2
    <3>3. f[k] = HashLeaf(proof.leaf)
      BY <1>6, <2>2, <3>1
    <3> HIDE DEF g
    <3>4. QED
      BY <2>2, <3>2, <3>3
  <2>3. CASE k # m /\ k # 0
    <3>1. k \in 0 .. (m - 1) /\ k - 1 \in 0 .. m /\ k - 1 # m
      BY <1>2, <1>3, <2>3
    <3>2. g[k] = f[k] /\ g[k - 1] = f[k - 1]
      BY <2>3, <3>1
    <3>3. f[k] = HashUp(proof, at, k, f[k - 1])
      BY <1>6, <2>3, <3>1
    <3> HIDE DEF g
    <3>4. QED
      BY <2>3, <3>2, <3>3
  <2>4. QED
    BY <2>1, <2>2, <2>3
<1>8. g = [k \in 0 .. m |-> E(k, g)]
  BY <1>7
<1>9. IsHash(proof, at, m, g)
  <2> HIDE DEF g
  <2>1. QED
    BY <1>8 DEF IsHash
<1>10. QED
  BY <1>9

\* Levels
LevelUp(leaves, k, below) ==
    IF Len(below) > 1 THEN BuildNextLevel(below) ELSE below

IsLevels(leaves, n, f) ==
    f = [k \in 1 .. n |-> IF k = 1 THEN [i \in DOMAIN leaves |-> HashLeaf(leaves[i])] ELSE LevelUp(leaves, k, f[k - 1])]

LEMMA LevelsExist ==
    ASSUME NEW leaves, NEW n \in Nat, n >= 1
    PROVE  \E f : IsLevels(leaves, n, f)
<1> DEFINE Bad == {m \in 1 .. n : ~ \E f : IsLevels(leaves, m, f)}
<1> SUFFICES ASSUME Bad # {} PROVE FALSE
  <2>1. n \in 1 .. n
    OBVIOUS
  <2>2. QED
    BY <2>1
<1>1. PICK m \in Bad : \A j \in Bad : m <= j
  <2>1. Bad \in SUBSET Nat
    OBVIOUS
  <2> HIDE DEF Bad
  <2>2. QED
    BY <2>1, LeastNatural
<1>2. m \in Nat /\ m \in 1 .. n
  OBVIOUS
<1>3. m # 1
  <2> SUFFICES ASSUME m = 1 PROVE FALSE
    OBVIOUS
  <2> DEFINE f == [k \in 1 .. 1 |-> [i \in DOMAIN leaves |-> HashLeaf(leaves[i])]]
  <2>1. \A k \in 1 .. 1 : k = 1
    OBVIOUS
  <2>2. f = [k \in 1 .. 1 |-> IF k = 1 THEN [i \in DOMAIN leaves |-> HashLeaf(leaves[i])] ELSE LevelUp(leaves, k, f[k - 1])]
    BY <2>1
  <2>3. IsLevels(leaves, 1, f)
    BY <2>2 DEF IsLevels
  <2>4. QED
    BY <2>3
<1>4. m - 1 \in 1 .. n /\ m - 1 \notin Bad
  <2>1. m - 1 \in 1 .. n /\ ~(m <= m - 1)
    BY <1>2, <1>3
  <2> HIDE DEF Bad
  <2>2. QED
    BY <1>1, <2>1
<1>5. PICK f : IsLevels(leaves, m - 1, f)
  BY <1>4
<1> DEFINE E(k, g) == IF k = 1 THEN [i \in DOMAIN leaves |-> HashLeaf(leaves[i])] ELSE LevelUp(leaves, k, g[k - 1])
           g == [k \in 1 .. m |-> IF k = m THEN LevelUp(leaves, m, f[m - 1]) ELSE f[k]]
<1>6. \A k \in 1 .. (m - 1) : f[k] = E(k, f)
  BY <1>5 DEF IsLevels
<1>7. ASSUME NEW k \in 1 .. m PROVE g[k] = E(k, g)
  <2>1. CASE k = m
    <3>1. m - 1 \in 1 .. m /\ m - 1 # m /\ m # 1
      BY <1>2, <1>3
    <3>2. g[m - 1] = f[m - 1] /\ g[m] = LevelUp(leaves, m, f[m - 1])
      BY <3>1
    <3> HIDE DEF g
    <3>3. QED
      BY <2>1, <3>1, <3>2
  <2>2. CASE k # m /\ k = 1
    <3>1. k \in 1 .. (m - 1)
      BY <1>2, <1>3, <2>2
    <3>2. g[k] = f[k]
      BY <2>2
    <3>3. f[k] = [i \in DOMAIN leaves |-> HashLeaf(leaves[i])]
      BY <1>6, <2>2, <3>1
    <3> HIDE DEF g
    <3>4. QED
      BY <2>2, <3>2, <3>3
  <2>3. CASE k # m /\ k # 1
    <3>1. k \in 1 .. (m - 1) /\ k - 1 \in 1 .. m /\ k - 1 # m
      BY <1>2, <1>3, <2>3
    <3>2. g[k] = f[k] /\ g[k - 1] = f[k - 1]
      BY <2>3, <3>1
    <3>3. f[k] = LevelUp(leaves, k, f[k - 1])
      BY <1>6, <2>3, <3>1
    <3> HIDE DEF g
    <3>4. QED
      BY <2>3, <3>2, <3>3
  <2>4. QED
    BY <2>1, <2>2, <2>3
<1>8. g = [k \in 1 .. m |-> E(k, g)]
  BY <1>7
<1>9. IsLevels(leaves, m, g)
  <2> HIDE DEF g
  <2>1. QED
    BY <1>8 DEF IsLevels
<1>10. QED
  BY <1>9

LEMMA LoopsRun ==
    /\ \A leaf_index : \A n \in Nat \ {0} : IsIndex(leaf_index, n, IndexAt(leaf_index, n))
    /\ \A proof : Len(proof.siblings) \in Nat =>
           \E hash : /\ IsHash(proof, IndexAt(proof.leaf_index, Len(proof.siblings)),
                               Len(proof.siblings), hash)
                     /\ RootFromProof(proof) = hash[Len(proof.siblings)]
    /\ \A leaves : Len(leaves) \in Nat \ {0} => IsLevels(leaves, Len(leaves), Levels(leaves))
<1>1. ASSUME NEW leaf_index, NEW n \in Nat \ {0}
      PROVE  IsIndex(leaf_index, n, IndexAt(leaf_index, n))
  <2>1. IndexAt(leaf_index, n) = CHOOSE f : IsIndex(leaf_index, n, f)
    BY DEF IndexAt, IsIndex, HalvedIndex
  <2>2. \E f : IsIndex(leaf_index, n, f)
    BY IndexExists
  <2>3. QED
    BY <2>1, <2>2
<1>2. ASSUME NEW proof, Len(proof.siblings) \in Nat
      PROVE  \E hash : /\ IsHash(proof, IndexAt(proof.leaf_index, Len(proof.siblings)),
                                 Len(proof.siblings), hash)
                       /\ RootFromProof(proof) = hash[Len(proof.siblings)]
  <2> DEFINE at == IndexAt(proof.leaf_index, Len(proof.siblings))
             n == Len(proof.siblings)
  <2>1. RootFromProof(proof) = (CHOOSE f : IsHash(proof, at, n, f))[n]
    BY DEF RootFromProof, IsHash, HashUp
  <2>2. \E f : IsHash(proof, at, n, f)
    <3>1. n \in Nat /\ n >= 0
      BY <1>2
    <3> HIDE DEF at, n
    <3>2. QED
      BY <3>1, HashExists
  <2> HIDE DEF at, n
  <2>3. IsHash(proof, at, n, CHOOSE f : IsHash(proof, at, n, f))
    BY <2>2
  <2>4. QED
    BY <2>1, <2>3 DEF at, n
<1>3. ASSUME NEW leaves, Len(leaves) \in Nat \ {0}
      PROVE  IsLevels(leaves, Len(leaves), Levels(leaves))
  <2>1. Levels(leaves) = CHOOSE f : IsLevels(leaves, Len(leaves), f)
    BY DEF Levels, IsLevels, LevelUp
  <2>2. \E f : IsLevels(leaves, Len(leaves), f)
    <3>1. Len(leaves) \in Nat /\ Len(leaves) >= 1
      BY <1>3
    <3>2. QED
      BY <3>1, LevelsExist
  <2>3. QED
    BY <2>1, <2>2
<1>4. QED
  BY <1>1, <1>2, <1>3

LEMMA FunctionLen ==
    ASSUME NEW N \in Nat, NEW g, g = [i \in 1 .. N |-> g[i]]
    PROVE  Len(g) = N /\ DOMAIN g = 1 .. N
<1> DEFINE R == {g[i] : i \in 1 .. N}
<1>1. DOMAIN g = 1 .. N
  OBVIOUS
<1>2. g \in [1 .. N -> R]
  <2>1. \A i \in 1 .. N : g[i] \in R
    OBVIOUS
  <2> HIDE DEF R
  <2>2. QED
    BY <2>1
<1> HIDE DEF R
<1>3. g \in Seq(R)
  BY <1>2, SeqDef
<1>4. DOMAIN g = 1 .. Len(g) /\ Len(g) \in Nat
  BY <1>3, LenProperties
<1>5. 1 .. N = 1 .. Len(g)
  BY <1>1, <1>4
<1>6. Len(g) = N
  <2>1. \A k \in Nat : k \in 1 .. N <=> k \in 1 .. Len(g)
    BY <1>5
  <2>2. N >= 1 => N <= Len(g)
    BY <1>4, <2>1
  <2>3. Len(g) >= 1 => Len(g) <= N
    BY <1>4, <2>1
  <2>4. QED
    BY <1>4, <2>2, <2>3
<1>7. QED
  BY <1>1, <1>6

\* x is a nonempty sequence of at most n elements.
IsLevel(x, n) == \E N \in 1 .. n : Len(x) = N /\ x = [i \in 1 .. N |-> x[i]]

LEMMA LevelFacts ==
    ASSUME NEW S, NEW leaves \in Seq(S), leaves # <<>>
    PROVE  LET L == Levels(leaves)
               n == Len(leaves)
           IN  /\ n \in Nat \ {0}
               /\ L[1] = [i \in 1 .. n |-> HashLeaf(leaves[i])]
               /\ \A k \in 2 .. n : L[k] = LevelUp(leaves, k, L[k - 1])
               /\ \A k \in 1 .. n : IsLevel(L[k], n - k + 1)
               /\ DOMAIN L = 1 .. n
<1> DEFINE L == Levels(leaves)
           n == Len(leaves)
<1>1. n \in Nat \ {0} /\ DOMAIN leaves = 1 .. n
  BY LenProperties, EmptySeq
<1>2. L = [k \in 1 .. n |-> IF k = 1 THEN [i \in DOMAIN leaves |-> HashLeaf(leaves[i])]
                            ELSE LevelUp(leaves, k, L[k - 1])]
  BY <1>1, LoopsRun DEF IsLevels
<1> HIDE DEF L, n
<1>3. L[1] = [i \in 1 .. n |-> HashLeaf(leaves[i])]
  <2>1. 1 \in 1 .. n
    BY <1>1
  <2>2. QED
    BY <1>1, <1>2, <2>1
<1>4. \A k \in 2 .. n : L[k] = LevelUp(leaves, k, L[k - 1])
  <2> TAKE k \in 2 .. n
  <2>1. k \in 1 .. n /\ k # 1
    BY <1>1
  <2>2. QED
    BY <1>2, <2>1
<1> DEFINE Bad == {k \in 1 .. n : ~ IsLevel(L[k], n - k + 1)}
<1>5. Bad = {}
  <2> SUFFICES ASSUME Bad # {} PROVE FALSE
    OBVIOUS
  <2>1. PICK k \in Bad : \A j \in Bad : k <= j
    <3>1. Bad \in SUBSET Nat
      OBVIOUS
    <3> HIDE DEF Bad
    <3>2. QED
      BY <3>1, LeastNatural
  <2>2. k \in Nat /\ k \in 1 .. n
    OBVIOUS
  <2>3. k # 1
    <3> SUFFICES ASSUME k = 1 PROVE FALSE
      OBVIOUS
    <3>1. L[1] = [i \in 1 .. n |-> L[1][i]]
      BY <1>3
    <3>2. Len(L[1]) = n
      BY <1>1, <3>1, FunctionLen
    <3>3. n \in 1 .. (n - 1 + 1)
      BY <1>1
    <3>4. IsLevel(L[1], n - 1 + 1)
      BY <3>1, <3>2, <3>3 DEF IsLevel
    <3>5. QED
      BY <3>4
  <2>4. k - 1 \in 1 .. n /\ k \in 2 .. n /\ ~(k <= k - 1)
    BY <1>1, <2>2, <2>3
  <2>5. IsLevel(L[k - 1], n - (k - 1) + 1)
    <3>1. k - 1 \notin Bad
      <4> HIDE DEF Bad
      <4>1. QED
        BY <2>1, <2>4
    <3>2. QED
      BY <2>4, <3>1
  <2>6. PICK N \in 1 .. (n - (k - 1) + 1) :
            Len(L[k - 1]) = N /\ L[k - 1] = [i \in 1 .. N |-> L[k - 1][i]]
    BY <2>5 DEF IsLevel
  <2>7. N \in Nat /\ N >= 1 /\ N <= n - k + 2
    BY <1>1, <2>2, <2>6
  <2>8. L[k] = LevelUp(leaves, k, L[k - 1])
    BY <1>4, <2>4
  <2>9. CASE N = 1
    <3>1. L[k] = L[k - 1]
      BY <2>6, <2>8, <2>9 DEF LevelUp
    <3>2. 1 \in 1 .. (n - k + 1)
      BY <1>1, <2>2
    <3>3. IsLevel(L[k], n - k + 1)
      BY <2>6, <2>9, <3>1, <3>2 DEF IsLevel
    <3>4. QED
      BY <2>1, <3>3
  <2>10. CASE N > 1
    <3> DEFINE M == (N + 1) \div 2
    <3>1. M \in Nat /\ M >= 1 /\ M <= N - 1
      BY <2>7, <2>10
    <3>2. L[k] = BuildNextLevel(L[k - 1])
      BY <2>6, <2>8, <2>10 DEF LevelUp
    <3>3. L[k] = [i \in 1 .. M |-> L[k][i]]
      BY <2>6, <3>2 DEF BuildNextLevel
    <3> HIDE DEF M
    <3>4. Len(L[k]) = M
      BY <3>1, <3>3, FunctionLen
    <3>5. M \in 1 .. (n - k + 1)
      BY <1>1, <2>2, <2>7, <3>1
    <3>6. IsLevel(L[k], n - k + 1)
      BY <3>3, <3>4, <3>5 DEF IsLevel
    <3>7. QED
      BY <2>1, <3>6
  <2>11. QED
    BY <2>7, <2>9, <2>10
<1>6. \A k \in 1 .. n : IsLevel(L[k], n - k + 1)
  BY <1>5
<1>7. DOMAIN L = 1 .. n
  BY <1>2
<1>8. QED
  BY <1>1, <1>3, <1>4, <1>6, <1>7 DEF L, n

LEMMA HashesDiffer ==
    /\ \A x, y : HashLeaf(x) = HashLeaf(y) => x = y
    /\ \A x, l, r : HashLeaf(x) # HashInternal(l, r)
    /\ \A a, b, c, d : HashInternal(a, b) = HashInternal(c, d) => a = c /\ b = d
    /\ \A x : HashLeaf(x) # EmptyTree
    /\ \A l, r : HashInternal(l, r) # EmptyTree
BY DEF HashLeaf, HashInternal, EmptyTree

\* h is a node of the tree over leaves.
IsNode(leaves, h) ==
    \E k \in 1 .. Len(leaves) : \E i \in 1 .. Len(Levels(leaves)[k]) : h = Levels(leaves)[k][i]

\* A node of the next level and the two it is the hash of.
LEMMA NextLevelNode ==
    ASSUME NEW N \in Nat, N >= 1, NEW x, Len(x) = N, NEW j \in 1 .. ((N + 1) \div 2)
    PROVE  /\ 2 * j - 1 \in 1 .. N
           /\ SiblingOf(x, 2 * j - 2) = IF 2 * j <= N THEN x[2 * j] ELSE x[2 * j - 1]
           /\ BuildNextLevel(x)[j] = HashInternal(x[2 * j - 1], SiblingOf(x, 2 * j - 2))
           /\ Len(BuildNextLevel(x)) = (N + 1) \div 2
<1>1. 2 * j - 1 \in 1 .. N
  OBVIOUS
<1>2. (2 * j - 2) % 2 = 0
  OBVIOUS
<1>3. /\ (2 * j - 2) + 1 = 2 * j - 1
      /\ (2 * j - 1 < N) <=> (2 * j <= N)
      /\ (2 * j - 1) + 1 = 2 * j
  OBVIOUS
<1>4. SiblingOf(x, 2 * j - 2) = IF 2 * j <= N THEN x[2 * j] ELSE x[2 * j - 1]
  BY <1>2, <1>3 DEF SiblingOf
<1>5. BuildNextLevel(x)[j] = HashInternal(x[2 * j - 1], SiblingOf(x, 2 * j - 2))
  BY DEF BuildNextLevel
<1>6. Len(BuildNextLevel(x)) = (N + 1) \div 2
  <2>1. PICK M \in Nat : M = (N + 1) \div 2
    OBVIOUS
  <2>2. PICK g : g = BuildNextLevel(x)
    OBVIOUS
  <2>3. g = [i \in 1 .. M |-> g[i]]
    BY <2>1, <2>2 DEF BuildNextLevel
  <2>4. QED
    BY <2>1, <2>2, <2>3, FunctionLen
<1>7. QED
  BY <1>1, <1>4, <1>5, <1>6

\* A node is the hash of a leaf or of two nodes.
LEMMA NodeCases ==
    ASSUME NEW S, NEW leaves \in Seq(S), leaves # <<>>, NEW h, IsNode(leaves, h)
    PROVE  \/ \E i \in 1 .. Len(leaves) : h = HashLeaf(leaves[i])
           \/ \E a, b : h = HashInternal(a, b) /\ IsNode(leaves, a) /\ IsNode(leaves, b)
<1> DEFINE L == Levels(leaves)
           n == Len(leaves)
           K == {k \in 1 .. n : \E i \in 1 .. Len(L[k]) : h = L[k][i]}
<1>1. /\ n \in Nat \ {0}
      /\ L[1] = [i \in 1 .. n |-> HashLeaf(leaves[i])]
      /\ \A k \in 2 .. n : L[k] = LevelUp(leaves, k, L[k - 1])
      /\ \A k \in 1 .. n : IsLevel(L[k], n - k + 1)
  BY LevelFacts
<1>2. PICK k \in K : \A j \in K : k <= j
  <2>1. K \in SUBSET Nat /\ K # {}
    BY DEF IsNode
  <2> HIDE DEF K
  <2>2. QED
    BY <2>1, LeastNatural
<1>3. PICK i \in 1 .. Len(L[k]) : h = L[k][i]
  OBVIOUS
<1> HIDE DEF L, n
<1>4. CASE k = 1
  <2>1. L[1] = [j \in 1 .. n |-> L[1][j]]
    BY <1>1
  <2>2. Len(L[1]) = n
    BY <1>1, <2>1, FunctionLen
  <2>3. i \in 1 .. n /\ h = HashLeaf(leaves[i])
    BY <1>1, <1>3, <1>4, <2>2
  <2>4. QED
    BY <2>3 DEF n
<1>5. CASE k # 1
  <2>1. k \in 1 .. n /\ k \in 2 .. n /\ k - 1 \in 1 .. n /\ ~(k <= k - 1)
    BY <1>1, <1>5
  <2>2. PICK N \in 1 .. (n - (k - 1) + 1) : Len(L[k - 1]) = N
    BY <1>1, <2>1 DEF IsLevel
  <2>3. N \in Nat /\ N >= 1
    BY <2>2
  <2>4. L[k] = LevelUp(leaves, k, L[k - 1])
    BY <1>1, <2>1
  <2>5. N > 1
    <3> SUFFICES ASSUME ~(N > 1) PROVE FALSE
      OBVIOUS
    <3>1. L[k] = L[k - 1]
      BY <2>2, <2>4 DEF LevelUp
    <3>2. k - 1 \in K
      BY <1>3, <2>1, <3>1
    <3> HIDE DEF K
    <3>3. QED
      BY <1>2, <2>1, <3>2
  <2>6. L[k] = BuildNextLevel(L[k - 1])
    BY <2>2, <2>4, <2>5 DEF LevelUp
  <2>7. PICK x : x = L[k - 1]
    OBVIOUS
  <2>8. Len(BuildNextLevel(x)) = (N + 1) \div 2
    <3>1. 1 \in 1 .. ((N + 1) \div 2)
      BY <2>3
    <3>2. QED
      BY <2>2, <2>3, <2>7, <3>1, NextLevelNode
  <2>9. i \in 1 .. ((N + 1) \div 2)
    BY <1>3, <2>6, <2>7, <2>8
  <2>10. /\ 2 * i - 1 \in 1 .. N
         /\ SiblingOf(x, 2 * i - 2) = IF 2 * i <= N THEN x[2 * i] ELSE x[2 * i - 1]
         /\ BuildNextLevel(x)[i] = HashInternal(x[2 * i - 1], SiblingOf(x, 2 * i - 2))
    BY <2>2, <2>3, <2>7, <2>9, NextLevelNode
  <2>11. PICK j \in 1 .. N : SiblingOf(x, 2 * i - 2) = x[j]
    <3>1. CASE 2 * i <= N
      <4>1. 2 * i \in 1 .. N
        BY <2>3, <2>10, <3>1
      <4>2. QED
        BY <2>10, <3>1, <4>1
    <3>2. CASE ~(2 * i <= N)
      BY <2>10, <3>2
    <3>3. QED
      BY <3>1, <3>2
  <2>12. h = HashInternal(x[2 * i - 1], x[j])
    BY <1>3, <2>6, <2>7, <2>10, <2>11
  <2>13. \A y \in 1 .. N : IsNode(leaves, x[y])
    BY <2>1, <2>2, <2>7 DEF IsNode, L, n
  <2>14. QED
    BY <2>10, <2>11, <2>12, <2>13
<1>6. QED
  BY <1>4, <1>5

\* verify_proof is sound for every tree and every proof, made by anyone of anything: a
\* proof that verifies against the root is of a leaf of the tree.
THEOREM NoForeignLeafVerifies ==
    ASSUME NEW S, NEW leaves \in Seq(S), NEW proof, Len(proof.siblings) \in Nat,
           VerifyProof(Root(leaves), proof)
    PROVE  Contains(leaves, proof.leaf)
<1> DEFINE m == Len(proof.siblings)
           at == IndexAt(proof.leaf_index, m)
<1>1. PICK hash : IsHash(proof, at, m, hash) /\ RootFromProof(proof) = hash[m]
  BY LoopsRun
<1>2. hash[m] = Root(leaves)
  BY <1>1 DEF VerifyProof
<1> HIDE DEF m, at
<1>3. m \in Nat
  BY DEF m
<1>4. /\ hash[0] = HashLeaf(proof.leaf)
      /\ \A k \in 1 .. m : hash[k] = HashUp(proof, at, k, hash[k - 1])
  <2>1. 0 \in 0 .. m /\ \A k \in 1 .. m : k \in 0 .. m /\ k # 0
    BY <1>3
  <2>2. hash = [k \in 0 .. m |-> IF k = 0 THEN HashLeaf(proof.leaf)
                                 ELSE HashUp(proof, at, k, hash[k - 1])]
    BY <1>1 DEF IsHash
  <2>3. QED
    BY <2>1, <2>2
<1>5. \A k \in 1 .. m : \E x : \/ hash[k] = HashInternal(hash[k - 1], x)
                               \/ hash[k] = HashInternal(x, hash[k - 1])
  BY <1>4 DEF HashUp
<1>6. leaves # <<>>
  <2> SUFFICES ASSUME leaves = <<>> PROVE FALSE
    OBVIOUS
  <2>1. hash[m] = EmptyTree
    BY <1>2 DEF Root
  <2>2. CASE m = 0
    BY <1>4, <2>1, <2>2, HashesDiffer
  <2>3. CASE m # 0
    <3>1. m \in 1 .. m
      BY <1>3, <2>3
    <3>2. QED
      BY <1>5, <2>1, <3>1, HashesDiffer
  <2>4. QED
    BY <2>2, <2>3
<1>7. IsNode(leaves, hash[m])
  <2> DEFINE L == Levels(leaves)
             n == Len(leaves)
  <2>1. n \in Nat \ {0} /\ IsLevel(L[n], n - n + 1)
    <3>1. n \in Nat \ {0} /\ \A k \in 1 .. n : IsLevel(L[k], n - k + 1)
      BY <1>6, LevelFacts
    <3> HIDE DEF n, L
    <3>2. n \in 1 .. n
      BY <3>1
    <3>3. QED
      BY <3>1, <3>2
  <2>2. hash[m] = L[n][1]
    BY <1>2, <1>6 DEF Root
  <2> HIDE DEF n, L
  <2>3. 1 \in 1 .. Len(L[n]) /\ n \in 1 .. n
    BY <2>1 DEF IsLevel
  <2>4. QED
    BY <2>2, <2>3 DEF IsNode, n, L
<1>8. IsNode(leaves, hash[0])
  <2> DEFINE Good == {j \in 0 .. m : IsNode(leaves, hash[j])}
  <2>1. m \in Good
    BY <1>3, <1>7
  <2>2. PICK k \in Good : \A j \in Good : k <= j
    <3>1. Good \in SUBSET Nat
      OBVIOUS
    <3> HIDE DEF Good
    <3>2. QED
      BY <2>1, <3>1, LeastNatural
  <2>3. CASE k = 0
    BY <2>3
  <2>4. CASE k # 0
    <3>1. k \in 1 .. m /\ k - 1 \in 0 .. m /\ ~(k <= k - 1) /\ IsNode(leaves, hash[k])
      BY <1>3, <2>4
    <3>2. PICK x : \/ hash[k] = HashInternal(hash[k - 1], x)
                   \/ hash[k] = HashInternal(x, hash[k - 1])
      BY <1>5, <3>1
    <3>3. \/ \E i \in 1 .. Len(leaves) : hash[k] = HashLeaf(leaves[i])
          \/ \E a, b : hash[k] = HashInternal(a, b) /\ IsNode(leaves, a) /\ IsNode(leaves, b)
      BY <1>6, <3>1, NodeCases
    <3>4. IsNode(leaves, hash[k - 1])
      BY <3>2, <3>3, HashesDiffer
    <3>5. k - 1 \in Good
      BY <3>1, <3>4
    <3> HIDE DEF Good
    <3>6. QED
      BY <2>2, <3>1, <3>5
  <2>5. QED
    BY <2>3, <2>4
<1>9. PICK i \in 1 .. Len(leaves) : hash[0] = HashLeaf(leaves[i])
  BY <1>4, <1>6, <1>8, NodeCases, HashesDiffer
<1>10. QED
  BY <1>4, <1>9, HashesDiffer DEF Contains

\* The levels shrink to a single node at some level m and stay there.
LEMMA DepthOfTree ==
    ASSUME NEW S, NEW leaves \in Seq(S), leaves # <<>>
    PROVE  LET L == Levels(leaves)
               n == Len(leaves)
           IN  \E m \in 1 .. n :
                   /\ Cardinality({k \in DOMAIN L : Len(L[k]) > 1}) = m - 1
                   /\ Len(L[m]) = 1
                   /\ L[n] = L[m]
                   /\ \A k \in 1 .. (m - 1) : /\ Len(L[k]) \in Nat
                                              /\ Len(L[k]) > 1
                                              /\ L[k + 1] = BuildNextLevel(L[k])
<1> DEFINE L == Levels(leaves)
           n == Len(leaves)
           Single == {k \in 1 .. n : Len(L[k]) = 1}
<1>1. /\ n \in Nat \ {0}
      /\ \A k \in 2 .. n : L[k] = LevelUp(leaves, k, L[k - 1])
      /\ \A k \in 1 .. n : IsLevel(L[k], n - k + 1)
      /\ DOMAIN L = 1 .. n
  BY LevelFacts
<1> HIDE DEF L, n
<1>2. \A k \in 1 .. n : Len(L[k]) \in Nat /\ Len(L[k]) >= 1
  <2> TAKE k \in 1 .. n
  <2>1. PICK M : M = n - k + 1
    OBVIOUS
  <2>2. M \in Nat /\ IsLevel(L[k], M)
    BY <1>1, <2>1
  <2>3. QED
    BY <2>2 DEF IsLevel
<1>3. n \in Single
  <2>1. n \in 1 .. n /\ n - n + 1 = 1
    BY <1>1
  <2>2. IsLevel(L[n], 1)
    BY <1>1, <2>1
  <2>3. Len(L[n]) = 1
    BY <2>2 DEF IsLevel
  <2>4. QED
    BY <2>1, <2>3
<1>4. PICK m \in Single : \A j \in Single : m <= j
  <2>1. Single \in SUBSET Nat
    OBVIOUS
  <2> HIDE DEF Single
  <2>2. QED
    BY <1>3, <2>1, LeastNatural
<1>5. m \in 1 .. n /\ m \in Nat /\ Len(L[m]) = 1
  BY <1>1
<1>6. \A k \in 1 .. (m - 1) : k \in 1 .. n /\ Len(L[k]) > 1
  <2> TAKE k \in 1 .. (m - 1)
  <2>1. k \in 1 .. n /\ ~(m <= k)
    BY <1>1, <1>5
  <2>2. k \notin Single
    <3> HIDE DEF Single
    <3>1. QED
      BY <1>4, <2>1
  <2>3. Len(L[k]) # 1
    BY <2>1, <2>2
  <2>4. PICK N \in Nat : N = Len(L[k]) /\ N >= 1
    BY <1>2, <2>1
  <2> HIDE DEF Single
  <2>5. N # 1
    BY <2>3, <2>4
  <2>6. N \in Nat /\ N >= 1
    BY <2>4
  <2>7. N > 1
    BY <2>5, <2>6
  <2>8. QED
    BY <2>1, <2>4, <2>7
<1>7. \A k \in 1 .. (m - 1) : L[k + 1] = BuildNextLevel(L[k])
  <2> TAKE k \in 1 .. (m - 1)
  <2>1. k + 1 \in 2 .. n /\ (k + 1) - 1 = k
    BY <1>1, <1>5
  <2>2. L[k + 1] = LevelUp(leaves, k + 1, L[k])
    BY <1>1, <2>1
  <2>3. QED
    BY <1>6, <2>2 DEF LevelUp
<1>8. \A j \in m .. n : L[j] = L[m]
  <2> DEFINE Bad == {j \in m .. n : L[j] # L[m]}
  <2> SUFFICES ASSUME Bad # {} PROVE FALSE
    OBVIOUS
  <2>1. PICK j \in Bad : \A i \in Bad : j <= i
    <3>1. Bad \in SUBSET Nat
      BY <1>1, <1>5
    <3> HIDE DEF Bad
    <3>2. QED
      BY <3>1, LeastNatural
  <2>2. j \in Nat /\ j \in m .. n /\ j # m
    BY <1>1, <1>5
  <2>3. j - 1 \in m .. n /\ j \in 2 .. n /\ ~(j <= j - 1)
    BY <1>1, <1>5, <2>2
  <2>4. L[j - 1] = L[m]
    <3>1. j - 1 \notin Bad
      <4> HIDE DEF Bad
      <4>1. QED
        BY <2>1, <2>3
    <3>2. QED
      BY <2>3, <3>1
  <2>5. L[j] = LevelUp(leaves, j, L[j - 1])
    BY <1>1, <2>3
  <2>6. L[j] = L[m]
    BY <1>5, <2>4, <2>5 DEF LevelUp
  <2>7. QED
    BY <2>1, <2>6
<1>9. {k \in DOMAIN L : Len(L[k]) > 1} = 1 .. (m - 1)
  <2>1. ASSUME NEW k \in 1 .. n, Len(L[k]) > 1 PROVE k \in 1 .. (m - 1)
    <3>1. k \notin m .. n
      <4>1. k \in m .. n => Len(L[k]) = 1
        BY <1>5, <1>8
      <4> HIDE DEF Single
      <4>2. Len(L[k]) # 1
        <5>1. ~(1 > 1)
          OBVIOUS
        <5>2. QED
          BY <2>1, <5>1
      <4>3. QED
        BY <4>1, <4>2
    <3>2. QED
      BY <1>1, <1>5, <3>1
  <2>2. QED
    BY <1>1, <1>6, <2>1
<1>10. Cardinality(1 .. (m - 1)) = m - 1
  <2>1. m - 1 \in Nat
    BY <1>5
  <2>2. PICK d \in Nat : d = m - 1
    BY <2>1
  <2>3. Cardinality(1 .. d) = d
    BY <2>2, FS_Interval
  <2>4. QED
    BY <2>2, <2>3
<1>11. L[n] = L[m]
  <2>1. n \in m .. n
    BY <1>1, <1>5
  <2>2. QED
    BY <1>8, <2>1
<1>12. QED
  BY <1>2, <1>5, <1>6, <1>7, <1>9, <1>10, <1>11 DEF L, n

\* The parent of the node at index p of the level x, from the node and its sibling.
LEMMA ParentOf ==
    ASSUME NEW x, NEW N \in Nat, N > 1, Len(x) = N, NEW p \in 0 .. (N - 1)
    PROVE  /\ p \div 2 \in 0 .. (Len(BuildNextLevel(x)) - 1)
           /\ BuildNextLevel(x)[(p \div 2) + 1] =
                  IF p % 2 = 0 THEN HashInternal(x[p + 1], SiblingOf(x, p))
                               ELSE HashInternal(SiblingOf(x, p), x[p + 1])
<1>1. PICK j : j = (p \div 2) + 1
  OBVIOUS
<1>2. j \in Nat /\ j \in 1 .. ((N + 1) \div 2) /\ p \in Nat
  BY <1>1
<1>3. /\ 2 * j - 1 \in 1 .. N
      /\ SiblingOf(x, 2 * j - 2) = IF 2 * j <= N THEN x[2 * j] ELSE x[2 * j - 1]
      /\ BuildNextLevel(x)[j] = HashInternal(x[2 * j - 1], SiblingOf(x, 2 * j - 2))
      /\ Len(BuildNextLevel(x)) = (N + 1) \div 2
  <2>1. N >= 1
    OBVIOUS
  <2>2. QED
    BY <1>2, <2>1, NextLevelNode
<1>4. p \div 2 \in 0 .. (Len(BuildNextLevel(x)) - 1)
  <2>1. p \div 2 = j - 1
    BY <1>1
  <2>2. PICK M \in Nat : M = (N + 1) \div 2
    OBVIOUS
  <2>3. j - 1 \in 0 .. (M - 1)
    BY <1>2, <2>2
  <2>4. QED
    BY <1>3, <2>1, <2>2, <2>3
<1>5. CASE p % 2 = 0
  <2>1. p = 2 * j - 2 /\ p + 1 = 2 * j - 1
    BY <1>1, <1>2, <1>5
  <2>2. QED
    BY <1>1, <1>3, <1>4, <1>5, <2>1
<1>6. CASE p % 2 # 0
  <2>1. p = 2 * j - 1 /\ p + 1 = 2 * j /\ p - 1 < N /\ (p - 1) + 1 = p /\ 2 * j <= N
    BY <1>1, <1>2, <1>6
  <2>2. SiblingOf(x, p) = x[p]
    BY <1>6, <2>1 DEF SiblingOf
  <2>3. BuildNextLevel(x)[j] = HashInternal(x[p], x[p + 1])
    <3>1. SiblingOf(x, 2 * j - 2) = x[2 * j]
      BY <1>3, <2>1
    <3>2. QED
      BY <1>3, <2>1, <3>1
  <2>4. QED
    BY <1>1, <1>4, <1>6, <2>2, <2>3
<1>7. QED
  BY <1>5, <1>6

\* The facts of generate_proof that verify_proof relies on.
LEMMA ProofsAreComplete ==
    ASSUME NEW S, NEW leaves \in Seq(S), NEW i \in 1 .. Len(leaves)
    PROVE  LET proof == GenerateProof(leaves, i - 1)
           IN  /\ proof.leaf = leaves[i]
               /\ Len(proof.siblings) \in Nat
               /\ VerifyProof(Root(leaves), proof)
<1> DEFINE L == Levels(leaves)
           n == Len(leaves)
<1>1. leaves # <<>> /\ n \in Nat /\ i \in Nat
  BY LenProperties
<1>2. PICK m \in 1 .. n :
          /\ Cardinality({k \in DOMAIN L : Len(L[k]) > 1}) = m - 1
          /\ Len(L[m]) = 1
          /\ L[n] = L[m]
          /\ \A k \in 1 .. (m - 1) : /\ Len(L[k]) \in Nat
                                     /\ Len(L[k]) > 1
                                     /\ L[k + 1] = BuildNextLevel(L[k])
  BY <1>1, DepthOfTree
<1>3. PICK d \in Nat : d = m - 1
  BY <1>1
<1>4. L[1] = [j \in 1 .. n |-> HashLeaf(leaves[j])] /\ Len(L[1]) = n
  <2>1. n \in Nat /\ L[1] = [j \in 1 .. n |-> HashLeaf(leaves[j])]
    BY <1>1, LevelFacts
  <2> HIDE DEF L, n
  <2>2. L[1] = [j \in 1 .. n |-> L[1][j]]
    BY <2>1
  <2>3. QED
    BY <2>1, <2>2, FunctionLen
<1>5. PICK at : at = IndexAt(i - 1, d)
  OBVIOUS
<1>6. PICK proof : proof = GenerateProof(leaves, i - 1)
  OBVIOUS
<1>7. /\ proof.leaf_index = i - 1
      /\ proof.leaf = leaves[i]
      /\ proof.siblings = [k \in 1 .. d |-> SiblingOf(L[k], at[k])]
  <2>1. (i - 1) + 1 = i
    BY <1>1
  <2>2. proof = [leaf_index |-> i - 1, leaf |-> leaves[(i - 1) + 1],
                 siblings |-> [k \in 1 .. d |-> SiblingOf(L[k], at[k])]]
    BY <1>2, <1>3, <1>5, <1>6 DEF GenerateProof
  <2> HIDE DEF L, n
  <2>3. QED
    BY <2>1, <2>2
<1> HIDE DEF L, n
<1>8. Len(proof.siblings) = d
  <2>1. PICK s : s = proof.siblings
    OBVIOUS
  <2>2. s = [k \in 1 .. d |-> s[k]]
    BY <1>7, <2>1
  <2>3. QED
    BY <2>1, <2>2, FunctionLen
<1>9. PICK hash : IsHash(proof, at, d, hash) /\ RootFromProof(proof) = hash[d]
  BY <1>5, <1>7, <1>8, LoopsRun
<1>10. /\ hash[0] = HashLeaf(proof.leaf)
       /\ \A k \in 1 .. d : hash[k] = HashUp(proof, at, k, hash[k - 1])
  <2>1. 0 \in 0 .. d /\ \A k \in 1 .. d : k \in 0 .. d /\ k # 0
    OBVIOUS
  <2>2. hash = [k \in 0 .. d |-> IF k = 0 THEN HashLeaf(proof.leaf)
                                 ELSE HashUp(proof, at, k, hash[k - 1])]
    BY <1>9 DEF IsHash
  <2>3. QED
    BY <2>1, <2>2
<1> DEFINE P(k) == IF k = 0 THEN i - 1 ELSE at[k] \div 2
<1>11. \A k \in 1 .. d : at[k] = P(k - 1)
  <2> TAKE k \in 1 .. d
  <2>1. d \in Nat \ {0} /\ k \in Nat
    OBVIOUS
  <2>2. at = [j \in 1 .. d |-> IF j = 1 THEN i - 1 ELSE HalvedIndex(i - 1, j, at[j - 1])]
    <3>1. PICK first : first = i - 1
      OBVIOUS
    <3>2. IsIndex(first, d, IndexAt(first, d))
      BY <2>1, LoopsRun
    <3>3. IsIndex(first, d, at)
      BY <1>5, <3>1, <3>2
    <3>4. QED
      BY <3>1, <3>3 DEF IsIndex
  <2>3. CASE k = 1
    BY <2>2, <2>3
  <2>4. CASE k # 1
    <3>1. k - 1 # 0
      BY <2>1, <2>4
    <3>2. QED
      BY <2>2, <2>4, <3>1 DEF HalvedIndex
  <2>5. QED
    BY <2>3, <2>4
\* After k turns of the loop the hash is a node of level k + 1, the leaf's ancestor.
<1> DEFINE Up(k) == /\ P(k) \in 0 .. (Len(L[k + 1]) - 1)
                    /\ hash[k] = L[k + 1][P(k) + 1]
<1>12. Up(0)
  <2>1. /\ i - 1 \in 0 .. (n - 1) /\ (i - 1) + 1 = i /\ 0 + 1 = 1 /\ i \in 1 .. n
    BY <1>1 DEF n
  <2>2. L[1][i] = HashLeaf(leaves[i])
    BY <1>4, <2>1
  <2>3. QED
    BY <1>4, <1>7, <1>10, <2>1, <2>2
<1>13. ASSUME NEW k \in 1 .. d, Up(k - 1) PROVE Up(k)
  <2>1. PICK x, p : x = L[k] /\ p = at[k]
    OBVIOUS
  <2>2. k \in Nat /\ (k - 1) + 1 = k /\ k # 0 /\ k \in 1 .. (m - 1)
    BY <1>3
  <2>3. PICK N \in Nat : N = Len(x) /\ N > 1
    BY <1>2, <2>1, <2>2
  <2>4. p = P(k - 1)
    BY <1>11, <2>1
  <2>5. p \in 0 .. (N - 1) /\ hash[k - 1] = x[p + 1]
    <3> HIDE DEF P
    <3>1. QED
      BY <1>13, <2>1, <2>2, <2>3, <2>4
  <2>6. /\ p \div 2 \in 0 .. (Len(BuildNextLevel(x)) - 1)
        /\ BuildNextLevel(x)[(p \div 2) + 1] =
               IF p % 2 = 0 THEN HashInternal(x[p + 1], SiblingOf(x, p))
                            ELSE HashInternal(SiblingOf(x, p), x[p + 1])
    BY <2>3, <2>5, ParentOf
  <2>7. proof.siblings[k] = SiblingOf(x, p)
    BY <1>7, <2>1
  <2>8. hash[k] = IF p % 2 = 0 THEN HashInternal(x[p + 1], SiblingOf(x, p))
                               ELSE HashInternal(SiblingOf(x, p), x[p + 1])
    BY <1>10, <2>1, <2>5, <2>7 DEF HashUp
  <2>9. L[k + 1] = BuildNextLevel(x) /\ P(k) = p \div 2
    BY <1>2, <2>1, <2>2
  <2> HIDE DEF P
  <2>10. QED
    BY <2>6, <2>8, <2>9
<1>14. Up(d)
  <2> DEFINE Bad == {k \in 0 .. d : ~Up(k)}
  <2> HIDE DEF Up
  <2> SUFFICES ASSUME Bad # {} PROVE FALSE
    <3>1. d \in 0 .. d
      OBVIOUS
    <3>2. QED
      BY <3>1
  <2>1. PICK k \in Bad : \A j \in Bad : k <= j
    <3>1. Bad \in SUBSET Nat
      OBVIOUS
    <3> HIDE DEF Bad
    <3>2. QED
      BY <3>1, LeastNatural
  <2>2. k \in Nat /\ k \in 0 .. d /\ ~Up(k) /\ k # 0
    BY <1>12
  <2>3. k \in 1 .. d /\ k - 1 \in 0 .. d /\ ~(k <= k - 1)
    BY <2>2
  <2>4. Up(k - 1)
    <3>1. k - 1 \notin Bad
      <4> HIDE DEF Bad
      <4>1. QED
        BY <2>1, <2>3
    <3>2. QED
      BY <2>3, <3>1
  <2>5. QED
    BY <1>13, <2>2, <2>3, <2>4
<1>15. RootFromProof(proof) = Root(leaves)
  <2>1. d + 1 = m
    BY <1>1, <1>3
  <2>2. P(d) \in 0 .. (Len(L[m]) - 1) /\ hash[d] = L[m][P(d) + 1]
    BY <1>14, <2>1
  <2> HIDE DEF P
  <2>3. P(d) = 0
    <3>1. 1 - 1 = 0
      OBVIOUS
    <3>2. P(d) \in 0 .. 0
      BY <1>2, <2>2, <3>1
    <3>3. QED
      BY <3>2
  <2>4. hash[d] = L[n][1]
    <3>1. 0 + 1 = 1
      OBVIOUS
    <3>2. QED
      BY <1>2, <2>2, <2>3, <3>1
  <2>5. Root(leaves) = L[n][1]
    BY <1>1 DEF Root, L, n
  <2>6. QED
    BY <1>9, <2>4, <2>5
<1>16. QED
  BY <1>6, <1>7, <1>8, <1>15 DEF VerifyProof

\* The proofs in the wallets are lists of siblings, of whatever tree.
ProofsAreLists == \A proof \in proofs : Len(proof.siblings) \in Nat

LEMMA ProofsAlwaysLists == Spec => []ProofsAreLists
<1>1. Init => ProofsAreLists
  BY DEF Init, ProofsAreLists
<1>2. ConversionInv /\ ProofsAreLists /\ [Next]_vars => ProofsAreLists'
  <2> SUFFICES ASSUME ConversionInv, ProofsAreLists, [Next]_vars PROVE ProofsAreLists'
    OBVIOUS
  <2>1. CASE UNCHANGED proofs
    BY <2>1 DEF ProofsAreLists
  <2>2. ASSUME NEW index \in 0 .. (Len(tree) - 1), MakeProof(index)
        PROVE  ProofsAreLists'
    <3>1. tree \in Seq(Commitments) /\ Len(tree) \in Nat
      BY LenProperties DEF ConversionInv, TypeInv
    <3>2. PICK i \in 1 .. Len(tree) : i - 1 = index
      <4>1. index + 1 \in 1 .. Len(tree) /\ (index + 1) - 1 = index
        BY <3>1
      <4>2. QED
        BY <4>1
    <3>3. Len(GenerateProof(tree, index).siblings) \in Nat
      BY <3>1, <3>2, ProofsAreComplete
    <3>4. QED
      BY <2>2, <3>3 DEF MakeProof, ProofsAreLists
  <2>3. ASSUME NEW proof, ForgetProof(proof) PROVE ProofsAreLists'
    BY <2>3 DEF ForgetProof, ProofsAreLists
  <2>4. QED
    BY <2>1, <2>2, <2>3 DEF Next, vars, ConvertPublicToAnon, ConvertAnonToPublic
<1>3. QED
  BY <1>1, <1>2, ConversionAlways, PTL DEF Spec

\* No balance together with any note of the tree exceeds the supply.
LEMMA BalanceWithNote ==
    ASSUME ConversionInv, NEW a \in Accounts, NEW i \in DOMAIN tree
    PROVE  balance[a] + tree[i].value <= SumOver(Supply)
<1>1. tree \in Seq(Commitments) /\ balance \in [Accounts -> 0 .. (WordSize - 1)]
  BY DEF ConversionInv, TypeInv
<1> DEFINE f == [j \in DOMAIN tree |-> tree[j].value]
<1>2. Finite(f) /\ Finite(balance)
  BY <1>1, ValuesFinite, BalanceFinite
<1>3. i \in DOMAIN f /\ a \in DOMAIN balance /\ f[i] = tree[i].value
  BY <1>1
<1>4. SumOver(balance) + SumOver(f) = SumOver(Supply)
  BY DEF ConversionInv, TotalKept, ValueIn
<1> HIDE DEF f
<1>5. PICK x \in Nat : SumOver(f) = f[i] + x
  BY <1>2, <1>3, SumRemove, SumNat
<1>6. PICK y \in Nat : SumOver(balance) = balance[a] + y
  BY <1>2, <1>3, SumRemove, SumNat
<1>7. f[i] \in Nat /\ balance[a] \in Nat
  BY <1>2, <1>3 DEF Finite
<1>8. QED
  BY <1>3, <1>4, <1>5, <1>6, <1>7

\* While the whole supply fits a u64, and for any accounts, notes and proofs: a proof
\* in a wallet verifies only if its leaf is in the tree, and a note that an account
\* tracks can always be converted back with a proof made now.  The hypothesis is what
\* docs/genesis_parameters.md fixes: a total supply of 1_000_000_000, against the
\* 2^64 of convert_anon_to_public's checked addition.
THEOREM ProofsStayExact ==
    ASSUME SumOver(Supply) < WordSize
    PROVE  Spec => []ProofsAreExact
<1>1. ConversionInv /\ ProofsAreLists => ProofsAreExact
  <2> SUFFICES ASSUME ConversionInv, ProofsAreLists PROVE ProofsAreExact
    OBVIOUS
  <2>1. tree \in Seq(Commitments)
    BY DEF ConversionInv, TypeInv
  <2>2. DOMAIN tree = 1 .. Len(tree) /\ Len(tree) \in Nat
    BY <2>1, LenProperties
  <2>3. ASSUME NEW proof \in proofs, VerifyProof(Root(tree), proof)
        PROVE  Contains(tree, proof.leaf)
    <3>1. Len(proof.siblings) \in Nat
      BY DEF ProofsAreLists
    <3>2. QED
      BY <2>1, <2>3, <3>1, NoForeignLeafVerifies
  <2>4. ASSUME NEW a \in Accounts, NEW i \in DOMAIN tree,
               Contains(note_commitments[a], tree[i])
        PROVE  MayConsume(a, tree[i], GenerateProof(tree, i - 1))
    <3>1. i \in 1 .. Len(tree)
      BY <2>2
    <3>2. PICK c \in Commitments : c = tree[i]
      BY <2>1, <3>1, ElementOfSeq
    <3>3. c.value > 0 /\ NoteOk(c.value, c.key, c.blinding) /\ c.value \in Nat
      BY DEF Commitments, NoteOk
    <3>4. PICK proof : proof = GenerateProof(tree, i - 1)
      OBVIOUS
    <3>5. proof.leaf = c /\ VerifyProof(Root(tree), proof)
      BY <2>1, <3>1, <3>2, <3>4, ProofsAreComplete
    <3>6. Contains(tree, c)
      BY <3>1, <3>2 DEF Contains
    <3>7. balance[a] + c.value < WordSize
      <4>1. PICK s : s = SumOver(Supply)
        OBVIOUS
      <4>2. s \in Nat /\ s < WordSize /\ WordSize \in Nat
        BY <4>1, BalanceFinite, SumNat, ConversionAssumption
      <4>3. balance[a] + c.value <= s
        BY <3>2, <4>1, BalanceWithNote
      <4>4. balance[a] \in Nat
        BY ConversionAssumption DEF ConversionInv, TypeInv
      <4>5. QED
        BY <3>3, <4>2, <4>3, <4>4
    <3>8. MayConsume(a, c, proof)
      BY <2>4, <3>2, <3>3, <3>5, <3>6, <3>7 DEF MayConsume
    <3>9. QED
      BY <3>2, <3>4, <3>8
  <2>5. QED
    BY <2>3, <2>4 DEF ProofsAreExact
<1>2. QED
  BY <1>1, ConversionAlways, ProofsAlwaysLists, PTL

-----------------------------------------------------------------------------
(* Anonymous transfers *)

\* The proofs in the wallets are of notes.
ProofsAreOfNotes == \A proof \in proofs : proof.leaf \in Commitments

LEMMA ProofsAlwaysOfNotes == Spec => []ProofsAreOfNotes
<1>1. Init => ProofsAreOfNotes
  BY DEF Init, ProofsAreOfNotes
<1>2. ConversionInv /\ ProofsAreOfNotes /\ [Next]_vars => ProofsAreOfNotes'
  <2> SUFFICES ASSUME ConversionInv, ProofsAreOfNotes, [Next]_vars PROVE ProofsAreOfNotes'
    OBVIOUS
  <2>1. CASE UNCHANGED proofs
    BY <2>1 DEF ProofsAreOfNotes
  <2>2. ASSUME NEW index \in 0 .. (Len(tree) - 1), MakeProof(index)
        PROVE  ProofsAreOfNotes'
    <3>1. tree \in Seq(Commitments) /\ Len(tree) \in Nat
      BY LenProperties DEF ConversionInv, TypeInv
    <3>2. PICK i \in 1 .. Len(tree) : i - 1 = index
      <4>1. index + 1 \in 1 .. Len(tree) /\ (index + 1) - 1 = index
        BY <3>1
      <4>2. QED
        BY <4>1
    <3>3. GenerateProof(tree, index).leaf = tree[i] /\ tree[i] \in Commitments
      BY <3>1, <3>2, ProofsAreComplete, ElementOfSeq
    <3>4. QED
      BY <2>2, <3>3 DEF MakeProof, ProofsAreOfNotes
  <2>3. ASSUME NEW proof, ForgetProof(proof) PROVE ProofsAreOfNotes'
    BY <2>3 DEF ForgetProof, ProofsAreOfNotes
  <2>4. QED
    BY <2>1, <2>2, <2>3 DEF Next, vars, ConvertPublicToAnon, ConvertAnonToPublic
<1>3. QED
  BY <1>1, <1>2, ConversionAlways, PTL DEF Spec

\* What does not overflow does not wrap.
LEMMA SmallModulo ==
    ASSUME NEW w \in Nat \ {0}, NEW x \in 0 .. (w - 1)
    PROVE  (x % w) = x
OBVIOUS

\* A list of values can be summed.
LEMMA TotalNat ==
    ASSUME NEW n \in Nat, NEW list, DOMAIN list = 1 .. n,
           \A i \in 1 .. n : list[i].value \in Nat
    PROVE  Total(list) \in Nat
<1> DEFINE f == [i \in DOMAIN list |-> list[i].value]
<1>1. IsFiniteSet(1 .. n)
  BY FS_Interval
<1>2. Finite(f)
  BY <1>1 DEF Finite
<1> HIDE DEF f
<1>3. SumOver(f) \in Nat
  BY <1>2, SumNat
<1>4. QED
  BY <1>3 DEF Total, f

\* What wallets put into a transfer with a proof they hold.
LEMMA InputFacts ==
    ASSUME NEW proof, proof.leaf \in Commitments, NEW inputs \in InputLists(proof)
    PROVE  /\ Total(inputs) \in Nat
           /\ \A i \in DOMAIN inputs : inputs[i].proof = proof
           /\ inputs # << >> => 1 \in DOMAIN inputs
<1>1. proof.leaf.value \in Nat
  BY DEF Commitments
<1>2. PICK n \in 0 .. 2 : /\ DOMAIN inputs = 1 .. n
                          /\ \A i \in 1 .. n : inputs[i].value \in Nat
                          /\ \A i \in 1 .. n : inputs[i].proof = proof
                          /\ inputs # << >> => n # 0
  <2> DEFINE wrong == [value |-> 0, key |-> Zero, blinding |-> Zero, proof |-> proof]
             right(k) == [value |-> proof.leaf.value, key |-> k,
                          blinding |-> proof.leaf.blinding, proof |-> proof]
             ins == {right(k) : k \in SpendingKeys \cup {Zero}}
  <2>1. wrong.value \in Nat /\ wrong.proof = proof
    OBVIOUS
  <2>2. \A in \in ins : in.value \in Nat /\ in.proof = proof
    BY <1>1
  <2>3. inputs \in {<<in>> : in \in ins} \cup {<<in, in>> : in \in ins} \cup {<< >>, <<wrong>>}
    BY DEF InputLists
  <2> HIDE DEF wrong, ins
  <2>4. 0 \in 0 .. 2 /\ 1 \in 0 .. 2 /\ 2 \in 0 .. 2
    OBVIOUS
  <2>5. CASE inputs = << >>
    BY <2>4, <2>5
  <2>6. ASSUME NEW in, in.value \in Nat, in.proof = proof, inputs = <<in>>
        PROVE  /\ DOMAIN inputs = 1 .. 1
               /\ \A i \in 1 .. 1 : inputs[i].value \in Nat
               /\ \A i \in 1 .. 1 : inputs[i].proof = proof
    BY <2>6
  <2>7. ASSUME NEW in, in.value \in Nat, in.proof = proof, inputs = <<in, in>>
        PROVE  /\ DOMAIN inputs = 1 .. 2
               /\ \A i \in 1 .. 2 : inputs[i].value \in Nat
               /\ \A i \in 1 .. 2 : inputs[i].proof = proof
    BY <2>7
  <2>8. QED
    BY <2>1, <2>2, <2>3, <2>4, <2>5, <2>6, <2>7
<1>3. Total(inputs) \in Nat
  <2>1. n \in Nat
    OBVIOUS
  <2>2. QED
    BY <1>2, <2>1, TotalNat
<1>4. QED
  BY <1>2, <1>3

\* For any notes, outputs, fees and word size, and with stale and repeated proofs: the
\* native rules of a transfer are the circuit's without zero values and overflow, so
\* that whoever keeps to them gets a proof of the shape of the keys; and what
\* satisfies the constraints of generate_constraints alone spends notes of the
\* present tree and conserves value unless a sum wraps.
THEOREM TransferRulesAlwaysAgree == Spec => []TransferRulesAgree
<1>1. ConversionInv /\ ProofsAreLists /\ ProofsAreOfNotes => TransferRulesAgree
  <2> SUFFICES ASSUME ConversionInv, ProofsAreLists, ProofsAreOfNotes,
                      NEW proof \in proofs, NEW inputs \in InputLists(proof),
                      NEW outputs \in OutputLists, NEW fee \in Fees,
                      NEW published \in {OutputCommitments(outputs), << >>}
               PROVE  LET public == Public(Root(tree), published, fee)
                          native == VerifyPublicInputs(public, inputs, outputs)
                          fit == Total(inputs) < WordSize /\ Total(outputs) + fee < WordSize
                      IN  /\ native <=>
                                /\ CircuitSatisfied(public, inputs, outputs)
                                /\ \A i \in DOMAIN inputs : InputOk(inputs[i])
                                /\ \A i \in DOMAIN outputs : OutputOk(outputs[i])
                                /\ fit
                          /\ native /\ FitsKey(inputs, outputs) =>
                                GenerateTransferProof(public, inputs, outputs)
                          /\ CircuitSatisfied(public, inputs, outputs) =>
                                /\ Contains(tree, proof.leaf)
                                /\ Total(inputs) = Total(outputs) + fee \/ ~fit
    BY DEF TransferRulesAgree
  <2>1. PICK public : public = Public(Root(tree), published, fee)
    OBVIOUS
  <2>2. /\ public.merkle_root = Root(tree) /\ public.fee = fee
        /\ public.output_commitments = published
    BY <2>1 DEF Public
  <2>3. /\ tree \in Seq(Commitments) /\ Len(proof.siblings) \in Nat
        /\ proof.leaf \in Commitments
    BY DEF ConversionInv, TypeInv, ProofsAreLists, ProofsAreOfNotes
  <2>4. /\ Total(inputs) \in Nat
        /\ \A i \in DOMAIN inputs : inputs[i].proof = proof
        /\ inputs # << >> => 1 \in DOMAIN inputs
    BY <2>3, InputFacts
  <2>5. PICK n \in Nat : DOMAIN outputs = 1 .. n /\ Len(outputs) = n
    BY TransferAssumption, LenProperties
  <2>6. Total(outputs) \in Nat
    <3>1. \A i \in 1 .. n : outputs[i].value \in Nat
      <4>1. PICK R : R = [value : 0 .. (WordSize - 1), key : PublicKeys, blinding : Blindings]
        OBVIOUS
      <4>2. outputs \in Seq(R)
        BY <4>1, TransferAssumption
      <4>3. \A i \in 1 .. n : outputs[i] \in R
        BY <2>5, <4>2, ElementOfSeq
      <4>4. \A r \in R : r.value \in Nat
        BY <4>1, ConversionAssumption
      <4>5. QED
        BY <4>3, <4>4
    <3>2. QED
      BY <2>5, <3>1, TotalNat
  <2>7. fee \in Nat /\ WordSize \in Nat \ {0}
    BY TransferAssumption, ConversionAssumption
  <2>8. PICK a \in Nat, b \in Nat : a = Total(inputs) /\ b = Total(outputs)
    BY <2>4, <2>6
  \* Sums that fit are equal exactly when they are equal after wrapping.
  <2>9. a < WordSize /\ b + fee < WordSize =>
            (a = b + fee <=> (a % WordSize) = (((b % WordSize) + fee) % WordSize))
    <3> SUFFICES ASSUME a < WordSize, b + fee < WordSize
                 PROVE  (a % WordSize) = a /\ (((b % WordSize) + fee) % WordSize) = b + fee
      OBVIOUS
    <3>1. a \in 0 .. (WordSize - 1) /\ b \in 0 .. (WordSize - 1)
          /\ b + fee \in 0 .. (WordSize - 1)
      BY <2>7
    <3>2. (a % WordSize) = a /\ (b % WordSize) = b
      BY <2>7, <3>1, SmallModulo
    <3>3. ((b + fee) % WordSize) = b + fee
      BY <2>7, <3>1, SmallModulo
    <3>4. QED
      BY <3>2, <3>3
  \* A list without the commitments does not have the shape of a transfer.
  <2>10. Shaped(public, inputs, outputs) => published = OutputCommitments(outputs)
    <3> SUFFICES ASSUME outputs # << >>, Len(outputs) = Len(published), published = << >>
                 PROVE  FALSE
      BY <2>2 DEF Shaped
    <3>1. Len(outputs) = 0
      OBVIOUS
    <3>2. QED
      BY <3>1, TransferAssumption, EmptySeq
  <2>11. published = OutputCommitments(outputs) =>
             \A i \in DOMAIN outputs : published[i] = OutputCommitment(outputs[i])
    BY DEF OutputCommitments
  <2> DEFINE opens == \A i \in DOMAIN inputs : InputOpens(public, inputs[i])
             inputsOk == \A i \in DOMAIN inputs : InputOk(inputs[i])
             outputsOk == \A i \in DOMAIN outputs : OutputOk(outputs[i])
             committed == \A i \in DOMAIN outputs :
                              published[i] = OutputCommitment(outputs[i])
             shaped == Shaped(public, inputs, outputs)
  <2>12. VerifyPublicInputs(public, inputs, outputs) <=>
            /\ shaped /\ opens /\ inputsOk /\ outputsOk /\ committed
            /\ a < WordSize /\ b + fee < WordSize /\ a = b + fee
    BY <2>2, <2>8 DEF VerifyPublicInputs, Balanced
  <2>13. CircuitSatisfied(public, inputs, outputs) <=>
            /\ shaped /\ opens /\ published = OutputCommitments(outputs)
            /\ (a % WordSize) = (((b % WordSize) + fee) % WordSize)
    BY <2>2, <2>8 DEF CircuitSatisfied
  <2>14. shaped /\ opens => Contains(tree, proof.leaf)
    <3> SUFFICES ASSUME shaped, opens PROVE Contains(tree, proof.leaf)
      OBVIOUS
    <3>1. 1 \in DOMAIN inputs /\ inputs[1].proof = proof
      BY <2>4 DEF Shaped
    <3>2. RootFromProof(proof) = Root(tree)
      BY <2>2, <3>1 DEF InputOpens
    <3>3. QED
      BY <2>3, <3>2, NoForeignLeafVerifies DEF VerifyProof
  <2> HIDE DEF opens, inputsOk, outputsOk, committed, shaped
  <2>15. VerifyPublicInputs(public, inputs, outputs) <=>
            /\ CircuitSatisfied(public, inputs, outputs)
            /\ inputsOk /\ outputsOk
            /\ a < WordSize /\ b + fee < WordSize
    BY <2>9, <2>10, <2>11, <2>12, <2>13 DEF shaped, committed
  <2>16. VerifyPublicInputs(public, inputs, outputs) /\ FitsKey(inputs, outputs) =>
             GenerateTransferProof(public, inputs, outputs)
    BY <2>15 DEF GenerateTransferProof, VerifyTransferProof
  <2>17. CircuitSatisfied(public, inputs, outputs) =>
             /\ Contains(tree, proof.leaf)
             /\ a = b + fee \/ ~(a < WordSize /\ b + fee < WordSize)
    BY <2>9, <2>13, <2>14
  <2>18. QED
    BY <2>1, <2>8, <2>15, <2>16, <2>17 DEF inputsOk, outputsOk
<1>2. QED
  BY <1>1, ConversionAlways, ProofsAlwaysLists, ProofsAlwaysOfNotes, PTL

=============================================================================
