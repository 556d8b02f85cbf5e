----------------------------- MODULE SumLemmas -----------------------------
(***************************************************************************)
(* Induction over the natural numbers, in the first-order form the provers *)
(* can use, and what it shows of counts and sums.                          *)
(***************************************************************************)
EXTENDS Integers, FiniteSets, FiniteSetsExt, Functions, FiniteSetTheorems,
        WellFoundedInduction, TLAPS

(* A nonempty set of natural numbers has a least element.                  *)
LEMMA LeastNatural ==
  ASSUME NEW T \in SUBSET Nat, T # {}
  PROVE  \E x \in T : \A y \in T : x <= y
<1> DEFINE R == {ss \in Nat \X Nat : ss[1] < ss[2]}
<1>1. IsWellFoundedOn(R, Nat)
  BY NatLessThanWellFounded DEF OpToRel
<1>2. \A x, y \in Nat : y < x => <<y, x>> \in R
  OBVIOUS
<1> HIDE DEF R
<1>3. PICK x \in T : \A y \in T : ~(<<y, x>> \in R)
  BY <1>1, WFMin
<1>4. \A y \in T : ~(y < x)
  <2> TAKE y \in T
  <2>1. y \in Nat /\ x \in Nat
    OBVIOUS
  <2> QED BY <2>1, <1>2, <1>3
<1>5. \A y \in T : x \in Nat /\ y \in Nat
  OBVIOUS
<1> QED BY <1>4, <1>5

(* Induction over the natural numbers, for a set instead of a predicate.   *)
LEMMA NatSetInduction ==
  ASSUME NEW S, 0 \in S, \A n \in Nat : n \in S => n + 1 \in S
  PROVE  \A n \in Nat : n \in S
<1> DEFINE T == Nat \ S
<1> SUFFICES ASSUME T # {} PROVE FALSE
  OBVIOUS
<1>1. PICK x \in T : \A y \in T : x <= y
  BY LeastNatural
<1>2. x \in Nat /\ x # 0
  OBVIOUS
<1>3. x - 1 \in Nat
  BY <1>2
<1>4. x - 1 \notin T
  BY <1>1, <1>2, <1>3
<1>5. x - 1 \in S
  BY <1>3, <1>4
<1> QED BY <1>2, <1>3, <1>5

-----------------------------------------------------------------------------
(***************************************************************************)
(* Sums over a finite set.  The community modules fold them in an order    *)
(* they leave open; these lemmas show that it makes no difference.  They   *)
(* are proved by induction on the size of the set.                         *)
(***************************************************************************)
SumOf(f, S) == MapThenSumSet(LAMBDA x : f[x], S)

(* One unfolding of the fold over s, g being its value on smaller sets.    *)
OneOf(s) == CHOOSE x \in s : TRUE
Unfolded(f, g, s) == IF s = {} THEN 0 ELSE f[OneOf(s)] + g[s \ {OneOf(s)}]
Summed(f, S, g) == g = [s \in SUBSET S |-> Unfolded(f, g, s)]

(* The definition of a sum, unfolded.                                      *)
LEMMA SumIsChosen ==
  ASSUME NEW f, NEW S
  PROVE  SumOf(f, S) = (CHOOSE g : Summed(f, S, g))[S]
  BY DEF SumOf, MapThenSumSet, MapThenFoldSet, Summed, Unfolded, OneOf

(* What is taken from a nonempty finite set leaves a smaller one.          *)
LEMMA OneOfFacts ==
  ASSUME NEW s, IsFiniteSet(s), s # {}
  PROVE  /\ OneOf(s) \in s /\ IsFiniteSet(s \ {OneOf(s)})
         /\ Cardinality(s) \in Nat
         /\ Cardinality(s \ {OneOf(s)}) = Cardinality(s) - 1
<1>1. OneOf(s) \in s
  BY DEF OneOf
<1> QED BY <1>1, FS_RemoveElement, FS_CardinalityType

(* The fold of a finite set exists: it is built size by size.              *)
LEMMA SumExists ==
  ASSUME NEW f, NEW S, IsFiniteSet(S)
  PROVE  \E g : Summed(f, S, g)
<1> DEFINE UpTo(n) == {s \in SUBSET S : Cardinality(s) <= n}
           N == {n \in Nat : \E g : \A s \in UpTo(n) : g[s] = Unfolded(f, g, s)}
<1>1. \A s \in SUBSET S : IsFiniteSet(s) /\ Cardinality(s) \in Nat
                          /\ Cardinality(s) <= Cardinality(S)
  BY FS_Subset, FS_CardinalityType
<1>2. 0 \in N
  <2> DEFINE g == [s \in SUBSET S |-> 0]
  <2>1. ASSUME NEW s \in UpTo(0) PROVE g[s] = Unfolded(f, g, s)
    <3>1. s = {}
      BY <1>1, FS_EmptySet
    <3> QED BY <3>1 DEF Unfolded
  <2> QED BY <2>1
<1>3. ASSUME NEW n \in Nat, n \in N PROVE n + 1 \in N
  <2>1. PICK g : \A s \in UpTo(n) : g[s] = Unfolded(f, g, s)
    BY <1>3
  <2> DEFINE h == [s \in SUBSET S |-> IF Cardinality(s) <= n THEN g[s] ELSE Unfolded(f, g, s)]
  <2>2. ASSUME NEW s \in UpTo(n + 1) PROVE h[s] = Unfolded(f, h, s)
    <3>1. h[s] = Unfolded(f, g, s)
      BY <2>1
    <3>2. CASE s = {}
      BY <3>1, <3>2 DEF Unfolded
    <3>3. CASE s # {}
      <4> DEFINE r == s \ {OneOf(s)}
      <4>1. r \in SUBSET S /\ Cardinality(r) <= n
        BY <1>1, <3>3, OneOfFacts
      <4>2. h[r] = g[r]
        BY <4>1
      <4> HIDE DEF h
      <4> QED BY <3>1, <3>3, <4>2 DEF Unfolded
    <3> QED BY <3>2, <3>3
  <2> HIDE DEF h
  <2> QED BY <2>2
<1> HIDE DEF N
<1>4. Cardinality(S) \in N
  <2>1. \A n \in Nat : n \in N
    BY <1>2, <1>3, NatSetInduction
  <2> QED BY <1>1, <2>1
<1>5. PICK g : \A s \in SUBSET S : g[s] = Unfolded(f, g, s)
  BY <1>1, <1>4 DEF N
<1> DEFINE h == [s \in SUBSET S |-> g[s]]
<1>6. \A s \in SUBSET S : Unfolded(f, h, s) = Unfolded(f, g, s)
  <2>1. \A s \in SUBSET S : h[s \ {OneOf(s)}] = g[s \ {OneOf(s)}]
    OBVIOUS
  <2> HIDE DEF h
  <2> QED BY <2>1 DEF Unfolded
<1>7. Summed(f, S, h)
  <2>1. h = [s \in SUBSET S |-> Unfolded(f, h, s)]
    BY <1>5, <1>6
  <2> QED BY <2>1 DEF Summed
<1> QED BY <1>7

(* Folds over two sets agree on their common subsets.                      *)
LEMMA SumsAgree ==
  ASSUME NEW f, NEW S, IsFiniteSet(S), NEW T, NEW g, Summed(f, S, g), NEW h, Summed(f, T, h)
  PROVE  \A s \in (SUBSET S) \cap (SUBSET T) : g[s] = h[s]
<1> DEFINE N == {n \in Nat : \A s \in (SUBSET S) \cap (SUBSET T) :
                              Cardinality(s) = n => g[s] = h[s]}
<1>1. \A s \in SUBSET S : IsFiniteSet(s) /\ Cardinality(s) \in Nat
  BY FS_Subset, FS_CardinalityType
<1>2. \A s \in (SUBSET S) \cap (SUBSET T) : /\ g[s] = Unfolded(f, g, s)
                                            /\ h[s] = Unfolded(f, h, s)
  BY DEF Summed
<1>3. 0 \in N
  <2>1. ASSUME NEW s \in (SUBSET S) \cap (SUBSET T), Cardinality(s) = 0
        PROVE  g[s] = h[s]
    <3>1. s = {}
      BY <1>1, <2>1, FS_EmptySet
    <3> QED BY <1>2, <3>1 DEF Unfolded
  <2> QED BY <2>1
<1>4. ASSUME NEW n \in Nat, n \in N PROVE n + 1 \in N
  <2>1. ASSUME NEW s \in (SUBSET S) \cap (SUBSET T), Cardinality(s) = n + 1
        PROVE  g[s] = h[s]
    <3>1. s # {}
      BY <2>1, FS_EmptySet
    <3> DEFINE r == s \ {OneOf(s)}
    <3>2. r \in (SUBSET S) \cap (SUBSET T) /\ Cardinality(r) = n
      BY <1>1, <2>1, <3>1, OneOfFacts
    <3>3. g[r] = h[r]
      BY <1>4, <3>2
    <3> QED BY <1>2, <3>1, <3>3 DEF Unfolded
  <2> QED BY <2>1
<1> HIDE DEF N
<1>5. \A n \in Nat : n \in N
  BY <1>3, <1>4, NatSetInduction
<1> QED BY <1>1, <1>5 DEF N

(* A sum is its first term and the sum of the rest.                        *)
LEMMA SumUnfolds ==
  ASSUME NEW f, NEW S, IsFiniteSet(S)
  PROVE  /\ S = {} => SumOf(f, S) = 0
         /\ S # {} => SumOf(f, S) = f[OneOf(S)] + SumOf(f, S \ {OneOf(S)})
<1> DEFINE g == CHOOSE g : Summed(f, S, g)
           r == S \ {OneOf(S)}
           h == CHOOSE h : Summed(f, r, h)
<1>1. Summed(f, S, g) /\ SumOf(f, S) = g[S]
  BY SumExists, SumIsChosen
<1>2. IsFiniteSet(r)
  BY FS_RemoveElement
<1>3. Summed(f, r, h) /\ SumOf(f, r) = h[r]
  <2> HIDE DEF r
  <2> QED BY <1>2, SumExists, SumIsChosen
<1>4. g[r] = h[r]
  <2>1. r \in (SUBSET S) \cap (SUBSET r)
    OBVIOUS
  <2> HIDE DEF g, h, r
  <2> QED BY <1>1, <1>3, <2>1, SumsAgree
<1>5. g[S] = Unfolded(f, g, S)
  <2>1. S \in SUBSET S
    OBVIOUS
  <2> HIDE DEF g
  <2> QED BY <1>1, <2>1 DEF Summed
<1> HIDE DEF g, h
<1> QED BY <1>1, <1>3, <1>4, <1>5 DEF Unfolded

(* A sum of natural numbers is one, and any term of it may be taken first. *)
LEMMA SumTakesAny ==
  ASSUME NEW D, NEW f \in [D -> Nat]
  PROVE  \A S \in SUBSET D : IsFiniteSet(S) =>
           /\ SumOf(f, S) \in Nat
           /\ \A x \in S : SumOf(f, S) = f[x] + SumOf(f, S \ {x})
<1> DEFINE Any(S) == /\ SumOf(f, S) \in Nat
                     /\ \A x \in S : SumOf(f, S) = f[x] + SumOf(f, S \ {x})
           N == {n \in Nat : \A S \in SUBSET D :
                   IsFiniteSet(S) /\ Cardinality(S) <= n => Any(S)}
<1>1. Any({})
  <2>1. SumOf(f, {}) = 0
    BY FS_EmptySet, SumUnfolds
  <2> QED BY <2>1
<1> HIDE DEF Any
<1>2. 0 \in N
  <2>1. \A S \in SUBSET D : IsFiniteSet(S) /\ Cardinality(S) <= 0 => S = {}
    BY FS_EmptySet, FS_CardinalityType
  <2> QED BY <1>1, <2>1
<1>3. ASSUME NEW n \in Nat, n \in N PROVE n + 1 \in N
  <2>1. ASSUME NEW S \in SUBSET D, IsFiniteSet(S), Cardinality(S) <= n + 1, S # {}
        PROVE  Any(S)
    <3> DEFINE y == OneOf(S)
    <3>1. y \in S /\ SumOf(f, S) = f[y] + SumOf(f, S \ {y})
      BY <2>1, OneOfFacts, SumUnfolds
    <3>2. \A x \in S : IsFiniteSet(S \ {x}) /\ Cardinality(S \ {x}) <= n
      <4>1. Cardinality(S) \in Nat
        BY <2>1, FS_CardinalityType
      <4>2. \A x \in S : /\ IsFiniteSet(S \ {x})
                         /\ Cardinality(S \ {x}) = Cardinality(S) - 1
        BY <2>1, FS_RemoveElement
      <4> QED BY <2>1, <4>1, <4>2
    <3>3. \A x \in S : Any(S \ {x})
      BY <1>3, <3>2
    <3> HIDE DEF y, N
    <3>4. SumOf(f, S) \in Nat
      <4>1. f[y] \in Nat /\ SumOf(f, S \ {y}) \in Nat
        BY <3>1, <3>3 DEF Any
      <4> QED BY <3>1, <4>1
    <3>5. ASSUME NEW x \in S, x # y PROVE SumOf(f, S) = f[x] + SumOf(f, S \ {x})
      <4> DEFINE rest == (S \ {y}) \ {x}
      <4>1. x \in S \ {y} /\ y \in S \ {x} /\ rest = (S \ {x}) \ {y}
        BY <3>1, <3>5
      <4>2. SumOf(f, S \ {y}) = f[x] + SumOf(f, rest)
        BY <3>1, <3>3, <4>1 DEF Any
      <4>3. SumOf(f, S \ {x}) = f[y] + SumOf(f, rest)
        BY <3>3, <4>1 DEF Any
      <4>4. IsFiniteSet(rest) /\ Cardinality(rest) <= n /\ rest \in SUBSET D
        <5> DEFINE most == S \ {y}
        <5>1. /\ IsFiniteSet(most) /\ Cardinality(most) <= n /\ x \in most
              /\ most \in SUBSET D
          BY <3>1, <3>2, <4>1
        <5> HIDE DEF most
        <5>2. /\ Cardinality(most) \in Nat /\ IsFiniteSet(most \ {x})
              /\ Cardinality(most \ {x}) = Cardinality(most) - 1
          BY <5>1, FS_RemoveElement, FS_CardinalityType
        <5>3. Cardinality(most \ {x}) <= n /\ most \ {x} \in SUBSET D
          BY <5>1, <5>2
        <5> QED BY <5>2, <5>3 DEF most
      <4>5. SumOf(f, rest) \in Nat /\ f[x] \in Nat /\ f[y] \in Nat
        BY <1>3, <3>1, <4>4 DEF Any, N
      <4> HIDE DEF rest
      <4> QED BY <3>1, <4>2, <4>3, <4>5
    <3> QED BY <3>1, <3>4, <3>5 DEF Any
  <2> QED BY <1>1, <2>1
<1> HIDE DEF N
<1>4. \A n \in Nat : n \in N
  BY <1>2, <1>3, NatSetInduction
<1>5. \A S \in SUBSET D : IsFiniteSet(S) => Any(S)
  BY <1>4, FS_CardinalityType DEF N
<1> QED BY <1>5 DEF Any

(* One more term.                                                          *)
LEMMA SumAdd ==
  ASSUME NEW D, NEW f \in [D -> Nat], NEW S \in SUBSET D, IsFiniteSet(S),
         NEW x \in D \ S
  PROVE  SumOf(f, S \cup {x}) = SumOf(f, S) + f[x]
<1> DEFINE T == S \cup {x}
<1>1. T \in SUBSET D /\ IsFiniteSet(T) /\ x \in T /\ T \ {x} = S
  BY FS_AddElement
<1>2. SumOf(f, T) = f[x] + SumOf(f, S) /\ SumOf(f, S) \in Nat
  <2> HIDE DEF T
  <2> QED BY <1>1, SumTakesAny
<1> QED BY <1>2

(* A sum of smaller terms is smaller.                                      *)
LEMMA SumMonotone ==
  ASSUME NEW D, NEW f \in [D -> Nat], NEW g \in [D -> Nat],
         \A x \in D : f[x] <= g[x]
  PROVE  \A S \in SUBSET D : IsFiniteSet(S) => SumOf(f, S) <= SumOf(g, S)
<1> DEFINE N == {n \in Nat : \A S \in SUBSET D :
                   IsFiniteSet(S) /\ Cardinality(S) = n => SumOf(f, S) <= SumOf(g, S)}
<1>1. 0 \in N
  <2>1. \A S \in SUBSET D : IsFiniteSet(S) /\ Cardinality(S) = 0 => S = {}
    BY FS_EmptySet
  <2>2. SumOf(f, {}) = 0 /\ SumOf(g, {}) = 0
    BY FS_EmptySet, SumUnfolds
  <2> QED BY <2>1, <2>2
<1>2. ASSUME NEW n \in Nat, n \in N PROVE n + 1 \in N
  <2>1. ASSUME NEW S \in SUBSET D, IsFiniteSet(S), Cardinality(S) = n + 1
        PROVE  SumOf(f, S) <= SumOf(g, S)
    <3>1. S # {}
      BY <2>1, FS_EmptySet
    <3> DEFINE x == OneOf(S)
               r == S \ {x}
    <3>2. x \in S /\ IsFiniteSet(r) /\ Cardinality(r) = n /\ r \in SUBSET D
      BY <2>1, <3>1, OneOfFacts
    <3>3. SumOf(f, S) = f[x] + SumOf(f, r) /\ SumOf(g, S) = g[x] + SumOf(g, r)
      BY <2>1, <3>1, SumUnfolds
    <3> HIDE DEF x, r
    <3>4. SumOf(f, r) <= SumOf(g, r)
      BY <1>2, <3>2
    <3>5. SumOf(f, r) \in Nat /\ SumOf(g, r) \in Nat
      BY <3>2, SumTakesAny
    <3>6. f[x] \in Nat /\ g[x] \in Nat /\ f[x] <= g[x]
      BY <3>2
    <3> QED BY <3>3, <3>4, <3>5, <3>6
  <2> QED BY <2>1
<1> HIDE DEF N
<1>3. \A n \in Nat : n \in N
  BY <1>1, <1>2, NatSetInduction
<1> QED BY <1>3, FS_CardinalityType DEF N

(* Induction over the finite subsets of a set, an element at a time.       *)
LEMMA UnfoldedSubsets ==
  ASSUME NEW D, NEW A, {} \in A,
         \A S \in SUBSET D : IsFiniteSet(S) /\ S # {} /\ S \ {OneOf(S)} \in A => S \in A
  PROVE  \A S \in SUBSET D : IsFiniteSet(S) => S \in A
<1> DEFINE N == {n \in Nat : \A S \in SUBSET D : IsFiniteSet(S) /\ Cardinality(S) = n => S \in A}
<1>1. 0 \in N
  <2>1. \A S \in SUBSET D : IsFiniteSet(S) /\ Cardinality(S) = 0 => S = {}
    BY FS_EmptySet
  <2> QED BY <2>1
<1>2. ASSUME NEW n \in Nat, n \in N PROVE n + 1 \in N
  <2>1. ASSUME NEW S \in SUBSET D, IsFiniteSet(S), Cardinality(S) = n + 1 PROVE S \in A
    <3>1. S # {}
      BY <2>1, FS_EmptySet
    <3> DEFINE x == OneOf(S)
               r == S \ {x}
    <3>2. x \in S /\ IsFiniteSet(r) /\ Cardinality(r) = n /\ r \in SUBSET D
      BY <2>1, <3>1, OneOfFacts
    <3>3. r \in A
      BY <1>2, <3>2
    <3> QED BY <2>1, <3>1, <3>3
  <2> QED BY <2>1
<1> HIDE DEF N
<1>3. \A n \in Nat : n \in N
  BY <1>1, <1>2, NatSetInduction
<1> QED BY <1>3, FS_CardinalityType DEF N

(* The same, whichever element is left out.                                *)
LEMMA FiniteSubsets ==
  ASSUME NEW D, NEW A, {} \in A,
         \A S \in SUBSET D : \A x \in S : IsFiniteSet(S) /\ S \ {x} \in A => S \in A
  PROVE  \A S \in SUBSET D : IsFiniteSet(S) => S \in A
<1>1. \A S \in SUBSET D : IsFiniteSet(S) /\ S # {} /\ S \ {OneOf(S)} \in A => S \in A
  BY OneOfFacts
<1> QED BY <1>1, UnfoldedSubsets

(* A sum of sums.                                                          *)
LEMMA SumPlus ==
  ASSUME NEW D, IsFiniteSet(D), NEW f \in [D -> Nat], NEW g \in [D -> Nat],
         NEW h \in [D -> Nat], \A x \in D : h[x] = f[x] + g[x]
  PROVE  SumOf(h, D) = SumOf(f, D) + SumOf(g, D)
<1> DEFINE A == {S \in SUBSET D : SumOf(h, S) = SumOf(f, S) + SumOf(g, S)}
<1>1. {} \in A
  <2>1. SumOf(f, {}) = 0 /\ SumOf(g, {}) = 0 /\ SumOf(h, {}) = 0
    BY FS_EmptySet, SumUnfolds
  <2> QED BY <2>1
<1>2. ASSUME NEW S \in SUBSET D, NEW x \in S, IsFiniteSet(S), S \ {x} \in A PROVE S \in A
  <2> DEFINE r == S \ {x}
  <2>1. IsFiniteSet(r) /\ r \in SUBSET D
    BY <1>2, FS_RemoveElement
  <2>2. /\ SumOf(f, S) = f[x] + SumOf(f, r) /\ SumOf(g, S) = g[x] + SumOf(g, r)
        /\ SumOf(h, S) = h[x] + SumOf(h, r)
    BY <1>2, SumTakesAny
  <2> HIDE DEF r
  <2>3. SumOf(f, r) \in Nat /\ SumOf(g, r) \in Nat /\ SumOf(h, r) \in Nat
    BY <2>1, SumTakesAny
  <2>4. /\ SumOf(h, r) = SumOf(f, r) + SumOf(g, r)
        /\ f[x] \in Nat /\ g[x] \in Nat /\ h[x] = f[x] + g[x]
    BY <1>2 DEF r
  <2> QED BY <2>2, <2>3, <2>4
<1> HIDE DEF A
<1>3. \A S \in SUBSET D : IsFiniteSet(S) => S \in A
  BY <1>1, <1>2, FiniteSubsets
<1> QED BY <1>3 DEF A

(* A common factor.                                                        *)
LEMMA SumScale ==
  ASSUME NEW D, IsFiniteSet(D), NEW f \in [D -> Nat], NEW c \in Nat,
         NEW h \in [D -> Nat], \A x \in D : h[x] = c * f[x]
  PROVE  SumOf(h, D) = c * SumOf(f, D)
<1> DEFINE A == {S \in SUBSET D : SumOf(h, S) = c * SumOf(f, S)}
<1>1. {} \in A
  <2>1. SumOf(f, {}) = 0 /\ SumOf(h, {}) = 0
    BY FS_EmptySet, SumUnfolds
  <2> QED BY <2>1
<1>2. ASSUME NEW S \in SUBSET D, NEW x \in S, IsFiniteSet(S), S \ {x} \in A PROVE S \in A
  <2> DEFINE r == S \ {x}
  <2>1. IsFiniteSet(r) /\ r \in SUBSET D
    BY <1>2, FS_RemoveElement
  <2>2. SumOf(f, S) = f[x] + SumOf(f, r) /\ SumOf(h, S) = h[x] + SumOf(h, r)
    BY <1>2, SumTakesAny
  <2> HIDE DEF r
  <2>3. SumOf(f, r) \in Nat /\ SumOf(h, r) \in Nat
    BY <2>1, SumTakesAny
  <2>4. SumOf(h, r) = c * SumOf(f, r) /\ f[x] \in Nat /\ h[x] = c * f[x]
    BY <1>2 DEF r
  <2>5. \A a, b \in Nat : c * (a + b) = c * a + c * b
    OBVIOUS
  <2> QED BY <2>2, <2>3, <2>4, <2>5
<1> HIDE DEF A
<1>3. \A S \in SUBSET D : IsFiniteSet(S) => S \in A
  BY <1>1, <1>2, FiniteSubsets
<1> QED BY <1>3 DEF A

(* Terms outside a set that are zero do not count.                         *)
LEMMA SumOutside ==
  ASSUME NEW D, IsFiniteSet(D), NEW T \in SUBSET D, NEW f \in [T -> Nat], NEW h \in [D -> Nat],
         \A x \in D : h[x] = IF x \in T THEN f[x] ELSE 0
  PROVE  SumOf(h, D) = SumOf(f, T)
<1> DEFINE A == {S \in SUBSET D : SumOf(h, S) = SumOf(f, S \cap T)}
<1>1. {} \in A
  <2>1. SumOf(f, {}) = 0 /\ SumOf(h, {}) = 0 /\ {} \cap T = {}
    BY FS_EmptySet, SumUnfolds
  <2> QED BY <2>1
<1>2. ASSUME NEW S \in SUBSET D, NEW x \in S, IsFiniteSet(S), S \ {x} \in A PROVE S \in A
  <2> DEFINE r == S \ {x}
  <2>1. IsFiniteSet(r) /\ r \in SUBSET D /\ IsFiniteSet(S \cap T) /\ IsFiniteSet(r \cap T)
    BY <1>2, FS_RemoveElement, FS_Intersection
  <2>2. SumOf(h, S) = h[x] + SumOf(h, r)
    BY <1>2, SumTakesAny
  <2>3. SumOf(h, r) = SumOf(f, r \cap T) /\ SumOf(h, r) \in Nat
    BY <1>2, <2>1, SumTakesAny
  <2>4. CASE x \in T
    <3>1. (S \cap T) \ {x} = r \cap T /\ x \in S \cap T /\ S \cap T \in SUBSET T
      BY <2>4
    <3> HIDE DEF r
    <3>2. SumOf(f, S \cap T) = f[x] + SumOf(f, r \cap T)
      BY <2>1, <3>1, SumTakesAny
    <3>3. h[x] = f[x]
      BY <2>4
    <3> QED BY <2>2, <2>3, <3>2, <3>3
  <2>5. CASE x \notin T
    <3>1. S \cap T = r \cap T /\ h[x] = 0
      BY <2>5
    <3> HIDE DEF r
    <3> QED BY <2>2, <2>3, <3>1
  <2> QED BY <2>4, <2>5
<1> HIDE DEF A
<1>3. \A S \in SUBSET D : IsFiniteSet(S) => S \in A
  BY <1>1, <1>2, FiniteSubsets
<1>4. D \cap T = T
  OBVIOUS
<1> QED BY <1>3, <1>4 DEF A

(* Counting: a sum of ones.                                                *)
LEMMA SumCounts ==
  ASSUME NEW D, IsFiniteSet(D), NEW f \in [D -> Nat], \A x \in D : f[x] = 1
  PROVE  SumOf(f, D) = Cardinality(D)
<1> DEFINE A == {S \in SUBSET D : SumOf(f, S) = Cardinality(S)}
<1>1. {} \in A
  BY FS_EmptySet, SumUnfolds
<1>2. ASSUME NEW S \in SUBSET D, NEW x \in S, IsFiniteSet(S), S \ {x} \in A PROVE S \in A
  <2>1. SumOf(f, S) = f[x] + SumOf(f, S \ {x})
    BY <1>2, SumTakesAny
  <2>2. Cardinality(S) \in Nat /\ Cardinality(S \ {x}) = Cardinality(S) - 1
    BY <1>2, FS_RemoveElement, FS_CardinalityType
  <2> QED BY <1>2, <2>1, <2>2
<1> HIDE DEF A
<1>3. \A S \in SUBSET D : IsFiniteSet(S) => S \in A
  BY <1>1, <1>2, FiniteSubsets
<1> QED BY <1>3 DEF A

(* A sum is nothing exactly when each of its terms is.                     *)
LEMMA SumOfNothing ==
  ASSUME NEW D, IsFiniteSet(D), NEW f \in [D -> Nat]
  PROVE  SumOf(f, D) = 0 <=> \A x \in D : f[x] = 0
<1>1. ASSUME SumOf(f, D) = 0, NEW x \in D PROVE f[x] = 0
  <2>1. IsFiniteSet(D \ {x}) /\ D \ {x} \in SUBSET D
    BY FS_RemoveElement
  <2>2. SumOf(f, D) = f[x] + SumOf(f, D \ {x}) /\ SumOf(f, D \ {x}) \in Nat
    BY <2>1, SumTakesAny
  <2> QED BY <1>1, <2>2
<1>2. ASSUME \A x \in D : f[x] = 0 PROVE SumOf(f, D) = 0
  <2>1. SumOf(f, D) = 0 * SumOf(f, D)
    BY <1>2, SumScale
  <2>2. SumOf(f, D) \in Nat
    BY SumTakesAny
  <2> QED BY <2>1, <2>2
<1> QED BY <1>1, <1>2

(* A sum depends on its terms only.                                        *)
LEMMA SumSame ==
  ASSUME NEW D, IsFiniteSet(D), NEW f \in [D -> Nat], NEW E, NEW g \in [E -> Nat],
         NEW T \in SUBSET D, T \subseteq E, \A x \in T : f[x] = g[x]
  PROVE  SumOf(f, T) = SumOf(g, T)
<1> DEFINE A == {S \in SUBSET T : SumOf(f, S) = SumOf(g, S)}
<1>1. {} \in A
  BY FS_EmptySet, SumUnfolds
<1>2. ASSUME NEW S \in SUBSET T, NEW x \in S, IsFiniteSet(S), S \ {x} \in A PROVE S \in A
  <2>1. SumOf(f, S) = f[x] + SumOf(f, S \ {x}) /\ SumOf(g, S) = g[x] + SumOf(g, S \ {x})
    BY <1>2, SumTakesAny
  <2> QED BY <1>2, <2>1
<1> HIDE DEF A
<1>3. \A S \in SUBSET T : IsFiniteSet(S) => S \in A
  BY <1>1, <1>2, FiniteSubsets
<1>4. IsFiniteSet(T)
  BY FS_Subset
<1> QED BY <1>3, <1>4 DEF A

-----------------------------------------------------------------------------
(* Division.                                                               *)
LEMMA DivisionFacts ==
  ASSUME NEW a \in Nat, NEW c \in Nat \ {0}
  PROVE  /\ a \div c \in Nat /\ a % c \in 0..(c - 1)
         /\ c * (a \div c) \in Nat /\ a = c * (a \div c) + (a % c)
<1>1. a \div c \in Nat /\ a % c \in 0..(c - 1) /\ a = c * (a \div c) + (a % c)
  OBVIOUS
<1>2. \A x, y \in Nat : x * y \in Nat
  OBVIOUS
<1> QED BY <1>1, <1>2

LEMMA DivisionKeepsOrder ==
  ASSUME NEW a \in Nat, NEW b \in Nat, NEW c \in Nat \ {0}, a >= b
  PROVE  /\ a \div c >= b \div c
         /\ a > b /\ a \div c = b \div c => a % c > b % c
<1> DEFINE p == a \div c
           q == b \div c
           r == a % c
           s == b % c
<1>1. /\ p \in Nat /\ r \in 0..(c - 1) /\ c * p \in Nat /\ a = c * p + r
      /\ q \in Nat /\ s \in 0..(c - 1) /\ c * q \in Nat /\ b = c * q + s
  BY DivisionFacts
<1> HIDE DEF p, q, r, s
<1>2. p >= q
  <2>1. SUFFICES ASSUME p + 1 <= q PROVE FALSE
    BY <1>1
  <2>2. c * p + c <= c * q
    <3>1. q - p - 1 \in Nat /\ q = p + 1 + (q - p - 1)
      BY <1>1, <2>1
    <3>2. c * q = c * p + c + c * (q - p - 1)
      BY <1>1, <3>1
    <3>3. \A x, y \in Nat : x * y \in Nat
      OBVIOUS
    <3>4. c * (q - p - 1) \in Nat
      BY <3>1, <3>3
    <3> QED BY <1>1, <3>2, <3>4
  <2> QED BY <1>1, <2>2
<1>3. a > b /\ p = q => r > s
  BY <1>1
<1> QED BY <1>2, <1>3 DEF p, q, r, s

-----------------------------------------------------------------------------
(***************************************************************************)
(* Places in a strict total order R of a finite set, and sharing out one   *)
(* unit each to the first ones.                                            *)
(***************************************************************************)
OrderOn(R, S) ==
  /\ \A x \in S : <<x, x>> \notin R
  /\ \A x, y, z \in S : <<x, y>> \in R /\ <<y, z>> \in R => <<x, z>> \in R
  /\ \A x, y \in S : x = y \/ <<x, y>> \in R \/ <<y, x>> \in R

Earlier(R, S, x) == {y \in S : <<y, x>> \in R}
PlaceIn(R, S, x)  == Cardinality(Earlier(R, S, x))

(* No two elements have the same place, and some element is the first.     *)
LEMMA Places ==
  ASSUME NEW R, NEW S, IsFiniteSet(S), OrderOn(R, S)
  PROVE  /\ \A x \in S : PlaceIn(R, S, x) \in 0..(Cardinality(S) - 1)
         /\ \A x, y \in S : <<x, y>> \in R => PlaceIn(R, S, x) < PlaceIn(R, S, y)
         /\ \A x, y \in S : PlaceIn(R, S, x) = PlaceIn(R, S, y) => x = y
         /\ S # {} => \E x \in S : PlaceIn(R, S, x) = 0
<1>1. Cardinality(S) \in Nat
  BY FS_CardinalityType
<1>2. ASSUME NEW x \in S
      PROVE  /\ IsFiniteSet(Earlier(R, S, x)) /\ PlaceIn(R, S, x) \in Nat
             /\ PlaceIn(R, S, x) < Cardinality(S)
  <2>1. Earlier(R, S, x) \in SUBSET (S \ {x})
    BY DEF Earlier, OrderOn
  <2>2. IsFiniteSet(S \ {x}) /\ Cardinality(S \ {x}) = Cardinality(S) - 1
    BY FS_RemoveElement
  <2>3. /\ IsFiniteSet(Earlier(R, S, x))
        /\ Cardinality(Earlier(R, S, x)) <= Cardinality(S \ {x})
    BY <2>1, <2>2, FS_Subset
  <2> QED BY <1>1, <2>2, <2>3, FS_CardinalityType DEF PlaceIn
<1>3. ASSUME NEW x \in S, NEW y \in S, <<x, y>> \in R
      PROVE  PlaceIn(R, S, x) < PlaceIn(R, S, y)
  <2> DEFINE T == Earlier(R, S, x) \cup {x}
  <2>1. T \in SUBSET Earlier(R, S, y) /\ x \notin Earlier(R, S, x)
    BY <1>3 DEF Earlier, OrderOn
  <2>2. Cardinality(T) = PlaceIn(R, S, x) + 1
    BY <1>2, <2>1, FS_AddElement DEF PlaceIn
  <2>3. Cardinality(T) <= PlaceIn(R, S, y)
    <3> HIDE DEF T
    <3> QED BY <1>2, <2>1, FS_Subset DEF PlaceIn
  <2> QED BY <1>2, <2>2, <2>3
<1>4. \A x, y \in S : PlaceIn(R, S, x) = PlaceIn(R, S, y) => x = y
  <2> SUFFICES ASSUME NEW x \in S, NEW y \in S, PlaceIn(R, S, x) = PlaceIn(R, S, y), x # y
               PROVE  FALSE
    OBVIOUS
  <2>1. PlaceIn(R, S, x) < PlaceIn(R, S, y) \/ PlaceIn(R, S, y) < PlaceIn(R, S, x)
    BY <1>3 DEF OrderOn
  <2> QED BY <1>2, <2>1
<1>5. ASSUME S # {} PROVE \E x \in S : PlaceIn(R, S, x) = 0
  <2> DEFINE P == {PlaceIn(R, S, x) : x \in S}
  <2>1. P \in SUBSET Nat /\ P # {}
    BY <1>2, <1>5
  <2> HIDE DEF P
  <2>2. PICK p \in P : \A r \in P : p <= r
    BY <2>1, LeastNatural
  <2>3. PICK x \in S : p = PlaceIn(R, S, x)
    BY DEF P
  <2>4. Earlier(R, S, x) = {}
    <3>1. SUFFICES ASSUME NEW y \in Earlier(R, S, x) PROVE FALSE
      OBVIOUS
    <3>2. y \in S /\ <<y, x>> \in R
      BY DEF Earlier
    <3>3. PlaceIn(R, S, y) < PlaceIn(R, S, x) /\ PlaceIn(R, S, y) \in P
      BY <1>3, <3>2 DEF P
    <3> QED BY <1>2, <2>2, <2>3, <3>2, <3>3
  <2> QED BY <2>4, FS_EmptySet DEF PlaceIn
<1>6. \A x \in S : PlaceIn(R, S, x) \in 0..(Cardinality(S) - 1)
  BY <1>1, <1>2
<1> QED BY <1>3, <1>4, <1>5, <1>6

(* At most n elements have one of the first n places.                      *)
LEMMA FirstPlaces ==
  ASSUME NEW R, NEW S, IsFiniteSet(S), OrderOn(R, S), NEW n \in Nat
  PROVE  Cardinality({x \in S : PlaceIn(R, S, x) < n}) <= n
<1> DEFINE T == {x \in S : PlaceIn(R, S, x) < n}
           at == [x \in T |-> PlaceIn(R, S, x)]
<1>1. /\ \A x \in S : PlaceIn(R, S, x) \in 0..(Cardinality(S) - 1)
      /\ \A x, y \in S : PlaceIn(R, S, x) = PlaceIn(R, S, y) => x = y
  BY Places
<1>2. \A x \in T : PlaceIn(R, S, x) \in 0..(n - 1)
  BY <1>1, FS_CardinalityType
<1>3. at \in Injection(T, 0..(n - 1))
  BY <1>1, <1>2 DEF Injection, IsInjective
<1>4. IsFiniteSet(0..(n - 1)) /\ Cardinality(0..(n - 1)) = n
  <2>1. n - 1 \in Int /\ 0 \in Int
    OBVIOUS
  <2>2. /\ IsFiniteSet(0..(n - 1))
        /\ Cardinality(0..(n - 1)) = IF 0 > n - 1 THEN 0 ELSE n - 1 - 0 + 1
    BY <2>1, FS_Interval
  <2> QED BY <2>2
<1> HIDE DEF T, at
<1>5. Cardinality(T) <= n
  BY <1>3, <1>4, FS_Injection
<1> QED BY <1>5 DEF T

(* One unit more for each of the first n: no more than n units are given,  *)
(* somebody gets one, and nobody gets more than one who comes earlier.     *)
LEMMA UnitsForTheFirst ==
  ASSUME NEW R, NEW S, IsFiniteSet(S), OrderOn(R, S), NEW n \in Nat, NEW base \in [S -> Nat],
         NEW share, share = [x \in S |-> base[x] + IF PlaceIn(R, S, x) < n THEN 1 ELSE 0]
  PROVE  /\ share \in [S -> Nat]
         /\ SumOf(share, S) <= SumOf(base, S) + n
         /\ n > 0 /\ S # {} => \E x \in S : share[x] >= 1
         /\ \A x, y \in S : <<x, y>> \in R /\ base[x] >= base[y] => share[x] >= share[y]
         /\ \A x, y \in S : base[x] > base[y] => share[x] >= share[y]
<1> DEFINE T == {x \in S : PlaceIn(R, S, x) < n}
           unit == [x \in S |-> IF x \in T THEN 1 ELSE 0]
           one == [x \in T |-> 1]
<1>1. /\ share \in [S -> Nat] /\ unit \in [S -> Nat] /\ one \in [T -> Nat]
      /\ \A x \in S : share[x] = base[x] + unit[x]
      /\ \A x \in S : base[x] \in Nat /\ unit[x] \in 0..1
  OBVIOUS
<1>2. SumOf(share, S) <= SumOf(base, S) + n
  <2>1. T \in SUBSET S /\ IsFiniteSet(T) /\ Cardinality(T) <= n
    BY FirstPlaces, FS_Subset
  <2>2. SumOf(share, S) = SumOf(base, S) + SumOf(unit, S)
    <3> HIDE DEF unit
    <3> QED BY <1>1, SumPlus
  <2>3. SumOf(unit, S) = SumOf(one, T)
    <3>1. \A x \in S : unit[x] = IF x \in T THEN one[x] ELSE 0
      OBVIOUS
    <3> HIDE DEF unit, one, T
    <3> QED BY <1>1, <2>1, <3>1, SumOutside
  <2>4. SumOf(one, T) = Cardinality(T)
    <3>1. \A x \in T : one[x] = 1
      OBVIOUS
    <3> HIDE DEF one, T
    <3> QED BY <1>1, <2>1, <3>1, SumCounts
  <2>5. SumOf(base, S) \in Nat /\ Cardinality(T) \in Nat
    BY <2>1, SumTakesAny, FS_CardinalityType
  <2> HIDE DEF unit, one, T
  <2> QED BY <2>1, <2>2, <2>3, <2>4, <2>5
<1>3. ASSUME n > 0, S # {} PROVE \E x \in S : share[x] >= 1
  <2>1. PICK x \in S : PlaceIn(R, S, x) = 0
    BY <1>3, Places
  <2>2. unit[x] = 1
    BY <1>3, <2>1
  <2> HIDE DEF unit
  <2> QED BY <1>1, <2>2
<1>4. ASSUME NEW x \in S, NEW y \in S, <<x, y>> \in R PROVE unit[x] >= unit[y]
  <2>1. /\ PlaceIn(R, S, x) < PlaceIn(R, S, y)
        /\ PlaceIn(R, S, x) \in 0..(Cardinality(S) - 1) /\ PlaceIn(R, S, y) \in 0..(Cardinality(S) - 1)
    BY <1>4, Places
  <2>2. Cardinality(S) \in Nat
    BY FS_CardinalityType
  <2> QED BY <2>1, <2>2
<1> HIDE DEF unit
<1>5. \A x, y \in S : <<x, y>> \in R /\ base[x] >= base[y] => share[x] >= share[y]
  BY <1>1, <1>4
<1>6. \A x, y \in S : base[x] > base[y] => share[x] >= share[y]
  BY <1>1
<1> QED BY <1>1, <1>2, <1>3, <1>5, <1>6

(* A sum of bounded multiples is bounded by the multiples of the sum.      *)
LEMMA SumBetween ==
  ASSUME NEW D, NEW S \in SUBSET D, IsFiniteSet(S), NEW f \in [D -> Nat], NEW g \in [D -> Int],
         NEW low \in Int, NEW high \in Int,
         \A x \in S : low * f[x] <= g[x] /\ g[x] <= high * f[x]
  PROVE  /\ SumOf(g, S) \in Int /\ SumOf(f, S) \in Nat
         /\ low * SumOf(f, S) <= SumOf(g, S) /\ SumOf(g, S) <= high * SumOf(f, S)
<1> DEFINE A == {T \in SUBSET S : /\ SumOf(g, T) \in Int /\ SumOf(f, T) \in Nat
                                  /\ low * SumOf(f, T) <= SumOf(g, T)
                                  /\ SumOf(g, T) <= high * SumOf(f, T)}
<1>1. {} \in A
  <2>1. SumOf(g, {}) = 0 /\ SumOf(f, {}) = 0
    BY FS_EmptySet, SumUnfolds
  <2>2. low * 0 = 0 /\ high * 0 = 0
    OBVIOUS
  <2> QED BY <2>1, <2>2
<1>2. ASSUME NEW T \in SUBSET S, IsFiniteSet(T), T # {}, T \ {OneOf(T)} \in A PROVE T \in A
  <2> DEFINE x == OneOf(T)
             r == T \ {x}
             a == SumOf(g, r)
             b == SumOf(f, r)
  <2>1. x \in T /\ x \in D /\ x \in S
    BY <1>2, OneOfFacts
  <2>2. SumOf(g, T) = g[x] + a /\ SumOf(f, T) = f[x] + b
    BY <1>2, SumUnfolds
  <2>3. a \in Int /\ b \in Nat /\ low * b <= a /\ a <= high * b
    BY <1>2
  <2> HIDE DEF x, r, a, b
  <2>4. g[x] \in Int /\ f[x] \in Nat /\ low * f[x] <= g[x] /\ g[x] <= high * f[x]
    BY <2>1
  <2>5. low * (f[x] + b) = low * f[x] + low * b /\ high * (f[x] + b) = high * f[x] + high * b
    BY <2>3, <2>4
  <2>6. \A m, n \in Int : m * n \in Int
    OBVIOUS
  <2>7. low * f[x] \in Int /\ low * b \in Int /\ high * f[x] \in Int /\ high * b \in Int
    BY <2>3, <2>4, <2>6
  <2>8. low * (f[x] + b) <= g[x] + a /\ g[x] + a <= high * (f[x] + b)
    BY <2>3, <2>4, <2>5, <2>7
  <2> QED BY <2>2, <2>3, <2>4, <2>8
<1> HIDE DEF A
<1>3. \A T \in SUBSET S : IsFiniteSet(T) => T \in A
  BY <1>1, <1>2, UnfoldedSubsets
<1> QED BY <1>3 DEF A


(* A function that is another one on a part and 0 elsewhere.               *)
LEMMA SumWithin ==
  ASSUME NEW D, IsFiniteSet(D), NEW T \in SUBSET D, NEW E, T \subseteq E,
         NEW f \in [E -> Nat], NEW h \in [D -> Nat],
         \A x \in D : h[x] = IF x \in T THEN f[x] ELSE 0
  PROVE  SumOf(h, D) = SumOf(f, T)
<1> DEFINE g == [x \in T |-> f[x]]
<1>1. g \in [T -> Nat] /\ \A x \in T : g[x] = f[x]
  OBVIOUS
<1>2. IsFiniteSet(T) /\ T \in SUBSET T /\ \A x \in D : h[x] = IF x \in T THEN g[x] ELSE 0
  BY FS_Subset
<1> HIDE DEF g
<1>3. SumOf(h, D) = SumOf(g, T)
  BY <1>1, <1>2, SumOutside
<1>4. SumOf(g, T) = SumOf(f, T)
  BY <1>1, <1>2, SumSame
<1> QED BY <1>3, <1>4
=============================================================================
