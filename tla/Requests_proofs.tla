---------------------------- MODULE Requests_proofs ----------------------------
(***************************************************************************)
(* What the proofs about the components rest on: sums over the rows of a   *)
(* table, and what a handler that commits leaves alone.                    *)
(*                                                                         *)
(* SumFunctionOnSet is a fold, so its value is one of a function defined by *)
(* recursion over the parts of a set.  That function is shown to exist by  *)
(* induction on the number of elements, in the form that speaks of a set   *)
(* of numbers; it follows from the well-foundedness of <.                  *)
(***************************************************************************)
EXTENDS Requests, FiniteSetTheorems, SequenceTheorems, WellFoundedInduction, TLAPS

-----------------------------------------------------------------------------
(* Sums *)

\* Induction over the natural numbers, for a set that holds those with a property.
LEMMA NatSetInduction ==
    ASSUME NEW S, 0 \in S, \A n \in Nat : n \in S => n + 1 \in S
    PROVE  Nat \subseteq S
<1> SUFFICES ASSUME Nat \ S # {} PROVE FALSE
  OBVIOUS
<1>1. OpToRel(<, Nat) = {ss \in Nat \X Nat : ss[1] < ss[2]}
  BY Zenon DEF OpToRel
<1>2. \E m \in Nat \ S : \A n \in Nat \ S : ~ (<<n, m>> \in {ss \in Nat \X Nat : ss[1] < ss[2]})
  <2>1. \E m \in Nat \ S : \A n \in Nat \ S : ~ (<<n, m>> \in OpToRel(<, Nat))
    BY NatLessThanWellFounded, WFMin, Zenon
  <2>2. QED
    BY <2>1, <1>1, Zenon
<1>3. PICK m \in Nat \ S : \A n \in Nat \ S : ~ (<<n, m>> \in {ss \in Nat \X Nat : ss[1] < ss[2]})
  BY <1>2
<1>4. m # 0 /\ m - 1 \in Nat
  OBVIOUS
<1>5. m - 1 \notin S
  <2>1. (m - 1) + 1 = m
    OBVIOUS
  <2>2. QED
    BY <1>4, <2>1
<1>6. /\ <<m - 1, m>> \in Nat \X Nat
      /\ <<m - 1, m>>[1] = m - 1
      /\ <<m - 1, m>>[2] = m
      /\ m - 1 < m
  BY <1>4
<1>7. QED
  BY <1>3, <1>4, <1>5, <1>6

\* The element a fold looks at next.
Pick(s) == CHOOSE x \in s : TRUE

\* The value SumFunctionOnSet looks up: the sums over all parts of S.
IsSums(g, f, S) ==
    g = [s \in SUBSET S |-> IF s = {} THEN 0 ELSE f[Pick(s)] + g[s \ {Pick(s)}]]

\* It is one of the set.
LEMMA PickIsIn == ASSUME NEW s, s # {} PROVE Pick(s) \in s
  BY DEF Pick

\* Taking it away leaves a smaller part.
LEMMA PartWithout ==
    ASSUME NEW S, IsFiniteSet(S), NEW s \in SUBSET S, s # {}
    PROVE  /\ s \ {Pick(s)} \in SUBSET S
           /\ IsFiniteSet(s) /\ IsFiniteSet(s \ {Pick(s)})
           /\ Cardinality(s) \in Nat \ {0}
           /\ Cardinality(s \ {Pick(s)}) = Cardinality(s) - 1
<1>1. IsFiniteSet(s)
  BY FS_Subset
<1>2. Pick(s) \in s
  BY PickIsIn
<1>3. /\ IsFiniteSet(s \ {Pick(s)})
      /\ Cardinality(s \ {Pick(s)}) = Cardinality(s) - 1
  BY <1>1, <1>2, FS_RemoveElement
<1>4. Cardinality(s) \in Nat /\ Cardinality(s) # 0
  BY <1>1, FS_CardinalityType, FS_EmptySet
<1>5. QED
  BY <1>1, <1>2, <1>3, <1>4

\* The recursion defines a function.
LEMMA SumsExist ==
    ASSUME NEW S, IsFiniteSet(S), NEW f
    PROVE  \E g : IsSums(g, f, S)
<1> DEFINE Next(g, s) == IF s = {} THEN 0 ELSE f[Pick(s)] + g[s \ {Pick(s)}]
           UpTo(g, n) == \A s \in SUBSET S : Cardinality(s) <= n => g[s] = Next(g, s)
           N == {n \in Nat : \E g : UpTo(g, n)}
<1>1. 0 \in N
  <2> DEFINE g == [s \in SUBSET S |-> 0]
  <2>1. ASSUME NEW s \in SUBSET S, Cardinality(s) <= 0 PROVE s = {}
    <3> SUFFICES ASSUME s # {} PROVE FALSE
      OBVIOUS
    <3>1. Cardinality(s) \in Nat \ {0}
      BY PartWithout
    <3>2. QED
      BY <3>1, <2>1
  <2>2. UpTo(g, 0)
    BY <2>1
  <2>3. QED
    BY <2>2
<1>2. ASSUME NEW n \in Nat, n \in N PROVE n + 1 \in N
  <2>1. PICK g : UpTo(g, n)
    BY <1>2
  <2> DEFINE h == [s \in SUBSET S |-> IF Cardinality(s) <= n THEN g[s] ELSE Next(g, s)]
  <2>2. ASSUME NEW s \in SUBSET S, Cardinality(s) <= n + 1
        PROVE  h[s] = Next(h, s)
    <3>1. h[s] = Next(g, s)
      BY <2>1
    <3>2. CASE s = {}
      BY <3>1, <3>2
    <3>3. CASE s # {}
      <4> DEFINE r == s \ {Pick(s)}
      <4>0. r \in SUBSET S /\ Cardinality(r) = Cardinality(s) - 1 /\ Cardinality(s) \in Nat
        BY <3>3, PartWithout
      <4>1. r \in SUBSET S /\ Cardinality(r) <= n
        BY <2>2, <4>0
      <4>2. h[r] = g[r]
        BY <4>1
      <4>3. QED
        BY <3>1, <3>3, <4>2
    <3>4. QED
      BY <3>2, <3>3
  <2>3. \E k : UpTo(k, n + 1)
    <3>1. UpTo(h, n + 1)
      BY <2>2
    <3> HIDE DEF h, UpTo
    <3>2. QED
      BY <3>1
  <2>4. QED
    <3> HIDE DEF UpTo
    <3>1. n + 1 \in Nat
      OBVIOUS
    <3>2. QED
      BY <2>3, <3>1
<1>3. Nat \subseteq N
  <2> HIDE DEF N
  <2>1. QED
    BY <1>1, <1>2, NatSetInduction
<1>4. Cardinality(S) \in Nat
  BY FS_CardinalityType
<1>5. PICK g : UpTo(g, Cardinality(S))
  BY <1>3, <1>4
<1>6. ASSUME NEW s \in SUBSET S PROVE g[s] = Next(g, s)
  <2>1. Cardinality(s) <= Cardinality(S)
    BY FS_Subset
  <2>2. QED
    BY <1>5, <2>1
<1> DEFINE h == [s \in SUBSET S |-> g[s]]
<1>7. ASSUME NEW s \in SUBSET S PROVE h[s] = Next(h, s)
  BY <1>6
<1>8. IsSums(h, f, S)
  BY <1>7 DEF IsSums
<1>9. QED
  BY <1>8

\* A sum is the value of that function.
LEMMA SumIsOfSums ==
    ASSUME NEW S, IsFiniteSet(S), NEW f
    PROVE  \E g : IsSums(g, f, S) /\ SumFunctionOnSet(f, S) = g[S]
<1> DEFINE G == CHOOSE g : IsSums(g, f, S)
<1>1. IsSums(G, f, S)
  BY SumsExist
<1>2. SumFunctionOnSet(f, S) = G[S]
  BY DEF SumFunctionOnSet, FoldFunctionOnSet, MapThenFoldSet, IsSums, Pick
<1>3. QED
  BY <1>1, <1>2

\* The empty sum is zero.
LEMMA SumOfNothing == ASSUME NEW f PROVE SumFunctionOnSet(f, {}) = 0
<1>1. PICK g : IsSums(g, f, {}) /\ SumFunctionOnSet(f, {}) = g[{}]
  BY SumIsOfSums, FS_EmptySet
<1>2. QED
  BY <1>1 DEF IsSums

\* Sums over the parts of a set are sums over the parts of any larger one.
LEMMA SumsAgree ==
    ASSUME NEW S, IsFiniteSet(S), NEW R \in SUBSET S, NEW f, NEW e,
           NEW g, IsSums(g, f, S), NEW h, IsSums(h, e, R),
           \A x \in R : f[x] = e[x]
    PROVE  g[R] = h[R]
<1> DEFINE G == {s \in SUBSET R : g[s] = h[s]}
           M == {n \in Nat : \A s \in SUBSET R : Cardinality(s) = n => g[s] = h[s]}
<1>1. IsFiniteSet(R)
  BY FS_Subset
<1>2. 0 \in M
  <2> SUFFICES ASSUME NEW s \in SUBSET R, Cardinality(s) = 0 PROVE g[s] = h[s]
    OBVIOUS
  <2>1. s = {}
    BY <1>1, FS_Subset, FS_EmptySet
  <2>2. QED
    BY <2>1 DEF IsSums
<1>3. ASSUME NEW n \in Nat, n \in M PROVE n + 1 \in M
  <2> SUFFICES ASSUME NEW s \in SUBSET R, Cardinality(s) = n + 1 PROVE g[s] = h[s]
    OBVIOUS
  <2>1. s # {}
    BY FS_EmptySet
  <2>2. /\ s \ {Pick(s)} \in SUBSET R
        /\ Cardinality(s \ {Pick(s)}) = Cardinality(s) - 1
    BY <1>1, <2>1, PartWithout
  <2>3. g[s \ {Pick(s)}] = h[s \ {Pick(s)}]
    <3>1. Cardinality(s \ {Pick(s)}) = n
      BY <2>2
    <3>2. QED
      BY <2>2, <3>1, <1>3
  <2>4. Pick(s) \in R
    BY <2>1, PickIsIn
  <2>5. g[s] = f[Pick(s)] + g[s \ {Pick(s)}]
    <3>1. s \in SUBSET S
      OBVIOUS
    <3>2. QED
      BY <2>1, <3>1 DEF IsSums
  <2>6. h[s] = e[Pick(s)] + h[s \ {Pick(s)}]
    BY <2>1 DEF IsSums
  <2>7. QED
    BY <2>3, <2>4, <2>5, <2>6
<1>4. Nat \subseteq M
  <2> HIDE DEF M
  <2>1. QED
    BY <1>2, <1>3, NatSetInduction
<1>5. Cardinality(R) \in Nat
  BY <1>1, FS_CardinalityType
<1>6. QED
  BY <1>4, <1>5

\* A sum depends only on the values over the set.
LEMMA SumsOfEqualValues ==
    ASSUME NEW S, IsFiniteSet(S), NEW f, NEW e, \A x \in S : f[x] = e[x]
    PROVE  SumFunctionOnSet(f, S) = SumFunctionOnSet(e, S)
<1>1. PICK g : IsSums(g, f, S) /\ SumFunctionOnSet(f, S) = g[S]
  BY SumIsOfSums
<1>2. PICK h : IsSums(h, e, S) /\ SumFunctionOnSet(e, S) = h[S]
  BY SumIsOfSums
<1>3. QED
  BY <1>1, <1>2, SumsAgree

\* A sum by its first element.
LEMMA SumByPick ==
    ASSUME NEW S, IsFiniteSet(S), S # {}, NEW f
    PROVE  SumFunctionOnSet(f, S) = f[Pick(S)] + SumFunctionOnSet(f, S \ {Pick(S)})
<1> DEFINE R == S \ {Pick(S)}
<1>1. R \in SUBSET S /\ IsFiniteSet(R)
  BY PartWithout
<1>2. PICK g : IsSums(g, f, S) /\ SumFunctionOnSet(f, S) = g[S]
  BY SumIsOfSums
<1>3. PICK h : IsSums(h, f, R) /\ SumFunctionOnSet(f, R) = h[R]
  BY <1>1, SumIsOfSums
<1>4. g[R] = h[R]
  BY <1>1, <1>2, <1>3, SumsAgree
<1>5. g[S] = f[Pick(S)] + g[R]
  <2>1. S \in SUBSET S
    OBVIOUS
  <2>2. QED
    BY <1>2, <2>1 DEF IsSums
<1>6. QED
  BY <1>2, <1>3, <1>4, <1>5

\* A sum of integers is one.
LEMMA SumIsInteger ==
    ASSUME NEW S, IsFiniteSet(S), NEW f, \A x \in S : f[x] \in Int
    PROVE  SumFunctionOnSet(f, S) \in Int
<1> DEFINE M == {n \in Nat : \A s \in SUBSET S : Cardinality(s) = n => SumFunctionOnSet(f, s) \in Int}
<1>1. 0 \in M
  <2> SUFFICES ASSUME NEW s \in SUBSET S, Cardinality(s) = 0 PROVE SumFunctionOnSet(f, s) \in Int
    OBVIOUS
  <2>1. s = {}
    BY FS_Subset, FS_EmptySet
  <2>2. QED
    BY <2>1, SumOfNothing
<1>2. ASSUME NEW n \in Nat, n \in M PROVE n + 1 \in M
  <2> SUFFICES ASSUME NEW s \in SUBSET S, Cardinality(s) = n + 1 PROVE SumFunctionOnSet(f, s) \in Int
    OBVIOUS
  <2>1. s # {}
    BY FS_EmptySet
  <2>2. /\ s \ {Pick(s)} \in SUBSET S
        /\ IsFiniteSet(s)
        /\ Cardinality(s \ {Pick(s)}) = Cardinality(s) - 1
    BY <2>1, PartWithout
  <2>3. Cardinality(s \ {Pick(s)}) = n
    BY <2>2
  <2>4. SumFunctionOnSet(f, s \ {Pick(s)}) \in Int
    BY <1>2, <2>2, <2>3
  <2>5. f[Pick(s)] \in Int
    BY <2>1, PickIsIn
  <2>6. SumFunctionOnSet(f, s) = f[Pick(s)] + SumFunctionOnSet(f, s \ {Pick(s)})
    BY <2>1, <2>2, SumByPick
  <2>7. QED
    BY <2>4, <2>5, <2>6
<1>3. Nat \subseteq M
  <2> HIDE DEF M
  <2>1. QED
    BY <1>1, <1>2, NatSetInduction
<1>4. Cardinality(S) \in Nat
  BY FS_CardinalityType
<1>5. QED
  BY <1>3, <1>4

\* A sum by any of its elements: the order does not matter.
LEMMA SumWithout ==
    ASSUME NEW S, IsFiniteSet(S), NEW f, \A x \in S : f[x] \in Int, NEW y \in S
    PROVE  SumFunctionOnSet(f, S) = f[y] + SumFunctionOnSet(f, S \ {y})
<1> DEFINE Fits(s) == \A x \in s : SumFunctionOnSet(f, s) = f[x] + SumFunctionOnSet(f, s \ {x})
           M == {n \in Nat : \A s \in SUBSET S : Cardinality(s) = n => Fits(s)}
<1>1. 0 \in M
  <2> SUFFICES ASSUME NEW s \in SUBSET S, Cardinality(s) = 0 PROVE Fits(s)
    OBVIOUS
  <2>1. s = {}
    BY FS_Subset, FS_EmptySet
  <2>2. QED
    BY <2>1
<1>2. ASSUME NEW n \in Nat, n \in M PROVE n + 1 \in M
  <2> SUFFICES ASSUME NEW s \in SUBSET S, Cardinality(s) = n + 1, NEW x \in s
               PROVE  SumFunctionOnSet(f, s) = f[x] + SumFunctionOnSet(f, s \ {x})
    OBVIOUS
  <2> DEFINE q == Pick(s)
             r == s \ {q}
  <2>1. s # {}
    OBVIOUS
  <2>2. /\ r \in SUBSET S
        /\ IsFiniteSet(s) /\ IsFiniteSet(r)
        /\ Cardinality(r) = Cardinality(s) - 1
    BY <2>1, PartWithout
  <2>3. Cardinality(r) = n
    BY <2>2
  <2>4. q \in s
    BY <2>1, PickIsIn
  <2>5. SumFunctionOnSet(f, s) = f[q] + SumFunctionOnSet(f, r)
    BY <2>1, <2>2, SumByPick
  <2>6. CASE x = q
    BY <2>5, <2>6
  <2>7. CASE x # q
    <3>1. x \in r
      BY <2>7
    <3>2. SumFunctionOnSet(f, r) = f[x] + SumFunctionOnSet(f, r \ {x})
      BY <1>2, <2>2, <2>3, <3>1
    <3>3. /\ s \ {x} \in SUBSET S
          /\ IsFiniteSet(s \ {x})
          /\ Cardinality(s \ {x}) = n
      <4>1. IsFiniteSet(s \ {x}) /\ Cardinality(s \ {x}) = Cardinality(s) - 1
        BY <2>2, FS_RemoveElement
      <4>2. QED
        BY <4>1
    <3>4. q \in s \ {x}
      BY <2>4, <2>7
    <3>5. SumFunctionOnSet(f, s \ {x}) = f[q] + SumFunctionOnSet(f, (s \ {x}) \ {q})
      BY <1>2, <3>3, <3>4
    <3>6. (s \ {x}) \ {q} = r \ {x}
      OBVIOUS
    <3>7. /\ f[q] \in Int /\ f[x] \in Int
          /\ SumFunctionOnSet(f, r \ {x}) \in Int
      <4>1. IsFiniteSet(r \ {x})
        BY <2>2, FS_RemoveElement, FS_Subset
      <4>2. r \ {x} \in SUBSET S
        BY <2>2
      <4>3. QED
        BY <2>4, <4>1, <4>2, SumIsInteger
    <3>8. SumFunctionOnSet(f, s \ {x}) = f[q] + SumFunctionOnSet(f, r \ {x})
      BY <3>5, <3>6
    <3> HIDE DEF q, r
    <3>9. QED
      BY <2>5, <3>2, <3>7, <3>8
  <2>8. QED
    BY <2>6, <2>7
<1>3. Nat \subseteq M
  <2> HIDE DEF M
  <2>1. QED
    BY <1>1, <1>2, NatSetInduction
<1>4. Cardinality(S) \in Nat
  BY FS_CardinalityType
<1>5. QED
  BY <1>3, <1>4

\* What one change does to a sum.
LEMMA SumChangedAt ==
    ASSUME NEW S, IsFiniteSet(S), NEW f, NEW g, NEW y \in S,
           \A x \in S : f[x] \in Int, g[y] \in Int,
           \A x \in S \ {y} : g[x] = f[x]
    PROVE  SumFunctionOnSet(g, S) = SumFunctionOnSet(f, S) + g[y] - f[y]
<1>1. IsFiniteSet(S \ {y})
  BY FS_RemoveElement
<1>2. SumFunctionOnSet(f, S) = f[y] + SumFunctionOnSet(f, S \ {y})
  BY SumWithout
<1>3. \A x \in S : g[x] \in Int
  OBVIOUS
<1>4. SumFunctionOnSet(g, S) = g[y] + SumFunctionOnSet(g, S \ {y})
  BY <1>3, SumWithout
<1>5. SumFunctionOnSet(g, S \ {y}) = SumFunctionOnSet(f, S \ {y})
  BY <1>1, SumsOfEqualValues
<1>6. SumFunctionOnSet(f, S \ {y}) \in Int
  BY <1>1, SumIsInteger
<1>7. QED
  BY <1>2, <1>4, <1>5, <1>6

\* Induction over the parts of a finite set, for a set that holds those with a property.
LEMMA PartInduction ==
    ASSUME NEW S, IsFiniteSet(S), NEW G, {} \in G,
           \A s \in SUBSET S : s # {} /\ s \ {Pick(s)} \in G => s \in G
    PROVE  S \in G
<1> DEFINE M == {n \in Nat : \A s \in SUBSET S : Cardinality(s) = n => s \in G}
<1>1. 0 \in M
  BY FS_Subset, FS_EmptySet
<1>2. ASSUME NEW n \in Nat, n \in M PROVE n + 1 \in M
  <2> SUFFICES ASSUME NEW s \in SUBSET S, Cardinality(s) = n + 1 PROVE s \in G
    OBVIOUS
  <2>1. s # {}
    <3>1. Cardinality({}) = 0
      BY FS_EmptySet
    <3>2. QED
      BY <3>1
  <2>2. s \ {Pick(s)} \in SUBSET S /\ Cardinality(s \ {Pick(s)}) = n
    BY <2>1, PartWithout
  <2>3. QED
    BY <1>2, <2>1, <2>2
<1>3. Nat \subseteq M
  <2> HIDE DEF M
  <2>1. QED
    BY <1>1, <1>2, NatSetInduction
<1>4. QED
  BY <1>3, FS_CardinalityType

\* What is less everywhere sums up to less.
LEMMA SumsCompare ==
    ASSUME NEW S, IsFiniteSet(S), NEW f, NEW g, \A x \in S : f[x] \in Int /\ g[x] \in Int /\ f[x] <= g[x]
    PROVE  SumFunctionOnSet(f, S) <= SumFunctionOnSet(g, S)
<1> DEFINE G == {s \in SUBSET S : SumFunctionOnSet(f, s) <= SumFunctionOnSet(g, s)}
<1>1. {} \in G
  BY SumOfNothing
<1>2. ASSUME NEW s \in SUBSET S, s # {}, s \ {Pick(s)} \in G PROVE s \in G
  <2>1. IsFiniteSet(s) /\ IsFiniteSet(s \ {Pick(s)}) /\ Pick(s) \in S
    BY <1>2, PartWithout, PickIsIn
  <2>2. SumFunctionOnSet(f, s) = f[Pick(s)] + SumFunctionOnSet(f, s \ {Pick(s)})
    BY <1>2, <2>1, SumByPick
  <2>3. SumFunctionOnSet(g, s) = g[Pick(s)] + SumFunctionOnSet(g, s \ {Pick(s)})
    BY <1>2, <2>1, SumByPick
  <2>4. SumFunctionOnSet(f, s \ {Pick(s)}) \in Int /\ SumFunctionOnSet(g, s \ {Pick(s)}) \in Int
    BY <2>1, SumIsInteger
  <2>5. QED
    BY <1>2, <2>1, <2>2, <2>3, <2>4
<1> HIDE DEF G
<1>3. S \in G
  BY <1>1, <1>2, PartInduction
<1>4. QED
  BY <1>3 DEF G

\* The sum of two columns is the sum of their sums.
LEMMA SumsAdd ==
    ASSUME NEW S, IsFiniteSet(S), NEW f, NEW g, NEW h,
           \A x \in S : f[x] \in Int /\ g[x] \in Int /\ h[x] = f[x] + g[x]
    PROVE  SumFunctionOnSet(h, S) = SumFunctionOnSet(f, S) + SumFunctionOnSet(g, S)
<1> DEFINE G == {s \in SUBSET S :
                   SumFunctionOnSet(h, s) = SumFunctionOnSet(f, s) + SumFunctionOnSet(g, s)}
<1>1. {} \in G
  BY SumOfNothing
<1>2. ASSUME NEW s \in SUBSET S, s # {}, s \ {Pick(s)} \in G PROVE s \in G
  <2>1. IsFiniteSet(s) /\ IsFiniteSet(s \ {Pick(s)}) /\ Pick(s) \in S
    BY <1>2, PartWithout, PickIsIn
  <2>2. SumFunctionOnSet(f, s) = f[Pick(s)] + SumFunctionOnSet(f, s \ {Pick(s)})
    BY <1>2, <2>1, SumByPick
  <2>3. SumFunctionOnSet(g, s) = g[Pick(s)] + SumFunctionOnSet(g, s \ {Pick(s)})
    BY <1>2, <2>1, SumByPick
  <2>4. SumFunctionOnSet(h, s) = h[Pick(s)] + SumFunctionOnSet(h, s \ {Pick(s)})
    BY <1>2, <2>1, SumByPick
  <2>5. SumFunctionOnSet(f, s \ {Pick(s)}) \in Int /\ SumFunctionOnSet(g, s \ {Pick(s)}) \in Int
    BY <2>1, SumIsInteger
  <2>6. QED
    BY <1>2, <2>1, <2>2, <2>3, <2>4, <2>5
<1> HIDE DEF G
<1>3. S \in G
  BY <1>1, <1>2, PartInduction
<1>4. QED
  BY <1>3 DEF G

\* Nothing everywhere sums up to nothing.
LEMMA SumOfZeros ==
    ASSUME NEW S, IsFiniteSet(S), NEW f, \A x \in S : f[x] = 0
    PROVE  SumFunctionOnSet(f, S) = 0
<1> DEFINE z == SumFunctionOnSet(f, S)
<1>1. z = z + z
  BY SumsAdd
<1>2. z \in Int
  BY SumIsInteger
<1> HIDE DEF z
<1>3. z = 0
  BY <1>1, <1>2
<1>4. QED
  BY <1>3 DEF z

-----------------------------------------------------------------------------
(* Sums of a column over rows of a table *)

\* A sum of a column of whole numbers is one.
LEMMA SumOfIsInteger ==
    ASSUME NEW t, NEW c, NEW S \in SUBSET DOMAIN t, IsFiniteSet(S), \A k \in S : t[k][c] \in Int
    PROVE  SumOf(t, c, S) \in Int
  BY SumIsInteger DEF SumOf

\* No rows, no sum.
LEMMA SumOfNoRows == ASSUME NEW t, NEW c PROVE SumOf(t, c, {}) = 0
  BY SumOfNothing DEF SumOf

\* What is changed elsewhere does not change the sum.
LEMMA SumOfSameRows ==
    ASSUME NEW t, NEW u, NEW c, NEW S, IsFiniteSet(S),
           S \subseteq DOMAIN t, S \subseteq DOMAIN u, \A k \in S : u[k][c] = t[k][c]
    PROVE  SumOf(u, c, S) = SumOf(t, c, S)
<1> DEFINE f == [k \in DOMAIN t |-> t[k][c]]
           g == [k \in DOMAIN u |-> u[k][c]]
<1>1. \A k \in S : g[k] = f[k]
  OBVIOUS
<1> HIDE DEF f, g
<1>2. SumFunctionOnSet(g, S) = SumFunctionOnSet(f, S)
  BY <1>1, SumsOfEqualValues
<1>3. QED
  BY <1>2 DEF SumOf, f, g

\* One row of the sum is changed.
LEMMA SumOfChangedRow ==
    ASSUME NEW t, NEW u, NEW c, NEW S, IsFiniteSet(S), S \subseteq DOMAIN t, S \subseteq DOMAIN u,
           \A k \in S : t[k][c] \in Int,
           NEW y \in S, u[y][c] \in Int, \A k \in S \ {y} : u[k][c] = t[k][c]
    PROVE  SumOf(u, c, S) = SumOf(t, c, S) + u[y][c] - t[y][c]
<1> DEFINE f == [k \in DOMAIN t |-> t[k][c]]
           g == [k \in DOMAIN u |-> u[k][c]]
<1>1. /\ \A k \in S : f[k] \in Int
      /\ \A k \in S \ {y} : g[k] = f[k]
      /\ g[y] = u[y][c] /\ f[y] = t[y][c] /\ g[y] \in Int
  OBVIOUS
<1> HIDE DEF f, g
<1>2. SumFunctionOnSet(g, S) = SumFunctionOnSet(f, S) + g[y] - f[y]
  BY <1>1, SumChangedAt, Z3
<1>3. QED
  BY <1>1, <1>2 DEF SumOf, f, g

\* One row is added to the sum.
LEMMA SumOfOneMore ==
    ASSUME NEW t, NEW u, NEW c, NEW S, NEW R, IsFiniteSet(S), S \subseteq DOMAIN t, R \subseteq DOMAIN u,
           NEW y, y \notin S, R = S \cup {y},
           \A k \in S : t[k][c] \in Int, u[y][c] \in Int, \A k \in S : u[k][c] = t[k][c]
    PROVE  SumOf(u, c, R) = SumOf(t, c, S) + u[y][c]
<1> DEFINE f == [k \in DOMAIN t |-> t[k][c]]
           g == [k \in DOMAIN u |-> u[k][c]]
<1>1. /\ \A k \in S : f[k] \in Int
      /\ \A k \in S : g[k] = f[k]
      /\ g[y] = u[y][c] /\ g[y] \in Int
  OBVIOUS
<1> HIDE DEF f, g
<1>2. SumFunctionOnSet(g, R) = SumFunctionOnSet(f, S) + g[y]
  <2>1. IsFiniteSet(R) /\ y \in R /\ R \ {y} = S
    BY FS_AddElement
  <2>2. \A x \in R : g[x] \in Int
    BY <1>1
  <2>3. SumFunctionOnSet(g, R) = g[y] + SumFunctionOnSet(g, S)
    BY <2>1, <2>2, SumWithout
  <2>4. SumFunctionOnSet(g, S) = SumFunctionOnSet(f, S)
    BY <1>1, SumsOfEqualValues
  <2>5. SumFunctionOnSet(f, S) \in Int
    BY <1>1, SumIsInteger
  <2>6. SumFunctionOnSet(g, R) = g[y] + SumFunctionOnSet(f, S)
    BY <2>3, <2>4
  <2> HIDE <2>1, <2>3
  <2>7. QED
    BY <1>1, <2>5, <2>6
<1>3. QED
  BY <1>1, <1>2 DEF SumOf, f, g

\* One row is left out of the sum.
LEMMA SumOfOneLess ==
    ASSUME NEW t, NEW u, NEW c, NEW S, NEW R, IsFiniteSet(S), S \subseteq DOMAIN t, R \subseteq DOMAIN u,
           NEW y, y \in S, R = S \ {y},
           \A k \in S : t[k][c] \in Int, \A k \in R : u[k][c] = t[k][c]
    PROVE  SumOf(u, c, R) = SumOf(t, c, S) - t[y][c]
<1>1. IsFiniteSet(R)
  BY FS_RemoveElement
<1>2. R \cup {y} = S /\ y \notin R /\ t[y][c] \in Int /\ \A k \in R : u[k][c] \in Int
  OBVIOUS
<1>3. SumOf(t, c, S) = SumOf(u, c, R) + t[y][c]
  BY <1>1, <1>2, SumOfOneMore, Z3
<1>4. SumOf(u, c, R) \in Int
  BY <1>1, <1>2, SumOfIsInteger
<1>5. QED
  BY <1>2, <1>3, <1>4

\* What a step that concerns one row y does to the sum over the rows S, which are
\* the rows R afterwards.
LEMMA SumOfOneRow ==
    ASSUME NEW t, NEW u, NEW c, NEW S, NEW R, IsFiniteSet(S), S \subseteq DOMAIN t, R \subseteq DOMAIN u,
           NEW y, R \ {y} = S \ {y},
           \A k \in S : t[k][c] \in Int, \A k \in R : u[k][c] \in Int,
           \A k \in S \ {y} : u[k][c] = t[k][c]
    PROVE  SumOf(u, c, R) = SumOf(t, c, S) + (IF y \in R THEN u[y][c] ELSE 0)
                                           - (IF y \in S THEN t[y][c] ELSE 0)
<1>1. SumOf(t, c, S) \in Int
  BY SumOfIsInteger
<1>2. CASE y \in S /\ y \in R
  <2>1. R = S
    BY <1>2
  <2>2. SumOf(u, c, S) = SumOf(t, c, S) + u[y][c] - t[y][c]
    BY <1>2, <2>1, SumOfChangedRow
  <2>3. QED
    BY <1>2, <2>1, <2>2
<1>3. CASE y \in S /\ y \notin R
  <2>1. R = S \ {y}
    BY <1>3
  <2>2. \A k \in R : u[k][c] = t[k][c]
    BY <2>1
  <2>3. SumOf(u, c, R) = SumOf(t, c, S) - t[y][c]
    BY <1>3, <2>1, <2>2, SumOfOneLess
  <2>4. t[y][c] \in Int
    BY <1>3
  <2>5. QED
    BY <1>1, <1>3, <2>3, <2>4
<1>4. CASE y \notin S /\ y \in R
  <2>1. R = S \cup {y}
    BY <1>4
  <2>2. \A k \in S : u[k][c] = t[k][c]
    BY <1>4
  <2>3. SumOf(u, c, R) = SumOf(t, c, S) + u[y][c]
    BY <1>4, <2>1, <2>2, SumOfOneMore
  <2>4. u[y][c] \in Int
    BY <1>4
  <2>5. QED
    BY <1>1, <1>4, <2>3, <2>4
<1>5. CASE y \notin S /\ y \notin R
  <2>1. R = S
    BY <1>5
  <2>2. SumOf(u, c, S) = SumOf(t, c, S)
    BY <1>5, <2>1, SumOfSameRows
  <2>3. QED
    BY <1>1, <1>5, <2>1, <2>2
<1>6. QED
  BY <1>2, <1>3, <1>4, <1>5

-----------------------------------------------------------------------------
(* Tables *)

\* The rows of a table.
LEMMA TableRows ==
    ASSUME NEW R, NEW t \in Seq(R)
    PROVE  /\ Len(t) \in Nat
           /\ DOMAIN t = 1..Len(t)
           /\ IsFiniteSet(DOMAIN t)
           /\ Len(t) + 1 \notin DOMAIN t
           /\ \A k \in DOMAIN t : t[k] \in R
<1>1. Len(t) \in Nat /\ t \in [1..Len(t) -> R] /\ DOMAIN t = 1..Len(t)
  BY LenProperties
<1>2. IsFiniteSet(1..Len(t))
  BY <1>1, FS_Interval
<1>3. QED
  BY <1>1, <1>2

\* An INSERT.
LEMMA TableInsert ==
    ASSUME NEW R, NEW t \in Seq(R), NEW r \in R
    PROVE  /\ Append(t, r) \in Seq(R)
           /\ Len(Append(t, r)) = Len(t) + 1
           /\ DOMAIN Append(t, r) = DOMAIN t \cup {Len(t) + 1}
           /\ Append(t, r)[Len(t) + 1] = r
           /\ \A k \in DOMAIN t : Append(t, r)[k] = t[k]
<1>1. /\ Append(t, r) \in Seq(R)
      /\ Len(Append(t, r)) = Len(t) + 1
      /\ Len(t) \in Nat /\ DOMAIN t = 1..Len(t)
  BY TableRows, AppendProperties
<1>2. DOMAIN Append(t, r) = 1..(Len(t) + 1)
  BY <1>1, TableRows
<1>3. DOMAIN Append(t, r) = DOMAIN t \cup {Len(t) + 1}
  BY <1>1, <1>2
<1>4. /\ Append(t, r)[Len(t) + 1] = r
      /\ \A k \in DOMAIN t : Append(t, r)[k] = t[k]
  BY <1>1, AppendProperties
<1>5. QED
  BY <1>1, <1>3, <1>4

\* An UPDATE of one row.
LEMMA TableUpdate ==
    ASSUME NEW R, NEW t \in Seq(R), NEW y \in DOMAIN t, NEW r \in R
    PROVE  /\ [t EXCEPT ![y] = r] \in Seq(R)
           /\ Len([t EXCEPT ![y] = r]) = Len(t)
           /\ DOMAIN [t EXCEPT ![y] = r] = DOMAIN t
           /\ [t EXCEPT ![y] = r][y] = r
           /\ \A k \in DOMAIN t \ {y} : [t EXCEPT ![y] = r][k] = t[k]
<1>1. y \in 1..Len(t)
  BY TableRows
<1>2. [t EXCEPT ![y] = r] \in Seq(R) /\ Len([t EXCEPT ![y] = r]) = Len(t)
  BY <1>1, ExceptSeq
<1>3. QED
  BY <1>2

\* Of some rows, each number up to how many they are is the place of one of them.
LEMMA EveryPlaceIsTaken ==
    ASSUME NEW n \in Nat, NEW S \in SUBSET (1..n)
    PROVE  /\ IsFiniteSet(S) /\ Cardinality(S) \in Nat
           /\ \A i \in 1..Cardinality(S) : \E l \in S : Cardinality({m \in S : m < l}) = i - 1
<1> DEFINE Below(m) == {x \in S : x < m}
           N == {m \in Nat : \A i \in 1..Cardinality(Below(m)) : \E l \in S : Cardinality(Below(l)) = i - 1}
<1>1. IsFiniteSet(S) /\ Cardinality(S) \in Nat
  <2>1. IsFiniteSet(1..n)
    BY FS_Interval
  <2>2. IsFiniteSet(S)
    BY <2>1, FS_Subset
  <2>3. QED
    BY <2>2, FS_CardinalityType
<1>2. \A x \in S : x \in Nat /\ 1 <= x /\ x <= n
  OBVIOUS
<1>3. ASSUME NEW m \in Nat PROVE \A x \in S : x < m + 1 <=> x < m \/ x = m
  BY <1>2
<1>4. \A x \in S : ~ x < 0 /\ x < n + 1
  BY <1>2
<1>5. ASSUME NEW m PROVE IsFiniteSet(Below(m)) /\ Cardinality(Below(m)) \in Nat
  BY <1>1, FS_Subset, FS_CardinalityType
<1>6. 0 \in N
  <2>1. Below(0) = {}
    BY <1>4, Zenon
  <2>2. QED
    BY <2>1, FS_EmptySet
<1>7. ASSUME NEW m \in Nat, m \in N PROVE m + 1 \in N
  <2>1. CASE m \notin S
    <3>1. Below(m + 1) = Below(m)
      BY <1>3, <2>1, Zenon
    <3>2. QED
      BY <1>7, <3>1
  <2>2. CASE m \in S
    <3>1. Below(m + 1) = Below(m) \cup {m} /\ m \notin Below(m)
      <4>1. ~ m < m
        OBVIOUS
      <4>2. QED
        BY <1>3, <2>2, <4>1, Zenon
    <3>2. Cardinality(Below(m + 1)) = Cardinality(Below(m)) + 1
      <4>1. IsFiniteSet(Below(m))
        BY <1>5
      <4> HIDE DEF Below
      <4>2. Cardinality(Below(m) \cup {m}) = Cardinality(Below(m)) + 1
        BY <3>1, <4>1, FS_AddElement
      <4>3. QED
        BY <3>1, <4>2
    <3>3. ASSUME NEW i \in 1..Cardinality(Below(m + 1)) PROVE \E l \in S : Cardinality(Below(l)) = i - 1
      <4>1. CASE i \in 1..Cardinality(Below(m))
        BY <1>7, <4>1
      <4>2. CASE i = Cardinality(Below(m)) + 1
        <5>1. Cardinality(Below(m)) = i - 1
          BY <1>5, <4>2
        <5>2. QED
          BY <2>2, <5>1
      <4> HIDE DEF Below
      <4>3. QED
        BY <1>5, <3>2, <4>1, <4>2
    <3> HIDE DEF Below
    <3>4. QED
      BY <3>3
  <2>3. QED
    BY <2>1, <2>2
<1>8. n + 1 \in N
  <2> HIDE DEF N
  <2>1. Nat \subseteq N
    BY <1>6, <1>7, NatSetInduction
  <2>2. QED
    BY <2>1
<1>9. Below(n + 1) = S
  BY <1>4, Zenon
<1>10. QED
  BY <1>1, <1>8, <1>9

\* Several INSERTs.
LEMMA TableInserts ==
    ASSUME NEW R, NEW t \in Seq(R), NEW u \in Seq(R), NEW all, all = t \o u
    PROVE  /\ all \in Seq(R)
           /\ DOMAIN all = 1..(Len(t) + Len(u))
           /\ \A k \in DOMAIN t : all[k] = t[k]
           /\ \A k \in 1..Len(u) : all[Len(t) + k] = u[k]
           /\ DOMAIN t \subseteq DOMAIN all
<1>1. Len(t) \in Nat /\ DOMAIN t = 1..Len(t) /\ Len(u) \in Nat /\ DOMAIN u = 1..Len(u)
  BY TableRows
<1>2. QED
  BY <1>1, ConcatProperties

\* Rows numbered from one are a table.
LEMMA TableByNumber ==
    ASSUME NEW R, NEW n \in Nat, NEW t, DOMAIN t = 1..n, t = [k \in 1..n |-> t[k]],
           \A k \in 1..n : t[k] \in R
    PROVE  t \in Seq(R) /\ Len(t) = n
  OBVIOUS

-----------------------------------------------------------------------------
(* Requests that do not overlap *)

\* At most one worker has a request, and what it loads is what is committed.
Alone ==
    /\ DOMAIN req = Workers
    /\ \A p, q \in Workers : req[p] # Idle /\ req[q] # Idle => p = q

\* A handler sees the committed rows, and what it writes are the committed rows.
LEMMA SerialRows ==
    ASSUME ~ Concurrent, NEW p
    PROVE  /\ Seen(p) = db
           /\ \A new : Write(p, new) <=> db' = new
           /\ Serving(p) <=> \A q \in Workers : req[q] = Idle
  BY DEF Seen, Write, Serving

\* A request that begins or goes on leaves the others idle.
LEMMA AloneStaysAlone ==
    ASSUME Alone, NEW p \in Workers, NEW r,
           (\A q \in Workers : req[q] = Idle) \/ req[p] # Idle,
           req' = [req EXCEPT ![p] = r]
    PROVE  Alone'
  BY DEF Alone

\* The request ends, or another state of it is none of the database's business.
LEMMA FinishedOrNot ==
    ASSUME Alone, NEW p \in Workers, req' = req \/ req' = [req EXCEPT ![p] = Idle]
    PROVE  /\ Alone'
           /\ \A q \in Workers : req'[q] = req[q] \/ req'[q] = Idle
  BY DEF Alone

\* A step that writes none but these tables, at the end of a request if of one.
Touches(p, names) ==
    /\ DOMAIN db' = DOMAIN db
    /\ \A t \in DOMAIN db \ names : db'[t] = db[t]
    /\ req' = req \/ req' = [req EXCEPT ![p] = Idle]
    /\ past' = past

\* A step that writes none but these tables.
Keeps(names) ==
    /\ DOMAIN db' = DOMAIN db
    /\ \A t \in DOMAIN db \ names : db'[t] = db[t]

\* The request is over, if there was one.
Ends(p) == req' = req \/ req' = [req EXCEPT ![p] = Idle]

\* A commit that writes these tables.
LEMMA CommitTouches ==
    ASSUME ~ Concurrent, NEW p, NEW names, NEW new, DOMAIN new = DOMAIN db,
           \A t \in DOMAIN db \ names : new[t] = db[t], Commit(p, new)
    PROVE  Touches(p, names) /\ db' = new
  BY SerialRows DEF Commit, Finish, Touches

\* One more row of one table.
LEMMA CreateTouches ==
    ASSUME ~ Concurrent, NEW p, NEW t, NEW row, Create(p, t, row)
    PROVE  Touches(p, {t}) /\ db' = [db EXCEPT ![t] = Append(@, row)] /\ Room(t)
  BY SerialRows DEF Create, Insert, Commit, Finish, Touches

\* One row of one table has another status.
LEMMA TurnTouches ==
    ASSUME ~ Concurrent, NEW p, NEW t, NEW k, NEW from, NEW to, Turn(p, t, k, from, to)
    PROVE  /\ Touches(p, {t}) /\ db' = [db EXCEPT ![t][k].status = to]
           /\ k \in DOMAIN db[t] /\ db[t][k].status \in from
  BY SerialRows DEF Turn, Rows, Row, Commit, Finish, Touches

\* What writes some tables writes no others.
LEMMA TouchesMore ==
    ASSUME NEW p, NEW names, Touches(p, names), NEW more, names \subseteq more
    PROVE  Touches(p, more)
  BY DEF Touches

-----------------------------------------------------------------------------
(* Rows that belong to a row of another table *)

\* What the rows with this key sum up to.
Under(t, c, key, o) == SumOf(t, c, {k \in DOMAIN t : t[k][key] = o})

\* It is a whole number.
LEMMA UnderIsWhole ==
    ASSUME NEW R, NEW t \in Seq(R), NEW c, \A r \in R : r[c] \in Int, NEW key, NEW o
    PROVE  Under(t, c, key, o) \in Int
<1> DEFINE S == {k \in DOMAIN t : t[k][key] = o}
<1>1. IsFiniteSet(DOMAIN t) /\ \A k \in DOMAIN t : t[k] \in R
  BY TableRows
<1>2. IsFiniteSet(S) /\ S \subseteq DOMAIN t
  BY <1>1, FS_Subset
<1>3. \A k \in S : t[k][c] \in Int
  BY <1>1
<1> HIDE DEF S
<1>4. SumOf(t, c, S) \in Int
  BY ONLY <1>2, <1>3, SumOfIsInteger
<1>5. QED
  BY <1>4 DEF Under, S

\* An empty table sums up to nothing.
LEMMA NothingUnder == ASSUME NEW c, NEW key, NEW o PROVE Under(<<>>, c, key, o) = 0
<1>1. {k \in DOMAIN <<>> : <<>>[k][key] = o} = {}
  OBVIOUS
<1>2. QED
  BY <1>1, SumOfNoRows DEF Under

\* A row is added under what its key says.
LEMMA UnderOneMore ==
    ASSUME NEW R, NEW t \in Seq(R), NEW row \in R,
           NEW c, \A r \in R : r[c] \in Int, NEW key, NEW o
    PROVE  Under(Append(t, row), c, key, o) = Under(t, c, key, o) + (IF row[key] = o THEN row[c] ELSE 0)
<1>0. PICK new : new = Append(t, row)
  OBVIOUS
<1> DEFINE y == Len(t) + 1
           S == {k \in DOMAIN t : t[k][key] = o}
           Q == {k \in DOMAIN new : new[k][key] = o}
<1>1. /\ DOMAIN new = DOMAIN t \cup {y} /\ y \notin DOMAIN t
      /\ new[y] = row /\ \A k \in DOMAIN t : new[k] = t[k]
      /\ IsFiniteSet(DOMAIN t) /\ \A k \in DOMAIN t : t[k] \in R
  BY <1>0, TableInsert, TableRows
<1>2. IsFiniteSet(S) /\ S \subseteq DOMAIN t /\ Q \subseteq DOMAIN new /\ y \notin S /\ S \subseteq DOMAIN new
  BY <1>1, FS_Subset
<1>3. (\A k \in S : t[k][c] \in Int /\ new[k][c] = t[k][c]) /\ new[y][c] \in Int /\ new[y][c] = row[c]
  BY <1>1
<1>4. Q = IF row[key] = o THEN S \cup {y} ELSE S
  BY <1>1
<1>5. Under(t, c, key, o) \in Int
  BY UnderIsWhole
<1>6. ASSUME row[key] = o
      PROVE  Under(new, c, key, o) = Under(t, c, key, o) + (IF row[key] = o THEN row[c] ELSE 0)
  <2>1. Q = S \cup {y}
    BY <1>4, <1>6
  <2> HIDE DEF y, S, Q
  <2>2. SumOf(new, c, Q) = SumOf(t, c, S) + new[y][c]
    BY ONLY <1>2, <1>3, <2>1, SumOfOneMore
  <2>3. SumOf(new, c, Q) = SumOf(t, c, S) + (IF row[key] = o THEN row[c] ELSE 0)
    BY <1>3, <1>6, <2>2
  <2>4. Under(new, c, key, o) = SumOf(new, c, Q) /\ Under(t, c, key, o) = SumOf(t, c, S)
    BY Zenon DEF Under, S, Q
  <2>5. QED
    BY <2>3, <2>4
<1>7. ASSUME row[key] # o
      PROVE  Under(new, c, key, o) = Under(t, c, key, o) + (IF row[key] = o THEN row[c] ELSE 0)
  <2>1. Q = S
    BY <1>4, <1>7
  <2> HIDE DEF y, S, Q
  <2>2. SumOf(new, c, S) = SumOf(t, c, S)
    BY ONLY <1>2, <1>3, SumOfSameRows
  <2>3. Under(new, c, key, o) = SumOf(new, c, Q) /\ Under(t, c, key, o) = SumOf(t, c, S)
    BY Zenon DEF Under, S, Q
  <2>4. QED
    BY <1>5, <1>7, <2>1, <2>2, <2>3
<1>8. Under(new, c, key, o) = Under(t, c, key, o) + (IF row[key] = o THEN row[c] ELSE 0)
  BY <1>6, <1>7
<1>9. QED
  BY <1>0, <1>8

\* Rows are changed elsewhere.
LEMMA UnderAsBefore ==
    ASSUME NEW t, NEW u, IsFiniteSet(DOMAIN t), DOMAIN u = DOMAIN t, NEW c, NEW key,
           \A k \in DOMAIN t : u[k][c] = t[k][c] /\ u[k][key] = t[k][key], NEW o
    PROVE  Under(u, c, key, o) = Under(t, c, key, o)
<1> DEFINE S == {k \in DOMAIN t : t[k][key] = o}
<1>1. {k \in DOMAIN u : u[k][key] = o} = S
  OBVIOUS
<1>2. IsFiniteSet(S) /\ S \subseteq DOMAIN t /\ S \subseteq DOMAIN u /\ \A k \in S : u[k][c] = t[k][c]
  BY FS_Subset
<1> HIDE DEF S
<1>3. SumOf(u, c, S) = SumOf(t, c, S)
  BY ONLY <1>2, SumOfSameRows
<1>4. Under(u, c, key, o) = SumOf(u, c, S) /\ Under(t, c, key, o) = SumOf(t, c, S)
  BY <1>1, Zenon DEF Under, S
<1>5. QED
  BY <1>3, <1>4
=============================================================================
