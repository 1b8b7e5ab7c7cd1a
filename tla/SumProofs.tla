----------------------------- MODULE SumProofs ------------------------------
(***************************************************************************)
(* Sums over finite sets, and the quorum rule that is about them.          *)
(*                                                                         *)
(* SumFunctionOnSet adds the values of a function up in an order that a    *)
(* CHOOSE fixes.  A sum has the value of the recursion it is defined by    *)
(* (SumStep), for which a function that satisfies the recursion must       *)
(* exist (SumDefined); then the order does not matter (SumRemove).  The    *)
(* inductions are over subsets of a finite set: a set of subsets that is   *)
(* not empty has a smallest member.                                        *)
(***************************************************************************)
EXTENDS Integers, FiniteSets, Functions, FiniteSetTheorems, NaturalsInduction,
        WellFoundedInduction, TLAPS

\* A set of numbers that is not empty has a least one.
LEMMA LeastNumber ==
  ASSUME NEW S \in SUBSET Nat, S # {}
  PROVE  \E m \in S : \A n \in S : m <= n
<1>. DEFINE Less == {p \in Nat \X Nat : p[1] < p[2]}
<1>1. IsWellFoundedOn(Less, Nat)
  BY NatLessThanWellFounded DEF OpToRel
<1>. HIDE DEF Less
<1>2. PICK m \in S : \A n \in S : ~(<<n, m>> \in Less)
  BY <1>1, WFMin
<1>3. ASSUME NEW n \in S PROVE m <= n
  <2>1. m \in Nat /\ n \in Nat /\ <<n, m>> \notin Less
    BY <1>2
  <2>2. ~(n < m)
    BY <2>1 DEF Less
  <2>. QED BY <2>1, <2>2
<1>. QED BY <1>3

\* A set of finite sets that is not empty has a member with no part of it in the set.
LEMMA SmallestSet ==
  ASSUME NEW U, IsFiniteSet(U), NEW Bad \in SUBSET (SUBSET U), Bad # {}
  PROVE  \E s \in Bad : \A t \in SUBSET s : t # s => t \notin Bad
<1> DEFINE Sizes == {Cardinality(s) : s \in Bad}
<1>1. \A s \in SUBSET U : IsFiniteSet(s) /\ Cardinality(s) \in Nat
  BY FS_Subset, FS_CardinalityType
<1>2. Sizes \in SUBSET Nat /\ Sizes # {}
  BY <1>1
<1>3. PICK m \in Sizes : \A n \in Sizes : m <= n
  BY <1>2, LeastNumber
<1>4. PICK s \in Bad : m = Cardinality(s)
  BY <1>3
<1>5. ASSUME NEW t \in SUBSET s, t # s, t \in Bad PROVE FALSE
  <2>1. Cardinality(s) <= Cardinality(t)
    BY <1>3, <1>4, <1>5
  <2>2. Cardinality(t) <= Cardinality(s) /\ (Cardinality(s) = Cardinality(t) => s = t)
    BY <1>1, FS_Subset
  <2>3. Cardinality(s) \in Nat /\ Cardinality(t) \in Nat
    BY <1>1, <1>5
  <2>. QED BY <1>5, <2>1, <2>2, <2>3
<1>. QED BY <1>5

-----------------------------------------------------------------------------
(* The recursion. *)

First(s) == CHOOSE x \in s : TRUE

\* g adds F up over the subsets of S, one after the other.
Adds(F, S, g) ==
    g = [s \in SUBSET S |-> IF s = {} THEN 0 ELSE F[First(s)] + g[s \ {First(s)}]]

Addable(F, S) == \E g : Adds(F, S, g)

LEMMA SumIs ==
  ASSUME NEW F, NEW S, Addable(F, S)
  PROVE  \E g : Adds(F, S, g) /\ SumFunctionOnSet(F, S) = g[S]
<1> DEFINE iter == CHOOSE g : g = [s \in SUBSET S |-> IF s = {} THEN 0
                        ELSE F[CHOOSE x \in s : TRUE] + g[s \ {CHOOSE x \in s : TRUE}]]
<1>1. Adds(F, S, iter)
  BY DEF Addable, Adds, First
<1>2. SumFunctionOnSet(F, S) = iter[S]
  BY DEF SumFunctionOnSet, FoldFunctionOnSet, MapThenFoldSet
<1>. QED BY <1>1, <1>2

LEMMA FirstIn == ASSUME NEW s, s # {} PROVE First(s) \in s
  BY DEF First

\* Two such functions agree where both are defined.
LEMMA AddsAgree ==
  ASSUME NEW S, IsFiniteSet(S), NEW T \in SUBSET S, NEW F, NEW G, \A x \in T : F[x] = G[x],
         NEW g, Adds(F, S, g), NEW h, Adds(G, T, h)
  PROVE  \A s \in SUBSET T : g[s] = h[s]
<1> DEFINE Bad == {s \in SUBSET T : g[s] # h[s]}
<1>1. SUFFICES ASSUME Bad # {} PROVE FALSE
  OBVIOUS
<1>2. IsFiniteSet(T)
  BY FS_Subset
<1>3. Bad \in SUBSET (SUBSET T)
  OBVIOUS
<1> HIDE DEF Bad
<1>4. PICK s \in Bad : \A t \in SUBSET s : t # s => t \notin Bad
  BY <1>1, <1>2, <1>3, SmallestSet
<1>5. s \in SUBSET T /\ g[s] # h[s]
  BY <1>4 DEF Bad
<1>6. /\ g[s] = (IF s = {} THEN 0 ELSE F[First(s)] + g[s \ {First(s)}])
      /\ h[s] = (IF s = {} THEN 0 ELSE G[First(s)] + h[s \ {First(s)}])
  BY <1>5 DEF Adds
<1>7. s # {}
  BY <1>5, <1>6
<1>8. First(s) \in s /\ s \ {First(s)} \in SUBSET s /\ s \ {First(s)} # s
  BY <1>7, FirstIn
<1>9. g[s \ {First(s)}] = h[s \ {First(s)}]
  BY <1>4, <1>5, <1>8 DEF Bad
<1>10. F[First(s)] = G[First(s)]
  BY <1>5, <1>8
<1>. QED BY <1>5, <1>6, <1>7, <1>9, <1>10

\* The sum takes one step of the recursion.
LEMMA SumStepIf ==
  ASSUME NEW F, NEW S, IsFiniteSet(S), S # {}, Addable(F, S), Addable(F, S \ {First(S)})
  PROVE  SumFunctionOnSet(F, S) = F[First(S)] + SumFunctionOnSet(F, S \ {First(S)})
<1> DEFINE T == S \ {First(S)}
<1>1. PICK g : Adds(F, S, g) /\ SumFunctionOnSet(F, S) = g[S]
  BY SumIs
<1>2. PICK h : Adds(F, T, h) /\ SumFunctionOnSet(F, T) = h[T]
  BY SumIs
<1>3. g[T] = h[T]
  BY <1>1, <1>2, AddsAgree
<1>4. g[S] = F[First(S)] + g[T]
  BY <1>1 DEF Adds
<1>. QED BY <1>1, <1>2, <1>3, <1>4

LEMMA EmptyAdds == ASSUME NEW F PROVE Addable(F, {}) /\ SumFunctionOnSet(F, {}) = 0
<1>1. Addable(F, {})
  <2> DEFINE g == [s \in SUBSET {} |-> 0]
  <2>1. Adds(F, {}, g)
    BY DEF Adds
  <2>. QED BY <2>1 DEF Addable
<1>2. PICK g : Adds(F, {}, g) /\ SumFunctionOnSet(F, {}) = g[{}]
  BY <1>1, SumIs
<1>. QED BY <1>1, <1>2 DEF Adds

\* There is a function that adds up.
LEMMA SumDefined ==
  ASSUME NEW F, NEW S, IsFiniteSet(S)
  PROVE  Addable(F, S)
<1> DEFINE Bad == {s \in SUBSET S : ~Addable(F, s)}
<1>1. SUFFICES ASSUME Bad # {} PROVE FALSE
  OBVIOUS
<1>2. Bad \in SUBSET (SUBSET S)
  OBVIOUS
<1> HIDE DEF Bad
<1>3. PICK s \in Bad : \A t \in SUBSET s : t # s => t \notin Bad
  BY <1>1, <1>2, SmallestSet
<1>4. s \in SUBSET S /\ ~Addable(F, s) /\ \A t \in SUBSET s : t # s => Addable(F, t)
  BY <1>3 DEF Bad
<1> DEFINE V(t) == IF t = {} THEN 0 ELSE F[First(t)] + SumFunctionOnSet(F, t \ {First(t)})
           g    == [t \in SUBSET s |-> V(t)]
<1>5. ASSUME NEW t \in SUBSET s, t # {}
      PROVE  V(t \ {First(t)}) = SumFunctionOnSet(F, t \ {First(t)})
  <2> DEFINE u == t \ {First(t)}
  <2>1. First(t) \in t /\ u \in SUBSET s /\ u # s
    BY <1>5, FirstIn
  <2>2. CASE u = {}
    BY <2>2, EmptyAdds
  <2>3. CASE u # {}
    <3>1. First(u) \in u /\ u \ {First(u)} \in SUBSET s /\ u \ {First(u)} # s
      BY <2>1, <2>3, FirstIn
    <3>2. Addable(F, u) /\ Addable(F, u \ {First(u)}) /\ IsFiniteSet(u)
      BY <1>4, <2>1, <3>1, FS_Subset
    <3>. QED BY <2>3, <3>2, SumStepIf
  <2>. QED BY <2>2, <2>3
<1>6. ASSUME NEW t \in SUBSET s
      PROVE  g[t] = IF t = {} THEN 0 ELSE F[First(t)] + g[t \ {First(t)}]
  <2>1. g[t] = V(t)
    OBVIOUS
  <2>2. t # {} => g[t \ {First(t)}] = SumFunctionOnSet(F, t \ {First(t)})
    BY <1>5
  <2>. QED BY <2>1, <2>2
<1>7. Adds(F, s, g)
  <2>1. g = [t \in SUBSET s |-> g[t]]
    OBVIOUS
  <2> HIDE DEF g
  <2>. QED BY <1>6, <2>1 DEF Adds
<1>. QED BY <1>4, <1>7 DEF Addable

\* A sum over no element is zero; over some, the value at the first is added to the rest.
LEMMA SumStep ==
  ASSUME NEW F, NEW S, IsFiniteSet(S), S # {}
  PROVE  /\ First(S) \in S
         /\ SumFunctionOnSet(F, S) = F[First(S)] + SumFunctionOnSet(F, S \ {First(S)})
<1>1. IsFiniteSet(S \ {First(S)})
  BY FS_RemoveElement
<1>. QED BY <1>1, SumDefined, SumStepIf, FirstIn

\* A sum depends on the function where it is summed, and there alone.
LEMMA SumSame ==
  ASSUME NEW F, NEW G, NEW S, IsFiniteSet(S), \A x \in S : F[x] = G[x]
  PROVE  SumFunctionOnSet(F, S) = SumFunctionOnSet(G, S)
<1>1. PICK g : Adds(F, S, g) /\ SumFunctionOnSet(F, S) = g[S]
  BY SumDefined, SumIs
<1>2. PICK h : Adds(G, S, h) /\ SumFunctionOnSet(G, S) = h[S]
  BY SumDefined, SumIs
<1>3. S \in SUBSET S /\ \A s \in SUBSET S : g[s] = h[s]
  BY <1>1, <1>2, AddsAgree
<1>. QED BY <1>1, <1>2, <1>3

-----------------------------------------------------------------------------
(* What sums are. *)

LEMMA SumNat ==
  ASSUME NEW F, NEW S, IsFiniteSet(S), \A x \in S : F[x] \in Nat
  PROVE  SumFunctionOnSet(F, S) \in Nat
<1> DEFINE Bad == {s \in SUBSET S : SumFunctionOnSet(F, s) \notin Nat}
<1>1. SUFFICES ASSUME Bad # {} PROVE FALSE
  OBVIOUS
<1>2. Bad \in SUBSET (SUBSET S)
  OBVIOUS
<1> HIDE DEF Bad
<1>3. PICK s \in Bad : \A t \in SUBSET s : t # s => t \notin Bad
  BY <1>1, <1>2, SmallestSet
<1>4. s \in SUBSET S /\ SumFunctionOnSet(F, s) \notin Nat /\ IsFiniteSet(s)
  BY <1>3, FS_Subset DEF Bad
<1>5. s # {}
  BY <1>4, EmptyAdds
<1>6. First(s) \in s /\ SumFunctionOnSet(F, s) = F[First(s)] + SumFunctionOnSet(F, s \ {First(s)})
  BY <1>4, <1>5, SumStep
<1>7. SumFunctionOnSet(F, s \ {First(s)}) \in Nat
  BY <1>3, <1>4, <1>6 DEF Bad
<1>8. F[First(s)] \in Nat
  BY <1>4, <1>6
<1>. QED BY <1>4, <1>6, <1>7, <1>8

\* The order does not matter: any element may be taken out.
LEMMA SumRemove ==
  ASSUME NEW F, NEW S, IsFiniteSet(S), \A y \in S : F[y] \in Nat, NEW x \in S
  PROVE  SumFunctionOnSet(F, S) = F[x] + SumFunctionOnSet(F, S \ {x})
<1> DEFINE Sum(s) == SumFunctionOnSet(F, s)
           Bad    == {s \in SUBSET S : \E y \in s : Sum(s) # F[y] + Sum(s \ {y})}
<1>1. SUFFICES ASSUME Bad # {} PROVE FALSE
  <2>1. S \notin Bad
    BY <1>1
  <2>. QED BY <2>1
<1>2. Bad \in SUBSET (SUBSET S)
  OBVIOUS
<1> HIDE DEF Bad
<1>3. PICK s \in Bad : \A t \in SUBSET s : t # s => t \notin Bad
  BY <1>1, <1>2, SmallestSet
<1>4. PICK y \in s : Sum(s) # F[y] + Sum(s \ {y})
  BY <1>3 DEF Bad
<1>5. s \in SUBSET S /\ IsFiniteSet(s)
  BY <1>3, FS_Subset DEF Bad
<1> DEFINE c == First(s)
<1>6. c \in s /\ Sum(s) = F[c] + Sum(s \ {c})
  BY <1>4, <1>5, SumStep
<1>7. c # y
  BY <1>4, <1>6
<1> HIDE DEF c
<1>8. Sum(s \ {c}) = F[y] + Sum((s \ {c}) \ {y})
  BY <1>3, <1>5, <1>6, <1>7 DEF Bad
<1>9. Sum(s \ {y}) = F[c] + Sum((s \ {y}) \ {c})
  BY <1>3, <1>5, <1>6, <1>7 DEF Bad
<1>10. (s \ {c}) \ {y} = (s \ {y}) \ {c}
  OBVIOUS
<1>11. Sum((s \ {c}) \ {y}) \in Nat /\ F[c] \in Nat /\ F[y] \in Nat
  <2>1. IsFiniteSet((s \ {c}) \ {y})
    BY <1>5, FS_Subset
  <2>2. \A z \in s : F[z] \in Nat
    BY <1>5
  <2>. QED BY <1>6, <2>1, <2>2, SumNat
<1> HIDE DEF Sum
<1>. QED BY <1>4, <1>6, <1>8, <1>9, <1>10, <1>11

LEMMA SumEmpty == ASSUME NEW F PROVE SumFunctionOnSet(F, {}) = 0
  BY EmptyAdds

\* One element more.
LEMMA SumAdd ==
  ASSUME NEW F, NEW S, IsFiniteSet(S), NEW x, x \notin S, \A y \in S \cup {x} : F[y] \in Nat
  PROVE  SumFunctionOnSet(F, S \cup {x}) = SumFunctionOnSet(F, S) + F[x]
<1>1. IsFiniteSet(S \cup {x}) /\ (S \cup {x}) \ {x} = S
  BY FS_AddElement
<1>2. SumFunctionOnSet(F, S \cup {x}) = F[x] + SumFunctionOnSet(F, S)
  BY <1>1, SumRemove
<1>3. SumFunctionOnSet(F, S) \in Nat /\ F[x] \in Nat
  BY SumNat
<1>. QED BY <1>2, <1>3

\* Another value at one element.
LEMMA SumChange ==
  ASSUME NEW F, NEW G, NEW S, IsFiniteSet(S), NEW x \in S,
         \A y \in S : F[y] \in Nat /\ G[y] \in Nat, \A y \in S \ {x} : G[y] = F[y]
  PROVE  /\ SumFunctionOnSet(G, S) + F[x] = SumFunctionOnSet(F, S) + G[x]
         /\ SumFunctionOnSet(F, S) \in Nat /\ SumFunctionOnSet(G, S) \in Nat
<1>1. /\ SumFunctionOnSet(F, S) = F[x] + SumFunctionOnSet(F, S \ {x})
      /\ SumFunctionOnSet(G, S) = G[x] + SumFunctionOnSet(G, S \ {x})
  BY SumRemove
<1>2. IsFiniteSet(S \ {x})
  BY FS_RemoveElement
<1>3. SumFunctionOnSet(F, S \ {x}) = SumFunctionOnSet(G, S \ {x})
  BY <1>2, SumSame
<1>4. SumFunctionOnSet(F, S \ {x}) \in Nat /\ SumFunctionOnSet(F, S) \in Nat
      /\ SumFunctionOnSet(G, S) \in Nat /\ F[x] \in Nat /\ G[x] \in Nat
  BY <1>2, SumNat
<1>. QED BY <1>1, <1>3, <1>4

\* Nothing adds up to nothing.
LEMMA SumZero ==
  ASSUME NEW F, NEW S, IsFiniteSet(S), \A x \in S : F[x] = 0
  PROVE  SumFunctionOnSet(F, S) = 0
<1> DEFINE Bad == {s \in SUBSET S : SumFunctionOnSet(F, s) # 0}
<1>1. SUFFICES ASSUME Bad # {} PROVE FALSE
  OBVIOUS
<1>2. Bad \in SUBSET (SUBSET S)
  OBVIOUS
<1> HIDE DEF Bad
<1>3. PICK s \in Bad : \A t \in SUBSET s : t # s => t \notin Bad
  BY <1>1, <1>2, SmallestSet
<1>4. s \in SUBSET S /\ IsFiniteSet(s) /\ SumFunctionOnSet(F, s) # 0
  BY <1>3, FS_Subset DEF Bad
<1>5. s # {}
  BY <1>4, SumEmpty
<1>6. PICK x \in s : TRUE
  BY <1>5
<1>7. SumFunctionOnSet(F, s \ {x}) = 0
  BY <1>3, <1>4, <1>6 DEF Bad
<1>8. SumFunctionOnSet(F, s) = F[x] + SumFunctionOnSet(F, s \ {x})
  BY <1>4, SumRemove
<1>. QED BY <1>4, <1>7, <1>8

\* The same number for every element.
LEMMA SumConst ==
  ASSUME NEW F, NEW S, IsFiniteSet(S), NEW c \in Nat, \A x \in S : F[x] = c
  PROVE  SumFunctionOnSet(F, S) = c * Cardinality(S)
<1> DEFINE Bad == {s \in SUBSET S : SumFunctionOnSet(F, s) # c * Cardinality(s)}
<1>1. SUFFICES ASSUME Bad # {} PROVE FALSE
  OBVIOUS
<1>2. Bad \in SUBSET (SUBSET S)
  OBVIOUS
<1> HIDE DEF Bad
<1>3. PICK s \in Bad : \A t \in SUBSET s : t # s => t \notin Bad
  BY <1>1, <1>2, SmallestSet
<1>4. s \in SUBSET S /\ IsFiniteSet(s) /\ SumFunctionOnSet(F, s) # c * Cardinality(s)
  BY <1>3, FS_Subset DEF Bad
<1>5. s # {}
  <2>1. SumFunctionOnSet(F, {}) = 0 /\ Cardinality({}) = 0
    BY SumEmpty, FS_EmptySet
  <2>2. c * 0 = 0
    OBVIOUS
  <2>. QED BY <1>4, <2>1, <2>2
<1>6. PICK x \in s : TRUE
  BY <1>5
<1>7. SumFunctionOnSet(F, s \ {x}) = c * Cardinality(s \ {x})
  BY <1>3, <1>4, <1>6 DEF Bad
<1>8. SumFunctionOnSet(F, s) = F[x] + SumFunctionOnSet(F, s \ {x}) /\ F[x] = c
  BY <1>4, SumRemove
<1>9. Cardinality(s \ {x}) = Cardinality(s) - 1 /\ Cardinality(s) \in Nat
  BY <1>4, FS_RemoveElement, FS_CardinalityType
<1>10. \A n \in Nat : c * n = c + c * (n - 1)
  OBVIOUS
<1>. QED BY <1>4, <1>7, <1>8, <1>9, <1>10

\* Two parts without a common element.
LEMMA SumUnion ==
  ASSUME NEW F, NEW S, IsFiniteSet(S), NEW T, IsFiniteSet(T), S \cap T = {},
         \A y \in S \cup T : F[y] \in Nat
  PROVE  SumFunctionOnSet(F, S \cup T) = SumFunctionOnSet(F, S) + SumFunctionOnSet(F, T)
<1> DEFINE Sum(s) == SumFunctionOnSet(F, s)
           Bad    == {s \in SUBSET T : Sum(S \cup s) # Sum(S) + Sum(s)}
<1>1. SUFFICES ASSUME Bad # {} PROVE FALSE
  <2>1. T \notin Bad
    BY <1>1
  <2>. QED BY <2>1
<1>2. Bad \in SUBSET (SUBSET T)
  OBVIOUS
<1> HIDE DEF Bad
<1>3. PICK s \in Bad : \A t \in SUBSET s : t # s => t \notin Bad
  BY <1>1, <1>2, SmallestSet
<1>4. s \in SUBSET T /\ IsFiniteSet(s) /\ Sum(S \cup s) # Sum(S) + Sum(s)
  BY <1>3, FS_Subset DEF Bad
<1>5. Sum(S) \in Nat
  BY SumNat
<1>6. s # {}
  <2>1. Sum({}) = 0 /\ S \cup {} = S
    BY SumEmpty
  <2>. QED BY <1>4, <1>5, <2>1
<1>7. PICK x \in s : TRUE
  BY <1>6
<1>8. Sum(S \cup (s \ {x})) = Sum(S) + Sum(s \ {x})
  BY <1>3, <1>4, <1>7 DEF Bad
<1>9. Sum(s) = F[x] + Sum(s \ {x})
  BY <1>4, SumRemove
<1>10. IsFiniteSet(s \ {x}) /\ Sum(s \ {x}) \in Nat /\ F[x] \in Nat
  <2>1. IsFiniteSet(s \ {x}) /\ \A y \in s \ {x} : F[y] \in Nat
    BY <1>4, FS_RemoveElement
  <2>. QED BY <1>4, <2>1, SumNat
<1>11. Sum(S \cup s) = F[x] + Sum(S \cup (s \ {x}))
  <2>1. IsFiniteSet(S \cup s) /\ (S \cup s) \ {x} = S \cup (s \ {x})
    BY <1>4, <1>7, FS_Union
  <2>. QED BY <1>4, <2>1, SumRemove
<1> HIDE DEF Sum
<1>. QED BY <1>4, <1>5, <1>8, <1>9, <1>10, <1>11

\* The sum over a part is at most that over the whole.
LEMMA SumPart ==
  ASSUME NEW F, NEW S, IsFiniteSet(S), \A y \in S : F[y] \in Nat, NEW T \in SUBSET S
  PROVE  /\ SumFunctionOnSet(F, S) = SumFunctionOnSet(F, T) + SumFunctionOnSet(F, S \ T)
         /\ SumFunctionOnSet(F, T) <= SumFunctionOnSet(F, S)
         /\ SumFunctionOnSet(F, T) \in Nat /\ SumFunctionOnSet(F, S) \in Nat
<1>1. IsFiniteSet(T) /\ IsFiniteSet(S \ T) /\ T \cap (S \ T) = {} /\ T \cup (S \ T) = S
  BY FS_Subset
<1>2. SumFunctionOnSet(F, S) = SumFunctionOnSet(F, T) + SumFunctionOnSet(F, S \ T)
  BY <1>1, SumUnion
<1>3. SumFunctionOnSet(F, T) \in Nat /\ SumFunctionOnSet(F, S \ T) \in Nat /\ SumFunctionOnSet(F, S) \in Nat
  BY <1>1, SumNat
<1>. QED BY <1>2, <1>3

\* One value is at most the sum.
LEMMA SumMember ==
  ASSUME NEW F, NEW S, IsFiniteSet(S), \A y \in S : F[y] \in Nat, NEW x \in S
  PROVE  F[x] <= SumFunctionOnSet(F, S)
<1>1. SumFunctionOnSet(F, S) = F[x] + SumFunctionOnSet(F, S \ {x})
  BY SumRemove
<1>2. IsFiniteSet(S \ {x}) /\ \A y \in S \ {x} : F[y] \in Nat
  BY FS_RemoveElement
<1>3. SumFunctionOnSet(F, S \ {x}) \in Nat
  BY <1>2, SumNat
<1>. QED BY <1>1, <1>3

\* Sums value by value: at most, added, taken from, multiplied.
LEMMA SumAtMost ==
  ASSUME NEW F, NEW G, NEW S, IsFiniteSet(S),
         \A x \in S : F[x] \in Nat /\ G[x] \in Nat /\ F[x] <= G[x]
  PROVE  SumFunctionOnSet(F, S) <= SumFunctionOnSet(G, S)
<1> DEFINE Bad == {s \in SUBSET S : ~(SumFunctionOnSet(F, s) <= SumFunctionOnSet(G, s))}
<1>1. SUFFICES ASSUME Bad # {} PROVE FALSE
  <2>1. S \notin Bad
    BY <1>1
  <2>. QED BY <2>1
<1>2. Bad \in SUBSET (SUBSET S)
  OBVIOUS
<1> HIDE DEF Bad
<1>3. PICK s \in Bad : \A t \in SUBSET s : t # s => t \notin Bad
  BY <1>1, <1>2, SmallestSet
<1>4. s \in SUBSET S /\ IsFiniteSet(s) /\ ~(SumFunctionOnSet(F, s) <= SumFunctionOnSet(G, s))
  BY <1>3, FS_Subset DEF Bad
<1>5. s # {}
  BY <1>4, SumEmpty
<1>6. PICK x \in s : TRUE
  BY <1>5
<1>7. SumFunctionOnSet(F, s \ {x}) <= SumFunctionOnSet(G, s \ {x})
  BY <1>3, <1>4, <1>6 DEF Bad
<1>8. /\ SumFunctionOnSet(F, s) = F[x] + SumFunctionOnSet(F, s \ {x})
      /\ SumFunctionOnSet(G, s) = G[x] + SumFunctionOnSet(G, s \ {x})
  BY <1>4, SumRemove
<1>9. SumFunctionOnSet(F, s \ {x}) \in Nat /\ SumFunctionOnSet(G, s \ {x}) \in Nat
  BY <1>4, FS_RemoveElement, SumNat
<1>10. F[x] \in Nat /\ G[x] \in Nat /\ F[x] <= G[x]
  BY <1>4
<1>. QED BY <1>4, <1>7, <1>8, <1>9, <1>10

LEMMA SumPlus ==
  ASSUME NEW F, NEW G, NEW H, NEW S, IsFiniteSet(S),
         \A x \in S : F[x] \in Nat /\ G[x] \in Nat /\ H[x] = F[x] + G[x]
  PROVE  SumFunctionOnSet(H, S) = SumFunctionOnSet(F, S) + SumFunctionOnSet(G, S)
<1> DEFINE Bad == {s \in SUBSET S :
              SumFunctionOnSet(H, s) # SumFunctionOnSet(F, s) + SumFunctionOnSet(G, s)}
<1>1. SUFFICES ASSUME Bad # {} PROVE FALSE
  <2>1. S \notin Bad
    BY <1>1
  <2>. QED BY <2>1
<1>2. Bad \in SUBSET (SUBSET S)
  OBVIOUS
<1> HIDE DEF Bad
<1>3. PICK s \in Bad : \A t \in SUBSET s : t # s => t \notin Bad
  BY <1>1, <1>2, SmallestSet
<1>4. s \in SUBSET S /\ IsFiniteSet(s)
      /\ SumFunctionOnSet(H, s) # SumFunctionOnSet(F, s) + SumFunctionOnSet(G, s)
  BY <1>3, FS_Subset DEF Bad
<1>5. s # {}
  <2>1. /\ SumFunctionOnSet(F, {}) = 0 /\ SumFunctionOnSet(G, {}) = 0
        /\ SumFunctionOnSet(H, {}) = 0
    BY SumEmpty
  <2>2. SumFunctionOnSet(H, {}) = SumFunctionOnSet(F, {}) + SumFunctionOnSet(G, {})
    <3>1. 0 = 0 + 0
      OBVIOUS
    <3>. QED BY <2>1, <3>1, Zenon
  <2>. QED BY <1>4, <2>2
<1>6. PICK x \in s : TRUE
  BY <1>5
<1>7. SumFunctionOnSet(H, s \ {x}) = SumFunctionOnSet(F, s \ {x}) + SumFunctionOnSet(G, s \ {x})
  BY <1>3, <1>4, <1>6 DEF Bad
<1>8. \A y \in s : F[y] \in Nat /\ G[y] \in Nat /\ H[y] \in Nat /\ H[y] = F[y] + G[y]
  BY <1>4
<1>9. /\ SumFunctionOnSet(F, s) = F[x] + SumFunctionOnSet(F, s \ {x})
      /\ SumFunctionOnSet(G, s) = G[x] + SumFunctionOnSet(G, s \ {x})
      /\ SumFunctionOnSet(H, s) = H[x] + SumFunctionOnSet(H, s \ {x})
  BY <1>4, <1>8, SumRemove
<1>10. SumFunctionOnSet(F, s \ {x}) \in Nat /\ SumFunctionOnSet(G, s \ {x}) \in Nat
  BY <1>4, <1>8, FS_RemoveElement, SumNat
<1>. QED BY <1>4, <1>7, <1>8, <1>9, <1>10

\* C is taken from F on V, which leaves G.
Taken(F, G, C, D, V) ==
    /\ IsFiniteSet(D) /\ V \subseteq D
    /\ \A i \in D : F[i] \in Nat /\ G[i] \in Nat /\ C[i] \in Nat
    /\ \A i \in V : G[i] + C[i] = F[i]
    /\ \A i \in D \ V : G[i] = F[i]

LEMMA SumCut ==
  ASSUME NEW F, NEW G, NEW C, NEW D, NEW V, Taken(F, G, C, D, V)
  PROVE  /\ SumFunctionOnSet(G, D) + SumFunctionOnSet(C, V) = SumFunctionOnSet(F, D)
         /\ SumFunctionOnSet(G, D) \in Nat /\ SumFunctionOnSet(C, V) \in Nat
<1> USE DEF Taken
<1>1. IsFiniteSet(V) /\ V \in SUBSET D /\ IsFiniteSet(D)
  BY FS_Subset
<1>2. IsFiniteSet(D \ V)
  BY FS_Subset
<1>3. \A i \in V : G[i] \in Nat /\ C[i] \in Nat /\ F[i] = G[i] + C[i]
  OBVIOUS
<1>4. SumFunctionOnSet(F, V) = SumFunctionOnSet(G, V) + SumFunctionOnSet(C, V)
  BY <1>1, <1>3, SumPlus
<1>5. SumFunctionOnSet(G, D \ V) = SumFunctionOnSet(F, D \ V)
  BY <1>2, SumSame
<1>6. \A i \in D : F[i] \in Nat
  OBVIOUS
<1>7. \A i \in D : G[i] \in Nat
  OBVIOUS
<1>8. /\ SumFunctionOnSet(F, D) = SumFunctionOnSet(F, V) + SumFunctionOnSet(F, D \ V)
      /\ SumFunctionOnSet(G, D) = SumFunctionOnSet(G, V) + SumFunctionOnSet(G, D \ V)
  BY <1>1, <1>6, <1>7, SumPart
<1>9. SumFunctionOnSet(G, V) \in Nat /\ SumFunctionOnSet(C, V) \in Nat
  BY <1>1, <1>3, SumNat
<1>10. SumFunctionOnSet(F, D \ V) \in Nat
  BY <1>2, <1>6, SumNat
<1>11. SumFunctionOnSet(G, D) \in Nat
  BY <1>1, <1>7, SumNat
<1>. QED BY <1>4, <1>5, <1>8, <1>9, <1>10, <1>11

LEMMA SumTimes ==
  ASSUME NEW F, NEW G, NEW c \in Nat, NEW S, IsFiniteSet(S),
         \A x \in S : F[x] \in Nat /\ G[x] = c * F[x]
  PROVE  SumFunctionOnSet(G, S) = c * SumFunctionOnSet(F, S)
<1> DEFINE Bad == {s \in SUBSET S : SumFunctionOnSet(G, s) # c * SumFunctionOnSet(F, s)}
<1>1. SUFFICES ASSUME Bad # {} PROVE FALSE
  <2>1. S \notin Bad
    BY <1>1
  <2>. QED BY <2>1
<1>2. Bad \in SUBSET (SUBSET S)
  OBVIOUS
<1> HIDE DEF Bad
<1>3. PICK s \in Bad : \A t \in SUBSET s : t # s => t \notin Bad
  BY <1>1, <1>2, SmallestSet
<1>4. s \in SUBSET S /\ IsFiniteSet(s) /\ SumFunctionOnSet(G, s) # c * SumFunctionOnSet(F, s)
  BY <1>3, FS_Subset DEF Bad
<1>5. s # {}
  <2>1. c * 0 = 0
    OBVIOUS
  <2>. QED BY <1>4, <2>1, SumEmpty
<1>6. PICK x \in s : TRUE
  BY <1>5
<1>7. SumFunctionOnSet(G, s \ {x}) = c * SumFunctionOnSet(F, s \ {x})
  BY <1>3, <1>4, <1>6 DEF Bad
<1>8. \A y \in s : F[y] \in Nat /\ G[y] \in Nat /\ G[y] = c * F[y]
  BY <1>4
<1>9. /\ SumFunctionOnSet(F, s) = F[x] + SumFunctionOnSet(F, s \ {x})
      /\ SumFunctionOnSet(G, s) = G[x] + SumFunctionOnSet(G, s \ {x})
  BY <1>4, <1>8, SumRemove
<1>10. SumFunctionOnSet(F, s \ {x}) \in Nat
  BY <1>4, <1>8, FS_RemoveElement, SumNat
<1>11. \A m, n \in Nat : c * (m + n) = c * m + c * n
  OBVIOUS
<1>. QED BY <1>4, <1>7, <1>8, <1>9, <1>10, <1>11

\* Shares of a whole that are rounded down add up to no more than the whole.
LEMMA SumFloors ==
  ASSUME NEW F, NEW G, NEW S, IsFiniteSet(S), NEW a \in Nat,
         \A x \in S : F[x] \in Nat,
         SumFunctionOnSet(F, S) > 0,
         \A x \in S : G[x] = (a * F[x]) \div SumFunctionOnSet(F, S)
  PROVE  /\ \A x \in S : G[x] \in Nat
         /\ SumFunctionOnSet(G, S) <= a
<1>1. PICK t \in Nat : t = SumFunctionOnSet(F, S) /\ t > 0
  BY SumNat
<1>2. \A n \in Nat : n \div t \in Nat /\ t * (n \div t) <= n
  BY <1>1
<1>3. \A x \in S : a * F[x] \in Nat
  OBVIOUS
<1>4. \A x \in S : G[x] \in Nat /\ t * G[x] \in Nat /\ t * G[x] <= a * F[x]
  <2> SUFFICES ASSUME NEW x \in S
               PROVE  G[x] \in Nat /\ t * G[x] \in Nat /\ t * G[x] <= a * F[x]
    OBVIOUS
  <2>1. PICK n \in Nat : n = a * F[x]
    BY <1>3
  <2>2. G[x] = n \div t
    BY <1>1, <2>1
  <2>3. \A m \in Nat : t * m \in Nat
    BY <1>1
  <2>. QED BY <1>2, <2>1, <2>2, <2>3
<1> DEFINE U == [x \in S |-> t * G[x]]
           V == [x \in S |-> a * F[x]]
<1>5. \A x \in S : U[x] \in Nat /\ V[x] \in Nat /\ U[x] <= V[x] /\ U[x] = t * G[x] /\ V[x] = a * F[x]
  BY <1>3, <1>4
<1> HIDE DEF U, V
<1>6. SumFunctionOnSet(U, S) <= SumFunctionOnSet(V, S)
  BY <1>5, SumAtMost
<1>7. SumFunctionOnSet(U, S) = t * SumFunctionOnSet(G, S)
  <2>1. \A x \in S : G[x] \in Nat /\ U[x] = t * G[x]
    BY <1>4, <1>5
  <2>. QED BY <1>1, <2>1, SumTimes
<1>8. SumFunctionOnSet(V, S) = a * t
  <2>1. \A x \in S : F[x] \in Nat /\ V[x] = a * F[x]
    BY <1>5
  <2>. QED BY <1>1, <2>1, SumTimes
<1>9. SumFunctionOnSet(G, S) \in Nat
  BY <1>4, SumNat
<1>10. \A n \in Nat : t * n <= a * t => n <= a
  <2> SUFFICES ASSUME NEW n \in Nat, t * n <= a * t, n >= a + 1 PROVE FALSE
    OBVIOUS
  <2>1. t * (a + 1) <= t * n
    BY <1>1
  <2>2. t * (a + 1) = a * t + t
    OBVIOUS
  <2>. QED BY <1>1, <2>1, <2>2
<1>. QED BY <1>4, <1>6, <1>7, <1>8, <1>9, <1>10

\* The sum over what an injection reaches.
LEMMA SumMap ==
  ASSUME NEW F, NEW G, NEW S, IsFiniteSet(S), NEW h,
         \A x, y \in S : h[x] = h[y] => x = y,
         \A x \in S : F[h[x]] \in Nat /\ G[x] = F[h[x]]
  PROVE  SumFunctionOnSet(G, S) = SumFunctionOnSet(F, {h[x] : x \in S})
<1> DEFINE Image(s) == {h[x] : x \in s}
           Bad == {s \in SUBSET S : SumFunctionOnSet(G, s) # SumFunctionOnSet(F, Image(s))}
<1>1. SUFFICES ASSUME Bad # {} PROVE FALSE
  <2>1. S \notin Bad
    BY <1>1
  <2>. QED BY <2>1
<1>2. Bad \in SUBSET (SUBSET S)
  OBVIOUS
<1> HIDE DEF Bad
<1>3. PICK s \in Bad : \A t \in SUBSET s : t # s => t \notin Bad
  BY <1>1, <1>2, SmallestSet
<1>4. s \in SUBSET S /\ IsFiniteSet(s) /\ SumFunctionOnSet(G, s) # SumFunctionOnSet(F, Image(s))
  BY <1>3, FS_Subset DEF Bad
<1>5. s # {}
  <2>1. Image({}) = {}
    OBVIOUS
  <2>2. SumFunctionOnSet(G, {}) = SumFunctionOnSet(F, Image({}))
    BY <2>1, SumEmpty
  <2>. QED BY <1>4, <2>2
<1>6. PICK x \in s : TRUE
  BY <1>5
<1>7. SumFunctionOnSet(G, s \ {x}) = SumFunctionOnSet(F, Image(s \ {x}))
  BY <1>3, <1>4, <1>6 DEF Bad
<1>8. SumFunctionOnSet(G, s) = G[x] + SumFunctionOnSet(G, s \ {x})
  BY <1>4, SumRemove
<1>9. IsFiniteSet(Image(s)) /\ Image(s) \ {h[x]} = Image(s \ {x}) /\ h[x] \in Image(s)
  <2>1. IsFiniteSet(Image(s))
    <3> DEFINE f == [y \in s |-> h[y]]
    <3>1. Image(s) = {f[y] : y \in s}
      OBVIOUS
    <3>2. f \in Surjection(s, Image(s))
      BY DEF Surjection
    <3> HIDE DEF f
    <3>. QED BY <1>4, <3>2, FS_Surjection
  <2>2. \A y \in s : h[y] = h[x] => y = x
    BY <1>4
  <2>. QED BY <1>6, <2>1, <2>2
<1>10. \A y \in Image(s) : F[y] \in Nat
  BY <1>4
<1>11. SumFunctionOnSet(F, Image(s)) = F[h[x]] + SumFunctionOnSet(F, Image(s) \ {h[x]})
  BY <1>9, <1>10, SumRemove
<1>12. G[x] = F[h[x]]
  BY <1>4
<1>. QED BY <1>4, <1>7, <1>8, <1>9, <1>11, <1>12

\* The elements of S are in the groups P, x in that of g[x], and G has the sum of each.
Grouped(F, S, D, g, P, G) ==
    /\ IsFiniteSet(S) /\ IsFiniteSet(D)
    /\ \A x \in S : F[x] \in Nat /\ g[x] \in D
    /\ \A d \in D : \A x : x \in P[d] <=> x \in S /\ g[x] = d
    /\ \A d \in D : G[d] = SumFunctionOnSet(F, P[d])

LEMMA SumGroups ==
  ASSUME NEW F, NEW S, NEW D, NEW g, NEW P, NEW G, Grouped(F, S, D, g, P, G)
  PROVE  SumFunctionOnSet(G, D) = SumFunctionOnSet(F, S)
<1> USE DEF Grouped
<1> DEFINE Group(s) == [d \in D |-> SumFunctionOnSet(F, {x \in s : g[x] = d})]
           Bad == {s \in SUBSET S : SumFunctionOnSet(Group(s), D) # SumFunctionOnSet(F, s)}
<1>1. SUFFICES ASSUME Bad # {} PROVE FALSE
  <2>1. S \notin Bad
    BY <1>1
  <2>2. SumFunctionOnSet(Group(S), D) = SumFunctionOnSet(F, S)
    BY <2>1
  <2>3. \A d \in D : G[d] = Group(S)[d]
    <3>1. \A d \in D : P[d] = {x \in S : g[x] = d}
      OBVIOUS
    <3>. QED BY <3>1
  <2> HIDE DEF Group
  <2>. QED BY <2>2, <2>3, SumSame
<1>2. Bad \in SUBSET (SUBSET S)
  OBVIOUS
<1> HIDE DEF Bad
<1>3. PICK s \in Bad : \A t \in SUBSET s : t # s => t \notin Bad
  BY <1>1, <1>2, SmallestSet
<1>4. s \in SUBSET S /\ IsFiniteSet(s) /\ SumFunctionOnSet(Group(s), D) # SumFunctionOnSet(F, s)
  BY <1>3, FS_Subset DEF Bad
<1>5. s # {}
  <2>1. \A d \in D : Group({})[d] = 0
    <3>1. \A d \in D : {x \in {} : g[x] = d} = {}
      OBVIOUS
    <3>. QED BY <3>1, SumEmpty
  <2> HIDE DEF Group
  <2>2. SumFunctionOnSet(Group({}), D) = 0 /\ SumFunctionOnSet(F, {}) = 0
    BY <2>1, SumZero, SumEmpty
  <2>. QED BY <1>4, <2>2
<1>6. PICK x \in s : TRUE
  BY <1>5
<1> DEFINE r == s \ {x}
<1>7. SumFunctionOnSet(Group(r), D) = SumFunctionOnSet(F, r)
  BY <1>3, <1>4, <1>6 DEF Bad
<1>8. IsFiniteSet(r) /\ \A y \in r : F[y] \in Nat
  BY <1>4, FS_RemoveElement
<1>9. SumFunctionOnSet(F, s) = F[x] + SumFunctionOnSet(F, r)
  BY <1>4, SumRemove
<1>10. \A d \in D : /\ IsFiniteSet({y \in s : g[y] = d}) /\ IsFiniteSet({y \in r : g[y] = d})
                    /\ Group(s)[d] \in Nat /\ Group(r)[d] \in Nat
  <2> SUFFICES ASSUME NEW d \in D
               PROVE  /\ IsFiniteSet({y \in s : g[y] = d}) /\ IsFiniteSet({y \in r : g[y] = d})
                      /\ Group(s)[d] \in Nat /\ Group(r)[d] \in Nat
    OBVIOUS
  <2>1. IsFiniteSet({y \in s : g[y] = d}) /\ IsFiniteSet({y \in r : g[y] = d})
    BY <1>4, <1>8, FS_Subset
  <2>2. /\ \A z \in {y \in s : g[y] = d} : F[z] \in Nat
        /\ \A z \in {y \in r : g[y] = d} : F[z] \in Nat
    BY <1>4, <1>8
  <2>. QED BY <2>1, <2>2, SumNat
<1>11. g[x] \in D /\ F[x] \in Nat
  BY <1>4
<1>12. Group(s)[g[x]] = F[x] + Group(r)[g[x]]
  <2> DEFINE T == {y \in s : g[y] = g[x]}
  <2>1. x \in T /\ T \ {x} = {y \in r : g[y] = g[x]} /\ IsFiniteSet(T) /\ \A y \in T : F[y] \in Nat
    BY <1>4, <1>10, <1>11
  <2>2. SumFunctionOnSet(F, T) = F[x] + SumFunctionOnSet(F, T \ {x})
    <3> HIDE DEF T
    <3>. QED BY <2>1, SumRemove
  <2>. QED BY <1>11, <2>1, <2>2
<1>13. \A d \in D \ {g[x]} : Group(s)[d] = Group(r)[d]
  <2>1. \A d \in D \ {g[x]} : {y \in s : g[y] = d} = {y \in r : g[y] = d}
    OBVIOUS
  <2>. QED BY <2>1
<1>14. SumFunctionOnSet(Group(s), D) + Group(r)[g[x]] = SumFunctionOnSet(Group(r), D) + Group(s)[g[x]]
       /\ SumFunctionOnSet(Group(s), D) \in Nat /\ SumFunctionOnSet(Group(r), D) \in Nat
  <2>1. \A d \in D : Group(r)[d] \in Nat /\ Group(s)[d] \in Nat
    BY <1>10
  <2> HIDE DEF Group, r
  <2>. QED BY <1>11, <1>13, <2>1, SumChange
<1>15. Group(r)[g[x]] \in Nat
  BY <1>10, <1>11
<1> HIDE DEF Group, r
<1>. QED BY <1>4, <1>7, <1>9, <1>11, <1>12, <1>14, <1>15

\* M is a table of numbers, R the sums of its rows and C those of its columns.
Tabled(S, T, M, R, C) ==
    /\ IsFiniteSet(S) /\ IsFiniteSet(T)
    /\ \A x \in S, y \in T : M[x][y] \in Nat
    /\ \A x \in S : R[x] = SumFunctionOnSet(M[x], T)
    /\ \A y \in T : C[y] = SumFunctionOnSet([x \in S |-> M[x][y]], S)

LEMMA SumSwap ==
  ASSUME NEW S, NEW T, NEW M, NEW R, NEW C, Tabled(S, T, M, R, C)
  PROVE  SumFunctionOnSet(R, S) = SumFunctionOnSet(C, T)
<1> USE DEF Tabled
<1> DEFINE Col(s) == [y \in T |-> SumFunctionOnSet([x \in S |-> M[x][y]], s)]
           Bad == {s \in SUBSET S : SumFunctionOnSet(R, s) # SumFunctionOnSet(Col(s), T)}
<1>1. SUFFICES ASSUME Bad # {} PROVE FALSE
  <2>1. S \notin Bad
    BY <1>1
  <2>2. SumFunctionOnSet(R, S) = SumFunctionOnSet(Col(S), T)
    BY <2>1
  <2>3. \A y \in T : C[y] = Col(S)[y]
    OBVIOUS
  <2> HIDE DEF Col
  <2>4. SumFunctionOnSet(Col(S), T) = SumFunctionOnSet(C, T)
    BY <2>3, SumSame
  <2>. QED BY <2>2, <2>4
<1>2. Bad \in SUBSET (SUBSET S)
  OBVIOUS
<1> HIDE DEF Bad
<1>3. PICK s \in Bad : \A t \in SUBSET s : t # s => t \notin Bad
  BY <1>1, <1>2, SmallestSet
<1>4. s \in SUBSET S /\ IsFiniteSet(s) /\ SumFunctionOnSet(R, s) # SumFunctionOnSet(Col(s), T)
  BY <1>3, FS_Subset DEF Bad
<1>5. \A t \in SUBSET s : \A y \in T : Col(t)[y] \in Nat
  <2> SUFFICES ASSUME NEW t \in SUBSET s, NEW y \in T PROVE Col(t)[y] \in Nat
    OBVIOUS
  <2> DEFINE K == [x \in S |-> M[x][y]]
  <2>1. IsFiniteSet(t) /\ \A x \in t : K[x] \in Nat
    BY <1>4, FS_Subset
  <2> HIDE DEF K
  <2>2. SumFunctionOnSet(K, t) \in Nat
    BY <2>1, SumNat
  <2>. QED BY <2>2 DEF K
<1>6. s # {}
  <2>1. \A y \in T : Col({})[y] = 0
    BY SumEmpty
  <2> HIDE DEF Col
  <2>2. SumFunctionOnSet(Col({}), T) = 0 /\ SumFunctionOnSet(R, {}) = 0
    BY <2>1, SumZero, SumEmpty
  <2>. QED BY <1>4, <2>2
<1>7. PICK x \in s : TRUE
  BY <1>6
<1> DEFINE r == s \ {x}
<1>8. SumFunctionOnSet(R, r) = SumFunctionOnSet(Col(r), T)
  BY <1>3, <1>4, <1>7 DEF Bad
<1>9. \A y \in s : R[y] \in Nat
  <2> SUFFICES ASSUME NEW y \in s PROVE R[y] \in Nat
    OBVIOUS
  <2>1. \A z \in T : M[y][z] \in Nat
    BY <1>4
  <2>2. SumFunctionOnSet(M[y], T) \in Nat
    BY <2>1, SumNat
  <2>. QED BY <1>4, <2>2
<1>10. SumFunctionOnSet(R, s) = R[x] + SumFunctionOnSet(R, r)
  BY <1>4, <1>9, SumRemove
<1>11. R[x] = SumFunctionOnSet(M[x], T)
  BY <1>4
<1>12. \A y \in T : Col(s)[y] = M[x][y] + Col(r)[y]
  <2> SUFFICES ASSUME NEW y \in T PROVE Col(s)[y] = M[x][y] + Col(r)[y]
    OBVIOUS
  <2> DEFINE K == [z \in S |-> M[z][y]]
  <2>1. /\ \A z \in s : K[z] \in Nat
        /\ K[x] = M[x][y]
    BY <1>4
  <2> HIDE DEF K
  <2>2. SumFunctionOnSet(K, s) = K[x] + SumFunctionOnSet(K, s \ {x})
    BY <1>4, <2>1, SumRemove
  <2>. QED BY <2>1, <2>2 DEF K
<1>13. /\ \A y \in T : M[x][y] \in Nat /\ Col(r)[y] \in Nat /\ Col(s)[y] = M[x][y] + Col(r)[y]
  BY <1>4, <1>5, <1>12
<1> HIDE DEF Col, r
<1>14. SumFunctionOnSet(Col(s), T) = SumFunctionOnSet(M[x], T) + SumFunctionOnSet(Col(r), T)
  BY <1>13, SumPlus
<1>. QED BY <1>4, <1>8, <1>10, <1>11, <1>14

-----------------------------------------------------------------------------
(* The quorum rule of vote.rs: the powers of distinct validators are added up and
   compared with total * 2 / 3 + 1. *)

\* Two shares of two thirds and one unit overlap in a third.
LEMMA TwoThirds ==
  ASSUME NEW v \in Nat, NEW s \in Nat, NEW t \in Nat, NEW c \in Nat,
         s >= (v * 2) \div 3 + 1, t >= (v * 2) \div 3 + 1, s + t <= v + c
  PROVE  3 * c >= v
<1>1. PICK q \in Int : q = (v * 2) \div 3
  OBVIOUS
<1>2. v * 2 < 3 * q + 3
  BY <1>1
<1>. QED BY <1>1, <1>2

\* Two sets of validators that reach the threshold share one outside any set B that has
\* less than a third of the power, whatever the powers.
THEOREM QuorumIntersection ==
  ASSUME NEW V, IsFiniteSet(V), NEW P \in [V -> Nat], NEW B \in SUBSET V,
         3 * SumFunctionOnSet(P, B) < SumFunctionOnSet(P, V),
         NEW S \in SUBSET V, NEW T \in SUBSET V,
         SumFunctionOnSet(P, S) >= (SumFunctionOnSet(P, V) * 2) \div 3 + 1,
         SumFunctionOnSet(P, T) >= (SumFunctionOnSet(P, V) * 2) \div 3 + 1
  PROVE  \E n \in V \ B : n \in S /\ n \in T
<1> SUFFICES ASSUME S \cap T \subseteq B PROVE FALSE
  OBVIOUS
<1> DEFINE Sum(s) == SumFunctionOnSet(P, s)
<1>1. IsFiniteSet(S) /\ IsFiniteSet(T) /\ IsFiniteSet(B) /\ IsFiniteSet(S \cup T)
      /\ S \cup T \in SUBSET V
  BY FS_Subset, FS_Union
<1>2. Sum(S \cup T) <= Sum(V) /\ Sum(V) \in Nat /\ Sum(S \cup T) \in Nat
  BY SumPart
<1>3. Sum(S \cup T) = Sum(S) + Sum(T \ S)
  <2>1. IsFiniteSet(T \ S) /\ S \cap (T \ S) = {} /\ S \cup (T \ S) = S \cup T
    BY <1>1, FS_Subset
  <2>. QED BY <1>1, <2>1, SumUnion
<1>4. Sum(T) = Sum(S \cap T) + Sum(T \ S)
  <2>1. (S \cap T) \in SUBSET T /\ T \ (S \cap T) = T \ S /\ \A y \in T : P[y] \in Nat
    OBVIOUS
  <2>2. Sum(T) = Sum(S \cap T) + Sum(T \ (S \cap T))
    BY <1>1, <2>1, SumPart
  <2>. QED BY <2>1, <2>2
<1>5. Sum(S \cap T) <= Sum(B) /\ Sum(S \cap T) \in Nat /\ Sum(B) \in Nat
  BY <1>1, SumPart
<1>6. Sum(S) \in Nat /\ Sum(T) \in Nat /\ Sum(T \ S) \in Nat
  BY <1>1, FS_Subset, SumNat
<1>7. /\ Sum(S) >= (Sum(V) * 2) \div 3 + 1 /\ Sum(T) >= (Sum(V) * 2) \div 3 + 1
      /\ 3 * Sum(B) < Sum(V)
  OBVIOUS
<1> HIDE DEF Sum
<1>. QED BY <1>2, <1>3, <1>4, <1>5, <1>6, <1>7, TwoThirds
=============================================================================
