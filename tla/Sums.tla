-------------------------------- MODULE Sums --------------------------------
(* Facts about sums of integers over a finite set (SumFunctionOnSet of     *)
(* Functions), by induction on the set.  The proofs about quotas, about    *)
(* the time of paused plans and about payments on a chain rest on them.    *)
EXTENDS Integers, FiniteSets, Functions, FiniteSetTheorems,
        WellFoundedInduction, TLAPS
-----------------------------------------------------------------------------
(* Sums over a finite set, by induction on its size.                       *)

(* The sums of Functions, written so that they can be reasoned about: what *)
(* a partial sum is made of, and the function of all partial sums.         *)
Chosen(s) == CHOOSE x \in s : TRUE
SumStep(f, g, s) == IF s = {} THEN 0 ELSE f[Chosen(s)] + g[s \ {Chosen(s)}]
PartialSums(f, S) == CHOOSE g : g = [t \in SUBSET S |-> SumStep(f, g, t)]

LEMMA SumIsPartialSum ==
  ASSUME NEW f, NEW S PROVE SumFunctionOnSet(f, S) = PartialSums(f, S)[S]
BY DEF SumFunctionOnSet, FoldFunctionOnSet, MapThenFoldSet, PartialSums, SumStep, Chosen

LEMMA LeastNatural ==
  ASSUME NEW T, T \subseteq Nat, T # {} PROVE \E m \in T : \A n \in T : m <= n
<1>1. PICK m \in T : \A n \in T : ~ (<<n, m>> \in OpToRel(<, Nat))
  BY WFMin, NatLessThanWellFounded
<1>2. \A n \in T : ~ (n < m)
  BY <1>1 DEF OpToRel
<1> QED
  BY <1>2

(* Induction over the subsets of a finite set, for a property given as the *)
(* set of those that have it.                                              *)
LEMMA SubsetInduction ==
  ASSUME NEW S, IsFiniteSet(S), NEW Good,
         \A T \in SUBSET S : (\A U \in SUBSET T : U # T => U \in Good) => T \in Good
  PROVE  \A T \in SUBSET S : T \in Good
<1> SUFFICES ASSUME NEW T0 \in SUBSET S, T0 \notin Good PROVE FALSE
  OBVIOUS
<1> DEFINE Bad == {T \in SUBSET S : T \notin Good}
           sizes == {Cardinality(T) : T \in Bad}
<1>1. \A T \in SUBSET S : IsFiniteSet(T) /\ Cardinality(T) \in Nat
  BY FS_Subset, FS_CardinalityType
<1>2. PICK T \in Bad : \A U \in Bad : Cardinality(T) <= Cardinality(U)
  <2>1. sizes \subseteq Nat /\ sizes # {}
    BY <1>1
  <2>2. PICK m \in sizes : \A n \in sizes : m <= n
    BY <2>1, LeastNatural
  <2> QED
    BY <2>2
<1>3. ASSUME NEW U \in SUBSET T, U # T PROVE U \in Good
  <2>1. Cardinality(U) <= Cardinality(T) /\ Cardinality(U) # Cardinality(T)
    BY <1>1, <1>2, <1>3, FS_Subset
  <2> QED
    BY <1>1, <1>2, <2>1
<1> QED
  BY <1>2, <1>3

(* The partial sums are what their definition says.                        *)
LEMMA PartialSumsExist ==
  ASSUME NEW f, NEW S, IsFiniteSet(S)
  PROVE  \A s \in SUBSET S : PartialSums(f, S)[s] = SumStep(f, PartialSums(f, S), s)
<1> DEFINE Upto(n) == {s \in SUBSET S : Cardinality(s) <= n}
           Sums(n) == \E g : g = [s \in Upto(n) |-> SumStep(f, g, s)]
           Bad == {n \in Nat : ~ Sums(n)}
<1>1. \A s \in SUBSET S : IsFiniteSet(s) /\ Cardinality(s) \in Nat
  BY FS_Subset, FS_CardinalityType
<1>2. \A n \in Nat : \A s \in Upto(n + 1) :
        s # {} => Chosen(s) \in s /\ s \ {Chosen(s)} \in Upto(n)
  <2> SUFFICES ASSUME NEW n \in Nat, NEW s \in Upto(n + 1), s # {}
               PROVE  Chosen(s) \in s /\ s \ {Chosen(s)} \in Upto(n)
    OBVIOUS
  <2>1. Chosen(s) \in s
    BY DEF Chosen
  <2>2. Cardinality(s \ {Chosen(s)}) = Cardinality(s) - 1
    BY <1>1, <2>1, FS_RemoveElement
  <2> QED
    BY <1>1, <2>1, <2>2
<1>3. ASSUME NEW n \in Nat, Sums(n) PROVE Sums(n + 1)
  <2>1. PICK g : g = [s \in Upto(n) |-> SumStep(f, g, s)]
    BY <1>3
  <2> DEFINE h == [s \in Upto(n + 1) |-> SumStep(f, g, s)]
  <2>2. \A s \in Upto(n) : s \in Upto(n + 1) /\ h[s] = g[s]
    <3>1. \A s \in Upto(n) : s \in Upto(n + 1)
      BY <1>1
    <3> HIDE DEF Upto
    <3> QED
      BY <2>1, <3>1
  <2>3. \A s \in Upto(n + 1) : SumStep(f, g, s) = SumStep(f, h, s)
    <3> HIDE DEF h, Upto
    <3> QED
      BY <1>2, <2>2 DEF SumStep
  <2>4. h = [s \in Upto(n + 1) |-> SumStep(f, h, s)]
    BY <2>3
  <2> QED
    BY <2>4
<1>4. Sums(0)
  <2> DEFINE g == [s \in Upto(0) |-> 0]
  <2>1. \A s \in Upto(0) : SumStep(f, g, s) = 0
    BY <1>1, FS_EmptySet DEF SumStep
  <2>2. g = [s \in Upto(0) |-> SumStep(f, g, s)]
    BY <2>1
  <2> QED
    BY <2>2
<1>5. Bad = {}
  <2> SUFFICES ASSUME Bad # {} PROVE FALSE
    OBVIOUS
  <2> HIDE DEF Sums
  <2>1. PICK m \in Bad : \A n \in Bad : m <= n
    BY LeastNatural
  <2>2. m \in Nat /\ m # 0 /\ ~ Sums(m)
    BY <1>4, <2>1
  <2>3. m - 1 \in Nat /\ Sums(m - 1)
    BY <2>1, <2>2
  <2>4. Sums(m - 1 + 1)
    BY <1>3, <2>3
  <2> QED
    BY <2>2, <2>4
<1>6. Sums(Cardinality(S))
  <2> HIDE DEF Sums
  <2> QED
    BY <1>1, <1>5
<1>7. Upto(Cardinality(S)) = SUBSET S
  BY <1>1, FS_Subset
<1>8. \E g : g = [t \in SUBSET S |-> SumStep(f, g, t)]
  BY <1>6, <1>7
<1>9. PartialSums(f, S) = [t \in SUBSET S |-> SumStep(f, PartialSums(f, S), t)]
  BY <1>8 DEF PartialSums
<1> DEFINE p == PartialSums(f, S)
<1>10. p = [t \in SUBSET S |-> SumStep(f, p, t)]
  BY <1>9
<1> HIDE DEF p
<1>11. \A s \in SUBSET S : p[s] = SumStep(f, p, s)
  BY <1>10
<1> QED
  BY <1>11 DEF p

(* The partial sums of a set are those of its subsets.                     *)
LEMMA PartialSumsAgree ==
  ASSUME NEW f, NEW S, IsFiniteSet(S), NEW R \in SUBSET S
  PROVE  PartialSums(f, S)[R] = SumFunctionOnSet(f, R)
<1> DEFINE g == PartialSums(f, S)
           h == PartialSums(f, R)
           Good == {T \in SUBSET R : g[T] = h[T]}
<1>1. /\ IsFiniteSet(R)
      /\ \A T \in SUBSET S : g[T] = SumStep(f, g, T)
      /\ \A T \in SUBSET R : h[T] = SumStep(f, h, T)
  BY FS_Subset, PartialSumsExist
<1> HIDE DEF g, h
<1>2. ASSUME NEW T \in SUBSET R, T # {}, T \ {Chosen(T)} \in Good PROVE T \in Good
  <2>1. g[T] = f[Chosen(T)] + g[T \ {Chosen(T)}]
    BY <1>1, <1>2 DEF SumStep
  <2>2. h[T] = f[Chosen(T)] + h[T \ {Chosen(T)}]
    BY <1>1, <1>2 DEF SumStep
  <2> QED
    BY <1>2, <2>1, <2>2
<1>3. {} \in Good
  BY <1>1 DEF SumStep
<1>4. \A T \in SUBSET R : T # {} => T \ {Chosen(T)} \in SUBSET T /\ T \ {Chosen(T)} # T
  BY DEF Chosen
<1> HIDE DEF Good
<1>5. \A T \in SUBSET R : (\A U \in SUBSET T : U # T => U \in Good) => T \in Good
  BY <1>2, <1>3, <1>4
<1>6. R \in Good
  BY <1>1, <1>5, SubsetInduction
<1> QED
  BY <1>6, SumIsPartialSum DEF Good, g, h

LEMMA SumOfNone == ASSUME NEW f PROVE SumFunctionOnSet(f, {}) = 0
<1>1. IsFiniteSet({})
  BY FS_EmptySet
<1>2. PartialSums(f, {})[{}] = SumStep(f, PartialSums(f, {}), {})
  BY <1>1, PartialSumsExist
<1> QED
  BY <1>2, SumIsPartialSum DEF SumStep

LEMMA SumOfChosen ==
  ASSUME NEW f, NEW S, IsFiniteSet(S), S # {}
  PROVE  /\ Chosen(S) \in S
         /\ SumFunctionOnSet(f, S) = f[Chosen(S)] + SumFunctionOnSet(f, S \ {Chosen(S)})
<1>1. Chosen(S) \in S
  BY DEF Chosen
<1>2. PartialSums(f, S)[S] = f[Chosen(S)] + PartialSums(f, S)[S \ {Chosen(S)}]
  BY PartialSumsExist DEF SumStep
<1>3. PartialSums(f, S)[S \ {Chosen(S)}] = SumFunctionOnSet(f, S \ {Chosen(S)})
  BY PartialSumsAgree
<1> QED
  BY <1>1, <1>2, <1>3, SumIsPartialSum

LEMMA SumType ==
  ASSUME NEW S, IsFiniteSet(S), NEW f, \A x \in S : f[x] \in Int
  PROVE  \A T \in SUBSET S : SumFunctionOnSet(f, T) \in Int
<1> DEFINE Good == {T \in SUBSET S : SumFunctionOnSet(f, T) \in Int}
<1>1. ASSUME NEW T \in SUBSET S, \A U \in SUBSET T : U # T => U \in Good PROVE T \in Good
  <2>1. CASE T = {}
    BY <2>1, SumOfNone
  <2>2. CASE T # {}
    <3>1. IsFiniteSet(T)
      BY FS_Subset
    <3>2. /\ Chosen(T) \in T
          /\ SumFunctionOnSet(f, T) = f[Chosen(T)] + SumFunctionOnSet(f, T \ {Chosen(T)})
      BY <2>2, <3>1, SumOfChosen
    <3>3. T \ {Chosen(T)} \in Good
      BY <1>1, <3>2
    <3> QED
      BY <3>2, <3>3
  <2> QED
    BY <2>1, <2>2
<1> HIDE DEF Good
<1>2. \A T \in SUBSET S : T \in Good
  BY <1>1, SubsetInduction
<1> QED
  BY <1>2 DEF Good

(* Any summand can be taken out, not only the one chosen.                  *)
LEMMA SumTakeOut ==
  ASSUME NEW S, IsFiniteSet(S), NEW f, \A x \in S : f[x] \in Int, NEW x \in S
  PROVE  SumFunctionOnSet(f, S) = f[x] + SumFunctionOnSet(f, S \ {x})
<1> DEFINE Good == {T \in SUBSET S : \A y \in T :
                      SumFunctionOnSet(f, T) = f[y] + SumFunctionOnSet(f, T \ {y})}
<1>1. ASSUME NEW T \in SUBSET S, \A U \in SUBSET T : U # T => U \in Good PROVE T \in Good
  <2> SUFFICES ASSUME NEW y \in T
               PROVE  SumFunctionOnSet(f, T) = f[y] + SumFunctionOnSet(f, T \ {y})
    OBVIOUS
  <2> DEFINE c == Chosen(T)
  <2>1. IsFiniteSet(T) /\ T # {}
    BY FS_Subset
  <2>2. c \in T /\ SumFunctionOnSet(f, T) = f[c] + SumFunctionOnSet(f, T \ {c})
    BY <2>1, SumOfChosen
  <2> HIDE DEF c
  <2>3. CASE y = c
    BY <2>2, <2>3
  <2>4. CASE y # c
    <3> DEFINE rest == (T \ {c}) \ {y}
    <3>1. T \ {c} \in Good /\ T \ {y} \in Good /\ (T \ {y}) \ {c} = rest
      BY <1>1, <2>2
    <3>2. SumFunctionOnSet(f, T \ {c}) = f[y] + SumFunctionOnSet(f, rest)
      BY <2>4, <3>1
    <3>3. SumFunctionOnSet(f, T \ {y}) = f[c] + SumFunctionOnSet(f, rest)
      BY <2>2, <2>4, <3>1
    <3>4. f[y] \in Int /\ f[c] \in Int /\ SumFunctionOnSet(f, rest) \in Int
      BY <2>2, SumType
    <3> HIDE DEF rest
    <3> QED
      BY <2>2, <3>2, <3>3, <3>4
  <2> QED
    BY <2>3, <2>4
<1> HIDE DEF Good
<1>2. \A T \in SUBSET S : T \in Good
  BY <1>1, SubsetInduction
<1> QED
  BY <1>2 DEF Good

(* Sums depend on their summands only, and grow with them.                 *)
LEMMA SumAtMost ==
  ASSUME NEW S, IsFiniteSet(S), NEW f, NEW g,
         \A x \in S : f[x] \in Int /\ g[x] \in Int /\ f[x] <= g[x]
  PROVE  SumFunctionOnSet(f, S) <= SumFunctionOnSet(g, S)
<1> DEFINE Good == {T \in SUBSET S : SumFunctionOnSet(f, T) <= SumFunctionOnSet(g, T)}
<1>1. ASSUME NEW T \in SUBSET S, \A U \in SUBSET T : U # T => U \in Good PROVE T \in Good
  <2>1. CASE T = {}
    BY <2>1, SumOfNone
  <2>2. CASE T # {}
    <3>1. IsFiniteSet(T)
      BY FS_Subset
    <3>2. PICK x \in T : TRUE
      BY <2>2
    <3>3. /\ SumFunctionOnSet(f, T) = f[x] + SumFunctionOnSet(f, T \ {x})
          /\ SumFunctionOnSet(g, T) = g[x] + SumFunctionOnSet(g, T \ {x})
      BY <3>1, SumTakeOut
    <3>4. /\ SumFunctionOnSet(f, T \ {x}) \in Int /\ SumFunctionOnSet(g, T \ {x}) \in Int
          /\ f[x] \in Int /\ g[x] \in Int /\ f[x] <= g[x]
      BY SumType
    <3>5. T \ {x} \in Good
      BY <1>1
    <3>6. SumFunctionOnSet(f, T \ {x}) <= SumFunctionOnSet(g, T \ {x})
      BY <3>5
    <3> QED
      BY <3>3, <3>4, <3>6
  <2> QED
    BY <2>1, <2>2
<1> HIDE DEF Good
<1>2. \A T \in SUBSET S : T \in Good
  BY <1>1, SubsetInduction
<1> QED
  BY <1>2 DEF Good

LEMMA SumSame ==
  ASSUME NEW S, IsFiniteSet(S), NEW f, NEW g, \A x \in S : f[x] \in Int /\ f[x] = g[x]
  PROVE  SumFunctionOnSet(f, S) = SumFunctionOnSet(g, S)
<1>1. \A x \in S : f[x] \in Int /\ g[x] \in Int /\ f[x] <= g[x] /\ g[x] <= f[x]
  OBVIOUS
<1>2. /\ SumFunctionOnSet(f, S) <= SumFunctionOnSet(g, S)
      /\ SumFunctionOnSet(g, S) <= SumFunctionOnSet(f, S)
  BY <1>1, SumAtMost
<1>3. SumFunctionOnSet(f, S) \in Int /\ SumFunctionOnSet(g, S) \in Int
  BY <1>1, SumType
<1> QED
  BY <1>2, <1>3

(* Two functions that differ at one place.                                 *)
LEMMA SumChange ==
  ASSUME NEW S, IsFiniteSet(S), NEW f, NEW g, NEW x \in S,
         \A y \in S : f[y] \in Int /\ g[y] \in Int /\ (y # x => g[y] = f[y])
  PROVE  /\ SumFunctionOnSet(f, S) \in Int
         /\ \A d \in Int : g[x] = f[x] + d =>
              SumFunctionOnSet(g, S) = SumFunctionOnSet(f, S) + d
<1>1. /\ SumFunctionOnSet(f, S) = f[x] + SumFunctionOnSet(f, S \ {x})
      /\ SumFunctionOnSet(g, S) = g[x] + SumFunctionOnSet(g, S \ {x})
  BY SumTakeOut
<1>2. IsFiniteSet(S \ {x})
  BY FS_RemoveElement
<1>3. SumFunctionOnSet(f, S \ {x}) = SumFunctionOnSet(g, S \ {x})
  BY <1>2, SumSame
<1>4. f[x] \in Int /\ g[x] \in Int /\ SumFunctionOnSet(f, S \ {x}) \in Int
  BY SumType
<1>5. SumFunctionOnSet(f, S) \in Int
  BY SumType
<1>6. ASSUME NEW d \in Int, g[x] = f[x] + d
      PROVE  SumFunctionOnSet(g, S) = SumFunctionOnSet(f, S) + d
  BY <1>1, <1>3, <1>4, <1>6
<1> QED
  BY <1>5, <1>6

(* A sum of sums.                                                          *)
LEMMA SumPlus ==
  ASSUME NEW S, IsFiniteSet(S), NEW f, NEW g, NEW h,
         \A x \in S : f[x] \in Int /\ g[x] \in Int /\ h[x] = f[x] + g[x]
  PROVE  SumFunctionOnSet(h, S) = SumFunctionOnSet(f, S) + SumFunctionOnSet(g, S)
<1> DEFINE Good == {T \in SUBSET S :
             SumFunctionOnSet(h, T) = SumFunctionOnSet(f, T) + SumFunctionOnSet(g, T)}
<1>1. ASSUME NEW T \in SUBSET S, \A U \in SUBSET T : U # T => U \in Good PROVE T \in Good
  <2>1. CASE T = {}
    BY <2>1, SumOfNone
  <2>2. CASE T # {}
    <3>1. IsFiniteSet(T)
      BY FS_Subset
    <3>2. PICK x \in T : TRUE
      BY <2>2
    <3>3. \A y \in T : f[y] \in Int /\ g[y] \in Int /\ h[y] \in Int /\ h[y] = f[y] + g[y]
      OBVIOUS
    <3>4. /\ SumFunctionOnSet(f, T) = f[x] + SumFunctionOnSet(f, T \ {x})
          /\ SumFunctionOnSet(g, T) = g[x] + SumFunctionOnSet(g, T \ {x})
          /\ SumFunctionOnSet(h, T) = h[x] + SumFunctionOnSet(h, T \ {x})
      BY <3>1, <3>3, SumTakeOut
    <3>5. /\ SumFunctionOnSet(f, T \ {x}) \in Int /\ SumFunctionOnSet(g, T \ {x}) \in Int
      BY <3>1, <3>3, SumType
    <3>6. T \ {x} \in Good
      BY <1>1
    <3>7. SumFunctionOnSet(h, T \ {x}) =
            SumFunctionOnSet(f, T \ {x}) + SumFunctionOnSet(g, T \ {x})
      BY <3>6
    <3> QED
      BY <3>3, <3>4, <3>5, <3>7
  <2> QED
    BY <2>1, <2>2
<1> HIDE DEF Good
<1>2. \A T \in SUBSET S : T \in Good
  BY <1>1, SubsetInduction
<1> QED
  BY <1>2 DEF Good

LEMMA SumOfNaturals ==
  ASSUME NEW S, IsFiniteSet(S), NEW f, \A x \in S : f[x] \in Nat
  PROVE  \A T \in SUBSET S : /\ SumFunctionOnSet(f, T) \in Nat
                             /\ \A x \in T : f[x] <= SumFunctionOnSet(f, T)
<1> DEFINE Good == {T \in SUBSET S : SumFunctionOnSet(f, T) >= 0}
<1>1. ASSUME NEW T \in SUBSET S, \A U \in SUBSET T : U # T => U \in Good PROVE T \in Good
  <2>1. CASE T = {}
    BY <2>1, SumOfNone
  <2>2. CASE T # {}
    <3>1. IsFiniteSet(T)
      BY FS_Subset
    <3>2. PICK x \in T : TRUE
      BY <2>2
    <3>3. SumFunctionOnSet(f, T) = f[x] + SumFunctionOnSet(f, T \ {x})
      BY <3>1, SumTakeOut
    <3>4. SumFunctionOnSet(f, T \ {x}) \in Int /\ f[x] \in Nat
      BY SumType
    <3>5. T \ {x} \in Good
      BY <1>1
    <3>6. SumFunctionOnSet(f, T \ {x}) >= 0
      BY <3>5
    <3> QED
      BY <3>3, <3>4, <3>6
  <2> QED
    BY <2>1, <2>2
<1>2. \A T \in SUBSET S : T \in Good
  <2> HIDE DEF Good
  <2> QED
    BY <1>1, SubsetInduction
<1>3. \A T \in SUBSET S : SumFunctionOnSet(f, T) \in Nat
  <2>1. \A T \in SUBSET S : SumFunctionOnSet(f, T) \in Int /\ SumFunctionOnSet(f, T) >= 0
    BY <1>2, SumType
  <2> QED
    BY <2>1
<1>4. ASSUME NEW T \in SUBSET S, NEW x \in T PROVE f[x] <= SumFunctionOnSet(f, T)
  <2>1. IsFiniteSet(T)
    BY FS_Subset
  <2>2. SumFunctionOnSet(f, T) = f[x] + SumFunctionOnSet(f, T \ {x})
    BY <2>1, SumTakeOut
  <2>3. SumFunctionOnSet(f, T \ {x}) \in Nat
    BY <1>3
  <2> QED
    BY <2>2, <2>3
<1> QED
  BY <1>3, <1>4

(* What is zero outside of a set adds nothing.                             *)
LEMMA SumOfZeros ==
  ASSUME NEW S, IsFiniteSet(S), NEW f, \A x \in S : f[x] \in Int /\ f[x] = 0
  PROVE  SumFunctionOnSet(f, S) = 0
<1>1. \A x \in S : f[x] \in Int /\ f[x] \in Int /\ f[x] = f[x] + f[x]
  OBVIOUS
<1>2. SumFunctionOnSet(f, S) = SumFunctionOnSet(f, S) + SumFunctionOnSet(f, S)
  BY <1>1, SumPlus
<1>3. SumFunctionOnSet(f, S) \in Int
  BY SumType
<1> DEFINE total == SumFunctionOnSet(f, S)
<1>4. total \in Int /\ total = total + total
  BY <1>2, <1>3
<1> HIDE DEF total
<1>5. total = 0
  BY <1>4
<1> QED
  BY <1>5 DEF total

LEMMA SumWithin ==
  ASSUME NEW S, IsFiniteSet(S), NEW f, NEW T \in SUBSET S,
         \A x \in S : f[x] \in Int /\ (x \notin T => f[x] = 0)
  PROVE  SumFunctionOnSet(f, S) = SumFunctionOnSet(f, T)
<1> DEFINE Good == {U \in SUBSET S : SumFunctionOnSet(f, U) = SumFunctionOnSet(f, U \cap T)}
<1>1. ASSUME NEW U \in SUBSET S, \A V \in SUBSET U : V # U => V \in Good PROVE U \in Good
  <2>1. CASE U = {}
    <3>1. U \cap T = U
      BY <2>1
    <3> QED
      BY <3>1
  <2>2. CASE U # {}
    <3>1. IsFiniteSet(U) /\ IsFiniteSet(U \cap T)
      BY FS_Subset
    <3>2. PICK x \in U : TRUE
      BY <2>2
    <3>3. U \ {x} \in Good
      BY <1>1, <3>2
    <3>4. SumFunctionOnSet(f, U) = f[x] + SumFunctionOnSet(f, U \ {x})
      BY <3>1, <3>2, SumTakeOut
    <3>5. SumFunctionOnSet(f, U \ {x}) = SumFunctionOnSet(f, (U \ {x}) \cap T)
      BY <3>3
    <3>6. CASE x \in T
      <4>1. (U \ {x}) \cap T = (U \cap T) \ {x}
        OBVIOUS
      <4>2. \A y \in U \cap T : f[y] \in Int
        OBVIOUS
      <4>3. SumFunctionOnSet(f, U \cap T) = f[x] + SumFunctionOnSet(f, (U \cap T) \ {x})
        BY <3>1, <3>2, <3>6, <4>2, SumTakeOut
      <4> QED
        BY <3>4, <3>5, <4>1, <4>3
    <3>7. CASE x \notin T
      <4>1. (U \ {x}) \cap T = U \cap T
        BY <3>7
      <4>2. \A y \in S : f[y] \in Int
        OBVIOUS
      <4>3. SumFunctionOnSet(f, U \cap T) \in Int
        BY <4>2, SumType
      <4>4. SumFunctionOnSet(f, U) = 0 + SumFunctionOnSet(f, U \cap T)
        BY <3>2, <3>4, <3>5, <3>7, <4>1
      <4> QED
        BY <4>3, <4>4
    <3> QED
      BY <3>6, <3>7
  <2> QED
    BY <2>1, <2>2
<1>2. S \in Good
  <2> HIDE DEF Good
  <2> QED
    BY <1>1, SubsetInduction
<1>3. S \cap T = T
  OBVIOUS
<1> QED
  BY <1>2, <1>3

(* A sum is the sum over a part and the sum over the rest.                 *)
LEMMA SumSplit ==
  ASSUME NEW S, IsFiniteSet(S), NEW f, \A x \in S : f[x] \in Int, NEW T \in SUBSET S
  PROVE  SumFunctionOnSet(f, S) = SumFunctionOnSet(f, T) + SumFunctionOnSet(f, S \ T)
<1> DEFINE g == [x \in S |-> IF x \in T THEN f[x] ELSE 0]
           h == [x \in S |-> IF x \in T THEN 0 ELSE f[x]]
           R == S \ T
<1>1. \A x \in S : g[x] \in Int /\ h[x] \in Int /\ f[x] = g[x] + h[x]
  OBVIOUS
<1>2. /\ \A x \in S : x \notin T => g[x] = 0
      /\ \A x \in S : x \notin R => h[x] = 0
      /\ \A x \in T : x \in S /\ f[x] \in Int /\ g[x] = f[x]
      /\ \A x \in R : x \in S /\ f[x] \in Int /\ h[x] = f[x]
      /\ R \in SUBSET S
  OBVIOUS
<1>3. IsFiniteSet(T) /\ IsFiniteSet(R)
  BY <1>2, FS_Subset
<1> HIDE DEF g, h, R
<1>4. SumFunctionOnSet(f, S) = SumFunctionOnSet(g, S) + SumFunctionOnSet(h, S)
  BY <1>1, SumPlus
<1>5. SumFunctionOnSet(g, S) = SumFunctionOnSet(g, T)
  BY <1>1, <1>2, SumWithin
<1>6. SumFunctionOnSet(h, S) = SumFunctionOnSet(h, R)
  BY <1>1, <1>2, SumWithin
<1>7. SumFunctionOnSet(g, T) = SumFunctionOnSet(f, T)
  BY <1>2, <1>3, SumSame
<1>8. SumFunctionOnSet(h, R) = SumFunctionOnSet(f, R)
  BY <1>2, <1>3, SumSame
<1> QED
  BY <1>4, <1>5, <1>6, <1>7, <1>8 DEF R
=============================================================================
