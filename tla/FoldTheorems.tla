---------------------------- MODULE FoldTheorems ----------------------------
(***************************************************************************)
(* Sums and other folds over finite sets, for the proofs of components     *)
(* that count with them. A fold of the library is a recursive function on  *)
(* the subsets of a set; here it is shown to exist, and sums to have the   *)
(* properties one expects: any element can be taken out first, sums add    *)
(* up, and a sum changes with a value as that value does.                  *)
(*                                                                         *)
(* Induction is on a set instead of a predicate: if the least set outside  *)
(* G cannot be, because all its proper subsets are in G, then G has them   *)
(* all. The proper subsets of a finite set are ordered without infinite    *)
(* descent, so there is a least one.                                       *)
(***************************************************************************)
EXTENDS Integers, Functions, FiniteSetTheorems, WellFoundedInduction, TLAPS

\* A set that holds every subset of D all of whose proper subsets it holds.
LEMMA SubsetInduction ==
  ASSUME NEW D, IsFiniteSet(D), NEW G,
         \A s \in SUBSET D : (\A t \in SUBSET s : t # s => t \in G) => s \in G
  PROVE  SUBSET D \subseteq G
<1> DEFINE B == (SUBSET D) \ G
<1>1. IsWellFoundedOn(StrictSubsetOrdering(D), SUBSET D)
  BY FS_StrictSubsetOrderingWellFounded, FS_FiniteSubsetsOfFinite
<1> SUFFICES ASSUME B # {} PROVE FALSE
  OBVIOUS
<1>2. B \subseteq SUBSET D
  OBVIOUS
<1> HIDE DEF B
<1>3. PICK s \in B : \A t \in B : <<t, s>> \notin StrictSubsetOrdering(D)
  BY <1>1, <1>2, WFMin
<1> USE DEF B
<1>4. s \in SUBSET D /\ s \notin G
  BY <1>3
<1>5. ASSUME NEW t \in SUBSET s, t # s PROVE t \in G
  <2>1. <<t, s>> \in StrictSubsetOrdering(D)
    BY <1>4, <1>5 DEF StrictSubsetOrdering
  <2> QED BY <1>3, <1>4, <2>1
<1> QED BY <1>4, <1>5

\* The natural numbers, by the same argument.
LEMMA NatSetInduction ==
  ASSUME NEW G, 0 \in G, \A n \in Nat : n \in G => n + 1 \in G
  PROVE  Nat \subseteq G
<1> DEFINE B == Nat \ G
           R == OpToRel(<, Nat)
<1>1. IsWellFoundedOn(R, Nat)
  BY NatLessThanWellFounded
<1>2. \A m, n \in Nat : m < n => <<m, n>> \in R
  BY DEF OpToRel
<1> HIDE DEF R, B
<1> SUFFICES ASSUME B # {} PROVE FALSE
  BY DEF B
<1>3. PICK n \in B : \A m \in B : <<m, n>> \notin R
  <2>1. B \subseteq Nat
    BY DEF B
  <2> QED BY <1>1, <2>1, WFMin
<1>4. n \in Nat /\ n \notin G /\ n - 1 \in Nat /\ n - 1 < n /\ (n - 1) + 1 = n
  BY DEF B
<1>5. <<n - 1, n>> \in R
  BY <1>2, <1>4
<1>6. n - 1 \in G
  BY <1>3, <1>4, <1>5 DEF B
<1> QED BY <1>4, <1>6

-----------------------------------------------------------------------------
\* g is the fold over the subsets of u: the element ch picks is folded last.
Recurs(g, u, base, ch, step) ==
  \A s \in SUBSET u : g[s] = IF s = {} THEN base ELSE step[s][g[s \ {ch[s]}]]

\* There is one such function at most.
LEMMA RecursOnce ==
  ASSUME NEW D, IsFiniteSet(D), NEW base,
         NEW ch, \A s \in SUBSET D : s # {} => ch[s] \in s,
         NEW step, NEW g, NEW h, Recurs(g, D, base, ch, step), Recurs(h, D, base, ch, step)
  PROVE  \A s \in SUBSET D : g[s] = h[s]
<1> DEFINE G == {s \in SUBSET D : g[s] = h[s]}
<1>1. ASSUME NEW s \in SUBSET D, \A t \in SUBSET s : t # s => t \in G
      PROVE  s \in G
  <2>1. CASE s = {}
    BY <2>1 DEF Recurs
  <2>2. CASE s # {}
    <3>1. s \ {ch[s]} \in G
      BY <1>1, <2>2
    <3>2. g[s] = step[s][g[s \ {ch[s]}]] /\ h[s] = step[s][h[s \ {ch[s]}]]
      BY <2>2 DEF Recurs
    <3> QED BY <3>1, <3>2
  <2> QED BY <2>1, <2>2
<1> HIDE DEF G
<1>2. SUBSET D \subseteq G
  BY <1>1, SubsetInduction
<1> QED BY <1>2 DEF G

\* There is one, with values in V if every step stays in V: the functions on
\* the proper subsets are put together.
LEMMA FoldDefined ==
  ASSUME NEW D, IsFiniteSet(D), NEW V, NEW base \in V,
         NEW ch, \A s \in SUBSET D : s # {} => ch[s] \in s,
         NEW step, \A s \in SUBSET D, v \in V : s # {} => step[s][v] \in V
  PROVE  \E g \in [SUBSET D -> V] : Recurs(g, D, base, ch, step)
<1> DEFINE Is(g, u) == g \in [SUBSET u -> V] /\ Recurs(g, u, base, ch, step)
           Has(u) == \E g : Is(g, u)
           Val(u) == (CHOOSE g : Is(g, u))[u]
           Next(t) == IF t = {} THEN base ELSE step[t][Val(t \ {ch[t]})]
           G == {u \in SUBSET D : Has(u)}
<1>1. ASSUME NEW u \in SUBSET D, NEW g, Is(g, u), NEW t \in SUBSET u
      PROVE  Has(t) /\ Val(t) = g[t]
  <2>1. Is([s \in SUBSET t |-> g[s]], t)
    BY <1>1 DEF Recurs
  <2>2. Is(CHOOSE h : Is(h, t), t)
    BY <2>1
  <2>3. IsFiniteSet(t) /\ \A s \in SUBSET t : s # {} => ch[s] \in s
    BY FS_Subset
  <2> DEFINE f == [s \in SUBSET t |-> g[s]]
             h == CHOOSE h : Is(h, t)
  <2>4. Recurs(f, t, base, ch, step) /\ Recurs(h, t, base, ch, step)
    BY <2>1, <2>2
  <2>5. f[t] = g[t]
    OBVIOUS
  <2> HIDE DEF f, h
  <2>6. f[t] = h[t]
    BY <2>3, <2>4, RecursOnce
  <2> QED BY <2>1, <2>5, <2>6 DEF h
<1>2. ASSUME NEW s \in SUBSET D, \A t \in SUBSET s : t # s => t \in G
      PROVE  s \in G
  <2>1. ASSUME NEW t \in SUBSET s, t # s PROVE Val(t) \in V /\ Val(t) = Next(t)
    <3>1. PICK g : Is(g, t)
      BY <1>2, <2>1
    <3>5. t \in SUBSET D
      OBVIOUS
    <3> HIDE DEF Is, Val, Has
    <3>2. Val(t) = g[t]
      BY <1>1, <3>1, <3>5
    <3>3. t # {} => Val(t \ {ch[t]}) = g[t \ {ch[t]}]
      BY <1>1, <3>1, <3>5
    <3>4. g[t] \in V /\ g[t] = IF t = {} THEN base ELSE step[t][g[t \ {ch[t]}]]
      BY <3>1 DEF Is, Recurs
    <3> QED BY <3>2, <3>3, <3>4
  <2> HIDE DEF Val
  <2>2. \A t \in SUBSET s : Next(t) \in V
    <3> SUFFICES ASSUME NEW t \in SUBSET s, t # {} PROVE Next(t) \in V
      OBVIOUS
    <3>1. t \ {ch[t]} # s /\ t \ {ch[t]} \in SUBSET s
      OBVIOUS
    <3> QED BY <2>1, <3>1
  <2> DEFINE g == [t \in SUBSET s |-> Next(t)]
  <2>3. g \in [SUBSET s -> V]
    BY <2>2
  <2>4. ASSUME NEW t \in SUBSET s PROVE g[t] = IF t = {} THEN base ELSE step[t][g[t \ {ch[t]}]]
    <3>1. t # {} => t \ {ch[t]} # s /\ t \ {ch[t]} \in SUBSET s
      OBVIOUS
    <3>2. t # {} => g[t \ {ch[t]}] = Val(t \ {ch[t]})
      BY <2>1, <3>1
    <3> QED BY <3>2
  <2> HIDE DEF g
  <2>5. Is(g, s)
    BY <2>3, <2>4 DEF Recurs
  <2> QED BY <2>5
<1> HIDE DEF G
<1>3. SUBSET D \subseteq G
  BY <1>2, SubsetInduction
<1> QED BY <1>3 DEF G

-----------------------------------------------------------------------------
\* The element that the folds of the library take.
Pick(s) == CHOOSE x \in s : TRUE

\* The recursion that defines a sum.
LEMMA SumEquation ==
  ASSUME NEW D, IsFiniteSet(D), NEW f, \A x \in D : f[x] \in Int
  PROVE  /\ SumFunctionOnSet(f, D) \in Int
         /\ SumFunctionOnSet(f, {}) = 0
         /\ D # {} => SumFunctionOnSet(f, D) = f[Pick(D)] + SumFunctionOnSet(f, D \ {Pick(D)})
<1> DEFINE ch == [s \in SUBSET D |-> Pick(s)]
           step == [s \in SUBSET D |-> [v \in Int |-> f[Pick(s)] + v]]
           Is(g, u) == g = [s \in SUBSET u |-> IF s = {} THEN 0 ELSE f[Pick(s)] + g[s \ {Pick(s)}]]
<1>1. \A s : s # {} => Pick(s) \in s
  BY DEF Pick
<1>2. PICK g \in [SUBSET D -> Int] : Recurs(g, D, 0, ch, step)
  <2>1. \A s \in SUBSET D : s # {} => ch[s] \in s
    BY <1>1
  <2>2. \A s \in SUBSET D, v \in Int : s # {} => step[s][v] \in Int
    BY <1>1
  <2>3. 0 \in Int
    OBVIOUS
  <2> HIDE DEF ch, step
  <2> QED BY ONLY IsFiniteSet(D), <2>1, <2>2, <2>3, FoldDefined
<1>3. \A s \in SUBSET D : g[s] = IF s = {} THEN 0 ELSE f[Pick(s)] + g[s \ {Pick(s)}]
  BY <1>2, <1>1 DEF Recurs
<1>4. ASSUME NEW u \in SUBSET D PROVE SumFunctionOnSet(f, u) = g[u]
  <2> DEFINE h == CHOOSE h : Is(h, u)
             G == {s \in SUBSET u : h[s] = g[s]}
  <2>1. SumFunctionOnSet(f, u) = h[u]
    BY DEF SumFunctionOnSet, FoldFunctionOnSet, MapThenFoldSet, Pick
  <2>2. Is([s \in SUBSET u |-> g[s]], u)
    BY <1>1, <1>3
  <2>3. Is(h, u)
    BY <2>2
  <2>4. \A s \in SUBSET u : h[s] = IF s = {} THEN 0 ELSE f[Pick(s)] + h[s \ {Pick(s)}]
    BY <2>3
  <2> HIDE DEF h
  <2>5. ASSUME NEW s \in SUBSET u, \A t \in SUBSET s : t # s => t \in G PROVE s \in G
    <3>1. CASE s = {}
      BY <3>1, <1>3, <2>4
    <3>2. CASE s # {}
      <4>1. s \ {Pick(s)} \in G
        BY <1>1, <2>5, <3>2
      <4> QED BY <4>1, <3>2, <1>3, <2>4
    <3> QED BY <3>1, <3>2
  <2>6. IsFiniteSet(u)
    BY FS_Subset
  <2> HIDE DEF G
  <2>7. SUBSET u \subseteq G
    BY <2>5, <2>6, SubsetInduction
  <2>8. u \in G
    BY <2>7
  <2> QED BY <2>1, <2>8 DEF G
<1> QED BY <1>1, <1>2, <1>3, <1>4

\* Nothing adds up to 0.
LEMMA SumEmpty == \A f : SumFunctionOnSet(f, {}) = 0
<1> SUFFICES ASSUME NEW f PROVE SumFunctionOnSet(f, {}) = 0
  OBVIOUS
<1>1. IsFiniteSet({}) /\ \A x \in {} : f[x] \in Int
  BY FS_EmptySet
<1> QED BY <1>1, SumEquation

\* The sum over any subset is a number.
LEMMA SumType ==
  ASSUME NEW D, IsFiniteSet(D), NEW f, \A x \in D : f[x] \in Int
  PROVE  \A s \in SUBSET D : IsFiniteSet(s) /\ SumFunctionOnSet(f, s) \in Int
<1> SUFFICES ASSUME NEW s \in SUBSET D
             PROVE  IsFiniteSet(s) /\ SumFunctionOnSet(f, s) \in Int
  OBVIOUS
<1>1. IsFiniteSet(s)
  BY FS_Subset
<1> QED BY <1>1, SumEquation

\* Any element may be taken out first, not only the one that is picked.
LEMMA SumTake ==
  ASSUME NEW D, IsFiniteSet(D), NEW f, \A x \in D : f[x] \in Int, NEW x \in D
  PROVE  SumFunctionOnSet(f, D) = f[x] + SumFunctionOnSet(f, D \ {x})
<1> DEFINE S(s) == SumFunctionOnSet(f, s)
           G == {s \in SUBSET D : \A y \in s : S(s) = f[y] + S(s \ {y})}
<1>1. \A s \in SUBSET D : IsFiniteSet(s) /\ S(s) \in Int
  BY SumType
<1>2. ASSUME NEW s \in SUBSET D, \A t \in SUBSET s : t # s => t \in G
      PROVE  s \in G
  <2> SUFFICES ASSUME NEW y \in s PROVE S(s) = f[y] + S(s \ {y})
    OBVIOUS
  <2> DEFINE p == Pick(s)
  <2>1. S(s) = f[p] + S(s \ {p}) /\ p \in s
    BY <1>1, SumEquation DEF Pick
  <2>2. CASE y = p
    BY <2>1, <2>2
  <2>3. CASE y # p
    <3>1. s \ {p} \in G /\ s \ {y} \in G
      BY <1>2, <2>1
    <3>2. S(s \ {p}) = f[y] + S((s \ {p}) \ {y})
      BY <3>1, <2>3
    <3>3. S(s \ {y}) = f[p] + S((s \ {y}) \ {p})
      BY <3>1, <2>1, <2>3
    <3>4. (s \ {p}) \ {y} = (s \ {y}) \ {p}
      OBVIOUS
    <3>5. S((s \ {p}) \ {y}) \in Int /\ f[p] \in Int /\ f[y] \in Int
      BY <1>1, <2>1
    <3> DEFINE a == S(s)  b == S(s \ {p})  c == S(s \ {y})  d == S((s \ {p}) \ {y})
    <3>6. a = f[p] + b /\ b = f[y] + d /\ c = f[p] + d
      BY <2>1, <3>2, <3>3, <3>4
    <3>7. d \in Int
      BY <3>5
    <3> HIDE DEF a, b, c, d, p
    <3>8. a = f[y] + c
      BY <3>5, <3>6, <3>7
    <3> QED BY <3>8 DEF a, c
  <2> QED BY <2>2, <2>3
<1> HIDE DEF G
<1>3. SUBSET D \subseteq G
  BY <1>2, SubsetInduction
<1> QED BY <1>3 DEF G

\* The sum of pointwise sums.
LEMMA SumOfSums ==
  ASSUME NEW D, IsFiniteSet(D), NEW f, NEW g, NEW h,
         \A x \in D : f[x] \in Int /\ g[x] \in Int /\ h[x] = f[x] + g[x]
  PROVE  SumFunctionOnSet(h, D) = SumFunctionOnSet(f, D) + SumFunctionOnSet(g, D)
<1> DEFINE G == {s \in SUBSET D : SumFunctionOnSet(h, s)
                                    = SumFunctionOnSet(f, s) + SumFunctionOnSet(g, s)}
<1>1. ASSUME NEW s \in SUBSET D, \A t \in SUBSET s : t # s => t \in G
      PROVE  s \in G
  <2>1. /\ IsFiniteSet(s)
        /\ \A x \in s : f[x] \in Int /\ g[x] \in Int /\ h[x] \in Int
    BY FS_Subset
  <2>2. CASE s = {}
    BY <2>2, SumEmpty
  <2>3. CASE s # {}
    <3> DEFINE p == Pick(s)
               r == s \ {p}
    <3>1. p \in s
      BY <2>3 DEF Pick
    <3>2. SumFunctionOnSet(h, r) = SumFunctionOnSet(f, r) + SumFunctionOnSet(g, r)
      BY <1>1, <3>1
    <3>3. SumFunctionOnSet(f, r) \in Int /\ SumFunctionOnSet(g, r) \in Int
      BY <2>1, SumType
    <3>4. SumFunctionOnSet(f, s) = f[p] + SumFunctionOnSet(f, r)
      BY <2>1, <3>1, SumTake
    <3>5. SumFunctionOnSet(g, s) = g[p] + SumFunctionOnSet(g, r)
      BY <2>1, <3>1, SumTake
    <3>6. SumFunctionOnSet(h, s) = h[p] + SumFunctionOnSet(h, r)
      BY <2>1, <3>1, SumTake
    <3>7. f[p] \in Int /\ g[p] \in Int /\ h[p] = f[p] + g[p]
      BY <3>1
    <3> HIDE DEF p, r
    <3> QED BY <3>2, <3>3, <3>4, <3>5, <3>6, <3>7
  <2> QED BY <2>2, <2>3
<1> HIDE DEF G
<1>2. SUBSET D \subseteq G
  BY <1>1, SubsetInduction
<1> QED BY <1>2 DEF G

\* Numbers that are not negative add up to one.
LEMMA SumNat ==
  ASSUME NEW D, IsFiniteSet(D), NEW f, \A x \in D : f[x] \in Nat
  PROVE  SumFunctionOnSet(f, D) \in Nat
<1> DEFINE S(s) == SumFunctionOnSet(f, s)
           G == {s \in SUBSET D : S(s) \in Nat}
<1>1. ASSUME NEW s \in SUBSET D, \A t \in SUBSET s : t # s => t \in G PROVE s \in G
  <2>0. IsFiniteSet(s) /\ \A x \in s : f[x] \in Int
    BY FS_Subset
  <2>1. CASE s = {}
    BY <2>1, SumEmpty
  <2>2. CASE s # {}
    <3>1. PICK y \in s : TRUE
      BY <2>2
    <3>2. S(s) = f[y] + S(s \ {y})
      BY ONLY <2>0, y \in s, SumTake
    <3>3. f[y] \in Nat /\ S(s \ {y}) \in Nat
      <4>1. s \ {y} \in G
        BY <1>1
      <4> QED BY <4>1
    <3> QED BY <3>2, <3>3
  <2> QED BY <2>1, <2>2
<1> HIDE DEF G
<1>2. SUBSET D \subseteq G
  BY <1>1, SubsetInduction
<1>3. D \in G
  BY <1>2
<1> QED BY <1>3 DEF G

\* Zeros add up to 0.
LEMMA SumZero ==
  ASSUME NEW D, IsFiniteSet(D), NEW f, \A x \in D : f[x] = 0
  PROVE  SumFunctionOnSet(f, D) = 0
<1> DEFINE total == SumFunctionOnSet(f, D)
<1>1. total = total + total
  <2>1. \A x \in D : f[x] \in Int /\ f[x] \in Int /\ f[x] = f[x] + f[x]
    OBVIOUS
  <2> QED BY ONLY IsFiniteSet(D), <2>1, SumOfSums
<1>2. total \in Int
  <2>1. \A x \in D : f[x] \in Int
    OBVIOUS
  <2> QED BY <2>1, SumType
<1> HIDE DEF total
<1>3. total = 0
  BY <1>1, <1>2
<1> QED BY <1>3 DEF total

\* A sum depends on the values at the elements only.
LEMMA SumSame ==
  ASSUME NEW D, IsFiniteSet(D), NEW f, NEW g, \A x \in D : f[x] \in Int /\ g[x] = f[x]
  PROVE  SumFunctionOnSet(g, D) = SumFunctionOnSet(f, D)
<1> DEFINE z == [x \in D |-> 0]
<1>1. SumFunctionOnSet(g, D) = SumFunctionOnSet(f, D) + SumFunctionOnSet(z, D)
  <2>1. \A x \in D : f[x] \in Int /\ z[x] \in Int /\ g[x] = f[x] + z[x]
    OBVIOUS
  <2> HIDE DEF z
  <2> QED BY <2>1, SumOfSums
<1>2. SumFunctionOnSet(z, D) = 0
  BY SumZero
<1>3. SumFunctionOnSet(f, D) \in Int
  BY SumEquation
<1> QED BY <1>1, <1>2, <1>3

\* When the value of one element changes, the sum changes by as much.
LEMMA SumChange ==
  ASSUME NEW D, IsFiniteSet(D), NEW f, NEW g, NEW x \in D, g[x] \in Int,
         \A y \in D : f[y] \in Int, \A y \in D \ {x} : g[y] = f[y]
  PROVE  SumFunctionOnSet(g, D) = SumFunctionOnSet(f, D) - f[x] + g[x]
<1>1. \A y \in D : g[y] \in Int
  OBVIOUS
<1>2. SumFunctionOnSet(f, D) = f[x] + SumFunctionOnSet(f, D \ {x})
  BY SumTake
<1>3. SumFunctionOnSet(g, D) = g[x] + SumFunctionOnSet(g, D \ {x})
  BY <1>1, SumTake
<1>4. /\ IsFiniteSet(D \ {x}) /\ SumFunctionOnSet(f, D \ {x}) \in Int
      /\ SumFunctionOnSet(f, D) \in Int
  BY SumType
<1>5. SumFunctionOnSet(g, D \ {x}) = SumFunctionOnSet(f, D \ {x})
  BY <1>4, SumSame
<1>6. f[x] \in Int
  OBVIOUS
<1> QED BY <1>2, <1>3, <1>4, <1>5, <1>6

\* An element more adds its value.
LEMMA SumGrows ==
  ASSUME NEW D, IsFiniteSet(D), NEW x, x \notin D, NEW f, NEW g, g[x] \in Int,
         \A y \in D : f[y] \in Int /\ g[y] = f[y]
  PROVE  SumFunctionOnSet(g, D \cup {x}) = SumFunctionOnSet(f, D) + g[x]
<1> DEFINE E == D \cup {x}
<1>1. IsFiniteSet(E) /\ x \in E /\ E \ {x} = D /\ \A y \in E : g[y] \in Int
  BY FS_AddElement
<1> HIDE DEF E
<1>2. SumFunctionOnSet(g, E) = g[x] + SumFunctionOnSet(g, E \ {x})
  BY <1>1, SumTake
<1>3. SumFunctionOnSet(g, D) = SumFunctionOnSet(f, D)
  BY SumSame
<1>4. SumFunctionOnSet(f, D) \in Int
  <2>1. \A y \in D : f[y] \in Int
    OBVIOUS
  <2> QED BY <2>1, SumType
<1> DEFINE sum == SumFunctionOnSet(g, E)
           part == SumFunctionOnSet(g, D)
           was == SumFunctionOnSet(f, D)
<1>5. sum = g[x] + part /\ part = was /\ was \in Int
  BY <1>1, <1>2, <1>3, <1>4
<1> HIDE DEF sum, part, was
<1>6. sum = was + g[x]
  BY <1>5
<1> QED BY <1>6 DEF E, sum, was


\* The sum over the first numbers takes in the next.
LEMMA SumSnoc ==
  ASSUME NEW n \in Nat, NEW f, \A m \in 1 .. n + 1 : f[m] \in Int
  PROVE  /\ SumFunctionOnSet(f, 1 .. n) \in Int
         /\ SumFunctionOnSet(f, 1 .. n + 1) = SumFunctionOnSet(f, 1 .. n) + f[n + 1]
<1> DEFINE D == 1 .. n + 1
           E == 1 .. n
           x == n + 1
<1>1. x \in D
  OBVIOUS
<1>2. D \ {x} = E
  OBVIOUS
<1>3. E \in SUBSET D
  OBVIOUS
<1>4. IsFiniteSet(D)
  <2>1. 1 \in Int /\ n + 1 \in Int
    OBVIOUS
  <2> QED BY <2>1, FS_Interval
<1>5. \A m \in D : f[m] \in Int
  OBVIOUS
<1> HIDE DEF D, E, x
<1>6. SumFunctionOnSet(f, D) = f[x] + SumFunctionOnSet(f, D \ {x})
  BY ONLY <1>1, <1>4, <1>5, SumTake
<1>7. SumFunctionOnSet(f, E) \in Int
  BY ONLY <1>3, <1>4, <1>5, SumType
<1>8. SumFunctionOnSet(f, D) = f[x] + SumFunctionOnSet(f, E)
  BY ONLY <1>2, <1>6
<1>9. SumFunctionOnSet(f, D) = SumFunctionOnSet(f, E) + f[x]
  <2> DEFINE s == SumFunctionOnSet(f, E)
             r == f[x]
  <2>1. s \in Int /\ r \in Int
    BY <1>1, <1>5, <1>7
  <2>2. SumFunctionOnSet(f, D) = r + s
    BY <1>8
  <2> HIDE DEF s, r
  <2>3. r + s = s + r
    BY <2>1
  <2> QED BY <2>2, <2>3 DEF s, r
<1> QED BY <1>7, <1>9 DEF D, E, x

\* A sum over a sequence is its first element and the sum over the rest.
LEMMA SumShift ==
  ASSUME NEW n \in Nat, NEW f, NEW g,
         \A m \in 1 .. n + 1 : f[m] \in Int, \A m \in 1 .. n : g[m] = f[m + 1]
  PROVE  SumFunctionOnSet(f, 1 .. n + 1) = f[1] + SumFunctionOnSet(g, 1 .. n)
<1> DEFINE S == [m \in Nat |-> SumFunctionOnSet(f, 1 .. m)]
           T == [m \in Nat |-> SumFunctionOnSet(g, 1 .. m)]
           G == {m \in Nat : m <= n => S[m + 1] = f[1] + T[m]}
<1>1. S[0] = 0 /\ T[0] = 0
  <2>1. 1 .. 0 = {}
    OBVIOUS
  <2> QED BY <2>1, SumEmpty
<1>2. ASSUME NEW m \in Nat, m <= n
      PROVE  S[m] \in Int /\ S[m + 1] = S[m] + f[m + 1]
  <2>1. \A k \in 1 .. m + 1 : f[k] \in Int
    BY <1>2
  <2>2. m + 1 \in Nat
    OBVIOUS
  <2> QED BY <2>1, <2>2, SumSnoc
<1>3. ASSUME NEW m \in Nat, m < n
      PROVE  T[m] \in Int /\ T[m + 1] = T[m] + g[m + 1]
  <2>1. \A k \in 1 .. m + 1 : g[k] \in Int
    BY <1>3
  <2>2. m + 1 \in Nat
    OBVIOUS
  <2> QED BY <2>1, <2>2, SumSnoc
<1> HIDE DEF S, T
<1>4. 0 \in G
  <2>1. S[0 + 1] = S[0] + f[0 + 1]
    BY <1>2
  <2>2. f[1] \in Int /\ 0 + 1 = 1
    OBVIOUS
  <2> QED BY <1>1, <2>1, <2>2
<1>5. ASSUME NEW m \in Nat, m \in G PROVE m + 1 \in G
  <2> SUFFICES ASSUME m + 1 <= n PROVE S[(m + 1) + 1] = f[1] + T[m + 1]
    OBVIOUS
  <2>1. S[m + 1] = f[1] + T[m]
    BY <1>5
  <2>2. S[(m + 1) + 1] = S[m + 1] + f[(m + 1) + 1]
    <3>1. m + 1 \in Nat
      OBVIOUS
    <3> QED BY <1>2, <3>1
  <2>3. T[m] \in Int /\ T[m + 1] = T[m] + g[m + 1]
    BY <1>3
  <2>4. g[m + 1] = f[(m + 1) + 1] /\ f[(m + 1) + 1] \in Int /\ f[1] \in Int
    OBVIOUS
  <2> QED BY <2>1, <2>2, <2>3, <2>4
<1> HIDE DEF G
<1>6. Nat \subseteq G
  BY <1>4, <1>5, NatSetInduction
<1>7. S[n + 1] = f[1] + T[n]
  BY <1>6 DEF G
<1> QED BY <1>7 DEF S, T


\* Elements for which the function is 0 may be left out.
LEMMA SumExtended ==
  ASSUME NEW E, IsFiniteSet(E), NEW D \in SUBSET E, NEW f, NEW g,
         \A x \in D : f[x] \in Int /\ g[x] = f[x], \A x \in E \ D : g[x] = 0
  PROVE  SumFunctionOnSet(g, E) = SumFunctionOnSet(f, D)
<1> DEFINE G == {s \in SUBSET (E \ D) : SumFunctionOnSet(g, D \cup s) = SumFunctionOnSet(g, D)}
<1>1. ASSUME NEW s \in SUBSET (E \ D), \A t \in SUBSET s : t # s => t \in G
      PROVE  s \in G
  <2>1. CASE s = {}
    <3>1. D \cup s = D
      BY <2>1
    <3> QED BY <3>1
  <2>2. CASE s # {}
    <3>1. PICK x \in s : TRUE
      BY <2>2
    <3> DEFINE u == D \cup s
               r == s \ {x}
    <3>2. x \in u /\ u \in SUBSET E /\ u \ {x} = D \cup r /\ g[x] = 0 /\ \A y \in u : g[y] \in Int
      BY <3>1
    <3>3. IsFiniteSet(u)
      BY <3>2, FS_Subset
    <3>4. SumFunctionOnSet(g, D \cup r) = SumFunctionOnSet(g, D)
      BY <1>1, <3>1
    <3> HIDE DEF u, r, G
    <3>5. SumFunctionOnSet(g, u) = g[x] + SumFunctionOnSet(g, u \ {x})
      BY <3>2, <3>3, SumTake
    <3>6. u \ {x} \in SUBSET u
      OBVIOUS
    <3>7. SumFunctionOnSet(g, u \ {x}) \in Int
      BY <3>2, <3>3, <3>6, SumType
    <3>8. SumFunctionOnSet(g, u \ {x}) = SumFunctionOnSet(g, D) /\ g[x] = 0
      BY <3>2, <3>4
    <3>9. SumFunctionOnSet(g, u) = SumFunctionOnSet(g, D)
      BY ONLY <3>5, <3>7, <3>8
    <3> QED BY <3>9 DEF u, G
  <2> QED BY <2>1, <2>2
<1>2. IsFiniteSet(E \ D) /\ IsFiniteSet(D)
  BY FS_Subset
<1> HIDE DEF G
<1>3. E \ D \in G
  <2> DEFINE F == E \ D
  <2>1. \A s \in SUBSET F : (\A t \in SUBSET s : t # s => t \in G) => s \in G
    BY <1>1
  <2>2. IsFiniteSet(F)
    BY <1>2
  <2> HIDE DEF F
  <2>3. SUBSET F \subseteq G
    BY ONLY <2>1, <2>2, SubsetInduction
  <2>4. F \in G
    BY <2>3
  <2> QED BY <2>4 DEF F
<1>4. SumFunctionOnSet(g, E) = SumFunctionOnSet(g, D)
  <2>1. D \cup (E \ D) = E
    OBVIOUS
  <2> QED BY <1>3, <2>1 DEF G
<1>5. SumFunctionOnSet(g, D) = SumFunctionOnSet(f, D)
  BY <1>2, SumSame
<1> QED BY <1>4, <1>5

\* Numbers that are not negative add up to 0 only if they all are 0.
LEMMA SumNothing ==
  ASSUME NEW D, IsFiniteSet(D), NEW f, \A x \in D : f[x] \in Nat, SumFunctionOnSet(f, D) = 0
  PROVE  \A x \in D : f[x] = 0
<1> SUFFICES ASSUME NEW x \in D PROVE f[x] = 0
  OBVIOUS
<1>1. SumFunctionOnSet(f, D) = f[x] + SumFunctionOnSet(f, D \ {x})
  BY SumTake
<1>2. IsFiniteSet(D \ {x}) /\ \A y \in D \ {x} : f[y] \in Nat
  BY FS_Subset
<1>3. SumFunctionOnSet(f, D \ {x}) \in Nat
  BY <1>2, SumNat
<1>4. f[x] \in Nat
  OBVIOUS
<1> QED BY <1>1, <1>3, <1>4
=============================================================================
