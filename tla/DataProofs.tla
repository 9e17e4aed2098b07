----------------------------- MODULE DataProofs -----------------------------
(***************************************************************************)
(* Facts about the library's operators that the models use: the sum of a   *)
(* function over a finite set, whatever the order SumFunctionOnSet takes   *)
(* its elements in, and the sequence that SetToSeq makes of a set.         *)
(*                                                                         *)
(* The installed provers cannot instantiate an induction theorem whose     *)
(* parameter is an operator.  Here induction over the subsets of a finite  *)
(* set has a set for a parameter, the set of those for which the claim     *)
(* holds (FiniteInduction): it follows from the fact that strict inclusion *)
(* is well founded on them.                                                *)
(***************************************************************************)
EXTENDS SequencesExt, FiniteSetTheorems, SequenceTheorems, TLAPS

\* A set that contains every subset of S whose strict subsets it contains has them all.
LEMMA FiniteInduction ==
    ASSUME NEW S, IsFiniteSet(S), NEW Q,
           \A T \in SUBSET S : (\A U \in SUBSET T : U # T => U \in Q) => T \in Q
    PROVE  \A T \in SUBSET S : T \in Q
<1> DEFINE R == StrictSubsetOrdering(S)
           X == {T \in SUBSET S : T \notin Q}
<1> SUFFICES ASSUME X # {} PROVE FALSE
  OBVIOUS
<1>1. IsWellFoundedOn(R, SUBSET S)
  <2>1. IsWellFoundedOn(StrictSubsetOrdering(S), FiniteSubsetsOf(S))
    BY FS_StrictSubsetOrderingWellFounded
  <2>2. FiniteSubsetsOf(S) = SUBSET S
    BY FS_FiniteSubsetsOfFinite
  <2> QED
    BY <2>1, <2>2
<1>2. PICK T \in X : \A U \in X : <<U, T>> \notin R
  <2> HIDE DEF R
  <2>1. X \subseteq SUBSET S
    OBVIOUS
  <2> HIDE DEF X
  <2> QED
    BY <1>1, <2>1, WFMin
<1>3. \A U \in SUBSET T : U # T => U \in Q
  BY <1>2 DEF StrictSubsetOrdering
<1> QED
  BY <1>2, <1>3

\* A set of natural numbers has a least one.
LEMMA LeastExists ==
    ASSUME NEW X \in SUBSET Nat, X # {}
    PROVE  \E n \in X : \A m \in X : n <= m
<1> DEFINE R == {p \in Nat \X Nat : p[1] < p[2]}
<1>1. IsWellFoundedOn(R, Nat)
  BY NatLessThanWellFounded DEF OpToRel
<1>2. PICK n \in X : \A m \in X : <<m, n>> \notin R
  <2> HIDE DEF R
  <2> QED
    BY <1>1, WFMin
<1>3. ASSUME NEW m \in X
      PROVE  n <= m
  <2>1. n \in Nat /\ m \in Nat
    OBVIOUS
  <2>2. <<m, n>> \notin R
    BY <1>2
  <2>3. ~(m < n)
    BY <2>1, <2>2
  <2> QED
    BY <2>1, <2>3
<1> QED
  BY <1>3

\* A set that has 0 and, with a number, the next one has every natural number.
LEMMA NatSetInduction ==
    ASSUME NEW Q, 0 \in Q, \A n \in Nat : n \in Q => n + 1 \in Q
    PROVE  \A n \in Nat : n \in Q
<1> DEFINE X == {n \in Nat : n \notin Q}
<1> SUFFICES ASSUME X # {} PROVE FALSE
  OBVIOUS
<1>1. X \in SUBSET Nat
  OBVIOUS
<1>2. PICK n \in X : \A m \in X : n <= m
  <2> HIDE DEF X
  <2> QED
    BY <1>1, LeastExists
<1>3. n # 0
  OBVIOUS
<1>4. n - 1 \in Nat /\ ~(n <= n - 1) /\ (n - 1) + 1 = n
  BY <1>3
<1>5. n - 1 \in Q
  BY <1>2, <1>4
<1> QED
  BY <1>4, <1>5

-----------------------------------------------------------------------------
(* The recursive function behind a sum.                                    *)

\* An element of a set.
Some(s) == CHOOSE x \in s : TRUE

\* F has the partial sums of f over the subsets of S.
IsSum(F, f, S) ==
    F = [s \in SUBSET S |-> IF s = {} THEN 0 ELSE f[Some(s)] + F[s \ {Some(s)}]]

\* The sum of f over S.
Sum(f, S) == (CHOOSE F : IsSum(F, f, S))[S]

\* An element is chosen from the set.
LEMMA SomeIsIn ==
    ASSUME NEW s, s # {}
    PROVE  Some(s) \in s
BY DEF Some

\* SumFunctionOnSet is the last of its partial sums.
LEMMA SumIs ==
    ASSUME NEW f, NEW S
    PROVE  SumFunctionOnSet(f, S) = Sum(f, S)
BY DEF SumFunctionOnSet, FoldFunctionOnSet, MapThenFoldSet, Sum, IsSum, Some

\* Partial sums do not depend on the set that they are parts of.
LEMMA SumUnique ==
    ASSUME NEW f, NEW S, NEW T, IsFiniteSet(T), T \subseteq S,
           NEW F, IsSum(F, f, S), NEW G, IsSum(G, f, T)
    PROVE  \A s \in SUBSET T : F[s] = G[s]
<1> DEFINE Q == {s \in SUBSET T : F[s] = G[s]}
<1> SUFFICES \A s \in SUBSET T : s \in Q
  OBVIOUS
<1>1. ASSUME NEW s \in SUBSET T, \A u \in SUBSET s : u # s => u \in Q
      PROVE  s \in Q
  <2>1. CASE s = {}
    BY <2>1 DEF IsSum
  <2>2. CASE s # {}
    <3>1. s \ {Some(s)} \in Q
      BY <2>2, <1>1, SomeIsIn
    <3>2. F[s] = f[Some(s)] + F[s \ {Some(s)}]
      BY <2>2 DEF IsSum
    <3>3. G[s] = f[Some(s)] + G[s \ {Some(s)}]
      BY <2>2 DEF IsSum
    <3> QED
      BY <3>1, <3>2, <3>3
  <2> QED
    BY <2>1, <2>2
<1> HIDE DEF Q
<1> QED
  BY <1>1, FiniteInduction

\* There are partial sums over every finite set.
LEMMA SumExists ==
    ASSUME NEW f, NEW S, IsFiniteSet(S)
    PROVE  \A T \in SUBSET S : IsSum(CHOOSE F : IsSum(F, f, T), f, T)
<1> DEFINE Q == {T \in SUBSET S : \E F : IsSum(F, f, T)}
<1> SUFFICES \A T \in SUBSET S : T \in Q
  OBVIOUS
<1>1. ASSUME NEW T \in SUBSET S, \A U \in SUBSET T : U # T => U \in Q
      PROVE  T \in Q
  <2> DEFINE P(U) == CHOOSE F : IsSum(F, f, U)
             G == [s \in SUBSET T |-> IF s = {} THEN 0 ELSE f[Some(s)] + Sum(f, s \ {Some(s)})]
  <2>1. \A U \in SUBSET T : U # T => IsSum(P(U), f, U)
    BY <1>1
  <2>2. ASSUME NEW t \in SUBSET T, t # T
        PROVE  G[t] = Sum(f, t)
    <3>1. Sum(f, t) = P(t)[t]
      BY DEF Sum
    <3>2. IsSum(P(t), f, t)
      BY <2>1, <2>2
    <3> HIDE DEF P
    <3>3. CASE t = {}
      BY <3>1, <3>2, <3>3 DEF IsSum
    <3>4. CASE t # {}
      <4> DEFINE u == t \ {Some(t)}
      <4>1. u \subseteq t /\ u # t /\ u # T /\ u \in SUBSET T
        BY <3>4, SomeIsIn
      <4>2. IsSum(P(u), f, u)
        BY <4>1, <2>1
      <4>3. IsFiniteSet(u)
        BY <4>1, FS_Subset
      <4>4. P(t)[u] = P(u)[u]
        BY <4>1, <4>2, <4>3, <3>2, SumUnique
      <4>5. P(t)[t] = f[Some(t)] + P(t)[u]
        BY <3>2, <3>4 DEF IsSum
      <4>6. P(u)[u] = Sum(f, u)
        BY DEF Sum, P
      <4>7. G[t] = f[Some(t)] + Sum(f, u)
        BY <3>4
      <4> QED
        BY <4>4, <4>5, <4>6, <4>7, <3>1
    <3> QED
      BY <3>3, <3>4
  <2>3. ASSUME NEW s \in SUBSET T, s # {}
        PROVE  G[s] = f[Some(s)] + G[s \ {Some(s)}]
    <3>1. s \ {Some(s)} \in SUBSET T /\ s \ {Some(s)} # T
      BY <2>3, SomeIsIn
    <3> QED
      BY <3>1, <2>2, <2>3
  <2>4. IsSum(G, f, T)
    BY <2>3 DEF IsSum
  <2> QED
    BY <2>4
<1> HIDE DEF Q
<1> QED
  BY <1>1, FiniteInduction

\* The sum over no element is 0.
LEMMA SumEmpty ==
    ASSUME NEW f
    PROVE  Sum(f, {}) = 0
<1>1. IsSum(CHOOSE F : IsSum(F, f, {}), f, {})
  BY SumExists, FS_EmptySet
<1> QED
  BY <1>1 DEF Sum, IsSum

\* A sum takes the element chosen and goes on with the others.
LEMMA SumChosen ==
    ASSUME NEW f, NEW S, IsFiniteSet(S), S # {}
    PROVE  Sum(f, S) = f[Some(S)] + Sum(f, S \ {Some(S)})
<1> DEFINE P(U) == CHOOSE F : IsSum(F, f, U)
           u == S \ {Some(S)}
<1>1. IsSum(P(S), f, S) /\ IsSum(P(u), f, u)
  BY SumExists
<1>2. IsFiniteSet(u)
  BY FS_Subset
<1> HIDE DEF P
<1>3. P(S)[u] = P(u)[u]
  <2>1. u \subseteq S
    OBVIOUS
  <2> HIDE DEF u
  <2> QED
    BY <1>1, <1>2, <2>1, SumUnique
<1>4. P(S)[S] = f[Some(S)] + P(S)[u]
  BY <1>1 DEF IsSum
<1>5. Sum(f, S) = P(S)[S] /\ Sum(f, u) = P(u)[u]
  BY DEF Sum, P
<1> QED
  BY <1>3, <1>4, <1>5

-----------------------------------------------------------------------------
(* Sums of natural numbers.                                                *)

\* They are natural numbers.
LEMMA SumNat ==
    ASSUME NEW S, IsFiniteSet(S), NEW f, \A x \in S : f[x] \in Nat
    PROVE  \A T \in SUBSET S : Sum(f, T) \in Nat
<1> DEFINE Q == {T \in SUBSET S : Sum(f, T) \in Nat}
<1> SUFFICES \A T \in SUBSET S : T \in Q
  OBVIOUS
<1>1. ASSUME NEW T \in SUBSET S, \A U \in SUBSET T : U # T => U \in Q
      PROVE  T \in Q
  <2>1. CASE T = {}
    BY <2>1, SumEmpty
  <2>2. CASE T # {}
    <3>1. IsFiniteSet(T)
      BY FS_Subset
    <3>2. Some(T) \in T
      BY <2>2, SomeIsIn
    <3>3. T \ {Some(T)} \in Q
      BY <3>2, <1>1
    <3>4. Sum(f, T) = f[Some(T)] + Sum(f, T \ {Some(T)})
      BY <2>2, <3>1, SumChosen
    <3> QED
      BY <3>2, <3>3, <3>4
  <2> QED
    BY <2>1, <2>2
<1> HIDE DEF Q
<1> QED
  BY <1>1, FiniteInduction

\* Any element may be taken first.
LEMMA SumElement ==
    ASSUME NEW S, IsFiniteSet(S), NEW f, \A x \in S : f[x] \in Nat
    PROVE  \A T \in SUBSET S : \A x \in T : Sum(f, T) = f[x] + Sum(f, T \ {x})
<1> DEFINE Q == {T \in SUBSET S : \A x \in T : Sum(f, T) = f[x] + Sum(f, T \ {x})}
<1> SUFFICES \A T \in SUBSET S : T \in Q
  OBVIOUS
<1>1. ASSUME NEW T \in SUBSET S, \A U \in SUBSET T : U # T => U \in Q,
             NEW x \in T
      PROVE  Sum(f, T) = f[x] + Sum(f, T \ {x})
  <2> DEFINE y == Some(T)
  <2>1. IsFiniteSet(T) /\ y \in T
    BY FS_Subset, SomeIsIn
  <2>2. Sum(f, T) = f[y] + Sum(f, T \ {y})
    BY <2>1, SumChosen
  <2>3. CASE x = y
    BY <2>2, <2>3
  <2>4. CASE x # y
    <3>1. T \ {y} \in Q /\ T \ {x} \in Q
      BY <1>1, <2>1
    <3>2. Sum(f, T \ {y}) = f[x] + Sum(f, (T \ {y}) \ {x})
      BY <3>1, <2>4
    <3>3. Sum(f, T \ {x}) = f[y] + Sum(f, (T \ {x}) \ {y})
      BY <3>1, <2>4, <2>1
    <3>4. (T \ {x}) \ {y} = (T \ {y}) \ {x}
      OBVIOUS
    <3>5. Sum(f, (T \ {y}) \ {x}) \in Nat
      BY SumNat
    <3>6. f[x] \in Nat /\ f[y] \in Nat
      BY <2>1
    <3> QED
      BY <2>2, <3>2, <3>3, <3>4, <3>5, <3>6
  <2> QED
    BY <2>3, <2>4
<1>2. ASSUME NEW T \in SUBSET S, \A U \in SUBSET T : U # T => U \in Q
      PROVE  T \in Q
  BY <1>1, <1>2
<1> HIDE DEF Q
<1> QED
  BY <1>2, FiniteInduction

\* One element more.
LEMMA SumAdd ==
    ASSUME NEW S, IsFiniteSet(S), NEW f, NEW z, z \notin S,
           \A x \in S \cup {z} : f[x] \in Nat
    PROVE  Sum(f, S \cup {z}) = f[z] + Sum(f, S)
<1>1. IsFiniteSet(S \cup {z})
  BY FS_AddElement
<1>2. Sum(f, S \cup {z}) = f[z] + Sum(f, (S \cup {z}) \ {z})
  BY <1>1, SumElement
<1>3. (S \cup {z}) \ {z} = S
  OBVIOUS
<1> QED
  BY <1>2, <1>3

\* A function that is h on R and nothing else more than f has that much more of a sum.
LEMMA SumPlus ==
    ASSUME NEW S, IsFiniteSet(S), NEW R \in SUBSET S, NEW f, NEW g, NEW h,
           \A x \in S : f[x] \in Nat /\ g[x] \in Nat,
           \A x \in R : h[x] \in Nat /\ g[x] = f[x] + h[x],
           \A x \in S \ R : g[x] = f[x]
    PROVE  Sum(g, S) = Sum(f, S) + Sum(h, R)
<1> DEFINE Q == {T \in SUBSET S : Sum(g, T) = Sum(f, T) + Sum(h, T \cap R)}
<1>1. ASSUME NEW T \in SUBSET S, \A U \in SUBSET T : U # T => U \in Q
      PROVE  T \in Q
  <2>1. CASE T = {}
    <3>1. {} \cap R = {}
      OBVIOUS
    <3> QED
      BY <2>1, <3>1, SumEmpty
  <2>2. CASE T # {}
    <3> DEFINE x == Some(T)
               U == T \ {x}
    <3>1. x \in T /\ IsFiniteSet(T)
      BY <2>2, SomeIsIn, FS_Subset
    <3>2. Sum(g, T) = g[x] + Sum(g, U) /\ Sum(f, T) = f[x] + Sum(f, U)
      <4>1. \A y \in S : f[y] \in Nat
        OBVIOUS
      <4>2. \A y \in S : g[y] \in Nat
        OBVIOUS
      <4> HIDE DEF x
      <4>3. Sum(f, T) = f[x] + Sum(f, U)
        BY <3>1, <4>1, SumElement
      <4>4. Sum(g, T) = g[x] + Sum(g, U)
        BY <3>1, <4>2, SumElement
      <4> QED
        BY <4>3, <4>4
    <3>3. Sum(g, U) = Sum(f, U) + Sum(h, U \cap R)
      BY <3>1, <1>1
    <3>4. IsFiniteSet(S \cap R)
      BY FS_Subset
    <3>5. Sum(g, U) \in Nat /\ Sum(f, U) \in Nat /\ Sum(h, U \cap R) \in Nat
      <4>1. U \in SUBSET S /\ U \cap R \in SUBSET (S \cap R)
        OBVIOUS
      <4> QED
        BY <4>1, <3>4, SumNat
    <3>6. CASE x \in R
      <4>1. x \in T \cap R /\ T \cap R \in SUBSET (S \cap R) /\ (T \cap R) \ {x} = U \cap R
        BY <3>1, <3>6
      <4>2. Sum(h, T \cap R) = h[x] + Sum(h, U \cap R)
        BY <4>1, <3>4, SumElement
      <4>3. g[x] = f[x] + h[x] /\ h[x] \in Nat /\ f[x] \in Nat
        BY <3>1, <3>6
      <4>4. Sum(g, T) = Sum(f, T) + Sum(h, T \cap R)
        BY <4>2, <4>3, <3>2, <3>3, <3>5
      <4> QED
        BY <4>4
    <3>7. CASE x \notin R
      <4>1. T \cap R = U \cap R /\ g[x] = f[x] /\ f[x] \in Nat
        BY <3>1, <3>7
      <4>2. Sum(g, T) = Sum(f, T) + Sum(h, T \cap R)
        <5>1. Sum(h, T \cap R) = Sum(h, U \cap R)
          BY <4>1
        <5> HIDE DEF x, U
        <5> QED
          BY <4>1, <5>1, <3>2, <3>3, <3>5
      <4> QED
        BY <4>2
    <3> QED
      BY <3>6, <3>7
  <2> QED
    BY <2>1, <2>2
<1>2. S \in Q
  <2> HIDE DEF Q
  <2> QED
    BY <1>1, FiniteInduction
<1>3. S \cap R = R
  OBVIOUS
<1> QED
  BY <1>2, <1>3

\* A function that is nowhere larger has no larger a sum.
LEMMA SumLeq ==
    ASSUME NEW S, IsFiniteSet(S), NEW f, NEW g,
           \A x \in S : f[x] \in Nat /\ g[x] \in Nat /\ f[x] <= g[x]
    PROVE  Sum(f, S) <= Sum(g, S)
<1> DEFINE h == [x \in S |-> g[x] - f[x]]
<1>1. \A x \in S : h[x] \in Nat /\ g[x] = f[x] + h[x]
  OBVIOUS
<1> HIDE DEF h
<1>2. \A x \in S \ S : g[x] = f[x]
  OBVIOUS
<1>3. Sum(g, S) = Sum(f, S) + Sum(h, S)
  <2>1. \A x \in S : f[x] \in Nat /\ g[x] \in Nat
    OBVIOUS
  <2>2. S \in SUBSET S
    OBVIOUS
  <2> QED
    BY ONLY IsFiniteSet(S), <1>1, <1>2, <2>1, <2>2, SumPlus
<1>4. Sum(g, S) \in Nat /\ Sum(f, S) \in Nat /\ Sum(h, S) \in Nat
  BY <1>1, SumNat
<1> QED
  BY <1>3, <1>4

\* Functions that agree have the same sum.
LEMMA SumSame ==
    ASSUME NEW S, IsFiniteSet(S), NEW f, NEW g,
           \A x \in S : f[x] \in Nat /\ g[x] = f[x]
    PROVE  Sum(g, S) = Sum(f, S)
<1>1. Sum(g, S) <= Sum(f, S) /\ Sum(f, S) <= Sum(g, S)
  BY SumLeq
<1>2. Sum(f, S) \in Nat /\ Sum(g, S) \in Nat
  BY SumNat
<1> QED
  BY <1>1, <1>2

\* What is not 0 in one sum and has at least its share in another is no more in all.
LEMMA SumCovered ==
    ASSUME NEW X, IsFiniteSet(X), NEW Y, IsFiniteSet(Y), NEW f, NEW g,
           \A x \in X : g[x] \in Nat, \A y \in Y : f[y] \in Nat,
           \A y \in Y : f[y] = 0 \/ (y \in X /\ f[y] <= g[y])
    PROVE  Sum(f, Y) <= Sum(g, X)
<1> DEFINE Fits(T, Z) == \A y \in T : f[y] = 0 \/ y \in Z
           Q == {T \in SUBSET Y : \A Z \in SUBSET X : Fits(T, Z) => Sum(f, T) <= Sum(g, Z)}
<1>0. /\ \A T \in SUBSET Y : Sum(f, T) \in Nat
      /\ \A Z \in SUBSET X : Sum(g, Z) \in Nat
  BY SumNat
<1>1. ASSUME NEW T \in SUBSET Y, \A U \in SUBSET T : U # T => U \in Q
      PROVE  T \in Q
  <2> SUFFICES ASSUME NEW Z \in SUBSET X, Fits(T, Z)
               PROVE  Sum(f, T) <= Sum(g, Z)
    OBVIOUS
  <2>1. CASE T = {}
    BY <2>1, <1>0, SumEmpty
  <2>2. CASE T # {}
    <3>1. PICK y \in T : TRUE
      BY <2>2
    <3>2. Sum(f, T) = f[y] + Sum(f, T \ {y}) /\ f[y] \in Nat
      BY SumElement
    <3>3. T \ {y} \in Q /\ T \ {y} \in SUBSET Y
      BY <1>1
    <3>4. CASE f[y] = 0
      <4>1. Fits(T \ {y}, Z)
        OBVIOUS
      <4>2. Sum(f, T \ {y}) <= Sum(g, Z)
        BY <4>1, <3>3
      <4> QED
        BY <4>2, <3>2, <3>3, <3>4, <1>0
    <3>5. CASE f[y] # 0
      <4>1. y \in Z /\ y \in X /\ f[y] <= g[y]
        BY <3>5
      <4>2. Sum(g, Z) = g[y] + Sum(g, Z \ {y}) /\ g[y] \in Nat
        BY <4>1, SumElement
      <4>3. Fits(T \ {y}, Z \ {y}) /\ Z \ {y} \in SUBSET X
        OBVIOUS
      <4>4. Sum(f, T \ {y}) <= Sum(g, Z \ {y})
        BY <4>3, <3>3
      <4>5. Sum(f, T \ {y}) \in Nat /\ Sum(g, Z \ {y}) \in Nat
        BY <4>3, <3>3, <1>0
      <4> QED
        BY <4>1, <4>2, <4>4, <4>5, <3>2
    <3> QED
      BY <3>4, <3>5
  <2> QED
    BY <2>1, <2>2
<1>2. Y \in Q
  <2> HIDE DEF Q
  <2> QED
    BY <1>1, FiniteInduction
<1>3. Fits(Y, X)
  OBVIOUS
<1> QED
  BY <1>2, <1>3

\* Nothing but zeros.
LEMMA SumZero ==
    ASSUME NEW Y, IsFiniteSet(Y), NEW f, \A y \in Y : f[y] = 0
    PROVE  Sum(f, Y) = 0
<1>1. Sum(f, Y) <= Sum(f, {})
  BY SumCovered, FS_EmptySet
<1>2. Sum(f, {}) = 0 /\ Sum(f, Y) \in Nat
  BY SumEmpty, SumNat
<1> QED
  BY <1>1, <1>2

\* A value that is at most one larger makes a sum at most one larger.
LEMMA SumOneMore ==
    ASSUME NEW X, IsFiniteSet(X), NEW f, NEW g, NEW z,
           \A x \in X : f[x] \in Nat /\ g[x] \in Nat,
           \A x \in X : g[x] <= f[x] \/ (x = z /\ g[x] <= f[x] + 1)
    PROVE  Sum(g, X) <= Sum(f, X) + 1
<1>0. Sum(f, X) \in Nat /\ Sum(g, X) \in Nat
  BY SumNat
<1>1. CASE z \notin X
  <2>1. Sum(g, X) <= Sum(f, X)
    BY <1>1, SumLeq
  <2> QED
    BY <2>1, <1>0
<1>2. CASE z \in X
  <2>1. /\ Sum(f, X) = f[z] + Sum(f, X \ {z})
        /\ Sum(g, X) = g[z] + Sum(g, X \ {z})
    BY <1>2, SumElement
  <2>2. IsFiniteSet(X \ {z})
    BY FS_Subset
  <2>3. Sum(g, X \ {z}) <= Sum(f, X \ {z})
    BY <2>2, SumLeq
  <2>4. Sum(g, X \ {z}) \in Nat /\ Sum(f, X \ {z}) \in Nat
    BY <2>2, SumNat
  <2> QED
    BY <2>1, <2>3, <2>4, <1>2
<1> QED
  BY <1>1, <1>2

\* A value that is one larger makes a sum one larger.
LEMMA SumAnother ==
    ASSUME NEW X, IsFiniteSet(X), NEW f, NEW g, NEW z \in X,
           \A x \in X : f[x] \in Nat /\ g[x] = IF x = z THEN f[x] + 1 ELSE f[x]
    PROVE  Sum(g, X) = Sum(f, X) + 1
<1>1. \A x \in X : g[x] \in Nat /\ f[x] \in Nat
  OBVIOUS
<1>2. /\ Sum(f, X) = f[z] + Sum(f, X \ {z})
      /\ Sum(g, X) = g[z] + Sum(g, X \ {z})
  BY <1>1, SumElement
<1>3. IsFiniteSet(X \ {z})
  BY FS_Subset
<1>4. Sum(g, X \ {z}) = Sum(f, X \ {z})
  BY <1>3, SumSame
<1>5. Sum(f, X \ {z}) \in Nat
  BY <1>1, <1>3, SumNat
<1> QED
  BY <1>2, <1>4, <1>5

\* Two sets that share nothing.
LEMMA SumJoin ==
    ASSUME NEW A, IsFiniteSet(A), NEW B, IsFiniteSet(B), A \cap B = {}, NEW f,
           \A x \in A \cup B : f[x] \in Nat
    PROVE  Sum(f, A \cup B) = Sum(f, A) + Sum(f, B)
<1> DEFINE Q == {T \in SUBSET A : Sum(f, T \cup B) = Sum(f, T) + Sum(f, B)}
<1>0. IsFiniteSet(A \cup B)
  BY FS_Union
<1>1. ASSUME NEW T \in SUBSET A, \A U \in SUBSET T : U # T => U \in Q
      PROVE  T \in Q
  <2>0. /\ \A U \in SUBSET A : Sum(f, U) \in Nat
        /\ Sum(f, B) \in Nat
    BY SumNat
  <2>1. CASE T = {}
    <3>1. {} \cup B = B
      OBVIOUS
    <3> QED
      BY <2>0, <2>1, <3>1, SumEmpty
  <2>2. CASE T # {}
    <3>1. PICK x \in T : TRUE
      BY <2>2
    <3>2. Sum(f, T) = f[x] + Sum(f, T \ {x}) /\ f[x] \in Nat
      BY SumElement
    <3>3. T \cup B \in SUBSET (A \cup B) /\ x \in T \cup B /\ (T \cup B) \ {x} = (T \ {x}) \cup B
      OBVIOUS
    <3>4. Sum(f, T \cup B) = f[x] + Sum(f, (T \ {x}) \cup B)
      BY <1>0, <3>3, SumElement
    <3>5. Sum(f, (T \ {x}) \cup B) = Sum(f, T \ {x}) + Sum(f, B)
      BY <1>1
    <3>6. Sum(f, T \ {x}) \in Nat
      BY <2>0
    <3>7. Sum(f, T \cup B) = Sum(f, T) + Sum(f, B)
      BY <2>0, <3>2, <3>4, <3>5, <3>6
    <3> QED
      BY <3>7
  <2> QED
    BY <2>1, <2>2
<1>2. A \in Q
  <2> HIDE DEF Q
  <2> QED
    BY <1>1, FiniteInduction
<1> QED
  BY <1>2

\* A set summed part by part.
LEMMA SumParts ==
    ASSUME NEW S, IsFiniteSet(S), NEW N, IsFiniteSet(N), NEW f, NEW own,
           \A x \in S : f[x] \in Nat /\ own[x] \in N
    PROVE  Sum([n \in N |-> Sum(f, {x \in S : own[x] = n})], N) = Sum(f, S)
<1> DEFINE Of(n) == {x \in S : own[x] = n}
           In(T) == {x \in S : own[x] \in T}
           p == [n \in N |-> Sum(f, Of(n))]
           Q == {T \in SUBSET N : Sum(p, T) = Sum(f, In(T))}
<1>0. \A U \in SUBSET S : Sum(f, U) \in Nat /\ IsFiniteSet(U)
  BY SumNat, FS_Subset
<1>1. \A n \in N : p[n] \in Nat /\ p[n] = Sum(f, Of(n))
  BY <1>0
<1> HIDE DEF p
<1>2. ASSUME NEW T \in SUBSET N, \A U \in SUBSET T : U # T => U \in Q
      PROVE  T \in Q
  <2>1. CASE T = {}
    <3>1. In({}) = {}
      OBVIOUS
    <3> QED
      BY <2>1, <3>1, SumEmpty
  <2>2. CASE T # {}
    <3>1. PICK n \in T : TRUE
      BY <2>2
    <3>2. Sum(p, T) = p[n] + Sum(p, T \ {n})
      <4>1. \A m \in N : p[m] \in Nat
        BY <1>1
      <4> QED
        BY <4>1, SumElement
    <3>3. Sum(p, T \ {n}) = Sum(f, In(T \ {n}))
      BY <1>2
    <3>4. /\ Of(n) \cup In(T \ {n}) = In(T) /\ Of(n) \cap In(T \ {n}) = {}
          /\ Of(n) \in SUBSET S /\ In(T \ {n}) \in SUBSET S
      OBVIOUS
    <3>5. IsFiniteSet(Of(n)) /\ IsFiniteSet(In(T \ {n}))
      BY <3>4, <1>0
    <3>6. Sum(f, In(T)) = Sum(f, Of(n)) + Sum(f, In(T \ {n}))
      <4> DEFINE A == Of(n)
                 B == In(T \ {n})
      <4>1. \A x \in A \cup B : f[x] \in Nat
        OBVIOUS
      <4>2. A \cap B = {} /\ IsFiniteSet(A) /\ IsFiniteSet(B) /\ A \cup B = In(T)
        BY <3>4, <3>5
      <4> HIDE DEF A, B
      <4>3. Sum(f, A \cup B) = Sum(f, A) + Sum(f, B)
        BY <4>1, <4>2, SumJoin
      <4> QED
        BY <4>2, <4>3 DEF A, B
    <3>7. p[n] = Sum(f, Of(n))
      BY <1>1
    <3>8. Sum(p, T) = Sum(f, In(T))
      BY <3>2, <3>3, <3>6, <3>7
    <3> QED
      BY <3>8
  <2> QED
    BY <2>1, <2>2
<1>3. N \in Q
  <2> HIDE DEF Q
  <2> QED
    BY <1>2, FiniteInduction
<1>4. In(N) = S
  OBVIOUS
<1>5. Sum(p, N) = Sum(f, S)
  BY <1>3, <1>4
<1> QED
  BY <1>5 DEF p

-----------------------------------------------------------------------------
(* Sets as sequences.                                                      *)

\* The elements of a finite set as a sequence: all of them and nothing else.
LEMMA SetToSeqRange ==
    ASSUME NEW S, IsFiniteSet(S)
    PROVE  /\ SetToSeq(S) \in Seq(S)
           /\ \A x \in S : \E i \in DOMAIN SetToSeq(S) : SetToSeq(S)[i] = x
<1> DEFINE n == Cardinality(S)
           q == SetToSeq(S)
<1>1. n \in Nat /\ ExistsBijection(1..n, S)
  BY FS_CardinalityType
<1>2. PICK f \in Bijection(1..n, S) : TRUE
  BY <1>1 DEF ExistsBijection
<1>3. f \in [1..n -> S] /\ IsInjective(f)
  BY <1>2 DEF Bijection, Injection, IsInjective
<1>4. q \in [1..n -> S] /\ IsInjective(q)
  BY <1>3 DEF SetToSeq
<1>5. q \in Injection(1..n, S)
  BY <1>4 DEF Injection, IsInjective
<1> HIDE DEF q
<1>6. Cardinality(1..n) = n
  BY <1>1, FS_Interval
<1>7. q \in Surjection(1..n, S)
  BY <1>5, <1>6, FS_Injection
<1> QED
  BY <1>1, <1>4, <1>7 DEF Surjection, q

\* Sequences of one kind of element are joined to one of that kind.
LEMMA FlattenSeqType ==
    ASSUME NEW X, NEW q \in Seq(Seq(X))
    PROVE  FlattenSeq(q) \in Seq(X)
<1> DEFINE Flat(f, n) == f = [i \in 1..n |-> IF i = 1 THEN q[i] ELSE f[i - 1] \o q[i]]
           Q == {n \in Nat : \E f : Flat(f, n)}
           n == Len(q)
<1>1. CASE n = 0
  <2>1. q = <<>>
    BY <1>1
  <2> QED
    BY <2>1 DEF FlattenSeq
<1>2. CASE n # 0
  <2>1. 0 \in Q
    <3> DEFINE f == [i \in 1..0 |-> <<>>]
    <3>1. 1..0 = {}
      OBVIOUS
    <3>2. Flat(f, 0)
      BY <3>1
    <3> QED
      BY <3>2
  <2>2. ASSUME NEW m \in Nat, m \in Q
        PROVE  m + 1 \in Q
    <3>1. PICK f : Flat(f, m)
      BY <2>2
    <3> DEFINE g == [i \in 1..(m + 1) |-> IF i = 1 THEN q[i] ELSE f[i - 1] \o q[i]]
    <3>2. ASSUME NEW i \in 1..m
          PROVE  g[i] = f[i]
      <4>1. f[i] = IF i = 1 THEN q[i] ELSE f[i - 1] \o q[i]
        BY <3>1
      <4>2. i \in 1..(m + 1)
        OBVIOUS
      <4>3. g[i] = IF i = 1 THEN q[i] ELSE f[i - 1] \o q[i]
        BY <4>2
      <4> HIDE DEF g, Flat
      <4> QED
        BY <4>1, <4>3
    <3>3. ASSUME NEW i \in 1..(m + 1)
          PROVE  g[i] = IF i = 1 THEN q[i] ELSE g[i - 1] \o q[i]
      <4>1. g[i] = IF i = 1 THEN q[i] ELSE f[i - 1] \o q[i]
        OBVIOUS
      <4>2. i # 1 => i - 1 \in 1..m
        OBVIOUS
      <4>3. i # 1 => g[i - 1] = f[i - 1]
        BY <4>2, <3>2
      <4> HIDE DEF g, Flat
      <4> QED
        BY <4>1, <4>3
    <3>4. g = [i \in 1..(m + 1) |-> IF i = 1 THEN q[i] ELSE g[i - 1] \o q[i]]
      BY <3>3
    <3>5. Flat(g, m + 1)
      <4> HIDE DEF g
      <4> QED
        BY <3>4
    <3> HIDE DEF g, Flat
    <3> QED
      BY <3>5
  <2>3. n \in Q
    <3>1. n \in Nat
      OBVIOUS
    <3> HIDE DEF Q, n
    <3> QED
      BY <3>1, <2>1, <2>2, NatSetInduction
  <2> DEFINE h == CHOOSE f : Flat(f, n)
  <2>4. Flat(h, n)
    BY <2>3
  <2>5. FlattenSeq(q) = h[n]
    BY <1>2 DEF FlattenSeq
  <2> HIDE DEF h
  <2> DEFINE P == {i \in Nat : i \in 1..n => h[i] \in Seq(X)}
  <2>6. ASSUME NEW i \in Nat, i \in P
        PROVE  i + 1 \in P
    <3> SUFFICES ASSUME i + 1 \in 1..n PROVE h[i + 1] \in Seq(X)
      OBVIOUS
    <3>1. q[i + 1] \in Seq(X)
      OBVIOUS
    <3>2. h[i + 1] = IF i + 1 = 1 THEN q[i + 1] ELSE h[(i + 1) - 1] \o q[i + 1]
      BY <2>4
    <3>3. CASE i = 0
      BY <3>1, <3>2, <3>3
    <3>4. CASE i # 0
      <4>1. h[i] \in Seq(X) /\ (i + 1) - 1 = i /\ i + 1 # 1
        BY <2>6, <3>4
      <4> HIDE DEF Flat
      <4> QED
        BY <3>1, <3>2, <4>1
    <3> QED
      BY <3>3, <3>4
  <2>7. \A i \in Nat : i \in P
    <3>1. 0 \in P
      OBVIOUS
    <3> HIDE DEF P
    <3> QED
      BY <3>1, <2>6, NatSetInduction
  <2>8. n \in Nat /\ n \in 1..n
    BY <1>2
  <2> QED
    BY <2>5, <2>7, <2>8
<1> QED
  BY <1>1, <1>2

\* An image of a finite set is finite.
LEMMA ImageFinite ==
    ASSUME NEW S, IsFiniteSet(S), NEW f
    PROVE  IsFiniteSet({f[x] : x \in S})
<1> DEFINE T == {f[x] : x \in S}
           g == [x \in S |-> f[x]]
<1>1. g \in Surjection(S, T)
  BY DEF Surjection
<1> HIDE DEF T, g
<1>2. IsFiniteSet(T)
  BY <1>1, FS_Surjection
<1> QED
  BY <1>2 DEF T

\* A finite set of integers has a largest member.
LEMMA LargestExists ==
    ASSUME NEW S, IsFiniteSet(S), S \subseteq Int, S # {}
    PROVE  \E m \in S : \A x \in S : x <= m
<1> DEFINE Q == {T \in SUBSET S : T = {} \/ \E m \in T : \A x \in T : x <= m}
<1>1. ASSUME NEW T \in SUBSET S, \A U \in SUBSET T : U # T => U \in Q
      PROVE  T \in Q
  <2>1. CASE T = {}
    BY <2>1
  <2>2. CASE T # {}
    <3>1. PICK y \in T : TRUE
      BY <2>2
    <3>2. T \ {y} \in Q
      BY <1>1, <3>1
    <3>3. CASE T \ {y} = {}
      BY <3>1, <3>3
    <3>4. CASE T \ {y} # {}
      <4>1. PICK m \in T \ {y} : \A x \in T \ {y} : x <= m
        BY <3>2, <3>4
      <4>2. m \in Int /\ y \in Int /\ T \subseteq Int
        BY <3>1
      <4>3. CASE y <= m
        BY <4>1, <4>2, <4>3
      <4>4. CASE m < y
        BY <4>1, <4>2, <4>4
      <4> QED
        BY <4>2, <4>3, <4>4
    <3> QED
      BY <3>3, <3>4
  <2> QED
    BY <2>1, <2>2
<1>2. S \in Q
  <2> HIDE DEF Q
  <2> QED
    BY <1>1, FiniteInduction
<1> QED
  BY <1>2
=============================================================================
