--------------------------- MODULE InductionLemmas ---------------------------
(***************************************************************************)
(* Induction over the natural numbers, and what sums over finite sets      *)
(* (MapThenSumSet, FoldLeft) are for every set.  The theorems of the       *)
(* library take the induction formula as an operator, which the provers    *)
(* cannot instantiate; here it is the set of the numbers it holds of.      *)
(***************************************************************************)
EXTENDS Integers, SequencesExt, FiniteSetTheorems, SequenceTheorems, TLAPS

LEMMA Induction ==
    ASSUME NEW S, 0 \in S, \A n \in Nat : n \in S => n + 1 \in S
    PROVE  Nat \subseteq S
<1> DEFINE R == OpToRel(<, Nat)
           T == Nat \ S
<1>1. SUFFICES ASSUME T # {} PROVE FALSE
  OBVIOUS
<1>2. IsWellFoundedOn(R, Nat)
  BY NatLessThanWellFounded
<1>3. PICK n \in T : \A y \in T : ~ (<<y, n>> \in R)
  <2> HIDE DEF R
  <2>1. T \subseteq Nat
    OBVIOUS
  <2> HIDE DEF T
  <2> QED BY <1>1, <1>2, <2>1, WFMin
<1>4. n \in Nat /\ n # 0 /\ n - 1 \in Nat
  OBVIOUS
<1>5. n - 1 \notin S
  <2>1. (n - 1) + 1 = n
    BY <1>4
  <2> QED BY <1>4, <2>1
<1>6. <<n - 1, n>> \in {ss \in Nat \X Nat : ss[1] < ss[2]}
  BY <1>4
<1> QED BY <1>3, <1>4, <1>5, <1>6 DEF OpToRel

(* What holds of the empty set, and of every other whenever it holds of it *)
(* without some element, holds of all finite sets.                         *)
LEMMA SetInduction ==
    ASSUME NEW D, IsFiniteSet(D), NEW P, {} \in P,
           \A S \in SUBSET D : S # {} /\ (\A x \in S : S \ {x} \in P) => S \in P
    PROVE  SUBSET D \subseteq P
<1> DEFINE N == {n \in Nat : \A S \in SUBSET D : Cardinality(S) = n => S \in P}
<1>1. \A S \in SUBSET D : IsFiniteSet(S) /\ Cardinality(S) \in Nat
  BY FS_Subset, FS_CardinalityType
<1>2. 0 \in N
  BY <1>1, FS_EmptySet
<1>3. ASSUME NEW n \in Nat, n \in N PROVE n + 1 \in N
  <2> SUFFICES ASSUME NEW S \in SUBSET D, Cardinality(S) = n + 1 PROVE S \in P
    OBVIOUS
  <2>1. S # {}
    BY <1>3, FS_EmptySet
  <2>2. ASSUME NEW x \in S PROVE S \ {x} \in P
    <3>1. Cardinality(S \ {x}) = n /\ S \ {x} \in SUBSET D
      BY <1>1, FS_RemoveElement
    <3> QED BY <1>3, <3>1
  <2> QED BY <2>1, <2>2
<1>4. Nat \subseteq N
  <2> HIDE DEF N
  <2> QED BY <1>2, <1>3, Induction
<1> QED BY <1>1, <1>4

-----------------------------------------------------------------------------
(* Sums.                                                                   *)

\* g adds up w over the subsets of D, one element after the other.
AddsUp(g, w, D) ==
    /\ g[{}] = 0
    /\ \A S \in SUBSET D : S # {} => \E x \in S : g[S] = w[x] + g[S \ {x}]

(* A sum is a number, and the order does not matter.                       *)
LEMMA SumIsNat ==
    ASSUME NEW D, IsFiniteSet(D), NEW w \in [D -> Nat], NEW g, AddsUp(g, w, D)
    PROVE  \A S \in SUBSET D : g[S] \in Nat
<1> DEFINE P == {S \in SUBSET D : g[S] \in Nat}
<1>1. {} \in P
  BY DEF AddsUp
<1>2. ASSUME NEW S \in SUBSET D, S # {}, \A x \in S : S \ {x} \in P
      PROVE  S \in P
  <2>1. PICK y \in S : g[S] = w[y] + g[S \ {y}]
    BY <1>2 DEF AddsUp
  <2>2. w[y] \in Nat /\ g[S \ {y}] \in Nat
    BY <1>2
  <2> QED BY <2>1, <2>2
<1>3. SUBSET D \subseteq P
  <2> HIDE DEF P
  <2> QED BY <1>1, <1>2, SetInduction
<1> QED BY <1>3

LEMMA AnyOrder ==
    ASSUME NEW D, IsFiniteSet(D), NEW w \in [D -> Nat], NEW g, AddsUp(g, w, D)
    PROVE  \A S \in SUBSET D : \A x \in S : g[S] = w[x] + g[S \ {x}]
<1> DEFINE P == {S \in SUBSET D : \A x \in S : g[S] = w[x] + g[S \ {x}]}
<1>1. {} \in P
  OBVIOUS
<1>2. ASSUME NEW S \in SUBSET D, S # {}, \A x \in S : S \ {x} \in P
      PROVE  S \in P
  <2>1. PICK y \in S : g[S] = w[y] + g[S \ {y}]
    BY <1>2 DEF AddsUp
  <2>2. ASSUME NEW x \in S, x # y PROVE g[S] = w[x] + g[S \ {x}]
    <3> DEFINE R == S \ {x, y}
    <3>1. R = (S \ {y}) \ {x} /\ R = (S \ {x}) \ {y}
      OBVIOUS
    <3>2. g[S \ {y}] = w[x] + g[R] /\ g[S \ {x}] = w[y] + g[R]
      BY <1>2, <2>2, <3>1
    <3>3. g[R] \in Nat /\ w[x] \in Nat /\ w[y] \in Nat
      BY SumIsNat
    <3> QED BY <2>1, <3>2, <3>3
  <2> QED BY <2>1, <2>2
<1>3. SUBSET D \subseteq P
  <2> HIDE DEF P
  <2> QED BY <1>1, <1>2, SetInduction
<1> QED BY <1>3

(* There is one such sum.                                                  *)
LEMMA OneSum ==
    ASSUME NEW D, IsFiniteSet(D), NEW w \in [D -> Nat],
           NEW E \in SUBSET D, NEW g, AddsUp(g, w, D), NEW h, AddsUp(h, w, E)
    PROVE  h[E] = g[E]
<1> DEFINE P == {S \in SUBSET E : h[S] = g[S]}
<1>1. {} \in P
  BY DEF AddsUp
<1>2. ASSUME NEW S \in SUBSET E, S # {}, \A x \in S : S \ {x} \in P
      PROVE  S \in P
  <2>1. PICK x \in S : h[S] = w[x] + h[S \ {x}]
    BY <1>2 DEF AddsUp
  <2>2. g[S] = w[x] + g[S \ {x}]
    BY AnyOrder
  <2> QED BY <1>2, <2>1, <2>2
<1>3. IsFiniteSet(E)
  BY FS_Subset
<1>4. SUBSET E \subseteq P
  <2> HIDE DEF P
  <2> QED BY <1>1, <1>2, <1>3, SetInduction
<1> QED BY <1>4

\* g adds up w over the subsets of D as a fold does that takes element c[S] of S first.
Fold(g, w, c, D) == g = [S \in SUBSET D |-> IF S = {} THEN 0 ELSE w[c[S]] + g[S \ {c[S]}]]

(* What a fold defines exists, whatever element of a set it takes first.   *)
LEMMA FoldDefined ==
    ASSUME NEW D, IsFiniteSet(D), NEW w \in [D -> Nat],
           NEW c, \A S \in SUBSET D : S # {} => c[S] \in S
    PROVE  \E g : Fold(g, w, c, D)
<1> DEFINE Small(n) == {S \in SUBSET D : Cardinality(S) <= n}
           Good(g, n) == g = [S \in Small(n) |->
                                 IF S = {} THEN 0 ELSE w[c[S]] + g[S \ {c[S]}]]
           N == {n \in Nat : \E g : Good(g, n)}
<1>1. \A S \in SUBSET D : IsFiniteSet(S) /\ Cardinality(S) \in Nat
  BY FS_Subset, FS_CardinalityType
<1>2. 0 \in N
  <2> DEFINE g == [S \in Small(0) |-> 0]
  <2>1. \A S \in Small(0) : S = {}
    BY <1>1, FS_EmptySet
  <2>2. Good(g, 0)
    BY <2>1
  <2> QED BY <2>2
<1>3. ASSUME NEW n \in Nat, n \in N PROVE n + 1 \in N
  <2>1. PICK g : Good(g, n)
    BY <1>3
  <2> DEFINE h == [S \in Small(n + 1) |-> IF S = {} THEN 0 ELSE w[c[S]] + g[S \ {c[S]}]]
  <2>2. ASSUME NEW S \in Small(n) PROVE S \in Small(n + 1) /\ h[S] = g[S]
    <3>1. S \in Small(n + 1)
      BY <1>1
    <3>2. g[S] = IF S = {} THEN 0 ELSE w[c[S]] + g[S \ {c[S]}]
      BY <2>1, Zenon
    <3> QED BY <3>1, <3>2
  <2>3. ASSUME NEW S \in Small(n + 1), S # {} PROVE S \ {c[S]} \in Small(n)
    BY <1>1, <2>3, FS_RemoveElement
  <2>4. Good(h, n + 1)
    BY <2>2, <2>3
  <2>5. n + 1 \in Nat
    OBVIOUS
  <2> HIDE DEF h, Good
  <2> QED BY <2>4, <2>5
<1>4. Nat \subseteq N
  <2> HIDE DEF N
  <2> QED BY <1>2, <1>3, Induction
<1>5. PICK g : Good(g, Cardinality(D))
  BY <1>1, <1>4, FS_CardinalityType
<1>6. Small(Cardinality(D)) = SUBSET D
  BY FS_Subset
<1>7. Fold(g, w, c, D)
  BY <1>5, <1>6 DEF Fold
<1> QED BY <1>7

-----------------------------------------------------------------------------
(* MapThenSumSet of the community modules.                                 *)

SumOver(w, S) == MapThenSumSet(LAMBDA x : w[x], S)

LEMMA SumOverAddsUp ==
    ASSUME NEW D, IsFiniteSet(D), NEW w \in [D -> Nat]
    PROVE  \E g : AddsUp(g, w, D) /\ \A S \in SUBSET D : SumOver(w, S) = g[S]
<1> DEFINE It(g, S) == g = [T \in SUBSET S |-> IF T = {} THEN 0
                              ELSE w[CHOOSE x \in T : TRUE] + g[T \ {CHOOSE x \in T : TRUE}]]
           Iter(S) == CHOOSE g : It(g, S)
<1>1. ASSUME NEW S \in SUBSET D PROVE AddsUp(Iter(S), w, S)
  <2>1. IsFiniteSet(S)
    BY FS_Subset
  <2> DEFINE c == [T \in SUBSET D |-> CHOOSE x \in T : TRUE]
             v == [x \in S |-> w[x]]
  <2>2. \A T \in SUBSET S : T # {} => c[T] \in T
    OBVIOUS
  <2>3. v \in [S -> Nat]
    OBVIOUS
  <2>4. PICK g : Fold(g, v, c, S)
    <3> HIDE DEF c, v
    <3> QED BY <2>1, <2>2, <2>3, FoldDefined
  <2>5. It(g, S)
    <3>1. \A T \in SUBSET S : T # {} => c[T] = (CHOOSE x \in T : TRUE) /\ v[c[T]] = w[c[T]]
      OBVIOUS
    <3> DEFINE A(T) == IF T = {} THEN 0 ELSE v[c[T]] + g[T \ {c[T]}]
               B(T) == IF T = {} THEN 0
                       ELSE w[CHOOSE x \in T : TRUE] + g[T \ {CHOOSE x \in T : TRUE}]
    <3>2. g = [T \in SUBSET S |-> A(T)]
      BY <2>4 DEF Fold
    <3>3. \A T \in SUBSET S : A(T) = B(T)
      <4> HIDE DEF c, v
      <4> QED BY <3>1
    <3>4. g = [T \in SUBSET S |-> B(T)]
      <4> HIDE DEF A, B
      <4> QED BY <3>2, <3>3
    <3> QED BY <3>4
  <2>6. It(Iter(S), S)
    <3> HIDE DEF It
    <3> QED BY <2>5
  <2> DEFINE h == Iter(S)
  <2>7. \A T \in SUBSET S : h[T] = IF T = {} THEN 0
            ELSE w[CHOOSE x \in T : TRUE] + h[T \ {CHOOSE x \in T : TRUE}]
    <3> HIDE DEF h
    <3> SUFFICES ASSUME NEW T \in SUBSET S
                 PROVE  h[T] = IF T = {} THEN 0
            ELSE w[CHOOSE x \in T : TRUE] + h[T \ {CHOOSE x \in T : TRUE}]
      OBVIOUS
    <3>1. It(h, S)
      BY <2>6 DEF h
    <3> QED BY <3>1, Zenon
  <2> HIDE DEF h
  <2>8. AddsUp(h, w, S)
    BY <2>7 DEF AddsUp
  <2> QED BY <2>8 DEF h
<1>2. ASSUME NEW S \in SUBSET D PROVE SumOver(w, S) = Iter(S)[S]
  BY DEF SumOver, MapThenSumSet, MapThenFoldSet
<1> HIDE DEF Iter
<1>3. ASSUME NEW S \in SUBSET D PROVE Iter(S)[S] = Iter(D)[S]
  BY <1>1, OneSum
<1> QED BY <1>1, <1>2, <1>3

(* The sum over a set with one element more.                               *)
LEMMA SumOverOne ==
    ASSUME NEW D, IsFiniteSet(D), NEW w \in [D -> Nat], NEW S \in SUBSET D
    PROVE  /\ SumOver(w, {}) = 0 /\ SumOver(w, S) \in Nat
           /\ \A x \in S : SumOver(w, S) = w[x] + SumOver(w, S \ {x})
<1>1. PICK g : AddsUp(g, w, D) /\ \A T \in SUBSET D : SumOver(w, T) = g[T]
  BY SumOverAddsUp
<1>2. g[S] \in Nat /\ \A x \in S : g[S] = w[x] + g[S \ {x}]
  BY <1>1, SumIsNat, AnyOrder
<1> QED BY <1>1, <1>2 DEF AddsUp

(* Two functions that differ nowhere in a set have one sum over it, and    *)
(* one that is nought everywhere has none.                                 *)
LEMMA SumOverSame ==
    ASSUME NEW D, IsFiniteSet(D), NEW w \in [D -> Nat], NEW v \in [D -> Nat],
           NEW S \in SUBSET D, \A x \in S : w[x] = v[x]
    PROVE  SumOver(w, S) = SumOver(v, S)
<1> DEFINE P == {T \in SUBSET S : SumOver(w, T) = SumOver(v, T)}
<1>1. {} \in P
  BY SumOverOne
<1>2. ASSUME NEW T \in SUBSET S, T # {}, \A x \in T : T \ {x} \in P PROVE T \in P
  <2>1. PICK x : x \in T
    BY <1>2
  <2>2. SumOver(w, T) = w[x] + SumOver(w, T \ {x}) /\ SumOver(v, T) = v[x] + SumOver(v, T \ {x})
    BY <2>1, SumOverOne
  <2> QED BY <1>2, <2>1, <2>2
<1>3. IsFiniteSet(S)
  BY FS_Subset
<1>4. SUBSET S \subseteq P
  <2> HIDE DEF P
  <2> QED BY <1>1, <1>2, <1>3, SetInduction
<1> QED BY <1>4

LEMMA SumOverNone ==
    ASSUME NEW D, IsFiniteSet(D), NEW w \in [D -> Nat],
           NEW S \in SUBSET D, \A x \in S : w[x] = 0
    PROVE  SumOver(w, S) = 0
<1> DEFINE P == {T \in SUBSET S : SumOver(w, T) = 0}
<1>1. {} \in P
  BY SumOverOne
<1>2. ASSUME NEW T \in SUBSET S, T # {}, \A x \in T : T \ {x} \in P PROVE T \in P
  <2>1. PICK x : x \in T
    BY <1>2
  <2>2. SumOver(w, T) = w[x] + SumOver(w, T \ {x})
    BY <2>1, SumOverOne
  <2> QED BY <1>2, <2>1, <2>2
<1>3. IsFiniteSet(S)
  BY FS_Subset
<1>4. SUBSET S \subseteq P
  <2> HIDE DEF P
  <2> QED BY <1>1, <1>2, <1>3, SetInduction
<1> QED BY <1>4

(* One more somewhere makes the sum one more.                              *)
OneMoreAt(w, d) == [w EXCEPT ![d] = @ + 1]

LEMMA SumOverGrows ==
    ASSUME NEW D, IsFiniteSet(D), NEW w \in [D -> Nat], NEW d \in D
    PROVE  OneMoreAt(w, d) \in [D -> Nat] /\ SumOver(OneMoreAt(w, d), D) = SumOver(w, D) + 1
<1> DEFINE R == D \ {d}
           v == OneMoreAt(w, d)
<1>1. v \in [D -> Nat] /\ v[d] = w[d] + 1 /\ w[d] \in Nat /\ \A x \in R : w[x] = v[x]
  BY DEF OneMoreAt
<1>2. R \in SUBSET D /\ D \in SUBSET D
  OBVIOUS
<1> HIDE DEF v
<1>3. SumOver(v, D) = v[d] + SumOver(v, R) /\ SumOver(w, D) = w[d] + SumOver(w, R)
  BY <1>1, <1>2, SumOverOne
<1> HIDE DEF R
<1>4. SumOver(w, R) \in Nat
  BY <1>2, SumOverOne
<1>5. SumOver(w, R) = SumOver(v, R)
  BY <1>1, <1>2, SumOverSame
<1> QED
  BY <1>1, <1>3, <1>4, <1>5 DEF v

-----------------------------------------------------------------------------
(* Loops.                                                                  *)

\* g is what a loop leaves behind that turns x into next[x] until m[x] is zero.
Looped(g, m, b, next, D) == g = [x \in D |-> IF m[x] = 0 THEN b[x] ELSE g[next[x]]]

(* A loop whose measure falls with every turn computes something.          *)
LEMMA LoopDefined ==
    ASSUME NEW D, NEW m \in [D -> Nat], NEW b, NEW next,
           \A x \in D : m[x] > 0 => next[x] \in D /\ m[next[x]] < m[x]
    PROVE  \E g : Looped(g, m, b, next, D)
<1> DEFINE Small(n) == {x \in D : m[x] <= n}
           Good(g, n) == g = [x \in Small(n) |-> IF m[x] = 0 THEN b[x] ELSE g[next[x]]]
           N == {n \in Nat : \E g : Good(g, n)}
<1>1. 0 \in N
  <2> DEFINE g == [x \in Small(0) |-> b[x]]
  <2>1. \A x \in Small(0) : m[x] = 0
    OBVIOUS
  <2>2. Good(g, 0)
    BY <2>1
  <2> QED BY <2>2
<1>2. ASSUME NEW n \in Nat, n \in N PROVE n + 1 \in N
  <2>1. PICK g : Good(g, n)
    BY <1>2
  <2> DEFINE h == [x \in Small(n + 1) |-> IF m[x] = 0 THEN b[x] ELSE g[next[x]]]
  <2>2. ASSUME NEW x \in Small(n) PROVE x \in Small(n + 1) /\ h[x] = g[x]
    <3>1. x \in Small(n + 1)
      OBVIOUS
    <3>2. g[x] = IF m[x] = 0 THEN b[x] ELSE g[next[x]]
      BY <2>1, Zenon
    <3> QED BY <3>1, <3>2
  <2>3. ASSUME NEW x \in Small(n + 1), m[x] # 0 PROVE next[x] \in Small(n)
    BY <2>3
  <2>4. Good(h, n + 1)
    BY <2>2, <2>3
  <2>5. n + 1 \in Nat
    OBVIOUS
  <2> HIDE DEF h, Good
  <2> QED BY <2>4, <2>5
<1>3. Nat \subseteq N
  <2> HIDE DEF N
  <2> QED BY <1>1, <1>2, Induction
<1>4. ASSUME NEW n \in Nat, NEW g, Good(g, n), NEW k \in Nat, NEW h, Good(h, k)
      PROVE  \A x \in Small(n) \cap Small(k) : g[x] = h[x]
  <2> DEFINE S == {j \in Nat : \A x \in Small(n) \cap Small(k) : m[x] <= j => g[x] = h[x]}
  <2>1. /\ \A x \in Small(n) : g[x] = IF m[x] = 0 THEN b[x] ELSE g[next[x]]
        /\ \A x \in Small(k) : h[x] = IF m[x] = 0 THEN b[x] ELSE h[next[x]]
    BY <1>4, Zenon
  <2>2. 0 \in S
    BY <2>1
  <2>3. ASSUME NEW j \in Nat, j \in S PROVE j + 1 \in S
    <3>1. ASSUME NEW x \in Small(n) \cap Small(k), m[x] <= j + 1 PROVE g[x] = h[x]
      <4>1. CASE m[x] = 0
        BY <2>1, <4>1
      <4>2. CASE m[x] # 0
        <5>1. next[x] \in Small(n) \cap Small(k) /\ m[next[x]] <= j
          BY <3>1, <4>2
        <5> QED
          BY <2>1, <2>3, <4>2, <5>1
      <4> QED BY <4>1, <4>2
    <3> QED BY <3>1
  <2>4. Nat \subseteq S
    <3> HIDE DEF S
    <3> QED BY <2>2, <2>3, Induction
  <2> QED BY <2>4
<1> DEFINE G(n) == CHOOSE g : Good(g, n)
           g == [x \in D |-> G(m[x])[x]]
<1>5. \A n \in Nat : Good(G(n), n)
  <2> HIDE DEF Good
  <2> QED BY <1>3
<1>6. ASSUME NEW x \in D PROVE g[x] = IF m[x] = 0 THEN b[x] ELSE g[next[x]]
  <2> DEFINE f == G(m[x])
  <2>1. m[x] \in Nat /\ Good(f, m[x]) /\ g[x] = f[x] /\ x \in Small(m[x])
    <3>1. m[x] \in Nat /\ x \in Small(m[x])
      OBVIOUS
    <3> HIDE DEF Good, Small
    <3> QED BY <1>5, <3>1
  <2>2. f[x] = IF m[x] = 0 THEN b[x] ELSE f[next[x]]
    <3> HIDE DEF f, g
    <3> QED BY <2>1, Zenon
  <2>3. CASE m[x] # 0
    <3> DEFINE y == next[x]
    <3>1. y \in D /\ m[y] \in Nat /\ y \in Small(m[x]) \cap Small(m[y])
      BY <2>3
    <3>2. Good(G(m[y]), m[y])
      <4> HIDE DEF Good, G, y
      <4> QED BY <1>5, <3>1
    <3>3. f[y] = G(m[y])[y]
      <4> HIDE DEF Good, G, y, f
      <4> QED BY <1>4, <2>1, <3>1, <3>2
    <3> QED BY <2>1, <2>2, <2>3, <3>1, <3>3
  <2> HIDE DEF f, g
  <2> QED BY <2>1, <2>2, <2>3
<1>7. g = [x \in D |-> IF m[x] = 0 THEN b[x] ELSE g[next[x]]]
  <2>1. g = [x \in D |-> g[x]]
    OBVIOUS
  <2> HIDE DEF g
  <2> QED BY <1>6, <2>1
<1> QED BY <1>7 DEF Looped

-----------------------------------------------------------------------------
(* FoldLeft of the community modules, which takes a sequence from its end. *)

LEMMA LastOfFinite ==
  ASSUME NEW n \in Nat, NEW T \in SUBSET (1 .. n), T # {}
  PROVE  Max(T) \in T
<1> DEFINE S == {k \in Nat : \A U \in SUBSET (1 .. k) : U # {} => \E x \in U : \A y \in U : x >= y}
<1>1. 0 \in S
  <2>1. 1 .. 0 = {}
    OBVIOUS
  <2> QED BY <2>1
<1>2. ASSUME NEW k \in Nat, k \in S PROVE k + 1 \in S
  <2>1. ASSUME NEW U \in SUBSET (1 .. k + 1), U # {} PROVE \E x \in U : \A y \in U : x >= y
    <3>1. CASE k + 1 \in U
      BY <3>1
    <3>2. CASE k + 1 \notin U
      <4>1. U \in SUBSET (1 .. k)
        BY <3>2
      <4> QED BY <1>2, <2>1, <4>1
    <3> QED BY <3>1, <3>2
  <2> QED BY <2>1
<1>3. Nat \subseteq S
  <2> HIDE DEF S
  <2> QED BY <1>1, <1>2, Induction
<1>4. \E x \in T : \A y \in T : x >= y
  BY <1>3
<1> QED BY <1>4 DEF Max

SumAlong(w, s) == FoldLeft(LAMBDA n, x : n + w[x], 0, s)
Along(w, s) == [i \in 1 .. Len(s) |-> w[s[i]]]
LEMMA SumAlongAdds ==
    ASSUME NEW E, NEW w \in [E -> Nat], NEW s \in Seq(E)
    PROVE  /\ Along(w, s) \in [1 .. Len(s) -> Nat]
           /\ SumAlong(w, s) = SumOver(Along(w, s), 1 .. Len(s))
<1> DEFINE D == 1 .. Len(s)
           v == Along(w, s)
           A(f, T) == IF T = {} THEN 0 ELSE f[T \ {Max(T)}] + w[s[Max(T)]]
           It(f) == f = [T \in SUBSET D |-> A(f, T)]
           c == [T \in SUBSET D |-> Max(T)]
<1>1. Len(s) \in Nat /\ DOMAIN s = D /\ IsFiniteSet(D)
  BY LenProperties, FS_Interval
<1>2. v \in [D -> Nat] /\ \A i \in D : v[i] = w[s[i]] /\ w[s[i]] \in Nat
  BY <1>1, ElementOfSeq DEF Along
<1>3. \A T \in SUBSET D : T # {} => c[T] \in T /\ c[T] = Max(T)
  BY <1>1, LastOfFinite
<1>4. PICK f : Fold(f, v, c, D)
  <2> HIDE DEF D, v, c
  <2> QED BY <1>1, <1>2, <1>3, FoldDefined
<1>5. AddsUp(f, v, D)
  <2> HIDE DEF D, v, c
  <2> QED BY <1>3, <1>4 DEF Fold, AddsUp
<1>6. \A T \in SUBSET D : f[T] = A(f, T)
  <2>1. \A T \in SUBSET D : f[T] \in Nat
    <3> HIDE DEF D, v, c
    <3> QED BY <1>1, <1>2, <1>5, SumIsNat
  <2>2. \A T \in SUBSET D : f[T] = IF T = {} THEN 0 ELSE v[c[T]] + f[T \ {c[T]}]
    BY <1>4 DEF Fold
  <2> HIDE DEF c, v, D
  <2> SUFFICES ASSUME NEW T \in SUBSET D, T # {} PROVE f[T] = A(f, T)
    BY <2>2
  <2>3. /\ c[T] = Max(T) /\ c[T] \in D /\ f[T \ {c[T]}] \in Nat
        /\ v[c[T]] = w[s[c[T]]] /\ v[c[T]] \in Nat
    BY <1>2, <1>3, <2>1
  <2>4. f[T] = f[T \ {c[T]}] + v[c[T]]
    <3>1. f[T] = v[c[T]] + f[T \ {c[T]}]
      BY <2>2, Zenon
    <3>2. \A a, b \in Nat : a + b = b + a
      OBVIOUS
    <3> QED BY <2>3, <3>1, <3>2
  <2>5. A(f, T) = f[T \ {Max(T)}] + w[s[Max(T)]]
    OBVIOUS
  <2> HIDE DEF A
  <2> QED BY <2>3, <2>4, <2>5
<1>7. It(f)
  <2>1. f = [T \in SUBSET D |-> f[T]]
    BY <1>4 DEF Fold
  <2> HIDE DEF A
  <2> QED BY <1>6, <2>1
<1>8. SumAlong(w, s) = (CHOOSE g : It(g))[D]
  BY <1>1 DEF SumAlong, FoldLeft, MapThenFoldSet
<1> DEFINE g == CHOOSE h : It(h)
<1>9. \A T \in SUBSET D : g[T] = A(g, T)
  <2>1. It(g)
    <3> HIDE DEF It
    <3> QED BY <1>7
  <2> HIDE DEF g, A
  <2> QED BY <2>1
<1>10. g[D] = f[D]
  <2> HIDE DEF g
  <2> DEFINE P == {T \in SUBSET D : g[T] = f[T]}
  <2>1. {} \in P
    BY <1>6, <1>9
  <2>2. ASSUME NEW T \in SUBSET D, T # {}, \A x \in T : T \ {x} \in P PROVE T \in P
    <3>1. Max(T) \in T
      BY <1>1, <2>2, LastOfFinite
    <3> QED BY <1>6, <1>9, <2>2, <3>1
  <2>3. SUBSET D \subseteq P
    <3> HIDE DEF P, D
    <3> QED BY <1>1, <2>1, <2>2, SetInduction
  <2> QED BY <2>3
<1>11. SumOver(v, D) = f[D]
  <2> HIDE DEF D, v, c
  <2>1. PICK h : AddsUp(h, v, D) /\ \A T \in SUBSET D : SumOver(v, T) = h[T]
    BY <1>1, <1>2, SumOverAddsUp
  <2>2. f[D] = h[D]
    BY <1>1, <1>2, <1>5, <2>1, OneSum
  <2> QED BY <2>1, <2>2
<1> QED BY <1>2, <1>8, <1>10, <1>11

(* The sum along a sequence without repetition is that over its range.     *)
LEMMA SumAlongOnce ==
    ASSUME NEW E, IsFiniteSet(E), NEW w \in [E -> Nat], NEW s \in Seq(E), IsInjective(s)
    PROVE  SumAlong(w, s) = SumOver(w, Range(s)) /\ SumAlong(w, s) \in Nat
<1> DEFINE D == 1 .. Len(s)
           v == Along(w, s)
           Image(T) == {s[i] : i \in T}
           P == {T \in SUBSET D : SumOver(v, T) = SumOver(w, Image(T))}
<1>1. /\ Len(s) \in Nat /\ DOMAIN s = D /\ IsFiniteSet(D)
      /\ v \in [D -> Nat] /\ SumAlong(w, s) = SumOver(v, D)
  <2>1. Len(s) \in Nat /\ DOMAIN s = D /\ IsFiniteSet(D)
    BY LenProperties, FS_Interval
  <2>2. v \in [D -> Nat] /\ SumAlong(w, s) = SumOver(v, D)
    BY SumAlongAdds
  <2> QED BY <2>1, <2>2
<1>2. \A i \in D : s[i] \in E /\ v[i] = w[s[i]]
  BY <1>1, ElementOfSeq DEF Along
<1>3. \A i, j \in D : s[i] = s[j] => i = j
  BY <1>1 DEF IsInjective
<1> HIDE DEF D, v
<1>4. {} \in P
  <2>1. SumOver(v, {}) = 0 /\ SumOver(w, {}) = 0
    BY <1>1, SumOverOne
  <2>2. Image({}) = {}
    OBVIOUS
  <2> QED BY <2>1, <2>2
<1>5. ASSUME NEW T \in SUBSET D, T # {}, \A x \in T : T \ {x} \in P PROVE T \in P
  <2>1. PICK x : x \in T
    BY <1>5
  <2>2. SumOver(v, T) = v[x] + SumOver(v, T \ {x})
    <3>1. IsFiniteSet(D) /\ v \in [D -> Nat]
      BY <1>1
    <3>2. \A y \in T : SumOver(v, T) = v[y] + SumOver(v, T \ {y})
      BY <3>1, SumOverOne
    <3> QED BY <2>1, <3>2
  <2>3. Image(T) \in SUBSET E /\ s[x] \in Image(T)
    BY <1>2, <2>1
  <2>4. SumOver(w, Image(T)) = w[s[x]] + SumOver(w, Image(T) \ {s[x]})
    <3> HIDE DEF Image
    <3> QED BY <2>3, SumOverOne
  <2>5. Image(T) \ {s[x]} = Image(T \ {x})
    BY <1>3, <2>1
  <2> QED BY <1>2, <1>5, <2>1, <2>2, <2>4, <2>5
<1>6. SUBSET D \subseteq P
  <2> HIDE DEF P
  <2> QED BY <1>1, <1>4, <1>5, SetInduction
<1>7. SumOver(v, D) = SumOver(w, Image(D)) /\ SumOver(v, D) \in Nat
  <2>1. D \in P
    BY <1>6
  <2>2. D \in SUBSET D
    OBVIOUS
  <2>3. SumOver(v, D) \in Nat
    BY <1>1, <2>2, SumOverOne
  <2> QED BY <2>1, <2>3
<1>8. Image(D) = Range(s)
  BY <1>1 DEF Range
<1> QED BY <1>1, <1>7, <1>8

-----------------------------------------------------------------------------
(* FlattenSeq of the community modules.                                    *)

\* e[k] is where the k-th sequence of ss ends in t, all of them one after the other.
LaidOut(t, ss, e) ==
    /\ e \in [0 .. Len(ss) -> Nat] /\ e[0] = 0 /\ Len(t) = e[Len(ss)]
    /\ \A k \in 1 .. Len(ss) : e[k] = e[k - 1] + Len(ss[k]) /\ e[k] <= Len(t)
    /\ \A k \in 1 .. Len(ss) : \A j \in 1 .. Len(ss[k]) : t[e[k - 1] + j] = ss[k][j]

\* f[i] is the first i sequences of ss, one after the other.
Joined(f, ss, n) == f = [i \in 1 .. n |-> IF i = 1 THEN ss[i] ELSE f[i - 1] \o ss[i]]

LEMMA Flattened ==
    ASSUME NEW S, NEW ss \in Seq(Seq(S))
    PROVE  \E e : LaidOut(FlattenSeq(ss), ss, e)
<1> DEFINE N == Len(ss)
<1>1. N \in Nat /\ \A i \in 1 .. N : ss[i] \in Seq(S)
  OBVIOUS
<1>2. \E f : Joined(f, ss, N)
  <2> DEFINE P == {n \in Nat : n <= N => \E f : Joined(f, ss, n)}
  <2>1. 0 \in P
    <3> DEFINE f == [i \in 1 .. 0 |-> {}]
    <3>1. Joined(f, ss, 0)
      BY DEF Joined
    <3> QED BY <3>1
  <2>2. ASSUME NEW n \in Nat, n \in P PROVE n + 1 \in P
    <3> SUFFICES ASSUME n + 1 <= N PROVE \E f : Joined(f, ss, n + 1)
      OBVIOUS
    <3>1. PICK f : Joined(f, ss, n)
      BY <1>1, <2>2
    <3> DEFINE h == [i \in 1 .. (n + 1) |-> IF i = 1 THEN ss[i] ELSE f[i - 1] \o ss[i]]
    <3>2. ASSUME NEW i \in 1 .. n PROVE h[i] = f[i]
      <4>1. i \in 1 .. (n + 1)
        OBVIOUS
      <4>2. f[i] = IF i = 1 THEN ss[i] ELSE f[i - 1] \o ss[i]
        BY <3>1, Zenon DEF Joined
      <4> QED BY <4>1, <4>2, Zenon
    <3>3. \A i \in 1 .. (n + 1) : i # 1 => i - 1 \in 1 .. n
      OBVIOUS
    <3>4. Joined(h, ss, n + 1)
      <4>1. \A i \in 1 .. (n + 1) : (IF i = 1 THEN ss[i] ELSE f[i - 1] \o ss[i])
                                   = (IF i = 1 THEN ss[i] ELSE h[i - 1] \o ss[i])
        <5> HIDE DEF h
        <5> QED BY <3>2, <3>3
      <4> QED BY <4>1 DEF Joined
    <3> HIDE DEF h
    <3> QED BY <3>4
  <2>3. Nat \subseteq P
    <3> HIDE DEF P
    <3> QED BY <2>1, <2>2, Induction
  <2> QED BY <1>1, <2>3
<1> DEFINE f == CHOOSE g : Joined(g, ss, N)
<1>3. Joined(f, ss, N)
  BY <1>2
<1>4. FlattenSeq(ss) = IF N = 0 THEN ss ELSE f[N]
  BY DEF FlattenSeq, Joined
<1> HIDE DEF f
<1>5. (N > 0 => f[1] = ss[1]) /\ \A i \in 2 .. N : f[i] = f[i - 1] \o ss[i]
  <2>1. \A i \in 1 .. N : f[i] = IF i = 1 THEN ss[i] ELSE f[i - 1] \o ss[i]
    BY <1>3, Zenon DEF Joined
  <2> HIDE DEF N
  <2>2. \A i \in 2 .. N : i \in 1 .. N /\ i # 1
    BY <1>1
  <2>3. N > 0 => 1 \in 1 .. N
    BY <1>1
  <2> QED BY <2>1, <2>2, <2>3
<1> DEFINE g == [k \in 0 .. N |-> IF k = 0 THEN <<>> ELSE f[k]]
<1>6. g[0] = <<>> /\ \A k \in 1 .. N : g[k] = g[k - 1] \o ss[k]
  <2>1. g[0] = <<>> /\ \A k \in 1 .. N : g[k] = f[k]
    BY <1>1
  <2>2. ASSUME N > 0 PROVE g[1] = g[0] \o ss[1]
    <3>1. ss[1] \in Seq(S) /\ 1 \in 1 .. N
      BY <1>1, <2>2
    <3>2. <<>> \o ss[1] = ss[1]
      BY <3>1
    <3> QED BY <1>5, <2>1, <2>2, <3>1, <3>2
  <2>3. ASSUME NEW k \in 2 .. N PROVE g[k] = g[k - 1] \o ss[k]
    <3>1. k \in 1 .. N /\ k - 1 \in 1 .. N
      BY <1>1
    <3> HIDE DEF g
    <3> QED BY <1>5, <2>1, <3>1
  <2>4. \A k \in 1 .. N : (k = 1 /\ N > 0) \/ k \in 2 .. N
    BY <1>1
  <2>5. 1 - 1 = 0
    OBVIOUS
  <2> HIDE DEF g, N
  <2> QED BY <2>1, <2>2, <2>3, <2>4, <2>5
<1>7. FlattenSeq(ss) = g[N]
  <2>1. CASE N = 0
    <3>1. ss = <<>>
      BY <2>1
    <3> QED BY <1>4, <1>6, <2>1, <3>1
  <2>2. CASE N # 0
    BY <1>1, <1>4, <2>2
  <2> QED BY <2>1, <2>2
<1> HIDE DEF g
<1> DEFINE Laid(n) == /\ \A k \in 0 .. n : g[k] \in Seq(S) /\ Len(g[k]) <= Len(g[n])
                      /\ \A k \in 1 .. n : \A j \in 1 .. Len(ss[k]) :
                            /\ Len(g[k - 1]) + j \in 1 .. Len(g[n])
                            /\ g[n][Len(g[k - 1]) + j] = ss[k][j]
                      /\ \A k \in 1 .. n : Len(g[k]) = Len(g[k - 1]) + Len(ss[k])
<1>8. Laid(0)
  <2>1. g[0] \in Seq(S) /\ Len(g[0]) = 0
    BY <1>6
  <2> QED BY <2>1
<1>9. ASSUME NEW n \in Nat, n + 1 <= N, Laid(n) PROVE Laid(n + 1)
  <2> DEFINE a == g[n]
             b == ss[n + 1]
             c == g[n + 1]
  <2>1. n + 1 \in 1 .. N /\ (n + 1) - 1 = n
    BY <1>1, <1>9
  <2>2. c = a \o b /\ a \in Seq(S) /\ b \in Seq(S)
    <3>1. n \in 0 .. n
      OBVIOUS
    <3> QED BY <1>1, <1>6, <1>9, <2>1, <3>1
  <2>3. c \in Seq(S) /\ Len(c) = Len(a) + Len(b) /\ Len(a) \in Nat /\ Len(b) \in Nat
        /\ Len(c) \in Nat
        /\ (\A j \in 1 .. Len(a) : c[j] = a[j]) /\ \A j \in 1 .. Len(b) : c[Len(a) + j] = b[j]
    <3> HIDE DEF a, b, c
    <3>1. c \in Seq(S) /\ Len(c) = Len(a) + Len(b) /\ Len(a) \in Nat /\ Len(b) \in Nat
      BY <2>2, ConcatProperties
    <3>2. \A j \in 1 .. Len(a) : c[j] = a[j]
      BY <2>2, <3>1, ConcatProperties
    <3>3. ASSUME NEW j \in 1 .. Len(b) PROVE c[Len(a) + j] = b[j]
      <4>1. Len(a) + j \in (Len(a) + 1) .. (Len(a) + Len(b)) /\ Len(a) + j - Len(a) = j
        BY <3>1
      <4> QED BY <2>2, <3>1, <4>1, ConcatProperties
    <3> QED BY <3>1, <3>2, <3>3
  <2>4. \A k \in 0 .. n : g[k] \in Seq(S) /\ Len(g[k]) \in Nat /\ Len(g[k]) <= Len(a)
    <3>1. \A k \in 0 .. n : g[k] \in Seq(S) /\ Len(g[k]) <= Len(a)
      BY <1>9
    <3> HIDE DEF a
    <3> QED BY <3>1, LenProperties
  <2>5. \A k \in 1 .. n : \A j \in 1 .. Len(ss[k]) :
            Len(g[k - 1]) + j \in 1 .. Len(a) /\ a[Len(g[k - 1]) + j] = ss[k][j]
    BY <1>9
  <2>6. \A k : (k \in 0 .. (n + 1) <=> k \in 0 .. n \/ k = n + 1)
               /\ (k \in 1 .. (n + 1) <=> k \in 1 .. n \/ k = n + 1)
    OBVIOUS
  <2>7. \A k \in 0 .. (n + 1) : g[k] \in Seq(S) /\ Len(g[k]) <= Len(c)
    <3>1. Len(a) <= Len(c) /\ Len(c) <= Len(c) /\ Len(a) \in Nat /\ Len(c) \in Nat
      <4> HIDE DEF a, b, c
      <4> QED BY <2>3
    <3>2. ASSUME NEW k \in 0 .. n PROVE Len(g[k]) <= Len(c)
      <4> DEFINE x == Len(g[k])
                 y == Len(a)
                 z == Len(c)
      <4>1. x \in Nat /\ y \in Nat /\ z \in Nat /\ x <= y /\ y <= z
        BY <2>4, <3>1
      <4> HIDE DEF x, y, z
      <4>2. x <= z
        BY <4>1
      <4> QED BY <4>2 DEF x, z
    <3> HIDE DEF a
    <3> QED BY <2>3, <2>4, <2>6, <3>1, <3>2
  <2>8. ASSUME NEW k \in 1 .. (n + 1), NEW j \in 1 .. Len(ss[k])
        PROVE  Len(g[k - 1]) + j \in 1 .. Len(c) /\ c[Len(g[k - 1]) + j] = ss[k][j]
    <3>1. CASE k \in 1 .. n
      <4> DEFINE p == Len(g[k - 1]) + j
      <4>1. p \in 1 .. Len(a) /\ a[p] = ss[k][j]
        BY <2>5, <3>1
      <4> HIDE DEF p, a, c
      <4>2. p \in 1 .. Len(c) /\ c[p] = ss[k][j]
        BY <2>3, <4>1
      <4> QED BY <4>2 DEF p
    <3>2. CASE k = n + 1
      <4>1. g[k - 1] = a /\ ss[k] = b
        BY <2>1, <3>2
      <4> HIDE DEF a, b, c
      <4> QED BY <2>3, <4>1
    <3> QED BY <2>6, <3>1, <3>2
  <2>9. ASSUME NEW k \in 1 .. (n + 1) PROVE Len(g[k]) = Len(g[k - 1]) + Len(ss[k])
    <3>1. CASE k = n + 1
      BY <2>1, <2>3, <3>1
    <3>2. CASE k \in 1 .. n
      BY <1>9, <3>2
    <3> QED BY <2>6, <3>1, <3>2
  <2> QED BY <2>7, <2>8, <2>9
<1>10. Laid(N)
  <2> DEFINE P == {n \in Nat : n <= N => Laid(n)}
  <2> HIDE DEF Laid
  <2>1. 0 \in P
    BY <1>8
  <2>2. ASSUME NEW n \in Nat, n \in P PROVE n + 1 \in P
    BY <1>1, <1>9, <2>2
  <2>3. Nat \subseteq P
    <3> HIDE DEF P
    <3> QED BY <2>1, <2>2, Induction
  <2> QED BY <1>1, <2>3
<1> DEFINE e == [k \in 0 .. N |-> Len(g[k])]
<1>11. /\ e \in [0 .. N -> Nat] /\ e[0] = 0 /\ \A k \in 0 .. N : e[k] = Len(g[k])
  <2>1. \A k \in 0 .. N : Len(g[k]) \in Nat
    BY <1>10
  <2>2. Len(g[0]) = 0 /\ 0 \in 0 .. N
    BY <1>1, <1>6
  <2> HIDE DEF N
  <2> QED BY <2>1, <2>2
<1>12. \A k \in 1 .. N : k \in 0 .. N /\ k - 1 \in 0 .. N
  BY <1>1
<1>13. N \in 0 .. N
  BY <1>1
<1> HIDE DEF e
<1>14. LaidOut(g[N], ss, e)
  <2>1. \A k \in 1 .. N : e[k] = e[k - 1] + Len(ss[k]) /\ e[k] <= Len(g[N])
    BY <1>10, <1>11, <1>12
  <2>2. \A k \in 1 .. N : \A j \in 1 .. Len(ss[k]) : g[N][e[k - 1] + j] = ss[k][j]
    BY <1>10, <1>11, <1>12
  <2> QED BY <1>11, <1>13, <2>1, <2>2 DEF LaidOut
<1> QED BY <1>7, <1>14
=============================================================================
