---------------------------- MODULE FoldTheorems ----------------------------
(***************************************************************************)
(* What the models of amounts and of reports rest on: sums over a finite   *)
(* set of places, and sequences put one after the other.                   *)
(*                                                                         *)
(* The library's induction theorems have the property as a parameter that  *)
(* is an operator, and an induction cannot be over one here.  Those below  *)
(* have it as a SET, of which all values turn out to be members; they      *)
(* follow from the least element of a well-founded relation (WFMin).       *)
(***************************************************************************)
EXTENDS SequencesExt, FiniteSetTheorems, TLAPS

-----------------------------------------------------------------------------
(* Induction                                                               *)

\* Natural numbers have a least element, whatever they are.
LEMMA LeastNatural ==
  ASSUME NEW T \in SUBSET Nat, T # {}
  PROVE  \E n \in T : \A m \in T : n <= m
<1> DEFINE R == OpToRel(<, Nat)
<1>1. \E n \in T : \A m \in T : ~ (<<m, n>> \in R)
  BY NatLessThanWellFounded, WFMin
<1>2. \A m, n \in Nat : m < n => <<m, n>> \in R
  BY Zenon DEF OpToRel
<1> HIDE DEF R
<1>3. PICK n \in T : \A m \in T : ~ (<<m, n>> \in R)
  BY <1>1
<1>4. \A m \in T : ~ (m < n)
  BY <1>2, <1>3
<1> QED  BY <1>4

\* What holds of 1, and of each number that follows one it holds of, holds up
\* to any n.
LEMMA CountingInduction ==
  ASSUME NEW n \in Nat, NEW T, 1 \in T,
         \A m \in Nat : 0 < m /\ m < n /\ m \in T => m + 1 \in T
  PROVE  \A m \in 1 .. n : m \in T
<1> DEFINE bad == (1 .. n) \ T
<1> SUFFICES ASSUME bad # {} PROVE FALSE
  OBVIOUS
<1>1. PICK m \in bad : \A k \in bad : m <= k
  <2>1. bad \in SUBSET Nat
    OBVIOUS
  <2> HIDE DEF bad
  <2> QED  BY <2>1, LeastNatural
<1>2. m - 1 \in Nat /\ 0 < m - 1 /\ m - 1 < n
  BY <1>1
<1>3. m - 1 \in T
  BY <1>1, <1>2
<1>4. (m - 1) + 1 \in T
  BY <1>2, <1>3
<1> QED  BY <1>1, <1>4

\* What holds of every subset all of whose own subsets it holds of, holds of a
\* finite set.
LEMMA SubsetInduction ==
  ASSUME NEW S, IsFiniteSet(S), NEW T,
         \A U \in SUBSET S : (\A V \in SUBSET U : V # U => V \in T) => U \in T
  PROVE  S \in T
<1> DEFINE bad == (SUBSET S) \ T
<1> SUFFICES ASSUME bad # {} PROVE FALSE
  OBVIOUS
<1>1. \E U \in bad : \A V \in bad : ~ (<<V, U>> \in StrictSubsetOrdering(S))
  <2>1. \A U \in bad : U \in FiniteSubsetsOf(S)
    BY FS_Subset DEF FiniteSubsetsOf
  <2>2. bad \subseteq FiniteSubsetsOf(S)
    BY <2>1
  <2> HIDE DEF bad
  <2> QED  BY <2>2, FS_StrictSubsetOrderingWellFounded, WFMin
<1>2. PICK U \in bad : \A V \in bad : V \subseteq U => V = U
  <2>1. bad \subseteq SUBSET S
    OBVIOUS
  <2> HIDE DEF bad
  <2> QED  BY <1>1, <2>1 DEF StrictSubsetOrdering
<1> QED  BY <1>2

\* The same, adding one element at a time.
LEMMA OneByOneInduction ==
  ASSUME NEW S, IsFiniteSet(S), NEW T, {} \in T,
         \A U \in SUBSET S : \A x \in U : U \ {x} \in T => U \in T
  PROVE  S \in T
<1>1. ASSUME NEW U \in SUBSET S, \A V \in SUBSET U : V # U => V \in T PROVE U \in T
  <2>1. CASE U = {}
    BY <2>1
  <2>2. CASE U # {}
    <3>1. PICK x \in U : TRUE
      BY <2>2
    <3>2. U \ {x} \in SUBSET U /\ U \ {x} # U
      BY <3>1
    <3> QED  BY <1>1, <3>1, <3>2
  <2> QED  BY <2>1, <2>2
<1> QED  BY <1>1, SubsetInduction

-----------------------------------------------------------------------------
(* Sums.  The library adds up in the order of a CHOOSE, by a recursive     *)
(* function over the subsets; that there is one has to be shown first.     *)

First(S) == CHOOSE x \in S : TRUE

IsPartialSum(F, h, S) ==
  F = [s \in SUBSET S |-> IF s = {} THEN 0 ELSE h[First(s)] + F[s \ {First(s)}]]

\* The sum is a value of such a function, if there is one.
LEMMA SumIsPartialSum ==
  ASSUME NEW h, NEW S
  PROVE  SumFunctionOnSet(h, S) = (CHOOSE F : IsPartialSum(F, h, S))[S]
  BY DEF SumFunctionOnSet, FoldFunctionOnSet, MapThenFoldSet, IsPartialSum, First

\* Two of them agree where both are defined.
LEMMA PartialSumUnique ==
  ASSUME NEW h, NEW S, IsFiniteSet(S), NEW T \in SUBSET S,
         NEW F, IsPartialSum(F, h, S), NEW G, IsPartialSum(G, h, T)
  PROVE  F[T] = G[T]
<1> DEFINE agree == {s \in SUBSET T : F[s] = G[s]}
<1>1. ASSUME NEW s \in SUBSET T, \A r \in SUBSET s : r # s => r \in agree
      PROVE  s \in agree
  <2>1. CASE s = {}
    BY <2>1 DEF IsPartialSum
  <2>2. CASE s # {}
    <3> DEFINE r == s \ {First(s)}
    <3>1. First(s) \in s
      BY <2>2 DEF First
    <3>2. F[r] = G[r]
      BY <1>1, <3>1
    <3>3. F[s] = h[First(s)] + F[r] /\ G[s] = h[First(s)] + G[r]
      BY <2>2 DEF IsPartialSum
    <3> QED  BY <3>2, <3>3
  <2> QED  BY <2>1, <2>2
<1>2. IsFiniteSet(T)
  BY FS_Subset
<1>3. T \in agree
  <2> HIDE DEF agree
  <2> QED  BY <1>1, <1>2, SubsetInduction
<1> QED  BY <1>3

\* There is one, for any finite set.
LEMMA PartialSumExists ==
  ASSUME NEW h, NEW S, IsFiniteSet(S)
  PROVE  \E F : IsPartialSum(F, h, S)
<1> DEFINE summed == {U \in SUBSET S : \E F : IsPartialSum(F, h, U)}
<1>1. ASSUME NEW U \in SUBSET S, \A V \in SUBSET U : V # U => V \in summed
      PROVE  U \in summed
  <2> DEFINE sum(V) == SumFunctionOnSet(h, V)
             G == [s \in SUBSET U |->
                     IF s = {} THEN 0 ELSE h[First(s)] + sum(s \ {First(s)})]
  <2>1. ASSUME NEW V \in SUBSET U, V # U
        PROVE  sum(V) = IF V = {} THEN 0 ELSE h[First(V)] + sum(V \ {First(V)})
    <3> DEFINE F == CHOOSE F : IsPartialSum(F, h, V)
    <3>1. IsPartialSum(F, h, V)
      BY <1>1, <2>1
    <3>2. sum(V) = F[V]
      BY SumIsPartialSum
    <3>3. CASE V = {}
      BY <3>1, <3>2, <3>3 DEF IsPartialSum
    <3>4. CASE V # {}
      <4> DEFINE W == V \ {First(V)}
                 E == CHOOSE E : IsPartialSum(E, h, W)
      <4>1. W \in SUBSET U /\ W # U /\ W \in SUBSET V
        BY <2>1
      <4>2. IsPartialSum(E, h, W)
        BY <1>1, <4>1
      <4>3. sum(W) = E[W]
        BY SumIsPartialSum
      <4>4. IsFiniteSet(V)
        BY FS_Subset
      <4> HIDE DEF E, F, W
      <4>5. E[W] = F[W]
        BY <3>1, <4>1, <4>2, <4>4, PartialSumUnique
      <4>6. F[V] = h[First(V)] + F[W]
        BY <3>1, <3>4 DEF W, IsPartialSum
      <4> QED  BY <3>2, <3>4, <4>3, <4>5, <4>6 DEF W
    <3> QED  BY <3>3, <3>4
  <2>2. IsPartialSum(G, h, U)
    <3> SUFFICES ASSUME NEW s \in SUBSET U, s # {}
                 PROVE  G[s \ {First(s)}] = sum(s \ {First(s)})
      BY DEF IsPartialSum
    <3>1. First(s) \in s
      BY DEF First
    <3>2. s \ {First(s)} \in SUBSET U /\ s \ {First(s)} # U
      BY <3>1
    <3> HIDE DEF sum
    <3> QED  BY <2>1, <3>2
  <2> HIDE DEF G
  <2> QED  BY <2>2
<1>2. S \in summed
  <2> HIDE DEF summed
  <2> QED  BY <1>1, SubsetInduction
<1> QED  BY <1>2

\* So the sum obeys the recursion.
LEMMA SumEquation ==
  ASSUME NEW h, NEW S, IsFiniteSet(S)
  PROVE  SumFunctionOnSet(h, S) =
           IF S = {} THEN 0
           ELSE h[First(S)] + SumFunctionOnSet(h, S \ {First(S)})
<1> DEFINE F == CHOOSE F : IsPartialSum(F, h, S)
           W == S \ {First(S)}
           E == CHOOSE E : IsPartialSum(E, h, W)
<1>1. IsPartialSum(F, h, S)
  BY PartialSumExists
<1>2. IsFiniteSet(W)
  BY FS_Subset
<1>3. IsPartialSum(E, h, W)
  BY <1>2, PartialSumExists
<1>4. SumFunctionOnSet(h, S) = F[S] /\ SumFunctionOnSet(h, W) = E[W]
  BY SumIsPartialSum
<1> HIDE DEF E, F
<1>5. E[W] = F[W]
  BY <1>1, <1>3, PartialSumUnique
<1> QED  BY <1>1, <1>4, <1>5 DEF IsPartialSum

\* A sum of nothing is 0.
LEMMA SumEmpty ==
  ASSUME NEW h
  PROVE  SumFunctionOnSet(h, {}) = 0
  BY SumEquation, FS_EmptySet

\* Whole numbers make a whole number.
LEMMA SumType ==
  ASSUME NEW S, IsFiniteSet(S), NEW h, \A x \in S : h[x] \in Int
  PROVE  SumFunctionOnSet(h, S) \in Int
<1> DEFINE whole == {U \in SUBSET S : SumFunctionOnSet(h, U) \in Int}
<1>1. ASSUME NEW U \in SUBSET S, \A V \in SUBSET U : V # U => V \in whole
      PROVE  U \in whole
  <2>1. IsFiniteSet(U)
    BY FS_Subset
  <2>2. CASE U = {}
    BY <2>2, SumEmpty
  <2>3. CASE U # {}
    <3>1. First(U) \in U
      BY <2>3 DEF First
    <3> DEFINE V == U \ {First(U)}
    <3>2. SumFunctionOnSet(h, V) \in Int /\ h[First(U)] \in Int
      BY <1>1, <3>1
    <3>3. SumFunctionOnSet(h, U) = h[First(U)] + SumFunctionOnSet(h, V)
      BY <2>1, <2>3, SumEquation
    <3> HIDE DEF V
    <3> QED  BY <3>2, <3>3
  <2> QED  BY <2>2, <2>3
<1>2. S \in whole
  <2> HIDE DEF whole
  <2> QED  BY <1>1, SubsetInduction
<1> QED  BY <1>2

\* Any element may be the last to be added.
LEMMA SumOneMore ==
  ASSUME NEW S, IsFiniteSet(S), NEW h, \A y \in S : h[y] \in Int, NEW x \in S
  PROVE  SumFunctionOnSet(h, S) = SumFunctionOnSet(h, S \ {x}) + h[x]
<1> DEFINE sum(U) == SumFunctionOnSet(h, U)
           anyLast == {U \in SUBSET S : \A z \in U : sum(U) = sum(U \ {z}) + h[z]}
<1>1. \A V \in SUBSET S : IsFiniteSet(V) /\ sum(V) \in Int
  BY FS_Subset, SumType
<1>2. ASSUME NEW U \in SUBSET S, \A V \in SUBSET U : V # U => V \in anyLast,
             NEW z \in U
      PROVE  sum(U) = sum(U \ {z}) + h[z]
  <2> DEFINE c == First(U)
             W == (U \ {c}) \ {z}
  <2>1. c \in U /\ sum(U) = h[c] + sum(U \ {c})
    BY <1>1, SumEquation DEF First
  <2> HIDE DEF c, sum
  <2>2. h[c] \in Int /\ h[z] \in Int
    BY <2>1
  <2>3. CASE c = z
    BY <1>1, <2>1, <2>2, <2>3
  <2>4. CASE c # z
    <3>1. z \in U \ {c} /\ c \in U \ {z} /\ U \ {c} # U /\ U \ {z} # U
      BY <2>1, <2>4
    <3>2. sum(U \ {c}) = sum(W) + h[z]
      BY <1>2, <3>1
    <3>3. (U \ {z}) \ {c} = W
      OBVIOUS
    <3>4. sum(U \ {z}) = sum(W) + h[c]
      BY <1>2, <3>1, <3>3
    <3>5. sum(W) \in Int
      BY <1>1
    <3> HIDE DEF W
    <3> QED  BY <2>1, <2>2, <3>2, <3>4, <3>5
  <2> QED  BY <2>3, <2>4
<1>3. S \in anyLast
  <2>1. \A U \in SUBSET S : (\A V \in SUBSET U : V # U => V \in anyLast) => U \in anyLast
    <3> HIDE DEF sum
    <3> QED  BY <1>2
  <2> HIDE DEF anyLast
  <2> QED  BY <2>1, SubsetInduction
<1> QED  BY <1>3

\* Two parts that share nothing are added up one after the other.
LEMMA SumUnion ==
  ASSUME NEW A, IsFiniteSet(A), NEW B, IsFiniteSet(B), A \cap B = {},
         NEW h, \A x \in A \cup B : h[x] \in Int
  PROVE  SumFunctionOnSet(h, A \cup B) = SumFunctionOnSet(h, A) + SumFunctionOnSet(h, B)
<1> DEFINE sum(U) == SumFunctionOnSet(h, U)
           splits == {U \in SUBSET B : sum(A \cup U) = sum(A) + sum(U)}
<1>1. \A V \in SUBSET (A \cup B) : IsFiniteSet(V) /\ sum(V) \in Int
  <2>1. IsFiniteSet(A \cup B)
    BY FS_Union
  <2> QED  BY <2>1, FS_Subset, SumType
<1>2. \A V \in SUBSET (A \cup B) : \A x \in V : sum(V) = sum(V \ {x}) + h[x]
  BY <1>1, SumOneMore
<1>3. {} \in splits
  <2>1. sum({}) = 0
    BY SumEmpty
  <2>2. A \cup {} = A /\ sum(A) \in Int
    BY <1>1
  <2> HIDE DEF sum
  <2> QED  BY <2>1, <2>2
<1> HIDE DEF sum
<1>4. ASSUME NEW U \in SUBSET B, NEW x \in U, U \ {x} \in splits PROVE U \in splits
  <2> DEFINE V == U \ {x}
  <2>1. (A \cup U) \ {x} = A \cup V
    OBVIOUS
  <2>2. sum(A \cup U) = sum(A \cup V) + h[x] /\ sum(U) = sum(V) + h[x]
    BY <1>2, <2>1
  <2>3. sum(A \cup V) = sum(A) + sum(V)
    BY <1>4
  <2>4. sum(A) \in Int /\ sum(V) \in Int /\ h[x] \in Int
    BY <1>1
  <2> HIDE DEF V
  <2> QED  BY <2>2, <2>3, <2>4
<1>5. B \in splits
  <2> HIDE DEF splits
  <2> QED  BY <1>3, <1>4, OneByOneInduction
<1> QED  BY <1>5 DEF sum

\* Differences of at most c each make one of at most c for each.
LEMMA SumWithin ==
  ASSUME NEW S, IsFiniteSet(S), NEW f, NEW g, NEW k \in Int, NEW c \in Nat,
         \A x \in S : f[x] \in Int /\ g[x] \in Int /\ k * f[x] - g[x] \in (-c) .. c
  PROVE  k * SumFunctionOnSet(f, S) - SumFunctionOnSet(g, S)
           \in (-(c * Cardinality(S))) .. (c * Cardinality(S))
<1> DEFINE F(U) == SumFunctionOnSet(f, U)
           G(U) == SumFunctionOnSet(g, U)
           most(U) == c * Cardinality(U)
           near == {U \in SUBSET S : k * F(U) - G(U) \in (-most(U)) .. most(U)}
<1>1. {} \in near
  <2>1. F({}) = 0 /\ G({}) = 0 /\ Cardinality({}) = 0
    BY SumEmpty, FS_EmptySet
  <2> HIDE DEF F, G
  <2> QED  BY <2>1
<1>2. ASSUME NEW U \in SUBSET S, NEW x \in U, U \ {x} \in near PROVE U \in near
  <2> DEFINE V == U \ {x}
  <2>1. IsFiniteSet(U) /\ IsFiniteSet(V)
    BY FS_Subset
  <2>2. Cardinality(V) \in Nat /\ Cardinality(U) = Cardinality(V) + 1
    <3>1. Cardinality(V) = Cardinality(U) - 1
      BY <2>1, FS_RemoveElement
    <3>2. Cardinality(U) \in Nat /\ Cardinality(V) \in Nat
      BY <2>1, FS_CardinalityType
    <3> QED  BY <3>1, <3>2
  <2>3. F(V) \in Int /\ G(V) \in Int /\ F(U) = F(V) + f[x] /\ G(U) = G(V) + g[x]
    BY <2>1, SumOneMore, SumType
  <2>4. most(U) = most(V) + c /\ most(V) \in Int
    <3>1. \A n \in Nat : c * (n + 1) = c * n + c /\ c * n \in Int
      OBVIOUS
    <3> QED  BY <2>2, <3>1
  <2>5. f[x] \in Int /\ g[x] \in Int /\ k * f[x] - g[x] \in (-c) .. c
    OBVIOUS
  <2>6. k * F(V) - G(V) \in (-most(V)) .. most(V)
    BY <1>2
  <2> HIDE DEF F, G, most, V
  <2>7. k * F(U) = k * F(V) + k * f[x] /\ k * F(V) \in Int /\ k * f[x] \in Int
    BY <2>3, <2>5
  <2>8. k * F(U) - G(U) = (k * F(V) - G(V)) + (k * f[x] - g[x])
    BY <2>3, <2>5, <2>7
  <2>9. k * F(U) - G(U) \in (-most(U)) .. most(U)
    BY <2>3, <2>4, <2>5, <2>6, <2>7, <2>8
  <2> QED  BY <2>9
<1>3. S \in near
  <2> HIDE DEF near
  <2> QED  BY <1>1, <1>2, OneByOneInduction
<1> QED  BY <1>3

\* Adding up part by part, when each element is in exactly one.
LEMMA SumByPart ==
  ASSUME NEW S, IsFiniteSet(S), NEW h, \A x \in S : h[x] \in Int,
         NEW C, IsFiniteSet(C), NEW part, \A c \in C : part[c] \subseteq S,
         \A x \in S : \E c \in C : x \in part[c],
         \A c, d \in C : \A x \in S : x \in part[c] /\ x \in part[d] => c = d,
         NEW H, \A c \in C : H[c] = SumFunctionOnSet(h, part[c])
  PROVE  SumFunctionOnSet(H, C) = SumFunctionOnSet(h, S)
<1> DEFINE sum(U) == SumFunctionOnSet(h, U)
           In(D) == {x \in S : \E c \in D : x \in part[c]}
           total(D) == SumFunctionOnSet(H, D)
           good == {D \in SUBSET C : total(D) = sum(In(D))}
<1>1. \A T \in SUBSET S : IsFiniteSet(T) /\ sum(T) \in Int
  BY FS_Subset, SumType
<1>2. {} \in good
  <2>1. In({}) = {}
    OBVIOUS
  <2> QED  BY <2>1, SumEmpty
<1>3. ASSUME NEW D \in SUBSET C, NEW c \in D, D \ {c} \in good PROVE D \in good
  <2> DEFINE E == D \ {c}
  <2>1. IsFiniteSet(D) /\ \A d \in D : H[d] \in Int /\ H[d] = sum(part[d])
    BY <1>1, FS_Subset
  <2>2. total(D) = total(E) + H[c]
    BY <2>1, SumOneMore
  <2>3. In(D) = In(E) \cup part[c] /\ In(E) \cap part[c] = {}
    OBVIOUS
  <2>4. sum(In(D)) = sum(In(E)) + sum(part[c])
    <3>1. IsFiniteSet(In(E)) /\ IsFiniteSet(part[c])
      BY <1>1
    <3>2. \A x \in In(E) \cup part[c] : h[x] \in Int
      OBVIOUS
    <3> HIDE DEF In, E
    <3> QED  BY <2>3, <3>1, <3>2, SumUnion
  <2>5. total(E) = sum(In(E))
    BY <1>3
  <2> HIDE DEF total, sum, In, E
  <2>6. total(D) = sum(In(D))
    BY <2>1, <2>2, <2>4, <2>5
  <2> QED  BY <2>6
<1>4. C \in good
  <2> HIDE DEF good
  <2> QED  BY <1>2, <1>3, OneByOneInduction
<1>5. total(C) = sum(In(C))
  <2> HIDE DEF total, sum
  <2> QED  BY <1>4
<1>6. In(C) = S
  OBVIOUS
<1> QED  BY <1>5, <1>6

-----------------------------------------------------------------------------
(* Sequences put one after the other.                                      *)

\* F[m] is the first m of them.
IsFlattening(F, seqs, n) ==
  F = [m \in 1 .. n |-> IF m = 1 THEN seqs[m] ELSE F[m - 1] \o seqs[m]]

\* It grows by one of them at a time.
LEMMA FlatteningSteps ==
  ASSUME NEW seqs, NEW n \in Nat \ {0}, NEW F, IsFlattening(F, seqs, n)
  PROVE  /\ F[1] = seqs[1]
         /\ \A m \in Nat : 0 < m /\ m < n => F[m + 1] = F[m] \o seqs[m + 1]
<1>1. \A m \in 1 .. n : F[m] = IF m = 1 THEN seqs[m] ELSE F[m - 1] \o seqs[m]
  BY DEF IsFlattening
<1>2. F[1] = seqs[1]
  BY <1>1
<1>3. ASSUME NEW m \in Nat, 0 < m, m < n PROVE F[m + 1] = F[m] \o seqs[m + 1]
  <2>1. m + 1 \in 1 .. n /\ m + 1 # 1 /\ (m + 1) - 1 = m
    BY <1>3
  <2> QED  BY <1>1, <2>1
<1> QED  BY <1>2, <1>3

\* There is one.
LEMMA FlatteningExists ==
  ASSUME NEW seqs, NEW n \in Nat \ {0}
  PROVE  \E F : IsFlattening(F, seqs, n)
<1> DEFINE flat == {m \in 1 .. n : \E F : IsFlattening(F, seqs, m)}
<1>1. 1 \in flat
  <2>1. IsFlattening([m \in 1 .. 1 |-> seqs[m]], seqs, 1)
    BY DEF IsFlattening
  <2> QED  BY <2>1
<1>2. ASSUME NEW m \in Nat, 0 < m, m < n, m \in flat PROVE m + 1 \in flat
  <2>1. PICK F : IsFlattening(F, seqs, m)
    BY <1>2
  <2>2. \A k \in 1 .. m : F[k] = IF k = 1 THEN seqs[k] ELSE F[k - 1] \o seqs[k]
    BY <2>1, Zenon DEF IsFlattening
  <2> DEFINE next == F[m] \o seqs[m + 1]
             G == [k \in 1 .. m + 1 |-> IF k <= m THEN F[k] ELSE next]
  <2>3. ASSUME NEW k \in 1 .. m + 1
        PROVE  G[k] = IF k = 1 THEN seqs[k] ELSE G[k - 1] \o seqs[k]
    <3>0. k \in Nat /\ (k = m + 1 \/ k \in 1 .. m)
      BY <1>2
    <3>1. CASE k \in 1 .. m
      <4>1. G[k] = F[k]
        BY <1>2, <3>1
      <4>2. k # 1 => G[k - 1] = F[k - 1]
        BY <1>2, <3>1
      <4> HIDE DEF G
      <4> QED  BY <2>2, <3>1, <4>1, <4>2
    <3>2. CASE k = m + 1
      <4>0. m + 1 \in 1 .. m + 1 /\ m \in 1 .. m + 1 /\ m <= m /\ ~ (m + 1 <= m)
        BY <1>2
      <4> HIDE DEF next
      <4>1. G[m + 1] = next /\ G[m] = F[m]
        BY <4>0
      <4> USE DEF next
      <4>2. k # 1 /\ k - 1 = m
        BY <1>2, <3>2
      <4> HIDE DEF G
      <4> QED  BY <3>2, <4>1, <4>2
    <3> QED  BY <3>0, <3>1, <3>2
  <2>4. G = [k \in 1 .. m + 1 |-> IF k = 1 THEN seqs[k] ELSE G[k - 1] \o seqs[k]]
    BY <2>3
  <2> HIDE DEF G
  <2>5. IsFlattening(G, seqs, m + 1)
    BY <2>4 DEF IsFlattening
  <2>6. m + 1 \in 1 .. n
    BY <1>2
  <2> QED  BY <2>5, <2>6
<1>3. \A m \in 1 .. n : m \in flat
  <2> HIDE DEF flat
  <2> QED  BY <1>1, <1>2, CountingInduction
<1> QED  BY <1>3

\* The library's operator takes the last of one.
LEMMA FlattenEquation ==
  ASSUME NEW seqs, Len(seqs) \in Nat \ {0}
  PROVE  \E F : IsFlattening(F, seqs, Len(seqs)) /\ FlattenSeq(seqs) = F[Len(seqs)]
<1> DEFINE F == CHOOSE F : IsFlattening(F, seqs, Len(seqs))
<1>1. IsFlattening(F, seqs, Len(seqs))
  BY FlatteningExists
<1>2. FlattenSeq(seqs) = F[Len(seqs)]
  BY DEF FlattenSeq, IsFlattening
<1> QED  BY <1>1, <1>2

\* A sequence after another.
LEMMA Concatenated ==
  ASSUME NEW S, NEW s \in Seq(S), NEW t \in Seq(S)
  PROVE  /\ s \o t \in Seq(S)
         /\ Len(s) \in Nat /\ Len(t) \in Nat
         /\ Len(s \o t) = Len(s) + Len(t)
         /\ \A k \in DOMAIN (s \o t) :
              \/ k \in DOMAIN s /\ (s \o t)[k] = s[k]
              \/ k > Len(s) /\ k - Len(s) \in DOMAIN t /\ (s \o t)[k] = t[k - Len(s)]
<1>1. /\ s \o t \in Seq(S) /\ Len(s) \in Nat /\ Len(t) \in Nat
      /\ Len(s \o t) = Len(s) + Len(t)
  OBVIOUS
<1>2. ASSUME NEW k \in DOMAIN (s \o t), k <= Len(s)
      PROVE  k \in DOMAIN s /\ (s \o t)[k] = s[k]
  BY <1>2
<1>3. ASSUME NEW k \in DOMAIN (s \o t), k > Len(s)
      PROVE  k - Len(s) \in DOMAIN t /\ (s \o t)[k] = t[k - Len(s)]
  BY <1>3
<1>4. \A k \in DOMAIN (s \o t) : k \in Nat
  OBVIOUS
<1> QED  BY <1>1, <1>2, <1>3, <1>4

\* Nothing is in the whole that is not in a part.
LEMMA FlattenParts ==
  ASSUME NEW S, NEW seqs \in Seq(Seq(S))
  PROVE  /\ FlattenSeq(seqs) \in Seq(S)
         /\ \A k \in DOMAIN FlattenSeq(seqs) :
              \E i \in DOMAIN seqs : \E j \in DOMAIN seqs[i] :
                FlattenSeq(seqs)[k] = seqs[i][j]
<1> DEFINE n == Len(seqs)
           comes(x) == \E i \in DOMAIN seqs : \E j \in DOMAIN seqs[i] : x = seqs[i][j]
<1>1. CASE n = 0
  <2>1. FlattenSeq(seqs) = seqs
    BY <1>1 DEF FlattenSeq
  <2>2. seqs = <<>>
    BY <1>1
  <2>3. <<>> \in Seq(S) /\ DOMAIN <<>> = {}
    OBVIOUS
  <2> QED  BY <2>1, <2>2, <2>3
<1>2. CASE n # 0
  <2>1. n \in Nat /\ DOMAIN seqs = 1 .. n /\ \A m \in 1 .. n : seqs[m] \in Seq(S)
    OBVIOUS
  <2>2. PICK F : IsFlattening(F, seqs, n) /\ FlattenSeq(seqs) = F[n]
    BY <1>2, <2>1, FlattenEquation
  <2> DEFINE good == {m \in 1 .. n : F[m] \in Seq(S) /\ \A k \in DOMAIN F[m] : comes(F[m][k])}
  <2>0. n \in Nat \ {0}
    BY <1>2, <2>1
  <2> HIDE DEF n
  <2>a. F[1] = seqs[1] /\ \A m \in Nat : 0 < m /\ m < n => F[m + 1] = F[m] \o seqs[m + 1]
    <3>1. IsFlattening(F, seqs, n)
      BY <2>2
    <3> QED  BY <2>0, <3>1, FlatteningSteps, Zenon
  <2>3. 1 \in good
    <3>1. 1 \in 1 .. n /\ F[1] = seqs[1]
      BY <2>0, <2>a
    <3> QED  BY <2>1, <3>1
  <2>4. ASSUME NEW m \in Nat, 0 < m, m < n, m \in good PROVE m + 1 \in good
    <3>1. m + 1 \in 1 .. n /\ F[m + 1] = F[m] \o seqs[m + 1]
      <4>1. m + 1 \in 1 .. n
        BY <2>0, <2>4
      <4>2. F[m + 1] = F[m] \o seqs[m + 1]
        BY <2>a, <2>4, Zenon
      <4> QED  BY <4>1, <4>2
    <3>2. F[m] \in Seq(S) /\ seqs[m + 1] \in Seq(S) /\ \A k \in DOMAIN F[m] : comes(F[m][k])
      BY <2>1, <2>4, <3>1
    <3> DEFINE s == F[m]
               t == seqs[m + 1]
    <3>3. ASSUME NEW k \in DOMAIN (s \o t) PROVE comes((s \o t)[k])
      <4>1. CASE k \in DOMAIN s /\ (s \o t)[k] = s[k]
        BY <3>2, <4>1
      <4>2. CASE k - Len(s) \in DOMAIN t /\ (s \o t)[k] = t[k - Len(s)]
        BY <2>1, <3>1, <4>2
      <4>3. s \in Seq(S) /\ t \in Seq(S)
        BY <3>2
      <4> HIDE DEF s, t
      <4> QED  BY <3>3, <4>1, <4>2, <4>3, Concatenated
    <3>4. s \o t \in Seq(S)
      BY <3>2
    <3> HIDE DEF comes
    <3> QED  BY <3>1, <3>3, <3>4
  <2>5. \A m \in 1 .. n : m \in good
    <3> HIDE DEF good
    <3> QED  BY <2>1, <2>3, <2>4, CountingInduction
  <2>6. n \in good
    BY <1>2, <2>1, <2>5
  <2> QED  BY <2>2, <2>6
<1> QED  BY <1>1, <1>2

\* Parts that are not empty: as many as the whole is long only if each has one
\* element, and then the whole lists them.
LEMMA FlattenOnes ==
  ASSUME NEW S, NEW seqs \in Seq(Seq(S)), \A i \in DOMAIN seqs : seqs[i] # <<>>,
         Len(FlattenSeq(seqs)) = Len(seqs)
  PROVE  \A i \in DOMAIN seqs : FlattenSeq(seqs)[i] = seqs[i][1]
<1> DEFINE n == Len(seqs)
<1>1. CASE n = 0
  BY <1>1
<1>2. CASE n # 0
  <2>1. n \in Nat /\ DOMAIN seqs = 1 .. n
        /\ \A m \in 1 .. n : seqs[m] \in Seq(S) /\ seqs[m] # <<>>
    OBVIOUS
  <2>2. PICK F : IsFlattening(F, seqs, n) /\ FlattenSeq(seqs) = F[n]
    BY <1>2, <2>1, FlattenEquation
  <2>3. Len(F[n]) = n
    BY <2>2
  <2> DEFINE good == {m \in 1 .. n :
                        /\ F[m] \in Seq(S) /\ Len(F[m]) >= m
                        /\ Len(F[m]) = m => \A i \in 1 .. m : F[m][i] = seqs[i][1]}
  <2>0. n \in Nat \ {0}
    BY <1>2, <2>1
  <2> HIDE DEF n
  <2>a. F[1] = seqs[1] /\ \A m \in Nat : 0 < m /\ m < n => F[m + 1] = F[m] \o seqs[m + 1]
    <3>1. IsFlattening(F, seqs, n)
      BY <2>2
    <3> QED  BY <2>0, <3>1, FlatteningSteps, Zenon
  <2>4. \A s \in Seq(S) : s # <<>> => Len(s) \in Nat /\ Len(s) >= 1
    OBVIOUS
  <2>5. 1 \in good
    <3>1. 1 \in 1 .. n /\ F[1] = seqs[1]
      BY <2>0, <2>a
    <3> QED  BY <2>1, <2>4, <3>1
  <2>6. ASSUME NEW m \in Nat, 0 < m, m < n, m \in good PROVE m + 1 \in good
    <3>1. m + 1 \in 1 .. n /\ F[m + 1] = F[m] \o seqs[m + 1]
      <4>1. m + 1 \in 1 .. n
        BY <2>0, <2>6
      <4>2. F[m + 1] = F[m] \o seqs[m + 1]
        BY <2>a, <2>6, Zenon
      <4> QED  BY <4>1, <4>2
    <3> DEFINE s == F[m]
               t == seqs[m + 1]
    <3>2. s \in Seq(S) /\ t \in Seq(S) /\ Len(s) >= m /\ Len(t) >= 1
          /\ Len(s) \in Nat /\ Len(t) \in Nat
      BY <2>1, <2>4, <2>6, <3>1
    <3> HIDE DEF s, t
    <3>3. s \o t \in Seq(S) /\ Len(s \o t) = Len(s) + Len(t)
      BY <3>2, Concatenated
    <3>4. ASSUME Len(s \o t) = m + 1, NEW i \in 1 .. m + 1 PROVE (s \o t)[i] = seqs[i][1]
      <4>1. Len(s) = m /\ Len(t) = 1
        <5>1. Len(s) + Len(t) = m + 1
          BY <3>3, <3>4
        <5>2. \A a, b \in Nat : a >= m /\ b >= 1 /\ a + b = m + 1 => a = m /\ b = 1
          OBVIOUS
        <5> QED  BY <3>2, <5>1, <5>2
      <4>2. DOMAIN (s \o t) = 1 .. m + 1 /\ DOMAIN s = 1 .. m /\ DOMAIN t = 1 .. 1
        BY <3>2, <3>3, <3>4, <4>1
      <4>3. CASE i \in DOMAIN s /\ (s \o t)[i] = s[i]
        BY <2>6, <4>1, <4>2, <4>3 DEF s
      <4>4. CASE i > Len(s) /\ i - Len(s) \in DOMAIN t /\ (s \o t)[i] = t[i - Len(s)]
        <5>1. i = m + 1 /\ i - Len(s) = 1
          BY <2>6, <4>1, <4>2, <4>4
        <5> QED  BY <4>4, <5>1 DEF t
      <4> QED  BY <3>2, <4>2, <4>3, <4>4, Concatenated
    <3>5. Len(s \o t) >= m + 1
      BY <3>2, <3>3
    <3> QED  BY <3>1, <3>3, <3>4, <3>5 DEF s, t
  <2>7. \A m \in 1 .. n : m \in good
    <3> HIDE DEF good
    <3> QED  BY <2>1, <2>5, <2>6, CountingInduction
  <2>8. n \in good
    BY <1>2, <2>1, <2>7
  <2> QED  BY <2>1, <2>2, <2>3, <2>8
<1> QED  BY <1>1, <1>2

-----------------------------------------------------------------------------
(* Sequences that list a set of numbers in ascending order.                *)

Ascends(s) == \A i, j \in DOMAIN s : i < j => s[i] < s[j]

ListsUp(s, H) ==
  /\ s \in Seq(Nat) /\ Ascends(s)
  /\ \A i \in DOMAIN s : s[i] \in H
  /\ \A h \in H : \E i \in DOMAIN s : s[i] = h

\* A list of higher numbers may follow.
LEMMA ListsFollow ==
  ASSUME NEW s, NEW t, NEW H \in SUBSET Nat, NEW K \in SUBSET Nat,
         ListsUp(s, H), ListsUp(t, K), \A h \in H : \A k \in K : h < k
  PROVE  ListsUp(s \o t, H \cup K)
<1> DEFINE u == s \o t
<1>1. s \in Seq(Nat) /\ t \in Seq(Nat)
  BY DEF ListsUp
<1>2. /\ u \in Seq(Nat) /\ Len(s) \in Nat /\ Len(t) \in Nat
      /\ DOMAIN s = 1 .. Len(s) /\ DOMAIN t = 1 .. Len(t)
      /\ DOMAIN u = 1 .. Len(s) + Len(t)
  BY <1>1
<1>3. ASSUME NEW i \in DOMAIN s PROVE i \in DOMAIN u /\ u[i] = s[i]
  BY <1>1
<1>4. ASSUME NEW i \in DOMAIN t PROVE i + Len(s) \in DOMAIN u /\ u[i + Len(s)] = t[i]
  BY <1>1
<1>5. ASSUME NEW i \in DOMAIN u
      PROVE  \/ i \in DOMAIN s /\ u[i] = s[i]
             \/ i > Len(s) /\ i - Len(s) \in DOMAIN t /\ u[i] = t[i - Len(s)]
  BY <1>1, Concatenated
<1> HIDE DEF u
<1>6. \A i \in DOMAIN u : u[i] \in H \cup K
  BY <1>5 DEF ListsUp
<1>7. \A h \in H \cup K : \E i \in DOMAIN u : u[i] = h
  <2>1. \A h \in H : \E i \in DOMAIN u : u[i] = h
    BY <1>3 DEF ListsUp
  <2>2. ASSUME NEW h \in K PROVE \E i \in DOMAIN u : u[i] = h
    <3>1. PICK i \in DOMAIN t : t[i] = h
      BY DEF ListsUp
    <3> QED  BY <1>4, <3>1
  <2> QED  BY <2>1, <2>2
<1>8. ASSUME NEW i \in DOMAIN u, NEW j \in DOMAIN u, i < j PROVE u[i] < u[j]
  <2>1. CASE i \in DOMAIN s /\ j \in DOMAIN s
    <3>1. u[i] = s[i] /\ u[j] = s[j]
      BY <1>3, <2>1
    <3> QED  BY <1>8, <2>1, <3>1 DEF ListsUp, Ascends
  <2>2. CASE i \in DOMAIN s /\ j \notin DOMAIN s
    <3>1. u[i] = s[i] /\ u[j] = t[j - Len(s)] /\ j - Len(s) \in DOMAIN t
      BY <1>3, <1>5, <2>2
    <3>2. u[i] \in H /\ u[j] \in K
      BY <2>2, <3>1 DEF ListsUp
    <3> QED  BY <3>2
  <2>3. CASE i \notin DOMAIN s
    <3>1. i \in Nat /\ j \in Nat /\ i > Len(s) /\ j > Len(s)
      BY <1>2, <1>8, <2>3
    <3>2. j \notin DOMAIN s
      BY <1>2, <3>1
    <3>3. /\ i - Len(s) \in DOMAIN t /\ u[i] = t[i - Len(s)]
          /\ j - Len(s) \in DOMAIN t /\ u[j] = t[j - Len(s)]
      BY <1>5, <2>3, <3>2
    <3>4. i - Len(s) < j - Len(s)
      BY <1>2, <1>8, <3>1
    <3> QED  BY <3>3, <3>4 DEF ListsUp, Ascends
  <2> QED  BY <2>1, <2>2, <2>3
<1> QED  BY <1>2, <1>6, <1>7, <1>8 DEF ListsUp, Ascends, u

\* A list is as long as its set is large.
LEMMA ListLength ==
  ASSUME NEW s, NEW H, ListsUp(s, H)
  PROVE  Len(s) = Cardinality(H) /\ Len(s) \in Nat
<1> DEFINE n == Len(s)
<1>1. s \in Seq(Nat) /\ n \in Nat /\ DOMAIN s = 1 .. n
  BY DEF ListsUp
<1>2. s \in [1 .. n -> H]
  <2>1. s = [i \in 1 .. n |-> s[i]]
    BY <1>1
  <2> HIDE DEF n
  <2> QED  BY <1>1, <2>1 DEF ListsUp
<1>3. \A i \in 1 .. n : s[i] \in Nat
  BY <1>1
<1> HIDE DEF n
<1>4. ASSUME NEW i \in 1 .. n, NEW j \in 1 .. n, s[i] = s[j] PROVE i = j
  <2>1. ~ (s[i] < s[j]) /\ ~ (s[j] < s[i])
    BY <1>3, <1>4
  <2>2. ~ (i < j) /\ ~ (j < i)
    BY <1>1, <2>1 DEF ListsUp, Ascends
  <2> QED  BY <1>1, <2>2
<1>5. s \in Injection(1 .. n, H)
  BY <1>1, <1>2, <1>4, Zenon DEF Injection, IsInjective
<1>6. s \in Surjection(1 .. n, H)
  BY <1>1, <1>2, Zenon DEF Surjection, ListsUp
<1>7. ExistsBijection(1 .. n, H)
  BY <1>5, <1>6 DEF ExistsBijection, Bijection
<1>8. IsFiniteSet(1 .. n) /\ Cardinality(1 .. n) = n
  BY <1>1, FS_Interval
<1>9. Cardinality(H) = Cardinality(1 .. n)
  BY <1>7, <1>8, FS_Bijection
<1> QED  BY <1>1, <1>8, <1>9 DEF n

\* The first k of a list are the k lowest.
LEMMA ListStart ==
  ASSUME NEW s, NEW H \in SUBSET Nat, ListsUp(s, H), NEW k \in 0 .. Len(s)
  PROVE  LET start == SubSeq(s, 1, k)
             listed == {start[i] : i \in DOMAIN start}
         IN /\ Len(start) = k
            /\ listed \subseteq H
            /\ Ascends(start)
            /\ \A h \in H \ listed, other \in listed : h > other
<1> DEFINE start == SubSeq(s, 1, k)
           listed == {start[i] : i \in DOMAIN start}
<1>1. s \in Seq(Nat) /\ k \in Nat /\ k <= Len(s) /\ Len(s) \in Nat /\ DOMAIN s = 1 .. Len(s)
  BY DEF ListsUp
<1>2. Len(start) = k /\ DOMAIN start = 1 .. k
  BY <1>1
<1>3. \A i \in 1 .. k : i \in DOMAIN s /\ start[i] = s[i]
  BY <1>1
<1> HIDE DEF start
<1>4. listed \subseteq H
  BY <1>2, <1>3 DEF ListsUp
<1>5. Ascends(start)
  BY <1>2, <1>3 DEF ListsUp, Ascends
<1>6. ASSUME NEW h \in H \ listed, NEW other \in listed PROVE h > other
  <2>1. PICK i \in 1 .. k : other = s[i]
    BY <1>2, <1>3
  <2>2. PICK j \in DOMAIN s : h = s[j]
    BY DEF ListsUp
  <2>3. j \notin 1 .. k
    BY <1>2, <1>3, <2>2
  <2>4. i < j /\ i \in DOMAIN s
    BY <1>1, <1>3, <2>3
  <2>5. s[i] < s[j]
    BY <2>4 DEF ListsUp, Ascends
  <2>6. s[i] \in Nat /\ s[j] \in Nat
    BY <1>1, <2>4
  <2> QED  BY <2>1, <2>2, <2>5, <2>6
<1> QED  BY <1>2, <1>4, <1>5, <1>6 DEF start
=============================================================================
