------------------------------ MODULE SumProofs ------------------------------
(***************************************************************************)
(* The sum of a function over a finite set, SumFunctionOnSet of the        *)
(* community module Functions, grows by the value of each element that is  *)
(* added.  The sum folds along a recursive function on the subsets; the    *)
(* proofs look at a smallest subset that violates a claim.                 *)
(***************************************************************************)
EXTENDS Functions, FiniteSetTheorems, TLAPS

\* A nonempty family of subsets of a finite set has a minimal member.
LEMMA MinimalSubset ==
  ASSUME NEW S, IsFiniteSet(S), NEW B \in SUBSET (SUBSET S), B # {}
  PROVE  \E T \in B : \A U \in B : U \subseteq T => U = T
<1>1. IsWellFoundedOn(StrictSubsetOrdering(S), SUBSET S)
  BY FS_StrictSubsetOrderingWellFounded, FS_FiniteSubsetsOfFinite
<1>2. PICK T \in B : \A U \in B : ~(<<U, T>> \in StrictSubsetOrdering(S))
  BY <1>1, WFMin
<1>3. ASSUME NEW U \in B, U \subseteq T PROVE U = T
  BY <1>2, <1>3 DEF StrictSubsetOrdering
<1> QED
  BY <1>3

Chosen(T) == CHOOSE x \in T : TRUE

\* g adds up f over the subsets of S the way SumFunctionOnSet does.
Sums(g, f, S) ==
  g = [T \in SUBSET S |->
         IF T = {} THEN 0 ELSE f[Chosen(T)] + g[T \ {Chosen(T)}]]

\* Two such functions agree wherever both are defined.
LEMMA SumsAgree ==
  ASSUME NEW f, NEW g, NEW h, NEW S, NEW R, IsFiniteSet(S),
         Sums(g, f, S), Sums(h, f, R),
         NEW T \in SUBSET S, T \subseteq R
  PROVE  g[T] = h[T]
<1> DEFINE B == {U \in SUBSET S : U \subseteq R /\ g[U] # h[U]}
<1> SUFFICES ASSUME B # {} PROVE FALSE
  OBVIOUS
<1>1. PICK U \in B : \A V \in B : V \subseteq U => V = U
  <2>1. B \in SUBSET (SUBSET S)
    OBVIOUS
  <2> HIDE DEF B
  <2> QED
    BY <2>1, MinimalSubset
<1>2. g[U] = IF U = {} THEN 0 ELSE f[Chosen(U)] + g[U \ {Chosen(U)}]
  BY DEF Sums
<1>3. h[U] = IF U = {} THEN 0 ELSE f[Chosen(U)] + h[U \ {Chosen(U)}]
  BY DEF Sums
<1>4. U # {} => Chosen(U) \in U
  BY DEF Chosen
<1>5. U # {} => g[U \ {Chosen(U)}] = h[U \ {Chosen(U)}]
  BY <1>1, <1>4
<1> QED
  BY <1>1, <1>2, <1>3, <1>5

\* There is one for every finite set.
LEMMA SumsExist ==
  ASSUME NEW f, NEW S, IsFiniteSet(S)
  PROVE  \E g : Sums(g, f, S)
<1> DEFINE B == {T \in SUBSET S : ~ \E g : Sums(g, f, T)}
<1> SUFFICES ASSUME B # {} PROVE FALSE
  OBVIOUS
<1>1. PICK T \in B : \A U \in B : U \subseteq T => U = T
  <2>1. B \in SUBSET (SUBSET S)
    OBVIOUS
  <2> HIDE DEF B
  <2> QED
    BY <2>1, MinimalSubset
<1> DEFINE G(W) == CHOOSE g : Sums(g, f, W)
           h == [U \in SUBSET T |->
                   IF U = {} THEN 0
                   ELSE f[Chosen(U)] + G(U \ {Chosen(U)})[U \ {Chosen(U)}]]
<1>2. \A W \in SUBSET T : W # T => Sums(G(W), f, W)
  BY <1>1
<1>3. ASSUME NEW W \in SUBSET T, W # T PROVE h[W] = G(W)[W]
  <2>1. Sums(G(W), f, W)
    BY <1>2, <1>3
  <2>2. G(W)[W] = IF W = {} THEN 0 ELSE f[Chosen(W)] + G(W)[W \ {Chosen(W)}]
    <3> HIDE DEF G
    <3> QED
      BY <2>1 DEF Sums
  <2>3. CASE W # {}
    <3>1. Chosen(W) \in W
      BY <2>3 DEF Chosen
    <3>2. Sums(G(W \ {Chosen(W)}), f, W \ {Chosen(W)})
      BY <1>2, <3>1
    <3>3. IsFiniteSet(W)
      BY FS_Subset
    <3> HIDE DEF G
    <3>4. G(W)[W \ {Chosen(W)}] = G(W \ {Chosen(W)})[W \ {Chosen(W)}]
      BY <2>1, <3>2, <3>3, SumsAgree
    <3> QED
      BY <2>2, <2>3, <3>4
  <2> HIDE DEF G
  <2> QED
    BY <2>2, <2>3
<1>4. ASSUME NEW U \in SUBSET T, U # {}
      PROVE  h[U] = f[Chosen(U)] + h[U \ {Chosen(U)}]
  <2>1. Chosen(U) \in U
    BY <1>4 DEF Chosen
  <2>2. h[U] = f[Chosen(U)] + G(U \ {Chosen(U)})[U \ {Chosen(U)}]
    <3> HIDE DEF G
    <3> QED
      BY <1>4
  <2>3. U \ {Chosen(U)} \in SUBSET T /\ U \ {Chosen(U)} # T
    BY <2>1
  <2> HIDE DEF G, h
  <2> QED
    BY <1>3, <2>2, <2>3
<1>5. h[{}] = 0 /\ h = [U \in SUBSET T |-> h[U]]
  <2> HIDE DEF G
  <2> QED
    OBVIOUS
<1> HIDE DEF h
<1>6. Sums(h, f, T)
  BY <1>4, <1>5 DEF Sums
<1> QED
  BY <1>1, <1>6

\* SumFunctionOnSet is the value of any of them.
LEMMA SumIsUnique ==
  ASSUME NEW f, NEW S, IsFiniteSet(S), NEW g, Sums(g, f, S)
  PROVE  SumFunctionOnSet(f, S) = g[S]
<1> DEFINE h == CHOOSE i : Sums(i, f, S)
<1>1. SumFunctionOnSet(f, S) = h[S]
  BY DEF SumFunctionOnSet, FoldFunctionOnSet, MapThenFoldSet, Sums, Chosen
<1>2. Sums(h, f, S)
  BY SumsExist
<1> HIDE DEF h
<1>3. h[S] = g[S]
  BY <1>2, SumsAgree
<1> QED
  BY <1>1, <1>3

\* The sum over no element is 0.
LEMMA SumOfNone ==
  ASSUME NEW f
  PROVE  SumFunctionOnSet(f, {}) = 0
<1>1. PICK g : Sums(g, f, {})
  BY SumsExist, FS_EmptySet
<1>2. g[{}] = 0
  BY <1>1 DEF Sums
<1> QED
  BY <1>1, <1>2, SumIsUnique, FS_EmptySet

\* The sum is that of the chosen element and the others.
LEMMA SumOfChosen ==
  ASSUME NEW f, NEW S, IsFiniteSet(S), S # {}
  PROVE  SumFunctionOnSet(f, S) =
           f[Chosen(S)] + SumFunctionOnSet(f, S \ {Chosen(S)})
<1> DEFINE R == S \ {Chosen(S)}
<1>1. IsFiniteSet(R) /\ R \in SUBSET S
  BY FS_Subset
<1>2. PICK g : Sums(g, f, S)
  BY SumsExist
<1>3. PICK h : Sums(h, f, R)
  BY <1>1, SumsExist
<1>4. g[S] = f[Chosen(S)] + g[R]
  BY <1>2 DEF Sums
<1>5. g[R] = h[R]
  <2> HIDE DEF R
  <2> QED
    BY <1>1, <1>2, <1>3, SumsAgree
<1> HIDE DEF R
<1>6. SumFunctionOnSet(f, S) = g[S] /\ SumFunctionOnSet(f, R) = h[R]
  BY <1>1, <1>2, <1>3, SumIsUnique
<1> QED
  BY <1>4, <1>5, <1>6 DEF R

\* A sum of integers is an integer.
LEMMA SumIsInt ==
  ASSUME NEW f, NEW S, IsFiniteSet(S), \A x \in S : f[x] \in Int
  PROVE  SumFunctionOnSet(f, S) \in Int
<1> DEFINE B == {T \in SUBSET S : SumFunctionOnSet(f, T) \notin Int}
<1> SUFFICES ASSUME B # {} PROVE FALSE
  OBVIOUS
<1>1. PICK T \in B : \A U \in B : U \subseteq T => U = T
  <2>1. B \in SUBSET (SUBSET S)
    OBVIOUS
  <2> HIDE DEF B
  <2> QED
    BY <2>1, MinimalSubset
<1>2. T # {} /\ IsFiniteSet(T)
  <2>1. SumFunctionOnSet(f, {}) \in Int
    BY SumOfNone
  <2> QED
    BY <1>1, <2>1, FS_Subset
<1>3. Chosen(T) \in T
  BY <1>2 DEF Chosen
<1>4. SumFunctionOnSet(f, T \ {Chosen(T)}) \in Int
  BY <1>1, <1>3
<1>5. SumFunctionOnSet(f, T) = f[Chosen(T)] + SumFunctionOnSet(f, T \ {Chosen(T)})
  BY <1>2, SumOfChosen
<1> QED
  BY <1>1, <1>3, <1>4, <1>5

\* Whichever element is added, the sum grows by its value.
LEMMA SumAdd ==
  ASSUME NEW f, NEW S, IsFiniteSet(S), NEW x, x \notin S,
         \A y \in S \union {x} : f[y] \in Int
  PROVE  SumFunctionOnSet(f, S \union {x}) = f[x] + SumFunctionOnSet(f, S)
<1> DEFINE All == S \union {x}
           Grows(T, y) == SumFunctionOnSet(f, T \union {y}) =
                            f[y] + SumFunctionOnSet(f, T)
           B == {T \in SUBSET All : \E y \in All \ T : ~Grows(T, y)}
<1> SUFFICES ASSUME B # {} PROVE FALSE
  OBVIOUS
<1>1. IsFiniteSet(All)
  BY FS_AddElement
<1>2. PICK T \in B : \A U \in B : U \subseteq T => U = T
  <2>1. B \in SUBSET (SUBSET All)
    OBVIOUS
  <2> HIDE DEF B, All
  <2> QED
    BY <1>1, <2>1, MinimalSubset
<1>3. PICK y \in All \ T : ~Grows(T, y)
  BY <1>2
<1> DEFINE c == Chosen(T \union {y})
<1>4. c \in T \union {y}
  BY DEF Chosen
<1>5. \A U \in SUBSET All : IsFiniteSet(U)
  BY <1>1, FS_Subset
<1>6. SumFunctionOnSet(f, T \union {y}) =
        f[c] + SumFunctionOnSet(f, (T \union {y}) \ {c})
  BY <1>2, <1>3, <1>5, SumOfChosen
<1>7. c # y
  <2> SUFFICES ASSUME c = y PROVE FALSE
    OBVIOUS
  <2>1. (T \union {y}) \ {y} = T
    BY <1>3
  <2> QED
    BY <1>3, <1>6, <2>1
<1> DEFINE R == T \ {c}
<1>8. R \in SUBSET All /\ R \notin B /\ c \in All \ R /\ y \in All \ R
  BY <1>2, <1>3, <1>4, <1>7
<1>9. R \union {c} = T /\ (T \union {y}) \ {c} = R \union {y}
  BY <1>4, <1>7
<1> HIDE DEF c, R
<1>10. Grows(R, c) /\ Grows(R, y)
  BY <1>8
<1>11. /\ SumFunctionOnSet(f, T) = f[c] + SumFunctionOnSet(f, R)
       /\ SumFunctionOnSet(f, T \union {y}) =
            f[c] + (f[y] + SumFunctionOnSet(f, R))
  BY <1>6, <1>9, <1>10
<1>12. f[c] \in Int /\ f[y] \in Int /\ SumFunctionOnSet(f, R) \in Int
  BY <1>5, <1>8, SumIsInt
<1> QED
  BY <1>3, <1>11, <1>12

\* Functions that agree on a set have the same sum over it.
LEMMA SumAgrees ==
  ASSUME NEW f, NEW g, NEW S, IsFiniteSet(S), \A x \in S : f[x] = g[x]
  PROVE  SumFunctionOnSet(f, S) = SumFunctionOnSet(g, S)
<1> DEFINE B == {T \in SUBSET S : SumFunctionOnSet(f, T) # SumFunctionOnSet(g, T)}
<1> SUFFICES ASSUME B # {} PROVE FALSE
  OBVIOUS
<1>1. PICK T \in B : \A U \in B : U \subseteq T => U = T
  <2>1. B \in SUBSET (SUBSET S)
    OBVIOUS
  <2> HIDE DEF B
  <2> QED
    BY <2>1, MinimalSubset
<1>2. T # {} /\ IsFiniteSet(T)
  BY <1>1, SumOfNone, FS_Subset
<1>3. Chosen(T) \in T
  BY <1>2 DEF Chosen
<1>4. SumFunctionOnSet(f, T \ {Chosen(T)}) = SumFunctionOnSet(g, T \ {Chosen(T)})
  BY <1>1, <1>3
<1>5. /\ SumFunctionOnSet(f, T) = f[Chosen(T)] + SumFunctionOnSet(f, T \ {Chosen(T)})
      /\ SumFunctionOnSet(g, T) = g[Chosen(T)] + SumFunctionOnSet(g, T \ {Chosen(T)})
  BY <1>2, SumOfChosen
<1> QED
  BY <1>1, <1>3, <1>4, <1>5

=============================================================================
