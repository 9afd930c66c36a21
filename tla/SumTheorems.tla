---------------------------- MODULE SumTheorems ----------------------------
(***************************************************************************)
(* Facts about SumFunctionOnSet of the community modules, by which the     *)
(* history tables and the reconciliation of files are summed.  A function  *)
(* is summed over a finite set, in whatever order its elements are chosen. *)
(***************************************************************************)
EXTENDS Integers, FiniteSets, Functions, FiniteSetTheorems, WellFoundedInduction, TLAPS

-----------------------------------------------------------------------------
(* Induction over the subsets of a finite set, the property given as the set *)
(* of those that have it.                                                    *)

LEMMA SetInduction ==
  ASSUME NEW S, IsFiniteSet(S), NEW Good,
         \A T \in SUBSET S : (\A U \in SUBSET T : U # T => U \in Good) => T \in Good
  PROVE  S \in Good
<1> SUFFICES ASSUME S \notin Good
             PROVE  FALSE
  OBVIOUS
<1> DEFINE Bad == (SUBSET S) \ Good
<1>1. Bad # {}
  OBVIOUS
<1>2. Bad \subseteq FiniteSubsetsOf(S)
  BY FS_Subset DEF FiniteSubsetsOf
<1>3. IsWellFoundedOn(StrictSubsetOrdering(S), FiniteSubsetsOf(S))
  BY FS_StrictSubsetOrderingWellFounded
<1> HIDE DEF Bad
<1>4. PICK T \in Bad : \A U \in Bad : <<U, T>> \notin StrictSubsetOrdering(S)
  BY <1>1, <1>2, <1>3, WFMin
<1> USE DEF Bad
<1>5. \A U \in SUBSET T : U # T => U \in Good
  BY <1>4 DEF StrictSubsetOrdering
<1> QED
  BY <1>4, <1>5

\* What is so of 0, and of each number after one that it is so of, is so up to m.
LEMMA UpTo ==
  ASSUME NEW m \in Nat, NEW Good, 0 \in Good,
         \A i \in 0..(m - 1) : i \in Good => i + 1 \in Good
  PROVE  m \in Good
<1> DEFINE S == 0..m
           Fine == {T \in SUBSET S : \A j \in 0..m : T = 0..j => j \in Good}
<1>1. ASSUME NEW T \in SUBSET S, \A U \in SUBSET T : U # T => U \in Fine
      PROVE  T \in Fine
  <2> SUFFICES ASSUME NEW j \in 0..m, T = 0..j
               PROVE  j \in Good
    OBVIOUS
  <2>1. CASE j = 0
    BY <2>1
  <2>2. CASE j # 0
    <3>1. 0..(j - 1) \in SUBSET T /\ 0..(j - 1) # T /\ j - 1 \in 0..m
      BY <2>2
    <3>2. j - 1 \in Good
      BY <1>1, <3>1
    <3> QED
      BY <2>2, <3>2
  <2> QED
    BY <2>1, <2>2
<1>2. IsFiniteSet(S)
  BY FS_Interval
<1> HIDE DEF S, Fine
<1>3. S \in Fine
  BY <1>1, <1>2, SetInduction
<1> QED
  BY <1>3 DEF S, Fine

\* A set of numbers has a least one.
LEMMA Least ==
  ASSUME NEW S \in SUBSET Nat, NEW n \in S
  PROVE  \E m \in S : \A k \in S : m <= k
<1> SUFFICES ASSUME \A m \in S : \E k \in S : k < m
             PROVE  FALSE
  OBVIOUS
<1> DEFINE Good == {i \in Nat : \A k \in S : k > i}
<1>1. 0 \in Good
  OBVIOUS
<1>2. ASSUME NEW i \in 0..(n - 1), i \in Good
      PROVE  i + 1 \in Good
  <2>1. \A k \in S : k >= i + 1
    BY <1>2
  <2>2. i + 1 \notin S
    BY <2>1
  <2> QED
    BY <2>1, <2>2
<1> HIDE DEF Good
<1>3. n \in Good
  BY <1>1, <1>2, UpTo
<1> QED
  BY <1>3 DEF Good

-----------------------------------------------------------------------------
(* The function that the fold is the value of.                              *)

Chosen(s) == CHOOSE x \in s : TRUE

Rest(s) == s \ {Chosen(s)}

\* g sums f over the subsets of S.
Sums(g, f, S) ==
  g = [s \in SUBSET S |-> IF s = {} THEN 0 ELSE f[Chosen(s)] + g[s \ {Chosen(s)}]]

LEMMA SumIsSums ==
  ASSUME NEW f, NEW S
  PROVE  SumFunctionOnSet(f, S) = (CHOOSE g : Sums(g, f, S))[S]
BY Zenon DEF Sums, Chosen, SumFunctionOnSet, FoldFunctionOnSet, MapThenFoldSet

\* What remains of a set is smaller.
LEMMA RestIsLess ==
  ASSUME NEW s, s # {}
  PROVE  Chosen(s) \in s /\ Rest(s) \subseteq s /\ Rest(s) # s
BY DEF Chosen, Rest

LEMMA SumsUnfold ==
  ASSUME NEW f, NEW S, NEW g, Sums(g, f, S), NEW s \in SUBSET S
  PROVE  /\ s = {} => g[s] = 0
         /\ s # {} => g[s] = f[Chosen(s)] + g[Rest(s)]
<1>1. g[s] = IF s = {} THEN 0 ELSE f[Chosen(s)] + g[s \ {Chosen(s)}]
  BY DEF Sums
<1> QED
  BY <1>1 DEF Rest

\* Two such functions agree wherever both are defined.
LEMMA SumsAgree ==
  ASSUME NEW f, NEW S, NEW T, NEW g, NEW h, Sums(g, f, S), Sums(h, f, T),
         NEW V \in SUBSET S, V \subseteq T, IsFiniteSet(V)
  PROVE  g[V] = h[V]
<1> DEFINE Good == {W \in SUBSET V : g[W] = h[W]}
<1>1. ASSUME NEW W \in SUBSET V, \A U \in SUBSET W : U # W => U \in Good
      PROVE  W \in Good
  <2>1. CASE W = {}
    BY <2>1, SumsUnfold
  <2>2. CASE W # {}
    <3>1. g[W] = f[Chosen(W)] + g[Rest(W)] /\ h[W] = f[Chosen(W)] + h[Rest(W)]
      BY <2>2, SumsUnfold
    <3>2. g[Rest(W)] = h[Rest(W)]
      BY <1>1, <2>2, RestIsLess
    <3> QED
      BY <3>1, <3>2
  <2> QED
    BY <2>1, <2>2
<1> HIDE DEF Good
<1>2. V \in Good
  BY <1>1, SetInduction
<1> QED
  BY <1>2 DEF Good

\* There is one for every finite set.
LEMMA SumsExists ==
  ASSUME NEW f, NEW S, IsFiniteSet(S)
  PROVE  \E g : Sums(g, f, S)
<1> DEFINE Good == {W \in SUBSET S : \E g : Sums(g, f, W)}
           G(U) == CHOOSE g : Sums(g, f, U)
<1>1. ASSUME NEW W \in SUBSET S, \A U \in SUBSET W : U # W => U \in Good
      PROVE  W \in Good
  <2> DEFINE h == [s \in SUBSET W |-> IF s = {} THEN 0 ELSE f[Chosen(s)] + G(Rest(s))[Rest(s)]]
  <2>1. \A U \in SUBSET W : U # W => Sums(G(U), f, U)
    BY <1>1
  <2>2. ASSUME NEW s \in SUBSET W, s # {}
        PROVE  G(Rest(s))[Rest(s)] = h[Rest(s)]
    <3> DEFINE r == Rest(s)
    <3>1. r \in SUBSET W /\ r # W
      BY <2>2, RestIsLess
    <3>2. Sums(G(r), f, r)
      BY <2>1, <3>1
    <3> HIDE DEF r, G
    <3>3. CASE r = {}
      <4>1. G(r)[r] = 0
        BY <3>2, <3>3, SumsUnfold
      <4> QED
        BY <3>1, <3>3, <4>1 DEF r
    <3>4. CASE r # {}
      <4>1. G(r)[r] = f[Chosen(r)] + G(r)[Rest(r)]
        BY <3>2, <3>4, SumsUnfold
      <4>2. Rest(r) \in SUBSET W /\ Rest(r) # W /\ Rest(r) \subseteq r
        BY <3>1, <3>4, RestIsLess
      <4>3. Sums(G(Rest(r)), f, Rest(r)) /\ IsFiniteSet(Rest(r))
        BY <2>1, <4>2, FS_Subset DEF G
      <4>4. G(r)[Rest(r)] = G(Rest(r))[Rest(r)]
        BY <3>2, <4>2, <4>3, SumsAgree
      <4>5. h[r] = f[Chosen(r)] + G(Rest(r))[Rest(r)]
        BY <3>1, <3>4
      <4> QED
        BY <4>1, <4>4, <4>5 DEF r
    <3> QED
      BY <3>3, <3>4
  <2> HIDE DEF G
  <2>3. \A s \in SUBSET W : h[s] = IF s = {} THEN 0 ELSE f[Chosen(s)] + G(Rest(s))[Rest(s)]
    OBVIOUS
  <2>4. h = [s \in SUBSET W |-> h[s]]
    OBVIOUS
  <2> HIDE DEF h
  <2>5. \A s \in SUBSET W : h[s] = IF s = {} THEN 0 ELSE f[Chosen(s)] + h[s \ {Chosen(s)}]
    BY <2>2, <2>3 DEF Rest
  <2>6. Sums(h, f, W)
    BY <2>4, <2>5 DEF Sums
  <2> QED
    BY <2>6
<1> HIDE DEF Good
<1>2. S \in Good
  BY <1>1, SetInduction
<1> QED
  BY <1>2 DEF Good

-----------------------------------------------------------------------------
(* The sum over a set. *)

LEMMA SumEmpty ==
  ASSUME NEW f
  PROVE  SumFunctionOnSet(f, {}) = 0
<1>1. \E g : Sums(g, f, {})
  BY SumsExists, FS_EmptySet
<1>2. PICK g : Sums(g, f, {}) /\ g = CHOOSE x : Sums(x, f, {})
  BY <1>1
<1>3. g[{}] = 0
  BY <1>2, SumsUnfold
<1> QED
  BY <1>2, <1>3, SumIsSums

LEMMA SumUnfold ==
  ASSUME NEW f, NEW S, IsFiniteSet(S), S # {}
  PROVE  SumFunctionOnSet(f, S) = f[Chosen(S)] + SumFunctionOnSet(f, Rest(S))
<1>1. Rest(S) \subseteq S /\ IsFiniteSet(Rest(S))
  BY RestIsLess, FS_Subset
<1>2. PICK g : Sums(g, f, S) /\ g = CHOOSE x : Sums(x, f, S)
  BY SumsExists
<1>3. PICK h : Sums(h, f, Rest(S)) /\ h = CHOOSE x : Sums(x, f, Rest(S))
  BY <1>1, SumsExists
<1>4. g[S] = f[Chosen(S)] + g[Rest(S)]
  BY <1>2, SumsUnfold
<1>5. g[Rest(S)] = h[Rest(S)]
  BY <1>1, <1>2, <1>3, SumsAgree
<1> QED
  BY <1>2, <1>3, <1>4, <1>5, SumIsSums

\* A sum of integers is one.
LEMMA SumIsInt ==
  ASSUME NEW f, NEW S, IsFiniteSet(S), \A x \in S : f[x] \in Int
  PROVE  SumFunctionOnSet(f, S) \in Int
<1> DEFINE Good == {W \in SUBSET S : SumFunctionOnSet(f, W) \in Int}
<1>1. ASSUME NEW W \in SUBSET S, \A U \in SUBSET W : U # W => U \in Good
      PROVE  W \in Good
  <2>1. CASE W = {}
    BY <2>1, SumEmpty
  <2>2. CASE W # {}
    <3>1. SumFunctionOnSet(f, W) = f[Chosen(W)] + SumFunctionOnSet(f, Rest(W))
      BY <2>2, SumUnfold, FS_Subset
    <3>2. SumFunctionOnSet(f, Rest(W)) \in Int /\ f[Chosen(W)] \in Int
      BY <1>1, <2>2, RestIsLess
    <3> QED
      BY <3>1, <3>2
  <2> QED
    BY <2>1, <2>2
<1> HIDE DEF Good
<1>2. S \in Good
  BY <1>1, SetInduction
<1> QED
  BY <1>2 DEF Good

\* Zeros sum to zero.
LEMMA SumOfZeros ==
  ASSUME NEW f, NEW S, IsFiniteSet(S), \A x \in S : f[x] = 0
  PROVE  SumFunctionOnSet(f, S) = 0
<1> DEFINE Good == {W \in SUBSET S : SumFunctionOnSet(f, W) = 0}
<1>1. ASSUME NEW W \in SUBSET S, \A U \in SUBSET W : U # W => U \in Good
      PROVE  W \in Good
  <2>1. CASE W = {}
    BY <2>1, SumEmpty
  <2>2. CASE W # {}
    <3>1. SumFunctionOnSet(f, W) = f[Chosen(W)] + SumFunctionOnSet(f, Rest(W))
      BY <2>2, SumUnfold, FS_Subset
    <3>2. SumFunctionOnSet(f, Rest(W)) = 0 /\ f[Chosen(W)] = 0
      BY <1>1, <2>2, RestIsLess
    <3> QED
      BY <3>1, <3>2
  <2> QED
    BY <2>1, <2>2
<1> HIDE DEF Good
<1>2. S \in Good
  BY <1>1, SetInduction
<1> QED
  BY <1>2 DEF Good

\* Any element may be taken out first.
LEMMA SumTakeOut ==
  ASSUME NEW f, NEW S, IsFiniteSet(S), \A x \in S : f[x] \in Int, NEW e \in S
  PROVE  SumFunctionOnSet(f, S) = f[e] + SumFunctionOnSet(f, S \ {e})
<1> DEFINE Sum(W) == SumFunctionOnSet(f, W)
           Good == {W \in SUBSET S : \A x \in W : Sum(W) = f[x] + Sum(W \ {x})}
<1>1. ASSUME NEW W \in SUBSET S
      PROVE  IsFiniteSet(W) /\ Sum(W) \in Int
  BY SumIsInt, FS_Subset
<1>2. ASSUME NEW W \in SUBSET S, W # {}
      PROVE  Sum(W) = f[Chosen(W)] + Sum(W \ {Chosen(W)})
  BY <1>1, <1>2, SumUnfold DEF Rest
<1> HIDE DEF Sum
<1>3. ASSUME NEW W \in SUBSET S, \A U \in SUBSET W : U # W => U \in Good,
             NEW x \in W
      PROVE  Sum(W) = f[x] + Sum(W \ {x})
  <2> DEFINE c == Chosen(W)
  <2>1. c \in W
    BY RestIsLess
  <2>2. Sum(W) = f[c] + Sum(W \ {c})
    BY <1>2
  <2> HIDE DEF c
  <2>3. CASE x = c
    BY <2>2, <2>3
  <2>4. CASE x # c
    <3>1. W \ {c} \in Good /\ W \ {x} \in Good
      BY <1>3, <2>1
    <3>2. Sum(W \ {c}) = f[x] + Sum((W \ {c}) \ {x})
      BY <2>4, <3>1
    <3>3. Sum(W \ {x}) = f[c] + Sum((W \ {c}) \ {x})
      <4>1. Sum(W \ {x}) = f[c] + Sum((W \ {x}) \ {c})
        BY <2>1, <2>4, <3>1
      <4>2. (W \ {c}) \ {x} = (W \ {x}) \ {c}
        OBVIOUS
      <4> QED
        BY <4>1, <4>2, Zenon
    <3>4. f[x] \in Int /\ f[c] \in Int /\ Sum((W \ {c}) \ {x}) \in Int
      BY <1>1, <2>1
    <3> QED
      BY <2>2, <3>2, <3>3, <3>4
  <2> QED
    BY <2>3, <2>4
<1>4. \A W \in SUBSET S : (\A U \in SUBSET W : U # W => U \in Good) => W \in Good
  BY <1>3
<1> HIDE DEF Good
<1>5. S \in Good
  BY <1>4, SetInduction
<1> QED
  BY <1>5 DEF Good, Sum

\* Only what a function is on the set counts.
LEMMA SumOfEquals ==
  ASSUME NEW f, NEW h, NEW S, IsFiniteSet(S), \A x \in S : f[x] = h[x]
  PROVE  SumFunctionOnSet(f, S) = SumFunctionOnSet(h, S)
<1> DEFINE Good == {W \in SUBSET S : SumFunctionOnSet(f, W) = SumFunctionOnSet(h, W)}
<1>1. ASSUME NEW W \in SUBSET S, \A U \in SUBSET W : U # W => U \in Good
      PROVE  W \in Good
  <2>1. CASE W = {}
    BY <2>1, SumEmpty
  <2>2. CASE W # {}
    <3>1. /\ SumFunctionOnSet(f, W) = f[Chosen(W)] + SumFunctionOnSet(f, Rest(W))
          /\ SumFunctionOnSet(h, W) = h[Chosen(W)] + SumFunctionOnSet(h, Rest(W))
      BY <2>2, SumUnfold, FS_Subset
    <3>2. SumFunctionOnSet(f, Rest(W)) = SumFunctionOnSet(h, Rest(W)) /\ Chosen(W) \in S
      BY <1>1, <2>2, RestIsLess
    <3> QED
      BY <3>1, <3>2
  <2> QED
    BY <2>1, <2>2
<1> HIDE DEF Good
<1>2. S \in Good
  BY <1>1, SetInduction
<1> QED
  BY <1>2 DEF Good

\* The sum over a set is that over a part of it and that over the rest.
LEMMA SumOfParts ==
  ASSUME NEW f, NEW S, IsFiniteSet(S), \A x \in S : f[x] \in Int, NEW T \in SUBSET S
  PROVE  SumFunctionOnSet(f, S) = SumFunctionOnSet(f, T) + SumFunctionOnSet(f, S \ T)
<1> DEFINE Sum(W) == SumFunctionOnSet(f, W)
           Good == {W \in SUBSET T : Sum(S) = Sum(W) + Sum(S \ W)}
<1>1. ASSUME NEW W \in SUBSET S
      PROVE  IsFiniteSet(W) /\ Sum(W) \in Int
  BY SumIsInt, FS_Subset
<1>2. ASSUME NEW W \in SUBSET S, NEW x \in W
      PROVE  Sum(W) = f[x] + Sum(W \ {x})
  BY <1>1, SumTakeOut
<1>3. Sum({}) = 0
  BY SumEmpty
<1> HIDE DEF Sum
<1>4. ASSUME NEW W \in SUBSET T, \A U \in SUBSET W : U # W => U \in Good
      PROVE  Sum(S) = Sum(W) + Sum(S \ W)
  <2>1. CASE W = {}
    <3>1. S \ W = S
      BY <2>1
    <3> QED
      BY <1>1, <1>3, <2>1, <3>1
  <2>2. CASE W # {}
    <3>1. PICK x \in W : TRUE
      BY <2>2
    <3>2. Sum(S) = Sum(W \ {x}) + Sum(S \ (W \ {x}))
      BY <1>4
    <3>3. Sum(W) = f[x] + Sum(W \ {x})
      BY <1>2
    <3>4. Sum(S \ (W \ {x})) = f[x] + Sum(S \ W)
      <4>1. Sum(S \ (W \ {x})) = f[x] + Sum((S \ (W \ {x})) \ {x})
        BY <1>2
      <4>2. (S \ (W \ {x})) \ {x} = S \ W
        OBVIOUS
      <4> QED
        BY <4>1, <4>2, Zenon
    <3>5. Sum(W \ {x}) \in Int /\ Sum(S \ W) \in Int /\ f[x] \in Int
      BY <1>1
    <3> QED
      BY <3>2, <3>3, <3>4, <3>5
  <2> QED
    BY <2>1, <2>2
<1>5. \A W \in SUBSET T : (\A U \in SUBSET W : U # W => U \in Good) => W \in Good
  BY <1>4
<1> HIDE DEF Good
<1>6. IsFiniteSet(T)
  BY FS_Subset
<1>7. T \in Good
  BY <1>5, <1>6, SetInduction
<1> QED
  BY <1>7 DEF Good, Sum

LEMMA SumSplits ==
  ASSUME NEW f, NEW S, IsFiniteSet(S), \A x \in S : f[x] \in Int
  PROVE  \A T \in SUBSET S :
           SumFunctionOnSet(f, S) = SumFunctionOnSet(f, T) + SumFunctionOnSet(f, S \ T)
BY SumOfParts

\* Nothing below zero sums to nothing below zero.
LEMMA SumIsNat ==
  ASSUME NEW f, NEW S, IsFiniteSet(S), \A x \in S : f[x] \in Nat
  PROVE  SumFunctionOnSet(f, S) \in Nat
<1> DEFINE Good == {W \in SUBSET S : SumFunctionOnSet(f, W) \in Nat}
<1>1. ASSUME NEW W \in SUBSET S, \A U \in SUBSET W : U # W => U \in Good
      PROVE  W \in Good
  <2>1. CASE W = {}
    BY <2>1, SumEmpty
  <2>2. CASE W # {}
    <3>1. SumFunctionOnSet(f, W) = f[Chosen(W)] + SumFunctionOnSet(f, Rest(W))
      BY <2>2, SumUnfold, FS_Subset
    <3>2. SumFunctionOnSet(f, Rest(W)) \in Nat /\ f[Chosen(W)] \in Nat
      BY <1>1, <2>2, RestIsLess
    <3> QED
      BY <3>1, <3>2
  <2> QED
    BY <2>1, <2>2
<1> HIDE DEF Good
<1>2. S \in Good
  BY <1>1, SetInduction
<1> QED
  BY <1>2 DEF Good

\* A part of what is not below zero is no more than the whole.
LEMMA SumOfPartIsLess ==
  ASSUME NEW f, NEW S, IsFiniteSet(S), \A x \in S : f[x] \in Nat, NEW T \in SUBSET S
  PROVE  SumFunctionOnSet(f, T) <= SumFunctionOnSet(f, S)
<1>1. SumFunctionOnSet(f, S) = SumFunctionOnSet(f, T) + SumFunctionOnSet(f, S \ T)
  BY SumOfParts
<1>2. SumFunctionOnSet(f, T) \in Nat /\ SumFunctionOnSet(f, S \ T) \in Nat
  BY SumIsNat, FS_Subset
<1> QED
  BY <1>1, <1>2

\* What is no less anywhere sums to no less.
LEMMA SumOrdered ==
  ASSUME NEW f, NEW h, NEW S, IsFiniteSet(S),
         \A x \in S : f[x] \in Int /\ h[x] \in Int /\ f[x] <= h[x]
  PROVE  SumFunctionOnSet(f, S) <= SumFunctionOnSet(h, S)
<1> DEFINE Good == {W \in SUBSET S : SumFunctionOnSet(f, W) <= SumFunctionOnSet(h, W)}
<1>1. ASSUME NEW W \in SUBSET S, \A U \in SUBSET W : U # W => U \in Good
      PROVE  W \in Good
  <2>1. CASE W = {}
    BY <2>1, SumEmpty
  <2>2. CASE W # {}
    <3>1. /\ SumFunctionOnSet(f, W) = f[Chosen(W)] + SumFunctionOnSet(f, Rest(W))
          /\ SumFunctionOnSet(h, W) = h[Chosen(W)] + SumFunctionOnSet(h, Rest(W))
      BY <2>2, SumUnfold, FS_Subset
    <3>2. SumFunctionOnSet(f, Rest(W)) <= SumFunctionOnSet(h, Rest(W)) /\ Chosen(W) \in S
      BY <1>1, <2>2, RestIsLess
    <3>3. SumFunctionOnSet(f, Rest(W)) \in Int /\ SumFunctionOnSet(h, Rest(W)) \in Int
      BY <2>2, RestIsLess, SumIsInt, FS_Subset
    <3> QED
      BY <3>1, <3>2, <3>3
  <2> QED
    BY <2>1, <2>2
<1> HIDE DEF Good
<1>2. S \in Good
  BY <1>1, SetInduction
<1> QED
  BY <1>2 DEF Good

\* The elements of S fall into the groups of B, each with the total of its own.
GroupTotals(f, S, group, totals, B) ==
  /\ IsFiniteSet(S) /\ \A x \in S : f[x] \in Int
  /\ IsFiniteSet(B) /\ \A x \in S : group[x] \in B
  /\ \A b \in B : totals[b] = SumFunctionOnSet(f, {x \in S : group[x] = b})

\* Totals by group sum to the total.
LEMMA SumOfGroups ==
  ASSUME NEW f, NEW S, NEW group, NEW totals, NEW B, GroupTotals(f, S, group, totals, B)
  PROVE  SumFunctionOnSet(f, S) = SumFunctionOnSet(totals, B)
<1> USE DEF GroupTotals
<1> DEFINE Of(C) == {x \in S : group[x] \in C}
           Good == {C \in SUBSET B : SumFunctionOnSet(f, Of(C)) = SumFunctionOnSet(totals, C)}
<1>1. ASSUME NEW C \in SUBSET B, \A D \in SUBSET C : D # C => D \in Good
      PROVE  C \in Good
  <2>1. CASE C = {}
    <3>1. Of(C) = {}
      BY <2>1
    <3> QED
      BY <2>1, <3>1, SumEmpty
  <2>2. CASE C # {}
    <3>1. PICK b : b = Chosen(C)
      OBVIOUS
    <3>2. b \in C /\ Rest(C) = C \ {b} /\ Rest(C) \in Good
      BY <1>1, <2>2, <3>1, RestIsLess DEF Rest
    <3>3. SumFunctionOnSet(totals, C) = totals[b] + SumFunctionOnSet(totals, Rest(C))
      BY <2>2, <3>1, SumUnfold, FS_Subset
    <3>4. {x \in S : group[x] = b} \subseteq Of(C)
      BY <3>2
    <3>5. Of(C) \ {x \in S : group[x] = b} = Of(Rest(C))
      BY <3>2
    <3>6. IsFiniteSet(Of(C)) /\ \A x \in Of(C) : f[x] \in Int
      BY FS_Subset
    <3>7. SumFunctionOnSet(f, Of(C)) =
            SumFunctionOnSet(f, {x \in S : group[x] = b})
              + SumFunctionOnSet(f, Of(C) \ {x \in S : group[x] = b})
      BY <3>4, <3>6, SumOfParts
    <3>8. SumFunctionOnSet(f, Of(Rest(C))) = SumFunctionOnSet(totals, Rest(C))
      BY <3>2
    <3>9. totals[b] = SumFunctionOnSet(f, {x \in S : group[x] = b})
      BY <3>2
    <3> HIDE DEF Of
    <3> QED
      BY <3>3, <3>5, <3>7, <3>8, <3>9
  <2> QED
    BY <2>1, <2>2
<1> HIDE DEF Good
<1>2. B \in Good
  BY <1>1, SetInduction
<1>3. Of(B) = S
  OBVIOUS
<1> QED
  BY <1>2, <1>3 DEF Good

\* Sums over intervals, one of which is moved by d, of functions that agree.
LEMMA SumMoved ==
  ASSUME NEW f, NEW h, NEW d \in Nat, NEW a \in Nat, NEW b \in Nat,
         \A i \in (a + 1)..b : f[i] \in Int /\ h[d + i] = f[i]
  PROVE  SumFunctionOnSet(f, (a + 1)..b) = SumFunctionOnSet(h, (d + a + 1)..(d + b))
<1>1. CASE b <= a
  <2>1. (a + 1)..b = {} /\ (d + a + 1)..(d + b) = {}
    BY <1>1
  <2> QED
    BY <2>1, SumEmpty
<1>2. CASE a < b
  <2> DEFINE Same(c) == SumFunctionOnSet(f, (a + 1)..c) =
                          SumFunctionOnSet(h, (d + a + 1)..(d + c))
             Good == {i \in 0..(b - a) : Same(a + i)}
  <2>1. 0 \in Good
    <3>1. (a + 1)..(a + 0) = {} /\ (d + a + 1)..(d + (a + 0)) = {}
      OBVIOUS
    <3> QED
      BY <1>2, <3>1, SumEmpty
  <2>2. ASSUME NEW i \in 0..(b - a - 1), i \in Good
        PROVE  i + 1 \in Good
    <3> DEFINE c == a + i
    <3>1. c \in Nat /\ c + 1 \in (a + 1)..b /\ a + (i + 1) = c + 1
      BY <1>2
    <3>2. Same(c)
      BY <2>2
    <3> HIDE DEF c
    <3> DEFINE A == (a + 1)..(c + 1)
               B == (d + a + 1)..(d + (c + 1))
               x == c + 1
               y == d + (c + 1)
    <3>3. /\ A \subseteq (a + 1)..b /\ A \ {x} = (a + 1)..c /\ x \in A
          /\ B \ {y} = (d + a + 1)..(d + c) /\ y \in B
      BY <3>1
    <3>4. \A u \in B : h[u] \in Int
      <4> TAKE u \in B
      <4>1. u - d \in (a + 1)..b /\ d + (u - d) = u
        BY <3>1
      <4> QED
        BY <4>1
    <3>5. \A u \in A : f[u] \in Int
      BY <3>3
    <3>6. IsFiniteSet(A) /\ IsFiniteSet(B)
      BY <3>1, FS_Interval
    <3> HIDE DEF A, B, x, y
    <3>7. SumFunctionOnSet(f, A) = f[x] + SumFunctionOnSet(f, A \ {x})
      BY <3>3, <3>5, <3>6, SumTakeOut
    <3>8. SumFunctionOnSet(h, B) = h[y] + SumFunctionOnSet(h, B \ {y})
      BY <3>3, <3>4, <3>6, SumTakeOut
    <3>9. h[y] = f[x]
      BY <3>1 DEF x, y
    <3>10. Same(c + 1)
      BY <3>2, <3>3, <3>7, <3>8, <3>9 DEF A, B, x, y
    <3> HIDE DEF Same
    <3> QED
      BY <1>2, <3>1, <3>10
  <2> HIDE DEF Good
  <2>3. b - a \in Nat
    BY <1>2
  <2>4. b - a \in Good
    BY <2>1, <2>2, <2>3, UpTo
  <2> QED
    BY <2>4 DEF Good
<1> QED
  BY <1>1, <1>2
=============================================================================
