----------------------------- MODULE Sums_proofs -----------------------------
(***************************************************************************)
(* Finite sums: what SumFunctionOnSet of the library returns.              *)
(*                                                                         *)
(* A fold is a function chosen among those that satisfy a recursive        *)
(* equation, so it must be shown that there is one, that the equation      *)
(* determines it, and that the sum does not depend on the order in which   *)
(* the fold picks the elements.  Each is an induction over finite sets,    *)
(* done with a minimal counterexample.                                     *)
(***************************************************************************)
EXTENDS Integers, Functions, FiniteSetTheorems, WellFoundedInduction, TLAPS

\* Induction over finite sets: among bad subsets there is a minimal one.
LEMMA MinimalSubset ==
    ASSUME NEW S, IsFiniteSet(S), NEW Bad \in SUBSET SUBSET S, Bad # {}
    PROVE  \E T \in Bad : \A U \in Bad : U \subseteq T => U = T
<1>1. Bad \subseteq FiniteSubsetsOf(S)
  BY FS_Subset DEF FiniteSubsetsOf
<1>2. PICK T \in Bad : \A U \in Bad : ~ (<<U, T>> \in StrictSubsetOrdering(S))
  BY <1>1, FS_StrictSubsetOrderingWellFounded, WFMin
<1>3. \A U \in Bad : U \subseteq T => U = T
  BY <1>2 DEF StrictSubsetOrdering
<1> QED
  BY <1>3

\* The element a fold takes from T first.
First(T) == CHOOSE x \in T : TRUE

LEMMA FirstIn == \A T : T # {} => First(T) \in T
  BY DEF First

\* g gives the sums of w over the subsets of S.
Sums(w, g, S) ==
    g = [T \in SUBSET S |-> IF T = {} THEN 0 ELSE w[First(T)] + g[T \ {First(T)}]]

LEMMA SumsAt ==
    ASSUME NEW w, NEW g, NEW S, Sums(w, g, S)
    PROVE  /\ g[{}] = 0
           /\ \A T \in SUBSET S : T # {} => g[T] = w[First(T)] + g[T \ {First(T)}]
  BY DEF Sums

\* The equation determines g, from the weights of the elements alone.
LEMMA SumsAgree ==
    ASSUME NEW v, NEW w, NEW g, NEW h, NEW S, NEW R, Sums(v, g, S), Sums(w, h, R),
           NEW T, IsFiniteSet(T), T \subseteq S, T \subseteq R,
           \A x \in T : v[x] = w[x]
    PROVE  g[T] = h[T]
<1> DEFINE Bad == {U \in SUBSET T : g[U] # h[U]}
<1> SUFFICES ASSUME Bad # {} PROVE FALSE
  OBVIOUS
<1>0. Bad \in SUBSET SUBSET T
  OBVIOUS
<1> HIDE DEF Bad
<1>1. PICK U \in Bad : \A W \in Bad : W \subseteq U => W = U
  BY <1>0, MinimalSubset
<1> USE DEF Bad
<1>2. U \in SUBSET S /\ U \in SUBSET R /\ g[U] # h[U]
  OBVIOUS
<1>3. U # {}
  <2>1. g[{}] = h[{}]
    BY SumsAt
  <2> QED
    BY <1>2, <2>1
<1> DEFINE x == First(U)
<1>4. x \in U /\ v[x] = w[x]
  BY <1>3, FirstIn
<1>5. g[U \ {x}] = h[U \ {x}]
  BY <1>1, <1>4
<1>6. g[U] = v[x] + g[U \ {x}]
  BY <1>2, <1>3, SumsAt
<1>7. h[U] = w[x] + h[U \ {x}]
  <2>1. \A W \in SUBSET R : W # {} => h[W] = w[First(W)] + h[W \ {First(W)}]
    BY SumsAt
  <2> QED
    BY <1>2, <1>3, <2>1
<1> QED
  BY <1>2, <1>4, <1>5, <1>6, <1>7

\* A finite set has such a g.
LEMMA SumsExist ==
    ASSUME NEW w, NEW S, IsFiniteSet(S)
    PROVE  \E g : Sums(w, g, S)
<1> DEFINE Bad == {T \in SUBSET S : ~ \E g : Sums(w, g, T)}
<1> SUFFICES ASSUME Bad # {} PROVE FALSE
  OBVIOUS
<1>0. Bad \in SUBSET SUBSET S
  OBVIOUS
<1> HIDE DEF Bad
<1>1. PICK T \in Bad : \A U \in Bad : U \subseteq T => U = T
  BY <1>0, MinimalSubset
<1> USE DEF Bad
<1>2. IsFiniteSet(T)
  BY FS_Subset
<1> DEFINE below(U) == CHOOSE g : Sums(w, g, U)
           value(U) == IF U = {} THEN 0 ELSE w[First(U)] + below(U \ {First(U)})[U \ {First(U)}]
           g == [U \in SUBSET T |-> value(U)]
<1>3. \A U \in SUBSET T : U # T => Sums(w, below(U), U)
  <2> SUFFICES ASSUME NEW U \in SUBSET T, U # T PROVE \E f : Sums(w, f, U)
    OBVIOUS
  <2> QED
    BY <1>1
<1> HIDE DEF below
<1>4. ASSUME NEW U \in SUBSET T, U # T PROVE g[U] = below(U)[U]
  <2>1. CASE U = {}
    BY <1>3, <1>4, <2>1, SumsAt
  <2>2. CASE U # {}
    <3> DEFINE x == First(U)
               W == U \ {x}
    <3>1. x \in U /\ W \in SUBSET T /\ W # T
      BY <1>4, <2>2, FirstIn
    <3>2. Sums(w, below(U), U) /\ Sums(w, below(W), W)
      BY <1>3, <1>4, <3>1
    <3>3. IsFiniteSet(W)
      BY <1>2, <3>1, FS_Subset
    <3>4. below(U)[W] = below(W)[W]
      BY <3>2, <3>3, SumsAgree
    <3>5. below(U)[U] = w[x] + below(U)[W]
      BY <2>2, <3>2, SumsAt
    <3> QED
      BY <2>2, <3>4, <3>5
  <2> QED
    BY <2>1, <2>2
<1>5. ASSUME NEW U \in SUBSET T, U # {} PROVE g[U] = w[First(U)] + g[U \ {First(U)}]
  <2>1. First(U) \in U
    BY <1>5, FirstIn
  <2>2. g[U \ {First(U)}] = below(U \ {First(U)})[U \ {First(U)}]
    BY <1>4, <2>1
  <2> QED
    BY <1>5, <2>2
<1>6. g[{}] = 0
  OBVIOUS
<1>7. g = [U \in SUBSET T |-> IF U = {} THEN 0 ELSE w[First(U)] + g[U \ {First(U)}]]
  <2>1. \A U \in SUBSET T :
           g[U] = IF U = {} THEN 0 ELSE w[First(U)] + g[U \ {First(U)}]
    BY <1>5, <1>6
  <2>2. g = [U \in SUBSET T |-> g[U]]
    OBVIOUS
  <2> HIDE DEF g
  <2> QED
    BY <2>1, <2>2
<1> HIDE DEF g
<1>8. Sums(w, g, T)
  BY <1>7 DEF Sums
<1> QED
  BY <1>1, <1>8

\* Sums of integers are integers, and any element may be taken first.
LEMMA SumsInt ==
    ASSUME NEW w, NEW g, NEW S, IsFiniteSet(S), Sums(w, g, S), \A x \in S : w[x] \in Int
    PROVE  \A T \in SUBSET S : g[T] \in Int
<1> DEFINE Bad == {T \in SUBSET S : g[T] \notin Int}
<1> SUFFICES ASSUME Bad # {} PROVE FALSE
  OBVIOUS
<1>0. Bad \in SUBSET SUBSET S
  OBVIOUS
<1> HIDE DEF Bad
<1>1. PICK T \in Bad : \A U \in Bad : U \subseteq T => U = T
  BY <1>0, MinimalSubset
<1> USE DEF Bad
<1>2. T \in SUBSET S /\ T # {}
  <2>1. g[{}] \in Int
    BY SumsAt
  <2> QED
    BY <2>1
<1>3. First(T) \in T /\ g[T] = w[First(T)] + g[T \ {First(T)}]
  BY <1>2, FirstIn, SumsAt
<1>4. g[T \ {First(T)}] \in Int
  BY <1>1, <1>3
<1> QED
  BY <1>3, <1>4

LEMMA SumsAnyFirst ==
    ASSUME NEW w, NEW g, NEW S, IsFiniteSet(S), Sums(w, g, S), \A x \in S : w[x] \in Int
    PROVE  \A y \in S : g[S] = w[y] + g[S \ {y}]
<1> DEFINE Bad == {T \in SUBSET S : \E y \in T : g[T] # w[y] + g[T \ {y}]}
<1> SUFFICES ASSUME Bad # {} PROVE FALSE
  OBVIOUS
<1>0. Bad \in SUBSET SUBSET S
  OBVIOUS
<1> HIDE DEF Bad
<1>1. PICK T \in Bad : \A U \in Bad : U \subseteq T => U = T
  BY <1>0, MinimalSubset
<1> USE DEF Bad
<1>2. PICK y \in T : g[T] # w[y] + g[T \ {y}]
  OBVIOUS
<1> DEFINE x == First(T)
<1>3. T \in SUBSET S /\ x \in T /\ g[T] = w[x] + g[T \ {x}]
  <2>1. T \in SUBSET S /\ T # {} /\ x \in T
    BY <1>2, FirstIn
  <2>2. \A U \in SUBSET S : U # {} => g[U] = w[First(U)] + g[U \ {First(U)}]
    BY SumsAt
  <2> QED
    BY <2>1, <2>2
<1>4. x # y
  BY <1>2, <1>3
<1> DEFINE rest == T \ {x, y}
<1>5. g[T \ {x}] = w[y] + g[rest]
  <2>1. T \ {x} \notin Bad /\ y \in T \ {x} /\ T \ {x} \in SUBSET S
    BY <1>1, <1>2, <1>3, <1>4
  <2>2. g[T \ {x}] = w[y] + g[(T \ {x}) \ {y}]
    BY <2>1
  <2>3. (T \ {x}) \ {y} = rest
    OBVIOUS
  <2> QED
    BY <2>2, <2>3
<1>6. g[T \ {y}] = w[x] + g[rest]
  <2>1. T \ {y} \notin Bad /\ x \in T \ {y} /\ T \ {y} \in SUBSET S
    BY <1>1, <1>2, <1>3, <1>4
  <2>2. g[T \ {y}] = w[x] + g[(T \ {y}) \ {x}]
    BY <2>1
  <2>3. (T \ {y}) \ {x} = rest
    OBVIOUS
  <2> QED
    BY <2>2, <2>3
<1>7. w[x] \in Int /\ w[y] \in Int /\ g[rest] \in Int
  <2>1. rest \in SUBSET S
    BY <1>3
  <2> QED
    BY <1>2, <1>3, <2>1, SumsInt
<1> QED
  BY <1>2, <1>3, <1>5, <1>6, <1>7

-----------------------------------------------------------------------------
(* The sums of the library. *)

LEMMA SumIsFold ==
    ASSUME NEW w, NEW S, IsFiniteSet(S)
    PROVE  \E g : Sums(w, g, S) /\ SumFunctionOnSet(w, S) = g[S]
<1> DEFINE g == CHOOSE g : Sums(w, g, S)
<1>1. Sums(w, g, S)
  BY SumsExist
<1>2. SumFunctionOnSet(w, S) = g[S]
  BY DEF SumFunctionOnSet, FoldFunctionOnSet, MapThenFoldSet, Sums, First
<1> QED
  BY <1>1, <1>2

\* Nothing adds up to zero.
LEMMA SumOfNone == \A w : SumFunctionOnSet(w, {}) = 0
<1> SUFFICES ASSUME NEW w PROVE SumFunctionOnSet(w, {}) = 0
  OBVIOUS
<1>1. PICK g : Sums(w, g, {}) /\ SumFunctionOnSet(w, {}) = g[{}]
  BY SumIsFold, FS_EmptySet
<1> QED
  BY <1>1, SumsAt

\* A sum of integers over a finite set is an integer.
LEMMA SumInt ==
    ASSUME NEW S, IsFiniteSet(S), NEW w, \A x \in S : w[x] \in Int
    PROVE  SumFunctionOnSet(w, S) \in Int
<1>1. PICK g : Sums(w, g, S) /\ SumFunctionOnSet(w, S) = g[S]
  BY SumIsFold
<1>2. Sums(w, g, S)
  BY <1>1
<1> QED
  BY <1>1, <1>2, SumsInt

\* A sum is that of any one element and of the rest.
LEMMA SumOfMore ==
    ASSUME NEW S, IsFiniteSet(S), NEW w, \A x \in S : w[x] \in Int, NEW y \in S
    PROVE  /\ SumFunctionOnSet(w, S) \in Int
           /\ SumFunctionOnSet(w, S \ {y}) \in Int
           /\ SumFunctionOnSet(w, S) = w[y] + SumFunctionOnSet(w, S \ {y})
<1>1. IsFiniteSet(S \ {y})
  BY FS_RemoveElement
<1>2. PICK g : Sums(w, g, S) /\ SumFunctionOnSet(w, S) = g[S]
  BY SumIsFold
<1>3. PICK h : Sums(w, h, S \ {y}) /\ SumFunctionOnSet(w, S \ {y}) = h[S \ {y}]
  BY <1>1, SumIsFold
<1>4. g[S \ {y}] = h[S \ {y}]
  BY <1>1, <1>2, <1>3, SumsAgree
<1>5. g[S] = w[y] + g[S \ {y}] /\ g[S] \in Int /\ g[S \ {y}] \in Int
  <2>1. \A T \in SUBSET S : g[T] \in Int
    BY <1>2, SumsInt
  <2>2. Sums(w, g, S)
    BY <1>2
  <2>3. g[S] = w[y] + g[S \ {y}]
    BY <2>2, SumsAnyFirst
  <2> QED
    BY <2>1, <2>3
<1> QED
  BY <1>2, <1>3, <1>4, <1>5

\* Only the weights of the elements count.
LEMMA SumOfSame ==
    ASSUME NEW S, IsFiniteSet(S), NEW v, NEW w, \A x \in S : v[x] = w[x]
    PROVE  SumFunctionOnSet(v, S) = SumFunctionOnSet(w, S)
<1>1. PICK g : Sums(v, g, S) /\ SumFunctionOnSet(v, S) = g[S]
  BY SumIsFold
<1>2. PICK h : Sums(w, h, S) /\ SumFunctionOnSet(w, S) = h[S]
  BY SumIsFold
<1> QED
  BY <1>1, <1>2, SumsAgree
=============================================================================
