----------------------------- MODULE SumTheorems -----------------------------
(***************************************************************************)
(* Facts about SumFunctionOnSet of module Functions, for finite sets and   *)
(* natural numbers: the arithmetic that proofs about counted credits need. *)
(***************************************************************************)
EXTENDS Integers, Functions, FiniteSetTheorems, WellFoundedInduction, TLAPS

-------------------------------------------------------------------------------
(* Induction over the subsets of a finite set *)

\* What holds of a subset whenever it holds of its proper subsets holds of the
\* whole: Good is the set of subsets of S it holds of.
LEMMA SubsetInduction ==
  ASSUME NEW S, IsFiniteSet(S), NEW Good,
         \A T \in SUBSET S :
           (\A U \in SUBSET T : U # T => U \in Good) => T \in Good
  PROVE  \A T \in SUBSET S : T \in Good
  <1> DEFINE Bad == {T \in SUBSET S : T \notin Good}
  <1>1. SUFFICES ASSUME Bad # {}
                 PROVE  FALSE
    OBVIOUS
  <1>2. FiniteSubsetsOf(S) = SUBSET S
    BY FS_FiniteSubsetsOfFinite
  <1>3. IsWellFoundedOn(StrictSubsetOrdering(S), SUBSET S)
    BY <1>2, FS_StrictSubsetOrderingWellFounded
  <1>4. Bad \subseteq SUBSET S
    OBVIOUS
  <1>5. PICK T \in Bad : \A U \in Bad : ~(<<U, T>> \in StrictSubsetOrdering(S))
    <2> HIDE DEF Bad
    <2>1. QED
      BY <1>1, <1>3, <1>4, WFMin
  <1>6. ASSUME NEW U \in SUBSET T, U # T
        PROVE  U \in Good
    <2>1. <<U, T>> \in StrictSubsetOrdering(S)
      BY <1>6 DEF StrictSubsetOrdering
    <2>2. QED
      BY <1>5, <2>1
  <1>7. QED
    BY <1>5, <1>6

-------------------------------------------------------------------------------
(* The recursive function behind the sum *)

\* The element that the sum over s takes first.
First(s) == CHOOSE x \in s : TRUE

LEMMA FirstIn ==
  ASSUME NEW s, s # {}
  PROVE  First(s) \in s
  BY DEF First

\* g sums f over every subset of S.
Sums(f, S, g) ==
  g = [s \in SUBSET S |-> IF s = {} THEN 0 ELSE f[First(s)] + g[s \ {First(s)}]]

LEMMA SumIsSums ==
  ASSUME NEW f, NEW S
  PROVE  SumFunctionOnSet(f, S) = (CHOOSE g : Sums(f, S, g))[S]
  BY DEF SumFunctionOnSet, FoldFunctionOnSet, MapThenFoldSet, Sums, First

LEMMA SumsAt ==
  ASSUME NEW f, NEW S, NEW g, Sums(f, S, g), NEW s \in SUBSET S
  PROVE  g[s] = IF s = {} THEN 0 ELSE f[First(s)] + g[s \ {First(s)}]
  <1> DEFINE G(t) == IF t = {} THEN 0 ELSE f[First(t)] + g[t \ {First(t)}]
  <1>1. g = [t \in SUBSET S |-> G(t)]
    BY DEF Sums
  <1> HIDE DEF G
  <1>2. g[s] = G(s)
    BY <1>1
  <1>3. QED
    BY <1>2 DEF G

\* What a set sums to does not depend on the set it is a subset of.
LEMMA SumsAgree ==
  ASSUME NEW f, NEW S, NEW T, NEW g, NEW h, IsFiniteSet(S),
         Sums(f, S, g), Sums(f, T, h), NEW s, s \subseteq S, s \subseteq T
  PROVE  g[s] = h[s]
  <1> DEFINE Good == {U \in SUBSET S : U \subseteq T => g[U] = h[U]}
  <1>1. ASSUME NEW U \in SUBSET S, \A V \in SUBSET U : V # U => V \in Good
        PROVE  U \in Good
    <2>1. SUFFICES ASSUME U \subseteq T, U # {}
                   PROVE  g[U] = h[U]
      BY SumsAt
    <2> DEFINE V == U \ {First(U)}
    <2>2. First(U) \in U
      BY <2>1, FirstIn
    <2>3. V \in SUBSET U /\ V # U /\ V \subseteq T
      BY <2>1, <2>2
    <2>4. g[V] = h[V]
      BY <1>1, <2>3
    <2>5. g[U] = f[First(U)] + g[V] /\ h[U] = f[First(U)] + h[V]
      BY <2>1, SumsAt
    <2>6. QED
      BY <2>4, <2>5
  <1>2. \A U \in SUBSET S : U \in Good
    <2> HIDE DEF Good
    <2>1. QED
      BY <1>1, SubsetInduction
  <1>3. QED
    BY <1>2

LEMMA SumsExist ==
  ASSUME NEW f, NEW S, IsFiniteSet(S)
  PROVE  \E g : Sums(f, S, g)
  <1> DEFINE Good == {T \in SUBSET S : \E g : Sums(f, T, g)}
  <1>1. ASSUME NEW T \in SUBSET S, \A U \in SUBSET T : U # T => U \in Good
        PROVE  T \in Good
    <2> DEFINE G(U) == (CHOOSE g : Sums(f, U, g))[U]
               Step(s) == IF s = {} THEN 0 ELSE f[First(s)] + G(s \ {First(s)})
               g == [s \in SUBSET T |-> Step(s)]
    <2>1. ASSUME NEW U \in SUBSET T, U # T
          PROVE  G(U) = Step(U)
      <3> DEFINE gu == CHOOSE k : Sums(f, U, k)
      <3>1. Sums(f, U, gu)
        BY <1>1, <2>1
      <3> HIDE DEF gu
      <3>2. gu[U] = IF U = {} THEN 0 ELSE f[First(U)] + gu[U \ {First(U)}]
        BY <3>1, SumsAt
      <3>3. ASSUME U # {}
            PROVE  gu[U \ {First(U)}] = G(U \ {First(U)})
        <4> DEFINE V == U \ {First(U)}
                   gv == CHOOSE k : Sums(f, V, k)
        <4>1. First(U) \in U
          BY <3>3, FirstIn
        <4>2. V \in SUBSET T /\ V # T /\ V \subseteq U
          BY <4>1
        <4>3. Sums(f, V, gv)
          BY <1>1, <4>2
        <4>4. IsFiniteSet(U)
          BY FS_Subset
        <4> HIDE DEF V, gv
        <4>5. gu[V] = gv[V]
          BY <3>1, <4>2, <4>3, <4>4, SumsAgree
        <4>6. QED
          BY <4>5 DEF V, gv
      <3>4. G(U) = gu[U]
        BY DEF gu
      <3> HIDE DEF G
      <3>5. QED
        BY <3>2, <3>3, <3>4
    <2>2. ASSUME NEW s \in SUBSET T
          PROVE  Step(s) = IF s = {} THEN 0 ELSE f[First(s)] + g[s \ {First(s)}]
      <3> DEFINE U == s \ {First(s)}
      <3>1. ASSUME s # {}
            PROVE  G(U) = g[U]
        <4>1. First(s) \in s
          BY <3>1, FirstIn
        <4>2. U \in SUBSET T /\ U # T
          BY <4>1
        <4>3. G(U) = Step(U)
          BY <2>1, <4>2
        <4> HIDE DEF Step
        <4>4. g[U] = Step(U)
          BY <4>2
        <4>5. QED
          BY <4>3, <4>4
      <3> HIDE DEF G
      <3>2. QED
        BY <3>1
    <2>3. Sums(f, T, g)
      <3> HIDE DEF Step
      <3>1. QED
        BY <2>2 DEF Sums
    <2>4. QED
      BY <2>3
  <1>2. \A T \in SUBSET S : T \in Good
    <2> HIDE DEF Good
    <2>1. QED
      BY <1>1, SubsetInduction
  <1>3. QED
    BY <1>2

-------------------------------------------------------------------------------
(* Sums of natural numbers *)

\* The recursive equation of the sum.
LEMMA SumEquation ==
  ASSUME NEW f, NEW S, IsFiniteSet(S)
  PROVE  SumFunctionOnSet(f, S) =
           IF S = {} THEN 0
           ELSE f[First(S)] + SumFunctionOnSet(f, S \ {First(S)})
  <1> DEFINE R == S \ {First(S)}
             g == CHOOSE k : Sums(f, S, k)
             h == CHOOSE k : Sums(f, R, k)
  <1>1. IsFiniteSet(R)
    BY FS_RemoveElement
  <1>2. Sums(f, S, g) /\ Sums(f, R, h)
    BY <1>1, SumsExist
  <1>3. SumFunctionOnSet(f, S) = g[S] /\ SumFunctionOnSet(f, R) = h[R]
    BY SumIsSums
  <1> HIDE DEF g, h
  <1>4. g[S] = IF S = {} THEN 0 ELSE f[First(S)] + g[R]
    BY <1>2, SumsAt
  <1>5. g[R] = h[R]
    BY <1>2, SumsAgree
  <1> HIDE DEF R
  <1>6. QED
    BY <1>3, <1>4, <1>5 DEF R
\* An empty sum is zero.
LEMMA SumEmpty ==
  ASSUME NEW f
  PROVE  SumFunctionOnSet(f, {}) = 0
  BY FS_EmptySet, SumEquation

\* A sum of naturals is one.
LEMMA SumType ==
  ASSUME NEW f, NEW S, IsFiniteSet(S), \A x \in S : f[x] \in Nat
  PROVE  SumFunctionOnSet(f, S) \in Nat
  <1> DEFINE Good == {T \in SUBSET S : SumFunctionOnSet(f, T) \in Nat}
  <1>1. ASSUME NEW T \in SUBSET S, \A U \in SUBSET T : U # T => U \in Good
        PROVE  T \in Good
    <2>1. SUFFICES ASSUME T # {}
                   PROVE  SumFunctionOnSet(f, T) \in Nat
      BY SumEmpty
    <2>2. First(T) \in T /\ IsFiniteSet(T)
      BY <2>1, FirstIn, FS_Subset
    <2>3. SumFunctionOnSet(f, T \ {First(T)}) \in Nat
      BY <1>1, <2>2
    <2>4. QED
      BY <2>1, <2>2, <2>3, SumEquation
  <1> HIDE DEF Good
  <1>2. S \in Good
    BY <1>1, SubsetInduction
  <1>3. QED
    BY <1>2 DEF Good

\* Any element may be taken first.
LEMMA SumRemove ==
  ASSUME NEW f, NEW S, IsFiniteSet(S), \A x \in S : f[x] \in Nat, NEW e \in S
  PROVE  SumFunctionOnSet(f, S) = f[e] + SumFunctionOnSet(f, S \ {e})
  <1> DEFINE Sum(T) == SumFunctionOnSet(f, T)
             Good == {T \in SUBSET S : \A x \in T : Sum(T) = f[x] + Sum(T \ {x})}
  <1>1. ASSUME NEW T \in SUBSET S, \A U \in SUBSET T : U # T => U \in Good,
               NEW x \in T
        PROVE  Sum(T) = f[x] + Sum(T \ {x})
    <2> DEFINE p == First(T)
               rest == (T \ {p}) \ {x}
    <2>1. p \in T /\ IsFiniteSet(T) /\ IsFiniteSet(T \ {x})
      BY FirstIn, FS_Subset
    <2>2. Sum(T) = f[p] + Sum(T \ {p})
      BY <2>1, SumEquation
    <2>3. CASE x # p
      <3>1. T \ {p} \in Good /\ x \in T \ {p}
        BY <1>1, <2>1, <2>3
      <3>2. Sum(T \ {p}) = f[x] + Sum(rest)
        BY <3>1
      <3>3. T \ {x} \in Good /\ p \in T \ {x}
        BY <1>1, <2>1, <2>3
      <3>4. (T \ {x}) \ {p} = rest
        OBVIOUS
      <3>5. Sum(T \ {x}) = f[p] + Sum(rest)
        BY <3>3, <3>4
      <3>6. f[p] \in Nat /\ f[x] \in Nat /\ Sum(rest) \in Nat
        BY <2>1, SumType, FS_Subset
      <3> HIDE DEF p, rest, Sum
      <3>7. QED
        BY <2>2, <3>2, <3>5, <3>6
    <2>4. QED
      BY <2>2, <2>3
  <1>2. ASSUME NEW T \in SUBSET S, \A U \in SUBSET T : U # T => U \in Good
        PROVE  T \in Good
    BY <1>1, <1>2
  <1> HIDE DEF Good
  <1>3. S \in Good
    BY <1>2, SubsetInduction
  <1>4. QED
    BY <1>3 DEF Good

\* Sums over disjoint sets add up.
LEMMA SumUnion ==
  ASSUME NEW f, NEW S, NEW T, IsFiniteSet(S), IsFiniteSet(T), S \cap T = {},
         \A x \in S \cup T : f[x] \in Nat
  PROVE  SumFunctionOnSet(f, S \cup T) =
           SumFunctionOnSet(f, S) + SumFunctionOnSet(f, T)
  <1> DEFINE Sum(V) == SumFunctionOnSet(f, V)
             Good == {U \in SUBSET S : Sum(U \cup T) = Sum(U) + Sum(T)}
  <1>1. ASSUME NEW U \in SUBSET S, \A V \in SUBSET U : V # U => V \in Good
        PROVE  U \in Good
    <2>1. Sum(T) \in Nat
      BY SumType
    <2>2. CASE U = {}
      <3>1. Sum(U) = 0 /\ U \cup T = T
        BY <2>2, SumEmpty
      <3> HIDE DEF Sum
      <3>2. QED
        BY <2>1, <3>1
    <2>3. CASE U # {}
      <3>1. PICK x : x \in U
        BY <2>3
      <3> DEFINE V == U \ {x}
      <3>2. IsFiniteSet(U) /\ IsFiniteSet(V) /\ IsFiniteSet(U \cup T)
        BY FS_Subset, FS_Union
      <3>3. Sum(U) = f[x] + Sum(V)
        BY <3>1, <3>2, SumRemove
      <3>4. x \in U \cup T /\ (U \cup T) \ {x} = V \cup T
        BY <3>1
      <3>5. Sum(U \cup T) = f[x] + Sum(V \cup T)
        BY <3>2, <3>4, SumRemove
      <3>6. Sum(V \cup T) = Sum(V) + Sum(T)
        BY <1>1, <3>1
      <3>7. Sum(V) \in Nat /\ f[x] \in Nat
        BY <3>1, <3>2, SumType
      <3> HIDE DEF Sum, V
      <3>8. QED
        BY <2>1, <3>3, <3>5, <3>6, <3>7
    <2>4. QED
      BY <2>2, <2>3
  <1> HIDE DEF Good
  <1>2. S \in Good
    BY <1>1, SubsetInduction
  <1>3. QED
    BY <1>2 DEF Good

\* A sum is at most another one that counts, as at least as much, everything
\* that counts in the first.
LEMMA SumMonotone ==
  ASSUME NEW f, NEW g, NEW S, NEW T, IsFiniteSet(S), IsFiniteSet(T),
         \A x \in S : f[x] \in Nat, \A x \in T : g[x] \in Nat,
         \A x \in S : f[x] > 0 => x \in T /\ f[x] <= g[x]
  PROVE  SumFunctionOnSet(f, S) <= SumFunctionOnSet(g, T)
  <1> DEFINE SumF(V) == SumFunctionOnSet(f, V)
             SumG(V) == SumFunctionOnSet(g, V)
             Good == {U \in SUBSET S : SumF(U) <= SumG(U \cap T)}
  <1>1. ASSUME NEW U \in SUBSET S, \A V \in SUBSET U : V # U => V \in Good
        PROVE  U \in Good
    <2>1. CASE U = {}
      <3>1. SumF(U) = 0 /\ SumG(U \cap T) = 0
        BY <2>1, SumEmpty
      <3> HIDE DEF SumF, SumG
      <3>2. QED
        BY <3>1
    <2>2. CASE U # {}
      <3>1. PICK x : x \in U
        BY <2>2
      <3> DEFINE V == U \ {x}
                 UT == U \cap T
                 VT == V \cap T
      <3>2. IsFiniteSet(U) /\ IsFiniteSet(V) /\ IsFiniteSet(UT) /\ IsFiniteSet(VT)
        BY FS_Subset
      <3>3. SumF(U) = f[x] + SumF(V)
        BY <3>1, <3>2, SumRemove
      <3>4. SumF(V) <= SumG(VT)
        BY <1>1, <3>1
      <3>5. /\ SumF(V) \in Nat /\ SumG(VT) \in Nat /\ f[x] \in Nat
            /\ SumG(UT) \in Nat
        BY <3>1, <3>2, SumType
      <3>6. CASE x \in T
        <4>1. x \in UT /\ UT \ {x} = VT
          BY <3>1, <3>6
        <4>2. SumG(UT) = g[x] + SumG(VT)
          BY <3>2, <4>1, SumRemove
        <4>3. f[x] <= g[x] /\ g[x] \in Nat
          BY <3>1, <3>5, <3>6
        <4> HIDE DEF SumF, SumG, V, UT, VT
        <4>4. SumF(U) <= SumG(UT)
          BY <3>3, <3>4, <3>5, <4>2, <4>3
        <4>5. QED
          BY <4>4 DEF UT
      <3>7. CASE x \notin T
        <4>1. UT = VT
          BY <3>7
        <4>2. f[x] = 0
          BY <3>1, <3>5, <3>7
        <4> HIDE DEF SumF, SumG, V, UT, VT
        <4>3. SumF(U) <= SumG(UT)
          BY <3>3, <3>4, <3>5, <4>1, <4>2
        <4>4. QED
          BY <4>3 DEF UT
      <3>8. QED
        BY <3>6, <3>7
    <2>3. QED
      BY <2>1, <2>2
  <1>2. S \in Good
    <2> HIDE DEF Good
    <2>1. QED
      BY <1>1, SubsetInduction
  <1> DEFINE ST == S \cap T
             TS == T \ S
  <1>3. IsFiniteSet(ST) /\ IsFiniteSet(TS) /\ ST \cap TS = {} /\ ST \cup TS = T
    BY FS_Subset
  <1>4. SumG(T) = SumG(ST) + SumG(TS)
    <2> HIDE DEF ST, TS
    <2>1. QED
      BY <1>3, SumUnion
  <1>5. SumF(S) \in Nat /\ SumG(ST) \in Nat /\ SumG(TS) \in Nat
    BY <1>3, SumType
  <1>6. SumF(S) <= SumG(ST)
    BY <1>2
  <1> HIDE DEF SumF, SumG, ST, TS
  <1>7. SumF(S) <= SumG(T)
    BY <1>4, <1>5, <1>6
  <1>8. QED
    BY <1>7 DEF SumF, SumG

\* Equal summands make equal sums.
LEMMA SumSame ==
  ASSUME NEW f, NEW g, NEW S, IsFiniteSet(S),
         \A x \in S : f[x] \in Nat /\ g[x] = f[x]
  PROVE  SumFunctionOnSet(g, S) = SumFunctionOnSet(f, S)
  <1>1. /\ SumFunctionOnSet(g, S) <= SumFunctionOnSet(f, S)
        /\ SumFunctionOnSet(f, S) <= SumFunctionOnSet(g, S)
    BY SumMonotone
  <1>2. SumFunctionOnSet(g, S) \in Nat /\ SumFunctionOnSet(f, S) \in Nat
    BY SumType
  <1>3. QED
    BY <1>1, <1>2

\* What is added to one summand is added to the sum.
LEMMA SumAdd ==
  ASSUME NEW f, NEW g, NEW S, IsFiniteSet(S), \A x \in S : f[x] \in Nat,
         NEW e \in S, NEW c \in Nat, g[e] = f[e] + c,
         \A x \in S \ {e} : g[x] = f[x]
  PROVE  SumFunctionOnSet(g, S) = SumFunctionOnSet(f, S) + c
  <1> DEFINE R == S \ {e}
  <1>1. IsFiniteSet(R) /\ \A x \in S : g[x] \in Nat
    BY FS_RemoveElement
  <1>2. /\ SumFunctionOnSet(f, S) = f[e] + SumFunctionOnSet(f, R)
        /\ SumFunctionOnSet(g, S) = g[e] + SumFunctionOnSet(g, R)
    BY <1>1, SumRemove
  <1>3. SumFunctionOnSet(g, R) = SumFunctionOnSet(f, R)
    BY <1>1, SumSame
  <1>4. SumFunctionOnSet(f, R) \in Nat /\ f[e] \in Nat
    BY <1>1, SumType
  <1> HIDE DEF R
  <1>5. QED
    BY <1>2, <1>3, <1>4

-------------------------------------------------------------------------------
(* Sums by parts *)

\* Where h sends the elements of S, and what f sums to over each part.
Fiber(h, S, b) == {x \in S : h[x] = b}

\* A sum over S may be taken part by part.
LEMMA SumByParts ==
  ASSUME NEW f, NEW h, NEW S, IsFiniteSet(S), \A x \in S : f[x] \in Nat,
         NEW B, IsFiniteSet(B)
  PROVE  SumFunctionOnSet([b \in B |-> SumFunctionOnSet(f, Fiber(h, S, b))], B)
           = SumFunctionOnSet(f, {x \in S : h[x] \in B})
  <1> DEFINE part == [b \in B |-> SumFunctionOnSet(f, Fiber(h, S, b))]
             Over(C) == {x \in S : h[x] \in C}
             Good == {C \in SUBSET B :
                        SumFunctionOnSet(part, C) = SumFunctionOnSet(f, Over(C))}
  <1>1. \A b \in B : part[b] \in Nat
    BY SumType, FS_Subset DEF Fiber
  <1>2. ASSUME NEW C \in SUBSET B, \A D \in SUBSET C : D # C => D \in Good
        PROVE  C \in Good
    <2>1. CASE C = {}
      <3>1. Over(C) = {}
        BY <2>1
      <3> HIDE DEF Over, part
      <3>2. QED
        BY <2>1, <3>1, SumEmpty
    <2>2. CASE C # {}
      <3>1. PICK b : b \in C
        BY <2>2
      <3> DEFINE D == C \ {b}
      <3>2. SumFunctionOnSet(part, C) = part[b] + SumFunctionOnSet(part, D)
        <4> HIDE DEF part
        <4>1. IsFiniteSet(C) /\ \A c \in C : part[c] \in Nat
          BY <1>1, FS_Subset
        <4>2. QED
          BY <3>1, <4>1, SumRemove
      <3>3. SumFunctionOnSet(part, D) = SumFunctionOnSet(f, Over(D))
        BY <1>2, <3>1
      <3>4. part[b] = SumFunctionOnSet(f, Fiber(h, S, b))
        BY <3>1
      <3>5. /\ Over(C) = Fiber(h, S, b) \cup Over(D)
            /\ Fiber(h, S, b) \cap Over(D) = {}
            /\ Fiber(h, S, b) \subseteq S /\ Over(D) \subseteq S
        BY <3>1 DEF Fiber
      <3> HIDE DEF Over, D, part
      <3>6. IsFiniteSet(Fiber(h, S, b)) /\ IsFiniteSet(Over(D))
        BY <3>5, FS_Subset
      <3>7. SumFunctionOnSet(f, Over(C)) =
              SumFunctionOnSet(f, Fiber(h, S, b)) + SumFunctionOnSet(f, Over(D))
        BY <3>5, <3>6, SumUnion
      <3>8. QED
        BY <3>2, <3>3, <3>4, <3>7
    <2>3. QED
      BY <2>1, <2>2
  <1>3. B \in Good
    <2> HIDE DEF Good
    <2>1. QED
      BY <1>2, SubsetInduction
  <1>4. QED
    BY <1>3
===============================================================================
