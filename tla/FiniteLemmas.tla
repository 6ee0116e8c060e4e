------------------------------ MODULE FiniteLemmas ------------------------------
(***************************************************************************)
(* Facts about finite sets that the proofs of several services need.       *)
(***************************************************************************)
EXTENDS Integers, FiniteSets, Functions, FiniteSetTheorems, WellFoundedInduction, TLAPS

\* Among finitely many things numbered by natural numbers one has the highest
\* number: of the sets without one, a smallest would lose its lack with any member.
LEMMA HighestOfFinitelyMany ==
  ASSUME NEW S, IsFiniteSet(S), S # {}, NEW f \in [S -> Nat]
  PROVE  \E x \in S : \A y \in S : f[y] <= f[x]
<1> DEFINE Topped(A) == \E x \in A : \A y \in A : f[y] <= f[x]
           Bad == {A \in FiniteSubsetsOf(S) : A # {} /\ ~Topped(A)}
<1>1. SUFFICES ASSUME ~Topped(S) PROVE FALSE
  OBVIOUS
<1>2. S \in Bad
  BY <1>1 DEF FiniteSubsetsOf
<1>3. PICK A \in Bad : \A B \in Bad : <<B, A>> \notin StrictSubsetOrdering(S)
  <2>1. IsWellFoundedOn(StrictSubsetOrdering(S), FiniteSubsetsOf(S))
    BY FS_StrictSubsetOrderingWellFounded
  <2>2. Bad \subseteq FiniteSubsetsOf(S) /\ Bad # {}
    BY <1>2
  <2> HIDE DEF Bad
  <2> QED BY <2>1, <2>2, WFMin
<1>4. A \subseteq S /\ A # {} /\ IsFiniteSet(A) /\ ~Topped(A)
  BY DEF FiniteSubsetsOf
<1>5. PICK a \in A : TRUE
  BY <1>4
<1> DEFINE B == A \ {a}
<1>6. IsFiniteSet(B) /\ B \subseteq S /\ B # A
  BY <1>4, <1>5, FS_RemoveElement
<1>7. B # {}
  <2> SUFFICES ASSUME B = {} PROVE FALSE
    OBVIOUS
  <2>1. A = {a}
    BY <1>5
  <2> QED BY <2>1, <1>4
<1>8. B \notin Bad
  BY <1>3, <1>4, <1>6 DEF StrictSubsetOrdering
<1>9. Topped(B)
  BY <1>6, <1>7, <1>8 DEF FiniteSubsetsOf
<1>10. PICK b \in B : \A y \in B : f[y] <= f[b]
  BY <1>9
<1>11. f[a] \in Nat /\ f[b] \in Nat /\ \A y \in A : y = a \/ (y \in B /\ f[y] \in Nat)
  BY <1>4, <1>5, <1>10
<1>12. CASE f[a] <= f[b]
  BY <1>4, <1>10, <1>11, <1>12
<1>13. CASE f[b] < f[a]
  BY <1>4, <1>5, <1>10, <1>11, <1>13
<1> QED BY <1>11, <1>12, <1>13

\* A finite set of natural numbers has a maximum.
LEMMA FiniteHasMax ==
  ASSUME NEW S \in SUBSET Nat, IsFiniteSet(S), S # {}
  PROVE  \E x \in S : \A y \in S : y <= x
<1> DEFINE f == [x \in S |-> x]
<1>1. f \in [S -> Nat] /\ \A x \in S : f[x] = x
  OBVIOUS
<1>2. \E x \in S : \A y \in S : f[y] <= f[x]
  <2> HIDE DEF f
  <2> QED BY <1>1, HighestOfFinitelyMany
<1> HIDE DEF f
<1> QED BY <1>1, <1>2

\* The values of a function on a finite set are finitely many.
LEMMA FinitelyManyValues ==
  ASSUME NEW S, IsFiniteSet(S), NEW f, DOMAIN f = S
  PROVE  IsFiniteSet({f[x] : x \in S})
<1> DEFINE T == {f[x] : x \in S}
           g == [x \in S |-> f[x]]
<1>1. g \in Surjection(S, T)
  BY DEF Surjection
<1> QED BY <1>1, FS_Surjection

-----------------------------------------------------------------------------
\* Of the subsets of a finite set that have some property one is smallest: no
\* proper subset of it has the property.
LEMMA SmallestSubset ==
  ASSUME NEW S, IsFiniteSet(S), NEW Bad \in SUBSET SUBSET S, Bad # {}
  PROVE  \E A \in Bad : \A B \in Bad : B \subseteq A => B = A
<1>1. \A B \in Bad : B \in FiniteSubsetsOf(S)
  BY FS_Subset DEF FiniteSubsetsOf
<1>2. IsWellFoundedOn(StrictSubsetOrdering(S), FiniteSubsetsOf(S))
  BY FS_StrictSubsetOrderingWellFounded
<1>3. PICK A \in Bad : \A B \in Bad : <<B, A>> \notin StrictSubsetOrdering(S)
  BY <1>1, <1>2, WFMin
<1>4. \A B \in Bad : B \subseteq A => B = A
  BY <1>3 DEF StrictSubsetOrdering
<1> QED BY <1>4

\* The member of a set that SumFunction takes first, and what it computes on the way.
First(s) == CHOOSE x \in s : TRUE
Rest(s) == s \ {First(s)}
Sums(g, f, S) ==
  g = [s \in SUBSET S |-> IF s = {} THEN 0 ELSE f[First(s)] + g[Rest(s)]]

LEMMA RestIsSmaller ==
  ASSUME NEW s, s # {}
  PROVE  First(s) \in s /\ First(s) \notin Rest(s) /\ Rest(s) \subseteq s /\ Rest(s) # s
<1>1. First(s) \in s
  BY DEF First
<1> QED BY <1>1 DEF Rest

LEMMA SumFunctionIsFinalSum ==
  ASSUME NEW f
  PROVE  SumFunction(f) = (CHOOSE g : Sums(g, f, DOMAIN f))[DOMAIN f]
BY DEF SumFunction, SumFunctionOnSet, FoldFunctionOnSet, MapThenFoldSet, Sums, First, Rest

\* The sums of what f takes on the subsets of S do not depend on S.
LEMMA SumsAgree ==
  ASSUME NEW f, NEW S, IsFiniteSet(S), NEW T \in SUBSET S, NEW g, NEW h, Sums(g, f, S), Sums(h, f, T)
  PROVE  \A s \in SUBSET T : g[s] = h[s]
<1> DEFINE Bad == {s \in SUBSET T : g[s] # h[s]}
<1> SUFFICES ASSUME Bad # {} PROVE FALSE
  OBVIOUS
<1>1. IsFiniteSet(T)
  BY FS_Subset
<1>2. PICK s \in Bad : \A b \in Bad : b \subseteq s => b = s
  <2>1. Bad \in SUBSET SUBSET T
    OBVIOUS
  <2> HIDE DEF Bad
  <2> QED BY <1>1, <2>1, SmallestSubset
<1>3. /\ s \in SUBSET T /\ s \in SUBSET S /\ g[s] # h[s]
      /\ g[s] = IF s = {} THEN 0 ELSE f[First(s)] + g[Rest(s)]
      /\ h[s] = IF s = {} THEN 0 ELSE f[First(s)] + h[Rest(s)]
  BY <1>2 DEF Sums
<1>4. s # {}
  BY <1>3
<1>5. Rest(s) \notin Bad /\ Rest(s) \in SUBSET T
  BY <1>2, <1>3, <1>4, RestIsSmaller
<1>6. g[Rest(s)] = h[Rest(s)]
  BY <1>5
<1> QED BY <1>3, <1>4, <1>6

\* There are such sums: those of the smaller sets extend to a larger one.
LEMMA SumsExist ==
  ASSUME NEW f, NEW S, IsFiniteSet(S)
  PROVE  \E g : Sums(g, f, S)
<1> DEFINE Bad == {T \in SUBSET S : ~\E g : Sums(g, f, T)}
<1> SUFFICES ASSUME Bad # {} PROVE FALSE
  OBVIOUS
<1>1. PICK T \in Bad : \A B \in Bad : B \subseteq T => B = T
  <2>1. Bad \in SUBSET SUBSET S
    OBVIOUS
  <2> HIDE DEF Bad
  <2> QED BY <2>1, SmallestSubset
<1>2. T \in SUBSET S /\ IsFiniteSet(T) /\ ~\E g : Sums(g, f, T)
  BY <1>1, FS_Subset
<1> DEFINE G == [t \in SUBSET T |-> CHOOSE g : Sums(g, f, t)]
           h == [s \in SUBSET T |-> IF s = {} THEN 0 ELSE f[First(s)] + G[Rest(s)][Rest(s)]]
<1>3. ASSUME NEW t \in SUBSET T, t # T PROVE Sums(G[t], f, t)
  <2>1. \E g : Sums(g, f, t)
    BY <1>1, <1>2, <1>3
  <2> QED BY <2>1
<1>4. \A s \in SUBSET T : h[s] = IF s = {} THEN 0 ELSE f[First(s)] + G[Rest(s)][Rest(s)]
  OBVIOUS
<1>5. h = [s \in SUBSET T |-> h[s]]
  OBVIOUS
<1> HIDE DEF G, h, Bad
<1>6. ASSUME NEW s \in SUBSET T, s # {} PROVE G[Rest(s)][Rest(s)] = h[Rest(s)]
  <2>1. PICK u : u = Rest(s)
    OBVIOUS
  <2>2. u \in SUBSET T /\ u # T
    BY <1>6, <2>1, RestIsSmaller
  <2>3. Sums(G[u], f, u)
    BY <1>3, <2>2
  <2>4. CASE u = {}
    BY <1>4, <2>1, <2>2, <2>3, <2>4 DEF Sums
  <2>5. CASE u # {}
    <3>1. PICK w : w = Rest(u)
      OBVIOUS
    <3>2. w \in SUBSET u /\ w \in SUBSET T /\ w # T
      BY <2>2, <2>5, <3>1, RestIsSmaller
    <3>3. Sums(G[w], f, w)
      BY <1>3, <3>2
    <3>4. IsFiniteSet(u)
      BY <1>2, <2>2, FS_Subset
    <3>5. \A x \in SUBSET w : G[u][x] = G[w][x]
      <4>1. PICK gu, gw : gu = G[u] /\ gw = G[w]
        OBVIOUS
      <4>2. Sums(gu, f, u) /\ Sums(gw, f, w)
        BY <2>3, <3>3, <4>1
      <4>3. \A x \in SUBSET w : gu[x] = gw[x]
        BY <3>2, <3>4, <4>2, SumsAgree
      <4> QED BY <4>1, <4>3
    <3>6. G[u][u] = f[First(u)] + G[u][w]
      BY <2>3, <2>5, <3>1 DEF Sums
    <3>7. h[u] = f[First(u)] + G[w][w]
      BY <1>4, <2>2, <2>5, <3>1
    <3> QED BY <2>1, <3>5, <3>6, <3>7
  <2> QED BY <2>4, <2>5
<1>7. \A s \in SUBSET T : h[s] = IF s = {} THEN 0 ELSE f[First(s)] + h[Rest(s)]
  BY <1>4, <1>6
<1>8. h = [s \in SUBSET T |-> IF s = {} THEN 0 ELSE f[First(s)] + h[Rest(s)]]
  BY <1>5, <1>7
<1> QED BY <1>2, <1>8 DEF Sums

\* SumFunction on finitely many values is what the sums come to in the end.
LEMMA SumFunctionSums ==
  ASSUME NEW f, IsFiniteSet(DOMAIN f)
  PROVE  \E g : Sums(g, f, DOMAIN f) /\ SumFunction(f) = g[DOMAIN f]
BY SumsExist, SumFunctionIsFinalSum

\* Nothing sums up to nothing ...
LEMMA SumOfNothing ==
  ASSUME NEW S, IsFiniteSet(S), NEW f \in [S -> {0}]
  PROVE  SumFunction(f) = 0
<1>1. PICK g : Sums(g, f, S) /\ SumFunction(f) = g[S]
  BY SumFunctionSums
<1> DEFINE Bad == {s \in SUBSET S : g[s] # 0}
<1> SUFFICES ASSUME Bad # {} PROVE FALSE
  BY <1>1
<1>2. PICK s \in Bad : \A b \in Bad : b \subseteq s => b = s
  <2>1. Bad \in SUBSET SUBSET S
    OBVIOUS
  <2> HIDE DEF Bad
  <2> QED BY <2>1, SmallestSubset
<1>3. s \in SUBSET S /\ g[s] # 0 /\ g[s] = IF s = {} THEN 0 ELSE f[First(s)] + g[Rest(s)]
  BY <1>1, <1>2 DEF Sums
<1>4. First(s) \in s /\ f[First(s)] = 0
  BY <1>3, RestIsSmaller
<1>5. Rest(s) \notin Bad /\ Rest(s) \in SUBSET S
  BY <1>2, <1>3, <1>4, RestIsSmaller
<1> QED BY <1>3, <1>4, <1>5

\* ... and two functions together to the sum of what each sums up to.
LEMMA SumOfBoth ==
  ASSUME NEW S, IsFiniteSet(S), NEW f \in [S -> Nat], NEW h \in [S -> Nat],
         NEW both, DOMAIN both = S, \A x \in S : both[x] = f[x] + h[x]
  PROVE  SumFunction(both) = SumFunction(f) + SumFunction(h)
<1>1. PICK p : Sums(p, f, S) /\ SumFunction(f) = p[S]
  BY SumFunctionSums
<1>2. PICK q : Sums(q, h, S) /\ SumFunction(h) = q[S]
  BY SumFunctionSums
<1>3. PICK g : Sums(g, both, S) /\ SumFunction(both) = g[S]
  BY SumFunctionSums
<1> DEFINE Right(s) == p[s] \in Nat /\ q[s] \in Nat /\ g[s] = p[s] + q[s]
           Bad == {s \in SUBSET S : ~Right(s)}
<1>4. Bad = {}
  <2> SUFFICES ASSUME Bad # {} PROVE FALSE
    OBVIOUS
  <2>1. PICK s \in Bad : \A b \in Bad : b \subseteq s => b = s
    <3>1. Bad \in SUBSET SUBSET S
      OBVIOUS
    <3> HIDE DEF Bad
    <3> QED BY <3>1, SmallestSubset
  <2>2. /\ s \in SUBSET S /\ ~Right(s)
        /\ p[s] = IF s = {} THEN 0 ELSE f[First(s)] + p[Rest(s)]
        /\ q[s] = IF s = {} THEN 0 ELSE h[First(s)] + q[Rest(s)]
        /\ g[s] = IF s = {} THEN 0 ELSE both[First(s)] + g[Rest(s)]
    BY <1>1, <1>2, <1>3, <2>1 DEF Sums
  <2>3. s # {}
    BY <2>2
  <2>4. First(s) \in S /\ First(s) \in s
    BY <2>2, <2>3, RestIsSmaller
  <2>5. Rest(s) \notin Bad /\ Rest(s) \in SUBSET S
    BY <2>1, <2>2, <2>3, RestIsSmaller
  <2>6. Right(Rest(s))
    BY <2>5
  <2>7. f[First(s)] \in Nat /\ h[First(s)] \in Nat /\ both[First(s)] = f[First(s)] + h[First(s)]
    BY <2>4
  <2> QED BY <2>2, <2>3, <2>6, <2>7
<1>5. S \in SUBSET S /\ S \notin Bad
  BY <1>4
<1>6. Right(S)
  BY <1>5
<1> QED BY <1>1, <1>2, <1>3, <1>6
=============================================================================
