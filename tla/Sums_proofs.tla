------------------------------ MODULE Sums_proofs ------------------------------
(***************************************************************************)
(* Facts about sums over finite sets.                                      *)
(*                                                                         *)
(* The library's induction theorems take a predicate, which the provers    *)
(* cannot instantiate.  Here a predicate on subsets is the set of those it *)
(* holds for, and induction is a theorem about sets (Additions below).     *)
(***************************************************************************)
EXTENDS Sums, FiniteSetTheorems, WellFoundedInduction, TLAPS

-----------------------------------------------------------------------------
(* Induction.                                                              *)

\* Of the subsets of a finite set that are in B, one has no smaller one in B.
LEMMA Smallest ==
  ASSUME NEW S, IsFiniteSet(S), NEW B, B \subseteq SUBSET S, B # {}
  PROVE  \E t \in B : \A u \in B : ~(u \subseteq t /\ u # t)
<1> DEFINE R == StrictSubsetOrdering(S)
<1>1. IsWellFoundedOn(R, FiniteSubsetsOf(S))
  BY FS_StrictSubsetOrderingWellFounded
<1>2. B \subseteq FiniteSubsetsOf(S)
  BY FS_Subset DEF FiniteSubsetsOf
<1>3. PICK t \in B : \A u \in B : ~(<<u, t>> \in R)
  <2> HIDE DEF R
  <2> QED BY <1>1, <1>2, WFMin
<1>4. \A u \in B : u \subseteq t /\ u # t => <<u, t>> \in R
  BY DEF StrictSubsetOrdering
<1>5. \A u \in B : ~(u \subseteq t /\ u # t)
  BY <1>3, <1>4
<1> HIDE DEF R
<1> QED BY <1>5

\* A family of subsets of a finite set that has the empty one, and each it is
\* an element away from, has the whole set.
LEMMA Additions ==
  ASSUME NEW S, IsFiniteSet(S), NEW G, {} \in G,
         \A T \in SUBSET S : \A x \in S \ T : T \in G => T \cup {x} \in G
  PROVE  S \in G
<1> SUFFICES ASSUME S \notin G PROVE FALSE
  OBVIOUS
<1> DEFINE B == {t \in SUBSET S : t \notin G}
<1>1. PICK t \in B : \A u \in B : ~(u \subseteq t /\ u # t)
  <2>1. B \subseteq SUBSET S /\ B # {}
    OBVIOUS
  <2> HIDE DEF B
  <2> QED BY <2>1, Smallest
<1>2. PICK x \in t : TRUE
  OBVIOUS
<1>3. t \ {x} \in G
  BY <1>1, <1>2
<1>4. (t \ {x}) \cup {x} = t /\ x \in S \ (t \ {x}) /\ t \ {x} \in SUBSET S
  BY <1>1, <1>2
<1>5. t \in G
  BY <1>3, <1>4
<1> QED BY <1>1, <1>5

-----------------------------------------------------------------------------
(* The recursive function inside the community modules' fold.              *)

Pick(s) == CHOOSE x \in s : TRUE
Step(f, g, s) == IF s = {} THEN 0 ELSE f[Pick(s)] + g[s \ {Pick(s)}]

ArePartialSums(f, g, S) == g = [s \in SUBSET S |-> Step(f, g, s)]

PartialSums(f, S) == CHOOSE g : ArePartialSums(f, g, S)

LEMMA SumIsPartialSum ==
  ASSUME NEW f, NEW S
  PROVE  SumOver(f, S) = PartialSums(f, S)[S]
BY DEF SumOver, MapThenSumSet, MapThenFoldSet, PartialSums, ArePartialSums, Step,
   Pick

\* Two solutions agree wherever both are defined and the summands agree.
LEMMA PartialSumsAgree ==
  ASSUME NEW S, NEW T, NEW W, IsFiniteSet(W), W \subseteq S, W \subseteq T,
         NEW e, NEW f, \A x \in W : e[x] = f[x],
         NEW g, ArePartialSums(e, g, S), NEW h, ArePartialSums(f, h, T)
  PROVE  g[W] = h[W]
<1> SUFFICES ASSUME g[W] # h[W] PROVE FALSE
  OBVIOUS
<1> DEFINE B == {s \in SUBSET W : g[s] # h[s]}
<1>1. PICK s \in B : \A u \in B : ~(u \subseteq s /\ u # s)
  <2>1. B \subseteq SUBSET W /\ B # {}
    OBVIOUS
  <2> HIDE DEF B
  <2> QED BY <2>1, Smallest
<1>2. g[s] = Step(e, g, s) /\ h[s] = Step(f, h, s)
  <2>1. s \in SUBSET S /\ s \in SUBSET T
    OBVIOUS
  <2> QED BY <2>1 DEF ArePartialSums
<1>3. s # {}
  BY <1>1, <1>2 DEF Step
<1> DEFINE p == Pick(s)
<1>4. p \in s
  BY <1>3 DEF Pick
<1>5. g[s \ {p}] = h[s \ {p}]
  BY <1>1, <1>4
<1>6. e[p] = f[p]
  BY <1>4
<1> HIDE DEF p
<1>7. Step(e, g, s) = Step(f, h, s)
  BY <1>3, <1>5, <1>6 DEF Step, p
<1> QED BY <1>1, <1>2, <1>7

\* A finite set has a solution.
LEMMA PartialSumsExist ==
  ASSUME NEW S, IsFiniteSet(S), NEW f
  PROVE  ArePartialSums(f, PartialSums(f, S), S)
<1> DEFINE Solved(s) == \E g : ArePartialSums(f, g, s)
           B == {s \in SUBSET S : ~Solved(s)}
<1>1. SUFFICES ASSUME ~Solved(S) PROVE FALSE
  BY DEF PartialSums
<1>2. PICK t \in B : \A u \in B : ~(u \subseteq t /\ u # t)
  <2>1. B \subseteq SUBSET S /\ B # {}
    BY <1>1
  <2> HIDE DEF B
  <2> QED BY <2>1, Smallest
<1> DEFINE At(s) == PartialSums(f, s)
           Val(s) == IF s = {} THEN 0
                     ELSE f[Pick(s)] + At(s \ {Pick(s)})[s \ {Pick(s)}]
           G == [s \in SUBSET t |-> Val(s)]
<1>3. ASSUME NEW u \in SUBSET t, u # t
      PROVE  ArePartialSums(f, At(u), u)
  <2>1. Solved(u)
    BY <1>2, <1>3
  <2> QED BY <2>1 DEF PartialSums
<1>4. ASSUME NEW s \in SUBSET t, s # {}
      PROVE  /\ Pick(s) \in s /\ s \ {Pick(s)} \in SUBSET t
             /\ s \ {Pick(s)} # t
  BY <1>4 DEF Pick
<1>5. ASSUME NEW u \in SUBSET t, u # t
      PROVE  G[u] = At(u)[u]
  <2>1. At(u)[u] = Step(f, At(u), u)
    BY <1>3, <1>5 DEF ArePartialSums
  <2>2. CASE u = {}
    BY <2>1, <2>2 DEF Step
  <2>3. CASE u # {}
    <3> DEFINE r == u \ {Pick(u)}
    <3>1. r \in SUBSET t /\ r # t /\ r \subseteq u /\ IsFiniteSet(r)
      BY <1>4, <2>3, FS_Subset
    <3>2. ArePartialSums(f, At(u), u) /\ ArePartialSums(f, At(r), r)
      BY <1>3, <1>5, <3>1
    <3> HIDE DEF r, At
    <3>3. At(u)[r] = At(r)[r]
      BY <3>1, <3>2, PartialSumsAgree
    <3> QED BY <2>1, <2>3, <3>3 DEF Step, r
  <2> QED BY <2>2, <2>3
<1>6. ASSUME NEW s \in SUBSET t PROVE Val(s) = Step(f, G, s)
  <2>1. CASE s = {}
    BY <2>1 DEF Step
  <2>2. CASE s # {}
    <3>1. G[s \ {Pick(s)}] = At(s \ {Pick(s)})[s \ {Pick(s)}]
      BY <1>4, <1>5, <2>2
    <3> HIDE DEF G, At
    <3> QED BY <2>2, <3>1 DEF Step
  <2> QED BY <2>1, <2>2
<1>7. ArePartialSums(f, G, t)
  <2>1. G = [s \in SUBSET t |-> Step(f, G, s)]
    <3> HIDE DEF Val
    <3> QED BY <1>6
  <2> HIDE DEF G
  <2> QED BY <2>1 DEF ArePartialSums
<1> QED BY <1>2, <1>7

-----------------------------------------------------------------------------
(* The sum, one element at a time.                                         *)

LEMMA SumEmpty ==
  ASSUME NEW f
  PROVE  SumOver(f, {}) = 0
<1>1. ArePartialSums(f, PartialSums(f, {}), {})
  BY FS_EmptySet, PartialSumsExist
<1> QED BY <1>1, SumIsPartialSum DEF ArePartialSums, Step

LEMMA SumPick ==
  ASSUME NEW S, IsFiniteSet(S), S # {}, NEW f
  PROVE  /\ Pick(S) \in S
         /\ SumOver(f, S) = f[Pick(S)] + SumOver(f, S \ {Pick(S)})
<1> DEFINE p == Pick(S)
           r == S \ {p}
<1>1. p \in S
  BY DEF Pick
<1>2. IsFiniteSet(r) /\ r \in SUBSET S
  BY FS_Subset
<1>3. /\ ArePartialSums(f, PartialSums(f, S), S)
      /\ ArePartialSums(f, PartialSums(f, r), r)
  BY <1>2, PartialSumsExist
<1>4. PartialSums(f, S)[r] = PartialSums(f, r)[r]
  <2> DEFINE k == PartialSums(f, S)
             h == PartialSums(f, r)
  <2>1. /\ r \subseteq S /\ r \subseteq r /\ \A x \in r : f[x] = f[x]
        /\ ArePartialSums(f, k, S) /\ ArePartialSums(f, h, r)
    BY <1>3
  <2> HIDE DEF r, k, h
  <2>2. k[r] = h[r]
    BY <1>2, <2>1, PartialSumsAgree
  <2> QED BY <2>2 DEF k, h
<1>5. PartialSums(f, S)[S] = Step(f, PartialSums(f, S), S)
  BY <1>3 DEF ArePartialSums
<1>6. PartialSums(f, S)[S] = f[p] + PartialSums(f, S)[r]
  BY <1>5 DEF Step
<1> HIDE DEF p, r
<1>7. SumOver(f, S) = f[p] + SumOver(f, r)
  BY <1>4, <1>6, SumIsPartialSum
<1> QED BY <1>1, <1>7 DEF p, r

\* Equal summands, equal sums.
LEMMA SumSame ==
  ASSUME NEW S, IsFiniteSet(S), NEW f, NEW g, \A x \in S : f[x] = g[x]
  PROVE  SumOver(f, S) = SumOver(g, S)
<1> DEFINE B == {s \in SUBSET S : SumOver(f, s) # SumOver(g, s)}
<1> SUFFICES ASSUME B # {} PROVE FALSE
  OBVIOUS
<1>1. PICK s \in B : \A u \in B : ~(u \subseteq s /\ u # s)
  <2>1. B \subseteq SUBSET S
    OBVIOUS
  <2> HIDE DEF B
  <2> QED BY <2>1, Smallest
<1>2. s # {} /\ IsFiniteSet(s)
  BY <1>1, SumEmpty, FS_Subset
<1> DEFINE r == s \ {Pick(s)}
<1>3. /\ Pick(s) \in s
      /\ SumOver(f, s) = f[Pick(s)] + SumOver(f, r)
      /\ SumOver(g, s) = g[Pick(s)] + SumOver(g, r)
  BY <1>2, SumPick
<1>4. SumOver(f, r) = SumOver(g, r)
  BY <1>1, <1>3
<1>5. f[Pick(s)] = g[Pick(s)]
  BY <1>3
<1> QED BY <1>1, <1>3, <1>4, <1>5

LEMMA SumType ==
  ASSUME NEW S, IsFiniteSet(S), NEW f, \A x \in S : f[x] \in Int
  PROVE  SumOver(f, S) \in Int
<1> DEFINE B == {s \in SUBSET S : SumOver(f, s) \notin Int}
<1> SUFFICES ASSUME B # {} PROVE FALSE
  OBVIOUS
<1>1. PICK s \in B : \A u \in B : ~(u \subseteq s /\ u # s)
  <2>1. B \subseteq SUBSET S
    OBVIOUS
  <2> HIDE DEF B
  <2> QED BY <2>1, Smallest
<1>2. s # {} /\ IsFiniteSet(s)
  <2>1. SumOver(f, {}) \in Int
    BY SumEmpty
  <2>2. SumOver(f, s) \notin Int /\ s \in SUBSET S
    BY <1>1
  <2> QED BY <2>1, <2>2, FS_Subset
<1>3. Pick(s) \in s /\ SumOver(f, s) = f[Pick(s)] + SumOver(f, s \ {Pick(s)})
  BY <1>2, SumPick
<1>4. SumOver(f, s \ {Pick(s)}) \in Int
  BY <1>1, <1>3
<1>5. f[Pick(s)] \in Int
  BY <1>3
<1> QED BY <1>1, <1>3, <1>4, <1>5

\* Any element may be taken out first.
LEMMA SumRemove ==
  ASSUME NEW S, IsFiniteSet(S), NEW f, \A x \in S : f[x] \in Int, NEW a \in S
  PROVE  SumOver(f, S) = f[a] + SumOver(f, S \ {a})
<1> DEFINE Fails(s) == \E b \in s : SumOver(f, s) # f[b] + SumOver(f, s \ {b})
           B == {s \in SUBSET S : Fails(s)}
<1> SUFFICES ASSUME B # {} PROVE FALSE
  OBVIOUS
<1>1. PICK s \in B : \A u \in B : ~(u \subseteq s /\ u # s)
  <2>1. B \subseteq SUBSET S
    OBVIOUS
  <2> HIDE DEF B
  <2> QED BY <2>1, Smallest
<1>2. PICK b \in s : SumOver(f, s) # f[b] + SumOver(f, s \ {b})
  BY <1>1
<1> DEFINE p == Pick(s)
<1>3. p \in s /\ SumOver(f, s) = f[p] + SumOver(f, s \ {p})
  BY <1>2, SumPick, FS_Subset
<1>4. p # b
  BY <1>2, <1>3
<1> DEFINE r == s \ {p, b}
<1>5. /\ s \ {p} \in SUBSET S /\ s \ {p} # s /\ b \in s \ {p} /\ (s \ {p}) \ {b} = r
      /\ s \ {b} \in SUBSET S /\ s \ {b} # s /\ p \in s \ {b} /\ (s \ {b}) \ {p} = r
  BY <1>2, <1>3, <1>4
<1>6. ~Fails(s \ {p}) /\ ~Fails(s \ {b})
  BY <1>1, <1>5
<1>7. /\ SumOver(f, s \ {p}) = f[b] + SumOver(f, r)
      /\ SumOver(f, s \ {b}) = f[p] + SumOver(f, r)
  BY <1>5, <1>6
<1>8. IsFiniteSet(r) /\ r \in SUBSET S
  BY FS_Subset
<1>9. f[p] \in Int /\ f[b] \in Int /\ SumOver(f, r) \in Int
  BY <1>3, <1>2, <1>8, SumType
<1> QED BY <1>2, <1>3, <1>7, <1>9

LEMMA SumAdd ==
  ASSUME NEW S, IsFiniteSet(S), NEW a, a \notin S,
         NEW f, \A x \in S \cup {a} : f[x] \in Int
  PROVE  SumOver(f, S \cup {a}) = f[a] + SumOver(f, S)
<1>1. IsFiniteSet(S \cup {a}) /\ (S \cup {a}) \ {a} = S
  BY FS_AddElement
<1> QED BY <1>1, SumRemove

-----------------------------------------------------------------------------
(* Sums of one set, by adding its elements.                                *)

\* A sum of sums.
LEMMA SumPlus ==
  ASSUME NEW S, IsFiniteSet(S), NEW f, NEW g, NEW h,
         \A x \in S : f[x] \in Int /\ g[x] \in Int /\ h[x] = f[x] + g[x]
  PROVE  SumOver(h, S) = SumOver(f, S) + SumOver(g, S)
<1> DEFINE G == {T \in SUBSET S : SumOver(h, T) = SumOver(f, T) + SumOver(g, T)}
<1>1. {} \in G
  BY SumEmpty
<1>2. ASSUME NEW T \in SUBSET S, NEW x \in S \ T, T \in G
      PROVE  T \cup {x} \in G
  <2>1. IsFiniteSet(T) /\ \A y \in T \cup {x} : f[y] \in Int /\ g[y] \in Int /\ h[y] \in Int
    BY FS_Subset
  <2>2. /\ SumOver(f, T \cup {x}) = f[x] + SumOver(f, T)
        /\ SumOver(g, T \cup {x}) = g[x] + SumOver(g, T)
        /\ SumOver(h, T \cup {x}) = h[x] + SumOver(h, T)
    BY <2>1, SumAdd
  <2>3. SumOver(f, T) \in Int /\ SumOver(g, T) \in Int
    BY <2>1, SumType
  <2> QED BY <1>2, <2>1, <2>2, <2>3
<1> HIDE DEF G
<1>3. S \in G
  BY <1>1, <1>2, Additions
<1> QED BY <1>3 DEF G

\* Ten times a sum.
LEMMA SumTimes ==
  ASSUME NEW S, IsFiniteSet(S), NEW k \in Int, NEW f, NEW h,
         \A x \in S : f[x] \in Int /\ h[x] = k * f[x]
  PROVE  SumOver(h, S) = k * SumOver(f, S)
<1> DEFINE G == {T \in SUBSET S : SumOver(h, T) = k * SumOver(f, T)}
<1>1. {} \in G
  BY SumEmpty
<1>2. ASSUME NEW T \in SUBSET S, NEW x \in S \ T, T \in G
      PROVE  T \cup {x} \in G
  <2>1. IsFiniteSet(T) /\ \A y \in T \cup {x} : f[y] \in Int /\ h[y] \in Int
    BY FS_Subset
  <2>2. /\ SumOver(f, T \cup {x}) = f[x] + SumOver(f, T)
        /\ SumOver(h, T \cup {x}) = h[x] + SumOver(h, T)
    BY <2>1, SumAdd
  <2>3. SumOver(f, T) \in Int
    BY <2>1, SumType
  <2>4. k * (f[x] + SumOver(f, T)) = k * f[x] + k * SumOver(f, T)
    BY <2>1, <2>3
  <2> QED BY <1>2, <2>2, <2>4
<1> HIDE DEF G
<1>3. S \in G
  BY <1>1, <1>2, Additions
<1> QED BY <1>3 DEF G

\* Elements that count for nothing can be left out.
LEMMA SumRest ==
  ASSUME NEW S, IsFiniteSet(S), NEW U \in SUBSET S, NEW f,
         \A x \in S : f[x] \in Int, \A x \in S \ U : f[x] = 0
  PROVE  SumOver(f, S) = SumOver(f, U)
<1> DEFINE G == {T \in SUBSET S : SumOver(f, T) = SumOver(f, T \cap U)}
<1>1. {} \in G
  BY SumEmpty
<1>2. ASSUME NEW T \in SUBSET S, NEW x \in S \ T, T \in G
      PROVE  T \cup {x} \in G
  <2>1. IsFiniteSet(T) /\ IsFiniteSet(T \cap U)
    BY FS_Subset
  <2>2. SumOver(f, T \cup {x}) = f[x] + SumOver(f, T)
    BY <2>1, SumAdd
  <2>3. SumOver(f, T) \in Int
    BY <2>1, SumType
  <2>4. CASE x \in U
    <3>1. (T \cup {x}) \cap U = (T \cap U) \cup {x} /\ x \notin T \cap U
      BY <2>4
    <3>2. SumOver(f, (T \cap U) \cup {x}) = f[x] + SumOver(f, T \cap U)
      BY <2>1, <3>1, SumAdd
    <3> QED BY <1>2, <2>2, <3>1, <3>2
  <2>5. CASE x \notin U
    <3>1. (T \cup {x}) \cap U = T \cap U /\ f[x] = 0
      BY <2>5
    <3>2. SumOver(f, T) = SumOver(f, T \cap U)
      BY <1>2
    <3>3. f[x] + SumOver(f, T) = SumOver(f, T)
      BY <2>3, <3>1
    <3>4. SumOver(f, (T \cup {x}) \cap U) = SumOver(f, T \cap U)
      BY <3>1, Zenon
    <3>5. SumOver(f, T \cup {x}) = SumOver(f, (T \cup {x}) \cap U)
      BY <2>2, <3>2, <3>3, <3>4, Zenon
    <3> QED BY <3>5
  <2> QED BY <2>4, <2>5
<1> HIDE DEF G
<1>3. S \in G
  BY <1>1, <1>2, Additions
<1>4. S \cap U = U
  OBVIOUS
<1> QED BY <1>3, <1>4 DEF G

\* Summands within bounds, a sum within bounds.
LEMMA SumWithin ==
  ASSUME NEW S, IsFiniteSet(S), NEW k \in Nat, NEW f, \A x \in S : f[x] \in 0..k
  PROVE  SumOver(f, S) \in 0..(k * Cardinality(S))
<1> DEFINE G == {T \in SUBSET S : SumOver(f, T) \in 0..(k * Cardinality(T))}
<1>1. {} \in G
  <2>1. k * 0 = 0
    OBVIOUS
  <2> QED BY <2>1, SumEmpty, FS_EmptySet
<1>2. ASSUME NEW T \in SUBSET S, NEW x \in S \ T, T \in G
      PROVE  T \cup {x} \in G
  <2>1. IsFiniteSet(T) /\ \A y \in T \cup {x} : f[y] \in Int
    BY FS_Subset
  <2>2. SumOver(f, T \cup {x}) = f[x] + SumOver(f, T)
    BY <2>1, SumAdd
  <2>3. Cardinality(T) \in Nat /\ Cardinality(T \cup {x}) = Cardinality(T) + 1
    BY <2>1, FS_AddElement, FS_CardinalityType
  <2>4. k * (Cardinality(T) + 1) = k * Cardinality(T) + k /\ k * Cardinality(T) \in Int
    <3>1. \A n \in Nat : k * (n + 1) = k * n + k /\ k * n \in Int
      OBVIOUS
    <3> QED BY <2>3, <3>1
  <2>5. SumOver(f, T) \in Int /\ f[x] \in 0..k
    BY <2>1, SumType
  <2>6. 0 <= SumOver(f, T) /\ SumOver(f, T) <= k * Cardinality(T)
    BY <1>2, <2>4
  <2>7. SumOver(f, T \cup {x}) \in 0..(k * Cardinality(T \cup {x}))
    BY <2>2, <2>3, <2>4, <2>5, <2>6
  <2> QED BY <2>7
<1> HIDE DEF G
<1>3. S \in G
  BY <1>1, <1>2, Additions
<1> QED BY <1>3 DEF G

\* Natural numbers sum up to no less than any of them.
LEMMA SumNatural ==
  ASSUME NEW S, IsFiniteSet(S), NEW f, \A x \in S : f[x] \in Nat
  PROVE  SumOver(f, S) \in Nat /\ \A a \in S : f[a] <= SumOver(f, S)
<1> DEFINE G == {T \in SUBSET S : SumOver(f, T) \in Nat}
<1>1. {} \in G
  BY SumEmpty
<1>2. ASSUME NEW T \in SUBSET S, NEW x \in S \ T, T \in G
      PROVE  T \cup {x} \in G
  <2>1. IsFiniteSet(T) /\ \A y \in T \cup {x} : f[y] \in Nat /\ f[y] \in Int
    BY FS_Subset
  <2>2. SumOver(f, T \cup {x}) = f[x] + SumOver(f, T)
    BY <2>1, SumAdd
  <2> QED BY <1>2, <2>1, <2>2
<1> HIDE DEF G
<1>3. S \in G
  BY <1>1, <1>2, Additions
<1>4. ASSUME NEW a \in S PROVE f[a] <= SumOver(f, S)
  <2> DEFINE R == S \ {a}
  <2>1. R \in SUBSET S /\ IsFiniteSet(R)
    BY FS_Subset
  <2>2. R \in G
    <3> DEFINE H == {T \in SUBSET R : T \in G}
    <3>1. {} \in H
      BY <1>1
    <3>2. \A T \in SUBSET R : \A x \in R \ T : T \in H => T \cup {x} \in H
      BY <1>2
    <3> HIDE DEF H, R
    <3>3. R \in H
      BY <2>1, <3>1, <3>2, Additions
    <3> QED BY <3>3 DEF H
  <2>3. SumOver(f, R) \in Nat
    BY <2>2 DEF G
  <2>4. SumOver(f, S) = f[a] + SumOver(f, R)
    BY SumRemove
  <2> QED BY <2>3, <2>4
<1> QED BY <1>3, <1>4 DEF G

\* Counting is summing ones.
LEMMA SumOnes ==
  ASSUME NEW S, IsFiniteSet(S), NEW f, \A x \in S : f[x] = 1
  PROVE  SumOver(f, S) = Cardinality(S)
<1> DEFINE G == {T \in SUBSET S : SumOver(f, T) = Cardinality(T)}
<1>1. {} \in G
  BY SumEmpty, FS_EmptySet
<1>2. ASSUME NEW T \in SUBSET S, NEW x \in S \ T, T \in G
      PROVE  T \cup {x} \in G
  <2>1. IsFiniteSet(T) /\ \A y \in T \cup {x} : f[y] \in Int /\ f[x] = 1
    BY FS_Subset
  <2>2. SumOver(f, T \cup {x}) = f[x] + SumOver(f, T)
    BY <2>1, SumAdd
  <2>3. Cardinality(T) \in Nat /\ Cardinality(T \cup {x}) = Cardinality(T) + 1
    BY <2>1, FS_AddElement, FS_CardinalityType
  <2> QED BY <1>2, <2>1, <2>2, <2>3
<1> HIDE DEF G
<1>3. S \in G
  BY <1>1, <1>2, Additions
<1> QED BY <1>3 DEF G

-----------------------------------------------------------------------------
(* Sums by classes.                                                        *)

\* A sum is the sum over the classes of the sums in each.
LEMMA SumByClass ==
  ASSUME NEW S, IsFiniteSet(S), NEW K, IsFiniteSet(K),
         NEW c, \A x \in S : c[x] \in K,
         NEW f, \A x \in S : f[x] \in Int
  PROVE  SumOver(f, S)
           = SumOver([k \in K |-> SumOver(f, {x \in S : c[x] = k})], K)
<1> DEFINE In(T, k) == {x \in T : c[x] = k}
           F(T) == [k \in K |-> SumOver(f, In(T, k))]
           G == {T \in SUBSET S : SumOver(f, T) = SumOver(F(T), K)}
<1>0. ASSUME NEW T \in SUBSET S, NEW k \in K
      PROVE  IsFiniteSet(T) /\ IsFiniteSet(In(T, k)) /\ F(T)[k] \in Int
  <2>1. IsFiniteSet(T) /\ IsFiniteSet(In(T, k)) /\ \A x \in In(T, k) : f[x] \in Int
    BY FS_Subset
  <2> HIDE DEF In
  <2>2. SumOver(f, In(T, k)) \in Int
    BY <2>1, SumType
  <2> QED BY <2>1, <2>2
<1>1. {} \in G
  <2>1. \A k \in K : F({})[k] = 0
    <3>1. \A k \in K : In({}, k) = {}
      OBVIOUS
    <3> QED BY <3>1, SumEmpty
  <2> HIDE DEF F
  <2>2. SumOver(F({}), K) = SumOver(F({}), {})
    BY <2>1, SumRest
  <2>3. SumOver(f, {}) = SumOver(F({}), K)
    BY <2>2, SumEmpty
  <2> QED BY <2>3
<1>2. ASSUME NEW T \in SUBSET S, NEW x \in S \ T, T \in G
      PROVE  T \cup {x} \in G
  <2> DEFINE U == T \cup {x}
             j == c[x]
  <2>1. U \in SUBSET S /\ j \in K
    OBVIOUS
  <2>2. /\ IsFiniteSet(T) /\ \A k \in K : F(T)[k] \in Int /\ F(U)[k] \in Int
        /\ IsFiniteSet(In(T, j))
    BY <1>0, <2>1
  <2>3. SumOver(f, U) = f[x] + SumOver(f, T)
    BY <2>2, SumAdd
  <2>4. F(U)[j] = f[x] + F(T)[j]
    <3>1. In(U, j) = In(T, j) \cup {x} /\ x \notin In(T, j)
      OBVIOUS
    <3>2. \A y \in In(T, j) \cup {x} : f[y] \in Int
      OBVIOUS
    <3> HIDE DEF In
    <3>3. SumOver(f, In(T, j) \cup {x}) = f[x] + SumOver(f, In(T, j))
      BY <2>2, <3>1, <3>2, SumAdd
    <3> QED BY <2>1, <3>1, <3>3
  <2>5. \A k \in K \ {j} : F(U)[k] = F(T)[k]
    <3>1. \A k \in K \ {j} : In(U, k) = In(T, k)
      OBVIOUS
    <3> QED BY <3>1
  <2> HIDE DEF F
  <2>6. /\ SumOver(F(U), K) = F(U)[j] + SumOver(F(U), K \ {j})
        /\ SumOver(F(T), K) = F(T)[j] + SumOver(F(T), K \ {j})
    BY <2>1, <2>2, SumRemove
  <2>7. IsFiniteSet(K \ {j})
    BY FS_Subset
  <2>8. SumOver(F(U), K \ {j}) = SumOver(F(T), K \ {j})
    BY <2>5, <2>7, SumSame
  <2>9. SumOver(F(T), K \ {j}) \in Int
    BY <2>2, <2>7, SumType
  <2>10. F(T)[j] \in Int /\ f[x] \in Int /\ SumOver(f, T) = SumOver(F(T), K)
    BY <1>2, <2>1, <2>2
  <2>11. SumOver(f, U) = SumOver(F(U), K)
    BY <2>3, <2>4, <2>6, <2>8, <2>9, <2>10
  <2> QED BY <2>1, <2>11
<1> HIDE DEF G
<1>3. S \in G
  BY <1>1, <1>2, Additions
<1> QED BY <1>3 DEF G

LEMMA SumSingleton ==
  ASSUME NEW a, NEW f, f[a] \in Int
  PROVE  SumOver(f, {a}) = f[a]
<1>1. IsFiniteSet({a}) /\ {a} \ {a} = {} /\ a \in {a} /\ \A x \in {a} : f[x] \in Int
  BY FS_Singleton
<1>2. SumOver(f, {a}) = f[a] + SumOver(f, {a} \ {a})
  BY <1>1, SumRemove
<1> QED BY <1>1, <1>2, SumEmpty

\* Summands of other names: b takes S to T one to one.
LEMMA SumRenamed ==
  ASSUME NEW S, IsFiniteSet(S), NEW T, NEW b \in Bijection(S, T),
         NEW f, NEW g, \A x \in S : f[x] \in Int /\ g[b[x]] = f[x]
  PROVE  SumOver(g, T) = SumOver(f, S)
<1> DEFINE F == [k \in T |-> SumOver(f, {x \in S : b[x] = k})]
<1>1. /\ \A x \in S : b[x] \in T
      /\ \A x, y \in S : b[x] = b[y] => x = y
      /\ \A k \in T : \E x \in S : b[x] = k
  BY DEF Bijection, Injection, Surjection, IsInjective
<1>2. IsFiniteSet(T)
  BY FS_Bijection DEF ExistsBijection
<1>3. SumOver(f, S) = SumOver(F, T)
  BY <1>1, <1>2, SumByClass
<1>4. ASSUME NEW k \in T PROVE F[k] = g[k]
  <2>1. PICK x \in S : b[x] = k
    BY <1>1
  <2>2. {y \in S : b[y] = k} = {x}
    BY <1>1, <2>1
  <2>3. SumOver(f, {x}) = f[x]
    BY SumSingleton
  <2> QED BY <2>1, <2>2, <2>3
<1> HIDE DEF F
<1>5. SumOver(F, T) = SumOver(g, T)
  BY <1>2, <1>4, SumSame
<1> QED BY <1>3, <1>5
=============================================================================
