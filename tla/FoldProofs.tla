----------------------------- MODULE FoldProofs -----------------------------
(***************************************************************************)
(* What the folds of the models compute. The library's induction theorems  *)
(* take an operator, so induction is done here over families of finite     *)
(* sets, each of which has a minimal member.                               *)
(***************************************************************************)
EXTENDS Integers, SequencesExt, FiniteSetsExt, FiniteSetTheorems, WellFoundedInduction, TLAPS

\* A counterexample among the subsets of a finite set can be taken minimal.
LEMMA MinimalSet ==
    ASSUME NEW S, IsFiniteSet(S), NEW Family \in SUBSET SUBSET S, Family # {}
    PROVE  \E T \in Family : \A U \in Family : U \subseteq T => U = T
<1>1. FiniteSubsetsOf(S) = SUBSET S
  BY FS_FiniteSubsetsOfFinite
<1>2. IsWellFoundedOn(StrictSubsetOrdering(S), SUBSET S)
  BY <1>1, FS_StrictSubsetOrderingWellFounded
<1>3. PICK T \in Family : \A U \in Family : <<U, T>> \notin StrictSubsetOrdering(S)
  BY <1>2, WFMin
<1>4. \A U \in Family : U \subseteq T => U = T
  BY <1>3 DEF StrictSubsetOrdering
<1>. QED BY <1>4

-----------------------------------------------------------------------------
\* h is a fold of the subsets of T: pick chooses the element to take out of a set, and
\* step adds it to what the rest comes to.
Folds(h, T, pick, step, base) ==
    h = [s \in SUBSET T |->
            IF s = {} THEN base ELSE step[pick[s]][h[s \ {pick[s]}]]]

Picks(pick, S) == \A s \in (SUBSET S) \ {{}} : pick[s] \in s

LEMMA FoldsAgree ==
    ASSUME NEW S, IsFiniteSet(S), NEW pick, Picks(pick, S), NEW step, NEW base,
           NEW T \in SUBSET S, NEW U \in SUBSET S, NEW g, NEW h,
           Folds(g, T, pick, step, base), Folds(h, U, pick, step, base)
    PROVE  \A s \in SUBSET (T \cap U) : g[s] = h[s]
<1>. DEFINE Differ == {s \in SUBSET (T \cap U) : g[s] # h[s]}
<1>. SUFFICES ASSUME Differ # {} PROVE FALSE
  OBVIOUS
<1>1. Differ \in SUBSET SUBSET S
  OBVIOUS
<1>. HIDE DEF Differ
<1>2. PICK s \in Differ : \A r \in Differ : r \subseteq s => r = s
  BY <1>1, MinimalSet
<1>3. s \in SUBSET T /\ s \in SUBSET U /\ g[s] # h[s]
  BY <1>2 DEF Differ
<1>4. s # {}
  BY <1>3 DEF Folds
<1>5. pick[s] \in s
  BY <1>3, <1>4 DEF Picks
<1>6. s \ {pick[s]} \notin Differ
  BY <1>2, <1>5
<1>7. g[s \ {pick[s]}] = h[s \ {pick[s]}]
  BY <1>3, <1>6 DEF Differ
<1>8. g[s] = step[pick[s]][g[s \ {pick[s]}]] /\ h[s] = step[pick[s]][h[s \ {pick[s]}]]
  BY <1>3, <1>4 DEF Folds
<1>. QED BY <1>3, <1>7, <1>8

\* Every finite set has a fold, whatever is chosen and added.
LEMMA FoldExists ==
    ASSUME NEW S, IsFiniteSet(S), NEW pick, Picks(pick, S), NEW step, NEW base
    PROVE  \E h : Folds(h, S, pick, step, base)
<1>. DEFINE Without == {T \in SUBSET S : ~ \E h : Folds(h, T, pick, step, base)}
<1>. SUFFICES ASSUME Without # {} PROVE FALSE
  OBVIOUS
<1>1. Without \in SUBSET SUBSET S
  OBVIOUS
<1>. HIDE DEF Without
<1>2. PICK T \in Without : \A U \in Without : U \subseteq T => U = T
  BY <1>1, MinimalSet
<1>3. T \in SUBSET S /\ ~ \E h : Folds(h, T, pick, step, base)
  BY <1>2 DEF Without
<1>. DEFINE H(U) == CHOOSE h : Folds(h, U, pick, step, base)
<1>4. \A U \in SUBSET T : U # T => Folds(H(U), U, pick, step, base)
  BY <1>2, <1>3 DEF Without
<1>. DEFINE Rest == T \ {pick[T]}
            top == IF T = {} THEN base ELSE step[pick[T]][H(Rest)[Rest]]
            h == [s \in SUBSET T |-> IF s = T THEN top ELSE H(s)[s]]
<1>. HIDE DEF H
<1>5. ASSUME NEW s \in SUBSET T
      PROVE  h[s] = IF s = {} THEN base ELSE step[pick[s]][h[s \ {pick[s]}]]
  <2>1. CASE s = {}
    <3>1. CASE s = T
      BY <2>1, <3>1
    <3>2. CASE s # T
      BY <2>1, <3>2, <1>4 DEF Folds
    <3>. QED BY <3>1, <3>2
  <2>2. CASE s # {}
    <3>. DEFINE r == s \ {pick[s]}
    <3>1. pick[s] \in s
      BY <1>3, <2>2 DEF Picks
    <3>2. r \in SUBSET T /\ r # T /\ r # s
      BY <3>1
    <3>3. h[r] = H(r)[r]
      BY <3>2
    <3>4. CASE s = T
      BY <2>2, <3>3, <3>4
    <3>5. CASE s # T
      <4>1. Folds(H(s), s, pick, step, base) /\ Folds(H(r), r, pick, step, base)
        BY <1>4, <3>2, <3>5
      <4>2. H(s)[s] = step[pick[s]][H(s)[r]]
        BY <4>1, <2>2 DEF Folds
      <4>3. s \in SUBSET S /\ r \in SUBSET S /\ r \in SUBSET (s \cap r)
        BY <1>3
      <4>4. H(s)[r] = H(r)[r]
        BY <4>1, <4>3, FoldsAgree
      <4>. QED BY <2>2, <3>3, <3>5, <4>2, <4>4
    <3>. QED BY <3>4, <3>5
  <2>. QED BY <2>1, <2>2
<1>6. Folds(h, T, pick, step, base)
  <2>. HIDE DEF h
  <2>. SUFFICES h = [s \in SUBSET T |->
                        IF s = {} THEN base ELSE step[pick[s]][h[s \ {pick[s]}]]]
    BY DEF Folds
  <2>1. h = [s \in SUBSET T |-> h[s]]
    BY DEF h
  <2>. QED BY <1>5, <2>1
<1>. QED BY <1>3, <1>6

LEMMA FoldType ==
    ASSUME NEW S, IsFiniteSet(S), NEW pick, Picks(pick, S), NEW V, NEW base \in V,
           NEW step, \A x \in S, v \in V : step[x][v] \in V,
           NEW h, Folds(h, S, pick, step, base)
    PROVE  h \in [SUBSET S -> V]
<1>. DEFINE Outside == {s \in SUBSET S : h[s] \notin V}
<1>. SUFFICES ASSUME Outside # {} PROVE FALSE
  BY DEF Folds
<1>1. Outside \in SUBSET SUBSET S
  OBVIOUS
<1>. HIDE DEF Outside
<1>2. PICK s \in Outside : \A r \in Outside : r \subseteq s => r = s
  BY <1>1, MinimalSet
<1>3. s \in SUBSET S /\ h[s] \notin V
  BY <1>2 DEF Outside
<1>4. s # {}
  BY <1>3 DEF Folds
<1>5. pick[s] \in s
  BY <1>3, <1>4 DEF Picks
<1>6. h[s \ {pick[s]}] \in V
  BY <1>2, <1>3, <1>5 DEF Outside
<1>7. h[s] = step[pick[s]][h[s \ {pick[s]}]]
  BY <1>3, <1>4 DEF Folds
<1>. QED BY <1>3, <1>5, <1>6, <1>7

-----------------------------------------------------------------------------
(***************************************************************************)
(* Sums of the values of a function.                                       *)
(***************************************************************************)
Choice(s) == CHOOSE x \in s : TRUE

\* g sums up the subsets of S as SumFunctionOnSet does, one chosen element after another.
Sums(g, w, S) ==
    g = [s \in SUBSET S |-> IF s = {} THEN 0 ELSE w[Choice(s)] + g[s \ {Choice(s)}]]

AddsUp(g, w, S) ==
    /\ g \in [SUBSET S -> Int] /\ g[{}] = 0
    /\ \A s \in (SUBSET S) \ {{}} :
          Choice(s) \in s /\ g[s] = w[Choice(s)] + g[s \ {Choice(s)}]

LEMMA SumsType ==
    ASSUME NEW S, IsFiniteSet(S), NEW w, \A x \in S : w[x] \in Int, NEW g, Sums(g, w, S)
    PROVE  AddsUp(g, w, S)
<1>1. \A s \in (SUBSET S) \ {{}} : Choice(s) \in s
  BY DEF Choice
<1>. DEFINE Outside == {s \in SUBSET S : g[s] \notin Int}
<1>2. Outside = {}
  <2>. SUFFICES ASSUME Outside # {} PROVE FALSE
    OBVIOUS
  <2>1. Outside \in SUBSET SUBSET S
    OBVIOUS
  <2>. HIDE DEF Outside
  <2>2. PICK s \in Outside : \A r \in Outside : r \subseteq s => r = s
    BY <2>1, MinimalSet
  <2>3. s \in SUBSET S /\ g[s] \notin Int
    BY <2>2 DEF Outside
  <2>4. s # {}
    BY <2>3 DEF Sums
  <2>. DEFINE r == s \ {Choice(s)}
  <2>5. Choice(s) \in s
    BY <1>1, <2>3, <2>4
  <2>6. g[r] \in Int
    BY <2>2, <2>3, <2>5 DEF Outside
  <2>7. g[s] = w[Choice(s)] + g[r]
    BY <2>3, <2>4 DEF Sums
  <2>. QED BY <2>3, <2>5, <2>6, <2>7
<1>. QED BY <1>1, <1>2 DEF Sums, AddsUp

LEMMA SumExists ==
    ASSUME NEW S, IsFiniteSet(S), NEW w, \A x \in S : w[x] \in Int
    PROVE  \E g : AddsUp(g, w, S) /\ SumFunctionOnSet(w, S) = g[S]
<1>. DEFINE pick == [s \in SUBSET S |-> Choice(s)]
            step == [x \in S |-> [v \in Int |-> w[x] + v]]
<1>1. \A s \in (SUBSET S) \ {{}} : Choice(s) \in s
  BY DEF Choice
<1>2. Picks(pick, S)
  BY <1>1 DEF Picks
<1>3. \A x \in S, v \in Int : step[x][v] \in Int /\ step[x][v] = w[x] + v
  OBVIOUS
<1>4. \A s \in SUBSET S : pick[s] = Choice(s)
  OBVIOUS
<1>. HIDE DEF pick, step
<1>5. PICK h : Folds(h, S, pick, step, 0)
  BY <1>2, FoldExists
<1>6. h \in [SUBSET S -> Int]
  <2>1. \A x \in S, v \in Int : step[x][v] \in Int
    BY <1>3
  <2>2. 0 \in Int
    OBVIOUS
  <2>. QED BY <1>2, <1>5, <2>1, <2>2, FoldType
<1>7. ASSUME NEW s \in SUBSET S
      PROVE  h[s] = IF s = {} THEN 0 ELSE w[Choice(s)] + h[s \ {Choice(s)}]
  <2>1. h[s] = IF s = {} THEN 0 ELSE step[pick[s]][h[s \ {pick[s]}]]
    BY <1>5 DEF Folds
  <2>2. CASE s = {}
    BY <2>1, <2>2
  <2>3. CASE s # {}
    <3>1. Choice(s) \in S /\ h[s \ {Choice(s)}] \in Int
      BY <1>1, <1>6, <2>3
    <3>. QED BY <1>3, <1>4, <2>1, <2>3, <3>1
  <2>. QED BY <2>2, <2>3
<1>8. Sums(h, w, S)
  BY <1>6, <1>7 DEF Sums
<1>. DEFINE g == CHOOSE g : Sums(g, w, S)
<1>9. Sums(g, w, S)
  BY <1>8
<1>10. SumFunctionOnSet(w, S) = g[S]
  BY DEF SumFunctionOnSet, FoldFunctionOnSet, MapThenFoldSet, Sums, Choice
<1>. HIDE DEF g
<1>11. AddsUp(g, w, S)
  BY <1>9, SumsType
<1>. QED BY <1>10, <1>11

\* Two functions that differ at one place differ in their sums by what they differ there.
LEMMA SumChangesAt ==
    ASSUME NEW S, IsFiniteSet(S), NEW a,
           NEW w, \A x \in S : w[x] \in Int, NEW v, \A x \in S : v[x] \in Int,
           \A x \in S \ {a} : v[x] = w[x]
    PROVE  /\ SumFunctionOnSet(w, S) \in Int
           /\ SumFunctionOnSet(v, S)
                 = SumFunctionOnSet(w, S) + (IF a \in S THEN v[a] - w[a] ELSE 0)
<1>1. PICK g : AddsUp(g, w, S) /\ SumFunctionOnSet(w, S) = g[S]
  BY SumExists
<1>2. PICK h : AddsUp(h, v, S) /\ SumFunctionOnSet(v, S) = h[S]
  BY SumExists
<1>. DEFINE Wrong == {s \in SUBSET S : h[s] # g[s] + (IF a \in s THEN v[a] - w[a] ELSE 0)}
<1>5. Wrong = {}
  <2>. SUFFICES ASSUME Wrong # {} PROVE FALSE
    OBVIOUS
  <2>1. Wrong \in SUBSET SUBSET S
    OBVIOUS
  <2>. HIDE DEF Wrong
  <2>2. PICK s \in Wrong : \A r \in Wrong : r \subseteq s => r = s
    BY <2>1, MinimalSet
  <2>3. s \in SUBSET S /\ h[s] # g[s] + (IF a \in s THEN v[a] - w[a] ELSE 0)
    BY <2>2 DEF Wrong
  <2>4. s # {}
    <3>. SUFFICES ASSUME s = {} PROVE FALSE
      OBVIOUS
    <3>1. g[{}] = 0 /\ h[{}] = 0
      BY <1>1, <1>2 DEF AddsUp
    <3>. QED BY <2>3, <3>1
  <2>. DEFINE x == Choice(s)
              r == s \ {x}
  <2>5. x \in s /\ g[s] = w[x] + g[r] /\ h[s] = v[x] + h[r]
    BY <1>1, <1>2, <2>3, <2>4 DEF AddsUp
  <2>6. r \in SUBSET S /\ r \subseteq s /\ r # s
    BY <2>3, <2>5
  <2>. HIDE DEF x
  <2>7. h[r] = g[r] + (IF a \in r THEN v[a] - w[a] ELSE 0)
    BY <2>2, <2>6 DEF Wrong
  <2>8. g[r] \in Int /\ h[r] \in Int /\ w[x] \in Int /\ v[x] \in Int
    BY <1>1, <1>2, <2>3, <2>5, <2>6 DEF AddsUp
  <2>9. CASE x = a
    <3>1. a \in s /\ a \notin r
      BY <2>5, <2>9
    <3>. QED BY <2>3, <2>5, <2>7, <2>8, <2>9, <3>1
  <2>10. CASE x # a
    <3>1. v[x] = w[x] /\ (a \in s <=> a \in r)
      BY <2>3, <2>5, <2>10
    <3>2. a \in s => v[a] \in Int /\ w[a] \in Int
      BY <2>3
    <3>. QED BY <2>3, <2>5, <2>7, <2>8, <3>1, <3>2
  <2>. QED BY <2>9, <2>10
<1>6. g[S] \in Int
  BY <1>1 DEF AddsUp
<1>. QED BY <1>1, <1>2, <1>5, <1>6

LEMMA SumStays ==
    ASSUME NEW S, IsFiniteSet(S), NEW w, NEW v, \A x \in S : w[x] \in Int /\ v[x] = w[x]
    PROVE  SumFunctionOnSet(v, S) = SumFunctionOnSet(w, S)
<1>1. /\ \A x \in S : w[x] \in Int
      /\ \A x \in S : v[x] \in Int
      /\ \A x \in S \ {0} : v[x] = w[x]
  OBVIOUS
<1>2. /\ SumFunctionOnSet(w, S) \in Int
      /\ SumFunctionOnSet(v, S)
            = SumFunctionOnSet(w, S) + (IF 0 \in S THEN v[0] - w[0] ELSE 0)
  BY <1>1, SumChangesAt
<1>3. 0 \in S => v[0] - w[0] = 0
  OBVIOUS
<1>. QED BY <1>2, <1>3

\* A function that is nowhere above another, but for one place where it is at most d above
\* it, has a sum at most d above the other's.
LEMMA SumAtMost ==
    ASSUME NEW S, IsFiniteSet(S), NEW a, NEW d \in Nat,
           NEW w, \A x \in S : w[x] \in Int, NEW v, \A x \in S : v[x] \in Int,
           \A x \in S : v[x] <= w[x] + (IF x = a THEN d ELSE 0)
    PROVE  /\ SumFunctionOnSet(w, S) \in Int /\ SumFunctionOnSet(v, S) \in Int
           /\ SumFunctionOnSet(v, S) <= SumFunctionOnSet(w, S) + d
<1>1. PICK g : AddsUp(g, w, S) /\ SumFunctionOnSet(w, S) = g[S]
  BY SumExists
<1>2. PICK h : AddsUp(h, v, S) /\ SumFunctionOnSet(v, S) = h[S]
  BY SumExists
<1>. DEFINE Above == {s \in SUBSET S : ~ h[s] <= g[s] + (IF a \in s THEN d ELSE 0)}
<1>3. Above = {}
  <2>. SUFFICES ASSUME Above # {} PROVE FALSE
    OBVIOUS
  <2>1. Above \in SUBSET SUBSET S
    OBVIOUS
  <2>. HIDE DEF Above
  <2>2. PICK s \in Above : \A r \in Above : r \subseteq s => r = s
    BY <2>1, MinimalSet
  <2>3. s \in SUBSET S /\ ~ h[s] <= g[s] + (IF a \in s THEN d ELSE 0)
    BY <2>2 DEF Above
  <2>4. s # {}
    <3>. SUFFICES ASSUME s = {} PROVE FALSE
      OBVIOUS
    <3>1. g[{}] = 0 /\ h[{}] = 0
      BY <1>1, <1>2 DEF AddsUp
    <3>. QED BY <2>3, <3>1
  <2>. DEFINE x == Choice(s)
              r == s \ {x}
  <2>5. x \in s /\ g[s] = w[x] + g[r] /\ h[s] = v[x] + h[r]
    BY <1>1, <1>2, <2>3, <2>4 DEF AddsUp
  <2>6. r \in SUBSET S /\ r \subseteq s /\ r # s
    BY <2>3, <2>5
  <2>. HIDE DEF x
  <2>7. h[r] <= g[r] + (IF a \in r THEN d ELSE 0)
    BY <2>2, <2>6 DEF Above
  <2>8. g[r] \in Int /\ h[r] \in Int /\ w[x] \in Int /\ v[x] \in Int
    BY <1>1, <1>2, <2>3, <2>5, <2>6 DEF AddsUp
  <2>9. v[x] <= w[x] + (IF x = a THEN d ELSE 0)
    BY <2>3, <2>5
  <2>10. CASE x = a
    <3>1. a \in s /\ a \notin r
      BY <2>5, <2>10
    <3>. QED BY <2>3, <2>5, <2>7, <2>8, <2>9, <2>10, <3>1
  <2>11. CASE x # a
    <3>1. a \in s <=> a \in r
      BY <2>5, <2>11
    <3>. QED BY <2>3, <2>5, <2>7, <2>8, <2>9, <2>11, <3>1
  <2>. QED BY <2>10, <2>11
<1>4. h[S] <= g[S] + (IF a \in S THEN d ELSE 0)
  BY <1>3
<1>5. g[S] \in Int /\ h[S] \in Int
  BY <1>1, <1>2 DEF AddsUp
<1>. QED BY <1>1, <1>2, <1>4, <1>5

\* A sum of nothing.
LEMMA SumOfZeros ==
    ASSUME NEW S, IsFiniteSet(S), NEW w, \A x \in S : w[x] = 0
    PROVE  SumFunctionOnSet(w, S) = 0
<1>1. \A x \in S : w[x] \in Int
  OBVIOUS
<1>2. PICK g : AddsUp(g, w, S) /\ SumFunctionOnSet(w, S) = g[S]
  BY <1>1, SumExists
<1>. DEFINE Wrong == {s \in SUBSET S : g[s] # 0}
<1>3. Wrong = {}
  <2>. SUFFICES ASSUME Wrong # {} PROVE FALSE
    OBVIOUS
  <2>1. Wrong \in SUBSET SUBSET S
    OBVIOUS
  <2>. HIDE DEF Wrong
  <2>2. PICK s \in Wrong : \A r \in Wrong : r \subseteq s => r = s
    BY <2>1, MinimalSet
  <2>3. s \in SUBSET S /\ g[s] # 0 /\ s # {}
    BY <1>2, <2>2 DEF Wrong, AddsUp
  <2>4. Choice(s) \in s /\ g[s] = w[Choice(s)] + g[s \ {Choice(s)}]
    BY <1>2, <2>3 DEF AddsUp
  <2>5. g[s \ {Choice(s)}] = 0
    BY <2>2, <2>3, <2>4 DEF Wrong
  <2>6. w[Choice(s)] = 0
    BY <2>3, <2>4
  <2>. QED BY <2>3, <2>4, <2>5, <2>6
<1>. QED BY <1>2, <1>3

-----------------------------------------------------------------------------
(***************************************************************************)
(* Folds of sequences, from left to right.                                 *)
(***************************************************************************)
\* Induction over numbers, with a set for the counterexamples.
LEMMA LeastNumber ==
    ASSUME NEW Bad \in SUBSET Nat, Bad # {}
    PROVE  \E k \in Bad : k # 0 => k - 1 \notin Bad
<1>1. PICK n \in Nat : n \in Bad
  OBVIOUS
<1>. DEFINE Family == {1..k : k \in Bad \cap 0..n}
<1>2. Family \in SUBSET SUBSET (1..n) /\ Family # {}
  BY <1>1
<1>3. IsFiniteSet(1..n)
  BY <1>1, FS_Interval
<1>4. \E T \in Family : \A U \in Family : U \subseteq T => U = T
  <2>. DEFINE S == 1..n
  <2>1. IsFiniteSet(S) /\ Family \in SUBSET SUBSET S /\ Family # {}
    BY <1>2, <1>3
  <2>. HIDE DEF Family, S
  <2>. QED BY <2>1, MinimalSet
<1>5. PICK T \in Family : \A U \in Family : U \subseteq T => U = T
  BY <1>4
<1>6. PICK k \in Bad \cap 0..n : T = 1..k
  BY <1>5
<1>7. ASSUME k # 0, k - 1 \in Bad PROVE FALSE
  <2>1. k - 1 \in Bad \cap 0..n
    BY <1>1, <1>5, <1>6, <1>7
  <2>2. 1..(k - 1) \in Family /\ 1..(k - 1) \subseteq T
    BY <2>1, <1>5, <1>6, <1>1
  <2>3. 1..(k - 1) = 1..k
    BY <2>2, <1>5, <1>6
  <2>4. k \in 1..k /\ k \notin 1..(k - 1)
    BY <1>5, <1>6, <1>7, <1>1
  <2>. QED BY <2>3, <2>4
<1>. QED BY <1>6, <1>7

LEMMA MaxIsIn ==
    ASSUME NEW n \in Nat, NEW s \in SUBSET (1..n), s # {}
    PROVE  Max(s) \in s /\ \A y \in s : Max(s) >= y
<1>. DEFINE Bad == {m \in Nat : \E y \in s : y >= n - m}
<1>2. Bad \in SUBSET Nat /\ Bad # {}
  <2>1. PICK y \in s : y \in 1..n
    OBVIOUS
  <2>2. n \in Nat /\ y >= n - n
    BY <2>1
  <2>. QED BY <2>2
<1>. HIDE DEF Bad
<1>3. PICK m \in Bad : m # 0 => m - 1 \notin Bad
  BY <1>2, LeastNumber
<1>4. PICK x \in s : x >= n - m
  BY <1>3 DEF Bad
<1>5. ASSUME NEW y \in s PROVE x >= y
  <2>1. x \in 1..n /\ y \in 1..n /\ m \in Nat
    BY <1>2
  <2>2. CASE m = 0
    BY <2>1, <2>2, <1>4
  <2>3. CASE m # 0
    <3>1. m - 1 \in Nat /\ m - 1 \notin Bad
      BY <1>3, <2>1, <2>3
    <3>2. ~ y >= n - (m - 1)
      BY <3>1 DEF Bad
    <3>. QED BY <3>2, <2>1, <1>4
  <2>. QED BY <2>2, <2>3
<1>6. \E x0 \in s : \A y \in s : x0 >= y
  BY <1>5
<1>. QED BY <1>6 DEF Max

\* h takes the places of seq in a set from the last to the first, as FoldLeft does.
TakesLast(h, seq, step, base) ==
    \A s \in SUBSET DOMAIN seq :
        h[s] = IF s = {} THEN base ELSE step[seq[Max(s)]][h[s \ {Max(s)}]]

LEMMA FoldLeftExists ==
    ASSUME NEW E, NEW Acc, NEW seq \in Seq(E), NEW base \in Acc,
           NEW step, \A x \in E, v \in Acc : step[x][v] \in Acc
    PROVE  \E h \in [SUBSET DOMAIN seq -> Acc] : TakesLast(h, seq, step, base)
<1>. DEFINE S == DOMAIN seq
            pick == [s \in SUBSET S |-> Max(s)]
            at == [i \in S |-> step[seq[i]]]
<1>1. S = 1..Len(seq) /\ Len(seq) \in Nat
  OBVIOUS
<1>2. IsFiniteSet(S)
  BY <1>1, FS_Interval
<1>3. Picks(pick, S)
  BY <1>1, MaxIsIn DEF Picks
<1>4. \A i \in S, v \in Acc : at[i][v] \in Acc
  OBVIOUS
<1>5. \A s \in (SUBSET S) \ {{}} : pick[s] = Max(s) /\ Max(s) \in S /\ at[Max(s)] = step[seq[Max(s)]]
  BY <1>1, MaxIsIn
<1>. HIDE DEF pick, at, S
<1>6. PICK h : Folds(h, S, pick, at, base)
  BY <1>2, <1>3, FoldExists
<1>7. h \in [SUBSET S -> Acc]
  BY <1>2, <1>3, <1>4, <1>6, FoldType
<1>8. \A s \in SUBSET S :
         h[s] = IF s = {} THEN base ELSE at[pick[s]][h[s \ {pick[s]}]]
  BY <1>6 DEF Folds
<1>9. TakesLast(h, seq, step, base)
  <2>1. \A s \in SUBSET S : s # {} => h[s] = step[seq[Max(s)]][h[s \ {Max(s)}]]
    <3>. SUFFICES ASSUME NEW s \in SUBSET S, s # {}
                  PROVE  h[s] = step[seq[Max(s)]][h[s \ {Max(s)}]]
      OBVIOUS
    <3>1. s \in (SUBSET S) \ {{}}
      OBVIOUS
    <3>2. pick[s] = Max(s) /\ at[Max(s)] = step[seq[Max(s)]]
      BY <3>1, <1>5
    <3>3. h[s] = at[pick[s]][h[s \ {pick[s]}]]
      BY <1>8
    <3>. HIDE <1>8
    <3>. QED BY <3>2, <3>3
  <2>2. h[{}] = base
    BY <1>8
  <2>. QED BY <2>1, <2>2 DEF TakesLast, S
<1>. QED BY <1>7, <1>9 DEF S

\* The same for the first places: what the fold has come to after each of them.
FoldsOn(t, h, seq, step, base) ==
    /\ t[0] = base /\ t[Len(seq)] = h[DOMAIN seq]
    /\ \A k \in 1..Len(seq) : t[k] = step[seq[k]][t[k - 1]]

LEMMA FoldLeftGoesOn ==
    ASSUME NEW E, NEW Acc, NEW seq \in Seq(E), NEW base, NEW step,
           NEW h \in [SUBSET DOMAIN seq -> Acc], TakesLast(h, seq, step, base)
    PROVE  \E t \in [0..Len(seq) -> Acc] : FoldsOn(t, h, seq, step, base)
<1>. DEFINE n == Len(seq)
            t == [k \in 0..n |-> h[1..k]]
<1>1. DOMAIN seq = 1..n /\ n \in Nat
  OBVIOUS
<1>. HIDE DEF n
<1>2. t \in [0..n -> Acc]
  BY <1>1
<1>3. t[0] = base /\ t[n] = h[DOMAIN seq]
  <2>1. 1..0 = {} /\ 0 \in 0..n /\ n \in 0..n
    BY <1>1
  <2>2. h[{}] = base
    BY DEF TakesLast
  <2>. QED BY <2>1, <2>2, <1>1
<1>4. ASSUME NEW k \in 1..n PROVE t[k] = step[seq[k]][t[k - 1]]
  <2>1. 1..k \in SUBSET (1..n) /\ k \in 1..k
    BY <1>1
  <2>2. Max(1..k) \in 1..k /\ Max(1..k) >= k
    BY <2>1, <1>1, MaxIsIn
  <2>3. Max(1..k) = k
    BY <2>2, <1>1
  <2>4. (1..k) \ {k} = 1..(k - 1) /\ k - 1 \in 0..n /\ k \in 0..n
    BY <1>1
  <2>5. h[1..k] = step[seq[k]][h[1..(k - 1)]]
    BY <2>1, <2>3, <2>4, <1>1 DEF TakesLast
  <2>. QED BY <2>4, <2>5
<1>5. FoldsOn(t, h, seq, step, base)
  BY <1>3, <1>4 DEF FoldsOn, n
<1>. QED BY <1>2, <1>5 DEF n

=============================================================================
