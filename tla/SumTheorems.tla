------------------------------ MODULE SumTheorems ------------------------------
(***************************************************************************)
(* Sums of numbers over finite sets, as SumFunctionOnSet and SumFunction   *)
(* of the Functions module fold them: adding an element adds its number,   *)
(* whichever element the fold chooses first.                               *)
(*                                                                         *)
(* Induction over the finite subsets is by a minimal counterexample.       *)
(***************************************************************************)
EXTENDS Sums, FiniteSetTheorems, TLAPS

(* A non-empty set of finite sets has a minimal one. *)
LEMMA MinimalSet ==
  ASSUME NEW S, IsFiniteSet(S), NEW B \in SUBSET (SUBSET S), B # {}
  PROVE  \E T \in B : \A U \in B : ~(U \subseteq T /\ U # T)
<1>1. IsWellFoundedOn(StrictSubsetOrdering(S), SUBSET S)
  BY FS_StrictSubsetOrderingWellFounded, FS_FiniteSubsetsOfFinite
<1>2. PICK T \in B : \A U \in B : <<U, T>> \notin StrictSubsetOrdering(S)
  BY <1>1, WFMin
<1>3. ASSUME NEW U \in B, U \subseteq T, U # T
      PROVE  <<U, T>> \in StrictSubsetOrdering(S)
  <2>1. <<U, T>> \in (SUBSET S) \X (SUBSET S)
    OBVIOUS
  <2>. QED
    BY <2>1, <1>3 DEF StrictSubsetOrdering
<1>4. \A U \in B : ~(U \subseteq T /\ U # T)
  BY <1>2, <1>3
<1>. QED
  BY <1>4

--------------------------------------------------------------------------------
\* The fold is a function that satisfies its equation.

Pick(s) == CHOOSE x \in s : TRUE

Rest(s) == s \ {Pick(s)}

IsFold(g, f, S) ==
    g = [s \in SUBSET S |-> IF s = {} THEN 0 ELSE f[Pick(s)] + g[Rest(s)]]

TheFold(f, S) == CHOOSE g : IsFold(g, f, S)

LEMMA PickRest ==
  ASSUME NEW s, s # {}
  PROVE  /\ Pick(s) \in s
         /\ Rest(s) \subseteq s
         /\ Rest(s) # s
BY DEF Pick, Rest

LEMMA FoldAt ==
  ASSUME NEW f, NEW S, NEW g, IsFold(g, f, S), NEW s \in SUBSET S
  PROVE  g[s] = IF s = {} THEN 0 ELSE f[Pick(s)] + g[Rest(s)]
BY DEF IsFold

(* Two folds agree where both are defined. *)
LEMMA FoldUnique ==
  ASSUME NEW f, NEW S, IsFiniteSet(S), NEW T, NEW g, NEW h,
         IsFold(g, f, S), IsFold(h, f, T),
         NEW u \in SUBSET S, u \subseteq T
  PROVE  g[u] = h[u]
<1> DEFINE Bad == {s \in SUBSET u : g[s] # h[s]}
<1>1. SUFFICES ASSUME Bad # {} PROVE FALSE
  OBVIOUS
<1>2. IsFiniteSet(u)
  BY FS_Subset
<1>3. PICK s \in Bad : \A r \in Bad : ~(r \subseteq s /\ r # s)
  <2> HIDE DEF Bad
  <2>1. Bad \in SUBSET (SUBSET u)
    BY DEF Bad
  <2>. QED
    BY <1>1, <1>2, <2>1, MinimalSet
<1>4. s # {}
  BY FoldAt
<1>5. Rest(s) \in SUBSET u /\ Rest(s) \notin Bad
  BY <1>3, <1>4, PickRest
<1>6. g[Rest(s)] = h[Rest(s)]
  BY <1>5
<1>. QED
  BY <1>4, <1>6, FoldAt

LEMMA FoldExists ==
  ASSUME NEW f, NEW S, IsFiniteSet(S)
  PROVE  \E g : IsFold(g, f, S)
<1> DEFINE Bad == {s \in SUBSET S : ~\E g : IsFold(g, f, s)}
<1>1. SUFFICES ASSUME Bad # {} PROVE FALSE
  OBVIOUS
<1>2. PICK T \in Bad : \A r \in Bad : ~(r \subseteq T /\ r # T)
  <2> HIDE DEF Bad
  <2>1. Bad \in SUBSET (SUBSET S)
    BY DEF Bad
  <2>. QED
    BY <1>1, <2>1, MinimalSet
<1>3. ASSUME NEW r \in SUBSET T, r # T
      PROVE  IsFold(TheFold(f, r), f, r)
  BY <1>2, <1>3 DEF TheFold
<1> DEFINE h == [s \in SUBSET T |->
                   IF s = {} THEN 0 ELSE f[Pick(s)] + TheFold(f, Rest(s))[Rest(s)]]
<1>4. ASSUME NEW s \in SUBSET T, s # {}
      PROVE  h[Rest(s)] = TheFold(f, Rest(s))[Rest(s)]
  <2> DEFINE r == Rest(s)
  <2>1. r \in SUBSET T /\ r # T /\ r \in SUBSET s
    BY <1>4, PickRest
  <2>2. IsFold(TheFold(f, r), f, r)
    BY <1>3, <2>1
  <2>3. CASE r = {}
    <3>1. TheFold(f, r)[r] = 0
      BY <2>2, <2>3, FoldAt
    <3>. QED
      BY <3>1, <2>1, <2>3
  <2>4. CASE r # {}
    <3>1. Rest(r) \in SUBSET r /\ Rest(r) # T /\ Rest(r) \in SUBSET T
      BY <2>1, <2>4, PickRest
    <3>2. IsFold(TheFold(f, Rest(r)), f, Rest(r))
      BY <1>3, <3>1
    <3>3. IsFiniteSet(r)
      BY <2>1, FS_Subset
    <3>4. TheFold(f, r)[Rest(r)] = TheFold(f, Rest(r))[Rest(r)]
      BY <2>2, <3>1, <3>2, <3>3, FoldUnique
    <3>5. TheFold(f, r)[r] = f[Pick(r)] + TheFold(f, r)[Rest(r)]
      BY <2>2, <2>4, FoldAt
    <3>6. h[r] = f[Pick(r)] + TheFold(f, Rest(r))[Rest(r)]
      BY <2>1, <2>4
    <3>. QED
      BY <3>4, <3>5, <3>6
  <2>. QED
    BY <2>3, <2>4
<1>5. IsFold(h, f, T)
  <2>1. ASSUME NEW s \in SUBSET T
        PROVE  h[s] = IF s = {} THEN 0 ELSE f[Pick(s)] + h[Rest(s)]
    <3>1. CASE s = {}
      BY <3>1
    <3>2. CASE s # {}
      <4>1. h[s] = f[Pick(s)] + TheFold(f, Rest(s))[Rest(s)]
        BY <3>2
      <4>. QED
        BY <4>1, <3>2, <1>4
    <3>. QED
      BY <3>1, <3>2
  <2> HIDE DEF h
  <2>2. h = [s \in SUBSET T |-> h[s]]
    BY DEF h
  <2>. QED
    BY <2>1, <2>2 DEF IsFold
<1>. QED
  BY <1>5, <1>2

--------------------------------------------------------------------------------
\* Sums over a set of indices.

LEMMA SumIsFold ==
  ASSUME NEW f, NEW S
  PROVE  SumFunctionOnSet(f, S) = TheFold(f, S)[S]
BY DEF SumFunctionOnSet, FoldFunctionOnSet, MapThenFoldSet, TheFold, IsFold, Pick, Rest

LEMMA SumOverEmpty ==
  ASSUME NEW f
  PROVE  SumFunctionOnSet(f, {}) = 0
<1>1. IsFold(TheFold(f, {}), f, {})
  BY FoldExists, FS_EmptySet DEF TheFold
<1>. QED
  BY <1>1, FoldAt, SumIsFold

LEMMA SumUnfolds ==
  ASSUME NEW f, NEW S, IsFiniteSet(S), S # {}
  PROVE  SumFunctionOnSet(f, S) = f[Pick(S)] + SumFunctionOnSet(f, Rest(S))
<1>1. IsFiniteSet(Rest(S)) /\ Rest(S) \in SUBSET S
  BY PickRest, FS_Subset
<1>2. IsFold(TheFold(f, S), f, S) /\ IsFold(TheFold(f, Rest(S)), f, Rest(S))
  BY <1>1, FoldExists DEF TheFold
<1>3. TheFold(f, S)[Rest(S)] = TheFold(f, Rest(S))[Rest(S)]
  BY <1>1, <1>2, FoldUnique
<1>4. TheFold(f, S)[S] = f[Pick(S)] + TheFold(f, S)[Rest(S)]
  BY <1>2, FoldAt
<1>. QED
  BY <1>3, <1>4, SumIsFold

(* Only the numbers of the indices count. *)
LEMMA SumAgrees ==
  ASSUME NEW f, NEW g, NEW S, IsFiniteSet(S), \A x \in S : f[x] = g[x]
  PROVE  SumFunctionOnSet(f, S) = SumFunctionOnSet(g, S)
<1> DEFINE Bad == {s \in SUBSET S : SumFunctionOnSet(f, s) # SumFunctionOnSet(g, s)}
<1>1. SUFFICES ASSUME Bad # {} PROVE FALSE
  OBVIOUS
<1>2. PICK s \in Bad : \A r \in Bad : ~(r \subseteq s /\ r # s)
  <2> HIDE DEF Bad
  <2>1. Bad \in SUBSET (SUBSET S)
    BY DEF Bad
  <2>. QED
    BY <1>1, <2>1, MinimalSet
<1>3. s # {}
  BY SumOverEmpty
<1>4. IsFiniteSet(s)
  BY FS_Subset
<1>5. Pick(s) \in S /\ Rest(s) \in SUBSET S /\ Rest(s) \notin Bad
  BY <1>2, <1>3, PickRest
<1>6. SumFunctionOnSet(f, Rest(s)) = SumFunctionOnSet(g, Rest(s))
  BY <1>5
<1>. QED
  BY <1>3, <1>4, <1>5, <1>6, SumUnfolds

LEMMA SumOverType ==
  ASSUME NEW f, NEW S, IsFiniteSet(S), NEW N, N \in {Nat, Int, {0}}, \A x \in S : f[x] \in N
  PROVE  SumFunctionOnSet(f, S) \in N
<1> DEFINE Bad == {s \in SUBSET S : SumFunctionOnSet(f, s) \notin N}
<1>1. SUFFICES ASSUME Bad # {} PROVE FALSE
  OBVIOUS
<1>2. PICK s \in Bad : \A r \in Bad : ~(r \subseteq s /\ r # s)
  <2> HIDE DEF Bad
  <2>1. Bad \in SUBSET (SUBSET S)
    BY DEF Bad
  <2>. QED
    BY <1>1, <2>1, MinimalSet
<1>3. s # {}
  BY SumOverEmpty
<1>4. IsFiniteSet(s)
  BY FS_Subset
<1>5. Pick(s) \in S /\ Rest(s) \in SUBSET S /\ Rest(s) \notin Bad
  BY <1>2, <1>3, PickRest
<1>6. SumFunctionOnSet(f, Rest(s)) \in N /\ f[Pick(s)] \in N
  BY <1>5
<1>. QED
  BY <1>3, <1>4, <1>6, SumUnfolds

(* An index can be taken out, not only the one the fold chooses. *)
LEMMA SumTakesOut ==
  ASSUME NEW f, NEW S, IsFiniteSet(S), \A y \in S : f[y] \in Int, NEW x \in S
  PROVE  SumFunctionOnSet(f, S) = f[x] + SumFunctionOnSet(f, S \ {x})
<1> DEFINE Bad == {s \in SUBSET S : \E y \in s :
                     SumFunctionOnSet(f, s) # f[y] + SumFunctionOnSet(f, s \ {y})}
<1>1. SUFFICES ASSUME Bad # {} PROVE FALSE
  OBVIOUS
<1>2. PICK s \in Bad : \A r \in Bad : ~(r \subseteq s /\ r # s)
  <2> HIDE DEF Bad
  <2>1. Bad \in SUBSET (SUBSET S)
    BY DEF Bad
  <2>. QED
    BY <1>1, <2>1, MinimalSet
<1>3. PICK y \in s : SumFunctionOnSet(f, s) # f[y] + SumFunctionOnSet(f, s \ {y})
  OBVIOUS
<1> DEFINE p == Pick(s)
<1>4. IsFiniteSet(s) /\ IsFiniteSet(s \ {y}) /\ IsFiniteSet((s \ {y}) \ {p})
  BY FS_Subset
<1>5. /\ p \in s
      /\ SumFunctionOnSet(f, s) = f[p] + SumFunctionOnSet(f, s \ {p})
  BY <1>3, <1>4, PickRest, SumUnfolds DEF Rest
<1>6. y # p
  BY <1>3, <1>5
<1>7. SumFunctionOnSet(f, s \ {p}) = f[y] + SumFunctionOnSet(f, (s \ {p}) \ {y})
  <2>1. s \ {p} \in SUBSET S /\ s \ {p} \notin Bad
    BY <1>2, <1>5
  <2>. QED
    BY <2>1, <1>6
<1>8. SumFunctionOnSet(f, s \ {y}) = f[p] + SumFunctionOnSet(f, (s \ {y}) \ {p})
  <2>1. s \ {y} \in SUBSET S /\ s \ {y} \notin Bad
    BY <1>2, <1>3
  <2>. QED
    BY <2>1, <1>5, <1>6
<1>9. (s \ {p}) \ {y} = (s \ {y}) \ {p}
  OBVIOUS
<1>10. /\ f[p] \in Int /\ f[y] \in Int
       /\ SumFunctionOnSet(f, (s \ {y}) \ {p}) \in Int
  BY <1>4, <1>5, SumOverType
<1>. QED
  <2> DEFINE a == f[p]
             b == f[y]
             c == SumFunctionOnSet(f, (s \ {y}) \ {p})
  <2>1. /\ SumFunctionOnSet(f, s) = a + (b + c)
        /\ SumFunctionOnSet(f, s \ {y}) = a + c
    BY <1>5, <1>7, <1>8, <1>9
  <2>2. a \in Int /\ b \in Int /\ c \in Int
    BY <1>10
  <2> HIDE DEF a, b, c, p
  <2>3. a + (b + c) = b + (a + c)
    BY <2>2
  <2>4. SumFunctionOnSet(f, s) # b + (a + c)
    BY <1>3, <2>1 DEF b
  <2>. QED
    BY <2>1, <2>3, <2>4

--------------------------------------------------------------------------------
\* Sums of functions.

LEMMA SumEmpty ==
  ASSUME NEW f, DOMAIN f = {}
  PROVE  SumFunction(f) = 0
BY SumOverEmpty DEF SumFunction

LEMMA SumType ==
  ASSUME NEW f, IsFiniteSet(DOMAIN f), NEW N, N \in {Nat, Int, {0}}, \A x \in DOMAIN f : f[x] \in N
  PROVE  SumFunction(f) \in N
BY SumOverType DEF SumFunction

(* A function with one more argument. *)
LEMMA SumExtends ==
  ASSUME NEW f, NEW g, NEW x,
         IsFiniteSet(DOMAIN f), x \notin DOMAIN f, DOMAIN g = DOMAIN f \cup {x},
         \A y \in DOMAIN f : g[y] = f[y],
         \A y \in DOMAIN g : g[y] \in Int
  PROVE  SumFunction(g) = SumFunction(f) + g[x]
<1>1. IsFiniteSet(DOMAIN g)
  BY FS_AddElement
<1>2. SumFunctionOnSet(g, DOMAIN g) = g[x] + SumFunctionOnSet(g, DOMAIN g \ {x})
  BY <1>1, SumTakesOut
<1>3. DOMAIN g \ {x} = DOMAIN f
  OBVIOUS
<1>4. SumFunctionOnSet(g, DOMAIN f) = SumFunctionOnSet(f, DOMAIN f)
  BY SumAgrees
<1>5. SumFunctionOnSet(f, DOMAIN f) \in Int /\ g[x] \in Int
  BY SumOverType
<1>. QED
  BY <1>2, <1>3, <1>4, <1>5 DEF SumFunction

(* A function with another number for one argument. *)
LEMMA SumChanges ==
  ASSUME NEW f, NEW g, NEW x \in DOMAIN f,
         IsFiniteSet(DOMAIN f), DOMAIN g = DOMAIN f,
         \A y \in DOMAIN f \ {x} : g[y] = f[y],
         \A y \in DOMAIN f : f[y] \in Int, g[x] \in Int
  PROVE  SumFunction(g) = SumFunction(f) - f[x] + g[x]
<1> DEFINE rest == DOMAIN f \ {x}
           s == SumFunctionOnSet(f, rest)
<1>1. IsFiniteSet(rest)
  BY FS_RemoveElement
<1>2. s = SumFunctionOnSet(g, rest)
  BY <1>1, SumAgrees
<1>3. /\ SumFunction(f) = f[x] + s
      /\ SumFunction(g) = g[x] + SumFunctionOnSet(g, rest)
  BY SumTakesOut DEF SumFunction
<1>4. s \in Int /\ f[x] \in Int
  BY <1>1, SumOverType
<1> HIDE DEF s, rest
<1>. QED
  BY <1>2, <1>3, <1>4

--------------------------------------------------------------------------------
\* Sums of amounts.

LEMMA AmountsEmpty == SumOfAmounts({}) = 0
BY SumEmpty DEF SumOfAmounts

LEMMA AmountsType ==
  ASSUME NEW S, IsFiniteSet(S), \A x \in S : x.amount \in Nat
  PROVE  SumOfAmounts(S) \in Nat
BY SumType DEF SumOfAmounts

LEMMA AmountsAdd ==
  ASSUME NEW S, IsFiniteSet(S), \A y \in S : y.amount \in Nat,
         NEW x, x \notin S, x.amount \in Nat
  PROVE  SumOfAmounts(S \cup {x}) = SumOfAmounts(S) + x.amount
<1> DEFINE f == [y \in S |-> y.amount]
           g == [y \in S \cup {x} |-> y.amount]
<1>1. SumFunction(g) = SumFunction(f) + g[x]
  BY SumExtends
<1>. QED
  BY <1>1 DEF SumOfAmounts

LEMMA AmountsRemove ==
  ASSUME NEW S, IsFiniteSet(S), \A y \in S : y.amount \in Nat, NEW x \in S
  PROVE  SumOfAmounts(S \ {x}) = SumOfAmounts(S) - x.amount
<1>1. IsFiniteSet(S \ {x}) /\ (S \ {x}) \cup {x} = S
  BY FS_RemoveElement
<1>2. SumOfAmounts(S) = SumOfAmounts(S \ {x}) + x.amount
  BY <1>1, AmountsAdd
<1>3. SumOfAmounts(S \ {x}) \in Nat /\ x.amount \in Nat
  BY <1>1, AmountsType
<1>. QED
  BY <1>2, <1>3
================================================================================
